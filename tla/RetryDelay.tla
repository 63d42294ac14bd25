----------------------------- MODULE RetryDelay -----------------------------
(***************************************************************************)
(* How long the SDKs wait before a retry, and before the next poll of a    *)
(* query: the configuration each accepts, the backoff with its jitter, and *)
(* the server's Retry-After in its place.                                  *)
(*                                                                         *)
(* Times are microseconds; what is finer is dropped.  The jitter ratio is  *)
(* counted in tenths, and the random number is 0, one half or 1: the       *)
(* least, the middle and the greatest wait.                                *)
(*                                                                         *)
(* A Retry-After is known by what the libraries make of its text, Nothing  *)
(* where a library cannot read it:                                         *)
(*                                                                         *)
(*   digits   the number, when the text is decimal digits and no more      *)
(*   number   whether Python's float() takes the text, and                 *)
(*   float    the time it reads, Nothing for an infinity or a NaN          *)
(*   jsDate   the time from now to the date that Date.parse reads,         *)
(*   goDate   that http.ParseTime reads,                                   *)
(*   pyDate   that parsedate_to_datetime reads                             *)
(***************************************************************************)
EXTENDS Integers

CONSTANTS
  Nothing,          \* no reading, no wait asked for
  MaxUint64,        \* the seconds Go's ParseUint can hold
  LongestDuration   \* of Go, some 292 years

ASSUME RetryDelayAssumption ==
  Nothing \notin Int /\ MaxUint64 \in Nat /\ LongestDuration \in Nat

Millisecond == 1000
HalfMillisecond == 500
Second == 1000 * Millisecond

MaxBackoff == 5 * Second
MaxPollDelay == 30 * Second

Least(a, b) == IF a < b THEN a ELSE b
Greatest(a, b) == IF a > b THEN a ELSE b

-----------------------------------------------------------------------------
(* Configuration.  The number of attempts is left to the transports.       *)

\* TypeScript; Python's __post_init__ asks for the same.
NormalizeRetry(c) ==
  /\ c.initial >= 0
  /\ c.maximum >= c.initial
  /\ c.maximum <= MaxBackoff
  /\ c.jitter \in 0..10

\* Go reads a zero as "not given"; with one attempt it has no waits at all.
GoDefaults(c) ==
  [initial |-> IF c.initial = 0 THEN 100 * Millisecond ELSE c.initial,
   maximum |-> IF c.maximum = 0 THEN 2 * Second ELSE c.maximum,
   jitter |-> IF c.jitter = 0 THEN 2 ELSE c.jitter]
GoNormalizeRetry(c) ==
  /\ c.initial >= 0 /\ c.maximum >= 0 /\ c.jitter \in 0..10
  /\ LET given == GoDefaults(c)
     IN  given.initial <= given.maximum /\ given.maximum <= MaxBackoff

-----------------------------------------------------------------------------
(* The backoff before attempt n + 1; half is the random number, doubled.   *)

\* Math.round, to whole milliseconds; a half goes up.
Round(time) == Millisecond * ((time + HalfMillisecond) \div Millisecond)

TsBackoff(c, n, half) ==
  LET base == Least(c.initial * 2 ^ (n - 1), c.maximum)
      spread == (base * c.jitter) \div 10
  IN  Least(c.maximum, Greatest(0, Round(base - spread + half * spread)))

\* Go doubles in a loop and stops at the maximum.
GoBase(c, n) ==
  LET delay[k \in 1..n] ==
        IF k = 1 THEN c.initial
        ELSE IF delay[k - 1] < c.maximum THEN Least(2 * delay[k - 1], c.maximum)
        ELSE delay[k - 1]
  IN  delay[n]
GoBackoff(c, n, half) ==
  LET base == GoBase(c, n)
      spread == (base * c.jitter) \div 10
      jittered == base - spread + half * spread
  IN  IF base <= 0 \/ c.jitter <= 0 THEN base
      ELSE IF jittered < 0 THEN 0
      ELSE Least(jittered, c.maximum)

PyBackoff(c, n, half) ==
  LET base == Least(c.maximum, c.initial * 2 ^ (n - 1))
      jitter == (base * c.jitter) \div 10
  IN  Least(c.maximum, Greatest(0, base + (half - 1) * jitter))

-----------------------------------------------------------------------------
(* Retry-After takes the place of the backoff.  Each SDK reads it for itself. *)

TsRetryAfter(h) ==
  CASE h.digits # Nothing -> Second * h.digits
    [] h.digits = Nothing /\ h.jsDate # Nothing -> Greatest(0, h.jsDate)
    [] OTHER -> Nothing

\* Digits that ParseUint cannot hold are left to http.ParseTime, and no wait is
\* longer than the longest Duration.
GoRetryAfter(h) ==
  CASE h.digits # Nothing /\ h.digits <= MaxUint64 ->
         IF h.digits > LongestDuration \div Second THEN LongestDuration ELSE Second * h.digits
    [] ~(h.digits # Nothing /\ h.digits <= MaxUint64) /\ h.goDate # Nothing ->
         Least(LongestDuration, Greatest(0, h.goDate))
    [] OTHER -> Nothing

\* What float() takes is never tried as a date, whatever number it is.
PyRetryAfter(h) ==
  CASE h.number /\ h.float # Nothing /\ h.float >= 0 -> h.float
    [] ~h.number /\ h.pyDate # Nothing -> Greatest(0, h.pyDate)
    [] OTHER -> Nothing

TsDelay(c, n, half, h) ==
  IF TsRetryAfter(h) # Nothing THEN TsRetryAfter(h) ELSE TsBackoff(c, n, half)
GoDelay(c, n, half, h) ==
  IF GoRetryAfter(h) # Nothing THEN GoRetryAfter(h) ELSE GoBackoff(GoDefaults(c), n, half)
PyDelay(c, n, half, h) ==
  IF PyRetryAfter(h) # Nothing THEN PyRetryAfter(h) ELSE PyBackoff(c, n, half)

\* Only TypeScript and Python poll by themselves; both count a poll before they
\* wait for it.
NextPollUncounted(made) == Greatest(1, made)
NextPoll(made) == made + 1
TsPollDelay(c, made, half, h) == Least(MaxPollDelay, TsDelay(c, NextPoll(made), half, h))
PyPollDelay(c, made, half, h) == Least(MaxPollDelay, PyDelay(c, NextPoll(made), half, h))

-----------------------------------------------------------------------------
(* What was promised.                                                      *)

\* "The retry backoff (initialDelayMs doubling to maxDelayMs, with jitter)",
\* kept to the given grain.
Schedule(c) ==
  LET delay[k \in 1..5] == IF k = 1 THEN c.initial ELSE Least(2 * delay[k - 1], c.maximum)
  IN  delay

OnSchedule(wait, c, n, grain) ==
  LET off == c.jitter * Schedule(c)[n] + 10 * grain
  IN  wait \in 0..c.maximum /\ 10 * (wait - Schedule(c)[n]) \in -off..off

\* HTTP has a Retry-After in two forms, a number of seconds and a date, which
\* every library reads alike.
IsSeconds(h) == h.digits # Nothing
IsDate(h) == /\ ~IsSeconds(h) /\ ~h.number
             /\ h.jsDate # Nothing /\ h.goDate = h.jsDate /\ h.pyDate = h.jsDate
AskedFor(h) == IF IsSeconds(h) THEN Second * h.digits ELSE Greatest(0, h.jsDate)

\* What the libraries make of one text: float() takes all digits, as their
\* number or as an infinity, and a number is never a date of HTTP.
WellRead(h) ==
  /\ IsSeconds(h) => h.number /\ h.float \in {Second * h.digits, Nothing}
  /\ h.number => h.goDate = Nothing
=============================================================================
