------------------------------ MODULE Dispatch ------------------------------
(***************************************************************************)
(* One call through the TypeScript transport, RequestClient.requestJson    *)
(* and dispatch: the attempt loop, the deadline timer, the caller's abort  *)
(* signal, the backoff and Retry-After waits, and how each failure of an   *)
(* attempt becomes a retry or the error the caller sees.                   *)
(*                                                                         *)
(* The clock counts the milliseconds since the call began, so the deadline *)
(* is timeoutMs itself.  fetch, the response stream, the timers and the    *)
(* caller are the environment: each of their steps is an action.           *)
(***************************************************************************)
EXTENDS RetryPolicy

CONSTANTS
  MaxAttempts,    \* retry.maxAttempts
  InitialDelay,   \* retry.initialDelayMs
  MaxDelay,       \* retry.maxDelayMs
  JitterPercent,  \* retry.jitterRatio, in hundredths
  MaxTimer,       \* MAX_TIMER_DELAY_MS, the longest delay a timer can hold
  Timeouts,       \* the timeoutMs values callers pass
  RetryAfters,    \* the Retry-After values servers send, in ms
  ApiErrors,      \* the errors servers answer with
  Horizon         \* bound: the clock stops here

ASSUME DispatchAssumption ==
  /\ MaxAttempts \in 1..5
  /\ InitialDelay \in Nat
  /\ MaxDelay \in Nat
  /\ InitialDelay <= MaxDelay
  /\ JitterPercent \in 0..100
  /\ MaxTimer \in Nat \ {0}
  /\ MaxDelay <= MaxTimer
  /\ Timeouts \subseteq Int
  /\ RetryAfters \subseteq Nat
  /\ Horizon \in Nat

VARIABLES
  now,            \* ms since the call began
  pc,             \* where the call stands
  attempt,        \* the attempts made so far
  timeoutMs,      \* the call's deadline
  retrySafe,      \* may the operation be repeated
  selectorAgrees, \* the body names no other workspace than the client's
  callerAborted,  \* the caller's own signal
  aborted,        \* the signal of the call, AbortController.signal.aborted
  didTimeout,     \* the deadline timer has fired
  answer,         \* the response being read, or the last one read
  waitFrom,       \* when the backoff timer was armed ...
  waitFor,        \* ... and for how long
  header,         \* Connect-Timeout-Ms of the last request
  notBefore,      \* earliest next attempt the server asked for (history)
  outcome         \* what the caller got

input == <<timeoutMs, retrySafe, selectorAgrees>>
signals == <<callerAborted, aborted, didTimeout>>
timer == <<waitFrom, waitFor>>
vars == <<now, pc, attempt, input, signals, answer, timer, header, notBefore,
          outcome>>

-----------------------------------------------------------------------------
(* Timers and delays.                                                      *)

\* No Retry-After header.
None == -1

Least(a, b) == IF a <= b THEN a ELSE b
Greatest(a, b) == IF a >= b THEN a ELSE b

\* setTimeout: a delay that does not fit a signed 32-bit integer fires at once.
SetTimeout(ms) == IF ms \in 1..MaxTimer THEN ms ELSE 1

\* normalizeTimeout refuses what a timer cannot hold.
ValidTimeoutUnbounded(t) == t > 0
ValidTimeout(t) == t > 0 /\ t <= MaxTimer

\* When the deadline timer and the backoff timer expire.
DeadlineAt == SetTimeout(timeoutMs)
WakeAt == waitFrom + waitFor

\* The delays backoffDelay can return before jitter's upper bound is applied:
\* every rounding of base - spread + random * 2 * spread.
Jittered(base) ==
  {d \in 0..(2 * base + 1) :
     /\ 100 * d >= base * (100 - JitterPercent) - 50
     /\ 100 * d <= base * (100 + JitterPercent) + 50}

Backoffs(n) ==
  {Least(MaxDelay, d) : d \in Jittered(Least(InitialDelay * 2^(n - 1), MaxDelay))}

\* Retry-After is a server minimum: it replaces the backoff and is not capped.
RetryDelaysCapped(n, retryAfter) ==
  IF retryAfter # None THEN {Least(retryAfter, MaxDelay)} ELSE Backoffs(n)
RetryDelays(n, retryAfter) ==
  IF retryAfter # None THEN {retryAfter} ELSE Backoffs(n)

\* abortableDelay arms its timer for a delay a timer can hold.
ArmUnclamped(ms) == SetTimeout(ms)
Arm(ms) == SetTimeout(Least(ms, MaxTimer))

\* Connect-Timeout-Ms: the whole budget first, then what is left of it.
ConnectTimeoutUnfloored(n) ==
  IF n = 1 THEN timeoutMs ELSE Least(MaxTimer, timeoutMs - now)
ConnectTimeout(n) ==
  IF n = 1 THEN timeoutMs
           ELSE Least(MaxTimer, Greatest(1, timeoutMs - now))

-----------------------------------------------------------------------------
(* Responses.  One that is not JSON, or not readable to its end, carries   *)
(* nothing but its status line and headers.                                *)

StatusOnly(e) == [e EXCEPT !.code = Absent, !.info = FALSE,
                           !.domain = Absent, !.reason = Absent]

NoError == [status |-> 200, code |-> Absent, info |-> FALSE,
            domain |-> Absent, reason |-> Absent]

NoAnswer == [ok |-> FALSE, err |-> NoError, retryAfter |-> None]

Answers ==
  [ok : {TRUE}, err : {NoError}, retryAfter : RetryAfters \cup {None}]
    \cup [ok : {FALSE}, err : ApiErrors, retryAfter : RetryAfters \cup {None}]

-----------------------------------------------------------------------------
Init ==
  /\ now = 0
  /\ pc = "idle"
  /\ attempt = 0
  /\ timeoutMs \in Timeouts
  /\ retrySafe \in BOOLEAN
  /\ selectorAgrees \in BOOLEAN
  /\ callerAborted = FALSE
  /\ aborted = FALSE
  /\ didTimeout = FALSE
  /\ answer = NoAnswer
  /\ waitFrom = 0
  /\ waitFor = 0
  /\ header = 0
  /\ notBefore = 0
  /\ outcome = "none"

\* What the outer catch makes of an error that is not already Medallion's.
Caught(abortLike) ==
  IF abortLike \/ aborted
    THEN IF didTimeout THEN "MEDALLION_TIMEOUT" ELSE "MEDALLION_ABORTED"
    ELSE "MEDALLION_NETWORK_ERROR"

\* The promise settles; cleanup clears the deadline timer and the listener.
Settle(o) ==
  /\ pc' = "settled"
  /\ outcome' = o
  /\ UNCHANGED <<timer, notBefore>>

\* abortableDelay: an aborted signal rejects, no delay resumes the loop at
\* once, and a positive one arms a timer.
AbortableDelay(ms) ==
  \/ /\ aborted
     /\ pc' = "settled"
     /\ outcome' = Caught(TRUE)
     /\ UNCHANGED timer
  \/ /\ ~aborted
     /\ ms <= 0
     /\ pc' = "top"
     /\ UNCHANGED <<outcome, timer>>
  \/ /\ ~aborted
     /\ ms > 0
     /\ pc' = "waiting"
     /\ waitFrom' = now
     /\ waitFor' = Arm(ms)
     /\ UNCHANGED outcome

WaitToRetry(retryAfter) ==
  /\ \E ms \in RetryDelays(attempt, retryAfter) : AbortableDelay(ms)
  /\ notBefore' = IF retryAfter = None THEN now ELSE now + retryAfter

AttemptsLeftOffByOne == attempt <= MaxAttempts
AttemptsLeft == attempt < MaxAttempts

\* An error answer: retried when the policy allows, thrown otherwise.
ApiFailure(e) ==
  IF AttemptsLeft /\ IsRetryableConnectError(e, retrySafe)
    THEN WaitToRetry(answer.retryAfter)
    ELSE Settle("MEDALLION_API_ERROR")

-----------------------------------------------------------------------------
(* The call.                                                               *)

\* requestJson refuses the call before anything is sent.
Refuse ==
  /\ pc = "idle"
  /\ \/ ~selectorAgrees /\ Settle("MEDALLION_WORKSPACE_SELECTOR_CONFLICT")
     \/ selectorAgrees /\ ~ValidTimeout(timeoutMs)
          /\ Settle("MEDALLION_INVALID_TIMEOUT")
  /\ UNCHANGED <<now, attempt, input, signals, answer, header>>

\* dispatch begins: createSignal follows the caller's signal, arms the deadline.
Start ==
  /\ pc = "idle"
  /\ selectorAgrees
  /\ ValidTimeout(timeoutMs)
  /\ pc' = "top"
  /\ aborted' = callerAborted
  /\ UNCHANGED <<now, attempt, input, callerAborted, didTimeout, answer, timer,
                 header, notBefore, outcome>>

Fetch ==
  /\ pc' = "fetching"
  /\ attempt' = attempt + 1
  /\ header' = ConnectTimeout(attempt + 1)
  /\ answer' = NoAnswer
  /\ UNCHANGED <<now, input, signals, timer, notBefore, outcome>>

\* The top of the loop: throwIfAborted, then fetch.
AttemptUnchecked == pc = "top" /\ Fetch
Attempt ==
  /\ pc = "top"
  /\ \/ /\ aborted
        /\ Settle(Caught(TRUE))
        /\ UNCHANGED <<now, attempt, input, signals, answer, header>>
     \/ ~aborted /\ Fetch

\* fetch rejects: the connection failed, or fetch was aborted (by the signal,
\* or by a limit of its own).
FetchRejects(abortLike) ==
  /\ pc = "fetching"
  /\ IF AttemptsLeft /\ retrySafe /\ ~abortLike /\ ~aborted
       THEN WaitToRetry(None)
       ELSE Settle(Caught(abortLike))
  /\ UNCHANGED <<now, attempt, input, signals, answer, header>>

FetchRedirected ==
  /\ pc = "fetching"
  /\ Settle("MEDALLION_REDIRECT_REJECTED")
  /\ UNCHANGED <<now, attempt, input, signals, answer, header>>

\* The status line and headers of an answer arrive.
FetchResolves(a) ==
  /\ pc = "fetching"
  /\ pc' = "reading"
  /\ answer' = a
  /\ UNCHANGED <<now, attempt, input, signals, timer, header, notBefore, outcome>>

\* The body arrives whole and is JSON (or empty).
BodyDecoded ==
  /\ pc = "reading"
  /\ IF answer.ok THEN Settle("ok") ELSE ApiFailure(answer.err)
  /\ UNCHANGED <<now, attempt, input, signals, answer, header>>

BodyNotJson ==
  /\ pc = "reading"
  /\ IF answer.ok THEN Settle("MEDALLION_INVALID_JSON_RESPONSE")
                  ELSE ApiFailure(StatusOnly(answer.err))
  /\ UNCHANGED <<now, attempt, input, signals, answer, header>>

BodyTooLarge ==
  /\ pc = "reading"
  /\ Settle("MEDALLION_RESPONSE_TOO_LARGE")
  /\ UNCHANGED <<now, attempt, input, signals, answer, header>>

\* The stream fails: the result is unknown, so a success is retried as well.
BodyUnreadable(abortLike) ==
  /\ pc = "reading"
  /\ IF /\ AttemptsLeft /\ retrySafe /\ ~abortLike /\ ~aborted
        /\ \/ answer.ok
           \/ IsRetryableConnectError(StatusOnly(answer.err), TRUE)
       THEN WaitToRetry(answer.retryAfter)
       ELSE Settle(Caught(abortLike))
  /\ UNCHANGED <<now, attempt, input, signals, answer, header>>

-----------------------------------------------------------------------------
(* Time and the caller.  A timer's callback runs only while the call       *)
(* awaits something, late perhaps but never early, and in the order of     *)
(* expiry; two armed for the same delay run in the order they were armed,  *)
(* the deadline's first.                                                   *)

Awaiting == pc \in {"fetching", "reading", "waiting"}

DeadlineFirst ==
  /\ ~didTimeout
  /\ \/ DeadlineAt < WakeAt
     \/ DeadlineAt = WakeAt /\ waitFrom = 0

BackoffExpires ==
  /\ pc = "waiting"
  /\ now >= WakeAt
  /\ ~DeadlineFirst
  /\ pc' = "top"
  /\ UNCHANGED <<now, attempt, input, signals, answer, timer, header, notBefore,
                 outcome>>

\* A wait ends as soon as the signal aborts; nothing else notices by itself.
EndWait(o) ==
  IF pc = "waiting" THEN pc' = "settled" /\ outcome' = o
                    ELSE UNCHANGED <<pc, outcome>>

\* The deadline timer fires: didTimeout, then controller.abort.
DeadlineDue ==
  /\ Awaiting
  /\ ~didTimeout
  /\ now >= DeadlineAt
  /\ ~(pc = "waiting" /\ WakeAt < DeadlineAt)

DeadlineFiresMarkOnly ==
  /\ DeadlineDue
  /\ didTimeout' = TRUE
  /\ UNCHANGED <<now, pc, attempt, input, callerAborted, aborted, answer, timer,
                 header, notBefore, outcome>>
DeadlineFires ==
  /\ DeadlineDue
  /\ didTimeout' = TRUE
  /\ aborted' = TRUE
  /\ EndWait("MEDALLION_TIMEOUT")
  /\ UNCHANGED <<now, attempt, input, callerAborted, answer, timer, header,
                 notBefore>>

CallerAborts ==
  /\ pc # "settled"
  /\ ~callerAborted
  /\ callerAborted' = TRUE
  /\ aborted' = (aborted \/ pc # "idle")
  /\ EndWait("MEDALLION_ABORTED")
  /\ UNCHANGED <<now, attempt, input, didTimeout, answer, timer, header, notBefore>>

\* Time passes only while the call awaits something.
Tick ==
  /\ Awaiting
  /\ now < Horizon
  /\ now' = now + 1
  /\ UNCHANGED <<pc, attempt, input, signals, answer, timer, header, notBefore,
                 outcome>>

Done == pc = "settled" /\ UNCHANGED vars

Next ==
  \/ Refuse
  \/ Start
  \/ Attempt
  \/ \E abortLike \in BOOLEAN : FetchRejects(abortLike)
  \/ FetchRedirected
  \/ \E a \in Answers : FetchResolves(a)
  \/ BodyDecoded
  \/ BodyNotJson
  \/ BodyTooLarge
  \/ \E abortLike \in BOOLEAN : BodyUnreadable(abortLike)
  \/ BackoffExpires
  \/ DeadlineFires
  \/ CallerAborts
  \/ Tick
  \/ Done

Spec == Init /\ [][Next]_vars

\* fetch and the response stream honour the signal they are given.
AbortReachesFetch ==
  aborted /\ \E abortLike \in BOOLEAN :
               FetchRejects(abortLike) \/ BodyUnreadable(abortLike)

FairSpec ==
  /\ Spec
  /\ WF_vars(Attempt)
  /\ WF_vars(Tick)
  /\ WF_vars(BackoffExpires)
  /\ WF_vars(DeadlineFires)
  /\ WF_vars(AbortReachesFetch)

-----------------------------------------------------------------------------
(* What the transport promises.                                            *)

Outcomes ==
  {"none", "ok", "MEDALLION_WORKSPACE_SELECTOR_CONFLICT",
   "MEDALLION_INVALID_TIMEOUT", "MEDALLION_REDIRECT_REJECTED",
   "MEDALLION_RESPONSE_TOO_LARGE", "MEDALLION_INVALID_JSON_RESPONSE",
   "MEDALLION_API_ERROR", "MEDALLION_NETWORK_ERROR", "MEDALLION_TIMEOUT",
   "MEDALLION_ABORTED"}

\* Every variable stays in its domain; in particular dispatch never counts
\* more attempts than retry.maxAttempts.
TypeOK ==
  /\ now \in 0..Horizon
  /\ pc \in {"idle", "top", "fetching", "reading", "waiting", "settled"}
  /\ attempt \in 0..MaxAttempts
  /\ timeoutMs \in Timeouts
  /\ retrySafe \in BOOLEAN
  /\ selectorAgrees \in BOOLEAN
  /\ callerAborted \in BOOLEAN
  /\ aborted \in BOOLEAN
  /\ didTimeout \in BOOLEAN
  /\ answer \in Answers \cup {NoAnswer}
  /\ waitFrom \in Nat
  /\ waitFor \in Nat
  /\ header \in Int
  /\ notBefore \in Nat
  /\ outcome \in Outcomes

\* A call reports MEDALLION_TIMEOUT only when its deadline timer fired, and
\* then not before timeoutMs passed; it reports MEDALLION_ABORTED only when the
\* deadline had not fired, and MEDALLION_NETWORK_ERROR only when nobody had
\* cancelled it: the outer catch of dispatch never blames the wrong party.
OutcomeTellsCause ==
  /\ outcome = "MEDALLION_TIMEOUT" => didTimeout /\ now >= timeoutMs
  /\ outcome = "MEDALLION_ABORTED" => ~didTimeout
  /\ outcome = "MEDALLION_NETWORK_ERROR" => ~aborted

\* "Never retry earlier than requested": whatever Retry-After the server sent,
\* one no timer can hold included, the next attempt leaves no earlier.
RetryAfterHonoured == [][attempt' > attempt => now >= notBefore]_vars

\* The Connect-Timeout-Ms of every attempt is a positive number and grants the
\* server no more than what is left of the deadline (1 ms when none is left,
\* which a late timer makes possible).
TimeoutHeaderSound ==
  [][attempt' > attempt => header' \in 1..Greatest(1, timeoutMs - now)]_vars

\* The transport implements the bounded, cancellable retry of BoundedRetry.
Phase ==
  CASE pc = "settled" -> "done"
    [] pc \in {"fetching", "reading"} -> "inflight"
    [] OTHER -> IF attempt = 0 THEN "new" ELSE "retry"

BR == INSTANCE BoundedRetry
        WITH phase <- Phase, sends <- attempt, safe <- retrySafe,
             cancelled <- aborted

SendsAreBounded == BR!Spec

\* Every call that begins settles, whatever the server does, as long as fetch
\* and the response stream react to an aborted signal.
CallSettles == (pc # "idle") ~> (pc = "settled")
=============================================================================
