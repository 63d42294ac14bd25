-------------------------- MODULE RetryPolicyProofs --------------------------
(***************************************************************************)
(* The rules the SDKs share, for every value they can be asked about: any  *)
(* status, code, domain and reason, any batch and receipt under any limits *)
(* of the contract, any answer of a query.                                 *)
(***************************************************************************)
EXTENDS MCRetryPolicy, TLAPS

-----------------------------------------------------------------------------
(* Retry decisions.                                                        *)

\* A reason is read from an ErrorInfo, so where there is one there is the other.
ReasonHasInfo == error.reason # Absent => error.info

\* The registry allows a retry after three reasons only.
LEMMA PolicyIsTransient ==
  ASSUME NEW reason \in KnownReasons, NEW code, PolicyAllows(reason, code)
  PROVE  <<reason, code>> \in TransientReasons
<1>1. reason \in {"AUTHORIZATION_DEPENDENCY_UNAVAILABLE", "BACKPRESSURE",
                  "CAPABILITY_UNAVAILABLE", "FEATURE_NOT_ENTITLED", "IDEMPOTENCY_MISMATCH",
                  "INTEGRATION_UNAVAILABLE", "WORKSPACE_SELECTOR_CONFLICT"}
  BY DEF KnownReasons, ReasonPolicy
<1>2. CASE reason \in {"AUTHORIZATION_DEPENDENCY_UNAVAILABLE", "BACKPRESSURE",
                       "INTEGRATION_UNAVAILABLE"}
  BY <1>2 DEF PolicyAllows, ReasonPolicy, TransientReasons
<1>3. CASE reason \in {"CAPABILITY_UNAVAILABLE", "FEATURE_NOT_ENTITLED", "IDEMPOTENCY_MISMATCH",
                       "WORKSPACE_SELECTOR_CONFLICT"}
  BY <1>3 DEF PolicyAllows, ReasonPolicy, AutomaticRetry
<1> QED
  BY <1>1, <1>2, <1>3

\* With a reason, each SDK's decision is its registry entry, and nothing else.
Registered == error.domain = KnownDomain /\ error.reason \in KnownReasons
              /\ PolicyAllows(error.reason, error.code)

LEMMA DecisionsOnReasons ==
  ASSUME ReasonHasInfo, error.reason \notin {Absent, Empty}
  PROVE  /\ IsRetryableConnectError(error, TRUE) <=> Registered
         /\ GoRetryable(error, TRUE) <=> Registered
         /\ PyIsRetryable(error, TRUE) <=> Registered
<1>1. error.info /\ ForeignDomain(error)
  BY DEF ReasonHasInfo, ForeignDomain, GoString
<1> QED
  BY <1>1 DEF IsRetryableConnectError, GoRetryable, PyIsRetryable, Registered

\* Whatever reason a server gives, in whatever domain, with whatever code and
\* status, the TypeScript, Go and Python SDKs take the same decision.
THEOREM ReasonsAlwaysAgree == ASSUME ReasonHasInfo PROVE ReasonsDecideAlike
<1> SUFFICES ASSUME error.reason \notin {Absent, Empty}
             PROVE  Verdicts(error)[1] = Verdicts(error)[2] /\ Verdicts(error)[2] = Verdicts(error)[3]
  BY DEF ReasonsDecideAlike
<1>1. /\ IsRetryableConnectError(error, TRUE) \in BOOLEAN /\ GoRetryable(error, TRUE) \in BOOLEAN
      /\ PyIsRetryable(error, TRUE) \in BOOLEAN
  BY DEF IsRetryableConnectError, GoRetryable, PyIsRetryable, TransportAllows, PolicyAllows
<1>2. /\ IsRetryableConnectError(error, TRUE) = GoRetryable(error, TRUE)
      /\ GoRetryable(error, TRUE) = PyIsRetryable(error, TRUE)
  BY <1>1, DecisionsOnReasons
<1> QED
  BY <1>2 DEF Verdicts

\* No code and no status lets an SDK repeat a call that was refused with a reason
\* other than the three transient ones.
THEOREM ReasonsAreFinal == ASSUME ReasonHasInfo PROVE ReasonIsNeverOverruled
<1> SUFFICES ASSUME error.reason \notin {Absent, Empty}, NEW sdk \in 1..3, Verdicts(error)[sdk]
             PROVE  error.domain = KnownDomain /\ <<error.reason, error.code>> \in TransientReasons
  BY DEF ReasonIsNeverOverruled
<1>1. sdk = 1 \/ sdk = 2 \/ sdk = 3
  OBVIOUS
<1>2. \/ IsRetryableConnectError(error, TRUE)
      \/ GoRetryable(error, TRUE)
      \/ PyIsRetryable(error, TRUE)
  <2> DEFINE ts == IsRetryableConnectError(error, TRUE)
             go == GoRetryable(error, TRUE)
             py == PyIsRetryable(error, TRUE)
  <2>1. Verdicts(error) = <<ts, go, py>>
    BY DEF Verdicts
  <2> HIDE DEF ts, go, py
  <2>2. Verdicts(error)[1] = ts /\ Verdicts(error)[2] = go /\ Verdicts(error)[3] = py
    BY <2>1
  <2>3. CASE sdk = 1
    <3>1. ts
      BY <2>2, <2>3
    <3> QED
      BY <3>1 DEF ts
  <2>4. CASE sdk = 2
    <3>1. go
      BY <2>2, <2>4
    <3> QED
      BY <3>1 DEF go
  <2>5. CASE sdk = 3
    <3>1. py
      BY <2>2, <2>5
    <3> QED
      BY <3>1 DEF py
  <2> QED
    BY <1>1, <2>3, <2>4, <2>5
<1>3. Registered
  BY <1>2, DecisionsOnReasons
<1> QED
  BY <1>3, PolicyIsTransient DEF Registered

-----------------------------------------------------------------------------
(* Appends and receipts.                                                   *)

\* Any append of the two clients, and any receipt for it.
AnyAppend ==
  /\ append.client \in {"tables", "ingest"}
  /\ append.rows \in Nat \union {NoField} /\ append.arrow \in Nat \union {NoField}
  /\ append.client = "tables" => (append.rows = NoField) # (append.arrow = NoField)
  /\ append.receipt.accepted \in Int /\ append.receipt.errors \subseteq Nat

\* Padded base64 text holds as many bytes as the limit asks for, except that a
\* batch of the limit itself, one more than a multiple of three, looks too long.
LEMMA PaddedText ==
  ASSUME NEW bytes \in Nat
  PROVE  /\ RequireArrowPayloadText(Base64Length(bytes)) <=>
              bytes \in 1..MaxArrow /\ bytes # MaxArrow
<1> DEFINE groups == (bytes + 2) \div 3
<1>1. groups \in Nat /\ 3 * groups <= bytes + 2 /\ bytes + 2 < 3 * groups + 3
  OBVIOUS
<1>2. MaxArrow \in Nat /\ MaxArrow = 3 * (MaxArrow \div 3) + 1
  BY TableChecksAssumption
<1> DEFINE limit == MaxArrow \div 3
<1>3. limit \in Int
  BY <1>2
<1> HIDE DEF groups, limit
<1>4. (4 * groups) \div 4 = groups /\ (4 * groups > 0 <=> groups > 0)
  BY <1>1
<1>5. groups * 3 <= MaxArrow <=> groups <= limit
  BY <1>1, <1>2, <1>3 DEF limit
<1>6. groups <= limit <=> bytes <= MaxArrow - 1
  BY <1>1, <1>2, <1>3 DEF limit
<1>7. groups > 0 <=> bytes >= 1
  BY <1>1
<1> QED
  BY <1>2, <1>4, <1>5, <1>6, <1>7 DEF RequireArrowPayloadText, Base64Length, groups

\* TypeScript and Python agree on every append and every receipt, but for the
\* named differences, and each believes every honest receipt of what it sent.
THEOREM AppendsAlwaysAgree == ASSUME AnyAppend PROVE AppendsAgree
<1> DEFINE a == append
           r == append.receipt
           atTheLimit == ~HasRows(a) /\ a.arrow = MaxArrow
           emptyBeside == a.client = "ingest" /\ a.rows = 0 /\ HasArrow(a)
           sent == IF HasRows(a) THEN a.rows ELSE 1
           honest == r.accepted \in 0..sent /\ \A k \in r.errors : k < sent
<1>1. /\ a.rows \in Nat \union {NoField} /\ a.arrow \in Nat \union {NoField}
      /\ r.accepted \in Int /\ r.errors \subseteq Nat /\ MaxArrow \in Nat /\ MaxRows \in Nat
  BY TableChecksAssumption DEF AnyAppend
<1>2. a.arrow \in Nat =>
        (RequireArrowPayloadText(Base64Length(a.arrow)) <=>
           a.arrow \in 1..MaxArrow /\ a.arrow # MaxArrow)
  BY PaddedText
<1>3. TsAppends(a) <=> PyAppends(a) /\ ~atTheLimit
  BY <1>1, <1>2 DEF TsAppends, PyAppends, PreflightAppendRows, ArrowPayload, JsonRowsToWire,
     HasRows, HasArrow, NoField, AnyAppend
<1>4. ASSUME TsAppends(a), ~emptyBeside
      PROVE  TsSubmitted(a) = PySubmitted(a)
  BY <1>1, <1>4 DEF TsAppends, PreflightAppendRows, TsSubmitted, PySubmitted, HasRows, HasArrow,
     NoField, AnyAppend
<1>5. ASSUME NEW n \in Nat \union {NoField}
      PROVE  TsReceipt(r, n) <=> r.accepted >= 0 /\ PyReceipt(r, n)
  BY <1>1 DEF TsReceipt, PyReceipt, NoField
<1>6. PySubmitted(a) \in Nat \union {NoField}
  BY <1>1 DEF PySubmitted
<1>7. TsAppends(a) /\ ~emptyBeside =>
        (TsReceipt(r, TsSubmitted(a)) <=> r.accepted >= 0 /\ PyReceipt(r, PySubmitted(a)))
  BY <1>4, <1>5, <1>6
<1>8. honest => r.accepted >= 0 /\ PyReceipt(r, PySubmitted(a))
  BY <1>1 DEF PyReceipt, PySubmitted, HasRows, NoField
<1>9. honest /\ TsAppends(a) /\ ~emptyBeside => TsReceipt(r, TsSubmitted(a))
  BY <1>7, <1>8
<1> QED
  BY <1>3, <1>7, <1>8, <1>9 DEF AppendsAgree

-----------------------------------------------------------------------------
(* Queries.                                                                *)

\* Any answer that is accepted can be followed up: its poll, or the request for
\* its next page, passes the client's own check.
THEOREM FollowUpsPass == FollowUpIsSound
<1> SUFFICES ASSUME ValidateQueryResponse(answer), NEW followUp \in FollowUps(answer)
             PROVE  PreflightGetQueryResults(followUp[1], followUp[2])
  BY DEF FollowUpIsSound
<1>1. CASE answer.state = "RUNNING" /\ followUp = <<answer.name, "">>
  BY <1>1 DEF ValidateQueryResponse, PreflightGetQueryResults, BoundedToken
<1>2. CASE answer.token # "" /\ followUp = <<answer.name, answer.token>>
  BY <1>2 DEF ValidateQueryResponse, PreflightGetQueryResults
<1> QED
  BY <1>1, <1>2 DEF FollowUps

-----------------------------------------------------------------------------
(* Waits.                                                                  *)

\* What the libraries can make of a text.
Read(h) ==
  /\ h.digits \in Nat \union {Nothing} /\ h.number \in BOOLEAN
  /\ h.float \in Int \union {Nothing} /\ h.jsDate \in Int \union {Nothing}
  /\ h.goDate \in Int \union {Nothing} /\ h.pyDate \in Int \union {Nothing}
  /\ WellRead(h)

\* Any configuration and any Retry-After; no SDK makes a sixth attempt.
AnyWait ==
  /\ wait.config.initial \in Int /\ wait.config.maximum \in Int /\ wait.config.jitter \in Int
  /\ wait.attempt \in 1..4 /\ wait.half \in 0..2
  /\ Read(wait.header)

\* The doubling, capped, as the closed form of TypeScript and Python has it.
Doubled(c, n) == Least(c.initial * 2 ^ (n - 1), c.maximum)

LEMMA DoubledIs ==
  ASSUME NEW c, c.initial \in Nat, c.maximum \in Nat, c.initial <= c.maximum
  PROVE  /\ Doubled(c, 1) = c.initial
         /\ \A n \in 1..3 : Doubled(c, n + 1) = Least(2 * Doubled(c, n), c.maximum)
         /\ \A n \in 1..4 : Doubled(c, n) \in 0..c.maximum
<1>1. /\ 2 ^ (1 - 1) = 1 /\ 2 ^ (2 - 1) = 2 /\ 2 ^ (3 - 1) = 4 /\ 2 ^ (4 - 1) = 8
  <2>1. 2 ^ 0 = 1 /\ 2 ^ 1 = 2 /\ 2 ^ 2 = 4 /\ 2 ^ 3 = 8
    OBVIOUS
  <2>2. 1 - 1 = 0 /\ 2 - 1 = 1 /\ 3 - 1 = 2 /\ 4 - 1 = 3
    OBVIOUS
  <2> QED
    BY <2>1, <2>2
<1>2. /\ Doubled(c, 1) = c.initial /\ Doubled(c, 2) = Least(c.initial * 2, c.maximum)
      /\ Doubled(c, 3) = Least(c.initial * 4, c.maximum)
      /\ Doubled(c, 4) = Least(c.initial * 8, c.maximum)
  BY <1>1 DEF Doubled, Least
<1>3. \A n \in 1..3 : n = 1 \/ n = 2 \/ n = 3
  OBVIOUS
<1>4. \A n \in 1..4 : n = 1 \/ n = 2 \/ n = 3 \/ n = 4
  OBVIOUS
<1>5. \A n \in 1..3 : Doubled(c, n + 1) = Least(2 * Doubled(c, n), c.maximum)
  <2>1. Doubled(c, 1 + 1) = Least(2 * Doubled(c, 1), c.maximum)
    BY <1>2 DEF Least
  <2>2. Doubled(c, 2 + 1) = Least(2 * Doubled(c, 2), c.maximum)
    BY <1>2 DEF Least
  <2>3. Doubled(c, 3 + 1) = Least(2 * Doubled(c, 3), c.maximum)
    BY <1>2 DEF Least
  <2> QED
    BY <1>3, <2>1, <2>2, <2>3
<1>6. \A n \in 1..4 : Doubled(c, n) \in 0..c.maximum
  BY <1>2, <1>4 DEF Least
<1> QED
  BY <1>2, <1>5, <1>6

\* The documented schedule and Go's loop come to the same.
LEMMA ScheduleIs ==
  ASSUME NEW c, c.initial \in Nat, c.maximum \in Nat, c.initial <= c.maximum
  PROVE  \A n \in 1..4 : Schedule(c)[n] = Doubled(c, n)
<1> DEFINE Next5(f, k) == IF k = 1 THEN c.initial ELSE Least(2 * f[k - 1], c.maximum)
           Fits(f) == f = [k \in 1..5 |-> Next5(f, k)]
           g == [k \in 1..5 |-> IF k = 5 THEN Least(2 * Doubled(c, 4), c.maximum) ELSE Doubled(c, k)]
           delay == CHOOSE f : Fits(f)
<1>1. Schedule(c) = delay
  BY DEF Schedule
<1>2. Fits(g)
  <2>1. ASSUME NEW k \in 1..5 PROVE g[k] = Next5(g, k)
    <3>1. CASE k = 1
      BY <3>1, DoubledIs
    <3>2. CASE k \in 2..4
      <4>1. k - 1 \in 1..3 /\ (k - 1) + 1 = k
        BY <3>2
      <4>2. Doubled(c, k) = Least(2 * Doubled(c, k - 1), c.maximum)
        BY <4>1, DoubledIs
      <4>3. g[k] = Doubled(c, k) /\ g[k - 1] = Doubled(c, k - 1) /\ k # 1
        BY <3>2, <4>1
      <4> QED
        BY <4>2, <4>3
    <3>3. CASE k = 5
      <4>1. g[5] = Least(2 * Doubled(c, 4), c.maximum) /\ g[4] = Doubled(c, 4)
        OBVIOUS
      <4> QED
        BY <3>3, <4>1
    <3> QED
      BY <3>1, <3>2, <3>3
  <2> QED
    BY <2>1
<1>3. Fits(delay)
  <2> HIDE DEF g, Fits
  <2> QED
    BY <1>2
<1> HIDE DEF delay
<1>4. \A k \in 1..5 : delay[k] = Next5(delay, k)
  BY <1>3
<1>5. delay[1] = Doubled(c, 1)
  BY <1>4, DoubledIs
<1>6. ASSUME NEW n \in 1..3, delay[n] = Doubled(c, n) PROVE delay[n + 1] = Doubled(c, n + 1)
  <2>1. n + 1 \in 1..5 /\ n + 1 # 1 /\ (n + 1) - 1 = n
    OBVIOUS
  <2>2. delay[n + 1] = Least(2 * delay[n], c.maximum)
    BY <1>4, <2>1
  <2> QED
    BY <1>6, <2>2, DoubledIs
<1>7. delay[2] = Doubled(c, 2)
  BY <1>5, <1>6
<1>8. delay[3] = Doubled(c, 3)
  BY <1>6, <1>7
<1>9. delay[4] = Doubled(c, 4)
  BY <1>6, <1>8
<1>10. \A n \in 1..4 : n = 1 \/ n = 2 \/ n = 3 \/ n = 4
  OBVIOUS
<1> QED
  BY <1>1, <1>5, <1>7, <1>8, <1>9, <1>10

LEMMA GoBaseIs ==
  ASSUME NEW c, c.initial \in Nat, c.maximum \in Nat, c.initial <= c.maximum, NEW n \in 1..4
  PROVE  GoBase(c, n) = Doubled(c, n)
<1> DEFINE After(f, k) == IF k = 1 THEN c.initial
                          ELSE IF f[k - 1] < c.maximum THEN Least(2 * f[k - 1], c.maximum)
                          ELSE f[k - 1]
           Fits(f) == f = [k \in 1..n |-> After(f, k)]
           g == [k \in 1..n |-> Doubled(c, k)]
           delay == CHOOSE f : Fits(f)
<1>1. GoBase(c, n) = delay[n]
  BY DEF GoBase
<1>2. ASSUME NEW k \in 1..3
      PROVE  Doubled(c, k + 1) = IF Doubled(c, k) < c.maximum
                                 THEN Least(2 * Doubled(c, k), c.maximum) ELSE Doubled(c, k)
  <2>1. Doubled(c, k) \in 0..c.maximum /\ Doubled(c, k + 1) = Least(2 * Doubled(c, k), c.maximum)
    BY DoubledIs
  <2> QED
    BY <2>1 DEF Least
<1>3. Fits(g)
  <2>1. ASSUME NEW k \in 1..n PROVE g[k] = After(g, k)
    <3>1. CASE k = 1
      BY <3>1, DoubledIs
    <3>2. CASE k # 1
      <4>1. k - 1 \in 1..3 /\ (k - 1) + 1 = k /\ k - 1 \in 1..n
        BY <3>2
      <4>2. g[k] = Doubled(c, k) /\ g[k - 1] = Doubled(c, k - 1)
        BY <4>1
      <4>3. Doubled(c, k) = IF Doubled(c, k - 1) < c.maximum
                            THEN Least(2 * Doubled(c, k - 1), c.maximum) ELSE Doubled(c, k - 1)
        BY <1>2, <4>1
      <4> QED
        BY <3>2, <4>2, <4>3
    <3> QED
      BY <3>1, <3>2
  <2> QED
    BY <2>1
<1>4. Fits(delay)
  <2> HIDE DEF g, Fits
  <2> QED
    BY <1>3
<1> HIDE DEF delay
<1>5. \A k \in 1..n : delay[k] = After(delay, k)
  BY <1>4
<1>6. delay[1] = Doubled(c, 1)
  BY <1>5, DoubledIs
<1>7. ASSUME NEW k \in 1..3, k + 1 \in 1..n, delay[k] = Doubled(c, k)
      PROVE  delay[k + 1] = Doubled(c, k + 1)
  <2>1. k + 1 # 1 /\ (k + 1) - 1 = k
    OBVIOUS
  <2>2. delay[k + 1] = IF delay[k] < c.maximum THEN Least(2 * delay[k], c.maximum) ELSE delay[k]
    BY <1>5, <1>7, <2>1
  <2> QED
    BY <1>2, <1>7, <2>2
<1>8. n >= 2 => delay[2] = Doubled(c, 2)
  BY <1>6, <1>7
<1>9. n >= 3 => delay[3] = Doubled(c, 3)
  BY <1>7, <1>8
<1>10. n >= 4 => delay[4] = Doubled(c, 4)
  BY <1>7, <1>9
<1>11. n = 1 \/ n = 2 \/ n = 3 \/ n = 4
  OBVIOUS
<1> QED
  BY <1>1, <1>6, <1>8, <1>9, <1>10, <1>11

\* The jitter: a tenth part of the product, at most the wait itself.
LEMMA Spread ==
  ASSUME NEW base \in Nat, NEW jitter \in 0..10
  PROVE  /\ (base * jitter) \div 10 \in 0..base
         /\ 10 * ((base * jitter) \div 10) <= base * jitter
         /\ base * jitter = jitter * base
<1>1. base * jitter \in 0..10 * base /\ base * jitter = jitter * base
  <2>1. \/ jitter = 0 \/ jitter = 1 \/ jitter = 2 \/ jitter = 3 \/ jitter = 4 \/ jitter = 5
        \/ jitter = 6 \/ jitter = 7 \/ jitter = 8 \/ jitter = 9 \/ jitter = 10
    OBVIOUS
  <2> QED
    BY <2>1
<1> DEFINE product == base * jitter
<1> HIDE DEF product
<1>2. product \in 0..10 * base
  BY <1>1 DEF product
<1>3. product \div 10 \in 0..base /\ 10 * (product \div 10) <= product
  BY <1>2
<1> QED
  BY <1>1, <1>3 DEF product

\* Math.round moves a time by half a millisecond at most.
LEMMA Rounded ==
  ASSUME NEW time \in Int
  PROVE  Round(time) \in Int /\ Round(time) - time \in -HalfMillisecond..HalfMillisecond
<1> DEFINE whole == (time + 500) \div 1000
<1>1. whole \in Int /\ 1000 * whole <= time + 500 /\ time + 500 < 1000 * whole + 1000
  OBVIOUS
<1>2. Round(time) = 1000 * whole
  BY DEF Round, Millisecond, HalfMillisecond
<1> HIDE DEF whole
<1> QED
  BY <1>1, <1>2 DEF HalfMillisecond

\* What any of the three makes of the schedule's wait is on the schedule.
LEMMA Jittered ==
  ASSUME NEW c, c.initial \in Nat, c.maximum \in Nat, c.initial <= c.maximum,
         c.jitter \in 0..10, NEW n \in 1..4, NEW half \in 0..2
  PROVE  /\ OnSchedule(TsBackoff(c, n, half), c, n, HalfMillisecond)
         /\ OnSchedule(PyBackoff(c, n, half), c, n, 0)
         /\ OnSchedule(GoBackoff(c, n, half), c, n, 0)
<1> DEFINE base == Doubled(c, n)
           spread == (base * c.jitter) \div 10
<1>1. base \in 0..c.maximum /\ Schedule(c)[n] = base /\ GoBase(c, n) = base
  BY DoubledIs, ScheduleIs, GoBaseIs
<1>2. /\ spread \in 0..base /\ 10 * spread <= c.jitter * base
  BY <1>1, Spread
<1>3. /\ TsBackoff(c, n, half) = Least(c.maximum, Greatest(0, Round(base - spread + half * spread)))
      /\ PyBackoff(c, n, half) = Least(c.maximum, Greatest(0, base + (half - 1) * spread))
  <2>1. Least(c.maximum, c.initial * 2 ^ (n - 1)) = base
    <3>1. c.initial * 2 ^ (n - 1) \in Int
      <4>1. 2 ^ (n - 1) \in Int
        OBVIOUS
      <4> QED
        BY <4>1
    <3> DEFINE x == c.initial * 2 ^ (n - 1)
    <3> HIDE DEF x
    <3>2. Least(c.maximum, x) = Least(x, c.maximum)
      BY <3>1 DEF Least, x
    <3> QED
      BY <3>2 DEF Doubled, x
  <2> QED
    BY <2>1 DEF TsBackoff, PyBackoff, Doubled
<1>4. GoBackoff(c, n, half) =
        IF base <= 0 \/ c.jitter <= 0 THEN base
        ELSE IF base - spread + half * spread < 0 THEN 0
        ELSE Least(base - spread + half * spread, c.maximum)
  BY <1>1 DEF GoBackoff
<1> DEFINE off == c.jitter * base
<1>5. off \in Int /\ 10 * spread <= off
  BY <1>1, <1>2
<1> HIDE DEF base, spread, off
<1>6. half = 0 \/ half = 1 \/ half = 2
  OBVIOUS
<1>7. half * spread \in 0..2 * spread /\ base - spread + half * spread = base + (half - 1) * spread
  BY <1>1, <1>2, <1>6
<1> DEFINE jittered == base - spread + half * spread
<1>8. jittered \in base - spread..base + spread /\ jittered \in Int
  BY <1>1, <1>2, <1>7
<1> HIDE DEF jittered
<1>9. /\ TsBackoff(c, n, half) = Least(c.maximum, Greatest(0, Round(jittered)))
      /\ PyBackoff(c, n, half) = Least(c.maximum, Greatest(0, jittered))
  BY <1>3, <1>7 DEF jittered
<1>10. GoBackoff(c, n, half) = IF base <= 0 \/ c.jitter <= 0 THEN base
                               ELSE IF jittered < 0 THEN 0 ELSE Least(jittered, c.maximum)
  BY <1>4 DEF jittered
<1>11. ASSUME NEW time \in Int, NEW grain \in Nat, time - jittered \in -grain..grain
       PROVE  OnSchedule(Least(c.maximum, Greatest(0, time)), c, n, grain)
  <2> DEFINE kept == Least(c.maximum, Greatest(0, time))
  <2>1. kept \in 0..c.maximum /\ kept - base \in -(spread + grain)..spread + grain
    BY <1>1, <1>2, <1>8, <1>11 DEF Least, Greatest
  <2> HIDE DEF kept
  <2>2. 10 * (kept - base) \in -(off + 10 * grain)..off + 10 * grain
    BY <1>1, <1>2, <1>5, <2>1
  <2> QED
    BY <1>1, <2>1, <2>2 DEF OnSchedule, kept, off
<1>12. OnSchedule(TsBackoff(c, n, half), c, n, HalfMillisecond)
  <2>1. Round(jittered) \in Int /\ Round(jittered) - jittered \in -HalfMillisecond..HalfMillisecond
    BY <1>8, Rounded
  <2>2. HalfMillisecond \in Nat
    BY DEF HalfMillisecond
  <2> QED
    BY <1>9, <1>11, <2>1, <2>2
<1>13. OnSchedule(PyBackoff(c, n, half), c, n, 0)
  <2>1. jittered - jittered \in -0..0
    BY <1>8
  <2> QED
    BY <1>8, <1>9, <1>11, <2>1
<1>14. OnSchedule(GoBackoff(c, n, half), c, n, 0)
  <2>1. CASE base <= 0 \/ c.jitter <= 0
    <3>1. GoBackoff(c, n, half) = base
      BY <1>10, <2>1
    <3>2. off \in Nat
      BY <1>1 DEF off
    <3>3. 10 * (base - base) \in -(off + 10 * 0)..off + 10 * 0
      BY <1>1, <3>2
    <3> QED
      BY <1>1, <3>1, <3>3 DEF OnSchedule, off
  <2>2. CASE ~(base <= 0 \/ c.jitter <= 0)
    <3>1. GoBackoff(c, n, half) = Least(c.maximum, Greatest(0, jittered))
      BY <1>8, <1>10, <2>2 DEF Least, Greatest
    <3> QED
      BY <1>9, <1>13, <3>1
  <2> QED
    BY <2>1, <2>2
<1> QED
  BY <1>12, <1>13, <1>14

\* What each SDK takes from a Retry-After, in terms of what was asked for.
Readings(h) ==
  LET standard == IsSeconds(h) \/ IsDate(h)
      fraction == h.number /\ ~IsSeconds(h)
  IN  /\ {TsRetryAfter(h), GoRetryAfter(h), PyRetryAfter(h)} \subseteq Nat \union {Nothing}
      /\ standard => TsRetryAfter(h) = AskedFor(h) /\ AskedFor(h) \in Nat
      /\ ~standard /\ h.jsDate = Nothing => TsRetryAfter(h) = Nothing
      /\ standard /\ ~(h.number /\ h.float = Nothing) => PyRetryAfter(h) = AskedFor(h)
      /\ standard /\ h.number /\ h.float = Nothing => PyRetryAfter(h) = Nothing
      /\ ~standard /\ (h.number \/ h.pyDate = Nothing) =>
           PyRetryAfter(h) = Nothing \/ (fraction /\ PyRetryAfter(h) = h.float)
      /\ standard /\ ~(IsSeconds(h) /\ h.digits > MaxUint64) =>
           GoRetryAfter(h) = Least(LongestDuration, AskedFor(h))
      /\ standard /\ IsSeconds(h) /\ h.digits > MaxUint64 => GoRetryAfter(h) = Nothing
      /\ ~standard /\ (fraction \/ h.goDate = Nothing) => GoRetryAfter(h) = Nothing

LEMMA EachReads == ASSUME NEW h, Read(h) PROVE Readings(h)
<1>1. /\ h.digits \in Nat \union {Nothing} /\ h.number \in BOOLEAN
      /\ h.float \in Int \union {Nothing} /\ h.jsDate \in Int \union {Nothing}
      /\ h.goDate \in Int \union {Nothing} /\ h.pyDate \in Int \union {Nothing}
      /\ IsSeconds(h) => h.number /\ h.float \in {Second * h.digits, Nothing}
      /\ h.number => h.goDate = Nothing
  BY DEF Read, WellRead
<1>2. Nothing \notin Int /\ MaxUint64 \in Nat /\ LongestDuration \in Nat
  BY RetryDelayAssumption
<1>3. \A x \in Int : Greatest(0, x) \in Nat /\ Greatest(0, x) # Nothing
  BY <1>2 DEF Greatest
<1>4. \A x \in Nat : Least(LongestDuration, x) \in Nat
  BY <1>2 DEF Least
<1>5. ASSUME NEW s \in Nat
      PROVE  /\ Second * s \in Nat
             /\ (IF s > LongestDuration \div Second THEN LongestDuration ELSE Second * s)
                  = Least(LongestDuration, Second * s)
  BY <1>2 DEF Second, Millisecond, Least
<1>6. CASE IsSeconds(h)
  <2>1. h.digits \in Nat /\ h.digits # Nothing /\ h.number /\ h.goDate = Nothing
    BY <1>1, <1>6 DEF IsSeconds
  <2>2. AskedFor(h) = Second * h.digits /\ AskedFor(h) \in Nat
    BY <1>5, <1>6, <2>1 DEF AskedFor
  <2>3. TsRetryAfter(h) = AskedFor(h)
    BY <2>1, <2>2 DEF TsRetryAfter
  <2>4. GoRetryAfter(h) = IF h.digits <= MaxUint64 THEN Least(LongestDuration, AskedFor(h)) ELSE Nothing
    BY <1>5, <2>1, <2>2 DEF GoRetryAfter
  <2>5. PyRetryAfter(h) = h.float
    BY <1>1, <1>2, <1>6, <2>1, <2>2 DEF PyRetryAfter
  <2>6. h.digits > MaxUint64 <=> ~(h.digits <= MaxUint64)
    BY <1>2, <2>1
  <2> QED
    BY <1>1, <1>4, <1>6, <2>1, <2>2, <2>3, <2>4, <2>5, <2>6 DEF Readings
<1>7. CASE ~IsSeconds(h)
  <2>1. h.digits = Nothing
    BY <1>7 DEF IsSeconds
  <2>2. TsRetryAfter(h) = IF h.jsDate # Nothing THEN Greatest(0, h.jsDate) ELSE Nothing
    BY <2>1 DEF TsRetryAfter
  <2>3. GoRetryAfter(h) =
          IF h.goDate # Nothing THEN Least(LongestDuration, Greatest(0, h.goDate)) ELSE Nothing
    BY <2>1 DEF GoRetryAfter
  <2>4. PyRetryAfter(h) =
          IF h.number THEN IF h.float # Nothing /\ h.float >= 0 THEN h.float ELSE Nothing
          ELSE IF h.pyDate # Nothing THEN Greatest(0, h.pyDate) ELSE Nothing
    BY <1>1 DEF PyRetryAfter
  <2>5. IsDate(h) => /\ ~h.number /\ h.jsDate # Nothing /\ h.goDate = h.jsDate
                     /\ h.pyDate = h.jsDate /\ AskedFor(h) = Greatest(0, h.jsDate)
    BY <1>7 DEF IsDate, AskedFor
  <2>6. {TsRetryAfter(h), GoRetryAfter(h), PyRetryAfter(h)} \subseteq Nat \union {Nothing}
    <3>1. TsRetryAfter(h) \in Nat \union {Nothing}
      BY <1>1, <1>3, <2>2
    <3>2. GoRetryAfter(h) \in Nat \union {Nothing}
      BY <1>1, <1>3, <1>4, <2>3
    <3>3. PyRetryAfter(h) \in Nat \union {Nothing}
      BY <1>1, <1>3, <2>4
    <3> QED
      BY <3>1, <3>2, <3>3
  <2>7. IsDate(h) => AskedFor(h) \in Nat
    BY <1>1, <1>3, <2>5
  <2> QED
    BY <1>1, <1>7, <2>2, <2>3, <2>4, <2>5, <2>6, <2>7 DEF Readings
<1> QED
  BY <1>6, <1>7

\* Whatever configuration an SDK accepts, whatever its random number and however
\* its libraries read the server's Retry-After: a wait that HTTP can ask for is
\* the one that is waited, and any other is on the schedule that was promised, but
\* for the differences the property names.
THEOREM WaitsAlwaysFollow == ASSUME AnyWait PROVE WaitsFollowSchedule
<1> DEFINE c == wait.config
           n == wait.attempt
           h == wait.header
           half == wait.half
           given == GoDefaults(c)
           standard == IsSeconds(h) \/ IsDate(h)
           fraction == h.number /\ ~IsSeconds(h)
           ts == TsDelay(c, n, half, h)
           go == GoDelay(c, n, half, h)
           py == PyDelay(c, n, half, h)
<1>1. /\ c.initial \in Int /\ c.maximum \in Int /\ c.jitter \in Int
      /\ n \in 1..4 /\ half \in 0..2
  BY DEF AnyWait
<1>2. Nothing \notin Int /\ LongestDuration \in Nat
  BY RetryDelayAssumption
<1>3. /\ {TsRetryAfter(h), GoRetryAfter(h), PyRetryAfter(h)} \subseteq Nat \union {Nothing}
      /\ standard => TsRetryAfter(h) = AskedFor(h) /\ AskedFor(h) \in Nat
      /\ ~standard /\ h.jsDate = Nothing => TsRetryAfter(h) = Nothing
      /\ standard /\ ~(h.number /\ h.float = Nothing) => PyRetryAfter(h) = AskedFor(h)
      /\ standard /\ h.number /\ h.float = Nothing => PyRetryAfter(h) = Nothing
      /\ ~standard /\ (h.number \/ h.pyDate = Nothing) =>
           PyRetryAfter(h) = Nothing \/ (fraction /\ PyRetryAfter(h) = h.float)
      /\ standard /\ ~(IsSeconds(h) /\ h.digits > MaxUint64) =>
           GoRetryAfter(h) = Least(LongestDuration, AskedFor(h))
      /\ standard /\ IsSeconds(h) /\ h.digits > MaxUint64 => GoRetryAfter(h) = Nothing
      /\ ~standard /\ (fraction \/ h.goDate = Nothing) => GoRetryAfter(h) = Nothing
  <2>1. Readings(h)
    BY EachReads DEF AnyWait
  <2> QED
    BY <2>1 DEF Readings
<1> DEFINE tsAsked == TsRetryAfter(h)
           goAsked == GoRetryAfter(h)
           pyAsked == PyRetryAfter(h)
<1>4. standard => AskedFor(h) # Nothing /\ Least(LongestDuration, AskedFor(h)) # Nothing
  BY <1>2, <1>3 DEF Least
<1>5. ASSUME NormalizeRetry(c)
      PROVE  /\ ts >= 0 /\ py >= 0
             /\ IF standard THEN ts = AskedFor(h)
                ELSE h.jsDate = Nothing => OnSchedule(ts, c, n, HalfMillisecond)
             /\ IF standard /\ ~(h.number /\ h.float = Nothing) THEN py = AskedFor(h)
                ELSE h.number \/ h.pyDate = Nothing =>
                       OnSchedule(py, c, n, 0) \/ (fraction /\ py = h.float)
             /\ TsPollDelay(c, n - 1, half, h) = Least(MaxPollDelay, ts)
             /\ PyPollDelay(c, n - 1, half, h) = Least(MaxPollDelay, py)
  <2>1. c.initial \in Nat /\ c.maximum \in Nat /\ c.initial <= c.maximum /\ c.jitter \in 0..10
    BY <1>1, <1>5 DEF NormalizeRetry
  <2> DEFINE tsBackoff == TsBackoff(c, n, half)
             pyBackoff == PyBackoff(c, n, half)
  <2>2. OnSchedule(tsBackoff, c, n, HalfMillisecond) /\ OnSchedule(pyBackoff, c, n, 0)
    BY <1>1, <2>1, Jittered
  <2>3. tsBackoff \in Nat /\ pyBackoff \in Nat
    BY <2>1, <2>2 DEF OnSchedule
  <2>4. /\ ts = IF tsAsked # Nothing THEN tsAsked ELSE tsBackoff
        /\ py = IF pyAsked # Nothing THEN pyAsked ELSE pyBackoff
    BY DEF TsDelay, PyDelay
  <2>5. n - 1 + 1 = n
    BY <1>1
  <2>6. /\ TsPollDelay(c, n - 1, half, h) = Least(MaxPollDelay, ts)
        /\ PyPollDelay(c, n - 1, half, h) = Least(MaxPollDelay, py)
    BY <2>5 DEF TsPollDelay, PyPollDelay, NextPoll
  <2> HIDE DEF ts, py, tsBackoff, pyBackoff, tsAsked, pyAsked, standard, fraction
  <2>7. tsAsked \in Nat \union {Nothing} /\ pyAsked \in Nat \union {Nothing}
    BY <1>3 DEF tsAsked, pyAsked
  <2>8. ts >= 0 /\ py >= 0
    BY <2>3, <2>4, <2>7
  <2>9. IF standard THEN ts = AskedFor(h)
        ELSE h.jsDate = Nothing => OnSchedule(ts, c, n, HalfMillisecond)
    BY <1>3, <1>4, <2>2, <2>4 DEF tsAsked
  <2>10. IF standard /\ ~(h.number /\ h.float = Nothing) THEN py = AskedFor(h)
         ELSE h.number \/ h.pyDate = Nothing =>
                OnSchedule(py, c, n, 0) \/ (fraction /\ py = h.float)
    BY <1>3, <1>4, <2>2, <2>4 DEF pyAsked
  <2> QED
    BY <2>6, <2>8, <2>9, <2>10
<1>6. ASSUME GoNormalizeRetry(c)
      PROVE  /\ go >= 0
             /\ IF standard /\ ~(IsSeconds(h) /\ h.digits > MaxUint64)
                THEN go = Least(LongestDuration, AskedFor(h))
                ELSE fraction \/ h.goDate = Nothing => OnSchedule(go, given, n, 0)
  <2>1. /\ given.initial \in Nat /\ given.maximum \in Nat
        /\ given.initial <= given.maximum /\ given.jitter \in 0..10
    BY <1>1, <1>6 DEF GoNormalizeRetry, GoDefaults, Millisecond, Second
  <2> HIDE DEF given
  <2> DEFINE goBackoff == GoBackoff(given, n, half)
  <2>2. OnSchedule(goBackoff, given, n, 0)
    BY <1>1, <2>1, Jittered
  <2>3. goBackoff \in Nat
    BY <2>1, <2>2 DEF OnSchedule
  <2>4. go = IF goAsked # Nothing THEN goAsked ELSE goBackoff
    BY DEF GoDelay, given
  <2> HIDE DEF go, goBackoff, goAsked, standard, fraction
  <2>5. go >= 0
    BY <1>3, <2>3, <2>4 DEF goAsked
  <2>6. IF standard /\ ~(IsSeconds(h) /\ h.digits > MaxUint64)
        THEN go = Least(LongestDuration, AskedFor(h))
        ELSE fraction \/ h.goDate = Nothing => OnSchedule(go, given, n, 0)
    BY <1>3, <1>4, <2>2, <2>4 DEF goAsked
  <2> QED
    BY <2>5, <2>6
<1> QED
  BY <1>5, <1>6 DEF WaitsFollowSchedule

-----------------------------------------------------------------------------
(* The cases of the run.                                                   *)

LEMMA CasesAreMeant ==
  /\ Rest[1] \in Errors /\ Rest[2] \in Waits /\ Rest[3] \in Appends
  /\ \A c \in Cases : c[1] \in Errors /\ c[2] \in Waits /\ c[3] \in Appends
<1> DEFINE e == [status |-> 400, code |-> Absent, info |-> FALSE,
                 domain |-> Absent, reason |-> Absent]
           h == [digits |-> Nothing, number |-> FALSE, float |-> Nothing,
                 jsDate |-> Nothing, goDate |-> Nothing, pyDate |-> Nothing]
           w == [config |-> [initial |-> 0, maximum |-> 0, jitter |-> 0], attempt |-> 1,
                 half |-> 0, header |-> h]
           a == [client |-> "ingest", rows |-> 0, arrow |-> 0,
                 receipt |-> [accepted |-> 0, errors |-> {}]]
<1>1. Some(Errors) \in Errors
  <2>1. e \in Errors
    BY DEF Errors, Statuses, Codes
  <2> QED
    BY <2>1 DEF Some
<1>2. Some(Waits) \in Waits
  <2>1. h \in Headers
    BY DEF Headers, OtherTexts, Dates
  <2> HIDE DEF h
  <2>2. w \in Waits
    BY <2>1 DEF Waits
  <2> HIDE DEF w
  <2> QED
    BY <2>2 DEF Some
<1>3. Some(Appends) \in Appends
  <2>1. a \in Appends
    BY TableChecksAssumption DEF Appends, NoField
  <2> QED
    BY <2>1 DEF Some
<1>4. Rest[1] \in Errors /\ Rest[2] \in Waits /\ Rest[3] \in Appends
  BY <1>1, <1>2, <1>3 DEF Rest
<1>5. ASSUME NEW c \in Cases PROVE c[1] \in Errors /\ c[2] \in Waits /\ c[3] \in Appends
  <2> DEFINE rest == Rest
  <2>1. \E p, q, r, t : rest = <<p, q, r, t>>
    BY DEF Rest
  <2> HIDE DEF rest
  <2>2. \/ \E x \in Errors : c = [rest EXCEPT ![1] = x]
        \/ \E x \in Waits : c = [rest EXCEPT ![2] = x]
        \/ \E x \in Appends : c = [rest EXCEPT ![3] = x]
        \/ \E x \in Answers : c = [rest EXCEPT ![4] = x]
    BY DEF Cases, rest
  <2>3. rest[1] \in Errors /\ rest[2] \in Waits /\ rest[3] \in Appends
    BY <1>4 DEF rest
  <2> QED
    BY <2>1, <2>2, <2>3
<1> QED
  BY <1>4, <1>5

\* Every text of the run is one the libraries can make that of.
LEMMA HeadersAreRead == ASSUME NEW h \in Headers PROVE Read(h)
<1>1. Second \in Int /\ Millisecond \in Int
  BY DEF Second, Millisecond
<1>2. Past \in Int /\ SecondAndAHalf \in Int /\ 55 * Second \in Int
  BY <1>1 DEF Past, SecondAndAHalf
<1>3. Dates \subseteq Int \union {Nothing}
  BY <1>1, <1>2 DEF Dates
<1>4. CASE h \in Seconds
  <2>1. PICK k \in {0, 1, 40, 55, 65, 75} :
          h = [digits |-> k, number |-> TRUE,
               float |-> IF k < 75 THEN Second * k ELSE Nothing,
               jsDate |-> Nothing, goDate |-> Nothing, pyDate |-> Nothing]
    BY <1>4 DEF Seconds
  <2>2. k \in Nat /\ Second * k \in Int
    BY <1>1, <2>1
  <2>3. /\ h.digits = k /\ h.number = TRUE /\ h.float \in {Second * k, Nothing}
        /\ h.jsDate = Nothing /\ h.goDate = Nothing /\ h.pyDate = Nothing
    BY <2>1
  <2>4. WellRead(h)
    BY <2>3, Zenon DEF WellRead
  <2> QED
    BY <2>2, <2>3, <2>4 DEF Read
<1>5. CASE h \in Fractions
  <2>1. /\ h.digits = Nothing /\ h.number = TRUE
        /\ h.float \in {Nothing, Past, SecondAndAHalf}
        /\ h.jsDate \in {Nothing, Past, 55 * Second}
        /\ h.goDate = Nothing /\ h.pyDate = Nothing
    BY <1>5 DEF Fractions
  <2>2. WellRead(h)
    BY <2>1, Zenon DEF WellRead, IsSeconds
  <2> QED
    BY <1>2, <2>1, <2>2 DEF Read
<1>6. CASE h \in OtherTexts
  <2>1. /\ h.digits = Nothing /\ h.number = FALSE /\ h.float = Nothing
        /\ h.jsDate \in Dates /\ h.goDate \in Dates /\ h.pyDate \in Dates
    BY <1>6 DEF OtherTexts
  <2>2. WellRead(h)
    BY <2>1, Zenon DEF WellRead, IsSeconds
  <2> QED
    BY <1>3, <2>1, <2>2 DEF Read
<1> QED
  BY <1>4, <1>5, <1>6 DEF Headers

\* The hypotheses of the theorems above hold of every case.
LEMMA CaseFacts ==
  ASSUME error \in Errors, wait \in Waits, append \in Appends
  PROVE  ReasonHasInfo /\ AnyWait /\ AnyAppend
<1>1. ReasonHasInfo
  BY DEF Errors, ReasonHasInfo
<1>2. AnyWait
  <2>1. Read(wait.header)
    BY HeadersAreRead DEF Waits
  <2>2. /\ wait.config.initial \in Int /\ wait.config.maximum \in Int
        /\ wait.config.jitter \in Int /\ wait.attempt \in 1..4 /\ wait.half \in 0..2
    BY DEF Waits, Second, Millisecond
  <2> QED
    BY <2>1, <2>2 DEF AnyWait
<1>3. AnyAppend
  BY TableChecksAssumption DEF Appends, AnyAppend, NoField
<1> QED
  BY <1>1, <1>2, <1>3

\* The five rules, for every case that is asked.
THEOREM EveryCaseIsRight ==
  Spec => [](/\ ReasonsDecideAlike /\ ReasonIsNeverOverruled
             /\ WaitsFollowSchedule /\ AppendsAgree /\ FollowUpIsSound)
<1> DEFINE Meant == error \in Errors /\ wait \in Waits /\ append \in Appends
<1>1. Init => Meant
  BY CasesAreMeant DEF Init
<1>2. Meant /\ [Next]_vars => Meant'
  BY CasesAreMeant DEF Next, Ask, Answered, vars
<1>3. Meant => /\ ReasonsDecideAlike /\ ReasonIsNeverOverruled
               /\ WaitsFollowSchedule /\ AppendsAgree /\ FollowUpIsSound
  BY CaseFacts, ReasonsAlwaysAgree, ReasonsAreFinal, WaitsAlwaysFollow, AppendsAlwaysAgree,
     FollowUpsPass
<1> HIDE DEF Meant
<1> QED
  BY <1>1, <1>2, <1>3, PTL DEF Spec
=============================================================================
