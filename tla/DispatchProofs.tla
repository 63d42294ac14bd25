--------------------------- MODULE DispatchProofs ---------------------------
(***************************************************************************)
(* Theorems of the TypeScript transport, for every retry configuration,    *)
(* every set of timeouts, answers and Retry-After values and any clock.    *)
(***************************************************************************)
EXTENDS Dispatch, TLAPS

-----------------------------------------------------------------------------
(* The inductive invariant.                                                *)

\* While another attempt may follow, it is within the limit and allowed.
AttemptsInv ==
  /\ pc = "idle" => attempt = 0
  /\ pc \in {"top", "waiting"} => attempt < MaxAttempts
  /\ pc \in {"top", "waiting"} /\ attempt > 0 => retrySafe
  /\ pc \in {"fetching", "reading", "waiting"} => attempt > 0

\* The deadline timer marks the timeout and aborts in one step; an aborted
\* call never waits, and one that has begun has a deadline a timer can hold.
SignalsInv ==
  /\ pc = "idle" => ~aborted /\ ~didTimeout
  /\ didTimeout => aborted /\ now >= timeoutMs
  /\ pc = "waiting" => ~aborted
  /\ pc \notin {"idle", "settled"} => ValidTimeout(timeoutMs)
  /\ pc \in {"idle", "top"} /\ attempt = 0 => now = 0 /\ notBefore = 0

\* A wait ends no earlier than the server asked, or not before the longest
\* delay a timer can hold, which is past the deadline.
WaitsInv ==
  /\ pc = "top" => now >= notBefore
  /\ pc = "waiting" => waitFor >= 1 /\ (WakeAt >= notBefore \/ waitFor = MaxTimer)

OutcomeInv ==
  /\ pc # "settled" => outcome = "none"
  /\ OutcomeTellsCause

IInv == TypeOK /\ AttemptsInv /\ SignalsInv /\ WaitsInv /\ OutcomeInv

-----------------------------------------------------------------------------
(* The delays.                                                             *)

\* Every delay of retryDelay is a natural number of milliseconds, and a
\* Retry-After is taken as it is.
LEMMA DelaysAreNat ==
  ASSUME NEW n, NEW ra \in RetryAfters \cup {None}, NEW ms \in RetryDelays(n, ra)
  PROVE  /\ ms \in Nat
         /\ ra # None => ms = ra /\ ra \in Nat
<1>1. CASE ra = None
  <2>1. ms \in Backoffs(n)
    BY <1>1 DEF RetryDelays
  <2>2. PICK d \in Jittered(Least(InitialDelay * 2^(n - 1), MaxDelay)) :
          ms = Least(MaxDelay, d)
    BY <2>1 DEF Backoffs
  <2>3. d \in Nat
    BY <2>2 DEF Jittered
  <2> QED
    BY <1>1, <2>2, <2>3, DispatchAssumption DEF Least
<1>2. CASE ra # None
  BY <1>2, DispatchAssumption DEF RetryDelays
<1> QED
  BY <1>1, <1>2

\* Every answer carries a Retry-After or none.
LEMMA AnswerFields ==
  ASSUME NEW a \in Answers \cup {NoAnswer}
  PROVE  a.retryAfter \in RetryAfters \cup {None}
<1>1. CASE a \in Answers
  BY <1>1 DEF Answers
<1>2. CASE a = NoAnswer
  BY <1>2 DEF NoAnswer
<1> QED
  BY <1>1, <1>2

\* A valid deadline is what the deadline timer is armed for.
LEMMA DeadlineIsTimeout ==
  ASSUME TypeOK, ValidTimeout(timeoutMs)
  PROVE  /\ DeadlineAt = timeoutMs
         /\ timeoutMs \in Int
         /\ timeoutMs <= MaxTimer
BY DispatchAssumption DEF TypeOK, ValidTimeout, DeadlineAt, SetTimeout

-----------------------------------------------------------------------------
(* Steps that several actions share.                                       *)

\* Settling with an outcome that tells its cause keeps the invariant.
LEMMA SettleKeeps ==
  ASSUME IInv, pc # "settled", NEW o \in Outcomes, Settle(o),
         UNCHANGED <<now, attempt, input, signals, header>>,
         answer' \in Answers \cup {NoAnswer},
         o = "MEDALLION_TIMEOUT" => didTimeout /\ now >= timeoutMs,
         o = "MEDALLION_ABORTED" => ~didTimeout,
         o = "MEDALLION_NETWORK_ERROR" => ~aborted
  PROVE  IInv'
<1> USE DEF IInv, Settle, input, signals, timer
<1>1. TypeOK'
  BY DEF TypeOK
<1>2. AttemptsInv'
  BY DEF AttemptsInv
<1>3. SignalsInv'
  BY DEF SignalsInv
<1>4. WaitsInv'
  BY DEF WaitsInv
<1>5. OutcomeInv'
  BY DEF OutcomeInv, OutcomeTellsCause
<1> QED
  BY <1>1, <1>2, <1>3, <1>4, <1>5

\* What the outer catch reports always tells its cause.
LEMMA CaughtTellsCause ==
  ASSUME IInv, NEW abortLike \in BOOLEAN, NEW o, o = Caught(abortLike)
  PROVE  /\ o \in Outcomes
         /\ o = "MEDALLION_TIMEOUT" => didTimeout /\ now >= timeoutMs
         /\ o = "MEDALLION_ABORTED" => ~didTimeout
         /\ o = "MEDALLION_NETWORK_ERROR" => ~aborted
BY DEF IInv, SignalsInv, Caught, Outcomes

\* Going to wait for the next attempt keeps the invariant.
LEMMA WaitKeeps ==
  ASSUME IInv, pc \in {"fetching", "reading"}, AttemptsLeft, retrySafe,
         NEW ra \in RetryAfters \cup {None}, WaitToRetry(ra),
         UNCHANGED <<now, attempt, input, signals, answer, header>>
  PROVE  IInv'
<1> USE DEF IInv, input, signals, timer
<1>1. PICK ms \in RetryDelays(attempt, ra) : AbortableDelay(ms)
  BY DEF WaitToRetry
<1>2. ms \in Nat /\ (ra # None => ms = ra /\ ra \in Nat)
  BY <1>1, DelaysAreNat
<1>3. notBefore' = IF ra = None THEN now ELSE now + ra
  BY DEF WaitToRetry
<1>4. now \in Nat /\ MaxTimer \in Nat /\ MaxTimer >= 1
  BY DispatchAssumption DEF TypeOK
<1>5. notBefore' \in Nat
  BY <1>2, <1>3, <1>4
<1>6. CASE aborted /\ pc' = "settled" /\ outcome' = Caught(TRUE) /\ UNCHANGED timer
  <2>1. /\ outcome' \in Outcomes
        /\ outcome' = "MEDALLION_TIMEOUT" => didTimeout /\ now >= timeoutMs
        /\ outcome' = "MEDALLION_ABORTED" => ~didTimeout
        /\ outcome' = "MEDALLION_NETWORK_ERROR" => ~aborted
    BY <1>6, CaughtTellsCause
  <2>2. TypeOK'
    BY <1>5, <1>6, <2>1 DEF TypeOK
  <2>3. AttemptsInv' /\ SignalsInv' /\ WaitsInv'
    BY <1>6 DEF AttemptsInv, SignalsInv, WaitsInv
  <2>4. OutcomeInv'
    BY <1>6, <2>1 DEF OutcomeInv, OutcomeTellsCause
  <2> QED
    BY <2>2, <2>3, <2>4
<1>7. CASE ~aborted /\ ms <= 0 /\ pc' = "top" /\ UNCHANGED <<outcome, timer>>
  <2>1. TypeOK'
    BY <1>5, <1>7 DEF TypeOK
  <2>2. AttemptsInv'
    BY <1>7 DEF AttemptsInv, AttemptsLeft
  <2>3. SignalsInv'
    BY <1>7 DEF SignalsInv, AttemptsInv, TypeOK
  <2>4. WaitsInv'
    BY <1>2, <1>3, <1>4, <1>7 DEF WaitsInv
  <2>5. OutcomeInv'
    BY <1>7 DEF OutcomeInv, OutcomeTellsCause
  <2> QED
    BY <2>1, <2>2, <2>3, <2>4, <2>5
<1>8. CASE /\ ~aborted /\ ms > 0 /\ pc' = "waiting"
           /\ waitFrom' = now /\ waitFor' = Arm(ms) /\ UNCHANGED outcome
  <2>1. /\ waitFor' \in Nat
        /\ waitFor' >= 1
        /\ waitFor' = ms \/ waitFor' = MaxTimer
    BY <1>2, <1>4, <1>8 DEF Arm, SetTimeout, Least
  <2>2. TypeOK'
    BY <1>4, <1>5, <1>8, <2>1 DEF TypeOK
  <2>3. AttemptsInv'
    BY <1>8 DEF AttemptsInv, AttemptsLeft
  <2>4. SignalsInv'
    BY <1>8 DEF SignalsInv
  <2>5. WaitsInv'
    BY <1>2, <1>3, <1>4, <1>8, <2>1 DEF WaitsInv, WakeAt
  <2>6. OutcomeInv'
    BY <1>8 DEF OutcomeInv, OutcomeTellsCause
  <2> QED
    BY <2>2, <2>3, <2>4, <2>5, <2>6
<1> QED
  BY <1>1, <1>6, <1>7, <1>8 DEF AbortableDelay

\* An error answer is retried only for an operation that may be repeated.
LEMMA RetryableIsSafe ==
  ASSUME NEW e, NEW safe, IsRetryableConnectError(e, safe)
  PROVE  safe
BY DEF IsRetryableConnectError

\* An error answer, retried or thrown, keeps the invariant.
LEMMA ApiFailureKeeps ==
  ASSUME IInv, pc = "reading", NEW e, ApiFailure(e),
         UNCHANGED <<now, attempt, input, signals, answer, header>>
  PROVE  IInv'
<1>0. answer \in Answers \cup {NoAnswer} /\ answer.retryAfter \in RetryAfters \cup {None}
  BY AnswerFields DEF IInv, TypeOK
<1>1. CASE AttemptsLeft /\ IsRetryableConnectError(e, retrySafe)
  <2>1. retrySafe /\ WaitToRetry(answer.retryAfter)
    BY <1>1, RetryableIsSafe DEF ApiFailure
  <2> QED
    BY <1>0, <1>1, <2>1, WaitKeeps
<1>2. CASE ~(AttemptsLeft /\ IsRetryableConnectError(e, retrySafe))
  <2>1. Settle("MEDALLION_API_ERROR")
    BY <1>2 DEF ApiFailure
  <2> QED
    BY <1>0, <2>1, SettleKeeps DEF Outcomes
<1> QED
  BY <1>1, <1>2

-----------------------------------------------------------------------------
(* The invariant is inductive.                                             *)

LEMMA InitIInv == Init => IInv
<1> SUFFICES ASSUME Init PROVE IInv
  OBVIOUS
<1>1. TypeOK
  <2>1. now \in 0..Horizon /\ attempt \in 0..MaxAttempts
    BY DispatchAssumption DEF Init
  <2>2. outcome \in Outcomes /\ answer \in Answers \cup {NoAnswer}
    BY DEF Init, Outcomes
  <2>3. /\ callerAborted \in BOOLEAN /\ aborted \in BOOLEAN /\ didTimeout \in BOOLEAN
        /\ retrySafe \in BOOLEAN /\ selectorAgrees \in BOOLEAN
    BY Zenon DEF Init
  <2>4. waitFrom \in Nat /\ waitFor \in Nat /\ header \in Int /\ notBefore \in Nat
    BY DEF Init
  <2>5. /\ pc \in {"idle", "top", "fetching", "reading", "waiting", "settled"}
        /\ timeoutMs \in Timeouts
    BY DEF Init
  <2> QED
    BY <2>1, <2>2, <2>3, <2>4, <2>5, Zenon DEF TypeOK
<1>2. AttemptsInv /\ SignalsInv /\ WaitsInv /\ OutcomeInv
  BY DEF Init, AttemptsInv, SignalsInv, WaitsInv, OutcomeInv, OutcomeTellsCause
<1> QED
  BY <1>1, <1>2 DEF IInv

LEMMA NextIInv == IInv /\ [Next]_vars => IInv'
<1> SUFFICES ASSUME IInv, [Next]_vars PROVE IInv'
  OBVIOUS
<1>0. answer \in Answers \cup {NoAnswer} /\ answer.retryAfter \in RetryAfters \cup {None}
  BY AnswerFields DEF IInv, TypeOK
<1>1. CASE Refuse
  <2>1. PICK o \in {"MEDALLION_WORKSPACE_SELECTOR_CONFLICT", "MEDALLION_INVALID_TIMEOUT"} :
          Settle(o)
    BY <1>1 DEF Refuse
  <2> QED
    BY <1>0, <1>1, <2>1, SettleKeeps DEF Refuse, Outcomes
<1>2. CASE Start
  <2> USE <1>2 DEF Start, IInv, input, timer
  <2>1. TypeOK'
    BY DEF TypeOK
  <2>2. AttemptsInv'
    BY DispatchAssumption DEF AttemptsInv
  <2>3. SignalsInv'
    BY DEF SignalsInv, ValidTimeout
  <2>4. WaitsInv'
    BY DEF WaitsInv, SignalsInv, AttemptsInv
  <2>5. OutcomeInv'
    BY DEF OutcomeInv, OutcomeTellsCause
  <2> QED
    BY <2>1, <2>2, <2>3, <2>4, <2>5
<1>3. CASE Attempt
  <2>1. CASE aborted /\ Settle(Caught(TRUE))
               /\ UNCHANGED <<now, attempt, input, signals, answer, header>>
    BY <1>0, <1>3, <2>1, CaughtTellsCause, SettleKeeps DEF Attempt
  <2>2. CASE ~aborted /\ Fetch
    <3> USE <1>3, <2>2 DEF Attempt, Fetch, IInv, input, signals, timer
    <3>1. ConnectTimeout(attempt + 1) \in Int
      BY DispatchAssumption DEF ConnectTimeout, TypeOK, Least, Greatest
    <3>2. TypeOK'
      BY <3>1, DispatchAssumption DEF TypeOK, AttemptsInv
    <3>3. AttemptsInv'
      BY DEF AttemptsInv, TypeOK
    <3>4. SignalsInv'
      BY DEF SignalsInv, ValidTimeout
    <3>5. WaitsInv'
      BY DEF WaitsInv
    <3>6. OutcomeInv'
      BY DEF OutcomeInv, OutcomeTellsCause
    <3> QED
      BY <3>2, <3>3, <3>4, <3>5, <3>6
  <2> QED
    BY <1>3, <2>1, <2>2 DEF Attempt
<1>4. ASSUME NEW abortLike \in BOOLEAN, FetchRejects(abortLike) PROVE IInv'
  <2>1. CASE AttemptsLeft /\ retrySafe /\ ~abortLike /\ ~aborted
    BY <1>4, <2>1, WaitKeeps DEF FetchRejects
  <2>2. CASE ~(AttemptsLeft /\ retrySafe /\ ~abortLike /\ ~aborted)
    BY <1>0, <1>4, <2>2, CaughtTellsCause, SettleKeeps DEF FetchRejects
  <2> QED
    BY <2>1, <2>2
<1>5. CASE FetchRedirected
  BY <1>0, <1>5, SettleKeeps DEF FetchRedirected, Outcomes
<1>6. ASSUME NEW a \in Answers, FetchResolves(a) PROVE IInv'
  <2> USE <1>6 DEF FetchResolves, IInv, input, signals, timer
  <2>1. TypeOK'
    BY DEF TypeOK
  <2>2. AttemptsInv' /\ SignalsInv' /\ WaitsInv' /\ OutcomeInv'
    BY DEF AttemptsInv, SignalsInv, WaitsInv, OutcomeInv, OutcomeTellsCause,
           ValidTimeout
  <2> QED
    BY <2>1, <2>2
<1>7. CASE BodyDecoded
  <2>1. CASE answer.ok
    BY <1>0, <1>7, <2>1, SettleKeeps DEF BodyDecoded, Outcomes
  <2>2. CASE ~answer.ok
    BY <1>7, <2>2, ApiFailureKeeps DEF BodyDecoded
  <2> QED
    BY <2>1, <2>2
<1>8. CASE BodyNotJson
  <2>1. CASE answer.ok
    BY <1>0, <1>8, <2>1, SettleKeeps DEF BodyNotJson, Outcomes
  <2>2. CASE ~answer.ok
    BY <1>8, <2>2, ApiFailureKeeps DEF BodyNotJson
  <2> QED
    BY <2>1, <2>2
<1>9. CASE BodyTooLarge
  BY <1>0, <1>9, SettleKeeps DEF BodyTooLarge, Outcomes
<1>10. ASSUME NEW abortLike \in BOOLEAN, BodyUnreadable(abortLike) PROVE IInv'
  <2> DEFINE Again ==
        /\ AttemptsLeft /\ retrySafe /\ ~abortLike /\ ~aborted
        /\ answer.ok \/ IsRetryableConnectError(StatusOnly(answer.err), TRUE)
  <2>1. CASE Again
    <3>1. WaitToRetry(answer.retryAfter)
      BY <1>10, <2>1 DEF BodyUnreadable
    <3> QED
      BY <1>0, <1>10, <2>1, <3>1, WaitKeeps DEF BodyUnreadable
  <2>2. CASE ~Again
    <3>1. Settle(Caught(abortLike))
      BY <1>10, <2>2 DEF BodyUnreadable
    <3> QED
      BY <1>0, <1>10, <3>1, CaughtTellsCause, SettleKeeps DEF BodyUnreadable
  <2> QED
    BY <2>1, <2>2
<1>11. CASE BackoffExpires
  <2> USE <1>11 DEF BackoffExpires, IInv, input, signals, timer
  <2>1. TypeOK'
    BY DEF TypeOK
  <2>2. AttemptsInv'
    BY DEF AttemptsInv
  <2>3. SignalsInv'
    BY DEF SignalsInv, AttemptsInv, ValidTimeout
  <2>4. WaitsInv'
    <3>1. ~didTimeout /\ ValidTimeout(timeoutMs)
      BY DEF SignalsInv
    <3>2. DeadlineAt >= WakeAt /\ (DeadlineAt = WakeAt => waitFrom # 0)
      BY <3>1, DeadlineIsTimeout, DispatchAssumption
         DEF DeadlineFirst, TypeOK, WakeAt
    <3>3. WakeAt >= notBefore
      BY <3>1, <3>2, DeadlineIsTimeout, DispatchAssumption
         DEF WaitsInv, WakeAt, TypeOK
    <3> QED
      BY <3>3 DEF WaitsInv, TypeOK, WakeAt
  <2>5. OutcomeInv'
    BY DEF OutcomeInv, OutcomeTellsCause
  <2> QED
    BY <2>1, <2>2, <2>3, <2>4, <2>5
<1>12. CASE DeadlineFires
  <2> USE <1>12 DEF DeadlineFires, DeadlineDue, Awaiting, EndWait, IInv, input,
                    timer
  <2>1. now >= timeoutMs
    BY DeadlineIsTimeout DEF SignalsInv
  <2>2. TypeOK'
    BY DEF TypeOK, Outcomes
  <2>3. AttemptsInv'
    BY DEF AttemptsInv
  <2>4. SignalsInv'
    BY <2>1 DEF SignalsInv, ValidTimeout
  <2>5. WaitsInv'
    BY DEF WaitsInv
  <2>6. OutcomeInv'
    BY <2>1 DEF OutcomeInv, OutcomeTellsCause
  <2> QED
    BY <2>2, <2>3, <2>4, <2>5, <2>6
<1>13. CASE CallerAborts
  <2> USE <1>13 DEF CallerAborts, EndWait, IInv, input, timer
  <2>1. TypeOK'
    BY DEF TypeOK, Outcomes
  <2>2. AttemptsInv'
    BY DEF AttemptsInv
  <2>3. SignalsInv'
    BY DEF SignalsInv, ValidTimeout
  <2>4. WaitsInv'
    BY DEF WaitsInv
  <2>5. OutcomeInv'
    BY DEF OutcomeInv, OutcomeTellsCause, SignalsInv
  <2> QED
    BY <2>1, <2>2, <2>3, <2>4, <2>5
<1>14. CASE Tick
  <2> USE <1>14 DEF Tick, Awaiting, IInv, input, signals, timer
  <2>1. TypeOK'
    BY DispatchAssumption DEF TypeOK
  <2>2. AttemptsInv'
    BY DEF AttemptsInv
  <2>3. SignalsInv'
    <3>1. now \in Int /\ timeoutMs \in Int
      BY DispatchAssumption DEF TypeOK
    <3> QED
      BY <3>1 DEF SignalsInv, ValidTimeout
  <2>4. WaitsInv'
    BY DEF WaitsInv, WakeAt
  <2>5. OutcomeInv'
    BY DEF OutcomeInv, OutcomeTellsCause
  <2> QED
    BY <2>1, <2>2, <2>3, <2>4, <2>5
<1>15. CASE UNCHANGED vars
  BY <1>15 DEF vars, input, signals, timer, IInv, TypeOK, AttemptsInv, SignalsInv,
               ValidTimeout, WaitsInv, WakeAt, OutcomeInv, OutcomeTellsCause
<1> QED
  BY <1>1, <1>2, <1>3, <1>4, <1>5, <1>6, <1>7, <1>8, <1>9, <1>10, <1>11,
     <1>12, <1>13, <1>14, <1>15 DEF Next, Done

-----------------------------------------------------------------------------
(* The theorems.                                                           *)

LEMMA SpecIInv == Spec => []IInv
BY InitIInv, NextIInv, PTL DEF Spec

\* Every state of every run is well typed: no call makes more than
\* retry.maxAttempts attempts, whatever the server and the clock do.
THEOREM TypeCorrect == Spec => []TypeOK
<1>1. IInv => TypeOK
  BY DEF IInv
<1> QED
  BY <1>1, SpecIInv, PTL

\* MEDALLION_TIMEOUT, MEDALLION_ABORTED and MEDALLION_NETWORK_ERROR always name
\* what ended the call.
THEOREM OutcomesTellTheirCause == Spec => []OutcomeTellsCause
<1>1. IInv => OutcomeTellsCause
  BY DEF IInv, OutcomeInv
<1> QED
  BY <1>1, SpecIInv, PTL

-----------------------------------------------------------------------------
(* What a new attempt is.                                                  *)

\* Only the top of the loop begins an attempt.
LEMMA OnlyFetchAttempts ==
  ASSUME IInv, [Next]_vars, attempt' > attempt
  PROVE  Attempt /\ ~aborted /\ Fetch
<1>0. attempt \in Int
  BY DEF IInv, TypeOK
<1>1. ASSUME UNCHANGED attempt PROVE FALSE
  BY <1>0, <1>1
<1>2. CASE Attempt
  BY <1>1, <1>2 DEF Attempt
<1>3. ASSUME ~Attempt PROVE FALSE
  BY <1>1, <1>3
     DEF Next, Refuse, Start, FetchRejects, FetchRedirected, FetchResolves,
         BodyDecoded, BodyNotJson, BodyTooLarge, BodyUnreadable, BackoffExpires,
         DeadlineFires, CallerAborts, Tick, Done, vars
<1> QED
  BY <1>2, <1>3

\* No attempt leaves before the time the server's Retry-After asked for, even
\* when no timer can hold it: the deadline cancels the wait first.
THEOREM RetryAfterIsHonoured == Spec => RetryAfterHonoured
<1>1. IInv /\ [Next]_vars => [attempt' > attempt => now >= notBefore]_vars
  <2> SUFFICES ASSUME IInv, [Next]_vars, attempt' > attempt PROVE now >= notBefore
    OBVIOUS
  <2> QED
    BY OnlyFetchAttempts DEF Attempt, IInv, WaitsInv
<1> QED
  BY <1>1, SpecIInv, PTL DEF Spec, RetryAfterHonoured

\* Connect-Timeout-Ms is positive and never grants more than what is left.
THEOREM TimeoutHeaderIsSound == Spec => TimeoutHeaderSound
<1>1. IInv /\ [Next]_vars =>
        [attempt' > attempt => header' \in 1..Greatest(1, timeoutMs - now)]_vars
  <2> SUFFICES ASSUME IInv, [Next]_vars, attempt' > attempt
               PROVE  header' \in 1..Greatest(1, timeoutMs - now)
    OBVIOUS
  <2>1. pc = "top" /\ Fetch
    BY OnlyFetchAttempts DEF Attempt
  <2>2. /\ header' = ConnectTimeout(attempt + 1)
        /\ ValidTimeout(timeoutMs)
        /\ attempt = 0 => now = 0
        /\ now \in Int /\ timeoutMs \in Int /\ attempt \in Nat
        /\ MaxTimer \in Nat /\ MaxTimer >= 1
    BY <2>1, DispatchAssumption DEF Fetch, IInv, SignalsInv, TypeOK
  <2> QED
    BY <2>2 DEF ConnectTimeout, ValidTimeout, Least, Greatest
<1> QED
  BY <1>1, SpecIInv, PTL DEF Spec, TimeoutHeaderSound

-----------------------------------------------------------------------------
(* The transport implements BoundedRetry.                                  *)

LEMMA InitRefines == Init => BR!Init
BY DEF Init, BR!Init, Phase

\* A call that settles without a change of its signal maps to Finish.
LEMMA SettledFinishes ==
  ASSUME pc # "settled", pc' = "settled", UNCHANGED <<attempt, retrySafe, aborted>>
  PROVE  BR!Next
BY DEF BR!Next, BR!Finish, Phase

\* Going to wait gives the attempt up; an aborted signal ends the call instead.
LEMMA WaitRefines ==
  ASSUME IInv, pc \in {"fetching", "reading"}, AttemptsLeft, retrySafe,
         NEW ra, WaitToRetry(ra), UNCHANGED <<attempt, input, signals>>
  PROVE  BR!Next
<1>1. PICK ms : AbortableDelay(ms)
  BY DEF WaitToRetry
<1>2. CASE pc' = "settled"
  BY <1>2, SettledFinishes DEF input, signals
<1>3. CASE ~aborted /\ pc' \in {"top", "waiting"}
  <2>1. Phase = "inflight" /\ Phase' = "retry"
    BY <1>3 DEF Phase, IInv, AttemptsInv, input
  <2> QED
    BY <1>3, <2>1 DEF BR!Next, BR!GiveUpAttempt, AttemptsLeft, input, signals
<1> QED
  BY <1>1, <1>2, <1>3 DEF AbortableDelay

LEMMA ApiFailureRefines ==
  ASSUME IInv, pc = "reading", NEW e, ApiFailure(e),
         UNCHANGED <<attempt, input, signals>>
  PROVE  BR!Next
<1>1. CASE AttemptsLeft /\ IsRetryableConnectError(e, retrySafe)
  BY <1>1, RetryableIsSafe, WaitRefines DEF ApiFailure
<1>2. CASE ~(AttemptsLeft /\ IsRetryableConnectError(e, retrySafe))
  BY <1>2, SettledFinishes DEF ApiFailure, Settle, input, signals
<1> QED
  BY <1>1, <1>2

LEMMA NextRefines == IInv /\ [Next]_vars => [BR!Next]_BR!vars
<1> SUFFICES ASSUME IInv, [Next]_vars PROVE BR!Next \/ UNCHANGED BR!vars
  BY DEF BR!vars
<1> DEFINE Same == UNCHANGED BR!vars
<1>1. CASE Refuse
  BY <1>1, SettledFinishes DEF Refuse, Settle, input, signals
<1>2. CASE Start
  <2>1. Phase = "new" /\ Phase' = "new" /\ ~aborted
    BY <1>2 DEF Start, Phase, IInv, AttemptsInv, SignalsInv
  <2>2. CASE callerAborted
    BY <1>2, <2>1, <2>2 DEF Start, BR!Next, BR!Cancel, input, IInv, TypeOK
  <2>3. CASE ~callerAborted
    <3>1. aborted' = aborted
      BY <1>2, <2>1, <2>3 DEF Start, IInv, TypeOK
    <3> QED
      BY <1>2, <2>1, <3>1 DEF Start, BR!vars, input
  <2> QED
    BY <2>2, <2>3
<1>3. CASE Attempt
  <2>1. CASE aborted /\ Settle(Caught(TRUE)) /\ UNCHANGED <<attempt, input, signals>>
    BY <1>3, <2>1, SettledFinishes DEF Attempt, Settle, input, signals
  <2>2. CASE ~aborted /\ Fetch
    <3>1. Phase \in {"new", "retry"} /\ Phase' = "inflight" /\ attempt < MaxAttempts
      BY <1>3, <2>2 DEF Attempt, Fetch, Phase, IInv, AttemptsInv
    <3> QED
      BY <2>2, <3>1 DEF Fetch, BR!Next, BR!Send, input, signals
  <2> QED
    BY <1>3, <2>1, <2>2 DEF Attempt
<1>4. ASSUME NEW abortLike \in BOOLEAN, FetchRejects(abortLike) PROVE BR!Next
  <2>1. CASE AttemptsLeft /\ retrySafe /\ ~abortLike /\ ~aborted
    BY <1>4, <2>1, WaitRefines DEF FetchRejects
  <2>2. CASE ~(AttemptsLeft /\ retrySafe /\ ~abortLike /\ ~aborted)
    BY <1>4, <2>2, SettledFinishes DEF FetchRejects, Settle, input, signals
  <2> QED
    BY <2>1, <2>2
<1>5. CASE FetchRedirected
  BY <1>5, SettledFinishes DEF FetchRedirected, Settle, input, signals
<1>6. ASSUME NEW a \in Answers, FetchResolves(a) PROVE Same
  BY <1>6 DEF FetchResolves, BR!vars, Phase, input, signals
<1>7. CASE BodyDecoded
  <2>1. CASE answer.ok
    BY <1>7, <2>1, SettledFinishes DEF BodyDecoded, Settle, input, signals
  <2>2. CASE ~answer.ok
    BY <1>7, <2>2, ApiFailureRefines DEF BodyDecoded
  <2> QED
    BY <2>1, <2>2
<1>8. CASE BodyNotJson
  <2>1. CASE answer.ok
    BY <1>8, <2>1, SettledFinishes DEF BodyNotJson, Settle, input, signals
  <2>2. CASE ~answer.ok
    BY <1>8, <2>2, ApiFailureRefines DEF BodyNotJson
  <2> QED
    BY <2>1, <2>2
<1>9. CASE BodyTooLarge
  BY <1>9, SettledFinishes DEF BodyTooLarge, Settle, input, signals
<1>10. ASSUME NEW abortLike \in BOOLEAN, BodyUnreadable(abortLike) PROVE BR!Next
  <2>1. CASE /\ AttemptsLeft /\ retrySafe
             /\ WaitToRetry(answer.retryAfter)
    BY <1>10, <2>1, WaitRefines DEF BodyUnreadable
  <2>2. CASE Settle(Caught(abortLike))
    BY <1>10, <2>2, SettledFinishes DEF BodyUnreadable, Settle, input, signals
  <2> QED
    BY <1>10, <2>1, <2>2 DEF BodyUnreadable
<1>11. CASE BackoffExpires
  BY <1>11 DEF BackoffExpires, BR!vars, Phase, IInv, AttemptsInv, input, signals
<1>12. CASE DeadlineFires
  <2>1. Phase # "done" /\ Phase' \in {Phase, "done"}
    BY <1>12 DEF DeadlineFires, DeadlineDue, Awaiting, EndWait, Phase
  <2> QED
    BY <1>12, <2>1 DEF DeadlineFires, BR!Next, BR!Cancel, input
<1>13. CASE CallerAborts
  <2>1. Phase # "done" /\ Phase' \in {Phase, "done"}
    BY <1>13 DEF CallerAborts, EndWait, Phase
  <2>2. CASE aborted' = TRUE
    BY <1>13, <2>1, <2>2 DEF CallerAborts, BR!Next, BR!Cancel, input
  <2>3. CASE pc = "idle" /\ ~aborted
    <3>1. aborted' = aborted /\ pc' = pc
      BY <1>13, <2>3 DEF CallerAborts, EndWait, IInv, TypeOK
    <3> QED
      BY <1>13, <3>1 DEF CallerAborts, BR!vars, Phase, input
  <2>4. aborted' = TRUE \/ (pc = "idle" /\ ~aborted)
    BY <1>13 DEF CallerAborts, IInv, TypeOK
  <2> QED
    BY <2>2, <2>3, <2>4
<1>14. CASE Tick
  BY <1>14 DEF Tick, BR!vars, Phase, input, signals
<1>15. CASE UNCHANGED vars
  BY <1>15 DEF vars, BR!vars, Phase, input, signals
<1> QED
  BY <1>1, <1>2, <1>3, <1>4, <1>5, <1>6, <1>7, <1>8, <1>9, <1>10, <1>11,
     <1>12, <1>13, <1>14, <1>15 DEF Next, Done

\* Every run of the transport is a run of BoundedRetry: at most MaxAttempts
\* requests, repeated only when safe, none after cancellation or the outcome.
THEOREM TransportImplementsBoundedRetry == Spec => SendsAreBounded
BY InitRefines, NextRefines, SpecIInv, PTL DEF Spec, SendsAreBounded, BR!Spec

-----------------------------------------------------------------------------
(* A call comes to an end.                                                 *)

\* How many steps a call has left at most, but for the passing of time: the
\* attempts, the way through each of them, the deadline and the caller's abort.
StepsLeft ==
  5 * (MaxAttempts - attempt)
    + (CASE pc \in {"idle", "waiting"} -> 2 [] pc = "top" -> 1 [] pc = "fetching" -> 4
         [] pc = "reading" -> 3 [] OTHER -> 0)
    + (IF callerAborted THEN 0 ELSE 1) + (IF didTimeout THEN 0 ELSE 1)

\* What a call that has begun does next without anyone's help: the top of the loop
\* runs on, an aborted fetch or stream rejects, a timer that expired fires.
Due ==
  \/ pc = "top"
  \/ pc \in {"fetching", "reading"} /\ aborted
  \/ DeadlineDue
  \/ pc = "waiting" /\ now >= WakeAt /\ ~DeadlineFirst

\* A call never goes round without using an attempt up, and from its deadline on
\* it is never left waiting for the server: as long as it is not settled it has
\* a step to make, of the finitely many it has.  (CallSettles adds the fairness
\* of these steps and of the clock.)
THEOREM CallNearsItsEnd ==
  Spec => /\ [](StepsLeft \in Nat)
          /\ [][now' = now => StepsLeft' < StepsLeft]_vars
          /\ [](pc \notin {"idle", "settled"} /\ now >= timeoutMs => Due)
<1>1. IInv => StepsLeft \in Nat
  BY DispatchAssumption DEF IInv, TypeOK, StepsLeft
<1>2. IInv /\ [Next]_vars => [now' = now => StepsLeft' < StepsLeft]_vars
  <2> SUFFICES ASSUME IInv, [Next]_vars, vars' # vars, now' = now PROVE StepsLeft' < StepsLeft
    OBVIOUS
  <2>1. /\ MaxAttempts \in Nat /\ attempt \in 0..MaxAttempts
        /\ callerAborted \in BOOLEAN /\ didTimeout \in BOOLEAN
    BY DispatchAssumption DEF IInv, TypeOK
  <2> USE DEF input, signals, StepsLeft
  <2>2. CASE Refuse
    BY <2>1, <2>2 DEF Refuse, Settle
  <2>3. CASE Start
    BY <2>1, <2>3 DEF Start
  <2>4. CASE Attempt
    <3>1. /\ pc = "top" /\ UNCHANGED <<callerAborted, didTimeout>>
          /\ \/ pc' = "settled" /\ UNCHANGED attempt
             \/ pc' = "fetching" /\ attempt' = attempt + 1
      BY <2>4 DEF Attempt, Fetch, Settle
    <3> QED
      BY <2>1, <3>1
  <2>5. ASSUME NEW ra, WaitToRetry(ra), pc \in {"fetching", "reading"},
               UNCHANGED <<attempt, signals>>
        PROVE  StepsLeft' < StepsLeft
    <3>1. pc' \in {"settled", "top", "waiting"}
      BY <2>5 DEF WaitToRetry, AbortableDelay
    <3> QED
      BY <2>1, <2>5, <3>1
  <2>6. ASSUME NEW o, Settle(o), pc \in {"fetching", "reading"}, UNCHANGED <<attempt, signals>>
        PROVE  StepsLeft' < StepsLeft
    BY <2>1, <2>6 DEF Settle
  <2>7. CASE FetchRedirected \/ \E abortLike \in BOOLEAN : FetchRejects(abortLike)
    BY <2>5, <2>6, <2>7 DEF FetchRedirected, FetchRejects
  <2>8. ASSUME NEW a \in Answers, FetchResolves(a) PROVE StepsLeft' < StepsLeft
    BY <2>1, <2>8 DEF FetchResolves
  <2>9. ASSUME BodyDecoded \/ BodyNotJson \/ BodyTooLarge
               \/ \E abortLike \in BOOLEAN : BodyUnreadable(abortLike)
        PROVE  StepsLeft' < StepsLeft
    BY <2>5, <2>6, <2>9 DEF BodyDecoded, BodyNotJson, BodyTooLarge, BodyUnreadable, ApiFailure
  <2>10. CASE BackoffExpires
    BY <2>1, <2>10 DEF BackoffExpires
  <2>11. CASE DeadlineFires
    BY <2>1, <2>11 DEF DeadlineFires, DeadlineDue, EndWait
  <2>12. CASE CallerAborts
    BY <2>1, <2>12 DEF CallerAborts, EndWait
  <2>13. ~Tick
    BY DEF Tick, IInv, TypeOK
  <2> HIDE DEF StepsLeft
  <2> QED
    BY <2>2, <2>3, <2>4, <2>7, <2>8, <2>9, <2>10, <2>11, <2>12, <2>13 DEF Next, Done
<1>3. IInv => (pc \notin {"idle", "settled"} /\ now >= timeoutMs => Due)
  <2> SUFFICES ASSUME IInv, pc \notin {"idle", "settled"}, now >= timeoutMs PROVE Due
    OBVIOUS
  <2>1. DeadlineAt = timeoutMs /\ timeoutMs \in Int /\ now \in Nat
    BY DeadlineIsTimeout DEF IInv, TypeOK, SignalsInv
  <2>2. CASE didTimeout
    BY <2>2 DEF IInv, TypeOK, SignalsInv, Due
  <2>3. CASE ~didTimeout /\ pc # "waiting"
    BY <2>1, <2>3 DEF IInv, TypeOK, DeadlineDue, Awaiting, Due
  <2>4. CASE ~didTimeout /\ pc = "waiting"
    <3>1. WakeAt \in Nat
      BY DEF IInv, TypeOK, WakeAt
    <3>2. CASE WakeAt < DeadlineAt
      BY <2>1, <2>4, <3>1, <3>2 DEF DeadlineFirst, Due
    <3>3. CASE ~(WakeAt < DeadlineAt)
      BY <2>1, <2>4, <3>3 DEF DeadlineDue, Awaiting, Due
    <3> QED
      BY <3>2, <3>3
  <2> QED
    BY <2>2, <2>3, <2>4
<1> QED
  BY <1>1, <1>2, <1>3, SpecIInv, PTL DEF Spec
=============================================================================
