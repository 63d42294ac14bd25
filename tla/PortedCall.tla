----------------------------- MODULE PortedCall -----------------------------
(***************************************************************************)
(* One call of the Go or of the Python client: the state both transports   *)
(* have, their clock, their caller and their peer.  GoTransport and        *)
(* PyTransport add the steps of each.                                      *)
(*                                                                         *)
(* Time is counted in ticks.  It passes while the call waits for the peer  *)
(* or for a timer that is not due; a step of the program may lag MaxLag    *)
(* ticks in all.                                                           *)
(***************************************************************************)
EXTENDS Integers

CONSTANTS
  Sdks,          \* the clients: "go", "python"
  MaxAttempts,   \* the attempts the retry configuration allows
  Timeout,       \* the total timeout of a call
  Deadlines,     \* deadlines a Go caller's context may bring instead
  AttemptLimits, \* the timeout of Go's http.Client for an attempt, or Never
  Delays,        \* backoff with its jitter, and what Retry-After may say
  MaxChunks,     \* bound: MAX_RESPONSE_BYTES, in the chunks a peer sends
  MaxLag,        \* bound: ticks the program lags
  Never          \* later than every deadline

ASSUME PortedCallAssumption ==
  /\ MaxAttempts \in 1..5
  /\ Timeout \in Nat \ {0}
  /\ Deadlines \subseteq Nat \ {0}
  /\ AttemptLimits \subseteq Nat \ {0}
  /\ Delays \subseteq Nat
  /\ MaxChunks \in Nat
  /\ MaxLag \in Nat
  /\ Never \in Nat

VARIABLES
  sdk,       \* the client
  safe,      \* the operation is declared safe to repeat
  deadline,  \* when the call has to end
  limit,     \* how long an attempt may take: Go's client timeout
  pc,        \* where the call stands
  attempt,   \* the attempt under way
  answer,    \* the status the peer answered with
  delay,     \* the delay before the next attempt
  blame,     \* what the call reports if that delay does not fit
  outcome,   \* what it reported
  now,       \* the clock
  timer,     \* when the wait ends
  opened,    \* when the attempt was sent, or its socket last moved
  allowed,   \* how long its socket may stay quiet: Python
  chunks,    \* chunks of its answer that came
  lag,       \* ticks the program lagged
  ctx,       \* "live", or "canceled" or "expired", whichever was first
  sends,     \* requests sent (history)
  after      \* requests sent after the cancellation (history)

call == <<sdk, safe, deadline, limit>>
clock == <<now, lag>>
socket == <<answer, opened, allowed, chunks>>
retry == <<delay, blame>>
history == <<sends, after>>
vars == <<call, pc, attempt, socket, retry, outcome, clock, timer, ctx, history>>

\* A success; an error that is transient by its HTTP status, one that is by its
\* reason alone, one whose reason overrules such a status, and one that is final.
Answers == {"ok", "transient", "reasoned", "overruled", "final"}

\* What is tried again of an answer that was read, and of one that was not.
RetryableError == answer \in {"transient", "reasoned"}
RetryableReadFailure == answer \in {"ok", "transient", "overruled"}

Init ==
  /\ sdk \in Sdks
  /\ safe \in BOOLEAN
  /\ deadline \in IF sdk = "go" THEN Deadlines \union {Timeout} ELSE {Timeout}
  /\ limit \in IF sdk = "go" THEN AttemptLimits ELSE {Never}
  /\ pc = "top"
  /\ attempt = 1
  /\ answer = "none"
  /\ delay = 0
  /\ blame = "none"
  /\ outcome = "none"
  /\ now = 0
  /\ timer = 0
  /\ opened = 0
  /\ allowed = 0
  /\ chunks = 0
  /\ lag = 0
  /\ ctx = "live"
  /\ sends = 0
  /\ after = 0

InFlight == pc \in {"headers", "body"}

Report(what) == pc' = "done" /\ outcome' = what

Cancel ==
  /\ pc # "done"
  /\ ctx = "live"
  /\ ctx' = "canceled"
  /\ UNCHANGED <<call, pc, attempt, socket, retry, outcome, clock, timer, history>>

\* The request goes out; from the check before it to here no time passes, but
\* the caller may have cancelled.
Send ==
  /\ pc = "sending"
  /\ pc' = "headers"
  /\ answer' = "none"
  /\ opened' = now
  /\ chunks' = 0
  /\ sends' = sends + 1
  /\ after' = IF ctx = "canceled" THEN after + 1 ELSE after
  /\ UNCHANGED <<call, attempt, allowed, retry, outcome, clock, timer, ctx>>

HeadersArrive(a, moved) ==
  /\ pc = "headers"
  /\ pc' = "body"
  /\ answer' = a
  /\ opened' = moved
  /\ UNCHANGED <<call, attempt, allowed, chunks, retry, outcome, clock, timer, ctx, history>>

\* A piece of the answer comes.
Chunk(moved) ==
  /\ InFlight
  /\ chunks < MaxChunks
  /\ chunks' = chunks + 1
  /\ opened' = moved
  /\ UNCHANGED <<call, pc, attempt, answer, allowed, retry, outcome, clock, timer, ctx, history>>

\* The attempt failed with what: another one is planned, after some delay, if
\* one is left and the operation may be repeated; else that is the outcome.
MayRetryOneMore == safe /\ attempt <= MaxAttempts
MayRetryAnything == attempt < MaxAttempts
MayRetry == safe /\ attempt < MaxAttempts

PlanOrReport(retryable, what) ==
  /\ IF retryable /\ MayRetry
     THEN /\ pc' = "fits"
          /\ delay' \in Delays
          /\ blame' = what
          /\ UNCHANGED outcome
     ELSE Report(what) /\ UNCHANGED retry
  /\ UNCHANGED <<call, attempt, socket, clock, timer, ctx, history>>

\* The answer was read: a larger one than the limit counts for nothing.
BodyRead ==
  /\ pc = "body"
  /\ \/ PlanOrReport(FALSE, "TOO_LARGE")
     \/ answer = "ok" /\ \E what \in {"OK", "INVALID"} : PlanOrReport(FALSE, what)
     \/ answer # "ok" /\ PlanOrReport(RetryableError, "API")

\* The clock is read to see whether the delay fits; if not, that is the outcome.
Fits == delay < deadline - now

CanWait(what) ==
  /\ pc = "fits"
  /\ IF Fits THEN pc' = "armed" /\ UNCHANGED outcome ELSE Report(what)
  /\ UNCHANGED <<call, attempt, socket, retry, clock, timer, ctx, history>>

\* The timer starts from a later reading.
Arm ==
  /\ pc = "armed"
  /\ pc' = "waiting"
  /\ timer' = now + delay
  /\ UNCHANGED <<call, attempt, socket, retry, outcome, clock, ctx, history>>

NextAttempt ==
  /\ pc = "waiting"
  /\ now >= timer
  /\ pc' = "top"
  /\ attempt' = attempt + 1
  /\ UNCHANGED <<call, socket, retry, outcome, clock, timer, ctx, history>>

\* A tick; cut is when the attempt under way is cut.
Tick(cut) ==
  /\ now' = now + 1
  /\ \/ InFlight /\ now < cut /\ UNCHANGED lag
     \/ pc = "waiting" /\ now < timer /\ UNCHANGED lag
     \/ pc \in {"top", "fits", "armed", "waiting"} /\ lag < MaxLag /\ lag' = lag + 1
  /\ ctx' = IF sdk = "go" /\ ctx = "live" /\ now' >= deadline THEN "expired" ELSE ctx
  /\ UNCHANGED <<call, pc, attempt, socket, retry, outcome, timer, history>>
=============================================================================
