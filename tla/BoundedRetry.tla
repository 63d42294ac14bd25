---------------------------- MODULE BoundedRetry ----------------------------
(***************************************************************************)
(* What a call of the SDK promises about the requests it puts on the wire, *)
(* whatever the server, the network and the clock do: it sends at most     *)
(* MaxAttempts requests, it sends a second one only for an operation that  *)
(* is safe to repeat and only after the one before was given up, it sends  *)
(* none once it was cancelled, and none after it reported its outcome.     *)
(***************************************************************************)
EXTENDS Integers

CONSTANT MaxAttempts

VARIABLES
  phase,      \* "new", "inflight" (a request is out), "retry" or "done"
  sends,      \* how many requests were sent
  safe,       \* is the operation declared safe to repeat
  cancelled   \* has the caller or the deadline cancelled the call

vars == <<phase, sends, safe, cancelled>>

Init ==
  /\ phase = "new"
  /\ sends = 0
  /\ safe \in BOOLEAN
  /\ cancelled = FALSE

Send ==
  /\ phase \in {"new", "retry"}
  /\ ~cancelled
  /\ sends < MaxAttempts
  /\ phase' = "inflight"
  /\ sends' = sends + 1
  /\ UNCHANGED <<safe, cancelled>>

GiveUpAttempt ==
  /\ phase = "inflight"
  /\ safe
  /\ ~cancelled
  /\ sends < MaxAttempts
  /\ phase' = "retry"
  /\ UNCHANGED <<sends, safe, cancelled>>

\* Cancellation may end the call on the spot or leave it to notice.
Cancel ==
  /\ phase # "done"
  /\ cancelled' = TRUE
  /\ phase' \in {phase, "done"}
  /\ UNCHANGED <<sends, safe>>

Finish ==
  /\ phase # "done"
  /\ phase' = "done"
  /\ UNCHANGED <<sends, safe, cancelled>>

Next == Send \/ GiveUpAttempt \/ Cancel \/ Finish

Spec == Init /\ [][Next]_vars
=============================================================================
