----------------------------- MODULE PyTransport -----------------------------
(***************************************************************************)
(* The Python transport: _post.  It looks at the cancellation event and at *)
(* the clock before each attempt and around each wait; while an attempt is *)
(* under way only the timeout of the socket counts, which is what was left *)
(* when the attempt began and starts anew with everything that arrives.    *)
(***************************************************************************)
EXTENDS PortedCall

\* _raise_if_cancelled, and the time that is left.
PyTopAnyTime ==
  /\ pc = "top"
  /\ IF ctx = "canceled" THEN Report("CANCELLED") /\ UNCHANGED allowed
     ELSE pc' = "sending" /\ allowed' = deadline - now /\ UNCHANGED outcome
  /\ UNCHANGED <<call, attempt, answer, opened, chunks, retry, clock, timer, ctx, history>>
PyTop ==
  /\ pc = "top"
  /\ IF ctx = "canceled" THEN Report("CANCELLED") /\ UNCHANGED allowed
     ELSE IF deadline - now <= 0 THEN Report("TIMEOUT") /\ UNCHANGED allowed
     ELSE pc' = "sending" /\ allowed' = deadline - now /\ UNCHANGED outcome
  /\ UNCHANGED <<call, attempt, answer, opened, chunks, retry, clock, timer, ctx, history>>

\* The socket was quiet for the time it is allowed.
PyCut == opened + allowed

\* A timeout is a TimeoutError, or a URLError when it fell on the connection.
PyOpenCut ==
  /\ pc = "headers"
  /\ now >= PyCut
  /\ \E what \in {"TIMEOUT", "NETWORK"} : PlanOrReport(TRUE, what)

\* URLError is tried again; a connection that is closed before the status line
\* raises none of the exceptions _post handles.
PyOpenFails ==
  /\ pc = "headers"
  /\ \/ PlanOrReport(TRUE, "NETWORK")
     \/ PlanOrReport(FALSE, "RAW")

PyBodyFails ==
  /\ pc = "body"
  /\ PlanOrReport(RetryableReadFailure, "NETWORK")
PyBodyCut == now >= PyCut /\ PyBodyFails

\* _wait reads the clock again, and reports a deadline that came closer.
PyArmEarly ==
  /\ pc = "armed"
  /\ IF delay + 1 < deadline - now
     THEN pc' = "waiting" /\ timer' = now + delay /\ UNCHANGED outcome
     ELSE Report("TIMEOUT") /\ UNCHANGED timer
  /\ UNCHANGED <<call, attempt, socket, retry, clock, ctx, history>>
PyArm ==
  /\ pc = "armed"
  /\ IF Fits
     THEN pc' = "waiting" /\ timer' = now + delay /\ UNCHANGED outcome
     ELSE Report("TIMEOUT") /\ UNCHANGED timer
  /\ UNCHANGED <<call, attempt, socket, retry, clock, ctx, history>>

\* event.wait tells a set event from a timer that is due.
PyWaitCancelled ==
  /\ pc = "waiting"
  /\ ctx = "canceled"
  /\ Report("CANCELLED")
  /\ UNCHANGED <<call, attempt, socket, retry, clock, timer, ctx, history>>
PyWaitOver == ctx = "live" /\ NextAttempt

PyStep ==
  \/ PyTop \/ Send \/ PyOpenCut \/ PyBodyCut
  \/ CanWait(blame) \/ PyArm \/ PyWaitOver \/ PyWaitCancelled

PyPeer ==
  \/ \E a \in Answers : HeadersArrive(a, now)
  \/ Chunk(now)
  \/ PyOpenFails \/ PyBodyFails \/ BodyRead
=============================================================================
