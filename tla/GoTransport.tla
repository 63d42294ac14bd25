----------------------------- MODULE GoTransport -----------------------------
(***************************************************************************)
(* The Go transport: postProtoWithOptions.  The context, the caller's or   *)
(* one with the client's timeout, cuts attempts and waits; unless the      *)
(* caller brings its own, http.Client cuts each attempt as well.           *)
(***************************************************************************)
EXTENDS PortedCall

CtxDone == ctx # "live"
\* classifyTransportError of the context's error.
CtxError == IF ctx = "canceled" THEN "ABORTED" ELSE "TIMEOUT"

\* Do sends nothing for a context that is done.
GoTopUnchecked ==
  /\ pc = "top"
  /\ pc' = "sending"
  /\ UNCHANGED <<call, attempt, socket, retry, outcome, clock, timer, ctx, history>>
GoTop ==
  /\ pc = "top"
  /\ IF CtxDone THEN Report(CtxError) ELSE pc' = "sending" /\ UNCHANGED outcome
  /\ UNCHANGED <<call, attempt, socket, retry, clock, timer, ctx, history>>

\* When the attempt is cut, whatever the peer does.
LimitReached == now >= opened + limit
GoCut == IF CtxDone \/ LimitReached THEN now
         ELSE IF deadline < opened + limit THEN deadline ELSE opened + limit

\* No headers: a cut attempt is final, another failure is tried again while the
\* context is live.
GoDoCutByCancelOnly ==
  /\ pc = "headers"
  /\ ctx = "canceled"
  /\ PlanOrReport(FALSE, CtxError)
GoDoCut ==
  /\ pc = "headers"
  /\ \/ CtxDone /\ PlanOrReport(FALSE, CtxError)
     \/ LimitReached /\ PlanOrReport(FALSE, "TIMEOUT")

GoDoFails ==
  /\ pc = "headers"
  /\ PlanOrReport(~CtxDone, "NETWORK")

\* A body that was cut by the context, or by the client, plans another attempt
\* as one that broke does: retryableResponseReadFailure looks at the status.
ReadError(what) == IF CtxDone THEN CtxError ELSE what

GoBodyCut ==
  /\ pc = "body"
  /\ CtxDone \/ LimitReached
  /\ PlanOrReport(RetryableReadFailure, ReadError("TIMEOUT"))

GoBodyBreaks ==
  /\ pc = "body"
  /\ PlanOrReport(RetryableReadFailure, ReadError("NETWORK"))

\* canWaitForRetry; a read error is told from the context only now.
GoCanWait ==
  CanWait(IF answer # "none" /\ blame # "API" THEN ReadError(blame) ELSE blame)

\* waitForRetry: the context ends the wait; when the timer is due as well, the
\* select takes either.
GoWaitCut ==
  /\ pc = "waiting"
  /\ CtxDone
  /\ Report(CtxError)
  /\ UNCHANGED <<call, attempt, socket, retry, clock, timer, ctx, history>>

\* What the program does by itself, and what the peer does.
GoStep ==
  \/ GoTop \/ Send \/ GoDoCut \/ GoBodyCut
  \/ GoCanWait \/ Arm \/ NextAttempt \/ GoWaitCut

GoPeer ==
  \/ \E a \in Answers : HeadersArrive(a, opened)
  \/ Chunk(opened)
  \/ GoDoFails \/ GoBodyBreaks \/ BodyRead
=============================================================================
