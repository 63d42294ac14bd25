-------------------------- MODULE PortedTransports --------------------------
(***************************************************************************)
(* A call of either client, and what both promise of it.                   *)
(***************************************************************************)
EXTENDS GoTransport, PyTransport

Step ==
  \/ sdk = "go" /\ GoStep
  \/ sdk = "python" /\ PyStep
Peer ==
  \/ sdk = "go" /\ GoPeer
  \/ sdk = "python" /\ PyPeer
Time ==
  \/ sdk = "go" /\ Tick(GoCut)
  \/ sdk = "python" /\ Tick(PyCut)

Next == Step \/ Peer \/ Time \/ Cancel

Spec == Init /\ [][Next]_vars

\* Time passes and the program goes on.  Nothing is asked of the peer.
FairSpec == Spec /\ WF_vars(Time) /\ WF_vars(Step)

-----------------------------------------------------------------------------
(* Properties.                                                             *)

TypeOK ==
  /\ sdk \in Sdks /\ safe \in BOOLEAN
  /\ pc \in {"top", "sending", "headers", "body", "fits", "armed", "waiting", "done"}
  /\ attempt \in 1..MaxAttempts
  /\ sends \in {attempt - 1, attempt}
  /\ answer \in Answers \union {"none"}
  /\ delay \in Delays \union {0}
  /\ (outcome = "none") = (pc # "done")
  /\ ctx \in {"live", "canceled", "expired"}
  /\ lag \in 0..MaxLag
  /\ chunks \in 0..MaxChunks

Phase ==
  CASE pc = "done" -> "done"
    [] InFlight -> "inflight"
    [] sends = 0 -> "new"
    [] OTHER -> "retry"

\* Both ports keep the promise of the TypeScript transport about what they put
\* on the wire: at most MaxAttempts requests, a second one only for an
\* operation that is safe to repeat and after the one before was given up.
BR == INSTANCE BoundedRetry WITH phase <- Phase, cancelled <- FALSE

PortsAreBounded == BR!Spec

\* A cancellation may fall between the last look at it and the request; no
\* other request follows, though Go's select may take the timer instead and
\* Python looks at its event only between attempts.
AtMostOneSendAfterCancel == after <= 1

\* However late the program is after a wait, no request is sent once the
\* deadline has passed: the first look at the clock is not the last.
NoSendPastDeadline == [][sends' # sends => now < deadline]_vars

\* A call reports a timeout only when its time is over, when the delay the
\* retry needs is not left, or when Go's client has cut the attempt: an answer
\* of the server is never traded for a timeout that did not happen.
TimeoutIsTrue ==
  outcome = "TIMEOUT" =>
    \/ now >= deadline
    \/ delay >= deadline - now
    \/ now >= opened + limit

\* A peer that accepts the connection and never answers, or trickles, does not
\* hold the call for ever.
CallSettles == <>(pc = "done")

\* "The total `timeout` ... bounds network I/O and retries" (python/README.md):
\* no request is under way once the deadline has passed.
TimeoutBoundsIO == InFlight => now <= deadline
=============================================================================
