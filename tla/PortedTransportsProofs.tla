----------------------- MODULE PortedTransportsProofs -----------------------
(***************************************************************************)
(* Theorems of a call of the Go and of the Python client, for any timeout, *)
(* deadline, backoff and lag, any peer, and a cancellation at any time.    *)
(***************************************************************************)
EXTENDS PortedTransports, TLAPS

-----------------------------------------------------------------------------
(* The inductive invariant.                                                *)

\* The domains of what the clocks and timers hold; a socket does not move in
\* the future.
Clocks ==
  /\ deadline \in Nat \ {0} /\ limit \in Nat
  /\ now \in Nat /\ timer \in Nat /\ allowed \in Int
  /\ opened \in 0..now

\* The request of an attempt is counted when the attempt leaves.
SendsCount ==
  /\ pc \in {"top", "sending"} => sends = attempt - 1
  /\ pc \in {"headers", "body", "fits", "armed", "waiting"} => sends = attempt

\* Another attempt is planned only for a safe operation with one left, and
\* for a failure that has a name.
Planned ==
  /\ pc \in {"fits", "armed", "waiting"} => safe /\ attempt < MaxAttempts
  /\ pc = "fits" => blame # "none"

\* A request may follow the cancellation only from where the last look at the
\* context or the event is over; no request was sent after it by then.
CancelInv ==
  /\ after \in 0..1
  /\ ctx # "canceled" \/ pc = "sending" => after = 0

\* Go's context expires with the deadline, and not before.
ContextInv ==
  /\ sdk = "go" /\ ctx = "live" => now < deadline
  /\ ctx = "expired" => now >= deadline
  /\ pc = "sending" => now < deadline

\* Python's socket may stay quiet until the deadline or longer.
SocketInv ==
  /\ sdk = "python" /\ pc = "sending" => now + allowed >= deadline
  /\ sdk = "python" /\ InFlight => opened + allowed >= deadline

IInv ==
  /\ TypeOK /\ Clocks /\ SendsCount /\ Planned
  /\ CancelInv /\ ContextInv /\ SocketInv /\ TimeoutIsTrue

-----------------------------------------------------------------------------
(* The invariant is inductive.                                             *)

LEMMA InitIInv == Init => IInv
BY PortedCallAssumption, SMT
DEF Init, IInv, TypeOK, Clocks, SendsCount, Planned, CancelInv, ContextInv,
    SocketInv, TimeoutIsTrue, InFlight

\* What an attempt that is over leads to.
LEMMA PlanKeeps ==
  ASSUME IInv, InFlight, NEW retryable, NEW what, what # "none",
         what = "TIMEOUT" => now >= deadline \/ now >= opened + limit,
         PlanOrReport(retryable, what)
  PROVE  IInv'
<1>1. CASE retryable /\ MayRetry
  BY <1>1, PortedCallAssumption
  DEF PlanOrReport, MayRetry, Report, IInv, TypeOK, Clocks, SendsCount, Planned,
      CancelInv, ContextInv, SocketInv, TimeoutIsTrue, InFlight,
      call, socket, clock, history
<1>2. CASE ~(retryable /\ MayRetry)
  BY <1>2, PortedCallAssumption
  DEF PlanOrReport, Report, IInv, TypeOK, Clocks, SendsCount, Planned,
      CancelInv, ContextInv, SocketInv, TimeoutIsTrue, InFlight,
      call, socket, clock, history, retry
<1> QED
  BY <1>1, <1>2

\* A request that leaves.
LEMMA SendKeeps == ASSUME IInv, Send PROVE IInv'
BY PortedCallAssumption
DEF Send, IInv, TypeOK, Clocks, SendsCount, Planned, CancelInv, ContextInv,
    SocketInv, TimeoutIsTrue, InFlight, call, clock, history, retry

\* Whether the delay fits, and the timer that is then set.
LEMMA CanWaitKeeps ==
  ASSUME IInv, NEW what, pc = "fits" => what # "none", CanWait(what)
  PROVE  IInv'
BY PortedCallAssumption
DEF CanWait, Fits, Report, IInv, TypeOK, Clocks, SendsCount, Planned,
    CancelInv, ContextInv, SocketInv, TimeoutIsTrue, InFlight,
    call, socket, clock, history, retry

LEMMA ArmKeeps == ASSUME IInv, Arm \/ PyArm PROVE IInv'
BY PortedCallAssumption
DEF Arm, PyArm, Fits, Report, IInv, TypeOK, Clocks, SendsCount, Planned,
    CancelInv, ContextInv, SocketInv, TimeoutIsTrue, InFlight,
    call, socket, clock, history, retry

LEMMA NextAttemptKeeps == ASSUME IInv, NextAttempt PROVE IInv'
BY PortedCallAssumption
DEF NextAttempt, IInv, TypeOK, Clocks, SendsCount, Planned,
    CancelInv, ContextInv, SocketInv, TimeoutIsTrue, InFlight,
    call, socket, clock, history, retry

\* What the call notices of its caller while no request is under way.
LEMMA GoTopKeeps == ASSUME IInv, sdk = "go", GoTop PROVE IInv'
BY PortedCallAssumption
DEF GoTop, CtxDone, CtxError, Report, IInv, TypeOK, Clocks, SendsCount, Planned,
    CancelInv, ContextInv, SocketInv, TimeoutIsTrue, InFlight,
    call, socket, clock, history, retry

LEMMA PyTopKeeps == ASSUME IInv, sdk = "python", PyTop PROVE IInv'
BY PortedCallAssumption
DEF PyTop, Report, IInv, TypeOK, Clocks, SendsCount, Planned,
    CancelInv, ContextInv, SocketInv, TimeoutIsTrue, InFlight,
    call, clock, history, retry

LEMMA WaitCutKeeps == ASSUME IInv, GoWaitCut \/ PyWaitCancelled PROVE IInv'
BY PortedCallAssumption
DEF GoWaitCut, PyWaitCancelled, CtxDone, CtxError, Report, IInv, TypeOK, Clocks,
    SendsCount, Planned, CancelInv, ContextInv, SocketInv, TimeoutIsTrue, InFlight,
    call, socket, clock, history, retry

\* What arrives; Python's socket has its time anew.
LEMMA HeadersKeep ==
  ASSUME IInv, NEW a \in Answers,
         HeadersArrive(a, now) \/ (sdk = "go" /\ HeadersArrive(a, opened))
  PROVE  IInv'
BY PortedCallAssumption
DEF HeadersArrive, IInv, TypeOK, Clocks, SendsCount, Planned,
    CancelInv, ContextInv, SocketInv, TimeoutIsTrue, InFlight,
    call, socket, clock, history, retry

LEMMA ChunkKeeps ==
  ASSUME IInv, Chunk(now) \/ (sdk = "go" /\ Chunk(opened))
  PROVE  IInv'
BY PortedCallAssumption
DEF Chunk, IInv, TypeOK, Clocks, SendsCount, Planned,
    CancelInv, ContextInv, SocketInv, TimeoutIsTrue, InFlight,
    call, socket, clock, history, retry

LEMMA BodyReadKeeps == ASSUME IInv, BodyRead PROVE IInv'
<1> USE DEF InFlight
<1>1. CASE PlanOrReport(FALSE, "TOO_LARGE")
  BY <1>1, PlanKeeps DEF BodyRead
<1>2. CASE \E what \in {"OK", "INVALID"} : PlanOrReport(FALSE, what)
  BY <1>2, PlanKeeps DEF BodyRead
<1>3. CASE PlanOrReport(RetryableError, "API")
  BY <1>3, PlanKeeps DEF BodyRead
<1> QED
  BY <1>1, <1>2, <1>3 DEF BodyRead

\* The clock and the caller.
LEMMA TickKeeps == ASSUME IInv, NEW cut, Tick(cut) PROVE IInv'
BY PortedCallAssumption
DEF Tick, IInv, TypeOK, Clocks, SendsCount, Planned, CancelInv, ContextInv,
    SocketInv, TimeoutIsTrue, InFlight, call, socket, history, retry

LEMMA CancelKeeps == ASSUME IInv, Cancel PROVE IInv'
BY PortedCallAssumption
DEF Cancel, IInv, TypeOK, Clocks, SendsCount, Planned, CancelInv, ContextInv,
    SocketInv, TimeoutIsTrue, InFlight, call, socket, clock, history, retry

\* The failures of an attempt, of either client.
LEMMA GoFailsKeep ==
  ASSUME IInv, GoDoCut \/ GoDoFails \/ GoBodyCut \/ GoBodyBreaks
  PROVE  IInv'
<1> USE DEF InFlight
<1>1. CtxDone /\ CtxError = "TIMEOUT" => now >= deadline
  BY DEF IInv, TypeOK, ContextInv, CtxDone, CtxError
<1>2. CtxError # "none"
  BY DEF CtxError
<1>3. LimitReached => now >= opened + limit
  BY DEF LimitReached
<1>4. CASE GoDoCut
  <2>1. CASE CtxDone /\ PlanOrReport(FALSE, CtxError)
    BY <2>1, <1>1, <1>2, <1>4, PlanKeeps DEF GoDoCut
  <2>2. CASE LimitReached /\ PlanOrReport(FALSE, "TIMEOUT")
    BY <2>2, <1>3, <1>4, PlanKeeps DEF GoDoCut
  <2> QED
    BY <1>4, <2>1, <2>2 DEF GoDoCut
<1>5. CASE GoDoFails
  BY <1>5, PlanKeeps DEF GoDoFails
<1>6. CASE GoBodyCut
  <2>1. ReadError("TIMEOUT") # "none"
    BY <1>2 DEF ReadError
  <2>2. ReadError("TIMEOUT") = "TIMEOUT" => now >= deadline \/ now >= opened + limit
    BY <1>1, <1>3, <1>6 DEF ReadError, GoBodyCut
  <2> QED
    BY <1>6, <2>1, <2>2, PlanKeeps DEF GoBodyCut
<1>7. CASE GoBodyBreaks
  <2>1. ReadError("NETWORK") # "none"
    BY <1>2 DEF ReadError
  <2>2. ReadError("NETWORK") = "TIMEOUT" => now >= deadline \/ now >= opened + limit
    BY <1>1 DEF ReadError
  <2> QED
    BY <1>7, <2>1, <2>2, PlanKeeps DEF GoBodyBreaks
<1> QED
  BY <1>4, <1>5, <1>6, <1>7

LEMMA PyFailsKeep ==
  ASSUME IInv, sdk = "python", PyOpenCut \/ PyOpenFails \/ PyBodyFails
  PROVE  IInv'
<1> USE DEF InFlight
<1>1. CASE PyOpenCut
  <2>1. now >= deadline
    BY <1>1 DEF PyOpenCut, PyCut, IInv, Clocks, SocketInv
  <2>2. PICK what \in {"TIMEOUT", "NETWORK"} : PlanOrReport(TRUE, what)
    BY <1>1 DEF PyOpenCut
  <2> QED
    BY <1>1, <2>1, <2>2, PlanKeeps DEF PyOpenCut
<1>2. CASE PyOpenFails
  <2>1. CASE PlanOrReport(TRUE, "NETWORK")
    BY <1>2, <2>1, PlanKeeps DEF PyOpenFails
  <2>2. CASE PlanOrReport(FALSE, "RAW")
    BY <1>2, <2>2, PlanKeeps DEF PyOpenFails
  <2> QED
    BY <1>2, <2>1, <2>2 DEF PyOpenFails
<1>3. CASE PyBodyFails
  BY <1>3, PlanKeeps DEF PyBodyFails
<1> QED
  BY <1>1, <1>2, <1>3

LEMMA GoCanWaitKeeps == ASSUME IInv, GoCanWait PROVE IInv'
<1>1. pc = "fits" =>
        (IF answer # "none" /\ blame # "API" THEN ReadError(blame) ELSE blame) # "none"
  BY DEF IInv, Planned, ReadError, CtxError
<1> QED
  BY <1>1, CanWaitKeeps DEF GoCanWait

LEMMA PyCanWaitKeeps == ASSUME IInv, CanWait(blame) PROVE IInv'
<1>1. pc = "fits" => blame # "none"
  BY DEF IInv, Planned
<1> QED
  BY <1>1, CanWaitKeeps

LEMMA NextIInv == IInv /\ [Next]_vars => IInv'
<1> SUFFICES ASSUME IInv, [Next]_vars PROVE IInv'
  OBVIOUS
<1>1. CASE sdk = "go" /\ GoStep
  BY <1>1, GoTopKeeps, SendKeeps, GoFailsKeep, GoCanWaitKeeps, ArmKeeps,
     NextAttemptKeeps, WaitCutKeeps DEF GoStep
<1>2. CASE sdk = "python" /\ PyStep
  BY <1>2, PyTopKeeps, SendKeeps, PyFailsKeep, PyCanWaitKeeps, ArmKeeps,
     NextAttemptKeeps, WaitCutKeeps DEF PyStep, PyBodyCut, PyWaitOver
<1>3. CASE sdk = "go" /\ GoPeer
  BY <1>3, HeadersKeep, ChunkKeeps, GoFailsKeep, BodyReadKeeps DEF GoPeer
<1>4. CASE sdk = "python" /\ PyPeer
  <2>1. CASE \E a \in Answers : HeadersArrive(a, now)
    BY <2>1, HeadersKeep
  <2>2. CASE Chunk(now) \/ BodyRead
    BY <2>2, ChunkKeeps, BodyReadKeeps
  <2>3. CASE PyOpenFails \/ PyBodyFails
    BY <1>4, <2>3, PyFailsKeep
  <2> QED
    BY <1>4, <2>1, <2>2, <2>3 DEF PyPeer
<1>5. CASE Time
  BY <1>5, TickKeeps DEF Time
<1>6. CASE Cancel
  BY <1>6, CancelKeeps
<1>7. CASE UNCHANGED vars
  BY <1>7, SMT
  DEF vars, call, socket, clock, history, retry, IInv, TypeOK, Clocks, SendsCount,
      Planned, CancelInv, ContextInv, SocketInv, TimeoutIsTrue, InFlight
<1> QED
  BY <1>1, <1>2, <1>3, <1>4, <1>5, <1>6, <1>7 DEF Next, Step, Peer

LEMMA SpecIInv == Spec => []IInv
BY InitIInv, NextIInv, PTL DEF Spec

-----------------------------------------------------------------------------
(* Invariants.                                                             *)

\* No attempt is made beyond the last, and every attempt is counted: the
\* variables of a call stay in their domains.
THEOREM TypeCorrect == Spec => []TypeOK
<1>1. IInv => TypeOK
  BY DEF IInv
<1> QED
  BY <1>1, SpecIInv, PTL

\* Of all requests of a call at most one leaves after its cancellation, in
\* whatever order the cancellation, the timers and the answers fall.
THEOREM OneSendAfterCancel == Spec => []AtMostOneSendAfterCancel
<1>1. IInv => AtMostOneSendAfterCancel
  BY DEF IInv, CancelInv, AtMostOneSendAfterCancel
<1> QED
  BY <1>1, SpecIInv, PTL

\* A timeout is reported only for a deadline that passed, a delay that is not
\* left, or an attempt Go's client has cut.
THEOREM TimeoutsAreTrue == Spec => []TimeoutIsTrue
<1>1. IInv => TimeoutIsTrue
  BY DEF IInv
<1> QED
  BY <1>1, SpecIInv, PTL

-----------------------------------------------------------------------------
(* What a step may do to the requests sent.                                *)

\* Only Send counts a request, and it begins one.
LEMMA OnlySendSends ==
  ASSUME [Next]_vars
  PROVE  UNCHANGED sends \/ Send
BY DEF Next, Step, Peer, Time, GoStep, PyStep, GoPeer, PyPeer, Tick, Cancel, GoTop,
   PyTop, GoDoCut, GoDoFails, GoBodyCut, GoBodyBreaks, GoCanWait, GoWaitCut, PyOpenCut,
   PyOpenFails, PyBodyFails, PyBodyCut, PyArm, PyWaitOver, PyWaitCancelled, Arm,
   NextAttempt, CanWait, BodyRead, PlanOrReport, HeadersArrive, Chunk, vars, history

\* However late the program is after a wait, no request is sent once the
\* deadline has passed.
THEOREM SendsInTime == Spec => NoSendPastDeadline
<1>1. IInv /\ [Next]_vars => [sends' # sends => now < deadline]_vars
  BY OnlySendSends DEF Send, IInv, ContextInv
<1> QED
  BY <1>1, SpecIInv, PTL DEF Spec, NoSendPastDeadline

-----------------------------------------------------------------------------
(* The time a request takes.                                               *)

\* A request is under way after Send, or because it was before.
LEMMA InFlightBegins ==
  ASSUME [Next]_vars, InFlight'
  PROVE  (InFlight \/ Send) /\ (UNCHANGED now \/ Time)
BY DEF Next, Step, Peer, Time, GoStep, PyStep, GoPeer, PyPeer, Tick, Cancel, GoTop,
   PyTop, GoDoCut, GoDoFails, GoBodyCut, GoBodyBreaks, GoCanWait, GoWaitCut, PyOpenCut,
   PyOpenFails, PyBodyFails, PyBodyCut, PyArm, PyWaitOver, PyWaitCancelled, Arm,
   NextAttempt, CanWait, BodyRead, PlanOrReport, HeadersArrive, Chunk, Send, Report,
   InFlight, vars, clock

\* In Go the context cuts the request at the deadline, whatever the peer does:
\* none is under way later.  (Python's client breaks the same promise.)
THEOREM GoTimeoutBoundsIO == Spec => [](sdk = "go" => TimeoutBoundsIO)
<1> DEFINE Bounded == sdk = "go" => TimeoutBoundsIO
<1>1. Init => Bounded
  BY DEF Init, InFlight, TimeoutBoundsIO
<1>2. IInv /\ Bounded /\ [Next]_vars => Bounded'
  <2> SUFFICES ASSUME IInv, Bounded, [Next]_vars, sdk' = "go", InFlight'
               PROVE  now' <= deadline'
    BY DEF TimeoutBoundsIO
  <2>1. sdk = "go" /\ deadline' = deadline
    BY DEF Next, Step, Peer, Time, GoStep, PyStep, GoPeer, PyPeer, Tick, Cancel, GoTop,
       PyTop, GoDoCut, GoDoFails, GoBodyCut, GoBodyBreaks, GoCanWait, GoWaitCut,
       PyOpenCut, PyOpenFails, PyBodyFails, PyBodyCut, PyArm, PyWaitOver,
       PyWaitCancelled, Arm, NextAttempt, CanWait, BodyRead, PlanOrReport,
       HeadersArrive, Chunk, Send, vars, call
  <2>2. CASE Time
    <3>1. Tick(GoCut)
      BY <2>1, <2>2 DEF Time
    <3>2. now < GoCut /\ now' = now + 1
      BY <3>1 DEF Tick, InFlight
    <3>3. now < deadline
      BY <2>1, <3>2 DEF GoCut, CtxDone, IInv, Clocks, ContextInv
    <3> QED
      BY <2>1, <3>2, <3>3 DEF IInv, Clocks
  <2>3. CASE UNCHANGED now /\ Send
    BY <2>1, <2>3 DEF Send, IInv, Clocks, ContextInv
  <2>4. CASE UNCHANGED now /\ InFlight
    BY <2>1, <2>4 DEF TimeoutBoundsIO
  <2> QED
    BY <2>2, <2>3, <2>4, InFlightBegins
<1> QED
  BY <1>1, <1>2, SpecIInv, PTL DEF Spec

-----------------------------------------------------------------------------
(* A call of either client is a bounded retry.                             *)

LEMMA InitRefines == Init => BR!Init
BY DEF Init, Phase, InFlight, BR!Init

\* A failure of an attempt ends the call or gives up the attempt.
LEMMA PlanRefines ==
  ASSUME IInv, InFlight, NEW retryable, NEW what, PlanOrReport(retryable, what)
  PROVE  BR!GiveUpAttempt \/ BR!Finish
BY PortedCallAssumption
DEF PlanOrReport, MayRetry, Report, IInv, TypeOK, SendsCount, InFlight, Phase,
    BR!GiveUpAttempt, BR!Finish, call, history

\* While no request is under way a step stutters or ends the call; so does
\* what arrives, and the clock.
LEMMA QuietRefines ==
  ASSUME IInv,
         \/ GoTop \/ PyTop \/ Arm \/ PyArm \/ NextAttempt \/ GoWaitCut
         \/ PyWaitCancelled \/ Cancel
         \/ \E what : CanWait(what)
         \/ \E cut : Tick(cut)
         \/ \E a, moved : HeadersArrive(a, moved)
         \/ \E moved : Chunk(moved)
  PROVE  BR!Finish \/ UNCHANGED BR!vars
BY PortedCallAssumption
DEF GoTop, PyTop, Arm, PyArm, NextAttempt, GoWaitCut, PyWaitCancelled, Cancel, CanWait,
    Tick, HeadersArrive, Chunk, Report, IInv, TypeOK, SendsCount, InFlight, Phase,
    BR!Finish, BR!vars, call, history

LEMMA SendRefines == ASSUME IInv, Send PROVE BR!Send
BY PortedCallAssumption
DEF Send, IInv, TypeOK, SendsCount, InFlight, Phase, BR!Send, call

LEMMA StepRefines == IInv /\ [Next]_vars => [BR!Next]_BR!vars
<1> SUFFICES ASSUME IInv, [Next]_vars PROVE [BR!Next]_BR!vars
  OBVIOUS
<1>1. CASE sdk = "go" /\ GoStep
  BY <1>1, QuietRefines, SendRefines, PlanRefines
  DEF GoStep, GoDoCut, GoBodyCut, GoCanWait, InFlight, BR!Next
<1>2. CASE sdk = "python" /\ PyStep
  BY <1>2, QuietRefines, SendRefines, PlanRefines
  DEF PyStep, PyOpenCut, PyBodyCut, PyBodyFails, PyWaitOver, InFlight, BR!Next
<1>3. CASE sdk = "go" /\ GoPeer
  BY <1>3, QuietRefines, PlanRefines
  DEF GoPeer, GoDoFails, GoBodyBreaks, BodyRead, InFlight, BR!Next
<1>4. CASE sdk = "python" /\ PyPeer
  BY <1>4, QuietRefines, PlanRefines
  DEF PyPeer, PyOpenFails, PyBodyFails, BodyRead, InFlight, BR!Next
<1>5. CASE Time \/ Cancel
  BY <1>5, QuietRefines DEF Time, BR!Next
<1>6. CASE UNCHANGED vars
  BY <1>6 DEF vars, call, history, Phase, InFlight, BR!vars
<1> QED
  BY <1>1, <1>2, <1>3, <1>4, <1>5, <1>6 DEF Next, Step, Peer

\* At most MaxAttempts requests, a second one only for an operation that is
\* safe to repeat and only after the one before was given up, none after the
\* call has reported: what the TypeScript transport keeps, both ports keep.
THEOREM PortsImplementBoundedRetry == Spec => PortsAreBounded
BY InitIInv, InitRefines, StepRefines, SpecIInv, PTL
DEF Spec, PortsAreBounded, BR!Spec

-----------------------------------------------------------------------------
(* A call comes to an end.                                                 *)

\* What is left of a call at most: the attempts and the way through each of them,
\* and the chunks of the answer that is read.
WayLeft ==
  7 * (MaxAttempts - attempt)
    + (CASE pc = "top" -> 7 [] pc = "sending" -> 6 [] pc = "headers" -> 5 [] pc = "body" -> 4
         [] pc = "fits" -> 3 [] pc = "armed" -> 2 [] pc = "waiting" -> 1 [] OTHER -> 0)
ChunksLeft == MaxChunks - chunks
Nearer ==
  \/ WayLeft' < WayLeft
  \/ WayLeft' = WayLeft /\ ChunksLeft' < ChunksLeft

\* When a step of the program's own is due, whatever the peer does: no wait, or
\* one that is over.
Due ==
  \/ pc \in {"top", "sending", "fits", "armed"}
  \/ InFlight /\ IF sdk = "go" THEN CtxDone \/ LimitReached ELSE now >= PyCut
  \/ pc = "waiting" /\ IF sdk = "go" THEN CtxDone \/ now >= timer
                       ELSE ctx = "canceled" \/ (ctx = "live" /\ now >= timer)
WaitEnds ==
  IF pc = "waiting" THEN timer ELSE IF sdk = "go" THEN opened + limit ELSE PyCut

\* A context expires in Go only: Python has none.
OnlyGoExpires == ctx = "expired" => sdk = "go"

\* A peer that trickles or never answers cannot hold a call for ever: every step
\* uses up some of an attempt or of MAX_RESPONSE_BYTES, a call that is not done
\* waits for nothing but a moment that is set, and Go's for none past its
\* deadline.  (CallSettles adds the fairness of the program and of the clock.)
THEOREM CallNearsItsEnd ==
  Spec => /\ [](WayLeft \in Nat /\ ChunksLeft \in Nat)
          /\ [][UNCHANGED <<now, ctx>> => Nearer]_vars
          /\ [](pc # "done" => Due \/ now < WaitEnds)
          /\ [](sdk = "go" /\ pc # "done" /\ now >= deadline => Due)
<1>1. IInv => WayLeft \in Nat /\ ChunksLeft \in Nat
  BY PortedCallAssumption DEF IInv, TypeOK, WayLeft, ChunksLeft
<1>2. IInv /\ [Next]_vars => [UNCHANGED <<now, ctx>> => Nearer]_vars
  <2> SUFFICES ASSUME IInv, [Next]_vars, vars' # vars, UNCHANGED <<now, ctx>> PROVE Nearer
    OBVIOUS
  <2>1. /\ MaxAttempts \in Nat /\ attempt \in 1..MaxAttempts
        /\ MaxChunks \in Nat /\ chunks \in 0..MaxChunks
    BY PortedCallAssumption DEF IInv, TypeOK
  <2>2. ASSUME NEW cut, Tick(cut) PROVE FALSE
    BY <2>2 DEF Tick, IInv, Clocks
  <2>3. ~Cancel
    BY DEF Cancel
  <2>4. ASSUME NEW retryable, NEW what, InFlight, PlanOrReport(retryable, what)
        PROVE  WayLeft' < WayLeft
    <3>1. UNCHANGED attempt /\ pc' \in {"fits", "done"} /\ pc \in {"headers", "body"}
      BY <2>4 DEF PlanOrReport, Report, InFlight
    <3> QED
      BY <2>1, <3>1 DEF WayLeft
  <2>5. ASSUME GoTop \/ PyTop PROVE WayLeft' < WayLeft
    <3>1. UNCHANGED attempt /\ pc' \in {"sending", "done"} /\ pc = "top"
      BY <2>5 DEF GoTop, PyTop, Report
    <3> QED
      BY <2>1, <3>1 DEF WayLeft
  <2>6. ASSUME Send PROVE WayLeft' < WayLeft
    BY <2>1, <2>6 DEF Send, WayLeft
  <2>7. ASSUME NEW what, CanWait(what) PROVE WayLeft' < WayLeft
    <3>1. UNCHANGED attempt /\ pc' \in {"armed", "done"} /\ pc = "fits"
      BY <2>7 DEF CanWait, Report
    <3> QED
      BY <2>1, <3>1 DEF WayLeft
  <2>8. ASSUME Arm \/ PyArm PROVE WayLeft' < WayLeft
    <3>1. UNCHANGED attempt /\ pc' \in {"waiting", "done"} /\ pc = "armed"
      BY <2>8 DEF Arm, PyArm, Report
    <3> QED
      BY <2>1, <3>1 DEF WayLeft
  <2>9. ASSUME NextAttempt PROVE WayLeft' = WayLeft - 1
    BY <2>1, <2>9 DEF NextAttempt, WayLeft
  <2>10. ASSUME GoWaitCut \/ PyWaitCancelled PROVE WayLeft' < WayLeft
    <3>1. UNCHANGED attempt /\ pc' = "done" /\ pc = "waiting"
      BY <2>10 DEF GoWaitCut, PyWaitCancelled, Report
    <3> QED
      BY <2>1, <3>1 DEF WayLeft
  <2>11. ASSUME NEW a, NEW moved, HeadersArrive(a, moved) PROVE WayLeft' < WayLeft
    BY <2>1, <2>11 DEF HeadersArrive, WayLeft
  <2>12. ASSUME NEW moved, Chunk(moved) PROVE Nearer
    BY <2>1, <2>12 DEF Chunk, WayLeft, ChunksLeft, Nearer
  <2>13. ASSUME \/ GoDoCut \/ GoDoFails \/ GoBodyCut \/ GoBodyBreaks
                \/ PyOpenCut \/ PyOpenFails \/ PyBodyFails \/ BodyRead
         PROVE  WayLeft' < WayLeft
    <3>1. InFlight
      BY <2>13 DEF GoDoCut, GoDoFails, GoBodyCut, GoBodyBreaks, PyOpenCut, PyOpenFails,
                   PyBodyFails, BodyRead, InFlight
    <3>2. \E retryable, what : PlanOrReport(retryable, what)
      BY <2>13, Zenon DEF GoDoCut, GoDoFails, GoBodyCut, GoBodyBreaks, PyOpenCut, PyOpenFails,
                          PyBodyFails, BodyRead
    <3> QED
      BY <2>4, <3>1, <3>2
  <2>14. CASE Step
    BY <2>5, <2>6, <2>7, <2>8, <2>9, <2>10, <2>13, <2>14, <1>1
    DEF Step, GoStep, PyStep, GoCanWait, PyWaitOver, PyBodyCut, Nearer
  <2>15. CASE Peer
    BY <2>11, <2>12, <2>13, <2>15 DEF Peer, GoPeer, PyPeer, Nearer
  <2>16. CASE Time
    BY <2>2, <2>16 DEF Time
  <2> QED
    BY <2>3, <2>14, <2>15, <2>16 DEF Next
<1>3. Init => OnlyGoExpires
  BY DEF Init, OnlyGoExpires
<1>4. OnlyGoExpires /\ [Next]_vars => OnlyGoExpires'
  <2> SUFFICES ASSUME OnlyGoExpires, [Next]_vars PROVE OnlyGoExpires'
    OBVIOUS
  <2>1. UNCHANGED sdk /\ (UNCHANGED ctx \/ ctx' = "canceled" \/ sdk = "go")
    BY DEF Next, Step, Peer, Time, GoStep, PyStep, GoPeer, PyPeer, GoTop, PyTop, Send, GoDoCut,
           GoBodyCut, GoCanWait, CanWait, Arm, PyArm, NextAttempt, GoWaitCut, PyWaitCancelled,
           PyWaitOver, PyOpenCut, PyBodyCut, PyBodyFails, PyOpenFails, GoDoFails, GoBodyBreaks,
           HeadersArrive, Chunk, BodyRead, PlanOrReport, Tick, Cancel, vars, call
  <2> QED
    BY <2>1 DEF OnlyGoExpires
<1>5. IInv /\ OnlyGoExpires => (pc # "done" => Due \/ now < WaitEnds)
  <2> SUFFICES ASSUME IInv, OnlyGoExpires, pc # "done", ~Due PROVE now < WaitEnds
    OBVIOUS
  <2>1. now \in Nat /\ timer \in Nat /\ opened \in Nat /\ limit \in Nat /\ allowed \in Int
    BY DEF IInv, Clocks
  <2>2. pc = "waiting" \/ InFlight
    BY DEF IInv, TypeOK, InFlight, Due
  <2>3. CASE pc = "waiting"
    <3>1. ~(now >= timer)
      BY <2>3 DEF Due, OnlyGoExpires, CtxDone, IInv, TypeOK
    <3> QED
      BY <2>1, <2>3, <3>1 DEF WaitEnds
  <2>4. CASE InFlight /\ sdk = "go"
    <3>1. ~LimitReached /\ pc # "waiting"
      BY <2>4 DEF Due, InFlight
    <3> QED
      BY <2>1, <2>4, <3>1 DEF LimitReached, WaitEnds
  <2>5. CASE InFlight /\ sdk # "go"
    <3>1. ~(now >= PyCut) /\ pc # "waiting"
      BY <2>5 DEF Due, InFlight
    <3> QED
      BY <2>1, <2>5, <3>1 DEF PyCut, WaitEnds
  <2> QED
    BY <2>2, <2>3, <2>4, <2>5
<1>6. IInv => (sdk = "go" /\ pc # "done" /\ now >= deadline => Due)
  BY DEF IInv, TypeOK, Clocks, ContextInv, Due, InFlight, CtxDone
<1> QED
  BY <1>1, <1>2, <1>3, <1>4, <1>5, <1>6, SpecIInv, PTL DEF Spec
=============================================================================
