------------------------------ MODULE Delivery ------------------------------
(***************************************************************************)
(* What publishing promises an application that keeps an outbox: every     *)
(* logical event (a durable key with its content) is in the workspace at   *)
(* most once, an outbox row is marked delivered only when its own event is *)
(* there, and a row once delivered stays so.                               *)
(***************************************************************************)
EXTENDS Integers

CONSTANTS
  LogicalEvents,  \* the events the application may publish
  Rows            \* the rows of its outbox

VARIABLES
  event,     \* the logical event each row stands for
  copies,    \* how often each logical event is in the workspace
  delivered  \* the rows marked delivered

vars == <<event, copies, delivered>>

Init ==
  /\ event \in [Rows -> LogicalEvents]
  /\ copies = [e \in LogicalEvents |-> 0]
  /\ delivered = {}

Commit(S) ==
  /\ \A e \in S : copies[e] = 0
  /\ copies' = [e \in LogicalEvents |-> IF e \in S THEN 1 ELSE copies[e]]
  /\ UNCHANGED <<event, delivered>>

Deliver(S) ==
  /\ \A x \in S : copies[event[x]] = 1
  /\ delivered' = delivered \cup S
  /\ UNCHANGED <<event, copies>>

Next ==
  \/ \E S \in SUBSET LogicalEvents : Commit(S)
  \/ \E S \in SUBSET Rows : Deliver(S)

Spec == Init /\ [][Next]_vars
=============================================================================
