------------------------------ MODULE Journal ------------------------------
(***************************************************************************)
(* What idempotent writes promise an application: the rows of each batch   *)
(* it means to write are in the table at most once, and a batch it was     *)
(* told is written is there, its own rows and not those of another batch.  *)
(***************************************************************************)
EXTENDS Integers

CONSTANT Intents  \* the batches the application means to write

VARIABLES
  copies,  \* how often the rows of each batch are in the table
  acked    \* the batches the application was told are written

vars == <<copies, acked>>

Init ==
  /\ copies = [i \in Intents |-> 0]
  /\ acked = {}

Write(i) ==
  /\ copies[i] = 0
  /\ copies' = [copies EXCEPT ![i] = 1]
  /\ UNCHANGED acked

Ack(i) ==
  /\ copies[i] = 1
  /\ acked' = acked \cup {i}
  /\ UNCHANGED copies

Next == \E i \in Intents : Write(i) \/ Ack(i)

Spec == Init /\ [][Next]_vars
=============================================================================
