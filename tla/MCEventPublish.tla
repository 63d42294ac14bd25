--------------------------- MODULE MCEventPublish ---------------------------
(***************************************************************************)
(* Two relays and an outbox of three rows: a sound one, one that may be    *)
(* flawed, and one that shares the first one's key, with the same content  *)
(* or another.                                                             *)
(***************************************************************************)
EXTENDS EventPublish

CONSTANTS r1, r2

Event(kind, form, flaw, key, content) ==
  [kind |-> kind, form |-> form, flaw |-> flaw, key |-> key, content |-> content]

Outbox(kind, form, flaw, key, content) ==
  <<Event(kind, "modern", "none", "k1", "c1"),
    Event(kind, form, flaw, "k2", "c2"),
    Event(kind, "modern", "none", key, content)>>

MCInputs ==
  {Outbox("cdc", "legacy", "none", "k1", "c3"),
   Outbox("cdc", "modern", "range", "k1", "c1"),
   Outbox("audit", "modern", "ownedDefault", "k3", "c3"),
   Outbox("audit", "legacy", "raw", "k1", "c3")}
=============================================================================
