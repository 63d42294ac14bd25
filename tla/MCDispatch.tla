----------------------------- MODULE MCDispatch -----------------------------
(***************************************************************************)
(* A small transport for TLC.  A timer holds at most MaxTimer units, so    *)
(* that a Retry-After beyond it is within reach, and the errors are one of *)
(* each kind the retry decision tells apart.                               *)
(***************************************************************************)
EXTENDS Dispatch

MCTimeouts == {0, 2, 5, 6}
MCRetryAfters == {0, 2, 9}

MCApiErrors ==
  { [status |-> 503, code |-> Absent, info |-> FALSE,
     domain |-> Absent, reason |-> Absent],
    [status |-> 409, code |-> "already_exists", info |-> TRUE,
     domain |-> KnownDomain, reason |-> "IDEMPOTENCY_MISMATCH"] }
=============================================================================
