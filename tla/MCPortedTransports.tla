------------------------- MODULE MCPortedTransports -------------------------
(***************************************************************************)
(* Three attempts within four ticks, a Go caller that brings a longer      *)
(* deadline, with and without the client's own timeout, and delays of no   *)
(* time, of one tick and beyond every deadline.                            *)
(***************************************************************************)
EXTENDS PortedTransports
=============================================================================
