---------------------------- MODULE MCEventList ----------------------------
(***************************************************************************)
(* Every token map over three pages; pages that are empty, hold one event  *)
(* or two, the second of which may be one to refuse; and one edit of the   *)
(* caller's filters at any time, to others or to some that are refused.    *)
(***************************************************************************)
EXTENDS EventList

MCTokens == [1..Pages -> 0..Pages]

MCIterations ==
  {[sdk |-> "ts", kind |-> "cdc"], [sdk |-> "ts", kind |-> "tables"],
   [sdk |-> "python", kind |-> "audit"], [sdk |-> "go", kind |-> "audit"]}

MCContents ==
  {<< <<"none", "none">>, <<>>, <<"none">> >>,
   << <<>>, <<"none">>, <<"none", "workspace">> >>,
   << <<"none">>, <<"none", "id">>, <<>> >>}

MCFilters ==
  {[entity |-> "e1", actor |-> "a1", flaw |-> "none"],
   [entity |-> "e2", actor |-> "a2", flaw |-> "none"],
   [entity |-> "e2", actor |-> "a1", flaw |-> "bounds"],
   [entity |-> "e1", actor |-> "a2", flaw |-> "limit"]}
=============================================================================
