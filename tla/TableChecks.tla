----------------------------- MODULE TableChecks -----------------------------
(***************************************************************************)
(* What the TypeScript and the Python clients check of an append and its   *)
(* receipt, and of a query's answer and the request that follows it up.    *)
(*                                                                         *)
(* An append has JSON rows, or Arrow bytes, through the tables client or   *)
(* through the low-level one, where both fields may be filled; NoField is  *)
(* a field that is not there.  TypeScript sends Arrow bytes as base64 text *)
(* and checks its length again.                                            *)
(***************************************************************************)
EXTENDS Integers

CONSTANTS
  MaxRows,   \* MAX_INGEST_BATCH_ROWS
  MaxArrow   \* MAX_ARROW_PAYLOAD_BYTES; like 16777216 it leaves 1 modulo 3

ASSUME TableChecksAssumption ==
  /\ MaxRows \in Nat \ {0}
  /\ MaxArrow \in Nat /\ MaxArrow % 3 = 1

NoField == -1

HasRows(a) == a.rows > 0
HasArrow(a) == a.arrow # NoField

-----------------------------------------------------------------------------
(* Appends.                                                                *)

JsonRowsToWire(a) == a.rows \in 1..MaxRows
ArrowPayload(a) == a.arrow \in 1..MaxArrow

\* Buffer.toString("base64"): four characters for every three bytes begun.
Base64Length(bytes) == 4 * ((bytes + 2) \div 3)

RequireArrowTextLength(text) == text \in 1..MaxArrow
RequireArrowPayloadText(text) == text > 0 /\ (text \div 4) * 3 <= MaxArrow

PreflightAppendRows(a) ==
  /\ HasRows(a) # HasArrow(a)
  /\ IF HasRows(a) THEN a.rows <= MaxRows ELSE RequireArrowPayloadText(Base64Length(a.arrow))

TsAppends(a) ==
  /\ a.client = "tables" => IF HasArrow(a) THEN ArrowPayload(a) ELSE JsonRowsToWire(a)
  /\ PreflightAppendRows(a)

PyAppends(a) ==
  /\ HasRows(a) # HasArrow(a)
  /\ IF HasRows(a) THEN a.rows <= MaxRows ELSE a.arrow \in 1..MaxArrow

\* The rows the receipt may be about: TypeScript takes the length of the field,
\* be it empty.
TsSubmitted(a) == a.rows
PySubmitted(a) == IF HasRows(a) THEN a.rows ELSE NoField

TsReceipt(receipt, submitted) ==
  /\ receipt.accepted >= 0 /\ \A k \in receipt.errors : k >= 0
  /\ submitted # NoField =>
       receipt.accepted <= submitted /\ \A k \in receipt.errors : k < submitted
PyReceipt(receipt, submitted) ==
  submitted # NoField =>
    receipt.accepted <= submitted /\ \A k \in receipt.errors : k \in 0..submitted - 1

-----------------------------------------------------------------------------
(* Queries.                                                                *)

QueryName(name) == name = "wellFormed"
BoundedToken(token) == token # "tooLong"

PreflightGetQueryResults(name, token) == QueryName(name) /\ BoundedToken(token)

ValidateNamelessRunning(a) ==
  /\ a.state \in {"RUNNING", "SUCCEEDED", "FAILED"}
  /\ a.name # "" => QueryName(a.name)
  /\ a.rows > 0 => a.state = "SUCCEEDED"
  /\ BoundedToken(a.token)
  /\ a.token # "" => a.state = "SUCCEEDED" /\ a.name # ""
ValidateQueryResponse(a) ==
  /\ a.state \in {"RUNNING", "SUCCEEDED", "FAILED"}
  /\ a.name # "" => QueryName(a.name)
  /\ a.state = "RUNNING" => a.name # ""
  /\ a.rows > 0 => a.state = "SUCCEEDED"
  /\ BoundedToken(a.token)
  /\ a.token # "" => a.state = "SUCCEEDED" /\ a.name # ""

\* The request an answer is followed up with: a poll, or the next page.
FollowUps(a) ==
  (IF a.state = "RUNNING" THEN {<<a.name, "">>} ELSE {})
    \cup (IF a.state = "SUCCEEDED" /\ a.token # "" THEN {<<a.name, a.token>>} ELSE {})
=============================================================================
