---------------------------- MODULE EventPublish ----------------------------
(***************************************************************************)
(* Publishing CDC and audit events with the TypeScript client: the checks  *)
(* an input passes before anything is sent, the request with its retries,  *)
(* and the receipts, which are credited to events by position.             *)
(*                                                                         *)
(* Around it the application the READMEs describe: an outbox whose rows    *)
(* carry durable keys, and relays that claim rows, publish them and mark   *)
(* them delivered, and that may die anywhere in between.  The server       *)
(* deduplicates by key and may stop half-way through a batch; requests and *)
(* answers are lost, late or garbled.                                      *)
(***************************************************************************)
EXTENDS Integers, Sequences, SequencesExt, FiniteSets

CONSTANTS
  Relays,       \* processes of the application that publish
  Rows,         \* the rows of its outbox, numbered
  Inputs,       \* the outboxes it may have: an event input for every row
  MaxBatch,     \* MAX_INGESTION_BATCH_SIZE
  MaxAttempts,  \* retry.maxAttempts
  MaxLate       \* bound: requests given up and still under way

\* What may be wrong with an event: a server-owned field with a value or with
\* its default, an origin, a text, operation or id out of its contract, a
\* composite primary key without an entity id, a raw payload in place of a
\* value or next to one, a payload that is no JSON, a timestamp that does not
\* parse or lies outside the analytical range.
Flaws == {"none", "owned", "ownedDefault", "origin", "text", "primaryKey",
          "raw", "both", "json", "unparsable", "range"}

ASSUME EventPublishAssumption ==
  /\ Rows \subseteq Nat \ {0} /\ IsFiniteSet(Rows)
  /\ Inputs \subseteq [Rows -> [kind : {"cdc", "audit"}, form : {"modern", "legacy"},
                               flaw : Flaws, key : STRING, content : STRING]]
  /\ MaxBatch \in Nat \ {0}
  /\ MaxAttempts \in 1..5
  /\ MaxLate \in Nat

VARIABLES
  input,    \* the event of each row: its form, flaw, key and content
  status,   \* where each row stands
  eventId,  \* the durable event id it was marked with
  pc,       \* where each relay stands
  batch,    \* the rows it claimed, in order
  attempt,  \* the attempts of its request
  reply,    \* what the server answered, or the receipts it accepted
  late,     \* batches given up that still may reach the server
  ledger    \* how often the server has each logical event

outbox == <<status, eventId>>
relay == <<pc, batch, attempt, reply>>
vars == <<input, outbox, relay, late, ledger>>

\* The logical events of the outboxes, and the one a row stands for.
LogicalEvents ==
  UNION {{[key |-> i[x].key, content |-> i[x].content] : x \in Rows} : i \in Inputs}
Entry(x) == [key |-> input[x].key, content |-> input[x].content]

-----------------------------------------------------------------------------
(* What is refused before anything is sent.                                *)

ValidBatchSizeUnbounded(b) == Len(b) >= 1
ValidBatchSize(b) == Len(b) \in 1..MaxBatch

CdcServerOwned(e) == e.flaw \in {"owned", "ownedDefault"}
AuditServerOwned(e) == e.flaw \in {"owned", "ownedDefault", "origin"}

\* The texts, ids, keys, enums and the timestamp of an event convert.
FieldsConvert(e) == e.flaw \notin {"text", "unparsable"}

\* rawOrJsonString: one payload, and it is JSON.  A legacy event without a
\* payload brings the compatibility payload for its value.
RawPayload(e) == e.flaw \in {"raw", "both"}
PayloadValue(e) == e.form = "legacy" \/ e.flaw # "raw"
PayloadConverts(e) == ~(PayloadValue(e) /\ RawPayload(e)) /\ e.flaw # "json"

CdcModernToWire(e) ==
  e.form = "modern" /\ ~CdcServerOwned(e) /\ FieldsConvert(e) /\ PayloadConverts(e)
CdcLegacyToWire(e) ==
  /\ e.form = "legacy" /\ ~CdcServerOwned(e) /\ FieldsConvert(e) /\ PayloadConverts(e)
  /\ e.flaw # "primaryKey"
AuditModernToWire(e) ==
  e.form = "modern" /\ ~AuditServerOwned(e) /\ FieldsConvert(e) /\ PayloadConverts(e)
AuditLegacyToWire(e) ==
  e.form = "legacy" /\ ~AuditServerOwned(e) /\ FieldsConvert(e) /\ PayloadConverts(e)

\* The last check, on the request as it will be encoded: only a server-owned
\* field with a value offends, a timestamp must lie in the analytical range,
\* and no key may repeat.
NonDefault(e) == e.flaw \in {"owned", "origin"}
InRange(e) == e.flaw \notin {"unparsable", "range"}
DistinctKeys(b) == IsInjective([k \in DOMAIN b |-> input[b[k]].key])

PreflightPublishCdc(b) ==
  /\ ValidBatchSize(b)
  /\ \A k \in DOMAIN b :
       LET e == input[b[k]]
       IN  ~NonDefault(e) /\ FieldsConvert(e) /\ e.flaw # "json" /\ InRange(e)
  /\ DistinctKeys(b)
PreflightPublishAudit(b) ==
  /\ ValidBatchSize(b)
  /\ \A k \in DOMAIN b :
       LET e == input[b[k]]
       IN  ~NonDefault(e) /\ FieldsConvert(e) /\ e.flaw # "json" /\ InRange(e)
  /\ DistinctKeys(b)
Preflight(b) ==
  IF input[b[1]].kind = "cdc" THEN PreflightPublishCdc(b) ELSE PreflightPublishAudit(b)

\* record, publishBatch and the low-level connect client accept the batch.
CdcRecord(b) ==
  Len(b) = 1 /\ (CdcModernToWire(input[b[1]]) \/ CdcLegacyToWire(input[b[1]]))
AuditRecord(b) ==
  Len(b) = 1 /\ (AuditModernToWire(input[b[1]]) \/ AuditLegacyToWire(input[b[1]]))
CdcPublishBatch(b) ==
  ValidBatchSize(b) /\ \A k \in DOMAIN b : CdcModernToWire(input[b[k]])
AuditPublishBatch(b) ==
  ValidBatchSize(b) /\ \A k \in DOMAIN b : AuditModernToWire(input[b[k]])
\* There an event is the wire's own message: no legacy form, and the codec
\* refuses what the message does not have.
Connect(b) ==
  \A k \in DOMAIN b : input[b[k]].form = "modern" /\ input[b[k]].flaw # "both"

Calls(b) ==
  IF input[b[1]].kind = "cdc"
    THEN IF Len(b) = 1 THEN {CdcRecord(b)} ELSE {CdcPublishBatch(b), Connect(b)}
    ELSE IF Len(b) = 1 THEN {AuditRecord(b)} ELSE {AuditPublishBatch(b), Connect(b)}

-----------------------------------------------------------------------------
(* Receipts.                                                               *)

NoReply == [verdict |-> "none", receipts |-> <<>>, accepted |-> 0, duplicates |-> 0]

Receipts(a, dup) == Cardinality({k \in DOMAIN a.receipts : a.receipts[k].dup = dup})

CountsAgreeAllNew(a) == a.accepted = Len(a.receipts)
CountsAgree(a) ==
  /\ a.accepted = Receipts(a, FALSE)
  /\ a.duplicates = Receipts(a, TRUE)

CompletePrefix(a, b) == Len(a.receipts) <= Len(b)
Complete(a, b) == Len(a.receipts) = Len(b)

InPlaceAnyOrder(a, b) ==
  {a.receipts[k].key : k \in DOMAIN a.receipts} \subseteq {input[x].key : x \in ToSet(b)}
InPlace(a, b) ==
  \A k \in DOMAIN a.receipts \cap DOMAIN b : a.receipts[k].key = input[b[k]].key

EventIds(a) == \A k \in DOMAIN a.receipts : a.receipts[k].id > 0

\* batchResponse: as many receipts as events, each for the key at its place
\* and with a positive event id, and counts that agree with them.
BatchResponse(a, b) == Complete(a, b) /\ InPlace(a, b) /\ EventIds(a) /\ CountsAgree(a)

\* record returns the one receipt of its batch.
SingleEventResponse(a, b) == BatchResponse(a, b) /\ a.receipts # <<>>

-----------------------------------------------------------------------------
Init ==
  /\ input \in Inputs
  /\ status = [x \in Rows |-> "pending"]
  /\ eventId = [x \in Rows |-> 0]
  /\ pc = [r \in Relays |-> "idle"]
  /\ batch = [r \in Relays |-> <<>>]
  /\ attempt = [r \in Relays |-> 0]
  /\ reply = [r \in Relays |-> NoReply]
  /\ late = {}
  /\ ledger = [e \in LogicalEvents |-> 0]

\* The batches a relay may claim, in the order of the outbox; one too large is
\* its own mistake.
Batches ==
  {b \in UNION {[1..n -> Rows] : n \in 1..MaxBatch + 1} :
     \A j, k \in DOMAIN b : j < k => b[j] < b[k]}

SetStatus(b, s) ==
  status' = [x \in Rows |-> IF x \in ToSet(b) THEN s ELSE status[x]]

Release(r) ==
  /\ pc' = [pc EXCEPT ![r] = "idle"]
  /\ batch' = [batch EXCEPT ![r] = <<>>]
  /\ attempt' = [attempt EXCEPT ![r] = 0]
  /\ reply' = [reply EXCEPT ![r] = NoReply]

\* Refused for good: a batch is split, a single row set aside.
AfterRefusal(b) == SetStatus(b, IF Len(b) = 1 THEN "quarantined" ELSE "alone")
Refused(r) == AfterRefusal(batch[r]) /\ Release(r)

\* The outcome is unknown: the rows wait to be published again.
Unknown(r) ==
  /\ SetStatus(batch[r], IF Len(batch[r]) = 1 THEN "alone" ELSE "pending")
  /\ Release(r)

\* A relay claims rows that wait, a row of a refused batch alone, and makes the
\* call that fits them; the SDK refuses or sends.
Publish(r, b) ==
  /\ pc[r] = "idle"
  /\ \A x \in ToSet(b) : status[x] \in IF Len(b) = 1 THEN {"pending", "alone"} ELSE {"pending"}
  /\ \E converts \in Calls(b) :
       IF converts /\ Preflight(b)
         THEN /\ SetStatus(b, "claimed")
              /\ pc' = [pc EXCEPT ![r] = "sent"]
              /\ batch' = [batch EXCEPT ![r] = b]
              /\ attempt' = [attempt EXCEPT ![r] = 1]
              /\ UNCHANGED reply
         ELSE AfterRefusal(b) /\ UNCHANGED relay
  /\ UNCHANGED <<input, eventId, late, ledger>>

\* A request the client no longer waits for may still arrive, unless lost.
Abandon(r) ==
  \/ UNCHANGED late
  \/ /\ pc[r] = "sent"
     /\ Cardinality(late \cup {batch[r]}) <= MaxLate
     /\ late' = late \cup {batch[r]}

\* No answer, or none that can be read: sent again as it was while attempts
\* are left, else given up.
AttemptFails(r) ==
  /\ pc[r] \in {"sent", "served"}
  /\ Abandon(r)
  /\ \/ /\ attempt[r] < MaxAttempts
        /\ attempt' = [attempt EXCEPT ![r] = @ + 1]
        /\ pc' = [pc EXCEPT ![r] = "sent"]
        /\ reply' = [reply EXCEPT ![r] = NoReply]
        /\ UNCHANGED <<status, batch>>
     \/ Unknown(r)
  /\ UNCHANGED <<input, eventId, ledger>>

\* An answer arrives: a refusal of the server, receipts, or receipts that are not
\* as they should be: out of order, too few or too many, for another key, with no
\* id or another event's, or counted wrongly.
Garbled(a) ==
  {[a EXCEPT !.receipts = s] :
     s \in {Reverse(a.receipts)}
       \cup {Front(a.receipts) : k \in DOMAIN a.receipts}
       \cup {Append(a.receipts, a.receipts[k]) : k \in DOMAIN a.receipts}
       \cup {[a.receipts EXCEPT ![k].id = y] : k \in DOMAIN a.receipts, y \in Rows \cup {0}}
       \cup {[a.receipts EXCEPT ![k].key = input[x].key] :
               k \in DOMAIN a.receipts, x \in Rows}}
  \cup {[a EXCEPT !.accepted = @ + 1]}

Arrive(r, a) ==
  /\ pc[r] = "served"
  /\ IF a.verdict = "mismatch"
       THEN Refused(r)
       ELSE IF \/ BatchResponse(a, batch[r]) /\ Len(batch[r]) > 1
               \/ SingleEventResponse(a, batch[r])
         THEN /\ pc' = [pc EXCEPT ![r] = "receipted"]
              /\ reply' = [reply EXCEPT ![r] = a]
              /\ UNCHANGED <<status, batch, attempt>>
         ELSE Unknown(r)
  /\ UNCHANGED <<input, eventId, late, ledger>>

\* The relay marks its rows delivered, each with the id at its place; a
\* duplicate receipt is a delivery like any other.
Mark(r) ==
  /\ pc[r] = "receipted"
  /\ SetStatus(batch[r], "delivered")
  /\ eventId' = [x \in Rows |->
       IF x \in ToSet(batch[r])
         THEN LET k == CHOOSE n \in DOMAIN batch[r] : batch[r][n] = x
              IN  IF k \in DOMAIN reply[r].receipts THEN reply[r].receipts[k].id ELSE 0
         ELSE eventId[x]]
  /\ Release(r)
  /\ UNCHANGED <<input, late, ledger>>

\* A relay dies; its claims expire.
Crash(r) ==
  /\ pc[r] # "idle"
  /\ Abandon(r)
  /\ Unknown(r)
  /\ UNCHANGED <<input, eventId, ledger>>

-----------------------------------------------------------------------------
(* The server.                                                             *)

Known(key) == \E e \in LogicalEvents : e.key = key /\ ledger[e] > 0

\* The server commits the events of b whose keys it does not know.
Commit(b) ==
  ledger' = [e \in LogicalEvents |->
    IF Known(e.key) THEN ledger[e]
                    ELSE ledger[e] + Cardinality({k \in DOMAIN b : Entry(b[k]) = e})]

Conflict(b) ==
  \E x \in ToSet(b) : \E e \in LogicalEvents :
    e.key = input[x].key /\ ledger[e] > 0 /\ e.content # input[x].content

\* Events with different keys have different ids.
EventId(key) == CHOOSE x \in Rows : input[x].key = key

\* The receipts of b, once it is committed.
ReceiptsFor(b) ==
  [k \in DOMAIN b |->
     [key |-> input[b[k]].key, id |-> EventId(input[b[k]].key), dup |-> Known(input[b[k]].key)]]

\* The server handles the first n events of the batch and answers for them.
Serve(r, n) ==
  /\ pc[r] = "sent"
  /\ n \in 0..Len(batch[r])
  /\ pc' = [pc EXCEPT ![r] = "served"]
  /\ LET b == SubSeq(batch[r], 1, n)
     IN  IF Conflict(b)
           THEN /\ reply' = [reply EXCEPT ![r] = [NoReply EXCEPT !.verdict = "mismatch"]]
                /\ UNCHANGED ledger
           ELSE /\ Commit(b)
                /\ LET a == [NoReply EXCEPT !.verdict = "ok", !.receipts = ReceiptsFor(b)]
                   IN  reply' = [reply EXCEPT ![r] =
                         [a EXCEPT !.accepted = Receipts(a, FALSE),
                                   !.duplicates = Receipts(a, TRUE)]]
  /\ UNCHANGED <<input, outbox, batch, attempt, late>>

ServeLate(b) ==
  /\ b \in late
  /\ late' = late \ {b}
  /\ IF Conflict(b) THEN UNCHANGED ledger ELSE Commit(b)
  /\ UNCHANGED <<input, outbox, relay>>

Next ==
  \/ \E r \in Relays :
       \/ \E b \in Batches : Publish(r, b)
       \/ \E n \in 0..MaxBatch : Serve(r, n)
       \/ \E a \in {reply[r]} \cup Garbled(reply[r]) : Arrive(r, a)
       \/ AttemptFails(r)
       \/ Mark(r)
       \/ Crash(r)
  \/ \E b \in late : ServeLate(b)

Spec == Init /\ [][Next]_vars

\* Relays keep working and do not die every time before they mark; a request
\* sent for ever is served whole and its answer read in the end.
FairSpec ==
  /\ Spec
  /\ \A r \in Relays :
       /\ WF_vars(\E b \in Batches : Publish(r, b))
       /\ SF_vars(Mark(r))
       /\ SF_vars(Serve(r, Len(batch[r])))
       /\ SF_vars(Arrive(r, reply[r])
                    /\ (reply[r].verdict = "mismatch" \/ Complete(reply[r], batch[r])))
       /\ WF_vars(AttemptFails(r) \/ Arrive(r, reply[r]))

-----------------------------------------------------------------------------
(* What publishing promises.                                               *)

\* Every variable stays in its domain; in particular no batch beyond
\* MAX_INGESTION_BATCH_SIZE is ever on the wire.
TypeOK ==
  /\ input \in Inputs
  /\ status \in [Rows -> {"pending", "alone", "claimed", "delivered", "quarantined"}]
  /\ eventId \in [Rows -> Rows \cup {0}]
  /\ pc \in [Relays -> {"idle", "sent", "served", "receipted"}]
  /\ batch \in [Relays -> Batches \cup {<<>>}]
  /\ attempt \in [Relays -> 0..MaxAttempts]
  /\ ledger \in [LogicalEvents -> Nat]
  /\ \A r \in Relays : pc[r] # "idle" => Len(batch[r]) <= MaxBatch
  /\ Cardinality(late) <= MaxLate

\* "Mark it delivered only after decoding a valid receipt": a row is marked, once,
\* while its event is in the workspace and with the positive id that the answer to
\* its own request gives for its own key, never with one given for another row of
\* the batch.  (Whether that id is right the client cannot know: batchResponse
\* accepts another event's id under the right key.)
MarkedWithOwnId ==
  [][\A x \in Rows :
       IF status'[x] = "delivered" /\ status[x] # "delivered"
         THEN /\ ledger[Entry(x)] > 0
              /\ \E r \in Relays : x \in ToSet(batch[r]) /\
                   \E k \in DOMAIN reply[r].receipts :
                     /\ reply[r].receipts[k].key = input[x].key
                     /\ eventId'[x] = reply[r].receipts[k].id
                     /\ eventId'[x] > 0
         ELSE eventId'[x] = eventId[x]]_vars

\* Retries, replays after a crash, late requests, half-done batches and garbled
\* answers write no event twice and lose none that was marked: publishing
\* implements Delivery.
D == INSTANCE Delivery
       WITH event <- [x \in Rows |-> Entry(x)],
            copies <- ledger,
            delivered <- {x \in Rows : status[x] = "delivered"}

DeliversOnce == D!Spec

\* "Valid raw JSON retained for compatibility.  Mutually exclusive with
\* payload.", says the legacy input of its payloadJson (types.ts): an event
\* that has no other peculiarity, and no payload, is not refused.
RawPayloadRetained ==
  \A x \in Rows :
    input[x].flaw = "raw" /\ (\A y \in Rows \ {x} : input[y].key # input[x].key)
      => status[x] # "quarantined"

\* A row the SDK can publish: no flaw, and no row with its key and other content.
Sound(x) ==
  /\ input[x].flaw = "none"
  /\ \A y \in Rows : input[y].key = input[x].key => input[y].content = input[x].content

\* Every such row is delivered in the end: a crash between publish and mark, a
\* duplicate receipt or a bad neighbour in its batch never strands it.
EveryRowDelivered == <>(\A x \in Rows : Sound(x) => status[x] = "delivered")
=============================================================================
