------------------------- MODULE EventPublishProofs -------------------------
(***************************************************************************)
(* Theorems of publishing events, for any relays, any outbox, any batch    *)
(* size and attempt limit, and any loss, delay and garbling.               *)
(***************************************************************************)
EXTENDS EventPublish, SequenceTheorems, FiniteSetTheorems, TLAPS

-----------------------------------------------------------------------------
(* The inductive invariant.                                                *)

\* A batch the SDK sends names no key twice.
Sendable(b) == b \in Batches /\ DistinctKeys(b) /\ Len(b) <= MaxBatch

\* The event of the row is in the workspace.
Present(x) == ledger[Entry(x)] > 0

\* A row under way is claimed by the one relay that publishes it.
Claims ==
  \A r \in Relays :
    /\ pc[r] = "idle" => batch[r] = <<>>
    /\ pc[r] # "idle" => Sendable(batch[r])
    /\ \A x \in ToSet(batch[r]) : status[x] = "claimed"
    /\ \A s \in Relays \ {r} : ToSet(batch[r]) \cap ToSet(batch[s]) = {}

\* The server has no logical event twice.
Once == \A e \in LogicalEvents : ledger[e] \in {0, 1}

LateInv == IsFiniteSet(late) /\ \A b \in late : Sendable(b)

\* What the server answers: receipts for the first events of the batch, each
\* for an event that is there.
Receipt == [key : STRING, id : Rows, dup : BOOLEAN]
Reply == [verdict : {"none", "ok", "mismatch"}, receipts : Seq(Receipt),
          accepted : Nat, duplicates : Nat]
Genuine(a, b) ==
  /\ a \in Reply
  /\ Len(a.receipts) <= Len(b)
  /\ \A k \in 1..Len(a.receipts) :
       /\ a.receipts[k].key = input[b[k]].key
       /\ a.receipts[k].id = EventId(input[b[k]].key)
       /\ Present(b[k])

\* What the client accepts: for every event of the batch, at its place, an id that
\* was given for its key.
Credited(a, b) ==
  \A k \in DOMAIN b :
    /\ k \in DOMAIN a.receipts
    /\ a.receipts[k].key = input[b[k]].key
    /\ a.receipts[k].id \in Rows
    /\ Present(b[k])

RepliesInv ==
  /\ DOMAIN reply = Relays
  /\ \A r \in Relays :
       /\ pc[r] = "served" => Genuine(reply[r], batch[r])
       /\ pc[r] = "receipted" => Credited(reply[r], batch[r])

IInv == TypeOK /\ Claims /\ Once /\ LateInv /\ RepliesInv

-----------------------------------------------------------------------------
(* Rows, batches and events.                                               *)

LEMMA BatchFacts ==
  ASSUME NEW b \in Batches
  PROVE  /\ b \in Seq(Rows) /\ Len(b) \in Nat \ {0} /\ DOMAIN b = 1..Len(b)
         /\ b # <<>>
         /\ \A k \in 1..Len(b) : b[k] \in Rows
         /\ ToSet(b) \subseteq Rows
<1>1. PICK n \in 1..MaxBatch + 1 : b \in [1..n -> Rows]
  BY DEF Batches
<1>2. n \in Nat \ {0}
  BY EventPublishAssumption
<1>3. b \in Seq(Rows)
  BY <1>1, <1>2, SeqDef
<1>4. Len(b) \in Nat /\ DOMAIN b = 1..Len(b) /\ \A k \in 1..Len(b) : b[k] \in Rows
  BY <1>3, LenProperties, ElementOfSeq
<1>5. 1 \in DOMAIN b
  BY <1>1, <1>2
<1>6. Len(b) # 0
  BY <1>4, <1>5
<1>7. b # <<>>
  BY <1>6, EmptySeq
<1> QED
  BY <1>3, <1>4, <1>6, <1>7 DEF ToSet

LEMMA BatchRows == ASSUME TypeOK, NEW t \in Relays PROVE ToSet(batch[t]) \subseteq Rows
<1>1. CASE batch[t] \in Batches
  BY <1>1, BatchFacts
<1>2. CASE batch[t] = <<>>
  BY <1>2 DEF ToSet
<1> QED
  BY <1>1, <1>2 DEF TypeOK

\* The fields of an input, and the logical event of its row.
LEMMA InputFacts ==
  ASSUME TypeOK, NEW x \in Rows
  PROVE  /\ input[x].key \in STRING
         /\ Entry(x) \in LogicalEvents
         /\ Entry(x).key = input[x].key /\ Entry(x).content = input[x].content
         /\ EventId(input[x].key) \in Rows
<1>1. input \in Inputs
  BY DEF TypeOK
<1>2. input[x].key \in STRING
  BY <1>1, EventPublishAssumption
<1>3. Entry(x) \in LogicalEvents
  BY <1>1 DEF Entry, LogicalEvents
<1>4. EventId(input[x].key) \in Rows
  BY DEF EventId
<1> QED
  BY <1>2, <1>3, <1>4 DEF Entry

\* A logical event is its key with its content.
LEMMA EventFacts ==
  ASSUME NEW e \in LogicalEvents
  PROVE  e = [key |-> e.key, content |-> e.content]
BY DEF LogicalEvents

\* The rows of a batch differ in their keys.
LEMMA KeysTellPlaces ==
  ASSUME NEW b \in Batches, DistinctKeys(b), NEW j \in 1..Len(b), NEW k \in 1..Len(b),
         input[b[j]].key = input[b[k]].key
  PROVE  j = k
BY BatchFacts DEF DistinctKeys, IsInjective

\* A status that is set for rows of the outbox.
LEMMA SetStatusFacts ==
  ASSUME NEW b, NEW s, SetStatus(b, s)
  PROVE  \A x \in Rows : status'[x] = IF x \in ToSet(b) THEN s ELSE status[x]
BY DEF SetStatus

\* Relays whose turn it is not keep what they have.
Others(r) ==
  \A s \in Relays \ {r} :
    pc'[s] = pc[s] /\ batch'[s] = batch[s] /\ reply'[s] = reply[s]

-----------------------------------------------------------------------------
(* The workspace.                                                          *)

NewEvents(b) ==
  {e \in LogicalEvents : ~Known(e.key) /\ \E k \in DOMAIN b : Entry(b[k]) = e}

\* A batch without a repeated key adds each of its new events once, and then
\* has all of its events there if it conflicts with none.
LEMMA CommitFacts ==
  ASSUME TypeOK, Once, NEW b \in Seq(Rows), Commit(b),
         \A j, k \in 1..Len(b) : input[b[j]].key = input[b[k]].key => j = k
  PROVE  /\ ledger' = [e \in LogicalEvents |-> IF e \in NewEvents(b) THEN 1 ELSE ledger[e]]
         /\ \A e \in NewEvents(b) : ledger[e] = 0
         /\ \A e \in LogicalEvents : ledger'[e] \in {0, 1} /\ ledger'[e] >= ledger[e]
         /\ ~Conflict(b) => \A k \in 1..Len(b) : ledger'[Entry(b[k])] > 0
<1>1. DOMAIN b = 1..Len(b) /\ \A k \in 1..Len(b) : b[k] \in Rows
  BY LenProperties, ElementOfSeq
<1>2. \A k \in 1..Len(b) : /\ Entry(b[k]) \in LogicalEvents
                           /\ Entry(b[k]).key = input[b[k]].key
                           /\ Entry(b[k]).content = input[b[k]].content
  BY <1>1, InputFacts
<1>3. ASSUME NEW e \in LogicalEvents
      PROVE  Cardinality({k \in DOMAIN b : Entry(b[k]) = e})
               = IF \E k \in DOMAIN b : Entry(b[k]) = e THEN 1 ELSE 0
  <2>1. CASE \A k \in DOMAIN b : Entry(b[k]) # e
    <3>1. {k \in DOMAIN b : Entry(b[k]) = e} = {}
      BY <2>1
    <3> QED
      BY <2>1, <3>1, FS_EmptySet
  <2>2. ASSUME NEW j \in DOMAIN b, Entry(b[j]) = e
        PROVE  Cardinality({k \in DOMAIN b : Entry(b[k]) = e}) = 1
    <3>1. ASSUME NEW k \in DOMAIN b, Entry(b[k]) = e PROVE k = j
      BY <1>1, <1>2, <2>2, <3>1
    <3>2. {k \in DOMAIN b : Entry(b[k]) = e} = {j}
      BY <2>2, <3>1
    <3> QED
      BY <3>2, FS_Singleton
  <2> QED
    BY <2>1, <2>2
<1>4. ASSUME NEW e \in LogicalEvents, ~Known(e.key) PROVE ledger[e] = 0
  BY <1>4 DEF Known, Once
<1>5. ASSUME NEW e \in LogicalEvents
      PROVE  ledger'[e] = IF e \in NewEvents(b) THEN 1 ELSE ledger[e]
  <2>1. ledger'[e] = IF Known(e.key) THEN ledger[e]
                     ELSE ledger[e] + Cardinality({k \in DOMAIN b : Entry(b[k]) = e})
    BY DEF Commit
  <2> QED
    BY <1>3, <1>4, <2>1 DEF NewEvents
<1>6. ledger' = [e \in LogicalEvents |-> IF e \in NewEvents(b) THEN 1 ELSE ledger[e]]
  BY <1>5 DEF Commit
<1>7. \A e \in NewEvents(b) : e \in LogicalEvents /\ ledger[e] = 0
  BY <1>4 DEF NewEvents
<1>8. \A e \in LogicalEvents : ledger'[e] \in {0, 1} /\ ledger'[e] >= ledger[e]
  BY <1>5, <1>7 DEF Once
<1>9. ASSUME ~Conflict(b), NEW k \in 1..Len(b) PROVE ledger'[Entry(b[k])] > 0
  <2>1. CASE Known(input[b[k]].key)
    <3>1. PICK e \in LogicalEvents : e.key = input[b[k]].key /\ ledger[e] > 0
      BY <2>1 DEF Known
    <3>2. e.content = input[b[k]].content
      BY <1>1, <1>9, <3>1 DEF Conflict, ToSet
    <3>3. e = Entry(b[k])
      BY <3>1, <3>2, EventFacts DEF Entry
    <3>4. ledger'[e] >= ledger[e] /\ ledger[e] \in Nat /\ ledger'[e] \in Nat
      BY <1>8 DEF Once
    <3> QED
      BY <3>1, <3>3, <3>4
  <2>2. CASE ~Known(input[b[k]].key)
    <3>1. Entry(b[k]) \in NewEvents(b)
      BY <1>1, <1>2, <2>2 DEF NewEvents
    <3> QED
      BY <1>2, <1>5, <3>1
  <2> QED
    BY <2>1, <2>2
<1> QED
  BY <1>6, <1>7, <1>8, <1>9

\* While the workspace only grows, what was answered and marked stays true.
LEMMA AnswersStay ==
  ASSUME IInv, input' = input,
         \A e \in LogicalEvents : ledger'[e] \in {0, 1} /\ ledger'[e] >= ledger[e],
         NEW r \in Relays,
         pc'[r] = pc[r] /\ batch'[r] = batch[r] /\ reply'[r] = reply[r]
  PROVE  /\ pc'[r] = "served" => Genuine(reply[r], batch[r])'
         /\ pc'[r] = "receipted" => Credited(reply[r], batch[r])'
<1>1. ASSUME NEW x \in Rows, Present(x) PROVE Present(x)'
  <2>1. Entry(x) \in LogicalEvents /\ Entry(x)' = Entry(x)
    BY InputFacts DEF IInv, Entry
  <2> QED
    BY <1>1, <2>1 DEF Present, IInv, Once
<1>2. ASSUME pc[r] \in {"served", "receipted"}
      PROVE  /\ DOMAIN batch[r] = 1..Len(batch[r]) /\ Len(batch[r]) \in Nat
             /\ \A k \in 1..Len(batch[r]) : batch[r][k] \in Rows
  BY <1>2, BatchFacts DEF IInv, Claims, Sendable
<1>3. CASE pc[r] = "served"
  <2>1. Genuine(reply[r], batch[r])
    BY <1>3 DEF IInv, RepliesInv
  <2>2. Len(reply[r].receipts) \in Nat
    BY <2>1, LenProperties DEF Genuine, Reply
  <2>3. \A k \in 1..Len(reply[r].receipts) : k \in 1..Len(batch[r])
    BY <1>2, <1>3, <2>1, <2>2 DEF Genuine
  <2> QED
    BY <1>1, <1>2, <1>3, <2>1, <2>3 DEF Genuine, EventId
<1>4. CASE pc[r] = "receipted"
  BY <1>1, <1>2, <1>4 DEF IInv, RepliesInv, Credited
<1> QED
  BY <1>3, <1>4

\* An unchanged workspace grows.
LEMMA SameLedger ==
  ASSUME IInv, ledger' = ledger
  PROVE  \A e \in LogicalEvents : ledger'[e] \in {0, 1} /\ ledger'[e] >= ledger[e]
BY DEF IInv, Once

-----------------------------------------------------------------------------
(* The invariant is inductive.                                             *)

LEMMA InitIInv == Init => IInv
<1> SUFFICES ASSUME Init PROVE IInv
  OBVIOUS
<1>1. TypeOK
  BY EventPublishAssumption, FS_EmptySet DEF Init, TypeOK
<1>2. Claims
  BY DEF Init, Claims, ToSet
<1>3. Once /\ LateInv /\ RepliesInv
  BY FS_EmptySet DEF Init, Once, LateInv, RepliesInv
<1> QED
  BY <1>1, <1>2, <1>3 DEF IInv

\* A request that is given up may stay under way, within the bound.
LEMMA AbandonKeeps ==
  ASSUME IInv, NEW r \in Relays, Abandon(r), input' = input
  PROVE  LateInv' /\ Cardinality(late') <= MaxLate
<1>1. CASE UNCHANGED late
  BY <1>1 DEF IInv, LateInv, TypeOK, Sendable, DistinctKeys, Batches
<1>2. CASE /\ pc[r] = "sent" /\ Cardinality(late \cup {batch[r]}) <= MaxLate
           /\ late' = late \cup {batch[r]}
  <2>1. IsFiniteSet(late \cup {batch[r]})
    BY FS_AddElement DEF IInv, LateInv
  <2>2. Sendable(batch[r])
    BY <1>2 DEF IInv, Claims
  <2>3. \A b \in late' : Sendable(b)
    BY <1>2, <2>2 DEF IInv, LateInv
  <2> QED
    BY <1>2, <2>1, <2>3 DEF LateInv, Sendable, DistinctKeys, Batches
<1> QED
  BY <1>1, <1>2 DEF Abandon

\* A relay lets its rows go: refused, or of unknown fate.
LEMMA LetGoKeeps ==
  ASSUME IInv, NEW r \in Relays, pc[r] # "idle",
         NEW s \in {"pending", "alone", "quarantined"},
         SetStatus(batch[r], s), Release(r),
         UNCHANGED <<input, eventId, ledger>>,
         LateInv', Cardinality(late') <= MaxLate
  PROVE  IInv'
<1>1. /\ pc' = [pc EXCEPT ![r] = "idle"] /\ batch' = [batch EXCEPT ![r] = <<>>]
      /\ attempt' = [attempt EXCEPT ![r] = 0] /\ reply' = [reply EXCEPT ![r] = NoReply]
  BY DEF Release
<1>2. \A x \in Rows : status'[x] = IF x \in ToSet(batch[r]) THEN s ELSE status[x]
  BY SetStatusFacts
<1>3. /\ pc'[r] = "idle" /\ batch'[r] = <<>>
      /\ \A t \in Relays \ {r} :
           pc'[t] = pc[t] /\ batch'[t] = batch[t] /\ reply'[t] = reply[t]
  BY <1>1 DEF IInv, TypeOK, RepliesInv
<1>4. TypeOK'
  <2>1. status' \in [Rows -> {"pending", "alone", "claimed", "delivered", "quarantined"}]
    BY <1>2 DEF IInv, TypeOK, SetStatus
  <2>2. /\ pc' \in [Relays -> {"idle", "sent", "served", "receipted"}]
        /\ batch' \in [Relays -> Batches \cup {<<>>}]
        /\ attempt' \in [Relays -> 0..MaxAttempts]
    BY <1>1, EventPublishAssumption DEF IInv, TypeOK
  <2>3. \A t \in Relays : pc'[t] # "idle" => Len(batch'[t]) <= MaxBatch
    BY <1>3 DEF IInv, TypeOK
  <2> QED
    BY <2>1, <2>2, <2>3 DEF IInv, TypeOK, LogicalEvents
<1>5. Claims'
  <2>1. ToSet(batch'[r]) = {}
    BY <1>3 DEF ToSet
  <2>2. ASSUME NEW t \in Relays \ {r}
        PROVE  /\ pc'[t] = "idle" => batch'[t] = <<>>
               /\ pc'[t] # "idle" => Sendable(batch[t])'
               /\ ToSet(batch'[t]) = ToSet(batch[t])
               /\ \A x \in ToSet(batch'[t]) : status'[x] = "claimed"
    <3>1. Sendable(batch[t]) => Sendable(batch[t])'
      BY <1>3 DEF Sendable, DistinctKeys, Batches
    <3>2. ToSet(batch[t]) \subseteq Rows
      BY BatchFacts DEF IInv, TypeOK, ToSet
    <3> QED
      BY <1>2, <1>3, <3>1, <3>2 DEF IInv, Claims
  <2> QED
    BY <1>3, <2>1, <2>2 DEF IInv, Claims
<1>6. RepliesInv'
  <2>1. DOMAIN reply' = Relays
    BY <1>1 DEF IInv, RepliesInv
  <2>2. ASSUME NEW t \in Relays \ {r}
        PROVE  /\ pc'[t] = "served" => Genuine(reply[t], batch[t])'
               /\ pc'[t] = "receipted" => Credited(reply[t], batch[t])'
    BY <1>3, SameLedger, AnswersStay
  <2> QED
    BY <1>3, <2>1, <2>2 DEF RepliesInv
<1> QED
  BY <1>4, <1>5, <1>6 DEF IInv, Once, LogicalEvents

LEMMA CrashKeeps == ASSUME IInv, NEW r \in Relays, Crash(r) PROVE IInv'
BY AbandonKeeps, LetGoKeeps DEF Crash, Unknown

\* A call: its rows are claimed, or refused before anything is sent.
LEMMA PublishKeeps ==
  ASSUME IInv, NEW r \in Relays, NEW b \in Batches, Publish(r, b)
  PROVE  IInv'
<1>1. /\ pc[r] = "idle" /\ UNCHANGED <<input, eventId, late, ledger>>
      /\ \A x \in ToSet(b) : status[x] \in {"pending", "alone"}
  BY DEF Publish
<1>2. ToSet(b) \subseteq Rows
  BY BatchFacts
<1>3. \A t \in Relays : ToSet(batch[t]) \subseteq Rows /\ ToSet(batch[t]) \cap ToSet(b) = {}
  <2>1. \A t \in Relays : \A x \in ToSet(batch[t]) : status[x] = "claimed"
    BY DEF IInv, Claims
  <2>2. \A t \in Relays : ToSet(batch[t]) \subseteq Rows
    BY BatchFacts DEF IInv, TypeOK, ToSet
  <2> QED
    BY <1>1, <2>1, <2>2
<1>4. LateInv' /\ Once'
  BY <1>1 DEF IInv, LateInv, Once, LogicalEvents, Sendable, DistinctKeys, Batches
<1>5. ASSUME NEW t \in Relays, Sendable(batch[t]), batch'[t] = batch[t]
      PROVE  Sendable(batch[t])'
  BY <1>1, <1>5 DEF Sendable, DistinctKeys, Batches
<1>6. CASE /\ Preflight(b) /\ SetStatus(b, "claimed")
           /\ pc' = [pc EXCEPT ![r] = "sent"] /\ batch' = [batch EXCEPT ![r] = b]
           /\ attempt' = [attempt EXCEPT ![r] = 1] /\ UNCHANGED reply
  <2>1. DistinctKeys(b) /\ Len(b) <= MaxBatch
    BY <1>6, BatchFacts, EventPublishAssumption
    DEF Preflight, PreflightPublishCdc, PreflightPublishAudit, ValidBatchSize
  <2>2. \A x \in Rows : status'[x] = IF x \in ToSet(b) THEN "claimed" ELSE status[x]
    BY <1>6, SetStatusFacts
  <2>3. /\ pc'[r] = "sent" /\ batch'[r] = b
        /\ \A t \in Relays \ {r} :
             pc'[t] = pc[t] /\ batch'[t] = batch[t] /\ reply'[t] = reply[t]
    BY <1>6 DEF IInv, TypeOK, RepliesInv
  <2>4. TypeOK'
    <3>1. status' \in [Rows -> {"pending", "alone", "claimed", "delivered", "quarantined"}]
      BY <1>6, <2>2 DEF IInv, TypeOK, SetStatus
    <3>2. /\ pc' \in [Relays -> {"idle", "sent", "served", "receipted"}]
          /\ batch' \in [Relays -> Batches \cup {<<>>}]
          /\ attempt' \in [Relays -> 0..MaxAttempts]
      BY <1>6, EventPublishAssumption DEF IInv, TypeOK
    <3>3. \A t \in Relays : pc'[t] # "idle" => Len(batch'[t]) <= MaxBatch
      BY <2>1, <2>3 DEF IInv, TypeOK
    <3> QED
      BY <1>1, <3>1, <3>2, <3>3 DEF IInv, TypeOK, LogicalEvents
  <2>5. Claims'
    <3>1. Sendable(batch[r])'
      BY <1>1, <2>1, <2>3 DEF Sendable, DistinctKeys, Batches
    <3>2. \A x \in ToSet(batch'[r]) : status'[x] = "claimed"
      BY <1>2, <2>2, <2>3
    <3>3. \A t \in Relays \ {r} :
            /\ pc'[t] = "idle" => batch'[t] = <<>>
            /\ pc'[t] # "idle" => Sendable(batch[t])'
            /\ \A x \in ToSet(batch'[t]) : status'[x] = "claimed"
            /\ ToSet(batch'[t]) = ToSet(batch[t])
      BY <1>3, <1>5, <2>2, <2>3 DEF IInv, Claims
    <3> QED
      BY <1>3, <2>3, <3>1, <3>2, <3>3 DEF IInv, Claims
  <2>6. RepliesInv'
    <3>1. DOMAIN reply' = Relays
      BY <1>6 DEF IInv, RepliesInv
    <3>2. ASSUME NEW t \in Relays \ {r}
          PROVE  /\ pc'[t] = "served" => Genuine(reply[t], batch[t])'
                 /\ pc'[t] = "receipted" => Credited(reply[t], batch[t])'
      BY <1>1, <2>3, SameLedger, AnswersStay
    <3> QED
      BY <2>3, <3>1, <3>2 DEF RepliesInv
  <2> QED
    BY <1>4, <2>4, <2>5, <2>6 DEF IInv
<1>7. CASE AfterRefusal(b) /\ UNCHANGED relay
  <2>1. PICK s \in {"quarantined", "alone"} : SetStatus(b, s)
    BY <1>7 DEF AfterRefusal
  <2>2. \A x \in Rows : status'[x] = IF x \in ToSet(b) THEN s ELSE status[x]
    BY <2>1, SetStatusFacts
  <2>3. UNCHANGED <<pc, batch, attempt, reply>>
    BY <1>7 DEF relay
  <2>4. TypeOK'
    <3>1. status' \in [Rows -> {"pending", "alone", "claimed", "delivered", "quarantined"}]
      BY <2>1, <2>2 DEF IInv, TypeOK, SetStatus
    <3> QED
      BY <1>1, <2>3, <3>1 DEF IInv, TypeOK, LogicalEvents
  <2>5. Claims'
    <3>1. \A t \in Relays :
            /\ pc'[t] = "idle" => batch'[t] = <<>>
            /\ pc'[t] # "idle" => Sendable(batch[t])'
            /\ \A x \in ToSet(batch'[t]) : status'[x] = "claimed"
            /\ ToSet(batch'[t]) = ToSet(batch[t])
      BY <1>3, <1>5, <2>2, <2>3 DEF IInv, Claims
    <3> QED
      BY <2>3, <3>1 DEF IInv, Claims
  <2>6. RepliesInv'
    <3>1. ASSUME NEW t \in Relays
          PROVE  /\ pc'[t] = "served" => Genuine(reply[t], batch[t])'
                 /\ pc'[t] = "receipted" => Credited(reply[t], batch[t])'
      BY <1>1, <2>3, SameLedger, AnswersStay
    <3> QED
      BY <2>3, <3>1 DEF IInv, RepliesInv
  <2> QED
    BY <1>4, <2>4, <2>5, <2>6 DEF IInv
<1> QED
  BY <1>6, <1>7 DEF Publish

\* A step of one relay on its own request: its rows and all statuses stay, and
\* the workspace may grow.
LEMMA OwnStepKeeps ==
  ASSUME IInv, NEW r \in Relays, NEW to \in {"sent", "served", "receipted"},
         pc[r] # "idle", pc' = [pc EXCEPT ![r] = to],
         DOMAIN reply' = Relays,
         \A t \in Relays \ {r} : reply'[t] = reply[t],
         attempt' \in [Relays -> 0..MaxAttempts],
         UNCHANGED <<input, status, eventId, batch>>,
         LateInv', Cardinality(late') <= MaxLate,
         ledger' \in [LogicalEvents -> Nat],
         \A e \in LogicalEvents : ledger'[e] \in {0, 1} /\ ledger'[e] >= ledger[e],
         to = "served" => Genuine(reply[r], batch[r])',
         to = "receipted" => Credited(reply[r], batch[r])'
  PROVE  IInv'
<1>1. pc'[r] = to /\ \A t \in Relays \ {r} : pc'[t] = pc[t]
  BY DEF IInv, TypeOK
<1>2. TypeOK'
  <2>1. pc' \in [Relays -> {"idle", "sent", "served", "receipted"}]
    BY DEF IInv, TypeOK
  <2>2. \A t \in Relays : pc'[t] # "idle" => Len(batch'[t]) <= MaxBatch
    BY <1>1 DEF IInv, TypeOK
  <2> QED
    BY <2>1, <2>2 DEF IInv, TypeOK
<1>3. Claims'
  <2>1. ASSUME NEW t \in Relays, Sendable(batch[t]) PROVE Sendable(batch[t])'
    BY <2>1 DEF Sendable, DistinctKeys, Batches
  <2>2. \A t \in Relays : batch'[t] = batch[t] /\ ToSet(batch'[t]) = ToSet(batch[t])
    OBVIOUS
  <2>3. pc'[r] # "idle" /\ \A t \in Relays : pc'[t] = "idle" <=> pc[t] = "idle"
    BY <1>1
  <2>4. \A t \in Relays : pc'[t] # "idle" => Sendable(batch[t])'
    BY <2>1, <2>3 DEF IInv, Claims
  <2> QED
    BY <2>2, <2>3, <2>4 DEF IInv, Claims
<1>4. RepliesInv'
  <2>1. ASSUME NEW t \in Relays \ {r}
        PROVE  /\ pc'[t] = "served" => Genuine(reply[t], batch[t])'
               /\ pc'[t] = "receipted" => Credited(reply[t], batch[t])'
    BY <1>1, AnswersStay
  <2> QED
    BY <1>1, <2>1 DEF RepliesInv
<1> QED
  BY <1>2, <1>3, <1>4 DEF IInv, Once

LEMMA AttemptFailsKeeps ==
  ASSUME IInv, NEW r \in Relays, AttemptFails(r)
  PROVE  IInv'
<1>1. /\ pc[r] \in {"sent", "served"} /\ UNCHANGED <<input, eventId, ledger>>
      /\ LateInv' /\ Cardinality(late') <= MaxLate
  BY AbandonKeeps DEF AttemptFails
<1>2. CASE Unknown(r)
  BY <1>1, <1>2, LetGoKeeps DEF Unknown
<1>3. CASE /\ attempt[r] < MaxAttempts /\ attempt' = [attempt EXCEPT ![r] = @ + 1]
           /\ pc' = [pc EXCEPT ![r] = "sent"] /\ reply' = [reply EXCEPT ![r] = NoReply]
           /\ UNCHANGED <<status, batch>>
  <2>1. attempt' \in [Relays -> 0..MaxAttempts]
    BY <1>3, EventPublishAssumption DEF IInv, TypeOK
  <2>2. DOMAIN reply' = Relays /\ \A t \in Relays \ {r} : reply'[t] = reply[t]
    BY <1>3 DEF IInv, RepliesInv
  <2>3. ledger' \in [LogicalEvents -> Nat]
    BY <1>1 DEF IInv, TypeOK
  <2> QED
    BY <1>1, <1>3, <2>1, <2>2, <2>3, SameLedger, OwnStepKeeps
<1> QED
  BY <1>2, <1>3 DEF AttemptFails

\* The events a batch begins with.
LEMMA PrefixFacts ==
  ASSUME NEW b \in Batches, DistinctKeys(b), NEW n \in 0..Len(b)
  PROVE  LET c == SubSeq(b, 1, n)
         IN  /\ c \in Seq(Rows) /\ Len(c) = n /\ DOMAIN c = 1..n
             /\ \A k \in 1..n : c[k] = b[k] /\ k \in 1..Len(b)
             /\ \A j, k \in 1..n : input[c[j]].key = input[c[k]].key => j = k
<1> DEFINE c == SubSeq(b, 1, n)
<1>1. \A k \in 1..n : k \in 1..Len(b) /\ b[k] \in Rows
  BY BatchFacts
<1>2. c \in Seq(Rows) /\ Len(c) = n /\ \A k \in 1..n : c[k] = b[k]
  BY <1>1, BatchFacts, SubSeqProperties
<1>3. DOMAIN c = 1..n
  BY <1>2, LenProperties
<1>4. \A j, k \in 1..n : input[c[j]].key = input[c[k]].key => j = k
  BY <1>1, <1>2, KeysTellPlaces
<1> QED
  BY <1>1, <1>2, <1>3, <1>4

LEMMA ServeLateKeeps == ASSUME IInv, NEW b \in late, ServeLate(b) PROVE IInv'
<1>1. /\ UNCHANGED <<input, status, eventId, pc, batch, attempt, reply>>
      /\ late' = late \ {b}
  BY DEF ServeLate, outbox, relay
<1>2. Sendable(b)
  BY DEF IInv, LateInv
<1>3. /\ ledger' \in [LogicalEvents -> Nat]
      /\ \A e \in LogicalEvents : ledger'[e] \in {0, 1} /\ ledger'[e] >= ledger[e]
  <2>1. CASE UNCHANGED ledger
    BY <2>1, SameLedger DEF IInv, TypeOK
  <2>2. CASE Commit(b)
    <3>1. b \in Seq(Rows) /\ \A j, k \in 1..Len(b) : input[b[j]].key = input[b[k]].key => j = k
      BY <1>2, BatchFacts, KeysTellPlaces DEF Sendable
    <3>2. \A e \in LogicalEvents : ledger'[e] \in {0, 1} /\ ledger'[e] >= ledger[e]
      BY <2>2, <3>1, CommitFacts DEF IInv
    <3> QED
      BY <2>2, <3>2 DEF Commit
  <2> QED
    BY <2>1, <2>2 DEF ServeLate
<1>4. LateInv' /\ Cardinality(late') <= MaxLate
  <2>1. IsFiniteSet(late') /\ Cardinality(late') <= Cardinality(late)
    BY <1>1, FS_Subset DEF IInv, LateInv
  <2>2. Cardinality(late) \in Nat /\ Cardinality(late') \in Nat
    BY <2>1, FS_CardinalityType DEF IInv, LateInv
  <2>3. \A c \in late' : Sendable(c)'
    BY <1>1 DEF IInv, LateInv, Sendable, DistinctKeys, Batches
  <2> QED
    BY <2>1, <2>2, <2>3, EventPublishAssumption DEF IInv, TypeOK, LateInv
<1>5. TypeOK'
  BY <1>1, <1>3, <1>4 DEF IInv, TypeOK
<1>6. Claims'
  <2>1. \A t \in Relays : Sendable(batch[t]) => Sendable(batch[t])'
    BY <1>1 DEF Sendable, DistinctKeys, Batches
  <2>2. \A t \in Relays : batch'[t] = batch[t] /\ ToSet(batch'[t]) = ToSet(batch[t])
    BY <1>1
  <2> QED
    BY <1>1, <2>1, <2>2 DEF IInv, Claims
<1>7. RepliesInv'
  BY <1>1, <1>3, AnswersStay DEF IInv, RepliesInv
<1> QED
  BY <1>3, <1>4, <1>5, <1>6, <1>7 DEF IInv, Once

\* The server's answer to the first n events of a batch.
LEMMA ServeKeeps ==
  ASSUME IInv, NEW r \in Relays, NEW n \in 0..MaxBatch, Serve(r, n)
  PROVE  IInv'
<1> DEFINE b == SubSeq(batch[r], 1, n)
           a == [NoReply EXCEPT !.verdict = "ok", !.receipts = ReceiptsFor(b)]
           full == [a EXCEPT !.accepted = Receipts(a, FALSE), !.duplicates = Receipts(a, TRUE)]
<1>1. /\ pc[r] = "sent" /\ n \in 0..Len(batch[r]) /\ pc' = [pc EXCEPT ![r] = "served"]
      /\ UNCHANGED <<input, status, eventId, batch, attempt, late>>
  BY DEF Serve, outbox
<1>2. batch[r] \in Batches /\ DistinctKeys(batch[r]) /\ Len(batch[r]) \in Nat
  BY <1>1, BatchFacts DEF IInv, Claims, Sendable
<1>3. /\ b \in Seq(Rows) /\ Len(b) = n /\ DOMAIN b = 1..n
      /\ \A k \in 1..n : b[k] = batch[r][k] /\ k \in 1..Len(batch[r]) /\ b[k] \in Rows
      /\ \A j, k \in 1..n : input[b[j]].key = input[b[k]].key => j = k
  BY <1>1, <1>2, PrefixFacts, BatchFacts
<1>4. LateInv' /\ Cardinality(late') <= MaxLate /\ attempt' \in [Relays -> 0..MaxAttempts]
  BY <1>1 DEF IInv, LateInv, TypeOK, Sendable, DistinctKeys, Batches
<1>5. CASE /\ reply' = [reply EXCEPT ![r] = [NoReply EXCEPT !.verdict = "mismatch"]]
           /\ UNCHANGED ledger
  <2>1. reply'[r] = [NoReply EXCEPT !.verdict = "mismatch"]
        /\ DOMAIN reply' = Relays /\ \A t \in Relays \ {r} : reply'[t] = reply[t]
    BY <1>5 DEF IInv, RepliesInv
  <2>2. <<>> \in Seq(Receipt) /\ Len(<<>>) = 0
    BY EmptySeq
  <2>3. reply'[r] \in Reply /\ Len(reply'[r].receipts) = 0
    <3>1. reply'[r] = [verdict |-> "mismatch", receipts |-> <<>>, accepted |-> 0, duplicates |-> 0]
      BY <2>1 DEF NoReply
    <3> QED
      BY <2>2, <3>1 DEF Reply
  <2>4. Genuine(reply[r], batch[r])'
    BY <1>1, <1>2, <2>3 DEF Genuine
  <2>5. ledger' \in [LogicalEvents -> Nat]
    BY <1>5 DEF IInv, TypeOK
  <2> QED
    BY <1>1, <1>4, <1>5, <2>1, <2>4, <2>5, SameLedger, OwnStepKeeps
<1>6. CASE ~Conflict(b) /\ Commit(b) /\ reply' = [reply EXCEPT ![r] = full]
  <2>1. /\ \A e \in LogicalEvents : ledger'[e] \in {0, 1} /\ ledger'[e] >= ledger[e]
        /\ \A k \in 1..n : ledger'[Entry(b[k])] > 0
    BY <1>3, <1>6, CommitFacts DEF IInv
  <2>2. ledger' \in [LogicalEvents -> Nat]
    <3>1. ledger' = [e \in LogicalEvents |-> ledger'[e]]
      BY <1>6 DEF Commit
    <3>2. \A e \in LogicalEvents : ledger'[e] \in Nat
      BY <2>1
    <3> HIDE DEF b
    <3> QED
      BY <3>1, <3>2
  <2>3. ReceiptsFor(b) \in Seq(Receipt) /\ Len(ReceiptsFor(b)) = n
    <3>1. \A k \in 1..n : ReceiptsFor(b)[k] \in Receipt
      <4> SUFFICES ASSUME NEW k \in 1..n PROVE ReceiptsFor(b)[k] \in Receipt
        OBVIOUS
      <4>1. input[b[k]].key \in STRING /\ EventId(input[b[k]].key) \in Rows
        BY <1>3, InputFacts DEF IInv
      <4>2. Known(input[b[k]].key) \in BOOLEAN
        BY DEF Known
      <4> QED
        BY <1>3, <4>1, <4>2 DEF ReceiptsFor, Receipt
    <3>2. ReceiptsFor(b) \in [1..n -> Receipt]
      BY <1>3, <3>1 DEF ReceiptsFor
    <3>3. ReceiptsFor(b) \in Seq(Receipt)
      BY <1>1, <3>2, SeqDef
    <3>4. DOMAIN ReceiptsFor(b) = 1..n /\ DOMAIN ReceiptsFor(b) = 1..Len(ReceiptsFor(b))
          /\ Len(ReceiptsFor(b)) \in Nat
      BY <3>2, <3>3, LenProperties
    <3>5. n \in Nat
      BY <1>1
    <3> QED
      BY <3>3, <3>4, <3>5
  <2>4. Receipts(a, FALSE) \in Nat /\ Receipts(a, TRUE) \in Nat
    <3>1. DOMAIN a.receipts = 1..n
      BY <1>3 DEF ReceiptsFor, NoReply
    <3>2. IsFiniteSet(1..n)
      BY <1>1, FS_Interval
    <3>3. \A d \in BOOLEAN : IsFiniteSet({k \in DOMAIN a.receipts : a.receipts[k].dup = d})
      BY <3>1, <3>2, FS_Subset
    <3> QED
      BY <3>3, FS_CardinalityType DEF Receipts
  <2>5. full \in Reply /\ full.receipts = ReceiptsFor(b)
    BY <2>3, <2>4 DEF Reply, NoReply
  <2>6. /\ reply'[r] = full /\ DOMAIN reply' = Relays
        /\ \A t \in Relays \ {r} : reply'[t] = reply[t]
    BY <1>6 DEF IInv, RepliesInv
  <2>7. Genuine(reply[r], batch[r])'
    <3>1. reply'[r] \in Reply /\ reply'[r].receipts = ReceiptsFor(b)
      BY <2>5, <2>6
    <3>2. \A k \in 1..n : /\ ReceiptsFor(b)[k].key = input[batch[r][k]].key
                          /\ ReceiptsFor(b)[k].id = EventId(input[batch[r][k]].key)
      BY <1>3 DEF ReceiptsFor
    <3>3. \A k \in 1..n : /\ EventId(input[batch[r][k]].key)' = EventId(input[batch[r][k]].key)
                          /\ Present(batch[r][k])'
      BY <1>1, <1>3, <2>1 DEF EventId, Present, Entry
    <3> HIDE DEF b
    <3> QED
      BY <1>1, <2>3, <3>1, <3>2, <3>3 DEF Genuine
  <2> HIDE DEF full
  <2> QED
    BY <1>1, <1>4, <2>1, <2>2, <2>6, <2>7, OwnStepKeeps
<1> QED
  BY <1>5, <1>6 DEF Serve

\* A sequence is a function on a prefix of the positive integers.
LEMMA FunctionIsSeq ==
  ASSUME NEW S, NEW n \in Nat, NEW f \in [1..n -> S]
  PROVE  f \in Seq(S)
BY SeqDef

\* However an answer was garbled: a receipt has a key the server gave, or where its
\* key was replaced it is still at its place; and a positive id is one of a row.
LEMMA GarbledReceipts ==
  ASSUME IInv, NEW g \in Reply, NEW a \in {g} \cup Garbled(g), EventIds(a)
  PROVE  /\ DOMAIN a.receipts = 1..Len(a.receipts)
         /\ \A k \in DOMAIN a.receipts :
              /\ a.receipts[k].id \in Rows
              /\ \E j \in 1..Len(g.receipts) : a.receipts[k].key = g.receipts[j].key \/ j = k
<1> DEFINE s == g.receipts
           Loose == [key : STRING, id : Rows \cup {0}, dup : BOOLEAN]
           T == {Reverse(s)}
                  \cup {Front(s) : k \in DOMAIN s}
                  \cup {Append(s, s[k]) : k \in DOMAIN s}
                  \cup {[s EXCEPT ![k].id = y] : k \in DOMAIN s, y \in Rows \cup {0}}
                  \cup {[s EXCEPT ![k].key = input[x].key] : k \in DOMAIN s, x \in Rows}
<1>1. s \in Seq(Receipt) /\ s \in Seq(Loose) /\ Len(s) \in Nat /\ DOMAIN s = 1..Len(s)
      /\ \A k \in 1..Len(s) : s[k] \in Receipt /\ s[k] \in Loose /\ s[k].id \in Rows
  <2>1. s \in Seq(Receipt)
    BY DEF Reply
  <2>2. Receipt \subseteq Loose
    BY DEF Receipt
  <2>3. Len(s) \in Nat /\ DOMAIN s = 1..Len(s) /\ \A k \in 1..Len(s) : s[k] \in Receipt
    BY <2>1, LenProperties, ElementOfSeq
  <2>4. s \in [1..Len(s) -> Loose]
    BY <2>1, <2>2, <2>3, LenProperties
  <2>5. s \in Seq(Loose)
    <3> HIDE DEF s, Loose
    <3> QED
      BY <2>3, <2>4, FunctionIsSeq
  <2>6. \A k \in 1..Len(s) : s[k].id \in Rows
    BY <2>3 DEF Receipt
  <2> QED
    BY <2>1, <2>2, <2>3, <2>5, <2>6
<1>2. \A t : [g EXCEPT !.receipts = t].receipts = t
  BY DEF Reply
<1>3. [g EXCEPT !.accepted = @ + 1].receipts = s
  BY DEF Reply
<1>4. \/ a = g \/ a = [g EXCEPT !.accepted = @ + 1]
      \/ \E t \in T : a = [g EXCEPT !.receipts = t]
  <2>1. Garbled(g) = {[g EXCEPT !.receipts = t] : t \in T} \cup {[g EXCEPT !.accepted = @ + 1]}
    BY DEF Garbled
  <2> HIDE DEF T
  <2> QED
    BY <2>1
<1> HIDE DEF s, T
<1>5. CASE a.receipts = s
  BY <1>1, <1>5 DEF s
<1>6. CASE a.receipts = Reverse(s)
  <2>1. \A k \in 1..Len(s) : (Len(s) - k) + 1 \in 1..Len(s)
    BY <1>1
  <2>2. Reverse(s) \in [1..Len(s) -> Loose]
    BY <1>1, <2>1 DEF Reverse
  <2>3. Reverse(s) \in Seq(Loose)
    BY <1>1, <2>2, FunctionIsSeq
  <2>4. DOMAIN Reverse(s) = 1..Len(Reverse(s)) /\ DOMAIN Reverse(s) = 1..Len(s)
    BY <2>2, <2>3, LenProperties
  <2>5. \A k \in 1..Len(s) : Reverse(s)[k] = s[(Len(s) - k) + 1]
    BY DEF Reverse
  <2> QED
    BY <1>1, <1>6, <2>1, <2>4, <2>5 DEF s
<1>7. CASE s # <<>> /\ a.receipts = Front(s)
  <2>1. Len(s) # 0
    BY <1>1, <1>7, EmptySeq
  <2>2. Front(s) = SubSeq(s, 1, Len(s) - 1)
    BY DEF Front
  <2>3. Len(s) - 1 \in 0..Len(s) /\ \A k \in 1..Len(s) - 1 : k \in 1..Len(s)
    BY <1>1, <2>1
  <2>4. /\ Front(s) \in Seq(Loose) /\ Len(Front(s)) = Len(s) - 1
        /\ \A k \in 1..Len(s) - 1 : Front(s)[k] = s[k]
    BY <1>1, <2>2, <2>3, SubSeqProperties
  <2>5. DOMAIN Front(s) = 1..Len(s) - 1
    BY <2>4, LenProperties
  <2> QED
    BY <1>1, <1>7, <2>3, <2>4, <2>5 DEF s
<1>8. ASSUME NEW i \in DOMAIN s, a.receipts = Append(s, s[i])
      PROVE  /\ DOMAIN a.receipts = 1..Len(a.receipts)
             /\ \A k \in DOMAIN a.receipts :
                  /\ a.receipts[k].id \in Rows
                  /\ \E j \in 1..Len(s) : a.receipts[k].key = s[j].key \/ j = k
  <2>1. /\ Append(s, s[i]) \in Seq(Loose) /\ Len(Append(s, s[i])) = Len(s) + 1
        /\ \A k \in 1..Len(s) : Append(s, s[i])[k] = s[k]
        /\ Append(s, s[i])[Len(s) + 1] = s[i]
    BY <1>1, AppendProperties
  <2>2. DOMAIN Append(s, s[i]) = 1..Len(s) + 1
    BY <2>1, LenProperties
  <2>3. \A k \in 1..Len(s) + 1 : k \in 1..Len(s) \/ k = Len(s) + 1
    BY <1>1
  <2> QED
    BY <1>1, <1>8, <2>1, <2>2, <2>3
<1>9. ASSUME NEW i \in DOMAIN s, NEW y \in Rows \cup {0}, a.receipts = [s EXCEPT ![i].id = y]
      PROVE  /\ DOMAIN a.receipts = 1..Len(a.receipts)
             /\ \A k \in DOMAIN a.receipts :
                  /\ a.receipts[k].id \in Rows
                  /\ \E j \in 1..Len(s) : a.receipts[k].key = s[j].key \/ j = k
  <2>1. \A k \in 1..Len(s) :
          a.receipts[k] = IF k = i THEN [s[i] EXCEPT !.id = y] ELSE s[k]
    BY <1>1, <1>9
  <2>2. \A k \in 1..Len(s) : a.receipts[k] \in Loose
    BY <1>1, <1>9, <2>1
  <2>3. a.receipts \in [1..Len(s) -> Loose]
    BY <1>1, <1>9, <2>2
  <2>4. a.receipts \in Seq(Loose)
    BY <1>1, <2>3, FunctionIsSeq
  <2>5. DOMAIN a.receipts = 1..Len(a.receipts) /\ DOMAIN a.receipts = 1..Len(s)
    BY <2>3, <2>4, LenProperties
  <2>6. \A k \in 1..Len(s) : a.receipts[k].id \in Rows \cup {0} /\ a.receipts[k].id > 0
    BY <2>2, <2>5 DEF EventIds
  <2>7. \A k \in 1..Len(s) : a.receipts[k].id \in Rows
    BY <2>6
  <2> QED
    BY <2>5, <2>7
<1>10. ASSUME NEW i \in DOMAIN s, NEW x \in Rows, a.receipts = [s EXCEPT ![i].key = input[x].key]
      PROVE  /\ DOMAIN a.receipts = 1..Len(a.receipts)
             /\ \A k \in DOMAIN a.receipts :
                  /\ a.receipts[k].id \in Rows
                  /\ \E j \in 1..Len(s) : a.receipts[k].key = s[j].key \/ j = k
  <2>1. input[x].key \in STRING
    BY InputFacts DEF IInv
  <2>2. \A k \in 1..Len(s) :
          a.receipts[k] = IF k = i THEN [s[i] EXCEPT !.key = input[x].key] ELSE s[k]
    BY <1>1, <1>10
  <2>3. /\ [s[i] EXCEPT !.key = input[x].key] \in Loose
        /\ [s[i] EXCEPT !.key = input[x].key].id = s[i].id
    BY <1>1, <2>1 DEF Receipt
  <2>4. a.receipts \in [1..Len(s) -> Loose]
    BY <1>1, <1>10, <2>2, <2>3
  <2>5. a.receipts \in Seq(Loose)
    BY <1>1, <2>4, FunctionIsSeq
  <2>6. DOMAIN a.receipts = 1..Len(a.receipts) /\ DOMAIN a.receipts = 1..Len(s)
    BY <2>4, <2>5, LenProperties
  <2>7. \A k \in 1..Len(s) : a.receipts[k].id \in Rows
    BY <1>1, <2>2, <2>3 DEF Receipt
  <2> QED
    BY <2>6, <2>7
<1>11. CASE a = g \/ a = [g EXCEPT !.accepted = @ + 1]
  BY <1>3, <1>5, <1>11 DEF s
<1>12. ASSUME NEW t \in T, a = [g EXCEPT !.receipts = t]
       PROVE  /\ DOMAIN a.receipts = 1..Len(a.receipts)
              /\ \A k \in DOMAIN a.receipts :
                   /\ a.receipts[k].id \in Rows
                   /\ \E j \in 1..Len(g.receipts) : a.receipts[k].key = g.receipts[j].key \/ j = k
  <2>1. a.receipts = t
    BY <1>2, <1>12
  <2>2. CASE t = Reverse(s)
    BY <1>6, <2>1, <2>2
  <2>3. CASE t \in {Front(s) : k \in DOMAIN s}
    <3>1. DOMAIN s # {} /\ t = Front(s)
      BY <2>3
    <3>2. s # <<>>
      BY <1>1, <3>1, EmptySeq
    <3>3. s # <<>> /\ a.receipts = Front(s)
      BY <2>1, <3>1, <3>2
    <3> QED
      BY <1>7, <3>3
  <2>4. CASE t \in {Append(s, s[k]) : k \in DOMAIN s}
    BY <1>8, <2>1, <2>4 DEF s
  <2>5. CASE t \in {[s EXCEPT ![k].id = y] : k \in DOMAIN s, y \in Rows \cup {0}}
    BY <1>9, <2>1, <2>5 DEF s
  <2>6. CASE t \in {[s EXCEPT ![k].key = input[x].key] : k \in DOMAIN s, x \in Rows}
    BY <1>10, <2>1, <2>6 DEF s
  <2> QED
    BY <2>2, <2>3, <2>4, <2>5, <2>6 DEF T
<1> QED
  BY <1>4, <1>11, <1>12

\* What passes the checks of the client credits every event of its batch: the key
\* at each place tells which receipt stands there, and that its event is present.
LEMMA AcceptedIsCredited ==
  ASSUME IInv, NEW b, Sendable(b), NEW g, Genuine(g, b),
         NEW a \in {g} \cup Garbled(g), BatchResponse(a, b)
  PROVE  Credited(a, b)
<1>1. /\ g \in Reply /\ Len(g.receipts) <= Len(b) /\ Len(a.receipts) = Len(b)
      /\ InPlace(a, b) /\ EventIds(a)
  BY DEF Genuine, BatchResponse, Complete
<1>2. b \in Batches /\ DistinctKeys(b) /\ DOMAIN b = 1..Len(b) /\ Len(b) \in Nat
  BY BatchFacts DEF Sendable
<1>3. Len(g.receipts) \in Nat
  BY <1>1, LenProperties DEF Reply
<1> SUFFICES ASSUME NEW k \in DOMAIN b
             PROVE  /\ k \in DOMAIN a.receipts
                    /\ a.receipts[k].key = input[b[k]].key
                    /\ a.receipts[k].id \in Rows
                    /\ Present(b[k])
  BY DEF Credited
<1>4. k \in DOMAIN a.receipts /\ k \in 1..Len(b)
  BY <1>1, <1>2, GarbledReceipts
<1>5. PICK j \in 1..Len(g.receipts) : a.receipts[k].key = g.receipts[j].key \/ j = k
  BY <1>1, <1>4, GarbledReceipts
<1>6. g.receipts[j].key = input[b[j]].key /\ Present(b[j]) /\ j \in 1..Len(b)
  BY <1>1, <1>2, <1>3 DEF Genuine
<1>7. a.receipts[k].key = input[b[k]].key
  BY <1>1, <1>4 DEF InPlace
<1>8. j = k
  BY <1>2, <1>4, <1>5, <1>6, <1>7, KeysTellPlaces
<1>9. a.receipts[k].id \in Rows
  BY <1>1, <1>4, GarbledReceipts
<1> QED
  BY <1>4, <1>6, <1>7, <1>8, <1>9

\* An answer: accepted, or its rows let go.
LEMMA ArriveKeeps ==
  ASSUME IInv, NEW r \in Relays, NEW a \in {reply[r]} \cup Garbled(reply[r]), Arrive(r, a)
  PROVE  IInv'
<1>1. pc[r] = "served" /\ UNCHANGED <<input, eventId, late, ledger>>
  BY DEF Arrive
<1>2. LateInv' /\ Cardinality(late') <= MaxLate
  BY <1>1 DEF IInv, LateInv, TypeOK, Sendable, DistinctKeys, Batches
<1>3. CASE Refused(r)
  <2>1. PICK s \in {"quarantined", "alone"} : SetStatus(batch[r], s)
    BY <1>3 DEF Refused, AfterRefusal
  <2> QED
    BY <1>1, <1>2, <1>3, <2>1, LetGoKeeps DEF Refused
<1>4. CASE Unknown(r)
  BY <1>1, <1>2, <1>4, LetGoKeeps DEF Unknown
<1>5. CASE /\ BatchResponse(a, batch[r])
           /\ pc' = [pc EXCEPT ![r] = "receipted"] /\ reply' = [reply EXCEPT ![r] = a]
           /\ UNCHANGED <<status, batch, attempt>>
  <2>1. Sendable(batch[r]) /\ Genuine(reply[r], batch[r])
    BY <1>1 DEF IInv, Claims, RepliesInv
  <2>2. Credited(a, batch[r])
    BY <1>5, <2>1, AcceptedIsCredited
  <2>3. /\ reply'[r] = a /\ DOMAIN reply' = Relays
        /\ \A t \in Relays \ {r} : reply'[t] = reply[t]
    BY <1>5 DEF IInv, RepliesInv
  <2>4. Credited(reply[r], batch[r])'
    BY <1>1, <1>5, <2>2, <2>3 DEF Credited, Present, Entry
  <2>5. ledger' \in [LogicalEvents -> Nat] /\ attempt' \in [Relays -> 0..MaxAttempts]
    BY <1>1, <1>5 DEF IInv, TypeOK
  <2> QED
    BY <1>1, <1>2, <1>5, <2>3, <2>4, <2>5, SameLedger, OwnStepKeeps
<1> QED
  BY <1>3, <1>4, <1>5 DEF Arrive, SingleEventResponse

\* A row is marked with the id at its place, which was given for its key.
LEMMA MarkCredits ==
  ASSUME IInv, NEW r \in Relays, Mark(r), NEW x \in Rows
  PROVE  /\ x \in ToSet(batch[r]) =>
              /\ Present(x) /\ eventId'[x] \in Rows
              /\ \E k \in DOMAIN reply[r].receipts :
                   /\ reply[r].receipts[k].key = input[x].key
                   /\ eventId'[x] = reply[r].receipts[k].id
         /\ x \notin ToSet(batch[r]) => eventId'[x] = eventId[x]
<1> DEFINE b == batch[r]
<1>1. Credited(reply[r], b)
  BY DEF Mark, IInv, RepliesInv
<1>2. CASE x \in ToSet(b)
  <2> DEFINE k == CHOOSE n \in DOMAIN b : b[n] = x
  <2>1. k \in DOMAIN b /\ b[k] = x
    BY <1>2 DEF ToSet
  <2>2. eventId'[x] = IF k \in DOMAIN reply[r].receipts THEN reply[r].receipts[k].id ELSE 0
    BY <1>2 DEF Mark
  <2> HIDE DEF k
  <2>3. /\ k \in DOMAIN reply[r].receipts /\ reply[r].receipts[k].key = input[b[k]].key
        /\ reply[r].receipts[k].id \in Rows /\ Present(b[k])
    BY <1>1, <2>1 DEF Credited
  <2> QED
    BY <1>2, <2>1, <2>2, <2>3
<1>3. CASE x \notin ToSet(b)
  BY <1>3 DEF Mark
<1> QED
  BY <1>2, <1>3

\* The rows of an accepted answer, marked.
LEMMA MarkKeeps == ASSUME IInv, NEW r \in Relays, Mark(r) PROVE IInv'
<1> DEFINE b == batch[r]
<1>1. /\ pc[r] = "receipted" /\ UNCHANGED <<input, late, ledger>>
      /\ SetStatus(b, "delivered")
      /\ pc' = [pc EXCEPT ![r] = "idle"] /\ batch' = [batch EXCEPT ![r] = <<>>]
      /\ attempt' = [attempt EXCEPT ![r] = 0] /\ reply' = [reply EXCEPT ![r] = NoReply]
  BY DEF Mark, Release
<1>2. b \in Batches /\ DOMAIN b = 1..Len(b) /\ \A k \in DOMAIN b : b[k] \in Rows
  BY <1>1, BatchFacts DEF IInv, Claims, Sendable
<1>3. \A x \in Rows : status'[x] = IF x \in ToSet(b) THEN "delivered" ELSE status[x]
  BY <1>1, SetStatusFacts
<1>4. \A x \in Rows : eventId'[x] \in Rows \cup {eventId[x]}
  BY MarkCredits
<1>5. /\ pc'[r] = "idle" /\ batch'[r] = <<>>
      /\ \A t \in Relays \ {r} :
           pc'[t] = pc[t] /\ batch'[t] = batch[t] /\ reply'[t] = reply[t]
  BY <1>1 DEF IInv, TypeOK, RepliesInv
<1> HIDE DEF b
<1>6. TypeOK'
  <2>1. status' \in [Rows -> {"pending", "alone", "claimed", "delivered", "quarantined"}]
    BY <1>1, <1>3 DEF IInv, TypeOK, SetStatus
  <2>2. \A x \in Rows : eventId'[x] \in Rows \cup {0}
    BY <1>4 DEF IInv, TypeOK
  <2>3. eventId' = [x \in Rows |-> eventId'[x]]
    BY DEF Mark
  <2>4. eventId' \in [Rows -> Rows \cup {0}]
    BY <2>2, <2>3
  <2>5. /\ pc' \in [Relays -> {"idle", "sent", "served", "receipted"}]
        /\ batch' \in [Relays -> Batches \cup {<<>>}]
        /\ attempt' \in [Relays -> 0..MaxAttempts]
    BY <1>1, EventPublishAssumption DEF IInv, TypeOK
  <2>6. \A t \in Relays : pc'[t] # "idle" => Len(batch'[t]) <= MaxBatch
    BY <1>5 DEF IInv, TypeOK
  <2> QED
    BY <1>1, <2>1, <2>4, <2>5, <2>6 DEF IInv, TypeOK, LogicalEvents
<1>7. Claims'
  <2>1. ToSet(batch'[r]) = {}
    BY <1>5 DEF ToSet
  <2>2. ASSUME NEW t \in Relays \ {r}
        PROVE  /\ pc'[t] = "idle" => batch'[t] = <<>>
               /\ pc'[t] # "idle" => Sendable(batch[t])'
               /\ ToSet(batch'[t]) = ToSet(batch[t])
               /\ \A x \in ToSet(batch'[t]) : status'[x] = "claimed"
    <3>1. Sendable(batch[t]) => Sendable(batch[t])'
      BY <1>1, <1>5 DEF Sendable, DistinctKeys, Batches
    <3>2. ToSet(batch[t]) \subseteq Rows /\ ToSet(batch[t]) \cap ToSet(b) = {}
      <4>1. ToSet(batch[t]) \subseteq Rows
        BY BatchRows DEF IInv
      <4>2. ToSet(batch[r]) \cap ToSet(batch[t]) = {}
        BY DEF IInv, Claims
      <4> QED
        BY <4>1, <4>2 DEF b
    <3> QED
      BY <1>3, <1>5, <3>1, <3>2 DEF IInv, Claims
  <2> QED
    BY <1>5, <2>1, <2>2 DEF IInv, Claims
<1>8. RepliesInv'
  <2>1. DOMAIN reply' = Relays
    BY <1>1 DEF IInv, RepliesInv
  <2>2. ASSUME NEW t \in Relays \ {r}
        PROVE  /\ pc'[t] = "served" => Genuine(reply[t], batch[t])'
               /\ pc'[t] = "receipted" => Credited(reply[t], batch[t])'
    BY <1>1, <1>5, SameLedger, AnswersStay
  <2> QED
    BY <1>5, <2>1, <2>2 DEF RepliesInv
<1>9. LateInv' /\ Once'
  BY <1>1 DEF IInv, LateInv, Once, LogicalEvents, Sendable, DistinctKeys, Batches
<1> QED
  BY <1>6, <1>7, <1>8, <1>9 DEF IInv

LEMMA NextIInv == IInv /\ [Next]_vars => IInv'
<1> SUFFICES ASSUME IInv, [Next]_vars PROVE IInv'
  OBVIOUS
<1>1. ASSUME NEW r \in Relays, NEW b \in Batches, Publish(r, b) PROVE IInv'
  BY <1>1, PublishKeeps
<1>2. ASSUME NEW r \in Relays, NEW n \in 0..MaxBatch, Serve(r, n) PROVE IInv'
  BY <1>2, ServeKeeps
<1>3. ASSUME NEW r \in Relays, NEW a \in {reply[r]} \cup Garbled(reply[r]), Arrive(r, a)
      PROVE  IInv'
  BY <1>3, ArriveKeeps
<1>4. ASSUME NEW r \in Relays, AttemptFails(r) PROVE IInv'
  BY <1>4, AttemptFailsKeeps
<1>5. ASSUME NEW r \in Relays, Mark(r) PROVE IInv'
  BY <1>5, MarkKeeps
<1>6. ASSUME NEW r \in Relays, Crash(r) PROVE IInv'
  BY <1>6, CrashKeeps
<1>7. ASSUME NEW b \in late, ServeLate(b) PROVE IInv'
  BY <1>7, ServeLateKeeps
<1>8. CASE UNCHANGED vars
  <2>1. UNCHANGED <<input, status, eventId, pc, batch, attempt, reply, late, ledger>>
    BY <1>8 DEF vars, outbox, relay
  <2>2. TypeOK' /\ Once' /\ LateInv'
    BY <2>1 DEF IInv, TypeOK, Once, LateInv, LogicalEvents, Sendable, DistinctKeys, Batches
  <2>3. Claims'
    <3>1. \A t \in Relays : Sendable(batch[t]) => Sendable(batch[t])'
      BY <2>1 DEF Sendable, DistinctKeys, Batches
    <3>2. \A t \in Relays : batch'[t] = batch[t] /\ ToSet(batch'[t]) = ToSet(batch[t])
      BY <2>1
    <3> QED
      BY <2>1, <3>1, <3>2 DEF IInv, Claims
  <2>4. RepliesInv'
    BY <2>1, SameLedger, AnswersStay DEF IInv, RepliesInv
  <2> QED
    BY <2>2, <2>3, <2>4 DEF IInv
<1> QED
  BY <1>1, <1>2, <1>3, <1>4, <1>5, <1>6, <1>7, <1>8 DEF Next

LEMMA SpecIInv == Spec => []IInv
BY InitIInv, NextIInv, PTL DEF Spec
-----------------------------------------------------------------------------
(* Publishing implements Delivery.                                         *)

Delivered == {x \in Rows : status[x] = "delivered"}

\* Only Mark sets a row delivered, and no row once delivered is claimed again.
LEMMA NoneDelivered ==
  ASSUME NEW b, NEW s, s # "delivered", SetStatus(b, s), \A x \in ToSet(b) : status[x] # "delivered"
  PROVE  Delivered' = Delivered
BY SetStatusFacts DEF Delivered

LEMMA RowsUnderWay ==
  ASSUME IInv, NEW r \in Relays
  PROVE  \A x \in ToSet(batch[r]) : status[x] # "delivered"
BY DEF IInv, Claims

\* A step that moves no delivered row and leaves the workspace alone is no
\* step of Delivery.
LEMMA Stutters ==
  ASSUME UNCHANGED <<input, ledger>>, Delivered' = Delivered
  PROVE  UNCHANGED D!vars
<1>1. [x \in Rows |-> Entry(x)]' = [x \in Rows |-> Entry(x)]
  BY DEF Entry
<1> QED
  BY <1>1 DEF D!vars, Delivered

\* What the server commits of a batch, or of the first part of one.
LEMMA CommitImplements ==
  ASSUME IInv, NEW b \in Seq(Rows), Commit(b), UNCHANGED <<input, status>>,
         \A j, k \in 1..Len(b) : input[b[j]].key = input[b[k]].key => j = k
  PROVE  D!Next
<1>1. /\ ledger' = [e \in LogicalEvents |-> IF e \in NewEvents(b) THEN 1 ELSE ledger[e]]
      /\ \A e \in NewEvents(b) : ledger[e] = 0
  BY CommitFacts DEF IInv
<1>2. [x \in Rows |-> Entry(x)]' = [x \in Rows |-> Entry(x)]
  BY DEF Entry
<1>3. D!Commit(NewEvents(b))
  BY <1>1, <1>2 DEF D!Commit
<1>4. NewEvents(b) \in SUBSET LogicalEvents
  BY DEF NewEvents
<1> QED
  BY <1>3, <1>4 DEF D!Next

LEMMA MarkImplements == ASSUME IInv, NEW r \in Relays, Mark(r) PROVE D!Next
<1> DEFINE S == ToSet(batch[r])
<1>1. /\ pc[r] = "receipted" /\ UNCHANGED <<input, ledger>>
      /\ SetStatus(batch[r], "delivered")
  BY DEF Mark
<1>2. batch[r] \in Batches /\ Credited(reply[r], batch[r])
  BY <1>1 DEF IInv, Claims, Sendable, RepliesInv
<1>3. S \subseteq Rows /\ \A x \in S : ledger[Entry(x)] > 0
  BY <1>2, BatchFacts DEF Credited, Present, ToSet
<1>4. \A x \in S : Entry(x) \in LogicalEvents
  BY <1>3, InputFacts DEF IInv
<1>5. \A x \in S : ledger[[y \in Rows |-> Entry(y)][x]] = 1
  BY <1>3, <1>4 DEF IInv, Once
<1>6. {x \in Rows : status'[x] = "delivered"} = {x \in Rows : status[x] = "delivered"} \cup S
  BY <1>1, <1>3, SetStatusFacts
<1>7. [x \in Rows |-> Entry(x)]' = [x \in Rows |-> Entry(x)]
  BY <1>1 DEF Entry
<1>8. D!Deliver(ToSet(batch[r]))
  BY <1>1, <1>5, <1>6, <1>7 DEF D!Deliver
<1>9. ToSet(batch[r]) \in SUBSET Rows
  BY <1>3
<1> QED
  BY <1>8, <1>9 DEF D!Next, D!Deliver

LEMMA NextImplements == IInv /\ [Next]_vars => [D!Next]_(D!vars)
<1> SUFFICES ASSUME IInv, [Next]_vars PROVE D!Next \/ UNCHANGED D!vars
  OBVIOUS
<1>1. ASSUME NEW r \in Relays, NEW s \in {"pending", "alone", "quarantined"},
             SetStatus(batch[r], s), UNCHANGED <<input, ledger>>
      PROVE  UNCHANGED D!vars
  BY <1>1, RowsUnderWay, NoneDelivered, Stutters
<1>2. ASSUME UNCHANGED <<input, status, ledger>> PROVE UNCHANGED D!vars
  BY <1>2, Stutters DEF Delivered
<1>3. ASSUME NEW r \in Relays, NEW b \in Batches, Publish(r, b) PROVE UNCHANGED D!vars
  <2>1. UNCHANGED <<input, ledger>> /\ \A x \in ToSet(b) : status[x] # "delivered"
    BY <1>3 DEF Publish
  <2>2. \E s \in {"claimed", "alone", "quarantined"} : SetStatus(b, s)
    BY <1>3 DEF Publish, AfterRefusal
  <2> QED
    BY <2>1, <2>2, NoneDelivered, Stutters
<1>4. ASSUME NEW r \in Relays, NEW n \in 0..MaxBatch, Serve(r, n)
      PROVE  D!Next \/ UNCHANGED D!vars
  <2>1. /\ pc[r] = "sent" /\ n \in 0..Len(batch[r]) /\ UNCHANGED <<input, status>>
        /\ Commit(SubSeq(batch[r], 1, n)) \/ UNCHANGED ledger
    BY <1>4 DEF Serve, outbox
  <2>2. batch[r] \in Batches /\ DistinctKeys(batch[r])
    BY <2>1 DEF IInv, Claims, Sendable
  <2>3. /\ SubSeq(batch[r], 1, n) \in Seq(Rows) /\ Len(SubSeq(batch[r], 1, n)) = n
        /\ \A j, k \in 1..n :
             input[SubSeq(batch[r], 1, n)[j]].key = input[SubSeq(batch[r], 1, n)[k]].key => j = k
    BY <2>1, <2>2, PrefixFacts
  <2> QED
    BY <1>2, <2>1, <2>3, CommitImplements
<1>5. ASSUME NEW r \in Relays, NEW a, Arrive(r, a) PROVE UNCHANGED D!vars
  <2>1. UNCHANGED <<input, ledger>>
    BY <1>5 DEF Arrive
  <2>2. UNCHANGED status
        \/ \E s \in {"pending", "alone", "quarantined"} : SetStatus(batch[r], s)
    BY <1>5 DEF Arrive, Refused, AfterRefusal, Unknown
  <2> QED
    BY <1>1, <1>2, <2>1, <2>2
<1>6. ASSUME NEW r \in Relays, AttemptFails(r) \/ Crash(r) PROVE UNCHANGED D!vars
  <2>1. UNCHANGED <<input, ledger>>
    BY <1>6 DEF AttemptFails, Crash
  <2>2. UNCHANGED status \/ \E s \in {"pending", "alone"} : SetStatus(batch[r], s)
    BY <1>6 DEF AttemptFails, Crash, Unknown
  <2> QED
    BY <1>1, <1>2, <2>1, <2>2
<1>7. ASSUME NEW b \in late, ServeLate(b) PROVE D!Next \/ UNCHANGED D!vars
  <2>1. Sendable(b)
    BY DEF IInv, LateInv
  <2>2. b \in Seq(Rows) /\ \A j, k \in 1..Len(b) : input[b[j]].key = input[b[k]].key => j = k
    BY <2>1, BatchFacts, KeysTellPlaces DEF Sendable
  <2>3. UNCHANGED <<input, status>> /\ (Commit(b) \/ UNCHANGED ledger)
    BY <1>7 DEF ServeLate, outbox
  <2> QED
    BY <1>2, <2>2, <2>3, CommitImplements
<1>8. CASE UNCHANGED vars
  BY <1>2, <1>8 DEF vars, outbox
<1> QED
  BY <1>3, <1>4, <1>5, <1>6, <1>7, <1>8, MarkImplements DEF Next

LEMMA InitImplements == Init => D!Init
<1> SUFFICES ASSUME Init PROVE D!Init
  OBVIOUS
<1>1. \A x \in Rows : Entry(x) \in LogicalEvents
  BY InitIInv, InputFacts DEF IInv
<1>2. {x \in Rows : status[x] = "delivered"} = {}
  BY DEF Init
<1> QED
  BY <1>1, <1>2 DEF Init, D!Init

-----------------------------------------------------------------------------
(* The theorems.                                                           *)

\* No variable leaves its domain, and no batch on the wire is longer than
\* MAX_INGESTION_BATCH_SIZE.
THEOREM TypeCorrect == Spec => []TypeOK
BY SpecIInv, PTL DEF IInv

\* A row is marked once, while its event is in the workspace, and with the id that
\* the answer to its own request gave for its own key: however the receipts are
\* reordered, cut, repeated or given other keys or ids, batchResponse credits no row
\* with the receipt of another.
THEOREM RowsGetTheirOwnIds == Spec => MarkedWithOwnId
<1> DEFINE
      Given(x) ==
        IF status'[x] = "delivered" /\ status[x] # "delivered"
          THEN /\ ledger[Entry(x)] > 0
               /\ \E r \in Relays : x \in ToSet(batch[r]) /\
                    \E k \in DOMAIN reply[r].receipts :
                      /\ reply[r].receipts[k].key = input[x].key
                      /\ eventId'[x] = reply[r].receipts[k].id
                      /\ eventId'[x] > 0
          ELSE eventId'[x] = eventId[x]
<1>1. ASSUME IInv, [Next]_vars, NEW x \in Rows PROVE Given(x)
  <2>1. CASE \E r \in Relays : Mark(r)
    <3>1. PICK r \in Relays : Mark(r)
      BY <2>1
    <3>2. CASE x \in ToSet(batch[r])
      <4>1. status'[x] = "delivered" /\ status[x] # "delivered"
        BY <1>1, <3>1, <3>2, SetStatusFacts, RowsUnderWay DEF Mark
      <4>2. Present(x) /\ eventId'[x] \in Rows
        BY <1>1, <3>1, <3>2, MarkCredits
      <4>3. \A i \in Rows : i > 0
        BY EventPublishAssumption
      <4>4. eventId'[x] > 0
        BY <4>2, <4>3
      <4> QED
        BY <1>1, <3>1, <3>2, <4>1, <4>2, <4>4, MarkCredits DEF Present
    <3>3. CASE x \notin ToSet(batch[r])
      <4>1. status'[x] = status[x] /\ eventId'[x] = eventId[x]
        BY <1>1, <3>1, <3>3, SetStatusFacts, MarkCredits DEF Mark
      <4> QED
        BY <4>1
    <3> QED
      BY <3>2, <3>3
  <2>2. CASE ~\E r \in Relays : Mark(r)
    <3>1. eventId' = eventId
      BY <1>1, <2>2 DEF Next, Publish, Serve, Arrive, AttemptFails, Crash, ServeLate, outbox, vars
    <3>2. status'[x] = "delivered" => status[x] = "delivered"
      <4>1. ASSUME NEW b, NEW s, s # "delivered", SetStatus(b, s), status'[x] = "delivered"
            PROVE  status[x] = "delivered"
        BY <4>1, SetStatusFacts
      <4>2. \/ status' = status
            \/ \E b : \E s \in {"claimed", "pending", "alone", "quarantined"} : SetStatus(b, s)
        BY <1>1, <2>2 DEF Next, Publish, Serve, Arrive, AttemptFails, Crash, ServeLate, outbox,
                          vars, Refused, AfterRefusal, Unknown
      <4> QED
        BY <4>1, <4>2
    <3> QED
      BY <3>1, <3>2
  <2> QED
    BY <2>1, <2>2
<1>2. IInv /\ [Next]_vars => [\A x \in Rows : Given(x)]_vars
  BY <1>1
<1> QED
  BY <1>2, SpecIInv, PTL DEF Spec, MarkedWithOwnId

\* Publishing with retries, replays, late requests and garbled answers writes
\* no event twice and loses none that was marked.
THEOREM PublishingDeliversOnce == Spec => DeliversOnce
<1>1. Init => D!Init
  BY InitImplements
<1>2. IInv /\ [Next]_vars => [D!Next]_(D!vars)
  BY NextImplements
<1> QED
  BY <1>1, <1>2, SpecIInv, PTL DEF Spec, DeliversOnce, D!Spec

-----------------------------------------------------------------------------
(* No sound row is stranded.                                               *)

\* Whatever is in the workspace came from a row of the outbox.
OwnEvents == \A e \in LogicalEvents : ledger[e] > 0 => \E y \in Rows : Entry(y) = e

\* A claimed row is with the relay that claimed it.
Held == \A x \in Rows : status[x] = "claimed" => \E r \in Relays : x \in ToSet(batch[r])

\* A server that refuses a single row has its key with other content.
JustRefusals ==
  \A r \in Relays :
    pc[r] = "served" /\ reply[r].verdict = "mismatch" /\ Len(batch[r]) = 1 => ~Sound(batch[r][1])

SetAsideInv == \A x \in Rows : Sound(x) => status[x] # "quarantined"

StrandInv == OwnEvents /\ Held /\ JustRefusals /\ SetAsideInv

LEMMA InputStays == ASSUME [Next]_vars PROVE input' = input
BY DEF Next, Publish, Serve, Arrive, AttemptFails, Mark, Crash, ServeLate, vars

\* The workspace changes by commits of rows with different keys.
KeysDiffer(b) == \A j, k \in 1..Len(b) : input[b[j]].key = input[b[k]].key => j = k

LEMMA LedgerSteps ==
  ASSUME IInv, [Next]_vars
  PROVE  UNCHANGED ledger \/ \E b \in Seq(Rows) : Commit(b) /\ KeysDiffer(b)
<1>1. ASSUME NEW r \in Relays, NEW n \in 0..MaxBatch, Serve(r, n), Commit(SubSeq(batch[r], 1, n))
      PROVE  \E b \in Seq(Rows) : Commit(b) /\ KeysDiffer(b)
  <2> DEFINE c == SubSeq(batch[r], 1, n)
  <2>1. batch[r] \in Batches /\ DistinctKeys(batch[r]) /\ n \in 0..Len(batch[r])
    BY <1>1 DEF Serve, IInv, Claims, Sendable
  <2>2. c \in Seq(Rows) /\ KeysDiffer(c)
    BY <2>1, PrefixFacts DEF KeysDiffer
  <2> QED
    BY <1>1, <2>2
<1>2. ASSUME NEW b \in late, Commit(b) PROVE b \in Seq(Rows) /\ KeysDiffer(b)
  <2>1. Sendable(b)
    BY DEF IInv, LateInv
  <2> QED
    BY <2>1, BatchFacts, KeysTellPlaces DEF Sendable, KeysDiffer
<1>3. CASE \E r \in Relays, n \in 0..MaxBatch : Serve(r, n)
  BY <1>1, <1>3 DEF Serve
<1>4. CASE \E b \in late : ServeLate(b)
  BY <1>2, <1>4 DEF ServeLate
<1> QED
  BY <1>3, <1>4 DEF Next, Publish, Arrive, AttemptFails, Mark, Crash, vars

LEMMA OwnEventsStay == ASSUME IInv, OwnEvents, [Next]_vars PROVE OwnEvents'
<1>1. input' = input
  BY InputStays
<1>2. CASE UNCHANGED ledger
  BY <1>1, <1>2 DEF OwnEvents, Entry, LogicalEvents
<1>3. ASSUME NEW b \in Seq(Rows), Commit(b), KeysDiffer(b) PROVE OwnEvents'
  <2>1. ledger' = [e \in LogicalEvents |-> IF e \in NewEvents(b) THEN 1 ELSE ledger[e]]
    BY <1>3, CommitFacts DEF IInv, KeysDiffer
  <2>2. \A e \in NewEvents(b) : \E y \in Rows : Entry(y) = e
    <3>1. \A k \in DOMAIN b : b[k] \in Rows
      BY LenProperties, ElementOfSeq
    <3> QED
      BY <3>1 DEF NewEvents
  <2>3. \A e \in LogicalEvents : ledger'[e] > 0 => \E y \in Rows : Entry(y) = e
    BY <2>1, <2>2 DEF OwnEvents
  <2> QED
    BY <1>1, <2>3 DEF OwnEvents, Entry, LogicalEvents
<1> QED
  BY <1>2, <1>3, LedgerSteps

LEMMA HeldStays == ASSUME IInv, Held, [Next]_vars PROVE Held'
<1> SUFFICES ASSUME NEW x \in Rows, status'[x] = "claimed"
             PROVE  \E r \in Relays : x \in ToSet(batch'[r])
  BY DEF Held
<1>1. ASSUME UNCHANGED <<status, batch>> PROVE \E r \in Relays : x \in ToSet(batch'[r])
  BY <1>1 DEF Held
<1>2. ASSUME NEW r \in Relays, NEW s \in {"pending", "alone", "quarantined", "delivered"},
             SetStatus(batch[r], s), Release(r)
      PROVE  \E t \in Relays : x \in ToSet(batch'[t])
  <2>1. x \notin ToSet(batch[r]) /\ status[x] = "claimed"
    BY <1>2, SetStatusFacts
  <2>2. PICK t \in Relays : x \in ToSet(batch[t])
    BY <2>1 DEF Held
  <2>3. batch'[t] = batch[t]
    BY <1>2, <2>1, <2>2 DEF Release, IInv, TypeOK
  <2> QED
    BY <2>2, <2>3
<1>3. ASSUME NEW r \in Relays, NEW b \in Batches, Publish(r, b)
      PROVE  \E t \in Relays : x \in ToSet(batch'[t])
  <2>1. CASE SetStatus(b, "claimed") /\ batch' = [batch EXCEPT ![r] = b]
    <3>1. batch'[r] = b /\ \A t \in Relays \ {r} : batch'[t] = batch[t]
      BY <2>1 DEF IInv, TypeOK
    <3>2. CASE x \in ToSet(b)
      BY <3>1, <3>2
    <3>3. CASE x \notin ToSet(b)
      <4>1. PICK t \in Relays : x \in ToSet(batch[t])
        BY <2>1, <3>3, SetStatusFacts DEF Held
      <4>2. ToSet(batch[r]) = {}
        BY <1>3 DEF Publish, IInv, Claims, ToSet
      <4> QED
        BY <3>1, <4>1, <4>2
    <3> QED
      BY <3>2, <3>3
  <2>2. CASE AfterRefusal(b) /\ UNCHANGED relay
    <3>1. status[x] = "claimed"
      BY <2>2, SetStatusFacts DEF AfterRefusal
    <3> QED
      BY <2>2, <3>1 DEF Held, relay
  <2> QED
    BY <1>3, <2>1, <2>2 DEF Publish
<1>4. ASSUME NEW r \in Relays, NEW a, Arrive(r, a) PROVE \E t \in Relays : x \in ToSet(batch'[t])
  BY <1>1, <1>2, <1>4 DEF Arrive, Refused, AfterRefusal, Unknown
<1>5. ASSUME NEW r \in Relays, AttemptFails(r) \/ Crash(r)
      PROVE  \E t \in Relays : x \in ToSet(batch'[t])
  BY <1>1, <1>2, <1>5 DEF AttemptFails, Crash, Unknown
<1>6. ASSUME NEW r \in Relays, Mark(r) PROVE \E t \in Relays : x \in ToSet(batch'[t])
  BY <1>2, <1>6 DEF Mark
<1>7. ASSUME NEW r \in Relays, NEW n, Serve(r, n) PROVE \E t \in Relays : x \in ToSet(batch'[t])
  BY <1>1, <1>7 DEF Serve, outbox
<1>8. CASE (\E b \in late : ServeLate(b)) \/ UNCHANGED vars
  BY <1>1, <1>8 DEF ServeLate, outbox, relay, vars
<1> QED
  BY <1>3, <1>4, <1>5, <1>6, <1>7, <1>8 DEF Next

\* A conflict is between two rows of the outbox.
LEMMA RefusedIsUnsound ==
  ASSUME IInv, OwnEvents, NEW b \in Batches, DistinctKeys(b), Len(b) = 1, NEW n \in 0..Len(b),
         Conflict(SubSeq(b, 1, n))
  PROVE  ~Sound(b[1])
<1>1. PICK x \in ToSet(SubSeq(b, 1, n)), e \in LogicalEvents :
        e.key = input[x].key /\ ledger[e] > 0 /\ e.content # input[x].content
  BY DEF Conflict
<1>2. x = b[1]
  BY <1>1, PrefixFacts, BatchFacts DEF ToSet
<1>3. PICK y \in Rows : Entry(y) = e
  BY <1>1 DEF OwnEvents
<1>4. input[y].key = e.key /\ input[y].content = e.content
  BY <1>3, InputFacts DEF IInv
<1> QED
  BY <1>1, <1>2, <1>4 DEF Sound

LEMMA JustRefusalsStay == ASSUME IInv, StrandInv, [Next]_vars PROVE JustRefusals'
<1> SUFFICES ASSUME NEW t \in Relays, pc'[t] = "served", reply'[t].verdict = "mismatch",
                    Len(batch'[t]) = 1
             PROVE  ~Sound(batch[t][1])'
  BY DEF JustRefusals
<1>1. \A z : Sound(z)' = Sound(z)
  BY InputStays DEF Sound
<1>2. ASSUME pc'[t] = pc[t], reply'[t] = reply[t], batch'[t] = batch[t]
      PROVE  ~Sound(batch[t][1])'
  BY <1>1, <1>2 DEF StrandInv, JustRefusals
<1>3. ASSUME NEW r \in Relays, NEW p \in {"idle", "sent", "receipted"},
             pc' = [pc EXCEPT ![r] = p],
             r # t => reply'[t] = reply[t] /\ batch'[t] = batch[t]
      PROVE  ~Sound(batch[t][1])'
  <2>1. r # t /\ pc'[t] = pc[t]
    BY <1>3 DEF IInv, TypeOK
  <2> QED
    BY <1>2, <1>3, <2>1
<1>4. ASSUME NEW r \in Relays, Release(r) PROVE ~Sound(batch[t][1])'
  <2>1. r # t => reply'[t] = reply[t] /\ batch'[t] = batch[t]
    BY <1>4 DEF Release, IInv, TypeOK, RepliesInv
  <2> QED
    BY <1>3, <1>4, <2>1 DEF Release
<1>5. ASSUME NEW r \in Relays, NEW b \in Batches, Publish(r, b) PROVE ~Sound(batch[t][1])'
  <2>1. CASE UNCHANGED relay
    BY <1>2, <2>1 DEF relay
  <2>2. CASE pc' = [pc EXCEPT ![r] = "sent"] /\ batch' = [batch EXCEPT ![r] = b] /\ UNCHANGED reply
    <3>1. r # t => batch'[t] = batch[t]
      BY <2>2 DEF IInv, TypeOK
    <3> QED
      BY <1>3, <2>2, <3>1
  <2> QED
    BY <1>5, <2>1, <2>2 DEF Publish
<1>6. ASSUME NEW r \in Relays, NEW n \in 0..MaxBatch, Serve(r, n) PROVE ~Sound(batch[t][1])'
  <2>1. /\ batch' = batch /\ pc' = [pc EXCEPT ![r] = "served"]
        /\ pc[r] = "sent" /\ n \in 0..Len(batch[r])
    BY <1>6 DEF Serve
  <2>2. CASE r # t
    <3>1. reply'[t] = reply[t] /\ pc'[t] = pc[t]
      BY <1>6, <2>1, <2>2 DEF Serve, IInv, TypeOK, RepliesInv
    <3> QED
      BY <1>2, <2>1, <3>1
  <2>3. CASE r = t
    <3>1. Sendable(batch[t])
      BY <2>1, <2>3 DEF IInv, Claims
    <3>2. Conflict(SubSeq(batch[r], 1, n))
      <4> SUFFICES ASSUME ~Conflict(SubSeq(batch[r], 1, n)) PROVE reply'[t].verdict = "ok"
        OBVIOUS
      <4> DEFINE ok == [NoReply EXCEPT !.verdict = "ok",
                                       !.receipts = ReceiptsFor(SubSeq(batch[r], 1, n))]
      <4>1. reply'[t] = [ok EXCEPT !.accepted = Receipts(ok, FALSE), !.duplicates = Receipts(ok, TRUE)]
        BY <1>6, <2>3 DEF Serve, IInv, RepliesInv
      <4> QED
        BY <4>1 DEF NoReply
    <3> QED
      BY <1>1, <2>1, <2>3, <3>1, <3>2, RefusedIsUnsound DEF Sendable, StrandInv
  <2> QED
    BY <2>2, <2>3
<1>7. ASSUME NEW r \in Relays, NEW a, Arrive(r, a) PROVE ~Sound(batch[t][1])'
  <2>1. CASE Release(r)
    BY <1>4, <2>1
  <2>2. CASE pc' = [pc EXCEPT ![r] = "receipted"] /\ reply' = [reply EXCEPT ![r] = a]
             /\ UNCHANGED batch
    <3>1. r # t => reply'[t] = reply[t]
      BY <2>2 DEF IInv, RepliesInv
    <3> QED
      BY <1>3, <2>2, <3>1
  <2> QED
    BY <1>7, <2>1, <2>2 DEF Arrive, Refused, Unknown
<1>8. ASSUME NEW r \in Relays, AttemptFails(r) \/ Crash(r) \/ Mark(r) PROVE ~Sound(batch[t][1])'
  <2>1. CASE Release(r)
    BY <1>4, <2>1
  <2>2. CASE pc' = [pc EXCEPT ![r] = "sent"] /\ reply' = [reply EXCEPT ![r] = NoReply]
             /\ UNCHANGED batch
    <3>1. r # t => reply'[t] = reply[t]
      BY <2>2 DEF IInv, RepliesInv
    <3> QED
      BY <1>3, <2>2, <3>1
  <2> QED
    BY <1>8, <2>1, <2>2 DEF AttemptFails, Crash, Mark, Unknown
<1>9. CASE (\E b \in late : ServeLate(b)) \/ UNCHANGED vars
  BY <1>2, <1>9 DEF ServeLate, outbox, relay, vars
<1> QED
  BY <1>5, <1>6, <1>7, <1>8, <1>9 DEF Next

\* A single sound row passes every check of the SDK.
LEMMA SoundIsSent ==
  ASSUME IInv, NEW b \in Batches, Len(b) = 1, Sound(b[1]), NEW converts \in Calls(b)
  PROVE  converts /\ Preflight(b)
<1>1. b[1] \in Rows /\ DOMAIN b = 1..1
  BY BatchFacts
<1> DEFINE e == input[b[1]]
<1>2. e.flaw = "none" /\ e.kind \in {"cdc", "audit"} /\ e.form \in {"modern", "legacy"}
  BY <1>1, EventPublishAssumption DEF Sound, IInv, TypeOK
<1>3. CdcRecord(b) /\ AuditRecord(b)
  BY <1>2 DEF CdcRecord, AuditRecord, CdcModernToWire, CdcLegacyToWire, AuditModernToWire,
              AuditLegacyToWire, CdcServerOwned, AuditServerOwned, FieldsConvert,
              PayloadConverts, RawPayload
<1>4. ValidBatchSize(b)
  BY EventPublishAssumption DEF ValidBatchSize
<1>5. DistinctKeys(b)
  BY <1>1 DEF DistinctKeys, IsInjective
<1>6. PreflightPublishCdc(b) /\ PreflightPublishAudit(b)
  BY <1>1, <1>2, <1>4, <1>5 DEF PreflightPublishCdc, PreflightPublishAudit, NonDefault,
                              FieldsConvert, InRange
<1> QED
  BY <1>3, <1>6 DEF Calls, Preflight

LEMMA SetAsideStays == ASSUME IInv, StrandInv, [Next]_vars PROVE SetAsideInv'
<1> SUFFICES ASSUME NEW x \in Rows, Sound(x), status'[x] = "quarantined" PROVE FALSE
  BY InputStays DEF SetAsideInv, Sound
<1>1. status[x] # "quarantined"
  BY DEF StrandInv, SetAsideInv
<1>2. ASSUME NEW b, AfterRefusal(b) PROVE Len(b) = 1 /\ x \in ToSet(b)
  BY <1>1, <1>2, SetStatusFacts DEF AfterRefusal
<1>3. ASSUME NEW b, NEW s, s # "quarantined", SetStatus(b, s) PROVE FALSE
  BY <1>1, <1>3, SetStatusFacts
<1>4. ASSUME NEW b \in Batches, Len(b) = 1, x \in ToSet(b) PROVE x = b[1]
  BY <1>4, BatchFacts DEF ToSet
<1>5. ASSUME NEW r \in Relays, NEW b \in Batches, Publish(r, b) PROVE FALSE
  <2>1. PICK converts \in Calls(b) : \/ converts /\ Preflight(b) /\ SetStatus(b, "claimed")
                                     \/ ~(converts /\ Preflight(b)) /\ AfterRefusal(b)
    BY <1>5 DEF Publish
  <2> QED
    BY <1>2, <1>3, <1>4, <2>1, SoundIsSent
<1>6. ASSUME NEW r \in Relays, NEW a \in {reply[r]} \cup Garbled(reply[r]), Arrive(r, a) PROVE FALSE
  <2>1. pc[r] = "served" /\ a.verdict = "mismatch" /\ AfterRefusal(batch[r])
    BY <1>1, <1>3, <1>6 DEF Arrive, Refused, Unknown
  <2>2. Sendable(batch[r]) /\ reply[r] \in Reply
    BY <2>1 DEF IInv, Claims, RepliesInv, Genuine
  <2>3. a.verdict = reply[r].verdict
    BY <2>2 DEF Garbled, Reply
  <2> QED
    BY <1>2, <1>4, <2>1, <2>2, <2>3 DEF StrandInv, JustRefusals, Sendable
<1>7. ASSUME NEW r \in Relays, AttemptFails(r) \/ Crash(r) \/ Mark(r) PROVE FALSE
  BY <1>1, <1>3, <1>7 DEF AttemptFails, Crash, Mark, Unknown
<1>8. CASE (\E r \in Relays, n \in 0..MaxBatch : Serve(r, n)) \/ (\E b \in late : ServeLate(b))
           \/ UNCHANGED vars
  BY <1>1, <1>8 DEF Serve, ServeLate, outbox, vars
<1> QED
  BY <1>5, <1>6, <1>7, <1>8 DEF Next

\* A row the SDK can publish is never set aside, whatever its batch is refused
\* for, and never forgotten as claimed: it is delivered, it waits to be published,
\* or a relay that is at work on it holds it.  (EveryRowDelivered adds the fairness
\* of the relays and of the network.)
THEOREM SoundRowsAreNotStranded ==
  Spec => [](\A x \in Rows : Sound(x) =>
               \/ status[x] \in {"delivered", "pending", "alone"}
               \/ \E r \in Relays : pc[r] # "idle" /\ x \in ToSet(batch[r]))
<1>1. Init => StrandInv
  BY DEF Init, StrandInv, OwnEvents, Held, JustRefusals, SetAsideInv
<1>2. IInv /\ StrandInv /\ [Next]_vars => StrandInv'
  BY OwnEventsStay, HeldStays, JustRefusalsStay, SetAsideStays DEF StrandInv
<1>3. IInv /\ StrandInv =>
        \A x \in Rows : Sound(x) =>
          \/ status[x] \in {"delivered", "pending", "alone"}
          \/ \E r \in Relays : pc[r] # "idle" /\ x \in ToSet(batch[r])
  <2> SUFFICES ASSUME IInv, StrandInv, NEW x \in Rows, Sound(x),
                      status[x] \notin {"delivered", "pending", "alone"}
               PROVE  \E r \in Relays : pc[r] # "idle" /\ x \in ToSet(batch[r])
    OBVIOUS
  <2>1. status[x] = "claimed"
    BY DEF StrandInv, SetAsideInv, IInv, TypeOK
  <2>2. PICK r \in Relays : x \in ToSet(batch[r])
    BY <2>1 DEF StrandInv, Held
  <2>3. pc[r] # "idle"
    BY <2>2 DEF IInv, Claims, ToSet
  <2> QED
    BY <2>2, <2>3
<1> QED
  BY <1>1, <1>2, <1>3, SpecIInv, PTL DEF Spec
=============================================================================
