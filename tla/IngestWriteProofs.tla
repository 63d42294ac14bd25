------------------------- MODULE IngestWriteProofs -------------------------
(***************************************************************************)
(* Theorems of the idempotent writes, for any set of batches, writers and  *)
(* calls, of an SDK that stamps a copy of the caller's message; the types, *)
(* and what an acknowledgement is worth, for either way of stamping.       *)
(***************************************************************************)
EXTENDS IngestWrite, TLAPS

-----------------------------------------------------------------------------
(* The inductive invariant.  Its heart is that, over all requests ever     *)
(* sent, a request_id and a batch determine each other.                    *)

\* Stamping a copy leaves the kept messages without a request_id.
MessagesInv == \A w \in Writers : message[w] = NoId

\* The request of a call in progress has been sent, and no two calls in
\* progress write one batch.
CallsInv ==
  \A w \in Writers :
    call[w] # Idle =>
      /\ Request(call[w]) \in requests
      /\ outcome[call[w].intent] = "calling"
      /\ \A v \in Writers \ {w} : call[v] # Idle => call[v].intent # call[w].intent

\* One call writes one batch, under its own key or one of its own call, and a
\* batch that is not pinned is written by one call.
RequestsInv ==
  /\ pending \subseteq requests
  /\ \A r \in requests :
       /\ r.call \in 1..calls
       /\ r.intent \in Intents
       /\ outcome[r.intent] # "new"
       /\ r.id \in {PinnedKey(r.intent), <<"fresh", r.call>>}
       /\ r.intent \in Pinned => r.id = PinnedKey(r.intent)
  /\ \A r, s \in requests :
       /\ r.call = s.call => r.intent = s.intent
       /\ r.intent = s.intent => r.id = s.id

\* The ledger holds what requests asked for, one entry for each copy.
LedgerInv ==
  /\ \A e \in ledger : \E r \in requests : r.id = e.id /\ r.intent = e.intent
  /\ copies \in [Intents -> {0, 1}]
  /\ \A i \in Intents : copies[i] = 1 <=> \E e \in ledger : e.intent = i

\* Every answer is "ok" and tells the truth, and so does every acknowledgement.
AnswersInv ==
  /\ \A p \in replies :
       /\ p.verdict = "ok"
       /\ \E r \in requests : r.call = p.call /\ copies[r.intent] = 1
  /\ \A i \in Intents : outcome[i] = "acked" => copies[i] = 1
  /\ NeverMismatched

Domains ==
  /\ calls \in Nat
  /\ DOMAIN call = Writers
  /\ DOMAIN message = Writers
  /\ DOMAIN outcome = Intents

IInv ==
  /\ Domains /\ MessagesInv /\ CallsInv /\ RequestsInv /\ LedgerInv /\ AnswersInv

-----------------------------------------------------------------------------
(* What the invariant says of keys.                                        *)

\* Generated keys of different calls differ.
LEMMA FreshKeysDiffer ==
  ASSUME NEW m, NEW n, <<"fresh", m>> = <<"fresh", n>>
  PROVE  m = n
OBVIOUS

\* A request_id determines the batch it writes.
LEMMA IdDeterminesIntent ==
  ASSUME IInv, NEW r \in requests, NEW s \in requests, r.id = s.id
  PROVE  r.intent = s.intent
<1>1. /\ r.id \in {PinnedKey(r.intent), <<"fresh", r.call>>}
      /\ s.id \in {PinnedKey(s.intent), <<"fresh", s.call>>}
      /\ r.call = s.call => r.intent = s.intent
  BY DEF IInv, RequestsInv
<1>2. CASE r.id = PinnedKey(r.intent)
  BY <1>1, <1>2 DEF PinnedKey
<1>3. CASE r.id = <<"fresh", r.call>>
  BY <1>1, <1>3 DEF PinnedKey
<1> QED
  BY <1>1, <1>2, <1>3

-----------------------------------------------------------------------------
(* The invariant is inductive.                                             *)

LEMMA InitIInv == Init => IInv
BY DEF Init, IInv, Domains, MessagesInv, CallsInv, RequestsInv, LedgerInv,
       AnswersInv, NeverMismatched

\* A call ends with its batch written or of unknown fate.
LEMMA EndCallKeeps ==
  ASSUME IInv, NEW w \in Writers, call[w] # Idle,
         NEW o \in {"acked", "unknown"}, EndCall(w, o),
         o = "acked" => copies[call[w].intent] = 1,
         UNCHANGED <<message, calls, server>>
  PROVE  IInv'
<1> USE DEF IInv, EndCall, network, server
<1>1. PICK r \in requests : r = Request(call[w])
  BY DEF CallsInv
<1>2. call[w].intent \in Intents /\ outcome[call[w].intent] # "new"
  BY <1>1 DEF Request, RequestsInv
<1>3. \A i \in Intents : outcome'[i] = IF i = call[w].intent THEN o ELSE outcome[i]
  BY DEF Domains
<1>4. Domains' /\ MessagesInv'
  BY DEF Domains, MessagesInv
<1>5. CallsInv'
  <2> SUFFICES ASSUME NEW v \in Writers, call'[v] # Idle
               PROVE  /\ Request(call'[v]) \in requests'
                      /\ outcome'[call'[v].intent] = "calling"
                      /\ \A u \in Writers \ {v} :
                           call'[u] # Idle => call'[u].intent # call'[v].intent
    BY DEF CallsInv
  <2>1. v # w /\ call'[v] = call[v] /\ call[v].intent # call[w].intent
    BY DEF Domains, CallsInv
  <2>2. call[v].intent \in Intents
    BY <2>1 DEF CallsInv, Request, RequestsInv
  <2> QED
    BY <1>3, <2>1, <2>2 DEF CallsInv, Domains
<1>6. RequestsInv'
  BY <1>2, <1>3 DEF RequestsInv
<1>7. LedgerInv'
  BY DEF LedgerInv
<1>8. AnswersInv'
  BY <1>3 DEF AnswersInv, NeverMismatched
<1> QED
  BY <1>4, <1>5, <1>6, <1>7, <1>8

\* A new call sends a request under a key no other batch uses.
LEMMA BeginKeeps ==
  ASSUME ~StampInPlace, IInv, NEW w \in Writers, NEW i \in Intents, Begin(w, i)
  PROVE  IInv'
<1> USE DEF IInv
<1>1. PICK id \in {message[w], NoId, PinnedKey(i)} :
        /\ SendFrom(w, [n |-> calls + 1, intent |-> i,
                        id |-> Stamp(id, BatchKey(i)).wire, attempt |-> 1])
        /\ message' = IF id = PinnedKey(i)
                        THEN message
                        ELSE [message EXCEPT ![w] = Stamp(id, BatchKey(i)).message]
  BY DEF Begin
<1> DEFINE wire == Stamp(id, BatchKey(i)).wire
           c == [n |-> calls + 1, intent |-> i, id |-> wire, attempt |-> 1]
           new == Request(c)
<1>2. /\ message[w] = NoId
      /\ PinnedKey(i) # NoId
      /\ id = NoId \/ id = PinnedKey(i)
  BY DEF MessagesInv, PinnedKey, NoId
<1>3. wire = IF id = NoId THEN BatchKey(i) ELSE id
  BY DEF Stamp, TsStamp
<1>4. /\ wire \in {PinnedKey(i), <<"fresh", calls + 1>>}
      /\ i \in Pinned => wire = PinnedKey(i)
  BY <1>2, <1>3 DEF BatchKey
<1>5. /\ new.call = calls + 1
      /\ new.intent = i
      /\ new.id = wire
      /\ requests' = requests \cup {new}
      /\ pending' = pending \cup {new}
      /\ call' = [call EXCEPT ![w] = c]
      /\ UNCHANGED <<replies, ledger, copies>>
      /\ calls' = calls + 1
      /\ outcome' = [outcome EXCEPT ![i] = "calling"]
  BY <1>1 DEF Request, SendFrom, Begin, server
<1> HIDE DEF wire, new
<1>6. Due(i)
  BY DEF Begin
<1>7. \A k \in Intents : outcome'[k] = IF k = i THEN "calling" ELSE outcome[k]
  BY <1>5 DEF Domains
<1>8. Domains'
  <2>1. DOMAIN message' = Writers
    BY <1>1 DEF Domains
  <2> QED
    BY <1>5, <2>1 DEF Domains
<1>9. MessagesInv'
  <2>1. id = NoId => Stamp(id, BatchKey(i)).message = NoId
    BY DEF Stamp, TsStamp
  <2> QED
    BY <1>1, <1>2, <2>1 DEF MessagesInv, Domains
<1>10. CallsInv'
  <2>1. ASSUME NEW v \in Writers, call[v] # Idle
        PROVE  call[v].intent \in Intents \ {i}
    <3>1. Request(call[v]) \in requests /\ outcome[call[v].intent] = "calling"
      BY <2>1 DEF CallsInv
    <3>2. call[v].intent \in Intents
      BY <3>1 DEF Request, RequestsInv
    <3>3. outcome[i] # "calling"
      BY <1>6 DEF Due
    <3> QED
      BY <3>1, <3>2, <3>3
  <2>2. /\ \A v \in Writers \ {w} : call'[v] = call[v]
        /\ call'[w] = c
        /\ c.intent = i
    BY <1>5 DEF Domains
  <2>3. new \in requests'
    BY <1>5
  <2> QED
    BY <1>5, <1>7, <2>1, <2>2, <2>3 DEF CallsInv, new
<1>11. RequestsInv'
  <2>1. \A r \in requests : r.call \in 1..calls /\ r.call # calls + 1
    BY DEF RequestsInv, Domains
  <2>2. \A r \in requests : r.intent = i => r.id = wire
    <3> SUFFICES ASSUME NEW r \in requests, r.intent = i PROVE r.id = wire
      OBVIOUS
    <3>1. i \in Pinned
      BY <1>6 DEF Due, RequestsInv
    <3> QED
      BY <1>4, <3>1 DEF RequestsInv
  <2>3. \A r \in requests' :
          /\ r.call \in 1..calls'
          /\ r.intent \in Intents
          /\ outcome'[r.intent] # "new"
          /\ r.id \in {PinnedKey(r.intent), <<"fresh", r.call>>}
          /\ r.intent \in Pinned => r.id = PinnedKey(r.intent)
    <3> SUFFICES ASSUME NEW r \in requests'
                 PROVE  /\ r.call \in 1..calls'
                        /\ r.intent \in Intents
                        /\ outcome'[r.intent] # "new"
                        /\ r.id \in {PinnedKey(r.intent), <<"fresh", r.call>>}
                        /\ r.intent \in Pinned => r.id = PinnedKey(r.intent)
      OBVIOUS
    <3>1. CASE r \in requests
      BY <1>5, <1>7, <3>1 DEF RequestsInv, Domains
    <3>2. CASE r = new
      BY <1>4, <1>5, <1>7, <3>2 DEF Domains
    <3> QED
      BY <1>5, <3>1, <3>2
  <2>4. \A r, s \in requests' :
          /\ r.call = s.call => r.intent = s.intent
          /\ r.intent = s.intent => r.id = s.id
    BY <1>5, <2>1, <2>2 DEF RequestsInv
  <2> QED
    BY <1>5, <2>3, <2>4 DEF RequestsInv
<1>12. LedgerInv'
  BY <1>5 DEF LedgerInv
<1>13. AnswersInv'
  BY <1>5, <1>7 DEF AnswersInv, NeverMismatched
<1> QED
  BY <1>8, <1>9, <1>10, <1>11, <1>12, <1>13

\* A retry sends the request of its call again under the next attempt number.
LEMMA ResendKeeps ==
  ASSUME IInv, NEW w \in Writers, call[w] # Idle, SendFrom(w, Retried(call[w])),
         UNCHANGED <<outcome, message, calls, server>>
  PROVE  IInv'
<1> USE DEF IInv, server
<1> DEFINE c == Retried(call[w])
           old == Request(call[w])
           new == Request(c)
<1>1. old \in requests
  BY DEF CallsInv
<1>2. new.call = old.call /\ new.intent = old.intent /\ new.id = old.id
  <2>1. c.n = call[w].n /\ c.intent = call[w].intent /\ c.id = call[w].id
    BY DEF Retried
  <2> QED
    BY <2>1 DEF Request
<1>3. /\ requests' = requests \cup {new}
      /\ pending' = pending \cup {new}
      /\ call' = [call EXCEPT ![w] = c]
      /\ replies' = replies
  BY DEF SendFrom
<1> HIDE DEF old, new
<1>4. Domains' /\ MessagesInv'
  BY <1>3 DEF Domains, MessagesInv
<1>5. CallsInv'
  <2>1. c.intent = call[w].intent
    BY DEF Retried
  <2>2. /\ \A v \in Writers \ {w} : call'[v] = call[v]
        /\ call'[w] = c
    BY <1>3 DEF Domains
  <2>3. new \in requests'
    BY <1>3
  <2> HIDE DEF c
  <2> QED
    BY <1>3, <2>1, <2>2, <2>3 DEF CallsInv, new
<1>6. RequestsInv'
  BY <1>1, <1>2, <1>3 DEF RequestsInv
<1>7. LedgerInv'
  BY <1>3 DEF LedgerInv
<1>8. AnswersInv'
  BY <1>3 DEF AnswersInv, NeverMismatched
<1> QED
  BY <1>4, <1>5, <1>6, <1>7, <1>8

\* The server commits or absorbs a request; it never meets a known request_id
\* under other rows.
LEMMA DeliverKeeps ==
  ASSUME IInv, NEW r \in pending, Deliver(r)
  PROVE  /\ IInv'
         /\ copies' = copies \/ (copies[r.intent] = 0
                                 /\ copies' = [copies EXCEPT ![r.intent] = 1])
<1> USE DEF IInv, client
<1>1. /\ r \in requests
      /\ r.intent \in Intents
      /\ UNCHANGED <<message, call, calls, outcome, requests>>
      /\ pending' = pending \ {r}
  BY DEF Deliver, RequestsInv
<1>2. CASE /\ \A e \in ledger : e.id # r.id
           /\ ledger' = ledger \cup {[id |-> r.id, intent |-> r.intent]}
           /\ copies' = [copies EXCEPT ![r.intent] = @ + 1]
           /\ Answer(r, "ok")
  <2>1. \A e \in ledger : e.intent # r.intent
    BY <1>1, <1>2 DEF LedgerInv, RequestsInv
  <2>2. copies[r.intent] = 0 /\ copies' = [copies EXCEPT ![r.intent] = 1]
    <3>1. copies[r.intent] = 0
      BY <1>1, <2>1 DEF LedgerInv
    <3>2. copies[r.intent] + 1 = 1
      BY <3>1
    <3> QED
      BY <1>2, <3>1, <3>2
  <2>3. LedgerInv'
    <3> DEFINE entry == [id |-> r.id, intent |-> r.intent]
    <3>1. entry.id = r.id /\ entry.intent = r.intent /\ ledger' = ledger \cup {entry}
      BY <1>2
    <3> HIDE DEF entry
    <3>2. \A e \in ledger' : \E q \in requests' : q.id = e.id /\ q.intent = e.intent
      BY <1>1, <3>1 DEF LedgerInv
    <3>3. copies' \in [Intents -> {0, 1}]
      BY <2>2 DEF LedgerInv
    <3>4. \A i \in Intents : copies'[i] = 1 <=> \E e \in ledger' : e.intent = i
      BY <2>2, <3>1 DEF LedgerInv
    <3> QED
      BY <3>2, <3>3, <3>4 DEF LedgerInv
  <2>4. AnswersInv'
    <3> DEFINE reply == [call |-> r.call, attempt |-> r.attempt, verdict |-> "ok"]
    <3>1. reply.call = r.call /\ reply.verdict = "ok" /\ replies' = replies \cup {reply}
      BY <1>2 DEF Answer
    <3> HIDE DEF reply
    <3>2. \A i \in Intents : copies[i] = 1 => copies'[i] = 1
      BY <2>2 DEF LedgerInv
    <3>3. copies'[r.intent] = 1
      BY <1>1, <2>2 DEF LedgerInv
    <3>4. \A q \in requests : q.intent \in Intents
      BY DEF RequestsInv
    <3>5. \A p \in replies' :
            /\ p.verdict = "ok"
            /\ \E q \in requests : q.call = p.call /\ copies'[q.intent] = 1
      BY <1>1, <3>1, <3>2, <3>3, <3>4 DEF AnswersInv
    <3> QED
      BY <1>1, <3>2, <3>5 DEF AnswersInv, NeverMismatched
  <2> QED
    BY <1>1, <2>2, <2>3, <2>4 DEF Domains, MessagesInv, CallsInv, RequestsInv
<1>3. CASE \E e \in ledger :
             /\ e.id = r.id
             /\ Answer(r, IF Content[e.intent] = Content[r.intent] THEN "ok"
                                                                   ELSE "mismatch")
             /\ UNCHANGED server
  <2>1. PICK e \in ledger :
          /\ e.id = r.id
          /\ Answer(r, IF Content[e.intent] = Content[r.intent] THEN "ok"
                                                                ELSE "mismatch")
          /\ UNCHANGED <<ledger, copies>>
    BY <1>3 DEF server
  <2>2. e.intent = r.intent
    <3>1. PICK q \in requests : q.id = e.id /\ q.intent = e.intent
      BY DEF LedgerInv
    <3> QED
      BY <1>1, <2>1, <3>1, IdDeterminesIntent
  <2>3. copies[r.intent] = 1
    BY <1>1, <2>2 DEF LedgerInv
  <2> DEFINE reply == [call |-> r.call, attempt |-> r.attempt, verdict |-> "ok"]
  <2>4. reply.call = r.call /\ reply.verdict = "ok" /\ replies' = replies \cup {reply}
    BY <2>1, <2>2 DEF Answer
  <2> HIDE DEF reply
  <2>5. AnswersInv'
    BY <1>1, <2>1, <2>3, <2>4 DEF AnswersInv, NeverMismatched
  <2>6. LedgerInv'
    BY <1>1, <2>1 DEF LedgerInv
  <2> QED
    BY <1>1, <2>1, <2>5, <2>6 DEF Domains, MessagesInv, CallsInv, RequestsInv
<1> QED
  BY <1>2, <1>3 DEF Deliver

\* What an answer tells the call in progress is true.
LEMMA AnswerIsTrue ==
  ASSUME IInv, NEW w \in Writers, NEW verdict \in {"ok", "mismatch"},
         Receive(w, verdict)
  PROVE  /\ verdict = "ok"
         /\ call[w].intent \in Intents
         /\ copies[call[w].intent] = 1
<1> USE DEF IInv
<1> DEFINE reply == [call |-> call[w].n, attempt |-> call[w].attempt,
                     verdict |-> verdict]
<1>1. reply \in replies /\ reply.verdict = verdict /\ reply.call = call[w].n
  BY DEF Receive
<1> HIDE DEF reply
<1>2. PICK q \in requests : q.call = call[w].n /\ copies[q.intent] = 1
  BY <1>1 DEF AnswersInv
<1>3. PICK r \in requests : r.call = call[w].n /\ r.intent = call[w].intent
  <2>1. Request(call[w]) \in requests
    BY DEF Receive, CallsInv
  <2> QED
    BY <2>1 DEF Request
<1> QED
  BY <1>1, <1>2, <1>3 DEF AnswersInv, RequestsInv

LEMMA NextIInv ==
  ASSUME ~StampInPlace, IInv, [Next]_vars
  PROVE  IInv'
<1>1. ASSUME NEW w \in Writers, NEW i \in Intents, Begin(w, i) PROVE IInv'
  BY <1>1, BeginKeeps
<1>2. ASSUME NEW w \in Writers, AttemptFails(w) PROVE IInv'
  BY <1>2, ResendKeeps, EndCallKeeps DEF AttemptFails
<1>3. ASSUME NEW w \in Writers, GiveUp(w) PROVE IInv'
  BY <1>3, EndCallKeeps DEF GiveUp
<1>4. ASSUME NEW w \in Writers, NEW verdict \in {"ok", "mismatch"}, Receive(w, verdict)
      PROVE  IInv'
  <2>1. verdict = "ok" /\ copies[call[w].intent] = 1
    BY <1>4, AnswerIsTrue
  <2> QED
    BY <1>4, <2>1, EndCallKeeps DEF Receive
<1>5. CASE Crash
  <2> USE <1>5 DEF Crash, IInv, network, server
  <2>1. Domains' /\ MessagesInv' /\ CallsInv'
    BY DEF Domains, MessagesInv, CallsInv
  <2>2. RequestsInv'
    BY DEF RequestsInv
  <2>3. LedgerInv'
    BY DEF LedgerInv
  <2>4. AnswersInv'
    BY DEF AnswersInv, NeverMismatched
  <2> QED
    BY <2>1, <2>2, <2>3, <2>4
<1>6. ASSUME NEW r \in pending, Lose(r) PROVE IInv'
  BY <1>6 DEF Lose, IInv, client, server, Domains, MessagesInv, CallsInv,
              RequestsInv, LedgerInv, AnswersInv, NeverMismatched
<1>7. ASSUME NEW r \in pending, Deliver(r) PROVE IInv'
  BY <1>7, DeliverKeeps
<1>8. CASE UNCHANGED vars
  BY <1>8 DEF vars, client, network, server, IInv, Domains, MessagesInv, CallsInv,
              RequestsInv, LedgerInv, AnswersInv, NeverMismatched
<1> QED
  BY <1>1, <1>2, <1>3, <1>4, <1>5, <1>6, <1>7, <1>8 DEF Next

LEMMA SpecIInv == ~StampInPlace => (Spec => []IInv)
<1> SUFFICES ASSUME ~StampInPlace PROVE Spec => []IInv
  OBVIOUS
<1>1. IInv /\ [Next]_vars => IInv'
  BY NextIInv
<1> QED
  BY <1>1, InitIInv, PTL DEF Spec

-----------------------------------------------------------------------------
(* The theorems.                                                           *)

\* An application that gives no two batches one key is never told that a key
\* was used for other rows.
THEOREM NoMismatch == ~StampInPlace => (Spec => []NeverMismatched)
<1>1. IInv => NeverMismatched
  BY DEF IInv, AnswersInv
<1> QED
  BY <1>1, SpecIInv, PTL

\* Calls without a key of the caller's each have a request_id of their own.
THEOREM KeysAreFresh == ~StampInPlace => (Spec => []FreshKeyPerCall)
<1>1. IInv => FreshKeyPerCall
  <2> SUFFICES ASSUME IInv, NEW r \in requests, NEW s \in requests,
                      r.call # s.call, r.id = s.id
               PROVE  \E i \in Intents : r.id = PinnedKey(i)
    BY DEF FreshKeyPerCall
  <2>1. /\ r.id \in {PinnedKey(r.intent), <<"fresh", r.call>>}
        /\ s.id \in {PinnedKey(s.intent), <<"fresh", s.call>>}
        /\ r.intent \in Intents /\ s.intent \in Intents
    BY DEF IInv, RequestsInv
  <2>2. CASE r.id = PinnedKey(r.intent)
    BY <2>1, <2>2
  <2>3. CASE s.id = PinnedKey(s.intent)
    BY <2>1, <2>3
  <2>4. CASE r.id = <<"fresh", r.call>> /\ s.id = <<"fresh", s.call>>
    <3>1. <<"fresh", r.call>> = <<"fresh", s.call>>
      BY <2>4, Zenon
    <3>2. r.call = s.call
      BY <3>1, FreshKeysDiffer
    <3> QED
      BY <3>2
  <2> QED
    BY <2>1, <2>2, <2>3, <2>4
<1> QED
  BY <1>1, SpecIInv, PTL

\* Retries, late requests, lost answers, crashes and replays write no batch
\* twice, and an acknowledged batch is in the table.
THEOREM WritesImplementJournal == ~StampInPlace => (Spec => WrittenOnce)
<1> SUFFICES ASSUME ~StampInPlace PROVE Spec => WrittenOnce
  OBVIOUS
<1> DEFINE acked == {i \in Intents : outcome[i] = "acked"}
<1>1. Init => J!Init
  BY DEF Init, J!Init
<1>2. IInv /\ [Next]_vars => [J!Next]_J!vars
  <2> SUFFICES ASSUME IInv, [Next]_vars
               PROVE  J!Next \/ UNCHANGED <<copies, acked>>
    BY DEF J!vars
  <2>0. DOMAIN outcome = Intents
    BY DEF IInv, Domains
  <2>1. ASSUME NEW w \in Writers, NEW i \in Intents, Begin(w, i)
        PROVE  UNCHANGED <<copies, acked>>
    BY <2>0, <2>1 DEF Begin, Due, server
  <2>2. ASSUME NEW w \in Writers, EndCall(w, "unknown"), call[w] # Idle, UNCHANGED copies
        PROVE  UNCHANGED <<copies, acked>>
    <3>1. outcome[call[w].intent] # "acked"
      BY <2>2 DEF IInv, CallsInv
    <3> QED
      BY <2>0, <2>2, <3>1 DEF EndCall
  <2>3. ASSUME NEW w \in Writers, AttemptFails(w) PROVE UNCHANGED <<copies, acked>>
    BY <2>2, <2>3 DEF AttemptFails, server
  <2>4. ASSUME NEW w \in Writers, GiveUp(w) PROVE UNCHANGED <<copies, acked>>
    BY <2>2, <2>4 DEF GiveUp, server
  <2>5. ASSUME NEW w \in Writers, NEW verdict \in {"ok", "mismatch"}, Receive(w, verdict)
        PROVE  J!Next
    <3>1. verdict = "ok" /\ call[w].intent \in Intents /\ copies[call[w].intent] = 1
      BY <2>5, AnswerIsTrue
    <3>2. outcome' = [outcome EXCEPT ![call[w].intent] = "acked"] /\ UNCHANGED copies
      BY <2>5, <3>1 DEF Receive, EndCall, server
    <3>3. acked' = acked \cup {call[w].intent}
      BY <2>0, <3>1, <3>2
    <3> QED
      BY <3>1, <3>2, <3>3 DEF J!Next, J!Ack
  <2>6. CASE Crash
    BY <2>0, <2>6 DEF Crash, server
  <2>7. ASSUME NEW r \in pending, Lose(r) PROVE UNCHANGED <<copies, acked>>
    BY <2>7 DEF Lose, server
  <2>8. ASSUME NEW r \in pending, Deliver(r) PROVE J!Next \/ UNCHANGED <<copies, acked>>
    <3>1. r.intent \in Intents /\ UNCHANGED outcome
      BY <2>8 DEF Deliver, IInv, RequestsInv
    <3>2. CASE copies' = copies
      BY <3>1, <3>2
    <3>3. CASE copies[r.intent] = 0 /\ copies' = [copies EXCEPT ![r.intent] = 1]
      BY <3>1, <3>3 DEF J!Next, J!Write
    <3> QED
      BY <2>8, <3>2, <3>3, DeliverKeeps
  <2>9. CASE UNCHANGED vars
    BY <2>9 DEF vars, server
  <2> QED
    BY <2>1, <2>3, <2>4, <2>5, <2>6, <2>7, <2>8, <2>9 DEF Next
<1> QED
  BY <1>1, <1>2, SpecIInv, PTL DEF Spec, WrittenOnce, J!Spec

-----------------------------------------------------------------------------
(* Types, however the SDK stamps.                                          *)

Called == [n : 1..MaxCalls, intent : Intents, id : Keys, attempt : 1..MaxAttempts]

\* Whatever the message held, a request leaves with a key, and what is kept
\* of the message is a key or nothing.
LEMMA StampGivesKey ==
  ASSUME NEW id \in Keys \cup {NoId}, NEW key \in Keys
  PROVE  Stamp(id, key).wire \in Keys /\ Stamp(id, key).message \in Keys \cup {NoId}
BY DEF Stamp, GoStamp, TsStamp

\* The key of a new call is one of its batch or of its number.
LEMMA BatchKeyIsKey ==
  ASSUME TypeOK, calls < MaxCalls, NEW i \in Intents
  PROVE  BatchKey(i) \in Keys /\ PinnedKey(i) \in Keys
<1>1. calls + 1 \in 1..MaxCalls
  BY IngestWriteAssumption DEF TypeOK
<1> QED
  BY <1>1 DEF BatchKey, PinnedKey, Keys

\* A call in progress is not the idle one.
LEMMA CallIsCalled ==
  ASSUME TypeOK, NEW w \in Writers, call[w] # Idle
  PROVE  call[w] \in Called
BY DEF TypeOK, Called

LEMMA BeginTypes ==
  ASSUME TypeOK, NEW w \in Writers, NEW i \in Intents, Begin(w, i)
  PROVE  TypeOK'
<1>1. calls + 1 \in 1..MaxCalls /\ calls' = calls + 1 /\ calls' \in 0..MaxCalls
  BY IngestWriteAssumption DEF Begin, TypeOK
<1>2. BatchKey(i) \in Keys /\ PinnedKey(i) \in Keys
  BY BatchKeyIsKey DEF Begin
<1>3. PICK id \in {message[w], NoId, PinnedKey(i)} :
        /\ SendFrom(w, [n |-> calls + 1, intent |-> i,
                        id |-> Stamp(id, BatchKey(i)).wire, attempt |-> 1])
        /\ message' = IF id = PinnedKey(i)
                        THEN message
                        ELSE [message EXCEPT ![w] = Stamp(id, BatchKey(i)).message]
  BY DEF Begin
<1>4. id \in Keys \cup {NoId}
  BY <1>2 DEF TypeOK
<1>5. /\ Stamp(id, BatchKey(i)).wire \in Keys
      /\ Stamp(id, BatchKey(i)).message \in Keys \cup {NoId}
  BY <1>2, <1>4, StampGivesKey
<1> DEFINE c == [n |-> calls + 1, intent |-> i,
                 id |-> Stamp(id, BatchKey(i)).wire, attempt |-> 1]
<1>6. c \in Called /\ Request(c) \in RequestSet
  BY <1>1, <1>5, IngestWriteAssumption DEF Called, Request, RequestSet
<1>7. /\ call' = [call EXCEPT ![w] = c] /\ requests' = requests \cup {Request(c)}
      /\ pending' = pending \cup {Request(c)} /\ UNCHANGED replies
  BY <1>3 DEF SendFrom
<1> HIDE DEF c
<1>8. message' \in [Writers -> Keys \cup {NoId}]
  BY <1>3, <1>5 DEF TypeOK
<1>9. outcome' \in [Intents -> {"new", "calling", "acked", "mismatch", "unknown"}]
  BY DEF Begin, TypeOK
<1> QED
  BY <1>1, <1>6, <1>7, <1>8, <1>9 DEF Begin, TypeOK, Called, server

\* A retry is one more attempt of the same call.
LEMMA RetryTypes ==
  ASSUME TypeOK, NEW w \in Writers, call[w] # Idle, AttemptsLeft(w),
         SendFrom(w, Retried(call[w])), UNCHANGED <<outcome, message, calls, server>>
  PROVE  TypeOK'
<1>1. Retried(call[w]) \in Called
  BY CallIsCalled, IngestWriteAssumption DEF Retried, AttemptsLeft, Called
<1>2. Request(Retried(call[w])) \in RequestSet
  BY <1>1 DEF Called, Request, RequestSet
<1> QED
  BY <1>1, <1>2 DEF SendFrom, TypeOK, Called, server

LEMMA EndTypes ==
  ASSUME TypeOK, NEW w \in Writers, NEW o \in {"acked", "mismatch", "unknown"},
         EndCall(w, o), UNCHANGED <<message, calls, server>>
  PROVE  TypeOK'
BY DEF EndCall, TypeOK, network, server

LEMMA NetworkTypes ==
  ASSUME TypeOK, NEW r \in pending, Lose(r) \/ Deliver(r)
  PROVE  TypeOK'
<1>1. r \in RequestSet
  BY DEF TypeOK
<1>2. CASE Lose(r)
  BY <1>2 DEF Lose, TypeOK, client, server
<1>3. CASE Deliver(r)
  <2>1. replies' \subseteq [call : 1..MaxCalls, attempt : 1..MaxAttempts,
                            verdict : {"ok", "mismatch"}]
    <3>1. ASSUME NEW verdict \in {"ok", "mismatch"}, Answer(r, verdict)
          PROVE  replies' \subseteq [call : 1..MaxCalls, attempt : 1..MaxAttempts,
                                     verdict : {"ok", "mismatch"}]
      BY <1>1, <3>1 DEF Answer, TypeOK, RequestSet
    <3> QED
      BY <1>3, <3>1 DEF Deliver
  <2>2. ledger' \subseteq [id : Keys, intent : Intents] /\ copies' \in [Intents -> Nat]
    BY <1>1, <1>3 DEF Deliver, TypeOK, RequestSet, server
  <2> QED
    BY <1>3, <2>1, <2>2 DEF Deliver, TypeOK, client
<1> QED
  BY <1>2, <1>3

\* No call makes more than MaxAttempts attempts and no request leaves without
\* a request_id, also when the SDK stamps the caller's own message as Go does.
THEOREM TypeCorrect == Spec => []TypeOK
<1>1. Init => TypeOK
  BY IngestWriteAssumption DEF Init, TypeOK
<1>2. TypeOK /\ [Next]_vars => TypeOK'
  <2> SUFFICES ASSUME TypeOK, [Next]_vars PROVE TypeOK'
    OBVIOUS
  <2>1. ASSUME NEW w \in Writers, AttemptFails(w) PROVE TypeOK'
    BY <2>1, RetryTypes, EndTypes DEF AttemptFails
  <2>2. ASSUME NEW w \in Writers, GiveUp(w) PROVE TypeOK'
    BY <2>2, EndTypes DEF GiveUp
  <2>3. ASSUME NEW w \in Writers, NEW verdict \in {"ok", "mismatch"}, Receive(w, verdict)
        PROVE  TypeOK'
    BY <2>3, EndTypes DEF Receive
  <2>4. CASE Crash
    BY <2>4 DEF Crash, TypeOK, network, server
  <2>5. CASE UNCHANGED vars
    BY <2>5 DEF TypeOK, vars, client, network, server
  <2> QED
    BY <2>1, <2>2, <2>3, <2>4, <2>5, BeginTypes, NetworkTypes DEF Next
<1> QED
  BY <1>1, <1>2, PTL DEF Spec

-----------------------------------------------------------------------------
(* What an acknowledgement is worth, however the SDK stamps.  Under Go's   *)
(* stamping a request_id no longer determines the batch, so an             *)
(* acknowledgement may rest on another batch's entry, but never on none.   *)

\* The rows of batch i were committed under a request_id i was sent with.
Backed(i) ==
  \E r \in requests, e \in ledger :
    r.intent = i /\ e.id = r.id /\ Content[e.intent] = Content[i]

AcksAreBacked == \A i \in Intents : outcome[i] = "acked" => Backed(i)

\* The server commits at most once under a request_id.
OneEntryPerId == \A e, f \in ledger : e.id = f.id => e = f

\* A call sends one batch only, and its requests keep its number.
SentInv ==
  /\ \A w \in Writers : call[w] # Idle => Request(call[w]) \in requests
  /\ pending \subseteq requests
  /\ \A r \in requests : r.call \in 1..calls /\ r.intent \in Intents
  /\ \A r, s \in requests : r.call = s.call => r.intent = s.intent

\* An "ok" answers a batch whose rows are there.
OksAreBacked ==
  \A p \in replies :
    p.verdict = "ok" => \E r \in requests : r.call = p.call /\ Backed(r.intent)

EitherInv ==
  /\ Domains /\ SentInv /\ OneEntryPerId /\ OksAreBacked /\ AcksAreBacked

\* Requests and entries are never withdrawn, so what is backed stays backed.
LEMMA BackedStays ==
  ASSUME requests \subseteq requests', ledger \subseteq ledger', NEW i, Backed(i)
  PROVE  Backed(i)'
BY DEF Backed

LEMMA EndCallEither ==
  ASSUME EitherInv, NEW w \in Writers, call[w] # Idle, NEW o, EndCall(w, o),
         o = "acked" => Backed(call[w].intent),
         UNCHANGED <<message, calls, server>>
  PROVE  EitherInv'
<1> USE DEF EitherInv, EndCall, network, server
<1>1. \A i \in Intents : outcome'[i] = IF i = call[w].intent THEN o ELSE outcome[i]
  BY DEF Domains
<1>2. \A i : Backed(i)' <=> Backed(i)
  BY DEF Backed
<1>3. Domains'
  BY DEF Domains
<1>4. SentInv'
  BY DEF SentInv, Domains
<1>5. OneEntryPerId' /\ OksAreBacked'
  BY <1>2 DEF OneEntryPerId, OksAreBacked
<1>6. AcksAreBacked'
  BY <1>1, <1>2 DEF AcksAreBacked
<1> QED
  BY <1>3, <1>4, <1>5, <1>6

\* A new call or a retry adds a request to its own call's.
LEMMA SendEither ==
  ASSUME EitherInv, NEW w \in Writers, NEW c, c.n \in 1..calls', c.intent \in Intents,
         SendFrom(w, c), calls' \in Nat, calls <= calls',
         \A r \in requests : r.call = c.n => r.intent = c.intent,
         DOMAIN message' = Writers, DOMAIN outcome' = Intents,
         \A i \in Intents : outcome'[i] = "acked" => outcome[i] = "acked",
         UNCHANGED server
  PROVE  EitherInv'
<1> USE DEF EitherInv, server
<1> DEFINE new == Request(c)
<1>1. /\ new.call = c.n /\ new.intent = c.intent
      /\ requests' = requests \cup {new} /\ pending' = pending \cup {new}
      /\ call' = [call EXCEPT ![w] = c] /\ replies' = replies
  BY DEF SendFrom, Request
<1>2. \A v \in Writers : call'[v] # Idle => Request(call'[v]) \in requests'
  <2>1. \A v \in Writers \ {w} : call'[v] = call[v]
    BY <1>1
  <2>2. call'[w] = c
    BY <1>1 DEF Domains
  <2> QED
    BY <1>1, <2>1, <2>2 DEF SentInv
<1> HIDE DEF new
<1>3. Domains'
  BY <1>1 DEF Domains
<1>4. \A r \in requests' : r.call \in 1..calls' /\ r.intent \in Intents
  <2>1. \A r \in requests : r.call \in 1..calls'
    BY DEF SentInv, Domains
  <2> QED
    BY <1>1, <2>1 DEF SentInv
<1>5. SentInv'
  BY <1>1, <1>2, <1>4 DEF SentInv
<1>6. \A i : Backed(i) => Backed(i)'
  BY <1>1, BackedStays
<1>7. OneEntryPerId'
  BY DEF OneEntryPerId
<1>8. OksAreBacked'
  BY <1>1, <1>6 DEF OksAreBacked
<1>9. AcksAreBacked'
  BY <1>6 DEF AcksAreBacked
<1> QED
  BY <1>3, <1>5, <1>7, <1>8, <1>9

LEMMA BeginEither ==
  ASSUME EitherInv, NEW w \in Writers, NEW i \in Intents, Begin(w, i)
  PROVE  EitherInv'
<1>1. PICK id \in {message[w], NoId, PinnedKey(i)} :
        /\ SendFrom(w, [n |-> calls + 1, intent |-> i,
                        id |-> Stamp(id, BatchKey(i)).wire, attempt |-> 1])
        /\ message' = IF id = PinnedKey(i)
                        THEN message
                        ELSE [message EXCEPT ![w] = Stamp(id, BatchKey(i)).message]
  BY DEF Begin
<1> DEFINE c == [n |-> calls + 1, intent |-> i,
                 id |-> Stamp(id, BatchKey(i)).wire, attempt |-> 1]
<1>2. c.n = calls + 1 /\ c.intent = i /\ SendFrom(w, c)
  BY <1>1
<1> HIDE DEF c
<1>3. calls' = calls + 1 /\ outcome' = [outcome EXCEPT ![i] = "calling"]
  BY DEF Begin
<1>4. calls \in Nat /\ calls' \in Nat /\ calls <= calls' /\ c.n \in 1..calls'
  BY <1>2, <1>3 DEF EitherInv, Domains
<1>5. \A r \in requests : r.call # c.n
  BY <1>2, <1>4 DEF EitherInv, SentInv
<1>6. DOMAIN message' = Writers
  BY <1>1 DEF EitherInv, Domains
<1>7. /\ DOMAIN outcome' = Intents
      /\ \A k \in Intents : outcome'[k] = "acked" => outcome[k] = "acked"
  BY <1>3 DEF EitherInv, Domains
<1>8. UNCHANGED server
  BY DEF Begin
<1> QED
  BY <1>2, <1>4, <1>5, <1>6, <1>7, <1>8, SendEither

LEMMA ResendEither ==
  ASSUME EitherInv, NEW w \in Writers, call[w] # Idle, SendFrom(w, Retried(call[w])),
         UNCHANGED <<outcome, message, calls, server>>
  PROVE  EitherInv'
<1> DEFINE c == Retried(call[w])
<1>1. c.n = call[w].n /\ c.intent = call[w].intent /\ SendFrom(w, c)
  BY DEF Retried
<1> HIDE DEF c
<1>2. PICK r \in requests : r.call = call[w].n /\ r.intent = call[w].intent
  <2>1. Request(call[w]) \in requests
    BY DEF EitherInv, SentInv
  <2> QED
    BY <2>1 DEF Request
<1>3. /\ c.n \in 1..calls' /\ c.intent \in Intents
      /\ \A s \in requests : s.call = c.n => s.intent = c.intent
  BY <1>1, <1>2 DEF EitherInv, SentInv
<1>4. /\ calls' \in Nat /\ calls <= calls'
      /\ DOMAIN message' = Writers /\ DOMAIN outcome' = Intents
  BY DEF EitherInv, Domains
<1> QED
  BY <1>1, <1>3, <1>4, SendEither

\* The server commits under a new id, or answers by the rows it has under it.
LEMMA DeliverEither ==
  ASSUME EitherInv, NEW r \in pending, Deliver(r)
  PROVE  EitherInv'
<1> USE DEF EitherInv, client
<1>1. /\ r \in requests /\ r.intent \in Intents
      /\ UNCHANGED <<message, call, calls, outcome, requests>>
      /\ pending' = pending \ {r}
  BY DEF Deliver, SentInv
<1>2. Domains' /\ SentInv'
  BY <1>1 DEF Domains, SentInv
<1>3. SUFFICES /\ OneEntryPerId' /\ ledger \subseteq ledger'
               /\ \E verdict : /\ Answer(r, verdict)
                               /\ verdict = "ok" => Backed(r.intent)'
  <2>1. \A i : Backed(i) => Backed(i)'
    BY <1>1, <1>3, BackedStays
  <2>2. AcksAreBacked'
    BY <1>1, <2>1 DEF AcksAreBacked
  <2>3. PICK verdict : Answer(r, verdict) /\ (verdict = "ok" => Backed(r.intent)')
    BY <1>3
  <2> DEFINE reply == [call |-> r.call, attempt |-> r.attempt, verdict |-> verdict]
  <2>4. /\ reply.call = r.call /\ reply.verdict = verdict
        /\ replies' = replies \cup {reply}
    BY <2>3 DEF Answer
  <2> HIDE DEF reply
  <2>5. OksAreBacked'
    BY <1>1, <2>1, <2>3, <2>4 DEF OksAreBacked
  <2> QED
    BY <1>2, <1>3, <2>2, <2>5
<1>4. CASE /\ \A e \in ledger : e.id # r.id
           /\ ledger' = ledger \cup {[id |-> r.id, intent |-> r.intent]}
           /\ Answer(r, "ok")
  <2> DEFINE entry == [id |-> r.id, intent |-> r.intent]
  <2>1. entry.id = r.id /\ entry.intent = r.intent /\ ledger' = ledger \cup {entry}
    BY <1>4
  <2> HIDE DEF entry
  <2>2. OneEntryPerId'
    BY <1>4, <2>1 DEF OneEntryPerId
  <2>3. Backed(r.intent)'
    BY <1>1, <2>1 DEF Backed
  <2> QED
    BY <1>4, <2>1, <2>2, <2>3
<1>5. CASE \E e \in ledger :
             /\ e.id = r.id
             /\ Answer(r, IF Content[e.intent] = Content[r.intent] THEN "ok"
                                                                   ELSE "mismatch")
             /\ UNCHANGED server
  <2>1. PICK e \in ledger :
          /\ e.id = r.id
          /\ Answer(r, IF Content[e.intent] = Content[r.intent] THEN "ok"
                                                                ELSE "mismatch")
          /\ UNCHANGED ledger
    BY <1>5 DEF server
  <2>2. Content[e.intent] = Content[r.intent] => Backed(r.intent)'
    BY <1>1, <2>1 DEF Backed
  <2>3. OneEntryPerId' /\ ledger \subseteq ledger'
    BY <2>1 DEF OneEntryPerId
  <2>4. CASE Content[e.intent] = Content[r.intent]
    BY <2>1, <2>2, <2>3, <2>4
  <2>5. CASE Content[e.intent] # Content[r.intent]
    <3>1. Answer(r, "mismatch")
      BY <2>1, <2>5
    <3> QED
      BY <2>3, <3>1
  <2> QED
    BY <2>4, <2>5
<1> QED
  BY <1>4, <1>5 DEF Deliver

LEMMA NextEither ==
  ASSUME EitherInv, [Next]_vars
  PROVE  EitherInv'
<1>1. ASSUME NEW w \in Writers, AttemptFails(w) PROVE EitherInv'
  BY <1>1, ResendEither, EndCallEither DEF AttemptFails
<1>2. ASSUME NEW w \in Writers, GiveUp(w) PROVE EitherInv'
  BY <1>2, EndCallEither DEF GiveUp
<1>3. ASSUME NEW w \in Writers, NEW verdict \in {"ok", "mismatch"}, Receive(w, verdict)
      PROVE  EitherInv'
  <2> DEFINE reply == [call |-> call[w].n, attempt |-> call[w].attempt,
                       verdict |-> verdict]
  <2>1. reply \in replies /\ reply.verdict = verdict /\ reply.call = call[w].n
    BY <1>3 DEF Receive
  <2> HIDE DEF reply
  <2>2. PICK s \in requests : s.call = call[w].n /\ s.intent = call[w].intent
    <3>1. Request(call[w]) \in requests
      BY <1>3 DEF Receive, EitherInv, SentInv
    <3> QED
      BY <3>1 DEF Request
  <2>3. verdict = "ok" => Backed(call[w].intent)
    BY <2>1, <2>2 DEF EitherInv, OksAreBacked, SentInv
  <2> QED
    BY <1>3, <2>3, EndCallEither DEF Receive
<1>4. CASE Crash
  <2> USE <1>4 DEF Crash, EitherInv, network, server
  <2>1. \A i : Backed(i)' <=> Backed(i)
    BY DEF Backed
  <2>2. Domains' /\ SentInv'
    BY DEF Domains, SentInv
  <2>3. OneEntryPerId' /\ OksAreBacked' /\ AcksAreBacked'
    BY <2>1 DEF OneEntryPerId, OksAreBacked, AcksAreBacked
  <2> QED
    BY <2>2, <2>3
<1>5. ASSUME NEW r \in pending, Lose(r) PROVE EitherInv'
  BY <1>5 DEF Lose, client, server, EitherInv, Domains, SentInv, OneEntryPerId,
              OksAreBacked, AcksAreBacked, Backed
<1>6. CASE UNCHANGED vars
  BY <1>6 DEF vars, client, network, server, EitherInv, Domains, SentInv,
              OneEntryPerId, OksAreBacked, AcksAreBacked, Backed
<1> QED
  BY <1>1, <1>2, <1>3, <1>4, <1>5, <1>6, BeginEither, DeliverEither DEF Next

\* Also of an SDK that stamps the caller's own message, as Go does: a batch
\* the application was told is written has its rows in the table, committed
\* under a request_id it was sent with, and nothing is committed twice under
\* one.  (That it is written under one id only, WritesImplementJournal, needs
\* the copy.)
THEOREM AcksHoldEitherWay == Spec => [](AcksAreBacked /\ OneEntryPerId)
<1>1. Init => EitherInv
  BY DEF Init, EitherInv, Domains, SentInv, OneEntryPerId, OksAreBacked, AcksAreBacked
<1>2. EitherInv /\ [Next]_vars => EitherInv'
  BY NextEither
<1>3. EitherInv => AcksAreBacked /\ OneEntryPerId
  BY DEF EitherInv
<1> QED
  BY <1>1, <1>2, <1>3, PTL DEF Spec
=============================================================================
