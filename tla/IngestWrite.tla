---------------------------- MODULE IngestWrite ----------------------------
(***************************************************************************)
(* The idempotent writes of the ingest client: CreateTable, UpdateTable    *)
(* and AppendRows, which all stamp a batch key into the request_id of the  *)
(* request and send the same bytes until an attempt is answered.  An       *)
(* application drives them from concurrent writers, keeps or rebuilds its  *)
(* request messages, crashes, and replays a batch whose fate it does not   *)
(* know under the key it pinned for it.  The server and the network are    *)
(* external: a request may be lost, refused or arrive long after the       *)
(* client gave it up, and an answer may never come back.                   *)
(***************************************************************************)
EXTENDS Integers

CONSTANTS
  Writers,      \* threads of the application, one call at a time each
  Intents,      \* the batches the application means to write
  Pinned,       \* those it writes under a key of its own
  Content,      \* the rows of each batch; two batches may have equal rows
  StampInPlace, \* does the SDK stamp the caller's message (Go) or a copy (TS)
  MaxAttempts,  \* retry.maxAttempts
  MaxCalls      \* bound: how many calls the application makes

ASSUME IngestWriteAssumption ==
  /\ Pinned \subseteq Intents
  /\ DOMAIN Content = Intents
  /\ StampInPlace \in BOOLEAN
  /\ MaxAttempts \in 1..5
  /\ MaxCalls \in Nat

VARIABLES
  message,   \* the request_id in the message each writer keeps for reuse
  call,      \* the call each writer has in progress
  calls,     \* how many calls were made
  outcome,   \* what the application durably knows of each batch
  requests,  \* every request that was put on the wire (history)
  pending,   \* those that still may reach the server
  replies,   \* the server's answers on their way back
  ledger,    \* the server's deduplication ledger: the entries it committed
  copies     \* how often the rows of each batch are in the table

client == <<message, call, calls>>
network == <<requests, pending, replies>>
server == <<ledger, copies>>
vars == <<client, outcome, network, server>>

-----------------------------------------------------------------------------
(* Keys and stamping.                                                      *)

\* An empty request_id.
NoId == <<"none", 0>>

PinnedKey(i) == <<"pinned", i>>

\* ingestIdempotencyKey: the caller's key or a fresh one; randomUUID never
\* returns the same key twice.
BatchKeyPerIntent(i) == IF i \in Pinned THEN PinnedKey(i) ELSE <<"fresh", 0>>
BatchKey(i) == IF i \in Pinned THEN PinnedKey(i) ELSE <<"fresh", calls + 1>>

Keys == {<<"pinned", i>> : i \in Intents} \cup {<<"fresh", n>> : n \in 1..MaxCalls}

\* TypeScript stamps a copy of the body, and only when it has no request_id.
TsStampInPlace(id, key) ==
  [message |-> IF id = NoId THEN key ELSE id, wire |-> IF id = NoId THEN key ELSE id]
TsStamp(id, key) ==
  [message |-> id, wire |-> IF id = NoId THEN key ELSE id]

\* Go stamps the caller's own message.
GoStamp(id, key) ==
  LET stamped == IF id = NoId THEN key ELSE id
  IN  [message |-> stamped, wire |-> stamped]

Stamp(id, key) == IF StampInPlace THEN GoStamp(id, key) ELSE TsStamp(id, key)

-----------------------------------------------------------------------------
\* No call in progress.
Idle == [n |-> 0, intent |-> NoId, id |-> NoId, attempt |-> 0]

Request(c) ==
  [call |-> c.n, attempt |-> c.attempt, intent |-> c.intent, id |-> c.id]

Init ==
  /\ message = [w \in Writers |-> NoId]
  /\ call = [w \in Writers |-> Idle]
  /\ calls = 0
  /\ outcome = [i \in Intents |-> "new"]
  /\ requests = {}
  /\ pending = {}
  /\ replies = {}
  /\ ledger = {}
  /\ copies = [i \in Intents |-> 0]

SendFrom(w, c) ==
  /\ call' = [call EXCEPT ![w] = c]
  /\ requests' = requests \cup {Request(c)}
  /\ pending' = pending \cup {Request(c)}
  /\ UNCHANGED replies

\* The application writes a batch for the first time, or replays one whose
\* fate it does not know under the key it pinned.
Due(i) == outcome[i] = "new" \/ (i \in Pinned /\ outcome[i] = "unknown")

\* It uses the message it kept, or builds one, with an empty request_id (and
\* keeps it) or with a request_id of its own for this one batch.
Begin(w, i) ==
  /\ call[w] = Idle
  /\ calls < MaxCalls
  /\ Due(i)
  /\ \E id \in {message[w], NoId, PinnedKey(i)} :
       LET stamped == Stamp(id, BatchKey(i))
       IN  /\ SendFrom(w, [n |-> calls + 1, intent |-> i,
                           id |-> stamped.wire, attempt |-> 1])
           /\ message' = IF id = PinnedKey(i)
                           THEN message
                           ELSE [message EXCEPT ![w] = stamped.message]
  /\ calls' = calls + 1
  /\ outcome' = [outcome EXCEPT ![i] = "calling"]
  /\ UNCHANGED server

\* The call of w ends and the application learns o of its batch.
EndCall(w, o) ==
  /\ call' = [call EXCEPT ![w] = Idle]
  /\ outcome' = [outcome EXCEPT ![call[w].intent] = o]
  /\ UNCHANGED network

AttemptsLeftOffByOne(w) == call[w].attempt <= MaxAttempts
AttemptsLeft(w) == call[w].attempt < MaxAttempts

\* A retry repeats the encoded body.
RetriedRestamped(c) == [c EXCEPT !.attempt = @ + 1, !.id = <<"fresh", calls + 1>>]
Retried(c) == [c EXCEPT !.attempt = @ + 1]

\* The connection fails, the answer cannot be read or is a transient error:
\* every ingest call is retrySafe, so it is sent again while attempts are left.
AttemptFails(w) ==
  /\ call[w] # Idle
  /\ \/ /\ AttemptsLeft(w)
        /\ SendFrom(w, Retried(call[w]))
        /\ UNCHANGED outcome
     \/ /\ ~AttemptsLeft(w)
        /\ EndCall(w, "unknown")
  /\ UNCHANGED <<message, calls, server>>

\* The deadline passes, the caller aborts, or the answer is no valid receipt.
GiveUp(w) ==
  /\ call[w] # Idle
  /\ EndCall(w, "unknown")
  /\ UNCHANGED <<message, calls, server>>

\* The answer to the attempt in progress.
Receive(w, verdict) ==
  /\ call[w] # Idle
  /\ [call |-> call[w].n, attempt |-> call[w].attempt, verdict |-> verdict] \in replies
  /\ EndCall(w, IF verdict = "ok" THEN "acked" ELSE "mismatch")
  /\ UNCHANGED <<message, calls, server>>

\* The process dies with its calls and messages and comes back.
Crash ==
  /\ \E w \in Writers : call[w] # Idle
  /\ call' = [w \in Writers |-> Idle]
  /\ message' = [w \in Writers |-> NoId]
  /\ outcome' = [i \in Intents |->
                   IF outcome[i] = "calling" THEN "unknown" ELSE outcome[i]]
  /\ UNCHANGED <<calls, network, server>>

-----------------------------------------------------------------------------
(* The network and the server.                                             *)

\* A request is lost, or refused without effect.
Lose(r) ==
  /\ r \in pending
  /\ pending' = pending \ {r}
  /\ UNCHANGED <<client, outcome, requests, replies, server>>

Answer(r, verdict) ==
  replies' = replies \cup
    {[call |-> r.call, attempt |-> r.attempt, verdict |-> verdict]}

\* A new request_id commits its rows; a known one is absorbed when the rows
\* are the same and refused with IDEMPOTENCY_MISMATCH when they are not.
Deliver(r) ==
  /\ r \in pending
  /\ pending' = pending \ {r}
  /\ \/ /\ \A e \in ledger : e.id # r.id
        /\ ledger' = ledger \cup {[id |-> r.id, intent |-> r.intent]}
        /\ copies' = [copies EXCEPT ![r.intent] = @ + 1]
        /\ Answer(r, "ok")
     \/ \E e \in ledger :
          /\ e.id = r.id
          /\ Answer(r, IF Content[e.intent] = Content[r.intent] THEN "ok"
                                                                ELSE "mismatch")
          /\ UNCHANGED server
  /\ UNCHANGED <<client, outcome, requests>>

Next ==
  \/ \E w \in Writers, i \in Intents : Begin(w, i)
  \/ \E w \in Writers : AttemptFails(w) \/ GiveUp(w)
  \/ \E w \in Writers, verdict \in {"ok", "mismatch"} : Receive(w, verdict)
  \/ Crash
  \/ \E r \in pending : Lose(r) \/ Deliver(r)

Spec == Init /\ [][Next]_vars

-----------------------------------------------------------------------------
(* What the writes promise.                                                *)

RequestSet ==
  [call : 1..MaxCalls, attempt : 1..MaxAttempts, intent : Intents, id : Keys]

\* Every variable stays in its domain: no call makes more than MaxAttempts
\* attempts, no request leaves without a request_id.
TypeOK ==
  /\ message \in [Writers -> Keys \cup {NoId}]
  /\ call \in [Writers ->
                 {Idle} \cup [n : 1..MaxCalls, intent : Intents, id : Keys,
                              attempt : 1..MaxAttempts]]
  /\ calls \in 0..MaxCalls
  /\ outcome \in [Intents -> {"new", "calling", "acked", "mismatch", "unknown"}]
  /\ requests \subseteq RequestSet
  /\ pending \subseteq requests
  /\ replies \subseteq [call : 1..MaxCalls, attempt : 1..MaxAttempts,
                        verdict : {"ok", "mismatch"}]
  /\ ledger \subseteq [id : Keys, intent : Intents]
  /\ copies \in [Intents -> Nat]

\* Retries, late requests, lost answers, crashes and pinned replays write no
\* batch twice, and a batch is acknowledged only when its own rows are in the
\* table: the writes implement Journal.
J == INSTANCE Journal WITH acked <- {i \in Intents : outcome[i] = "acked"}

WrittenOnce == J!Spec

\* No write of an application that never gives two batches one key is refused
\* with IDEMPOTENCY_MISMATCH.
NeverMismatched == \A i \in Intents : outcome[i] # "mismatch"

\* "Without it the SDK generates a fresh key per call": two calls for which
\* the caller gave no key never share a request_id.
FreshKeyPerCall ==
  \A r, s \in requests :
    /\ r.call # s.call
    /\ {r.id, s.id} \cap {PinnedKey(i) : i \in Intents} = {}
    => r.id # s.id
=============================================================================
