# Medallion SDK: TLA+ models, model checking and proofs

The repository holds one SDK three times: TypeScript (`src/`), Go (`go/`) and
Python (`python/src/medallion/`), clients of one Connect/JSON service.  These
modules state what the SDK promises when servers, networks, timers, callers and
processes misbehave, check it with TLC on small instances, and prove the most
important promises with TLAPS for every value of the constants.

## The system

| part | state it keeps | operations | hard behaviour | what makes it correct |
|---|---|---|---|---|
| Transport (`src/request.ts`, `go/request.go`, `python/.../request.py`) | per call: attempt, deadline timer, abort signal, backoff timer, response being read | `requestJson` / `postProtoWithOptions` / `_post` | timers, aborts and answers in any order; truncated bodies; Retry-After; timer limits | bounded attempts, none after a cancellation, no unsafe repeat, Retry-After kept, truthful error, always settles |
| Retry policy (`errors.ts`, `errors.go`, `errors.py` and the generated registry) | none | one decision, written three times | an ErrorInfo with missing, unknown or foreign fields | the three agree; a reason is never overruled by transport metadata |
| Ingest writes (`ingest.ts`, `go/ingest.go`, `tables.py`) | the caller's request message; the batch key | `CreateTable`, `UpdateTable`, `AppendRows` | lost and late requests, lost answers, crash and replay, message reuse by concurrent writers | each batch written at most once, acknowledged only when written, keys fresh per call |
| Queries (`tables.ts`, `tables.py`) | polls made; the result's first page; per iterator its token set and page count | `query`, `rows` | server stays or returns to RUNNING, circular tokens, concurrent iterators | every page read is from an answer that reports success, one walk per result, the loop ends |
| List iterators (`cdc.ts`, `audit.ts`, `tables.ts`, `go/ingestion.go`, `client.py`) | filters, cursor, cursors seen, pages, current page | `iterate` / `Iterate().Next` | circular cursors, empty pages, page limit, pages with an event to refuse, filters edited meanwhile | events in order, from sound pages, along one walk, under one filter but for two exceptions |
| Publishing (`cdc.ts`, `audit.ts`, `ingestion.ts`, `protocol.ts`, `protocol-preflight.ts`, `payload.ts`) | none in the SDK; the application's outbox | `record`, `publishBatch` | partial, reordered or duplicate receipts, crash between publish and mark | a receipt credited only to the row whose key it carries, nothing lost, nothing counted twice |
| Workflows (`workflows.py`) | store capabilities | `store`, `query_store` | none of its own | - |
| Wire, payload, ids, preflight (`protocol*.ts`, `payload.ts`, `ids.ts`, `go/wire.go`, ...) | none | pure conversions and checks | numeric and timestamp edges | - |
| Contract synchronizer (`scripts/sync_external_ingestion_contract.mjs`) | the vendored export, copies put aside, the derived files | sync, check, release check | overlapping runs, failing calls, kills between two renames, altered exports | only published exports are adopted, the last copy is kept, success means a tree that matches |
| Waits and table checks (`request.ts`, `ingest.ts`, `tables.ts` and their ports) | configuration | backoff, Retry-After, poll delay; checks of appends, receipts and query answers | the same rule written two or three times; limits | the ports agree; what is accepted can be confirmed or followed up |
| Client wiring, tracing, other scripts, generated code | configuration | - | - | - |

How they interact.  The clients build a request body and call the transport
with a `retrySafe` flag, a signal and a timeout; the transport asks the retry
policy about every error answer and the clients' loops (polls, pages) call the
transport again for every step.  The signal is shared by reference between the
caller and the call; the request message is shared between the caller and the
client; the first page of a result is shared by all its iterators.  Everything
else passes by value.

PROJECT.json lists the hazards with their lines.  Two have no property: what a
second `RunQuery` does is the server's alone, and Python results promise single
consumption, not thread safety.

## Modules

| module | models | state to code |
|---|---|---|
| `RetryPolicy` | the decision of the three SDKs as operators over an error record | `ReasonPolicy` is the generated table; `IsRetryableConnectError`, `GoRetryable`, `PyIsRetryable` are the three functions |
| `BoundedRetry` | abstract: what one call may put on the wire | - |
| `Dispatch` | `RequestClient.requestJson` and `dispatch` (TypeScript), with `createSignal` and `abortableDelay` | `attempt` and `timeoutMs` are the locals; `aborted` is the controller's signal, `callerAborted` the caller's; `didTimeout` is the closure's flag; `waitFrom`/`waitFor` the timer of `abortableDelay`; `header` the Connect-Timeout-Ms sent; `outcome` the code of the error the caller sees; `notBefore` is a history variable |
| `Journal` | abstract: each batch written at most once, acknowledged only when written | - |
| `IngestWrite` | `#write`, `#rpc` and `ingestIdempotencyKey`, Go's `stampIngestRequestID`, an application with several writers, the network, and the server's ledger | `message` is the caller's request object, `call` what is in the closure of a running call, `outcome` what the application has on disk, `ledger`/`copies` the server |
| `CursorWalk` | abstract: one reading of a paginated answer | - |
| `QueryRead` | `TablesClient.query` and `TableQueryResult.#pages` | `polls`, `latest` are the locals of `query`; `firstPage` is `#firstPage`; `seen`, `pages`, `page` the locals of each generator; `reported`, the states of the answers read, and `walk` are history |
| `Delivery` | abstract: each logical event in the workspace at most once, a row delivered only when its event is there, and then for ever | - |
| `EventPublish` | `CdcClient` and `AuditClient` `record`/`publishBatch` with `preflightConnectRequest`, the request, `batchResponse`; around it an outbox with relays, and the server's event ledger | `pc`, `batch`, `attempt` are a publish under way; `reply` the body that came back; `status`/`eventId` the outbox rows; `late` requests given up; `ledger` the server |
| `EventList` | `iterate` of the CDC, audit and tables clients in TypeScript and Python, Go's `Next`; the checks of the request, the page and each event | `mine`, `seen`, `pages`, `page`, `index` are the iterator's; `asked` is the caller's object; `walk`, `sent`, `out` are history |
| `PortedCall`, `GoTransport`, `PyTransport`, `PortedTransports` | `postProtoWithOptions` with `canWaitForRetry`/`waitForRetry`, and `_post` with `_can_wait`/`_wait`; the last composes them | `attempt`, `deadline`, `delay` are the locals; `ctx` is Go's context or Python's event; `limit` is `http.Client.Timeout`; `allowed`/`opened` the timeout of Python's socket and when it last moved; `lag`, `sends`, `after` are the model's |
| `ContractSync` | `readBundle`, the `validate...` functions, `writeVendoredExport`, `syncContract`, `checkContract`, `checkReleaseContract`, one file-system call a step | `vendor`, `previous`, `derived` are the tree, with `surfaces`, the generated clients, which no run writes; `run[r]` the locals of a process |
| `RetryDelay` | `normalizeRetry`, `backoffDelay`, `retryAfterMs`, `pollDelayMs` and the Go and Python copies, as operators | - |
| `TableChecks` | the checks of appends and their receipts, of query answers and the requests that follow, in TypeScript and Python, as operators | - |
| `MC...` | the small instances for TLC | - |
| `DispatchProofs`, `PortedTransportsProofs`, `IngestWriteProofs`, `QueryReadProofs`, `EventListProofs`, `EventPublishProofs`, `ContractSyncProofs`, `RetryPolicyProofs` | theorems | - |

Composition.  `Dispatch` extends `RetryPolicy` and calls its TypeScript
decision.  `IngestWrite` and `QueryRead` do not run `Dispatch` inside: they use
what it establishes.  A call of `IngestWrite` repeats its encoded bytes at most
`MaxAttempts` times, and may be given up at any moment; a call of `QueryRead`
is answered or fails, which is `CallSettles`.  `EventPublish` does the same:
a request is repeated, given up while still under way, or answered.
`PortedTransports` puts the Go and the Python transport on one clock, caller and
peer, and is held against the same `BoundedRetry` as `Dispatch`; `EventList` and
`QueryRead` against the same `CursorWalk`.  `MCRetryPolicy` puts the three
modules of operators together, and steps through their cases.

### What is abstracted

* A response is a status, a Connect code, whether an ErrorInfo was decoded, its
  domain and reason, and a Retry-After; a body that is unreadable, too large or
  not JSON is an action of its own.
* Letter case is left out of the retry decision: all three fold it (Go also trims).
* Jitter is every delay the rounding in `backoffDelay` can give.
* In `Dispatch` a callback runs only while the call awaits something, a timer
  is late or on time but never early, and timers fire in order of expiry.  Two
  timers due together fire in the order they were armed.
* In `IngestWrite` a response that fails validation is a `GiveUp`: the caller
  gets an error and does not know whether the rows are in.
* The application of `IngestWrite` never pins one key to two batches, and does
  not replay a batch of unknown fate without a key: those break the contract of
  `request_id`, and no client can repair them.
* `Dispatch` refuses a call for its selector or timeout only; the refusals of
  other options, headers and bodies happen at the same place with the same effect.
* The server is external and modelled by the contract the clients rely on
  (`proto/medallion/ingest/v1/ingest.proto`, `request_id`): a new id commits, a
  known one is absorbed with the same rows and refused with others.
* In `QueryRead` and `EventList` a token is the page it leads to; every map from
  pages to tokens, circular ones included, is a server.
* In `EventPublish` and `EventList` an event has one flaw or none, from the
  kinds of flaw the code refuses at different places (a server-owned field, a
  range, an ambiguous payload, a foreign workspace, a bad id, ...).  An answer to
  a publish may have its receipts in another order, cut, doubled, under another
  key, or with no id or any other event's.  The outbox
  is the one `README.md` and `python/README.md` describe; it is external.  Two
  rows with one key and one content stand for one logical event; the ledger
  counts its copies, and the event's id is that of a row with its key.
* `EventList` names an event by its place: the page of the walk, and where on it.
* In `PortedTransports` the program may lag `MaxLag` ticks in all between two
  readings of the clock; a peer sends its body in at most `MaxChunks` pieces.
  `Never` is a limit that is not set.
* In `ContractSync` a content is a name that stands for its sha256, so two
  contents never collide.  Staging directories and temporary files belong to one
  process and are written and renamed in one step; every call on a name that
  processes share is a step of its own, may fail, and may be the last of a
  killed process.  An ended process's id is given to a later one.
* The worklist of `validateDescriptor` is taken turn by turn (`Turn`); the types
  of a message's fields are a set and are pushed in some order, on which the
  theorem about it does not depend.
  What `indexDescriptor` can return, finitely many declared messages, is the
  guard `IndexDescriptor`.
* In `RetryDelay` the random number is its least, middle or greatest value, and
  times are microseconds.  A Retry-After is known by what the libraries make of
  its text: its digits, what `float()` reads, and the dates that `Date.parse`,
  `http.ParseTime` and `parsedate_to_datetime` read, each on its own.  The three
  SDKs' parsers (`TsRetryAfter`, `GoRetryAfter`, `PyRetryAfter`) are written
  apart over these, as in the code; `WellRead` says what the readings of one
  text have in common.
  In `TableChecks` a batch is a number of rows or of bytes.

## Runs

| run | shows | bounds |
|---|---|---|
| `retry_policy` | the rules the SDKs share: the three retry decisions agree once there is a reason (`ReasonsDecideAlike`); only a transient reason of this domain, under its own code, is retried (`ReasonIsNeverOverruled`); each SDK, with its own parser, waits just what a Retry-After in one of HTTP's two forms asks for, and without a legible one keeps the documented schedule; the n-th poll waits as the n-th retry, capped (`WaitsFollowSchedule`); TypeScript and Python take the same appends and receipts but for three named cases (`AppendsAgree`); an accepted query answer can be followed up (`FollowUpIsSound`) | two statuses, every code of the registry, four domains, all reasons and an unknown one; 48 configurations, among them refused ones, one that TypeScript's rounding reaches, and a maximum reached at once, later and never; four attempts; a uint64 of 60 and a longest Duration of 50 s, so that seconds lie on both sides of each and beyond a float; 79 Retry-Afters, in which the libraries read the same date, different ones or none; batches up to one over a limit that, as 16777216, leaves 1 modulo 3; every query answer |
| `retry_policy_fallback` | expected violation, see Findings | same |
| `dispatch` | `TypeOK`, `OutcomeTellsCause`, `RetryAfterHonoured`, `TimeoutHeaderSound`, refinement of `BoundedRetry` (`SendsAreBounded`), `CallSettles` | three attempts, so that a retry can itself be retried or be the last; a timer holds 5 units, with timeouts of 0, 2, 5 and 6 (refused, short, largest, too long) and Retry-After of 0, 2 and 9 (none, within, beyond a timer); time to 7, past every deadline |
| `ingest_write` | `TypeOK`, `NeverMismatched`, `FreshKeyPerCall`, refinement of `Journal` (`WrittenOnce`) | two writers, three batches (one pinned, one with the same rows, one other), three calls of two attempts: a first call, its replay and an unrelated call, each with a late duplicate |
| `ingest_write_go` | expected violation, see Findings | same |
| `query_read` | `TypeOK`, `OnlySucceededIsRead`, refinement of `CursorWalk` (`ResultIsOneWalk`), `QuerySettles` | all 64 token maps over three pages, two iterators, a page limit of 3 that circular walks reach, two polls |
| `event_publish` | `TypeOK`, `MarkedWithOwnId`, refinement of `Delivery` (`DeliversOnce`), `EveryRowDelivered` | two relays, three rows in batches of two (so batches overlap and a row can be alone), two attempts, one request under way after it was given up; outboxes with a legacy, a flawed and a key-sharing row |
| `event_publish_raw` | expected violation, see Findings | same |
| `event_list` | `TypeOK`, `EventsInOrder`, `OnlySoundPages`, `FiltersKept`, refinement of `CursorWalk` (`PagesAreOneWalk`) | all 64 token maps over three pages, which are empty, sound, or hold an event to refuse behind a sound one; a page limit of 3 that circular walks reach; four filters, one with a page size out of range; one edit of the filters |
| `ported_transports` | `TypeOK`, `AtMostOneSendAfterCancel`, `TimeoutIsTrue`, refinement of `BoundedRetry` (`PortsAreBounded`), `NoSendPastDeadline`, `CallSettles` | three attempts in four ticks (six for a Go caller's own deadline, then with the client's limit of four first), delays of none, one and beyond every deadline, a lag of two, enough to cross the deadline after the last check that fitted |
| `python_timeout` | expected violation, see Findings | same |
| `contract_sync` | `TypeOK`, `DescriptorIsClosure`, `LastCopyKept`, `AllGreenMeansWhole`, `OnlyPublishedAdopted`, `AloneVerdict` | two runs that overlap at every call (runs, and process ids, are alike, so the instance is taken modulo their exchange), one failing call and one kill; two published exports with artifacts in common, and twelve that were altered, resealed or must be refused, one for each check; of the generated clients one is clean or exposes a retired scope, the other was never generated |

`CHECK_DEADLOCK FALSE` is set where a run of the system has an end: an
application that made its calls or delivered its rows, a query or an iteration
that ended, a call that reported, a process that exited.  `Dispatch` has a
`Done` step instead.

What `contract_sync` says of the synchronizer, in words: with one failing call
the last copy of the export is kept.  With two (the second rename, and the one
that should undo the first) the `finally` deletes it; `faults <= 1` is
therefore part of `LastCopyKept`.  A kill between the two renames leaves no
vendored export, and a later sync from outside repairs that.  Overlapping syncs
may leave a torn tree, but then one of them has failed.

### Fairness

* `Dispatch.FairSpec`: the loop continues (`Attempt`), time passes (`Tick`),
  timers that are due fire (`BackoffExpires`, `DeadlineFires`), and `fetch` and
  its body stream reject once their signal is aborted (`AbortReachesFetch`),
  which is what the Fetch standard says of the signal `dispatch` hands it.
  Nothing is assumed of the server: it may never answer.  `Tick` stops at
  `Horizon`, which lies beyond every timeout.
* `QueryRead.FairSpec`: each call is answered or fails (the transport settles
  it), the wait between polls ends and the loop runs on.  The iterators get no
  fairness: an application may stop reading at any time.
* `EventPublish.FairSpec`: each relay goes on publishing, and the server, asked
  again and again, in the end takes a request and its answer arrives whole.  It
  is what "delivered in the end" needs of a network; crashes and late requests
  get no fairness.
* `PortedTransports.FairSpec`: time passes, and the program takes the steps it
  can take by itself.  The peer gets none: `CallSettles` holds against a silent
  one, and against one that trickles, because Go's context cuts the attempt and
  both clients stop at `MAX_RESPONSE_BYTES` (`MaxChunks`).

## Findings

* `retry_policy_fallback`: the TypeScript SDK decides by the presence of a
  reason.  An ErrorInfo that names a domain and has no reason is therefore
  judged by the Connect code or HTTP status and may be retried, although
  `test/errors.test.ts:75` says the fallbacks are used "only without ErrorInfo".
  In TLC's trace the domain is the service's own, `medallion.jimtech.io`, and the
  code `unavailable`.  Go refuses it (`go/errors.go:79-82`); Python does as
  TypeScript.
* `ingest_write_go`: Go (and Python) write the generated key into the caller's
  message.  Used for a second call, the message keeps the key of the first,
  although `go/ingest.go:41` says that "the SDK generates a fresh key per call".
* `event_publish_raw`: a legacy record (`AuditRecordInput`, `CdcEventInput`) that
  gives its payload as `payloadJson` alone is refused as ambiguous, because
  `legacyEventToWire` hands `rawOrJsonString` the compatibility payload as well
  (`src/audit.ts:305`, `src/cdc.ts:279`); `src/types.ts:117` documents the field
  as retained, and exclusive only with `payload`.
* `python_timeout`: the timeout of a Python call is given to the socket and
  starts anew with every byte, so a slow peer holds a call past the total
  timeout, which `python/README.md:354-355` says bounds network I/O.

Differences met on the way, stated in the properties that would otherwise fail:

* `ingest.ts:501` compares the size of padded base64 text with the limit on
  Arrow bytes, so TypeScript refuses a batch of exactly 16777216 bytes, which the
  contract (`ingest.proto:185`) and Python allow (`AppendsAgree`).
* TypeScript's low-level `appendRows` takes an empty `rows` beside Arrow bytes,
  and then refuses every receipt that accepts a row; TypeScript refuses receipts
  with negative counts, Python believes them (`AppendsAgree`).
* Go reads a zero backoff or jitter as "not given" and uses 100 ms, 2 s and 0.2;
  in the others zero is zero (`WaitsFollowSchedule`).
* Go's select may start an attempt after a cancellation when its timer is due
  too, and Python looks at its event between attempts only
  (`AtMostOneSendAfterCancel`).  A Python connection that is closed before the
  status line raises an exception of the library, untried and unwrapped.
* A Retry-After that is a number with a fraction or a sign is no wait to Go,
  which backs off; Python takes it if it is not negative (`request.py:652`);
  TypeScript leaves it to `Date.parse` (`request.ts:866`), which may find a date
  in it, and the wait be zero when that date is past.  Seconds beyond the longest
  Duration are that Duration to Go, beyond a uint64 it backs off, and Python does
  beyond a float.  TypeScript rounds its backoff to whole milliseconds
  (`WaitsFollowSchedule`).
* `batchResponse` (`ingestion.ts:91-98`) asks of a receipt the key at its place
  and a positive id.  The id of another event under the right key is accepted, and
  the row is marked with it: no client could tell, and `MarkedWithOwnId` claims no
  more than that the id was given for the row's own key.
* `python/README.md:342` says that "Iterators retain the original workspace and
  filters".  A Go query points to its actor, so an edit of the caller reaches the
  pages still to come; TypeScript's `tables.iterate` reads `input.pageSize` and
  its options again for every page (`tables.ts:241-244`).  The other iterators,
  those of Python among them, keep what they started with (`FiltersKept`).

## Proofs

`DispatchProofs` (for all `MaxAttempts`, delays, timeouts, Retry-After values,
errors and horizons that satisfy `DispatchAssumption`, which is what
`normalizeRetry` and `normalizeTimeout` accept, `MaxTimer` being any positive
number):

* `TypeCorrect`: `TypeOK`.  It is not inductive as it stands; the invariant
  adds what holds at each place of the loop: attempts are made only from the
  top with attempts left, a waiting call has a positive armed delay, a call
  that has begun has an accepted timeout.
* `OutcomesTellTheirCause`: needs that `didTimeout` implies `aborted`, that the
  timer fired no earlier than the deadline (the accepted timeout fits a timer),
  and that a settled outcome is never changed.
* `RetryAfterIsHonoured`: needs that a call at the top of the loop is past
  `notBefore`, and that a waiting call either wakes no earlier than
  that, or waits for a timer's whole range, in which case the deadline's timer
  is first and the wait ends in an abort.
* `TimeoutHeaderIsSound`: needs an accepted timeout, and that the first attempt
  is made at time 0 (time does not pass between `Start` and `Attempt`).
* `TransportImplementsBoundedRetry`: initial states map to initial states and
  every step to a step of `BoundedRetry` or a stutter.
* `CallNearsItsEnd`, the safety side of `CallSettles`: every step but the passing
  of time lowers `StepsLeft`, a natural number, and a call past its deadline that
  has not settled always has a step due, whatever the server does.

`IngestWriteProofs` (for all sets of writers and batches, all contents, any
number of calls and attempts; all but the last two theorems under `~StampInPlace`, the
TypeScript way of stamping; the run `ingest_write_go` shows the assumption is
needed):

* the invariant says that a key names one batch: every request ever sent, every
  call and every ledger entry with a pinned key is for the batch that pinned it,
  a fresh key is the number of its call, calls are numbered once, and a kept
  message holds no key;
* `NoMismatch`, `KeysAreFresh` and `WritesImplementJournal` follow from it.

Two theorems of that module hold for either way of stamping: `TypeCorrect`, and
`AcksHoldEitherWay`, which is what Go keeps: a batch that was acknowledged has its
rows in the table, under a `request_id` it was sent with, and the server commits
once under each.  Its invariant, `EitherInv`, ties a call's number to one batch
and an "ok" to an entry with the batch's content; that an id names one batch is
what stamping in place loses.

`QueryReadProofs` (for any number of iterators and pages, any set of token
maps, any poll and page limit):

* the invariant says that the first page has one taker and none while the result
  still holds it; that the taker stands where the walk does (it holds the last
  page handed out, or has asked for the page its token leads to) and has seen
  just the tokens that were followed.  `ResultIsOneWalk` needs the first part: without it two iterators
  could each append to `walk`, and no walk along the tokens would come of it;
* `OnlySucceededResults` also needs `ReportedInv`: the answers read are as many
  as the pages handed out as long as the taker goes on, and a reading that met an
  answer of another state is broken and stays so (`BrokenStays`).  Take
  `requireSucceeded` out of the later pages and the step of `PageArrives` fails;
* `TypeCorrect` and `OneResultIsOneWalk` follow.  In the
  last one a step of the taker is `HandOut`, `Complete` or `Break`, and a step of
  `query` or of an iterator that came too late is a stutter;
* `CirclesAreLeft`: the tokens along a walk differ (`TokensDiffer`, which is
  inductive because the taker has seen just those it followed), so by the
  pigeonhole principle a walk has at most `Pages + 1` pages, whatever the page
  limit and whatever circles the tokens make;
* `QueryNearsItsEnd`, the safety side of `QuerySettles`: each step of `query`
  lowers `StepsLeft`.

`PortedTransportsProofs` (for either port, any `MaxAttempts`, deadline, client
limit, backoff, lag and number of chunks, under `PortedCallAssumption`):

* the invariant counts: `sends` is the attempt, or one less until it leaves; a
  call plans another attempt only when it is safe and one is left.  `CancelInv`
  says that no request has left after a cancellation that was already looked
  for, which makes "at most one" inductive (`OneSendAfterCancel`).  `ContextInv`
  ties Go's context to the deadline, `SocketInv` bounds how long Python's socket
  may stay quiet; `TimeoutsAreTrue` and `SendsInTime` need both;
* `GoTimeoutBoundsIO` is the promise that `python_timeout` refutes for Python:
  the proof goes through because Go's context cuts the attempt at the deadline,
  and each tick finds it still live;
* `PortsImplementBoundedRetry`: both ports keep what `Dispatch` keeps;
* `CallNearsItsEnd`, the safety side of `CallSettles`: every step of the program
  or of the peer lowers the pair `WayLeft`, `ChunksLeft`, and a call that is not
  done has a step due or waits for a moment that is set (`WaitEnds`).  For Go
  that moment is never past the deadline; for Python it can be, which is the
  finding `python_timeout` once more.

`EventListProofs` (for any pages, token maps, contents, filters, edits and page
limit, every SDK and list):

* the invariant says that the iterator is on the walk (it holds the last page
  that arrived, or has asked for the one its token leads to; the tokens seen are
  those followed), that every page of the walk passed its check when it came,
  and that what was handed out is exactly the pages before the last and the
  first `index` events of the last, in order.  `EventsInOrder` is not inductive
  without the last part, which says what is still to come;
* `SoundPagesOnly` follows because a page is checked whole before its first
  event is out; `FiltersAreKept` because requests carry the copy of the filters
  the iterator holds.  It excepts Go's actor and TypeScript's tables (see
  Findings), of which it says that a request carries one state of the caller's object;
* `IterationIsOneWalk`: the same `CursorWalk` as the query results;
* `CirclesAreLeft`, as for the query results, and `IterationNearsItsEnd`: every
  step of an iterator lowers the pair of the pages and the events it has left.

`EventPublishProofs` (for any finite set of rows, any relays and outbox, any
batch and attempt limits, any requests still under way):

* the invariant says that a row under way is claimed, by one relay; that a batch
  sent names no key twice; that the server's answer is `Genuine` (receipts for a
  prefix of the batch, each for an event that is in the ledger) until the SDK
  has looked at it, and `Credited` (for each row, at its place, an id given under the
  row's key) after `batchResponse` took it; and that a delivered row is in the
  ledger.  The step from `Genuine`, garbled in any of the ways of
  `Garbled`, to `Credited` is what `batchResponse` is for: drop its check of the
  keys or of the number of receipts and that step fails;
* `RowsGetTheirOwnIds` and `PublishingDeliversOnce` follow.  The first says
  under which key and from which answer a row got its id, not that the server gave
  the right one (see Findings);
* `SoundRowsAreNotStranded`, the safety side of `EveryRowDelivered`: `StrandInv`
  says that every event of the ledger is that of some row, that the server only
  refuses a row sent alone whose key stands for other content, that a claimed row
  is in the batch of a relay, and that no sound row was ever set aside.  TLC checked it on the instance of
  `event_publish` before it was proved.

`ContractSyncProofs` (for any number of runs and process ids, any exports, any
number of faults and kills):

* `BaseInv`: the tree holds exports only, whole or none; a run past the
  validation holds files that, put together, are an export which `readBundle`
  and the validation accept, whatever was swapped while it read
  (`TornReadsAreRefused`); live runs have different process ids (`TypeCorrect`);
* `LastCopyIsKept`: `AsideInv` says that while the vendored export is away some
  `.previous-<pid>` holds a copy in a directory no run is about to delete; once a
  failure has been spent, fewer places are about to delete.  The induction needs
  `faults <= 1` in the property itself, as the second failure is what loses the
  copy;
* `GreenIsWhole`: `AnsweredInv` says that of the runs that began, the one that
  touched the tree last has failed, will still check it, or knows what it holds;
* `AloneIsJudgedRight`: `Undisturbed` says, place by place, what a run with no
  other beside it has read and left in the tree.  Alone means that no other run
  is active and that no directory of its own process id was there when it began;
  the generated clients are part of the judgement, since a check, and the check a
  sync ends with, refuses a retired scope in them;
* `DescriptorIsWireClosure`: for every descriptor `indexDescriptor` can return,
  with cycles or without, the worklist of `ReachableMessages` ends, and ends with
  the transitive closure.  The induction over the descriptor is done by least
  counterexamples (`WFMin`), as no induction theorem of the library can be
  instantiated here.  `TailRecursion` says that a tail recursion has a solution,
  whether it ends everywhere or not (it is the least set of pairs closed under
  it); so `VisitIs` gives the recursive function its equation.  `Measure`, the
  messages not reached and then the names pending, falls at every turn
  (`MeasureFalls`), so a worklist for which `Right` fails would have a least one
  among them, and `Right` passes from the next worklist to this one.  `Right`
  says that the walk reaches all it was given and stays within every set that is
  closed under the types of fields (`WalkIsRight`); from the methods, that is the
  closure (`ReachedIsWire`).

`GreenIsWhole`, `AloneIsJudgedRight` and `PublishedOnly` (only published exports
are adopted) are about which exports pass for published, and no code can tell a
good sha256 from the producer's: they are stated under
`SealsAreTrue` (what the validation accepts the producer published), and
`AloneIsJudgedRight` also under `PublishedIsAccepted` (the producer publishes
nothing the validation refuses).  Both hold of the instance of `contract_sync`,
whose forged exports fail one check each.  The other theorems
of the module need neither.

`RetryPolicyProofs` (no run of a machine: each rule for every value its inputs
can have, and `EveryCaseIsRight` for the cases that the run steps through):

* `ReasonsAlwaysAgree`, `ReasonsAreFinal`: any status, code, domain and reason;
  that a reason comes in an ErrorInfo (`ReasonHasInfo`) is what all three
  decoders see to, and without an ErrorInfo Go decides by the status alone;
* `WaitsAlwaysFollow`: any integer configuration, any Retry-After whose readings
  are `WellRead`, any `MaxUint64` and `LongestDuration`, each SDK by its own
  parser, and the waits one to four, and so a query's first four polls, as `normalizeRetry` allows five attempts (`request.ts:669`,
  `go/request.go:53`); the doubling and Go's loop are unrolled that far;
* `AppendsAlwaysAgree`: any batch and receipt, `MaxRows` positive and
  `MaxArrow` one more than a multiple of three, as 16777216 is;
* `FollowUpsPass`: any answer.

Only model-checked.  `CallSettles` (of `Dispatch` and of `PortedTransports`),
`QuerySettles` and `EveryRowDelivered` are liveness under fairness, outside what
the proof system does.  Their safety sides are proved, as said above: the
measures that fall, the step that is due, the row that is not stranded.  What is
left to TLC is that fair steps which are due are taken.  Every other property of
a passing run is a theorem.

The page and poll limits are bounded from above only (`TypeOK`): that a walk or a
poll loop does not give up one step early is not stated, as an error is always
allowed.

The theorems without a run of their own are those four safety sides (with
`IterationNearsItsEnd`), `CirclesAreLeft` twice, `AcksHoldEitherWay`,
`GoTimeoutBoundsIO`, `TornReadsAreRefused` and `EveryCaseIsRight`.

## Not modelled

Headers other than Connect-Timeout-Ms, redaction and error texts, redirects,
tracing, option parsing, the text of timestamps, ids and payloads, schema and row
validation, generated code, and the scripts but the synchronizer: pure functions
or pure I/O.  `workflows.py` wraps a store client that is not in the repository.
Go and Python publish as TypeScript does and are not modelled apart.

## Plan

1. Done: `RetryPolicy`, `Dispatch` with `BoundedRetry`, `IngestWrite` with
   `Journal`, `QueryRead` with `CursorWalk`; proofs for the three machines.
2. Done: `PortedTransports`, also with `BoundedRetry`; `EventPublish` with
   `Delivery`; `EventList` with `CursorWalk`; `ContractSync`; `RetryDelay` and
   `TableChecks`.
3. Done: the iterators against `CursorWalk`, the outbox against `Delivery`, the
   two further transports against `BoundedRetry`, the synchronizer with its
   worklist, the rules the SDKs share, and the safety sides of the liveness
   properties; every safety property of a run.
4. Left: liveness, if a prover for fairness becomes available (`StepsLeft`,
   `WayLeft` and the others are the measures it would need); the facts on growing
   sequences that `QueryReadProofs` and `EventListProofs` both prove, in one
   place; what the schemas of the synchronizer's documents say.
