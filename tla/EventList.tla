------------------------------ MODULE EventList ------------------------------
(***************************************************************************)
(* Iterating listed events and tables: the TypeScript and Python           *)
(* generators and Go's Next(), each over pages that are checked whole      *)
(* before an event of them is handed out.                                  *)
(*                                                                         *)
(* The caller keeps the object its filters came from and may edit it while *)
(* the iteration is on.  A generator runs nothing before its first next(). *)
(* The server is external: its pages may be empty, its tokens may go in    *)
(* circles and its events may be none the client should hand on.           *)
(***************************************************************************)
EXTENDS Integers, Sequences

CONSTANTS
  Iterations,  \* which SDK iterates what: records of sdk and kind
  Filters,     \* what the caller may ask for
  Pages,       \* the pages are 1..Pages; the iteration starts at 1
  Tokens,      \* its token maps: the page after each page, 0 for none
  Contents,    \* what its pages hold: a sequence of event flaws for each
  MaxPages,    \* MAX_INGESTION_ITERATOR_PAGES
  MaxEdits     \* bound: edits the caller makes

ASSUME EventListAssumption ==
  /\ Filters \subseteq [entity : STRING, actor : STRING, flaw : STRING]
  /\ Pages \in Nat \ {0}
  /\ Tokens \subseteq [1..Pages -> 0..Pages]
  /\ Contents \subseteq [1..Pages -> Seq(STRING)]
  /\ MaxPages \in Nat \ {0}
  /\ MaxEdits \in Nat

VARIABLES
  on,       \* the iteration: its sdk and kind
  next,     \* the server's token map
  content,  \* the server's pages
  asked,    \* the caller's filters, as they are now
  edits,    \* edits made so far
  mine,     \* the filters the iterator holds
  pc,       \* where the iterator stands
  page,     \* the page it asked for or holds
  index,    \* events of it handed out
  seen,     \* tokens followed
  pages,    \* pages counted
  walk,     \* pages that arrived (history)
  sent,     \* the filters each request carried (history)
  out       \* events handed out: whose page in the walk, and place (history)

server == <<on, next, content>>
caller == <<asked, edits>>
walked == <<page, index, seen, pages, walk, out>>
vars == <<server, caller, mine, pc, walked, sent>>

NoPage == 0

-----------------------------------------------------------------------------
(* The request: the checks of list() and of the preflight.  A filter has an *)
(* entity, an actor and perhaps a flaw: a text or enum out of its contract, *)
(* a limit out of range, half a resource, time bounds not in order.        *)

ListLimit(f) == f.flaw # "limit"
TimestampBounds(f) == f.flaw # "bounds"
CdcList(f) == f.flaw # "text" /\ ListLimit(f)
AuditList(f) == f.flaw \notin {"text", "enum", "resource"} /\ ListLimit(f)
PreflightListCdc(f) == f.flaw # "text" /\ ListLimit(f) /\ TimestampBounds(f)
PreflightListAudit(f) ==
  f.flaw \notin {"text", "enum", "resource"} /\ ListLimit(f) /\ TimestampBounds(f)

Accepted(f) ==
  CASE on.kind = "cdc" -> CdcList(f) /\ PreflightListCdc(f)
    [] on.kind = "audit" -> AuditList(f) /\ PreflightListAudit(f)
    [] OTHER -> ListLimit(f)

-----------------------------------------------------------------------------
(* The answer: every event of the page is checked before one is handed out. *)

EventId(flaw) == flaw # "id"
ListText(flaw) == flaw # "text"
ListKey(flaw) == flaw # "key"
ResponseWorkspace(flaw) == flaw # "workspace"
ListPayload(flaw) == flaw # "payload"
ListTimestamp(flaw) == flaw # "timestamp"
CdcOperationFromWire(flaw) == flaw # "operation"
AuditEnumsFromWire(flaw) == flaw \notin {"origin", "outcome"}

CdcEventFromWire(flaw) ==
  /\ EventId(flaw) /\ ListText(flaw) /\ ListKey(flaw) /\ ResponseWorkspace(flaw)
  /\ ListPayload(flaw) /\ CdcOperationFromWire(flaw) /\ ListTimestamp(flaw)
AuditEventFromWire(flaw) ==
  /\ ListText(flaw) /\ ListKey(flaw) /\ ResponseWorkspace(flaw) /\ ListPayload(flaw)
  /\ ListTimestamp(flaw) /\ EventId(flaw) /\ AuditEnumsFromWire(flaw)
TableFromWire(flaw) == flaw \notin {"id", "text"}

FromWire(flaw) ==
  CASE on.kind = "cdc" -> CdcEventFromWire(flaw)
    [] on.kind = "audit" -> AuditEventFromWire(flaw)
    [] OTHER -> TableFromWire(flaw)

PageSoundFirstOnly(p) == content[p] # <<>> => FromWire(content[p][1])
PageSound(p) == \A k \in DOMAIN content[p] : FromWire(content[p][k])

-----------------------------------------------------------------------------
Init ==
  /\ on \in Iterations
  /\ next \in Tokens
  /\ content \in Contents
  /\ asked \in Filters
  /\ edits = 0
  /\ mine = asked
  /\ pc = "uncalled"
  /\ page = NoPage
  /\ index = 0
  /\ seen = {}
  /\ pages = 0
  /\ walk = <<>>
  /\ sent = {}
  /\ out = <<>>

\* iterate() is called.  Arguments and struct fields are copied now, objects
\* they refer to are not.
Iterate ==
  /\ pc = "uncalled"
  /\ mine' = asked
  /\ pc' = "created"
  /\ UNCHANGED <<server, caller, walked, sent>>

\* The caller edits its filter object.
Edit(f) ==
  /\ edits < MaxEdits
  /\ edits' = edits + 1
  /\ f # asked
  /\ asked' = f
  /\ UNCHANGED <<server, mine, pc, walked, sent>>

\* TypeScript's generator of tables copies nothing: it reads the caller's objects
\* again for every page.
ReadsLive == on.sdk = "ts" /\ on.kind = "tables"

\* What the iterator holds once its first next() ran: a TypeScript generator of
\* events copies the object then, a Python one the actor it refers to; Go has its
\* copy.
Snapshot ==
  CASE on.sdk = "ts" /\ ~ReadsLive -> asked
    [] on.sdk = "python" -> [mine EXCEPT !.actor = asked.actor]
    [] OTHER -> mine

\* What a request carries: Go follows its pointer to the actor every time.
CarriedLive(f) == asked
Carried(f) ==
  CASE ReadsLive -> asked
    [] on.sdk = "go" -> [f EXCEPT !.actor = asked.actor]
    [] OTHER -> f

\* The page count is checked before a request is made.
OverLimitOffByOne(n) == n > MaxPages + 1
OverLimit(n) == n > MaxPages

Fail ==
  /\ pc' = "failed"
  /\ UNCHANGED <<page, index, seen, walk, sent, out>>

\* Ask for page p with the filters f.
Request(p, f, s) ==
  /\ pages' = pages + 1
  /\ IF OverLimit(pages + 1) \/ ~Accepted(Carried(f))
       THEN Fail
       ELSE /\ pc' = "fetching"
            /\ page' = p
            /\ seen' = s
            /\ sent' = sent \cup {Carried(f)}
            /\ UNCHANGED <<index, walk, out>>

\* The first next(): page 1 is asked for without a cursor, or with one the
\* caller kept, which then counts as followed.
Start(kept) ==
  /\ pc = "created"
  /\ mine' = Snapshot
  /\ Request(1, mine', IF kept THEN {1} ELSE {})
  /\ UNCHANGED <<server, caller>>

\* A fetched page starts at its first event.
IndexKept == index
IndexReset == 0

PageArrives ==
  /\ pc = "fetching"
  /\ IF PageSound(page)
       THEN /\ pc' = "paging"
            /\ index' = IndexReset
            /\ walk' = Append(walk, page)
       ELSE pc' = "failed" /\ UNCHANGED <<index, walk>>
  /\ UNCHANGED <<server, caller, mine, page, seen, pages, sent, out>>

PageFails ==
  /\ pc = "fetching"
  /\ pc' = "failed"
  /\ UNCHANGED <<server, caller, mine, walked, sent>>

HandOut ==
  /\ pc = "paging"
  /\ index < Len(content[page])
  /\ index' = index + 1
  /\ out' = Append(out, <<Len(walk), index + 1>>)
  /\ UNCHANGED <<server, caller, mine, pc, page, seen, pages, walk, sent>>

\* With its page handed out the iterator ends, finds a token it followed
\* before, or asks for the next page.
LastPageOrEmpty(p) == next[p] = NoPage \/ content[p] = <<>>
LastPage(p) == next[p] = NoPage

Turn ==
  /\ pc = "paging"
  /\ index >= Len(content[page])
  /\ \/ /\ LastPage(page)
        /\ pc' = "ended"
        /\ UNCHANGED <<walked, sent>>
     \/ /\ ~LastPage(page)
        /\ next[page] \in seen
        /\ Fail /\ UNCHANGED pages
     \/ /\ ~LastPage(page)
        /\ next[page] \notin seen
        /\ Request(next[page], mine, seen \cup {next[page]})
  /\ UNCHANGED <<server, caller, mine>>

\* The consumer breaks out of its loop.
Leave ==
  /\ pc = "paging"
  /\ index > 0
  /\ pc' = "left"
  /\ UNCHANGED <<server, caller, mine, walked, sent>>

Next ==
  \/ Iterate
  \/ \E f \in Filters : Edit(f)
  \/ \E kept \in BOOLEAN : Start(kept)
  \/ PageArrives
  \/ PageFails
  \/ HandOut
  \/ Turn
  \/ Leave

Spec == Init /\ [][Next]_vars

-----------------------------------------------------------------------------
(* What an iteration promises.                                             *)

\* Every variable stays in its domain; in particular no iteration reads more
\* than MAX_INGESTION_ITERATOR_PAGES pages.
TypeOK ==
  /\ on \in Iterations
  /\ next \in Tokens
  /\ content \in Contents
  /\ asked \in Filters
  /\ edits \in 0..MaxEdits
  /\ mine \in [entity : STRING, actor : STRING, flaw : STRING]
  /\ pc \in {"uncalled", "created", "fetching", "paging", "ended", "failed", "left"}
  /\ page \in 0..Pages
  /\ index \in Nat
  /\ seen \subseteq 1..Pages
  /\ pages \in 0..(MaxPages + 1)
  /\ Len(walk) <= MaxPages

\* Events are handed out as the server listed them: page after page along its
\* tokens, none skipped, none twice, and all of them once the iteration ended.
Listed == UNION {{<<k, n>> : n \in DOMAIN content[walk[k]]} : k \in DOMAIN walk}
HandedOut == {out[k] : k \in DOMAIN out}
Before(e, f) == e[1] < f[1] \/ (e[1] = f[1] /\ e[2] < f[2])
EventsInOrder ==
  /\ HandedOut \subseteq Listed
  /\ \A j, k \in DOMAIN out : j < k => Before(out[j], out[k])
  /\ \A f \in HandedOut : \A e \in Listed : Before(e, f) => e \in HandedOut
  /\ pc = "ended" => HandedOut = Listed

\* "A response containing an event from any other workspace" is refused, and
\* so is one with an event out of its contract: no event of such a page is
\* handed out, not even a sound one before it.  These are the fields in which
\* an event of each kind may be wrong.
Flaws ==
  CASE on.kind = "cdc" ->
         {"id", "text", "key", "workspace", "payload", "timestamp", "operation"}
    [] on.kind = "audit" ->
         {"id", "text", "key", "workspace", "payload", "timestamp", "origin", "outcome"}
    [] OTHER -> {"id", "text"}
OnlySoundPages ==
  \A k \in DOMAIN out :
    LET shown == content[walk[out[k][1]]]
    IN  \A n \in DOMAIN shown : shown[n] \notin Flaws

\* "Iterators retain the original workspace and filters", says the Python README:
\* whatever the caller does to its object meanwhile, all pages of an iteration are
\* asked for with the same filters.  There are two exceptions: the actor a Go query
\* points to, and TypeScript's tables, whose next page is asked for as the caller
\* has it then.  Even there no request mixes filters of two moments.
FiltersKept ==
  /\ ~ReadsLive =>
       \A f, g \in sent : f.entity = g.entity /\ (on.sdk # "go" => f.actor = g.actor)
  /\ on.sdk = "ts" => sent \subseteq Filters

\* The pages read are one walk along the server's tokens, as CursorWalk has it.
CW == INSTANCE CursorWalk
  WITH First <- 1,
       status <- CASE pc = "ended" -> "complete"
                   [] pc \in {"failed", "left"} -> "broken"
                   [] OTHER -> "open"
PagesAreOneWalk == CW!Spec
=============================================================================
