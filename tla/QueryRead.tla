----------------------------- MODULE QueryRead -----------------------------
(***************************************************************************)
(* One query of the tables client, TablesClient.query, and the reading of  *)
(* its TableQueryResult: the poll loop while the server reports RUNNING,   *)
(* then the iterators several readers open on the one result, which share  *)
(* its first page and follow the server's page tokens.                     *)
(*                                                                         *)
(* The server is external.  Its answers may come in any state at any time  *)
(* (a replica behind the others reports RUNNING again), its tokens may go  *)
(* in circles, and any call may fail for good after the retries below it.  *)
(***************************************************************************)
EXTENDS Integers, Sequences

CONSTANTS
  Readers,         \* the iterators the application opens on the result
  Pages,           \* the pages of the result are 1..Pages
  Tokens,          \* the token maps servers use: next page, 0 for none
  MaxQueryPolls,   \* MAX_QUERY_POLLS
  MaxResultPages   \* MAX_INGESTION_ITERATOR_PAGES

ASSUME QueryReadAssumption ==
  /\ Pages \in Nat \ {0}
  /\ Tokens \subseteq [1..Pages -> 0..Pages]
  /\ MaxQueryPolls \in Nat
  /\ MaxResultPages \in Nat \ {0}

VARIABLES
  next,       \* the server's token map
  pc,         \* where query() stands
  latest,     \* the state the last answer reported
  polls,      \* GetQueryResults polls made
  firstPage,  \* the result still holds its first page
  reader,     \* where each iterator stands
  page,       \* the page it holds, or asked for
  seen,       \* the tokens it followed
  pages,      \* the pages it was handed
  walk,       \* every page handed out by any of them, in order (history)
  reported    \* the state in each answer that was to bring a page: the answer
              \* that ended the polling, then those of the iterators (history)

query == <<pc, latest, polls>>
reading == <<firstPage, reader, page, seen, pages, walk, reported>>
vars == <<next, query, reading>>

NoPage == 0
States == {"RUNNING", "SUCCEEDED", "FAILED"}

Init ==
  /\ next \in Tokens
  /\ pc = "calling"
  /\ latest = "RUNNING"
  /\ polls = 0
  /\ firstPage = FALSE
  /\ reader = [r \in Readers |-> "new"]
  /\ page = [r \in Readers |-> NoPage]
  /\ seen = [r \in Readers |-> {}]
  /\ pages = [r \in Readers |-> 0]
  /\ walk = <<>>
  /\ reported = <<>>

-----------------------------------------------------------------------------
(* query(): run, poll, settle.                                             *)

\* The answer to RunQuery or GetQueryResults.
Answered(state) ==
  /\ pc = "calling"
  /\ pc' = "answered"
  /\ latest' = state
  /\ UNCHANGED <<next, polls, reading>>

\* A call fails, or its answer is refused by validateQueryResponse.
CallFails ==
  /\ pc = "calling"
  /\ pc' = "failed"
  /\ UNCHANGED <<next, latest, polls, reading>>

PollForgotten == polls
PollCounted == polls + 1

\* Still running: wait for the next poll, unless the polls are used up.
StillRunning ==
  /\ pc = "answered"
  /\ latest = "RUNNING"
  /\ polls' = PollCounted
  /\ pc' = IF polls' > MaxQueryPolls THEN "failed" ELSE "waiting"
  /\ UNCHANGED <<next, latest, reading>>

\* waitBeforeQueryPoll returns, or the caller's signal aborts it.
Poll ==
  /\ pc = "waiting"
  /\ pc' = "calling"
  /\ UNCHANGED <<next, latest, polls, reading>>

AbortWait ==
  /\ pc = "waiting"
  /\ pc' = "failed"
  /\ UNCHANGED <<next, latest, polls, reading>>

\* requireSucceeded.
Succeeded(state) == state = "SUCCEEDED"

Settled ==
  /\ pc = "answered"
  /\ latest # "RUNNING"
  /\ IF Succeeded(latest) THEN pc' = "result" /\ firstPage' = TRUE
                          ELSE pc' = "failed" /\ UNCHANGED firstPage
  /\ reported' = Append(reported, latest)
  /\ UNCHANGED <<next, latest, polls, reader, page, seen, pages, walk>>

-----------------------------------------------------------------------------
(* The iterators.                                                          *)

\* A page is yielded once the page count is within the limit.
OverLimitOffByOne(n) == n > MaxResultPages + 1
OverLimit(n) == n > MaxResultPages

HandOut(r, p) ==
  /\ pages' = [pages EXCEPT ![r] = @ + 1]
  /\ page' = [page EXCEPT ![r] = p]
  /\ IF OverLimit(pages[r] + 1)
       THEN /\ reader' = [reader EXCEPT ![r] = "error"]
            /\ UNCHANGED walk
       ELSE /\ reader' = [reader EXCEPT ![r] = "holding"]
            /\ walk' = Append(walk, p)

\* The first next() of an iterator takes the first page from the result, or
\* finds it consumed.
OpenLeavingPage(r) ==
  /\ pc = "result"
  /\ reader[r] = "new"
  /\ HandOut(r, 1)
  /\ UNCHANGED <<next, query, firstPage, seen, reported>>
Open(r) ==
  /\ pc = "result"
  /\ reader[r] = "new"
  /\ \/ /\ firstPage
        /\ firstPage' = FALSE
        /\ HandOut(r, 1)
     \/ /\ ~firstPage
        /\ reader' = [reader EXCEPT ![r] = "error"]
        /\ UNCHANGED <<firstPage, page, pages, walk>>
  /\ UNCHANGED <<next, query, seen, reported>>

\* The next next(): the end, a repeated token, or a request for the next page.
Advance(r) ==
  /\ reader[r] = "holding"
  /\ LET token == next[page[r]]
     IN  \/ /\ token = NoPage
            /\ reader' = [reader EXCEPT ![r] = "done"]
            /\ UNCHANGED <<page, seen>>
         \/ /\ token \in seen[r]
            /\ reader' = [reader EXCEPT ![r] = "error"]
            /\ UNCHANGED <<page, seen>>
         \/ /\ token \notin seen[r] \cup {NoPage}
            /\ reader' = [reader EXCEPT ![r] = "fetching"]
            /\ page' = [page EXCEPT ![r] = token]
            /\ seen' = [seen EXCEPT ![r] = @ \cup {token}]
  /\ UNCHANGED <<next, query, firstPage, pages, walk, reported>>

PageArrivesUnchecked(r, state) ==
  /\ reader[r] = "fetching"
  /\ reported' = Append(reported, state)
  /\ HandOut(r, page[r])
  /\ UNCHANGED <<next, query, firstPage, seen>>
PageArrives(r, state) ==
  /\ reader[r] = "fetching"
  /\ reported' = Append(reported, state)
  /\ IF Succeeded(state)
       THEN HandOut(r, page[r])
       ELSE /\ reader' = [reader EXCEPT ![r] = "error"]
            /\ UNCHANGED <<page, pages, walk>>
  /\ UNCHANGED <<next, query, firstPage, seen>>

PageFails(r) ==
  /\ reader[r] = "fetching"
  /\ reader' = [reader EXCEPT ![r] = "error"]
  /\ UNCHANGED <<next, query, firstPage, page, seen, pages, walk, reported>>

\* The application breaks out of its loop.
Leave(r) ==
  /\ reader[r] = "holding"
  /\ reader' = [reader EXCEPT ![r] = "left"]
  /\ UNCHANGED <<next, query, firstPage, page, seen, pages, walk, reported>>

Next ==
  \/ \E state \in States : Answered(state)
  \/ CallFails
  \/ StillRunning
  \/ Poll
  \/ AbortWait
  \/ Settled
  \/ \E r \in Readers :
       \/ Open(r)
       \/ Advance(r)
       \/ \E state \in States : PageArrives(r, state)
       \/ PageFails(r)
       \/ Leave(r)

Spec == Init /\ [][Next]_vars

\* Every call is answered or fails (Dispatch settles it), timers expire, and
\* the loop runs on.
FairSpec ==
  /\ Spec
  /\ WF_vars(CallFails \/ \E state \in States : Answered(state))
  /\ WF_vars(StillRunning)
  /\ WF_vars(Poll)
  /\ WF_vars(Settled)

-----------------------------------------------------------------------------
(* What a query and its result promise.                                    *)

\* Every variable stays in its domain: query() never polls more than
\* MAX_QUERY_POLLS times and no iterator hands out more pages than its limit.
TypeOK ==
  /\ next \in [1..Pages -> 0..Pages]
  /\ pc \in {"calling", "answered", "waiting", "result", "failed"}
  /\ latest \in States
  /\ polls \in 0..(MaxQueryPolls + 1)
  /\ firstPage \in BOOLEAN
  /\ reader \in [Readers -> {"new", "holding", "fetching", "done", "left", "error"}]
  /\ page \in [Readers -> 0..Pages]
  /\ seen \in [Readers -> SUBSET (1..Pages)]
  /\ pages \in [Readers -> 0..(MaxResultPages + 1)]
  /\ walk \in Seq(1..Pages)
  /\ Len(walk) <= MaxResultPages
  /\ reported \in Seq(States)

\* The iterator that took the first page reads the result; how far it came is
\* how the walk stands.
Owner(r) == pages[r] > 0

WalkStatus ==
  IF \E r \in Readers : Owner(r) /\ reader[r] = "done" THEN "complete"
  ELSE IF \E r \in Readers : Owner(r) /\ reader[r] \in {"left", "error"} THEN "broken"
  ELSE "open"

\* Only what an answer brought that reports SUCCEEDED is handed out, the first
\* page as well as every later one, although the query had succeeded before: the
\* k-th page of all that the iterators hand out is the k-th answer's.  An answer
\* that reports anything else, of a replica behind the others, is never taken for
\* the last page: that reading has failed, and stays so (requireSucceeded).
OnlySucceededIsRead ==
  /\ Len(walk) <= Len(reported)
  /\ \A k \in 1..Len(walk) : reported[k] = "SUCCEEDED"
  /\ pc = "result" /\ (\E k \in 1..Len(reported) : reported[k] # "SUCCEEDED") =>
       WalkStatus = "broken"

\* One result is one walk: whichever iterators the application opens on it,
\* and however they interleave, they hand out between them one walk along the
\* server's tokens, follow no token twice, and an iterator reports its end
\* only when it handed out the last page.
CW == INSTANCE CursorWalk WITH First <- 1, status <- WalkStatus

ResultIsOneWalk == CW!Spec

\* query() settles even if the server reports RUNNING for ever.
QuerySettles == <>(pc \in {"result", "failed"})
=============================================================================
