-------------------------- MODULE QueryReadProofs --------------------------
(***************************************************************************)
(* Theorems of a query and the reading of its result, for any number of    *)
(* iterators and pages, any token map and any limits.                      *)
(***************************************************************************)
EXTENDS QueryRead, SequenceTheorems, FiniteSetTheorems, TLAPS

-----------------------------------------------------------------------------
(* The inductive invariant.                                                *)

\* The tokens that were followed on the way, and the page they lead to.
Followed == {walk[k] : k \in 2..Len(walk)}
LastPage == walk[Len(walk)]

\* The polls are counted before they are made.
QueryInv == pc \notin {"result", "failed"} => polls <= MaxQueryPolls

\* Only a result is read, and while it holds its first page nobody has read.
FirstPageInv ==
  /\ firstPage => pc = "result" /\ walk = <<>>
  /\ \A r \in Readers : Owner(r) => pc = "result" /\ ~firstPage
  /\ (walk # <<>>) => (pc = "result" /\ ~firstPage /\ \E r \in Readers : Owner(r))

\* The first page has one taker, and what it holds is where the walk stands.
OwnerInv ==
  /\ \A r, s \in Readers : Owner(r) /\ Owner(s) => r = s
  /\ \A r \in Readers :
       /\ ~Owner(r) => reader[r] \in {"new", "error"} /\ seen[r] = {}
       /\ Owner(r) => reader[r] # "new" /\ walk # <<>>
       /\ reader[r] \in {"holding", "fetching", "done"} => pages[r] = Len(walk)
       /\ reader[r] = "holding" => page[r] = LastPage /\ seen[r] = Followed
       /\ reader[r] = "fetching" =>
            /\ page[r] = next[LastPage]
            /\ page[r] \notin Followed \cup {NoPage}
            /\ seen[r] = Followed \cup {page[r]}
       /\ reader[r] = "done" => next[LastPage] = NoPage

IInv == TypeOK /\ QueryInv /\ FirstPageInv /\ OwnerInv

-----------------------------------------------------------------------------
(* Walks.                                                                  *)

\* Appending keeps what is there and adds one.
LEMMA AppendFacts ==
  ASSUME NEW S, NEW s \in Seq(S), NEW e \in S
  PROVE  /\ Append(s, e) \in Seq(S)
         /\ Append(s, e) # <<>>
         /\ Len(s) \in Nat
         /\ s # <<>> => Len(s) >= 1
         /\ Len(Append(s, e)) = Len(s) + 1
         /\ Append(s, e)[Len(s) + 1] = e
         /\ \A k \in 1..Len(s) : Append(s, e)[k] = s[k]
<1>1. Len(s) \in Nat /\ Len(Append(s, e)) = Len(s) + 1
  BY AppendProperties, LenProperties
<1>2. Append(s, e) # <<>>
  BY <1>1, EmptySeq
<1>3. s # <<>> => Len(s) >= 1
  BY EmptySeq
<1> QED
  BY <1>1, <1>2, <1>3, AppendProperties

\* A walk that has begun ends at a page.
LEMMA LastIsPage ==
  ASSUME NEW S, walk \in Seq(S), walk # <<>>
  PROVE  LastPage \in S
<1>1. Len(walk) \in Nat /\ Len(walk) # 0
  BY LenProperties, EmptySeq
<1>2. Len(walk) \in 1..Len(walk)
  BY <1>1
<1> QED
  BY <1>2, ElementOfSeq DEF LastPage

\* A page handed out after others joins the pages that tokens led to; the
\* first page was not asked for by a token.
LEMMA FollowedGrows ==
  ASSUME NEW S, NEW p \in S, walk \in Seq(S), walk' = Append(walk, p)
  PROVE  /\ walk = <<>> => Followed' = {}
         /\ walk # <<>> => Followed' = Followed \cup {p}
         /\ LastPage' = p
<1>1. walk' \in Seq(S) /\ Len(walk') = Len(walk) + 1 /\ Len(walk) \in Nat
  BY AppendFacts
<1>2. walk'[Len(walk) + 1] = p /\ \A k \in 1..Len(walk) : walk'[k] = walk[k]
  BY AppendFacts
<1>3. walk = <<>> => Followed' = {}
  BY <1>1 DEF Followed
<1>4. ASSUME walk # <<>> PROVE Followed' = Followed \cup {p}
  <2>1. Len(walk) >= 1
    BY <1>4, AppendFacts
  <2>2. 2..Len(walk') = (2..Len(walk)) \cup {Len(walk) + 1}
    BY <1>1, <2>1
  <2>3. \A k \in 2..Len(walk) : walk'[k] = walk[k]
    BY <1>1, <1>2
  <2> QED
    BY <1>2, <2>2, <2>3 DEF Followed
<1> QED
  BY <1>1, <1>2, <1>3, <1>4 DEF LastPage

-----------------------------------------------------------------------------
(* The invariant is inductive.                                             *)

LEMMA InitIInv == Init => IInv
<1> SUFFICES ASSUME Init PROVE IInv
  OBVIOUS
<1>1. walk \in Seq(1..Pages) /\ Len(walk) = 0
  BY EmptySeq DEF Init
<1>2. \A r \in Readers : pages[r] = 0
  BY DEF Init
<1>3. TypeOK
  <2>1. next \in [1..Pages -> 0..Pages] /\ polls \in 0..(MaxQueryPolls + 1)
    BY QueryReadAssumption DEF Init
  <2>2. page \in [Readers -> 0..Pages]
    BY QueryReadAssumption DEF Init, NoPage
  <2>3. pages \in [Readers -> 0..(MaxResultPages + 1)]
    BY QueryReadAssumption DEF Init
  <2>4. Len(walk) <= MaxResultPages
    BY <1>1, QueryReadAssumption
  <2>5. reported \in Seq(States)
    BY EmptySeq DEF Init
  <2> QED
    BY <1>1, <2>1, <2>2, <2>3, <2>4, <2>5 DEF Init, TypeOK, States
<1>4. \A r \in Readers : ~Owner(r)
  <2> SUFFICES ASSUME NEW r \in Readers PROVE ~(pages[r] > 0)
    BY DEF Owner
  <2> QED
    BY <1>2
<1> QED
  BY <1>3, <1>4, QueryReadAssumption
  DEF Init, IInv, QueryInv, FirstPageInv, OwnerInv

\* Handing out a page keeps the invariant, for the taker of the first page
\* and for the one iterator that follows the tokens.
LEMMA HandOutKeeps ==
  ASSUME IInv, NEW r \in Readers, NEW p \in 1..Pages, HandOut(r, p),
         pages[r] = Len(walk),
         \A s \in Readers : Owner(s) => s = r,
         pc = "result", firstPage' = FALSE,
         walk = <<>> => seen[r] = {},
         walk # <<>> => seen[r] = Followed \cup {p},
         reported' \in Seq(States),
         UNCHANGED <<next, query, seen>>
  PROVE  IInv'
<1> USE DEF IInv, query
<1>1. /\ walk \in Seq(1..Pages) /\ Len(walk) \in Nat /\ Len(walk) <= MaxResultPages
      /\ walk # <<>> => Len(walk) >= 1
      /\ walk = <<>> => Len(walk) = 0
  BY AppendFacts DEF TypeOK
<1>2. /\ pages' = [pages EXCEPT ![r] = @ + 1]
      /\ page' = [page EXCEPT ![r] = p]
      /\ pages'[r] = Len(walk) + 1
      /\ \A s \in Readers \ {r} : pages'[s] = pages[s] /\ page'[s] = page[s]
      /\ page'[r] = p
  BY DEF HandOut, TypeOK
<1>3. /\ page' \in [Readers -> 0..Pages]
      /\ pages' \in [Readers -> 0..(MaxResultPages + 1)]
  BY <1>1, <1>2, QueryReadAssumption DEF TypeOK
<1>4. /\ next' \in [1..Pages -> 0..Pages] /\ seen' \in [Readers -> SUBSET (1..Pages)]
      /\ pc' \in {"calling", "answered", "waiting", "result", "failed"}
      /\ latest' \in States /\ polls' \in 0..(MaxQueryPolls + 1)
      /\ firstPage' \in BOOLEAN
  BY DEF TypeOK
<1>5. Owner(r)' /\ \A s \in Readers \ {r} : ~Owner(s) /\ ~Owner(s)'
  BY <1>1, <1>2 DEF Owner
<1>6. QueryInv'
  BY DEF QueryInv
<1>7. CASE OverLimit(pages[r] + 1)
  <2>1. walk # <<>> /\ walk' = walk /\ reader' = [reader EXCEPT ![r] = "error"]
    BY <1>1, <1>7, QueryReadAssumption DEF OverLimit, HandOut
  <2>2. reader'[r] = "error" /\ \A s \in Readers \ {r} : reader'[s] = reader[s]
    BY <2>1 DEF TypeOK
  <2>3. TypeOK'
    BY <1>1, <1>3, <1>4, <2>1 DEF TypeOK
  <2>4. FirstPageInv'
    BY <1>5, <2>1 DEF FirstPageInv
  <2>5. OwnerInv'
    BY <1>2, <1>5, <2>1, <2>2 DEF OwnerInv, Followed, LastPage
  <2> QED
    BY <1>6, <2>3, <2>4, <2>5
<1>8. CASE ~OverLimit(pages[r] + 1)
  <2>1. /\ walk' = Append(walk, p)
        /\ reader' = [reader EXCEPT ![r] = "holding"]
        /\ Len(walk) + 1 <= MaxResultPages
    BY <1>1, <1>8, QueryReadAssumption DEF OverLimit, HandOut
  <2>2. reader'[r] = "holding" /\ \A s \in Readers \ {r} : reader'[s] = reader[s]
    BY <2>1 DEF TypeOK
  <2>3. walk' \in Seq(1..Pages) /\ walk' # <<>> /\ Len(walk') = Len(walk) + 1
    BY <1>1, <2>1, AppendFacts
  <2>4. LastPage' = p /\ seen'[r] = Followed'
    BY <1>1, <2>1, FollowedGrows
  <2>5. TypeOK'
    BY <1>1, <1>3, <1>4, <2>1, <2>3 DEF TypeOK
  <2>6. FirstPageInv'
    BY <1>5, <2>3 DEF FirstPageInv
  <2>7. OwnerInv'
    <3> SUFFICES ASSUME NEW s \in Readers PROVE
          /\ ~Owner(s)' => reader'[s] \in {"new", "error"} /\ seen'[s] = {}
          /\ Owner(s)' => reader'[s] # "new" /\ walk' # <<>> /\ s = r
          /\ reader'[s] \in {"holding", "fetching", "done"} =>
               pages'[s] = Len(walk') /\ s = r
      BY <1>2, <2>2, <2>4 DEF OwnerInv
    <3>1. CASE s = r
      BY <1>2, <1>5, <2>2, <2>3, <3>1
    <3>2. CASE s # r
      BY <1>2, <1>5, <2>2, <2>3, <3>2 DEF OwnerInv
    <3> QED
      BY <3>1, <3>2
  <2> QED
    BY <1>6, <2>5, <2>6, <2>7
<1> QED
  BY <1>7, <1>8

\* Steps of query() itself: nobody reads before it has a result.
LEMMA QueryKeeps ==
  ASSUME IInv, \/ \E state \in States : Answered(state)
               \/ CallFails \/ StillRunning \/ Poll \/ AbortWait \/ Settled
  PROVE  IInv'
<1> USE DEF IInv
<1>1. /\ pc # "result"
      /\ UNCHANGED <<next, reader, page, seen, pages, walk>>
  BY DEF Answered, CallFails, StillRunning, Poll, AbortWait, Settled, reading
<1>2. walk = <<>> /\ ~firstPage /\ \A r \in Readers : ~Owner(r)
  BY <1>1 DEF FirstPageInv
<1>3. UNCHANGED <<Followed, LastPage>> /\ \A r \in Readers : ~Owner(r)'
  BY <1>1, <1>2 DEF Followed, LastPage, Owner
<1>4. OwnerInv'
  BY <1>1, <1>2, <1>3 DEF OwnerInv
<1>5. firstPage' => pc' = "result"
  BY <1>2 DEF Answered, CallFails, StillRunning, Poll, AbortWait, Settled, reading
<1>6. FirstPageInv'
  BY <1>1, <1>2, <1>3, <1>5 DEF FirstPageInv
<1>7. QueryInv' /\ polls' \in 0..(MaxQueryPolls + 1)
  <2> USE DEF QueryInv
  <2>1. MaxQueryPolls \in Nat /\ polls \in 0..(MaxQueryPolls + 1)
    BY QueryReadAssumption DEF TypeOK
  <2>2. ASSUME NEW state \in States, Answered(state)
        PROVE  QueryInv' /\ polls' \in 0..(MaxQueryPolls + 1)
    BY <2>1, <2>2 DEF Answered
  <2>3. CASE StillRunning
    BY <2>1, <2>3 DEF StillRunning, PollCounted
  <2>4. CASE CallFails \/ Poll \/ AbortWait
    BY <2>1, <2>4 DEF CallFails, Poll, AbortWait
  <2>5. CASE Settled
    BY <2>1, <2>5 DEF Settled, Succeeded
  <2> QED
    BY <2>2, <2>3, <2>4, <2>5
<1>8. /\ pc' \in {"calling", "answered", "waiting", "result", "failed"}
      /\ latest' \in States /\ firstPage' \in BOOLEAN
  BY DEF TypeOK, States, Answered, CallFails, StillRunning,
      Poll, AbortWait, Settled, reading
<1>9. reported' \in Seq(States)
  <2>1. reported' = reported \/ reported' = Append(reported, latest)
    BY DEF Answered, CallFails, StillRunning, Poll, AbortWait, Settled, reading
  <2>2. reported \in Seq(States) /\ latest \in States
    BY DEF TypeOK
  <2>3. Append(reported, latest) \in Seq(States)
    BY <2>2, AppendFacts
  <2> QED
    BY <2>1, <2>2, <2>3
<1>10. TypeOK'
  BY <1>1, <1>7, <1>8, <1>9 DEF TypeOK
<1> QED
  BY <1>4, <1>6, <1>7, <1>10

\* An iterator that hands nothing out: it stops, or it asks for the page the
\* token it has not followed leads to.
LEMMA ReaderKeeps ==
  ASSUME IInv, NEW r \in Readers, NEW to,
         reader' = [reader EXCEPT ![r] = to],
         \/ to = "error" /\ UNCHANGED <<page, seen>>
         \/ to = "left" /\ reader[r] = "holding" /\ UNCHANGED <<page, seen>>
         \/ /\ to = "done" /\ reader[r] = "holding"
            /\ next[page[r]] = NoPage
            /\ UNCHANGED <<page, seen>>
         \/ /\ to = "fetching" /\ reader[r] = "holding"
            /\ next[page[r]] \notin seen[r] \cup {NoPage}
            /\ page' = [page EXCEPT ![r] = next[page[r]]]
            /\ seen' = [seen EXCEPT ![r] = @ \cup {next[page[r]]}],
         reported' \in Seq(States),
         UNCHANGED <<next, query, firstPage, pages, walk>>
  PROVE  IInv'
<1> USE DEF IInv, query
<1>1. UNCHANGED <<Followed, LastPage>> /\ \A s \in Readers : Owner(s)' <=> Owner(s)
  BY DEF Followed, LastPage, Owner
<1>2. /\ reader' \in [Readers -> {"new", "holding", "fetching", "done", "left", "error"}]
      /\ reader'[r] = to
      /\ \A s \in Readers \ {r} : reader'[s] = reader[s]
  BY DEF TypeOK
<1>3. /\ \A s \in Readers \ {r} : page'[s] = page[s] /\ seen'[s] = seen[s]
      /\ to # "fetching" => page'[r] = page[r] /\ seen'[r] = seen[r]
  BY DEF TypeOK
<1>4. reader[r] = "holding" =>
        /\ Owner(r) /\ walk # <<>> /\ pages[r] = Len(walk)
        /\ page[r] = LastPage /\ seen[r] = Followed
  BY DEF OwnerInv
<1>5. ASSUME reader[r] = "holding" PROVE page[r] \in 1..Pages
  BY <1>4, <1>5, LastIsPage DEF TypeOK
<1>6. to = "fetching" =>
        /\ reader[r] = "holding"
        /\ next[page[r]] \in 1..Pages
        /\ page'[r] = next[page[r]]
        /\ seen'[r] = seen[r] \cup {next[page[r]]}
        /\ page' = [page EXCEPT ![r] = next[page[r]]]
        /\ next[page[r]] \notin seen[r] \cup {NoPage}
  BY <1>5, QueryReadAssumption DEF TypeOK, NoPage
<1>7. page' \in [Readers -> 0..Pages] /\ seen' \in [Readers -> SUBSET (1..Pages)]
  <2>1. CASE to = "fetching"
    <3>1. next[page[r]] \in 1..Pages /\ next[page[r]] \in 0..Pages
      BY <1>6, <2>1
    <3>2. page' \in [Readers -> 0..Pages]
      BY <1>6, <2>1, <3>1 DEF TypeOK
    <3>3. seen' = [seen EXCEPT ![r] = @ \cup {next[page[r]]}]
      BY <2>1
    <3>4. seen' \in [Readers -> SUBSET (1..Pages)]
      BY <3>1, <3>3 DEF TypeOK
    <3> QED
      BY <3>2, <3>4
  <2>2. CASE to # "fetching"
    BY <2>2 DEF TypeOK
  <2> QED
    BY <2>1, <2>2
<1>8. TypeOK'
  BY <1>2, <1>7 DEF TypeOK
<1>9. QueryInv' /\ FirstPageInv'
  BY <1>1 DEF QueryInv, FirstPageInv
<1>10. OwnerInv'
  <2>1. \A s \in Readers \ {r} :
          /\ ~Owner(s)' => reader'[s] \in {"new", "error"} /\ seen'[s] = {}
          /\ Owner(s)' => reader'[s] # "new" /\ walk' # <<>>
          /\ reader'[s] \in {"holding", "fetching", "done"} => pages'[s] = Len(walk')
          /\ reader'[s] = "holding" => page'[s] = LastPage' /\ seen'[s] = Followed'
          /\ reader'[s] = "fetching" =>
               /\ page'[s] = next'[LastPage']
               /\ page'[s] \notin Followed' \cup {NoPage}
               /\ seen'[s] = Followed' \cup {page'[s]}
          /\ reader'[s] = "done" => next'[LastPage'] = NoPage
    BY <1>1, <1>2, <1>3 DEF OwnerInv
  <2>2. /\ ~Owner(r)' => reader'[r] \in {"new", "error"} /\ seen'[r] = {}
        /\ Owner(r)' => reader'[r] # "new" /\ walk' # <<>>
    BY <1>1, <1>2, <1>3, <1>4 DEF OwnerInv
  <2>3. /\ reader'[r] \in {"holding", "fetching", "done"} => pages'[r] = Len(walk')
        /\ reader'[r] # "holding"
        /\ reader'[r] = "done" => next'[LastPage'] = NoPage
    BY <1>1, <1>2, <1>4
  <2>4. reader'[r] = "fetching" =>
          /\ page'[r] = next'[LastPage']
          /\ page'[r] \notin Followed' \cup {NoPage}
          /\ seen'[r] = Followed' \cup {page'[r]}
    BY <1>1, <1>2, <1>4, <1>6
  <2> QED
    BY <1>1, <2>1, <2>2, <2>3, <2>4 DEF OwnerInv
<1> QED
  BY <1>8, <1>9, <1>10

\* The first page goes to whoever opens the result first.
LEMMA OpenKeeps ==
  ASSUME IInv, NEW r \in Readers, Open(r)
  PROVE  IInv'
<1> USE DEF IInv
<1>1. /\ pc = "result" /\ reader[r] = "new" /\ UNCHANGED <<next, query, seen>>
      /\ reported' \in Seq(States)
  BY DEF Open, TypeOK
<1>2. ~Owner(r) /\ seen[r] = {}
  BY <1>1 DEF OwnerInv
<1>3. CASE firstPage /\ firstPage' = FALSE /\ HandOut(r, 1)
  <2>1. walk = <<>> /\ \A s \in Readers : ~Owner(s)
    BY <1>3 DEF FirstPageInv
  <2>2. pages[r] = 0 /\ Len(walk) = 0 /\ 1 \in 1..Pages
    BY <1>2, <2>1, QueryReadAssumption DEF Owner, TypeOK
  <2> QED
    BY <1>1, <1>2, <1>3, <2>1, <2>2, HandOutKeeps
<1>4. CASE ~firstPage /\ reader' = [reader EXCEPT ![r] = "error"]
           /\ UNCHANGED <<firstPage, page, pages, walk>>
  BY <1>1, <1>4, ReaderKeeps
<1> QED
  BY <1>3, <1>4 DEF Open

\* A later page goes to the one iterator that asked for it.
LEMMA PageArrivesKeeps ==
  ASSUME IInv, NEW r \in Readers, NEW state \in States, PageArrives(r, state)
  PROVE  IInv'
<1> USE DEF IInv
<1>1. /\ reader[r] = "fetching" /\ UNCHANGED <<next, query, firstPage, seen>>
      /\ reported' \in Seq(States)
  BY AppendFacts DEF PageArrives, TypeOK
<1>2. CASE Succeeded(state)
  <2>1. HandOut(r, page[r])
    BY <1>2 DEF PageArrives
  <2>2. Owner(r) /\ walk # <<>> /\ pages[r] = Len(walk)
    BY <1>1 DEF OwnerInv
  <2>3. pc = "result" /\ ~firstPage /\ \A s \in Readers : Owner(s) => s = r
    BY <2>2 DEF FirstPageInv, OwnerInv
  <2>4. page[r] \in 1..Pages
    BY <1>1, QueryReadAssumption DEF OwnerInv, TypeOK, NoPage
  <2>5. seen[r] = Followed \cup {page[r]}
    BY <1>1 DEF OwnerInv
  <2>6. firstPage' = FALSE
    BY <1>1, <2>3 DEF TypeOK
  <2> QED
    BY <1>1, <2>1, <2>2, <2>3, <2>4, <2>5, <2>6, HandOutKeeps
<1>3. CASE ~Succeeded(state)
  BY <1>1, <1>3, ReaderKeeps DEF PageArrives
<1> QED
  BY <1>2, <1>3

LEMMA NextIInv == IInv /\ [Next]_vars => IInv'
<1> SUFFICES ASSUME IInv, [Next]_vars PROVE IInv'
  OBVIOUS
<1>1. CASE \/ \E state \in States : Answered(state)
           \/ CallFails \/ StillRunning \/ Poll \/ AbortWait \/ Settled
  BY <1>1, QueryKeeps
<1>2. ASSUME NEW r \in Readers, Open(r) PROVE IInv'
  BY <1>2, OpenKeeps
<1>3. ASSUME NEW r \in Readers, Advance(r) PROVE IInv'
  <2> DEFINE token == next[page[r]]
  <2>1. /\ reader[r] = "holding" /\ UNCHANGED <<next, query, firstPage, pages, walk>>
        /\ reported' \in Seq(States)
    BY <1>3 DEF Advance, IInv, TypeOK
  <2>2. CASE token = NoPage /\ reader' = [reader EXCEPT ![r] = "done"]
             /\ UNCHANGED <<page, seen>>
    BY <2>1, <2>2, ReaderKeeps
  <2>3. CASE reader' = [reader EXCEPT ![r] = "error"] /\ UNCHANGED <<page, seen>>
    BY <2>1, <2>3, ReaderKeeps
  <2>4. CASE /\ token \notin seen[r] \cup {NoPage}
             /\ reader' = [reader EXCEPT ![r] = "fetching"]
             /\ page' = [page EXCEPT ![r] = token]
             /\ seen' = [seen EXCEPT ![r] = @ \cup {token}]
    BY <2>1, <2>4, ReaderKeeps
  <2> QED
    BY <1>3, <2>2, <2>3, <2>4 DEF Advance
<1>4. ASSUME NEW r \in Readers, NEW state \in States, PageArrives(r, state)
      PROVE  IInv'
  BY <1>4, PageArrivesKeeps
<1>5. ASSUME NEW r \in Readers, PageFails(r) \/ Leave(r) PROVE IInv'
  BY <1>5, ReaderKeeps DEF PageFails, Leave, IInv, TypeOK
<1>6. CASE UNCHANGED vars
  BY <1>6 DEF vars, query, reading, IInv, TypeOK, QueryInv, FirstPageInv,
              OwnerInv, Owner, Followed, LastPage
<1> QED
  BY <1>1, <1>2, <1>3, <1>4, <1>5, <1>6 DEF Next

LEMMA SpecIInv == Spec => []IInv
<1> QED
  BY InitIInv, NextIInv, PTL DEF Spec

-----------------------------------------------------------------------------
(* The theorems.                                                           *)

\* Type correctness, which bounds the polls by MAX_QUERY_POLLS and the pages
\* of an iterator, and of all together, by MAX_INGESTION_ITERATOR_PAGES.
THEOREM TypeCorrect == Spec => []TypeOK
<1>1. IInv => TypeOK
  BY DEF IInv
<1> QED
  BY <1>1, SpecIInv, PTL

-----------------------------------------------------------------------------
(* The refinement.                                                         *)

\* While somebody reads, the one iterator that took the first page says how
\* the walk stands.
LEMMA OwnerTellsStatus ==
  ASSUME IInv, NEW r \in Readers, Owner(r)
  PROVE  WalkStatus = IF reader[r] = "done" THEN "complete"
                      ELSE IF reader[r] \in {"left", "error"} THEN "broken"
                      ELSE "open"
  BY DEF IInv, OwnerInv, WalkStatus

\* Before anybody reads, the walk is open.
LEMMA NobodyReads ==
  ASSUME \A r \in Readers : ~Owner(r)
  PROVE  WalkStatus = "open"
  BY DEF WalkStatus

\* A step that leaves the walk and its taker alone is no step of the walk.
LEMMA WalkStutters ==
  ASSUME IInv, IInv',
         UNCHANGED <<next, walk>>,
         \A r \in Readers : Owner(r)' <=> Owner(r),
         \A r \in Readers : Owner(r) => reader'[r] = reader[r]
                                        \/ {reader[r], reader'[r]}
                                             \subseteq {"holding", "fetching"}
  PROVE  UNCHANGED CW!vars
<1>1. WalkStatus' = WalkStatus
  <2>1. ASSUME NEW r \in Readers, Owner(r) PROVE WalkStatus' = WalkStatus
    <3>1. WalkStatus = IF reader[r] = "done" THEN "complete"
                       ELSE IF reader[r] \in {"left", "error"} THEN "broken"
                       ELSE "open"
      BY <2>1, OwnerTellsStatus
    <3>2. Owner(r)' /\ \A s \in Readers : Owner(s)' => s = r
      BY <2>1 DEF IInv, OwnerInv
    <3>3. WalkStatus' = IF reader'[r] = "done" THEN "complete"
                        ELSE IF reader'[r] \in {"left", "error"} THEN "broken"
                        ELSE "open"
      BY <3>2 DEF WalkStatus
    <3> QED
      BY <2>1, <3>1, <3>3
  <2>2. CASE \A r \in Readers : ~Owner(r)
    BY <2>2 DEF WalkStatus
  <2> QED
    BY <2>1, <2>2
<1> QED
  BY <1>1 DEF CW!vars

\* After a step, the taker of the first page says how the walk stands.
LEMMA OwnerTellsStatusAfter ==
  ASSUME IInv', NEW r \in Readers, Owner(r)'
  PROVE  WalkStatus' = IF reader'[r] = "done" THEN "complete"
                       ELSE IF reader'[r] \in {"left", "error"} THEN "broken"
                       ELSE "open"
  BY DEF IInv, OwnerInv, WalkStatus

\* A page handed out is the next of the walk; over the limit the walk breaks.
LEMMA HandOutIsStep ==
  ASSUME IInv, IInv', NEW r \in Readers, NEW p, HandOut(r, p),
         WalkStatus = "open", next' = next,
         \/ walk = <<>> /\ p = 1
         \/ walk # <<>> /\ p = next[LastPage] /\ p \notin Followed \cup {NoPage},
         pages[r] = Len(walk)
  PROVE  CW!Next
<1>1. Owner(r)'
  BY LenProperties DEF HandOut, IInv, TypeOK, Owner
<1>2. CASE OverLimit(pages[r] + 1)
  <2>1. walk' = walk /\ reader'[r] = "error"
    BY <1>2 DEF HandOut, IInv, TypeOK
  <2>2. WalkStatus' = "broken"
    BY <1>1, <2>1, OwnerTellsStatusAfter
  <2> QED
    BY <2>1, <2>2 DEF CW!Next, CW!Break
<1>3. CASE ~OverLimit(pages[r] + 1)
  <2>1. walk' = Append(walk, p) /\ reader'[r] = "holding"
    BY <1>3 DEF HandOut, IInv, TypeOK
  <2>2. WalkStatus' = "open"
    BY <1>1, <2>1, OwnerTellsStatusAfter
  <2>3. walk = <<>> => Append(walk, p) = <<p>>
    OBVIOUS
  <2> QED
    BY <2>1, <2>2, <2>3
    DEF CW!Next, CW!HandOut, CW!Followed, CW!NoPage, Followed, LastPage, NoPage
<1> QED
  BY <1>2, <1>3

\* Every step of a query and its iterators is a step of the walk or no step.
LEMMA StepRefines ==
  ASSUME IInv, IInv', [Next]_vars
  PROVE  [CW!Next]_CW!vars
<1>1. CASE \/ \E state \in States : Answered(state)
           \/ CallFails \/ StillRunning \/ Poll \/ AbortWait \/ Settled
           \/ UNCHANGED vars
  <2>1. UNCHANGED <<next, reader, page, seen, pages, walk>>
    BY <1>1 DEF Answered, CallFails, StillRunning, Poll, AbortWait, Settled,
                vars, reading
  <2>2. \A r \in Readers : (Owner(r)' <=> Owner(r)) /\ reader'[r] = reader[r]
    BY <2>1 DEF Owner
  <2> QED
    BY <2>1, <2>2, WalkStutters
<1>2. ASSUME NEW r \in Readers, Open(r) PROVE [CW!Next]_CW!vars
  <2>1. reader[r] = "new" /\ next' = next /\ ~Owner(r)
    BY <1>2 DEF Open, IInv, OwnerInv
  <2>2. CASE firstPage /\ HandOut(r, 1)
    <3>1. walk = <<>> /\ \A s \in Readers : ~Owner(s)
      BY <2>2 DEF IInv, FirstPageInv
    <3>2. pages[r] = Len(walk)
      BY <3>1 DEF Owner, IInv, TypeOK
    <3> QED
      BY <2>1, <2>2, <3>1, <3>2, NobodyReads, HandOutIsStep
  <2>3. CASE /\ reader' = [reader EXCEPT ![r] = "error"]
             /\ UNCHANGED <<firstPage, page, pages, walk>>
    <3>1. \A s \in Readers : Owner(s)' <=> Owner(s)
      BY <2>3 DEF Owner
    <3>2. \A s \in Readers : Owner(s) => reader'[s] = reader[s]
      BY <2>1, <2>3 DEF IInv, TypeOK
    <3> QED
      BY <2>1, <2>3, <3>1, <3>2, WalkStutters
  <2> QED
    BY <1>2, <2>2, <2>3 DEF Open
<1>3. ASSUME NEW r \in Readers, reader[r] \in {"holding", "fetching"},
             NEW to, reader' = [reader EXCEPT ![r] = to],
             UNCHANGED <<next, pages, walk>>,
             \/ to \in {"left", "error"}
             \/ to = "done" /\ reader[r] = "holding" /\ next[page[r]] = NoPage
             \/ to = "fetching"
      PROVE  [CW!Next]_CW!vars
  <2>1. Owner(r) /\ \A s \in Readers : Owner(s)' <=> Owner(s)
    BY <1>3 DEF IInv, OwnerInv, Owner
  <2>2. reader'[r] = to /\ \A s \in Readers \ {r} : reader'[s] = reader[s]
    BY <1>3 DEF IInv, TypeOK
  <2>3. WalkStatus = "open"
    BY <1>3, <2>1, OwnerTellsStatus
  <2>4. CASE to \in {"left", "error"}
    <3>1. WalkStatus' = "broken"
      BY <2>1, <2>2, <2>4, OwnerTellsStatusAfter
    <3> QED
      BY <1>3, <2>3, <3>1 DEF CW!Next, CW!Break
  <2>5. CASE to = "done" /\ reader[r] = "holding" /\ next[page[r]] = NoPage
    <3>1. WalkStatus' = "complete"
      BY <2>1, <2>2, <2>5, OwnerTellsStatusAfter
    <3>2. walk # <<>> /\ page[r] = walk[Len(walk)]
      BY <2>1, <2>5 DEF IInv, OwnerInv, LastPage
    <3> QED
      BY <1>3, <2>3, <2>5, <3>1, <3>2 DEF CW!Next, CW!Complete, CW!NoPage, NoPage
  <2>6. CASE to = "fetching"
    BY <1>3, <2>1, <2>2, <2>6, WalkStutters
  <2> QED
    BY <1>3, <2>4, <2>5, <2>6
<1>4. ASSUME NEW r \in Readers, Advance(r) PROVE [CW!Next]_CW!vars
  BY <1>3, <1>4 DEF Advance
<1>5. ASSUME NEW r \in Readers, NEW state \in States, PageArrives(r, state)
      PROVE  [CW!Next]_CW!vars
  <2>1. reader[r] = "fetching" /\ next' = next
    BY <1>5 DEF PageArrives
  <2>2. CASE Succeeded(state)
    <3>1. /\ Owner(r) /\ walk # <<>> /\ pages[r] = Len(walk)
          /\ page[r] = next[LastPage] /\ page[r] \notin Followed \cup {NoPage}
      BY <2>1 DEF IInv, OwnerInv
    <3>2. WalkStatus = "open"
      BY <2>1, <3>1, OwnerTellsStatus
    <3> QED
      BY <1>5, <2>1, <2>2, <3>1, <3>2, HandOutIsStep DEF PageArrives
  <2>3. CASE ~Succeeded(state)
    BY <1>3, <1>5, <2>1, <2>3 DEF PageArrives
  <2> QED
    BY <2>2, <2>3
<1>6. ASSUME NEW r \in Readers, PageFails(r) \/ Leave(r) PROVE [CW!Next]_CW!vars
  BY <1>3, <1>6 DEF PageFails, Leave
<1> QED
  BY <1>1, <1>2, <1>4, <1>5, <1>6 DEF Next

\* The iterators of one result implement CursorWalk: however many are opened
\* and however they interleave, what they hand out together is one walk along
\* the server's tokens, from the first page, that follows no token twice, and
\* one reports its end only at the last page (TableQueryResult.pages).
THEOREM OneResultIsOneWalk == Spec => ResultIsOneWalk
<1>1. Init => CW!Init
  <2> SUFFICES ASSUME Init PROVE CW!Init
    OBVIOUS
  <2>1. \A r \in Readers : ~Owner(r)
    <3> SUFFICES ASSUME NEW r \in Readers PROVE ~(pages[r] > 0)
      BY DEF Owner
    <3> QED
      BY DEF Init
  <2> QED
    BY <2>1, NobodyReads DEF Init, CW!Init
<1>2. IInv /\ IInv' /\ [Next]_vars => [CW!Next]_CW!vars
  BY StepRefines
<1> QED
  BY <1>1, <1>2, SpecIInv, PTL DEF Spec, ResultIsOneWalk, CW!Spec

-----------------------------------------------------------------------------
(* What the answers reported.                                              *)

\* Answers and pages go together: there is no answer before the polling ended,
\* one with the first page, and one more with every page that was asked for.
ReportedInv ==
  /\ pc \notin {"result", "failed"} => reported = <<>>
  /\ firstPage => reported = <<"SUCCEEDED">>
  /\ \A r \in Readers :
       reader[r] \in {"holding", "fetching", "done"} => Len(reported) = Len(walk)
  /\ OnlySucceededIsRead

\* A reading that failed stays so.
LEMMA BrokenStays ==
  ASSUME IInv, IInv', [Next]_vars, WalkStatus = "broken"
  PROVE  WalkStatus' = "broken"
<1>1. [CW!Next]_CW!vars
  BY StepRefines
<1> QED
  BY <1>1 DEF CW!Next, CW!vars, CW!HandOut, CW!Complete, CW!Break

LEMMA NextReported == IInv /\ IInv' /\ ReportedInv /\ [Next]_vars => ReportedInv'
<1> SUFFICES ASSUME IInv, IInv', ReportedInv, [Next]_vars PROVE ReportedInv'
  OBVIOUS
<1>1. /\ reported \in Seq(States) /\ Len(reported) \in Nat
      /\ walk \in Seq(1..Pages) /\ Len(walk) \in Nat
  BY LenProperties DEF IInv, TypeOK
<1>2. ASSUME reported' = reported, walk' = walk,
             pc' # "result" \/ pc = "result", firstPage' => firstPage,
             pc' \notin {"result", "failed"} => pc \notin {"result", "failed"},
             \A r \in Readers : reader'[r] \in {"holding", "fetching", "done"} =>
                                 reader[r] \in {"holding", "fetching", "done"}
      PROVE  ReportedInv'
  BY <1>2, BrokenStays DEF ReportedInv, OnlySucceededIsRead
<1>3. CASE \/ \E state \in States : Answered(state)
           \/ CallFails \/ StillRunning \/ Poll \/ AbortWait
  BY <1>2, <1>3 DEF Answered, CallFails, StillRunning, Poll, AbortWait, reading
<1>4. CASE Settled
  <2>1. /\ reported = <<>> /\ walk' = walk /\ reader' = reader /\ ~firstPage
        /\ pc' \in {"result", "failed"} /\ reported' = Append(reported, latest)
        /\ (pc' = "result" \/ firstPage') => latest = "SUCCEEDED"
    BY <1>4 DEF Settled, Succeeded, ReportedInv, IInv, FirstPageInv
  <2>2. reported' = <<latest>> /\ Len(reported') = 1 /\ reported'[1] = latest
    BY <2>1
  <2>3. walk = <<>> /\ \A r \in Readers : reader[r] \notin {"holding", "fetching", "done"}
    BY <1>4 DEF Settled, IInv, FirstPageInv, OwnerInv
  <2>4. Len(walk') = 0
    BY <2>1, <2>3
  <2>5. OnlySucceededIsRead'
    BY <2>1, <2>2, <2>4 DEF OnlySucceededIsRead
  <2> QED
    BY <2>1, <2>2, <2>3, <2>5 DEF ReportedInv
<1>5. ASSUME NEW r \in Readers, NEW p \in 1..Pages, HandOut(r, p), pc = "result", pc' = pc,
             ~firstPage', Len(reported') = Len(walk) + 1,
             \A k \in 1..Len(reported') : reported'[k] = "SUCCEEDED",
             \A s \in Readers : Owner(s)' => s = r
      PROVE  ReportedInv'
  <2>1. OnlySucceededIsRead'
    <3>1. Len(walk') <= Len(reported')
      BY <1>1, <1>5, AppendFacts DEF HandOut
    <3> QED
      BY <1>1, <1>5, <3>1 DEF OnlySucceededIsRead, IInv, TypeOK
  <2>2. ASSUME NEW s \in Readers, reader'[s] \in {"holding", "fetching", "done"}
        PROVE  Len(reported') = Len(walk')
    <3>1. s = r
      BY <1>5, <2>2 DEF IInv, OwnerInv
    <3>2. walk' = Append(walk, p)
      BY <1>5, <2>2, <3>1 DEF HandOut, IInv, TypeOK
    <3> QED
      BY <1>1, <1>5, <3>2, AppendFacts
  <2> QED
    BY <1>5, <2>1, <2>2 DEF ReportedInv
<1>6. ASSUME NEW r \in Readers, Open(r) PROVE ReportedInv'
  <2>1. pc = "result" /\ pc' = pc /\ reported' = reported
    BY <1>6 DEF Open, query
  <2>2. CASE firstPage /\ firstPage' = FALSE /\ HandOut(r, 1)
    <3>1. walk = <<>> /\ \A s \in Readers : ~Owner(s)
      BY <2>2 DEF IInv, FirstPageInv
    <3>2. \A s \in Readers : Owner(s)' => s = r
      BY <2>2, <3>1 DEF HandOut, Owner, IInv, TypeOK
    <3>3. reported' = <<"SUCCEEDED">> /\ Len(walk) = 0
      BY <2>1, <2>2, <3>1 DEF ReportedInv
    <3>4. Len(reported') = Len(walk) + 1 /\ \A k \in 1..Len(reported') : reported'[k] = "SUCCEEDED"
      BY <3>3
    <3> QED
      BY <1>5, <2>1, <2>2, <3>2, <3>4, QueryReadAssumption
  <2>3. CASE ~firstPage /\ reader' = [reader EXCEPT ![r] = "error"]
             /\ UNCHANGED <<firstPage, page, pages, walk>>
    <3>1. \A s \in Readers : reader'[s] \in {"holding", "fetching", "done"} => reader'[s] = reader[s]
      BY <2>3 DEF IInv, TypeOK
    <3> QED
      BY <1>2, <2>1, <2>3, <3>1
  <2> QED
    BY <1>6, <2>2, <2>3 DEF Open
<1>7. ASSUME NEW r \in Readers, Advance(r) \/ PageFails(r) \/ Leave(r) PROVE ReportedInv'
  <2>1. /\ reader[r] \in {"holding", "fetching"}
        /\ \E to : reader' = [reader EXCEPT ![r] = to]
        /\ UNCHANGED <<query, firstPage, walk, reported>>
    BY <1>7 DEF Advance, PageFails, Leave
  <2>2. \A s \in Readers : reader'[s] \in {"holding", "fetching", "done"} =>
                            reader[s] \in {"holding", "fetching", "done"}
    BY <2>1 DEF IInv, TypeOK
  <2> QED
    BY <1>2, <2>1, <2>2 DEF query
<1>8. ASSUME NEW r \in Readers, NEW state \in States, PageArrives(r, state) PROVE ReportedInv'
  <2>1. /\ reader[r] = "fetching" /\ reported' = Append(reported, state)
        /\ UNCHANGED <<next, query, firstPage, seen>>
    BY <1>8 DEF PageArrives
  <2>2. /\ Owner(r) /\ pc = "result" /\ pc' = pc /\ ~firstPage /\ ~firstPage'
        /\ Len(reported) = Len(walk) /\ WalkStatus = "open"
    BY <2>1, OwnerTellsStatus DEF IInv, OwnerInv, FirstPageInv, ReportedInv, query
  <2>3. \A k \in 1..Len(reported) : reported[k] = "SUCCEEDED"
    BY <2>2 DEF ReportedInv, OnlySucceededIsRead
  <2>4. /\ Len(reported') = Len(reported) + 1 /\ reported'[Len(reported) + 1] = state
        /\ \A k \in 1..Len(reported) : reported'[k] = reported[k]
    BY <1>1, <2>1, AppendFacts
  <2>5. \A s \in Readers : (s # r => pages'[s] = pages[s]) /\ (Owner(s) => s = r)
    BY <1>8, <2>2 DEF PageArrives, HandOut, IInv, OwnerInv, TypeOK
  <2>6. \A s \in Readers : Owner(s)' => s = r
    BY <2>5 DEF Owner
  <2>7. CASE Succeeded(state)
    <3>1. HandOut(r, page[r]) /\ state = "SUCCEEDED"
      BY <1>8, <2>7 DEF PageArrives, Succeeded
    <3>2. page[r] \in 1..Pages
      BY <2>1, QueryReadAssumption DEF IInv, TypeOK, OwnerInv, NoPage
    <3>3. Len(reported') = Len(walk) + 1 /\ \A k \in 1..Len(reported') : reported'[k] = "SUCCEEDED"
      BY <1>1, <2>2, <2>3, <2>4, <3>1
    <3> QED
      BY <1>5, <2>2, <2>6, <3>1, <3>2, <3>3
  <2>8. CASE ~Succeeded(state)
    <3>1. reader' = [reader EXCEPT ![r] = "error"] /\ UNCHANGED <<page, pages, walk>>
      BY <1>8, <2>8 DEF PageArrives
    <3>2. reader'[r] = "error" /\ Owner(r)'
      BY <2>2, <3>1 DEF IInv, TypeOK, Owner
    <3>3. WalkStatus' = "broken"
      BY <3>2, OwnerTellsStatusAfter
    <3>4. \A s \in Readers : reader'[s] \notin {"holding", "fetching", "done"}
      BY <2>6, <3>2 DEF IInv, OwnerInv
    <3>5. OnlySucceededIsRead'
      BY <1>1, <2>2, <2>3, <2>4, <3>1, <3>3 DEF OnlySucceededIsRead
    <3> QED
      BY <2>2, <3>4, <3>5 DEF ReportedInv
  <2> QED
    BY <2>7, <2>8
<1>9. CASE UNCHANGED vars
  BY <1>2, <1>9 DEF vars, query, reading
<1> QED
  BY <1>3, <1>4, <1>6, <1>7, <1>8, <1>9 DEF Next

\* Every page the application sees came in an answer that reports SUCCEEDED, and
\* one that reports anything else ends the reading for good, however many
\* iterators are opened on the result and however they interleave.
THEOREM OnlySucceededResults == Spec => []OnlySucceededIsRead
<1>1. Init => ReportedInv
  <2> SUFFICES ASSUME Init PROVE ReportedInv
    OBVIOUS
  <2>1. Len(walk) = 0 /\ Len(reported) = 0 /\ pc = "calling" /\ ~firstPage
    BY EmptySeq DEF Init
  <2> QED
    BY <2>1 DEF Init, ReportedInv, OnlySucceededIsRead
<1>2. ReportedInv => OnlySucceededIsRead
  BY DEF ReportedInv
<1> QED
  BY <1>1, <1>2, NextReported, SpecIInv, PTL DEF Spec

-----------------------------------------------------------------------------
(* Circular tokens.                                                        *)

\* No two pages but the first were asked for by one token.
TokensDiffer == \A j, k \in 2..Len(walk) : walk[j] = walk[k] => j = k

\* As many different pages as there are numbers: a walk has one more at most.
LEMMA DifferentTokensBound ==
  ASSUME NEW n \in Nat, NEW w \in Seq(1..n),
         \A j, k \in 2..Len(w) : w[j] = w[k] => j = k
  PROVE  Len(w) <= n + 1
<1> SUFFICES ASSUME Len(w) > n + 1 PROVE FALSE
  BY LenProperties
<1> DEFINE f == [k \in 2..Len(w) |-> w[k]]
<1>1. Len(w) \in Nat /\ \A k \in 2..Len(w) : w[k] \in 1..n
  BY LenProperties, ElementOfSeq
<1>2. f \in [2..Len(w) -> 1..n]
  BY <1>1
<1>3. /\ IsFiniteSet(2..Len(w)) /\ Cardinality(2..Len(w)) = Len(w) - 1
      /\ IsFiniteSet(1..n) /\ Cardinality(1..n) = n
  BY <1>1, FS_Interval
<1>4. PICK j, k \in 2..Len(w) : j # k /\ f[j] = f[k]
  <2>1. Cardinality(1..n) < Cardinality(2..Len(w))
    BY <1>1, <1>3
  <2> HIDE DEF f
  <2> QED
    BY <1>2, <1>3, <2>1, FS_PigeonHole
<1> QED
  BY <1>4

\* A token that was followed is not followed again, by whichever iterator: of a
\* result whose tokens go in circles no more is handed out than one page more
\* than there are, whatever the limit.
THEOREM CirclesAreLeft == Spec => [](TokensDiffer /\ Len(walk) <= Pages + 1)
<1>1. Init => TokensDiffer
  <2> SUFFICES ASSUME Init PROVE \A k \in 2..Len(walk) : FALSE
    BY DEF TokensDiffer
  <2>1. Len(walk) = 0
    BY EmptySeq DEF Init
  <2> QED
    BY <2>1
<1>2. IInv /\ TokensDiffer /\ [Next]_vars => TokensDiffer'
  <2> SUFFICES ASSUME IInv, TokensDiffer, [Next]_vars PROVE TokensDiffer'
    OBVIOUS
  <2>1. ASSUME NEW p \in 1..Pages, walk # <<>> => p \notin Followed, walk' = Append(walk, p)
        PROVE  TokensDiffer'
    <3>1. walk \in Seq(1..Pages)
      BY DEF IInv, TypeOK
    <3>2. /\ Len(walk) \in Nat /\ Len(walk') = Len(walk) + 1 /\ walk'[Len(walk) + 1] = p
          /\ \A k \in 1..Len(walk) : walk'[k] = walk[k]
      BY <2>1, <3>1, AppendFacts
    <3>3. ASSUME NEW j \in 2..Len(walk'), NEW k \in 2..Len(walk'), j < k PROVE walk'[j] # walk'[k]
      <4>1. j \in 2..Len(walk) /\ walk'[j] = walk[j] /\ walk # <<>>
        BY <3>2, <3>3, EmptySeq
      <4>2. CASE k = Len(walk) + 1
        BY <2>1, <3>2, <4>1, <4>2 DEF Followed
      <4>3. CASE k # Len(walk) + 1
        <5>1. k \in 2..Len(walk) /\ walk'[k] = walk[k] /\ j # k
          BY <3>2, <3>3, <4>3
        <5> QED
          BY <4>1, <5>1 DEF TokensDiffer
      <4> QED
        BY <4>2, <4>3
    <3>4. \A j, k \in 2..Len(walk') : j = k \/ j < k \/ k < j
      BY <3>2
    <3> QED
      BY <3>3, <3>4 DEF TokensDiffer
  <2>2. CASE UNCHANGED walk
    BY <2>2 DEF TokensDiffer
  <2>3. ASSUME NEW r \in Readers, Open(r) PROVE TokensDiffer'
    <3>1. 1 \in 1..Pages
      BY QueryReadAssumption
    <3>2. UNCHANGED walk \/ (walk = <<>> /\ walk' = Append(walk, 1))
      BY <2>3 DEF Open, HandOut, IInv, FirstPageInv
    <3> QED
      BY <2>1, <2>2, <3>1, <3>2
  <2>4. ASSUME NEW r \in Readers, NEW state \in States, PageArrives(r, state) PROVE TokensDiffer'
    <3>1. page[r] \in 1..Pages /\ page[r] \notin Followed
      BY <2>4, QueryReadAssumption DEF PageArrives, IInv, TypeOK, OwnerInv, NoPage
    <3>2. UNCHANGED walk \/ walk' = Append(walk, page[r])
      BY <2>4 DEF PageArrives, HandOut
    <3> QED
      BY <2>1, <2>2, <3>1, <3>2
  <2>5. CASE \A r \in Readers : ~Open(r) /\ \A state \in States : ~PageArrives(r, state)
    <3>1. UNCHANGED walk
      BY <2>5 DEF Next, Answered, CallFails, StillRunning, Poll, AbortWait, Settled, Advance,
                  PageFails, Leave, vars, reading
    <3> QED
      BY <2>2, <3>1
  <2> QED
    BY <2>3, <2>4, <2>5
<1>3. IInv /\ TokensDiffer => Len(walk) <= Pages + 1
  BY QueryReadAssumption, DifferentTokensBound DEF IInv, TypeOK, TokensDiffer
<1> QED
  BY <1>1, <1>2, <1>3, SpecIInv, PTL DEF Spec

-----------------------------------------------------------------------------
(* The poll loop comes to an end.                                          *)

\* How many steps query() has left at most, whatever the server answers.
StepsLeft ==
  CASE pc \in {"result", "failed"} -> 0
    [] OTHER -> 3 * (MaxQueryPolls + 1 - polls)
                  + (CASE pc = "answered" -> 1 [] pc = "calling" -> 2 [] OTHER -> 3)

\* Every step of query() takes it nearer to its end: a server that reports RUNNING
\* for ever is asked no more than MAX_QUERY_POLLS times again, and then query()
\* has failed.  (QuerySettles adds the fairness of its calls and timers.)
THEOREM QueryNearsItsEnd ==
  Spec => /\ [](StepsLeft \in Nat)
          /\ [][StepsLeft' < StepsLeft]_query
<1>1. IInv => StepsLeft \in Nat
  BY QueryReadAssumption DEF IInv, TypeOK, QueryInv, StepsLeft
<1>2. IInv /\ [Next]_vars => [StepsLeft' < StepsLeft]_query
  <2> SUFFICES ASSUME IInv, [Next]_vars, query' # query PROVE StepsLeft' < StepsLeft
    OBVIOUS
  <2>1. /\ MaxQueryPolls \in Nat /\ polls \in 0..(MaxQueryPolls + 1)
        /\ pc \notin {"result", "failed"} => polls <= MaxQueryPolls
    BY QueryReadAssumption DEF IInv, TypeOK, QueryInv
  <2>2. ASSUME NEW state \in States, Answered(state) PROVE StepsLeft' < StepsLeft
    BY <2>1, <2>2 DEF Answered, StepsLeft
  <2>3. CASE CallFails
    BY <2>1, <2>3 DEF CallFails, StepsLeft
  <2>4. CASE StillRunning
    BY <2>1, <2>4 DEF StillRunning, PollCounted, StepsLeft
  <2>5. CASE Poll
    BY <2>1, <2>5 DEF Poll, StepsLeft
  <2>6. CASE AbortWait
    BY <2>1, <2>6 DEF AbortWait, StepsLeft
  <2>7. CASE Settled
    BY <2>1, <2>7 DEF Settled, StepsLeft
  <2> QED
    BY <2>2, <2>3, <2>4, <2>5, <2>6, <2>7
    DEF Next, Open, Advance, PageArrives, PageFails, Leave, vars
<1> QED
  BY <1>1, <1>2, SpecIInv, PTL DEF Spec
=============================================================================
