-------------------------- MODULE EventListProofs --------------------------
(***************************************************************************)
(* Theorems of iterating listed events and tables, for any pages, tokens   *)
(* and contents, any filters and edits of them, and any page limit.        *)
(***************************************************************************)
EXTENDS EventList, SequenceTheorems, FiniteSetTheorems, TLAPS

-----------------------------------------------------------------------------
(* The inductive invariant.                                                *)

\* The pages that were asked for by a token, and the page that came last.
Followed == {walk[k] : k \in 2..Len(walk)}
Last == walk[Len(walk)]

Began == pc \notin {"uncalled", "created"}

\* The histories are sequences of what they record.
Histories == walk \in Seq(1..Pages) /\ out \in Seq(Nat \X Nat)

\* The pages are counted when they are asked for.
PagesCounted ==
  /\ pages \in Nat
  /\ ~Began => walk = <<>> /\ pages = 0 /\ sent = {}
  /\ pc = "fetching" => pages = Len(walk) + 1 /\ pages <= MaxPages
  /\ pc \in {"paging", "ended", "left"} => pages = Len(walk)
  /\ pages <= MaxPages + 1 /\ Len(walk) <= MaxPages /\ Len(walk) <= pages

\* Where the iterator stands on the walk; no token is followed twice.
OnTheWalk ==
  /\ Followed \subseteq seen
  /\ pc = "fetching" =>
       /\ walk = <<>> => page = 1
       /\ walk # <<>> => /\ page = next[Last]
                         /\ page # NoPage /\ page \notin Followed /\ page \in seen
  /\ pc \in {"paging", "ended", "left"} => walk # <<>> /\ page = Last
  /\ pc = "ended" => next[Last] = NoPage
  /\ pc \in {"paging", "left"} => index \in 0..Len(content[page])

\* Every page of the walk was checked when it came.
WalkSound == \A k \in DOMAIN walk : PageSound(walk[k])

\* What was handed out: the pages before the last, and of it what index says.
Reached == {e \in Listed : e[1] < Len(walk) \/ e[2] <= index}
OutInv ==
  /\ \A j, k \in DOMAIN out : j < k => Before(out[j], out[k])
  /\ HandedOut = IF pc \in {"paging", "left"} THEN Reached ELSE Listed

\* Every request carried the filters the iterator holds, but for the actor Go
\* points to and for TypeScript's tables; the filters TypeScript copies are whole.
Carries(g) ==
  /\ ~ReadsLive => g.entity = mine.entity /\ (on.sdk # "go" => g.actor = mine.actor)
  /\ on.sdk = "ts" => g \in Filters
SentInv ==
  /\ \A g \in sent : Carries(g)
  /\ on.sdk = "ts" => mine \in Filters

IInv ==
  /\ TypeOK /\ Histories /\ PagesCounted /\ OnTheWalk
  /\ WalkSound /\ OutInv /\ SentInv

-----------------------------------------------------------------------------
(* Sequences that grow.                                                    *)

LEMMA AppendFacts ==
  ASSUME NEW S, NEW s \in Seq(S), NEW e \in S
  PROVE  /\ Append(s, e) \in Seq(S)
         /\ Append(s, e) # <<>>
         /\ Len(s) \in Nat /\ DOMAIN s = 1..Len(s)
         /\ s # <<>> => Len(s) >= 1
         /\ Len(Append(s, e)) = Len(s) + 1
         /\ DOMAIN Append(s, e) = 1..(Len(s) + 1)
         /\ Append(s, e)[Len(s) + 1] = e
         /\ \A k \in 1..Len(s) : Append(s, e)[k] = s[k]
<1>1. Len(s) \in Nat /\ DOMAIN s = 1..Len(s)
  BY LenProperties
<1>2. Append(s, e) \in Seq(S) /\ Len(Append(s, e)) = Len(s) + 1
  BY AppendProperties
<1>3. DOMAIN Append(s, e) = 1..(Len(s) + 1)
  BY <1>2, LenProperties
<1>4. Append(s, e) # <<>>
  BY <1>1, <1>2, EmptySeq
<1>5. s # <<>> => Len(s) >= 1
  BY <1>1, EmptySeq
<1> QED
  BY <1>1, <1>2, <1>3, <1>4, <1>5, AppendProperties

\* The last page of a walk that began.
LEMMA LastIsPage ==
  ASSUME walk \in Seq(1..Pages), walk # <<>>
  PROVE  Len(walk) \in 1..Len(walk) /\ Last \in 1..Pages
<1>1. Len(walk) \in Nat /\ Len(walk) # 0
  BY LenProperties, EmptySeq
<1>2. Len(walk) \in 1..Len(walk)
  BY <1>1
<1> QED
  BY <1>2, ElementOfSeq DEF Last

\* What a page that arrives adds to the walk.
LEMMA WalkGrows ==
  ASSUME walk \in Seq(1..Pages), NEW p \in 1..Pages, walk' = Append(walk, p)
  PROVE  /\ walk' \in Seq(1..Pages) /\ Len(walk') = Len(walk) + 1 /\ Last' = p
         /\ walk' # <<>> /\ Len(walk) \in Nat
         /\ walk = <<>> => Followed' = {}
         /\ walk # <<>> => Followed' = Followed \cup {p}
<1>1. /\ walk' \in Seq(1..Pages) /\ Len(walk') = Len(walk) + 1 /\ Len(walk) \in Nat
      /\ walk' # <<>>
  BY AppendFacts
<1>2. walk'[Len(walk) + 1] = p /\ \A k \in 1..Len(walk) : walk'[k] = walk[k]
  BY AppendFacts
<1>3. walk = <<>> => Followed' = {}
  BY <1>1 DEF Followed
<1>4. ASSUME walk # <<>> PROVE Followed' = Followed \cup {p}
  <2>1. Len(walk) >= 1
    BY <1>4, AppendFacts
  <2>2. 2..Len(walk') = (2..Len(walk)) \cup {Len(walk) + 1}
    BY <1>1, <2>1
  <2>3. \A k \in 2..Len(walk) : walk'[k] = walk[k]
    BY <1>1, <1>2
  <2> QED
    BY <1>2, <2>2, <2>3 DEF Followed
<1> QED
  BY <1>1, <1>2, <1>3, <1>4 DEF Last

\* The events of the pages w with the contents c are told by their place.
Places(w, c) == UNION {{<<k, n>> : n \in DOMAIN c[w[k]]} : k \in DOMAIN w}

LEMMA PlacesFacts ==
  ASSUME NEW w \in Seq(1..Pages), NEW c \in [1..Pages -> Seq(STRING)]
  PROVE  /\ \A e \in Places(w, c) : /\ e[1] \in 1..Len(w)
                                    /\ e[2] \in 1..Len(c[w[e[1]]])
                                    /\ e = <<e[1], e[2]>>
         /\ \A k \in 1..Len(w) : \A n \in 1..Len(c[w[k]]) : <<k, n>> \in Places(w, c)
         /\ \A k \in 1..Len(w) : Len(c[w[k]]) \in Nat
<1>1. DOMAIN w = 1..Len(w) /\ \A k \in 1..Len(w) : w[k] \in 1..Pages
  BY LenProperties, ElementOfSeq
<1>2. \A k \in 1..Len(w) : DOMAIN c[w[k]] = 1..Len(c[w[k]]) /\ Len(c[w[k]]) \in Nat
  BY <1>1, LenProperties
<1> QED
  BY <1>1, <1>2 DEF Places

\* A step that leaves the walk and the history alone leaves all that is said
\* of them alone.
LEMMA Frame ==
  ASSUME UNCHANGED <<on, next, content, walk, out>>
  PROVE  /\ Listed' = Listed /\ HandedOut' = HandedOut
         /\ Followed' = Followed /\ Last' = Last
         /\ WalkSound' = WalkSound
BY DEF Listed, HandedOut, Followed, Last, WalkSound, PageSound, FromWire,
   CdcEventFromWire, AuditEventFromWire, TableFromWire

\* What a request carries are the filters the iterator holds, with the exceptions
\* of Carries.
LEMMA CarriedIsMine ==
  ASSUME TypeOK, NEW f \in [entity : STRING, actor : STRING, flaw : STRING]
  PROVE  /\ ~ReadsLive => /\ Carried(f).entity = f.entity
                          /\ on.sdk # "go" => Carried(f).actor = f.actor
         /\ on.sdk = "ts" /\ f \in Filters => Carried(f) \in Filters
BY DEF Carried, ReadsLive, TypeOK

-----------------------------------------------------------------------------
(* The invariant is inductive.                                             *)

LEMMA InitIInv == Init => IInv
<1> SUFFICES ASSUME Init PROVE IInv
  OBVIOUS
<1>1. /\ walk \in Seq(1..Pages) /\ out \in Seq(Nat \X Nat)
      /\ Len(walk) = 0 /\ DOMAIN walk = {} /\ DOMAIN out = {}
  BY EmptySeq DEF Init
<1>2. TypeOK
  BY <1>1, EventListAssumption DEF Init, TypeOK, NoPage
<1>3. HandedOut = {} /\ Listed = {} /\ Followed = {}
  BY <1>1 DEF HandedOut, Listed, Followed
<1> QED
  BY <1>1, <1>2, <1>3, EventListAssumption
  DEF Init, IInv, Histories, PagesCounted, OnTheWalk, WalkSound, OutInv, SentInv, Began

\* Before the first next() there is nothing but filters.
LEMMA IterateKeeps == ASSUME IInv, Iterate PROVE IInv'
<1>1. /\ Listed' = Listed /\ HandedOut' = HandedOut /\ Followed' = Followed
      /\ WalkSound' = WalkSound
  BY Frame DEF Iterate, server, walked
<1>2. TypeOK' /\ Histories' /\ PagesCounted' /\ SentInv'
  BY EventListAssumption
  DEF IInv, TypeOK, Histories, PagesCounted, SentInv, Began, Iterate,
      server, caller, walked
<1>3. OnTheWalk' /\ OutInv'
  BY <1>1 DEF IInv, OnTheWalk, OutInv, Iterate, server, walked
<1> QED
  BY <1>1, <1>2, <1>3 DEF IInv

\* The caller's edits touch nothing of the iterator.
LEMMA EditKeeps == ASSUME IInv, NEW f \in Filters, Edit(f) PROVE IInv'
<1>1. /\ Listed' = Listed /\ HandedOut' = HandedOut /\ Followed' = Followed
      /\ Last' = Last /\ WalkSound' = WalkSound
  BY Frame DEF Edit, server, walked
<1>2. TypeOK'
  BY EventListAssumption DEF IInv, TypeOK, Edit, server, walked
<1>4. Histories' /\ PagesCounted'
  BY DEF IInv, Histories, PagesCounted, Began, Edit, walked
<1>3. OnTheWalk' /\ OutInv' /\ SentInv'
  BY <1>1
  DEF IInv, OnTheWalk, OutInv, SentInv, Carries, ReadsLive, Reached, Edit, server, walked
<1> QED
  BY <1>1, <1>2, <1>3, <1>4 DEF IInv

\* The first request, and the next: of page' with the filters mine'.
LEMMA RequestKeeps ==
  ASSUME IInv, pc \in {"created", "paging"}, pages = Len(walk),
         UNCHANGED <<on, next, content, asked, edits, index, walk, out>>,
         pages' = pages + 1,
         mine' \in [entity : STRING, actor : STRING, flaw : STRING],
         on.sdk = "ts" => mine' \in Filters,
         sent # {} => mine' = mine,
         HandedOut = Listed,
         \/ pc' = "failed" /\ UNCHANGED <<page, seen, sent>>
         \/ /\ pc' = "fetching" /\ ~OverLimit(pages + 1)
            /\ page' \in 1..Pages /\ seen' \subseteq 1..Pages
            /\ sent' = sent \cup {Carried(mine')}
            /\ Followed \subseteq seen'
            /\ walk = <<>> => page' = 1
            /\ walk # <<>> => /\ page' = next[Last]
                              /\ page' \notin Followed /\ page' \in seen'
  PROVE  IInv'
<1>1. /\ Listed' = Listed /\ HandedOut' = HandedOut /\ Followed' = Followed
      /\ Last' = Last /\ WalkSound' = WalkSound
  BY Frame
<1>2. Len(walk) \in Nat
  BY LenProperties DEF IInv, Histories
<1>3. TypeOK'
  <2>1. pages' \in 0..(MaxPages + 1) /\ Len(walk') <= MaxPages
    BY <1>2, EventListAssumption DEF IInv, PagesCounted
  <2>2. /\ page' \in 0..Pages /\ seen' \subseteq 1..Pages
        /\ pc' \in {"fetching", "failed"}
    <3>1. CASE pc' = "failed" /\ UNCHANGED <<page, seen, sent>>
      BY <3>1 DEF IInv, TypeOK
    <3>2. CASE pc' = "fetching" /\ page' \in 1..Pages /\ seen' \subseteq 1..Pages
      BY <3>2, EventListAssumption
    <3> QED
      BY <3>1, <3>2
  <2> QED
    BY <2>1, <2>2 DEF IInv, TypeOK
<1>6. Histories' /\ PagesCounted'
  <2>1. Histories'
    BY DEF IInv, Histories
  <2>2. pages \in Nat /\ Len(walk) <= MaxPages /\ Len(walk') = Len(walk)
    BY DEF IInv, PagesCounted
  <2>3. pc' = "failed" \/ (pc' = "fetching" /\ ~(pages + 1 > MaxPages))
    BY DEF OverLimit
  <2> QED
    BY <1>2, <2>1, <2>2, <2>3, EventListAssumption DEF PagesCounted, Began
<1>4. OnTheWalk' /\ OutInv'
  BY <1>1, EventListAssumption DEF IInv, OnTheWalk, OutInv, NoPage
<1>5. SentInv'
  <2>1. ReadsLive' = ReadsLive /\ on' = on
    BY DEF ReadsLive
  <2>2. \A g \in sent : Carries(g)'
    BY <2>1 DEF IInv, SentInv, Carries
  <2>3. /\ ~ReadsLive => /\ Carried(mine').entity = mine'.entity
                         /\ on.sdk # "go" => Carried(mine').actor = mine'.actor
        /\ on.sdk = "ts" => Carried(mine') \in Filters
    BY CarriedIsMine DEF IInv
  <2> QED
    BY <2>1, <2>2, <2>3 DEF SentInv, Carries
<1> QED
  BY <1>1, <1>3, <1>4, <1>5, <1>6 DEF IInv

LEMMA StartKeeps == ASSUME IInv, NEW kept \in BOOLEAN, Start(kept) PROVE IInv'
<1>1. /\ pc = "created" /\ walk = <<>> /\ pages = 0 /\ sent = {}
      /\ Len(walk) = 0
  BY EmptySeq DEF Start, IInv, PagesCounted, Began
<1>2. mine' \in [entity : STRING, actor : STRING, flaw : STRING]
  BY EventListAssumption DEF Start, Snapshot, IInv, TypeOK
<1>3. Followed = {} /\ HandedOut = Listed
  BY <1>1 DEF Followed, IInv, OutInv
<1>5. on.sdk = "ts" => mine' \in Filters
  BY DEF Start, Snapshot, IInv, TypeOK, SentInv
<1>4. 1 \in 1..Pages
  BY EventListAssumption
<1> QED
  BY <1>1, <1>2, <1>3, <1>4, <1>5, RequestKeeps
  DEF Start, Request, Fail, server, caller

\* A page that arrives whole joins the walk; nothing of it is handed out yet.
LEMMA PageArrivesKeeps == ASSUME IInv, PageArrives PROVE IInv'
<1>1. CASE PageSound(page)
  <2>1. /\ walk' = Append(walk, page) /\ index' = 0 /\ pc' = "paging"
        /\ UNCHANGED <<server, caller, mine, page, seen, pages, sent, out>>
    BY <1>1 DEF PageArrives, IndexReset
  <2>2. page \in 1..Pages
    <3>1. walk # <<>> => next[Last] \in 0..Pages
      BY LastIsPage, EventListAssumption DEF IInv, TypeOK, Histories
    <3> QED
      BY <3>1, EventListAssumption DEF PageArrives, IInv, OnTheWalk, NoPage
  <2>3. /\ walk' \in Seq(1..Pages) /\ Len(walk') = Len(walk) + 1 /\ Last' = page
        /\ walk' # <<>> /\ Len(walk) \in Nat
        /\ walk = <<>> => Followed' = {}
        /\ walk # <<>> => Followed' = Followed \cup {page}
    BY <2>1, <2>2, WalkGrows DEF IInv, Histories
  <2>4. /\ DOMAIN walk = 1..Len(walk) /\ DOMAIN walk' = 1..(Len(walk) + 1)
        /\ walk'[Len(walk) + 1] = page
        /\ \A k \in 1..Len(walk) : walk'[k] = walk[k]
    BY <2>1, <2>2, AppendFacts DEF IInv, Histories
  <2>5. TypeOK' /\ Histories' /\ PagesCounted'
    BY <2>1, <2>2, <2>3, EventListAssumption
    DEF IInv, TypeOK, Histories, PagesCounted, Began, PageArrives, server, caller
  <2>6. content[page] \in Seq(STRING)
    BY <2>2, EventListAssumption DEF IInv, TypeOK
  <2>7. OnTheWalk'
    BY <2>1, <2>3, <2>6, LenProperties
    DEF IInv, OnTheWalk, PageArrives, server, caller
  <2>8. WalkSound'
    <3>1. \A k \in 1..(Len(walk) + 1) : PageSound(walk'[k])
      BY <1>1, <2>3, <2>4 DEF IInv, WalkSound
    <3> QED
      BY <2>1, <2>4, <3>1
      DEF WalkSound, PageSound, FromWire, CdcEventFromWire, AuditEventFromWire,
          TableFromWire, server
  <2>9. OutInv'
    <3>1. Reached' = Listed
      <4>1. content \in [1..Pages -> Seq(STRING)] /\ content' = content
        BY <2>1, EventListAssumption DEF IInv, TypeOK, server
      <4>2. Listed = Places(walk, content) /\ Listed' = Places(walk', content)
        BY <4>1 DEF Listed, Places
      <4>3. /\ \A e \in Listed : /\ e[1] \in 1..Len(walk)
                                 /\ e[2] \in 1..Len(content[walk[e[1]]])
                                 /\ e = <<e[1], e[2]>>
            /\ \A k \in 1..Len(walk) : \A n \in 1..Len(content[walk[k]]) :
                 <<k, n>> \in Listed
        BY <4>1, <4>2, PlacesFacts DEF IInv, Histories
      <4>6. /\ \A e \in Listed' : /\ e[1] \in 1..Len(walk')
                                  /\ e[2] \in 1..Len(content[walk'[e[1]]])
                                  /\ e = <<e[1], e[2]>>
            /\ \A k \in 1..Len(walk') : \A n \in 1..Len(content[walk'[k]]) :
                 <<k, n>> \in Listed'
        BY <2>3, <4>1, <4>2, PlacesFacts
      <4>4. \A e \in Listed : e \in Reached'
        BY <2>1, <2>3, <2>4, <4>3, <4>6 DEF Reached
      <4>5. \A e \in Reached' : e \in Listed
        BY <2>1, <2>3, <2>4, <4>3, <4>6 DEF Reached
      <4> QED
        BY <4>4, <4>5 DEF Reached
    <3>2. HandedOut' = HandedOut
      BY <2>1 DEF HandedOut
    <3> QED
      BY <2>1, <3>1, <3>2 DEF IInv, OutInv, PageArrives
  <2>10. SentInv'
    BY <2>1 DEF IInv, SentInv, Carries, ReadsLive, server
  <2> QED
    BY <2>5, <2>7, <2>8, <2>9, <2>10 DEF IInv
<1>2. CASE ~PageSound(page)
  <2>1. /\ pc = "fetching" /\ pc' = "failed"
        /\ UNCHANGED <<server, caller, mine, walked, sent>>
    BY <1>2 DEF PageArrives, walked
  <2>2. /\ Listed' = Listed /\ HandedOut' = HandedOut /\ Followed' = Followed
        /\ Last' = Last /\ WalkSound' = WalkSound
    BY <2>1, Frame DEF server, walked
  <2> QED
    BY <2>1, <2>2
    DEF IInv, TypeOK, Histories, PagesCounted, OnTheWalk, OutInv, SentInv, Carries, ReadsLive,
        Began, server, caller, walked
<1> QED
  BY <1>1, <1>2

LEMMA PageFailsKeeps == ASSUME IInv, PageFails PROVE IInv'
<1>1. /\ Listed' = Listed /\ HandedOut' = HandedOut /\ Followed' = Followed
      /\ Last' = Last /\ WalkSound' = WalkSound
  BY Frame DEF PageFails, server, walked
<1> QED
  BY <1>1
  DEF PageFails, IInv, TypeOK, Histories, PagesCounted, OnTheWalk, OutInv, SentInv,
      Carries, ReadsLive, Began, server, caller, walked

\* The next event of the page follows all that were handed out.
LEMMA HandOutKeeps == ASSUME IInv, HandOut PROVE IInv'
<1>1. /\ pc = "paging" /\ index < Len(content[page]) /\ index' = index + 1
      /\ out' = Append(out, <<Len(walk), index + 1>>)
      /\ UNCHANGED <<server, caller, mine, pc, page, seen, pages, walk, sent>>
  BY DEF HandOut
<1>2. /\ walk \in Seq(1..Pages) /\ content \in [1..Pages -> Seq(STRING)]
      /\ content' = content /\ walk # <<>> /\ page = Last
  BY <1>1, EventListAssumption DEF IInv, TypeOK, Histories, OnTheWalk, server
<1>3. Len(walk) \in 1..Len(walk) /\ Len(walk) \in Nat /\ Last \in 1..Pages
  BY <1>2, LastIsPage, LenProperties
<1>4. index \in Nat /\ Len(content[page]) \in Nat
  BY <1>2, <1>3, LenProperties DEF IInv, TypeOK
<1>5. <<Len(walk), index + 1>> \in Nat \X Nat
  BY <1>3, <1>4
<1>6. /\ out' \in Seq(Nat \X Nat) /\ Len(out) \in Nat
      /\ DOMAIN out = 1..Len(out) /\ DOMAIN out' = 1..(Len(out) + 1)
      /\ out'[Len(out) + 1] = <<Len(walk), index + 1>>
      /\ \A k \in 1..Len(out) : out'[k] = out[k]
  BY <1>1, <1>5, AppendFacts DEF IInv, Histories
<1>7. /\ Listed' = Listed
      /\ \A e \in Listed : /\ e[1] \in 1..Len(walk)
                           /\ e[2] \in 1..Len(content[walk[e[1]]])
                           /\ e = <<e[1], e[2]>>
      /\ \A k \in 1..Len(walk) : \A n \in 1..Len(content[walk[k]]) : <<k, n>> \in Listed
  <2>1. Listed = Places(walk, content) /\ Listed' = Places(walk', content')
    BY DEF Listed, Places
  <2> QED
    BY <1>1, <1>2, <2>1, PlacesFacts
<1>8. Reached' = Reached \cup {<<Len(walk), index + 1>>}
  <2>1. ASSUME NEW e \in Reached' PROVE e \in Reached \cup {<<Len(walk), index + 1>>}
    <3>1. e \in Listed /\ (e[1] < Len(walk) \/ e[2] <= index + 1)
      BY <1>1, <1>7, <2>1 DEF Reached
    <3>2. CASE e \notin Reached
      <4>1. e[1] = Len(walk) /\ e[2] = index + 1
        BY <1>3, <1>4, <1>7, <3>1, <3>2 DEF Reached
      <4> QED
        BY <1>7, <3>1, <4>1
    <3> QED
      BY <3>2
  <2>2. <<Len(walk), index + 1>> \in Reached'
    <3>1. index + 1 \in 1..Len(content[walk[Len(walk)]])
      BY <1>1, <1>2, <1>4 DEF Last
    <3>2. <<Len(walk), index + 1>> \in Listed
      BY <1>3, <1>7, <3>1
    <3> QED
      BY <1>1, <1>4, <1>7, <3>2 DEF Reached
  <2>3. ASSUME NEW e \in Reached PROVE e \in Reached'
    BY <1>1, <1>3, <1>4, <1>7, <2>3 DEF Reached
  <2> QED
    BY <2>1, <2>2, <2>3
<1>9. OutInv'
  <2>1. HandedOut' = HandedOut \cup {<<Len(walk), index + 1>>}
    <3>1. DOMAIN out' = DOMAIN out \cup {Len(out) + 1}
      BY <1>6
    <3>2. \A k \in DOMAIN out : out'[k] = out[k]
      BY <1>6
    <3> QED
      BY <1>6, <3>1, <3>2 DEF HandedOut
  <2>2. HandedOut' = Reached'
    BY <1>1, <1>8, <2>1 DEF IInv, OutInv
  <2>3. ASSUME NEW k \in 1..Len(out) PROVE Before(out[k], <<Len(walk), index + 1>>)
    <3>1. out[k] \in Reached
      BY <1>1, <1>6, <2>3 DEF IInv, OutInv, HandedOut
    <3>2. /\ out[k][1] \in 1..Len(walk) /\ out[k][2] \in Nat
          /\ out[k][1] < Len(walk) \/ out[k][2] <= index
      BY <1>7, <3>1 DEF Reached
    <3> QED
      BY <1>3, <1>4, <3>2 DEF Before
  <2>4. \A j, k \in 1..Len(out) : j < k => Before(out[j], out[k])
    BY <1>6 DEF IInv, OutInv
  <2>5. ASSUME NEW j \in 1..(Len(out) + 1), NEW k \in 1..(Len(out) + 1), j < k
        PROVE  Before(out'[j], out'[k])
    <3>1. j \in 1..Len(out)
      BY <1>6, <2>5
    <3>2. k \in 1..Len(out) \/ k = Len(out) + 1
      BY <1>6
    <3> QED
      BY <1>6, <2>3, <2>4, <2>5, <3>1, <3>2
  <2>6. \A j, k \in DOMAIN out' : j < k => Before(out'[j], out'[k])
    BY <1>6, <2>5
  <2> QED
    BY <1>1, <2>2, <2>6 DEF OutInv, Before
<1>10. /\ Followed' = Followed /\ Last' = Last /\ WalkSound' = WalkSound
  BY <1>1
  DEF Followed, Last, WalkSound, PageSound, FromWire, CdcEventFromWire,
      AuditEventFromWire, TableFromWire, server
<1>11. TypeOK' /\ Histories' /\ PagesCounted' /\ SentInv'
  <2>1. TypeOK'
    BY <1>1, <1>4 DEF IInv, TypeOK, server, caller
  <2>2. Histories' /\ PagesCounted' /\ SentInv'
    BY <1>1, <1>6
    DEF IInv, Histories, PagesCounted, SentInv, Carries, ReadsLive, Began, server, caller
  <2> QED
    BY <2>1, <2>2
<1>12. OnTheWalk'
  BY <1>1, <1>4, <1>10 DEF IInv, OnTheWalk, server
<1> QED
  BY <1>9, <1>10, <1>11, <1>12 DEF IInv

\* A page of which everything was handed out.
LEMMA PageOver ==
  ASSUME IInv, pc = "paging", index >= Len(content[page])
  PROVE  HandedOut = Listed /\ page \in 1..Pages
<1>1. /\ walk \in Seq(1..Pages) /\ content \in [1..Pages -> Seq(STRING)]
      /\ walk # <<>> /\ page = Last
  BY EventListAssumption DEF IInv, TypeOK, Histories, OnTheWalk
<1>2. Len(walk) \in 1..Len(walk) /\ Len(walk) \in Nat /\ Last \in 1..Pages
  BY <1>1, LastIsPage, LenProperties
<1>3. index \in Nat /\ Len(content[page]) \in Nat
  BY <1>1, <1>2, LenProperties DEF IInv, TypeOK
<1>4. ASSUME NEW e \in Listed PROVE e \in Reached
  <2>1. e[1] \in 1..Len(walk) /\ e[2] \in 1..Len(content[walk[e[1]]])
    <3>1. Listed = Places(walk, content)
      BY DEF Listed, Places
    <3> QED
      BY <1>1, <1>4, <3>1, PlacesFacts
  <2>2. CASE e[1] = Len(walk)
    BY <1>1, <1>3, <1>4, <2>1, <2>2 DEF Last, Reached
  <2>3. CASE e[1] # Len(walk)
    BY <1>2, <1>4, <2>1, <2>3 DEF Reached
  <2> QED
    BY <2>2, <2>3
<1>5. HandedOut = Reached /\ Reached \subseteq Listed
  BY DEF IInv, OutInv, Reached
<1> QED
  BY <1>1, <1>2, <1>4, <1>5

LEMMA TurnKeeps == ASSUME IInv, Turn PROVE IInv'
<1>1. /\ HandedOut = Listed /\ page \in 1..Pages /\ pc = "paging"
      /\ UNCHANGED <<server, caller, mine>>
  BY PageOver DEF Turn
<1>2. page = Last /\ walk # <<>> /\ pages = Len(walk)
  BY <1>1 DEF IInv, OnTheWalk, PagesCounted
<1>3. ASSUME pc' = "ended" \/ pc' = "failed", UNCHANGED <<walked, sent>>,
             pc' = "ended" => LastPage(page)
      PROVE  IInv'
  <2>1. /\ Listed' = Listed /\ HandedOut' = HandedOut /\ Followed' = Followed
        /\ Last' = Last /\ WalkSound' = WalkSound
    BY <1>1, <1>3, Frame DEF server, walked
  <2>2. TypeOK'
    BY <1>1, <1>3 DEF IInv, TypeOK, server, caller, walked
  <2>3. Histories' /\ PagesCounted'
    BY <1>1, <1>3 DEF IInv, Histories, PagesCounted, Began, walked
  <2>4. OnTheWalk'
    BY <1>1, <1>2, <1>3, <2>1 DEF IInv, OnTheWalk, LastPage, server, walked
  <2>5. OutInv' /\ SentInv'
    BY <1>1, <1>3, <2>1 DEF IInv, OutInv, SentInv, Carries, ReadsLive, server, walked
  <2> QED
    BY <2>1, <2>2, <2>3, <2>4, <2>5 DEF IInv
<1>4. CASE LastPage(page) /\ pc' = "ended" /\ UNCHANGED <<walked, sent>>
  BY <1>3, <1>4
<1>5. CASE ~LastPage(page) /\ Fail /\ UNCHANGED pages
  BY <1>3, <1>5 DEF Fail, walked
<1>6. CASE /\ ~LastPage(page) /\ next[page] \notin seen
           /\ Request(next[page], mine, seen \cup {next[page]})
  <2>1. next[page] \in 1..Pages
    BY <1>1, <1>6, EventListAssumption DEF IInv, TypeOK, LastPage, NoPage
  <2>2. /\ Followed \subseteq seen /\ seen \subseteq 1..Pages
        /\ mine \in [entity : STRING, actor : STRING, flaw : STRING]
        /\ on.sdk = "ts" => mine \in Filters
    BY DEF IInv, TypeOK, OnTheWalk, SentInv
  <2> QED
    BY <1>1, <1>2, <1>6, <2>1, <2>2, RequestKeeps
    DEF Request, Fail, server, caller
<1> QED
  BY <1>4, <1>5, <1>6 DEF Turn

LEMMA LeaveKeeps == ASSUME IInv, Leave PROVE IInv'
<1>1. /\ Listed' = Listed /\ HandedOut' = HandedOut /\ Followed' = Followed
      /\ Last' = Last /\ WalkSound' = WalkSound
  BY Frame DEF Leave, server, walked
<1>2. Reached' = Reached
  BY <1>1 DEF Leave, Reached, walked
<1>3. TypeOK'
  BY DEF Leave, IInv, TypeOK, server, caller, walked
<1>4. Histories' /\ PagesCounted' /\ OnTheWalk' /\ OutInv' /\ SentInv'
  BY <1>1, <1>2
  DEF Leave, IInv, Histories, PagesCounted, OnTheWalk, OutInv, SentInv, Carries, ReadsLive,
      Began, server, caller, walked
<1> QED
  BY <1>1, <1>3, <1>4 DEF IInv

LEMMA StutterKeeps == ASSUME IInv, UNCHANGED vars PROVE IInv'
<1>1. /\ Listed' = Listed /\ HandedOut' = HandedOut /\ Followed' = Followed
      /\ Last' = Last /\ WalkSound' = WalkSound
  BY Frame DEF vars, server, walked
<1>2. Reached' = Reached
  BY <1>1 DEF Reached, vars, walked
<1>3. TypeOK'
  BY DEF IInv, TypeOK, vars, server, caller, walked
<1>4. Histories' /\ PagesCounted' /\ OnTheWalk' /\ OutInv' /\ SentInv'
  BY <1>1, <1>2
  DEF IInv, Histories, PagesCounted, OnTheWalk, OutInv, SentInv, Carries, ReadsLive,
      Began, vars, server, caller, walked
<1> QED
  BY <1>1, <1>3, <1>4 DEF IInv

LEMMA NextIInv == IInv /\ [Next]_vars => IInv'
BY IterateKeeps, EditKeeps, StartKeeps, PageArrivesKeeps, PageFailsKeeps, HandOutKeeps,
   TurnKeeps, LeaveKeeps, StutterKeeps DEF Next

LEMMA SpecIInv == Spec => []IInv
BY InitIInv, NextIInv, PTL DEF Spec

-----------------------------------------------------------------------------
(* Invariants.                                                             *)

\* Every variable of an iteration stays in its domain: no iteration asks for
\* more pages than MAX_INGESTION_ITERATOR_PAGES.
THEOREM TypeCorrect == Spec => []TypeOK
<1>1. IInv => TypeOK
  BY DEF IInv
<1> QED
  BY <1>1, SpecIInv, PTL

\* Whatever the pages hold and wherever the tokens lead, the events come in
\* the server's order, none skipped and none twice, and an iteration that
\* ended handed out all of them.
THEOREM EventsComeInOrder == Spec => []EventsInOrder
<1>1. ASSUME IInv PROVE EventsInOrder
  <2>1. HandedOut \subseteq Listed /\ (pc = "ended" => HandedOut = Listed)
    BY <1>1 DEF IInv, OutInv, Reached
  <2>2. ASSUME NEW f \in HandedOut, NEW e \in Listed, Before(e, f)
        PROVE  e \in HandedOut
    <3>1. /\ e[1] \in 1..Len(walk) /\ e[2] \in Nat /\ Len(walk) \in Nat
          /\ f[1] \in 1..Len(walk) /\ f[2] \in Nat
      <4>1. walk \in Seq(1..Pages) /\ content \in [1..Pages -> Seq(STRING)]
        BY <1>1, EventListAssumption DEF IInv, TypeOK, Histories
      <4>2. Listed = Places(walk, content)
        BY DEF Listed, Places
      <4> QED
        BY <2>1, <2>2, <4>1, <4>2, PlacesFacts, LenProperties
    <3>2. CASE pc \in {"paging", "left"}
      <4>1. index \in Nat
        BY <1>1 DEF IInv, TypeOK
      <4>2. f[1] < Len(walk) \/ f[2] <= index
        BY <1>1, <2>2, <3>2 DEF IInv, OutInv, Reached
      <4>3. e[1] < Len(walk) \/ e[2] <= index
        BY <2>2, <3>1, <4>1, <4>2 DEF Before
      <4> QED
        BY <1>1, <2>2, <3>2, <4>3 DEF IInv, OutInv, Reached
    <3>3. CASE pc \notin {"paging", "left"}
      BY <1>1, <2>2, <3>3 DEF IInv, OutInv
    <3> QED
      BY <3>2, <3>3
  <2> QED
    BY <1>1, <2>1, <2>2 DEF EventsInOrder, IInv, OutInv
<1> QED
  BY <1>1, SpecIInv, PTL

\* No event is handed out of a page that holds one out of its contract.
THEOREM SoundPagesOnly == Spec => []OnlySoundPages
<1>1. ASSUME IInv, NEW k \in DOMAIN out,
             NEW n \in DOMAIN content[walk[out[k][1]]]
      PROVE  content[walk[out[k][1]]][n] \notin Flaws
  <2>1. out[k] \in Listed
    BY <1>1 DEF IInv, OutInv, HandedOut, Reached
  <2>2. out[k][1] \in DOMAIN walk
    BY <2>1 DEF Listed
  <2>3. PageSound(walk[out[k][1]])
    BY <1>1, <2>2 DEF IInv, WalkSound
  <2>4. FromWire(content[walk[out[k][1]]][n])
    BY <1>1, <2>3 DEF PageSound
  <2> QED
    BY <2>4
    DEF Flaws, FromWire, CdcEventFromWire, AuditEventFromWire, TableFromWire, EventId,
        ListText, ListKey, ResponseWorkspace, ListPayload, ListTimestamp,
        CdcOperationFromWire, AuditEnumsFromWire
<1>2. IInv => OnlySoundPages
  BY <1>1 DEF OnlySoundPages
<1> QED
  BY <1>2, SpecIInv, PTL

\* Whatever the caller does to its object in between, all requests of an iteration
\* carry the same filters, but for the actor of a Go query and for TypeScript's
\* tables, of which each request is whole.
THEOREM FiltersAreKept == Spec => []FiltersKept
<1>1. IInv => FiltersKept
  BY DEF IInv, SentInv, Carries, FiltersKept
<1> QED
  BY <1>1, SpecIInv, PTL

-----------------------------------------------------------------------------
(* An iteration is a walk along the server's tokens.                       *)

\* A page that arrives is the next of the walk.
LEMMA PageArrivesIsStep ==
  ASSUME IInv, PageArrives
  PROVE  CW!Next
<1>1. CASE PageSound(page)
  <2>1. /\ pc = "fetching" /\ pc' = "paging" /\ next' = next
        /\ walk' = Append(walk, page)
    BY <1>1 DEF PageArrives, server
  <2>2. walk = <<>> => walk' = <<1>>
    BY <2>1 DEF IInv, OnTheWalk
  <2>3. walk # <<>> => /\ page = next[walk[Len(walk)]]
                       /\ page # NoPage /\ page \notin CW!Followed
    BY <2>1 DEF IInv, OnTheWalk, Last, Followed, CW!Followed
  <2> QED
    BY <2>1, <2>2, <2>3 DEF CW!Next, CW!HandOut, CW!NoPage, NoPage
<1>2. CASE ~PageSound(page)
  BY <1>2 DEF PageArrives, server, CW!Next, CW!Break
<1> QED
  BY <1>1, <1>2

LEMMA TurnIsStep ==
  ASSUME IInv, Turn
  PROVE  CW!Next \/ UNCHANGED CW!vars
<1>1. pc = "paging" /\ walk # <<>> /\ page = walk[Len(walk)] /\ next' = next
  BY DEF Turn, IInv, OnTheWalk, Last, server
<1>2. CASE LastPage(page) /\ pc' = "ended" /\ UNCHANGED <<walked, sent>>
  BY <1>1, <1>2 DEF CW!Next, CW!Complete, CW!NoPage, NoPage, LastPage, walked
<1>3. CASE Fail
  BY <1>1, <1>3 DEF Fail, CW!Next, CW!Break
<1>4. CASE Request(next[page], mine, seen \cup {next[page]})
  BY <1>1, <1>4 DEF Request, Fail, CW!Next, CW!Break, CW!vars
<1> QED
  BY <1>2, <1>3, <1>4 DEF Turn

LEMMA StartIsStep ==
  ASSUME NEW kept \in BOOLEAN, Start(kept)
  PROVE  CW!Next \/ UNCHANGED CW!vars
BY DEF Start, Request, Fail, server, CW!Next, CW!Break, CW!vars

LEMMA OthersAreSteps ==
  ASSUME \/ Iterate \/ PageFails \/ HandOut \/ Leave \/ UNCHANGED vars
         \/ \E f \in Filters : Edit(f)
  PROVE  CW!Next \/ UNCHANGED CW!vars
BY DEF Iterate, PageFails, HandOut, Leave, Edit, vars, server, walked, CW!Next,
   CW!Break, CW!vars

\* The pages an iteration reads implement CursorWalk: from the first page
\* along the server's tokens, none followed twice, ended only at the last.
THEOREM IterationIsOneWalk == Spec => PagesAreOneWalk
<1>1. Init => CW!Init
  BY DEF Init, CW!Init
<1>2. IInv /\ [Next]_vars => [CW!Next]_CW!vars
  BY PageArrivesIsStep, TurnIsStep, StartIsStep, OthersAreSteps DEF Next
<1> QED
  BY <1>1, <1>2, SpecIInv, PTL DEF Spec, PagesAreOneWalk, CW!Spec

-----------------------------------------------------------------------------
(* Circular tokens.                                                        *)

\* No two pages but the first were asked for by one token.
TokensDiffer == \A j, k \in 2..Len(walk) : walk[j] = walk[k] => j = k

\* As many different pages as there are numbers: a walk has one more at most.
LEMMA DifferentTokensBound ==
  ASSUME NEW n \in Nat, NEW w \in Seq(1..n),
         \A j, k \in 2..Len(w) : w[j] = w[k] => j = k
  PROVE  Len(w) <= n + 1
<1> SUFFICES ASSUME Len(w) > n + 1 PROVE FALSE
  BY LenProperties
<1> DEFINE f == [k \in 2..Len(w) |-> w[k]]
<1>1. Len(w) \in Nat /\ \A k \in 2..Len(w) : w[k] \in 1..n
  BY LenProperties, ElementOfSeq
<1>2. f \in [2..Len(w) -> 1..n]
  BY <1>1
<1>3. /\ IsFiniteSet(2..Len(w)) /\ Cardinality(2..Len(w)) = Len(w) - 1
      /\ IsFiniteSet(1..n) /\ Cardinality(1..n) = n
  BY <1>1, FS_Interval
<1>4. PICK j, k \in 2..Len(w) : j # k /\ f[j] = f[k]
  <2>1. Cardinality(1..n) < Cardinality(2..Len(w))
    BY <1>1, <1>3
  <2> HIDE DEF f
  <2> QED
    BY <1>2, <1>3, <2>1, FS_PigeonHole
<1> QED
  BY <1>4

\* A token that was followed is not followed again, so that tokens which go in
\* circles, as many as the server likes, end the iteration: whatever the limit,
\* it reads no more than one page more than there are.
THEOREM CirclesAreLeft == Spec => [](TokensDiffer /\ Len(walk) <= Pages + 1)
<1>1. Init => TokensDiffer
  <2> SUFFICES ASSUME Init PROVE \A k \in 2..Len(walk) : FALSE
    BY DEF TokensDiffer
  <2>1. Len(walk) = 0
    BY EmptySeq DEF Init
  <2> QED
    BY <2>1
<1>2. IInv /\ TokensDiffer /\ [Next]_vars => TokensDiffer'
  <2> SUFFICES ASSUME IInv, TokensDiffer, [Next]_vars PROVE TokensDiffer'
    OBVIOUS
  <2>1. CASE PageArrives /\ walk' = Append(walk, page)
    <3>1. walk \in Seq(1..Pages) /\ page \in 1..Pages
      BY <2>1, EventListAssumption
      DEF PageArrives, IInv, TypeOK, Histories, OnTheWalk, NoPage
    <3>2. walk # <<>> => page \notin Followed
      BY <2>1 DEF PageArrives, IInv, OnTheWalk
    <3>3. /\ Len(walk) \in Nat /\ Len(walk') = Len(walk) + 1 /\ walk'[Len(walk) + 1] = page
          /\ \A k \in 1..Len(walk) : walk'[k] = walk[k]
      BY <2>1, <3>1, AppendFacts
    <3>4. ASSUME NEW j \in 2..Len(walk'), NEW k \in 2..Len(walk'), j < k PROVE walk'[j] # walk'[k]
      <4>1. j \in 2..Len(walk) /\ walk'[j] = walk[j] /\ walk # <<>>
        BY <3>3, <3>4, EmptySeq
      <4>2. CASE k = Len(walk) + 1
        BY <3>2, <3>3, <4>1, <4>2 DEF Followed
      <4>3. CASE k # Len(walk) + 1
        <5>1. k \in 2..Len(walk) /\ walk'[k] = walk[k] /\ j # k
          BY <3>3, <3>4, <4>3
        <5> QED
          BY <4>1, <5>1 DEF TokensDiffer
      <4> QED
        BY <4>2, <4>3
    <3>5. \A j, k \in 2..Len(walk') : j = k \/ j < k \/ k < j
      BY <3>3
    <3> QED
      BY <3>4, <3>5 DEF TokensDiffer
  <2>2. CASE UNCHANGED walk
    BY <2>2 DEF TokensDiffer
  <2>3. (PageArrives /\ walk' = Append(walk, page)) \/ UNCHANGED walk
    BY DEF Next, Iterate, Edit, Start, Request, Fail, PageArrives, PageFails, HandOut, Turn,
           Leave, vars, walked
  <2> QED
    BY <2>1, <2>2, <2>3
<1>3. IInv /\ TokensDiffer => Len(walk) <= Pages + 1
  BY EventListAssumption, DifferentTokensBound DEF IInv, Histories, TokensDiffer
<1> QED
  BY <1>1, <1>2, <1>3, SpecIInv, PTL DEF Spec

-----------------------------------------------------------------------------
(* The iteration comes to an end.                                          *)

\* What is left: pages to ask for and steps on the way to each, and the events of
\* the page that is held.
PagesLeft ==
  3 * (MaxPages + 1 - pages)
    + (CASE pc \in {"uncalled", "fetching"} -> 2 [] pc \in {"created", "paging"} -> 1 [] OTHER -> 0)
EventsLeft == IF pc = "paging" THEN Len(content[page]) - index ELSE 0
Nearer ==
  \/ PagesLeft' < PagesLeft
  \/ PagesLeft' = PagesLeft /\ EventsLeft' < EventsLeft

\* Every step of the iterator takes it nearer to its end, in the lexicographic
\* order of both: whatever the server lists, it comes to its limit, its last page,
\* a circle or an error after finitely many next().
THEOREM IterationNearsItsEnd ==
  Spec => /\ [](PagesLeft \in Nat /\ EventsLeft \in Nat)
          /\ [][Nearer]_<<pc, walked>>
<1>1. IInv => PagesLeft \in Nat /\ EventsLeft \in Nat
  <2> SUFFICES ASSUME IInv PROVE PagesLeft \in Nat /\ EventsLeft \in Nat
    OBVIOUS
  <2>1. PagesLeft \in Nat
    BY EventListAssumption DEF IInv, TypeOK, PagesLeft
  <2>2. CASE pc = "paging"
    <3>1. index \in 0..Len(content[page]) /\ page \in 1..Pages
      BY <2>2, LastIsPage DEF IInv, OnTheWalk, Histories
    <3>2. Len(content[page]) \in Nat
      BY <3>1, EventListAssumption, LenProperties DEF IInv, TypeOK
    <3> QED
      BY <2>1, <2>2, <3>1, <3>2 DEF EventsLeft
  <2> QED
    BY <2>1, <2>2 DEF EventsLeft
<1>2. IInv /\ [Next]_vars => [Nearer]_<<pc, walked>>
  <2> SUFFICES ASSUME IInv, [Next]_vars, <<pc, walked>>' # <<pc, walked>>
               PROVE  Nearer
    OBVIOUS
  <2>1. MaxPages \in Nat /\ pages \in 0..(MaxPages + 1)
    BY EventListAssumption DEF IInv, TypeOK
  <2>2. ASSUME Iterate PROVE PagesLeft' < PagesLeft
    BY <2>1, <2>2 DEF Iterate, walked, PagesLeft
  <2>3. ASSUME NEW kept \in BOOLEAN, Start(kept) PROVE PagesLeft' < PagesLeft
    BY <2>1, <2>3 DEF Start, Request, Fail, PagesLeft
  <2>4. ASSUME PageArrives PROVE PagesLeft' < PagesLeft
    BY <2>1, <2>4 DEF PageArrives, PagesLeft
  <2>5. ASSUME PageFails PROVE PagesLeft' < PagesLeft
    BY <2>1, <2>5 DEF PageFails, walked, PagesLeft
  <2>6. ASSUME HandOut PROVE Nearer
    <3>1. index \in Nat /\ page \in 1..Pages
      BY <2>6, LastIsPage DEF HandOut, IInv, TypeOK, OnTheWalk, Histories
    <3>2. Len(content[page]) \in Nat
      BY <3>1, EventListAssumption, LenProperties DEF IInv, TypeOK
    <3> QED
      BY <2>1, <2>6, <3>1, <3>2 DEF HandOut, server, PagesLeft, EventsLeft, Nearer
  <2>7. ASSUME Turn PROVE PagesLeft' < PagesLeft
    BY <2>1, <2>7 DEF Turn, Request, Fail, walked, PagesLeft
  <2>8. ASSUME Leave PROVE PagesLeft' < PagesLeft
    BY <2>1, <2>8 DEF Leave, walked, PagesLeft
  <2> QED
    BY <2>2, <2>3, <2>4, <2>5, <2>6, <2>7, <2>8 DEF Next, Edit, Nearer, vars
<1> QED
  BY <1>1, <1>2, SpecIInv, PTL DEF Spec
=============================================================================
