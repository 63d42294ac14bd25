------------------------- MODULE ContractSyncProofs -------------------------
(***************************************************************************)
(* Theorems of the contract synchronizer, for any number of runs and       *)
(* process ids, any exports, any failing calls and any kills.              *)
(***************************************************************************)
EXTENDS ContractSync, SequenceTheorems, FiniteSetTheorems, WellFoundedInduction, TLAPS

-----------------------------------------------------------------------------
(* What a run holds, whatever the others do.                               *)

Contents == DOMAIN Doc \union {Absent}
FileSets == UNION {[S -> DOMAIN Doc] : S \in SUBSET Range(Artifacts)}

RunType ==
  [pc : Ended \union
          {"bundle", "sum", "artifacts", "inventory", "validate", "exists", "aside",
           "swap", "drop", "rescue", "back", "cleanup", "write", "compare"},
   phase : {"source", "check"}, mode : {"check", "check-release", "sync"},
   root : DOMAIN External \union {Vendored}, pid : Pids \union {Absent}, k : Nat,
   json : Contents, sum : Contents, files : FileSets, alone : BOOLEAN]

\* What a run has read of an export, as the export that would be.
Held(x) == [json |-> x.json, sum |-> x.sum, files |-> x.files]

\* Read in one piece and validated.
Accepted(e) == ReadBundle(e) /\ ValidateBundleState(e.json, e.files)

Listing(json) == Doc[json].artifacts
Listed(json) == json \in DOMAIN Doc /\ Listing(json) \in Seq([path : STRING, sha256 : STRING]) \ {<<>>}

\* The first n artifacts of the listing have been read, each as it is listed.
Gathered(x, n) ==
  /\ DOMAIN x.files = {Listing(x.json)[i].path : i \in 1..n}
  /\ \A p \in DOMAIN x.files : \E i \in 1..n :
       Listing(x.json)[i].path = p /\ EntryMatches(Listing(x.json)[i], x.files[p])

\* All that a reader knows is in what it has read, never in the tree: past the
\* inventory it holds an export that readBundle accepts in one piece, past the
\* validation one that the validation accepts too.
Swapping == {"exists", "aside", "swap", "drop", "write"}
Evidence(x) ==
  /\ x.pc \in {"sum", "artifacts", "inventory"} => Listed(x.json)
  /\ x.pc = "sum" => x.files = <<>>
  /\ x.pc \in {"artifacts", "inventory"} =>
       /\ x.sum \in DOMAIN Doc
       /\ ParseSingleChecksum(x.json, x.sum) /\ BundleMetadata(x.json)
  /\ x.pc = "artifacts" => x.k \in 1..Len(Listing(x.json)) /\ Gathered(x, x.k - 1)
  /\ x.pc = "inventory" => Gathered(x, Len(Listing(x.json)))
  /\ x.pc \in {"validate", "compare"} \union Swapping =>
       /\ Listed(x.json) /\ x.sum \in DOMAIN Doc
       /\ DOMAIN x.files = Range(Artifacts) /\ ReadBundle(Held(x))
  /\ x.pc \in {"compare"} \union Swapping => Accepted(Held(x))
  /\ x.pc \in {"write", "compare"} => x.k \in DOMAIN Destinations
  /\ x.pc \in {"rescue", "back", "cleanup"} \union Swapping => x.phase = "source"
  /\ x.pc \in {"compare", "ok"} => x.phase = "check"
  /\ x.phase = "source" => x.mode = "sync" \/ x.pc = "idle"
  /\ x.mode # "sync" => x.root = Vendored
  /\ x.pc \notin Ended => x.pid \in Pids

RunsInv == run \in [Runs -> RunType] /\ \A r \in Runs : Evidence(run[r])

PidsDiffer == \A r, s \in Active : r # s => run[r].pid # run[s].pid

\* Whatever lies in the tree is an export, torn out of its place or not.
TreeInv ==
  /\ vendor = Absent \/ IsExport(vendor)
  /\ DOMAIN previous = Pids
  /\ \A p \in Pids : previous[p] = Absent \/ IsExport(previous[p])
  /\ Range(Destinations) \subseteq DOMAIN derived
  /\ faults \in 0..MaxFaults /\ kills \in 0..MaxKills

BaseInv == RunsInv /\ PidsDiffer /\ TreeInv

\* One run moves, and keeps its process id.
Moves(r) ==
  /\ r \in Active /\ DOMAIN run' = Runs
  /\ \A s \in Runs \ {r} : run'[s] = run[s]
  /\ run'[r].pid = run[r].pid

LEMMA MovesPids == ASSUME PidsDiffer, NEW r \in Runs, Moves(r) PROVE PidsDiffer'
<1>1. \A s \in Active' : s \in Active /\ run'[s].pid = run[s].pid
  BY DEF Moves, Active
<1> QED
  BY <1>1 DEF PidsDiffer

LEMMA MovesRuns ==
  ASSUME RunsInv, NEW r \in Runs, NEW x \in RunType, Evidence(x),
         run' = [run EXCEPT ![r] = x], x.pid = run[r].pid, r \in Active
  PROVE  RunsInv' /\ Moves(r)
BY DEF RunsInv, Moves

LEMMA EmptyFiles == <<>> \in FileSets /\ DOMAIN <<>> = {}
<1>1. <<>> \in [{} -> DOMAIN Doc]
  OBVIOUS
<1> QED
  BY <1>1 DEF FileSets

LEMMA DestinationFacts ==
  /\ Len(Destinations) \in Nat \ {0} /\ DOMAIN Destinations = 1..Len(Destinations)
  /\ 1 \in DOMAIN Destinations
<1>1. Destinations \in Seq(STRING) /\ Destinations # <<>>
  BY ContractSyncAssumption
<1>2. Len(Destinations) \in Nat /\ DOMAIN Destinations = 1..Len(Destinations)
  BY <1>1, LenProperties
<1>3. Len(Destinations) # 0
  BY <1>1, EmptySeq
<1> QED
  BY <1>2, <1>3

LEMMA ListingFacts ==
  ASSUME NEW json, Listed(json)
  PROVE  /\ Len(Listing(json)) \in Nat \ {0}
         /\ DOMAIN Listing(json) = 1..Len(Listing(json))
         /\ \A i \in 1..Len(Listing(json)) : Listing(json)[i] \in [path : STRING, sha256 : STRING]
<1>1. Listing(json) \in Seq([path : STRING, sha256 : STRING]) /\ Listing(json) # <<>>
  BY DEF Listed
<1>2. Len(Listing(json)) \in Nat /\ DOMAIN Listing(json) = 1..Len(Listing(json))
  BY <1>1, LenProperties
<1>3. Len(Listing(json)) # 0
  BY <1>1, EmptySeq
<1> QED
  BY <1>1, <1>2, <1>3, ElementOfSeq

\* A move that sets only the point and the counter.
LEMMA GotoIs ==
  ASSUME RunsInv, NEW r \in Runs, NEW pc, Goto(r, pc)
  PROVE  run' = [run EXCEPT ![r] = [run[r] EXCEPT !.pc = pc, !.k = 1]]
BY DEF Goto, RunsInv

LEMMA StopKeeps ==
  ASSUME RunsInv, NEW r \in Active, NEW pc \in {"failed", "killed"}, Goto(r, pc)
  PROVE  RunsInv' /\ Moves(r)
<1> DEFINE x == [run[r] EXCEPT !.pc = pc, !.k = 1]
<1>1. r \in Runs /\ run[r] \in RunType /\ Evidence(run[r]) /\ run[r].pc \notin Ended
  BY DEF RunsInv, Active
<1>2. x \in RunType /\ x.pc = pc /\ x.phase = run[r].phase /\ x.mode = run[r].mode
      /\ x.root = run[r].root /\ x.pid = run[r].pid
  BY <1>1 DEF RunType, Ended
<1>3. Evidence(x)
  BY <1>1, <1>2 DEF Evidence, Ended, Swapping
<1> QED
  BY <1>1, <1>2, <1>3, GotoIs, MovesRuns

-----------------------------------------------------------------------------
(* Reading, step by step.                                                  *)

\* A set of contents under paths of the contract.
LEMMA FilesOf ==
  ASSUME NEW f, f = [p \in DOMAIN f |-> f[p]], Range(f) \subseteq DOMAIN Doc,
         DOMAIN f \subseteq Range(Artifacts)
  PROVE  f \in FileSets
<1>1. f \in [DOMAIN f -> DOMAIN Doc]
  BY DEF Range
<1> QED
  BY <1>1 DEF FileSets

\* What an active run is before it moves.
LEMMA ActiveFacts ==
  ASSUME RunsInv, NEW r \in Runs, run[r].pc \notin Ended
  PROVE  r \in Active /\ run[r] \in RunType /\ Evidence(run[r])
BY DEF RunsInv, Active

LEMMA ReadExternalMoves ==
  ASSUME BaseInv, NEW r \in Runs, ReadExternal(r)
  PROVE  RunsInv' /\ Moves(r)
<1> DEFINE dir == External[run[r].root]
           x == [run[r] EXCEPT !.pc = "validate", !.json = dir.json, !.sum = dir.sum,
                               !.files = dir.files]
<1>1. run[r].pc = "bundle" /\ run[r].phase # "check" /\ run[r].root # Vendored
  BY DEF ReadExternal, ReadsVendored
<1>2. r \in Active /\ run[r] \in RunType /\ Evidence(run[r])
  BY <1>1, ActiveFacts DEF BaseInv, Ended
<1>3. CASE Goto(r, "failed")
  BY <1>2, <1>3, StopKeeps DEF BaseInv
<1>4. CASE ReadBundle(dir) /\ run' = [run EXCEPT ![r] = x]
  <2>1. IsExport(dir)
    BY <1>1, <1>2, ContractSyncAssumption DEF RunType
  <2>2. /\ DOMAIN dir.files = Range(Artifacts) /\ {dir.json, dir.sum} \subseteq DOMAIN Doc
        /\ Listed(dir.json)
    BY <1>4, <2>1 DEF ReadBundle, InventoryExact, IsExport, Listed, Listing
  <2>3. dir.files \in FileSets
    BY <2>1, <2>2, FilesOf DEF IsExport
  <2>4. /\ x \in RunType /\ x.pc = "validate" /\ x.phase = run[r].phase
        /\ x.mode = run[r].mode /\ x.root = run[r].root /\ x.pid = run[r].pid
        /\ x.json = dir.json /\ x.sum = dir.sum /\ x.files = dir.files
    BY <1>2, <2>2, <2>3 DEF RunType, Contents
  <2>5. Held(x) = dir
    BY <2>1, <2>4 DEF Held, IsExport
  <2>6. Evidence(x)
    BY <1>1, <1>2, <1>4, <2>2, <2>4, <2>5 DEF Evidence, Ended, Swapping
  <2> QED
    BY <1>2, <1>4, <2>4, <2>6, MovesRuns DEF BaseInv
<1>5. Goto(r, "failed") \/ (ReadBundle(dir) /\ run' = [run EXCEPT ![r] = x])
  BY <1>1, <1>2 DEF ReadExternal, RunType, BaseInv, RunsInv
<1> QED
  BY <1>3, <1>4, <1>5

LEMMA ReadBundleJsonMoves ==
  ASSUME BaseInv, NEW r \in Runs, ReadBundleJson(r)
  PROVE  RunsInv' /\ Moves(r)
<1> DEFINE x == [run[r] EXCEPT !.pc = "sum", !.json = vendor.json, !.files = <<>>]
<1>1. run[r].pc = "bundle"
  BY DEF ReadBundleJson
<1>2. r \in Active /\ run[r] \in RunType /\ Evidence(run[r])
  BY <1>1, ActiveFacts DEF BaseInv, Ended
<1>3. CASE Goto(r, "failed")
  BY <1>2, <1>3, StopKeeps DEF BaseInv
<1>4. CASE vendor # Absent /\ run' = [run EXCEPT ![r] = x]
  <2>1. IsExport(vendor)
    BY <1>4 DEF BaseInv, TreeInv
  <2>2. /\ x \in RunType /\ x.pc = "sum" /\ x.phase = run[r].phase
        /\ x.mode = run[r].mode /\ x.root = run[r].root /\ x.pid = run[r].pid
        /\ x.json = vendor.json /\ x.files = <<>>
    BY <1>2, <2>1, EmptyFiles DEF RunType, Contents, IsExport
  <2>3. Listed(x.json)
    BY <2>1, <2>2 DEF IsExport, Listed, Listing
  <2>4. Evidence(x)
    BY <1>1, <1>2, <2>2, <2>3 DEF Evidence, Ended, Swapping
  <2> QED
    BY <1>2, <1>4, <2>2, <2>4, MovesRuns DEF BaseInv
<1> QED
  BY <1>2, <1>3, <1>4 DEF ReadBundleJson, BaseInv, RunsInv

LEMMA ReadChecksumMoves ==
  ASSUME BaseInv, NEW r \in Runs, ReadChecksum(r)
  PROVE  RunsInv' /\ Moves(r)
<1> DEFINE x == [run[r] EXCEPT !.pc = "artifacts", !.k = 1, !.sum = vendor.sum]
<1>1. run[r].pc = "sum"
  BY DEF ReadChecksum
<1>2. r \in Active /\ run[r] \in RunType /\ Evidence(run[r])
  BY <1>1, ActiveFacts DEF BaseInv, Ended
<1>3. CASE Goto(r, "failed")
  BY <1>2, <1>3, StopKeeps DEF BaseInv
<1>4. CASE /\ vendor # Absent /\ ParseSingleChecksum(run[r].json, vendor.sum)
           /\ BundleMetadata(run[r].json) /\ run' = [run EXCEPT ![r] = x]
  <2>1. IsExport(vendor)
    BY <1>4 DEF BaseInv, TreeInv
  <2>2. /\ x \in RunType /\ x.pc = "artifacts" /\ x.phase = run[r].phase
        /\ x.mode = run[r].mode /\ x.root = run[r].root /\ x.pid = run[r].pid
        /\ x.json = run[r].json /\ x.sum = vendor.sum /\ x.files = run[r].files /\ x.k = 1
    BY <1>2, <2>1 DEF RunType, Contents, IsExport
  <2>3. Listed(x.json) /\ x.files = <<>> /\ x.sum \in DOMAIN Doc
    BY <1>1, <1>2, <2>1, <2>2 DEF Evidence, IsExport
  <2>4. Gathered(x, 0)
    BY <2>3, EmptyFiles DEF Gathered
  <2>5. x.k \in 1..Len(Listing(x.json)) /\ x.k - 1 = 0
    BY <2>2, <2>3, ListingFacts
  <2>6. Evidence(x)
    BY <1>1, <1>2, <1>4, <2>2, <2>3, <2>4, <2>5 DEF Evidence, Ended, Swapping
  <2> QED
    BY <1>2, <1>4, <2>2, <2>6, MovesRuns DEF BaseInv
<1> QED
  BY <1>2, <1>3, <1>4 DEF ReadChecksum, BaseInv, RunsInv

LEMMA ReadArtifactMoves ==
  ASSUME BaseInv, NEW r \in Runs, ReadArtifact(r)
  PROVE  RunsInv' /\ Moves(r)
<1> DEFINE k == run[r].k
           json == run[r].json
           entry == Listing(json)[k]
           path == entry.path
           content == vendor.files[path]
           files == [p \in DOMAIN run[r].files \union {path} |->
                       IF p = path THEN content ELSE run[r].files[p]]
           to == IF k = Len(Listing(json)) THEN "inventory" ELSE "artifacts"
           x == [run[r] EXCEPT !.files = files, !.k = k + 1, !.pc = to]
<1>1. run[r].pc = "artifacts"
  BY DEF ReadArtifact
<1>2. r \in Active /\ run[r] \in RunType /\ Evidence(run[r])
  BY <1>1, ActiveFacts DEF BaseInv, Ended
<1>3. CASE Goto(r, "failed")
  BY <1>2, <1>3, StopKeeps DEF BaseInv
<1>4. CASE /\ vendor # Absent /\ path \in DOMAIN vendor.files
           /\ EntryMatches(entry, content) /\ run' = [run EXCEPT ![r] = x]
  <2>1. IsExport(vendor)
    BY <1>4 DEF BaseInv, TreeInv
  <2>2. content \in DOMAIN Doc /\ path \in Range(Artifacts)
    BY <1>4, <2>1 DEF IsExport, Range, EntryMatches
  <2>3. Listed(json) /\ k \in 1..Len(Listing(json)) /\ Gathered(run[r], k - 1)
    BY <1>1, <1>2 DEF Evidence
  <2>4. Len(Listing(json)) \in Nat /\ k \in Nat /\ k - 1 \in Nat
    BY <2>3, ListingFacts
  <2>5. run[r].files \in FileSets
    BY <1>2 DEF RunType
  <2>6. PICK S \in SUBSET Range(Artifacts) : run[r].files \in [S -> DOMAIN Doc]
    BY <2>5 DEF FileSets
  <2> HIDE DEF content, path
  <2>7. files \in [S \union {path} -> DOMAIN Doc] /\ S \union {path} \in SUBSET Range(Artifacts)
    BY <2>2, <2>6
  <2>8. files \in FileSets
    BY <2>7 DEF FileSets
  <2> HIDE DEF files
  <2>0. to \in {"inventory", "artifacts"}
    OBVIOUS
  <2>9. /\ x \in RunType /\ x.phase = run[r].phase /\ x.pc = to
        /\ x.mode = run[r].mode /\ x.root = run[r].root /\ x.pid = run[r].pid
        /\ x.json = json /\ x.sum = run[r].sum /\ x.files = files /\ x.k = k + 1
    <3>1. k + 1 \in Nat
      BY <2>4
    <3>2. x = [run[r] EXCEPT !.files = files, !.k = k + 1, !.pc = to]
      OBVIOUS
    <3> HIDE DEF to, x, k, json
    <3>3. x \in RunType
      BY <1>2, <2>8, <2>0, <3>1, <3>2 DEF RunType
    <3>4. /\ x.phase = run[r].phase /\ x.pc = to
          /\ x.mode = run[r].mode /\ x.root = run[r].root /\ x.pid = run[r].pid
          /\ x.json = run[r].json /\ x.sum = run[r].sum /\ x.files = files /\ x.k = k + 1
      BY <1>2, <3>2 DEF RunType
    <3> QED
      BY <3>3, <3>4 DEF json
  <2> HIDE DEF x
  <2>10. Gathered(x, k)
    <3>1. /\ DOMAIN x.files = DOMAIN run[r].files \union {path}
          /\ \A p \in DOMAIN x.files :
               x.files[p] = IF p = path THEN content ELSE run[r].files[p]
      BY <2>9 DEF files
    <3>2. 1..k = (1..k - 1) \union {k}
      BY <2>4
    <3>3. DOMAIN run[r].files = {Listing(json)[i].path : i \in 1..k - 1}
      BY <2>3 DEF Gathered
    <3>4. DOMAIN x.files = {Listing(json)[i].path : i \in 1..k}
      BY <3>1, <3>2, <3>3 DEF path
    <3>5. ASSUME NEW p \in DOMAIN x.files
          PROVE  \E i \in 1..k :
                   Listing(json)[i].path = p /\ EntryMatches(Listing(json)[i], x.files[p])
      <4>1. CASE p = path
        BY <1>4, <2>3, <2>4, <3>1, <4>1 DEF path
      <4>2. CASE p # path
        <5>1. p \in DOMAIN run[r].files /\ x.files[p] = run[r].files[p]
          BY <3>1, <3>5, <4>2
        <5> QED
          BY <2>3, <3>2, <5>1 DEF Gathered
      <4> QED
        BY <4>1, <4>2
    <3> QED
      BY <2>9, <3>4, <3>5 DEF Gathered
  <2>11. CASE k = Len(Listing(json))
    <3>1. x.pc = "inventory"
      BY <2>9, <2>11
    <3> QED
      BY <1>1, <1>2, <1>4, <2>3, <2>9, <2>10, <2>11, <3>1, MovesRuns
      DEF BaseInv, Evidence, Ended, Swapping
  <2>12. CASE k # Len(Listing(json))
    <3>1. x.pc = "artifacts"
      BY <2>9, <2>12
    <3>2. x.k \in 1..Len(Listing(json)) /\ x.k - 1 = k
      BY <2>3, <2>4, <2>9, <2>12
    <3>3. Evidence(x)
      BY <1>1, <1>2, <2>3, <2>9, <2>10, <3>1, <3>2 DEF Evidence, Ended, Swapping
    <3> QED
      BY <1>2, <1>4, <2>9, <3>3, MovesRuns DEF BaseInv
  <2> QED
    BY <2>11, <2>12
<1> HIDE DEF x
<1>5. \/ Goto(r, "failed")
      \/ /\ vendor # Absent /\ path \in DOMAIN vendor.files
         /\ EntryMatches(entry, content) /\ run' = [run EXCEPT ![r] = x]
  BY <1>1, <1>2 DEF ReadArtifact, BaseInv, RunsInv, Listing, x
<1> QED
  BY <1>3, <1>4, <1>5

\* Once the directory holds just the listed artifacts, each was read as listed.
LEMMA GatheredIsBundle ==
  ASSUME NEW x, Listed(x.json), Gathered(x, Len(Listing(x.json))),
         ParseSingleChecksum(x.json, x.sum), BundleMetadata(x.json),
         NEW paths, InventoryExact(x.json, paths)
  PROVE  DOMAIN x.files = Range(Artifacts) /\ ReadBundle(Held(x))
<1> DEFINE listed == Listing(x.json)
<1>1. /\ DOMAIN listed = 1..Len(listed) /\ DOMAIN Artifacts = DOMAIN listed
      /\ \A i \in DOMAIN listed : Artifacts[i] = listed[i].path
  BY ListingFacts DEF InventoryExact, Listing
<1>2. DOMAIN x.files = Range(Artifacts)
  BY <1>1 DEF Gathered, Range
<1>3. ASSUME NEW i \in DOMAIN listed
      PROVE  listed[i].path \in DOMAIN x.files /\ EntryMatches(listed[i], x.files[listed[i].path])
  <2>1. listed[i].path \in DOMAIN x.files
    BY <1>1, <1>3 DEF Gathered
  <2>2. PICK j \in DOMAIN listed :
          listed[j].path = listed[i].path /\ EntryMatches(listed[j], x.files[listed[i].path])
    BY <1>1, <2>1 DEF Gathered
  <2>3. Artifacts[j] = Artifacts[i]
    BY <1>1, <2>2
  <2>4. j = i
    BY <1>1, <2>3, ContractSyncAssumption DEF IsInjective
  <2> QED
    BY <2>1, <2>2, <2>4
<1>4. InventoryExact(x.json, DOMAIN x.files)
  BY <1>2 DEF InventoryExact
<1>5. \A entry \in Range(Doc[x.json].artifacts) :
        entry.path \in DOMAIN x.files /\ EntryMatches(entry, x.files[entry.path])
  BY <1>3 DEF Range, Listing
<1> QED
  BY <1>2, <1>4, <1>5 DEF ReadBundle, Held

LEMMA InventoryMoves ==
  ASSUME BaseInv, NEW r \in Runs, Inventory(r)
  PROVE  RunsInv' /\ Moves(r)
<1> DEFINE x == [run[r] EXCEPT !.pc = "validate", !.k = 1]
<1>1. run[r].pc = "inventory"
  BY DEF Inventory
<1>2. r \in Active /\ run[r] \in RunType /\ Evidence(run[r])
  BY <1>1, ActiveFacts DEF BaseInv, Ended
<1>3. CASE Goto(r, "failed")
  BY <1>2, <1>3, StopKeeps DEF BaseInv
<1>4. CASE InventoryExact(run[r].json, DOMAIN vendor.files) /\ Goto(r, "validate")
  <2>1. /\ x \in RunType /\ x.pc = "validate" /\ x.phase = run[r].phase
        /\ x.mode = run[r].mode /\ x.root = run[r].root /\ x.pid = run[r].pid
        /\ x.json = run[r].json /\ x.sum = run[r].sum /\ x.files = run[r].files
    BY <1>2 DEF RunType
  <2>2. DOMAIN x.files = Range(Artifacts) /\ ReadBundle(Held(run[r]))
    BY <1>1, <1>2, <1>4, <2>1, GatheredIsBundle DEF Evidence
  <2>3. Held(x) = Held(run[r])
    BY <2>1 DEF Held
  <2>4. Evidence(x)
    BY <1>1, <1>2, <2>1, <2>2, <2>3 DEF Evidence, Listed, Ended, Swapping
  <2>5. run' = [run EXCEPT ![r] = x]
    BY <1>4, GotoIs DEF BaseInv
  <2> QED
    BY <1>2, <2>1, <2>4, <2>5, MovesRuns DEF BaseInv
<1> QED
  BY <1>3, <1>4 DEF Inventory

LEMMA ValidateMoves ==
  ASSUME BaseInv, NEW r \in Runs, Validate(r)
  PROVE  RunsInv' /\ Moves(r)
<1> DEFINE to == IF run[r].phase = "source" THEN "exists" ELSE "compare"
           x == [run[r] EXCEPT !.pc = to, !.k = 1]
<1>1. run[r].pc = "validate"
  BY DEF Validate
<1>2. r \in Active /\ run[r] \in RunType /\ Evidence(run[r])
  BY <1>1, ActiveFacts DEF BaseInv, Ended
<1>3. CASE Goto(r, "failed")
  BY <1>2, <1>3, StopKeeps DEF BaseInv
<1>4. CASE ValidateBundleState(run[r].json, run[r].files) /\ Goto(r, to)
  <2>1. /\ x \in RunType /\ x.pc = to /\ x.phase = run[r].phase /\ x.k = 1
        /\ x.mode = run[r].mode /\ x.root = run[r].root /\ x.pid = run[r].pid
        /\ x.json = run[r].json /\ x.sum = run[r].sum /\ x.files = run[r].files
    BY <1>2 DEF RunType
  <2>2. Held(x) = Held(run[r])
    BY <2>1 DEF Held
  <2>3. Accepted(Held(x))
    BY <1>1, <1>2, <1>4, <2>1, <2>2 DEF Accepted, Evidence, Held
  <2>4. (x.phase = "source" /\ x.pc = "exists") \/ (x.phase = "check" /\ x.pc = "compare")
    <3>1. run[r].phase \in {"source", "check"}
      BY <1>2 DEF RunType
    <3> HIDE DEF x
    <3>2. CASE run[r].phase = "source"
      BY <2>1, <3>2
    <3>3. CASE run[r].phase = "check"
      BY <2>1, <3>3
    <3> QED
      BY <3>1, <3>2, <3>3
  <2>5. Evidence(x)
    BY <1>1, <1>2, <2>1, <2>2, <2>3, <2>4, DestinationFacts DEF Evidence, Ended, Swapping
  <2>6. run' = [run EXCEPT ![r] = x]
    BY <1>4, GotoIs DEF BaseInv
  <2> QED
    BY <1>2, <2>1, <2>5, <2>6, MovesRuns DEF BaseInv
<1> QED
  BY <1>3, <1>4 DEF Validate

-----------------------------------------------------------------------------
(* Swapping, writing, comparing, and what ends a run.                      *)

LEMMA GotoMoves ==
  ASSUME RunsInv, NEW r \in Runs, run[r].pc \notin Ended,
         NEW pc \in {"exists", "aside", "swap", "drop", "rescue", "back", "cleanup",
                     "write", "failed", "ok"},
         Goto(r, pc),
         Evidence([run[r] EXCEPT !.pc = pc, !.k = 1])
  PROVE  RunsInv' /\ Moves(r)
<1>1. r \in Active /\ run[r] \in RunType
  BY ActiveFacts
<1>2. /\ [run[r] EXCEPT !.pc = pc, !.k = 1] \in RunType
      /\ [run[r] EXCEPT !.pc = pc, !.k = 1].pid = run[r].pid
  BY <1>1 DEF RunType, Ended
<1> QED
  BY <1>1, <1>2, GotoIs, MovesRuns

\* From one call of writeVendoredExport to the next, or to the catch.
LEMMA SwapMoves ==
  ASSUME RunsInv, NEW r \in Runs, NEW pc, Goto(r, pc),
         \/ run[r].pc \in Swapping /\ pc \in Swapping
         \/ run[r].pc \in Swapping \union {"rescue", "back"} /\ pc \in {"rescue", "back", "cleanup"}
         \/ run[r].pc = "cleanup" /\ pc = "failed"
  PROVE  RunsInv' /\ Moves(r)
<1> DEFINE x == [run[r] EXCEPT !.pc = pc, !.k = 1]
<1>1. run[r].pc \notin Ended /\ run[r] \in RunType /\ Evidence(run[r])
  BY ActiveFacts DEF RunsInv, Swapping, Ended
<1>2. /\ x.pc = pc /\ x.k = 1 /\ x.phase = run[r].phase
      /\ x.mode = run[r].mode /\ x.root = run[r].root /\ x.pid = run[r].pid
      /\ x.json = run[r].json /\ x.sum = run[r].sum /\ x.files = run[r].files
  BY <1>1 DEF RunType
<1>3. Held(x) = Held(run[r])
  BY <1>2 DEF Held
<1>4. Evidence(x)
  BY <1>1, <1>2, <1>3, DestinationFacts DEF Evidence, Swapping, Ended
<1>5. pc \in {"exists", "aside", "swap", "drop", "rescue", "back", "cleanup",
              "write", "failed", "ok"}
  BY DEF Swapping
<1> QED
  BY <1>1, <1>4, <1>5, GotoMoves

LEMMA SwapSteps ==
  ASSUME BaseInv, NEW r \in Runs, Swap(r)
  PROVE  RunsInv' /\ Moves(r)
<1>1. CASE Exists(r)
  BY <1>1, SwapMoves DEF BaseInv, Exists, Swapping
<1>2. CASE RenameAside(r)
  BY <1>2, SwapMoves DEF BaseInv, RenameAside, Swapping
<1>3. CASE RenameStaging(r)
  BY <1>3, SwapMoves DEF BaseInv, RenameStaging, Swapping
<1>4. CASE DropPrevious(r)
  BY <1>4, SwapMoves DEF BaseInv, DropPrevious, Swapping
<1>5. CASE Rescue(r)
  BY <1>5, SwapMoves DEF BaseInv, Rescue, Swapping
<1>6. CASE RenameBack(r)
  BY <1>6, SwapMoves DEF BaseInv, RenameBack, Swapping
<1>7. CASE Cleanup(r)
  BY <1>7, SwapMoves DEF BaseInv, Cleanup, Swapping
<1> QED
  BY <1>1, <1>2, <1>3, <1>4, <1>5, <1>6, <1>7 DEF Swap

LEMMA AtomicWriteMoves ==
  ASSUME BaseInv, NEW r \in Runs, AtomicWrite(r)
  PROVE  RunsInv' /\ Moves(r)
<1> DEFINE more == [run[r] EXCEPT !.k = @ + 1]
           done == [run[r] EXCEPT !.pc = "bundle", !.phase = "check", !.k = 1]
<1>1. run[r].pc = "write"
  BY DEF AtomicWrite
<1>2. r \in Active /\ run[r] \in RunType /\ Evidence(run[r]) /\ run[r].k \in DOMAIN Destinations
  BY <1>1, ActiveFacts DEF BaseInv, Ended, Evidence
<1>3. CASE run[r].k = Len(Destinations)
  <2>1. run' = [run EXCEPT ![r] = done]
    BY <1>2, <1>3 DEF AtomicWrite, BaseInv, RunsInv
  <2>2. /\ done \in RunType /\ done.pc = "bundle" /\ done.phase = "check"
        /\ done.mode = run[r].mode /\ done.root = run[r].root /\ done.pid = run[r].pid
    BY <1>2 DEF RunType
  <2>3. Evidence(done)
    BY <1>1, <1>2, <2>2 DEF Evidence, Swapping, Ended
  <2> QED
    BY <1>2, <2>1, <2>2, <2>3, MovesRuns DEF BaseInv
<1>4. CASE run[r].k # Len(Destinations)
  <2>1. run' = [run EXCEPT ![r] = more]
    BY <1>2, <1>4 DEF AtomicWrite, BaseInv, RunsInv
  <2>2. /\ more \in RunType /\ more.pc = "write" /\ more.phase = run[r].phase
        /\ more.k = run[r].k + 1
        /\ more.mode = run[r].mode /\ more.root = run[r].root /\ more.pid = run[r].pid
        /\ more.json = run[r].json /\ more.sum = run[r].sum /\ more.files = run[r].files
    BY <1>1, <1>2 DEF RunType
  <2>3. Held(more) = Held(run[r])
    BY <2>2 DEF Held
  <2>4. more.k \in DOMAIN Destinations
    BY <1>2, <1>4, <2>2, DestinationFacts
  <2>5. Evidence(more)
    BY <1>1, <1>2, <2>2, <2>3, <2>4 DEF Evidence, Swapping, Ended
  <2> QED
    BY <1>2, <2>1, <2>2, <2>5, MovesRuns DEF BaseInv
<1> QED
  BY <1>3, <1>4

LEMMA AssertBytesMoves ==
  ASSUME BaseInv, NEW r \in Runs, AssertBytes(r)
  PROVE  RunsInv' /\ Moves(r)
<1> DEFINE more == [run[r] EXCEPT !.k = @ + 1]
           ok == [run[r] EXCEPT !.pc = "ok", !.k = 1]
<1>1. run[r].pc = "compare"
  BY DEF AssertBytes
<1>2. r \in Active /\ run[r] \in RunType /\ Evidence(run[r]) /\ run[r].k \in DOMAIN Destinations
  BY <1>1, ActiveFacts DEF BaseInv, Ended, Evidence
<1>3. CASE Goto(r, "failed")
  BY <1>2, <1>3, StopKeeps DEF BaseInv
<1>4. CASE Goto(r, "ok")
  <2>1. ok.pc = "ok" /\ ok.phase = run[r].phase /\ ok.mode = run[r].mode /\ ok.root = run[r].root
    BY <1>2 DEF RunType
  <2>2. Evidence(ok)
    BY <1>1, <1>2, <2>1 DEF Evidence, Swapping, Ended
  <2> QED
    BY <1>1, <1>4, <2>2, GotoMoves DEF BaseInv, Ended
<1>5. CASE ~Compared(run[r].k) /\ run' = [run EXCEPT ![r].k = @ + 1]
  <2>1. run' = [run EXCEPT ![r] = more]
    BY <1>2, <1>5 DEF BaseInv, RunsInv
  <2>2. /\ more \in RunType /\ more.pc = "compare" /\ more.phase = run[r].phase
        /\ more.k = run[r].k + 1
        /\ more.mode = run[r].mode /\ more.root = run[r].root /\ more.pid = run[r].pid
        /\ more.json = run[r].json /\ more.sum = run[r].sum /\ more.files = run[r].files
    BY <1>1, <1>2 DEF RunType
  <2>3. Held(more) = Held(run[r])
    BY <2>2 DEF Held
  <2>4. more.k \in DOMAIN Destinations
    BY <1>2, <1>5, <2>2, DestinationFacts DEF Compared
  <2>5. Evidence(more)
    BY <1>1, <1>2, <2>2, <2>3, <2>4 DEF Evidence, Swapping, Ended
  <2> QED
    BY <1>2, <2>1, <2>2, <2>5, MovesRuns DEF BaseInv
<1> QED
  BY <1>3, <1>4, <1>5 DEF AssertBytes

\* A failing call: inside the swap it leads to the catch or the finally, and
\* elsewhere it ends the run.
FaultTo(pc) ==
  CASE pc \in {"exists", "aside", "swap", "drop"} -> "rescue"
    [] pc = "back" -> "cleanup"
    [] OTHER -> "failed"

LEMMA FaultMoves ==
  ASSUME BaseInv, NEW r \in Runs, Fault(r)
  PROVE  RunsInv' /\ Moves(r) /\ run'[r].pc = FaultTo(run[r].pc) /\ ~run'[r].alone
<1> DEFINE to == FaultTo(run[r].pc)
           x == [run[r] EXCEPT !.alone = FALSE, !.k = 1, !.pc = to]
<1>1. run[r].pc \notin Ended \union {"validate", "rescue", "cleanup"}
  BY DEF Fault
<1>2. r \in Active /\ run[r] \in RunType /\ Evidence(run[r])
  BY <1>1, ActiveFacts DEF BaseInv
<1>3. run' = [run EXCEPT ![r] = x]
  BY <1>2 DEF Fault, FaultTo, BaseInv, RunsInv
<1>4. /\ to \in {"rescue", "cleanup", "failed"}
      /\ to \in {"rescue", "cleanup"} => run[r].pc \in {"back"} \union Swapping
  BY DEF FaultTo, Swapping
<1> HIDE DEF to
<1>5. /\ x \in RunType /\ x.pc = to /\ x.phase = run[r].phase /\ ~x.alone
      /\ x.mode = run[r].mode /\ x.root = run[r].root /\ x.pid = run[r].pid
  BY <1>2, <1>4 DEF RunType, Ended
<1>6. Evidence(x)
  BY <1>1, <1>2, <1>4, <1>5 DEF Evidence, Swapping, Ended
<1>7. RunsInv' /\ Moves(r)
  BY <1>2, <1>3, <1>5, <1>6, MovesRuns DEF BaseInv
<1>8. run'[r] = x
  BY <1>2, <1>3 DEF BaseInv, RunsInv
<1> QED
  BY <1>5, <1>7, <1>8 DEF to

\* A run begins; it is alone only if no other is active.
LEMMA StartFacts ==
  ASSUME BaseInv, NEW r \in Runs, Start(r)
  PROVE  /\ RunsInv' /\ PidsDiffer'
         /\ run[r].pc = "idle" /\ run'[r].pc = "bundle"
         /\ run'[r].alone => Active = {} /\ previous[run'[r].pid] = Absent
         /\ \A s \in Runs \ {r} :
              IF s \in Active THEN run'[s] = [run[s] EXCEPT !.alone = FALSE] ELSE run'[s] = run[s]
         /\ run'[r].phase = IF run'[r].mode = "sync" THEN "source" ELSE "check"
<1>1. PICK mode \in {"check", "check-release", "sync"},
           root \in DOMAIN External \union {Vendored},
           pid \in Pids \ {run[s].pid : s \in Active} :
        /\ mode # "sync" => root = Vendored
        /\ run' = [s \in Runs |->
             IF s = r
             THEN [Idle EXCEPT !.pc = "bundle", !.mode = mode, !.root = root, !.pid = pid,
                      !.phase = IF mode = "sync" THEN "source" ELSE "check",
                      !.alone = Active = {} /\ previous[pid] = Absent]
             ELSE IF s \in Active THEN [run[s] EXCEPT !.alone = FALSE] ELSE run[s]]
  BY DEF Start
<1> DEFINE phase == IF mode = "sync" THEN "source" ELSE "check"
           alone == Active = {} /\ previous[pid] = Absent
           x == [pc |-> "bundle", phase |-> phase, mode |-> mode, root |-> root,
                 pid |-> pid, k |-> 1, json |-> Absent, sum |-> Absent,
                 files |-> <<>>, alone |-> alone]
<1>2. /\ run'[r] = x /\ DOMAIN run' = Runs
      /\ \A s \in Runs \ {r} :
           IF s \in Active THEN run'[s] = [run[s] EXCEPT !.alone = FALSE] ELSE run'[s] = run[s]
  BY <1>1 DEF Idle
<1>3. alone \in BOOLEAN /\ phase \in {"source", "check"} /\ (phase = "source" => mode = "sync")
  OBVIOUS
<1> HIDE DEF alone, phase
<1>4. x \in RunType
  BY <1>3, EmptyFiles DEF RunType, Contents
<1>5. Evidence(x)
  BY <1>1, <1>3 DEF Evidence, Swapping, Ended
<1> HIDE DEF x
<1>6. ASSUME NEW s \in Runs \ {r}
      PROVE  /\ run'[s] \in RunType /\ Evidence(run'[s]) /\ run'[s].pid = run[s].pid
             /\ run'[s].pc = run[s].pc
  <2>1. run[s] \in RunType /\ Evidence(run[s])
    BY DEF BaseInv, RunsInv
  <2>2. CASE s \notin Active
    BY <1>2, <2>1, <2>2
  <2>3. CASE s \in Active
    <3> DEFINE y == [run[s] EXCEPT !.alone = FALSE]
    <3>1. /\ y \in RunType /\ y.pc = run[s].pc /\ y.phase = run[s].phase /\ y.k = run[s].k
          /\ y.mode = run[s].mode /\ y.root = run[s].root /\ y.pid = run[s].pid
          /\ y.json = run[s].json /\ y.sum = run[s].sum /\ y.files = run[s].files
      BY <2>1 DEF RunType
    <3>2. run'[s] = y
      BY <1>2, <2>3
    <3> HIDE DEF y
    <3>3. Held(y) = Held(run[s]) /\ \A n : Gathered(y, n) <=> Gathered(run[s], n)
      BY <3>1 DEF Held, Gathered
    <3>4. Evidence(y)
      BY <2>1, <3>1, <3>3 DEF Evidence
    <3> QED
      BY <3>1, <3>2, <3>4
  <2> QED
    BY <2>2, <2>3
<1>7. RunsInv'
  <2>1. run' = [s \in Runs |-> run'[s]]
    BY <1>1
  <2>2. \A s \in Runs : run'[s] \in RunType /\ Evidence(run'[s])
    BY <1>2, <1>4, <1>5, <1>6
  <2> QED
    BY <2>1, <2>2 DEF RunsInv
<1>8. /\ x.pid = pid /\ x.pc = "bundle" /\ x.mode = mode /\ x.phase = phase
      /\ (x.alone => alone)
  BY DEF x
<1>9. PidsDiffer'
  <2>1. \A s \in Active' \ {r} : s \in Active /\ run'[s].pid = run[s].pid
    BY <1>6 DEF Active
  <2>2. run'[r].pid = pid
    BY <1>2, <1>8
  <2> QED
    BY <2>1, <2>2 DEF PidsDiffer, BaseInv
<1>10. run[r].pc = "idle"
  BY DEF Start
<1> QED
  BY <1>2, <1>7, <1>8, <1>9, <1>10 DEF alone, phase

-----------------------------------------------------------------------------
(* Types.                                                                  *)

LEMMA KillMoves ==
  ASSUME BaseInv, NEW r \in Runs, Kill(r)
  PROVE  RunsInv' /\ Moves(r)
BY StopKeeps DEF Kill, BaseInv

LEMMA StepMoves ==
  ASSUME BaseInv, NEW r \in Runs, Step(r) \/ Fault(r) \/ Kill(r)
  PROVE  RunsInv' /\ Moves(r)
<1>1. CASE Read(r)
  BY <1>1, ReadExternalMoves, ReadBundleJsonMoves, ReadChecksumMoves, ReadArtifactMoves,
     InventoryMoves, ValidateMoves DEF Read
<1> QED
  BY <1>1, SwapSteps, AtomicWriteMoves, AssertBytesMoves, FaultMoves, KillMoves DEF Step

\* What a run puts in the place of the export is one.
LEMMA StagedIsExport ==
  ASSUME BaseInv, NEW r \in Runs, run[r].pc \in {"validate", "compare"} \union Swapping
  PROVE  Staged(r) = Held(run[r]) /\ IsExport(Staged(r)) /\ Staged(r) # Absent
<1> DEFINE x == run[r]
<1>1. /\ x \in RunType /\ Listed(x.json) /\ x.sum \in DOMAIN Doc
      /\ DOMAIN x.files = Range(Artifacts)
  BY DEF BaseInv, RunsInv, Evidence
<1>2. x.files \in [Range(Artifacts) -> DOMAIN Doc]
  <2>1. PICK S \in SUBSET Range(Artifacts) : x.files \in [S -> DOMAIN Doc]
    BY <1>1 DEF RunType, FileSets
  <2> QED
    BY <1>1, <2>1
<1>3. Staged(r) = [json |-> x.json, sum |-> x.sum, files |-> x.files]
  BY DEF Staged
<1>4. Range(x.files) \subseteq DOMAIN Doc
  BY <1>2 DEF Range
<1>5. IsExport(Staged(r))
  BY <1>1, <1>2, <1>3, <1>4 DEF IsExport, Listed, Listing
<1>6. Staged(r) \in [json : DOMAIN Doc, sum : DOMAIN Doc, files : [Range(Artifacts) -> DOMAIN Doc]]
  BY <1>1, <1>2, <1>3 DEF Listed
<1>7. Staged(r) # Absent
  BY <1>6, ContractSyncAssumption
<1> QED
  BY <1>3, <1>5, <1>7 DEF Held

LEMMA TreeKeeps ==
  ASSUME BaseInv, NEW r \in Runs, Start(r) \/ Step(r) \/ Fault(r) \/ Kill(r)
  PROVE  TreeInv'
<1>1. CASE UNCHANGED <<tree, outside>>
  BY <1>1 DEF BaseInv, TreeInv, tree, outside
<1>2. CASE Start(r) \/ Read(r) \/ Exists(r) \/ Rescue(r) \/ AssertBytes(r)
  BY <1>1, <1>2 DEF Start, Read, Exists, Rescue, AssertBytes, ReadExternal, ReadBundleJson,
     ReadChecksum, ReadArtifact, Inventory, Validate
<1>3. CASE RenameAside(r)
  BY <1>3 DEF RenameAside, BaseInv, TreeInv, outside
<1>4. CASE RenameStaging(r)
  <2>1. IsExport(Staged(r))
    BY <1>4, StagedIsExport DEF RenameStaging, Swapping
  <2> QED
    BY <1>4, <2>1 DEF RenameStaging, BaseInv, TreeInv, outside
<1>5. CASE DropPrevious(r) \/ Cleanup(r)
  BY <1>5 DEF DropPrevious, Cleanup, BaseInv, TreeInv, outside
<1>6. CASE RenameBack(r)
  <2>1. run[r].pid \in Pids
    BY <1>6 DEF RenameBack, BaseInv, RunsInv, Evidence, Ended
  <2> QED
    BY <1>6, <2>1 DEF RenameBack, BaseInv, TreeInv, outside
<1>7. CASE AtomicWrite(r)
  BY <1>7 DEF AtomicWrite, BaseInv, TreeInv, outside
<1>8. CASE Fault(r) \/ Kill(r)
  BY <1>8, ContractSyncAssumption DEF Fault, Kill, BaseInv, TreeInv, tree
<1> QED
  BY <1>2, <1>3, <1>4, <1>5, <1>6, <1>7, <1>8 DEF Step, Swap

LEMMA InitBase == Init => BaseInv
<1> SUFFICES ASSUME Init PROVE BaseInv
  OBVIOUS
<1>1. Idle \in RunType
  BY EmptyFiles DEF Idle, RunType, Ended, Contents
<1>2. Evidence(Idle)
  BY DEF Idle, Evidence, Ended, Swapping
<1>3. RunsInv
  BY <1>1, <1>2 DEF Init, RunsInv
<1>4. Active = {}
  BY DEF Init, Active, Idle, Ended
<1> QED
  BY <1>3, <1>4, ContractSyncAssumption DEF Init, BaseInv, TreeInv, PidsDiffer

LEMMA NextBase == BaseInv /\ [Next]_vars => BaseInv'
<1> SUFFICES ASSUME BaseInv, [Next]_vars PROVE BaseInv'
  OBVIOUS
<1>1. ASSUME NEW r \in Runs, Start(r) PROVE BaseInv'
  BY <1>1, StartFacts, TreeKeeps DEF BaseInv
<1>2. ASSUME NEW r \in Runs, Step(r) \/ Fault(r) \/ Kill(r) PROVE BaseInv'
  BY <1>2, StepMoves, MovesPids, TreeKeeps DEF BaseInv
<1>3. CASE UNCHANGED vars
  BY <1>3 DEF vars, BaseInv, RunsInv, PidsDiffer, Active, TreeInv
<1> QED
  BY <1>1, <1>2, <1>3 DEF Next

LEMMA SpecBase == Spec => []BaseInv
BY InitBase, NextBase, PTL DEF Spec

\* No variable leaves its domain, whatever is torn, lost or killed, and no two
\* processes that live at once share the directory of a process id.
THEOREM TypeCorrect == Spec => []TypeOK
<1>1. ASSUME BaseInv PROVE TypeOK
  <2>1. ASSUME NEW r \in Runs
        PROVE  /\ DOMAIN run[r].files \subseteq Range(Artifacts)
               /\ Range(run[r].files) \subseteq DOMAIN Doc
    <3>1. run[r].files \in FileSets
      BY <1>1 DEF BaseInv, RunsInv, RunType
    <3>2. PICK S \in SUBSET Range(Artifacts) : run[r].files \in [S -> DOMAIN Doc]
      BY <3>1 DEF FileSets
    <3> QED
      BY <3>2 DEF Range
  <2>2. ASSUME NEW r \in Runs
        PROVE  /\ run[r].pc \in Ended \union
                    {"bundle", "sum", "artifacts", "inventory", "validate", "exists", "aside",
                     "swap", "drop", "rescue", "back", "cleanup", "write", "compare"}
               /\ run[r].phase = "source" => run[r].mode = "sync" \/ run[r].pc = "idle"
               /\ {run[r].json, run[r].sum} \subseteq DOMAIN Doc \union {Absent}
               /\ run[r].pc \in {"write", "compare"} => run[r].k \in DOMAIN Destinations
    <3>1. run[r] \in RunType /\ Evidence(run[r])
      BY <1>1 DEF BaseInv, RunsInv
    <3> QED
      BY <3>1 DEF RunType, Contents, Evidence
  <2> QED
    BY <1>1, <2>1, <2>2 DEF TypeOK, BaseInv, TreeInv, PidsDiffer
<1> QED
  BY <1>1, SpecBase, PTL

-----------------------------------------------------------------------------
(* The last copy.                                                          *)

\* Where a run is about to remove the directory of its process id, or may come
\* to it with a single failure still to happen.
Removing(n) == {"drop", "cleanup"} \union (IF n = 0 THEN {"aside", "rescue", "back"} ELSE {})

Safe(p) == \A r \in Runs : run[r].pid = p => run[r].pc \notin Removing(faults)

\* Whoever moved the export aside last still keeps it: while its place is empty,
\* a run under that process id can only go forward to the second rename.
AsideInv ==
  /\ \A r \in Runs : run[r].pc = "back" => previous[run[r].pid] # Absent
  /\ vendor = Absent /\ Absent \notin Vendors /\ faults <= 1 =>
       \E p \in Pids : previous[p] # Absent /\ Safe(p)

\* The runs that live now have process ids of their own.
LEMMA OwnPid ==
  ASSUME BaseInv, NEW r \in Runs, run[r].pc \notin Ended,
         NEW s \in Runs \ {r}, run[s].pid = run[r].pid
  PROVE  run[s].pc \in Ended
BY DEF BaseInv, PidsDiffer, Active

LEMMA RemovingFacts ==
  ASSUME NEW n
  PROVE  /\ Removing(n) \subseteq {"drop", "cleanup", "aside", "rescue", "back"}
         /\ Removing(n) \cap Ended = {}
         /\ {"drop", "cleanup"} \subseteq Removing(n)
BY DEF Removing, Ended

LEMMA SafeStays ==
  ASSUME NEW r \in Runs, Moves(r), faults' = faults, NEW p, Safe(p),
         run[r].pid = p => run'[r].pc \notin Removing(faults)
  PROVE  Safe(p)'
BY DEF Safe, Moves

\* A directory of a live run that is not about to remove it is safe.
LEMMA OwnIsSafe ==
  ASSUME BaseInv, NEW r \in Runs, Moves(r), run'[r].pc \notin Removing(faults'),
         NEW p, run[r].pid = p
  PROVE  Safe(p)'
<1> SUFFICES ASSUME NEW s \in Runs, run'[s].pid = p
             PROVE  run'[s].pc \notin Removing(faults')
  BY DEF Safe
<1>1. CASE s = r
  BY <1>1
<1>2. CASE s # r
  <2>1. run'[s] = run[s] /\ run[r].pc \notin Ended
    BY <1>2 DEF Moves, Active
  <2>2. run[s].pc \in Ended
    BY <1>2, <2>1, OwnPid
  <2> QED
    BY <2>1, <2>2, RemovingFacts
<1> QED
  BY <1>1, <1>2

\* A step that changes nothing aside, and does not take its run towards removal.
LEMMA HarmlessKeeps ==
  ASSUME BaseInv, AsideInv, NEW r \in Runs, Moves(r), UNCHANGED <<previous, faults>>,
         vendor' = Absent => vendor = Absent,
         run'[r].pc \notin {"aside", "drop", "rescue", "back", "cleanup"}
  PROVE  AsideInv'
<1>1. \A s \in Runs : run'[s].pc = "back" => previous'[run'[s].pid] # Absent
  BY DEF AsideInv, Moves
<1>2. ASSUME vendor' = Absent, Absent \notin Vendors, faults' <= 1
      PROVE  \E p \in Pids : previous'[p] # Absent /\ Safe(p)'
  <2>1. PICK p \in Pids : previous[p] # Absent /\ Safe(p)
    BY <1>2 DEF AsideInv
  <2>2. Safe(p)'
    BY <2>1, SafeStays, RemovingFacts
  <2> QED
    BY <2>1, <2>2
<1> QED
  BY <1>1, <1>2 DEF AsideInv

LEMMA ReadAside ==
  ASSUME BaseInv, AsideInv, NEW r \in Runs, Read(r) \/ AtomicWrite(r) \/ AssertBytes(r) \/ Kill(r)
  PROVE  AsideInv'
<1>1. Moves(r) /\ UNCHANGED <<vendor, previous, faults>>
  <2>1. Moves(r)
    BY StepMoves DEF Step
  <2> QED
    BY <2>1 DEF Read, AtomicWrite, AssertBytes, ReadExternal, ReadBundleJson, ReadChecksum,
       ReadArtifact, Inventory, Validate, Kill, tree, outside
<1>2. r \in Active /\ run \in [Runs -> RunType]
  BY <1>1 DEF Moves, BaseInv, RunsInv
<1> DEFINE bad == {"aside", "drop", "rescue", "back", "cleanup"}
<1>3. \A pc : Goto(r, pc) => run'[r].pc = pc
  BY <1>2 DEF Goto, RunType
<1>4. CASE ReadExternal(r)
  BY <1>1, <1>2, <1>3, <1>4, HarmlessKeeps DEF ReadExternal, RunType
<1>5. CASE ReadBundleJson(r)
  BY <1>1, <1>2, <1>3, <1>5, HarmlessKeeps DEF ReadBundleJson, RunType
<1>6. CASE ReadChecksum(r)
  BY <1>1, <1>2, <1>3, <1>6, HarmlessKeeps DEF ReadChecksum, RunType
<1>7. CASE ReadArtifact(r)
  <2> DEFINE listed == Doc[run[r].json].artifacts
             to == IF run[r].k = Len(listed) THEN "inventory" ELSE run[r].pc
             step(files, k) == [run EXCEPT ![r].files = files, ![r].k = k, ![r].pc = to]
  <2>0. run[r].pc = "artifacts" /\ to \in {"inventory", "artifacts"}
    BY <1>7 DEF ReadArtifact
  <2>2. ASSUME NEW files, NEW k, run' = step(files, k)
        PROVE  run'[r].pc = to
    <3> HIDE DEF to
    <3> QED
      BY <1>2, <2>2 DEF RunType
  <2>3. \/ Goto(r, "failed")
        \/ \E files, k : run' = step(files, k)
    <3> DEFINE path == listed[run[r].k].path
               files == [p \in DOMAIN run[r].files \union {path} |->
                           IF p = path THEN vendor.files[path] ELSE run[r].files[p]]
    <3>1. Goto(r, "failed") \/ run' = step(files, run[r].k + 1)
      BY <1>2, <1>7 DEF ReadArtifact
    <3> HIDE DEF files, step
    <3> QED
      BY <3>1
  <2>1. run'[r].pc \in {"failed", "inventory", "artifacts"}
    <3> HIDE DEF to, step
    <3> QED
      BY <1>3, <2>0, <2>2, <2>3
  <2> QED
    BY <1>1, <2>1, HarmlessKeeps
<1>8. CASE Inventory(r)
  BY <1>1, <1>3, <1>8, HarmlessKeeps DEF Inventory
<1>9. CASE Validate(r)
  BY <1>1, <1>3, <1>9, HarmlessKeeps DEF Validate
<1>10. CASE AtomicWrite(r)
  <2>1. run'[r].pc \in {"write", "bundle"}
    BY <1>2, <1>10 DEF AtomicWrite, RunType
  <2> QED
    BY <1>1, <2>1, HarmlessKeeps
<1>11. CASE AssertBytes(r)
  <2>1. run'[r].pc \in {"failed", "compare", "ok"}
    BY <1>2, <1>3, <1>11 DEF AssertBytes, RunType
  <2> QED
    BY <1>1, <2>1, HarmlessKeeps
<1>12. CASE Kill(r)
  BY <1>1, <1>3, <1>12, HarmlessKeeps DEF Kill
<1> QED
  BY <1>4, <1>5, <1>6, <1>7, <1>8, <1>9, <1>10, <1>11, <1>12 DEF Read

LEMMA SwapAside == ASSUME BaseInv, AsideInv, NEW r \in Runs, Swap(r) PROVE AsideInv'
<1>0. PICK q : q = run[r].pid
  OBVIOUS
<1>1. Moves(r) /\ RunsInv' /\ UNCHANGED <<faults>>
  <2>1. Moves(r) /\ RunsInv'
    BY SwapSteps
  <2> QED
    BY <2>1 DEF Swap, Exists, RenameAside, RenameStaging, DropPrevious, Rescue, RenameBack,
       Cleanup, outside
<1>2. r \in Active /\ run \in [Runs -> RunType] /\ q \in Pids /\ run[r].pc \notin Ended
  BY <1>0, <1>1 DEF Moves, BaseInv, RunsInv, Active, Evidence
<1>3. \A pc : Goto(r, pc) => run'[r].pc = pc
  BY <1>2 DEF Goto, RunType
<1>4. DOMAIN previous = Pids
  BY DEF BaseInv, TreeInv
<1>5. ASSUME NEW s \in Runs \ {r}, run'[s].pc = "back"
      PROVE  previous[run[s].pid] # Absent /\ run'[s] = run[s] /\ run[s].pid # q
  <2>1. run'[s] = run[s]
    BY <1>1 DEF Moves
  <2> QED
    BY <1>0, <1>2, <1>5, <2>1, OwnPid DEF AsideInv, Ended
<1>6. run'[r].pid = q
  BY <1>0, <1>1 DEF Moves
<1>7. ASSUME vendor = Absent, Absent \notin Vendors, faults' <= 1
      PROVE  \E p \in Pids : previous[p] # Absent /\ Safe(p)
  BY <1>1, <1>7 DEF AsideInv
<1>8. CASE Exists(r)
  <2>1. CASE vendor = Absent
    <3>1. run'[r].pc = "swap" /\ UNCHANGED <<vendor, previous>>
      BY <1>3, <1>8, <2>1 DEF Exists, tree
    <3> QED
      BY <1>1, <3>1, HarmlessKeeps
  <2>2. CASE vendor # Absent
    BY <1>3, <1>5, <1>6, <1>8, <2>2 DEF Exists, tree, AsideInv
  <2> QED
    BY <2>1, <2>2
<1>9. CASE RenameAside(r)
  <2>1. CASE vendor # Absent /\ previous[q] = Absent
    <3>1. previous' = [previous EXCEPT ![q] = vendor] /\ run'[r].pc = "swap"
      BY <1>0, <1>3, <1>9, <2>1 DEF RenameAside
    <3>2. previous'[q] # Absent /\ \A p \in Pids \ {q} : previous'[p] = previous[p]
      BY <1>2, <1>4, <2>1, <3>1
    <3>3. Safe(q)'
      BY <1>0, <1>1, <3>1, OwnIsSafe, RemovingFacts
    <3>4. \A s \in Runs : run'[s].pc = "back" => previous'[run'[s].pid] # Absent
      <4> SUFFICES ASSUME NEW s \in Runs, run'[s].pc = "back" PROVE previous'[run'[s].pid] # Absent
        OBVIOUS
      <4>1. s # r
        BY <3>1
      <4>2. run[s].pid \in Pids
        BY <1>5, <4>1 DEF BaseInv, RunsInv, Evidence, Ended
      <4> QED
        BY <1>5, <3>2, <4>1, <4>2
    <3> QED
      BY <1>2, <3>2, <3>3, <3>4 DEF AsideInv
  <2>2. CASE ~(vendor # Absent /\ previous[q] = Absent)
    <3>1. UNCHANGED <<vendor, previous>> /\ run'[r].pc = "rescue" /\ run[r].pc = "aside"
      BY <1>0, <1>3, <1>9, <2>2 DEF RenameAside
    <3>2. ASSUME vendor' = Absent, Absent \notin Vendors, faults' <= 1
          PROVE  \E p \in Pids : previous'[p] # Absent /\ Safe(p)'
      <4>1. PICK p \in Pids : previous[p] # Absent /\ Safe(p)
        BY <1>7, <3>1, <3>2
      <4>2. q = p => run'[r].pc \notin Removing(faults)
        BY <1>0, <3>1, <4>1 DEF Safe, Removing
      <4>3. Safe(p)'
        BY <1>0, <1>1, <4>1, <4>2, SafeStays
      <4> QED
        BY <3>1, <4>1, <4>3
    <3> QED
      BY <1>5, <3>1, <3>2 DEF AsideInv
  <2> QED
    BY <2>1, <2>2
<1>10. CASE RenameStaging(r)
  <2>1. CASE vendor = Absent
    <3>1. vendor' = Staged(r) /\ UNCHANGED previous /\ run'[r].pc = "drop" /\ run[r].pc = "swap"
      BY <1>3, <1>10, <2>1 DEF RenameStaging
    <3>2. vendor' # Absent
      BY <3>1, StagedIsExport DEF Swapping
    <3> QED
      BY <1>5, <3>1, <3>2 DEF AsideInv
  <2>2. CASE vendor # Absent
    BY <1>3, <1>5, <1>10, <2>2 DEF RenameStaging, AsideInv
  <2> QED
    BY <2>1, <2>2
<1>11. CASE DropPrevious(r) \/ Cleanup(r)
  <2>1. /\ UNCHANGED vendor /\ previous' = [previous EXCEPT ![q] = Absent]
        /\ run[r].pc \in {"drop", "cleanup"} /\ run'[r].pc \in {"write", "failed"}
    BY <1>0, <1>3, <1>11 DEF DropPrevious, Cleanup
  <2>2. \A p \in Pids \ {q} : previous'[p] = previous[p]
    BY <1>4, <2>1
  <2>3. ASSUME vendor' = Absent, Absent \notin Vendors, faults' <= 1
        PROVE  \E p \in Pids : previous'[p] # Absent /\ Safe(p)'
    <3>1. PICK p \in Pids : previous[p] # Absent /\ Safe(p)
      BY <1>7, <2>1, <2>3
    <3>2. p # q
      BY <1>0, <2>1, <3>1, RemovingFacts DEF Safe
    <3>3. Safe(p)'
      BY <1>0, <1>1, <3>1, <3>2, SafeStays
    <3> QED
      BY <2>2, <3>1, <3>2, <3>3
  <2>4. \A s \in Runs : run'[s].pc = "back" => previous'[run'[s].pid] # Absent
    <3> SUFFICES ASSUME NEW s \in Runs, run'[s].pc = "back" PROVE previous'[run'[s].pid] # Absent
      OBVIOUS
    <3>1. s # r
      BY <2>1
    <3>2. run[s].pid \in Pids
      BY <1>5, <3>1 DEF BaseInv, RunsInv, Evidence, Ended
    <3> QED
      BY <1>5, <2>2, <3>1, <3>2
  <2> QED
    BY <2>3, <2>4 DEF AsideInv
<1>12. CASE Rescue(r)
  <2>1. /\ UNCHANGED <<vendor, previous>> /\ run[r].pc = "rescue"
        /\ run'[r].pc = IF vendor = Absent /\ previous[q] # Absent THEN "back" ELSE "cleanup"
    BY <1>0, <1>3, <1>12 DEF Rescue, Restorable, tree
  <2>2. ASSUME vendor' = Absent, Absent \notin Vendors, faults' <= 1
        PROVE  \E p \in Pids : previous'[p] # Absent /\ Safe(p)'
    <3>1. PICK p \in Pids : previous[p] # Absent /\ Safe(p)
      BY <1>7, <2>1, <2>2
    <3>2. q = p => run'[r].pc \notin Removing(faults)
      BY <1>0, <2>1, <2>2, <3>1 DEF Safe, Removing
    <3>3. Safe(p)'
      BY <1>0, <1>1, <3>1, <3>2, SafeStays
    <3> QED
      BY <2>1, <3>1, <3>3
  <2>3. \A s \in Runs : run'[s].pc = "back" => previous'[run'[s].pid] # Absent
    BY <1>5, <1>6, <2>1
  <2> QED
    BY <2>2, <2>3 DEF AsideInv
<1>13. CASE RenameBack(r)
  <2>1. run[r].pc = "back" /\ previous[q] # Absent /\ run'[r].pc = "cleanup"
    BY <1>0, <1>3, <1>13 DEF RenameBack, AsideInv
  <2>2. vendor' # Absent /\ \A p \in Pids \ {q} : previous'[p] = previous[p]
    BY <1>0, <1>4, <1>13, <2>1 DEF RenameBack
  <2>3. \A s \in Runs : run'[s].pc = "back" => previous'[run'[s].pid] # Absent
    <3> SUFFICES ASSUME NEW s \in Runs, run'[s].pc = "back" PROVE previous'[run'[s].pid] # Absent
      OBVIOUS
    <3>1. s # r
      BY <2>1
    <3>2. run[s].pid \in Pids
      BY <1>5, <3>1 DEF BaseInv, RunsInv, Evidence, Ended
    <3> QED
      BY <1>5, <2>2, <3>1, <3>2
  <2> QED
    BY <2>2, <2>3 DEF AsideInv
<1> QED
  BY <1>8, <1>9, <1>10, <1>11, <1>12, <1>13 DEF Swap

\* The one failure the claim allows for: afterwards nothing but a removal under
\* way could take the last copy, and the safe directory is not among those.
LEMMA FaultAside == ASSUME BaseInv, AsideInv, NEW r \in Runs, Fault(r) PROVE AsideInv'
<1>1. /\ Moves(r) /\ run'[r].pc = FaultTo(run[r].pc)
      /\ UNCHANGED <<vendor, previous>> /\ faults' = faults + 1 /\ faults \in Nat
  <2>1. Moves(r) /\ run'[r].pc = FaultTo(run[r].pc)
    BY FaultMoves
  <2>2. UNCHANGED tree /\ faults' = faults + 1
    BY DEF Fault
  <2>3. faults \in Nat
    BY ContractSyncAssumption DEF BaseInv, TreeInv
  <2> QED
    BY <2>1, <2>2, <2>3 DEF tree
<1>2. run'[r].pc \in {"rescue", "cleanup", "failed"}
      /\ (run'[r].pc = "cleanup" => run[r].pc = "back")
  BY <1>1 DEF FaultTo
<1>3. ASSUME vendor' = Absent, Absent \notin Vendors, faults' <= 1
      PROVE  \E p \in Pids : previous'[p] # Absent /\ Safe(p)'
  <2>1. faults = 0 /\ faults' = 1
    BY <1>1, <1>3
  <2>2. PICK p \in Pids : previous[p] # Absent /\ Safe(p)
    BY <1>1, <1>3, <2>1 DEF AsideInv
  <2>3. run[r].pid = p => run[r].pc # "back"
    BY <2>1, <2>2 DEF Safe, Removing
  <2>4. Safe(p)'
    BY <1>1, <1>2, <2>1, <2>2, <2>3 DEF Safe, Removing, Moves
  <2> QED
    BY <1>1, <2>2, <2>4
<1>4. \A s \in Runs : run'[s].pc = "back" => previous'[run'[s].pid] # Absent
  BY <1>1, <1>2 DEF Moves, AsideInv
<1> QED
  BY <1>3, <1>4 DEF AsideInv

LEMMA StartAside == ASSUME BaseInv, AsideInv, NEW r \in Runs, Start(r) PROVE AsideInv'
<1>1. /\ UNCHANGED <<vendor, previous, faults>> /\ run'[r].pc = "bundle"
      /\ \A s \in Runs \ {r} : run'[s].pc = run[s].pc /\ run'[s].pid = run[s].pid
  <2>1. \A s \in Runs : run[s] \in RunType
    BY DEF BaseInv, RunsInv
  <2>2. \A s \in Runs \ {r} : run'[s] = [run[s] EXCEPT !.alone = FALSE] \/ run'[s] = run[s]
    BY StartFacts
  <2>3. \A s \in Runs \ {r} : run'[s].pc = run[s].pc /\ run'[s].pid = run[s].pid
    BY <2>1, <2>2 DEF RunType
  <2> QED
    BY <2>3, StartFacts DEF Start, tree, outside
<1>2. ASSUME NEW p, Safe(p) PROVE Safe(p)'
  BY <1>1, <1>2, RemovingFacts DEF Safe
<1> QED
  BY <1>1, <1>2 DEF AsideInv

\* With one failing call, and any overlap and kills, a copy is always left.
THEOREM LastCopyIsKept == Spec => []LastCopyKept
<1>1. Init => AsideInv
  <2> SUFFICES ASSUME Init PROVE AsideInv
    OBVIOUS
  <2>1. \A r \in Runs : run[r].pc = "idle"
    BY DEF Init, Idle
  <2> QED
    BY <2>1 DEF Init, AsideInv
<1>2. BaseInv /\ AsideInv /\ [Next]_vars => AsideInv'
  <2> SUFFICES ASSUME BaseInv, AsideInv, [Next]_vars PROVE AsideInv'
    OBVIOUS
  <2>1. CASE UNCHANGED vars
    BY <2>1 DEF vars, AsideInv, Safe
  <2> QED
    BY <2>1, StartAside, ReadAside, SwapAside, FaultAside DEF Next, Step
<1>3. AsideInv => LastCopyKept
  BY DEF AsideInv, LastCopyKept
<1> QED
  BY <1>1, <1>2, <1>3, SpecBase, PTL DEF Spec

-----------------------------------------------------------------------------
(* What is adopted.                                                        *)

\* However the tree was swapped between its reads, a run that gets past the
\* validation holds one export, which readBundle and the validation accept.
THEOREM TornReadsAreRefused ==
  Spec => [](\A r \in Runs : run[r].pc \in {"compare"} \union Swapping => Accepted(Staged(r)))
<1>1. BaseInv =>
        \A r \in Runs : run[r].pc \in {"compare"} \union Swapping => Accepted(Staged(r))
  BY DEF BaseInv, RunsInv, Evidence, Held, Staged
<1> QED
  BY <1>1, SpecBase, PTL

-----------------------------------------------------------------------------
(* The worklist of validateDescriptor.                                     *)

\* A tail recursion has a solution, whether it ends everywhere or not: the
\* value where it ends, and anything where it does not.
LEMMA TailRecursion ==
  ASSUME NEW X, NEW B \in SUBSET X, NEW V, NEW val \in [B -> V], NEW nxt \in [X \ B -> X]
  PROVE  \E f : f = [x \in X |-> IF x \in B THEN val[x] ELSE f[nxt[x]]]
<1> DEFINE Closed(Z) == /\ \A x \in B : <<x, val[x]>> \in Z
                        /\ \A x \in X \ B, v \in V : <<nxt[x], v>> \in Z => <<x, v>> \in Z
           G == {p \in X \X V : \A Z \in SUBSET (X \X V) : Closed(Z) => p \in Z}
           Value(x) == CHOOSE v : v \in V /\ <<x, v>> \in G
           f == [x \in X |-> Value(x)]
<1> HIDE DEF G
<1>1. Closed(G)
  BY DEF G
<1>2. \A Z \in SUBSET (X \X V) : Closed(Z) => G \subseteq Z
  BY DEF G
<1>3. \A x \in B, v \in V : <<x, v>> \in G => v = val[x]
  <2> SUFFICES ASSUME NEW x \in B, NEW v \in V, <<x, v>> \in G, v # val[x] PROVE FALSE
    OBVIOUS
  <2> DEFINE Z == G \ {<<x, v>>}
  <2>1. G \in SUBSET (X \X V)
    BY DEF G
  <2>2. Closed(Z)
    BY <1>1
  <2> QED
    BY <1>2, <2>1, <2>2
<1>4. \A x \in X \ B, v \in V : <<x, v>> \in G => <<nxt[x], v>> \in G
  <2> SUFFICES ASSUME NEW x \in X \ B, NEW v \in V, <<x, v>> \in G, <<nxt[x], v>> \notin G
               PROVE  FALSE
    OBVIOUS
  <2> DEFINE Z == G \ {<<x, v>>}
  <2>1. G \in SUBSET (X \X V)
    BY DEF G
  <2>2. Closed(Z)
    BY <1>1
  <2> QED
    BY <1>2, <2>1, <2>2
<1>5. ASSUME NEW x \in X PROVE f[x] = IF x \in B THEN val[x] ELSE f[nxt[x]]
  <2>1. CASE x \in B
    <3>1. val[x] \in V /\ <<x, val[x]>> \in G
      BY <1>1, <2>1
    <3>2. Value(x) = val[x]
      BY <1>3, <2>1, <3>1
    <3> QED
      BY <2>1, <3>2
  <2>2. CASE x \notin B
    <3>1. nxt[x] \in X
      BY <2>2
    <3>2. \A v : (v \in V /\ <<x, v>> \in G) <=> (v \in V /\ <<nxt[x], v>> \in G)
      BY <1>1, <1>4, <2>2
    <3>3. Value(x) = Value(nxt[x])
      BY <3>2
    <3>4. f[x] = Value(x) /\ f[nxt[x]] = Value(nxt[x])
      BY <3>1
    <3> HIDE DEF f, Value
    <3> QED
      BY <2>2, <3>3, <3>4
  <2> QED
    BY <2>1, <2>2
<1>6. f = [x \in X |-> IF x \in B THEN val[x] ELSE f[nxt[x]]]
  BY <1>5
<1> QED
  BY <1>6

\* A finite set as a sequence has its elements and no other.
LEMMA SetToSeqFacts ==
  ASSUME NEW S \in SUBSET STRING, IsFiniteSet(S)
  PROVE  SetToSeq(S) \in Seq(STRING) /\ Range(SetToSeq(S)) = S
<1> DEFINE n == Cardinality(S)
           f == SetToSeq(S)
<1>1. n \in Nat /\ ExistsBijection(1..n, S)
  BY FS_CardinalityType
<1>2. \E g \in [1..n -> S] : IsInjective(g)
  BY <1>1 DEF ExistsBijection, Bijection, Injection, IsInjective
<1>3. f \in [1..n -> S] /\ IsInjective(f)
  BY <1>2 DEF SetToSeq
<1> HIDE DEF f
<1>4. f \in Injection(1..n, S)
  BY <1>3 DEF Injection, IsInjective
<1>5. Cardinality(1..n) = n
  BY <1>1, FS_Interval
<1>6. f \in Surjection(1..n, S)
  BY <1>4, <1>5, FS_Injection
<1>7. f \in Seq(STRING)
  <2>1. f \in [1..n -> STRING]
    BY <1>3
  <2> QED
    BY <1>1, <2>1, SeqDef
<1> QED
  BY <1>3, <1>6, <1>7 DEF Surjection, Range, f

\* The last of a list, and what is before it.
LEMMA FrontFacts ==
  ASSUME NEW s \in Seq(STRING), s # <<>>
  PROVE  /\ Last(s) \in STRING /\ Front(s) \in Seq(STRING)
         /\ Len(Front(s)) = Len(s) - 1 /\ Len(s) \in Nat \ {0}
         /\ Range(s) = Range(Front(s)) \union {Last(s)}
<1>1. Len(s) \in Nat \ {0} /\ s \in [1..Len(s) -> STRING]
  BY EmptySeq, LenProperties
<1>2. /\ Front(s) \in Seq(STRING) /\ Len(Front(s)) = Len(s) - 1
      /\ \A i \in 1..(Len(s) - 1) : Front(s)[i] = s[i]
  BY <1>1, SubSeqProperties DEF Front
<1>3. DOMAIN s = 1..Len(s) /\ DOMAIN Front(s) = 1..(Len(s) - 1)
  BY <1>2
<1>4. Range(s) = Range(Front(s)) \union {Last(s)}
  BY <1>1, <1>2, <1>3 DEF Range, Last
<1> QED
  BY <1>1, <1>2, <1>4 DEF Last

LEMMA ConcatRange ==
  ASSUME NEW s \in Seq(STRING), NEW t \in Seq(STRING)
  PROVE  s \o t \in Seq(STRING) /\ Range(s \o t) = Range(s) \union Range(t)
<1>1. /\ s \o t \in Seq(STRING) /\ Len(s \o t) = Len(s) + Len(t)
      /\ \A i \in 1..Len(s) + Len(t) : (s \o t)[i] = IF i <= Len(s) THEN s[i] ELSE t[i - Len(s)]
  BY ConcatProperties
<1>2. Len(s) \in Nat /\ Len(t) \in Nat
  BY LenProperties
<1>3. DOMAIN s = 1..Len(s) /\ DOMAIN t = 1..Len(t) /\ DOMAIN (s \o t) = 1..Len(s) + Len(t)
  BY <1>1
<1>4. ASSUME NEW i \in 1..Len(t) PROVE t[i] \in Range(s \o t)
  <2>1. Len(s) + i \in 1..Len(s) + Len(t) /\ ~(Len(s) + i <= Len(s)) /\ (Len(s) + i) - Len(s) = i
    BY <1>2
  <2> QED
    BY <1>1, <1>3, <2>1 DEF Range
<1>5. ASSUME NEW i \in 1..Len(s) PROVE s[i] \in Range(s \o t)
  <2>1. i \in 1..Len(s) + Len(t) /\ i <= Len(s)
    BY <1>2
  <2> QED
    BY <1>1, <1>3, <2>1 DEF Range
<1>6. ASSUME NEW i \in 1..Len(s) + Len(t) PROVE (s \o t)[i] \in Range(s) \union Range(t)
  <2>1. i <= Len(s) \/ i - Len(s) \in 1..Len(t)
    BY <1>2
  <2>2. CASE i <= Len(s)
    BY <1>1, <1>2, <1>3, <2>2 DEF Range
  <2>3. CASE ~(i <= Len(s))
    BY <1>1, <1>3, <2>1, <2>3 DEF Range
  <2> QED
    BY <2>2, <2>3
<1>7. Range(s \o t) \subseteq Range(s) \union Range(t)
  BY <1>3, <1>6 DEF Range
<1>8. Range(s) \subseteq Range(s \o t) /\ Range(t) \subseteq Range(s \o t)
  BY <1>3, <1>4, <1>5 DEF Range
<1> QED
  BY <1>1, <1>7, <1>8

\* The walk of the worklist, as the equation it is defined by.
Visit(d) ==
  CHOOSE Visit : Visit = [w \in Work |->
    IF w.pending = <<>> THEN w.reached
    ELSE IF Missing(d, w) THEN w.reached \union {Last(w.pending)}
    ELSE Visit[Turn(d, w)]]

Stops(d, w) == w.pending = <<>> \/ Missing(d, w)

\* A turn drops a name, or reaches one more message of the index.
LEMMA TurnFacts ==
  ASSUME NEW d, IndexDescriptor(d), NEW w \in Work, ~Stops(d, w)
  PROVE  /\ Turn(d, w) \in Work
         /\ Last(w.pending) \in STRING
         /\ Skipped(w) =>
              /\ Turn(d, w).reached = w.reached
              /\ Len(Turn(d, w).pending) = Len(w.pending) - 1 /\ Len(w.pending) \in Nat
              /\ Range(w.pending) = Range(Turn(d, w).pending) \union {Last(w.pending)}
         /\ ~Skipped(w) =>
              /\ Last(w.pending) \in (DOMAIN d.fields \cap Local) \ w.reached
              /\ Turn(d, w).reached = w.reached \union {Last(w.pending)}
              /\ Range(w.pending) \subseteq Range(Turn(d, w).pending) \union {Last(w.pending)}
              /\ Range(Turn(d, w).pending) \subseteq
                   Range(w.pending) \union (d.fields[Last(w.pending)] \cap DOMAIN d.fields)
<1> DEFINE name == Last(w.pending)
           rest == Front(w.pending)
           types == d.fields[name] \cap DOMAIN d.fields
<1>1. w = [pending |-> w.pending, reached |-> w.reached]
      /\ w.pending \in Seq(STRING) /\ w.reached \in SUBSET STRING
  BY DEF Work
<1>2. /\ name \in STRING /\ rest \in Seq(STRING) /\ Len(rest) = Len(w.pending) - 1
      /\ Len(w.pending) \in Nat /\ Range(w.pending) = Range(rest) \union {name}
  BY <1>1, FrontFacts DEF Stops
<1>3. CASE Skipped(w)
  <2>1. Turn(d, w) = [pending |-> rest, reached |-> w.reached]
    BY <1>1, <1>3 DEF Turn
  <2> QED
    BY <1>1, <1>2, <1>3, <2>1 DEF Work
<1>4. CASE ~Skipped(w)
  <2>1. name \in DOMAIN d.fields /\ name \in Local /\ name \notin w.reached
    BY <1>4 DEF Stops, Missing, Skipped
  <2>2. types \in SUBSET STRING /\ IsFiniteSet(types)
    BY FS_Intersection DEF IndexDescriptor
  <2>3. SetToSeq(types) \in Seq(STRING) /\ Range(SetToSeq(types)) = types
    BY <2>2, SetToSeqFacts
  <2>4. Turn(d, w) = [pending |-> rest \o SetToSeq(types), reached |-> w.reached \union {name}]
    BY <1>4 DEF Turn
  <2> HIDE DEF types, rest, name
  <2>5. /\ rest \o SetToSeq(types) \in Seq(STRING)
        /\ Range(rest \o SetToSeq(types)) = Range(rest) \union types
    BY <1>2, <2>3, ConcatRange
  <2>6. /\ Turn(d, w) \in Work /\ Turn(d, w).reached = w.reached \union {name}
        /\ Range(Turn(d, w).pending) = Range(rest) \union types
    BY <1>1, <1>2, <2>4, <2>5 DEF Work
  <2> QED
    BY <1>2, <1>4, <2>1, <2>6 DEF types, name
<1> QED
  BY <1>3, <1>4

LEMMA VisitIs ==
  ASSUME NEW d, IndexDescriptor(d), NEW w \in Work
  PROVE  Visit(d)[w] = IF w.pending = <<>> THEN w.reached
                       ELSE IF Missing(d, w) THEN w.reached \union {Last(w.pending)}
                       ELSE Visit(d)[Turn(d, w)]
<1> DEFINE B == {x \in Work : Stops(d, x)}
           V == {x.reached : x \in Work} \union {x.reached \union {Last(x.pending)} : x \in Work}
           val == [x \in B |-> IF x.pending = <<>> THEN x.reached
                               ELSE x.reached \union {Last(x.pending)}]
           nxt == [x \in Work \ B |-> Turn(d, x)]
           Body(f) == [x \in Work |-> IF x.pending = <<>> THEN x.reached
                                      ELSE IF Missing(d, x) THEN x.reached \union {Last(x.pending)}
                                      ELSE f[Turn(d, x)]]
<1>1. B \in SUBSET Work /\ val \in [B -> V]
  OBVIOUS
<1>2. nxt \in [Work \ B -> Work]
  BY TurnFacts
<1>3. PICK f : f = [x \in Work |-> IF x \in B THEN val[x] ELSE f[nxt[x]]]
  <2> HIDE DEF B, V, val, nxt
  <2>1. \A v \in [B -> V], n \in [Work \ B -> Work] :
          \E f : f = [x \in Work |-> IF x \in B THEN v[x] ELSE f[n[x]]]
    BY <1>1, TailRecursion
  <2> QED
    BY <1>1, <1>2, <2>1
<1>4. ASSUME NEW x \in Work
      PROVE  (IF x \in B THEN val[x] ELSE f[nxt[x]])
               = (IF x.pending = <<>> THEN x.reached
                  ELSE IF Missing(d, x) THEN x.reached \union {Last(x.pending)}
                  ELSE f[Turn(d, x)])
  <2>1. CASE x.pending = <<>>
    BY <2>1 DEF Stops
  <2>2. CASE x.pending # <<>> /\ Missing(d, x)
    BY <2>2 DEF Stops
  <2>3. CASE x.pending # <<>> /\ ~Missing(d, x)
    BY <2>3 DEF Stops
  <2> QED
    BY <2>1, <2>2, <2>3
<1>5. f = Body(f)
  <2> HIDE DEF B, val, nxt
  <2>1. Body(f) = [x \in Work |-> IF x \in B THEN val[x] ELSE f[nxt[x]]]
    BY <1>4, Zenon
  <2> QED
    BY <1>3, <2>1, Zenon
<1>6. Visit(d) = Body(Visit(d))
  BY <1>5 DEF Visit
<1> QED
  BY <1>6

\* How far the walk is: the messages not yet reached, and the names pending.
Measure(d, w) == <<Cardinality((DOMAIN d.fields) \ w.reached), Len(w.pending)>>

LEMMA MeasureFalls ==
  ASSUME NEW d, IndexDescriptor(d), NEW w \in Work, ~Stops(d, w)
  PROVE  /\ Measure(d, w) \in Nat \X Nat /\ Measure(d, Turn(d, w)) \in Nat \X Nat
         /\ \/ Measure(d, Turn(d, w))[1] < Measure(d, w)[1]
            \/ /\ Measure(d, Turn(d, w))[1] = Measure(d, w)[1]
               /\ Measure(d, Turn(d, w))[2] < Measure(d, w)[2]
<1> DEFINE M == DOMAIN d.fields
           t == Turn(d, w)
           name == Last(w.pending)
<1>1. t \in Work /\ IsFiniteSet(M)
  BY TurnFacts DEF IndexDescriptor
<1>2. Len(w.pending) \in Nat /\ Len(t.pending) \in Nat
  BY <1>1, LenProperties DEF Work
<1>3. IsFiniteSet(M \ w.reached) /\ IsFiniteSet(M \ t.reached)
  BY <1>1, FS_Difference
<1>4. Cardinality(M \ w.reached) \in Nat /\ Cardinality(M \ t.reached) \in Nat
  BY <1>3, FS_CardinalityType
<1>5. CASE Skipped(w)
  <2>1. t.reached = w.reached /\ Len(t.pending) = Len(w.pending) - 1
    BY <1>5, TurnFacts
  <2> HIDE DEF t
  <2> QED
    BY <1>2, <1>4, <2>1 DEF Measure, t
<1>6. CASE ~Skipped(w)
  <2>1. name \in M \ w.reached /\ t.reached = w.reached \union {name}
    BY <1>6, TurnFacts
  <2>2. M \ t.reached = (M \ w.reached) \ {name}
    BY <2>1
  <2>3. Cardinality(M \ t.reached) = Cardinality(M \ w.reached) - 1
    BY <1>3, <2>1, <2>2, FS_RemoveElement
  <2> QED
    BY <1>2, <1>4, <2>3 DEF Measure
<1> QED
  BY <1>5, <1>6

\* What the walk reaches, where no message is missing: all that it was given,
\* and nothing outside a set that is closed under the types of fields.
FieldsStay(d, S) == \A m \in S : d.fields[m] \cap DOMAIN d.fields \cap Local \subseteq S
Right(d, w) ==
  LET reached == Visit(d)[w]
  IN  reached \subseteq DOMAIN d.fields =>
        /\ w.reached \subseteq reached /\ Range(w.pending) \cap Local \subseteq reached
        /\ \A S \in SUBSET (DOMAIN d.fields \cap Local) :
             FieldsStay(d, S) /\ w.reached \subseteq S
               /\ Range(w.pending) \cap Local \cap DOMAIN d.fields \subseteq S
             => reached \subseteq S

LEMMA WalkIsRight ==
  ASSUME NEW d, IndexDescriptor(d), NEW w \in Work PROVE Right(d, w)
<1> DEFINE Less == LexPairOrdering(OpToRel(<, Nat), OpToRel(<, Nat), Nat, Nat)
           Wrong == {x \in Work : ~Right(d, x)}
           Bad == {mm \in Nat \X Nat : \E x \in Wrong : Measure(d, x) = mm}
<1>1. ASSUME NEW x \in Work, Stops(d, x) PROVE Right(d, x)
  <2>1. CASE x.pending = <<>>
    <3>1. Visit(d)[x] = x.reached
      BY <2>1, VisitIs
    <3>2. Range(x.pending) = {}
      BY <2>1 DEF Range
    <3> QED
      BY <3>1, <3>2 DEF Right
  <2>2. CASE x.pending # <<>>
    <3>1. Missing(d, x) /\ Visit(d)[x] = x.reached \union {Last(x.pending)}
      BY <1>1, <2>2, VisitIs DEF Stops
    <3> QED
      BY <3>1 DEF Right, Missing
  <2> QED
    BY <2>1, <2>2
<1>2. ASSUME NEW x \in Work, ~Stops(d, x), Right(d, Turn(d, x)) PROVE Right(d, x)
  <2> DEFINE t == Turn(d, x)
             name == Last(x.pending)
  <2>1. t \in Work /\ Visit(d)[x] = Visit(d)[t]
    BY <1>2, TurnFacts, VisitIs DEF Stops
  <2>2. CASE Skipped(x)
    <3>1. /\ t.reached = x.reached /\ Range(x.pending) = Range(t.pending) \union {name}
          /\ name \in x.reached \/ name \notin Local
      BY <1>2, <2>2, TurnFacts DEF Skipped
    <3> HIDE DEF t, name
    <3> QED
      BY <1>2, <2>1, <3>1 DEF Right, t
  <2>3. CASE ~Skipped(x)
    <3>1. /\ name \in (DOMAIN d.fields \cap Local) \ x.reached
          /\ t.reached = x.reached \union {name}
          /\ Range(x.pending) \subseteq Range(t.pending) \union {name}
          /\ Range(t.pending) \subseteq
               Range(x.pending) \union (d.fields[name] \cap DOMAIN d.fields)
      BY <1>2, <2>3, TurnFacts
    <3>5. name \in Range(x.pending)
      <4>1. x.pending \in Seq(STRING) /\ x.pending # <<>>
        BY <1>2 DEF Stops, Work
      <4> QED
        BY <4>1, FrontFacts
    <3> HIDE DEF t, name
    <3>2. Right(d, t)
      BY <1>2 DEF t
    <3> SUFFICES ASSUME Visit(d)[x] \subseteq DOMAIN d.fields PROVE Right(d, x)
      BY DEF Right
    <3>3. x.reached \subseteq Visit(d)[x] /\ Range(x.pending) \cap Local \subseteq Visit(d)[x]
      BY <2>1, <3>1, <3>2, <3>5 DEF Right
    <3>4. ASSUME NEW S \in SUBSET (DOMAIN d.fields \cap Local), FieldsStay(d, S),
                 x.reached \subseteq S,
                 Range(x.pending) \cap Local \cap DOMAIN d.fields \subseteq S
          PROVE  Visit(d)[x] \subseteq S
      <4>1. name \in S
        BY <3>1, <3>4, <3>5
      <4>2. d.fields[name] \cap DOMAIN d.fields \cap Local \subseteq S
        BY <3>4, <4>1 DEF FieldsStay
      <4>3. t.reached \subseteq S /\ Range(t.pending) \cap Local \cap DOMAIN d.fields \subseteq S
        BY <3>1, <3>4, <4>1, <4>2
      <4> QED
        BY <2>1, <3>2, <3>4, <4>3 DEF Right
    <3> QED
      BY <3>3, <3>4 DEF Right
  <2> QED
    BY <2>2, <2>3
<1> SUFFICES ASSUME Wrong # {} PROVE FALSE
  OBVIOUS
<1>3. ASSUME NEW x \in Wrong
      PROVE  /\ Measure(d, x) \in Bad
             /\ \E y \in Wrong : <<Measure(d, y), Measure(d, x)>> \in Less
  <2>1. x \in Work /\ ~Stops(d, x)
    BY <1>1, <1>3
  <2>2. Turn(d, x) \in Wrong
    BY <1>2, <1>3, <2>1, TurnFacts
  <2>3. /\ Measure(d, x) \in Nat \X Nat /\ Measure(d, Turn(d, x)) \in Nat \X Nat
        /\ \/ Measure(d, Turn(d, x))[1] < Measure(d, x)[1]
           \/ /\ Measure(d, Turn(d, x))[1] = Measure(d, x)[1]
              /\ Measure(d, Turn(d, x))[2] < Measure(d, x)[2]
    BY <2>1, MeasureFalls
  <2>4. <<Measure(d, Turn(d, x)), Measure(d, x)>> \in Less
    <3> DEFINE a == Measure(d, Turn(d, x))
               b == Measure(d, x)
    <3> HIDE DEF a, b
    <3>1. \A u, v \in Nat : u < v => <<u, v>> \in OpToRel(<, Nat)
      BY DEF OpToRel
    <3>2. a \in Nat \X Nat /\ b \in Nat \X Nat
          /\ (a[1] < b[1] \/ (a[1] = b[1] /\ a[2] < b[2]))
      BY <2>3 DEF a, b
    <3>3. <<a[1], b[1]>> \in OpToRel(<, Nat)
          \/ (a[1] = b[1] /\ <<a[2], b[2]>> \in OpToRel(<, Nat))
      BY <3>1, <3>2
    <3>4. <<a, b>> \in Less
      BY <3>2, <3>3 DEF LexPairOrdering
    <3> QED
      BY <3>4 DEF a, b
  <2> QED
    BY <1>3, <2>2, <2>3, <2>4
<1>4. IsWellFoundedOn(Less, Nat \X Nat)
  BY NatLessThanWellFounded, WFLexPairOrdering
<1>5. Bad # {} /\ Bad \subseteq Nat \X Nat
  BY <1>3
<1> HIDE DEF Less, Wrong
<1>6. PICK least \in Bad : \A y \in Bad : ~ (<<y, least>> \in Less)
  <2> HIDE DEF Bad
  <2> QED
    BY <1>4, <1>5, WFMin
<1> QED
  BY <1>3, <1>6

\* From the methods' types, what is reached is the closure.
LEMMA ReachedIsWire ==
  ASSUME NEW d, IndexDescriptor(d), ClosureExact(d)
  PROVE  DOMAIN d.fields \cap Local = WireClosure(d)
<1> DEFINE start == [pending |-> d.methods, reached |-> {}]
           Messages == DOMAIN d.fields \cap Local
           Closed(S) == /\ Range(d.methods) \cap Local \subseteq S
                        /\ \A m \in S : d.fields[m] \cap Messages \subseteq S
           Least(S) == Closed(S) /\ \A S2 \in SUBSET Messages : Closed(S2) => S \subseteq S2
<1>1. start \in Work /\ start.pending = d.methods /\ start.reached = {}
  BY DEF IndexDescriptor, Work
<1>2. ReachableMessages(d) = Visit(d)[start]
  BY DEF ReachableMessages, Visit
<1>3. Visit(d)[start] = Messages
  BY <1>2 DEF ClosureExact
<1>4. Right(d, start)
  BY <1>1, WalkIsRight
<1> HIDE DEF start
<1>5. /\ Range(d.methods) \cap Local \subseteq Messages
      /\ \A S \in SUBSET Messages : FieldsStay(d, S) /\ Range(d.methods) \cap Local \subseteq S
           => Messages \subseteq S
  BY <1>1, <1>3, <1>4 DEF Right
<1>6. Least(Messages)
  <2>1. Closed(Messages)
    BY <1>5
  <2>2. ASSUME NEW S2 \in SUBSET Messages, Closed(S2) PROVE Messages \subseteq S2
    BY <1>5, <2>2 DEF FieldsStay
  <2> QED
    BY <2>1, <2>2
<1>7. \A S \in SUBSET Messages : Least(S) => S = Messages
  BY <1>6
<1>8. (CHOOSE S \in SUBSET Messages : Least(S)) = Messages
  <2> HIDE DEF Least, Messages
  <2> QED
    BY <1>6, <1>7
<1> QED
  BY <1>8 DEF WireClosure

\* A run past the validation holds a descriptor that declares the wire closure of
\* its methods and no more: validateDescriptor refuses every other.
THEOREM DescriptorIsWireClosure == Spec => []DescriptorIsClosure
<1>1. ASSUME BaseInv, NEW r \in Runs, run[r].pc \in {"exists", "compare"}
      PROVE  LET d == Doc[run[r].files[DescriptorFile]]
             IN  /\ DOMAIN d.fields \cap Local = WireClosure(d)
                 /\ \A e \in d.enums \cap Local : \E m \in WireClosure(d) : e \in d.fields[m]
  <2> DEFINE d == Doc[run[r].files[DescriptorFile]]
  <2>1. Accepted(Held(run[r]))
    BY <1>1 DEF BaseInv, RunsInv, Evidence, Swapping
  <2>2. ValidateDescriptor(d)
    BY <2>1 DEF Accepted, Held, ValidateBundleState
  <2> HIDE DEF d
  <2>3. /\ IndexDescriptor(d) /\ ClosureExact(d)
        /\ DOMAIN d.fields \cap Local = ReachableMessages(d)
        /\ d.enums \cap Local = ReachableEnums(d)
    BY <2>2 DEF ValidateDescriptor, ClosureExact
  <2>4. DOMAIN d.fields \cap Local = WireClosure(d)
    BY <2>3, ReachedIsWire
  <2>5. \A e \in ReachableEnums(d) : \E m \in ReachableMessages(d) : e \in d.fields[m]
    BY DEF ReachableEnums
  <2> QED
    BY <2>3, <2>4, <2>5 DEF d
<1>2. BaseInv => DescriptorIsClosure
  BY <1>1 DEF DescriptorIsClosure
<1> QED
  BY <1>2, SpecBase, PTL

-----------------------------------------------------------------------------
(* Published, whole, and judged right.                                     *)

\* No one seals an export that the producer did not publish: whatever readBundle
\* and the validation accept is a published export.
SealsAreTrue == \A e : IsExport(e) /\ Accepted(e) => e \in Published

\* Only the run that validates leaves the validation.
LEMMA ValidatesItself ==
  ASSUME BaseInv, [Next]_vars, NEW r \in Runs, run[r].pc = "validate",
         run'[r].pc \in {"exists", "compare"}
  PROVE  Accepted(Staged(r))
<1>1. run[r] \in RunType /\ Evidence(run[r]) /\ run \in [Runs -> RunType]
  BY DEF BaseInv, RunsInv
<1>2. CASE UNCHANGED vars
  BY <1>2 DEF vars
<1>3. ASSUME NEW s \in Runs, Start(s) PROVE FALSE
  <2>1. s # r
    BY <1>3 DEF Start
  <2>2. run'[r] = [run[r] EXCEPT !.alone = FALSE] \/ run'[r] = run[r]
    BY <1>3, <2>1, StartFacts
  <2> QED
    BY <1>1, <2>2 DEF RunType
<1>4. ASSUME NEW s \in Runs, Step(s) \/ Fault(s) \/ Kill(s) PROVE Accepted(Staged(r))
  <2>1. Moves(s)
    BY <1>4, StepMoves
  <2>2. s = r
    BY <2>1 DEF Moves
  <2>3. ~Fault(r)
    BY DEF Fault
  <2>4. ~Kill(r)
    <3>1. Goto(r, "killed") => run'[r].pc = "killed"
      BY <1>1 DEF Goto, RunType
    <3> QED
      BY <3>1 DEF Kill
  <2>5. Validate(r)
    BY <1>4, <2>2, <2>3, <2>4 DEF Step, Read, Swap, ReadExternal, ReadBundleJson, ReadChecksum,
       ReadArtifact, Inventory, Exists, RenameAside, RenameStaging, DropPrevious, Rescue,
       RenameBack, Cleanup, AtomicWrite, AssertBytes
  <2>6. ValidateBundleState(run[r].json, run[r].files)
    <3>1. Goto(r, "failed") => run'[r].pc = "failed"
      BY <1>1 DEF Goto, RunType
    <3> QED
      BY <2>5, <3>1 DEF Validate
  <2>7. ReadBundle(Held(run[r]))
    BY <1>1 DEF Evidence
  <2> QED
    BY <2>6, <2>7 DEF Accepted, Held, Staged
<1> QED
  BY <1>2, <1>3, <1>4 DEF Next

\* The export's place is filled by a rename of the staging directory, or by the
\* one that takes the first rename back.
LEMMA VendorComesFrom ==
  ASSUME BaseInv, [Next]_vars, vendor' \notin {vendor, Absent}
  PROVE  \/ \E p \in Pids : vendor' = previous[p]
         \/ \E r \in Runs : vendor' = Staged(r) /\ IsExport(Staged(r)) /\ Accepted(Staged(r))
<1>1. PICK r \in Runs : RenameAside(r) \/ RenameStaging(r) \/ RenameBack(r)
  <2>1. PICK r \in Runs : Start(r) \/ Step(r) \/ Fault(r) \/ Kill(r)
    BY DEF Next, vars
  <2>2. ~Start(r) /\ ~Fault(r) /\ ~Kill(r)
    BY DEF Start, Fault, Kill, tree
  <2>3. ~Read(r) /\ ~AssertBytes(r) /\ ~AtomicWrite(r)
    BY DEF Read, ReadExternal, ReadBundleJson, ReadChecksum, ReadArtifact, Inventory, Validate,
       AssertBytes, AtomicWrite, tree
  <2>4. ~Exists(r) /\ ~DropPrevious(r) /\ ~Rescue(r) /\ ~Cleanup(r)
    BY DEF Exists, DropPrevious, Rescue, Cleanup, tree
  <2> QED
    BY <2>1, <2>2, <2>3, <2>4 DEF Step, Swap
<1>2. CASE RenameAside(r)
  BY <1>2 DEF RenameAside
<1>3. CASE RenameStaging(r)
  <2>1. run[r].pc = "swap" /\ vendor' = Staged(r)
    BY <1>3 DEF RenameStaging
  <2>2. Accepted(Held(run[r]))
    BY <2>1 DEF BaseInv, RunsInv, Evidence, Swapping
  <2>3. Staged(r) = Held(run[r]) /\ IsExport(Staged(r))
    BY <2>1, StagedIsExport DEF Swapping
  <2> QED
    BY <2>1, <2>2, <2>3
<1>4. CASE RenameBack(r)
  <2>1. run[r].pid \in Pids
    BY <1>4 DEF RenameBack, BaseInv, RunsInv, Evidence, Ended
  <2> QED
    BY <1>4, <2>1 DEF RenameBack
<1> QED
  BY <1>1, <1>2, <1>3, <1>4

\* Nothing but published exports gets in, whatever is torn, lost or killed.
THEOREM PublishedOnly == ASSUME SealsAreTrue PROVE Spec => OnlyPublishedAdopted
<1> DEFINE Adopts ==
             /\ vendor' \notin {vendor, Absent} =>
                  vendor' \in Published \/ \E p \in Pids : vendor' = previous[p]
             /\ \A r \in Runs : run[r].pc = "validate" /\ run'[r].pc \in {"exists", "compare"} =>
                  Staged(r) \in Published
<1>1. BaseInv /\ [Next]_vars => Adopts
  <2> SUFFICES ASSUME BaseInv, [Next]_vars PROVE Adopts
    OBVIOUS
  <2>1. ASSUME NEW r \in Runs, run[r].pc = "validate", run'[r].pc \in {"exists", "compare"}
        PROVE  Staged(r) \in Published
    BY <2>1, ValidatesItself, StagedIsExport DEF SealsAreTrue
  <2>2. ASSUME vendor' \notin {vendor, Absent}
        PROVE  vendor' \in Published \/ \E p \in Pids : vendor' = previous[p]
    BY <2>2, VendorComesFrom DEF SealsAreTrue
  <2> QED
    BY <2>1, <2>2
<1> HIDE DEF Adopts
<1>2. Spec => [][Adopts]_vars
  BY <1>1, SpecBase, PTL DEF Spec
<1> QED
  BY <1>2 DEF OnlyPublishedAdopted, Adopts

-----------------------------------------------------------------------------
(* A reader that has seen the tree as it is.                               *)

\* All that the run has read of the vendored export is there still, and so are
\* the derived files it has compared.
Knows(r) ==
  /\ run[r].pc \in {"sum", "artifacts", "inventory", "validate", "compare"} =>
       vendor # Absent /\ run[r].json = vendor.json
  /\ run[r].pc \in {"artifacts", "inventory", "validate", "compare"} =>
       /\ run[r].sum = vendor.sum
       /\ \A p \in DOMAIN run[r].files :
            p \in DOMAIN vendor.files /\ run[r].files[p] = vendor.files[p]
  /\ run[r].pc \in {"validate", "compare"} => DOMAIN vendor.files = Range(Artifacts)
  /\ run[r].pc = "compare" =>
       \A j \in DOMAIN Destinations : j < run[r].k =>
         derived[Destinations[j]] = DeriveArtifacts(run[r].files, Destinations[j])

LEMMA GotoSets ==
  ASSUME RunsInv, NEW r \in Runs, NEW pc, Goto(r, pc)
  PROVE  /\ run'[r].pc = pc /\ run'[r].k = 1
         /\ run'[r].phase = run[r].phase /\ run'[r].mode = run[r].mode
         /\ run'[r].root = run[r].root /\ run'[r].alone = run[r].alone
         /\ run'[r].json = run[r].json /\ run'[r].sum = run[r].sum
         /\ run'[r].files = run[r].files
BY DEF Goto, RunsInv, RunType

\* With that, the run knows the whole of the vendored export.
LEMMA KnowsExport ==
  ASSUME BaseInv, NEW r \in Runs, Knows(r), run[r].pc \in {"validate", "compare"}
  PROVE  /\ Held(run[r]) = vendor /\ IsExport(vendor)
         /\ run[r].files = vendor.files /\ run[r].json = vendor.json
<1>1. run[r] \in RunType /\ DOMAIN run[r].files = Range(Artifacts)
  BY DEF BaseInv, RunsInv, Evidence
<1>2. vendor # Absent /\ IsExport(vendor)
  BY DEF Knows, BaseInv, TreeInv
<1>3. PICK S \in SUBSET Range(Artifacts) : run[r].files \in [S -> DOMAIN Doc]
  BY <1>1 DEF RunType, FileSets
<1>4. run[r].files = [p \in Range(Artifacts) |-> vendor.files[p]]
  BY <1>1, <1>3 DEF Knows
<1>5. vendor.files = [p \in Range(Artifacts) |-> vendor.files[p]]
  BY <1>2 DEF Knows, IsExport
<1>6. run[r].files = vendor.files
  BY <1>4, <1>5
<1>7. vendor = [json |-> vendor.json, sum |-> vendor.sum, files |-> vendor.files]
  BY <1>2 DEF IsExport
<1> QED
  BY <1>2, <1>6, <1>7 DEF Knows, Held

\* A read in a tree that nobody touches adds to what the run knows.
ReadVendored(r) ==
  ReadBundleJson(r) \/ ReadChecksum(r) \/ ReadArtifact(r) \/ Inventory(r) \/ Validate(r)

LEMMA ReadKnows ==
  ASSUME BaseInv, NEW r \in Runs, Knows(r), ReadVendored(r)
  PROVE  Knows(r)'
<1>1. run \in [Runs -> RunType] /\ RunsInv /\ run[r] \in RunType /\ Evidence(run[r])
  BY DEF BaseInv, RunsInv
<1>2. UNCHANGED <<vendor, derived>>
  BY DEF ReadVendored, ReadBundleJson, ReadChecksum, ReadArtifact, Inventory, Validate, tree
<1>3. CASE Goto(r, "failed") \/ Goto(r, "exists")
  BY <1>1, <1>3, GotoSets DEF Knows
<1>4. CASE ReadBundleJson(r) /\ ~Goto(r, "failed")
  <2>1. run'[r].pc = "sum" /\ run'[r].json = vendor.json /\ vendor # Absent
    BY <1>1, <1>4 DEF ReadBundleJson, RunType
  <2> QED
    BY <1>2, <2>1 DEF Knows
<1>5. CASE ReadChecksum(r) /\ ~Goto(r, "failed")
  <2>1. /\ run'[r].pc = "artifacts" /\ run'[r].json = run[r].json /\ run'[r].sum = vendor.sum
        /\ run'[r].files = run[r].files /\ run[r].pc = "sum"
    BY <1>1, <1>5 DEF ReadChecksum, RunType
  <2>2. DOMAIN run'[r].files = {}
    BY <1>1, <2>1, EmptyFiles DEF Evidence
  <2> QED
    BY <1>2, <2>1, <2>2 DEF Knows
<1>6. CASE ReadArtifact(r) /\ ~Goto(r, "failed")
  <2> DEFINE listed == Doc[run[r].json].artifacts
             path == listed[run[r].k].path
             files == [p \in DOMAIN run[r].files \union {path} |->
                         IF p = path THEN vendor.files[path] ELSE run[r].files[p]]
             to == IF run[r].k = Len(listed) THEN "inventory" ELSE run[r].pc
             k == run[r].k + 1
  <2>1. /\ run[r].pc = "artifacts" /\ path \in DOMAIN vendor.files
        /\ run' = [run EXCEPT ![r].files = files, ![r].k = k, ![r].pc = to]
    BY <1>1, <1>6 DEF ReadArtifact
  <2>2. to \in {"inventory", "artifacts"}
    BY <2>1
  <2>3. /\ DOMAIN files = DOMAIN run[r].files \union {path}
        /\ \A p \in DOMAIN files :
             files[p] = IF p = path THEN vendor.files[path] ELSE run[r].files[p]
    OBVIOUS
  <2> HIDE DEF files, to, k, path
  <2>4. /\ run'[r].pc = to /\ run'[r].files = files
        /\ run'[r].json = run[r].json /\ run'[r].sum = run[r].sum
    BY <1>1, <2>1 DEF RunType
  <2> QED
    BY <1>2, <2>1, <2>2, <2>3, <2>4 DEF Knows
<1>7. CASE Inventory(r) /\ Goto(r, "validate")
  <2>1. /\ run[r].pc = "inventory" /\ InventoryExact(run[r].json, DOMAIN vendor.files)
        /\ run'[r].pc = "validate" /\ run'[r].json = run[r].json
        /\ run'[r].sum = run[r].sum /\ run'[r].files = run[r].files
    <3>1. ~Goto(r, "failed")
      <4>1. Goto(r, "failed") => run'[r].pc = "failed"
        BY <1>1, GotoSets
      <4>2. run'[r].pc = "validate"
        BY <1>1, <1>7, GotoSets
      <4> QED
        BY <4>1, <4>2
    <3> QED
      BY <1>1, <1>7, <3>1, GotoSets DEF Inventory
  <2> QED
    BY <1>2, <2>1 DEF Knows, InventoryExact
<1>8. CASE Validate(r) /\ Goto(r, "compare")
  <2>1. /\ run[r].pc = "validate" /\ run'[r].pc = "compare" /\ run'[r].json = run[r].json
        /\ run'[r].sum = run[r].sum /\ run'[r].files = run[r].files /\ run'[r].k = 1
    BY <1>1, <1>8, GotoSets DEF Validate
  <2>2. \A j \in DOMAIN Destinations : ~(j < 1)
    BY DestinationFacts
  <2> QED
    BY <1>2, <2>1, <2>2 DEF Knows
<1>9. Inventory(r) => Goto(r, "validate") \/ Goto(r, "failed")
  BY DEF Inventory
<1>10. Validate(r) => Goto(r, "exists") \/ Goto(r, "compare") \/ Goto(r, "failed")
  BY DEF Validate
<1> QED
  BY <1>3, <1>4, <1>5, <1>6, <1>7, <1>8, <1>9, <1>10 DEF ReadVendored

\* The comparison of the derived files, in a tree that nobody touches.
LEMMA AssertKnows ==
  ASSUME BaseInv, SealsAreTrue, NEW r \in Runs, Knows(r), AssertBytes(r)
  PROVE  Knows(r)' /\ UNCHANGED tree /\ (run'[r].pc = "ok" => Whole)
<1> DEFINE k == run[r].k
           d == Destinations[k]
<1>1. /\ run \in [Runs -> RunType] /\ RunsInv /\ run[r] \in RunType /\ Evidence(run[r])
      /\ run[r].pc = "compare" /\ UNCHANGED tree
  BY DEF BaseInv, RunsInv, AssertBytes
<1>2. /\ Held(run[r]) = vendor /\ IsExport(vendor)
      /\ run[r].files = vendor.files /\ run[r].json = vendor.json
  BY <1>1, KnowsExport
<1>3. vendor \in Published
  BY <1>1, <1>2 DEF Evidence, SealsAreTrue
<1>4. k \in DOMAIN Destinations
  BY <1>1 DEF Evidence
<1>5. CASE Goto(r, "failed")
  BY <1>1, <1>5, GotoSets DEF Knows
<1>6. CASE derived[d] = DeriveArtifacts(run[r].files, d) /\ Compared(k) /\ Goto(r, "ok")
  <2>1. run'[r].pc = "ok"
    BY <1>1, <1>6, GotoSets
  <2>2. \A j \in DOMAIN Destinations : j < k \/ j = k
    BY <1>4, <1>6, DestinationFacts DEF Compared
  <2>3. \A j \in DOMAIN Destinations :
          derived[Destinations[j]] = DeriveArtifacts(vendor.files, Destinations[j])
    BY <1>1, <1>2, <1>6, <2>2 DEF Knows
  <2>4. Whole
    BY <1>3, <2>3 DEF Whole
  <2> QED
    BY <1>1, <2>1, <2>4 DEF Knows
<1>7. CASE /\ derived[d] = DeriveArtifacts(run[r].files, d)
           /\ run' = [run EXCEPT ![r].k = @ + 1]
  <2>1. /\ run'[r].pc = "compare" /\ run'[r].k = k + 1 /\ run'[r].json = run[r].json
        /\ run'[r].sum = run[r].sum /\ run'[r].files = run[r].files
    BY <1>1, <1>7 DEF RunType
  <2>2. \A j \in DOMAIN Destinations : j < k + 1 => j < k \/ j = k
    BY <1>4, DestinationFacts
  <2> HIDE DEF k
  <2>3. \A j \in DOMAIN Destinations : j < k + 1 =>
          derived[Destinations[j]] = DeriveArtifacts(run[r].files, Destinations[j])
    BY <1>1, <1>7, <2>2 DEF Knows, k
  <2>4. derived' = derived /\ vendor' = vendor
    BY <1>1 DEF tree
  <2> QED
    BY <1>1, <2>1, <2>3, <2>4 DEF Knows
<1> QED
  BY <1>5, <1>6, <1>7, <1>1 DEF AssertBytes

-----------------------------------------------------------------------------
(* Success of all.                                                         *)

\* A run that answers for the tree: it will still check what it is writing, it
\* knows the tree so far, or it has not ended in success.
Answers(r) ==
  /\ run[r].pc # "idle"
  /\ \/ run[r].pc \in {"failed", "killed"}
     \/ run[r].phase = "source"
     \/ Knows(r) /\ (run[r].pc = "ok" => Whole)

\* From the first start on some run answers: the last that touched the tree does.
AnsweredInv == (\A r \in Runs : run[r].pc = "idle") \/ \E r \in Runs : Answers(r)

\* What a step of the run itself leaves alone.
LEMMA ReadKeeps ==
  ASSUME RunsInv, NEW r \in Runs, Read(r) \/ AssertBytes(r)
  PROVE  /\ run'[r].phase = run[r].phase /\ run'[r].mode = run[r].mode
         /\ run'[r].root = run[r].root /\ run'[r].alone = run[r].alone
         /\ run'[r].pc # "idle" /\ (Read(r) => run'[r].pc # "ok")
<1>1. run \in [Runs -> RunType] /\ run[r] \in RunType
  BY DEF RunsInv
<1>2. ASSUME NEW pc \in {"failed", "validate", "exists", "compare"}, Goto(r, pc)
      PROVE  /\ run'[r].phase = run[r].phase /\ run'[r].mode = run[r].mode
             /\ run'[r].root = run[r].root /\ run'[r].alone = run[r].alone
             /\ run'[r].pc \notin {"idle", "ok"}
  BY <1>2, GotoSets
<1>3. CASE ReadExternal(r) /\ ~Goto(r, "failed")
  BY <1>1, <1>3 DEF ReadExternal, RunType
<1>4. CASE ReadBundleJson(r) /\ ~Goto(r, "failed")
  BY <1>1, <1>4 DEF ReadBundleJson, RunType
<1>5. CASE ReadChecksum(r) /\ ~Goto(r, "failed")
  BY <1>1, <1>5 DEF ReadChecksum, RunType
<1>6. CASE ReadArtifact(r) /\ ~Goto(r, "failed")
  <2> DEFINE listed == Doc[run[r].json].artifacts
             path == listed[run[r].k].path
             files == [p \in DOMAIN run[r].files \union {path} |->
                         IF p = path THEN vendor.files[path] ELSE run[r].files[p]]
             to == IF run[r].k = Len(listed) THEN "inventory" ELSE run[r].pc
             k == run[r].k + 1
  <2>1. /\ run[r].pc = "artifacts"
        /\ run' = [run EXCEPT ![r].files = files, ![r].k = k, ![r].pc = to]
    BY <1>1, <1>6 DEF ReadArtifact
  <2>2. to \in {"inventory", "artifacts"}
    BY <2>1
  <2> HIDE DEF files, to, k
  <2> QED
    BY <1>1, <2>1, <2>2 DEF RunType
<1>7. CASE Inventory(r) \/ Validate(r)
  BY <1>2, <1>7 DEF Inventory, Validate
<1>8. CASE AssertBytes(r)
  <2>1. \/ Goto(r, "ok") \/ Goto(r, "failed")
        \/ run' = [run EXCEPT ![r].k = @ + 1] /\ run[r].pc = "compare"
    BY <1>8 DEF AssertBytes
  <2>2. CASE Goto(r, "ok")
    <3>1. ~Read(r)
      BY <1>8 DEF AssertBytes, Read, ReadExternal, ReadBundleJson, ReadChecksum, ReadArtifact,
         Inventory, Validate
    <3> QED
      BY <2>2, <3>1, GotoSets
  <2>3. CASE run' = [run EXCEPT ![r].k = @ + 1] /\ run[r].pc = "compare"
    BY <1>1, <2>3 DEF RunType
  <2> QED
    BY <1>2, <2>1, <2>2, <2>3
<1>9. CASE Goto(r, "failed")
  BY <1>2, <1>9
<1> QED
  BY <1>3, <1>4, <1>5, <1>6, <1>7, <1>8, <1>9 DEF Read

LEMMA FaultKeeps ==
  ASSUME RunsInv, NEW r \in Runs, Fault(r)
  PROVE  /\ run'[r].phase = run[r].phase /\ run'[r].mode = run[r].mode
         /\ run'[r].root = run[r].root
<1>1. run \in [Runs -> RunType] /\ run[r] \in RunType
  BY DEF RunsInv
<1>2. PICK to : run' = [run EXCEPT ![r].alone = FALSE, ![r].k = 1, ![r].pc = to]
  BY <1>1 DEF Fault
<1> QED
  BY <1>1, <1>2 DEF RunType

\* Whoever touches the tree answers for it from now on.
LEMMA WriterAnswers ==
  ASSUME BaseInv, NEW r \in Runs, Swap(r) \/ AtomicWrite(r)
  PROVE  Answers(r)'
<1>1. RunsInv /\ run \in [Runs -> RunType] /\ run[r] \in RunType /\ Evidence(run[r])
  BY DEF BaseInv, RunsInv
<1>2. CASE Swap(r)
  <2>1. run[r].phase = "source"
    BY <1>1, <1>2 DEF Swap, Exists, RenameAside, RenameStaging, DropPrevious, Rescue, RenameBack,
       Cleanup, Evidence, Swapping
  <2>2. PICK pc \in {"aside", "swap", "rescue", "drop", "write", "back", "cleanup", "failed"} :
          Goto(r, pc)
    BY <1>2 DEF Swap, Exists, RenameAside, RenameStaging, DropPrevious, Rescue, RenameBack, Cleanup
  <2>3. run'[r].phase = "source" /\ run'[r].pc = pc
    BY <1>1, <2>1, <2>2, GotoSets
  <2> QED
    BY <2>3 DEF Answers
<1>3. CASE AtomicWrite(r)
  <2>1. run[r].pc = "write" /\ run[r].phase = "source"
    BY <1>1, <1>3 DEF AtomicWrite, Evidence, Swapping
  <2>2. run'[r].pc = "bundle" \/ (run'[r].pc = "write" /\ run'[r].phase = "source")
    BY <1>1, <1>3, <2>1 DEF AtomicWrite, RunType
  <2> QED
    BY <2>2 DEF Answers, Knows
<1> QED
  BY <1>2, <1>3

\* Whoever answers goes on to do so, in a tree that its step leaves alone.
LEMMA ReaderAnswers ==
  ASSUME BaseInv, SealsAreTrue, NEW r \in Runs, Answers(r),
         Read(r) \/ AssertBytes(r) \/ Fault(r) \/ Kill(r)
  PROVE  Answers(r)'
<1>1. RunsInv /\ run \in [Runs -> RunType] /\ run[r] \in RunType /\ Evidence(run[r])
  BY DEF BaseInv, RunsInv
<1>2. CASE Fault(r)
  <2>1. run'[r].pc = FaultTo(run[r].pc) /\ run'[r].phase = run[r].phase
    BY <1>1, <1>2, FaultMoves, FaultKeeps
  <2>2. run'[r].pc = "failed" \/ (run'[r].pc \in {"rescue", "cleanup"} /\ run[r].phase = "source")
    BY <1>1, <2>1 DEF FaultTo, Evidence, Swapping
  <2> QED
    BY <2>1, <2>2 DEF Answers
<1>3. CASE Kill(r)
  BY <1>1, <1>3, GotoSets DEF Kill, Answers
<1>4. CASE (Read(r) \/ AssertBytes(r)) /\ run[r].phase = "source"
  <2>1. run'[r].phase = run[r].phase /\ run'[r].pc # "idle"
    BY <1>1, <1>4, ReadKeeps
  <2> QED
    BY <1>4, <2>1 DEF Answers
<1>5. CASE (Read(r) \/ AssertBytes(r)) /\ run[r].phase # "source"
  <2>1. Knows(r) /\ run[r].phase = "check"
    <3>1. run[r].pc \notin Ended
      BY <1>5 DEF Read, AssertBytes, ReadExternal, ReadBundleJson, ReadChecksum, ReadArtifact,
         Inventory, Validate, Ended
    <3> QED
      BY <1>1, <1>5, <3>1 DEF Answers, Ended, RunType
  <2>2. CASE AssertBytes(r)
    <3>1. Knows(r)' /\ UNCHANGED tree /\ (run'[r].pc = "ok" => Whole)
      BY <2>1, <2>2, AssertKnows
    <3>2. Whole' <=> Whole
      BY <3>1 DEF Whole, tree
    <3>3. run'[r].pc # "idle"
      BY <1>1, <1>5, ReadKeeps
    <3> QED
      BY <3>1, <3>2, <3>3 DEF Answers
  <2>3. CASE Read(r)
    <3>1. ReadVendored(r)
      BY <2>1, <2>3 DEF Read, ReadVendored, ReadExternal, ReadsVendored
    <3>2. Knows(r)'
      BY <2>1, <3>1, ReadKnows
    <3>3. run'[r].pc \notin {"idle", "ok"}
      BY <1>1, <2>3, ReadKeeps
    <3> QED
      BY <3>2, <3>3 DEF Answers
  <2> QED
    BY <1>5, <2>2, <2>3
<1> QED
  BY <1>2, <1>3, <1>4, <1>5

LEMMA NextAnswered ==
  ASSUME BaseInv, SealsAreTrue, AnsweredInv, [Next]_vars
  PROVE  AnsweredInv'
<1>1. RunsInv /\ run \in [Runs -> RunType]
  BY DEF BaseInv, RunsInv
<1>2. CASE UNCHANGED vars
  BY <1>2 DEF vars, AnsweredInv, Answers, Knows, Whole
<1>3. ASSUME NEW s \in Runs, Start(s) PROVE AnsweredInv'
  <2>1. run'[s].pc = "bundle" /\ run[s].pc = "idle" /\ UNCHANGED tree
    BY <1>3, StartFacts DEF Start
  <2>2. Answers(s)'
    <3>1. run'[s].pc # "idle" /\ Knows(s)' /\ run'[s].pc # "ok"
      BY <2>1 DEF Knows
    <3> QED
      BY <3>1 DEF Answers
  <2> QED
    BY <2>2 DEF AnsweredInv
<1>4. ASSUME NEW s \in Runs, Swap(s) \/ AtomicWrite(s) PROVE AnsweredInv'
  BY <1>4, WriterAnswers DEF AnsweredInv
<1>5. ASSUME NEW s \in Runs, Read(s) \/ AssertBytes(s) \/ Fault(s) \/ Kill(s)
      PROVE  AnsweredInv'
  <2>1. Moves(s) /\ UNCHANGED tree
    <3>1. Moves(s)
      BY <1>5, StepMoves DEF Step
    <3>2. UNCHANGED tree
      BY <1>5 DEF Read, AssertBytes, Fault, Kill, ReadExternal, ReadBundleJson, ReadChecksum,
         ReadArtifact, Inventory, Validate
    <3> QED
      BY <3>1, <3>2
  <2>2. PICK w \in Runs : Answers(w)
    BY <2>1 DEF AnsweredInv, Moves, Active, Ended
  <2>3. CASE w = s
    BY <1>5, <2>2, <2>3, ReaderAnswers DEF AnsweredInv
  <2>4. CASE w # s
    <3>1. run'[w] = run[w]
      BY <2>1, <2>4 DEF Moves
    <3>2. Knows(w) => Knows(w)'
      BY <2>1, <3>1 DEF Knows, tree
    <3>3. Whole' <=> Whole
      BY <2>1 DEF Whole, tree
    <3>4. Answers(w)'
      BY <2>2, <3>1, <3>2, <3>3 DEF Answers
    <3> QED
      BY <3>4 DEF AnsweredInv
  <2> QED
    BY <2>3, <2>4
<1> QED
  BY <1>2, <1>3, <1>4, <1>5 DEF Next, Step

\* However the runs overlapped, failed or were killed on the way: if all that
\* ever began ended in success, the tree is whole.
THEOREM GreenIsWhole == ASSUME SealsAreTrue PROVE Spec => []AllGreenMeansWhole
<1>1. Init => AnsweredInv
  BY DEF Init, Idle, AnsweredInv
<1>2. BaseInv /\ AnsweredInv /\ [Next]_vars => AnsweredInv'
  BY NextAnswered
<1>3. BaseInv /\ AnsweredInv => AllGreenMeansWhole
  <2> SUFFICES ASSUME BaseInv, AnsweredInv, \A r \in Runs : run[r].pc \in {"idle", "ok"},
                      \E r \in Runs : run[r].pc = "ok"
               PROVE  Whole
    BY DEF AllGreenMeansWhole
  <2>1. PICK w \in Runs : Answers(w)
    BY DEF AnsweredInv
  <2>2. run[w].pc = "ok"
    BY <2>1 DEF Answers
  <2>3. run[w].phase = "check"
    BY <2>2 DEF BaseInv, RunsInv, Evidence
  <2> QED
    BY <2>1, <2>2, <2>3 DEF Answers
<1> QED
  BY <1>1, <1>2, <1>3, SpecBase, PTL DEF Spec

-----------------------------------------------------------------------------
(* A run that is alone.                                                    *)

\* The producer publishes nothing that the validation refuses.
PublishedIsAccepted == \A e \in Published : Accepted(e)

\* What holds at each point of a run that nothing has disturbed: the tree is as
\* it has read and left it, and no rename of its swap can fail.
Undisturbed(r) ==
  /\ Active = {r}
  /\ run[r].pc \notin {"rescue", "back", "cleanup"}
  /\ run[r].phase = "source" /\ run[r].pc \notin {"swap", "drop", "write"} =>
       previous[run[r].pid] = Absent
  /\ run[r].pc = "aside" => vendor # Absent
  /\ run[r].pc = "swap" => vendor = Absent
  /\ run[r].pc \in {"sum", "artifacts", "inventory"} => ReadsVendored(r)
  /\ ReadsVendored(r) => Knows(r)
  /\ run[r].pc = "validate" /\ ~ReadsVendored(r) => Held(run[r]) = External[run[r].root]
  /\ /\ run[r].mode = "sync" /\ run[r].root # Vendored
     /\ run[r].pc \in Swapping \/ run[r].phase = "check"
     => External[run[r].root] \in Published
  /\ run[r].pc \in {"drop", "write"} => vendor = Held(run[r])
  /\ run[r].pc = "write" =>
       \A j \in DOMAIN Destinations : j < run[r].k =>
         derived[Destinations[j]] = DeriveArtifacts(run[r].files, Destinations[j])
  /\ run[r].mode = "sync" /\ run[r].phase = "check" => Whole

AloneInv == \A r \in Active : run[r].alone => Undisturbed(r)

LEMMA StepKeeps ==
  ASSUME RunsInv, NEW r \in Runs, Step(r)
  PROVE  /\ run'[r].mode = run[r].mode /\ run'[r].root = run[r].root
         /\ run'[r].alone = run[r].alone
<1>1. CASE Read(r) \/ AssertBytes(r)
  BY <1>1, ReadKeeps
<1>2. CASE Swap(r)
  <2>1. PICK pc : Goto(r, pc)
    BY <1>2 DEF Swap, Exists, RenameAside, RenameStaging, DropPrevious, Rescue, RenameBack, Cleanup
  <2> QED
    BY <2>1, GotoSets
<1>3. CASE AtomicWrite(r)
  BY <1>3 DEF AtomicWrite, RunsInv, RunType
<1> QED
  BY <1>1, <1>2, <1>3 DEF Step

\* A run that is alone is the only one to move.
LEMMA AloneMoves ==
  ASSUME BaseInv, AloneInv, NEW r \in Runs, Moves(r),
         run'[r].alone => run[r].alone,
         Undisturbed(r) /\ run'[r].pc \notin Ended => Undisturbed(r)'
  PROVE  AloneInv'
<1> SUFFICES ASSUME NEW s \in Active', run'[s].alone PROVE Undisturbed(s)'
  BY DEF AloneInv
<1>1. s \in Runs /\ run'[s].pc \notin Ended
  BY DEF Active
<1>2. CASE s = r
  <2>1. Undisturbed(r)
    BY <1>2 DEF AloneInv, Moves
  <2> QED
    BY <1>1, <1>2, <2>1
<1>3. CASE s # r
  <2>1. run'[s] = run[s]
    BY <1>1, <1>3 DEF Moves
  <2>2. s \in Active
    BY <1>1, <2>1 DEF Active
  <2>3. Active = {s}
    BY <2>1, <2>2 DEF AloneInv, Undisturbed
  <2> QED
    BY <1>3, <2>3 DEF Moves
<1> QED
  BY <1>2, <1>3

\* Active is a matter of where a run is.
LEMMA StaysOnly ==
  ASSUME NEW r \in Runs, Moves(r), Active = {r}, run'[r].pc \notin Ended
  PROVE  Active' = {r}
<1>1. \A s \in Runs \ {r} : s \notin Active /\ run'[s] = run[s]
  BY DEF Moves
<1>2. \A s \in Runs \ {r} : run'[s].pc \in Ended
  BY <1>1 DEF Active
<1> QED
  BY <1>2 DEF Active

LEMMA ReadUndisturbed ==
  ASSUME BaseInv, SealsAreTrue, NEW r \in Runs, Undisturbed(r),
         Read(r) \/ AssertBytes(r), run'[r].pc \notin Ended
  PROVE  Undisturbed(r)'
<1>1. /\ RunsInv /\ run \in [Runs -> RunType] /\ run[r] \in RunType /\ Evidence(run[r])
      /\ Moves(r) /\ UNCHANGED tree /\ run'[r].pid = run[r].pid
      /\ run'[r].phase = run[r].phase /\ run'[r].mode = run[r].mode /\ run'[r].root = run[r].root
  <2>1. Moves(r)
    BY StepMoves DEF Step
  <2>2. UNCHANGED tree
    BY DEF Read, AssertBytes, ReadExternal, ReadBundleJson, ReadChecksum, ReadArtifact, Inventory,
       Validate
  <2>3. RunsInv /\ run \in [Runs -> RunType] /\ run[r] \in RunType /\ Evidence(run[r])
    BY DEF BaseInv, RunsInv
  <2> QED
    BY <2>1, <2>2, <2>3, ReadKeeps DEF Moves
<1>2. Active' = {r}
  BY <1>1, StaysOnly DEF Undisturbed
<1>3. (ReadsVendored(r)' <=> ReadsVendored(r)) /\ (Whole' <=> Whole)
  BY <1>1 DEF ReadsVendored, Whole, tree
<1>4. vendor' = vendor /\ previous' = previous
  BY <1>1 DEF tree
<1>5. \A pc : Goto(r, pc) => run'[r].pc = pc
  BY <1>1, GotoSets
<1>6. CASE ReadExternal(r)
  <2> DEFINE dir == External[run[r].root]
  <2>1. /\ run'[r].pc = "validate" /\ run'[r].json = dir.json /\ run'[r].sum = dir.sum
        /\ run'[r].files = dir.files /\ ~ReadsVendored(r)
    <3>1. ~Goto(r, "failed") /\ ~ReadsVendored(r)
      BY <1>5, <1>6 DEF Ended, ReadExternal
    <3> QED
      BY <1>1, <1>6, <3>1 DEF ReadExternal, RunType
  <2>2. IsExport(dir)
    BY <1>1, <2>1, ContractSyncAssumption DEF RunType, ReadsVendored
  <2>3. Held(run'[r]) = dir
    BY <2>1, <2>2 DEF Held, IsExport
  <2> QED
    BY <1>1, <1>2, <1>3, <1>4, <1>6, <2>1, <2>3 DEF Undisturbed, Swapping, ReadExternal
<1>7. CASE ReadBundleJson(r) \/ ReadChecksum(r) \/ ReadArtifact(r) \/ Inventory(r)
  <2>1. ReadsVendored(r) /\ Knows(r)
    BY <1>7 DEF ReadBundleJson, ReadChecksum, ReadArtifact, Inventory, Undisturbed
  <2>2. Knows(r)'
    BY <1>7, <2>1, ReadKnows DEF ReadVendored
  <2>3. run'[r].pc \in {"sum", "artifacts", "inventory", "validate"} /\ run[r].pc \notin {"swap", "drop", "write"}
    <3>1. ~Goto(r, "failed")
      BY <1>5 DEF Ended
    <3>2. CASE ReadBundleJson(r)
      BY <1>1, <3>1, <3>2 DEF ReadBundleJson, RunType
    <3>3. CASE ReadChecksum(r)
      BY <1>1, <3>1, <3>3 DEF ReadChecksum, RunType
    <3>4. CASE ReadArtifact(r)
      <4> DEFINE listed == Doc[run[r].json].artifacts
                 path == listed[run[r].k].path
                 files == [p \in DOMAIN run[r].files \union {path} |->
                             IF p = path THEN vendor.files[path] ELSE run[r].files[p]]
                 to == IF run[r].k = Len(listed) THEN "inventory" ELSE run[r].pc
                 k == run[r].k + 1
      <4>1. /\ run[r].pc = "artifacts"
            /\ run' = [run EXCEPT ![r].files = files, ![r].k = k, ![r].pc = to]
        BY <1>1, <3>1, <3>4 DEF ReadArtifact
      <4>2. to \in {"inventory", "artifacts"}
        BY <4>1
      <4> HIDE DEF files, to, k
      <4> QED
        BY <1>1, <4>1, <4>2 DEF RunType
    <3>5. CASE Inventory(r)
      BY <1>5, <3>1, <3>5 DEF Inventory
    <3> QED
      BY <1>7, <3>2, <3>3, <3>4, <3>5
  <2> QED
    BY <1>1, <1>2, <1>3, <1>4, <2>1, <2>2, <2>3 DEF Undisturbed, Swapping
<1>8. CASE Validate(r)
  <2>1. /\ run[r].pc = "validate" /\ ValidateBundleState(run[r].json, run[r].files)
        /\ run'[r].pc = IF run[r].phase = "source" THEN "exists" ELSE "compare"
    BY <1>5, <1>8 DEF Validate, Ended
  <2>2. ReadsVendored(r) => Knows(r)'
    BY <1>8, ReadKnows DEF ReadVendored, Undisturbed
  <2>3. run'[r].pc = "compare" => run[r].phase = "check"
    BY <1>1, <2>1 DEF RunType
  <2>4. ~ReadsVendored(r) => External[run[r].root] \in Published
    <3> SUFFICES ASSUME ~ReadsVendored(r) PROVE External[run[r].root] \in Published
      OBVIOUS
    <3>1. Held(run[r]) = External[run[r].root]
      BY <2>1 DEF Undisturbed
    <3>2. IsExport(External[run[r].root])
      BY <1>1, ContractSyncAssumption DEF RunType, ReadsVendored
    <3>3. Accepted(Held(run[r]))
      BY <1>1, <2>1 DEF Evidence, Accepted, Held
    <3> QED
      BY <3>1, <3>2, <3>3 DEF SealsAreTrue
  <2> QED
    BY <1>1, <1>2, <1>3, <1>4, <2>1, <2>2, <2>3, <2>4 DEF Undisturbed, Swapping, ReadsVendored
<1>9. CASE AssertBytes(r)
  <2>1. run[r].pc = "compare" /\ run[r].phase = "check" /\ ReadsVendored(r)
    BY <1>1, <1>9 DEF AssertBytes, Evidence, ReadsVendored
  <2>2. Knows(r)'
    BY <1>9, <2>1, AssertKnows DEF Undisturbed
  <2>3. run'[r].pc = "compare"
    <3>1. ~Goto(r, "failed") /\ ~Goto(r, "ok")
      BY <1>5 DEF Ended
    <3>2. run' = [run EXCEPT ![r].k = @ + 1]
      BY <1>9, <3>1 DEF AssertBytes
    <3> QED
      BY <1>1, <2>1, <3>2 DEF RunType
  <2> QED
    BY <1>1, <1>2, <1>3, <1>4, <2>1, <2>2, <2>3 DEF Undisturbed, Swapping
<1> QED
  BY <1>6, <1>7, <1>8, <1>9 DEF Read

LEMMA SwapUndisturbed ==
  ASSUME BaseInv, NEW r \in Runs, Undisturbed(r), Swap(r)
  PROVE  Undisturbed(r)'
<1>1. /\ RunsInv /\ run[r] \in RunType /\ Evidence(run[r]) /\ Moves(r)
      /\ DOMAIN previous = Pids /\ UNCHANGED derived
  <2>1. UNCHANGED derived
    BY DEF Swap, Exists, RenameAside, RenameStaging, DropPrevious, Rescue, RenameBack, Cleanup,
       tree
  <2> QED
    BY <2>1, SwapSteps DEF BaseInv, RunsInv, TreeInv
<1>2. run[r].pid \in Pids /\ run'[r].pid = run[r].pid
  BY <1>1 DEF Moves, Active, Evidence
<1>3. /\ run[r].pc \in {"exists", "aside", "swap", "drop"} /\ run[r].phase = "source"
      /\ ~Rescue(r) /\ ~RenameBack(r) /\ ~Cleanup(r)
  <2>1. run[r].pc \notin {"rescue", "back", "cleanup"}
    BY DEF Undisturbed
  <2>2. run[r].pc \in {"exists", "aside", "swap", "drop"} /\ ~Rescue(r) /\ ~RenameBack(r) /\ ~Cleanup(r)
    BY <2>1 DEF Swap, Exists, RenameAside, RenameStaging, DropPrevious, Rescue, RenameBack, Cleanup
  <2> QED
    BY <1>1, <2>2 DEF Evidence, Swapping
<1>4. PICK to \in {"aside", "swap", "drop", "write"} :
        /\ Goto(r, to)
        /\ \/ run[r].pc = "exists" /\ UNCHANGED <<vendor, previous>>
              /\ to = (IF vendor = Absent THEN "swap" ELSE "aside")
           \/ run[r].pc = "aside" /\ vendor' = Absent /\ to = "swap"
           \/ run[r].pc = "swap" /\ vendor' = Staged(r) /\ to = "drop"
           \/ run[r].pc = "drop" /\ vendor' = vendor /\ to = "write"
  <2>1. CASE Exists(r)
    BY <2>1 DEF Exists, tree
  <2>2. CASE RenameAside(r)
    BY <1>1, <1>3, <2>2 DEF RenameAside, Undisturbed
  <2>3. CASE RenameStaging(r)
    BY <2>3 DEF RenameStaging, Undisturbed
  <2>4. CASE DropPrevious(r)
    BY <2>4 DEF DropPrevious
  <2> QED
    BY <1>3, <2>1, <2>2, <2>3, <2>4 DEF Swap
<1>5. /\ run'[r].pc = to /\ run'[r].k = 1 /\ run'[r].phase = "source"
      /\ run'[r].mode = run[r].mode /\ run'[r].root = run[r].root
      /\ run'[r].json = run[r].json /\ run'[r].sum = run[r].sum /\ run'[r].files = run[r].files
  BY <1>1, <1>3, <1>4, GotoSets
<1>6. Active' = {r}
  BY <1>1, <1>5, StaysOnly DEF Undisturbed, Ended
<1>7. to \in Swapping /\ run[r].pc \in Swapping
  BY <1>3, <1>4 DEF Swapping
<1>8. Held(run'[r]) = Held(run[r]) /\ Staged(r) = Held(run[r])
  BY <1>5 DEF Held, Staged
<1>9. \A j \in DOMAIN Destinations : ~(j < run'[r].k)
  BY <1>5, DestinationFacts
<1>10. Knows(r)'
  BY <1>4, <1>5 DEF Knows
<1>11. to \in {"drop", "write"} => vendor' = Held(run'[r])
  BY <1>4, <1>8 DEF Undisturbed
<1>12. to = "aside" => vendor' # Absent /\ previous'[run'[r].pid] = Absent
  BY <1>2, <1>3, <1>4 DEF Undisturbed
<1>13. to = "swap" => vendor' = Absent
  BY <1>4
<1> QED
  BY <1>4, <1>5, <1>6, <1>7, <1>9, <1>10, <1>11, <1>12, <1>13 DEF Undisturbed

\* The derived files, written one after another, are all in place in the end.
LEMMA WriteUndisturbed ==
  ASSUME BaseInv, SealsAreTrue, NEW r \in Runs, Undisturbed(r), AtomicWrite(r)
  PROVE  Undisturbed(r)'
<1> DEFINE k == run[r].k
           d == Destinations[k]
<1>1. /\ RunsInv /\ run \in [Runs -> RunType] /\ run[r] \in RunType /\ Evidence(run[r])
      /\ Moves(r) /\ run'[r].pid = run[r].pid /\ Range(Destinations) \subseteq DOMAIN derived
      /\ run[r].pc = "write" /\ UNCHANGED <<vendor, previous>> /\ run[r].phase = "source"
  <2>1. run[r].pc = "write" /\ UNCHANGED <<vendor, previous>>
    BY DEF AtomicWrite
  <2> QED
    BY <2>1, AtomicWriteMoves DEF BaseInv, RunsInv, TreeInv, Moves, Evidence, Swapping
<1>2. k \in DOMAIN Destinations /\ vendor = Held(run[r]) /\ Accepted(vendor)
  BY <1>1 DEF Evidence, Undisturbed, Swapping
<1>3. vendor \in Published
  <2>1. IsExport(vendor)
    BY <1>1, <1>2, StagedIsExport DEF Staged, Held, Swapping
  <2> QED
    BY <1>2, <2>1 DEF SealsAreTrue
<1>4. \A j \in DOMAIN Destinations : j < k + 1 =>
        derived'[Destinations[j]] = DeriveArtifacts(run[r].files, Destinations[j])
  <2>1. derived' = [derived EXCEPT ![d] = DeriveArtifacts(run[r].files, d)]
    BY DEF AtomicWrite
  <2> SUFFICES ASSUME NEW j \in DOMAIN Destinations, j < k + 1
               PROVE  derived'[Destinations[j]] = DeriveArtifacts(run[r].files, Destinations[j])
    OBVIOUS
  <2>2. Destinations[j] \in DOMAIN derived
    BY <1>1 DEF Range
  <2>3. CASE j = k
    BY <2>1, <2>2, <2>3
  <2>4. CASE j # k
    <3>1. j < k
      BY <1>2, <2>4, DestinationFacts
    <3>2. Destinations[j] # d
      BY <1>2, <2>4, ContractSyncAssumption DEF IsInjective
    <3>3. derived[Destinations[j]] = DeriveArtifacts(run[r].files, Destinations[j])
      BY <1>1, <3>1 DEF Undisturbed
    <3> QED
      BY <2>1, <2>2, <3>2, <3>3
  <2> QED
    BY <2>3, <2>4
<1>5. CASE k = Len(Destinations)
  <2>1. /\ run'[r].pc = "bundle" /\ run'[r].phase = "check"
        /\ run'[r].mode = run[r].mode /\ run'[r].root = run[r].root
    BY <1>1, <1>5 DEF AtomicWrite, RunType
  <2>2. \A j \in DOMAIN Destinations : j < k + 1
    BY <1>5, DestinationFacts
  <2>3. Whole'
    BY <1>1, <1>2, <1>3, <1>4, <2>2 DEF Whole, Held
  <2>4. Active' = {r}
    BY <1>1, <2>1, StaysOnly DEF Undisturbed, Ended
  <2>5. Knows(r)'
    BY <2>1 DEF Knows
  <2> QED
    BY <1>1, <2>1, <2>3, <2>4, <2>5 DEF Undisturbed, Swapping
<1>6. CASE k # Len(Destinations)
  <2>1. /\ run'[r].pc = "write" /\ run'[r].phase = "source" /\ run'[r].k = k + 1
        /\ run'[r].mode = run[r].mode /\ run'[r].root = run[r].root
        /\ run'[r].json = run[r].json /\ run'[r].sum = run[r].sum
        /\ run'[r].files = run[r].files
    BY <1>1, <1>6 DEF AtomicWrite, RunType
  <2>2. Held(run'[r]) = Held(run[r])
    BY <2>1 DEF Held
  <2>3. Active' = {r}
    BY <1>1, <2>1, StaysOnly DEF Undisturbed, Ended
  <2>4. Knows(r)'
    BY <2>1 DEF Knows
  <2> QED
    BY <1>1, <1>2, <1>4, <2>1, <2>2, <2>3, <2>4 DEF Undisturbed, Swapping
<1> QED
  BY <1>5, <1>6

LEMMA StartAlone ==
  ASSUME BaseInv, AloneInv, NEW r \in Runs, Start(r)
  PROVE  AloneInv'
<1>1. /\ run \in [Runs -> RunType] /\ run[r].pc = "idle" /\ run'[r].pc = "bundle"
      /\ run'[r].alone => Active = {} /\ previous[run'[r].pid] = Absent
      /\ \A s \in Runs \ {r} :
           IF s \in Active THEN run'[s] = [run[s] EXCEPT !.alone = FALSE] ELSE run'[s] = run[s]
      /\ run'[r].phase = IF run'[r].mode = "sync" THEN "source" ELSE "check"
      /\ UNCHANGED tree
  BY StartFacts DEF BaseInv, RunsInv, Start
<1>2. SUFFICES ASSUME NEW s \in Active', run'[s].alone PROVE Undisturbed(s)'
  BY DEF AloneInv
<1>3. s = r
  <2>1. SUFFICES ASSUME s # r PROVE FALSE
    OBVIOUS
  <2>2. s \in Runs /\ run'[s].pc \notin Ended /\ run[s] \in RunType
    BY <1>1, <1>2 DEF Active
  <2>3. s \in Active
    BY <1>1, <2>1, <2>2 DEF Active
  <2>4. run'[s] = [run[s] EXCEPT !.alone = FALSE]
    BY <1>1, <2>1, <2>2, <2>3
  <2> QED
    BY <1>2, <2>2, <2>4 DEF RunType
<1>4. Active = {} /\ previous[run'[r].pid] = Absent
  BY <1>1, <1>2, <1>3
<1>5. Active' = {r}
  <2>1. \A q \in Runs \ {r} : run'[q] = run[q] /\ run[q].pc \in Ended
    BY <1>1, <1>4 DEF Active
  <2> QED
    BY <1>1, <2>1 DEF Active, Ended
<1>6. Knows(r)'
  BY <1>1 DEF Knows
<1>7. previous' = previous
  BY <1>1 DEF tree
<1> QED
  BY <1>1, <1>3, <1>4, <1>5, <1>6, <1>7 DEF Undisturbed, Swapping

LEMMA NextAlone == BaseInv /\ SealsAreTrue /\ AloneInv /\ [Next]_vars => AloneInv'
<1> SUFFICES ASSUME BaseInv, SealsAreTrue, AloneInv, [Next]_vars PROVE AloneInv'
  OBVIOUS
<1>1. CASE UNCHANGED vars
  BY <1>1 DEF vars, AloneInv, Undisturbed, Active, ReadsVendored, Knows, Whole
<1>2. ASSUME NEW r \in Runs, Step(r) PROVE AloneInv'
  <2>1. Moves(r) /\ run'[r].alone = run[r].alone
    BY <1>2, StepMoves, StepKeeps DEF BaseInv
  <2>2. Undisturbed(r) /\ run'[r].pc \notin Ended => Undisturbed(r)'
    BY <1>2, ReadUndisturbed, SwapUndisturbed, WriteUndisturbed DEF Step
  <2> QED
    BY <2>1, <2>2, AloneMoves
<1>3. ASSUME NEW r \in Runs, Fault(r) \/ Kill(r) PROVE AloneInv'
  <2>1. Moves(r)
    BY <1>3, StepMoves
  <2>2. ~run'[r].alone \/ (run'[r].pc \in Ended /\ run'[r].alone = run[r].alone)
    BY <1>3, FaultMoves, GotoSets DEF Kill, Ended, BaseInv
  <2>3. CASE ~run'[r].alone
    <3>1. ASSUME NEW s \in Active', run'[s].alone PROVE Undisturbed(s)'
      <4>1. s # r /\ s \in Runs /\ run'[s].pc \notin Ended
        BY <2>3, <3>1 DEF Active
      <4>2. run'[s] = run[s] /\ r \in Active
        BY <2>1, <4>1 DEF Moves
      <4>3. s \in Active /\ run[s].alone
        BY <3>1, <4>1, <4>2 DEF Active
      <4> QED
        BY <4>1, <4>2, <4>3 DEF AloneInv, Undisturbed
    <3> QED
      BY <3>1 DEF AloneInv
  <2>4. CASE run'[r].pc \in Ended /\ run'[r].alone = run[r].alone
    BY <2>1, <2>4, AloneMoves
  <2> QED
    BY <2>2, <2>3, <2>4
<1>4. ASSUME NEW r \in Runs, Start(r) PROVE AloneInv'
  BY <1>4, StartAlone
<1> QED
  BY <1>1, <1>2, <1>3, <1>4 DEF Next

\* A run that deserves to succeed reads, at each point, a published export.
LEMMA DeservedReads ==
  ASSUME BaseInv, NEW r \in Runs, Undisturbed(r), Deserved(r), run[r].pc \notin Ended
  PROVE  /\ ReadsVendored(r) => vendor \in Published
         /\ run[r].phase = "check" => Whole
         /\ ~ReadsVendored(r) => External[run[r].root] \in Published
<1>1. run[r] \in RunType /\ Evidence(run[r]) /\ run[r].pc # "idle"
  BY DEF BaseInv, RunsInv, Ended
<1>2. CASE run[r].mode = "sync"
  BY <1>1, <1>2 DEF Deserved, Undisturbed, ReadsVendored, Whole
<1>3. CASE run[r].mode # "sync"
  <2>1. Whole
    BY <1>3 DEF Deserved
  <2> QED
    BY <1>1, <1>3, <2>1 DEF Whole, ReadsVendored, Evidence
<1> QED
  BY <1>2, <1>3

\* No read of such a run fails, nor does the validation.
LEMMA DeservedReadsOn ==
  ASSUME BaseInv, PublishedIsAccepted, NEW r \in Runs, Undisturbed(r), Deserved(r), Read(r)
  PROVE  run'[r].pc # "failed"
<1>1. /\ RunsInv /\ run \in [Runs -> RunType] /\ run[r] \in RunType /\ Evidence(run[r])
      /\ run[r].pc \notin Ended
  BY DEF BaseInv, RunsInv, Read, ReadExternal, ReadBundleJson, ReadChecksum, ReadArtifact,
     Inventory, Validate, Ended
<1>2. /\ ReadsVendored(r) => vendor \in Published /\ Accepted(vendor) /\ vendor # Absent
      /\ ~ReadsVendored(r) => Accepted(External[run[r].root])
  BY <1>1, DeservedReads, ContractSyncAssumption DEF PublishedIsAccepted
<1>3. CASE ReadExternal(r)
  <2>1. ReadBundle(External[run[r].root])
    BY <1>2, <1>3 DEF ReadExternal, Accepted
  <2> QED
    BY <1>1, <1>3, <2>1 DEF ReadExternal, RunType
<1>4. CASE ReadBundleJson(r)
  <2>1. vendor # Absent
    BY <1>2, <1>4 DEF ReadBundleJson
  <2> QED
    BY <1>1, <1>4, <2>1 DEF ReadBundleJson, RunType
<1>5. CASE ReadChecksum(r)
  <2>1. run[r].pc = "sum" /\ Accepted(vendor) /\ vendor # Absent /\ run[r].json = vendor.json
    BY <1>2, <1>5 DEF ReadChecksum, Undisturbed, Knows
  <2>2. ParseSingleChecksum(run[r].json, vendor.sum) /\ BundleMetadata(run[r].json)
    BY <2>1 DEF Accepted, ReadBundle
  <2> QED
    BY <1>1, <1>5, <2>1, <2>2 DEF ReadChecksum, RunType
<1>6. CASE ReadArtifact(r)
  <2> DEFINE listed == Doc[run[r].json].artifacts
             path == listed[run[r].k].path
             files == [p \in DOMAIN run[r].files \union {path} |->
                         IF p = path THEN vendor.files[path] ELSE run[r].files[p]]
             to == IF run[r].k = Len(listed) THEN "inventory" ELSE run[r].pc
             k == run[r].k + 1
  <2>1. /\ run[r].pc = "artifacts" /\ Accepted(vendor) /\ vendor # Absent
        /\ run[r].json = vendor.json
    BY <1>2, <1>6 DEF ReadArtifact, Undisturbed, Knows
  <2>2. listed[run[r].k] \in Range(listed)
    <3>1. Listed(run[r].json) /\ run[r].k \in 1..Len(Listing(run[r].json))
      BY <1>1, <2>1 DEF Evidence
    <3>2. run[r].k \in DOMAIN listed
      BY <3>1, ListingFacts DEF Listing
    <3> QED
      BY <3>2 DEF Range
  <2>3. path \in DOMAIN vendor.files /\ EntryMatches(listed[run[r].k], vendor.files[path])
    BY <2>1, <2>2 DEF Accepted, ReadBundle
  <2>4. run' = [run EXCEPT ![r].files = files, ![r].k = k, ![r].pc = to]
    BY <1>1, <1>6, <2>1, <2>3 DEF ReadArtifact
  <2>5. to # "failed"
    BY <2>1
  <2> HIDE DEF files, to, k
  <2> QED
    BY <1>1, <2>4, <2>5 DEF RunType
<1>7. CASE Inventory(r)
  <2>1. /\ run[r].pc = "inventory" /\ Accepted(vendor) /\ vendor # Absent
        /\ run[r].json = vendor.json
    BY <1>2, <1>7 DEF Inventory, Undisturbed, Knows
  <2>2. Goto(r, "validate")
    BY <1>7, <2>1 DEF Inventory, Accepted, ReadBundle
  <2> QED
    BY <1>1, <2>2, GotoSets
<1>8. CASE Validate(r)
  <2>1. run[r].pc = "validate"
    BY <1>8 DEF Validate
  <2>2. Accepted(Held(run[r]))
    BY <1>2, <2>1, KnowsExport DEF Undisturbed
  <2>3. ValidateBundleState(run[r].json, run[r].files)
    BY <2>2 DEF Accepted, Held
  <2>4. Goto(r, IF run[r].phase = "source" THEN "exists" ELSE "compare")
    BY <1>8, <2>3 DEF Validate
  <2> QED
    BY <1>1, <2>4, GotoSets
<1> QED
  BY <1>3, <1>4, <1>5, <1>6, <1>7, <1>8 DEF Read

\* The comparison, the generated clients, and the status that a release check asks
\* for.
LEMMA DeservedCompares ==
  ASSUME BaseInv, SealsAreTrue, NEW r \in Runs, Undisturbed(r), AssertBytes(r)
  PROVE  /\ run'[r].pc = "ok" => Deserved(r) /\ Whole
         /\ run'[r].pc = "failed" => ~Deserved(r)
<1> DEFINE k == run[r].k
           d == Destinations[k]
           clean == ValidateGeneratedScopeSurfaces
           released == run[r].mode = "check-release" => Doc[run[r].json].status = "released"
<1>1. /\ RunsInv /\ run \in [Runs -> RunType] /\ run[r] \in RunType /\ Evidence(run[r])
      /\ run[r].pc = "compare" /\ run[r].phase = "check" /\ run[r].pc \notin Ended
  BY DEF BaseInv, RunsInv, AssertBytes, Evidence, Ended
<1>2. Knows(r) /\ ReadsVendored(r)
  BY <1>1 DEF Undisturbed, ReadsVendored
<1>3. run[r].files = vendor.files /\ run[r].json = vendor.json
  BY <1>1, <1>2, KnowsExport
<1>4. \A pc : Goto(r, pc) => run'[r].pc = pc
  BY <1>1, GotoSets
<1>5. ASSUME run'[r].pc = "ok" PROVE Deserved(r) /\ Whole
  <2>1. Whole
    BY <1>2, <1>5, AssertKnows
  <2>2. clean /\ released
    <3>1. ~Goto(r, "failed")
      BY <1>4, <1>5
    <3>2. run' # [run EXCEPT ![r].k = @ + 1]
      BY <1>1, <1>5 DEF RunType
    <3> QED
      BY <3>1, <3>2 DEF AssertBytes
  <2>3. CASE run[r].mode = "sync"
    BY <1>1, <2>1, <2>2, <2>3 DEF Deserved, Undisturbed, Whole
  <2>4. CASE run[r].mode # "sync"
    BY <1>3, <2>1, <2>2, <2>4 DEF Deserved
  <2> QED
    BY <2>1, <2>3, <2>4
<1>6. ASSUME run'[r].pc = "failed", Deserved(r) PROVE FALSE
  <2>1. Whole
    BY <1>1, <1>6, DeservedReads
  <2>2. k \in DOMAIN Destinations
    BY <1>1 DEF Evidence
  <2>3. derived[d] = DeriveArtifacts(run[r].files, d)
    BY <1>3, <2>1, <2>2 DEF Whole
  <2>4. clean /\ released
    BY <1>1, <1>3, <1>6 DEF Deserved
  <2>5. Goto(r, "ok") \/ run' = [run EXCEPT ![r].k = @ + 1]
    BY <2>3, <2>4 DEF AssertBytes
  <2> QED
    BY <1>1, <1>4, <1>6, <2>5 DEF RunType
<1> QED
  BY <1>5, <1>6

\* A run that is alone and meets no fault succeeds exactly when its export, or the
\* tree, and the generated clients are as they should be, whatever derived files
\* and directories of other process ids earlier runs left behind.
THEOREM AloneIsJudgedRight ==
  ASSUME SealsAreTrue, PublishedIsAccepted PROVE Spec => AloneVerdict
<1> DEFINE Verdict ==
             \A r \in Runs : run'[r].alone /\ run'[r].pc # run[r].pc =>
               /\ run'[r].pc = "ok" => Deserved(r) /\ Whole
               /\ run'[r].pc = "failed" => ~Deserved(r)
<1>1. Init => AloneInv
  BY DEF Init, Idle, AloneInv, Active, Ended
<1>2. BaseInv /\ AloneInv /\ [Next]_vars => AloneInv'
  BY NextAlone
<1>3. BaseInv /\ AloneInv /\ [Next]_vars => Verdict
  <2> SUFFICES ASSUME BaseInv, AloneInv, [Next]_vars,
                      NEW r \in Runs, run'[r].alone, run'[r].pc # run[r].pc
               PROVE  /\ run'[r].pc = "ok" => Deserved(r) /\ Whole
                      /\ run'[r].pc = "failed" => ~Deserved(r)
    OBVIOUS
  <2>1. CASE UNCHANGED vars
    BY <2>1 DEF vars
  <2>2. ASSUME NEW s \in Runs, Start(s) PROVE run'[r].pc \notin {"ok", "failed"}
    <3>1. CASE r = s
      BY <2>2, <3>1, StartFacts
    <3>2. CASE r # s
      <4>1. run'[r] = run[r] \/ run'[r] = [run[r] EXCEPT !.alone = FALSE]
        BY <2>2, <3>2, StartFacts
      <4>2. run[r] \in RunType
        BY DEF BaseInv, RunsInv
      <4> QED
        BY <4>1, <4>2 DEF RunType
    <3> QED
      BY <3>1, <3>2
  <2>3. ASSUME NEW s \in Runs, Fault(s) \/ Kill(s) PROVE run'[r].pc \notin {"ok", "failed"}
    <3>1. r = s
      BY <2>3, StepMoves DEF Moves
    <3> QED
      BY <2>3, <3>1, FaultMoves, GotoSets DEF Kill, BaseInv
  <2>4. ASSUME NEW s \in Runs, Step(s)
        PROVE  /\ run'[r].pc = "ok" => Deserved(r) /\ Whole
               /\ run'[r].pc = "failed" => ~Deserved(r)
    <3>1. Moves(s) /\ r = s
      BY <2>4, StepMoves DEF Moves
    <3>2. run[r].alone /\ Undisturbed(r)
      BY <2>4, <3>1, StepKeeps DEF BaseInv, AloneInv, Moves
    <3>3. CASE Read(r)
      BY <3>2, <3>3, DeservedReadsOn, ReadKeeps DEF BaseInv
    <3>4. CASE AssertBytes(r)
      BY <3>2, <3>4, DeservedCompares
    <3>5. CASE Swap(r) \/ AtomicWrite(r)
      <4>1. Undisturbed(r)' /\ Evidence(run'[r])
        BY <2>4, <3>1, <3>2, <3>5, SwapUndisturbed, WriteUndisturbed, StepMoves DEF RunsInv
      <4>2. r \in Active'
        BY <4>1 DEF Undisturbed
      <4> QED
        BY <4>2 DEF Active, Ended
    <3> QED
      BY <2>4, <3>1, <3>3, <3>4, <3>5 DEF Step
  <2> QED
    BY <2>1, <2>2, <2>3, <2>4 DEF Next
<1> HIDE DEF Verdict
<1>4. Spec => [][Verdict]_vars
  BY <1>1, <1>2, <1>3, SpecBase, PTL DEF Spec
<1> QED
  BY <1>4 DEF AloneVerdict, Verdict
=============================================================================
