---------------------------- MODULE ContractSync ----------------------------
(***************************************************************************)
(* Adopting the ingestion contract: runs of the synchronizer, each its own *)
(* process, over one working tree.                                         *)
(*                                                                         *)
(* A sync reads an export, validates it, swaps it in for the vendored one  *)
(* with two renames, writes the derived files and ends with the offline    *)
(* check.  A check only reads.  Directories are read file by file, so a    *)
(* reader can meet a directory that is being replaced; runs overlap, their *)
(* calls fail and they are killed.                                         *)
(*                                                                         *)
(* A content is a name, and stands for its own sha256; Doc is what it says.*)
(* Staging directories and temporary files belong to one process and are   *)
(* written and renamed in one step.                                        *)
(***************************************************************************)
EXTENDS Integers, Sequences, SequencesExt, FiniteSets

CONSTANTS
  Runs,         \* bound: runs of the synchronizer, one after another or at once
  Pids,         \* bound: process ids; an ended run's id is given again
  Artifacts,    \* the paths of ARTIFACT_ROLES, in order
  Destinations, \* the derived files, in the order they are written
  Doc,          \* what each content says
  External,     \* exports outside the tree: name -> export
  Published,    \* the exports as the contract's producer sealed them
  Vendors,      \* what the tree may hold as its vendored export at first
  Trees,        \* and as its derived files
  Surfaces,     \* and as its generated clients, Absent where none was generated
  Local,        \* the type names of the contract's package
  Reasons,      \* EXPECTED_ERROR_REASONS
  MessageCount, \* size of the wire closure: 12 messages
  EnumCount,    \* and 3 enums
  MaxFaults,    \* bound: calls of the file system that fail
  MaxKills,     \* bound: runs killed
  Absent        \* no such file

\* An export: contents under its paths, and a bundle.json that lists artifacts.
IsExport(x) ==
  /\ x = [json |-> x.json, sum |-> x.sum, files |-> x.files]
  /\ {x.json, x.sum} \subseteq DOMAIN Doc
  /\ x.files = [path \in DOMAIN x.files |-> x.files[path]]
  /\ Range(x.files) \subseteq DOMAIN Doc
  /\ Doc[x.json].artifacts \in Seq([path : STRING, sha256 : STRING]) \ {<<>>}

ASSUME ContractSyncAssumption ==
  /\ Runs # {}
  /\ Artifacts \in Seq(STRING) /\ IsInjective(Artifacts)
  /\ Destinations \in Seq(STRING) \ {<<>>} /\ IsInjective(Destinations)
  /\ \A name \in DOMAIN External : IsExport(External[name])
  /\ \A v \in Vendors \ {Absent} : IsExport(v)
  /\ \A e \in Published : IsExport(e)
  /\ \A t \in Trees : Range(Destinations) \subseteq DOMAIN t
  /\ \A g \in Surfaces : Range(g) \subseteq DOMAIN Doc \cup {Absent}
  /\ Absent \notin Published
  /\ Absent \notin
       [json : DOMAIN Doc, sum : DOMAIN Doc, files : [Range(Artifacts) -> DOMAIN Doc]]
  /\ MaxFaults \in Nat
  /\ MaxKills \in Nat

VARIABLES
  vendor,    \* the vendored export, or Absent
  previous,  \* <export>.previous-<pid>, or Absent, for each process id
  derived,   \* the derived files
  surfaces,  \* the generated clients, which no run writes
  run,       \* each run of the synchronizer
  faults,    \* calls that failed so far
  kills      \* runs killed so far

vars == <<vendor, previous, derived, surfaces, run, faults, kills>>
tree == <<vendor, previous, derived>>
outside == <<surfaces, faults, kills>>  \* what no step of a run changes

\* What MEDALLION_SDK_CONTRACT_ROOT is when it is not set.
Vendored == "vendored"

DescriptorFile == "descriptor.binpb"
ManifestFile == "external_ingestion_sdk_v1.json"
PolicyFile == "connect-idempotency-policy.json"
ErrorsFile == "error-reasons.json"
ConformanceFile == "conformance/external-sdk-ingestion.json"
AttestationFile == "release-attestation.json"

-----------------------------------------------------------------------------
(* Reading an export: readBundle.                                          *)

\* bundle.sha256 is the checksum of bundle.json.
ParseSingleChecksum(json, sum) == sum = json
\* Keys, versions and release status of bundle.json, and its boundary scan.
BundleMetadata(json) == Doc[json].flaw = "none"
\* An artifact has a role, is what its evidence says and passes the scan.
EntryHasRole(entry, content) ==
  entry.path \in Range(Artifacts) /\ Doc[content].flaw # "boundary"
EntryMatches(entry, content) ==
  /\ entry.path \in Range(Artifacts)
  /\ content = entry.sha256
  /\ Doc[content].flaw # "boundary"
\* All artifacts are listed, and the directory holds nothing else.
InventoryExact(json, paths) ==
  LET listed == Doc[json].artifacts
  IN  /\ [i \in DOMAIN listed |-> listed[i].path] = Artifacts
      /\ paths = Range(Artifacts)

ReadBundle(dir) ==
  /\ ParseSingleChecksum(dir.json, dir.sum)
  /\ BundleMetadata(dir.json)
  /\ \A entry \in Range(Doc[dir.json].artifacts) :
       entry.path \in DOMAIN dir.files /\ EntryMatches(entry, dir.files[entry.path])
  /\ InventoryExact(dir.json, DOMAIN dir.files)

-----------------------------------------------------------------------------
(* Validating what was read: validateBundleState.                          *)

\* A content is decoded into an index: the finitely many messages with the
\* types of their fields, the enums, and the types of the methods.
IndexDescriptor(d) ==
  /\ d.methods \in Seq(STRING)
  /\ DOMAIN d.fields \in SUBSET STRING /\ IsFiniteSet(DOMAIN d.fields)
  /\ d.fields \in [DOMAIN d.fields -> SUBSET STRING]

\* The worklist of validateDescriptor, from the types of the methods.  A turn
\* takes the last name, drops it or pushes the types of its fields; those that
\* are no message of the index are not pushed.
Work == [pending : Seq(STRING), reached : SUBSET STRING]
Skipped(w) == Last(w.pending) \in w.reached \/ Last(w.pending) \notin Local
Missing(d, w) == ~Skipped(w) /\ Last(w.pending) \notin DOMAIN d.fields
Turn(d, w) ==
  IF Skipped(w) THEN [w EXCEPT !.pending = Front(@)]
  ELSE [pending |-> Front(w.pending)
                      \o SetToSeq(d.fields[Last(w.pending)] \cap DOMAIN d.fields),
        reached |-> w.reached \union {Last(w.pending)}]

\* The messages reached.  A missing one ends the validation; here it is among
\* the reached, and ClosureExact refuses it.
ReachableMessages(d) ==
  LET Visit[w \in Work] ==
        IF w.pending = <<>> THEN w.reached
        ELSE IF Missing(d, w) THEN w.reached \union {Last(w.pending)}
        ELSE Visit[Turn(d, w)]
  IN  Visit[[pending |-> d.methods, reached |-> {}]]

ReachableEnums(d) ==
  UNION {d.fields[m] \cap d.enums : m \in ReachableMessages(d) \cap DOMAIN d.fields}

ClosureExactSubset(d) ==
  /\ ReachableMessages(d) \subseteq DOMAIN d.fields
  /\ ReachableEnums(d) \subseteq d.enums
ClosureExact(d) ==
  /\ DOMAIN d.fields \cap Local = ReachableMessages(d)
  /\ d.enums \cap Local = ReachableEnums(d)

ValidateDescriptor(d) ==
  /\ IndexDescriptor(d)
  /\ ClosureExact(d)
  /\ Cardinality(ReachableMessages(d)) = MessageCount
  /\ Cardinality(ReachableEnums(d)) = EnumCount

\* A document may not be what its JSON schema, or its metadata, says it is.
WellFormed(content) == Doc[content].flaw = "none"

ValidateManifest(files) ==
  LET manifest == Doc[files[ManifestFile]]
  IN  manifest.descriptor = files[DescriptorFile]

ValidateIdempotencyPolicy(content) ==
  Doc[content].classifications =
    [record_idempotent_batch |-> <<"PublishCdcEvents", "PublishAuditEvents">>,
     read_only |-> <<"ListCdcEvents", "ListAuditEvents">>]

\* Each expected reason once, and no other.
ValidateErrorReasonPolicy(content) ==
  IsInjective(Doc[content].reasons) /\ Range(Doc[content].reasons) = Reasons

\* One exchange for each publish method, in this order, whose receipts are
\* accepted and duplicate.
ValidateConformance(content) ==
  LET fixtures == Doc[content].fixtures
  IN  /\ [i \in DOMAIN fixtures |-> fixtures[i].method] =
           <<"PublishCdcEvents", "PublishAuditEvents">>
      /\ \A i \in DOMAIN fixtures : fixtures[i].duplicate = <<FALSE, TRUE>>

AttestedArtifacts(json) ==
  SelectSeq(Doc[json].artifacts, LAMBDA entry : entry.path # AttestationFile)

ValidateReleaseAttestation(json, files) ==
  LET attestation == Doc[files[AttestationFile]]
  IN  /\ attestation.artifacts = AttestedArtifacts(json)
      /\ attestation.status = Doc[json].status

ValidateBundleState(json, files) ==
  /\ ValidateDescriptor(Doc[files[DescriptorFile]])
  /\ \A path \in DOMAIN files : WellFormed(files[path])
  /\ ValidateManifest(files)
  /\ ValidateIdempotencyPolicy(files[PolicyFile])
  /\ ValidateErrorReasonPolicy(files[ErrorsFile])
  /\ ValidateConformance(files[ConformanceFile])
  /\ ValidateReleaseAttestation(json, files)

-----------------------------------------------------------------------------
(* What the derived files are rendered from: deriveArtifacts.              *)

RenderedFrom ==
  [d \in {"proto/external-ingestion-v1.descriptor.binpb",
          "proto/medallion/connect/v1/connect.proto",
          "proto/buf/validate/validate.proto"} |-> DescriptorFile]
  @@ [d \in {"proto/external-ingestion-v1.json"} |-> ManifestFile]
  @@ [d \in {"src/error-policy.ts", "go/error_policy_generated.go",
             "python/src/medallion/error_policy_generated.py"} |-> ErrorsFile]

\* The routes name constants of the script alone.
DeriveArtifacts(files, d) ==
  IF d \in DOMAIN RenderedFrom THEN files[RenderedFrom[d]] ELSE "routes"

-----------------------------------------------------------------------------
Idle ==
  [pc |-> "idle", phase |-> "source", mode |-> "check", root |-> Vendored,
   pid |-> Absent, k |-> 1, json |-> Absent, sum |-> Absent,
   files |-> <<>>, alone |-> FALSE]

Ended == {"idle", "ok", "failed", "killed"}
Active == {r \in Runs : run[r].pc \notin Ended}

Init ==
  /\ vendor \in Vendors
  /\ previous = [p \in Pids |-> Absent]
  /\ derived \in Trees
  /\ surfaces \in Surfaces
  /\ run = [r \in Runs |-> Idle]
  /\ faults = 0
  /\ kills = 0

\* A run moves to a point of the script, its counter at the first item.
Goto(r, pc) == run' = [run EXCEPT ![r].pc = pc, ![r].k = 1]

\* main: a check has no root, a sync has the vendored export or another.  A
\* run is alone as long as no other is active and no directory is left over
\* under its process id.
Start(r) ==
  /\ run[r].pc = "idle"
  /\ \E mode \in {"check", "check-release", "sync"},
        root \in DOMAIN External \union {Vendored},
        pid \in Pids \ {run[s].pid : s \in Active} :
       /\ mode # "sync" => root = Vendored
       /\ run' = [s \in Runs |->
            IF s = r
            THEN [Idle EXCEPT !.pc = "bundle", !.mode = mode, !.root = root, !.pid = pid,
                     !.phase = IF mode = "sync" THEN "source" ELSE "check",
                     !.alone = Active = {} /\ previous[pid] = Absent]
            ELSE IF s \in Active THEN [run[s] EXCEPT !.alone = FALSE] ELSE run[s]]
  /\ UNCHANGED <<tree, outside>>

ReadsVendored(r) == run[r].phase = "check" \/ run[r].root = Vendored

\* An export outside the tree is nobody else's, and is read in one step.
ReadExternal(r) ==
  /\ run[r].pc = "bundle"
  /\ ~ReadsVendored(r)
  /\ LET dir == External[run[r].root]
     IN  IF ReadBundle(dir)
         THEN run' = [run EXCEPT ![r].pc = "validate", ![r].json = dir.json,
                                 ![r].sum = dir.sum, ![r].files = dir.files]
         ELSE Goto(r, "failed")
  /\ UNCHANGED <<tree, outside>>

ReadBundleJson(r) ==
  /\ run[r].pc = "bundle"
  /\ ReadsVendored(r)
  /\ IF vendor = Absent THEN Goto(r, "failed")
     ELSE run' = [run EXCEPT ![r].pc = "sum", ![r].json = vendor.json, ![r].files = <<>>]
  /\ UNCHANGED <<tree, outside>>

ReadChecksum(r) ==
  /\ run[r].pc = "sum"
  /\ IF vendor # Absent /\ ParseSingleChecksum(run[r].json, vendor.sum)
                        /\ BundleMetadata(run[r].json)
     THEN run' = [run EXCEPT ![r].pc = "artifacts", ![r].k = 1, ![r].sum = vendor.sum]
     ELSE Goto(r, "failed")
  /\ UNCHANGED <<tree, outside>>

ReadArtifact(r) ==
  /\ run[r].pc = "artifacts"
  /\ LET k == run[r].k
         listed == Doc[run[r].json].artifacts
         path == listed[k].path
         there == vendor # Absent /\ path \in DOMAIN vendor.files
     IN  IF there /\ EntryMatches(listed[k], vendor.files[path])
         THEN run' = [run EXCEPT ![r].files = [p \in DOMAIN @ \union {path} |->
                                   IF p = path THEN vendor.files[path] ELSE @[p]],
                                 ![r].k = k + 1,
                                 ![r].pc = IF k = Len(listed) THEN "inventory" ELSE @]
         ELSE Goto(r, "failed")
  /\ UNCHANGED <<tree, outside>>

Inventory(r) ==
  /\ run[r].pc = "inventory"
  /\ IF vendor # Absent /\ InventoryExact(run[r].json, DOMAIN vendor.files)
     THEN Goto(r, "validate") ELSE Goto(r, "failed")
  /\ UNCHANGED <<tree, outside>>

Validate(r) ==
  /\ run[r].pc = "validate"
  /\ IF ValidateBundleState(run[r].json, run[r].files)
     THEN Goto(r, IF run[r].phase = "source" THEN "exists" ELSE "compare")
     ELSE Goto(r, "failed")
  /\ UNCHANGED <<tree, outside>>

-----------------------------------------------------------------------------
(* Swapping the export in: writeVendoredExport.  The staging directory is  *)
(* whole by now.                                                           *)

ExistsAssumed(r) ==
  /\ run[r].pc = "exists"
  /\ Goto(r, "aside")
  /\ UNCHANGED <<tree, outside>>
Exists(r) ==
  /\ run[r].pc = "exists"
  /\ Goto(r, IF vendor = Absent THEN "swap" ELSE "aside")
  /\ UNCHANGED <<tree, outside>>

\* A rename onto a directory that holds files fails, and so does one of a
\* directory that has gone.
RenameAside(r) ==
  LET pid == run[r].pid
  IN  /\ run[r].pc = "aside"
      /\ IF vendor # Absent /\ previous[pid] = Absent
         THEN /\ vendor' = Absent
              /\ previous' = [previous EXCEPT ![pid] = vendor]
              /\ Goto(r, "swap")
         ELSE UNCHANGED <<vendor, previous>> /\ Goto(r, "rescue")
      /\ UNCHANGED <<derived, outside>>

Staged(r) == [json |-> run[r].json, sum |-> run[r].sum, files |-> run[r].files]

RenameStaging(r) ==
  /\ run[r].pc = "swap"
  /\ IF vendor = Absent
     THEN vendor' = Staged(r) /\ Goto(r, "drop")
     ELSE UNCHANGED vendor /\ Goto(r, "rescue")
  /\ UNCHANGED <<previous, derived, outside>>

DropPrevious(r) ==
  /\ run[r].pc = "drop"
  /\ previous' = [previous EXCEPT ![run[r].pid] = Absent]
  /\ Goto(r, "write")
  /\ UNCHANGED <<vendor, derived, outside>>

\* The catch: the old export goes back if its place is empty ...
RestorableNever(r) == FALSE
Restorable(r) == vendor = Absent /\ previous[run[r].pid] # Absent

Rescue(r) ==
  /\ run[r].pc = "rescue"
  /\ Goto(r, IF Restorable(r) THEN "back" ELSE "cleanup")
  /\ UNCHANGED <<tree, outside>>

RenameBack(r) ==
  LET pid == run[r].pid
  IN  /\ run[r].pc = "back"
      /\ IF vendor = Absent
         THEN vendor' = previous[pid] /\ previous' = [previous EXCEPT ![pid] = Absent]
         ELSE UNCHANGED <<vendor, previous>>
      /\ Goto(r, "cleanup")
      /\ UNCHANGED <<derived, outside>>

\* ... and the finally removes what is left of it.
Cleanup(r) ==
  /\ run[r].pc = "cleanup"
  /\ previous' = [previous EXCEPT ![run[r].pid] = Absent]
  /\ Goto(r, "failed")
  /\ UNCHANGED <<vendor, derived, outside>>

-----------------------------------------------------------------------------
(* The derived files, each written aside and renamed: atomicWrite.         *)

AtomicWrite(r) ==
  LET k == run[r].k
      d == Destinations[k]
  IN  /\ run[r].pc = "write"
      /\ derived' = [derived EXCEPT ![d] = DeriveArtifacts(run[r].files, d)]
      /\ run' = IF k = Len(Destinations)
                THEN [run EXCEPT ![r].pc = "bundle", ![r].phase = "check", ![r].k = 1]
                ELSE [run EXCEPT ![r].k = @ + 1]
      /\ UNCHANGED <<vendor, previous, outside>>

ComparedAllButLast(k) == k = Len(Destinations) - 1
ComparedPastLast(k) == k > Len(Destinations)
Compared(k) == k = Len(Destinations)

\* Of the generated clients, those that are there must have no field of a retired
\* scope and pass the boundary scan.
ValidateGeneratedScopeSurfaces ==
  \A file \in DOMAIN surfaces :
    surfaces[file] # Absent => Doc[surfaces[file]].flaw = "none"

AssertBytes(r) ==
  LET k == run[r].k
      d == Destinations[k]
      released == run[r].mode = "check-release" => Doc[run[r].json].status = "released"
  IN  /\ run[r].pc = "compare"
      /\ IF derived[d] # DeriveArtifacts(run[r].files, d) THEN Goto(r, "failed")
         ELSE IF ~Compared(k) THEN run' = [run EXCEPT ![r].k = @ + 1]
         ELSE Goto(r, IF ValidateGeneratedScopeSurfaces /\ released THEN "ok" ELSE "failed")
      /\ UNCHANGED <<tree, outside>>

-----------------------------------------------------------------------------
(* The environment.                                                        *)

\* A call of the file system fails: inside the swap it goes to the catch, in
\* the catch to the finally, elsewhere it ends the run.
Fault(r) ==
  /\ run[r].pc \notin Ended \union {"validate", "rescue", "cleanup"}
  /\ faults < MaxFaults
  /\ faults' = faults + 1
  /\ run' = [run EXCEPT
       ![r].alone = FALSE, ![r].k = 1,
       ![r].pc = CASE @ \in {"exists", "aside", "swap", "drop"} -> "rescue"
                   [] @ = "back" -> "cleanup"
                   [] OTHER -> "failed"]
  /\ UNCHANGED <<tree, surfaces, kills>>

Kill(r) ==
  /\ r \in Active
  /\ kills < MaxKills
  /\ kills' = kills + 1
  /\ Goto(r, "killed")
  /\ UNCHANGED <<tree, surfaces, faults>>

Swap(r) ==
  \/ Exists(r) \/ RenameAside(r) \/ RenameStaging(r) \/ DropPrevious(r)
  \/ Rescue(r) \/ RenameBack(r) \/ Cleanup(r)

Read(r) ==
  \/ ReadExternal(r) \/ ReadBundleJson(r) \/ ReadChecksum(r)
  \/ ReadArtifact(r) \/ Inventory(r) \/ Validate(r)

Step(r) == Read(r) \/ Swap(r) \/ AtomicWrite(r) \/ AssertBytes(r)

Next == \E r \in Runs : Start(r) \/ Step(r) \/ Fault(r) \/ Kill(r)

Spec == Init /\ [][Next]_vars

-----------------------------------------------------------------------------
(* Properties.                                                             *)

TypeOK ==
  /\ \A r \in Runs :
       /\ run[r].pc \in Ended \union
            {"bundle", "sum", "artifacts", "inventory", "validate", "exists", "aside",
             "swap", "drop", "rescue", "back", "cleanup", "write", "compare"}
       /\ run[r].phase = "source" => run[r].mode = "sync" \/ run[r].pc = "idle"
       /\ {run[r].json, run[r].sum} \subseteq DOMAIN Doc \union {Absent}
       /\ run[r].pc \in {"write", "compare"} => run[r].k \in DOMAIN Destinations
       /\ DOMAIN run[r].files \subseteq Range(Artifacts)
       /\ Range(run[r].files) \subseteq DOMAIN Doc
  /\ \A r, s \in Active : r # s => run[r].pid # run[s].pid
  /\ faults \in 0..MaxFaults
  /\ kills \in 0..MaxKills

\* The tree holds one published export and nothing but what it renders.
Whole ==
  /\ vendor \in Published
  /\ \A k \in DOMAIN Destinations :
       derived[Destinations[k]] = DeriveArtifacts(vendor.files, Destinations[k])

\* readBundle reads file by file, and a swap may fall between two reads; the
\* evidence must still make one published export of what was read, or none.
\* Whatever takes the vendored export's place is published, or was there before.
OnlyPublishedAdopted ==
  [][/\ vendor' \notin {vendor, Absent} =>
          vendor' \in Published \/ \E p \in Pids : vendor' = previous[p]
     /\ \A r \in Runs : run[r].pc = "validate" /\ run'[r].pc \in {"exists", "compare"} =>
          Staged(r) \in Published]_vars

\* The smallest set of messages that holds the types of the methods and, with
\* a message, the types of its fields.
WireClosure(d) ==
  LET Messages == DOMAIN d.fields \cap Local
      Closed(S) == /\ Range(d.methods) \cap Local \subseteq S
                   /\ \A m \in S : d.fields[m] \cap Messages \subseteq S
  IN  CHOOSE S \in SUBSET Messages :
        Closed(S) /\ \A S2 \in SUBSET Messages : Closed(S2) => S \subseteq S2

\* validateDescriptor: "descriptor contains symbols outside the four-RPC wire
\* closure" is refused.  A run that goes past the validation has a descriptor
\* that declares its wire closure and no more.
DescriptorIsClosure ==
  \A r \in Runs :
    run[r].pc \in {"exists", "compare"} =>
      LET d == Doc[run[r].files[DescriptorFile]]
      IN  /\ DOMAIN d.fields \cap Local = WireClosure(d)
          /\ \A e \in d.enums \cap Local : \E m \in WireClosure(d) : e \in d.fields[m]

\* While the vendored export is away from its place, the catch and the finally
\* of writeVendoredExport, whatever one call failed, whoever else was swapping or
\* was killed, have left a copy of it aside.  (A second failure, of the rename
\* that should undo the first, is followed by the finally's removal.)
LastCopyKept ==
  vendor = Absent /\ Absent \notin Vendors /\ faults <= 1 =>
    \E p \in Pids : previous[p] # Absent

\* syncContract ends with the check of what it wrote.  However runs overlapped:
\* once all have ended, all in success, the tree is whole.
AllGreenMeansWhole ==
  (\A r \in Runs : run[r].pc \in {"idle", "ok"}) /\ (\E r \in Runs : run[r].pc = "ok")
    => Whole

\* A run that was alone, and met no fault, succeeds exactly when it should: a sync
\* when its export is published, whatever derived files, exports and directories
\* of other process ids earlier runs left behind; a check when the tree is whole;
\* and either only if the generated clients are clean.
Deserved(r) ==
  /\ ValidateGeneratedScopeSurfaces
  /\ IF run[r].mode = "sync"
     THEN (IF run[r].root = Vendored THEN vendor ELSE External[run[r].root]) \in Published
     ELSE Whole /\ (run[r].mode = "check-release" => Doc[vendor.json].status = "released")

AloneVerdict ==
  [][\A r \in Runs : run'[r].alone /\ run'[r].pc # run[r].pc =>
       /\ run'[r].pc = "ok" => Deserved(r) /\ Whole
       /\ run'[r].pc = "failed" => ~Deserved(r)]_vars
=============================================================================
