--------------------------- MODULE MCContractSync ---------------------------
(***************************************************************************)
(* Two published exports that share some of their artifacts, one of them   *)
(* a candidate, and exports that were altered after they were sealed or    *)
(* resealed around a contract that must be refused.  The tree starts with  *)
(* one export and its derived files, or with a derived file that drifted,  *)
(* and with a generated client that is clean or has a retired scope field. *)
(***************************************************************************)
EXTENDS ContractSync, TLC

CONSTANTS first, second, p1, p2

\* Which run is which, and which process id it has, says nothing.
MCSymmetry == Permutations({first, second}) \cup Permutations({p1, p2})

MCArtifacts ==
  <<ConformanceFile, PolicyFile, DescriptorFile, ErrorsFile, ManifestFile, AttestationFile>>

MCDestinations ==
  <<"proto/medallion/connect/v1/connect.proto", "src/error-policy.ts">>

MCLocal == {"Publish", "Event", "Receipt", "Stray", "Kind"}

Descriptor(extra) ==
  [flaw |-> "none", methods |-> <<"Publish", "Receipt">>, enums |-> {"Kind"},
   fields |-> extra @@ ("Publish" :> {"Event", "Rules"}) @@ ("Receipt" :> {})
              @@ ("Event" :> {"Kind", "Event"}) @@ ("Rules" :> {"Event"})]
Manifest(descriptor) == [flaw |-> "none", descriptor |-> descriptor]
Errors(flaw, reasons) == [flaw |-> flaw, reasons |-> reasons]
Policy(batch) ==
  [flaw |-> "none",
   classifications |-> [record_idempotent_batch |-> batch,
                        read_only |-> <<"ListCdcEvents", "ListAuditEvents">>]]
Conformance(duplicate) ==
  [flaw |-> "none",
   fixtures |-> <<[method |-> "PublishCdcEvents", duplicate |-> <<FALSE, TRUE>>],
                  [method |-> "PublishAuditEvents", duplicate |-> duplicate]>>]

Entry(path, content) == [path |-> path, sha256 |-> content]
Listed(c, p, d, e, m) ==
  <<Entry(ConformanceFile, c), Entry(PolicyFile, p), Entry(DescriptorFile, d),
    Entry(ErrorsFile, e), Entry(ManifestFile, m)>>
Attestation(status, listed) == [flaw |-> "none", status |-> status, artifacts |-> listed]
Json(status, listed, a) ==
  [flaw |-> "none", status |-> status, artifacts |-> Append(listed, Entry(AttestationFile, a))]

One == Listed("c1", "p1", "d1", "e1", "m1")
Two == Listed("c1", "p1", "d2", "e2", "m2")
More == Listed("c1", "p1", "dMore", "e1", "mMore")
Less == Listed("c1", "p1", "dLess", "e1", "mLess")
Malformed == Listed("c1", "p1", "d1", "eBad", "m1")
Twice == Listed("c1", "p1", "d1", "eTwice", "m1")
NoCdc == Listed("c1", "pNoCdc", "d1", "e1", "m1")
AllNew == Listed("cAllNew", "p1", "d1", "e1", "m1")
Candidate == "unreleased_candidate"

MCDoc ==
  [d1 |-> Descriptor(<<>>), d2 |-> Descriptor("Rules" :> {}),
   dMore |-> Descriptor("Stray" :> {"Event"}), dLess |-> Descriptor("Event" :> {}),
   m1 |-> Manifest("d1"), m2 |-> Manifest("d2"),
   mMore |-> Manifest("dMore"), mLess |-> Manifest("dLess"),
   e1 |-> Errors("none", <<"A", "B">>), e2 |-> Errors("none", <<"B", "A">>),
   eBad |-> Errors("schema", <<"A", "B">>), eTwice |-> Errors("none", <<"A", "B", "A">>),
   p1 |-> Policy(<<"PublishCdcEvents", "PublishAuditEvents">>),
   pNoCdc |-> Policy(<<"PublishAuditEvents">>),
   gClean |-> [flaw |-> "none"], gScope |-> [flaw |-> "scope"],
   c1 |-> Conformance(<<FALSE, TRUE>>), cAllNew |-> Conformance(<<FALSE, FALSE>>),
   a1 |-> Attestation(Candidate, One), a2 |-> Attestation("released", Two),
   aMore |-> Attestation("released", More), aLess |-> Attestation("released", Less),
   aBad |-> Attestation("released", Malformed), aTwice |-> Attestation("released", Twice),
   aNoCdc |-> Attestation("released", NoCdc), aAllNew |-> Attestation("released", AllNew),
   j1 |-> Json(Candidate, One, "a1"), j2 |-> Json("released", Two, "a2"),
   jMore |-> Json("released", More, "aMore"), jLess |-> Json("released", Less, "aLess"),
   jBad |-> Json("released", Malformed, "aBad"), jTwice |-> Json("released", Twice, "aTwice"),
   jNoCdc |-> Json("released", NoCdc, "aNoCdc"),
   jAllNew |-> Json("released", AllNew, "aAllNew"),
   jOther |-> Json(Candidate, Two, "a1"), jStatus |-> Json("released", One, "a1"),
   jPart |-> [flaw |-> "none", status |-> Candidate, artifacts |-> One]]

Sealed(json) ==
  LET listed == Doc[json].artifacts
  IN  [json |-> json, sum |-> json,
       files |-> [path \in {entry.path : entry \in Range(listed)} |->
                    (CHOOSE entry \in Range(listed) : entry.path = path).sha256]]

\* The bundle.json of each export outside the tree.
Seals ==
  [one |-> "j1", two |-> "j2", altered |-> "j1", resealed |-> "j2", stray |-> "j1",
   part |-> "jPart", other |-> "jOther", status |-> "jStatus",
   more |-> "jMore", less |-> "jLess", bad |-> "jBad",
   twice |-> "jTwice", noCdc |-> "jNoCdc", allNew |-> "jAllNew"]

MCExternal ==
  [name \in DOMAIN Seals |->
     CASE name = "altered" -> [Sealed("j1") EXCEPT !.files[ErrorsFile] = "e2"]
       [] name = "resealed" -> [Sealed("j1") EXCEPT !.json = "j2"]
       [] name = "stray" -> [Sealed("j1") EXCEPT !.files = @ @@ ("notes.txt" :> "e1")]
       [] OTHER -> Sealed(Seals[name])]

MCPublished == {Sealed("j1"), Sealed("j2")}

MCVendors == {Sealed("j1"), [Sealed("j2") EXCEPT !.files[ErrorsFile] = "e1"]}

Rendered(e, d) == (MCDestinations[1] :> d) @@ (MCDestinations[2] :> e)
MCTrees == {Rendered("e1", "d1"), Rendered("e2", "d1")}

MCSurfaces ==
  {[connect_pb_go |-> g, connect_pb2_py |-> Absent] : g \in {"gClean", "gScope"}}
=============================================================================
