SPECIFICATION Spec

CONSTANTS
  first = first
  second = second
  Runs = {first, second}
  p1 = p1
  p2 = p2
  Pids = {p1, p2}
  Artifacts <- MCArtifacts
  Destinations <- MCDestinations
  Doc <- MCDoc
  External <- MCExternal
  Published <- MCPublished
  Vendors <- MCVendors
  Trees <- MCTrees
  Surfaces <- MCSurfaces
  Local <- MCLocal
  Reasons = {"A", "B"}
  MessageCount = 3
  EnumCount = 1
  MaxFaults = 1
  MaxKills = 1
  Absent = Absent

SYMMETRY MCSymmetry

INVARIANTS
  TypeOK
  DescriptorIsClosure
  LastCopyKept
  AllGreenMeansWhole

PROPERTIES
  OnlyPublishedAdopted
  AloneVerdict

\* Every run ends.
CHECK_DEADLOCK FALSE
