SPECIFICATION Spec
CONSTANTS
  lvm1 = lvm1
  gluster1 = gluster1
  Sources <- MCSources
  SourceOrder <- MCSourceOrder
  Kind <- MCKind
  DockerHosts = {d1}
  Targets = {t1}
  Runs = {r1, r2}
  Overlapping = TRUE
  MaxWrites = 2
  Empty = Empty
  Mixed = Mixed
  None = None
  Faults = {}
CHECK_DEADLOCK FALSE
INVARIANTS ZeroMeansComplete
