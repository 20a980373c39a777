SPECIFICATION Spec
CONSTANTS
  lvm1 = lvm1
  gluster1 = gluster1
  Sources <- MCSources
  SourceOrder <- MCSourceOrder
  Kind <- MCKind
  DockerHosts = {d1}
  Targets = {t1}
  Runs = {r1, r2}
  Overlapping = FALSE
  MaxWrites = 2
  Empty = Empty
  Mixed = Mixed
  None = None
  Faults = {"command", "lost", "kill"}
CHECK_DEADLOCK FALSE
SYMMETRY RunSymmetry
VIEW RunView
INVARIANTS ExitZeroIsConsistent AllOrNothing
PROPERTIES NothingLeftBehind
