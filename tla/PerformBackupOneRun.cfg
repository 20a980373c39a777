SPECIFICATION Spec
CONSTANTS
  lvm1 = lvm1
  gluster1 = gluster1
  Sources <- MCSources
  SourceOrder <- MCSourceOrder
  Kind <- MCKind
  DockerHosts = {d1}
  Targets = {t1}
  Runs = {r1}
  Overlapping = FALSE
  MaxWrites = 2
  Empty = Empty
  Mixed = Mixed
  None = None
  Faults = {"pause", "copy", "lost", "overflow", "reboot", "resume", "kill"}
CHECK_DEADLOCK FALSE
INVARIANTS TypeOK ExitZeroIsConsistent PausedIsOwed
PROPERTIES Resumed RunsEnd StepsRunOut
