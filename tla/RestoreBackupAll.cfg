SPECIFICATION Spec
CONSTANTS
  s1 = s1
  s2 = s2
  Sources <- MCSources
  SourceOrder <- MCSourceOrder
  Restores = {r1, r2}
  Overlapping = TRUE
  MaxTags = 2
  Torn = Torn
  Faults = {"command", "kill"}
CHECK_DEADLOCK FALSE
INVARIANTS TypeOK CloneStays RestoredIsChosen
PROPERTIES RestoresEnd StepsRunOut
