SPECIFICATION Spec
CONSTANTS
  Jobs = {j1}
  MaxAttempts = 5
  MaxVersion = 1
  Faults = {"command", "overflow"}
INVARIANTS GaveUpMeansLeftover
