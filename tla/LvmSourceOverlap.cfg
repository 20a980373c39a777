SPECIFICATION Spec
CONSTANTS
  Jobs = {j1, j2}
  MaxAttempts = 3
  MaxVersion = 2
  Faults = {"command", "overflow", "kill", "reboot"}
SYMMETRY JobSymmetry
INVARIANTS TypeOK TransferUndisturbed
PROPERTIES PrepareShowsFresh CommandsRunOut
