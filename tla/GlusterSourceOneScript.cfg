SPECIFICATION Spec
CONSTANTS
  Jobs = {j1}
  MaxVersion = 2
  Faults = {"command", "kill", "reboot"}
INVARIANTS TypeOK RemoveClears
PROPERTIES KeepsPromise PrepareShowsFresh
