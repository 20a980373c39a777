SPECIFICATION Spec
CONSTANTS
  Jobs = {j1}
  MaxAttempts = 5
  MaxVersion = 2
  Faults = {"command", "overflow", "kill", "reboot"}
PROPERTIES KeepsPromise ScriptsTerminate LeftoversAreCleared
