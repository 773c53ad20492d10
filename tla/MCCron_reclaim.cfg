SPECIFICATION Spec
CONSTANTS
  once = once
  daily = daily
  Job = {daily}
  OneShot = {}
  SlowDelivery = {daily}
  Cap = 1
  MaxFailures = 2
  MaxRuns = 3
  Manual = {}
  Editable = {}
  Cancellable = {}
  MaxCalls = 0
  MaxCrashes = 0
INVARIANTS OneTurnPerJob
CHECK_DEADLOCK FALSE
