SPECIFICATION Spec
CONSTANTS
  once = once
  daily = daily
  Job = {once, daily}
  OneShot = {once}
  SlowDelivery = {}
  Cap = 1
  MaxFailures = 2
  MaxRuns = 2
  Manual = {daily}
  Editable = {once, daily}
  Cancellable = {once}
  MaxCalls = 1
  MaxCrashes = 1
INVARIANTS SlotsAreExact OneTurnPerJob OneShotRunsOnce CancelHitsItsRun LogIsTrue
PROPERTIES NoRevival
CHECK_DEADLOCK FALSE
