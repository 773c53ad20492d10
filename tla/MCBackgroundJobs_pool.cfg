SPECIFICATION Spec
CONSTANTS
  j1 = j1  j2 = j2  j3 = j3  j4 = j4  s1 = s1  s2 = s2  p1 = p1  p2 = p2
  NoSession = NoSession  NoProc = NoProc  Lead = p1
  Job <- MCJob4
  Session <- MCSession
  SessionOf <- MCSessionOf4
  Proc <- MCProc1
  Cap = 2
  SessionCap = 1
  MaxQueued = 2
  Detachable = {j3}
  Asking = {}
  Cancellable = {}
  Burnable = {}
  MaxCrashes = 0
  JobBudget = TRUE
  DbFaults = TRUE
  BuildFaults = TRUE
INVARIANTS SlotsBalanced AdmissionCaps NoLostWakeup NothingLeaks
PROPERTIES SessionFifo
CHECK_DEADLOCK FALSE
