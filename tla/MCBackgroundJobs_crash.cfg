SPECIFICATION Spec
CONSTANTS
  j1 = j1  j2 = j2  j3 = j3  j4 = j4  s1 = s1  s2 = s2  p1 = p1  p2 = p2
  NoSession = NoSession  NoProc = NoProc  Lead = p1
  Job <- MCJob2
  Session <- MCSession
  SessionOf <- MCSessionOf2None
  Proc <- MCProc1
  Cap = 1
  SessionCap = 0
  MaxQueued = 1
  Detachable = {}
  Asking = {j1}
  Cancellable = {j1}
  Burnable = {s1}
  MaxCrashes = 1
  JobBudget = FALSE
  DbFaults = FALSE
  BuildFaults = FALSE
INVARIANTS ActiveRowDriven NoResultForgotten HookedOnce
PROPERTIES ImplementsLifecycle
CHECK_DEADLOCK FALSE
