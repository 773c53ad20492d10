SPECIFICATION Spec
CONSTANTS
  j1 = j1  j2 = j2  s1 = s1
  Job = {j1, j2}
  Session = {s1}
  SessionOf <- OneSession
  Mortal = {s1}
  Unmarkable = {j2}
  MaxCrashes = 1
INVARIANTS NothingStuck
PROPERTIES ImplementsDelivery
CHECK_DEADLOCK FALSE
