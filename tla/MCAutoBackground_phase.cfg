SPECIFICATION FairSpec
CONSTANTS
  c1 = c1  c2 = c2
  Call <- MCCall1
  DbFaults = TRUE
  BuildFaults = TRUE
INVARIANTS HandoverComplete OneWay
PROPERTIES EveryCallEnds ImplementsDetach
CHECK_DEADLOCK FALSE
