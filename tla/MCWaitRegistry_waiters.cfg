SPECIFICATION FairSpec
CONSTANTS
  j1 = j1  w1 = w1  w2 = w2  w3 = w3
  NoWaiter = NoWaiter
  Job = {j1}
  Waiter = {w1, w2, w3}
  Awaits <- AwaitFirst
PROPERTIES CallsReturn
CHECK_DEADLOCK FALSE
