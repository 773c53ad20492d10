SPECIFICATION FairSpec
CONSTANTS
  i1 = i1  i2 = i2  i3 = i3  c1 = c1  c2 = c2  s1 = s1  s2 = s2
  NoInj = NoInj
  Inj <- MCInj2
  InjSession <- MCInjSession2
  Chat <- MCChat2
  ChatSession <- MCChatSession2
  Session <- MCSession1
  Readable = {i1}
  Mortal = {s1}
  Faults = TRUE
INVARIANTS Pipeline AnsweredOnce ClosedIsHandled
PROPERTIES EveryInjectionEnds
CHECK_DEADLOCK FALSE
