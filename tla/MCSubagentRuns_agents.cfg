CONSTANTS
  a = a  b = b  d = d  c1 = c1
  Run = {a, b, d}
  Batch = {a, b}
  Seal = Seal
  Call = {c1}
  NoRun = NoRun
  Cap = 1
  MaxQueued = 1
  Readable = {a}
  Faulty = {b}
  Target = {a}
  MayRestart = TRUE
SPECIFICATION Spec
INVARIANTS DeliveredOnce KilledParkedNeverRuns CancelledGroupSilent RowsAreDriven ResultsArrive
CHECK_DEADLOCK FALSE
