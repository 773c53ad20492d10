SPECIFICATION Spec
CONSTANTS
  Msg = {m1, m2}
  Turn = {t1, t2, t3}
  NoMsg = NoMsg
  NoTurn = NoTurn
  MaxRows = 2
  Plain = {t1}
  Stopped = {t1}
  Http = {t2}
  Faulty = {t3}
  Retries = 1
  MayRestart = TRUE
SYMMETRY Symmetric
INVARIANTS AtMostOnce NothingLost TakenRowsComeBack CopiesAreFresh OneTurnAtATime
CHECK_DEADLOCK FALSE
