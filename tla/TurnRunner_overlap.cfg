SPECIFICATION Spec
CONSTANTS
  k1 = k1
  t1 = t1  t2 = t2  t3 = t3
  c1 = c1
  Keys = {k1}
  Turns = {t1, t2}
  Cancels = {c1}
  NoHandle = NoHandle
  NoTurn = NoTurn
  TurnKey <- OneKey
  CancelKey <- OneCancelKey
  ReservedTurns = {}
  Abandonable = {}
  Droppable = {}
  OnTimeout = "fail"
  OnStreamClose = "fail"
INVARIANTS
  SingleFlight
