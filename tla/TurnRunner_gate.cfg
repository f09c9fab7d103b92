SPECIFICATION Spec
CONSTANTS
  k1 = k1
  t1 = t1  t2 = t2  t3 = t3
  c1 = c1
  Keys = {k1}
  Turns = {t1, t2, t3}
  Cancels = {c1}
  NoHandle = NoHandle
  NoTurn = NoTurn
  TurnKey <- OneKey
  CancelKey <- OneCancelKey
  ReservedTurns = {t2}
  Abandonable = {t3}
  Droppable = {c1}
  OnTimeout = "fail"
  OnStreamClose = "soft"
INVARIANTS
  TypeOK
  ReservationHasOwner
  SingleFlightUntilCancel
  OverlapBoundedByCancels
  DaemonBeforeFlag
PROPERTIES
  StopsOnlyItself
