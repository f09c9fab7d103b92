SPECIFICATION MCSpec
SYMMETRY Callers
CONSTANTS
  c1 = c1
  c2 = c2
  r1 = r1
  r2 = r2
  a1 = a1
  Calls = {c1, c2}
  Ops = {"connect", "reconnect", "close"}
  OneAtATime = FALSE
  Requests = {r1}
  Subscribes = {}
  Apps = {a1}
  MaxConns = 2
  MaxPending = 1
  MaxRetries = 1
INVARIANTS
  TypeOK
  NoStrandedWaiter
  UpMeansAReaderIsLeft
  NoLostWakeUp
CHECK_DEADLOCK FALSE
