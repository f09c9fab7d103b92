SPECIFICATION MCSpec
CONSTANTS
  MaxLoops = 2
  MaxTurns = 2
  MaxEvents = 2
  MaxDrops = 1
  MaxCalls = 3
  MaxMoves = 5
  k1 = k1
  t1 = t1  t2 = t2
  c1 = c1
  NoHandle = NoHandle
  NoSender = NoSender
INVARIANTS
  TypeOK
  StreamHearsItsLoop
  TurnsStayApart
PROPERTIES
  OnlyCallsMoveTheLoop
  IterationsReturn
  TurnsReturn
  SentTurnsAreReported
CHECK_DEADLOCK FALSE
