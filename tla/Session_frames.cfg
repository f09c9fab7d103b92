SPECIFICATION MCSpec
CONSTANTS
  MaxTurns = 3
  UntaggedKinds <- AllButRunning
  Words = {"a"}
  Blank = "_"
  MinPieces = 2
  IdleCompletes = FALSE
  Subs = {"s1"}
  ChannelSize = 1
  TextTurns = 2
  MaxChunk = 2
  MaxText = 3
  Ids = {"i1", "i2"}
  Fields = {"content", "status"}
  NoId = "none"
  MaxValue = 1
  MaxWire = 4
INVARIANTS
  TypeOK
  LeftoverTerminalsAreHarmless
  TurnIsNotMissed
  SessionEndsNoEarlier
  ShownTypeOK
  InStepShowsTheText
  TextIsExact
  NoBlankReply
  ReplayHeals
  OrderKept
PROPERTY
  OwnRunningShields
CHECK_DEADLOCK FALSE
