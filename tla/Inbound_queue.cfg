SPECIFICATION MCSpec
CONSTANTS
  Rpcs = {r1}
  NoRpc = NoRpc
  EventKinds = {"connection_ack", "complete", "error", "turnEnd", "messagesEnd", "cognition", "card", "text"}
  InitCap = 0
  Caps = {0, 1, 2}
  MaxFrames = 3
  MaxRearms = 2
  Intervals = {0, 1, 2}
  Thresholds = {3, 5}
  Timeouts = {0, 2}
  Delay = 1
  MaxConnections = 2
  Horizon = 6
INVARIANTS
  MCTypeOK
  DropsAreReported
  AnswerGoesToOne
  NoFalseAlarm
  SilenceIsNoticed
PROPERTIES
  NormalGoesFirst
  LosesOnlyForRoom
