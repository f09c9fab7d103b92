SPECIFICATION MCSpec
CONSTANTS
  Rpcs = {}
  NoRpc = NoRpc
  EventKinds = {"connection_ack", "complete", "error", "turnEnd", "messagesEnd", "cognition", "card", "text"}
  InitCap = 2
  Caps = {}
  MaxFrames = 3
  MaxRearms = 0
  Intervals = {0}
  Thresholds = {3}
  Timeouts = {}
  Delay = 1
  MaxConnections = 0
  Horizon = 6
PROPERTIES
  PushedBackIsNext
