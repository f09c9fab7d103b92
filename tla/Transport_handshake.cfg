SPECIFICATION Spec
CONSTANTS
  c1 = c1
  c2 = c2
  r1 = r1
  r2 = r2
  a1 = a1
  Calls = {c1}
  Ops = {"retries"}
  OneAtATime = TRUE
  MaxRetries = 2
  Requests = {}
  Subscribes = {}
  Apps = {}
  MaxConns = 2
  MaxPending = 1
PROPERTY
  ConnectOkMeansHandshaken
CHECK_DEADLOCK FALSE
