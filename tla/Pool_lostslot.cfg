SPECIFICATION Spec
CONSTANTS
  a = a  b = b  c = c  d = d  s1 = s1  s2 = s2
  Calls = {a, b}
  Sessions = {s1}
  NoSession = NoSession
  PoolSize = 1
  Ops = {"acquire"}
  MaxSlots = 2
  MaxDrops = 0
  Droppable = {}
INVARIANTS
  FailureReturnsSlot
