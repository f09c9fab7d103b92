SPECIFICATION Spec
CONSTANTS
  a = a  b = b  c = c  d = d  s1 = s1  s2 = s2
  Calls = {a, b, c, d}
  Sessions = {s1, s2}
  NoSession = NoSession
  PoolSize = 2
  Ops = {"acquire", "release", "stop"}
  MaxSlots = 4
  MaxDrops = 1
  Droppable = {a, b, c, d}
SYMMETRY CallSymmetry
INVARIANTS
  TypeOK
  ConnectionsBounded
  OneConnectionPerSession
  SlotsAccounted
  StoreAgrees
