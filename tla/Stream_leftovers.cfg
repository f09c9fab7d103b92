SPECIFICATION Spec
CONSTANTS
  MaxTurns = 2
  UntaggedKinds = {}
INVARIANTS
  LeftoversEndNothing
