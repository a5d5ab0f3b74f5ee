SPECIFICATION FairSpec
CONSTANTS
  Collections <- ThreeCollections
  MaxProduct = 1
  MaxDay = 2
  MaxRev = 2
  MaxWrites = 2
  MaxTurns = 2
  MaxLosses = 1
  PageSize = 1
  Ops = {o1}
  None = None
INVARIANTS NothingMissed VerdictsTrue
PROPERTIES NeverBack Converges
CHECK_DEADLOCK FALSE
