SPECIFICATION Spec
CONSTANTS
  Exports = {r1, r2, r3}
  Reads = {r1, r2, r3}
  Concurrency = 1
  MaxQueue = 1
  MaxTasks = 1
  MaxDeaths = 1
  None = None
  Routes = {q1, q2}
  MaxRev = 1
  Sizes = {1, 2, 3}
  Budget = 2
  MaxValue = 2
  MaxEntries = 2
  MaxPending = 2
  NoValue = NoValue
INVARIANTS SlotsConserved OwnReport ReadsAreFresh
PROPERTIES ExportsEnd
CHECK_DEADLOCK FALSE
