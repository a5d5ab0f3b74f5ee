SPECIFICATION ClusterSpec
CONSTANTS
  Slots = {s0, s1}
  MaxExits = 2
  MaxFailures = 3
  Requests = {1, 2}
  Keys = {k1, k2}
  Limit = 1
  Capacity = 1
  MaxPending = 1
  None = None
  Primaries = {q1}
  OldUsers = {u1, u2}
INVARIANTS StopsOnRepeatedFailures LimitsHold ServesReady
PROPERTIES NobodyForgotten
CHECK_DEADLOCK FALSE
