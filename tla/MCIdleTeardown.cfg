SPECIFICATION ExportSpec
CONSTANTS
  Exports = {j1, j2}
  Concurrency = 1
  MaxQueue = 1
  MaxTasks = 1
  MaxDeaths = 1
  None = None
PROPERTIES IdleTeardown
CHECK_DEADLOCK FALSE
