SPECIFICATION SchedulerSpec
CONSTANTS
  NumPriorities = 3
  Requests <- MCRequests
  TxTimes = {1, 3}
  TxIdModulus = 4
  MaxTime = 4
PROPERTY NextTimeInFuture
