SPECIFICATION FairSpec
CONSTANTS
  MaxDeposits = 2
  MaxTxs = 1
  MaxBatches = 3
  DepositSlots = 1
  TxSlots = 1
  Withdrawals = {}
  WithdrawalCap = 1
  MaxCrashes = 1
  MaxFaults = 0
  MaxTimeouts = 0
  OtherSubmitters = FALSE
CHECK_DEADLOCK FALSE
PROPERTIES
  RecordedDepositsSettle
  AdmittedTxsSettle
  QueuedRecordedUnlessPassed
