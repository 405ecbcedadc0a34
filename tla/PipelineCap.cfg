SPECIFICATION FairSpec
CONSTANTS
  MaxDeposits = 1
  MaxTxs = 3
  MaxBatches = 4
  DepositSlots = 1
  TxSlots = 2
  Withdrawals = {1, 2}
  WithdrawalCap = 1
  MaxCrashes = 0
  MaxFaults = 0
  MaxTimeouts = 0
  OtherSubmitters = FALSE
CHECK_DEADLOCK FALSE
PROPERTIES
  AdmittedTxsSettle
