SPECIFICATION FairSpec
CONSTANTS
  MaxDeposits = 2
  MaxTxs = 0
  MaxBatches = 2
  DepositSlots = 1
  TxSlots = 1
  Withdrawals = {}
  WithdrawalCap = 1
  MaxCrashes = 1
  MaxFaults = 0
  MaxTimeouts = 0
  OtherSubmitters = FALSE
CHECK_DEADLOCK FALSE
PROPERTY QueuedDepositsRecorded
