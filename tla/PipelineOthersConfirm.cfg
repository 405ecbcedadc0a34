SPECIFICATION Spec
CONSTANTS
  MaxDeposits = 1
  MaxTxs = 1
  MaxBatches = 2
  DepositSlots = 1
  TxSlots = 1
  Withdrawals = {}
  WithdrawalCap = 1
  MaxCrashes = 0
  MaxFaults = 0
  MaxTimeouts = 0
  OtherSubmitters = TRUE
CHECK_DEADLOCK FALSE
PROPERTY ConfirmsTheChainRoot
