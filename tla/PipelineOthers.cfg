SPECIFICATION Spec
CONSTANTS
  MaxDeposits = 2
  MaxTxs = 1
  MaxBatches = 3
  DepositSlots = 1
  TxSlots = 1
  Withdrawals = {}
  WithdrawalCap = 1
  MaxCrashes = 1
  MaxFaults = 1
  MaxTimeouts = 1
  OtherSubmitters = TRUE
CHECK_DEADLOCK FALSE
INVARIANTS
  CreditedInOrder
  AppliedOnce
