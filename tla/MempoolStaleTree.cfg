SPECIFICATION Spec
CONSTANTS
  Key = {a, b}
  NoKey = NoKey
  NSlots = 2
  MaxBalance = 4
  DepositAmounts = {1, 3}
  TxAmounts = {1, 2}
  Supply = 4
  MaxDeposits = 3
  MaxRows = 3
  DepositSlots = 1
  TxSlots = 2
  WithdrawalCap = 1
  MaxPending = 2
  MaxFaults = 1
SYMMETRY Symmetry
CHECK_DEADLOCK FALSE
INVARIANT
  NonceAgainstConfirmedState
