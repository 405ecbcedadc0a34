SPECIFICATION ClientSpec
CONSTANTS
  Key = {a, b}
  NoKey = NoKey
  NSlots = 2
  MaxBalance = 6
  DepositAmounts = {3}
  TxAmounts = {1}
  Supply = 6
  MaxDeposits = 2
  MaxRows = 3
  DepositSlots = 1
  TxSlots = 2
  WithdrawalCap = 1
  MaxPending = 2
  MaxFaults = 1
  User = {a}
  HistoryLimit = 4
  MaxPosts = 3
CHECK_DEADLOCK FALSE
INVARIANTS
  WalletInv
  ActivityExplainsAccount
  ReceiptIsOwn
  FreshNotRefused
