SPECIFICATION Spec
CONSTANTS
  Key = {a, b, c}
  NoKey = NoKey
  PadKey = PadKey
  Dest = {x}
  NSlots = 2
  MaxBalance = 2
  Amounts = {1, 2}
  Supply = 2
  MaxDeposits = 3
  MaxProved = 3
  MaxBatches = 3
  MaxEntries = 4
  DepositSlots = 2
  TxSlots = 2
  WithdrawalCap = 1
SYMMETRY Symmetry
CHECK_DEADLOCK FALSE
INVARIANTS
  TypeOK
  Solvent
  WithdrawalsPayable
  HeadProvable
  ReplayRebuildsRoot
  BuilderProvable
  SignedOnce
  RootNeverReturns
PROPERTIES
  ImplementsCustody
