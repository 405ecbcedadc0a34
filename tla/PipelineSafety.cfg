SPECIFICATION Spec
CONSTANTS
  MaxDeposits = 3
  MaxTxs = 1
  MaxBatches = 3
  DepositSlots = 2
  TxSlots = 1
  Withdrawals = {1}
  WithdrawalCap = 1
  MaxCrashes = 2
  MaxFaults = 1
  MaxTimeouts = 1
  OtherSubmitters = FALSE
CHECK_DEADLOCK FALSE
INVARIANTS
  TypeOK
  IInv
  AlwaysRecoverable
  LandedInputsHeld
  StatusTellsTruth
  NoOrphanedInputs
  SubmittedInputsReserved
  SentAcceptedUntilLanded
  AppliedOnce
  BlobKeptForLanded
  CreditedInOrder
  TreeIsConfirmedOrLanded
PROPERTIES
  SubmittedNeverUndone
  TerminalIsFinal
  ConfirmsTheChainRoot
  ImplementsSettlement
