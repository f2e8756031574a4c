SPECIFICATION Spec
CONSTANTS
  Wallets <- MCWallets
  Transfers <- MCTransfers
  MinFees = 2
  MaxTxInputs = 2
INVARIANTS
  Balances
  LeastSelection
  InsufficientIsExact
PROPERTY
  PassesGrow
CHECK_DEADLOCK FALSE
