SPECIFICATION Spec
CONSTANTS
  AddressLists <- MCAddressLists
  Rates <- MCRates
  MinTransfer = 2
  MinFees = 1
  MaxTxInputs = 3
INVARIANTS
  AtMostOne
  SummaryBalances
  LeftBehindOnlyFor
CHECK_DEADLOCK FALSE
