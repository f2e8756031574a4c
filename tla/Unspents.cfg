SPECIFICATION Spec
CONSTANTS
  Output <- MCOutput
  AddressLists <- MCAddressLists
  Limit = 2
  OmniSupport = TRUE
  OmniTransferCost = 2
  Moves = 1
INVARIANTS
  AskedOnce
  BalanceOfOneMoment
  KeepsOneBack
CHECK_DEADLOCK FALSE
