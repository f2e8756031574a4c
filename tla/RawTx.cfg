SPECIFICATION FairSpec
CONSTANTS
  alice = alice
  bob = bob
  x = x
  y = y
  Transfers <- MCTransfers
  Outputs <- MCOutputs
  MaxInputs = 2
  Faults = 1
INVARIANTS
  TypeOK
  CompletedIsSigned
  SubmittedIsAccepted
PROPERTIES
  NoStaleCompletion
  Settles
CHECK_DEADLOCK FALSE
