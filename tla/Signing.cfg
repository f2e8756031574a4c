SPECIFICATION Spec
CONSTANTS
  ByteRange = 8
  VarIntMark = 7
  KeySize = 2
  Keys = {1, 2, 3, 4}
  Account <- MCAccount
  Requests <- MCRequests
INVARIANTS
  HashIsTheNodes
  VerifiedIsAccepted
  SignedVerifies
  MessagesInPlace
CHECK_DEADLOCK FALSE
