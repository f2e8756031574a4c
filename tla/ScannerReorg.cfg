SPECIFICATION Spec
CONSTANTS
  Labels = {0, 1}
  MaxHeight = 5
  Final = 1
  Uint32Mod = 16
  NoHash = NoHash
  InitTip <- TwoBlocks
  Budget <- ReorgBudget
INVARIANTS
  Recorded
  NoTwoAnnounced
PROPERTY
  FollowsChain
