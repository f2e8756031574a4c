SPECIFICATION Spec
CONSTANTS
  Labels = {0, 1}
  MaxHeight = 4
  Final = 1
  Uint32Mod = 16
  NoHash = NoHash
  InitTip <- TwoBlocks
  Budget <- LiveBudget
PROPERTIES
  CatchUp
  RecordsDrain
