SPECIFICATION Spec
CONSTANTS
  Labels = {0, 1}
  MaxHeight = 4
  Final = 0
  Uint32Mod = 16
  NoHash = NoHash
  InitTip <- OneBlock
  Budget <- CallBudget
INVARIANTS
  TypeOK
  HeadIsABlock
  Covered
  RescanHonoured
PROPERTY
  FloorTrap
