SPECIFICATION Spec
CONSTANTS
  Base = 3
  W = 8
  CurveOrder <- MCCurveOrder
  HalfCurveOrder <- MCHalfCurveOrder
  Signatures <- MCSignatures
INVARIANTS
  LowS
  ShortWhenRefused
  OrdinarySurvives
CHECK_DEADLOCK FALSE
