SPECIFICATION Spec
CONSTANTS
  SeqMod = 5
  MaxMorceaux = 6
  MaxWindow = 2
  MaxAge = 3
  MaxVol = 2
  MaxPile = 1
  MaxAcks = 2
  MaxAvance = 1
  MaxMuet = 2
  LoopHigh = 2
  LoopLow = 1
INVARIANTS ForgottenMeansWritten SentIsExpected
PROPERTY AdvancesByWindow
CHECK_DEADLOCK FALSE
