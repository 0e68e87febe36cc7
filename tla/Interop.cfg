SPECIFICATION FairSpec
CONSTANTS
  MaxMorceaux = 2
  SeqMod = 6
  HalfMod = 3
  Fenetre = 2
  MaxSack = 6
  MaxGet = 1
  LossyTypes = {"DATA", "FIN"}
  Place = 2
  MaxEssais = 2
  MaxSilence = 2
  MaxFils = 2
  MaxFile = 1
  MaxPile = 2
  MaxAcks = 2
  MaxAvance = 2
  MaxMuet = 2
  LoopHigh = 3
  LoopLow = 1
  Demande20 = 1
  Duos <- AllDuos
INVARIANTS PrefixIntegrity DoneMeansComplete NoZeroWindow FinMeansDelivered ForgottenMeansWritten
PROPERTIES EndsOrKnown RefinesFileTransfer
CHECK_DEADLOCK FALSE
