SPECIFICATION Spec
CONSTANTS
  MaxMorceaux = 5
  SeqMod = 6
  HalfMod = 3
  Fenetre = 2
  MaxSack = 3
  MaxGet = 1
  LossyTypes = {}
INVARIANTS TypeOK PrefixIntegrity DoneMeansComplete ForgottenMeansReceived FinMeansDelivered CrashNeedsLongFile
PROPERTIES BaseNeverRetreats RefinesFileTransfer
