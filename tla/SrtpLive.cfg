SPECIFICATION FairSpec
CONSTANTS
  MaxMorceaux = 2
  SeqMod = 6
  HalfMod = 3
  Fenetre = 2
  MaxSack = 2
  MaxGet = 1
  LossyTypes = {"GET", "DATA", "ACK", "SACK", "CONN"}
PROPERTIES DataDelivered ClientTerminates
