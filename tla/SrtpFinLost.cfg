SPECIFICATION FairSpec
CONSTANTS
  MaxMorceaux = 1
  SeqMod = 4
  HalfMod = 2
  Fenetre = 1
  MaxSack = 1
  MaxGet = 1
  LossyTypes = {"GET", "DATA", "ACK", "SACK", "CONN", "FIN"}
PROPERTY ClientTerminates
