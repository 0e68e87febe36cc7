SPECIFICATION Spec
CONSTANTS
  MaxMorceaux = 4
  SeqMod = 4
  HalfMod = 2
  Fenetre = 2
  MaxSack = 4
  MaxGet = 1
  LossyTypes = {}
INVARIANT PrefixIntegrity
