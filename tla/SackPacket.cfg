SPECIFICATION SpecSack
CONSTANTS
  Largeur = 3
  Alignement = 16
  Cles = {0, 1, 2, 3, 4, 5, 6, 7}
  WindowMod = 2
  LongMod = 3
  SeqnumMod = 8
  Octets = {0, 1}
  MaxPayload = 2
  Mot = 2
  MaxPktLen = 3
  MaxListe = 2
INVARIANTS OnlyLastZeroLost ReadBy20 SentBy20 SackTold IntactAccepted NothingForged OthersRejectAltered
CHECK_DEADLOCK FALSE
