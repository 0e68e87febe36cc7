SPECIFICATION Spec
CONSTANTS
  WindowMod = 4
  LongMod = 4
  SeqnumMod = 4
  Octets = {0, 1}
  MaxPayload = 2
  Mot = 2
  MaxPktLen = 6
INVARIANT AlteredRejected
CHECK_DEADLOCK FALSE
