SPECIFICATION FairSpec
CONSTANTS
  Paquets = {p1, p2}
  Hotes = {client, serveur, tiers}
  Dest = serveur
  MsPerSec = 2
  MaxDelay = 6
  Delays = {0, 3}
  Jitters = {0, 2, 4}
  Effets = {"loss"}
  MaxStep = 1
  MaxLate = 0
  MaxBusy = 1
INVARIANTS TypeOK InOrder NoOversleep
PROPERTY QueuedSent
CHECK_DEADLOCK FALSE
