SPECIFICATION Spec
CONSTANTS
  Pointers <- MCPointers
  Cle <- MCCle
  SLOTS_PER_MALLOC = 2
INVARIANTS TypeOK HeapOrder
PROPERTY RefinesPriorityQueue
