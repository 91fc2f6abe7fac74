CONSTANTS
  o = o
  w1 = w1
  w2 = w2
  u1 = u1
  u2 = u2
  u3 = u3
  u4 = u4
  Owner = o
  Writers <- TwoWriters
  Readers <- OwnerOnly
  Units <- FourUnits
  NoUnit = NoUnit
  Rereads = FALSE
  Prios = {30, 50}
  Window = 2
  MaxInserts = 4
  LastTime = 4
SPECIFICATION Spec
INVARIANTS UnitInv
PROPERTIES QueueRefined
SYMMETRY Symmetry
CHECK_DEADLOCK FALSE
