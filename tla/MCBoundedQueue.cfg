CONSTANTS
  p1 = p1
  p2 = p2
  a = a
  b = b
  NoItem = NoItem
  Procs <- TwoProcs
  Items <- TwoItems
  MaxSyncs = 3
SPECIFICATION FairSpec
INVARIANTS TypeOK InsertSucceeds
PROPERTIES FifoRefined AllTaken
