CONSTANTS
  c1 = c1
  c2 = c2
  c3 = c3
  NoComp = NoComp
  MaxTime = 31
  LocalLat = 1
  Periods = {1}
  NumRanks = 1
  NumThreads = 2
  Comps <- TwoComps
  Home <- TwoThreads
  Delays = {0, 1}
  MaxSends = 3
  Configs <- DirectOrNot
SPECIFICATION FairSpec
INVARIANTS EndTimeAgreed CountsMatch
PROPERTIES EventOrdered
