CONSTANTS
  c1 = c1
  c2 = c2
  c3 = c3
  NoComp = NoComp
  MaxTime = 31
  LocalLat = 1
  Periods = {1}
  NumRanks = 2
  NumThreads = 2
  Comps <- TwoComps
  Home <- TwoRanks
  Delays = {0, 1}
  MaxSends = 2
  Configs <- Unlinked
SPECIFICATION Spec
INVARIANTS ReportedTimeRight
