CONSTANTS
  c1 = c1
  c2 = c2
  c3 = c3
  NoComp = NoComp
  MaxTime = 31
  LocalLat = 1
  Periods = {1}
  NumRanks = 2
  NumThreads = 2
  Comps <- ThreeComps
  Home <- Corner
  Delays = {0}
  MaxSends = 2
  Configs <- Linkings
SPECIFICATION FairSpec
INVARIANTS TypeOK NoStraggler SameSync EndsAllOK EndTimeAgreed OwnEnd FinalTimeAgreed
PROPERTIES EventOrdered Ends
