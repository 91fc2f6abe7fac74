CONSTANTS
  a = a
  b = b
  d = d
  e = e
  k1 = k1
  NoComp = NoComp
  NumRanks = 2
  NumThreads = 2
  MaxTime = 15
  Comps <- MCComps
  Home <- MCHome
  Sharers = {}
  Early <- NoneEarly
  Keys = {k1}
  Values = {v1, v2}
  Unset = Unset
  Verify = TRUE
  MaxWrites = 0
  Channels <- MCChannels
  CompOrder <- MCOrder
  MaxSends = 1
  MaxUses <- NoUses
  Late = 9
  Stops = {TRUE}
SPECIFICATION FairSpec
INVARIANTS AvailableIsReturned
