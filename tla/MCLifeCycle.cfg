CONSTANTS
  a = a
  b = b
  d = d
  e = e
  k1 = k1
  NoComp = NoComp
  NumRanks = 2
  NumThreads = 2
  MaxTime = 15
  Comps <- MCComps
  Home <- MCHome
  Sharers <- MCSharers
  Early <- SomeLate
  Keys = {k1}
  Values = {v1, v2}
  Unset = Unset
  Verify = TRUE
  MaxWrites = 1
  Channels <- MCChannels
  CompOrder <- MCOrder
  MaxSends = 3
  MaxUses <- MCUses
  Late = 9
  Stops = {FALSE}
SPECIFICATION FairSpec
INVARIANTS RoundInv ReadNextRound NothingLost PublishedComplete
PROPERTIES AllEnd
