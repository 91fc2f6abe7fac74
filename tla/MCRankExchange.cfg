CONSTANTS
  NumRanks = 2
  NumThreads = 2
  Linked <- Uneven
  Plan <- Phases
  Sizes = {1, 2}
  FirstSize = 1
SPECIFICATION FairSpec
INVARIANTS TypeOK NothingTruncated
PROPERTIES ExchangeRefined ExchangesEnd
