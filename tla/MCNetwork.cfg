CONSTANTS
  NumPorts = 3
  NumVNs = 2
  VcsPerVn = 1
  Flows <- ThreeFlows
  Loads <- Crowded
  MaxFlits = 2
  HostOutSize = 2
  HostInSize = 2
  PortOutSize = 2
  PortInSize = 2
  Skipped = {1, 2}
SPECIFICATION FairSpec
INVARIANTS CreditInv RouterAwake HostAwake
PROPERTIES InOrder Delivered
