CONSTANTS
  NumPorts = 2
  NumVNs = 2
  VcsPerVn = 2
  Flows <- SecondNetwork
  Loads <- TwoPackets
  MaxFlits = 2
  HostOutSize = 2
  HostInSize = 2
  PortOutSize = 2
  PortInSize = 2
  Skipped = {1, 2}
SPECIFICATION Spec
INVARIANTS InputBufferBound
