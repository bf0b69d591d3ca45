SPECIFICATION DetectorSpec
CONSTANTS
  Agents = {a1, a2, a3}
  Observations = {c1, c2, c3}
  Contents <- MCContents
  Floor = 2
  MinAgents = 2
  FanInCap = 3
  AgentCap = 2
  Cap = 4
  FanInWindow = 1
  EchoWindow = 1
  MaxActive = 2
  MaxTime = 2
  MaxFaults = 1
SYMMETRY CallSymmetry
INVARIANTS SuspectedWasSeen
CHECK_DEADLOCK FALSE
