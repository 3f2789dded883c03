SPECIFICATION FairAgentSpec
CONSTANTS
  w1 = w1
  w2 = w2
  Teams <- mcBoth
  MaxPolls = 1
  MaxReports = 2
  MaxSystem = 2
  MaxStored = 2
INVARIANTS QueueInv GaugesMoveForward ReportsAccounted
PROPERTY AgentGoesOn
