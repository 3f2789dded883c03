SPECIFICATION AgentSpec
CONSTANTS
  w1 = w1
  w2 = w2
  Teams <- mcOne
  MaxPolls = 2
  MaxReports = 1
  MaxSystem = 0
  MaxStored = 1
INVARIANT PollsCountedOnce
