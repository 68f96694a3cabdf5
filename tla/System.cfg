SPECIFICATION FairSystem
CONSTANTS
  w1 = w1
  json = json
  pem = pem
  address = address
  Blank = Blank
  Bad = Bad
  DefaultPath = DefaultPath
  NoLaunch = NoLaunch
  Workers = {w1}
  RuntimeGauges = 2
  SystemGauges = 1
  CpuGauges = 0
  MaxAttempts = 2
  NetFaults = TRUE
  LateDelivery = FALSE
  FlushTimeouts = FALSE
  MaxPolls = 2
  MaxReports = 2
  MaxLimbo = 0
  AgentLaunches <- MCAgentLaunches
INVARIANTS
  AnsweredSurvives
  AgentSettingsAsGiven
PROPERTIES
  SamplesInOrder
  AgentStops
