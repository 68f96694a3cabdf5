SPECIFICATION Spec
CONSTANTS
  a = a
  b = b
  k1 = k1
  k2 = k2
  r1 = r1
  r2 = r2
  NoName = NoName
  NoKey = NoKey
  MaxAttempts = 2
  Requests = {r1, r2}
  Ids = {a, b}
  Keys = {k1, k2}
  Configs <- MCConfigs
  AgentBatches <- MCAgentBatches
  OtherRequests <- MCOtherRequests
SYMMETRY Symmetric
INVARIANTS
  TypeOK
  AgentUnderstood
  AnswersTellTheTruth
  ReadYourWrites
  AnswerReadable
