SPECIFICATION Spec
CONSTANTS
  w1 = w1
  w2 = w2
  Workers = {w1, w2}
  RuntimeGauges = 2
  SystemGauges = 1
  CpuGauges = 1
  MaxAttempts = 1
  NetFaults = TRUE
  LateDelivery = FALSE
  FlushTimeouts = TRUE
  MaxPolls = 2
  MaxReports = 1
  MaxLimbo = 0
INVARIANT
  ServerNeverOvercounts
