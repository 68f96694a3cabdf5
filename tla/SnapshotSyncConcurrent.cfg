SPECIFICATION Spec
CONSTANTS
  counter = counter
  batch = batch
  gauge = gauge
  grpcBatch = grpcBatch
  g = g
  Requests = {counter, batch}
  GrpcRequests = {}
  CounterWrites = {counter, batch}
  GaugesOf <- MCGaugesOf
  NaNsOf <- NoNaNs
  GaugeNames = {g}
  Ticker = Ticker
  Main = Main
  FileStorage = TRUE
  StoreInterval = 0
  Restore = TRUE
  WriteFaults = FALSE
  RenameFaults = FALSE
  LoadFaults = FALSE
  DrainTimeouts = FALSE
  ListenFaults = FALSE
  MaxInFlight = 2
  MaxBoots = 1
INVARIANT
  AckedIsDurable
