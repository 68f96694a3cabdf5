SPECIFICATION Spec
CONSTANTS
  counter = counter
  batch = batch
  gauge = gauge
  grpcBatch = grpcBatch
  g = g
  Requests = {counter, gauge, batch}
  GrpcRequests = {}
  CounterWrites = {counter, batch}
  GaugesOf <- MCGaugesOf
  NaNsOf <- GaugeIsNaN
  GaugeNames = {g}
  Ticker = Ticker
  Main = Main
  FileStorage = TRUE
  StoreInterval = 300
  Restore = TRUE
  WriteFaults = FALSE
  RenameFaults = FALSE
  LoadFaults = FALSE
  DrainTimeouts = FALSE
  ListenFaults = FALSE
  MaxInFlight = 1
  MaxBoots = 1
INVARIANT
  ExitPersistsEverything
