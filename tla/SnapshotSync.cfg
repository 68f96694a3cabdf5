SPECIFICATION Spec
CONSTANTS
  counter = counter
  batch = batch
  gauge = gauge
  grpcBatch = grpcBatch
  g = g
  Requests = {counter, batch, gauge, grpcBatch}
  GrpcRequests = {grpcBatch}
  CounterWrites = {counter, batch, grpcBatch}
  GaugesOf <- MCGaugesOf
  NaNsOf <- NoNaNs
  GaugeNames = {g}
  Ticker = Ticker
  Main = Main
  FileStorage = TRUE
  StoreInterval = 0
  Restore = TRUE
  WriteFaults = FALSE
  RenameFaults = FALSE
  LoadFaults = FALSE
  DrainTimeouts = FALSE
  ListenFaults = FALSE
  MaxInFlight = 1
  MaxBoots = 2
INVARIANT
  AckedIsDurable
