SPECIFICATION Spec
CONSTANTS
  counter = counter
  batch = batch
  gauge = gauge
  grpcBatch = grpcBatch
  g = g
  Requests = {batch, grpcBatch}
  GrpcRequests = {grpcBatch}
  CounterWrites = {batch, grpcBatch}
  GaugesOf <- MCGaugesOf
  NaNsOf <- NoNaNs
  GaugeNames = {g}
  Ticker = Ticker
  Main = Main
  FileStorage = TRUE
  StoreInterval = 0
  Restore = TRUE
  WriteFaults = TRUE
  RenameFaults = TRUE
  LoadFaults = TRUE
  DrainTimeouts = TRUE
  ListenFaults = TRUE
  MaxInFlight = 2
  MaxBoots = 2
INVARIANT
  TornOneWay
