SPECIFICATION FairSpec
CONSTANTS
  counter = counter
  batch = batch
  gauge = gauge
  grpcBatch = grpcBatch
  g = g
  Requests = {counter, batch, grpcBatch}
  GrpcRequests = {grpcBatch}
  CounterWrites = {counter, batch, grpcBatch}
  GaugesOf <- MCGaugesOf
  NaNsOf <- NoNaNs
  GaugeNames = {g}
  Ticker = Ticker
  Main = Main
  FileStorage = TRUE
  StoreInterval = 300
  Restore = TRUE
  WriteFaults = FALSE
  RenameFaults = FALSE
  LoadFaults = FALSE
  DrainTimeouts = TRUE
  ListenFaults = FALSE
  MaxInFlight = 3
  MaxBoots = 2
INVARIANTS
  TypeOK
  FileWithinMemory
  ExitPersistsEverything
PROPERTIES
  SnapshotNeverRegresses
  ImplementsStore
  WritesReachTheFile
  ShutdownCompletes
