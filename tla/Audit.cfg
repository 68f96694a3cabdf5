SPECIFICATION SlowSpec
CONSTANTS
  h1 = h1
  h2 = h2
  h3 = h3
  c1 = c1
  c2 = c2
  diskFile = diskFile
  url = url
  late = late
  NoOne = NoOne
  Handlers = {h1, h2, h3}
  Closers = {c1, c2}
  Observers = {diskFile, url, late}
  Files = {diskFile}
  Early = {diskFile, url}
  BufferSize = 2
INVARIANTS
  TypeOK
  NeverPanics
  CloseDelivers
PROPERTIES
  ImplementsLog
  NotifyReturns
  CloseReturns
