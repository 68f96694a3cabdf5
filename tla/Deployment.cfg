SPECIFICATION FairSpec
CONSTANTS
  Blank = Blank
  Bad = Bad
  DefaultPath = default
  other = other
  first = first
  second = second
  grpcUpdate = grpcUpdate
  dsn = dsn
  file = file
  url = url
  pem = pem
  address = address
  cidr = cidr
  json = json
  Table = Table
  NoLaunch = NoLaunch
  Main = Main
  Launches <- MCLaunches
  Paths = {default, other}
  Updates = {first, second, grpcUpdate}
  GrpcUpdates = {grpcUpdate}
  MaxLaunches = 3
INVARIANTS
  TypeOK
  SettingsAsGiven
  PromisesKept
  AuditComplete
PROPERTY
  ShutdownEnds
