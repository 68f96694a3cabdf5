SPECIFICATION FairSpec
CONSTANTS
  forward = forward
  backward = backward
  single = single
  x = x
  y = y
  g = g
  Nobody = Nobody
  Callers = {forward, backward, single}
  Rows <- MCRows
  Single = {single}
  Keys = {x, y, g}
  MaxBigint = 2
  MaxOpenConns = 2
  MaxAttempts = 2
  MaxFaults = 2
  Impatient = {single}
INVARIANTS
  TypeOK
  CountersAddUp
  CommitsAccounted
  NothingLeaks
  PageIsRecent
PROPERTY
  EveryCallReturns
