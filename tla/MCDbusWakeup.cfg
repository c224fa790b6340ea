CONSTANTS
  c1 = c1
  c2 = c2
  m1 = m1
  w1 = w1
  b1 = b1
  b2 = b2
  Calls = {c1, c2}
  Matches = {m1}
  Watches = {w1}
  Observed = {}
  Blocks = {b1, b2}
  Owner <- MCOwner
  NoBlock = NoBlock
  MaxOps = 2
  MaxTroubles = 0
SPECIFICATION FairSpec
PROPERTY OperationsStart
