CONSTANTS
  t1 = t1
  t2 = t2
  t3 = t3
  b1 = b1
  b2 = b2
  h1 = h1
  h2 = h2
  g1 = g1
  g2 = g2
  Timers = {t1, t2}
  Handles = {h1}
  Blocks = {b1}
  Gens = {g1, g2}
  NoTimer = NoTimer
  NoHandle = NoHandle
  NoBlock = NoBlock
  NoGen = NoGen
  MaxTimers = 1
  Budget = 1
  Delays = {0}
  Intervals = {2}
  Poll <- MCPoll
  MaxLate = 2
SPECIFICATION Spec
INVARIANTS
  TimerLimit
