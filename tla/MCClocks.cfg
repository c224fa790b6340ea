CONSTANTS
  HeapTimers = {1, 2, 3, 4, 5, 6}
  NoTimer = 0
  MaxTime = 1
  MaxSequence = 7
  Timers = {t1, t2}
  Handles = {h1}
  Gens = {g1, g2}
  NoHandle = NoHandle
  NoBlock = NoBlock
  NoGen = NoGen
  MaxTimers = 2
  Budget = 1
  Delays = {0}
  Intervals = {2}
  MaxLate = 2
  Observers = {o1}
  Blocks = {b1}
  RealtimeBlocks = {b1, b2}
  MaxWall = 2
  MaxJumps = 1
  Far = 2
  MaxTroubles = 1
SPECIFICATION Spec
INVARIANTS
  TypeOK
PROPERTIES
  QueueSpec
  DueFires
  ObserversFirst
  WallDueFires
  JumpsHeard
