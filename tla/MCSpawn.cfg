CONSTANTS
  NSlots = 2
  Blocks = {b1, b2}
  NoBlock = NoBlock
  Pids = {p1, p2}
  NoPid = NoPid
  MaxSpawns = 2
  MaxWrite <- OneEach
  Limit = 1
SPECIFICATION Spec
INVARIANTS
  PidsOwned
  PendingHasSlot
PROPERTIES
  AnsweredOnce
SYMMETRY Symmetry
