CONSTANTS
  NSlots = 1
  Blocks = {b1}
  NoBlock = NoBlock
  Pids = {p1, p2}
  NoPid = NoPid
  MaxSpawns = 2
  MaxWrite <- TwoAndOne
  Limit = 1
SPECIFICATION FairSpec
INVARIANTS
  HonestSuccess
PROPERTIES
  Answered
