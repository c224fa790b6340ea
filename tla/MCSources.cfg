CONSTANTS
  s1 = s1
  s2 = s2
  b1 = b1
  b2 = b2
  system = system
  user = user
  Subs = {s1, s2}
  Blocks = {b1, b2}
  Buses = {system, user}
  Owner <- TwoOwners
  Scope <- OneAndBoth
  NotTold = NotTold
  MaxCount = 1
  Ids = {i1, i2}
  NoId = NoId
  Names = {n1, n2}
  NoName = NoName
  Data = {v1, v2}
  Unavailable = Unavailable
  MaxSinks = 2
  QueueMax = 2
  Budget = 2
  MaxChanges = 2
  MaxServerChanges = 2
  MaxTroubles = 1
  FileNames = {1, 2}
  Nothing = Nothing
  FeedBlocks = {b1}
  Wds = {1, 2, 3, 4, 5, 6, 7, 8}
  NoWd = 0
  MaxItems = 1
  MaxWatches = 2
  MaxEdits = 3
  States = {Text}
  Hidden = Hidden
  ListLimit = 2
  Cells = {1, 2, 3, 4}
  MaxBytes = 12
  MaxDepth = 3
  BarDepth = 5
  Unused = Unused
SPECIFICATION Spec
INVARIANTS
  TypeOK
  SourcesCurrent
  SubscribersTold
  WatchesShared
  SetAtomic
  ClicksFramed
SYMMETRY Symmetry
