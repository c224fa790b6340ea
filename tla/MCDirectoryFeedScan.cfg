CONSTANTS
  Names = {1, 2}
  Values = {v1, v2}
  Nothing = Nothing
  Gens = {g1, g2}
  NoGen = NoGen
  Blocks = {b1}
  Wds = {1, 2, 3, 4, 5, 6, 7, 8}
  NoWd = 0
  MaxItems = 1
  MaxWatches = 2
  QueueMax = 2
  MaxChanges = 4
SPECIFICATION Spec
INVARIANTS
  FirstFilesShown
SYMMETRY Symmetry
