CONSTANTS
  Inodes = {i1, i2}
  NoInode = NoInode
  MaxEdits = 2
  Static = {sb}
  Dynamic = {db}
SPECIFICATION FairSpec
INVARIANTS
  StagedNeverShown
PROPERTIES
  FreshCommit
  LastEditLoaded
