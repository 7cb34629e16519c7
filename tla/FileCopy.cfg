SPECIFICATION Spec
CONSTANTS
  t1 = t1
  t2 = t2
  c1 = c1
  c2 = c2
  Track <- MCTrack
  Thread <- MCThread
  Numbers <- MCNumbers
  MaxNumber = 2
  Blocks = 1
  MaxLeft = 1
  MaxContested = 1
  AtFirst <- MCAtFirst
  NoName = NoName
  NoTrack = NoTrack
INVARIANTS
  TransferredWhole
  StoredWhole
  OwnFile
  NothingPartial
PROPERTIES
  CopyEnds
