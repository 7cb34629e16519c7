SPECIFICATION Spec
CONSTANTS
  Track <- MCTrack
  Libraries <- MCLibraries
  Collate <- MCCollate
  Letter <- MCLetter
  Number <- MCNumber
INVARIANTS
  ReadsBack
  CopiesAgree
  HunksNest
  IndexSound
