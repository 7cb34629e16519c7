SPECIFICATION Spec
CONSTANTS
  Thumb = {t1, t2, t3}
  File = {F1, F2}
  NoFile = NoFile
  Size = 2
  Stride = 2
  MaxSlots = 4
  Faults = {"unlink", "open", "read", "write", "truncate"}
INVARIANTS
  PicturesKept
  FilesPacked
PROPERTIES
  ImplementsSlots
  RearrangeEnds
