SPECIFICATION Spec
CONSTANTS
  Photo = {q1, q2}
  NoPhoto = NoPhoto
  Library = Library
  a1 = a1
  Album <- Albums
  MaxMembers <- Lengths
  NoName = NoName
  Formats <- ThumbFormats
  Faults = {"thumbnails"}
INVARIANTS
  AlbumsSound
  ReadsBack
PROPERTIES
  RemovalExact
SYMMETRY Symmetry
