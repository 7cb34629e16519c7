SPECIFICATION ADSpec
CONSTANTS
  Track = {1, 2, 3}
  p1 = p1
  p2 = p2
  Image = {p1, p2}
  NoImage = NoImage
  AlbumOf <- OneAlbum
  MinId = 100
  MaxPictures = 3
  MaxEdits <- MoreIfSparse
  AppendFails = TRUE
INVARIANTS
  StoredCoversRight
  DatabaseSound
  NoPictureWasted
SYMMETRY Symmetry
