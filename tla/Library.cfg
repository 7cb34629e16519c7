SPECIFICATION Spec
CONSTANTS
  Track = {t1, t2}
  Playlist = {p1, p2}
  DbId = {d1, d2}
  PlId = {i1, i2}
  NoId = NoId
  NoPlaylist = NoPlaylist
  MaxMembers = 2
SYMMETRY Symmetry
INVARIANTS
  ListsSound
  PlaylistIdsUnique
  TracksInMplOrder
  PrepareOutcome
  MemberIdsResolve
