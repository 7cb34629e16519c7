SPECIFICATION Spec
CONSTANTS
  NoText = NoText
  Plain = Plain
  t1 = t1
  t2 = t2
  t3 = t3
  plain = plain
  a = a
  b = b
  Library <- Tracks
  Title <- Titles
  Size <- Sizes
  Compilation <- Compilations
  MediaType <- MediaTypes
  Playlist <- Playlists
  Setups <- AllSetups
  Rules <- AllRules
  MaxPlays = 2
  MaxNow = 2
  MaxEdits = 2
INVARIANTS
  MembersSound
  OnePassFillsInOrder
  PassesSettle
  OppositesSplit
PROPERTIES
  UpdateFills
