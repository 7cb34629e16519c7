----------------------------- MODULE PhotoChunks -----------------------------
(***************************************************************************)
(* "Photo Database" as write_mhfd() makes it and parse_mhfd() reads it: a  *)
(* tree of chunks.  Each has its length, which takes the reader to the     *)
(* next one, and those with children their number; the reader stops at     *)
(* whichever ends first, and goes on in silence.                           *)
(*                                                                         *)
(* A file is a sequence of cells, one for each header and one for the text *)
(* of a mhod; offsets and lengths count cells.                             *)
(***************************************************************************)
EXTENDS Naturals, FiniteSets, GList

CONSTANTS
  Formats,       \* the formats of the iPod's thumbnails, a sequence
  NoName         \* the name of an album that has none

(* itdb_photodb_add_photo() wants a device that supports photos: one that  *)
(* has formats for them.                                                   *)
ASSUME ChunkAssumption == Formats \in Seq(ToSet(Formats)) /\ Formats # <<>>

Cell(tag, num, data) == [tag |-> tag, len |-> 1, num |-> num, data |-> data]

(* init_header, and total_len when the children are written.               *)
Chunk(tag, num, data, children) ==
  <<[Cell(tag, num, data) EXCEPT !.len = 1 + Len(children)]>> \o children

Each(Op(_), list) == FlattenSeq([i \in DOMAIN list |-> Op(list[i])])

-----------------------------------------------------------------------------
(* Writing: images have an id and thumbnails, albums a name and members.   *)

(* write_mhod_type_1, write_mhod_type_3.                                   *)
WriteText(type, text) == Chunk("mhod", 0, type, <<Cell("text", 0, text)>>)

(* write_mhni in write_mhod.                                               *)
WriteThumb(thumb) ==
  Chunk("mhod", 0, "thumbnail",
        Chunk("mhni", 1, [format |-> thumb.format, offset |-> thumb.offset],
              WriteText("file name", thumb.filename)))

WriteMhii(image) ==
  Chunk("mhii", Len(image.thumbs), image.id, Each(WriteThumb, image.thumbs))

WriteMhia(id) == Chunk("mhia", 0, id, <<>>)

(* The name is the only mhod.                                              *)
WriteMhba(album) ==
  Chunk("mhba", 1, Len(album.ids),
        WriteText("album name", album.name) \o Each(WriteMhia, album.ids))

WriteMhif(format) == Chunk("mhif", 0, format, <<>>)

(* write_mhsd, with the header of its list.                                *)
WriteMhsd(type, tag, num, children) ==
  Chunk("mhsd", 0, type, <<Cell(tag, num, 0)>> \o children)

WriteMhli(images) == WriteMhsd(1, "mhli", Len(images), Each(WriteMhii, images))
WriteMhla(albums) == WriteMhsd(2, "mhla", Len(albums), Each(WriteMhba, albums))
WriteMhlf == WriteMhsd(3, "mhlf", Len(Formats), Each(WriteMhif, Formats))

WriteMhfd(images, albums) ==
  Chunk("mhfd", 3, 0, WriteMhli(images) \o WriteMhla(albums) \o WriteMhlf)

-----------------------------------------------------------------------------
(* Reading.  A context is where a chunk may be and how much is left for it.*)
Context(at, len) == [at |-> at, len |-> len]
At(file, ctx) == file[ctx.at]

(* db_parse_context_get_sub_context for one child behind the last: a chunk *)
(* of the kind, with its own length.  What is not one ends it.             *)
NextChild(file, ctx, tag, last) ==
  LET at == ctx.at + last.next
  IN IF last.over \/ last.next >= ctx.len THEN last
     ELSE IF file[at].tag # tag
       THEN [next |-> last.next, over |-> TRUE, found |-> last.found]
     ELSE [next |-> last.next + file[at].len, over |-> FALSE,
           found |-> Append(last.found, Context(at, file[at].len))]

(* As many children as the chunk says it has, from start.                  *)
Children(file, ctx, start, num, tag) ==
  LET walk[n \in 0 .. num] ==
        IF n = 0 THEN [next |-> start, over |-> FALSE, found |-> <<>>]
        ELSE NextChild(file, ctx, tag, walk[n - 1])
  IN walk[num]

(* parse_mhod_string: the text behind a mhod of the type.                  *)
TextOf(file, mhods, type) ==
  LET found == Only(mhods, {m \in ToSet(mhods) : At(file, m).data = type /\ m.len > 1})
  IN IF found = <<>> THEN NoName ELSE file[Last(found).at + 1].data

(* parse_photo_mhod, parse_photo_mhni: formats that the iPod does not have *)
(* are left out.                                                           *)
ReadThumb(file, mhod) ==
  LET mhni == Children(file, mhod, 1, 1, "mhni").found
      text(ctx) == TextOf(file, Children(file, ctx, 1, 1, "mhod").found, "file name")
  IN IF \/ At(file, mhod).data # "thumbnail" \/ mhni = <<>>
        \/ ~Listed(At(file, mhni[1]).data.format, Formats)
     THEN <<>>
     ELSE <<[format |-> At(file, mhni[1]).data.format, offset |-> At(file, mhni[1]).data.offset,
             filename |-> text(mhni[1])]>>

ReadMhii(file, ctx) ==
  LET mhods == Children(file, ctx, 1, At(file, ctx).num, "mhod").found
  IN [id |-> At(file, ctx).data, thumbs |-> Each(LAMBDA m : ReadThumb(file, m), mhods)]

(* parse_mhba: the members are behind the last mhod.                       *)
ReadMhba(file, ctx) ==
  LET mhods == Children(file, ctx, 1, At(file, ctx).num, "mhod")
      mhias == Children(file, ctx, mhods.next, At(file, ctx).data, "mhia").found
  IN [name |-> TextOf(file, mhods.found, "album name"),
      ids |-> [i \in DOMAIN mhias |-> At(file, mhias[i]).data]]

(* parse_mhsd, parse_mhl.                                                  *)
ReadMhsd(file, mhsd, tag, child) ==
  LET list == Context(mhsd.at + 1, mhsd.len - 1)
  IN IF list.len = 0 \/ At(file, list).tag # tag THEN <<>>
     ELSE Children(file, list, 1, At(file, list).num, child).found

(* parse_mhfd: nothing is read if the length is not that of the file.      *)
ReadMhfd(file) ==
  LET root == Context(1, Len(file))
      mhsds == IF file[1].len = Len(file)
               THEN Children(file, root, 1, file[1].num, "mhsd").found ELSE <<>>
      of(type) == Only(mhsds, {m \in ToSet(mhsds) : At(file, m).data = type})
      images == Each(LAMBDA m : ReadMhsd(file, m, "mhli", "mhii"), of(1))
      albums == Each(LAMBDA m : ReadMhsd(file, m, "mhla", "mhba"), of(2))
  IN [images |-> [i \in DOMAIN images |-> ReadMhii(file, images[i])],
      albums |-> [i \in DOMAIN albums |-> ReadMhba(file, albums[i])]]
=============================================================================
