--------------------------- MODULE IthmbRearrange ---------------------------
(***************************************************************************)
(* ithmb_rearrange_existing_thumbnails() and, for each of the files of one *)
(* format, ithumb_rearrange_thumbnail_file(): thumbnails that are no       *)
(* longer used leave slots in the middle of a file, which are filled in    *)
(* place while the thumbnails that move get a new offset.                  *)
(*                                                                         *)
(* Offsets and lengths count cells: a picture has Size of them, and the    *)
(* next one follows after Stride cells, which are more when the format has *)
(* padding (write_pixels).  The files come out of a hash table, in any     *)
(* order.  A call of the operating system may fail where Faults allows it. *)
(***************************************************************************)
EXTENDS Integers, Sequences, FiniteSets, SequencesExt, IthmbPacked

CONSTANTS
  Thumb,      \* Itdb_Thumb_Ipod_Item structures
  File,       \* the F<format>_<index>.ithmb files of one format
  NoFile,
  Size,       \* img->size
  Stride,     \* Size, or the padding of the format
  MaxSlots,   \* bound on the pictures in a file (model only)
  Faults      \* the calls that may fail

ASSUME RearrangeAssumption ==
  /\ NoFile \notin File /\ IsFiniteSet(Thumb)
  /\ MaxSlots \in Nat \ {0} /\ Size \in Nat \ {0} /\ Stride \in Nat /\ Size <= Stride
  /\ Faults \subseteq {"unlink", "open", "read", "write", "truncate"}

VARIABLES
  fileOf,    \* thumbnail -> its file, NoFile when its picture was removed
  offset,    \* img->offset
  data,      \* file -> cell -> the part of a picture stored there
  length,    \* file -> its length, 0 when it does not exist
  ragged,    \* the files that end with a part of a cell
  result,    \* *_user_data
  list,      \* thumbs, of the file that is worked on
  gl,        \* the place of gl in the list, 0 for NULL
  slot,      \* file -> offset, the loop variable of its call
  last,      \* file -> first_offset
  pc,        \* file -> where its call is
  pictured   \* thumbnail -> the place of its picture at first (history)

vars == <<fileOf, offset, data, length, ragged, result, list, gl, slot, last,
          pc, pictured>>
input == <<fileOf, ragged, pictured>>

Garbage == <<NoFile, 0>>
MaxLength == MaxSlots * Stride
Picture == (File \X (0 .. MaxLength - 1)) \cup {Garbage}

ThumbsIn(f) == {t \in Thumb : fileOf[t] = f}
UsedIn(f) == {offset[t] : t \in ThumbsIn(f)}

(* All lists of the thumbnails of a file that offset_sort may leave.       *)
SortedLists(f) ==
  {l \in SetToSeqs(ThumbsIn(f)) :
     \A i, j \in DOMAIN l : i < j => offset[l[i]] >= offset[l[j]]}

Idle == {"todo", "done", "failed"}

TypeOK ==
  /\ fileOf \in [Thumb -> File \cup {NoFile}]
  /\ offset \in [Thumb -> 0 .. MaxLength - 1]
  /\ length \in [File -> 0 .. MaxLength]
  /\ \A f \in File : data[f] \in [0 .. length[f] - 1 -> Picture]
  /\ ragged \subseteq File
  /\ result \in BOOLEAN
  /\ Range(list) \subseteq Thumb
  /\ gl \in 0 .. Len(list)
  /\ \A f \in File : slot[f] \in 0 .. length[f]
  /\ slot \in [File -> Nat] /\ last \in [File -> 0 .. MaxLength]
  /\ pc \in [File -> Idle \cup {"slot", "copy", "move", "truncate"}]
  /\ Cardinality({f \in File : pc[f] \notin Idle}) <= 1

(* Files as earlier writes left them, one picture behind the other, and    *)
(* thumbnails that share slots or use none.                                *)
Init ==
  /\ length \in [File -> {n * Stride : n \in 0 .. MaxSlots}]
  /\ data = [f \in File |-> [s \in 0 .. length[f] - 1 |-> <<f, s>>]]
  /\ fileOf \in [Thumb -> {f \in File : length[f] > 0} \cup {NoFile}]
  /\ offset \in [Thumb -> {n * Stride : n \in 0 .. MaxSlots - 1}]
  /\ \A t \in Thumb :
       IF fileOf[t] = NoFile THEN offset[t] = 0 ELSE offset[t] < length[fileOf[t]]
  /\ ragged \in SUBSET {f \in File : length[f] > 0}
  /\ pictured = [t \in Thumb |-> IF fileOf[t] = NoFile THEN Garbage
                                 ELSE <<fileOf[t], offset[t]>>]
  /\ result = TRUE
  /\ list = <<>> /\ gl = 0
  /\ slot = [f \in File |-> 0] /\ last = [f \in File |-> 0]
  /\ pc = [f \in File |-> "todo"]

-----------------------------------------------------------------------------
Fails(call) == call \in Faults

At(f, p) == pc[f] = p
GoTo(f, p) == pc' = [pc EXCEPT ![f] = p]

Fail(f) ==
  /\ result' = FALSE
  /\ GoTo(f, "failed")
  /\ UNCHANGED <<offset, length, list, gl, slot, last, input>>

(* ithumb_rearrange_thumbnail_file() is called for a file of filenamehash. *)
Called(f) == At(f, "todo") /\ length[f] > 0 /\ \A g \in File : pc[g] \in Idle

(* An earlier file failed.                                                 *)
SkipFile(f) == Called(f) /\ ~result /\ Fail(f) /\ UNCHANGED data

(* No thumbnail uses the file.  Once it is removed the code goes on to     *)
(* look for the size of its thumbnails, finds none, and fails.             *)
RemoveUnused(f) ==
  /\ Called(f) /\ result /\ ThumbsIn(f) = {}
  /\ result' = FALSE
  /\ \/ /\ length' = [length EXCEPT ![f] = 0]
        /\ data' = [data EXCEPT ![f] = <<>>]
        /\ GoTo(f, "done")
     \/ Fails("unlink") /\ GoTo(f, "failed") /\ UNCHANGED <<length, data>>
  /\ UNCHANGED <<offset, list, gl, slot, last, input>>

(* The file is left alone.                                                 *)
RefuseFile(f) ==
  /\ Called(f) /\ result /\ ThumbsIn(f) # {}
  /\ f \in ragged \/ length[f] % Size # 0 \/ Fails("open")
  /\ Fail(f) /\ UNCHANGED data

(* Mutant: the list is not sorted.                                         *)
OpenFileUnsorted(f) ==
  /\ Called(f) /\ result /\ ThumbsIn(f) # {}
  /\ f \notin ragged /\ length[f] % Size = 0
  /\ list' \in SetToSeqs(ThumbsIn(f))
  /\ gl' = Len(list')
  /\ GoTo(f, "slot")
  /\ UNCHANGED <<offset, data, length, result, slot, last, input>>

OpenFile(f) ==
  /\ Called(f) /\ result /\ ThumbsIn(f) # {}
  /\ f \notin ragged /\ length[f] % Size = 0
  /\ list' \in SortedLists(f)
  /\ gl' = Len(list')
  /\ GoTo(f, "slot")
  /\ UNCHANGED <<offset, data, length, result, slot, last, input>>

(* Mutant: gl also goes back over the thumbnail that uses the slot.        *)
VisitSlotTooFar(f) ==
  LET behind == {i \in 1 .. gl : offset[list[i]] > slot[f]}
      back   == IF behind = {} THEN 0 ELSE Max(behind)
  IN
  /\ At(f, "slot")
  /\ \/ /\ gl = 0 \/ slot[f] >= length[f]
        /\ GoTo(f, "truncate") /\ UNCHANGED <<gl, slot>>
     \/ /\ gl # 0 /\ slot[f] < length[f]
        /\ gl' = back
        /\ \/ back = 0 /\ GoTo(f, "truncate") /\ UNCHANGED slot
           \/ back # 0 /\ GoTo(f, "copy") /\ UNCHANGED slot
  /\ UNCHANGED <<offset, data, length, result, list, last, input>>

(* One round of the loop over the slots, up to the copying: gl goes back   *)
(* to the first thumbnail that does not lie before the slot.               *)
VisitSlot(f) ==
  LET behind == {i \in 1 .. gl : offset[list[i]] >= slot[f]}
      back   == IF behind = {} THEN 0 ELSE Max(behind)
  IN
  /\ At(f, "slot")
  /\ \/ /\ gl = 0 \/ slot[f] >= length[f]
        /\ GoTo(f, "truncate") /\ UNCHANGED <<gl, slot>>
     \/ /\ gl # 0 /\ slot[f] < length[f]
        /\ gl' = back
        /\ \/ back = 0 /\ GoTo(f, "truncate") /\ UNCHANGED slot
           \/ back # 0 /\ offset[list[back]] = slot[f]
              /\ slot' = [slot EXCEPT ![f] = @ + Size] /\ UNCHANGED pc
           \/ back # 0 /\ offset[list[back]] > slot[f]
              /\ GoTo(f, "copy") /\ UNCHANGED slot
  /\ UNCHANGED <<offset, data, length, result, list, last, input>>

(* The cells of a picture, read at one place and written at another.       *)
Copied(cells, from, to) ==
  [s \in DOMAIN cells |-> IF s \in to .. to + Size - 1 THEN cells[s - to + from]
                         ELSE cells[s]]

(* Mutant: the file is not positioned before reading.                      *)
CopyLastUnpositioned(f) ==
  LET from == offset[Head(list)] IN
  /\ At(f, "copy")
  /\ \/ /\ last' = [last EXCEPT ![f] = from]
        /\ data' = [data EXCEPT ![f] = Copied(@, slot[f], slot[f])]
        /\ GoTo(f, "move")
        /\ UNCHANGED <<offset, length, result, list, gl, slot, input>>
     \/ Fails("read") /\ Fail(f) /\ UNCHANGED data

(* The picture of the first thumbnail of the list is read and written.     *)
CopyLast(f) ==
  LET from == offset[Head(list)] IN
  /\ At(f, "copy")
  /\ \/ /\ last' = [last EXCEPT ![f] = from]
        /\ data' = [data EXCEPT ![f] = Copied(@, from, slot[f])]
        /\ GoTo(f, "move")
        /\ UNCHANGED <<offset, length, result, list, gl, slot, input>>
     \/ Fails("read") /\ Fail(f) /\ UNCHANGED data
     \/ Fails("write") /\ Fail(f)
        /\ data' = [data EXCEPT ![f][slot[f]] = Garbage]

(* Mutant: the thumbnail moves to its new place before it gets its offset. *)
MoveFirstUnset(f) ==
  LET first == Head(list) IN
  /\ At(f, "move") /\ offset[first] = last[f]
  /\ \/ gl # 1
        /\ list' = SubSeq(list, 2, gl) \o <<first>> \o SubSeq(list, gl + 1, Len(list))
        /\ gl' = gl - 1
        /\ UNCHANGED offset
     \/ gl = 1 /\ UNCHANGED <<list, gl, offset>>
  /\ UNCHANGED <<data, length, result, slot, last, pc, input>>

(* One round of the loop that gives the thumbnails at the beginning of the *)
(* list the new offset.  They go behind gl, unless gl is the first itself. *)
MoveFirst(f) ==
  LET first == Head(list) IN
  /\ At(f, "move") /\ offset[first] = last[f]
  /\ offset' = [offset EXCEPT ![first] = slot[f]]
  /\ \/ gl # 1
        /\ list' = SubSeq(list, 2, gl) \o <<first>> \o SubSeq(list, gl + 1, Len(list))
        /\ gl' = gl - 1
     \/ gl = 1 /\ UNCHANGED <<list, gl>>
  /\ UNCHANGED <<data, length, result, slot, last, pc, input>>

MoveDone(f) ==
  /\ At(f, "move") /\ offset[Head(list)] # last[f]
  /\ slot' = [slot EXCEPT ![f] = @ + Size] /\ GoTo(f, "slot")
  /\ UNCHANGED <<offset, data, length, result, list, gl, last, input>>

Cut(cells, n) == [s \in 0 .. n - 1 |-> cells[s]]

(* Mutant: the file is not cut off.                                        *)
TruncateFileNever(f) ==
  /\ At(f, "truncate")
  /\ GoTo(f, "done")
  /\ list' = <<>> /\ gl' = 0
  /\ UNCHANGED <<offset, data, length, result, slot, last, input>>

TruncateFile(f) ==
  /\ At(f, "truncate")
  /\ \/ /\ length' = [length EXCEPT ![f] = slot[f]]
        /\ data' = [data EXCEPT ![f] = Cut(@, slot[f])]
        /\ GoTo(f, "done")
        /\ list' = <<>> /\ gl' = 0
        /\ UNCHANGED <<offset, result, slot, last, input>>
     \/ Fails("truncate") /\ Fail(f) /\ UNCHANGED data

Finished == \A f \in File : At(f, "done") \/ At(f, "failed") \/ length[f] = 0

Step ==
  \E f \in File :
    \/ SkipFile(f) \/ RemoveUnused(f) \/ RefuseFile(f) \/ OpenFile(f)
    \/ VisitSlot(f) \/ CopyLast(f) \/ MoveFirst(f) \/ MoveDone(f)
    \/ TruncateFile(f)

Next == Step \/ (Finished /\ UNCHANGED vars)

(* The function is called once and runs until it returns.                  *)
Spec == Init /\ [][Next]_vars /\ WF_vars(Step)

-----------------------------------------------------------------------------
(* The work on a file, whatever happens to the other files and wherever an *)
(* error ends it, is a behaviour of IthmbSlots: the walk over the sorted   *)
(* list finds every free slot and every thumbnail of the last slot.  What  *)
(* is in a slot are the Size cells of a picture.                           *)
Number(place) == place \div Size
Content(cells, place) == [i \in 0 .. Size - 1 |-> cells[place + i]]
Original(t) == [i \in 0 .. Size - 1 |-> <<pictured[t][1], pictured[t][2] + i>>]

Slots(f) ==
  INSTANCE IthmbSlots WITH
    Picture  <- [0 .. Size - 1 -> Picture],
    thumbs   <- ThumbsIn(f),
    data     <- [n \in 0 .. Number(length[f]) - 1 |-> Content(data[f], n * Size)],
    length   <- Number(length[f]),
    offset   <- [t \in ThumbsIn(f) |-> Number(offset[t])],
    pictured <- [t \in ThumbsIn(f) |-> Original(t)],
    slot     <- Number(slot[f]),
    last     <- Number(last[f]),
    state    <- CASE pc[f] = "move"   -> "relink"
                  [] pc[f] = "done"   -> "done"
                  [] pc[f] = "failed" -> "stopped"
                  [] OTHER            -> "scan"
ImplementsSlots ==
  /\ \A f \in File : Slots(f)!Init
  /\ [][\A f \in File : [Slots(f)!Next]_(Slots(f)!vars)]_vars

(* At every moment, also between the moves and after an error, a thumbnail *)
(* in memory refers to its own picture inside its file.                    *)
PicturesKept ==
  \A t \in Thumb : fileOf[t] # NoFile =>
    /\ offset[t] + Size <= length[fileOf[t]]
    /\ Content(data[fileOf[t]], offset[t]) = Original(t)

(* When all went well every file is exactly as long as its thumbnails      *)
(* need, whatever was removed from it.                                     *)
NoSlotWasted ==
  \A f \in File :
    pc[f] = "done" => UsedIn(f) = {s \in 0 .. length[f] - 1 : s % Size = 0}

(* A file that was rearranged has its pictures where PackedSlot says, the  *)
(* last ones in the first unused slots: writing ArtworkDB relies on it.    *)
PackedFromTheEnd ==
  \A f \in File, t \in Thumb : pc[f] = "done" /\ fileOf[t] = f =>
    offset[t] = Stride * PackedSlot({pictured[u][2] \div Stride : u \in ThumbsIn(f)},
                                    pictured[t][2] \div Stride)

(* ithmb_rearrange_thumbnail_file() ends with a file that is as long as    *)
(* its pictures need and in the order the next write expects.              *)
FilesPacked == TypeOK /\ NoSlotWasted /\ PackedFromTheEnd

(* The loops end: each file is rearranged, or the first error ends it.     *)
RearrangeEnds == <>Finished
=============================================================================
