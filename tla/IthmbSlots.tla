----------------------------- MODULE IthmbSlots -----------------------------
(***************************************************************************)
(* What rearranging one thumbnail file promises, without the list that     *)
(* ithumb_rearrange_thumbnail_file() walks: the slots of the file are      *)
(* visited from the first, a slot no thumbnail uses is filled from the     *)
(* last slot in use, and the file is cut off behind the last visited slot. *)
(* The work may stop at any place with an error.                           *)
(***************************************************************************)
EXTENDS Naturals

CONSTANTS Thumb, Picture

VARIABLES
  thumbs,    \* the thumbnails that are in this file
  data,      \* slot -> the picture stored there
  length,    \* the length of the file in slots
  offset,    \* thumbnail -> the slot it refers to
  slot,      \* the slot that is visited
  last,      \* the slot that was copied
  state,
  pictured   \* thumbnail -> the picture it stands for (history)

vars == <<thumbs, data, length, offset, slot, last, state, pictured>>

Used == {offset[t] : t \in thumbs}

TypeOK ==
  /\ thumbs \subseteq Thumb
  /\ length \in Nat
  /\ data \in [0 .. length - 1 -> Picture]
  /\ offset \in [thumbs -> Nat]
  /\ slot \in Nat /\ last \in Nat
  /\ state \in {"scan", "relink", "done", "stopped"}
  /\ pictured \in [thumbs -> Picture]

Init ==
  /\ thumbs \subseteq Thumb
  /\ length \in Nat
  /\ data \in [0 .. length - 1 -> Picture]
  /\ offset \in [thumbs -> 0 .. length - 1]
  /\ pictured = [t \in thumbs |-> data[offset[t]]]
  /\ slot = 0 /\ last = 0
  /\ state = "scan"

-----------------------------------------------------------------------------
(* The slot is in use.                                                     *)
Keep ==
  /\ state = "scan" /\ slot < length /\ slot \in Used
  /\ slot' = slot + 1
  /\ UNCHANGED <<thumbs, data, length, offset, last, state, pictured>>

(* The slot is free: the last picture in use is copied into it, ...        *)
Copy ==
  /\ state = "scan" /\ slot < length /\ slot \notin Used
  /\ \E t \in thumbs :
       /\ slot < offset[t]
       /\ \A u \in thumbs : offset[u] <= offset[t]
       /\ last' = offset[t]
       /\ data' = [data EXCEPT ![slot] = data[offset[t]]]
  /\ state' = "relink"
  /\ UNCHANGED <<thumbs, length, offset, slot, pictured>>

(* ... every thumbnail that used it follows, one after the other, ...      *)
Relink(t) ==
  /\ state = "relink" /\ offset[t] = last
  /\ offset' = [offset EXCEPT ![t] = slot]
  /\ UNCHANGED <<thumbs, data, length, slot, last, state, pictured>>

(* ... and the next slot is visited when none is left.                     *)
Relinked ==
  /\ state = "relink" /\ last \notin Used
  /\ state' = "scan" /\ slot' = slot + 1
  /\ UNCHANGED <<thumbs, data, length, offset, last, pictured>>

(* No thumbnail is left at or behind the slot.                             *)
Truncate ==
  /\ state = "scan"
  /\ \/ slot = length
     \/ slot < length /\ \A t \in thumbs : offset[t] < slot
  /\ length' = slot
  /\ data' = [s \in 0 .. slot - 1 |-> data[s]]
  /\ state' = "done"
  /\ UNCHANGED <<thumbs, offset, slot, last, pictured>>

(* A call fails.  A write that fails may leave anything in the free slot.  *)
Stop ==
  /\ state \in {"scan", "relink"}
  /\ \/ UNCHANGED data
     \/ /\ state = "scan" /\ slot < length /\ slot \notin Used
        /\ \E p \in Picture : data' = [data EXCEPT ![slot] = p]
  /\ state' = "stopped"
  /\ UNCHANGED <<thumbs, length, offset, slot, last, pictured>>

Next ==
  \/ Keep \/ Copy \/ Relinked \/ Truncate \/ Stop
  \/ \E t \in thumbs : Relink(t)

Spec == Init /\ [][Next]_vars

-----------------------------------------------------------------------------
(* Wherever the work is, and wherever it stopped, a thumbnail refers to a  *)
(* slot inside the file that holds its picture.                            *)
PicturesKept ==
  \A t \in thumbs : offset[t] < length /\ data[offset[t]] = pictured[t]

(* A file that was rearranged has no unused slot left.                     *)
NoSlotWasted == state = "done" => Used = 0 .. length - 1
=============================================================================
