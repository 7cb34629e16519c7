------------------------------- MODULE GList -------------------------------
(***************************************************************************)
(* The list functions of GLib as libgpod uses them for itdb->tracks,       *)
(* itdb->playlists and playlist->members: a GList is a sequence of         *)
(* pointers, compared by address.                                          *)
(***************************************************************************)
EXTENDS Naturals, Sequences, SequencesExt

(* g_list_find is not NULL.                                                *)
Listed(x, list) == \E i \in DOMAIN list : list[i] = x

(* g_list_insert puts the element in front of the one at a position, and   *)
(* appends for -1 or a position past the end: the places an element can    *)
(* end at are these.  InsertAt(list, place, x) is the insertion.           *)
Places(list) == 1 .. Len(list) + 1

(* g_list_remove unlinks the first link that holds x, if there is one.     *)
FirstPlace(x, list) ==
  CHOOSE i \in DOMAIN list : list[i] = x /\ \A j \in 1 .. i - 1 : list[j] # x

GListRemove(list, x) ==
  IF Listed(x, list) THEN RemoveAt(list, FirstPlace(x, list)) ELSE list

(* The elements that are in a set, or that are not, in the list's order:   *)
(* what is left when a link is taken out for each of the others.           *)
Only(list, S) ==
  LET only[n \in 0 .. Len(list)] ==
        IF n = 0 THEN <<>>
        ELSE IF list[n] \in S THEN Append(only[n - 1], list[n]) ELSE only[n - 1]
  IN only[Len(list)]
Without(list, gone) == Only(list, ToSet(list) \ gone)
=============================================================================
