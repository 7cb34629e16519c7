---------------------------- MODULE SmartPlaylist ----------------------------
(***************************************************************************)
(* Smart playlists: itdb_spl_update fills a playlist with the tracks that  *)
(* its rules match, up to a limit.  A rule may ask whether a track is a    *)
(* member of another playlist, a smart one too, so what an update finds    *)
(* depends on which playlists were updated before.                         *)
(*                                                                         *)
(* The application plays and checks tracks, edits the plain playlists and  *)
(* removes playlists; it leaves the members of smart ones to the library.  *)
(***************************************************************************)
EXTENDS SplRules, FiniteSets, GList

CONSTANTS
  Library,         \* itdb->tracks
  Title, Size, Compilation, MediaType,   \* track -> field that stays as it is
  Playlist,
  Setups,          \* the choices of smart playlists, playlist -> preferences
  Rules,           \* the rules whose opposites are looked at
  Plain,           \* the preferences of a playlist that is not smart
  MaxPlays, MaxNow, MaxEdits             \* bounds (model only)

Track == ToSet(Library)

(* A few of the sorts; the others of ItdbLimitSort are alike.              *)
LimitSort == {"random", "most_often_played", "least_often_played",
              "most_recently_played", "least_recently_played"}

ASSUME SmartAssumption ==
  /\ Library \in Seq(Track) /\ IsInjective(Library)
  /\ Size \in [Track -> Nat]
  /\ Compilation \in [Track -> BOOLEAN]
  /\ MaxPlays \in Nat /\ MaxNow \in Nat \ {0} /\ MaxEdits \in Nat
  /\ DOMAIN Title = Track /\ DOMAIN MediaType = Track
  /\ IsFiniteSet(Playlist)
  /\ \A s \in Setups : DOMAIN s = Playlist
  /\ \A s \in Setups : \A p \in Playlist :
       s[p] # Plain =>
         /\ s[p].limitvalue \in Nat /\ s[p].limitsort \in LimitSort
         /\ \A r \in s[p].rules : r.field \in Field
  /\ \A r \in Rules : Operands \subseteq DOMAIN r /\ r.field \in Field

VARIABLES
  playcount, time_played, checked,     \* track -> field
  now,                                 \* the clock
  playlists,                           \* itdb->playlists
  prefs,                               \* playlist -> splpref and splrules
  members,                             \* playlist -> pl->members
  passes,     \* updates of all playlists since anything else happened (history)
  edits                                \* bounds the application (model only)

vars == <<playcount, time_played, checked, now, playlists, prefs, members,
          passes, edits>>
tracks == <<playcount, time_played, checked, now>>

Smart(p) == prefs[p] # Plain
MaxPasses == Cardinality(Playlist)

TypeOK ==
  /\ playcount \in [Track -> 0 .. MaxPlays]
  /\ time_played \in [Track -> 0 .. MaxNow]
  /\ checked \in [Track -> BOOLEAN]
  /\ now \in 1 .. MaxNow
  /\ ToSet(playlists) \subseteq Playlist
  /\ prefs \in Setups
  /\ DOMAIN members = Playlist
  /\ \A p \in Playlist : IsInjective(members[p]) /\ ToSet(members[p]) \subseteq Track
  /\ passes \in 0 .. MaxPasses /\ edits \in 0 .. MaxEdits

Orders(S) == {s \in [1 .. Cardinality(S) -> S] : IsInjective(s)}

(* Playlists in any order, no smart one filled yet.                        *)
Init ==
  /\ playcount = [t \in Track |-> 0] /\ time_played = [t \in Track |-> 0]
  /\ checked = [t \in Track |-> TRUE]
  /\ now = 1
  /\ playlists \in Orders(Playlist)
  /\ prefs \in Setups
  /\ members = [p \in Playlist |-> <<>>]
  /\ passes = 0 /\ edits = 0

-----------------------------------------------------------------------------
(* itdb_splr_eval, when the playlists have the members mem.  A playlist    *)
(* that is not there matches nothing, nor does its opposite.               *)
PlaylistMatches(rule, t, mem) ==
  /\ rule.from \in ToSet(playlists)
  /\ \/ rule.action = "is_int" /\ t \in ToSet(mem[rule.from])
     \/ rule.action = "is_not_int" /\ t \notin ToSet(mem[rule.from])

Eval(rule, t, mem) ==
  /\ Handled(rule.field)
  /\ LET type == FieldType(rule.field)
     IN  \/ type = "string" /\ TextMatches(rule, Title[t])
         \/ type = "int"
              /\ IntMatches(rule, IF rule.field = "size" THEN Size[t] ELSE playcount[t])
         \/ type = "date" /\ DateMatches(rule, time_played[t], now)
         \/ type = "boolean" /\ FlagMatches(rule, Compilation[t])
         \/ type = "binary_and" /\ MaskMatches(rule, MediaType[t])
         \/ type = "playlist" /\ PlaylistMatches(rule, t, mem)

(* checked is 0 for a track that has its check mark.                       *)
Matches(p, t, mem) ==
  LET pref == prefs[p]
  IN  /\ pref.matchcheckedonly => checked[t]
      /\ \/ ~pref.checkrules
         \/ pref.rules = {}
         \/ pref.match = "and" /\ \A r \in pref.rules : Eval(r, t, mem)
         \/ pref.match = "or" /\ \E r \in pref.rules : Eval(r, t, mem)

-----------------------------------------------------------------------------
(* The limit.  A sort goes by a key and keeps the order of the library     *)
(* among equals; luck is the order that "random" happens to make.          *)
Key(sort, t) ==
  LET key == IF sort \in {"most_often_played", "least_often_played"}
             THEN playcount[t] ELSE time_played[t]
  IN  IF sort \in {"most_often_played", "most_recently_played"} THEN -key ELSE key

Place(t) == CHOOSE i \in DOMAIN Library : Library[i] = t
Before(sort, t, u) ==
  \/ Key(sort, t) < Key(sort, u)
  \/ Key(sort, t) = Key(sort, u) /\ Place(t) < Place(u)

LimitSorted(p, S, luck) ==
  IF prefs[p].limitsort = "random" THEN Only(luck[p], S)
  ELSE [i \in 1 .. Cardinality(S) |-> CHOOSE t \in S :
          Cardinality({u \in S : Before(prefs[p].limitsort, u, t)}) = i - 1]

(* What a track counts for the limit.                                      *)
Value(pref, t) == IF pref.limittype = "songs" THEN 1 ELSE Size[t]

(* Bugs: the loop that only looks whether the limit is reached, the one    *)
(* that ends at the first track that does not fit.                         *)
TakeUntilReached(pref, sofar, t) ==
  IF sofar.total < pref.limitvalue
  THEN [total |-> sofar.total + Value(pref, t), taken |-> Append(sofar.taken, t)]
  ELSE sofar

TakeWhileFits(pref, sofar, t) ==
  IF sofar.total + Value(pref, t) <= pref.limitvalue
  THEN [total |-> sofar.total + Value(pref, t), taken |-> Append(sofar.taken, t)]
  ELSE [sofar EXCEPT !.total = pref.limitvalue + 1]

(* One turn of the loop that takes tracks: none once the limit is reached, *)
(* and a track that would pass it is left for the next.                    *)
Take(pref, sofar, t) ==
  IF /\ sofar.total < pref.limitvalue
     /\ sofar.total + Value(pref, t) <= pref.limitvalue
  THEN [total |-> sofar.total + Value(pref, t), taken |-> Append(sofar.taken, t)]
  ELSE sofar

Limited(pref, list) ==
  LET after[n \in 0 .. Len(list)] ==
        IF n = 0 THEN [total |-> 0, taken |-> <<>>] ELSE Take(pref, after[n - 1], list[n])
  IN  after[Len(list)].taken

Filled(p, S, luck) ==
  IF prefs[p].checklimits THEN Limited(prefs[p], LimitSorted(p, S, luck))
  ELSE Only(Library, S)

(* The tracks that match, which is asked when the playlist is cleared.     *)
Selection(p, mem) == {t \in Track : Matches(p, t, [mem EXCEPT ![p] = <<>>])}

(* Mutant: nothing selected, nothing done.                                 *)
RefilledIfAny(p, mem, luck) ==
  IF Selection(p, mem) = {} THEN mem[p] ELSE Filled(p, Selection(p, mem), luck)
(* itdb_spl_update.                                                        *)
Refilled(p, mem, luck) == Filled(p, Selection(p, mem), luck)

(* A bug: every playlist is asked as it was before.                        *)
UpdatedAtOnce(list, luck) ==
  [p \in Playlist |-> IF p \in ToSet(list) THEN Refilled(p, members, luck)
                      ELSE members[p]]

Updated(p, mem, luck) == [mem EXCEPT ![p] = Refilled(p, mem, luck)]

(* Playlists are updated one after the other, each with the members that   *)
(* those before it have by then.                                           *)
UpdatedAll(list, luck) ==
  LET after[n \in 0 .. Len(list)] ==
        IF n = 0 THEN members ELSE Updated(list[n], after[n - 1], luck)
  IN  after[Len(list)]

AtRandom == {p \in Playlist :
  Smart(p) /\ prefs[p].checklimits /\ prefs[p].limitsort = "random"}
Shuffles == Orders(Track)
Luck == [AtRandom -> Shuffles]

-----------------------------------------------------------------------------
Update(p) ==
  /\ p \in ToSet(playlists) /\ Smart(p)
  /\ passes' = 0
  /\ UNCHANGED <<tracks, playlists, prefs, edits>>
  /\ members' \in {UpdatedAll(<<p>>, luck) : luck \in Luck}

UpdateAll ==
  /\ members' \in {UpdatedAll(Only(playlists, {p \in Playlist : Smart(p)}), luck) : luck \in Luck}
  /\ passes' = IF passes < MaxPasses THEN passes + 1 ELSE passes
  /\ UNCHANGED <<tracks, playlists, prefs, edits>>

UpdateLive ==
  /\ LET live == Only(playlists, {p \in Playlist : Smart(p) /\ prefs[p].liveupdate})
     IN  members' \in {UpdatedAll(live, luck) : luck \in Luck}
  /\ passes' = 0
  /\ UNCHANGED <<tracks, playlists, prefs, edits>>

(* itdb_playlist_randomize.                                                *)
Randomize(p) ==
  /\ p \in ToSet(playlists)
  /\ \E list \in Orders(ToSet(members[p])) : members' = [members EXCEPT ![p] = list]
  /\ UNCHANGED <<tracks, playlists, prefs>>

-----------------------------------------------------------------------------
(* The application.                                                        *)
Play(t) ==
  /\ playcount[t] < MaxPlays
  /\ playcount' = [playcount EXCEPT ![t] = @ + 1]
  /\ time_played' = [time_played EXCEPT ![t] = now]
  /\ UNCHANGED <<checked, now, playlists, prefs, members>>

Check(t) ==
  /\ checked' = [checked EXCEPT ![t] = ~@]
  /\ UNCHANGED <<playcount, time_played, now, playlists, prefs, members>>

Tick ==
  /\ now < MaxNow
  /\ now' = now + 1
  /\ UNCHANGED <<playcount, time_played, checked, playlists, prefs, members>>

AddTrack(p, t) ==
  /\ ~Smart(p) /\ p \in ToSet(playlists) /\ t \notin ToSet(members[p])
  /\ members' = [members EXCEPT ![p] = Append(@, t)]
  /\ UNCHANGED <<tracks, playlists, prefs>>

RemoveTrack(p, t) ==
  /\ ~Smart(p) /\ t \in ToSet(members[p])
  /\ members' = [members EXCEPT ![p] = GListRemove(@, t)]
  /\ UNCHANGED <<tracks, playlists, prefs>>

RemovePlaylist(p) ==
  /\ p \in ToSet(playlists)
  /\ playlists' = GListRemove(playlists, p)
  /\ members' = [members EXCEPT ![p] = <<>>]
  /\ UNCHANGED <<tracks, prefs>>

Edit ==
  /\ edits < MaxEdits /\ edits' = edits + 1 /\ passes' = 0
  /\ \/ \E t \in Track : Play(t)
     \/ \E t \in Track : Check(t)
     \/ Tick
     \/ \E p \in Playlist, t \in Track : AddTrack(p, t)
     \/ \E p \in Playlist, t \in Track : RemoveTrack(p, t)
     \/ \E p \in Playlist : RemovePlaylist(p)
     \/ \E p \in Playlist : Randomize(p)

Next ==
  \/ Edit
  \/ \E p \in Playlist : Update(p)
  \/ UpdateAll
  \/ UpdateLive

Spec == Init /\ [][Next]_vars

-----------------------------------------------------------------------------
(* What a smart playlist should hold, said without the loop.               *)
Total(pref, S) ==
  LET sum[n \in 0 .. Len(Library)] ==
        IF n = 0 THEN 0
        ELSE IF Library[n] \in S THEN sum[n - 1] + Value(pref, Library[n]) ELSE sum[n - 1]
  IN  sum[Len(Library)]

Selected(p) == {t \in Track : Matches(p, t, members)}

(* t finds no room beside those of S: it would pass the limit, or the      *)
(* limit is reached (and t counts nothing).                                *)
NoRoom(pref, t, S) ==
  \/ Total(pref, S) = pref.limitvalue
  \/ Total(pref, S) + Value(pref, t) > pref.limitvalue

(* Members match; without a limit they are all that match, in the order of *)
(* the library; with one, a track is left out only if those that go before *)
(* it leave no room, and members are in the order of the limit.            *)
UpToDate(p) ==
  LET pref == prefs[p]
      list == members[p]
      mine == ToSet(list)
  IN  /\ mine \subseteq Selected(p)
      /\ pref.checklimits =>
           \A t \in Selected(p) \ mine :
             NoRoom(pref, t, IF p \in AtRandom THEN mine
                          ELSE {u \in mine : Before(pref.limitsort, u, t)})
      /\ ~pref.checklimits => mine = Selected(p)
      /\ \A i, j \in DOMAIN list :
           (i < j /\ p \notin AtRandom) =>
             IF pref.checklimits THEN Before(pref.limitsort, list[i], list[j])
             ELSE Place(list[i]) < Place(list[j])

(* The playlists that p's rules name and that exist.                       *)
Names(p) ==
  IF Smart(p) /\ prefs[p].checkrules
  THEN {r.from : r \in {q \in prefs[p].rules : q.field = "playlist"}} \cap ToSet(playlists)
  ELSE {}

Rank(p) == CHOOSE i \in DOMAIN playlists : playlists[i] = p

(* No chain of rules leads back to a playlist: the smart playlists can be  *)
(* put into an order where each names only those before it.                *)
Acyclic ==
  \E list \in Orders(ToSet(playlists)) :
    \A i \in DOMAIN list : Names(list[i]) \subseteq {list[j] : j \in 1 .. i - 1}

(* The members of a smart playlist with a limit never sum up to more than  *)
(* the limit, whatever was updated or edited since (itdb_spl_update looks  *)
(* at the sum before it takes a track).                                    *)
WithinLimit ==
  \A p \in ToSet(playlists) :
    Smart(p) /\ prefs[p].checklimits =>
      Total(prefs[p], ToSet(members[p])) <= prefs[p].limitvalue

(* Whatever was updated, edited or removed, smart playlists hold tracks of *)
(* the database and stay within their limits (itdb_spl_update).            *)
MembersSound == TypeOK /\ WithinLimit

(* An update of one playlist leaves it as it should be, unless its rules   *)
(* name the playlist itself, whose members are cleared before they are     *)
(* asked for (itdb_spl_update).                                            *)
UpdateFills ==
  [][\A p \in Playlist : Update(p) /\ p \notin Names(p) => UpToDate(p)']_vars

(* itdb_spl_update_all goes through the playlists once: those whose rules  *)
(* name only playlists before them, or plain ones, are as they should be.  *)
OnePassFillsInOrder ==
  passes > 0 =>
    \A p \in ToSet(playlists) :
      (Smart(p) /\ \A q \in Names(p) : Smart(q) => Rank(q) < Rank(p)) => UpToDate(p)

(* When the rules do not go in a circle and nothing is random, updating    *)
(* all as often as there are playlists gets every one right, whatever      *)
(* their order (itdb_spl_update_all).                                      *)
PassesSettle ==
  (passes = MaxPasses /\ AtRandom = {} /\ Acyclic) =>
    \A p \in ToSet(playlists) : Smart(p) => UpToDate(p)

(* An action that goes with its field and has an opposite, with values     *)
(* that can be compared (itdb_splr_get_action_type).                       *)
Opposable(rule) ==
  LET type == FieldType(rule.field)
  IN  \/ type = "string" /\ rule.string # NoText
           /\ rule.action \in {"is_string", "contains", "starts_with", "ends_with"}
      \/ type \in {"int", "date", "boolean", "playlist"} /\ rule.action = "is_int"
      \/ type \in {"int", "date"} /\ rule.action = "is_in_the_range"
           /\ rule.from \in Int /\ rule.to \in Int
      \/ type = "date" /\ rule.action = "is_in_the_last" /\ rule.fromdate \in Int
      \/ type = "binary_and" /\ rule.action = "binary_and"

(* A rule and its opposite split the tracks, for the fields that           *)
(* itdb_splr_eval knows, except that a missing text and a missing playlist *)
(* match neither.                                                          *)
OppositesSplit ==
  \A rule \in Rules, t \in Track :
    (/\ Opposable(rule) /\ Handled(rule.field)
     /\ rule.field = "title" => Title[t] # NoText
     /\ rule.field = "playlist" => rule.from \in ToSet(playlists)) =>
      (Eval(rule, t, members)
         <=> ~Eval([rule EXCEPT !.action = Opposite[rule.action]], t, members))
=============================================================================
