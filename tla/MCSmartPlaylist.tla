--------------------------- MODULE MCSmartPlaylist ---------------------------
EXTENDS SmartPlaylist, TLC

CONSTANTS t1, t2, t3, plain, a, b

Playlists == {plain, a, b}
Tracks == <<t1, t2, t3>>
Titles == (t1 :> <<1, 2>>) @@ (t2 :> <<2>>) @@ (t3 :> NoText)
Sizes == (t1 :> 1) @@ (t2 :> 2) @@ (t3 :> 0)
Compilations == [t \in {t1, t2, t3} |-> t = t2]
MediaTypes == (t1 :> {"audio"}) @@ (t2 :> {"audio", "podcast"}) @@ (t3 :> {"movie"})

Prefs(match, rules) ==
  [liveupdate |-> TRUE, matchcheckedonly |-> FALSE, checkrules |-> TRUE,
   match |-> match, rules |-> rules, checklimits |-> FALSE, limittype |-> "mb",
   limitsort |-> "random", limitvalue |-> 0]
LimitedTo(pref, value, type, sort) ==
  [pref EXCEPT !.checklimits = TRUE, !.limitvalue = value, !.limittype = type,
               !.limitsort = sort]
All == [Prefs("and", {}) EXCEPT !.checkrules = FALSE]
CheckedOnly == [Prefs("and", {}) EXCEPT !.matchcheckedonly = TRUE, !.liveupdate = FALSE]

Rule(field, action) ==
  [field |-> field, action |-> action, string |-> NoText, from |-> 0, to |-> 0,
   fromdate |-> 0, mask |-> {}]
Number(field, action, from, to) ==
  [Rule(field, action) EXCEPT !.from = from, !.to = to]
Text(action, string) == [Rule("title", action) EXCEPT !.string = string]
In(p) == [Rule("playlist", "is_int") EXCEPT !.from = p]
NotIn(p) == [Rule("playlist", "is_not_int") EXCEPT !.from = p]
Lately == [Rule("time_played", "is_in_the_last") EXCEPT !.fromdate = -1]
Podcasts == [Rule("mediatype", "binary_and") EXCEPT !.mask = {"podcast"}]

Played == Number("playcount", "is_greater_than", 0, 0)
PlayedRange == Number("playcount", "is_in_the_range", 1, 0)
Large == Number("size", "is_in_the_range", 2, 1)
IsCompilation == Rule("compilation", "is_int")
Unhandled == Number("podcast", "is_int", 1, 1)

AllRules ==
  {Number("playcount", "is_in_the_range", from, to) : from, to \in 0 .. 1}
    \cup {Text("starts_with", <<1>>), Text("ends_with", <<2>>), Text("contains", <<1, 2>>),
          Text("is_string", <<2>>), In(a), In(plain), Lately, Podcasts, IsCompilation}

Lists(prefA, prefB) == (plain :> Plain) @@ (a :> prefA) @@ (b :> prefB)
AllSetups == {
  Lists(Prefs("or", {In(plain), Played}), Prefs("and", {NotIn(a), Large})),
  Lists(Prefs("and", {NotIn(b)}), LimitedTo(All, 2, "mb", "most_often_played")),
  Lists(LimitedTo(CheckedOnly, 2, "songs", "least_recently_played"),
        Prefs("and", {In(a), Lately})),
  Lists(LimitedTo(Prefs("or", {PlayedRange, Text("ends_with", <<2>>)}), 2, "mb", "random"),
        Prefs("and", {NotIn(a)})),
  Lists(Prefs("and", {In(b)}), Prefs("and", {NotIn(a)})),
  Lists(Prefs("and", {NotIn(a), Text("contains", <<2>>)}),
        LimitedTo(Prefs("and", {In(a), IsCompilation}), 0, "songs", "random")),
  Lists(LimitedTo(Prefs("and", {In(plain)}), 2, "mb", "least_often_played"),
        LimitedTo(Prefs("or", {NotIn(a), Podcasts, Unhandled}), 1, "songs",
                  "most_recently_played")) }
=============================================================================
