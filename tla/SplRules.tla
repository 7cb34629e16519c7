------------------------------ MODULE SplRules ------------------------------
(***************************************************************************)
(* What a rule of a smart playlist says of a track: itdb_splr_eval.        *)
(*                                                                         *)
(* A rule compares one field of the track, in the way of the field's type, *)
(* with the values it holds.  A text is a sequence of letters, the flags   *)
(* of a media type are a set, a date is a clock reading.                   *)
(***************************************************************************)
EXTENDS Integers, Sequences

CONSTANT NoText     \* the NULL string

-----------------------------------------------------------------------------
(* One field or two of each type; the others of a type are alike.  The     *)
(* fields of the last line have a type and no case in itdb_splr_eval.      *)
Field == {"title", "playcount", "size", "compilation", "time_played",
          "playlist", "mediatype", "podcast", "purchase", "sort_title"}

FieldType(field) ==
  CASE field \in {"title", "sort_title"} -> "string"
    [] field \in {"playcount", "size", "podcast"} -> "int"
    [] field \in {"compilation", "purchase"} -> "boolean"
    [] field = "time_played" -> "date"
    [] field = "playlist" -> "playlist"
    [] field = "mediatype" -> "binary_and"

(* The fields of an SPLRule that say what it asks for.                     *)
Operands == {"field", "action", "string", "from", "to", "fromdate", "mask"}

Handled(field) == field \notin {"podcast", "purchase", "sort_title"}

-----------------------------------------------------------------------------
HasPart(text, part) ==
  \E i \in 0 .. Len(text) - Len(part) : SubSeq(text, i + 1, i + Len(part)) = part
StartsWith(text, part) ==
  Len(part) <= Len(text) /\ SubSeq(text, 1, Len(part)) = part
EndsWith(text, part) ==
  /\ Len(part) <= Len(text)
  /\ SubSeq(text, Len(text) - Len(part) + 1, Len(text)) = part

TextMatches(rule, text) ==
  /\ text # NoText /\ rule.string # NoText
  /\ \/ rule.action = "is_string" /\ text = rule.string
     \/ rule.action = "is_not" /\ text # rule.string
     \/ rule.action = "contains" /\ HasPart(text, rule.string)
     \/ rule.action = "does_not_contain" /\ ~HasPart(text, rule.string)
     \/ rule.action = "starts_with" /\ StartsWith(text, rule.string)
     \/ rule.action = "does_not_start_with" /\ ~StartsWith(text, rule.string)
     \/ rule.action = "ends_with" /\ EndsWith(text, rule.string)
     \/ rule.action = "does_not_end_with" /\ ~EndsWith(text, rule.string)

(* A bug: outside of a range that is given from its lower end only.        *)
OutsideAscendingRange(n, from, to) == n < from \/ n > to

(* The two ends of a range come in either order.                           *)
InRange(n, from, to) == (n <= from /\ n >= to) \/ (n >= from /\ n <= to)
OutsideRange(n, from, to) == (n < from /\ n < to) \/ (n > from /\ n > to)

(* Integers know four comparisons, of the six that                         *)
(* itdb_splr_get_action_type has for them: "not greater" and "not less"    *)
(* are true of nothing.                                                    *)
IntMatches(rule, n) ==
  \/ rule.action = "is_int" /\ n = rule.from
  \/ rule.action = "is_not_int" /\ n # rule.from
  \/ rule.action = "is_greater_than" /\ n > rule.from
  \/ rule.action = "is_less_than" /\ n < rule.from
  \/ rule.action = "is_in_the_range" /\ InRange(n, rule.from, rule.to)
  \/ rule.action = "is_not_in_the_range" /\ OutsideRange(n, rule.from, rule.to)

(* fromdate counts units before now, so it is negative.                    *)
DateMatches(rule, date, now) ==
  \/ IntMatches(rule, date)
  \/ rule.action = "is_not_greater_than" /\ date <= rule.from
  \/ rule.action = "is_not_less_than" /\ date >= rule.from
  \/ rule.action = "is_in_the_last" /\ date > now + rule.fromdate
  \/ rule.action = "is_not_in_the_last" /\ date <= now + rule.fromdate

FlagMatches(rule, set) ==
  \/ rule.action = "is_int" /\ set
  \/ rule.action = "is_not_int" /\ ~set

MaskMatches(rule, flags) ==
  \/ rule.action = "binary_and" /\ flags \cap rule.mask # {}
  \/ rule.action = "not_binary_and" /\ flags \cap rule.mask = {}

-----------------------------------------------------------------------------
(* The action that says the opposite, of a type that has both.             *)
Opposite == [is_string |-> "is_not", contains |-> "does_not_contain",
  starts_with |-> "does_not_start_with", ends_with |-> "does_not_end_with",
  is_int |-> "is_not_int", is_in_the_range |-> "is_not_in_the_range",
  is_in_the_last |-> "is_not_in_the_last", binary_and |-> "not_binary_and"]
=============================================================================
