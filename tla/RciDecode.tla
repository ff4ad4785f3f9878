----------------------------- MODULE RciDecode -----------------------------
(***************************************************************************)
(* Decoding of a JSON reply: decode_json_response of src/client.rs.  A     *)
(* reply may report router errors anywhere in it; a scan of the bytes      *)
(* (needs_rci_inspection) decides whether to look for them at all.         *)
(*                                                                         *)
(* The words "status" and "error" are two letters long here, and an escape *)
(* \uXXXX is one symbol of the text; other escapes are a backslash and a   *)
(* symbol.  The reply is composed from its parts, the innermost first, and *)
(* each is kept as its text and what the code can find in it.              *)
(***************************************************************************)
EXTENDS Naturals, Sequences

CONSTANTS
  Chars,     \* the characters of strings
  Names,     \* the names of members, as they are written between quotes
  Texts,     \* the other strings
  MaxSteps   \* bound: in how many steps a reply is composed

VARIABLES
  parts,     \* the values composed so far that no other holds yet
  steps,
  reported,  \* whether an error object was put into a list named "status"
  reply      \* whether the text is whole and fits the type asked for, and the
             \* result of decode_json_response

vars == <<parts, steps, reported, reply>>

Letter(form, char) == [form |-> form, char |-> char]
Quote == Letter("quote", "none")
Backslash == Letter("backslash", "none")
Mark == Letter("mark", "none")   \* of punctuation
Symbols == [form : {"raw", "unicode"}, char : Chars] \cup {Quote, Backslash, Mark}

ASSUME StringsAssumption == Names \subseteq Seq(Symbols) /\ Texts \subseteq Seq(Symbols)
ASSUME MaxStepsAssumption == MaxSteps \in Nat

Status == <<"s", "t">>
Error == <<"e", "r">>

Spelled(written) == [i \in DOMAIN written |-> written[i].char]
Spells(written, word) ==
  /\ Spelled(written) = word
  /\ \A i \in DOMAIN written : written[i].form \in {"raw", "unicode"}

-----------------------------------------------------------------------------
(* needs_rci_inspection *)

JsonStringMatches(bytes, quote, expected) ==   \* after the quote
  /\ quote + Len(expected) < Len(bytes)
  /\ \A k \in DOMAIN expected :
       /\ bytes[quote + k].form \in {"raw", "unicode"}
       /\ bytes[quote + k].char = expected[k]
  /\ bytes[quote + Len(expected) + 1] = Quote

ContainsLiteral(bytes, word) ==
  \E i \in DOMAIN bytes :
    /\ bytes[i] = Quote /\ i + Len(word) < Len(bytes)
    /\ \A k \in DOMAIN word : bytes[i + k] = Letter("raw", word[k])
    /\ bytes[i + Len(word) + 1] = Quote

(* Mutant: only the literal spelling is looked for. *)
ContainsJsonStringLiteral(bytes, expected) == ContainsLiteral(bytes, expected)

ContainsJsonString(bytes, expected) ==
  \/ ContainsLiteral(bytes, expected)
  \/ /\ \E i \in DOMAIN bytes : bytes[i].form \in {"backslash", "unicode"}
     /\ \E i \in DOMAIN bytes : bytes[i] = Quote /\ JsonStringMatches(bytes, i, expected)

NeedsRciInspection(bytes) ==
  ContainsJsonString(bytes, Status) /\ ContainsJsonString(bytes, Error)

-----------------------------------------------------------------------------
(* collect_rci_errors.  A value of a reply is kept with what the recursion   *)
(* makes of it: whether an object is an error object, whether an array lists *)
(* one, and whether any entry is collected from a value and what it holds.   *)

Kinds == {"other", "string", "array", "object"}
Part ==
  [kind : Kinds, text : Seq(Symbols), written : Seq(Symbols),
   names : SUBSET {Spelled(n) : n \in Names}, error : BOOLEAN, lists : BOOLEAN,
   collected : BOOLEAN]

Plain(kind, text) ==
  [kind |-> kind, text |-> text, written |-> <<>>, names |-> {},
   error |-> FALSE, lists |-> FALSE, collected |-> FALSE]

StringText(written) == <<Quote>> \o written \o <<Quote>>
String(written) == [Plain("string", StringText(written)) EXCEPT !.written = written]
Null == Plain("other", <<Mark>>)   \* a number and a Boolean alike
EmptyArray == Plain("array", <<Mark, Mark>>)
EmptyObject == Plain("object", <<Mark, Mark>>)

IsError(name, v) == Spells(name, Status) /\ v.kind = "string" /\ Spells(v.written, Error)

CollectRciErrors(name, v) ==
  (Spells(name, Status) /\ v.kind = "array" /\ v.lists) \/ v.collected

WithItem(array, v) ==
  [array EXCEPT !.text = @ \o v.text \o <<Mark>>,
                !.lists = @ \/ v.error, !.collected = @ \/ v.collected]

WithMember(object, name, v) ==
  [object EXCEPT !.text = @ \o StringText(name) \o <<Mark>> \o v.text \o <<Mark>>,
                 !.names = @ \cup {Spelled(name)},
                 !.error = @ \/ IsError(name, v),
                 !.collected = @ \/ CollectRciErrors(name, v)]

-----------------------------------------------------------------------------
(* decode_json_response: what may come of a reply on either path.  On the    *)
(* typed path a text may be found not to fit before its end is reached.      *)

Inspected(v, shape, fits) ==
  IF shape # "whole" THEN {"ResponseJson"}
  ELSE IF v.collected THEN {"Rci"}
  ELSE IF fits THEN {"Ok"} ELSE {"ResponseDeserialization"}

Typed(shape, fits) ==
  (IF fits THEN {} ELSE {"ResponseDeserialization"})
  \cup (IF shape = "whole" THEN {} ELSE {"ResponseJson"})
  \cup (IF fits /\ shape = "whole" THEN {"Ok"} ELSE {})

(* The scan of a text that is not whole may find more, or less, than v says. *)
Decode(v, shape, fits) ==
  IF shape # "whole" THEN Inspected(v, shape, fits) \cup Typed(shape, fits)
  ELSE IF NeedsRciInspection(v.text) THEN Inspected(v, shape, fits) ELSE Typed(shape, fits)

-----------------------------------------------------------------------------
Init ==
  /\ parts = <<>> /\ steps = 0 /\ reported = FALSE
  /\ reply = [shape |-> "whole", fits |-> TRUE, result |-> "none"]

Last == parts[Len(parts)]
Previous == parts[Len(parts) - 1]
Without(n) == SubSeq(parts, 1, Len(parts) - n)

(* As many steps are left as it takes to put the parts together. *)
Compose(others, v) ==
  /\ reply.result = "none" /\ steps + Len(others) < MaxSteps
  /\ parts' = Append(others, v) /\ steps' = steps + 1
  /\ UNCHANGED reply

(* The router names no two members of an object alike. *)
NewName(object, name) == object.kind = "object" /\ Spelled(name) \notin object.names

Begin ==
  /\ Len(parts) > 0 => Last.kind = "array" \/ \E name \in Names : NewName(Last, name)
  /\ \E v \in {Null, EmptyArray, EmptyObject} \cup {String(t) : t \in Texts} : Compose(parts, v)
  /\ UNCHANGED reported

AddItem ==
  /\ \/ Len(parts) > 0 /\ Compose(Without(1), WithItem(EmptyArray, Last))
     \/ /\ Len(parts) > 1 /\ Previous.kind = "array"
        /\ Compose(Without(2), WithItem(Previous, Last))
  /\ UNCHANGED reported

AddMember ==
  \E name \in Names :
    /\ \/ Len(parts) > 0 /\ Compose(Without(1), WithMember(EmptyObject, name, Last))
       \/ /\ Len(parts) > 1 /\ NewName(Previous, name)
          /\ Compose(Without(2), WithMember(Previous, name, Last))
    /\ reported' = (reported \/ (Spells(name, Status) /\ Last.lists))

DecodeJsonResponse ==
  /\ reply.result = "none" /\ Len(parts) = 1
  /\ \E shape \in {"whole", "cut", "trailed"}, fits \in BOOLEAN :
       \E result \in Decode(Last, shape, fits) :
         reply' = [shape |-> shape, fits |-> fits, result |-> result]
  /\ UNCHANGED <<parts, steps, reported>>

Decoded == reply.result # "none" /\ UNCHANGED vars

Next == Begin \/ AddItem \/ AddMember \/ DecodeJsonResponse \/ Decoded

Spec == Init /\ [][Next]_vars

-----------------------------------------------------------------------------
(* Properties *)

(* A whole reply is judged by what it says, never by how it is spelled or    *)
(* whether the scan chose the typed path: an error of the router, however    *)
(* deep, wins over a reply that fits the type and one that does not.         *)
JudgedByContent ==
  reply.result # "none" /\ reply.shape = "whole" =>
    reply.result = IF reported THEN "Rci"
                   ELSE IF reply.fits THEN "Ok" ELSE "ResponseDeserialization"
=============================================================================
