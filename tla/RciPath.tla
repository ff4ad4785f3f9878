------------------------------ MODULE RciPath ------------------------------
(***************************************************************************)
(* parse of src/path.rs: a caller's relative path is validated and put     *)
(* into its canonical spelling, which is then appended to /rci/ or /ci/.   *)
(*                                                                         *)
(* A path is a sequence of symbols, each a character spelled as it is or   *)
(* as %XX.  "ns" stands for the letters of the namespace, "a" for any      *)
(* other letter, "!" for the characters that are encoded though allowed,   *)
(* "?" for "#" as well.                                                    *)
(* A bare "%" is an escape without its digits; "invalid" an escape that is *)
(* not UTF-8.  "://" holds an empty segment and needs no case of its own.  *)
(***************************************************************************)
EXTENDS Naturals, Sequences

CONSTANT MaxLength   \* bound: symbols of a path

ASSUME MaxLengthAssumption == MaxLength \in Nat

VARIABLES
  value,   \* the path given
  result   \* "none", "accepted" or "refused"

vars == <<value, result>>

Chars == {"a", ".", "/", "\\", "%", "?", "!", "ns", "control"}
Symbol(char, escaped) == [char |-> char, escaped |-> escaped]
Symbols == [char: Chars, escaped: BOOLEAN] \cup {Symbol("invalid", TRUE)}
Slash == Symbol("/", FALSE)

(* SEGMENT_ENCODE_SET *)
Reserved == {"/", "\\", "%", "?", "!", "control"}
Encode(char) == Symbol(char, char \in Reserved)

(* The segments of a path: the intervals between slashes. *)
Segments(path) ==
  {s \in (1..Len(path)+1) \X (0..Len(path)) :
     /\ s[1] <= s[2] + 1
     /\ s[1] = 1 \/ path[s[1] - 1] = Slash
     /\ s[2] = Len(path) \/ path[s[2] + 1] = Slash
     /\ \A i \in s[1]..s[2] : path[i] # Slash}

Decoded(path, s) == [i \in 1..(s[2] - s[1] + 1) |-> path[s[1] + i - 1].char]

StartsWithNamespace(path) ==
  Len(path) > 1 /\ path[1] = Symbol("ns", FALSE) /\ path[2] = Slash

(* Mutant: dots are looked for before the escapes are decoded. *)
ValidSegmentRaw(path, s) ==
  /\ s[1] <= s[2]
  /\ \A i \in s[1]..s[2] :
       /\ path[i] # Symbol("%", FALSE)
       /\ path[i].char \notin {"invalid", "/", "\\", "control"}
  /\ SubSeq(path, s[1], s[2])
       \notin {<<Symbol(".", FALSE)>>, <<Symbol(".", FALSE), Symbol(".", FALSE)>>}

ValidSegment(path, s) ==
  /\ s[1] <= s[2]
  /\ \A i \in s[1]..s[2] :
       /\ path[i] # Symbol("%", FALSE)
       /\ path[i].char \notin {"invalid", "/", "\\", "control"}
  /\ Decoded(path, s) \notin {<<".">>, <<".", ".">>}

Canonical(path) ==
  [i \in DOMAIN path |-> IF path[i] = Slash THEN Slash ELSE Encode(path[i].char)]

(* Mutant: the prefix is only looked for in the path as it was given. *)
AcceptedAsGiven(path) ==
  /\ path # <<>> /\ path[1] # Slash
  /\ \A i \in DOMAIN path : path[i] \notin {Symbol("?", FALSE), Symbol("\\", FALSE)}
  /\ ~StartsWithNamespace(path)
  /\ \A s \in Segments(path) : ValidSegment(path, s)

Accepted(path) ==
  /\ path # <<>> /\ path[1] # Slash
  /\ \A i \in DOMAIN path : path[i] \notin {Symbol("?", FALSE), Symbol("\\", FALSE)}
  /\ ~StartsWithNamespace(path)
  /\ \A s \in Segments(path) : ValidSegment(path, s)
  /\ ~StartsWithNamespace(Canonical(path))

-----------------------------------------------------------------------------
Init == value = <<>> /\ result = "none"

Write ==
  /\ result = "none" /\ Len(value) < MaxLength
  /\ \E symbol \in Symbols : value' = Append(value, symbol)
  /\ UNCHANGED result

Parse ==
  /\ result = "none"
  /\ result' = IF Accepted(value) THEN "accepted" ELSE "refused"
  /\ UNCHANGED value

Parsed == result # "none" /\ UNCHANGED vars

Next == Write \/ Parse \/ Parsed

Spec == Init /\ [][Next]_vars

-----------------------------------------------------------------------------
(* Properties *)

(* The canonical path is canonical: it is accepted, and unchanged by parsing *)
(* it again, so that equal strings mean equal paths.                         *)
CanonicalIsFixed ==
  result = "accepted" =>
    LET canonical == Canonical(value)
    IN Accepted(canonical) /\ Canonical(canonical) = canonical

(* The path a server reads: escapes are decoded, then "/" and "\" separate,  *)
(* "?" as it is begins a query, and dot segments are resolved.  An accepted  *)
(* path names the segments it was written with and stays below its namespace.*)
ServerReads(path) == {Decoded(path, s) : s \in Segments(path)}

StaysBelow ==
  result = "accepted" =>
    LET canonical == Canonical(value)
    IN /\ ServerReads(canonical) = ServerReads(value)
       /\ Segments(canonical) = Segments(value)
       /\ \A segment \in ServerReads(canonical) :
            /\ segment \notin {<<>>, <<".">>, <<".", ".">>}
            /\ \A i \in DOMAIN segment : segment[i] \notin {"/", "\\", "control"}
       /\ \A i \in DOMAIN canonical : canonical[i].char = "?" => canonical[i].escaped
=============================================================================
