------------------------------ MODULE MCDecode ------------------------------
(***************************************************************************)
(* The strings TLC composes replies of: the words spelled plainly or with  *)
(* an escape, another name, and texts with a line break or a quoted word   *)
(* in them.                                                                *)
(***************************************************************************)
EXTENDS RciDecode

Raw(word) == [i \in DOMAIN word |-> Letter("raw", word[i])]
Spellings(word) == {Raw(word), <<Letter("raw", word[1]), Letter("unicode", word[2])>>}

MCChars == {"s", "t", "e", "r", "x", "n"}
MCNames == Spellings(Status) \cup {Raw(<<"s", "t", "x">>)}
MCTexts == Spellings(Error) \cup
  {Raw(Status), <<Backslash, Letter("raw", "n")>>, <<Backslash, Quote>> \o Raw(Error)}
=============================================================================
