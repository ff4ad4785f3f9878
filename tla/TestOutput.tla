----------------------------- MODULE TestOutput -----------------------------
(***************************************************************************)
(* What the caller of a network test observes: lines numbered in the order *)
(* they were printed, delivered in that order, each at most once, in       *)
(* chunks; an empty chunk comes only with the end, and nothing after it.   *)
(***************************************************************************)
EXTENDS Naturals, Sequences

CONSTANT MaxLines
VARIABLES produced, delivered, over

Init == produced = 0 /\ delivered = <<>> /\ over = FALSE

Last(s) == IF s = <<>> THEN 0 ELSE s[Len(s)]

Increasing(s) == \A i, j \in 1..Len(s) : i < j => s[i] < s[j]

PrintLine ==
  /\ produced' \in produced+1..MaxLines
  /\ UNCHANGED <<delivered, over>>

Deliver ==
  /\ ~over
  /\ Increasing(delivered')
  /\ Len(delivered) <= Len(delivered')
  /\ SubSeq(delivered', 1, Len(delivered)) = delivered
  /\ Last(delivered') <= produced
  /\ delivered' # delivered \/ over'
  /\ over' \in BOOLEAN
  /\ UNCHANGED produced

Next == PrintLine \/ Deliver

Spec == Init /\ [][Next]_<<produced, delivered, over>>
=============================================================================
