------------------------------- MODULE MCSwaps -------------------------------
(* Two notes and the requests their holders make of them, for TLC.         *)
EXTENDS Swaps, TLC

CONSTANTS n1, n2, o1, o2, o3, o4

MCValue == n1 :> 4 @@ n2 :> 2

Rotate(i, o) == [ins |-> <<i>>, outs |-> <<o>>, amount |-> NoAmount]
Merge(i, j, o) == [ins |-> <<i, j>>, outs |-> <<o>>, amount |-> NoAmount]
Split(i, m, o, p) == [ins |-> <<i>>, outs |-> <<o, p>>, amount |-> m]

\* A rotate that names a second output, which nothing is minted at.
Spare(i, o, p) == [ins |-> <<i>>, outs |-> <<o, p>>, amount |-> NoAmount]

\* Rivals for one note and for one output; both orders of one merge; a note
\* named twice; a promised output; splits at and past the fee's limit, and
\* of two notes; and the merge of a split's parts.
MCWishes ==
  {Rotate(n1, o1), Merge(n1, n2, o2), Merge(n2, n1, o2), Merge(n1, n1, o1),
   Spare(n2, o1, o2), Rotate(n2, o4), Split(n1, 2, o1, o2), Split(n1, 3, o1, o2),
   [ins |-> <<n1, n2>>, outs |-> <<o1, o2>>, amount |-> 4], Merge(o1, o2, o3)}

Symmetry == Permutations(Attempts)
=============================================================================
