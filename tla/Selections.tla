----------------------------- MODULE Selections -----------------------------
(***************************************************************************)
(* Sequences with elements left out.  What SelectSeq computes, by the set  *)
(* of the elements that stay and as a recursive function, so that the      *)
(* provers can reason about it.                                            *)
(***************************************************************************)
EXTENDS Naturals, Sequences

\* The elements of s that are in S, in their order.
Selected(s, S) ==
  LET kept[k \in 0..Len(s)] ==
        IF k = 0 THEN <<>>
        ELSE IF s[k] \in S THEN Append(kept[k - 1], s[k]) ELSE kept[k - 1]
  IN  kept[Len(s)]
=============================================================================
