----------------------------- MODULE Selection -----------------------------
(***************************************************************************)
(* The elements of a sequence that a filter keeps, in their order.  It is  *)
(* what SelectSeq of module Sequences is, for a filter given as a set and  *)
(* written as a recursive function, which proofs can reason about.         *)
(***************************************************************************)
EXTENDS Naturals, Sequences

Smaller(a, b) == IF a <= b THEN a ELSE b

Select(s, S) ==
  LET kept[i \in 0..Len(s)] ==
        IF i = 0 THEN <<>>
        ELSE IF s[i] \in S THEN Append(kept[i - 1], s[i]) ELSE kept[i - 1]
  IN kept[Len(s)]
=============================================================================
