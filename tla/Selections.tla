----------------------------- MODULE Selections -----------------------------
(***************************************************************************)
(* The elements of a sequence that are in a set, in the order they have:   *)
(* SelectSeq with a set for its test, as a recursive function, which       *)
(* proofs can unfold.                                                      *)
(***************************************************************************)
EXTENDS Naturals, Sequences

Selection(s, S) ==
  LET sel[n \in 0..Len(s)] == IF n = 0 THEN <<>>
                              ELSE IF s[n] \in S THEN Append(sel[n - 1], s[n]) ELSE sel[n - 1]
  IN  sel[Len(s)]
=============================================================================
