----------------------------- MODULE MCSymTools -----------------------------
(***************************************************************************)
(* SymTools for TLC: two tools, one key or two, and a database of any of   *)
(* the entries in the beginning, or none.                                  *)
(***************************************************************************)
EXTENDS SymTools, FiniteSets, TLC

CONSTANTS p1, p2, db, t1, t2

InitImagesC ==
  {image \in UNION {[1..n -> [key : Keys, val : Vals]] : n \in 0..Cardinality(Keys)} :
     \A i, j \in DOMAIN image : image[i].key = image[j].key => i = j}

\* In the same second all tools make up the same name.
SameSecond == [p \in Tools |-> {t1}]

OwnNames == [p \in Tools |-> IF p = p1 THEN {t1} ELSE {t2}]

Symmetry == Permutations(Inodes)
=============================================================================
