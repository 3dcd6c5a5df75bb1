----------------------------- MODULE MCKVReader -----------------------------
(* Small instances of KVReader for TLC. *)
EXTENDS KVReader

OneKey == {View(4, "b")}
\* Records of 32 bytes, and with the second value of 36, more than the smallest arena.
OneVal == {View(1, "x")}
TwoVals == {View(1, "x"), View(5, "y")}
=============================================================================
