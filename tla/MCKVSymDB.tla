----------------------------- MODULE MCKVSymDB -----------------------------
(* Small instances of KVSymDB for TLC. *)
EXTENDS KVSymDB

\* Views whose records fill 28 or 32 bytes, and so fit the smallest arena.
SmallKeys == {View(1, "a"), View(4, "b")}
SmallVals == {View(1, "x"), View(4, "y")}

\* Views that are empty or null, one whose record is larger than the smallest
\* arena, and names of exactly and of one more than NameLenMod bytes (8 here).
WideKeys == {View(1, "a"), View(0, "a"), View(8, "c"), View(9, "d")}
WideVals == {View(1, "x"), View(1, NULL), View(30, "z")}

\* A name that fits the width of name_len and one that does not.
LongKeys == {View(1, "a"), View(9, "d")}
OneVal   == {View(1, "x")}
BigVals  == {View(1, "x"), View(30, "z")}
=============================================================================
