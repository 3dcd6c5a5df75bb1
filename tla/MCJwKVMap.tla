------------------------------ MODULE MCJwKVMap ------------------------------
(* A small instance of JwKVMapIter for TLC. *)
EXTENDS JwKVMapIter

CONSTANTS k1, k2, k3, v1, v2

\* Two keys share a bucket of two and of three, no two one of four.
MCHash   == k1 :> 0 @@ k2 :> 6 @@ k3 :> 1
MCKeyLen == k1 :> 0 @@ k2 :> 1 @@ k3 :> 33
MCValLen == v1 :> 1 @@ v2 :> 1

HeapSymmetry == Permutations(Slots) \cup Permutations(Vals)
=============================================================================
