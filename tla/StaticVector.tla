----------------------------- MODULE StaticVector -----------------------------
(***************************************************************************)
(* cxxds::static_vector: a vector of at most N elements in the object      *)
(* itself.  Its array keeps what was popped, behind the end.               *)
(***************************************************************************)
EXTENDS Integers, SequencesExt

CONSTANTS
  N,      \* the capacity
  Elems,  \* the elements
  Zero    \* what the array is made of

VARIABLES
  data,    \* the array
  length,  \* vec_length
  stack,   \* history: what callers pushed and have not popped
  index    \* what the last call returned

svars == <<data, length, stack, index>>

FAILED == -1

InitT == data = [i \in 0..(N - 1) |-> Zero] /\ length = 0 /\ stack = <<>> /\ index = FAILED

\* A mutant: the length is counted before the element is written.
push_back_after(e) ==
  /\ length < N
  /\ data'   = [data EXCEPT ![length + 1] = e]
  /\ length' = length + 1
  /\ stack'  = Append(stack, e)
  /\ index'  = length

push_back(e) ==
  /\ length < N
  /\ data'   = [data EXCEPT ![length] = e]
  /\ length' = length + 1
  /\ stack'  = Append(stack, e)
  /\ index'  = length

\* push_back to a full vector, pop_back of an empty one
Refuse ==
  /\ length \in {0, N}
  /\ index' = FAILED
  /\ UNCHANGED <<data, length, stack>>

\* It returns the new length, where that of vector.c returns one less.
pop_back ==
  /\ length # 0
  /\ length' = length - 1
  /\ stack'  = Front(stack)
  /\ index'  = length - 1
  /\ UNCHANGED data

clear ==
  /\ length' = 0 /\ stack' = <<>>
  /\ UNCHANGED <<data, index>>

NextT == Refuse \/ pop_back \/ clear \/ \E e \in Elems : push_back(e)

SpecT == InitT /\ [][NextT]_svars

-----------------------------------------------------------------------------
(* Properties *)

\* What a loop from begin() to end() by next() meets.
Forward == [i \in 1..length |-> data[i - 1]]

\* What one from rbegin() to rend() by rnext() meets.
Backward == [i \in 1..length |-> data[length - i]]

\* The element at the index that the last push_back returned, or that a pop_back left behind
\* the end, is one that was pushed; loops meet what was pushed and not popped, both
\* ways, and never what the array keeps of before.
Stacked ==
  /\ Forward = stack /\ Backward = Reverse(stack)
  /\ index # FAILED => data[index] \in Elems
=============================================================================
