------------------------------ MODULE CxxVector ------------------------------
(***************************************************************************)
(* cxxds::vector over the functions of vector.c: a header and the elements *)
(* in one block, which realloc may move when the vector grows, and objects *)
(* that are moved and copied by move_in, move_out and copy_from. A copy    *)
(* goes element by element, and any of its steps may get no memory.        *)
(***************************************************************************)
EXTENDS Naturals, SequencesExt

CONSTANTS
  Vecs,    \* the vector objects
  Elems,   \* the elements
  Addrs,   \* the addresses the heap has for vectors
  MaxCap,  \* a bound on the capacity of a vector
  NULL

VARIABLES
  vec,    \* the vector of each object, or NULL
  used,   \* the addresses that are allocated
  lost,   \* history: those that move_out left without an owner
  ret,    \* what the last call returned
  copying \* the copy_from that runs, or NULL: its objects, the elements passed, and
          \* (history) whether none of them was dropped

vvars == <<vec, used, lost, ret, copying>>

VECTOR_INIT_CAPACITY == 1

Vec(at, cap, elems) == [at |-> at, vec_capacity |-> cap, elems |-> elems]

Free(v) == IF v = NULL THEN used ELSE used \ {v.at}

InitV == vec = [w \in Vecs |-> NULL] /\ used = {} /\ lost = {} /\ ret = "OK" /\ copying = NULL

\* vector(): _c_vector_create; of no memory, it makes a vector that is not valid.
Create(w) ==
  /\ vec[w] = NULL
  /\ \E a \in Addrs \ used :
       /\ vec'  = [vec EXCEPT ![w] = Vec(a, 0, <<>>)]
       /\ used' = used \cup {a}
  /\ ret' = "OK" /\ UNCHANGED lost

\* ~vector(), also of an object that is destroyed or moved already
Destroy(w) ==
  /\ vec'  = [vec EXCEPT ![w] = NULL]
  /\ used' = Free(vec[w])
  /\ ret' = "OK" /\ UNCHANGED lost

\* realloc to a capacity: in place, or to another address.
Grow(w, cap, elems) ==
  /\ cap <= MaxCap
  /\ \E a \in {vec[w].at} \cup (Addrs \ used) :
       /\ vec'  = [vec EXCEPT ![w] = Vec(a, cap, elems)]
       /\ used' = Free(vec[w]) \cup {a}

\* What push_back takes for the capacity of a full vector.
doubled(cap) == IF cap # 0 THEN cap * 2 ELSE VECTOR_INIT_CAPACITY

Full(w) == Len(vec[w].elems) >= vec[w].vec_capacity

\* The element is none of the vector's own, which realloc would free.
Pushed(w, e) ==
  /\ vec[w] # NULL
  /\ IF Full(w)
     THEN Grow(w, doubled(vec[w].vec_capacity), Append(vec[w].elems, e))
     ELSE vec' = [vec EXCEPT ![w].elems = Append(@, e)] /\ UNCHANGED used
  /\ UNCHANGED lost

push_back(w, e) == Pushed(w, e) /\ ret' = Len(vec[w].elems)

reserve(w, n) ==
  /\ vec[w] # NULL
  /\ IF vec[w].vec_capacity < n THEN Grow(w, n, vec[w].elems) ELSE UNCHANGED <<vec, used>>
  /\ ret' = "OK" /\ UNCHANGED lost

\* It returns the length minus two: that is no index for the last element.
pop_back(w) ==
  /\ vec[w] # NULL /\ vec[w].elems # <<>>
  /\ vec' = [vec EXCEPT ![w].elems = Front(@)]
  /\ ret' = IF Len(vec[w].elems) = 1 THEN "FAILED" ELSE Len(vec[w].elems) - 2
  /\ UNCHANGED <<used, lost>>

\* A call on no vector, a pop_back of an empty one, or a reserve, of any vector,
\* or a push_back to a full one, that gets no memory
Fails(w) == ret' = "FAILED" /\ UNCHANGED <<vec, used, lost>>

clear(w) ==
  /\ vec[w] # NULL
  /\ vec' = [vec EXCEPT ![w].elems = <<>>]
  /\ ret' = "OK" /\ UNCHANGED <<used, lost>>

\* A mutant: the source keeps its vector.
move_in_shared(w, in) ==
  /\ w # in
  /\ vec'  = [vec EXCEPT ![w] = vec[in]]
  /\ used' = Free(vec[w])
  /\ ret' = "OK" /\ UNCHANGED lost

move_in(w, in) ==
  /\ vec'  = [vec EXCEPT ![w] = IF w = in THEN NULL ELSE vec[in], ![in] = NULL]
  /\ used' = Free(vec[w])
  /\ ret' = "OK" /\ UNCHANGED lost

\* The vector that the destination had is not destroyed.
move_out(w, out) ==
  /\ vec'  = [vec EXCEPT ![out] = vec[w], ![w] = NULL]
  /\ lost' = lost \cup (IF vec[out] = NULL THEN {} ELSE {vec[out].at})
  /\ ret' = "OK" /\ UNCHANGED used

\* What a loop from begin() to end() by next() meets; of no vector they are 0.
Iterated(v) == IF v = NULL THEN <<>> ELSE v.elems

Copying(w, in, at, whole) == [to |-> w, from |-> in, at |-> at, whole |-> whole]

\* A mutant: the elements that the destination has stay in front of the copy.
copy_from_behind(w, in) ==
  /\ copying = NULL
  /\ vec[w] # NULL /\ copying' = Copying(w, in, 0, TRUE) /\ UNCHANGED <<vec, used>>
  /\ ret' = "OK" /\ UNCHANGED lost

\* _destroy() and _init(), which may get no memory, and then the loop; from the object
\* itself it finds no elements any more.
copy_from(w, in) ==
  /\ copying = NULL
  /\ \/ \E a \in Addrs \ Free(vec[w]) :
          /\ vec'  = [vec EXCEPT ![w] = Vec(a, 0, <<>>)]
          /\ used' = Free(vec[w]) \cup {a}
          /\ copying' = Copying(w, in, 0, TRUE)
     \/ /\ vec'  = [vec EXCEPT ![w] = NULL]
        /\ used' = Free(vec[w])
        /\ copying' = Copying(w, in, 0, FALSE)
  /\ ret' = "OK" /\ UNCHANGED lost

Source == Iterated(vec[copying.from])

CopyNext ==
  /\ copying # NULL /\ copying.at < Len(Source)
  /\ Pushed(copying.to, Source[copying.at + 1])
  /\ copying' = [copying EXCEPT !.at = @ + 1]
  /\ UNCHANGED ret

\* push_back fails, which the loop does not look at.
CopyDrops ==
  /\ copying # NULL /\ copying.at < Len(Source)
  /\ vec[copying.to] # NULL => Full(copying.to)
  /\ copying' = Copying(copying.to, copying.from, copying.at + 1, FALSE)
  /\ UNCHANGED <<vec, used, lost, ret>>

CopyEnd ==
  /\ copying # NULL /\ copying.at = Len(Source)
  /\ copying' = NULL
  /\ UNCHANGED <<vec, used, lost, ret>>

Call(w) ==
  \/ Create(w) \/ Destroy(w) \/ pop_back(w) \/ Fails(w) \/ clear(w)
  \/ \E e \in Elems : push_back(w, e)
  \/ \E n \in 0..MaxCap : reserve(w, n)
  \/ \E other \in Vecs : move_in(w, other) \/ move_out(w, other)

\* Nothing else is called while a copy runs.
NextV ==
  \/ copying = NULL /\ UNCHANGED copying /\ \E w \in Vecs : Call(w)
  \/ \E w, in \in Vecs : copy_from(w, in)
  \/ CopyNext \/ CopyDrops \/ CopyEnd

SpecV == InitV /\ [][NextV]_vvars

-----------------------------------------------------------------------------
(* Properties *)

\* No sequence of moves, copies and growths makes two objects share a vector or
\* one own a block that is freed; what leaks are vectors that move_out was given
\* an object for, and elements never exceed the capacity.
VectorsOwned ==
  /\ \A w \in Vecs : vec[w] # NULL => vec[w].at \in used \ lost /\ Len(vec[w].elems) <= vec[w].vec_capacity
  /\ \A w, o \in Vecs : vec[w] # NULL /\ vec[o] # NULL /\ vec[w].at = vec[o].at => w = o
  /\ used = lost \cup {vec[w].at : w \in {o \in Vecs : vec[o] # NULL}}

\* The elements of a vector are kept through growth: a call changes one end of it, or
\* replaces or empties it as a whole.
ElemsKept ==
  [][\A w \in Vecs : vec[w] # NULL /\ vec'[w] # NULL /\ vec[w] # vec'[w] =>
       LET old == vec[w].elems
           new == vec'[w].elems
       IN  \/ new \in {old, <<>>} \/ (old # <<>> /\ new = Front(old))
           \/ \E e \in Elems : new = Append(old, e)
           \/ \E o \in Vecs : vec[o] # NULL /\ new = vec[o].elems]_vvars

\* When copy_from returns, the object has the elements of the other one, all of them and
\* in their order, unless an allocation failed on the way: nothing tells the caller.
CopiesWhole ==
  [][copying # NULL /\ copying' = NULL /\ copying.whole =>
       vec[copying.to] # NULL /\ vec[copying.to].elems = Iterated(vec[copying.from])]_vvars
=============================================================================
