------------------------------ MODULE LinkedList ------------------------------
(***************************************************************************)
(* cxx_linked_list: a List is a root node in a ring of nodes, and the      *)
(* nodes come from a NodePool that links its free chunks.  Callers keep    *)
(* their nodes in unique_ptrs, as main does, and take a node out of the    *)
(* list before they let go of it.                                          *)
(*                                                                         *)
(* free_node takes only some of the nodes that new_node gave: is_valid_node *)
(* divides the index of a node by its size once more.                      *)
(***************************************************************************)
EXTENDS Integers, FiniteSets

CONSTANTS
  Capacity,    \* the number of chunks in the pool
  SizeofNode,  \* sizeof(Node)
  Root, NULL

Chunks == 0..(Capacity - 1)
Nodes  == Chunks \cup {Root}

VARIABLES
  prev, next,          \* m_prev_np and m_next_np of each node; NULL in a free chunk
  free_next,           \* next_free_p of each free chunk
  free_head, state, size,
  kept,                \* the nodes in the unique_ptrs of callers
  refused,             \* history: the nodes that free_node did not take
  popped               \* what the last call returned

ring  == <<prev, next>>
pool  == <<free_next, free_head, state, size>>
lvars == <<prev, next, free_next, free_head, state, size, kept, refused, popped>>

InitL ==
  /\ prev = [n \in Nodes |-> IF n = Root THEN Root ELSE NULL]
  /\ next = [n \in Nodes |-> IF n = Root THEN Root ELSE NULL]
  /\ free_next = [c \in Chunks |-> IF c = Capacity - 1 THEN NULL ELSE c + 1]
  /\ free_head = 0
  /\ state = [c \in Chunks |-> "EMPTY"]
  /\ size = 0
  /\ kept = {} /\ refused = {} /\ popped = NULL

Unlinked == {n \in kept : next[n] = n}

InList == kept \ Unlinked

-----------------------------------------------------------------------------
(* Node *)

\* A mutant: the old head is not told of its new neighbour.
add_head_half(root, n) ==
  /\ prev' = [prev EXCEPT ![n] = root]
  /\ next' = [next EXCEPT ![n] = next[root], ![root] = n]

add_head(root, n) ==
  /\ prev' = [prev EXCEPT ![n] = root, ![next[root]] = n]
  /\ next' = [next EXCEPT ![n] = next[root], ![root] = n]

add_tail(root, n) ==
  /\ prev' = [prev EXCEPT ![n] = prev[root], ![root] = n]
  /\ next' = [next EXCEPT ![n] = root, ![prev[root]] = n]

unlink(n) ==
  /\ next' = [next EXCEPT ![prev[n]] = next[n], ![n] = n]
  /\ prev' = [prev EXCEPT ![next[n]] = prev[n], ![n] = n]

-----------------------------------------------------------------------------
(* List *)

Returns(n) == popped' = n /\ UNCHANGED <<pool, kept, refused>>

push_front(n) == n \in Unlinked /\ add_head(Root, n) /\ Returns(NULL)

push_back(n) == n \in Unlinked /\ add_tail(Root, n) /\ Returns(NULL)

\* Of an empty list, the root is unlinked and returned.
pop_front == unlink(next[Root]) /\ Returns(next[Root])

pop_back == unlink(prev[Root]) /\ Returns(prev[Root])

\* Of these two, the first links the node behind its target and the second in front of it.
insert_before(target, n) == n \in Unlinked /\ add_head(target, n) /\ Returns(NULL)

\* A mutant: both calls link on the same side.
insert_after_copied(target, n) == n \in Unlinked /\ add_head(target, n) /\ Returns(NULL)

insert_after(target, n) == n \in Unlinked /\ add_tail(target, n) /\ Returns(NULL)

unlink_at(n) == unlink(n) /\ Returns(next[n])

-----------------------------------------------------------------------------
(* NodePool *)

\* make_unique_node: a new node is linked to itself.
new_node ==
  /\ free_head # NULL
  /\ free_head' = free_next[free_head]
  /\ state' = [state EXCEPT ![free_head] = "OCCUPIED"]
  /\ size'  = size + 1
  /\ prev'  = [prev EXCEPT ![free_head] = free_head]
  /\ next'  = [next EXCEPT ![free_head] = free_head]
  /\ kept'  = kept \cup {free_head}
  /\ popped' = free_head
  /\ UNCHANGED <<free_next, refused>>

new_node_full ==
  /\ free_head = NULL
  /\ popped' = NULL
  /\ UNCHANGED <<ring, pool, kept, refused>>

is_valid_node(c) == c % SizeofNode = 0 /\ state[c \div SizeofNode] = "OCCUPIED"

\* A mutant: the chunk keeps its place in the count.
free_node_uncounted(c) ==
  /\ is_valid_node(c)
  /\ free_next' = [free_next EXCEPT ![c] = free_head]
  /\ free_head' = c
  /\ state' = [state EXCEPT ![c] = "EMPTY"]
  /\ prev'  = [prev EXCEPT ![c] = NULL]
  /\ next'  = [next EXCEPT ![c] = NULL]
  /\ kept'  = kept \ {c}
  /\ popped' = NULL
  /\ UNCHANGED <<size, refused>>

\* NodeDeleter.  ~Node links the node to itself, and the chunk is free.
free_node(c) ==
  /\ is_valid_node(c)
  /\ free_next' = [free_next EXCEPT ![c] = free_head]
  /\ free_head' = c
  /\ state' = [state EXCEPT ![c] = "EMPTY"]
  /\ size'  = size - 1
  /\ prev'  = [prev EXCEPT ![c] = NULL]
  /\ next'  = [next EXCEPT ![c] = NULL]
  /\ kept'  = kept \ {c}
  /\ popped' = NULL
  /\ UNCHANGED refused

\* NodeDeleter does not look at what free_node returns.
free_node_refused(c) ==
  /\ ~is_valid_node(c)
  /\ kept'    = kept \ {c}
  /\ refused' = refused \cup {c}
  /\ popped'  = NULL
  /\ UNCHANGED <<ring, pool>>

NextL ==
  \/ new_node \/ new_node_full \/ pop_front \/ pop_back
  \/ \E n \in Unlinked : push_front(n) \/ push_back(n) \/ free_node(n) \/ free_node_refused(n)
  \/ \E target \in InList \cup {Root}, n \in Unlinked : insert_before(target, n) \/ insert_after(target, n)
  \/ \E n \in InList : unlink_at(n)

SpecL == InitL /\ [][NextL]_lvars

-----------------------------------------------------------------------------
(* Properties *)

ListTypeOK ==
  /\ prev \in [Nodes -> Nodes \cup {NULL}] /\ next \in [Nodes -> Nodes \cup {NULL}]
  /\ free_next \in [Chunks -> Chunks \cup {NULL}] /\ free_head \in Chunks \cup {NULL}
  /\ state \in [Chunks -> {"EMPTY", "OCCUPIED"}]
  /\ size \in 0..Capacity
  /\ kept \subseteq Chunks /\ refused \subseteq Chunks
  /\ popped \in Nodes \cup {NULL}

\* The links of the nodes that are constructed are inverse to one another, through
\* every order of insertions and removals at both ends and in the middle: so
\* forward and backward loops meet the same nodes.
Ring ==
  /\ \A n \in kept \cup {Root} : next[n] \in kept \cup {Root} /\ prev[n] \in kept \cup {Root}
  /\ \A n \in kept \cup {Root} : prev[next[n]] = n /\ next[prev[n]] = n

\* The nodes that a loop over step from the root meets before it is at the root again.
Walk(step) ==
  LET at[i \in 0..Capacity + 1] == IF i = 0 THEN Root ELSE step[at[i - 1]]
      len == CHOOSE i \in 0..Capacity : at[i + 1] = Root /\ \A j \in 1..i : at[j] # Root
  IN  [i \in 1..len |-> at[i]]

Forward == Walk(next)

\* What the free chunks are, from free_head on.
FreeChunks ==
  LET at[i \in 1..Capacity + 1] == IF i = 1 THEN free_head
                                   ELSE IF at[i - 1] = NULL THEN NULL ELSE free_next[at[i - 1]]
  IN  {at[i] : i \in 1..Capacity + 1} \ {NULL}

\* A chunk is in the free list, or in a unique_ptr, or was refused by free_node,
\* and its state and the count of the pool say which: new_node never gives a node
\* that somebody has, and its assertions hold.
ChunksAccounted ==
  /\ FreeChunks = {c \in Chunks : state[c] = "EMPTY"}
  /\ kept \cup refused = {c \in Chunks : state[c] = "OCCUPIED"}
  /\ kept \cap refused = {}
  /\ size = Cardinality(kept \cup refused)
  /\ (free_head = NULL) <=> (size = Capacity)

Deque == INSTANCE NodeDeque WITH list <- Forward, ret <- popped, End <- Root, None <- NULL

\* A list is a sequence of distinct nodes, whichever calls are made on it: a node is put next
\* to another one or at an end and taken out from anywhere, and the rest keep their order.
ImplementsDeque == Deque!Spec

\* A call changes the place it names and returns the node it owes: a push puts the node at
\* its end, a pop takes the one there, insert_before puts it right behind the target and
\* insert_after right in front of it, for the root as a target too, and unlink returns the
\* node that came next.
NamesItsPlace ==
  /\ \A n \in Unlinked :
       /\ push_front(n) => Deque!PutBehind(Root, n)
       /\ push_back(n)  => Deque!PutInFront(Root, n)
       /\ \A target \in InList \cup {Root} :
            /\ insert_before(target, n) => Deque!PutBehind(target, n)
            /\ insert_after(target, n)  => Deque!PutInFront(target, n)
  /\ pop_front => Deque!PopFirst
  /\ pop_back  => Deque!PopLast
  /\ \A n \in InList : unlink_at(n) => Deque!TakeOut(n)

PlacesNamed == [][NamesItsPlace]_lvars
=============================================================================
