---------------------------- MODULE Pools_proofs ----------------------------
(***************************************************************************)
(* The pools and linked structures around a database, for every number of  *)
(* chunks, objects and keys: an inductive invariant of List and NodePool, of *)
(* PoolAllocator and of KeyListArena.                                      *)
(***************************************************************************)
EXTENDS MCObjects, FileMapper_proofs, DataLemmas

-----------------------------------------------------------------------------
(* cxx_linked_list *)

LFree == {c \in Lists!Chunks : state[c] = "EMPTY"}

LInv ==
  /\ Lists!ListTypeOK
  /\ RingOn(kept \cup {Root}, prev, next)
  /\ IsFreeList(free_head, free_next, NULL, LFree)
  /\ kept \cup refused = {c \in Lists!Chunks : state[c] = "OCCUPIED"}
  /\ kept \cap refused = {}
  /\ size = Cardinality(kept \cup refused)

LRing == prev \in [Lists!Nodes -> Lists!Nodes \cup {NULL}] /\ next \in [Lists!Nodes -> Lists!Nodes \cup {NULL}]
         /\ RingOn(kept \cup {Root}, prev, next)

\* The ring of nodes in kept, and the root.
LEMMA RingNodes ==
  ASSUME LInv
  PROVE  /\ kept \cup {Root} \subseteq Lists!Nodes /\ DOMAIN prev = Lists!Nodes /\ DOMAIN next = Lists!Nodes
         /\ Root \notin kept /\ LRing
BY NoneAssumption DEF LInv, LRing, Lists!ListTypeOK, Lists!Nodes, Lists!Chunks

\* Nothing changes.
LEMMA LStutter ==
  ASSUME LInv, UNCHANGED list
  PROVE  LInv'
BY DEF LInv, list, Lists!ListTypeOK, LFree

\* A step that links and unlinks, and leaves the pool alone
LEMMA LLinked ==
  ASSUME LInv, UNCHANGED <<free_next, free_head, state, size, kept, refused>>,
         prev' \in [Lists!Nodes -> Lists!Nodes \cup {NULL}], next' \in [Lists!Nodes -> Lists!Nodes \cup {NULL}],
         RingOn(kept \cup {Root}, prev', next'), popped' \in Lists!Nodes \cup {NULL}
  PROVE  LInv'
BY DEF LInv, Lists!ListTypeOK, LFree

\* add_head and add_tail, of a node that is in no list
LEMMA LAdd ==
  ASSUME LInv, NEW r \in kept \cup {Root}, NEW n \in Lists!Unlinked, r # n, Lists!Returns(NULL),
         Lists!add_head(r, n) \/ Lists!add_tail(r, n)
  PROVE  LInv'
<1> DEFINE K == kept \cup {Root}
           D == Lists!Nodes
<1>1. /\ K \in SUBSET D /\ DOMAIN prev = D /\ DOMAIN next = D /\ RingOn(K, prev, next)
      /\ prev \in [D -> D \cup {NULL}] /\ next \in [D -> D \cup {NULL}]
  BY RingNodes DEF LRing
<1>2. r \in K /\ n \in K /\ next[n] = n
  BY DEF Lists!Unlinked
<1>3. prev[n] = n /\ prev[r] \in K /\ next[r] \in K
  BY <1>1, <1>2 DEF RingOn
<1>4. UNCHANGED <<free_next, free_head, state, size, kept, refused>> /\ popped' = NULL
  BY DEF Lists!Returns, Lists!pool
<1> HIDE DEF K, D
<1>5. CASE Lists!add_head(r, n)
  <2>1. prev' = [prev EXCEPT ![n] = r, ![next[r]] = n] /\ next' = [next EXCEPT ![n] = next[r], ![r] = n]
    BY <1>5 DEF Lists!add_head
  <2>2. RingOn(K, [prev EXCEPT ![n] = r, ![next[r]] = n], [next EXCEPT ![n] = next[r], ![r] = n])
    BY <1>1, <1>2, RingAdd
  <2>3. prev' \in [D -> D \cup {NULL}] /\ next' \in [D -> D \cup {NULL}]
    BY <1>1, <1>2, <1>3, <2>1
  <2> QED
    BY <1>4, <2>1, <2>2, <2>3, LLinked DEF K, D
<1>6. CASE Lists!add_tail(r, n)
  <2>1. prev' = [prev EXCEPT ![n] = prev[r], ![r] = n] /\ next' = [next EXCEPT ![n] = r, ![prev[r]] = n]
    BY <1>6 DEF Lists!add_tail
  <2>2. RingOn(K, next, prev)
    BY <1>1 DEF RingOn
  <2>3. RingOn(K, [next EXCEPT ![n] = r, ![prev[r]] = n], [prev EXCEPT ![n] = prev[r], ![r] = n])
    BY <1>1, <1>2, <1>3, <2>2, RingAdd
  <2>4. RingOn(K, prev', next')
    BY <2>1, <2>3 DEF RingOn
  <2>5. prev' \in [D -> D \cup {NULL}] /\ next' \in [D -> D \cup {NULL}]
    BY <1>1, <1>2, <1>3, <2>1
  <2> QED
    BY <1>4, <2>4, <2>5, LLinked DEF K, D
<1> QED
  BY <1>5, <1>6

\* unlink, of a node or of the root
LEMMA LUnlink ==
  ASSUME LInv, NEW n \in kept \cup {Root}, Lists!unlink(n), NEW x \in kept \cup {Root}, Lists!Returns(x)
  PROVE  LInv'
<1> DEFINE K == kept \cup {Root}
           D == Lists!Nodes
<1>1. /\ K \in SUBSET D /\ DOMAIN prev = D /\ DOMAIN next = D /\ RingOn(K, prev, next)
      /\ prev \in [D -> D \cup {NULL}] /\ next \in [D -> D \cup {NULL}]
  BY RingNodes DEF LRing
<1>2. n \in K /\ x \in K
  OBVIOUS
<1>3. prev[n] \in K /\ next[n] \in K
  BY <1>1, <1>2 DEF RingOn
<1>4. UNCHANGED <<free_next, free_head, state, size, kept, refused>> /\ popped' = x
  BY DEF Lists!Returns, Lists!pool
<1> HIDE DEF K, D
<1>5. next' = [next EXCEPT ![prev[n]] = next[n], ![n] = n] /\ prev' = [prev EXCEPT ![next[n]] = prev[n], ![n] = n]
  BY DEF Lists!unlink
<1>6. RingOn(K, prev', next')
  BY <1>1, <1>2, <1>5, RingUnlink
<1>7. prev' \in [D -> D \cup {NULL}] /\ next' \in [D -> D \cup {NULL}]
  BY <1>1, <1>2, <1>3, <1>5
<1>8. popped' \in D
  BY <1>1, <1>2, <1>4
<1> QED
  BY <1>4, <1>6, <1>7, <1>8, LLinked DEF K, D

\* The chunks are finitely many; those in the free list and the others make up the pool.
LEMMA LCounts ==
  ASSUME LInv
  PROVE  /\ IsFiniteSet(kept \cup refused)
         /\ Cardinality(LFree) + Cardinality(kept \cup refused) = Capacity
         /\ Cardinality(LFree) \in Nat /\ Cardinality(kept \cup refused) \in Nat
<1> DEFINE G == kept \cup refused
           C == Lists!Chunks
<1>1. IsFiniteSet(C) /\ Cardinality(C) = Capacity
  <2>1. Capacity \in Nat \ {0}
    BY ParametersAssumption
  <2> DEFINE top == Capacity - 1
  <2>2. 0 \in Int /\ top \in Int /\ ~(0 > top) /\ top - 0 + 1 = Capacity
    BY <2>1
  <2> HIDE DEF top
  <2>3. IsFiniteSet(0..top) /\ Cardinality(0..top) = IF 0 > top THEN 0 ELSE top - 0 + 1
    BY <2>2, FS_Interval
  <2> QED
    BY <2>2, <2>3 DEF top, Lists!Chunks
<1>2. G \subseteq C /\ LFree \subseteq C /\ G \cap LFree = {} /\ C \subseteq G \cup LFree
  BY DEF LInv, LFree, Lists!ListTypeOK
<1> HIDE DEF G, C
<1>3. IsFiniteSet(G) /\ IsFiniteSet(LFree)
  BY <1>1, <1>2, FS_Subset
<1>4. G \cup LFree = C
  BY <1>2
<1>5. Cardinality(G \cup LFree) = Cardinality(G) + Cardinality(LFree) - Cardinality(G \cap LFree)
  BY <1>3, FS_Union
<1>6. Cardinality({}) = 0
  BY FS_EmptySet
<1>7. Cardinality(G) \in Nat /\ Cardinality(LFree) \in Nat
  BY <1>3, FS_CardinalityType
<1>8. Capacity = Cardinality(G) + Cardinality(LFree) - 0
  BY <1>1, <1>2, <1>4, <1>5, <1>6
<1>9. Capacity \in Nat
  BY ParametersAssumption
<1>10. Cardinality(LFree) + Cardinality(G) = Capacity
  BY <1>7, <1>8, <1>9
<1> QED
  BY <1>3, <1>7, <1>10 DEF G

\* The end of the free list is no chunk.
LEMMA LEndNone == NULL \notin LFree
BY NoneAssumption DEF LFree, Lists!Chunks

\* new_node
LEMMA LNew ==
  ASSUME LInv, Lists!new_node
  PROVE  LInv'
<1> DEFINE c == free_head
           K == kept \cup {Root}
           D == Lists!Nodes
<1>1. /\ c # NULL /\ free_head' = free_next[c] /\ state' = [state EXCEPT ![c] = "OCCUPIED"] /\ size' = size + 1
      /\ prev' = [prev EXCEPT ![c] = c] /\ next' = [next EXCEPT ![c] = c] /\ kept' = kept \cup {c} /\ popped' = c
      /\ free_next' = free_next /\ refused' = refused
  BY DEF Lists!new_node
<1>2. c \in LFree /\ IsFreeList(free_next[c], free_next, NULL, LFree \ {c})
  BY <1>1, LEndNone, FreeListPop DEF LInv
<1>3. c \in Lists!Chunks /\ c \notin kept \cup refused /\ c # Root
  BY <1>2, NoneAssumption DEF LInv, LFree, Lists!Chunks
<1>4. c \in D
  BY <1>3 DEF Lists!Nodes
<1>5. RingOn(K \cup {c}, [prev EXCEPT ![c] = c], [next EXCEPT ![c] = c])
  <2> HIDE DEF c, D
  <2>1. K \in SUBSET D /\ DOMAIN prev = D /\ DOMAIN next = D /\ RingOn(K, prev, next) /\ c \notin K
    BY <1>3, RingNodes DEF LRing, D
  <2> HIDE DEF K
  <2> QED
    BY <1>4, <2>1, RingNew
<1>6. RingOn(kept' \cup {Root}, prev', next')
  <2>1. kept' \cup {Root} = K \cup {c}
    BY <1>1
  <2> QED
    BY <1>1, <1>5, <2>1
<1>7. LFree' = LFree \ {c}
  <2>1. \A x \in Lists!Chunks : state'[x] = IF x = c THEN "OCCUPIED" ELSE state[x]
    BY <1>1 DEF LInv, Lists!ListTypeOK
  <2> QED
    BY <2>1 DEF LFree
<1>8. kept' \cup refused' = {x \in Lists!Chunks : state'[x] = "OCCUPIED"}
  <2>1. \A x \in Lists!Chunks : state'[x] = IF x = c THEN "OCCUPIED" ELSE state[x]
    BY <1>1 DEF LInv, Lists!ListTypeOK
  <2> QED
    BY <1>1, <1>3, <2>1 DEF LInv
<1>9. size' = Cardinality(kept' \cup refused') /\ size' \in 0..Capacity
  <2> DEFINE G == kept \cup refused
  <2>1. IsFiniteSet(G) /\ Cardinality(LFree) + Cardinality(G) = Capacity
        /\ Cardinality(LFree) \in Nat /\ Cardinality(G) \in Nat /\ size = Cardinality(G)
    BY LCounts DEF LInv
  <2>2. kept' \cup refused' = G \cup {c} /\ c \notin G
    BY <1>1, <1>3
  <2> HIDE DEF G, c
  <2>3. Cardinality(G \cup {c}) = Cardinality(G) + 1
    BY <2>1, <2>2, FS_AddElement
  <2>4. Cardinality(LFree) # 0
    <3>1. IsFiniteSet(LFree)
      BY FreeListLength DEF LInv, IsFreeList
    <3>2. LFree # {}
      BY <1>2
    <3> QED
      BY <3>1, <3>2, FS_EmptySet
  <2>5. Capacity \in Nat
    BY ParametersAssumption
  <2>6. size' = size + 1
    BY <1>1
  <2> QED
    BY <2>1, <2>2, <2>3, <2>4, <2>5, <2>6
<1>10. free_next[c] \in Lists!Chunks \cup {NULL}
  BY <1>3 DEF LInv, Lists!ListTypeOK
<1>11. Lists!ListTypeOK'
  BY <1>1, <1>3, <1>4, <1>9, <1>10 DEF LInv, Lists!ListTypeOK
<1> QED
  BY <1>1, <1>2, <1>3, <1>6, <1>7, <1>8, <1>9, <1>11 DEF LInv

\* free_node of a chunk that is valid
LEMMA LFreed ==
  ASSUME LInv, NEW c \in Lists!Unlinked, Lists!free_node(c)
  PROVE  LInv'
<1> DEFINE K == kept \cup {Root}
           D == Lists!Nodes
<1>1. /\ free_next' = [free_next EXCEPT ![c] = free_head] /\ free_head' = c
      /\ state' = [state EXCEPT ![c] = "EMPTY"] /\ size' = size - 1
      /\ prev' = [prev EXCEPT ![c] = NULL] /\ next' = [next EXCEPT ![c] = NULL]
      /\ kept' = kept \ {c} /\ popped' = NULL /\ refused' = refused
  BY DEF Lists!free_node
<1>2. c \in kept /\ next[c] = c
  BY DEF Lists!Unlinked
<1>3. c \in Lists!Chunks /\ c \notin refused /\ c \notin LFree /\ c # Root /\ c \in D
  BY <1>2, NoneAssumption DEF LInv, LFree, Lists!ListTypeOK, Lists!Chunks, Lists!Nodes
<1>4. RingOn(kept' \cup {Root}, prev', next')
  <2>1. K \in SUBSET D /\ DOMAIN prev = D /\ DOMAIN next = D /\ RingOn(K, prev, next) /\ c \in K
    BY <1>2, RingNodes DEF LRing
  <2>2. kept' \cup {Root} = K \ {c}
    BY <1>1, <1>3
  <2> HIDE DEF K, D
  <2>3. RingOn(K \ {c}, [prev EXCEPT ![c] = NULL], [next EXCEPT ![c] = NULL])
    BY <1>2, <2>1, RingGone
  <2> QED
    BY <1>1, <2>2, <2>3
<1>5. IsFreeList(c, free_next', NULL, LFree \cup {c})
  <2>1. free_next'[c] = free_head /\ \A x \in LFree : free_next'[x] = free_next[x]
    BY <1>1, <1>3 DEF LInv, Lists!ListTypeOK, LFree
  <2>2. IsFreeList(free_head, free_next, NULL, LFree)
    BY DEF LInv
  <2> QED
    BY <1>3, <2>1, <2>2, FreeListPush
<1>6. \A x \in Lists!Chunks : state'[x] = IF x = c THEN "EMPTY" ELSE state[x]
  BY <1>1 DEF LInv, Lists!ListTypeOK
<1>7. LFree' = LFree \cup {c}
  BY <1>3, <1>6 DEF LFree
<1>8. kept' \cup refused' = {x \in Lists!Chunks : state'[x] = "OCCUPIED"}
  BY <1>1, <1>3, <1>6 DEF LInv
<1>9. size' = Cardinality(kept' \cup refused') /\ size' \in 0..Capacity
  <2> DEFINE G == kept \cup refused
  <2>1. IsFiniteSet(G) /\ Cardinality(LFree) + Cardinality(G) = Capacity
        /\ Cardinality(LFree) \in Nat /\ Cardinality(G) \in Nat /\ size = Cardinality(G)
    BY LCounts DEF LInv
  <2>2. kept' \cup refused' = G \ {c} /\ c \in G
    BY <1>1, <1>2, <1>3
  <2> HIDE DEF G
  <2>3. Cardinality(G \ {c}) = Cardinality(G) - 1 /\ Cardinality(G) # 0
    <3>1. G # {}
      BY <2>2
    <3> QED
      BY <2>1, <2>2, <3>1, FS_RemoveElement, FS_EmptySet
  <2>4. Capacity \in Nat
    BY ParametersAssumption
  <2>5. size' = size - 1
    BY <1>1
  <2>6. size - 1 = Cardinality(G \ {c}) /\ size - 1 \in 0..Capacity
    BY <2>1, <2>3, <2>4
  <2> QED
    BY <2>2, <2>5, <2>6
<1>10. Lists!ListTypeOK'
  BY <1>1, <1>3, <1>9 DEF LInv, Lists!ListTypeOK
<1> QED
  BY <1>1, <1>4, <1>5, <1>7, <1>8, <1>9, <1>10 DEF LInv

\* free_node of a chunk that is_valid_node does not take
LEMMA LRefused ==
  ASSUME LInv, NEW c \in Lists!Unlinked, Lists!free_node_refused(c)
  PROVE  LInv'
<1> DEFINE K == kept \cup {Root}
           D == Lists!Nodes
<1>1. /\ UNCHANGED <<prev, next, free_next, free_head, state, size>>
      /\ kept' = kept \ {c} /\ popped' = NULL /\ refused' = refused \cup {c}
  BY DEF Lists!free_node_refused, Lists!ring, Lists!pool
<1>2. c \in kept /\ next[c] = c /\ c \in Lists!Chunks /\ c # Root
  BY NoneAssumption DEF Lists!Unlinked, LInv, Lists!ListTypeOK, Lists!Chunks
<1>3. RingOn(kept' \cup {Root}, prev', next')
  <2>1. K \in SUBSET D /\ DOMAIN prev = D /\ DOMAIN next = D /\ RingOn(K, prev, next) /\ c \in K
    BY <1>2, RingNodes DEF LRing
  <2>2. kept' \cup {Root} = K \ {c}
    BY <1>1, <1>2
  <2> HIDE DEF K, D
  <2>3. RingOn(K \ {c}, prev, next)
    BY <1>2, <2>1, RingGone
  <2> QED
    BY <1>1, <2>2, <2>3
<1>4. kept' \cup refused' = kept \cup refused /\ kept' \cap refused' = {}
  BY <1>1, <1>2 DEF LInv
<1>5. LFree' = LFree
  BY <1>1 DEF LFree
<1>6. Lists!ListTypeOK'
  BY <1>1, <1>2 DEF LInv, Lists!ListTypeOK
<1> QED
  BY <1>1, <1>3, <1>4, <1>5, <1>6 DEF LInv

\* The pool starts free, and the list empty.
LEMMA LInit == Lists!InitL => LInv
<1> SUFFICES ASSUME Lists!InitL PROVE LInv
  OBVIOUS
<1> USE DEF Lists!InitL
<1>1. Capacity \in Nat \ {0} /\ 0 \in 0..(Capacity - 1) /\ 0 \in 0..Capacity
  BY ParametersAssumption
<1>2. Lists!ListTypeOK
  <2>1. \A c \in Lists!Chunks : c # Capacity - 1 => c + 1 \in Lists!Chunks
    BY <1>1 DEF Lists!Chunks
  <2>2. free_next \in [Lists!Chunks -> Lists!Chunks \cup {NULL}]
    BY <2>1
  <2>3. free_head \in Lists!Chunks /\ size \in 0..Capacity
    BY <1>1 DEF Lists!Chunks
  <2> QED
    BY <2>2, <2>3 DEF Lists!ListTypeOK, Lists!Nodes
<1>3. RingOn(kept \cup {Root}, prev, next)
  BY DEF RingOn, Lists!Nodes
<1>4. LFree = 0..(Capacity - 1)
  BY DEF LFree, Lists!Chunks
<1>5. IsFreeList(free_head, free_next, NULL, LFree)
  <2>1. \A i \in 0..(Capacity - 1) : free_next[i] = IF i = Capacity - 1 THEN NULL ELSE i + 1
    BY DEF Lists!Chunks
  <2>2. free_head = 0
    OBVIOUS
  <2> QED
    BY <1>1, <1>4, <2>1, <2>2, FreeListNew
<1>6. kept \cup refused = {} /\ size = 0
  OBVIOUS
<1>7. {c \in Lists!Chunks : state[c] = "OCCUPIED"} = {}
  OBVIOUS
<1>8. kept \cap refused = {}
  OBVIOUS
<1>9. size = Cardinality(kept \cup refused)
  BY <1>6, FS_EmptySet
<1> QED
  BY <1>2, <1>3, <1>5, <1>6, <1>7, <1>8, <1>9 DEF LInv

\* Every call on the list and its pool keeps the invariant.
LEMMA LNext ==
  ASSUME LInv, Lists!NextL
  PROVE  LInv'
<1>1. CASE Lists!new_node
  BY <1>1, LNew
<1>2. CASE Lists!new_node_full
  BY <1>2, LLinked, RingNodes DEF Lists!new_node_full, Lists!ring, Lists!pool, LRing
<1>3. CASE Lists!pop_front
  <2>1. next[Root] \in kept \cup {Root}
    BY RingNodes DEF LRing, RingOn
  <2> QED
    BY <1>3, <2>1, LUnlink DEF Lists!pop_front
<1>4. CASE Lists!pop_back
  <2>1. prev[Root] \in kept \cup {Root}
    BY RingNodes DEF LRing, RingOn
  <2> QED
    BY <1>4, <2>1, LUnlink DEF Lists!pop_back
<1>5. ASSUME NEW n \in Lists!Unlinked,
             Lists!push_front(n) \/ Lists!push_back(n) \/ Lists!free_node(n) \/ Lists!free_node_refused(n)
      PROVE  LInv'
  <2>1. Root # n
    BY RingNodes DEF Lists!Unlinked
  <2>2. CASE Lists!push_front(n) \/ Lists!push_back(n)
    BY <2>1, <2>2, LAdd DEF Lists!push_front, Lists!push_back
  <2> QED
    BY <1>5, <2>2, LFreed, LRefused
<1>6. ASSUME NEW target \in Lists!InList \cup {Root}, NEW n \in Lists!Unlinked,
             Lists!insert_before(target, n) \/ Lists!insert_after(target, n)
      PROVE  LInv'
  <2>1. target # n /\ target \in kept \cup {Root}
    BY RingNodes DEF Lists!Unlinked, Lists!InList
  <2> QED
    BY <1>6, <2>1, LAdd DEF Lists!insert_before, Lists!insert_after
<1>7. ASSUME NEW n \in Lists!InList, Lists!unlink_at(n) PROVE LInv'
  <2>1. n \in kept \cup {Root}
    BY DEF Lists!InList
  <2>2. next[n] \in kept \cup {Root}
    BY <2>1, RingNodes DEF LRing, RingOn
  <2> QED
    BY <1>7, <2>1, <2>2, LUnlink DEF Lists!unlink_at
<1> QED
  BY <1>1, <1>2, <1>3, <1>4, <1>5, <1>6, <1>7 DEF Lists!NextL

\* The Cardinality of the instance
LEMMA ListCardinality == \A S : Lists!Cardinality(S) = Cardinality(S)
BY DEF Lists!Cardinality, Cardinality

\* The properties of the list that the invariant has
LEMMA LAccounted == LInv => Lists!ListTypeOK /\ Lists!Ring /\ Lists!ChunksAccounted
<1> SUFFICES ASSUME LInv PROVE Lists!Ring /\ Lists!ChunksAccounted
  BY DEF LInv
<1>1. Lists!Ring
  BY DEF LInv, RingOn, Lists!Ring
<1>2. Lists!FreeChunks = LFree
  <2> DEFINE at == CHOOSE a : IsLoop(a, free_head, free_next, NULL, Capacity)
  <2>1. Capacity \in Nat /\ IsFreeList(free_head, free_next, NULL, LFree) /\ Cardinality(LFree) <= Capacity
    BY LCounts, ParametersAssumption DEF LInv
  <2>2. (\E a : IsLoop(a, free_head, free_next, NULL, Capacity))
        /\ \A a : IsLoop(a, free_head, free_next, NULL, Capacity) => {a[i] : i \in 1..Capacity + 1} \ {NULL} = LFree
    BY <2>1, LEndNone, FreeListMeets
  <2>3. {at[i] : i \in 1..Capacity + 1} \ {NULL} = LFree
    BY <2>2
  <2>4. Lists!FreeChunks = {at[i] : i \in 1..Capacity + 1} \ {NULL}
    BY DEF Lists!FreeChunks, IsLoop
  <2> QED
    BY <2>3, <2>4
<1>3. (free_head = NULL) <=> (size = Capacity)
  <2>1. PICK f, n : Chain(f, n, free_head, free_next, NULL, LFree)
    BY DEF LInv, IsFreeList
  <2>2. Cardinality(LFree) = n /\ n \in Nat
    <3>1. Cardinality(LFree) = n
      BY <2>1, FreeListLength
    <3> QED
      BY <2>1, <3>1 DEF Chain
  <2>3. (free_head = NULL) <=> n = 0
    BY <2>1, LEndNone DEF Chain
  <2>4. n + size = Capacity /\ size \in Nat
    BY <2>2, LCounts DEF LInv
  <2> QED
    BY <2>2, <2>3, <2>4
<1>4. /\ kept \cup refused = {c \in Lists!Chunks : state[c] = "OCCUPIED"}
      /\ kept \cap refused = {} /\ size = Cardinality(kept \cup refused)
  BY DEF LInv
<1> HIDE DEF LInv
<1>5. Lists!FreeChunks = {c \in Lists!Chunks : state[c] = "EMPTY"}
  BY <1>2 DEF LFree
<1> QED
  BY <1>1, <1>3, <1>4, <1>5, ListCardinality DEF Lists!ChunksAccounted

\* s is the order of the nodes in the list: those that callers keep and that are linked to others.
LOrder(s) ==
  /\ s \in Seq(Lists!Chunks) /\ IsRound(next, Root, s)
  /\ \A i \in 1..Len(s) : s[i] \in kept
  /\ \A n \in kept : next[n] # n <=> \E i \in 1..Len(s) : s[i] = n

\* There are no more nodes than chunks.
LEMMA LLength ==
  ASSUME NEW s \in Seq(Lists!Chunks), NEW nxt, IsRound(nxt, Root, s)
  PROVE  Len(s) \in Nat /\ Len(s) <= Capacity
<1>1. Capacity \in Nat
  BY ParametersAssumption
<1>2. IsFiniteSet(Lists!Chunks) /\ Cardinality(Lists!Chunks) = Capacity
  <2> DEFINE top == Capacity - 1
  <2>1. 0 \in Int /\ top \in Int /\ ~(0 > top) /\ top - 0 + 1 = Capacity
    BY ParametersAssumption
  <2> HIDE DEF top
  <2>2. IsFiniteSet(0..top) /\ Cardinality(0..top) = IF 0 > top THEN 0 ELSE top - 0 + 1
    BY <2>1, FS_Interval
  <2> QED
    BY <2>1, <2>2 DEF top, Lists!Chunks
<1>3. \A i, j \in 1..Len(s) : s[i] = s[j] => i = j
  BY DEF IsRound
<1>4. Len(s) <= Cardinality(Lists!Chunks)
  BY <1>2, <1>3, RoundLength
<1> QED
  BY <1>2, <1>4, LenProperties

\* A loop over the links meets them in this order.
LEMMA LWalk ==
  ASSUME NEW s \in Seq(Lists!Chunks), NEW nxt, IsRound(nxt, Root, s)
  PROVE  Lists!Walk(nxt) = s
<1> DEFINE Tab(f) == f = [i \in 0..Capacity + 1 |-> IF i = 0 THEN Root ELSE nxt[f[i - 1]]]
           c == CHOOSE f : Tab(f)
           Fits(i) == c[i + 1] = Root /\ \A j \in 1..i : c[j] # Root
           m == CHOOSE i \in 0..Capacity : Fits(i)
           len == Len(s)
<1>1. len \in Nat /\ len <= Capacity /\ Capacity \in Nat
  BY LLength, ParametersAssumption
<1>2. PICK g : IsTour(g, Capacity + 1, Root, nxt)
  BY <1>1, TourExists
<1>3. Tab(c)
  <2>1. Tab(g)
    BY <1>2, Zenon DEF IsTour
  <2> HIDE DEF Tab
  <2> QED
    BY <2>1
<1>4. Lists!Walk(nxt) = [i \in 1..m |-> c[i]]
  BY DEF Lists!Walk
<1> HIDE DEF c
<1>5. IsTour(c, Capacity + 1, Root, nxt)
  BY <1>3, Zenon DEF IsTour
<1>6. /\ \A i \in 1..len : c[i] = s[i]
      /\ \A i \in 0..Capacity : Fits(i) <=> i = len
  BY <1>1, <1>5, RoundMet
<1>7. m = len
  <2>1. len \in 0..Capacity
    BY <1>1
  <2> HIDE DEF Fits
  <2> QED
    BY <1>6, <2>1
<1>8. s = [i \in 1..len |-> s[i]]
  BY LenProperties
<1> HIDE DEF m, len
<1> QED
  BY <1>4, <1>6, <1>7, <1>8

\* Where the list is linked on both sides
LEMMA LStops ==
  ASSUME LInv, NEW s, LOrder(s)
  PROVE  /\ Len(s) \in Nat /\ s \in Seq(Lists!Nodes)
         /\ \A i \in 0..(Len(s) + 1) : Stop(s, Root, i) \in kept \cup {Root}
         /\ \A i \in 0..Len(s) : next[Stop(s, Root, i)] = Stop(s, Root, i + 1) /\ prev[Stop(s, Root, i + 1)] = Stop(s, Root, i)
         /\ Stop(s, Root, 0) = Root /\ Stop(s, Root, Len(s) + 1) = Root
         /\ \A i \in 1..Len(s) : Stop(s, Root, i) = s[i]
         /\ \A r \in Lists!InList \cup {Root} : \E i \in 0..Len(s) : Stop(s, Root, i) = r /\ (r = Root <=> i = 0)
<1> DEFINE n == Len(s)
           K == kept \cup {Root}
<1>1. n \in Nat /\ s \in Seq(Lists!Chunks)
  BY LenProperties DEF LOrder
<1>2. s \in Seq(Lists!Nodes)
  <2>1. \A i \in 1..n : s[i] \in Lists!Nodes
    BY <1>1, ElementOfSeq DEF Lists!Nodes
  <2> QED
    BY <1>1, <2>1
<1>3. /\ Stop(s, Root, 0) = Root /\ Stop(s, Root, n + 1) = Root /\ \A i \in 1..n : Stop(s, Root, i) = s[i]
  BY <1>1 DEF Stop
<1>4. \A i \in 0..(n + 1) : i = 0 \/ i = n + 1 \/ i \in 1..n
  BY <1>1
<1>5. \A i \in 0..(n + 1) : Stop(s, Root, i) \in K
  BY <1>3, <1>4 DEF LOrder
<1>6. \A i \in 0..n : next[Stop(s, Root, i)] = Stop(s, Root, i + 1)
  BY DEF LOrder, IsRound
<1>7. \A a \in K : prev[next[a]] = a
  BY RingNodes DEF LRing, RingOn
<1>8. \A i \in 0..n : i \in 0..(n + 1)
  BY <1>1
<1>9. \A i \in 0..n : prev[Stop(s, Root, i + 1)] = Stop(s, Root, i)
  BY <1>5, <1>6, <1>7, <1>8
<1>10. ASSUME NEW r \in Lists!InList \cup {Root}
       PROVE  \E i \in 0..n : Stop(s, Root, i) = r /\ (r = Root <=> i = 0)
  <2>1. CASE r = Root
    BY <1>1, <1>3, <2>1
  <2>2. CASE r # Root
    <3>1. r \in kept /\ next[r] # r
      BY <2>2 DEF Lists!InList, Lists!Unlinked
    <3>2. PICK i \in 1..n : s[i] = r
      BY <3>1 DEF LOrder
    <3>3. i \in 0..n /\ i # 0
      BY <1>1
    <3> QED
      BY <1>3, <2>2, <3>2, <3>3
  <2> QED
    BY <2>1, <2>2
<1> QED
  BY <1>1, <1>2, <1>3, <1>5, <1>6, <1>9, <1>10

\* The list has an order after the step too.
LKept == (\E s : LOrder(s))'

\* The elements of a list, as the steps of NodeDeque name them
LEMMA LHeld ==
  ASSUME NEW s, LOrder(s)
  PROVE  /\ Lists!Forward = s /\ DOMAIN s = 1..Len(s) /\ Lists!Deque!ToSet(s) = {s[i] : i \in 1..Len(s)}
         /\ \A i : Lists!Deque!At(i) = Stop(s, Root, i)
<1>1. DOMAIN s = 1..Len(s) /\ Lists!Walk(next) = s
  BY LWalk, LenProperties DEF LOrder
<1>2. Lists!Forward = s
  BY <1>1 DEF Lists!Forward
<1> QED
  BY <1>1, <1>2 DEF Lists!Deque!ToSet, Lists!Deque!At, Stop

\* A call that leaves the list alone
LEMMA LSame ==
  ASSUME NEW s, LOrder(s), next'[Root] = next[Root], \A i \in 1..Len(s) : next'[s[i]] = next[s[i]],
         \A i \in 1..Len(s) : s[i] \in kept', \A n \in kept' : next'[n] # n <=> \E i \in 1..Len(s) : s[i] = n
  PROVE  LKept /\ UNCHANGED Lists!Forward
<1>1. s \in Seq(Lists!Chunks) /\ IsRound(next, Root, s)
  BY DEF LOrder
<1>2. IsRound(next', Root, s)
  BY <1>1, RoundSame
<1>3. Lists!Walk(next') = s
  BY <1>1, <1>2, LWalk
<1>4. (\E t : LOrder(t))'
  <2>1. s \in Seq(Lists!Chunks) /\ IsRound(next', Root, s) /\ (\A i \in 1..Len(s) : s[i] \in kept')
        /\ \A n \in kept' : next'[n] # n <=> \E i \in 1..Len(s) : s[i] = n
    BY <1>1, <1>2
  <2> QED
    BY <2>1 DEF LOrder
<1>5. UNCHANGED Lists!Forward
  BY <1>3, LHeld DEF Lists!Forward
<1> QED
  BY <1>4, <1>5 DEF LKept

\* ... and that returns no node, or one that is not in the list
LEMMA LOther ==
  ASSUME NEW s, LOrder(s), UNCHANGED Lists!Forward,
         popped' \in {NULL} \cup {c \in Lists!Chunks : \A i \in 1..Len(s) : s[i] # c}
  PROVE  Lists!Deque!Next
<1>1. Lists!Forward = s /\ Lists!Deque!ToSet(s) = {s[i] : i \in 1..Len(s)}
  BY LHeld
<1>2. popped' \in {NULL} \cup (Lists!Chunks \ Lists!Deque!ToSet(Lists!Forward))
  BY <1>1
<1> QED
  BY <1>2 DEF Lists!Deque!Next, Lists!Deque!Other

\* A node that is in no list is linked in behind place k.
LEMMA LPut ==
  ASSUME LInv, NEW s, LOrder(s), NEW n \in Lists!Unlinked, NEW k \in 0..Len(s), NEW p, p = Stop(s, Root, k),
         next' = [next EXCEPT ![n] = next[p], ![p] = n], Lists!Returns(NULL)
  PROVE  LKept /\ Lists!Deque!Put(k + 1, n)
<1> DEFINE m == Len(s)
           r == With(s, k, n)
<1>1. /\ m \in Nat /\ k \in 0..m /\ k \in Nat /\ k <= m /\ k + 1 \in 1..(m + 1) /\ (k + 1) - 1 = k
      /\ s \in Seq(Lists!Chunks) /\ IsRound(next, Root, s) /\ p \in kept \cup {Root} /\ s \in Seq(Lists!Nodes)
      /\ next[p] = Stop(s, Root, k + 1) /\ Stop(s, Root, k + 1) \in kept \cup {Root}
  BY LStops DEF LOrder
<1>2. n \in kept /\ next[n] = n /\ n \in Lists!Chunks /\ n \in Lists!Nodes /\ n # Root
  <2>1. n \in kept /\ next[n] = n
    BY DEF Lists!Unlinked
  <2>2. n \in Lists!Chunks
    BY <2>1 DEF LInv, Lists!ListTypeOK
  <2> QED
    BY <2>1, <2>2, RingNodes DEF Lists!Nodes
<1>3. \A i \in 1..m : s[i] # n
  BY <1>2 DEF LOrder
<1>4. kept' = kept /\ popped' = NULL
  BY DEF Lists!Returns
<1>5. /\ r \in Seq(Lists!Chunks) /\ Len(r) = m + 1
      /\ \A i \in 1..Len(r) : r[i] = IF i <= k THEN s[i] ELSE IF i = k + 1 THEN n ELSE s[i - 1]
  <2>1. s \in Seq(Lists!Chunks) /\ k \in Nat /\ k <= Len(s) /\ n \in Lists!Chunks
    BY <1>1, <1>2
  <2>2. r \in Seq(Lists!Chunks) /\ IsWith(r, s, k, n)
    BY <2>1, SeqPut
  <2> HIDE DEF r
  <2> QED
    BY <2>2 DEF IsWith
<1>6. Lists!Deque!InsertAt(s, k + 1, n) = r
  BY DEF Lists!Deque!InsertAt, With
<1> HIDE DEF r
<1>7. DOMAIN next = Lists!Nodes /\ Root \in Lists!Nodes /\ Root \notin kept
  BY RingNodes DEF Lists!Nodes
<1>8. IsRound(next', Root, r)
  BY <1>1, <1>2, <1>3, <1>5, <1>7, RoundPut
<1>9. Lists!Walk(next') = r
  BY <1>5, <1>8, LWalk
<1> HIDE DEF m
<1>10. \A i \in 1..(m + 1) : r[i] = n \/ \E j \in 1..m : r[i] = s[j]
  <2> TAKE i \in 1..(m + 1)
  <2>1. CASE i <= k
    <3>1. i \in 1..m
      BY <1>1, <2>1
    <3> QED
      BY <1>5, <2>1, <3>1
  <2>2. CASE i = k + 1
    BY <1>1, <1>5, <2>2
  <2>3. CASE ~(i <= k) /\ i # k + 1
    <3>1. i - 1 \in 1..m
      BY <1>1, <2>3
    <3> QED
      BY <1>5, <2>3, <3>1
  <2> QED
    BY <2>1, <2>2, <2>3
<1>11. (\E i \in 1..(m + 1) : r[i] = n) /\ \A j \in 1..m : \E i \in 1..(m + 1) : r[i] = s[j]
  <2>1. r[k + 1] = n
    BY <1>1, <1>5
  <2>2. ASSUME NEW j \in 1..m PROVE \E i \in 1..(m + 1) : r[i] = s[j]
    <3>1. CASE j <= k
      <4>1. j \in 1..(m + 1)
        BY <1>1
      <4>2. r[j] = s[j]
        BY <1>5, <3>1, <4>1
      <4> QED
        BY <4>1, <4>2
    <3>2. CASE ~(j <= k)
      <4> HIDE DEF m
      <4>1. m \in Nat /\ k \in Nat /\ j \in 1..m
        BY <1>1
      <4>2. j + 1 \in 1..(m + 1) /\ ~(j + 1 <= k) /\ j + 1 # k + 1 /\ (j + 1) - 1 = j
        BY <3>2, <4>1
      <4>3. r[j + 1] = s[j]
        BY <1>5, <4>2
      <4> QED
        BY <4>2, <4>3
    <3> QED
      BY <3>1, <3>2
  <2> QED
    BY <1>1, <2>1, <2>2
<1>12. p # n /\ next[p] # n
  <2>1. Stop(s, Root, k) # n /\ Stop(s, Root, k + 1) # n
    BY <1>2, <1>3 DEF Stop, m
  <2> QED
    BY <1>1, <2>1
<1>13. \A a \in kept : next'[a] # a <=> (a = n \/ \E j \in 1..m : s[j] = a)
  <2> TAKE a \in kept
  <2>1. a \in Lists!Nodes
    BY RingNodes
  <2>2. CASE a = n
    <3>1. next'[n] = next[p]
      BY <1>2, <1>7, <1>12
    <3> QED
      BY <1>12, <2>2, <3>1
  <2>3. CASE a = p
    <3>1. next'[a] = n
      BY <1>7, <1>12, <2>1, <2>3
    <3>2. a # Root /\ a = Stop(s, Root, k)
      BY <1>7, <2>3
    <3>3. \E j \in 1..m : s[j] = a
      BY <3>2 DEF Stop, m
    <3> QED
      BY <1>12, <2>3, <3>1, <3>3
  <2>4. CASE a # n /\ a # p
    <3>1. next'[a] = next[a]
      BY <1>7, <2>1, <2>4
    <3> QED
      BY <2>4, <3>1 DEF LOrder, m
  <2> QED
    BY <2>2, <2>3, <2>4
<1>14. (\E t : LOrder(t))'
  <2>1. \A i \in 1..Len(r) : r[i] \in kept'
    <3>1. \A j \in 1..m : s[j] \in kept
      BY DEF LOrder, m
    <3> QED
      BY <1>2, <1>4, <1>5, <1>10, <3>1
  <2>2. \A a \in kept : (\E i \in 1..(m + 1) : r[i] = a) <=> (a = n \/ \E j \in 1..m : s[j] = a)
    BY <1>10, <1>11
  <2>3. \A a \in kept' : next'[a] # a <=> \E i \in 1..Len(r) : r[i] = a
    BY <1>4, <1>5, <1>13, <2>2, Zenon
  <2> QED
    BY <1>5, <1>8, <2>1, <2>3, ZenonT(40) DEF LOrder
<1>15. Lists!Deque!Put(k + 1, n)
  <2>1. Lists!Forward = s /\ Lists!Deque!ToSet(s) = {s[i] : i \in 1..m}
    BY LHeld DEF m
  <2>2. Lists!Forward' = Lists!Deque!InsertAt(Lists!Forward, k + 1, n)
    BY <1>6, <1>9, <2>1 DEF Lists!Forward
  <2>3. n \notin Lists!Deque!ToSet(Lists!Forward) /\ popped' = NULL
    BY <1>3, <1>4, <2>1
  <2> QED
    BY <2>2, <2>3 DEF Lists!Deque!Put
<1> QED
  BY <1>14, <1>15 DEF LKept

\* The node at place k is taken out.
LEMMA LTake ==
  ASSUME LInv, NEW s, LOrder(s), NEW k \in 1..Len(s), NEW e, e = s[k], Lists!unlink(e), kept' = kept
  PROVE  LKept /\ Lists!Deque!Take(k, popped')
<1> DEFINE m == Len(s)
           r == Without(s, k)
           p == Stop(s, Root, k - 1)
           q == Stop(s, Root, k + 1)
<1>1. m \in Nat /\ k \in 1..m /\ k - 1 \in 0..m /\ k \in 0..m /\ (k - 1) + 1 = k
      /\ s \in Seq(Lists!Chunks) /\ IsRound(next, Root, s) /\ s \in Seq(Lists!Nodes)
  <2>1. m \in Nat /\ s \in Seq(Lists!Nodes)
    BY LStops
  <2>2. s \in Seq(Lists!Chunks) /\ IsRound(next, Root, s)
    BY DEF LOrder
  <2> QED
    BY <2>1, <2>2
<1>2. Stop(s, Root, k) = e /\ next[e] = q /\ prev[e] = p /\ e \in kept /\ p \in kept \cup {Root} /\ q \in kept \cup {Root}
  <2>1. Stop(s, Root, k) = e
    BY <1>1, LStops
  <2>2. next[Stop(s, Root, k)] = q /\ prev[Stop(s, Root, (k - 1) + 1)] = p
    BY <1>1, LStops
  <2>3. k - 1 \in 0..(m + 1) /\ k + 1 \in 0..(m + 1)
    BY <1>1
  <2>4. p \in kept \cup {Root} /\ q \in kept \cup {Root}
    BY <2>3, LStops
  <2> QED
    BY <1>1, <2>1, <2>2, <2>4 DEF LOrder
<1>3. next' = [next EXCEPT ![p] = next[e], ![e] = e]
  BY <1>2 DEF Lists!unlink
<1>4. /\ r \in Seq(Lists!Chunks) /\ Len(r) = m - 1
      /\ \A i \in 1..Len(r) : r[i] = IF i < k THEN s[i] ELSE s[i + 1]
  <2>1. r \in Seq(Lists!Chunks) /\ IsWithout(r, s, k)
    BY <1>1, SeqTaken
  <2> HIDE DEF r
  <2> QED
    BY <2>1 DEF IsWithout
<1>5. Lists!Deque!RemoveAt(s, k) = r
  BY DEF Lists!Deque!RemoveAt, Without
<1> HIDE DEF r
<1>6. DOMAIN next = Lists!Nodes /\ Root \in Lists!Nodes /\ Root \notin kept /\ kept \subseteq Lists!Nodes
  BY RingNodes DEF Lists!Nodes
<1>7. IsRound(next', Root, r)
  BY <1>1, <1>3, <1>4, <1>6, RoundTake
<1>8. Lists!Walk(next') = r
  BY <1>4, <1>7, LWalk
<1>9. \A i, j \in 0..m : Stop(s, Root, i) = Stop(s, Root, j) => i = j
  BY <1>1, StopsDiffer
<1>10. p # e /\ q # e /\ (p # Root => q # p)
  <2>1. p # e
    <3>1. k - 1 # k
      BY <1>1
    <3> QED
      BY <1>1, <1>2, <1>9, <3>1
  <2>2. q # e /\ (p # Root => q # p)
    <3>1. CASE k + 1 \in 0..m
      <4>1. k + 1 # k /\ k + 1 # k - 1
        BY <1>1
      <4> QED
        BY <1>1, <1>2, <1>9, <3>1, <4>1
    <3>2. CASE k + 1 \notin 0..m
      <4>1. k + 1 = m + 1
        BY <1>1, <3>2
      <4>2. q = Root
        BY <1>1, <4>1, LStops
      <4> QED
        BY <1>2, <1>6, <4>2
    <3> QED
      BY <3>1, <3>2
  <2> QED
    BY <2>1, <2>2
<1>11. \A i \in 1..(m - 1) : \E j \in 1..m : r[i] = s[j] /\ j # k
  <2> TAKE i \in 1..(m - 1)
  <2>1. CASE i < k
    <3>1. i \in 1..m /\ i # k
      BY <1>1, <2>1
    <3>2. r[i] = s[i]
      BY <1>4, <2>1
    <3> QED
      BY <3>1, <3>2
  <2>2. CASE ~(i < k)
    <3>1. i + 1 \in 1..m /\ i + 1 # k
      BY <1>1, <2>2
    <3>2. r[i] = s[i + 1]
      BY <1>4, <2>2
    <3> QED
      BY <3>1, <3>2
  <2> QED
    BY <2>1, <2>2
<1>12. \A j \in 1..m : j # k => \E i \in 1..(m - 1) : r[i] = s[j]
  <2> TAKE j \in 1..m
  <2> HAVE j # k
  <2>1. CASE j < k
    <3>1. j \in 1..(m - 1)
      BY <1>1, <2>1
    <3>2. r[j] = s[j]
      BY <1>4, <2>1, <3>1
    <3> QED
      BY <3>1, <3>2
  <2>2. CASE ~(j < k)
    <3>1. j - 1 \in 1..(m - 1) /\ ~(j - 1 < k) /\ (j - 1) + 1 = j
      BY <1>1, <2>2
    <3>2. r[j - 1] = s[j]
      BY <1>4, <3>1
    <3> QED
      BY <3>1, <3>2
  <2> QED
    BY <2>1, <2>2
<1>13. \A j \in 1..m : s[j] = e => j = k
  BY <1>1 DEF IsRound
<1>14. \A a \in kept : (\E i \in 1..(m - 1) : r[i] = a) <=> (a # e /\ \E j \in 1..m : s[j] = a)
  <2> TAKE a \in kept
  <2>1. ASSUME NEW i \in 1..(m - 1), r[i] = a PROVE a # e /\ \E j \in 1..m : s[j] = a
    BY <1>11, <1>13, <2>1
  <2>2. ASSUME a # e, NEW j \in 1..m, s[j] = a PROVE \E i \in 1..(m - 1) : r[i] = a
    BY <1>12, <2>2
  <2> QED
    BY <2>1, <2>2
<1> HIDE DEF m, p, q
<1>15. ASSUME NEW a \in kept PROVE next'[a] # a <=> (a # e /\ \E j \in 1..m : s[j] = a)
  <2>1. a \in Lists!Nodes
    BY <1>6
  <2>2. next[a] # a <=> \E j \in 1..m : s[j] = a
    BY DEF LOrder, m
  <2>3. CASE a = e
    <3>1. next'[a] = a
      BY <1>3, <1>6, <2>1, <2>3
    <3> QED
      BY <2>3, <3>1
  <2>4. CASE a = p
    <3>1. next'[a] = q /\ p # Root
      BY <1>2, <1>3, <1>6, <1>10, <2>1, <2>4
    <3>2. a = Stop(s, Root, k - 1) /\ a # Root
      BY <2>4, <3>1 DEF p
    <3>3. \E j \in 1..m : s[j] = a
      BY <3>2 DEF Stop, m
    <3> QED
      BY <1>10, <2>4, <3>1, <3>3
  <2>5. CASE a # e /\ a # p
    <3>1. next'[a] = next[a]
      BY <1>3, <1>6, <2>1, <2>5
    <3> QED
      BY <2>2, <2>5, <3>1
  <2> QED
    BY <2>3, <2>4, <2>5
<1>16. (\E t : LOrder(t))'
  <2>1. \A i \in 1..Len(r) : r[i] \in kept'
    <3>1. \A j \in 1..m : s[j] \in kept
      BY DEF LOrder, m
    <3> QED
      BY <1>4, <1>11, <3>1
  <2>2. \A a \in kept' : next'[a] # a <=> \E i \in 1..Len(r) : r[i] = a
    BY <1>4, <1>14, <1>15, Zenon
  <2> QED
    BY <1>4, <1>7, <2>1, <2>2 DEF LOrder
<1>17. Lists!Deque!Take(k, popped')
  <2>1. Lists!Forward = s
    BY LHeld
  <2>2. Lists!Forward' = Lists!Deque!RemoveAt(Lists!Forward, k)
    BY <1>5, <1>8, <2>1 DEF Lists!Forward
  <2> QED
    BY <2>2 DEF Lists!Deque!Take
<1> QED
  BY <1>16, <1>17 DEF LKept

\* add_head and add_tail, at any place of the list
LEMMA LLinks ==
  ASSUME LInv, NEW s, LOrder(s), NEW n \in Lists!Unlinked, NEW r \in Lists!InList \cup {Root}, Lists!Returns(NULL),
         Lists!add_head(r, n) \/ Lists!add_tail(r, n)
  PROVE  /\ LKept
         /\ Lists!add_head(r, n) => Lists!Deque!PutBehind(r, n)
         /\ Lists!add_tail(r, n) => Lists!Deque!PutInFront(r, n)
<1>1. Len(s) \in Nat /\ Lists!Forward = s /\ \A i : Lists!Deque!At(i) = Stop(s, Root, i)
  BY LStops, LHeld
<1>2. PICK i \in 0..Len(s) : Stop(s, Root, i) = r /\ (r = Root <=> i = 0)
  BY LStops
<1>3. ASSUME Lists!add_head(r, n) PROVE LKept /\ Lists!Deque!PutBehind(r, n)
  <2>1. next' = [next EXCEPT ![n] = next[r], ![r] = n]
    BY <1>3 DEF Lists!add_head
  <2>2. LKept /\ Lists!Deque!Put(i + 1, n)
    BY <1>2, <2>1, LPut
  <2> QED
    BY <1>1, <1>2, <2>2 DEF Lists!Deque!PutBehind
<1>4. ASSUME Lists!add_tail(r, n) PROVE LKept /\ Lists!Deque!PutInFront(r, n)
  <2>1. PICK j \in 0..Len(s) : Stop(s, Root, j + 1) = r
    <3>1. CASE i = 0
      <4>1. Len(s) \in 0..Len(s) /\ Stop(s, Root, Len(s) + 1) = Root
        BY <1>1, LStops
      <4> QED
        BY <1>2, <3>1, <4>1
    <3>2. CASE i # 0
      <4>1. i - 1 \in 0..Len(s) /\ (i - 1) + 1 = i
        BY <1>1, <3>2
      <4> QED
        BY <1>2, <4>1
    <3> QED
      BY <3>1, <3>2
  <2> DEFINE p == Stop(s, Root, j)
  <2>2. prev[r] = p /\ next[p] = r
    BY <2>1, LStops
  <2> HIDE DEF p
  <2>3. next' = [next EXCEPT ![n] = next[p], ![p] = n]
    BY <1>4, <2>2 DEF Lists!add_tail
  <2>4. p = Stop(s, Root, j)
    BY DEF p
  <2>5. LKept /\ Lists!Deque!Put(j + 1, n)
    BY <2>3, <2>4, LPut
  <2>6. j + 1 \in 1..(Len(s) + 1)
    BY <1>1
  <2> QED
    BY <1>1, <2>1, <2>5, <2>6 DEF Lists!Deque!PutInFront
<1> QED
  BY <1>3, <1>4

\* A node of the list that is not linked to another: the root, when the list is empty
LEMMA LPopEmpty ==
  ASSUME LInv, NEW s, LOrder(s), Len(s) = 0, Lists!unlink(Root), Lists!Returns(Root)
  PROVE  LKept /\ Lists!Deque!PopNone
<1>1. next[Root] = Root /\ prev[Root] = Root
  <2>1. 0 \in 0..Len(s)
    OBVIOUS
  <2>2. next[Stop(s, Root, 0)] = Stop(s, Root, 1) /\ prev[Stop(s, Root, 1)] = Stop(s, Root, 0)
    BY <2>1, LStops
  <2>3. Stop(s, Root, 0) = Root /\ Stop(s, Root, 1) = Root
    BY LStops
  <2> QED
    BY <2>2, <2>3
<1>2. next' = next
  BY <1>1, RingNodes DEF Lists!unlink, Lists!Nodes, LRing
<1>3. kept' = kept /\ popped' = Root
  BY DEF Lists!Returns
<1>4. (\A i \in 1..Len(s) : s[i] \in kept) /\ \A n \in kept : next[n] # n <=> \E i \in 1..Len(s) : s[i] = n
  BY DEF LOrder
<1>5. LKept /\ UNCHANGED Lists!Forward
  BY <1>2, <1>3, <1>4, LSame
<1>6. Lists!Forward = <<>>
  <2>1. s \in Seq(Lists!Chunks)
    BY DEF LOrder
  <2>2. s = <<>>
    BY <2>1, EmptySeq
  <2> QED
    BY <2>2, LHeld
<1> QED
  BY <1>3, <1>5, <1>6 DEF Lists!Deque!PopNone

\* The pop of the first node
LEMMA LPopFront ==
  ASSUME LInv, NEW s, LOrder(s), Lists!pop_front
  PROVE  LKept /\ Lists!Deque!PopFirst
<1>1. Lists!unlink(next[Root]) /\ Lists!Returns(next[Root]) /\ kept' = kept /\ popped' = next[Root]
  BY DEF Lists!pop_front, Lists!Returns
<1>2. Len(s) \in Nat
  BY LStops
<1>3. next[Root] = Stop(s, Root, 1)
  <2>1. 0 \in 0..Len(s) /\ 0 + 1 = 1
    BY <1>2
  <2> QED
    BY <2>1, LStops
<1>4. CASE Len(s) = 0
  <2>1. next[Root] = Root
    BY <1>3, <1>4, LStops
  <2> QED
    BY <1>1, <1>4, <2>1, LPopEmpty DEF Lists!Deque!PopFirst
<1>5. CASE Len(s) # 0
  <2>1. 1 \in 1..Len(s)
    BY <1>2, <1>5
  <2>2. next[Root] = s[1]
    BY <1>3, <2>1, LStops
  <2>3. LKept /\ Lists!Deque!Take(1, popped')
    BY <1>1, <2>1, <2>2, LTake
  <2>4. Lists!Forward # <<>> /\ popped' = Lists!Forward[1]
    BY <1>1, <1>5, <2>2, LHeld
  <2> QED
    BY <2>3, <2>4 DEF Lists!Deque!PopFirst
<1> QED
  BY <1>4, <1>5

\* The pop of the last node
LEMMA LPopBack ==
  ASSUME LInv, NEW s, LOrder(s), Lists!pop_back
  PROVE  LKept /\ Lists!Deque!PopLast
<1>1. Lists!unlink(prev[Root]) /\ Lists!Returns(prev[Root]) /\ kept' = kept /\ popped' = prev[Root]
  BY DEF Lists!pop_back, Lists!Returns
<1>2. Len(s) \in Nat
  BY LStops
<1>3. prev[Root] = Stop(s, Root, Len(s))
  <2>1. Len(s) \in 0..Len(s)
    BY <1>2
  <2> QED
    BY <2>1, LStops
<1>4. CASE Len(s) = 0
  <2>1. prev[Root] = Root
    BY <1>3, <1>4, LStops
  <2> QED
    BY <1>1, <1>4, <2>1, LPopEmpty DEF Lists!Deque!PopLast
<1>5. CASE Len(s) # 0
  <2>1. Len(s) \in 1..Len(s)
    BY <1>2, <1>5
  <2>2. prev[Root] = s[Len(s)]
    BY <1>3, <2>1, LStops
  <2>3. LKept /\ Lists!Deque!Take(Len(s), popped')
    BY <1>1, <2>1, <2>2, LTake
  <2>4. Lists!Forward = s /\ Lists!Forward # <<>> /\ popped' = Lists!Forward[Len(Lists!Forward)]
    BY <1>1, <1>5, <2>2, LHeld
  <2> QED
    BY <2>3, <2>4 DEF Lists!Deque!PopLast
<1> QED
  BY <1>4, <1>5

\* A node is taken out of the list, wherever it is.
LEMMA LUnlinkAt ==
  ASSUME LInv, NEW s, LOrder(s), NEW n \in Lists!InList, Lists!unlink_at(n)
  PROVE  LKept /\ Lists!Deque!TakeOut(n)
<1>1. Lists!unlink(n) /\ kept' = kept /\ popped' = next[n]
  BY DEF Lists!unlink_at, Lists!Returns
<1>2. n \in kept /\ next[n] # n
  BY DEF Lists!InList, Lists!Unlinked
<1>3. PICK k \in 1..Len(s) : s[k] = n
  BY <1>2 DEF LOrder
<1>4. LKept /\ Lists!Deque!Take(k, popped')
  BY <1>1, <1>3, LTake
<1>5. popped' = Lists!Deque!At(k + 1) /\ k \in DOMAIN Lists!Forward /\ Lists!Forward[k] = n
  <2>1. Len(s) \in Nat
    BY LStops
  <2>2. k \in 0..Len(s)
    BY <2>1
  <2>3. popped' = Stop(s, Root, k + 1)
    BY <1>1, <1>3, <2>2, LStops
  <2> QED
    BY <1>3, <2>3, LHeld
<1> QED
  BY <1>4, <1>5 DEF Lists!Deque!TakeOut

\* Every call changes the place it names.
LEMMA LPlaces ==
  ASSUME LInv, NEW s, LOrder(s)
  PROVE  Lists!NamesItsPlace
<1>1. ASSUME NEW n \in Lists!Unlinked
      PROVE  /\ Lists!push_front(n) => Lists!Deque!PutBehind(Root, n)
             /\ Lists!push_back(n)  => Lists!Deque!PutInFront(Root, n)
  BY LLinks DEF Lists!push_front, Lists!push_back
<1>2. ASSUME NEW n \in Lists!Unlinked, NEW target \in Lists!InList \cup {Root}
      PROVE  /\ Lists!insert_before(target, n) => Lists!Deque!PutBehind(target, n)
             /\ Lists!insert_after(target, n)  => Lists!Deque!PutInFront(target, n)
  BY LLinks DEF Lists!insert_before, Lists!insert_after
<1> QED
  BY <1>1, <1>2, LPopFront, LPopBack, LUnlinkAt DEF Lists!NamesItsPlace

\* Every step keeps an order of the nodes, and is one of a deque.
LEMMA LDeque ==
  ASSUME LInv, NEW s, LOrder(s), Lists!NextL
  PROVE  LKept /\ Lists!Deque!Next
<1>1. /\ Len(s) \in Nat /\ (\A i \in 1..Len(s) : s[i] \in kept)
      /\ \A n \in kept : next[n] # n <=> \E i \in 1..Len(s) : s[i] = n
  BY LStops DEF LOrder
<1>2. /\ DOMAIN next = Lists!Nodes /\ kept \subseteq Lists!Nodes /\ kept \subseteq Lists!Chunks
      /\ Root \notin kept /\ Root \in Lists!Nodes
  BY RingNodes DEF LInv, Lists!ListTypeOK, Lists!Nodes
<1>3. CASE Lists!new_node
  <2>1. /\ free_head # NULL /\ next' = [next EXCEPT ![free_head] = free_head]
        /\ kept' = kept \cup {free_head} /\ popped' = free_head
    BY <1>3 DEF Lists!new_node
  <2>2. free_head \in LFree
    BY <2>1, FreeListPop, LEndNone DEF LInv
  <2>3. free_head \in Lists!Chunks /\ free_head \notin kept /\ free_head # Root
    BY <2>2, NoneAssumption DEF LInv, LFree, Lists!Chunks
  <2>4. free_head \in Lists!Nodes
    BY <2>3 DEF Lists!Nodes
  <2>5. next'[free_head] = free_head /\ \A a \in kept \cup {Root} : next'[a] = next[a]
    BY <1>2, <2>1, <2>3, <2>4
  <2>6. \A i \in 1..Len(s) : s[i] # free_head
    BY <1>1, <2>3
  <2>7. \A n \in kept' : next'[n] # n <=> \E i \in 1..Len(s) : s[i] = n
    BY <1>1, <2>1, <2>5, <2>6
  <2>8. popped' \in {c \in Lists!Chunks : \A i \in 1..Len(s) : s[i] # c}
    BY <2>1, <2>3, <2>6
  <2>9. LKept /\ UNCHANGED Lists!Forward
    BY <1>1, <2>1, <2>5, <2>7, LSame
  <2> QED
    BY <2>8, <2>9, LOther
<1>4. CASE Lists!new_node_full
  <2>1. next' = next /\ kept' = kept /\ popped' = NULL
    BY <1>4 DEF Lists!new_node_full, Lists!ring
  <2>2. LKept /\ UNCHANGED Lists!Forward
    BY <1>1, <2>1, LSame
  <2> QED
    BY <2>1, <2>2, LOther
<1>5. CASE Lists!pop_front
  BY <1>5, LPopFront DEF Lists!Deque!Next
<1>6. CASE Lists!pop_back
  BY <1>6, LPopBack DEF Lists!Deque!Next
<1>7. ASSUME NEW n \in Lists!Unlinked, NEW target \in Lists!InList \cup {Root}, Lists!Returns(NULL),
             Lists!add_head(target, n) \/ Lists!add_tail(target, n)
      PROVE  LKept /\ Lists!Deque!Next
  <2>1. LKept /\ (Lists!Deque!PutBehind(target, n) \/ Lists!Deque!PutInFront(target, n))
    BY <1>7, LLinks
  <2>2. target \in Lists!Deque!ToSet(Lists!Forward) \cup {Root} /\ n \in Lists!Chunks
    <3>1. target = Root \/ (target \in kept /\ next[target] # target)
      BY DEF Lists!InList, Lists!Unlinked
    <3>2. n \in Lists!Chunks
      BY <1>2 DEF Lists!Unlinked
    <3> QED
      BY <1>1, <3>1, <3>2, LHeld
  <2> QED
    BY <2>1, <2>2 DEF Lists!Deque!Next
<1>8. ASSUME NEW n \in Lists!Unlinked, Lists!push_front(n) \/ Lists!push_back(n) PROVE LKept /\ Lists!Deque!Next
  BY <1>7, <1>8 DEF Lists!push_front, Lists!push_back
<1>9. ASSUME NEW n \in Lists!Unlinked, Lists!free_node(n) \/ Lists!free_node_refused(n) PROVE LKept /\ Lists!Deque!Next
  <2>1. /\ next' = [next EXCEPT ![n] = NULL] \/ next' = next
        /\ kept' = kept \ {n} /\ popped' = NULL
    BY <1>9 DEF Lists!free_node, Lists!free_node_refused, Lists!ring
  <2>2. n \in kept /\ n # Root /\ \A i \in 1..Len(s) : s[i] # n
    BY <1>1, <1>2 DEF Lists!Unlinked
  <2>3. \A a \in kept \cup {Root} : a # n => next'[a] = next[a]
    BY <1>2, <2>1
  <2>4. \A a \in kept' : next'[a] # a <=> \E i \in 1..Len(s) : s[i] = a
    BY <1>1, <2>1, <2>3
  <2>5. \A i \in 1..Len(s) : s[i] \in kept' /\ next'[s[i]] = next[s[i]]
    BY <1>1, <2>1, <2>2, <2>3
  <2>6. next'[Root] = next[Root]
    BY <2>2, <2>3
  <2>7. LKept /\ UNCHANGED Lists!Forward
    BY <2>4, <2>5, <2>6, LSame
  <2> QED
    BY <2>1, <2>7, LOther
<1>10. ASSUME NEW target \in Lists!InList \cup {Root}, NEW n \in Lists!Unlinked,
             Lists!insert_before(target, n) \/ Lists!insert_after(target, n)
      PROVE  LKept /\ Lists!Deque!Next
  BY <1>7, <1>10 DEF Lists!insert_before, Lists!insert_after
<1>11. ASSUME NEW n \in Lists!InList, Lists!unlink_at(n) PROVE LKept /\ Lists!Deque!Next
  <2>1. LKept /\ Lists!Deque!TakeOut(n)
    BY <1>11, LUnlinkAt
  <2>2. n \in Lists!Deque!ToSet(Lists!Forward)
    BY <1>1, LHeld DEF Lists!InList, Lists!Unlinked
  <2> QED
    BY <2>1, <2>2 DEF Lists!Deque!Next
<1> QED
  BY <1>3, <1>4, <1>5, <1>6, <1>8, <1>9, <1>10, <1>11 DEF Lists!NextL

\* The list is empty at first.
LEMMA LDequeInit ==
  ASSUME LInv, Lists!InitL
  PROVE  (\E s : LOrder(s)) /\ Lists!Deque!Init
<1> DEFINE s == <<>>
<1>1. s \in Seq(Lists!Chunks) /\ Len(s) = 0
  OBVIOUS
<1> HIDE DEF s
<1>2. kept = {} /\ popped = NULL /\ next[Root] = Root
  BY DEF Lists!InitL, Lists!Nodes
<1>3. IsRound(next, Root, s)
  BY <1>1, <1>2 DEF IsRound, Stop
<1>4. LOrder(s)
  BY <1>1, <1>2, <1>3 DEF LOrder
<1>5. Lists!Forward = <<>>
  BY <1>4, LHeld DEF s
<1> QED
  BY <1>2, <1>4, <1>5 DEF Lists!Deque!Init

-----------------------------------------------------------------------------
(* cxx_pool_alloc::PoolAllocator *)

\* The Cardinality of the instance
LEMMA PoolCardinality == \A S : IdxPool!Cardinality(S) = Cardinality(S)
BY DEF IdxPool!Cardinality, Cardinality

PFree(p)  == {i \in DOMAIN p.state : p.state[i] = "EMPTY"}
PTaken(p) == {i \in DOMAIN p.state : p.state[i] = "OCCUPIED"}

\* A pool p whose chunks are free or in G
PoolOK(p, G) ==
  /\ p = IdxPool!Pool(p.arr, p.next_free_idx, p.free_head, p.state, p.size, p.errno)
  /\ \E n \in 0..MaxCapacity : DOMAIN p.state = 0..(n - 1) /\ DOMAIN p.next_free_idx = 0..(n - 1)
  /\ p.arr = NULL => DOMAIN p.state = {}
  /\ \A i \in DOMAIN p.state : p.state[i] \in {"EMPTY", "OCCUPIED"}
  /\ IsFreeList(p.free_head, p.next_free_idx, NULL_IDX, PFree(p))
  /\ PTaken(p) = {i \in IdxPool!Idxs : <<p.arr, i>> \in G}
  /\ p.size = Cardinality(PTaken(p))

PInv ==
  /\ pool = [o \in Pools |-> pool[o]]
  /\ \A o \in Pools : PoolOK(pool[o], given)
  /\ \A o, x \in Pools : o # x /\ pool[o].arr = pool[x].arr => pool[o].arr = NULL
  /\ \A c \in given : c[1] # NULL /\ \E o \in Pools : pool[o].arr = c[1]

\* Other pools do not see what happens to the chunks of one.
LEMMA PoolOther ==
  ASSUME NEW p, NEW G, NEW H, PoolOK(p, G), \A i : <<p.arr, i>> \in H <=> <<p.arr, i>> \in G
  PROVE  PoolOK(p, H)
<1>1. {i \in IdxPool!Idxs : <<p.arr, i>> \in G} = {i \in IdxPool!Idxs : <<p.arr, i>> \in H}
  OBVIOUS
<1> QED
  BY <1>1 DEF PoolOK

\* A pool without an array
LEMMA PoolEmpty ==
  ASSUME NEW G, NEW errno, \A i : <<NULL, i>> \notin G
  PROVE  PoolOK(IdxPool!Empty(errno), G) /\ IdxPool!Empty(errno).arr = NULL
<1> DEFINE p == IdxPool!Empty(errno)
<1>1. /\ p = IdxPool!Pool(NULL, <<>>, NULL_IDX, <<>>, 0, errno)
      /\ p.arr = NULL /\ p.next_free_idx = <<>> /\ p.free_head = NULL_IDX /\ p.state = <<>> /\ p.size = 0
      /\ p.errno = errno
  BY DEF IdxPool!Empty, IdxPool!Pool
<1> HIDE DEF p
<1>2. DOMAIN p.state = {} /\ DOMAIN p.next_free_idx = {} /\ 0..(0 - 1) = {}
  BY <1>1
<1>3. 0 \in 0..MaxCapacity
  BY ParametersAssumption
<1>4. PFree(p) = {} /\ PTaken(p) = {}
  BY <1>2 DEF PFree, PTaken
<1>5. IsFreeList(NULL_IDX, p.next_free_idx, NULL_IDX, {})
  <2> DEFINE f == [i \in 1..0 |-> 0]
  <2>1. 1..0 = {} /\ f \in [1..0 -> {}]
    OBVIOUS
  <2> HIDE DEF f
  <2>2. Chain(f, 0, NULL_IDX, p.next_free_idx, NULL_IDX, {})
    BY <2>1 DEF Chain
  <2> QED
    BY <2>2 DEF IsFreeList
<1>6. p.size = Cardinality(PTaken(p))
  BY <1>1, <1>4, FS_EmptySet
<1> QED
  BY <1>1, <1>2, <1>3, <1>4, <1>5, <1>6 DEF PoolOK, p

\* A pool keeps its array: the chunks of the others are the same.
LEMMA PoolKept ==
  ASSUME PInv, NEW o \in Pools, NEW p, p.arr = pool[o].arr, pool' = [pool EXCEPT ![o] = p],
         PoolOK(p, given'), \A a, i : a # p.arr => (<<a, i>> \in given' <=> <<a, i>> \in given),
         \A c \in given' : c[1] # NULL /\ \E x \in Pools : pool[x].arr = c[1]
  PROVE  PInv'
<1>1. pool'[o] = p /\ (\A x \in Pools \ {o} : pool'[x] = pool[x]) /\ pool' = [x \in Pools |-> pool'[x]]
  BY DEF PInv
<1>2. \A x \in Pools : pool'[x].arr = pool[x].arr
  BY <1>1
<1>3. ASSUME NEW x \in Pools PROVE PoolOK(pool'[x], given')
  <2>1. CASE x = o
    BY <1>1, <2>1
  <2>2. CASE x # o
    <3>1. PoolOK(pool[x], given)
      BY DEF PInv
    <3>2. ASSUME NEW i PROVE <<pool[x].arr, i>> \in given' <=> <<pool[x].arr, i>> \in given
      <4>1. CASE pool[x].arr # p.arr
        BY <4>1
      <4>2. CASE pool[x].arr = p.arr
        <5>1. pool[x].arr = NULL
          BY <2>2, <4>2 DEF PInv
        <5>2. <<NULL, i>>[1] = NULL
          OBVIOUS
        <5> QED
          BY <5>1, <5>2 DEF PInv
      <4> QED
        BY <4>1, <4>2
    <3> QED
      BY <1>1, <2>2, <3>1, <3>2, PoolOther
  <2> QED
    BY <2>1, <2>2
<1> QED
  BY <1>1, <1>2, <1>3 DEF PInv

\* A pool gets an array, or none, and loses its own with the chunks that callers had of it.
LEMMA PoolReplaced ==
  ASSUME PInv, NEW o \in Pools, NEW p, pool' = [pool EXCEPT ![o] = p],
         p.arr = NULL \/ \A x \in Pools : pool[x].arr # p.arr,
         given' = IdxPool!GivenWithout(o), PoolOK(p, given')
  PROVE  PInv'
<1>1. pool'[o] = p /\ (\A x \in Pools \ {o} : pool'[x] = pool[x]) /\ pool' = [x \in Pools |-> pool'[x]]
  BY DEF PInv
<1>2. given' = {c \in given : c[1] # pool[o].arr}
  BY DEF IdxPool!GivenWithout
<1>3. ASSUME NEW x \in Pools PROVE PoolOK(pool'[x], given')
  <2>1. CASE x = o
    BY <1>1, <2>1
  <2>2. CASE x # o
    <3>1. PoolOK(pool[x], given)
      BY DEF PInv
    <3>2. ASSUME NEW i PROVE <<pool[x].arr, i>> \in given' <=> <<pool[x].arr, i>> \in given
      <4>1. <<pool[x].arr, i>>[1] = pool[x].arr
        OBVIOUS
      <4>2. <<pool[x].arr, i>> \in given => pool[x].arr # NULL
        BY <4>1 DEF PInv
      <4>3. pool[x].arr = pool[o].arr => pool[x].arr = NULL
        BY <2>2 DEF PInv
      <4> QED
        BY <1>2, <4>1, <4>2, <4>3
    <3> QED
      BY <1>1, <2>2, <3>1, <3>2, PoolOther
  <2> QED
    BY <2>1, <2>2
<1>4. \A x, y \in Pools : x # y /\ pool'[x].arr = pool'[y].arr => pool'[x].arr = NULL
  BY <1>1 DEF PInv
<1>5. \A c \in given' : c[1] # NULL /\ \E x \in Pools : pool'[x].arr = c[1]
  <2> TAKE c \in given'
  <2>1. c[1] # NULL /\ c[1] # pool[o].arr /\ \E x \in Pools : pool[x].arr = c[1]
    BY <1>2 DEF PInv
  <2> QED
    BY <1>1, <2>1
<1> QED
  BY <1>1, <1>3, <1>4, <1>5 DEF PInv

\* Nobody has a chunk of no array.
LEMMA GivenSomewhere ==
  ASSUME PInv
  PROVE  /\ \A i : <<NULL, i>> \notin given
         /\ \A o : IdxPool!GivenWithout(o) \subseteq given
         /\ \A a, i : <<a, i>> \in given => \E o \in Pools : pool[o].arr = a
<1>1. \A a, i : <<a, i>>[1] = a
  OBVIOUS
<1> QED
  BY <1>1 DEF PInv, IdxPool!GivenWithout

\* init, with memory and without
LEMMA PoolInit ==
  ASSUME PInv, NEW o \in Pools, NEW n \in 1..MaxCapacity, IdxPool!init(o, n)
  PROVE  PInv'
<1>1. PICK a \in Arrays \ {pool[x].arr : x \in Pools} :
        pool' = [pool EXCEPT ![o] = IdxPool!Pool(a, [i \in 0..(n - 1) |-> IF i = n - 1 THEN NULL_IDX ELSE i + 1], 0,
                                                 [i \in 0..(n - 1) |-> "EMPTY"], 0, "NOERROR")]
        /\ given' = given /\ pool[o].arr = NULL
  BY DEF IdxPool!init, IdxPool!Becomes
<1> DEFINE nxt == [i \in 0..(n - 1) |-> IF i = n - 1 THEN NULL_IDX ELSE i + 1]
           st  == [i \in 0..(n - 1) |-> "EMPTY"]
           p   == IdxPool!Pool(a, nxt, 0, st, 0, "NOERROR")
<1>2. n \in Nat \ {0} /\ n \in 0..MaxCapacity
  BY ParametersAssumption
<1>3. /\ DOMAIN nxt = 0..(n - 1) /\ DOMAIN st = 0..(n - 1) /\ \A i \in 0..(n - 1) : st[i] = "EMPTY"
      /\ \A i \in 0..(n - 1) : nxt[i] = IF i = n - 1 THEN NULL_IDX ELSE i + 1
  OBVIOUS
<1> HIDE DEF nxt, st
<1>4. p.arr = a /\ p.next_free_idx = nxt /\ p.free_head = 0 /\ p.state = st /\ p.size = 0 /\ p.errno = "NOERROR"
  BY DEF IdxPool!Pool
<1>5. p = IdxPool!Pool(p.arr, p.next_free_idx, p.free_head, p.state, p.size, p.errno)
  BY <1>4
<1>6. a # NULL /\ \A x \in Pools : pool[x].arr # a
  BY <1>1, NoneAssumption
<1>7. pool' = [pool EXCEPT ![o] = p]
  BY <1>1 DEF nxt, st
<1>8. IsFreeList(0, nxt, NULL_IDX, 0..(n - 1))
  BY <1>2, <1>3, FreeListNew
<1> HIDE DEF p
<1>9. PFree(p) = 0..(n - 1) /\ PTaken(p) = {}
  BY <1>3, <1>4 DEF PFree, PTaken
<1>10. {i \in IdxPool!Idxs : <<p.arr, i>> \in given} = {}
  BY <1>4, <1>6, GivenSomewhere
<1>11. p.size = Cardinality(PTaken(p))
  BY <1>4, <1>9, FS_EmptySet
<1>12. PoolOK(p, given)
  <2>1. \E k \in 0..MaxCapacity : DOMAIN p.state = 0..(k - 1) /\ DOMAIN p.next_free_idx = 0..(k - 1)
    BY <1>2, <1>3, <1>4
  <2>2. \A i \in DOMAIN p.state : p.state[i] \in {"EMPTY", "OCCUPIED"}
    BY <1>3, <1>4
  <2>3. IsFreeList(p.free_head, p.next_free_idx, NULL_IDX, PFree(p))
    BY <1>4, <1>8, <1>9
  <2> QED
    BY <1>4, <1>5, <1>6, <1>9, <1>10, <1>11, <2>1, <2>2, <2>3 DEF PoolOK
<1>13. IdxPool!GivenWithout(o) = given
  BY <1>1 DEF IdxPool!GivenWithout, PInv
<1> QED
  BY <1>1, <1>4, <1>6, <1>7, <1>12, <1>13, PoolReplaced

\* A pool gets no array.
LEMMA PoolDropped ==
  ASSUME PInv, NEW o \in Pools, NEW errno, pool' = [pool EXCEPT ![o] = IdxPool!Empty(errno)],
         given' = IdxPool!GivenWithout(o)
  PROVE  PInv'
<1> DEFINE p == IdxPool!Empty(errno)
<1>1. \A i : <<NULL, i>> \notin given'
  BY GivenSomewhere
<1>2. PoolOK(p, given') /\ p.arr = NULL
  BY <1>1, PoolEmpty
<1> HIDE DEF p
<1> QED
  BY <1>2, PoolReplaced DEF p

\* move construction and assignment
LEMMA PoolMoved ==
  ASSUME PInv, NEW o \in Pools, NEW o2 \in Pools, IdxPool!move(o, o2)
  PROVE  PInv'
<1> DEFINE e == IdxPool!Empty("NOERROR")
<1>1. o # o2 /\ pool' = [pool EXCEPT ![o] = pool[o2], ![o2] = e] /\ given' = IdxPool!GivenWithout(o)
  BY DEF IdxPool!move
<1>2. given' = {c \in given : c[1] # pool[o].arr}
  BY <1>1 DEF IdxPool!GivenWithout
<1>3. \A i : <<NULL, i>> \notin given'
  BY <1>1, GivenSomewhere
<1>4. PoolOK(e, given') /\ e.arr = NULL
  BY <1>3, PoolEmpty
<1> HIDE DEF e
<1>5. /\ pool'[o] = pool[o2] /\ pool'[o2] = e /\ (\A x \in Pools \ {o, o2} : pool'[x] = pool[x])
      /\ pool' = [x \in Pools |-> pool'[x]]
  BY <1>1 DEF PInv
<1>6. ASSUME NEW x \in Pools \ {o} PROVE PoolOK(pool[x], given')
  <2>1. PoolOK(pool[x], given)
    BY DEF PInv
  <2>2. ASSUME NEW i PROVE <<pool[x].arr, i>> \in given' <=> <<pool[x].arr, i>> \in given
    <3>1. <<pool[x].arr, i>>[1] = pool[x].arr
      OBVIOUS
    <3>2. <<pool[x].arr, i>> \in given => pool[x].arr # NULL
      BY <3>1 DEF PInv
    <3>3. pool[x].arr = pool[o].arr => pool[x].arr = NULL
      BY DEF PInv
    <3> QED
      BY <1>2, <3>1, <3>2, <3>3
  <2> QED
    BY <2>1, <2>2, PoolOther
<1>7. ASSUME NEW x \in Pools PROVE PoolOK(pool'[x], given')
  <2>1. CASE x = o
    BY <1>1, <1>5, <1>6, <2>1
  <2>2. CASE x = o2
    BY <1>4, <1>5, <2>2
  <2>3. CASE x \notin {o, o2}
    BY <1>5, <1>6, <2>3
  <2> QED
    BY <2>1, <2>2, <2>3
<1>8. \A x, y \in Pools : x # y /\ pool'[x].arr = pool'[y].arr => pool'[x].arr = NULL
  BY <1>1, <1>4, <1>5 DEF PInv
<1>9. \A c \in given' : c[1] # NULL /\ \E x \in Pools : pool'[x].arr = c[1]
  <2> TAKE c \in given'
  <2>1. PICK x \in Pools : pool[x].arr = c[1]
    BY <1>2 DEF PInv
  <2>2. c[1] # NULL /\ x # o
    BY <1>2, <2>1 DEF PInv
  <2>3. CASE x = o2
    BY <1>5, <2>1, <2>2, <2>3
  <2>4. CASE x # o2
    BY <1>5, <2>1, <2>2, <2>4
  <2> QED
    BY <2>3, <2>4
<1> QED
  BY <1>5, <1>7, <1>8, <1>9 DEF PInv

\* Only the error code changes.
LEMMA PoolReports ==
  ASSUME PInv, NEW o \in Pools, NEW err, IdxPool!Report(o, err)
  PROVE  PInv'
<1> DEFINE q == pool[o]
           p == [q EXCEPT !.errno = err]
<1>1. pool' = [pool EXCEPT ![o] = p] /\ given' = given
  BY DEF IdxPool!Report
<1>2. PoolOK(q, given)
  BY DEF PInv
<1>3. q = IdxPool!Pool(q.arr, q.next_free_idx, q.free_head, q.state, q.size, q.errno)
  BY <1>2 DEF PoolOK
<1> HIDE DEF q
<1>4. /\ p.arr = q.arr /\ p.next_free_idx = q.next_free_idx /\ p.free_head = q.free_head /\ p.state = q.state
      /\ p.size = q.size /\ p.errno = err
      /\ p = IdxPool!Pool(p.arr, p.next_free_idx, p.free_head, p.state, p.size, p.errno)
  BY <1>3 DEF IdxPool!Pool
<1> HIDE DEF p
<1>5. PoolOK(p, given)
  BY <1>2, <1>4 DEF PoolOK, PFree, PTaken
<1>6. p.arr = pool[o].arr
  BY <1>4 DEF q
<1>7. \A c \in given : c[1] # NULL /\ \E x \in Pools : pool[x].arr = c[1]
  BY DEF PInv
<1> QED
  BY <1>1, <1>5, <1>6, <1>7, PoolKept

\* What PoolOK says of a pool whose capacity is n
LEMMA PoolFacts ==
  ASSUME NEW p, NEW G, PoolOK(p, G)
  PROVE  /\ \E n \in 0..MaxCapacity : DOMAIN p.state = 0..(n - 1) /\ DOMAIN p.next_free_idx = 0..(n - 1)
         /\ IsFiniteSet(PTaken(p)) /\ IsFiniteSet(DOMAIN p.state)
         /\ Cardinality(PFree(p)) <= MaxCapacity /\ NULL_IDX \notin PFree(p)
         /\ \A n \in Nat : DOMAIN p.state = 0..(n - 1) => Cardinality(DOMAIN p.state) = n
<1>1. PICK n \in 0..MaxCapacity : DOMAIN p.state = 0..(n - 1) /\ DOMAIN p.next_free_idx = 0..(n - 1)
  BY DEF PoolOK
<1>2. ASSUME NEW k \in Nat PROVE IsFiniteSet(0..(k - 1)) /\ Cardinality(0..(k - 1)) = k
  <2> DEFINE top == k - 1
  <2>1. 0 \in Int /\ top \in Int /\ (0 > top => k = 0) /\ (~(0 > top) => top - 0 + 1 = k)
    OBVIOUS
  <2> HIDE DEF top
  <2>2. IsFiniteSet(0..top) /\ Cardinality(0..top) = IF 0 > top THEN 0 ELSE top - 0 + 1
    BY <2>1, FS_Interval
  <2> QED
    BY <2>1, <2>2 DEF top
<1>3. n \in Nat /\ n <= MaxCapacity /\ MaxCapacity \in Nat
  BY ParametersAssumption
<1>4. IsFiniteSet(DOMAIN p.state) /\ Cardinality(DOMAIN p.state) = n
  BY <1>1, <1>2, <1>3
<1>5. PFree(p) \in SUBSET DOMAIN p.state /\ PTaken(p) \in SUBSET DOMAIN p.state
  BY DEF PFree, PTaken
<1>6. Cardinality(PFree(p)) <= n /\ IsFiniteSet(PTaken(p)) /\ IsFiniteSet(PFree(p))
  BY <1>4, <1>5, FS_Subset
<1>7. Cardinality(PFree(p)) \in Nat
  BY <1>6, FS_CardinalityType
<1>8. Cardinality(PFree(p)) <= MaxCapacity
  BY <1>3, <1>6, <1>7
<1>9. NULL_IDX \notin PFree(p)
  BY <1>1, <1>5, NoneAssumption
<1> QED
  BY <1>1, <1>2, <1>4, <1>6, <1>8, <1>9

\* A chunk that was free is given, or one that was given is freed.
LEMMA PoolAlloc ==
  ASSUME PInv, NEW o \in Pools, IdxPool!alloc_chunk(o)
  PROVE  PInv'
<1> DEFINE q  == pool[o]
           c  == q.free_head
           st == [q.state EXCEPT ![c] = "OCCUPIED"]
           p  == IdxPool!Pool(q.arr, q.next_free_idx, q.next_free_idx[c], st, q.size + 1, "NOERROR")
<1>1. c # NULL_IDX /\ pool' = [pool EXCEPT ![o] = p] /\ given' = given \cup {<<q.arr, c>>}
  BY DEF IdxPool!alloc_chunk, IdxPool!Becomes, IdxPool!Handle
<1>2. PoolOK(q, given)
  BY DEF PInv
<1> HIDE DEF q
<1>3. c \in PFree(q) /\ IsFreeList(q.next_free_idx[c], q.next_free_idx, NULL_IDX, PFree(q) \ {c})
  <2>1. IsFreeList(c, q.next_free_idx, NULL_IDX, PFree(q)) /\ NULL_IDX \notin PFree(q)
    BY <1>2, PoolFacts DEF PoolOK
  <2> HIDE DEF c
  <2> QED
    BY <1>1, <2>1, FreeListPop
<1>4. c \in DOMAIN q.state /\ q.state[c] = "EMPTY" /\ q.arr # NULL
  BY <1>2, <1>3 DEF PFree, PoolOK
<1>5. DOMAIN st = DOMAIN q.state /\ \A i \in DOMAIN q.state : st[i] = IF i = c THEN "OCCUPIED" ELSE q.state[i]
  BY <1>4
<1> HIDE DEF st
<1>6. /\ p.arr = q.arr /\ p.next_free_idx = q.next_free_idx /\ p.free_head = q.next_free_idx[c] /\ p.state = st
      /\ p.size = q.size + 1 /\ p = IdxPool!Pool(p.arr, p.next_free_idx, p.free_head, p.state, p.size, p.errno)
  BY DEF IdxPool!Pool
<1> HIDE DEF p
<1>7. PFree(p) = PFree(q) \ {c} /\ PTaken(p) = PTaken(q) \cup {c} /\ c \notin PTaken(q)
  BY <1>4, <1>5, <1>6 DEF PFree, PTaken
<1>8. c \in IdxPool!Idxs
  <2>1. PICK n \in 0..MaxCapacity : DOMAIN q.state = 0..(n - 1)
    BY <1>2, PoolFacts
  <2> QED
    BY <1>4, <2>1, ParametersAssumption DEF IdxPool!Idxs
<1>9. PTaken(p) = {i \in IdxPool!Idxs : <<p.arr, i>> \in given'}
  <2>1. PTaken(q) = {i \in IdxPool!Idxs : <<q.arr, i>> \in given}
    BY <1>2 DEF PoolOK
  <2>2. \A i : <<q.arr, i>> \in given' <=> <<q.arr, i>> \in given \/ i = c
    BY <1>1
  <2> QED
    BY <1>6, <1>7, <1>8, <2>1, <2>2
<1>10. p.size = Cardinality(PTaken(p))
  <2>1. q.size = Cardinality(PTaken(q)) /\ IsFiniteSet(PTaken(q))
    BY <1>2, PoolFacts DEF PoolOK
  <2> QED
    BY <1>6, <1>7, <2>1, FS_AddElement
<1>11. PoolOK(p, given')
  <2>1. \E n \in 0..MaxCapacity : DOMAIN p.state = 0..(n - 1) /\ DOMAIN p.next_free_idx = 0..(n - 1)
    BY <1>2, <1>5, <1>6 DEF PoolOK
  <2>2. \A i \in DOMAIN p.state : p.state[i] \in {"EMPTY", "OCCUPIED"}
    BY <1>2, <1>5, <1>6 DEF PoolOK
  <2>3. IsFreeList(p.free_head, p.next_free_idx, NULL_IDX, PFree(p))
    BY <1>3, <1>6, <1>7
  <2>4. p.arr # NULL
    BY <1>4, <1>6
  <2> QED
    BY <1>6, <1>9, <1>10, <2>1, <2>2, <2>3, <2>4 DEF PoolOK
<1>12. p.arr = pool[o].arr
  BY <1>6 DEF q
<1>13. \A a, i : a # p.arr => (<<a, i>> \in given' <=> <<a, i>> \in given)
  BY <1>1, <1>6
<1>14. \A x \in given' : x[1] # NULL /\ \E y \in Pools : pool[y].arr = x[1]
  <2> TAKE x \in given'
  <2>1. CASE x \in given
    BY <2>1 DEF PInv
  <2>2. CASE x = <<q.arr, c>>
    <3>1. x[1] = q.arr
      BY <2>2
    <3> QED
      BY <1>4, <3>1 DEF q
  <2> QED
    BY <1>1, <2>1, <2>2
<1> QED
  BY <1>1, <1>11, <1>12, <1>13, <1>14, PoolKept

\* free_chunk of a chunk that a caller has
LEMMA PoolFreed ==
  ASSUME PInv, NEW o \in Pools, NEW c \in IdxPool!Idxs, IdxPool!free_chunk(o, c)
  PROVE  PInv'
<1> DEFINE q   == pool[o]
           st  == [q.state EXCEPT ![c] = "EMPTY"]
           nxt == [q.next_free_idx EXCEPT ![c] = q.free_head]
           p   == IdxPool!Pool(q.arr, nxt, c, st, q.size - 1, "NOERROR")
<1>1. /\ pool' = [pool EXCEPT ![o] = p] /\ given' = given \ {<<q.arr, c>>}
      /\ c < IdxPool!Cardinality(DOMAIN q.state) /\ q.state[c] = "OCCUPIED"
  BY DEF IdxPool!free_chunk, IdxPool!Becomes, IdxPool!Handle, IdxPool!is_valid_chunk_idx, IdxPool!CapacityOf
<1>2. PoolOK(q, given)
  BY DEF PInv
<1> HIDE DEF q
<1>3. PICK n \in 0..MaxCapacity : DOMAIN q.state = 0..(n - 1) /\ DOMAIN q.next_free_idx = 0..(n - 1)
  BY <1>2, PoolFacts
<1>4. c \in 0..(n - 1)
  <2>1. Cardinality(DOMAIN q.state) = n
    BY <1>2, <1>3, PoolFacts, ParametersAssumption
  <2>2. c < n
    BY <1>1, <2>1, PoolCardinality
  <2> QED
    BY <2>2, ParametersAssumption DEF IdxPool!Idxs
<1>5. DOMAIN st = DOMAIN q.state /\ \A i \in DOMAIN q.state : st[i] = IF i = c THEN "EMPTY" ELSE q.state[i]
  BY <1>3, <1>4
<1>6. DOMAIN nxt = DOMAIN q.state /\ \A i \in DOMAIN q.state : nxt[i] = IF i = c THEN q.free_head ELSE q.next_free_idx[i]
  BY <1>3, <1>4
<1> HIDE DEF st, nxt
<1>7. /\ p.arr = q.arr /\ p.next_free_idx = nxt /\ p.free_head = c /\ p.state = st
      /\ p.size = q.size - 1 /\ p = IdxPool!Pool(p.arr, p.next_free_idx, p.free_head, p.state, p.size, p.errno)
  BY DEF IdxPool!Pool
<1> HIDE DEF p
<1>8. PFree(p) = PFree(q) \cup {c} /\ PTaken(p) = PTaken(q) \ {c} /\ c \in PTaken(q) /\ c \notin PFree(q)
  BY <1>1, <1>3, <1>4, <1>5, <1>7 DEF PFree, PTaken
<1>9. IsFreeList(c, nxt, NULL_IDX, PFree(q) \cup {c})
  <2>1. nxt[c] = q.free_head /\ \A x \in PFree(q) : nxt[x] = q.next_free_idx[x]
    BY <1>3, <1>4, <1>6, <1>8 DEF PFree
  <2>2. IsFreeList(q.free_head, q.next_free_idx, NULL_IDX, PFree(q))
    BY <1>2 DEF PoolOK
  <2> QED
    BY <1>8, <2>1, <2>2, FreeListPush
<1>10. PTaken(p) = {i \in IdxPool!Idxs : <<p.arr, i>> \in given'}
  <2>1. PTaken(q) = {i \in IdxPool!Idxs : <<q.arr, i>> \in given}
    BY <1>2 DEF PoolOK
  <2>2. \A i : <<q.arr, i>> \in given' <=> <<q.arr, i>> \in given /\ i # c
    BY <1>1
  <2> QED
    BY <1>7, <1>8, <2>1, <2>2
<1>11. p.size = Cardinality(PTaken(p))
  <2>1. q.size = Cardinality(PTaken(q)) /\ IsFiniteSet(PTaken(q))
    BY <1>2, PoolFacts DEF PoolOK
  <2> QED
    BY <1>7, <1>8, <2>1, FS_RemoveElement
<1>12. PoolOK(p, given')
  <2>1. \E k \in 0..MaxCapacity : DOMAIN p.state = 0..(k - 1) /\ DOMAIN p.next_free_idx = 0..(k - 1)
    BY <1>3, <1>5, <1>6, <1>7
  <2>2. \A i \in DOMAIN p.state : p.state[i] \in {"EMPTY", "OCCUPIED"}
    BY <1>2, <1>5, <1>7 DEF PoolOK
  <2>3. IsFreeList(p.free_head, p.next_free_idx, NULL_IDX, PFree(p))
    BY <1>7, <1>8, <1>9
  <2>4. p.arr # NULL
    BY <1>2, <1>3, <1>4, <1>7 DEF PoolOK
  <2> QED
    BY <1>7, <1>10, <1>11, <2>1, <2>2, <2>3, <2>4 DEF PoolOK
<1>13. p.arr = pool[o].arr
  BY <1>7 DEF q
<1>14. \A a, i : a # p.arr => (<<a, i>> \in given' <=> <<a, i>> \in given)
  BY <1>1, <1>7
<1>15. \A x \in given' : x[1] # NULL /\ \E y \in Pools : pool[y].arr = x[1]
  BY <1>1 DEF PInv
<1> QED
  BY <1>1, <1>12, <1>13, <1>14, <1>15, PoolKept

\* Nothing changes.
LEMMA PStutter == PInv /\ UNCHANGED <<pool, given>> => PInv'
BY DEF PInv

\* No pool has an array at the start.
LEMMA PInit == IdxPool!InitP => PInv
<1> SUFFICES ASSUME IdxPool!InitP PROVE PInv
  OBVIOUS
<1> DEFINE e == IdxPool!Empty("UNINIT")
<1>1. pool = [o \in Pools |-> e] /\ given = {}
  BY DEF IdxPool!InitP
<1>2. PoolOK(e, given) /\ e.arr = NULL
  BY <1>1, PoolEmpty
<1> HIDE DEF e
<1> QED
  BY <1>1, <1>2 DEF PInv

\* Every call on the pools keeps the invariant.
LEMMA PNext ==
  ASSUME PInv, IdxPool!NextP
  PROVE  PInv'
<1>1. PICK o \in Pools :
       \/ IdxPool!init_fails(o) \/ IdxPool!cleanup(o) \/ IdxPool!alloc_chunk(o) \/ IdxPool!alloc_full(o)
       \/ \E n \in 1..MaxCapacity : IdxPool!init(o, n)
       \/ \E o2 \in Pools : IdxPool!move(o, o2)
       \/ \E i \in IdxPool!Idxs : IdxPool!free_chunk(o, i) \/ IdxPool!free_bad(o, i) \/ IdxPool!free_aborts(o, i)
  BY DEF IdxPool!NextP
<1>2. CASE IdxPool!init_fails(o)
  <2>1. IdxPool!GivenWithout(o) = given
    BY <1>2 DEF IdxPool!init_fails, IdxPool!GivenWithout, PInv
  <2> QED
    BY <1>2, <2>1, PoolDropped DEF IdxPool!init_fails, IdxPool!Becomes
<1>3. CASE IdxPool!cleanup(o)
  BY <1>3, PoolDropped DEF IdxPool!cleanup, IdxPool!Becomes
<1>4. CASE IdxPool!alloc_full(o)
  BY <1>4, PoolReports DEF IdxPool!alloc_full
<1>5. ASSUME NEW i \in IdxPool!Idxs, IdxPool!free_bad(o, i) PROVE PInv'
  BY <1>5, PoolReports DEF IdxPool!free_bad
<1>6. ASSUME NEW i \in IdxPool!Idxs, IdxPool!free_aborts(o, i) PROVE PInv'
  BY <1>6, PStutter DEF IdxPool!free_aborts
<1> QED
  BY <1>1, <1>2, <1>3, <1>4, <1>5, <1>6, PoolInit, PoolMoved, PoolAlloc, PoolFreed

\* The property of the pools that the invariant has
LEMMA PAccounted == PInv => IdxPool!IdxsAccounted
<1> SUFFICES ASSUME PInv PROVE IdxPool!IdxsAccounted
  OBVIOUS
<1>1. ASSUME NEW o \in Pools
      PROVE  LET taken == {i \in DOMAIN pool[o].state : pool[o].state[i] = "OCCUPIED"} IN
             /\ IdxPool!FreeIdxs(o) = DOMAIN pool[o].state \ taken
             /\ taken = {i \in IdxPool!Idxs : IdxPool!Handle(o, i) \in given}
             /\ pool[o].size = IdxPool!Cardinality(taken)
  <2> DEFINE p     == pool[o]
             at    == CHOOSE a : IsLoop(a, p.free_head, p.next_free_idx, NULL_IDX, MaxCapacity)
             taken == PTaken(p)
  <2>1. PoolOK(p, given)
    BY DEF PInv
  <2>2. /\ MaxCapacity \in Nat /\ IsFreeList(p.free_head, p.next_free_idx, NULL_IDX, PFree(p))
        /\ Cardinality(PFree(p)) <= MaxCapacity /\ NULL_IDX \notin PFree(p)
    BY <2>1, PoolFacts, ParametersAssumption DEF PoolOK
  <2>3. (\E a : IsLoop(a, p.free_head, p.next_free_idx, NULL_IDX, MaxCapacity))
        /\ \A a : IsLoop(a, p.free_head, p.next_free_idx, NULL_IDX, MaxCapacity)
                    => {a[i] : i \in 1..MaxCapacity + 1} \ {NULL_IDX} = PFree(p)
    BY <2>2, FreeListMeets
  <2>4. {at[i] : i \in 1..MaxCapacity + 1} \ {NULL_IDX} = PFree(p)
    BY <2>3
  <2>5. IdxPool!FreeIdxs(o) = {at[i] : i \in 1..MaxCapacity + 1} \ {NULL_IDX}
    BY DEF IdxPool!FreeIdxs, IsLoop
  <2>6. PFree(p) = DOMAIN p.state \ taken
    <3>1. \A i \in DOMAIN p.state : p.state[i] \in {"EMPTY", "OCCUPIED"}
      BY <2>1 DEF PoolOK
    <3> QED
      BY <3>1 DEF PFree, PTaken
  <2>7. taken = {i \in IdxPool!Idxs : IdxPool!Handle(o, i) \in given}
    BY <2>1 DEF PoolOK, IdxPool!Handle
  <2>8. p.size = IdxPool!Cardinality(taken)
    BY <2>1, PoolCardinality DEF PoolOK
  <2>9. taken = {i \in DOMAIN pool[o].state : pool[o].state[i] = "OCCUPIED"}
    BY DEF PTaken
  <2> HIDE DEF taken, at
  <2> QED
    BY <2>4, <2>5, <2>6, <2>7, <2>8, <2>9
<1> QED
  BY <1>1 DEF IdxPool!IdxsAccounted, PInv

-----------------------------------------------------------------------------
(* KeyListArena *)

KEntry(e) ==
  /\ e = [id |-> e.id, next_off |-> e.next_off, flags |-> e.flags, name |-> e.name, name_len |-> e.name_len]
  /\ e.id \in Nat /\ e.name \in Names /\ NameLen[e.name] # 0 /\ e.name_len = NameLen[e.name] % NameLenMod

\* An arena that is there, with its entries below buf_len
KArena(a) ==
  /\ a = Keys!Arena(a.base, a.buf_len, a.buf_size, a.entrycnt, a.ents)
  /\ a.base \in Bases /\ a.buf_len \in Nat /\ a.buf_size \in Nat /\ a.entrycnt \in Nat
  /\ a.buf_size <= HeapLimit
  /\ IsFiniteSet(DOMAIN a.ents)
  /\ \A o \in DOMAIN a.ents : o \in Nat /\ o < a.buf_len /\ KEntry(a.ents[o])
  /\ Keys!ChainedArena(a)

\* Every key of an arena has a length that name_len can hold.
KFitting(a) == \A o \in DOMAIN a.ents : NameLen[a.ents[o].name] < NameLenMod

\* Where a loop over the entries can be
KPlaces(a) == DOMAIN a.ents \cup {a.buf_len}

KInv ==
  /\ Keys!There(kla) => KArena(kla)
  /\ Keys!There(new_kla) =>
       /\ Keys!There(kla) /\ KArena(new_kla) /\ new_kla.base # kla.base
       /\ off_cur \in KPlaces(kla) /\ KFitting(new_kla)
  /\ kit # NULL => Keys!There(kla) /\ kit \in KPlaces(kla)

\* The Cardinality of the instance
LEMMA KeyCardinality == \A S : Keys!Cardinality(S) = Cardinality(S)
BY DEF Keys!Cardinality, Cardinality

\* The length of an entry
KLong(len) == Keys!align_off(12 + len + 1)

\* An entry is longer than nothing, and its length a multiple of 4 that a key adds
\* no more than 16 to.
LEMMA AlignedLength ==
  ASSUME NEW len \in Nat
  PROVE  KLong(len) \in Nat \ {0} /\ KLong(len) % 4 = 0 /\ KLong(len) <= len + 16
<1> DEFINE n == 12 + len + 1
           k == (n + 3) \div 4
<1>1. n \in Nat /\ n >= 13 /\ n = len + 13
  OBVIOUS
<1>2. KLong(len) = k * 4
  BY DEF KLong, Keys!align_off
<1> HIDE DEF n
<1>3. k \in Nat /\ k >= 1 /\ k * 4 <= n + 3
  BY <1>1
<1> HIDE DEF k
<1>4. k * 4 \in Nat \ {0} /\ (k * 4) % 4 = 0 /\ k * 4 <= len + 16
  BY <1>1, <1>3
<1> QED
  BY <1>2, <1>4

\* Keys whose lengths differ by 4 or more have entries of different lengths.
LEMMA LongerEntry ==
  ASSUME NEW x \in Nat, NEW y \in Nat, y + 4 <= x
  PROVE  KLong(y) # KLong(x)
<1> DEFINE k(n) == (12 + n + 1 + 3) \div 4
<1>1. k(x) \in Nat /\ k(y) \in Nat /\ k(y) < k(x)
  OBVIOUS
<1>2. KLong(x) = k(x) * 4 /\ KLong(y) = k(y) * 4
  BY DEF KLong, Keys!align_off
<1> HIDE DEF k
<1> QED
  BY <1>1, <1>2

\* What does not wrap is its own value.
LEMMA U32Small ==
  ASSUME NEW n \in Nat, n < U32Mod
  PROVE  Keys!U32(n) = n
BY ParametersAssumption DEF Keys!U32

\* No length of an entry wraps, and none of an offset or a size in an arena that is there.
LEMMA EntLenType ==
  ASSUME NEW name \in Names
  PROVE  /\ NameLen[name] \in Nat
         /\ \A len \in 0..NameLen[name] : Keys!EntLen(len) = KLong(len)
         /\ KLong(NameLen[name]) \in Nat \ {0} /\ KLong(NameLen[name]) % 4 = 0
         /\ \A n \in 0..HeapLimit : 2 * (n + KLong(NameLen[name])) < U32Mod
<1> DEFINE x == NameLen[name]
<1>1. x \in Nat /\ HeapLimit \in Nat /\ U32Mod \in Nat /\ 2 * (HeapLimit + x + 16) < U32Mod
  BY ParametersAssumption, NoWrapAssumption
<1> HIDE DEF x
<1>2. ASSUME NEW len \in 0..x PROVE Keys!EntLen(len) = KLong(len)
  <2>1. len \in Nat /\ len <= x
    BY <1>1
  <2>2. KLong(len) \in Nat /\ KLong(len) <= len + 16
    BY <2>1, AlignedLength
  <2>3. KLong(len) < U32Mod
    BY <1>1, <2>1, <2>2
  <2>4. Keys!U32(KLong(len)) = KLong(len)
    BY <2>2, <2>3, U32Small
  <2> QED
    BY <2>4 DEF Keys!EntLen, KLong, Keys!HeaderSize
<1>3. KLong(x) \in Nat \ {0} /\ KLong(x) % 4 = 0 /\ KLong(x) <= x + 16
  BY <1>1, AlignedLength
<1>4. ASSUME NEW n \in 0..HeapLimit PROVE 2 * (n + KLong(x)) < U32Mod
  BY <1>1, <1>3
<1> QED
  BY <1>1, <1>2, <1>3, <1>4 DEF x

\* Where the next entry begins, and what a buffer grows to, wrap nowhere.
LEMMA KSizes ==
  ASSUME NEW a, KArena(a), NEW name \in Names
  PROVE  LET len == NameLen[name]
             next_off == Keys!NextOff(a, len) IN
         /\ next_off = a.buf_len + Keys!EntLen(len) /\ next_off \in Nat /\ a.buf_len < next_off
         /\ a.buf_len % 4 = 0 => next_off % 4 = 0
         /\ Keys!grown(a, next_off) \in Nat /\ next_off <= Keys!grown(a, next_off)
         /\ next_off < a.buf_size => Keys!grown(a, next_off) = a.buf_size
<1> DEFINE len == NameLen[name]
           k == KLong(len)
           e == a.buf_len + k
           next_off == Keys!NextOff(a, len)
<1>1. /\ Keys!EntLen(len) = k /\ k \in Nat \ {0} /\ k % 4 = 0
      /\ \A n \in 0..HeapLimit : 2 * (n + k) < U32Mod
  BY EntLenType
<1>2. a.buf_len \in Nat /\ a.buf_size \in Nat /\ a.buf_len <= a.buf_size /\ a.buf_size <= HeapLimit
  BY DEF KArena, Keys!ChainedArena
<1> HIDE DEF k, len
<1>3. HeapLimit \in Nat /\ U32Mod \in Nat
  BY ParametersAssumption
<1>4. 2 * (a.buf_len + k) < U32Mod /\ 2 * (a.buf_size + k) < U32Mod
  BY <1>1, <1>2, <1>3
<1>5. e \in Nat /\ e < U32Mod /\ e * 2 \in Nat /\ e * 2 < U32Mod /\ a.buf_size * 2 \in Nat /\ a.buf_size * 2 < U32Mod
      /\ a.buf_len < e
  BY <1>1, <1>2, <1>3, <1>4
<1>6. next_off = e
  BY <1>1, <1>5, U32Small DEF Keys!NextOff
<1>7. Keys!U32(a.buf_size * 2) = a.buf_size * 2 /\ Keys!U32(e * 2) = e * 2
  BY <1>5, U32Small
<1>8. a.buf_len % 4 = 0 => e % 4 = 0
  BY <1>1, <1>2
<1> HIDE DEF e, next_off
<1>9. Keys!grown(a, e) = IF e < a.buf_size THEN a.buf_size ELSE IF e <= a.buf_size * 2 THEN a.buf_size * 2 ELSE e * 2
  BY <1>7 DEF Keys!grown
<1>10. Keys!grown(a, e) \in Nat /\ e <= Keys!grown(a, e) /\ (e < a.buf_size => Keys!grown(a, e) = a.buf_size)
  BY <1>2, <1>5, <1>9
<1> QED
  BY <1>1, <1>5, <1>6, <1>8, <1>10 DEF e, len, next_off

\* A new arena
LEMMA KNew ==
  ASSUME NEW b \in Bases
  PROVE  KArena(Keys!NewArena(b)) /\ Keys!There(Keys!NewArena(b)) /\ Keys!NewArena(b).base = b
         /\ KPlaces(Keys!NewArena(b)) = {0} /\ KFitting(Keys!NewArena(b))
<1> DEFINE a == Keys!NewArena(b)
<1>1. /\ a.base = b /\ a.buf_len = 0 /\ a.buf_size = 32 /\ a.entrycnt = 0 /\ a.ents = <<>>
      /\ a = Keys!Arena(a.base, a.buf_len, a.buf_size, a.entrycnt, a.ents)
  BY DEF Keys!NewArena, Keys!Arena, Keys!INIT_BUF_SIZE
<1> HIDE DEF a
<1>0. 32 <= HeapLimit
  BY ParametersAssumption
<1>2. DOMAIN a.ents = {}
  BY <1>1
<1>3. IsFiniteSet(DOMAIN a.ents) /\ Cardinality(DOMAIN a.ents) = 0
  BY <1>2, FS_EmptySet
<1>4. Keys!ChainedArena(a)
  BY <1>1, <1>2, <1>3, KeyCardinality DEF Keys!ChainedArena
<1>5. KArena(a)
  BY <1>0, <1>1, <1>2, <1>3, <1>4 DEF KArena
<1>6. b # NULL
  BY NullAssumption
<1> QED
  BY <1>1, <1>2, <1>5, <1>6 DEF a, KPlaces, KFitting, Keys!There

\* An arena with one more entry
LEMMA KWritten ==
  ASSUME NEW a, KArena(a), NEW name \in Names, NameLen[name] # 0, NEW b \in Bases,
         b \in Keys!After(a, NameLen[name])
  PROVE  /\ KArena(Keys!Written(a, name, NameLen[name], b)) /\ Keys!There(Keys!Written(a, name, NameLen[name], b))
         /\ Keys!Written(a, name, NameLen[name], b).base = b
         /\ KPlaces(a) \subseteq KPlaces(Keys!Written(a, name, NameLen[name], b))
         /\ KFitting(a) /\ NameLen[name] < NameLenMod => KFitting(Keys!Written(a, name, NameLen[name], b))
<1> DEFINE w     == Keys!Written(a, name, NameLen[name], b)
           next_off == Keys!NextOff(a, NameLen[name])
           entry == [id |-> a.entrycnt, next_off |-> next_off, flags |-> "INUSE",
                     name |-> name, name_len |-> NameLen[name] % NameLenMod]
           D     == DOMAIN a.ents
           E     == D \cup {a.buf_len}
           ents  == [o \in E |-> IF o = a.buf_len THEN entry ELSE a.ents[o]]
<1>1. /\ a.buf_len \in Nat /\ a.buf_size \in Nat /\ a.entrycnt \in Nat
      /\ \A o \in D : o \in Nat /\ o < a.buf_len
  BY DEF KArena
<1>2. next_off \in Nat /\ next_off > a.buf_len /\ (a.buf_len % 4 = 0 => next_off % 4 = 0)
      /\ next_off = a.buf_len + Keys!EntLen(NameLen[name])
  BY <1>1, KSizes
<1>3. {p \in D : p < a.buf_len} \cup {a.buf_len} = E /\ a.buf_len \notin D
  BY <1>1
<1>4. w = Keys!Arena(b, next_off, Keys!grown(a, next_off), a.entrycnt + 1, ents)
  BY <1>3 DEF Keys!Written
<1>5. /\ w.base = b /\ w.buf_len = next_off /\ w.buf_size = Keys!grown(a, next_off) /\ w.entrycnt = a.entrycnt + 1
      /\ w.ents = ents /\ w = Keys!Arena(w.base, w.buf_len, w.buf_size, w.entrycnt, w.ents)
  BY <1>4 DEF Keys!Arena
<1> HIDE DEF w
<1>6. Keys!grown(a, next_off) \in Nat /\ next_off <= Keys!grown(a, next_off) /\ Keys!grown(a, next_off) <= HeapLimit
  <2>1. /\ Keys!grown(a, next_off) \in Nat /\ next_off <= Keys!grown(a, next_off)
        /\ next_off < a.buf_size => Keys!grown(a, next_off) = a.buf_size
    BY KSizes
  <2>2. a.buf_size <= HeapLimit
    BY DEF KArena
  <2>3. next_off >= a.buf_size => Keys!grown(a, next_off) <= HeapLimit
    BY DEF Keys!After, Keys!MayGrow
  <2> HIDE DEF next_off
  <2> QED
    BY <1>1, <1>2, <2>1, <2>2, <2>3
<1>7. DOMAIN ents = E /\ ents[a.buf_len] = entry /\ \A o \in D : ents[o] = a.ents[o]
  BY <1>3
<1>8. entry.id = a.entrycnt /\ entry.next_off = next_off /\ entry.name = name /\ KEntry(entry)
  BY <1>1 DEF KEntry
<1> HIDE DEF ents, entry, next_off
<1>9. IsFiniteSet(E) /\ Cardinality(E) = a.entrycnt + 1
  <2>1. IsFiniteSet(D) /\ Cardinality(D) = a.entrycnt
    BY KeyCardinality DEF KArena, Keys!ChainedArena
  <2> QED
    BY <1>3, <2>1, FS_AddElement
<1>10. \A o \in E : o \in Nat /\ o < next_off /\ KEntry(ents[o])
  <2> TAKE o \in E
  <2>1. CASE o \in D
    <3>1. o < a.buf_len /\ KEntry(a.ents[o]) /\ o \in Nat
      BY <2>1 DEF KArena
    <3> QED
      BY <1>1, <1>2, <1>7, <2>1, <3>1
  <2>2. CASE o = a.buf_len
    BY <1>1, <1>2, <1>7, <1>8, <2>2
  <2> QED
    BY <2>1, <2>2
<1>11. Keys!ChainedArena(w)
  <2>1. /\ a.buf_len % 4 = 0 /\ (a.buf_len # 0 <=> a.entrycnt # 0)
        /\ a.buf_len # 0 => 0 \in D /\ a.ents[0].id = 0
        /\ \A o \in D : /\ a.ents[o].next_off = o + Keys!EntLen(NameLen[a.ents[o].name])
                        /\ \/ a.ents[o].next_off \in D /\ a.ents[a.ents[o].next_off].id = a.ents[o].id + 1
                           \/ a.ents[o].next_off = a.buf_len /\ a.ents[o].id + 1 = a.entrycnt
    BY DEF KArena, Keys!ChainedArena
  <2>2. w.buf_len <= w.buf_size /\ w.buf_len % 4 = 0 /\ w.buf_len # 0 /\ w.entrycnt # 0
    BY <1>1, <1>2, <1>5, <1>6, <2>1
  <2>3. 0 \in E /\ ents[0].id = 0
    <3>1. CASE a.buf_len = 0
      BY <1>1, <1>7, <1>8, <2>1, <3>1
    <3>2. CASE a.buf_len # 0
      BY <1>7, <2>1, <3>2
    <3> QED
      BY <3>1, <3>2
  <2>4. ASSUME NEW o \in E
        PROVE  /\ ents[o].next_off = o + Keys!EntLen(NameLen[ents[o].name])
               /\ \/ ents[o].next_off \in E /\ ents[ents[o].next_off].id = ents[o].id + 1
                  \/ ents[o].next_off = next_off /\ ents[o].id + 1 = a.entrycnt + 1
    <3>1. CASE o = a.buf_len
      BY <1>2, <1>7, <1>8, <3>1
    <3>2. CASE o \in D
      <4>1. CASE a.ents[o].next_off \in D
        BY <1>3, <1>7, <2>1, <3>2, <4>1
      <4>2. CASE a.ents[o].next_off \notin D
        BY <1>7, <1>8, <2>1, <3>2, <4>2
      <4> QED
        BY <4>1, <4>2
    <3> QED
      BY <3>1, <3>2
  <2> QED
    BY <1>5, <1>7, <1>9, <2>2, <2>3, <2>4, KeyCardinality DEF Keys!ChainedArena
<1>12. KArena(w)
  BY <1>1, <1>2, <1>5, <1>6, <1>7, <1>9, <1>10, <1>11 DEF KArena
<1>13. b # NULL
  BY NullAssumption
<1>14. KPlaces(a) \subseteq KPlaces(w)
  BY <1>5, <1>7 DEF KPlaces
<1>15. KFitting(a) /\ NameLen[name] < NameLenMod => KFitting(w)
  BY <1>5, <1>7, <1>8 DEF KFitting
<1> QED
  BY <1>5, <1>12, <1>13, <1>14, <1>15 DEF w, Keys!There

\* An entry passes the assertions on its length if, and only if, its key fits name_len.
LEMMA KReads ==
  ASSUME NEW a, KArena(a), NEW o \in DOMAIN a.ents, NEW e, e = a.ents[o]
  PROVE  /\ e.next_off = o + Keys!EntLen(e.name_len) <=> NameLen[e.name] < NameLenMod
         /\ NameLen[e.name] < NameLenMod => e.name_len = NameLen[e.name]
<1> DEFINE x == NameLen[e.name]
           y == e.name_len
<1>1. KEntry(e) /\ o \in Nat /\ e.next_off = o + Keys!EntLen(x)
  BY DEF KArena, Keys!ChainedArena
<1>2. e.name \in Names /\ y = x % NameLenMod
  BY <1>1 DEF KEntry
<1>3. x \in Nat /\ \A len \in 0..x : Keys!EntLen(len) = KLong(len)
  BY <1>2, EntLenType
<1>4. NameLenMod \in Nat /\ NameLenMod >= 4
  BY ParametersAssumption
<1> HIDE DEF x, y
<1>5. y \in Nat /\ y <= x /\ (x < NameLenMod => y = x) /\ (x >= NameLenMod => y + NameLenMod <= x)
  BY <1>2, <1>3, <1>4
<1>6. Keys!EntLen(x) = KLong(x) /\ Keys!EntLen(y) = KLong(y) /\ KLong(x) \in Nat /\ KLong(y) \in Nat
  BY <1>3, <1>5, AlignedLength
<1>7. x >= NameLenMod => KLong(y) # KLong(x)
  <2> SUFFICES ASSUME x >= NameLenMod PROVE y + 4 <= x
    BY <1>3, <1>5, LongerEntry
  <2> QED
    BY <1>3, <1>4, <1>5
<1>8. e.next_off = o + Keys!EntLen(y) <=> x < NameLenMod
  BY <1>1, <1>3, <1>4, <1>5, <1>6, <1>7
<1> QED
  BY <1>5, <1>8 DEF x, y

\* A loop that is at an entry goes to the next or to the end.
LEMMA KFollows ==
  ASSUME NEW a, KArena(a), NEW o \in KPlaces(a), o # a.buf_len
  PROVE  o \in DOMAIN a.ents /\ a.ents[o].next_off \in KPlaces(a) /\ KEntry(a.ents[o])
BY DEF KArena, KPlaces, Keys!ChainedArena

\* The first entry is at 0, or there is none.
LEMMA KFirst ==
  ASSUME NEW a, KArena(a)
  PROVE  0 \in KPlaces(a)
BY DEF KArena, KPlaces, Keys!ChainedArena

\* An entry is marked.
LEMMA KMarked ==
  ASSUME NEW a, KArena(a), NEW off \in DOMAIN a.ents, NEW flags
  PROVE  LET m == [a EXCEPT !.ents[off].flags = flags]
         IN  KArena(m) /\ m.base = a.base /\ KPlaces(m) = KPlaces(a)
<1> DEFINE e    == [a.ents[off] EXCEPT !.flags = flags]
           ents == [a.ents EXCEPT ![off] = e]
           m    == [a EXCEPT !.ents = ents]
<1>1. a = Keys!Arena(a.base, a.buf_len, a.buf_size, a.entrycnt, a.ents) /\ KEntry(a.ents[off])
  BY DEF KArena
<1>2. m = Keys!Arena(a.base, a.buf_len, a.buf_size, a.entrycnt, ents)
  BY <1>1 DEF Keys!Arena
<1>3. /\ m.base = a.base /\ m.buf_len = a.buf_len /\ m.buf_size = a.buf_size /\ m.entrycnt = a.entrycnt /\ m.ents = ents
      /\ m = Keys!Arena(m.base, m.buf_len, m.buf_size, m.entrycnt, m.ents)
  BY <1>2 DEF Keys!Arena
<1>4. /\ KEntry(e) /\ e.id = a.ents[off].id /\ e.next_off = a.ents[off].next_off /\ e.name = a.ents[off].name
  BY <1>1 DEF KEntry
<1>5. [a EXCEPT !.ents[off].flags = flags] = m
  OBVIOUS
<1> HIDE DEF m, e
<1>6. DOMAIN ents = DOMAIN a.ents /\ ents[off] = e /\ \A o \in DOMAIN a.ents \ {off} : ents[o] = a.ents[o]
  OBVIOUS
<1> HIDE DEF ents
<1>7. \A o \in DOMAIN a.ents : /\ ents[o].id = a.ents[o].id /\ ents[o].next_off = a.ents[o].next_off
                               /\ ents[o].name = a.ents[o].name /\ KEntry(ents[o])
  <2> TAKE o \in DOMAIN a.ents
  <2>1. CASE o = off
    BY <1>4, <1>6, <2>1
  <2>2. CASE o # off
    BY <1>6, <2>2 DEF KArena
  <2> QED
    BY <2>1, <2>2
<1>8. Keys!ChainedArena(m)
  BY <1>3, <1>6, <1>7 DEF KArena, Keys!ChainedArena
<1>9. KArena(m)
  BY <1>3, <1>6, <1>7, <1>8 DEF KArena
<1>10. KPlaces(m) = KPlaces(a)
  BY <1>3, <1>6 DEF KPlaces
<1> QED
  BY <1>3, <1>5, <1>9, <1>10

\* NoArena is not there.
LEMMA KNone == ~Keys!There(Keys!NoArena)
BY DEF Keys!There, Keys!NoArena, Keys!Arena

\* There is no arena at the start.
LEMMA KInit == Keys!InitK => KInv
BY KNone DEF Keys!InitK, KInv

\* Nothing changes.
LEMMA KStutter == KInv /\ UNCHANGED keylist => KInv'
BY DEF KInv, keylist

\* The arena is another one, with at least the places of before.
LEMMA KChanges ==
  ASSUME KInv, Keys!Idle, KArena(kla'), Keys!There(kla'), new_kla' = new_kla,
         kit' = NULL \/ kit' \in KPlaces(kla')
  PROVE  KInv'
<1>1. ~Keys!There(new_kla)
  BY DEF Keys!Idle
<1>2. ~Keys!There(new_kla') /\ (kit' # NULL => kit' \in KPlaces(kla'))
  BY <1>1
<1> QED
  BY <1>2 DEF KInv

\* Every call on the arena, each step of a compaction and the iterator keep the invariant.
LEMMA KNext ==
  ASSUME KInv, Keys!NextK
  PROVE  KInv'
<1>1. ASSUME Keys!Idle PROVE Keys!There(kla) /\ KArena(kla) /\ ~Keys!There(new_kla)
  BY <1>1 DEF Keys!Idle, KInv
<1>2. CASE Keys!Create
  <2>1. PICK b \in Bases : kla' = Keys!NewArena(b) /\ UNCHANGED <<new_kla, off_cur, kit>> /\ ~Keys!There(kla)
    BY <1>2 DEF Keys!Create
  <2>2. KArena(kla') /\ Keys!There(kla')
    BY <2>1, KNew
  <2>3. ~Keys!There(new_kla) /\ kit = NULL
    BY <2>1 DEF KInv
  <2>4. ~Keys!There(new_kla') /\ kit' = NULL
    BY <2>1, <2>3
  <2> QED
    BY <2>2, <2>4 DEF KInv
<1>3. CASE Keys!Destroy
  <2>1. Keys!Idle /\ kla' = Keys!NoArena /\ kit' = NULL /\ new_kla' = new_kla
    BY <1>3 DEF Keys!Destroy
  <2>2. ~Keys!There(kla') /\ ~Keys!There(new_kla')
    BY <1>1, <2>1, KNone
  <2> QED
    BY <2>1, <2>2 DEF KInv
<1>4. CASE Keys!Clear
  <2> DEFINE a == Keys!Arena(kla.base, 0, kla.buf_size, 0, <<>>)
  <2>1. Keys!Idle /\ kla' = a /\ kit' = (IF kit = NULL THEN NULL ELSE 0) /\ new_kla' = new_kla
    BY <1>4 DEF Keys!Clear
  <2>2. kla.base \in Bases /\ kla.buf_size \in Nat /\ kla.buf_size <= HeapLimit /\ kla.base # NULL
    BY <1>1, <2>1 DEF KArena, Keys!There
  <2>3. /\ a.base = kla.base /\ a.buf_len = 0 /\ a.buf_size = kla.buf_size /\ a.entrycnt = 0 /\ a.ents = <<>>
        /\ a = Keys!Arena(a.base, a.buf_len, a.buf_size, a.entrycnt, a.ents)
    BY DEF Keys!Arena
  <2> HIDE DEF a
  <2>4. DOMAIN a.ents = {}
    BY <2>3
  <2>5. IsFiniteSet(DOMAIN a.ents) /\ Cardinality(DOMAIN a.ents) = 0
    BY <2>4, FS_EmptySet
  <2>6. Keys!ChainedArena(a)
    BY <2>2, <2>3, <2>4, <2>5, KeyCardinality DEF Keys!ChainedArena
  <2>7. KArena(a) /\ Keys!There(a) /\ 0 \in KPlaces(a)
    BY <2>2, <2>3, <2>4, <2>5, <2>6 DEF KArena, Keys!There, KPlaces
  <2> QED
    BY <2>1, <2>7, KChanges
<1>5. CASE Keys!Rewind
  <2>1. Keys!Idle /\ kit' = 0 /\ kla' = kla /\ new_kla' = new_kla
    BY <1>5 DEF Keys!Rewind
  <2>2. 0 \in KPlaces(kla)
    BY <1>1, <2>1, KFirst
  <2> QED
    BY <1>1, <2>1, <2>2, KChanges
<1>6. CASE Keys!ReadEntry
  <2>1. Keys!Idle /\ kit # NULL /\ kit < kla.buf_len /\ kit' = kla.ents[kit].next_off /\ kla' = kla /\ new_kla' = new_kla
    BY <1>6 DEF Keys!ReadEntry, Keys!Reads
  <2>2. KArena(kla) /\ Keys!There(kla) /\ kit \in KPlaces(kla)
    BY <1>1, <2>1 DEF KInv
  <2>3. kit # kla.buf_len
    BY <2>1, <2>2 DEF KArena
  <2>4. kla.ents[kit].next_off \in KPlaces(kla)
    BY <2>2, <2>3, KFollows
  <2> QED
    BY <2>1, <2>2, <2>4, KChanges
<1>7. CASE Keys!CompactBegin
  <2>1. PICK b \in Bases \ {kla.base} : new_kla' = Keys!NewArena(b) /\ off_cur' = 0 /\ kla' = kla /\ kit' = kit /\ Keys!Idle
    BY <1>7 DEF Keys!CompactBegin
  <2>2. KArena(kla) /\ Keys!There(kla) /\ 0 \in KPlaces(kla)
    BY <1>1, <2>1, KFirst
  <2>3. KArena(new_kla') /\ new_kla'.base # kla.base /\ KFitting(new_kla')
    BY <2>1, KNew
  <2> QED
    BY <2>1, <2>2, <2>3 DEF KInv
<1>8. CASE Keys!CompactCopy
  <2> DEFINE entry == kla.ents[off_cur]
  <2>1. /\ Keys!There(new_kla) /\ off_cur < kla.buf_len /\ off_cur' = entry.next_off /\ kla' = kla /\ kit' = kit
        /\ \E b \in Keys!After(new_kla, entry.name_len) : new_kla' = Keys!Written(new_kla, entry.name, entry.name_len, b)
        /\ entry.next_off = off_cur + Keys!EntLen(entry.name_len)
    BY <1>8 DEF Keys!CompactCopy, Keys!Compacts, Keys!Gets
  <2>2. /\ Keys!There(kla) /\ KArena(kla) /\ KArena(new_kla) /\ new_kla.base # kla.base /\ off_cur \in KPlaces(kla)
        /\ KFitting(new_kla)
    BY <2>1 DEF KInv
  <2>3. off_cur # kla.buf_len
    BY <2>1, <2>2 DEF KArena
  <2>4. entry.next_off \in KPlaces(kla) /\ KEntry(entry) /\ off_cur \in DOMAIN kla.ents
    BY <2>2, <2>3, KFollows
  <2>10. NameLen[entry.name] < NameLenMod /\ entry.name_len = NameLen[entry.name]
    BY <2>1, <2>2, <2>4, KReads
  <2> HIDE DEF entry
  <2>5. PICK b \in Keys!After(new_kla, NameLen[entry.name]) : new_kla' = Keys!Written(new_kla, entry.name, NameLen[entry.name], b)
    BY <2>1, <2>10
  <2>6. b \in Bases /\ b # kla.base
    BY <2>2 DEF Keys!After, KArena
  <2>7. KArena(new_kla') /\ Keys!There(new_kla') /\ new_kla'.base = b /\ KFitting(new_kla')
    BY <2>2, <2>4, <2>5, <2>6, <2>10, KWritten DEF KEntry
  <2> QED
    BY <2>1, <2>2, <2>4, <2>6, <2>7 DEF KInv
<1>9. CASE Keys!CompactSkip
  <2>1. /\ Keys!There(new_kla) /\ off_cur < kla.buf_len /\ off_cur' = kla.ents[off_cur].next_off
        /\ kla' = kla /\ kit' = kit /\ new_kla' = new_kla
    BY <1>9 DEF Keys!CompactSkip, Keys!Compacts
  <2>2. /\ Keys!There(kla) /\ KArena(kla) /\ KArena(new_kla) /\ new_kla.base # kla.base /\ off_cur \in KPlaces(kla)
        /\ KFitting(new_kla)
    BY <2>1 DEF KInv
  <2>3. off_cur # kla.buf_len
    BY <2>1, <2>2 DEF KArena
  <2>4. kla.ents[off_cur].next_off \in KPlaces(kla)
    BY <2>2, <2>3, KFollows
  <2> QED
    BY <2>1, <2>2, <2>4 DEF KInv
<1>10. CASE Keys!CompactFails
  <2>1. Keys!There(new_kla) /\ new_kla' = Keys!NoArena /\ kla' = kla /\ kit' = kit
    BY <1>10 DEF Keys!CompactFails, Keys!Compacts
  <2> QED
    BY <2>1, KNone DEF KInv
<1>11. CASE Keys!CompactEnd
  <2>1. Keys!There(new_kla) /\ kla' = new_kla /\ new_kla' = Keys!NoArena /\ kit' = NULL
    BY <1>11 DEF Keys!CompactEnd
  <2> QED
    BY <2>1, KNone DEF KInv
<1>15. CASE Keys!ReadAborts \/ Keys!CompactAborts
  <2>1. kla' = Keys!NoArena /\ new_kla' = Keys!NoArena /\ kit' = NULL
    BY <1>15 DEF Keys!ReadAborts, Keys!CompactAborts, Keys!Abort
  <2>2. ~Keys!There(kla') /\ ~Keys!There(new_kla')
    BY <2>1, KNone
  <2> QED
    BY <2>1, <2>2 DEF KInv
<1>12. ASSUME NEW name \in Names, Keys!WriteEntry(name) PROVE KInv'
  <2>1. PICK b \in Keys!After(kla, NameLen[name]) :
          /\ kla' = Keys!Written(kla, name, NameLen[name], b) /\ kit' = IF b = kla.base THEN kit ELSE NULL
          /\ Keys!Idle /\ NameLen[name] # 0 /\ new_kla' = new_kla
    BY <1>12 DEF Keys!WriteEntry
  <2>2. b \in Bases /\ KArena(kla)
    BY <1>1, <2>1 DEF Keys!After, KArena
  <2>3. KArena(kla') /\ Keys!There(kla') /\ KPlaces(kla) \subseteq KPlaces(kla')
    BY <2>1, <2>2, KWritten
  <2>4. kit' = NULL \/ kit' \in KPlaces(kla')
    BY <2>1, <2>3 DEF KInv
  <2> QED
    BY <2>1, <2>3, <2>4, KChanges
<1>13. ASSUME NEW name \in Names, Keys!WriteFails(name) PROVE KInv'
  <2>1. UNCHANGED keylist
    BY <1>13 DEF Keys!WriteFails, Keys!kvars, keylist
  <2> QED
    BY <2>1, KStutter
<1>14. ASSUME NEW off \in DOMAIN kla.ents, Keys!MarkEntryDead(off) PROVE KInv'
  <2>1. Keys!Idle /\ kla' = [kla EXCEPT !.ents[off].flags = "DEAD"] /\ new_kla' = new_kla /\ kit' = kit
    BY <1>14 DEF Keys!MarkEntryDead
  <2>2. KArena(kla) /\ kla.base # NULL
    BY <1>1, <2>1 DEF Keys!There
  <2>3. KArena(kla') /\ kla'.base = kla.base /\ KPlaces(kla') = KPlaces(kla)
    BY <2>1, <2>2, KMarked
  <2>4. Keys!There(kla') /\ (kit' = NULL \/ kit' \in KPlaces(kla'))
    BY <2>1, <2>2, <2>3 DEF Keys!There, KInv
  <2> QED
    BY <2>1, <2>3, <2>4, KChanges
<1> QED
  BY <1>2, <1>3, <1>4, <1>5, <1>6, <1>7, <1>8, <1>9, <1>10, <1>11, <1>12, <1>13, <1>14, <1>15 DEF Keys!NextK

\* What is seen of an entry
KKey(e) == [name |-> e.name, name_len |-> e.name_len, flags |-> e.flags]

KFollow(a) == [o \in DOMAIN a.ents |-> a.ents[o].next_off]

\* A loop over the entries is at entry n after n steps.
LEMMA KTour ==
  ASSUME NEW a, KArena(a), NEW at, IsTour(at, a.entrycnt, 0, KFollow(a))
  PROVE  \A n \in Nat : n < a.entrycnt => at[n] \in DOMAIN a.ents /\ a.ents[at[n]].id = n
<1> DEFINE cnt  == a.entrycnt
           D    == DOMAIN a.ents
           Good == {n \in Nat : n < cnt => at[n] \in D /\ a.ents[at[n]].id = n}
<1>1. /\ cnt \in Nat /\ (cnt # 0 => 0 \in D /\ a.ents[0].id = 0)
      /\ \A o \in D : \/ a.ents[o].next_off \in D /\ a.ents[a.ents[o].next_off].id = a.ents[o].id + 1
                      \/ a.ents[o].id + 1 = cnt
  BY DEF KArena, Keys!ChainedArena
<1>2. \A n \in 0..cnt : at[n] = IF n = 0 THEN 0 ELSE KFollow(a)[at[n - 1]]
  BY Zenon DEF IsTour
<1>3. 0 \in Good
  <2>1. at[0] = 0
    BY <1>1, <1>2
  <2> QED
    BY <1>1, <2>1
<1>4. ASSUME NEW n \in Nat, n \in Good PROVE n + 1 \in Good
  <2> SUFFICES ASSUME n + 1 < cnt PROVE at[n + 1] \in D /\ a.ents[at[n + 1]].id = n + 1
    OBVIOUS
  <2>1. n < cnt /\ n + 1 \in 0..cnt /\ n + 1 # 0 /\ (n + 1) - 1 = n /\ n + 1 # cnt
    BY <1>1
  <2>2. at[n] \in D /\ a.ents[at[n]].id = n
    BY <1>4, <2>1
  <2>3. at[n + 1] = a.ents[at[n]].next_off
    BY <1>2, <2>1, <2>2 DEF KFollow
  <2> QED
    BY <1>1, <2>1, <2>2, <2>3
<1> HIDE DEF Good
<1>5. Nat \subseteq Good
  BY <1>3, <1>4, Induction
<1> QED
  BY <1>5 DEF Good

\* There are no other entries than a loop meets, since they are counted.
LEMMA KEvery ==
  ASSUME NEW a, KArena(a), NEW at, IsTour(at, a.entrycnt, 0, KFollow(a)), NEW off \in DOMAIN a.ents
  PROVE  a.ents[off].id \in Nat /\ a.ents[off].id < a.entrycnt /\ at[a.ents[off].id] = off
<1> DEFINE cnt == a.entrycnt
           D   == DOMAIN a.ents
           f   == [n \in 1..cnt |-> at[n - 1]]
<1>1. cnt \in Nat /\ IsFiniteSet(D) /\ Cardinality(D) = cnt
  BY KeyCardinality DEF KArena, Keys!ChainedArena
<1>2. \A n \in Nat : n < cnt => at[n] \in D /\ a.ents[at[n]].id = n
  BY KTour
<1> HIDE DEF cnt
<1>3. \A n \in 1..cnt : n - 1 \in Nat /\ n - 1 < cnt /\ f[n] = at[n - 1]
  BY <1>1
<1>4. \A n \in 1..cnt : f[n] \in D /\ a.ents[f[n]].id = n - 1
  BY <1>2, <1>3
<1>5. f \in [1..cnt -> D]
  BY <1>4
<1>6. \A n, k \in 1..cnt : f[n] = f[k] => n = k
  <2> TAKE n, k \in 1..cnt
  <2> HAVE f[n] = f[k]
  <2>1. n - 1 = k - 1
    BY <1>4
  <2> QED
    BY <2>1
<1> HIDE DEF f
<1>7. f \in Injection(1..cnt, D)
  BY <1>5, <1>6 DEF Injection, IsInjective
<1>8. Cardinality(1..cnt) = cnt
  <2>1. 1 \in Int /\ cnt \in Int /\ (1 <= cnt => cnt - 1 + 1 = cnt) /\ (1 > cnt => cnt = 0)
    BY <1>1
  <2> QED
    BY <2>1, FS_Interval
<1>9. f \in Surjection(1..cnt, D)
  BY <1>1, <1>7, <1>8, FS_Injection
<1>10. PICK n \in 1..cnt : f[n] = off
  BY <1>9 DEF Surjection
<1> QED
  BY <1>3, <1>4, <1>10 DEF cnt

\* The entries, in the order of their numbers.
LEMMA KEntries ==
  ASSUME NEW a, KArena(a)
  PROVE  /\ a.entrycnt \in Nat
         /\ Keys!Entries(a) = [n \in 1..a.entrycnt |-> Keys!Entries(a)[n]]
         /\ \A off \in DOMAIN a.ents :
              /\ a.ents[off].id + 1 \in 1..a.entrycnt
              /\ Keys!Entries(a)[a.ents[off].id + 1] = KKey(a.ents[off])
         /\ \A n \in 1..a.entrycnt : \E off \in DOMAIN a.ents :
              a.ents[off].id = n - 1 /\ Keys!Entries(a)[n] = KKey(a.ents[off])
<1> DEFINE cnt == a.entrycnt
           Tab(f) == f = [n \in 0..a.entrycnt |-> IF n = 0 THEN 0 ELSE KFollow(a)[f[n - 1]]]
           c == CHOOSE f : Tab(f)
           w == Keys!Entries(a)
<1>1. cnt \in Nat
  BY DEF KArena
<1>2. PICK g : IsTour(g, cnt, 0, KFollow(a))
  BY <1>1, TourExists
<1>3. Tab(g)
  BY <1>2, Zenon DEF IsTour
<1>4. Tab(c)
  <2> HIDE DEF Tab
  <2> QED
    BY <1>3
<1>5. w = [n \in 1..cnt |-> KKey(a.ents[c[n - 1]])]
  BY DEF Keys!Entries, KFollow, KKey
<1> HIDE DEF c, w
<1>6. IsTour(c, a.entrycnt, 0, KFollow(a))
  BY <1>4, Zenon DEF IsTour
<1>7. \A off \in DOMAIN a.ents : a.ents[off].id \in Nat /\ a.ents[off].id < cnt /\ c[a.ents[off].id] = off
  BY <1>6, KEvery
<1>8. \A n \in Nat : n < cnt => c[n] \in DOMAIN a.ents /\ a.ents[c[n]].id = n
  BY <1>6, KTour
<1> HIDE DEF cnt
<1>9. \A off \in DOMAIN a.ents : a.ents[off].id + 1 \in 1..cnt /\ w[a.ents[off].id + 1] = KKey(a.ents[off])
  <2> TAKE off \in DOMAIN a.ents
  <2> DEFINE id == a.ents[off].id
  <2>1. id \in Nat /\ id < cnt /\ c[id] = off
    BY <1>7
  <2> HIDE DEF id
  <2>2. id + 1 \in 1..cnt /\ (id + 1) - 1 = id
    BY <1>1, <2>1
  <2> QED
    BY <1>5, <2>1, <2>2 DEF id
<1>10. ASSUME NEW n \in 1..cnt
       PROVE  \E off \in DOMAIN a.ents : a.ents[off].id = n - 1 /\ w[n] = KKey(a.ents[off])
  <2>1. n - 1 \in Nat /\ n - 1 < cnt
    BY <1>1
  <2>2. w[n] = KKey(a.ents[c[n - 1]])
    BY <1>5
  <2> QED
    BY <1>8, <2>1, <2>2
<1>11. w = [n \in 1..cnt |-> w[n]]
  BY <1>5
<1> QED
  BY <1>1, <1>9, <1>10, <1>11 DEF cnt, w

\* A read of an entry passes the assertions if, and only if, its key fits name_len.
LEMMA KGets ==
  ASSUME NEW a, KArena(a), NEW o \in DOMAIN a.ents
  PROVE  Keys!Gets(a, o) <=> NameLen[a.ents[o].name] < NameLenMod
<1>1. a.ents[o].id \in Nat /\ a.entrycnt \in Nat /\ a.ents[o].id + 1 \in 1..a.entrycnt
  BY KEntries DEF KArena, KEntry
<1>2. a.ents[o].id < a.entrycnt
  BY <1>1
<1>3. a.ents[o].next_off <= a.buf_len
  BY DEF KArena, Keys!ChainedArena
<1> QED
  BY <1>2, <1>3, KReads DEF Keys!Gets

\* The property of the arena that the invariant has
LEMMA KChained == KInv => Keys!KeysChained
<1> SUFFICES ASSUME KInv PROVE Keys!KeysChained
  OBVIOUS
<1>1. Keys!There(kla) => Keys!ReadsIfNameFits(kla)
  BY KGets DEF KInv, Keys!ReadsIfNameFits
<1>2. Keys!There(new_kla) => \A o \in DOMAIN new_kla.ents : Keys!Gets(new_kla, o)
  BY KGets DEF KInv, KFitting
<1> QED
  BY <1>1, <1>2 DEF KInv, KArena, KPlaces, Keys!KeysChained

\* They are a sequence.
LEMMA KSeq ==
  ASSUME NEW a, KArena(a)
  PROVE  /\ Keys!Entries(a) \in Seq({Keys!Entries(a)[n] : n \in 1..a.entrycnt})
         /\ Len(Keys!Entries(a)) = a.entrycnt /\ DOMAIN Keys!Entries(a) = 1..a.entrycnt
<1>1. a.entrycnt \in Nat /\ Keys!Entries(a) = [n \in 1..a.entrycnt |-> Keys!Entries(a)[n]]
  BY KEntries
<1> DEFINE w == Keys!Entries(a)
           n == a.entrycnt
<1>2. n \in Nat /\ IsArray(w, n)
  BY <1>1 DEF IsArray
<1> HIDE DEF w, n
<1>3. w \in Seq({w[i] : i \in 1..n}) /\ Len(w) = n /\ DOMAIN w = 1..n
  BY <1>2, ArraySeq
<1> QED
  BY <1>3 DEF w, n

\* An arena without entries
LEMMA KEmpty ==
  ASSUME NEW a, a.entrycnt = 0
  PROVE  Keys!Entries(a) = <<>>
<1>1. 1..0 = {}
  OBVIOUS
<1> QED
  BY <1>1 DEF Keys!Entries

\* A write appends one entry that is in use.
LEMMA KAppends ==
  ASSUME NEW a, KArena(a), NEW name \in Names, NameLen[name] # 0, NEW b \in Bases,
         b \in Keys!After(a, NameLen[name])
  PROVE  Keys!Entries(Keys!Written(a, name, NameLen[name], b)) = Append(Keys!Entries(a), Keys!Key(name))
<1> DEFINE w == Keys!Written(a, name, NameLen[name], b)
           n == a.entrycnt
           k == a.buf_len
           D == DOMAIN a.ents
           x == Keys!Entries(a)
           y == Keys!Entries(w)
           e == Keys!Key(name)
<1>1. KArena(w)
  BY KWritten
<1>2. \A o \in D : o \in Nat /\ o < k
  BY DEF KArena
<1>3. n \in Nat /\ x = [i \in 1..n |-> x[i]] /\ \A i \in 1..n : \E o \in D : a.ents[o].id = i - 1 /\ x[i] = KKey(a.ents[o])
  BY KEntries
<1>4. /\ w.entrycnt = n + 1 /\ DOMAIN w.ents = D \cup {k}
      /\ w.ents[k].id = n /\ KKey(w.ents[k]) = e
      /\ \A o \in D : w.ents[o] = a.ents[o]
  <2>1. {p \in D : p < k} = D /\ k \notin D /\ k \in Nat
    BY <1>2 DEF KArena
  <2>2. w.ents = [o \in D \cup {k} |->
                    IF o = k THEN [id |-> n, next_off |-> Keys!NextOff(a, NameLen[name]), flags |-> "INUSE",
                                    name |-> name, name_len |-> NameLen[name] % NameLenMod]
                             ELSE a.ents[o]]
    BY <2>1 DEF Keys!Written, Keys!Arena
  <2>3. w.entrycnt = n + 1
    BY DEF Keys!Written, Keys!Arena
  <2> HIDE DEF w
  <2> QED
    BY <2>1, <2>2, <2>3 DEF KKey, Keys!Key
<1>5. /\ \A o \in DOMAIN w.ents : y[w.ents[o].id + 1] = KKey(w.ents[o])
      /\ y = [i \in 1..w.entrycnt |-> y[i]]
  <2> HIDE DEF w
  <2> QED
    BY <1>1, KEntries
<1> HIDE DEF w, x, y, e
<1>6. y = [i \in 1..(n + 1) |-> y[i]] /\ y[n + 1] = e
  BY <1>4, <1>5
<1>7. \A i \in 1..n : y[i] = x[i]
  <2> TAKE i \in 1..n
  <2>1. PICK o \in D : a.ents[o].id = i - 1 /\ x[i] = KKey(a.ents[o])
    BY <1>3
  <2>2. o \in DOMAIN w.ents /\ w.ents[o] = a.ents[o] /\ (i - 1) + 1 = i
    BY <1>4
  <2>3. y[w.ents[o].id + 1] = KKey(w.ents[o])
    BY <1>5, <2>2
  <2> QED
    BY <2>1, <2>2, <2>3
<1> DEFINE m == n + 1
<1>8. IsArray(x, n) /\ IsArray(y, m) /\ m = n + 1 /\ y[m] = e /\ n \in Nat
  BY <1>3, <1>6 DEF IsArray
<1> HIDE DEF n, m
<1>9. y = Append(x, e)
  BY <1>7, <1>8, ArrayAppend
<1> QED
  BY <1>9 DEF w, x, y, e

\* An entry that is marked, in an arena and in what is seen of one
KMark(a, off, flags) == [a EXCEPT !.ents[off].flags = flags]

KSeen(w, n, flags) == [w EXCEPT ![n].flags = flags]

\* Marking an entry marks it where it is.
LEMMA KMarks ==
  ASSUME NEW a, KArena(a), NEW off \in DOMAIN a.ents, NEW flags, NEW m, m = KMark(a, off, flags)
  PROVE  \E n \in DOMAIN Keys!Entries(a) : Keys!Entries(m) = KSeen(Keys!Entries(a), n, flags)
<1> DEFINE x == Keys!Entries(a)
           y == Keys!Entries(m)
           e == a.ents[off]
           k == e.id + 1
           cnt == a.entrycnt
<1>1. KArena(m)
  BY KMarked DEF KMark
<1>2. /\ cnt \in Nat /\ x = [n \in 1..cnt |-> x[n]]
      /\ \A o \in DOMAIN a.ents : a.ents[o].id + 1 \in 1..cnt /\ x[a.ents[o].id + 1] = KKey(a.ents[o])
      /\ \A n \in 1..cnt : \E o \in DOMAIN a.ents : a.ents[o].id = n - 1 /\ x[n] = KKey(a.ents[o])
  BY KEntries
<1>3. /\ y = [n \in 1..m.entrycnt |-> y[n]]
      /\ \A o \in DOMAIN m.ents : y[m.ents[o].id + 1] = KKey(m.ents[o])
  BY <1>1, KEntries
<1>4. /\ m.entrycnt = cnt /\ DOMAIN m.ents = DOMAIN a.ents
      /\ m.ents[off].id = e.id /\ KKey(m.ents[off]) = [KKey(e) EXCEPT !.flags = flags]
      /\ \A o \in DOMAIN a.ents \ {off} : m.ents[o] = a.ents[o]
  <2>1. /\ a = Keys!Arena(a.base, a.buf_len, a.buf_size, a.entrycnt, a.ents)
        /\ e = [id |-> e.id, next_off |-> e.next_off, flags |-> e.flags, name |-> e.name, name_len |-> e.name_len]
    BY DEF KArena, KEntry
  <2>2. m.entrycnt = cnt /\ m.ents = [a.ents EXCEPT ![off].flags = flags]
    BY <2>1 DEF Keys!Arena, KMark
  <2>3. m.ents[off] = [e EXCEPT !.flags = flags]
    BY <2>2
  <2>4. /\ m.ents[off].id = e.id /\ m.ents[off].name = e.name /\ m.ents[off].name_len = e.name_len
        /\ m.ents[off].flags = flags
    <3> DEFINE f == m.ents[off]
    <3>1. f = [e EXCEPT !.flags = flags]
      BY <2>3
    <3> HIDE DEF f, e
    <3>2. f.id = e.id /\ f.name = e.name /\ f.name_len = e.name_len /\ f.flags = flags
      BY <2>1, <3>1
    <3> QED
      BY <3>2 DEF f
  <2> QED
    BY <2>2, <2>4 DEF KKey
<1>5. k \in 1..cnt /\ x[k] = KKey(e)
  BY <1>2
<1>6. y[k] = [x[k] EXCEPT !.flags = flags]
  <2>1. y[m.ents[off].id + 1] = KKey(m.ents[off])
    BY <1>3, <1>4
  <2> HIDE DEF y, x
  <2> QED
    BY <1>4, <1>5, <2>1
<1>7. ASSUME NEW n \in 1..cnt, n # k PROVE y[n] = x[n]
  <2>1. PICK o \in DOMAIN a.ents : a.ents[o].id = n - 1 /\ x[n] = KKey(a.ents[o])
    BY <1>2
  <2>2. (n - 1) + 1 = n
    BY <1>2
  <2>3. o # off
    BY <1>7, <2>1, <2>2
  <2>4. m.ents[o] = a.ents[o] /\ o \in DOMAIN m.ents
    BY <1>4, <2>3
  <2> HIDE DEF y, x
  <2> QED
    BY <1>3, <2>1, <2>2, <2>4
<1>8. y = [n \in 1..cnt |-> y[n]]
  BY <1>3, <1>4
<1> HIDE DEF x, y, k, cnt, e
<1>9. y = [x EXCEPT ![k].flags = flags]
  BY <1>2, <1>5, <1>6, <1>7, <1>8
<1>10. k \in DOMAIN x
  BY <1>2, <1>5
<1> QED
  BY <1>9, <1>10 DEF x, y, KSeen

\* The number of entries that a compaction has passed
KPassed == IF off_cur = kla.buf_len THEN kla.entrycnt ELSE kla.ents[off_cur].id

\* The arena that a compaction fills has, of the entries passed, those in use.
KLog ==
  Keys!There(new_kla) =>
    Keys!Entries(new_kla) = Selection(SubSeq(Keys!Entries(kla), 1, KPassed), Keys!InUse)

KKept ==
  Keys!There(kla) /\ Keys!There(kla') /\ ~Keys!There(new_kla) =>
    \/ Keys!Entries(kla') \in {Keys!Entries(kla), <<>>}
    \/ \E e \in Keys!InUse : Keys!Entries(kla') = Append(Keys!Entries(kla), e)
    \/ \E n \in DOMAIN Keys!Entries(kla) : Keys!Entries(kla') = [Keys!Entries(kla) EXCEPT ![n].flags = "DEAD"]

KDropped ==
  Keys!There(new_kla) /\ Keys!There(kla') /\ kla' # kla => Keys!Entries(kla') = Selection(Keys!Entries(kla), Keys!InUse)

KGoal == KLog' /\ KKept /\ KDropped

\* Selections of the instance are those of Selections.
LEMMA KSelection == \A s, S : Keys!Selection(s, S) = Selection(s, S)
BY DEF Keys!Selection, Selection

\* What is in front of a compaction.
LEMMA KNextPassed ==
  ASSUME KArena(kla), off_cur \in KPlaces(kla), off_cur # kla.buf_len,
         NEW end, end = kla.ents[off_cur].next_off
  PROVE  /\ KPassed \in Nat /\ KPassed < Len(Keys!Entries(kla))
         /\ (IF end = kla.buf_len THEN kla.entrycnt ELSE kla.ents[end].id) = KPassed + 1
         /\ Keys!Entries(kla)[KPassed + 1] = KKey(kla.ents[off_cur])
         /\ KEntry(kla.ents[off_cur])
<1>1. off_cur \in DOMAIN kla.ents /\ KPassed = kla.ents[off_cur].id /\ KEntry(kla.ents[off_cur])
  BY DEF KPlaces, KPassed, KArena
<1>2. /\ kla.entrycnt \in Nat /\ KPassed + 1 \in 1..kla.entrycnt
      /\ Keys!Entries(kla)[KPassed + 1] = KKey(kla.ents[off_cur])
  BY <1>1, KEntries
<1>3. KPassed \in Nat
  BY <1>1 DEF KEntry
<1>4. Len(Keys!Entries(kla)) = kla.entrycnt
  BY KSeq
<1>5. \/ end \in DOMAIN kla.ents /\ kla.ents[end].id = KPassed + 1
      \/ end = kla.buf_len /\ KPassed + 1 = kla.entrycnt
  BY <1>1 DEF KArena, Keys!ChainedArena
<1>6. end \in DOMAIN kla.ents => end # kla.buf_len
  BY DEF KArena
<1> QED
  BY <1>1, <1>2, <1>3, <1>4, <1>5, <1>6

\* An entry of a sequence is selected if it is in use.
LEMMA KSelected ==
  ASSUME NEW e, KEntry(e)
  PROVE  /\ KKey(e) \in Keys!InUse <=> e.flags = "INUSE"
         /\ e.flags = "INUSE" => KKey(e) = Keys!Key(e.name)
BY DEF KEntry, KKey, Keys!Key, Keys!InUse

\* A call outside of compactions
LEMMA KCalled ==
  ASSUME ~Keys!There(new_kla), new_kla' = new_kla, KKept
  PROVE  KGoal
<1>1. ~Keys!There(new_kla')
  OBVIOUS
<1> QED
  BY <1>1 DEF KGoal, KLog, KDropped

\* A compaction has passed one entry more.
LEMMA KCompacted ==
  ASSUME KInv, KLog, Keys!There(new_kla), off_cur < kla.buf_len,
         off_cur' = kla.ents[off_cur].next_off, kla' = kla,
         NEW e, e = kla.ents[off_cur],
         IF e.flags = "INUSE"
         THEN Keys!Entries(new_kla') = Append(Keys!Entries(new_kla), Keys!Key(e.name))
         ELSE new_kla' = new_kla
  PROVE  KGoal
<1> DEFINE w == Keys!Entries(kla)
           T == {w[n] : n \in 1..kla.entrycnt}
           k == KPassed
           S == Keys!InUse
<1>1. KArena(kla) /\ off_cur \in KPlaces(kla) /\ off_cur # kla.buf_len
  <2>1. KArena(kla) /\ off_cur \in KPlaces(kla)
    BY DEF KInv
  <2> QED
    BY <2>1 DEF KArena
<1>2. /\ k \in Nat /\ k < Len(w) /\ w[k + 1] = KKey(e) /\ KEntry(e)
      /\ (IF off_cur' = kla.buf_len THEN kla.entrycnt ELSE kla.ents[off_cur'].id) = k + 1
  BY <1>1, KNextPassed
<1>3. KPassed' = k + 1
  BY <1>2 DEF KPassed
<1>4. w \in Seq(T)
  BY <1>1, KSeq
<1>5. Keys!Entries(new_kla) = Selection(SubSeq(w, 1, k), S)
  BY DEF KLog
<1>6. (KKey(e) \in S <=> e.flags = "INUSE") /\ (e.flags = "INUSE" => KKey(e) = Keys!Key(e.name))
  BY <1>2, KSelected
<1> HIDE DEF w, T, k, S
<1> DEFINE a == w[k + 1]
<1>7. Selection(SubSeq(w, 1, k + 1), S) =
        IF a \in S THEN Append(Selection(SubSeq(w, 1, k), S), a) ELSE Selection(SubSeq(w, 1, k), S)
  BY <1>2, <1>4, SelectionNext
<1>8. a = KKey(e)
  BY <1>2
<1> HIDE DEF a
<1>9. Keys!Entries(new_kla') = Selection(SubSeq(w, 1, k + 1), S)
  <2>1. CASE e.flags = "INUSE"
    BY <1>5, <1>6, <1>7, <1>8, <2>1
  <2>2. CASE e.flags # "INUSE"
    BY <1>5, <1>6, <1>7, <1>8, <2>2
  <2> QED
    BY <2>1, <2>2
<1>10. Keys!Entries(new_kla') = Selection(SubSeq(Keys!Entries(kla'), 1, KPassed'), Keys!InUse)
  BY <1>3, <1>9, Zenon DEF w, S
<1> QED
  BY <1>10 DEF KGoal, KLog, KKept, KDropped

\* Every step keeps the order of the keys, and each of a compaction its selection.
LEMMA KLogNext ==
  ASSUME KInv, KLog, Keys!NextK
  PROVE  KGoal
<1>1. ASSUME Keys!Idle PROVE Keys!There(kla) /\ KArena(kla) /\ ~Keys!There(new_kla)
  BY <1>1 DEF Keys!Idle, KInv
<1>2. CASE Keys!Create
  <2>1. ~Keys!There(kla) /\ new_kla' = new_kla
    BY <1>2 DEF Keys!Create
  <2>2. ~Keys!There(new_kla)
    BY <2>1 DEF KInv
  <2> QED
    BY <2>1, <2>2, KCalled DEF KKept
<1>3. CASE Keys!Destroy
  <2>1. Keys!Idle /\ kla' = Keys!NoArena /\ new_kla' = new_kla
    BY <1>3 DEF Keys!Destroy
  <2>2. ~Keys!There(kla')
    BY <2>1, KNone
  <2> QED
    BY <1>1, <2>1, <2>2, KCalled DEF KKept
<1>4. CASE Keys!Clear
  <2>1. Keys!Idle /\ kla' = Keys!Arena(kla.base, 0, kla.buf_size, 0, <<>>) /\ new_kla' = new_kla
    BY <1>4 DEF Keys!Clear
  <2>2. kla'.entrycnt = 0
    BY <2>1 DEF Keys!Arena
  <2>3. Keys!Entries(kla') = <<>>
    BY <2>2, KEmpty
  <2> QED
    BY <1>1, <2>1, <2>3, KCalled DEF KKept
<1>5. CASE Keys!Rewind \/ Keys!ReadEntry
  <2>1. Keys!Idle /\ kla' = kla /\ new_kla' = new_kla
    BY <1>5 DEF Keys!Rewind, Keys!ReadEntry, Keys!Reads
  <2> QED
    BY <1>1, <2>1, KCalled DEF KKept
<1>6. ASSUME NEW name \in Names, Keys!WriteFails(name) PROVE KGoal
  <2>1. Keys!Idle /\ kla' = kla /\ new_kla' = new_kla
    BY <1>6 DEF Keys!WriteFails, Keys!kvars
  <2> QED
    BY <1>1, <2>1, KCalled DEF KKept
<1>7. ASSUME NEW name \in Names, Keys!WriteEntry(name) PROVE KGoal
  <2>1. PICK b \in Keys!After(kla, NameLen[name]) :
          kla' = Keys!Written(kla, name, NameLen[name], b) /\ Keys!Idle /\ NameLen[name] # 0 /\ new_kla' = new_kla
    BY <1>7 DEF Keys!WriteEntry
  <2>2. b \in Bases /\ KArena(kla)
    BY <1>1, <2>1 DEF Keys!After, KArena
  <2>3. Keys!Entries(kla') = Append(Keys!Entries(kla), Keys!Key(name))
    BY <2>1, <2>2, KAppends
  <2>4. Keys!Key(name) \in Keys!InUse
    BY DEF Keys!InUse
  <2> QED
    BY <1>1, <2>1, <2>3, <2>4, KCalled DEF KKept
<1>8. ASSUME NEW off \in DOMAIN kla.ents, Keys!MarkEntryDead(off) PROVE KGoal
  <2>1. Keys!Idle /\ kla' = [kla EXCEPT !.ents[off].flags = "DEAD"] /\ new_kla' = new_kla
    BY <1>8 DEF Keys!MarkEntryDead
  <2>2. KArena(kla) /\ kla' = KMark(kla, off, "DEAD")
    BY <1>1, <2>1 DEF KMark
  <2>3. \E n \in DOMAIN Keys!Entries(kla) : Keys!Entries(kla') = KSeen(Keys!Entries(kla), n, "DEAD")
    BY <1>8, <2>2, KMarks
  <2>4. \E n \in DOMAIN Keys!Entries(kla) : Keys!Entries(kla') = [Keys!Entries(kla) EXCEPT ![n].flags = "DEAD"]
    BY <2>3 DEF KSeen
  <2> QED
    BY <1>1, <2>1, <2>4, KCalled DEF KKept
<1>9. CASE Keys!CompactBegin
  <2>1. PICK b \in Bases \ {kla.base} : new_kla' = Keys!NewArena(b) /\ off_cur' = 0 /\ kla' = kla /\ Keys!Idle
    BY <1>9 DEF Keys!CompactBegin
  <2>2. new_kla'.entrycnt = 0
    BY <2>1 DEF Keys!NewArena, Keys!Arena
  <2>3. Keys!Entries(new_kla') = <<>>
    BY <2>2, KEmpty
  <2>4. KPassed' = 0
    <3>1. kla.buf_len = 0 => kla.entrycnt = 0
      BY <1>1, <2>1 DEF KArena, Keys!ChainedArena
    <3>2. kla.buf_len # 0 => kla.ents[0].id = 0
      BY <1>1, <2>1 DEF KArena, Keys!ChainedArena
    <3> QED
      BY <2>1, <3>1, <3>2 DEF KPassed
  <2>5. SubSeq(Keys!Entries(kla), 1, 0) = <<>>
    BY NoPart, Zenon
  <2>6. Selection(SubSeq(Keys!Entries(kla'), 1, KPassed'), Keys!InUse) = <<>>
    BY <2>1, <2>4, <2>5, SelectionEmpty
  <2> QED
    BY <1>1, <2>1, <2>3, <2>6 DEF KGoal, KLog, KKept, KDropped
<1>10. CASE Keys!CompactCopy
  <2> DEFINE e == kla.ents[off_cur]
  <2>1. /\ Keys!There(new_kla) /\ off_cur < kla.buf_len /\ off_cur' = e.next_off /\ kla' = kla /\ e.flags = "INUSE"
        /\ \E b \in Keys!After(new_kla, e.name_len) : new_kla' = Keys!Written(new_kla, e.name, e.name_len, b)
        /\ e.next_off = off_cur + Keys!EntLen(e.name_len)
    BY <1>10 DEF Keys!CompactCopy, Keys!Compacts, Keys!Gets
  <2>2. KArena(kla) /\ KArena(new_kla) /\ off_cur \in KPlaces(kla)
    BY <2>1 DEF KInv
  <2>3. off_cur # kla.buf_len
    BY <2>1, <2>2 DEF KArena
  <2>4. KEntry(e) /\ off_cur \in DOMAIN kla.ents
    BY <2>2, <2>3, KFollows
  <2>8. e.name_len = NameLen[e.name]
    BY <2>1, <2>2, <2>4, KReads
  <2> HIDE DEF e
  <2>5. PICK b \in Keys!After(new_kla, NameLen[e.name]) : new_kla' = Keys!Written(new_kla, e.name, NameLen[e.name], b)
    BY <2>1, <2>8
  <2>6. b \in Bases
    BY <2>2 DEF Keys!After, KArena
  <2>7. Keys!Entries(new_kla') = Append(Keys!Entries(new_kla), Keys!Key(e.name))
    BY <2>2, <2>4, <2>5, <2>6, KAppends DEF KEntry
  <2> QED
    BY <2>1, <2>7, KCompacted DEF e
<1>11. CASE Keys!CompactSkip
  <2>1. /\ Keys!There(new_kla) /\ off_cur < kla.buf_len /\ off_cur' = kla.ents[off_cur].next_off
        /\ kla' = kla /\ new_kla' = new_kla /\ kla.ents[off_cur].flags # "INUSE"
    BY <1>11 DEF Keys!CompactSkip, Keys!Compacts
  <2> QED
    BY <2>1, KCompacted
<1>12. CASE Keys!CompactFails
  <2>1. Keys!There(new_kla) /\ new_kla' = Keys!NoArena /\ kla' = kla
    BY <1>12 DEF Keys!CompactFails, Keys!Compacts
  <2>2. ~Keys!There(new_kla')
    BY <2>1, KNone
  <2> QED
    BY <2>1, <2>2 DEF KGoal, KLog, KKept, KDropped
<1>13. CASE Keys!CompactEnd
  <2>1. Keys!There(new_kla) /\ kla' = new_kla /\ new_kla' = Keys!NoArena /\ off_cur = kla.buf_len
    BY <1>13 DEF Keys!CompactEnd
  <2> DEFINE w == Keys!Entries(kla)
             T == {w[n] : n \in 1..kla.entrycnt}
  <2>2. w \in Seq(T) /\ Len(w) = kla.entrycnt /\ KPassed = kla.entrycnt
    BY <2>1, KSeq DEF KInv, KPassed
  <2>3. Keys!Entries(kla') = Selection(SubSeq(w, 1, KPassed), Keys!InUse)
    BY <2>1 DEF KLog
  <2> HIDE DEF w, T
  <2>4. SubSeq(w, 1, KPassed) = w
    BY <2>2, SubSeqFull
  <2>5. Keys!Entries(kla') = Selection(w, Keys!InUse)
    BY <2>3, <2>4
  <2>6. ~Keys!There(new_kla')
    BY <2>1, KNone
  <2> QED
    BY <2>1, <2>5, <2>6 DEF w, KGoal, KLog, KKept, KDropped
<1>14. CASE Keys!ReadAborts \/ Keys!CompactAborts
  <2>1. kla' = Keys!NoArena /\ new_kla' = Keys!NoArena
    BY <1>14 DEF Keys!ReadAborts, Keys!CompactAborts, Keys!Abort
  <2>2. ~Keys!There(kla') /\ ~Keys!There(new_kla')
    BY <2>1, KNone
  <2> QED
    BY <2>1, <2>2 DEF KGoal, KLog, KKept, KDropped
<1> QED
  BY <1>2, <1>3, <1>4, <1>5, <1>6, <1>7, <1>8, <1>9, <1>10, <1>11, <1>12, <1>13, <1>14 DEF Keys!NextK
=============================================================================
