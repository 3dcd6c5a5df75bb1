---------------------------- MODULE PoolAllocator ----------------------------
(***************************************************************************)
(* cxx_pool_alloc::PoolAllocator: chunks named by their index, with the    *)
(* free ones in a list through next_free_idx, and a state for each, so     *)
(* that callers may free a wrong index or one twice; pools are moved, and  *)
(* the chunks that callers have move with their array.                     *)
(***************************************************************************)
EXTENDS Naturals, FiniteSets

CONSTANTS
  Pools,        \* the PoolAllocator objects
  Arrays,       \* the addresses the heap has for arrays of chunks
  MaxCapacity,  \* the largest pool that callers ask for
  NULL_IDX, NULL

Idxs == 0..MaxCapacity   \* MaxCapacity is never a valid one

VARIABLES
  pool,       \* the members of each object
  given,      \* the chunks that callers have
  pool_ended  \* an assertion has ended the process

pvars == <<pool, given, pool_ended>>

Pool(arr, next_free_idx, free_head, state, size, errno) ==
  [arr |-> arr, next_free_idx |-> next_free_idx, free_head |-> free_head,
   state |-> state, size |-> size, errno |-> errno]

\* PoolAllocator(), and a pool that was moved or whose init has failed
Empty(errno) == Pool(NULL, <<>>, NULL_IDX, <<>>, 0, errno)

CapacityOf(o) == Cardinality(DOMAIN pool[o].state)

InitP == pool = [o \in Pools |-> Empty("UNINIT")] /\ given = {} /\ pool_ended = FALSE

is_init(o) == pool[o].errno # "UNINIT"

\* Handle(pool, idx): the address of a chunk.
Handle(o, i) == <<pool[o].arr, i>>

Becomes(o, p) == pool' = [pool EXCEPT ![o] = p]

\* Of a pool that has no array, so that none is lost.
init(o, capacity) ==
  /\ pool[o].arr = NULL
  /\ \E a \in Arrays \ {pool[x].arr : x \in Pools} :
       Becomes(o, Pool(a, [i \in 0..(capacity - 1) |-> IF i = capacity - 1 THEN NULL_IDX ELSE i + 1], 0,
                       [i \in 0..(capacity - 1) |-> "EMPTY"], 0, "NOERROR"))
  /\ UNCHANGED <<given, pool_ended>>

\* operator new[] fails for the chunks.
init_fails(o) ==
  /\ pool[o].arr = NULL
  /\ Becomes(o, Empty("UNINIT"))
  /\ UNCHANGED <<given, pool_ended>>

\* What callers have of a pool ends with its array.
GivenWithout(o) == {c \in given : c[1] # pool[o].arr}

\* ~PoolAllocator(), and the constructor of another object in its place
cleanup(o) ==
  /\ is_init(o)
  /\ Becomes(o, Empty("UNINIT"))
  /\ given' = GivenWithout(o)
  /\ UNCHANGED pool_ended

\* A mutant: the pool that is moved from keeps its array.
move_shares(o, from) ==
  /\ o # from
  /\ Becomes(o, pool[from])
  /\ given' = GivenWithout(o)
  /\ UNCHANGED pool_ended

\* Move construction, of an object like new, and move assignment: the pool that is moved
\* from says that it is_init, without an array.
move(o, from) ==
  /\ o # from
  /\ pool'  = [pool EXCEPT ![o] = pool[from], ![from] = Empty("NOERROR")]
  /\ given' = GivenWithout(o)
  /\ UNCHANGED pool_ended

Report(o, err) == pool' = [pool EXCEPT ![o].errno = err] /\ UNCHANGED <<given, pool_ended>>

alloc_chunk(o) ==
  LET p == pool[o] IN
  /\ p.free_head # NULL_IDX
  /\ Becomes(o, Pool(p.arr, p.next_free_idx, p.next_free_idx[p.free_head],
                     [p.state EXCEPT ![p.free_head] = "OCCUPIED"], p.size + 1, "NOERROR"))
  /\ given' = given \cup {Handle(o, p.free_head)}
  /\ UNCHANGED pool_ended

\* Also of a pool that is not initialised, which then says that it is.
alloc_full(o) == pool[o].free_head = NULL_IDX /\ Report(o, "ERR_POOL_FULL")

\* A mutant: a chunk that is free already is freed again.
in_range_idx(o, i) == i < CapacityOf(o)

is_valid_chunk_idx(o, i) == i < CapacityOf(o) /\ pool[o].state[i] = "OCCUPIED"

free_chunk(o, i) ==
  LET p == pool[o] IN
  /\ is_valid_chunk_idx(o, i) /\ p.size # 0 /\ p.size < CapacityOf(o)
  /\ Becomes(o, Pool(p.arr, [p.next_free_idx EXCEPT ![i] = p.free_head], i,
                     [p.state EXCEPT ![i] = "EMPTY"], p.size - 1, "NOERROR"))
  /\ given' = given \ {Handle(o, i)}
  /\ UNCHANGED pool_ended

free_bad(o, i) == ~is_valid_chunk_idx(o, i) /\ Report(o, "ERR_BAD_IDX")

\* assert(m_size < m_capacity): no chunk of a full pool can be freed.
free_aborts(o, i) ==
  /\ is_valid_chunk_idx(o, i) /\ pool[o].size = CapacityOf(o)
  /\ pool_ended' = TRUE
  /\ UNCHANGED <<pool, given>>

NextP ==
  /\ ~pool_ended
  /\ \E o \in Pools :
       \/ init_fails(o) \/ cleanup(o) \/ alloc_chunk(o) \/ alloc_full(o)
       \/ \E n \in 1..MaxCapacity : init(o, n)
       \/ \E from \in Pools : move(o, from)
       \/ \E i \in Idxs : free_chunk(o, i) \/ free_bad(o, i) \/ free_aborts(o, i)

SpecP == InitP /\ [][NextP]_pvars

-----------------------------------------------------------------------------
(* Properties *)

\* The chunks in the free list.
FreeIdxs(o) ==
  LET at[i \in 1..MaxCapacity + 1] ==
        IF i = 1 THEN pool[o].free_head
        ELSE IF at[i - 1] = NULL_IDX THEN NULL_IDX ELSE pool[o].next_free_idx[at[i - 1]]
  IN  {at[i] : i \in 1..MaxCapacity + 1} \ {NULL_IDX}

\* A chunk is in the free list or a caller has it, whatever callers free and pools they
\* move: alloc_chunk gives none that somebody has, its assertions hold, and no two
\* pools have one array.
IdxsAccounted ==
  /\ \A o \in Pools :
       LET taken == {i \in DOMAIN pool[o].state : pool[o].state[i] = "OCCUPIED"} IN
       /\ FreeIdxs(o) = DOMAIN pool[o].state \ taken
       /\ taken = {i \in Idxs : Handle(o, i) \in given}
       /\ pool[o].size = Cardinality(taken)
  /\ \A o, x \in Pools : o # x /\ pool[o].arr = pool[x].arr => pool[o].arr = NULL
  /\ \A c \in given : \E o \in Pools : pool[o].arr = c[1]
=============================================================================
