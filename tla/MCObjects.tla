------------------------------ MODULE MCObjects ------------------------------
(***************************************************************************)
(* The objects around a database, one kind per behaviour: the initial      *)
(* state chooses which kind runs, and the others stay as they are, so that *)
(* one run explores the sum of the state spaces and not their product.     *)
(***************************************************************************)
EXTENDS FileMapper, Sequences, TLC

CONSTANTS Objs, Blocks, Vals, MaxEntries,         \* KVOwner
          Capacity, SizeofNode, Root,             \* LinkedList
          Names, NameLen, NameLenMod, U32Mod, HeapLimit, MaxKeys,  \* KeyList
          Bytes, BufSize,                         \* MemStream
          Pools, Arrays, MaxCapacity, NULL_IDX,   \* PoolAllocator
          Vecs, Elems, Addrs, MaxCap,             \* CxxVector
          N, Zero                                 \* StaticVector

VARIABLES
  which,  \* the kind of object that runs
  db, heap, view,
  prev, next, free_next, free_head, state, size, kept, refused, popped,
  kla, new_kla, off_cur, kit,
  buf, ost, ist, sent, from, got,
  pool, given, pool_ended,
  vec, used, lost, ret, copying,
  data, length, stack, index

Owner   == INSTANCE KVOwner
Lists   == INSTANCE LinkedList
Keys    == INSTANCE KeyList WITH MaxEntries <- MaxKeys
Streams == INSTANCE MemStream
IdxPool == INSTANCE PoolAllocator
Vectors == INSTANCE CxxVector
Static  == INSTANCE StaticVector

\* NULL is no address, and nothing that can be at one.
ASSUME NoneAssumption ==
  /\ NULL \notin Blocks /\ NULL \notin Seq([val : Vals, alive : BOOLEAN])
  /\ NULL \notin [m_symdb_p : Blocks \cup {NULL}, m_errno : {"OK", "ERR_OPNEW"}]
  /\ NULL \notin [at : Addrs, vec_capacity : Nat, elems : Seq(Elems)]
  /\ NULL \notin [to : Vecs, from : Vecs, at : Nat, whole : BOOLEAN]
  /\ NULL \notin Arrays \cup 0..(Capacity - 1) \cup {Root}
  /\ Root \notin 0..(Capacity - 1) /\ NULL_IDX \notin Nat /\ NULL \notin Nat

\* What the modules take of their other parameters.
ASSUME ParametersAssumption ==
  /\ NameLen \in [Names -> Nat] /\ NameLenMod \in Nat /\ NameLenMod >= 4
  /\ U32Mod \in Nat /\ HeapLimit \in Nat /\ HeapLimit >= 32
  /\ N \in Nat /\ BufSize \in Nat /\ Capacity \in Nat \ {0} /\ MaxCapacity \in Nat
  /\ Closed \notin Nat \cup [cur : Nat, last : Nat]

\* The heap and the keys are small enough for no length or size to wrap at 2^32.
ASSUME NoWrapAssumption == \A name \in Names : 2 * (HeapLimit + NameLen[name] + 16) < U32Mod

MCFds == 0..6
MCStd == 0..2
\* A key of 3 bytes makes an entry of 16, two of which fill a new buffer, one of 70 an
\* entry larger than a buffer that has doubled, and one of 75 does not fit name_len.
MCNameLen == "k0" :> 0 @@ "k3" :> 3 @@ "k70" :> 70 @@ "k75" :> 75

InitObjects ==
  /\ which \in {"mapper", "owner", "list", "keylist", "stream", "pool", "vector", "static"}
  /\ InitF /\ Owner!InitO /\ Lists!InitL /\ Keys!InitK /\ Streams!InitS /\ IdxPool!InitP /\ Vectors!InitV /\ Static!InitT

MapperStep == which = "mapper" /\ NextF
OwnerStep  == which = "owner" /\ Owner!NextO
ListStep   == which = "list" /\ Lists!NextL
KeyStep    == which = "keylist" /\ Keys!NextK
StreamStep == which = "stream" /\ Streams!NextS
PoolStep   == which = "pool" /\ IdxPool!NextP
VectorStep == which = "vector" /\ Vectors!NextV
StaticStep == which = "static" /\ Static!NextT

owner   == <<db, heap, view>>
list    == <<prev, next, free_next, free_head, state, size, kept, refused, popped>>
keylist == <<kla, new_kla, off_cur, kit>>
stream  == <<buf, ost, ist, sent, from, got>>
idxpool == <<pool, given, pool_ended>>
vector  == <<vec, used, lost, ret, copying>>
static  == <<data, length, stack, index>>

NextObjects ==
  /\ UNCHANGED which
  /\ \/ MapperStep /\ UNCHANGED <<owner, list, keylist, stream, idxpool, vector, static>>
     \/ OwnerStep  /\ UNCHANGED <<fvars, list, keylist, stream, idxpool, vector, static>>
     \/ ListStep   /\ UNCHANGED <<fvars, owner, keylist, stream, idxpool, vector, static>>
     \/ KeyStep    /\ UNCHANGED <<fvars, owner, list, stream, idxpool, vector, static>>
     \/ StreamStep /\ UNCHANGED <<fvars, owner, list, keylist, idxpool, vector, static>>
     \/ PoolStep   /\ UNCHANGED <<fvars, owner, list, keylist, stream, vector, static>>
     \/ VectorStep /\ UNCHANGED <<fvars, owner, list, keylist, stream, idxpool, static>>
     \/ StaticStep /\ UNCHANGED <<fvars, owner, list, keylist, stream, idxpool, vector>>

allvars == <<which, fvars, owner, list, keylist, stream, idxpool, vector, static>>

SpecObjects == InitObjects /\ [][NextObjects]_allvars

\* Databases, arenas, mappings and vectors are at the same addresses here, which can be
\* renamed: no code compares two of them but for equality.
AddrSymmetry == Permutations(Addrs)

-----------------------------------------------------------------------------
(* Properties: those of the modules, under one name per question. *)

\* One type invariant for the objects.
ObjectTypes == FileTypeOK /\ Owner!OwnerTypeOK /\ Lists!ListTypeOK

\* A block of memory that kvsymdb and vector objects own has one owner, through every
\* construction, move, growth and failure, and one that is freed has none; an
\* entry_view that a caller keeps is good until its database's block is replaced or freed.
OwnersSound == Owner!BlocksOwned /\ Owner!ViewGood /\ Vectors!VectorsOwned

\* Both pools: a chunk is free, or somebody has it, and the lists and counts say which.
PoolsAccounted == Lists!ChunksAccounted /\ IdxPool!IdxsAccounted

\* The links that loops follow: a list's both ways, a key list's from entry to entry,
\* a static_vector's both ways over its array, a reader's of a stream to the end of what
\* was written.
WellLinked == Lists!Ring /\ Keys!KeysChained /\ Static!Stacked /\ Streams!ReadsWhatWasSent

\* What containers hold, in order, through every step: the list is a deque whose calls act at
\* the places they name, keys are kept by a compaction, elements by growth and by a copy.
ContentsKept == Lists!ImplementsDeque /\ Lists!PlacesNamed /\ Keys!KeysKept /\ Keys!CompactDropsDead /\ Vectors!ElemsKept /\ Vectors!CopiesWhole
=============================================================================
