------------------------------- MODULE KVOwner -------------------------------
(***************************************************************************)
(* class kvsymdb: objects that own a block of create_kvsymdb each, are     *)
(* moved and move-assigned, and whose calls may put another block in the   *)
(* place of theirs; and an entry_view that a caller keeps, which points    *)
(* into a block.  What the calls do inside of a block is KVSymDB; here a   *)
(* block is the sequence of its entries.                                   *)
(***************************************************************************)
EXTENDS Naturals, Sequences, Selections

CONSTANTS
  Objs,       \* the places for kvsymdb objects
  Blocks,     \* the addresses the heap has for blocks
  Vals,       \* the contents of entries
  MaxEntries, \* a bound on the entries of a block
  NULL

VARIABLES
  db,     \* the object at each place: its m_symdb_p and m_errno, or NULL
  heap,   \* the block at each address, or NULL
  view    \* the entry_view, or NULL; val and good are history: what its entry
          \* was, and that no call has moved or freed the block since

ovars == <<db, heap, view>>

Object(ptr, err) == [m_symdb_p |-> ptr, m_errno |-> err]

Entry(v) == [val |-> v, alive |-> TRUE]

AliveEntries == {Entry(v) : v \in Vals}

InitO ==
  /\ db   = [o \in Objs |-> NULL]
  /\ heap = [b \in Blocks |-> NULL]
  /\ view = NULL

IsInit(o) == db[o] # NULL /\ db[o].m_symdb_p # NULL

BlockOf(o) == db[o].m_symdb_p

\* The view is no longer good when its block is freed.
Drop(b) == view' = IF view # NULL /\ view.block = b THEN [view EXCEPT !.good = FALSE] ELSE view

-----------------------------------------------------------------------------
(* Objects *)

\* kvsymdb(entc)
Construct(o) ==
  /\ db[o] = NULL
  /\ \E b \in Blocks :
       /\ heap[b] = NULL
       /\ heap' = [heap EXCEPT ![b] = <<>>]
       /\ db'   = [db EXCEPT ![o] = Object(b, "OK")]
  /\ UNCHANGED view

\* create_kvsymdb gets no memory.
ConstructFails(o) ==
  /\ db[o] = NULL
  /\ db' = [db EXCEPT ![o] = Object(NULL, "ERR_OPNEW")]
  /\ UNCHANGED <<heap, view>>

\* ~kvsymdb
Destroy(o) ==
  /\ db[o] # NULL
  /\ db' = [db EXCEPT ![o] = NULL]
  /\ heap' = IF IsInit(o) THEN [heap EXCEPT ![BlockOf(o)] = NULL] ELSE heap
  /\ Drop(BlockOf(o))

\* kvsymdb(std::move(other))
MoveConstruct(o, other) ==
  /\ db[o] = NULL /\ db[other] # NULL
  /\ db' = [db EXCEPT ![o] = db[other], ![other] = Object(NULL, "OK")]
  /\ UNCHANGED <<heap, view>>

\* A mutant: what the object owned is not destroyed.
MoveAssignLeaks(o, other) ==
  /\ o # other /\ db[o] # NULL /\ db[other] # NULL
  /\ db' = [db EXCEPT ![o] = db[other], ![other] = Object(NULL, "OK")]
  /\ UNCHANGED <<heap, view>>

\* o = std::move(other); an object that is moved to itself returns at once.
MoveAssign(o, other) ==
  /\ o # other /\ db[o] # NULL /\ db[other] # NULL
  /\ heap' = IF IsInit(o) THEN [heap EXCEPT ![BlockOf(o)] = NULL] ELSE heap
  /\ Drop(BlockOf(o))
  /\ db' = [db EXCEPT ![o] = db[other], ![other] = Object(NULL, "OK")]

-----------------------------------------------------------------------------
(* Calls on an object *)

\* Every call on an object without a block returns ERR_NULLPTR.
CallNull(o) ==
  /\ db[o] # NULL /\ ~IsInit(o)
  /\ UNCHANGED ovars

\* A call that fails keeps the block: an insert into a full one, a reserve or a
\* compact without memory for a new one.  So does a reserve of no more than there is.
\* (An insert that must grow and gets no memory ends the process: see KVSymDB.)
CallKeeps(o) ==
  /\ IsInit(o)
  /\ UNCHANGED ovars

\* Another block takes the place of the object's block.
Replace(o, entries) ==
  \E b \in Blocks :
    /\ heap[b] = NULL
    /\ heap' = [heap EXCEPT ![BlockOf(o)] = NULL, ![b] = entries]
    /\ db'   = [db EXCEPT ![o].m_symdb_p = b]
    /\ Drop(BlockOf(o))

\* insert into the space that is left
Insert(o, v) ==
  /\ IsInit(o) /\ Len(heap[BlockOf(o)]) < MaxEntries
  /\ heap' = [heap EXCEPT ![BlockOf(o)] = Append(@, Entry(v))]
  /\ UNCHANGED <<db, view>>

\* insert into a block that grows
InsertGrows(o, v) ==
  /\ IsInit(o) /\ Len(heap[BlockOf(o)]) < MaxEntries
  /\ Replace(o, Append(heap[BlockOf(o)], Entry(v)))

\* reserve and reserve_buffer
Reserve(o) ==
  /\ IsInit(o)
  /\ Replace(o, heap[BlockOf(o)])

Compact(o) ==
  /\ IsInit(o)
  /\ Replace(o, Selection(heap[BlockOf(o)], AliveEntries))

MarkDead(o, i) ==
  /\ IsInit(o)
  /\ heap' = [heap EXCEPT ![BlockOf(o)] = [@ EXCEPT ![i].alive = FALSE]]
  /\ UNCHANGED <<db, view>>

\* kvsymdb_get_entview: pointers into the block of the parent.
get_entview(o, i) ==
  [parent |-> o, block |-> BlockOf(o), id |-> i, val |-> heap[BlockOf(o)][i].val, good |-> TRUE]

\* entry_view(symdb, ent_p)
View(o, i) ==
  /\ IsInit(o)
  /\ view' = get_entview(o, i)
  /\ UNCHANGED <<db, heap>>

NextO ==
  \E o \in Objs :
    \/ Construct(o) \/ ConstructFails(o) \/ Destroy(o)
    \/ CallNull(o) \/ CallKeeps(o) \/ Reserve(o) \/ Compact(o)
    \/ \E other \in Objs : MoveConstruct(o, other) \/ MoveAssign(o, other)
    \/ \E v \in Vals : Insert(o, v) \/ InsertGrows(o, v)
    \/ IsInit(o) /\ \E i \in DOMAIN heap[BlockOf(o)] : MarkDead(o, i) \/ View(o, i)

SpecO == InitO /\ [][NextO]_ovars

-----------------------------------------------------------------------------
(* Properties *)

OwnerTypeOK ==
  /\ \A o \in Objs : db[o] = NULL \/ (BlockOf(o) \in Blocks \cup {NULL} /\ db[o].m_errno \in {"OK", "ERR_OPNEW"})
  /\ \A b \in Blocks : heap[b] = NULL \/ heap[b] \in Seq([val : Vals, alive : BOOLEAN])

\* Each block of the heap has one owner, and each object owns a block that is
\* there or none: no sequence of constructions, moves and reallocations leaks a
\* block or lets two destructors free one.
BlocksOwned ==
  /\ \A b \in Blocks : heap[b] # NULL => \E o \in Objs : IsInit(o) /\ BlockOf(o) = b
  /\ \A o \in Objs : IsInit(o) => heap[BlockOf(o)] # NULL
  /\ \A o, other \in Objs : IsInit(o) /\ IsInit(other) /\ BlockOf(o) = BlockOf(other) => o = other

\* An entry_view tells what its entry was when it was made until a call puts
\* another block in the place of its database's block: when the object is moved too.
ViewGood == view # NULL /\ view.good => heap[view.block] # NULL /\ heap[view.block][view.id].val = view.val
=============================================================================
