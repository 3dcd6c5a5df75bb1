--------------------------- MODULE Objects_proofs ---------------------------
(***************************************************************************)
(* What the objects around a database keep, for every number of objects,   *)
(* blocks and elements: an inductive invariant of each kind, those of      *)
(* Pools_proofs included, and the theorems of MCObjects that follow.       *)
(***************************************************************************)
EXTENDS Pools_proofs

-----------------------------------------------------------------------------
(* kvsymdb objects *)

Entries == [val : Vals, alive : BOOLEAN]

DbObject == [m_symdb_p : Blocks \cup {NULL}, m_errno : {"OK", "ERR_OPNEW"}]

View == [parent : Objs, block : Blocks, id : Nat \ {0}, val : Vals, good : BOOLEAN]

OwnerTypes ==
  /\ db \in [Objs -> DbObject \cup {NULL}]
  /\ heap \in [Blocks -> Seq(Entries) \cup {NULL}]
  /\ view \in View \cup {NULL}

\* A view is of an entry that is there, with the value it had.
ViewThere ==
  view # NULL /\ view.good =>
    /\ heap[view.block] # NULL /\ view.id \in DOMAIN heap[view.block]
    /\ heap[view.block][view.id].val = view.val

OInv == OwnerTypes /\ Owner!BlocksOwned /\ ViewThere

\* No object has a block at the start.
LEMMA OwnerInit == Owner!InitO => OInv
BY NoneAssumption DEF Owner!InitO, OInv, OwnerTypes, Owner!BlocksOwned, Owner!IsInit, Owner!BlockOf, ViewThere

\* An object is told from none by its type, and so is a block.
LEMMA OwnerNone ==
  /\ \A b \in Blocks \cup {NULL}, err \in {"OK", "ERR_OPNEW"} :
       LET d == Owner!Object(b, err) IN
       d \in DbObject /\ d # NULL /\ d.m_symdb_p = b
  /\ NULL \notin Blocks /\ NULL \notin Seq(Entries) /\ NULL \notin DbObject
  /\ <<>> \in Seq(Entries)
<1>1. NULL \notin Blocks /\ NULL \notin Seq(Entries) /\ NULL \notin DbObject
  BY NoneAssumption DEF Entries, DbObject
<1>2. ASSUME NEW b \in Blocks \cup {NULL}, NEW err \in {"OK", "ERR_OPNEW"}
      PROVE  Owner!Object(b, err) \in DbObject /\ Owner!Object(b, err).m_symdb_p = b
  BY DEF Owner!Object, DbObject
<1> QED
  BY <1>1, <1>2

\* The Selection of the instance
LEMMA OwnerSelection == \A s, S : Owner!Selection(s, S) = Selection(s, S)
  BY DEF Selection, Owner!Selection

\* A block is made, and owned.
LEMMA OConstruct ==
  ASSUME OInv, NEW o \in Objs, Owner!Construct(o)
  PROVE  OInv'
<1>1. PICK b \in Blocks :
       /\ heap[b] = NULL
       /\ heap' = [heap EXCEPT ![b] = <<>>]
       /\ db'   = [db EXCEPT ![o] = Owner!Object(b, "OK")]
  BY DEF Owner!Construct
<1>2. db[o] = NULL /\ view' = view
  BY DEF Owner!Construct
<1>3. OwnerTypes'
  BY <1>1, <1>2, OwnerNone DEF OInv, OwnerTypes
<1>4. /\ db'[o] # NULL /\ db'[o].m_symdb_p = b /\ \A q \in Objs \ {o} : db'[q] = db[q]
      /\ heap'[b] # NULL /\ \A c \in Blocks \ {b} : heap'[c] = heap[c]
  BY <1>1, <1>2, OwnerNone DEF OInv, OwnerTypes
<1>5. Owner!BlocksOwned'
  BY <1>1, <1>2, <1>4, OwnerNone DEF OInv, OwnerTypes, Owner!BlocksOwned, Owner!IsInit, Owner!BlockOf
<1>6. ViewThere'
  BY <1>1, <1>2, <1>4 DEF OInv, OwnerTypes, ViewThere, View
<1> QED
  BY <1>3, <1>5, <1>6 DEF OInv

\* The block that an object owns is there, and nobody else owns it.
LEMMA Owned ==
  ASSUME OInv, NEW o \in Objs, Owner!IsInit(o)
  PROVE  LET b == Owner!BlockOf(o) IN
         /\ b \in Blocks /\ heap[b] # NULL /\ heap[b] \in Seq(Entries)
         /\ db[o] \in DbObject
         /\ \A q \in Objs \ {o} : Owner!IsInit(q) => Owner!BlockOf(q) # b
BY DEF OInv, OwnerTypes, Owner!BlocksOwned, Owner!IsInit, Owner!BlockOf, DbObject

\* When a block is freed or another put in its place, the view into it is not good any
\* more, and one into another block is as it was.
LEMMA Dropped ==
  ASSUME OInv, NEW b, Owner!Drop(b)
  PROVE  /\ view' \in View \cup {NULL}
         /\ view' # NULL /\ view'.good =>
              view # NULL /\ view.good /\ view.block # b /\ view' = view
<1>1. CASE view # NULL /\ view.block = b
  <2>1. view \in View /\ view' = [view EXCEPT !.good = FALSE]
    BY <1>1 DEF OInv, OwnerTypes, Owner!Drop
  <2> QED
    BY <2>1 DEF View
<1>2. CASE ~(view # NULL /\ view.block = b)
  BY <1>2 DEF OInv, OwnerTypes, Owner!Drop
<1> QED
  BY <1>1, <1>2

\* create_kvsymdb gets no memory.
LEMMA OConstructFails ==
  ASSUME OInv, NEW o \in Objs, Owner!ConstructFails(o)
  PROVE  OInv'
<1>1. /\ db[o] = NULL /\ db' = [db EXCEPT ![o] = Owner!Object(NULL, "ERR_OPNEW")]
      /\ heap' = heap /\ view' = view
  BY DEF Owner!ConstructFails
<1>2. db' \in [Objs -> DbObject \cup {NULL}]
  BY <1>1, OwnerNone DEF OInv, OwnerTypes
<1>3. db'[o].m_symdb_p = NULL /\ \A q \in Objs \ {o} : db'[q] = db[q]
  BY <1>1, OwnerNone DEF OInv, OwnerTypes
<1>4. Owner!BlocksOwned'
  BY <1>1, <1>3 DEF OInv, OwnerTypes, Owner!BlocksOwned, Owner!IsInit, Owner!BlockOf
<1> QED
  BY <1>1, <1>2, <1>4 DEF OInv, OwnerTypes, ViewThere

\* An object is destroyed, and its block freed.
LEMMA ODestroy ==
  ASSUME OInv, NEW o \in Objs, Owner!Destroy(o)
  PROVE  OInv'
<1> DEFINE b == Owner!BlockOf(o)
<1>1. /\ db[o] # NULL /\ db' = [db EXCEPT ![o] = NULL]
      /\ heap' = IF Owner!IsInit(o) THEN [heap EXCEPT ![b] = NULL] ELSE heap
      /\ Owner!Drop(b)
  BY DEF Owner!Destroy
<1>2. db' \in [Objs -> DbObject \cup {NULL}] /\ db'[o] = NULL /\ \A q \in Objs \ {o} : db'[q] = db[q]
  BY <1>1 DEF OInv, OwnerTypes
<1>3. heap' \in [Blocks -> Seq(Entries) \cup {NULL}] /\ \A c \in Blocks \ {b} : heap'[c] = heap[c]
  BY <1>1, Owned DEF OInv, OwnerTypes
<1>4. Owner!IsInit(o) => b \in Blocks /\ heap'[b] = NULL /\ \A q \in Objs \ {o} : Owner!IsInit(q) => Owner!BlockOf(q) # b
  BY <1>1, Owned DEF OInv, OwnerTypes
<1>5. ~Owner!IsInit(o) => heap' = heap
  BY <1>1
<1>6. Owner!BlocksOwned'
  <2> USE DEF OInv, Owner!BlocksOwned, Owner!IsInit, Owner!BlockOf
  <2>1. ASSUME NEW c \in Blocks, heap'[c] # NULL PROVE (\E q \in Objs : Owner!IsInit(q) /\ Owner!BlockOf(q) = c)'
    <3>1. heap[c] # NULL /\ ~(Owner!IsInit(o) /\ c = b)
      BY <1>3, <1>4, <1>5, <2>1
    <3>2. PICK q \in Objs : Owner!IsInit(q) /\ Owner!BlockOf(q) = c
      BY <3>1
    <3>3. q # o
      BY <3>1, <3>2
    <3> QED
      BY <1>2, <3>2, <3>3
  <2>2. \A q \in Objs : Owner!IsInit(q)' => q # o /\ Owner!IsInit(q) /\ Owner!BlockOf(q)' = Owner!BlockOf(q)
    BY <1>2
  <2>3. ASSUME NEW q \in Objs, Owner!IsInit(q)' PROVE heap'[Owner!BlockOf(q)'] # NULL
    BY <1>3, <1>4, <1>5, <2>2, <2>3, Owned
  <2> QED
    BY <2>1, <2>2, <2>3
<1>7. view' \in View \cup {NULL} /\ ViewThere'
  <2>1. view' # NULL /\ view'.good => view # NULL /\ view.good /\ view.block # b /\ view' = view /\ view \in View
    BY <1>1, Dropped DEF OInv, OwnerTypes
  <2> QED
    BY <1>1, <1>3, <2>1, Dropped DEF OInv, ViewThere, View
<1> QED
  BY <1>2, <1>3, <1>6, <1>7 DEF OInv, OwnerTypes

\* A block changes hands.
LEMMA OMoveConstruct ==
  ASSUME OInv, NEW o \in Objs, NEW other \in Objs, Owner!MoveConstruct(o, other)
  PROVE  OInv'
<1>1. /\ db[o] = NULL /\ db[other] # NULL /\ heap' = heap /\ view' = view
      /\ db' = [db EXCEPT ![o] = db[other], ![other] = Owner!Object(NULL, "OK")]
  BY DEF Owner!MoveConstruct
<1>2. /\ db' \in [Objs -> DbObject \cup {NULL}]
      /\ o # other /\ db'[o] = db[other] /\ db'[other].m_symdb_p = NULL
      /\ \A q \in Objs \ {o, other} : db'[q] = db[q]
  BY <1>1, OwnerNone DEF OInv, OwnerTypes
<1>3. Owner!BlocksOwned'
  BY <1>1, <1>2 DEF OInv, Owner!BlocksOwned, Owner!IsInit, Owner!BlockOf
<1> QED
  BY <1>1, <1>2, <1>3 DEF OInv, OwnerTypes, ViewThere

\* A block changes hands, and the one that the object had is freed.
LEMMA OMoveAssign ==
  ASSUME OInv, NEW o \in Objs, NEW other \in Objs, Owner!MoveAssign(o, other)
  PROVE  OInv'
<1> DEFINE b == Owner!BlockOf(o)
<1>1. /\ o # other /\ db[o] # NULL /\ db[other] # NULL
      /\ heap' = IF Owner!IsInit(o) THEN [heap EXCEPT ![b] = NULL] ELSE heap
      /\ Owner!Drop(b)
      /\ db' = [db EXCEPT ![o] = db[other], ![other] = Owner!Object(NULL, "OK")]
  BY DEF Owner!MoveAssign
<1>2. /\ db' \in [Objs -> DbObject \cup {NULL}]
      /\ db'[o] = db[other] /\ db'[other].m_symdb_p = NULL
      /\ \A q \in Objs \ {o, other} : db'[q] = db[q]
  BY <1>1, OwnerNone DEF OInv, OwnerTypes
<1>3. heap' \in [Blocks -> Seq(Entries) \cup {NULL}] /\ \A c \in Blocks \ {b} : heap'[c] = heap[c]
  BY <1>1, Owned DEF OInv, OwnerTypes
<1>4. Owner!IsInit(o) => b \in Blocks /\ heap'[b] = NULL /\ \A q \in Objs \ {o} : Owner!IsInit(q) => Owner!BlockOf(q) # b
  BY <1>1, Owned DEF OInv, OwnerTypes
<1>5. ~Owner!IsInit(o) => heap' = heap
  BY <1>1
<1>6. Owner!BlocksOwned'
  BY <1>1, <1>2, <1>3, <1>4, <1>5 DEF OInv, Owner!BlocksOwned, Owner!IsInit, Owner!BlockOf
<1>7. view' \in View \cup {NULL} /\ ViewThere'
  <2>1. view' # NULL /\ view'.good => view # NULL /\ view.good /\ view.block # b /\ view' = view /\ view \in View
    BY <1>1, Dropped DEF OInv, OwnerTypes
  <2> QED
    BY <1>1, <1>3, <2>1, Dropped DEF OInv, ViewThere, View
<1> QED
  BY <1>2, <1>3, <1>6, <1>7 DEF OInv, OwnerTypes

\* Another block takes the place of an object's.
LEMMA OReplace ==
  ASSUME OInv, NEW o \in Objs, Owner!IsInit(o), NEW entries \in Seq(Entries), Owner!Replace(o, entries)
  PROVE  OInv'
<1> DEFINE old == Owner!BlockOf(o)
<1>1. PICK b \in Blocks :
        /\ heap[b] = NULL
        /\ heap' = [heap EXCEPT ![old] = NULL, ![b] = entries]
        /\ db'   = [db EXCEPT ![o].m_symdb_p = b]
        /\ Owner!Drop(old)
  BY DEF Owner!Replace
<1>2. /\ old \in Blocks /\ heap[old] # NULL /\ b # old
      /\ \A q \in Objs \ {o} : Owner!IsInit(q) => Owner!BlockOf(q) # old
      /\ db[o] \in DbObject
  BY <1>1, Owned
<1>3. /\ db' \in [Objs -> DbObject \cup {NULL}]
      /\ db'[o] # NULL /\ db'[o].m_symdb_p = b /\ \A q \in Objs \ {o} : db'[q] = db[q]
  <2>1. [db[o] EXCEPT !.m_symdb_p = b] \in DbObject
    BY <1>2 DEF DbObject
  <2>2. [db[o] EXCEPT !.m_symdb_p = b].m_symdb_p = b
    BY <1>2 DEF DbObject
  <2> QED
    BY <1>1, <2>1, <2>2, OwnerNone DEF OInv, OwnerTypes
<1>4. /\ heap' \in [Blocks -> Seq(Entries) \cup {NULL}]
      /\ heap'[old] = NULL /\ heap'[b] = entries /\ heap'[b] # NULL
      /\ \A c \in Blocks \ {b, old} : heap'[c] = heap[c]
  BY <1>1, <1>2, OwnerNone DEF OInv, OwnerTypes
<1> HIDE DEF old
<1>5. Owner!BlocksOwned'
  <2> USE DEF OInv, Owner!BlocksOwned, Owner!IsInit, Owner!BlockOf
  <2>1. ASSUME NEW c \in Blocks, heap'[c] # NULL PROVE (\E q \in Objs : Owner!IsInit(q) /\ Owner!BlockOf(q) = c)'
    <3>1. CASE c = b
      BY <1>3, <3>1, OwnerNone
    <3>2. CASE c # b
      <4>1. heap[c] # NULL /\ c # old
        BY <1>4, <2>1, <3>2
      <4>2. PICK q \in Objs : Owner!IsInit(q) /\ Owner!BlockOf(q) = c
        BY <4>1
      <4>3. q # o
        BY <4>1, <4>2 DEF old
      <4> QED
        BY <1>3, <4>2, <4>3
    <3> QED
      BY <3>1, <3>2
  <2>2. \A q \in Objs \ {o} : (Owner!IsInit(q)' <=> Owner!IsInit(q)) /\ Owner!BlockOf(q)' = Owner!BlockOf(q)
    BY <1>3
  <2>3. \A q \in Objs \ {o} : Owner!IsInit(q) =>
          /\ heap[Owner!BlockOf(q)] # NULL /\ Owner!BlockOf(q) # old /\ Owner!BlockOf(q) # b
          /\ Owner!BlockOf(q) \in Blocks
    BY <1>1, <1>2, Owned
  <2>4. Owner!BlockOf(o)' = b
    BY <1>3
  <2> QED
    BY <1>4, <2>1, <2>2, <2>3, <2>4
<1>6. view' \in View \cup {NULL} /\ ViewThere'
  <2>1. view' # NULL /\ view'.good => view # NULL /\ view.good /\ view.block # old /\ view' = view /\ view \in View
    BY <1>1, Dropped DEF OInv, OwnerTypes
  <2>2. view' \in View \cup {NULL}
    BY <1>1, Dropped
  <2> QED
    BY <1>1, <1>4, <2>1, <2>2 DEF OInv, ViewThere, View
<1> QED
  BY <1>3, <1>4, <1>5, <1>6 DEF OInv, OwnerTypes

\* The contents of a block change, but no value of an entry that is there.
LEMMA OWrite ==
  ASSUME OInv, NEW o \in Objs, Owner!IsInit(o), NEW entries \in Seq(Entries),
         heap' = [heap EXCEPT ![Owner!BlockOf(o)] = entries], db' = db, view' = view,
         \A i \in DOMAIN heap[Owner!BlockOf(o)] :
           i \in DOMAIN entries /\ entries[i].val = heap[Owner!BlockOf(o)][i].val
  PROVE  OInv'
<1> DEFINE b == Owner!BlockOf(o)
<1>1. b \in Blocks /\ heap[b] # NULL /\ heap[b] \in Seq(Entries)
  BY Owned
<1>2. /\ heap' \in [Blocks -> Seq(Entries) \cup {NULL}] /\ heap'[b] = entries /\ heap'[b] # NULL
      /\ \A c \in Blocks \ {b} : heap'[c] = heap[c]
  BY <1>1, OwnerNone DEF OInv, OwnerTypes
<1>3. \A i \in DOMAIN heap[b] : i \in DOMAIN entries /\ entries[i].val = heap[b][i].val
  OBVIOUS
<1> HIDE DEF b
<1>4. Owner!BlocksOwned'
  BY <1>1, <1>2 DEF OInv, OwnerTypes, Owner!BlocksOwned, Owner!IsInit, Owner!BlockOf
<1>5. ViewThere'
  BY <1>1, <1>2, <1>3 DEF OInv, OwnerTypes, ViewThere, View
<1> QED
  BY <1>2, <1>4, <1>5 DEF OInv, OwnerTypes

\* insert into the space that is left
LEMMA OInsert ==
  ASSUME OInv, NEW o \in Objs, NEW v \in Vals, Owner!Insert(o, v)
  PROVE  OInv'
<1> DEFINE b == Owner!BlockOf(o)
           s == heap[b]
           e == Owner!Entry(v)
<1>1. Owner!IsInit(o) /\ heap' = [heap EXCEPT ![b] = Append(s, e)] /\ db' = db /\ view' = view
  BY DEF Owner!Insert
<1>2. s \in Seq(Entries) /\ e \in Entries
  BY <1>1, Owned DEF Owner!Entry, Entries
<1>3. Append(s, e) \in Seq(Entries) /\ \A i \in DOMAIN s : i \in DOMAIN Append(s, e) /\ Append(s, e)[i] = s[i]
  <2> HIDE DEF s, e
  <2> QED
    BY <1>2
<1> QED
  BY <1>1, <1>3, OWrite

\* mark_dead
LEMMA OMarkDead ==
  ASSUME OInv, NEW o \in Objs, Owner!IsInit(o), NEW i \in DOMAIN heap[Owner!BlockOf(o)], Owner!MarkDead(o, i)
  PROVE  OInv'
<1> DEFINE b == Owner!BlockOf(o)
           s == heap[b]
           t == [s EXCEPT ![i].alive = FALSE]
<1>1. heap' = [heap EXCEPT ![b] = t] /\ db' = db /\ view' = view
  BY DEF Owner!MarkDead
<1>2. s \in Seq(Entries) /\ i \in DOMAIN s
  BY Owned
<1>3. t \in Seq(Entries) /\ \A k \in DOMAIN s : k \in DOMAIN t /\ t[k].val = s[k].val
  <2> HIDE DEF s
  <2>1. s[i] \in Entries
    BY <1>2
  <2>2. [s[i] EXCEPT !.alive = FALSE] \in Entries /\ [s[i] EXCEPT !.alive = FALSE].val = s[i].val
    BY <2>1 DEF Entries
  <2>3. t = [s EXCEPT ![i] = [s[i] EXCEPT !.alive = FALSE]]
    OBVIOUS
  <2> QED
    BY <1>2, <2>2, <2>3
<1> HIDE DEF t
<1> QED
  BY <1>1, <1>3, OWrite

\* An entry_view is made of an entry that is there.
LEMMA OView ==
  ASSUME OInv, NEW o \in Objs, Owner!IsInit(o), NEW i \in DOMAIN heap[Owner!BlockOf(o)], Owner!View(o, i)
  PROVE  OInv'
<1> DEFINE b == Owner!BlockOf(o)
<1>1. db' = db /\ heap' = heap /\ view' = [parent |-> o, block |-> b, id |-> i, val |-> heap[b][i].val, good |-> TRUE]
  BY DEF Owner!View, Owner!get_entview
<1>2. b \in Blocks /\ heap[b] # NULL /\ heap[b] \in Seq(Entries) /\ i \in DOMAIN heap[b]
  BY Owned
<1>3. heap[b][i] \in Entries /\ i \in Nat \ {0}
  BY <1>2
<1> HIDE DEF b
<1>4. view' \in View
  BY <1>1, <1>2, <1>3 DEF View, Entries
<1>5. ViewThere'
  BY <1>1, <1>2 DEF ViewThere
<1> QED
  BY <1>1, <1>4, <1>5 DEF OInv, OwnerTypes, Owner!BlocksOwned, Owner!IsInit, Owner!BlockOf

\* Nothing changes.
LEMMA OStutter ==
  ASSUME OInv, UNCHANGED owner
  PROVE  OInv'
BY DEF owner, OInv, OwnerTypes, Owner!BlocksOwned, Owner!IsInit, Owner!BlockOf, ViewThere

\* Every call on kvsymdb objects keeps the invariant.
LEMMA OwnerNext ==
  ASSUME OInv, Owner!NextO
  PROVE  OInv'
<1>1. PICK o \in Objs :
        \/ Owner!Construct(o) \/ Owner!ConstructFails(o) \/ Owner!Destroy(o)
        \/ Owner!CallNull(o) \/ Owner!CallKeeps(o) \/ Owner!Reserve(o) \/ Owner!Compact(o)
        \/ \E other \in Objs : Owner!MoveConstruct(o, other) \/ Owner!MoveAssign(o, other)
        \/ \E v \in Vals : Owner!Insert(o, v) \/ Owner!InsertGrows(o, v)
        \/ Owner!IsInit(o) /\ \E i \in DOMAIN heap[Owner!BlockOf(o)] : Owner!MarkDead(o, i) \/ Owner!View(o, i)
  BY DEF Owner!NextO
<1>2. Owner!IsInit(o) => heap[Owner!BlockOf(o)] \in Seq(Entries)
  BY Owned
<1>3. ASSUME NEW v \in Vals, Owner!InsertGrows(o, v) PROVE OInv'
  <2>1. Owner!IsInit(o) /\ Owner!Replace(o, Append(heap[Owner!BlockOf(o)], Owner!Entry(v)))
    BY <1>3 DEF Owner!InsertGrows
  <2>2. Owner!Entry(v) \in Entries
    BY DEF Owner!Entry, Entries
  <2>3. Append(heap[Owner!BlockOf(o)], Owner!Entry(v)) \in Seq(Entries)
    BY <1>2, <2>1, <2>2
  <2> QED
    BY <2>1, <2>3, OReplace
<1>4. CASE Owner!Reserve(o)
  BY <1>2, <1>4, OReplace DEF Owner!Reserve
<1>5. CASE Owner!Compact(o)
  <2> DEFINE s == heap[Owner!BlockOf(o)]
             t == Owner!Selection(s, Owner!AliveEntries)
  <2>1. Owner!IsInit(o) /\ Owner!Replace(o, t) /\ s \in Seq(Entries)
    BY <1>2, <1>5 DEF Owner!Compact
  <2>2. t = Selection(s, Owner!AliveEntries)
    BY OwnerSelection
  <2> HIDE DEF s, t
  <2>3. Selection(s, Owner!AliveEntries) \in Seq(Entries \cap Owner!AliveEntries)
    BY <2>1, SelectionType
  <2>4. t \in Seq(Entries)
    BY <2>2, <2>3
  <2> QED
    BY <2>1, <2>4, OReplace
<1>6. CASE Owner!CallNull(o) \/ Owner!CallKeeps(o)
  BY <1>6, OStutter DEF Owner!CallNull, Owner!CallKeeps, Owner!ovars, owner
<1> QED
  BY <1>1, <1>3, <1>4, <1>5, <1>6, OConstruct, OConstructFails, ODestroy, OMoveConstruct, OMoveAssign, OInsert, OMarkDead, OView

-----------------------------------------------------------------------------
(* static_vector *)

\* The array has the elements that callers pushed and have not popped.
TInv ==
  /\ data \in [0..(N - 1) -> Elems \cup {Zero}]
  /\ length \in 0..N
  /\ stack \in Seq(Elems) /\ Len(stack) = length
  /\ \A i \in 1..length : data[i - 1] = stack[i]
  /\ index # Static!FAILED => index \in 0..(N - 1) /\ data[index] \in Elems

\* The array starts empty.
LEMMA StaticInit == Static!InitT => TInv
BY ParametersAssumption DEF Static!InitT, TInv, Static!FAILED

\* A push and a pop keep array and stack alike.
LEMMA StaticNext ==
  ASSUME TInv, Static!NextT
  PROVE  TInv'
<1> USE ParametersAssumption DEF TInv
<1>1. CASE Static!Refuse
  BY <1>1 DEF Static!Refuse
<1>2. CASE Static!pop_back
  <2>1. length' = length - 1 /\ length # 0 /\ stack' = SubSeq(stack, 1, length - 1) /\ index' = length - 1 /\ data' = data
    BY <1>2 DEF Static!pop_back, Static!Front
  <2>2. stack' \in Seq(Elems) /\ Len(stack') = length' /\ \A i \in 1..length' : stack'[i] = stack[i]
    BY <2>1
  <2>3. data[length - 1] = stack[length] /\ stack[length] \in Elems
    BY <2>1
  <2> QED
    BY <2>1, <2>2, <2>3
<1>3. CASE Static!clear
  BY <1>3 DEF Static!clear
<1>4. ASSUME NEW e \in Elems, Static!push_back(e) PROVE TInv'
  <2>1. /\ length < N /\ data' = [data EXCEPT ![length] = e] /\ length' = length + 1
        /\ stack' = Append(stack, e) /\ index' = length
    BY <1>4 DEF Static!push_back
  <2>2. /\ data' \in [0..(N - 1) -> Elems \cup {Zero}] /\ data'[length] = e
        /\ \A i \in 1..length : data'[i - 1] = data[i - 1]
    BY <2>1
  <2>3. /\ stack' \in Seq(Elems) /\ Len(stack') = length' /\ stack'[length'] = e
        /\ \A i \in 1..length : stack'[i] = stack[i]
    BY <2>1
  <2> QED
    BY <2>1, <2>2, <2>3
<1> QED
  BY <1>1, <1>2, <1>3, <1>4 DEF Static!NextT

\* Nothing changes.
LEMMA StaticStutter ==
  ASSUME TInv, UNCHANGED static
  PROVE  TInv'
BY DEF static, TInv

\* What is met from begin to end, and from end to begin, is the stack.
LEMMA StaticStacked ==
  ASSUME TInv
  PROVE  Static!Stacked
<1>1. Static!Forward = stack
  BY DEF TInv, Static!Forward
<1>2. Static!Backward = Static!Reverse(stack)
  BY DEF TInv, Static!Backward, Static!Reverse
<1> QED
  BY <1>1, <1>2 DEF TInv, Static!Stacked

-----------------------------------------------------------------------------
(* Memory streams *)

StreamByte == Bytes \cup {0}

\* What a stream has written and read are parts of the buffer.
SInv ==
  /\ buf \in Seq(StreamByte) /\ Len(buf) = BufSize
  /\ ost # Closed =>
       /\ ist = Closed
       /\ ost \in 0..BufSize /\ sent = SubSeq(buf, 1, ost)
  /\ ist # Closed =>
       /\ ist \in [cur : Nat, last : Nat] /\ ist.last <= BufSize /\ ist.cur <= ist.last
       /\ from \in 0..ist.cur
       /\ sent = SubSeq(buf, 1, ist.last) /\ got = SubSeq(buf, from + 1, ist.cur)

\* No stream is open at the start.
LEMMA StreamInit == Streams!InitS => SInv
BY ParametersAssumption DEF Streams!InitS, SInv, StreamByte

\* A count or an offset that callers ask for, cut to what there is.
LEMMA CutOff ==
  ASSUME NEW n \in Nat, NEW max \in Nat
  PROVE  Streams!AtMost(n, max) \in 0..max
BY DEF Streams!AtMost

\* A write behind what is written.
LEMMA SWrite ==
  ASSUME SInv, NEW count \in Streams!Count, NEW b \in Bytes, Streams!Write(count, b)
  PROVE  SInv'
<1> DEFINE n    == Streams!AtMost(count, BufSize - ost)
           part == [i \in 1..n |-> b]
<1>1. /\ ost # Closed /\ ost' = ost + n /\ sent' = sent \o part
      /\ buf' = [i \in 1..BufSize |-> IF i \in (ost + 1)..(ost + n) THEN b ELSE buf[i]]
      /\ ist' = ist
  BY DEF Streams!Write
<1>2. /\ BufSize \in Nat /\ ost \in 0..BufSize /\ sent = SubSeq(buf, 1, ost) /\ ist = Closed
      /\ buf \in Seq(StreamByte) /\ Len(buf) = BufSize
  BY <1>1, ParametersAssumption DEF SInv
<1>3. count \in Nat /\ BufSize - ost \in Nat
  BY <1>2 DEF Streams!Count
<1>4. n \in 0..(BufSize - ost)
  BY <1>3, CutOff
<1> HIDE DEF n
<1>5. ost + n \in 0..BufSize /\ n \in Nat
  BY <1>2, <1>4
<1>6. b \in StreamByte /\ \A i \in 1..BufSize : buf[i] \in StreamByte
  BY <1>2 DEF StreamByte
<1>7. buf' \in Seq(StreamByte) /\ Len(buf') = BufSize
      /\ \A i \in 1..BufSize : buf'[i] = IF i \in (ost + 1)..(ost + n) THEN b ELSE buf[i]
  BY <1>1, <1>2, <1>6
<1>8. part \in Seq(StreamByte) /\ Len(part) = n /\ \A i \in 1..n : part[i] = b
  BY <1>5, <1>6
<1> HIDE DEF part
<1>9. sent \in Seq(StreamByte) /\ Len(sent) = ost /\ \A i \in 1..ost : sent[i] = buf[i]
  BY <1>2
<1>10. /\ sent' \in Seq(StreamByte) /\ Len(sent') = ost + n
       /\ \A i \in 1..(ost + n) : sent'[i] = IF i <= ost THEN sent[i] ELSE part[i - ost]
  <2>1. /\ sent \o part \in Seq(StreamByte) /\ Len(sent \o part) = Len(sent) + Len(part)
        /\ \A i \in 1..(Len(sent) + Len(part)) :
             (sent \o part)[i] = IF i <= Len(sent) THEN sent[i] ELSE part[i - Len(sent)]
    BY <1>8, <1>9, ConcatProperties
  <2> QED
    BY <1>1, <1>8, <1>9, <2>1
<1>11. SubSeq(buf', 1, ost + n) \in Seq(StreamByte) /\ Len(SubSeq(buf', 1, ost + n)) = ost + n
       /\ \A i \in 1..(ost + n) : SubSeq(buf', 1, ost + n)[i] = buf'[i]
  BY <1>5, <1>7
<1>12. \A i \in 1..(ost + n) : sent'[i] = buf'[i]
  <2> TAKE i \in 1..(ost + n)
  <2>1. CASE i <= ost
    <3>1. sent'[i] = sent[i]
      BY <1>10, <2>1
    <3> QED
      BY <1>2, <1>5, <1>7, <1>9, <2>1, <3>1
  <2>2. CASE i > ost
    <3>1. sent'[i] = part[i - ost] /\ i - ost \in 1..n
      BY <1>2, <1>5, <1>10, <2>2
    <3>2. i \in (ost + 1)..(ost + n) /\ i \in 1..BufSize
      BY <1>2, <1>5, <2>2
    <3> QED
      BY <1>7, <1>8, <3>1, <3>2
  <2> QED
    BY <1>2, <2>1, <2>2
<1>13. sent' = SubSeq(buf', 1, ost + n)
  BY <1>10, <1>11, <1>12, SeqEqual
<1> QED
  BY <1>1, <1>2, <1>5, <1>7, <1>13 DEF SInv

\* A read from where the stream stands.
LEMMA SRead ==
  ASSUME SInv, NEW count \in Streams!Count, Streams!Read(count)
  PROVE  SInv'
<1> DEFINE n   == Streams!AtMost(count, ist.last - ist.cur)
           to  == ist.cur + n
<1>1. /\ ist # Closed /\ got' = got \o SubSeq(buf, ist.cur + 1, to)
      /\ ist' = [ist EXCEPT !.cur = to]
      /\ UNCHANGED <<buf, ost, sent, from>>
  BY DEF Streams!Read
<1>2. /\ ist \in [cur : Nat, last : Nat] /\ ist.last <= BufSize /\ ist.cur <= ist.last
      /\ ist.last \in Nat /\ ist.cur \in Nat
      /\ from \in Nat /\ from <= ist.cur /\ ost = Closed
      /\ sent = SubSeq(buf, 1, ist.last) /\ got = SubSeq(buf, from + 1, ist.cur)
      /\ buf \in Seq(StreamByte) /\ Len(buf) = BufSize
  BY <1>1 DEF SInv
<1>3. n \in 0..(ist.last - ist.cur)
  BY <1>2 DEF Streams!Count, Streams!AtMost
<1> HIDE DEF n
<1>4. to \in Nat /\ ist.cur <= to /\ to <= ist.last /\ to <= Len(buf)
  BY <1>2, <1>3, ParametersAssumption
<1> HIDE DEF to
<1>5. got' = SubSeq(buf, from + 1, to)
  <2>1. SubSeq(buf, from + 1, ist.cur) \o SubSeq(buf, ist.cur + 1, to) = SubSeq(buf, from + 1, to)
    <3> DEFINE b == ist.cur
    <3>1. b \in Nat /\ from \in Nat /\ to \in Nat /\ from <= b /\ b <= to /\ to <= Len(buf) /\ buf \in Seq(StreamByte)
      BY <1>2, <1>4
    <3> HIDE DEF b
    <3>2. SubSeq(buf, from + 1, b) \o SubSeq(buf, b + 1, to) = SubSeq(buf, from + 1, to)
      BY <3>1, PartsJoined
    <3> QED
      BY <3>2 DEF b
  <2> QED
    BY <1>1, <1>2, <2>1
<1>6. ist' \in [cur : Nat, last : Nat] /\ ist'.cur = to /\ ist'.last = ist.last
  BY <1>1, <1>2, <1>4
<1>7. from \in 0..to /\ to <= ist.last
  BY <1>2, <1>4
<1>8. got' = SubSeq(buf', from' + 1, ist'.cur) /\ sent' = SubSeq(buf', 1, ist'.last)
  BY <1>1, <1>2, <1>5, <1>6
<1>9. buf' = buf /\ ost' = Closed /\ from' \in 0..ist'.cur /\ ist'.cur <= ist'.last /\ ist'.last <= BufSize
  BY <1>1, <1>2, <1>6, <1>7
<1> QED
  BY <1>2, <1>6, <1>8, <1>9 DEF SInv

\* Every call on the streams keeps the invariant.
LEMMA StreamNext ==
  ASSUME SInv, Streams!NextS
  PROVE  SInv'
<1> USE ParametersAssumption
<1>1. CASE Streams!OpenOut
  BY <1>1 DEF Streams!OpenOut, SInv
<1>2. CASE Streams!OpenIn
  <2>1. /\ ost # Closed /\ ist' = [cur |-> 0, last |-> ost] /\ ost' = Closed
        /\ from' = 0 /\ got' = <<>> /\ buf' = buf /\ sent' = sent
    BY <1>2 DEF Streams!OpenIn
  <2>2. /\ ist' \in [cur : Nat, last : Nat] /\ ist'.cur = 0 /\ ist'.last = ost
        /\ ost \in 0..BufSize /\ sent = SubSeq(buf, 1, ost)
    BY <2>1 DEF SInv
  <2>3. SubSeq(buf, 1, 0) = <<>>
    BY DEF SInv
  <2> QED
    BY <2>1, <2>2, <2>3 DEF SInv
<1>3. CASE Streams!OpenInFails
  BY <1>3 DEF Streams!OpenInFails, SInv
<1>4. CASE Streams!CloseIn
  BY <1>4 DEF Streams!CloseIn, SInv
<1>5. ASSUME NEW n \in Streams!Count, Streams!SeekOut(n) PROVE SInv'
  <2>1. Streams!AtMost(n, BufSize) \in 0..BufSize
    BY CutOff DEF Streams!Count
  <2> QED
    BY <1>5, <2>1 DEF Streams!SeekOut, SInv
<1>6. ASSUME NEW n \in Streams!Count, Streams!SeekIn(n) PROVE SInv'
  <2> DEFINE to == Streams!AtMost(n, ist.last)
  <2>1. /\ ist # Closed /\ ist' = [ist EXCEPT !.cur = to] /\ from' = to /\ got' = <<>>
        /\ UNCHANGED <<buf, ost, sent>>
    BY <1>6 DEF Streams!SeekIn
  <2>2. ist \in [cur : Nat, last : Nat] /\ ist.last <= BufSize /\ ost = Closed /\ sent = SubSeq(buf, 1, ist.last)
    BY <2>1 DEF SInv
  <2>3. to \in 0..ist.last /\ to \in Nat
    BY <2>2 DEF Streams!Count, Streams!AtMost
  <2> HIDE DEF to
  <2>4. ist' \in [cur : Nat, last : Nat] /\ ist'.cur = to /\ ist'.last = ist.last
    BY <2>1, <2>2, <2>3
  <2>5. SubSeq(buf, to + 1, to) = <<>>
    BY <2>3 DEF SInv
  <2>6. got' = SubSeq(buf', from' + 1, ist'.cur) /\ sent' = SubSeq(buf', 1, ist'.last)
    BY <2>1, <2>2, <2>4, <2>5
  <2>7. buf' \in Seq(StreamByte) /\ Len(buf') = BufSize /\ ost' = Closed
    BY <2>1, <2>2 DEF SInv
  <2>8. ist'.last <= BufSize /\ ist'.cur <= ist'.last /\ from' \in 0..ist'.cur
    BY <2>1, <2>2, <2>3, <2>4
  <2> QED
    BY <2>4, <2>6, <2>7, <2>8 DEF SInv
<1> QED
  BY <1>1, <1>2, <1>3, <1>4, <1>5, <1>6, SWrite, SRead DEF Streams!NextS

\* Nothing changes.
LEMMA StreamStutter ==
  ASSUME SInv, UNCHANGED stream
  PROVE  SInv'
BY DEF stream, SInv

\* A reader has read what was sent, from where it started.
LEMMA StreamReads ==
  ASSUME SInv
  PROVE  Streams!ReadsWhatWasSent
<1>1. ASSUME ist # Closed PROVE got = SubSeq(sent, from + 1, ist.cur)
  <2>1. /\ ist.last \in Nat /\ ist.cur \in Nat /\ from \in Nat
        /\ from <= ist.cur /\ ist.cur <= ist.last /\ ist.last <= Len(buf) /\ buf \in Seq(StreamByte)
    BY <1>1 DEF SInv
  <2>2. SubSeq(SubSeq(buf, 1, ist.last), from + 1, ist.cur) = SubSeq(buf, from + 1, ist.cur)
    BY <2>1, PartOfStart
  <2> QED
    BY <1>1, <2>2 DEF SInv
<1> QED
  BY <1>1 DEF SInv, Streams!ReadsWhatWasSent

-----------------------------------------------------------------------------
(* cxxds::vector *)

VectorRec == [at : Addrs, vec_capacity : Nat, elems : Seq(Elems)]

VInv ==
  /\ vec \in [Vecs -> VectorRec \cup {NULL}] /\ used \subseteq Addrs
  /\ Vectors!VectorsOwned

\* A vector is told from none by its type.
LEMMA VectorNone ==
  ASSUME NEW at \in Addrs, NEW cap \in Nat, NEW elems \in Seq(Elems)
  PROVE  LET v == Vectors!Vec(at, cap, elems) IN
         v \in VectorRec /\ v # NULL /\ v.at = at /\ v.vec_capacity = cap /\ v.elems = elems
<1> DEFINE v == Vectors!Vec(at, cap, elems)
<1>1. v \in VectorRec /\ v.at = at /\ v.vec_capacity = cap /\ v.elems = elems
  BY DEF Vectors!Vec, VectorRec
<1>2. NULL \notin VectorRec
  BY NoneAssumption DEF VectorRec
<1> HIDE DEF v
<1>3. v # NULL
  BY <1>1, <1>2
<1> QED
  BY <1>1, <1>3 DEF v

\* What the vector of an object is, and what its address says of the others.
LEMMA VectorThere ==
  ASSUME VInv, NEW w \in Vecs, vec[w] # NULL
  PROVE  /\ vec[w] \in VectorRec /\ vec[w].at \in used \ lost
         /\ Len(vec[w].elems) <= vec[w].vec_capacity
         /\ vec[w].vec_capacity \in Nat /\ vec[w].elems \in Seq(Elems) /\ Len(vec[w].elems) \in Nat
         /\ \A o \in Vecs \ {w} : vec[o] # NULL => vec[o].at # vec[w].at
<1>1. vec[w] \in VectorRec
  BY DEF VInv
<1>2. vec[w].vec_capacity \in Nat /\ vec[w].elems \in Seq(Elems)
  BY <1>1 DEF VectorRec
<1> QED
  BY <1>1, <1>2, LenProperties DEF VInv, Vectors!VectorsOwned

\* An object gets a vector at an address that is free when its own is freed.
LEMMA VectorSet ==
  ASSUME VInv, NEW w \in Vecs, NEW v \in VectorRec, Len(v.elems) <= v.vec_capacity,
         v.at \notin Vectors!Free(vec[w]), v # NULL,
         vec' = [vec EXCEPT ![w] = v], used' = Vectors!Free(vec[w]) \cup {v.at}, lost' = lost
  PROVE  VInv'
<1>1. vec' \in [Vecs -> VectorRec \cup {NULL}] /\ vec'[w] = v /\ \A o \in Vecs \ {w} : vec'[o] = vec[o]
  BY DEF VInv
<1>2. v.at \in Addrs /\ Vectors!Free(vec[w]) \subseteq used
  BY DEF VectorRec, Vectors!Free
<1>3. used' \subseteq Addrs
  BY <1>2 DEF VInv
<1>4. \A o \in Vecs \ {w} : vec[o] # NULL =>
        vec[o].at \in Vectors!Free(vec[w]) /\ vec[o].at \notin lost /\ Len(vec[o].elems) <= vec[o].vec_capacity
  BY VectorThere DEF Vectors!Free
<1>5. lost \subseteq Vectors!Free(vec[w])
  BY VectorThere DEF Vectors!Free, VInv, Vectors!VectorsOwned
<1>6. \A o \in Vecs : vec'[o] # NULL => vec'[o].at \in used' \ lost' /\ Len(vec'[o].elems) <= vec'[o].vec_capacity
  BY <1>1, <1>4, <1>5
<1>7. \A o, q \in Vecs : vec'[o] # NULL /\ vec'[q] # NULL /\ vec'[o].at = vec'[q].at => o = q
  BY <1>1, <1>4 DEF VInv, Vectors!VectorsOwned
<1>8. ASSUME NEW a PROVE a \in used' <=> a \in lost' \/ \E o \in Vecs : vec'[o] # NULL /\ vec'[o].at = a
  <2>1. a \in used <=> a \in lost \/ \E o \in Vecs : vec[o] # NULL /\ vec[o].at = a
    BY DEF VInv, Vectors!VectorsOwned
  <2>2. a \in Vectors!Free(vec[w]) <=> a \in lost \/ \E o \in Vecs \ {w} : vec[o] # NULL /\ vec[o].at = a
    BY <1>4, <1>5, <2>1 DEF Vectors!Free
  <2> QED
    BY <1>1, <2>2
<1>9. used' = lost' \cup {vec'[o].at : o \in {q \in Vecs : vec'[q] # NULL}}
  BY <1>8
<1> QED
  BY <1>1, <1>3, <1>6, <1>7, <1>9 DEF VInv, Vectors!VectorsOwned

\* The elements of a vector change, or its capacity, and its address does not.
LEMMA VectorChanged ==
  ASSUME VInv, NEW w \in Vecs, vec[w] # NULL, NEW v \in VectorRec, Len(v.elems) <= v.vec_capacity,
         v.at = vec[w].at, vec' = [vec EXCEPT ![w] = v], used' = used, lost' = lost
  PROVE  VInv'
<1>1. v # NULL
  BY NoneAssumption DEF VectorRec
<1>2. vec[w].at \in used
  BY VectorThere
<1>3. v.at \notin Vectors!Free(vec[w]) /\ used' = Vectors!Free(vec[w]) \cup {v.at}
  BY <1>2 DEF Vectors!Free
<1> QED
  BY <1>1, <1>3, VectorSet

\* An object has no vector any more, and what it had is freed, or lost.
LEMMA VectorGone ==
  ASSUME VInv, NEW w \in Vecs, vec' = [vec EXCEPT ![w] = NULL],
         \/ used' = Vectors!Free(vec[w]) /\ lost' = lost
         \/ used' = used /\ lost' = lost \cup (IF vec[w] = NULL THEN {} ELSE {vec[w].at})
  PROVE  VInv'
<1>1. vec' \in [Vecs -> VectorRec \cup {NULL}] /\ vec'[w] = NULL /\ \A o \in Vecs \ {w} : vec'[o] = vec[o]
  BY DEF VInv
<1>2. used' \subseteq Addrs
  BY DEF VInv, Vectors!Free
<1>3. \A o \in Vecs \ {w} : vec[o] # NULL =>
        vec[o].at \in used' \ lost' /\ Len(vec[o].elems) <= vec[o].vec_capacity
  BY VectorThere DEF Vectors!Free
<1>4. \A o \in Vecs : vec'[o] # NULL => vec'[o].at \in used' \ lost' /\ Len(vec'[o].elems) <= vec'[o].vec_capacity
  BY <1>1, <1>3
<1>5. \A o, q \in Vecs : vec'[o] # NULL /\ vec'[q] # NULL /\ vec'[o].at = vec'[q].at => o = q
  BY <1>1 DEF VInv, Vectors!VectorsOwned
<1>6. ASSUME NEW a PROVE a \in used' <=> a \in lost' \/ \E o \in Vecs : vec'[o] # NULL /\ vec'[o].at = a
  <2>1. a \in used <=> a \in lost \/ \E o \in Vecs : vec[o] # NULL /\ vec[o].at = a
    BY DEF VInv, Vectors!VectorsOwned
  <2>2. vec[w] # NULL => vec[w].at \in used \ lost /\ \A o \in Vecs \ {w} : vec[o] # NULL => vec[o].at # vec[w].at
    BY VectorThere
  <2> QED
    BY <1>1, <2>1, <2>2 DEF Vectors!Free
<1>7. used' = lost' \cup {vec'[o].at : o \in {q \in Vecs : vec'[q] # NULL}}
  BY <1>6
<1> QED
  BY <1>1, <1>2, <1>4, <1>5, <1>7 DEF VInv, Vectors!VectorsOwned

\* realloc, in place or to another address
LEMMA VectorGrows ==
  ASSUME VInv, NEW w \in Vecs, vec[w] # NULL, NEW cap \in Nat, NEW elems \in Seq(Elems),
         Len(elems) <= cap, Vectors!Grow(w, cap, elems), lost' = lost
  PROVE  VInv'
<1>1. PICK a \in {vec[w].at} \cup (Addrs \ used) :
        /\ vec'  = [vec EXCEPT ![w] = Vectors!Vec(a, cap, elems)]
        /\ used' = Vectors!Free(vec[w]) \cup {a}
  BY DEF Vectors!Grow
<1>2. vec[w].at \in used /\ vec[w].at \in Addrs
  BY VectorThere DEF VectorRec
<1>3. a \in Addrs /\ a \notin Vectors!Free(vec[w])
  BY <1>2 DEF Vectors!Free
<1> DEFINE v == Vectors!Vec(a, cap, elems)
<1>4. v \in VectorRec /\ v # NULL /\ v.at = a /\ Len(v.elems) <= v.vec_capacity
  BY <1>3, VectorNone
<1> HIDE DEF v
<1> QED
  BY <1>1, <1>3, <1>4, VectorSet DEF v

\* push_back of an element that fits, pop_back and clear.
LEMMA VectorEdit ==
  ASSUME VInv, NEW w \in Vecs, vec[w] # NULL, NEW elems \in Seq(Elems),
         Len(elems) <= vec[w].vec_capacity, vec' = [vec EXCEPT ![w].elems = elems],
         used' = used, lost' = lost
  PROVE  VInv'
<1> DEFINE v == [vec[w] EXCEPT !.elems = elems]
<1>1. vec' = [vec EXCEPT ![w] = v]
  OBVIOUS
<1>2. v \in VectorRec /\ v.at = vec[w].at /\ v.elems = elems /\ v.vec_capacity = vec[w].vec_capacity
  BY VectorThere DEF VectorRec
<1> HIDE DEF v
<1> QED
  BY <1>1, <1>2, VectorChanged

\* A push_back, to a full vector and to one that is not
LEMMA VPushed ==
  ASSUME VInv, NEW w \in Vecs, NEW e \in Elems, Vectors!Pushed(w, e)
  PROVE  VInv'
<1> DEFINE cap   == vec[w].vec_capacity
           elems == Append(vec[w].elems, e)
<1>1. vec[w] # NULL /\ lost' = lost
  BY DEF Vectors!Pushed
<1>2. cap \in Nat /\ vec[w].elems \in Seq(Elems) /\ Len(vec[w].elems) <= cap /\ Len(vec[w].elems) \in Nat
  BY <1>1, VectorThere
<1>3. elems \in Seq(Elems) /\ Len(elems) = Len(vec[w].elems) + 1
  BY <1>2
<1>4. CASE Vectors!Full(w)
  <2>1. Vectors!Grow(w, Vectors!doubled(cap), elems)
    BY <1>4 DEF Vectors!Pushed
  <2>2. Vectors!doubled(cap) \in Nat /\ Len(elems) <= Vectors!doubled(cap)
    BY <1>2, <1>3, <1>4 DEF Vectors!Full, Vectors!doubled, Vectors!VECTOR_INIT_CAPACITY
  <2> HIDE DEF elems, cap
  <2> QED
    BY <1>1, <1>3, <2>1, <2>2, VectorGrows
<1>5. CASE ~Vectors!Full(w)
  <2>1. vec' = [vec EXCEPT ![w].elems = elems] /\ used' = used
    BY <1>5 DEF Vectors!Pushed
  <2>2. Len(elems) <= vec[w].vec_capacity
    BY <1>2, <1>3, <1>5 DEF Vectors!Full
  <2> HIDE DEF elems
  <2> QED
    BY <1>1, <1>3, <2>1, <2>2, VectorEdit
<1> QED
  BY <1>4, <1>5

\* move_in, from another object and from itself
LEMMA VMoveIn ==
  ASSUME VInv, NEW w \in Vecs, NEW in \in Vecs, Vectors!move_in(w, in)
  PROVE  VInv'
<1>1. /\ vec' = [vec EXCEPT ![w] = IF w = in THEN NULL ELSE vec[in], ![in] = NULL]
      /\ used' = Vectors!Free(vec[w]) /\ lost' = lost
  BY DEF Vectors!move_in
<1>2. CASE w = in
  <2>1. vec' = [vec EXCEPT ![w] = NULL]
    BY <1>1, <1>2
  <2> QED
    BY <1>1, <2>1, VectorGone
<1>3. CASE w # in
  <2>1. /\ vec' \in [Vecs -> VectorRec \cup {NULL}] /\ vec'[w] = vec[in] /\ vec'[in] = NULL
        /\ \A o \in Vecs \ {w, in} : vec'[o] = vec[o]
    BY <1>1, <1>3 DEF VInv
  <2>2. used' \subseteq Addrs
    BY <1>1 DEF VInv, Vectors!Free
  <2>3. \A o \in Vecs \ {w} : vec[o] # NULL =>
          vec[o].at \in used' \ lost' /\ Len(vec[o].elems) <= vec[o].vec_capacity
    BY <1>1, VectorThere DEF Vectors!Free
  <2>4. \A o \in Vecs : vec'[o] # NULL => vec'[o].at \in used' \ lost' /\ Len(vec'[o].elems) <= vec'[o].vec_capacity
    BY <1>3, <2>1, <2>3
  <2>5. \A o, q \in Vecs : vec'[o] # NULL /\ vec'[q] # NULL /\ vec'[o].at = vec'[q].at => o = q
    BY <2>1 DEF VInv, Vectors!VectorsOwned
  <2>6. ASSUME NEW a PROVE a \in used' <=> a \in lost' \/ \E o \in Vecs : vec'[o] # NULL /\ vec'[o].at = a
    <3>1. a \in used <=> a \in lost \/ \E o \in Vecs : vec[o] # NULL /\ vec[o].at = a
      BY DEF VInv, Vectors!VectorsOwned
    <3>2. vec[w] # NULL => vec[w].at \in used \ lost /\ \A o \in Vecs \ {w} : vec[o] # NULL => vec[o].at # vec[w].at
      BY VectorThere
    <3>3. a \in used' <=> a \in lost \/ \E o \in Vecs \ {w} : vec[o] # NULL /\ vec[o].at = a
      BY <1>1, <3>1, <3>2 DEF Vectors!Free
    <3>4. (\E o \in Vecs \ {w} : vec[o] # NULL /\ vec[o].at = a) <=> \E o \in Vecs : vec'[o] # NULL /\ vec'[o].at = a
      BY <1>3, <2>1
    <3> QED
      BY <1>1, <3>3, <3>4
  <2>7. used' = lost' \cup {vec'[o].at : o \in {q \in Vecs : vec'[q] # NULL}}
    BY <2>6
  <2> QED
    BY <2>1, <2>2, <2>4, <2>5, <2>7 DEF VInv, Vectors!VectorsOwned
<1> QED
  BY <1>2, <1>3

\* move_out, which leaves the destination's vector to nobody
LEMMA VMoveOut ==
  ASSUME VInv, NEW w \in Vecs, NEW out \in Vecs, Vectors!move_out(w, out)
  PROVE  VInv'
<1>1. /\ vec' = [vec EXCEPT ![out] = vec[w], ![w] = NULL]
      /\ lost' = lost \cup (IF vec[out] = NULL THEN {} ELSE {vec[out].at}) /\ used' = used
  BY DEF Vectors!move_out
<1>2. CASE w = out
  <2>1. vec' = [vec EXCEPT ![w] = NULL]
    BY <1>1, <1>2
  <2> QED
    BY <1>1, <1>2, <2>1, VectorGone
<1>3. CASE w # out
  <2>1. /\ vec' \in [Vecs -> VectorRec \cup {NULL}] /\ vec'[out] = vec[w] /\ vec'[w] = NULL
        /\ \A o \in Vecs \ {w, out} : vec'[o] = vec[o]
    BY <1>1, <1>3 DEF VInv
  <2>2. \A o \in Vecs \ {out} : vec[o] # NULL =>
          vec[o].at \in used \ lost' /\ Len(vec[o].elems) <= vec[o].vec_capacity
    BY <1>1, VectorThere
  <2>3. \A o \in Vecs : vec'[o] # NULL => vec'[o].at \in used' \ lost' /\ Len(vec'[o].elems) <= vec'[o].vec_capacity
    BY <1>1, <1>3, <2>1, <2>2
  <2>4. \A o, q \in Vecs : vec'[o] # NULL /\ vec'[q] # NULL /\ vec'[o].at = vec'[q].at => o = q
    BY <2>1 DEF VInv, Vectors!VectorsOwned
  <2>5. ASSUME NEW a PROVE a \in used' <=> a \in lost' \/ \E o \in Vecs : vec'[o] # NULL /\ vec'[o].at = a
    <3>1. a \in used <=> a \in lost \/ \E o \in Vecs : vec[o] # NULL /\ vec[o].at = a
      BY DEF VInv, Vectors!VectorsOwned
    <3>2. a \in used <=> a \in lost' \/ \E o \in Vecs \ {out} : vec[o] # NULL /\ vec[o].at = a
      BY <1>1, <3>1
    <3>3. (\E o \in Vecs \ {out} : vec[o] # NULL /\ vec[o].at = a) <=> \E o \in Vecs : vec'[o] # NULL /\ vec'[o].at = a
      BY <1>3, <2>1
    <3> QED
      BY <1>1, <3>2, <3>3
  <2>6. used' = lost' \cup {vec'[o].at : o \in {q \in Vecs : vec'[q] # NULL}}
    BY <2>5
  <2> QED
    BY <1>1, <2>1, <2>3, <2>4, <2>6 DEF VInv, Vectors!VectorsOwned
<1> QED
  BY <1>2, <1>3

\* A vector that is empty
LEMMA VEmpty ==
  ASSUME NEW a \in Addrs, NEW v, v = Vectors!Vec(a, 0, <<>>)
  PROVE  v \in VectorRec /\ v # NULL /\ v.at = a /\ v.elems = <<>> /\ Len(v.elems) <= v.vec_capacity
<1> DEFINE none == <<>>
<1>1. none \in Seq(Elems) /\ Len(none) <= 0 /\ 0 \in Nat
  OBVIOUS
<1>2. v = Vectors!Vec(a, 0, none)
  OBVIOUS
<1> HIDE DEF none
<1>3. v \in VectorRec /\ v # NULL /\ v.at = a /\ v.vec_capacity = 0 /\ v.elems = none
  BY <1>1, <1>2, VectorNone
<1> QED
  BY <1>1, <1>3 DEF none

\* A copy begins with a vector that is empty, or with none.
LEMMA VCopyFrom ==
  ASSUME VInv, NEW w \in Vecs, NEW in \in Vecs, Vectors!copy_from(w, in)
  PROVE  VInv'
<1>1. CASE vec' = [vec EXCEPT ![w] = NULL] /\ used' = Vectors!Free(vec[w]) /\ lost' = lost
  BY <1>1, VectorGone
<1>2. CASE \E a \in Addrs \ Vectors!Free(vec[w]) :
             /\ vec'  = [vec EXCEPT ![w] = Vectors!Vec(a, 0, <<>>)]
             /\ used' = Vectors!Free(vec[w]) \cup {a} /\ lost' = lost
  <2>1. PICK a \in Addrs \ Vectors!Free(vec[w]) :
             /\ vec'  = [vec EXCEPT ![w] = Vectors!Vec(a, 0, <<>>)]
             /\ used' = Vectors!Free(vec[w]) \cup {a} /\ lost' = lost
    BY <1>2
  <2> DEFINE v == Vectors!Vec(a, 0, <<>>)
  <2>2. v \in VectorRec /\ v # NULL /\ v.at = a /\ Len(v.elems) <= v.vec_capacity
    BY VEmpty
  <2> HIDE DEF v
  <2> QED
    BY <2>1, <2>2, VectorSet DEF v
<1> QED
  BY <1>1, <1>2 DEF Vectors!copy_from

\* The copy that runs has passed a part of its source, and has that part unless it dropped
\* something.
CopyRec == [to : Vecs, from : Vecs, at : Nat, whole : BOOLEAN]

VCopy ==
  copying # NULL =>
    /\ copying \in CopyRec
    /\ copying.at <= Len(Vectors!Source)
    /\ copying.to = copying.from => copying.at = Len(Vectors!Source)
    /\ copying.whole =>
         /\ vec[copying.to] # NULL
         /\ vec[copying.to].elems = SubSeq(Vectors!Source, 1, copying.at)

\* What a loop over a vector meets.
LEMMA SourceType ==
  ASSUME VInv, NEW w \in Vecs
  PROVE  Vectors!Iterated(vec[w]) \in Seq(Elems) /\ Len(Vectors!Iterated(vec[w])) \in Nat
<1>1. CASE vec[w] = NULL
  BY <1>1 DEF Vectors!Iterated
<1>2. CASE vec[w] # NULL
  BY <1>2, VectorThere DEF Vectors!Iterated
<1> QED
  BY <1>1, <1>2

\* The copy that runs, and what is in front of it.
LEMMA VCopying ==
  ASSUME VInv, VCopy, copying # NULL, copying.at < Len(Vectors!Source)
  PROVE  /\ copying \in CopyRec /\ copying.to \in Vecs /\ copying.from \in Vecs /\ copying.to # copying.from
         /\ copying.at \in Nat /\ copying.at + 1 <= Len(Vectors!Source)
         /\ Vectors!Source \in Seq(Elems) /\ Len(Vectors!Source) \in Nat
         /\ Vectors!Source[copying.at + 1] \in Elems
<1>1. copying \in CopyRec /\ copying.to \in Vecs /\ copying.from \in Vecs /\ copying.at \in Nat
  BY DEF VCopy, CopyRec
<1>2. Vectors!Source \in Seq(Elems) /\ Len(Vectors!Source) \in Nat
  BY <1>1, SourceType DEF Vectors!Source
<1>3. copying.to # copying.from
  BY <1>1, <1>2 DEF VCopy
<1>4. Vectors!Source[copying.at + 1] \in Elems
  BY <1>1, <1>2, SubSeqNext
<1> QED
  BY <1>1, <1>2, <1>3, <1>4

\* No object has a vector at the start.
LEMMA VectorInit == Vectors!InitV => VInv
BY DEF Vectors!InitV, VInv, Vectors!VectorsOwned

\* Nothing changes.
LEMMA VectorStutter ==
  ASSUME VInv, vec' = vec, used' = used, lost' = lost
  PROVE  VInv'
BY DEF VInv, Vectors!VectorsOwned

\* Every call on vectors keeps the invariant.
LEMMA VectorCall ==
  ASSUME VInv, NEW w \in Vecs, Vectors!Call(w)
  PROVE  VInv'
<1>2. CASE Vectors!Create(w)
  <2>1. PICK a \in Addrs \ used :
          /\ vec' = [vec EXCEPT ![w] = Vectors!Vec(a, 0, <<>>)]
          /\ used' = used \cup {a} /\ lost' = lost /\ vec[w] = NULL
    BY <1>2 DEF Vectors!Create
  <2> DEFINE v == Vectors!Vec(a, 0, <<>>)
  <2>2. v \in VectorRec /\ v # NULL /\ v.at = a /\ Len(v.elems) <= v.vec_capacity
    BY VEmpty
  <2>3. Vectors!Free(vec[w]) = used
    BY <2>1 DEF Vectors!Free
  <2> HIDE DEF v
  <2> QED
    BY <2>1, <2>2, <2>3, VectorSet DEF v
<1>3. CASE Vectors!Destroy(w)
  BY <1>3, VectorGone DEF Vectors!Destroy
<1>4. CASE Vectors!pop_back(w)
  <2> DEFINE s == vec[w].elems
             t == SubSeq(s, 1, Len(s) - 1)
  <2>1. vec[w] # NULL /\ s # <<>> /\ vec' = [vec EXCEPT ![w].elems = t] /\ used' = used /\ lost' = lost
    BY <1>4 DEF Vectors!pop_back, Vectors!Front
  <2>2. s \in Seq(Elems) /\ Len(s) <= vec[w].vec_capacity /\ vec[w].vec_capacity \in Nat
    BY <2>1, VectorThere
  <2>3. t \in Seq(Elems) /\ Len(t) = Len(s) - 1 /\ Len(s) \in Nat
    BY <2>1, <2>2, CutLast
  <2>4. Len(t) <= vec[w].vec_capacity
    BY <2>2, <2>3
  <2> HIDE DEF t
  <2> QED
    BY <2>1, <2>3, <2>4, VectorEdit
<1>5. CASE Vectors!Fails(w)
  BY <1>5, VectorStutter DEF Vectors!Fails
<1>6. CASE Vectors!clear(w)
  <2> DEFINE none == <<>>
  <2>1. vec[w] # NULL /\ vec' = [vec EXCEPT ![w].elems = none] /\ used' = used /\ lost' = lost
    BY <1>6 DEF Vectors!clear
  <2>2. vec[w].vec_capacity \in Nat
    BY <2>1, VectorThere
  <2>3. none \in Seq(Elems) /\ Len(none) = 0
    OBVIOUS
  <2> HIDE DEF none
  <2>4. Len(none) <= vec[w].vec_capacity
    BY <2>2, <2>3
  <2> QED
    BY <2>1, <2>3, <2>4, VectorEdit
<1>7. ASSUME NEW n \in 0..MaxCap, Vectors!reserve(w, n) PROVE VInv'
  <2>1. vec[w] # NULL /\ lost' = lost
    BY <1>7 DEF Vectors!reserve
  <2>2. vec[w].elems \in Seq(Elems) /\ vec[w].vec_capacity \in Nat /\ n \in Nat
        /\ Len(vec[w].elems) <= vec[w].vec_capacity /\ Len(vec[w].elems) \in Nat
    BY <2>1, VectorThere
  <2>3. CASE vec[w].vec_capacity < n
    <3>1. Vectors!Grow(w, n, vec[w].elems) /\ Len(vec[w].elems) <= n
      BY <1>7, <2>2, <2>3 DEF Vectors!reserve
    <3> QED
      BY <2>1, <2>2, <3>1, VectorGrows
  <2>4. CASE ~(vec[w].vec_capacity < n)
    BY <1>7, <2>1, <2>4, VectorStutter DEF Vectors!reserve
  <2> QED
    BY <2>3, <2>4
<1>8. ASSUME NEW e \in Elems, Vectors!push_back(w, e) PROVE VInv'
  BY <1>8, VPushed DEF Vectors!push_back
<1> QED
  BY <1>2, <1>3, <1>4, <1>5, <1>6, <1>7, <1>8, VMoveIn, VMoveOut DEF Vectors!Call

\* Calls on vectors and the steps of a copy keep the invariant.
LEMMA VectorNext ==
  ASSUME VInv, VCopy, Vectors!NextV
  PROVE  VInv'
<1>1. CASE Vectors!CopyNext
  <2>1. copying # NULL /\ copying.at < Len(Vectors!Source) /\ Vectors!Pushed(copying.to, Vectors!Source[copying.at + 1])
    BY <1>1 DEF Vectors!CopyNext
  <2> QED
    BY <2>1, VCopying, VPushed
<1>2. CASE Vectors!CopyDrops \/ Vectors!CopyEnd
  BY <1>2, VectorStutter DEF Vectors!CopyDrops, Vectors!CopyEnd
<1> QED
  BY <1>1, <1>2, VectorCall, VCopyFrom DEF Vectors!NextV

\* What a call makes of the elements of a vector
VFrom(old, new) ==
  \/ new \in {old, <<>>} \/ (old # <<>> /\ new = Vectors!Front(old))
  \/ \E e \in Elems : new = Append(old, e)
  \/ \E o \in Vecs : vec[o] # NULL /\ new = vec[o].elems

VGoal == \A w \in Vecs : vec[w] # NULL /\ vec'[w] # NULL /\ vec[w] # vec'[w] => VFrom(vec[w].elems, vec'[w].elems)

\* The vector of one object changes.
LEMMA VOne ==
  ASSUME VInv, NEW w \in Vecs, NEW v, vec' = [vec EXCEPT ![w] = v], vec[w] # NULL => VFrom(vec[w].elems, v.elems)
  PROVE  VGoal
<1>1. vec'[w] = v /\ \A o \in Vecs \ {w} : vec'[o] = vec[o]
  BY DEF VInv
<1> QED
  BY <1>1 DEF VGoal

\* Its elements change, at the place where they are.
LEMMA VEdits ==
  ASSUME VInv, NEW w \in Vecs, vec[w] # NULL, NEW elems, vec' = [vec EXCEPT ![w].elems = elems],
         VFrom(vec[w].elems, elems)
  PROVE  VGoal
<1> DEFINE v == [vec[w] EXCEPT !.elems = elems]
<1>1. vec' = [vec EXCEPT ![w] = v]
  OBVIOUS
<1>2. v.elems = elems
  BY VectorThere DEF VectorRec
<1> HIDE DEF v
<1> QED
  BY <1>1, <1>2, VOne

\* They move to where there is room for them.
LEMMA VGrown ==
  ASSUME VInv, NEW w \in Vecs, vec[w] # NULL, NEW cap, NEW elems, Vectors!Grow(w, cap, elems),
         VFrom(vec[w].elems, elems)
  PROVE  VGoal
<1>1. PICK a : vec' = [vec EXCEPT ![w] = Vectors!Vec(a, cap, elems)]
  BY DEF Vectors!Grow
<1>2. Vectors!Vec(a, cap, elems).elems = elems
  BY DEF Vectors!Vec
<1> QED
  BY <1>1, <1>2, VOne

\* A push_back adds its element at the end.
LEMMA VPushes ==
  ASSUME VInv, NEW w \in Vecs, NEW e \in Elems, Vectors!Pushed(w, e)
  PROVE  /\ vec[w] # NULL /\ vec'[w] # NULL /\ vec'[w].elems = Append(vec[w].elems, e)
         /\ \A o \in Vecs \ {w} : vec'[o] = vec[o]
<1> DEFINE elems == Append(vec[w].elems, e)
<1>1. vec[w] # NULL /\ DOMAIN vec = Vecs
  BY DEF Vectors!Pushed, VInv
<1>2. vec[w] \in VectorRec /\ elems \in Seq(Elems) /\ vec[w].vec_capacity \in Nat
  BY <1>1, VectorThere
<1>3. CASE Vectors!Full(w)
  <2>1. PICK a \in Addrs : vec' = [vec EXCEPT ![w] = Vectors!Vec(a, Vectors!doubled(vec[w].vec_capacity), elems)]
    BY <1>2, <1>3 DEF Vectors!Pushed, Vectors!Grow, VectorRec
  <2> DEFINE cap == Vectors!doubled(vec[w].vec_capacity)
             v   == Vectors!Vec(a, cap, elems)
  <2>2. cap \in Nat
    BY <1>2 DEF Vectors!doubled, Vectors!VECTOR_INIT_CAPACITY
  <2> HIDE DEF cap, elems
  <2>3. v # NULL /\ v.elems = elems
    BY <1>2, <2>2, VectorNone
  <2>4. vec' = [vec EXCEPT ![w] = v]
    BY <2>1 DEF cap
  <2> HIDE DEF v
  <2> QED
    BY <1>1, <2>3, <2>4 DEF elems
<1>4. CASE ~Vectors!Full(w)
  <2> DEFINE v == [vec[w] EXCEPT !.elems = elems]
  <2>1. vec' = [vec EXCEPT ![w] = v]
    BY <1>4 DEF Vectors!Pushed
  <2> HIDE DEF elems
  <2>2. v \in VectorRec /\ v.elems = elems
    BY <1>2 DEF VectorRec
  <2>3. v # NULL
    BY <2>2, NoneAssumption DEF VectorRec
  <2> HIDE DEF v
  <2> QED
    BY <1>1, <2>1, <2>2, <2>3 DEF elems
<1> QED
  BY <1>3, <1>4

\* So no other vector changes, and this one at its end.
LEMMA VPushGoal ==
  ASSUME VInv, NEW w \in Vecs, NEW e \in Elems, Vectors!Pushed(w, e)
  PROVE  VGoal
BY VPushes DEF VGoal, VFrom

\* A call keeps the elements of each vector, but at one end or as a whole.
LEMMA VElemsCall ==
  ASSUME VInv, NEW w \in Vecs, Vectors!Call(w)
  PROVE  VGoal
<1>2. CASE Vectors!Create(w)
  <2>1. PICK a : vec' = [vec EXCEPT ![w] = Vectors!Vec(a, 0, <<>>)] /\ vec[w] = NULL
    BY <1>2 DEF Vectors!Create
  <2> QED
    BY <2>1, VOne
<1>3. CASE Vectors!Destroy(w)
  <2>1. vec'[w] = NULL /\ \A o \in Vecs \ {w} : vec'[o] = vec[o]
    BY <1>3 DEF Vectors!Destroy, VInv
  <2> QED
    BY <2>1 DEF VGoal
<1>4. CASE Vectors!pop_back(w)
  <2>1. vec[w] # NULL /\ vec[w].elems # <<>> /\ vec' = [vec EXCEPT ![w].elems = Vectors!Front(vec[w].elems)]
    BY <1>4 DEF Vectors!pop_back
  <2>2. VFrom(vec[w].elems, Vectors!Front(vec[w].elems))
    BY <2>1 DEF VFrom
  <2> QED
    BY <2>1, <2>2, VEdits
<1>5. CASE Vectors!Fails(w)
  BY <1>5 DEF Vectors!Fails, VGoal
<1>6. CASE Vectors!clear(w)
  <2>1. vec[w] # NULL /\ vec' = [vec EXCEPT ![w].elems = <<>>]
    BY <1>6 DEF Vectors!clear
  <2>2. VFrom(vec[w].elems, <<>>)
    BY DEF VFrom
  <2> QED
    BY <2>1, <2>2, VEdits
<1>7. ASSUME NEW e \in Elems, Vectors!push_back(w, e) PROVE VGoal
  BY <1>7, VPushGoal DEF Vectors!push_back
<1>8. ASSUME NEW n \in 0..MaxCap, Vectors!reserve(w, n) PROVE VGoal
  <2>1. vec[w] # NULL /\ VFrom(vec[w].elems, vec[w].elems)
    BY <1>8 DEF Vectors!reserve, VFrom
  <2>2. CASE vec[w].vec_capacity < n
    BY <1>8, <2>1, <2>2, VGrown DEF Vectors!reserve
  <2>3. CASE ~(vec[w].vec_capacity < n)
    BY <1>8, <2>3 DEF Vectors!reserve, VGoal
  <2> QED
    BY <2>2, <2>3
<1>9. ASSUME NEW from_w \in Vecs, NEW to_w \in Vecs,
             vec' = [vec EXCEPT ![to_w] = IF to_w = from_w THEN NULL ELSE vec[from_w], ![from_w] = NULL]
      PROVE  VGoal
  <2>1. /\ vec'[from_w] = NULL /\ (to_w # from_w => vec'[to_w] = vec[from_w])
        /\ \A o \in Vecs \ {from_w, to_w} : vec'[o] = vec[o]
    BY <1>9 DEF VInv
  <2> QED
    BY <2>1 DEF VGoal, VFrom
<1>10. ASSUME NEW other \in Vecs, Vectors!move_in(w, other) PROVE VGoal
  BY <1>9, <1>10 DEF Vectors!move_in
<1>11. ASSUME NEW other \in Vecs, Vectors!move_out(w, other) PROVE VGoal
  <2>1. vec' = [vec EXCEPT ![other] = IF other = w THEN NULL ELSE vec[w], ![w] = NULL]
    BY <1>11 DEF Vectors!move_out, VInv
  <2> QED
    BY <1>9, <2>1
<1> QED
  BY <1>2, <1>3, <1>4, <1>5, <1>6, <1>7, <1>8, <1>10, <1>11 DEF Vectors!Call

\* A step of a copy too, which appends to the object's vector, or leaves it.
LEMMA VElems ==
  ASSUME VInv, VCopy, Vectors!NextV
  PROVE  VGoal
<1>1. CASE Vectors!CopyNext
  <2>1. copying # NULL /\ copying.at < Len(Vectors!Source) /\ Vectors!Pushed(copying.to, Vectors!Source[copying.at + 1])
    BY <1>1 DEF Vectors!CopyNext
  <2> QED
    BY <2>1, VCopying, VPushGoal
<1>2. CASE Vectors!CopyDrops \/ Vectors!CopyEnd
  BY <1>2 DEF Vectors!CopyDrops, Vectors!CopyEnd, VGoal
<1>3. ASSUME NEW w \in Vecs, NEW in \in Vecs, Vectors!copy_from(w, in) PROVE VGoal
  <2>1. CASE vec' = [vec EXCEPT ![w] = NULL]
    <3>1. vec'[w] = NULL /\ \A o \in Vecs \ {w} : vec'[o] = vec[o]
      BY <2>1 DEF VInv
    <3> QED
      BY <3>1 DEF VGoal
  <2>2. CASE \E a \in Addrs : vec' = [vec EXCEPT ![w] = Vectors!Vec(a, 0, <<>>)]
    <3>1. PICK a \in Addrs : vec' = [vec EXCEPT ![w] = Vectors!Vec(a, 0, <<>>)]
      BY <2>2
    <3>2. Vectors!Vec(a, 0, <<>>).elems = <<>>
      BY VEmpty
    <3>3. VFrom(vec[w].elems, <<>>)
      BY DEF VFrom
    <3> QED
      BY <3>1, <3>2, <3>3, VOne
  <2> QED
    BY <1>3, <2>1, <2>2 DEF Vectors!copy_from
<1> QED
  BY <1>1, <1>2, <1>3, VElemsCall DEF Vectors!NextV

\* When a copy returns that dropped nothing, it is whole.
VWhole ==
  copying # NULL /\ copying' = NULL /\ copying.whole =>
    vec[copying.to] # NULL /\ vec[copying.to].elems = Vectors!Source

\* A copy begins with no element.
LEMMA VCopyStarts ==
  ASSUME VInv, NEW w \in Vecs, NEW in \in Vecs, Vectors!copy_from(w, in)
  PROVE  VCopy'
<1>0. PICK whole \in BOOLEAN : \E v :
        /\ copying' = Vectors!Copying(w, in, 0, whole) /\ vec' = [vec EXCEPT ![w] = v]
        /\ v = NULL \/ (v # NULL /\ v.elems = <<>>)
        /\ whole => v # NULL
  <2>1. CASE vec' = [vec EXCEPT ![w] = NULL] /\ copying' = Vectors!Copying(w, in, 0, FALSE)
    BY <2>1
  <2>2. CASE \E a \in Addrs : vec' = [vec EXCEPT ![w] = Vectors!Vec(a, 0, <<>>)] /\ copying' = Vectors!Copying(w, in, 0, TRUE)
    <3>1. PICK a \in Addrs : vec' = [vec EXCEPT ![w] = Vectors!Vec(a, 0, <<>>)] /\ copying' = Vectors!Copying(w, in, 0, TRUE)
      BY <2>2
    <3> DEFINE v == Vectors!Vec(a, 0, <<>>)
    <3>2. v # NULL /\ v.elems = <<>>
      BY VEmpty
    <3> HIDE DEF v
    <3> QED
      BY <3>1, <3>2 DEF v
  <2> QED
    BY <2>1, <2>2 DEF Vectors!copy_from
<1>1. PICK v :
        /\ copying' = Vectors!Copying(w, in, 0, whole) /\ vec' = [vec EXCEPT ![w] = v]
        /\ v = NULL \/ (v # NULL /\ v.elems = <<>>)
        /\ whole => v # NULL
  BY <1>0
<1>2. copying' \in CopyRec /\ copying'.to = w /\ copying'.from = in /\ copying'.at = 0 /\ copying'.whole = whole
  BY <1>1 DEF Vectors!Copying, CopyRec
<1>3. vec'[w] = v /\ \A o \in Vecs \ {w} : vec'[o] = vec[o]
  BY <1>1 DEF VInv
<1>4. Vectors!Source' = Vectors!Iterated(vec'[in])
  BY <1>2 DEF Vectors!Source
<1>5. Vectors!Iterated(v) = <<>>
  BY <1>1 DEF Vectors!Iterated
<1>6. VInv'
  BY VCopyFrom
<1>7. Len(Vectors!Source') \in Nat
  <2>1. Len(Vectors!Iterated(vec'[in])) \in Nat
    <3>1. CASE in = w
      BY <1>3, <1>5, <3>1
    <3>2. CASE in # w
      BY <1>3, <3>2, SourceType
    <3> QED
      BY <3>1, <3>2
  <2> QED
    BY <1>4, <2>1
<1>8. w = in => Len(Vectors!Source') = 0
  BY <1>3, <1>4, <1>5
<1>9. SubSeq(Vectors!Source', 1, 0) = <<>>
  BY NoPart, Zenon
<1>10. whole => vec'[w] # NULL /\ vec'[w].elems = <<>>
  BY <1>1, <1>3
<1>11. copying'.at <= Len(Vectors!Source') /\ (copying'.to = copying'.from => copying'.at = Len(Vectors!Source'))
  BY <1>2, <1>7, <1>8
<1>12. SubSeq(Vectors!Source', 1, copying'.at) = <<>>
  BY <1>2, <1>9
<1>13. copying'.whole => vec'[copying'.to] # NULL /\ vec'[copying'.to].elems = SubSeq(Vectors!Source', 1, copying'.at)
  BY <1>2, <1>10, <1>12
<1> QED
  BY <1>2, <1>11, <1>13, Zenon DEF VCopy

\* A step of a copy that appends an element
LEMMA VCopySteps ==
  ASSUME VInv, VCopy, Vectors!CopyNext
  PROVE  VCopy'
<1> DEFINE w == copying.to
           k == copying.at
           src == Vectors!Source
<1>1. /\ copying # NULL /\ k < Len(src) /\ Vectors!Pushed(w, src[k + 1])
      /\ copying' = [copying EXCEPT !.at = copying.at + 1]
  BY DEF Vectors!CopyNext
<1>2. /\ copying \in CopyRec /\ w \in Vecs /\ copying.from \in Vecs /\ w # copying.from
      /\ k \in Nat /\ k + 1 <= Len(src) /\ src \in Seq(Elems) /\ src[k + 1] \in Elems
  BY <1>1, VCopying
<1>3. /\ vec'[w] # NULL /\ vec'[w].elems = Append(vec[w].elems, src[k + 1])
      /\ vec'[copying.from] = vec[copying.from]
  BY <1>1, <1>2, VPushes
<1>4. /\ copying' \in CopyRec /\ copying'.to = w /\ copying'.from = copying.from /\ copying'.at = k + 1
      /\ copying'.whole = copying.whole
  <2> DEFINE c == copying
             d == [c EXCEPT !.at = k + 1]
  <2>1. c = [to |-> c.to, from |-> c.from, at |-> c.at, whole |-> c.whole] /\ c.whole \in BOOLEAN
    BY <1>2 DEF CopyRec
  <2>2. d = [to |-> c.to, from |-> c.from, at |-> k + 1, whole |-> c.whole]
    BY <2>1
  <2>3. copying' = d
    BY <1>1
  <2> HIDE DEF d
  <2>4. d.to = c.to /\ d.from = c.from /\ d.at = k + 1 /\ d.whole = c.whole /\ d \in CopyRec
    BY <1>2, <2>1, <2>2 DEF CopyRec
  <2> QED
    BY <2>3, <2>4
<1>5. Vectors!Source' = src
  BY <1>3, <1>4 DEF Vectors!Source
<1>6. copying.whole => vec[w].elems = SubSeq(src, 1, k)
  BY <1>1 DEF VCopy
<1> HIDE DEF w, k, src
<1>7. SubSeq(src, 1, k + 1) = Append(SubSeq(src, 1, k), src[k + 1])
  <2>1. k < Len(src)
    BY <1>1
  <2> QED
    BY <1>2, <2>1, SubSeqNext
<1>8. copying'.whole => vec'[w].elems = SubSeq(src, 1, k + 1)
  BY <1>3, <1>4, <1>6, <1>7
<1> QED
  BY <1>2, <1>3, <1>4, <1>5, <1>8 DEF VCopy

\* Steps of a copy keep what it has, and it returns at the end of its source.
LEMMA VCopyNext ==
  ASSUME VInv, VCopy, Vectors!NextV
  PROVE  VCopy' /\ VWhole
<1>1. ASSUME copying = NULL, copying' = NULL PROVE VCopy' /\ VWhole
  BY <1>1 DEF VCopy, VWhole
<1>2. ASSUME NEW w \in Vecs, NEW in \in Vecs, Vectors!copy_from(w, in) PROVE VCopy' /\ VWhole
  BY <1>2, VCopyStarts DEF VWhole, Vectors!copy_from
<1>3. CASE Vectors!CopyNext
  <2>1. VCopy' /\ copying # NULL /\ copying' = [copying EXCEPT !.at = copying.at + 1]
    BY <1>3, VCopySteps DEF Vectors!CopyNext
  <2>2. copying \in CopyRec
    BY <2>1 DEF VCopy
  <2>3. copying' \in CopyRec
    BY <2>1, <2>2 DEF CopyRec
  <2>4. copying' # NULL
    BY <2>3, NoneAssumption DEF CopyRec
  <2> QED
    BY <2>1, <2>4 DEF VWhole
<1>4. CASE Vectors!CopyDrops
  <2> DEFINE c == copying
             d == Vectors!Copying(c.to, c.from, c.at + 1, FALSE)
  <2>1. c # NULL /\ c.at < Len(Vectors!Source) /\ copying' = d /\ vec' = vec
    BY <1>4 DEF Vectors!CopyDrops
  <2>2. /\ c \in CopyRec /\ c.to \in Vecs /\ c.from \in Vecs /\ c.to # c.from
        /\ c.at \in Nat /\ c.at + 1 <= Len(Vectors!Source)
    BY <2>1, VCopying
  <2>3. d = [to |-> c.to, from |-> c.from, at |-> c.at + 1, whole |-> FALSE]
    BY DEF Vectors!Copying
  <2>5. copying' = d
    BY <2>1
  <2> HIDE DEF d
  <2>6. d.to = c.to /\ d.from = c.from /\ d.at = c.at + 1 /\ ~d.whole /\ d \in CopyRec
    BY <2>2, <2>3 DEF CopyRec
  <2>7. Vectors!Source' = Vectors!Source
    BY <2>1, <2>5, <2>6 DEF Vectors!Source
  <2>8. d # NULL
    BY <2>6, NoneAssumption DEF CopyRec
  <2> QED
    BY <2>2, <2>5, <2>6, <2>7, <2>8 DEF VCopy, VWhole
<1>5. CASE Vectors!CopyEnd
  <2>1. copying # NULL /\ copying.at = Len(Vectors!Source) /\ copying' = NULL
    BY <1>5 DEF Vectors!CopyEnd
  <2> DEFINE src == Vectors!Source
  <2>2. copying.from \in Vecs
    BY <2>1 DEF VCopy, CopyRec
  <2>3. src \in Seq(Elems)
    BY <2>2, SourceType DEF Vectors!Source
  <2>4. copying.whole => vec[copying.to] # NULL /\ vec[copying.to].elems = SubSeq(src, 1, Len(src))
    BY <2>1 DEF VCopy
  <2> HIDE DEF src
  <2>5. SubSeq(src, 1, Len(src)) = src
    BY <2>3, SubSeqFull
  <2>6. copying.whole => vec[copying.to] # NULL /\ vec[copying.to].elems = src
    BY <2>4, <2>5
  <2> QED
    BY <2>1, <2>6 DEF VCopy, VWhole, src
<1> QED
  BY <1>1, <1>2, <1>3, <1>4, <1>5 DEF Vectors!NextV

\* No copy runs at the start.
LEMMA VCopyInit == Vectors!InitV => VCopy
BY DEF Vectors!InitV, VCopy

\* Nothing changes.
LEMMA VCopyStutter == VCopy /\ UNCHANGED vector => VCopy'
BY DEF VCopy, vector, Vectors!Source

-----------------------------------------------------------------------------
(* The objects together *)

ObjectsInv == FInv /\ OInv /\ LInv /\ KInv /\ SInv /\ PInv /\ VInv /\ VCopy /\ TInv

\* Every kind starts well.
LEMMA ObjectsInit == InitObjects => ObjectsInv
BY FInvInit, OwnerInit, LInit, KInit, StreamInit, PInit, VectorInit, VCopyInit, StaticInit DEF InitObjects, ObjectsInv

\* A kind that does not run keeps its invariant.
LEMMA KeepsFile == FInv /\ UNCHANGED fvars => FInv'
BY FInvStep

\* The same of the database objects
LEMMA KeepsOwner == OInv /\ UNCHANGED owner => OInv'
BY OStutter

\* The same of the list
LEMMA KeepsList == LInv /\ UNCHANGED list => LInv'
BY LStutter

\* The same of the streams
LEMMA KeepsStream == SInv /\ UNCHANGED stream => SInv'
BY StreamStutter

\* The same of the pools
LEMMA KeepsPool == PInv /\ UNCHANGED idxpool => PInv'
BY PStutter DEF idxpool

\* The same of the vectors
LEMMA KeepsVector == VInv /\ UNCHANGED vector => VInv'
BY VectorStutter DEF vector

\* The same of the array
LEMMA KeepsStatic == TInv /\ UNCHANGED static => TInv'
BY StaticStutter

\* A step of one kind leaves the others as they are.
LEMMA ObjectsStep == ObjectsInv /\ [NextObjects]_allvars => ObjectsInv'
<1> SUFFICES ASSUME ObjectsInv, [NextObjects]_allvars PROVE ObjectsInv'
  OBVIOUS
<1>1. FInv /\ OInv /\ LInv /\ KInv /\ SInv /\ PInv /\ VInv /\ VCopy /\ TInv
  BY DEF ObjectsInv
<1>2. FInv'
  <2>1. [NextF]_fvars
    BY DEF NextObjects, MapperStep, allvars
  <2> QED
    BY <1>1, <2>1, FInvStep
<1>3. OInv'
  <2>1. Owner!NextO \/ UNCHANGED owner
    BY DEF NextObjects, OwnerStep, allvars
  <2> QED
    BY <1>1, <2>1, OwnerNext, KeepsOwner
<1>4. LInv'
  <2>1. Lists!NextL \/ UNCHANGED list
    BY DEF NextObjects, ListStep, allvars
  <2> QED
    BY <1>1, <2>1, LNext, KeepsList
<1>5. KInv'
  <2>1. Keys!NextK \/ UNCHANGED keylist
    BY DEF NextObjects, KeyStep, allvars
  <2> QED
    BY <1>1, <2>1, KNext, KStutter
<1>6. SInv'
  <2>1. Streams!NextS \/ UNCHANGED stream
    BY DEF NextObjects, StreamStep, allvars
  <2> QED
    BY <1>1, <2>1, StreamNext, KeepsStream
<1>7. PInv'
  <2>1. IdxPool!NextP \/ UNCHANGED idxpool
    BY DEF NextObjects, PoolStep, allvars
  <2> QED
    BY <1>1, <2>1, PNext, KeepsPool
<1>8. VInv' /\ VCopy'
  <2>1. Vectors!NextV \/ UNCHANGED vector
    BY DEF NextObjects, VectorStep, allvars
  <2> QED
    BY <1>1, <2>1, VectorNext, VCopyNext, KeepsVector, VCopyStutter
<1>9. TInv'
  <2>1. Static!NextT \/ UNCHANGED static
    BY DEF NextObjects, StaticStep, allvars
  <2> QED
    BY <1>1, <2>1, StaticNext, KeepsStatic
<1> QED
  BY <1>2, <1>3, <1>4, <1>5, <1>6, <1>7, <1>8, <1>9 DEF ObjectsInv

\* The invariants of the kinds hold in every behaviour of the objects.
THEOREM ObjectsInvariance == SpecObjects => []ObjectsInv
<1>1. InitObjects => ObjectsInv
  BY ObjectsInit
<1>2. ObjectsInv /\ [NextObjects]_allvars => ObjectsInv'
  BY ObjectsStep
<1> QED
  BY <1>1, <1>2, PTL DEF SpecObjects

\* The types of the objects and of the heap
LEMMA OwnerTyped == OInv => Owner!OwnerTypeOK
<1> SUFFICES ASSUME OInv PROVE Owner!OwnerTypeOK
  OBVIOUS
<1>1. ASSUME NEW o \in Objs, db[o] # NULL
      PROVE  Owner!BlockOf(o) \in Blocks \cup {NULL} /\ db[o].m_errno \in {"OK", "ERR_OPNEW"}
  <2>1. db[o] \in DbObject
    BY <1>1 DEF OInv, OwnerTypes
  <2> QED
    BY <2>1 DEF DbObject, Owner!BlockOf
<1>2. \A b \in Blocks : heap[b] = NULL \/ heap[b] \in Seq([val : Vals, alive : BOOLEAN])
  BY DEF OInv, OwnerTypes, Entries
<1> QED
  BY <1>1, <1>2 DEF Owner!OwnerTypeOK

\* A view that is good tells what is in its block.
LEMMA OwnerViews == OInv => Owner!ViewGood
BY DEF OInv, ViewThere, Owner!ViewGood

\* The types of the mappers, of the database objects and of the list.
THEOREM ObjectsTyped == SpecObjects => []ObjectTypes
<1>1. ObjectsInv => ObjectTypes
  <2>1. FInv => FileTypeOK
    BY DEF FInv, TypesOK, MapperObjs, FileTypeOK
  <2>2. OInv => Owner!OwnerTypeOK
    BY OwnerTyped
  <2>3. LInv => Lists!ListTypeOK
    BY DEF LInv
  <2> QED
    BY <2>1, <2>2, <2>3 DEF ObjectsInv, ObjectTypes
<1> QED
  BY <1>1, ObjectsInvariance, PTL

\* No order of constructions, moves, failures, growths and destructions of kvsymdb and of
\* vector objects makes two of them own one block or one own a block that is freed, and a view
\* that is still good tells what the database has at its place.
THEOREM OwnersSafe == SpecObjects => []OwnersSound
<1>1. ObjectsInv => OwnersSound
  BY OwnerViews DEF ObjectsInv, OInv, VInv, OwnersSound
<1> QED
  BY <1>1, ObjectsInvariance, PTL

\* NodePool and PoolAllocator never give a chunk that somebody has, nor lose one: each is in
\* the free list or with a caller (or was refused by free_node), and the counts are theirs.
THEOREM PoolsSafe == SpecObjects => []PoolsAccounted
<1>1. ObjectsInv => PoolsAccounted
  BY LAccounted, PAccounted DEF ObjectsInv, PoolsAccounted
<1> QED
  BY <1>1, ObjectsInvariance, PTL

\* The links that the loops of List, KeyListArena and static_vector follow lead from element
\* to element and back, and a reader of a memory stream gets the bytes that were written.
THEOREM LinksSafe == SpecObjects => []WellLinked
<1>1. ObjectsInv => WellLinked
  BY LAccounted, KChained, StaticStacked, StreamReads DEF ObjectsInv, WellLinked
<1> QED
  BY <1>1, ObjectsInvariance, PTL

\* What containers hold, with the order that a list and a compaction have, and the steps of it
ContentsInv == ObjectsInv /\ KLog /\ \E s : LOrder(s)

\* The containers are empty at first.
LEMMA ContentsInit == InitObjects => ContentsInv /\ Lists!Deque!Init
<1> SUFFICES ASSUME InitObjects PROVE ContentsInv /\ Lists!Deque!Init
  OBVIOUS
<1>1. ObjectsInv /\ Lists!InitL
  BY ObjectsInit DEF InitObjects
<1>2. (\E s : LOrder(s)) /\ Lists!Deque!Init
  BY <1>1, LDequeInit DEF ObjectsInv
<1>3. KLog
  BY KNone DEF InitObjects, Keys!InitK, KLog
<1> QED
  BY <1>1, <1>2, <1>3 DEF ContentsInv

\* A step of the list is one of a deque that acts at the place it names, and the other kinds
\* leave the list as it is.
LEMMA ListKept ==
  ASSUME ContentsInv, [NextObjects]_allvars
  PROVE  (\E s : LOrder(s))' /\ [Lists!Deque!Next]_(Lists!Deque!vars) /\ Lists!NamesItsPlace
<1>1. LInv /\ \E s : LOrder(s)
  BY DEF ContentsInv, ObjectsInv
<1>2. Lists!NamesItsPlace
  BY <1>1, LPlaces
<1>3. CASE Lists!NextL
  BY <1>1, <1>2, <1>3, LDeque DEF LKept
<1>4. CASE UNCHANGED list
  <2>1. next' = next /\ kept' = kept /\ popped' = popped
    BY <1>4 DEF list
  <2>2. (\E s : LOrder(s))'
    BY <1>1, <2>1 DEF LOrder
  <2>3. UNCHANGED Lists!Deque!vars
    BY <2>1 DEF Lists!Deque!vars, Lists!Forward
  <2> QED
    BY <1>2, <2>2, <2>3
<1>5. Lists!NextL \/ UNCHANGED list
  BY DEF NextObjects, ListStep, allvars
<1> QED
  BY <1>3, <1>4, <1>5

\* A step of the key list keeps what it should, and the other kinds leave it as it is.
LEMMA KeysStep ==
  ASSUME ContentsInv, [NextObjects]_allvars
  PROVE  KLog' /\ (UNCHANGED Keys!kvars \/ (KKept /\ KDropped))
<1>1. KInv /\ KLog
  BY DEF ContentsInv, ObjectsInv
<1>2. CASE Keys!NextK
  BY <1>1, <1>2, KLogNext DEF KGoal
<1>3. CASE UNCHANGED keylist
  BY <1>1, <1>3 DEF keylist, Keys!kvars, KLog, KPassed
<1>4. Keys!NextK \/ UNCHANGED keylist
  BY DEF NextObjects, KeyStep, allvars
<1> QED
  BY <1>2, <1>3, <1>4

\* A step of the vectors keeps their elements, and the other kinds leave them as they are.
LEMMA ElemsStep ==
  ASSUME ContentsInv, [NextObjects]_allvars
  PROVE  VGoal /\ (UNCHANGED Vectors!vvars \/ VWhole)
<1>1. Vectors!NextV \/ UNCHANGED vector
  BY DEF NextObjects, VectorStep, allvars
<1>2. VInv /\ VCopy
  BY DEF ContentsInv, ObjectsInv
<1>3. CASE UNCHANGED vector
  BY <1>3 DEF vector, VGoal, Vectors!vvars
<1> QED
  BY <1>1, <1>2, <1>3, VElems, VCopyNext

\* A list is a deque: it keeps the order of its nodes through every insertion and removal,
\* each of which changes the place it names.
\* Keys keep theirs, and a compaction leaves exactly those in use, in order; the
\* elements of a vector are kept through growth, moves and copies, and a copy that
\* found memory at each step is whole.
THEOREM ContentsSafe == SpecObjects => ContentsKept
<1>1. InitObjects => ContentsInv /\ Lists!Deque!Init
  BY ContentsInit
<1>2. ContentsInv /\ [NextObjects]_allvars => ContentsInv'
  BY ObjectsStep, ListKept, KeysStep DEF ContentsInv
<1>3. ContentsInv /\ [NextObjects]_allvars => [Lists!Deque!Next]_(Lists!Deque!vars)
  BY ListKept
<1>4. ContentsInv /\ [NextObjects]_allvars => [Lists!NamesItsPlace]_(Lists!lvars)
  BY ListKept
<1>5. ContentsInv /\ [NextObjects]_allvars =>
      [Keys!There(kla) /\ Keys!There(kla)' /\ ~Keys!There(new_kla) =>
         \/ Keys!Entries(kla') \in {Keys!Entries(kla), <<>>}
         \/ \E e \in Keys!InUse : Keys!Entries(kla') = Append(Keys!Entries(kla), e)
         \/ \E n \in DOMAIN Keys!Entries(kla) : Keys!Entries(kla') = [Keys!Entries(kla) EXCEPT ![n].flags = "DEAD"]]_(Keys!kvars)
  BY KeysStep DEF KKept
<1>6. ContentsInv /\ [NextObjects]_allvars =>
      [Keys!There(new_kla) /\ Keys!There(kla)' /\ kla' # kla =>
         Keys!Entries(kla') = Keys!Selection(Keys!Entries(kla), Keys!InUse)]_(Keys!kvars)
  BY KeysStep, KSelection DEF KDropped
<1>7. ContentsInv /\ [NextObjects]_allvars =>
      [\A w \in Vecs : vec[w] # NULL /\ vec'[w] # NULL /\ vec[w] # vec'[w] =>
         LET old == vec[w].elems
             new == vec'[w].elems
         IN  \/ new \in {old, <<>>} \/ (old # <<>> /\ new = Vectors!Front(old))
             \/ \E e \in Elems : new = Append(old, e)
             \/ \E o \in Vecs : vec[o] # NULL /\ new = vec[o].elems]_(Vectors!vvars)
  BY ElemsStep DEF VGoal, VFrom
<1>8. ContentsInv /\ [NextObjects]_allvars =>
      [copying # NULL /\ copying' = NULL /\ copying.whole =>
         vec[copying.to] # NULL /\ vec[copying.to].elems = Vectors!Iterated(vec[copying.from])]_(Vectors!vvars)
  BY ElemsStep DEF VWhole, Vectors!Source
<1> QED
  BY <1>1, <1>2, <1>3, <1>4, <1>5, <1>6, <1>7, <1>8, PTL
     DEF SpecObjects, ContentsKept, Lists!ImplementsDeque, Lists!Deque!Spec, Lists!PlacesNamed, Keys!KeysKept, Keys!CompactDropsDead, Vectors!ElemsKept,
         Vectors!CopiesWhole
=============================================================================
