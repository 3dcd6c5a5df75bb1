------------------------------ MODULE KVSymDB ------------------------------
(***************************************************************************)
(* The in-memory database of kvsymdb.cxx: one heap block that holds a      *)
(* header, an arena of records laid end to end, and a byte of state per    *)
(* record.  A record is reached by walking the arena from its start, each  *)
(* step as long as the record_len found there.  Records are appended,      *)
(* marked dead, and dropped by copying the live ones into a new block.     *)
(*                                                                         *)
(* Every action is one call of the C interface, except that the loop of    *)
(* kvsymdb_compact takes one step per record.  The library is built with   *)
(* its assertions on (makefile:8-9): a failed assertion ends the process.  *)
(***************************************************************************)
EXTENDS KVLayout, Sequences

CONSTANTS
  Keys, Vals,      \* the buffer views callers pass to kvsymdb_insert
  EntCaps,         \* the capacities, in records, that callers ask for
  ArenaSizes,      \* the arena sizes, in bytes, that callers ask for
  HeapLimit        \* no block larger than this can be allocated

\* A view is a pointer and a size.
ASSUME ViewsAssumption ==
  \A view \in Keys \cup Vals : view = View(view.buf_size, view.buf_data)

VARIABLES
  pc,     \* what the process is doing: "none" before create_kvsymdb, "open"
          \* between calls, "compacting", "aborted"
  db,     \* the block the caller's kvsymdb_t* points to
  ndb,    \* kvsymdb_compact: new_symdb_p
  it,     \* kvsymdb_compact: it, as an offset into the old arena
  rc      \* the code the last call returned

vars == <<pc, db, ndb, it, rc>>

-----------------------------------------------------------------------------
(* Error codes and record states *)

NOERROR       == "NOERROR"
ERR_OPNEW     == "ERR_OPNEW"
ERR_BUFVIEW   == "ERR_BUFVIEW"
ERR_FULL      == "ERR_FULL"
ERR_RESIZE    == "ERR_RESIZE"
ERR_RESIZEBUF == "ERR_RESIZEBUF"
ERR_CREATE    == "ERR_CREATE"
ERR_INSERT    == "ERR_INSERT"

ST_EMPTY == "ST_EMPTY"
ST_ALIVE == "ST_ALIVE"
ST_DEAD  == "ST_DEAD"

-----------------------------------------------------------------------------
(* The arena: a partial function from the offset of a header to the record *)

EndOf(arena, off) == off + arena[off].record_len

\* Writing a record overwrites whatever its bytes overlap.
WriteRecord(arena, off, ent) ==
  LET kept == {o \in DOMAIN arena : \/ EndOf(arena, o) <= off
                                    \/ off + ent.record_len <= o}
  IN [o \in kept \cup {off} |-> IF o = off THEN ent ELSE arena[o]]

\* A mutant: the copy stops one byte short.
CopyPrefixShort(arena, len) ==
  [o \in {p \in DOMAIN arena : EndOf(arena, p) < len} |-> arena[o]]

\* memcpy of the first len bytes into a block that was cleared.
CopyPrefix(arena, len) ==
  [o \in {p \in DOMAIN arena : EndOf(arena, p) <= len} |-> arena[o]]

-----------------------------------------------------------------------------
(* The block *)

NewDb(entc, arena_size) ==
  [entrycnt  |-> 0,
   entrycap  |-> entc,
   buf_len   |-> 0,
   buf_size  |-> arena_size,
   err_code  |-> NOERROR,
   state_arr |-> [i \in 0..(entc - 1) |-> ST_EMPTY],
   arena     |-> [o \in {} |-> {}]]

NoDb == NewDb(0, 0)

\* Whether operator new can return a block of this capacity and arena size.
CanAlloc(entc, arena_size) == calc_buf_size(entc, arena_size) <= HeapLimit

Clamped(n, least) == IF n < least THEN least ELSE n

\* create_kvsymdb succeeds, with the block d.
Creates(d, entc, arena_size) ==
  LET cap  == Clamped(entc, INIT_ENTC)
      size == align_off(Clamped(arena_size, INIT_BUFSIZE))
  IN CanAlloc(cap, size) /\ d = NewDb(cap, size)

\* Mutants: the state array is not copied; one state too few is copied.
ResizeKeepsStates(d, entc, arena_size) ==
  [d EXCEPT !.entrycap = entc, !.buf_size = arena_size]

ResizeShortStates(d, entc, arena_size) ==
  [d EXCEPT !.entrycap  = entc,
            !.buf_size  = arena_size,
            !.state_arr = [i \in 0..(entc - 1) |->
                             IF i + 1 < d.entrycnt THEN d.state_arr[i] ELSE ST_EMPTY]]

\* reserve and reserve_arenabuf: a new block with the contents of the old one.
Resize(d, entc, arena_size) ==
  [d EXCEPT !.entrycap  = entc,
            !.buf_size  = arena_size,
            !.state_arr = [i \in 0..(entc - 1) |->
                             IF i < d.entrycnt THEN d.state_arr[i] ELSE ST_EMPTY],
            !.arena     = CopyPrefix(d.arena, d.buf_len)]

assert_intrnl_state(d) ==
  /\ d.buf_size >= INIT_BUFSIZE
  /\ d.entrycap >= INIT_ENTC
  /\ d.buf_len <= d.buf_size
  /\ is_aligned_off(d.buf_len)
  /\ is_aligned_off(d.buf_size)
  /\ d.entrycnt <= d.entrycap

\* The conditions is_valid_entry asserts of the record at off.
is_valid_entry(d, off) ==
  LET ent == d.arena[off] IN
  /\ off + record_size(ent) <= d.buf_len
  /\ is_aligned_off(off)
  /\ ent.id < d.entrycnt
  /\ record_size(ent) = ent.record_len

IsDead(d, off) == d.state_arr[d.arena[off].id] = ST_DEAD

-----------------------------------------------------------------------------
(* kvsymdb_insert, for the block d it works on *)

InsertRefuses(d, key, val, code) ==
  LET empty == IsEmptyView(key) \/ IsEmptyView(val) IN
  \/ code = ERR_BUFVIEW /\ empty
  \/ code = ERR_FULL /\ ~empty /\ d.entrycnt = d.entrycap

InsertAccepts(d, key, val) ==
  /\ ~IsEmptyView(key) /\ ~IsEmptyView(val)
  /\ d.entrycnt # d.entrycap
  /\ assert_intrnl_state(d)

NeedsGrowth(d, entsize) == U32(d.buf_len + entsize) > d.buf_size

\* A mutant: the arena grows by one alignment unit.
GrownSizeOneUnit(d, entsize) == align_off(d.buf_size + 4)

GrownSize(d, entsize) ==
  align_off(IF entsize > d.buf_size THEN entsize ELSE U32(d.buf_size * 2))

\* Mutants: buf_len is advanced by the unpadded size; the id starts from 1.
AppendUnpadded(d, key, val) ==
  LET ent == Record(d.entrycnt, key, val) IN
  [d EXCEPT !.err_code  = NOERROR,
            !.arena     = WriteRecord(d.arena, d.buf_len, ent),
            !.buf_len   = U32(d.buf_len + RecHdrSize + key.buf_size + val.buf_size),
            !.state_arr = [d.state_arr EXCEPT ![d.entrycnt] = ST_ALIVE],
            !.entrycnt  = d.entrycnt + 1]

AppendNextId(d, key, val) ==
  LET ent == Record(d.entrycnt + 1, key, val) IN
  [d EXCEPT !.err_code  = NOERROR,
            !.arena     = WriteRecord(d.arena, d.buf_len, ent),
            !.buf_len   = U32(d.buf_len + ent.record_len),
            !.state_arr = [d.state_arr EXCEPT ![d.entrycnt] = ST_ALIVE],
            !.entrycnt  = d.entrycnt + 1]

\* The record is written at buf_len, in room the arena has for it.
AppendRecord(d, key, val) ==
  LET ent == Record(d.entrycnt, key, val) IN
  [d EXCEPT !.err_code  = NOERROR,
            !.arena     = WriteRecord(d.arena, d.buf_len, ent),
            !.buf_len   = U32(d.buf_len + ent.record_len),
            !.state_arr = [d.state_arr EXCEPT ![d.entrycnt] = ST_ALIVE],
            !.entrycnt  = d.entrycnt + 1]

\* The arena has room for n bytes more.
HasRoom(d, n) == d.buf_len + n <= d.buf_size

\* The record is written all the same when the arena has no room for it, over the
\* bytes behind the arena, which are the state array: the states it covers are
\* bytes of the record, or, in its padding, what they were.  (A byte that is no
\* state is taken for one: it is never compared with ST_DEAD, as every call that
\* would do so fails assert_intrnl_state first.)  The state of the new id is then
\* written into the record, whose part behind the arena is buf_len bytes long and so
\* holds that state: what the record says is lost.  Past the end of the block the
\* memory is not the database's.
OverrunRecord(d, d2, key, val) ==
  LET n       == entsize_required(key, val)
      covered == {id \in DOMAIN d.state_arr : d.buf_size + id < d.buf_len + n}
  IN
  \E bytes \in [covered -> {ST_EMPTY, ST_ALIVE, ST_DEAD}] :
    d2 = [d EXCEPT !.err_code  = NOERROR,
                   !.buf_len   = U32(d.buf_len + n),
                   !.state_arr = [[id \in DOMAIN d.state_arr |->
                                     IF id \in covered THEN bytes[id] ELSE d.state_arr[id]]
                                  EXCEPT ![d.entrycnt] = ST_ALIVE],
                   !.entrycnt  = d.entrycnt + 1]

Appends(d, d2, key, val) ==
  IF HasRoom(d, entsize_required(key, val))
  THEN d2 = AppendRecord(d, key, val)
  ELSE OverrunRecord(d, d2, key, val)

\* The sizes of the parts, summed as size_t, do not fit the uint32_t entsize.
SizeWraps(key, val) ==
  entsize_required(key, val) #
    RecHdrSize + cstr_size_aligned(key.buf_size) + blob_size_aligned(val.buf_size)

\* The call appends a record, in place or in a block grown for it.
InsertReturns(d, d2, key, val) ==
  LET entsize == entsize_required(key, val)
      size    == GrownSize(d, entsize)
  IN
  /\ InsertAccepts(d, key, val)
  /\ ~SizeWraps(key, val)
  /\ \/ /\ ~NeedsGrowth(d, entsize)
        /\ Appends(d, d2, key, val)
     \/ /\ NeedsGrowth(d, entsize)
        /\ size >= d.buf_len
        /\ CanAlloc(d.entrycap, size)
        /\ Appends(Resize(d, d.entrycap, size), d2, key, val)

\* reserve_arenabuf returns the positive code ERR_OPNEW when no block can be
\* had; the test "rc < 0" does not see it, and the assertion that the buffer
\* has the new size fails.  The assertions that the new size holds the old
\* records, and that entsize is the sum of the parts, end the call in the same
\* way.
InsertAborts(d, key, val) ==
  /\ InsertAccepts(d, key, val)
  /\ NeedsGrowth(d, entsize_required(key, val)) \/ SizeWraps(key, val)

-----------------------------------------------------------------------------
(* The life of a block *)

Init ==
  /\ pc = "none"
  /\ db = NoDb
  /\ ndb = NoDb
  /\ it = 0
  /\ rc = NOERROR

Create(entc, arena_size) ==
  /\ pc = "none"
  /\ Creates(db', entc, arena_size)
  /\ pc' = "open"
  /\ rc' = NOERROR
  /\ UNCHANGED <<ndb, it>>

CreateFails ==
  /\ pc = "none"
  /\ rc' = ERR_OPNEW
  /\ UNCHANGED <<pc, db, ndb, it>>

Destroy ==
  /\ pc = "open"
  /\ pc' = "none"
  /\ db' = NoDb
  /\ rc' = NOERROR
  /\ UNCHANGED <<ndb, it>>

WithError(d, code) == [d EXCEPT !.err_code = code]

\* A mutant: the error is returned but not kept in the block.
OnlyReturned(code) ==
  /\ rc' = code
  /\ UNCHANGED <<pc, db, ndb, it>>

\* A call that only leaves an error code behind, in the block and as its result.
OnlyError(code) ==
  /\ db' = WithError(db, code)
  /\ rc' = code
  /\ UNCHANGED <<pc, ndb, it>>

Clearerr == pc = "open" /\ OnlyError(NOERROR)

\* A failed assertion: the memory of the process is gone.
Abort ==
  /\ pc' = "aborted"
  /\ db' = NoDb
  /\ ndb' = NoDb
  /\ it' = 0
  /\ rc' = NOERROR

\* Every call that changes a block, but for the refusals of kvsymdb_insert,
\* first asserts that the block is well formed.
StateAssertFails ==
  /\ pc = "open"
  /\ ~assert_intrnl_state(db)
  /\ Abort

\* The next process starts with nothing.
NextProcess ==
  /\ pc = "aborted"
  /\ pc' = "none"
  /\ UNCHANGED <<db, ndb, it, rc>>

-----------------------------------------------------------------------------
(* Records *)

Insert(key, val) ==
  /\ pc = "open"
  /\ InsertReturns(db, db', key, val)
  /\ rc' = NOERROR
  /\ UNCHANGED <<pc, ndb, it>>

InsertRefused(key, val) ==
  /\ pc = "open"
  /\ \E code \in {ERR_BUFVIEW, ERR_FULL} :
       InsertRefuses(db, key, val, code) /\ OnlyError(code)

Buried(d, off) ==
  [d EXCEPT !.err_code  = NOERROR,
            !.state_arr = [d.state_arr EXCEPT ![d.arena[off].id] = ST_DEAD]]

\* off is a pointer the iterator or a reader gave out.
MarkDead(off) ==
  /\ pc = "open"
  /\ is_valid_entry(db, off)
  /\ assert_intrnl_state(db)
  /\ db' = Buried(db, off)
  /\ rc' = NOERROR
  /\ UNCHANGED <<pc, ndb, it>>

MarkDeadAborts(off) ==
  /\ pc = "open"
  /\ ~is_valid_entry(db, off)
  /\ Abort

-----------------------------------------------------------------------------
(* Room *)

Reserve(new_entc) ==
  /\ pc = "open"
  /\ assert_intrnl_state(db)
  /\ IF db.entrycap >= new_entc
     THEN OnlyError(NOERROR)
     ELSE /\ CanAlloc(new_entc, db.buf_size)
          /\ db' = WithError(Resize(db, new_entc, db.buf_size), NOERROR)
          /\ rc' = NOERROR
          /\ UNCHANGED <<pc, ndb, it>>

ReserveFails(new_entc) ==
  /\ pc = "open"
  /\ assert_intrnl_state(db)
  /\ db.entrycap < new_entc
  /\ OnlyError(ERR_RESIZE)

ReserveArenabuf(new_bufsize) ==
  /\ pc = "open"
  /\ assert_intrnl_state(db)
  /\ IF db.buf_size >= new_bufsize
     THEN OnlyError(NOERROR)
     ELSE /\ is_aligned_off(new_bufsize)
          /\ CanAlloc(db.entrycap, new_bufsize)
          /\ db' = WithError(Resize(db, db.entrycap, new_bufsize), NOERROR)
          /\ rc' = NOERROR
          /\ UNCHANGED <<pc, ndb, it>>

ReserveArenabufFails(new_bufsize) ==
  /\ pc = "open"
  /\ assert_intrnl_state(db)
  /\ db.buf_size < new_bufsize
  /\ is_aligned_off(new_bufsize)
  /\ OnlyError(ERR_RESIZEBUF)

ReserveArenabufAborts(new_bufsize) ==
  /\ pc = "open"
  /\ db.buf_size < new_bufsize
  /\ ~is_aligned_off(new_bufsize)
  /\ Abort

-----------------------------------------------------------------------------
(* kvsymdb_compact *)

\* A mutant: the new block is created with the default capacities.
CompactBeginSmall ==
  /\ pc = "open"
  /\ assert_intrnl_state(db)
  /\ Creates(ndb', 0, 0)
  /\ pc' = "compacting"
  /\ db' = WithError(db, NOERROR)
  /\ it' = 0
  /\ UNCHANGED rc

CompactBegin ==
  /\ pc = "open"
  /\ assert_intrnl_state(db)
  /\ Creates(ndb', db.entrycap, db.buf_size)
  /\ pc' = "compacting"
  /\ db' = WithError(db, NOERROR)
  /\ it' = 0
  /\ UNCHANGED rc

CompactNoMemory ==
  /\ pc = "open"
  /\ assert_intrnl_state(db)
  /\ OnlyError(ERR_CREATE)

\* The loop has a record in front of it.
AtRecord ==
  /\ pc = "compacting"
  /\ it # db.buf_len
  /\ db.arena[it].id < db.entrycnt

\* A mutant: a dead record is skipped without stepping over it.
CompactSkipStays ==
  /\ AtRecord
  /\ IsDead(db, it)
  /\ UNCHANGED vars

CompactSkip ==
  /\ AtRecord
  /\ IsDead(db, it)
  /\ it' = EndOf(db.arena, it)
  /\ UNCHANGED <<pc, db, ndb, rc>>

\* A mutant: dead records are copied too.
CompactCopyAll ==
  /\ AtRecord
  /\ InsertReturns(ndb, ndb', NameView(db.arena[it]), DataView(db.arena[it]))
  /\ it' = EndOf(db.arena, it)
  /\ UNCHANGED <<pc, db, rc>>

CompactCopy ==
  /\ AtRecord
  /\ ~IsDead(db, it)
  /\ InsertReturns(ndb, ndb', NameView(db.arena[it]), DataView(db.arena[it]))
  /\ it' = EndOf(db.arena, it)
  /\ UNCHANGED <<pc, db, rc>>

\* A mutant: on failure the old block is destroyed instead of the new one.
CompactFailsToNew ==
  /\ AtRecord
  /\ ~IsDead(db, it)
  /\ \E code \in {ERR_BUFVIEW, ERR_FULL} :
       InsertRefuses(ndb, NameView(db.arena[it]), DataView(db.arena[it]), code)
  /\ pc' = "open"
  /\ db' = WithError(ndb, ERR_INSERT)
  /\ ndb' = NoDb
  /\ it' = 0
  /\ rc' = ERR_INSERT

CompactInsertFails ==
  /\ AtRecord
  /\ ~IsDead(db, it)
  /\ \E code \in {ERR_BUFVIEW, ERR_FULL} :
       InsertRefuses(ndb, NameView(db.arena[it]), DataView(db.arena[it]), code)
  /\ pc' = "open"
  /\ db' = WithError(db, ERR_INSERT)
  /\ ndb' = NoDb
  /\ it' = 0
  /\ rc' = ERR_INSERT

CompactEnd ==
  /\ pc = "compacting"
  /\ it = db.buf_len
  /\ pc' = "open"
  /\ db' = ndb
  /\ ndb' = NoDb
  /\ it' = 0
  /\ rc' = NOERROR

-----------------------------------------------------------------------------
(* The insertions that may be under way: of a caller, or of a compaction *)

InsertCalls ==
  IF pc = "open"
  THEN {[into |-> db, key |-> key, val |-> val] : key \in Keys, val \in Vals}
  ELSE IF pc = "compacting" /\ it # db.buf_len /\ ~IsDead(db, it)
  THEN {[into |-> ndb, key |-> NameView(db.arena[it]),
                       val |-> DataView(db.arena[it])]}
  ELSE {}

GrowthAborts ==
  /\ \E call \in InsertCalls : InsertAborts(call.into, call.key, call.val)
  /\ Abort

CompactStep == CompactSkip \/ CompactCopy \/ CompactInsertFails \/ CompactEnd

Next ==
  \/ \E entc \in EntCaps, size \in ArenaSizes : Create(entc, size)
  \/ CreateFails
  \/ Destroy
  \/ Clearerr
  \/ \E key \in Keys, val \in Vals : Insert(key, val) \/ InsertRefused(key, val)
  \/ \E off \in DOMAIN db.arena : MarkDead(off) \/ MarkDeadAborts(off)
  \/ \E entc \in EntCaps : Reserve(entc) \/ ReserveFails(entc)
  \/ \E size \in ArenaSizes : \/ ReserveArenabuf(size)
                              \/ ReserveArenabufFails(size)
                              \/ ReserveArenabufAborts(size)
  \/ CompactBegin \/ CompactNoMemory \/ CompactStep
  \/ StateAssertFails
  \/ GrowthAborts
  \/ NextProcess

\* A call that has begun goes on: the process is one thread.
Spec == Init /\ [][Next]_vars /\ WF_vars(CompactStep)

-----------------------------------------------------------------------------
(* Types *)

IsRecord(ent) ==
  /\ ent.id \in Nat /\ ent.name_len \in Nat /\ ent.data_len \in Nat
  /\ ent.record_len \in Nat /\ ent.val_off \in Nat

\* The fields of a block.
IsBlock(d) ==
  d = [entrycnt |-> d.entrycnt, entrycap |-> d.entrycap,
       buf_len |-> d.buf_len, buf_size |-> d.buf_size,
       err_code |-> d.err_code, state_arr |-> d.state_arr, arena |-> d.arena]

\* The codes a block keeps.
DbCodes == {NOERROR, ERR_BUFVIEW, ERR_FULL, ERR_RESIZE, ERR_RESIZEBUF,
            ERR_CREATE, ERR_INSERT}

IsDb(d) ==
  /\ IsBlock(d)
  /\ d.entrycnt \in Nat /\ d.entrycap \in Nat
  /\ d.buf_len \in Nat /\ d.buf_size \in Nat
  /\ d.err_code \in DbCodes
  /\ d.state_arr \in [0..(d.entrycap - 1) -> {ST_EMPTY, ST_ALIVE, ST_DEAD}]
  /\ DOMAIN d.arena \subseteq Nat
  /\ d.arena = [off \in DOMAIN d.arena |-> d.arena[off]]
  /\ \A off \in DOMAIN d.arena : IsRecord(d.arena[off])

\* The type invariant of the specification.
TypeOK ==
  /\ pc \in {"none", "open", "compacting", "aborted"}
  /\ IsDb(db) /\ IsDb(ndb)
  /\ it \in Nat
  /\ rc \in DbCodes \cup {ERR_OPNEW}

-----------------------------------------------------------------------------
(* Properties *)

\* Records lie end to end: each starts where the one before it ends, the last
\* one ends at buf_len, none overlaps another, and the ids run from 0 in the
\* order of the arena.
Chained(d) ==
  /\ d.entrycnt = 0 => d.buf_len = 0 /\ DOMAIN d.arena = {}
  /\ d.entrycnt > 0 => 0 \in DOMAIN d.arena /\ d.arena[0].id = 0
  /\ \A off \in DOMAIN d.arena :
       LET end == EndOf(d.arena, off)
           id  == d.arena[off].id
       IN
       /\ off % ALIGN_SIZE = 0
       /\ off < end /\ end <= d.buf_len
       /\ id < d.entrycnt
       /\ IF id + 1 = d.entrycnt
          THEN end = d.buf_len
          ELSE end \in DOMAIN d.arena /\ d.arena[end].id = id + 1
  /\ \A o, p \in DOMAIN d.arena :
       o < p => EndOf(d.arena, o) <= p /\ d.arena[o].id < d.arena[p].id

\* No record was written over the state array: what kvsymdb_insert leaves when it
\* grows the arena for the record alone (BufLenWithinBufSize) is not a database any
\* more, and the properties of the records are about one that is.
Intact(d) == d.buf_len <= d.buf_size

\* A walk by record_len, as iterators, readers and kvsymdb_compact make it,
\* meets every record once, in the order of the ids, and stops at buf_len;
\* this is so of the block and of the one a compaction is filling.
RecordsChained == (Intact(db) => Chained(db)) /\ Chained(ndb)

\* The state array says "empty" of exactly the ids no record has: it neither
\* loses a state when the block is reallocated nor keeps one from before.
StatesMatch(d) ==
  /\ d.entrycnt <= d.entrycap
  /\ \A id \in 0..(d.entrycap - 1) :
       d.state_arr[id] = ST_EMPTY <=> id >= d.entrycnt

StatesTrackRecords == (Intact(db) => StatesMatch(db)) /\ StatesMatch(ndb)

\* What _is_valid_entry asserts of a pointer into the arena holds of every record
\* the library itself wrote, so that no reader and no kvsymdb_mark_dead aborts.
EntriesStayValid ==
  Intact(db) => \A off \in DOMAIN db.arena : is_valid_entry(db, off)

\* The records lie within the arena of the block (assert_intrnl_state).
BufLenWithinBufSize == db.buf_len <= db.buf_size

\* No call of the library ends the process.
NeverAborts == pc # "aborted"

\* A compaction that got its block cannot fail: whatever record is next, the
\* new block has a free id and room for it without growing.
CompactionHasRoom ==
  pc = "compacting" /\ it # db.buf_len =>
    /\ ndb.entrycnt < ndb.entrycap
    /\ ndb.buf_len + db.arena[it].record_len <= ndb.buf_size
    /\ entsize_required(NameView(db.arena[it]), DataView(db.arena[it]))
         <= db.arena[it].record_len

\* kvsymdb_geterror tells the result of the last call on the block, also after
\* the call moved the block or worked on a second one.
ErrCodeIsLastResult == pc = "open" => db.err_code = rc

\* A call that returns an error, and a compaction until it returns, leaves the
\* records, their states, the capacities and the block as they were: only the
\* error code may change.
FailedCallsChangeNothing ==
  [][(pc' = "open" /\ rc' # NOERROR) \/ pc' = "compacting" =>
       db' = WithError(db, db'.err_code)]_vars

KeepsRecords(d, e) ==
  \A off \in DOMAIN d.arena : /\ off \in DOMAIN e.arena
                              /\ e.arena[off] = d.arena[off]
                              /\ Intact(e) /\ IsDead(d, off) => IsDead(e, off)

\* Between two compactions a record stays where it is with the content it has, over
\* any number of insertions and reallocations, and a dead one stays dead unless an
\* insertion writes its record over the state array.
RecordsImmutable ==
  [][pc = "open" /\ pc' \in {"open", "compacting"} => KeepsRecords(db, db')]_vars

\* kvsymdb_compact returns: its walk reaches buf_len.
CompactTerminates == pc = "compacting" ~> pc = "open"

\* What an iterator shows of the record at off.
EntryAt(d, off) ==
  [name  |-> NameView(d.arena[off]),
   data  |-> DataView(d.arena[off]),
   alive |-> ~IsDead(d, off)]

\* What a walk from the start finds: place[n] is where it is after n records.
Walk(d) ==
  LET place[n \in 0..d.entrycnt] == IF n = 0 THEN 0 ELSE EndOf(d.arena, place[n - 1])
  IN  [n \in 1..d.entrycnt |-> EntryAt(d, place[n - 1])]

Log == INSTANCE KVLog WITH
         Names  <- Keys,
         Values <- Vals,
         open   <- pc \in {"open", "compacting"},
         log    <- Walk(db)

\* The database is the append-only log: nothing is lost, reordered or brought
\* back, whichever block the records have been copied to.
ImplementsLog == Log!Spec

-----------------------------------------------------------------------------
(* The inductive invariant *)

\* Sizes of a name and a value that uint32_t arithmetic does not wrap on.
NoWrapOn(name_len, data_len) ==
  name_len + data_len + 3 * HeapLimit + 128 <= U32Mod

\* The assumption of the theorems: the heap, and what callers pass, stay well
\* below the range of uint32_t (with 2^32, one of 1 GiB does).
NoWrap ==
  /\ HeapLimit \in Nat /\ NoWrapOn(0, 0)
  /\ \A key \in Keys, val \in Vals :
       /\ key.buf_size \in Nat /\ val.buf_size \in Nat
       /\ NoWrapOn(key.buf_size, val.buf_size)
  /\ \A n \in EntCaps \cup ArenaSizes :
       n \in Nat /\ 2 * n + HeapLimit + 128 <= U32Mod

\* A block came from the heap, and is cut into aligned pieces.
BlockOK(d) ==
  /\ d.entrycap + d.buf_size <= HeapLimit
  /\ d.buf_size % ALIGN_SIZE = 0
  /\ d.buf_len % ALIGN_SIZE = 0

\* A record is as long as its parts, and the name it tells of is not longer
\* than the one it holds.
RecordOK(ent) ==
  /\ NoWrapOn(ent.name_len, ent.data_len)
  /\ ent.val_off % ALIGN_SIZE = 0
  /\ align_off(ent.name_len + 1) <= ent.val_off
  /\ ent.record_len = RecHdrSize + ent.val_off + align_off(ent.data_len)

DbOK(d) ==
  /\ IsDb(d)
  /\ Chained(d)
  /\ StatesMatch(d)
  /\ BlockOK(d)
  /\ \A off \in DOMAIN d.arena : RecordOK(d.arena[off])

\* The walk of a compaction stands on a record or at the end, and the new block
\* holds at most what the walk has passed.
CompactionOK ==
  pc = "compacting" =>
    /\ assert_intrnl_state(db)
    /\ ndb.entrycap = db.entrycap
    /\ ndb.buf_size = db.buf_size
    /\ ndb.err_code = NOERROR
    /\ ndb.buf_len <= it
    /\ it = db.buf_len \/ it \in DOMAIN db.arena
    /\ ndb.entrycnt <= IF it = db.buf_len THEN db.entrycnt ELSE db.arena[it].id

\* (No compaction starts from a block that was overrun.)
IndInv ==
  /\ TypeOK
  /\ Intact(db) => DbOK(db)
  /\ Intact(db) \/ pc = "open"
  /\ DbOK(ndb)
  /\ CompactionOK
  /\ ErrCodeIsLastResult

-----------------------------------------------------------------------------
(* What holds as long as callers keep clear of two limits *)

\* Every name is one that name_len can tell of.
NamesFit == \A key \in Keys : key.buf_size < NameLenMod

\* No record is larger than the arena the database was created with.
RecordsFit ==
  \A key \in Keys, val \in Vals, size \in ArenaSizes :
    entsize_required(key, val) <= align_off(Clamped(size, INIT_BUFSIZE))

\* A value lies where its record's name_len says.
NamesExact(d) ==
  \A off \in DOMAIN d.arena :
    LET ent == d.arena[off] IN
    /\ ent.name_len < NameLenMod
    /\ ent.val_off = align_off(ent.name_len + 1)

\* Doubling the arena makes room for any record.
ArenaHolds(d) ==
  /\ d.buf_len <= d.buf_size
  /\ \A key \in Keys, val \in Vals : entsize_required(key, val) <= d.buf_size

\* The headers agree with the records while names fit, and kvsymdb_insert always
\* finds or makes room while records fit.  Offsets, and that of the end of a header
\* at the end of the arena, are those of a uint32_t.
FitInv ==
  /\ db.buf_len + RecHdrSize < U32Mod
  /\ NamesFit => (Intact(db) => NamesExact(db)) /\ NamesExact(ndb)
  /\ RecordsFit /\ pc \in {"open", "compacting"} => ArenaHolds(db)
  /\ pc \notin {"open", "compacting"} => db = NoDb

=============================================================================
