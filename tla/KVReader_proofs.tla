--------------------------- MODULE KVReader_proofs ---------------------------
(***************************************************************************)
(* What an open reader and an open loop rely on, for all names, values,    *)
(* capacities, arena sizes, cuts and heap limits under NoWrap: a call that *)
(* does not move the block only appends behind them, and the places where  *)
(* they stand keep their order.                                            *)
(***************************************************************************)
EXTENDS KVReader, KVSymDB_proofs

-----------------------------------------------------------------------------
(* Places in the arena *)

\* e has the records of d where d has them, and perhaps one more behind them.
GrewFrom(d, e) ==
  \/ e.arena = d.arena /\ e.buf_len = d.buf_len /\ e.entrycnt = d.entrycnt
  \/ /\ e.entrycnt = d.entrycnt + 1
     /\ d.buf_len < e.buf_len
     /\ d.buf_len \in DOMAIN e.arena
     /\ e.arena[d.buf_len].id = d.entrycnt
     /\ \A off \in DOMAIN d.arena : /\ off \in DOMAIN e.arena
                                    /\ e.arena[off] = d.arena[off]

\* What the chain says of one record: it is not shorter than its header.
LEMMA RecordSpan ==
  ASSUME NoWrap, NEW d, DbOK(d), NEW off \in DOMAIN d.arena
  PROVE  /\ off \in Nat /\ d.buf_len \in Nat /\ d.entrycnt \in Nat
         /\ d.arena[off].record_len \in Nat /\ d.arena[off].id \in Nat
         /\ EndOf(d.arena, off) = off + d.arena[off].record_len
         /\ 20 <= d.arena[off].record_len
         /\ off < EndOf(d.arena, off) /\ EndOf(d.arena, off) <= d.buf_len
         /\ d.arena[off].id < d.entrycnt
<1> DEFINE ent == d.arena[off]
<1>1. /\ off \in Nat /\ d.buf_len \in Nat /\ d.entrycnt \in Nat
      /\ IsRecord(ent) /\ RecordOK(ent)
      /\ EndOf(d.arena, off) = off + ent.record_len
      /\ off < off + ent.record_len /\ off + ent.record_len <= d.buf_len
      /\ ent.id < d.entrycnt
  BY DEF DbOK, IsDb, Chained, EndOf
<1> HIDE DEF ent
<1>2. 20 <= ent.record_len
  <2>1. /\ ent.name_len \in Nat /\ ent.data_len \in Nat /\ ent.val_off \in Nat
        /\ ent.record_len = 20 + ent.val_off + align_off(ent.data_len)
        /\ ent.data_len + 3 < U32Mod
    BY <1>1, WidthAssumption
       DEF IsRecord, RecordOK, RecHdrSize, NoWrap, NoWrapOn, WidthAssumption
  <2> QED
    BY <2>1, AlignExact
<1> QED
  BY <1>1, <1>2 DEF IsRecord, ent

\* The arena starts with the record of id 0, or ends where it starts.
LEMMA PlaceZero ==
  ASSUME NoWrap, NEW d, DbOK(d)
  PROVE  IsPlaceOf(d, 0, 0)
<1>1. d.entrycnt \in Nat
  BY DEF DbOK, IsDb
<1>2. CASE d.entrycnt = 0
  BY <1>2 DEF DbOK, Chained, IsPlaceOf
<1>3. CASE d.entrycnt > 0
  <2>1. 0 \in DOMAIN d.arena /\ d.arena[0].id = 0
    BY <1>3 DEF DbOK, Chained
  <2>2. 0 # d.buf_len
    BY <2>1, RecordSpan
  <2> QED
    BY <2>1, <2>2 DEF IsPlaceOf
<1> QED
  BY <1>1, <1>2, <1>3

\* After the place of an id comes the place of the next one.
LEMMA PlaceNext ==
  ASSUME NoWrap, NEW d, DbOK(d), NEW off \in DOMAIN d.arena
  PROVE  IsPlaceOf(d, EndOf(d.arena, off), d.arena[off].id + 1)
<1> DEFINE end == EndOf(d.arena, off)
<1>1. IF d.arena[off].id + 1 = d.entrycnt
      THEN end = d.buf_len
      ELSE end \in DOMAIN d.arena /\ d.arena[end].id = d.arena[off].id + 1
  BY DEF DbOK, Chained
<1>2. end \in DOMAIN d.arena => end # d.buf_len
  BY RecordSpan
<1> HIDE DEF end
<1>3. IsPlaceOf(d, end, d.arena[off].id + 1)
  BY <1>1, <1>2 DEF IsPlaceOf
<1> QED
  BY <1>3 DEF end

\* Two places are in the order of their ids, and a record before a place ends
\* before it.
LEMMA PlacesOrdered ==
  ASSUME NoWrap, NEW d, DbOK(d),
         NEW o, NEW i, IsPlaceOf(d, o, i),
         NEW p, NEW j, IsPlaceOf(d, p, j)
  PROVE  /\ o \in Nat /\ p \in Nat /\ i \in Nat /\ j \in Nat
         /\ o <= d.buf_len /\ i <= d.entrycnt
         /\ o = p <=> i = j
         /\ o < p => /\ o \in DOMAIN d.arena
                     /\ EndOf(d.arena, o) <= p
                     /\ i < j
<1>1. d.buf_len \in Nat /\ d.entrycnt \in Nat
  BY DEF DbOK, IsDb
<1>2. ASSUME NEW x, NEW n, IsPlaceOf(d, x, n)
      PROVE  \/ x = d.buf_len /\ n = d.entrycnt
             \/ /\ x \in DOMAIN d.arena /\ n = d.arena[x].id
                /\ x \in Nat /\ n \in Nat /\ x < d.buf_len /\ n < d.entrycnt
                /\ EndOf(d.arena, x) <= d.buf_len
  <2>1. CASE x = d.buf_len
    BY <1>2, <2>1 DEF IsPlaceOf
  <2>2. CASE x # d.buf_len
    <3>1. x \in DOMAIN d.arena /\ d.arena[x].id = n
      BY <1>2, <2>2 DEF IsPlaceOf
    <3>2. /\ x \in Nat /\ d.arena[x].id \in Nat /\ d.arena[x].id < d.entrycnt
          /\ x < EndOf(d.arena, x) /\ EndOf(d.arena, x) <= d.buf_len
          /\ d.arena[x].record_len \in Nat
          /\ EndOf(d.arena, x) = x + d.arena[x].record_len
      BY <3>1, RecordSpan
    <3>3. x < d.buf_len
      BY <1>1, <3>2
    <3> QED
      BY <3>1, <3>2, <3>3
  <2> QED
    BY <2>1, <2>2
<1>3. \/ o = d.buf_len /\ i = d.entrycnt
      \/ /\ o \in DOMAIN d.arena /\ i = d.arena[o].id
         /\ o \in Nat /\ i \in Nat /\ o < d.buf_len /\ i < d.entrycnt
         /\ EndOf(d.arena, o) <= d.buf_len
  BY <1>2
<1>4. \/ p = d.buf_len /\ j = d.entrycnt
      \/ /\ p \in DOMAIN d.arena /\ j = d.arena[p].id
         /\ p \in Nat /\ j \in Nat /\ p < d.buf_len /\ j < d.entrycnt
         /\ EndOf(d.arena, p) <= d.buf_len
  BY <1>2
<1>5. ASSUME NEW x \in DOMAIN d.arena, NEW y \in DOMAIN d.arena, x < y
      PROVE  EndOf(d.arena, x) <= y /\ d.arena[x].id < d.arena[y].id
  BY <1>5 DEF DbOK, Chained
<1>6. /\ o \in Nat /\ p \in Nat /\ i \in Nat /\ j \in Nat
      /\ o <= d.buf_len /\ i <= d.entrycnt
  BY <1>1, <1>3, <1>4
<1>7. ASSUME o < p
      PROVE  /\ o \in DOMAIN d.arena
             /\ EndOf(d.arena, o) <= p
             /\ i < j
  <2>1. /\ o \in DOMAIN d.arena /\ i = d.arena[o].id /\ i < d.entrycnt
        /\ EndOf(d.arena, o) <= d.buf_len
    BY <1>1, <1>3, <1>4, <1>7
  <2> QED
    BY <1>4, <1>5, <1>7, <2>1
<1>8. ASSUME p < o
      PROVE  j < i
  <2>1. /\ p \in DOMAIN d.arena /\ j = d.arena[p].id /\ j < d.entrycnt
    BY <1>1, <1>3, <1>4, <1>8
  <2> QED
    BY <1>3, <1>5, <1>8, <2>1
<1>9. o = p => i = j
  BY <1>3, <1>4
<1> QED
  BY <1>6, <1>7, <1>8, <1>9

\* Places survive what is appended behind them.
LEMMA PlaceKept ==
  ASSUME NoWrap, NEW d, DbOK(d), NEW e, GrewFrom(d, e), e.buf_len \in Nat,
         NEW off, NEW id, IsPlaceOf(d, off, id)
  PROVE  IsPlaceOf(e, off, id)
<1>1. CASE e.arena = d.arena /\ e.buf_len = d.buf_len /\ e.entrycnt = d.entrycnt
  BY <1>1 DEF IsPlaceOf
<1>2. CASE /\ e.entrycnt = d.entrycnt + 1
           /\ d.buf_len < e.buf_len
           /\ d.buf_len \in DOMAIN e.arena
           /\ e.arena[d.buf_len].id = d.entrycnt
           /\ \A x \in DOMAIN d.arena : /\ x \in DOMAIN e.arena
                                        /\ e.arena[x] = d.arena[x]
  <2>1. off \in Nat /\ off <= d.buf_len /\ d.buf_len \in Nat
    BY PlacesOrdered DEF DbOK, IsDb
  <2>2. off # e.buf_len
    BY <1>2, <2>1
  <2> QED
    BY <1>2, <2>2 DEF IsPlaceOf
<1> QED
  BY <1>1, <1>2 DEF GrewFrom

-----------------------------------------------------------------------------
(* Calls under open handles *)

\* The types of what handles stand on.
LEMMA BlockTypes ==
  ASSUME IndInv
  PROVE  /\ IsBlock(db)
         /\ db.buf_len \in Nat /\ db.buf_size \in Nat
         /\ db.entrycnt \in Nat /\ db.entrycap \in Nat
         /\ \A off \in DOMAIN db.arena :
              off \in Nat /\ db.arena[off].record_len \in Nat /\ EndOf(db.arena, off) \in Nat
BY DEF IndInv, TypeOK, IsDb, IsRecord, EndOf

\* No call but one that moves the block works on a block that was overrun.
LEMMA StaysOverrun ==
  ASSUME IndInv, pc \in {"open", "compacting"}, Next, ~Moved, ~Intact(db)
  PROVE  ~Intact(db')
<1>1. /\ pc = "open" /\ ~assert_intrnl_state(db) /\ IsBlock(db)
      /\ pc' \in {"open", "compacting"}
  BY IntactOK, BlockTypes DEF Moved
<1>2. ASSUME NEW code, OnlyError(code)
      PROVE  ~Intact(db')
  BY <1>1, <1>2 DEF OnlyError, WithError, IsBlock, Intact
<1>3. \/ \E code : OnlyError(code)
      \/ Abort \/ Destroy \/ NextProcess
  BY <1>1 DEF Next, Create, CreateFails, Clearerr, Insert, InsertReturns, InsertAccepts,
              InsertRefused, MarkDead, MarkDeadAborts, Reserve, ReserveFails,
              ReserveArenabuf, ReserveArenabufFails, ReserveArenabufAborts,
              CompactBegin, CompactNoMemory, CompactStep, CompactSkip, CompactCopy,
              CompactInsertFails, CompactEnd, AtRecord, StateAssertFails, GrowthAborts
<1> QED
  BY <1>1, <1>2, <1>3 DEF Abort, Destroy, NextProcess

\* A call that does not move the block only appends to it.
LEMMA CallGrows ==
  ASSUME NoWrap, IndInv, pc \in {"open", "compacting"}, Next, ~Moved,
         Intact(db), Intact(db')
  PROVE  pc' \in {"open", "compacting"} /\ GrewFrom(db, db')
<1>1. /\ DbOK(db) /\ IsBlock(db)
      /\ db.entrycap \in Nat /\ db.buf_size \in Nat
  BY IntactOK, BlockTypes
<1>2. /\ pc' \in {"open", "compacting"}
      /\ db'.entrycap = db.entrycap /\ db'.buf_size = db.buf_size
      /\ ~(pc = "compacting" /\ pc' = "open" /\ rc' = NOERROR)
  BY DEF Moved
<1> SUFFICES GrewFrom(db, db')
  BY <1>2
<1>3. ASSUME NEW code \in DbCodes, db' = WithError(db, code)
      PROVE  GrewFrom(db, db')
  <2>1. db'.arena = db.arena /\ db'.buf_len = db.buf_len /\ db'.entrycnt = db.entrycnt
    BY <1>1, <1>3, ErrCodeOK
  <2> QED
    BY <2>1 DEF GrewFrom
<1>4. ASSUME NEW code \in DbCodes, OnlyError(code)
      PROVE  GrewFrom(db, db')
  BY <1>3, <1>4 DEF OnlyError
<1>5. ASSUME NEW key \in Keys, NEW val \in Vals, Insert(key, val)
      PROVE  GrewFrom(db, db')
  <2>1. /\ key.buf_size \in Nat /\ val.buf_size \in Nat
        /\ NoWrapOn(key.buf_size, val.buf_size)
    BY DEF NoWrap
  <2>2. db.entrycnt \in Nat /\ db.buf_len \in Nat
    BY <1>1 DEF DbOK, IsDb
  <2>3. PICK ent : ent = Record(db.entrycnt, key, val)
    OBVIOUS
  <2>4. /\ ent.id = db.entrycnt /\ 20 <= ent.record_len
        /\ ent.record_len = entsize_required(key, val) /\ ent.record_len \in Nat
    BY <2>1, <2>2, <2>3, RecordFacts DEF IsRecord
  <2>5. ASSUME NEW d2, InsertReturns(db, d2, key, val), Intact(d2)
        PROVE  GrewFrom(db, d2)
    <3>0. /\ d2.entrycnt = db.entrycnt + 1
          /\ d2.buf_len = db.buf_len + entsize_required(key, val)
      BY <1>1, <2>1, <2>5, InsertShape
    <3>1. /\ d2.entrycnt = db.entrycnt + 1
          /\ d2.buf_len = db.buf_len + entsize_required(key, val)
          /\ DOMAIN d2.arena = DOMAIN db.arena \cup {db.buf_len}
          /\ d2.arena[db.buf_len] = Record(db.entrycnt, key, val)
          /\ \A off \in DOMAIN db.arena : /\ off \in DOMAIN d2.arena
                                          /\ d2.arena[off] = db.arena[off]
      BY <1>1, <2>1, <2>5, <3>0, InsertOK
    <3>2. db.buf_len < d2.buf_len
      BY <2>2, <2>4, <3>1
    <3> QED
      BY <2>3, <2>4, <3>1, <3>2 DEF GrewFrom
  <2> QED
    BY <1>5, <2>5 DEF Insert
<1>6. ASSUME NEW off \in DOMAIN db.arena, MarkDead(off)
      PROVE  GrewFrom(db, db')
  <2>1. db'.arena = db.arena /\ db'.buf_len = db.buf_len /\ db'.entrycnt = db.entrycnt
    BY <1>1, <1>6 DEF MarkDead, Buried, IsBlock
  <2> QED
    BY <2>1 DEF GrewFrom
<1>7. ASSUME NEW entc \in EntCaps, Reserve(entc)
      PROVE  GrewFrom(db, db')
  <2>1. CASE db.entrycap >= entc
    BY <1>4, <1>7, <2>1 DEF Reserve, DbCodes
  <2>2. CASE ~(db.entrycap >= entc)
    <3>1. db' = WithError(Resize(db, entc, db.buf_size), NOERROR)
      BY <1>7, <2>2 DEF Reserve
    <3>2. db'.entrycap = entc
      BY <1>1, <3>1 DEF WithError, Resize, IsBlock
    <3>3. entc \in Nat
      BY DEF NoWrap
    <3> QED
      BY <1>1, <1>2, <2>2, <3>2, <3>3
  <2> QED
    BY <2>1, <2>2
<1>8. ASSUME NEW size \in ArenaSizes, ReserveArenabuf(size)
      PROVE  GrewFrom(db, db')
  <2>1. CASE db.buf_size >= size
    BY <1>4, <1>8, <2>1 DEF ReserveArenabuf, DbCodes
  <2>2. CASE ~(db.buf_size >= size)
    <3>1. db' = WithError(Resize(db, db.entrycap, size), NOERROR)
      BY <1>8, <2>2 DEF ReserveArenabuf
    <3>2. db'.buf_size = size
      BY <1>1, <3>1 DEF WithError, Resize, IsBlock
    <3>3. size \in Nat
      BY DEF NoWrap
    <3> QED
      BY <1>1, <1>2, <2>2, <3>2, <3>3
  <2> QED
    BY <2>1, <2>2
<1>9. CASE Clearerr \/ CompactNoMemory
  BY <1>4, <1>9 DEF Clearerr, CompactNoMemory, DbCodes
<1>10. ASSUME NEW key \in Keys, NEW val \in Vals, InsertRefused(key, val)
       PROVE  GrewFrom(db, db')
  BY <1>4, <1>10 DEF InsertRefused, DbCodes
<1>11. ASSUME NEW entc \in EntCaps, ReserveFails(entc)
       PROVE  GrewFrom(db, db')
  BY <1>4, <1>11 DEF ReserveFails, DbCodes
<1>12. ASSUME NEW size \in ArenaSizes, ReserveArenabufFails(size)
       PROVE  GrewFrom(db, db')
  BY <1>4, <1>12 DEF ReserveArenabufFails, DbCodes
<1>13. CASE CompactBegin
  BY <1>3, <1>13 DEF CompactBegin, DbCodes
<1>14. CASE CompactSkip \/ CompactCopy
  BY <1>14 DEF CompactSkip, CompactCopy, GrewFrom
<1>15. CASE CompactInsertFails
  BY <1>3, <1>15 DEF CompactInsertFails, DbCodes
<1>16. CASE CompactEnd
  BY <1>2, <1>16 DEF CompactEnd
<1>17. CASE Abort
  BY <1>2, <1>17 DEF Abort
<1>18. ASSUME NEW entc \in EntCaps, NEW size \in ArenaSizes, Create(entc, size)
       PROVE  FALSE
  BY <1>18 DEF Create
<1>19. CASE CreateFails \/ Destroy \/ NextProcess
  BY <1>2, <1>19 DEF CreateFails, Destroy, NextProcess
<1> QED
  BY <1>5, <1>6, <1>7, <1>8, <1>9, <1>10, <1>11, <1>12, <1>13, <1>14, <1>15,
     <1>16, <1>17, <1>18, <1>19
     DEF Next, CompactStep, MarkDeadAborts, ReserveArenabufAborts,
         StateAssertFails, GrowthAborts

\* The invariants of the database hold in the composition too.
LEMMA BaseStep ==
  ASSUME NoWrap, IndInv, FitInv, [NextR]_allvars
  PROVE  IndInv' /\ FitInv'
<1>1. CASE [Next]_vars
  BY <1>1, StepOK, FitStep
<1>2. CASE Abort
  <2>1. IndInv'
    BY <1>2, AbortOK
  <2>2. FitInv'
    BY <1>2, GoneFit DEF Abort
  <2> QED
    BY <2>1, <2>2
<1>3. [Next]_vars \/ Abort
  <2>1. CASE UNCHANGED allvars
    BY <2>1 DEF allvars, vars
  <2>2. CASE NextR
    BY <2>2
       DEF NextR, Call, Bind, Unbind, Rewind, ReaderClearerr, BindCut,
           ReadUnbound, ReadEof, ReadEntry, ReadOverrun, ReadAborts, LoopBegin,
           LoopNext, LoopOverrun, LoopEnd, vars
  <2> QED
    BY <2>1, <2>2
<1> QED
  BY <1>1, <1>2, <1>3

-----------------------------------------------------------------------------
(* The invariant of the handles *)

\* The sums of kvsymdb_reader_read do not wrap, so a header that fits the length
\* is that of the record whose turn it is.
LEMMA ReaderAt ==
  ASSUME NoWrap, IndInv, FitInv, HandlesInv, Intact(db), rd.bound, rd.live, HeaderFits
  PROVE  /\ rd.pos \in DOMAIN db.arena
         /\ db.arena[rd.pos].id = rd.nread
         /\ rd.pos \in Nat /\ rd.len \in Nat /\ rd.pos < rd.len
         /\ rd.len <= db.buf_len /\ db.buf_len \in Nat
         /\ db.buf_len + 20 < U32Mod
<1>1. /\ rd.pos \in Nat /\ rd.len \in Nat
      /\ rd.pos <= rd.len /\ rd.len <= db.buf_len
      /\ rd.pos = rd.len \/ IsPlaceOf(db, rd.pos, rd.nread)
  BY DEF HandlesInv, HandlesOK, ReaderInv
<1>2. db.buf_len \in Nat /\ db.buf_len + 20 < U32Mod /\ U32Mod \in Nat
  BY BlockTypes, WidthAssumption DEF FitInv, RecHdrSize, WidthAssumption
<1>3. rd.pos + 20 \in Nat /\ rd.pos + 20 < U32Mod
  BY <1>1, <1>2
<1>4. U32(rd.pos + 20) = rd.pos + 20
  BY <1>3, U32Exact
<1>5. rd.pos < rd.len
  BY <1>1, <1>4 DEF HeaderFits, RecHdrSize
<1>6. rd.pos # db.buf_len
  BY <1>1, <1>2, <1>5
<1> QED
  BY <1>1, <1>2, <1>5, <1>6 DEF IsPlaceOf

\* A reader of the whole arena finds no room for a header at the end only.
LEMMA ReaderAtEnd ==
  ASSUME NoWrap, IndInv, FitInv, HandlesInv,
         Intact(db), rd.bound, rd.live, rd.whole, ~HeaderFits
  PROVE  rd.pos = rd.len
<1>1. /\ rd.pos \in Nat /\ rd.len \in Nat
      /\ rd.pos <= rd.len /\ rd.len <= db.buf_len
      /\ IsPlaceOf(db, rd.pos, rd.nread) /\ IsPlaceOf(db, rd.len, rd.entc)
  BY DEF HandlesInv, HandlesOK, ReaderInv
<1>2. /\ DbOK(db)
      /\ db.buf_len \in Nat /\ db.buf_len + 20 < U32Mod /\ U32Mod \in Nat
  BY IntactOK, BlockTypes, WidthAssumption DEF FitInv, RecHdrSize, WidthAssumption
<1>3. U32(rd.pos + 20) = rd.pos + 20
  BY <1>1, <1>2, U32Exact
<1>4. rd.pos + 20 > rd.len
  BY <1>1, <1>3 DEF HeaderFits, RecHdrSize
<1>5. ASSUME rd.pos < rd.len
      PROVE  FALSE
  <2>1. rd.pos \in DOMAIN db.arena /\ EndOf(db.arena, rd.pos) <= rd.len
    BY <1>1, <1>2, <1>5, PlacesOrdered
  <2>2. /\ EndOf(db.arena, rd.pos) = rd.pos + db.arena[rd.pos].record_len
        /\ 20 <= db.arena[rd.pos].record_len
        /\ db.arena[rd.pos].record_len \in Nat
    BY <1>2, <2>1, RecordSpan
  <2> QED
    BY <1>1, <1>4, <2>1, <2>2
<1> QED
  BY <1>1, <1>5

\* Steps that leave the block and the reader alone.
LEMMA SameReader ==
  ASSUME ReaderInv, UNCHANGED <<pc, db, rd>>
  PROVE  ReaderInv'
BY DEF ReaderInv, IsPlaceOf, Intact

\* Steps that leave the block and the loop alone.
LEMMA SameLoop ==
  ASSUME LoopInv, UNCHANGED <<pc, db, loop>>
  PROVE  LoopInv'
BY DEF LoopInv, IsPlaceOf, Intact

\* A reader that was just bound, or rewound.
LEMMA AtStart ==
  ASSUME NoWrap, IndInv, Intact(db)
  PROVE  /\ IsPlaceOf(db, 0, 0)
         /\ db.buf_len \in Nat /\ db.entrycnt \in Nat /\ 0 <= db.buf_len
         /\ IsPlaceOf(db, db.buf_len, db.entrycnt)
<1>1. DbOK(db) /\ db.buf_len \in Nat /\ db.entrycnt \in Nat
  BY IntactOK, BlockTypes
<1> QED
  BY <1>1, PlaceZero DEF IsPlaceOf

\* A call under an open handle that leaves a block that is not overrun where it is
\* found it so.
LEMMA HandlesCalled ==
  ASSUME IndInv, HandlesInv, Next, ~Moved, Intact(db'), (rd.bound /\ rd.live) \/ loop.on
  PROVE  Intact(db) /\ pc \in {"open", "compacting"}
<1>1. CASE Intact(db)
  BY <1>1 DEF HandlesInv, ReaderInv, LoopInv
<1>2. CASE ~Intact(db)
  <2>1. pc = "open"
    BY <1>2, IntactOK
  <2> QED
    BY <1>2, <2>1, StaysOverrun
<1> QED
  BY <1>1, <1>2

\* A call of the database keeps the handles on their places or drops them.
LEMMA CallKeepsHandles ==
  ASSUME NoWrap, IndInv, FitInv, HandlesInv, Call, db'.buf_len \in Nat
  PROVE  HandlesInv'
<1>1. /\ Next
      /\ rd' = IF pc' = "aborted" THEN NoReader
               ELSE IF Moved THEN Dangling(rd) ELSE rd
      /\ loop' = IF Moved THEN NoLoop ELSE loop
  BY DEF Call
<1>2. HandlesOK'
  BY <1>1 DEF HandlesInv, HandlesOK, NoReader, NoLoop, Dangling
<1>3. db.buf_len \in Nat /\ db'.buf_len \in Nat
  BY BlockTypes
<1>4. ASSUME ~Moved, pc \in {"open", "compacting"}, Intact(db), Intact(db')
      PROVE  /\ pc' \in {"open", "compacting"}
             /\ GrewFrom(db, db') /\ db.buf_len <= db'.buf_len
             /\ \A off, id : IsPlaceOf(db, off, id) => IsPlaceOf(db', off, id)
  <2>1. pc' \in {"open", "compacting"} /\ GrewFrom(db, db')
    BY <1>1, <1>4, CallGrows
  <2>2. db.buf_len <= db'.buf_len
    BY <1>3, <2>1 DEF GrewFrom
  <2>3. ASSUME NEW e, GrewFrom(db, e), e.buf_len \in Nat,
               NEW off, NEW id, IsPlaceOf(db, off, id)
        PROVE  IsPlaceOf(e, off, id)
    BY <1>4, <2>3, IntactOK, PlaceKept
  <2> QED
    BY <1>3, <2>1, <2>2, <2>3
<1>5. ReaderInv'
  <2> SUFFICES ASSUME Intact(db'), (rd.bound /\ rd.live)'
               PROVE  /\ pc' \in {"open", "compacting"}
                      /\ rd'.pos <= rd'.len /\ rd'.len <= db'.buf_len
                      /\ \/ rd'.pos = rd'.len
                         \/ IsPlaceOf(db', rd'.pos, rd'.nread)
                      /\ rd'.whole => /\ IsPlaceOf(db', rd'.pos, rd'.nread)
                                      /\ IsPlaceOf(db', rd'.len, rd'.entc)
    BY DEF ReaderInv, IsPlaceOf, Intact
  <2>1. ~Moved /\ rd' = rd
    BY <1>1 DEF NoReader, Dangling, HandlesInv, HandlesOK
  <2>0. Intact(db) /\ pc \in {"open", "compacting"}
    BY <1>1, <2>1, HandlesCalled
  <2>2. /\ pc \in {"open", "compacting"}
        /\ rd.pos \in Nat /\ rd.len \in Nat
        /\ rd.pos <= rd.len /\ rd.len <= db.buf_len
        /\ rd.pos = rd.len \/ IsPlaceOf(db, rd.pos, rd.nread)
        /\ rd.whole => /\ IsPlaceOf(db, rd.pos, rd.nread)
                       /\ IsPlaceOf(db, rd.len, rd.entc)
    BY <2>0, <2>1 DEF HandlesInv, ReaderInv, HandlesOK
  <2>3. rd.len <= db'.buf_len
    BY <1>3, <1>4, <2>0, <2>1, <2>2
  <2> QED
    BY <1>4, <2>0, <2>1, <2>2, <2>3
<1>6. LoopInv'
  <2> SUFFICES ASSUME Intact(db'), loop'.on
               PROVE  /\ pc' \in {"open", "compacting"}
                      /\ IsPlaceOf(db', loop'.at, loop'.met)
                      /\ IsPlaceOf(db', loop'.end, loop'.entc)
                      /\ loop'.at <= loop'.end
    BY DEF LoopInv, IsPlaceOf, Intact
  <2>1. ~Moved /\ loop' = loop
    BY <1>1 DEF NoLoop
  <2>2. Intact(db) /\ pc \in {"open", "compacting"}
    BY <1>1, <2>1, HandlesCalled
  <2> QED
    BY <1>4, <2>1, <2>2 DEF HandlesInv, LoopInv
<1> QED
  BY <1>2, <1>5, <1>6 DEF HandlesInv

\* Binding a reader puts it at the start of what it is told of.
LEMMA BindKeepsHandles ==
  ASSUME NoWrap, IndInv, HandlesInv, pc = "open",
         NEW len \in Nat, len <= db.buf_len,
         rd' = BoundTo(db, len), UNCHANGED <<vars, loop>>
  PROVE  HandlesInv'
<1>1. db.buf_len \in Nat /\ db.entrycnt \in Nat
  BY BlockTypes
<1>2. /\ pc' = pc /\ db' = db
      /\ rd'.bound /\ rd'.live /\ rd'.len = len /\ rd'.pos = 0 /\ rd'.nread = 0
      /\ rd'.entc = db.entrycnt /\ (rd'.whole => len = db.buf_len)
  BY DEF vars, BoundTo
<1>3. HandlesOK'
  BY <1>1 DEF HandlesInv, HandlesOK, BoundTo, NOERROR
<1>4. ASSUME Intact(db)
      PROVE  ReaderInv'
  <2>0. IsPlaceOf(db, 0, 0) /\ IsPlaceOf(db, db.buf_len, db.entrycnt)
    BY <1>4, AtStart
  <2>1. IsPlaceOf(db', rd'.pos, rd'.nread)
    BY <1>2, <2>0
  <2>2. rd'.whole => IsPlaceOf(db', rd'.len, rd'.entc)
    BY <1>2, <2>0
  <2>3. pc' = "open" /\ rd'.pos <= rd'.len /\ rd'.len <= db'.buf_len
    BY <1>2
  <2> QED
    BY <2>1, <2>2, <2>3 DEF ReaderInv, IsPlaceOf
<1>5. LoopInv'
  BY <1>2, SameLoop DEF HandlesInv
<1>6. ReaderInv'
  BY <1>2, <1>4 DEF ReaderInv, Intact
<1> QED
  BY <1>3, <1>5, <1>6 DEF HandlesInv

\* A read moves the reader from one place to the next, or to its end.
LEMMA ReadKeepsHandles ==
  ASSUME NoWrap, IndInv, FitInv, HandlesInv, ReadEof \/ ReadEntry \/ ReadOverrun
  PROVE  HandlesInv'
<1>1. /\ pc = "open" /\ pc' = pc /\ db' = db /\ loop' = loop /\ rd.bound
  BY DEF ReadEof, ReadEntry, ReadOverrun, vars
<1>2. /\ rd = [bound |-> rd.bound, live |-> rd.live, whole |-> rd.whole,
               len |-> rd.len, entc |-> rd.entc, pos |-> rd.pos,
               err |-> rd.err, nread |-> rd.nread]
      /\ rd.bound \in BOOLEAN /\ rd.live \in BOOLEAN /\ rd.whole \in BOOLEAN
      /\ rd.len \in Nat /\ rd.entc \in Nat /\ rd.pos \in Nat /\ rd.nread \in Nat
      /\ rd.err \in {NOERROR, ERR_NULLPTR, ERR_RDEOF}
  BY DEF HandlesInv, HandlesOK
<1>3. LoopInv'
  BY <1>1, SameLoop DEF HandlesInv
<1>4. CASE ReadEof
  <2>1. /\ ~HeaderFits
        /\ rd' = [bound |-> rd.bound, live |-> rd.live, whole |-> rd.whole,
                  len |-> rd.len, entc |-> rd.entc, pos |-> rd.len,
                  err |-> ERR_RDEOF, nread |-> rd.nread]
    BY <1>2, <1>4 DEF ReadEof
  <2>2. HandlesOK'
    BY <1>1, <1>2, <2>1 DEF HandlesInv, HandlesOK
  <2>3. Intact(db) /\ rd.live /\ rd.whole => rd.pos = rd.len
    BY <1>1, <2>1, ReaderAtEnd
  <2>4. ReaderInv'
    BY <1>1, <1>2, <2>1, <2>3 DEF HandlesInv, ReaderInv, IsPlaceOf, Intact
  <2> QED
    BY <1>3, <2>2, <2>4 DEF HandlesInv
<1>5. CASE ReadEntry
  <2> DEFINE ent == db.arena[rd.pos]
  <2>1. /\ rd.live /\ HeaderFits /\ is_valid_entry(Seen, rd.pos)
        /\ rd.pos \in DOMAIN db.arena
        /\ rd' = [bound |-> rd.bound, live |-> rd.live, whole |-> rd.whole,
                  len |-> rd.len, entc |-> rd.entc,
                  pos |-> U32(rd.pos + ent.record_len),
                  err |-> rd.err, nread |-> rd.nread + 1]
    BY <1>2, <1>5 DEF ReadEntry, RecordAt
  <2>2. ent.record_len \in Nat /\ rd.pos + ent.record_len \in Nat
    BY <1>2, <2>1, BlockTypes
  <2>3. U32(rd.pos + ent.record_len) \in Nat
    BY <2>2, U32Range
  <2>4. ASSUME Intact(db)
        PROVE  ReaderInv'
    <3>1. ent.id = rd.nread /\ rd.len <= db.buf_len
          /\ db.buf_len \in Nat /\ db.buf_len + 20 < U32Mod
      BY <1>1, <2>1, <2>4, ReaderAt
    <3>2. Seen.arena = db.arena /\ Seen.buf_len = rd.len
      BY BlockTypes DEF Seen, IsBlock
    <3>3. record_size(ent) = ent.record_len /\ rd.pos + record_size(ent) <= rd.len
      BY <2>1, <3>2 DEF is_valid_entry
    <3>4. rd.pos + ent.record_len <= rd.len
      BY <3>3
    <3>5. DbOK(db) /\ EndOf(db.arena, rd.pos) = rd.pos + ent.record_len
      BY <2>1, <2>4, IntactOK, RecordSpan
    <3>6. IsPlaceOf(db, rd.pos + ent.record_len, rd.nread + 1)
      BY <2>1, <3>1, <3>5, PlaceNext
    <3>7. U32(rd.pos + ent.record_len) = rd.pos + ent.record_len
      <4>1. rd.pos + ent.record_len < U32Mod
        BY <1>2, <2>2, <3>1, <3>4, WidthAssumption DEF WidthAssumption
      <4> QED
        BY <2>2, <4>1, U32Exact
    <3> HIDE DEF ent
    <3>8. /\ rd'.pos = rd.pos + ent.record_len /\ rd'.len = rd.len
          /\ rd'.nread = rd.nread + 1 /\ rd'.entc = rd.entc
          /\ rd'.whole = rd.whole /\ rd'.bound = rd.bound /\ rd'.live = rd.live
      BY <2>1, <3>7
    <3>9. rd.whole => IsPlaceOf(db, rd.len, rd.entc)
      BY <1>1, <2>1, <2>4 DEF HandlesInv, ReaderInv
    <3>10. IsPlaceOf(db, rd'.pos, rd'.nread)
      BY <3>6, <3>8
    <3> QED
      BY <1>1, <3>1, <3>4, <3>8, <3>9, <3>10 DEF ReaderInv, IsPlaceOf
  <2> HIDE DEF ent
  <2>5. HandlesOK'
    BY <1>1, <1>2, <2>1, <2>3 DEF HandlesInv, HandlesOK
  <2>6. ReaderInv'
    BY <1>1, <2>4 DEF ReaderInv, Intact
  <2> QED
    BY <1>3, <2>5, <2>6 DEF HandlesInv
<1>6. CASE ReadOverrun
  <2>1. /\ rd.live /\ HeaderFits /\ rd.pos \notin DOMAIN db.arena
        /\ rd' = [bound |-> rd.bound, live |-> rd.live, whole |-> rd.whole,
                  len |-> rd.len, entc |-> rd.entc, pos |-> rd.len,
                  err |-> rd.err, nread |-> rd.nread + 1]
    BY <1>2, <1>6 DEF ReadOverrun, RecordAt
  <2>2. HandlesOK'
    BY <1>1, <1>2, <2>1 DEF HandlesInv, HandlesOK
  <2>3. ~Intact(db)
    BY <1>1, <2>1, ReaderAt
  <2>4. ReaderInv'
    BY <1>1, <2>3 DEF ReaderInv, Intact
  <2> QED
    BY <1>3, <2>2, <2>4 DEF HandlesInv
<1> QED
  BY <1>4, <1>5, <1>6

\* A step of a loop goes from one place to the next, never past the end.
LEMMA LoopKeepsHandles ==
  ASSUME NoWrap, IndInv, FitInv, HandlesInv,
         LoopBegin \/ LoopNext \/ LoopOverrun \/ LoopEnd
  PROVE  HandlesInv'
<1>1. /\ pc = "open" /\ pc' = pc /\ db' = db /\ rd' = rd
  BY DEF LoopBegin, LoopNext, LoopOverrun, LoopEnd, vars
<1>2. ReaderInv'
  BY <1>1, SameReader DEF HandlesInv
<1>0. /\ db.buf_len \in Nat /\ db.entrycnt \in Nat
      /\ \A off \in DOMAIN db.arena : EndOf(db.arena, off) \in Nat
  BY BlockTypes
<1>6. /\ loop.on \in BOOLEAN /\ loop.at \in Nat /\ loop.end \in Nat
      /\ loop.entc \in Nat /\ loop.met \in Nat
      /\ loop = [on |-> loop.on, at |-> loop.at, end |-> loop.end,
                 entc |-> loop.entc, met |-> loop.met]
  BY DEF HandlesInv, HandlesOK
<1>9. loop \in [on : BOOLEAN, at : Nat, end : Nat, entc : Nat, met : Nat]
  BY DEF HandlesInv, HandlesOK
<1>8. ASSUME NEW x \in Nat, NEW y \in Nat, NEW l, l = [loop EXCEPT !.at = x, !.met = y]
      PROVE  l = [on |-> loop.on, at |-> x, end |-> loop.end,
                  entc |-> loop.entc, met |-> y]
  <2>1. l \in [on : BOOLEAN, at : Nat, end : Nat, entc : Nat, met : Nat]
    BY <1>8, <1>9
  <2>2. /\ l.on = loop.on /\ l.at = x /\ l.end = loop.end
        /\ l.entc = loop.entc /\ l.met = y
    BY <1>8, <1>9
  <2> QED
    BY <2>1, <2>2
<1>10. loop.met + 1 \in Nat
  BY <1>6
<1>3. CASE LoopBegin
  <2>1. loop' = [on |-> TRUE, at |-> 0, end |-> db.buf_len,
                 entc |-> db.entrycnt, met |-> 0]
    BY <1>3 DEF LoopBegin
  <2>2. Intact(db) => IsPlaceOf(db, 0, 0) /\ IsPlaceOf(db, db.buf_len, db.entrycnt)
    BY AtStart
  <2>3. HandlesOK'
    BY <1>0, <1>1, <2>1 DEF HandlesInv, HandlesOK
  <2>4. LoopInv'
    BY <1>0, <1>1, <2>1, <2>2 DEF LoopInv, IsPlaceOf, Intact
  <2> QED
    BY <1>2, <2>3, <2>4 DEF HandlesInv
<1>4. CASE LoopNext
  <2>1. /\ loop.on /\ loop.at # loop.end
        /\ loop' = [on |-> loop.on,
                    at |-> IF loop.at < db.buf_len THEN EndOf(db.arena, loop.at)
                                                   ELSE db.buf_len,
                    end |-> loop.end, entc |-> loop.entc, met |-> loop.met + 1]
        /\ loop.at < db.buf_len => loop.at \in DOMAIN db.arena
    <3>1. /\ loop.on /\ loop.at # loop.end
          /\ loop.at \in DOMAIN db.arena \/ loop.at >= db.buf_len
          /\ loop' = [loop EXCEPT !.at  = IF loop.at < db.buf_len
                                          THEN EndOf(db.arena, loop.at) ELSE db.buf_len,
                                  !.met = loop.met + 1]
      BY <1>4 DEF LoopNext, RecordAt
    <3>2. loop.at < db.buf_len => loop.at \in DOMAIN db.arena
      BY <1>0, <1>6, <3>1
    <3> QED
      BY <1>0, <1>8, <1>10, <3>1, <3>2
  <2>2. HandlesOK'
    <3>1. loop'.at \in Nat
      BY <1>0, <2>1
    <3>2. loop' = [on |-> loop.on, at |-> loop'.at,
                   end |-> loop.end, entc |-> loop.entc, met |-> loop.met + 1]
      BY <2>1
    <3> QED
      BY <1>1, <1>6, <3>1, <3>2 DEF HandlesInv, HandlesOK
  <2>3. ASSUME Intact(db)
        PROVE  LoopInv'
    <3>1. /\ DbOK(db)
          /\ IsPlaceOf(db, loop.at, loop.met) /\ IsPlaceOf(db, loop.end, loop.entc)
          /\ loop.at < loop.end
      BY <1>6, <2>1, <2>3, IntactOK DEF HandlesInv, LoopInv
    <3>2. /\ loop.at \in DOMAIN db.arena /\ EndOf(db.arena, loop.at) <= loop.end
          /\ loop.end <= db.buf_len
      BY <1>6, <3>1, PlacesOrdered
    <3>3. loop.at < db.buf_len
      BY <1>0, <1>6, <3>1, <3>2
    <3>4. db.arena[loop.at].id = loop.met
      BY <1>0, <1>6, <3>1, <3>3 DEF IsPlaceOf
    <3>5. IsPlaceOf(db, EndOf(db.arena, loop.at), loop.met + 1)
      BY <3>1, <3>2, <3>4, PlaceNext
    <3>6. loop' = [on |-> loop.on, at |-> EndOf(db.arena, loop.at), end |-> loop.end,
                   entc |-> loop.entc, met |-> loop.met + 1]
      BY <2>1, <3>3
    <3> QED
      BY <1>1, <3>1, <3>2, <3>5, <3>6 DEF LoopInv, IsPlaceOf
  <2>4. LoopInv'
    BY <1>1, <2>3 DEF LoopInv, Intact
  <2> QED
    BY <1>2, <2>2, <2>4 DEF HandlesInv
<1>5. CASE LoopEnd
  <2>1. loop' = NoLoop
    BY <1>5 DEF LoopEnd
  <2> QED
    BY <1>1, <1>2, <2>1 DEF HandlesInv, HandlesOK, LoopInv, NoLoop
<1>7. CASE LoopOverrun
  <2>1. /\ loop.on /\ loop.at # loop.end
        /\ loop.at \notin DOMAIN db.arena /\ loop.at < db.buf_len
        /\ \/ loop' = [on |-> loop.on, at |-> db.buf_len, end |-> loop.end,
                       entc |-> loop.entc, met |-> loop.met + 1]
           \/ loop' = NoLoop
    BY <1>0, <1>7, <1>8, <1>10 DEF LoopOverrun, RecordAt
  <2>2. HandlesOK'
    <3>1. loop.met + 1 \in Nat /\ rd' \in [bound : BOOLEAN, live : BOOLEAN, whole : BOOLEAN,
             len : Nat, entc : Nat, pos : Nat,
             err : {NOERROR, ERR_NULLPTR, ERR_RDEOF}, nread : Nat]
      BY <1>1, <1>6 DEF HandlesInv, HandlesOK
    <3>2. loop' \in [on : BOOLEAN, at : Nat, end : Nat, entc : Nat, met : Nat]
      <4>1. CASE loop' = NoLoop
        BY <4>1 DEF NoLoop
      <4>2. CASE loop' # NoLoop
        <5> DEFINE n == loop.met + 1
        <5>1. n \in Nat
          BY <1>10
        <5>2. loop' = [on |-> loop.on, at |-> db.buf_len, end |-> loop.end,
                       entc |-> loop.entc, met |-> n]
          BY <2>1, <4>2
        <5> HIDE DEF n
        <5> QED
          BY <1>0, <1>6, <5>1, <5>2
      <4> QED
        BY <4>1, <4>2
    <3> QED
      BY <3>1, <3>2 DEF HandlesOK
  <2>3. ~Intact(db)
    BY <1>0, <1>6, <2>1 DEF HandlesInv, LoopInv, IsPlaceOf
  <2>4. LoopInv'
    BY <1>1, <2>3 DEF LoopInv, Intact
  <2> QED
    BY <1>2, <2>2, <2>4 DEF HandlesInv
<1> QED
  BY <1>3, <1>4, <1>5, <1>7

\* Every step preserves the invariant of the handles.
LEMMA HandlesStep ==
  ASSUME NoWrap, IndInv, FitInv, HandlesInv, [NextR]_allvars
  PROVE  HandlesInv'
<1>1. IndInv' /\ FitInv'
  BY BaseStep
<1>2. db.buf_len \in Nat
  BY BlockTypes
<1>3. CASE Call
  <2>1. db'.buf_len \in Nat
    BY <1>1 DEF IndInv, TypeOK, IsDb
  <2> QED
    BY <1>3, <2>1, CallKeepsHandles
<1>4. CASE Bind
  BY <1>2, <1>4, BindKeepsHandles DEF Bind
<1>5. ASSUME NEW len \in Cuts, BindCut(len)
      PROVE  HandlesInv'
  <2>1. len \in Nat /\ len <= db.buf_len
    BY <1>2, <1>5, CutsAssumption DEF CutsAssumption, BindCut
  <2> QED
    BY <1>5, <2>1, BindKeepsHandles DEF BindCut
<1>6. CASE ReadEof \/ ReadEntry \/ ReadOverrun
  BY <1>6, ReadKeepsHandles
<1>7. CASE LoopBegin \/ LoopNext \/ LoopOverrun \/ LoopEnd
  BY <1>7, LoopKeepsHandles
<1>8. CASE Unbind
  <2>1. pc' = pc /\ db' = db /\ loop' = loop /\ rd' = [NoReader EXCEPT !.err = rd.err]
    BY <1>8 DEF Unbind, vars
  <2>2. ~rd'.bound
    BY <2>1 DEF NoReader
  <2>3. HandlesOK'
    BY <2>1 DEF HandlesInv, HandlesOK, NoReader
  <2> QED
    BY <2>1, <2>2, <2>3, SameLoop DEF HandlesInv, ReaderInv
<1>9. CASE ReadUnbound \/ ReaderClearerr
  <2>1. /\ pc' = pc /\ db' = db /\ loop' = loop
        /\ \E code \in {NOERROR, ERR_NULLPTR} : rd' = [rd EXCEPT !.err = code]
    BY <1>9 DEF ReadUnbound, ReaderClearerr, vars
  <2>2. HandlesOK'
    BY <2>1 DEF HandlesInv, HandlesOK
  <2>3. /\ rd'.bound = rd.bound /\ rd'.live = rd.live /\ rd'.whole = rd.whole
        /\ rd'.len = rd.len /\ rd'.pos = rd.pos /\ rd'.entc = rd.entc
        /\ rd'.nread = rd.nread
    BY <2>1 DEF HandlesInv, HandlesOK
  <2>4. ReaderInv'
    BY <2>1, <2>3 DEF HandlesInv, ReaderInv, IsPlaceOf, Intact
  <2> QED
    BY <2>1, <2>2, <2>4, SameLoop DEF HandlesInv
<1>10. CASE Rewind
  <2>1. /\ pc = "open" /\ pc' = pc /\ db' = db /\ loop' = loop
        /\ rd' = [rd EXCEPT !.pos = 0, !.nread = 0]
    BY <1>10 DEF Rewind, vars
  <2>2. HandlesOK'
    BY <2>1 DEF HandlesInv, HandlesOK
  <2>3. /\ rd'.bound = rd.bound /\ rd'.live = rd.live /\ rd'.whole = rd.whole
        /\ rd'.len = rd.len /\ rd'.pos = 0 /\ rd'.entc = rd.entc
        /\ rd'.nread = 0 /\ rd.len \in Nat
    BY <2>1 DEF HandlesInv, HandlesOK
  <2>4. Intact(db) => IsPlaceOf(db, 0, 0)
    BY AtStart
  <2>5. ReaderInv'
    BY <2>1, <2>3, <2>4 DEF HandlesInv, ReaderInv, IsPlaceOf, Intact
  <2> QED
    BY <2>1, <2>2, <2>5, SameLoop DEF HandlesInv
<1>11. CASE ReadAborts
  BY <1>11 DEF ReadAborts, HandlesInv, HandlesOK, ReaderInv, LoopInv, NoReader,
               NoLoop
<1>12. CASE UNCHANGED allvars
  <2>1. UNCHANGED <<pc, db, rd, loop>>
    BY <1>12 DEF allvars, vars, handles
  <2> QED
    BY <2>1, SameReader, SameLoop DEF HandlesInv, HandlesOK
<1> QED
  BY <1>3, <1>4, <1>5, <1>6, <1>7, <1>8, <1>9, <1>10, <1>11, <1>12 DEF NextR

\* The handles begin closed.
LEMMA HandlesInit ==
  ASSUME NoWrap, InitR
  PROVE  IndInv /\ FitInv /\ HandlesInv
<1>1. IndInv
  BY InitOK DEF InitR
<1>2. FitInv
  <2>1. 20 < U32Mod
    BY WidthAssumption DEF NoWrap, NoWrapOn, WidthAssumption
  <2>2. NamesExact(NoDb) /\ NoDb.buf_len + RecHdrSize < U32Mod
    BY <2>1, NoDbEmpty, EmptyExact DEF RecHdrSize
  <2> QED
    BY <2>2 DEF InitR, Init, FitInv
<1>3. HandlesInv
  BY DEF InitR, HandlesInv, HandlesOK, ReaderInv, LoopInv, NoReader, NoLoop
<1> QED
  BY <1>1, <1>2, <1>3

-----------------------------------------------------------------------------
(* Theorems *)

\* An open reader and an open loop stand on records, on the n-th when they have
\* passed n, or at their end, over all calls that go on beside them.
THEOREM HandlesInvariance ==
  ASSUME NoWrap PROVE SpecR => [](IndInv /\ FitInv /\ HandlesInv)
<1>1. InitR => IndInv /\ FitInv /\ HandlesInv
  BY HandlesInit
<1>2. IndInv /\ FitInv /\ HandlesInv /\ [NextR]_allvars
        => (IndInv /\ FitInv /\ HandlesInv)'
  BY BaseStep, HandlesStep
<1> QED
  BY <1>1, <1>2, PTL DEF SpecR

\* A reader of the whole arena is at its end exactly when it has read every
\* record there was when it was bound.
THEOREM ReaderComplete == ASSUME NoWrap PROVE SpecR => []ReadsAll
<1>1. IndInv /\ HandlesInv => ReadsAll
  <2> SUFFICES ASSUME IndInv, HandlesInv, Intact(db), rd.bound, rd.live, rd.whole
               PROVE  rd.pos = rd.len <=> rd.nread = rd.entc
    BY DEF ReadsAll
  <2>1. IsPlaceOf(db, rd.pos, rd.nread) /\ IsPlaceOf(db, rd.len, rd.entc)
    BY DEF HandlesInv, ReaderInv
  <2>2. DbOK(db)
    BY IntactOK
  <2> QED
    BY <2>1, <2>2, PlacesOrdered
<1> QED
  BY <1>1, HandlesInvariance, PTL

\* A loop is at its end exactly when it has met every record there was when it
\* began: it never passes the end, however much its body appends.
THEOREM LoopComplete == ASSUME NoWrap PROVE SpecR => []LoopMeetsAll
<1>1. IndInv /\ HandlesInv => LoopMeetsAll
  <2> SUFFICES ASSUME IndInv, HandlesInv, Intact(db), loop.on
               PROVE  loop.at = loop.end <=> loop.met = loop.entc
    BY DEF LoopMeetsAll
  <2>1. IsPlaceOf(db, loop.at, loop.met) /\ IsPlaceOf(db, loop.end, loop.entc)
    BY DEF HandlesInv, LoopInv
  <2>2. DbOK(db)
    BY IntactOK
  <2> QED
    BY <2>1, <2>2, PlacesOrdered
<1> QED
  BY <1>1, HandlesInvariance, PTL

\* The n-th record a reader returns after a bind or a rewind has the id n.
THEOREM ReaderOrdered == ASSUME NoWrap PROVE SpecR => ReadsInOrder
<1> DEFINE Good == IndInv /\ FitInv /\ HandlesInv
<1>1. Good /\ [NextR]_allvars
        => [Intact(db) /\ rd'.nread = rd.nread + 1 /\ rd.live
              => db.arena[rd.pos].id = rd.nread]_allvars
  <2> SUFFICES ASSUME IndInv, FitInv, HandlesInv, NextR, Intact(db),
                      rd'.nread = rd.nread + 1, rd.live
               PROVE  db.arena[rd.pos].id = rd.nread
    OBVIOUS
  <2>1. /\ rd \in [bound : BOOLEAN, live : BOOLEAN, whole : BOOLEAN,
                   len : Nat, entc : Nat, pos : Nat,
                   err : {NOERROR, ERR_NULLPTR, ERR_RDEOF}, nread : Nat]
        /\ rd.nread \in Nat
    BY DEF HandlesInv, HandlesOK
  <2>2. rd.nread + 1 # 0 /\ rd.nread + 1 # rd.nread
    BY <2>1
  <2>3. ReadEntry \/ ReadOverrun
    <3>1. CASE rd' = rd
      BY <2>2, <3>1
    <3>2. CASE rd'.nread = 0
      BY <2>2, <3>2
    <3>3. CASE rd'.nread = rd.nread
      BY <2>2, <3>3
    <3>4. Call => rd' = rd \/ rd'.nread = 0 \/ rd'.nread = rd.nread
      BY <2>1 DEF Call, NoReader, Dangling
    <3>5. Bind \/ Unbind \/ Rewind \/ ReadAborts \/ (\E len \in Cuts : BindCut(len))
            => rd'.nread = 0
      <4>1. ASSUME NEW len
            PROVE  BoundTo(db, len).nread = 0
        BY DEF BoundTo
      <4>2. Bind \/ (\E len \in Cuts : BindCut(len)) => rd'.nread = 0
        BY <4>1 DEF Bind, BindCut
      <4>3. Unbind \/ ReadAborts => rd'.nread = 0
        BY DEF Unbind, ReadAborts, NoReader
      <4>4. Rewind => rd'.nread = 0
        BY <2>1 DEF Rewind
      <4> QED
        BY <4>2, <4>3, <4>4
    <3>6. ReaderClearerr \/ ReadUnbound \/ ReadEof => rd'.nread = rd.nread
      BY <2>1 DEF ReaderClearerr, ReadUnbound, ReadEof
    <3>7. LoopBegin \/ LoopNext \/ LoopOverrun \/ LoopEnd => rd' = rd
      BY DEF LoopBegin, LoopNext, LoopOverrun, LoopEnd
    <3> QED
      BY <3>1, <3>2, <3>3, <3>4, <3>5, <3>6, <3>7 DEF NextR
  <2> QED
    BY <2>3, ReaderAt DEF ReadEntry, ReadOverrun
<1> QED
  BY <1>1, HandlesInvariance, PTL DEF SpecR, ReadsInOrder

\* As long as names fit name_len, a reader of the whole arena passes every
\* assertion of kvsymdb_reader_read.
THEOREM ReaderSafe == ASSUME NoWrap, NamesFit PROVE SpecR => WholeReaderSafe
<1> DEFINE Good == IndInv /\ FitInv /\ HandlesInv
<1>1. Good /\ [NextR]_allvars => [Intact(db) /\ rd.whole => ~ReadAborts]_allvars
  <2> SUFFICES ASSUME IndInv, FitInv, HandlesInv, Intact(db), rd.whole, ReadAborts
               PROVE  FALSE
    OBVIOUS
  <2>1. /\ rd.bound /\ rd.live /\ HeaderFits
        /\ rd.pos \in DOMAIN db.arena => ~is_valid_entry(Seen, rd.pos)
    BY DEF ReadAborts, RecordAt
  <2>2. /\ rd.pos \in DOMAIN db.arena /\ db.arena[rd.pos].id = rd.nread
        /\ rd.pos < rd.len
    BY <2>1, ReaderAt
  <2>3. IsPlaceOf(db, rd.pos, rd.nread) /\ IsPlaceOf(db, rd.len, rd.entc)
    BY <2>1 DEF HandlesInv, ReaderInv
  <2>4. EndOf(db.arena, rd.pos) <= rd.len /\ rd.nread < rd.entc
    BY <2>2, <2>3, IntactOK, PlacesOrdered
  <2>5. /\ record_size(db.arena[rd.pos]) = db.arena[rd.pos].record_len
        /\ is_aligned_off(rd.pos)
        /\ EndOf(db.arena, rd.pos) = rd.pos + db.arena[rd.pos].record_len
    BY <2>2, ValidRecord
  <2>6. Seen.arena = db.arena /\ Seen.buf_len = rd.len /\ Seen.entrycnt = rd.entc
    BY BlockTypes DEF Seen, IsBlock
  <2>7. is_valid_entry(Seen, rd.pos)
    BY <2>2, <2>4, <2>5, <2>6 DEF is_valid_entry
  <2> QED
    BY <2>1, <2>2, <2>7
<1> QED
  BY <1>1, HandlesInvariance, PTL DEF SpecR, WholeReaderSafe
=============================================================================
