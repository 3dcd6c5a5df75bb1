------------------------------ MODULE KVReader ------------------------------
(***************************************************************************)
(* A reader (kvsymdb_reader_t) and a loop over the entries (the iterators  *)
(* of class kvsymdb) that stay open while the calls of KVSymDB go on.  Both *)
(* keep what they found when they were opened - a length and a number of   *)
(* entries, or the end pointer - and follow raw pointers into the block.   *)
(*                                                                         *)
(* A call that moves the block leaves them dangling: what a later read     *)
(* through them does is undefined, so no caller makes one.                 *)
(*                                                                         *)
(* Binding a reader or beginning a loop asserts nothing of the block, so   *)
(* both may also be opened on one that kvsymdb_insert has overrun.         *)
(***************************************************************************)
EXTENDS KVSymDB

CONSTANT Cuts   \* the lengths to which callers cut the arena for a reader

ASSUME CutsAssumption == Cuts \subseteq Nat

VARIABLES
  rd,     \* the reader
  loop    \* a range-for over the database: its iterator and its end

handles == <<rd, loop>>
allvars == <<vars, handles>>

ERR_NULLPTR == "ERR_NULLPTR"
ERR_RDEOF   == "ERR_RDEOF"

-----------------------------------------------------------------------------
(* Handles.  "live" means the block they point into has not been freed;    *)
(* nread and met count for the properties what was read since the start.   *)

NoReader ==
  [bound |-> FALSE, live |-> FALSE, whole |-> FALSE,
   len |-> 0, entc |-> 0, pos |-> 0, err |-> NOERROR, nread |-> 0]

\* A mutant: the reader is told the capacity instead of the number of entries.
BoundToCapacity(d, len) ==
  [bound |-> TRUE, live |-> TRUE, whole |-> len = d.buf_len,
   len |-> len, entc |-> d.entrycap, pos |-> 0, err |-> NOERROR, nread |-> 0]

\* Bound to the first len bytes of the arena of d.
BoundTo(d, len) ==
  [bound |-> TRUE, live |-> TRUE, whole |-> len = d.buf_len,
   len |-> len, entc |-> d.entrycnt, pos |-> 0, err |-> NOERROR, nread |-> 0]

NoLoop == [on |-> FALSE, at |-> 0, end |-> 0, entc |-> 0, met |-> 0]

Dangling(reader) == [reader EXCEPT !.live = FALSE]

\* The call freed the block: the database is gone, or is in another block.
Moved ==
  \/ pc' \notin {"open", "compacting"}
  \/ db'.entrycap # db.entrycap
  \/ db'.buf_size # db.buf_size
  \/ pc = "compacting" /\ pc' = "open" /\ rc' = NOERROR

InitR == Init /\ rd = NoReader /\ loop = NoLoop

\* A call of the database.  A loop cannot go on after a call of its body that
\* moved the block.  A process that ended has no handles any more.
Call ==
  /\ Next
  /\ rd'   = IF pc' = "aborted" THEN NoReader
             ELSE IF Moved THEN Dangling(rd) ELSE rd
  /\ loop' = IF Moved THEN NoLoop ELSE loop

-----------------------------------------------------------------------------
(* The reader *)

Bind ==
  /\ pc = "open"
  /\ rd' = BoundTo(db, db.buf_len)
  /\ UNCHANGED <<vars, loop>>

\* kvsymdb_reader_bind takes any length.
BindCut(len) ==
  /\ pc = "open"
  /\ len < db.buf_len
  /\ rd' = BoundTo(db, len)
  /\ UNCHANGED <<vars, loop>>

Unbind ==
  /\ pc = "open"
  /\ rd' = [NoReader EXCEPT !.err = rd.err]
  /\ UNCHANGED <<vars, loop>>

ReadUnbound ==
  /\ pc = "open"
  /\ ~rd.bound
  /\ rd' = [rd EXCEPT !.err = ERR_NULLPTR]
  /\ UNCHANGED <<vars, loop>>

\* The header at pos lies within the length the reader knows of.
HeaderFits == U32(rd.pos + RecHdrSize) <= rd.len

\* The block as the reader knows it.
Seen == [db EXCEPT !.buf_len = rd.len, !.entrycnt = rd.entc]

\* There is a record at off whose bytes nothing has been written over.
RecordAt(off) == off \in DOMAIN db.arena

\* No record is left, or none whose header is within the length.  The block is
\* not looked at, so this is the one read that a dangling reader survives.
ReadEof ==
  /\ pc = "open"
  /\ rd.bound
  /\ ~HeaderFits
  /\ rd' = [rd EXCEPT !.pos = rd.len, !.err = ERR_RDEOF]
  /\ UNCHANGED <<vars, loop>>

ReadEntry ==
  /\ pc = "open"
  /\ rd.bound /\ rd.live
  /\ HeaderFits
  /\ RecordAt(rd.pos) /\ is_valid_entry(Seen, rd.pos)
  /\ rd' = [rd EXCEPT !.pos   = U32(rd.pos + db.arena[rd.pos].record_len),
                      !.nread = rd.nread + 1]
  /\ UNCHANGED <<vars, loop>>

\* The record that overran the arena has one byte that is not its own, a state.  When
\* that is not a byte the check looks at, the reader returns it and is at the end.
ReadOverrun ==
  /\ pc = "open"
  /\ rd.bound /\ rd.live
  /\ HeaderFits
  /\ ~RecordAt(rd.pos) /\ rd.len = db.buf_len
  /\ rd' = [rd EXCEPT !.pos = rd.len, !.nread = rd.nread + 1]
  /\ UNCHANGED <<vars, loop>>

\* A record that is not valid never makes the reader return ERR_BADENT: the
\* check asserts before it compares.
ReadAborts ==
  /\ pc = "open"
  /\ rd.bound /\ rd.live
  /\ HeaderFits
  /\ RecordAt(rd.pos) => ~is_valid_entry(Seen, rd.pos)
  /\ Abort
  /\ rd' = NoReader
  /\ loop' = NoLoop

\* A mutant: the position is not reset.
RewindKeepsPos ==
  /\ pc = "open"
  /\ rd' = [rd EXCEPT !.nread = 0]
  /\ UNCHANGED <<vars, loop>>

\* The error code stays what it is.
Rewind ==
  /\ pc = "open"
  /\ rd' = [rd EXCEPT !.pos = 0, !.nread = 0]
  /\ UNCHANGED <<vars, loop>>

ReaderClearerr ==
  /\ pc = "open"
  /\ rd' = [rd EXCEPT !.err = NOERROR]
  /\ UNCHANGED <<vars, loop>>

-----------------------------------------------------------------------------
(* The loop: begin() and end() are called once, then the iterator advances  *)
(* until it equals the end.  The body may call anything.                    *)

LoopBegin ==
  /\ pc = "open"
  /\ loop' = [on |-> TRUE, at |-> 0, end |-> db.buf_len,
              entc |-> db.entrycnt, met |-> 0]
  /\ UNCHANGED <<vars, rd>>

\* A mutant: the end is taken again in every round.
LoopNextMovesEnd ==
  /\ pc = "open"
  /\ loop.on
  /\ loop.at # loop.end
  /\ RecordAt(loop.at)
  /\ loop' = [loop EXCEPT !.at  = EndOf(db.arena, loop.at),
                          !.end = db.buf_len,
                          !.met = loop.met + 1]
  /\ UNCHANGED <<vars, rd>>

LoopNext ==
  /\ pc = "open"
  /\ loop.on
  /\ loop.at # loop.end
  /\ RecordAt(loop.at) \/ loop.at >= db.buf_len
  /\ loop' = [loop EXCEPT
                !.at  = IF loop.at < db.buf_len THEN EndOf(db.arena, loop.at)
                                                ELSE db.buf_len,
                !.met = loop.met + 1]
  /\ UNCHANGED <<vars, rd>>

\* The record_len of the record that overran the arena takes the iterator to the end,
\* or, when the state lies in that field, to where a walk is lost.
LoopOverrun ==
  /\ pc = "open"
  /\ loop.on
  /\ loop.at # loop.end
  /\ ~RecordAt(loop.at) /\ loop.at < db.buf_len
  /\ \/ loop' = [loop EXCEPT !.at = db.buf_len, !.met = loop.met + 1]
     \/ loop' = NoLoop
  /\ UNCHANGED <<vars, rd>>

LoopEnd ==
  /\ pc = "open"
  /\ loop.on
  /\ loop.at = loop.end
  /\ loop' = NoLoop
  /\ UNCHANGED <<vars, rd>>

NextR ==
  \/ Call
  \/ Bind \/ Unbind \/ Rewind \/ ReaderClearerr
  \/ \E len \in Cuts : BindCut(len)
  \/ ReadUnbound \/ ReadEof \/ ReadEntry \/ ReadOverrun \/ ReadAborts
  \/ LoopBegin \/ LoopNext \/ LoopOverrun \/ LoopEnd

SpecR == InitR /\ [][NextR]_allvars

-----------------------------------------------------------------------------
(* Properties *)

\* The types of the handles.
HandlesOK ==
  /\ rd \in [bound : BOOLEAN, live : BOOLEAN, whole : BOOLEAN,
             len : Nat, entc : Nat, pos : Nat,
             err : {NOERROR, ERR_NULLPTR, ERR_RDEOF}, nread : Nat]
  /\ loop \in [on : BOOLEAN, at : Nat, end : Nat,
               entc : Nat, met : Nat]

\* A reader of the whole arena has, when it is at its end, read every record
\* there was when it was bound, once - whatever was appended, marked dead or
\* refused since.  (This and the rest is about a block that was not overrun.)
ReadsAll ==
  Intact(db) /\ rd.bound /\ rd.live /\ rd.whole =>
    (rd.pos = rd.len <=> rd.nread = rd.entc)

\* The same of a loop: it ends, at the end taken before its first step, when it
\* has met exactly the entries of that time.
LoopMeetsAll ==
  Intact(db) /\ loop.on => (loop.at = loop.end <=> loop.met = loop.entc)

\* Records are read in the order of their ids.
ReadsInOrder ==
  [][Intact(db) /\ rd'.nread = rd.nread + 1 /\ rd.live
       => db.arena[rd.pos].id = rd.nread]_allvars

\* kvsymdb_reader_read does not end the process on a record that is cut off: the
\* comment at kvsymdb.cxx:498-505 has it return no entry and stand at the end.
CutRecordIsEnd == [][~ReadAborts]_allvars

\* A reader of the whole arena never ends the process.
WholeReaderSafe == [][Intact(db) /\ rd.whole => ~ReadAborts]_allvars

-----------------------------------------------------------------------------
(* The invariant behind them *)

\* off is where the record of d with this id is, or the end when there is none.
IsPlaceOf(d, off, id) ==
  IF off = d.buf_len THEN id = d.entrycnt
  ELSE off \in DOMAIN d.arena /\ d.arena[off].id = id

ReaderInv ==
  Intact(db) /\ rd.bound /\ rd.live =>
    /\ pc \in {"open", "compacting"}
    /\ rd.pos <= rd.len /\ rd.len <= db.buf_len
    /\ rd.pos = rd.len \/ IsPlaceOf(db, rd.pos, rd.nread)
    /\ rd.whole => IsPlaceOf(db, rd.pos, rd.nread) /\ IsPlaceOf(db, rd.len, rd.entc)

LoopInv ==
  Intact(db) /\ loop.on =>
    /\ pc \in {"open", "compacting"}
    /\ IsPlaceOf(db, loop.at, loop.met)
    /\ IsPlaceOf(db, loop.end, loop.entc)
    /\ loop.at <= loop.end

HandlesInv == HandlesOK /\ ReaderInv /\ LoopInv
=============================================================================
