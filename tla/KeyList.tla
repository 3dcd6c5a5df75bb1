------------------------------- MODULE KeyList -------------------------------
(***************************************************************************)
(* KeyListArena: keys appended to one growing buffer, each behind a header *)
(* that tells the offset of the next, an iterator over them, and a         *)
(* compaction that copies the keys not marked dead to a new arena, one     *)
(* entry per step. A header has 16 bits for the length of its key: a key   *)
(* that is longer is written whole, and the first read of it ends the      *)
(* process, by an assertion.                                               *)
(***************************************************************************)
EXTENDS Naturals, FiniteSets, Selections

CONSTANTS
  Names, NameLen,  \* the keys and their lengths
  NameLenMod,      \* what name_len counts modulo: 2^16
  U32Mod,          \* what offsets and sizes count modulo: 2^32
  HeapLimit,       \* a bound on the buffers the heap has room for
  Bases,           \* the addresses the heap has for arenas
  MaxEntries,      \* a bound on the entries of an arena
  NULL

INIT_BUF_SIZE == 32
HeaderSize    == 12   \* sizeof(KeyListEntry)

VARIABLES
  kla,      \* the arena, or NoArena
  new_kla,  \* the arena that a compaction fills, or NoArena
  off_cur,  \* where the compaction reads
  kit       \* the iterator: its position, or NULL

kvars == <<kla, new_kla, off_cur, kit>>

\* ents has the entry at each offset where one was written.
Arena(base, len, size, cnt, ents) ==
  [base |-> base, buf_len |-> len, buf_size |-> size, entrycnt |-> cnt, ents |-> ents]

NewArena(base) == Arena(base, 0, INIT_BUF_SIZE, 0, <<>>)

\* A pointer that is NULL
NoArena  == Arena(NULL, 0, 0, 0, <<>>)
There(a) == a.base # NULL

U32(n) == n % U32Mod

align_off(n) == ((n + 3) \div 4) * 4

EntLen(len) == U32(align_off(HeaderSize + len + 1))

NextOff(a, len) == U32(a.buf_len + EntLen(len))

\* A mutant: the length of the new entry is not counted.
grown_short(a, next_off) == IF a.buf_len >= a.buf_size THEN U32(a.buf_size * 2) ELSE a.buf_size

grown(a, next_off) ==
  IF next_off < a.buf_size THEN a.buf_size
  ELSE IF next_off <= U32(a.buf_size * 2) THEN U32(a.buf_size * 2) ELSE U32(next_off * 2)

\* The arena with one more entry; realloc may have moved it to base.
Written(a, name, len, base) ==
  LET next_off == NextOff(a, len)
      entry    == [id |-> a.entrycnt, next_off |-> next_off, flags |-> "INUSE",
                   name |-> name, name_len |-> len % NameLenMod]
  IN  Arena(base, next_off, grown(a, next_off), a.entrycnt + 1,
            [o \in {p \in DOMAIN a.ents : p < a.buf_len} \cup {a.buf_len} |->
               IF o = a.buf_len THEN entry ELSE a.ents[o]])

MayGrow(a, len) == NextOff(a, len) >= a.buf_size

\* Where a's block can be after a write: where it was, or where realloc puts it.
After(a, len) ==
  IF ~MayGrow(a, len) THEN {a.base}
  ELSE IF grown(a, NextOff(a, len)) <= HeapLimit THEN {a.base} \cup (Bases \ {kla.base}) ELSE {}

\* The assertions of KeyListArena_GetEntry
Gets(a, off) ==
  LET e == a.ents[off] IN
  e.id < a.entrycnt /\ e.next_off <= a.buf_len /\ e.next_off = off + EntLen(e.name_len)

InitK == kla = NoArena /\ new_kla = NoArena /\ off_cur = 0 /\ kit = NULL

Idle == There(kla) /\ ~There(new_kla)

-----------------------------------------------------------------------------
(* The arena *)

Create ==
  /\ ~There(kla)
  /\ \E b \in Bases : kla' = NewArena(b)
  /\ UNCHANGED <<new_kla, off_cur, kit>>

Destroy ==
  /\ Idle
  /\ kla' = NoArena /\ kit' = NULL
  /\ UNCHANGED <<new_kla, off_cur>>

\* An iterator keeps the address of its arena, and cannot follow it.
WriteEntry(name) ==
  /\ Idle /\ kla.entrycnt < MaxEntries
  /\ NameLen[name] # 0
  /\ \E b \in After(kla, NameLen[name]) :
       /\ kla' = Written(kla, name, NameLen[name], b)
       /\ kit' = IF b = kla.base THEN kit ELSE NULL
  /\ UNCHANGED <<new_kla, off_cur>>

\* The key is empty, or realloc fails.
WriteFails(name) ==
  /\ Idle
  /\ NameLen[name] = 0 \/ MayGrow(kla, NameLen[name])
  /\ UNCHANGED kvars

MarkEntryDead(off) ==
  /\ Idle
  /\ kla' = [kla EXCEPT !.ents[off].flags = "DEAD"]
  /\ UNCHANGED <<new_kla, off_cur, kit>>

\* A position in the old entries means nothing then: iterators are rewound.
Clear ==
  /\ Idle
  /\ kla' = Arena(kla.base, 0, kla.buf_size, 0, <<>>)
  /\ kit' = IF kit = NULL THEN NULL ELSE 0
  /\ UNCHANGED <<new_kla, off_cur>>

-----------------------------------------------------------------------------
(* Compact_KeyListArena *)

CompactBegin ==
  /\ Idle
  /\ \E b \in Bases \ {kla.base} : new_kla' = NewArena(b)
  /\ off_cur' = 0
  /\ UNCHANGED <<kla, kit>>

\* The loop gets the entry that it is at.
Compacts == There(new_kla) /\ off_cur < kla.buf_len /\ Gets(kla, off_cur)

\* A mutant: dead entries are copied too.
CompactCopyAll ==
  /\ Compacts
  /\ LET entry == kla.ents[off_cur] IN
       /\ \E b \in After(new_kla, entry.name_len) : new_kla' = Written(new_kla, entry.name, entry.name_len, b)
       /\ off_cur' = entry.next_off
  /\ UNCHANGED <<kla, kit>>

CompactCopy ==
  /\ Compacts
  /\ LET entry == kla.ents[off_cur] IN
       /\ entry.flags = "INUSE"
       /\ \E b \in After(new_kla, entry.name_len) : new_kla' = Written(new_kla, entry.name, entry.name_len, b)
       /\ off_cur' = entry.next_off
  /\ UNCHANGED <<kla, kit>>

CompactSkip ==
  /\ Compacts
  /\ kla.ents[off_cur].flags # "INUSE"
  /\ off_cur' = kla.ents[off_cur].next_off
  /\ UNCHANGED <<kla, new_kla, kit>>

\* A write fails: the new arena is destroyed and the old one stays.
CompactFails ==
  /\ Compacts
  /\ kla.ents[off_cur].flags = "INUSE" /\ MayGrow(new_kla, kla.ents[off_cur].name_len)
  /\ new_kla' = NoArena
  /\ UNCHANGED <<kla, off_cur, kit>>

\* An assertion fails and the process ends; the next one starts without an arena.
Abort == kla' = NoArena /\ new_kla' = NoArena /\ off_cur' = 0 /\ kit' = NULL

CompactAborts == There(new_kla) /\ off_cur < kla.buf_len /\ ~Gets(kla, off_cur) /\ Abort

CompactEnd ==
  /\ There(new_kla) /\ off_cur = kla.buf_len
  /\ kla' = new_kla /\ new_kla' = NoArena
  /\ kit' = NULL
  /\ UNCHANGED off_cur

-----------------------------------------------------------------------------
(* The iterator *)

\* Create_KeyListIterator and KeyListIterator_Rewind
Rewind == Idle /\ kit' = 0 /\ UNCHANGED <<kla, new_kla, off_cur>>

Reads == Idle /\ kit # NULL /\ kit < kla.buf_len

ReadEntry ==
  /\ Reads /\ Gets(kla, kit)
  /\ kit' = kla.ents[kit].next_off
  /\ UNCHANGED <<kla, new_kla, off_cur>>

ReadAborts == Reads /\ ~Gets(kla, kit) /\ Abort

NextK ==
  \/ Create \/ Destroy \/ Clear \/ Rewind \/ ReadEntry \/ ReadAborts
  \/ CompactBegin \/ CompactCopy \/ CompactSkip \/ CompactFails \/ CompactEnd \/ CompactAborts
  \/ \E name \in Names : WriteEntry(name) \/ WriteFails(name)
  \/ There(kla) /\ \E off \in DOMAIN kla.ents : MarkEntryDead(off)

SpecK == InitK /\ [][NextK]_kvars

-----------------------------------------------------------------------------
(* Properties *)

\* From the first entry, which is at 0, next_off leads to the next one or to the end, and
\* no entry is in between; each has the bytes of its whole key.
ChainedArena(a) ==
  /\ a.buf_len <= a.buf_size /\ a.buf_len % 4 = 0
  /\ Cardinality(DOMAIN a.ents) = a.entrycnt
  /\ a.buf_len # 0 <=> a.entrycnt # 0
  /\ a.buf_len # 0 => 0 \in DOMAIN a.ents /\ a.ents[0].id = 0
  /\ \A o \in DOMAIN a.ents :
       LET e == a.ents[o] IN
       /\ e.next_off = o + EntLen(NameLen[e.name])
       /\ \/ e.next_off \in DOMAIN a.ents /\ a.ents[e.next_off].id = e.id + 1
          \/ e.next_off = a.buf_len /\ e.id + 1 = a.entrycnt

\* An entry passes the assertions of a read if, and only if, name_len can hold its length.
ReadsIfNameFits(a) == \A o \in DOMAIN a.ents : Gets(a, o) <=> NameLen[a.ents[o].name] < NameLenMod

\* Entries follow one another without a gap from 0 to buf_len, inside the buffer, with
\* their numbers in order, and an iterator stands between two of them: no read of an
\* entry fails an assertion, in a compaction neither, but of one whose key has 2^16
\* bytes or more, and of that one every read does. A compaction copies no such key.
KeysChained ==
  /\ There(kla) => ChainedArena(kla) /\ ReadsIfNameFits(kla)
  /\ There(new_kla) =>
       /\ ChainedArena(new_kla) /\ new_kla.base # kla.base
       /\ \A o \in DOMAIN new_kla.ents : Gets(new_kla, o)
       /\ off_cur \in DOMAIN kla.ents \cup {kla.buf_len}
  /\ kit # NULL => There(kla) /\ kit \in DOMAIN kla.ents \cup {kla.buf_len}

\* The entries, in the order in which a loop over next_off meets them, and what a reader
\* sees of each: as much of its key as name_len says.
Entries(a) ==
  LET follow == [o \in DOMAIN a.ents |-> a.ents[o].next_off]
      at[n \in 0..a.entrycnt] == IF n = 0 THEN 0 ELSE follow[at[n - 1]]
      key(e) == [name |-> e.name, name_len |-> e.name_len, flags |-> e.flags]
  IN  [n \in 1..a.entrycnt |-> key(a.ents[at[n - 1]])]

Key(name) == [name |-> name, name_len |-> NameLen[name] % NameLenMod, flags |-> "INUSE"]

InUse == {Key(name) : name \in Names}

\* A call appends one key, marks one dead, clears the arena or leaves the keys and
\* their order alone, however often the buffer grows and moves.
KeysKept ==
  [][There(kla) /\ There(kla)' /\ ~There(new_kla) =>
       \/ Entries(kla') \in {Entries(kla), <<>>}
       \/ \E e \in InUse : Entries(kla') = Append(Entries(kla), e)
       \/ \E n \in DOMAIN Entries(kla) : Entries(kla') = [Entries(kla) EXCEPT ![n].flags = "DEAD"]]_kvars

\* What a compaction puts in the place of an arena has the keys in use, all of them, in
\* their order, and no dead one.
CompactDropsDead ==
  [][There(new_kla) /\ There(kla)' /\ kla' # kla => Entries(kla') = Selection(Entries(kla), InUse)]_kvars
=============================================================================
