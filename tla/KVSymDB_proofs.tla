--------------------------- MODULE KVSymDB_proofs ---------------------------
(***************************************************************************)
(* Proofs about KVSymDB, for every capacity, arena size, heap size and set *)
(* of keys and values, as long as uint32_t arithmetic does not wrap: the   *)
(* layout arithmetic, the inductive invariant of the database, and what    *)
(* follows from it: a failed call changes nothing but the error code, no   *)
(* call but a compaction changes or moves a record, and, as long as        *)
(* callers keep clear of the two limits of the code, every record stays    *)
(* valid and within the arena.                                             *)
(***************************************************************************)
EXTENDS KVSymDB, DataLemmas

-----------------------------------------------------------------------------
(* What the layout arithmetic guarantees as long as it does not wrap *)

\* uint32_t arithmetic is exact on numbers below its modulus.
LEMMA U32Exact ==
  ASSUME NEW n \in Nat, n < U32Mod
  PROVE  U32(n) = n
BY WidthAssumption DEF U32, WidthAssumption

\* The result of uint32_t arithmetic is a uint32_t.
LEMMA U32Range ==
  ASSUME NEW n \in Nat
  PROVE  U32(n) \in Nat /\ U32(n) < U32Mod
BY WidthAssumption DEF U32, WidthAssumption

\* align_off rounds up to the next multiple of 4, unless the sum wraps.
LEMMA AlignExact ==
  ASSUME NEW n \in Nat, n + 3 < U32Mod
  PROVE  /\ align_off(n) \in Nat
         /\ n <= align_off(n)
         /\ align_off(n) <= n + 3
         /\ align_off(n) % 4 = 0
         /\ n % 4 = 0 => align_off(n) = n
<1>1. U32(n + 3) = n + 3
  BY U32Exact
<1>2. align_off(n) = (n + 3) - ((n + 3) % 4)
  BY <1>1 DEF align_off, ALIGN_SIZE
<1> QED
  BY <1>2

\* align_off is monotone below the modulus.
LEMMA AlignMonotone ==
  ASSUME NEW m \in Nat, NEW n \in Nat, m <= n, n + 3 < U32Mod
  PROVE  align_off(m) <= align_off(n)
<1>1. /\ n + 3 \in Nat /\ m + 3 \in Nat
      /\ m + 3 < U32Mod
  BY WidthAssumption DEF WidthAssumption
<1>2. U32(n + 3) = n + 3
  BY <1>1, U32Exact
<1>3. U32(m + 3) = m + 3
  BY <1>1, U32Exact
<1>4. /\ align_off(n) = (n + 3) - ((n + 3) % 4)
      /\ align_off(m) = (m + 3) - ((m + 3) % 4)
  BY <1>2, <1>3 DEF align_off, ALIGN_SIZE
<1> QED
  BY <1>4

\* A record is its header, the name with its terminator and the data, each
\* padded to the alignment: a nonempty record never has length 0.
LEMMA EntsizeExact ==
  ASSUME NEW key, NEW val,
         key.buf_size \in Nat, val.buf_size \in Nat,
         key.buf_size + val.buf_size + 32 < U32Mod
  PROVE  /\ cstr_size_aligned(key.buf_size) = align_off(key.buf_size + 1)
         /\ blob_size_aligned(val.buf_size) = align_off(val.buf_size)
         /\ entsize_required(key, val) =
              20 + align_off(key.buf_size + 1) + align_off(val.buf_size)
         /\ entsize_required(key, val) \in Nat
         /\ entsize_required(key, val) % 4 = 0
         /\ 20 <= entsize_required(key, val)
         /\ entsize_required(key, val) <= key.buf_size + val.buf_size + 27
<1> DEFINE k == key.buf_size
           v == val.buf_size
           a == align_off(k + 1)
           b == align_off(v)
<1>1. k \in Nat /\ v \in Nat /\ k + v + 32 < U32Mod /\ k + 1 \in Nat
  OBVIOUS
<1> HIDE DEF k, v
<1>2. U32(k) = k /\ U32(v) = v /\ U32(k + 1) = k + 1
  <2>1. k < U32Mod /\ v < U32Mod /\ k + 1 < U32Mod
    BY <1>1, WidthAssumption DEF WidthAssumption
  <2> QED
    BY <2>1, <1>1, U32Exact
<1>3. cstr_size_aligned(k) = a /\ blob_size_aligned(v) = b
  BY <1>2 DEF cstr_size_aligned, blob_size_aligned
<1>4. /\ a \in Nat /\ a <= k + 4 /\ a % 4 = 0
      /\ b \in Nat /\ b <= v + 3 /\ b % 4 = 0
  <2>1. k + 1 + 3 < U32Mod /\ v + 3 < U32Mod
    BY <1>1, WidthAssumption DEF WidthAssumption
  <2> QED
    BY <2>1, <1>1, AlignExact
<1> HIDE DEF a, b
<1>5. /\ 20 + a + b \in Nat /\ 20 + a + b < U32Mod
      /\ 20 <= 20 + a + b /\ 20 + a + b <= k + v + 27
      /\ (20 + a + b) % 4 = 0
  BY <1>1, <1>4, WidthAssumption DEF WidthAssumption
<1>6. U32(20 + a + b) = 20 + a + b
  BY <1>5, U32Exact
<1>7. entsize_required(key, val) = 20 + a + b
  BY <1>3, <1>6 DEF entsize_required, RecHdrSize, k, v
<1> QED
  BY <1>3, <1>5, <1>7 DEF k, v, a, b

-----------------------------------------------------------------------------
(* Operators on one block *)

\* A block that operator new can return is smaller than the heap.
LEMMA CanAllocBounds ==
  ASSUME HeapLimit \in Nat,
         NEW entc \in Nat, NEW size \in Nat,
         entc + size + 64 < U32Mod,
         CanAlloc(entc, size)
  PROVE  entc + size <= HeapLimit
<1>1. /\ entc + 3 < U32Mod /\ size + 3 < U32Mod
  BY WidthAssumption DEF WidthAssumption
<1>2. /\ align_off(entc) \in Nat /\ entc <= align_off(entc)
      /\ align_off(entc) <= entc + 3
      /\ align_off(size) \in Nat /\ size <= align_off(size)
      /\ align_off(size) <= size + 3
  BY <1>1, AlignExact
<1> DEFINE total == DbHdrSize + align_off(size) + align_off(entc)
<1>3. total \in Nat /\ total < U32Mod /\ entc + size <= total
  BY <1>2, WidthAssumption DEF DbHdrSize, WidthAssumption
<1>4. calc_buf_size(entc, size) = total
  BY <1>3, U32Exact DEF calc_buf_size
<1> QED
  BY <1>3, <1>4 DEF CanAlloc

\* A fresh block is well formed, whatever capacity and size were asked for.
LEMMA CreatesOK ==
  ASSUME NoWrap,
         NEW d, NEW entc \in Nat, NEW arena_size \in Nat,
         entc + arena_size + 128 <= U32Mod,
         Creates(d, entc, arena_size)
  PROVE  /\ DbOK(d)
         /\ d.entrycnt = 0 /\ d.buf_len = 0
         /\ d.err_code = NOERROR
         /\ d.entrycap = Clamped(entc, INIT_ENTC)
         /\ d.buf_size = align_off(Clamped(arena_size, INIT_BUFSIZE))
<1> DEFINE cap  == Clamped(entc, INIT_ENTC)
           ask  == Clamped(arena_size, INIT_BUFSIZE)
           size == align_off(ask)
<1>1. /\ cap \in Nat /\ ask \in Nat
      /\ cap + ask + 80 < U32Mod
  BY WidthAssumption DEF Clamped, INIT_ENTC, INIT_BUFSIZE, WidthAssumption
<1>2. size \in Nat /\ size <= ask + 3 /\ size % 4 = 0
  <2>1. ask + 3 < U32Mod
    BY <1>1, WidthAssumption DEF WidthAssumption
  <2> QED
    BY <1>1, <2>1, AlignExact
<1>3. CanAlloc(cap, size) /\ d = NewDb(cap, size)
  BY DEF Creates
<1> HIDE DEF cap, ask, size
<1>4. cap + size <= HeapLimit
  <2>1. HeapLimit \in Nat /\ cap + size + 64 < U32Mod
    BY <1>1, <1>2, WidthAssumption DEF NoWrap, WidthAssumption
  <2> QED
    BY <2>1, <1>1, <1>2, <1>3, CanAllocBounds
<1>5. /\ d.entrycnt = 0 /\ d.entrycap = cap /\ d.buf_len = 0 /\ d.buf_size = size
      /\ d.err_code = NOERROR
      /\ d.state_arr = [i \in 0..(cap - 1) |-> ST_EMPTY]
      /\ DOMAIN d.arena = {}
  BY <1>3 DEF NewDb
<1>6. IsDb(d)
  BY <1>1, <1>2, <1>3, <1>5 DEF IsDb, IsBlock, DbCodes, NewDb
<1> QED
  BY <1>1, <1>2, <1>4, <1>5, <1>6
     DEF DbOK, Chained, StatesMatch, BlockOK, ALIGN_SIZE, cap, size, ask

\* The block the model keeps while there is none is well formed.
LEMMA NoDbOK ==
  ASSUME NoWrap
  PROVE  DbOK(NoDb)
<1>1. IsDb(NoDb)
  BY DEF NoDb, NewDb, IsDb, IsBlock, DbCodes
<1> QED
  BY <1>1 DEF NoDb, NewDb, NoWrap, DbOK, Chained, StatesMatch, BlockOK, ALIGN_SIZE

\* A block keeps its form when only its state array, its capacities and its
\* error code change, and they still fit the records.
LEMMA SameRecordsOK ==
  ASSUME NEW d, DbOK(d),
         NEW e, IsBlock(e),
         e.entrycnt = d.entrycnt, e.buf_len = d.buf_len, e.arena = d.arena,
         e.err_code \in DbCodes,
         e.entrycap \in Nat, d.entrycnt <= e.entrycap,
         e.buf_size \in Nat, e.buf_size % 4 = 0,
         e.entrycap + e.buf_size <= HeapLimit,
         e.state_arr \in [0..(e.entrycap - 1) -> {ST_EMPTY, ST_ALIVE, ST_DEAD}],
         \A id \in 0..(e.entrycap - 1) :
           e.state_arr[id] = ST_EMPTY <=> id >= d.entrycnt
  PROVE  DbOK(e)
<1>1. IsDb(e)
  BY DEF DbOK, IsDb
<1>2. Chained(e)
  BY DEF DbOK, Chained
<1>3. StatesMatch(e) /\ BlockOK(e)
  BY DEF DbOK, StatesMatch, BlockOK, ALIGN_SIZE
<1> QED
  BY <1>1, <1>2, <1>3 DEF DbOK

\* Setting the error code leaves a block well formed.
LEMMA ErrCodeOK ==
  ASSUME NEW d, DbOK(d),
         NEW code \in DbCodes,
         NEW e, e = WithError(d, code)
  PROVE  /\ DbOK(e)
         /\ e.entrycnt = d.entrycnt /\ e.entrycap = d.entrycap
         /\ e.buf_len = d.buf_len /\ e.buf_size = d.buf_size
         /\ e.state_arr = d.state_arr /\ e.arena = d.arena
         /\ e.err_code = code
<1>1. /\ IsBlock(e)
      /\ e.entrycnt = d.entrycnt /\ e.entrycap = d.entrycap
      /\ e.buf_len = d.buf_len /\ e.buf_size = d.buf_size
      /\ e.state_arr = d.state_arr /\ e.arena = d.arena
      /\ e.err_code = code
  BY DEF DbOK, IsDb, IsBlock, WithError
<1>2. /\ d.entrycap \in Nat /\ d.entrycnt <= d.entrycap
      /\ d.buf_size \in Nat /\ d.buf_size % 4 = 0
      /\ d.entrycap + d.buf_size <= HeapLimit
      /\ d.state_arr \in [0..(d.entrycap - 1) -> {ST_EMPTY, ST_ALIVE, ST_DEAD}]
      /\ \A id \in 0..(d.entrycap - 1) :
           d.state_arr[id] = ST_EMPTY <=> id >= d.entrycnt
  BY DEF DbOK, IsDb, StatesMatch, BlockOK, ALIGN_SIZE
<1>3. DbOK(e)
  BY <1>1, <1>2, SameRecordsOK
<1> QED
  BY <1>1, <1>3

\* Setting the error code changes no other field, of a block that was overrun too.
LEMMA CodeOnly ==
  ASSUME NEW d, IsDb(d), NEW code \in DbCodes, NEW e, e = WithError(d, code)
  PROVE  /\ IsDb(e)
         /\ e.arena = d.arena /\ e.buf_len = d.buf_len /\ e.buf_size = d.buf_size
         /\ e.entrycnt = d.entrycnt /\ e.state_arr = d.state_arr
         /\ e.err_code = code
         /\ Intact(e) <=> Intact(d)
<1>1. /\ IsBlock(e)
      /\ e.entrycnt = d.entrycnt /\ e.entrycap = d.entrycap
      /\ e.buf_len = d.buf_len /\ e.buf_size = d.buf_size
      /\ e.state_arr = d.state_arr /\ e.arena = d.arena
      /\ e.err_code = code
  BY DEF IsDb, IsBlock, WithError
<1> QED
  BY <1>1 DEF IsDb, Intact

\* Copying buf_len bytes copies every record.
LEMMA CopyPrefixAll ==
  ASSUME NEW d, DbOK(d)
  PROVE  CopyPrefix(d.arena, d.buf_len) = d.arena
<1>1. {p \in DOMAIN d.arena : EndOf(d.arena, p) <= d.buf_len} = DOMAIN d.arena
  BY DEF DbOK, Chained
<1>2. d.arena = [off \in DOMAIN d.arena |-> d.arena[off]]
  BY DEF DbOK, IsDb
<1> QED
  BY <1>1, <1>2 DEF CopyPrefix

\* A reallocation keeps the records and their states.
LEMMA ResizeOK ==
  ASSUME NEW d, DbOK(d),
         NEW entc \in Nat, NEW size \in Nat,
         d.entrycnt <= entc, entc + size <= HeapLimit, size % 4 = 0,
         NEW e, e = Resize(d, entc, size)
  PROVE  /\ DbOK(e)
         /\ e.entrycnt = d.entrycnt /\ e.entrycap = entc
         /\ e.buf_len = d.buf_len /\ e.buf_size = size
         /\ e.err_code = d.err_code
         /\ e.arena = d.arena
         /\ \A id \in 0..(d.entrycnt - 1) : e.state_arr[id] = d.state_arr[id]
<1> DEFINE states == [i \in 0..(entc - 1) |->
                        IF i < d.entrycnt THEN d.state_arr[i] ELSE ST_EMPTY]
<1>1. CopyPrefix(d.arena, d.buf_len) = d.arena
  BY CopyPrefixAll
<1>2. /\ IsBlock(e)
      /\ e.entrycnt = d.entrycnt /\ e.entrycap = entc
      /\ e.buf_len = d.buf_len /\ e.buf_size = size
      /\ e.err_code = d.err_code
      /\ e.arena = d.arena
      /\ e.state_arr = states
  BY <1>1 DEF DbOK, IsDb, IsBlock, Resize
<1>3. /\ d.entrycnt \in Nat /\ d.entrycap \in Nat /\ d.entrycnt <= d.entrycap
      /\ d.err_code \in DbCodes
      /\ d.state_arr \in [0..(d.entrycap - 1) -> {ST_EMPTY, ST_ALIVE, ST_DEAD}]
      /\ \A id \in 0..(d.entrycap - 1) :
           d.state_arr[id] = ST_EMPTY <=> id >= d.entrycnt
  BY DEF DbOK, IsDb, StatesMatch
<1>4. ASSUME NEW id \in 0..(entc - 1)
      PROVE  /\ id < d.entrycnt => /\ states[id] = d.state_arr[id]
                                   /\ d.state_arr[id] \in {ST_ALIVE, ST_DEAD}
             /\ id >= d.entrycnt => states[id] = ST_EMPTY
  BY <1>3
<1>5. /\ states \in [0..(entc - 1) -> {ST_EMPTY, ST_ALIVE, ST_DEAD}]
      /\ \A id \in 0..(entc - 1) : states[id] = ST_EMPTY <=> id >= d.entrycnt
      /\ \A id \in 0..(d.entrycnt - 1) : states[id] = d.state_arr[id]
  <2>1. \A id \in 0..(entc - 1) : id < d.entrycnt \/ id >= d.entrycnt
    BY <1>3
  <2>2. ST_EMPTY \notin {ST_ALIVE, ST_DEAD}
    BY DEF ST_EMPTY, ST_ALIVE, ST_DEAD
  <2>3. ASSUME NEW id \in 0..(entc - 1)
        PROVE  /\ states[id] \in {ST_EMPTY, ST_ALIVE, ST_DEAD}
               /\ states[id] = ST_EMPTY <=> id >= d.entrycnt
    BY <1>3, <1>4, <2>1, <2>2
  <2>4. 0..(d.entrycnt - 1) \subseteq 0..(entc - 1)
    BY <1>3
  <2> QED
    BY <1>3, <1>4, <2>3, <2>4
<1> HIDE DEF states
<1>6. DbOK(e)
  BY <1>2, <1>3, <1>5, SameRecordsOK
<1> QED
  BY <1>2, <1>5, <1>6

\* Marking a record dead leaves a block well formed.
LEMMA MarkDeadOK ==
  ASSUME NEW d, DbOK(d),
         NEW off \in DOMAIN d.arena,
         NEW e, e = Buried(d, off)
  PROVE  DbOK(e) /\ e.err_code = NOERROR
<1> DEFINE id     == d.arena[off].id
           states == [d.state_arr EXCEPT ![id] = ST_DEAD]
<1>1. /\ IsBlock(e)
      /\ e.entrycnt = d.entrycnt /\ e.entrycap = d.entrycap
      /\ e.buf_len = d.buf_len /\ e.buf_size = d.buf_size
      /\ e.err_code = NOERROR
      /\ e.arena = d.arena
      /\ e.state_arr = states
  BY DEF DbOK, IsDb, IsBlock, Buried
<1>2. /\ id \in Nat /\ id < d.entrycnt
      /\ d.entrycnt \in Nat /\ d.entrycap \in Nat /\ d.entrycnt <= d.entrycap
      /\ d.state_arr \in [0..(d.entrycap - 1) -> {ST_EMPTY, ST_ALIVE, ST_DEAD}]
      /\ \A i \in 0..(d.entrycap - 1) :
           d.state_arr[i] = ST_EMPTY <=> i >= d.entrycnt
  BY DEF DbOK, IsDb, IsRecord, Chained, StatesMatch
<1> HIDE DEF id
<1>3. /\ states \in [0..(d.entrycap - 1) -> {ST_EMPTY, ST_ALIVE, ST_DEAD}]
      /\ \A i \in 0..(d.entrycap - 1) : states[i] = ST_EMPTY <=> i >= d.entrycnt
  BY <1>2 DEF ST_EMPTY, ST_ALIVE, ST_DEAD
<1> HIDE DEF states
<1>4. /\ NOERROR \in DbCodes
      /\ d.buf_size \in Nat /\ d.buf_size % 4 = 0
      /\ d.entrycap + d.buf_size <= HeapLimit
  BY DEF DbCodes, DbOK, IsDb, BlockOK, ALIGN_SIZE
<1>5. DbOK(e)
  BY <1>1, <1>2, <1>3, <1>4, SameRecordsOK
<1> QED
  BY <1>1, <1>5

\* The header kvsymdb_insert writes is that of a well-formed record.
LEMMA RecordFacts ==
  ASSUME NoWrap,
         NEW id \in Nat, NEW key, NEW val,
         key.buf_size \in Nat, val.buf_size \in Nat,
         NoWrapOn(key.buf_size, val.buf_size),
         NEW ent, ent = Record(id, key, val)
  PROVE  /\ IsRecord(ent) /\ RecordOK(ent)
         /\ ent.id = id
         /\ ent.record_len = entsize_required(key, val)
         /\ 20 <= ent.record_len /\ ent.record_len % 4 = 0
         /\ ent.record_len <= key.buf_size + val.buf_size + 27
<1> DEFINE k == key.buf_size
           v == val.buf_size
           n == k % NameLenMod
<1>1. /\ ent.id = id /\ ent.name_len = n /\ ent.data_len = U32(v)
      /\ ent.record_len = entsize_required(key, val)
      /\ ent.val_off = cstr_size_aligned(k)
  BY DEF Record
<1>2. /\ k \in Nat /\ v \in Nat /\ HeapLimit \in Nat /\ U32Mod \in Nat
      /\ k + v + 3 * HeapLimit + 128 <= U32Mod
  BY WidthAssumption DEF NoWrapOn, NoWrap, WidthAssumption
<1>3. n \in Nat /\ n <= k
  BY <1>2, WidthAssumption DEF WidthAssumption
<1>4. /\ cstr_size_aligned(k) = align_off(k + 1)
      /\ entsize_required(key, val) = 20 + align_off(k + 1) + align_off(v)
      /\ entsize_required(key, val) \in Nat
      /\ entsize_required(key, val) % 4 = 0
      /\ 20 <= entsize_required(key, val)
      /\ entsize_required(key, val) <= k + v + 27
  <2>1. k + v + 32 < U32Mod
    BY <1>2
  <2> QED
    BY <2>1, EntsizeExact
<1> HIDE DEF k, v, n
<1>5. U32(v) = v
  BY <1>2, U32Exact
<1>6. /\ k + 1 \in Nat /\ k + 1 + 3 < U32Mod
      /\ n + 1 \in Nat /\ n + 1 <= k + 1
  BY <1>2, <1>3
<1>7. /\ align_off(k + 1) \in Nat /\ align_off(k + 1) % 4 = 0
      /\ align_off(n + 1) <= align_off(k + 1)
  BY <1>6, AlignExact, AlignMonotone
<1>8. IsRecord(ent)
  BY <1>1, <1>2, <1>3, <1>4, <1>5, <1>7 DEF IsRecord
<1>9. NoWrapOn(ent.name_len, ent.data_len)
  BY <1>1, <1>2, <1>3, <1>5 DEF NoWrapOn
<1>10. RecordOK(ent)
  BY <1>1, <1>4, <1>5, <1>7, <1>9 DEF RecordOK, ALIGN_SIZE, RecHdrSize
<1> QED
  BY <1>1, <1>4, <1>8, <1>10 DEF k, v

\* A record is added behind the others, and moves none of them.
LEMMA AppendOK ==
  ASSUME NoWrap,
         NEW d, DbOK(d), d.entrycnt < d.entrycap, d.buf_len <= d.buf_size,
         NEW key, NEW val,
         key.buf_size \in Nat, val.buf_size \in Nat,
         NoWrapOn(key.buf_size, val.buf_size),
         NEW e, e = AppendRecord(d, key, val)
  PROVE  /\ DbOK(e)
         /\ e.entrycnt = d.entrycnt + 1 /\ e.entrycap = d.entrycap
         /\ e.buf_len = d.buf_len + entsize_required(key, val)
         /\ e.buf_size = d.buf_size
         /\ e.err_code = NOERROR
         /\ DOMAIN e.arena = DOMAIN d.arena \cup {d.buf_len}
         /\ d.buf_len \notin DOMAIN d.arena
         /\ e.arena[d.buf_len] = Record(d.entrycnt, key, val)
         /\ \A off \in DOMAIN d.arena : e.arena[off] = d.arena[off]
         /\ e.state_arr = [d.state_arr EXCEPT ![d.entrycnt] = ST_ALIVE]
<1> DEFINE ent    == Record(d.entrycnt, key, val)
           len    == ent.record_len
           states == [d.state_arr EXCEPT ![d.entrycnt] = ST_ALIVE]
<1>1. /\ d.entrycnt \in Nat /\ d.entrycap \in Nat
      /\ d.buf_len \in Nat /\ d.buf_size \in Nat
      /\ DOMAIN d.arena \subseteq Nat
      /\ d.entrycap + d.buf_size <= HeapLimit
      /\ d.buf_size % 4 = 0 /\ d.buf_len % 4 = 0
      /\ HeapLimit \in Nat
  BY DEF DbOK, IsDb, BlockOK, ALIGN_SIZE, NoWrap
<1>2. /\ IsRecord(ent) /\ RecordOK(ent)
      /\ ent.id = d.entrycnt
      /\ len = entsize_required(key, val)
      /\ 20 <= len /\ len % 4 = 0
      /\ len <= key.buf_size + val.buf_size + 27
  BY <1>1, RecordFacts
<1>3. len \in Nat
  BY <1>2 DEF IsRecord
<1> HIDE DEF ent
<1>4. U32(d.buf_len + len) = d.buf_len + len
  <2>1. d.buf_len + len \in Nat /\ d.buf_len + len < U32Mod
    BY <1>1, <1>2, <1>3, WidthAssumption DEF NoWrapOn, WidthAssumption
  <2> QED
    BY <2>1, U32Exact
<1>5. /\ \A off \in DOMAIN d.arena : /\ off < EndOf(d.arena, off)
                                     /\ EndOf(d.arena, off) <= d.buf_len
                                     /\ EndOf(d.arena, off) \in Nat
      /\ d.buf_len \notin DOMAIN d.arena
  <2>1. \A off \in DOMAIN d.arena : /\ off < EndOf(d.arena, off)
                                     /\ EndOf(d.arena, off) <= d.buf_len
    BY DEF DbOK, Chained
  <2>2. \A off \in DOMAIN d.arena : EndOf(d.arena, off) \in Nat
    BY <1>1, SMTT(30) DEF DbOK, IsDb, IsRecord, EndOf
  <2> QED
    BY <1>1, <2>1, <2>2
<1>6. /\ DOMAIN WriteRecord(d.arena, d.buf_len, ent) = DOMAIN d.arena \cup {d.buf_len}
      /\ WriteRecord(d.arena, d.buf_len, ent)[d.buf_len] = ent
      /\ \A off \in DOMAIN d.arena :
           WriteRecord(d.arena, d.buf_len, ent)[off] = d.arena[off]
      /\ WriteRecord(d.arena, d.buf_len, ent) =
           [off \in DOMAIN WriteRecord(d.arena, d.buf_len, ent) |->
              WriteRecord(d.arena, d.buf_len, ent)[off]]
  <2>1. {o \in DOMAIN d.arena : \/ EndOf(d.arena, o) <= d.buf_len
                                \/ d.buf_len + ent.record_len <= o} = DOMAIN d.arena
    BY <1>5
  <2> QED
    BY <2>1, <1>5 DEF WriteRecord
<1>7. /\ IsBlock(e)
      /\ e.entrycnt = d.entrycnt + 1 /\ e.entrycap = d.entrycap
      /\ e.buf_len = d.buf_len + len /\ e.buf_size = d.buf_size
      /\ e.err_code = NOERROR
      /\ e.arena = WriteRecord(d.arena, d.buf_len, ent)
      /\ e.state_arr = states
  BY <1>4 DEF AppendRecord, DbOK, IsDb, IsBlock, ent
<1>8. /\ DOMAIN e.arena = DOMAIN d.arena \cup {d.buf_len}
      /\ e.arena[d.buf_len] = ent
      /\ \A off \in DOMAIN d.arena : e.arena[off] = d.arena[off]
      /\ e.arena = [off \in DOMAIN e.arena |-> e.arena[off]]
  BY <1>6, <1>7
<1>9. IsDb(e) /\ StatesMatch(e)
  <2>1. /\ d.state_arr \in [0..(d.entrycap - 1) -> {ST_EMPTY, ST_ALIVE, ST_DEAD}]
        /\ \A i \in 0..(d.entrycap - 1) :
             d.state_arr[i] = ST_EMPTY <=> i >= d.entrycnt
    BY DEF DbOK, IsDb, StatesMatch
  <2>2. /\ states \in [0..(d.entrycap - 1) -> {ST_EMPTY, ST_ALIVE, ST_DEAD}]
        /\ \A i \in 0..(d.entrycap - 1) :
             states[i] = ST_EMPTY <=> i >= d.entrycnt + 1
    BY <1>1, <2>1, SMTT(30) DEF ST_EMPTY, ST_ALIVE, ST_DEAD
  <2>3. \A off \in DOMAIN e.arena : IsRecord(e.arena[off])
    BY <1>2, <1>8 DEF DbOK, IsDb
  <2>4. DOMAIN e.arena \subseteq Nat
    BY <1>1, <1>8
  <2> HIDE DEF states
  <2>5. IsDb(e)
    <3>1. /\ e.entrycnt \in Nat /\ e.entrycap \in Nat
          /\ e.buf_len \in Nat /\ e.buf_size \in Nat
      BY <1>1, <1>3, <1>7
    <3>2. e.state_arr \in [0..(e.entrycap - 1) -> {ST_EMPTY, ST_ALIVE, ST_DEAD}]
      BY <1>7, <2>2
    <3>3. e.err_code \in DbCodes
      BY <1>7 DEF DbCodes
    <3> QED
      BY <1>7, <1>8, <2>3, <2>4, <3>1, <3>2, <3>3 DEF IsDb
  <2> QED
    BY <1>1, <1>7, <2>2, <2>5 DEF StatesMatch
<1>10. Chained(e)
  <2>1. /\ d.entrycnt = 0 => d.buf_len = 0 /\ DOMAIN d.arena = {}
        /\ d.entrycnt > 0 => 0 \in DOMAIN d.arena /\ d.arena[0].id = 0
        /\ \A off \in DOMAIN d.arena :
             /\ off % 4 = 0
             /\ d.arena[off].id \in Nat
             /\ d.arena[off].id < d.entrycnt
             /\ d.arena[off].id + 1 = d.entrycnt => EndOf(d.arena, off) = d.buf_len
             /\ d.arena[off].id + 1 # d.entrycnt =>
                  /\ EndOf(d.arena, off) \in DOMAIN d.arena
                  /\ d.arena[EndOf(d.arena, off)].id = d.arena[off].id + 1
        /\ \A o, p \in DOMAIN d.arena :
             o < p => EndOf(d.arena, o) <= p /\ d.arena[o].id < d.arena[p].id
    BY DEF DbOK, IsDb, IsRecord, Chained, ALIGN_SIZE
  <2>2. 0 \in DOMAIN e.arena /\ e.arena[0].id = 0
    BY <1>1, <1>2, <1>8, <2>1
  <2>3. ASSUME NEW off \in DOMAIN d.arena
        PROVE  /\ EndOf(e.arena, off) = EndOf(d.arena, off)
               /\ EndOf(e.arena, off) <= e.buf_len
               /\ EndOf(e.arena, off) \in DOMAIN e.arena
               /\ e.arena[EndOf(e.arena, off)].id = e.arena[off].id + 1
               /\ e.arena[off].id + 1 # e.entrycnt
    <3>1. EndOf(e.arena, off) = EndOf(d.arena, off)
      BY <1>8 DEF EndOf
    <3>2. EndOf(e.arena, off) <= e.buf_len
      BY <3>1, <1>1, <1>3, <1>5, <1>7
    <3>3. e.arena[off].id + 1 # e.entrycnt
      BY <1>1, <1>7, <1>8, <2>1
    <3>4. CASE d.arena[off].id + 1 = d.entrycnt
      BY <3>1, <3>2, <3>3, <3>4, <1>2, <1>8, <2>1
    <3>5. CASE d.arena[off].id + 1 # d.entrycnt
      BY <3>1, <3>2, <3>3, <3>5, <1>8, <2>1
    <3> QED
      BY <3>4, <3>5
  <2>4. /\ EndOf(e.arena, d.buf_len) = e.buf_len
        /\ d.buf_len < e.buf_len
        /\ e.arena[d.buf_len].id + 1 = e.entrycnt
        /\ e.arena[d.buf_len].id < e.entrycnt
    BY <1>1, <1>2, <1>3, <1>7, <1>8 DEF EndOf
  <2>5. \A off \in DOMAIN e.arena :
          LET end == EndOf(e.arena, off)
              id  == e.arena[off].id
          IN
          /\ off % ALIGN_SIZE = 0
          /\ off < end /\ end <= e.buf_len
          /\ id < e.entrycnt
          /\ IF id + 1 = e.entrycnt
             THEN end = e.buf_len
             ELSE end \in DOMAIN e.arena /\ e.arena[end].id = id + 1
    <3> TAKE off \in DOMAIN e.arena
    <3>1. CASE off = d.buf_len
      BY <3>1, <1>1, <1>3, <1>7, <2>4 DEF ALIGN_SIZE
    <3>2. CASE off \in DOMAIN d.arena
      BY <3>2, <1>1, <1>5, <1>7, <1>8, <2>1, <2>3 DEF ALIGN_SIZE
    <3> QED
      BY <3>1, <3>2, <1>8
  <2>6. ASSUME NEW o \in DOMAIN e.arena, NEW p \in DOMAIN e.arena, o < p
        PROVE  EndOf(e.arena, o) <= p /\ e.arena[o].id < e.arena[p].id
    <3>1. o \in DOMAIN d.arena
      BY <1>1, <1>5, <1>8, <2>6
    <3>2. CASE p = d.buf_len
      BY <1>2, <1>5, <1>8, <2>1, <2>3, <3>1, <3>2
    <3>3. CASE p \in DOMAIN d.arena
      BY <1>8, <2>1, <2>3, <2>6, <3>1, <3>3
    <3> QED
      BY <1>8, <3>2, <3>3
  <2>7. e.entrycnt # 0
    BY <1>1, <1>7
  <2> QED
    BY <2>2, <2>5, <2>6, <2>7 DEF Chained
<1>11. BlockOK(e)
  BY <1>1, <1>2, <1>3, <1>7 DEF BlockOK, ALIGN_SIZE
<1>12. \A off \in DOMAIN e.arena : RecordOK(e.arena[off])
  BY <1>2, <1>8 DEF DbOK
<1>13. DbOK(e)
  BY <1>9, <1>10, <1>11, <1>12 DEF DbOK
<1> QED
  BY <1>2, <1>5, <1>7, <1>8, <1>13 DEF ent

\* A record that does not fit is written over the states: the records before it, and
\* the types, are what they were.
LEMMA OverrunOK ==
  ASSUME NoWrap,
         NEW d, DbOK(d), d.entrycnt < d.entrycap, d.buf_len <= d.buf_size,
         NEW key, NEW val,
         key.buf_size \in Nat, val.buf_size \in Nat,
         NoWrapOn(key.buf_size, val.buf_size),
         ~HasRoom(d, entsize_required(key, val)),
         NEW e, OverrunRecord(d, e, key, val)
  PROVE  /\ IsDb(e) /\ ~Intact(e)
         /\ e.entrycnt = d.entrycnt + 1 /\ e.entrycap = d.entrycap
         /\ e.buf_len = d.buf_len + entsize_required(key, val)
         /\ e.buf_size = d.buf_size
         /\ e.err_code = NOERROR
         /\ e.arena = d.arena
<1> DEFINE n       == entsize_required(key, val)
           covered == {id \in DOMAIN d.state_arr : d.buf_size + id < d.buf_len + n}
<1>1. /\ d.entrycnt \in Nat /\ d.entrycap \in Nat
      /\ d.buf_len \in Nat /\ d.buf_size \in Nat
      /\ d.entrycap + d.buf_size <= HeapLimit /\ HeapLimit \in Nat
      /\ key.buf_size + val.buf_size + 3 * HeapLimit + 128 <= U32Mod
      /\ U32Mod \in Nat
  BY WidthAssumption DEF DbOK, IsDb, BlockOK, NoWrap, NoWrapOn, WidthAssumption
<1>0. d.state_arr \in [0..(d.entrycap - 1) -> {ST_EMPTY, ST_ALIVE, ST_DEAD}]
  BY DEF DbOK, IsDb
<1>2. n \in Nat /\ n <= key.buf_size + val.buf_size + 27
  <2>1. key.buf_size + val.buf_size + 32 < U32Mod
    BY <1>1
  <2> QED
    BY <2>1, EntsizeExact
<1>3. U32(d.buf_len + n) = d.buf_len + n
  <2>1. d.buf_len + n \in Nat /\ d.buf_len + n < U32Mod
    BY <1>1, <1>2
  <2> QED
    BY <2>1, U32Exact
<1>4. PICK bytes \in [covered -> {ST_EMPTY, ST_ALIVE, ST_DEAD}] :
        e = [d EXCEPT !.err_code  = NOERROR,
                      !.buf_len   = U32(d.buf_len + n),
                      !.state_arr = [[id \in DOMAIN d.state_arr |->
                                        IF id \in covered THEN bytes[id] ELSE d.state_arr[id]]
                                     EXCEPT ![d.entrycnt] = ST_ALIVE],
                      !.entrycnt  = d.entrycnt + 1]
  BY Zenon DEF OverrunRecord
<1> DEFINE over   == [id \in DOMAIN d.state_arr |->
                        IF id \in covered THEN bytes[id] ELSE d.state_arr[id]]
           states == [over EXCEPT ![d.entrycnt] = ST_ALIVE]
<1>5. states \in [0..(d.entrycap - 1) -> {ST_EMPTY, ST_ALIVE, ST_DEAD}]
  <2>1. over \in [0..(d.entrycap - 1) -> {ST_EMPTY, ST_ALIVE, ST_DEAD}]
    BY <1>0
  <2> HIDE DEF over
  <2> QED
    BY <2>1
<1> HIDE DEF covered, over, n
<1>6. /\ IsBlock(e)
      /\ e.entrycnt = d.entrycnt + 1 /\ e.entrycap = d.entrycap
      /\ e.buf_len = d.buf_len + n /\ e.buf_size = d.buf_size
      /\ e.err_code = NOERROR
      /\ e.arena = d.arena
      /\ e.state_arr = states
  <2>1. IsBlock(d)
    BY DEF DbOK, IsDb
  <2> QED
    BY <2>1, <1>3, <1>4 DEF IsBlock, over
<1> HIDE DEF states
<1>7. IsDb(e)
  <2>1. /\ e.entrycnt \in Nat /\ e.buf_len \in Nat
        /\ e.err_code \in DbCodes
    BY <1>1, <1>2, <1>6 DEF DbCodes
  <2>2. /\ DOMAIN d.arena \subseteq Nat
        /\ d.arena = [off \in DOMAIN d.arena |-> d.arena[off]]
        /\ \A off \in DOMAIN d.arena : IsRecord(d.arena[off])
    BY DEF DbOK, IsDb
  <2> QED
    BY <1>1, <1>5, <1>6, <2>1, <2>2 DEF IsDb
<1>8. ~Intact(e)
  BY <1>6 DEF Intact, HasRoom, n
<1> QED
  BY <1>6, <1>7, <1>8 DEF n

\* A block that is intact after a record was written has room for it.
LEMMA AppendsOK ==
  ASSUME NoWrap,
         NEW d, DbOK(d), d.entrycnt < d.entrycap, d.buf_len <= d.buf_size,
         NEW key, NEW val,
         key.buf_size \in Nat, val.buf_size \in Nat,
         NoWrapOn(key.buf_size, val.buf_size),
         NEW e, Appends(d, e, key, val)
  PROVE  /\ IsDb(e)
         /\ e.entrycnt = d.entrycnt + 1 /\ e.entrycap = d.entrycap
         /\ e.buf_len = d.buf_len + entsize_required(key, val)
         /\ e.buf_size = d.buf_size
         /\ e.err_code = NOERROR
         /\ \A off \in DOMAIN d.arena : /\ off \in DOMAIN e.arena
                                        /\ e.arena[off] = d.arena[off]
         /\ Intact(e) => e = AppendRecord(d, key, val)
<1>1. CASE HasRoom(d, entsize_required(key, val))
  <2>1. e = AppendRecord(d, key, val)
    BY <1>1 DEF Appends
  <2>2. /\ DbOK(e)
        /\ e.entrycnt = d.entrycnt + 1 /\ e.entrycap = d.entrycap
        /\ e.buf_len = d.buf_len + entsize_required(key, val)
        /\ e.buf_size = d.buf_size
        /\ e.err_code = NOERROR
        /\ DOMAIN e.arena = DOMAIN d.arena \cup {d.buf_len}
        /\ e.arena[d.buf_len] = Record(d.entrycnt, key, val)
        /\ \A off \in DOMAIN d.arena : e.arena[off] = d.arena[off]
        /\ e.state_arr = [d.state_arr EXCEPT ![d.entrycnt] = ST_ALIVE]
    BY <2>1, AppendOK
  <2> QED
    BY <2>1, <2>2 DEF DbOK
<1>2. CASE ~HasRoom(d, entsize_required(key, val))
  <2>1. OverrunRecord(d, e, key, val)
    BY <1>2 DEF Appends
  <2> QED
    BY <1>2, <2>1, OverrunOK
<1> QED
  BY <1>1, <1>2

\* The block that kvsymdb_insert writes to: d, or a larger one with what d holds.
IsBlockFor(d, g) ==
  /\ DbOK(g) /\ g.entrycnt < g.entrycap /\ g.buf_len <= g.buf_size
  /\ g.entrycnt = d.entrycnt /\ g.buf_len = d.buf_len
  /\ g.entrycap = d.entrycap /\ g.arena = d.arena
  /\ \A id \in 0..(d.entrycnt - 1) : g.state_arr[id] = d.state_arr[id]

\* kvsymdb_insert, in place or after a reallocation, leaves the types and the records
\* as they are.
LEMMA InsertShape ==
  ASSUME NoWrap,
         NEW d, DbOK(d),
         NEW key, NEW val,
         key.buf_size \in Nat, val.buf_size \in Nat,
         NoWrapOn(key.buf_size, val.buf_size),
         NEW e, InsertReturns(d, e, key, val)
  PROVE  /\ IsDb(e)
         /\ e.entrycnt = d.entrycnt + 1 /\ e.entrycap = d.entrycap
         /\ e.buf_len = d.buf_len + entsize_required(key, val)
         /\ e.buf_size = IF NeedsGrowth(d, entsize_required(key, val))
                         THEN GrownSize(d, entsize_required(key, val))
                         ELSE d.buf_size
         /\ e.err_code = NOERROR
         /\ \A off \in DOMAIN d.arena : /\ off \in DOMAIN e.arena
                                        /\ e.arena[off] = d.arena[off]
         /\ Intact(e) =>
              \E g : IsBlockFor(d, g) /\ e = AppendRecord(g, key, val)

<1> DEFINE n    == entsize_required(key, val)
           size == GrownSize(d, n)
           k    == key.buf_size
           v    == val.buf_size
<1>1. /\ k \in Nat /\ v \in Nat
      /\ d.entrycnt \in Nat /\ d.entrycap \in Nat
      /\ d.buf_len \in Nat /\ d.buf_size \in Nat
      /\ d.entrycnt <= d.entrycap
      /\ d.entrycap + d.buf_size <= HeapLimit
      /\ HeapLimit \in Nat
      /\ U32Mod \in Nat
      /\ k + v + 3 * HeapLimit + 128 <= U32Mod
  BY WidthAssumption
     DEF DbOK, IsDb, StatesMatch, BlockOK, NoWrap, NoWrapOn, WidthAssumption
<1>0. d.state_arr \in [0..(d.entrycap - 1) -> {ST_EMPTY, ST_ALIVE, ST_DEAD}]
  BY DEF DbOK, IsDb
<1>2. /\ d.entrycnt < d.entrycap
      /\ d.buf_len <= d.buf_size
  BY <1>1 DEF InsertReturns, InsertAccepts, assert_intrnl_state
<1>3. /\ n \in Nat /\ n <= k + v + 27
  <2>1. k + v + 32 < U32Mod
    BY <1>1
  <2> QED
    BY <2>1, EntsizeExact
<1> HIDE DEF k, v
<1>4. CASE ~NeedsGrowth(d, n)
  <2>1. Appends(d, e, key, val)
    BY <1>4 DEF InsertReturns
  <2>2. IsBlockFor(d, d)
    BY <1>2 DEF IsBlockFor
  <2> QED
    BY <1>4, <2>1, <2>2, <1>2, AppendsOK
<1>5. CASE NeedsGrowth(d, n)
  <2>0. PICK g : g = Resize(d, d.entrycap, size)
    OBVIOUS
  <2>1. /\ CanAlloc(d.entrycap, size)
        /\ Appends(g, e, key, val)
        /\ size >= d.buf_len
    BY <1>5, <2>0 DEF InsertReturns
  <2> DEFINE ask == IF n > d.buf_size THEN n ELSE U32(d.buf_size * 2)
  <2>2. /\ ask \in Nat /\ ask <= k + v + 2 * HeapLimit + 27
    <3>1. d.buf_size * 2 \in Nat /\ d.buf_size * 2 < U32Mod
      BY <1>1
    <3>2. U32(d.buf_size * 2) = d.buf_size * 2
      BY <3>1, U32Exact
    <3> QED
      BY <3>1, <3>2, <1>1, <1>3
  <2>3. size = align_off(ask)
    BY DEF GrownSize
  <2> HIDE DEF ask, size, n
  <2>4. /\ size \in Nat /\ size <= ask + 3 /\ size % 4 = 0
    <3>1. ask + 3 < U32Mod
      BY <1>1, <2>2
    <3> QED
      BY <3>1, <2>2, <2>3, AlignExact
  <2>5. d.entrycap + size <= HeapLimit
    <3>1. d.entrycap <= HeapLimit
      BY <1>1
    <3>2. size + 64 <= k + v + 2 * HeapLimit + 94
      BY <1>1, <2>2, <2>4
    <3>3. d.entrycap + size + 64 < U32Mod
      BY <1>1, <2>4, <3>1, <3>2
    <3> QED
      BY <3>3, <1>1, <2>1, <2>4, CanAllocBounds
  <2>6. /\ DbOK(g)
        /\ g.entrycnt = d.entrycnt /\ g.entrycap = d.entrycap
        /\ g.buf_len = d.buf_len /\ g.buf_size = size
        /\ g.arena = d.arena
        /\ \A id \in 0..(d.entrycnt - 1) : g.state_arr[id] = d.state_arr[id]
    BY <2>0, <1>1, <2>4, <2>5, ResizeOK
  <2>7. g.buf_len <= g.buf_size
    BY <1>1, <2>1, <2>4, <2>6
  <2>8. /\ IsDb(e)
        /\ e.entrycnt = g.entrycnt + 1 /\ e.entrycap = g.entrycap
        /\ e.buf_len = g.buf_len + entsize_required(key, val)
        /\ e.buf_size = g.buf_size
        /\ e.err_code = NOERROR
        /\ \A off \in DOMAIN g.arena : /\ off \in DOMAIN e.arena
                                       /\ e.arena[off] = g.arena[off]
        /\ Intact(e) => e = AppendRecord(g, key, val)
    BY <1>2, <2>1, <2>6, <2>7, AppendsOK
  <2>9. IsBlockFor(d, g)
    BY <1>2, <2>6, <2>7 DEF IsBlockFor
  <2> QED
    BY <1>5, <2>6, <2>8, <2>9 DEF n, size
<1> QED
  BY <1>4, <1>5

\* A block that is intact after kvsymdb_insert is well formed: it is the one before,
\* with one record more.
LEMMA InsertOK ==
  ASSUME NoWrap,
         NEW d, DbOK(d),
         NEW key, NEW val,
         key.buf_size \in Nat, val.buf_size \in Nat,
         NoWrapOn(key.buf_size, val.buf_size),
         NEW e, InsertReturns(d, e, key, val), Intact(e)
  PROVE  /\ DbOK(e)
         /\ DOMAIN e.arena = DOMAIN d.arena \cup {d.buf_len}
         /\ e.arena[d.buf_len] = Record(d.entrycnt, key, val)
         /\ \A off \in DOMAIN d.arena : /\ off \in DOMAIN e.arena
                                        /\ e.arena[off] = d.arena[off]
         /\ \A id \in 0..(d.entrycnt - 1) : e.state_arr[id] = d.state_arr[id]
         /\ e.state_arr[d.entrycnt] = ST_ALIVE
<1>0. PICK g : IsBlockFor(d, g) /\ e = AppendRecord(g, key, val)
  BY InsertShape
<1>1. /\ DbOK(g) /\ g.entrycnt < g.entrycap /\ g.buf_len <= g.buf_size
      /\ g.entrycnt = d.entrycnt /\ g.buf_len = d.buf_len
      /\ g.entrycap = d.entrycap /\ g.arena = d.arena
      /\ \A id \in 0..(d.entrycnt - 1) : g.state_arr[id] = d.state_arr[id]
      /\ e = AppendRecord(g, key, val)
  BY <1>0 DEF IsBlockFor
<1>2. /\ DbOK(e)
      /\ DOMAIN e.arena = DOMAIN g.arena \cup {g.buf_len}
      /\ e.arena[g.buf_len] = Record(g.entrycnt, key, val)
      /\ \A off \in DOMAIN g.arena : e.arena[off] = g.arena[off]
      /\ e.state_arr = [g.state_arr EXCEPT ![g.entrycnt] = ST_ALIVE]
  BY <1>1, AppendOK
<1>3. /\ \A id \in 0..(d.entrycnt - 1) : e.state_arr[id] = d.state_arr[id]
      /\ e.state_arr[d.entrycnt] = ST_ALIVE
  <2>1. /\ g.state_arr \in [0..(g.entrycap - 1) -> {ST_EMPTY, ST_ALIVE, ST_DEAD}]
        /\ g.entrycnt \in Nat /\ g.entrycap \in Nat
    BY <1>1 DEF DbOK, IsDb
  <2>2. /\ g.entrycnt \notin 0..(d.entrycnt - 1)
        /\ 0..(d.entrycnt - 1) \subseteq 0..(g.entrycap - 1)
        /\ g.entrycnt \in 0..(g.entrycap - 1)
    BY <1>1, <2>1
  <2> QED
    BY <1>1, <1>2, <2>1, <2>2
<1> QED
  BY <1>1, <1>2, <1>3

-----------------------------------------------------------------------------
(* The inductive invariant *)

\* A block whose arena holds its records, and any block but one between two calls,
\* is well formed.
LEMMA IntactOK ==
  ASSUME IndInv, Intact(db) \/ assert_intrnl_state(db) \/ pc # "open"
  PROVE  DbOK(db) /\ Intact(db)
BY DEF IndInv, Intact, assert_intrnl_state

\* The next record of a compaction fits the new block, which needs no growth.
LEMMA CompactionFits ==
  ASSUME NoWrap, IndInv, pc = "compacting", it # db.buf_len
  PROVE  LET ent == db.arena[it]
             n   == entsize_required(NameView(ent), DataView(ent))
         IN
         /\ it \in DOMAIN db.arena
         /\ NameView(ent).buf_size \in Nat /\ DataView(ent).buf_size \in Nat
         /\ NoWrapOn(NameView(ent).buf_size, DataView(ent).buf_size)
         /\ n \in Nat /\ n <= ent.record_len
         /\ ndb.entrycnt < ndb.entrycap
         /\ ndb.buf_len + ent.record_len <= ndb.buf_size
         /\ ~NeedsGrowth(ndb, n)
<1> DEFINE ent == db.arena[it]
           n   == entsize_required(NameView(ent), DataView(ent))
           a   == align_off(ent.name_len + 1)
           b   == align_off(ent.data_len)
<1>1. /\ it \in DOMAIN db.arena
      /\ ndb.entrycap = db.entrycap /\ ndb.buf_size = db.buf_size
      /\ ndb.buf_len <= it
      /\ ndb.entrycnt <= ent.id
      /\ db.buf_len <= db.buf_size
  BY DEF IndInv, CompactionOK, assert_intrnl_state
<1>2. /\ IsRecord(ent) /\ RecordOK(ent)
      /\ ent.id < db.entrycnt
      /\ it + ent.record_len <= db.buf_len
  BY <1>1, IntactOK DEF DbOK, IsDb, Chained, EndOf
<1>3. /\ it \in Nat /\ ndb.entrycnt \in Nat /\ ndb.entrycap \in Nat
      /\ ndb.buf_len \in Nat /\ ndb.buf_size \in Nat
      /\ db.entrycnt \in Nat /\ db.entrycnt <= db.entrycap
      /\ db.buf_len \in Nat
      /\ ndb.entrycap + ndb.buf_size <= HeapLimit
      /\ HeapLimit \in Nat
  BY IntactOK DEF IndInv, TypeOK, IsDb, DbOK, StatesMatch, BlockOK, NoWrap
<1> HIDE DEF ent
<1>4. /\ ent.name_len \in Nat /\ ent.data_len \in Nat /\ ent.record_len \in Nat
      /\ ent.id \in Nat /\ ent.val_off \in Nat
      /\ NoWrapOn(ent.name_len, ent.data_len)
      /\ ent.name_len + ent.data_len + 3 * HeapLimit + 128 <= U32Mod
      /\ a <= ent.val_off
      /\ ent.record_len = 20 + ent.val_off + b
  BY <1>2 DEF IsRecord, RecordOK, NoWrapOn, RecHdrSize
<1>5. /\ NameView(ent).buf_size = ent.name_len
      /\ DataView(ent).buf_size = ent.data_len
  BY DEF NameView, DataView, View
<1>6. /\ n = 20 + a + b /\ n \in Nat
  <2>1. ent.name_len + ent.data_len + 32 < U32Mod
    BY <1>3, <1>4, WidthAssumption DEF WidthAssumption
  <2> QED
    BY <2>1, <1>4, <1>5, EntsizeExact
<1>7. a \in Nat /\ b \in Nat
  <2>1. /\ ent.name_len + 1 \in Nat
        /\ ent.name_len + 1 + 3 < U32Mod /\ ent.data_len + 3 < U32Mod
    BY <1>3, <1>4, WidthAssumption DEF WidthAssumption
  <2> QED
    BY <2>1, <1>4, AlignExact
<1> HIDE DEF a, b, n
<1>8. n <= ent.record_len
  BY <1>4, <1>6, <1>7
<1>9. /\ ndb.entrycnt < ndb.entrycap
      /\ ndb.buf_len + ent.record_len <= ndb.buf_size
  BY <1>1, <1>2, <1>3, <1>4
<1>10. ~NeedsGrowth(ndb, n)
  <2>1. /\ ndb.buf_len + n \in Nat /\ ndb.buf_len + n <= ndb.buf_size
        /\ ndb.buf_len + n < U32Mod
    BY <1>3, <1>4, <1>6, <1>8, <1>9, WidthAssumption DEF WidthAssumption
  <2>2. U32(ndb.buf_len + n) = ndb.buf_len + n
    BY <2>1, U32Exact
  <2> QED
    BY <2>1, <2>2, <1>3 DEF NeedsGrowth
<1> QED
  BY <1>1, <1>4, <1>5, <1>6, <1>8, <1>9, <1>10 DEF ent, n

\* One step of the walk keeps it on a record or at the end.
LEMMA WalkOn ==
  ASSUME NoWrap, IndInv, pc = "compacting", it # db.buf_len
  PROVE  LET end == EndOf(db.arena, it) IN
         /\ end \in Nat
         /\ end = db.buf_len \/ end \in DOMAIN db.arena
         /\ db.arena[it].id + 1 <=
              IF end = db.buf_len THEN db.entrycnt ELSE db.arena[end].id
<1>1. it \in DOMAIN db.arena
  BY DEF IndInv, CompactionOK
<1>2. /\ it \in Nat /\ db.entrycnt \in Nat
      /\ db.arena[it].id \in Nat /\ db.arena[it].record_len \in Nat
      /\ db.arena[it].id < db.entrycnt
  BY <1>1, IntactOK DEF IndInv, TypeOK, DbOK, IsDb, IsRecord, Chained
<1>3. IF db.arena[it].id + 1 = db.entrycnt
      THEN EndOf(db.arena, it) = db.buf_len
      ELSE /\ EndOf(db.arena, it) \in DOMAIN db.arena
           /\ db.arena[EndOf(db.arena, it)].id = db.arena[it].id + 1
  BY <1>1, IntactOK DEF DbOK, Chained
<1>4. EndOf(db.arena, it) \in Nat
  BY <1>2 DEF EndOf
<1> QED
  BY <1>2, <1>3, <1>4

\* A call outside a compaction keeps the invariant if it leaves a well-formed
\* block, or one that it has overrun, whose error code is what the call returned.
LEMMA CallOK ==
  ASSUME IndInv, pc # "compacting",
         pc' \in {"none", "open", "aborted"},
         IsDb(db'), Intact(db') => DbOK(db'), Intact(db') \/ pc' = "open",
         ndb' = ndb, it' = it,
         rc' \in DbCodes \cup {ERR_OPNEW},
         pc' = "open" => db'.err_code = rc'
  PROVE  IndInv'
<1>1. TypeOK'
  BY DEF IndInv, TypeOK, DbOK
<1>2. DbOK(ndb')
  BY DEF IndInv
<1>3. CompactionOK' /\ ErrCodeIsLastResult'
  BY DEF CompactionOK, ErrCodeIsLastResult
<1> QED
  BY <1>1, <1>2, <1>3 DEF IndInv

\* The same of a call that leaves a well-formed block between two calls.
LEMMA OpenOK ==
  ASSUME IndInv, pc # "compacting", pc' = "open",
         DbOK(db'), ndb' = ndb, it' = it,
         rc' \in DbCodes, db'.err_code = rc'
  PROVE  IndInv'
<1>1. IsDb(db')
  BY DEF DbOK
<1> QED
  BY <1>1, CallOK

\* There is no block before create_kvsymdb and after destroy_kvsymdb.
LEMMA NoDbIntact == Intact(NoDb)
BY DEF Intact, NoDb, NewDb

\* A call that only sets the error code (a refusal, a failed allocation,
\* kvsymdb_clearerr) preserves the invariant.
LEMMA OnlyErrorOK ==
  ASSUME IndInv, pc = "open", NEW code \in DbCodes, OnlyError(code)
  PROVE  IndInv'
<1>1. /\ db' = WithError(db, code) /\ rc' = code
      /\ pc' = "open" /\ ndb' = ndb /\ it' = it
  BY DEF OnlyError
<1>2. IsDb(db') /\ db'.err_code = code /\ (Intact(db') <=> Intact(db))
  BY <1>1, CodeOnly DEF IndInv, TypeOK
<1>3. Intact(db') => DbOK(db')
  BY <1>1, <1>2, ErrCodeOK DEF IndInv
<1> QED
  BY <1>1, <1>2, <1>3, CallOK

\* A failed assertion ends in a state of the invariant: nothing is left.
LEMMA AbortOK ==
  ASSUME NoWrap, IndInv, Abort
  PROVE  IndInv'
<1>1. /\ pc' = "aborted" /\ db' = NoDb /\ ndb' = NoDb /\ it' = 0
      /\ rc' = NOERROR
  BY DEF Abort
<1>2. DbOK(db') /\ DbOK(ndb')
  BY <1>1, NoDbOK
<1>3. TypeOK'
  BY <1>1, <1>2 DEF TypeOK, DbOK, DbCodes
<1>4. CompactionOK' /\ ErrCodeIsLastResult'
  BY <1>1 DEF CompactionOK, ErrCodeIsLastResult
<1>5. Intact(db')
  BY <1>1, NoDbIntact
<1> QED
  BY <1>2, <1>3, <1>4, <1>5 DEF IndInv

\* The state before the first create_kvsymdb satisfies the invariant.
LEMMA InitOK ==
  ASSUME NoWrap, Init
  PROVE  IndInv
<1>1. /\ pc = "none" /\ db = NoDb /\ ndb = NoDb /\ it = 0 /\ rc = NOERROR
  BY DEF Init
<1>2. DbOK(db) /\ DbOK(ndb)
  BY <1>1, NoDbOK
<1>3. TypeOK
  BY <1>1, <1>2 DEF TypeOK, DbOK, DbCodes
<1>4. CompactionOK /\ ErrCodeIsLastResult
  BY <1>1 DEF CompactionOK, ErrCodeIsLastResult
<1>5. Intact(db)
  BY <1>1, NoDbIntact
<1> QED
  BY <1>2, <1>3, <1>4, <1>5 DEF IndInv

\* create_kvsymdb establishes the invariant for the block it returns.
LEMMA CreateOK ==
  ASSUME NoWrap, IndInv,
         NEW entc \in EntCaps, NEW size \in ArenaSizes, Create(entc, size)
  PROVE  IndInv'
<1>1. /\ pc = "none" /\ pc' = "open" /\ ndb' = ndb /\ it' = it
      /\ rc' = NOERROR
      /\ Creates(db', entc, size)
  BY DEF Create
<1>2. /\ entc \in Nat /\ size \in Nat /\ HeapLimit \in Nat
      /\ 2 * entc + HeapLimit + 128 <= U32Mod
      /\ 2 * size + HeapLimit + 128 <= U32Mod
  BY DEF NoWrap
<1>3. entc + size + 128 <= U32Mod
  BY <1>2, WidthAssumption DEF WidthAssumption
<1>4. DbOK(db') /\ db'.err_code = NOERROR
  BY <1>1, <1>2, <1>3, CreatesOK
<1>5. NOERROR \in DbCodes
  BY DEF DbCodes
<1> QED
  BY <1>1, <1>4, <1>5, OpenOK

\* kvsymdb_insert by a caller preserves the invariant.
LEMMA InsertKeeps ==
  ASSUME NoWrap, IndInv, NEW key \in Keys, NEW val \in Vals, Insert(key, val)
  PROVE  IndInv'
<1>1. /\ pc = "open" /\ pc' = "open" /\ ndb' = ndb /\ it' = it
      /\ rc' = NOERROR
      /\ InsertReturns(db, db', key, val)
  BY DEF Insert
<1>2. /\ key.buf_size \in Nat /\ val.buf_size \in Nat
      /\ NoWrapOn(key.buf_size, val.buf_size)
  BY DEF NoWrap
<1>3. DbOK(db)
  BY <1>1, IntactOK DEF InsertReturns, InsertAccepts
<1>4. ASSUME NEW d2, InsertReturns(db, d2, key, val)
      PROVE  IsDb(d2) /\ d2.err_code = NOERROR
  BY <1>2, <1>3, <1>4, InsertShape
<1>5. ASSUME NEW d2, InsertReturns(db, d2, key, val), Intact(d2)
      PROVE  DbOK(d2)
  BY <1>2, <1>3, <1>5, InsertOK
<1>6. NOERROR \in DbCodes
  BY DEF DbCodes
<1>7. /\ IsDb(db') /\ db'.err_code = NOERROR
      /\ Intact(db') => DbOK(db')
  BY <1>1, <1>4, <1>5
<1> QED
  BY <1>1, <1>6, <1>7, CallOK

\* kvsymdb_mark_dead preserves the invariant.
LEMMA MarkDeadKeeps ==
  ASSUME NoWrap, IndInv, NEW off \in DOMAIN db.arena, MarkDead(off)
  PROVE  IndInv'
<1>1. /\ pc = "open" /\ pc' = "open" /\ ndb' = ndb /\ it' = it
      /\ rc' = NOERROR
      /\ db' = Buried(db, off)
  BY DEF MarkDead
<1>2. DbOK(db') /\ db'.err_code = NOERROR
  <2>1. DbOK(db)
    BY IntactOK DEF MarkDead
  <2> QED
    BY <1>1, <2>1, MarkDeadOK
<1>3. NOERROR \in DbCodes
  BY DEF DbCodes
<1> QED
  BY <1>1, <1>2, <1>3, OpenOK

\* A block of other capacities, with the error code cleared.
LEMMA ResizedKeeps ==
  ASSUME NoWrap, IndInv, pc = "open", assert_intrnl_state(db),
         NEW entc \in Nat, NEW size \in Nat,
         db.entrycnt <= entc, size % 4 = 0, entc + size + 64 < U32Mod,
         CanAlloc(entc, size),
         pc' = "open", ndb' = ndb, it' = it, rc' = NOERROR,
         db' = WithError(Resize(db, entc, size), NOERROR)
  PROVE  IndInv'
<1>1. entc + size <= HeapLimit
  BY CanAllocBounds DEF NoWrap
<1>2. PICK g : g = Resize(db, entc, size)
  OBVIOUS
<1>3. DbOK(g)
  <2>1. DbOK(db)
    BY IntactOK
  <2> QED
    BY <1>1, <1>2, <2>1, ResizeOK
<1>4. NOERROR \in DbCodes
  BY DEF DbCodes
<1>5. db' = WithError(g, NOERROR)
  BY <1>2
<1>6. DbOK(db') /\ db'.err_code = NOERROR
  BY <1>3, <1>4, <1>5, ErrCodeOK
<1> QED
  BY <1>4, <1>6, OpenOK

\* kvsymdb_reserve preserves the invariant.
LEMMA ReserveKeeps ==
  ASSUME NoWrap, IndInv, NEW entc \in EntCaps, Reserve(entc)
  PROVE  IndInv'
<1>1. pc = "open" /\ NOERROR \in DbCodes /\ assert_intrnl_state(db)
  BY DEF Reserve, DbCodes
<1>2. CASE db.entrycap >= entc
  BY <1>1, <1>2, OnlyErrorOK DEF Reserve
<1>3. CASE ~(db.entrycap >= entc)
  <2>1. /\ CanAlloc(entc, db.buf_size)
        /\ pc' = "open" /\ ndb' = ndb /\ it' = it /\ rc' = NOERROR
        /\ db' = WithError(Resize(db, entc, db.buf_size), NOERROR)
    BY <1>3 DEF Reserve
  <2>2. /\ entc \in Nat /\ 2 * entc + HeapLimit + 128 <= U32Mod
        /\ HeapLimit \in Nat
        /\ db.entrycnt \in Nat /\ db.entrycap \in Nat /\ db.buf_size \in Nat
        /\ db.entrycnt <= db.entrycap /\ db.buf_size % 4 = 0
        /\ db.entrycap + db.buf_size <= HeapLimit
    BY <1>1, IntactOK DEF NoWrap, DbOK, IsDb, StatesMatch, BlockOK, ALIGN_SIZE
  <2>3. db.entrycnt <= entc /\ entc + db.buf_size + 64 < U32Mod
    BY <1>3, <2>2, WidthAssumption DEF WidthAssumption
  <2> QED
    BY <1>1, <2>1, <2>2, <2>3, ResizedKeeps
<1> QED
  BY <1>2, <1>3

\* kvsymdb_reserve_arenabuf preserves the invariant.
LEMMA ReserveArenabufKeeps ==
  ASSUME NoWrap, IndInv, NEW size \in ArenaSizes, ReserveArenabuf(size)
  PROVE  IndInv'
<1>1. pc = "open" /\ NOERROR \in DbCodes /\ assert_intrnl_state(db)
  BY DEF ReserveArenabuf, DbCodes
<1>2. CASE db.buf_size >= size
  BY <1>1, <1>2, OnlyErrorOK DEF ReserveArenabuf
<1>3. CASE ~(db.buf_size >= size)
  <2>1. /\ CanAlloc(db.entrycap, size)
        /\ is_aligned_off(size)
        /\ pc' = "open" /\ ndb' = ndb /\ it' = it /\ rc' = NOERROR
        /\ db' = WithError(Resize(db, db.entrycap, size), NOERROR)
    BY <1>3 DEF ReserveArenabuf
  <2>2. /\ size \in Nat /\ 2 * size + HeapLimit + 128 <= U32Mod
        /\ HeapLimit \in Nat
        /\ db.entrycnt \in Nat /\ db.entrycap \in Nat /\ db.buf_size \in Nat
        /\ db.entrycnt <= db.entrycap
        /\ db.entrycap + db.buf_size <= HeapLimit
    BY <1>1, IntactOK DEF NoWrap, DbOK, IsDb, StatesMatch, BlockOK
  <2>3. size + 3 < U32Mod /\ db.entrycap + size + 64 < U32Mod
    BY <1>3, <2>2, WidthAssumption DEF WidthAssumption
  <2>4. size % 4 = 0
    BY <2>1, <2>2, <2>3, AlignExact DEF is_aligned_off
  <2> QED
    BY <1>1, <2>1, <2>2, <2>3, <2>4, ResizedKeeps
<1> QED
  BY <1>2, <1>3

\* A compaction begins at the first record with an empty block of the
\* capacities of the old one.
LEMMA CompactBeginKeeps ==
  ASSUME NoWrap, IndInv, CompactBegin
  PROVE  IndInv'
<1>1. /\ pc = "open" /\ assert_intrnl_state(db)
      /\ Creates(ndb', db.entrycap, db.buf_size)
      /\ pc' = "compacting" /\ it' = 0 /\ rc' = rc
      /\ db' = WithError(db, NOERROR)
  BY DEF CompactBegin
<1>2. /\ db.entrycnt \in Nat /\ db.entrycap \in Nat
      /\ db.buf_len \in Nat /\ db.buf_size \in Nat
      /\ db.entrycap + db.buf_size <= HeapLimit
      /\ db.buf_size % 4 = 0
      /\ db.entrycnt = 0 => db.buf_len = 0
      /\ db.entrycnt > 0 => 0 \in DOMAIN db.arena /\ db.arena[0].id = 0
      /\ db.entrycap >= 1 /\ db.buf_size >= 32
  BY <1>1, IntactOK DEF DbOK, IsDb, Chained, BlockOK, ALIGN_SIZE,
                         assert_intrnl_state, INIT_ENTC, INIT_BUFSIZE
<1>4. DbOK(db') /\ /\ db'.entrycnt = db.entrycnt /\ db'.entrycap = db.entrycap
                   /\ db'.buf_len = db.buf_len /\ db'.buf_size = db.buf_size
                   /\ db'.arena = db.arena
  <2>1. NOERROR \in DbCodes
    BY DEF DbCodes
  <2>2. DbOK(db)
    BY <1>1, IntactOK
  <2> QED
    BY <1>1, <2>1, <2>2, ErrCodeOK
<1>5. /\ DbOK(ndb') /\ ndb'.entrycnt = 0 /\ ndb'.buf_len = 0
      /\ ndb'.err_code = NOERROR
      /\ ndb'.entrycap = db.entrycap /\ ndb'.buf_size = db.buf_size
  <2>1. db.entrycap + db.buf_size + 128 <= U32Mod
    BY <1>2, WidthAssumption DEF NoWrap, NoWrapOn, WidthAssumption
  <2>2. /\ DbOK(ndb') /\ ndb'.entrycnt = 0 /\ ndb'.buf_len = 0
        /\ ndb'.err_code = NOERROR
        /\ ndb'.entrycap = Clamped(db.entrycap, INIT_ENTC)
        /\ ndb'.buf_size = align_off(Clamped(db.buf_size, INIT_BUFSIZE))
    BY <1>1, <1>2, <2>1, CreatesOK
  <2>3. /\ Clamped(db.entrycap, INIT_ENTC) = db.entrycap
        /\ Clamped(db.buf_size, INIT_BUFSIZE) = db.buf_size
    BY <1>2 DEF Clamped, INIT_ENTC, INIT_BUFSIZE
  <2>4. align_off(db.buf_size) = db.buf_size
    <3>1. db.buf_size + 3 < U32Mod
      BY <1>2, <2>1, WidthAssumption DEF WidthAssumption
    <3> QED
      BY <3>1, <1>2, AlignExact
  <2> QED
    BY <2>2, <2>3, <2>4
<1>6. TypeOK'
  BY <1>1, <1>4, <1>5 DEF IndInv, TypeOK, DbOK
<1>7. ErrCodeIsLastResult'
  BY <1>1 DEF ErrCodeIsLastResult
<1>8. CompactionOK'
  <2>1. assert_intrnl_state(db')
    BY <1>1, <1>4 DEF assert_intrnl_state
  <2> QED
    BY <2>1, <1>1, <1>2, <1>4, <1>5 DEF CompactionOK
<1>9. Intact(db')
  BY <1>1, <1>4 DEF Intact, assert_intrnl_state
<1> QED
  BY <1>4, <1>5, <1>6, <1>7, <1>8, <1>9 DEF IndInv

\* Skipping a dead record preserves the invariant: the new block falls
\* further behind the walk.
LEMMA CompactSkipKeeps ==
  ASSUME NoWrap, IndInv, CompactSkip
  PROVE  IndInv'
<1>1. /\ pc = "compacting" /\ it # db.buf_len
      /\ it' = EndOf(db.arena, it)
      /\ pc' = pc /\ db' = db /\ ndb' = ndb /\ rc' = rc
  BY DEF CompactSkip, AtRecord
<1>2. LET end == EndOf(db.arena, it) IN
      /\ end \in Nat
      /\ end = db.buf_len \/ end \in DOMAIN db.arena
      /\ db.arena[it].id + 1 <=
           IF end = db.buf_len THEN db.entrycnt ELSE db.arena[end].id
  BY <1>1, WalkOn
<1>3. /\ it \in DOMAIN db.arena /\ it \in Nat
      /\ db.arena[it].id \in Nat /\ db.arena[it].record_len \in Nat
      /\ it < EndOf(db.arena, it)
      /\ ndb.buf_len \in Nat /\ ndb.entrycnt \in Nat
      /\ ndb.buf_len <= it /\ ndb.entrycnt <= db.arena[it].id
      /\ db.entrycnt \in Nat
      /\ \A off \in DOMAIN db.arena : db.arena[off].id \in Nat
  BY <1>1, IntactOK DEF IndInv, TypeOK, DbOK, IsDb, IsRecord, Chained, CompactionOK
<1>4. TypeOK' /\ ErrCodeIsLastResult' /\ DbOK(db') /\ DbOK(ndb') /\ Intact(db')
  <2>1. DbOK(db) /\ DbOK(ndb) /\ Intact(db)
    BY <1>1, IntactOK DEF IndInv
  <2> QED
    BY <1>1, <1>2, <2>1 DEF IndInv, TypeOK, ErrCodeIsLastResult
<1>5. CompactionOK'
  <2>1. /\ assert_intrnl_state(db)
        /\ ndb.entrycap = db.entrycap /\ ndb.buf_size = db.buf_size
        /\ ndb.err_code = NOERROR
    BY <1>1 DEF IndInv, CompactionOK
  <2>2. ndb.buf_len <= it'
    BY <1>1, <1>2, <1>3
  <2>3. ndb.entrycnt <= IF it' = db.buf_len THEN db.entrycnt ELSE db.arena[it'].id
    BY <1>1, <1>2, <1>3
  <2> QED
    BY <1>1, <1>2, <2>1, <2>2, <2>3 DEF CompactionOK
<1> QED
  BY <1>4, <1>5 DEF IndInv

\* A record that a compaction copies is not written over the states.
LEMMA CopyIntact ==
  ASSUME NoWrap, IndInv, CompactCopy
  PROVE  Intact(ndb')
<1> DEFINE ent  == db.arena[it]
           name == NameView(ent)
           data == DataView(ent)
           n    == entsize_required(name, data)
<1>1. /\ pc = "compacting" /\ it # db.buf_len
      /\ InsertReturns(ndb, ndb', name, data)
  BY DEF CompactCopy, AtRecord
<1>2. /\ it \in DOMAIN db.arena
      /\ name.buf_size \in Nat /\ data.buf_size \in Nat
      /\ NoWrapOn(name.buf_size, data.buf_size)
      /\ n \in Nat /\ n <= ent.record_len
      /\ ndb.buf_len + ent.record_len <= ndb.buf_size
      /\ ~NeedsGrowth(ndb, n)
  BY <1>1, CompactionFits
<1>3. DbOK(ndb)
  BY DEF IndInv
<1>4. ent.record_len \in Nat
  BY <1>2 DEF IndInv, TypeOK, IsDb, IsRecord
<1>5. ndb.buf_len \in Nat /\ ndb.buf_size \in Nat
  BY <1>3 DEF DbOK, IsDb
<1> HIDE DEF name, data
<1>6. ASSUME NEW d2, InsertReturns(ndb, d2, name, data)
      PROVE  d2.buf_len = ndb.buf_len + n /\ d2.buf_size = ndb.buf_size
  BY <1>2, <1>3, <1>6, InsertShape
<1> HIDE DEF ent, n
<1> QED
  BY <1>1, <1>2, <1>4, <1>5, <1>6 DEF Intact

\* Copying a live record preserves the invariant: the copy is not longer
\* than the record the walk passes.
LEMMA CompactCopyKeeps ==
  ASSUME NoWrap, IndInv, CompactCopy
  PROVE  IndInv'
<1> DEFINE ent  == db.arena[it]
           name == NameView(ent)
           data == DataView(ent)
           n    == entsize_required(name, data)
<1>1. /\ pc = "compacting" /\ it # db.buf_len
      /\ InsertReturns(ndb, ndb', name, data)
      /\ it' = EndOf(db.arena, it)
      /\ pc' = pc /\ db' = db /\ rc' = rc
  BY DEF CompactCopy, AtRecord
<1>2. LET end == EndOf(db.arena, it) IN
      /\ end \in Nat
      /\ end = db.buf_len \/ end \in DOMAIN db.arena
      /\ db.arena[it].id + 1 <=
           IF end = db.buf_len THEN db.entrycnt ELSE db.arena[end].id
  BY <1>1, WalkOn
<1>3. /\ it \in DOMAIN db.arena
      /\ name.buf_size \in Nat /\ data.buf_size \in Nat
      /\ NoWrapOn(name.buf_size, data.buf_size)
      /\ n \in Nat /\ n <= ent.record_len
      /\ ~NeedsGrowth(ndb, n)
  BY <1>1, CompactionFits
<1>4. /\ it \in Nat
      /\ ent.id \in Nat /\ ent.record_len \in Nat
      /\ ndb.buf_len \in Nat /\ ndb.entrycnt \in Nat
      /\ ndb.buf_len <= it /\ ndb.entrycnt <= ent.id
      /\ db.entrycnt \in Nat
      /\ \A off \in DOMAIN db.arena : db.arena[off].id \in Nat
      /\ assert_intrnl_state(db)
      /\ ndb.entrycap = db.entrycap /\ ndb.buf_size = db.buf_size
  BY <1>1, <1>3 DEF IndInv, TypeOK, DbOK, IsDb, IsRecord, CompactionOK
<1>5. DbOK(ndb) /\ DbOK(db) /\ Intact(db)
  BY <1>1, IntactOK DEF IndInv
<1> HIDE DEF name, data
<1>6. ASSUME NEW d2, InsertReturns(ndb, d2, name, data)
      PROVE  /\ Intact(d2) => DbOK(d2)
             /\ d2.entrycnt = ndb.entrycnt + 1 /\ d2.entrycap = ndb.entrycap
             /\ d2.buf_len = ndb.buf_len + n
             /\ d2.buf_size = ndb.buf_size
             /\ d2.err_code = NOERROR
  <2>1. /\ d2.entrycnt = ndb.entrycnt + 1 /\ d2.entrycap = ndb.entrycap
        /\ d2.buf_len = ndb.buf_len + n
        /\ d2.buf_size = ndb.buf_size
        /\ d2.err_code = NOERROR
    BY <1>3, <1>5, <1>6, InsertShape
  <2>2. Intact(d2) => DbOK(d2)
    BY <1>3, <1>5, <1>6, InsertOK
  <2> QED
    BY <2>1, <2>2
<1>7. /\ DbOK(ndb')
      /\ ndb'.entrycnt = ndb.entrycnt + 1 /\ ndb'.entrycap = ndb.entrycap
      /\ ndb'.buf_len = ndb.buf_len + n
      /\ ndb'.buf_size = ndb.buf_size
      /\ ndb'.err_code = NOERROR
  BY <1>1, <1>6, CopyIntact
<1> HIDE DEF n
<1>8. TypeOK' /\ ErrCodeIsLastResult'
  <2>1. IsDb(ndb')
    BY <1>7 DEF DbOK
  <2> QED
    BY <1>1, <1>2, <2>1 DEF IndInv, TypeOK, ErrCodeIsLastResult
<1>9. CompactionOK'
  <2>1. ndb'.buf_len <= it'
    BY <1>1, <1>3, <1>4, <1>7 DEF EndOf
  <2>2. ndb'.entrycnt <= IF it' = db.buf_len THEN db.entrycnt ELSE db.arena[it'].id
    BY <1>1, <1>2, <1>4, <1>7
  <2> QED
    BY <1>1, <1>2, <1>4, <1>7, <2>1, <2>2 DEF CompactionOK
<1> QED
  BY <1>1, <1>5, <1>7, <1>8, <1>9 DEF IndInv

\* A compaction that gives up preserves the invariant: the old block is
\* the caller's again.
LEMMA CompactInsertFailsKeeps ==
  ASSUME NoWrap, IndInv, CompactInsertFails
  PROVE  IndInv'
<1>1. /\ pc' = "open" /\ db' = WithError(db, ERR_INSERT)
      /\ ndb' = NoDb /\ it' = 0 /\ rc' = ERR_INSERT
  BY DEF CompactInsertFails
<1>2. ERR_INSERT \in DbCodes
  BY DEF DbCodes
<1>3. DbOK(db') /\ db'.err_code = ERR_INSERT
  <2>1. DbOK(db)
    BY IntactOK DEF CompactInsertFails, AtRecord
  <2> QED
    BY <1>1, <1>2, <2>1, ErrCodeOK
<1>4. DbOK(ndb')
  BY <1>1, NoDbOK
<1>5. TypeOK' /\ CompactionOK' /\ ErrCodeIsLastResult'
  BY <1>1, <1>2, <1>3, <1>4
     DEF TypeOK, DbOK, CompactionOK, ErrCodeIsLastResult
<1> QED
  BY <1>1, <1>3, <1>4, <1>5 DEF IndInv

\* A compaction that reaches the end preserves the invariant: the new
\* block becomes the caller's.
LEMMA CompactEndKeeps ==
  ASSUME NoWrap, IndInv, CompactEnd
  PROVE  IndInv'
<1>1. /\ pc = "compacting" /\ pc' = "open" /\ db' = ndb
      /\ ndb' = NoDb /\ it' = 0 /\ rc' = NOERROR
  BY DEF CompactEnd
<1>2. DbOK(db') /\ db'.err_code = NOERROR
  BY <1>1 DEF IndInv, CompactionOK
<1>3. DbOK(ndb')
  BY <1>1, NoDbOK
<1>4. TypeOK' /\ CompactionOK' /\ ErrCodeIsLastResult'
  BY <1>1, <1>2, <1>3
     DEF TypeOK, DbOK, DbCodes, CompactionOK, ErrCodeIsLastResult
<1> QED
  BY <1>1, <1>2, <1>3, <1>4 DEF IndInv

-----------------------------------------------------------------------------
(* The theorems *)

\* Every step of the specification preserves the invariant.
LEMMA StepOK ==
  ASSUME NoWrap, IndInv, [Next]_vars
  PROVE  IndInv'
<1>1. ASSUME NEW entc \in EntCaps, NEW size \in ArenaSizes, Create(entc, size)
      PROVE  IndInv'
  BY <1>1, CreateOK
<1>2. CASE CreateFails
  BY <1>2, CallOK DEF CreateFails, IndInv, TypeOK
<1>3. CASE Destroy
  <2>1. NOERROR \in DbCodes
    BY DEF DbCodes
  <2> QED
    BY <1>3, <2>1, NoDbOK, NoDbIntact, CallOK DEF Destroy, DbOK
<1>4. CASE Clearerr
  BY <1>4, OnlyErrorOK DEF Clearerr, DbCodes
<1>5. ASSUME NEW key \in Keys, NEW val \in Vals, Insert(key, val)
      PROVE  IndInv'
  BY <1>5, InsertKeeps
<1>6. ASSUME NEW key \in Keys, NEW val \in Vals, InsertRefused(key, val)
      PROVE  IndInv'
  BY <1>6, OnlyErrorOK DEF InsertRefused, DbCodes
<1>7. ASSUME NEW off \in DOMAIN db.arena, MarkDead(off)
      PROVE  IndInv'
  BY <1>7, MarkDeadKeeps
<1>8. ASSUME NEW off \in DOMAIN db.arena, MarkDeadAborts(off)
      PROVE  IndInv'
  BY <1>8, AbortOK DEF MarkDeadAborts
<1>9. ASSUME NEW entc \in EntCaps, Reserve(entc)
      PROVE  IndInv'
  BY <1>9, ReserveKeeps
<1>10. ASSUME NEW entc \in EntCaps, ReserveFails(entc)
       PROVE  IndInv'
  BY <1>10, OnlyErrorOK DEF ReserveFails, DbCodes
<1>11. ASSUME NEW size \in ArenaSizes, ReserveArenabuf(size)
       PROVE  IndInv'
  BY <1>11, ReserveArenabufKeeps
<1>12. ASSUME NEW size \in ArenaSizes, ReserveArenabufFails(size)
       PROVE  IndInv'
  BY <1>12, OnlyErrorOK DEF ReserveArenabufFails, DbCodes
<1>13. ASSUME NEW size \in ArenaSizes, ReserveArenabufAborts(size)
       PROVE  IndInv'
  BY <1>13, AbortOK DEF ReserveArenabufAborts
<1>14. CASE CompactBegin
  BY <1>14, CompactBeginKeeps
<1>15. CASE CompactNoMemory
  BY <1>15, OnlyErrorOK DEF CompactNoMemory, DbCodes
<1>16. CASE CompactStep
  BY <1>16, CompactSkipKeeps, CompactCopyKeeps, CompactInsertFailsKeeps,
     CompactEndKeeps DEF CompactStep
<1>17. CASE StateAssertFails
  BY <1>17, AbortOK DEF StateAssertFails
<1>18. CASE GrowthAborts
  BY <1>18, AbortOK DEF GrowthAborts
<1>19. CASE NextProcess
  BY <1>19, CallOK DEF NextProcess, IndInv, TypeOK
<1>20. CASE UNCHANGED vars
  BY <1>20 DEF vars, IndInv, TypeOK, CompactionOK, ErrCodeIsLastResult
<1> QED
  BY <1>1, <1>2, <1>3, <1>4, <1>5, <1>6, <1>7, <1>8, <1>9, <1>10, <1>11, <1>12,
     <1>13, <1>14, <1>15, <1>16, <1>17, <1>18, <1>19, <1>20 DEF Next

\* Whatever is called in whatever order, and whichever allocations fail, the
\* block stays well formed.
THEOREM Invariance == ASSUME NoWrap PROVE Spec => []IndInv
<1>1. Init => IndInv
  BY InitOK
<1>2. IndInv /\ [Next]_vars => IndInv'
  BY StepOK
<1> QED
  BY <1>1, <1>2, PTL DEF Spec

\* The variables keep their types: sizes stay naturals, the state array has
\* entrycap entries, error codes are those the library sets.
THEOREM TypeCorrect == ASSUME NoWrap PROVE Spec => []TypeOK
<1>1. IndInv => TypeOK
  BY DEF IndInv
<1> QED
  BY <1>1, Invariance, PTL

\* The records of the arena form one chain (kvsymdb_insert, kvsymdb_compact and
\* the two reallocations keep it so), which is what a walk relies on.
THEOREM ChainSafe == ASSUME NoWrap PROVE Spec => []RecordsChained
<1>1. IndInv => RecordsChained
  BY DEF IndInv, DbOK, RecordsChained
<1> QED
  BY <1>1, Invariance, PTL

\* The state array says ST_EMPTY of exactly the ids no record has, over every
\* reallocation (reserve, reserve_arenabuf) and compaction.
THEOREM StatesSafe == ASSUME NoWrap PROVE Spec => []StatesTrackRecords
<1>1. IndInv => StatesTrackRecords
  BY DEF IndInv, DbOK, StatesTrackRecords
<1> QED
  BY <1>1, Invariance, PTL

\* A compaction that has its block always has room for the next record.
THEOREM CompactionSafe == ASSUME NoWrap PROVE Spec => []CompactionHasRoom
<1>1. IndInv => CompactionHasRoom
  BY CompactionFits DEF CompactionHasRoom
<1> QED
  BY <1>1, Invariance, PTL

\* kvsymdb_geterror is the result of the last call, also after the call has
\* moved the block or worked on a second one (kvsymdb_compact).
THEOREM ErrCodeSafe == ASSUME NoWrap PROVE Spec => []ErrCodeIsLastResult
<1>1. IndInv => ErrCodeIsLastResult
  BY DEF IndInv
<1> QED
  BY <1>1, Invariance, PTL

-----------------------------------------------------------------------------
(* Failed calls *)

\* A block differs from itself at most in the error code.
LEMMA SameBlock ==
  ASSUME NEW d, IsBlock(d)
  PROVE  d = WithError(d, d.err_code)
BY DEF IsBlock, WithError

\* Setting the error code changes the error code at most.
LEMMA OtherCode ==
  ASSUME NEW d, IsBlock(d), NEW code, NEW e, e = WithError(d, code)
  PROVE  e = WithError(d, e.err_code)
<1>1. e.err_code = code
  BY DEF IsBlock, WithError
<1> QED
  BY <1>1

\* A call that returns an error (a refused insertion, a failed allocation, a
\* compaction that gives up half-way) has changed the error code only, and so
\* has a compaction until it returns.
THEOREM FailedCallsSafe == ASSUME NoWrap PROVE Spec => FailedCallsChangeNothing
<1> DEFINE Changed == (pc' = "open" /\ rc' # NOERROR) \/ pc' = "compacting"
           Body    == Changed => db' = WithError(db, db'.err_code)
<1>1. ASSUME IndInv, [Next]_vars, ~UNCHANGED vars, Changed
      PROVE  db' = WithError(db, db'.err_code)
  <2>1. IsBlock(db)
    BY <1>1 DEF IndInv, TypeOK, IsDb
  <2>2. ASSUME NEW code, OnlyError(code)
        PROVE  db' = WithError(db, db'.err_code)
    BY <2>1, <2>2, OtherCode DEF OnlyError
  <2>3. CASE Clearerr \/ CompactNoMemory
    BY <2>2, <2>3 DEF Clearerr, CompactNoMemory
  <2>4. ASSUME NEW key \in Keys, NEW val \in Vals, InsertRefused(key, val)
        PROVE  db' = WithError(db, db'.err_code)
    BY <2>2, <2>4 DEF InsertRefused
  <2>5. ASSUME NEW entc \in EntCaps, ReserveFails(entc)
        PROVE  db' = WithError(db, db'.err_code)
    BY <2>2, <2>5 DEF ReserveFails
  <2>6. ASSUME NEW size \in ArenaSizes, ReserveArenabufFails(size)
        PROVE  db' = WithError(db, db'.err_code)
    BY <2>2, <2>6 DEF ReserveArenabufFails
  <2>7. CASE CompactBegin
    BY <2>1, <2>7, OtherCode DEF CompactBegin
  <2>8. CASE CompactSkip \/ CompactCopy
    BY <2>1, <2>8, SameBlock DEF CompactSkip, CompactCopy
  <2>9. CASE CompactInsertFails
    BY <2>1, <2>9, OtherCode DEF CompactInsertFails
  \* The other steps return no error.
  <2>10. ASSUME NEW entc \in EntCaps, NEW size \in ArenaSizes, Create(entc, size)
         PROVE  FALSE
    BY <1>1, <2>10 DEF Create
  <2>11. ASSUME NEW key \in Keys, NEW val \in Vals, Insert(key, val)
         PROVE  FALSE
    BY <1>1, <2>11 DEF Insert
  <2>12. ASSUME NEW off \in DOMAIN db.arena, MarkDead(off)
         PROVE  FALSE
    BY <1>1, <2>12 DEF MarkDead
  <2>13. ASSUME NEW entc \in EntCaps, Reserve(entc)
         PROVE  FALSE
    BY <1>1, <2>13 DEF Reserve, OnlyError
  <2>14. ASSUME NEW size \in ArenaSizes, ReserveArenabuf(size)
         PROVE  FALSE
    BY <1>1, <2>14 DEF ReserveArenabuf, OnlyError
  <2>15. ~(CreateFails \/ Destroy \/ CompactEnd \/ NextProcess)
    BY <1>1 DEF CreateFails, Destroy, CompactEnd, NextProcess
  <2>16. ~Abort
    BY <1>1 DEF Abort
  <2> QED
    BY <1>1, <2>3, <2>4, <2>5, <2>6, <2>7, <2>8, <2>9, <2>10, <2>11, <2>12,
       <2>13, <2>14, <2>15, <2>16
       DEF Next, CompactStep, MarkDeadAborts, ReserveArenabufAborts,
           StateAssertFails, GrowthAborts
<1>2. IndInv /\ [Next]_vars => [Body]_vars
  BY <1>1
<1> QED
  BY <1>2, Invariance, PTL DEF Spec, FailedCallsChangeNothing

-----------------------------------------------------------------------------
(* Records *)

\* A block with the same arena, and the same states of the records, keeps them.
LEMMA SameArena ==
  ASSUME NEW d, DbOK(d), NEW e,
         \A off \in DOMAIN d.arena : /\ off \in DOMAIN e.arena
                                     /\ e.arena[off] = d.arena[off],
         \A id \in 0..(d.entrycnt - 1) : e.state_arr[id] = d.state_arr[id]
  PROVE  KeepsRecords(d, e)
<1>1. \A off \in DOMAIN d.arena : d.arena[off].id \in 0..(d.entrycnt - 1)
  BY DEF DbOK, IsDb, IsRecord, Chained
<1> QED
  BY <1>1 DEF KeepsRecords, IsDead

\* kvsymdb_mark_dead keeps the records, and the dead ones dead.
LEMMA BuriedKeeps ==
  ASSUME NEW d, DbOK(d), NEW off \in DOMAIN d.arena,
         NEW e, e = Buried(d, off)
  PROVE  KeepsRecords(d, e)
<1>1. /\ e.arena = d.arena
      /\ e.state_arr = [d.state_arr EXCEPT ![d.arena[off].id] = ST_DEAD]
  BY DEF DbOK, IsDb, IsBlock, Buried
<1>2. d.state_arr \in [0..(d.entrycap - 1) -> {ST_EMPTY, ST_ALIVE, ST_DEAD}]
  BY DEF DbOK, IsDb
<1>3. \A p \in DOMAIN d.arena : d.arena[p].id \in 0..(d.entrycap - 1)
  BY DEF DbOK, IsDb, IsRecord, Chained, StatesMatch
<1>4. \A p \in DOMAIN d.arena : IsDead(d, p) => IsDead(e, p)
  BY <1>1, <1>2, <1>3 DEF IsDead
<1> QED
  BY <1>1, <1>4 DEF KeepsRecords

\* A reallocation by one of the reserve calls keeps the records.
LEMMA ResizedKeepsRecords ==
  ASSUME NoWrap, NEW d, DbOK(d),
         NEW entc \in Nat, NEW size \in Nat,
         d.entrycnt <= entc, size % 4 = 0, entc + size + 64 < U32Mod,
         CanAlloc(entc, size),
         NEW e, e = WithError(Resize(d, entc, size), NOERROR)
  PROVE  KeepsRecords(d, e)
<1>1. /\ entc + size <= HeapLimit
      /\ HeapLimit \in Nat /\ d.entrycnt \in Nat
  BY CanAllocBounds DEF NoWrap, DbOK, IsDb
<1>2. PICK g : g = Resize(d, entc, size)
  OBVIOUS
<1>3. /\ DbOK(g) /\ g.arena = d.arena
      /\ \A id \in 0..(d.entrycnt - 1) : g.state_arr[id] = d.state_arr[id]
  BY <1>1, <1>2, ResizeOK
<1>4. e.arena = g.arena /\ e.state_arr = g.state_arr
  <2>1. NOERROR \in DbCodes
    BY DEF DbCodes
  <2> QED
    BY <1>2, <1>3, <2>1, ErrCodeOK
<1> QED
  BY <1>3, <1>4, SameArena

\* kvsymdb_insert keeps the records, also when it moves them to a larger block, and
\* their states in a block it does not overrun.
LEMMA InsertKeepsRecords ==
  ASSUME NoWrap, NEW d, DbOK(d),
         NEW key, NEW val,
         key.buf_size \in Nat, val.buf_size \in Nat,
         NoWrapOn(key.buf_size, val.buf_size),
         NEW e, InsertReturns(d, e, key, val)
  PROVE  KeepsRecords(d, e)
<1>1. d.entrycnt \in Nat
  BY DEF DbOK, IsDb
<1>2. \A off \in DOMAIN d.arena : /\ off \in DOMAIN e.arena
                                  /\ e.arena[off] = d.arena[off]
  BY <1>1, InsertShape
<1>3. CASE Intact(e)
  <2>1. \A id \in 0..(d.entrycnt - 1) : e.state_arr[id] = d.state_arr[id]
    BY <1>1, <1>3, InsertOK
  <2> QED
    BY <1>2, <2>1, SameArena
<1>4. CASE ~Intact(e)
  BY <1>2, <1>4 DEF KeepsRecords
<1> QED
  BY <1>3, <1>4

\* A call that only sets the error code keeps the records.
LEMMA OnlyErrorKeepsRecords ==
  ASSUME NEW d, IsDb(d), NEW code \in DbCodes, NEW e, e = WithError(d, code)
  PROVE  KeepsRecords(d, e)
<1>1. e.arena = d.arena /\ e.state_arr = d.state_arr
  BY CodeOnly
<1> QED
  BY <1>1 DEF KeepsRecords, IsDead

\* Between two compactions records stay where they are, with the content they have,
\* and dead ones stay dead unless an insertion overruns the arena.
THEOREM RecordsSafe == ASSUME NoWrap PROVE Spec => RecordsImmutable
<1> DEFINE Body == pc = "open" /\ pc' \in {"open", "compacting"} =>
                     KeepsRecords(db, db')
<1>1. ASSUME IndInv, [Next]_vars, ~UNCHANGED vars,
             pc = "open", pc' \in {"open", "compacting"}
      PROVE  KeepsRecords(db, db')
  <2>1. IsDb(db)
    BY <1>1 DEF IndInv, TypeOK
  <2>2. ASSUME NEW code \in DbCodes, OnlyError(code)
        PROVE  KeepsRecords(db, db')
    BY <2>1, <2>2, OnlyErrorKeepsRecords DEF OnlyError
  <2>3. CASE Clearerr \/ CompactNoMemory
    BY <2>2, <2>3 DEF Clearerr, CompactNoMemory, DbCodes
  <2>4. ASSUME NEW key \in Keys, NEW val \in Vals, InsertRefused(key, val)
        PROVE  KeepsRecords(db, db')
    BY <2>2, <2>4 DEF InsertRefused, DbCodes
  <2>5. ASSUME NEW key \in Keys, NEW val \in Vals, Insert(key, val)
        PROVE  KeepsRecords(db, db')
    <3>1. /\ key.buf_size \in Nat /\ val.buf_size \in Nat
          /\ NoWrapOn(key.buf_size, val.buf_size)
      BY DEF NoWrap
    <3>2. ASSUME NEW d2, InsertReturns(db, d2, key, val)
          PROVE  KeepsRecords(db, d2)
      <4>1. DbOK(db)
        BY <1>1, <3>2, IntactOK DEF InsertReturns, InsertAccepts
      <4> QED
        BY <3>1, <3>2, <4>1, InsertKeepsRecords
    <3> QED
      BY <2>5, <3>2 DEF Insert
  <2>6. ASSUME NEW off \in DOMAIN db.arena, MarkDead(off)
        PROVE  KeepsRecords(db, db')
    <3>1. DbOK(db)
      BY <1>1, <2>6, IntactOK DEF MarkDead
    <3> QED
      BY <2>6, <3>1, BuriedKeeps DEF MarkDead
  <2>7. ASSUME assert_intrnl_state(db)
        PROVE
        /\ DbOK(db)
        /\ HeapLimit \in Nat /\ U32Mod \in Nat
        /\ db.entrycnt \in Nat /\ db.entrycap \in Nat /\ db.buf_size \in Nat
        /\ db.entrycnt <= db.entrycap /\ db.entrycap + db.buf_size <= HeapLimit
        /\ db.buf_size % 4 = 0
    BY <1>1, <2>7, IntactOK, WidthAssumption
       DEF WidthAssumption, NoWrap, DbOK, IsDb, StatesMatch, BlockOK, ALIGN_SIZE
  <2>8. ASSUME NEW entc \in EntCaps, Reserve(entc)
        PROVE  KeepsRecords(db, db')
    <3>1. CASE db.entrycap >= entc
      BY <2>2, <2>8, <3>1 DEF Reserve, DbCodes
    <3>2. CASE ~(db.entrycap >= entc)
      <4>1. /\ CanAlloc(entc, db.buf_size)
            /\ db' = WithError(Resize(db, entc, db.buf_size), NOERROR)
            /\ assert_intrnl_state(db)
        BY <2>8, <3>2 DEF Reserve
      <4>2. /\ entc \in Nat /\ db.entrycnt <= entc
            /\ entc + db.buf_size + 64 < U32Mod
        BY <2>7, <3>2, <4>1 DEF NoWrap
      <4> QED
        BY <2>7, <4>1, <4>2, ResizedKeepsRecords
    <3> QED
      BY <3>1, <3>2
  <2>9. ASSUME NEW size \in ArenaSizes, ReserveArenabuf(size)
        PROVE  KeepsRecords(db, db')
    <3>1. CASE db.buf_size >= size
      BY <2>2, <2>9, <3>1 DEF ReserveArenabuf, DbCodes
    <3>2. CASE ~(db.buf_size >= size)
      <4>1. /\ is_aligned_off(size)
            /\ CanAlloc(db.entrycap, size)
            /\ db' = WithError(Resize(db, db.entrycap, size), NOERROR)
            /\ assert_intrnl_state(db)
        BY <2>9, <3>2 DEF ReserveArenabuf
      <4>2. /\ size \in Nat
            /\ db.entrycap + size + 64 < U32Mod /\ size + 3 < U32Mod
        BY <2>7, <4>1 DEF NoWrap
      <4>3. size % 4 = 0
        BY <4>1, <4>2, AlignExact DEF is_aligned_off
      <4> QED
        BY <2>7, <4>1, <4>2, <4>3, ResizedKeepsRecords
    <3> QED
      BY <3>1, <3>2
  <2>10. ASSUME NEW entc \in EntCaps, ReserveFails(entc)
         PROVE  KeepsRecords(db, db')
    BY <2>2, <2>10 DEF ReserveFails, DbCodes
  <2>11. ASSUME NEW size \in ArenaSizes, ReserveArenabufFails(size)
         PROVE  KeepsRecords(db, db')
    BY <2>2, <2>11 DEF ReserveArenabufFails, DbCodes
  <2>12. CASE CompactBegin
    BY <2>1, <2>12, OnlyErrorKeepsRecords DEF CompactBegin, DbCodes
  \* The other steps end a block, or do not start from an open one.
  <2>13. ASSUME NEW entc \in EntCaps, NEW size \in ArenaSizes, Create(entc, size)
         PROVE  FALSE
    BY <1>1, <2>13 DEF Create
  <2>14. ~(CreateFails \/ Destroy \/ NextProcess)
    BY <1>1 DEF CreateFails, Destroy, NextProcess
  <2>15. ~Abort
    BY <1>1 DEF Abort
  <2>16. ~CompactStep
    BY <1>1 DEF CompactStep, CompactSkip, CompactCopy, CompactInsertFails,
                CompactEnd, AtRecord
  <2> QED
    BY <1>1, <2>3, <2>4, <2>5, <2>6, <2>8, <2>9, <2>10, <2>11, <2>12, <2>13,
       <2>14, <2>15, <2>16
       DEF Next, MarkDeadAborts, ReserveArenabufAborts, StateAssertFails,
           GrowthAborts
<1>2. IndInv /\ [Next]_vars => [Body]_vars
  BY <1>1
<1> QED
  BY <1>2, Invariance, PTL DEF Spec, RecordsImmutable

-----------------------------------------------------------------------------
(* Limits *)

\* The size of a record is the sum of its parts.
LEMMA EntsizeBounds ==
  ASSUME NoWrap, NEW key, NEW val,
         key.buf_size \in Nat, val.buf_size \in Nat,
         NoWrapOn(key.buf_size, val.buf_size)
  PROVE  /\ entsize_required(key, val) \in Nat
         /\ entsize_required(key, val) <= key.buf_size + val.buf_size + 27
         /\ cstr_size_aligned(key.buf_size) = align_off(key.buf_size + 1)
         /\ key.buf_size + val.buf_size + 3 * HeapLimit + 128 <= U32Mod
         /\ HeapLimit \in Nat /\ U32Mod \in Nat
<1>1. /\ key.buf_size + val.buf_size + 3 * HeapLimit + 128 <= U32Mod
      /\ HeapLimit \in Nat /\ U32Mod \in Nat
  BY WidthAssumption DEF WidthAssumption, NoWrap, NoWrapOn
<1>2. key.buf_size + val.buf_size + 32 < U32Mod
  BY <1>1
<1> QED
  BY <1>1, <1>2, EntsizeExact

\* A name that fits name_len keeps the headers exact.
LEMMA InsertExact ==
  ASSUME NoWrap, NEW d, DbOK(d), NamesExact(d),
         NEW key, NEW val,
         key.buf_size \in Nat, val.buf_size \in Nat,
         NoWrapOn(key.buf_size, val.buf_size), key.buf_size < NameLenMod,
         NEW e, InsertReturns(d, e, key, val), Intact(e)
  PROVE  NamesExact(e)
<1>1. d.entrycnt \in Nat /\ d.buf_len \in Nat
  BY DEF DbOK, IsDb
<1>2. /\ DOMAIN e.arena = DOMAIN d.arena \cup {d.buf_len}
      /\ e.arena[d.buf_len] = Record(d.entrycnt, key, val)
      /\ \A off \in DOMAIN d.arena : e.arena[off] = d.arena[off]
  BY <1>1, InsertOK
<1>3. /\ Record(d.entrycnt, key, val).name_len = key.buf_size
      /\ Record(d.entrycnt, key, val).val_off = align_off(key.buf_size + 1)
  <2>1. key.buf_size % NameLenMod = key.buf_size
    BY WidthAssumption DEF WidthAssumption
  <2>2. cstr_size_aligned(key.buf_size) = align_off(key.buf_size + 1)
    BY EntsizeBounds
  <2> QED
    BY <2>1, <2>2 DEF Record
<1>4. ASSUME NEW off \in DOMAIN e.arena
      PROVE  /\ e.arena[off].name_len < NameLenMod
             /\ e.arena[off].val_off = align_off(e.arena[off].name_len + 1)
  <2>1. CASE off \in DOMAIN d.arena
    BY <1>2, <2>1 DEF NamesExact
  <2>2. CASE off = d.buf_len
    BY <1>2, <1>3, <2>2
  <2> QED
    BY <1>2, <2>1, <2>2
<1> QED
  BY <1>4 DEF NamesExact

\* kvsymdb_insert does not wrap buf_len, and keeps room while records fit.
LEMMA InsertFits ==
  ASSUME NoWrap, NEW d, DbOK(d),
         NEW key \in Keys, NEW val \in Vals,
         NEW e, InsertReturns(d, e, key, val)
  PROVE  /\ e.buf_len + RecHdrSize < U32Mod
         /\ ArenaHolds(d) => ArenaHolds(e)
<1> DEFINE n == entsize_required(key, val)
<1>1. /\ key.buf_size \in Nat /\ val.buf_size \in Nat
      /\ NoWrapOn(key.buf_size, val.buf_size)
  BY DEF NoWrap
<1>2. /\ n \in Nat /\ n <= key.buf_size + val.buf_size + 27
      /\ key.buf_size + val.buf_size + 3 * HeapLimit + 128 <= U32Mod
      /\ HeapLimit \in Nat /\ U32Mod \in Nat
  BY <1>1, EntsizeBounds
<1>3. /\ d.entrycnt \in Nat /\ d.entrycap \in Nat
      /\ d.buf_len \in Nat /\ d.buf_size \in Nat
      /\ d.entrycap + d.buf_size <= HeapLimit
      /\ d.buf_size % 4 = 0
      /\ d.buf_len <= d.buf_size
  BY DEF DbOK, IsDb, BlockOK, ALIGN_SIZE, InsertReturns, InsertAccepts,
         assert_intrnl_state
<1>4. /\ e.buf_len = d.buf_len + n
      /\ e.buf_size = IF NeedsGrowth(d, n) THEN GrownSize(d, n) ELSE d.buf_size
  BY <1>1, <1>3, InsertShape
<1> HIDE DEF n
<1>5. d.buf_len + n + 20 < U32Mod /\ d.buf_len + n < U32Mod
  BY <1>1, <1>2, <1>3
<1>6. ASSUME ArenaHolds(d)
      PROVE  e.buf_len <= e.buf_size /\ d.buf_size <= e.buf_size
  <2>1. n <= d.buf_size
    BY <1>6 DEF ArenaHolds, n
  <2>2. CASE ~NeedsGrowth(d, n)
    <3>1. U32(d.buf_len + n) = d.buf_len + n
      BY <1>2, <1>3, <1>5, U32Exact
    <3> QED
      BY <1>2, <1>3, <1>4, <2>2, <3>1 DEF NeedsGrowth
  <2>3. CASE NeedsGrowth(d, n)
    <3>1. /\ d.buf_size * 2 \in Nat /\ d.buf_size * 2 + 3 < U32Mod
          /\ d.buf_size * 2 < U32Mod /\ (d.buf_size * 2) % 4 = 0
      BY <1>1, <1>2, <1>3
    <3>2. U32(d.buf_size * 2) = d.buf_size * 2
      BY <3>1, U32Exact
    <3>3. align_off(d.buf_size * 2) = d.buf_size * 2
      BY <3>1, AlignExact
    <3>4. ~(n > d.buf_size)
      BY <1>2, <1>3, <2>1
    <3>5. e.buf_size = d.buf_size * 2
      BY <1>4, <2>3, <3>2, <3>3, <3>4 DEF GrownSize
    <3> QED
      BY <1>2, <1>3, <1>4, <2>1, <3>5
  <2> QED
    BY <2>2, <2>3
<1>7. ASSUME ArenaHolds(d)
      PROVE  ArenaHolds(e)
  <2>1. ASSUME NEW k \in Keys, NEW v \in Vals
        PROVE  entsize_required(k, v) \in Nat
    BY EntsizeBounds DEF NoWrap
  <2>2. e.buf_size \in Nat
    BY <1>1, InsertShape DEF IsDb
  <2> QED
    BY <1>3, <1>6, <1>7, <2>1, <2>2 DEF ArenaHolds
<1> QED
  BY <1>4, <1>5, <1>7 DEF RecHdrSize

\* An empty block has no record whose header could be wrong.
LEMMA EmptyExact ==
  ASSUME NEW d, DOMAIN d.arena = {}
  PROVE  NamesExact(d)
BY DEF NamesExact

\* The block the model keeps while there is none is empty.
LEMMA NoDbEmpty == DOMAIN NoDb.arena = {} /\ NoDb.buf_len = 0
BY DEF NoDb, NewDb

\* A step that keeps the arena, and does not make the block smaller, keeps what
\* FitInv says of it.
LEMMA KeptFit ==
  ASSUME NoWrap, FitInv, pc \in {"open", "compacting"},
         pc' \in {"open", "compacting"},
         db'.arena = db.arena, db'.buf_len = db.buf_len,
         db.buf_len \in Nat, db.buf_size \in Nat, db'.buf_size \in Nat,
         db.buf_size <= db'.buf_size, Intact(db') => Intact(db),
         NamesFit => NamesExact(ndb')
  PROVE  FitInv'
<1>1. NamesFit => (Intact(db') => NamesExact(db'))
  BY DEF FitInv, NamesExact
<1>2. RecordsFit => ArenaHolds(db')
  <2>1. ASSUME NEW k \in Keys, NEW v \in Vals
        PROVE  entsize_required(k, v) \in Nat
    BY EntsizeBounds DEF NoWrap
  <2> QED
    BY <2>1 DEF FitInv, ArenaHolds
<1>3. db'.buf_len + RecHdrSize < U32Mod
  BY DEF FitInv
<1> QED
  BY <1>1, <1>2, <1>3 DEF FitInv

\* A step after which there is no block.
LEMMA GoneFit ==
  ASSUME NoWrap, FitInv, pc' \notin {"open", "compacting"},
         \/ db' = NoDb /\ (ndb' = NoDb \/ ndb' = ndb)
         \/ pc \notin {"open", "compacting"} /\ db' = db /\ ndb' = ndb
  PROVE  FitInv'
<1>1. 20 < U32Mod
  BY WidthAssumption DEF NoWrap, NoWrapOn, WidthAssumption
<1>2. NamesExact(NoDb) /\ NoDb.buf_len + RecHdrSize < U32Mod
  BY <1>1, NoDbEmpty, EmptyExact DEF RecHdrSize
<1> QED
  BY <1>2 DEF FitInv

\* The first block satisfies FitInv.
LEMMA CreateFits ==
  ASSUME NoWrap, FitInv,
         NEW entc \in EntCaps, NEW size \in ArenaSizes, Create(entc, size)
  PROVE  FitInv'
<1>1. /\ Creates(db', entc, size) /\ pc' = "open" /\ ndb' = ndb
  BY DEF Create
<1>2. /\ entc \in Nat /\ size \in Nat /\ entc + size + 128 <= U32Mod
      /\ 20 < U32Mod
  <2>1. /\ entc \in Nat /\ size \in Nat /\ HeapLimit \in Nat /\ U32Mod \in Nat
        /\ 2 * entc + HeapLimit + 128 <= U32Mod
        /\ 2 * size + HeapLimit + 128 <= U32Mod
    BY WidthAssumption DEF NoWrap, WidthAssumption
  <2> QED
    BY <2>1
<1>3. ASSUME NEW d2, Creates(d2, entc, size)
      PROVE  /\ DbOK(d2) /\ d2.entrycnt = 0 /\ d2.buf_len = 0
             /\ d2.buf_size = align_off(Clamped(size, INIT_BUFSIZE))
  BY <1>2, <1>3, CreatesOK
<1>4. /\ DbOK(db') /\ db'.entrycnt = 0 /\ db'.buf_len = 0
      /\ db'.buf_size = align_off(Clamped(size, INIT_BUFSIZE))
  BY <1>1, <1>3
<1>5. NamesExact(db')
  BY <1>4, EmptyExact DEF DbOK, Chained
<1>6. RecordsFit => ArenaHolds(db')
  <2>1. db'.buf_len <= db'.buf_size
    BY <1>4 DEF DbOK, IsDb
  <2> QED
    BY <1>4, <2>1 DEF RecordsFit, ArenaHolds
<1> QED
  BY <1>1, <1>2, <1>4, <1>5, <1>6 DEF FitInv, RecHdrSize

\* kvsymdb_reserve and kvsymdb_reserve_arenabuf, when they move the block.
LEMMA ResizedFits ==
  ASSUME NoWrap, IndInv, FitInv, pc = "open", assert_intrnl_state(db),
         pc' = "open", NEW entc \in Nat, NEW size \in Nat,
         db.entrycnt <= entc, size % 4 = 0, entc + size + 64 < U32Mod,
         CanAlloc(entc, size), db.buf_size <= size,
         db' = WithError(Resize(db, entc, size), NOERROR), ndb' = ndb
  PROVE  FitInv'
<1>1. /\ entc + size <= HeapLimit /\ HeapLimit \in Nat
      /\ DbOK(db) /\ Intact(db)
      /\ db.entrycnt \in Nat /\ db.buf_len \in Nat /\ db.buf_size \in Nat
  BY CanAllocBounds, IntactOK DEF NoWrap, DbOK, IsDb
<1>2. PICK g : g = Resize(db, entc, size)
  OBVIOUS
<1>3. DbOK(g) /\ g.arena = db.arena /\ g.buf_len = db.buf_len /\ g.buf_size = size
  BY <1>1, <1>2, ResizeOK
<1>4. NOERROR \in DbCodes /\ db' = WithError(g, NOERROR)
  BY <1>2 DEF DbCodes
<1>5. db'.arena = g.arena /\ db'.buf_len = g.buf_len /\ db'.buf_size = g.buf_size
  BY <1>3, <1>4, ErrCodeOK
<1> QED
  BY <1>1, <1>3, <1>5, KeptFit DEF FitInv

\* A step that sets the error code of the block, and perhaps drops or clears the
\* block of a compaction.
LEMMA CodeFits ==
  ASSUME NoWrap, IndInv, FitInv, pc \in {"open", "compacting"},
         pc' \in {"open", "compacting"},
         NEW code \in DbCodes, db' = WithError(db, code),
         NamesFit => NamesExact(ndb')
  PROVE  FitInv'
<1>1. IsDb(db) /\ db.buf_len \in Nat /\ db.buf_size \in Nat
  BY DEF IndInv, TypeOK, IsDb
<1>2. /\ db'.arena = db.arena /\ db'.buf_len = db.buf_len /\ db'.buf_size = db.buf_size
      /\ Intact(db') <=> Intact(db)
  BY <1>1, CodeOnly
<1> QED
  BY <1>1, <1>2, KeptFit

\* Every step preserves FitInv.
LEMMA FitStep ==
  ASSUME NoWrap, IndInv, FitInv, [Next]_vars
  PROVE  FitInv'
<1>1. ASSUME assert_intrnl_state(db) \/ pc # "open"
      PROVE
      /\ DbOK(db) /\ DbOK(ndb) /\ Intact(db)
      /\ db.entrycnt \in Nat /\ db.entrycap \in Nat
      /\ db.buf_len \in Nat /\ db.buf_size \in Nat
      /\ db.entrycnt <= db.entrycap /\ db.entrycap + db.buf_size <= HeapLimit
      /\ db.buf_size % 4 = 0
      /\ HeapLimit \in Nat /\ U32Mod \in Nat
  BY <1>1, IntactOK, WidthAssumption
     DEF IndInv, DbOK, IsDb, StatesMatch, BlockOK, ALIGN_SIZE, NoWrap,
         WidthAssumption
<1>2. ASSUME NEW code \in DbCodes, pc = "open", OnlyError(code)
      PROVE  FitInv'
  BY <1>2, CodeFits DEF OnlyError, FitInv
<1>3. CASE Abort
  BY <1>3, GoneFit DEF Abort
<1>4. ASSUME NEW entc \in EntCaps, NEW size \in ArenaSizes, Create(entc, size)
      PROVE  FitInv'
  BY <1>4, CreateFits
<1>5. CASE CreateFails \/ NextProcess \/ Destroy
  BY <1>5, GoneFit DEF CreateFails, NextProcess, Destroy
<1>6. ASSUME NEW key \in Keys, NEW val \in Vals, Insert(key, val)
      PROVE  FitInv'
  <2>1. /\ pc = "open" /\ pc' = "open" /\ InsertReturns(db, db', key, val) /\ ndb' = ndb
    BY <1>6 DEF Insert
  <2>2. /\ key.buf_size \in Nat /\ val.buf_size \in Nat
        /\ NoWrapOn(key.buf_size, val.buf_size)
    BY DEF NoWrap
  <2>5. DbOK(db) /\ Intact(db)
    BY <1>1, <2>1 DEF InsertReturns, InsertAccepts
  <2>3. ASSUME NEW d2, InsertReturns(db, d2, key, val)
        PROVE  /\ d2.buf_len + RecHdrSize < U32Mod
               /\ ArenaHolds(db) => ArenaHolds(d2)
    BY <2>5, <2>3, InsertFits
  <2>4. ASSUME NEW d2, InsertReturns(db, d2, key, val), NamesFit, Intact(d2)
        PROVE  NamesExact(d2)
    BY <2>5, <2>2, <2>4, InsertExact DEF NamesFit, FitInv
  <2> QED
    BY <2>1, <2>3, <2>4 DEF FitInv
<1>7. ASSUME NEW off \in DOMAIN db.arena, MarkDead(off)
      PROVE  FitInv'
  <2>1. /\ pc = "open" /\ pc' = "open" /\ db' = Buried(db, off) /\ ndb' = ndb
        /\ assert_intrnl_state(db)
    BY <1>7 DEF MarkDead
  <2>2. db'.arena = db.arena /\ db'.buf_len = db.buf_len /\ db'.buf_size = db.buf_size
    BY <1>1, <2>1 DEF DbOK, IsDb, IsBlock, Buried
  <2> QED
    BY <1>1, <2>1, <2>2, KeptFit DEF FitInv
<1>8. ASSUME NEW entc \in EntCaps, Reserve(entc)
      PROVE  FitInv'
  <2>1. CASE db.entrycap >= entc
    BY <1>2, <1>8, <2>1 DEF Reserve, DbCodes
  <2>2. CASE ~(db.entrycap >= entc)
    <3>1. /\ pc = "open" /\ pc' = "open" /\ CanAlloc(entc, db.buf_size) /\ ndb' = ndb
          /\ db' = WithError(Resize(db, entc, db.buf_size), NOERROR)
          /\ assert_intrnl_state(db)
      BY <1>8, <2>2 DEF Reserve
    <3>2. /\ entc \in Nat /\ db.entrycnt <= entc
          /\ entc + db.buf_size + 64 < U32Mod
      BY <1>1, <2>2, <3>1 DEF NoWrap
    <3> QED
      BY <1>1, <3>1, <3>2, ResizedFits
  <2> QED
    BY <2>1, <2>2
<1>9. ASSUME NEW size \in ArenaSizes, ReserveArenabuf(size)
      PROVE  FitInv'
  <2>1. CASE db.buf_size >= size
    BY <1>2, <1>9, <2>1 DEF ReserveArenabuf, DbCodes
  <2>2. CASE ~(db.buf_size >= size)
    <3>1. /\ pc = "open" /\ pc' = "open" /\ is_aligned_off(size) /\ ndb' = ndb
          /\ CanAlloc(db.entrycap, size)
          /\ db' = WithError(Resize(db, db.entrycap, size), NOERROR)
          /\ assert_intrnl_state(db)
      BY <1>9, <2>2 DEF ReserveArenabuf
    <3>2. /\ size \in Nat /\ db.buf_size <= size
          /\ db.entrycap + size + 64 < U32Mod /\ size + 3 < U32Mod
      BY <1>1, <2>2, <3>1 DEF NoWrap
    <3>3. size % 4 = 0
      BY <3>1, <3>2, AlignExact DEF is_aligned_off
    <3> QED
      BY <1>1, <3>1, <3>2, <3>3, ResizedFits
  <2> QED
    BY <2>1, <2>2
<1>10. ASSUME NEW entc \in EntCaps, ReserveFails(entc)
       PROVE  FitInv'
  BY <1>2, <1>10 DEF ReserveFails, DbCodes
<1>11. ASSUME NEW size \in ArenaSizes, ReserveArenabufFails(size)
       PROVE  FitInv'
  BY <1>2, <1>11 DEF ReserveArenabufFails, DbCodes
<1>12. ASSUME NEW key \in Keys, NEW val \in Vals, InsertRefused(key, val)
       PROVE  FitInv'
  BY <1>2, <1>12 DEF InsertRefused, DbCodes
<1>13. CASE Clearerr \/ CompactNoMemory
  BY <1>2, <1>13 DEF Clearerr, CompactNoMemory, DbCodes
<1>14. CASE CompactBegin
  <2>1. /\ pc = "open" /\ pc' = "compacting" /\ Creates(ndb', db.entrycap, db.buf_size)
        /\ db' = WithError(db, NOERROR)
    BY <1>14 DEF CompactBegin
  <2>2. ndb' = NewDb(Clamped(db.entrycap, INIT_ENTC),
                     align_off(Clamped(db.buf_size, INIT_BUFSIZE)))
    BY <2>1 DEF Creates
  <2>3. NamesExact(ndb')
    BY <2>2, EmptyExact DEF NewDb
  <2> QED
    BY <2>1, <2>3, CodeFits DEF DbCodes
<1>15. CASE CompactSkip
  BY <1>15 DEF CompactSkip, FitInv
<1>16. CASE CompactCopy
  <2> DEFINE name == NameView(db.arena[it])
             data == DataView(db.arena[it])
  <2>1. /\ pc = "compacting" /\ it # db.buf_len
        /\ InsertReturns(ndb, ndb', name, data)
        /\ pc' = pc /\ db' = db
    BY <1>16 DEF CompactCopy, AtRecord
  <2>2. /\ it \in DOMAIN db.arena
        /\ name.buf_size \in Nat /\ data.buf_size \in Nat
        /\ NoWrapOn(name.buf_size, data.buf_size)
    BY <2>1, CompactionFits
  <2>3. NamesFit => name.buf_size < NameLenMod
    BY <1>1, <2>1, <2>2 DEF FitInv, NamesExact, NameView, View
  <2>6. DbOK(ndb) /\ Intact(ndb')
    BY <1>1, <1>16, <2>1, CopyIntact
  <2> HIDE DEF name, data
  <2>4. ASSUME NEW d2, InsertReturns(ndb, d2, name, data), NamesFit, Intact(d2)
        PROVE  NamesExact(d2)
    BY <1>1, <2>6, <2>2, <2>3, <2>4, InsertExact DEF FitInv
  <2>5. NamesFit => NamesExact(ndb')
    BY <2>1, <2>4, <2>6
  <2> QED
    BY <2>1, <2>5 DEF FitInv
<1>17. CASE CompactInsertFails
  <2>1. pc = "compacting" /\ pc' = "open" /\ db' = WithError(db, ERR_INSERT) /\ ndb' = NoDb
    BY <1>17 DEF CompactInsertFails, AtRecord
  <2>2. NamesExact(ndb')
    BY <2>1, NoDbEmpty, EmptyExact
  <2> QED
    BY <2>1, <2>2, CodeFits DEF DbCodes
<1>18. CASE CompactEnd
  <2>1. /\ pc = "compacting" /\ it = db.buf_len /\ pc' = "open"
        /\ db' = ndb /\ ndb' = NoDb
    BY <1>18 DEF CompactEnd
  <2>2. /\ ndb.buf_size = db.buf_size /\ ndb.buf_len <= db.buf_len
        /\ ndb.buf_len \in Nat /\ Intact(ndb)
    BY <1>1, <2>1 DEF IndInv, CompactionOK, DbOK, IsDb, Intact
  <2>3. ndb.buf_len + RecHdrSize < U32Mod
    <3>1. db.buf_len + RecHdrSize < U32Mod /\ db.buf_len \in Nat /\ U32Mod \in Nat
      BY <1>1, <2>1, WidthAssumption DEF FitInv, IndInv, DbOK, IsDb, Intact, WidthAssumption
    <3> QED
      BY <2>2, <3>1 DEF RecHdrSize
  <2>4. RecordsFit => ArenaHolds(ndb)
    BY <1>1, <2>1, <2>2 DEF FitInv, ArenaHolds
  <2>5. NamesExact(NoDb)
    BY NoDbEmpty, EmptyExact
  <2> QED
    BY <2>1, <2>3, <2>4, <2>5 DEF FitInv
<1>19. CASE UNCHANGED vars
  BY <1>19 DEF vars, FitInv
<1> QED
  BY <1>3, <1>4, <1>5, <1>6, <1>7, <1>8, <1>9, <1>10, <1>11, <1>12, <1>13,
     <1>14, <1>15, <1>16, <1>17, <1>18, <1>19
     DEF Next, CompactStep, MarkDeadAborts, ReserveArenabufAborts,
         StateAssertFails, GrowthAborts

\* FitInv holds of every state.
THEOREM FitInvariance == ASSUME NoWrap PROVE Spec => []FitInv
<1>1. Init => FitInv
  <2>1. 20 < U32Mod
    BY WidthAssumption DEF NoWrap, NoWrapOn, WidthAssumption
  <2>2. NamesExact(NoDb) /\ NoDb.buf_len + RecHdrSize < U32Mod
    BY <2>1, NoDbEmpty, EmptyExact DEF RecHdrSize
  <2> QED
    BY <2>2 DEF Init, FitInv
<1>2. IndInv /\ FitInv /\ [Next]_vars => FitInv'
  BY FitStep
<1> QED
  BY <1>1, <1>2, Invariance, PTL DEF Spec

\* As long as no record is larger than the arena the database was created with,
\* kvsymdb_insert never writes past the arena, however often it grows.
THEOREM NoOverrun ==
  ASSUME NoWrap, RecordsFit PROVE Spec => []BufLenWithinBufSize
<1>1. IndInv /\ FitInv => BufLenWithinBufSize
  <2>1. NoDb.buf_len = 0 /\ NoDb.buf_size = 0
    BY DEF NoDb, NewDb
  <2> QED
    BY <2>1 DEF IndInv, FitInv, ArenaHolds, BufLenWithinBufSize
<1> QED
  BY <1>1, Invariance, FitInvariance, PTL

\* The fields of every record add up to its length while names fit.
LEMMA ValidRecord ==
  ASSUME NoWrap, IndInv, FitInv, NamesFit, Intact(db), NEW off \in DOMAIN db.arena
  PROVE  /\ record_size(db.arena[off]) = db.arena[off].record_len
         /\ is_aligned_off(off)
         /\ off \in Nat /\ db.buf_len \in Nat
         /\ db.arena[off].record_len \in Nat
         /\ EndOf(db.arena, off) = off + db.arena[off].record_len
         /\ EndOf(db.arena, off) <= db.buf_len
         /\ db.arena[off].id \in Nat /\ db.arena[off].id < db.entrycnt
<1> DEFINE ent == db.arena[off]
<1>1. /\ off \in Nat /\ off % 4 = 0 /\ db.buf_len \in Nat
      /\ IsRecord(ent) /\ RecordOK(ent)
      /\ EndOf(db.arena, off) = off + ent.record_len
      /\ off < off + ent.record_len /\ off + ent.record_len <= db.buf_len
      /\ ent.id < db.entrycnt
  BY IntactOK DEF DbOK, IsDb, Chained, EndOf, ALIGN_SIZE
<1>2. ent.val_off = align_off(ent.name_len + 1)
  BY DEF FitInv, NamesExact
<1>3. db.buf_len + 20 < U32Mod
  BY DEF FitInv, RecHdrSize
<1> HIDE DEF ent
<1>4. /\ ent.name_len \in Nat /\ ent.data_len \in Nat /\ ent.record_len \in Nat
      /\ ent.id \in Nat
      /\ NoWrapOn(ent.name_len, ent.data_len)
      /\ ent.record_len = 20 + ent.val_off + align_off(ent.data_len)
  BY <1>1 DEF IsRecord, RecordOK, RecHdrSize
<1>5. record_size(ent) = ent.record_len
  <2> DEFINE key == NameView(ent)
             val == DataView(ent)
  <2>1. key.buf_size = ent.name_len /\ val.buf_size = ent.data_len
    BY DEF NameView, DataView, View
  <2>2. record_size(ent) = entsize_required(key, val)
    BY <2>1 DEF record_size, entsize_required
  <2>3. key.buf_size + val.buf_size + 32 < U32Mod
    BY <1>4, <2>1, WidthAssumption DEF NoWrap, NoWrapOn, WidthAssumption
  <2> HIDE DEF key, val
  <2>4. entsize_required(key, val)
          = 20 + align_off(ent.name_len + 1) + align_off(ent.data_len)
    BY <1>4, <2>1, <2>3, EntsizeExact
  <2> QED
    BY <1>2, <1>4, <2>2, <2>4
<1>6. is_aligned_off(off)
  <2>1. off + 3 < U32Mod
    BY <1>1, <1>3, <1>4, WidthAssumption DEF WidthAssumption
  <2> QED
    BY <1>1, <2>1, AlignExact DEF is_aligned_off
<1> QED
  BY <1>1, <1>4, <1>5, <1>6 DEF ent

\* As long as every name fits the width of name_len, every record the library
\* wrote passes the assertions of _is_valid_entry, over all growths and
\* compactions: no reader and no kvsymdb_mark_dead aborts on it.
THEOREM EntriesSafe == ASSUME NoWrap, NamesFit PROVE Spec => []EntriesStayValid
<1>1. ASSUME IndInv, FitInv, Intact(db), NEW off \in DOMAIN db.arena
      PROVE  is_valid_entry(db, off)
  BY <1>1, ValidRecord DEF is_valid_entry
<1>2. IndInv /\ FitInv => EntriesStayValid
  BY <1>1 DEF EntriesStayValid
<1> QED
  BY <1>2, Invariance, FitInvariance, PTL

-----------------------------------------------------------------------------
(* The log that the records of a block make *)

\* No two records have the same id.
LEMMA SameId ==
  ASSUME NEW d, DbOK(d), NEW o \in DOMAIN d.arena, NEW p \in DOMAIN d.arena,
         d.arena[o].id = d.arena[p].id
  PROVE  o = p
<1>1. o \in Nat /\ p \in Nat /\ d.arena[o].id \in Nat
  BY DEF DbOK, IsDb, IsRecord
<1>2. /\ o < p => d.arena[o].id < d.arena[p].id
      /\ p < o => d.arena[p].id < d.arena[o].id
  BY DEF DbOK, Chained
<1> QED
  BY <1>1, <1>2

\* Every id below entrycnt is that of a record.
LEMMA EveryId ==
  ASSUME NEW d, DbOK(d), NEW id \in Nat, id < d.entrycnt
  PROVE  \E off \in DOMAIN d.arena : d.arena[off].id = id
<1> DEFINE S == {i \in Nat : i < d.entrycnt => \E off \in DOMAIN d.arena : d.arena[off].id = i}
<1>1. d.entrycnt \in Nat
  BY DEF DbOK, IsDb
<1>2. 0 \in S
  BY <1>1 DEF DbOK, Chained
<1>3. ASSUME NEW i \in Nat, i \in S PROVE i + 1 \in S
  <2> SUFFICES ASSUME i + 1 < d.entrycnt PROVE \E off \in DOMAIN d.arena : d.arena[off].id = i + 1
    OBVIOUS
  <2>1. PICK off \in DOMAIN d.arena : d.arena[off].id = i
    BY <1>1, <1>3
  <2>2. i + 1 # d.entrycnt
    BY <1>1
  <2> QED
    BY <2>1, <2>2 DEF DbOK, Chained
<1> HIDE DEF S
<1>4. Nat \subseteq S
  BY <1>2, <1>3, Induction
<1> QED
  BY <1>4 DEF S

\* The places of a walk.
IsPlaces(f, d) == f = [n \in 0..d.entrycnt |-> IF n = 0 THEN 0 ELSE EndOf(d.arena, f[n - 1])]

\* A walk can be made.
LEMMA PlacesExist ==
  ASSUME NEW d, DbOK(d)
  PROVE  \E f : IsPlaces(f, d)
<1> DEFINE At(n) == CHOOSE off \in DOMAIN d.arena : d.arena[off].id = n
           f == [n \in 0..d.entrycnt |-> IF n = d.entrycnt THEN d.buf_len ELSE At(n)]
<1>1. d.entrycnt \in Nat
  BY DEF DbOK, IsDb
<1>2. \A n \in Nat : n < d.entrycnt => At(n) \in DOMAIN d.arena /\ d.arena[At(n)].id = n
  <2> TAKE n \in Nat
  <2> HAVE n < d.entrycnt
  <2>1. \E off \in DOMAIN d.arena : d.arena[off].id = n
    BY EveryId
  <2> QED
    BY <2>1
<1> HIDE DEF At
<1>3. \A n \in 0..d.entrycnt : f[n] = IF n = 0 THEN 0 ELSE EndOf(d.arena, f[n - 1])
  <2> TAKE n \in 0..d.entrycnt
  <2>1. n \in Nat /\ n <= d.entrycnt
    BY <1>1
  <2>2. CASE n = 0 /\ d.entrycnt = 0
    BY <2>2 DEF DbOK, Chained
  <2>3. CASE n = 0 /\ d.entrycnt # 0
    <3>1. 0 \in DOMAIN d.arena /\ d.arena[0].id = 0 /\ 0 < d.entrycnt
      BY <1>1, <2>3 DEF DbOK, Chained
    <3>2. At(0) = 0
      BY <1>2, <3>1, SameId
    <3> QED
      BY <2>3, <3>2
  <2>4. CASE n # 0
    <3>1. n - 1 \in Nat /\ n - 1 < d.entrycnt /\ n - 1 \in 0..d.entrycnt /\ n - 1 # d.entrycnt /\ (n - 1) + 1 = n
      BY <1>1, <2>1, <2>4
    <3> DEFINE p == At(n - 1)
    <3>2. f[n - 1] = p /\ p \in DOMAIN d.arena /\ d.arena[p].id = n - 1
      BY <1>2, <3>1
    <3> HIDE DEF p
    <3>3. IF n = d.entrycnt THEN EndOf(d.arena, p) = d.buf_len
          ELSE EndOf(d.arena, p) \in DOMAIN d.arena /\ d.arena[EndOf(d.arena, p)].id = n
      BY <3>1, <3>2 DEF DbOK, Chained
    <3>4. n # d.entrycnt => At(n) = EndOf(d.arena, p)
      BY <1>1, <1>2, <2>1, <3>3, SameId
    <3>5. f[n] = IF n = d.entrycnt THEN d.buf_len ELSE At(n)
      OBVIOUS
    <3> HIDE DEF f
    <3> QED
      BY <2>4, <3>2, <3>3, <3>4, <3>5
  <2> QED
    BY <2>2, <2>3, <2>4
<1>4. f = [n \in 0..d.entrycnt |-> f[n]]
  OBVIOUS
<1> HIDE DEF f
<1>5. IsPlaces(f, d)
  BY <1>3, <1>4 DEF IsPlaces
<1> QED
  BY <1>5

\* A walk meets the records in the order of their ids.
LEMMA PlacesMeet ==
  ASSUME NEW d, DbOK(d), NEW f, IsPlaces(f, d), NEW id \in Nat, id < d.entrycnt
  PROVE  f[id] \in DOMAIN d.arena /\ d.arena[f[id]].id = id
<1> DEFINE S == {i \in Nat : i < d.entrycnt => f[i] \in DOMAIN d.arena /\ d.arena[f[i]].id = i}
<1>1. d.entrycnt \in Nat
  BY DEF DbOK, IsDb
<1>2. 0 \in S
  <2>1. f[0] = 0
    BY <1>1 DEF IsPlaces
  <2> QED
    BY <1>1, <2>1 DEF DbOK, Chained
<1>3. ASSUME NEW i \in Nat, i \in S PROVE i + 1 \in S
  <2> SUFFICES ASSUME i + 1 < d.entrycnt PROVE f[i + 1] \in DOMAIN d.arena /\ d.arena[f[i + 1]].id = i + 1
    OBVIOUS
  <2>1. f[i] \in DOMAIN d.arena /\ d.arena[f[i]].id = i
    BY <1>1, <1>3
  <2>2. i + 1 \in 0..d.entrycnt /\ i + 1 # 0 /\ (i + 1) - 1 = i /\ i + 1 # d.entrycnt
    BY <1>1
  <2>3. f[i + 1] = EndOf(d.arena, f[i])
    BY <2>2 DEF IsPlaces
  <2> QED
    BY <2>1, <2>2, <2>3 DEF DbOK, Chained
<1> HIDE DEF S
<1>4. Nat \subseteq S
  BY <1>2, <1>3, Induction
<1> QED
  BY <1>4 DEF S

\* What a walk finds: at each id, the record that has it.
LEMMA WalkIs ==
  ASSUME NEW d, DbOK(d)
  PROVE  /\ d.entrycnt \in Nat
         /\ Walk(d) = [n \in 1..d.entrycnt |-> Walk(d)[n]]
         /\ \A off \in DOMAIN d.arena :
              d.arena[off].id + 1 \in 1..d.entrycnt /\ Walk(d)[d.arena[off].id + 1] = EntryAt(d, off)
         /\ \A n \in 1..d.entrycnt : \E off \in DOMAIN d.arena :
              d.arena[off].id = n - 1 /\ Walk(d)[n] = EntryAt(d, off)
<1> DEFINE Tab(f) == f = [n \in 0..d.entrycnt |-> IF n = 0 THEN 0 ELSE EndOf(d.arena, f[n - 1])]
           c == CHOOSE f : Tab(f)
<1>1. PICK g : IsPlaces(g, d)
  BY PlacesExist
<1>2. Tab(g)
  BY <1>1, Zenon DEF IsPlaces
<1>3. Tab(c)
  <2> HIDE DEF Tab
  <2> QED
    BY <1>2
<1>4. Walk(d) = [n \in 1..d.entrycnt |-> EntryAt(d, c[n - 1])]
  BY DEF Walk
<1> HIDE DEF c
<1>5. IsPlaces(c, d)
  BY <1>3, Zenon DEF IsPlaces
<1>6. d.entrycnt \in Nat
  BY DEF DbOK, IsDb
<1>7. \A n \in 1..d.entrycnt : \E off \in DOMAIN d.arena : d.arena[off].id = n - 1 /\ Walk(d)[n] = EntryAt(d, off)
  <2> TAKE n \in 1..d.entrycnt
  <2>1. n - 1 \in Nat /\ n - 1 < d.entrycnt
    BY <1>6
  <2>2. c[n - 1] \in DOMAIN d.arena /\ d.arena[c[n - 1]].id = n - 1
    BY <1>5, <2>1, PlacesMeet
  <2>3. Walk(d)[n] = EntryAt(d, c[n - 1])
    BY <1>4
  <2> QED
    BY <2>2, <2>3
<1>8. \A off \in DOMAIN d.arena : d.arena[off].id \in Nat /\ d.arena[off].id < d.entrycnt
  BY DEF DbOK, IsDb, IsRecord, Chained
<1>9. \A off \in DOMAIN d.arena :
        d.arena[off].id + 1 \in 1..d.entrycnt /\ Walk(d)[d.arena[off].id + 1] = EntryAt(d, off)
  <2> TAKE off \in DOMAIN d.arena
  <2> DEFINE n == d.arena[off].id + 1
  <2>1. n \in 1..d.entrycnt /\ n - 1 = d.arena[off].id
    BY <1>6, <1>8
  <2> HIDE DEF n
  <2>2. PICK p \in DOMAIN d.arena : d.arena[p].id = n - 1 /\ Walk(d)[n] = EntryAt(d, p)
    BY <1>7, <2>1
  <2>3. p = off
    BY <2>1, <2>2, SameId
  <2> QED
    BY <2>1, <2>2, <2>3 DEF n
<1>10. Walk(d) = [n \in 1..d.entrycnt |-> Walk(d)[n]]
  BY <1>4
<1> QED
  BY <1>6, <1>7, <1>9, <1>10

\* An empty block is an empty log.
LEMMA WalkEmpty ==
  ASSUME NEW d, d.entrycnt = 0
  PROVE  Walk(d) = <<>>
<1>1. 1..0 = {}
  OBVIOUS
<1> QED
  BY <1>1 DEF Walk

\* The same records with the same states are the same log.
LEMMA WalkSame ==
  ASSUME NEW d, DbOK(d), NEW e, DbOK(e),
         e.entrycnt = d.entrycnt, e.arena = d.arena,
         \A id \in 0..(d.entrycnt - 1) : e.state_arr[id] = d.state_arr[id]
  PROVE  Walk(e) = Walk(d)
<1>1. \A n \in 1..d.entrycnt : Walk(e)[n] = Walk(d)[n]
  <2> TAKE n \in 1..d.entrycnt
  <2>1. PICK off \in DOMAIN d.arena : d.arena[off].id = n - 1 /\ Walk(d)[n] = EntryAt(d, off)
    BY WalkIs
  <2>2. d.entrycnt \in Nat
    BY WalkIs
  <2>3. Walk(e)[n] = EntryAt(e, off)
    <3>1. Walk(e)[e.arena[off].id + 1] = EntryAt(e, off)
      BY WalkIs
    <3> QED
      BY <2>1, <2>2, <3>1
  <2>4. e.state_arr[d.arena[off].id] = d.state_arr[d.arena[off].id]
    BY <2>1, <2>2
  <2> QED
    BY <2>1, <2>3, <2>4 DEF EntryAt, IsDead
<1>2. /\ Walk(d) = [n \in 1..d.entrycnt |-> Walk(d)[n]]
      /\ Walk(e) = [n \in 1..d.entrycnt |-> Walk(e)[n]]
  BY WalkIs
<1> QED
  BY <1>1, <1>2

\* A walk is a sequence.
LEMMA WalkSeq ==
  ASSUME NEW d, DbOK(d)
  PROVE  /\ Walk(d) \in Seq({Walk(d)[n] : n \in 1..d.entrycnt})
         /\ Len(Walk(d)) = d.entrycnt /\ DOMAIN Walk(d) = 1..d.entrycnt /\ d.entrycnt \in Nat
<1> DEFINE w == Walk(d)
           S == {w[n] : n \in 1..d.entrycnt}
<1>1. d.entrycnt \in Nat /\ w = [n \in 1..d.entrycnt |-> w[n]]
  BY WalkIs
<1>2. \A n \in 1..d.entrycnt : w[n] \in S
  OBVIOUS
<1> HIDE DEF w, S
<1>3. w \in [1..d.entrycnt -> S]
  BY <1>1, <1>2
<1>4. w \in Seq(S)
  BY <1>1, <1>3
<1>5. Len(w) = d.entrycnt
  BY <1>1, <1>3, <1>4, LenProperties
<1> QED
  BY <1>1, <1>3, <1>4, <1>5 DEF w, S

\* An insertion appends to the log what the header tells of the new record.
LEMMA WalkAppend ==
  ASSUME NoWrap, NEW d, DbOK(d),
         NEW key, NEW val,
         key.buf_size \in Nat, val.buf_size \in Nat,
         NoWrapOn(key.buf_size, val.buf_size),
         NEW e, InsertReturns(d, e, key, val), Intact(e)
  PROVE  Walk(e) = Append(Walk(d), [name  |-> NameView(Record(d.entrycnt, key, val)),
                                    data  |-> DataView(Record(d.entrycnt, key, val)),
                                    alive |-> TRUE])
<1>6. d.entrycnt \in Nat
  BY DEF DbOK, IsDb
<1>2. /\ \A off \in DOMAIN d.arena : /\ off \in DOMAIN e.arena
                                      /\ e.arena[off] = d.arena[off]
      /\ \A id \in 0..(d.entrycnt - 1) : e.state_arr[id] = d.state_arr[id]
  BY <1>6, InsertOK
<1> DEFINE cnt == d.entrycnt
           ent == Record(cnt, key, val)
           new == [name |-> NameView(ent), data |-> DataView(ent), alive |-> TRUE]
<1>0. e.entrycnt = cnt + 1
  BY InsertShape
<1>1. /\ DbOK(e) /\ e.entrycnt = cnt + 1
      /\ DOMAIN e.arena = DOMAIN d.arena \cup {d.buf_len}
      /\ e.arena[d.buf_len] = ent
  BY <1>0, InsertOK
<1>3. e.state_arr[cnt] = ST_ALIVE
  BY InsertOK
<1>4. ent.id = cnt
  BY DEF Record
<1> HIDE DEF ent
<1>5. EntryAt(e, d.buf_len) = new
  BY <1>1, <1>3, <1>4 DEF EntryAt, IsDead, ST_ALIVE, ST_DEAD
<1>7. Walk(e)[cnt + 1] = new
  <2>1. d.buf_len \in DOMAIN e.arena
    BY <1>1
  <2>2. Walk(e)[e.arena[d.buf_len].id + 1] = EntryAt(e, d.buf_len)
    BY <1>1, <2>1, WalkIs
  <2> QED
    BY <1>1, <1>4, <1>5, <2>2
<1> HIDE DEF new
<1>8. \A n \in 1..cnt : Walk(e)[n] = Walk(d)[n]
  <2> TAKE n \in 1..cnt
  <2>1. PICK off \in DOMAIN d.arena : d.arena[off].id = n - 1 /\ Walk(d)[n] = EntryAt(d, off)
    BY WalkIs
  <2>2. off \in DOMAIN e.arena /\ e.arena[off] = d.arena[off]
    BY <1>2
  <2>3. Walk(e)[e.arena[off].id + 1] = EntryAt(e, off)
    BY <1>1, <2>2, WalkIs
  <2>4. (n - 1) + 1 = n /\ n - 1 \in 0..(cnt - 1)
    BY <1>6
  <2>5. EntryAt(e, off) = EntryAt(d, off)
    BY <1>2, <2>1, <2>2, <2>4 DEF EntryAt, IsDead
  <2> QED
    BY <2>1, <2>2, <2>3, <2>4, <2>5
<1>9. Walk(e) = [n \in 1..(cnt + 1) |-> Walk(e)[n]]
  BY <1>1, WalkIs
<1> DEFINE w == Walk(d)
           x == Walk(e)
           T == {w[n] : n \in 1..cnt} \cup {new}
<1>10. w \in Seq(T) /\ Len(w) = cnt
  <2>1. w = [n \in 1..cnt |-> w[n]] /\ Len(w) = cnt
    BY WalkIs, WalkSeq
  <2>2. \A n \in 1..cnt : w[n] \in T
    OBVIOUS
  <2>3. cnt \in Nat
    BY <1>6
  <2> HIDE DEF w, T, cnt
  <2>4. [n \in 1..cnt |-> w[n]] \in Seq(T)
    BY <2>2, <2>3
  <2> QED
    BY <2>1, <2>4
<1>11. new \in T /\ x = [n \in 1..(cnt + 1) |-> x[n]] /\ x[cnt + 1] = new /\ \A n \in 1..cnt : x[n] = w[n]
  BY <1>7, <1>8, <1>9
<1>6a. cnt \in Nat
  BY <1>6
<1> HIDE DEF w, x, cnt, T
<1>12. Append(w, new) \in Seq(T) /\ Len(Append(w, new)) = cnt + 1
       /\ \A n \in 1..(cnt + 1) : Append(w, new)[n] = IF n = cnt + 1 THEN new ELSE w[n]
  BY <1>6a, <1>10, <1>11, AppendProperties
<1>13. x \in Seq(T) /\ Len(x) = cnt + 1 /\ \A n \in 1..(cnt + 1) : x[n] = Append(w, new)[n]
  <2>1. \A n \in 1..(cnt + 1) : n = cnt + 1 \/ n \in 1..cnt
    BY <1>6a
  <2>2. \A n \in 1..cnt : w[n] \in T
    BY <1>10, ElementOfSeq
  <2>3. \A n \in 1..(cnt + 1) : x[n] \in T
    BY <1>11, <2>1, <2>2
  <2>4. x \in [1..(cnt + 1) -> T]
    BY <1>11, <2>3
  <2>5. x \in Seq(T) /\ Len(x) = cnt + 1
    BY <1>6a, <2>4, LenProperties
  <2> QED
    BY <1>6a, <1>11, <1>12, <2>1, <2>5
<1>14. x = Append(w, new)
  BY <1>12, <1>13, SeqEqual
<1> QED
  BY <1>14 DEF w, x, new, ent, cnt

WithAlive(entry, alive) == [entry EXCEPT !.alive = alive]

\* Marking a record dead kills its entry.
LEMMA WalkBuried ==
  ASSUME NEW d, DbOK(d), NEW off \in DOMAIN d.arena, NEW e, e = Buried(d, off)
  PROVE  /\ d.arena[off].id + 1 \in DOMAIN Walk(d)
         /\ Walk(e) = [Walk(d) EXCEPT ![d.arena[off].id + 1].alive = FALSE]
<1>0. PICK no : no = FALSE
  OBVIOUS
<1> DEFINE i == d.arena[off].id + 1
<1>1. /\ e.arena = d.arena /\ e.entrycnt = d.entrycnt
      /\ e.state_arr = [d.state_arr EXCEPT ![d.arena[off].id] = ST_DEAD]
  BY DEF DbOK, IsDb, IsBlock, Buried
<1>2. DbOK(e)
  BY MarkDeadOK
<1>3. d.state_arr \in [0..(d.entrycap - 1) -> {ST_EMPTY, ST_ALIVE, ST_DEAD}]
  BY DEF DbOK, IsDb
<1>4. \A p \in DOMAIN d.arena : d.arena[p].id \in 0..(d.entrycap - 1)
  BY DEF DbOK, IsDb, IsRecord, Chained, StatesMatch
<1>5. i \in 1..d.entrycnt /\ DOMAIN Walk(d) = 1..d.entrycnt /\ d.entrycnt \in Nat
  BY WalkIs, WalkSeq
<1>6. \A n \in 1..d.entrycnt : Walk(e)[n] = IF n = i THEN WithAlive(Walk(d)[n], no) ELSE Walk(d)[n]
  <2> TAKE n \in 1..d.entrycnt
  <2>1. PICK p \in DOMAIN d.arena : d.arena[p].id = n - 1 /\ Walk(d)[n] = EntryAt(d, p)
    BY WalkIs
  <2>2. Walk(e)[e.arena[p].id + 1] = EntryAt(e, p)
    BY <1>1, <1>2, WalkIs
  <2>3. (n - 1) + 1 = n
    BY <1>5
  <2>4. Walk(e)[n] = EntryAt(e, p)
    BY <1>1, <2>1, <2>2, <2>3
  <2>5. CASE p = off
    <3>1. n = i
      BY <2>1, <2>3, <2>5
    <3>2. IsDead(e, p)
      BY <1>1, <1>3, <1>4, <2>5 DEF IsDead
    <3> DEFINE r == EntryAt(d, p)
               s == EntryAt(e, p)
    <3>3. s.alive = FALSE
      BY <3>2 DEF EntryAt
    <3>4. s.name = r.name /\ s.data = r.data
      BY <1>1 DEF EntryAt
    <3>5. /\ r = [name |-> r.name, data |-> r.data, alive |-> r.alive]
          /\ s = [name |-> s.name, data |-> s.data, alive |-> s.alive]
      BY DEF EntryAt
    <3> HIDE DEF r, s
    <3>6. s = WithAlive(r, no)
      BY <1>0, <3>3, <3>4, <3>5 DEF WithAlive
    <3> QED
      BY <2>1, <2>4, <3>1, <3>6 DEF r, s
  <2>6. CASE p # off
    <3>1. d.arena[p].id # d.arena[off].id
      BY <2>6, SameId
    <3>2. n # i
      BY <1>4, <2>1, <2>3, <3>1
    <3>3. IsDead(e, p) = IsDead(d, p)
      BY <1>1, <1>3, <1>4, <3>1 DEF IsDead
    <3>4. EntryAt(e, p) = EntryAt(d, p)
      BY <1>1, <3>3 DEF EntryAt
    <3> QED
      BY <2>1, <2>4, <3>2, <3>4
  <2> QED
    BY <2>5, <2>6
<1> DEFINE w == Walk(d)
           x == Walk(e)
<1>7. w = [n \in 1..d.entrycnt |-> w[n]] /\ x = [n \in 1..d.entrycnt |-> x[n]]
  BY <1>1, <1>2, WalkIs
<1>8. \A n \in 1..d.entrycnt : x[n] = IF n = i THEN WithAlive(w[n], no) ELSE w[n]
  BY <1>6
<1> HIDE DEF w, x, i
<1>9. x = [w EXCEPT ![i].alive = no]
  BY <1>5, <1>7, <1>8 DEF WithAlive
<1>10. x = [w EXCEPT ![i].alive = FALSE]
  BY <1>0, <1>9, Zenon
<1> QED
  BY <1>5, <1>10 DEF w, x, i

\* A name that fits name_len is the name that the header tells of, and so is the value.
LEMMA ViewsBack ==
  ASSUME NoWrap, NEW id, NEW key, NEW val,
         key = View(key.buf_size, key.buf_data), val = View(val.buf_size, val.buf_data),
         key.buf_size \in Nat, val.buf_size \in Nat,
         NoWrapOn(key.buf_size, val.buf_size), key.buf_size < NameLenMod
  PROVE  NameView(Record(id, key, val)) = key /\ DataView(Record(id, key, val)) = val
<1> DEFINE ent == Record(id, key, val)
<1>1. key.buf_size % NameLenMod = key.buf_size
  BY WidthAssumption DEF WidthAssumption
<1>2. U32(val.buf_size) = val.buf_size
  <2>1. val.buf_size < U32Mod
    BY WidthAssumption DEF WidthAssumption, NoWrap, NoWrapOn
  <2> QED
    BY <2>1, U32Exact
<1>3. /\ ent.name_len = key.buf_size /\ ent.data_len = val.buf_size
      /\ ent.key = key.buf_data /\ ent.val = val.buf_data
      /\ ent.val_off = cstr_size_aligned(key.buf_size)
  BY <1>1, <1>2 DEF Record
<1> HIDE DEF ent
<1>4. NameView(ent) = View(key.buf_size, key.buf_data)
  BY <1>3 DEF NameView
<1>5. DataView(ent) = View(val.buf_size, val.buf_data)
  BY <1>3 DEF DataView
<1> QED
  BY <1>4, <1>5 DEF ent

\* kvsymdb_insert appends the entry it is called with.
LEMMA InsertAppends ==
  ASSUME NoWrap, NEW d, DbOK(d), NEW key, NEW val,
         key = View(key.buf_size, key.buf_data), val = View(val.buf_size, val.buf_data),
         key.buf_size \in Nat, val.buf_size \in Nat,
         NoWrapOn(key.buf_size, val.buf_size), key.buf_size < NameLenMod,
         NEW e, InsertReturns(d, e, key, val), Intact(e)
  PROVE  Walk(e) = Append(Walk(d), [name |-> key, data |-> val, alive |-> TRUE])
<1>1. NameView(Record(d.entrycnt, key, val)) = key /\ DataView(Record(d.entrycnt, key, val)) = val
  BY ViewsBack
<1>2. Walk(e) = Append(Walk(d), [name  |-> NameView(Record(d.entrycnt, key, val)),
                                 data  |-> DataView(Record(d.entrycnt, key, val)),
                                 alive |-> TRUE])
  BY WalkAppend
<1> QED
  BY <1>1, <1>2, Zenon

\* A larger block has the log of the one it replaces.
LEMMA WalkResized ==
  ASSUME NoWrap, NEW d, DbOK(d),
         NEW entc \in Nat, NEW size \in Nat,
         d.entrycnt <= entc, size % 4 = 0, entc + size + 64 < U32Mod,
         CanAlloc(entc, size),
         NEW e, e = WithError(Resize(d, entc, size), NOERROR)
  PROVE  Walk(e) = Walk(d)
<1>1. /\ entc + size <= HeapLimit
      /\ HeapLimit \in Nat /\ d.entrycnt \in Nat
  BY CanAllocBounds DEF NoWrap, DbOK, IsDb
<1>2. PICK g : g = Resize(d, entc, size)
  OBVIOUS
<1>3. /\ DbOK(g) /\ g.arena = d.arena /\ g.entrycnt = d.entrycnt
      /\ \A id \in 0..(d.entrycnt - 1) : g.state_arr[id] = d.state_arr[id]
  BY <1>1, <1>2, ResizeOK
<1>4. DbOK(e) /\ e.arena = g.arena /\ e.state_arr = g.state_arr /\ e.entrycnt = g.entrycnt
  <2>1. NOERROR \in DbCodes
    BY DEF DbCodes
  <2> QED
    BY <1>2, <1>3, <2>1, ErrCodeOK
<1> QED
  BY <1>3, <1>4, WalkSame

\* The error code is no part of the log.
LEMMA WalkErrCode ==
  ASSUME NEW d, DbOK(d), NEW code \in DbCodes, NEW e, e = WithError(d, code)
  PROVE  Walk(e) = Walk(d)
BY ErrCodeOK, WalkSame

-----------------------------------------------------------------------------
(* The block that a compaction fills *)

\* The number of records a compaction has passed.
Passed == IF it = db.buf_len THEN db.entrycnt ELSE db.arena[it].id

\* The new block is the log of the live records that the walk has passed.
LogInv ==
  pc = "compacting" =>
    Walk(ndb) = Selection(SubSeq(Walk(db), 1, Passed), Log!AliveIn(Walk(db)))

\* What is in front of a compaction.
LEMMA NextPassed ==
  ASSUME NoWrap, IndInv, AtRecord,
         NEW end, end = EndOf(db.arena, it)
  PROVE  /\ it \in DOMAIN db.arena
         /\ Passed = db.arena[it].id /\ Passed \in Nat /\ Passed < Len(Walk(db))
         /\ (IF end = db.buf_len THEN db.entrycnt ELSE db.arena[end].id) = Passed + 1
         /\ Walk(db)[Passed + 1] = EntryAt(db, it)
<1>1. pc = "compacting" /\ it # db.buf_len
  BY DEF AtRecord
<1>2. it \in DOMAIN db.arena /\ DbOK(db)
  BY <1>1, IntactOK DEF IndInv, CompactionOK
<1>3. Passed = db.arena[it].id
  BY <1>1 DEF Passed
<1>4. db.arena[it].id \in Nat /\ db.arena[it].id < db.entrycnt /\ db.entrycnt \in Nat
  BY <1>2 DEF DbOK, IsDb, IsRecord, Chained
<1>5. Len(Walk(db)) = db.entrycnt
  BY <1>2, WalkSeq
<1>6. Walk(db)[db.arena[it].id + 1] = EntryAt(db, it)
  BY <1>2, WalkIs
<1>7. IF db.arena[it].id + 1 = db.entrycnt THEN end = db.buf_len
      ELSE end \in DOMAIN db.arena /\ db.arena[end].id = db.arena[it].id + 1
  BY <1>2 DEF DbOK, Chained
<1>8. end \in DOMAIN db.arena => end # db.buf_len
  <2> SUFFICES ASSUME end \in DOMAIN db.arena PROVE end # db.buf_len
    OBVIOUS
  <2>1. end < EndOf(db.arena, end) /\ EndOf(db.arena, end) <= db.buf_len
    BY <1>2 DEF DbOK, Chained
  <2>2. end \in Nat /\ db.arena[end].record_len \in Nat /\ db.buf_len \in Nat
    BY <1>2 DEF DbOK, IsDb, IsRecord
  <2> QED
    BY <2>1, <2>2 DEF EndOf
<1> QED
  BY <1>2, <1>3, <1>4, <1>5, <1>6, <1>7, <1>8

\* Selections of the specification of the log are those of Selections.
LEMMA LogSelection == \A s, S : Log!Selection(s, S) = Selection(s, S)
BY DEF Log!Selection, Selection

\* An entry of a log is among its live ones if it is alive.
LEMMA LiveEntry ==
  ASSUME NEW w, NEW n \in DOMAIN w
  PROVE  w[n] \in Log!AliveIn(w) <=> w[n].alive
BY DEF Log!AliveIn, Log!IsAlive

\* A compaction starts with an empty block before the first record.
LEMMA CompactBeginLog ==
  ASSUME NoWrap, IndInv, CompactBegin
  PROVE  Walk(db') = Walk(db) /\ LogInv'
<1>0. DbOK(db)
  BY IntactOK DEF CompactBegin
<1>1. /\ Creates(ndb', db.entrycap, db.buf_size)
      /\ db' = WithError(db, NOERROR) /\ it' = 0
  BY DEF CompactBegin
<1>2. DbOK(db) /\ DbOK(db') /\ db'.buf_len = db.buf_len /\ db'.entrycnt = db.entrycnt /\ db'.arena = db.arena
  BY <1>0, <1>1, ErrCodeOK DEF DbCodes
<1>3. Walk(db') = Walk(db)
  BY <1>1, <1>2, WalkErrCode DEF DbCodes
<1>4. ndb'.entrycnt = 0
  BY <1>1 DEF Creates, NewDb
<1>5. Passed' = 0
  <2>1. db.entrycnt \in Nat /\ db.buf_len \in Nat /\ DOMAIN db.arena \subseteq Nat
    BY <1>2 DEF DbOK, IsDb
  <2>2. CASE db.entrycnt = 0
    BY <1>1, <1>2, <2>2 DEF Passed, DbOK, Chained
  <2>3. CASE db.entrycnt # 0
    <3>1. 0 \in DOMAIN db.arena /\ db.arena[0].id = 0
      BY <1>2, <2>1, <2>3 DEF DbOK, Chained
    <3>2. 0 < EndOf(db.arena, 0) /\ EndOf(db.arena, 0) <= db.buf_len
      BY <1>2, <3>1 DEF DbOK, Chained
    <3>3. EndOf(db.arena, 0) \in Nat
      BY <1>2, <3>1 DEF DbOK, IsDb, IsRecord, EndOf
    <3> QED
      BY <1>1, <1>2, <2>1, <3>1, <3>2, <3>3 DEF Passed
  <2> QED
    BY <2>2, <2>3
<1>6. SubSeq(Walk(db'), 1, 0) = <<>>
  OBVIOUS
<1>7. Walk(ndb') = <<>>
  BY <1>4, WalkEmpty
<1>8. Selection(SubSeq(Walk(db'), 1, Passed'), Log!AliveIn(Walk(db'))) = <<>>
  BY <1>5, <1>6, SelectionEmpty, Zenon
<1>9. LogInv'
  BY <1>7, <1>8 DEF LogInv
<1> QED
  BY <1>3, <1>9

\* A dead record is passed, and its entry is not selected.
LEMMA CompactSkipLog ==
  ASSUME NoWrap, IndInv, LogInv, CompactSkip
  PROVE  LogInv'
<1>1. /\ AtRecord /\ IsDead(db, it) /\ it' = EndOf(db.arena, it)
      /\ pc' = pc /\ db' = db /\ ndb' = ndb /\ pc = "compacting"
  BY DEF CompactSkip, AtRecord
<1> DEFINE w == Walk(db)
           S == Log!AliveIn(w)
<1>2. /\ Passed \in Nat /\ Passed < Len(w)
      /\ (IF it' = db.buf_len THEN db.entrycnt ELSE db.arena[it'].id) = Passed + 1
      /\ w[Passed + 1] = EntryAt(db, it)
  BY <1>1, NextPassed
<1>3. Passed' = Passed + 1
  BY <1>1, <1>2 DEF Passed
<1>4. w \in Seq({w[n] : n \in 1..db.entrycnt}) /\ DOMAIN w = 1..Len(w) /\ Len(w) \in Nat
  <2>1. DbOK(db)
    BY <1>1, IntactOK
  <2> QED
    BY <2>1, WalkSeq
<1>5. Passed + 1 \in DOMAIN w
  BY <1>2, <1>4
<1>6. ~w[Passed + 1].alive
  <2>1. EntryAt(db, it).alive = FALSE
    BY <1>1 DEF EntryAt
  <2> QED
    BY <1>2, <2>1
<1>7. w[Passed + 1] \notin S
  BY <1>5, <1>6, LiveEntry
<1>8. Selection(SubSeq(w, 1, Passed + 1), S) = Selection(SubSeq(w, 1, Passed), S)
  <2> HIDE DEF w, S
  <2> QED
    BY <1>2, <1>4, <1>7, SelectionNext
<1>9. Walk(ndb) = Selection(SubSeq(w, 1, Passed), S)
  BY <1>1 DEF LogInv
<1>10. Walk(ndb) = Selection(SubSeq(w, 1, Passed'), S)
  BY <1>3, <1>8, <1>9
<1> QED
  BY <1>1, <1>10 DEF LogInv

\* A live record is copied, and its entry is the next that is selected.
LEMMA CompactCopyLog ==
  ASSUME NoWrap, NamesFit, IndInv, FitInv, LogInv, CompactCopy
  PROVE  LogInv'
<1> DEFINE name == NameView(db.arena[it])
           data == DataView(db.arena[it])
           w == Walk(db)
           S == Log!AliveIn(w)
<1>1. /\ AtRecord /\ ~IsDead(db, it) /\ it' = EndOf(db.arena, it)
      /\ InsertReturns(ndb, ndb', name, data)
      /\ pc' = pc /\ db' = db /\ pc = "compacting" /\ it # db.buf_len
  BY DEF CompactCopy, AtRecord
<1>2. /\ it \in DOMAIN db.arena
      /\ Passed \in Nat /\ Passed < Len(w)
      /\ (IF it' = db.buf_len THEN db.entrycnt ELSE db.arena[it'].id) = Passed + 1
      /\ w[Passed + 1] = EntryAt(db, it)
  BY <1>1, NextPassed
<1>3. Passed' = Passed + 1
  BY <1>1, <1>2 DEF Passed
<1>4. w \in Seq({w[n] : n \in 1..db.entrycnt}) /\ DOMAIN w = 1..Len(w) /\ Len(w) \in Nat
  <2>1. DbOK(db)
    BY <1>1, IntactOK
  <2> QED
    BY <2>1, WalkSeq
<1>5. Passed + 1 \in DOMAIN w
  BY <1>2, <1>4
<1>6. w[Passed + 1].alive
  <2>1. EntryAt(db, it).alive = TRUE
    BY <1>1 DEF EntryAt
  <2> QED
    BY <1>2, <2>1
<1>7. w[Passed + 1] \in S
  BY <1>5, <1>6, LiveEntry
<1>8. Selection(SubSeq(w, 1, Passed + 1), S) = Append(Selection(SubSeq(w, 1, Passed), S), w[Passed + 1])
  <2> HIDE DEF w, S
  <2> QED
    BY <1>2, <1>4, <1>7, SelectionNext
<1>9. Walk(ndb) = Selection(SubSeq(w, 1, Passed), S)
  BY <1>1 DEF LogInv
<1>10. /\ name.buf_size \in Nat /\ data.buf_size \in Nat
       /\ NoWrapOn(name.buf_size, data.buf_size)
  BY <1>1, CompactionFits
<1>11. name.buf_size < NameLenMod
  <2>1. Intact(db)
    BY <1>1, IntactOK
  <2> QED
    BY <1>2, <2>1 DEF FitInv, NamesExact, NameView, View
<1>12. name = View(name.buf_size, name.buf_data) /\ data = View(data.buf_size, data.buf_data)
  BY DEF NameView, DataView, View
<1>13. DbOK(ndb) /\ Intact(ndb')
  BY CopyIntact DEF IndInv
<1>14. w[Passed + 1] = [name |-> name, data |-> data, alive |-> TRUE]
  <2>1. EntryAt(db, it) = [name |-> name, data |-> data, alive |-> ~IsDead(db, it)]
    BY DEF EntryAt
  <2>2. (~IsDead(db, it)) = TRUE
    BY <1>1
  <2> HIDE DEF name, data, w
  <2> QED
    BY <1>2, <2>1, <2>2, Zenon
<1> HIDE DEF name, data
<1>15. ASSUME NEW e, InsertReturns(ndb, e, name, data), Intact(e)
       PROVE  Walk(e) = Append(Walk(ndb), [name |-> name, data |-> data, alive |-> TRUE])
  BY <1>10, <1>11, <1>12, <1>13, <1>15, InsertAppends
<1>16. Walk(ndb') = Append(Walk(ndb), [name |-> name, data |-> data, alive |-> TRUE])
  BY <1>1, <1>13, <1>15
<1> HIDE DEF w, S
<1>17. Walk(ndb') = Selection(SubSeq(w, 1, Passed'), S)
  BY <1>3, <1>8, <1>9, <1>14, <1>16, Zenon
<1>18. w = Walk(db') /\ S = Log!AliveIn(Walk(db'))
  BY <1>1 DEF w, S
<1> QED
  BY <1>17, <1>18, Zenon DEF LogInv

\* A compaction that returns has dropped the dead entries and no other.
LEMMA CompactEndLog ==
  ASSUME NoWrap, IndInv, LogInv, CompactEnd
  PROVE  Walk(db') = Log!Selection(Walk(db), Log!AliveIn(Walk(db)))
<1>1. pc = "compacting" /\ it = db.buf_len /\ db' = ndb
  BY DEF CompactEnd
<1>2. Passed = db.entrycnt
  BY <1>1 DEF Passed
<1> DEFINE w == Walk(db)
<1>3. w \in Seq({w[n] : n \in 1..db.entrycnt}) /\ Len(w) = db.entrycnt
  <2>1. DbOK(db)
    BY <1>1, IntactOK
  <2> QED
    BY <2>1, WalkSeq
<1>4. Walk(ndb) = Selection(SubSeq(w, 1, db.entrycnt), Log!AliveIn(w))
  BY <1>1, <1>2 DEF LogInv
<1> HIDE DEF w
<1>5. SubSeq(w, 1, db.entrycnt) = w
  BY <1>3, SubSeqFull
<1> QED
  BY <1>1, <1>4, <1>5, LogSelection, Zenon DEF w

-----------------------------------------------------------------------------
(* The steps of the database as steps of the log *)

\* A step that neither opens nor closes the database, nor changes an entry, is no step of
\* the log.
LEMMA LogStutters ==
  ASSUME pc' \in {"open", "compacting"} <=> pc \in {"open", "compacting"},
         Walk(db') = Walk(db)
  PROVE  UNCHANGED Log!vars
BY DEF Log!vars

\* A call that only sets the error code is none.
LEMMA OnlyErrorLog ==
  ASSUME IndInv, Intact(db), pc = "open", NEW code \in DbCodes, OnlyError(code)
  PROVE  UNCHANGED Log!vars
<1>1. db' = WithError(db, code) /\ pc' = pc
  BY DEF OnlyError
<1>2. Walk(db') = Walk(db)
  BY <1>1, IntactOK, WalkErrCode
<1> QED
  BY <1>1, <1>2, LogStutters

\* The end of the process, and kvsymdb_destroy, close the log.
LEMMA GoneLog ==
  ASSUME FitInv, pc' \in {"none", "aborted"}, db' = NoDb
  PROVE  [Log!Next]_(Log!vars)
<1>1. Walk(db') = <<>>
  BY WalkEmpty DEF NoDb, NewDb
<1>2. CASE pc \in {"open", "compacting"}
  BY <1>1, <1>2 DEF Log!Next, Log!Close
<1>3. CASE pc \notin {"open", "compacting"}
  <2>1. Walk(db) = <<>>
    BY <1>3, WalkEmpty DEF FitInv, NoDb, NewDb
  <2> QED
    BY <1>1, <1>3, <2>1, LogStutters
<1> QED
  BY <1>2, <1>3

\* kvsymdb_insert appends its name and value to the log.
LEMMA InsertLog ==
  ASSUME NoWrap, NamesFit, IndInv, Intact(db), Intact(db'),
         NEW key \in Keys, NEW val \in Vals, Insert(key, val)
  PROVE  Log!Append1(key, val)
<1>1. pc = "open" /\ pc' = "open" /\ InsertReturns(db, db', key, val)
  BY DEF Insert
<1>2. /\ key.buf_size \in Nat /\ val.buf_size \in Nat
      /\ NoWrapOn(key.buf_size, val.buf_size)
  BY DEF NoWrap
<1>3. key = View(key.buf_size, key.buf_data) /\ val = View(val.buf_size, val.buf_data)
  BY ViewsAssumption DEF ViewsAssumption
<1>4. key.buf_size < NameLenMod /\ DbOK(db)
  BY IntactOK DEF NamesFit
<1>5. ASSUME NEW e, InsertReturns(db, e, key, val), Intact(e)
      PROVE  Walk(e) = Append(Walk(db), [name |-> key, data |-> val, alive |-> TRUE])
  BY <1>2, <1>3, <1>4, <1>5, InsertAppends
<1>6. Walk(db') = Append(Walk(db), [name |-> key, data |-> val, alive |-> TRUE])
  BY <1>1, <1>5
<1> QED
  BY <1>1, <1>6 DEF Log!Append1, Log!Entry

\* kvsymdb_mark_dead kills the entry of its record.
LEMMA MarkDeadLog ==
  ASSUME IndInv, Intact(db), NEW off \in DOMAIN db.arena, MarkDead(off)
  PROVE  \E i \in DOMAIN Walk(db) : Log!Kill(i)
<1>1. pc = "open" /\ pc' = "open" /\ db' = Buried(db, off)
  BY DEF MarkDead
<1> DEFINE i == db.arena[off].id + 1
<1>2. i \in DOMAIN Walk(db) /\ Walk(db') = [Walk(db) EXCEPT ![i].alive = FALSE]
  BY <1>1, IntactOK, WalkBuried
<1> HIDE DEF i
<1>3. Log!Kill(i)
  BY <1>1, <1>2 DEF Log!Kill
<1> QED
  BY <1>2, <1>3

\* kvsymdb_reserve and kvsymdb_reserve_arenabuf leave the log alone.
LEMMA RoomLog ==
  ASSUME NoWrap, IndInv, Intact(db),
         \/ \E entc \in EntCaps : Reserve(entc)
         \/ \E size \in ArenaSizes : ReserveArenabuf(size)
  PROVE  UNCHANGED Log!vars
<1>1. /\ DbOK(db)
      /\ db.entrycnt \in Nat /\ db.entrycap \in Nat
      /\ db.buf_len \in Nat /\ db.buf_size \in Nat
      /\ db.entrycnt <= db.entrycap /\ db.entrycap + db.buf_size <= HeapLimit
      /\ db.buf_size % 4 = 0
      /\ HeapLimit \in Nat /\ U32Mod \in Nat
  BY IntactOK, WidthAssumption
     DEF DbOK, IsDb, StatesMatch, BlockOK, ALIGN_SIZE, NoWrap, WidthAssumption
<1>2. CASE pc = "open" /\ OnlyError(NOERROR)
  BY <1>2, OnlyErrorLog DEF DbCodes
<1>3. ASSUME NEW entc \in EntCaps, Reserve(entc), ~(db.entrycap >= entc)
      PROVE  UNCHANGED Log!vars
  <2>1. /\ pc' = pc /\ CanAlloc(entc, db.buf_size)
        /\ db' = WithError(Resize(db, entc, db.buf_size), NOERROR)
    BY <1>3 DEF Reserve
  <2>2. entc \in Nat /\ db.entrycnt <= entc /\ entc + db.buf_size + 64 < U32Mod
    BY <1>1, <1>3 DEF NoWrap
  <2>3. Walk(db') = Walk(db)
    BY <1>1, <2>1, <2>2, WalkResized
  <2> QED
    BY <2>1, <2>3, LogStutters
<1>4. ASSUME NEW size \in ArenaSizes, ReserveArenabuf(size), ~(db.buf_size >= size)
      PROVE  UNCHANGED Log!vars
  <2>1. /\ pc' = pc /\ is_aligned_off(size) /\ CanAlloc(db.entrycap, size)
        /\ db' = WithError(Resize(db, db.entrycap, size), NOERROR)
    BY <1>4 DEF ReserveArenabuf
  <2>2. /\ size \in Nat /\ db.buf_size <= size
        /\ db.entrycap + size + 64 < U32Mod /\ size + 3 < U32Mod
    BY <1>1, <1>4 DEF NoWrap
  <2>3. size % 4 = 0
    BY <2>1, <2>2, AlignExact DEF is_aligned_off
  <2>4. Walk(db') = Walk(db)
    BY <1>1, <2>1, <2>2, <2>3, WalkResized
  <2> QED
    BY <2>1, <2>4, LogStutters
<1> QED
  BY <1>2, <1>3, <1>4 DEF Reserve, ReserveArenabuf

\* While records fit the arena the database was created with, no block is overrun.
LEMMA FitIntact ==
  ASSUME RecordsFit, IndInv, FitInv
  PROVE  Intact(db)
<1>1. CASE pc = "open"
  BY <1>1 DEF FitInv, ArenaHolds, Intact
<1>2. CASE pc # "open"
  BY <1>2, IntactOK
<1> QED
  BY <1>1, <1>2

\* Every step is one of the log or none, and keeps what a compaction has selected.
LEMMA LogStep ==
  ASSUME NoWrap, NamesFit, IndInv, FitInv, LogInv, Intact(db), Intact(db'), [Next]_vars
  PROVE  [Log!Next]_(Log!vars) /\ LogInv'
<1> DEFINE Goal == [Log!Next]_(Log!vars) /\ LogInv'
<1>1. ASSUME pc' # "compacting" PROVE LogInv'
  BY <1>1 DEF LogInv
<1>2. ASSUME NEW code \in DbCodes, pc = "open", OnlyError(code) PROVE Goal
  BY <1>1, <1>2, OnlyErrorLog DEF OnlyError
<1>3. CASE Abort \/ Destroy
  BY <1>1, <1>3, GoneLog DEF Abort, Destroy
<1>4. CASE CreateFails \/ NextProcess
  <2>1. pc' = "none" /\ db' = db /\ pc \notin {"open", "compacting"}
    BY <1>4 DEF CreateFails, NextProcess
  <2> QED
    BY <1>1, <2>1, LogStutters
<1>5. ASSUME NEW entc \in EntCaps, NEW size \in ArenaSizes, Create(entc, size) PROVE Goal
  <2>1. pc = "none" /\ pc' = "open" /\ db'.entrycnt = 0
    BY <1>5 DEF Create, Creates, NewDb
  <2>2. Walk(db') = <<>>
    BY <2>1, WalkEmpty
  <2>3. Walk(db) = <<>>
    BY <2>1, WalkEmpty DEF FitInv, NoDb, NewDb
  <2>4. Log!Open
    BY <2>1, <2>2, <2>3 DEF Log!Open
  <2> QED
    BY <1>1, <2>1, <2>4 DEF Log!Next
<1>6. ASSUME NEW key \in Keys, NEW val \in Vals, Insert(key, val) PROVE Goal
  <2>1. Log!Append1(key, val)
    BY <1>6, InsertLog
  <2>2. pc' # "compacting"
    BY <1>6 DEF Insert
  <2> QED
    BY <1>1, <2>1, <2>2 DEF Log!Next
<1>7. ASSUME NEW off \in DOMAIN db.arena, MarkDead(off) PROVE Goal
  <2>1. \E i \in DOMAIN Walk(db) : Log!Kill(i)
    BY <1>7, MarkDeadLog
  <2>2. pc' # "compacting"
    BY <1>7 DEF MarkDead
  <2> QED
    BY <1>1, <2>1, <2>2 DEF Log!Next
<1>8. ASSUME \/ \E entc \in EntCaps : Reserve(entc)
             \/ \E size \in ArenaSizes : ReserveArenabuf(size)
      PROVE  Goal
  <2>1. UNCHANGED Log!vars
    BY <1>8, RoomLog
  <2>2. pc' # "compacting"
    BY <1>8 DEF Reserve, ReserveArenabuf, OnlyError
  <2> QED
    BY <1>1, <2>1, <2>2
<1>9. ASSUME \/ \E entc \in EntCaps : ReserveFails(entc)
             \/ \E size \in ArenaSizes : ReserveArenabufFails(size)
             \/ \E key \in Keys, val \in Vals : InsertRefused(key, val)
             \/ Clearerr \/ CompactNoMemory
      PROVE  Goal
  BY <1>2, <1>9 DEF ReserveFails, ReserveArenabufFails, InsertRefused, Clearerr, CompactNoMemory, DbCodes
<1>10. CASE CompactBegin
  <2>1. pc = "open" /\ pc' = "compacting"
    BY <1>10 DEF CompactBegin
  <2> QED
    BY <1>10, <2>1, CompactBeginLog, LogStutters
<1>11. CASE CompactSkip \/ CompactCopy
  <2>1. pc' = pc /\ db' = db
    BY <1>11 DEF CompactSkip, CompactCopy
  <2>2. LogInv'
    BY <1>11, CompactSkipLog, CompactCopyLog
  <2> QED
    BY <2>1, <2>2, LogStutters
<1>12. CASE CompactInsertFails
  <2>1. pc = "compacting" /\ pc' = "open" /\ db' = WithError(db, ERR_INSERT)
    BY <1>12 DEF CompactInsertFails, AtRecord
  <2>2. Walk(db') = Walk(db)
    BY <2>1, IntactOK, WalkErrCode DEF DbCodes
  <2> QED
    BY <1>1, <2>1, <2>2, LogStutters
<1>13. CASE CompactEnd
  <2>1. pc = "compacting" /\ pc' = "open"
    BY <1>13 DEF CompactEnd
  <2>2. Walk(db') = Log!Selection(Walk(db), Log!AliveIn(Walk(db)))
    BY <1>13, CompactEndLog
  <2>3. Log!Compact
    BY <2>1, <2>2 DEF Log!Compact
  <2> QED
    BY <1>1, <2>1, <2>3 DEF Log!Next
<1>14. CASE UNCHANGED vars
  <2>1. pc' = pc /\ db' = db /\ ndb' = ndb /\ it' = it
    BY <1>14 DEF vars
  <2> QED
    BY <2>1, LogStutters DEF LogInv, Passed
<1> QED
  BY <1>3, <1>4, <1>5, <1>6, <1>7, <1>8, <1>9, <1>10, <1>11, <1>12, <1>13, <1>14
     DEF Next, CompactStep, MarkDeadAborts, ReserveArenabufAborts, StateAssertFails, GrowthAborts

\* As long as names fit name_len, and records the arena the database was created with, the
\* database, with its growth and its compaction record by record, is the append-only log.
THEOREM LogImplemented ==
  ASSUME NoWrap, NamesFit, RecordsFit PROVE Spec => ImplementsLog
<1>1. Init => Log!Init /\ LogInv
  <2>1. Walk(NoDb) = <<>>
    BY WalkEmpty DEF NoDb, NewDb
  <2> QED
    BY <2>1 DEF Init, Log!Init, LogInv
<1>2. ASSUME IndInv, FitInv, LogInv, Intact(db), Intact(db)', [Next]_vars
      PROVE  [Log!Next]_(Log!vars) /\ LogInv'
  <2>1. Intact(db')
    BY <1>2 DEF Intact
  <2> QED
    BY <1>2, <2>1, LogStep
<1>3. IndInv /\ FitInv /\ LogInv /\ Intact(db) /\ Intact(db)' /\ [Next]_vars
        => [Log!Next]_(Log!vars) /\ LogInv'
  BY <1>2
<1>4. IndInv /\ FitInv => Intact(db)
  BY FitIntact
<1> QED
  BY <1>1, <1>3, <1>4, Invariance, FitInvariance, PTL DEF Spec, ImplementsLog, Log!Spec

=============================================================================
