------------------------------- MODULE JwKVMap -------------------------------
(***************************************************************************)
(* jwkvmap::KVMap, a hash map with chaining: an array of buckets, each a   *)
(* chain of slots, one heap block for each slot.  A rehash relinks the     *)
(* slots, one per step, into the buckets of a temporary map and moves that *)
(* map over the old one.                                                   *)
(***************************************************************************)
EXTENDS Integers, SequencesExt

CONSTANTS
  Keys, Vals,
  KeyLen, ValLen,  \* their lengths in bytes
  Hash,            \* the hash of each key
  Slots,           \* the addresses the heap has for slots
  RehashSizes,     \* the numbers of buckets that callers ask for
  MaxBuckets,      \* operator new[] fails for more buckets than that
  SizeMod,         \* 2^64: the modulus of size_t
  U32Mod,          \* 2^32: the modulus of uint32_t
  Free,            \* what an address holds that is not allocated
  NoVal, NoCall

ASSUME HashAssumption  == Hash \in [Keys -> Nat]
ASSUME LenAssumption   == KeyLen \in [Keys -> Nat] /\ ValLen \in [Vals -> Nat]
ASSUME SizesAssumption == RehashSizes \subseteq Nat /\ MaxBuckets \in Nat
ASSUME ModAssumption   == SizeMod \in Nat \ {0} /\ U32Mod \in Nat \ {0}
ASSUME SentinelAssumption ==
  /\ Free \notin [key : Keys, val : Vals]
  /\ NoVal \notin Vals /\ "FAILED" \notin Vals
  /\ NoCall \notin [key : Keys, val : Vals]

VARIABLES
  kvm,       \* the map of the caller
  tmp,       \* tmp_kvmap of a rehash
  slot,      \* the entry at each address
  pc,        \* "open", or "rehashing", or "upserting" behind a rehash
  todo,      \* the upsert that waits for the rehash of upsert_auto_rehash
  rc,        \* what the last call returned; for a find, the value it found
  m_errno,   \* the error code of kvm
  uncounted  \* history: the slots that upsert pushed past _link_slot

vars == <<kvm, tmp, slot, pc, todo, rc, m_errno, uncounted>>

Entries == [key : Keys, val : Vals]

Entry(k, v) == [key |-> k, val |-> v]

-----------------------------------------------------------------------------
(* The size of a slot *)

LinkSize   == 16   \* sizeof(jwkvmap_link_t)
EhdrSize   == 20   \* sizeof(jwkvmap_entry_header_t)
SlotSize   == 40   \* sizeof(jwkvmap_hash_slot_t): padded to the alignment of a pointer
ALIGN_SIZE == 32   \* sizeof(std::max_align_t)

U32(n) == n % U32Mod

align_off(off) == (U32(off + ALIGN_SIZE - 1) \div ALIGN_SIZE) * ALIGN_SIZE

\* A mutant: the value is not aligned, so that the length is short of padding.
entry_length_unpadded(klen, vlen) == U32(EhdrSize + klen + vlen)

entry_length_required(klen, vlen) == U32(EhdrSize + align_off(U32(klen)) + align_off(U32(vlen)))

slot_length(klen, vlen) == U32(entry_length_required(klen, vlen) + LinkSize)

\* Where entry_get_val_payload finds the value, from the start of the slot.
val_payload(klen) == LinkSize + EhdrSize + align_off(U32(klen))

-----------------------------------------------------------------------------
(* Buckets *)

Bucket(chain, cnt) == [chain |-> chain, cnt |-> cnt]

KVMap(n, buckets, cnt) == [n |-> n, buckets |-> buckets, slot_cnt |-> cnt]

\* ::new Bucket[n]
NewMap(n) == KVMap(n, [b \in 0..(n - 1) |-> Bucket(<<>>, 0)], 0)

NoMap == NewMap(0)

is_init(m) == m.n # 0

BucketOf(m, k) == Hash[k] % m.n

WithBucket(m, b, bucket, cnt) == KVMap(m.n, [m.buckets EXCEPT ![b] = bucket], cnt)

\* SlotHandle::push_head and unlink
push_head(chain, s) == Cons(s, chain)

unlink(chain, i) == RemoveAt(chain, i)

\* A mutant: the slot is pushed to the tail of the chain.
push_slot_tail(bucket, s) == Bucket(Append(bucket.chain, s), bucket.cnt + 1)

\* A mutant: the slot is linked and not counted in its bucket.
push_slot_uncounted(bucket, s) == Bucket(push_head(bucket.chain, s), bucket.cnt)

push_slot(bucket, s) == Bucket(push_head(bucket.chain, s), bucket.cnt + 1)

\* The assertion that the bucket is not empty is part of BucketsCount below.
unlink_slot(bucket, i) == Bucket(unlink(bucket.chain, i), bucket.cnt - 1)

\* Where the chain of the key's bucket has the key.
Places(m, k) ==
  LET chain == m.buckets[BucketOf(m, k)].chain
  IN  {i \in DOMAIN chain : slot[chain[i]].key = k}

Has(m, k) == Places(m, k) # {}

\* _lookup_slot stops at the first.
Place(m, k) == CHOOSE i \in Places(m, k) : \A j \in Places(m, k) : i <= j

\* A mutant: the first slot of the bucket, whichever key it has.
HeadOf(m, k) == m.buckets[BucketOf(m, k)].chain[1]

SlotOf(m, k) == m.buckets[BucketOf(m, k)].chain[Place(m, k)]

Linked(m) == UNION {ToSet(m.buckets[b].chain) : b \in DOMAIN m.buckets}

\* _link_slot
Link(m, k, s) ==
  WithBucket(m, BucketOf(m, k), push_slot(m.buckets[BucketOf(m, k)], s), (m.slot_cnt + 1) % SizeMod)

\* A mutant: the slot is not counted down.
UnlinkUncounted(m, k) ==
  LET b == BucketOf(m, k)
  IN  WithBucket(m, b, unlink_slot(m.buckets[b], Place(m, k)), m.slot_cnt)

\* _unlink_slot
Unlink(m, k) ==
  LET b == BucketOf(m, k)
  IN  WithBucket(m, b, unlink_slot(m.buckets[b], Place(m, k)), (m.slot_cnt - 1) % SizeMod)

\* The slots that _cleanup walks over and deletes.
CleanedUp(m) == UNION {ToSet(m.buckets[b].chain) : b \in {c \in DOMAIN m.buckets : m.buckets[c].cnt # 0}}

Freed(S) == [s \in Slots |-> IF s \in S THEN Free ELSE slot[s]]

-----------------------------------------------------------------------------
(* Calls.  Every call of the public interface begins in "open".            *)

Done(ret) == rc' = ret /\ pc' = "open" /\ todo' = NoCall

Init ==
  /\ kvm = NoMap /\ tmp = NoMap
  /\ slot = [s \in Slots |-> Free]
  /\ pc = "open" /\ todo = NoCall /\ rc = "OK" /\ m_errno = "ERR_NOERROR"
  /\ uncounted = 0

\* A mutant: a key that is there is inserted once more.
InsertAgain(k, v) ==
  /\ pc = "open" /\ is_init(kvm)
  /\ \E s \in Slots :
       /\ slot[s] = Free
       /\ slot' = [slot EXCEPT ![s] = Entry(k, v)]
       /\ kvm'  = Link(kvm, k, s)
  /\ m_errno' = "ERR_NOERROR"
  /\ Done("OK")
  /\ UNCHANGED <<tmp, uncounted>>

Insert(k, v) ==
  /\ pc = "open" /\ is_init(kvm)
  /\ ~Has(kvm, k)
  /\ \E s \in Slots :
       /\ slot[s] = Free
       /\ slot' = [slot EXCEPT ![s] = Entry(k, v)]
       /\ kvm'  = Link(kvm, k, s)
  /\ m_errno' = "ERR_NOERROR"
  /\ Done("OK")
  /\ UNCHANGED <<tmp, uncounted>>

\* A mutant: the slot that is replaced is not destroyed.
UpsertLeaks(k, v) ==
  /\ is_init(kvm)
  /\ \E s \in Slots :
       LET b   == BucketOf(kvm, k)
           old == kvm.buckets[b]
       IN  /\ slot[s] = Free
           /\ slot' = [slot EXCEPT ![s] = Entry(k, v)]
           /\ kvm'  = WithBucket(kvm, b, push_slot(IF Has(kvm, k) THEN unlink_slot(old, Place(kvm, k)) ELSE old, s),
                                 kvm.slot_cnt)
  /\ uncounted' = IF Has(kvm, k) THEN uncounted ELSE (uncounted + 1) % SizeMod
  /\ m_errno'   = "ERR_NOERROR"
  /\ Done("OK")
  /\ UNCHANGED tmp

\* The new slot is made before the old one is looked up and destroyed.  It is
\* pushed into its bucket without _link_slot, so m_slot_cnt does not count it,
\* and a key that is new leaves the error of the lookup behind.
UpsertBody(k, v) ==
  /\ is_init(kvm)
  /\ \E s \in Slots :
       LET b   == BucketOf(kvm, k)
           old == kvm.buckets[b]
       IN  /\ slot[s] = Free
           /\ IF Has(kvm, k)
              THEN /\ slot' = [slot EXCEPT ![s] = Entry(k, v), ![SlotOf(kvm, k)] = Free]
                   /\ kvm'  = WithBucket(kvm, b, push_slot(unlink_slot(old, Place(kvm, k)), s), kvm.slot_cnt)
                   /\ m_errno' = "ERR_NOERROR"
                   /\ UNCHANGED uncounted
              ELSE /\ slot' = [slot EXCEPT ![s] = Entry(k, v)]
                   /\ kvm'  = WithBucket(kvm, b, push_slot(old, s), kvm.slot_cnt)
                   /\ m_errno'   = "ERR_NOT_FOUND"
                   /\ uncounted' = (uncounted + 1) % SizeMod
  /\ Done("OK")
  /\ UNCHANGED tmp

Upsert(k, v) == pc = "open" /\ UpsertBody(k, v)

Find(k) ==
  /\ pc = "open" /\ is_init(kvm)
  /\ Has(kvm, k)
  /\ Done(slot[SlotOf(kvm, k)].val)
  /\ UNCHANGED <<kvm, tmp, slot, m_errno, uncounted>>

RemoveKey(k) ==
  /\ pc = "open" /\ is_init(kvm)
  /\ Has(kvm, k)
  /\ kvm'  = Unlink(kvm, k)
  /\ slot' = Freed({SlotOf(kvm, k)})
  /\ Done("OK")
  /\ UNCHANGED <<tmp, m_errno, uncounted>>

Refuse(err) ==
  /\ m_errno' = err
  /\ Done("FAILED")
  /\ UNCHANGED <<kvm, tmp, slot, uncounted>>

\* insert, upsert, find and remove of a map without buckets
RefuseUninit == pc = "open" /\ ~is_init(kvm) /\ Refuse("ERR_UNINIT")

\* insert of a key that is there
RefuseDuplicate(k) == pc = "open" /\ is_init(kvm) /\ Has(kvm, k) /\ Refuse("ERR_DUPKEY")

\* find and remove of a key that is not
RefuseMissing(k) == pc = "open" /\ is_init(kvm) /\ ~Has(kvm, k) /\ Refuse("ERR_LOOKUP")

\* operator new fails for a slot: always when the heap has no address left, and
\* whenever it likes.
NoSlotMemory == pc \in {"open", "upserting"} /\ is_init(kvm) /\ Refuse("ERR_CREATE_ENT")

\* operator new[] fails for the buckets of a rehash.
NoBucketMemory == pc = "open" /\ Refuse("ERR_OPNEWARR")

-----------------------------------------------------------------------------
(* Rehash *)

NewSize(n) == IF n > kvm.n THEN n ELSE IF kvm.n = 0 THEN 2 ELSE kvm.n

StartRehash(n, call) ==
  /\ NewSize(n) <= MaxBuckets
  /\ tmp'  = NewMap(NewSize(n))
  /\ pc'   = "rehashing"
  /\ todo' = call
  /\ UNCHANGED <<kvm, slot, rc, m_errno, uncounted>>

Rehash(n) == pc = "open" /\ StartRehash(n, NoCall)

\* The rows whose m_slot_cnt tells of slots and that still have some.
Rows == {b \in DOMAIN kvm.buckets : kvm.buckets[b].cnt # 0 /\ kvm.buckets[b].chain # <<>>}

\* A mutant: the slot goes to the bucket it had in the old map.
RelinkSameBucket ==
  /\ pc = "rehashing"
  /\ \E b \in Rows :
       LET row == kvm.buckets[b]
           s   == Head(row.chain)
       IN  /\ \A c \in Rows : b <= c
           /\ kvm' = WithBucket(kvm, b, Bucket(Tail(row.chain), row.cnt), kvm.slot_cnt)
           /\ tmp' = WithBucket(tmp, b, push_slot(tmp.buckets[b], s), (tmp.slot_cnt + 1) % SizeMod)
  /\ UNCHANGED <<slot, pc, todo, rc, m_errno, uncounted>>

\* One slot leaves its row for its bucket in tmp_kvmap.  SlotHandle::unlink
\* leaves the m_slot_cnt of the row as it is.
RehashStep ==
  /\ pc = "rehashing"
  /\ \E b \in Rows :
       LET row == kvm.buckets[b]
           s   == Head(row.chain)
       IN  /\ \A c \in Rows : b <= c
           /\ kvm' = WithBucket(kvm, b, Bucket(Tail(row.chain), row.cnt), kvm.slot_cnt)
           /\ tmp' = Link(tmp, slot[s].key, s)
  /\ UNCHANGED <<slot, pc, todo, rc, m_errno, uncounted>>

\* A mutant: the move leaves the buckets with the temporary map too.
RehashEndShares ==
  /\ pc = "rehashing"
  /\ Rows = {}
  /\ kvm'  = tmp
  /\ slot' = Freed(CleanedUp(kvm))
  /\ m_errno'   = "ERR_NOERROR"
  /\ uncounted' = 0
  /\ rc' = "OK"
  /\ pc' = IF todo = NoCall THEN "open" ELSE "upserting"
  /\ UNCHANGED <<tmp, todo>>

\* *this = std::move(tmp_kvmap): the old map is cleaned up and replaced.
RehashEnd ==
  /\ pc = "rehashing"
  /\ Rows = {}
  /\ kvm'  = tmp
  /\ tmp'  = NoMap
  /\ slot' = Freed(CleanedUp(kvm))
  /\ m_errno'   = "ERR_NOERROR"
  /\ uncounted' = 0
  /\ rc' = "OK"
  /\ pc' = IF todo = NoCall THEN "open" ELSE "upserting"
  /\ UNCHANGED todo

-----------------------------------------------------------------------------
(* upsert_auto_rehash *)

AutoUpsert(k, v) ==
  /\ pc = "open"
  /\ IF (kvm.slot_cnt + 1) % SizeMod > kvm.n
     THEN StartRehash(IF kvm.n # 0 THEN kvm.n * 2 ELSE 2, Entry(k, v))
     ELSE UpsertBody(k, v)

AutoUpsertEnd == pc = "upserting" /\ UpsertBody(todo.key, todo.val)

\* The map is destroyed and made anew, or an empty one is moved over it.
Reset ==
  /\ pc = "open"
  /\ kvm'  = NoMap
  /\ slot' = Freed(CleanedUp(kvm))
  /\ m_errno'   = "ERR_NOERROR"
  /\ uncounted' = 0
  /\ Done("OK")
  /\ UNCHANGED tmp

\* The calls that may destroy the slot of a key, and those that destroy none.
Replaces(k) == RemoveKey(k) \/ \E v \in Vals : Upsert(k, v) \/ AutoUpsert(k, v)

Keeps ==
  \/ \E k \in Keys : Find(k) \/ RefuseDuplicate(k) \/ RefuseMissing(k)
  \/ \E k \in Keys, v \in Vals : Insert(k, v)
  \/ \E n \in RehashSizes : Rehash(n)
  \/ RehashStep \/ RehashEnd
  \/ RefuseUninit \/ NoSlotMemory \/ NoBucketMemory

Next == Keeps \/ AutoUpsertEnd \/ Reset \/ \E k \in Keys : Replaces(k)

Spec == Init /\ [][Next]_vars

-----------------------------------------------------------------------------
(* Properties *)

MapOK(m) ==
  /\ m.n \in Nat
  /\ DOMAIN m.buckets = 0..(m.n - 1)
  /\ \A b \in DOMAIN m.buckets : m.buckets[b].chain \in Seq(Slots) /\ m.buckets[b].cnt \in Int
  /\ m.slot_cnt \in 0..(SizeMod - 1)

\* Types; and tmp_kvmap has buckets just while a rehash is under way, since the move that
\* ends one leaves it none, and an upsert that goes on behind a rehash knows its entry.
TypeOK ==
  /\ MapOK(kvm) /\ MapOK(tmp)
  /\ is_init(tmp) <=> pc = "rehashing"
  /\ pc = "upserting" => todo # NoCall
  /\ slot \in [Slots -> Entries \cup {Free}]
  /\ pc \in {"open", "rehashing", "upserting"}
  /\ todo \in Entries \cup {NoCall}
  /\ rc \in Vals \cup {"OK", "FAILED"}
  /\ uncounted \in 0..(SizeMod - 1)

\* A slot in a chain of m is allocated and stands in the bucket of its hash, and
\* no bucket has a key twice.
PlacedIn(m) ==
  \A b \in DOMAIN m.buckets : LET chain == m.buckets[b].chain IN
    /\ \A i \in DOMAIN chain : slot[chain[i]] \in Entries /\ BucketOf(m, slot[chain[i]].key) = b
    /\ \A i, j \in DOMAIN chain : slot[chain[i]].key = slot[chain[j]].key => i = j

\* So _lookup_slot, which looks in one bucket only, finds every key there is,
\* between the steps of a rehash too, and through any number of buckets.
Placed == PlacedIn(kvm) /\ PlacedIn(tmp)

\* Every block that _create_slot took from the heap is in a chain of the map, or
\* of the temporary one of a rehash, and never in both: none leaks, and
\* _cleanup deletes none twice.
SlotsOwned ==
  /\ {s \in Slots : slot[s] # Free} = Linked(kvm) \cup Linked(tmp)
  /\ Linked(kvm) \cap Linked(tmp) = {}

\* A bucket counts its chain, except for the rows that a rehash empties.  So
\* the assertion of Bucket::unlink_slot holds, and neither _cleanup nor an
\* iterator skips a bucket for a count of zero.
BucketsCount ==
  /\ \A b \in DOMAIN kvm.buckets :
       IF pc = "rehashing" THEN kvm.buckets[b].cnt >= Len(kvm.buckets[b].chain)
                           ELSE kvm.buckets[b].cnt = Len(kvm.buckets[b].chain)
  /\ \A b \in DOMAIN tmp.buckets : tmp.buckets[b].cnt = Len(tmp.buckets[b].chain)

\* slot_count() and the slots that upsert pushed without counting them make the
\* number of entries, modulo the width of size_t; a rehash counts them all.
CountDrift ==
  /\ pc # "rehashing" => (kvm.slot_cnt + uncounted) % SizeMod = Cardinality(Linked(kvm)) % SizeMod
  /\ tmp.slot_cnt = Cardinality(Linked(tmp)) % SizeMod

\* The header and both payloads of a slot lie within its block.
SlotsFit ==
  \A s \in Slots : slot[s] # Free =>
    LET klen == KeyLen[slot[s].key]
        vlen == ValLen[slot[s].val]
    IN  /\ SlotSize <= slot_length(klen, vlen)
        /\ val_payload(klen) + vlen <= slot_length(klen, vlen)

\* The value of a key, wherever its slot is linked.
ValueOf(k) ==
  LET S == {s \in Linked(kvm) \cup Linked(tmp) : slot[s].key = k}
  IN  IF S = {} THEN NoVal ELSE slot[CHOOSE s \in S : TRUE].val

Map == INSTANCE JwMap WITH
  map <- [k \in Keys |-> ValueOf(k)],
  ret <- IF rc = "FAILED" THEN m_errno ELSE rc

\* The map is a finite map of the keys: lookups miss no key that is linked, a
\* rehash changes nothing, and a call that fails changes nothing and says why.
ImplementsMap == Map!Spec
=============================================================================
