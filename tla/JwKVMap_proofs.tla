---------------------------- MODULE JwKVMap_proofs ----------------------------
(***************************************************************************)
(* Through every insertion, replacement, removal and rehash of a jwkvmap,  *)
(* for any keys, hashes, numbers of buckets and widths of the counter:     *)
(* each slot is in the bucket of its key's hash and in no other, no slot   *)
(* leaks or is deleted twice, and a bucket counts its chain.               *)
(*                                                                         *)
(* Chains are changed in two ways only, by a push and by leaving out one   *)
(* slot; two lemmas about a map of any state say what each does, and the   *)
(* steps are put together of them.                                         *)
(***************************************************************************)
EXTENDS JwKVMapIter, FiniteSetTheorems, TLAPS

Slotting == [Slots -> Entries \cup {Free}]

Rng(m) == 0..(m.n - 1)

Chain(m, b) == m.buckets[b].chain

IsMap(m) ==
  /\ m.n \in Nat
  /\ m.buckets \in [Rng(m) -> [chain : Seq(Slots), cnt : Int]]
  /\ m.slot_cnt \in 0..(SizeMod - 1)

\* The slot is in a chain of the map.
In(m, s) == \E b \in Rng(m) : \E i \in 1..Len(Chain(m, b)) : Chain(m, b)[i] = s

\* PlacedIn, of a map and what the addresses hold.
PlacedAs(m, sl) ==
  \A b \in Rng(m) :
    /\ \A i \in 1..Len(Chain(m, b)) : sl[Chain(m, b)[i]] \in Entries /\ BucketOf(m, sl[Chain(m, b)[i]].key) = b
    /\ \A i, j \in 1..Len(Chain(m, b)) : sl[Chain(m, b)[i]].key = sl[Chain(m, b)[j]].key => i = j

Counted(m) == \A b \in Rng(m) : m.buckets[b].cnt = Len(Chain(m, b))

JTypes ==
  /\ IsMap(kvm) /\ IsMap(tmp) /\ slot \in Slotting
  /\ pc \in {"open", "rehashing", "upserting"}
  /\ todo \in Entries \cup {NoCall}
  /\ rc \in Vals \cup {"OK", "FAILED"}
  /\ uncounted \in 0..(SizeMod - 1)

JPlaced == PlacedAs(kvm, slot) /\ PlacedAs(tmp, slot)

\* A rehash has no key in both maps.
JApart == \A s, t \in Slots : In(kvm, s) /\ In(tmp, t) => slot[s].key # slot[t].key

JOwned == \A s \in Slots : slot[s] # Free => In(kvm, s) \/ In(tmp, s)

\* While a rehash empties the rows of the old map, their counts stay.
JCounts ==
  /\ pc # "rehashing" => Counted(kvm)
  /\ \A b \in Rng(kvm) : kvm.buckets[b].cnt >= Len(Chain(kvm, b))
  /\ Counted(tmp)

JPhase ==
  /\ pc # "rehashing" => tmp = NoMap
  /\ pc = "rehashing" => tmp.n # 0
  /\ pc = "upserting" => todo # NoCall

JInv == JTypes /\ JPlaced /\ JApart /\ JOwned /\ JCounts /\ JPhase

-----------------------------------------------------------------------------
(* Numbers and chains *)

\* What % gives is in the range of its modulus.
LEMMA ModRange ==
  ASSUME NEW a \in Int, NEW n \in Nat, n # 0
  PROVE  a % n \in 0..(n - 1)
  OBVIOUS

\* A count of slots wraps around.
LEMMA CountRange ==
  ASSUME NEW a \in Int
  PROVE  a % SizeMod \in 0..(SizeMod - 1)
<1>1. SizeMod \in Nat /\ SizeMod # 0
  BY ModAssumption
<1> QED
  BY <1>1, ModRange

\* The bucket of a key is one that the map has.
LEMMA BucketInRange ==
  ASSUME NEW m, m.n \in Nat, m.n # 0, NEW k \in Keys
  PROVE  BucketOf(m, k) \in Rng(m)
<1>1. Hash[k] \in Int
  BY HashAssumption
<1> QED
  BY <1>1, ModRange DEF BucketOf, Rng

\* push_head puts the slot before the others.
LEMMA PushHead ==
  ASSUME NEW c \in Seq(Slots), NEW s \in Slots
  PROVE  /\ push_head(c, s) \in Seq(Slots)
         /\ Len(push_head(c, s)) = Len(c) + 1
         /\ push_head(c, s)[1] = s
         /\ \A i \in 1..Len(c) : push_head(c, s)[i + 1] = c[i]
  BY DEF push_head, Cons

\* d is c without its i-th slot.
LeavesOut(d, c, i) ==
  /\ d \in Seq(Slots)
  /\ Len(d) = Len(c) - 1
  /\ \A j \in 1..(i - 1) : d[j] = c[j]
  /\ \A j \in i..(Len(c) - 1) : d[j] = c[j + 1]

\* unlink leaves out the slot that it is given.
LEMMA UnlinkLeavesOut ==
  ASSUME NEW c \in Seq(Slots), NEW i \in 1..Len(c)
  PROVE  LeavesOut(unlink(c, i), c, i)
<1> DEFINE before == SubSeq(c, 1, i - 1)
           after  == SubSeq(c, i + 1, Len(c))
<1>1. /\ before \in Seq(Slots) /\ Len(before) = i - 1
      /\ \A j \in 1..(i - 1) : before[j] = c[j]
  OBVIOUS
<1>2. /\ after \in Seq(Slots) /\ Len(after) = Len(c) - i
      /\ \A j \in 1..(Len(c) - i) : after[j] = c[i + j]
  OBVIOUS
<1>3. unlink(c, i) = before \o after
  BY DEF unlink, RemoveAt
<1> HIDE DEF before, after
<1>4. /\ before \o after \in Seq(Slots)
      /\ Len(before \o after) = Len(c) - 1
  <2>2. Len(c) \in Nat /\ i \in Int
    OBVIOUS
  <2>1. before \o after \in Seq(Slots)
    BY <1>1, <1>2
  <2>3. Len(before \o after) = Len(before) + Len(after)
    <3>1. before \in Seq(Slots) /\ after \in Seq(Slots)
      BY <1>1, <1>2
    <3> QED
      BY <3>1
  <2> QED
    BY <1>1, <1>2, <2>1, <2>2, <2>3
<1>5. ASSUME NEW j \in 1..(i - 1)
      PROVE  (before \o after)[j] = c[j]
  BY <1>1, <1>2
<1>6. ASSUME NEW j \in i..(Len(c) - 1)
      PROVE  (before \o after)[j] = c[j + 1]
  <2>1. j - (i - 1) \in 1..(Len(c) - i) /\ j \in 1..(Len(before) + Len(after)) /\ ~(j <= Len(before))
    BY <1>1, <1>2
  <2>2. (before \o after)[j] = after[j - (i - 1)]
    BY <2>1, <1>1, <1>2
  <2> QED
    BY <2>1, <2>2, <1>2
<1> QED
  BY <1>3, <1>4, <1>5, <1>6 DEF LeavesOut

\* Tail leaves out the first.
LEMMA TailLeavesOut ==
  ASSUME NEW c \in Seq(Slots), c # <<>>
  PROVE  LeavesOut(Tail(c), c, 1)
  BY DEF LeavesOut

\* What is left of a chain without its i-th slot are the slots at the other places, in order.
LEMMA LeftOut ==
  ASSUME NEW c \in Seq(Slots), NEW i \in 1..Len(c), NEW d, LeavesOut(d, c, i)
  PROVE  /\ \A j \in 1..Len(d) : \E l \in 1..Len(c) : l # i /\ d[j] = c[l] /\ l = (IF j < i THEN j ELSE j + 1)
         /\ \A l \in 1..Len(c) : l # i => \E j \in 1..Len(d) : d[j] = c[l] /\ j = (IF l < i THEN l ELSE l - 1)
<1>1. Len(c) \in Nat /\ Len(d) = Len(c) - 1
  BY DEF LeavesOut
<1>2. ASSUME NEW j \in 1..Len(d)
      PROVE  \E l \in 1..Len(c) : l # i /\ d[j] = c[l] /\ l = (IF j < i THEN j ELSE j + 1)
  <2>1. CASE j < i
    BY <1>1, <2>1 DEF LeavesOut
  <2>2. CASE j >= i
    <3>1. j + 1 \in 1..Len(c) /\ j + 1 # i /\ d[j] = c[j + 1]
      BY <1>1, <2>2 DEF LeavesOut
    <3> QED
      BY <3>1, <2>2
  <2> QED
    BY <1>1, <2>1, <2>2
<1>3. ASSUME NEW l \in 1..Len(c), l # i
      PROVE  \E j \in 1..Len(d) : d[j] = c[l] /\ j = (IF l < i THEN l ELSE l - 1)
  <2>1. CASE l < i
    BY <1>1, <2>1 DEF LeavesOut
  <2>2. CASE l > i
    <3>1. l - 1 \in i..(Len(c) - 1) /\ l - 1 \in 1..Len(d) /\ (l - 1) + 1 = l
      BY <1>1, <2>2
    <3> QED
      BY <3>1, <2>2 DEF LeavesOut
  <2> QED
    BY <1>3, <2>1, <2>2
<1> QED
  BY <1>2, <1>3

-----------------------------------------------------------------------------
(* Maps *)

\* What a change of one bucket leaves.
LEMMA ChangedBucket ==
  ASSUME NEW m, IsMap(m), NEW b \in Rng(m), NEW c \in Seq(Slots), NEW cnt \in Int,
         NEW n \in 0..(SizeMod - 1), NEW m2, m2 = WithBucket(m, b, Bucket(c, cnt), n)
  PROVE  /\ IsMap(m2) /\ m2.n = m.n /\ Rng(m2) = Rng(m)
         /\ Chain(m2, b) = c /\ m2.buckets[b].cnt = cnt
         /\ \A d \in Rng(m) \ {b} : m2.buckets[d] = m.buckets[d] /\ Chain(m2, d) = Chain(m, d)
         /\ \A k : BucketOf(m2, k) = BucketOf(m, k)
<1>1. /\ m2.n = m.n /\ m2.slot_cnt = n
      /\ m2.buckets = [m.buckets EXCEPT ![b] = Bucket(c, cnt)]
  BY DEF WithBucket, KVMap
<1>2. Bucket(c, cnt) \in [chain : Seq(Slots), cnt : Int] /\ Bucket(c, cnt).chain = c /\ Bucket(c, cnt).cnt = cnt
  BY DEF Bucket
<1> HIDE DEF Bucket
<1>3. m2.buckets \in [Rng(m) -> [chain : Seq(Slots), cnt : Int]]
  BY <1>1, <1>2 DEF IsMap
<1> QED
  BY <1>1, <1>2, <1>3 DEF IsMap, Rng, Chain, BucketOf

\* The chains of a map are sequences.
LEMMA ChainType ==
  ASSUME NEW m, IsMap(m), NEW b \in Rng(m)
  PROVE  Chain(m, b) \in Seq(Slots) /\ m.buckets[b].cnt \in Int /\ Len(Chain(m, b)) \in Nat
  BY DEF IsMap, Chain

\* Two slots of a map that have one key are one slot.
LEMMA KeyUnique ==
  ASSUME NEW m, NEW sl, PlacedAs(m, sl), NEW s, NEW t, In(m, s), In(m, t), sl[s].key = sl[t].key
  PROVE  s = t
  BY DEF PlacedAs, In

\* What stands in a map is the entry of an address.
LEMMA InEntries ==
  ASSUME NEW m, IsMap(m), NEW sl, PlacedAs(m, sl), NEW s, In(m, s)
  PROVE  s \in Slots /\ sl[s] \in Entries /\ sl[s].key \in Keys /\ sl[s] # Free
<1>1. PICK b \in Rng(m) : \E i \in 1..Len(Chain(m, b)) : Chain(m, b)[i] = s
  BY DEF In
<1>2. s \in Slots
  BY <1>1, ChainType
<1>3. sl[s] \in Entries
  BY <1>1 DEF PlacedAs
<1> QED
  BY <1>2, <1>3, SentinelAssumption DEF Entries

\* A map stays right when only addresses change that it does not link.
LEMMA PlacedKept ==
  ASSUME NEW m, NEW sl, NEW sl2, PlacedAs(m, sl), \A s : In(m, s) => sl2[s] = sl[s]
  PROVE  PlacedAs(m, sl2)
  BY DEF PlacedAs, In

\* A map without slots.
LEMMA NewMapEmpty ==
  ASSUME NEW n \in Nat
  PROVE  /\ IsMap(NewMap(n)) /\ NewMap(n).n = n
         /\ \A s : ~In(NewMap(n), s)
         /\ \A sl : PlacedAs(NewMap(n), sl)
         /\ Counted(NewMap(n))
<1> DEFINE m == NewMap(n)
<1>1. /\ m.n = n /\ m.slot_cnt = 0
      /\ m.buckets = [b \in 0..(n - 1) |-> Bucket(<<>>, 0)]
  BY DEF NewMap, KVMap
<1>2. Bucket(<<>>, 0) \in [chain : Seq(Slots), cnt : Int] /\ Bucket(<<>>, 0).chain = <<>> /\ Bucket(<<>>, 0).cnt = 0
  BY DEF Bucket
<1> HIDE DEF m
<1>3. 0 \in 0..(SizeMod - 1)
  BY ModAssumption
<1>4. IsMap(m)
  BY <1>1, <1>2, <1>3 DEF IsMap, Rng
<1>5. \A b \in Rng(m) : Len(Chain(m, b)) = 0 /\ m.buckets[b].cnt = 0
  BY <1>1, <1>2 DEF Rng, Chain
<1>6. Counted(m) /\ \A s : ~In(m, s)
  BY <1>5 DEF Counted, In
<1>7. \A sl : PlacedAs(m, sl)
  BY <1>5 DEF PlacedAs
<1> QED
  BY <1>1, <1>4, <1>6, <1>7 DEF m

-----------------------------------------------------------------------------
(* A push and a slot left out *)

\* A push adds one slot to the map, and keeps it right if no slot of the map has the key of the new
\* one and the new one goes into its bucket.
LEMMA PushOK ==
  ASSUME NEW m, IsMap(m), NEW b \in Rng(m), NEW s \in Slots, NEW n \in 0..(SizeMod - 1),
         NEW m2, m2 = WithBucket(m, b, push_slot(m.buckets[b], s), n)
  PROVE  /\ IsMap(m2) /\ m2.n = m.n
         /\ \A t : In(m2, t) <=> In(m, t) \/ t = s
         /\ Counted(m) => Counted(m2)
         /\ (\A d \in Rng(m) : m.buckets[d].cnt >= Len(Chain(m, d)))
              => \A d \in Rng(m2) : m2.buckets[d].cnt >= Len(Chain(m2, d))
         /\ \A sl : /\ PlacedAs(m, sl)
                    /\ sl[s] \in Entries /\ BucketOf(m, sl[s].key) = b
                    /\ \A t : In(m, t) => sl[t].key # sl[s].key
                    => PlacedAs(m2, sl)
<1> DEFINE old == Chain(m, b)
           new == push_head(old, s)
           cnt == m.buckets[b].cnt
<1>1. old \in Seq(Slots) /\ cnt \in Int /\ Len(old) \in Nat
  BY ChainType
<1>2. /\ new \in Seq(Slots) /\ Len(new) = Len(old) + 1 /\ new[1] = s
      /\ \A i \in 1..Len(old) : new[i + 1] = old[i]
  BY <1>1, PushHead
<1>3. m2 = WithBucket(m, b, Bucket(new, cnt + 1), n)
  BY DEF push_slot, Chain
<1> HIDE DEF old, new, cnt
<1>4. /\ IsMap(m2) /\ m2.n = m.n /\ Rng(m2) = Rng(m)
      /\ Chain(m2, b) = new /\ m2.buckets[b].cnt = cnt + 1
      /\ \A d \in Rng(m) \ {b} : m2.buckets[d] = m.buckets[d] /\ Chain(m2, d) = Chain(m, d)
      /\ \A k : BucketOf(m2, k) = BucketOf(m, k)
  <2>1. cnt + 1 \in Int
    BY <1>1
  <2> QED
    BY <1>2, <1>3, <2>1, ChangedBucket
<1>5. \A i \in 1..Len(new) : IF i = 1 THEN new[i] = s ELSE i - 1 \in 1..Len(old) /\ new[i] = old[i - 1]
  <2>1. SUFFICES ASSUME NEW i \in 1..Len(new), i # 1
                 PROVE  i - 1 \in 1..Len(old) /\ new[i] = old[i - 1]
    BY <1>2
  <2>2. i - 1 \in 1..Len(old) /\ (i - 1) + 1 = i
    BY <2>1, <1>1, <1>2
  <2> QED
    BY <2>2, <1>2
<1>6. \A t : In(m2, t) <=> In(m, t) \/ t = s
  <2>1. ASSUME NEW t, In(m2, t), t # s
        PROVE  In(m, t)
    <3>1. PICK d \in Rng(m) : \E i \in 1..Len(Chain(m2, d)) : Chain(m2, d)[i] = t
      BY <2>1, <1>4 DEF In
    <3>2. CASE d = b
      BY <3>1, <3>2, <2>1, <1>4, <1>5 DEF In, old
    <3>3. CASE d # b
      BY <3>1, <3>3, <1>4 DEF In
    <3> QED
      BY <3>2, <3>3
  <2>2. ASSUME NEW t, In(m, t)
        PROVE  In(m2, t)
    <3>1. PICK d \in Rng(m) : \E i \in 1..Len(Chain(m, d)) : Chain(m, d)[i] = t
      BY <2>2 DEF In
    <3>2. CASE d = b
      <4>1. PICK i \in 1..Len(old) : old[i] = t
        BY <3>1, <3>2 DEF old
      <4>2. i + 1 \in 1..Len(new) /\ new[i + 1] = t
        BY <4>1, <1>1, <1>2
      <4> QED
        BY <4>2, <1>4 DEF In
    <3>3. CASE d # b
      BY <3>1, <3>3, <1>4 DEF In
    <3> QED
      BY <3>2, <3>3
  <2>3. In(m2, s)
    <3>1. 1 \in 1..Len(new) /\ new[1] = s
      BY <1>1, <1>2
    <3> QED
      BY <3>1, <1>4 DEF In
  <2> QED
    BY <2>1, <2>2, <2>3
<1>7. Counted(m) => Counted(m2)
  BY <1>1, <1>2, <1>4 DEF Counted, old, cnt
<1>8. (\A d \in Rng(m) : m.buckets[d].cnt >= Len(Chain(m, d)))
        => \A d \in Rng(m2) : m2.buckets[d].cnt >= Len(Chain(m2, d))
  BY <1>1, <1>2, <1>4 DEF old, cnt
<1>9. ASSUME NEW sl, PlacedAs(m, sl), sl[s] \in Entries, BucketOf(m, sl[s].key) = b,
             \A t : In(m, t) => sl[t].key # sl[s].key
      PROVE  PlacedAs(m2, sl)
  <2>1. \A i \in 1..Len(old) : In(m, old[i])
    BY DEF In, old
  <2>2. ASSUME NEW i \in 1..Len(new)
        PROVE  sl[new[i]] \in Entries /\ BucketOf(m, sl[new[i]].key) = b
    <3>1. CASE i = 1
      BY <3>1, <1>5, <1>9
    <3>2. CASE i # 1
      <4>1. i - 1 \in 1..Len(old) /\ new[i] = old[i - 1]
        BY <3>2, <1>5
      <4>2. \A k \in 1..Len(old) : sl[old[k]] \in Entries /\ BucketOf(m, sl[old[k]].key) = b
        BY <1>9 DEF PlacedAs, old
      <4> HIDE DEF old, new
      <4> QED
        BY <4>1, <4>2
    <3> QED
      BY <3>1, <3>2
  <2>3. ASSUME NEW i \in 1..Len(new), NEW j \in 1..Len(new), sl[new[i]].key = sl[new[j]].key
        PROVE  i = j
    <3>1. CASE i = 1 \/ j = 1
      BY <3>1, <2>1, <2>3, <1>5, <1>9
    <3>2. CASE i # 1 /\ j # 1
      <4>1. i - 1 \in 1..Len(old) /\ j - 1 \in 1..Len(old) /\ sl[old[i - 1]].key = sl[old[j - 1]].key
        BY <3>2, <2>3, <1>5
      <4>2. i - 1 = j - 1
        BY <4>1, <1>9 DEF PlacedAs, old
      <4> QED
        BY <4>2
    <3> QED
      BY <3>1, <3>2
  <2> QED
    BY <2>2, <2>3, <1>4, <1>9, SMTT(30) DEF PlacedAs
<1> QED
  BY <1>4, <1>6, <1>7, <1>8, <1>9

\* Leaving out the slot at one place of one chain takes that slot from the map, and keeps it right.
LEMMA LeaveOutOK ==
  ASSUME NEW m, IsMap(m), NEW sl, PlacedAs(m, sl), NEW b \in Rng(m), NEW i \in 1..Len(Chain(m, b)),
         NEW d, LeavesOut(d, Chain(m, b), i), NEW cnt \in Int, NEW n \in 0..(SizeMod - 1),
         NEW m2, m2 = WithBucket(m, b, Bucket(d, cnt), n)
  PROVE  /\ IsMap(m2) /\ m2.n = m.n
         /\ \A t : In(m2, t) <=> In(m, t) /\ t # Chain(m, b)[i]
         /\ PlacedAs(m2, sl)
         /\ Counted(m) /\ cnt = m.buckets[b].cnt - 1 => Counted(m2)
         /\ ((cnt = m.buckets[b].cnt) /\ \A e \in Rng(m) : m.buckets[e].cnt >= Len(Chain(m, e)))
              => \A e \in Rng(m2) : m2.buckets[e].cnt >= Len(Chain(m2, e))
<1> DEFINE c == Chain(m, b)
<1>1. c \in Seq(Slots) /\ Len(c) \in Nat /\ m.buckets[b].cnt \in Int
  BY ChainType
<1>2. d \in Seq(Slots) /\ Len(d) = Len(c) - 1
  BY DEF LeavesOut
<1>3. /\ IsMap(m2) /\ m2.n = m.n /\ Rng(m2) = Rng(m)
      /\ Chain(m2, b) = d /\ m2.buckets[b].cnt = cnt
      /\ \A e \in Rng(m) \ {b} : m2.buckets[e] = m.buckets[e] /\ Chain(m2, e) = Chain(m, e)
      /\ \A k : BucketOf(m2, k) = BucketOf(m, k)
  BY <1>2, ChangedBucket
<1>4. /\ \A j \in 1..Len(d) : \E l \in 1..Len(c) : l # i /\ d[j] = c[l] /\ l = (IF j < i THEN j ELSE j + 1)
      /\ \A l \in 1..Len(c) : l # i => \E j \in 1..Len(d) : d[j] = c[l]
  BY <1>1, LeftOut
<1>5. \A e \in Rng(m) : \A j \in 1..Len(Chain(m, e)) : Chain(m, e)[j] = c[i] => e = b /\ j = i
  BY DEF PlacedAs
<1> HIDE DEF c
<1>6. ASSUME NEW t, In(m2, t)
      PROVE  In(m, t) /\ t # c[i]
  <2>1. PICK e \in Rng(m2) : \E j \in 1..Len(Chain(m2, e)) : Chain(m2, e)[j] = t
    BY <1>6 DEF In
  <2> e \in Rng(m)
    BY <1>3
  <2>2. CASE e = b
    <3>0. PICK j \in 1..Len(d) : d[j] = t
      BY <2>1, <2>2, <1>3
    <3>1. PICK l \in 1..Len(c) : l # i /\ t = c[l]
      BY <3>0, <1>4
    <3>2. Chain(m, b)[l] = t /\ l \in 1..Len(Chain(m, b))
      BY <3>1 DEF c
    <3> QED
      BY <3>1, <3>2, <1>5 DEF In
  <2>3. CASE e # b
    <3>1. PICK l \in 1..Len(Chain(m, e)) : Chain(m, e)[l] = t
      BY <2>1, <2>3, <1>3
    <3> QED
      BY <3>1, <2>3, <1>5 DEF In
  <2> QED
    BY <2>2, <2>3
<1>7. ASSUME NEW t, In(m, t), t # c[i]
      PROVE  In(m2, t)
  <2>1. PICK e \in Rng(m) : \E j \in 1..Len(Chain(m, e)) : Chain(m, e)[j] = t
    BY <1>7 DEF In
  <2>2. CASE e = b
    <3>1. PICK l \in 1..Len(c) : l # i /\ t = c[l]
      BY <2>1, <2>2, <1>7 DEF c
    <3>2. PICK j \in 1..Len(d) : d[j] = t
      BY <3>1, <1>4
    <3>3. j \in 1..Len(Chain(m2, b)) /\ Chain(m2, b)[j] = t /\ b \in Rng(m2)
      BY <3>2, <1>3
    <3> QED
      BY <3>3 DEF In
  <2>3. CASE e # b
    BY <2>1, <2>3, <1>3 DEF In
  <2> QED
    BY <2>2, <2>3
<1>8. PlacedAs(m2, sl)
  <2>1. ASSUME NEW j \in 1..Len(d)
        PROVE  sl[d[j]] \in Entries /\ BucketOf(m, sl[d[j]].key) = b
    BY <1>4 DEF PlacedAs, c
  <2>2. ASSUME NEW j \in 1..Len(d), NEW k \in 1..Len(d), sl[d[j]].key = sl[d[k]].key
        PROVE  j = k
    <3>1. PICK l \in 1..Len(c) : d[j] = c[l] /\ l = (IF j < i THEN j ELSE j + 1)
      BY <1>4
    <3>2. PICK o \in 1..Len(c) : d[k] = c[o] /\ o = (IF k < i THEN k ELSE k + 1)
      BY <1>4
    <3>3. l = o
      BY <2>2, <3>1, <3>2 DEF PlacedAs, c
    <3> QED
      BY <3>1, <3>2, <3>3
  <2> QED
    BY <2>1, <2>2, <1>3 DEF PlacedAs
<1>9. Counted(m) /\ cnt = m.buckets[b].cnt - 1 => Counted(m2)
  BY <1>1, <1>2, <1>3 DEF Counted, c
<1>10. ((cnt = m.buckets[b].cnt) /\ \A e \in Rng(m) : m.buckets[e].cnt >= Len(Chain(m, e)))
         => \A e \in Rng(m2) : m2.buckets[e].cnt >= Len(Chain(m2, e))
  BY <1>1, <1>2, <1>3 DEF c
<1> QED
  BY <1>3, <1>6, <1>7, <1>8, <1>9, <1>10 DEF c

-----------------------------------------------------------------------------
(* Lookup, insertion and removal in a map and in the addresses together *)

\* The map is right, its slots are all there are, and their counts are exact.
MapOwns(m, sl) ==
  /\ IsMap(m) /\ sl \in Slotting /\ PlacedAs(m, sl) /\ Counted(m)
  /\ \A s \in Slots : sl[s] # Free => In(m, s)

\* _lookup_slot finds the only slot that has the key.
LEMMA Lookup ==
  ASSUME NEW m, IsMap(m), m.n # 0, PlacedAs(m, slot), NEW k \in Keys, Has(m, k)
  PROVE  /\ BucketOf(m, k) \in Rng(m)
         /\ Place(m, k) \in 1..Len(Chain(m, BucketOf(m, k)))
         /\ SlotOf(m, k) = Chain(m, BucketOf(m, k))[Place(m, k)]
         /\ In(m, SlotOf(m, k))
         /\ slot[SlotOf(m, k)].key = k
<1> DEFINE b == BucketOf(m, k)
<1>1. b \in Rng(m)
  BY BucketInRange DEF IsMap
<1>2. Chain(m, b) \in Seq(Slots) /\ DOMAIN Chain(m, b) = 1..Len(Chain(m, b))
  BY <1>1, ChainType
<1>3. Places(m, k) = {i \in 1..Len(Chain(m, b)) : slot[Chain(m, b)[i]].key = k}
  BY <1>2 DEF Places, Chain
<1> HIDE DEF b
<1>4. PICK p \in Places(m, k) : \A j \in Places(m, k) : p <= j
  <2>1. PICK p \in Places(m, k) : TRUE
    BY DEF Has
  <2>2. ASSUME NEW j \in Places(m, k)
        PROVE  p <= j
    <3>1. j = p
      BY <1>1, <1>3 DEF PlacedAs
    <3> QED
      BY <1>3, <3>1
  <2> QED
    BY <2>2
<1>5. Place(m, k) \in Places(m, k)
  BY <1>4 DEF Place
<1>6. SlotOf(m, k) = Chain(m, b)[Place(m, k)]
  BY DEF SlotOf, Chain, b
<1> QED
  BY <1>1, <1>3, <1>5, <1>6 DEF In, b

\* A lookup that finds none misses none.
LEMMA LookupMisses ==
  ASSUME NEW m, IsMap(m), PlacedAs(m, slot), NEW k \in Keys, ~Has(m, k)
  PROVE  \A t : In(m, t) => slot[t].key # k
<1> SUFFICES ASSUME NEW t, In(m, t), slot[t].key = k
             PROVE  FALSE
  OBVIOUS
<1>1. PICK b \in Rng(m) : \E i \in 1..Len(Chain(m, b)) : Chain(m, b)[i] = t
  BY DEF In
<1>2. PICK i \in 1..Len(Chain(m, b)) : Chain(m, b)[i] = t
  BY <1>1
<1>3. b = BucketOf(m, k)
  BY <1>2 DEF PlacedAs
<1>4. i \in DOMAIN m.buckets[BucketOf(m, k)].chain /\ slot[m.buckets[BucketOf(m, k)].chain[i]].key = k
  BY <1>2, <1>3, ChainType DEF Chain
<1> QED
  BY <1>4 DEF Has, Places

\* m with the slot s pushed into the bucket of k, and with the count n.
With(m, k, s, n) == WithBucket(m, BucketOf(m, k), push_slot(m.buckets[BucketOf(m, k)], s), n)

\* A slot from the heap with a key that the map has not.
LEMMA PushOwns ==
  ASSUME NEW m, NEW sl, MapOwns(m, sl), m.n # 0, NEW k \in Keys, NEW v \in Vals,
         NEW s \in Slots, sl[s] = Free, \A t : In(m, t) => sl[t].key # k,
         NEW n \in 0..(SizeMod - 1)
  PROVE  /\ MapOwns(With(m, k, s, n), [sl EXCEPT ![s] = Entry(k, v)])
         /\ \A t : In(With(m, k, s, n), t) <=> In(m, t) \/ t = s
<1> DEFINE b == BucketOf(m, k)
           m2 == With(m, k, s, n)
           sl2 == [sl EXCEPT ![s] = Entry(k, v)]
<1>1. b \in Rng(m)
  BY BucketInRange DEF MapOwns, IsMap
<1>2. ~In(m, s)
  BY InEntries DEF MapOwns
<1>3. Entry(k, v) \in Entries /\ Entry(k, v).key = k
  BY DEF Entry, Entries
<1>4. sl2 \in Slotting /\ sl2[s] = Entry(k, v) /\ \A t \in Slots : t # s => sl2[t] = sl[t]
  BY <1>3 DEF MapOwns, Slotting
<1> HIDE DEF sl2
<1>5. \A t : In(m, t) => t \in Slots /\ sl2[t] = sl[t]
  BY <1>2, <1>4, InEntries DEF MapOwns
<1>6. PlacedAs(m, sl2)
  BY <1>5, PlacedKept DEF MapOwns
<1>7. \A t : In(m, t) => sl2[t].key # sl2[s].key
  BY <1>3, <1>4, <1>5
<1>8. sl2[s] \in Entries /\ BucketOf(m, sl2[s].key) = b
  BY <1>3, <1>4
<1> HIDE DEF b, m2
<1>9. /\ IsMap(m2)
      /\ \A t : In(m2, t) <=> In(m, t) \/ t = s
      /\ Counted(m) => Counted(m2)
      /\ PlacedAs(m2, sl2)
  <2>1. IsMap(m) /\ m2 = WithBucket(m, b, push_slot(m.buckets[b], s), n)
    BY DEF MapOwns, With, b, m2
  <2>2. /\ IsMap(m2)
        /\ \A t : In(m2, t) <=> In(m, t) \/ t = s
        /\ Counted(m) => Counted(m2)
        /\ \A l : /\ PlacedAs(m, l)
                  /\ l[s] \in Entries /\ BucketOf(m, l[s].key) = b
                  /\ \A t : In(m, t) => l[t].key # l[s].key
                  => PlacedAs(m2, l)
    BY <1>1, <2>1, PushOK
  <2> QED
    BY <1>6, <1>7, <1>8, <2>2
<1> QED
  BY <1>4, <1>9 DEF MapOwns, m2, sl2

\* m without the slot of k, and with the count n; and what the addresses hold then.
Without(m, k, n) ==
  WithBucket(m, BucketOf(m, k), unlink_slot(m.buckets[BucketOf(m, k)], Place(m, k)), n)

SlotsWithout(m, k) == [slot EXCEPT ![SlotOf(m, k)] = Free]

\* The slot of a key is unlinked and its address given back to the heap.
LEMMA RemoveOwns ==
  ASSUME NEW m, MapOwns(m, slot), m.n # 0, NEW k \in Keys, Has(m, k),
         NEW n \in 0..(SizeMod - 1)
  PROVE  /\ MapOwns(Without(m, k, n), SlotsWithout(m, k)) /\ Without(m, k, n).n = m.n
         /\ \A t : In(Without(m, k, n), t) => SlotsWithout(m, k)[t].key # k
         /\ \A t : In(Without(m, k, n), t) <=> In(m, t) /\ t # SlotOf(m, k)
<1> DEFINE m2 == Without(m, k, n)
           sl2 == SlotsWithout(m, k)
           b == BucketOf(m, k)
           i == Place(m, k)
           old == SlotOf(m, k)
           d == unlink(Chain(m, b), i)
           cnt == m.buckets[b].cnt - 1
<1>1. IsMap(m) /\ PlacedAs(m, slot) /\ slot \in Slotting
  BY DEF MapOwns
<1>2. b \in Rng(m) /\ i \in 1..Len(Chain(m, b)) /\ old = Chain(m, b)[i] /\ In(m, old) /\ slot[old].key = k
  BY <1>1, Lookup
<1>3. m2 = WithBucket(m, b, Bucket(d, cnt), n)
  BY DEF unlink_slot, Chain, Without
<1>0. sl2 = [slot EXCEPT ![old] = Free]
  BY DEF SlotsWithout
<1> HIDE DEF b, i, old, d, m2, sl2
<1>4. cnt \in Int /\ LeavesOut(d, Chain(m, b), i)
  BY <1>1, <1>2, ChainType, UnlinkLeavesOut DEF d
<1>5. cnt = m.buckets[b].cnt - 1
  OBVIOUS
<1> HIDE DEF cnt
<1>6. /\ IsMap(m2) /\ m2.n = m.n
      /\ \A t : In(m2, t) <=> In(m, t) /\ t # old
      /\ PlacedAs(m2, slot)
      /\ Counted(m) => Counted(m2)
  BY <1>1, <1>2, <1>3, <1>4, <1>5, LeaveOutOK
<1>7. old \in Slots
  BY <1>1, <1>2, InEntries
<1>8. sl2 \in Slotting /\ sl2[old] = Free /\ \A t \in Slots : t # old => sl2[t] = slot[t]
  BY <1>0, <1>1, <1>7 DEF Slotting
<1>9. \A t : In(m2, t) => t \in Slots /\ sl2[t] = slot[t]
  BY <1>1, <1>6, <1>8, InEntries
<1>10. PlacedAs(m2, sl2)
  BY <1>6, <1>9, PlacedKept
<1>11. \A t : In(m2, t) => sl2[t].key # k
  BY <1>1, <1>2, <1>6, <1>9, KeyUnique
<1>12. \A t \in Slots : sl2[t] # Free => In(m2, t)
  BY <1>6, <1>8 DEF MapOwns
<1> QED
  BY <1>6, <1>8, <1>10, <1>11, <1>12 DEF MapOwns, m2, sl2, old

-----------------------------------------------------------------------------
(* The steps *)

\* Between calls the invariant is about the map alone.
LEMMA OpenInv ==
  ASSUME MapOwns(kvm', slot'), tmp' = NoMap, pc' \in {"open", "upserting"},
         todo' \in Entries \cup {NoCall}, pc' = "upserting" => todo' # NoCall,
         rc' \in Vals \cup {"OK", "FAILED"}, uncounted' \in 0..(SizeMod - 1)
  PROVE  JInv'
<1>1. IsMap(NoMap) /\ (\A s : ~In(NoMap, s)) /\ (\A sl : PlacedAs(NoMap, sl)) /\ Counted(NoMap)
  BY NewMapEmpty DEF NoMap
<1>2. JTypes'
  BY <1>1 DEF JTypes, MapOwns
<1>3. JPlaced' /\ JApart' /\ JOwned'
  BY <1>1 DEF JPlaced, JApart, JOwned, MapOwns
<1>4. JCounts'
  <2>1. \A b \in Rng(kvm') : Len(Chain(kvm', b)) \in Nat
    BY ChainType DEF MapOwns
  <2> QED
    BY <1>1, <2>1 DEF JCounts, MapOwns, Counted
<1>5. JPhase'
  BY DEF JPhase
<1> QED
  BY <1>2, <1>3, <1>4, <1>5 DEF JInv

\* Conversely, the invariant gives that of the map.
LEMMA InvOpen ==
  ASSUME JInv, pc # "rehashing"
  PROVE  MapOwns(kvm, slot) /\ tmp = NoMap
<1>1. \A s : ~In(NoMap, s)
  BY NewMapEmpty DEF NoMap
<1> QED
  BY <1>1 DEF JInv, JTypes, JPlaced, JOwned, JCounts, JPhase, MapOwns

\* In the beginning there is no map.
LEMMA InitInv == Init => JInv
<1> SUFFICES ASSUME Init PROVE JInv
  OBVIOUS
<1>1. IsMap(NoMap) /\ (\A s : ~In(NoMap, s)) /\ (\A sl : PlacedAs(NoMap, sl)) /\ Counted(NoMap) /\ NoMap.n = 0
  BY NewMapEmpty DEF NoMap
<1>2. JTypes
  BY <1>1, ModAssumption DEF JTypes, Init, Slotting
<1>3. JPlaced /\ JApart /\ JOwned
  BY <1>1 DEF JPlaced, JApart, JOwned, Init
<1>4. JCounts /\ JPhase
  BY <1>1 DEF JCounts, JPhase, Init, Rng
<1> QED
  BY <1>2, <1>3, <1>4 DEF JInv

\* insert pushes a slot from the heap.
LEMMA InsertInv ==
  ASSUME JInv, NEW k \in Keys, NEW v \in Vals, Insert(k, v)
  PROVE  JInv'
<1>1. MapOwns(kvm, slot) /\ tmp = NoMap
  BY InvOpen DEF Insert
<1>2. PICK s \in Slots : slot[s] = Free /\ slot' = [slot EXCEPT ![s] = Entry(k, v)] /\ kvm' = Link(kvm, k, s)
  BY DEF Insert
<1>3. \A t : In(kvm, t) => slot[t].key # k
  BY <1>1, LookupMisses DEF Insert, MapOwns
<1>4. (kvm.slot_cnt + 1) % SizeMod \in 0..(SizeMod - 1)
  <2>1. kvm.slot_cnt + 1 \in Int
    BY <1>1 DEF MapOwns, IsMap
  <2> QED
    BY <2>1, CountRange
<1>5. MapOwns(kvm', slot')
  <2> DEFINE n == (kvm.slot_cnt + 1) % SizeMod
  <2>1. kvm' = With(kvm, k, s, n)
    BY <1>2 DEF Link, With
  <2>2. n \in 0..(SizeMod - 1) /\ kvm.n # 0
    BY <1>4 DEF Insert, is_init
  <2> HIDE DEF n
  <2>3. MapOwns(With(kvm, k, s, n), [slot EXCEPT ![s] = Entry(k, v)])
    BY <1>1, <1>2, <1>3, <2>2, PushOwns
  <2> QED
    BY <1>2, <2>1, <2>3
<1> QED
  BY <1>1, <1>5, OpenInv DEF Insert, Done, JInv, JTypes

\* upsert_slot is an unlink and a push in one bucket.
LEMMA ReplaceIsPush ==
  ASSUME IsMap(kvm), kvm.n # 0, NEW k \in Keys, NEW s
  PROVE  LET b  == BucketOf(kvm, k)
             m1 == Without(kvm, k, kvm.slot_cnt)
         IN  WithBucket(kvm, b, push_slot(unlink_slot(kvm.buckets[b], Place(kvm, k)), s), kvm.slot_cnt)
               = WithBucket(m1, b, push_slot(m1.buckets[b], s), kvm.slot_cnt)
<1> DEFINE b  == BucketOf(kvm, k)
           m1 == Without(kvm, k, kvm.slot_cnt)
           y  == unlink_slot(kvm.buckets[b], Place(kvm, k))
           x  == push_slot(y, s)
           f  == kvm.buckets
<1>1. m1.n = kvm.n /\ m1.buckets = [f EXCEPT ![b] = y]
  BY DEF WithBucket, KVMap, Without
<1>2. f \in [Rng(kvm) -> [chain : Seq(Slots), cnt : Int]] /\ b \in Rng(kvm)
  BY BucketInRange DEF IsMap
<1> HIDE DEF y, f, b, m1
<1>3. m1.buckets[b] = y
  BY <1>1, <1>2
<1> HIDE DEF x
<1>4. [m1.buckets EXCEPT ![b] = x] = [f EXCEPT ![b] = x]
  BY <1>1, <1>2
<1> QED
  BY <1>1, <1>3, <1>4 DEF WithBucket, x, f, b, m1, y

\* upsert pushes a slot from the heap, behind an unlink if the key was there.
LEMMA UpsertInv ==
  ASSUME JInv, pc # "rehashing", NEW k \in Keys, NEW v \in Vals, UpsertBody(k, v)
  PROVE  JInv'
<1> DEFINE b   == BucketOf(kvm, k)
           old == kvm.buckets[b]
<1>1. MapOwns(kvm, slot) /\ tmp = NoMap /\ kvm.n # 0
  BY InvOpen DEF UpsertBody, is_init
<1>2. PICK s \in Slots :
        /\ slot[s] = Free
        /\ IF Has(kvm, k)
           THEN /\ slot' = [slot EXCEPT ![s] = Entry(k, v), ![SlotOf(kvm, k)] = Free]
                /\ kvm'  = WithBucket(kvm, b, push_slot(unlink_slot(old, Place(kvm, k)), s), kvm.slot_cnt)
                /\ uncounted' = uncounted
           ELSE /\ slot' = [slot EXCEPT ![s] = Entry(k, v)]
                /\ kvm'  = WithBucket(kvm, b, push_slot(old, s), kvm.slot_cnt)
                /\ uncounted' = (uncounted + 1) % SizeMod
  BY DEF UpsertBody
<1>3. kvm.slot_cnt \in 0..(SizeMod - 1)
  BY <1>1 DEF MapOwns, IsMap
<1>4. MapOwns(kvm', slot')
  <2>1. CASE ~Has(kvm, k)
    <3>1. \A t : In(kvm, t) => slot[t].key # k
      BY <1>1, <2>1, LookupMisses DEF MapOwns
    <3> QED
      BY <1>1, <1>2, <1>3, <2>1, <3>1, PushOwns DEF With
  <2>2. CASE Has(kvm, k)
    <3> DEFINE m1  == Without(kvm, k, kvm.slot_cnt)
               sl1 == SlotsWithout(kvm, k)
    <3>1. /\ MapOwns(m1, sl1) /\ m1.n = kvm.n
          /\ \A t : In(m1, t) => sl1[t].key # k
      BY <1>1, <1>3, <2>2, RemoveOwns
    <3>2. b \in Rng(kvm) /\ slot \in Slotting
      BY <1>1, BucketInRange DEF MapOwns, IsMap
    <3>3. SlotOf(kvm, k) \in Slots /\ slot[SlotOf(kvm, k)] # Free
      BY <1>1, <2>2, Lookup, InEntries DEF MapOwns
    <3>4. sl1[s] = Free
      BY <1>2, <3>2, <3>3 DEF Slotting, SlotsWithout
    <3>5. slot' = [sl1 EXCEPT ![s] = Entry(k, v)]
      BY <1>2, <2>2, <3>2, <3>3 DEF Slotting, SlotsWithout
    <3>6. kvm' = With(m1, k, s, kvm.slot_cnt)
      <4>1. BucketOf(m1, k) = b
        BY <3>1 DEF BucketOf
      <4>2. kvm' = WithBucket(m1, b, push_slot(m1.buckets[b], s), kvm.slot_cnt)
        BY <1>1, <1>2, <2>2, ReplaceIsPush DEF MapOwns
      <4> QED
        BY <4>1, <4>2 DEF With
    <3> HIDE DEF m1, sl1
    <3>7. MapOwns(With(m1, k, s, kvm.slot_cnt), [sl1 EXCEPT ![s] = Entry(k, v)])
      BY <1>1, <1>2, <1>3, <3>1, <3>4, PushOwns
    <3> QED
      BY <3>5, <3>6, <3>7
  <2> QED
    BY <2>1, <2>2
<1>5. uncounted' \in 0..(SizeMod - 1)
  <2>1. uncounted \in 0..(SizeMod - 1) /\ uncounted + 1 \in Int
    BY DEF JInv, JTypes
  <2> QED
    BY <1>2, <2>1, CountRange
<1> QED
  BY <1>1, <1>4, <1>5, OpenInv DEF UpsertBody, Done

\* remove unlinks the slot of the key and deletes it.
LEMMA RemoveInv ==
  ASSUME JInv, NEW k \in Keys, RemoveKey(k)
  PROVE  JInv'
<1>1. MapOwns(kvm, slot) /\ tmp = NoMap /\ kvm.n # 0 /\ Has(kvm, k)
  BY InvOpen DEF RemoveKey, is_init
<1>2. (kvm.slot_cnt - 1) % SizeMod \in 0..(SizeMod - 1)
  <2>1. kvm.slot_cnt - 1 \in Int
    BY <1>1 DEF MapOwns, IsMap
  <2> QED
    BY <2>1, CountRange
<1>3. slot' = [slot EXCEPT ![SlotOf(kvm, k)] = Free]
  BY <1>1 DEF RemoveKey, Freed, MapOwns, Slotting
<1>4. kvm' = WithBucket(kvm, BucketOf(kvm, k), unlink_slot(kvm.buckets[BucketOf(kvm, k)], Place(kvm, k)),
                        (kvm.slot_cnt - 1) % SizeMod)
  BY DEF RemoveKey, Unlink
<1>5. MapOwns(kvm', slot')
  <2>1. kvm' = Without(kvm, k, (kvm.slot_cnt - 1) % SizeMod) /\ slot' = SlotsWithout(kvm, k)
    BY <1>3, <1>4 DEF Without, SlotsWithout
  <2> QED
    BY <1>1, <1>2, <2>1, RemoveOwns
<1> QED
  BY <1>1, <1>5, OpenInv DEF RemoveKey, Done, JInv, JTypes

\* A rehash begins with an empty map.
LEMMA StartRehashInv ==
  ASSUME JInv, pc = "open", NEW n \in Nat, NEW call \in Entries \cup {NoCall}, StartRehash(n, call)
  PROVE  JInv'
<1>1. MapOwns(kvm, slot) /\ kvm.n \in Nat
  BY InvOpen DEF MapOwns, IsMap
<1>2. NewSize(n) \in Nat /\ NewSize(n) # 0
  BY <1>1 DEF NewSize
<1>3. /\ tmp' = NewMap(NewSize(n)) /\ kvm' = kvm /\ slot' = slot /\ pc' = "rehashing" /\ todo' = call
      /\ rc' = rc /\ uncounted' = uncounted
  BY DEF StartRehash
<1>4. IsMap(tmp') /\ tmp'.n # 0 /\ (\A s : ~In(tmp', s)) /\ PlacedAs(tmp', slot') /\ Counted(tmp')
  BY <1>2, <1>3, NewMapEmpty
<1>5. \A b \in Rng(kvm) : kvm.buckets[b].cnt >= Len(Chain(kvm, b))
  BY DEF JInv, JCounts
<1>6. JTypes'
  BY <1>1, <1>3, <1>4 DEF JInv, JTypes, MapOwns
<1>7. JPlaced' /\ JApart' /\ JOwned'
  BY <1>1, <1>3, <1>4 DEF JPlaced, JApart, JOwned, MapOwns
<1>8. JCounts' /\ JPhase'
  BY <1>3, <1>4, <1>5 DEF JCounts, JPhase
<1> QED
  BY <1>6, <1>7, <1>8 DEF JInv

\* One slot goes from the first row that has some to the bucket of its hash in the temporary map.
LEMMA RehashStepMoves ==
  ASSUME JInv, RehashStep
  PROVE  JInv' /\ \E s \in Slots : /\ In(kvm, s) /\ ~In(tmp, s)
                                   /\ \A t : In(kvm', t) <=> In(kvm, t) /\ t # s
                                   /\ \A t : In(tmp', t) <=> In(tmp, t) \/ t = s
                                   /\ tmp'.slot_cnt = (tmp.slot_cnt + 1) % SizeMod
<1>1. PICK b \in Rows :
        /\ kvm' = WithBucket(kvm, b, Bucket(Tail(kvm.buckets[b].chain), kvm.buckets[b].cnt), kvm.slot_cnt)
        /\ tmp' = Link(tmp, slot[Head(kvm.buckets[b].chain)].key, Head(kvm.buckets[b].chain))
  BY DEF RehashStep
<1> DEFINE c == Chain(kvm, b)
           s == c[1]
           k == slot[s].key
<1>2. IsMap(kvm) /\ IsMap(tmp) /\ PlacedAs(kvm, slot) /\ PlacedAs(tmp, slot) /\ tmp.n # 0 /\ Counted(tmp)
  BY DEF JInv, JTypes, JPlaced, JPhase, JCounts, RehashStep
<1>3. b \in Rng(kvm) /\ c # <<>>
  BY <1>2 DEF Rows, Chain, IsMap
<1>4. c \in Seq(Slots) /\ kvm.buckets[b].cnt \in Int /\ 1 \in 1..Len(c) /\ Head(c) = c[1]
  BY <1>2, <1>3, ChainType
<1>5. LeavesOut(Tail(c), c, 1)
  BY <1>3, <1>4, TailLeavesOut
<1>6. kvm.slot_cnt \in 0..(SizeMod - 1) /\ (tmp.slot_cnt + 1) % SizeMod \in 0..(SizeMod - 1)
  <2>1. tmp.slot_cnt + 1 \in Int /\ kvm.slot_cnt \in 0..(SizeMod - 1)
    BY <1>2 DEF IsMap
  <2> QED
    BY <2>1, CountRange
<1>7. In(kvm, s)
  BY <1>3, <1>4 DEF In
<1>8. s \in Slots /\ slot[s] \in Entries /\ k \in Keys
  BY <1>2, <1>7, InEntries
<1>9. kvm' = WithBucket(kvm, b, Bucket(Tail(c), kvm.buckets[b].cnt), kvm.slot_cnt)
  BY <1>1 DEF Chain
<1>10. tmp' = WithBucket(tmp, BucketOf(tmp, k), push_slot(tmp.buckets[BucketOf(tmp, k)], s),
                         (tmp.slot_cnt + 1) % SizeMod)
  BY <1>1, <1>4 DEF Chain, Link
<1>11. \A e \in Rng(kvm) : kvm.buckets[e].cnt >= Len(Chain(kvm, e))
  BY DEF JInv, JCounts
<1> HIDE DEF c
<1>12. /\ IsMap(kvm') /\ PlacedAs(kvm', slot)
       /\ \A t : In(kvm', t) <=> In(kvm, t) /\ t # s
       /\ \A e \in Rng(kvm') : kvm'.buckets[e].cnt >= Len(Chain(kvm', e))
  <2> DEFINE d == Tail(c)
             m2 == kvm'
             cnt == kvm.buckets[b].cnt
  <2>1. cnt \in Int /\ cnt = kvm.buckets[b].cnt /\ LeavesOut(d, Chain(kvm, b), 1) /\ 1 \in 1..Len(Chain(kvm, b))
    BY <1>4, <1>5 DEF c
  <2>2. m2 = WithBucket(kvm, b, Bucket(d, cnt), kvm.slot_cnt)
    BY <1>9
  <2> HIDE DEF d, m2, cnt
  <2>3. /\ IsMap(m2) /\ PlacedAs(m2, slot)
        /\ \A t : In(m2, t) <=> In(kvm, t) /\ t # Chain(kvm, b)[1]
        /\ \A e \in Rng(m2) : m2.buckets[e].cnt >= Len(Chain(m2, e))
    BY <1>2, <1>3, <1>6, <1>11, <2>1, <2>2, LeaveOutOK, SMTT(30)
  <2> QED
    BY <2>3 DEF m2, c
<1>13. BucketOf(tmp, k) \in Rng(tmp)
  BY <1>2, <1>8, BucketInRange DEF IsMap
<1>14. \A t : In(tmp, t) => slot[t].key # slot[s].key
  <2>1. ASSUME NEW t, In(tmp, t)
        PROVE  slot[t].key # slot[s].key
    <3>1. t \in Slots
      BY <1>2, <2>1, InEntries
    <3> QED
      BY <1>7, <1>8, <2>1, <3>1 DEF JInv, JApart
  <2> QED
    BY <2>1
<1>15. /\ IsMap(tmp') /\ tmp'.n = tmp.n
       /\ \A t : In(tmp', t) <=> In(tmp, t) \/ t = s
       /\ Counted(tmp')
       /\ PlacedAs(tmp', slot)
  <2> DEFINE m2 == tmp'
             e == BucketOf(tmp, k)
             n == (tmp.slot_cnt + 1) % SizeMod
  <2>1. m2 = WithBucket(tmp, e, push_slot(tmp.buckets[e], s), n) /\ n \in 0..(SizeMod - 1) /\ e \in Rng(tmp)
    BY <1>6, <1>10, <1>13
  <2>2. BucketOf(tmp, slot[s].key) = e
    OBVIOUS
  <2> HIDE DEF m2, e, n, s
  <2>3. /\ IsMap(m2) /\ m2.n = tmp.n
        /\ \A t : In(m2, t) <=> In(tmp, t) \/ t = s
        /\ Counted(tmp) => Counted(m2)
        /\ \A l : /\ PlacedAs(tmp, l)
                  /\ l[s] \in Entries /\ BucketOf(tmp, l[s].key) = e
                  /\ \A t : In(tmp, t) => l[t].key # l[s].key
                  => PlacedAs(m2, l)
    BY <1>2, <1>8, <2>1, PushOK
  <2>4. PlacedAs(m2, slot)
    BY <1>2, <1>8, <1>14, <2>2, <2>3
  <2> QED
    BY <1>2, <2>3, <2>4 DEF m2
<1>16. slot' = slot /\ pc' = "rehashing" /\ todo' = todo /\ rc' = rc /\ uncounted' = uncounted /\ pc = "rehashing"
  BY DEF RehashStep
<1> HIDE DEF s, k
<1>17. JTypes'
  BY <1>12, <1>15, <1>16 DEF JInv, JTypes
<1>18. JPlaced'
  BY <1>12, <1>15, <1>16 DEF JPlaced
<1>19. JApart'
  <2>1. ASSUME NEW t \in Slots, NEW u \in Slots, In(kvm', t), In(tmp', u)
        PROVE  slot[t].key # slot[u].key
    <3>1. CASE u = s
      BY <1>2, <1>7, <1>12, <2>1, <3>1, KeyUnique
    <3>2. CASE u # s
      BY <1>12, <1>15, <2>1, <3>2 DEF JInv, JApart
    <3> QED
      BY <3>1, <3>2
  <2> QED
    BY <1>16, <2>1 DEF JApart
<1>20. JOwned'
  BY <1>12, <1>15, <1>16 DEF JInv, JOwned
<1>21. JCounts' /\ JPhase'
  BY <1>2, <1>12, <1>15, <1>16 DEF JInv, JCounts, JPhase
<1>22. ~In(tmp, s)
  BY <1>14
<1>23. tmp'.slot_cnt = (tmp.slot_cnt + 1) % SizeMod
  BY <1>10 DEF WithBucket, KVMap
<1> QED
  BY <1>7, <1>8, <1>12, <1>15, <1>17, <1>18, <1>19, <1>20, <1>21, <1>22, <1>23 DEF JInv


\* At the end the rows are empty, and there is nothing to delete with the old map.
LEMMA RehashEndFreesNone ==
  ASSUME JInv, RehashEnd
  PROVE  slot' = slot /\ \A s : ~In(kvm, s)
<1>1. /\ IsMap(kvm) /\ PlacedAs(tmp, slot) /\ slot \in Slotting /\ IsMap(tmp) /\ Counted(tmp)
      /\ \A b \in Rng(kvm) : kvm.buckets[b].cnt >= Len(Chain(kvm, b))
  BY DEF JInv, JTypes, JPlaced, JCounts, RehashEnd
<1>2. \A b \in Rng(kvm) : Chain(kvm, b) \in Seq(Slots) /\ kvm.buckets[b].cnt \in Int /\ Len(Chain(kvm, b)) = 0
  <2>1. ASSUME NEW b \in Rng(kvm)
        PROVE  Chain(kvm, b) \in Seq(Slots) /\ kvm.buckets[b].cnt \in Int /\ Len(Chain(kvm, b)) = 0
    <3>1. Chain(kvm, b) \in Seq(Slots) /\ kvm.buckets[b].cnt \in Int
      BY <1>1, ChainType
    <3>2. ~(kvm.buckets[b].cnt # 0 /\ Chain(kvm, b) # <<>>)
      BY <1>1 DEF RehashEnd, Rows, IsMap, Chain
    <3> QED
      BY <1>1, <3>1, <3>2
  <2> QED
    BY <2>1
<1>3. \A s : ~In(kvm, s)
  BY <1>2 DEF In
<1>4. CleanedUp(kvm) = {}
  <2>1. \A b \in DOMAIN kvm.buckets : ToSet(kvm.buckets[b].chain) = {}
    BY <1>1, <1>2 DEF ToSet, Chain, IsMap
  <2> QED
    BY <2>1 DEF CleanedUp
<1>5. slot' = slot
  BY <1>1, <1>4 DEF RehashEnd, Freed, Slotting
<1> QED
  BY <1>3, <1>5

\* The temporary map takes the place of the old one.
LEMMA RehashEndInv ==
  ASSUME JInv, RehashEnd
  PROVE  JInv'
<1>1. kvm' = tmp /\ tmp' = NoMap
  BY DEF RehashEnd
<1>2. MapOwns(kvm', slot')
  BY <1>1, RehashEndFreesNone DEF MapOwns, JInv, JTypes, JPlaced, JCounts, JOwned
<1> QED
  BY <1>1, <1>2, ModAssumption, OpenInv DEF RehashEnd, JInv, JTypes

\* _cleanup deletes every slot.
LEMMA ResetFreesAll ==
  ASSUME JInv, Reset
  PROVE  slot' \in Slotting /\ \A s \in Slots : slot'[s] = Free
<1>1. MapOwns(kvm, slot)
  BY InvOpen DEF Reset
<1>2. \A s \in Slots : slot[s] # Free => s \in CleanedUp(kvm)
  <2>1. ASSUME NEW s \in Slots, slot[s] # Free
        PROVE  s \in CleanedUp(kvm)
    <3>1. PICK b \in Rng(kvm) : \E i \in 1..Len(Chain(kvm, b)) : Chain(kvm, b)[i] = s
      BY <1>1, <2>1 DEF MapOwns, In
    <3>2. Chain(kvm, b) \in Seq(Slots) /\ kvm.buckets[b].cnt = Len(Chain(kvm, b))
      BY <1>1, ChainType DEF MapOwns, Counted
    <3>3. s \in ToSet(Chain(kvm, b)) /\ kvm.buckets[b].cnt # 0
      BY <3>1, <3>2 DEF ToSet
    <3>4. b \in DOMAIN kvm.buckets
      BY <1>1 DEF MapOwns, IsMap
    <3> QED
      BY <3>3, <3>4 DEF CleanedUp, Chain
  <2> QED
    BY <2>1
<1> QED
  BY <1>1, <1>2 DEF Reset, Freed, Slotting, MapOwns

\* A map without buckets is left.
LEMMA ResetInv ==
  ASSUME JInv, Reset
  PROVE  JInv'
<1>1. IsMap(NoMap) /\ (\A s : ~In(NoMap, s)) /\ (\A sl : PlacedAs(NoMap, sl)) /\ Counted(NoMap)
  BY NewMapEmpty DEF NoMap
<1>2. MapOwns(kvm', slot')
  BY <1>1, ResetFreesAll DEF MapOwns, Reset
<1>3. tmp' = NoMap
  BY InvOpen DEF Reset
<1> QED
  BY <1>2, <1>3, ModAssumption, OpenInv DEF Reset, Done

\* Calls that return without a change of the map.
LEMMA ReturnInv ==
  ASSUME JInv, pc # "rehashing", kvm' = kvm, tmp' = tmp, slot' = slot, uncounted' = uncounted,
         NEW ret \in Vals \cup {"OK", "FAILED"}, Done(ret)
  PROVE  JInv'
<1>1. MapOwns(kvm', slot') /\ tmp' = NoMap
  BY InvOpen
<1> QED
  BY <1>1, OpenInv DEF Done, JInv, JTypes

\* find returns a value.
LEMMA FindInv ==
  ASSUME JInv, NEW k \in Keys, Find(k)
  PROVE  JInv'
<1>1. MapOwns(kvm, slot) /\ kvm.n # 0
  BY InvOpen DEF Find, is_init
<1>2. slot[SlotOf(kvm, k)] \in Entries
  BY <1>1, Lookup, InEntries DEF Find, MapOwns
<1>3. slot[SlotOf(kvm, k)].val \in Vals
  BY <1>2 DEF Entries
<1> QED
  BY <1>3, ReturnInv DEF Find

\* What is left: the choices of upsert_auto_rehash, and the errors.
LEMMA AutoUpsertInv ==
  ASSUME JInv, NEW k \in Keys, NEW v \in Vals, AutoUpsert(k, v)
  PROVE  JInv'
<1>1. CASE (kvm.slot_cnt + 1) % SizeMod > kvm.n
  <2>1. (IF kvm.n # 0 THEN kvm.n * 2 ELSE 2) \in Nat
    BY DEF JInv, JTypes, IsMap
  <2>2. Entry(k, v) \in Entries
    BY DEF Entry, Entries
  <2>3. StartRehash(IF kvm.n # 0 THEN kvm.n * 2 ELSE 2, Entry(k, v)) /\ pc = "open"
    BY <1>1 DEF AutoUpsert
  <2> QED
    BY <2>1, <2>2, <2>3, StartRehashInv
<1>2. CASE ~((kvm.slot_cnt + 1) % SizeMod > kvm.n)
  BY <1>2, UpsertInv DEF AutoUpsert
<1> QED
  BY <1>1, <1>2

\* Every step keeps the invariant.
LEMMA NextInv == JInv /\ [Next]_vars => JInv'
<1> SUFFICES ASSUME JInv, [Next]_vars PROVE JInv'
  OBVIOUS
<1>1. ASSUME NEW k \in Keys, Find(k) \/ RefuseDuplicate(k) \/ RefuseMissing(k)
      PROVE  JInv'
  BY <1>1, FindInv, ReturnInv DEF RefuseDuplicate, RefuseMissing, Refuse
<1>2. ASSUME NEW k \in Keys, NEW v \in Vals, Insert(k, v)
      PROVE  JInv'
  BY <1>2, InsertInv
<1>3. ASSUME NEW n \in RehashSizes, Rehash(n)
      PROVE  JInv'
  BY <1>3, SizesAssumption, StartRehashInv DEF Rehash
<1>4. CASE RehashStep
  BY <1>4, RehashStepMoves
<1>5. CASE RehashEnd
  BY <1>5, RehashEndInv
<1>6. CASE RefuseUninit \/ NoSlotMemory \/ NoBucketMemory
  BY <1>6, ReturnInv DEF RefuseUninit, NoSlotMemory, NoBucketMemory, Refuse
<1>7. CASE AutoUpsertEnd
  <2>1. todo \in Entries
    BY <1>7 DEF JInv, JTypes, JPhase, AutoUpsertEnd
  <2> QED
    BY <1>7, <2>1, UpsertInv DEF AutoUpsertEnd, Entries
<1>8. CASE Reset
  BY <1>8, ResetInv
<1>9. ASSUME NEW k \in Keys, Replaces(k)
      PROVE  JInv'
  BY <1>9, RemoveInv, UpsertInv, AutoUpsertInv DEF Replaces, Upsert
<1>10. CASE UNCHANGED vars
  BY <1>10 DEF vars, JInv, JTypes, JPlaced, JApart, JOwned, JCounts, JPhase, Counted
<1> QED
  BY <1>1, <1>2, <1>3, <1>4, <1>5, <1>6, <1>7, <1>8, <1>9, <1>10 DEF Next, Keeps

-----------------------------------------------------------------------------
(* What follows *)

\* The invariant holds in every behaviour, for any keys, hashes and addresses.
THEOREM JInvariance == Spec => []JInv
<1> QED
  BY InitInv, NextInv, PTL DEF Spec

\* The types of the maps, of what the addresses hold and of what calls return; and the
\* temporary map has buckets just during a rehash.
THEOREM MapTyped == Spec => []TypeOK
<1>1. JInv => TypeOK
  <2> SUFFICES ASSUME JInv PROVE TypeOK
    OBVIOUS
  <2>1. ASSUME NEW m, IsMap(m)
        PROVE  MapOK(m)
    BY <2>1 DEF IsMap, MapOK, Rng
  <2>2. (is_init(tmp) <=> pc = "rehashing") /\ (pc = "upserting" => todo # NoCall)
    BY DEF JInv, JPhase, is_init, NoMap, NewMap, KVMap
  <2> QED
    BY <2>1, <2>2 DEF JInv, JTypes, TypeOK, Slotting
<1> QED
  BY <1>1, JInvariance, PTL

\* What PlacedAs says of chains and their lengths is PlacedIn, of sequences.
LEMMA PlacedAsIn ==
  ASSUME NEW m, IsMap(m), PlacedAs(m, slot)
  PROVE  PlacedIn(m)
<1>1. \A b \in DOMAIN m.buckets : b \in Rng(m) /\ DOMAIN Chain(m, b) = 1..Len(Chain(m, b))
  BY ChainType DEF IsMap
<1> QED
  BY <1>1 DEF PlacedAs, PlacedIn, Chain

\* _lookup_slot, which looks in the bucket of the hash, finds every slot there is, with any number of
\* buckets, and at any time of a rehash.
THEOREM PlacedSafe == Spec => []Placed
<1>1. JInv => Placed
  BY PlacedAsIn DEF JInv, JTypes, JPlaced, Placed
<1> QED
  BY <1>1, JInvariance, PTL

\* The slots in the chains are those that Linked names.
LEMMA LinkedIn ==
  ASSUME NEW m, IsMap(m), NEW t
  PROVE  t \in Linked(m) <=> In(m, t)
<1>1. \A b \in Rng(m) : ToSet(m.buckets[b].chain) = {Chain(m, b)[i] : i \in 1..Len(Chain(m, b))}
  BY ChainType DEF ToSet, Chain
<1>2. DOMAIN m.buckets = Rng(m)
  BY DEF IsMap
<1>3. t \in Linked(m) <=> \E b \in Rng(m) : t \in ToSet(m.buckets[b].chain)
  BY <1>2 DEF Linked
<1> QED
  BY <1>1, <1>3 DEF In

\* An address is allocated exactly while its slot is in one chain, of the map or of the temporary
\* map: nothing leaks, and _cleanup deletes no slot twice.
THEOREM SlotsOwnedSafe == Spec => []SlotsOwned
<1>1. JInv => SlotsOwned
  <2> SUFFICES ASSUME JInv PROVE SlotsOwned
    OBVIOUS
  <2>1. IsMap(kvm) /\ IsMap(tmp) /\ PlacedAs(kvm, slot) /\ PlacedAs(tmp, slot)
    BY DEF JInv, JTypes, JPlaced
  <2>2. \A t : /\ t \in Linked(kvm) => In(kvm, t) /\ t \in Slots /\ slot[t] # Free
               /\ t \in Linked(tmp) => In(tmp, t) /\ t \in Slots /\ slot[t] # Free
    BY <2>1, LinkedIn, InEntries
  <2>3. \A s \in Slots : slot[s] # Free => s \in Linked(kvm) \cup Linked(tmp)
    BY <2>1, LinkedIn DEF JInv, JOwned
  <2>4. Linked(kvm) \cap Linked(tmp) = {}
    BY <2>2 DEF JInv, JApart
  <2> QED
    BY <2>2, <2>3, <2>4 DEF SlotsOwned
<1> QED
  BY <1>1, JInvariance, PTL

\* The assertion of Bucket::unlink_slot holds, and no walk skips a bucket that has slots.
THEOREM BucketsCountSafe == Spec => []BucketsCount
<1>1. JInv => BucketsCount
  BY DEF JInv, JTypes, JCounts, Counted, IsMap, Chain, BucketsCount
<1> QED
  BY <1>1, JInvariance, PTL

-----------------------------------------------------------------------------
(* The size of a slot *)

\* No entry is empty, and lengths stay well below the range of uint32_t.
LensFit == \A k \in Keys, v \in Vals : KeyLen[k] + ValLen[v] > 0 /\ KeyLen[k] + ValLen[v] + 200 < U32Mod

\* A number below the modulus is itself.
LEMMA U32Small ==
  ASSUME NEW n \in Nat, n < U32Mod
  PROVE  U32(n) = n
  BY ModAssumption DEF U32

\* align_off rounds up to a multiple of 32.
LEMMA AlignUp ==
  ASSUME NEW n \in Nat, n + 31 < U32Mod
  PROVE  /\ align_off(n) \in Nat /\ n <= align_off(n) /\ align_off(n) <= n + 31
         /\ n > 0 => align_off(n) >= 32
<1>1. U32(n + 31) = n + 31
  BY U32Small
<1>2. n + ALIGN_SIZE - 1 = n + 31
  BY DEF ALIGN_SIZE
<1>3. align_off(n) = ((n + 31) \div 32) * 32
  BY <1>1, <1>2 DEF align_off, ALIGN_SIZE
<1> QED
  BY <1>3

\* The header and both payloads of a slot are in the block that _create_slot takes from the heap, if no
\* entry is empty: the header, with its padding, is longer than the block of an empty key and value.
THEOREM SlotsFitSafe ==
  ASSUME LensFit
  PROVE  Spec => []SlotsFit
<1>1. JInv => SlotsFit
  <2> SUFFICES ASSUME JInv, NEW s \in Slots, slot[s] # Free
               PROVE  LET klen == KeyLen[slot[s].key]
                          vlen == ValLen[slot[s].val]
                      IN  /\ SlotSize <= slot_length(klen, vlen)
                          /\ val_payload(klen) + vlen <= slot_length(klen, vlen)
    BY DEF SlotsFit
  <2> DEFINE klen == KeyLen[slot[s].key]
             vlen == ValLen[slot[s].val]
  <2>1. slot[s].key \in Keys /\ slot[s].val \in Vals
    BY DEF JInv, JTypes, Slotting, Entries
  <2>2. klen \in Nat /\ vlen \in Nat /\ klen + vlen > 0 /\ klen + vlen + 200 < U32Mod /\ U32Mod \in Nat
    BY <2>1, LenAssumption, ModAssumption DEF LensFit
  <2> HIDE DEF klen, vlen
  <2>3. U32(klen) = klen /\ U32(vlen) = vlen
    BY <2>2, U32Small
  <2> DEFINE ka == align_off(klen)
             va == align_off(vlen)
  <2>4. /\ ka \in Nat /\ klen <= ka /\ ka <= klen + 31 /\ (klen > 0 => ka >= 32)
        /\ va \in Nat /\ vlen <= va /\ va <= vlen + 31 /\ (vlen > 0 => va >= 32)
    BY <2>2, AlignUp
  <2> HIDE DEF ka, va
  <2>5. entry_length_required(klen, vlen) = 20 + ka + va
    <3>1. 20 + ka + va \in Nat /\ 20 + ka + va < U32Mod
      BY <2>2, <2>4
    <3> QED
      BY <2>3, <3>1, U32Small DEF entry_length_required, EhdrSize, ka, va
  <2>6. slot_length(klen, vlen) = 36 + ka + va
    <3>1. 36 + ka + va \in Nat /\ 36 + ka + va < U32Mod /\ (20 + ka + va) + 16 = 36 + ka + va
      BY <2>2, <2>4
    <3> QED
      BY <2>5, <3>1, U32Small DEF slot_length, LinkSize
  <2>7. val_payload(klen) = 36 + ka
    BY <2>3, <2>4 DEF val_payload, LinkSize, EhdrSize, ka
  <2>8. 40 <= 36 + ka + va /\ 36 + ka + vlen <= 36 + ka + va
    BY <2>2, <2>4
  <2> QED
    BY <2>6, <2>7, <2>8 DEF SlotSize, klen, vlen
<1> QED
  BY <1>1, JInvariance, PTL

-----------------------------------------------------------------------------
(* The count of slots *)

\* What div and % give.
LEMMA DivMod ==
  ASSUME NEW a \in Int, NEW n \in Nat, n # 0
  PROVE  a = n * (a \div n) + (a % n) /\ a \div n \in Int /\ a % n \in 0..(n - 1)
  OBVIOUS

\* The remainder is unique.
LEMMA ModUnique ==
  ASSUME NEW a \in Int, NEW k \in Int, NEW n \in Nat, n # 0, NEW r \in 0..(n - 1), a = n * k + r
  PROVE  a % n = r
  OBVIOUS

\* Wrapping around early makes no difference.
LEMMA ModAdd ==
  ASSUME NEW a \in Int, NEW b \in Int, NEW n \in Nat, n # 0
  PROVE  ((a % n) + b) % n = (a + b) % n
<1> DEFINE r == a % n
           q == a \div n
           c == r + b
           s == c % n
           p == c \div n
<1>1. a = n * q + r /\ q \in Int /\ r \in 0..(n - 1)
  BY DivMod
<1>2. c \in Int
  BY <1>1
<1>3. c = n * p + s /\ p \in Int /\ s \in 0..(n - 1)
  BY <1>2, DivMod
<1> HIDE DEF r, q, s, p
<1>4. a + b = n * (q + p) + s
  <2>1. a + b = n * q + c
    BY <1>1
  <2>2. n * (q + p) = n * q + n * p
    BY <1>1, <1>3
  <2>3. n * q \in Int /\ n * p \in Int
    BY <1>1, <1>3
  <2> HIDE DEF c
  <2> QED
    BY <2>1, <2>2, <2>3, <1>2, <1>3
<1>5. (a + b) % n = s
  <2>1. a + b \in Int /\ q + p \in Int
    BY <1>1, <1>3
  <2> QED
    BY <1>3, <1>4, <2>1, ModUnique
<1> QED
  BY <1>5 DEF s, c, r

\* When the number of slots changes by d, it makes no difference which of the two counts does.
LEMMA DriftAdd ==
  ASSUME NEW c \in Int, NEW u \in Int, NEW d \in Int
  PROVE  /\ (((c + d) % SizeMod) + u) % SizeMod = (((c + u) % SizeMod) + d) % SizeMod
         /\ (c + ((u + d) % SizeMod)) % SizeMod = (((c + u) % SizeMod) + d) % SizeMod
<1>1. SizeMod \in Nat /\ SizeMod # 0
  BY ModAssumption
<1>2. c + d \in Int /\ u + d \in Int /\ c + u \in Int /\ (u + d) % SizeMod \in Int
  BY CountRange
<1>3. (((c + d) % SizeMod) + u) % SizeMod = ((c + d) + u) % SizeMod
  BY <1>1, <1>2, ModAdd, Zenon
<1>4. (((u + d) % SizeMod) + c) % SizeMod = ((u + d) + c) % SizeMod
  BY <1>1, <1>2, ModAdd, Zenon
<1>5. (((c + u) % SizeMod) + d) % SizeMod = ((c + u) + d) % SizeMod
  BY <1>1, <1>2, ModAdd, Zenon
<1>6. (c + d) + u = (c + u) + d /\ (u + d) + c = (c + u) + d
  OBVIOUS
<1>7. c + ((u + d) % SizeMod) = ((u + d) % SizeMod) + c
  <2> DEFINE w == (u + d) % SizeMod
  <2>1. w \in Int
    BY <1>2
  <2> HIDE DEF w
  <2>2. c + w = w + c
    BY <2>1
  <2> QED
    BY <2>2, Zenon DEF w
<1> QED
  BY <1>3, <1>4, <1>5, <1>6, <1>7, Zenon

\* The same of the numbers of slots.
LEMMA CountAdd ==
  ASSUME NEW n \in Int, NEW d \in Int
  PROVE  ((n % SizeMod) + d) % SizeMod = (n + d) % SizeMod
<1>1. SizeMod \in Nat /\ SizeMod # 0
  BY ModAssumption
<1> QED
  BY <1>1, ModAdd, Zenon

\* The slots of a map after a push, and after one is left out.
LEMMA LinkedMore ==
  ASSUME NEW m, IsMap(m), NEW m2, IsMap(m2), IsFiniteSet(Linked(m)), NEW s, ~In(m, s),
         \A t : In(m2, t) <=> In(m, t) \/ t = s
  PROVE  IsFiniteSet(Linked(m2)) /\ Cardinality(Linked(m2)) = Cardinality(Linked(m)) + 1
<1>1. Linked(m2) = Linked(m) \cup {s} /\ s \notin Linked(m)
  BY LinkedIn
<1> QED
  BY <1>1, FS_AddElement

\* The other way round.
LEMMA LinkedLess ==
  ASSUME NEW m, IsMap(m), NEW m2, IsMap(m2), IsFiniteSet(Linked(m)), NEW s, In(m, s),
         \A t : In(m2, t) <=> In(m, t) /\ t # s
  PROVE  IsFiniteSet(Linked(m2)) /\ Cardinality(Linked(m2)) = Cardinality(Linked(m)) - 1
<1>1. Linked(m2) = Linked(m) \ {s} /\ s \in Linked(m)
  BY LinkedIn
<1> QED
  BY <1>1, FS_RemoveElement

\* A new map links none.
LEMMA LinkedNone ==
  ASSUME NEW n \in Nat
  PROVE  Linked(NewMap(n)) = {} /\ NewMap(n).slot_cnt = 0
<1>1. Linked(NewMap(n)) = {}
  BY NewMapEmpty, LinkedIn
<1> QED
  BY <1>1 DEF NewMap, KVMap

\* CountDrift of one map: c and u make the number of its slots.
Drift(m, u) ==
  /\ IsFiniteSet(Linked(m))
  /\ (m.slot_cnt + u) % SizeMod = Cardinality(Linked(m)) % SizeMod

CInv ==
  /\ IF pc = "rehashing" THEN IsFiniteSet(Linked(kvm)) ELSE Drift(kvm, uncounted)
  /\ IsFiniteSet(Linked(tmp)) /\ tmp.slot_cnt = Cardinality(Linked(tmp)) % SizeMod

\* A map without slots counts none.
LEMMA NoneDrift ==
  ASSUME NEW n \in Nat
  PROVE  Drift(NewMap(n), 0) /\ IsFiniteSet(Linked(NewMap(n)))
         /\ NewMap(n).slot_cnt = Cardinality(Linked(NewMap(n))) % SizeMod
<1>1. 0 % SizeMod = 0
  BY ModAssumption, ModUnique
<1> QED
  BY <1>1, LinkedNone, FS_EmptySet DEF Drift

\* insert counts its slot.
LEMMA InsertCounts ==
  ASSUME JInv, CInv, NEW k \in Keys, NEW v \in Vals, Insert(k, v)
  PROVE  CInv'
<1>1. MapOwns(kvm, slot) /\ kvm.n # 0 /\ Drift(kvm, uncounted)
  BY InvOpen DEF Insert, CInv, is_init
<1>2. PICK s \in Slots : slot[s] = Free /\ slot' = [slot EXCEPT ![s] = Entry(k, v)] /\ kvm' = Link(kvm, k, s)
  BY DEF Insert
<1>3. \A t : In(kvm, t) => slot[t].key # k
  BY <1>1, LookupMisses DEF Insert, MapOwns
<1>4. kvm.slot_cnt \in Int /\ kvm.slot_cnt + 1 \in Int /\ uncounted \in Int
  BY DEF JInv, JTypes, IsMap
<1>5. (kvm.slot_cnt + 1) % SizeMod \in 0..(SizeMod - 1)
  BY <1>4, CountRange
<1>6. IsMap(kvm') /\ \A t : In(kvm', t) <=> In(kvm, t) \/ t = s
  <2>1. MapOwns(kvm', slot') /\ \A t : In(kvm', t) <=> In(kvm, t) \/ t = s
    <3> DEFINE n == (kvm.slot_cnt + 1) % SizeMod
    <3>1. kvm' = With(kvm, k, s, n)
      BY <1>2 DEF Link, With
    <3>2. n \in 0..(SizeMod - 1)
      BY <1>5
    <3> HIDE DEF n
    <3>3. /\ MapOwns(With(kvm, k, s, n), [slot EXCEPT ![s] = Entry(k, v)])
          /\ \A t : In(With(kvm, k, s, n), t) <=> In(kvm, t) \/ t = s
      BY <1>1, <1>2, <1>3, <3>2, PushOwns, ZenonT(60)
    <3> QED
      BY <1>2, <3>1, <3>3
  <2> QED
    BY <2>1 DEF MapOwns
<1>7. ~In(kvm, s)
  BY <1>1, <1>2, InEntries DEF MapOwns
<1>8. IsFiniteSet(Linked(kvm')) /\ Cardinality(Linked(kvm')) = Cardinality(Linked(kvm)) + 1
  BY <1>1, <1>6, <1>7, LinkedMore DEF Drift, MapOwns
<1>9. kvm'.slot_cnt = (kvm.slot_cnt + 1) % SizeMod /\ uncounted' = uncounted /\ tmp' = tmp /\ pc' = "open"
  BY <1>2 DEF Link, WithBucket, KVMap, Insert, Done
<1>10. Cardinality(Linked(kvm)) \in Nat
  BY <1>1, FS_CardinalityType DEF Drift
<1>11. (kvm'.slot_cnt + uncounted') % SizeMod = Cardinality(Linked(kvm')) % SizeMod
  <2> DEFINE n == Cardinality(Linked(kvm))
             c == kvm.slot_cnt
  <2>1. n \in Int /\ c \in Int /\ uncounted \in Int /\ 1 \in Int /\ (c + uncounted) % SizeMod = n % SizeMod
    BY <1>1, <1>4, <1>10 DEF Drift
  <2> HIDE DEF n, c
  <2>2. (((c + 1) % SizeMod) + uncounted) % SizeMod = (((c + uncounted) % SizeMod) + 1) % SizeMod
    BY <2>1, DriftAdd, Zenon
  <2>3. ((n % SizeMod) + 1) % SizeMod = (n + 1) % SizeMod
    BY <2>1, CountAdd, Zenon
  <2>4. (((c + 1) % SizeMod) + uncounted) % SizeMod = (n + 1) % SizeMod
    BY <2>1, <2>2, <2>3, Zenon
  <2> QED
    BY <1>8, <1>9, <2>4, Zenon DEF n, c
<1> QED
  BY <1>8, <1>9, <1>11 DEF CInv, Drift

\* remove counts its slot down.
LEMMA RemoveCounts ==
  ASSUME JInv, CInv, NEW k \in Keys, RemoveKey(k)
  PROVE  CInv'
<1>1. MapOwns(kvm, slot) /\ kvm.n # 0 /\ Has(kvm, k) /\ Drift(kvm, uncounted)
  BY InvOpen DEF RemoveKey, CInv, is_init
<1> DEFINE n == (kvm.slot_cnt - 1) % SizeMod
<1>2. kvm' = Without(kvm, k, n)
  BY DEF RemoveKey, Unlink, Without
<1>3. kvm.slot_cnt \in Int /\ kvm.slot_cnt - 1 \in Int /\ kvm.slot_cnt - 1 = kvm.slot_cnt + (-1) /\ uncounted \in Int
  BY DEF JInv, JTypes, IsMap
<1>4. n \in 0..(SizeMod - 1)
  BY <1>3, CountRange
<1>5. kvm'.slot_cnt = n /\ n = (kvm.slot_cnt + (-1)) % SizeMod
  BY <1>2, <1>3 DEF Without, WithBucket, KVMap
<1> HIDE DEF n
<1>6. IsMap(kvm') /\ \A t : In(kvm', t) <=> In(kvm, t) /\ t # SlotOf(kvm, k)
  BY <1>1, <1>2, <1>4, RemoveOwns DEF MapOwns
<1>7. In(kvm, SlotOf(kvm, k))
  BY <1>1, Lookup DEF MapOwns
<1>8. IsFiniteSet(Linked(kvm')) /\ Cardinality(Linked(kvm')) = Cardinality(Linked(kvm)) - 1
  BY <1>1, <1>6, <1>7, LinkedLess DEF Drift, MapOwns
<1>9. uncounted' = uncounted /\ tmp' = tmp /\ pc' = "open"
  BY DEF RemoveKey, Done
<1>10. Cardinality(Linked(kvm)) \in Nat
  BY <1>1, FS_CardinalityType DEF Drift
<1>11. (kvm'.slot_cnt + uncounted') % SizeMod = (Cardinality(Linked(kvm)) + (-1)) % SizeMod
  <2> DEFINE m == Cardinality(Linked(kvm))
             c == kvm.slot_cnt
  <2>1. m \in Int /\ c \in Int /\ uncounted \in Int /\ -1 \in Int /\ (c + uncounted) % SizeMod = m % SizeMod
    BY <1>1, <1>3, <1>10 DEF Drift
  <2> HIDE DEF m, c
  <2>2. (((c + (-1)) % SizeMod) + uncounted) % SizeMod = (((c + uncounted) % SizeMod) + (-1)) % SizeMod
    BY <2>1, DriftAdd, Zenon
  <2>3. ((m % SizeMod) + (-1)) % SizeMod = (m + (-1)) % SizeMod
    BY <2>1, CountAdd, Zenon
  <2>4. (((c + (-1)) % SizeMod) + uncounted) % SizeMod = (m + (-1)) % SizeMod
    BY <2>1, <2>2, <2>3, Zenon
  <2> QED
    BY <1>5, <1>9, <2>4, Zenon DEF m, c
<1> QED
  BY <1>8, <1>9, <1>10, <1>11 DEF CInv, Drift

\* upsert counts no slot, and replaces one by one or leaves one more.
LEMMA UpsertCounts ==
  ASSUME JInv, CInv, pc # "rehashing", NEW k \in Keys, NEW v \in Vals, UpsertBody(k, v)
  PROVE  CInv'
<1> DEFINE b   == BucketOf(kvm, k)
           old == kvm.buckets[b]
<1>1. MapOwns(kvm, slot) /\ kvm.n # 0 /\ Drift(kvm, uncounted)
  BY InvOpen DEF UpsertBody, CInv, is_init
<1>2. IsMap(kvm')
  BY UpsertInv DEF JInv, JTypes
<1>3. tmp' = tmp /\ pc' = "open"
  BY DEF UpsertBody, Done
<1>4. PICK s \in Slots :
        /\ slot[s] = Free
        /\ IF Has(kvm, k)
           THEN /\ kvm' = WithBucket(kvm, b, push_slot(unlink_slot(old, Place(kvm, k)), s), kvm.slot_cnt)
                /\ uncounted' = uncounted
           ELSE /\ kvm' = WithBucket(kvm, b, push_slot(old, s), kvm.slot_cnt)
                /\ uncounted' = (uncounted + 1) % SizeMod
  BY DEF UpsertBody
<1>5. kvm'.slot_cnt = kvm.slot_cnt
  BY <1>4 DEF WithBucket, KVMap
<1>6. kvm.slot_cnt \in 0..(SizeMod - 1) /\ kvm.slot_cnt \in Int /\ uncounted \in Int /\ b \in Rng(kvm)
  BY <1>1, BucketInRange DEF JInv, JTypes, IsMap, MapOwns
<1>7. ~In(kvm, s)
  BY <1>1, <1>4, InEntries DEF MapOwns
<1>8. Cardinality(Linked(kvm)) \in Nat
  BY <1>1, FS_CardinalityType DEF Drift
<1>9. CASE ~Has(kvm, k)
  <2>1. \A t : In(kvm', t) <=> In(kvm, t) \/ t = s
    BY <1>1, <1>4, <1>6, <1>9, PushOK DEF MapOwns
  <2>2. IsFiniteSet(Linked(kvm')) /\ Cardinality(Linked(kvm')) = Cardinality(Linked(kvm)) + 1
    BY <1>1, <1>2, <1>7, <2>1, LinkedMore DEF Drift, MapOwns
  <2>3. (kvm'.slot_cnt + uncounted') % SizeMod = Cardinality(Linked(kvm')) % SizeMod
    <3> DEFINE n == Cardinality(Linked(kvm))
               c == kvm.slot_cnt
    <3>1. n \in Int /\ c \in Int /\ uncounted \in Int /\ 1 \in Int /\ (c + uncounted) % SizeMod = n % SizeMod
      BY <1>1, <1>6, <1>8 DEF Drift
    <3> HIDE DEF n, c
    <3>2. (c + ((uncounted + 1) % SizeMod)) % SizeMod = (((c + uncounted) % SizeMod) + 1) % SizeMod
      BY <3>1, DriftAdd, Zenon
    <3>3. ((n % SizeMod) + 1) % SizeMod = (n + 1) % SizeMod
      BY <3>1, CountAdd, Zenon
    <3>4. (c + ((uncounted + 1) % SizeMod)) % SizeMod = (n + 1) % SizeMod
      BY <3>1, <3>2, <3>3, Zenon
    <3>5. uncounted' = (uncounted + 1) % SizeMod
      BY <1>4, <1>9
    <3> QED
      BY <1>5, <2>2, <3>4, <3>5, Zenon DEF n, c
  <2> QED
    BY <1>3, <2>2, <2>3 DEF CInv, Drift
<1>10. CASE Has(kvm, k)
  <2> DEFINE m1 == Without(kvm, k, kvm.slot_cnt)
  <2>1. /\ IsMap(m1) /\ m1.n = kvm.n
        /\ \A t : In(m1, t) <=> In(kvm, t) /\ t # SlotOf(kvm, k)
    BY <1>1, <1>6, <1>10, RemoveOwns DEF MapOwns
  <2>2. In(kvm, SlotOf(kvm, k))
    BY <1>1, <1>10, Lookup DEF MapOwns
  <2>3. kvm' = WithBucket(m1, b, push_slot(m1.buckets[b], s), kvm.slot_cnt)
    BY <1>1, <1>4, <1>10, ReplaceIsPush DEF MapOwns
  <2> HIDE DEF m1
  <2>4. \A t : In(kvm', t) <=> In(m1, t) \/ t = s
    <3>1. b \in Rng(m1)
      BY <1>6, <2>1 DEF Rng
    <3> QED
      BY <1>6, <2>1, <2>3, <3>1, PushOK
  <2>5. IsFiniteSet(Linked(m1)) /\ Cardinality(Linked(m1)) = Cardinality(Linked(kvm)) - 1
    BY <1>1, <2>1, <2>2, LinkedLess DEF Drift, MapOwns
  <2>6. IsFiniteSet(Linked(kvm')) /\ Cardinality(Linked(kvm')) = Cardinality(Linked(m1)) + 1
    BY <1>2, <1>7, <2>1, <2>4, <2>5, LinkedMore
  <2>7. Cardinality(Linked(kvm')) = Cardinality(Linked(kvm))
    BY <1>8, <2>5, <2>6
  <2> QED
    BY <1>1, <1>3, <1>4, <1>5, <1>10, <2>6, <2>7 DEF CInv, Drift
<1> QED
  BY <1>9, <1>10

\* Every step keeps the counts.
LEMMA NextCounts == JInv /\ CInv /\ [Next]_vars => CInv'
<1> SUFFICES ASSUME JInv, CInv, [Next]_vars PROVE CInv'
  OBVIOUS
<1>1. ASSUME kvm' = kvm, tmp' = tmp, uncounted' = uncounted, pc # "rehashing", pc' # "rehashing"
      PROVE  CInv'
  BY <1>1 DEF CInv, Drift
<1>2. ASSUME NEW n \in Nat, NEW call, StartRehash(n, call), pc # "rehashing"
      PROVE  CInv'
  <2>1. NewSize(n) \in Nat
    BY DEF NewSize, JInv, JTypes, IsMap
  <2> QED
    BY <1>2, <2>1, NoneDrift DEF StartRehash, CInv, Drift
<1>3. CASE RehashStep
  <2>1. PICK s \in Slots : /\ In(kvm, s) /\ ~In(tmp, s)
                           /\ \A t : In(kvm', t) <=> In(kvm, t) /\ t # s
                           /\ \A t : In(tmp', t) <=> In(tmp, t) \/ t = s
                           /\ tmp'.slot_cnt = (tmp.slot_cnt + 1) % SizeMod
    BY <1>3, RehashStepMoves
  <2>2. IsMap(kvm) /\ IsMap(tmp) /\ IsMap(kvm') /\ IsMap(tmp')
    BY <1>3, RehashStepMoves DEF JInv, JTypes
  <2>3. pc = "rehashing" /\ pc' = "rehashing"
    BY <1>3 DEF RehashStep
  <2>4. IsFiniteSet(Linked(kvm'))
    BY <2>1, <2>2, <2>3, LinkedLess DEF CInv
  <2>5. IsFiniteSet(Linked(tmp')) /\ Cardinality(Linked(tmp')) = Cardinality(Linked(tmp)) + 1
    BY <2>1, <2>2, LinkedMore DEF CInv
  <2>6. Cardinality(Linked(tmp)) \in Nat
    BY FS_CardinalityType DEF CInv
  <2>7. tmp'.slot_cnt = Cardinality(Linked(tmp')) % SizeMod
    <3>1. tmp.slot_cnt = Cardinality(Linked(tmp)) % SizeMod
      BY DEF CInv
    <3>2. ((Cardinality(Linked(tmp)) % SizeMod) + 1) % SizeMod = (Cardinality(Linked(tmp)) + 1) % SizeMod
      <4>1. Cardinality(Linked(tmp)) \in Int /\ 1 \in Int
        BY <2>6
      <4> QED
        BY <4>1, CountAdd, Zenon
    <3> QED
      BY <2>1, <2>5, <3>1, <3>2, Zenon
  <2> QED
    BY <2>3, <2>4, <2>5, <2>7 DEF CInv
<1>4. CASE RehashEnd
  <2>1. kvm' = tmp /\ tmp' = NewMap(0) /\ uncounted' = 0 /\ pc' # "rehashing"
    BY <1>4 DEF RehashEnd, NoMap
  <2>2. Cardinality(Linked(tmp)) \in Nat
    BY FS_CardinalityType DEF CInv
  <2>3. (tmp.slot_cnt + 0) % SizeMod = Cardinality(Linked(tmp)) % SizeMod
    <3>1. tmp.slot_cnt = Cardinality(Linked(tmp)) % SizeMod
      BY DEF CInv
    <3>2. Cardinality(Linked(tmp)) \in Int /\ 0 \in Int /\ Cardinality(Linked(tmp)) + 0 = Cardinality(Linked(tmp))
      BY <2>2
    <3>3. ((Cardinality(Linked(tmp)) % SizeMod) + 0) % SizeMod = (Cardinality(Linked(tmp)) + 0) % SizeMod
      BY <3>2, CountAdd, Zenon
    <3> QED
      BY <3>1, <3>2, <3>3, Zenon
  <2> QED
    BY <2>1, <2>3, NoneDrift DEF CInv, Drift
<1>5. CASE Reset
  <2>1. kvm' = NewMap(0) /\ tmp' = tmp /\ uncounted' = 0 /\ pc' = "open"
    BY <1>5 DEF Reset, Done, NoMap
  <2> QED
    BY <2>1, NoneDrift DEF CInv
<1>6. ASSUME NEW k \in Keys, NEW v \in Vals, AutoUpsert(k, v)
      PROVE  CInv'
  <2>1. (IF kvm.n # 0 THEN kvm.n * 2 ELSE 2) \in Nat
    BY DEF JInv, JTypes, IsMap
  <2> QED
    BY <1>2, <1>6, <2>1, UpsertCounts DEF AutoUpsert
<1>7. CASE AutoUpsertEnd
  <2>1. todo \in Entries
    BY <1>7 DEF JInv, JTypes, JPhase, AutoUpsertEnd
  <2> QED
    BY <1>7, <2>1, UpsertCounts DEF AutoUpsertEnd, Entries
<1>8. CASE Keeps
  <2>1. ASSUME NEW k \in Keys, NEW v \in Vals, Insert(k, v)
        PROVE  CInv'
    BY <2>1, InsertCounts
  <2>2. ASSUME NEW n \in RehashSizes, Rehash(n)
        PROVE  CInv'
    BY <1>2, <2>2, SizesAssumption DEF Rehash
  <2>3. ASSUME NEW k \in Keys, Find(k) \/ RefuseDuplicate(k) \/ RefuseMissing(k)
        PROVE  CInv'
    BY <1>1, <2>3 DEF Find, RefuseDuplicate, RefuseMissing, Refuse, Done
  <2>4. CASE RefuseUninit \/ NoSlotMemory \/ NoBucketMemory
    BY <1>1, <2>4 DEF RefuseUninit, NoSlotMemory, NoBucketMemory, Refuse, Done
  <2> QED
    BY <1>3, <1>4, <1>8, <2>1, <2>2, <2>3, <2>4 DEF Keeps
<1>9. ASSUME NEW k \in Keys, Replaces(k)
      PROVE  CInv'
  BY <1>6, <1>9, RemoveCounts, UpsertCounts DEF Replaces, Upsert
<1>10. CASE UNCHANGED vars
  BY <1>10 DEF vars, CInv, Drift
<1> QED
  BY <1>5, <1>7, <1>8, <1>9, <1>10 DEF Next

\* slot_count() is off by exactly the slots that upsert pushed without counting them since the last
\* rehash, modulo the range of size_t, through removals that make it wrap below zero too.
THEOREM CountDriftSafe == Spec => []CountDrift
<1>1. Init => CInv
  BY NoneDrift DEF Init, CInv, NoMap
<1>2. CInv => CountDrift
  BY DEF CInv, Drift, CountDrift
<1> QED
  BY <1>1, <1>2, NextCounts, JInvariance, PTL DEF Spec

-----------------------------------------------------------------------------
(* The finite map *)

\* The entries there are.
Ents == {slot[s] : s \in Slots} \ {Free}

KeyValue(k) ==
  /\ ValueOf(k) \in Vals \cup {NoVal}
  /\ \A v \in Vals : ValueOf(k) = v <=> Entry(k, v) \in Ents

\* A key has the value of the only entry with that key.
LEMMA ValueIs == JInv => \A k \in Keys : KeyValue(k)
<1> SUFFICES ASSUME JInv PROVE \A k \in Keys : KeyValue(k)
  OBVIOUS
<1>1. IsMap(kvm) /\ IsMap(tmp) /\ PlacedAs(kvm, slot) /\ PlacedAs(tmp, slot) /\ slot \in Slotting
  BY DEF JInv, JTypes, JPlaced
<1>2. \A t : t \in Linked(kvm) \cup Linked(tmp) <=> t \in Slots /\ slot[t] # Free
  BY <1>1, LinkedIn, InEntries DEF JInv, JOwned
<1>3. ASSUME NEW s \in Slots, NEW t \in Slots, slot[s] # Free, slot[t] # Free, slot[s].key = slot[t].key
      PROVE  s = t
  <2>1. (In(kvm, s) \/ In(tmp, s)) /\ (In(kvm, t) \/ In(tmp, t))
    BY <1>3 DEF JInv, JOwned
  <2>2. ~(In(kvm, s) /\ In(tmp, t)) /\ ~(In(kvm, t) /\ In(tmp, s))
    BY <1>3 DEF JInv, JApart
  <2> QED
    BY <1>1, <1>3, <2>1, <2>2, KeyUnique
<1> SUFFICES ASSUME NEW k \in Keys PROVE KeyValue(k)
  OBVIOUS
<1> DEFINE S == {s \in Linked(kvm) \cup Linked(tmp) : slot[s].key = k}
<1>4. \A t : t \in S <=> t \in Slots /\ slot[t] # Free /\ slot[t].key = k
  BY <1>2
<1>5. \A s \in Slots : slot[s] # Free => slot[s] = Entry(slot[s].key, slot[s].val) /\ slot[s].val \in Vals
  BY <1>1 DEF Slotting, Entries, Entry
<1>6. \A v : Entry(k, v).key = k /\ Entry(k, v).val = v
  BY DEF Entry
<1>7. ValueOf(k) = IF S = {} THEN NoVal ELSE slot[CHOOSE s \in S : TRUE].val
  BY DEF ValueOf
<1> HIDE DEF S
<1>8. CASE S = {}
  <2>1. \A v : Entry(k, v) \notin Ents
    BY <1>4, <1>6, <1>8 DEF Ents
  <2> QED
    BY <1>7, <1>8, <2>1, SentinelAssumption DEF KeyValue
<1>9. CASE S # {}
  <2>1. PICK s \in S : s = CHOOSE t \in S : TRUE
    BY <1>9
  <2>2. s \in Slots /\ slot[s] # Free /\ slot[s].key = k /\ ValueOf(k) = slot[s].val
    BY <1>4, <1>7, <1>9, <2>1
  <2>3. ASSUME NEW v \in Vals, Entry(k, v) \in Ents
        PROVE  slot[s].val = v
    <3>1. PICK t \in Slots : slot[t] = Entry(k, v) /\ slot[t] # Free
      BY <2>3 DEF Ents
    <3> QED
      BY <1>3, <1>6, <2>2, <3>1
  <2>4. Entry(k, slot[s].val) \in Ents /\ slot[s].val \in Vals
    BY <1>5, <2>2 DEF Ents
  <2> QED
    BY <2>2, <2>3, <2>4 DEF KeyValue
<1> QED
  BY <1>8, <1>9

\* The same of the next state.
LEMMA ValueIsNext == JInv' => \A k \in Keys : KeyValue(k)'
<1>1. (JInv => \A k \in Keys : KeyValue(k))'
  BY ValueIs, PTL
<1> QED
  BY <1>1

\* So the map is the same after a step that changes no entry of the key.
LEMMA ValueSame ==
  ASSUME JInv, JInv', NEW k \in Keys, \A v \in Vals : Entry(k, v) \in Ents' <=> Entry(k, v) \in Ents
  PROVE  ValueOf(k)' = ValueOf(k)
<1>1. /\ ValueOf(k) \in Vals \cup {NoVal}
      /\ \A v \in Vals : ValueOf(k) = v <=> Entry(k, v) \in Ents
  BY ValueIs DEF KeyValue
<1>2. /\ ValueOf(k)' \in Vals \cup {NoVal}
      /\ \A v \in Vals : ValueOf(k)' = v <=> Entry(k, v) \in Ents'
  BY ValueIsNext DEF KeyValue
<1> QED
  BY <1>1, <1>2

\* What callers see of the state.
TheMap == [k \in Keys |-> ValueOf(k)]
TheRet == IF rc = "FAILED" THEN m_errno ELSE rc

\* A step that touches only slots of one key changes the map at that key only.
LEMMA OneKeyChanges ==
  ASSUME JInv, JInv', NEW k \in Keys,
         \A s \in Slots : \/ slot'[s] = slot[s]
                          \/ slot[s] \in {Free} \cup [key : {k}, val : Vals]
                             /\ slot'[s] \in {Free} \cup [key : {k}, val : Vals]
  PROVE  TheMap' = [TheMap EXCEPT ![k] = ValueOf(k)']
<1>1. ASSUME NEW l \in Keys, l # k
      PROVE  ValueOf(l)' = ValueOf(l)
  <2>1. ASSUME NEW v \in Vals
        PROVE  Entry(l, v) \in Ents' <=> Entry(l, v) \in Ents
    <3>1. Entry(l, v) # Free /\ Entry(l, v) \notin {Free} \cup [key : {k}, val : Vals]
      BY <1>1, SentinelAssumption DEF Entry
    <3>2. \A s \in Slots : slot'[s] = Entry(l, v) <=> slot[s] = Entry(l, v)
      BY <3>1
    <3> QED
      BY <3>1, <3>2 DEF Ents
  <2> QED
    BY <2>1, ValueSame
<1> QED
  BY <1>1 DEF TheMap

\* A step that touches no slot changes nothing.
LEMMA NoKeyChanges ==
  ASSUME JInv, JInv', slot' = slot
  PROVE  TheMap' = TheMap
<1>1. \A k \in Keys : ValueOf(k)' = ValueOf(k)
  BY ValueSame DEF Ents
<1> QED
  BY <1>1 DEF TheMap

\* A lookup finds the key when the map has a value for it, and that value.
LEMMA HasValue ==
  ASSUME JInv, pc # "rehashing", kvm.n # 0, NEW k \in Keys
  PROVE  /\ Has(kvm, k) <=> TheMap[k] # NoVal
         /\ Has(kvm, k) => slot[SlotOf(kvm, k)].val = TheMap[k] /\ TheMap[k] \in Vals
<1>1. IsMap(kvm) /\ PlacedAs(kvm, slot) /\ slot \in Slotting /\ \A s \in Slots : slot[s] # Free => In(kvm, s)
  BY InvOpen DEF MapOwns
<1>2. TheMap[k] = ValueOf(k)
  BY DEF TheMap
<1>3. KeyValue(k)
  BY ValueIs
<1>4. CASE Has(kvm, k)
  <2>1. LET s == SlotOf(kvm, k) IN s \in Slots /\ slot[s] \in Entries /\ slot[s].key = k /\ slot[s] # Free
    BY <1>1, <1>4, Lookup, InEntries
  <2>2. slot[SlotOf(kvm, k)].val \in Vals /\ slot[SlotOf(kvm, k)] = Entry(k, slot[SlotOf(kvm, k)].val)
    BY <2>1 DEF Entries, Entry
  <2>3. Entry(k, slot[SlotOf(kvm, k)].val) \in Ents
    BY <2>1, <2>2 DEF Ents
  <2> QED
    BY <1>2, <1>3, <1>4, <2>2, <2>3, SentinelAssumption DEF KeyValue
<1>5. CASE ~Has(kvm, k)
  <2>1. \A t \in Slots : slot[t] # Free => slot[t].key # k
    BY <1>1, <1>5, LookupMisses
  <2>2. \A v : Entry(k, v) \notin Ents
    BY <2>1 DEF Ents, Entry
  <2> QED
    BY <1>2, <1>3, <1>5, <2>2 DEF KeyValue
<1> QED
  BY <1>4, <1>5

\* The value of a key of which there is an entry.
LEMMA EntryValue ==
  ASSUME JInv', NEW k \in Keys, NEW v \in Vals, NEW s \in Slots, slot'[s] = Entry(k, v)
  PROVE  ValueOf(k)' = v
<1>1. Entry(k, v) \in Ents'
  BY SentinelAssumption DEF Ents, Entry
<1> QED
  BY <1>1, ValueIsNext DEF KeyValue

\* An insertion gives the key its value.
LEMMA InsertImplements ==
  ASSUME JInv, NEW k \in Keys, NEW v \in Vals, Insert(k, v)
  PROVE  Map!Insert(k, v)
<1>1. JInv' /\ slot \in Slotting
  BY InsertInv DEF JInv, JTypes
<1>2. PICK s \in Slots : slot[s] = Free /\ slot' = [slot EXCEPT ![s] = Entry(k, v)]
  BY DEF Insert
<1>3. slot'[s] = Entry(k, v) /\ \A t \in Slots : t # s => slot'[t] = slot[t]
  BY <1>1, <1>2 DEF Slotting
<1>4. Entry(k, v) \in [key : {k}, val : Vals]
  BY DEF Entry
<1>5. TheMap' = [TheMap EXCEPT ![k] = v]
  BY <1>1, <1>2, <1>3, <1>4, OneKeyChanges, EntryValue
<1>6. TheMap[k] = NoVal
  BY HasValue DEF Insert, is_init
<1>7. TheRet' = "OK"
  BY DEF Insert, Done, TheRet
<1> QED
  BY <1>5, <1>6, <1>7 DEF Map!Insert, TheMap, TheRet

\* An upsert gives the key its value, whether it is new or replaced.
LEMMA UpsertImplements ==
  ASSUME JInv, pc # "rehashing", NEW k \in Keys, NEW v \in Vals, UpsertBody(k, v)
  PROVE  Map!Upsert(k, v)
<1>1. JInv' /\ MapOwns(kvm, slot) /\ slot \in Slotting /\ kvm.n # 0
  BY UpsertInv, InvOpen DEF JInv, JTypes, UpsertBody, is_init
<1>2. PICK s \in Slots :
        /\ slot[s] = Free
        /\ IF Has(kvm, k) THEN slot' = [slot EXCEPT ![s] = Entry(k, v), ![SlotOf(kvm, k)] = Free]
                          ELSE slot' = [slot EXCEPT ![s] = Entry(k, v)]
  BY DEF UpsertBody
<1>3. Entry(k, v) \in [key : {k}, val : Vals]
  BY DEF Entry
<1>4. /\ slot'[s] = Entry(k, v)
      /\ \A t \in Slots : \/ slot'[t] = slot[t]
                          \/ slot[t] \in {Free} \cup [key : {k}, val : Vals]
                             /\ slot'[t] \in {Free} \cup [key : {k}, val : Vals]
  <2>1. CASE ~Has(kvm, k)
    BY <1>1, <1>2, <1>3, <2>1 DEF Slotting
  <2>2. CASE Has(kvm, k)
    <3> DEFINE old == SlotOf(kvm, k)
    <3>1. old \in Slots /\ slot[old] \in Entries /\ slot[old].key = k /\ slot[old] # Free
      BY <1>1, <2>2, Lookup, InEntries DEF MapOwns
    <3>2. slot[old] \in [key : {k}, val : Vals]
      BY <3>1 DEF Entries
    <3> HIDE DEF old
    <3>3. slot' = [slot EXCEPT ![s] = Entry(k, v), ![old] = Free] /\ s # old
      BY <1>2, <2>2, <3>1 DEF old
    <3>4. slot'[s] = Entry(k, v) /\ slot'[old] = Free /\ \A t \in Slots : t \notin {s, old} => slot'[t] = slot[t]
      BY <1>1, <3>1, <3>3 DEF Slotting
    <3> QED
      BY <1>2, <1>3, <3>2, <3>4
  <2> QED
    BY <2>1, <2>2
<1>5. TheMap' = [TheMap EXCEPT ![k] = v]
  BY <1>1, <1>4, OneKeyChanges, EntryValue
<1>6. TheRet' = "OK"
  BY DEF UpsertBody, Done, TheRet
<1> QED
  BY <1>5, <1>6 DEF Map!Upsert, TheMap, TheRet

\* A removal takes the key from the map.
LEMMA RemoveImplements ==
  ASSUME JInv, NEW k \in Keys, RemoveKey(k)
  PROVE  Map!Remove(k)
<1>1. JInv' /\ MapOwns(kvm, slot) /\ slot \in Slotting /\ kvm.n # 0 /\ Has(kvm, k) /\ pc # "rehashing"
  BY RemoveInv, InvOpen DEF JInv, JTypes, RemoveKey, is_init
<1> DEFINE old == SlotOf(kvm, k)
<1>2. old \in Slots /\ In(kvm, old) /\ slot[old] \in Entries /\ slot[old].key = k /\ slot[old] # Free
  BY <1>1, Lookup, InEntries DEF MapOwns
<1>3. slot[old] \in [key : {k}, val : Vals]
  BY <1>2 DEF Entries
<1>4. slot' = [t \in Slots |-> IF t = old THEN Free ELSE slot[t]]
  BY DEF RemoveKey, Freed
<1> HIDE DEF old
<1>5. TheMap' = [TheMap EXCEPT ![k] = ValueOf(k)']
  BY <1>1, <1>2, <1>3, <1>4, OneKeyChanges
<1>6. \A t \in Slots : slot'[t] # Free => slot'[t].key # k
  <2>1. ASSUME NEW t \in Slots, slot'[t] # Free
        PROVE  slot'[t].key # k
    <3>1. t # old /\ slot'[t] = slot[t]
      BY <1>4, <2>1
    <3>2. In(kvm, t)
      BY <1>1, <2>1, <3>1 DEF MapOwns
    <3> QED
      BY <1>1, <1>2, <3>1, <3>2, KeyUnique DEF MapOwns
  <2> QED
    BY <2>1
<1>7. ValueOf(k)' = NoVal
  <2>1. \A v : Entry(k, v) \notin Ents'
    BY <1>6 DEF Ents, Entry
  <2> QED
    BY <1>1, <2>1, ValueIsNext DEF KeyValue
<1>8. TheMap[k] # NoVal /\ TheRet' = "OK"
  BY <1>1, HasValue DEF RemoveKey, Done, TheRet
<1> QED
  BY <1>5, <1>7, <1>8 DEF Map!Remove, TheMap, TheRet

\* find returns the value of the key.
LEMMA FindImplements ==
  ASSUME JInv, NEW k \in Keys, Find(k)
  PROVE  Map!Find(k)
<1>1. JInv' /\ kvm.n # 0 /\ Has(kvm, k) /\ pc # "rehashing"
  BY FindInv DEF Find, is_init
<1>2. slot[SlotOf(kvm, k)].val = TheMap[k] /\ TheMap[k] # NoVal /\ TheMap[k] \in Vals
  BY <1>1, HasValue
<1>3. TheRet' = TheMap[k]
  BY <1>2, SentinelAssumption DEF Find, Done, TheRet
<1>4. TheMap' = TheMap
  BY <1>1, NoKeyChanges DEF Find
<1> QED
  BY <1>2, <1>3, <1>4 DEF Map!Find, TheMap, TheRet

\* A call that fails says why and changes nothing.
LEMMA RefuseImplements ==
  ASSUME JInv, JInv', pc # "rehashing", NEW err, Refuse(err)
  PROVE  TheMap' = TheMap /\ TheRet' = err
<1>1. TheMap' = TheMap
  BY NoKeyChanges DEF Refuse
<1> QED
  BY <1>1 DEF Refuse, Done, TheRet

\* A rehash begins and goes on unseen.
LEMMA RehashStutters ==
  ASSUME JInv, JInv', slot' = slot, rc' = rc, m_errno' = m_errno
  PROVE  UNCHANGED Map!vars
<1>1. TheMap' = TheMap /\ TheRet' = TheRet
  BY NoKeyChanges DEF TheRet
<1> QED
  BY <1>1 DEF Map!vars, TheMap, TheRet

\* Every step is one of the finite map's, or unseen.
LEMMA StepImplements ==
  ASSUME JInv, [Next]_vars
  PROVE  [Map!Next]_(Map!vars)
<1>0. JInv'
  BY NextInv
<1>1. ASSUME NEW k \in Keys, Find(k)
      PROVE  Map!Next
  BY <1>1, FindImplements DEF Map!Next
<1>2. ASSUME NEW k \in Keys, RefuseDuplicate(k)
      PROVE  Map!Duplicate(k)
  <2>1. TheMap[k] # NoVal
    BY <1>2, HasValue DEF RefuseDuplicate, is_init
  <2> QED
    BY <1>0, <1>2, <2>1, RefuseImplements DEF RefuseDuplicate, Map!Duplicate, TheMap, TheRet
<1>3. ASSUME NEW k \in Keys, RefuseMissing(k)
      PROVE  Map!Missing(k)
  <2>1. TheMap[k] = NoVal
    BY <1>3, HasValue DEF RefuseMissing, is_init
  <2> QED
    BY <1>0, <1>3, <2>1, RefuseImplements DEF RefuseMissing, Map!Missing, TheMap, TheRet
<1>4. ASSUME NEW k \in Keys, NEW v \in Vals, Insert(k, v)
      PROVE  Map!Next
  BY <1>4, InsertImplements DEF Map!Next
<1>5. ASSUME NEW k \in Keys, NEW v \in Vals, UpsertBody(k, v), pc # "rehashing"
      PROVE  Map!Next
  BY <1>5, UpsertImplements DEF Map!Next
<1>6. ASSUME NEW n, NEW call, StartRehash(n, call)
      PROVE  UNCHANGED Map!vars
  BY <1>0, <1>6, RehashStutters DEF StartRehash
<1>7. CASE RehashStep
  BY <1>0, <1>7, RehashStutters DEF RehashStep
<1>8. CASE RehashEnd
  <2>1. TheMap' = TheMap
    BY <1>0, <1>8, RehashEndFreesNone, NoKeyChanges
  <2>2. TheRet' = "OK"
    BY <1>8 DEF RehashEnd, TheRet
  <2> QED
    BY <2>1, <2>2 DEF Map!Next, Map!Rehash, TheMap, TheRet
<1>9. CASE RefuseUninit
  <2>1. \A s \in Slots : slot[s] = Free
    BY <1>9, InvOpen DEF RefuseUninit, is_init, MapOwns, In, Rng
  <2>2. \A k \in Keys, v \in Vals : Entry(k, v) \notin Ents
    BY <2>1 DEF Ents
  <2>3. \A k \in Keys : ValueOf(k) = NoVal
    BY <2>2, ValueIs DEF KeyValue
  <2>4. TheMap' = TheMap /\ TheRet' = "ERR_UNINIT"
    BY <1>0, <1>9, RefuseImplements DEF RefuseUninit
  <2> QED
    BY <2>3, <2>4 DEF Map!Next, Map!Uninit, Map!Empty, TheMap, TheRet
<1>10. CASE NoSlotMemory \/ NoBucketMemory
  <2>1. TheMap' = TheMap /\ TheRet' \in {"ERR_CREATE_ENT", "ERR_OPNEWARR"}
    BY <1>0, <1>10, RefuseImplements DEF NoSlotMemory, NoBucketMemory
  <2> QED
    BY <2>1 DEF Map!Next, Map!NoMemory, TheMap, TheRet
<1>11. CASE AutoUpsertEnd
  <2>1. todo \in Entries
    BY <1>11 DEF JInv, JTypes, JPhase, AutoUpsertEnd
  <2> QED
    BY <1>5, <1>11, <2>1 DEF AutoUpsertEnd, Entries
<1>12. CASE Reset
  <2>1. \A k \in Keys, v \in Vals : Entry(k, v) \notin Ents'
    BY <1>12, ResetFreesAll DEF Ents
  <2>2. \A k \in Keys : ValueOf(k)' = NoVal
    BY <1>0, <2>1, ValueIsNext DEF KeyValue
  <2>3. TheRet' = "OK"
    BY <1>12 DEF Reset, Done, TheRet
  <2> QED
    BY <2>2, <2>3 DEF Map!Next, Map!Clear, Map!Empty, TheRet
<1>13. ASSUME NEW k \in Keys, RemoveKey(k)
       PROVE  Map!Next
  BY <1>13, RemoveImplements DEF Map!Next
<1>14. ASSUME NEW k \in Keys, NEW v \in Vals, AutoUpsert(k, v)
       PROVE  [Map!Next]_(Map!vars)
  BY <1>5, <1>6, <1>14 DEF AutoUpsert
<1>15. CASE UNCHANGED vars
  BY <1>0, <1>15, RehashStutters DEF vars
<1> QED
  <2>1. ASSUME NEW k \in Keys, Find(k) \/ RefuseDuplicate(k) \/ RefuseMissing(k)
        PROVE  Map!Next
    BY <1>1, <1>2, <1>3, <2>1 DEF Map!Next
  <2>2. ASSUME NEW n \in RehashSizes, Rehash(n)
        PROVE  UNCHANGED Map!vars
    BY <1>6, <2>2 DEF Rehash
  <2>3. ASSUME Keeps
        PROVE  [Map!Next]_(Map!vars)
    BY <1>4, <1>7, <1>8, <1>9, <1>10, <2>1, <2>2, <2>3 DEF Keeps
  <2>4. ASSUME NEW k \in Keys, Replaces(k)
        PROVE  [Map!Next]_(Map!vars)
    BY <1>5, <1>13, <1>14, <2>4 DEF Replaces, Upsert
  <2> QED
    BY <1>11, <1>12, <1>15, <2>3, <2>4 DEF Next

\* jwkvmap is a finite map: lookups miss no key, a rehash changes nothing that callers see, an upsert
\* replaces the value and nothing else, and a call that fails changes nothing and says why.
THEOREM MapImplemented == Spec => ImplementsMap
<1>1. Init => Map!Init
  <2> SUFFICES ASSUME Init PROVE Map!Init
    OBVIOUS
  <2>1. \A k \in Keys, v \in Vals : Entry(k, v) \notin Ents
    BY DEF Ents, Init
  <2>2. \A k \in Keys : ValueOf(k) = NoVal
    BY <2>1, InitInv, ValueIs DEF KeyValue
  <2> QED
    BY <2>2 DEF Map!Init, Map!Empty, Init
<1> QED
  BY <1>1, JInvariance, StepImplements, PTL DEF Spec, ImplementsMap, Map!Spec

-----------------------------------------------------------------------------
(* What callers hold *)

\* The header that find returned is that of a slot which is still there, and no upsert that waits for
\* a rehash has its key.
HeldInv == held # NoHeld => /\ held.at \in Slots /\ held.ent \in Entries
                            /\ slot[held.at] = held.ent
                            /\ todo # NoCall => todo.key # held.ent.key

\* Only the calls that may destroy the slot of a key touch it.
LEMMA KeepsHeld ==
  ASSUME JInv, Keeps, NEW s \in Slots, slot[s] # Free
  PROVE  slot'[s] = slot[s] /\ todo' \in {todo, NoCall}
<1>1. ASSUME NEW k \in Keys, NEW v \in Vals, Insert(k, v)
      PROVE  slot'[s] = slot[s] /\ todo' = NoCall
  BY <1>1 DEF Insert, Done, JInv, JTypes, Slotting
<1>2. CASE RehashEnd
  BY <1>2, RehashEndFreesNone DEF RehashEnd
<1> QED
  BY <1>1, <1>2 DEF Keeps, Find, RefuseDuplicate, RefuseMissing, RefuseUninit, Refuse, Done, Rehash, StartRehash,
                    RehashStep, NoSlotMemory, NoBucketMemory

\* An upsert touches the slot of no other key.
LEMMA UpsertHeld ==
  ASSUME JInv, pc # "rehashing", NEW k \in Keys, NEW v \in Vals, UpsertBody(k, v),
         NEW s \in Slots, slot[s] # Free, slot[s].key # k
  PROVE  slot'[s] = slot[s] /\ todo' = NoCall
<1>1. slot \in Slotting /\ MapOwns(kvm, slot) /\ kvm.n # 0
  BY InvOpen DEF JInv, JTypes, UpsertBody, is_init
<1>2. Has(kvm, k) => SlotOf(kvm, k) # s /\ SlotOf(kvm, k) \in Slots
  BY <1>1, Lookup, InEntries DEF MapOwns
<1> QED
  BY <1>1, <1>2 DEF UpsertBody, Done, Slotting

\* Nor do the other calls that may destroy the slot of a key.
LEMMA ReplacesHeld ==
  ASSUME JInv, NEW k \in Keys, Replaces(k), NEW s \in Slots, slot[s] # Free, slot[s].key # k
  PROVE  slot'[s] = slot[s] /\ (todo' # NoCall => todo'.key = k)
<1>1. CASE RemoveKey(k)
  <2>1. MapOwns(kvm, slot) /\ kvm.n # 0 /\ Has(kvm, k)
    BY <1>1, InvOpen DEF RemoveKey, is_init
  <2>2. SlotOf(kvm, k) # s
    BY <2>1, Lookup DEF MapOwns
  <2> QED
    BY <1>1, <2>2 DEF RemoveKey, Freed, Done
<1>2. ASSUME NEW v \in Vals, UpsertBody(k, v), pc # "rehashing"
      PROVE  slot'[s] = slot[s] /\ todo' = NoCall
  BY <1>2, UpsertHeld
<1>3. ASSUME NEW v \in Vals, NEW n, StartRehash(n, Entry(k, v))
      PROVE  slot'[s] = slot[s] /\ todo'.key = k
  BY <1>3 DEF StartRehash, Entry
<1> QED
  BY <1>1, <1>2, <1>3 DEF Replaces, Upsert, AutoUpsert

\* An iterator composes with the map: each step is one of the map's or leaves it alone.
LEMMA NextIsNext ==
  ASSUME NextI
  PROVE  Next \/ UNCHANGED vars
  BY DEF NextI, Next, CallKeeps, CallEnds, CallResets, Hold, Keeps, CallReplaces, LoopBegin, NextBucket,
         NextEntry, LoopEnd

\* Between a find and the next call that destroys the slot, no step moves or changes it.
LEMMA HeldStep == JInv /\ HeldInv /\ [NextI]_allvars => HeldInv'
<1> SUFFICES ASSUME JInv, HeldInv, [NextI]_allvars PROVE HeldInv'
  OBVIOUS
<1>1. ASSUME NEW k \in Keys, Hold(k)
      PROVE  HeldInv'
  <2>1. slot[SlotOf(kvm, k)] \in Entries /\ SlotOf(kvm, k) \in Slots /\ slot' = slot /\ todo' = NoCall
    BY <1>1, InvOpen, Lookup, InEntries DEF Hold, Find, Done, is_init, MapOwns
  <2>2. held' = [at |-> SlotOf(kvm, k), ent |-> slot[SlotOf(kvm, k)]]
    BY <1>1 DEF Hold
  <2> QED
    BY <2>1, <2>2 DEF HeldInv
<1>2. \A e \in Entries : e # Free
  BY SentinelAssumption DEF Entries
<1>3. CASE CallKeeps
  BY <1>2, <1>3, KeepsHeld DEF CallKeeps, HeldInv
<1>4. ASSUME NEW k \in Keys, CallReplaces(k)
      PROVE  HeldInv'
  BY <1>2, <1>4, ReplacesHeld DEF CallReplaces, HeldInv
<1>5. CASE CallEnds
  <2>1. /\ todo \in Entries /\ todo # NoCall /\ pc # "rehashing" /\ UpsertBody(todo.key, todo.val)
        /\ UNCHANGED held
    BY <1>5 DEF CallEnds, AutoUpsertEnd, iters, JInv, JTypes, JPhase
  <2>2. todo.key \in Keys /\ todo.val \in Vals
    BY <2>1 DEF Entries
  <2>3. ASSUME held # NoHeld
        PROVE  slot'[held.at] = slot[held.at] /\ todo' = NoCall
    BY <1>2, <2>1, <2>2, <2>3, UpsertHeld DEF HeldInv
  <2> QED
    BY <2>1, <2>3 DEF HeldInv
<1>6. CASE CallResets
  BY <1>6 DEF CallResets, HeldInv
<1>7. CASE LoopBegin \/ NextBucket \/ NextEntry \/ LoopEnd \/ UNCHANGED allvars
  BY <1>7 DEF LoopBegin, NextBucket, NextEntry, LoopEnd, allvars, iters, vars, HeldInv
<1> QED
  BY <1>1, <1>3, <1>4, <1>5, <1>6, <1>7 DEF NextI

\* Without the iterators a behaviour is one of the map.
LEMMA IterRefines == SpecI => Spec
<1>1. InitI => Init
  BY DEF InitI
<1>2. [NextI]_allvars => [Next]_vars
  BY NextIsNext DEF allvars
<1> QED
  BY <1>1, <1>2, PTL DEF SpecI, Spec

\* What find returned stays where it is, with its key and value, through insertions, through upserts
\* and removals of other keys in the same chain, and through every step of a rehash.
THEOREM HeldSafe == SpecI => []HeldStable
<1>1. InitI => HeldInv
  BY DEF InitI, HeldInv
<1>2. HeldInv => HeldStable
  BY DEF HeldInv, HeldStable
<1> QED
  BY <1>1, <1>2, IterRefines, JInvariance, HeldStep, PTL DEF SpecI

-----------------------------------------------------------------------------
(* The loop *)

\* s stands in the chain before t, or is t.
Before(c, s, t) == \E i, j \in 1..Len(c) : i <= j /\ c[i] = s /\ c[j] = t

\* A push keeps the order of the others, and comes before all.
LEMMA BeforePush ==
  ASSUME NEW c \in Seq(Slots), NEW s \in Slots, NEW x, NEW y, y # s
  PROVE  /\ x # s => (Before(push_head(c, s), x, y) <=> Before(c, x, y))
         /\ (\E j \in 1..Len(c) : c[j] = y) => Before(push_head(c, s), s, y)
<1> DEFINE d == push_head(c, s)
<1>0. Len(c) \in Nat
  OBVIOUS
<1>1. /\ Len(c) \in Nat /\ Len(d) = Len(c) + 1 /\ d[1] = s
      /\ \A i \in 1..Len(c) : d[i + 1] = c[i]
  BY <1>0, PushHead
<1> HIDE DEF d
<1>2. \A i \in 1..Len(d) : i # 1 => i - 1 \in 1..Len(c) /\ d[i] = c[i - 1]
  <2>1. SUFFICES ASSUME NEW i \in 1..Len(d), i # 1
                 PROVE  i - 1 \in 1..Len(c) /\ d[i] = c[i - 1]
    OBVIOUS
  <2>2. i - 1 \in 1..Len(c) /\ (i - 1) + 1 = i
    BY <1>1, <2>1
  <2> QED
    BY <1>1, <2>2
<1>3. ASSUME x # s, Before(d, x, y)
      PROVE  Before(c, x, y)
  <2>1. PICK i \in 1..Len(d), j \in 1..Len(d) : i <= j /\ d[i] = x /\ d[j] = y
    BY <1>3 DEF Before
  <2>2. i # 1 /\ j # 1
    BY <1>1, <1>3, <2>1
  <2>3. i - 1 \in 1..Len(c) /\ j - 1 \in 1..Len(c) /\ i - 1 <= j - 1 /\ c[i - 1] = x /\ c[j - 1] = y
    BY <1>2, <2>1, <2>2
  <2> QED
    BY <2>3 DEF Before
<1>4. ASSUME Before(c, x, y)
      PROVE  Before(d, x, y)
  <2>1. PICK i \in 1..Len(c), j \in 1..Len(c) : i <= j /\ c[i] = x /\ c[j] = y
    BY <1>4 DEF Before
  <2>2. i + 1 \in 1..Len(d) /\ j + 1 \in 1..Len(d) /\ i + 1 <= j + 1 /\ d[i + 1] = x /\ d[j + 1] = y
    BY <1>1, <2>1
  <2> QED
    BY <2>2 DEF Before
<1>5. ASSUME NEW j \in 1..Len(c), c[j] = y
      PROVE  Before(d, s, y)
  <2>1. 1 \in 1..Len(d) /\ j + 1 \in 1..Len(d) /\ 1 <= j + 1 /\ d[1] = s /\ d[j + 1] = y
    BY <1>1, <1>5
  <2> QED
    BY <2>1 DEF Before
<1> QED
  BY <1>3, <1>4, <1>5 DEF d

\* Leaving out one slot keeps the order of the others.
LEMMA BeforeLeft ==
  ASSUME NEW c \in Seq(Slots), NEW i \in 1..Len(c), NEW d, LeavesOut(d, c, i),
         NEW x, NEW y, x # c[i], y # c[i]
  PROVE  Before(d, x, y) <=> Before(c, x, y)
<1>1. /\ \A j \in 1..Len(d) : \E l \in 1..Len(c) : l # i /\ d[j] = c[l] /\ l = (IF j < i THEN j ELSE j + 1)
      /\ \A l \in 1..Len(c) : l # i => \E j \in 1..Len(d) : d[j] = c[l] /\ j = (IF l < i THEN l ELSE l - 1)
  <2>1. i \in 1..Len(c) /\ LeavesOut(d, c, i) /\ c \in Seq(Slots)
    OBVIOUS
  <2> QED
    BY <2>1, LeftOut
<1>2. Len(c) \in Nat /\ Len(d) = Len(c) - 1
  BY DEF LeavesOut
<1>3. ASSUME Before(d, x, y)
      PROVE  Before(c, x, y)
  <2>1. PICK j \in 1..Len(d), k \in 1..Len(d) : j <= k /\ d[j] = x /\ d[k] = y
    BY <1>3 DEF Before
  <2>2. PICK l \in 1..Len(c) : d[j] = c[l] /\ l = (IF j < i THEN j ELSE j + 1)
    BY <1>1
  <2>3. PICK o \in 1..Len(c) : d[k] = c[o] /\ o = (IF k < i THEN k ELSE k + 1)
    BY <1>1
  <2>4. l <= o
    BY <1>2, <2>1, <2>2, <2>3
  <2> QED
    BY <2>1, <2>2, <2>3, <2>4 DEF Before
<1>4. ASSUME Before(c, x, y)
      PROVE  Before(d, x, y)
  <2>1. PICK l \in 1..Len(c), o \in 1..Len(c) : l <= o /\ c[l] = x /\ c[o] = y
    BY <1>4 DEF Before
  <2>2. PICK j \in 1..Len(d) : d[j] = c[l] /\ j = (IF l < i THEN l ELSE l - 1)
    BY <1>1, <2>1
  <2>3. PICK k \in 1..Len(d) : d[k] = c[o] /\ k = (IF o < i THEN o ELSE o - 1)
    BY <1>1, <2>1
  <2>4. j <= k
    BY <1>2, <2>1, <2>2, <2>3
  <2> QED
    BY <2>1, <2>2, <2>3, <2>4 DEF Before
<1> QED
  BY <1>3, <1>4

\* The loop p has met the slot s of the map m, or gone by it.
Passed(m, sl, p, s) ==
  \/ BucketOf(m, sl[s].key) < p.b
  \/ BucketOf(m, sl[s].key) = p.b /\ (p.at = Over \/ Before(Chain(m, p.b), s, p.at))

\* Of the slots that it has passed, the loop has met all that are due, and of the others none.
LoopOK(m, sl, p) ==
  /\ p.b \in -1..(m.n - 1) /\ (p.b = -1 => p.at = Over)
  /\ p.at \in Slots \cup {Start, Over} /\ p.due \in SUBSET Keys /\ p.met \in SUBSET Keys
  /\ p.at \in Slots => \E i \in 1..Len(Chain(m, p.b)) : Chain(m, p.b)[i] = p.at
  /\ \A s : In(m, s) /\ Passed(m, sl, p, s) /\ sl[s].key \in p.due => sl[s].key \in p.met
  /\ \A s : In(m, s) /\ ~Passed(m, sl, p, s) => sl[s].key \notin p.met
  /\ \A k \in p.met : BucketOf(m, k) <= p.b
  /\ \A k \in p.due : \E s : In(m, s) /\ sl[s].key = k

\* In the body of a loop a key may go from the keys that are due.
LEMMA LoopLessDue ==
  ASSUME NEW m, NEW sl, NEW p, LoopOK(m, sl, p), NEW k, NEW q, q = Loop(p.b, p.at, p.due \ {k}, p.met)
  PROVE  LoopOK(m, sl, q)
<1>1. q.b = p.b /\ q.at = p.at /\ q.met = p.met /\ q.due = p.due \ {k}
  BY DEF Loop
<1>2. \A s : Passed(m, sl, q, s) <=> Passed(m, sl, p, s)
  BY <1>1 DEF Passed
<1> QED
  BY <1>1, <1>2 DEF LoopOK

\* In the body of a loop a slot with a new key may be pushed.
LEMMA LoopPush ==
  ASSUME NEW m, NEW sl, MapOwns(m, sl), m.n # 0, NEW k \in Keys, NEW v \in Vals,
         NEW s \in Slots, sl[s] = Free, \A t : In(m, t) => sl[t].key # k,
         NEW n \in 0..(SizeMod - 1), NEW p, LoopOK(m, sl, p), p.at \in Slots
  PROVE  LoopOK(With(m, k, s, n), [sl EXCEPT ![s] = Entry(k, v)], p)
<1> DEFINE b   == BucketOf(m, k)
           m2  == With(m, k, s, n)
           sl2 == [sl EXCEPT ![s] = Entry(k, v)]
           new == push_head(Chain(m, b), s)
           cnt == m.buckets[b].cnt + 1
<1>1. IsMap(m) /\ PlacedAs(m, sl) /\ sl \in Slotting /\ b \in Rng(m) /\ b \in Int
  BY BucketInRange DEF MapOwns, IsMap, Rng
<1>2. Chain(m, b) \in Seq(Slots) /\ cnt \in Int
  BY <1>1, ChainType
<1>3. new \in Seq(Slots)
  BY <1>2, PushHead
<1>4. m2 = WithBucket(m, b, Bucket(new, cnt), n)
  BY DEF With, push_slot, Chain
<1>5. \A t : In(m2, t) <=> In(m, t) \/ t = s
  BY PushOwns, ZenonT(60)
<1>6. Entry(k, v).key = k
  BY DEF Entry
<1>7. sl2[s] = Entry(k, v) /\ \A t \in Slots : t # s => sl2[t] = sl[t]
  BY <1>1 DEF Slotting
<1>8. ~In(m, s)
  BY <1>1, InEntries
<1>9. \A t : In(m, t) => t \in Slots /\ t # s /\ sl2[t] = sl[t]
  BY <1>1, <1>7, <1>8, InEntries
<1> HIDE DEF b, m2, sl2, new, cnt
<1>10. /\ m2.n = m.n /\ Chain(m2, b) = new
       /\ \A d \in Rng(m) \ {b} : Chain(m2, d) = Chain(m, d)
       /\ \A l : BucketOf(m2, l) = BucketOf(m, l)
  BY <1>1, <1>2, <1>3, <1>4, ChangedBucket
<1>11. p.b \in Rng(m) /\ p.at # Over
  BY <1>1, IterAssumption DEF LoopOK, IsMap, Rng
<1>12. PICK i \in 1..Len(Chain(m, p.b)) : Chain(m, p.b)[i] = p.at
  BY DEF LoopOK
<1>13. In(m, p.at) /\ p.at # s
  BY <1>8, <1>11, <1>12 DEF In
<1>14. ASSUME NEW t, In(m, t)
       PROVE  Passed(m2, sl2, p, t) <=> Passed(m, sl, p, t)
  <2>1. t # s /\ sl2[t] = sl[t]
    BY <1>9, <1>14
  <2>2. Before(Chain(m2, p.b), t, p.at) <=> Before(Chain(m, p.b), t, p.at)
    <3>1. CASE p.b = b
      BY <1>2, <1>10, <1>13, <2>1, <3>1, BeforePush DEF new
    <3>2. CASE p.b # b
      BY <1>10, <1>11, <3>2
    <3> QED
      BY <3>1, <3>2
  <2> QED
    BY <1>10, <2>1, <2>2 DEF Passed
<1>15. b <= p.b => Passed(m2, sl2, p, s)
  <2>1. CASE p.b = b
    <3>1. Before(Chain(m2, p.b), s, p.at)
      BY <1>2, <1>10, <1>12, <1>13, <2>1, BeforePush DEF new
    <3> QED
      BY <1>6, <1>7, <1>10, <2>1, <3>1 DEF Passed, b
  <2>2. CASE b < p.b
    BY <1>6, <1>7, <1>10, <2>2 DEF Passed, b
  <2> QED
    BY <1>1, <1>11, <2>1, <2>2 DEF Rng, IsMap
<1>16. k \notin p.due
  BY DEF LoopOK
<1>17. ~(b <= p.b) => k \notin p.met
  BY DEF LoopOK, b
<1>18. \E j \in 1..Len(Chain(m2, p.b)) : Chain(m2, p.b)[j] = p.at
  <2>1. CASE p.b = b
    <3>1. Before(new, s, p.at)
      BY <1>2, <1>12, <1>13, <2>1, BeforePush DEF new
    <3> QED
      BY <1>10, <2>1, <3>1 DEF Before
  <2>2. CASE p.b # b
    BY <1>10, <1>11, <1>12, <2>2
  <2> QED
    BY <2>1, <2>2
<1>19. \A t : In(m2, t) /\ Passed(m2, sl2, p, t) /\ sl2[t].key \in p.due => sl2[t].key \in p.met
  BY <1>5, <1>6, <1>7, <1>9, <1>14, <1>16 DEF LoopOK
<1>20. \A t : In(m2, t) /\ ~Passed(m2, sl2, p, t) => sl2[t].key \notin p.met
  BY <1>5, <1>6, <1>7, <1>9, <1>14, <1>15, <1>17 DEF LoopOK
<1>21. \A l \in p.due : \E t : In(m2, t) /\ sl2[t].key = l
  BY <1>5, <1>9 DEF LoopOK
<1> QED
  BY <1>10, <1>18, <1>19, <1>20, <1>21 DEF LoopOK, m2, sl2

\* In the body of a loop a slot may be removed, if the loop does not stand on it.
LEMMA LoopRemove ==
  ASSUME NEW m, MapOwns(m, slot), m.n # 0, NEW k \in Keys, Has(m, k),
         NEW n \in 0..(SizeMod - 1), NEW p, LoopOK(m, slot, p), p.at \in Slots, p.at # SlotOf(m, k), k \notin p.due
  PROVE  LoopOK(Without(m, k, n), SlotsWithout(m, k), p)
<1> DEFINE b   == BucketOf(m, k)
           i   == Place(m, k)
           old == SlotOf(m, k)
           m2  == Without(m, k, n)
           sl2 == SlotsWithout(m, k)
           d   == unlink(Chain(m, b), i)
           cnt == m.buckets[b].cnt - 1
<1>1. IsMap(m) /\ PlacedAs(m, slot) /\ slot \in Slotting
  BY DEF MapOwns
<1>2. b \in Rng(m) /\ i \in 1..Len(Chain(m, b)) /\ old = Chain(m, b)[i] /\ In(m, old) /\ slot[old].key = k
  BY <1>1, Lookup
<1>3. \A t : In(m2, t) <=> In(m, t) /\ t # old
  BY RemoveOwns
<1>4. m2 = WithBucket(m, b, Bucket(d, cnt), n)
  BY DEF unlink_slot, Chain, Without
<1>5. \A t \in Slots : t # old => sl2[t] = slot[t]
  BY <1>1 DEF Slotting, SlotsWithout
<1> HIDE DEF b, i, old, m2, sl2
<1>6. Chain(m, b) \in Seq(Slots) /\ cnt \in Int /\ LeavesOut(d, Chain(m, b), i)
  BY <1>1, <1>2, ChainType, UnlinkLeavesOut
<1> HIDE DEF d, cnt
<1>7. /\ m2.n = m.n /\ Chain(m2, b) = d
      /\ \A e \in Rng(m) \ {b} : Chain(m2, e) = Chain(m, e)
      /\ \A l : BucketOf(m2, l) = BucketOf(m, l)
  <2>1. d \in Seq(Slots)
    BY <1>6 DEF LeavesOut
  <2> QED
    BY <1>1, <1>2, <1>4, <1>6, <2>1, ChangedBucket
<1>8. \A t : In(m2, t) => t \in Slots /\ sl2[t] = slot[t] /\ In(m, t) /\ t # old
  BY <1>1, <1>3, <1>5, InEntries
<1>9. p.b \in Rng(m) /\ p.at # Over /\ p.at # old
  BY <1>1, IterAssumption DEF LoopOK, IsMap, Rng, old
<1>10. ASSUME NEW t, t # old
       PROVE  Before(Chain(m2, p.b), t, p.at) <=> Before(Chain(m, p.b), t, p.at)
  <2>1. CASE p.b = b
    BY <1>2, <1>6, <1>7, <1>9, <1>10, <2>1, BeforeLeft
  <2>2. CASE p.b # b
    BY <1>7, <1>9, <2>2
  <2> QED
    BY <2>1, <2>2
<1>11. ASSUME NEW t, In(m2, t)
       PROVE  Passed(m2, sl2, p, t) <=> Passed(m, slot, p, t)
  BY <1>7, <1>8, <1>10, <1>11 DEF Passed
<1>12. \E j \in 1..Len(Chain(m2, p.b)) : Chain(m2, p.b)[j] = p.at
  <2>1. PICK j \in 1..Len(Chain(m, p.b)) : Chain(m, p.b)[j] = p.at
    BY DEF LoopOK
  <2>2. Len(Chain(m, p.b)) \in Nat
    BY <1>1, <1>9, ChainType
  <2>3. Before(Chain(m, p.b), p.at, p.at)
    BY <2>1, <2>2 DEF Before
  <2>4. Before(Chain(m2, p.b), p.at, p.at)
    BY <1>9, <1>10, <2>3
  <2> QED
    BY <2>4 DEF Before
<1>13. \A t : In(m2, t) /\ Passed(m2, sl2, p, t) /\ sl2[t].key \in p.due => sl2[t].key \in p.met
  BY <1>8, <1>11 DEF LoopOK
<1>14. \A t : In(m2, t) /\ ~Passed(m2, sl2, p, t) => sl2[t].key \notin p.met
  BY <1>8, <1>11 DEF LoopOK
<1>15. \A l \in p.due : \E t : In(m2, t) /\ sl2[t].key = l
  BY <1>2, <1>3, <1>8 DEF LoopOK
<1> QED
  BY <1>7, <1>12, <1>13, <1>14, <1>15 DEF LoopOK, m2, sl2

\* A slot of the map is in the chain of its key's bucket.
LEMMA InBucket ==
  ASSUME NEW m, IsMap(m), NEW sl, PlacedAs(m, sl), NEW t, In(m, t)
  PROVE  /\ BucketOf(m, sl[t].key) \in Rng(m)
         /\ \E i \in 1..Len(Chain(m, BucketOf(m, sl[t].key))) : Chain(m, BucketOf(m, sl[t].key))[i] = t
<1>1. PICK b \in Rng(m) : \E i \in 1..Len(Chain(m, b)) : Chain(m, b)[i] = t
  BY DEF In
<1>2. BucketOf(m, sl[t].key) = b
  BY <1>1 DEF PlacedAs
<1> QED
  BY <1>1, <1>2

\* In a chain without repetitions the places tell the order.
LEMMA BeforeAt ==
  ASSUME NEW c \in Seq(Slots), \A i, j \in 1..Len(c) : c[i] = c[j] => i = j,
         NEW i \in 1..Len(c), NEW j \in 1..Len(c)
  PROVE  Before(c, c[i], c[j]) <=> i <= j
BY DEF Before

Loops == [b : Int, at : Slots \cup {Start, Over}, due : SUBSET Keys, met : SUBSET Keys]

\* A loop runs in a map that is at rest, and as LoopOK says.
LoopInv == it # NoLoop => pc = "open" /\ it \in Loops /\ LoopOK(kvm, slot, it)

LoopRight == /\ it # NoLoop /\ it' # NoLoop /\ InBody' /\ it'.at # it.at => slot[it'.at].key \notin it.met
             /\ LoopEnd => it.due \subseteq it.met

\* At its start a loop has passed no slot.
LEMMA LoopBeginInv ==
  ASSUME JInv, LoopBegin
  PROVE  LoopInv'
<1> DEFINE due == {slot[s].key : s \in Linked(kvm)}
           q   == Loop(-1, Over, due, {})
<1>1. /\ IsMap(kvm) /\ PlacedAs(kvm, slot) /\ pc' = "open" /\ it' = q
      /\ kvm' = kvm /\ slot' = slot
  BY DEF JInv, JTypes, JPlaced, LoopBegin, vars
<1>2. \A t : t \in Linked(kvm) <=> In(kvm, t)
  BY <1>1, LinkedIn
<1>3. due \in SUBSET Keys
  BY <1>1, <1>2, InEntries
<1>4. \A k \in due : \E t : In(kvm, t) /\ slot[t].key = k
  BY <1>2
<1> HIDE DEF due
<1>5. q \in Loops /\ q.b = -1 /\ q.at = Over /\ q.due = due /\ q.met = {}
  <2>1. q = Loop(-1, Over, due, {}) /\ -1 \in Int /\ {} \in SUBSET Keys /\ Over \in Slots \cup {Start, Over}
    OBVIOUS
  <2> HIDE DEF q
  <2> QED
    BY <1>3, <2>1, IterAssumption DEF Loop, Loops
<1> HIDE DEF q
<1>6. ASSUME NEW t, In(kvm, t)
      PROVE  ~Passed(kvm, slot, q, t)
  <2>1. BucketOf(kvm, slot[t].key) \in Rng(kvm)
    BY <1>1, <1>6, InBucket
  <2> QED
    BY <1>1, <1>5, <2>1 DEF Passed, Rng, IsMap
<1>7. -1 \in -1..(kvm.n - 1) /\ Over \notin Slots
  BY <1>1, IterAssumption DEF IsMap
<1>8. LoopOK(kvm, slot, q)
  BY <1>3, <1>4, <1>5, <1>6, <1>7 DEF LoopOK
<1> QED
  BY <1>1, <1>5, <1>8 DEF LoopInv

\* A bucket that is counted empty has no slot to pass.
LEMMA NextBucketInv ==
  ASSUME JInv, LoopInv, NextBucket
  PROVE  LoopInv' /\ ~InBody'
<1> DEFINE b  == it.b + 1
           at == IF kvm.buckets[b].cnt # 0 THEN Start ELSE Over
           q  == Loop(b, at, it.due, it.met)
<1>1. /\ IsMap(kvm) /\ PlacedAs(kvm, slot) /\ Counted(kvm)
      /\ it # NoLoop /\ it.at = Over /\ LoopOK(kvm, slot, it)
      /\ pc' = "open" /\ it' = q /\ kvm' = kvm /\ slot' = slot
  BY DEF JInv, JTypes, JPlaced, JCounts, LoopInv, NextBucket, vars
<1>2. it.b \in Int /\ it.b \in -1..(kvm.n - 1) /\ kvm.n \in Nat /\ b \in Rng(kvm) /\ b \in Int
  BY <1>1 DEF LoopOK, NextBucket, Rng, IsMap
<1>3. at \in {Start, Over} /\ it.due \in SUBSET Keys /\ it.met \in SUBSET Keys
  BY <1>1 DEF LoopOK
<1>4. at = Over => Len(Chain(kvm, b)) = 0
  BY <1>1, <1>2, IterAssumption DEF Counted
<1>5. Chain(kvm, b) \in Seq(Slots)
  BY <1>1, <1>2, ChainType
<1>6. b = it.b + 1
  OBVIOUS
<1> HIDE DEF b, at
<1>7. q \in Loops /\ q.b = b /\ q.at = at /\ q.due = it.due /\ q.met = it.met
  <2>1. q = Loop(b, at, it.due, it.met) /\ b \in Int /\ at \in Slots \cup {Start, Over}
    BY <1>2, <1>3
  <2> HIDE DEF q
  <2> QED
    BY <1>3, <2>1, IterAssumption DEF Loop, Loops
<1> HIDE DEF q
<1>8. ASSUME NEW t, In(kvm, t)
      PROVE  Passed(kvm, slot, q, t) <=> Passed(kvm, slot, it, t)
  <2> DEFINE e == BucketOf(kvm, slot[t].key)
  <2>1. e \in Rng(kvm) /\ \E i \in 1..Len(Chain(kvm, e)) : Chain(kvm, e)[i] = t
    BY <1>1, <1>8, InBucket
  <2>2. e \in Int
    BY <1>2, <2>1 DEF Rng
  <2>3. Passed(kvm, slot, it, t) <=> e < b
    BY <1>1, <1>2, <1>6, <2>2 DEF Passed
  <2>4. Passed(kvm, slot, q, t) <=> e < b \/ (e = b /\ (at = Over \/ Before(Chain(kvm, b), t, at)))
    BY <1>7 DEF Passed
  <2> HIDE DEF e
  <2>5. ~(e = b /\ at = Over)
    BY <1>4, <2>1
  <2>6. ~Before(Chain(kvm, b), t, Start)
    BY <1>5, IterAssumption DEF Before
  <2> QED
    BY <1>3, <2>3, <2>4, <2>5, <2>6
<1>9. q.b \in -1..(kvm.n - 1) /\ q.b # -1 /\ q.at \notin Slots
  BY <1>2, <1>3, <1>6, <1>7, IterAssumption DEF Rng
<1>10. \A k \in q.met : BucketOf(kvm, k) <= q.b
  <2> SUFFICES ASSUME NEW k \in q.met
               PROVE  BucketOf(kvm, k) <= q.b
    OBVIOUS
  <2>1. BucketOf(kvm, k) <= it.b
    BY <1>1, <1>7 DEF LoopOK
  <2>2. BucketOf(kvm, k) \in Int
    BY <1>2, <1>3, <1>7, BucketInRange DEF Rng
  <2> QED
    BY <1>2, <1>6, <1>7, <2>1, <2>2
<1>11. LoopOK(kvm, slot, q)
  BY <1>1, <1>3, <1>7, <1>8, <1>9, <1>10 DEF LoopOK
<1> QED
  BY <1>1, <1>7, <1>9, <1>11 DEF LoopInv, InBody

\* The next slot of the chain is the only one that is passed then and was not before.
LEMMA NextEntryInv ==
  ASSUME JInv, LoopInv, NextEntry
  PROVE  LoopInv' /\ (InBody' => slot[it'.at].key \notin it.met)
<1> DEFINE b     == it.b
           chain == kvm.buckets[b].chain
           next  == IF it.at = Start THEN 1 ELSE 1 + CHOOSE i \in DOMAIN chain : chain[i] = it.at
           s     == chain[next]
           key   == slot[s].key
<1>1. /\ IsMap(kvm) /\ PlacedAs(kvm, slot) /\ Counted(kvm)
      /\ it # NoLoop /\ it \in Loops /\ it.at # Over /\ LoopOK(kvm, slot, it)
      /\ pc' = "open" /\ kvm' = kvm /\ slot' = slot
      /\ it' = IF next \in DOMAIN chain THEN Loop(b, s, it.due, it.met \cup {key})
                                        ELSE Loop(b, Over, it.due, it.met)
  BY ZenonT(60) DEF JInv, JTypes, JPlaced, JCounts, LoopInv, NextEntry, vars
<1>2. b \in -1..(kvm.n - 1) /\ b # -1 /\ it.at \in Slots \cup {Start, Over} /\ kvm.n \in Nat
  BY <1>1 DEF LoopOK, IsMap
<1>3. b \in Rng(kvm) /\ b \in Int
  BY <1>2 DEF Rng
<1>4. /\ chain = Chain(kvm, b) /\ chain \in Seq(Slots) /\ Len(chain) \in Nat /\ DOMAIN chain = 1..Len(chain)
      /\ \A i, j \in 1..Len(chain) : chain[i] = chain[j] => i = j
  <2>1. chain = Chain(kvm, b)
    BY DEF Chain
  <2>2. chain \in Seq(Slots) /\ Len(chain) \in Nat
    BY <1>1, <1>3, <2>1, ChainType
  <2> HIDE DEF chain
  <2>3. \A i, j \in 1..Len(Chain(kvm, b)) : Chain(kvm, b)[i] = Chain(kvm, b)[j] => i = j
    BY <1>1, <1>3 DEF PlacedAs
  <2> QED
    BY <2>1, <2>2, <2>3
<1>5. it.at \in Slots => \E i \in 1..Len(chain) : chain[i] = it.at
  BY <1>1, <1>4 DEF LoopOK
<1> HIDE DEF b, chain
<1>6. /\ next \in 1..(Len(chain) + 1)
      /\ \A j \in 1..Len(chain) : Before(chain, chain[j], it.at) <=> j < next
  <2>1. CASE it.at = Start
    <3>1. \A j \in 1..Len(chain) : ~Before(chain, chain[j], it.at)
      BY <1>4, <2>1, IterAssumption DEF Before
    <3> QED
      BY <1>4, <2>1, <3>1
  <2>2. CASE it.at # Start
    <3>1. PICK i \in 1..Len(chain) : chain[i] = it.at
      BY <1>1, <1>2, <1>5, <2>2
    <3>2. (CHOOSE l \in DOMAIN chain : chain[l] = it.at) = i
      BY <1>4, <3>1
    <3>3. next = 1 + i
      BY <2>2, <3>2
    <3>4. \A j \in 1..Len(chain) : Before(chain, chain[j], chain[i]) <=> j <= i
      BY <1>4, BeforeAt
    <3> QED
      BY <1>4, <3>1, <3>3, <3>4
  <2> QED
    BY <2>1, <2>2
<1> HIDE DEF next
\* The slots of the chain by their places.
<1>7. ASSUME NEW t, In(kvm, t), BucketOf(kvm, slot[t].key) = b
      PROVE  \E j \in 1..Len(chain) : t = chain[j] /\ (Passed(kvm, slot, it, t) <=> j < next)
  <2>1. PICK j \in 1..Len(chain) : chain[j] = t
    BY <1>1, <1>4, <1>7, InBucket
  <2>2. Passed(kvm, slot, it, t) <=> Before(chain, t, it.at)
    BY <1>1, <1>3, <1>4, <1>7 DEF Passed, b
  <2> QED
    BY <1>6, <2>1, <2>2
<1>8. CASE next \in DOMAIN chain
  <2> DEFINE q == Loop(b, s, it.due, it.met \cup {key})
  <2>1. next \in 1..Len(chain) /\ s \in Slots
    BY <1>4, <1>8
  <2>2. In(kvm, s)
    BY <1>3, <1>4, <2>1 DEF In
  <2>3. key \in Keys /\ BucketOf(kvm, key) = b
    <3>1. slot[s].key \in Keys
      BY <1>1, <2>2, InEntries
    <3>2. BucketOf(kvm, slot[s].key) = b
      BY <1>1, <1>3, <1>4, <2>1 DEF PlacedAs
    <3> QED
      BY <3>1, <3>2
  <2>4. it' = q /\ s = chain[next] /\ key = slot[s].key
    BY <1>1, <1>8
  <2> HIDE DEF s, key
  <2>5. q \in Loops /\ q # NoLoop /\ q.b = b /\ q.at = s /\ q.due = it.due /\ q.met = it.met \cup {key}
    <3>1. q = Loop(b, s, it.due, it.met \cup {key})
      OBVIOUS
    <3>2. it.due \in SUBSET Keys /\ it.met \cup {key} \in SUBSET Keys /\ s \in Slots \cup {Start, Over} /\ b \in Int
      BY <1>1, <1>3, <2>1, <2>3 DEF Loops
    <3> HIDE DEF q
    <3> QED
      BY <3>1, <3>2, IterAssumption DEF Loop, Loops
  <2> HIDE DEF q
  <2>6. ~Passed(kvm, slot, it, s)
    <3>1. BucketOf(kvm, slot[s].key) = b
      BY <2>3, <2>4
    <3>2. PICK j \in 1..Len(chain) : s = chain[j] /\ (Passed(kvm, slot, it, s) <=> j < next)
      BY <1>7, <2>2, <3>1
    <3>3. j = next
      BY <1>4, <2>1, <2>4, <3>2
    <3> QED
      BY <1>6, <3>2, <3>3
  <2>7. ASSUME NEW t, In(kvm, t)
        PROVE  Passed(kvm, slot, q, t) <=> Passed(kvm, slot, it, t) \/ t = s
    <3>1. CASE BucketOf(kvm, slot[t].key) # b
      <4>1. t # s
        BY <2>3, <2>4, <3>1
      <4> QED
        BY <2>5, <3>1, <4>1 DEF Passed, b
    <3>2. CASE BucketOf(kvm, slot[t].key) = b
      <4>1. PICK j \in 1..Len(chain) : t = chain[j] /\ (Passed(kvm, slot, it, t) <=> j < next)
        BY <1>7, <2>7, <3>2
      <4>2. Before(chain, t, s) <=> j <= next
        BY <1>4, <2>1, <2>4, <4>1, BeforeAt
      <4>3. s # Over
        BY <2>1, IterAssumption
      <4>4. Passed(kvm, slot, q, t) <=> Before(chain, t, s)
        BY <1>3, <1>4, <2>5, <3>2, <4>3 DEF Passed
      <4>5. t = s <=> j = next
        BY <1>4, <2>1, <2>4, <4>1
      <4> QED
        BY <1>6, <4>1, <4>2, <4>4, <4>5
    <3> QED
      BY <3>1, <3>2
  <2>8. \A t : In(kvm, t) /\ slot[t].key = key => t = s
    BY <1>1, <2>2, <2>4, KeyUnique
  <2>9. \A t : In(kvm, t) /\ Passed(kvm, slot, q, t) /\ slot[t].key \in q.due => slot[t].key \in q.met
    BY <1>1, <2>4, <2>5, <2>7 DEF LoopOK
  <2>10. \A t : In(kvm, t) /\ ~Passed(kvm, slot, q, t) => slot[t].key \notin q.met
    BY <1>1, <2>5, <2>7, <2>8 DEF LoopOK
  <2>11. \A k \in q.met : BucketOf(kvm, k) <= q.b
    <3>1. \A k \in it.met : BucketOf(kvm, k) <= b
      BY <1>1 DEF LoopOK, b
    <3>2. BucketOf(kvm, key) <= b
      BY <1>3, <2>3
    <3> QED
      BY <2>5, <3>1, <3>2
  <2>12. \E i \in 1..Len(Chain(kvm, q.b)) : Chain(kvm, q.b)[i] = q.at
    BY <1>4, <2>1, <2>4, <2>5
  <2>13. \A k \in q.due : \E t : In(kvm, t) /\ slot[t].key = k
    BY <1>1, <2>5 DEF LoopOK
  <2>14. LoopOK(kvm, slot, q)
    BY <1>2, <2>5, <2>9, <2>10, <2>11, <2>12, <2>13 DEF LoopOK, Loops
  <2>15. key \notin it.met
    BY <1>1, <2>2, <2>4, <2>6 DEF LoopOK
  <2> QED
    BY <1>1, <2>4, <2>5, <2>14, <2>15 DEF LoopInv
<1>9. CASE next \notin DOMAIN chain
  <2> DEFINE q == Loop(b, Over, it.due, it.met)
  <2>1. next = Len(chain) + 1 /\ it' = q
    BY <1>1, <1>4, <1>6, <1>9
  <2>2. q \in Loops /\ q # NoLoop /\ q.b = b /\ q.at = Over /\ q.due = it.due /\ q.met = it.met
    <3>1. q = Loop(b, Over, it.due, it.met)
      OBVIOUS
    <3>2. it.due \in SUBSET Keys /\ it.met \in SUBSET Keys /\ Over \in Slots \cup {Start, Over} /\ b \in Int
      BY <1>1, <1>3 DEF Loops
    <3> HIDE DEF q
    <3> QED
      BY <3>1, <3>2, IterAssumption DEF Loop, Loops
  <2> HIDE DEF q
  <2>3. ASSUME NEW t, In(kvm, t)
        PROVE  Passed(kvm, slot, q, t) <=> Passed(kvm, slot, it, t)
    <3>1. CASE BucketOf(kvm, slot[t].key) # b
      BY <2>2, <3>1 DEF Passed, b
    <3>2. CASE BucketOf(kvm, slot[t].key) = b
      <4>1. PICK j \in 1..Len(chain) : t = chain[j] /\ (Passed(kvm, slot, it, t) <=> j < next)
        BY <1>7, <2>3, <3>2
      <4>2. j < next
        BY <1>4, <2>1
      <4> QED
        BY <2>2, <3>2, <4>1, <4>2 DEF Passed
    <3> QED
      BY <3>1, <3>2
  <2>4. \A k \in q.met : BucketOf(kvm, k) <= q.b
    BY <1>1, <2>2 DEF LoopOK, b
  <2>5. LoopOK(kvm, slot, q)
    BY <1>1, <1>2, <2>2, <2>3, <2>4, IterAssumption DEF LoopOK
  <2>6. ~InBody'
    BY <2>1, <2>2, IterAssumption DEF InBody
  <2> QED
    BY <1>1, <2>1, <2>2, <2>5, <2>6 DEF LoopInv
<1> QED
  BY <1>8, <1>9

\* A loop that ends has passed every slot.
LEMMA LoopEndMet ==
  ASSUME JInv, LoopInv, LoopEnd
  PROVE  it.due \subseteq it.met
<1>1. IsMap(kvm) /\ PlacedAs(kvm, slot) /\ it.at = Over /\ LoopOK(kvm, slot, it)
  BY DEF JInv, JTypes, JPlaced, LoopInv, LoopEnd
<1>2. it.b \in Int /\ kvm.n \in Nat /\ it.b = kvm.n - 1
  BY <1>1 DEF LoopOK, LoopEnd, IsMap
<1>3. ASSUME NEW t, In(kvm, t)
      PROVE  Passed(kvm, slot, it, t)
  <2>1. BucketOf(kvm, slot[t].key) \in Rng(kvm)
    BY <1>1, <1>3, InBucket
  <2>2. BucketOf(kvm, slot[t].key) < it.b \/ BucketOf(kvm, slot[t].key) = it.b
    BY <1>2, <2>1 DEF Rng
  <2> QED
    BY <1>1, <2>2 DEF Passed
<1> QED
  BY <1>1, <1>3 DEF LoopOK

\* A call that destroys no slot leaves the loop where it is, or ends it with a rehash.
LEMMA LoopKept ==
  ASSUME JInv, LoopInv, CallKeeps
  PROVE  LoopInv' /\ (it' # NoLoop => it' = it)
<1> SUFFICES ASSUME it' # NoLoop
             PROVE  it' = it /\ pc' = "open" /\ LoopOK(kvm', slot', it)
  BY DEF LoopInv, CallKeeps
<1>1. it' = it /\ pc' # "rehashing" /\ pc = "open" /\ it.at \in Slots /\ LoopOK(kvm, slot, it)
  BY DEF CallKeeps, LoopInv, MayCall, InBody
<1>2. ASSUME NEW k \in Keys, NEW v \in Vals, Insert(k, v)
      PROVE  pc' = "open" /\ LoopOK(kvm', slot', it)
  <2> DEFINE n == (kvm.slot_cnt + 1) % SizeMod
  <2>1. MapOwns(kvm, slot) /\ kvm.n # 0
    BY <1>2, InvOpen DEF Insert, is_init
  <2>2. PICK s \in Slots : slot[s] = Free /\ slot' = [slot EXCEPT ![s] = Entry(k, v)] /\ kvm' = Link(kvm, k, s)
    BY <1>2 DEF Insert
  <2>3. \A t : In(kvm, t) => slot[t].key # k
    BY <1>2, <2>1, LookupMisses DEF Insert, MapOwns
  <2>4. kvm' = With(kvm, k, s, n)
    BY <2>2 DEF Link, With
  <2>5. n \in 0..(SizeMod - 1)
    <3>1. kvm.slot_cnt + 1 \in Int
      BY <2>1 DEF MapOwns, IsMap
    <3> QED
      BY <3>1, CountRange
  <2> HIDE DEF n
  <2>6. LoopOK(With(kvm, k, s, n), [slot EXCEPT ![s] = Entry(k, v)], it)
    BY <1>1, <2>1, <2>2, <2>3, <2>5, LoopPush
  <2> QED
    BY <1>2, <2>2, <2>4, <2>6 DEF Insert, Done
<1>3. CASE \/ \E k \in Keys : Find(k) \/ RefuseDuplicate(k) \/ RefuseMissing(k)
           \/ RefuseUninit \/ NoSlotMemory \/ NoBucketMemory
  BY <1>1, <1>3 DEF Find, RefuseDuplicate, RefuseMissing, RefuseUninit, NoSlotMemory, NoBucketMemory, Refuse, Done
<1>4. ~RehashStep /\ ~RehashEnd /\ \A n : ~Rehash(n)
  BY <1>1 DEF RehashStep, RehashEnd, Rehash, StartRehash
<1> QED
  BY <1>1, <1>2, <1>3, <1>4 DEF CallKeeps, Keeps

\* An upsert in the body of a loop, of another key than the one it stands on and of none that is due.
LEMMA LoopUpsert ==
  ASSUME JInv, pc = "open", NEW k \in Keys, NEW v \in Vals, UpsertBody(k, v),
         NEW q, LoopOK(kvm, slot, q), q.at \in Slots, slot[q.at].key # k, k \notin q.due
  PROVE  LoopOK(kvm', slot', q)
<1> DEFINE b   == BucketOf(kvm, k)
           old == kvm.buckets[b]
<1>1. MapOwns(kvm, slot) /\ kvm.n # 0
  BY InvOpen DEF UpsertBody, is_init
<1>2. PICK s \in Slots :
        /\ slot[s] = Free
        /\ IF Has(kvm, k)
           THEN /\ slot' = [slot EXCEPT ![s] = Entry(k, v), ![SlotOf(kvm, k)] = Free]
                /\ kvm'  = WithBucket(kvm, b, push_slot(unlink_slot(old, Place(kvm, k)), s), kvm.slot_cnt)
           ELSE /\ slot' = [slot EXCEPT ![s] = Entry(k, v)]
                /\ kvm'  = WithBucket(kvm, b, push_slot(old, s), kvm.slot_cnt)
  BY DEF UpsertBody
<1>3. kvm.slot_cnt \in 0..(SizeMod - 1)
  BY <1>1 DEF MapOwns, IsMap
<1>4. CASE ~Has(kvm, k)
  <2>1. \A t : In(kvm, t) => slot[t].key # k
    BY <1>1, <1>4, LookupMisses DEF MapOwns
  <2>2. LoopOK(With(kvm, k, s, kvm.slot_cnt), [slot EXCEPT ![s] = Entry(k, v)], q)
    BY <1>1, <1>2, <1>3, <2>1, LoopPush
  <2> QED
    BY <1>2, <1>4, <2>2 DEF With
<1>5. CASE Has(kvm, k)
  <2> DEFINE m1  == Without(kvm, k, kvm.slot_cnt)
             sl1 == SlotsWithout(kvm, k)
  <2>1. /\ MapOwns(m1, sl1) /\ m1.n = kvm.n
        /\ \A t : In(m1, t) => sl1[t].key # k
    BY <1>1, <1>3, <1>5, RemoveOwns
  <2>2. /\ SlotOf(kvm, k) \in Slots /\ slot[SlotOf(kvm, k)] # Free /\ slot[SlotOf(kvm, k)].key = k
        /\ slot \in Slotting
    BY <1>1, <1>5, Lookup, InEntries DEF MapOwns
  <2>3. LoopOK(m1, sl1, q)
    BY <1>1, <1>3, <1>5, <2>2, LoopRemove
  <2>4. sl1[s] = Free
    BY <1>2, <2>2 DEF Slotting, SlotsWithout
  <2>5. slot' = [sl1 EXCEPT ![s] = Entry(k, v)]
    BY <1>2, <1>5, <2>2 DEF Slotting, SlotsWithout
  <2>6. kvm' = With(m1, k, s, kvm.slot_cnt)
    <3>1. BucketOf(m1, k) = b
      BY <2>1 DEF BucketOf
    <3>2. kvm' = WithBucket(m1, b, push_slot(m1.buckets[b], s), kvm.slot_cnt)
      BY <1>1, <1>2, <1>5, ReplaceIsPush DEF MapOwns
    <3> QED
      BY <3>1, <3>2 DEF With
  <2> HIDE DEF m1, sl1
  <2>7. LoopOK(With(m1, k, s, kvm.slot_cnt), [sl1 EXCEPT ![s] = Entry(k, v)], q)
    BY <1>1, <1>2, <1>3, <2>1, <2>3, <2>4, LoopPush
  <2> QED
    BY <2>5, <2>6, <2>7
<1> QED
  BY <1>4, <1>5

\* Nor does a removal disturb it.
LEMMA LoopDrop ==
  ASSUME JInv, NEW k \in Keys, RemoveKey(k),
         NEW q, LoopOK(kvm, slot, q), q.at \in Slots, slot[q.at].key # k, k \notin q.due
  PROVE  LoopOK(kvm', slot', q)
<1> DEFINE n == (kvm.slot_cnt - 1) % SizeMod
<1>1. MapOwns(kvm, slot) /\ kvm.n # 0 /\ Has(kvm, k)
  BY InvOpen DEF RemoveKey, is_init
<1>2. n \in 0..(SizeMod - 1)
  <2>1. kvm.slot_cnt - 1 \in Int
    BY <1>1 DEF MapOwns, IsMap
  <2> QED
    BY <2>1, CountRange
<1>3. kvm' = Without(kvm, k, n)
  BY DEF RemoveKey, Unlink, Without
<1>4. slot' = SlotsWithout(kvm, k)
  BY <1>1 DEF RemoveKey, Freed, MapOwns, Slotting, SlotsWithout
<1> HIDE DEF n
<1>5. slot[SlotOf(kvm, k)].key = k
  BY <1>1, Lookup DEF MapOwns
<1>6. LoopOK(Without(kvm, k, n), SlotsWithout(kvm, k), q)
  BY <1>1, <1>2, <1>5, LoopRemove
<1> QED
  BY <1>3, <1>4, <1>6

\* A call that may destroy the slot of a key ends the loop, or takes the key from those that are due.
LEMMA LoopReplaced ==
  ASSUME JInv, LoopInv, NEW k \in Keys, CallReplaces(k)
  PROVE  LoopInv' /\ (it' # NoLoop => it # NoLoop /\ it'.at = it.at)
<1> DEFINE q == Loop(it.b, it.at, it.due \ {k}, it.met)
<1> SUFFICES ASSUME it' # NoLoop
             PROVE  LoopInv' /\ it # NoLoop /\ it'.at = it.at
  BY DEF LoopInv
<1>1. /\ it # NoLoop /\ pc' # "rehashing" /\ slot[it.at].key # k /\ it' = q
      /\ pc = "open" /\ it \in Loops /\ it.at \in Slots /\ LoopOK(kvm, slot, it)
  BY DEF CallReplaces, LoopInv, MayCall, InBody
<1>2. q \in Loops /\ q.at = it.at /\ q.due = it.due \ {k}
  BY <1>1 DEF Loop, Loops
<1>3. q = Loop(it.b, it.at, it.due \ {k}, it.met)
  OBVIOUS
<1> HIDE DEF q
<1>4. LoopOK(kvm, slot, q)
  BY <1>1, <1>3, LoopLessDue
<1>5. q.at \in Slots /\ slot[q.at].key # k /\ k \notin q.due
  BY <1>1, <1>2
<1>6. CASE RemoveKey(k)
  <2>1. LoopOK(kvm', slot', q)
    BY <1>4, <1>5, <1>6, LoopDrop
  <2> QED
    BY <1>1, <1>2, <1>6, <2>1 DEF LoopInv, RemoveKey, Done
<1>7. ASSUME NEW v \in Vals, UpsertBody(k, v)
      PROVE  LoopInv' /\ it'.at = it.at
  <2>1. LoopOK(kvm', slot', q)
    BY <1>1, <1>4, <1>5, <1>7, LoopUpsert
  <2> QED
    BY <1>1, <1>2, <1>7, <2>1 DEF LoopInv, UpsertBody, Done
<1>8. \A n, call : ~StartRehash(n, call)
  BY <1>1 DEF StartRehash
<1> QED
  BY <1>1, <1>2, <1>6, <1>7, <1>8 DEF CallReplaces, Replaces, Upsert, AutoUpsert

\* Every step keeps the invariant of the loop, and is right.
LEMMA LoopStep ==
  ASSUME JInv, LoopInv, [NextI]_allvars
  PROVE  LoopInv' /\ [LoopRight]_allvars
<1>1. LoopEnd => it.due \subseteq it.met
  BY LoopEndMet
<1>2. CASE NextEntry
  BY <1>1, <1>2, NextEntryInv DEF LoopRight, NextEntry, vars
<1>3. CASE NextBucket
  BY <1>1, <1>3, NextBucketInv DEF LoopRight
<1>4. CASE LoopBegin
  BY <1>1, <1>4, LoopBeginInv DEF LoopRight, LoopBegin
<1>5. CASE LoopEnd
  BY <1>1, <1>5 DEF LoopRight, LoopEnd, LoopInv
<1>6. CASE CallKeeps
  BY <1>1, <1>6, LoopKept DEF LoopRight
<1>7. ASSUME NEW k \in Keys, CallReplaces(k)
      PROVE  LoopInv' /\ LoopRight
  BY <1>1, <1>7, LoopReplaced DEF LoopRight
<1>8. CASE CallEnds
  BY <1>1, <1>8 DEF LoopRight, LoopInv, CallEnds, AutoUpsertEnd, iters
<1>9. CASE CallResets
  BY <1>1, <1>9 DEF LoopRight, LoopInv, CallResets
<1>10. ASSUME NEW k \in Keys, Hold(k)
       PROVE  LoopInv' /\ LoopRight
  BY <1>1, <1>10 DEF LoopRight, LoopInv, Hold
<1>11. CASE UNCHANGED allvars
  BY <1>11 DEF LoopInv, allvars, vars, iters
<1> QED
  BY <1>2, <1>3, <1>4, <1>5, <1>6, <1>7, <1>8, <1>9, <1>10, <1>11 DEF NextI

\* Whatever calls its body makes, short of a rehash and of those that destroy the slot it stands on,
\* a loop over a map meets no key twice and misses none that was there from start to end.
THEOREM LoopSafe == SpecI => LoopMeetsEachOnce
<1>1. InitI => LoopInv
  BY DEF InitI, LoopInv
<1>2. JInv /\ LoopInv /\ [NextI]_allvars => LoopInv' /\ [LoopRight]_allvars
  BY LoopStep
<1>3. LoopMeetsEachOnce <=> [][LoopRight]_allvars
  BY DEF LoopMeetsEachOnce, LoopRight
<1> QED
  BY <1>1, <1>2, <1>3, IterRefines, JInvariance, PTL DEF SpecI
=============================================================================
