----------------------------- MODULE JwKVMapIter -----------------------------
(***************************************************************************)
(* What callers of KVMap keep between calls: the header that find returned *)
(* (a pointer into a slot), and the two iterators of a loop over all       *)
(* entries, a BucketArrIter and in its body a BucketChainIter.  A caller   *)
(* keeps the one or the other (a bound: neither has to do with the other). *)
(***************************************************************************)
EXTENDS JwKVMap

CONSTANTS NoHeld, NoLoop, Start, Over

VARIABLES
  held,  \* the slot whose header find returned, and the entry it had then
  it     \* the loop: the bucket and the slot it stands on; due and met are
         \* history: the keys there were at its start, the keys it has met

\* What stands for no header, for no loop, and for a place before or behind the slots of a bucket.
ASSUME IterAssumption ==
  /\ Start \notin Slots /\ Over \notin Slots /\ Start # Over
  /\ NoHeld \notin [at : Slots, ent : Entries]
  /\ NoLoop \notin [b : Int, at : Slots \cup {Start, Over}, due : SUBSET Keys, met : SUBSET Keys]

iters   == <<held, it>>
allvars == <<vars, iters>>

InitI == Init /\ held = NoHeld /\ it = NoLoop

Loop(b, at, due, met) == [b |-> b, at |-> at, due |-> due, met |-> met]

\* The body of the loop runs when there is an entry.
InBody == it # NoLoop /\ it.at \in Slots

MayCall == it = NoLoop \/ InBody

-----------------------------------------------------------------------------
(* Calls, outside of loops and in their bodies *)

\* EntryView(find(k))
Hold(k) ==
  /\ it = NoLoop
  /\ Find(k)
  /\ held' = [at |-> SlotOf(kvm, k), ent |-> slot[SlotOf(kvm, k)]]
  /\ UNCHANGED it

\* A rehash replaces the bucket array that m_bucket_p points into.
CallKeeps ==
  /\ MayCall
  /\ Keeps
  /\ it' = IF pc' = "rehashing" THEN NoLoop ELSE it
  /\ UNCHANGED held

\* A loop cannot go on from a slot that is destroyed.
CallReplaces(k) ==
  /\ MayCall
  /\ Replaces(k)
  /\ held' = IF held # NoHeld /\ held.ent.key = k THEN NoHeld ELSE held
  /\ it'   = IF it = NoLoop \/ pc' = "rehashing" \/ slot[it.at].key = k THEN NoLoop
             ELSE Loop(it.b, it.at, it.due \ {k}, it.met)

CallEnds ==
  /\ AutoUpsertEnd
  /\ UNCHANGED iters

CallResets ==
  /\ MayCall
  /\ Reset
  /\ held' = NoHeld /\ it' = NoLoop

-----------------------------------------------------------------------------
(* The loop *)

LoopBegin ==
  /\ pc = "open" /\ it = NoLoop /\ held = NoHeld
  /\ it' = Loop(-1, Over, {slot[s].key : s \in Linked(kvm)}, {})
  /\ UNCHANGED <<vars, held>>

\* next_bucket, and a BucketChainIter for what it returns.
NextBucket ==
  /\ it # NoLoop /\ it.at = Over
  /\ it.b + 1 < kvm.n
  /\ it' = Loop(it.b + 1, IF kvm.buckets[it.b + 1].cnt # 0 THEN Start ELSE Over, it.due, it.met)
  /\ UNCHANGED <<vars, held>>

\* next_entry goes to the first slot of the chain, or to the one behind its slot.
NextEntry ==
  /\ it # NoLoop /\ it.at # Over
  /\ LET chain == kvm.buckets[it.b].chain
         next  == IF it.at = Start THEN 1 ELSE 1 + CHOOSE i \in DOMAIN chain : chain[i] = it.at
     IN  it' = IF next \in DOMAIN chain
               THEN Loop(it.b, chain[next], it.due, it.met \cup {slot[chain[next]].key})
               ELSE Loop(it.b, Over, it.due, it.met)
  /\ UNCHANGED <<vars, held>>

LoopEnd ==
  /\ it # NoLoop /\ it.at = Over
  /\ it.b + 1 >= kvm.n
  /\ it' = NoLoop
  /\ UNCHANGED <<vars, held>>

NextI ==
  \/ CallKeeps \/ CallEnds \/ CallResets
  \/ \E k \in Keys : Hold(k) \/ CallReplaces(k)
  \/ LoopBegin \/ NextBucket \/ NextEntry \/ LoopEnd

SpecI == InitI /\ [][NextI]_allvars

-----------------------------------------------------------------------------
(* Properties *)

\* The header that find returned stays where it is, with its key and value, until
\* its key is upserted or removed or the map is cleared: through insertions,
\* operations on other keys of the same chain, and every step of a rehash.
HeldStable == held # NoHeld => slot[held.at] = held.ent

\* A loop meets no key twice, and when it ends it has met every key that was there
\* at its start and that its body has not upserted or removed.
LoopMeetsEachOnce ==
  [][/\ it # NoLoop /\ it' # NoLoop /\ InBody' /\ it'.at # it.at => slot[it'.at].key \notin it.met
     /\ LoopEnd => it.due \subseteq it.met]_allvars
=============================================================================
