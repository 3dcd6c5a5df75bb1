------------------------------- MODULE NodeDeque -------------------------------
(***************************************************************************)
(* What a linked list promises: a sequence of distinct nodes.  Each call   *)
(* puts a node at the place it names, or takes one out of there and gives  *)
(* back the node it owes; the rest keep their order.  In front of the      *)
(* first node and behind the last one is the end of the list.              *)
(***************************************************************************)
EXTENDS Naturals, SequencesExt

CONSTANTS
  Chunks,
  End,   \* the end of the list, where loops over it stop
  None   \* what calls return that return no node

VARIABLES list, ret

vars == <<list, ret>>

Init == list = <<>> /\ ret = None

\* The node at place i, or the end.
At(i) == IF i \in DOMAIN list THEN list[i] ELSE End

Put(i, n) ==
  /\ n \notin ToSet(list)
  /\ list' = InsertAt(list, i, n)
  /\ ret' = None

Take(i, r) == list' = RemoveAt(list, i) /\ ret' = r

\* A node is put behind the target or in front of it.
PutBehind(target, n)  == \E i \in 0..Len(list) : At(i) = target /\ Put(i + 1, n)
PutInFront(target, n) == \E i \in 1..Len(list) + 1 : At(i) = target /\ Put(i, n)

\* A node is taken from an end of the list and returned; an empty list gives its end.
PopNone  == list = <<>> /\ UNCHANGED list /\ ret' = End
PopFirst == PopNone \/ (list # <<>> /\ Take(1, list[1]))
PopLast  == PopNone \/ (list # <<>> /\ Take(Len(list), list[Len(list)]))

\* A node is taken out from where it is, and the next one returned, or the end.
TakeOut(n) == \E i \in DOMAIN list : list[i] = n /\ Take(i, At(i + 1))

\* Calls that leave the list alone; a new node may be returned.
Other == UNCHANGED list /\ ret' \in {None} \cup (Chunks \ ToSet(list))

Next ==
  \/ Other \/ PopFirst \/ PopLast
  \/ \E target \in ToSet(list) \cup {End}, n \in Chunks : PutBehind(target, n) \/ PutInFront(target, n)
  \/ \E n \in ToSet(list) : TakeOut(n)

Spec == Init /\ [][Next]_vars
=============================================================================
