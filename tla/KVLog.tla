------------------------------- MODULE KVLog -------------------------------
(***************************************************************************)
(* What kvsymdb promises: an append-only log of named values, in which an  *)
(* entry keeps its content for good, a live entry may be marked dead and   *)
(* never comes back, and compaction drops the dead entries and nothing     *)
(* else, keeping the order of the rest.  A call that fails changes         *)
(* nothing.                                                                *)
(***************************************************************************)
EXTENDS Selections

CONSTANTS Names, Values

VARIABLES
  open,    \* whether there is a log
  log      \* its entries, in the order they were appended

vars == <<open, log>>

Entry(name, data, alive) == [name |-> name, data |-> data, alive |-> alive]

IsAlive(entry) == entry.alive

AliveIn(entries) == {entries[i] : i \in {j \in DOMAIN entries : IsAlive(entries[j])}}

Init == open = FALSE /\ log = <<>>

Open == ~open /\ open' = TRUE /\ UNCHANGED log

\* The log lives in memory: closing it, or the end of the process, loses it.
Close == open /\ open' = FALSE /\ log' = <<>>

Append1(name, data) ==
  /\ open
  /\ log' = Append(log, Entry(name, data, TRUE))
  /\ UNCHANGED open

Kill(i) ==
  /\ open
  /\ log' = [log EXCEPT ![i].alive = FALSE]
  /\ UNCHANGED open

Compact ==
  /\ open
  /\ log' = Selection(log, AliveIn(log))
  /\ UNCHANGED open

Next ==
  \/ Open \/ Close \/ Compact
  \/ \E name \in Names, data \in Values : Append1(name, data)
  \/ \E i \in DOMAIN log : Kill(i)

Spec == Init /\ [][Next]_vars
=============================================================================
