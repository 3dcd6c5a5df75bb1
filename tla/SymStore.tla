------------------------------ MODULE SymStore ------------------------------
(***************************************************************************)
(* What the command line tools promise of a database file, as long as one  *)
(* of them runs at a time: symput and symdel replace the database at once  *)
(* by the one their command asks for, or leave it alone, and mksym makes   *)
(* an empty one.  The database is lost when a tool ends between remove and *)
(* rename, or mksym while it writes in place, and at no other time.        *)
(***************************************************************************)
EXTENDS Selections

CONSTANTS Keys, Vals, NoStore, NoRequest

VARIABLES
  store,     \* the entries in the order of their ids, or NoStore
  asked,     \* the command of the tool that runs, or NoRequest
  replacing  \* the old database is gone, the new one not yet in place

vars == <<store, asked, replacing>>

Entries == [key : Keys, val : Vals]

Requests == [op : {"symput"}, key : Keys, val : Vals] \cup [op : {"symdel"}, key : Keys]
              \cup [op : {"mksym", "readsym"}]

\* The entries but those of a key.
Without(entries, key) == Selection(entries, {e \in Entries : e.key # key})

\* What symput and symdel make of a database.
Result(cmd, entries) ==
  IF cmd.op = "symput"
  THEN Append(Without(entries, cmd.key), [key |-> cmd.key, val |-> cmd.val])
  ELSE Without(entries, cmd.key)

Init ==
  /\ store # NoStore =>
       /\ store \in Seq(Entries)
       /\ \A i, j \in DOMAIN store : store[i].key = store[j].key => i = j
  /\ asked = NoRequest /\ replacing = FALSE

Ask(cmd) ==
  /\ asked = NoRequest
  /\ asked' = cmd
  /\ UNCHANGED <<store, replacing>>

Replace ==
  /\ asked.op \in {"symput", "symdel"}
  /\ ~replacing /\ replacing' = TRUE
  /\ store # NoStore
  /\ store' = Result(asked, store)
  /\ UNCHANGED asked

Clear ==
  /\ asked.op = "mksym"
  /\ ~replacing /\ replacing' = TRUE
  /\ store' = NoStore
  /\ UNCHANGED asked

Done ==
  /\ replacing /\ replacing' = FALSE
  /\ store' = IF asked.op = "mksym" THEN <<>> ELSE store
  /\ asked' = NoRequest

GiveUp ==
  /\ asked # NoRequest /\ asked' = NoRequest
  /\ store' = IF replacing THEN NoStore ELSE store
  /\ replacing' = FALSE

Next == (\E cmd \in Requests : Ask(cmd)) \/ Replace \/ Clear \/ Done \/ GiveUp

Spec == Init /\ [][Next]_vars
=============================================================================
