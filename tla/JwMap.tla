-------------------------------- MODULE JwMap --------------------------------
(***************************************************************************)
(* What jwkvmap promises its callers: a finite map.  A call either does    *)
(* what it is named for or changes nothing and says why; find tells the    *)
(* value that the last insertion of the key gave it.                       *)
(***************************************************************************)
CONSTANTS Keys, Vals, NoVal

VARIABLES
  map,   \* the value of each key, or NoVal
  ret    \* what the last call returned, or its error

vars == <<map, ret>>

Empty == [k \in Keys |-> NoVal]

Init == map = Empty /\ ret = "OK"

Insert(k, v) ==
  /\ map[k] = NoVal
  /\ map' = [map EXCEPT ![k] = v]
  /\ ret' = "OK"

Upsert(k, v) ==
  /\ map' = [map EXCEPT ![k] = v]
  /\ ret' = "OK"

Remove(k) ==
  /\ map[k] # NoVal
  /\ map' = [map EXCEPT ![k] = NoVal]
  /\ ret' = "OK"

Find(k) ==
  /\ map[k] # NoVal
  /\ ret' = map[k]
  /\ UNCHANGED map

Missing(k)   == map[k] = NoVal /\ ret' = "ERR_LOOKUP" /\ UNCHANGED map
Duplicate(k) == map[k] # NoVal /\ ret' = "ERR_DUPKEY" /\ UNCHANGED map
Uninit       == map = Empty /\ ret' = "ERR_UNINIT" /\ UNCHANGED map
NoMemory     == ret' \in {"ERR_CREATE_ENT", "ERR_OPNEWARR"} /\ UNCHANGED map

Rehash == ret' = "OK" /\ UNCHANGED map

Clear == map' = Empty /\ ret' = "OK"

Next ==
  \/ NoMemory \/ Uninit \/ Rehash \/ Clear
  \/ \E k \in Keys : Find(k) \/ Remove(k) \/ Missing(k) \/ Duplicate(k)
  \/ \E k \in Keys, v \in Vals : Insert(k, v) \/ Upsert(k, v)

Spec == Init /\ [][Next]_vars
=============================================================================
