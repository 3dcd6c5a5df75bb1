------------------------------ MODULE FileMapper ------------------------------
(***************************************************************************)
(* Who owns a file descriptor and a mapping: the construction of           *)
(* kvsymdb::file_mapper, step by step with a failure at each step, its     *)
(* destruction, and the stream that file_builder::dump opens, in a program *)
(* that opens files of its own between these calls.                        *)
(*                                                                         *)
(* A descriptor is a number, and the system gives the lowest that is free. *)
(* A mapper object that failed keeps the zeros it was made of, so that     *)
(* its destructor closes descriptor 0, whoever has opened it.              *)
(***************************************************************************)
EXTENDS Integers

CONSTANTS
  Fds,      \* the descriptors of the process
  Std,      \* those of its standard streams
  Bases,    \* the addresses that mmap can give
  Mappers,  \* the file_mapper objects of the program
  Closed, NULL

INVALID_FILENO == -1

ASSUME FdsAssumption  == Fds \subseteq Nat /\ 0 \in Std /\ Std \subseteq Fds
ASSUME NullAssumption == NULL \notin Bases \cup [_fileno : Fds \cup {INVALID_FILENO}, _base : Bases \cup {NULL}]
ASSUME ClosedAssumption == Closed \notin {"std", "db", "own"}

VARIABLES
  open,    \* what is open at each descriptor
  mapped,  \* the addresses where the process has mapped something
  own,     \* the descriptors the program has opened itself and not closed
  object,  \* the mapper objects that are constructed
  call     \* the construction or the dump that is under way

fvars == <<open, mapped, own, object, call>>

\* No call, and no object: the values of kvsymdb_file_mapper_t{}.
Zeros == [_fileno |-> 0, _base |-> NULL]

NoCall == [at |-> "none", m |-> NULL, dbif |-> INVALID_FILENO, fd |-> INVALID_FILENO, map |-> NULL]

Call(at, m, dbif, fd, map) == [at |-> at, m |-> m, dbif |-> dbif, fd |-> fd, map |-> map]

Idle == call = NoCall

FreeFds == {f \in Fds : open[f] = Closed}

\* The lowest descriptor that is free, as POSIX has it.
IsLowest(f) == f \in FreeFds /\ \A g \in FreeFds : f <= g

OpenAt(f, what) == [open EXCEPT ![f] = what]

\* close, of each descriptor in S; one that is not open is an error nobody reads.
CloseAll(S) == [f \in Fds |-> IF f \in S THEN Closed ELSE open[f]]

\* munmap, by ~MMapHandle and by the cleanup of an object
Unmapped(base) == mapped \ {base}

\* What move_out of fd and of dbif_map leaves in the object.
MovedOut == [_fileno |-> call.fd, _base |-> call.map]

InitF ==
  /\ open   = [f \in Fds |-> IF f \in Std THEN "std" ELSE Closed]
  /\ mapped = {}
  /\ own    = {}
  /\ object = [m \in Mappers |-> NULL]
  /\ call   = NoCall

-----------------------------------------------------------------------------
(* file_mapper(filename): kvsymdb_file_mapper_init of an object of zeros *)

\* The constructor returns without an object that is_init.
Fail(m) == object' = [object EXCEPT ![m] = Zeros] /\ call' = NoCall

\* fopen fails.
FopenFails(m) ==
  /\ Idle /\ object[m] = NULL
  /\ Fail(m)
  /\ UNCHANGED <<open, mapped, own>>

Fopen(m) ==
  /\ Idle /\ object[m] = NULL
  /\ \E f \in Fds :
       /\ IsLowest(f)
       /\ open' = OpenAt(f, "db")
       /\ call' = Call("dup", m, f, INVALID_FILENO, NULL)
  /\ UNCHANGED <<mapped, own, object>>

\* dup fails: dbif is closed.
DupFails ==
  /\ call.at = "dup"
  /\ open' = CloseAll({call.dbif})
  /\ Fail(call.m)
  /\ UNCHANGED <<mapped, own>>

\* A mutant: the descriptor of the stream is kept, and not a copy of it.
DupNone ==
  /\ call.at = "dup"
  /\ call' = Call("map", call.m, call.dbif, call.dbif, NULL)
  /\ UNCHANGED <<open, mapped, own, object>>

Dup ==
  /\ call.at = "dup"
  /\ \E f \in Fds :
       /\ IsLowest(f)
       /\ open' = OpenAt(f, "db")
       /\ call' = Call("map", call.m, call.dbif, f, NULL)
  /\ UNCHANGED <<mapped, own, object>>

\* A mutant: the copy of the descriptor is not closed.
MapFailsLeaks ==
  /\ call.at = "map"
  /\ open' = CloseAll({call.dbif})
  /\ Fail(call.m)
  /\ UNCHANGED <<mapped, own>>

\* fstat or mmap fails: fd and dbif are closed.
MapFails ==
  /\ call.at = "map"
  /\ open' = CloseAll({call.dbif, call.fd})
  /\ Fail(call.m)
  /\ UNCHANGED <<mapped, own>>

Mmap ==
  /\ call.at = "map"
  /\ \E b \in Bases \ mapped :
       /\ mapped' = mapped \cup {b}
       /\ call'   = Call("check", call.m, call.dbif, call.fd, b)
  /\ UNCHANGED <<open, own, object>>

\* The header or the checksum is bad: dbif_map, fd and dbif are destroyed.
CheckFails ==
  /\ call.at = "check"
  /\ mapped' = Unmapped(call.map)
  /\ open'   = CloseAll({call.dbif, call.fd})
  /\ Fail(call.m)
  /\ UNCHANGED own

\* fd and dbif_map are moved out into the object, dbif is closed.
MoveOut ==
  /\ call.at = "check"
  /\ object' = [object EXCEPT ![call.m] = MovedOut]
  /\ open'   = CloseAll({call.dbif})
  /\ call'   = NoCall
  /\ UNCHANGED <<mapped, own>>

-----------------------------------------------------------------------------
(* The other calls *)

\* ~file_mapper: kvsymdb_file_mapper_cleanup.
Destroy(m) ==
  /\ Idle /\ object[m] # NULL
  /\ open'   = CloseAll({object[m]._fileno} \ {INVALID_FILENO})
  /\ mapped' = Unmapped(object[m]._base)
  /\ object' = [object EXCEPT ![m] = NULL]
  /\ UNCHANGED <<own, call>>

\* The stream of kvsymdb_file_builder_dump, which every return closes.
DumpOpen ==
  /\ Idle
  /\ \E f \in Fds :
       /\ IsLowest(f)
       /\ open' = OpenAt(f, "db")
       /\ call' = Call("dump", NULL, f, INVALID_FILENO, NULL)
  /\ UNCHANGED <<mapped, own, object>>

DumpReturn ==
  /\ call.at = "dump"
  /\ open' = CloseAll({call.dbif})
  /\ call' = NoCall
  /\ UNCHANGED <<mapped, own, object>>

\* The program opens a file of its own, and closes one.
ProgramOpens ==
  /\ Idle
  /\ \E f \in Fds :
       /\ IsLowest(f)
       /\ open' = OpenAt(f, "own")
       /\ own'  = own \cup {f}
  /\ UNCHANGED <<mapped, object, call>>

ProgramCloses ==
  /\ Idle
  /\ \E f \in own :
       /\ open' = CloseAll({f})
       /\ own'  = own \ {f}
  /\ UNCHANGED <<mapped, object, call>>

NextF ==
  \/ \E m \in Mappers : Fopen(m) \/ FopenFails(m) \/ Destroy(m)
  \/ Dup \/ DupFails \/ Mmap \/ MapFails \/ MoveOut \/ CheckFails
  \/ DumpOpen \/ DumpReturn \/ ProgramOpens \/ ProgramCloses

SpecF == InitF /\ [][NextF]_fvars

-----------------------------------------------------------------------------
(* Properties *)

FileTypeOK ==
  /\ open \in [Fds -> {Closed, "std", "db", "own"}]
  /\ mapped \subseteq Bases
  /\ own \subseteq Fds
  /\ \A m \in Mappers : object[m] = NULL \/
       object[m] \in [_fileno : Fds \cup {INVALID_FILENO}, _base : Bases \cup {NULL}]
  /\ call \in [at : {"none", "dup", "map", "check", "dump"}, m : Mappers \cup {NULL},
               dbif : Fds \cup {INVALID_FILENO}, fd : Fds \cup {INVALID_FILENO}, map : Bases \cup {NULL}]

\* is_init(): the mappers that have mapped their file.
Live == {m \in Mappers : object[m] # NULL /\ object[m]._base # NULL}

\* A mapper that has mapped its file keeps an open descriptor and a mapping, and
\* shares neither with another one nor with the program, whatever other mappers fail and are
\* destroyed; its descriptor is never 0, which the failed ones close.
MappersOwn ==
  /\ \A m \in Live :
       /\ object[m]._fileno # 0 /\ object[m]._fileno \notin own
       /\ open[object[m]._fileno] = "db"
       /\ object[m]._base \in mapped
  /\ \A m, n \in Live : m # n =>
       object[m]._fileno # object[n]._fileno /\ object[m]._base # object[n]._base

\* Descriptors that the library opened are those of a mapper that has mapped its
\* file or of the call under way, and so are the mappings: none leaks on a path that fails.
\* No descriptor but 0 is closed behind the back of the program.
FdsAccounted ==
  /\ {f \in Fds : open[f] = "db"} = ({object[m]._fileno : m \in Live} \cup {call.dbif, call.fd}) \ {INVALID_FILENO}
  /\ mapped = ({object[m]._base : m \in Live} \cup {call.map}) \ {NULL}
  /\ \A f \in Fds \ {0} : (f \in Std => open[f] = "std") /\ (f \in own => open[f] = "own")
=============================================================================
