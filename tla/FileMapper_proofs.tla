--------------------------- MODULE FileMapper_proofs ---------------------------
(***************************************************************************)
(* Whatever constructions of file_mapper fail, at any step, and whatever   *)
(* the program opens and closes between them: a mapper that has mapped its *)
(* file keeps a descriptor and a mapping of its own, nothing leaks, and no *)
(* descriptor but 0 is closed behind the back of the program.              *)
(*                                                                         *)
(* The argument is about the order of the calls: dup comes after fopen, so *)
(* that the descriptor a mapper keeps is larger than the stream's, and so  *)
(* never 0, which is the one that mappers that failed close.               *)
(***************************************************************************)
EXTENDS FileMapper, TLAPS

MapperObjs == [_fileno : Fds \cup {INVALID_FILENO}, _base : Bases \cup {NULL}]

\* What is open and mapped in each phase of a call.
CallOK ==
  \/ call = NoCall
  \/ /\ call.at \in {"dup", "dump"}
     /\ call.dbif \in Fds /\ call.fd = INVALID_FILENO /\ call.map = NULL
     /\ \A g \in Fds : open[g] = Closed => call.dbif < g
  \/ /\ call.at = "map"
     /\ call.dbif \in Fds /\ call.fd \in Fds /\ call.dbif < call.fd /\ call.map = NULL
  \/ /\ call.at = "check"
     /\ call.dbif \in Fds /\ call.fd \in Fds /\ call.dbif < call.fd /\ call.map \in Bases

TypesOK ==
  /\ open \in [Fds -> {Closed, "std", "db", "own"}]
  /\ mapped \subseteq Bases
  /\ own \subseteq Fds
  /\ object \in [Mappers -> MapperObjs \cup {NULL}]
  /\ call \in [at : {"none", "dup", "map", "check", "dump"}, m : Mappers \cup {NULL},
               dbif : Fds \cup {INVALID_FILENO}, fd : Fds \cup {INVALID_FILENO}, map : Bases \cup {NULL}]
  /\ call.at \in {"dup", "map", "check"} => call.m \in Mappers /\ object[call.m] = NULL

IsLive(m) == object[m] # NULL /\ object[m]._base # NULL

\* A mapper has failed, or has a descriptor other than 0 and a mapping.
ObjectsOK ==
  \A m \in Mappers : object[m] # NULL =>
    \/ object[m]._base = NULL /\ object[m]._fileno = 0
    \/ object[m]._base \in Bases /\ object[m]._fileno \in Fds \ {0}

Distinct ==
  \A m, n \in Mappers : m # n /\ IsLive(m) /\ IsLive(n) =>
    object[m]._fileno # object[n]._fileno /\ object[m]._base # object[n]._base

DistinctCall ==
  \A m \in Mappers : IsLive(m) =>
    object[m]._fileno # call.dbif /\ object[m]._fileno # call.fd /\ object[m]._base # call.map

DbFds ==
  \A f \in Fds : open[f] = "db" <=>
    (\E m \in Mappers : IsLive(m) /\ object[m]._fileno = f) \/ f = call.dbif \/ f = call.fd

DbMaps ==
  \A b \in Bases : b \in mapped <=>
    (\E m \in Mappers : IsLive(m) /\ object[m]._base = b) \/ b = call.map

Others == \A f \in Fds \ {0} : (f \in Std => open[f] = "std") /\ (f \in own => open[f] = "own")

FInv == TypesOK /\ CallOK /\ ObjectsOK /\ Distinct /\ DistinctCall /\ DbFds /\ DbMaps /\ Others

-----------------------------------------------------------------------------

\* The invariant holds of a process that has called nothing.
LEMMA FInvInit == InitF => FInv
<1> SUFFICES ASSUME InitF PROVE FInv
  OBVIOUS
<1> USE FdsAssumption, NullAssumption, ClosedAssumption
<1>1. TypesOK
  BY DEF InitF, TypesOK, NoCall, INVALID_FILENO
<1>2. CallOK
  BY DEF InitF, CallOK
<1>3. ObjectsOK /\ Distinct /\ DistinctCall
  BY DEF InitF, ObjectsOK, Distinct, DistinctCall, IsLive
<1>4. DbFds /\ DbMaps
  BY DEF InitF, DbFds, DbMaps, IsLive, NoCall, INVALID_FILENO
<1>5. Others
  BY DEF InitF, Others
<1> QED
  BY <1>1, <1>2, <1>3, <1>4, <1>5 DEF FInv

\* A mapper whose file does not open becomes an object of zeros, which owns nothing.
LEMMA FopenFailsPreserves ==
  ASSUME FInv, NEW m \in Mappers, FopenFails(m)
  PROVE  FInv'
<1> USE FdsAssumption, NullAssumption, ClosedAssumption DEF INVALID_FILENO
<1>1. TypesOK'
  BY DEF FInv, TypesOK, MapperObjs, FopenFails, Fail, NoCall, Zeros
<1>2. CallOK'
  BY DEF FInv, CallOK, FopenFails, Fail
<1>3. ObjectsOK'
  BY DEF FInv, ObjectsOK, FopenFails, Fail, Zeros
<1>4. Distinct'
  BY DEF FInv, Distinct, IsLive, FopenFails, Fail, Zeros
<1>5. DistinctCall'
  BY DEF FInv, DistinctCall, IsLive, FopenFails, Fail, Idle, Zeros
<1>6. DbFds'
  BY DEF FInv, DbFds, IsLive, FopenFails, Fail, Idle, Zeros
<1>7. DbMaps'
  BY DEF FInv, DbMaps, IsLive, FopenFails, Fail, Idle, Zeros
<1>8. Others'
  BY DEF FInv, Others, FopenFails
<1> QED
  BY <1>1, <1>2, <1>3, <1>4, <1>5, <1>6, <1>7, <1>8 DEF FInv

\* The stream takes the lowest descriptor that is free, so that no free one is below it.
LEMMA FopenPreserves ==
  ASSUME FInv, NEW m \in Mappers, Fopen(m)
  PROVE  FInv'
<1> USE FdsAssumption, NullAssumption, ClosedAssumption DEF INVALID_FILENO
<1>1. TypesOK'
  BY DEF FInv, TypesOK, Fopen, Call, OpenAt
<1>2. CallOK'
  BY DEF FInv, TypesOK, CallOK, Fopen, Call, OpenAt, IsLowest, FreeFds
<1>3. ObjectsOK'
  BY DEF FInv, ObjectsOK, Fopen
<1>4. Distinct'
  BY DEF FInv, Distinct, IsLive, Fopen
<1>5. DistinctCall'
  BY DEF FInv, ObjectsOK, DistinctCall, DbFds, IsLive, Fopen, Call, IsLowest, FreeFds
<1>6. DbFds'
  BY DEF FInv, TypesOK, DbFds, IsLive, Fopen, Idle, Call, NoCall, OpenAt
<1>7. DbMaps'
  BY DEF FInv, DbMaps, IsLive, Fopen, Idle, Call, NoCall
<1>8. Others'
  BY DEF FInv, Others, Fopen, OpenAt, IsLowest, FreeFds
<1> QED
  BY <1>1, <1>2, <1>3, <1>4, <1>5, <1>6, <1>7, <1>8 DEF FInv

\* The stream is closed, and its descriptor was no object's.
LEMMA DupFailsPreserves ==
  ASSUME FInv, DupFails
  PROVE  FInv'
<1> USE FdsAssumption, NullAssumption, ClosedAssumption DEF INVALID_FILENO
<1>1. TypesOK'
  BY DEF FInv, TypesOK, MapperObjs, DupFails, Fail, CloseAll, NoCall, Zeros
<1>2. CallOK'
  BY DEF FInv, CallOK, DupFails, Fail
<1>3. ObjectsOK'
  BY DEF FInv, ObjectsOK, DupFails, Fail, Zeros
<1>4. Distinct'
  BY DEF FInv, Distinct, IsLive, DupFails, Fail, Zeros
<1>5. DistinctCall'
  BY DEF FInv, CallOK, DistinctCall, IsLive, DupFails, Fail, NoCall, Zeros
<1>6. DbFds'
  BY DEF FInv, TypesOK, CallOK, DistinctCall, DbFds, IsLive, DupFails, Fail, CloseAll, NoCall, Zeros
<1>7. DbMaps'
  BY DEF FInv, TypesOK, CallOK, DbMaps, IsLive, DupFails, Fail, NoCall, Zeros
<1>8. Others'
  BY DEF FInv, DbFds, Others, DupFails, CloseAll
<1> QED
  BY <1>1, <1>2, <1>3, <1>4, <1>5, <1>6, <1>7, <1>8 DEF FInv

\* The copy is larger than the descriptor of the stream, which took the lowest.
LEMMA DupPreserves ==
  ASSUME FInv, Dup
  PROVE  FInv'
<1> USE FdsAssumption, NullAssumption, ClosedAssumption DEF INVALID_FILENO
<1>1. TypesOK'
  BY DEF FInv, TypesOK, Dup, Call, OpenAt
<1>2. CallOK'
  BY DEF FInv, CallOK, Dup, Call, NoCall, IsLowest, FreeFds
<1>3. ObjectsOK'
  BY DEF FInv, ObjectsOK, Dup
<1>4. Distinct'
  BY DEF FInv, Distinct, IsLive, Dup
<1>5. DistinctCall'
  BY DEF FInv, DistinctCall, DbFds, IsLive, Dup, Call, IsLowest, FreeFds
<1>6. DbFds'
  BY DEF FInv, TypesOK, CallOK, DbFds, IsLive, Dup, Call, NoCall, OpenAt
<1>7. DbMaps'
  BY DEF FInv, CallOK, DbMaps, IsLive, Dup, Call, NoCall
<1>8. Others'
  BY DEF FInv, Others, Dup, OpenAt, IsLowest, FreeFds
<1> QED
  BY <1>1, <1>2, <1>3, <1>4, <1>5, <1>6, <1>7, <1>8 DEF FInv

\* Both descriptors are closed, and neither was an object's.
LEMMA MapFailsPreserves ==
  ASSUME FInv, MapFails
  PROVE  FInv'
<1> USE FdsAssumption, NullAssumption, ClosedAssumption DEF INVALID_FILENO
<1>1. TypesOK'
  BY DEF FInv, TypesOK, MapperObjs, MapFails, Fail, CloseAll, NoCall, Zeros
<1>2. CallOK'
  BY DEF FInv, CallOK, MapFails, Fail
<1>3. ObjectsOK'
  BY DEF FInv, ObjectsOK, MapFails, Fail, Zeros
<1>4. Distinct'
  BY DEF FInv, Distinct, IsLive, MapFails, Fail, Zeros
<1>5. DistinctCall'
  BY DEF FInv, ObjectsOK, DistinctCall, IsLive, MapFails, Fail, NoCall, Zeros
<1>6. DbFds'
  BY DEF FInv, TypesOK, DistinctCall, DbFds, IsLive, MapFails, Fail, CloseAll, NoCall, Zeros
<1>7. DbMaps'
  BY DEF FInv, TypesOK, CallOK, DbMaps, IsLive, MapFails, Fail, NoCall, Zeros
<1>8. Others'
  BY DEF FInv, DbFds, Others, MapFails, CloseAll
<1> QED
  BY <1>1, <1>2, <1>3, <1>4, <1>5, <1>6, <1>7, <1>8 DEF FInv

\* The new mapping is at an address where nothing was mapped.
LEMMA MmapPreserves ==
  ASSUME FInv, Mmap
  PROVE  FInv'
<1> USE FdsAssumption, NullAssumption, ClosedAssumption DEF INVALID_FILENO
<1>1. TypesOK'
  BY DEF FInv, TypesOK, Mmap, Call
<1>2. CallOK'
  BY DEF FInv, CallOK, Mmap, Call, NoCall
<1>3. ObjectsOK'
  BY DEF FInv, ObjectsOK, Mmap
<1>4. Distinct'
  BY DEF FInv, Distinct, IsLive, Mmap
<1>5. DistinctCall'
  BY DEF FInv, DistinctCall, DbMaps, IsLive, Mmap, Call
<1>6. DbFds'
  BY DEF FInv, DbFds, IsLive, Mmap, Call
<1>7. DbMaps'
  BY DEF FInv, CallOK, DbMaps, IsLive, Mmap, Call, NoCall
<1>8. Others'
  BY DEF FInv, Others, Mmap
<1> QED
  BY <1>1, <1>2, <1>3, <1>4, <1>5, <1>6, <1>7, <1>8 DEF FInv

\* Both descriptors are closed and the mapping is undone; none was an object's.
LEMMA CheckFailsPreserves ==
  ASSUME FInv, CheckFails
  PROVE  FInv'
<1> USE FdsAssumption, NullAssumption, ClosedAssumption DEF INVALID_FILENO
<1>1. TypesOK'
  BY DEF FInv, TypesOK, MapperObjs, CheckFails, Unmapped, Fail, CloseAll, NoCall, Zeros
<1>2. CallOK'
  BY DEF FInv, CallOK, CheckFails, Fail
<1>3. ObjectsOK'
  BY DEF FInv, ObjectsOK, CheckFails, Fail, Zeros
<1>4. Distinct'
  BY DEF FInv, Distinct, IsLive, CheckFails, Fail, Zeros
<1>5. DistinctCall'
  BY DEF FInv, ObjectsOK, DistinctCall, IsLive, CheckFails, Fail, NoCall, Zeros
<1>6. DbFds'
  BY DEF FInv, TypesOK, DistinctCall, DbFds, IsLive, CheckFails, Fail, CloseAll, NoCall, Zeros
<1>7. DbMaps'
  BY DEF FInv, TypesOK, DistinctCall, DbMaps, IsLive, CheckFails, Unmapped, Fail, NoCall, Zeros
<1>8. Others'
  BY DEF FInv, DbFds, Others, CheckFails, CloseAll
<1> QED
  BY <1>1, <1>2, <1>3, <1>4, <1>5, <1>6, <1>7, <1>8 DEF FInv

\* The copy and the mapping pass from the call to the object, and the stream is closed.
LEMMA MoveOutPreserves ==
  ASSUME FInv, MoveOut
  PROVE  FInv'
<1> USE FdsAssumption, NullAssumption, ClosedAssumption DEF INVALID_FILENO
<1>1. TypesOK'
  BY DEF FInv, TypesOK, MapperObjs, MoveOut, MovedOut, CloseAll, NoCall
<1>2. CallOK'
  BY DEF FInv, CallOK, MoveOut
<1>3. ObjectsOK'
  BY DEF FInv, CallOK, ObjectsOK, MoveOut, MovedOut, NoCall
<1>4. Distinct'
  BY DEF FInv, Distinct, DistinctCall, IsLive, MoveOut, MovedOut
<1>5. DistinctCall'
  BY DEF FInv, CallOK, ObjectsOK, DistinctCall, IsLive, MoveOut, MovedOut, NoCall
<1>6. DbFds'
  BY DEF FInv, TypesOK, CallOK, DistinctCall, DbFds, IsLive, MoveOut, MovedOut, CloseAll, NoCall
<1>7. DbMaps'
  BY DEF FInv, TypesOK, DbMaps, IsLive, MoveOut, MovedOut, NoCall
<1>8. Others'
  BY DEF FInv, DbFds, Others, MoveOut, CloseAll
<1> QED
  BY <1>1, <1>2, <1>3, <1>4, <1>5, <1>6, <1>7, <1>8 DEF FInv

\* A live object gives up what only it had; one that failed closes descriptor 0, which no live
\* object has.
LEMMA DestroyPreserves ==
  ASSUME FInv, NEW m \in Mappers, Destroy(m)
  PROVE  FInv'
<1> USE FdsAssumption, NullAssumption, ClosedAssumption DEF INVALID_FILENO
<1>1. TypesOK'
  BY DEF FInv, TypesOK, Destroy, Unmapped, CloseAll
<1>2. CallOK'
  BY DEF FInv, CallOK, Destroy, Idle
<1>3. ObjectsOK'
  BY DEF FInv, ObjectsOK, Destroy
<1>4. Distinct'
  BY DEF FInv, Distinct, IsLive, Destroy
<1>5. DistinctCall'
  BY DEF FInv, DistinctCall, IsLive, Destroy
<1>6. DbFds'
  BY DEF FInv, TypesOK, ObjectsOK, Distinct, DbFds, IsLive, Destroy, CloseAll, Idle, NoCall
<1>7. DbMaps'
  BY DEF FInv, TypesOK, Distinct, DistinctCall, DbMaps, IsLive, Destroy, Unmapped
<1>8. Others'
  BY DEF FInv, ObjectsOK, DbFds, Others, IsLive, Destroy, CloseAll
<1> QED
  BY <1>1, <1>2, <1>3, <1>4, <1>5, <1>6, <1>7, <1>8 DEF FInv

\* The stream of a dump takes the lowest descriptor that is free.
LEMMA DumpOpenPreserves ==
  ASSUME FInv, DumpOpen
  PROVE  FInv'
<1> USE FdsAssumption, NullAssumption, ClosedAssumption DEF INVALID_FILENO
<1>1. TypesOK'
  BY DEF FInv, TypesOK, DumpOpen, Call, OpenAt
<1>2. CallOK'
  BY DEF FInv, TypesOK, CallOK, DumpOpen, Call, OpenAt, IsLowest, FreeFds
<1>3. ObjectsOK'
  BY DEF FInv, ObjectsOK, DumpOpen
<1>4. Distinct'
  BY DEF FInv, Distinct, IsLive, DumpOpen
<1>5. DistinctCall'
  BY DEF FInv, ObjectsOK, DistinctCall, DbFds, IsLive, DumpOpen, Call, IsLowest, FreeFds
<1>6. DbFds'
  BY DEF FInv, TypesOK, DbFds, IsLive, DumpOpen, Idle, Call, NoCall, OpenAt
<1>7. DbMaps'
  BY DEF FInv, DbMaps, IsLive, DumpOpen, Idle, Call, NoCall
<1>8. Others'
  BY DEF FInv, Others, DumpOpen, OpenAt, IsLowest, FreeFds
<1> QED
  BY <1>1, <1>2, <1>3, <1>4, <1>5, <1>6, <1>7, <1>8 DEF FInv

\* The stream of the dump is closed.
LEMMA DumpReturnPreserves ==
  ASSUME FInv, DumpReturn
  PROVE  FInv'
<1> USE FdsAssumption, NullAssumption, ClosedAssumption DEF INVALID_FILENO
<1>1. TypesOK'
  BY DEF FInv, TypesOK, DumpReturn, CloseAll, NoCall
<1>2. CallOK'
  BY DEF FInv, CallOK, DumpReturn
<1>3. ObjectsOK'
  BY DEF FInv, ObjectsOK, DumpReturn
<1>4. Distinct'
  BY DEF FInv, Distinct, IsLive, DumpReturn
<1>5. DistinctCall'
  BY DEF FInv, CallOK, DistinctCall, IsLive, DumpReturn, NoCall
<1>6. DbFds'
  BY DEF FInv, CallOK, DistinctCall, DbFds, IsLive, DumpReturn, CloseAll, NoCall
<1>7. DbMaps'
  BY DEF FInv, CallOK, DbMaps, IsLive, DumpReturn, NoCall
<1>8. Others'
  BY DEF FInv, DbFds, Others, DumpReturn, CloseAll
<1> QED
  BY <1>1, <1>2, <1>3, <1>4, <1>5, <1>6, <1>7, <1>8 DEF FInv

\* A descriptor that the program opens was free, so no object's.
LEMMA ProgramOpensPreserves ==
  ASSUME FInv, ProgramOpens
  PROVE  FInv'
<1> USE FdsAssumption, NullAssumption, ClosedAssumption DEF INVALID_FILENO
<1>1. TypesOK'
  BY DEF FInv, TypesOK, ProgramOpens, OpenAt
<1>2. CallOK'
  BY DEF FInv, CallOK, ProgramOpens, Idle
<1>3. ObjectsOK'
  BY DEF FInv, ObjectsOK, ProgramOpens
<1>4. Distinct'
  BY DEF FInv, Distinct, IsLive, ProgramOpens
<1>5. DistinctCall'
  BY DEF FInv, DistinctCall, IsLive, ProgramOpens
<1>6. DbFds'
  BY DEF FInv, DbFds, IsLive, ProgramOpens, OpenAt, IsLowest, FreeFds
<1>7. DbMaps'
  BY DEF FInv, DbMaps, IsLive, ProgramOpens
<1>8. Others'
  BY DEF FInv, TypesOK, Others, ProgramOpens, OpenAt, IsLowest, FreeFds
<1> QED
  BY <1>1, <1>2, <1>3, <1>4, <1>5, <1>6, <1>7, <1>8 DEF FInv

\* A descriptor that the program closes is its own.
LEMMA ProgramClosesPreserves ==
  ASSUME FInv, ProgramCloses
  PROVE  FInv'
<1> USE FdsAssumption, NullAssumption, ClosedAssumption DEF INVALID_FILENO
<1>1. TypesOK'
  BY DEF FInv, TypesOK, ProgramCloses, CloseAll
<1>2. CallOK'
  BY DEF FInv, CallOK, ProgramCloses, Idle
<1>3. ObjectsOK'
  BY DEF FInv, ObjectsOK, ProgramCloses
<1>4. Distinct'
  BY DEF FInv, Distinct, IsLive, ProgramCloses
<1>5. DistinctCall'
  BY DEF FInv, DistinctCall, IsLive, ProgramCloses
<1>6. DbFds'
  BY DEF FInv, ObjectsOK, DbFds, Others, IsLive, ProgramCloses, Idle, NoCall, CloseAll
<1>7. DbMaps'
  BY DEF FInv, DbMaps, IsLive, ProgramCloses
<1>8. Others'
  BY DEF FInv, Others, ProgramCloses, CloseAll
<1> QED
  BY <1>1, <1>2, <1>3, <1>4, <1>5, <1>6, <1>7, <1>8 DEF FInv
-----------------------------------------------------------------------------

\* Every step keeps the invariant.
LEMMA FInvStep == FInv /\ [NextF]_fvars => FInv'
<1> SUFFICES ASSUME FInv, [NextF]_fvars PROVE FInv'
  OBVIOUS
<1>1. CASE \E m \in Mappers : Fopen(m) \/ FopenFails(m) \/ Destroy(m)
  BY <1>1, FopenPreserves, FopenFailsPreserves, DestroyPreserves
<1>2. CASE Dup \/ DupFails \/ Mmap \/ MapFails \/ MoveOut \/ CheckFails
  BY <1>2, DupPreserves, DupFailsPreserves, MmapPreserves, MapFailsPreserves, MoveOutPreserves, CheckFailsPreserves
<1>3. CASE DumpOpen \/ DumpReturn \/ ProgramOpens \/ ProgramCloses
  BY <1>3, DumpOpenPreserves, DumpReturnPreserves, ProgramOpensPreserves, ProgramClosesPreserves
<1>4. CASE UNCHANGED fvars
  BY <1>4 DEF fvars, FInv, TypesOK, CallOK, ObjectsOK, Distinct, DistinctCall, DbFds, DbMaps, Others, IsLive
<1> QED
  BY <1>1, <1>2, <1>3, <1>4 DEF NextF

\* The invariant holds in every behaviour, for every number of descriptors, addresses and
\* mappers.
THEOREM FInvariance == SpecF => []FInv
<1>1. InitF => FInv
  BY FInvInit
<1>2. FInv /\ [NextF]_fvars => FInv'
  BY FInvStep
<1> QED
  BY <1>1, <1>2, PTL DEF SpecF

\* A live mapper is one that IsLive says is.
LEMMA LiveMappers == \A m : m \in Live <=> m \in Mappers /\ IsLive(m)
  BY DEF Live, IsLive

\* What a live mapper owns, read off the invariant.
LEMMA FInvMappersOwn == FInv => MappersOwn
<1> SUFFICES ASSUME FInv PROVE MappersOwn
  OBVIOUS
<1> USE NullAssumption, ClosedAssumption
<1>1. ASSUME NEW m \in Live
      PROVE  /\ object[m]._fileno # 0 /\ open[object[m]._fileno] = "db"
             /\ object[m]._base \in mapped
             /\ object[m]._fileno \notin own
  <2>1. m \in Mappers /\ IsLive(m)
    BY <1>1, LiveMappers
  <2>2. object[m]._base \in Bases /\ object[m]._fileno \in Fds \ {0}
    BY <2>1 DEF FInv, ObjectsOK, IsLive
  <2>3. open[object[m]._fileno] = "db"
    BY <2>1, <2>2 DEF FInv, DbFds
  <2>4. object[m]._base \in mapped
    BY <2>1, <2>2 DEF FInv, DbMaps
  <2>5. object[m]._fileno \notin own
    BY <2>2, <2>3 DEF FInv, Others
  <2> QED
    BY <2>2, <2>3, <2>4, <2>5
<1>2. ASSUME NEW m \in Live, NEW n \in Live, m # n
      PROVE  object[m]._fileno # object[n]._fileno /\ object[m]._base # object[n]._base
  BY <1>2, LiveMappers DEF FInv, Distinct
<1> QED
  BY <1>1, <1>2 DEF MappersOwn

\* What is open and mapped, read off the invariant.
LEMMA FInvFdsAccounted == FInv => FdsAccounted
<1> SUFFICES ASSUME FInv PROVE FdsAccounted
  OBVIOUS
<1> USE FdsAssumption, NullAssumption
<1>1. {f \in Fds : open[f] = "db"} = ({object[m]._fileno : m \in Live} \cup {call.dbif, call.fd}) \ {INVALID_FILENO}
  <2>1. \A m \in Live : object[m]._fileno \in Fds \ {INVALID_FILENO}
    BY LiveMappers DEF FInv, ObjectsOK, IsLive, INVALID_FILENO
  <2>2. call.dbif \in Fds \cup {INVALID_FILENO} /\ call.fd \in Fds \cup {INVALID_FILENO}
    BY DEF FInv, TypesOK
  <2>3. \A f \in Fds : f # INVALID_FILENO
    BY DEF INVALID_FILENO
  <2> QED
    BY <2>1, <2>2, <2>3, LiveMappers DEF FInv, DbFds
<1>2. mapped = ({object[m]._base : m \in Live} \cup {call.map}) \ {NULL}
  <2>1. \A m \in Live : object[m]._base \in Bases
    BY LiveMappers DEF FInv, ObjectsOK, IsLive
  <2>2. call.map \in Bases \cup {NULL} /\ mapped \subseteq Bases /\ NULL \notin Bases
    BY DEF FInv, TypesOK
  <2> QED
    BY <2>1, <2>2, LiveMappers DEF FInv, DbMaps
<1>3. \A f \in Fds \ {0} : (f \in Std => open[f] = "std") /\ (f \in own => open[f] = "own")
  BY DEF FInv, Others
<1> QED
  BY <1>1, <1>2, <1>3 DEF FdsAccounted

\* The types of the process's descriptors and mappings, of the objects and of the call under way.
THEOREM FilesTyped == SpecF => []FileTypeOK
<1>1. FInv => FileTypeOK
  BY DEF FInv, TypesOK, MapperObjs, FileTypeOK
<1> QED
  BY <1>1, FInvariance, PTL

\* A mapper that has mapped its file keeps a descriptor and a mapping of its own, although mappers
\* that failed close descriptor 0 when kvsymdb_file_mapper_cleanup destroys them.
THEOREM MappersOwnSafe == SpecF => []MappersOwn
  BY FInvariance, FInvMappersOwn, PTL

\* No path through kvsymdb_file_mapper_init or kvsymdb_file_builder_dump leaks a descriptor or a
\* mapping, and none closes a descriptor of the program but 0.
THEOREM FdsAccountedSafe == SpecF => []FdsAccounted
  BY FInvariance, FInvFdsAccounted, PTL
=============================================================================
