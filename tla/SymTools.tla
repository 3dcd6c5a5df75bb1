------------------------------ MODULE SymTools ------------------------------
(***************************************************************************)
(* The command line tools symput, symdel, mksym and readsym at work on one *)
(* database file.  symput and symdel copy the mapped database to memory,   *)
(* dump the changed copy to a temporary file named after the second, remove *)
(* the database and rename the temporary file; mksym dumps an empty        *)
(* database in place.                                                      *)
(*                                                                         *)
(* Every action is one call that another tool can see the effect of.  A    *)
(* tool may end anywhere.                                                  *)
(***************************************************************************)
EXTENDS KVFile

CONSTANTS
  Tools,          \* the processes
  Keys, Vals,     \* what they are asked to put and delete
  TmpNames,       \* the temporary names each of them may make up
  Inodes,         \* the files the disk has room for
  InitImages,     \* the databases there may be in the beginning
  DbName,         \* the name the tools are given
  NoInode,        \* no file
  NoImage,        \* no database
  Exclusive,      \* a tool is started only when no other is running
  DiskMayFill     \* what is written may fail to reach the disk

VARIABLES
  dir,            \* the inode of a name
  disk,           \* the contents of an inode
  tool,           \* where each process stands
  last            \* the last database a tool put in place of another

vars == <<dir, disk, tool, last>>

ASSUME NamesAssumption ==
  /\ TmpNames \in [Tools -> SUBSET UNION {TmpNames[p] : p \in Tools}]
  /\ \A p \in Tools : DbName \notin TmpNames[p]
  /\ NoInode \notin Inodes

Names == {DbName} \cup UNION {TmpNames[p] : p \in Tools}

-----------------------------------------------------------------------------
(* Tools *)

Entries == [key : Keys, val : Vals]

ASSUME NoneAssumption ==
  NoHdr \notin [fh_buflen : Nat, fh_crc32 : Seq(Entries)] /\ NoImage \notin Seq(Entries)

NoCmd == [op |-> "none"]

Commands == [op : {"symput"}, key : Keys, val : Vals] \cup [op : {"symdel"}, key : Keys]
              \cup [op : {"mksym", "readsym"}]

\* A tool that has opened nothing yet.
Fresh(pc, cmd, tmp) ==
  [pc |-> pc, cmd |-> cmd, tmp |-> tmp,
   map |-> NoInode, end |-> 0, out |-> NoInode, image |-> <<>>, at |-> 0]

Idle == Fresh("idle", NoCmd, DbName)

InUse == {dir[n] : n \in Names} \cup {tool[p].map : p \in Tools}
                                \cup {tool[p].out : p \in Tools}

Init ==
  /\ tool = [p \in Tools |-> Idle]
  /\ \E image \in InitImages \cup {NoImage}, i \in Inodes :
       IF image = NoImage
       THEN /\ dir  = [n \in Names |-> NoInode]
            /\ disk = [j \in Inodes |-> EmptyFile]
            /\ last = NoImage
       ELSE /\ dir  = [n \in Names |-> IF n = DbName THEN i ELSE NoInode]
            /\ disk = [j \in Inodes |->
                         IF j = i THEN WithHeader([hdr |-> NoHdr, body |-> image], image)
                                  ELSE EmptyFile]
            /\ last = image

Start(p, cmd) ==
  /\ tool[p].pc = "idle"
  /\ Exclusive => \A q \in Tools : tool[q].pc = "idle"
  /\ IF cmd.op = "mksym"
     THEN tool' = [tool EXCEPT ![p] = Fresh("open", cmd, DbName)]
     ELSE \E tmp \in TmpNames[p] : tool' = [tool EXCEPT ![p] = Fresh("map", cmd, tmp)]
  /\ UNCHANGED <<dir, disk, last>>

\* The process ends: a call failed and main returns, an assertion or a signal
\* ends it, or a readsym is done.
End(p) ==
  /\ tool[p].pc # "idle"
  /\ tool' = [tool EXCEPT ![p] = Idle]
  /\ UNCHANGED <<dir, disk, last>>

\* kvsymdb_file_mapper_init, and the reader bound to what the header tells.
Map(p) ==
  /\ tool[p].pc = "map"
  /\ dir[DbName] # NoInode
  /\ Maps(disk[dir[DbName]])
  /\ tool' = [tool EXCEPT ![p].pc = "copy", ![p].map = dir[DbName],
                          ![p].end = disk[dir[DbName]].hdr.fh_buflen]
  /\ UNCHANGED <<dir, disk, last>>

\* A mutant: the test is the wrong way round.
CopyOthersNot(image, entry, key) ==
  IF entry.key = key THEN Append(image, entry) ELSE image

CopyEntry(image, entry, key) ==
  IF entry.key = key THEN image ELSE Append(image, entry)

\* A record is read through the mapping.  Behind the end of a file that was made
\* shorter, and at zeros, it is a signal or an assertion instead, and the tool ends.
CopyRecord(p) ==
  LET at   == tool[p].at + 1
      body == disk[tool[p].map].body
  IN
  /\ tool[p].pc = "copy"
  /\ tool[p].cmd.op # "readsym"
  /\ at <= tool[p].end
  /\ at <= Len(body) /\ body[at] # Hole
  /\ tool' = [tool EXCEPT ![p].at = at,
                          ![p].image = CopyEntry(@, body[at], tool[p].cmd.key)]
  /\ UNCHANGED <<dir, disk, last>>

\* The reader is at its end; symput inserts its key and value.
CopyDone(p) ==
  /\ tool[p].pc = "copy"
  /\ tool[p].cmd.op # "readsym"
  /\ tool[p].at = tool[p].end
  /\ tool' = [tool EXCEPT
                ![p].pc = "open", ![p].at = 0,
                ![p].image = IF tool[p].cmd.op = "symput"
                             THEN Append(@, [key |-> tool[p].cmd.key, val |-> tool[p].cmd.val])
                             ELSE @]
  /\ UNCHANGED <<dir, disk, last>>

-----------------------------------------------------------------------------
(* kvsymdb_file_builder_dump *)

\* A mutant: the dump is written to the database itself.
DumpOpenInPlace(p) ==
  /\ tool[p].pc = "open"
  /\ \E i \in Inodes :
       /\ IF dir[DbName] # NoInode THEN i = dir[DbName] ELSE i \notin InUse
       /\ dir'  = [dir EXCEPT ![DbName] = i]
       /\ disk' = [disk EXCEPT ![i] = EmptyFile]
       /\ tool' = [tool EXCEPT ![p].pc = "body", ![p].out = i]
  /\ last' = IF tool[p].cmd.op = "mksym" THEN NoImage ELSE last

\* A mutant: the header is written first.
DumpOpenHeaderFirst(p) ==
  /\ tool[p].pc = "open"
  /\ \E i \in Inodes :
       /\ IF dir[tool[p].tmp] # NoInode THEN i = dir[tool[p].tmp] ELSE i \notin InUse
       /\ dir'  = [dir EXCEPT ![tool[p].tmp] = i]
       /\ disk' = [disk EXCEPT ![i] = WithHeader(EmptyFile, tool[p].image)]
       /\ tool' = [tool EXCEPT ![p].pc = "body", ![p].out = i]
  /\ last' = IF tool[p].cmd.op = "mksym" THEN NoImage ELSE last

\* fopen(filename, "wb"): the file is truncated, or made.
DumpOpen(p) ==
  /\ tool[p].pc = "open"
  /\ \E i \in Inodes :
       /\ IF dir[tool[p].tmp] # NoInode THEN i = dir[tool[p].tmp] ELSE i \notin InUse
       /\ dir'  = [dir EXCEPT ![tool[p].tmp] = i]
       /\ disk' = [disk EXCEPT ![i] = EmptyFile]
       /\ tool' = [tool EXCEPT ![p].pc = "body", ![p].out = i]
  /\ last' = IF tool[p].cmd.op = "mksym" THEN NoImage ELSE last

\* A part of the arena reaches the file.
DumpRecord(p) ==
  LET at == tool[p].at + 1 IN
  /\ tool[p].pc = "body"
  /\ at <= Len(tool[p].image)
  /\ disk' = [disk EXCEPT ![tool[p].out] =
                            WithRecord(disk[tool[p].out], at, tool[p].image[at])]
  /\ tool' = [tool EXCEPT ![p].at = at]
  /\ UNCHANGED <<dir, last>>

\* A mutant: the mapper lives to the end of main.
DumpedStillMapped(p) ==
  /\ tool' = [tool EXCEPT ![p] =
                IF tool[p].cmd.op = "mksym" THEN Idle
                ELSE [tool[p] EXCEPT !.pc = "remove", !.out = NoInode]]
  /\ last' = IF tool[p].cmd.op = "mksym" THEN <<>> ELSE last
  /\ UNCHANGED dir

\* The dump has returned KVSYMDB_OK, and with the scope of the copy the mapping
\* ends.  mksym ends too.
Dumped(p) ==
  /\ tool' = [tool EXCEPT ![p] =
                IF tool[p].cmd.op = "mksym" THEN Idle
                ELSE [tool[p] EXCEPT !.pc = "remove", !.map = NoInode, !.out = NoInode]]
  /\ last' = IF tool[p].cmd.op = "mksym" THEN <<>> ELSE last
  /\ UNCHANGED dir

\* fclose writes the header, which fwrite left in the buffer.
DumpClose(p) ==
  /\ tool[p].pc = "body"
  /\ tool[p].at = Len(tool[p].image)
  /\ disk' = [disk EXCEPT ![tool[p].out] = WithHeader(disk[tool[p].out], tool[p].image)]
  /\ Dumped(p)

\* What was left in the buffer is lost.  fwrite has taken it; fseek, which writes
\* it out, or fclose fails, and nobody looks.  After a failed fseek the header
\* does not go to its place either.
DumpLost(p) ==
  /\ DiskMayFill
  /\ tool[p].pc = "body"
  /\ Dumped(p)
  /\ UNCHANGED disk

-----------------------------------------------------------------------------
(* The replacement *)

\* A mutant: the temporary file is removed.
RemoveTmp(p) ==
  /\ tool[p].pc = "remove"
  /\ dir[tool[p].tmp] # NoInode
  /\ dir'  = [dir EXCEPT ![tool[p].tmp] = NoInode]
  /\ tool' = [tool EXCEPT ![p].pc = "rename"]
  /\ last' = tool[p].image
  /\ UNCHANGED disk

Remove(p) ==
  /\ tool[p].pc = "remove"
  /\ dir[DbName] # NoInode
  /\ dir'  = [dir EXCEPT ![DbName] = NoInode]
  /\ tool' = [tool EXCEPT ![p].pc = "rename"]
  /\ last' = tool[p].image
  /\ UNCHANGED disk

\* Where rename does not replace a file, it fails when another tool has put one
\* there: the tool ends.
Rename(p) ==
  /\ tool[p].pc = "rename"
  /\ dir[tool[p].tmp] # NoInode
  /\ dir'  = [dir EXCEPT ![DbName] = dir[tool[p].tmp], ![tool[p].tmp] = NoInode]
  /\ tool' = [tool EXCEPT ![p] = Idle]
  /\ UNCHANGED <<disk, last>>

Next == \E p \in Tools :
  \/ \E cmd \in Commands : Start(p, cmd)
  \/ End(p)
  \/ Map(p) \/ CopyRecord(p) \/ CopyDone(p)
  \/ DumpOpen(p) \/ DumpRecord(p) \/ DumpClose(p) \/ DumpLost(p)
  \/ Remove(p) \/ Rename(p)

Spec == Init /\ [][Next]_vars

-----------------------------------------------------------------------------
(* Properties *)

Steps == {"idle", "map", "copy", "open", "body", "remove", "rename"}

\* Types: a tool stands at one of its calls; it has a file open for writing just
\* while it dumps, and a mapping from kvsymdb_file_mapper_init to the end of the
\* scope of the mapper, which mksym has not.
ToolsOK ==
  /\ dir \in [Names -> Inodes \cup {NoInode}]
  /\ \A p \in Tools :
       /\ tool[p].pc \in Steps
       /\ tool[p].tmp \in {DbName} \cup TmpNames[p]
       /\ tool[p].at <= IF tool[p].pc = "copy" THEN tool[p].end ELSE Len(tool[p].image)
       /\ (tool[p].out # NoInode) <=> (tool[p].pc = "body")
       /\ (tool[p].map # NoInode) <=> /\ tool[p].pc \in {"copy", "open", "body"}
                                      /\ tool[p].cmd.op # "mksym"

\* kvsymdb_file_builder_dump writes the header last: whatever happens to the tool
\* that writes it, and whatever part of its writes is lost, no file has a header
\* and not the records it tells of.  A file cut short is refused by
\* kvsymdb_file_mapper_init, never read wrong.
HeaderLast == \A i \in Inodes : disk[i].hdr # NoHdr => Maps(disk[i])

\* A file that symput or symdel writes is its own: it is found under the temporary
\* name and no other, and nobody has it mapped or, as mksym does with the
\* database, writes to it too.  This needs names that differ; the code makes them
\* up from the second and the name of the database.
OwnFiles ==
  /\ \A m, n \in Names : dir[m] = dir[n] /\ dir[m] # NoInode => m = n
  /\ \A p \in Tools :
       tool[p].pc = "body" /\ tool[p].cmd.op # "mksym" => dir[tool[p].tmp] = tool[p].out
  /\ \A p \in Tools, n \in Names \ {DbName} : dir[n] # NoInode =>
       /\ tool[p].map # dir[n]
       /\ tool[p].cmd.op = "mksym" => tool[p].out # dir[n]

\* What a tool has mapped (MAP_SHARED) does not change under it, although others
\* replace the database meanwhile: symput and symdel write a file of their own
\* name and remove the old one.  Only mksym writes in place.
MappedStable ==
  [][(\A q \in Tools : tool[q].cmd.op # "mksym") =>
       \A p \in Tools : tool[p].map # NoInode =>
                          disk'[tool[p].map] = disk[tool[p].map]]_vars

\* Of tools that run one at a time: what symput, symdel or mksym has put in place
\* of the database is never lost, at whatever call a later tool ends; it is in the
\* database or in a temporary file that can be renamed by hand.
Recoverable ==
  last # NoImage =>
    \E n \in Names : /\ dir[n] # NoInode
                     /\ Maps(disk[dir[n]])
                     /\ Arena(disk[dir[n]]) = last

\* A dump that has returned KVSYMDB_OK has written a file that maps, since it
\* answers what it could not write with ERR_IOFWRITE: symput and symdel remove the
\* database on the strength of it.
DumpOKMeansMaps ==
  \A p \in Tools : tool[p].pc = "remove" =>
    dir[tool[p].tmp] # NoInode /\ Maps(disk[dir[tool[p].tmp]])

\* The database as the next tool will find it; between remove and rename it is
\* what the tool is about to put in place.
CurrentStore ==
  IF \E p \in Tools : tool[p].pc = "rename"
  THEN tool[CHOOSE p \in Tools : tool[p].pc = "rename"].image
  ELSE IF dir[DbName] # NoInode /\ Maps(disk[dir[DbName]])
  THEN Arena(disk[dir[DbName]])
  ELSE NoImage

\* The command of the tool that runs.
Request ==
  IF \E p \in Tools : tool[p].pc # "idle"
  THEN tool[CHOOSE p \in Tools : tool[p].pc # "idle"].cmd
  ELSE NoCmd

\* The old database is gone and the new one is not in place yet.
Replaces(t) == t.pc = "rename" \/ (t.pc = "body" /\ t.cmd.op = "mksym")
Replacing   == \E p \in Tools : Replaces(tool[p])

Store == INSTANCE SymStore WITH NoStore <- NoImage, NoRequest <- NoCmd, store <- CurrentStore,
                                asked <- Request, replacing <- Replacing

\* Tools that run one at a time implement the store: symput and symdel change the database
\* there is, in one step, to what their own command asks for, readsym changes nothing, and
\* nothing is lost but between remove and rename and while mksym writes in place.
ImplementsStore == Store!Spec
=============================================================================
