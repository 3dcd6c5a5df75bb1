--------------------------- MODULE SymTools_proofs ---------------------------
(***************************************************************************)
(* Any number of tools at work on one database at the same time, under     *)
(* temporary names of their own: no file has a header and not its records, *)
(* and nobody writes to what another has mapped.  Then tools that run one  *)
(* at a time, under any names: the database is never lost, and changes as  *)
(* SymStore has it.                                                        *)
(***************************************************************************)
EXTENDS SymTools, DataLemmas

Header == [fh_buflen : Nat, fh_crc32 : Seq(Entries)]

File == [hdr : Header \cup {NoHdr}, body : Seq(Entries \cup {Hole})]

Tool == [pc : Steps, cmd : Commands \cup {NoCmd}, tmp : Names,
         map : Inodes \cup {NoInode}, end : Nat, out : Inodes \cup {NoInode},
         image : Seq(Entries), at : Nat]

Types ==
  /\ dir \in [Names -> Inodes \cup {NoInode}]
  /\ disk \in [Inodes -> File]
  /\ tool \in [Tools -> Tool]

\* A tool at each of its calls: what it has open and mapped, and which name it
\* writes to.
Stage(t, p) ==
  /\ t.pc = "idle" => t.cmd = NoCmd /\ t.tmp = DbName
  /\ t.pc # "idle" => t.cmd \in Commands
  /\ (t.out # NoInode) <=> (t.pc = "body")
  /\ (t.map # NoInode) <=> t.pc \in {"copy", "open", "body"} /\ t.cmd.op # "mksym"
  /\ t.at <= IF t.pc = "copy" THEN t.end ELSE Len(t.image)
  /\ t.pc \in {"map", "open"} => t.at = 0
  /\ t.cmd.op = "mksym" => t.tmp = DbName /\ t.image = <<>> /\ t.pc \in {"open", "body"}
  /\ t.pc # "idle" /\ t.cmd.op # "mksym" => t.tmp \in TmpNames[p]

\* The file of a dump that is under way has no header, and the part of the arena
\* that has been written.
Written(t) ==
  t.pc = "body" /\ t.cmd.op # "mksym" =>
    /\ disk[t.out].hdr = NoHdr
    /\ t.at <= Len(disk[t.out].body)
    /\ \A i \in 1..t.at : disk[t.out].body[i] = t.image[i]

\* Every tool stands at one of its calls with what it needs there.
Sound == Types /\ \A p \in Tools : Stage(tool[p], p)

FileInv ==
  /\ Sound
  /\ \A p \in Tools : Written(tool[p])
  /\ OwnFiles
  /\ HeaderLast

Others(p) == \A q \in Tools \ {p} : tool'[q] = tool[q]

OwnTmpNames == \A p, q \in Tools : p # q => TmpNames[p] \cap TmpNames[q] = {}

InitImagesOK == InitImages \subseteq Seq(Entries)

-----------------------------------------------------------------------------
(* Files *)

\* A file whose records are those of the image is whole once it has its header.
LEMMA HeaderCompletes ==
  ASSUME NEW f \in File, NEW image \in Seq(Entries),
         Len(image) <= Len(f.body),
         \A i \in 1..Len(image) : f.body[i] = image[i]
  PROVE  /\ WithHeader(f, image) \in File
         /\ WithHeader(f, image).hdr # NoHdr => Maps(WithHeader(f, image))
<1> DEFINE g == WithHeader(f, image)
<1>1. /\ g.hdr.fh_buflen = Len(image) /\ g.hdr.fh_crc32 = image /\ g.body = f.body
      /\ g \in File
  BY DEF WithHeader, File, Header
<1>2. Arena(g) = [i \in 1..Len(image) |-> f.body[i]]
  BY <1>1 DEF Arena
<1>3. Arena(g) = image
  BY <1>2
<1> HIDE DEF g
<1>4. g.hdr # NoHdr => Maps(g)
  BY <1>1, <1>3 DEF Maps, is_valid_file_header
<1> QED
  BY <1>1, <1>4 DEF g

\* g is f with a record at a place, and with all the rest as it is.
IsWithRecord(f, at, record, g) ==
  /\ g \in File /\ g.hdr = f.hdr
  /\ at <= Len(g.body) /\ g.body[at] = record
  /\ Len(f.body) <= Len(g.body)
  /\ \A i \in 1..Len(f.body) : i # at => g.body[i] = f.body[i]

\* Writing a record keeps the header and what is written before it.
LEMMA RecordWritten ==
  ASSUME NEW f \in File, NEW at \in Nat \ {0}, NEW record \in Entries
  PROVE  IsWithRecord(f, at, record, WithRecord(f, at, record))
<1> DEFINE len == IF at < Len(f.body) THEN Len(f.body) ELSE at
           body == [i \in 1..len |-> IF i = at THEN record
                                     ELSE IF i <= Len(f.body) THEN f.body[i] ELSE Hole]
           g == WithRecord(f, at, record)
<1>1. len \in Nat /\ at <= len /\ Len(f.body) <= len /\ Len(f.body) \in Nat
  BY DEF File
<1>2. \A i \in 1..len : body[i] \in Entries \cup {Hole}
  BY <1>1 DEF File
<1> HIDE DEF len
<1>3. body \in Seq(Entries \cup {Hole}) /\ Len(body) = len
  BY <1>1, <1>2
<1>4. body[at] = record /\ \A i \in 1..Len(f.body) : i # at => body[i] = f.body[i]
  BY <1>1
<1>5. g = [hdr |-> f.hdr, body |-> body]
  BY DEF WithRecord, len
<1> HIDE DEF body, g, len
<1>6. g.hdr = f.hdr /\ g.body = body
  BY <1>5
<1>7. g \in File
  BY <1>3, <1>5 DEF File
<1>8. IsWithRecord(f, at, record, g)
  BY <1>1, <1>3, <1>4, <1>6, <1>7 DEF IsWithRecord
<1> QED
  BY <1>8 DEF g

\* A file without a header, with the first k records of an image.
HasFirst(f, image, k) ==
  /\ f \in File /\ f.hdr = NoHdr
  /\ k \in Nat /\ k <= Len(f.body)
  /\ \A i \in 1..k : f.body[i] = image[i]

\* The next record of an image, behind those that are written.
LEMMA NextRecordWritten ==
  ASSUME NEW f, NEW g, NEW image, NEW k, NEW at, HasFirst(f, image, k), at = k + 1,
         image[at] \in Entries, g = WithRecord(f, at, image[at])
  PROVE  HasFirst(g, image, at)
<1> DEFINE record == image[at]
<1>1. /\ record \in Entries /\ Len(f.body) \in Nat /\ g = WithRecord(f, at, record)
      /\ f \in File /\ at \in Nat \ {0} /\ at <= Len(f.body) + 1 /\ k \in Nat
      /\ \A i \in 1..k : f.body[i] = image[i]
  BY DEF HasFirst, File
<1> HIDE DEF record
<1>2. IsWithRecord(f, at, record, g)
  <2>1. IsWithRecord(f, at, record, WithRecord(f, at, record))
    BY <1>1, RecordWritten
  <2> QED
    BY <1>1, <2>1
<1>3. k <= Len(f.body) /\ f.hdr = NoHdr
  BY DEF HasFirst
<1>4. \A i \in 1..at : g.body[i] = image[i]
  BY <1>1, <1>2, <1>3 DEF record, IsWithRecord
<1> QED
  BY <1>1, <1>2, <1>3, <1>4 DEF HasFirst, IsWithRecord

-----------------------------------------------------------------------------
(* What a step makes of the tool that takes it *)

\* The length of no entries.
LEMMA LenEmpty == Len(<<>>) = 0 /\ 0 <= Len(<<>>)
  OBVIOUS

\* A tool that has opened nothing, wherever it stands.
LEMMA FreshStage ==
  ASSUME NEW p \in Tools, NEW pc \in {"idle", "map", "open"}, NEW cmd, NEW tmp,
         IF pc = "idle" THEN cmd = NoCmd /\ tmp = DbName
         ELSE /\ cmd \in Commands
              /\ IF cmd.op = "mksym" THEN pc = "open" /\ tmp = DbName
                                     ELSE pc = "map" /\ tmp \in TmpNames[p]
  PROVE  LET t == Fresh(pc, cmd, tmp) IN
         t \in Tool /\ Stage(t, p) /\ t.pc = pc /\ t.map = NoInode
<1> DEFINE t == Fresh(pc, cmd, tmp)
<1>1. /\ t.pc = pc /\ t.cmd = cmd /\ t.tmp = tmp /\ t.map = NoInode
      /\ t.out = NoInode /\ t.image = <<>> /\ t.at = 0
  BY DEF Fresh
<1>2. t \in Tool
  BY DEF Fresh, Tool, Steps, Names
<1> HIDE DEF t
<1>3. Stage(t, p)
  BY <1>1, LenEmpty DEF Stage, NoCmd
<1> QED
  BY <1>1, <1>2, <1>3 DEF t

\* What a step of one tool makes of the others and of their types.
LEMMA OneTool ==
  ASSUME Sound, NEW p \in Tools, NEW t \in Tool, tool' = [tool EXCEPT ![p] = t]
  PROVE  tool' \in [Tools -> Tool] /\ tool'[p] = t /\ Others(p)
BY DEF Sound, Types, Others

\* A tool that has started has opened nothing and copied nothing.
LEMMA StartTool ==
  ASSUME Sound, NEW p \in Tools, NEW cmd \in Commands, Start(p, cmd)
  PROVE  /\ tool' \in [Tools -> Tool] /\ Stage(tool'[p], p) /\ Others(p)
         /\ tool'[p].cmd = cmd /\ tool'[p].map = NoInode
         /\ tool'[p].pc = IF cmd.op = "mksym" THEN "open" ELSE "map"
         /\ tool'[p].image = <<>> /\ tool'[p].at = 0
<1>1. PICK pc \in {"map", "open"}, tmp \in Names :
        /\ tool' = [tool EXCEPT ![p] = Fresh(pc, cmd, tmp)]
        /\ IF cmd.op = "mksym" THEN pc = "open" /\ tmp = DbName
                               ELSE pc = "map" /\ tmp \in TmpNames[p]
  BY DEF Start, Names
<1> DEFINE t == Fresh(pc, cmd, tmp)
<1>2. t \in Tool /\ Stage(t, p) /\ t.pc = pc /\ t.map = NoInode
  BY <1>1, FreshStage
<1>3. t.cmd = cmd /\ t.image = <<>> /\ t.at = 0
  BY DEF Fresh
<1>4. tool' = [tool EXCEPT ![p] = t]
  BY <1>1
<1> HIDE DEF t
<1>5. tool' \in [Tools -> Tool] /\ tool'[p] = t /\ Others(p)
  BY <1>2, <1>4, OneTool
<1> QED
  BY <1>1, <1>2, <1>3, <1>5

\* A tool that has ended has nothing open.
LEMMA IdleTool ==
  ASSUME Sound, NEW p \in Tools, tool' = [tool EXCEPT ![p] = Idle]
  PROVE  /\ tool' \in [Tools -> Tool] /\ Stage(tool'[p], p) /\ Others(p)
         /\ tool'[p] = Idle /\ Idle.pc = "idle" /\ Idle.map = NoInode /\ Idle.cmd = NoCmd
<1>1. Idle \in Tool /\ Stage(Idle, p) /\ Idle.pc = "idle" /\ Idle.map = NoInode
  BY FreshStage DEF Idle
<1>2. Idle.cmd = NoCmd
  BY DEF Idle, Fresh
<1> QED
  BY <1>1, <1>2, OneTool

\* kvsymdb_file_mapper_init keeps the file and the length that its header tells.
LEMMA MapTool ==
  ASSUME Sound, NEW p \in Tools, Map(p)
  PROVE  LET t == tool'[p] IN
         /\ tool' \in [Tools -> Tool] /\ Stage(t, p) /\ Others(p)
         /\ t.pc = "copy" /\ t.cmd = tool[p].cmd /\ t.tmp = tool[p].tmp /\ t.map = dir[DbName]
         /\ t.end = disk[dir[DbName]].hdr.fh_buflen /\ t.at = 0 /\ t.image = tool[p].image
<1> DEFINE f == disk[dir[DbName]]
           t == [tool[p] EXCEPT !.pc = "copy", !.map = dir[DbName],
                                !.end = disk[dir[DbName]].hdr.fh_buflen]
<1>1. tool' = [tool EXCEPT ![p] = t]
  BY DEF Map
<1>2. dir[DbName] \in Inodes /\ f \in File
  BY DEF Map, Sound, Types, Names
<1>3. f.hdr.fh_buflen \in Nat
  BY <1>2 DEF Map, Maps, is_valid_file_header, File, Header
<1>4. tool[p] \in Tool /\ Stage(tool[p], p) /\ tool[p].pc = "map"
  BY DEF Map, Sound, Types
<1>5. t \in Tool /\ t.pc = "copy" /\ t.map = dir[DbName]
  BY <1>2, <1>3, <1>4 DEF Tool, Steps
<1>6. Stage(t, p)
  BY <1>2, <1>3, <1>4, NamesAssumption DEF Tool, Stage
<1>7. /\ t.cmd = tool[p].cmd /\ t.tmp = tool[p].tmp /\ t.end = f.hdr.fh_buflen
      /\ t.at = 0 /\ t.image = tool[p].image
  BY <1>4 DEF Tool, Stage
<1> HIDE DEF t
<1>8. tool' \in [Tools -> Tool] /\ tool'[p] = t /\ Others(p)
  BY <1>1, <1>5, OneTool
<1> QED
  BY <1>5, <1>6, <1>7, <1>8

\* One record more is copied, or left out.
LEMMA CopyRecordTool ==
  ASSUME Sound, NEW p \in Tools, CopyRecord(p)
  PROVE  LET t    == tool'[p]
             at   == tool[p].at + 1
             body == disk[tool[p].map].body
         IN
         /\ tool' \in [Tools -> Tool] /\ Stage(t, p) /\ Others(p)
         /\ tool[p].map \in Inodes /\ tool[p].cmd.op # "mksym"
         /\ at \in 1..Len(body) /\ body[at] \in Entries
         /\ t.pc = "copy" /\ t.cmd = tool[p].cmd /\ t.tmp = tool[p].tmp /\ t.map = tool[p].map
         /\ t.end = tool[p].end /\ t.at = at
         /\ t.image = CopyEntry(tool[p].image, body[at], tool[p].cmd.key)
<1> DEFINE at    == tool[p].at + 1
           body  == disk[tool[p].map].body
           image == CopyEntry(tool[p].image, body[at], tool[p].cmd.key)
           t     == [tool[p] EXCEPT !.at = at, !.image = image]
<1>1. tool' = [tool EXCEPT ![p] = t]
  BY DEF CopyRecord
<1>2. tool[p] \in Tool /\ Stage(tool[p], p)
  BY DEF Sound, Types
<1>3. tool[p].pc = "copy" /\ tool[p].cmd.op # "mksym" /\ tool[p].map \in Inodes
  BY <1>2 DEF CopyRecord, Stage, Tool
<1>4. at \in 1..Len(body) /\ body[at] \in Entries
  <2>1. body \in Seq(Entries \cup {Hole})
    BY <1>3 DEF Sound, Types, File
  <2>2. at \in 1..Len(body) /\ body[at] # Hole
    BY <1>2, <2>1 DEF CopyRecord, Tool
  <2> QED
    BY <2>1, <2>2
<1>5. image \in Seq(Entries)
  BY <1>2, <1>4 DEF CopyEntry, Tool
<1>6. at \in Nat /\ at <= tool[p].end
  BY <1>2 DEF CopyRecord, Tool
<1> HIDE DEF at, body, image
<1>7. t \in Tool /\ t.pc = "copy" /\ t.map = tool[p].map
  BY <1>2, <1>3, <1>5, <1>6 DEF Tool
<1>8. Stage(t, p)
  BY <1>2, <1>3, <1>5, <1>6 DEF Tool, Stage
<1>9. t.cmd = tool[p].cmd /\ t.tmp = tool[p].tmp /\ t.end = tool[p].end /\ t.at = at /\ t.image = image
  BY <1>2 DEF Tool
<1> HIDE DEF t
<1>10. tool' \in [Tools -> Tool] /\ tool'[p] = t /\ Others(p)
  BY <1>1, <1>7, OneTool
<1> QED
  BY <1>3, <1>4, <1>7, <1>8, <1>9, <1>10 DEF at, body, image

\* The image that is dumped: what was copied, and what symput puts.
LEMMA CopyDoneTool ==
  ASSUME Sound, NEW p \in Tools, CopyDone(p)
  PROVE  LET t     == tool'[p]
             entry == [key |-> tool[p].cmd.key, val |-> tool[p].cmd.val]
         IN
         /\ tool' \in [Tools -> Tool] /\ Stage(t, p) /\ Others(p)
         /\ tool[p].cmd.op # "mksym"
         /\ t.pc = "open" /\ t.cmd = tool[p].cmd /\ t.tmp = tool[p].tmp /\ t.map = tool[p].map
         /\ t.image = IF tool[p].cmd.op = "symput" THEN Append(tool[p].image, entry)
                                                   ELSE tool[p].image
<1> DEFINE entry == [key |-> tool[p].cmd.key, val |-> tool[p].cmd.val]
           image == IF tool[p].cmd.op = "symput" THEN Append(tool[p].image, entry)
                                                 ELSE tool[p].image
           t     == [tool[p] EXCEPT !.pc = "open", !.at = 0, !.image = image]
<1>1. tool' = [tool EXCEPT ![p] = t]
  BY DEF CopyDone
<1>2. tool[p] \in Tool /\ Stage(tool[p], p)
  BY DEF Sound, Types
<1>3. tool[p].pc = "copy" /\ tool[p].cmd.op # "mksym" /\ tool[p].cmd \in Commands
  BY <1>2 DEF CopyDone, Stage
<1>4. tool[p].cmd.op = "symput" => entry \in Entries
  BY <1>3 DEF Commands, Entries
<1> HIDE DEF entry
<1>5. image \in Seq(Entries) /\ Len(image) \in Nat
  BY <1>2, <1>4 DEF Tool
<1> HIDE DEF image
<1>6. t \in Tool /\ t.pc = "open" /\ t.map = tool[p].map
  BY <1>2, <1>3, <1>5 DEF Tool, Steps
<1>7. Stage(t, p)
  BY <1>2, <1>3, <1>5 DEF Tool, Stage
<1>8. t.cmd = tool[p].cmd /\ t.tmp = tool[p].tmp /\ t.image = image
  BY <1>2 DEF Tool
<1> HIDE DEF t
<1>9. tool' \in [Tools -> Tool] /\ tool'[p] = t /\ Others(p)
  BY <1>1, <1>6, OneTool
<1> QED
  BY <1>3, <1>6, <1>7, <1>8, <1>9 DEF image, entry

\* A tool that has opened a file for writing.
LEMMA DumpOpenTool ==
  ASSUME Sound, NEW p \in Tools, tool[p].pc = "open", NEW i \in Inodes,
         tool' = [tool EXCEPT ![p].pc = "body", ![p].out = i]
  PROVE  LET t == tool'[p] IN
         /\ tool' \in [Tools -> Tool] /\ Stage(t, p) /\ Others(p)
         /\ t.pc = "body" /\ t.out = i /\ t.map = tool[p].map /\ t.tmp = tool[p].tmp
         /\ t.cmd = tool[p].cmd /\ t.at = 0 /\ t.image = tool[p].image
<1> DEFINE t == [tool[p] EXCEPT !.pc = "body", !.out = i]
<1>1. tool' = [tool EXCEPT ![p] = t]
  OBVIOUS
<1>2. tool[p] \in Tool /\ Stage(tool[p], p) /\ i # NoInode
  BY NamesAssumption DEF Sound, Types
<1>3. t \in Tool
  BY <1>2 DEF Tool, Steps
<1>4. /\ t.pc = "body" /\ t.out = i /\ t.map = tool[p].map /\ t.tmp = tool[p].tmp
      /\ t.cmd = tool[p].cmd /\ t.at = 0 /\ t.image = tool[p].image
  BY <1>2 DEF Tool, Stage
<1> HIDE DEF t
<1>5. Stage(t, p)
  BY <1>2, <1>4 DEF Stage, Tool
<1>6. tool' \in [Tools -> Tool] /\ tool'[p] = t /\ Others(p)
  BY <1>1, <1>3, OneTool
<1> QED
  BY <1>4, <1>5, <1>6

\* A tool that has written a record: it is none of mksym's, whose arena is empty.
LEMMA DumpRecordTool ==
  ASSUME Sound, NEW p \in Tools, DumpRecord(p)
  PROVE  LET t  == tool'[p]
             at == tool[p].at + 1
         IN
         /\ tool' \in [Tools -> Tool] /\ Stage(t, p) /\ Others(p)
         /\ tool[p].cmd.op # "mksym" /\ tool[p].out \in Inodes
         /\ at \in Nat \ {0} /\ tool[p].image[at] \in Entries
         /\ t.pc = "body" /\ t.out = tool[p].out /\ t.map = tool[p].map /\ t.tmp = tool[p].tmp
         /\ t.cmd = tool[p].cmd /\ t.at = at /\ t.image = tool[p].image
<1> DEFINE at == tool[p].at + 1
           t  == [tool[p] EXCEPT !.at = at]
<1>1. tool[p].pc = "body" /\ at <= Len(tool[p].image) /\ tool' = [tool EXCEPT ![p] = t]
  BY DEF DumpRecord
<1>2. tool[p] \in Tool /\ Stage(tool[p], p)
  BY DEF Sound, Types
<1>3. at \in Nat \ {0} /\ tool[p].image \in Seq(Entries) /\ tool[p].image[at] \in Entries
  BY <1>1, <1>2 DEF Tool
<1>4. tool[p].cmd.op # "mksym" /\ tool[p].out \in Inodes
  <2>1. tool[p].image # <<>>
    BY <1>1, <1>3, LenEmpty
  <2> QED
    BY <1>1, <1>2, <2>1 DEF Stage, Tool
<1>5. t \in Tool
  BY <1>2, <1>3 DEF Tool
<1>6. /\ t.pc = "body" /\ t.out = tool[p].out /\ t.map = tool[p].map /\ t.tmp = tool[p].tmp
      /\ t.cmd = tool[p].cmd /\ t.at = at /\ t.image = tool[p].image
  BY <1>1, <1>2 DEF Tool
<1> HIDE DEF t
<1>7. Stage(t, p)
  BY <1>1, <1>2, <1>3, <1>6 DEF Stage, Tool
<1>8. tool' \in [Tools -> Tool] /\ tool'[p] = t /\ Others(p)
  BY <1>1, <1>5, OneTool
<1> QED
  BY <1>3, <1>4, <1>6, <1>7, <1>8

\* After a dump that has told of success a tool has nothing open.
LEMMA DumpedTool ==
  ASSUME Sound, NEW p \in Tools, tool[p].pc = "body", Dumped(p)
  PROVE  LET t == tool'[p] IN
         /\ tool' \in [Tools -> Tool] /\ Stage(t, p) /\ Others(p)
         /\ t.pc # "body" /\ t.map = NoInode
         /\ IF tool[p].cmd.op = "mksym" THEN t = Idle /\ t.pc = "idle"
            ELSE t.pc = "remove" /\ t.cmd = tool[p].cmd /\ t.tmp = tool[p].tmp /\ t.image = tool[p].image
<1>1. tool[p] \in Tool /\ Stage(tool[p], p)
  BY DEF Sound, Types
<1>2. CASE tool[p].cmd.op = "mksym"
  BY <1>2, IdleTool DEF Dumped
<1>3. CASE tool[p].cmd.op # "mksym"
  <2> DEFINE t == [tool[p] EXCEPT !.pc = "remove", !.map = NoInode, !.out = NoInode]
  <2>1. tool' = [tool EXCEPT ![p] = t]
    BY <1>3 DEF Dumped
  <2>2. t \in Tool /\ t.pc = "remove" /\ t.map = NoInode
    BY <1>1 DEF Tool, Steps
  <2>3. Stage(t, p)
    BY <1>1, <1>3 DEF Tool, Stage
  <2>4. t.cmd = tool[p].cmd /\ t.tmp = tool[p].tmp /\ t.image = tool[p].image
    BY <1>1 DEF Tool
  <2> HIDE DEF t
  <2>5. tool' \in [Tools -> Tool] /\ tool'[p] = t /\ Others(p)
    BY <2>1, <2>2, OneTool
  <2> QED
    BY <1>3, <2>2, <2>3, <2>4, <2>5
<1> QED
  BY <1>2, <1>3

\* A tool that has removed the database keeps its temporary name and its image.
LEMMA RemoveTool ==
  ASSUME Sound, NEW p \in Tools, Remove(p)
  PROVE  LET t == tool'[p] IN
         /\ tool' \in [Tools -> Tool] /\ Stage(t, p) /\ Others(p)
         /\ t.pc = "rename" /\ t.map = NoInode /\ t.out = NoInode
         /\ t.cmd = tool[p].cmd /\ t.tmp = tool[p].tmp /\ t.image = tool[p].image
<1> DEFINE t == [tool[p] EXCEPT !.pc = "rename"]
<1>1. tool[p].pc = "remove" /\ tool' = [tool EXCEPT ![p] = t]
  BY DEF Remove
<1>2. tool[p] \in Tool /\ Stage(tool[p], p)
  BY DEF Sound, Types
<1>3. /\ t \in Tool /\ t.pc = "rename" /\ t.map = NoInode /\ t.out = NoInode
      /\ t.cmd = tool[p].cmd /\ t.tmp = tool[p].tmp /\ t.image = tool[p].image
  BY <1>1, <1>2 DEF Tool, Steps, Stage
<1>4. Stage(t, p)
  BY <1>1, <1>2 DEF Tool, Stage
<1> HIDE DEF t
<1>5. tool' \in [Tools -> Tool] /\ tool'[p] = t /\ Others(p)
  BY <1>1, <1>3, OneTool
<1> QED
  BY <1>3, <1>4, <1>5

-----------------------------------------------------------------------------
(* Tools at the same time: steps that write no file and change no name *)

\* A step that opens nothing but the database for reading, and writes nothing.
LEMMA Quiet ==
  ASSUME FileInv, NEW p \in Tools, Others(p), dir' = dir, disk' = disk,
         tool' \in [Tools -> Tool], Stage(tool'[p], p), tool'[p].pc # "body",
         tool'[p].map \in {NoInode, tool[p].map, dir[DbName]}
  PROVE  FileInv'
<1>1. Types'
  BY DEF FileInv, Sound, Types
<1>2. \A q \in Tools : Stage(tool'[q], q)
  BY DEF FileInv, Sound, Others
<1>3. \A q \in Tools : Written(tool[q])'
  BY DEF FileInv, Sound, Others, Written
<1>4. tool'[p].out = NoInode
  BY DEF Stage
<1>5. OwnFiles'
  <2> \A n \in Names : dir[n] # NoInode /\ dir[n] = dir[DbName] => n = DbName
    BY DEF FileInv, OwnFiles, Names
  <2> QED
    BY <1>4 DEF FileInv, Sound, OwnFiles, Others
<1>6. HeaderLast'
  BY DEF FileInv, HeaderLast, Maps, Arena, is_valid_file_header
<1> QED
  BY <1>1, <1>2, <1>3, <1>5, <1>6 DEF FileInv, Sound

\* Every such step keeps the invariant.
LEMMA QuietKeeps ==
  ASSUME FileInv, NEW p \in Tools,
         \/ \E cmd \in Commands : Start(p, cmd)
         \/ End(p) \/ Map(p) \/ CopyRecord(p) \/ CopyDone(p)
  PROVE  FileInv'
<1>0. Sound
  BY DEF FileInv
<1>1. ASSUME NEW cmd \in Commands, Start(p, cmd) PROVE FileInv'
  <2>1. /\ tool' \in [Tools -> Tool] /\ Stage(tool'[p], p) /\ Others(p)
        /\ tool'[p].pc # "body" /\ tool'[p].map = NoInode
    BY <1>0, <1>1, StartTool
  <2> QED
    BY <1>1, <2>1, Quiet DEF Start
<1>2. CASE End(p)
  <2>1. /\ tool' \in [Tools -> Tool] /\ Stage(tool'[p], p) /\ Others(p)
        /\ tool'[p].pc # "body" /\ tool'[p].map = NoInode
    BY <1>0, <1>2, IdleTool DEF End
  <2> QED
    BY <1>2, <2>1, Quiet DEF End
<1>3. CASE Map(p)
  BY <1>0, <1>3, MapTool, Quiet, ZenonT(60) DEF Map
<1>4. CASE CopyRecord(p)
  BY <1>0, <1>4, CopyRecordTool, Quiet, ZenonT(30) DEF CopyRecord
<1>5. CASE CopyDone(p)
  BY <1>0, <1>5, CopyDoneTool, Quiet, ZenonT(30) DEF CopyDone
<1> QED
  BY <1>1, <1>2, <1>3, <1>4, <1>5

-----------------------------------------------------------------------------
(* Whose file it is *)

\* The temporary name of a tool that writes to one is no other tool's, and not
\* that of the database.
LEMMA OwnName ==
  ASSUME FileInv, OwnTmpNames, NEW p \in Tools, tool[p].pc # "idle",
         tool[p].cmd.op # "mksym"
  PROVE  /\ tool[p].tmp \in Names \ {DbName}
         /\ \A q \in Tools \ {p} :
              tool[q].pc # "idle" => tool[q].tmp # tool[p].tmp
<1>1. tool[p].tmp \in TmpNames[p] /\ tool[p].tmp \in Names
  BY DEF FileInv, Sound, Stage, Names
<1>2. tool[p].tmp # DbName
  BY <1>1, NamesAssumption
<1>3. ASSUME NEW q \in Tools \ {p}, tool[q].pc # "idle"
      PROVE  tool[q].tmp # tool[p].tmp
  <2>1. CASE tool[q].cmd.op = "mksym"
    BY <1>2, <2>1 DEF FileInv, Sound, Stage
  <2>2. CASE tool[q].cmd.op # "mksym"
    <3>1. tool[q].tmp \in TmpNames[q]
      BY <1>3, <2>2 DEF FileInv, Sound, Stage
    <3> QED
      BY <1>1, <3>1 DEF OwnTmpNames
  <2> QED
    BY <2>1, <2>2
<1> QED
  BY <1>1, <1>2, <1>3

\* No other tool writes to the file that symput or symdel writes.
LEMMA OwnOut ==
  ASSUME FileInv, OwnTmpNames, NEW p \in Tools, NEW q \in Tools \ {p},
         tool[p].pc = "body", tool[q].pc = "body", tool[p].cmd.op # "mksym"
  PROVE  tool[q].out # tool[p].out
<1>1. tool[p].out = dir[tool[p].tmp] /\ tool[p].out # NoInode
  BY DEF FileInv, Sound, OwnFiles, Stage
<1>2. tool[p].tmp \in Names \ {DbName} /\ tool[q].tmp # tool[p].tmp
  BY OwnName
<1>3. CASE tool[q].cmd.op = "mksym"
  BY <1>1, <1>2, <1>3 DEF FileInv, OwnFiles
<1>4. CASE tool[q].cmd.op # "mksym"
  <2>1. tool[q].out = dir[tool[q].tmp] /\ tool[q].tmp \in Names
    BY <1>4 DEF FileInv, Sound, OwnFiles, Types, Tool
  <2> QED
    BY <1>1, <1>2, <2>1 DEF FileInv, OwnFiles
<1> QED
  BY <1>3, <1>4

\* Nobody has it mapped.
LEMMA OwnUnmapped ==
  ASSUME FileInv, OwnTmpNames, NEW p \in Tools, NEW q \in Tools,
         tool[p].pc = "body", tool[p].cmd.op # "mksym"
  PROVE  tool[q].map # tool[p].out
<1>1. tool[p].out = dir[tool[p].tmp] /\ tool[p].out # NoInode
  BY DEF FileInv, Sound, OwnFiles, Stage
<1>2. tool[p].tmp \in Names \ {DbName}
  BY OwnName
<1> QED
  BY <1>1, <1>2 DEF FileInv, OwnFiles

\* The file that fopen truncates or makes.
LEMMA OwnOpened ==
  ASSUME FileInv, OwnTmpNames, NEW p \in Tools, tool[p].pc = "open", NEW i \in Inodes,
         IF dir[tool[p].tmp] # NoInode THEN i = dir[tool[p].tmp] ELSE i \notin InUse
  PROVE  /\ \A q \in Tools : /\ tool[q].pc = "body" /\ tool[q].cmd.op # "mksym"
                                  => tool[q].out # i
                             /\ tool[p].cmd.op # "mksym" => tool[q].map # i
                             /\ tool[p].cmd.op # "mksym" /\ tool[q].cmd.op = "mksym"
                                  => tool[q].out # i
         /\ \A n \in Names \ {tool[p].tmp} : dir[n] # i
<1>0. tool[p].tmp \in Names /\ i # NoInode
  BY NamesAssumption DEF FileInv, Sound, Types, Tool
<1>1. CASE i \notin InUse
  <2>1. \A q \in Tools : tool[q].map # i /\ tool[q].out # i
    BY <1>1 DEF InUse
  <2>2. \A n \in Names : dir[n] # i
    BY <1>1 DEF InUse
  <2> QED
    BY <2>1, <2>2
<1>2. CASE i = dir[tool[p].tmp]
  <2>1. \A n \in Names \ {tool[p].tmp} : dir[n] # i
    BY <1>0, <1>2 DEF FileInv, OwnFiles
  <2>2. ASSUME NEW q \in Tools, tool[q].pc = "body", tool[q].cmd.op # "mksym"
        PROVE  tool[q].out # i
    <3>1. q # p /\ tool[q].tmp \in Names /\ tool[q].out = dir[tool[q].tmp]
      BY <2>2 DEF FileInv, Sound, OwnFiles, Types, Tool
    <3>2. tool[p].tmp # tool[q].tmp
      BY <2>2, <3>1, OwnName
    <3> QED
      BY <2>1, <3>1, <3>2
  <2>3. ASSUME NEW q \in Tools, tool[p].cmd.op # "mksym"
        PROVE  tool[q].map # i /\ (tool[q].cmd.op = "mksym" => tool[q].out # i)
    <3>1. tool[p].tmp \in Names \ {DbName}
      BY <2>3, OwnName
    <3> QED
      BY <1>0, <1>2, <3>1 DEF FileInv, OwnFiles
  <2> QED
    BY <2>1, <2>2, <2>3
<1> QED
  BY <1>1, <1>2

-----------------------------------------------------------------------------
(* Steps of a dump and of the replacement *)

\* fopen of the temporary file, or of the database by mksym.
LEMMA DumpOpenKeeps ==
  ASSUME FileInv, OwnTmpNames, NEW p \in Tools, DumpOpen(p)
  PROVE  FileInv'
<1>1. PICK i \in Inodes :
        /\ IF dir[tool[p].tmp] # NoInode THEN i = dir[tool[p].tmp] ELSE i \notin InUse
        /\ dir'  = [dir EXCEPT ![tool[p].tmp] = i]
        /\ disk' = [disk EXCEPT ![i] = EmptyFile]
        /\ tool' = [tool EXCEPT ![p].pc = "body", ![p].out = i]
  BY DEF DumpOpen
<1> DEFINE t   == tool'[p]
           tmp == tool[p].tmp
<1>2. Sound /\ tool[p] \in Tool /\ Stage(tool[p], p) /\ tool[p].pc = "open" /\ tmp \in Names
  BY DEF DumpOpen, FileInv, Sound, Types, Tool
<1>5. /\ tool' \in [Tools -> Tool] /\ tool'[p] = t /\ Stage(t, p) /\ Others(p)
      /\ t.pc = "body" /\ t.out = i /\ t.map = tool[p].map /\ t.tmp = tmp
      /\ t.cmd = tool[p].cmd /\ t.at = 0 /\ t.image = tool[p].image
  BY <1>1, <1>2, DumpOpenTool
<1> HIDE DEF t
<1>7. EmptyFile \in File /\ EmptyFile.hdr = NoHdr /\ Len(EmptyFile.body) = 0
  BY DEF EmptyFile, File
<1>8. /\ dir' \in [Names -> Inodes \cup {NoInode}] /\ dir'[tmp] = i
      /\ \A n \in Names \ {tmp} : dir'[n] = dir[n]
  BY <1>1, <1>2 DEF FileInv, Sound, Types
<1>9. /\ disk' \in [Inodes -> File] /\ disk'[i] = EmptyFile
      /\ \A j \in Inodes \ {i} : disk'[j] = disk[j]
  BY <1>1, <1>7 DEF FileInv, Sound, Types
<1>10. \A n \in Names \ {tmp} : dir[n] # i
  BY <1>1, <1>2, OwnOpened
<1>11. Types'
  BY <1>5, <1>8, <1>9 DEF Types
<1>12. \A q \in Tools : Stage(tool'[q], q)
  BY <1>5 DEF FileInv, Sound, Others
<1>13. ASSUME NEW q \in Tools
       PROVE  Written(tool[q])'
  <2>1. CASE q = p
    BY <1>5, <1>7, <1>9, <2>1 DEF Written
  <2>2. CASE q # p
    <3> SUFFICES ASSUME tool[q].pc = "body", tool[q].cmd.op # "mksym"
                 PROVE  Written(tool[q])'
      BY <1>5, <2>2 DEF Others, Written
    <3>1. tool[q].out # i /\ tool[q].out \in Inodes
      BY <1>1, <1>2, OwnOpened DEF FileInv, Sound, Stage, Types, Tool
    <3> QED
      BY <1>5, <1>9, <2>2, <3>1 DEF FileInv, Sound, Others, Written
  <2> QED
    BY <2>1, <2>2
<1>14. OwnFiles'
  <2>1. \A m, n \in Names : dir'[m] = dir'[n] /\ dir'[m] # NoInode => m = n
    BY <1>8, <1>10 DEF FileInv, OwnFiles
  <2>2. ASSUME NEW q \in Tools, tool'[q].pc = "body", tool'[q].cmd.op # "mksym"
        PROVE  dir'[tool'[q].tmp] = tool'[q].out
    <3>1. CASE q = p
      BY <1>5, <1>8, <3>1
    <3>2. CASE q # p
      <4>1. tool'[q] = tool[q] /\ tool[q].tmp \in Names /\ tool[q].tmp # tmp
        BY <1>2, <1>5, <2>2, <3>2, OwnName DEF Others
      <4> QED
        BY <1>8, <2>2, <4>1 DEF FileInv, OwnFiles
    <3> QED
      BY <3>1, <3>2
  <2>3. ASSUME NEW q \in Tools, NEW n \in Names \ {DbName}, dir'[n] # NoInode
        PROVE  /\ tool'[q].map # dir'[n]
               /\ tool'[q].cmd.op = "mksym" => tool'[q].out # dir'[n]
    <3>1. /\ tool'[q].map = tool[q].map /\ tool'[q].cmd = tool[q].cmd
          /\ q # p => tool'[q].out = tool[q].out
          /\ q = p => tool'[q].out = i
      BY <1>5 DEF Others
    <3>2. CASE n = tmp
      <4>1. tool[p].cmd.op # "mksym"
        BY <1>2, <3>2 DEF Stage
      <4>2. tool[q].map # i /\ (tool[q].cmd.op = "mksym" => tool[q].out # i)
        BY <1>1, <1>2, <4>1, OwnOpened
      <4> QED
        BY <1>8, <3>1, <3>2, <4>1, <4>2
    <3>3. CASE n # tmp
      <4>1. dir'[n] = dir[n] /\ dir[n] # i
        BY <1>8, <1>10, <3>3
      <4> QED
        BY <2>3, <3>1, <4>1 DEF FileInv, OwnFiles
    <3> QED
      BY <3>2, <3>3
  <2> QED
    BY <2>1, <2>2, <2>3 DEF OwnFiles
<1>15. HeaderLast'
  <2> SUFFICES ASSUME NEW j \in Inodes, disk'[j].hdr # NoHdr PROVE Maps(disk'[j])
    BY DEF HeaderLast, Maps, Arena, is_valid_file_header
  <2> QED
    BY <1>7, <1>9 DEF FileInv, HeaderLast
<1> QED
  BY <1>11, <1>12, <1>13, <1>14, <1>15 DEF FileInv, Sound

\* A step that writes to the file a tool has open.
LEMMA DiskStep ==
  ASSUME FileInv, NEW p \in Tools, tool[p].pc = "body", NEW f \in File,
         disk' = [disk EXCEPT ![tool[p].out] = f]
  PROVE  /\ disk' \in [Inodes -> File]
         /\ tool[p].out \in Inodes /\ disk'[tool[p].out] = f
         /\ \A j \in Inodes \ {tool[p].out} : disk'[j] = disk[j]
         /\ (f.hdr # NoHdr => Maps(f)) => HeaderLast'
<1>1. tool[p].out \in Inodes
  BY DEF FileInv, Sound, Types, Tool, Stage
<1>2. /\ disk' \in [Inodes -> File] /\ disk'[tool[p].out] = f
      /\ \A j \in Inodes \ {tool[p].out} : disk'[j] = disk[j]
  BY <1>1 DEF FileInv, Sound, Types
<1>3. ASSUME f.hdr # NoHdr => Maps(f)
      PROVE  HeaderLast'
  <2> SUFFICES ASSUME NEW j \in Inodes, disk'[j].hdr # NoHdr PROVE Maps(disk'[j])
    BY DEF HeaderLast, Maps, Arena, is_valid_file_header
  <2> QED
    BY <1>2, <1>3 DEF FileInv, HeaderLast
<1> QED
  BY <1>1, <1>2, <1>3

\* Other tools' dumps do not meet it.
LEMMA OthersWritten ==
  ASSUME FileInv, OwnTmpNames, NEW p \in Tools, tool[p].pc = "body",
         NEW q \in Tools \ {p}, tool'[q] = tool[q],
         \A j \in Inodes \ {tool[p].out} : disk'[j] = disk[j]
  PROVE  Written(tool[q])'
<1> SUFFICES ASSUME tool[q].pc = "body", tool[q].cmd.op # "mksym"
             PROVE  Written(tool[q])'
  BY DEF Written
<1>1. tool[q].out # tool[p].out
  BY OwnOut
<1>2. tool[q].out \in Inodes
  BY DEF FileInv, Sound, Types, Tool, Stage
<1> QED
  BY <1>1, <1>2 DEF FileInv, Written

\* A record that reaches the file.
LEMMA DumpRecordKeeps ==
  ASSUME FileInv, OwnTmpNames, NEW p \in Tools, DumpRecord(p)
  PROVE  FileInv'
<1> DEFINE at == tool[p].at + 1
           f  == disk[tool[p].out]
           g  == WithRecord(f, at, tool[p].image[at])
           t  == tool'[p]
<1>1. /\ tool[p].pc = "body" /\ at <= Len(tool[p].image)
      /\ disk' = [disk EXCEPT ![tool[p].out] = g]
      /\ dir' = dir
  BY DEF DumpRecord
<1>2. tool[p] \in Tool /\ Stage(tool[p], p) /\ Sound
  BY DEF FileInv, Sound, Types
<1>3. /\ tool' \in [Tools -> Tool] /\ tool'[p] = t /\ Stage(t, p) /\ Others(p)
      /\ tool[p].cmd.op # "mksym" /\ tool[p].out \in Inodes
      /\ at \in Nat \ {0} /\ tool[p].image[at] \in Entries
      /\ t.pc = "body" /\ t.out = tool[p].out /\ t.map = tool[p].map /\ t.tmp = tool[p].tmp
      /\ t.cmd = tool[p].cmd /\ t.at = at /\ t.image = tool[p].image
  BY <1>2, DumpRecordTool
<1>4. f \in File
  BY <1>3 DEF FileInv, Sound, Types
<1>6. /\ f.hdr = NoHdr /\ tool[p].at <= Len(f.body)
      /\ \A i \in 1..tool[p].at : f.body[i] = tool[p].image[i]
  BY <1>1, <1>3 DEF FileInv, Written
<1>7. /\ g \in File /\ g.hdr = NoHdr
      /\ at <= Len(g.body)
      /\ \A i \in 1..at : g.body[i] = tool[p].image[i]
  <2> DEFINE image == tool[p].image
             k     == tool[p].at
  <2>1. k \in Nat
    BY <1>2 DEF Tool
  <2>2. HasFirst(f, image, k) /\ at = k + 1 /\ image[at] \in Entries /\ g = WithRecord(f, at, image[at])
    BY <1>3, <1>4, <1>6, <2>1 DEF HasFirst
  <2> HIDE DEF at, f, g, image, k
  <2>3. HasFirst(g, image, at)
    BY <2>2, NextRecordWritten
  <2> QED
    BY <2>3 DEF HasFirst, image
<1> HIDE DEF g, t
<1>13. /\ disk' \in [Inodes -> File] /\ disk'[tool[p].out] = g
       /\ \A j \in Inodes \ {tool[p].out} : disk'[j] = disk[j]
       /\ HeaderLast'
  BY <1>1, <1>7, DiskStep
<1>15. Types'
  BY <1>1, <1>3, <1>13 DEF FileInv, Sound, Types
<1>16. \A q \in Tools : Stage(tool'[q], q)
  BY <1>3 DEF FileInv, Sound, Others
<1>17. ASSUME NEW q \in Tools
       PROVE  Written(tool[q])'
  <2>1. CASE q = p
    BY <1>3, <1>7, <1>13, <2>1 DEF Written
  <2>2. CASE q # p
    BY <1>1, <1>3, <1>13, <2>2, OthersWritten DEF Others
  <2> QED
    BY <2>1, <2>2
<1>18. OwnFiles'
  <2>1. \A q \in Tools : /\ tool'[q].pc = tool[q].pc /\ tool'[q].cmd = tool[q].cmd
                         /\ tool'[q].tmp = tool[q].tmp /\ tool'[q].out = tool[q].out
                         /\ tool'[q].map = tool[q].map
    BY <1>1, <1>3 DEF Others
  <2> QED
    BY <1>1, <2>1 DEF FileInv, OwnFiles
<1> QED
  BY <1>13, <1>15, <1>16, <1>17, <1>18 DEF FileInv, Sound

\* A dump that is told to be done and whose header is lost.
LEMMA DumpLostKeeps ==
  ASSUME FileInv, NEW p \in Tools, DumpLost(p)
  PROVE  FileInv'
<1>1. tool[p].pc = "body" /\ Dumped(p) /\ disk' = disk /\ dir' = dir
  BY DEF DumpLost, Dumped
<1> QED
  BY <1>1, DumpedTool, Quiet DEF FileInv, Sound

\* fclose, which writes the header.
LEMMA DumpCloseKeeps ==
  ASSUME FileInv, OwnTmpNames, NEW p \in Tools, DumpClose(p)
  PROVE  FileInv'
<1> DEFINE f == disk[tool[p].out]
           g == WithHeader(f, tool[p].image)
<1>1. /\ tool[p].pc = "body" /\ tool[p].at = Len(tool[p].image) /\ Dumped(p)
      /\ disk' = [disk EXCEPT ![tool[p].out] = g] /\ dir' = dir
  BY DEF DumpClose, Dumped
<1>2. tool[p] \in Tool /\ Stage(tool[p], p)
  BY DEF FileInv, Sound, Types
<1>3. f \in File /\ tool[p].image \in Seq(Entries)
  BY <1>1, <1>2 DEF FileInv, Sound, Types, Stage, Tool
<1>4. /\ Len(tool[p].image) <= Len(f.body)
      /\ \A i \in 1..Len(tool[p].image) : f.body[i] = tool[p].image[i]
  <2>1. CASE tool[p].cmd.op = "mksym"
    <3>1. Len(tool[p].image) = 0
      BY <1>2, <2>1, LenEmpty DEF Stage
    <3>2. Len(f.body) \in Nat
      BY <1>3 DEF File
    <3> QED
      BY <3>1, <3>2
  <2>2. CASE tool[p].cmd.op # "mksym"
    BY <1>1, <2>2 DEF FileInv, Written
  <2> QED
    BY <2>1, <2>2
<1> HIDE DEF f
<1>5. g \in File /\ (g.hdr # NoHdr => Maps(g))
  BY <1>3, <1>4, HeaderCompletes
<1> HIDE DEF g
<1>6. /\ disk' \in [Inodes -> File]
      /\ \A j \in Inodes \ {tool[p].out} : disk'[j] = disk[j]
      /\ HeaderLast'
  BY <1>1, <1>5, DiskStep
<1>7. /\ tool' \in [Tools -> Tool] /\ Stage(tool'[p], p) /\ Others(p)
      /\ tool'[p].pc # "body" /\ tool'[p].map = NoInode
  BY <1>1, DumpedTool DEF FileInv
<1>8. Types'
  BY <1>1, <1>6, <1>7 DEF FileInv, Sound, Types
<1>9. \A q \in Tools : Stage(tool'[q], q)
  BY <1>7 DEF FileInv, Sound, Others
<1>10. ASSUME NEW q \in Tools
       PROVE  Written(tool[q])'
  <2>1. CASE q = p
    BY <1>7, <2>1 DEF Written
  <2>2. CASE q # p
    BY <1>1, <1>6, <1>7, <2>2, OthersWritten DEF Others
  <2> QED
    BY <2>1, <2>2
<1>11. OwnFiles'
  <2>1. tool'[p].out = NoInode
    BY <1>7 DEF Stage
  <2> QED
    BY <1>1, <1>7, <2>1 DEF FileInv, Sound, OwnFiles, Others
<1> QED
  BY <1>6, <1>8, <1>9, <1>10, <1>11 DEF FileInv, Sound

\* remove of the database.
LEMMA RemoveKeeps ==
  ASSUME FileInv, OwnTmpNames, NEW p \in Tools, Remove(p)
  PROVE  FileInv'
<1> DEFINE t == tool'[p]
<1>1. tool[p].pc = "remove" /\ disk' = disk /\ dir' = [dir EXCEPT ![DbName] = NoInode]
  BY DEF Remove
<1>5. /\ tool' \in [Tools -> Tool] /\ tool'[p] = t /\ Stage(t, p) /\ Others(p)
      /\ t.pc = "rename" /\ t.map = NoInode /\ t.out = NoInode
  BY RemoveTool DEF FileInv
<1> HIDE DEF t
<1>6. /\ dir' \in [Names -> Inodes \cup {NoInode}] /\ dir'[DbName] = NoInode
      /\ \A n \in Names \ {DbName} : dir'[n] = dir[n]
  BY <1>1 DEF FileInv, Sound, Types, Names
<1>7. Types'
  BY <1>1, <1>5, <1>6 DEF FileInv, Sound, Types
<1>8. \A q \in Tools : Stage(tool'[q], q)
  BY <1>5 DEF FileInv, Sound, Others
<1>9. \A q \in Tools : Written(tool[q])'
  BY <1>1, <1>5 DEF FileInv, Sound, Others, Written
<1>10. OwnFiles'
  <2>1. \A m, n \in Names : dir'[m] = dir'[n] /\ dir'[m] # NoInode => m = n
    BY <1>6 DEF FileInv, OwnFiles
  <2>2. ASSUME NEW q \in Tools, tool'[q].pc = "body", tool'[q].cmd.op # "mksym"
        PROVE  dir'[tool'[q].tmp] = tool'[q].out
    <3>1. tool'[q] = tool[q] /\ tool[q].tmp \in Names \ {DbName}
      BY <1>5, <2>2, OwnName DEF Others
    <3> QED
      BY <1>6, <2>2, <3>1 DEF FileInv, OwnFiles
  <2>3. \A q \in Tools, n \in Names \ {DbName} : dir'[n] # NoInode =>
          tool'[q].map # dir'[n] /\ (tool'[q].cmd.op = "mksym" => tool'[q].out # dir'[n])
    BY <1>5, <1>6 DEF FileInv, Sound, OwnFiles, Others
  <2> QED
    BY <2>1, <2>2, <2>3 DEF OwnFiles
<1>11. HeaderLast'
  BY <1>1 DEF FileInv, HeaderLast, Maps, Arena, is_valid_file_header
<1> QED
  BY <1>7, <1>8, <1>9, <1>10, <1>11 DEF FileInv, Sound

\* rename of the temporary file to the database.
LEMMA RenameKeeps ==
  ASSUME FileInv, OwnTmpNames, NEW p \in Tools, Rename(p)
  PROVE  FileInv'
<1> DEFINE tmp == tool[p].tmp
<1>1. /\ tool[p].pc = "rename" /\ disk' = disk /\ dir[tmp] # NoInode
      /\ dir' = [dir EXCEPT ![DbName] = dir[tmp], ![tmp] = NoInode]
      /\ tool' = [tool EXCEPT ![p] = Idle]
  BY DEF Rename
<1>2. tool[p].cmd.op # "mksym"
  BY <1>1 DEF FileInv, Sound, Stage
<1>3. tmp \in Names \ {DbName}
  BY <1>1, <1>2, OwnName
<1>5. Idle.out = NoInode
  BY DEF Idle, Fresh
<1>6. /\ tool' \in [Tools -> Tool] /\ tool'[p] = Idle /\ Stage(Idle, p) /\ Others(p)
      /\ Idle.pc = "idle" /\ Idle.map = NoInode
  BY <1>1, IdleTool DEF FileInv
<1>7. /\ dir' \in [Names -> Inodes \cup {NoInode}]
      /\ dir'[DbName] = dir[tmp] /\ dir'[tmp] = NoInode
      /\ \A n \in Names \ {DbName, tmp} : dir'[n] = dir[n]
  BY <1>1, <1>3 DEF FileInv, Sound, Types, Names
<1>8. Types'
  BY <1>1, <1>6, <1>7 DEF FileInv, Sound, Types
<1>9. \A q \in Tools : Stage(tool'[q], q)
  BY <1>6 DEF FileInv, Sound, Others
<1>10. \A q \in Tools : Written(tool[q])'
  BY <1>1, <1>6 DEF FileInv, Sound, Others, Written
<1>11. OwnFiles'
  <2>1. \A m, n \in Names : dir'[m] = dir'[n] /\ dir'[m] # NoInode => m = n
    BY <1>3, <1>7 DEF FileInv, OwnFiles
  <2>2. ASSUME NEW q \in Tools, tool'[q].pc = "body", tool'[q].cmd.op # "mksym"
        PROVE  dir'[tool'[q].tmp] = tool'[q].out
    <3>1. q # p /\ tool'[q] = tool[q]
      BY <1>6, <2>2 DEF Others
    <3>2. tool[q].tmp \in Names \ {DbName} /\ tool[q].tmp # tmp
      BY <1>1, <1>2, <2>2, <3>1, OwnName
    <3> QED
      BY <1>7, <2>2, <3>1, <3>2 DEF FileInv, OwnFiles
  <2>3. \A q \in Tools, n \in Names \ {DbName} : dir'[n] # NoInode =>
          tool'[q].map # dir'[n] /\ (tool'[q].cmd.op = "mksym" => tool'[q].out # dir'[n])
    BY <1>5, <1>6, <1>7 DEF FileInv, Sound, OwnFiles, Others
  <2> QED
    BY <2>1, <2>2, <2>3 DEF OwnFiles
<1>12. HeaderLast'
  BY <1>1 DEF FileInv, HeaderLast, Maps, Arena, is_valid_file_header
<1> QED
  BY <1>8, <1>9, <1>10, <1>11, <1>12 DEF FileInv, Sound

-----------------------------------------------------------------------------
(* The theorems *)

\* The invariant holds in the beginning, whatever the database.
LEMMA InitEstablishes ==
  ASSUME InitImagesOK, Init
  PROVE  FileInv
<1>1. EmptyFile \in File /\ EmptyFile.hdr = NoHdr
  BY DEF EmptyFile, File
<1>2. \A p \in Tools : Idle \in Tool /\ Stage(Idle, p) /\ Idle.pc = "idle" /\ Idle.map = NoInode
  BY FreshStage DEF Idle
<1>3. Idle.out = NoInode
  BY DEF Idle, Fresh
<1>4. tool = [p \in Tools |-> Idle]
  BY DEF Init
<1>5. /\ dir \in [Names -> Inodes \cup {NoInode}]
      /\ \A n \in Names \ {DbName} : dir[n] = NoInode
  BY DEF Init, Names
<1>6. disk \in [Inodes -> File] /\ HeaderLast
  <2> PICK image \in InitImages \cup {NoImage}, i \in Inodes :
        disk = IF image = NoImage THEN [j \in Inodes |-> EmptyFile]
               ELSE [j \in Inodes |->
                       IF j = i THEN WithHeader([hdr |-> NoHdr, body |-> image], image)
                                ELSE EmptyFile]
    BY DEF Init
  <2>1. CASE image = NoImage
    BY <1>1, <2>1 DEF HeaderLast
  <2>2. CASE image # NoImage
    <3> DEFINE f == [hdr |-> NoHdr, body |-> image]
               g == WithHeader(f, image)
    <3>1. image \in Seq(Entries)
      BY <2>2 DEF InitImagesOK
    <3>2. f \in File /\ f.body = image
      BY <3>1 DEF File
    <3> HIDE DEF f
    <3>3. g \in File /\ (g.hdr # NoHdr => Maps(g))
      BY <3>1, <3>2, HeaderCompletes
    <3>4. disk = [j \in Inodes |-> IF j = i THEN g ELSE EmptyFile]
      BY <2>2 DEF f
    <3> HIDE DEF g
    <3> QED
      BY <1>1, <3>3, <3>4 DEF HeaderLast
  <2> QED
    BY <2>1, <2>2
<1>7. Types
  BY <1>2, <1>4, <1>5, <1>6 DEF Types
<1>8. \A p \in Tools : Stage(tool[p], p) /\ Written(tool[p])
  BY <1>2, <1>4 DEF Written
<1>9. OwnFiles
  BY <1>2, <1>3, <1>4, <1>5 DEF OwnFiles
<1> QED
  BY <1>6, <1>7, <1>8, <1>9 DEF FileInv, Sound

\* The invariant is inductive.
LEMMA NextKeeps ==
  ASSUME FileInv, OwnTmpNames, [Next]_vars
  PROVE  FileInv'
<1>1. CASE UNCHANGED vars
  BY <1>1 DEF vars, FileInv, Sound, Types, Written, OwnFiles, HeaderLast, Maps, Arena,
              is_valid_file_header
<1>2. ASSUME NEW p \in Tools,
             \/ \E cmd \in Commands : Start(p, cmd)
             \/ End(p) \/ Map(p) \/ CopyRecord(p) \/ CopyDone(p)
      PROVE  FileInv'
  BY <1>2, QuietKeeps
<1>7. ASSUME NEW p \in Tools, DumpOpen(p) PROVE FileInv'
  BY <1>7, DumpOpenKeeps
<1>8. ASSUME NEW p \in Tools, DumpRecord(p) PROVE FileInv'
  BY <1>8, DumpRecordKeeps
<1>9. ASSUME NEW p \in Tools, DumpClose(p) PROVE FileInv'
  BY <1>9, DumpCloseKeeps
<1>10. ASSUME NEW p \in Tools, DumpLost(p) PROVE FileInv'
  BY <1>10, DumpLostKeeps
<1>11. ASSUME NEW p \in Tools, Remove(p) PROVE FileInv'
  BY <1>11, RemoveKeeps
<1>12. ASSUME NEW p \in Tools, Rename(p) PROVE FileInv'
  BY <1>12, RenameKeeps
<1> QED
  BY <1>1, <1>2, <1>7, <1>8, <1>9, <1>10, <1>11, <1>12 DEF Next

\* The inductive invariant of the file system and the tools.
THEOREM FileInvariance ==
  ASSUME OwnTmpNames, InitImagesOK
  PROVE  Spec => []FileInv
<1>1. Init => FileInv
  BY InitEstablishes
<1>2. FileInv /\ [Next]_vars => FileInv'
  BY NextKeeps
<1> QED
  BY <1>1, <1>2, PTL DEF Spec

\* Types: what each tool has open, mapped and copied fits the call it stands at.
THEOREM ToolsTyped ==
  ASSUME OwnTmpNames, InitImagesOK
  PROVE  Spec => []ToolsOK
<1>1. ASSUME FileInv, NEW p \in Tools
      PROVE  tool[p].tmp \in {DbName} \cup TmpNames[p]
  BY <1>1 DEF FileInv, Sound, Stage
<1>2. FileInv => ToolsOK
  BY <1>1 DEF FileInv, Sound, Types, Stage, Tool, ToolsOK
<1> QED
  BY <1>2, FileInvariance, PTL

\* kvsymdb_file_builder_dump writes the header last: however many tools are at
\* work, wherever each ends and whatever part of its writes is lost, a file with a
\* header has all its records.
THEOREM FilesWhole ==
  ASSUME OwnTmpNames, InitImagesOK
  PROVE  Spec => []HeaderLast
<1>1. FileInv => HeaderLast
  BY DEF FileInv
<1> QED
  BY <1>1, FileInvariance, PTL

\* A file that symput or symdel writes is its own.
THEOREM FilesOwned ==
  ASSUME OwnTmpNames, InitImagesOK
  PROVE  Spec => []OwnFiles
<1>1. FileInv => OwnFiles
  BY DEF FileInv
<1> QED
  BY <1>1, FileInvariance, PTL

\* No step changes a file that a tool has mapped, as long as mksym is not at work.
THEOREM MappingsStable ==
  ASSUME OwnTmpNames, InitImagesOK
  PROVE  Spec => MappedStable
<1> DEFINE NoMksym == \A q \in Tools : tool[q].cmd.op # "mksym"
           Same == \A p \in Tools : tool[p].map # NoInode =>
                     disk'[tool[p].map] = disk[tool[p].map]
<1>1. ASSUME FileInv, [Next]_vars, NoMksym PROVE Same
  <2>1. CASE disk' = disk
    BY <2>1
  <2>2. ASSUME NEW p \in Tools, DumpOpen(p) PROVE Same
    <3>1. PICK i \in Inodes :
            /\ IF dir[tool[p].tmp] # NoInode THEN i = dir[tool[p].tmp] ELSE i \notin InUse
            /\ disk' = [disk EXCEPT ![i] = EmptyFile]
      BY <2>2 DEF DumpOpen
    <3>2. \A q \in Tools : tool[q].map # i
      BY <1>1, <2>2, <3>1, OwnOpened DEF DumpOpen
    <3> QED
      BY <1>1, <3>1, <3>2 DEF FileInv, Sound, Types
  <2>3. ASSUME NEW p \in Tools, tool[p].pc = "body", NEW f,
               disk' = [disk EXCEPT ![tool[p].out] = f]
        PROVE  Same
    <3>1. \A q \in Tools : tool[q].map # tool[p].out
      BY <1>1, <2>3, OwnUnmapped
    <3> QED
      BY <1>1, <2>3, <3>1 DEF FileInv, Sound, Types
  <2>4. ASSUME NEW p \in Tools, DumpRecord(p) PROVE Same
    BY <2>3, <2>4 DEF DumpRecord
  <2>5. ASSUME NEW p \in Tools, DumpClose(p) PROVE Same
    BY <2>3, <2>5 DEF DumpClose
  <2>6. ASSUME NEW p \in Tools,
               \/ \E cmd \in Commands : Start(p, cmd)
               \/ End(p) \/ Map(p) \/ CopyRecord(p) \/ CopyDone(p) \/ DumpLost(p)
               \/ Remove(p) \/ Rename(p)
        PROVE  disk' = disk
    BY <2>6 DEF Start, End, Map, CopyRecord, CopyDone, DumpLost, Remove, Rename
  <2>7. CASE UNCHANGED vars
    BY <2>1, <2>7 DEF vars
  <2> QED
    BY <1>1, <2>1, <2>2, <2>4, <2>5, <2>6, <2>7 DEF Next
<1>2. FileInv /\ [Next]_vars => [NoMksym => Same]_vars
  BY <1>1
<1> QED
  BY <1>2, FileInvariance, PTL DEF Spec, MappedStable

-----------------------------------------------------------------------------
(* Tools one at a time, under any temporary names *)

Alone == \A p, q \in Tools : tool[p].pc # "idle" /\ tool[q].pc # "idle" => p = q

NamesApart == \A m, n \in Names : dir[m] = dir[n] /\ dir[m] # NoInode => m = n

\* The file of a name maps, and this is its arena.
Holds(n, image) == dir[n] # NoInode /\ Maps(disk[dir[n]]) /\ Arena(disk[dir[n]]) = image

DbArena == Arena(disk[dir[DbName]])

\* A tool at work on the only database: what it has copied, then what it has
\* written, then what it has put in place of it.
Doing(t) ==
  /\ t.cmd.op = "readsym" => t.pc \in {"map", "copy"}
  /\ t.pc = "map" => t.image = <<>>
  /\ t.pc \in {"copy", "open", "body", "remove"} /\ t.cmd.op # "mksym" =>
       dir[DbName] # NoInode /\ Maps(disk[dir[DbName]])
  /\ t.pc = "copy" /\ t.cmd.op # "readsym" =>
       /\ t.map = dir[DbName] /\ t.end = Len(DbArena)
       /\ t.image = Store!Without(SubSeq(DbArena, 1, t.at), t.cmd.key)
  /\ t.pc \in {"open", "body", "remove"} /\ t.cmd.op # "mksym" => t.image = Store!Result(t.cmd, DbArena)
  /\ t.pc = "body" =>
       /\ dir[t.tmp] = t.out /\ disk[t.out].hdr = NoHdr
       /\ t.at <= Len(disk[t.out].body)
       /\ \A i \in 1..t.at : disk[t.out].body[i] = t.image[i]
  /\ t.pc = "remove" => Holds(t.tmp, t.image)
  /\ t.pc = "rename" => dir[DbName] = NoInode /\ Holds(t.tmp, t.image) /\ last = t.image

\* What was put in place last is the database, or there is none and it is under
\* another name.
Kept ==
  last # NoImage =>
    IF dir[DbName] # NoInode THEN Holds(DbName, last) ELSE \E n \in Names : Holds(n, last)

AloneInv ==
  /\ Sound
  /\ Alone
  /\ NamesApart
  /\ \A p \in Tools : Doing(tool[p])
  /\ Kept

\* What the tools are asked for and the database change as SymStore has it, or not at all.
StoreStep == [Store!Next]_(Store!vars)

-----------------------------------------------------------------------------
(* The store *)

\* The store selects as Selections has it.
LEMMA SameSelection == \A s, S : Store!Selection(s, S) = Selection(s, S)
  BY DEF Selection, Store!Selection

\* What symput and symdel leave out.
LEMMA WithoutEmpty ==
  ASSUME NEW key
  PROVE  Store!Without(<<>>, key) = <<>>
BY SameSelection, SelectionEmpty DEF Store!Without

\* One entry more is copied, or left out, as CopyEntry has it.
LEMMA WithoutAppend ==
  ASSUME NEW s \in Seq(Entries), NEW e \in Entries, NEW key
  PROVE  Store!Without(Append(s, e), key) = CopyEntry(Store!Without(s, key), e, key)
<1> DEFINE S == {x \in Store!Entries : x.key # key}
<1>1. e \in S <=> e.key # key
  BY DEF Entries, Store!Entries
<1> HIDE DEF S
<1>2. Selection(Append(s, e), S) = IF e \in S THEN Append(Selection(s, S), e) ELSE Selection(s, S)
  BY SelectionAppend
<1>3. Store!Without(Append(s, e), key) = Selection(Append(s, e), S) /\ Store!Without(s, key) = Selection(s, S)
  BY SameSelection DEF Store!Without, S
<1> QED
  BY <1>1, <1>2, <1>3 DEF CopyEntry

\* The arena of a file that maps is the one its header tells of.
LEMMA ArenaType ==
  ASSUME NEW f \in File, Maps(f)
  PROVE  /\ Arena(f) \in Seq(Entries) /\ f.hdr.fh_buflen \in Nat
         /\ Len(Arena(f)) = f.hdr.fh_buflen /\ f.hdr.fh_buflen <= Len(f.body)
         /\ \A i \in 1..f.hdr.fh_buflen : Arena(f)[i] = f.body[i]
<1>1. f.hdr \in Header /\ Arena(f) = f.hdr.fh_crc32 /\ f.hdr.fh_buflen <= Len(f.body)
  BY DEF Maps, is_valid_file_header, File
<1>2. f.hdr.fh_buflen \in Nat /\ f.hdr.fh_crc32 \in Seq(Entries)
  BY <1>1 DEF Header
<1>3. Arena(f) = [i \in 1..f.hdr.fh_buflen |-> f.body[i]]
  BY DEF Arena
<1>4. Len(Arena(f)) = f.hdr.fh_buflen
  <2> DEFINE n == f.hdr.fh_buflen
  <2>1. Arena(f) \in Seq(Entries) /\ DOMAIN Arena(f) = 1..n /\ n \in Nat
    BY <1>1, <1>2, <1>3
  <2> HIDE DEF n
  <2>2. Len(Arena(f)) = n
    BY <2>1
  <2> QED
    BY <2>2 DEF n
<1> QED
  BY <1>1, <1>2, <1>3, <1>4

\* The header makes a file whole that has all its records.
LEMMA HeaderHolds ==
  ASSUME NEW f \in File, NEW image \in Seq(Entries),
         Len(image) <= Len(f.body),
         \A i \in 1..Len(image) : f.body[i] = image[i]
  PROVE  LET g == WithHeader(f, image) IN g \in File /\ Maps(g) /\ Arena(g) = image
<1> DEFINE g == WithHeader(f, image)
<1>1. g.hdr = [fh_buflen |-> Len(image), fh_crc32 |-> image]
  BY DEF WithHeader
<1>2. g.hdr # NoHdr
  BY <1>1, NoneAssumption
<1>3. g \in File /\ (g.hdr # NoHdr => Maps(g))
  BY HeaderCompletes
<1>4. g.hdr.fh_crc32 = image
  BY <1>1
<1> HIDE DEF g
<1>5. Maps(g) /\ Arena(g) = image
  BY <1>2, <1>3, <1>4 DEF Maps
<1> QED
  BY <1>3, <1>5 DEF g

\* Where nobody renames, the store is what the database holds.
LEMMA StoreNow ==
  ASSUME \A p \in Tools : tool[p].pc # "rename"
  PROVE  CurrentStore = IF dir[DbName] # NoInode /\ Maps(disk[dir[DbName]]) THEN DbArena ELSE NoImage
BY DEF CurrentStore, DbArena

\* A tool that renames has the store in hand.
LEMMA StoreInHand ==
  ASSUME Alone, NEW p \in Tools, tool[p].pc = "rename"
  PROVE  CurrentStore = tool[p].image
<1>1. \A q \in Tools : tool[q].pc = "rename" => q = p
  BY DEF Alone
<1>2. (CHOOSE q \in Tools : tool[q].pc = "rename") = p
  BY <1>1
<1> QED
  BY <1>2 DEF CurrentStore

\* The same after a step.
LEMMA StoreThen ==
  ASSUME \A p \in Tools : tool'[p].pc # "rename"
  PROVE  CurrentStore' = IF dir'[DbName] # NoInode /\ Maps(disk'[dir'[DbName]])
                         THEN Arena(disk'[dir'[DbName]]) ELSE NoImage
BY DEF CurrentStore, Maps, Arena, is_valid_file_header

\* The same after a step.
LEMMA StoreInHandThen ==
  ASSUME Alone', NEW p \in Tools, tool'[p].pc = "rename"
  PROVE  CurrentStore' = tool'[p].image
<1>1. \A q \in Tools : tool'[q].pc = "rename" => q = p
  BY DEF Alone
<1>2. (CHOOSE q \in Tools : tool'[q].pc = "rename") = p
  BY <1>1
<1> QED
  BY <1>2 DEF CurrentStore

\* What is asked is the command of the one tool at work.
LEMMA AsksNow ==
  ASSUME Alone, NEW p \in Tools, tool[p].pc # "idle"
  PROVE  Request = tool[p].cmd /\ (Replacing <=> Replaces(tool[p]))
<1>1. \A q \in Tools : tool[q].pc # "idle" => q = p
  BY DEF Alone
<1>2. (CHOOSE q \in Tools : tool[q].pc # "idle") = p
  BY <1>1
<1>3. \A q \in Tools : Replaces(tool[q]) => q = p
  BY <1>1 DEF Replaces
<1> QED
  BY <1>2, <1>3 DEF Request, Replacing

\* The same after a step.
LEMMA AsksThen ==
  ASSUME Alone', NEW p \in Tools, tool'[p].pc # "idle"
  PROVE  Request' = tool'[p].cmd /\ (Replacing' <=> Replaces(tool'[p]))
<1>1. \A q \in Tools : tool'[q].pc # "idle" => q = p
  BY DEF Alone
<1>2. (CHOOSE q \in Tools : tool'[q].pc # "idle") = p
  BY <1>1
<1>3. \A q \in Tools : Replaces(tool'[q]) => q = p
  BY <1>1 DEF Replaces
<1> QED
  BY <1>2, <1>3 DEF Request, Replacing, Replaces

\* Nothing is asked when no tool is at work.
LEMMA NoneAsks ==
  ASSUME \A p \in Tools : tool[p].pc = "idle"
  PROVE  Request = NoCmd /\ ~Replacing
BY DEF Request, Replacing, Replaces

\* The same after a step.
LEMMA NoneThen ==
  ASSUME \A p \in Tools : tool'[p].pc = "idle"
  PROVE  Request' = NoCmd /\ ~Replacing'
BY DEF Request, Replacing, Replaces

\* A tool that goes on with its command, and replaces nothing, leaves the store alone.
LEMMA GoesOn ==
  ASSUME Alone, Alone', NEW p \in Tools, tool[p].pc # "idle", tool'[p].pc # "idle",
         tool'[p].cmd = tool[p].cmd, ~Replaces(tool[p]), ~Replaces(tool'[p]), CurrentStore' = CurrentStore
  PROVE  StoreStep
<1>1. Request' = Request /\ Replacing' = Replacing
  BY AsksNow, AsksThen DEF Replacing
<1> QED
  BY <1>1 DEF StoreStep, Store!vars

\* A tool that is done or ends gives up its command.
LEMMA Ends ==
  ASSUME Alone, Alone', NEW p \in Tools, tool[p].pc # "idle", \A q \in Tools : tool'[q].pc = "idle",
         tool[p].cmd \in Commands, NEW now, NEW then, CurrentStore = now, CurrentStore' = then,
         \/ then = IF Replaces(tool[p]) THEN NoImage ELSE now
         \/ Replaces(tool[p]) /\ then = IF tool[p].cmd.op = "mksym" THEN <<>> ELSE now
  PROVE  StoreStep
<1>1. Request = tool[p].cmd /\ (Replacing <=> Replaces(tool[p]))
  BY AsksNow
<1>2. Request' = NoCmd /\ ~Replacing'
  BY NoneThen
<1>3. Request # NoCmd
  BY <1>1 DEF Commands, NoCmd
<1>4. Replacing' = FALSE /\ Replacing \in BOOLEAN
  BY <1>2 DEF Replacing
<1>5. CASE then = IF Replaces(tool[p]) THEN NoImage ELSE now
  <2>1. CurrentStore' = IF Replacing THEN NoImage ELSE CurrentStore
    BY <1>1, <1>5
  <2> QED
    BY <1>2, <1>3, <1>4, <2>1, Zenon DEF StoreStep, Store!Next, Store!GiveUp
<1>6. CASE Replaces(tool[p]) /\ then = IF tool[p].cmd.op = "mksym" THEN <<>> ELSE now
  <2>1. CurrentStore' = IF Request.op = "mksym" THEN <<>> ELSE CurrentStore
    BY <1>1, <1>6
  <2>2. Replacing
    BY <1>1, <1>6
  <2> QED
    BY <1>2, <1>4, <2>1, <2>2, Zenon DEF StoreStep, Store!Next, Store!Done
<1> QED
  BY <1>5, <1>6

-----------------------------------------------------------------------------
(* Steps *)

\* When one tool takes a step, no other is at work.
LEMMA Busy ==
  ASSUME AloneInv, NEW p \in Tools, tool[p].pc # "idle"
  PROVE  \A q \in Tools \ {p} : tool[q].pc = "idle"
BY DEF AloneInv, Alone

\* A temporary name is not that of the database.
LEMMA TmpName ==
  ASSUME AloneInv, NEW p \in Tools, tool[p].pc # "idle"
  PROVE  /\ tool[p].tmp \in Names /\ DbName \in Names
         /\ tool[p].cmd.op # "mksym" => tool[p].tmp # DbName
         /\ tool[p].cmd.op = "mksym" => tool[p].tmp = DbName /\ tool[p].image = <<>>
<1>1. tool[p] \in Tool /\ Stage(tool[p], p)
  BY DEF AloneInv, Sound, Types
<1> QED
  BY <1>1, NamesAssumption DEF Stage, Tool, Names

\* What is to be shown of a step: what it makes of its tool, the names and the files.
LEMMA Rest ==
  ASSUME AloneInv, NEW p \in Tools, \A q \in Tools \ {p} : tool[q].pc = "idle",
         tool' \in [Tools -> Tool], Stage(tool'[p], p), Others(p),
         dir' \in [Names -> Inodes \cup {NoInode}], disk' \in [Inodes -> File],
         NamesApart', Kept', Doing(tool[p])'
  PROVE  AloneInv'
<1>1. Sound'
  BY DEF AloneInv, Sound, Types, Others
<1>2. Alone'
  BY DEF Alone, Others
<1>3. ASSUME NEW q \in Tools PROVE Doing(tool[q])'
  <2>1. CASE q = p
    BY <2>1
  <2>2. CASE q # p
    <3>1. tool'[q] = tool[q] /\ tool'[q].pc = "idle"
      BY <2>2 DEF Others
    <3>2. tool'[q].cmd = NoCmd
      BY <3>1 DEF AloneInv, Sound, Stage
    <3> QED
      BY <3>1, <3>2 DEF Doing, NoCmd
  <2> QED
    BY <2>1, <2>2
<1> QED
  BY <1>1, <1>2, <1>3 DEF AloneInv

\* A step that changes no name and no file and leaves the tool before the replacement
\* keeps the store.
LEMMA QuietAlone ==
  ASSUME AloneInv, NEW p \in Tools, \A q \in Tools \ {p} : tool[q].pc = "idle",
         tool' \in [Tools -> Tool], Stage(tool'[p], p), Others(p),
         UNCHANGED <<dir, disk, last>>, Doing(tool[p])',
         tool[p].pc # "rename", tool'[p].pc # "rename"
  PROVE  AloneInv' /\ CurrentStore' = CurrentStore
<1>1. NamesApart' /\ Kept'
  BY DEF AloneInv, NamesApart, Kept, Holds, Maps, Arena, is_valid_file_header
<1>2. AloneInv'
  BY <1>1, Rest DEF AloneInv, Sound, Types
<1>3. \A q \in Tools : tool[q].pc # "rename" /\ tool'[q].pc # "rename"
  BY DEF Others
<1>4. CurrentStore' = CurrentStore
  BY <1>3, StoreNow, StoreThen DEF DbArena
<1> QED
  BY <1>2, <1>4

\* A tool is started while no other runs.
LEMMA StartAlone ==
  ASSUME AloneInv, Exclusive, NEW p \in Tools, NEW cmd \in Commands, Start(p, cmd)
  PROVE  AloneInv' /\ StoreStep
<1>1. /\ \A q \in Tools : tool[q].pc = "idle"
      /\ UNCHANGED <<dir, disk, last>>
  BY DEF Start
<1>2. /\ tool' \in [Tools -> Tool] /\ Stage(tool'[p], p) /\ Others(p)
      /\ tool'[p].cmd = cmd
      /\ tool'[p].pc = IF cmd.op = "mksym" THEN "open" ELSE "map"
      /\ tool'[p].image = <<>>
  BY StartTool DEF AloneInv
<1>3. Doing(tool[p])'
  BY <1>2 DEF Doing
<1>4. AloneInv' /\ CurrentStore' = CurrentStore
  BY <1>1, <1>2, <1>3, QuietAlone
<1>5. Request = NoCmd /\ ~Replacing
  BY <1>1, NoneAsks
<1>6. Request' = cmd /\ ~Replacing'
  BY <1>2, <1>4, AsksThen DEF AloneInv, Replaces
<1>7. Replacing' = Replacing /\ cmd \in Store!Requests
  BY <1>5, <1>6 DEF Replacing, Commands, Store!Requests
<1>8. Store!Ask(cmd)
  BY <1>4, <1>5, <1>6, <1>7 DEF Store!Ask
<1> QED
  BY <1>4, <1>7, <1>8 DEF StoreStep, Store!Next

\* A tool ends; between remove and rename the database is lost with it.
LEMMA EndAlone ==
  ASSUME AloneInv, NEW p \in Tools, End(p)
  PROVE  AloneInv' /\ StoreStep
<1>1. /\ tool[p].pc # "idle" /\ tool' = [tool EXCEPT ![p] = Idle]
      /\ UNCHANGED <<dir, disk, last>>
  BY DEF End
<1>2. \A q \in Tools \ {p} : tool[q].pc = "idle"
  BY <1>1, Busy
<1>3. /\ tool' \in [Tools -> Tool] /\ Stage(tool'[p], p) /\ Others(p)
      /\ tool'[p].pc = "idle" /\ tool'[p].cmd = NoCmd
  BY <1>1, IdleTool DEF AloneInv
<1>4. Doing(tool[p])'
  BY <1>3 DEF Doing, NoCmd
<1>5. tool[p].cmd \in Commands /\ \A q \in Tools : tool'[q].pc = "idle"
  BY <1>1, <1>2, <1>3 DEF AloneInv, Sound, Stage, Others
<1>6. CASE tool[p].pc # "rename"
  <2>1. AloneInv' /\ CurrentStore' = CurrentStore
    BY <1>1, <1>2, <1>3, <1>4, <1>6, QuietAlone
  <2>2. ASSUME Replaces(tool[p]) PROVE CurrentStore = NoImage
    <3>1. tool[p].pc = "body" /\ tool[p].cmd.op = "mksym"
      BY <1>6, <2>2 DEF Replaces
    <3>2. tool[p].tmp = DbName
      BY <1>1, <3>1, TmpName
    <3>3. dir[DbName] = tool[p].out /\ disk[tool[p].out].hdr = NoHdr
      BY <3>1, <3>2 DEF AloneInv, Doing
    <3>4. ~Maps(disk[dir[DbName]])
      BY <3>3 DEF Maps, is_valid_file_header
    <3>5. \A q \in Tools : tool[q].pc # "rename"
      BY <1>2, <1>6
    <3> QED
      BY <3>4, <3>5, StoreNow
  <2>3. CurrentStore' = IF Replaces(tool[p]) THEN NoImage ELSE CurrentStore
    BY <2>1, <2>2
  <2>4. StoreStep
    BY <1>1, <1>5, <2>1, <2>3, Ends DEF AloneInv
  <2> QED
    BY <2>1, <2>4
<1>7. CASE tool[p].pc = "rename"
  <2>1. NamesApart' /\ Kept'
    BY <1>1 DEF AloneInv, NamesApart, Kept, Holds, Maps, Arena, is_valid_file_header
  <2>2. AloneInv'
    BY <1>1, <1>2, <1>3, <1>4, <2>1, Rest DEF AloneInv, Sound, Types
  <2>3. \A q \in Tools : tool'[q].pc # "rename"
    BY <1>2, <1>3 DEF Others
  <2>4. dir'[DbName] = NoInode
    BY <1>1, <1>7 DEF AloneInv, Doing
  <2>5. CurrentStore' = IF Replaces(tool[p]) THEN NoImage ELSE CurrentStore
    BY <1>7, <2>3, <2>4, StoreThen DEF Replaces
  <2>6. StoreStep
    BY <1>1, <1>5, <2>2, <2>5, Ends DEF AloneInv
  <2> QED
    BY <2>2, <2>6
<1> QED
  BY <1>6, <1>7

\* The database is mapped.
LEMMA MapAlone ==
  ASSUME AloneInv, NEW p \in Tools, Map(p)
  PROVE  AloneInv' /\ StoreStep
<1>1. /\ tool[p].pc = "map" /\ dir[DbName] # NoInode /\ Maps(disk[dir[DbName]])
      /\ UNCHANGED <<dir, disk, last>>
  BY DEF Map
<1>2. \A q \in Tools \ {p} : tool[q].pc = "idle"
  BY <1>1, Busy
<1> DEFINE t == tool'[p]
<1>3. /\ tool' \in [Tools -> Tool] /\ Stage(tool'[p], p) /\ Others(p) /\ t = tool'[p]
      /\ t.pc = "copy" /\ t.cmd = tool[p].cmd /\ t.map = dir[DbName]
      /\ t.end = disk[dir[DbName]].hdr.fh_buflen /\ t.at = 0 /\ t.image = tool[p].image
  BY MapTool DEF AloneInv
<1> HIDE DEF t
<1>4. disk[dir[DbName]] \in File
  BY <1>1 DEF AloneInv, Sound, Types, Names
<1>5. DbArena \in Seq(Entries) /\ Len(DbArena) = t.end
  BY <1>1, <1>3, <1>4, ArenaType DEF DbArena
<1>6. t.image = <<>> /\ SubSeq(DbArena, 1, 0) = <<>>
  BY <1>1, <1>3, <1>5 DEF AloneInv, Doing
<1>7. t.image = Store!Without(SubSeq(DbArena, 1, t.at), t.cmd.key)
  BY <1>3, <1>6, WithoutEmpty
<1>8. DbArena' = DbArena
  BY <1>1 DEF DbArena, Arena
<1>9. Doing(tool[p])'
  BY <1>1, <1>3, <1>5, <1>7, <1>8 DEF Doing, Maps, Arena, is_valid_file_header
<1>10. AloneInv' /\ CurrentStore' = CurrentStore
  BY <1>1, <1>2, <1>3, <1>9, QuietAlone
<1>11. ~Replaces(tool[p]) /\ ~Replaces(tool'[p])
  BY <1>1, <1>3 DEF Replaces
<1> QED
  BY <1>1, <1>3, <1>10, <1>11, GoesOn DEF AloneInv

\* A record is copied, or left out.
LEMMA CopyRecordAlone ==
  ASSUME AloneInv, NEW p \in Tools, CopyRecord(p)
  PROVE  AloneInv' /\ StoreStep
<1> DEFINE t   == tool'[p]
           at  == tool[p].at + 1
           key == tool[p].cmd.key
           e   == disk[tool[p].map].body[at]
<1>1. /\ tool[p].pc = "copy" /\ tool[p].cmd.op # "readsym" /\ at <= tool[p].end
      /\ UNCHANGED <<dir, disk, last>>
  BY DEF CopyRecord
<1>2. \A q \in Tools \ {p} : tool[q].pc = "idle"
  BY <1>1, Busy
<1>3. /\ tool' \in [Tools -> Tool] /\ Stage(tool'[p], p) /\ Others(p) /\ t = tool'[p]
      /\ tool[p].map \in Inodes /\ tool[p].cmd.op # "mksym" /\ e \in Entries
      /\ t.pc = "copy" /\ t.cmd = tool[p].cmd /\ t.map = tool[p].map
      /\ t.end = tool[p].end /\ t.at = at /\ t.image = CopyEntry(tool[p].image, e, key)
  BY CopyRecordTool DEF AloneInv
<1>4. /\ dir[DbName] # NoInode /\ Maps(disk[dir[DbName]])
      /\ tool[p].map = dir[DbName] /\ tool[p].end = Len(DbArena)
      /\ tool[p].image = Store!Without(SubSeq(DbArena, 1, tool[p].at), key)
  BY <1>1, <1>3 DEF AloneInv, Doing
<1>5. tool[p].at \in Nat
  BY DEF AloneInv, Sound, Types, Tool
<1>6. /\ DbArena \in Seq(Entries) /\ at \in 1..Len(DbArena) /\ DbArena[at] = e
  <2>1. disk[dir[DbName]] \in File
    BY <1>3, <1>4 DEF AloneInv, Sound, Types
  <2> QED
    BY <1>1, <1>4, <1>5, <2>1, ArenaType, SMTT(30) DEF DbArena
<1>7. SubSeq(DbArena, 1, at) = Append(SubSeq(DbArena, 1, tool[p].at), e)
      /\ SubSeq(DbArena, 1, tool[p].at) \in Seq(Entries)
  <2> DEFINE A == DbArena
             k == tool[p].at
  <2>1. A \in Seq(Entries) /\ k \in Nat /\ k + 1 \in 1..Len(A)
    BY <1>5, <1>6
  <2> HIDE DEF A, k
  <2>2. SubSeq(A, 1, k + 1) = Append(SubSeq(A, 1, k), A[k + 1]) /\ SubSeq(A, 1, k) \in Seq(Entries)
    BY <2>1
  <2> QED
    BY <1>6, <2>2 DEF A, k
<1> HIDE DEF t, at, e, key
<1>8. t.image = Store!Without(SubSeq(DbArena, 1, at), key)
  BY <1>3, <1>4, <1>7, WithoutAppend
<1>9. DbArena' = DbArena
  BY <1>1 DEF DbArena, Arena
<1>10. t.image = Store!Without(SubSeq(DbArena, 1, t.at), t.cmd.key)
  BY <1>3, <1>8 DEF key
<1>11. Doing(tool[p])'
  BY <1>1, <1>3, <1>4, <1>9, <1>10 DEF Doing, Maps, Arena, is_valid_file_header
<1>12. AloneInv' /\ CurrentStore' = CurrentStore
  BY <1>1, <1>2, <1>3, <1>11, QuietAlone
<1>13. ~Replaces(tool[p]) /\ ~Replaces(tool'[p])
  BY <1>1, <1>3 DEF Replaces
<1> QED
  BY <1>1, <1>3, <1>12, <1>13, GoesOn DEF AloneInv

\* The copy is what the command asks for.
LEMMA CopyDoneAlone ==
  ASSUME AloneInv, NEW p \in Tools, CopyDone(p)
  PROVE  AloneInv' /\ StoreStep
<1> DEFINE t     == tool'[p]
           key   == tool[p].cmd.key
           entry == [key |-> key, val |-> tool[p].cmd.val]
<1>1. /\ tool[p].pc = "copy" /\ tool[p].cmd.op # "readsym" /\ tool[p].at = tool[p].end
      /\ UNCHANGED <<dir, disk, last>>
  BY DEF CopyDone
<1>2. \A q \in Tools \ {p} : tool[q].pc = "idle"
  BY <1>1, Busy
<1>3. /\ tool' \in [Tools -> Tool] /\ Stage(tool'[p], p) /\ Others(p) /\ t = tool'[p]
      /\ tool[p].cmd.op # "mksym"
      /\ t.pc = "open" /\ t.cmd = tool[p].cmd
      /\ t.image = IF tool[p].cmd.op = "symput" THEN Append(tool[p].image, entry) ELSE tool[p].image
  BY CopyDoneTool DEF AloneInv
<1>4. /\ dir[DbName] # NoInode /\ Maps(disk[dir[DbName]]) /\ tool[p].end = Len(DbArena)
      /\ tool[p].image = Store!Without(SubSeq(DbArena, 1, tool[p].at), key)
  BY <1>1, <1>3 DEF AloneInv, Doing
<1>5. DbArena \in Seq(Entries)
  <2>1. disk[dir[DbName]] \in File
    BY <1>4 DEF AloneInv, Sound, Types, Names
  <2> QED
    BY <1>4, <2>1, ArenaType DEF DbArena
<1>6. SubSeq(DbArena, 1, tool[p].at) = DbArena
  BY <1>1, <1>4, <1>5
<1> HIDE DEF t
<1>7. t.image = Store!Result(t.cmd, DbArena)
  BY <1>3, <1>4, <1>6 DEF Store!Result
<1>8. DbArena' = DbArena
  BY <1>1 DEF DbArena, Arena
<1>9. Doing(tool[p])'
  BY <1>1, <1>3, <1>4, <1>7, <1>8 DEF Doing, Maps, Arena, is_valid_file_header
<1>10. AloneInv' /\ CurrentStore' = CurrentStore
  BY <1>1, <1>2, <1>3, <1>9, QuietAlone
<1>11. ~Replaces(tool[p]) /\ ~Replaces(tool'[p])
  BY <1>1, <1>3 DEF Replaces
<1> QED
  BY <1>1, <1>3, <1>10, <1>11, GoesOn DEF AloneInv

\* A step that writes to one file that is not the database keeps what the database holds.
LEMMA DbKept ==
  ASSUME AloneInv, NEW i, dir[DbName] # i, dir[DbName] # NoInode,
         dir'[DbName] = dir[DbName], \A j \in Inodes \ {i} : disk'[j] = disk[j]
  PROVE  /\ disk'[dir'[DbName]] = disk[dir[DbName]]
         /\ DbArena' = DbArena
         /\ last' = last => Kept'
<1>1. dir[DbName] \in Inodes
  BY DEF AloneInv, Sound, Types, Names
<1>2. disk'[dir'[DbName]] = disk[dir[DbName]]
  BY <1>1
<1>3. DbArena' = DbArena
  BY <1>2 DEF DbArena, Arena
<1>4. last' = last => Kept'
  BY <1>2 DEF AloneInv, Kept, Holds, Maps, Arena, is_valid_file_header
<1> QED
  BY <1>2, <1>3, <1>4

\* fopen of the temporary file keeps the database; of the database, by mksym, loses it.
LEMMA DumpOpenAlone ==
  ASSUME AloneInv, NEW p \in Tools, DumpOpen(p)
  PROVE  AloneInv' /\ StoreStep
<1>1. PICK i \in Inodes :
        /\ IF dir[tool[p].tmp] # NoInode THEN i = dir[tool[p].tmp] ELSE i \notin InUse
        /\ dir'  = [dir EXCEPT ![tool[p].tmp] = i]
        /\ disk' = [disk EXCEPT ![i] = EmptyFile]
        /\ tool' = [tool EXCEPT ![p].pc = "body", ![p].out = i]
  BY DEF DumpOpen
<1> DEFINE t   == tool'[p]
           tmp == tool[p].tmp
<1>2. /\ tool[p].pc = "open"
      /\ last' = IF tool[p].cmd.op = "mksym" THEN NoImage ELSE last
  BY DEF DumpOpen
<1>3. \A q \in Tools \ {p} : tool[q].pc = "idle"
  BY <1>2, Busy
<1>4. /\ tool' \in [Tools -> Tool] /\ Stage(tool'[p], p) /\ Others(p) /\ t = tool'[p]
      /\ t.pc = "body" /\ t.out = i /\ t.tmp = tmp
      /\ t.cmd = tool[p].cmd /\ t.at = 0 /\ t.image = tool[p].image
  BY <1>1, <1>2, DumpOpenTool DEF AloneInv
<1> HIDE DEF t
<1>5. EmptyFile \in File /\ EmptyFile.hdr = NoHdr /\ Len(EmptyFile.body) = 0
  BY DEF EmptyFile, File
<1>6. tmp \in Names /\ DbName \in Names
  BY <1>2, TmpName
<1>7. /\ dir' \in [Names -> Inodes \cup {NoInode}] /\ dir'[tmp] = i
      /\ \A n \in Names \ {tmp} : dir'[n] = dir[n]
  BY <1>1, <1>6 DEF AloneInv, Sound, Types
<1>8. /\ disk' \in [Inodes -> File] /\ disk'[i] = EmptyFile
      /\ \A j \in Inodes \ {i} : disk'[j] = disk[j]
  BY <1>1, <1>5 DEF AloneInv, Sound, Types
<1>9. \A n \in Names \ {tmp} : dir[n] # i
  <2>1. i # NoInode
    BY NamesAssumption
  <2>2. CASE dir[tmp] # NoInode
    BY <1>1, <1>6, <2>1, <2>2 DEF AloneInv, NamesApart
  <2>3. CASE dir[tmp] = NoInode
    BY <1>1, <2>3 DEF InUse
  <2> QED
    BY <2>2, <2>3
<1>10. NamesApart'
  BY <1>7, <1>9 DEF AloneInv, NamesApart
<1>11. \A q \in Tools : tool[q].pc # "rename" /\ tool'[q].pc # "rename"
  BY <1>2, <1>3, <1>4 DEF Others
<1>12. CASE tool[p].cmd.op = "mksym"
  <2>1. last' = NoImage /\ tmp = DbName
    BY <1>2, <1>12, TmpName
  <2>2. Kept'
    BY <2>1 DEF Kept
  <2>3. Doing(tool[p])'
    BY <1>4, <1>5, <1>7, <1>8, <1>12 DEF Doing
  <2>4. AloneInv'
    BY <1>3, <1>4, <1>7, <1>8, <1>10, <2>2, <2>3, Rest
  <2>5. ~Maps(disk'[dir'[DbName]])
    BY <1>5, <1>7, <1>8, <2>1 DEF Maps, is_valid_file_header
  <2>6. CurrentStore' = NoImage
    BY <1>11, <2>5, StoreThen
  <2>7. Request = tool[p].cmd /\ ~Replacing
    BY <1>2, AsksNow DEF AloneInv, Replaces
  <2>8. Request' = tool[p].cmd /\ Replacing'
    BY <1>4, <1>12, <2>4, AsksThen DEF AloneInv, Replaces
  <2>9. Request' = Request /\ Request.op = "mksym" /\ Replacing' = TRUE
    BY <1>12, <2>7, <2>8 DEF Replacing
  <2> QED
    BY <2>4, <2>6, <2>7, <2>9, Zenon DEF StoreStep, Store!Next, Store!Clear
<1>13. CASE tool[p].cmd.op # "mksym"
  <2>1. tmp # DbName /\ dir[DbName] # i
    BY <1>2, <1>6, <1>9, <1>13, TmpName
  <2>2. /\ dir[DbName] # NoInode /\ Maps(disk[dir[DbName]])
        /\ tool[p].image = Store!Result(tool[p].cmd, DbArena)
        /\ tool[p].cmd.op # "readsym"
    BY <1>2, <1>13 DEF AloneInv, Doing
  <2>3. dir'[DbName] = dir[DbName]
    BY <1>6, <1>7, <2>1
  <2>4. /\ disk'[dir'[DbName]] = disk[dir[DbName]]
        /\ DbArena' = DbArena
        /\ Kept'
    BY <1>2, <1>8, <1>13, <2>1, <2>2, <2>3, DbKept
  <2>5. Maps(disk'[dir'[DbName]])
    BY <2>2, <2>4 DEF Maps, Arena, is_valid_file_header
  <2>6. Doing(tool[p])'
    BY <1>4, <1>5, <1>7, <1>8, <1>13, <2>2, <2>3, <2>4, <2>5
    DEF Doing, Maps, Arena, is_valid_file_header
  <2>7. AloneInv'
    BY <1>3, <1>4, <1>7, <1>8, <1>10, <2>4, <2>6, Rest
  <2>8. CurrentStore' = CurrentStore
    BY <1>11, <2>2, <2>3, <2>4, <2>5, StoreNow, StoreThen DEF DbArena
  <2>9. ~Replaces(tool[p]) /\ ~Replaces(tool'[p])
    BY <1>2, <1>4, <1>13 DEF Replaces
  <2> QED
    BY <1>2, <1>4, <2>7, <2>8, <2>9, GoesOn DEF AloneInv
<1> QED
  BY <1>12, <1>13

\* A record that reaches the temporary file.
LEMMA DumpRecordAlone ==
  ASSUME AloneInv, NEW p \in Tools, DumpRecord(p)
  PROVE  AloneInv' /\ StoreStep
<1> DEFINE at  == tool[p].at + 1
           out == tool[p].out
           f   == disk[out]
           g   == WithRecord(f, at, tool[p].image[at])
           t   == tool'[p]
<1>1. /\ tool[p].pc = "body" /\ at <= Len(tool[p].image)
      /\ disk' = [disk EXCEPT ![out] = g] /\ dir' = dir /\ last' = last
  BY DEF DumpRecord
<1>2. \A q \in Tools \ {p} : tool[q].pc = "idle"
  BY <1>1, Busy
<1>3. /\ tool' \in [Tools -> Tool] /\ Stage(tool'[p], p) /\ Others(p) /\ t = tool'[p]
      /\ tool[p].cmd.op # "mksym" /\ out \in Inodes
      /\ at \in Nat \ {0} /\ tool[p].image[at] \in Entries
      /\ t.pc = "body" /\ t.out = out /\ t.tmp = tool[p].tmp
      /\ t.cmd = tool[p].cmd /\ t.at = at /\ t.image = tool[p].image
  BY DumpRecordTool DEF AloneInv
<1>4. f \in File /\ tool[p].at \in Nat
  BY <1>3 DEF AloneInv, Sound, Types, Tool
<1>5. /\ dir[DbName] # NoInode /\ Maps(disk[dir[DbName]])
      /\ tool[p].image = Store!Result(tool[p].cmd, DbArena)
      /\ tool[p].cmd.op # "readsym"
      /\ dir[tool[p].tmp] = out /\ f.hdr = NoHdr /\ tool[p].at <= Len(f.body)
      /\ \A i \in 1..tool[p].at : f.body[i] = tool[p].image[i]
  BY <1>1, <1>3 DEF AloneInv, Doing
<1>6. /\ g \in File /\ g.hdr = NoHdr
      /\ at <= Len(g.body)
      /\ \A i \in 1..at : g.body[i] = tool[p].image[i]
  <2> DEFINE image == tool[p].image
             k     == tool[p].at
  <2>1. HasFirst(f, image, k) /\ at = k + 1 /\ image[at] \in Entries /\ g = WithRecord(f, at, image[at])
    BY <1>3, <1>4, <1>5 DEF HasFirst
  <2> HIDE DEF at, f, g, image, k
  <2>2. HasFirst(g, image, at)
    BY <2>1, NextRecordWritten
  <2> QED
    BY <2>2 DEF HasFirst, image
<1> HIDE DEF g, t, f
<1>7. /\ disk' \in [Inodes -> File] /\ disk'[out] = g
      /\ \A j \in Inodes \ {out} : disk'[j] = disk[j]
  BY <1>1, <1>3, <1>6 DEF AloneInv, Sound, Types
<1>8. dir[DbName] # out
  <2>1. tool[p].tmp \in Names \ {DbName} /\ DbName \in Names /\ out # NoInode
    BY <1>1, <1>3, TmpName, NamesAssumption
  <2> QED
    BY <1>5, <2>1 DEF AloneInv, NamesApart
<1> HIDE DEF out
<1>9. /\ disk'[dir'[DbName]] = disk[dir[DbName]]
      /\ DbArena' = DbArena
      /\ Kept'
  BY <1>1, <1>5, <1>7, <1>8, DbKept
<1>10. Maps(disk'[dir'[DbName]])
  BY <1>5, <1>9 DEF Maps, Arena, is_valid_file_header
<1>11. NamesApart'
  BY <1>1 DEF AloneInv, NamesApart
<1>12. Doing(tool[p])'
  BY <1>1, <1>3, <1>5, <1>6, <1>7, <1>9, <1>10 DEF Doing, Maps, Arena, is_valid_file_header
<1>13. AloneInv'
  BY <1>1, <1>2, <1>3, <1>7, <1>9, <1>11, <1>12, Rest DEF AloneInv, Sound, Types
<1>14. \A q \in Tools : tool[q].pc # "rename" /\ tool'[q].pc # "rename"
  BY <1>1, <1>2, <1>3 DEF Others
<1>15. CurrentStore' = CurrentStore
  BY <1>1, <1>5, <1>9, <1>10, <1>14, StoreNow, StoreThen DEF DbArena
<1>16. ~Replaces(tool[p]) /\ ~Replaces(tool'[p])
  BY <1>1, <1>3 DEF Replaces
<1> QED
  BY <1>1, <1>3, <1>13, <1>15, <1>16, GoesOn DEF AloneInv

\* fclose makes the temporary file whole, or the new database of mksym.
LEMMA DumpCloseAlone ==
  ASSUME AloneInv, NEW p \in Tools, DumpClose(p)
  PROVE  AloneInv' /\ StoreStep
<1> DEFINE out == tool[p].out
           f   == disk[out]
           g   == WithHeader(f, tool[p].image)
           t   == tool'[p]
<1>1. /\ tool[p].pc = "body" /\ tool[p].at = Len(tool[p].image) /\ Dumped(p)
      /\ disk' = [disk EXCEPT ![out] = g] /\ dir' = dir
      /\ last' = IF tool[p].cmd.op = "mksym" THEN <<>> ELSE last
  BY DEF DumpClose, Dumped
<1>2. \A q \in Tools \ {p} : tool[q].pc = "idle"
  BY <1>1, Busy
<1>3. /\ tool' \in [Tools -> Tool] /\ Stage(tool'[p], p) /\ Others(p) /\ t = tool'[p]
      /\ IF tool[p].cmd.op = "mksym" THEN t = Idle /\ t.pc = "idle"
         ELSE t.pc = "remove" /\ t.cmd = tool[p].cmd /\ t.tmp = tool[p].tmp /\ t.image = tool[p].image
  BY <1>1, DumpedTool DEF AloneInv
<1>4. tool[p] \in Tool /\ Stage(tool[p], p) /\ out \in Inodes /\ out # NoInode
  BY <1>1 DEF AloneInv, Sound, Types, Stage, Tool
<1>5. f \in File /\ tool[p].image \in Seq(Entries)
  BY <1>4 DEF AloneInv, Sound, Types, Tool
<1>6. /\ dir[tool[p].tmp] = out
      /\ Len(tool[p].image) <= Len(f.body)
      /\ \A i \in 1..Len(tool[p].image) : f.body[i] = tool[p].image[i]
  BY <1>1 DEF AloneInv, Doing
<1>7. g \in File /\ Maps(g) /\ Arena(g) = tool[p].image
  <2> HIDE DEF f
  <2> QED
    BY <1>5, <1>6, HeaderHolds
<1> HIDE DEF f, g, t
<1>8. /\ disk' \in [Inodes -> File] /\ disk'[out] = g
      /\ \A j \in Inodes \ {out} : disk'[j] = disk[j]
  BY <1>1, <1>4, <1>7 DEF AloneInv, Sound, Types
<1> HIDE DEF out
<1>9. NamesApart'
  BY <1>1 DEF AloneInv, NamesApart
<1>10. \A q \in Tools : tool[q].pc # "rename" /\ tool'[q].pc # "rename"
  BY <1>1, <1>2, <1>3 DEF Others
<1>11. CASE tool[p].cmd.op = "mksym"
  <2>1. tool[p].tmp = DbName /\ tool[p].image = <<>>
    BY <1>1, <1>11, TmpName
  <2>2. dir'[DbName] = out /\ disk'[dir'[DbName]] = g /\ last' = <<>>
    BY <1>1, <1>6, <1>8, <1>11, <2>1
  <2>3. Kept'
    BY <1>4, <1>7, <2>1, <2>2 DEF Kept, Holds, Maps, Arena, is_valid_file_header
  <2>4. t.pc = "idle" /\ t.cmd = NoCmd
    BY <1>3, <1>11 DEF Idle, Fresh
  <2>5. Doing(tool[p])'
    BY <1>3, <2>4 DEF Doing, NoCmd
  <2>6. AloneInv'
    BY <1>1, <1>2, <1>3, <1>8, <1>9, <2>3, <2>5, Rest DEF AloneInv, Sound, Types
  <2>7. CurrentStore' = <<>>
    BY <1>4, <1>7, <1>10, <2>1, <2>2, StoreThen
  <2>8. Replaces(tool[p]) /\ tool[p].cmd \in Commands /\ \A q \in Tools : tool'[q].pc = "idle"
    BY <1>1, <1>2, <1>3, <1>4, <1>11, <2>4 DEF Replaces, Stage, Others
  <2>9. StoreStep
    BY <1>1, <1>11, <2>6, <2>7, <2>8, Ends DEF AloneInv
  <2> QED
    BY <2>6, <2>9
<1>12. CASE tool[p].cmd.op # "mksym"
  <2>1. tool[p].tmp \in Names \ {DbName} /\ DbName \in Names
    BY <1>1, <1>12, TmpName
  <2>2. dir[DbName] # out
    BY <1>4, <1>6, <2>1 DEF AloneInv, NamesApart
  <2>3. /\ dir[DbName] # NoInode /\ Maps(disk[dir[DbName]])
        /\ tool[p].image = Store!Result(tool[p].cmd, DbArena)
        /\ tool[p].cmd.op # "readsym"
    BY <1>1, <1>12 DEF AloneInv, Doing
  <2>4. /\ disk'[dir'[DbName]] = disk[dir[DbName]]
        /\ DbArena' = DbArena
        /\ Kept'
    BY <1>1, <1>8, <1>12, <2>2, <2>3, DbKept
  <2>5. Maps(disk'[dir'[DbName]])
    BY <2>3, <2>4, SMTT(30) DEF Maps, Arena, is_valid_file_header
  <2>6. Holds(tool[p].tmp, tool[p].image)'
    <3>1. dir'[t.tmp] = out /\ disk'[out] = g /\ Maps(g) /\ Arena(g) = t.image /\ t = tool'[p]
      BY <1>1, <1>3, <1>6, <1>7, <1>8, <1>12
    <3> QED
      BY <1>4, <3>1 DEF Holds, Maps, Arena, is_valid_file_header
  <2>7. Doing(tool[p])'
    BY <1>1, <1>3, <1>12, <2>3, <2>4, <2>5, <2>6 DEF Doing, Maps, Arena, is_valid_file_header
  <2>8. AloneInv'
    BY <1>1, <1>2, <1>3, <1>8, <1>9, <2>4, <2>7, Rest DEF AloneInv, Sound, Types
  <2>9. CurrentStore' = CurrentStore
    BY <1>1, <1>10, <2>3, <2>4, <2>5, StoreNow, StoreThen DEF DbArena
  <2>10. ~Replaces(tool[p]) /\ ~Replaces(tool'[p])
    BY <1>1, <1>3, <1>12 DEF Replaces
  <2> QED
    BY <1>1, <1>3, <1>12, <2>8, <2>9, <2>10, GoesOn DEF AloneInv
<1> QED
  BY <1>11, <1>12

\* remove puts the copy in place of the database.
LEMMA RemoveAlone ==
  ASSUME AloneInv, NEW p \in Tools, Remove(p)
  PROVE  AloneInv' /\ StoreStep
<1> DEFINE t   == tool'[p]
           cmd == tool[p].cmd
<1>1. /\ tool[p].pc = "remove" /\ disk' = disk
      /\ dir' = [dir EXCEPT ![DbName] = NoInode] /\ last' = tool[p].image
  BY DEF Remove
<1>2. \A q \in Tools \ {p} : tool[q].pc = "idle"
  BY <1>1, Busy
<1>3. /\ tool' \in [Tools -> Tool] /\ Stage(tool'[p], p) /\ Others(p) /\ t = tool'[p]
      /\ t.pc = "rename" /\ t.cmd = cmd /\ t.tmp = tool[p].tmp /\ t.image = tool[p].image
  BY RemoveTool DEF AloneInv
<1> HIDE DEF t
<1>4. tool[p] \in Tool /\ cmd \in Commands /\ cmd.op # "mksym"
  BY <1>1 DEF AloneInv, Sound, Types, Stage
<1>5. tool[p].tmp \in Names \ {DbName} /\ DbName \in Names
  BY <1>1, <1>4, TmpName
<1>6. /\ dir[DbName] # NoInode /\ Maps(disk[dir[DbName]])
      /\ tool[p].image = Store!Result(cmd, DbArena)
      /\ cmd.op # "readsym" /\ Holds(tool[p].tmp, tool[p].image)
  BY <1>1, <1>4 DEF AloneInv, Doing
<1>7. /\ dir' \in [Names -> Inodes \cup {NoInode}] /\ dir'[DbName] = NoInode
      /\ \A n \in Names \ {DbName} : dir'[n] = dir[n]
  BY <1>1, <1>5 DEF AloneInv, Sound, Types
<1>8. NamesApart'
  BY <1>7 DEF AloneInv, NamesApart
<1>9. dir'[t.tmp] = dir[tool[p].tmp]
  BY <1>3, <1>5, <1>7
<1>10. Holds(tool[p].tmp, tool[p].image)'
  <2>1. /\ disk'[dir'[t.tmp]] = disk[dir[tool[p].tmp]] /\ dir'[t.tmp] # NoInode
        /\ Maps(disk[dir[tool[p].tmp]]) /\ Arena(disk[dir[tool[p].tmp]]) = t.image
        /\ t = tool'[p]
    BY <1>1, <1>3, <1>6, <1>9 DEF Holds
  <2> QED
    BY <2>1 DEF Holds, Maps, Arena, is_valid_file_header
<1>11. Doing(tool[p])'
  BY <1>1, <1>3, <1>4, <1>6, <1>7, <1>10 DEF Doing
<1>12. Kept'
  <2>1. (\E n \in Names : Holds(n, last))'
    BY <1>1, <1>3, <1>5, <1>10
  <2> QED
    BY <1>7, <2>1 DEF Kept
<1>13. AloneInv'
  BY <1>1, <1>2, <1>3, <1>7, <1>8, <1>11, <1>12, Rest DEF AloneInv, Sound, Types
<1>14. CurrentStore' = tool[p].image
  BY <1>3, <1>13, StoreInHandThen DEF AloneInv
<1>15. CurrentStore = DbArena /\ DbArena # NoImage
  <2>1. \A q \in Tools : tool[q].pc # "rename"
    BY <1>1, <1>2
  <2>2. disk[dir[DbName]] \in File
    BY <1>5, <1>6 DEF AloneInv, Sound, Types
  <2>3. DbArena \in Seq(Entries)
    BY <1>6, <2>2, ArenaType DEF DbArena
  <2> QED
    BY <1>6, <2>1, <2>3, StoreNow, NoneAssumption
<1>16. Request = cmd /\ ~Replacing
  BY <1>1, AsksNow DEF AloneInv, Replaces
<1>17. Request' = cmd /\ Replacing'
  BY <1>3, <1>13, AsksThen DEF AloneInv, Replaces
<1>18. cmd.op \in {"symput", "symdel"}
  BY <1>4, <1>6 DEF Commands
<1>19. /\ Request' = Request /\ Request.op \in {"symput", "symdel"} /\ Replacing' = TRUE
       /\ CurrentStore # NoImage /\ CurrentStore' = Store!Result(Request, CurrentStore)
  BY <1>6, <1>14, <1>15, <1>16, <1>17, <1>18 DEF Replacing
<1> HIDE DEF cmd
<1>20. Store!Replace
  BY <1>16, <1>19, Zenon DEF Store!Replace
<1> QED
  BY <1>13, <1>20 DEF StoreStep, Store!Next

\* rename completes it.
LEMMA RenameAlone ==
  ASSUME AloneInv, NEW p \in Tools, Rename(p)
  PROVE  AloneInv' /\ StoreStep
<1> DEFINE tmp == tool[p].tmp
<1>1. /\ tool[p].pc = "rename" /\ disk' = disk /\ dir[tmp] # NoInode /\ last' = last
      /\ dir' = [dir EXCEPT ![DbName] = dir[tmp], ![tmp] = NoInode]
      /\ tool' = [tool EXCEPT ![p] = Idle]
  BY DEF Rename
<1>2. \A q \in Tools \ {p} : tool[q].pc = "idle"
  BY <1>1, Busy
<1>3. tool[p].cmd.op # "mksym"
  BY <1>1 DEF AloneInv, Sound, Stage
<1>4. tmp \in Names \ {DbName} /\ DbName \in Names
  BY <1>1, <1>3, TmpName
<1>5. /\ tool' \in [Tools -> Tool] /\ Stage(tool'[p], p) /\ Others(p)
      /\ tool'[p].pc = "idle" /\ tool'[p].cmd = NoCmd
  BY <1>1, IdleTool DEF AloneInv
<1>6. /\ dir' \in [Names -> Inodes \cup {NoInode}]
      /\ dir'[DbName] = dir[tmp] /\ dir'[tmp] = NoInode
      /\ \A n \in Names \ {DbName, tmp} : dir'[n] = dir[n]
  BY <1>1, <1>4 DEF AloneInv, Sound, Types
<1>7. NamesApart'
  BY <1>4, <1>6 DEF AloneInv, NamesApart
<1>8. Holds(tmp, tool[p].image) /\ last = tool[p].image
  BY <1>1 DEF AloneInv, Doing
<1> HIDE DEF tmp
<1>9. Holds(DbName, last)'
  <2>1. /\ disk'[dir'[DbName]] = disk[dir[tmp]] /\ dir'[DbName] # NoInode
        /\ Maps(disk[dir[tmp]]) /\ Arena(disk[dir[tmp]]) = last'
    BY <1>1, <1>6, <1>8 DEF Holds
  <2> QED
    BY <2>1 DEF Holds, Maps, Arena, is_valid_file_header
<1>10. Kept'
  BY <1>1, <1>6, <1>9 DEF Kept
<1>11. Doing(tool[p])'
  BY <1>5 DEF Doing, NoCmd
<1>12. AloneInv'
  BY <1>1, <1>2, <1>5, <1>6, <1>7, <1>10, <1>11, Rest DEF AloneInv, Sound, Types
<1>13. CurrentStore = tool[p].image
  BY <1>1, StoreInHand, SMTT(30) DEF AloneInv
<1>14. \A q \in Tools : tool'[q].pc # "rename"
  BY <1>2, <1>5 DEF Others
<1>15. CurrentStore' = last
  BY <1>1, <1>9, <1>14, StoreThen DEF Holds, Maps, Arena, is_valid_file_header
<1>16. Replaces(tool[p]) /\ tool[p].cmd \in Commands /\ \A q \in Tools : tool'[q].pc = "idle"
  BY <1>1, <1>2, <1>5 DEF AloneInv, Sound, Stage, Replaces, Others
<1>17. CurrentStore' = CurrentStore
  BY <1>8, <1>13, <1>15
<1>18. StoreStep
  BY <1>1, <1>3, <1>12, <1>16, <1>17, Ends DEF AloneInv
<1> QED
  BY <1>12, <1>18

-----------------------------------------------------------------------------
(* The store is implemented *)

\* No key is twice in a database there is in the beginning.
InitKeysOnce ==
  \A image \in InitImages : \A i, j \in DOMAIN image : image[i].key = image[j].key => i = j

\* The invariant holds in the beginning, and the store is one that has no key twice.
LEMMA InitAlone ==
  ASSUME InitImagesOK, Init
  PROVE  /\ AloneInv
         /\ InitKeysOnce => Store!Init
<1>1. FileInv
  BY InitEstablishes
<1>2. \A p \in Tools : tool[p].pc = "idle" /\ tool[p].cmd = NoCmd
  BY DEF Init, Idle, Fresh
<1>3. Alone /\ NamesApart /\ \A p \in Tools : Doing(tool[p])
  BY <1>1, <1>2 DEF Alone, NamesApart, Doing, NoCmd, FileInv, OwnFiles
<1>4. DbName \in Names
  BY DEF Names
<1>5. PICK image \in InitImages \cup {NoImage}, i \in Inodes :
        IF image = NoImage
        THEN dir[DbName] = NoInode /\ last = NoImage
        ELSE /\ dir[DbName] = i /\ last = image
             /\ disk[i] = WithHeader([hdr |-> NoHdr, body |-> image], image)
  BY <1>4 DEF Init
<1>6. Request = NoCmd /\ Replacing = FALSE
  BY <1>2, NoneAsks DEF Replacing
<1>7. CASE image = NoImage
  <2>1. Kept
    BY <1>5, <1>7 DEF Kept
  <2>2. CurrentStore = NoImage
    BY <1>2, <1>5, <1>7, StoreNow
  <2> QED
    BY <1>1, <1>3, <1>6, <2>1, <2>2 DEF AloneInv, FileInv, Store!Init
<1>8. CASE image # NoImage
  <2> DEFINE f == [hdr |-> NoHdr, body |-> image]
             g == WithHeader(f, image)
  <2>1. image \in InitImages /\ image \in Seq(Entries)
    BY <1>8 DEF InitImagesOK
  <2>2. f \in File /\ f.body = image
    BY <2>1 DEF File
  <2>3. Len(image) <= Len(f.body) /\ \A k \in 1..Len(image) : f.body[k] = image[k]
    BY <2>1, <2>2
  <2>4. g \in File /\ Maps(g) /\ Arena(g) = image
    <3> HIDE DEF f
    <3> QED
      BY <2>1, <2>2, <2>3, HeaderHolds
  <2>5. /\ dir[DbName] = i /\ i # NoInode /\ disk[i] = g /\ last = image
    BY <1>5, <1>8, NamesAssumption
  <2> HIDE DEF g
  <2>6. Kept
    BY <2>4, <2>5 DEF Kept, Holds
  <2>7. CurrentStore = image
    BY <1>2, <2>4, <2>5, StoreNow DEF DbArena
  <2>8. InitKeysOnce => Store!Init
    BY <1>6, <2>1, <2>7 DEF InitKeysOnce, Store!Init, Store!Entries, Entries
  <2> QED
    BY <1>1, <1>3, <2>6, <2>8 DEF AloneInv, FileInv
<1> QED
  BY <1>7, <1>8

\* Every step of tools that run one at a time keeps the invariant, and is a step
\* of the store.
LEMMA NextAlone ==
  ASSUME Exclusive, ~DiskMayFill, AloneInv, [Next]_vars
  PROVE  AloneInv' /\ StoreStep
<1>1. CASE UNCHANGED vars
  <2> USE <1>1 DEF vars
  <2>1. AloneInv'
    <3>1. Sound'
      BY DEF AloneInv, Sound, Types
    <3>2. Alone' /\ NamesApart'
      BY DEF AloneInv, Alone, NamesApart
    <3>3. ASSUME NEW p \in Tools PROVE Doing(tool[p])'
      <4>1. Doing(tool[p]) /\ DbArena' = DbArena /\ tool'[p] = tool[p]
        BY DEF AloneInv, DbArena, Arena
      <4>2. tool[p].pc = "remove" => Holds(tool[p].tmp, tool[p].image)'
        BY <4>1, ZenonT(60) DEF Doing, Holds, Maps, Arena, is_valid_file_header
      <4>3. tool[p].pc = "rename" =>
              dir'[DbName] = NoInode /\ Holds(tool[p].tmp, tool[p].image)' /\ last' = tool'[p].image
        BY <4>1, <4>2, ZenonT(60) DEF Doing, Holds, Maps, Arena, is_valid_file_header
      <4>4. tool[p].pc \in {"copy", "open", "body", "remove"} /\ tool[p].cmd.op # "mksym" =>
              dir'[DbName] # NoInode /\ Maps(disk'[dir'[DbName]])
        BY <4>1 DEF Doing, Maps, Arena, is_valid_file_header
      <4> QED
        BY <4>1, <4>2, <4>3, <4>4 DEF Doing, Maps, Arena, is_valid_file_header
    <3>4. Kept'
      BY DEF AloneInv, Kept, Holds, Maps, Arena, is_valid_file_header
    <3> QED
      BY <3>1, <3>2, <3>3, <3>4 DEF AloneInv
  <2>2. CurrentStore' = CurrentStore
    BY <1>1 DEF vars, CurrentStore, Maps, Arena, is_valid_file_header
  <2>3. Request' = Request /\ Replacing' = Replacing
    BY <1>1 DEF vars, Request, Replacing, Replaces
  <2> QED
    BY <2>1, <2>2, <2>3 DEF StoreStep, Store!vars
<1>2. CASE Next
  <2>1. PICK p \in Tools :
          \/ \E cmd \in Commands : Start(p, cmd)
          \/ End(p)
          \/ Map(p) \/ CopyRecord(p) \/ CopyDone(p)
          \/ DumpOpen(p) \/ DumpRecord(p) \/ DumpClose(p) \/ DumpLost(p)
          \/ Remove(p) \/ Rename(p)
    BY <1>2 DEF Next
  <2>2. ~DumpLost(p)
    BY DEF DumpLost
  <2> QED
    BY <2>1, <2>2, StartAlone, EndAlone, MapAlone, CopyRecordAlone, CopyDoneAlone,
       DumpOpenAlone, DumpRecordAlone, DumpCloseAlone, RemoveAlone, RenameAlone
<1> QED
  BY <1>1, <1>2

\* Tools that run one at a time, any number of them and under any temporary names,
\* on a disk that takes what is written: what one of them has put in place of the
\* database is never lost, at whatever call a later one ends.
THEOREM LastRecoverable ==
  ASSUME Exclusive, ~DiskMayFill, InitImagesOK
  PROVE  Spec => []Recoverable
<1>1. Init => AloneInv
  BY InitAlone
<1>2. AloneInv /\ [Next]_vars => AloneInv'
  BY NextAlone
<1>3. AloneInv => Recoverable
  <2>1. DbName \in Names
    BY DEF Names
  <2> QED
    BY <2>1 DEF AloneInv, Kept, Holds, Recoverable
<1> QED
  BY <1>1, <1>2, <1>3, PTL DEF Spec

\* Such tools implement SymStore: whatever the calls between, the database changes at once
\* to what the command of the tool that runs asks for, is made anew by mksym, or is lost
\* when a tool ends between remove and rename or mksym while it writes in place.
THEOREM StoreImplemented ==
  ASSUME Exclusive, ~DiskMayFill, InitImagesOK, InitKeysOnce
  PROVE  Spec => ImplementsStore
<1>1. Init => AloneInv /\ Store!Init
  BY InitAlone
<1>2. AloneInv /\ [Next]_vars => AloneInv' /\ [Store!Next]_(Store!vars)
  BY NextAlone DEF StoreStep
<1> QED
  BY <1>1, <1>2, PTL DEF Spec, ImplementsStore, Store!Spec
=============================================================================
