# TLA+ specifications of kvsymdb

`kvsymdb` is a small key-value store in one block of memory: records are
appended to an arena, marked dead, and dropped by copying the live ones into a
new block. It can be written to a file, mapped back read-only, and a few
command line tools rewrite such files. Beside it the repository has a chained hash
map (`jwkvmap`) and a collection of older containers (`old_stuff/`). This directory
holds the TLA+ modules that model them, the TLC configurations that check them on small instances, and
the proofs that TLAPS checks for every instance.

Paths below are relative to the repository (`src/kvsymdb.cxx` and so on);
the library is built with its assertions on (`makefile:8-9` defines `_DEBUG`
and comments `-DNDEBUG` out), so a failed `assert` is a behaviour of the
program: it ends the process.

## 1. Inventory

| Component | State | Operations | What makes it correct |
|---|---|---|---|
| **Byte layout** (`include/kvsymdb.h`, `src/_kvsymdb.inl.hpp`) | none | align, size of a record, size of a block, views of a record | three computations of a record's size agree for every length; nothing wraps |
| **In-memory database** (`src/kvsymdb.cxx:10-385`) | one heap block: `_entrycnt`, `_entrycap`, `_buf_len`, `_buf_size`, `_err_code`, state array, arena | create, destroy, insert, mark_dead, reserve, reserve_arenabuf, compact, clearerr, queries, iterators | records form one chain; states follow the ids through every reallocation; compaction drops the dead entries only, cannot fail half-way through lack of room, and terminates; a failed call changes nothing |
| **C++ wrapper** (`include/_cxx_kvsymdb.hpp`) | owning pointer, error number | the same, plus move, iterator and view objects | a block has one owner; objects that point into a block do not outlive it |
| **Reader** (`src/kvsymdb.cxx:387-535`) | arena pointer, length, entry count, position, error | bind, read, rewind, unbind | reads every record once; stops at a truncated record |
| **Database file** (`src/kvsymdb.cxx:564-845`) | file contents; mapped header; the descriptor and the mapping of each mapper | dump (records, then header), map, unmap | an interrupted dump is never accepted; what is dumped is what is read; no path leaks or closes another's descriptor |
| **Tools** (`tests/symput.cxx`, `symdel.cxx`, `mksym.cxx`, `readsym.cxx`) | a database file and a temporary one | copy, edit, dump, remove, rename | the database survives a crash; no update is lost |
| **jwkvmap** (`src/jwkvmap.cxx`, `src/jwkvmap.hpp`) | bucket array of slot chains, slot count | insert, upsert, find, remove, rehash, iterate | every slot is in the bucket of its hash and reachable once; it is a finite map; headers and loops that callers keep stay good |
| **Linked list and node pool** (`old_stuff/src/linked_list.cxx`) | ring of nodes; chunks with a free list and a state each | allocate, free, push, pop, insert, unlink, iterate | a chunk is free or used, never both; the ring's links are inverse to one another; the list is a deque |
| **Indexed pool** (`old_stuff/src/pool_allocator.cxx`) | the same with indices, in an object that moves | init, alloc, free, move, destroy | the same; no two pools have one array |
| **Key list** (`old_stuff/src/keylist.c`) | one growing buffer of entries chained by offsets; an iterator | append, mark dead, clear, compact, iterate | a walk meets every entry and stays inside the buffer; a compaction keeps the keys |
| **Memory streams** (`old_stuff/stream/jw_mem_stream.hpp`) | positions in a buffer | write, read, seek, open, close | the reader gets what was written, no more |
| **Vectors** (`old_stuff/src/vector.c`, `include/cxxds_vector.hpp`) | a block of elements, or an array in the object | push, pop, reserve, clear, move, copy | a block has one owner; growth keeps the elements |
| **C pool, list and stack** (`old_stuff/src/pool_alloc.c`, `list.c`, `stack.c`) | free lists | allocate, free, push, pop | not modelled |
| Drafts (`* copy.*`), vendored `zlib.h`, `sys/mman.h`, `bin/`, `lib/` | - | - | not built, or not this project's |

Interaction: the C++ wrapper calls the C interface on a `kvsymdb_t**`, because
insert, the reserve calls and compact may replace the block. Readers and
iterators hold raw pointers into the block. A dump reads a block through
`kvsymdb_get_intrnl_state`; a mapper gives a reader the arena inside the mapped
file. The tools combine mapper, reader, database and dump, and meet each other
only in the file system. `jwkvmap` shares no state with the database; its callers
keep pointers to its slots and iterators over its buckets. The containers of
`old_stuff/` know nothing of each other, except that `cxxds::vector` wraps `vector.c`.

What is hard here: nothing runs in parallel inside the library, so the hard
parts are long sequences of legal calls (insert, die, grow, compact, in any
order, each moving the block), failures in the middle of a call (an allocation
in the middle of insert, an insertion in the middle of a compaction), integer
widths (`uint16_t name_len`, `uint32_t` sizes), handles that stay open, a crash
between two file operations and two tools on one file. In the hash map it is the
rehash, which relinks slot after slot while callers hold pointers to slots, and a
count that wraps; in the containers it is who owns what after moves, growth and
failed allocations.
`PROJECT.json` lists the hazards line by line.

## 2. Modules

| Module | What it is |
|---|---|
| `KVLayout` | alignment, record and block sizes with their integer widths; `U32Mod` and `NameLenMod` are the moduli of `uint32_t` and of `name_len` |
| `KVSymDB` | the in-memory database, one action per call of the C interface, `kvsymdb_compact` one step per record |
| `KVLog` | what the database promises: an append-only log whose entries can be killed and compacted away |
| `KVReader` | a reader and a loop over the entries that stay open while the calls of `KVSymDB` go on |
| `KVFile` | what is in a database file: the writes of a dump, and what maps |
| `SymTools` | the processes `symput`, `symdel`, `mksym`, `readsym` on one database file, in a file system of names and inodes |
| `SymStore` | what the tools promise: a store that a command changes at once to what it asks for |
| `FileMapper` | descriptors and mappings of a process: the construction of `file_mapper` with a failure at each step, dumps, and files of the program itself |
| `KVOwner` | the objects of `class kvsymdb`, which own blocks, move, and replace their blocks; an `entry_view` that a caller keeps |
| `JwKVMap` | the hash map: one action per call, a rehash one step per slot |
| `JwMap` | what the hash map promises: a finite map, and what each call returns |
| `JwKVMapIter` | `JwKVMap` with a header that `find` returned and a loop over all entries that callers keep open |
| `LinkedList`, `NodeDeque` | the list with its node pool; a sequence of nodes, which it implements, each call at the place it is given |
| `PoolAllocator`, `KeyList`, `MemStream`, `CxxVector`, `StaticVector` | the other containers of `old_stuff/` |
| `MCKVSymDB`, `MCKVReader`, `MCSymTools`, `MCJwKVMap` | the small sets of names and values for TLC |
| `MCObjects` | `FileMapper`, `KVOwner` and the containers side by side: the initial state chooses the one that runs |
| `Selections` | the elements of a sequence that are in a set, in order, as a recursive function |
| `DataLemmas` | induction, selections, parts of sequences, free lists, rings and loops: what the proofs below use of data of any size |
| `KVSymDB_proofs` | the arithmetic of record sizes, the inductive invariant of `KVSymDB` and the invariants that follow, what a call may change, what holds while names and records fit, and the refinement of `KVLog` |
| `KVReader_proofs` | what an open reader and an open loop can rely on |
| `SymTools_proofs` | files and mappings of any number of tools; of tools that run one at a time, what is recoverable and the refinement of `SymStore` |
| `FileMapper_proofs` | descriptors and mappings of any number of mappers |
| `JwKVMap_proofs` | the invariants of the hash map, its refinement of `JwMap`, and what callers keep |
| `Pools_proofs` | the list with its pool and its refinement of `NodeDeque`, the indexed pool, and the key list with its compaction |
| `Objects_proofs` | `KVOwner`, the vectors and the streams, and the theorems of the objects of `MCObjects` |

### How the model of the database corresponds to the code

| Model | Code |
|---|---|
| `db`, a record with the fields of `struct _c_kvsymdb` | `*symdb_pp`, the caller's block |
| `db.arena`, a partial function from offsets to records | `_arena_buf`: a record is where a header was written; writing one removes every record its bytes overlap (`WriteRecord`) |
| a record: `id`, `name_len`, `data_len`, `record_len`, and `key`, `val`, `val_off` | the header, and which buffer the payload was copied from and where the value starts |
| `ndb`, `it` | `new_symdb_p` and the offset of `it` in `kvsymdb_compact` |
| `pc` | between calls (`"open"`), in the loop of `kvsymdb_compact`, without a database, or after a failed assertion |
| `rc` | what the last call returned; `kvsymdb_clearerr` counts as a call that returns OK |
| `HeapLimit`, `CreateFails`, `ReserveFails`, ... | `operator new(std::nothrow)` fails always for a block that large, and may fail at any time |

`kvsymdb_insert` is called by users and by `kvsymdb_compact`, so it is an
operator on a block: `InsertReturns` (a record appended, in place or after the
arena grew), `InsertRefuses` (the two error returns) and `InsertAborts` (the
assertions that a call which must grow can fail). `Appends` has two cases. When the arena
has room, the record is there (`AppendRecord`). When it has not (finding 1 below), the
record is written all the same (`OverrunRecord`): over the state array, which lies directly behind
the arena (`_kvsymdb.inl.hpp:356-359`), so that any state it covers becomes whatever the bytes of
the record say (or stays, in the record's padding); then line 280 writes the state of the
new id where the state array is, which is within the record's bytes. The records
before it stay, it is not among the records of `arena`, and `buf_len` is beyond `buf_size`. Bytes
behind the end of the block are the heap's and are not followed. `Intact(d)` says that
this has not happened to a block: on one that is not intact, every call that changes it, but for
the refusals of insert, fails `assert_intrnl_state`; readers and iterators walk on (below). Null-pointer checks, the hash
and the type of an entry, and the debug output are left out. Views passed by
callers own their bytes; one that points into the arena is not modelled yet.

`KVReader` composes the database with its handles: `Call` is any step of `KVSymDB`,
and says what becomes of the handles.

| Model | Code |
|---|---|
| `rd` | `struct _c_kvsymdb_reader`, and whether its block was freed (`live`), whether it was bound to the whole arena (`whole`), the records read since the start (`nread`) |
| `loop` | the iterator (`at`) and the end of a range-for over `kvsymdb`, the number of entries when it began, the number it has met |
| `Bind`, `BindCut` | `kvsymdb_reader_bind_db`; `kvsymdb_reader_bind`, which takes any length |
| `ReadEof`, `ReadEntry`, `ReadAborts`, `ReadUnbound` | the exits of `kvsymdb_reader_read`. The return of `ERR_BADENT` is none of them: the assertions before it are the same conditions |
| `ReadOverrun`, `LoopOverrun` | what a reader, or an iterator, may make of the record that overran its arena, one of whose bytes is a state: read it and be at the end, or (`ReadAborts`) fail an assertion; step to the end, or get lost |
| `Moved` | the calls that free the block the handles point into |

The alignment test of `kvsymdb_reader_read` (`kvsymdb.cxx:470-476`) never fails:
it tests the rounded position for zero, not against the position.

A step of a compaction reads a record through `NameView` and `DataView`: when
`name_len` was truncated, the value is looked for in the wrong place, and the
view is `Garbage`.

### Files and tools

`SymTools` is about the disk, so the database in memory is only the list of its
entries (`image`): that insert and the reader deliver it is the business of
`KVSymDB` and `KVReader`, and holds where the findings 1 and 3 below do not bite.

| Model | Code |
|---|---|
| `dir`, `disk` | names and files; an open or mapped file outlives its name, as on POSIX |
| `disk[i].hdr`, `.body` | the header (or zeros) and the records behind it. The header is written as one, the arena record by record |
| `fh_crc32` | the records the checksum was computed from: no two arenas share one |
| `tool[p]` | a process: the call it stands at (`pc`), its file names, mapping and reader (`map`, `end`), the copy in memory (`image`), the file it writes (`out`), how far it has read or written (`at`) |
| `Map`, `CopyRecord`, `CopyDone` | `file_mapper`, the loop over the reader, the insertion of `symput` |
| `DumpOpen`, `DumpRecord`, `DumpClose` | `fopen`, the writes that reach the disk, `fclose` in `~CXX_FILE`; with it the scope of the mapper ends |
| `DumpLost` | the disk is full or broken when `fseek` or `fclose` writes the buffer |
| `Remove`, `Rename` | the two calls at the end of `symput` and `symdel` |
| `End` | the tool returns with an error, or is killed, at any call |
| `TmpNames` | the names made of the second and the database's name: shared by tools of the same second |
| `last` | history: the database that was put in place last |
| `Request`, `Replacing` | for the refinement: the command of the tool at work; whether the old database is gone and the new one not yet in place |

A step is what another process can see. Reading through the mapping is one step
per record, because `mksym` may truncate the file meanwhile. Loss of power (writes
that reach the disk out of order) is not modelled: the code never syncs.

### Mappers and owners

| Model | Code |
|---|---|
| `open`, `own` | the descriptor table, and which the program opened itself; the system gives the lowest that is free |
| `call` | where a construction or a dump stands: the stream (`dbif`), its copy (`fd`), the mapping (`map`), locals with destructors in the code |
| `object[m]` | `kvsymdb_file_mapper_t`, which is zeros (`Zeros`) when a construction failed |
| `Destroy` | `kvsymdb_file_mapper_cleanup`: closes whatever descriptor is in the object, 0 after a failure |
| `KVOwner`: `db`, `heap` | the members of a `kvsymdb` object; the blocks of the heap, each the list of its entries |
| `Replace` | the calls that put another block in the place of the object's: growth, reserve, compaction |
| `view` | an `entry_view`; `good` is history: no call replaced or freed its block |

Copying a `file_mapper` (the class has an implicit copy constructor, and no code copies
one) is left out.

### The hash map

| Model | Code |
|---|---|
| `kvm`, `tmp` | `m_bucket_arr`, `m_bucket_cnt`, `m_slot_cnt` of the map, and of `tmp_kvmap` in a rehash |
| `buckets[b].chain`, `.cnt` | the chain behind the root link of a bucket, in order, and the bucket's count |
| `slot` | the heap: the entry in the block at each address, or `Free` |
| `RehashStep`, `RehashEnd` | an iteration of the loop at `jwkvmap.cxx:244-254`; the move of the new map over the old one, which deletes what is left in the old one |
| `NoSlotMemory`, `NoBucketMemory` | `operator new` fails for a slot, or for the buckets |
| `AutoUpsert`, `AutoUpsertEnd` | `upsert_auto_rehash` up to the rehash, and behind it |
| `uncounted` | history: slots that `upsert` linked without counting |
| `held` | a header that `find` returned, in a slot |
| `it` | `BucketArrIter` and in its body `BucketChainIter`: the bucket and the slot they stand on; `due` and `met` are history |

The links of a chain are not modelled one by one: `push_head` and `unlink` are those
of a sequence. On links they do what `add_head` and `unlink` of `LinkedList` do, which
has the links and shows that they implement a sequence (`Ring`, `ImplementsDeque`). A loop ends with the calls that destroy what it stands
on: a rehash, which deletes the bucket array, and the removal or replacement of its slot.

### The containers

`LinkedList` has both links of each node, the free list of the pool and the
`unique_ptr`s of callers. `free_node` divides the distance of two nodes, already a
number of nodes, by the size of a node once more (`linked_list.cxx:136`), so it refuses
most nodes (`free_node_refused`) and they are lost to the pool; and `insert_before`
links behind its target, `insert_after` in front of it (`linked_list.cxx:271-276`, `372-378`), as the
model does: `NodeDeque` has the two actions by what they do, `PutBehind` and `PutInFront`, and
`PlacesNamed` says which call is which. `PoolAllocator` takes any index from
callers, and ends the process when a full pool is freed from (`pool_allocator.cxx:247`).

In `KeyList` `realloc` may move the buffer at each growth, and a compaction copies one
entry per step. `name_len` is 16 bits wide (`keylist.h:10`) and is given a `size_t`: an entry keeps
`name_len` modulo `NameLenMod` while it is chained by the true length, so `Gets`, the assertions of
`KeyListArena_GetEntry`, fails for a longer key at the first read of it. This ends the process
(`ReadAborts`, `CompactAborts`; the list is built with assertions on): a compaction
never copies a truncated key. Offsets and sizes count modulo `U32Mod`; the instance and the
proofs are about lists that the heap has room for and keys that stay below it
(`NoWrapAssumption`), so the wrap itself is not exercised.

`MemStream` follows `tsstr.cxx`: an ostream, then an istream on what
was written. `CxxVector` has the addresses that objects own; `move_out` leaves what its
destination had without an owner (`lost`). `copy_from` goes element by element (`copying`):
`_init` may get no memory, which leaves an object without a vector, and so may each
`push_back` (`CopyDrops`), which leaves out the element; the code looks at neither result
(`cxxds_vector.hpp:119-125`).

## 3. Properties and runs

All sizes are in bytes and as in the code: header of a record 20, of a block 32,
alignment 4.

| Run | Instance | Checks | Result |
|---|---|---|---|
| `core` | names and values of 1 and 4 bytes (records of 28 and 32 bytes), capacities 1 to 3, arenas of 32, 64 and 96 bytes, heap of 200 | `TypeOK`, `RecordsChained`, `EntriesStayValid`, `BufLenWithinBufSize`, `FitInv`, `ImplementsLog`, `CompactTerminates` | holds |
| `wide` | names of 0, 1, 8 and 9 bytes with `NameLenMod` 8, a null value, a record larger than the smallest arena, which overruns it | `StatesTrackRecords`, `CompactionHasRoom`, `IndInv`, `ErrCodeIsLastResult`, `FailedCallsChangeNothing`, `RecordsImmutable` | holds |
| `overrun` | a 30-byte value and an arena of 32 bytes | `BufLenWithinBufSize` | violated |
| `oom_insert` | an arena of 32 bytes | `NeverAborts` | violated |
| `long_name` | a name longer than `name_len` can tell | `EntriesStayValid` | violated |
| `reader` | records of 32 and of 36 bytes, capacity 3, arenas of 32 (which the second kind overruns) and 96 bytes, cuts in the first record's payload and in the second one's header | `ReadsAll`, `LoopMeetsAll`, `ReadsInOrder`, `WholeReaderSafe`, `HandlesInv` | holds |
| `cut_record` | a reader of the first 28 bytes of a record of 32 | `CutRecordIsEnd` | violated |
| `tools_exclusive` | two tools, never both at work, one temporary name, two keys, two values, every database of at most two entries, or none | `Recoverable`, `ImplementsStore` | holds |
| `tools_race` | two tools at work at the same time, a temporary name for each, one key, two values, lost writes | `OwnFiles`, `HeaderLast`, `MappedStable`, `ToolsOK` | holds |
| `lost_write` | as `tools_exclusive`, one key, with lost writes | `DumpOKMeansMaps` | violated |
| `jwkvmap` | three keys, of which two share a bucket in maps of two and of three; two values; three addresses for slots; at most 4 buckets; a count modulo 4 | `TypeOK`, `Placed`, `SlotsOwned`, `BucketsCount`, `CountDrift`, `SlotsFit`, `HeldStable`, `ImplementsMap`, `LoopMeetsEachOnce` | holds |
| `objects` | 7 descriptors, two mappers; three addresses, for mappings, blocks, arenas and vectors alike; two `kvsymdb` objects; a pool of 4 nodes; two indexed pools of up to 3 chunks; keys of 0, 3, 70 and 75 bytes with `NameLenMod` 72, at most 3; a stream buffer of 3 bytes; two vectors of up to 4 elements; an array of 3 | `ObjectTypes`, `MappersOwn`, `FdsAccounted`, `OwnersSound`, `PoolsAccounted`, `WellLinked`, `ContentsKept` | holds |

The properties of records (`RecordsChained`, `StatesTrackRecords`, `EntriesStayValid`,
`RecordsImmutable` and those of readers and loops) are about blocks that are `Intact`: of one
whose arena a record has overrun they are false in the code and in the model. `core`
has no such record; `wide` and `reader` do.

* `RecordsChained`: a walk by `record_len` meets every record once, in order,
  and ends at `buf_len`, in the caller's block and in the one being filled.
* `StatesTrackRecords`: the state array is empty for exactly the unused ids.
* `EntriesStayValid`: the assertions of `_is_valid_entry` hold of every record.
* `CompactionHasRoom`: a compaction never runs out of ids or bytes, so that the
  block it fills never grows and its insertion fails for no lack of room.
* `BufLenWithinBufSize`: the assertion of `assert_intrnl_state`.
* `ErrCodeIsLastResult`: `kvsymdb_geterror` is the result of the last call,
  although insert, the reserve calls and compact replace the block it is kept in.
* `FailedCallsChangeNothing`, `RecordsImmutable`: action properties; what an
  error, and a compaction before its end, may change (the code only), and what any
  call but a compaction may do to a record (mark it dead, nothing else).
* `FitInv`: as long as names fit `name_len` the headers are exact; as long as
  records fit the first arena, doubling it makes room for any of them.
* `ImplementsLog`: `Spec` refines `KVLog!Spec`, with the log read off the
  block by walking it (`Walk`). The steps of a compaction stutter, until the
  last one drops the dead entries at once.
* `CompactTerminates`: every compaction ends.
* `ReadsAll`, `LoopMeetsAll`: an open reader or loop is at its end exactly when it
  has met the records there were when it was opened, although records are
  appended behind it and marked dead under it. So a loop never steps over its end.
* `ReadsInOrder`: the n-th record read is the one with id n.
* `WholeReaderSafe`: a reader of the whole arena never fails an assertion.
* `HandlesInv`: the types of the handles, and the invariant behind the four.
* `HeaderLast`: a file with a header has the records it tells of, whoever ended in
  the middle and whatever was lost: an interrupted dump is refused, not misread.
* `OwnFiles`: the file that `symput` or `symdel` writes has one name, and nobody
  else has it open or mapped. `MappedStable`: so what is mapped does not change.
* `Recoverable`: a database that was put in place is in the database or in a
  temporary file at any time after, until the next is; a tool killed between
  `remove` and `rename` leaves it under the temporary name.
* `ImplementsStore`: tools that run one at a time implement `SymStore`: `symput` and `symdel`
  change the database in one step to what the command of the tool that runs makes of it
  (`Result`), `readsym` changes nothing, `mksym` makes it anew, and it is lost only
  when a tool ends between `remove` and `rename` or while `mksym` writes in place.
* `MappersOwn`: a mapper that has mapped its file keeps an open descriptor and a
  mapping that nobody else has, whatever other mappers fail and are destroyed;
  the descriptor is never 0, which the failed ones close.
* `FdsAccounted`: what the library has open or mapped belongs to a mapper or to
  the call under way, and nothing of the program is closed but descriptor 0.
* `OwnersSound`: a block of a `kvsymdb` object or of a vector has one owner, and a
  view is good until its block is replaced or freed, when the object is moved too.
* `TypeOK` (of the hash map): beside the types, the map that a rehash fills is there exactly while
  the rehash runs, and an upsert waits only for that.
* `Placed`: each slot is in the bucket of its hash, and no bucket has a key twice,
  between the steps of a rehash too: a lookup, which looks in one bucket, misses none.
* `SlotsOwned`: every block taken for a slot is in one chain of one of the two maps.
* `BucketsCount`: a bucket counts its chain, so nothing skips a bucket that is not
  empty; the rows a rehash empties keep counts that are too high, never too low.
* `CountDrift`: `slot_count()` is short of the number of entries by the slots that
  `upsert` did not count, modulo the width of `size_t`, and a rehash counts all.
* `SlotsFit`: header, padded key and value lie within the block of a slot.
* `ImplementsMap`: `Spec` refines `JwMap!Spec`. The steps of a rehash stutter.
* `HeldStable`: what `find` returned stays there with its key and value until its
  key is upserted or removed, or the map cleared: through a rehash too.
* `LoopMeetsEachOnce`: a loop meets no key twice, and at its end has met every
  key that was there from its start, whatever its body inserts, upserts or removes.
* `PoolsAccounted`: a chunk of a pool is in the free list or somebody has it (or
  `free_node` refused it), and the states and counts say which.
* `WellLinked`: the two links of a list node are inverse to one another; the
  entries of a key list follow one another without a gap to the end of the buffer, each with
  the bytes of its whole key, a read of one fails an assertion exactly when `name_len` cannot hold
  the length of its key, and the arena a compaction fills has none of those; a
  `static_vector` is a stack, met both ways; a stream's reader gets what was written.
* `ContentsKept`: the list refines `NodeDeque`, and each call acts at the place it means
  (`PlacesNamed`): `push_front` and `push_back` at the ends, `pop_front` and `pop_back`
  too, and return what was there, `insert_before` and `insert_after` beside
  their target, on the side the code links. Elements of a vector are kept by growth and moves, and
  `copy_from` leaves all of them, in order, if it was given the memory (`CopiesWhole`). A call on a
  key list appends one key, marks one dead, clears it or leaves the keys
  and their order alone, and a compaction that returns leaves exactly the keys in use, in their order.

**Bounds.** The alignment makes only lengths modulo 4 matter to sizes, so a
length that needs padding and one that does not are both there, for names (where
the terminator counts) and values. Three records are the least for which a dead
one has a live neighbour on both sides. Arenas of 32, 64 and 96 bytes
let a first, second and third record each fit or force the arena to grow;
`HeapLimit` 200 makes some requests impossible, and makes doubling stop.
`U32Mod` 4096 is beyond every sum of the instance; what wraps is for a later run.
`NameLenMod` 256 is beyond the names of `core`; 8 lets the names of `wide` and
`long_name` not fit. For the tools, three inodes are enough for a database, a file being written and
an old one still mapped; inodes are symmetric. Two entries show what happens to
the entries beside that of the key. For the hash map, a slot before, at and behind the
one in question fit in a chain of three; the hashes make two keys meet in a bucket of
two and part in one of four, so that a rehash takes a chain apart; a count modulo 4
wraps when `upsert` and `remove` alternate. Slots and values are symmetric. In
`objects`, seven descriptors are the standard ones, the two of a mapper, the one that
another keeps and one of the program; of the keys of a key list, one fills the first buffer
with two entries, one needs more than twice the buffer, one does not fit `name_len` and one is
empty and refused. Addresses are symmetric, and all kinds of objects have the same ones, which a
symmetry of all kinds at once requires; nothing compares addresses of different kinds,
as only one of them runs. The kinds of objects run one per behaviour, since they share nothing: the
run explores the sum of their state spaces.
Deadlock is checked in every run but `objects`, where a failed assertion ends the
process and the bounds end the calls.

**Fairness.** `WF_vars(CompactStep)`: a call that has begun continues, since the
process is one thread and nothing in the loop waits. Nothing makes a caller call.
The other specifications have no fairness, and only safety properties are checked of
them. (A rehash ends because each step takes one slot of finitely many away.)

### What the violations show

1. `overrun`: `kvsymdb.cxx:222-226` grows the arena to `entsize` alone when the
   record is larger than the whole arena, forgetting the `buf_len` bytes in use.
   With `buf_len` > 0 the record is written past the arena, over the state array. The
   shortest trace: create with an arena of 32 bytes, insert a record of at most 32 bytes, insert one of
   more than 32. What follows is in the models (`OverrunRecord`).
2. `oom_insert`: `kvsymdb.cxx:234` tests `rc < 0`, but `reserve_arenabuf`
   returns the positive `ERR_OPNEW`; the assertion at line 240 ends the process
   where the code means to return `ERR_RESIZEBUF`.
3. `long_name`: `kvsymdb.cxx:255` truncates the length of a name to 16 bits.
   `record_len` still counts all of it, and `_is_valid_entry` asserts otherwise.
   When the truncated length is 0 (`wide`), every compaction fails with
   `ERR_INSERT` from then on, as the copy is refused for its empty name.
4. `cut_record`: the comment at `kvsymdb.cxx:498-505` has `kvsymdb_reader_read`
   stop at the end with `ERR_BADENT` when the payload of a record is cut off. The
   assertion `record_end <= arena_end` (`_kvsymdb.inl.hpp:283`) ends the process
   before. A cut in a header is met before the assertions, and read as the end.

5. `lost_write`: `fwrite` leaves the last bytes in a buffer, the header always.
   They are written by the `fseek` at `kvsymdb.cxx:736` and by the `fclose` in
   `~CXX_FILE` (line 578), whose results nobody looks at. On a full disk the dump
   returns `KVSYMDB_OK`, and `symput` removes the good database and puts a file
   that does not map in its place.

Two things the runs leave out because no document says what should happen. Tools of
the same second share a temporary name: with `SameSecond` in `tools_race`,
`OwnFiles`, `HeaderLast` and `MappedStable` all fail (one tool truncates or renames
what the other still writes). And two tools that overlap both copy the old
database, so the one that renames last discards what the other has put: there is
no lock, and `ImplementsStore` is checked of tools that do not overlap.

The behaviours below are in the models as the code has them. They break no property
that is checked, some because the properties are stated around them:

* `jwkvmap`: `upsert` never counts a slot it adds, `remove` counts down for it, so
  `slot_count()` may wrap and `upsert_auto_rehash`, which asks it for the load, may never
  rehash (`tests/jwkv.cxx:288` inserts by it only). An upsert of a new key returns OK and
  leaves `ERR_NOT_FOUND` as the error. A slot whose key and value are both empty is
  made of 36 bytes, and its constructor writes 40 (`SlotsFit` excludes it).
* A mapper that failed closes descriptor 0 when it is destroyed. If the program has
  closed its standard input, a file it opens gets 0, and loses it so.
* `linked_list.cxx`: `free_node` refuses most nodes, and insertion before and after
  are swapped; a pop of an empty list returns the root.
* `pool_allocator.cxx`: freeing from a full pool ends the process; a pool that was moved
  from, or one never initialised on which a call failed, says that it is initialised.
* `vector.c`: `pop_back` returns the length minus two; `move_out` leaks; a copy of
  an object from itself empties it. `static_vector::pop_back` returns the length minus one.

`core` keeps away from the first three with its constants (records fit the smallest
arena, names fit `name_len`). Of what it checks, `BufLenWithinBufSize`, `EntriesStayValid` and
`ImplementsLog` are false of the code in general, and are proved under
the conditions that exclude the findings.

## 4. Proofs

`KVSymDB_proofs` and `KVReader_proofs` prove the following for
all sets of names and values, capacities, arena sizes, cuts and heap limits, under
`NoWrap` (heap and arguments stay well below the range of `uint32_t`; about 1 GiB for
the real one); the other modules prove theirs under the conditions in the table and
the named assumptions about the constants, which say only that names for "nothing" are
not names of something (`NoneAssumption`), that sizes are numbers
(`ParametersAssumption`), that no offset of a key list wraps (`NoWrapAssumption` of `MCObjects`), and
that a view is made of its two parts (`ViewsAssumption`):

| Theorem | Says |
|---|---|
| `Invariance` | `Spec => []IndInv` |
| `TypeCorrect` | `Spec => []TypeOK` |
| `ChainSafe` | `Spec => []RecordsChained` |
| `StatesSafe` | `Spec => []StatesTrackRecords` |
| `CompactionSafe` | `Spec => []CompactionHasRoom` |
| `ErrCodeSafe` | `Spec => []ErrCodeIsLastResult` |
| `FailedCallsSafe` | `Spec => FailedCallsChangeNothing` |
| `RecordsSafe` | `Spec => RecordsImmutable` |
| `FitInvariance` | `Spec => []FitInv` |
| `NoOverrun` | if `RecordsFit`: `Spec => []BufLenWithinBufSize` |
| `EntriesSafe` | if `NamesFit`: `Spec => []EntriesStayValid` |
| `LogImplemented` | if `NamesFit` and `RecordsFit`: `Spec => ImplementsLog` |
| `HandlesInvariance` | `SpecR => [](IndInv /\ FitInv /\ HandlesInv)` |
| `ReaderComplete`, `LoopComplete` | `SpecR => []ReadsAll`, `SpecR => []LoopMeetsAll` |
| `ReaderOrdered` | `SpecR => ReadsInOrder` |
| `ReaderSafe` | if `NamesFit`: `SpecR => WholeReaderSafe` |
| `FileInvariance`, `ToolsTyped` | if `OwnTmpNames` and `InitImagesOK`: `Spec => []FileInv`, `Spec => []ToolsOK` of `SymTools` |
| `FilesWhole`, `FilesOwned` | under the same conditions: `Spec => []HeaderLast`, `Spec => []OwnFiles` |
| `MappingsStable` | under the same conditions: `Spec => MappedStable` |
| `LastRecoverable` | if `Exclusive`, no disk fills and `InitImagesOK`: `Spec => []Recoverable` |
| `StoreImplemented` | if also `InitKeysOnce`: `Spec => ImplementsStore` |
| `FInvariance`, `FilesTyped` | `SpecF => []FInv`, `SpecF => []FileTypeOK` of `FileMapper` |
| `MappersOwnSafe`, `FdsAccountedSafe` | `SpecF => []MappersOwn`, `SpecF => []FdsAccounted` |
| `JInvariance`, `MapTyped` | `Spec => []JInv`, `Spec => []TypeOK` of `JwKVMap` |
| `PlacedSafe`, `SlotsOwnedSafe`, `BucketsCountSafe` | `Spec => []Placed`, `Spec => []SlotsOwned`, `Spec => []BucketsCount` |
| `SlotsFitSafe` | if `LensFit`: `Spec => []SlotsFit` |
| `CountDriftSafe` | `Spec => []CountDrift` |
| `MapImplemented` | `Spec => ImplementsMap` |
| `HeldSafe`, `LoopSafe` | `SpecI => []HeldStable`, `SpecI => LoopMeetsEachOnce` |
| `ObjectsInvariance`, `ObjectsTyped` | `SpecObjects => []ObjectsInv`, `SpecObjects => []ObjectTypes` of `MCObjects` |
| `OwnersSafe`, `PoolsSafe` | `SpecObjects => []OwnersSound`, `SpecObjects => []PoolsAccounted` |
| `LinksSafe`, `ContentsSafe` | `SpecObjects => []WellLinked`, `SpecObjects => ContentsKept` |

`RecordsFit` (no record is larger than the first arena) and `NamesFit` (names
are shorter than the range of `name_len`) are the exact conditions that findings
1 and 3 violate: the theorems say that nothing else breaks these properties. Without
`RecordsFit`, `IndInv` and the properties of records hold of blocks that are `Intact`, that is, until a
record overruns the arena; with it, by `NoOverrun`, that is always.

The argument is one inductive invariant, `IndInv`:

* `DbOK(db)`, if the block is intact, and `DbOK(ndb)`: types, the chain (`Chained`), the state array
  (`StatesMatch`), the block came from the heap (`BlockOK`), and every record
  is as long as its parts (`RecordOK`). The chain alone is not inductive: that an
  appended record ends on an aligned offset needs the lengths of the parts, and
  that nothing wraps needs the block to be bounded by the heap.
* `CompactionOK`: during a compaction the walk stands on a record or at the end,
  the new block has the capacities of the old one, and holds no more bytes, and no
  more ids, than the walk has passed. This is what gives `CompactionHasRoom`.
* `ErrCodeIsLastResult`, for the block a reallocation copies.

`RecordOK` says `align_off(name_len + 1) <= val_off` and not equality, because a
truncated `name_len` is smaller than the name: a copy may be shorter than the
record it is made from, never longer. So the argument needs no condition on names.
Likewise the proofs do not assume `buf_len <= buf_size`, which the code breaks: after an
overrun the invariant claims nothing of the records, and a compaction, which needs them, begins with
`assert_intrnl_state`.

A second, smaller invariant, `FitInv`, is proved on top of `IndInv`: while names
fit, a header says exactly where its value lies (`NamesExact`), and while records
fit, the arena is at least as large as any record (`ArenaHolds`), which is what
makes doubling enough. Its steps need `IndInv` of the state before.

`FailedCallsSafe` and `RecordsSafe` are action properties: each step is compared
with the state before it under `IndInv`. A reallocation is the hard case of the
second: the copy of `buf_len` bytes and `entrycnt` states must take all records
and all their states along.

The theorems about handles rest on `HandlesInv`, which is inductive relative to the
two invariants above. The word for where a handle stands is a place
(`IsPlaceOf`): the offset of the record of an id, or the end. Three facts about
places carry the proof: the place after that of an id is that of the next id
(`PlaceNext`); places are in the order of their ids, and a record before a place
ends before it (`PlacesOrdered`), so nothing steps over an end that is a place;
and places survive what is appended behind them (`PlaceKept`), which is all that a
call does that does not move the block (`CallGrows`).

The theorems about files hold for any number of tools, names and files, if no two
tools share a temporary name (`OwnTmpNames`) and the database there is in the
beginning is made of entries (`InitImagesOK`). The invariant `FileInv` adds to
`HeaderLast` and `OwnFiles` where each tool stands (`Stage`) and that an unfinished
file has no header and the prefix of the arena that was written (`Written`), from
which `HeaderCompletes` makes a file that maps. Four lemmas say whose file it is
(`OwnName`, `OwnOut`, `OwnUnmapped`, `OwnOpened`); the steps that write no file
and change no name go through one lemma (`Quiet`).

`KVSymDB_proofs` begins with the arithmetic: `align_off` rounds up to the next multiple
of 4 when nothing wraps, is monotone, and `entsize_required` is the sum of its
parts. `AppendOK` is the main lemma: a record written at `buf_len` overlaps none,
so `WriteRecord` keeps all, and the chain is extended by one.

For mappers, the invariant `FInv` says where a construction stands (`CallOK`), and
that what is open as the library's is what a mapper or the call has, and no two have the
same (`Distinct`, `DistinctCall`, `DbFds`, `DbMaps`). That a mapper's descriptor is not 0
is not a matter of counting: `dup` comes after `fopen` while the stream is still open, and
the system gives the lowest descriptor that is free, so the copy is larger than the
stream's (`call.dbif < call.fd`) although failed mappers close 0 at any other time.

The hash map has `JInv`: types, `Placed` for both maps, that a rehash has no key in
both (`JApart`), that every allocated slot is in one (`JOwned`), the counts, and what
is there in each phase. Chains change in two ways only, so there are two lemmas about
maps in any state, `PushOK` and `LeaveOutOK`, and two about a map with its heap,
`PushOwns` and `RemoveOwns`; an upsert of a key that is there is the second and then the
first (`ReplaceIsPush`). `JApart` is not among the checked invariants, and is what makes a relinked
slot keep `Placed` in the new map. `RehashEndFreesNone` uses that the old counts are
never too low: the old map is empty when it is deleted. `CountDrift` needs that
sums may wrap early or late (`ModAdd`). The refinement reads the map off the entries of
all allocated slots (`Ents`, `ValueIs`), so that a step which moves no entry changes no
key (`NoKeyChanges`), and one that touches the entries of a key changes that one only
(`OneKeyChanges`). `LensFit` (no key is empty together with its value) is the exact
condition that the slots of 36 bytes violate.

`HeldInv` adds that no upsert that waits for a rehash has the key of what is held.
`LoopInv` says of a loop which slots it has passed (`Passed`, by the bucket and the order
in the chain): of those it has met what is due, and of the others nothing. A push into
the bucket it stands in comes before it in the chain, hence is passed and not due;
leaving out another slot keeps the order (`BeforePush`, `BeforeLeft`).

What recursive definitions compute is proved by induction over numbers. The
library's induction theorems take an operator, which these provers cannot instantiate; but
its well-foundedness of the natural numbers is about sets, and `Induction` in
`DataLemmas` follows from it: a set that has 0 and with each number the next has all. So
walks, selections and free lists are recursive functions in the models, not recursive
operators. A table of a recursive function exists and is unique (`TableExists`,
`TablesAgree`, `TourExists`), and what it holds follows from what the links say
(`TourMeets`). `Selections` has its own definition of a selection because the `SelectSeq` of
the standard modules is a recursive operator.

`LogImplemented` rests on `LogInv`: during a compaction, the walk over the new block is the
selection of the live entries among those that the walk over the old one has passed. A step adds the
next entry if it is alive (`SelectionNext`), and at the end all are passed. It needs
`NamesFit` and `RecordsFit`, and so does the code: of a record with a truncated `name_len` a compaction copies
bytes from the wrong place, and an overrun replaces states, so that the log would change.

`LastRecoverable` and `StoreImplemented` are about tools that run one at a time, and follow
from `AloneInv`: at most one tool is at work, temporary names and the database's are
apart, what that tool has read and written so far is what its place in its program says
(`Doing`), and the database that was put in place last is under its name, or, when that
name is gone, under some other (`Kept`). For the refinement, the command that `SymStore` is asked is that
of the only tool at work (`AsksNow`, `AsksThen`, `NoneAsks`), and what a rename puts in place is the `Result`
of that command, of the records the tool has read. The induction is over the records of a
dump: each adds one to the part of the arena that is on the disk.

`ObjectsInv` is one invariant for each kind of object, which the others cannot disturb:

* `LInv` and `PInv`, of the two pools. That the links from the head of a free list meet each free
  chunk once and end is said by a witness, the sequence of the chunks (`IsFreeList`); an allocation takes
  its first element, a release puts one in front (`FreeListPop`, `FreeListPush`), and the
  loops in which `ChunksAccounted` and `IdxsAccounted` are stated meet just its elements
  (`FreeListMeets`). `LInv` adds the ring, in which the two links of each node are
  inverse to one another (`RingOn`).
* `KInv`: each arena is chained (`KArena`) by the true lengths of its keys, and a compaction and an
  iterator stand on an entry or at the end; of the arena a compaction fills every entry passes a
  read, since it was read from the old one.
* `OInv`, `VInv`: who owns which block, and that what is allocated is owned or lost. For
  `CopiesWhole`, `VCopy`: while a copy has dropped nothing, the object has the elements it has passed.
* `SInv`, `TInv`: what was sent is what is in the buffer up to the position of its stream;
  the array is the stack.

`ContentsSafe` adds two things that are not types or places but order. `LOrder(s)` says that
the links lead from the root through the nodes of the sequence `s` back to the root, and that
`s` has exactly the nodes in the list (`IsRound`). The four pairs of insertions are one step,
a node put behind a place (`LPut`), and pops and erasures another (`LTake`); a loop meets `s`
(`LWalk`), so each of them is a step of `NodeDeque`, at the place that the call was given
(`LPlaces`). `KLog` is for key lists what `LogInv` is for
the database. It rests on a fact of counting (`KEvery`): a loop over `entrycnt`
entries meets different ones, since their numbers differ, and there are no more
than `entrycnt`, so it misses none.

Only model-checked is `CompactTerminates`: it is a liveness property, and neither fairness nor
`ENABLED` is within these provers' reach. The runs that expect a violation are, of course,
not proved either: they show a behaviour.

## 5. Not modelled

* The drafts (`src/kvsymdb copy.cxx`, `src/_kvsymdb.inl copy.hpp`,
  `include/_cxx_kvsymdb copy.hpp`, `include/kvsymdb copy.h`): earlier versions of the modelled files,
  which nothing builds. They are more than a quarter of the lines of the repository's code.
* `src/zlib.h`, `src/sys/mman.h`, `bin/`, `lib/`: of others, or binaries. `crc32`,
  `mmap`, `dup` and the heap are modelled by what the code uses of them.
* The C pool, list and stack of `old_stuff/src/`: earlier forms of `pool_allocator.cxx`,
  `linked_list.cxx` and of the vectors, not built. (Read along the way: `pool_alloc.c`
  reads its links at a stride of `sizeof(elem_size)`, so that a pool of three or more
  elements of 8 bytes fails an assertion at the third allocation.)
* The hash function, printing, `strerror`, and the types of entries, which nothing
  decides on.
* Of the modelled parts: the wrap of `uint32_t` sizes near 4 GiB and a file shorter than
  a header (`_kvsymdb.inl.hpp:334`, `:505`); that dead entries come back from a dump
  (`kvsymdb.cxx:707`); the stale error code of a rewound reader (`:517`); pools whose second
  allocation fails (`linked_list.cxx:447`); a container given one of its own elements,
  which growth frees; handles used after their memory was freed.

## 6. Plan

Done: `KVLayout`, `KVSymDB`, `KVLog`; `KVReader`; `KVFile`, `SymTools`, `SymStore`;
`FileMapper`, `KVOwner`; `JwKVMap`, `JwMap`, `JwKVMapIter`; the containers; and the proofs
of section 4, which cover every safety property that a run checks. Left, in order of importance:

1. Dead entries in a dump, lengths of files in bytes, and a file shorter than a header.
2. Wrapping of `uint32_t` sizes near 4 GiB, as a run of its own.
3. Of the containers, pools whose second allocation fails, and elements of a vector that are pushed to it.

## 7. Running

    tlc -config core.cfg MCKVSymDB.tla      (wide, overrun, oom_insert, long_name alike)
    tlc -config reader.cfg MCKVReader.tla   (cut_record alike)
    tlc -config tools_race.cfg MCSymTools.tla   (tools_exclusive, lost_write alike)
    tlc -config jwkvmap.cfg MCJwKVMap.tla
    tlc -config objects.cfg MCObjects.tla

    tlapm DataLemmas.tla
    tlapm KVSymDB_proofs.tla
    tlapm KVReader_proofs.tla
    tlapm SymTools_proofs.tla
    tlapm FileMapper_proofs.tla
    tlapm JwKVMap_proofs.tla
    tlapm Pools_proofs.tla
    tlapm Objects_proofs.tla
