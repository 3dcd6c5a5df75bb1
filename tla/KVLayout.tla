------------------------------ MODULE KVLayout ------------------------------
(***************************************************************************)
(* The byte layout of kvsymdb: alignment, the size of a record, the size   *)
(* of a database block, and the record header (_kvsymdb.inl.hpp,           *)
(* kvsymdb.h).  Sizes are numbers of bytes and keep the width they have in *)
(* the code: uint32_t arithmetic is taken modulo U32Mod and the uint16_t   *)
(* field name_len modulo NameLenMod, so that a model with small moduli     *)
(* shows what wraps.  Payload bytes are abstracted to the identity of the  *)
(* buffer they were copied from.                                           *)
(***************************************************************************)
EXTENDS Integers

CONSTANTS
  U32Mod,       \* 2^32 in the code: the modulus of uint32_t
  NameLenMod    \* 2^16 in the code: the modulus of the field name_len

ASSUME WidthAssumption ==
  /\ U32Mod \in Nat \ {0}
  /\ NameLenMod \in Nat \ {0}

ALIGN_SIZE   == 4     \* kvsymdb::ALIGN_SIZE
INIT_BUFSIZE == 32    \* kvsymdb::INIT_BUFSIZE
INIT_ENTC    == 1     \* kvsymdb::INIT_ENTC
RecHdrSize   == 20    \* sizeof(kvsymdb_record_header_t)
DbHdrSize    == 32    \* sizeof(kvsymdb_t) in a 64-bit build

U32(n) == n % U32Mod

-----------------------------------------------------------------------------
(* Alignment *)

\* (base + 3) & ~3 on uint32_t: the sum wraps, then the low bits are cleared.
align_off(n) == LET sum == U32(n + ALIGN_SIZE - 1) IN sum - (sum % ALIGN_SIZE)

is_aligned_off(n) == align_off(n) = n

\* The callers pass a size_t where the parameter is a uint32_t.
cstr_size_aligned(len) == align_off(U32(U32(len) + 1))

blob_size_aligned(size) == align_off(U32(size))

-----------------------------------------------------------------------------
(* Buffer views, records and database blocks *)

\* The buf_data of a view that points nowhere, and of one whose bytes are not
\* those of any buffer a caller passed.
NULL    == "null"
Garbage == "garbage"

\* kvsymdb_bufview_t: a pointer, abstracted to what it points to, and a size.
View(size, data) == [buf_size |-> size, buf_data |-> data]

\* A view that kvsymdb_insert refuses.
IsEmptyView(view) == view.buf_data = NULL \/ view.buf_size = 0

entsize_required(key, val) ==
  U32(RecHdrSize + cstr_size_aligned(key.buf_size)
                 + blob_size_aligned(val.buf_size))

\* The header kvsymdb_insert writes, with the payload that follows it: the
\* bytes of the key, and those of the value val_off bytes further on.
Record(id, key, val) ==
  [id         |-> id,
   name_len   |-> key.buf_size % NameLenMod,
   data_len   |-> U32(val.buf_size),
   record_len |-> entsize_required(key, val),
   key        |-> key.buf_data,
   val        |-> val.buf_data,
   val_off    |-> cstr_size_aligned(key.buf_size)]

\* A mutant: the terminator of the name is not counted.
record_size_no_nul(ent) ==
  U32(RecHdrSize + blob_size_aligned(ent.name_len)
                 + blob_size_aligned(ent.data_len))

\* The length a record should have, judged by the other fields of its header.
record_size(ent) ==
  U32(RecHdrSize + cstr_size_aligned(ent.name_len)
                 + blob_size_aligned(ent.data_len))

\* What get_entry_view makes of a record: the first name_len bytes of the key,
\* and data_len bytes from where a key of that length would have ended.
NameView(ent) == View(ent.name_len, ent.key)

DataView(ent) ==
  View(ent.data_len,
       IF cstr_size_aligned(ent.name_len) = ent.val_off THEN ent.val
                                                        ELSE Garbage)

\* The bytes requested from operator new for one database block: header,
\* arena and state array.
calc_buf_size(entc, arena_size) ==
  U32(DbHdrSize + align_off(arena_size) + align_off(entc))
=============================================================================
