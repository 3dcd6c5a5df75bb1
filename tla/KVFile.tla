------------------------------- MODULE KVFile -------------------------------
(***************************************************************************)
(* The contents of a database file: a header, and the records of an arena  *)
(* behind it.  kvsymdb_file_builder_dump writes the records first and the  *)
(* header last, and kvsymdb_file_mapper_init takes a file whose header is  *)
(* right, whose length is enough and whose checksum fits.                  *)
(*                                                                         *)
(* The unit of length is a record.  The checksum is abstracted to the      *)
(* records it was computed from: two arenas never share one.               *)
(***************************************************************************)
EXTENDS Naturals, Sequences

CONSTANTS
  NoHdr,    \* the header of a file that has none, or zeros in its place
  Hole      \* zeros, where a write behind the end made the file longer

\* What fopen(filename, "wb") makes of a file.
EmptyFile == [hdr |-> NoHdr, body |-> <<>>]

\* A record of the arena, written at its place behind the header.
WithRecord(file, at, record) ==
  LET len == IF at < Len(file.body) THEN Len(file.body) ELSE at IN
  [hdr  |-> file.hdr,
   body |-> [i \in 1..len |-> IF i = at THEN record
                              ELSE IF i <= Len(file.body) THEN file.body[i]
                              ELSE Hole]]

\* A mutant: the header tells of one record less.
WithShortHeader(file, image) ==
  [hdr |-> [fh_buflen |-> Len(image) - 1, fh_crc32 |-> image], body |-> file.body]

WithHeader(file, image) ==
  [hdr |-> [fh_buflen |-> Len(image), fh_crc32 |-> image], body |-> file.body]

\* Zeros fail the test of the magic number.
is_valid_file_header(file) ==
  file.hdr # NoHdr /\ file.hdr.fh_buflen <= Len(file.body)

\* The arena of a mapped file, as its header tells of it.
Arena(file) == [i \in 1..file.hdr.fh_buflen |-> file.body[i]]

\* kvsymdb_file_mapper_init succeeds.
Maps(file) == is_valid_file_header(file) /\ Arena(file) = file.hdr.fh_crc32
=============================================================================
