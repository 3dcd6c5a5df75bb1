------------------------------ MODULE MemStream ------------------------------
(***************************************************************************)
(* jwio_cxx: a buffer_ostream that writes to a buffer, and a               *)
(* buffer_istream that reads what was written, as in tsstr.cxx, where the  *)
(* one is closed before the other is opened on the length it wrote.        *)
(* Pointers are offsets from the start of the buffer.                      *)
(***************************************************************************)
EXTENDS Integers, SequencesExt

CONSTANTS
  Bytes,
  BufSize,  \* the size of the buffer
  Closed

Count == 0..(BufSize + 1)   \* the counts and offsets that callers ask for

VARIABLES
  buf,   \* the buffer
  ost,   \* the ostream: where it stands, or Closed
  ist,   \* the istream: where it stands and its end, or Closed
  sent,  \* history: the bytes of the message that was written, up to where ost stands
  from,  \* history: where ist was opened or moved to
  got    \* history: the bytes it has read since, or -1 for the end

svars == <<buf, ost, ist, sent, from, got>>

InitS ==
  /\ buf = [i \in 1..BufSize |-> 0]
  /\ ost = Closed /\ ist = Closed
  /\ sent = <<>> /\ from = 0 /\ got = <<>>

AtMost(n, max) == IF n > max THEN max ELSE n

-----------------------------------------------------------------------------
(* buffer_ostream *)

OpenOut ==
  /\ ost = Closed /\ ist = Closed
  /\ ost' = 0 /\ sent' = <<>>
  /\ UNCHANGED <<buf, ist, from, got>>

\* write of a count of the byte b; what does not fit is not written.
Write(count, b) ==
  /\ ost # Closed
  /\ LET n == AtMost(count, BufSize - ost) IN
       /\ buf'  = [i \in 1..BufSize |-> IF i \in (ost + 1)..(ost + n) THEN b ELSE buf[i]]
       /\ ost'  = ost + n
       /\ sent' = sent \o [i \in 1..n |-> b]
  /\ UNCHANGED <<ist, from, got>>

SeekOut(offset) ==
  /\ ost # Closed
  /\ ost'  = AtMost(offset, BufSize)
  /\ sent' = SubSeq(buf, 1, AtMost(offset, BufSize))
  /\ UNCHANGED <<buf, ist, from, got>>

\* The ostream is closed, and an istream opened on what it wrote: on nothing, open fails.
OpenIn ==
  /\ ost # Closed /\ ost # 0
  /\ ist' = [cur |-> 0, last |-> ost]
  /\ ost' = Closed
  /\ from' = 0 /\ got' = <<>>
  /\ UNCHANGED <<buf, sent>>

OpenInFails ==
  /\ ost = 0
  /\ ost' = Closed
  /\ UNCHANGED <<buf, ist, sent, from, got>>

-----------------------------------------------------------------------------
(* buffer_istream *)

\* A mutant: one byte more than there is.
ReadBeyond(count) ==
  /\ ist # Closed
  /\ LET n == AtMost(count, ist.last + 1 - ist.cur) IN
       /\ got' = got \o SubSeq(buf, ist.cur + 1, ist.cur + n)
       /\ ist' = [ist EXCEPT !.cur = @ + n]
  /\ UNCHANGED <<buf, ost, sent, from>>

Read(count) ==
  /\ ist # Closed
  /\ LET n == AtMost(count, ist.last - ist.cur) IN
       /\ got' = got \o SubSeq(buf, ist.cur + 1, ist.cur + n)
       /\ ist' = [ist EXCEPT !.cur = @ + n]
  /\ UNCHANGED <<buf, ost, sent, from>>

SeekIn(offset) ==
  /\ ist # Closed
  /\ ist' = [ist EXCEPT !.cur = AtMost(offset, ist.last)]
  /\ from' = AtMost(offset, ist.last) /\ got' = <<>>
  /\ UNCHANGED <<buf, ost, sent>>

CloseIn ==
  /\ ist # Closed
  /\ ist' = Closed
  /\ from' = 0 /\ got' = <<>>
  /\ UNCHANGED <<buf, ost, sent>>

NextS ==
  \/ OpenOut \/ OpenIn \/ OpenInFails \/ CloseIn
  \/ \E n \in Count : SeekOut(n) \/ Read(n) \/ SeekIn(n)
  \/ \E n \in Count, b \in Bytes : Write(n, b)

SpecS == InitS /\ [][NextS]_svars

-----------------------------------------------------------------------------
(* Properties *)

\* Whatever the counts that it is written and read in, and wherever both streams
\* are moved to, the reader gets the bytes of the message from where it stands, each
\* once and in order, and none behind its end.
ReadsWhatWasSent ==
  /\ ost # Closed => ost \in 0..BufSize /\ sent = SubSeq(buf, 1, ost)
  /\ ist # Closed =>
       /\ ist.last <= BufSize /\ ist.cur \in 0..ist.last
       /\ sent = SubSeq(buf, 1, ist.last)
       /\ got = SubSeq(sent, from + 1, ist.cur)
=============================================================================
