---------------------------- MODULE StreamReader -----------------------------
(***************************************************************************)
(* minet/src/io/StreamReader.cpp: the buffer between recv and the parsers. *)
(*                                                                         *)
(* The bytes a client sends are numbered from 1, so that a byte that is    *)
(* lost, doubled or misplaced shows.  What matters of a byte is how it     *)
(* comes out of Read(), which returns a signed char: as a character, as 0, *)
(* as a negative number, or as one of the status values -1 and -3.         *)
(*                                                                         *)
(* The socket blocks, so recv has no step while nothing has arrived, and   *)
(* the branch for EAGAIN in _Flush is not taken.                           *)
(***************************************************************************)
EXTENDS Integers, Sequences, FiniteSetsExt

CONSTANT ReaderSize     \* _sBufferSize

VARIABLES
    stream,     \* the bytes the client sends: what kind each of them is
    closes,     \* whether it closes its side after them
    received,   \* how many of them recv has returned
    block,      \* what the last recv put in _buffer; _tail is its end
    head,       \* _head
    eof,        \* _eof
    broken      \* history: recv failed once

readerVars == <<stream, closes, received, block, head, eof, broken>>

ByteKinds == {"char", "nul", "negative", "minusOne", "minusThree"}

\* Of a new reader.
ReaderInit ==
    /\ received = 0
    /\ block = <<>> /\ head = 0 /\ eof = FALSE
    /\ broken = FALSE

IsEmpty == head = Len(block)
Unread  == Len(block) - head

------------------------------------------------------------------------------
(* _Flush, when the buffer is empty; otherwise it does nothing. *)

\* Variant of RecvSome: the end is assumed when recv returns less than asked.
RecvSomeShortIsEnd ==
    /\ \E n \in 1 .. Min({ReaderSize, Len(stream) - received}) :
          /\ block' = [i \in 1 .. n |-> received + i]
          /\ received' = received + n
          /\ eof' = (n < ReaderSize)
    /\ head' = 0
    /\ UNCHANGED broken

\* Variant of RecvSome: recv waits until the buffer is full (MSG_WAITALL).
RecvSomeFull ==
    /\ Len(stream) - received >= ReaderSize
    /\ block' = [i \in 1 .. ReaderSize |-> received + i]
    /\ received' = received + ReaderSize
    /\ head' = 0 /\ eof' = FALSE
    /\ UNCHANGED broken

\* recv returns some of what has arrived.
RecvSome ==
    /\ \E n \in 1 .. Min({ReaderSize, Len(stream) - received}) :
          /\ block' = [i \in 1 .. n |-> received + i]
          /\ received' = received + n
    /\ head' = 0 /\ eof' = FALSE
    /\ UNCHANGED broken

RecvEnd ==                              \* it returns 0
    /\ closes /\ received = Len(stream)
    /\ block' = <<>> /\ head' = 0 /\ eof' = TRUE
    /\ UNCHANGED <<received, broken>>

\* _head goes back to the start of the buffer and _tail does not.
RecvFails ==
    /\ head' = 0 /\ eof' = TRUE
    /\ broken' = TRUE
    /\ UNCHANGED <<received, block>>

ReaderFlush ==
    /\ IsEmpty
    /\ RecvSome \/ RecvEnd \/ RecvFails
    /\ UNCHANGED <<stream, closes>>

\* Variant of Advance: _head stays where it is.
AdvanceNot(n) == UNCHANGED readerVars

\* n bytes are taken out of the buffer: *_head++, or memcpy and _head += size.
Advance(n) ==
    /\ head' = head + n
    /\ UNCHANGED <<stream, closes, received, block, eof, broken>>

==============================================================================
