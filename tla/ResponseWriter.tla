--------------------------- MODULE ResponseWriter ----------------------------
(***************************************************************************)
(* minet/src/io/StreamWriter.cpp under RequestDispatcher::_WriteResponse:  *)
(* the parts of a response (names, separators, values, and last the body)  *)
(* go through a buffer to the socket.                                      *)
(*                                                                         *)
(* The characters of a response are numbered from 1.  send either takes    *)
(* the whole buffer or fails; that it takes a part of it is excluded by    *)
(* the assertion in Flush.                                                 *)
(***************************************************************************)
EXTENDS Integers, Sequences, FiniteSetsExt

CONSTANTS
    BufferSize,     \* _sBufferSize
    MaxParts,       \* bound: the parts of a response
    MaxLength       \* bound: the characters of a part

ASSUME WriterAssumption ==
    /\ BufferSize \in Nat \ {0}
    /\ MaxParts \in Nat \ {0} /\ MaxLength \in Nat

VARIABLES
    response,   \* the length of each part
    part,       \* how many parts Write was called with
    remaining,  \* local `remaining` of Write
    next,       \* the characters that Write has been given and is done with
    buffer,     \* _buffer up to _tail
    sent,       \* what send took
    failed,     \* history: send failed once
    destroyed   \* the writer's destructor has run

vars == <<response, part, remaining, next, buffer, sent, failed, destroyed>>

Responses == UNION {[1 .. n -> 0 .. MaxLength] : n \in 1 .. MaxParts}

Init ==
    /\ response \in Responses
    /\ part = 0 /\ remaining = 0 /\ next = 0
    /\ buffer = <<>> /\ sent = <<>>
    /\ failed = FALSE /\ destroyed = FALSE

\* Variant of Sent: _tail is not set back.
SentKeep ==
    /\ sent' = sent \o buffer
    /\ UNCHANGED <<buffer, failed>>

Sent ==
    /\ sent' = sent \o buffer
    /\ buffer' = <<>>
    /\ UNCHANGED failed

SendFails ==
    /\ failed' = TRUE
    /\ UNCHANGED <<sent, buffer>>

\* A buffer that is not empty is sent; the result is negative either way.
Flush == IF buffer = <<>> THEN UNCHANGED <<sent, buffer, failed>> ELSE Sent \/ SendFails

WriteBegin ==
    /\ remaining = 0 /\ part < Len(response)
    /\ part' = part + 1
    /\ remaining' = response[part + 1]
    /\ UNCHANGED <<response, next, buffer, sent, failed, destroyed>>

\* One turn of the loop, with room in the buffer.
Copy ==
    /\ remaining > 0
    /\ Len(buffer) < BufferSize
    /\ LET size == Min({remaining, BufferSize - Len(buffer)}) IN
          /\ buffer' = buffer \o [i \in 1 .. size |-> next + i]
          /\ next' = next + size
          /\ remaining' = remaining - size
    /\ UNCHANGED <<response, part, sent, failed, destroyed>>

\* The buffer is full: Flush returns a negative value, and the loop is left
\* with the rest of the part.
Full ==
    /\ remaining > 0
    /\ Len(buffer) = BufferSize
    /\ Flush
    /\ next' = next + remaining /\ remaining' = 0
    /\ UNCHANGED <<response, part, destroyed>>

\* Variant of Destructor: the buffer is not flushed.
DestructorDropping ==
    /\ remaining = 0 /\ part = Len(response) /\ ~ destroyed
    /\ destroyed' = TRUE
    /\ UNCHANGED <<response, part, remaining, next, buffer, sent, failed>>

Destructor ==
    /\ remaining = 0 /\ part = Len(response) /\ ~ destroyed
    /\ Flush
    /\ destroyed' = TRUE
    /\ UNCHANGED <<response, part, remaining, next>>

Next == WriteBegin \/ Copy \/ Full \/ Destructor

Spec == Init /\ [][Next]_vars

------------------------------------------------------------------------------
(* Properties *)

\* No character of the response is sent twice or before an earlier one, even
\* though parts of it may be missing.
NothingTwice ==
    LET out == sent \o buffer
    IN  \A i, j \in DOMAIN out : i < j => out[i] < out[j]

\* A response that fits in the buffer is sent whole when the socket takes it.
ShortResponseWhole ==
    destroyed /\ ~ failed /\ next <= BufferSize => sent = [i \in 1 .. next |-> i]

\* HttpContext.h: ContentLength is the "length of the response body".  It is
\* in the headers that were sent; as many characters of the body follow.
BodyHasItsLength ==
    destroyed /\ ~ failed =>
        \A i \in next - response[Len(response)] + 1 .. next : \E j \in DOMAIN sent : sent[j] = i

==============================================================================
