------------------------------ MODULE Exchange -------------------------------
(***************************************************************************)
(* One connection from the first byte of its request to the last of its    *)
(* response: the parsers as users of BufferedStreamReader, then            *)
(* _WriteResponse as the user of BufferedStreamWriter.                     *)
(*                                                                         *)
(* The Basic and the Threaded server read the header by Read() and the     *)
(* body by Read(buffer, length), and stay in them until the request is     *)
(* there or wrong ("blocking"); the Mayhem server feeds what Read()        *)
(* returns to its parser and comes back on the next event ("async").  What *)
(* the header says is left to module Parsers: here it has HeaderLength     *)
(* bytes and announces `length`.                                           *)
(***************************************************************************)
EXTENDS ResponseWriter, StreamReader

CONSTANTS
    HeaderLength,   \* the bytes before the body
    MaxContent,     \* bound: the announced lengths
    MaxExtra,       \* bound: the bytes sent after the request
    MaxBody,        \* 4096, the longest body RequestParser takes
    Word            \* 2^w for a size_t of w bits

ASSUME ExchangeAssumption ==
    /\ ReaderSize \in Nat \ {0} /\ HeaderLength \in Nat \ {0}
    /\ MaxContent \in Nat /\ MaxExtra \in Nat /\ MaxBody \in Nat
    /\ Word \in Nat /\ Word > MaxContent + MaxExtra + ReaderSize

VARIABLES
    parser,     \* "blocking" or "async"
    length,     \* ContentLength
    at,         \* where the exchange is
    parsing,    \* async: inside Parse
    text,       \* the bytes of the header the parser was given
    body,       \* HttpRequest::Body
    rest        \* local `remaining` of Read(buffer, length)

writerVars == <<response, part, remaining, next, buffer, sent, failed, destroyed>>
parserVars == <<parser, length, at, parsing, text, body, rest>>

exchangeVars == <<readerVars, parserVars, writerVars>>

\* The bytes of a client: all of them characters, or one of them not.  The last
\* byte of the header is a new line.
Streams(n) ==
    {[i \in 1 .. n |-> IF i = j THEN k ELSE "char"] : j \in 1 .. n \ {HeaderLength}, k \in ByteKinds}
        \cup {[i \in 1 .. n |-> "char"]}

ExchangeInit ==
    /\ parser \in {"blocking", "async"}
    /\ length \in 0 .. MaxContent
    /\ \E n \in 0 .. HeaderLength + length + MaxExtra : stream \in Streams(n)
    /\ closes \in BOOLEAN
    /\ ReaderInit
    /\ at = "header" /\ parsing = TRUE
    /\ text = <<>> /\ body = <<>> /\ rest = 0
    /\ response = <<>> /\ part = 0 /\ remaining = 0 /\ next = 0
    /\ buffer = <<>> /\ sent = <<>>
    /\ failed = FALSE /\ destroyed = FALSE

------------------------------------------------------------------------------
(* Read(): one character *)

\* The byte Read() returns next, and its kind.
Byte == block[head + 1]
Kind == stream[Byte]

\* A parser calls Read(): the parser of the Mayhem server for the body too.
Calls == parsing /\ (at = "header" \/ (at = "body" /\ parser = "async"))

Refill ==
    /\ Calls /\ ~ eof
    /\ ReaderFlush
    /\ UNCHANGED <<parserVars, writerVars>>

CanRead == Calls /\ ~ eof /\ ~ IsEmpty

\* Read() returns EndOfFile: no parser has its request then.
ReadEnd ==
    /\ Calls /\ eof
    /\ at' = "refused"
    /\ UNCHANGED <<parser, length, parsing, text, body, rest, readerVars, writerVars>>

------------------------------------------------------------------------------
(* RequestParser *)

\* A character of the header.  After the last one comes the body, if any; a
\* length past the limit is refused.
HeaderChar ==
    /\ CanRead /\ parser = "blocking"
    /\ Kind \notin {"nul", "minusOne"}
    /\ Advance(1)
    /\ text' = Append(text, Byte)
    /\ IF Byte # HeaderLength THEN UNCHANGED <<at, rest>>
       ELSE /\ rest' = length
            /\ at' = IF length = 0 THEN "accepted" ELSE IF length > MaxBody THEN "refused" ELSE "body"
    /\ UNCHANGED <<parser, length, parsing, body, writerVars>>

\* -1 is taken for the end and 0 for a delimiter: the token ends, and the byte
\* is gone.  Whether a token may end there is up to the header.
HeaderGap ==
    /\ CanRead /\ parser = "blocking"
    /\ Kind \in {"nul", "minusOne"}
    /\ Advance(1)
    /\ at' \in {"header", "refused"}
    /\ UNCHANGED <<parser, length, parsing, text, body, rest, writerVars>>

\* Read(buffer, length): the loop goes on, and _Flush finds the buffer empty.
BodyRefill ==
    /\ at = "body" /\ parser = "blocking"
    /\ rest > 0 /\ ~ eof
    /\ ReaderFlush
    /\ at' = "copy"
    /\ UNCHANGED <<parser, length, parsing, text, body, rest, writerVars>>

\* What is copied is bounded by `length`, not by what remains of it, which is
\* a size_t.  Behind the end of Body is memory of others.
CopyBody ==
    /\ \/ at = "copy"
       \/ at = "body" /\ parser = "blocking" /\ rest > 0 /\ ~ eof /\ ~ IsEmpty
    /\ LET size == Min({length, Unread}) IN
          IF size = 0
          THEN at' = "refused" /\ UNCHANGED <<body, rest, readerVars>>
          ELSE /\ body' = body \o SubSeq(block, head + 1, head + size)
               /\ Advance(size)
               /\ rest' = (rest - size) % Word
               /\ at' = "body"
    /\ UNCHANGED <<parser, length, parsing, text, writerVars>>

\* Variant of BodyEnd: the count is not compared.
BodyEndUnchecked ==
    /\ at = "body" /\ parser = "blocking"
    /\ rest = 0 \/ eof
    /\ at' = "accepted"
    /\ UNCHANGED <<parser, length, parsing, text, body, rest, readerVars, writerVars>>

\* The loop is left, and _ParseBody compares the count with the length.
BodyEnd ==
    /\ at = "body" /\ parser = "blocking"
    /\ rest = 0 \/ eof
    /\ at' = IF rest = 0 THEN "accepted" ELSE "refused"
    /\ UNCHANGED <<parser, length, parsing, text, body, rest, readerVars, writerVars>>

------------------------------------------------------------------------------
(* AsyncHttpContextBuilder::Parse *)

\* A character goes to the parser, which says when the request is complete.
Feed ==
    /\ CanRead /\ parser = "async"
    /\ Kind = "char"
    /\ Advance(1)
    /\ IF at = "header"
       THEN /\ text' = Append(text, Byte)
            /\ at' = IF Byte # HeaderLength THEN at ELSE IF length = 0 THEN "accepted" ELSE "body"
            /\ UNCHANGED body
       ELSE /\ body' = Append(body, Byte)
            /\ at' = IF Len(body') = length THEN "accepted" ELSE at
            /\ UNCHANGED text
    /\ UNCHANGED <<parser, length, parsing, rest, writerVars>>

\* Anything that is not positive ends Parse; the byte is gone.  -1 and -3 are
\* taken for EndOfFile and Error, the others for "call again".
FeedNot ==
    /\ CanRead /\ parser = "async"
    /\ Kind # "char"
    /\ Advance(1)
    /\ IF Kind \in {"minusOne", "minusThree"} THEN at' = "refused" /\ UNCHANGED parsing
                                              ELSE parsing' = FALSE /\ UNCHANGED at
    /\ UNCHANGED <<parser, length, text, body, rest, writerVars>>

\* The socket has an event again if something is still to come; what is left in
\* the buffer makes none.
ParseAgain ==
    /\ ~ parsing
    /\ received < Len(stream) \/ closes
    /\ parsing' = TRUE
    /\ UNCHANGED <<parser, length, at, text, body, rest, readerVars, writerVars>>

------------------------------------------------------------------------------
(* The response *)

\* The context is dispatched, and _WriteResponse constructs its writer.  What the
\* request was does not matter any more: the parser's reader is gone with what
\* is left in its buffer.
Respond ==
    /\ at = "accepted"
    /\ at' = "respond"
    /\ response' \in Responses
    /\ stream' = <<>> /\ closes' = FALSE /\ received' = 0
    /\ block' = <<>> /\ head' = 0 /\ eof' = FALSE
    /\ text' = <<>> /\ body' = <<>> /\ rest' = 0 /\ length' = 0
    /\ parsing' = TRUE /\ parser' = "blocking"
    /\ UNCHANGED <<broken, part, remaining, next, buffer, sent, failed, destroyed>>

\* _WriteResponse, to the end of the writer's destructor.
Write ==
    /\ at = "respond"
    /\ Next
    /\ UNCHANGED <<parserVars, readerVars>>

\* DestroyHttpContext.
Close ==
    /\ at = "respond" /\ destroyed
    /\ at' = "closed"
    /\ UNCHANGED <<parser, length, parsing, text, body, rest, readerVars, writerVars>>

ExchangeNext ==
    \/ Refill \/ ReadEnd
    \/ HeaderChar \/ HeaderGap \/ BodyRefill \/ CopyBody \/ BodyEnd
    \/ Feed \/ FeedNot \/ ParseAgain
    \/ Respond \/ Write \/ Close

ExchangeSpec == ExchangeInit /\ [][ExchangeNext]_exchangeVars

\* The thread runs, and recv returns when something has arrived; it need not fail.
FairExchange == ExchangeSpec /\ WF_exchangeVars(UNCHANGED broken /\ ExchangeNext)

------------------------------------------------------------------------------
(* Properties *)

Given == text \o body

\* The bytes that Read() gives a parser as something else than a character it
\* keeps.  Read(buffer, length) copies every byte.
Odd(i) ==
    IF parser = "async" THEN stream[i] # "char"
    ELSE i <= HeaderLength /\ stream[i] \in {"nul", "minusOne"}

\* However recv cuts the stream, the parsers are given its bytes in their order,
\* none twice, and none is missing but odd ones.
BytesInOrder ==
    ~ broken /\ Given # <<>> =>
        /\ \A i, j \in DOMAIN Given : i < j => Given[i] < Given[j]
        /\ \A b \in 1 .. Given[Len(Given)] : Odd(b) \/ \E i \in DOMAIN Given : Given[i] = b

\* The body of an accepted request is as long as announced, and is what follows
\* the header, whatever is sent after it.
BodyExact ==
    at = "accepted" =>
        /\ Len(body) = length
        /\ ~ broken /\ (\A i \in DOMAIN stream : i > HeaderLength => ~ Odd(i)) =>
               body = [i \in 1 .. length |-> HeaderLength + i]

\* A request is not refused unless something was wrong with it: recv failed, the
\* client closed its side too early, a byte of it is odd, its body is too long,
\* or, with RequestParser, more follows the body.
RefusedHasCause ==
    at = "refused" =>
        \/ broken
        \/ closes /\ Len(stream) < HeaderLength + length
        \/ \E i \in DOMAIN stream : Odd(i)
        \/ parser = "blocking" /\ (length > MaxBody \/ Len(stream) > HeaderLength + length)

\* A request that is all characters and neither cut off nor (for RequestParser)
\* too long nor followed by anything is answered, or recv fails.
WholeRequest ==
    /\ \A i \in DOMAIN stream : stream[i] = "char"
    /\ IF parser = "async" THEN Len(stream) >= HeaderLength + length
       ELSE Len(stream) = HeaderLength + length /\ length <= MaxBody

RequestAnswered == (at = "header" /\ WholeRequest) ~> (at = "closed" \/ broken)

==============================================================================
