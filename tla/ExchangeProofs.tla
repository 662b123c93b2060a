--------------------------- MODULE ExchangeProofs ----------------------------
(***************************************************************************)
(* Theorems about ResponseWriter, for every size of the buffer and every   *)
(* response, and about Exchange, for every size of the two buffers, every  *)
(* length of the header and the body, and every way recv cuts the stream:  *)
(* what the parsers are given of it, and when they refuse it.  The writer  *)
(* comes first: in an exchange it takes the same steps.                    *)
(***************************************************************************)
EXTENDS Exchange, SequenceTheorems, TLAPS

------------------------------------------------------------------------------
(* Characters in their order *)

\* s has numbers from 1 to n in their order, each at most once.
InOrder(s, n) ==
    /\ \A i, j \in DOMAIN s : i < j => s[i] < s[j]
    /\ \A i \in DOMAIN s : s[i] \in 1 .. n

\* The k numbers that follow n.
Following(n, k) == [i \in 1 .. k |-> n + i]

\* The smaller one of two numbers.
LEMMA MinOfTwo ==
    ASSUME NEW a \in Int, NEW b \in Int
    PROVE  Min({a, b}) = IF a <= b THEN a ELSE b
<1> DEFINE m == IF a <= b THEN a ELSE b
<1>1. m \in {a, b} /\ \A x \in {a, b} : m <= x
  OBVIOUS
<1>2. \A y \in {a, b} : (\A x \in {a, b} : y <= x) => y = m
  OBVIOUS
<1> QED BY <1>1, <1>2 DEF Min

\* What two sequences are joined to.
LEMMA Joined ==
    ASSUME NEW s \in Seq(Nat), NEW t \in Seq(Nat)
    PROVE  /\ s \o t \in Seq(Nat) /\ Len(s \o t) = Len(s) + Len(t)
           /\ DOMAIN (s \o t) = 1 .. Len(s) + Len(t)
           /\ \A i \in 1 .. Len(s) : (s \o t)[i] = s[i]
           /\ \A i \in 1 .. Len(t) : (s \o t)[Len(s) + i] = t[i]
OBVIOUS

\* In which order three sequences are joined does not matter.
LEMMA JoinedTwice ==
    ASSUME NEW s \in Seq(Nat), NEW t \in Seq(Nat), NEW u \in Seq(Nat)
    PROVE  (s \o t) \o u = s \o (t \o u)
BY ConcatAssociative

\* The next numbers go behind those that are there.
LEMMA FollowedInOrder ==
    ASSUME NEW s \in Seq(Nat), NEW n \in Nat, NEW k \in Nat, InOrder(s, n)
    PROVE  InOrder(s \o Following(n, k), n + k)
<1> DEFINE t == Following(n, k)
           u == s \o t
<1>1. t \in Seq(Nat) /\ Len(t) = k /\ \A i \in 1 .. k : t[i] = n + i
  BY DEF Following
<1> HIDE DEF t
<1>2. /\ DOMAIN u = 1 .. Len(s) + k /\ Len(s) \in Nat
      /\ \A i \in 1 .. Len(s) : u[i] = s[i]
      /\ \A i \in 1 .. k : u[Len(s) + i] = n + i
  <2>1. /\ DOMAIN u = 1 .. Len(s) + Len(t)
        /\ \A i \in 1 .. Len(s) : u[i] = s[i]
        /\ \A i \in 1 .. Len(t) : u[Len(s) + i] = t[i]
    BY <1>1, Joined
  <2> HIDE DEF u
  <2>2. \A i \in 1 .. k : u[Len(s) + i] = n + i
    BY <1>1, <2>1
  <2> QED BY <1>1, <2>1, <2>2
<1> HIDE DEF u
<1>3. \A i \in 1 .. Len(s) : u[i] \in 1 .. n
  BY <1>2 DEF InOrder
<1>4. \A i \in Len(s) + 1 .. Len(s) + k : u[i] = n + (i - Len(s))
  <2> TAKE i \in Len(s) + 1 .. Len(s) + k
  <2>1. i - Len(s) \in 1 .. k /\ i = Len(s) + (i - Len(s))
    BY <1>2
  <2> QED BY <1>2, <2>1
<1>5. \A i \in 1 .. Len(s) + k : u[i] \in 1 .. n + k
  BY <1>2, <1>3, <1>4
<1>6. ASSUME NEW i \in 1 .. Len(s) + k, NEW j \in 1 .. Len(s) + k, i < j
      PROVE  u[i] < u[j]
  <2>1. CASE j <= Len(s)
    BY <1>2, <1>6, <2>1 DEF InOrder
  <2>2. CASE i <= Len(s) /\ j > Len(s)
    <3>1. u[i] \in 1 .. n
      BY <1>2, <1>3, <2>2
    <3>2. u[j] = n + (j - Len(s)) /\ j - Len(s) > 0
      BY <1>2, <1>4, <2>2
    <3> QED BY <3>1, <3>2
  <2>3. CASE i > Len(s)
    BY <1>2, <1>4, <1>6, <2>3
  <2> QED BY <1>2, <2>1, <2>2, <2>3
<1> QED BY <1>2, <1>5, <1>6 DEF InOrder, u, t

------------------------------------------------------------------------------
(* The invariant *)

WriterTypes ==
    /\ response \in Seq(Nat)
    /\ part \in 0 .. Len(response)
    /\ remaining \in Nat /\ next \in Nat
    /\ buffer \in Seq(Nat) /\ sent \in Seq(Nat)
    /\ failed \in BOOLEAN /\ destroyed \in BOOLEAN

\* What was sent and what is in the buffer are in order, up to what Write has
\* been given.
WriterOrder == InOrder(sent \o buffer, next)

\* As long as it all fits in the buffer it is all there, until the destructor
\* sends it.
WriterShort ==
    ~ failed /\ next <= BufferSize =>
        IF destroyed THEN sent = Following(0, next) /\ buffer = <<>>
                     ELSE buffer = Following(0, next) /\ sent = <<>>

WriterInv ==
    /\ WriterTypes
    /\ destroyed => remaining = 0 /\ part = Len(response)
    /\ WriterOrder
    /\ WriterShort

\* A writer that has not written.
Unused ==
    /\ part = 0 /\ remaining = 0 /\ next = 0
    /\ buffer = <<>> /\ sent = <<>>
    /\ failed = FALSE /\ destroyed = FALSE

\* The responses are sequences of lengths.
LEMMA ResponsesLengths == Responses \subseteq Seq(Nat)
<1> SUFFICES ASSUME NEW n \in 1 .. MaxParts, NEW r \in [1 .. n -> 0 .. MaxLength]
             PROVE  r \in Seq(Nat)
  BY DEF Responses
<1> QED BY WriterAssumption

\* Whatever the response, a new writer has the invariant.
LEMMA UnusedInvariant == Unused /\ response \in Seq(Nat) => WriterInv
<1> SUFFICES ASSUME Unused, response \in Seq(Nat) PROVE WriterInv
  OBVIOUS
<1> USE DEF Unused
<1>1. WriterTypes
  <2>1. 0 \in 0 .. Len(response) /\ <<>> \in Seq(Nat)
    OBVIOUS
  <2>2. failed \in BOOLEAN /\ destroyed \in BOOLEAN
    OBVIOUS
  <2>3. part \in 0 .. Len(response) /\ remaining \in Nat /\ next \in Nat
    BY <2>1
  <2>4. buffer \in Seq(Nat) /\ sent \in Seq(Nat)
    BY <2>1
  <2> QED BY <2>2, <2>3, <2>4 DEF WriterTypes
<1>2. WriterOrder
  <2>1. <<>> \o <<>> = <<>>
    OBVIOUS
  <2> QED BY <2>1 DEF WriterOrder, InOrder
<1>3. WriterShort
  BY DEF WriterShort, Following
<1> QED BY <1>1, <1>2, <1>3 DEF WriterInv

------------------------------------------------------------------------------
(* The steps *)

\* _WriteResponse calls Write for the next part.
LEMMA WriteBeginStep ==
    ASSUME WriterInv, WriteBegin
    PROVE  WriterInv'
<1> USE DEF WriterInv
<1>1. /\ part < Len(response) /\ part' = part + 1 /\ remaining' = response[part + 1]
      /\ remaining = 0
      /\ UNCHANGED <<response, next, buffer, sent, failed, destroyed>>
  BY DEF WriteBegin
<1>2. WriterTypes'
  BY <1>1 DEF WriterTypes
<1>3. WriterOrder' /\ WriterShort'
  BY <1>1 DEF WriterOrder, WriterShort
<1>4. ~ destroyed
  BY <1>1 DEF WriterTypes
<1> QED BY <1>1, <1>2, <1>3, <1>4

\* The next characters go to the buffer, as many as there is room for.
LEMMA CopyStep ==
    ASSUME WriterInv, Copy
    PROVE  WriterInv'
<1> USE DEF WriterInv
<1>1. PICK k \in Nat : /\ buffer' = buffer \o Following(next, k)
                       /\ next' = next + k
                       /\ remaining' = remaining - k /\ k <= remaining
  <2> DEFINE k == Min({remaining, BufferSize - Len(buffer)})
  <2>1. /\ remaining \in Nat \ {0} /\ BufferSize - Len(buffer) \in Nat \ {0}
    BY WriterAssumption DEF Copy, WriterTypes
  <2>2. k \in Nat /\ k <= remaining
    BY <2>1, MinOfTwo
  <2>3. buffer' = buffer \o Following(next, k) /\ next' = next + k /\ remaining' = remaining - k
    BY DEF Copy, Following
  <2> QED BY <2>2, <2>3
<1>2. remaining > 0 /\ UNCHANGED <<response, part, sent, failed, destroyed>>
  BY DEF Copy
<1>3. Following(next, k) \in Seq(Nat)
  BY DEF Following, WriterTypes
<1>4. WriterTypes'
  BY <1>1, <1>2, <1>3 DEF WriterTypes
<1>5. ~ destroyed
  BY <1>2
<1>6. WriterOrder'
  <2>1. (sent \o buffer) \o Following(next, k) = sent \o (buffer \o Following(next, k))
    BY <1>3, JoinedTwice DEF WriterTypes
  <2>2. sent \o buffer \in Seq(Nat) /\ next \in Nat
    BY DEF WriterTypes
  <2>3. InOrder((sent \o buffer) \o Following(next, k), next + k)
    BY <2>2, FollowedInOrder DEF WriterOrder
  <2> QED BY <1>1, <1>2, <2>1, <2>3 DEF WriterOrder
<1>7. WriterShort'
  <2> SUFFICES ASSUME ~ failed, next + k <= BufferSize
               PROVE  buffer' = Following(0, next + k) /\ sent = <<>>
    BY <1>1, <1>2, <1>5 DEF WriterShort
  <2>1. buffer = Following(0, next) /\ sent = <<>>
    BY <1>5, WriterAssumption DEF WriterShort, WriterTypes
  <2>2. Following(0, next) \o Following(next, k) = Following(0, next + k)
    BY DEF Following, WriterTypes
  <2> QED BY <1>1, <2>1, <2>2
<1> QED BY <1>1, <1>2, <1>4, <1>5, <1>6, <1>7

\* Whether send takes the buffer or not, what was given to Write stays in order.
LEMMA FlushKeeps ==
    ASSUME WriterInv, Flush
    PROVE  /\ buffer' \in Seq(Nat) /\ sent' \in Seq(Nat) /\ failed' \in BOOLEAN
           /\ sent' \o buffer' = sent \o buffer
           /\ ~ failed' => ~ failed /\ sent' = sent \o buffer /\ buffer' = <<>>
<1> USE DEF WriterInv, WriterTypes
<1>1. CASE buffer = <<>> /\ UNCHANGED <<sent, buffer, failed>>
  <2>1. sent \o <<>> = sent
    OBVIOUS
  <2> QED BY <1>1, <2>1
<1>2. CASE Sent
  <2>1. sent \o buffer \in Seq(Nat)
    OBVIOUS
  <2>2. (sent \o buffer) \o <<>> = sent \o buffer
    BY <2>1
  <2> QED BY <1>2, <2>1, <2>2 DEF Sent
<1>3. CASE SendFails
  BY <1>3 DEF SendFails
<1> QED BY <1>1, <1>2, <1>3 DEF Flush

\* The rest of the part is given up: from then on the response is a long one.
LEMMA FullStep ==
    ASSUME WriterInv, Full
    PROVE  WriterInv'
<1> USE DEF WriterInv
<1>1. /\ remaining > 0 /\ Len(buffer) = BufferSize /\ Flush
      /\ next' = next + remaining /\ remaining' = 0
      /\ UNCHANGED <<response, part, destroyed>>
  BY DEF Full
<1>2. /\ buffer' \in Seq(Nat) /\ sent' \in Seq(Nat) /\ failed' \in BOOLEAN
      /\ sent' \o buffer' = sent \o buffer /\ (~ failed' => ~ failed)
  BY <1>1, FlushKeeps
<1>3. WriterTypes'
  BY <1>1, <1>2 DEF WriterTypes
<1>4. WriterOrder'
  <2>1. next \in Nat /\ next + remaining \in Nat /\ next <= next + remaining
    BY DEF WriterTypes
  <2>2. InOrder(sent \o buffer, next + remaining)
    BY <2>1 DEF WriterOrder, InOrder
  <2> QED BY <1>1, <1>2, <2>2 DEF WriterOrder
<1>5. ~ destroyed
  BY <1>1
<1>6. ~ failed => next' > BufferSize
  <2> SUFFICES ASSUME ~ failed, next <= BufferSize PROVE next = BufferSize
    BY <1>1, WriterAssumption DEF WriterTypes
  <2>1. buffer = Following(0, next) /\ next \in Nat
    BY <1>5 DEF WriterShort, WriterTypes
  <2>2. Len(Following(0, next)) = next
    BY <2>1 DEF Following
  <2> QED BY <1>1, <2>1, <2>2
<1>7. WriterShort'
  BY <1>2, <1>1, <1>3, <1>6, WriterAssumption DEF WriterShort, WriterTypes
<1> QED BY <1>1, <1>3, <1>4, <1>5, <1>7

\* A short response is in the buffer, and is sent now.
LEMMA DestructorStep ==
    ASSUME WriterInv, Destructor
    PROVE  WriterInv'
<1> USE DEF WriterInv
<1>1. /\ remaining = 0 /\ part = Len(response) /\ ~ destroyed /\ Flush /\ destroyed'
      /\ destroyed' \in BOOLEAN
      /\ UNCHANGED <<response, part, remaining, next>>
  BY DEF Destructor
<1>2. /\ buffer' \in Seq(Nat) /\ sent' \in Seq(Nat) /\ failed' \in BOOLEAN
      /\ sent' \o buffer' = sent \o buffer
      /\ ~ failed' => ~ failed /\ sent' = sent \o buffer /\ buffer' = <<>>
  BY <1>1, FlushKeeps
<1>3. WriterTypes'
  BY <1>1, <1>2 DEF WriterTypes
<1>4. WriterOrder'
  BY <1>1, <1>2 DEF WriterOrder
<1>5. WriterShort'
  <2> SUFFICES ASSUME ~ failed', next <= BufferSize
               PROVE  sent' = Following(0, next) /\ buffer' = <<>>
    BY <1>1 DEF WriterShort
  <2>1. buffer = Following(0, next) /\ sent = <<>>
    BY <1>1, <1>2 DEF WriterShort
  <2>2. <<>> \o buffer = buffer
    BY DEF WriterTypes
  <2> QED BY <1>2, <2>1, <2>2
<1> QED BY <1>1, <1>3, <1>4, <1>5

\* Every step of the writer.
LEMMA WriterStep == WriterInv /\ Next => WriterInv'
BY WriteBeginStep, CopyStep, FullStep, DestructorStep DEF Next

------------------------------------------------------------------------------
(* The theorems *)

\* What is sent and what will be sent is always a part of the response in its
\* order, and all of it as long as it fits in the buffer.
THEOREM WriterInvariance == Spec => []WriterInv
<1>1. Init => WriterInv
  BY ResponsesLengths, UnusedInvariant DEF Init, Unused
<1>2. WriterInv /\ [Next]_vars => WriterInv'
  <2> SUFFICES ASSUME WriterInv, UNCHANGED vars PROVE WriterInv'
    BY WriterStep
  <2> QED BY DEF vars, WriterInv, WriterTypes, WriterOrder, WriterShort
<1> QED BY <1>1, <1>2, PTL DEF Spec

\* No character is sent twice or before an earlier one, whatever send does.
THEOREM SentInOrder == Spec => []NothingTwice
<1>1. WriterInv => NothingTwice
  BY DEF WriterInv, WriterOrder, InOrder, NothingTwice
<1> QED BY <1>1, WriterInvariance, PTL

\* A response no longer than the buffer is sent whole if send does not fail.
THEOREM ShortResponseSent == Spec => []ShortResponseWhole
<1>1. ASSUME WriterInv
      PROVE  ShortResponseWhole
  <2>1. Following(0, next) = [i \in 1 .. next |-> i]
    BY <1>1 DEF Following, WriterInv, WriterTypes
  <2> QED BY <1>1, <2>1 DEF WriterInv, WriterShort, ShortResponseWhole
<1> QED BY <1>1, WriterInvariance, PTL

------------------------------------------------------------------------------
(* The inductive invariant *)

ExchangeTypes ==
    /\ stream \in Seq(ByteKinds)
    /\ closes \in BOOLEAN /\ eof \in BOOLEAN /\ broken \in BOOLEAN
    /\ received \in Nat /\ head \in Nat
    /\ block \in Seq(Nat)
    /\ parser \in {"blocking", "async"}
    /\ length \in 0 .. MaxContent
    /\ at \in {"header", "body", "copy", "accepted", "refused", "respond", "closed"}
    /\ parsing \in BOOLEAN
    /\ text \in Seq(Nat) /\ body \in Seq(Nat)
    /\ rest \in 0 .. Word - 1

\* The buffer has the last bytes that recv returned.  When recv fails they are
\* there again, but only RequestParser's Read(buffer, length) still takes them.
ReaderInv ==
    /\ received <= Len(stream)
    /\ Len(block) <= ReaderSize /\ Len(block) <= received
    /\ head <= Len(block)
    /\ \A i \in 1 .. Len(block) : block[i] = received - Len(block) + i

\* How many bytes were taken out of the buffer, while recv has not failed.
Taken == received - Len(block) + head

\* The request has not been dispatched.
Requesting == at \notin {"respond", "closed"}

StreamKnown ==
    /\ Len(stream) <= HeaderLength + length + MaxExtra
    /\ HeaderLength \in DOMAIN stream => stream[HeaderLength] = "char"

\* Why the reader is at its end.
Ends ==
    /\ broken => eof
    /\ eof /\ ~ broken => closes /\ received = Len(stream) /\ block = <<>>

OddBytes == {b \in DOMAIN stream : Odd(b)}

\* s has every byte up to n in its order, but for some in `odd`.
Covers(s, n, odd) ==
    /\ InOrder(s, n)
    /\ \A b \in 1 .. n : b \in odd \/ \E i \in DOMAIN s : s[i] = b

NoOddBody == \A i \in DOMAIN stream : i > HeaderLength => ~ Odd(i)

\* Without odd bytes the body is what follows the header, up to what was taken.
BodyFollows ==
    NoOddBody =>
        /\ body = Following(HeaderLength, Len(body))
        /\ at \in {"body", "copy"} => Taken = HeaderLength + Len(body)

InHeader ==
    at = "header" =>
        /\ body = <<>>
        /\ ~ broken => Taken < HeaderLength

\* What remains of the body is counted as a size_t: when more was copied than was
\* announced, the count has wrapped, and it never comes down to 0 again.
InBody ==
    /\ at = "body" /\ parser = "async" => Len(body) < length
    /\ at = "copy" => parser = "blocking" /\ rest > 0 /\ (eof \/ head < Len(block))
    /\ at \in {"body", "copy"} => length > 0
    /\ at \in {"body", "copy"} /\ parser = "blocking" =>
          /\ Len(body) <= length + MaxExtra + IF at = "body" /\ broken THEN ReaderSize ELSE 0
          /\ rest = IF Len(body) <= length THEN length - Len(body) ELSE Word + length - Len(body)

RequestInv ==
    /\ StreamKnown
    /\ Ends
    /\ ~ broken => Covers(text \o body, Taken, OddBytes)
    /\ ~ broken => BodyFollows
    /\ InHeader
    /\ InBody
    /\ at = "accepted" => Len(body) = length
    /\ RefusedHasCause
    /\ Unused /\ response = <<>>

ExchangeInv ==
    /\ ExchangeTypes
    /\ ReaderInv
    /\ Requesting => RequestInv
    /\ ~ Requesting => text = <<>> /\ body = <<>>
    /\ WriterInv

------------------------------------------------------------------------------
(* What a parser has been given *)

\* The next bytes are given, all of them.
LEMMA CoversNext ==
    ASSUME NEW s \in Seq(Nat), NEW n \in Nat, NEW k \in Nat, NEW odd, Covers(s, n, odd)
    PROVE  Covers(s \o Following(n, k), n + k, odd)
<1> DEFINE t == Following(n, k)
<1>1. t \in Seq(Nat) /\ Len(t) = k /\ \A i \in 1 .. k : t[i] = n + i
  BY DEF Following
<1>2. InOrder(s \o t, n + k)
  BY FollowedInOrder DEF Covers
<1> HIDE DEF t
<1> DEFINE u == s \o t
<1>3. /\ DOMAIN u = 1 .. Len(s) + k /\ Len(s) \in Nat
      /\ \A i \in 1 .. Len(s) : u[i] = s[i]
      /\ \A i \in 1 .. k : u[Len(s) + i] = n + i
  <2>1. /\ DOMAIN u = 1 .. Len(s) + Len(t)
        /\ \A i \in 1 .. Len(s) : u[i] = s[i]
        /\ \A i \in 1 .. Len(t) : u[Len(s) + i] = t[i]
    BY <1>1, Joined
  <2> HIDE DEF u
  <2>2. \A i \in 1 .. k : u[Len(s) + i] = n + i
    BY <1>1, <2>1
  <2> QED BY <1>1, <2>1, <2>2
<1> HIDE DEF u
<1>4. ASSUME NEW b \in 1 .. n + k, b \notin odd
      PROVE  \E i \in DOMAIN u : u[i] = b
  <2>1. CASE b <= n
    <3>1. PICK i \in 1 .. Len(s) : s[i] = b
      BY <1>4, <2>1 DEF Covers
    <3> QED BY <1>3, <3>1
  <2>2. CASE b > n
    <3>1. b - n \in 1 .. k /\ Len(s) + (b - n) \in DOMAIN u
      BY <1>3, <2>2
    <3>2. u[Len(s) + (b - n)] = n + (b - n)
      BY <1>3, <3>1
    <3> QED BY <3>1, <3>2
  <2> QED BY <2>1, <2>2
<1> QED BY <1>2, <1>4 DEF Covers, u, t

\* One byte is one that follows.
LEMMA AppendFollowing ==
    ASSUME NEW s \in Seq(Nat), NEW n \in Nat
    PROVE  Append(s, n + 1) = s \o Following(n, 1)
BY DEF Following

\* An odd byte is left out.
LEMMA CoversSkip ==
    ASSUME NEW s \in Seq(Nat), NEW n \in Nat, NEW odd, Covers(s, n, odd), n + 1 \in odd
    PROVE  Covers(s, n + 1, odd)
<1>1. \A b \in 1 .. n + 1 : b \in 1 .. n \/ b = n + 1
  OBVIOUS
<1>2. \A i \in DOMAIN s : s[i] \in 1 .. n + 1
  BY DEF Covers, InOrder
<1> QED BY <1>1, <1>2 DEF Covers, InOrder

\* What follows is continued by what follows it.
LEMMA FollowingFollowed ==
    ASSUME NEW n \in Nat, NEW k \in Nat, NEW m \in Nat
    PROVE  Following(n, k) \o Following(n + k, m) = Following(n, k + m)
BY DEF Following

\* The bytes of the buffer from head on.
LEMMA BlockFollowing ==
    ASSUME ExchangeTypes, ReaderInv, NEW k \in Nat, head + k <= Len(block)
    PROVE  /\ SubSeq(block, head + 1, head + k) = Following(Taken, k)
           /\ Taken \in Nat /\ Taken + k <= received /\ Taken + k <= Len(stream)
<1> USE DEF ExchangeTypes, ReaderInv
<1>1. Taken \in Nat /\ Taken + k <= received /\ Taken + k <= Len(stream)
  BY DEF Taken
<1>2. SubSeq(block, head + 1, head + k) = [i \in 1 .. k |-> block[head + i]]
  <2>1. /\ SubSeq(block, head + 1, head + k) \in Seq(Nat)
        /\ Len(SubSeq(block, head + 1, head + k)) = k
        /\ \A i \in 1 .. k : SubSeq(block, head + 1, head + k)[i] = block[head + i]
    OBVIOUS
  <2> QED BY <2>1
<1>3. \A i \in 1 .. k : block[head + i] = Taken + i
  BY DEF Taken
<1> QED BY <1>1, <1>2, <1>3 DEF Following

\* The byte Read() returns is the next one of the stream, and there is one.
LEMMA ByteIsNext ==
    ASSUME ExchangeTypes, ReaderInv, ~ IsEmpty
    PROVE  /\ Byte = Taken + 1 /\ Taken \in Nat
           /\ Byte \in DOMAIN stream /\ head < Len(block)
<1> USE DEF ExchangeTypes, ReaderInv
<1>1. head < Len(block) /\ Len(block) \in Nat /\ Len(stream) \in Nat
  BY DEF IsEmpty
<1>2. head + 1 \in 1 .. Len(block)
  BY <1>1
<1>3. Byte = Taken + 1 /\ Taken \in Nat /\ Byte <= Len(stream)
  BY <1>1, <1>2 DEF Byte, Taken
<1> QED BY <1>1, <1>3

------------------------------------------------------------------------------
(* The reader *)

\* Bytes are taken out of the buffer.
LEMMA AdvanceStep ==
    ASSUME ExchangeTypes, ReaderInv, NEW k \in Nat, head + k <= Len(block), Advance(k)
    PROVE  /\ ReaderInv' /\ head' \in Nat
           /\ Taken' = Taken + k
           /\ UNCHANGED <<stream, closes, received, block, eof, broken>>
<1> USE DEF Advance
<1>1. head' = head + k /\ UNCHANGED <<stream, closes, received, block, eof, broken>>
  OBVIOUS
<1> QED BY <1>1 DEF ExchangeTypes, ReaderInv, Taken

\* The buffer is filled again where it ended, or the reader is at its end.
LEMMA FlushStep ==
    ASSUME ExchangeTypes, ReaderInv, Ends, ~ eof, ReaderFlush
    PROVE  /\ UNCHANGED <<stream, closes>>
           /\ received' \in Nat /\ head' \in Nat /\ block' \in Seq(Nat)
           /\ eof' \in BOOLEAN /\ broken' \in BOOLEAN
           /\ ReaderInv' /\ Ends'
           /\ ~ broken
           /\ ~ broken' => Taken' = Taken
           /\ eof' \/ head' < Len(block')
<1> USE DEF ExchangeTypes
<1>1. /\ head = Len(block) /\ UNCHANGED <<stream, closes>> /\ ~ broken
      /\ RecvSome \/ RecvEnd \/ RecvFails
  BY DEF ReaderFlush, IsEmpty, Ends
<1>2. CASE RecvSome
  <2>1. PICK n \in 1 .. Min({ReaderSize, Len(stream) - received}) :
           /\ block' = [i \in 1 .. n |-> received + i]
           /\ received' = received + n
           /\ head' = 0 /\ eof' = FALSE /\ broken' = broken
    BY <1>2 DEF RecvSome
  <2>2. ReaderSize \in Nat /\ Len(stream) - received \in Int /\ Len(stream) \in Nat
    BY ExchangeAssumption
  <2>3. n \in Nat \ {0} /\ n <= ReaderSize /\ n <= Len(stream) - received
    <3> DEFINE k == Len(stream) - received
               m == Min({ReaderSize, k})
    <3>1. m \in Int /\ m <= ReaderSize /\ m <= k
      <4>1. k \in Int /\ ReaderSize \in Int
        BY <2>2
      <4> HIDE DEF k
      <4>2. m = IF ReaderSize <= k THEN ReaderSize ELSE k
        BY <4>1, MinOfTwo, Zenon
      <4> HIDE DEF m
      <4> QED BY <4>1, <4>2
    <3> HIDE DEF m
    <3>2. n \in 1 .. m
      BY DEF m
    <3> QED BY <2>2, <3>1, <3>2
  <2>4. /\ block' \in Seq(Nat) /\ Len(block') = n
        /\ \A i \in 1 .. n : block'[i] = received + i
    BY <2>1, <2>3
  <2>5. ReaderInv'
    BY <1>1, <2>1, <2>2, <2>3, <2>4 DEF ReaderInv
  <2>6. Taken' = Taken
    BY <1>1, <2>1, <2>3, <2>4 DEF Taken
  <2>7. Ends' /\ ~ broken' /\ eof' \in BOOLEAN /\ broken' \in BOOLEAN
    BY <1>1, <2>1 DEF Ends
  <2>8. received' \in Nat /\ head' \in Nat /\ head' < Len(block')
    BY <2>1, <2>3, <2>4
  <2> QED BY <1>1, <2>4, <2>5, <2>6, <2>7, <2>8
<1>3. CASE RecvEnd
  <2>1. /\ closes /\ received = Len(stream) /\ block' = <<>> /\ head' = 0 /\ eof' = TRUE
        /\ UNCHANGED <<received, broken>>
    BY <1>3 DEF RecvEnd
  <2>2. block' \in Seq(Nat) /\ Len(block') = 0 /\ ReaderSize \in Nat
    BY <2>1, ExchangeAssumption
  <2>3. ReaderInv' /\ Taken' = Taken
    BY <1>1, <2>1, <2>2 DEF ReaderInv, Taken
  <2> QED BY <1>1, <2>1, <2>2, <2>3 DEF Ends
<1>4. CASE RecvFails
  <2>1. head' = 0 /\ eof' = TRUE /\ broken' = TRUE /\ UNCHANGED <<received, block>>
    BY <1>4 DEF RecvFails
  <2>2. ReaderInv'
    BY <1>1, <2>1 DEF ReaderInv
  <2> QED BY <1>1, <2>1, <2>2 DEF Ends
<1> QED BY <1>1, <1>2, <1>3, <1>4

------------------------------------------------------------------------------
(* The steps until the request is there *)

\* What does not change before the request is dispatched.
LEMMA SameStream ==
    ASSUME ExchangeInv, Requesting, UNCHANGED <<stream, closes, parser, length, writerVars>>
    PROVE  /\ ExchangeTypes /\ ReaderInv /\ RequestInv
           /\ StreamKnown' /\ OddBytes' = OddBytes /\ (NoOddBody' <=> NoOddBody)
           /\ \A i \in DOMAIN stream : Odd(i)' <=> Odd(i)
           /\ Unused' /\ response' = <<>> /\ WriterInv'
<1>1. /\ ExchangeTypes /\ ReaderInv /\ RequestInv /\ WriterInv
      /\ StreamKnown /\ Unused /\ response = <<>>
  BY DEF ExchangeInv, RequestInv
<1>2. StreamKnown' /\ OddBytes' = OddBytes /\ (NoOddBody' <=> NoOddBody)
  BY <1>1 DEF StreamKnown, OddBytes, NoOddBody, Odd
<1>3. \A i \in DOMAIN stream : Odd(i)' <=> Odd(i)
  BY DEF Odd
<1>4. Unused' /\ response' = <<>> /\ WriterInv'
  BY <1>1 DEF writerVars, Unused, WriterInv, WriterTypes, WriterOrder, WriterShort
<1> QED BY <1>1, <1>2, <1>3, <1>4

\* A character of the request is read: nothing failed, and it is the next one;
\* in the header it is one of the header's.
LEMMA ReadStep ==
    ASSUME ExchangeInv, CanRead, Advance(1)
    PROVE  /\ ~ broken /\ ~ eof /\ Requesting
           /\ Byte = Taken + 1 /\ Taken \in Nat /\ Byte \in DOMAIN stream
           /\ at = "header" => Byte <= HeaderLength
           /\ ReaderInv' /\ head' \in Nat /\ Taken' = Taken + 1
           /\ UNCHANGED <<stream, closes, received, block, eof, broken>>
<1>1. ~ eof /\ ~ IsEmpty /\ at \in {"header", "body"}
  BY DEF CanRead, Calls
<1>2. Requesting
  BY <1>1 DEF Requesting
<1>3. ExchangeTypes /\ ReaderInv /\ Ends /\ InHeader
  BY <1>2 DEF ExchangeInv, RequestInv
<1>4. ~ broken
  BY <1>1, <1>3 DEF Ends
<1>5. /\ Byte = Taken + 1 /\ Taken \in Nat /\ Byte \in DOMAIN stream
      /\ head < Len(block)
  BY <1>1, <1>3, ByteIsNext
<1>6. at = "header" => Byte <= HeaderLength
  BY <1>3, <1>4, <1>5, ExchangeAssumption DEF InHeader
<1>7. head + 1 <= Len(block)
  BY <1>3, <1>5 DEF ExchangeTypes
<1>8. ReaderInv' /\ head' \in Nat /\ Taken' = Taken + 1
      /\ UNCHANGED <<stream, closes, received, block, eof, broken>>
  BY <1>3, <1>7, AdvanceStep
<1> QED BY <1>1, <1>2, <1>4, <1>5, <1>6, <1>8

\* The count of what remains of the body, which wraps.
LEMMA Wraps ==
    ASSUME NEW r \in Int, NEW w \in Nat \ {0}, - w <= r, r < w
    PROVE  r % w = IF r >= 0 THEN r ELSE w + r
OBVIOUS

\* The reader's end, or another block, while the parser waits in Read().
LEMMA RefillStep ==
    ASSUME ExchangeInv, Refill
    PROVE  ExchangeInv'
<1>1. /\ ~ eof /\ at \in {"header", "body"} /\ ReaderFlush
      /\ (at = "body" => parser = "async")
      /\ UNCHANGED <<parserVars, writerVars>>
  BY DEF Refill, Calls
<1>2. Requesting /\ Requesting'
  BY <1>1 DEF Requesting, parserVars
<1>3. /\ ExchangeTypes /\ ReaderInv /\ RequestInv /\ Ends
  BY <1>2 DEF ExchangeInv, RequestInv
<1>4. /\ UNCHANGED <<stream, closes>>
      /\ received' \in Nat /\ head' \in Nat /\ block' \in Seq(Nat)
      /\ eof' \in BOOLEAN /\ broken' \in BOOLEAN
      /\ ReaderInv' /\ Ends' /\ ~ broken
      /\ ~ broken' => Taken' = Taken
  BY <1>1, <1>3, FlushStep
<1>5. UNCHANGED <<parser, length, at, parsing, text, body, rest>>
  BY <1>1 DEF parserVars
<1>6. /\ StreamKnown' /\ OddBytes' = OddBytes /\ (NoOddBody' <=> NoOddBody)
      /\ \A i \in DOMAIN stream : Odd(i)' <=> Odd(i)
      /\ Unused' /\ response' = <<>> /\ WriterInv'
  BY <1>1, <1>2, <1>4, <1>5, SameStream
<1>7. ExchangeTypes'
  BY <1>3, <1>4, <1>5 DEF ExchangeTypes
<1>8. ~ broken' => Covers(text' \o body', Taken', OddBytes')
  BY <1>3, <1>4, <1>5, <1>6 DEF RequestInv
<1>9. ~ broken' => BodyFollows'
  BY <1>3, <1>4, <1>5, <1>6 DEF RequestInv, BodyFollows
<1>10. InHeader' /\ InBody'
  BY <1>1, <1>3, <1>4, <1>5 DEF RequestInv, InHeader, InBody
<1>11. (at' = "accepted" => Len(body') = length') /\ RefusedHasCause'
  BY <1>1, <1>5 DEF RefusedHasCause
<1>12. RequestInv'
  BY <1>4, <1>6, <1>8, <1>9, <1>10, <1>11 DEF RequestInv
<1> QED BY <1>2, <1>4, <1>6, <1>7, <1>12 DEF ExchangeInv

\* At the end of the stream there is no request: the header or the body is short.
LEMMA ReadEndStep ==
    ASSUME ExchangeInv, ReadEnd
    PROVE  ExchangeInv'
<1>1. /\ eof /\ at \in {"header", "body"} /\ (at = "body" => parser = "async")
      /\ at' = "refused"
      /\ UNCHANGED <<parser, length, parsing, text, body, rest, readerVars, writerVars>>
  BY DEF ReadEnd, Calls
<1>2. Requesting /\ Requesting'
  BY <1>1 DEF Requesting
<1>3. UNCHANGED <<stream, closes, received, block, head, eof, broken>>
  BY <1>1 DEF readerVars
<1>4. /\ ExchangeTypes /\ ReaderInv /\ RequestInv
      /\ StreamKnown' /\ OddBytes' = OddBytes /\ (NoOddBody' <=> NoOddBody)
      /\ \A i \in DOMAIN stream : Odd(i)' <=> Odd(i)
      /\ Unused' /\ response' = <<>> /\ WriterInv'
  BY <1>1, <1>2, <1>3, SameStream
<1>5. ExchangeTypes' /\ ReaderInv' /\ Taken' = Taken
  BY <1>1, <1>3, <1>4 DEF ExchangeTypes, ReaderInv, Taken
<1>6. Ends'
  BY <1>3, <1>4 DEF RequestInv, Ends
<1>7. ~ broken' => Covers(text' \o body', Taken', OddBytes')
  BY <1>1, <1>3, <1>4, <1>5 DEF RequestInv
<1>8. ~ broken' => BodyFollows'
  BY <1>1, <1>3, <1>4, <1>5 DEF RequestInv, BodyFollows
<1>9. InHeader' /\ InBody'
  BY <1>1 DEF InHeader, InBody
<1>10. RefusedHasCause'
  <2>1. broken \/ NoOddBody => broken \/ (closes /\ Len(stream) < HeaderLength + length)
    <3> SUFFICES ASSUME ~ broken, NoOddBody
                 PROVE  closes /\ Len(stream) < HeaderLength + length
      OBVIOUS
    <3>1. closes /\ Taken = Len(stream)
      BY <1>1, <1>4 DEF RequestInv, Ends, ReaderInv, ExchangeTypes, Taken
    <3>2. CASE at = "header"
      BY <1>4, <3>1, <3>2, ExchangeAssumption DEF RequestInv, InHeader, ExchangeTypes
    <3>3. CASE at = "body"
      <4>1. Taken = HeaderLength + Len(body) /\ Len(body) < length
        BY <1>1, <1>4, <3>3 DEF RequestInv, BodyFollows, InBody
      <4> QED BY <1>4, <3>1, <4>1, ExchangeAssumption DEF ExchangeTypes
    <3> QED BY <1>1, <3>1, <3>2, <3>3
  <2>2. ~ NoOddBody => \E i \in DOMAIN stream : Odd(i)
    BY DEF NoOddBody
  <2>3. ~ NoOddBody => \E i \in DOMAIN stream : Odd(i)'
    BY <1>4, <2>2
  <2> QED BY <1>1, <1>3, <2>1, <2>3 DEF RefusedHasCause
<1>11. RequestInv'
  BY <1>1, <1>4, <1>6, <1>7, <1>8, <1>9, <1>10 DEF RequestInv
<1> QED BY <1>2, <1>4, <1>5, <1>11 DEF ExchangeInv

\* A character of the header; after the last one the body begins.
LEMMA HeaderCharStep ==
    ASSUME ExchangeInv, CanRead, Advance(1), at = "header",
           text' = Append(text, Byte), body' = body,
           rest' \in 0 .. Word - 1,
           at' = "header" => Byte # HeaderLength,
           at' = "body" => /\ Byte = HeaderLength /\ length > 0
                           /\ parser = "blocking" => rest' = length,
           at' = "accepted" => length = 0,
           at' = "refused" => parser = "blocking" /\ length > MaxBody,
           at' \in {"header", "body", "accepted", "refused"},
           UNCHANGED <<parser, length, parsing, writerVars>>
    PROVE  ExchangeInv'
<1>1. /\ ~ broken /\ ~ eof /\ Requesting
      /\ Byte = Taken + 1 /\ Taken \in Nat /\ Byte \in DOMAIN stream
      /\ Byte <= HeaderLength
      /\ ReaderInv' /\ head' \in Nat /\ Taken' = Taken + 1
      /\ UNCHANGED <<stream, closes, received, block, eof, broken>>
  BY ReadStep
<1>2. /\ ExchangeTypes /\ ReaderInv /\ RequestInv
      /\ StreamKnown' /\ OddBytes' = OddBytes /\ (NoOddBody' <=> NoOddBody)
      /\ Unused' /\ response' = <<>> /\ WriterInv'
  BY <1>1, SameStream
<1>3. body = <<>> /\ Requesting'
  BY <1>2 DEF RequestInv, InHeader, Requesting
<1>4. ExchangeTypes'
  <2>1. text' \in Seq(Nat) /\ body' \in Seq(Nat)
    BY <1>1, <1>2 DEF ExchangeTypes
  <2>2. /\ stream' \in Seq(ByteKinds) /\ block' \in Seq(Nat)
        /\ closes' \in BOOLEAN /\ eof' \in BOOLEAN /\ broken' \in BOOLEAN /\ parsing' \in BOOLEAN
        /\ received' \in Nat /\ head' \in Nat
        /\ parser' \in {"blocking", "async"} /\ length' \in 0 .. MaxContent
    BY <1>1, <1>2 DEF ExchangeTypes
  <2> QED BY <2>1, <2>2 DEF ExchangeTypes
<1>5. Ends'
  BY <1>1 DEF Ends
<1>6. Covers(text' \o body', Taken', OddBytes')
  <2>1. text \o <<>> = text /\ text' \o <<>> = text' /\ text' = text \o Following(Taken, 1)
    <3>1. text \in Seq(Nat) /\ Byte \in Nat
      BY <1>1, <1>2 DEF ExchangeTypes
    <3>2. text' = text \o Following(Taken, 1)
      BY <1>1, <3>1, AppendFollowing
    <3> QED BY <3>1, <3>2
  <2>2. text \in Seq(Nat) /\ Covers(text, Taken, OddBytes)
    BY <1>1, <1>2, <1>3, <2>1 DEF RequestInv, ExchangeTypes
  <2>3. Covers(text \o Following(Taken, 1), Taken + 1, OddBytes)
    BY <1>1, <2>2, CoversNext
  <2> QED BY <1>1, <1>2, <1>3, <2>1, <2>3
<1>7. BodyFollows'
  <2>1. body' = Following(HeaderLength, Len(body')) /\ Len(body') = 0
    BY <1>3 DEF Following
  <2>2. at' # "copy" /\ (at' = "body" => Taken' = HeaderLength + Len(body'))
    BY <1>1, <2>1, ExchangeAssumption
  <2> QED BY <2>1, <2>2 DEF BodyFollows
<1>8. InHeader'
  BY <1>1, <1>3, ExchangeAssumption DEF InHeader
<1>9. InBody'
  <2>1. Len(body') = 0 /\ length \in Nat /\ length' = length /\ parser' = parser /\ ~ broken'
    BY <1>1, <1>2, <1>3 DEF ExchangeTypes
  <2>2. at' # "copy"
    OBVIOUS
  <2> QED BY <2>1, <2>2, ExchangeAssumption DEF InBody
<1>10. at' = "accepted" => Len(body') = length'
  BY <1>3
<1>11. RefusedHasCause'
  BY DEF RefusedHasCause
<1>12. RequestInv'
  BY <1>2, <1>5, <1>6, <1>7, <1>8, <1>9, <1>10, <1>11 DEF RequestInv
<1> QED BY <1>1, <1>2, <1>3, <1>4, <1>12 DEF ExchangeInv

\* An odd byte is gone; it was not the last one of the header, which is a
\* character.
LEMMA OddStep ==
    ASSUME ExchangeInv, CanRead, Advance(1), Byte \in OddBytes,
           at' = at \/ at' = "refused",
           at = "body" => parser = "async",
           parsing' \in BOOLEAN,
           UNCHANGED <<parser, length, text, body, rest, writerVars>>
    PROVE  ExchangeInv'
<1>1. /\ ~ broken /\ ~ eof /\ Requesting
      /\ Byte = Taken + 1 /\ Taken \in Nat /\ Byte \in DOMAIN stream
      /\ at = "header" => Byte <= HeaderLength
      /\ ReaderInv' /\ head' \in Nat /\ Taken' = Taken + 1
      /\ UNCHANGED <<stream, closes, received, block, eof, broken>>
  BY ReadStep
<1>2. /\ ExchangeTypes /\ ReaderInv /\ RequestInv
      /\ StreamKnown' /\ OddBytes' = OddBytes /\ (NoOddBody' <=> NoOddBody)
      /\ \A i \in DOMAIN stream : Odd(i)' <=> Odd(i)
      /\ Unused' /\ response' = <<>> /\ WriterInv'
  BY <1>1, SameStream
<1>3. at \in {"header", "body"} /\ Requesting'
  BY DEF CanRead, Calls, Requesting
<1>4. ExchangeTypes'
  BY <1>1, <1>2, <1>3 DEF ExchangeTypes
<1>5. Ends'
  BY <1>1 DEF Ends
<1>6. Covers(text' \o body', Taken', OddBytes')
  <2>1. text \o body \in Seq(Nat) /\ Covers(text \o body, Taken, OddBytes)
    BY <1>1, <1>2 DEF RequestInv, ExchangeTypes
  <2>2. Covers(text \o body, Taken + 1, OddBytes)
    BY <1>1, <2>1, CoversSkip
  <2> QED BY <1>1, <1>2, <2>2
<1>7. Odd(Byte) /\ Byte \in DOMAIN stream
  BY DEF OddBytes
<1>8. at = "header" => Byte # HeaderLength
  <2>1. at = "header" /\ Byte = HeaderLength => stream[Byte] = "char"
    BY <1>1, <1>2 DEF RequestInv, StreamKnown
  <2> QED BY <1>7, <2>1 DEF Odd
<1>9. BodyFollows'
  <2>1. CASE at = "header"
    <3>1. body' = Following(HeaderLength, Len(body')) /\ at' \notin {"body", "copy"}
      BY <1>2, <2>1 DEF RequestInv, InHeader, Following
    <3> QED BY <3>1 DEF BodyFollows
  <2>2. CASE at = "body"
    <3>1. NoOddBody => Taken = HeaderLength + Len(body)
      BY <1>1, <1>2, <2>2 DEF RequestInv, BodyFollows
    <3>2. NoOddBody => Byte > HeaderLength
      BY <1>1, <1>2, <3>1, ExchangeAssumption DEF ExchangeTypes
    <3>3. ~ NoOddBody
      BY <1>7, <3>2 DEF NoOddBody
    <3> QED BY <1>2, <3>3 DEF BodyFollows
  <2> QED BY <1>3, <2>1, <2>2
<1>10. InHeader'
  BY <1>1, <1>2, <1>8, ExchangeAssumption DEF RequestInv, InHeader
<1>11. InBody'
  BY <1>1, <1>2, <1>3 DEF RequestInv, InBody
<1>12. RefusedHasCause'
  BY <1>1, <1>2, <1>7 DEF RefusedHasCause
<1>13. RequestInv'
  BY <1>2, <1>3, <1>5, <1>6, <1>9, <1>10, <1>11, <1>12 DEF RequestInv
<1> QED BY <1>1, <1>2, <1>3, <1>4, <1>13 DEF ExchangeInv

\* RequestParser waits for more of the body.
LEMMA BodyRefillStep ==
    ASSUME ExchangeInv, BodyRefill
    PROVE  ExchangeInv'
<1>1. /\ at = "body" /\ parser = "blocking" /\ rest > 0 /\ ~ eof /\ ReaderFlush
      /\ at' = "copy"
      /\ UNCHANGED <<parser, length, parsing, text, body, rest, writerVars>>
  BY DEF BodyRefill
<1>2. Requesting /\ Requesting'
  BY <1>1 DEF Requesting
<1>3. /\ ExchangeTypes /\ ReaderInv /\ RequestInv /\ Ends
  BY <1>2 DEF ExchangeInv, RequestInv
<1>4. /\ UNCHANGED <<stream, closes>>
      /\ received' \in Nat /\ head' \in Nat /\ block' \in Seq(Nat)
      /\ eof' \in BOOLEAN /\ broken' \in BOOLEAN
      /\ ReaderInv' /\ Ends' /\ ~ broken
      /\ ~ broken' => Taken' = Taken
      /\ eof' \/ head' < Len(block')
  BY <1>1, <1>3, FlushStep
<1>5. /\ StreamKnown' /\ OddBytes' = OddBytes /\ (NoOddBody' <=> NoOddBody)
      /\ Unused' /\ response' = <<>> /\ WriterInv'
  BY <1>1, <1>2, <1>4, SameStream
<1>6. ExchangeTypes'
  BY <1>1, <1>3, <1>4 DEF ExchangeTypes
<1>7. ~ broken' => Covers(text' \o body', Taken', OddBytes')
  BY <1>1, <1>3, <1>4, <1>5 DEF RequestInv
<1>8. ~ broken' => BodyFollows'
  BY <1>1, <1>3, <1>4, <1>5 DEF RequestInv, BodyFollows
<1>9. InHeader' /\ InBody'
  BY <1>1, <1>3, <1>4 DEF RequestInv, InHeader, InBody
<1>10. (at' = "accepted" => Len(body') = length') /\ RefusedHasCause'
  BY <1>1 DEF RefusedHasCause
<1>11. RequestInv'
  BY <1>4, <1>5, <1>7, <1>8, <1>9, <1>10 DEF RequestInv
<1> QED BY <1>2, <1>4, <1>5, <1>6, <1>11 DEF ExchangeInv

\* RequestParser's body is cut short where the stream ends; or it has more than
\* was announced, because the client sent more.
LEMMA CutOff ==
    ASSUME ExchangeInv, at \in {"body", "copy"}, parser = "blocking", eof, rest # 0, ~ broken
    PROVE  /\ closes /\ Len(stream) < HeaderLength + length
           \/ Len(stream) > HeaderLength + length
<1>1. ExchangeTypes /\ ReaderInv /\ Ends /\ BodyFollows /\ InBody
  BY DEF ExchangeInv, Requesting, RequestInv
<1>2. closes /\ Taken = Len(stream)
  BY <1>1 DEF Ends, ReaderInv, ExchangeTypes, Taken
<1>3. NoOddBody
  <2>1. DOMAIN stream = 1 .. Len(stream) /\ Len(stream) \in Nat
    BY <1>1 DEF ExchangeTypes
  <2> QED BY <2>1, ExchangeAssumption DEF NoOddBody, Odd
<1>4. Taken = HeaderLength + Len(body)
  BY <1>1, <1>3 DEF BodyFollows
<1>5. Len(body) # length
  BY <1>1 DEF InBody
<1> QED BY <1>1, <1>2, <1>4, <1>5, ExchangeAssumption DEF ExchangeTypes

\* A block is copied to the body, or the part of it that is not longer than the
\* whole body; without one the request is refused.
LEMMA CopyBodyStep ==
    ASSUME ExchangeInv, CopyBody
    PROVE  ExchangeInv'
<1> DEFINE size == Min({length, Unread})
<1>1. /\ at = "copy" \/ (at = "body" /\ parser = "blocking" /\ rest > 0 /\ ~ eof /\ ~ IsEmpty)
      /\ UNCHANGED <<parser, length, parsing, text, writerVars>>
      /\ \/ size = 0 /\ at' = "refused" /\ UNCHANGED <<body, rest, readerVars>>
         \/ /\ size # 0 /\ at' = "body"
            /\ body' = body \o SubSeq(block, head + 1, head + size)
            /\ Advance(size)
            /\ rest' = (rest - size) % Word
  BY DEF CopyBody
<1>2. Requesting /\ Requesting' /\ at \in {"body", "copy"}
  BY <1>1 DEF Requesting
<1>3. /\ ExchangeTypes /\ ReaderInv /\ RequestInv
      /\ Ends /\ InBody
  BY <1>2 DEF ExchangeInv, RequestInv
<1>4. /\ parser = "blocking" /\ rest > 0 /\ length > 0
      /\ at = "body" => ~ eof /\ head < Len(block)
      /\ at = "copy" => eof \/ head < Len(block)
  BY <1>1, <1>3 DEF InBody, IsEmpty, ExchangeTypes, ReaderInv
<1>5. /\ size \in Nat /\ size <= length /\ head + size <= Len(block)
      /\ size = 0 => head = Len(block)
  <2> DEFINE u == Unread
  <2>1. length \in Int /\ u \in Int /\ u >= 0 /\ u = Len(block) - head /\ Len(block) \in Nat /\ head \in Nat
    BY <1>3 DEF ExchangeTypes, ReaderInv, Unread
  <2> HIDE DEF u
  <2>2. Min({length, u}) = IF length <= u THEN length ELSE u
    BY <2>1, MinOfTwo, Zenon
  <2>3. size = Min({length, u})
    BY DEF u
  <2> HIDE DEF size
  <2> QED BY <1>4, <2>1, <2>2, <2>3
<1> HIDE DEF size
<1>6. CASE size = 0
  <2>1. at' = "refused" /\ UNCHANGED <<body, rest, readerVars>>
    BY <1>1, <1>6
  <2>2. UNCHANGED <<stream, closes, received, block, head, eof, broken>>
    BY <2>1 DEF readerVars
  <2>3. /\ StreamKnown' /\ OddBytes' = OddBytes /\ (NoOddBody' <=> NoOddBody)
        /\ Unused' /\ response' = <<>> /\ WriterInv'
    BY <1>1, <1>2, <2>2, SameStream
  <2>4. ExchangeTypes' /\ ReaderInv' /\ Taken' = Taken /\ Ends'
    BY <1>1, <1>3, <2>1, <2>2 DEF ExchangeTypes, ReaderInv, Taken, Ends
  <2>5. ~ broken' => Covers(text' \o body', Taken', OddBytes')
    BY <1>1, <1>3, <2>1, <2>2, <2>3, <2>4 DEF RequestInv
  <2>6. ~ broken' => BodyFollows'
    BY <1>1, <1>3, <2>1, <2>2, <2>3, <2>4 DEF RequestInv, BodyFollows
  <2>7. InHeader' /\ InBody'
    BY <2>1 DEF InHeader, InBody
  <2>8. RefusedHasCause'
    <3>1. eof
      BY <1>2, <1>4, <1>5, <1>6
    <3>2. ~ broken => \/ closes /\ Len(stream) < HeaderLength + length
                      \/ Len(stream) > HeaderLength + length
      BY <1>2, <1>4, <3>1, CutOff
    <3> QED BY <1>1, <1>4, <2>2, <3>2 DEF RefusedHasCause
  <2>9. RequestInv'
    BY <2>1, <2>3, <2>4, <2>5, <2>6, <2>7, <2>8 DEF RequestInv
  <2> QED BY <1>2, <2>3, <2>4, <2>9 DEF ExchangeInv
<1>7. CASE size # 0
  <2>1. /\ at' = "body"
        /\ body' = body \o SubSeq(block, head + 1, head + size)
        /\ Advance(size)
        /\ rest' = (rest - size) % Word
    BY <1>1, <1>7
  <2>2. /\ ReaderInv' /\ head' \in Nat /\ Taken' = Taken + size
        /\ UNCHANGED <<stream, closes, received, block, eof, broken>>
    BY <1>3, <1>5, <2>1, AdvanceStep
  <2>3. /\ SubSeq(block, head + 1, head + size) = Following(Taken, size)
        /\ Taken \in Nat /\ Taken + size <= Len(stream)
    BY <1>3, <1>5, BlockFollowing
  <2>4. /\ StreamKnown' /\ OddBytes' = OddBytes /\ (NoOddBody' <=> NoOddBody)
        /\ Unused' /\ response' = <<>> /\ WriterInv'
    BY <1>1, <1>2, <2>2, SameStream
  <2>5. /\ Following(Taken, size) \in Seq(Nat) /\ Len(Following(Taken, size)) = size
    BY <1>5, <2>3 DEF Following
  <2>6. body \in Seq(Nat) /\ text \in Seq(Nat) /\ body' = body \o Following(Taken, size)
    BY <1>3, <2>1, <2>3 DEF ExchangeTypes
  <2>7. body' \in Seq(Nat) /\ Len(body') = Len(body) + size /\ Len(body) \in Nat
    <3>1. /\ body \o Following(Taken, size) \in Seq(Nat)
          /\ Len(body \o Following(Taken, size)) = Len(body) + Len(Following(Taken, size))
      BY <2>5, <2>6, Joined, Zenon
    <3>2. Len(body) \in Nat
      BY <2>6
    <3> QED BY <2>5, <2>6, <3>1, <3>2
  <2>8. /\ length \in 1 .. MaxContent /\ rest \in 1 .. Word - 1 /\ Word \in Nat
        /\ Word > MaxContent + MaxExtra + ReaderSize
        /\ MaxContent \in Nat /\ MaxExtra \in Nat /\ ReaderSize \in Nat
    BY <1>3, <1>4, ExchangeAssumption DEF ExchangeTypes
  <2>9. ~ broken => BodyFollows'
    <3> SUFFICES ASSUME ~ broken, NoOddBody
                 PROVE  /\ body' = Following(HeaderLength, Len(body'))
                        /\ Taken' = HeaderLength + Len(body')
      BY <2>1, <2>4 DEF BodyFollows
    <3>1. body = Following(HeaderLength, Len(body)) /\ Taken = HeaderLength + Len(body)
      BY <1>2, <1>3 DEF RequestInv, BodyFollows
    <3>2. Following(HeaderLength, Len(body)) \o Following(HeaderLength + Len(body), size)
              = Following(HeaderLength, Len(body) + size)
      BY <1>5, <2>7, FollowingFollowed, ExchangeAssumption
    <3>3. body' = Following(HeaderLength, Len(body'))
      BY <2>6, <2>7, <3>1, <3>2
    <3>4. Taken' = HeaderLength + Len(body')
      BY <1>5, <2>2, <2>7, <3>1, ExchangeAssumption
    <3> QED BY <3>3, <3>4
  <2>10. Len(body') <= length + MaxExtra + IF broken THEN ReaderSize ELSE 0
    <3>1. CASE broken
      <4>1. at = "copy"
        BY <1>2, <1>3, <1>4, <3>1 DEF Ends
      <4>2. Len(body) <= length + MaxExtra
        BY <1>3, <1>4, <2>7, <2>8, <4>1 DEF InBody
      <4>3. size <= ReaderSize
        BY <1>3, <1>5, <2>8 DEF ReaderInv, ExchangeTypes
      <4> QED BY <1>5, <2>7, <2>8, <3>1, <4>2, <4>3
    <3>2. CASE ~ broken
      <4>1. NoOddBody
        <5>1. DOMAIN stream = 1 .. Len(stream) /\ Len(stream) \in Nat
          BY <1>3 DEF ExchangeTypes
        <5> QED BY <1>4, <5>1, ExchangeAssumption DEF NoOddBody, Odd
      <4>2. Taken = HeaderLength + Len(body)
        BY <1>2, <1>3, <3>2, <4>1 DEF RequestInv, BodyFollows
      <4>3. Len(stream) <= HeaderLength + length + MaxExtra /\ Len(stream) \in Nat
        BY <1>3 DEF RequestInv, StreamKnown, ExchangeTypes
      <4> QED BY <1>5, <2>3, <2>7, <2>8, <3>2, <4>2, <4>3, ExchangeAssumption
    <3> QED BY <3>1, <3>2
  <2>11. rest' = IF Len(body') <= length THEN length - Len(body') ELSE Word + length - Len(body')
    <3>1. rest - size \in Int /\ - Word <= rest - size /\ rest - size < Word /\ Word \in Nat \ {0}
      BY <1>5, <2>8
    <3>2. rest' = IF rest - size >= 0 THEN rest - size ELSE Word + (rest - size)
      BY <2>1, <3>1, Wraps
    <3>3. rest = IF Len(body) <= length THEN length - Len(body) ELSE Word + length - Len(body)
      BY <1>2, <1>3, <1>4 DEF InBody
    <3>4. Len(body') <= length + MaxExtra + ReaderSize
      BY <2>7, <2>8, <2>10, <1>5
    <3>5. CASE Len(body) <= length
      BY <1>5, <2>7, <2>8, <3>2, <3>3, <3>5
    <3>6. CASE Len(body) > length
      BY <1>5, <2>7, <2>8, <3>2, <3>3, <3>4, <3>6
    <3> QED BY <2>7, <2>8, <3>5, <3>6
  <2>12. rest' \in 0 .. Word - 1
    BY <1>5, <2>7, <2>8, <2>10, <2>11
  <2>13. ExchangeTypes'
    <3>1. at' \in {"header", "body", "copy", "accepted", "refused", "respond", "closed"}
      BY <2>1
    <3> QED BY <1>1, <1>3, <2>2, <2>7, <2>12, <3>1 DEF ExchangeTypes
  <2>14. Ends'
    BY <1>3, <2>2 DEF Ends
  <2>15. ~ broken => Covers(text' \o body', Taken', OddBytes')
    <3> SUFFICES ASSUME ~ broken PROVE Covers(text \o body', Taken + size, OddBytes)
      BY <1>1, <2>2, <2>4
    <3>1. text \o body \in Seq(Nat) /\ Covers(text \o body, Taken, OddBytes)
      BY <1>3, <2>6 DEF RequestInv
    <3>2. Covers((text \o body) \o Following(Taken, size), Taken + size, OddBytes)
      BY <1>5, <2>3, <3>1, CoversNext
    <3>3. (text \o body) \o Following(Taken, size) = text \o body'
      BY <2>5, <2>6, JoinedTwice
    <3> QED BY <3>2, <3>3
  <2>16. InHeader' /\ InBody'
    BY <1>1, <1>4, <2>1, <2>2, <2>10, <2>11 DEF InHeader, InBody
  <2>17. (at' = "accepted" => Len(body') = length') /\ RefusedHasCause'
    BY <2>1 DEF RefusedHasCause
  <2>18. RequestInv'
    BY <2>2, <2>4, <2>9, <2>14, <2>15, <2>16, <2>17 DEF RequestInv
  <2> QED BY <1>2, <2>2, <2>4, <2>13, <2>18 DEF ExchangeInv
<1> QED BY <1>6, <1>7

\* The loop of Read(buffer, length) is left, with the whole body or without.
LEMMA BodyEndStep ==
    ASSUME ExchangeInv, BodyEnd
    PROVE  ExchangeInv'
<1>1. /\ at = "body" /\ parser = "blocking" /\ (rest = 0 \/ eof)
      /\ at' = IF rest = 0 THEN "accepted" ELSE "refused"
      /\ UNCHANGED <<parser, length, parsing, text, body, rest, readerVars, writerVars>>
  BY DEF BodyEnd
<1>2. Requesting /\ Requesting' /\ at' \in {"accepted", "refused"}
  BY <1>1 DEF Requesting
<1>3. UNCHANGED <<stream, closes, received, block, head, eof, broken>>
  BY <1>1 DEF readerVars
<1>4. /\ ExchangeTypes /\ ReaderInv /\ RequestInv
      /\ StreamKnown' /\ OddBytes' = OddBytes /\ (NoOddBody' <=> NoOddBody)
      /\ Unused' /\ response' = <<>> /\ WriterInv'
  BY <1>1, <1>2, <1>3, SameStream
<1>5. ExchangeTypes' /\ ReaderInv' /\ Taken' = Taken
  BY <1>1, <1>2, <1>3, <1>4 DEF ExchangeTypes, ReaderInv, Taken
<1>6. Ends'
  BY <1>3, <1>4 DEF RequestInv, Ends
<1>7. ~ broken' => Covers(text' \o body', Taken', OddBytes')
  BY <1>1, <1>3, <1>4, <1>5 DEF RequestInv
<1>8. ~ broken' => BodyFollows'
  BY <1>1, <1>2, <1>3, <1>4 DEF RequestInv, BodyFollows
<1>9. InHeader' /\ InBody'
  BY <1>2 DEF InHeader, InBody
<1>10. rest = IF Len(body) <= length THEN length - Len(body) ELSE Word + length - Len(body)
  BY <1>1, <1>4 DEF RequestInv, InBody
<1>11. Len(body) <= length + MaxExtra + ReaderSize
  BY <1>1, <1>4, ExchangeAssumption DEF RequestInv, InBody, ExchangeTypes
<1>12. rest = 0 => Len(body) = length
  BY <1>4, <1>10, <1>11, ExchangeAssumption DEF ExchangeTypes
<1>13. at' = "accepted" => Len(body') = length'
  BY <1>1, <1>12
<1>14. RefusedHasCause'
  <2>1. at' = "refused" /\ ~ broken => \/ closes /\ Len(stream) < HeaderLength + length
                                       \/ Len(stream) > HeaderLength + length
    BY <1>1, CutOff
  <2> QED BY <1>1, <1>3, <2>1 DEF RefusedHasCause
<1>15. RequestInv'
  BY <1>4, <1>6, <1>7, <1>8, <1>9, <1>13, <1>14 DEF RequestInv
<1> QED BY <1>2, <1>4, <1>5, <1>15 DEF ExchangeInv

\* A byte of the body goes to AsyncParser.
LEMMA FeedBodyStep ==
    ASSUME ExchangeInv, Feed, at = "body"
    PROVE  ExchangeInv'
<1>1. /\ CanRead /\ parser = "async" /\ Advance(1)
      /\ body' = Append(body, Byte)
      /\ at' = IF Len(body') = length THEN "accepted" ELSE "body"
      /\ UNCHANGED <<parser, length, parsing, text, rest, writerVars>>
  BY DEF Feed
<1>2. /\ ~ broken /\ ~ eof /\ Requesting
      /\ Byte = Taken + 1 /\ Taken \in Nat /\ Byte \in DOMAIN stream
      /\ ReaderInv' /\ head' \in Nat /\ Taken' = Taken + 1
      /\ UNCHANGED <<stream, closes, received, block, eof, broken>>
  BY <1>1, ReadStep
<1>3. /\ ExchangeTypes /\ ReaderInv /\ RequestInv
      /\ StreamKnown' /\ OddBytes' = OddBytes /\ (NoOddBody' <=> NoOddBody)
      /\ Unused' /\ response' = <<>> /\ WriterInv'
  BY <1>1, <1>2, SameStream
<1>4. at' \in {"accepted", "body"} /\ Requesting'
  BY <1>1 DEF Requesting
<1>5. /\ text \in Seq(Nat) /\ body \in Seq(Nat)
      /\ body' \in Seq(Nat) /\ Len(body') = Len(body) + 1
      /\ body' = body \o Following(Taken, 1)
  <2>1. text \in Seq(Nat) /\ body \in Seq(Nat) /\ Byte \in Nat
    BY <1>2, <1>3 DEF ExchangeTypes
  <2>2. Append(body, Taken + 1) = body \o Following(Taken, 1)
    BY <1>2, <2>1, AppendFollowing
  <2> QED BY <1>1, <1>2, <2>1, <2>2
<1>6. ExchangeTypes'
  BY <1>1, <1>2, <1>3, <1>4, <1>5 DEF ExchangeTypes
<1>7. Ends'
  BY <1>2 DEF Ends
<1>8. Covers(text' \o body', Taken', OddBytes')
  <2>1. text \o body \in Seq(Nat) /\ Covers(text \o body, Taken, OddBytes)
    BY <1>2, <1>3, <1>5 DEF RequestInv
  <2>2. Covers((text \o body) \o Following(Taken, 1), Taken + 1, OddBytes)
    BY <1>2, <2>1, CoversNext
  <2>3. Following(Taken, 1) \in Seq(Nat)
    BY <1>2 DEF Following
  <2>4. (text \o body) \o Following(Taken, 1) = text \o body'
    BY <1>5, <2>3, JoinedTwice
  <2> QED BY <1>1, <1>2, <1>3, <2>2, <2>4
<1>9. BodyFollows'
  <2> SUFFICES ASSUME NoOddBody
               PROVE  /\ body' = Following(HeaderLength, Len(body'))
                      /\ Taken' = HeaderLength + Len(body')
    BY <1>3 DEF BodyFollows
  <2>1. body = Following(HeaderLength, Len(body)) /\ Taken = HeaderLength + Len(body)
    BY <1>2, <1>3 DEF RequestInv, BodyFollows
  <2>2. Len(body) \in Nat /\ HeaderLength \in Nat
    BY <1>5, ExchangeAssumption
  <2>3. Following(HeaderLength, Len(body)) \o Following(HeaderLength + Len(body), 1)
            = Following(HeaderLength, Len(body) + 1)
    BY <2>2, FollowingFollowed
  <2>4. body' = Following(HeaderLength, Len(body'))
    BY <1>5, <2>1, <2>3
  <2>5. Taken' = HeaderLength + Len(body')
    BY <1>2, <1>5, <2>1, <2>2
  <2> QED BY <2>4, <2>5
<1>10. InHeader'
  BY <1>4 DEF InHeader
<1>11. InBody'
  <2>1. Len(body) < length /\ length > 0
    BY <1>1, <1>3 DEF RequestInv, InBody
  <2>2. at' = "body" => Len(body') < length
    <3>1. Len(body) \in Nat /\ length \in Nat /\ Len(body') = Len(body) + 1
      BY <1>3, <1>5 DEF ExchangeTypes
    <3>2. at' = "body" => Len(body') # length
      BY <1>1
    <3> QED BY <2>1, <3>1, <3>2
  <2> QED BY <1>1, <1>4, <2>1, <2>2 DEF InBody
<1>12. (at' = "accepted" => Len(body') = length') /\ RefusedHasCause'
  BY <1>1, <1>4 DEF RefusedHasCause
<1>13. RequestInv'
  BY <1>2, <1>3, <1>7, <1>8, <1>9, <1>10, <1>11, <1>12 DEF RequestInv
<1> QED BY <1>2, <1>3, <1>4, <1>6, <1>13 DEF ExchangeInv

\* The characters and the odd bytes, of either parser.
LEMMA CharacterStep ==
    ASSUME ExchangeInv, HeaderChar \/ HeaderGap \/ Feed \/ FeedNot
    PROVE  ExchangeInv'
<1>1. ExchangeTypes /\ Requesting
  BY DEF ExchangeInv, HeaderChar, HeaderGap, Feed, FeedNot, CanRead, Calls, Requesting
<1>2. length \in 0 .. Word - 1 /\ rest \in 0 .. Word - 1
  BY <1>1, ExchangeAssumption DEF ExchangeTypes
<1>3. CASE HeaderChar
  <2>1. at = "header"
    BY <1>3 DEF HeaderChar, CanRead, Calls
  <2>2. /\ CanRead /\ Advance(1) /\ parser = "blocking"
        /\ text' = Append(text, Byte) /\ body' = body
        /\ UNCHANGED <<parser, length, parsing, writerVars>>
        /\ \/ Byte # HeaderLength /\ at' = "header" /\ rest' = rest
           \/ /\ Byte = HeaderLength /\ rest' = length
              /\ at' = IF length = 0 THEN "accepted" ELSE IF length > MaxBody THEN "refused" ELSE "body"
    BY <1>3, <2>1 DEF HeaderChar
  <2>3. length # 0 => length > 0
    BY <1>1 DEF ExchangeTypes
  <2> QED BY <1>2, <2>1, <2>2, <2>3, HeaderCharStep
<1>4. CASE Feed
  <2>1. CASE at = "header"
    <3>1. /\ CanRead /\ Advance(1) /\ parser = "async"
          /\ text' = Append(text, Byte) /\ body' = body /\ rest' = rest
          /\ UNCHANGED <<parser, length, parsing, writerVars>>
          /\ at' = IF Byte # HeaderLength THEN "header" ELSE IF length = 0 THEN "accepted" ELSE "body"
      BY <1>4, <2>1 DEF Feed
    <3>2. length # 0 => length > 0
      BY <1>1 DEF ExchangeTypes
    <3> QED BY <1>2, <2>1, <3>1, <3>2, HeaderCharStep
  <2>2. CASE at = "body"
    BY <1>4, <2>2, FeedBodyStep
  <2> QED BY <1>4, <2>1, <2>2 DEF Feed, CanRead, Calls
<1>5. CASE HeaderGap
  <2>1. /\ CanRead /\ Advance(1) /\ parser = "blocking" /\ at = "header"
        /\ stream[Byte] \in {"nul", "minusOne"}
        /\ at' \in {"header", "refused"}
        /\ UNCHANGED <<parser, length, parsing, text, body, rest, writerVars>>
    BY <1>5 DEF HeaderGap, CanRead, Calls, Kind
  <2>2. Byte \in DOMAIN stream /\ Byte <= HeaderLength
    BY <2>1, ReadStep
  <2>3. Byte \in OddBytes
    BY <2>1, <2>2 DEF OddBytes, Odd
  <2>4. parsing' \in BOOLEAN
    BY <1>1, <2>1 DEF ExchangeTypes
  <2> QED BY <2>1, <2>3, <2>4, OddStep
<1>6. CASE FeedNot
  <2>1. /\ CanRead /\ Advance(1) /\ parser = "async"
        /\ stream[Byte] # "char"
        /\ (at' = "refused" /\ parsing' = parsing) \/ (at' = at /\ parsing' = FALSE)
        /\ UNCHANGED <<parser, length, text, body, rest, writerVars>>
    BY <1>6 DEF FeedNot, Kind
  <2>2. Byte \in DOMAIN stream
    BY <2>1, ReadStep
  <2>3. Byte \in OddBytes
    BY <2>1, <2>2 DEF OddBytes, Odd
  <2>4. parsing' \in BOOLEAN
    BY <1>1, <2>1 DEF ExchangeTypes
  <2> QED BY <2>1, <2>3, <2>4, OddStep
<1> QED BY <1>3, <1>4, <1>5, <1>6

\* Parse is called again: only that changes.
LEMMA ParseAgainStep ==
    ASSUME ExchangeInv, ParseAgain
    PROVE  ExchangeInv'
<1>1. /\ parsing' = TRUE
      /\ UNCHANGED <<parser, length, at, text, body, rest, readerVars, writerVars>>
  BY DEF ParseAgain
<1>2. UNCHANGED <<stream, closes, received, block, head, eof, broken>>
  BY <1>1 DEF readerVars
<1>3. UNCHANGED <<response, part, remaining, next, buffer, sent, failed, destroyed>>
  BY <1>1 DEF writerVars
<1>4. ExchangeTypes' /\ ReaderInv'
  BY <1>1, <1>2 DEF ExchangeInv, ExchangeTypes, ReaderInv
<1>5. WriterInv'
  BY <1>3 DEF ExchangeInv, WriterInv, WriterTypes, WriterOrder, WriterShort
<1>6. ~ Requesting' => text' = <<>> /\ body' = <<>>
  BY <1>1 DEF ExchangeInv, Requesting
<1>7. ASSUME Requesting'
      PROVE  RequestInv'
  <2>1. Requesting
    BY <1>1, <1>7 DEF Requesting
  <2>2. /\ RequestInv
        /\ StreamKnown' /\ OddBytes' = OddBytes /\ (NoOddBody' <=> NoOddBody)
        /\ \A i \in DOMAIN stream : Odd(i)' <=> Odd(i)
        /\ Unused' /\ response' = <<>>
    BY <1>1, <1>2, <2>1, SameStream
  <2>3. Taken' = Taken /\ Ends'
    BY <1>2, <2>2 DEF RequestInv, Taken, Ends
  <2>4. ~ broken' => Covers(text' \o body', Taken', OddBytes') /\ BodyFollows'
    BY <1>1, <1>2, <2>2, <2>3 DEF RequestInv, BodyFollows
  <2>5. InHeader' /\ InBody' /\ (at' = "accepted" => Len(body') = length')
    BY <1>1, <1>2, <2>2, <2>3 DEF RequestInv, InHeader, InBody
  <2>6. RefusedHasCause'
    BY <1>1, <1>2, <2>2 DEF RequestInv, RefusedHasCause
  <2> QED BY <2>2, <2>3, <2>4, <2>5, <2>6 DEF RequestInv
<1> QED BY <1>4, <1>5, <1>6, <1>7 DEF ExchangeInv

------------------------------------------------------------------------------
(* The response *)

\* The reader is gone, and a new writer has the response.
LEMMA RespondStep ==
    ASSUME ExchangeInv, Respond
    PROVE  ExchangeInv'
<1>1. /\ at = "accepted" /\ at' = "respond"
      /\ response' \in Responses
      /\ stream' = <<>> /\ closes' = FALSE /\ received' = 0
      /\ block' = <<>> /\ head' = 0 /\ eof' = FALSE
      /\ text' = <<>> /\ body' = <<>> /\ rest' = 0 /\ length' = 0
      /\ parsing' = TRUE /\ parser' = "blocking"
      /\ UNCHANGED <<broken, part, remaining, next, buffer, sent, failed, destroyed>>
  BY DEF Respond
<1>2. ExchangeTypes /\ Unused /\ ~ Requesting'
  BY <1>1 DEF ExchangeInv, RequestInv, Requesting
<1>3. ExchangeTypes'
  <2>1. <<>> \in Seq(ByteKinds) /\ <<>> \in Seq(Nat)
    OBVIOUS
  <2>2. 0 \in 0 .. MaxContent /\ 0 \in 0 .. Word - 1 /\ 0 \in Nat
    BY ExchangeAssumption
  <2>3. broken' \in BOOLEAN /\ closes' \in BOOLEAN /\ eof' \in BOOLEAN /\ parsing' \in BOOLEAN
    BY <1>1, <1>2 DEF ExchangeTypes
  <2> QED BY <1>1, <2>1, <2>2, <2>3 DEF ExchangeTypes
<1>4. ReaderInv'
  <2>1. Len(stream') = 0 /\ Len(block') = 0 /\ received' = 0 /\ head' = 0
    BY <1>1
  <2> QED BY <2>1, ExchangeAssumption DEF ReaderInv
<1>5. WriterInv'
  <2>1. response' \in Seq(Nat)
    BY <1>1, ResponsesLengths
  <2>2. Unused'
    BY <1>1, <1>2 DEF Unused
  <2>3. (Unused /\ response \in Seq(Nat) => WriterInv)'
    BY UnusedInvariant, PTL
  <2> QED BY <2>1, <2>2, <2>3
<1> QED BY <1>1, <1>2, <1>3, <1>4, <1>5 DEF ExchangeInv

\* Only the writer moves, or the connection is closed.
LEMMA AnswerStep ==
    ASSUME ExchangeInv, Write \/ Close
    PROVE  ExchangeInv'
<1>1. /\ at = "respond" /\ at' \in {"respond", "closed"}
      /\ UNCHANGED <<parser, length, parsing, text, body, rest>>
      /\ UNCHANGED <<stream, closes, received, block, head, eof, broken>>
      /\ Next \/ UNCHANGED writerVars
  BY DEF Write, Close, parserVars, readerVars
<1>2. ExchangeTypes' /\ ReaderInv'
  BY <1>1 DEF ExchangeInv, ExchangeTypes, ReaderInv
<1>3. ~ Requesting' /\ text' = <<>> /\ body' = <<>>
  BY <1>1 DEF ExchangeInv, Requesting
<1>4. WriterInv'
  <2>1. CASE Next
    BY <2>1, WriterStep DEF ExchangeInv
  <2>2. CASE UNCHANGED writerVars
    BY <2>2 DEF ExchangeInv, writerVars, WriterInv, WriterTypes, WriterOrder, WriterShort
  <2> QED BY <1>1, <2>1, <2>2
<1> QED BY <1>2, <1>3, <1>4 DEF ExchangeInv

------------------------------------------------------------------------------
(* The theorems *)

\* At first nothing was received and nothing was given.
LEMMA ExchangeInitInvariant == ExchangeInit => ExchangeInv
<1> SUFFICES ASSUME ExchangeInit PROVE ExchangeInv
  OBVIOUS
<1>1. /\ parser \in {"blocking", "async"} /\ length \in 0 .. MaxContent
      /\ closes \in BOOLEAN /\ at = "header" /\ parsing = TRUE
      /\ text = <<>> /\ body = <<>> /\ rest = 0
      /\ response = <<>> /\ Unused
      /\ received = 0 /\ block = <<>> /\ head = 0 /\ eof = FALSE /\ broken = FALSE
  BY DEF ExchangeInit, ReaderInit, Unused
<1>2. PICK n \in 0 .. HeaderLength + length + MaxExtra : stream \in Streams(n)
  BY DEF ExchangeInit
<1>3. n \in Nat /\ n <= HeaderLength + length + MaxExtra
  BY <1>1, ExchangeAssumption
<1>4. /\ stream \in [1 .. n -> ByteKinds]
      /\ HeaderLength \in 1 .. n => stream[HeaderLength] = "char"
  <2>1. CASE stream = [i \in 1 .. n |-> "char"]
    BY <2>1 DEF ByteKinds
  <2>2. ASSUME NEW j \in 1 .. n \ {HeaderLength}, NEW k \in ByteKinds,
               stream = [i \in 1 .. n |-> IF i = j THEN k ELSE "char"]
        PROVE  <1>4!1 /\ <1>4!2
    BY <2>2 DEF ByteKinds
  <2> QED BY <1>2, <2>1, <2>2 DEF Streams
<1>5. stream \in Seq(ByteKinds) /\ Len(stream) = n /\ DOMAIN stream = 1 .. n
  BY <1>3, <1>4
<1>6. ExchangeTypes
  <2>1. <<>> \in Seq(Nat) /\ 0 \in Nat /\ 0 \in 0 .. Word - 1
    BY ExchangeAssumption
  <2>2. eof \in BOOLEAN /\ broken \in BOOLEAN /\ parsing \in BOOLEAN
    BY <1>1
  <2> QED BY <1>1, <1>5, <2>1, <2>2 DEF ExchangeTypes
<1>7. ReaderInv /\ Taken = 0
  <2>1. Len(block) = 0 /\ received = 0 /\ head = 0 /\ Len(stream) \in Nat
    BY <1>1, <1>3, <1>5
  <2>2. ReaderInv
    BY <2>1, ExchangeAssumption DEF ReaderInv
  <2> QED BY <2>1, <2>2 DEF Taken
<1>8. StreamKnown /\ Ends
  BY <1>1, <1>3, <1>4, <1>5 DEF StreamKnown, Ends
<1>9. Covers(text \o body, Taken, OddBytes)
  <2>1. <<>> \o <<>> = <<>>
    OBVIOUS
  <2> QED BY <1>1, <1>7, <2>1 DEF Covers, InOrder
<1>10. BodyFollows /\ InHeader /\ InBody
  <2>1. body = Following(HeaderLength, Len(body))
    BY <1>1 DEF Following
  <2> QED BY <1>1, <1>7, <2>1, ExchangeAssumption DEF BodyFollows, InHeader, InBody
<1>11. RequestInv
  BY <1>1, <1>8, <1>9, <1>10 DEF RequestInv, RefusedHasCause
<1>12. WriterInv
  <2>1. response \in Seq(Nat)
    BY <1>1
  <2> QED BY <1>1, <2>1, UnusedInvariant
<1>13. Requesting
  BY <1>1 DEF Requesting
<1> QED BY <1>6, <1>7, <1>11, <1>12, <1>13 DEF ExchangeInv

\* However recv cuts the stream, both parsers stand where the bytes they were
\* given say.
THEOREM ExchangeInvariance == ExchangeSpec => []ExchangeInv
<1>1. ExchangeInit => ExchangeInv
  BY ExchangeInitInvariant
<1>2. ExchangeInv /\ [ExchangeNext]_exchangeVars => ExchangeInv'
  <2> SUFFICES ASSUME ExchangeInv, [ExchangeNext]_exchangeVars PROVE ExchangeInv'
    OBVIOUS
  <2>1. CASE Refill \/ ReadEnd
    BY <2>1, RefillStep, ReadEndStep
  <2>2. CASE HeaderChar \/ HeaderGap \/ Feed \/ FeedNot
    BY <2>2, CharacterStep
  <2>3. CASE BodyRefill \/ CopyBody \/ BodyEnd
    BY <2>3, BodyRefillStep, CopyBodyStep, BodyEndStep
  <2>4. CASE ParseAgain
    BY <2>4, ParseAgainStep
  <2>5. CASE Respond \/ Write \/ Close
    BY <2>5, RespondStep, AnswerStep
  <2>6. CASE UNCHANGED exchangeVars
    <3> USE <2>6 DEF exchangeVars, readerVars, parserVars, writerVars
    <3>1. ExchangeTypes' /\ ReaderInv'
      BY DEF ExchangeInv, ExchangeTypes, ReaderInv
    <3>2. WriterInv'
      BY DEF ExchangeInv, WriterInv, WriterTypes, WriterOrder, WriterShort
    <3>3. Requesting' <=> Requesting
      BY DEF Requesting
    <3>4. RequestInv => RequestInv'
      <4>1. (StreamKnown' <=> StreamKnown) /\ (Ends' <=> Ends) /\ Taken' = Taken
        BY DEF StreamKnown, Ends, Taken
      <4>2. OddBytes' = OddBytes /\ (NoOddBody' <=> NoOddBody)
        BY DEF OddBytes, NoOddBody, Odd
      <4>3. (BodyFollows' <=> BodyFollows) /\ (InHeader' <=> InHeader) /\ (InBody' <=> InBody)
        BY <4>1, <4>2 DEF BodyFollows, InHeader, InBody
      <4>4. RefusedHasCause' <=> RefusedHasCause
        BY DEF RefusedHasCause, Odd
      <4>5. Unused' <=> Unused
        BY DEF Unused
      <4> QED BY <4>1, <4>2, <4>3, <4>4, <4>5 DEF RequestInv
    <3> QED BY <3>1, <3>2, <3>3, <3>4 DEF ExchangeInv
  <2> QED BY <2>1, <2>2, <2>3, <2>4, <2>5, <2>6 DEF ExchangeNext
<1> QED BY <1>1, <1>2, PTL DEF ExchangeSpec

\* What a parser has been given is the stream in its order, without its odd bytes.
THEOREM GivenInOrder == ExchangeSpec => []BytesInOrder
<1>1. ASSUME ExchangeInv
      PROVE  BytesInOrder
  <2> SUFFICES ASSUME ~ broken, Given # <<>>
               PROVE  /\ \A i, j \in DOMAIN Given : i < j => Given[i] < Given[j]
                      /\ \A b \in 1 .. Given[Len(Given)] :
                            Odd(b) \/ \E i \in DOMAIN Given : Given[i] = b
    BY DEF BytesInOrder
  <2>1. ~ Requesting => Given = <<>>
    BY <1>1 DEF ExchangeInv, Given
  <2>2. /\ Covers(Given, Taken, OddBytes) /\ ExchangeTypes /\ ReaderInv
    BY <1>1, <2>1 DEF ExchangeInv, RequestInv, Given
  <2>3. Given \in Seq(Nat) /\ Taken \in Nat
    BY <2>2 DEF ExchangeTypes, ReaderInv, Given, Taken
  <2>4. Len(Given) \in DOMAIN Given
    BY <2>3
  <2>5. Given[Len(Given)] \in 1 .. Taken
    BY <2>2, <2>4 DEF Covers, InOrder
  <2>6. \A b \in 1 .. Given[Len(Given)] : b \in 1 .. Taken
    BY <2>3, <2>5
  <2> QED BY <2>2, <2>6 DEF Covers, InOrder, OddBytes
<1> QED BY <1>1, ExchangeInvariance, PTL

\* The body of an accepted request is as long as announced, though it is copied
\* by blocks longer than what remains, and the count may wrap.
THEOREM BodyAsAnnounced == ExchangeSpec => []BodyExact
<1>1. ASSUME ExchangeInv
      PROVE  BodyExact
  <2> SUFFICES ASSUME at = "accepted"
               PROVE  /\ Len(body) = length
                      /\ ~ broken /\ NoOddBody => body = [i \in 1 .. length |-> HeaderLength + i]
    BY DEF BodyExact, NoOddBody
  <2>1. RequestInv
    BY <1>1 DEF ExchangeInv, Requesting
  <2> QED BY <2>1 DEF RequestInv, BodyFollows, Following
<1> QED BY <1>1, ExchangeInvariance, PTL

\* Neither parser refuses a request in which nothing was wrong.
THEOREM NoRefusalWithoutCause == ExchangeSpec => []RefusedHasCause
<1>1. ExchangeInv => RefusedHasCause
  BY DEF ExchangeInv, Requesting, RequestInv, RefusedHasCause
<1> QED BY <1>1, ExchangeInvariance, PTL

\* The writer keeps the order inside an exchange too.
THEOREM AnswerInOrder == ExchangeSpec => []NothingTwice
<1>1. ExchangeInv => NothingTwice
  BY DEF ExchangeInv, WriterInv, WriterOrder, InOrder, NothingTwice
<1> QED BY <1>1, ExchangeInvariance, PTL

\* A response that fits in the buffer is sent whole inside an exchange too.
THEOREM ShortAnswerWhole == ExchangeSpec => []ShortResponseWhole
<1>1. ASSUME ExchangeInv
      PROVE  ShortResponseWhole
  <2>1. WriterInv /\ Following(0, next) = [i \in 1 .. next |-> i]
    BY <1>1 DEF ExchangeInv, Following, WriterInv, WriterTypes
  <2> QED BY <2>1 DEF WriterInv, WriterShort, ShortResponseWhole
<1> QED BY <1>1, ExchangeInvariance, PTL

==============================================================================
