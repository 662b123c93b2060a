---------------------------- MODULE ParsersProofs ----------------------------
(***************************************************************************)
(* Theorems about Parsers, for inputs of every length over every alphabet: *)
(* as long as neither parser has given up they are at the same place of    *)
(* the request, and the one that gives up alone has a reason.              *)
(***************************************************************************)
EXTENDS Parsers, FiniteSetTheorems, TLAPS

------------------------------------------------------------------------------
(* The inductive invariant *)

Symbols == UNION {i.symbols : i \in Inputs}

Handlers ==
    {"Start", "Method", "Space1", "Path", "Space2", "Version", "NewLine", "HeaderKey", "Colon",
     "Space3", "HeaderValue", "HeaderNewLine", "EndLine", "Body", "Done", "Error", "Thrown"}

Places ==
    {"Start", "Method", "Space1", "Path", "Space2", "Version", "VersionCR", "Line", "Key", "Colon",
     "Space3", "Value", "ValueCR", "EndCR", "Body", "Done", "Error", "Thrown"}

IsRequest(r) ==
    r = [method |-> r.method, path |-> r.path, length |-> r.length, header |-> r.header,
         body |-> r.body]

AsyncTypes ==
    /\ handler \in Handlers
    /\ token \in Seq(Symbols)
    /\ IsRequest(request) /\ request.length \in Int /\ request.body \in Seq(Symbols)

BlockingTypes ==
    /\ at \in Places
    /\ pToken \in Seq(Symbols)
    /\ IsRequest(pRequest) /\ pRequest.length \in Int

ParserTypes ==
    /\ AsyncTypes /\ BlockingTypes
    /\ input \in Inputs
    /\ loose \in BOOLEAN /\ lenient \in BOOLEAN

\* Where the parsers are when they are at the same place.  A value that is all
\* spaces has not begun for RequestParser; a negative length means no body to it.
SamePlace ==
    <<handler, at>> \in
        {<<"Start", "Start">>, <<"Method", "Method">>, <<"Space1", "Space1">>, <<"Path", "Path">>,
         <<"Space2", "Space2">>, <<"Version", "Version">>, <<"NewLine", "VersionCR">>,
         <<"HeaderKey", "Line">>, <<"HeaderKey", "Key">>, <<"Colon", "Colon">>,
         <<"Space3", "Space3">>, <<"HeaderValue", "Space3">>, <<"HeaderValue", "Value">>,
         <<"HeaderNewLine", "ValueCR">>, <<"EndLine", "EndCR">>, <<"Body", "Body">>,
         <<"Body", "Done">>, <<"Done", "Done">>}

\* s is t with k spaces in front of it.
Spaced(s, k, t) ==
    /\ Len(s) = k + Len(t)
    /\ \A i \in 1 .. k : s[i] = "SP"
    /\ \A i \in 1 .. Len(t) : s[k + i] = t[i]

SameToken ==
    /\ handler \in {"Start", "Space1", "Space2", "Version", "NewLine", "Colon", "Space3",
                    "HeaderNewLine"} => token = <<>>
    /\ at = "Line" => token = <<>>
    /\ handler \in {"Method", "Path"} => token = pToken
    /\ at = "Key" => token = pToken /\ token # <<>>
    /\ at = "Version" => pToken = <<Version11>>
    /\ handler \in {"Colon", "Space3", "HeaderValue"} => key = pKey
    /\ handler = "HeaderValue" /\ at = "Space3" => \A i \in 1 .. Len(token) : token[i] = "SP"
    /\ at = "Value" => /\ \E k \in 0 .. Len(token) : Spaced(token, k, pToken)
                       /\ pToken # <<>> /\ pToken[1] # "SP"

SameFields ==
    /\ request.method = pRequest.method
    /\ request.length = pRequest.length
    /\ handler \notin {"Start", "Method", "Space1", "Path"} =>
           CleanPath(request.path) = pRequest.path
    /\ request.header # <<>> =>
           pRequest.header = <<request.header[1], SkipSpaces(request.header[2])>>
    /\ handler = "Body" /\ at = "Done" => request.length < 0
    /\ ~ (handler = "Body" /\ at = "Done") => request.body = pRequest.body

Erred(a) == a \in {"Error", "Thrown"}

Together == ~ Erred(handler) /\ ~ Erred(at) => SamePlace /\ SameToken /\ SameFields

\* Why only RequestParser has given up.
AsyncAlone ==
    Erred(at) /\ ~ Erred(handler) =>
        \/ loose
        \/ handler \notin {"Start", "Method"} /\ request.method \notin {"GET", "POST"}
        \/ handler = "Path" /\ \E i \in DOMAIN token : token[i] = ":"
        \/ /\ handler \notin {"Start", "Method", "Space1", "Path"}
           /\ \E i \in DOMAIN request.path : request.path[i] = ":"
        \/ handler \in {"Body", "Done"} /\ request.length > 4096

\* Why only AsyncParser has given up; in the last two cases RequestParser will
\* give up before the header.
BlockingAlone ==
    Erred(handler) /\ ~ Erred(at) =>
        \/ lenient
        \/ at = "Method" /\ \E i \in DOMAIN pToken : ~ IsAlpha(pToken[i])
        \/ at = "Version" /\ pToken # <<>> /\ pToken # <<Version11>>

Agree == Together /\ AsyncAlone /\ BlockingAlone

ParsersInv == ParserTypes /\ Agree

------------------------------------------------------------------------------
(* The helpers *)

\* The two parsers' modules have the helpers of HttpSyntax.
LEMMA AsyncSyntax ==
    /\ \A ch : /\ Async!IsAlpha(ch) <=> IsAlpha(ch)
               /\ Async!IsPathChar(ch) <=> IsPathChar(ch)
               /\ Async!IsHeaderKeyChar(ch) <=> IsHeaderKeyChar(ch)
               /\ Async!IsHeaderValueChar(ch) <=> IsHeaderValueChar(ch)
    /\ Async!Methods = Methods /\ Async!Version11 = Version11
    /\ Async!EmptyRequest = EmptyRequest
<1>1. Async!Methods = Methods /\ Async!ContentLength = ContentLength /\ Async!Numbers = Numbers
  BY Zenon DEF Async!Methods, Methods, Async!ContentLength, ContentLength, Async!Numbers, Numbers
<1>2. \A ch : Async!IsAlpha(ch) <=> IsAlpha(ch)
  BY <1>1 DEF Async!IsAlpha, IsAlpha
<1>3. \A ch : Async!IsHeaderKeyChar(ch) <=> IsHeaderKeyChar(ch)
  BY <1>1, <1>2 DEF Async!IsHeaderKeyChar, IsHeaderKeyChar
<1> QED BY <1>1, <1>2, <1>3
        DEF Async!IsPathChar, IsPathChar, Async!IsHeaderValueChar, IsHeaderValueChar,
            Async!Version11, Version11, Async!EmptyRequest, EmptyRequest

\* And so have the functions on headers of AsyncParser.
LEMMA AsyncHeaders ==
    /\ \A s : Async!SkipSpaces(s) = SkipSpaces(s)
    /\ \A k, v : Async!StoiThrows(k, v) <=> StoiThrows(k, v)
    /\ \A r, k, v : Async!WithHeader(r, k, v) = WithHeader(r, k, v)
<1>1. Async!Numbers = Numbers /\ Async!ContentLength = ContentLength
  BY Zenon DEF Async!Numbers, Numbers, Async!ContentLength, ContentLength
<1>2. \A s : Async!SkipSpaces(s) = SkipSpaces(s)
  BY Zenon DEF Async!SkipSpaces, SkipSpaces, Async!Cardinality, Cardinality
<1>3. \A s : (Async!IsNumber(s) <=> IsNumber(s)) /\ Async!Stoi(s) = Stoi(s)
  BY <1>1, <1>2, Zenon DEF Async!IsNumber, IsNumber, Async!Stoi, Stoi
<1> QED BY <1>1, <1>2, <1>3, Zenon
        DEF Async!StoiThrows, StoiThrows, Async!WithHeader, WithHeader

\* The helpers of RequestParser.
LEMMA BlockingSyntax ==
    /\ Blocking!Version11 = Version11 /\ Blocking!EmptyRequest = EmptyRequest
    /\ \A path : Blocking!CleanPath(path) = CleanPath(path)
    /\ \A k, v : Blocking!StoiThrows(k, v) <=> StoiThrows(k, v)
    /\ \A r, k, v : Blocking!WithHeader(r, k, v) = WithHeader(r, k, v)
<1>1. Blocking!Numbers = Numbers /\ Blocking!ContentLength = ContentLength
  BY Zenon DEF Blocking!Numbers, Numbers, Blocking!ContentLength, ContentLength
<1>2. \A s : Blocking!SkipSpaces(s) = SkipSpaces(s)
  BY Zenon DEF Blocking!SkipSpaces, SkipSpaces, Blocking!Cardinality, Cardinality
<1>3. \A s : (Blocking!IsNumber(s) <=> IsNumber(s)) /\ Blocking!Stoi(s) = Stoi(s)
  BY <1>1, <1>2, Zenon DEF Blocking!IsNumber, IsNumber, Blocking!Stoi, Stoi
<1>4. \A path : Blocking!CleanPath(path) = CleanPath(path)
  BY Zenon DEF Blocking!CleanPath, CleanPath
<1>5. /\ \A k, v : Blocking!StoiThrows(k, v) <=> StoiThrows(k, v)
      /\ \A r, k, v : Blocking!WithHeader(r, k, v) = WithHeader(r, k, v)
  BY <1>1, <1>3, Zenon DEF Blocking!StoiThrows, StoiThrows, Blocking!WithHeader, WithHeader
<1> QED BY <1>4, <1>5
        DEF Blocking!Version11, Version11, Blocking!EmptyRequest, EmptyRequest

\* Nothing remains of spaces.
LEMMA SpacesSkipped ==
    ASSUME NEW s \in Seq(Symbols), \A i \in 1 .. Len(s) : s[i] = "SP"
    PROVE  SkipSpaces(s) = <<>>
<1> DEFINE Spaces == {i \in 1 .. Len(s) : \A j \in 1 .. i : s[j] = "SP"}
<1>1. Spaces = 1 .. Len(s) /\ Len(s) \in Nat
  OBVIOUS
<1>2. Cardinality(1 .. Len(s)) = Len(s)
  BY <1>1, FS_Interval
<1>3. Cardinality(Spaces) = Len(s)
  BY <1>1, <1>2
<1> HIDE DEF Spaces
<1>4. SkipSpaces(s) = [i \in 1 .. Len(s) - Cardinality(Spaces) |-> s[i + Cardinality(Spaces)]]
  BY DEF SkipSpaces, Spaces
<1> QED BY <1>1, <1>3, <1>4

\* What follows the spaces remains.
LEMMA SpacedSkipped ==
    ASSUME NEW s \in Seq(Symbols), NEW t \in Seq(Symbols), NEW k \in Nat, Spaced(s, k, t),
           t # <<>>, t[1] # "SP"
    PROVE  SkipSpaces(s) = t
<1> DEFINE Spaces == {i \in 1 .. Len(s) : \A j \in 1 .. i : s[j] = "SP"}
<1>1. /\ Len(s) = k + Len(t) /\ Len(t) \in Nat \ {0} /\ s[k + 1] = t[1]
      /\ \A i \in 1 .. k : s[i] = "SP"
      /\ \A i \in 1 .. Len(t) : s[k + i] = t[i]
  BY DEF Spaced
<1>2. Spaces = 1 .. k
  <2>1. \A i \in 1 .. Len(s) : i > k => k + 1 \in 1 .. i /\ s[k + 1] # "SP"
    BY <1>1
  <2>2. \A i \in 1 .. Len(s) : i <= k => \A j \in 1 .. i : s[j] = "SP"
    BY <1>1
  <2> QED BY <1>1, <2>1, <2>2
<1>3. Cardinality(Spaces) = k
  <2>1. Cardinality(1 .. k) = k
    BY FS_Interval
  <2> QED BY <1>2, <2>1
<1> HIDE DEF Spaces
<1>4. SkipSpaces(s) = [i \in 1 .. Len(s) - Cardinality(Spaces) |-> s[i + Cardinality(Spaces)]]
  BY DEF SkipSpaces, Spaces
<1>5. SkipSpaces(s) = [i \in 1 .. Len(t) |-> s[i + k]]
  <2>1. Len(s) - Cardinality(Spaces) = Len(t)
    BY <1>1, <1>3
  <2> QED BY <1>3, <1>4, <2>1
<1>6. \A i \in 1 .. Len(t) : s[i + k] = t[i]
  BY <1>1
<1> QED BY <1>5, <1>6

\* A header and a Content-Length mean the same with and without the spaces.
LEMMA HeaderSkipped ==
    ASSUME NEW k, NEW v \in Seq(Symbols), NEW w \in Seq(Symbols), SkipSpaces(v) = w, SkipSpaces(w) = w
    PROVE  /\ StoiThrows(k, v) <=> StoiThrows(k, w)
           /\ Stoi(v) = Stoi(w)
BY DEF StoiThrows, IsNumber, Stoi

\* A number is one.
LEMMA StoiInteger ==
    ASSUME NEW v, IsNumber(v)
    PROVE  Stoi(v) \in Int
<1>1. \A n \in DOMAIN Numbers : Numbers[n] \in Int
  BY DEF Numbers
<1> QED BY <1>1 DEF IsNumber, Stoi

\* A header leaves the other fields alone.
LEMMA HeaderStored ==
    ASSUME NEW r, IsRequest(r), NEW k, NEW v
    PROVE  /\ IsRequest(WithHeader(r, k, v))
           /\ WithHeader(r, k, v).method = r.method
           /\ WithHeader(r, k, v).path = r.path
           /\ WithHeader(r, k, v).body = r.body
           /\ k = <<ContentLength>> => /\ WithHeader(r, k, v).length = Stoi(v)
                                       /\ WithHeader(r, k, v).header = r.header
           /\ k # <<ContentLength>> => /\ WithHeader(r, k, v).length = r.length
                                       /\ WithHeader(r, k, v).header = <<k, v>>
<1>1. CASE k = <<ContentLength>>
  BY <1>1 DEF IsRequest, WithHeader
<1>2. CASE k # <<ContentLength>>
  BY <1>2 DEF IsRequest, WithHeader
<1> QED BY <1>1, <1>2

------------------------------------------------------------------------------
(* Each handler of AsyncParser, with the helpers of HttpSyntax *)

AsyncActions(ch) ==
    /\ handler = "Start" => Async!ParseStart(ch)
    /\ handler = "Method" => Async!ParseMethod(ch)
    /\ handler = "Space1" => Async!ParseSpace1(ch)
    /\ handler = "Path" => Async!ParsePath(ch)
    /\ handler = "Space2" => Async!ParseSpace2(ch)
    /\ handler = "Version" => Async!ParseVersion(ch)
    /\ handler = "NewLine" => Async!ParseNewLine(ch)
    /\ handler = "HeaderKey" => Async!ParseHeaderKey(ch)
    /\ handler = "Colon" => Async!ParseColon(ch)
    /\ handler = "Space3" => Async!ParseSpace3(ch)
    /\ handler = "HeaderValue" => Async!ParseHeaderValue(ch)
    /\ handler = "HeaderNewLine" => Async!ParseHeaderNewLine(ch)
    /\ handler = "EndLine" => Async!ParseEndLine(ch)
    /\ handler = "Body" => Async!ParseBody(ch)
    /\ handler \notin Final

\* A character is fed to the handler that waits for it.
LEMMA FeedCases ==
    ASSUME NEW ch, Async!Feed(ch)
    PROVE  AsyncActions(ch)
<1>1. Async!ParseStart(ch) => handler = "Start"
  BY DEF Async!ParseStart
<1>2. Async!ParseMethod(ch) => handler = "Method"
  BY DEF Async!ParseMethod
<1>3. Async!ParseSpace1(ch) => handler = "Space1"
  BY DEF Async!ParseSpace1
<1>4. Async!ParsePath(ch) => handler = "Path"
  BY DEF Async!ParsePath
<1>5. /\ Async!ParseSpace2(ch) => handler = "Space2"
      /\ Async!ParseVersion(ch) => handler = "Version"
      /\ Async!ParseNewLine(ch) => handler = "NewLine"
      /\ Async!ParseColon(ch) => handler = "Colon"
      /\ Async!ParseHeaderNewLine(ch) => handler = "HeaderNewLine"
      /\ Async!ParseEndLine(ch) => handler = "EndLine"
  BY DEF Async!Expect, Async!ParseSpace2, Async!ParseVersion, Async!ParseNewLine,
         Async!ParseColon, Async!ParseHeaderNewLine, Async!ParseEndLine
<1>6. Async!ParseHeaderKey(ch) => handler = "HeaderKey"
  BY DEF Async!ParseHeaderKey
<1>7. Async!ParseSpace3(ch) => handler = "Space3"
  BY DEF Async!ParseSpace3
<1>8. Async!ParseHeaderValue(ch) => handler = "HeaderValue"
  BY DEF Async!ParseHeaderValue
<1>9. Async!ParseBody(ch) => handler = "Body"
  BY DEF Async!ParseBody
<1> QED BY <1>1, <1>2, <1>3, <1>4, <1>5, <1>6, <1>7, <1>8, <1>9
        DEF Async!Feed, AsyncActions, Final

BlockingActions(ch) ==
    /\ at = "Start" => Blocking!MethodFirst(ch)
    /\ at = "Method" => Blocking!MethodString(ch)
    /\ at = "Space1" => Blocking!PathFirst(ch)
    /\ at = "Path" => Blocking!PathString(ch)
    /\ at = "Space2" => Blocking!VersionFirst(ch)
    /\ at = "Version" => Blocking!VersionString(ch)
    /\ at = "VersionCR" => Blocking!StartLineEnd(ch)
    /\ at = "Line" => Blocking!HeaderFirst(ch)
    /\ at = "Key" => Blocking!KeyString(ch)
    /\ at = "Colon" => Blocking!SpaceAfterColon(ch)
    /\ at = "Space3" => Blocking!ValueFirst(ch)
    /\ at = "Value" => Blocking!ValueString(ch)
    /\ at = "ValueCR" => Blocking!HeaderEnd(ch)
    /\ at = "EndCR" => Blocking!EmptyLine(ch)
    /\ at = "Body" => Blocking!Body(ch)
    /\ at \notin Final

\* A character is read where RequestParser waits for it.
LEMMA ReadCases ==
    ASSUME NEW ch, Blocking!Read(ch)
    PROVE  BlockingActions(ch)
<1>1. /\ Blocking!MethodFirst(ch) => at = "Start"
      /\ Blocking!PathFirst(ch) => at = "Space1"
      /\ Blocking!VersionFirst(ch) => at = "Space2"
  BY DEF Blocking!FirstOf, Blocking!MethodFirst, Blocking!PathFirst, Blocking!VersionFirst
<1>2. Blocking!MethodString(ch) => at = "Method"
  BY DEF Blocking!MethodString
<1>3. Blocking!PathString(ch) => at = "Path"
  BY DEF Blocking!PathString
<1>4. Blocking!VersionString(ch) => at = "Version"
  BY DEF Blocking!VersionString
<1>5. /\ Blocking!StartLineEnd(ch) => at = "VersionCR"
      /\ Blocking!SpaceAfterColon(ch) => at = "Colon"
      /\ Blocking!HeaderEnd(ch) => at = "ValueCR"
      /\ Blocking!EmptyLine(ch) => at = "EndCR"
  BY DEF Blocking!Expect, Blocking!StartLineEnd, Blocking!SpaceAfterColon, Blocking!HeaderEnd,
         Blocking!EmptyLine
<1>6. Blocking!HeaderFirst(ch) => at = "Line"
  BY DEF Blocking!HeaderFirst
<1>7. Blocking!KeyString(ch) => at = "Key"
  BY DEF Blocking!KeyString
<1>8. Blocking!ValueFirst(ch) => at = "Space3"
  BY DEF Blocking!ValueFirst
<1>9. Blocking!ValueString(ch) => at = "Value"
  BY DEF Blocking!ValueString
<1>10. Blocking!Body(ch) => at = "Body"
  BY DEF Blocking!Body
<1> QED BY <1>1, <1>2, <1>3, <1>4, <1>5, <1>6, <1>7, <1>8, <1>9, <1>10
        DEF Blocking!Read, BlockingActions, Final

\* The tokens that begin.
LEMMA ShortTokens ==
    /\ <<>> \in Seq(Symbols)
    /\ \A ch \in Symbols : <<ch>> \in Seq(Symbols)
OBVIOUS

\* Every handler of AsyncParser keeps the types.
LEMMA FeedTyped ==
    ASSUME AsyncTypes, NEW ch \in Symbols, AsyncActions(ch)
    PROVE  AsyncTypes'
<1> USE DEF Async!Transit, Async!Push, Async!RaiseError
<1>0. Append(token, ch) \in Seq(Symbols)
  BY DEF AsyncTypes
<1>1. CASE handler = "Start"
  BY <1>1 DEF AsyncActions, AsyncTypes, Handlers, Async!ParseStart
<1>2. CASE handler = "Method"
  <2>1. PICK m : UNCHANGED request \/ request' = [request EXCEPT !.method = m]
    BY <1>2 DEF AsyncActions, Async!ParseMethod
  <2>2. IsRequest(request)' /\ (request.length \in Int)' /\ (request.body \in Seq(Symbols))'
    BY <2>1 DEF AsyncTypes, IsRequest
  <2>3. \/ handler' = "Method" /\ token' = Append(token, ch)
        \/ handler' = "Space1" /\ token' = <<>>
        \/ handler' = "Error" /\ token' = token
    BY <1>2 DEF AsyncActions, Async!ParseMethod
  <2>4. handler' \in Handlers
    BY <2>3 DEF Handlers
  <2>5. token' \in Seq(Symbols)
    BY <1>0, <2>3, ShortTokens, Zenon DEF AsyncTypes
  <2> QED BY <2>2, <2>4, <2>5 DEF AsyncTypes
<1>3. CASE handler = "Space1"
  <2>1. \/ handler' = "Path" /\ token' = Append(token, ch)
        \/ handler' = "Error" /\ token' = token
    BY <1>3 DEF AsyncActions, Async!ParseSpace1
  <2>2. UNCHANGED request
    BY <1>3 DEF AsyncActions, Async!ParseSpace1
  <2>3. handler' \in Handlers
    BY <2>1 DEF Handlers
  <2>4. token' \in Seq(Symbols)
    BY <1>0, <2>1 DEF AsyncTypes
  <2> QED BY <2>2, <2>3, <2>4 DEF AsyncTypes
<1>4. CASE handler = "Path"
  <2>1. PICK p : UNCHANGED request \/ request' = [request EXCEPT !.path = p]
    BY <1>4 DEF AsyncActions, Async!ParsePath
  <2>2. IsRequest(request)' /\ (request.length \in Int)' /\ (request.body \in Seq(Symbols))'
    BY <2>1 DEF AsyncTypes, IsRequest
  <2>3. \/ handler' = "Path" /\ token' = Append(token, ch)
        \/ handler' = "Space2" /\ token' = <<>>
        \/ handler' = "Error" /\ token' = token
    BY <1>4 DEF AsyncActions, Async!ParsePath
  <2>4. handler' \in Handlers
    BY <2>3 DEF Handlers
  <2>5. token' \in Seq(Symbols)
    BY <1>0, <2>3, ShortTokens, Zenon DEF AsyncTypes
  <2> QED BY <2>2, <2>4, <2>5 DEF AsyncTypes
<1>5. CASE handler \in {"Space2", "Version", "NewLine", "Colon", "HeaderNewLine", "EndLine"}
  <2>1. PICK h : \E c : Async!Expect(h, ch, c, "Version") \/ Async!Expect(h, ch, c, "NewLine")
                         \/ Async!Expect(h, ch, c, "HeaderKey") \/ Async!Expect(h, ch, c, "Space3")
                         \/ Async!Expect(h, ch, c, IF request.length = 0 THEN "Done" ELSE "Body")
    BY <1>5, Zenon DEF AsyncActions, Async!ParseSpace2, Async!ParseVersion, Async!ParseNewLine,
                Async!ParseColon, Async!ParseHeaderNewLine, Async!ParseEndLine
  <2>2. /\ UNCHANGED <<token, request>>
        /\ handler' \in {"Version", "NewLine", "HeaderKey", "Space3", "Done", "Body", "Error"}
    BY <2>1 DEF Async!Expect
  <2>3. handler' \in Handlers
    BY <2>2 DEF Handlers
  <2> QED BY <2>2, <2>3 DEF AsyncTypes
<1>6. CASE handler = "HeaderKey"
  <2>1. UNCHANGED request /\ handler' \in Handlers
    BY <1>6 DEF AsyncActions, Handlers, Async!ParseHeaderKey
  <2>2. token' = token \/ token' = Append(token, ch) \/ token' = <<>>
    BY <1>6 DEF AsyncActions, Async!ParseHeaderKey
  <2>3. token' \in Seq(Symbols)
    BY <1>0, <2>2, ShortTokens, Zenon DEF AsyncTypes
  <2> QED BY <2>1, <2>3 DEF AsyncTypes
<1>7. CASE handler = "Space3"
  BY <1>7 DEF AsyncActions, AsyncTypes, Handlers, Async!ParseSpace3
<1>8. CASE handler = "HeaderValue"
  <2>1. \/ UNCHANGED request
        \/ ~ StoiThrows(key, token) /\ request' = WithHeader(request, key, token)
    BY <1>8, AsyncHeaders DEF AsyncActions, Async!ParseHeaderValue
  <2>2. ~ StoiThrows(key, token) /\ key = <<ContentLength>> => Stoi(token) \in Int
    BY StoiInteger DEF StoiThrows
  <2>3. IsRequest(request)' /\ (request.length \in Int)' /\ (request.body \in Seq(Symbols))'
    BY <2>1, <2>2, HeaderStored DEF AsyncTypes
  <2>4. \/ handler' = "HeaderValue" /\ token' = Append(token, ch)
        \/ handler' = "HeaderNewLine" /\ token' = <<>>
        \/ handler' \in {"Error", "Thrown"} /\ token' = token
    BY <1>8 DEF AsyncActions, Async!ParseHeaderValue
  <2>5. handler' \in Handlers
    BY <2>4 DEF Handlers
  <2>6. token' \in Seq(Symbols)
    BY <1>0, <2>4, ShortTokens, Zenon DEF AsyncTypes
  <2> QED BY <2>3, <2>5, <2>6 DEF AsyncTypes
<1>9. CASE handler = "Body"
  <2>1. IsRequest(request)' /\ (request.length \in Int)' /\ (request.body \in Seq(Symbols))'
    BY <1>9 DEF AsyncActions, AsyncTypes, IsRequest, Async!ParseBody
  <2> QED BY <1>9, <2>1 DEF AsyncActions, AsyncTypes, Handlers, Async!ParseBody
<1> QED BY <1>1, <1>2, <1>3, <1>4, <1>5, <1>6, <1>7, <1>8, <1>9
        DEF AsyncTypes, AsyncActions, Handlers, Final

\* And so does RequestParser wherever it waits.
LEMMA ReadTyped ==
    ASSUME BlockingTypes, NEW ch \in Symbols, BlockingActions(ch)
    PROVE  BlockingTypes'
<1> USE DEF Blocking!Begin, Blocking!Extend, Blocking!Go, Blocking!Error
<1>1. CASE at \in {"Start", "Space1", "Space2"}
  <2>1. PICK a : \/ Blocking!FirstOf(a, ch, "Method") \/ Blocking!FirstOf(a, ch, "Path")
                 \/ Blocking!FirstOf(a, ch, "Version")
    BY <1>1, Zenon DEF BlockingActions, Blocking!MethodFirst, Blocking!PathFirst,
                       Blocking!VersionFirst
  <2>2. /\ UNCHANGED pRequest /\ (pToken' = pToken \/ pToken' = <<ch>>)
        /\ at' \in {"Method", "Path", "Version", "Error"}
    BY <2>1 DEF Blocking!FirstOf
  <2>3. at' \in Places
    BY <2>2 DEF Places
  <2> QED BY <2>2, <2>3, ShortTokens DEF BlockingTypes
<1>2. CASE at = "Method"
  <2>1. PICK m : UNCHANGED pRequest \/ pRequest' = [pRequest EXCEPT !.method = m]
    BY <1>2 DEF BlockingActions, Blocking!MethodString
  <2>2. IsRequest(pRequest)' /\ (pRequest.length \in Int)'
    BY <2>1 DEF BlockingTypes, IsRequest
  <2>3. (pToken \in Seq(Symbols))' /\ (at \in Places)'
    BY <1>2 DEF BlockingActions, BlockingTypes, Places, Blocking!MethodString
  <2> QED BY <2>2, <2>3 DEF BlockingTypes
<1>3. CASE at = "Path"
  <2>1. PICK p : UNCHANGED pRequest \/ pRequest' = [pRequest EXCEPT !.path = p]
    BY <1>3 DEF BlockingActions, Blocking!PathString
  <2>2. IsRequest(pRequest)' /\ (pRequest.length \in Int)'
    BY <2>1 DEF BlockingTypes, IsRequest
  <2>3. (pToken \in Seq(Symbols))' /\ (at \in Places)'
    BY <1>3 DEF BlockingActions, BlockingTypes, Places, Blocking!PathString
  <2> QED BY <2>2, <2>3 DEF BlockingTypes
<1>4. CASE at = "Version"
  BY <1>4 DEF BlockingActions, BlockingTypes, Places, Blocking!VersionString
<1>5. CASE at \in {"VersionCR", "Colon", "ValueCR", "EndCR"}
  <2>1. PICK a, c : \/ Blocking!Expect(a, ch, c, "Line") \/ Blocking!Expect(a, ch, c, "Space3")
                    \/ Blocking!EmptyLine(ch)
    BY <1>5, Zenon DEF BlockingActions, Blocking!StartLineEnd, Blocking!SpaceAfterColon,
                       Blocking!HeaderEnd
  <2>2. CASE Blocking!EmptyLine(ch)
    BY <2>2 DEF BlockingTypes, Places, Blocking!Expect, Blocking!EmptyLine
  <2>3. CASE ~ Blocking!EmptyLine(ch)
    BY <2>1, <2>3 DEF BlockingTypes, Places, Blocking!Expect
  <2> QED BY <2>2, <2>3
<1>6. CASE at = "Line"
  <2>1. UNCHANGED pRequest /\ at' \in Places
    BY <1>6 DEF BlockingActions, Places, Blocking!HeaderFirst
  <2>2. pToken' \in Seq(Symbols)
    BY <1>6, ShortTokens DEF BlockingActions, BlockingTypes, Blocking!HeaderFirst
  <2> QED BY <2>1, <2>2 DEF BlockingTypes
<1>7. CASE at = "Key"
  BY <1>7 DEF BlockingActions, BlockingTypes, Places, Blocking!KeyString
<1>8. CASE at = "Space3"
  <2>1. CASE ch = "SP"
    BY <1>8, <2>1 DEF BlockingActions, BlockingTypes, Places, Blocking!ValueFirst
  <2>2. CASE ch \in {"CR", "LF"}
    BY <1>8, <2>2 DEF BlockingActions, BlockingTypes, Places, Blocking!ValueFirst
  <2>3. CASE ch \notin {"SP", "CR", "LF"}
    <3>1. Blocking!Begin("Value", ch)
      BY <1>8, <2>3 DEF BlockingActions, Blocking!ValueFirst
    <3>2. at' = "Value" /\ pToken' = <<ch>> /\ UNCHANGED pRequest
      BY <3>1 DEF Blocking!Begin
    <3> QED BY <3>2 DEF BlockingTypes, Places
  <2> QED BY <2>1, <2>2, <2>3
<1>9. CASE at = "Value"
  <2>1. \/ UNCHANGED pRequest
        \/ ~ StoiThrows(pKey, pToken) /\ pRequest' = WithHeader(pRequest, pKey, pToken)
    BY <1>9, BlockingSyntax DEF BlockingActions, Blocking!ValueString
  <2>2. ~ StoiThrows(pKey, pToken) /\ pKey = <<ContentLength>> => Stoi(pToken) \in Int
    BY StoiInteger DEF StoiThrows
  <2>3. IsRequest(pRequest)' /\ (pRequest.length \in Int)'
    BY <2>1, <2>2, HeaderStored DEF BlockingTypes
  <2>4. (pToken \in Seq(Symbols))' /\ (at \in Places)'
    BY <1>9 DEF BlockingActions, BlockingTypes, Places, Blocking!ValueString
  <2> QED BY <2>3, <2>4 DEF BlockingTypes
<1>10. CASE at = "Body"
  <2>1. IsRequest(pRequest)' /\ (pRequest.length \in Int)'
    BY <1>10 DEF BlockingActions, BlockingTypes, IsRequest, Blocking!Body
  <2> QED BY <1>10, <2>1 DEF BlockingActions, BlockingTypes, Places, Blocking!Body
<1> QED BY <1>1, <1>2, <1>3, <1>4, <1>5, <1>6, <1>7, <1>8, <1>9, <1>10
        DEF BlockingTypes, BlockingActions, Places, Final

------------------------------------------------------------------------------
(* Each place of the request *)

\* What a step with ch does to the marks.
Marks(ch) ==
    /\ loose' \in BOOLEAN /\ lenient' \in BOOLEAN
    /\ loose => loose'
    /\ handler = "HeaderKey" /\ token # <<>> /\ ch = "CR" => loose'
    /\ handler = "HeaderKey" /\ token = <<>> /\ ch = ":" => loose'
    /\ handler = "HeaderValue" /\ SkipSpaces(token) = <<>> /\ ch = "CR" => loose'
    /\ lenient => lenient'
    /\ at = "Space1" /\ ch # "/" => lenient'
    /\ at = "Path" /\ ~ IsPathChar(ch) /\ ch # "SP" => lenient'
    /\ at \in {"Line", "Key"} /\ ~ IsHeaderKeyChar(ch) /\ ch \notin {":", "CR"} => lenient'
    /\ at \in {"Space3", "Value"} /\ ~ IsHeaderValueChar(ch) /\ ch # "CR" => lenient'

\* Both parsers read ch while they are at the same place.
BothRead(ch) ==
    /\ ch \in Symbols
    /\ AsyncTypes /\ BlockingTypes
    /\ SameToken /\ SameFields
    /\ AsyncActions(ch) /\ BlockingActions(ch)
    /\ Marks(ch)

\* They are at the same place again.
LEMMA StillTogether ==
    ASSUME SamePlace', SameToken', SameFields'
    PROVE  Agree'
<1>1. ~ Erred(handler)' /\ ~ Erred(at)'
  BY DEF SamePlace, Erred
<1> QED BY <1>1 DEF Agree, Together, AsyncAlone, BlockingAlone

\* Both have given up.
LEMMA BothGaveUp ==
    ASSUME handler' \in {"Error", "Thrown"}, at' \in {"Error", "Thrown"}
    PROVE  Agree'
BY DEF Agree, Together, AsyncAlone, BlockingAlone, Erred

\* AsyncParser has given up, and RequestParser took what it does not allow.
LEMMA TakenLeniently ==
    ASSUME handler' = "Error", lenient'
    PROVE  Agree'
BY DEF Agree, Together, AsyncAlone, BlockingAlone, Erred

\* The fields stay what they are.
LEMMA FieldsKept ==
    ASSUME SameFields, UNCHANGED <<request, pRequest>>, handler # "Body" \/ at # "Done",
           handler \in {"Start", "Method", "Space1", "Path"} =>
               handler' \in {"Start", "Method", "Space1", "Path"},
           handler' # "Body" \/ at' # "Done"
    PROVE  SameFields'
BY DEF SameFields

\* The first character of the method.
LEMMA StartTogether ==
    ASSUME NEW ch, BothRead(ch), handler = "Start", at = "Start"
    PROVE  Agree'
<1> USE DEF Async!Transit, Async!Push, Async!RaiseError,
            Blocking!Begin, Blocking!Extend, Blocking!Go, Blocking!Error
<1>1. token = <<>> /\ Append(token, ch) = <<ch>>
  BY DEF BothRead, SameToken
<1>2. CASE IsAlpha(ch)
  <2>1. handler' = "Method" /\ token' = <<ch>> /\ UNCHANGED request
    BY <1>1, <1>2, AsyncSyntax DEF BothRead, AsyncActions, Async!ParseStart
  <2>2. at' = "Method" /\ pToken' = <<ch>> /\ UNCHANGED pRequest
    BY <1>2 DEF BothRead, BlockingActions, Blocking!MethodFirst, Blocking!FirstOf,
                Blocking!Delimiters, IsAlpha, Methods
  <2>3. SameFields'
    BY <2>1, <2>2, FieldsKept DEF BothRead
  <2> QED BY <2>1, <2>2, <2>3, StillTogether DEF SamePlace, SameToken
<1>3. CASE ~ IsAlpha(ch)
  <2>1. handler' = "Error"
    BY <1>3, AsyncSyntax DEF BothRead, AsyncActions, Async!ParseStart
  <2>2. at' = "Error" \/ (at' = "Method" /\ pToken' = <<ch>>)
    BY DEF BothRead, BlockingActions, Blocking!MethodFirst, Blocking!FirstOf,
           Blocking!Delimiters
  <2>3. CASE at' = "Method" /\ pToken' = <<ch>>
    <3>1. 1 \in DOMAIN pToken' /\ pToken'[1] = ch
      BY <2>3
    <3> QED BY <1>3, <2>1, <2>3, <3>1 DEF Agree, Together, AsyncAlone, BlockingAlone, Erred
  <2> QED BY <2>1, <2>2, <2>3, BothGaveUp
<1> QED BY <1>2, <1>3

\* The method and the space after it.
LEMMA MethodTogether ==
    ASSUME NEW ch, BothRead(ch), handler = "Method", at = "Method"
    PROVE  Agree'
<1> USE DEF Async!Transit, Async!Push, Async!RaiseError,
            Blocking!Begin, Blocking!Extend, Blocking!Go, Blocking!Error
<1>1. token = pToken /\ token \in Seq(Symbols) /\ ch \in Symbols
  BY DEF BothRead, SameToken, AsyncTypes
<1>2. Async!ParseMethod(ch) /\ Blocking!MethodString(ch)
  BY DEF BothRead, AsyncActions, BlockingActions
<1>3. CASE IsAlpha(ch)
  <2>1. handler' = "Method" /\ token' = Append(token, ch) /\ UNCHANGED request
    BY <1>2, <1>3, AsyncSyntax DEF Async!ParseMethod, IsAlpha, Methods
  <2>2. at' = "Method" /\ pToken' = Append(pToken, ch) /\ UNCHANGED pRequest
    BY <1>2, <1>3 DEF Blocking!MethodString, Blocking!Delimiters, IsAlpha, Methods
  <2>3. SameFields'
    BY <2>1, <2>2, FieldsKept DEF BothRead
  <2> QED BY <1>1, <2>1, <2>2, <2>3, StillTogether DEF SamePlace, SameToken
<1>4. CASE ch = "SP"
  <2>1. ~ IsAlpha(ch)
    BY <1>4 DEF IsAlpha, Methods
  <2>2. CASE Len(token) = 1 /\ token[1] \in Methods
    <3>1. /\ handler' = "Space1" /\ token' = <<>>
          /\ request' = [request EXCEPT !.method = token[1]]
      BY <1>2, <1>4, <2>1, <2>2, AsyncSyntax DEF Async!ParseMethod
    <3>2. request'.method = token[1]
      BY <3>1 DEF BothRead, AsyncTypes, IsRequest
    <3>3. CASE token \in {<<"GET">>, <<"POST">>}
      <4>1. at' = "Space1" /\ pRequest' = [pRequest EXCEPT !.method = token[1]]
        BY <1>1, <1>2, <1>4, <3>3 DEF Blocking!MethodString, Blocking!Delimiters
      <4>2. SameFields'
        BY <3>1, <4>1 DEF SameFields, BothRead, AsyncTypes, BlockingTypes, IsRequest
      <4> QED BY <3>1, <4>1, <4>2, StillTogether DEF SamePlace, SameToken
    <3>4. CASE token \notin {<<"GET">>, <<"POST">>}
      <4>1. at' = "Error"
        BY <1>1, <1>2, <1>4, <3>4 DEF Blocking!MethodString, Blocking!Delimiters
      <4>2. token[1] \notin {"GET", "POST"}
        BY <1>1, <2>2, <3>4
      <4> QED BY <3>1, <3>2, <4>1, <4>2 DEF Agree, Together, AsyncAlone, BlockingAlone, Erred
    <3> QED BY <3>3, <3>4
  <2>3. CASE ~ (Len(token) = 1 /\ token[1] \in Methods)
    <3>1. handler' = "Error"
      BY <1>2, <1>4, <2>1, <2>3, AsyncSyntax DEF Async!ParseMethod
    <3>2. token \notin {<<"GET">>, <<"POST">>}
      BY <2>3 DEF Methods
    <3>3. at' = "Error"
      BY <1>1, <1>2, <1>4, <3>2 DEF Blocking!MethodString, Blocking!Delimiters
    <3> QED BY <3>1, <3>3, BothGaveUp
  <2> QED BY <2>2, <2>3
<1>5. CASE ~ IsAlpha(ch) /\ ch # "SP"
  <2>1. handler' = "Error"
    BY <1>2, <1>5, AsyncSyntax DEF Async!ParseMethod
  <2>2. at' = "Error" \/ (at' = "Method" /\ pToken' = Append(pToken, ch))
    BY <1>2, <1>5 DEF Blocking!MethodString, Blocking!Delimiters
  <2>3. CASE at' = "Method" /\ pToken' = Append(pToken, ch)
    <3>1. Len(pToken) + 1 \in DOMAIN pToken' /\ pToken'[Len(pToken) + 1] = ch
      BY <1>1, <2>3
    <3> QED BY <1>5, <2>1, <2>3, <3>1 DEF Agree, Together, AsyncAlone, BlockingAlone, Erred
  <2> QED BY <2>1, <2>2, <2>3, BothGaveUp
<1> QED BY <1>3, <1>4, <1>5

\* The first character of the path.
LEMMA SlashTogether ==
    ASSUME NEW ch, BothRead(ch), handler = "Space1", at = "Space1"
    PROVE  Agree'
<1> USE DEF Async!Transit, Async!Push, Async!RaiseError,
            Blocking!Begin, Blocking!Extend, Blocking!Go, Blocking!Error
<1>1. token = <<>> /\ Append(token, ch) = <<ch>>
  BY DEF BothRead, SameToken
<1>2. Async!ParseSpace1(ch) /\ Blocking!PathFirst(ch)
  BY DEF BothRead, AsyncActions, BlockingActions
<1>3. CASE ch = "/"
  <2>1. handler' = "Path" /\ token' = <<ch>> /\ UNCHANGED request
    BY <1>1, <1>2, <1>3 DEF Async!ParseSpace1
  <2>2. at' = "Path" /\ pToken' = <<ch>> /\ UNCHANGED pRequest
    BY <1>2, <1>3 DEF Blocking!PathFirst, Blocking!FirstOf, Blocking!Delimiters
  <2>3. SameFields'
    BY <2>1, <2>2, FieldsKept DEF BothRead
  <2> QED BY <2>1, <2>2, <2>3, StillTogether DEF SamePlace, SameToken
<1>4. CASE ch # "/"
  <2>1. handler' = "Error"
    BY <1>2, <1>4 DEF Async!ParseSpace1
  <2>2. lenient'
    BY <1>4 DEF BothRead, Marks
  <2> QED BY <2>1, <2>2, TakenLeniently
<1> QED BY <1>3, <1>4

\* The path and the space after it.
LEMMA PathTogether ==
    ASSUME NEW ch, BothRead(ch), handler = "Path", at = "Path"
    PROVE  Agree'
<1> USE DEF Async!Transit, Async!Push, Async!RaiseError,
            Blocking!Begin, Blocking!Extend, Blocking!Go, Blocking!Error
<1>1. token = pToken /\ token \in Seq(Symbols) /\ ch \in Symbols
  BY DEF BothRead, SameToken, AsyncTypes
<1>2. Async!ParsePath(ch) /\ Blocking!PathString(ch)
  BY DEF BothRead, AsyncActions, BlockingActions
<1>3. CASE ch = "SP"
  <2>1. /\ handler' = "Space2" /\ token' = <<>>
        /\ request' = [request EXCEPT !.path = token]
    BY <1>2, <1>3, AsyncSyntax DEF Async!ParsePath, IsPathChar
  <2>2. at' = "Space2" /\ pRequest' = [pRequest EXCEPT !.path = CleanPath(pToken)]
    BY <1>2, <1>3, BlockingSyntax DEF Blocking!PathString, Blocking!Delimiters
  <2>3. SameFields'
    BY <1>1, <2>1, <2>2 DEF SameFields, BothRead, AsyncTypes, BlockingTypes, IsRequest
  <2> QED BY <2>1, <2>2, <2>3, StillTogether DEF SamePlace, SameToken
<1>4. CASE IsPathChar(ch)
  <2>1. handler' = "Path" /\ token' = Append(token, ch) /\ UNCHANGED request
    BY <1>2, <1>4, AsyncSyntax DEF Async!ParsePath, IsPathChar
  <2>2. CASE ch = ":"
    <3>1. at' = "Error"
      BY <1>2, <2>2 DEF Blocking!PathString, Blocking!Delimiters
    <3>2. Len(token) + 1 \in DOMAIN token' /\ token'[Len(token) + 1] = ":"
      BY <1>1, <2>1, <2>2
    <3> QED BY <2>1, <3>1, <3>2 DEF Agree, Together, AsyncAlone, BlockingAlone, Erred
  <2>3. CASE ch # ":"
    <3>1. at' = "Path" /\ pToken' = Append(pToken, ch) /\ UNCHANGED pRequest
      BY <1>2, <1>4, <2>3 DEF Blocking!PathString, Blocking!Delimiters, IsPathChar
    <3>2. SameFields'
      BY <2>1, <3>1, FieldsKept DEF BothRead
    <3> QED BY <1>1, <2>1, <3>1, <3>2, StillTogether DEF SamePlace, SameToken
  <2> QED BY <2>2, <2>3
<1>5. CASE ~ IsPathChar(ch) /\ ch # "SP"
  <2>1. handler' = "Error"
    BY <1>2, <1>5, AsyncSyntax DEF Async!ParsePath
  <2>2. lenient'
    BY <1>5 DEF BothRead, Marks
  <2> QED BY <2>1, <2>2, TakenLeniently
<1> QED BY <1>3, <1>4, <1>5

\* The version.
LEMMA SpaceTogether ==
    ASSUME NEW ch, BothRead(ch), handler = "Space2", at = "Space2"
    PROVE  Agree'
<1> USE DEF Async!Transit, Async!RaiseError, Blocking!Begin, Blocking!Go, Blocking!Error
<1>1. token = <<>>
  BY DEF BothRead, SameToken
<1>2. Async!ParseSpace2(ch) /\ Blocking!VersionFirst(ch)
  BY DEF BothRead, AsyncActions, BlockingActions
<1>3. CASE ch = Version11
  <2>1. handler' = "Version" /\ token' = <<>> /\ UNCHANGED request
    BY <1>1, <1>2, <1>3, AsyncSyntax DEF Async!ParseSpace2, Async!Expect
  <2>2. at' = "Version" /\ pToken' = <<Version11>> /\ UNCHANGED pRequest
    BY <1>2, <1>3 DEF Blocking!VersionFirst, Blocking!FirstOf, Blocking!Delimiters, Version11
  <2>3. SameFields'
    BY <2>1, <2>2, FieldsKept DEF BothRead
  <2> QED BY <2>1, <2>2, <2>3, StillTogether DEF SamePlace, SameToken
<1>4. CASE ch # Version11
  <2>1. handler' = "Error"
    BY <1>2, <1>4, AsyncSyntax DEF Async!ParseSpace2, Async!Expect
  <2>2. at' = "Error" \/ (at' = "Version" /\ pToken' = <<ch>>)
    BY <1>2 DEF Blocking!VersionFirst, Blocking!FirstOf, Blocking!Delimiters
  <2>3. CASE at' = "Version" /\ pToken' = <<ch>>
    <3>1. pToken' # <<>> /\ pToken' # <<Version11>>
      BY <1>4, <2>3
    <3> QED BY <2>1, <2>3, <3>1 DEF Agree, Together, AsyncAlone, BlockingAlone, Erred
  <2> QED BY <2>1, <2>2, <2>3, BothGaveUp
<1> QED BY <1>3, <1>4

\* The end of the version.
LEMMA VersionTogether ==
    ASSUME NEW ch, BothRead(ch), handler = "Version", at = "Version"
    PROVE  Agree'
<1> USE DEF Async!Transit, Async!RaiseError, Blocking!Extend, Blocking!Go, Blocking!Error
<1>1. token = <<>> /\ pToken = <<Version11>>
  BY DEF BothRead, SameToken
<1>2. Async!ParseVersion(ch) /\ Blocking!VersionString(ch)
  BY DEF BothRead, AsyncActions, BlockingActions
<1>3. CASE ch = "CR"
  <2>1. handler' = "NewLine" /\ token' = <<>> /\ UNCHANGED request
    BY <1>1, <1>2, <1>3 DEF Async!ParseVersion, Async!Expect
  <2>2. at' = "VersionCR" /\ UNCHANGED pRequest
    BY <1>1, <1>2, <1>3, BlockingSyntax DEF Blocking!VersionString, Blocking!Delimiters
  <2>3. SameFields'
    BY <2>1, <2>2, FieldsKept DEF BothRead
  <2> QED BY <2>1, <2>2, <2>3, StillTogether DEF SamePlace, SameToken
<1>4. CASE ch # "CR"
  <2>1. handler' = "Error"
    BY <1>2, <1>4 DEF Async!ParseVersion, Async!Expect
  <2>2. at' = "Error" \/ (at' = "Version" /\ pToken' = Append(pToken, ch))
    BY <1>2, <1>4 DEF Blocking!VersionString, Blocking!Delimiters
  <2>3. CASE at' = "Version" /\ pToken' = Append(pToken, ch)
    <3>1. Len(Append(pToken, ch)) = 2
      BY <1>1 DEF BothRead, BlockingTypes
    <3>2. pToken' # <<>> /\ pToken' # <<Version11>>
      BY <2>3, <3>1
    <3> QED BY <2>1, <2>3, <3>2 DEF Agree, Together, AsyncAlone, BlockingAlone, Erred
  <2> QED BY <2>1, <2>2, <2>3, BothGaveUp
<1> QED BY <1>3, <1>4

\* The end of the start line.
LEMMA StartLineTogether ==
    ASSUME NEW ch, BothRead(ch), handler = "NewLine", at = "VersionCR"
    PROVE  Agree'
<1> USE DEF Async!Transit, Async!RaiseError, Blocking!Go, Blocking!Error
<1>1. Async!ParseNewLine(ch) /\ Blocking!StartLineEnd(ch) /\ token = <<>>
  BY DEF BothRead, AsyncActions, BlockingActions, SameToken
<1>2. CASE ch = "LF"
  <2>1. /\ handler' = "HeaderKey" /\ token' = <<>> /\ UNCHANGED request
        /\ at' = "Line" /\ UNCHANGED pRequest
    BY <1>1, <1>2 DEF Async!ParseNewLine, Async!Expect, Blocking!StartLineEnd, Blocking!Expect
  <2>2. SameFields'
    BY <2>1, FieldsKept DEF BothRead
  <2> QED BY <2>1, <2>2, StillTogether DEF SamePlace, SameToken
<1>3. CASE ch # "LF"
  BY <1>1, <1>3, BothGaveUp
  DEF Async!ParseNewLine, Async!Expect, Blocking!StartLineEnd, Blocking!Expect
<1> QED BY <1>2, <1>3

\* A header line begins, or the empty line.
LEMMA LineTogether ==
    ASSUME NEW ch, BothRead(ch), handler = "HeaderKey", at = "Line"
    PROVE  Agree'
<1> USE DEF Async!Transit, Async!Push, Async!RaiseError,
            Blocking!Begin, Blocking!Go, Blocking!Error
<1>1. token = <<>> /\ Append(token, ch) = <<ch>>
  BY DEF BothRead, SameToken
<1>2. Async!ParseHeaderKey(ch) /\ Blocking!HeaderFirst(ch)
  BY DEF BothRead, AsyncActions, BlockingActions
<1>3. ~ IsHeaderKeyChar("SP") /\ ~ IsHeaderKeyChar(":") /\ ~ IsHeaderKeyChar("CR")
      /\ ~ IsHeaderKeyChar("LF")
  BY DEF IsHeaderKeyChar, IsAlpha, Methods, Numbers, ContentLength
<1>4. CASE ch = "CR"
  <2>1. handler' = "EndLine" /\ UNCHANGED request
    BY <1>2, <1>3, <1>4, AsyncSyntax DEF Async!ParseHeaderKey
  <2>2. at' = "EndCR" /\ UNCHANGED pRequest
    BY <1>2, <1>4 DEF Blocking!HeaderFirst, Blocking!Delimiters
  <2>3. SameFields'
    BY <2>1, <2>2, FieldsKept DEF BothRead
  <2> QED BY <2>1, <2>2, <2>3, StillTogether DEF SamePlace, SameToken
<1>5. CASE IsHeaderKeyChar(ch)
  <2>1. handler' = "HeaderKey" /\ token' = <<ch>> /\ UNCHANGED request
    BY <1>1, <1>2, <1>3, <1>5, AsyncSyntax DEF Async!ParseHeaderKey
  <2>2. at' = "Key" /\ pToken' = <<ch>> /\ UNCHANGED pRequest
    BY <1>2, <1>3, <1>5 DEF Blocking!HeaderFirst, Blocking!Delimiters
  <2>3. SameFields'
    BY <2>1, <2>2, FieldsKept DEF BothRead
  <2> QED BY <2>1, <2>2, <2>3, StillTogether DEF SamePlace, SameToken
<1>6. CASE ch = ":"
  <2>1. handler' = "Colon" /\ loose'
    BY <1>1, <1>2, <1>3, <1>6, AsyncSyntax DEF Async!ParseHeaderKey, BothRead, Marks
  <2>2. at' = "Error"
    BY <1>2, <1>6 DEF Blocking!HeaderFirst, Blocking!Delimiters
  <2> QED BY <2>1, <2>2 DEF Agree, Together, AsyncAlone, BlockingAlone, Erred
<1>7. CASE ~ IsHeaderKeyChar(ch) /\ ch \notin {":", "CR"}
  <2>1. handler' = "Error"
    BY <1>2, <1>7, AsyncSyntax DEF Async!ParseHeaderKey
  <2>2. lenient'
    BY <1>7 DEF BothRead, Marks
  <2> QED BY <2>1, <2>2, TakenLeniently
<1> QED BY <1>4, <1>5, <1>6, <1>7

\* The key and the colon after it.
LEMMA KeyTogether ==
    ASSUME NEW ch, BothRead(ch), handler = "HeaderKey", at = "Key"
    PROVE  Agree'
<1> USE DEF Async!Transit, Async!Push, Async!RaiseError, Blocking!Extend, Blocking!Go, Blocking!Error
<1>1. token = pToken /\ token # <<>> /\ token \in Seq(Symbols) /\ ch \in Symbols
  BY DEF BothRead, SameToken, AsyncTypes
<1>2. Async!ParseHeaderKey(ch) /\ Blocking!KeyString(ch)
  BY DEF BothRead, AsyncActions, BlockingActions
<1>3. ~ IsHeaderKeyChar("SP") /\ ~ IsHeaderKeyChar(":") /\ ~ IsHeaderKeyChar("CR")
      /\ ~ IsHeaderKeyChar("LF")
  BY DEF IsHeaderKeyChar, IsAlpha, Methods, Numbers, ContentLength
<1>4. CASE ch = "CR"
  <2>1. handler' = "EndLine" /\ loose'
    BY <1>1, <1>2, <1>3, <1>4, AsyncSyntax DEF Async!ParseHeaderKey, BothRead, Marks
  <2>2. at' = "Error"
    BY <1>2, <1>4 DEF Blocking!KeyString, Blocking!Delimiters
  <2> QED BY <2>1, <2>2 DEF Agree, Together, AsyncAlone, BlockingAlone, Erred
<1>5. CASE IsHeaderKeyChar(ch)
  <2>1. handler' = "HeaderKey" /\ token' = Append(token, ch) /\ UNCHANGED request
    BY <1>2, <1>3, <1>5, AsyncSyntax DEF Async!ParseHeaderKey
  <2>2. at' = "Key" /\ pToken' = Append(pToken, ch) /\ UNCHANGED pRequest
    BY <1>2, <1>3, <1>5 DEF Blocking!KeyString, Blocking!Delimiters
  <2>3. Append(token, ch) # <<>>
    BY <1>1
  <2>4. SameFields'
    BY <2>1, <2>2, FieldsKept DEF BothRead
  <2> QED BY <1>1, <2>1, <2>2, <2>3, <2>4, StillTogether DEF SamePlace, SameToken
<1>6. CASE ch = ":"
  <2>1. handler' = "Colon" /\ token' = <<>> /\ key' = token /\ UNCHANGED request
    BY <1>2, <1>3, <1>6, AsyncSyntax DEF Async!ParseHeaderKey
  <2>2. at' = "Colon" /\ pKey' = pToken /\ UNCHANGED pRequest
    BY <1>2, <1>6 DEF Blocking!KeyString, Blocking!Delimiters
  <2>3. SameFields'
    BY <2>1, <2>2, FieldsKept DEF BothRead
  <2> QED BY <1>1, <2>1, <2>2, <2>3, StillTogether DEF SamePlace, SameToken
<1>7. CASE ~ IsHeaderKeyChar(ch) /\ ch \notin {":", "CR"}
  <2>1. handler' = "Error"
    BY <1>2, <1>7, AsyncSyntax DEF Async!ParseHeaderKey
  <2>2. lenient'
    BY <1>7 DEF BothRead, Marks
  <2> QED BY <2>1, <2>2, TakenLeniently
<1> QED BY <1>4, <1>5, <1>6, <1>7

\* The space after the colon.
LEMMA ColonTogether ==
    ASSUME NEW ch, BothRead(ch), handler = "Colon", at = "Colon"
    PROVE  Agree'
<1> USE DEF Async!Transit, Async!RaiseError, Blocking!Go, Blocking!Error
<1>1. /\ Async!ParseColon(ch) /\ Blocking!SpaceAfterColon(ch)
      /\ token = <<>> /\ key = pKey
  BY DEF BothRead, AsyncActions, BlockingActions, SameToken
<1>2. CASE ch = "SP"
  <2>1. /\ handler' = "Space3" /\ UNCHANGED <<token, key, request>>
        /\ at' = "Space3" /\ UNCHANGED <<pKey, pRequest>>
    BY <1>1, <1>2 DEF Async!ParseColon, Async!Expect, Blocking!SpaceAfterColon, Blocking!Expect
  <2>2. SameFields'
    BY <2>1, FieldsKept DEF BothRead
  <2> QED BY <1>1, <2>1, <2>2, StillTogether DEF SamePlace, SameToken
<1>3. CASE ch # "SP"
  BY <1>1, <1>3, BothGaveUp
  DEF Async!ParseColon, Async!Expect, Blocking!SpaceAfterColon, Blocking!Expect
<1> QED BY <1>2, <1>3

\* The value has begun, after spaces.
LEMMA ValueBegun ==
    ASSUME handler' = "HeaderValue", at' = "Value", key = pKey, UNCHANGED <<key, pKey>>,
           NEW k \in Nat, Len(token') = k + Len(pToken'), Len(pToken') \in Nat,
           Spaced(token', k, pToken'), pToken' # <<>>, pToken'[1] # "SP",
           SameFields'
    PROVE  Agree'
<1>1. k \in 0 .. Len(token')
  OBVIOUS
<1>2. SamePlace'
  BY DEF SamePlace
<1>3. SameToken'
  BY <1>1 DEF SameToken
<1> QED BY <1>2, <1>3, StillTogether

\* The first character of the value.
LEMMA Space3Together ==
    ASSUME NEW ch, BothRead(ch), handler = "Space3", at = "Space3"
    PROVE  Agree'
<1> USE DEF Async!Transit, Async!Push, Async!RaiseError,
            Blocking!Begin, Blocking!Go, Blocking!Error
<1>1. token = <<>> /\ Append(token, ch) = <<ch>> /\ key = pKey
  BY DEF BothRead, SameToken
<1>2. Async!ParseSpace3(ch) /\ Blocking!ValueFirst(ch)
  BY DEF BothRead, AsyncActions, BlockingActions
<1>3. CASE ch = "SP"
  <2>1. handler' = "HeaderValue" /\ token' = <<ch>> /\ UNCHANGED <<key, request>>
    BY <1>1, <1>2, <1>3, AsyncSyntax DEF Async!ParseSpace3, IsHeaderValueChar
  <2>2. at' = "Space3" /\ UNCHANGED <<pKey, pRequest>>
    BY <1>2, <1>3 DEF Blocking!ValueFirst
  <2>3. SameFields'
    BY <2>1, <2>2, FieldsKept DEF BothRead
  <2>4. \A i \in 1 .. Len(token') : token'[i] = "SP"
    BY <1>3, <2>1
  <2> QED BY <1>1, <2>1, <2>2, <2>3, <2>4, StillTogether DEF SamePlace, SameToken
<1>4. CASE IsHeaderValueChar(ch) /\ ch # "SP"
  <2>1. handler' = "HeaderValue" /\ token' = <<ch>> /\ UNCHANGED <<key, request>>
    BY <1>1, <1>2, <1>4, AsyncSyntax DEF Async!ParseSpace3
  <2>2. at' = "Value" /\ pToken' = <<ch>> /\ UNCHANGED <<pKey, pRequest>>
    BY <1>2, <1>4 DEF Blocking!ValueFirst, IsHeaderValueChar
  <2>3. SameFields'
    BY <2>1, <2>2, FieldsKept DEF BothRead
  <2>4. /\ Spaced(<<ch>>, 0, <<ch>>) /\ Len(<<ch>>) = 0 + Len(<<ch>>) /\ Len(<<ch>>) \in Nat
        /\ <<ch>> # <<>> /\ <<ch>>[1] # "SP"
    BY <1>4 DEF Spaced
  <2> QED BY <1>1, <2>1, <2>2, <2>3, <2>4, ValueBegun
<1>5. CASE ch \in {"CR", "LF"}
  <2>1. handler' = "Error"
    BY <1>2, <1>5, AsyncSyntax DEF Async!ParseSpace3, IsHeaderValueChar
  <2>2. at' \in {"Error", "Thrown"}
    BY <1>2, <1>5 DEF Blocking!ValueFirst
  <2> QED BY <2>1, <2>2, BothGaveUp
<1>6. CASE ~ IsHeaderValueChar(ch) /\ ch \notin {"CR", "LF"}
  <2>1. handler' = "Error"
    BY <1>2, <1>6, AsyncSyntax DEF Async!ParseSpace3
  <2>2. lenient'
    BY <1>6 DEF BothRead, Marks
  <2> QED BY <2>1, <2>2, TakenLeniently
<1> QED BY <1>3, <1>4, <1>5, <1>6

\* More spaces in front of the value.
LEMMA SpacesTogether ==
    ASSUME NEW ch, BothRead(ch), handler = "HeaderValue", at = "Space3"
    PROVE  Agree'
<1> USE DEF Async!Transit, Async!Push, Async!RaiseError,
            Blocking!Begin, Blocking!Go, Blocking!Error
<1>1. /\ token \in Seq(Symbols) /\ ch \in Symbols /\ Len(token) \in Nat
      /\ \A i \in 1 .. Len(token) : token[i] = "SP"
      /\ key = pKey
  BY DEF BothRead, SameToken, AsyncTypes
<1>2. Async!ParseHeaderValue(ch) /\ Blocking!ValueFirst(ch)
  BY DEF BothRead, AsyncActions, BlockingActions
<1>3. CASE ch = "SP"
  <2>1. handler' = "HeaderValue" /\ token' = Append(token, ch) /\ UNCHANGED <<key, request>>
    BY <1>2, <1>3, AsyncSyntax DEF Async!ParseHeaderValue, IsHeaderValueChar
  <2>2. at' = "Space3" /\ UNCHANGED <<pKey, pRequest>>
    BY <1>2, <1>3 DEF Blocking!ValueFirst
  <2>3. SameFields'
    BY <2>1, <2>2, FieldsKept DEF BothRead
  <2>4. \A i \in 1 .. Len(token') : token'[i] = "SP"
    BY <1>1, <1>3, <2>1
  <2> QED BY <1>1, <2>1, <2>2, <2>3, <2>4, StillTogether DEF SamePlace, SameToken
<1>4. CASE IsHeaderValueChar(ch) /\ ch # "SP"
  <2>1. handler' = "HeaderValue" /\ token' = Append(token, ch) /\ UNCHANGED <<key, request>>
    BY <1>2, <1>4, AsyncSyntax DEF Async!ParseHeaderValue, IsHeaderValueChar
  <2>2. at' = "Value" /\ pToken' = <<ch>> /\ UNCHANGED <<pKey, pRequest>>
    BY <1>2, <1>4 DEF Blocking!ValueFirst, IsHeaderValueChar
  <2>3. SameFields'
    BY <2>1, <2>2, FieldsKept DEF BothRead
  <2>4. /\ Len(token') = Len(token) + Len(pToken') /\ Len(pToken') \in Nat
        /\ pToken' # <<>> /\ pToken'[1] # "SP"
    BY <1>1, <1>4, <2>1, <2>2
  <2>5. Spaced(token', Len(token), pToken')
    BY <1>1, <2>1, <2>2, <2>4 DEF Spaced
  <2> QED BY <1>1, <2>1, <2>2, <2>3, <2>4, <2>5, ValueBegun
<1>5. CASE ch = "CR"
  <2>1. at' = "Error"
    BY <1>2, <1>5 DEF Blocking!ValueFirst
  <2>2. handler' = "Thrown" \/ handler' = "HeaderNewLine"
    BY <1>2, <1>5, AsyncSyntax, AsyncHeaders DEF Async!ParseHeaderValue, IsHeaderValueChar
  <2>3. loose'
    BY <1>1, <1>5, SpacesSkipped DEF BothRead, Marks
  <2> QED BY <2>1, <2>2, <2>3 DEF Agree, Together, AsyncAlone, BlockingAlone, Erred
<1>6. CASE ch = "LF"
  <2>1. at' \in {"Error", "Thrown"}
    BY <1>2, <1>6 DEF Blocking!ValueFirst
  <2>2. handler' = "Error"
    BY <1>2, <1>6, AsyncSyntax DEF Async!ParseHeaderValue, IsHeaderValueChar
  <2> QED BY <2>1, <2>2, BothGaveUp
<1>7. CASE ~ IsHeaderValueChar(ch) /\ ch \notin {"CR", "LF"}
  <2>1. handler' = "Error"
    BY <1>2, <1>7, AsyncSyntax DEF Async!ParseHeaderValue
  <2>2. lenient'
    BY <1>7 DEF BothRead, Marks
  <2> QED BY <2>1, <2>2, TakenLeniently
<1> QED BY <1>3, <1>4, <1>5, <1>6, <1>7

\* The value and the end of its line.
LEMMA ValueTogether ==
    ASSUME NEW ch, BothRead(ch), handler = "HeaderValue", at = "Value"
    PROVE  Agree'
<1> USE DEF Async!Transit, Async!Push, Async!RaiseError,
            Blocking!Extend, Blocking!Go, Blocking!Error
<1>1. /\ token \in Seq(Symbols) /\ pToken \in Seq(Symbols) /\ ch \in Symbols
      /\ Len(token) \in Nat /\ Len(pToken) \in Nat
      /\ key = pKey /\ pToken # <<>> /\ pToken[1] # "SP"
  BY DEF BothRead, SameToken, AsyncTypes, BlockingTypes
<1>2. PICK k \in 0 .. Len(token) : Spaced(token, k, pToken)
  BY DEF BothRead, SameToken
<1>3. Async!ParseHeaderValue(ch) /\ Blocking!ValueString(ch)
  BY DEF BothRead, AsyncActions, BlockingActions
<1>4. CASE IsHeaderValueChar(ch)
  <2>1. handler' = "HeaderValue" /\ token' = Append(token, ch) /\ UNCHANGED <<key, request>>
    BY <1>3, <1>4, AsyncSyntax DEF Async!ParseHeaderValue, IsHeaderValueChar
  <2>2. at' = "Value" /\ pToken' = Append(pToken, ch) /\ UNCHANGED <<pKey, pRequest>>
    BY <1>3, <1>4 DEF Blocking!ValueString, IsHeaderValueChar
  <2>3. SameFields'
    BY <2>1, <2>2, FieldsKept DEF BothRead
  <2>4. /\ Len(token') = Len(token) + 1 /\ token'[Len(token) + 1] = ch
        /\ \A i \in 1 .. Len(token) : token'[i] = token[i]
        /\ Len(pToken') = Len(pToken) + 1 /\ pToken'[Len(pToken) + 1] = ch
        /\ \A i \in 1 .. Len(pToken) : pToken'[i] = pToken[i]
    BY <1>1, <2>1, <2>2
  <2>5. /\ Len(token) = k + Len(pToken) /\ k \in Nat
        /\ \A i \in 1 .. k : token[i] = "SP"
        /\ \A i \in 1 .. Len(pToken) : token[k + i] = pToken[i]
    BY <1>1, <1>2 DEF Spaced
  <2>6. Spaced(token', k, pToken')
    <3>1. Len(token') = k + Len(pToken')
      BY <1>1, <2>4, <2>5
    <3>2. \A i \in 1 .. k : token'[i] = "SP"
      BY <1>1, <2>4, <2>5
    <3>3. ASSUME NEW i \in 1 .. Len(pToken') PROVE token'[k + i] = pToken'[i]
      <4>1. CASE i = Len(pToken) + 1
        BY <1>1, <2>4, <2>5, <4>1
      <4>2. CASE i \in 1 .. Len(pToken)
        BY <1>1, <2>4, <2>5, <4>2
      <4> QED BY <1>1, <2>4, <4>1, <4>2
    <3> QED BY <3>1, <3>2, <3>3 DEF Spaced
  <2>7. Len(pToken') \in Nat /\ Len(pToken') # 0 /\ pToken'[1] = pToken[1]
    BY <1>1, <2>4
  <2>8. pToken' # <<>> /\ Len(token') = k + Len(pToken')
    BY <1>1, <2>4, <2>5, <2>7
  <2> QED BY <1>1, <2>1, <2>2, <2>3, <2>5, <2>6, <2>7, <2>8, ValueBegun
<1>5. CASE ch = "CR"
  <2>1. /\ SkipSpaces(token) = pToken /\ SkipSpaces(pToken) = pToken
        /\ StoiThrows(key, token) <=> StoiThrows(pKey, pToken)
        /\ Stoi(token) = Stoi(pToken)
    <3>1. SkipSpaces(token) = pToken
      BY <1>1, <1>2, SpacedSkipped
    <3>2. Spaced(pToken, 0, pToken)
      BY <1>1 DEF Spaced
    <3>3. SkipSpaces(pToken) = pToken
      BY <1>1, <3>2, SpacedSkipped
    <3> QED BY <1>1, <3>1, <3>3, HeaderSkipped
  <2>2. CASE StoiThrows(key, token)
    <3>1. handler' = "Thrown"
      BY <1>3, <1>5, <2>2, AsyncSyntax, AsyncHeaders DEF Async!ParseHeaderValue, IsHeaderValueChar
    <3>2. at' = "Thrown"
      BY <1>3, <1>5, <2>1, <2>2, BlockingSyntax DEF Blocking!ValueString
    <3> QED BY <3>1, <3>2, BothGaveUp
  <2>3. CASE ~ StoiThrows(key, token)
    <3>1. /\ handler' = "HeaderNewLine" /\ token' = <<>>
          /\ request' = WithHeader(request, key, token)
      BY <1>3, <1>5, <2>3, AsyncSyntax, AsyncHeaders DEF Async!ParseHeaderValue, IsHeaderValueChar
    <3>2. at' = "ValueCR" /\ pRequest' = WithHeader(pRequest, pKey, pToken)
      BY <1>3, <1>5, <2>1, <2>3, BlockingSyntax DEF Blocking!ValueString
    <3>3. SameFields'
      <4>1. /\ IsRequest(request) /\ IsRequest(pRequest)
            /\ request.method = pRequest.method /\ CleanPath(request.path) = pRequest.path
            /\ request.body = pRequest.body /\ request.length = pRequest.length
            /\ request.header # <<>> =>
                   pRequest.header = <<request.header[1], SkipSpaces(request.header[2])>>
        BY DEF BothRead, SameFields, AsyncTypes, BlockingTypes
      <4>2. /\ request'.method = pRequest'.method /\ CleanPath(request'.path) = pRequest'.path
            /\ request'.body = pRequest'.body
        BY <3>1, <3>2, <4>1, HeaderStored
      <4>3. request'.length = pRequest'.length
        BY <1>1, <2>1, <3>1, <3>2, <4>1, HeaderStored
      <4>4. request'.header # <<>> =>
                pRequest'.header = <<request'.header[1], SkipSpaces(request'.header[2])>>
        <5>1. CASE key = <<ContentLength>>
          BY <1>1, <3>1, <3>2, <4>1, <5>1, HeaderStored
        <5>2. CASE key # <<ContentLength>>
          <6>1. request'.header = <<key, token>> /\ pRequest'.header = <<pKey, pToken>>
            BY <1>1, <3>1, <3>2, <4>1, <5>2, HeaderStored
          <6> QED BY <1>1, <2>1, <6>1
        <5> QED BY <5>1, <5>2
      <4> QED BY <3>1, <3>2, <4>2, <4>3, <4>4 DEF SameFields
    <3> QED BY <3>1, <3>2, <3>3, StillTogether DEF SamePlace, SameToken
  <2> QED BY <2>2, <2>3
<1>6. CASE ch = "LF"
  <2>1. handler' = "Error"
    BY <1>3, <1>6, AsyncSyntax DEF Async!ParseHeaderValue, IsHeaderValueChar
  <2>2. at' \in {"Thrown", "Error"}
    BY <1>3, <1>6 DEF Blocking!ValueString
  <2> QED BY <2>1, <2>2, BothGaveUp
<1>7. CASE ~ IsHeaderValueChar(ch) /\ ch \notin {"CR", "LF"}
  <2>1. handler' = "Error"
    BY <1>3, <1>7, AsyncSyntax DEF Async!ParseHeaderValue
  <2>2. lenient'
    BY <1>7 DEF BothRead, Marks
  <2> QED BY <2>1, <2>2, TakenLeniently
<1> QED BY <1>4, <1>5, <1>6, <1>7

\* The line feed after a value.
LEMMA HeaderTogether ==
    ASSUME NEW ch, BothRead(ch), handler = "HeaderNewLine", at = "ValueCR"
    PROVE  Agree'
<1> USE DEF Async!Transit, Async!RaiseError, Blocking!Go, Blocking!Error
<1>1. Async!ParseHeaderNewLine(ch) /\ Blocking!HeaderEnd(ch) /\ token = <<>>
  BY DEF BothRead, AsyncActions, BlockingActions, SameToken
<1>2. CASE ch = "LF"
  <2>1. /\ handler' = "HeaderKey" /\ token' = <<>> /\ UNCHANGED request
        /\ at' = "Line" /\ UNCHANGED pRequest
    BY <1>1, <1>2 DEF Async!ParseHeaderNewLine, Async!Expect, Blocking!HeaderEnd, Blocking!Expect
  <2>2. SameFields'
    BY <2>1, FieldsKept DEF BothRead
  <2> QED BY <2>1, <2>2, StillTogether DEF SamePlace, SameToken
<1>3. CASE ch # "LF"
  BY <1>1, <1>3, BothGaveUp
  DEF Async!ParseHeaderNewLine, Async!Expect, Blocking!HeaderEnd, Blocking!Expect
<1> QED BY <1>2, <1>3

\* The empty line, after which the length decides.
LEMMA EmptyLineTogether ==
    ASSUME NEW ch, BothRead(ch), handler = "EndLine", at = "EndCR"
    PROVE  Agree'
<1> USE DEF Async!Transit, Async!RaiseError, Blocking!Go, Blocking!Error
<1>1. /\ Async!ParseEndLine(ch) /\ Blocking!EmptyLine(ch)
      /\ request.length = pRequest.length /\ request.length \in Int
  BY DEF BothRead, AsyncActions, BlockingActions, SameFields, AsyncTypes
<1>2. CASE ch = "LF"
  <2>1. UNCHANGED <<request, pRequest>>
    BY <1>1, <1>2 DEF Async!ParseEndLine, Async!Expect, Blocking!EmptyLine, Blocking!Expect
  <2>2. handler' = IF request.length = 0 THEN "Done" ELSE "Body"
    BY <1>1, <1>2 DEF Async!ParseEndLine, Async!Expect
  <2>3. at' = CASE pRequest.length > 4096 -> "Error" [] pRequest.length <= 0 -> "Done"
                [] OTHER -> "Body"
    BY <1>1, <1>2 DEF Blocking!EmptyLine, Blocking!Expect
  <2>4. CASE request.length > 4096
    <3>1. handler' = "Body" /\ at' = "Error"
      BY <1>1, <2>2, <2>3, <2>4
    <3> QED BY <2>1, <2>4, <3>1 DEF Agree, Together, AsyncAlone, BlockingAlone, Erred
  <2>5. CASE request.length > 0 /\ request.length <= 4096
    <3>1. handler' = "Body" /\ at' = "Body"
      BY <1>1, <2>2, <2>3, <2>5
    <3>2. SameFields'
      BY <2>1, <3>1, FieldsKept DEF BothRead
    <3> QED BY <3>1, <3>2, StillTogether DEF SamePlace, SameToken
  <2>6. CASE request.length = 0
    <3>1. handler' = "Done" /\ at' = "Done"
      BY <1>1, <2>2, <2>3, <2>6
    <3>2. SameFields'
      BY <2>1, <3>1, FieldsKept DEF BothRead
    <3> QED BY <3>1, <3>2, StillTogether DEF SamePlace, SameToken
  <2>7. CASE request.length < 0
    <3>1. handler' = "Body" /\ at' = "Done"
      BY <1>1, <2>2, <2>3, <2>7
    <3>2. SameFields'
      BY <2>1, <2>7, <3>1 DEF BothRead, SameFields
    <3> QED BY <3>1, <3>2, StillTogether DEF SamePlace, SameToken
  <2> QED BY <1>1, <2>4, <2>5, <2>6, <2>7
<1>3. CASE ch # "LF"
  BY <1>1, <1>3, BothGaveUp
  DEF Async!ParseEndLine, Async!Expect, Blocking!EmptyLine, Blocking!Expect
<1> QED BY <1>2, <1>3

\* The body.
LEMMA BodyTogether ==
    ASSUME NEW ch, BothRead(ch), handler = "Body", at = "Body"
    PROVE  Agree'
<1>1. /\ Async!ParseBody(ch) /\ Blocking!Body(ch)
      /\ request.length = pRequest.length /\ request.body = pRequest.body
  BY DEF BothRead, AsyncActions, BlockingActions, SameFields
<1>2. /\ request' = [request EXCEPT !.body = Append(@, ch)]
      /\ pRequest' = [pRequest EXCEPT !.body = Append(@, ch)]
  BY <1>1 DEF Async!ParseBody, Blocking!Body
<1>3. /\ request'.body = pRequest'.body
      /\ request'.length = request.length /\ pRequest'.length = pRequest.length
      /\ request'.method = request.method /\ pRequest'.method = pRequest.method
      /\ request'.path = request.path /\ pRequest'.path = pRequest.path
      /\ request'.header = request.header /\ pRequest'.header = pRequest.header
  BY <1>1, <1>2 DEF BothRead, AsyncTypes, BlockingTypes, IsRequest
<1>4. (handler' = "Done" /\ at' = "Done") \/ (handler' = "Body" /\ at' = "Body")
  BY <1>1, <1>3 DEF Async!ParseBody, Blocking!Body
<1>5. SameFields'
  BY <1>3, <1>4 DEF BothRead, SameFields
<1> QED BY <1>4, <1>5, StillTogether DEF SamePlace, SameToken

\* AsyncParser awaits a body of negative length.
LEMMA NegativeTogether ==
    ASSUME NEW ch, ch \in Symbols, AsyncTypes, SameFields, AsyncActions(ch),
           handler = "Body", at = "Done", UNCHANGED parserVars
    PROVE  Agree'
<1>1. Async!ParseBody(ch) /\ request.length < 0 /\ at' = "Done" /\ pRequest' = pRequest
  BY DEF AsyncActions, SameFields, parserVars
<1>2. request' = [request EXCEPT !.body = Append(@, ch)]
  BY <1>1 DEF Async!ParseBody
<1>3. /\ request'.body = Append(request.body, ch) /\ request'.length = request.length
      /\ request'.method = request.method /\ request'.path = request.path
      /\ request'.header = request.header
  BY <1>2 DEF AsyncTypes, IsRequest
<1>4. handler' = "Body"
  <2>1. Len(request'.body) \in Nat
    BY <1>3 DEF AsyncTypes
  <2>2. Len(request'.body) # request.length
    BY <1>1, <2>1
  <2> QED BY <1>1, <2>2 DEF Async!ParseBody
<1>5. SameFields'
  BY <1>1, <1>3, <1>4 DEF SameFields
<1> QED BY <1>1, <1>4, <1>5, StillTogether DEF SamePlace, SameToken

------------------------------------------------------------------------------
(* One parser alone *)

\* What AsyncParser has read of the start line stays.
LEMMA FeedKeeps ==
    ASSUME AsyncTypes, NEW ch, AsyncActions(ch)
    PROVE  /\ handler \notin {"Start", "Method"} =>
                  handler' \notin {"Start", "Method"} /\ request'.method = request.method
           /\ handler \notin {"Start", "Method", "Space1", "Path"} =>
                  /\ handler' \notin {"Start", "Method", "Space1", "Path"}
                  /\ request'.path = request.path
           /\ handler = "Body" => handler' \in {"Body", "Done"} /\ request'.length = request.length
<1> USE DEF Async!Transit, Async!Push, Async!RaiseError
<1>1. CASE handler \in {"Start", "Method"}
  BY <1>1
<1>2. CASE handler = "Space1"
  BY <1>2 DEF AsyncActions, Async!ParseSpace1
<1>3. CASE handler = "Path"
  <2>1. handler' \notin {"Start", "Method"}
    BY <1>3 DEF AsyncActions, Async!ParsePath
  <2>2. PICK p : UNCHANGED request \/ request' = [request EXCEPT !.path = p]
    BY <1>3 DEF AsyncActions, Async!ParsePath
  <2>3. request'.method = request.method
    BY <2>2 DEF AsyncTypes, IsRequest
  <2> QED BY <1>3, <2>1, <2>3
<1>4. CASE handler \in {"Space2", "Version", "NewLine", "Colon", "HeaderNewLine", "EndLine"}
  <2>1. PICK h : \E c : Async!Expect(h, ch, c, "Version") \/ Async!Expect(h, ch, c, "NewLine")
                         \/ Async!Expect(h, ch, c, "HeaderKey") \/ Async!Expect(h, ch, c, "Space3")
                         \/ Async!Expect(h, ch, c, IF request.length = 0 THEN "Done" ELSE "Body")
    BY <1>4, Zenon DEF AsyncActions, Async!ParseSpace2, Async!ParseVersion, Async!ParseNewLine,
                Async!ParseColon, Async!ParseHeaderNewLine, Async!ParseEndLine
  <2>2. /\ UNCHANGED request
        /\ handler' \in {"Version", "NewLine", "HeaderKey", "Space3", "Done", "Body", "Error"}
    BY <2>1 DEF Async!Expect
  <2> QED BY <1>4, <2>2
<1>5. CASE handler = "HeaderKey"
  <2>1. UNCHANGED request /\ handler' \in {"EndLine", "HeaderKey", "Colon", "Error"}
    BY <1>5 DEF AsyncActions, Async!ParseHeaderKey
  <2> QED BY <1>5, <2>1
<1>6. CASE handler = "Space3"
  BY <1>6 DEF AsyncActions, Async!ParseSpace3
<1>7. CASE handler = "HeaderValue"
  <2>1. UNCHANGED request \/ request' = WithHeader(request, key, token)
    BY <1>7, AsyncHeaders DEF AsyncActions, Async!ParseHeaderValue
  <2>2. request'.method = request.method /\ request'.path = request.path
    BY <2>1, HeaderStored DEF AsyncTypes
  <2>3. handler' \in {"HeaderValue", "Thrown", "HeaderNewLine", "Error"}
    BY <1>7 DEF AsyncActions, Async!ParseHeaderValue
  <2> QED BY <1>7, <2>2, <2>3
<1>8. CASE handler = "Body"
  <2>1. /\ request'.method = request.method /\ request'.path = request.path
        /\ request'.length = request.length
    BY <1>8 DEF AsyncActions, AsyncTypes, IsRequest, Async!ParseBody
  <2>2. handler' \in {"Body", "Done"}
    BY <1>8 DEF AsyncActions, Async!ParseBody
  <2> QED BY <1>8, <2>1, <2>2
<1> QED BY <1>1, <1>2, <1>3, <1>4, <1>5, <1>6, <1>7, <1>8
        DEF AsyncTypes, AsyncActions, Handlers, Final

\* Once RequestParser has given up, the reason remains one.
LEMMA AsyncGoesOn ==
    ASSUME AsyncTypes, NEW ch \in Symbols, AsyncActions(ch), Marks(ch),
           AsyncAlone, Erred(at), at' = at
    PROVE  Agree'
<1>1. ~ Erred(handler)
  BY DEF AsyncActions, Final, Erred
<1>2. SUFFICES ASSUME ~ Erred(handler)' PROVE AsyncAlone'
  BY DEF Agree, Together, AsyncAlone, BlockingAlone, Erred
<1>3. CASE loose
  BY <1>3 DEF Marks, AsyncAlone
<1>4. CASE handler \notin {"Start", "Method"} /\ request.method \notin {"GET", "POST"}
  BY <1>4, FeedKeeps DEF AsyncAlone
<1>5. CASE handler = "Path" /\ \E i \in DOMAIN token : token[i] = ":"
  <2>1. \/ handler' = "Path" /\ token' = Append(token, ch)
        \/ handler' = "Space2" /\ request' = [request EXCEPT !.path = token]
        \/ handler' = "Error"
    BY <1>5 DEF AsyncActions, Async!ParsePath, Async!Push, Async!Transit, Async!RaiseError
  <2>2. CASE handler' = "Path" /\ token' = Append(token, ch)
    <3>1. \E i \in DOMAIN token' : token'[i] = ":"
      BY <1>5, <2>2 DEF AsyncTypes
    <3> QED BY <2>2, <3>1 DEF AsyncAlone
  <2>3. CASE handler' = "Space2" /\ request' = [request EXCEPT !.path = token]
    <3>1. request'.path = token
      BY <2>3 DEF AsyncTypes, IsRequest
    <3> QED BY <1>5, <2>3, <3>1 DEF AsyncAlone
  <2> QED BY <1>2, <2>1, <2>2, <2>3 DEF Erred
<1>6. CASE /\ handler \notin {"Start", "Method", "Space1", "Path"}
           /\ \E i \in DOMAIN request.path : request.path[i] = ":"
  BY <1>6, FeedKeeps DEF AsyncAlone
<1>7. CASE handler \in {"Body", "Done"} /\ request.length > 4096
  BY <1>7, FeedKeeps DEF AsyncAlone, AsyncActions, Final
<1> QED BY <1>1, <1>3, <1>4, <1>5, <1>6, <1>7 DEF AsyncAlone

\* Once AsyncParser has given up, the reason remains one.
LEMMA BlockingGoesOn ==
    ASSUME BlockingTypes, NEW ch \in Symbols, BlockingActions(ch), Marks(ch),
           BlockingAlone, Erred(handler), handler' = handler
    PROVE  Agree'
<1> USE DEF Blocking!Extend, Blocking!Go, Blocking!Error
<1>1. ~ Erred(at)
  BY DEF BlockingActions, Final, Erred
<1>2. SUFFICES ASSUME ~ Erred(at)' PROVE BlockingAlone'
  BY DEF Agree, Together, AsyncAlone, BlockingAlone, Erred
<1>3. CASE lenient
  BY <1>3 DEF Marks, BlockingAlone
<1>4. CASE at = "Method" /\ \E i \in DOMAIN pToken : ~ IsAlpha(pToken[i])
  <2>1. pToken \notin {<<"GET">>, <<"POST">>}
    BY <1>4 DEF IsAlpha, Methods
  <2>2. (at' = "Method" /\ pToken' = Append(pToken, ch)) \/ at' = "Error"
    BY <1>4, <2>1 DEF BlockingActions, Blocking!MethodString, Blocking!Delimiters
  <2>3. CASE at' = "Method" /\ pToken' = Append(pToken, ch)
    <3>1. \E i \in DOMAIN pToken' : ~ IsAlpha(pToken'[i])
      BY <1>4, <2>3 DEF BlockingTypes
    <3> QED BY <2>3, <3>1 DEF BlockingAlone
  <2> QED BY <1>2, <2>2, <2>3 DEF Erred
<1>5. CASE at = "Version" /\ pToken # <<>> /\ pToken # <<Version11>>
  <2>1. (at' = "Version" /\ pToken' = Append(pToken, ch)) \/ at' = "Error"
    BY <1>5, BlockingSyntax DEF BlockingActions, Blocking!VersionString, Blocking!Delimiters
  <2>2. CASE at' = "Version" /\ pToken' = Append(pToken, ch)
    <3>1. Len(Append(pToken, ch)) = Len(pToken) + 1 /\ Len(pToken) \in Nat \ {0}
      BY <1>5 DEF BlockingTypes
    <3>2. pToken' # <<>> /\ pToken' # <<Version11>>
      BY <2>2, <3>1
    <3> QED BY <2>2, <3>2 DEF BlockingAlone
  <2> QED BY <1>2, <2>1, <2>2 DEF Erred
<1> QED BY <1>1, <1>3, <1>4, <1>5 DEF BlockingAlone

------------------------------------------------------------------------------
(* The invariant *)

\* Neither has read anything.
LEMMA InitInvariant == Init => ParsersInv
<1> SUFFICES ASSUME Init PROVE ParsersInv
  OBVIOUS
<1>1. /\ handler = "Start" /\ token = <<>> /\ request = EmptyRequest
      /\ at = "Start" /\ pToken = <<>> /\ pRequest = EmptyRequest
      /\ input \in Inputs /\ loose = FALSE /\ lenient = FALSE
  BY AsyncSyntax, BlockingSyntax DEF Init, Async!Init, Blocking!Init
<1>2. /\ IsRequest(EmptyRequest) /\ EmptyRequest.length = 0
      /\ EmptyRequest.body = <<>> /\ EmptyRequest.header = <<>>
  BY DEF IsRequest, EmptyRequest
<1>3. AsyncTypes /\ BlockingTypes
  BY <1>1, <1>2, ShortTokens DEF AsyncTypes, BlockingTypes, Handlers, Places
<1>4. Together
  BY <1>1, <1>2 DEF Together, SamePlace, SameToken, SameFields
<1> QED BY <1>1, <1>3, <1>4
        DEF ParsersInv, ParserTypes, Agree, AsyncAlone, BlockingAlone, Erred

\* A step leaves the marks that go with its symbol.
LEMMA StepMarks ==
    ASSUME ParserTypes, NEW ch,
           loose' = (\/ loose
                     \/ (handler = "HeaderKey" /\ token # <<>> /\ ch = "CR")
                     \/ (handler = "HeaderKey" /\ token = <<>> /\ ch = ":")
                     \/ (handler = "HeaderValue" /\ SkipSpaces(token) = <<>> /\ ch = "CR")),
           lenient' = (\/ lenient
                       \/ (at = "Space1" /\ ch # "/")
                       \/ (at = "Path" /\ ~ IsPathChar(ch) /\ ch # "SP")
                       \/ (at \in {"Line", "Key"} /\ ~ IsHeaderKeyChar(ch) /\ ch \notin {":", "CR"})
                       \/ (at \in {"Space3", "Value"} /\ ~ IsHeaderValueChar(ch) /\ ch # "CR"))
    PROVE  Marks(ch)
BY Zenon DEF Marks, ParserTypes

\* Both parsers read the next symbol, or have what they want.
LEMMA NextInvariant == ParsersInv /\ [Next]_vars => ParsersInv'
<1> SUFFICES ASSUME ParsersInv, [Next]_vars PROVE ParsersInv'
  OBVIOUS
<1>1. CASE UNCHANGED vars
  <2>1. UNCHANGED <<handler, token, key, request, at, pToken, pKey, pRequest, input, loose, lenient>>
    BY <1>1 DEF vars, asyncVars, parserVars
  <2>2. ParserTypes'
    BY <2>1 DEF ParsersInv, ParserTypes, AsyncTypes, BlockingTypes
  <2>3. Together'
    BY <2>1 DEF ParsersInv, Agree, Together, SamePlace, SameToken, SameFields
  <2>4. AsyncAlone' /\ BlockingAlone'
    BY <2>1 DEF ParsersInv, Agree, AsyncAlone, BlockingAlone
  <2> QED BY <2>2, <2>3, <2>4 DEF ParsersInv, Agree
<1>2. CASE Next
  <2>1. PICK ch \in input.symbols :
          /\ IF handler \in Final THEN UNCHANGED asyncVars ELSE Async!Feed(ch)
          /\ IF at \in Final THEN UNCHANGED parserVars ELSE Blocking!Read(ch)
          /\ Marks(ch)
    BY <1>2, StepMarks DEF Next, ParsersInv
  <2>2. ch \in Symbols /\ input' = input /\ input' \in Inputs
    BY <1>2 DEF Next, ParsersInv, ParserTypes, Symbols
  <2>3. handler \notin Final => AsyncActions(ch)
    BY <2>1, FeedCases
  <2>4. at \notin Final => BlockingActions(ch)
    BY <2>1, ReadCases
  <2>5. AsyncTypes /\ BlockingTypes /\ Agree
    BY DEF ParsersInv, ParserTypes
  <2>6. AsyncTypes'
    <3>1. CASE handler \in Final
      BY <2>1, <2>5, <3>1 DEF AsyncTypes, asyncVars
    <3> QED BY <2>2, <2>3, <2>5, <3>1, FeedTyped
  <2>7. BlockingTypes'
    <3>1. CASE at \in Final
      BY <2>1, <2>5, <3>1 DEF BlockingTypes, parserVars
    <3> QED BY <2>2, <2>4, <2>5, <3>1, ReadTyped
  <2>8. ParserTypes'
    BY <2>1, <2>2, <2>6, <2>7 DEF ParserTypes, Marks
  <2>9. Agree'
    <3>1. CASE ~ Erred(handler) /\ ~ Erred(at)
      <4>1. SamePlace /\ SameToken /\ SameFields
        BY <2>5, <3>1 DEF Agree, Together
      <4>2. CASE handler = "Done" /\ at = "Done"
        <5>1. UNCHANGED <<handler, token, key, request, at, pToken, pKey, pRequest>>
          BY <2>1, <4>2 DEF Final, asyncVars, parserVars
        <5>2. SamePlace'
          BY <4>1, <5>1 DEF SamePlace
        <5>3. SameToken'
          BY <4>1, <5>1 DEF SameToken
        <5>4. SameFields'
          BY <4>1, <5>1 DEF SameFields
        <5> QED BY <5>2, <5>3, <5>4, StillTogether
      <4>3. CASE handler = "Body" /\ at = "Done"
        <5>1. UNCHANGED parserVars /\ AsyncActions(ch)
          BY <2>1, <2>3, <4>3 DEF Final
        <5> QED BY <2>2, <2>5, <4>1, <4>3, <5>1, NegativeTogether
      <4>4. CASE handler # "Done" /\ at # "Done"
        <5>1. handler \notin Final /\ at \notin Final
          BY <3>1, <4>4 DEF Final, Erred
        <5>2. BothRead(ch)
          BY <2>1, <2>2, <2>3, <2>4, <2>5, <4>1, <5>1 DEF BothRead
        <5> HIDE DEF BothRead
        <5> QED BY <4>1, <4>4, <5>2, StartTogether, MethodTogether, SlashTogether, PathTogether,
                   SpaceTogether, VersionTogether, StartLineTogether, LineTogether, KeyTogether,
                   ColonTogether, Space3Together, SpacesTogether, ValueTogether, HeaderTogether,
                   EmptyLineTogether, BodyTogether
                DEF SamePlace
      <4> QED BY <4>1, <4>2, <4>3, <4>4 DEF SamePlace
    <3>2. CASE Erred(at) /\ ~ Erred(handler)
      <4>1. at' = at
        BY <2>1, <3>2 DEF Erred, Final, parserVars
      <4>2. CASE handler = "Done"
        <5>1. UNCHANGED <<handler, token, key, request>>
          BY <2>1, <4>2 DEF Final, asyncVars
        <5>2. loose => loose'
          BY <2>1 DEF Marks
        <5> QED BY <2>5, <3>2, <4>1, <5>1, <5>2 DEF Agree, Together, AsyncAlone, BlockingAlone, Erred
      <4>3. CASE handler # "Done"
        <5>1. AsyncActions(ch)
          BY <2>3, <3>2, <4>3 DEF Erred, Final
        <5> QED BY <2>1, <2>2, <2>5, <3>2, <4>1, <5>1, AsyncGoesOn DEF Agree
      <4> QED BY <4>2, <4>3
    <3>3. CASE Erred(handler) /\ ~ Erred(at)
      <4>1. handler' = handler
        BY <2>1, <3>3 DEF Erred, Final, asyncVars
      <4>2. CASE at = "Done"
        <5>1. UNCHANGED <<at, pToken, pKey, pRequest>>
          BY <2>1, <4>2 DEF Final, parserVars
        <5>2. lenient => lenient'
          BY <2>1 DEF Marks
        <5> QED BY <2>5, <3>3, <4>1, <5>1, <5>2 DEF Agree, Together, AsyncAlone, BlockingAlone, Erred
      <4>3. CASE at # "Done"
        <5>1. BlockingActions(ch)
          BY <2>4, <3>3, <4>3 DEF Erred, Final
        <5> QED BY <2>1, <2>2, <2>5, <3>3, <4>1, <5>1, BlockingGoesOn DEF Agree
      <4> QED BY <4>2, <4>3
    <3>4. CASE Erred(handler) /\ Erred(at)
      <4>1. handler' = handler /\ at' = at
        BY <2>1, <3>4 DEF Erred, Final, asyncVars, parserVars
      <4> QED BY <3>4, <4>1, BothGaveUp DEF Erred
    <3> QED BY <3>1, <3>2, <3>3, <3>4
  <2> QED BY <2>8, <2>9 DEF ParsersInv
<1> QED BY <1>1, <1>2

------------------------------------------------------------------------------
(* The theorems *)

\* After every symbol the parsers are at the same place with the same fields,
\* or one has given up alone, for a reason.
THEOREM Invariance == Spec => []ParsersInv
BY InitInvariant, NextInvariant, PTL DEF Spec

\* Two parsers that both have the request have the same one, but for the path
\* and the leading spaces of a value.
THEOREM SameForBoth == Spec => []SameRequest
<1>1. ParsersInv => SameRequest
  BY DEF ParsersInv, Agree, Together, SameFields, SameRequest, Erred
<1> QED BY <1>1, Invariance, PTL

\* Neither parser has the end of the request while the other awaits more, but
\* after a negative length.
THEOREM SameEndForBoth == Spec => []SameEnd
<1>1. ParsersInv => SameEnd
  <2> SUFFICES ASSUME ParsersInv PROVE SameEnd
    OBVIOUS
  <2>1. handler = "Done" => at \in Final
    BY DEF ParsersInv, Agree, Together, SamePlace, Erred, Final
  <2>2. ASSUME at = "Done", pRequest.length >= 0, handler \notin Final PROVE FALSE
    <3>1. handler = "Body"
      BY <2>2 DEF ParsersInv, Agree, Together, SamePlace, Erred, Final
    <3>2. request.length < 0 /\ request.length = pRequest.length
      BY <2>2, <3>1 DEF ParsersInv, Agree, Together, SameFields, Erred
    <3> QED BY <2>2, <3>2 DEF ParsersInv, ParserTypes, AsyncTypes, BlockingTypes
  <2> QED BY <2>1, <2>2 DEF SameEnd
<1> QED BY <1>1, Invariance, PTL

\* AsyncParser accepts no head that RequestParser refuses, but for the known reasons.
THEOREM AsyncNoMore == Spec => []AsyncAcceptsNoMore
<1>1. ParsersInv => AsyncAcceptsNoMore
  BY DEF ParsersInv, Agree, AsyncAlone, AsyncAcceptsNoMore, Erred
<1> QED BY <1>1, Invariance, PTL

\* RequestParser accepts no head that AsyncParser refuses, but for characters.
THEOREM BlockingNoMore == Spec => []BlockingAcceptsNoMore
<1>1. ParsersInv => BlockingAcceptsNoMore
  BY DEF ParsersInv, Agree, BlockingAlone, BlockingAcceptsNoMore, Erred
<1> QED BY <1>1, Invariance, PTL

==============================================================================
