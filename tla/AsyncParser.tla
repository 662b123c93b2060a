---------------------------- MODULE AsyncParser ------------------------------
(***************************************************************************)
(* minet/src/utils/AsyncParser.cpp: the parser of the Mayhem server, which *)
(* is fed one character at a time.  One action per handler; `handler` names*)
(* the one that gets the next character.                                   *)
(***************************************************************************)
EXTENDS HttpSyntax

VARIABLES
    handler,    \* _handler
    token,      \* _token
    key,        \* _key
    request     \* _request

asyncVars == <<handler, token, key, request>>

Init ==
    /\ handler = "Start"
    /\ token = <<>> /\ key = <<>>
    /\ request = EmptyRequest

\* TRANSIT after pushing the character to the token; after consuming it; and
\* RAISE_ERROR.
Push(h, ch) == handler' = h /\ token' = Append(token, ch) /\ UNCHANGED <<key, request>>
Transit(h)  == handler' = h /\ UNCHANGED <<token, key, request>>
RaiseError  == Transit("Error")

\* A handler that accepts one character only.
Expect(h, ch, accepted, then) ==
    /\ handler = h
    /\ IF ch = accepted THEN Transit(then) ELSE RaiseError

ParseStart(ch) ==
    /\ handler = "Start"
    /\ IF IsAlpha(ch) THEN Push("Method", ch) ELSE RaiseError

ParseMethod(ch) ==
    /\ handler = "Method"
    /\ CASE IsAlpha(ch) -> Push("Method", ch)
         [] ch = "SP" /\ Len(token) = 1 /\ token[1] \in Methods ->
              /\ request' = [request EXCEPT !.method = token[1]]
              /\ token' = <<>> /\ handler' = "Space1"
              /\ UNCHANGED key
         [] OTHER -> RaiseError

ParseSpace1(ch) ==
    /\ handler = "Space1"
    /\ IF ch = "/" THEN Push("Path", ch) ELSE RaiseError

ParsePath(ch) ==
    /\ handler = "Path"
    /\ CASE ch = "SP" ->
              /\ request' = [request EXCEPT !.path = token]
              /\ token' = <<>> /\ handler' = "Space2"
              /\ UNCHANGED key
         [] IsPathChar(ch) -> Push("Path", ch)
         [] OTHER -> RaiseError

\* _ParseSpace2 and the first characters of _ParseVersion.
ParseSpace2(ch) == Expect("Space2", ch, Version11, "Version")

ParseVersion(ch) == Expect("Version", ch, "CR", "NewLine")

ParseNewLine(ch) == Expect("NewLine", ch, "LF", "HeaderKey")

ParseHeaderKey(ch) ==
    /\ handler = "HeaderKey"
    /\ CASE ch = "CR" -> Transit("EndLine")
         [] IsHeaderKeyChar(ch) -> Push("HeaderKey", ch)
         [] ch = ":" ->
              /\ key' = token
              /\ token' = <<>> /\ handler' = "Colon"
              /\ UNCHANGED request
         [] OTHER -> RaiseError

ParseColon(ch) == Expect("Colon", ch, "SP", "Space3")

\* Variant of ParseSpace3: the value begins at once.
ParseSpace3Once(ch) ==
    /\ handler = "Space3"
    /\ IF IsHeaderValueChar(ch) /\ ch # "SP" THEN Push("HeaderValue", ch) ELSE RaiseError

ParseSpace3(ch) ==
    /\ handler = "Space3"
    /\ IF IsHeaderValueChar(ch) THEN Push("HeaderValue", ch) ELSE RaiseError

\* Variant of ParseHeaderValue: the characters of a key are expected.
ParseHeaderValueKey(ch) ==
    /\ handler = "HeaderValue"
    /\ CASE IsHeaderKeyChar(ch) -> Push("HeaderValue", ch)
         [] ch = "CR" /\ StoiThrows(key, token) -> Transit("Thrown")
         [] ch = "CR" /\ ~ StoiThrows(key, token) ->
              /\ request' = WithHeader(request, key, token)
              /\ token' = <<>> /\ handler' = "HeaderNewLine"
              /\ UNCHANGED key
         [] OTHER -> RaiseError

ParseHeaderValue(ch) ==
    /\ handler = "HeaderValue"
    /\ CASE IsHeaderValueChar(ch) -> Push("HeaderValue", ch)
         [] ch = "CR" /\ StoiThrows(key, token) -> Transit("Thrown")
         [] ch = "CR" /\ ~ StoiThrows(key, token) ->
              /\ request' = WithHeader(request, key, token)
              /\ token' = <<>> /\ handler' = "HeaderNewLine"
              /\ UNCHANGED key
         [] OTHER -> RaiseError

ParseHeaderNewLine(ch) == Expect("HeaderNewLine", ch, "LF", "HeaderKey")

ParseEndLine(ch) == Expect("EndLine", ch, "LF", IF request.length = 0 THEN "Done" ELSE "Body")

\* Variant of ParseBody: the end is noticed with the next character.
ParseBodyLate(ch) ==
    /\ handler = "Body"
    /\ request' = [request EXCEPT !.body = Append(@, ch)]
    /\ handler' = IF Len(request.body) = request.length THEN "Done" ELSE "Body"
    /\ UNCHANGED <<token, key>>

\* A negative length is compared as a size_t, which no body reaches.
ParseBody(ch) ==
    /\ handler = "Body"
    /\ request' = [request EXCEPT !.body = Append(@, ch)]
    /\ handler' = IF Len(request'.body) = request.length THEN "Done" ELSE "Body"
    /\ UNCHANGED <<token, key>>

Feed(ch) ==
    \/ ParseStart(ch) \/ ParseMethod(ch) \/ ParseSpace1(ch) \/ ParsePath(ch)
    \/ ParseSpace2(ch) \/ ParseVersion(ch) \/ ParseNewLine(ch)
    \/ ParseHeaderKey(ch) \/ ParseColon(ch) \/ ParseSpace3(ch)
    \/ ParseHeaderValue(ch) \/ ParseHeaderNewLine(ch)
    \/ ParseEndLine(ch) \/ ParseBody(ch)

==============================================================================
