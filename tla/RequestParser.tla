--------------------------- MODULE RequestParser -----------------------------
(***************************************************************************)
(* minet/src/utils/Parser.cpp: the parser of the Basic and Threaded        *)
(* servers, which reads from the stream.  It is modelled at the points     *)
(* where it waits for a character: `at` says what it has read last.  A     *)
(* token ends with a delimiter, which is rewound and is the next token.    *)
(* After a \r where no line may end, _NextToken and _NextString read one   *)
(* character more before the parser gives up; that one is left out.        *)
(***************************************************************************)
EXTENDS HttpSyntax

VARIABLES
    at,         \* where the parser waits in _Next
    token,      \* _currentToken.Value
    key,        \* local `key` of _ParseHeader
    request     \* _request

parserVars == <<at, token, key, request>>

\* The delimiters of _NextToken.
Delimiters == {"SP", ":", "CR", "LF"}

Init ==
    /\ at = "Start"
    /\ token = <<>> /\ key = <<>>
    /\ request = EmptyRequest

\* The token begins, or goes on, with ch.
Begin(a, ch) == at' = a /\ token' = <<ch>> /\ UNCHANGED <<key, request>>
Extend(ch)   == token' = Append(token, ch) /\ UNCHANGED <<at, key, request>>
Go(a)        == at' = a /\ UNCHANGED <<token, key, request>>
Error        == Go("Error")

Expect(a, ch, accepted, then) ==
    /\ at = a
    /\ IF ch = accepted THEN Go(then) ELSE Error

\* The first character of a string: anything else is another token.
FirstOf(a, ch, string) ==
    /\ at = a
    /\ IF ch \in Delimiters THEN Error ELSE Begin(string, ch)

\* StartLine := Method Space Path Space Version\r\n

MethodFirst(ch) == FirstOf("Start", ch, "Method")

MethodString(ch) ==
    /\ at = "Method"
    /\ CASE ch \notin Delimiters -> Extend(ch)
         [] ch = "SP" /\ token \in {<<"GET">>, <<"POST">>} ->
              /\ request' = [request EXCEPT !.method = token[1]]
              /\ at' = "Space1"
              /\ UNCHANGED <<token, key>>
         [] OTHER -> Error

PathFirst(ch) == FirstOf("Space1", ch, "Path")

\* Variant of PathString: the path is stored as it came.
PathStringRaw(ch) ==
    /\ at = "Path"
    /\ CASE ch \notin Delimiters -> Extend(ch)
         [] ch = "SP" ->
              /\ request' = [request EXCEPT !.path = token]
              /\ at' = "Space2"
              /\ UNCHANGED <<token, key>>
         [] OTHER -> Error

PathString(ch) ==
    /\ at = "Path"
    /\ CASE ch \notin Delimiters -> Extend(ch)
         [] ch = "SP" ->
              /\ request' = [request EXCEPT !.path = CleanPath(token)]
              /\ at' = "Space2"
              /\ UNCHANGED <<token, key>>
         [] OTHER -> Error

VersionFirst(ch) == FirstOf("Space2", ch, "Version")

VersionString(ch) ==
    /\ at = "Version"
    /\ CASE ch \notin Delimiters -> Extend(ch)
         [] ch = "CR" /\ token = <<Version11>> -> Go("VersionCR")
         [] OTHER -> Error

StartLineEnd(ch) == Expect("VersionCR", ch, "LF", "Line")

\* Header := Key Colon Space Value\r\n

HeaderFirst(ch) ==
    /\ at = "Line"
    /\ CASE ch = "CR" -> Go("EndCR")
         [] ch \notin Delimiters -> Begin("Key", ch)
         [] OTHER -> Error

KeyString(ch) ==
    /\ at = "Key"
    /\ CASE ch \notin Delimiters -> Extend(ch)
         [] ch = ":" ->
              /\ key' = token
              /\ at' = "Colon"
              /\ UNCHANGED <<token, request>>
         [] OTHER -> Error

SpaceAfterColon(ch) == Expect("Colon", ch, "SP", "Space3")

\* _NextString skips spaces.  A line feed ends the string before its first
\* character, and Content-Length is read from the empty one.
ValueFirst(ch) ==
    /\ at = "Space3"
    /\ CASE ch = "SP" -> Go("Space3")
         [] ch = "CR" -> Error
         [] ch = "LF" -> Go(IF StoiThrows(key, <<>>) THEN "Thrown" ELSE "Error")
         [] OTHER -> Begin("Value", ch)

\* Variant of ValueString: the value ends at the delimiters of _NextToken.
ValueStringToken(ch) ==
    /\ at = "Value"
    /\ CASE ch \notin Delimiters -> Extend(ch)
         [] ch \in Delimiters /\ StoiThrows(key, token) -> Go("Thrown")
         [] ch = "CR" /\ ~ StoiThrows(key, token) ->
              /\ request' = WithHeader(request, key, token)
              /\ at' = "ValueCR"
              /\ UNCHANGED <<token, key>>
         [] OTHER -> Error

ValueString(ch) ==
    /\ at = "Value"
    /\ CASE ch \notin {"CR", "LF"} -> Extend(ch)
         [] ch \in {"CR", "LF"} /\ StoiThrows(key, token) -> Go("Thrown")
         [] ch = "CR" /\ ~ StoiThrows(key, token) ->
              /\ request' = WithHeader(request, key, token)
              /\ at' = "ValueCR"
              /\ UNCHANGED <<token, key>>
         [] OTHER -> Error

HeaderEnd(ch) == Expect("ValueCR", ch, "LF", "Line")

\* Variant of EmptyLine: the limit is compared with the length as a size_t.
EmptyLineUnsigned(ch) ==
    Expect("EndCR", ch, "LF",
           CASE request.length \notin 0 .. 4096 -> "Error"
             [] request.length = 0 -> "Done"
             [] OTHER -> "Body")

\* Variant of EmptyLine: a body is read whatever its length.
EmptyLineBody(ch) ==
    Expect("EndCR", ch, "LF", IF request.length > 4096 THEN "Error" ELSE "Body")

\* The empty line: Parse looks at the length of the body.
EmptyLine(ch) ==
    Expect("EndCR", ch, "LF",
           CASE request.length > 4096 -> "Error" [] request.length <= 0 -> "Done" [] OTHER -> "Body")

\* Variant of Body: each fill of the buffer is copied to the front of the body.
BodyFront(ch) ==
    /\ at = "Body"
    /\ request' = [request EXCEPT !.body = <<ch>> \o @]
    /\ at' = IF Len(request'.body) = request.length THEN "Done" ELSE "Body"
    /\ UNCHANGED <<token, key>>

Body(ch) ==
    /\ at = "Body"
    /\ request' = [request EXCEPT !.body = Append(@, ch)]
    /\ at' = IF Len(request'.body) = request.length THEN "Done" ELSE "Body"
    /\ UNCHANGED <<token, key>>

Read(ch) ==
    \/ MethodFirst(ch) \/ MethodString(ch) \/ PathFirst(ch) \/ PathString(ch)
    \/ VersionFirst(ch) \/ VersionString(ch) \/ StartLineEnd(ch)
    \/ HeaderFirst(ch) \/ KeyString(ch) \/ SpaceAfterColon(ch)
    \/ ValueFirst(ch) \/ ValueString(ch) \/ HeaderEnd(ch)
    \/ EmptyLine(ch) \/ Body(ch)

==============================================================================
