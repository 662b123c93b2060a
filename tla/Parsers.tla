------------------------------ MODULE Parsers --------------------------------
(***************************************************************************)
(* The two parsers read the same input, symbol by symbol: what one server  *)
(* takes for a request, does the other one too?  The input is every        *)
(* sequence over an alphabet up to a length; the shortest request has nine *)
(* symbols, one with a header line fifteen.                                *)
(***************************************************************************)
EXTENDS HttpSyntax

CONSTANT
    Inputs      \* records [symbols, length, token]: an alphabet, the bound on the
                \* input and the bound on a token

VARIABLES
    handler, token, key, request,       \* AsyncParser
    at, pToken, pKey, pRequest,         \* RequestParser
    input,      \* the record that this input is from
    count,      \* history: the number of symbols read
    loose,      \* AsyncParser took a header line without key, colon or value
    lenient     \* RequestParser took a character that AsyncParser does not allow there

asyncVars == <<handler, token, key, request>>
parserVars == <<at, pToken, pKey, pRequest>>
vars == <<asyncVars, parserVars, input, count, loose, lenient>>

Async == INSTANCE AsyncParser
Blocking == INSTANCE RequestParser WITH token <- pToken, key <- pKey, request <- pRequest

Init ==
    /\ Async!Init /\ Blocking!Init
    /\ input \in Inputs
    /\ count = 0 /\ loose = FALSE /\ lenient = FALSE

Final == {"Done", "Error", "Thrown"}

Next ==
    /\ ~ (handler \in Final /\ at \in Final)
    /\ \E ch \in input.symbols :
          /\ IF handler \in Final THEN UNCHANGED asyncVars ELSE Async!Feed(ch)
          /\ IF at \in Final THEN UNCHANGED parserVars ELSE Blocking!Read(ch)
          /\ loose' = (\/ loose
                       \/ handler = "HeaderKey" /\ token # <<>> /\ ch = "CR"
                       \/ handler = "HeaderKey" /\ token = <<>> /\ ch = ":"
                       \/ handler = "HeaderValue" /\ SkipSpaces(token) = <<>> /\ ch = "CR")
          /\ lenient' = (\/ lenient
                         \/ at = "Space1" /\ ch # "/"
                         \/ at = "Path" /\ ~ IsPathChar(ch) /\ ch # "SP"
                         \/ at \in {"Line", "Key"} /\ ~ IsHeaderKeyChar(ch) /\ ch \notin {":", "CR"}
                         \/ at \in {"Space3", "Value"} /\ ~ IsHeaderValueChar(ch) /\ ch # "CR")
    /\ count < input.length
    /\ count' = count + 1
    /\ Len(token') <= input.token /\ Len(pToken') <= input.token
    /\ UNCHANGED input

Spec == Init /\ [][Next]_vars

------------------------------------------------------------------------------
(* Properties *)

\* When both parsers have the request they have the same one; the blocking
\* parser has cleaned the path, which Dispatch does for both, and has left out
\* leading spaces of the values.
SameRequest ==
    handler = "Done" /\ at = "Done" =>
        /\ request.method = pRequest.method
        /\ CleanPath(request.path) = pRequest.path
        /\ request.length = pRequest.length
        /\ request.body = pRequest.body
        /\ request.header # <<>> =>
              pRequest.header = <<request.header[1], SkipSpaces(request.header[2])>>

\* The parsers find the end of a request at the same place: one that has it
\* never leaves the other waiting for more.  (A negative length is awaited by
\* AsyncParser for ever.)
SameEnd ==
    /\ handler = "Done" => at \in Final
    /\ at = "Done" /\ pRequest.length >= 0 => handler \in Final

\* A head that the Mayhem server accepts, the others accept, but for methods
\* they do not know, bodies they find too long, colons in the path, and header
\* lines without key, colon or value.
AsyncAcceptsNoMore ==
    handler \in {"Body", "Done"} /\ at \in {"Error", "Thrown"} =>
        \/ request.method \notin {"GET", "POST"}
        \/ \E i \in DOMAIN request.path : request.path[i] = ":"
        \/ request.length > 4096
        \/ loose

\* A head that the others accept, the Mayhem server accepts, but for
\* characters it is stricter about.
BlockingAcceptsNoMore ==
    at \in {"Body", "Done"} /\ handler \in {"Error", "Thrown"} => lenient

==============================================================================
