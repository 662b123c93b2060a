----------------------------- MODULE Dispatcher ------------------------------
(***************************************************************************)
(* minet/src/core/IRequestDispatcher.cpp with RequestDispatcher and the    *)
(* adapters of RequestHandler.h: handlers are registered, then a request   *)
(* is dispatched.  Dispatch only reads the tables and works on a context   *)
(* of its own, so one request shows what any of many would.                *)
(*                                                                         *)
(* A handler is known by its place among the registrations, and what it    *)
(* puts into a response by its name: a body is the sequence of those who   *)
(* wrote to it, the headers are the set of those who added one.            *)
(***************************************************************************)
EXTENDS HttpSyntax

CONSTANTS
    Paths,          \* the paths registered and asked for, as they are spelled
    Verbs,          \* the methods in use
    Codes,          \* the status codes that stand for a failure
    MaxRegistered,  \* bound: the handlers registered
    MaxErrors       \* bound: the error handlers registered

OK == 200
BadRequest == 400
NotFound == 404
MethodNotAllowed == 405
InternalServerError == 500
NoContent == 204

ASSUME DispatcherAssumption ==
    /\ Codes \subseteq Nat /\ OK \notin Codes
    /\ {BadRequest, NotFound, MethodNotAllowed, InternalServerError} \subseteq Codes
    /\ MaxRegistered \in Nat /\ MaxErrors \in Nat

\* RequestHandler, RestfulHandler, a handler with a Handle of its own, and those
\* of DefaultHandlers.cpp.
Adapters == {"text", "json", "custom", "default"}

VARIABLES
    registered,     \* history: the calls of RegisterHandler
    registeredErrors, \* history: the calls of RegisterErrorHandler
    handlers,       \* _handlers; 0 is none
    errorHandlers,  \* _errorHandlers; 0 is none
    at,             \* where Dispatch is
    request,        \* HttpContext::Request
    response,       \* HttpContext::Response
    handler,        \* local `handler`: its name, and its adapter
    statusCode,     \* local `statusCode`
    returned,       \* history: what the handler returned; <<>> if it did not
    written,        \* history: the responses written
    destroyed       \* whether the context was destroyed

tables   == <<registered, registeredErrors, handlers, errorHandlers>>
dispatch == <<at, request, response, handler, statusCode, returned, written, destroyed>>

dispatcherVars == <<tables, dispatch>>

Keys == {CleanPath(p) : p \in Paths} \X Verbs

Requests == [path : Paths, method : Verbs, json : BOOLEAN]

NoRequest == [path |-> <<>>, method |-> "", json |-> FALSE]
NoHandler == [name |-> <<"none", 0>>, adapter |-> "custom"]

\* What a context starts with.
NewResponse == [status |-> OK, type |-> "", headers |-> {}, body |-> <<>>]

DispatcherInit ==
    /\ registered = <<>> /\ registeredErrors = <<>>
    /\ handlers = [k \in Keys |-> 0]
    /\ errorHandlers = [c \in Codes |-> 0]
    /\ at = "idle"
    /\ request = NoRequest
    /\ response = NewResponse
    /\ handler = NoHandler
    /\ statusCode = OK /\ returned = <<>>
    /\ written = <<>> /\ destroyed = FALSE

------------------------------------------------------------------------------
(* Registration *)

\* Variant of RegisterHandler: the path is taken as it is spelled.
RegisterHandlerRaw(path, method, adapter) ==
    /\ registered' = Append(registered, [path |-> path, method |-> method, adapter |-> adapter])
    /\ handlers' = [k \in Keys |-> IF k = <<path, method>> /\ handlers[k] = 0 THEN Len(registered')
                                   ELSE handlers[k]]
    /\ UNCHANGED <<registeredErrors, errorHandlers>>

\* The handler that is there already stays.
RegisterHandler(path, method, adapter) ==
    /\ registered' = Append(registered, [path |-> path, method |-> method, adapter |-> adapter])
    /\ handlers' = [handlers EXCEPT ![<<CleanPath(path), method>>] = IF @ # 0 THEN @ ELSE Len(registered')]
    /\ UNCHANGED <<registeredErrors, errorHandlers>>

\* The handler that is there already is replaced.
RegisterErrorHandler(code, adapter) ==
    /\ registeredErrors' = Append(registeredErrors, [code |-> code, adapter |-> adapter])
    /\ errorHandlers' = [errorHandlers EXCEPT ![code] = Len(registeredErrors')]
    /\ UNCHANGED <<registered, handlers>>

Register ==
    /\ at = "idle"
    /\ \/ /\ Len(registered) < MaxRegistered
          /\ \E p \in Paths, m \in Verbs, a \in Adapters \ {"default"} : RegisterHandler(p, m, a)
       \/ /\ Len(registeredErrors) < MaxErrors
          /\ \E c \in Codes, a \in Adapters \ {"default"} : RegisterErrorHandler(c, a)
    /\ UNCHANGED dispatch

DefaultCodes == <<BadRequest, MethodNotAllowed, NotFound, InternalServerError>>

\* RegisterDefaultHandlers, before anybody else registers an error handler.
RegisterDefaultHandlers ==
    /\ at = "idle" /\ registeredErrors = <<>>
    /\ registeredErrors' = [i \in DOMAIN DefaultCodes |-> [code |-> DefaultCodes[i], adapter |-> "default"]]
    /\ errorHandlers' = [c \in Codes |-> IF \E i \in DOMAIN DefaultCodes : DefaultCodes[i] = c
                                         THEN CHOOSE i \in DOMAIN DefaultCodes : DefaultCodes[i] = c
                                         ELSE 0]
    /\ UNCHANGED <<registered, handlers, dispatch>>

------------------------------------------------------------------------------
(* Dispatch *)

Receive ==
    /\ at = "idle"
    /\ at' = "find"
    /\ request' \in Requests
    /\ UNCHANGED <<tables, response, handler, statusCode, returned, written, destroyed>>

HandlerNamed(i) == [name |-> <<"handler", i>>, adapter |-> registered[i].adapter]
ErrorHandlerNamed(i) == [name |-> <<"error", i>>, adapter |-> registeredErrors[i].adapter]

\* Whether any method is registered for the path.
HasPath(path) == \E m \in Verbs : handlers[<<path, m>>] # 0

FindHandler ==
    /\ at = "find"
    /\ LET path == CleanPath(request.path)
           i == handlers[<<path, request.method>>]
       IN  \/ /\ i # 0
              /\ handler' = HandlerNamed(i)
              /\ at' = "invoke"
              /\ UNCHANGED statusCode
           \/ /\ i = 0
              /\ statusCode' = IF HasPath(path) THEN MethodNotAllowed ELSE NotFound
              /\ at' = "fail"
              /\ UNCHANGED handler
    /\ UNCHANGED <<tables, request, response, returned, written, destroyed>>

\* _GetErrorHandler.  Without one nothing is written.
FindErrorHandler ==
    /\ at = "fail"
    /\ LET i == errorHandlers[statusCode] IN
          IF i # 0 THEN handler' = ErrorHandlerNamed(i) /\ at' = "invokeError"
                   ELSE handler' = NoHandler /\ at' = "destroy"
    /\ UNCHANGED <<tables, request, response, statusCode, returned, written, destroyed>>

\* JsonRequest::IsValid; the other requests always are.
Valid == handler.adapter = "json" => request.json

\* What the function behind a handler may leave in the response: its own status
\* or the one it found, a header, and text that replaces or follows the body.
\* A JsonResponse keeps its body to itself until PostHandle.
Bodies ==
    IF handler.adapter = "json" THEN {response.body}
    ELSE {<<handler.name>>, Append(response.body, handler.name)}

Changed ==
    IF handler.adapter = "default"
    THEN {[response EXCEPT !.status = registeredErrors[handler.name[2]].code, !.body = <<handler.name>>]}
    ELSE {[status |-> s, type |-> response.type, headers |-> response.headers \cup {handler.name}, body |-> b] :
            s \in {response.status, NoContent}, b \in Bodies}

\* PostHandle.
Formatted(r) ==
    CASE handler.adapter \in {"text", "default"} -> [r EXCEPT !.type = "text/plain"]
      [] handler.adapter = "json" -> [r EXCEPT !.type = "application/json", !.body = <<handler.name>>]
      [] OTHER -> r

\* _WriteResponse: a response without content has no body.
Written(r) ==
    Append(written, [by |-> handler.name, status |-> r.status, type |-> r.type, headers |-> r.headers,
                     body |-> IF r.status = NoContent THEN <<>> ELSE r.body])

Fails(code) == statusCode' = code /\ at' = "fail"

\* What Handle returned: an error handler's result is of no interest.
Results(s) ==
    /\ IF at = "invoke" /\ s # OK THEN Fails(s) ELSE at' = "destroy" /\ UNCHANGED statusCode
    /\ returned' = IF at = "invoke" THEN <<s>> ELSE returned

\* Variant of Handled: the response is written whatever Handle returned.
HandledWriting ==
    /\ at \in {"invoke", "invokeError"} /\ Valid
    /\ response' \in {Formatted(r) : r \in Changed}
    /\ \E s \in IF handler.adapter = "custom" THEN Codes \cup {OK} ELSE {OK} :
          /\ Results(s)
          /\ written' = Written(response')
    /\ UNCHANGED <<tables, request, handler, destroyed>>

\* The function returns; _InvokeHandler writes the response if Handle is content.
Handled ==
    /\ at \in {"invoke", "invokeError"} /\ Valid
    /\ response' \in {Formatted(r) : r \in Changed}
    /\ \E s \in IF handler.adapter = "custom" THEN Codes \cup {OK} ELSE {OK} :
          /\ Results(s)
          /\ written' = IF s = OK THEN Written(response') ELSE written
    /\ UNCHANGED <<tables, request, handler, destroyed>>

\* The function is not called, nor PostHandle.
Refused ==
    /\ at \in {"invoke", "invokeError"} /\ ~ Valid
    /\ Results(BadRequest)
    /\ UNCHANGED <<tables, request, response, handler, written, destroyed>>

\* A std::exception is caught around the handler and not around the error
\* handler; anything else that is thrown is not caught at all.
HandlerThrows ==
    /\ at \in {"invoke", "invokeError"} /\ Valid /\ handler.adapter # "default"
    /\ response' \in Changed
    /\ \/ at = "invoke" /\ Fails(InternalServerError)
       \/ at' = "threw" /\ UNCHANGED statusCode
    /\ UNCHANGED <<tables, request, handler, returned, written, destroyed>>

Destroy ==
    /\ at = "destroy"
    /\ at' = "returned" /\ destroyed' = TRUE
    /\ UNCHANGED <<tables, request, response, handler, statusCode, returned, written>>

Dispatch == Receive \/ FindHandler \/ FindErrorHandler \/ Handled \/ Refused \/ HandlerThrows \/ Destroy

DispatcherNext == RegisterDefaultHandlers \/ Register \/ Dispatch

DispatcherSpec == DispatcherInit /\ [][DispatcherNext]_dispatcherVars

------------------------------------------------------------------------------
(* Properties *)

\* The handlers registered for a path, however both are spelled, and a method, and
\* the error handler that counts for a code: the last.
Matches(i, path, method) == CleanPath(registered[i].path) = path /\ registered[i].method = method

LastFor(i, code) ==
    /\ i \in DOMAIN registeredErrors /\ registeredErrors[i].code = code
    /\ \A j \in DOMAIN registeredErrors : registeredErrors[j].code = code => j <= i

\* What a handler failed with: a code it returned, or an exception.  A text handler
\* returns none, a JSON handler one, of a body that is no JSON.
FailedWith(code, adapter) ==
    /\ code = IF returned = <<>> THEN InternalServerError ELSE returned[1]
    /\ adapter = "text" => code = InternalServerError
    /\ adapter = "json" => code = IF request.json THEN InternalServerError ELSE BadRequest

\* What a request fails with, if it does: nobody registered its path, or its
\* method, or a handler failed that is registered for both.
Reason(code) ==
    LET path == CleanPath(request.path) IN
    IF \A i \in DOMAIN registered : CleanPath(registered[i].path) # path THEN code = NotFound
    ELSE IF \A i \in DOMAIN registered : ~ Matches(i, path, request.method) THEN code = MethodNotAllowed
    ELSE \E i \in DOMAIN registered :
            Matches(i, path, request.method) /\ FailedWith(code, registered[i].adapter)

\* A response comes from a handler registered for the path and the method, which
\* was content with the request, or, if the request failed, from the last error
\* handler registered for the reason: what the handler returned, whatever the
\* status it left in the response, or 500 if it threw.  A default error handler
\* answers with its own status, text and type, whatever the failed handler left.
\* (Which one of several handlers for the same path and method it is, the source
\* does not agree with itself: HandlerReplaced.)
AnsweredByRight ==
    \A k \in DOMAIN written :
        LET w == written[k] IN
        \/ \E i \in DOMAIN registered :
              /\ w.by = <<"handler", i>> /\ returned = <<OK>>
              /\ Matches(i, CleanPath(request.path), request.method)
        \/ \E i \in DOMAIN registeredErrors, c \in Codes :
              /\ w.by = <<"error", i>>
              /\ LastFor(i, c) /\ Reason(c)
              /\ registeredErrors[i].adapter = "default" =>
                     w.status = c /\ w.body = <<w.by>> /\ w.type = "text/plain"

\* "If a handler is already registered for the given path, it will be replaced by
\* the new handler" (IRequestDispatcher.h): the last one registered for the path
\* and the method answers.
HandlerReplaced ==
    \A k \in DOMAIN written, i \in DOMAIN registered :
        written[k].by = <<"handler", i>> =>
            \A j \in DOMAIN registered : Matches(j, CleanPath(request.path), request.method) => j <= i

\* When Dispatch returns, the context is destroyed and one response was written,
\* unless nobody registered an error handler for the code or that handler failed
\* itself; when an exception leaves it, none was.  There is never a second one.
AnsweredOnce ==
    /\ Len(written) <= 1
    /\ at = "threw" => written = <<>> /\ ~ destroyed
    /\ at = "returned" =>
           /\ destroyed
           /\ \/ Len(written) = 1
              \/ \A i \in DOMAIN registeredErrors : registeredErrors[i].code # statusCode
              \/ \E i \in DOMAIN registeredErrors :
                    /\ LastFor(i, statusCode)
                    /\ \/ registeredErrors[i].adapter = "custom"
                       \/ registeredErrors[i].adapter = "json" /\ ~ request.json

==============================================================================
