--------------------------- MODULE DispatcherProofs ---------------------------
(***************************************************************************)
(* AnsweredByRight and AnsweredOnce of module Dispatcher, for every number *)
(* of handlers, error handlers, paths, methods and failure codes; and what *)
(* CleanPath makes of the spellings of a path, however long.               *)
(*                                                                         *)
(* The two properties are about what was written and say nothing of how    *)
(* it came to be; the invariant follows Dispatch from step to step.        *)
(* Tables ties what is looked up to what was registered, Work ties the     *)
(* handler that is called to the request, and Done what is there when it   *)
(* is over to the handlers there are.                                      *)
(***************************************************************************)
EXTENDS Dispatcher, FiniteSetTheorems, TLAPS

------------------------------------------------------------------------------
(* Induction on the natural numbers *)

\* Induction for a set instead of a predicate: otherwise the intervals 0 .. n of
\* the numbers n outside of S had a smallest one.
LEMMA SetInduction ==
    ASSUME NEW S, 0 \in S, \A n \in Nat : n \in S => n + 1 \in S
    PROVE  Nat \subseteq S
<1> DEFINE R == StrictSubsetOrdering(Nat)
<1> DEFINE T == {0 .. n : n \in Nat \ S}
<1>1. IsWellFoundedOn(R, FiniteSubsetsOf(Nat))
  BY FS_StrictSubsetOrderingWellFounded
<1>2. \A n \in Nat : 0 .. n \in FiniteSubsetsOf(Nat)
  BY FS_Interval DEF FiniteSubsetsOf
<1>3. \A m, n \in Nat : m < n => <<0 .. m, 0 .. n>> \in R
  <2> SUFFICES ASSUME NEW m \in Nat, NEW n \in Nat, m < n
               PROVE  <<0 .. m, 0 .. n>> \in R
    OBVIOUS
  <2>1. n \in 0 .. n /\ n \notin 0 .. m /\ 0 .. m \subseteq 0 .. n
    OBVIOUS
  <2>2. 0 .. n \subseteq Nat
    OBVIOUS
  <2> QED BY <2>1, <2>2, Zenon DEF StrictSubsetOrdering
<1> SUFFICES ASSUME T # {} PROVE FALSE
  OBVIOUS
<1> HIDE DEF R
<1>4. PICK x \in T : \A y \in T : ~ (<<y, x>> \in R)
  <2>1. T \subseteq FiniteSubsetsOf(Nat)
    BY <1>2
  <2> HIDE DEF T
  <2> QED BY <1>1, <2>1, WFMin
<1>5. PICK n \in Nat \ S : x = 0 .. n
  BY <1>4
<1>6. n # 0 /\ n - 1 \in Nat /\ n - 1 < n
  BY <1>5
<1>7. 0 .. (n - 1) \notin T
  BY <1>3, <1>4, <1>5, <1>6
<1>8. n - 1 \in S
  BY <1>6, <1>7
<1>9. (n - 1) + 1 = n
  BY <1>5
<1> QED BY <1>5, <1>6, <1>8, <1>9

------------------------------------------------------------------------------
(* Spellings of a path *)

\* The path with a slash in front.
Slashed(path) == IF path[1] = "/" THEN path ELSE <<"/">> \o path

\* What is behind the first n characters is slashes, and no slash is before.
EndsAt(p, n) == (n > 0 => p[n] # "/") /\ \A i \in n + 1 .. Len(p) : p[i] = "/"

\* There is such an end.
LEMMA SomeEnd ==
    ASSUME NEW p, Len(p) \in Nat
    PROVE  \E n \in 0 .. Len(p) : EndsAt(p, n)
<1> DEFINE len == Len(p)
<1> DEFINE Found == \E n \in 0 .. len : EndsAt(p, n)
<1> DEFINE Slashes(k) == \A i \in len - k + 1 .. len : p[i] = "/"
<1> DEFINE S == {k \in Nat : k <= len => Found \/ Slashes(k)}
<1>1. len \in Nat /\ 0 \in S
  OBVIOUS
<1>2. ASSUME NEW k \in Nat, k + 1 <= len, Slashes(k), ~ Found
      PROVE  Slashes(k + 1)
  <2>1. len - k \in 0 .. len /\ len - k > 0
    BY <1>1, <1>2
  <2>2. p[len - k] = "/"
    <3>1. ~ EndsAt(p, len - k)
      BY <1>2, <2>1
    <3> QED BY <1>2, <2>1, <3>1 DEF EndsAt
  <2>3. \A i \in len - (k + 1) + 1 .. len : i = len - k \/ i \in len - k + 1 .. len
    BY <1>1
  <2> QED BY <1>2, <2>2, <2>3
<1>3. len \in S
  <2> HIDE DEF Found, Slashes
  <2>1. \A k \in Nat : k \in S => k + 1 \in S
    BY <1>1, <1>2
  <2> HIDE DEF S
  <2> QED BY <1>1, <2>1, SetInduction
<1>4. CASE Slashes(len)
  <2>1. EndsAt(p, 0)
    BY <1>1, <1>4 DEF EndsAt
  <2> QED BY <1>1, <2>1
<1> QED BY <1>1, <1>3, <1>4

\* There is only one.
LEMMA OneEnd ==
    ASSUME NEW p, Len(p) \in Nat, NEW m \in 0 .. Len(p), NEW n \in 0 .. Len(p),
           EndsAt(p, m), EndsAt(p, n)
    PROVE  m = n
<1>1. ASSUME NEW i \in 0 .. Len(p), NEW j \in 0 .. Len(p), EndsAt(p, i), EndsAt(p, j), i < j
      PROVE  FALSE
  <2>1. j \in i + 1 .. Len(p) /\ j > 0
    BY <1>1
  <2> QED BY <1>1, <2>1 DEF EndsAt
<1> QED BY <1>1

\* CleanPath cuts there.
LEMMA Cut ==
    ASSUME NEW path, Len(Slashed(path)) \in Nat,
           NEW n \in 0 .. Len(Slashed(path)), EndsAt(Slashed(path), n)
    PROVE  CleanPath(path) = SubSeq(Slashed(path), 1, n)
<1> DEFINE p == Slashed(path)
<1>1. CleanPath(path) = SubSeq(p, 1, CHOOSE k \in 0 .. Len(p) : EndsAt(p, k))
  BY Zenon DEF CleanPath, Slashed, EndsAt
<1>2. (CHOOSE k \in 0 .. Len(p) : EndsAt(p, k)) = n
  <2> HIDE DEF p
  <2>1. Len(p) \in Nat /\ n \in 0 .. Len(p) /\ EndsAt(p, n)
    BY DEF p
  <2> QED BY <2>1, OneEnd
<1> QED BY <1>1, <1>2

\* Of a path with a slash in front.
LEMMA SlashedPath ==
    ASSUME NEW C, "/" \in C, NEW path \in Seq(C), path # <<>>
    PROVE  /\ Slashed(path) \in Seq(C) /\ Len(Slashed(path)) \in Nat \ {0}
           /\ Slashed(path)[1] = "/"
<1>1. Len(path) \in Nat \ {0}
  OBVIOUS
<1>2. CASE path[1] = "/"
  BY <1>1, <1>2 DEF Slashed
<1>3. CASE path[1] # "/"
  <2>1. <<"/">> \in Seq(C) /\ Len(<<"/">>) = 1 /\ <<"/">>[1] = "/"
    OBVIOUS
  <2>2. /\ <<"/">> \o path \in Seq(C) /\ Len(<<"/">> \o path) = 1 + Len(path)
        /\ (<<"/">> \o path)[1] = "/"
    BY <1>1, <2>1
  <2> QED BY <1>1, <1>3, <2>2 DEF Slashed
<1> QED BY <1>2, <1>3

\* CleanPath (Parser.cpp) gives the spellings of a path one form: it begins with a
\* slash, does not end with one, and is cleaned already; a slash at the end, or the
\* first one, makes no difference.  Of a path of slashes nothing is left.
THEOREM CleanPathDoes ==
    ASSUME NEW C, "/" \in C, NEW path \in Seq(C), path # <<>>
    PROVE  LET clean == CleanPath(path) IN
              /\ clean \in Seq(C)
              /\ clean # <<>> => clean[1] = "/" /\ clean[Len(clean)] # "/"
              /\ clean # <<>> => CleanPath(clean) = clean
              /\ CleanPath(Append(path, "/")) = clean
              /\ path[1] # "/" => CleanPath(<<"/">> \o path) = clean
<1> DEFINE p == Slashed(path)
<1> DEFINE clean == CleanPath(path)
<1>1. p \in Seq(C) /\ Len(p) \in Nat \ {0} /\ p[1] = "/"
  BY SlashedPath
<1>2. PICK n \in 0 .. Len(p) : EndsAt(p, n)
  <2> HIDE DEF p
  <2> QED BY <1>1, SomeEnd
<1>3. clean = SubSeq(p, 1, n)
  BY <1>1, <1>2, Cut
<1>4. /\ clean \in Seq(C) /\ Len(clean) = n
      /\ \A i \in 1 .. n : clean[i] = p[i]
  <2> HIDE DEF p, clean
  <2>1. \A i \in 1 .. n : p[i] \in C
    BY <1>1, <1>2
  <2> QED BY <1>1, <1>2, <1>3, <2>1
<1>5. clean # <<>> => n \in 1 .. Len(p) /\ clean[1] = "/" /\ clean[n] # "/"
  <2> HIDE DEF p, clean
  <2> SUFFICES ASSUME clean # <<>> PROVE n \in 1 .. Len(p) /\ clean[1] = "/" /\ clean[n] # "/"
    OBVIOUS
  <2>1. n \in 1 .. Len(p)
    BY <1>1, <1>2, <1>4
  <2> QED BY <1>1, <1>2, <1>4, <2>1 DEF EndsAt
<1>6. clean # <<>> => CleanPath(clean) = clean
  <2> SUFFICES ASSUME clean # <<>> PROVE CleanPath(clean) = clean
    OBVIOUS
  <2> HIDE DEF p, clean
  <2>1. Slashed(clean) = clean
    BY <1>5 DEF Slashed
  <2>2. EndsAt(clean, n) /\ n \in 0 .. Len(clean) /\ Len(clean) \in Nat
    BY <1>4, <1>5 DEF EndsAt
  <2>3. CleanPath(clean) = SubSeq(clean, 1, n)
    BY <2>1, <2>2, Cut
  <2>4. SubSeq(clean, 1, Len(clean)) = clean
    BY <1>4
  <2> QED BY <1>4, <2>3, <2>4
<1>7. CleanPath(Append(path, "/")) = clean
  <2> DEFINE q == Append(p, "/")
  <2>1. Slashed(Append(path, "/")) = q
    <3>1. Len(path) \in Nat \ {0}
      OBVIOUS
    <3>2. Append(path, "/")[1] = path[1]
      BY <3>1
    <3>3. CASE path[1] = "/"
      BY <3>2, <3>3 DEF Slashed
    <3>4. CASE path[1] # "/"
      <4>1. <<"/">> \in Seq(C)
        OBVIOUS
      <4>2. <<"/">> \o Append(path, "/") = Append(<<"/">> \o path, "/")
        BY <4>1
      <4> QED BY <3>2, <3>4, <4>2 DEF Slashed
    <3> QED BY <3>3, <3>4
  <2> HIDE DEF p, clean
  <2>2. Len(q) = Len(p) + 1 /\ q[Len(p) + 1] = "/" /\ \A i \in 1 .. Len(p) : q[i] = p[i]
    BY <1>1
  <2>3. n \in 0 .. Len(q) /\ EndsAt(q, n) /\ Len(q) \in Nat
    <3>1. \A i \in n + 1 .. Len(p) + 1 : i \in n + 1 .. Len(p) \/ i = Len(p) + 1
      BY <1>1
    <3>2. \A i \in n + 1 .. Len(p) + 1 : q[i] = "/"
      BY <1>1, <1>2, <2>2, <3>1 DEF EndsAt
    <3>3. n > 0 => q[n] # "/"
      BY <1>1, <1>2, <2>2 DEF EndsAt
    <3> HIDE DEF q
    <3> QED BY <1>1, <2>2, <3>2, <3>3 DEF EndsAt
  <2>4. CleanPath(Append(path, "/")) = SubSeq(q, 1, n)
    <3> HIDE DEF q
    <3> QED BY <2>1, <2>3, Cut
  <2>5. SubSeq(q, 1, n) = SubSeq(p, 1, n)
    <3> HIDE DEF q
    <3>1. q \in Seq(C)
      BY <1>1 DEF q
    <3> QED BY <1>1, <2>2, <3>1
  <2> QED BY <1>3, <2>4, <2>5
<1>8. path[1] # "/" => CleanPath(<<"/">> \o path) = clean
  <2> SUFFICES ASSUME path[1] # "/" PROVE CleanPath(<<"/">> \o path) = CleanPath(path)
    OBVIOUS
  <2>1. p = <<"/">> \o path
    BY DEF Slashed
  <2>2. (<<"/">> \o path)[1] = "/"
    BY <1>1, <2>1
  <2> QED BY <2>2, Zenon DEF CleanPath
<1> QED BY <1>4, <1>5, <1>6, <1>7, <1>8

------------------------------------------------------------------------------
(* The invariant *)

HandlerRecords == [path : Paths, method : Verbs, adapter : {"text", "json", "custom"}]
ErrorRecords == [code : Codes, adapter : Adapters]

Names == {"handler", "error", "none"} \X Nat
HandlerNames == [name : Names, adapter : Adapters]
ResponseRecords == [status : Nat, type : {"", "text/plain", "application/json"},
                    headers : SUBSET Names, body : Seq(Names)]

Steps == {"idle", "find", "invoke", "fail", "invokeError", "destroy", "returned", "threw"}

\* Only the codes that the builder registers have a default handler.
Types ==
    /\ registered \in Seq(HandlerRecords)
    /\ registeredErrors \in Seq(ErrorRecords)
    /\ handlers \in [Keys -> Nat] /\ errorHandlers \in [Codes -> Nat]
    /\ at \in Steps
    /\ at # "idle" => request \in Requests
    /\ statusCode \in Codes \cup {OK}
    /\ handler \in HandlerNames /\ response \in ResponseRecords
    /\ \A i \in DOMAIN registeredErrors :
          registeredErrors[i].adapter = "default" => registeredErrors[i].code # NoContent

\* Of handlers the first one for a path and a method counts: RegisterHandler warns
\* that there is one already, and returns.
FirstFor(i, path, method) ==
    /\ i \in DOMAIN registered /\ Matches(i, path, method)
    /\ \A j \in DOMAIN registered : Matches(j, path, method) => i <= j

\* _handlers holds the first registration, _errorHandlers the last.
HandlerIsFirst(path, method) ==
    IF handlers[<<path, method>>] = 0
    THEN \A i \in DOMAIN registered : ~ Matches(i, path, method)
    ELSE FirstFor(handlers[<<path, method>>], path, method)

ErrorHandlerIsLast(code) ==
    IF errorHandlers[code] = 0
    THEN \A i \in DOMAIN registeredErrors : registeredErrors[i].code # code
    ELSE LastFor(errorHandlers[code], code)

CleanPaths == {CleanPath(p) : p \in Paths}

Tables ==
    /\ \A path \in CleanPaths, method \in Verbs : HandlerIsFirst(path, method)
    /\ \A code \in Codes : ErrorHandlerIsLast(code)

\* Who is called, and why.
Called ==
    \E i \in DOMAIN registered :
        /\ handler = HandlerNamed(i)
        /\ FirstFor(i, CleanPath(request.path), request.method)

ErrorCalled ==
    \E i \in DOMAIN registeredErrors :
        /\ handler = ErrorHandlerNamed(i)
        /\ LastFor(i, statusCode)

\* Reason, of the first handler.
FirstReason(code) ==
    LET path == CleanPath(request.path) IN
    IF \A i \in DOMAIN registered : CleanPath(registered[i].path) # path THEN code = NotFound
    ELSE IF \A i \in DOMAIN registered : ~ Matches(i, path, request.method) THEN code = MethodNotAllowed
    ELSE \A i \in DOMAIN registered :
            FirstFor(i, path, request.method) => FailedWith(code, registered[i].adapter)

Work ==
    /\ at = "invoke" => Called
    /\ at \in {"idle", "find", "invoke"} => returned = <<>>
    /\ at \in {"fail", "invokeError"} => statusCode \in Codes /\ FirstReason(statusCode)
    /\ at = "invokeError" => ErrorCalled
    /\ at \notin {"destroy", "returned"} => written = <<>> /\ ~ destroyed

\* Why there may be no response when it is over.
NoAnswer ==
    \/ \A i \in DOMAIN registeredErrors : registeredErrors[i].code # statusCode
    \/ \E i \in DOMAIN registeredErrors :
          /\ LastFor(i, statusCode)
          /\ \/ registeredErrors[i].adapter = "custom"
             \/ registeredErrors[i].adapter = "json" /\ ~ request.json

\* AnsweredByRight, by the first handler.
AnsweredByFirst ==
    \A k \in DOMAIN written :
        LET w == written[k] IN
        \/ \E i \in DOMAIN registered :
              /\ w.by = <<"handler", i>> /\ returned = <<OK>>
              /\ FirstFor(i, CleanPath(request.path), request.method)
        \/ \E i \in DOMAIN registeredErrors, c \in Codes :
              /\ w.by = <<"error", i>>
              /\ LastFor(i, c) /\ FirstReason(c)
              /\ registeredErrors[i].adapter = "default" =>
                     w.status = c /\ w.body = <<w.by>> /\ w.type = "text/plain"

Done ==
    /\ Len(written) <= 1
    /\ at \in {"destroy", "returned"} => Len(written) = 1 \/ NoAnswer
    /\ at = "returned" => destroyed
    /\ AnsweredByFirst

IInv == Types /\ Tables /\ Work /\ Done

------------------------------------------------------------------------------
(* Before the first registration *)

\* The invariant holds before the first registration.
LEMMA InitIInv == DispatcherInit => IInv
<1> SUFFICES ASSUME DispatcherInit PROVE IInv
  OBVIOUS
<1> USE DEF DispatcherInit
<1>1. Types
  <2>1. handler \in HandlerNames
    BY DEF NoHandler, HandlerNames, Names, Adapters
  <2>2. response \in ResponseRecords
    <3>1. OK \in Nat /\ {} \in SUBSET Names /\ <<>> \in Seq(Names)
      BY DEF OK
    <3> QED BY <3>1 DEF NewResponse, ResponseRecords
  <2>3. registered \in Seq(HandlerRecords) /\ registeredErrors \in Seq(ErrorRecords)
    OBVIOUS
  <2> QED BY <2>1, <2>2, <2>3 DEF Types, Steps
<1>2. Tables
  <2>1. ASSUME NEW path \in CleanPaths, NEW method \in Verbs PROVE HandlerIsFirst(path, method)
    <3>1. <<path, method>> \in Keys
      BY DEF CleanPaths, Keys
    <3> QED BY <3>1 DEF HandlerIsFirst
  <2>2. ASSUME NEW code \in Codes PROVE ErrorHandlerIsLast(code)
    BY DEF ErrorHandlerIsLast
  <2> QED BY <2>1, <2>2 DEF Tables
<1>3. Work
  BY DEF Work
<1>4. Done
  BY DEF Done, AnsweredByFirst
<1> QED BY <1>1, <1>2, <1>3, <1>4 DEF IInv

------------------------------------------------------------------------------
(* Registration *)

\* What Append does to a list of registrations.
LEMMA AppendToList ==
    ASSUME NEW S, NEW list \in Seq(S), NEW e \in S
    PROVE  /\ Append(list, e) \in Seq(S)
           /\ Len(Append(list, e)) = Len(list) + 1
           /\ DOMAIN Append(list, e) = DOMAIN list \cup {Len(list) + 1}
           /\ DOMAIN list = 1 .. Len(list) /\ Len(list) \in Nat
           /\ \A i \in DOMAIN list : Append(list, e)[i] = list[i]
           /\ Append(list, e)[Len(list) + 1] = e
OBVIOUS

\* RegisterHandler keeps the first handler of each path and method.
LEMMA RegisterHandlerTables ==
    ASSUME IInv, NEW path \in Paths, NEW method \in Verbs,
           NEW adapter \in Adapters \ {"default"},
           RegisterHandler(path, method, adapter), UNCHANGED dispatch
    PROVE  Types' /\ Tables'
<1> DEFINE e == [path |-> path, method |-> method, adapter |-> adapter]
<1> DEFINE key == <<CleanPath(path), method>>
<1>1. e \in HandlerRecords
  BY DEF HandlerRecords, Adapters
<1>2. registered \in Seq(HandlerRecords) /\ handlers \in [Keys -> Nat] /\ key \in Keys
  BY DEF IInv, Types, Keys
<1>3. /\ registered' = Append(registered, e)
      /\ handlers' = [handlers EXCEPT ![key] = IF @ # 0 THEN @ ELSE Len(registered')]
      /\ UNCHANGED <<registeredErrors, errorHandlers>>
  BY DEF RegisterHandler
<1>4. /\ registered' \in Seq(HandlerRecords) /\ Len(registered') = Len(registered) + 1
      /\ DOMAIN registered' = DOMAIN registered \cup {Len(registered) + 1}
      /\ DOMAIN registered = 1 .. Len(registered) /\ Len(registered) \in Nat
      /\ \A i \in DOMAIN registered : registered'[i] = registered[i]
      /\ registered'[Len(registered) + 1] = e
  <2> HIDE DEF e
  <2> QED BY <1>1, <1>2, <1>3, AppendToList
<1>5. Types'
  BY <1>2, <1>3, <1>4 DEF IInv, Types, dispatch
<1>6. ASSUME NEW p \in CleanPaths, NEW m \in Verbs PROVE HandlerIsFirst(p, m)'
  <2>1. <<p, m>> \in Keys /\ handlers[<<p, m>>] \in Nat
    BY <1>2, <1>6 DEF Keys, CleanPaths
  <2>2. \A i \in DOMAIN registered : Matches(i, p, m)' <=> Matches(i, p, m)
    BY <1>4 DEF Matches
  <2>3. \A i : i = Len(registered) + 1 => (Matches(i, p, m)' <=> <<p, m>> = key)
    BY <1>4 DEF Matches
  <2>4. HandlerIsFirst(p, m)
    BY DEF IInv, Tables
  <2>5. CASE handlers[<<p, m>>] # 0
    <3>1. handlers'[<<p, m>>] = handlers[<<p, m>>]
      BY <1>2, <1>3, <2>1, <2>5
    <3>2. FirstFor(handlers[<<p, m>>], p, m)
      BY <2>4, <2>5 DEF HandlerIsFirst
    <3>3. \A i \in DOMAIN registered' : Matches(i, p, m)' => handlers[<<p, m>>] <= i
      <4>1. handlers[<<p, m>>] <= Len(registered) + 1
        BY <1>4, <2>1, <3>2 DEF FirstFor
      <4> QED BY <1>4, <2>2, <3>2, <4>1 DEF FirstFor
    <3>4. handlers[<<p, m>>] \in DOMAIN registered' /\ \A i : i = handlers[<<p, m>>] => Matches(i, p, m)'
      BY <1>4, <2>2, <3>2 DEF FirstFor
    <3> QED BY <2>5, <3>1, <3>3, <3>4 DEF HandlerIsFirst, FirstFor
  <2>6. CASE handlers[<<p, m>>] = 0 /\ <<p, m>> # key
    <3>1. handlers'[<<p, m>>] = 0
      BY <1>2, <1>3, <2>1, <2>6
    <3> QED BY <1>4, <2>2, <2>3, <2>4, <2>6, <3>1 DEF HandlerIsFirst
  <2>7. CASE handlers[<<p, m>>] = 0 /\ <<p, m>> = key
    <3>1. handlers'[<<p, m>>] = Len(registered) + 1
      BY <1>2, <1>3, <1>4, <2>1, <2>7
    <3>2. \A i \in DOMAIN registered : ~ Matches(i, p, m)'
      BY <2>2, <2>4, <2>7 DEF HandlerIsFirst
    <3>3. \A i : i = Len(registered) + 1 => Matches(i, p, m)'
      BY <2>3, <2>7
    <3> QED BY <1>4, <3>1, <3>2, <3>3 DEF HandlerIsFirst, FirstFor
  <2> QED BY <2>5, <2>6, <2>7
<1>7. Tables'
  <2>1. ASSUME NEW code \in Codes PROVE ErrorHandlerIsLast(code)'
    BY <1>3 DEF IInv, Tables, ErrorHandlerIsLast, LastFor
  <2> QED BY <1>6, <2>1 DEF Tables, CleanPaths
<1> QED BY <1>5, <1>7

\* RegisterErrorHandler keeps the last one of each code.
LEMMA RegisterErrorHandlerTables ==
    ASSUME IInv, NEW code \in Codes, NEW adapter \in Adapters \ {"default"},
           RegisterErrorHandler(code, adapter), UNCHANGED dispatch
    PROVE  Types' /\ Tables'
<1> DEFINE e == [code |-> code, adapter |-> adapter]
<1>1. e \in ErrorRecords
  BY DEF ErrorRecords
<1>2. registeredErrors \in Seq(ErrorRecords) /\ errorHandlers \in [Codes -> Nat]
  BY DEF IInv, Types
<1>3. /\ registeredErrors' = Append(registeredErrors, e)
      /\ errorHandlers' = [errorHandlers EXCEPT ![code] = Len(registeredErrors')]
      /\ UNCHANGED <<registered, handlers>>
  BY DEF RegisterErrorHandler
<1>4. /\ registeredErrors' \in Seq(ErrorRecords) /\ Len(registeredErrors') = Len(registeredErrors) + 1
      /\ DOMAIN registeredErrors' = DOMAIN registeredErrors \cup {Len(registeredErrors) + 1}
      /\ DOMAIN registeredErrors = 1 .. Len(registeredErrors) /\ Len(registeredErrors) \in Nat
      /\ \A i \in DOMAIN registeredErrors : registeredErrors'[i] = registeredErrors[i]
      /\ registeredErrors'[Len(registeredErrors) + 1] = e
  <2> HIDE DEF e
  <2> QED BY <1>1, <1>2, <1>3, AppendToList
<1>5. Types'
  BY <1>2, <1>3, <1>4 DEF IInv, Types, dispatch
<1>6. ASSUME NEW c \in Codes PROVE ErrorHandlerIsLast(c)'
  <2>1. ErrorHandlerIsLast(c)
    BY DEF IInv, Tables
  <2>2. CASE c = code
    <3>1. errorHandlers'[c] = Len(registeredErrors) + 1
      BY <1>2, <1>3, <1>4, <2>2
    <3> QED BY <1>4, <2>2, <3>1 DEF ErrorHandlerIsLast, LastFor
  <2>3. CASE c # code
    <3>1. errorHandlers'[c] = errorHandlers[c]
      BY <1>2, <1>3, <2>3
    <3> QED BY <1>2, <1>4, <2>1, <2>3, <3>1 DEF ErrorHandlerIsLast, LastFor
  <2> QED BY <2>2, <2>3
<1>7. Tables'
  <2>1. ASSUME NEW p \in CleanPaths, NEW m \in Verbs PROVE HandlerIsFirst(p, m)'
    BY <1>3 DEF IInv, Tables, HandlerIsFirst, Matches, FirstFor
  <2> QED BY <1>6, <2>1 DEF Tables, CleanPaths
<1> QED BY <1>5, <1>7


\* RegisterDefaultHandlers comes first, and registers one handler for each code.
LEMMA RegisterDefaultHandlersTables ==
    ASSUME IInv, RegisterDefaultHandlers
    PROVE  Types' /\ Tables'
<1> USE DEF BadRequest, MethodNotAllowed, NotFound, InternalServerError
<1>0. DOMAIN DefaultCodes = 1 .. 4
  BY DEF DefaultCodes
<1>1. /\ registeredErrors = <<>> /\ UNCHANGED <<registered, handlers, dispatch>>
      /\ registeredErrors' = [i \in 1 .. 4 |-> [code |-> DefaultCodes[i], adapter |-> "default"]]
      /\ errorHandlers' = [c \in Codes |-> IF \E i \in 1 .. 4 : DefaultCodes[i] = c
                                           THEN CHOOSE i \in 1 .. 4 : DefaultCodes[i] = c
                                           ELSE 0]
  BY <1>0 DEF RegisterDefaultHandlers
<1>2. \A i \in 1 .. 4 : DefaultCodes[i] \in Codes \ {NoContent}
  BY DispatcherAssumption DEF DefaultCodes, NoContent
<1>3. \A i, j \in 1 .. 4 : DefaultCodes[i] = DefaultCodes[j] => i = j
  BY DEF DefaultCodes
<1> HIDE DEF BadRequest, MethodNotAllowed, NotFound, InternalServerError
<1>4. /\ registeredErrors' \in Seq(ErrorRecords) /\ DOMAIN registeredErrors' = 1 .. 4
      /\ \A i \in 1 .. 4 : registeredErrors'[i].code = DefaultCodes[i]
  BY <1>1, <1>2 DEF ErrorRecords, Adapters
<1>5. Types'
  <2>1. errorHandlers' \in [Codes -> Nat]
    BY <1>1
  <2> QED BY <1>1, <1>2, <1>4, <2>1 DEF IInv, Types, dispatch
<1>6. ASSUME NEW c \in Codes PROVE ErrorHandlerIsLast(c)'
  <2>1. CASE \E i \in 1 .. 4 : DefaultCodes[i] = c
    <3>1. PICK k \in 1 .. 4 : DefaultCodes[k] = c /\ errorHandlers'[c] = k
      BY <1>1, <2>1
    <3> QED BY <1>3, <1>4, <3>1 DEF ErrorHandlerIsLast, LastFor
  <2>2. CASE ~ \E i \in 1 .. 4 : DefaultCodes[i] = c
    <3>1. errorHandlers'[c] = 0
      BY <1>1, <2>2
    <3> QED BY <1>4, <2>2, <3>1 DEF ErrorHandlerIsLast
  <2> QED BY <2>1, <2>2
<1>7. ASSUME NEW p \in CleanPaths, NEW m \in Verbs PROVE HandlerIsFirst(p, m)'
  BY <1>1 DEF IInv, Tables, HandlerIsFirst, Matches, FirstFor
<1> QED BY <1>5, <1>6, <1>7 DEF Tables, CleanPaths

\* While handlers are registered nothing is dispatched.
LEMMA RegistrationStep ==
    ASSUME IInv, RegisterDefaultHandlers \/ Register
    PROVE  IInv'
<1>1. at = "idle" /\ UNCHANGED dispatch
  BY DEF RegisterDefaultHandlers, Register
<1>2. Types' /\ Tables'
  <2>1. CASE RegisterDefaultHandlers
    BY <2>1, RegisterDefaultHandlersTables
  <2>2. CASE Register
    <3>1. \/ \E p \in Paths, m \in Verbs, a \in Adapters \ {"default"} : RegisterHandler(p, m, a)
          \/ \E c \in Codes, a \in Adapters \ {"default"} : RegisterErrorHandler(c, a)
      BY <2>2 DEF Register
    <3> QED BY <1>1, <3>1, RegisterHandlerTables, RegisterErrorHandlerTables
  <2> QED BY <2>1, <2>2
<1>3. at' = "idle" /\ written' = <<>> /\ destroyed' = FALSE /\ returned' = <<>>
  BY <1>1 DEF IInv, Types, Work, dispatch
<1>4. Work' /\ Done'
  BY <1>3 DEF Work, Done, AnsweredByFirst
<1> QED BY <1>2, <1>4 DEF IInv

------------------------------------------------------------------------------
(* The reasons a request fails for *)

\* The request of a dispatch asks for a path and a method the tables have.
LEMMA Asked ==
    ASSUME IInv, at # "idle"
    PROVE  /\ request \in Requests /\ request.method \in Verbs
           /\ CleanPath(request.path) \in CleanPaths
BY DEF IInv, Types, Requests, CleanPaths

\* What the tables hold is what Types says.
LEMMA TypesOfTables ==
    ASSUME IInv
    PROVE  /\ \A i \in DOMAIN registered : i \in Nat /\ registered[i] \in HandlerRecords
           /\ \A i \in DOMAIN registeredErrors : i \in Nat /\ registeredErrors[i] \in ErrorRecords
BY DEF IInv, Types

\* A request that finds no handler fails for the reason FindHandler gives.
LEMMA NotRegistered ==
    ASSUME IInv, at = "find", handlers[<<CleanPath(request.path), request.method>>] = 0
    PROVE  FirstReason(IF HasPath(CleanPath(request.path)) THEN MethodNotAllowed ELSE NotFound)
<1> DEFINE path == CleanPath(request.path)
<1>1. path \in CleanPaths /\ request.method \in Verbs
  BY Asked
<1>2. \A m \in Verbs : HandlerIsFirst(path, m)
  BY <1>1 DEF IInv, Tables
<1>3. \A i \in DOMAIN registered : ~ Matches(i, path, request.method)
  BY <1>1, <1>2 DEF HandlerIsFirst
<1>4. CASE HasPath(path)
  <2>1. PICK m \in Verbs : handlers[<<path, m>>] # 0
    BY <1>4 DEF HasPath
  <2>2. FirstFor(handlers[<<path, m>>], path, m)
    BY <1>2, <2>1 DEF HandlerIsFirst
  <2>3. \E i \in DOMAIN registered : CleanPath(registered[i].path) = path
    BY <2>2 DEF FirstFor, Matches
  <2> QED BY <1>3, <1>4, <2>3 DEF FirstReason
<1>5. CASE ~ HasPath(path)
  <2>1. \A i \in DOMAIN registered, m \in Verbs : ~ Matches(i, path, m)
    BY <1>2, <1>5 DEF HasPath, HandlerIsFirst
  <2>2. \A i \in DOMAIN registered : CleanPath(registered[i].path) # path
    BY <2>1, TypesOfTables DEF Matches, HandlerRecords
  <2> QED BY <1>5, <2>2 DEF FirstReason
<1> QED BY <1>4, <1>5

------------------------------------------------------------------------------
(* Dispatch *)

\* The tables are what they were when their variables are.
LEMMA TablesUnchanged ==
    ASSUME IInv, UNCHANGED tables
    PROVE  Tables'
<1>1. ASSUME NEW p \in CleanPaths, NEW m \in Verbs PROVE HandlerIsFirst(p, m)'
  BY DEF IInv, Tables, HandlerIsFirst, Matches, FirstFor, tables
<1>2. ASSUME NEW c \in Codes PROVE ErrorHandlerIsLast(c)'
  BY DEF IInv, Tables, ErrorHandlerIsLast, LastFor, tables
<1> QED BY <1>1, <1>2 DEF Tables, CleanPaths

\* A step of Dispatch leaves the tables alone.
LEMMA TablesKept ==
    ASSUME IInv, UNCHANGED tables, request' \in Requests, at' \in Steps,
           statusCode' \in Codes \cup {OK}, handler' \in HandlerNames, response' \in ResponseRecords
    PROVE  Types' /\ Tables'
<1>1. Types'
  BY DEF IInv, Types, tables
<1> QED BY <1>1, TablesUnchanged

\* Nor does it change whose handler counts.
LEMMA RegistrationsKept ==
    ASSUME UNCHANGED <<tables, request>>
    PROVE  /\ \A i, path, method : FirstFor(i, path, method)' <=> FirstFor(i, path, method)
           /\ \A i, code : LastFor(i, code)' <=> LastFor(i, code)
<1>1. \A i, path, method : Matches(i, path, method)' <=> Matches(i, path, method)
  BY DEF Matches, tables
<1>2. \A i, path, method : FirstFor(i, path, method)' <=> FirstFor(i, path, method)
  BY <1>1 DEF FirstFor, tables
<1>3. \A i, code : LastFor(i, code)' <=> LastFor(i, code)
  BY DEF LastFor, tables
<1> QED BY <1>2, <1>3

\* Why a request fails is changed only by what its handler returns.
LEMMA ReasonKept ==
    ASSUME UNCHANGED <<tables, request, returned>>
    PROVE  \A code : FirstReason(code)' <=> FirstReason(code)
<1>1. \A i, path, method : Matches(i, path, method)' <=> Matches(i, path, method)
  BY DEF Matches, tables
<1>2. \A i, path, method : FirstFor(i, path, method)' <=> FirstFor(i, path, method)
  BY RegistrationsKept
<1>3. \A code, adapter : FailedWith(code, adapter)' <=> FailedWith(code, adapter)
  BY DEF FailedWith
<1> QED BY <1>1, <1>2, <1>3 DEF FirstReason, tables

\* A handler that was called fails with what it returned, or with 500.
LEMMA CalledReason ==
    ASSUME IInv, at = "invoke", NEW code, UNCHANGED <<tables, request>>,
           FailedWith(code, handler.adapter)'
    PROVE  handler' = handler => FirstReason(code)'
<1> SUFFICES ASSUME handler' = handler PROVE FirstReason(code)'
  OBVIOUS
<1> DEFINE path == CleanPath(request.path)
<1>1. PICK i \in DOMAIN registered : handler = HandlerNamed(i) /\ FirstFor(i, path, request.method)
  BY DEF IInv, Work, Called
<1>2. Matches(i, path, request.method) /\ CleanPath(registered[i].path) = path
  BY <1>1 DEF FirstFor, Matches
<1>3. \A j \in DOMAIN registered : FirstFor(j, path, request.method) => j = i
  BY <1>1, TypesOfTables DEF FirstFor
<1>4. handler.adapter = registered[i].adapter
  BY <1>1 DEF HandlerNamed
<1>5. FailedWith(code, registered[i].adapter)'
  BY <1>4 DEF FailedWith, tables
<1>6. request' = request /\ registered' = registered
  BY DEF tables
<1>7. \A j \in DOMAIN registered : \A p, m :
          p = path /\ m = request.method /\ FirstFor(j, p, m)' => FailedWith(code, registered[j].adapter)'
  BY <1>3, <1>5, RegistrationsKept
<1>8. \A j \in DOMAIN registered :
          FirstFor(j, CleanPath(request.path), request.method)' => FailedWith(code, registered[j].adapter)'
  BY <1>6, <1>7
<1>9. /\ ~ \A j \in DOMAIN registered : CleanPath(registered[j].path)' # CleanPath(request.path)'
      /\ ~ \A j \in DOMAIN registered : ~ Matches(j, CleanPath(request.path), request.method)'
  BY <1>2, <1>6 DEF Matches
<1> QED BY <1>6, <1>8, <1>9 DEF FirstReason

\* A request comes.
LEMMA ReceiveStep ==
    ASSUME IInv, Receive
    PROVE  IInv'
<1>1. /\ at = "idle" /\ at' = "find" /\ request' \in Requests
      /\ UNCHANGED <<tables, response, handler, statusCode, returned, written, destroyed>>
  BY DEF Receive
<1>2. Types' /\ Tables'
  BY <1>1, TablesKept DEF IInv, Types, Steps
<1>3. written' = <<>> /\ ~ destroyed' /\ returned' = <<>>
  BY <1>1 DEF IInv, Work
<1>4. Work' /\ Done'
  BY <1>1, <1>3 DEF Work, Done, AnsweredByFirst
<1> QED BY <1>2, <1>4 DEF IInv

\* The handler that is found is the first one; without one the reason is known.
LEMMA FindHandlerStep ==
    ASSUME IInv, FindHandler
    PROVE  IInv'
<1> DEFINE path == CleanPath(request.path)
<1> DEFINE i == handlers[<<path, request.method>>]
<1>1. /\ at = "find" /\ UNCHANGED <<tables, request, response, returned, written, destroyed>>
      /\ \/ i # 0 /\ handler' = HandlerNamed(i) /\ at' = "invoke" /\ statusCode' = statusCode
         \/ /\ i = 0 /\ handler' = handler /\ at' = "fail"
            /\ statusCode' = IF HasPath(path) THEN MethodNotAllowed ELSE NotFound
  BY DEF FindHandler
<1>2. request \in Requests /\ HandlerIsFirst(path, request.method)
  BY <1>1, Asked DEF IInv, Tables
<1>3. written' = <<>> /\ ~ destroyed' /\ returned' = <<>> /\ statusCode \in Codes \cup {OK}
      /\ handler \in HandlerNames /\ response \in ResponseRecords
  BY <1>1 DEF IInv, Work, Types
<1>4. Done' <=> at' \notin {"destroy", "returned"}
  BY <1>1, <1>3 DEF Done, AnsweredByFirst
<1>5. CASE i # 0
  <2>1. handler' = HandlerNamed(i) /\ at' = "invoke" /\ statusCode' = statusCode
    BY <1>1, <1>5
  <2>2. i \in DOMAIN registered /\ FirstFor(i, path, request.method)
    BY <1>2, <1>5 DEF HandlerIsFirst, FirstFor
  <2>3. HandlerNamed(i) \in HandlerNames
    BY <2>2, TypesOfTables DEF HandlerNamed, HandlerNames, Names, HandlerRecords, Adapters
  <2>4. Types' /\ Tables'
    BY <1>1, <1>2, <1>3, <2>1, <2>3, TablesKept DEF Steps
  <2>5. Called'
    <3>1. i \in DOMAIN registered' /\ handler' = [name |-> <<"handler", i>>, adapter |-> registered'[i].adapter]
      BY <1>1, <2>1, <2>2 DEF HandlerNamed, tables
    <3>2. \A p, m : p = path /\ m = request.method => FirstFor(i, p, m)
      BY <2>2
    <3> QED BY <1>1, <2>2, <3>1, RegistrationsKept DEF Called, HandlerNamed
  <2>6. Work'
    BY <1>3, <2>1, <2>5 DEF Work
  <2> QED BY <1>4, <2>1, <2>4, <2>6 DEF IInv
<1>6. CASE i = 0
  <2>1. at' = "fail" /\ handler' = handler /\ FirstReason(statusCode')
    BY <1>1, <1>6, NotRegistered
  <2>2. statusCode' \in Codes
    BY <1>1, <1>6, DispatcherAssumption
  <2>3. Types' /\ Tables'
    BY <1>1, <1>2, <1>3, <2>1, <2>2, TablesKept DEF Steps
  <2>4. FirstReason(statusCode)'
    BY <1>1, <2>1, ReasonKept
  <2>5. Work'
    BY <1>3, <2>1, <2>2, <2>4 DEF Work
  <2> QED BY <1>4, <2>1, <2>3, <2>5 DEF IInv
<1> QED BY <1>5, <1>6

\* The error handler that is found is the last one for the reason.
LEMMA FindErrorHandlerStep ==
    ASSUME IInv, FindErrorHandler
    PROVE  IInv'
<1> DEFINE i == errorHandlers[statusCode]
<1>1. /\ at = "fail" /\ UNCHANGED <<tables, request, response, statusCode, returned, written, destroyed>>
      /\ IF i # 0 THEN handler' = ErrorHandlerNamed(i) /\ at' = "invokeError"
                  ELSE handler' = NoHandler /\ at' = "destroy"
  BY DEF FindErrorHandler
<1>2. statusCode \in Codes /\ FirstReason(statusCode) /\ ErrorHandlerIsLast(statusCode)
  BY <1>1 DEF IInv, Work, Tables
<1>3. /\ written' = <<>> /\ ~ destroyed' /\ written = <<>>
      /\ request \in Requests /\ response \in ResponseRecords
  BY <1>1, Asked DEF IInv, Work, Types
<1>4. FirstReason(statusCode)'
  BY <1>1, <1>2, ReasonKept
<1>5. AnsweredByFirst' /\ Len(written') = 0
  BY <1>3 DEF AnsweredByFirst
<1>6. CASE i # 0
  <2>1. i \in DOMAIN registeredErrors /\ LastFor(i, statusCode)
    BY <1>2, <1>6 DEF ErrorHandlerIsLast, LastFor
  <2>2. handler' = ErrorHandlerNamed(i) /\ at' = "invokeError"
    BY <1>1, <1>6
  <2>3. ErrorHandlerNamed(i) \in HandlerNames
    BY <2>1, TypesOfTables DEF ErrorHandlerNamed, HandlerNames, Names, ErrorRecords
  <2>4. Types' /\ Tables'
    BY <1>1, <1>2, <1>3, <2>2, <2>3, TablesKept DEF Steps
  <2>5. ErrorCalled'
    <3>1. i \in DOMAIN registeredErrors' /\ handler' = [name |-> <<"error", i>>, adapter |-> registeredErrors'[i].adapter]
      BY <1>1, <2>1, <2>2 DEF ErrorHandlerNamed, tables
    <3>2. \A c : c = statusCode => LastFor(i, c)
      BY <2>1
    <3> QED BY <1>1, <2>1, <3>1, RegistrationsKept DEF ErrorCalled, ErrorHandlerNamed
  <2> QED BY <1>1, <1>2, <1>3, <1>4, <1>5, <2>2, <2>4, <2>5 DEF IInv, Work, Done
<1>7. CASE i = 0
  <2>1. handler' = NoHandler /\ at' = "destroy"
    BY <1>1, <1>7
  <2>2. NoHandler \in HandlerNames
    BY DEF NoHandler, HandlerNames, Names, Adapters
  <2>3. Types' /\ Tables'
    BY <1>1, <1>2, <1>3, <2>1, <2>2, TablesKept DEF Steps
  <2>4. NoAnswer'
    BY <1>1, <1>2, <1>7 DEF NoAnswer, ErrorHandlerIsLast, tables
  <2> QED BY <1>3, <1>5, <2>1, <2>3, <2>4 DEF IInv, Work, Done
<1> QED BY <1>6, <1>7

\* The default handlers are error handlers.
LEMMA DefaultCalled ==
    ASSUME IInv, at \in {"invoke", "invokeError"}, handler.adapter = "default"
    PROVE  \E i \in DOMAIN registeredErrors : handler = ErrorHandlerNamed(i)
<1>1. ASSUME at = "invoke" PROVE FALSE
  <2>1. PICK i \in DOMAIN registered : handler = HandlerNamed(i)
    BY <1>1 DEF IInv, Work, Called
  <2> QED BY <2>1, TypesOfTables DEF HandlerNamed, HandlerRecords
<1> QED BY <1>1 DEF IInv, Work, ErrorCalled

\* What a function and PostHandle leave is a response.
LEMMA ChangedTypes ==
    ASSUME IInv, at \in {"invoke", "invokeError"}, NEW r \in Changed
    PROVE  /\ r \in ResponseRecords /\ Formatted(r) \in ResponseRecords
           /\ handler.name \in Names
<1>1. response \in ResponseRecords /\ handler.name \in Names
  BY DEF IInv, Types, HandlerNames
<1>2. r \in ResponseRecords
  <2>1. CASE handler.adapter = "default"
    <3>2. PICK i \in DOMAIN registeredErrors : handler = ErrorHandlerNamed(i)
      BY <2>1, DefaultCalled
    <3>3. handler.name[2] = i /\ registeredErrors[i].code \in Nat
      BY <3>2, TypesOfTables, DispatcherAssumption DEF ErrorHandlerNamed, ErrorRecords
    <3>4. r = [response EXCEPT !.status = registeredErrors[i].code, !.body = <<handler.name>>]
      BY <2>1, <3>3 DEF Changed
    <3>5. <<handler.name>> \in Seq(Names)
      BY <1>1
    <3> QED BY <1>1, <3>3, <3>4, <3>5 DEF ResponseRecords
  <2>2. CASE handler.adapter # "default"
    <3>1. PICK s \in {response.status, NoContent}, b \in Bodies :
             r = [status |-> s, type |-> response.type,
                  headers |-> response.headers \cup {handler.name}, body |-> b]
      BY <2>2 DEF Changed
    <3>2. Bodies \subseteq Seq(Names)
      <4>1. response.body \in Seq(Names)
        BY <1>1 DEF ResponseRecords
      <4>2. <<handler.name>> \in Seq(Names) /\ Append(response.body, handler.name) \in Seq(Names)
        BY <1>1, <4>1
      <4> QED BY <4>1, <4>2 DEF Bodies
    <3>3. response.status \in Nat /\ NoContent \in Nat
      BY <1>1 DEF ResponseRecords, NoContent
    <3> QED BY <1>1, <3>1, <3>2, <3>3 DEF ResponseRecords
  <2> QED BY <2>1, <2>2
<1>3. <<handler.name>> \in Seq(Names)
  BY <1>1
<1>4. Formatted(r) \in ResponseRecords
  <2>1. CASE handler.adapter \in {"text", "default"}
    BY <1>2, <2>1 DEF Formatted, ResponseRecords
  <2>2. CASE handler.adapter = "json"
    BY <1>2, <1>3, <2>2 DEF Formatted, ResponseRecords
  <2>3. CASE handler.adapter \notin {"text", "default", "json"}
    BY <1>2, <2>3 DEF Formatted
  <2> QED BY <2>1, <2>2, <2>3
<1> QED BY <1>1, <1>2, <1>4

\* What is written, and by whom.
LEMMA WrittenBy ==
    ASSUME IInv, at \in {"invoke", "invokeError"}, NEW r \in Changed,
           NEW w, w = Written(Formatted(r))
    PROVE  /\ Len(w) = 1 /\ DOMAIN w = {1} /\ w[1].by = handler.name
           /\ handler.adapter = "default" =>
                 \E i \in DOMAIN registeredErrors :
                    /\ handler.name = <<"error", i>> /\ w[1].status = registeredErrors[i].code
                    /\ w[1].type = "text/plain" /\ w[1].body = <<handler.name>>
<1> DEFINE f == Formatted(r)
<1> DEFINE e == [by |-> handler.name, status |-> f.status, type |-> f.type, headers |-> f.headers,
                 body |-> IF f.status = NoContent THEN <<>> ELSE f.body]
<1>1. written = <<>>
  BY DEF IInv, Work
<1>2. w = Append(written, e)
  BY DEF Written
<1>3. w = <<e>>
  BY <1>1, <1>2
<1>4. Len(w) = 1 /\ DOMAIN w = {1} /\ w[1] = e
  <2> HIDE DEF e
  <2> QED BY <1>3
<1>5. ASSUME handler.adapter = "default"
      PROVE  \E i \in DOMAIN registeredErrors :
                /\ handler.name = <<"error", i>> /\ e.status = registeredErrors[i].code
                /\ e.type = "text/plain" /\ e.body = <<handler.name>>
  <2>2. PICK i \in DOMAIN registeredErrors : handler = ErrorHandlerNamed(i)
    BY <1>5, DefaultCalled
  <2>3. handler.name = <<"error", i>> /\ handler.name[2] = i /\ registeredErrors[i].code # NoContent
    BY <1>5, <2>2 DEF ErrorHandlerNamed, IInv, Types
  <2>4. r = [response EXCEPT !.status = registeredErrors[i].code, !.body = <<handler.name>>]
    BY <1>5, <2>3 DEF Changed
  <2>5. response \in ResponseRecords
    BY DEF IInv, Types
  <2>6. r.status = registeredErrors[i].code /\ r.body = <<handler.name>>
    BY <2>4, <2>5 DEF ResponseRecords
  <2>7. f = [r EXCEPT !.type = "text/plain"] /\ r \in ResponseRecords
    BY <1>5, ChangedTypes DEF Formatted
  <2>8. f.status = r.status /\ f.type = "text/plain" /\ f.body = r.body
    BY <2>7 DEF ResponseRecords
  <2> HIDE DEF f
  <2> QED BY <2>3, <2>6, <2>8
<1> HIDE DEF e
<1>6. e.by = handler.name
  BY DEF e
<1> QED BY <1>4, <1>5, <1>6

\* A response may be written by a handler that was called, or by an error handler
\* that was.
LEMMA RightAnswer ==
    ASSUME IInv, at \in {"invoke", "invokeError"}, NEW r \in Changed,
           written' = Written(Formatted(r)), UNCHANGED <<tables, request>>,
           returned' = IF at = "invoke" THEN <<OK>> ELSE returned
    PROVE  AnsweredByFirst' /\ Len(written') = 1
<1> DEFINE w == written'
<1>1. /\ Len(w) = 1 /\ DOMAIN w = {1} /\ w[1].by = handler.name
      /\ handler.adapter = "default" =>
            \E i \in DOMAIN registeredErrors :
               /\ handler.name = <<"error", i>> /\ w[1].status = registeredErrors[i].code
               /\ w[1].type = "text/plain" /\ w[1].body = <<handler.name>>
  BY WrittenBy
<1>2. CASE at = "invoke"
  <2>1. PICK i \in DOMAIN registered :
           handler = HandlerNamed(i) /\ FirstFor(i, CleanPath(request.path), request.method)
    BY <1>2 DEF IInv, Work, Called
  <2>2. \A p, m : p = CleanPath(request.path) /\ m = request.method => FirstFor(i, p, m)'
    BY <2>1, RegistrationsKept
  <2>3. i \in DOMAIN registered' /\ w[1].by = <<"handler", i>>
    BY <1>1, <2>1 DEF HandlerNamed, tables
  <2> QED BY <1>1, <1>2, <2>2, <2>3 DEF AnsweredByFirst
<1>3. CASE at = "invokeError"
  <2>1. PICK i \in DOMAIN registeredErrors :
           handler = ErrorHandlerNamed(i) /\ LastFor(i, statusCode)
    BY <1>3 DEF IInv, Work, ErrorCalled
  <2>2. statusCode \in Codes /\ FirstReason(statusCode) /\ registeredErrors[i].code = statusCode
    BY <1>3, <2>1 DEF IInv, Work, LastFor
  <2>3. PICK c \in Codes : c = statusCode
    BY <2>2
  <2>4. LastFor(i, c)' /\ FirstReason(c)'
    BY <1>3, <2>1, <2>2, <2>3, RegistrationsKept, ReasonKept
  <2>5. /\ i \in DOMAIN registeredErrors' /\ w[1].by = <<"error", i>>
        /\ registeredErrors'[i] = registeredErrors[i] /\ handler.adapter = registeredErrors[i].adapter
        /\ handler.name = <<"error", i>>
    BY <1>1, <2>1 DEF ErrorHandlerNamed, tables
  <2>6. registeredErrors'[i].adapter = "default" =>
           w[1].status = c /\ w[1].body = <<w[1].by>> /\ w[1].type = "text/plain"
    <3>1. ASSUME handler.adapter = "default"
          PROVE  w[1].status = c /\ w[1].body = <<w[1].by>> /\ w[1].type = "text/plain"
      <4>1. PICK j \in DOMAIN registeredErrors :
               /\ handler.name = <<"error", j>> /\ w[1].status = registeredErrors[j].code
               /\ w[1].type = "text/plain" /\ w[1].body = <<handler.name>>
        BY <1>1, <3>1
      <4>2. j = i
        BY <2>5, <4>1
      <4> QED BY <1>1, <2>2, <2>3, <4>1, <4>2
    <3> QED BY <2>5, <3>1
  <2> QED BY <1>1, <2>3, <2>4, <2>5, <2>6 DEF AnsweredByFirst
<1> QED BY <1>1, <1>2, <1>3

\* A handler fails, with a code it may fail with.
LEMMA FailedStep ==
    ASSUME IInv, at = "invoke", NEW s \in Codes, Fails(s),
           UNCHANGED <<tables, request, handler, written, destroyed>>, response' \in ResponseRecords,
           FailedWith(s, handler.adapter)'
    PROVE  IInv'
<1>1. /\ written' = <<>> /\ ~ destroyed' /\ request \in Requests
      /\ handler \in HandlerNames /\ statusCode \in Codes \cup {OK}
  BY Asked DEF IInv, Work, Types
<1>2. AnsweredByFirst' /\ Len(written') = 0
  BY <1>1 DEF AnsweredByFirst
<1>3. statusCode' = s /\ at' = "fail"
  BY DEF Fails
<1>4. FirstReason(s)'
  BY CalledReason
<1>5. FirstReason(statusCode)'
  BY <1>3, <1>4 DEF FirstReason, FailedWith
<1>6. Types' /\ Tables'
  BY <1>1, <1>3, TablesKept DEF Steps
<1> QED BY <1>1, <1>2, <1>3, <1>5, <1>6 DEF IInv, Work, Done

\* An error handler fails, of an adapter that may.
LEMMA ErrorFailedStep ==
    ASSUME IInv, at = "invokeError", NEW s \in Codes, Results(s),
           UNCHANGED <<tables, request, handler, written, destroyed>>, response' \in ResponseRecords,
           handler.adapter = "custom" \/ (handler.adapter = "json" /\ ~ request.json)
    PROVE  IInv'
<1>1. /\ written' = <<>> /\ ~ destroyed' /\ request \in Requests
      /\ handler \in HandlerNames /\ statusCode \in Codes \cup {OK}
  BY Asked DEF IInv, Work, Types
<1>2. AnsweredByFirst' /\ Len(written') = 0
  BY <1>1 DEF AnsweredByFirst
<1>3. statusCode' = statusCode /\ at' = "destroy"
  BY DEF Results
<1>4. PICK i \in DOMAIN registeredErrors :
         handler = ErrorHandlerNamed(i) /\ LastFor(i, statusCode)
  BY DEF IInv, Work, ErrorCalled
<1>5. handler.adapter = registeredErrors[i].adapter
  BY <1>4 DEF ErrorHandlerNamed
<1>6. NoAnswer'
  BY <1>3, <1>4, <1>5 DEF NoAnswer, LastFor, tables
<1>7. Types' /\ Tables'
  BY <1>1, <1>3, TablesKept DEF Steps
<1> QED BY <1>1, <1>2, <1>3, <1>6, <1>7 DEF IInv, Work, Done

\* A handler returns, content or not.
LEMMA HandledStep ==
    ASSUME IInv, Handled
    PROVE  IInv'
<1>1. /\ at \in {"invoke", "invokeError"} /\ Valid
      /\ UNCHANGED <<tables, request, handler, destroyed>>
  BY DEF Handled
<1>2. PICK r \in Changed : response' = Formatted(r)
  BY DEF Handled
<1>3. PICK s \in IF handler.adapter = "custom" THEN Codes \cup {OK} ELSE {OK} :
         Results(s) /\ written' = IF s = OK THEN Written(response') ELSE written
  BY DEF Handled
<1>4. response' \in ResponseRecords
  BY <1>1, <1>2, ChangedTypes
<1>5. CASE s # OK
  <2>1. s \in Codes /\ handler.adapter = "custom" /\ written' = written
    BY <1>3, <1>5
  <2>2. UNCHANGED <<tables, request, handler, written, destroyed>>
    BY <1>1, <2>1
  <2>3. CASE at = "invoke"
    <3>1. Fails(s) /\ returned' = <<s>>
      BY <1>3, <1>5, <2>3 DEF Results
    <3>2. FailedWith(s, handler.adapter)'
      BY <2>1, <2>2, <3>1 DEF FailedWith
    <3> QED BY <1>4, <2>1, <2>2, <2>3, <3>1, <3>2, FailedStep
  <2>4. CASE at = "invokeError"
    <3>1. Results(s)
      BY <1>3
    <3> QED BY <1>4, <2>1, <2>2, <2>4, <3>1, ErrorFailedStep
  <2> QED BY <1>1, <2>3, <2>4
<1>6. CASE s = OK
  <2>1. written' = Written(Formatted(r)) /\ returned' = IF at = "invoke" THEN <<OK>> ELSE returned
    BY <1>2, <1>3, <1>6 DEF Results
  <2>2. AnsweredByFirst' /\ Len(written') = 1
    BY <1>1, <2>1, RightAnswer
  <2>3. at' = "destroy" /\ statusCode' = statusCode
    BY <1>3, <1>6 DEF Results
  <2>4. request \in Requests /\ handler \in HandlerNames /\ statusCode \in Codes \cup {OK}
    BY <1>1, Asked DEF IInv, Types
  <2>5. Types' /\ Tables'
    BY <1>1, <1>4, <2>3, <2>4, TablesKept DEF Steps
  <2> QED BY <2>2, <2>3, <2>5 DEF IInv, Work, Done
<1> QED BY <1>5, <1>6

\* A request without JSON is not given to a JSON handler.
LEMMA RefusedStep ==
    ASSUME IInv, Refused
    PROVE  IInv'
<1>1. /\ at \in {"invoke", "invokeError"} /\ handler.adapter = "json" /\ ~ request.json
      /\ Results(BadRequest) /\ UNCHANGED <<tables, request, response, handler, written, destroyed>>
  BY DEF Refused, Valid
<1>2. BadRequest \in Codes /\ BadRequest # OK /\ response \in ResponseRecords
  BY DispatcherAssumption DEF IInv, Types
<1>3. CASE at = "invoke"
  <2>1. Fails(BadRequest) /\ returned' = <<BadRequest>>
    BY <1>1, <1>2, <1>3 DEF Results
  <2>2. FailedWith(BadRequest, handler.adapter)'
    BY <1>1, <2>1 DEF FailedWith
  <2> QED BY <1>1, <1>2, <1>3, <2>1, <2>2, FailedStep
<1>4. CASE at = "invokeError"
  BY <1>1, <1>2, <1>4, ErrorFailedStep
<1> QED BY <1>1, <1>3, <1>4

\* An exception of a handler becomes a status code, or leaves Dispatch.
LEMMA HandlerThrowsStep ==
    ASSUME IInv, HandlerThrows
    PROVE  IInv'
<1>1. /\ at \in {"invoke", "invokeError"} /\ Valid
      /\ UNCHANGED <<tables, request, handler, returned, written, destroyed>>
      /\ \/ at = "invoke" /\ Fails(InternalServerError)
         \/ at' = "threw" /\ statusCode' = statusCode
  BY DEF HandlerThrows
<1>2. response' \in ResponseRecords
  <2>1. PICK r \in Changed : response' = r
    BY DEF HandlerThrows
  <2> QED BY <1>1, <2>1, ChangedTypes
<1>3. CASE at = "invoke" /\ Fails(InternalServerError)
  <2>1. InternalServerError \in Codes
    BY DispatcherAssumption
  <2>2. returned' = <<>>
    BY <1>1, <1>3 DEF IInv, Work
  <2>3. FailedWith(InternalServerError, handler.adapter)'
    BY <1>1, <2>2 DEF FailedWith, Valid
  <2> QED BY <1>1, <1>2, <1>3, <2>1, <2>3, FailedStep
<1>4. CASE at' = "threw" /\ statusCode' = statusCode
  <2>1. /\ written' = <<>> /\ ~ destroyed' /\ request \in Requests
        /\ handler \in HandlerNames /\ statusCode \in Codes \cup {OK}
    BY <1>1, Asked DEF IInv, Work, Types
  <2>2. Types' /\ Tables'
    BY <1>1, <1>2, <1>4, <2>1, TablesKept DEF Steps
  <2>3. Work' /\ Done'
    BY <1>4, <2>1 DEF Work, Done, AnsweredByFirst
  <2> QED BY <2>2, <2>3 DEF IInv
<1> QED BY <1>1, <1>3, <1>4

\* The context is destroyed.
LEMMA DestroyStep ==
    ASSUME IInv, Destroy
    PROVE  IInv'
<1>1. /\ at = "destroy" /\ at' = "returned" /\ destroyed'
      /\ UNCHANGED <<tables, request, response, handler, statusCode, returned, written>>
  BY DEF Destroy
<1>2. Types' /\ Tables'
  BY <1>1, Asked, TablesKept DEF IInv, Types, Steps
<1>3. AnsweredByFirst'
  BY <1>1 DEF IInv, Done, AnsweredByFirst, FirstFor, LastFor, FirstReason, FailedWith,
                 Matches, tables
<1>4. Len(written') = 1 \/ NoAnswer'
  BY <1>1 DEF IInv, Done, NoAnswer, LastFor, tables
<1>5. Len(written') <= 1
  BY <1>1 DEF IInv, Done
<1> QED BY <1>1, <1>2, <1>3, <1>4, <1>5 DEF IInv, Work, Done

------------------------------------------------------------------------------
(* The theorems *)

\* The invariant holds at every step: what is looked up is what was registered,
\* and each request is with the handler it should be with.
THEOREM DispatchInvariant == DispatcherSpec => []IInv
<1>1. IInv /\ [DispatcherNext]_dispatcherVars => IInv'
  <2> SUFFICES ASSUME IInv, [DispatcherNext]_dispatcherVars PROVE IInv'
    OBVIOUS
  <2>1. CASE RegisterDefaultHandlers \/ Register
    BY <2>1, RegistrationStep
  <2>2. CASE Receive
    BY <2>2, ReceiveStep
  <2>3. CASE FindHandler
    BY <2>3, FindHandlerStep
  <2>4. CASE FindErrorHandler
    BY <2>4, FindErrorHandlerStep
  <2>5. CASE Handled
    BY <2>5, HandledStep
  <2>6. CASE Refused
    BY <2>6, RefusedStep
  <2>7. CASE HandlerThrows
    BY <2>7, HandlerThrowsStep
  <2>8. CASE Destroy
    BY <2>8, DestroyStep
  <2>9. CASE UNCHANGED dispatcherVars
    <3>1. Types' /\ Tables'
      BY <2>9, TablesUnchanged DEF IInv, Types, dispatcherVars, tables, dispatch
    <3>2. Work'
      BY <2>9 DEF IInv, Work, Called, ErrorCalled, HandlerNamed, ErrorHandlerNamed, FirstFor, LastFor,
                  FirstReason, FailedWith, Matches, dispatcherVars, tables, dispatch
    <3>3. Done'
      BY <2>9 DEF IInv, Done, NoAnswer, AnsweredByFirst, FirstFor, LastFor, FirstReason, FailedWith, Matches,
                  dispatcherVars, tables, dispatch
    <3> QED BY <3>1, <3>2, <3>3 DEF IInv
  <2> QED BY <2>1, <2>2, <2>3, <2>4, <2>5, <2>6, <2>7, <2>8, <2>9 DEF DispatcherNext, Dispatch
<1> QED BY InitIInv, <1>1, PTL DEF DispatcherSpec

\* The first handler is one of those registered.
LEMMA FirstIsOne ==
    ASSUME IInv, at # "idle", NEW code, FirstReason(code)
    PROVE  Reason(code)
<1> DEFINE path == CleanPath(request.path)
           i == handlers[<<path, request.method>>]
<1>1. CASE \A j \in DOMAIN registered : ~ Matches(j, path, request.method)
  BY <1>1 DEF FirstReason, Reason
<1>2. CASE \E j \in DOMAIN registered : Matches(j, path, request.method)
  <2>1. path \in CleanPaths /\ request.method \in Verbs
    BY Asked DEF IInv, Types
  <2>2. HandlerIsFirst(path, request.method)
    BY <2>1 DEF IInv, Tables
  <2>3. FirstFor(i, path, request.method)
    BY <1>2, <2>2 DEF HandlerIsFirst
  <2>4. i \in DOMAIN registered /\ Matches(i, path, request.method) /\ CleanPath(registered[i].path) = path
    BY <2>3 DEF FirstFor, Matches
  <2> HIDE DEF i
  <2>5. FailedWith(code, registered[i].adapter)
    BY <2>3, <2>4 DEF FirstReason
  <2> QED BY <2>4, <2>5 DEF Reason
<1> QED BY <1>1, <1>2

\* Whatever handlers are registered, a response comes from one that is for the
\* path and the method and was content, or from the last error handler for what
\* went wrong: the code its handler returned, or 500 if it threw.
THEOREM RightHandler == DispatcherSpec => []AnsweredByRight
<1>1. IInv => AnsweredByRight
  <2> SUFFICES ASSUME IInv, NEW k \in DOMAIN written
               PROVE  LET w == written[k] IN
                      \/ \E i \in DOMAIN registered :
                            /\ w.by = <<"handler", i>> /\ returned = <<OK>>
                            /\ Matches(i, CleanPath(request.path), request.method)
                      \/ \E i \in DOMAIN registeredErrors, c \in Codes :
                            /\ w.by = <<"error", i>>
                            /\ LastFor(i, c) /\ Reason(c)
                            /\ registeredErrors[i].adapter = "default" =>
                                   w.status = c /\ w.body = <<w.by>> /\ w.type = "text/plain"
    BY DEF AnsweredByRight
  <2>1. at # "idle"
    BY DEF IInv, Work
  <2>2. \A c : FirstReason(c) => Reason(c)
    BY <2>1, FirstIsOne
  <2>3. \A i, path, method : FirstFor(i, path, method) => Matches(i, path, method)
    BY DEF FirstFor
  <2>4. AnsweredByFirst
    BY DEF IInv, Done
  <2> QED BY <2>2, <2>3, <2>4, Zenon DEF AnsweredByFirst
<1> QED BY DispatchInvariant, <1>1, PTL

\* Whatever the handlers and the error handlers do, Dispatch writes one response
\* at most, and tells nobody nothing only for want of an error handler.
THEOREM OneAnswer == DispatcherSpec => []AnsweredOnce
<1>1. IInv => AnsweredOnce
  BY DEF IInv, Work, Done, NoAnswer, AnsweredOnce
<1> QED BY DispatchInvariant, <1>1, PTL

==============================================================================
