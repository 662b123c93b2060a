------------------------------- MODULE Servers -------------------------------
(***************************************************************************)
(* The Basic and the Threaded server of minet/src/components, with the     *)
(* WebHost that runs them, the task _Serve runs in, and the interrupt      *)
(* handler.  The two servers differ in who handles an accepted connection: *)
(* the serving thread itself, or a task of the thread pool, which is used  *)
(* as module TaskPool specifies it.                                        *)
(*                                                                         *)
(* The listen socket is non-blocking, the accepted ones block.  A client   *)
(* says one thing: a request, something that does not parse (the end of    *)
(* its input included), or a request on which std::stoi throws.  Of a      *)
(* descriptor only matters that there are FileLimit of them.               *)
(***************************************************************************)
EXTENDS Integers, Sequences, FiniteSets, Functions

CONSTANTS
    Clients,    \* each makes one connection
    Threads,    \* _config->Threads
    FileLimit,  \* the connections the process may have open at a time
    MaxRuns,    \* bound: the calls of WebHost::Run
    None

ASSUME ServersAssumption ==
    /\ Threads \in Nat \ {0} /\ FileLimit \in Nat \ {0} /\ MaxRuns \in Nat
    /\ None \notin Clients

VARIABLES
    kind,       \* which server, "Basic" or "Threaded"
    \* the host's thread, and the signal
    host,       \* where Run is: "idle", "opened", "running" or "await"; what
                \* became of the host: "gone" or "destroyed"; or "crashed"
    runs,       \* the calls of Run so far
    interrupted,\* whether ^C was pressed; its handler is removed then
    dangling,   \* history: what used the host after its end
    \* the server
    isRunning,  \* _isRunning
    listening,  \* _listenFd # 0
    serve,      \* where _Serve is, "none" when there is no such thread
    current,    \* the connection accepted last, while _Serve has it
    \* the connections
    conn,       \* "none", "backlog", "open", or "closed" by the server
    said,       \* what the client has sent
    backlog,    \* the listen queue
    step,       \* where the handling of each connection is
    \* the pool, as TaskPool has it; the task of a connection is its client
    pending, started, finished

hostVars == <<host, runs, interrupted, dangling>>
pool     == <<pending, started, finished>>

vars == <<kind, hostVars, isRunning, listening, serve, current, conn, said, backlog, step, pool>>

Pool == INSTANCE TaskPool WITH Tasks <- Clients

Init ==
    /\ kind \in {"Basic", "Threaded"}
    /\ host = "idle" /\ runs = 0 /\ interrupted = FALSE /\ dangling = {}
    /\ isRunning = FALSE /\ listening = FALSE
    /\ serve = "none" /\ current = None
    /\ conn = [c \in Clients |-> "none"]
    /\ said = [c \in Clients |-> "nothing"]
    /\ backlog = <<>>
    /\ step = [c \in Clients |-> "none"]
    /\ Pool!Init

------------------------------------------------------------------------------
(* WebHost::Run, StartAsync and the task *)

\* StartAsync up to _OpenSocket.  Were the server still running, the same thing
\* would happen as in OpenFails; IdleIsClean says that it is not.
StartAsync ==
    /\ host = "idle" /\ runs < MaxRuns
    /\ ~ isRunning
    /\ runs' = runs + 1

\* The socket is bound, listens and does not block.
OpenSocket == listening' = TRUE

\* Whoever is in the listen queue is reset.
CloseSocket ==
    /\ listening' = FALSE
    /\ conn' = [c \in Clients |-> IF conn[c] = "backlog" THEN "closed" ELSE conn[c]]
    /\ backlog' = <<>>

Open ==
    /\ StartAsync /\ OpenSocket
    /\ host' = "opened"
    /\ UNCHANGED <<kind, interrupted, dangling, isRunning, serve, current, conn, said, backlog, step, pool>>

\* It failed: a completed task is returned and awaited.
OpenFails ==
    /\ StartAsync
    /\ UNCHANGED <<kind, host, interrupted, dangling, isRunning, listening, serve, current, conn, said,
                   backlog, step, pool>>

SetRunning ==
    /\ host = "opened"
    /\ host' = "running"
    /\ isRunning' = TRUE
    /\ UNCHANGED <<kind, runs, interrupted, dangling, listening, serve, current, conn, said, backlog, step, pool>>

\* Task::StartAsync: the thread of _Serve.
Launch ==
    /\ host = "running"
    /\ host' = "await"
    /\ serve' = "loop"
    /\ UNCHANGED <<kind, runs, interrupted, dangling, isRunning, listening, current, conn, said, backlog,
                   step, pool>>

\* Variant of Await: the task is not joined.
AwaitNothing ==
    /\ host = "await"
    /\ host' = "idle"
    /\ UNCHANGED <<kind, runs, interrupted, dangling, isRunning, listening, serve, current, conn, said,
                   backlog, step, pool>>

\* Task::Await joins the thread.
Await ==
    /\ host = "await"
    /\ serve = "ended"
    /\ host' = "idle" /\ serve' = "none"
    /\ UNCHANGED <<kind, runs, interrupted, dangling, isRunning, listening, current, conn, said, backlog,
                   step, pool>>

\* _future.get() rethrows what ended _Serve, and nothing catches it.
AwaitThrows ==
    /\ host = "await"
    /\ serve = "threw"
    /\ host' = "crashed"
    /\ UNCHANGED <<kind, runs, interrupted, dangling, isRunning, listening, serve, current, conn, said,
                   backlog, step, pool>>

\* The last reference to the WebHost goes.  Its members are references too: the
\* server, with its pool and the callback into the host, lives on.
DestroyHost ==
    /\ host = "idle"
    /\ host' = "gone"
    /\ UNCHANGED <<kind, runs, interrupted, dangling, isRunning, listening, serve, current, conn,
                   said, backlog, step, pool>>

\* The container goes with the builder, and the server with the container:
\* ~ThreadPool waits for the tasks that run and drops those that do not.
DestroyServer ==
    /\ host = "gone" /\ started = {}
    /\ host' = "destroyed"
    /\ UNCHANGED <<kind, runs, interrupted, dangling, isRunning, listening, serve, current, conn,
                   said, backlog, step, pool>>

\* `this` of the callback and of the handler of ^C is the host.  When it is gone,
\* its memory may still be what it was, or not.
UseHost(user) ==
    IF host = "gone" THEN dangling' = dangling \cup {user} /\ host' \in {"gone", "crashed"}
                     ELSE UNCHANGED <<dangling, host>>

Run == Open \/ OpenFails \/ SetRunning \/ Launch \/ Await \/ AwaitThrows

------------------------------------------------------------------------------
(* Who handles a connection *)

\* The serving thread, in _Serve of the Basic server, or a worker.
Handling(c) ==
    \/ kind = "Basic" /\ serve = "handle" /\ c = current
    \/ kind = "Threaded" /\ c \in started

\* The connections whose handler waits in recv.
Reading == {c \in Clients : Handling(c) /\ step[c] = "parse" /\ said[c] = "nothing"}

\* SA_RESETHAND: the handler runs once.
Armed == host \notin {"crashed", "destroyed"} /\ ~ interrupted

Stop == isRunning' = FALSE

\* _SignalHandler calls Stop.  It runs in a thread of the kernel's choice, and a
\* recv it interrupts fails: SA_RESTART is not set.
Interrupt ==
    /\ Armed /\ UseHost("signal") /\ Stop
    /\ interrupted' = TRUE
    /\ \/ step' = step
       \/ \E c \in Reading : step' = [step EXCEPT ![c] = "done"]
    /\ UNCHANGED <<kind, runs, listening, serve, current, conn, said, backlog, pool>>

------------------------------------------------------------------------------
(* Clients *)

Connect(c) ==
    /\ host \notin {"crashed", "destroyed"} /\ listening
    /\ conn[c] = "none"
    /\ conn' = [conn EXCEPT ![c] = "backlog"]
    /\ backlog' = Append(backlog, c)
    /\ UNCHANGED <<kind, hostVars, isRunning, listening, serve, current, said, step, pool>>

Say(c) ==
    /\ conn[c] \in {"backlog", "open"}
    /\ said[c] = "nothing"
    /\ \E s \in {"request", "malformed", "throws"} : said' = [said EXCEPT ![c] = s]
    /\ UNCHANGED <<kind, hostVars, isRunning, listening, serve, current, conn, backlog, step, pool>>

------------------------------------------------------------------------------
(* _Serve *)

OpenConnections == {c \in Clients : conn[c] = "open"}

Loop ==
    /\ serve = "loop"
    /\ serve' = IF isRunning THEN "accept" ELSE "close"
    /\ UNCHANGED <<kind, hostVars, isRunning, listening, current, conn, said, backlog, step, pool>>

\* Variant of AcceptNone: the listen socket blocks.
AcceptBlocks ==
    /\ serve = "accept"
    /\ backlog # <<>> /\ Cardinality(OpenConnections) >= FileLimit
    /\ serve' = "loop"
    /\ UNCHANGED <<kind, hostVars, isRunning, listening, current, conn, said, backlog, step, pool>>

\* Variant of AcceptNone: the failure is taken for a connection.
AcceptNoneTaken ==
    /\ serve = "accept"
    /\ backlog = <<>> \/ Cardinality(OpenConnections) >= FileLimit
    /\ serve' = "check"
    /\ UNCHANGED <<kind, hostVars, isRunning, listening, current, conn, said, backlog, step, pool>>

\* accept fails: nobody waits, or no descriptor is left.
AcceptNone ==
    /\ serve = "accept"
    /\ backlog = <<>> \/ Cardinality(OpenConnections) >= FileLimit
    /\ serve' = "loop"
    /\ UNCHANGED <<kind, hostVars, isRunning, listening, current, conn, said, backlog, step, pool>>

Accept ==
    /\ serve = "accept"
    /\ backlog # <<>> /\ Cardinality(OpenConnections) < FileLimit
    /\ serve' = "check"
    /\ current' = Head(backlog)
    /\ conn' = [conn EXCEPT ![Head(backlog)] = "open"]
    /\ backlog' = Tail(backlog)
    /\ UNCHANGED <<kind, hostVars, isRunning, listening, said, step, pool>>

\* `&& _isRunning`: the accepted socket is left as it is.
CheckStopped ==
    /\ serve = "check"
    /\ ~ isRunning
    /\ serve' = "loop" /\ current' = None
    /\ UNCHANGED <<kind, hostVars, isRunning, listening, conn, said, backlog, step, pool>>

\* The Basic server handles the connection itself.
Handle ==
    /\ kind = "Basic"
    /\ serve = "check" /\ isRunning
    /\ serve' = "handle"
    /\ step' = [step EXCEPT ![current] = "parse"]
    /\ UNCHANGED <<kind, hostVars, isRunning, listening, current, conn, said, backlog, pool>>

HandleReturns ==
    /\ serve = "handle"
    /\ step[current] = "done"
    /\ serve' = "accept" /\ current' = None
    /\ UNCHANGED <<kind, hostVars, isRunning, listening, conn, said, backlog, step, pool>>

\* The Threaded server submits the connection to the pool.
Submit ==
    /\ kind = "Threaded"
    /\ serve = "check" /\ isRunning
    /\ Pool!Accept(current)
    /\ step' = [step EXCEPT ![current] = "parse"]
    /\ serve' = "accept" /\ current' = None
    /\ UNCHANGED <<kind, hostVars, isRunning, listening, conn, said, backlog>>

\* Variant of SubmitRefused: the socket is not closed.
SubmitRefusedKeep ==
    /\ kind = "Threaded"
    /\ serve = "check" /\ isRunning
    /\ pending \cup started # {}
    /\ serve' = "accept" /\ current' = None
    /\ UNCHANGED <<kind, hostVars, isRunning, listening, conn, said, backlog, step, pool>>

\* The worker whose turn it is has no room: "new connection refused".
SubmitRefused ==
    /\ kind = "Threaded"
    /\ serve = "check" /\ isRunning
    /\ pending \cup started # {}
    /\ conn' = [conn EXCEPT ![current] = "closed"]
    /\ serve' = "accept" /\ current' = None
    /\ UNCHANGED <<kind, hostVars, isRunning, listening, said, backlog, step, pool>>

Close ==
    /\ serve = "close" /\ CloseSocket
    /\ serve' = "ended"
    /\ UNCHANGED <<kind, hostVars, isRunning, current, said, step, pool>>

Serve ==
    \/ Loop \/ AcceptNone \/ Accept \/ CheckStopped \/ Handle \/ HandleReturns
    \/ Submit \/ SubmitRefused \/ Close

------------------------------------------------------------------------------
(* The handling of a connection: CreateHttpContext and the callback *)

WorkerStart(c) ==
    /\ Pool!Start(c)
    /\ UNCHANGED <<kind, hostVars, isRunning, listening, serve, current, conn, said, backlog, step>>

Parse(c) ==
    /\ Handling(c) /\ step[c] = "parse"
    /\ said[c] = "request"
    /\ step' = [step EXCEPT ![c] = "dispatch"]
    /\ UNCHANGED <<kind, hostVars, isRunning, listening, serve, current, conn, said, backlog, pool>>

\* CreateHttpContext returns an error, which is logged; the socket stays open.
ParseFails(c) ==
    /\ Handling(c) /\ step[c] = "parse"
    /\ said[c] = "malformed"
    /\ step' = [step EXCEPT ![c] = "done"]
    /\ UNCHANGED <<kind, hostVars, isRunning, listening, serve, current, conn, said, backlog, pool>>

\* The exception ends _Serve and is kept for Await; in a worker it ends the
\* process.
ParseThrows(c) ==
    /\ Handling(c) /\ step[c] = "parse"
    /\ said[c] = "throws"
    /\ IF kind = "Basic"
       THEN serve' = "threw" /\ UNCHANGED host
       ELSE host' = "crashed" /\ UNCHANGED serve
    /\ UNCHANGED <<kind, runs, interrupted, dangling, isRunning, listening, current, conn, said, backlog,
                   step, pool>>

\* Variant of Dispatch: the connection is kept for another request.
DispatchKeepAlive(c) ==
    /\ Handling(c) /\ step[c] = "dispatch"
    /\ step' = [step EXCEPT ![c] = "parse"]
    /\ UNCHANGED <<kind, hostVars, isRunning, listening, serve, current, conn, said, backlog, pool>>

\* _onConnectionCallback: Dispatch answers and destroys the context.
Dispatch(c) ==
    /\ Handling(c) /\ step[c] = "dispatch"
    /\ step' = [step EXCEPT ![c] = "done"]
    /\ conn' = [conn EXCEPT ![c] = "closed"]
    /\ UseHost("callback")
    /\ UNCHANGED <<kind, runs, interrupted, isRunning, listening, serve, current, said, backlog, pool>>

TaskReturns(c) ==
    /\ step[c] = "done"
    /\ Pool!Finish(c)
    /\ UNCHANGED <<kind, hostVars, isRunning, listening, serve, current, conn, said, backlog, step>>

HandleConnection(c) ==
    WorkerStart(c) \/ Parse(c) \/ ParseFails(c) \/ ParseThrows(c) \/ Dispatch(c) \/ TaskReturns(c)

------------------------------------------------------------------------------

\* Nothing of a process that has ended moves.
Process ==
    /\ host \notin {"crashed", "destroyed"}
    /\ \/ Run \/ DestroyHost \/ DestroyServer \/ Serve
       \/ \E c \in Clients : HandleConnection(c)

Next ==
    \/ Process
    \/ Interrupt
    \/ \E c \in Clients : Connect(c) \/ Say(c)

Spec == Init /\ [][Next]_vars

------------------------------------------------------------------------------
(* Properties *)

\* Types; _Serve has a connection exactly while it checks or handles one.
TypeOK ==
    /\ kind \in {"Basic", "Threaded"}
    /\ host \in {"idle", "opened", "running", "await", "gone", "destroyed", "crashed"}
    /\ dangling \subseteq {"callback", "signal"}
    /\ runs \in 0 .. MaxRuns
    /\ interrupted \in BOOLEAN /\ isRunning \in BOOLEAN /\ listening \in BOOLEAN
    /\ serve \in {"none", "loop", "accept", "check", "handle", "close", "ended", "threw"}
    /\ current \in IF serve \in {"check", "handle", "threw"} THEN Clients ELSE {None}
    /\ conn \in [Clients -> {"none", "backlog", "open", "closed"}]
    /\ said \in [Clients -> {"nothing", "request", "malformed", "throws"}]
    /\ backlog \in Seq(Clients)
    /\ step \in [Clients -> {"none", "parse", "dispatch", "done"}]

\* The connections that the code leaves open and forgets: those whose request
\* could not be read or did not parse, and the one accepted when Stop came.
Forgotten ==
    {c \in OpenConnections :
        /\ c # current /\ c \notin pending \cup started
        /\ \/ step[c] = "done" /\ (said[c] = "malformed" \/ interrupted)
           \/ step[c] = "none" /\ interrupted}

\* Every other open connection is in the hands of _Serve or of a task; in
\* particular none is lost when the pool refuses it or after it was answered.
NothingElseForgotten ==
    OpenConnections \subseteq Forgotten \cup pending \cup started \cup ({current} \ {None})

\* When Run has returned, the port is free, no thread serves and nobody waits to
\* be accepted, so that Run may be called again: StartAsync never finds the
\* server running.
IdleIsClean ==
    host \in {"idle", "gone", "destroyed"} =>
        ~ isRunning /\ ~ listening /\ serve = "none" /\ backlog = <<>>

\* Who outlives the host, which the callback and the handler of ^C refer to: the
\* tasks of a Threaded server that was interrupted, and a ^C that comes after the
\* end if none came before, in which case nobody was served.  A Basic server has
\* finished with its connections when Run returns.  Nothing else ends the process
\* but a request on which std::stoi throws.
HostOutlived ==
    /\ "callback" \in dangling => kind = "Threaded" /\ interrupted /\ "signal" \notin dangling
    /\ "signal" \in dangling => \A c \in Clients : step[c] = "none"
    /\ host = "crashed" =>
           \/ dangling # {}
           \/ \E c \in Clients : step[c] = "parse" /\ said[c] = "throws"

==============================================================================
