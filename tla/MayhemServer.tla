---------------------------- MODULE MayhemServer -----------------------------
(***************************************************************************)
(* minet/src/components/MayhemServer.cpp: one thread accepts connections   *)
(* and parses requests on epoll events, the thread pool runs the handlers. *)
(*                                                                         *)
(* The kernel is modelled as far as the server depends on it: the listen   *)
(* queue, the file descriptor table (accept returns the lowest free        *)
(* descriptor, so a closed one is reused at once), and the epoll set, in   *)
(* which the listen socket is level-triggered and the connections are      *)
(* edge-triggered.  Accepted sockets are blocking: _MonitorFd has          *)
(* MakeNonBlockingSocket commented out.                                    *)
(*                                                                         *)
(* A request arrives in pieces.  A well-formed one is complete with its    *)
(* second piece, and a further piece is data after the request; a          *)
(* malformed one has the error in its first, and so has one on which       *)
(* std::stoi throws.                                                       *)
(*                                                                         *)
(* The pool is used as module TaskPool specifies it.                       *)
(***************************************************************************)
EXTENDS Integers, Sequences, FiniteSets, FiniteSetsExt

CONSTANTS
    Clients,    \* each makes one connection
    Fds,        \* descriptors
    Tables,     \* sets of them: what the rest of the process may leave to accept
    MaxFd,      \* MAX_FD
    Threads,    \* _config->Threads
    Kinds,      \* the requests: "good", "malformed", "throws"
    MaxPieces,  \* bound: the pieces a client sends
    MaxRuns,    \* bound: the calls of StartAsync that succeed
    None

ASSUME ServerAssumption ==
    /\ Fds \subseteq Nat \ {0} /\ Tables \subseteq SUBSET Fds
    /\ MaxFd \in Nat /\ Threads \in Nat \ {0} /\ MaxPieces \in Nat /\ MaxRuns \in Nat \ {0}
    /\ Kinds \subseteq {"good", "malformed", "throws"}
    /\ None \notin Clients /\ None \notin Fds

Listen == 0     \* stands for _listenFd among the events

VARIABLES
    \* the clients and their connections
    request,    \* what kind of request each client sends
    conn,       \* "none", "backlog", "open", or "closed" by the server
    sent,       \* the pieces sent
    fin,        \* whether the client has closed its side
    \* the kernel
    available,  \* the descriptors accept may return
    backlog,    \* the listen queue
    file,       \* the connection of each descriptor
    monitored,  \* the connections' descriptors in the epoll set
    edge,       \* those with an event not reported yet
    \* the server
    isRunning,  \* _isRunning
    runs,       \* the calls of StartAsync so far
    abandoned,  \* history: the connections that were watched when a _Serve ended
    handles,    \* _handles: the client whose builder is in the slot
    stream,     \* SocketStream::_fd of the context of each client
    parsed,     \* the pieces its parser has consumed
    pc,         \* where _Serve is
    batch,      \* the events still to be handled
    current,    \* fd of the event being handled
    \* the pool, as TaskPool has it; the task of a context is its client
    pending, started, finished,
    step        \* where each task is

client == <<available, request, conn, sent, fin>>
life   == <<isRunning, runs, abandoned>>
pool   == <<pending, started, finished, step>>

Pool == INSTANCE TaskPool WITH Tasks <- Clients

vars   == <<client, backlog, file, monitored, edge, life, handles, stream,
            parsed, pc, batch, current, pool>>

\* What StartAsync leaves when it succeeds.
Init ==
    /\ request \in [Clients -> Kinds]
    /\ conn = [c \in Clients |-> "none"]
    /\ sent = [c \in Clients |-> 0]
    /\ fin = [c \in Clients |-> FALSE]
    /\ available \in Tables
    /\ backlog = <<>>
    /\ file = [f \in Fds |-> None]
    /\ monitored = {} /\ edge = {}
    /\ isRunning = TRUE /\ runs = 1 /\ abandoned = {}
    /\ handles = [f \in Fds |-> None]
    /\ stream = [c \in Clients |-> 0]
    /\ parsed = [c \in Clients |-> 0]
    /\ pc = "wait" /\ batch = {} /\ current = None
    /\ Pool!Init
    /\ step = [c \in Clients |-> "none"]

\* What the parser makes of the first pieces: the request is done, or wrong.
Complete(c, pieces) == request[c] = "good" /\ pieces >= 2
Erroneous(c, pieces) == request[c] = "malformed" /\ pieces >= 1

------------------------------------------------------------------------------
(* Clients *)

Connect(c) ==
    /\ conn[c] = "none"
    /\ pc \notin {"ended", "threw"}
    /\ conn' = [conn EXCEPT ![c] = "backlog"]
    /\ backlog' = Append(backlog, c)
    /\ UNCHANGED <<available, request, sent, fin, file, monitored, edge, life, handles, stream,
                   parsed, pc, batch, current, pool>>

\* Something arrives on the connection: an edge, if it is in the epoll set.
Arrival(c) == edge' = edge \cup {f \in monitored : file[f] = c}

Send(c) ==
    /\ conn[c] \in {"backlog", "open"} /\ ~ fin[c]
    /\ sent[c] < MaxPieces
    /\ sent' = [sent EXCEPT ![c] = @ + 1]
    /\ Arrival(c)
    /\ UNCHANGED <<available, request, conn, fin, backlog, file, monitored, life, handles, stream,
                   parsed, pc, batch, current, pool>>

Shutdown(c) ==
    /\ conn[c] \in {"backlog", "open"} /\ ~ fin[c]
    /\ fin' = [fin EXCEPT ![c] = TRUE]
    /\ Arrival(c)
    /\ UNCHANGED <<available, request, conn, sent, backlog, file, monitored, life, handles, stream,
                   parsed, pc, batch, current, pool>>

------------------------------------------------------------------------------
(* The kernel side of close *)

\* close(fd): the descriptor is free and out of the epoll set.
CloseSocket(fd) ==
    /\ conn' = [c \in Clients |-> IF c = file[fd] THEN "closed" ELSE conn[c]]
    /\ file' = [file EXCEPT ![fd] = None]
    /\ monitored' = monitored \ {fd}
    /\ edge' = edge \ {fd}

------------------------------------------------------------------------------
(* _Serve *)

Stop ==
    /\ isRunning
    /\ isRunning' = FALSE
    /\ UNCHANGED <<runs, abandoned, client, backlog, file, monitored, edge, handles, stream,
                   parsed, pc, batch, current, pool>>

\* epoll::Wait.  A timeout goes round the loop and changes nothing.
Wait ==
    /\ pc = "wait" /\ isRunning
    /\ batch' = edge \cup (IF backlog = <<>> THEN {} ELSE {Listen})
    /\ batch' # {}
    /\ edge' = {}
    /\ pc' = "events"
    /\ UNCHANGED <<client, backlog, file, monitored, life, handles, stream,
                   parsed, current, pool>>

\* It returned -1 (a signal): Stop is called.
WaitFails ==
    /\ pc = "wait" /\ isRunning
    /\ isRunning' = FALSE
    /\ UNCHANGED <<runs, abandoned, client, backlog, file, monitored, edge, handles, stream,
                   parsed, pc, batch, current, pool>>

\* _CloseSocket: connections in the listen queue are reset.
CloseListen ==
    /\ conn' = [c \in Clients |-> IF conn[c] = "backlog" THEN "closed" ELSE conn[c]]
    /\ backlog' = <<>>

CloseEpoll == monitored' = {} /\ edge' = {}

\* The connections are not closed: they are in nobody's hands from now on.
EndServe ==
    /\ pc = "wait" /\ ~ isRunning
    /\ pc' = "ended"
    /\ CloseListen /\ CloseEpoll
    /\ abandoned' = abandoned \cup {file[fd] : fd \in monitored}
    /\ UNCHANGED <<available, request, sent, fin, file, isRunning, runs, handles, stream, parsed,
                   batch, current, pool>>

\* WebHost::Run once more.  The listen socket and the epoll set are new; the
\* table of builders and the pool are those of the last time.
StartAsync ==
    /\ pc = "ended"
    /\ runs < MaxRuns /\ runs' = runs + 1
    /\ pc' = "wait" /\ isRunning' = TRUE
    /\ UNCHANGED <<abandoned, client, backlog, file, monitored, edge, handles, stream, parsed,
                   batch, current, pool>>

NextEvent ==
    /\ pc = "events"
    /\ \/ /\ batch = {}
          /\ pc' = "wait"
          /\ UNCHANGED <<batch, current>>
       \/ /\ Listen \in batch
          /\ pc' = "accept"
          /\ batch' = batch \ {Listen}
          /\ UNCHANGED current
       \/ \E fd \in batch \ {Listen} :
             /\ pc' = "parse"
             /\ batch' = batch \ {fd}
             /\ current' = fd
    /\ UNCHANGED <<client, backlog, file, monitored, edge, life, handles, stream,
                   parsed, pool>>

\* Adding a descriptor that is readable already counts as an edge.
Monitor(fd, c) ==
    /\ monitored' = monitored \cup {fd}
    /\ edge' = IF sent[c] > 0 \/ fin[c] THEN edge \cup {fd} ELSE edge

FreeFds == {f \in Fds \cap available : file[f] = None}

\* Variant of AcceptNone: accept is tried again when no descriptor is free.
AcceptRetry ==
    /\ pc = "accept"
    /\ backlog = <<>>
    /\ pc' = "events"
    /\ UNCHANGED <<client, backlog, file, monitored, edge, life, handles, stream,
                   parsed, batch, current, pool>>

\* accept found nothing, or no descriptor is free.
AcceptNone ==
    /\ pc = "accept"
    /\ backlog = <<>> \/ FreeFds = {}
    /\ pc' = "events"
    /\ UNCHANGED <<client, backlog, file, monitored, edge, life, handles, stream,
                   parsed, batch, current, pool>>

\* The descriptor is too large: closed, and the loop is left.
AcceptTooMany ==
    /\ pc = "accept"
    /\ backlog # <<>> /\ FreeFds # {} /\ Min(FreeFds) >= MaxFd
    /\ conn' = [conn EXCEPT ![Head(backlog)] = "closed"]
    /\ backlog' = Tail(backlog)
    /\ pc' = "events"
    /\ UNCHANGED <<available, request, sent, fin, file, monitored, edge, life, handles, stream,
                   parsed, batch, current, pool>>

\* Variant of Accept: the limit is off by one.
AcceptPastLimit ==
    /\ pc = "accept"
    /\ backlog # <<>> /\ FreeFds # {} /\ Min(FreeFds) <= MaxFd
    /\ LET c == Head(backlog) fd == Min(FreeFds) IN
          /\ conn' = [conn EXCEPT ![c] = "open"]
          /\ file' = [file EXCEPT ![fd] = c]
          /\ Monitor(fd, c)
          /\ handles' = [handles EXCEPT ![fd] = c]
          /\ stream' = [stream EXCEPT ![c] = fd]
    /\ backlog' = Tail(backlog)
    /\ UNCHANGED <<available, request, sent, fin, life, parsed, pc, batch, current, pool>>

\* Variant of Accept: a builder that is in the slot already is kept.
AcceptKeepBuilder ==
    /\ pc = "accept"
    /\ backlog # <<>> /\ FreeFds # {} /\ Min(FreeFds) < MaxFd
    /\ LET c == Head(backlog) fd == Min(FreeFds) IN
          /\ conn' = [conn EXCEPT ![c] = "open"]
          /\ file' = [file EXCEPT ![fd] = c]
          /\ Monitor(fd, c)
          /\ handles' = [handles EXCEPT ![fd] = IF @ = None THEN c ELSE @]
          /\ stream' = [stream EXCEPT ![c] = fd]
    /\ backlog' = Tail(backlog)
    /\ UNCHANGED <<available, request, sent, fin, life, parsed, pc, batch, current, pool>>

\* A new builder takes the slot.
Accept ==
    /\ pc = "accept"
    /\ backlog # <<>> /\ FreeFds # {} /\ Min(FreeFds) < MaxFd
    /\ LET c == Head(backlog) fd == Min(FreeFds) IN
          /\ conn' = [conn EXCEPT ![c] = "open"]
          /\ file' = [file EXCEPT ![fd] = c]
          /\ Monitor(fd, c)
          /\ handles' = [handles EXCEPT ![fd] = c]
          /\ stream' = [stream EXCEPT ![c] = fd]
    /\ backlog' = Tail(backlog)
    /\ UNCHANGED <<available, request, sent, fin, life, parsed, pc, batch, current, pool>>

\* _MonitorFd failed: the socket is closed, but the slot is set all the same.
AcceptUnmonitored ==
    /\ pc = "accept"
    /\ backlog # <<>> /\ FreeFds # {} /\ Min(FreeFds) < MaxFd
    /\ LET c == Head(backlog) fd == Min(FreeFds) IN
          /\ conn' = [conn EXCEPT ![c] = "closed"]
          /\ handles' = [handles EXCEPT ![fd] = c]
          /\ stream' = [stream EXCEPT ![c] = fd]
    /\ backlog' = Tail(backlog)
    /\ UNCHANGED <<available, request, sent, fin, file, monitored, edge, life, parsed, pc, batch,
                   current, pool>>

\* handle->Parse(), as long as there is something to read: recv blocks when
\* there is not.  The parser of a malformed request returns a positive state,
\* which Parse takes for "go on".
ParsePiece ==
    /\ pc = "parse"
    /\ LET c == handles[current] IN
          /\ parsed[c] < sent[c]
          /\ request[c] # "throws"
          /\ parsed' = [parsed EXCEPT ![c] = @ + 1]
          /\ pc' = IF Complete(c, parsed'[c]) THEN "parsed" ELSE "parse"
    /\ UNCHANGED <<client, backlog, file, monitored, edge, life, handles, stream,
                   batch, current, pool>>

\* std::stoi throws, which ends _Serve where it is; Await rethrows in the host,
\* where nothing catches it.
ParseThrows ==
    /\ pc = "parse"
    /\ LET c == handles[current] IN
          /\ parsed[c] < sent[c]
          /\ request[c] = "throws" /\ parsed[c] = 0
    /\ pc' = "threw"
    /\ UNCHANGED <<client, backlog, file, monitored, edge, life, handles, stream, parsed,
                   batch, current, pool>>

\* _Serve closes the connection it is at, and drops its builder.
DropCurrent ==
    /\ CloseSocket(current)
    /\ handles' = [handles EXCEPT ![current] = None]
    /\ pc' = "events" /\ current' = None
    /\ UNCHANGED <<available, request, sent, fin, backlog, stream, parsed, batch, pool>>

\* Parse has read all there is, and recv waits for more.
InRecv == pc = "parse" /\ parsed[handles[current]] = sent[handles[current]]

\* recv returned 0: Parse returns EndOfFile.
ParseFails ==
    /\ InRecv /\ fin[handles[current]]
    /\ DropCurrent
    /\ UNCHANGED life

\* ^C is taken by the serving thread while it waits in recv, which fails then:
\* SA_RESTART is not set.
StopInParse ==
    /\ InRecv
    /\ isRunning /\ isRunning' = FALSE
    /\ UNCHANGED <<runs, abandoned>>
    /\ DropCurrent

\* Variant of Unmonitor: the descriptor stays in the epoll set.
UnmonitorNothing ==
    /\ pc = "parsed"
    /\ pc' = "submit"
    /\ UNCHANGED <<client, backlog, file, monitored, edge, life, handles, stream, parsed,
                   batch, current, pool>>

\* Parse returned 1.
Unmonitor ==
    /\ pc = "parsed"
    /\ monitored' = monitored \ {current}
    /\ edge' = edge \ {current}
    /\ pc' = "submit"
    /\ UNCHANGED <<client, backlog, file, life, handles, stream, parsed, batch, current, pool>>

Submit ==
    /\ pc = "submit"
    /\ Pool!Accept(handles[current])
    /\ step' = [step EXCEPT ![handles[current]] = "respond"]
    /\ pc' = "events" /\ current' = None
    /\ UNCHANGED <<client, backlog, file, monitored, edge, life, handles, stream, parsed,
                   batch>>

\* Variant of SubmitRefused: the socket of the refused connection is left open.
SubmitRefusedKeep ==
    /\ pc = "submit"
    /\ pending \cup started # {}
    /\ handles' = [handles EXCEPT ![current] = None]
    /\ pc' = "events" /\ current' = None
    /\ UNCHANGED <<client, backlog, file, monitored, edge, life, stream, parsed, batch, pool>>

\* The worker whose turn it is has no room: "new connection refused".
SubmitRefused ==
    /\ pc = "submit"
    /\ pending \cup started # {}
    /\ DropCurrent
    /\ UNCHANGED life

Serve ==
    \/ Wait \/ EndServe \/ NextEvent \/ AcceptNone \/ AcceptTooMany \/ Accept
    \/ AcceptUnmonitored \/ ParsePiece \/ ParseThrows \/ ParseFails
    \/ Unmonitor \/ Submit \/ SubmitRefused

------------------------------------------------------------------------------
(* A task: Dispatch writes the response, then DestroyHttpContext closes the *)
(* body streams of the request and of the response, which are the same.     *)

WorkerStart(c) ==
    /\ Pool!Start(c)
    /\ UNCHANGED <<client, backlog, file, monitored, edge, life, handles, stream, parsed,
                   pc, batch, current, step>>

Respond(c) ==
    /\ c \in started /\ step[c] = "respond"
    /\ step' = [step EXCEPT ![c] = "close"]
    /\ UNCHANGED <<client, backlog, file, monitored, edge, life, handles, stream, parsed,
                   pc, batch, current, pending, started, finished>>

\* Variant of CloseRequest: the stream keeps its descriptor.
CloseRequestKeep(c) ==
    /\ c \in started /\ step[c] = "close"
    /\ CloseSocket(stream[c])
    /\ step' = [step EXCEPT ![c] = "closeAgain"]
    /\ UNCHANGED <<available, request, sent, fin, backlog, life, handles, stream, parsed, pc, batch,
                   current, pending, started, finished>>

\* SocketStream::Close on the request's stream; the descriptor is set to 0.
CloseRequest(c) ==
    /\ c \in started /\ step[c] = "close"
    /\ CloseSocket(stream[c])
    /\ stream' = [stream EXCEPT ![c] = 0]
    /\ step' = [step EXCEPT ![c] = "closeAgain"]
    /\ UNCHANGED <<available, request, sent, fin, backlog, life, handles, parsed, pc, batch, current,
                   pending, started, finished>>

\* Close on the response's stream: closes what the descriptor is now.
CloseResponse(c) ==
    /\ c \in started /\ step[c] = "closeAgain"
    /\ IF stream[c] > 0 THEN CloseSocket(stream[c]) ELSE UNCHANGED <<conn, file, monitored, edge>>
    /\ stream' = [stream EXCEPT ![c] = 0]
    /\ step' = [step EXCEPT ![c] = "return"]
    /\ UNCHANGED <<available, request, sent, fin, backlog, life, handles, parsed, pc, batch, current,
                   pending, started, finished>>

TaskReturns(c) ==
    /\ step[c] = "return"
    /\ Pool!Finish(c)
    /\ step' = [step EXCEPT ![c] = "none"]
    /\ UNCHANGED <<client, backlog, file, monitored, edge, life, handles, stream, parsed,
                   pc, batch, current>>

Task(c) == WorkerStart(c) \/ Respond(c) \/ CloseRequest(c) \/ CloseResponse(c) \/ TaskReturns(c)

Next ==
    \/ \E c \in Clients : Connect(c) \/ Send(c) \/ Shutdown(c) \/ Task(c)
    \/ Stop \/ StopInParse \/ WaitFails \/ StartAsync
    \/ Serve

Spec == Init /\ [][Next]_vars

------------------------------------------------------------------------------
(* Properties *)

Dispatched == pending \cup started

\* Types; _handles is used within its bounds, and a descriptor for one connection
\* at a time.
TypeOK ==
    /\ request \in [Clients -> Kinds] /\ fin \in [Clients -> BOOLEAN]
    /\ conn \in [Clients -> {"none", "backlog", "open", "closed"}]
    /\ sent \in [Clients -> 0 .. MaxPieces]
    /\ backlog \in Seq(Clients)
    /\ file \in [Fds -> Clients \cup {None}]
    /\ handles \in [Fds -> Clients \cup {None}]
    /\ \A f \in Fds : f >= MaxFd => handles[f] = None
    /\ stream \in [Clients -> Fds \cup {0}]
    /\ monitored \subseteq Fds /\ edge \subseteq monitored /\ batch \subseteq Fds \cup {Listen}
    /\ isRunning \in BOOLEAN /\ runs \in 1 .. MaxRuns /\ abandoned \subseteq Clients
    /\ \A c \in Clients : parsed[c] <= sent[c]
    /\ pc \in {"wait", "events", "accept", "parse", "parsed", "submit", "ended", "threw"}
    /\ current \in Fds \cup {None}
    /\ \A c \in Clients :
          /\ Cardinality({f \in Fds : file[f] = c}) = IF conn[c] = "open" THEN 1 ELSE 0
          /\ conn[c] = "backlog" <=> \E i \in DOMAIN backlog : backlog[i] = c

\* The events _Serve handles or will be given are for connections whose builder
\* is in the slot of the descriptor: neither an empty slot, which
\* MINET_ASSERT(handle) forbids, nor the builder of the connection that had the
\* descriptor before.
EventHasItsBuilder ==
    \A fd \in (batch \ {Listen}) \cup edge \cup ({current} \ {None}) :
        file[fd] # None /\ handles[fd] = file[fd] /\ stream[file[fd]] = fd

\* A worker writes to and closes its own connection, never the one that was
\* given the same descriptor after it.
WorkerOwnsStream ==
    \A c \in Dispatched : stream[c] > 0 => file[stream[c]] = c

\* _Serve has no event for a connection that was given to the pool: it would
\* parse on while the worker answers and closes it.
DispatchedIsSilent ==
    \A fd \in (batch \ {Listen}) \cup edge \cup ({current} \ {None}) :
        file[fd] \notin Dispatched \cup finished

\* Each open connection is watched by epoll, handled by _Serve, in the hands of a
\* task that will close it, or one that an earlier _Serve left behind when it
\* ended; those are not given to anybody any more.
NoDescriptorLost ==
    \A fd \in Fds : file[fd] # None =>
        \/ fd \in monitored \cup {current} \/ file[fd] \in Dispatched
        \/ file[fd] \in abandoned /\ fd \notin monitored /\ current # fd

\* An error in a request ends its parsing: no more of it is read.
\* (Parser.h: Feed returns a negative value when an error occurred.)
ErrorEndsParsing ==
    [][\A c \in Clients : Erroneous(c, parsed[c]) => parsed'[c] = parsed[c]]_vars

\* Fairness: the serving thread and the workers run; a client closes its side
\* in the end, if it is among the `polite`.
Fairness(polite) ==
    /\ WF_vars(Serve)
    /\ \A c \in Clients : WF_vars(Task(c))
    /\ \A c \in polite : WF_vars(Shutdown(c))

\* No descriptor is left: those that a _Serve left behind are never closed.
Exhausted == \A fd \in available : file[fd] \in abandoned

\* A connection whose request has been sent is answered or refused, and closed,
\* unless the server is stopped or was stopped while it had the connection, ends
\* with the exception of another request, or has left all its descriptors behind.
RequestServed ==
    \A c \in Clients :
        conn[c] \in {"backlog", "open"} /\ sent[c] >= 2 ~>
            \/ conn[c] = "closed" \/ c \in abandoned
            \/ ~ isRunning \/ pc = "threw" \/ Exhausted

\* After Stop, _Serve returns.
StopEndsServe == ~ isRunning ~> pc \in {"ended", "threw"}

\* Parse returns, with 0 if the request is not complete yet (HttpContext.h).
ParseReturns == pc = "parse" ~> pc # "parse"

==============================================================================
