-------------------------- MODULE MayhemServerProofs --------------------------
(***************************************************************************)
(* Theorems about MayhemServer, for every set of clients and descriptors   *)
(* and every value of the limits: the invariant that ties a descriptor to  *)
(* its connection, its builder, the event loop and the pool, and what the  *)
(* runs check that follows from it.                                        *)
(***************************************************************************)
EXTENDS MayhemServer, FiniteSetTheorems, WellFoundedInduction, TLAPS

------------------------------------------------------------------------------
(* The inductive invariant *)

Steps == {"none", "respond", "close", "closeAgain", "return"}

Types ==
    /\ request \in [Clients -> Kinds] /\ fin \in [Clients -> BOOLEAN]
    /\ conn \in [Clients -> {"none", "backlog", "open", "closed"}]
    /\ sent \in [Clients -> 0 .. MaxPieces] /\ parsed \in [Clients -> Nat]
    /\ backlog \in Seq(Clients)
    /\ file \in [Fds -> Clients \cup {None}] /\ handles \in [Fds -> Clients \cup {None}]
    /\ stream \in [Clients -> Fds \cup {0}]
    /\ monitored \subseteq Fds /\ edge \subseteq monitored /\ batch \subseteq monitored \cup {Listen}
    /\ isRunning \in BOOLEAN /\ runs \in 1 .. MaxRuns /\ abandoned \subseteq Clients
    /\ pc \in {"wait", "events", "accept", "parse", "parsed", "submit", "ended", "threw"}
    /\ current \in Fds \cup {None}
    /\ pending \subseteq Clients /\ started \subseteq Clients /\ finished \subseteq Clients
    /\ step \in [Clients -> Steps]

Limits ==
    /\ \A f \in Fds : f >= MaxFd => handles[f] = None
    /\ \A c \in Clients : parsed[c] <= sent[c]

\* An open connection has one descriptor, the others have none.
Opens ==
    /\ \A f \in Fds : file[f] # None => conn[file[f]] = "open"
    /\ \A c \in Clients : conn[c] = "open" => \E f \in Fds : file[f] = c
    /\ \A f, g \in Fds : file[f] # None /\ file[f] = file[g] => f = g

\* The listen queue has each waiting connection once.
Waits ==
    /\ \A c \in Clients : conn[c] = "backlog" <=> \E i \in 1 .. Len(backlog) : backlog[i] = c
    /\ \A i, j \in 1 .. Len(backlog) : backlog[i] = backlog[j] => i = j

\* What _Serve has in hand at each point of its loop.
Loop ==
    /\ current # None <=> pc \in {"parse", "parsed", "submit", "threw"}
    /\ pc \in {"parse", "parsed", "threw"} => current \in monitored
    /\ pc = "submit" => current \notin monitored
    /\ pc \in {"wait", "ended"} => batch = {}
    /\ current # None => current \notin batch

\* A descriptor that _Serve watches or handles is the one of the connection
\* whose builder is in its slot, and that connection is not the pool's.
Serving(fd) ==
    /\ file[fd] # None /\ handles[fd] = file[fd] /\ stream[file[fd]] = fd
    /\ file[fd] \notin pending \cup started \cup finished

Watched == \A fd \in monitored \cup ({current} \ {None}) : Serving(fd)

\* A task has its connection open until it closes it, and its descriptor is 0
\* from then on.
TaskOK(c) ==
    /\ c \in pending => step[c] = "respond" /\ c \notin started \cup finished
    /\ c \in started => step[c] # "none" /\ c \notin finished
    /\ c \notin pending \cup started => step[c] = "none"
    /\ step[c] \in {"respond", "close"} => stream[c] \in Fds /\ file[stream[c]] = c
    /\ step[c] \in {"closeAgain", "return"} => stream[c] = 0 /\ conn[c] = "closed"
    /\ c \in finished => conn[c] = "closed"

Tasks == \A c \in Clients : TaskOK(c)

NotLost ==
    \A fd \in Fds : file[fd] # None =>
        \/ fd \in monitored \cup {current}
        \/ file[fd] \in pending \cup started \cup abandoned

IInv == Types /\ Limits /\ Opens /\ Waits /\ Loop /\ Watched /\ Tasks /\ NotLost

------------------------------------------------------------------------------
(* Descriptors *)

\* A set of naturals that is not empty has a smallest element.
LEMMA Least ==
    ASSUME NEW S \in SUBSET Nat, S # {}
    PROVE  Min(S) \in S
<1> DEFINE R == {ss \in Nat \X Nat : ss[1] < ss[2]}
<1>1. IsWellFoundedOn(R, Nat)
  BY NatLessThanWellFounded, Zenon DEF OpToRel
<1>2. PICK x \in S : \A y \in S : ~ (<<y, x>> \in R)
  <2> HIDE DEF R
  <2> QED BY <1>1, WFMin
<1>3. ASSUME NEW y \in S
      PROVE  x <= y
  <2>1. x \in Nat /\ y \in Nat
    OBVIOUS
  <2>2. y < x => <<y, x>> \in R
    BY <2>1
  <2> HIDE DEF R
  <2> QED BY <1>2, <2>1, <2>2
<1> QED BY <1>3, Zenon DEF Min

\* The descriptor that accept returns is free: no event is for it, and no task
\* has it.
LEMMA FreeDescriptor ==
    ASSUME IInv, FreeFds # {}
    PROVE  LET fd == Min(FreeFds) IN
              /\ fd \in Fds /\ file[fd] = None
              /\ fd \notin monitored \cup {current}
              /\ \A c \in pending \cup started : stream[c] # fd
<1> DEFINE fd == Min(FreeFds)
<1>1. FreeFds \in SUBSET Nat /\ FreeFds \subseteq Fds
  BY ServerAssumption DEF FreeFds
<1>2. fd \in FreeFds
  BY <1>1, Least
<1> HIDE DEF fd
<1>3. fd \in Fds /\ file[fd] = None
  BY <1>2 DEF FreeFds
<1>4. fd \notin monitored \cup {current}
  BY <1>3, ServerAssumption DEF IInv, Watched, Serving
<1>5. ASSUME NEW c \in pending \cup started
      PROVE  stream[c] # fd
  <2>1. c \in Clients /\ TaskOK(c) /\ step[c] \in Steps
    BY DEF IInv, Types, Tasks
  <2>2. stream[c] = 0 \/ file[stream[c]] = c
    BY <2>1 DEF TaskOK, Steps
  <2> QED BY <1>3, <2>1, <2>2, ServerAssumption
<1> QED BY <1>3, <1>4, <1>5 DEF fd

\* The connection at the head of the listen queue: not open, not the pool's.
LEMMA HeadWaits ==
    ASSUME IInv, backlog # <<>>
    PROVE  LET c == Head(backlog) IN
              /\ c \in Clients /\ conn[c] = "backlog"
              /\ \A f \in Fds : file[f] # c
              /\ c \notin pending \cup started \cup finished
<1> DEFINE c == Head(backlog)
<1>1. backlog \in Seq(Clients) /\ Len(backlog) \in Nat \ {0} /\ c = backlog[1]
  BY DEF IInv, Types
<1>2. c \in Clients /\ conn[c] = "backlog"
  BY <1>1 DEF IInv, Waits
<1> HIDE DEF c
<1>3. \A f \in Fds : file[f] # c
  BY <1>2, ServerAssumption DEF IInv, Opens
<1>4. TaskOK(c) /\ step[c] \in Steps
  BY <1>2 DEF IInv, Tasks, Types
<1>5. c \notin pending \cup started \cup finished
  <2>1. c \in pending \cup started => step[c] # "none"
    BY <1>4 DEF TaskOK
  <2>2. step[c] \notin {"closeAgain", "return"}
    BY <1>2, <1>4 DEF TaskOK
  <2>3. step[c] \notin {"respond", "close"}
    BY <1>3, <1>4 DEF TaskOK
  <2>4. c \notin finished
    BY <1>2, <1>4 DEF TaskOK
  <2> QED BY <1>4, <2>1, <2>2, <2>3, <2>4 DEF Steps
<1> QED BY <1>2, <1>3, <1>5 DEF c

\* Without its head, the listen queue has the other waiting connections.
LEMMA Dequeue ==
    ASSUME Types, Waits, backlog # <<>>, backlog' = Tail(backlog),
           NEW x \in {"open", "closed"},
           conn' = [conn EXCEPT ![Head(backlog)] = x]
    PROVE  Waits' /\ backlog' \in Seq(Clients)
<1> DEFINE n == Len(backlog)
<1>1. /\ backlog \in Seq(Clients) /\ n \in Nat \ {0} /\ Head(backlog) = backlog[1]
      /\ backlog[1] \in Clients
  BY DEF Types
<1>2. /\ backlog' \in Seq(Clients) /\ Len(backlog') = n - 1
      /\ \A i \in 1 .. n - 1 : backlog'[i] = backlog[i + 1]
  BY <1>1
<1> HIDE DEF n
<1>3. \A c \in Clients : conn'[c] = IF c = backlog[1] THEN x ELSE conn[c]
  BY <1>1 DEF Types
<1>4. \A i \in 1 .. n : (\E j \in 1 .. n : j = i) /\ (backlog[i] = backlog[1] => i = 1)
  BY <1>1 DEF Waits, n
<1>5. ASSUME NEW c \in Clients
      PROVE  conn'[c] = "backlog" <=> \E i \in 1 .. n - 1 : backlog'[i] = c
  <2>1. CASE c = backlog[1]
    <3>1. \A i \in 1 .. n - 1 : i + 1 \in 1 .. n /\ i + 1 # 1
      BY <1>1
    <3>2. \A i \in 1 .. n - 1 : backlog'[i] # c
      BY <1>2, <1>4, <2>1, <3>1
    <3> QED BY <1>3, <2>1, <3>2
  <2>2. CASE c # backlog[1]
    <3>1. conn'[c] = "backlog" <=> \E i \in 1 .. n : backlog[i] = c
      BY <1>3, <2>2 DEF Waits, n
    <3>2. ASSUME NEW i \in 1 .. n, backlog[i] = c
          PROVE  \E j \in 1 .. n - 1 : backlog'[j] = c
      <4>1. i - 1 \in 1 .. n - 1 /\ i - 1 + 1 = i
        BY <1>1, <2>2, <3>2
      <4> QED BY <1>2, <3>2, <4>1
    <3>3. ASSUME NEW i \in 1 .. n - 1, backlog'[i] = c
          PROVE  \E j \in 1 .. n : backlog[j] = c
      <4>1. i + 1 \in 1 .. n
        BY <1>1
      <4> QED BY <1>2, <3>3, <4>1
    <3> QED BY <3>1, <3>2, <3>3
  <2> QED BY <2>1, <2>2
<1>6. ASSUME NEW i \in 1 .. n - 1, NEW j \in 1 .. n - 1, backlog'[i] = backlog'[j]
      PROVE  i = j
  <2>1. i + 1 \in 1 .. n /\ j + 1 \in 1 .. n /\ backlog[i + 1] = backlog[j + 1]
    BY <1>1, <1>2, <1>6
  <2>2. i + 1 = j + 1
    BY <2>1 DEF Waits, n
  <2> QED BY <2>2
<1> QED BY <1>2, <1>5, <1>6 DEF Waits

\* A connection is closed: its descriptor is free.
LEMMA Closing ==
    ASSUME Types, Opens, Waits, NEW fd \in Fds, file[fd] # None, CloseSocket(fd), backlog' = backlog
    PROVE  /\ Opens' /\ Waits'
           /\ conn' \in [Clients -> {"none", "backlog", "open", "closed"}]
           /\ file' \in [Fds -> Clients \cup {None}]
           /\ \A c \in Clients : conn'[c] = IF c = file[fd] THEN "closed" ELSE conn[c]
           /\ \A g \in Fds : file'[g] = IF g = fd THEN None ELSE file[g]
<1>1. \A c \in Clients : conn'[c] = IF c = file[fd] THEN "closed" ELSE conn[c]
  BY DEF CloseSocket
<1>2. \A g \in Fds : file'[g] = IF g = fd THEN None ELSE file[g]
  BY DEF CloseSocket, Types
<1>3. /\ conn' \in [Clients -> {"none", "backlog", "open", "closed"}]
      /\ file' \in [Fds -> Clients \cup {None}]
  BY DEF CloseSocket, Types
<1>4. file[fd] \in Clients /\ conn[file[fd]] = "open"
  BY DEF Types, Opens
<1>5. Opens'
  <2>1. \A f \in Fds : file'[f] # None => conn'[file'[f]] = "open"
    BY <1>1, <1>2 DEF Types, Opens
  <2>2. \A c \in Clients : conn'[c] = "open" => \E f \in Fds : file'[f] = c
    BY <1>1, <1>2 DEF Opens
  <2>3. \A f, g \in Fds : file'[f] # None /\ file'[f] = file'[g] => f = g
    BY <1>2 DEF Opens
  <2> QED BY <2>1, <2>2, <2>3 DEF Opens
<1>6. Waits'
  BY <1>1, <1>4 DEF Waits
<1> QED BY <1>1, <1>2, <1>3, <1>5, <1>6

------------------------------------------------------------------------------
(* The invariant holds at first *)

\* Nobody is connected, and the server has not been started.
LEMMA InitInvariant == Init => IInv
<1> SUFFICES ASSUME Init PROVE IInv
  OBVIOUS
<1> USE ServerAssumption DEF Init, Pool!Init, Listen
<1>1. Types
  BY DEF Types, Steps
<1>2. Limits /\ Opens
  BY DEF Limits, Opens
<1>3. Waits
  BY DEF Waits
<1>4. Loop /\ Watched
  BY DEF Loop, Watched
<1>5. Tasks /\ NotLost
  BY DEF Tasks, TaskOK, NotLost
<1> QED BY <1>1, <1>2, <1>3, <1>4, <1>5 DEF IInv

------------------------------------------------------------------------------
(* The clients *)

\* A client connects, and waits in the backlog.
LEMMA ConnectStep ==
    ASSUME IInv, NEW c \in Clients, Connect(c)
    PROVE  IInv'
<1> USE DEF IInv
<1>1. /\ conn[c] = "none"
      /\ conn' = [conn EXCEPT ![c] = "backlog"]
      /\ backlog' = Append(backlog, c)
      /\ UNCHANGED <<request, sent, fin, file, monitored, edge, life, handles, stream,
                     parsed, pc, batch, current, pool>>
  BY DEF Connect
<1> USE DEF life, pool
<1>2. Types'
  <2>1. conn' \in [Clients -> {"none", "backlog", "open", "closed"}] /\ backlog' \in Seq(Clients)
    BY <1>1 DEF Types
  <2> QED BY <1>1, <2>1 DEF Types
<1>3. Limits'
  BY <1>1 DEF Limits
<1>4. /\ conn'[c] = "backlog"
      /\ \A d \in Clients : d # c => conn'[d] = conn[d]
  BY <1>1 DEF Types
<1>5. Opens'
  BY <1>1, <1>4 DEF Opens, Types
<1>6. Waits'
  <2>1. /\ Len(backlog) \in Nat /\ Len(backlog') = Len(backlog) + 1
        /\ backlog'[Len(backlog) + 1] = c
        /\ \A i \in 1 .. Len(backlog) : backlog'[i] = backlog[i] /\ backlog[i] \in Clients
    BY <1>1 DEF Types
  <2>2. \A i \in 1 .. Len(backlog) + 1 : i \in 1 .. Len(backlog) \/ i = Len(backlog) + 1
    BY <2>1
  <2>3. \A i \in 1 .. Len(backlog) : backlog[i] # c /\ i \in 1 .. Len(backlog) + 1
    BY <1>1, <2>1 DEF Waits
  <2>4. Len(backlog) + 1 \in 1 .. Len(backlog) + 1
    BY <2>1
  <2>5. \A d \in Clients : conn'[d] = "backlog" <=> \E i \in 1 .. Len(backlog) + 1 : backlog'[i] = d
    BY <1>4, <2>1, <2>2, <2>3, <2>4 DEF Waits
  <2>6. \A i, j \in 1 .. Len(backlog) + 1 : backlog'[i] = backlog'[j] => i = j
    BY <2>1, <2>2, <2>3 DEF Waits
  <2> QED BY <2>1, <2>5, <2>6 DEF Waits
<1>7. Loop'
  BY <1>1 DEF Loop
<1>8. Watched'
  BY <1>1 DEF Watched, Serving
<1>9. Tasks'
  BY <1>1, <1>4 DEF Tasks, TaskOK
<1>10. NotLost'
  BY <1>1 DEF NotLost
<1> QED BY <1>2, <1>3, <1>5, <1>6, <1>7, <1>8, <1>9, <1>10

\* Something arrives: an edge of a descriptor that is monitored, no more.
LEMMA ArrivalStep ==
    ASSUME IInv, NEW c \in Clients, Send(c) \/ Shutdown(c)
    PROVE  IInv'
<1> USE DEF IInv
<1>1. UNCHANGED <<request, conn, backlog, file, monitored, life, handles, stream,
                  parsed, pc, batch, current, pool>>
  BY DEF Send, Shutdown
<1> USE DEF life, pool
<1>2. /\ sent' \in [Clients -> 0 .. MaxPieces] /\ fin' \in [Clients -> BOOLEAN]
      /\ \A d \in Clients : sent[d] <= sent'[d]
  <2>1. CASE Send(c)
    BY <2>1, ServerAssumption DEF Send, Types
  <2>2. CASE Shutdown(c)
    BY <2>2, ServerAssumption DEF Shutdown, Types
  <2> QED BY <2>1, <2>2
<1>3. edge' \subseteq monitored
  BY DEF Send, Shutdown, Arrival, Types
<1>4. Types'
  BY <1>1, <1>2, <1>3 DEF Types
<1>5. Limits'
  BY <1>1, <1>2, ServerAssumption DEF Limits, Types
<1>6. Opens' /\ Waits'
  BY <1>1 DEF Opens, Waits
<1>7. Loop' /\ Watched'
  BY <1>1 DEF Loop, Watched, Serving
<1>8. Tasks' /\ NotLost'
  BY <1>1 DEF Tasks, TaskOK, NotLost
<1> QED BY <1>4, <1>5, <1>6, <1>7, <1>8

------------------------------------------------------------------------------
(* _Serve *)

\* Nothing that speaks of the connections changes when they, the tasks and the
\* table of builders do not.
LEMMA ConnectionsUntouched ==
    ASSUME IInv, UNCHANGED <<conn, sent, backlog, file, handles, stream, parsed, pool>>
    PROVE  Limits' /\ Opens' /\ Waits' /\ Tasks'
<1> USE DEF IInv, pool
<1>1. Limits' /\ Opens' /\ Waits'
  BY DEF Limits, Opens, Waits
<1>2. Tasks'
  BY DEF Tasks, TaskOK
<1> QED BY <1>1, <1>2

\* The steps of the loop that change only where it is.
LEMMA LoopStep ==
    ASSUME IInv,
           Stop \/ Wait \/ WaitFails \/ StartAsync \/ NextEvent \/ AcceptNone \/ ParseThrows
    PROVE  IInv'
<1> USE DEF IInv, pool, client, life, Listen
<1>1. UNCHANGED <<request, fin, conn, sent, backlog, file, monitored, abandoned, handles, stream,
                  parsed, pool>>
  BY DEF Stop, Wait, WaitFails, StartAsync, NextEvent, AcceptNone, ParseThrows
<1>2. Types'
  <2>1. edge' \subseteq monitored /\ batch' \subseteq monitored \cup {Listen}
    <3>1. CASE Wait
      <4>1. batch' \subseteq edge \cup {Listen} /\ edge' = {}
        BY <3>1 DEF Wait
      <4> QED BY <4>1 DEF Types
    <3>2. CASE NextEvent
      BY <3>2 DEF NextEvent, Types
    <3>3. CASE Stop \/ WaitFails \/ StartAsync \/ AcceptNone \/ ParseThrows
      BY <3>3 DEF Stop, WaitFails, StartAsync, AcceptNone, ParseThrows, Types
    <3> QED BY <3>1, <3>2, <3>3
  <2>2. isRunning' \in BOOLEAN /\ runs' \in 1 .. MaxRuns
    <3>1. CASE StartAsync
      BY <3>1, ServerAssumption DEF StartAsync, Types
    <3>2. CASE Stop \/ Wait \/ WaitFails \/ NextEvent \/ AcceptNone \/ ParseThrows
      <4>1. runs' = runs /\ (isRunning' = isRunning \/ isRunning' = FALSE)
        BY <3>2 DEF Stop, Wait, WaitFails, NextEvent, AcceptNone, ParseThrows
      <4> QED BY <4>1 DEF Types
    <3> QED BY <3>1, <3>2
  <2>3. /\ pc' \in {"wait", "events", "accept", "parse", "parsed", "submit", "ended", "threw"}
        /\ current' \in Fds \cup {None}
    BY DEF Stop, Wait, WaitFails, StartAsync, NextEvent, AcceptNone, ParseThrows, Types
  <2> QED BY <1>1, <2>1, <2>2, <2>3 DEF Types
<1>3. None \notin monitored /\ None \notin Fds /\ 0 \notin Fds
  BY ServerAssumption DEF Types
<1>4. Loop'
  <2>1. CASE Stop \/ WaitFails
    BY <2>1 DEF Stop, WaitFails, Loop
  <2>2. CASE Wait
    BY <1>3, <2>2 DEF Wait, Loop, Types
  <2>3. CASE StartAsync \/ AcceptNone \/ ParseThrows
    BY <2>3 DEF StartAsync, AcceptNone, ParseThrows, Loop
  <2>4. CASE NextEvent
    BY <1>3, <2>4 DEF NextEvent, Loop, Types
  <2> QED BY <2>1, <2>2, <2>3, <2>4
<1>5. current' \in monitored \cup {current}
  BY DEF Stop, Wait, WaitFails, StartAsync, NextEvent, AcceptNone, ParseThrows, Types
<1>6. Watched'
  BY <1>1, <1>5 DEF Watched, Serving
<1>7. NotLost'
  <2>1. current' = current \/ current = None
    BY DEF Stop, Wait, WaitFails, StartAsync, NextEvent, AcceptNone, ParseThrows, Loop
  <2> QED BY <1>1, <2>1, ServerAssumption DEF NotLost
<1> QED BY <1>1, <1>2, <1>4, <1>6, <1>7, ConnectionsUntouched

\* A connection is accepted, watched, or closed at once.
LEMMA AcceptStep ==
    ASSUME IInv, Accept
    PROVE  IInv'
<1> USE DEF IInv, pool, life
<1> DEFINE c == Head(backlog)
<1> DEFINE fd == Min(FreeFds)
<1>1. /\ pc = "accept" /\ backlog # <<>> /\ FreeFds # {} /\ fd < MaxFd
      /\ conn' = [conn EXCEPT ![c] = "open"]
      /\ file' = [file EXCEPT ![fd] = c]
      /\ Monitor(fd, c)
      /\ handles' = [handles EXCEPT ![fd] = c]
      /\ stream' = [stream EXCEPT ![c] = fd]
      /\ backlog' = Tail(backlog)
      /\ UNCHANGED <<request, sent, fin, life, parsed, pc, batch, current, pool>>
  BY DEF Accept
<1>2. /\ c \in Clients /\ conn[c] = "backlog"
      /\ \A f \in Fds : file[f] # c
      /\ c \notin pending \cup started \cup finished
  BY <1>1, HeadWaits
<1>3. /\ fd \in Fds /\ file[fd] = None
      /\ fd \notin monitored \cup {current}
      /\ \A d \in pending \cup started : stream[d] # fd
  BY <1>1, FreeDescriptor
<1>4. Waits' /\ backlog' \in Seq(Clients)
  BY <1>1, Dequeue
<1> HIDE DEF c, fd
<1>5. /\ \A d \in Clients : conn'[d] = IF d = c THEN "open" ELSE conn[d]
      /\ \A d \in Clients : stream'[d] = IF d = c THEN fd ELSE stream[d]
      /\ \A g \in Fds : file'[g] = IF g = fd THEN c ELSE file[g]
      /\ \A g \in Fds : handles'[g] = IF g = fd THEN c ELSE handles[g]
  BY <1>1, <1>2, <1>3 DEF Types
<1>6. monitored' = monitored \cup {fd} /\ edge' \subseteq edge \cup {fd}
  BY <1>1 DEF Monitor
<1>7. Types'
  <2>1. /\ conn' \in [Clients -> {"none", "backlog", "open", "closed"}]
        /\ file' \in [Fds -> Clients \cup {None}] /\ handles' \in [Fds -> Clients \cup {None}]
        /\ stream' \in [Clients -> Fds \cup {0}]
    BY <1>1, <1>2, <1>3 DEF Types
  <2>2. /\ monitored' \subseteq Fds /\ edge' \subseteq monitored'
        /\ batch' \subseteq monitored' \cup {Listen}
    BY <1>1, <1>3, <1>6 DEF Types
  <2> QED BY <1>1, <1>4, <2>1, <2>2 DEF Types
<1>8. Limits'
  BY <1>1, <1>3, <1>5, ServerAssumption DEF Limits
<1>9. Opens'
  <2>1. ASSUME NEW f \in Fds, file'[f] # None
        PROVE  conn'[file'[f]] = "open"
    <3>1. CASE f = fd
      BY <1>2, <1>5, <3>1
    <3>2. CASE f # fd
      <4>1. file'[f] = file[f] /\ file[f] \in Clients /\ conn[file[f]] = "open"
        BY <1>5, <2>1, <3>2 DEF Opens, Types
      <4> QED BY <1>5, <4>1
    <3> QED BY <3>1, <3>2
  <2>2. \A d \in Clients : conn'[d] = "open" => \E f \in Fds : file'[f] = d
    BY <1>2, <1>3, <1>5, ServerAssumption DEF Opens
  <2>3. \A f, g \in Fds : file'[f] # None /\ file'[f] = file'[g] => f = g
    BY <1>2, <1>5 DEF Opens
  <2> QED BY <2>1, <2>2, <2>3 DEF Opens
<1>10. Loop'
  BY <1>1, <1>6 DEF Loop
<1>11. Watched'
  <2>1. ASSUME NEW g \in monitored \cup ({current} \ {None})
        PROVE  Serving(g)'
    <3>1. Serving(g) /\ g \in Fds /\ g # fd /\ file[g] # c /\ file[g] \in Clients
      BY <1>2, <1>3 DEF Watched, Serving, Types
    <3> QED BY <1>1, <1>5, <3>1 DEF Serving
  <2>2. ASSUME NEW g \in Fds, g = fd
        PROVE  Serving(g)'
    <3>1. file'[fd] = c /\ handles'[fd] = c /\ stream'[c] = fd /\ c # None
      BY <1>2, <1>3, <1>5, ServerAssumption
    <3>2. UNCHANGED pool
      BY <1>1
    <3> QED BY <1>2, <2>2, <3>1, <3>2 DEF Serving
  <2>3. current' = current
    BY <1>1
  <2> QED BY <1>3, <1>6, <2>1, <2>2, <2>3 DEF Watched
<1>12. Tasks'
  <2> SUFFICES ASSUME NEW d \in Clients PROVE TaskOK(d)'
    BY DEF Tasks
  <2>1. TaskOK(d)
    BY DEF Tasks
  <2>2. CASE d = c
    BY <1>1, <1>2, <2>1, <2>2 DEF TaskOK
  <2>3. CASE d # c
    BY <1>1, <1>3, <1>5, <2>1, <2>3, ServerAssumption DEF TaskOK
  <2> QED BY <2>2, <2>3
<1>13. NotLost'
  BY <1>1, <1>5, <1>6 DEF NotLost
<1> QED BY <1>4, <1>7, <1>8, <1>9, <1>10, <1>11, <1>12, <1>13

\* A connection that epoll does not take is closed, but keeps its slot.
LEMMA AcceptUnmonitoredStep ==
    ASSUME IInv, AcceptUnmonitored
    PROVE  IInv'
<1> USE DEF IInv, pool, life
<1> DEFINE c == Head(backlog)
<1> DEFINE fd == Min(FreeFds)
<1>1. /\ pc = "accept" /\ backlog # <<>> /\ FreeFds # {} /\ fd < MaxFd
      /\ conn' = [conn EXCEPT ![c] = "closed"]
      /\ handles' = [handles EXCEPT ![fd] = c]
      /\ stream' = [stream EXCEPT ![c] = fd]
      /\ backlog' = Tail(backlog)
      /\ UNCHANGED <<request, sent, fin, file, monitored, edge, life, parsed, pc, batch,
                     current, pool>>
  BY DEF AcceptUnmonitored
<1>2. /\ c \in Clients /\ conn[c] = "backlog"
      /\ \A f \in Fds : file[f] # c
      /\ c \notin pending \cup started \cup finished
  BY <1>1, HeadWaits
<1>3. /\ fd \in Fds /\ file[fd] = None
      /\ fd \notin monitored \cup {current}
      /\ \A d \in pending \cup started : stream[d] # fd
  BY <1>1, FreeDescriptor
<1>4. Waits' /\ backlog' \in Seq(Clients)
  BY <1>1, Dequeue
<1> HIDE DEF c, fd
<1>5. /\ \A d \in Clients : conn'[d] = IF d = c THEN "closed" ELSE conn[d]
      /\ \A d \in Clients : stream'[d] = IF d = c THEN fd ELSE stream[d]
      /\ \A g \in Fds : handles'[g] = IF g = fd THEN c ELSE handles[g]
  BY <1>1, <1>2, <1>3 DEF Types
<1>6. Types'
  <2>1. /\ conn' \in [Clients -> {"none", "backlog", "open", "closed"}]
        /\ handles' \in [Fds -> Clients \cup {None}]
        /\ stream' \in [Clients -> Fds \cup {0}]
    BY <1>1, <1>2, <1>3 DEF Types
  <2> QED BY <1>1, <1>4, <2>1 DEF Types
<1>7. Limits'
  BY <1>1, <1>3, <1>5, ServerAssumption DEF Limits
<1>8. Opens'
  BY <1>1, <1>2, <1>5 DEF Opens, Types
<1>9. Loop'
  BY <1>1 DEF Loop
<1>10. Watched'
  <2>1. ASSUME NEW g \in monitored \cup ({current} \ {None})
        PROVE  Serving(g)'
    <3>1. Serving(g) /\ g \in Fds /\ g # fd /\ file[g] # c /\ file[g] \in Clients
      BY <1>2, <1>3 DEF Watched, Serving, Types
    <3> QED BY <1>1, <1>5, <3>1 DEF Serving
  <2> QED BY <1>1, <2>1 DEF Watched
<1>11. Tasks'
  <2> SUFFICES ASSUME NEW d \in Clients PROVE TaskOK(d)'
    BY DEF Tasks
  <2>1. TaskOK(d)
    BY DEF Tasks
  <2>2. CASE d = c
    BY <1>1, <1>2, <2>1, <2>2 DEF TaskOK
  <2>3. CASE d # c
    BY <1>1, <1>5, <2>1, <2>3 DEF TaskOK
  <2> QED BY <2>2, <2>3
<1>12. NotLost'
  BY <1>1 DEF NotLost
<1> QED BY <1>4, <1>6, <1>7, <1>8, <1>9, <1>10, <1>11, <1>12

\* A connection whose descriptor is past the limit is closed at once.
LEMMA AcceptTooManyStep ==
    ASSUME IInv, AcceptTooMany
    PROVE  IInv'
<1> USE DEF IInv, pool, life
<1> DEFINE c == Head(backlog)
<1>1. /\ pc = "accept" /\ backlog # <<>>
      /\ conn' = [conn EXCEPT ![c] = "closed"]
      /\ backlog' = Tail(backlog) /\ pc' = "events"
      /\ UNCHANGED <<request, sent, fin, file, monitored, edge, life, handles, stream,
                     parsed, batch, current, pool>>
  BY DEF AcceptTooMany
<1>2. /\ c \in Clients /\ conn[c] = "backlog"
      /\ \A f \in Fds : file[f] # c
      /\ c \notin pending \cup started \cup finished
  BY <1>1, HeadWaits
<1>3. Waits' /\ backlog' \in Seq(Clients)
  BY <1>1, Dequeue
<1> HIDE DEF c
<1>4. \A d \in Clients : conn'[d] = IF d = c THEN "closed" ELSE conn[d]
  BY <1>1, <1>2 DEF Types
<1>5. Types'
  <2>1. conn' \in [Clients -> {"none", "backlog", "open", "closed"}]
    BY <1>1 DEF Types
  <2> QED BY <1>1, <1>3, <2>1 DEF Types
<1>6. Limits'
  BY <1>1 DEF Limits
<1>7. Opens'
  BY <1>1, <1>2, <1>4 DEF Opens, Types
<1>8. Loop' /\ Watched'
  BY <1>1 DEF Loop, Watched, Serving
<1>9. Tasks'
  BY <1>1, <1>2, <1>4 DEF Tasks, TaskOK
<1>10. NotLost'
  BY <1>1 DEF NotLost
<1> QED BY <1>3, <1>5, <1>6, <1>7, <1>8, <1>9, <1>10

\* The connection that _Serve handles is known by its builder.
LEMMA CurrentBuilder ==
    ASSUME IInv, current # None
    PROVE  /\ current \in Fds /\ handles[current] \in Clients
           /\ file[current] = handles[current] /\ stream[handles[current]] = current
           /\ handles[current] \notin pending \cup started \cup finished
BY DEF IInv, Types, Watched, Serving

\* A piece of a request is parsed, and more is awaited.
LEMMA ParsePieceStep ==
    ASSUME IInv, ParsePiece
    PROVE  IInv'
<1> USE DEF IInv, pool, life, client
<1> DEFINE c == handles[current]
<1>1. /\ pc = "parse" /\ parsed[c] < sent[c]
      /\ parsed' = [parsed EXCEPT ![c] = @ + 1]
      /\ pc' \in {"parsed", "parse"}
      /\ UNCHANGED <<client, backlog, file, monitored, edge, life, handles, stream,
                     batch, current, pool>>
  BY DEF ParsePiece
<1>2. c \in Clients
  BY <1>1, CurrentBuilder DEF Loop
<1> HIDE DEF c
<1>3. parsed' \in [Clients -> Nat] /\ \A d \in Clients : parsed'[d] <= sent[d]
  BY <1>1, <1>2, ServerAssumption DEF Types, Limits
<1>4. Types'
  BY <1>1, <1>3 DEF Types
<1>5. Limits'
  BY <1>1, <1>3 DEF Limits
<1>6. Opens' /\ Waits' /\ Loop'
  BY <1>1 DEF Opens, Waits, Loop
<1>7. Watched'
  BY <1>1 DEF Watched, Serving
<1>8. Tasks' /\ NotLost'
  BY <1>1 DEF Tasks, TaskOK, NotLost
<1> QED BY <1>4, <1>5, <1>6, <1>7, <1>8

\* _Serve closes the connection it is at.
LEMMA DropStep ==
    ASSUME IInv, pc \in {"parse", "submit"}, DropCurrent,
           UNCHANGED <<runs, abandoned>>, isRunning' \in BOOLEAN
    PROVE  IInv'
<1> USE DEF IInv, pool, life
<1>1. /\ CloseSocket(current)
      /\ handles' = [handles EXCEPT ![current] = None]
      /\ pc' = "events" /\ current' = None
      /\ UNCHANGED <<request, sent, fin, backlog, stream, parsed, batch, pool>>
  BY DEF DropCurrent
<1>2. /\ current \in Fds /\ current # None /\ file[current] \in Clients
      /\ file[current] \notin pending \cup started \cup finished
  BY CurrentBuilder DEF Loop
<1>3. /\ Opens' /\ Waits'
      /\ conn' \in [Clients -> {"none", "backlog", "open", "closed"}]
      /\ file' \in [Fds -> Clients \cup {None}]
      /\ \A c \in Clients : conn'[c] = IF c = file[current] THEN "closed" ELSE conn[c]
      /\ \A g \in Fds : file'[g] = IF g = current THEN None ELSE file[g]
  BY <1>1, <1>2, Closing, ServerAssumption
<1>4. /\ monitored' = monitored \ {current} /\ edge' = edge \ {current}
      /\ \A g \in Fds : handles'[g] = IF g = current THEN None ELSE handles[g]
      /\ handles' \in [Fds -> Clients \cup {None}]
  BY <1>1 DEF CloseSocket, Types
<1>5. current \notin batch
  BY <1>2 DEF Loop
<1>6. Types'
  <2>1. /\ monitored' \subseteq Fds /\ edge' \subseteq monitored'
        /\ batch' \subseteq monitored' \cup {Listen}
    BY <1>1, <1>4, <1>5 DEF Types
  <2>2. /\ request' \in [Clients -> Kinds] /\ fin' \in [Clients -> BOOLEAN]
        /\ sent' \in [Clients -> 0 .. MaxPieces] /\ parsed' \in [Clients -> Nat]
        /\ backlog' \in Seq(Clients) /\ stream' \in [Clients -> Fds \cup {0}]
        /\ runs' \in 1 .. MaxRuns /\ abandoned' \subseteq Clients
        /\ pending' \subseteq Clients /\ started' \subseteq Clients /\ finished' \subseteq Clients
        /\ step' \in [Clients -> Steps]
    BY <1>1 DEF Types
  <2> QED BY <1>1, <1>3, <1>4, <2>1, <2>2 DEF Types
<1>7. Limits'
  BY <1>1, <1>4 DEF Limits
<1>8. Loop'
  BY <1>1 DEF Loop
<1>9. Watched'
  <2>1. ASSUME NEW g \in monitored \ {current}
        PROVE  Serving(g)'
    <3>1. Serving(g) /\ g \in Fds /\ g # current
      BY DEF Watched, Types
    <3> QED BY <1>1, <1>3, <1>4, <3>1 DEF Serving
  <2> QED BY <1>1, <1>4, <2>1 DEF Watched
<1>10. Tasks'
  <2> SUFFICES ASSUME NEW d \in Clients PROVE TaskOK(d)'
    BY DEF Tasks
  <2>1. TaskOK(d) /\ step[d] \in Steps
    BY DEF Tasks, Types
  <2>2. step[d] \in {"respond", "close"} => file[current] # d
    BY <1>2, <2>1 DEF TaskOK
  <2>3. step[d] \in {"respond", "close"} => stream[d] \in Fds /\ file'[stream[d]] = d
    BY <1>3, <2>1, <2>2 DEF TaskOK
  <2>4. conn[d] = "closed" => conn'[d] = "closed"
    BY <1>3
  <2> QED BY <1>1, <2>1, <2>3, <2>4 DEF TaskOK
<1>11. NotLost'
  BY <1>1, <1>3, <1>4 DEF NotLost
<1> QED BY <1>3, <1>6, <1>7, <1>8, <1>9, <1>10, <1>11

\* The request is whole: its connection is not watched any more.
LEMMA UnmonitorStep ==
    ASSUME IInv, Unmonitor
    PROVE  IInv'
<1> USE DEF IInv, pool, life, client
<1>1. /\ pc = "parsed" /\ pc' = "submit"
      /\ monitored' = monitored \ {current} /\ edge' = edge \ {current}
      /\ UNCHANGED <<client, backlog, file, life, handles, stream, parsed, batch, current, pool>>
  BY DEF Unmonitor
<1>2. current \in Fds /\ current # None /\ current \notin batch
  BY <1>1, CurrentBuilder DEF Loop
<1>3. Types'
  <2>1. /\ monitored' \subseteq Fds /\ edge' \subseteq monitored'
        /\ batch' \subseteq monitored' \cup {Listen}
    BY <1>1, <1>2 DEF Types
  <2> QED BY <1>1, <2>1 DEF Types
<1>4. Loop'
  BY <1>1, <1>2 DEF Loop
<1>5. Watched'
  BY <1>1 DEF Watched, Serving
<1>6. NotLost'
  BY <1>1 DEF NotLost
<1> QED BY <1>1, <1>3, <1>4, <1>5, <1>6, ConnectionsUntouched

\* The connection is the pool's from now on: its task has its descriptor.
LEMMA SubmitStep ==
    ASSUME IInv, Submit
    PROVE  IInv'
<1> USE DEF IInv, life, client
<1> DEFINE c == handles[current]
<1>1. /\ pc = "submit" /\ pc' = "events" /\ current' = None
      /\ pending' = pending \cup {c} /\ UNCHANGED <<started, finished>>
      /\ step' = [step EXCEPT ![c] = "respond"]
      /\ UNCHANGED <<client, backlog, file, monitored, edge, life, handles, stream, parsed,
                     batch>>
  BY DEF Submit, Pool!Accept
<1>2. /\ current \in Fds /\ current # None /\ c \in Clients
      /\ file[current] = c /\ stream[c] = current
      /\ c \notin pending \cup started \cup finished
      /\ current \notin monitored
  BY <1>1, CurrentBuilder DEF Loop
<1> HIDE DEF c
<1>3. Types'
  <2>1. step' \in [Clients -> Steps] /\ pending' \subseteq Clients
    BY <1>1, <1>2 DEF Types, Steps
  <2> QED BY <1>1, <2>1 DEF Types
<1>4. Limits' /\ Opens' /\ Waits'
  BY <1>1 DEF Limits, Opens, Waits
<1>5. Loop'
  BY <1>1 DEF Loop
<1>6. Watched'
  <2>1. ASSUME NEW g \in monitored
        PROVE  Serving(g)'
    <3>1. Serving(g) /\ g \in Fds /\ file[g] # c
      BY <1>2, ServerAssumption DEF Watched, Types, Opens
    <3> QED BY <1>1, <3>1 DEF Serving
  <2> QED BY <1>1, <2>1 DEF Watched
<1>7. Tasks'
  <2> SUFFICES ASSUME NEW d \in Clients PROVE TaskOK(d)'
    BY DEF Tasks
  <2>1. TaskOK(d) /\ step'[d] = IF d = c THEN "respond" ELSE step[d]
    BY <1>1 DEF Tasks, Types
  <2> QED BY <1>1, <1>2, <2>1 DEF TaskOK
<1>8. NotLost'
  BY <1>1, <1>2 DEF NotLost
<1> QED BY <1>3, <1>4, <1>5, <1>6, <1>7, <1>8

\* The connections that were watched are abandoned.
LEMMA EndServeStep ==
    ASSUME IInv, EndServe
    PROVE  IInv'
<1> USE DEF IInv, pool, life
<1>1. /\ pc = "wait" /\ pc' = "ended"
      /\ CloseListen /\ monitored' = {} /\ edge' = {}
      /\ abandoned' = abandoned \cup {file[fd] : fd \in monitored}
      /\ UNCHANGED <<request, sent, fin, file, isRunning, runs, handles, stream, parsed,
                     batch, current, pool>>
  BY DEF EndServe, CloseEpoll
<1>2. current = None /\ batch = {}
  BY <1>1 DEF Loop
<1>3. /\ conn' = [c \in Clients |-> IF conn[c] = "backlog" THEN "closed" ELSE conn[c]]
      /\ backlog' = <<>>
  BY <1>1 DEF CloseListen
<1>4. \A fd \in monitored : file[fd] \in Clients
  BY ServerAssumption DEF Watched, Serving, Types
<1>5. Types'
  <2>1. /\ conn' \in [Clients -> {"none", "backlog", "open", "closed"}]
        /\ backlog' \in Seq(Clients) /\ abandoned' \subseteq Clients
    BY <1>1, <1>3, <1>4 DEF Types
  <2> QED BY <1>1, <1>2, <2>1 DEF Types
<1>6. Limits'
  BY <1>1 DEF Limits
<1>7. Opens'
  <2>1. \A c \in Clients : conn'[c] = "open" <=> conn[c] = "open"
    BY <1>3
  <2> QED BY <1>1, <2>1 DEF Opens, Types
<1>8. Waits'
  BY <1>3 DEF Waits
<1>9. Loop' /\ Watched'
  BY <1>1, <1>2 DEF Loop, Watched
<1>10. Tasks'
  BY <1>1, <1>3 DEF Tasks, TaskOK
<1>11. NotLost'
  BY <1>1, <1>2, ServerAssumption DEF NotLost
<1> QED BY <1>5, <1>6, <1>7, <1>8, <1>9, <1>10, <1>11

------------------------------------------------------------------------------
(* The tasks *)

\* A task starts, answers, or returns when it has closed its connection.
LEMMA TaskMovesStep ==
    ASSUME IInv, NEW c \in Clients, WorkerStart(c) \/ Respond(c) \/ TaskReturns(c)
    PROVE  IInv'
<1> USE DEF IInv, life, client
<1>1. UNCHANGED <<client, backlog, file, monitored, edge, life, handles, stream, parsed,
                  pc, batch, current>>
  BY DEF WorkerStart, Respond, TaskReturns
<1>2. TaskOK(c)
  BY DEF Tasks
<1>3. /\ \A d \in Clients : d # c =>
            /\ d \in pending' <=> d \in pending
            /\ d \in started' <=> d \in started
            /\ d \in finished' <=> d \in finished
            /\ step'[d] = step[d]
      /\ pending' \subseteq Clients /\ started' \subseteq Clients /\ finished' \subseteq Clients
      /\ step' \in [Clients -> Steps]
  BY DEF WorkerStart, Respond, TaskReturns, Pool!Start, Pool!Finish, Types, Steps
<1>4. /\ pending' \cup started' \cup finished' = pending \cup started \cup finished
      /\ c \in pending \cup started
  BY DEF WorkerStart, Respond, TaskReturns, Pool!Start, Pool!Finish
<1>5. Types'
  BY <1>1, <1>3 DEF Types
<1>6. Limits' /\ Opens' /\ Waits' /\ Loop'
  BY <1>1 DEF Limits, Opens, Waits, Loop
<1>7. Watched'
  BY <1>1, <1>4 DEF Watched, Serving
<1>8. TaskOK(c)'
  <2>1. CASE WorkerStart(c)
    BY <1>1, <1>2, <2>1 DEF WorkerStart, Pool!Start, TaskOK
  <2>2. CASE Respond(c)
    BY <1>1, <1>2, <2>2 DEF Respond, TaskOK, Types
  <2>3. CASE TaskReturns(c)
    BY <1>1, <1>2, <2>3 DEF TaskReturns, Pool!Finish, TaskOK, Types
  <2> QED BY <2>1, <2>2, <2>3
<1>9. Tasks'
  BY <1>1, <1>3, <1>8 DEF Tasks, TaskOK
<1>10. NotLost'
  <2> SUFFICES ASSUME NEW fd \in Fds, file[fd] # None
               PROVE  \/ fd \in monitored \cup {current}
                      \/ file[fd] \in pending' \cup started' \cup abandoned
    BY <1>1 DEF NotLost
  <2>1. file[fd] \in Clients /\ conn[file[fd]] = "open"
    BY DEF Types, Opens
  <2>2. file[fd] \in finished' => file[fd] \in finished
    BY <1>9, <1>1, <2>1 DEF Tasks, TaskOK
  <2>3. file[fd] \in pending \cup started => file[fd] \notin finished
    BY <2>1 DEF Tasks, TaskOK
  <2> QED BY <1>4, <2>2, <2>3 DEF NotLost
<1> QED BY <1>5, <1>6, <1>7, <1>9, <1>10

\* A task closes its connection: the descriptor is its own.
LEMMA CloseRequestStep ==
    ASSUME IInv, NEW c \in Clients, CloseRequest(c)
    PROVE  IInv'
<1> USE DEF IInv, life
<1> DEFINE fd == stream[c]
<1>1. /\ c \in started /\ step[c] = "close"
      /\ CloseSocket(fd)
      /\ stream' = [stream EXCEPT ![c] = 0]
      /\ step' = [step EXCEPT ![c] = "closeAgain"]
      /\ UNCHANGED <<request, sent, fin, backlog, life, handles, parsed, pc, batch, current,
                     pending, started, finished>>
  BY DEF CloseRequest
<1>2. fd \in Fds /\ file[fd] = c /\ c # None
  BY <1>1, ServerAssumption DEF Tasks, TaskOK
<1> HIDE DEF fd
<1>3. /\ Opens' /\ Waits'
      /\ conn' \in [Clients -> {"none", "backlog", "open", "closed"}]
      /\ file' \in [Fds -> Clients \cup {None}]
      /\ \A d \in Clients : conn'[d] = IF d = c THEN "closed" ELSE conn[d]
      /\ \A g \in Fds : file'[g] = IF g = fd THEN None ELSE file[g]
  BY <1>1, <1>2, Closing
<1>4. /\ monitored' = monitored \ {fd} /\ edge' = edge \ {fd}
      /\ \A d \in Clients : stream'[d] = IF d = c THEN 0 ELSE stream[d]
      /\ \A d \in Clients : step'[d] = IF d = c THEN "closeAgain" ELSE step[d]
  BY <1>1 DEF CloseSocket, Types
<1>5. fd \notin monitored \cup ({current} \ {None}) /\ current # fd
  BY <1>1, <1>2, ServerAssumption DEF Watched, Serving
<1>6. Types'
  <2>1. /\ monitored' \subseteq Fds /\ edge' \subseteq monitored'
        /\ batch' \subseteq monitored' \cup {Listen}
    BY <1>1, <1>4, <1>5 DEF Types
  <2>2. stream' \in [Clients -> Fds \cup {0}] /\ step' \in [Clients -> Steps]
    BY <1>1 DEF Types, Steps
  <2> QED BY <1>1, <1>3, <2>1, <2>2 DEF Types
<1>7. Limits'
  BY <1>1 DEF Limits
<1>8. Loop'
  BY <1>1, <1>4, <1>5 DEF Loop
<1>9. Watched'
  <2>1. ASSUME NEW g \in monitored \cup ({current} \ {None})
        PROVE  Serving(g)'
    <3>1. Serving(g) /\ g \in Fds /\ g # fd /\ file[g] # c /\ file[g] \in Clients
      BY <1>1, <1>5 DEF Watched, Serving, Types
    <3> QED BY <1>1, <1>3, <1>4, <3>1 DEF Serving
  <2>2. monitored' = monitored /\ current' = current
    BY <1>1, <1>4, <1>5
  <2> QED BY <2>1, <2>2 DEF Watched
<1>10. Tasks'
  <2> SUFFICES ASSUME NEW d \in Clients PROVE TaskOK(d)'
    BY DEF Tasks
  <2>1. TaskOK(d)
    BY DEF Tasks
  <2>2. CASE d = c
    BY <1>1, <1>3, <1>4, <2>1, <2>2 DEF TaskOK
  <2>3. CASE d # c
    <3>1. step[d] \in {"respond", "close"} => stream[d] # fd
      BY <1>2, <2>1, <2>3 DEF TaskOK
    <3> QED BY <1>1, <1>3, <1>4, <2>1, <2>3, <3>1 DEF TaskOK
  <2> QED BY <2>2, <2>3
<1>11. NotLost'
  BY <1>1, <1>3, <1>4 DEF NotLost
<1> QED BY <1>3, <1>6, <1>7, <1>8, <1>9, <1>10, <1>11

\* Its second Close finds the descriptor 0 and closes nothing.
LEMMA CloseResponseStep ==
    ASSUME IInv, NEW c \in Clients, CloseResponse(c)
    PROVE  IInv'
<1> USE DEF IInv, life
<1>1. c \in started /\ step[c] = "closeAgain" /\ stream[c] = 0 /\ conn[c] = "closed"
  BY DEF CloseResponse, Tasks, TaskOK
<1>2. /\ UNCHANGED <<request, conn, sent, fin, backlog, file, monitored, edge, life, handles,
                     parsed, pc, batch, current, pending, started, finished>>
      /\ stream' = [stream EXCEPT ![c] = 0]
      /\ step' = [step EXCEPT ![c] = "return"]
  BY <1>1 DEF CloseResponse
<1>3. stream' = stream
  BY <1>1, <1>2 DEF Types
<1>4. \A d \in Clients : step'[d] = IF d = c THEN "return" ELSE step[d]
  BY <1>2 DEF Types
<1>5. Types'
  <2>1. step' \in [Clients -> Steps]
    BY <1>2 DEF Types, Steps
  <2> QED BY <1>2, <1>3, <2>1 DEF Types
<1>6. Limits' /\ Opens' /\ Waits' /\ Loop'
  BY <1>2 DEF Limits, Opens, Waits, Loop
<1>7. Watched'
  BY <1>2, <1>3 DEF Watched, Serving
<1>8. Tasks'
  BY <1>1, <1>2, <1>3, <1>4 DEF Tasks, TaskOK
<1>9. NotLost'
  BY <1>2 DEF NotLost
<1> QED BY <1>5, <1>6, <1>7, <1>8, <1>9

------------------------------------------------------------------------------
(* The invariant *)

\* Every step of the server, its clients and its tasks keeps the invariant.
LEMMA NextInvariant == IInv /\ [Next]_vars => IInv'
<1> SUFFICES ASSUME IInv, [Next]_vars PROVE IInv'
  OBVIOUS
<1>1. ASSUME NEW c \in Clients, Connect(c) \/ Send(c) \/ Shutdown(c) PROVE IInv'
  BY <1>1, ConnectStep, ArrivalStep
<1>2. ASSUME NEW c \in Clients, Task(c) PROVE IInv'
  BY <1>2, TaskMovesStep, CloseRequestStep, CloseResponseStep DEF Task
<1>3. CASE Stop \/ WaitFails \/ StartAsync \/ Wait \/ NextEvent \/ AcceptNone \/ ParseThrows
  BY <1>3, LoopStep
<1>4. CASE StopInParse \/ ParseFails \/ SubmitRefused
  <2>1. pc \in {"parse", "submit"} /\ DropCurrent /\ UNCHANGED <<runs, abandoned>>
    BY <1>4 DEF StopInParse, ParseFails, SubmitRefused, InRecv, life
  <2>2. isRunning' \in BOOLEAN
    BY <1>4 DEF StopInParse, ParseFails, SubmitRefused, life, IInv, Types
  <2> QED BY <2>1, <2>2, DropStep
<1>5. CASE EndServe
  BY <1>5, EndServeStep
<1>6. CASE Accept \/ AcceptTooMany \/ AcceptUnmonitored
  BY <1>6, AcceptStep, AcceptTooManyStep, AcceptUnmonitoredStep
<1>7. CASE ParsePiece \/ Unmonitor \/ Submit
  BY <1>7, ParsePieceStep, UnmonitorStep, SubmitStep
<1>8. CASE UNCHANGED vars
  <2> USE <1>8 DEF vars, client, life, pool, IInv
  <2>1. Types'
    BY DEF Types
  <2>2. Limits' /\ Opens' /\ Waits' /\ Loop'
    BY DEF Limits, Opens, Waits, Loop
  <2>3. Watched' /\ Tasks' /\ NotLost'
    BY DEF Watched, Serving, Tasks, TaskOK, NotLost
  <2> QED BY <2>1, <2>2, <2>3
<1> QED BY <1>1, <1>2, <1>3, <1>4, <1>5, <1>6, <1>7, <1>8 DEF Next, Serve

\* The invariant holds in every state the server reaches.
THEOREM Invariance == Spec => []IInv
<1>1. Init => IInv
  BY InitInvariant
<1>2. IInv /\ [Next]_vars => IInv'
  BY NextInvariant
<1> QED BY <1>1, <1>2, PTL DEF Spec

------------------------------------------------------------------------------
(* What the runs check *)

\* An open connection has exactly one descriptor, any other none.
LEMMA DescriptorsOf ==
    ASSUME IInv, NEW c \in Clients
    PROVE  Cardinality({f \in Fds : file[f] = c}) = IF conn[c] = "open" THEN 1 ELSE 0
<1> USE DEF IInv
<1> DEFINE S == {f \in Fds : file[f] = c}
<1>1. c # None
  BY ServerAssumption
<1>2. CASE conn[c] = "open"
  <2>1. PICK f \in Fds : file[f] = c
    BY <1>2 DEF Opens
  <2>2. S = {f}
    BY <1>1, <2>1 DEF Opens
  <2>3. Cardinality({f}) = 1
    BY FS_Singleton
  <2> QED BY <1>2, <2>2, <2>3, Zenon
<1>3. CASE conn[c] # "open"
  <2>1. S = {}
    BY <1>1, <1>3 DEF Opens
  <2> QED BY <1>3, <2>1, FS_EmptySet, Zenon
<1> QED BY <1>2, <1>3

\* The types hold; the table of builders is used within its bounds, and a
\* descriptor is one connection's at a time.
THEOREM TypeCorrect == Spec => []TypeOK
<1>1. IInv => TypeOK
  <2> SUFFICES ASSUME IInv PROVE TypeOK
    OBVIOUS
  <2> USE DEF IInv
  <2>1. batch \subseteq Fds \cup {Listen}
    BY DEF Types
  <2>2. \A c \in Clients : conn[c] = "backlog" <=> \E i \in DOMAIN backlog : backlog[i] = c
    <3>1. DOMAIN backlog = 1 .. Len(backlog)
      BY DEF Types
    <3> QED BY <3>1 DEF Waits
  <2>3. /\ \A f \in Fds : f >= MaxFd => handles[f] = None
        /\ \A c \in Clients : parsed[c] <= sent[c]
    BY DEF Limits
  <2> QED BY <2>1, <2>2, <2>3, DescriptorsOf DEF TypeOK, Types
<1> QED BY <1>1, Invariance, PTL

\* _Serve never handles an event whose slot is empty, which MINET_ASSERT
\* forbids, or has the builder of the connection before.
THEOREM EventsHaveBuilders == Spec => []EventHasItsBuilder
<1>1. IInv => EventHasItsBuilder
  BY DEF IInv, EventHasItsBuilder, Types, Watched, Serving
<1> QED BY <1>1, Invariance, PTL

\* A worker writes to and closes its own connection only.
THEOREM StreamsOwned == Spec => []WorkerOwnsStream
<1>1. IInv => WorkerOwnsStream
  <2> SUFFICES ASSUME IInv, NEW c \in Dispatched, stream[c] > 0
               PROVE  file[stream[c]] = c
    BY DEF WorkerOwnsStream
  <2>1. c \in Clients /\ TaskOK(c) /\ step[c] \in Steps
    BY DEF IInv, Types, Tasks, Dispatched
  <2>2. step[c] # "none" /\ stream[c] # 0
    BY <2>1 DEF TaskOK, Dispatched
  <2> QED BY <2>1, <2>2 DEF TaskOK, Steps
<1> QED BY <1>1, Invariance, PTL

\* _Serve has no event for a connection it has given to the pool.
THEOREM DispatchedSilent == Spec => []DispatchedIsSilent
<1>1. IInv => DispatchedIsSilent
  BY DEF IInv, DispatchedIsSilent, Dispatched, Types, Watched, Serving
<1> QED BY <1>1, Invariance, PTL

\* Every open connection is watched, handled, a task's, or one that a _Serve
\* left behind when it ended.
THEOREM DescriptorsKept == Spec => []NoDescriptorLost
<1>1. IInv => NoDescriptorLost
  BY DEF IInv, NoDescriptorLost, Dispatched, NotLost
<1> QED BY <1>1, Invariance, PTL

\* What TaskPool asks of its user is never what holds _Serve or a task up: the
\* task that is submitted is a new one, and one that returns has been started.
TasksAsPoolHasThem ==
    /\ pc = "submit" => handles[current] \in Clients \ (pending \cup started \cup finished)
    /\ \A c \in Clients : step[c] = "return" => c \in started

\* So the guards of Pool!Accept and Pool!Finish leave out nothing the code does: a
\* descriptor that comes back never leads _Serve to submit a connection twice.
THEOREM PoolGuardsHold == Spec => []TasksAsPoolHasThem
<1>1. IInv => TasksAsPoolHasThem
  <2> SUFFICES ASSUME IInv PROVE TasksAsPoolHasThem
    OBVIOUS
  <2>1. pc = "submit" => current # None
    BY DEF IInv, Loop
  <2>2. ASSUME NEW c \in Clients, step[c] = "return" PROVE c \in started
    <3>1. TaskOK(c)
      BY DEF IInv, Tasks
    <3> QED BY <2>2, <3>1 DEF TaskOK
  <2> QED BY <2>1, <2>2, CurrentBuilder DEF TasksAsPoolHasThem
<1> QED BY <1>1, Invariance, PTL

==============================================================================
