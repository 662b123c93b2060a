---------------------------- MODULE ServersProofs -----------------------------
(***************************************************************************)
(* Theorems about Servers, for every set of clients and every value of the *)
(* limits: what the host, the serving thread, the workers and the handler  *)
(* of ^C can rely on about each other, and what the runs check that        *)
(* follows from it.                                                        *)
(***************************************************************************)
EXTENDS Servers, TLAPS

------------------------------------------------------------------------------
(* The inductive invariant *)

Types ==
    /\ kind \in {"Basic", "Threaded"}
    /\ host \in {"idle", "opened", "running", "await", "gone", "destroyed", "crashed"}
    /\ dangling \subseteq {"callback", "signal"}
    /\ runs \in 0 .. MaxRuns
    /\ interrupted \in BOOLEAN /\ isRunning \in BOOLEAN /\ listening \in BOOLEAN
    /\ serve \in {"none", "loop", "accept", "check", "handle", "close", "ended", "threw"}
    /\ current \in IF serve \in {"check", "handle", "threw"} THEN Clients ELSE {None}
    /\ conn \in [Clients -> {"none", "backlog", "open", "closed"}]
    /\ said \in [Clients -> {"nothing", "request", "malformed", "throws"}]
    /\ backlog \in Seq(Clients)
    /\ step \in [Clients -> {"none", "parse", "dispatch", "done"}]
    /\ pending \subseteq Clients /\ started \subseteq Clients

\* Only Run has a serving thread, and it ends with the server stopped and the
\* port closed.
Life ==
    /\ host \in {"idle", "gone", "destroyed"} => ~ isRunning /\ ~ listening
    /\ host \in {"idle", "opened", "running", "gone", "destroyed"} => serve = "none"
    /\ serve \in {"close", "ended"} => ~ isRunning
    /\ serve = "ended" => ~ listening
    /\ ~ listening => backlog = <<>>

\* Once the server runs, only ^C stops it.
Stopped == ~ isRunning /\ (serve # "none" \/ host = "running") => interrupted

\* The listen queue has each waiting connection once.
Waits ==
    /\ \A i \in 1 .. Len(backlog) : conn[backlog[i]] = "backlog"
    /\ \A i, j \in 1 .. Len(backlog) : backlog[i] = backlog[j] => i = j

\* The connection that _Serve has: nobody handles it before it is checked.
Hand ==
    /\ serve = "check" => step[current] = "none" /\ conn[current] = "open"
    /\ serve \in {"handle", "threw"} => kind = "Basic"
    /\ serve = "threw" => step[current] = "parse" /\ said[current] = "throws"

\* A connection is handled once it was accepted; the pool has no other ones.
Handled(c) ==
    /\ step[c] # "none" => conn[c] \in {"open", "closed"}
    /\ step[c] # "none" => interrupted \/ serve # "none"
    /\ step[c] = "done" /\ conn[c] = "open" => said[c] = "malformed" \/ interrupted
    /\ c \in pending \cup started => step[c] # "none" /\ kind = "Threaded"

Handlings == \A c \in Clients : Handled(c)

\* The host is used after its end only after its end.
Dangles == dangling # {} => host \in {"gone", "destroyed", "crashed"}

\* Why an open connection may be nobody's any more.
Left(c) ==
    \/ step[c] = "done" /\ (said[c] = "malformed" \/ interrupted)
    \/ step[c] = "none" /\ interrupted

Known ==
    \A c \in Clients :
        conn[c] = "open" => c \in pending \cup started \cup {current} \/ Left(c)

IInv ==
    /\ Types
    /\ Life
    /\ Stopped
    /\ Waits
    /\ Hand
    /\ Handlings
    /\ Dangles
    /\ HostOutlived
    /\ Known

------------------------------------------------------------------------------
(* The invariant holds at first *)

\* Nobody is connected, and the host has not been run.
LEMMA InitInvariant == Init => IInv
<1> SUFFICES ASSUME Init PROVE IInv
  OBVIOUS
<1> USE ServersAssumption DEF Init, Pool!Init
<1>1. Types
  <2>1. 0 \in 0 .. MaxRuns /\ None \in {None}
    OBVIOUS
  <2>2. current \in IF serve \in {"check", "handle", "threw"} THEN Clients ELSE {None}
    OBVIOUS
  <2>3. /\ conn \in [Clients -> {"none", "backlog", "open", "closed"}]
        /\ said \in [Clients -> {"nothing", "request", "malformed", "throws"}]
        /\ step \in [Clients -> {"none", "parse", "dispatch", "done"}]
        /\ backlog \in Seq(Clients)
    OBVIOUS
  <2> QED BY <2>1, <2>2, <2>3 DEF Types
<1>2. Life /\ Stopped /\ Waits
  BY DEF Life, Stopped, Waits
<1>3. Hand /\ Handlings
  BY DEF Hand, Handlings, Handled
<1>4. Dangles /\ HostOutlived /\ Known
  BY DEF Dangles, HostOutlived, Known
<1> QED BY <1>1, <1>2, <1>3, <1>4 DEF IInv

------------------------------------------------------------------------------
(* The listen queue *)

\* The connection at the head of the listen queue: not handled, not the pool's.
LEMMA HeadWaits ==
    ASSUME IInv, backlog # <<>>
    PROVE  LET c == Head(backlog) IN
              c \in Clients /\ conn[c] = "backlog" /\ step[c] = "none"
<1> DEFINE c == Head(backlog)
<1>1. backlog \in Seq(Clients) /\ Len(backlog) \in Nat \ {0} /\ c = backlog[1]
  BY DEF IInv, Types
<1>2. c \in Clients /\ conn[c] = "backlog"
  BY <1>1 DEF IInv, Waits
<1> HIDE DEF c
<1>3. step[c] = "none"
  BY <1>2 DEF IInv, Handlings, Handled
<1> QED BY <1>2, <1>3 DEF c

\* Without its head, the listen queue has the other waiting connections.
LEMMA Dequeue ==
    ASSUME Types, Waits, backlog # <<>>, backlog' = Tail(backlog),
           conn' = [conn EXCEPT ![Head(backlog)] = "open"]
    PROVE  Waits' /\ backlog' \in Seq(Clients)
<1> DEFINE n == Len(backlog)
<1>1. /\ backlog \in Seq(Clients) /\ n \in Nat \ {0} /\ Head(backlog) = backlog[1]
      /\ backlog[1] \in Clients
  BY DEF Types
<1>2. /\ backlog' \in Seq(Clients) /\ Len(backlog') = n - 1
      /\ \A i \in 1 .. n - 1 : backlog'[i] = backlog[i + 1]
  BY <1>1
<1>3. \A i \in 1 .. n : backlog[i] \in Clients
  BY <1>1
<1> HIDE DEF n
<1>4. \A c \in Clients : c # backlog[1] => conn'[c] = conn[c]
  BY <1>1 DEF Types
<1>5. ASSUME NEW i \in 1 .. n - 1
      PROVE  conn'[backlog'[i]] = "backlog"
  <2>1. i + 1 \in 1 .. n /\ 1 \in 1 .. n /\ i + 1 # 1
    BY <1>1
  <2>2. backlog[i + 1] # backlog[1] /\ conn[backlog[i + 1]] = "backlog"
    BY <2>1 DEF Waits, n
  <2> QED BY <1>2, <1>3, <1>4, <2>1, <2>2
<1>6. ASSUME NEW i \in 1 .. n - 1, NEW j \in 1 .. n - 1, backlog'[i] = backlog'[j]
      PROVE  i = j
  <2>1. i + 1 \in 1 .. n /\ j + 1 \in 1 .. n /\ backlog[i + 1] = backlog[j + 1]
    BY <1>1, <1>2, <1>6
  <2>2. i + 1 = j + 1
    BY <2>1 DEF Waits, n
  <2> QED BY <2>2
<1> QED BY <1>2, <1>5, <1>6 DEF Waits

------------------------------------------------------------------------------
(* WebHost::Run *)

\* A step of Run before there is a serving thread: nobody is handled then but by
\* the pool.
LEMMA RunStep ==
    ASSUME IInv, host \notin {"crashed", "destroyed"},
           Open \/ OpenFails \/ SetRunning \/ Launch \/ Await \/ AwaitThrows
    PROVE  IInv'
<1> USE DEF IInv, StartAsync, OpenSocket, pool
<1> USE DEF Open, OpenFails, SetRunning, Launch, Await, AwaitThrows
<1>1. UNCHANGED <<kind, interrupted, dangling, current, conn, said, backlog, step, pool>>
  OBVIOUS
<1>2. Types'
  <2>1. runs' \in 0 .. MaxRuns
    <3>1. CASE runs' = runs
      BY <3>1 DEF Types
    <3>2. CASE runs < MaxRuns /\ runs' = runs + 1
      BY <3>2, ServersAssumption DEF Types
    <3> QED BY <3>1, <3>2
  <2>2. /\ host' \in {"idle", "opened", "running", "await", "gone", "destroyed", "crashed"}
        /\ isRunning' \in BOOLEAN /\ listening' \in BOOLEAN
        /\ serve' \in {"none", "loop", "accept", "check", "handle", "close", "ended", "threw"}
        /\ serve' \in {"check", "handle", "threw"} <=> serve \in {"check", "handle", "threw"}
    BY DEF Types, Life
  <2> QED BY <1>1, <2>1, <2>2 DEF Types
<1>3. Life'
  BY DEF Life
<1>4. Stopped'
  BY DEF Stopped, Life
<1>5. Waits'
  BY <1>1 DEF Waits
<1>6. Hand'
  BY DEF Hand, Life
<1>7. Handlings'
  <2>1. serve # "none" /\ serve' = "none" => interrupted
    BY DEF Stopped, Life
  <2> QED BY <1>1, <2>1 DEF Handlings, Handled
<1>8. Dangles'
  BY DEF Dangles
<1>9. HostOutlived'
  <2>1. host' = "crashed" => \E c \in Clients : step[c] = "parse" /\ said[c] = "throws"
    BY DEF Hand, Types
  <2> QED BY <1>1, <2>1 DEF HostOutlived
<1>10. Known'
  BY <1>1 DEF Known, Left
<1> QED BY <1>2, <1>3, <1>4, <1>5, <1>6, <1>7, <1>8, <1>9, <1>10

\* The end of the host, and of the server.
LEMMA DestroyStep ==
    ASSUME IInv, DestroyHost \/ DestroyServer
    PROVE  IInv'
<1> USE DEF IInv, DestroyHost, DestroyServer, pool
<1>1. /\ UNCHANGED <<kind, runs, interrupted, dangling, isRunning, listening, serve, current,
                     conn, said, backlog, step, pool>>
      /\ host \in {"idle", "gone"} /\ host' \in {"gone", "destroyed"}
  OBVIOUS
<1>2. Types' /\ Life' /\ Stopped'
  BY <1>1 DEF Types, Life, Stopped
<1>3. Waits' /\ Hand' /\ Handlings'
  BY <1>1 DEF Waits, Hand, Handlings, Handled
<1>4. Dangles' /\ HostOutlived' /\ Known'
  BY <1>1 DEF Dangles, HostOutlived, Known, Left
<1> QED BY <1>2, <1>3, <1>4

------------------------------------------------------------------------------
(* The interrupt handler *)

\* It may come after the end of the host, and make a handler of a connection
\* give up.
LEMMA InterruptStep ==
    ASSUME IInv, Interrupt
    PROVE  IInv'
<1> USE DEF IInv, pool
<1>1. /\ host \notin {"crashed", "destroyed"} /\ ~ interrupted /\ interrupted'
      /\ interrupted' = TRUE /\ isRunning' = FALSE
      /\ UNCHANGED <<kind, runs, listening, serve, current, conn, said, backlog, pool>>
  BY DEF Interrupt, Armed, Stop
<1>2. \/ host = "gone" /\ dangling' = dangling \cup {"signal"} /\ host' \in {"gone", "crashed"}
      \/ host # "gone" /\ UNCHANGED <<dangling, host>>
  BY DEF Interrupt, UseHost
<1>3. \A c \in Clients :
         \/ step'[c] = step[c]
         \/ Handling(c) /\ step[c] = "parse" /\ said[c] = "nothing" /\ step'[c] = "done"
  BY DEF Interrupt, Reading, Types
<1>4. step' \in [Clients -> {"none", "parse", "dispatch", "done"}]
  BY DEF Interrupt, Types
<1>5. Types'
  BY <1>1, <1>2, <1>4 DEF Types
<1>6. Life' /\ Stopped' /\ Waits'
  BY <1>1, <1>2 DEF Life, Stopped, Waits
<1>7. Hand'
  <2>1. serve \in {"check", "threw"} => current \in Clients
    BY DEF Types
  <2>2. serve \in {"check", "threw"} => step'[current] = step[current]
    BY <1>3, <2>1 DEF Hand
  <2> QED BY <1>1, <2>2 DEF Hand
<1>8. Handlings'
  BY <1>1, <1>3 DEF Handlings, Handled
<1>9. Dangles'
  BY <1>2 DEF Dangles
<1>10. HostOutlived'
  <2>1. "callback" \notin dangling
    BY <1>1 DEF HostOutlived
  <2>2. host = "gone" => \A c \in Clients : step[c] = "none"
    BY <1>1 DEF Life, Handlings, Handled
  <2>3. \A c \in Clients : step[c] = "none" => step'[c] = "none"
    BY <1>3
  <2> QED BY <1>1, <1>2, <2>1, <2>2, <2>3 DEF HostOutlived
<1>11. Known'
  BY <1>1, <1>3 DEF Known, Left
<1> QED BY <1>5, <1>6, <1>7, <1>8, <1>9, <1>10, <1>11

------------------------------------------------------------------------------
(* The clients *)

\* A client connects, and waits in the backlog.
LEMMA ConnectStep ==
    ASSUME IInv, NEW c \in Clients, Connect(c)
    PROVE  IInv'
<1> USE DEF IInv, pool, hostVars
<1>1. /\ listening /\ conn[c] = "none"
      /\ conn' = [conn EXCEPT ![c] = "backlog"]
      /\ backlog' = Append(backlog, c)
      /\ UNCHANGED <<kind, hostVars, isRunning, listening, serve, current, said, step, pool>>
  BY DEF Connect
<1>2. \A d \in Clients : conn'[d] = IF d = c THEN "backlog" ELSE conn[d]
  BY <1>1 DEF Types
<1>3. Types'
  <2>1. conn' \in [Clients -> {"none", "backlog", "open", "closed"}] /\ backlog' \in Seq(Clients)
    BY <1>1 DEF Types
  <2> QED BY <1>1, <2>1 DEF Types
<1>4. Life' /\ Stopped'
  BY <1>1 DEF Life, Stopped
<1>5. Waits'
  <2>1. /\ Len(backlog) \in Nat /\ Len(backlog') = Len(backlog) + 1
        /\ backlog'[Len(backlog) + 1] = c
        /\ \A i \in 1 .. Len(backlog) : backlog'[i] = backlog[i] /\ backlog[i] \in Clients
    BY <1>1 DEF Types
  <2>2. \A i \in 1 .. Len(backlog) + 1 : i \in 1 .. Len(backlog) \/ i = Len(backlog) + 1
    BY <2>1
  <2>3. \A i \in 1 .. Len(backlog) : backlog[i] # c
    BY <1>1 DEF Waits
  <2>4. \A i \in 1 .. Len(backlog) + 1 : conn'[backlog'[i]] = "backlog"
    BY <1>2, <2>1, <2>2 DEF Waits
  <2>5. \A i, j \in 1 .. Len(backlog) + 1 : backlog'[i] = backlog'[j] => i = j
    BY <2>1, <2>2, <2>3 DEF Waits
  <2> QED BY <2>1, <2>4, <2>5 DEF Waits
<1>6. Hand'
  BY <1>1, <1>2 DEF Hand, Types
<1>7. Handlings'
  BY <1>1, <1>2 DEF Handlings, Handled
<1>8. Dangles' /\ HostOutlived'
  BY <1>1 DEF Dangles, HostOutlived
<1>9. Known'
  BY <1>1, <1>2 DEF Known, Left
<1> QED BY <1>3, <1>4, <1>5, <1>6, <1>7, <1>8, <1>9

\* A client says the one thing it says.
LEMMA SayStep ==
    ASSUME IInv, NEW c \in Clients, Say(c)
    PROVE  IInv'
<1> USE DEF IInv, pool, hostVars
<1>1. /\ said[c] = "nothing"
      /\ said' \in [Clients -> {"nothing", "request", "malformed", "throws"}]
      /\ \A d \in Clients : d # c => said'[d] = said[d]
      /\ UNCHANGED <<kind, hostVars, isRunning, listening, serve, current, conn, backlog, step, pool>>
  BY DEF Say, Types
<1>2. Types' /\ Life' /\ Stopped' /\ Waits'
  BY <1>1 DEF Types, Life, Stopped, Waits
<1>3. Hand'
  BY <1>1 DEF Hand, Types
<1>4. Handlings' /\ Known'
  BY <1>1 DEF Handlings, Handled, Known, Left
<1>5. Dangles' /\ HostOutlived'
  BY <1>1 DEF Dangles, HostOutlived
<1> QED BY <1>2, <1>3, <1>4, <1>5

------------------------------------------------------------------------------
(* _Serve *)

\* Where there is a serving thread the host awaits it: nothing uses it late.
LEMMA ServeHost ==
    ASSUME IInv, serve # "none", host # "crashed"
    PROVE  host = "await" /\ dangling = {}
BY DEF IInv, Types, Life, Dangles

\* A step of the loop with no connection in hand before or after it.
LEMMA LoopStep ==
    ASSUME IInv, Loop \/ AcceptNone
    PROVE  IInv'
<1> USE DEF IInv, pool, hostVars, Loop, AcceptNone
<1>1. /\ UNCHANGED <<kind, hostVars, isRunning, listening, current, conn, said, backlog, step, pool>>
      /\ serve \in {"loop", "accept"} /\ serve' \in {"loop", "accept", "close"}
      /\ serve' = "close" => ~ isRunning
  BY DEF Types
<1>2. Types'
  BY <1>1 DEF Types
<1>3. Life' /\ Stopped' /\ Waits'
  BY <1>1 DEF Life, Stopped, Waits
<1>4. Hand' /\ Handlings'
  BY <1>1 DEF Hand, Handlings, Handled
<1>5. Dangles' /\ HostOutlived' /\ Known'
  BY <1>1 DEF Dangles, HostOutlived, Known, Left
<1> QED BY <1>2, <1>3, <1>4, <1>5

\* _Serve accepts a connection.
LEMMA AcceptStep ==
    ASSUME IInv, Accept
    PROVE  IInv'
<1> USE DEF IInv, pool, hostVars
<1> DEFINE c == Head(backlog)
<1>1. /\ serve = "accept" /\ serve' = "check" /\ backlog # <<>>
      /\ current' = c
      /\ conn' = [conn EXCEPT ![c] = "open"]
      /\ backlog' = Tail(backlog)
      /\ UNCHANGED <<kind, hostVars, isRunning, listening, said, step, pool>>
  BY DEF Accept
<1>2. c \in Clients /\ conn[c] = "backlog" /\ step[c] = "none"
  BY <1>1, HeadWaits
<1>3. Waits' /\ backlog' \in Seq(Clients)
  BY <1>1, Dequeue
<1> HIDE DEF c
<1>4. \A d \in Clients : conn'[d] = IF d = c THEN "open" ELSE conn[d]
  BY <1>1, <1>2 DEF Types
<1>5. Types'
  <2>1. conn' \in [Clients -> {"none", "backlog", "open", "closed"}]
    BY <1>1 DEF Types
  <2> QED BY <1>1, <1>2, <1>3, <2>1 DEF Types
<1>6. Life' /\ Stopped'
  BY <1>1 DEF Life, Stopped
<1>7. Hand'
  <2>1. conn'[c] = "open"
    BY <1>2, <1>4
  <2>2. serve' = "check" /\ current' = c /\ step' = step
    BY <1>1
  <2> QED BY <1>2, <2>1, <2>2 DEF Hand
<1>8. Handlings'
  <2>1. \A d \in Clients : conn'[d] = conn[d] \/ (conn'[d] = "open" /\ step[d] = "none")
    BY <1>2, <1>4
  <2>2. UNCHANGED <<kind, interrupted, said, step, pool>> /\ serve' # "none"
    BY <1>1
  <2> QED BY <2>1, <2>2 DEF Handlings, Handled
<1>9. Dangles' /\ HostOutlived'
  BY <1>1 DEF Dangles, HostOutlived
<1>10. Known'
  <2>1. current = None
    BY <1>1 DEF Types
  <2> QED BY <1>1, <1>4, <2>1, ServersAssumption DEF Known, Left
<1> QED BY <1>3, <1>5, <1>6, <1>7, <1>8, <1>9, <1>10

\* _Serve lets its connection go: it was closed, or nobody will close it.
LEMMA LetGoStep ==
    ASSUME IInv, CheckStopped \/ HandleReturns
    PROVE  IInv'
<1> USE DEF IInv, pool, hostVars, CheckStopped, HandleReturns
<1>1. /\ serve \in {"check", "handle"} /\ serve' \in {"loop", "accept"} /\ current' = None
      /\ UNCHANGED <<kind, hostVars, isRunning, listening, conn, said, backlog, step, pool>>
  OBVIOUS
<1>2. Types'
  BY <1>1 DEF Types
<1>3. Life' /\ Stopped' /\ Waits'
  BY <1>1 DEF Life, Stopped, Waits
<1>4. Hand' /\ Handlings'
  BY <1>1 DEF Hand, Handlings, Handled
<1>5. Dangles' /\ HostOutlived'
  BY <1>1 DEF Dangles, HostOutlived
<1>6. Known'
  <2>1. current \in Clients
    BY <1>1 DEF Types
  <2>2. conn[current] = "open" => Left(current)
    <3>1. CASE CheckStopped
      BY <3>1 DEF Stopped, Hand, Left
    <3>2. CASE HandleReturns
      BY <2>1, <3>2 DEF Handlings, Handled, Left
    <3> QED BY <3>1, <3>2
  <2>3. \A c \in Clients : Left(c)' <=> Left(c)
    BY <1>1 DEF Left
  <2> QED BY <1>1, <2>1, <2>2, <2>3 DEF Known
<1> QED BY <1>2, <1>3, <1>4, <1>5, <1>6

\* The Basic server begins to handle its connection, the Threaded one gives it
\* to the pool.
LEMMA BeginStep ==
    ASSUME IInv, host # "crashed", Handle \/ Submit
    PROVE  IInv'
<1> USE DEF IInv, pool, hostVars
<1>1. /\ serve = "check"
      /\ step' = [step EXCEPT ![current] = "parse"]
      /\ UNCHANGED <<kind, hostVars, isRunning, listening, conn, said, backlog, started, finished>>
      /\ \/ /\ kind = "Basic" /\ serve' = "handle" /\ current' = current /\ pending' = pending
         \/ /\ kind = "Threaded" /\ serve' = "accept" /\ current' = None
            /\ pending' = pending \cup {current}
  BY DEF Handle, Submit, Pool!Accept
<1>2. /\ current \in Clients /\ conn[current] = "open"
      /\ \A c \in Clients : step'[c] = IF c = current THEN "parse" ELSE step[c]
  BY <1>1 DEF Types, Hand
<1>3. host = "await" /\ dangling = {}
  BY <1>1, ServeHost
<1>4. Types'
  <2>1. step' \in [Clients -> {"none", "parse", "dispatch", "done"}] /\ pending' \subseteq Clients
    BY <1>1, <1>2 DEF Types
  <2>2. /\ serve' \in {"none", "loop", "accept", "check", "handle", "close", "ended", "threw"}
        /\ current' \in IF serve' \in {"check", "handle", "threw"} THEN Clients ELSE {None}
    BY <1>1, <1>2
  <2> QED BY <1>1, <2>1, <2>2 DEF Types
<1>5. Life' /\ Stopped' /\ Waits'
  BY <1>1 DEF Life, Stopped, Waits
<1>6. Hand'
  BY <1>1 DEF Hand
<1>7. Handlings'
  BY <1>1, <1>2 DEF Handlings, Handled
<1>8. Dangles' /\ HostOutlived'
  BY <1>1, <1>3 DEF Dangles, HostOutlived
<1>9. Known'
  BY <1>1, <1>2 DEF Known, Left
<1> QED BY <1>4, <1>5, <1>6, <1>7, <1>8, <1>9

\* The pool refuses the connection, and _Serve closes it.
LEMMA SubmitRefusedStep ==
    ASSUME IInv, SubmitRefused
    PROVE  IInv'
<1> USE DEF IInv, pool, hostVars
<1>1. /\ serve = "check" /\ serve' = "accept" /\ current' = None
      /\ conn' = [conn EXCEPT ![current] = "closed"]
      /\ UNCHANGED <<kind, hostVars, isRunning, listening, said, backlog, step, pool>>
  BY DEF SubmitRefused
<1>2. /\ current \in Clients /\ conn[current] = "open"
      /\ \A c \in Clients : conn'[c] = IF c = current THEN "closed" ELSE conn[c]
  BY <1>1 DEF Types, Hand
<1>3. Types'
  <2>1. conn' \in [Clients -> {"none", "backlog", "open", "closed"}]
    BY <1>1 DEF Types
  <2> QED BY <1>1, <2>1 DEF Types
<1>4. Life' /\ Stopped'
  BY <1>1 DEF Life, Stopped
<1>5. Waits'
  <2>1. \A i \in 1 .. Len(backlog) : backlog[i] \in Clients
    BY DEF Types
  <2> QED BY <1>1, <1>2, <2>1 DEF Waits
<1>6. Hand' /\ Handlings'
  BY <1>1, <1>2 DEF Hand, Handlings, Handled
<1>7. Dangles' /\ HostOutlived'
  BY <1>1 DEF Dangles, HostOutlived
<1>8. Known'
  BY <1>1, <1>2 DEF Known, Left
<1> QED BY <1>3, <1>4, <1>5, <1>6, <1>7, <1>8

\* _Serve closes the listen socket, and its task is over.
LEMMA CloseStep ==
    ASSUME IInv, Close
    PROVE  IInv'
<1> USE DEF IInv, pool, hostVars
<1>1. /\ serve = "close" /\ serve' = "ended" /\ listening' = FALSE /\ backlog' = <<>>
      /\ conn' = [c \in Clients |-> IF conn[c] = "backlog" THEN "closed" ELSE conn[c]]
      /\ UNCHANGED <<kind, hostVars, isRunning, current, said, step, pool>>
  BY DEF Close, CloseSocket
<1>2. Types'
  <2>1. /\ conn' \in [Clients -> {"none", "backlog", "open", "closed"}]
        /\ backlog' \in Seq(Clients)
    BY <1>1 DEF Types
  <2> QED BY <1>1, <2>1 DEF Types
<1>3. Life' /\ Stopped' /\ Waits'
  BY <1>1 DEF Life, Stopped, Waits
<1>4. Hand' /\ Handlings'
  BY <1>1 DEF Hand, Handlings, Handled
<1>5. Dangles' /\ HostOutlived' /\ Known'
  BY <1>1 DEF Dangles, HostOutlived, Known, Left
<1> QED BY <1>2, <1>3, <1>4, <1>5

------------------------------------------------------------------------------
(* The handling of a connection *)

\* Who handles a connection that is not done with: the serving thread of a Basic
\* server, or a worker.  Whoever it is, the connection was accepted; without a
\* serving thread it is a worker, and ^C came.
LEMMA HandlingKnown ==
    ASSUME IInv, NEW c \in Clients, Handling(c)
    PROVE  /\ kind = "Basic" => serve = "handle" /\ c = current
           /\ kind = "Threaded" => c \in started /\ step[c] # "none"
           /\ serve = "none" => kind = "Threaded" /\ interrupted
<1>1. kind \in {"Basic", "Threaded"}
  BY DEF IInv, Types
<1>2. kind = "Basic" => serve = "handle" /\ c = current
  BY DEF Handling
<1>3. kind = "Threaded" => c \in started /\ step[c] # "none"
  BY DEF Handling, IInv, Handlings, Handled
<1>4. kind = "Threaded" => interrupted \/ serve # "none"
  BY <1>3 DEF IInv, Handlings, Handled
<1> QED BY <1>1, <1>2, <1>3, <1>4

\* A worker takes the task of a connection.
LEMMA WorkerStartStep ==
    ASSUME IInv, NEW c \in Clients, WorkerStart(c)
    PROVE  IInv'
<1> USE DEF IInv, hostVars
<1>1. /\ c \in pending
      /\ pending' = pending \ {c} /\ started' = started \cup {c}
      /\ UNCHANGED <<kind, hostVars, isRunning, listening, serve, current, conn, said, backlog, step>>
  BY DEF WorkerStart, Pool!Start
<1>2. Types' /\ Life' /\ Stopped' /\ Waits'
  BY <1>1 DEF Types, Life, Stopped, Waits
<1>3. Hand' /\ Handlings'
  BY <1>1 DEF Hand, Handlings, Handled
<1>4. Dangles' /\ HostOutlived' /\ Known'
  BY <1>1 DEF Dangles, HostOutlived, Known, Left
<1> QED BY <1>2, <1>3, <1>4

\* What was read moves the connection on; who handles it still has it.
LEMMA ParseStep ==
    ASSUME IInv, NEW c \in Clients, Parse(c) \/ ParseFails(c)
    PROVE  IInv'
<1> USE DEF IInv, hostVars, pool, Parse, ParseFails
<1>1. /\ Handling(c) /\ step[c] = "parse"
      /\ said[c] = "request" \/ said[c] = "malformed"
      /\ UNCHANGED <<kind, hostVars, isRunning, listening, serve, current, conn, said, backlog, pool>>
  OBVIOUS
<1>2. /\ step' \in [Clients -> {"none", "parse", "dispatch", "done"}]
      /\ \A d \in Clients : d # c => step'[d] = step[d]
      /\ step'[c] = "dispatch" \/ (step'[c] = "done" /\ said[c] = "malformed")
  <2>1. step \in [Clients -> {"none", "parse", "dispatch", "done"}]
    BY DEF Types
  <2>2. CASE Parse(c)
    BY <2>1, <2>2
  <2>3. CASE ParseFails(c)
    BY <2>1, <2>3
  <2> QED BY <2>2, <2>3
<1>3. Types' /\ Life' /\ Stopped' /\ Waits'
  BY <1>1, <1>2 DEF Types, Life, Stopped, Waits
<1>4. Hand'
  <2>1. serve \in {"check", "threw"} => current # c
    BY <1>1 DEF Hand
  <2>2. serve \in {"check", "threw"} => current \in Clients
    BY DEF Types
  <2> QED BY <1>1, <1>2, <2>1, <2>2 DEF Hand
<1>5. Handlings'
  BY <1>1, <1>2 DEF Handlings, Handled
<1>6. Dangles'
  BY <1>1 DEF Dangles
<1>7. HostOutlived'
  BY <1>1, <1>2 DEF HostOutlived
<1>8. Known'
  BY <1>1, <1>2 DEF Known, Left
<1> QED BY <1>3, <1>4, <1>5, <1>6, <1>7, <1>8

\* std::stoi throws: the Basic server's _Serve ends, or the process.
LEMMA ParseThrowsStep ==
    ASSUME IInv, host \notin {"crashed", "destroyed"}, NEW c \in Clients, ParseThrows(c)
    PROVE  IInv'
<1> USE DEF IInv, pool
<1>1. /\ Handling(c) /\ step[c] = "parse" /\ said[c] = "throws"
      /\ UNCHANGED <<kind, runs, interrupted, dangling, isRunning, listening, current, conn, said,
                     backlog, step, pool>>
      /\ \/ kind = "Basic" /\ serve' = "threw" /\ host' = host
         \/ kind # "Basic" /\ host' = "crashed" /\ serve' = serve
  BY DEF ParseThrows
<1>2. kind = "Basic" => serve = "handle" /\ c = current
  BY <1>1, HandlingKnown
<1>3. Types'
  BY <1>1, <1>2 DEF Types
<1>4. Life'
  BY <1>1, <1>2 DEF Life
<1>5. Stopped' /\ Waits'
  BY <1>1, <1>2 DEF Stopped, Waits
<1>6. Hand'
  BY <1>1, <1>2 DEF Hand
<1>7. Handlings'
  BY <1>1, <1>2 DEF Handlings, Handled
<1>8. Dangles'
  BY <1>1, <1>2 DEF Dangles
<1>9. HostOutlived'
  BY <1>1, <1>2 DEF HostOutlived
<1>10. Known'
  BY <1>1 DEF Known, Left
<1> QED BY <1>3, <1>4, <1>5, <1>6, <1>7, <1>8, <1>9, <1>10

\* The callback into the host, which may be gone: then a worker calls it.
LEMMA DispatchStep ==
    ASSUME IInv, host \notin {"crashed", "destroyed"}, NEW c \in Clients, Dispatch(c)
    PROVE  IInv'
<1> USE DEF IInv, pool
<1>1. /\ Handling(c) /\ step[c] = "dispatch"
      /\ UNCHANGED <<kind, runs, interrupted, isRunning, listening, serve, current, said, backlog, pool>>
  BY DEF Dispatch
<1>2. /\ step' \in [Clients -> {"none", "parse", "dispatch", "done"}]
      /\ conn' \in [Clients -> {"none", "backlog", "open", "closed"}]
      /\ \A d \in Clients : d # c => step'[d] = step[d] /\ conn'[d] = conn[d]
      /\ step'[c] = "done" /\ conn'[c] = "closed"
  BY DEF Types, Dispatch
<1>3. \/ host = "gone" /\ dangling' = dangling \cup {"callback"} /\ host' \in {"gone", "crashed"}
      \/ host # "gone" /\ UNCHANGED <<dangling, host>>
  BY DEF Dispatch, UseHost
<1>4. host = "gone" => serve = "none" /\ kind = "Threaded" /\ interrupted
  <2>1. host = "gone" => serve = "none"
    BY DEF Life
  <2> QED BY <1>1, <2>1, HandlingKnown
<1>5. Types'
  BY <1>1, <1>2, <1>3 DEF Types
<1>6. Life' /\ Stopped'
  BY <1>1, <1>3 DEF Life, Stopped
<1>7. Waits'
  <2>1. \A i \in 1 .. Len(backlog) : backlog[i] \in Clients
    BY DEF Types
  <2>2. conn[c] # "backlog"
    BY <1>1 DEF Handlings, Handled
  <2> QED BY <1>1, <1>2, <2>1, <2>2 DEF Waits
<1>8. Hand'
  <2>1. serve \in {"check", "threw"} => current # c
    BY <1>1 DEF Hand
  <2>2. serve \in {"check", "threw"} => current \in Clients
    BY DEF Types
  <2> QED BY <1>1, <1>2, <2>1, <2>2 DEF Hand
<1>9. Handlings'
  BY <1>1, <1>2 DEF Handlings, Handled
<1>10. Dangles'
  BY <1>3 DEF Dangles
<1>11. HostOutlived'
  <2>1. "signal" \notin dangling
    BY <1>1 DEF HostOutlived
  <2>2. step[c] # "parse"
    BY <1>1
  <2> QED BY <1>1, <1>2, <1>3, <1>4, <2>1, <2>2 DEF HostOutlived
<1>12. Known'
  BY <1>1, <1>2 DEF Known, Left
<1> QED BY <1>5, <1>6, <1>7, <1>8, <1>9, <1>10, <1>11, <1>12

\* A connection that its task leaves open is one that nobody closes.
LEMMA TaskReturnsStep ==
    ASSUME IInv, NEW c \in Clients, TaskReturns(c)
    PROVE  IInv'
<1> USE DEF IInv, hostVars
<1>1. /\ step[c] = "done" /\ c \in started
      /\ pending' = pending /\ started' = started \ {c}
      /\ UNCHANGED <<kind, hostVars, isRunning, listening, serve, current, conn, said, backlog, step>>
  BY DEF TaskReturns, Pool!Finish
<1>2. Types' /\ Life' /\ Stopped' /\ Waits'
  BY <1>1 DEF Types, Life, Stopped, Waits
<1>3. Hand' /\ Handlings'
  BY <1>1 DEF Hand, Handlings, Handled
<1>4. Dangles' /\ HostOutlived'
  BY <1>1 DEF Dangles, HostOutlived
<1>5. Known'
  <2>1. conn[c] = "open" => Left(c)
    BY <1>1 DEF Handlings, Handled, Left
  <2>2. \A d \in Clients : Left(d)' <=> Left(d)
    BY <1>1 DEF Left
  <2> QED BY <1>1, <2>1, <2>2 DEF Known
<1> QED BY <1>2, <1>3, <1>4, <1>5

------------------------------------------------------------------------------
(* The theorems *)

\* Every step keeps the invariant.
LEMMA NextInvariant == IInv /\ [Next]_vars => IInv'
<1> SUFFICES ASSUME IInv, [Next]_vars PROVE IInv'
  OBVIOUS
<1>1. CASE Process
  <2>1. host # "crashed" /\ host # "destroyed"
    BY <1>1 DEF Process
  <2>2. CASE Run
    BY <2>1, <2>2, RunStep DEF Run
  <2>3. CASE DestroyHost \/ DestroyServer
    BY <2>3, DestroyStep
  <2>4. CASE Serve
    <3>1. CASE Loop \/ AcceptNone
      BY <3>1, LoopStep
    <3>2. CASE Accept
      BY <3>2, AcceptStep
    <3>3. CASE CheckStopped \/ HandleReturns
      BY <3>3, LetGoStep
    <3>4. CASE Handle \/ Submit
      BY <2>1, <3>4, BeginStep
    <3>5. CASE SubmitRefused
      BY <3>5, SubmitRefusedStep
    <3>6. CASE Close
      BY <3>6, CloseStep
    <3> QED BY <2>4, <3>1, <3>2, <3>3, <3>4, <3>5, <3>6 DEF Serve
  <2>5. ASSUME NEW c \in Clients, HandleConnection(c)
        PROVE  IInv'
    <3>1. CASE WorkerStart(c)
      BY <3>1, WorkerStartStep
    <3>2. CASE Parse(c) \/ ParseFails(c)
      BY <3>2, ParseStep
    <3>3. CASE ParseThrows(c)
      BY <2>1, <3>3, ParseThrowsStep
    <3>4. CASE Dispatch(c)
      BY <2>1, <3>4, DispatchStep
    <3>5. CASE TaskReturns(c)
      BY <3>5, TaskReturnsStep
    <3> QED BY <2>5, <3>1, <3>2, <3>3, <3>4, <3>5 DEF HandleConnection
  <2> QED BY <1>1, <2>2, <2>3, <2>4, <2>5 DEF Process
<1>2. CASE Interrupt
  BY <1>2, InterruptStep
<1>3. ASSUME NEW c \in Clients, Connect(c) \/ Say(c)
      PROVE  IInv'
  BY <1>3, ConnectStep, SayStep
<1>4. CASE UNCHANGED vars
  <2> USE <1>4 DEF IInv, vars, hostVars, pool
  <2>1. Types' /\ Life' /\ Stopped' /\ Waits'
    BY DEF Types, Life, Stopped, Waits
  <2>2. Hand' /\ Handlings'
    BY DEF Hand, Handlings, Handled
  <2>3. Dangles' /\ HostOutlived' /\ Known'
    BY DEF Dangles, HostOutlived, Known, Left
  <2> QED BY <2>1, <2>2, <2>3
<1> QED BY <1>1, <1>2, <1>3, <1>4 DEF Next

\* The host, _Serve, the workers and the handler of ^C find what they rely on:
\* what was handled was accepted, what stopped was interrupted.
THEOREM Invariance == Spec => []IInv
<1>1. Init => IInv
  BY InitInvariant
<1>2. IInv /\ [Next]_vars => IInv'
  BY NextInvariant
<1> QED BY <1>1, <1>2, PTL DEF Spec

\* The types; _Serve has a connection exactly while it checks or handles one.
THEOREM TypeCorrect == Spec => []TypeOK
<1>1. IInv => TypeOK
  BY DEF IInv, Types, TypeOK
<1> QED BY <1>1, Invariance, PTL

\* Neither server loses an open connection but those that its code forgets, in
\* every order of accepts, refusals, answers and ^C.
THEOREM NothingLost == Spec => []NothingElseForgotten
<1>1. ASSUME IInv
      PROVE  NothingElseForgotten
  <2> SUFFICES ASSUME NEW c \in Clients, conn[c] = "open"
               PROVE  c \in Forgotten \cup pending \cup started \cup ({current} \ {None})
    BY DEF NothingElseForgotten, OpenConnections
  <2>1. c # None
    BY ServersAssumption
  <2>2. c \in pending \cup started \cup {current} \/ Left(c)
    BY <1>1 DEF IInv, Known
  <2> QED BY <2>1, <2>2 DEF Left, Forgotten, OpenConnections
<1> QED BY <1>1, Invariance, PTL

\* When Run has returned nothing serves, listens or waits: it may be called again.
THEOREM IdleClean == Spec => []IdleIsClean
<1>1. IInv => IdleIsClean
  BY DEF IInv, Life, IdleIsClean
<1> QED BY <1>1, Invariance, PTL

\* Whatever outlives the host: the tasks of an interrupted Threaded server, or a
\* first ^C after a life without any connection handled; nothing else.
THEOREM HostOutlivedOnlySo == Spec => []HostOutlived
<1>1. IInv => HostOutlived
  BY DEF IInv
<1> QED BY <1>1, Invariance, PTL

\* A task that has returned has handled its connection, for good.
FinishedDone == \A c \in finished : c \in Clients /\ step[c] = "done"

\* Every handling that goes on is of a connection that is not done.
LEMMA FinishedDoneStep ==
    ASSUME IInv, FinishedDone, [Next]_vars
    PROVE  FinishedDone'
<1> USE DEF FinishedDone, pool
<1>1. \A c \in finished : step[c] \in {"none", "parse", "dispatch"} => FALSE
  OBVIOUS
<1>2. step \in [Clients -> {"none", "parse", "dispatch", "done"}]
  BY DEF IInv, Types
<1>3. ASSUME finished' = finished, step' = step PROVE FinishedDone'
  BY <1>3
<1>4. ASSUME finished' = finished, NEW c, step[c] # "done", NEW x, step' = [step EXCEPT ![c] = x]
      PROVE  FinishedDone'
  BY <1>2, <1>4
<1>5. CASE Run
  BY <1>3, <1>5 DEF Run, Open, OpenFails, SetRunning, Launch, Await, AwaitThrows, StartAsync
<1>6. CASE DestroyHost \/ DestroyServer
  BY <1>3, <1>6 DEF DestroyHost, DestroyServer
<1>7. CASE Serve
  <2>1. CASE Loop \/ AcceptNone \/ Accept \/ CheckStopped \/ HandleReturns \/ SubmitRefused \/ Close
    BY <1>3, <2>1 DEF Loop, AcceptNone, Accept, CheckStopped, HandleReturns, SubmitRefused, Close
  <2>2. CASE Handle \/ Submit
    <3>1. serve = "check" /\ step' = [step EXCEPT ![current] = "parse"] /\ finished' = finished
      BY <2>2 DEF Handle, Submit, Pool!Accept
    <3>2. step[current] = "none"
      BY <3>1 DEF IInv, Hand
    <3> QED BY <1>4, <3>1, <3>2
  <2> QED BY <1>7, <2>1, <2>2 DEF Serve
<1>8. ASSUME NEW c \in Clients, HandleConnection(c) PROVE FinishedDone'
  <2>1. CASE WorkerStart(c)
    BY <1>3, <2>1 DEF WorkerStart, Pool!Start
  <2>2. CASE Parse(c) \/ ParseFails(c) \/ Dispatch(c)
    <3>1. finished' = finished /\ step[c] # "done"
      BY <2>2 DEF Parse, ParseFails, Dispatch
    <3>2. \E x : step' = [step EXCEPT ![c] = x]
      BY <2>2 DEF Parse, ParseFails, Dispatch
    <3> QED BY <1>4, <3>1, <3>2
  <2>3. CASE ParseThrows(c)
    BY <1>3, <2>3 DEF ParseThrows
  <2>4. CASE TaskReturns(c)
    BY <2>4 DEF TaskReturns, Pool!Finish
  <2> QED BY <1>8, <2>1, <2>2, <2>3, <2>4 DEF HandleConnection
<1>9. CASE Interrupt
  BY <1>2, <1>9 DEF Interrupt
<1>10. ASSUME NEW c \in Clients, Connect(c) \/ Say(c) PROVE FinishedDone'
  BY <1>3, <1>10 DEF Connect, Say
<1>11. CASE UNCHANGED vars
  BY <1>3, <1>11 DEF vars
<1> QED BY <1>5, <1>6, <1>7, <1>8, <1>9, <1>10, <1>11 DEF Next, Process

\* What TaskPool asks of its user is never what holds the Threaded server up: the
\* connection that it submits is no task yet.
SubmitsNewTask ==
    kind = "Threaded" /\ serve = "check" => current \in Clients \ (pending \cup started \cup finished)

\* So the guard of Pool!Accept leaves out nothing that _Serve does.
THEOREM PoolGuardHolds == Spec => []SubmitsNewTask
<1>1. Init => FinishedDone
  BY DEF Init, FinishedDone, Pool!Init
<1>2. IInv /\ FinishedDone /\ [Next]_vars => FinishedDone'
  BY FinishedDoneStep
<1>3. IInv /\ FinishedDone => SubmitsNewTask
  <2> SUFFICES ASSUME IInv, FinishedDone, serve = "check"
               PROVE  current \in Clients \ (pending \cup started \cup finished)
    BY DEF SubmitsNewTask
  <2>1. current \in Clients /\ step[current] = "none"
    BY DEF IInv, Types, Hand
  <2> QED BY <2>1 DEF IInv, Handlings, Handled, FinishedDone
<1> QED BY <1>1, <1>2, <1>3, Invariance, PTL DEF Spec

==============================================================================
