------------------------------ MODULE MCServers ------------------------------
(***************************************************************************)
(* Instances of Servers for TLC.                                           *)
(***************************************************************************)
EXTENDS Servers

CONSTANT
    Silent      \* the clients that may never say anything

ASSUME SilentAssumption == Silent \subseteq Clients

Lives == host \notin {"crashed", "destroyed"}

\* The host, the serving thread and the workers run.  The clients speak, but for
\* the silent ones of a Threaded server: a Basic server waits for all of them.
FairSpec ==
    /\ Spec
    /\ WF_vars(Lives /\ (SetRunning \/ Launch \/ Await \/ AwaitThrows))
    /\ WF_vars(Lives /\ DestroyServer)
    /\ WF_vars(Lives /\ Serve)
    /\ \A c \in Clients : WF_vars(Lives /\ HandleConnection(c))
    /\ \A c \in Clients \ Silent : WF_vars(Say(c))
    /\ \A c \in Silent : WF_vars(kind = "Basic" /\ Say(c))

\* The descriptors that do not come back.
Held == {c \in OpenConnections : c \in Forgotten \/ c \in Silent}

\* A request is answered or refused and its connection closed, although others
\* say nothing, unless the server is stopped (and forgets it), crashes, or has
\* forgotten so many connections that it cannot accept another.
RequestAnswered ==
    \A c \in Clients :
        said[c] = "request" ~>
            \/ conn[c] = "closed"
            \/ ~ isRunning \/ c \in Forgotten \/ host = "crashed"
            \/ Cardinality(Held) >= FileLimit

\* Once the server runs, Stop makes Run return.  (The constructor of the host
\* installs the handler earlier: an interrupt before SetRunning is forgotten.)
\* Then the host and its server can be destroyed, unless a worker waits for a
\* client that says nothing, for which ~ThreadPool waits too.
StopEndsRun ==
    /\ host = "await" /\ ~ isRunning ~> host \in {"idle", "gone", "destroyed", "crashed"}
    /\ host = "gone" ~> \/ host \in {"destroyed", "crashed"}
                        \/ \E c \in Reading : c \in Silent

==============================================================================
