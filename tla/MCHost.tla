------------------------------- MODULE MCHost --------------------------------
(***************************************************************************)
(* Instances of WebHostBuilder for TLC: settings that are wrong or unusual *)
(* in one place, and handlers, error handlers and requests under the       *)
(* default settings.                                                       *)
(***************************************************************************)
EXTENDS WebHostBuilder

MCPaths == {<<"/", "a">>, <<"a", "/">>, <<"/", "b">>}
MCVerbs == {"GET", "POST"}

ServerSettings ==
    {[name |-> n] : n \in {"Threaded", "Mayhem", "other", WrongType}}
        \cup {[name |-> "Mayhem", capacity |-> n] : n \in {-1, 0, 1, 2, 3, 4, 5, 1000, 8000, Word, WrongType}}
        \cup {[name |-> "Threaded", threads |-> n] : n \in {-1, 0, 2, 9, WrongType}}
        \cup {[port |-> n] : n \in {-1, 0, 1, 80, 65535, 65536, Word + 80, WrongType}}

TwoSinks == <<[file |-> "stdout"], [pattern |-> "q"], [pattern |-> "q", file |-> "log"]>>

LoggingSettings ==
    {[level |-> l] : l \in {"warning", "Error", "warn", WrongType}}
        \cup {[sinks |-> s] : s \in {TwoSinks, <<[pattern |-> "q"]>>,
                                      <<[file |-> "denied"]>>, <<[file |-> WrongType]>>, <<[file |-> NoText]>>, <<WrongType>>, WrongType}}
        \cup {[level |-> "error", pattern |-> "p", sinks |-> TwoSinks, loggers |-> l] :
                 l \in {WrongType,
                        [Server |-> [level |-> "debug"]],
                        [Server |-> [pattern |-> "r", sinks |-> TwoSinks]],
                        [WebHost |-> [level |-> "bogus"]],
                        [WebHost |-> [sinks |-> <<[file |-> "denied"]>>]]}}

Contents ==
    {[server |-> s] : s \in ServerSettings \cup {WrongType}}
        \cup {[logging |-> l] : l \in LoggingSettings \cup {WrongType}}
        \cup {Missing, NoJson, WrongType}

\* One that does not tell its processors, one that does, and two that start fewer
\* threads than the settings, or its processors, ask for.
MCMachines ==
    {[processors |-> n, threads |-> 8, memory |-> 20000] : n \in {0, 4}}
        \cup {[processors |-> 4, threads |-> n, memory |-> 20000] : n \in {0, 3}}

\* One file of interest among others.
MCDisks ==
    {[f \in Files |-> IF f = g THEN c ELSE [server |-> [port |-> 81]]] : g \in Files, c \in Contents}

\* Bound: handlers and requests under the default settings.
Default ==
    /\ path = "" /\ ~ env /\ machine = [processors |-> 4, threads |-> 8, memory |-> 20000]
    /\ disk["other.json"] = NoJson
    /\ DOMAIN cache \subseteq {"Server", "RequestDispatcher", "WebHost"}

Bounded == stage = "initialize" \/ Default \/ UNCHANGED dispatcherVars

BoundedSpec == Init /\ [][HostNext /\ Bounded]_hostVars

==============================================================================
