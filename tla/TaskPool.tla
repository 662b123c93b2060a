------------------------------ MODULE TaskPool -------------------------------
(***************************************************************************)
(* What a thread pool promises to the server that submits tasks to it: an  *)
(* accepted task is started at most once, only accepted tasks are started, *)
(* and no more tasks run at a time than there are threads.  A refused      *)
(* Submit changes nothing.  Which task starts next is not promised.        *)
(***************************************************************************)
EXTENDS FiniteSets, Naturals

CONSTANTS Tasks, Threads

VARIABLES
    pending,    \* accepted, not started
    started,    \* running
    finished    \* returned

poolVars == <<pending, started, finished>>

Init == pending = {} /\ started = {} /\ finished = {}

Accept(t) ==
    /\ t \notin pending \cup started \cup finished
    /\ pending' = pending \cup {t}
    /\ UNCHANGED <<started, finished>>

Start(t) ==
    /\ t \in pending
    /\ Cardinality(started) < Threads
    /\ pending' = pending \ {t}
    /\ started' = started \cup {t}
    /\ UNCHANGED finished

Finish(t) ==
    /\ t \in started
    /\ started' = started \ {t}
    /\ finished' = finished \cup {t}
    /\ UNCHANGED pending

Next == \E t \in Tasks : Accept(t) \/ Start(t) \/ Finish(t)

Spec == Init /\ [][Next]_poolVars

==============================================================================
