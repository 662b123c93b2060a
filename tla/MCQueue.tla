------------------------------ MODULE MCQueue --------------------------------
(***************************************************************************)
(* Instances of Queue for TLC.  In the program a queue has one producer    *)
(* (the thread that submits tasks) and two consumers (the worker and the   *)
(* neighbour that steals from it); the class allows any number.            *)
(***************************************************************************)
EXTENDS Queue, TLC

CONSTANT
    Running     \* the threads that keep running; the others may stop anywhere

ASSUME RunningAssumption == Running \subseteq Threads

\* Bound: the element of a producer is the producer itself, so that elements
\* tell who pushed them and each producer has one.
OwnElement == \A p \in Producers : data'[p] \in {p, Moved}

\* Fairness is asked of the running threads only: a thread that has claimed a
\* position and is never scheduled again is part of every behaviour checked.
FairSpec ==
    /\ Init
    /\ [][Next /\ OwnElement]_vars
    /\ \A p \in Producers \cap Running : PushFairness(p)
    /\ \A c \in Consumers \cap Running : PopFairness(c)

\* Lock freedom as Push and Pop promise it: an operation of a running thread
\* returns even if every other thread stopped between its claim and its store
\* of Index, or anywhere else.
OperationReturns == \A t \in Running : pc[t] # "idle" ~> pc[t] = "idle"

==============================================================================
