----------------------------- MODULE ClaimQueue ------------------------------
(***************************************************************************)
(* The steps of a bounded concurrent queue that its users can see: an      *)
(* element is claimed by the thread that pushes it and published later; it *)
(* is claimed by the thread that pops it and its slot released later.      *)
(* Claims are in order, the second steps in any.  A thread may stop        *)
(* between its two steps, and then others are refused although the queue   *)
(* is neither full nor empty.                                              *)
(*                                                                         *)
(* FifoQueue is what minet/src/threading/Queue.h promises, this is what it *)
(* does at the grain at which its operations interleave with the rest of   *)
(* the program.  Module Queue is shown to implement it, and the queues of  *)
(* module ThreadPool to follow it.                                         *)
(***************************************************************************)
EXTENDS Naturals, Sequences

CONSTANTS
    Values,     \* the elements that are pushed
    Capacity    \* the number of slots

VARIABLES
    log,        \* every element claimed by a Push so far, in order
    head,       \* how many of them are claimed by a Pop
    ready,      \* the positions (from 1) that are published
    freed       \* the positions whose slot is released

claimVars == <<log, head, ready, freed>>

Init == log = <<>> /\ head = 0 /\ ready = {} /\ freed = {}

\* The slot of the next position is in use on the lap before: Push returns false.
Full == Len(log) >= Capacity /\ Len(log) - Capacity + 1 \notin freed

\* The next position is not published: Pop returns false.
Empty == head + 1 \notin ready

ClaimPush(v) ==
    /\ ~ Full
    /\ log' = Append(log, v)
    /\ UNCHANGED <<head, ready, freed>>

Publish(n) ==
    /\ n \notin ready
    /\ ready' = ready \cup {n}
    /\ UNCHANGED <<log, head, freed>>

ClaimPop ==
    /\ ~ Empty
    /\ head' = head + 1
    /\ UNCHANGED <<log, ready, freed>>

Release(n) ==
    /\ n \notin freed
    /\ freed' = freed \cup {n}
    /\ UNCHANGED <<log, head, ready>>

Next ==
    \/ \E v \in Values : ClaimPush(v)
    \/ \E n \in 1 .. Len(log) : Publish(n)
    \/ ClaimPop
    \/ \E n \in 1 .. head : Release(n)

Spec == Init /\ [][Next]_claimVars

==============================================================================
