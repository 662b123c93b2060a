------------------------------ MODULE FifoQueue ------------------------------
(***************************************************************************)
(* What a bounded concurrent queue promises to the threads that use it: an *)
(* accepted element is appended to the log, the elements leave in the      *)
(* order of the log, each exactly once and unchanged, and no more than     *)
(* Capacity of them are inside at any time.  A refused Push or Pop changes *)
(* nothing, so it is a stuttering step here.                               *)
(*                                                                         *)
(* This is the contract of minet/src/threading/Queue.h; module Queue is    *)
(* shown to implement it.                                                  *)
(***************************************************************************)
EXTENDS Naturals, Sequences

CONSTANTS
    Consumers,  \* the threads that pop
    Values,     \* the elements that are pushed
    Capacity,   \* the number of slots
    Moved       \* what a TData holds before it is assigned or once moved from

VARIABLES
    log,        \* every element accepted so far, in order
    head,       \* how many of them have been handed out
    got         \* the element each consumer received last

fifoVars == <<log, head, got>>

Init ==
    /\ log = <<>>
    /\ head = 0
    /\ got = [c \in Consumers |-> Moved]

Enqueue(v) ==
    /\ Len(log) - head < Capacity
    /\ log' = Append(log, v)
    /\ UNCHANGED <<head, got>>

Dequeue(c) ==
    /\ head < Len(log)
    /\ got' = [got EXCEPT ![c] = log[head + 1]]
    /\ head' = head + 1
    /\ UNCHANGED log

Next ==
    \/ \E v \in Values : Enqueue(v)
    \/ \E c \in Consumers : Dequeue(c)

Spec == Init /\ [][Next]_fifoVars

==============================================================================
