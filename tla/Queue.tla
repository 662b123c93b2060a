------------------------------- MODULE Queue ---------------------------------
(***************************************************************************)
(* The lock-free bounded queue of minet/src/threading/Queue.h, one action  *)
(* per atomic operation of Push and Pop.                                   *)
(*                                                                         *)
(* A position counts the pushes (or pops) since construction; position n   *)
(* lives in slot n & _mask, which is n % Capacity since the constructor    *)
(* requires a power of two.  The Index of a slot tells whose turn it is:   *)
(* n when position n may be pushed, n + 1 when it may be popped, and       *)
(* n + Capacity when the pop is over and the next lap may push.            *)
(*                                                                         *)
(* memory_order_relaxed: a load of _nextEnqueue or _nextDequeue may return *)
(* any value from the last one the thread saw to the current one, and so   *)
(* may a compare-exchange that fails; one that succeeds sees the current   *)
(* value.  compare_exchange_weak may fail without a reason.  The acquire   *)
(* load of Index is taken to read the last value released.                 *)
(***************************************************************************)
EXTENDS Integers, Sequences, FiniteSets

CONSTANTS
    Producers,  \* threads that call Push
    Consumers,  \* threads that call Pop
    Values,     \* the elements (TData)
    Capacity,   \* _capacity
    MaxPush,    \* bound: no Push begins once this many positions are claimed
    Moved       \* a default-constructed or moved-from TData

Threads == Producers \cup Consumers

ASSUME QueueAssumption ==
    /\ Producers \cap Consumers = {}
    /\ Capacity \in Nat \ {0}
    /\ MaxPush \in Nat
    /\ Moved \notin Values

\* The rest of the constructor's assertion, which makes & _mask a remainder.
ASSUME CapacityIsPowerOfTwo == \E k \in 0 .. Capacity : Capacity = 2 ^ k

VARIABLES
    nextEnqueue,    \* _nextEnqueue
    nextDequeue,    \* _nextDequeue
    slotIndex,      \* Slot::Index
    slotData,       \* Slot::Data
    pc,             \* the next atomic operation of each thread
    next,           \* local `next`: the position the thread is trying for
    data,           \* the element to push, or the popped *data
    log             \* history: the elements in the order they were claimed

shared == <<nextEnqueue, nextDequeue, slotIndex, slotData, log>>
local  == <<pc, next, data>>
vars   == <<shared, local>>

\* &_slots[next & _mask]
Slot(n) == n % Capacity

\* A thread owns the slot of its position from its compare-exchange to its
\* store of Index.
Owning == {"data", "store"}

Goto(t, from, to) ==
    /\ pc[t] = from
    /\ pc' = [pc EXCEPT ![t] = to]

Init ==
    /\ nextEnqueue = 0
    /\ nextDequeue = 0
    /\ slotIndex = [s \in 0 .. Capacity - 1 |-> s]
    /\ slotData = [s \in 0 .. Capacity - 1 |-> Moved]
    /\ pc = [t \in Threads |-> "idle"]
    /\ next = [t \in Threads |-> 0]
    /\ data = [t \in Threads |-> Moved]
    /\ log = <<>>

\* _nextEnqueue.load(relaxed), _nextDequeue.load(relaxed)
RelaxedLoad(t, counter) ==
    \E n \in next[t] .. counter : next' = [next EXCEPT ![t] = n]

------------------------------------------------------------------------------
(* Push *)

PushBegin(p) ==
    /\ Goto(p, "idle", "index")
    /\ nextEnqueue < MaxPush
    /\ \E v \in Values : data' = [data EXCEPT ![p] = v]
    /\ RelaxedLoad(p, nextEnqueue)
    /\ UNCHANGED shared

\* slot->Index.load(acquire) and the three-way comparison.
PushTry(p) ==
    /\ Goto(p, "index", "cas")
    /\ slotIndex[Slot(next[p])] = next[p]
    /\ UNCHANGED <<shared, next, data>>

\* Variant of PushFull: `next >= index`.
PushFullAtTurn(p) ==
    /\ Goto(p, "index", "idle")
    /\ slotIndex[Slot(next[p])] <= next[p]
    /\ UNCHANGED <<shared, next, data>>

PushFull(p) ==                          \* return false
    /\ Goto(p, "index", "idle")
    /\ slotIndex[Slot(next[p])] < next[p]
    /\ UNCHANGED <<shared, next, data>>

PushOutdated(p) ==
    /\ Goto(p, "index", "reload")
    /\ slotIndex[Slot(next[p])] > next[p]
    /\ UNCHANGED <<shared, next, data>>

PushReload(p) ==
    /\ Goto(p, "reload", "index")
    /\ RelaxedLoad(p, nextEnqueue)
    /\ UNCHANGED <<shared, data>>

\* Variant of PushClaim: the slot is published before it is written.
PushClaimPublishing(p) ==
    /\ Goto(p, "cas", "data")
    /\ nextEnqueue = next[p]
    /\ nextEnqueue' = nextEnqueue + 1
    /\ log' = Append(log, data[p])
    /\ slotIndex' = [slotIndex EXCEPT ![Slot(next[p])] = next[p] + 1]
    /\ UNCHANGED <<nextDequeue, slotData, next, data>>

\* compare_exchange_weak(next, next + 1)
PushClaim(p) ==
    /\ Goto(p, "cas", "data")
    /\ nextEnqueue = next[p]
    /\ nextEnqueue' = nextEnqueue + 1
    /\ log' = Append(log, data[p])
    /\ UNCHANGED <<nextDequeue, slotIndex, slotData, next, data>>

\* Variant of PushRetry: the element was moved from before the claim failed.
PushRetryMovedFrom(p) ==
    /\ Goto(p, "cas", "index")
    /\ RelaxedLoad(p, nextEnqueue)
    /\ data' = [data EXCEPT ![p] = Moved]
    /\ UNCHANGED shared

\* It failed, with or without a reason, and loaded `next` again.
PushRetry(p) ==
    /\ Goto(p, "cas", "index")
    /\ RelaxedLoad(p, nextEnqueue)
    /\ UNCHANGED <<shared, data>>

PushData(p) ==
    /\ Goto(p, "data", "store")
    /\ slotData' = [slotData EXCEPT ![Slot(next[p])] = data[p]]
    /\ UNCHANGED <<nextEnqueue, nextDequeue, slotIndex, log, next, data>>

\* Variant of PushStore: the turn is not handed to the consumers.
PushStoreSameTurn(p) ==
    /\ Goto(p, "store", "idle")
    /\ slotIndex' = [slotIndex EXCEPT ![Slot(next[p])] = next[p]]
    /\ next' = [next EXCEPT ![p] = @ + 1]
    /\ UNCHANGED <<nextEnqueue, nextDequeue, slotData, log, data>>

\* Variant of PushStore: the index that Pop stores.
PushStoreNextLap(p) ==
    /\ Goto(p, "store", "idle")
    /\ slotIndex' = [slotIndex EXCEPT ![Slot(next[p])] = next[p] + Capacity]
    /\ next' = [next EXCEPT ![p] = @ + 1]
    /\ UNCHANGED <<nextEnqueue, nextDequeue, slotData, log, data>>

\* Index.store(next + 1, release); return true.  The thread has seen its own
\* increment of _nextEnqueue, so a later relaxed load returns no less.
PushStore(p) ==
    /\ Goto(p, "store", "idle")
    /\ slotIndex' = [slotIndex EXCEPT ![Slot(next[p])] = next[p] + 1]
    /\ next' = [next EXCEPT ![p] = @ + 1]
    /\ UNCHANGED <<nextEnqueue, nextDequeue, slotData, log, data>>

Push(p) ==
    \/ PushBegin(p) \/ PushTry(p) \/ PushFull(p) \/ PushOutdated(p)
    \/ PushReload(p) \/ PushClaim(p) \/ PushRetry(p) \/ PushData(p)
    \/ PushStore(p)

------------------------------------------------------------------------------
(* Pop *)

PopBegin(c) ==
    /\ Goto(c, "idle", "index")
    /\ RelaxedLoad(c, nextDequeue)
    /\ UNCHANGED <<shared, data>>

PopTry(c) ==
    /\ Goto(c, "index", "cas")
    /\ slotIndex[Slot(next[c])] = next[c] + 1
    /\ UNCHANGED <<shared, next, data>>

\* Variant of PopEmpty: spin until the producer of the position is done.
PopEmptyOrWait(c) ==
    /\ Goto(c, "index", "idle")
    /\ slotIndex[Slot(next[c])] < next[c] + 1
    /\ nextDequeue = nextEnqueue
    /\ UNCHANGED <<shared, next, data>>

PopEmpty(c) ==                          \* return false
    /\ Goto(c, "index", "idle")
    /\ slotIndex[Slot(next[c])] < next[c] + 1
    /\ UNCHANGED <<shared, next, data>>

PopOutdated(c) ==
    /\ Goto(c, "index", "reload")
    /\ slotIndex[Slot(next[c])] > next[c] + 1
    /\ UNCHANGED <<shared, next, data>>

PopReload(c) ==
    /\ Goto(c, "reload", "index")
    /\ RelaxedLoad(c, nextDequeue)
    /\ UNCHANGED <<shared, data>>

\* Variant of PopClaim: the slot is released before it is read.
PopClaimReleasing(c) ==
    /\ Goto(c, "cas", "data")
    /\ nextDequeue = next[c]
    /\ nextDequeue' = nextDequeue + 1
    /\ slotIndex' = [slotIndex EXCEPT ![Slot(next[c])] = next[c] + Capacity]
    /\ UNCHANGED <<nextEnqueue, slotData, log, next, data>>

PopClaim(c) ==
    /\ Goto(c, "cas", "data")
    /\ nextDequeue = next[c]
    /\ nextDequeue' = nextDequeue + 1
    /\ UNCHANGED <<nextEnqueue, slotIndex, slotData, log, next, data>>

PopRetry(c) ==
    /\ Goto(c, "cas", "index")
    /\ RelaxedLoad(c, nextDequeue)
    /\ UNCHANGED <<shared, data>>

\* *data = std::move(slot->Data)
PopData(c) ==
    /\ Goto(c, "data", "store")
    /\ data' = [data EXCEPT ![c] = slotData[Slot(next[c])]]
    /\ slotData' = [slotData EXCEPT ![Slot(next[c])] = Moved]
    /\ UNCHANGED <<nextEnqueue, nextDequeue, slotIndex, log, next>>

\* Index.store(next + _capacity, release); return true.
PopStore(c) ==
    /\ Goto(c, "store", "idle")
    /\ slotIndex' = [slotIndex EXCEPT ![Slot(next[c])] = next[c] + Capacity]
    /\ next' = [next EXCEPT ![c] = @ + 1]
    /\ UNCHANGED <<nextEnqueue, nextDequeue, slotData, log, data>>

Pop(c) ==
    \/ PopBegin(c) \/ PopTry(c) \/ PopEmpty(c) \/ PopOutdated(c)
    \/ PopReload(c) \/ PopClaim(c) \/ PopRetry(c) \/ PopData(c)
    \/ PopStore(c)

------------------------------------------------------------------------------

Next ==
    \/ \E p \in Producers : Push(p)
    \/ \E c \in Consumers : Pop(c)

Spec == Init /\ [][Next]_vars

------------------------------------------------------------------------------
(* Properties *)

\* A position is being written from the producer's claim to its store of
\* Index, and being read from the consumer's claim to its store.
Writing(n) == \E p \in Producers : pc[p] \in Owning /\ next[p] = n
Reading(n) == \E c \in Consumers : pc[c] \in Owning /\ next[c] = n

\* Types; a Push that has not returned still holds an element, since `data` is
\* forwarded only after the claim succeeded.
TypeOK ==
    /\ nextEnqueue \in Nat /\ nextDequeue \in Nat
    /\ slotIndex \in [0 .. Capacity - 1 -> Nat]
    /\ slotData \in [0 .. Capacity - 1 -> Values \cup {Moved}]
    /\ pc \in [Threads -> {"idle", "index", "reload", "cas"} \cup Owning]
    /\ next \in [Threads -> Nat]
    /\ data \in [Threads -> Values \cup {Moved}]
    /\ log \in Seq(Values)
    /\ \A p \in Producers : pc[p] # "idle" => data[p] \in Values

\* Two threads between their claim and their store of Index are never in the
\* same slot: Slot::Data is a plain object, so the accesses would race.
SlotExclusion ==
    \A s, t \in Threads :
        /\ s # t
        /\ pc[s] \in Owning /\ pc[t] \in Owning
        => Slot(next[s]) # Slot(next[t])

\* The queue never holds more than Capacity elements: a Push into a full queue
\* does not return true (the contract of Push, Queue.h).
WithinCapacity == nextEnqueue - nextDequeue <= Capacity

\* Push returns false only when the position one lap behind the next free one
\* is still occupied: nobody has claimed it for reading, or its consumer has
\* not released it yet.
PushRefusedByOldest ==
    [][\A p \in Producers : PushFull(p) =>
          \/ nextEnqueue = nextDequeue + Capacity
          \/ nextEnqueue >= Capacity /\ Reading(nextEnqueue - Capacity)]_vars

\* Pop returns false only when nothing is left to claim, or the producer of the
\* next position to pop has not finished writing it.
PopRefusedByOldest ==
    [][\A c \in Consumers : PopEmpty(c) =>
          nextDequeue = nextEnqueue \/ Writing(nextDequeue)]_vars

\* The queue implements the abstract one.  An element counts as accepted, and
\* as handed out, when its position is claimed: the claim decides what the
\* thread will get, although it moves the element out one step later.
Received ==
    [c \in Consumers |-> IF pc[c] = "data" THEN log[next[c] + 1] ELSE data[c]]

Fifo == INSTANCE FifoQueue WITH head <- nextDequeue, got <- Received

FifoSpec == Fifo!Spec

\* The steps at which other threads notice an operation are its claim and its
\* store of Index: between the two an element is accepted but not published, or
\* handed out but its slot not released.  ThreadPool takes its queues to be so.
Published == {n \in 1 .. nextEnqueue : ~ Writing(n - 1)}
Released  == {n \in 1 .. nextDequeue : ~ Reading(n - 1)}

Claims == INSTANCE ClaimQueue WITH head <- nextDequeue, ready <- Published, freed <- Released

ClaimSpec == Claims!Spec

------------------------------------------------------------------------------
(* Why it works when Capacity > 1: the inductive invariant of QueueProofs *)

CountersInv ==
    /\ nextEnqueue = Len(log)
    /\ nextDequeue <= nextEnqueue
    /\ nextEnqueue <= nextDequeue + Capacity

\* The index of a slot is at least what a thread about to claim it has read;
\* from its claim on, a producer is alone with a slot whose index it alone
\* changes.
ProducersInv ==
    \A p \in Producers :
        /\ next[p] <= nextEnqueue
        /\ pc[p] = "cas" => slotIndex[Slot(next[p])] >= next[p]
        /\ pc[p] \in Owning =>
              /\ nextDequeue <= next[p] /\ next[p] < nextEnqueue
              /\ slotIndex[Slot(next[p])] = next[p]
              /\ data[p] = log[next[p] + 1]
        /\ pc[p] = "store" => slotData[Slot(next[p])] = data[p]

ConsumersInv ==
    \A c \in Consumers :
        /\ next[c] <= nextDequeue
        /\ pc[c] = "cas" => slotIndex[Slot(next[c])] >= next[c] + 1
        /\ pc[c] \in Owning =>
              /\ next[c] < nextDequeue /\ nextEnqueue <= next[c] + Capacity
              /\ slotIndex[Slot(next[c])] = next[c] + 1
        /\ pc[c] = "data" => slotData[Slot(next[c])] = log[next[c] + 1]

\* No position is claimed twice.
OwnersInv ==
    /\ \A p, q \in Producers :
          pc[p] \in Owning /\ pc[q] \in Owning /\ next[p] = next[q] => p = q
    /\ \A c, d \in Consumers :
          pc[c] \in Owning /\ pc[d] \in Owning /\ next[c] = next[d] => c = d

\* A position that is claimed for writing and not for reading is ready to be
\* popped, unless its producer is still writing it.
FilledInv ==
    \A n \in nextDequeue .. nextEnqueue - 1 :
        \/ Writing(n)
        \/ slotIndex[Slot(n)] = n + 1 /\ slotData[Slot(n)] = log[n + 1]

\* A position within a lap of the next one to pop is ready to be pushed, unless
\* the consumer of the previous lap is still reading the slot.
FreeInv ==
    \A n \in nextEnqueue .. nextDequeue + Capacity - 1 :
        Reading(n - Capacity) \/ slotIndex[Slot(n)] = n

\* A thread that holds a position claimed long ago finds its index passed.
OutdatedInv ==
    /\ \A n \in 0 .. nextEnqueue - 1 : slotIndex[Slot(n)] >= n
    /\ \A n \in 0 .. nextDequeue - 1 : slotIndex[Slot(n)] >= n + 1

\* The invariant: every part is needed to show that the others are preserved.
QueueInv ==
    /\ TypeOK
    /\ CountersInv /\ ProducersInv /\ ConsumersInv
    /\ OwnersInv /\ FilledInv /\ FreeInv /\ OutdatedInv

------------------------------------------------------------------------------
(* Progress *)

\* A running thread keeps taking steps; the current value of a counter becomes
\* visible in the end to a thread that keeps loading it, and to its
\* compare-exchange, which does not fail without a reason for ever.
PushFairness(p) ==
    /\ WF_vars(Push(p) /\ pc[p] # "idle")
    /\ SF_vars(\/ PushClaim(p)
               \/ PushRetry(p) /\ next[p] # nextEnqueue /\ next'[p] = nextEnqueue)
    /\ SF_vars(PushReload(p) /\ next'[p] = nextEnqueue)

PopFairness(c) ==
    /\ WF_vars(Pop(c) /\ pc[c] # "idle")
    /\ SF_vars(\/ PopClaim(c)
               \/ PopRetry(c) /\ next[c] # nextDequeue /\ next'[c] = nextDequeue)
    /\ SF_vars(PopReload(c) /\ next'[c] = nextDequeue)

==============================================================================
