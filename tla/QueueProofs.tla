----------------------------- MODULE QueueProofs -----------------------------
(***************************************************************************)
(* Theorems about Queue, for every number of producers and consumers and   *)
(* every Capacity above 1 (with Capacity = 1 they are false: a slot that   *)
(* has just been filled carries the index that tells the next producer it  *)
(* is free).  The proofs do not need Capacity to be a power of two.        *)
(***************************************************************************)
EXTENDS Queue, TLAPS

------------------------------------------------------------------------------
(* Slots *)

\* Division with remainder.
LEMMA DivMod ==
    ASSUME NEW n \in Nat, NEW d \in Nat \ {0}
    PROVE  n \div d \in Nat /\ n % d \in 0 .. d - 1 /\ n = d * (n \div d) + (n % d)
OBVIOUS

\* Different multiples of d are at least d apart.
LEMMA MultiplesApart ==
    ASSUME NEW d \in Nat \ {0}, NEW a \in Nat, NEW b \in Nat, a < b
    PROVE  d * a + d <= d * b
OBVIOUS

\* Positions less than Capacity apart have slots of their own.
LEMMA SlotsDiffer ==
    ASSUME NEW m \in Nat, NEW n \in Nat, m < n, n < m + Capacity, Capacity \in Nat \ {0}
    PROVE  Slot(m) # Slot(n)
<1> DEFINE a == m \div Capacity
<1> DEFINE b == n \div Capacity
<1>1. a \in Nat /\ m = Capacity * a + Slot(m) /\ Slot(m) \in 0 .. Capacity - 1
  BY DivMod DEF Slot
<1>2. b \in Nat /\ n = Capacity * b + Slot(n) /\ Slot(n) \in 0 .. Capacity - 1
  BY DivMod DEF Slot
<1> HIDE DEF a, b
<1>3. Capacity * a \in Nat /\ Capacity * b \in Nat
  BY <1>1, <1>2
<1>4. CASE a = b
  BY <1>1, <1>2, <1>4
<1>5. CASE a < b
  <2>1. Capacity * a + Capacity <= Capacity * b
    BY <1>1, <1>2, <1>5, MultiplesApart
  <2> QED BY <1>1, <1>2, <1>3, <2>1
<1>6. CASE b < a
  <2>1. Capacity * b + Capacity <= Capacity * a
    BY <1>1, <1>2, <1>6, MultiplesApart
  <2> QED BY <1>1, <1>2, <1>3, <2>1
<1> QED BY <1>1, <1>2, <1>4, <1>5, <1>6

\* The position one lap later has the same slot.
LEMMA SlotOfNextLap ==
    ASSUME NEW n \in Nat, Capacity \in Nat \ {0}
    PROVE  Slot(n + Capacity) = Slot(n)
<1> DEFINE a == n \div Capacity
<1> DEFINE b == (n + Capacity) \div Capacity
<1>1. a \in Nat /\ n = Capacity * a + Slot(n) /\ Slot(n) \in 0 .. Capacity - 1
  BY DivMod DEF Slot
<1>2. /\ b \in Nat /\ n + Capacity = Capacity * b + Slot(n + Capacity)
      /\ Slot(n + Capacity) \in 0 .. Capacity - 1
  <2>1. n + Capacity \in Nat
    OBVIOUS
  <2> QED BY <2>1, DivMod DEF Slot
<1> HIDE DEF a, b
<1>3. /\ Capacity * (a + 1) = Capacity * a + Capacity
      /\ Capacity * a \in Nat /\ Capacity * b \in Nat
  BY <1>1, <1>2
<1>4. CASE b = a + 1
  BY <1>1, <1>2, <1>3, <1>4
<1>5. CASE a + 1 < b
  <2>1. Capacity * (a + 1) + Capacity <= Capacity * b
    BY <1>1, <1>2, <1>5, MultiplesApart
  <2> QED BY <1>1, <1>2, <1>3, <2>1
<1>6. CASE b < a + 1
  <2>1. Capacity * b + Capacity <= Capacity * (a + 1)
    BY <1>1, <1>2, <1>6, MultiplesApart
  <2> QED BY <1>1, <1>2, <1>3, <2>1
<1> QED BY <1>1, <1>2, <1>4, <1>5, <1>6

\* Every position has a slot.
LEMMA SlotInRange ==
    ASSUME NEW n \in Nat, Capacity \in Nat \ {0}
    PROVE  Slot(n) \in 0 .. Capacity - 1
BY DivMod DEF Slot

\* What is at least m in a slot stays so when no index gets smaller.
LEMMA LowerBoundsKept ==
    ASSUME Capacity \in Nat \ {0},
           NEW f \in [0 .. Capacity - 1 -> Nat], NEW g \in [0 .. Capacity - 1 -> Nat],
           \A n \in Nat : g[Slot(n)] >= f[Slot(n)]
    PROVE  \A n \in Nat : \A m \in Nat : f[Slot(n)] >= m => g[Slot(n)] >= m
<1>1. ASSUME NEW n \in Nat, NEW m \in Nat, f[Slot(n)] >= m
      PROVE  g[Slot(n)] >= m
  <2>1. f[Slot(n)] \in Nat /\ g[Slot(n)] \in Nat
    BY SlotInRange
  <2> HIDE DEF Slot
  <2> QED BY <1>1, <2>1
<1> QED BY <1>1

------------------------------------------------------------------------------
(* Types *)

\* Every step of the queue keeps the types.
LEMMA TypeStep ==
    ASSUME TypeOK, [Next]_vars
    PROVE  TypeOK'
<1> USE QueueAssumption DEF TypeOK, Threads, Owning
<1> USE DEF shared, local, Goto, RelaxedLoad
<1>1. ASSUME NEW p \in Producers, PushBegin(p) PROVE TypeOK'
  BY <1>1 DEF PushBegin
<1>2. ASSUME NEW p \in Producers, PushTry(p) PROVE TypeOK'
  BY <1>2 DEF PushTry
<1>3. ASSUME NEW p \in Producers, PushFull(p) PROVE TypeOK'
  BY <1>3 DEF PushFull
<1>4. ASSUME NEW p \in Producers, PushOutdated(p) PROVE TypeOK'
  BY <1>4 DEF PushOutdated
<1>5. ASSUME NEW p \in Producers, PushReload(p) PROVE TypeOK'
  BY <1>5 DEF PushReload
<1>6. ASSUME NEW p \in Producers, PushClaim(p) PROVE TypeOK'
  BY <1>6 DEF PushClaim
<1>7. ASSUME NEW p \in Producers, PushRetry(p) PROVE TypeOK'
  BY <1>7 DEF PushRetry
<1>8. ASSUME NEW p \in Producers, PushData(p) PROVE TypeOK'
  BY <1>8, SlotInRange DEF PushData
<1>9. ASSUME NEW p \in Producers, PushStore(p) PROVE TypeOK'
  <2>1. next[p] \in Nat /\ next[p] + 1 \in Nat
    OBVIOUS
  <2>2. slotIndex' \in [0 .. Capacity - 1 -> Nat]
    BY <1>9, <2>1, SlotInRange DEF PushStore
  <2>3. next' \in [Threads -> Nat]
    BY <1>9, <2>1 DEF PushStore
  <2> QED BY <1>9, <2>2, <2>3 DEF PushStore
<1>10. ASSUME NEW c \in Consumers, PopBegin(c) PROVE TypeOK'
  BY <1>10 DEF PopBegin
<1>11. ASSUME NEW c \in Consumers, PopTry(c) PROVE TypeOK'
  BY <1>11 DEF PopTry
<1>12. ASSUME NEW c \in Consumers, PopEmpty(c) PROVE TypeOK'
  BY <1>12 DEF PopEmpty
<1>13. ASSUME NEW c \in Consumers, PopOutdated(c) PROVE TypeOK'
  BY <1>13 DEF PopOutdated
<1>14. ASSUME NEW c \in Consumers, PopReload(c) PROVE TypeOK'
  BY <1>14 DEF PopReload
<1>15. ASSUME NEW c \in Consumers, PopClaim(c) PROVE TypeOK'
  BY <1>15 DEF PopClaim
<1>16. ASSUME NEW c \in Consumers, PopRetry(c) PROVE TypeOK'
  BY <1>16 DEF PopRetry
<1>17. ASSUME NEW c \in Consumers, PopData(c) PROVE TypeOK'
  BY <1>17, SlotInRange DEF PopData
<1>18. ASSUME NEW c \in Consumers, PopStore(c) PROVE TypeOK'
  <2>1. next[c] \in Nat /\ next[c] + Capacity \in Nat
    OBVIOUS
  <2>2. slotIndex' \in [0 .. Capacity - 1 -> Nat]
    BY <1>18, <2>1, SlotInRange DEF PopStore
  <2>3. next' \in [Threads -> Nat]
    BY <1>18, <2>1 DEF PopStore
  <2> QED BY <1>18, <2>2, <2>3 DEF PopStore
<1>19. CASE UNCHANGED vars
  BY <1>19 DEF vars
<1> QED BY <1>1, <1>2, <1>3, <1>4, <1>5, <1>6, <1>7, <1>8, <1>9, <1>10, <1>11,
           <1>12, <1>13, <1>14, <1>15, <1>16, <1>17, <1>18, <1>19
        DEF Next, Push, Pop

\* Every variable keeps its type, for every value of the constants; in
\* particular a Push that has to retry still holds its element.
THEOREM TypeInvariant == Spec => []TypeOK
<1>1. Init => TypeOK
  BY QueueAssumption DEF Init, TypeOK, Threads, Owning
<1>2. TypeOK /\ [Next]_vars => TypeOK'
  BY TypeStep
<1> QED BY <1>1, <1>2, PTL DEF Spec

------------------------------------------------------------------------------
(* The inductive invariant *)

\* A position of the current lap shares no slot with a position being written
\* or read, except the position itself, or the one a lap before it.
LEMMA OwnedSlots ==
    ASSUME TypeOK, CountersInv, ProducersInv, ConsumersInv, Capacity \in Nat \ {0}
    PROVE  /\ \A p \in Producers : pc[p] \in Owning =>
                \A n \in nextDequeue .. nextDequeue + Capacity - 1 :
                    n # next[p] => Slot(n) # Slot(next[p])
           /\ \A c \in Consumers : pc[c] \in Owning =>
                \A n \in nextDequeue .. nextDequeue + Capacity - 1 :
                    n # next[c] + Capacity => Slot(n) # Slot(next[c])
           /\ \A c, d \in Consumers :
                pc[c] \in Owning /\ pc[d] \in Owning /\ next[c] # next[d]
                => Slot(next[c]) # Slot(next[d])
<1> USE DEF TypeOK, CountersInv, ProducersInv, ConsumersInv, Threads
<1>1. ASSUME NEW p \in Producers, pc[p] \in Owning,
             NEW n \in nextDequeue .. nextDequeue + Capacity - 1, n # next[p]
      PROVE  Slot(n) # Slot(next[p])
  <2>1. n \in Nat /\ next[p] \in Nat
    OBVIOUS
  <2>2. next[p] \in nextDequeue .. nextDequeue + Capacity - 1
    BY <1>1
  <2>3. \/ n < next[p] /\ next[p] < n + Capacity
        \/ next[p] < n /\ n < next[p] + Capacity
    BY <1>1, <2>1, <2>2
  <2> QED BY <2>1, <2>3, SlotsDiffer
<1>2. ASSUME NEW c \in Consumers, pc[c] \in Owning,
             NEW n \in nextDequeue .. nextDequeue + Capacity - 1, n # next[c] + Capacity
      PROVE  Slot(n) # Slot(next[c])
  <2>1. n \in Nat /\ next[c] \in Nat /\ next[c] + Capacity \in Nat
    OBVIOUS
  <2>2. /\ nextDequeue <= next[c] + Capacity
        /\ next[c] + Capacity < nextDequeue + Capacity
    BY <1>2, <2>1
  <2>3. \/ n < next[c] + Capacity /\ next[c] + Capacity < n + Capacity
        \/ next[c] + Capacity < n /\ n < next[c] + Capacity + Capacity
    BY <1>2, <2>1, <2>2
  <2>4. Slot(n) # Slot(next[c] + Capacity)
    BY <2>1, <2>3, SlotsDiffer
  <2> QED BY <2>1, <2>4, SlotOfNextLap
<1>3. ASSUME NEW c \in Consumers, NEW d \in Consumers,
             pc[c] \in Owning, pc[d] \in Owning, next[c] # next[d]
      PROVE  Slot(next[c]) # Slot(next[d])
  <2>1. next[c] \in Nat /\ next[d] \in Nat
    OBVIOUS
  <2>2. \/ next[c] < next[d] /\ next[d] < next[c] + Capacity
        \/ next[d] < next[c] /\ next[c] < next[d] + Capacity
    BY <1>3, <2>1
  <2> QED BY <2>1, <2>2, SlotsDiffer
<1> QED BY <1>1, <1>2, <1>3

\* No two threads are in the same slot.
LEMMA OwnersExcluded ==
    ASSUME QueueInv, Capacity \in Nat \ {0}
    PROVE  SlotExclusion
<1>1. ASSUME NEW p \in Producers, NEW t \in Threads, p # t,
             pc[p] \in Owning, pc[t] \in Owning
      PROVE  Slot(next[p]) # Slot(next[t])
  <2>1. next[p] \in nextDequeue .. nextDequeue + Capacity - 1 /\ next[p] < nextEnqueue
    BY <1>1 DEF QueueInv, TypeOK, CountersInv, ProducersInv, Threads
  <2>2. CASE t \in Producers
    <3>1. next[p] # next[t]
      BY <1>1, <2>2 DEF QueueInv, OwnersInv
    <3> QED BY <1>1, <2>1, <2>2, <3>1, OwnedSlots DEF QueueInv
  <2>3. CASE t \in Consumers
    <3>1. next[p] # next[t] + Capacity
      BY <1>1, <2>1, <2>3 DEF QueueInv, TypeOK, ConsumersInv, Threads
    <3> QED BY <1>1, <2>1, <2>3, <3>1, OwnedSlots DEF QueueInv
  <2> QED BY <2>2, <2>3 DEF Threads
<1>2. ASSUME NEW c \in Consumers, NEW d \in Consumers, c # d,
             pc[c] \in Owning, pc[d] \in Owning
      PROVE  Slot(next[c]) # Slot(next[d])
  <2>1. next[c] # next[d]
    BY <1>2 DEF QueueInv, OwnersInv
  <2> QED BY <1>2, <2>1, OwnedSlots DEF QueueInv
<1> QED BY <1>1, <1>2 DEF SlotExclusion, Threads

\* A step of a thread that owns no slot before or after it, and that changes
\* nothing shared.
LEMMA StepOutside ==
    ASSUME QueueInv, TypeOK', UNCHANGED shared,
           \A t \in Threads : pc[t] \in Owning \/ pc'[t] \in Owning =>
              pc'[t] = pc[t] /\ next'[t] = next[t] /\ data'[t] = data[t],
           \A p \in Producers :
              /\ next'[p] <= nextEnqueue
              /\ pc'[p] = "cas" => slotIndex[Slot(next'[p])] >= next'[p],
           \A c \in Consumers :
              /\ next'[c] <= nextDequeue
              /\ pc'[c] = "cas" => slotIndex[Slot(next'[c])] >= next'[c] + 1
    PROVE  QueueInv'
<1> USE DEF QueueInv, shared, Threads
<1>1. CountersInv'
  BY DEF CountersInv
<1>2. ProducersInv'
  BY DEF ProducersInv, Slot, Owning
<1>3. ConsumersInv'
  BY DEF ConsumersInv, Slot, Owning
<1>4. OwnersInv'
  BY DEF OwnersInv
<1>5. \A n : (Writing(n)' <=> Writing(n)) /\ (Reading(n)' <=> Reading(n))
  BY DEF Writing, Reading
<1>6. FilledInv'
  BY <1>5 DEF FilledInv, Slot
<1>7. FreeInv'
  BY <1>5 DEF FreeInv, Slot
<1>8. OutdatedInv'
  BY DEF OutdatedInv, Slot
<1> QED BY <1>1, <1>2, <1>3, <1>4, <1>6, <1>7, <1>8

\* The steps of a push that touch no slot.
LEMMA PushOutside ==
    ASSUME QueueInv, TypeOK', NEW p \in Producers,
           \/ PushBegin(p) \/ PushTry(p) \/ PushFull(p)
           \/ PushOutdated(p) \/ PushReload(p) \/ PushRetry(p)
    PROVE  QueueInv'
<1> USE QueueAssumption DEF QueueInv, TypeOK, Threads, Goto, RelaxedLoad, Owning
<1>1. UNCHANGED shared
  BY DEF PushBegin, PushTry, PushFull, PushOutdated, PushReload, PushRetry
<1>2. \A t \in Threads : pc[t] \in Owning \/ pc'[t] \in Owning =>
         pc'[t] = pc[t] /\ next'[t] = next[t] /\ data'[t] = data[t]
  BY DEF PushBegin, PushTry, PushFull, PushOutdated, PushReload, PushRetry
<1>3. next'[p] <= nextEnqueue /\ (pc'[p] = "cas" => slotIndex[Slot(next'[p])] >= next'[p])
  <2>1. next[p] \in Nat /\ next[p] <= nextEnqueue
    BY DEF ProducersInv
  <2>2. CASE PushBegin(p)
    BY <2>1, <2>2 DEF PushBegin
  <2>3. CASE PushTry(p)
    BY <2>1, <2>3 DEF PushTry
  <2>4. CASE PushFull(p) \/ PushOutdated(p)
    BY <2>1, <2>4 DEF PushFull, PushOutdated
  <2>5. CASE PushReload(p) \/ PushRetry(p)
    BY <2>1, <2>5 DEF PushReload, PushRetry
  <2> QED BY <2>2, <2>3, <2>4, <2>5
<1>4. \A t \in Threads \ {p} : pc'[t] = pc[t] /\ next'[t] = next[t]
  BY DEF PushBegin, PushTry, PushFull, PushOutdated, PushReload, PushRetry
<1>5. \A q \in Producers :
         /\ next'[q] <= nextEnqueue
         /\ pc'[q] = "cas" => slotIndex[Slot(next'[q])] >= next'[q]
  BY <1>3, <1>4 DEF ProducersInv
<1>6. \A c \in Consumers :
         /\ next'[c] <= nextDequeue
         /\ pc'[c] = "cas" => slotIndex[Slot(next'[c])] >= next'[c] + 1
  BY <1>4 DEF ConsumersInv
<1> QED BY <1>1, <1>2, <1>5, <1>6, StepOutside

\* The steps of a pop that touch no slot.
LEMMA PopOutside ==
    ASSUME QueueInv, TypeOK', NEW c \in Consumers,
           \/ PopBegin(c) \/ PopTry(c) \/ PopEmpty(c)
           \/ PopOutdated(c) \/ PopReload(c) \/ PopRetry(c)
    PROVE  QueueInv'
<1> USE QueueAssumption DEF QueueInv, TypeOK, Threads, Goto, RelaxedLoad, Owning
<1>1. UNCHANGED shared
  BY DEF PopBegin, PopTry, PopEmpty, PopOutdated, PopReload, PopRetry
<1>2. \A t \in Threads : pc[t] \in Owning \/ pc'[t] \in Owning =>
         pc'[t] = pc[t] /\ next'[t] = next[t] /\ data'[t] = data[t]
  BY DEF PopBegin, PopTry, PopEmpty, PopOutdated, PopReload, PopRetry
<1>3. next'[c] <= nextDequeue /\ (pc'[c] = "cas" => slotIndex[Slot(next'[c])] >= next'[c] + 1)
  <2>1. next[c] \in Nat /\ next[c] <= nextDequeue
    BY DEF ConsumersInv
  <2>2. CASE PopBegin(c)
    BY <2>1, <2>2 DEF PopBegin
  <2>3. CASE PopTry(c)
    BY <2>1, <2>3 DEF PopTry
  <2>4. CASE PopEmpty(c) \/ PopOutdated(c)
    BY <2>1, <2>4 DEF PopEmpty, PopOutdated
  <2>5. CASE PopReload(c) \/ PopRetry(c)
    BY <2>1, <2>5 DEF PopReload, PopRetry
  <2> QED BY <2>2, <2>3, <2>4, <2>5
<1>4. \A t \in Threads \ {c} : pc'[t] = pc[t] /\ next'[t] = next[t]
  BY DEF PopBegin, PopTry, PopEmpty, PopOutdated, PopReload, PopRetry
<1>5. \A p \in Producers :
         /\ next'[p] <= nextEnqueue
         /\ pc'[p] = "cas" => slotIndex[Slot(next'[p])] >= next'[p]
  BY <1>4 DEF ProducersInv
<1>6. \A d \in Consumers :
         /\ next'[d] <= nextDequeue
         /\ pc'[d] = "cas" => slotIndex[Slot(next'[d])] >= next'[d] + 1
  BY <1>3, <1>4 DEF ConsumersInv
<1> QED BY <1>1, <1>2, <1>5, <1>6, StepOutside

\* A producer that claims position nextEnqueue finds the slot free: the index
\* it read is at least the position, so the slot is neither filled nor being
\* read on the previous lap.  This is where Capacity > 1 is needed.
LEMMA ClaimedSlotIsFree ==
    ASSUME QueueInv, Capacity > 1, NEW p \in Producers, PushClaim(p)
    PROVE  /\ slotIndex[Slot(nextEnqueue)] = nextEnqueue
           /\ nextEnqueue < nextDequeue + Capacity
           /\ \A c \in Consumers :
                 pc[c] \in Owning => nextEnqueue < next[c] + Capacity
<1> USE QueueAssumption DEF QueueInv, TypeOK, CountersInv, Threads
<1>1. slotIndex[Slot(nextEnqueue)] >= nextEnqueue
  BY DEF PushClaim, Goto, ProducersInv
<1>2. ASSUME NEW n \in Nat, nextEnqueue = n + Capacity
      PROVE  slotIndex[Slot(n)] >= n + Capacity
  BY <1>1, <1>2, SlotOfNextLap
<1>3. nextEnqueue < nextDequeue + Capacity
  <2>1. CASE nextEnqueue = nextDequeue + Capacity
    <3>1. nextDequeue \in nextDequeue .. nextEnqueue - 1
      BY <2>1
    <3>2. \/ slotIndex[Slot(nextDequeue)] = nextDequeue
          \/ slotIndex[Slot(nextDequeue)] = nextDequeue + 1
      BY <3>1 DEF FilledInv, Writing, ProducersInv
    <3> QED BY <1>2, <2>1, <3>2
  <2> QED BY <2>1
<1>4. ASSUME NEW c \in Consumers, pc[c] \in Owning
      PROVE  nextEnqueue < next[c] + Capacity
  <2>1. next[c] \in Nat /\ nextEnqueue <= next[c] + Capacity
        /\ slotIndex[Slot(next[c])] = next[c] + 1
    BY <1>4 DEF ConsumersInv
  <2>2. CASE nextEnqueue = next[c] + Capacity
    BY <1>2, <2>1, <2>2
  <2> QED BY <2>1, <2>2
<1>5. slotIndex[Slot(nextEnqueue)] = nextEnqueue
  <2>1. ~ Reading(nextEnqueue - Capacity)
    BY <1>4 DEF Reading
  <2>2. nextEnqueue \in nextEnqueue .. nextDequeue + Capacity - 1
    BY <1>3
  <2> QED BY <2>1, <2>2 DEF FreeInv
<1> QED BY <1>3, <1>4, <1>5

\* The compare-exchange by which a push claims its position.
LEMMA PushClaimStep ==
    ASSUME QueueInv, TypeOK', Capacity > 1, NEW p \in Producers, PushClaim(p)
    PROVE  QueueInv'
<1>0. /\ slotIndex[Slot(nextEnqueue)] = nextEnqueue
      /\ nextEnqueue < nextDequeue + Capacity
      /\ \A c \in Consumers :
            pc[c] \in Owning => nextEnqueue < next[c] + Capacity
  BY ClaimedSlotIsFree
<1> USE QueueAssumption DEF QueueInv, TypeOK, CountersInv, Threads, Owning
<1>1. /\ nextEnqueue' = nextEnqueue + 1 /\ next[p] = nextEnqueue
      /\ log' = Append(log, data[p])
      /\ pc[p] = "cas" /\ pc'[p] = "data"
      /\ \A t \in Threads \ {p} : pc'[t] = pc[t]
      /\ UNCHANGED <<nextDequeue, slotIndex, slotData, next, data>>
  BY DEF PushClaim, Goto
<1>2. data[p] \in Values
  BY <1>1
<1>3. /\ Len(log') = Len(log) + 1
      /\ log'[nextEnqueue + 1] = data[p]
      /\ \A n \in 0 .. nextEnqueue - 1 : log'[n + 1] = log[n + 1]
  BY <1>1, <1>2
<1>4. CountersInv'
  BY <1>0, <1>1, <1>3
<1>5. ProducersInv'
  <2>1. ASSUME NEW q \in Producers, q # p
        PROVE  /\ next'[q] <= nextEnqueue'
               /\ pc'[q] = "cas" => slotIndex'[Slot(next'[q])] >= next'[q]
               /\ pc'[q] \in Owning =>
                     /\ nextDequeue' <= next'[q] /\ next'[q] < nextEnqueue'
                     /\ slotIndex'[Slot(next'[q])] = next'[q]
                     /\ data'[q] = log'[next'[q] + 1]
               /\ pc'[q] = "store" => slotData'[Slot(next'[q])] = data'[q]
    BY <1>1, <1>3, <2>1 DEF ProducersInv
  <2>2. nextDequeue <= nextEnqueue /\ slotIndex[Slot(next[p])] = next[p]
    BY <1>0, <1>1
  <2> QED BY <1>1, <1>3, <2>1, <2>2, SMTT(40) DEF ProducersInv, Slot
<1>6. ConsumersInv'
  <2>1. ASSUME NEW c \in Consumers, pc[c] \in Owning
        PROVE  nextEnqueue' <= next[c] + Capacity /\ log'[next[c] + 1] = log[next[c] + 1]
    BY <1>0, <1>1, <1>3, <2>1 DEF ConsumersInv
  <2> QED BY <1>1, <2>1 DEF ConsumersInv, Slot
<1>7. OwnersInv'
  <2>1. ASSUME NEW q \in Producers, q # p, pc'[q] \in Owning
        PROVE  next'[q] # next'[p]
    BY <1>1, <2>1 DEF ProducersInv
  <2>2. \A c \in Consumers : pc'[c] = pc[c] /\ next'[c] = next[c]
    BY <1>1
  <2>3. \A q \in Producers \ {p} : pc'[q] = pc[q] /\ next'[q] = next[q]
    BY <1>1
  <2> QED BY <2>1, <2>2, <2>3 DEF OwnersInv
<1>8. \A n : (Writing(n) => Writing(n)') /\ (Reading(n) => Reading(n)')
  BY <1>1 DEF Writing, Reading
<1>9. FilledInv'
  <2>1. ASSUME NEW n \in nextDequeue .. nextEnqueue
        PROVE  \/ Writing(n)'
               \/ slotIndex[Slot(n)] = n + 1 /\ slotData[Slot(n)] = log'[n + 1]
    <3>1. CASE n = nextEnqueue
      <4>1. pc'[p] \in Owning /\ next'[p] = n
        BY <1>1, <3>1
      <4> QED BY <4>1 DEF Writing
    <3>2. CASE n # nextEnqueue
      <4>1. n \in nextDequeue .. nextEnqueue - 1 /\ n \in 0 .. nextEnqueue - 1
        BY <3>2
      <4>2. log'[n + 1] = log[n + 1]
        BY <1>3, <4>1
      <4> QED BY <1>8, <4>1, <4>2 DEF FilledInv
    <3> QED BY <3>1, <3>2
  <2> QED BY <1>1, <2>1 DEF FilledInv, Slot
<1>10. FreeInv'
  BY <1>1, <1>8 DEF FreeInv, Slot
<1>11. OutdatedInv'
  <2>1. \A n \in 0 .. nextEnqueue : slotIndex[Slot(n)] >= n
    BY <1>0, SMTT(40) DEF OutdatedInv
  <2>2. nextEnqueue' - 1 = nextEnqueue
    BY <1>1
  <2> QED BY <1>1, <2>1, <2>2 DEF OutdatedInv, Slot
<1> QED BY <1>4, <1>5, <1>6, <1>7, <1>9, <1>10, <1>11

\* The move of the element into its slot.
LEMMA PushDataStep ==
    ASSUME QueueInv, TypeOK', Capacity > 1, NEW p \in Producers, PushData(p)
    PROVE  QueueInv'
<1>0. SlotExclusion
  BY OwnersExcluded, QueueAssumption
<1>1. /\ \A n \in nextDequeue .. nextDequeue + Capacity - 1 :
            pc[p] \in Owning /\ n # next[p] => Slot(n) # Slot(next[p])
      /\ \A n \in Nat : Slot(n) \in 0 .. Capacity - 1
  BY OwnedSlots, SlotInRange, QueueAssumption DEF QueueInv
<1> USE QueueAssumption DEF QueueInv, TypeOK, CountersInv, Threads, Owning
<1>2. /\ pc[p] = "data" /\ pc'[p] = "store"
      /\ \A t \in Threads \ {p} : pc'[t] = pc[t]
      /\ slotData' = [slotData EXCEPT ![Slot(next[p])] = data[p]]
      /\ UNCHANGED <<nextEnqueue, nextDequeue, slotIndex, log, next, data>>
  BY DEF PushData, Goto
<1>3. slotData'[Slot(next[p])] = data[p]
  BY <1>1, <1>2
<1>4. \A t \in Threads \ {p} : pc[t] \in Owning =>
         slotData'[Slot(next[t])] = slotData[Slot(next[t])]
  BY <1>0, <1>1, <1>2 DEF SlotExclusion
<1>5. CountersInv'
  BY <1>2
<1>6. ProducersInv'
  BY <1>2, <1>3, <1>4 DEF ProducersInv, Slot
<1>7. ConsumersInv'
  <2>1. \A c \in Consumers : pc'[c] = pc[c] /\ c \in Threads \ {p}
    BY <1>2
  <2> QED BY <1>2, <1>4, <2>1 DEF ConsumersInv, Slot
<1>8. OwnersInv'
  BY <1>2 DEF OwnersInv
<1>9. \A n : (Writing(n)' <=> Writing(n)) /\ (Reading(n)' <=> Reading(n))
  BY <1>2 DEF Writing, Reading
<1>10. FilledInv'
  <2>1. ASSUME NEW n \in nextDequeue .. nextEnqueue - 1, ~ Writing(n)
        PROVE  slotData'[Slot(n)] = slotData[Slot(n)]
    <3>1. n # next[p]
      BY <1>2, <2>1 DEF Writing
    <3>2. Slot(n) # Slot(next[p])
      BY <1>1, <1>2, <3>1
    <3> QED BY <1>1, <1>2, <3>2
  <2> QED BY <1>2, <1>9, <2>1 DEF FilledInv, Slot
<1>11. FreeInv'
  BY <1>2, <1>9 DEF FreeInv, Slot
<1>12. OutdatedInv'
  BY <1>2 DEF OutdatedInv, Slot
<1> QED BY <1>5, <1>6, <1>7, <1>8, <1>10, <1>11, <1>12

\* The store by which a push hands its slot to the consumers.
LEMMA PushStoreStep ==
    ASSUME QueueInv, TypeOK', Capacity > 1, NEW p \in Producers, PushStore(p)
    PROVE  QueueInv'
<1>0. SlotExclusion
  BY OwnersExcluded, QueueAssumption
<1>1. /\ \A n \in nextDequeue .. nextDequeue + Capacity - 1 :
            pc[p] \in Owning /\ n # next[p] => Slot(n) # Slot(next[p])
      /\ \A n \in Nat : Slot(n) \in 0 .. Capacity - 1
  BY OwnedSlots, SlotInRange, QueueAssumption DEF QueueInv
<1> USE QueueAssumption DEF QueueInv, TypeOK, CountersInv, Threads, Owning
<1>2. /\ pc[p] = "store" /\ pc'[p] = "idle" /\ next'[p] = next[p] + 1
      /\ \A t \in Threads \ {p} : pc'[t] = pc[t] /\ next'[t] = next[t]
      /\ slotIndex' = [slotIndex EXCEPT ![Slot(next[p])] = next[p] + 1]
      /\ UNCHANGED <<nextEnqueue, nextDequeue, slotData, log, data>>
  BY DEF PushStore, Goto
<1>3. /\ next[p] \in nextDequeue .. nextEnqueue - 1
      /\ slotIndex[Slot(next[p])] = next[p]
      /\ slotData[Slot(next[p])] = log[next[p] + 1]
  BY <1>2 DEF ProducersInv
<1>4. /\ slotIndex'[Slot(next[p])] = next[p] + 1
      /\ \A n \in Nat : slotIndex'[Slot(n)] >= slotIndex[Slot(n)]
      /\ \A n \in Nat : Slot(n) # Slot(next[p]) => slotIndex'[Slot(n)] = slotIndex[Slot(n)]
  <2>1. next[p] \in Nat /\ Slot(next[p]) \in 0 .. Capacity - 1
    BY <1>1
  <2>2. slotIndex'[Slot(next[p])] = next[p] + 1
    BY <1>2, <2>1
  <2>3. ASSUME NEW n \in Nat
        PROVE  /\ slotIndex'[Slot(n)] >= slotIndex[Slot(n)]
               /\ Slot(n) # Slot(next[p]) => slotIndex'[Slot(n)] = slotIndex[Slot(n)]
    <3>1. Slot(n) \in 0 .. Capacity - 1
      BY <1>1
    <3>2. CASE Slot(n) = Slot(next[p])
      BY <1>3, <2>1, <2>2, <3>2
    <3>3. CASE Slot(n) # Slot(next[p])
      BY <1>2, <2>1, <3>1, <3>3
    <3> QED BY <3>2, <3>3
  <2> QED BY <2>2, <2>3
<1>4a. \A n \in Nat : \A m \in Nat : slotIndex[Slot(n)] >= m => slotIndex'[Slot(n)] >= m
  <2>1. \A n \in Nat : slotIndex'[Slot(n)] >= slotIndex[Slot(n)]
    BY <1>4
  <2>2. /\ slotIndex \in [0 .. Capacity - 1 -> Nat]
        /\ slotIndex' \in [0 .. Capacity - 1 -> Nat]
        /\ Capacity \in Nat \ {0}
    OBVIOUS
  <2> QED BY <2>1, <2>2, LowerBoundsKept
<1>5. \A t \in Threads \ {p} : pc[t] \in Owning =>
         slotIndex'[Slot(next[t])] = slotIndex[Slot(next[t])]
  BY <1>0, <1>2, <1>4 DEF SlotExclusion
<1>6. CountersInv'
  BY <1>2
<1>7. ProducersInv'
  <2>1. next[p] + 1 <= nextEnqueue
    BY <1>3
  <2>2. ASSUME NEW q \in Producers, q # p
        PROVE  /\ next[q] <= nextEnqueue
               /\ pc[q] = "cas" => slotIndex'[Slot(next[q])] >= next[q]
               /\ pc[q] \in Owning =>
                     /\ nextDequeue <= next[q] /\ next[q] < nextEnqueue
                     /\ slotIndex'[Slot(next[q])] = next[q]
                     /\ data[q] = log[next[q] + 1]
               /\ pc[q] = "store" => slotData[Slot(next[q])] = data[q]
    <3>1. /\ next[q] \in Nat /\ Slot(next[q]) \in 0 .. Capacity - 1
          /\ slotIndex'[Slot(next[q])] >= slotIndex[Slot(next[q])]
      BY <1>1, <1>4
    <3>2. /\ slotIndex[Slot(next[q])] \in Nat /\ slotIndex'[Slot(next[q])] \in Nat
          /\ pc[q] \in Owning => slotIndex'[Slot(next[q])] = slotIndex[Slot(next[q])]
      BY <1>5, <2>2, <3>1
    <3>3. pc[q] = "cas" => slotIndex'[Slot(next[q])] >= next[q]
      <4>1. pc[q] = "cas" => slotIndex[Slot(next[q])] >= next[q]
        BY DEF ProducersInv
      <4> QED BY <1>4a, <3>1, <4>1
    <3> QED BY <3>2, <3>3 DEF ProducersInv
  <2> QED BY <1>2, <2>1, <2>2 DEF ProducersInv, Slot
<1>8. ConsumersInv'
  <2>1. ASSUME NEW c \in Consumers
        PROVE  /\ next[c] <= nextDequeue
               /\ pc[c] = "cas" => slotIndex'[Slot(next[c])] >= next[c] + 1
               /\ pc[c] \in Owning =>
                     /\ next[c] < nextDequeue /\ nextEnqueue <= next[c] + Capacity
                     /\ slotIndex'[Slot(next[c])] = next[c] + 1
               /\ pc[c] = "data" => slotData[Slot(next[c])] = log[next[c] + 1]
    <3>1. /\ next[c] \in Nat /\ Slot(next[c]) \in 0 .. Capacity - 1
          /\ slotIndex'[Slot(next[c])] >= slotIndex[Slot(next[c])]
      BY <1>1, <1>4
    <3>2. c \in Threads \ {p}
      OBVIOUS
    <3>3. /\ slotIndex[Slot(next[c])] \in Nat /\ slotIndex'[Slot(next[c])] \in Nat
          /\ pc[c] \in Owning => slotIndex'[Slot(next[c])] = slotIndex[Slot(next[c])]
      BY <1>5, <3>1, <3>2
    <3>4. pc[c] = "cas" => slotIndex'[Slot(next[c])] >= next[c] + 1
      <4>1. pc[c] = "cas" => slotIndex[Slot(next[c])] >= next[c] + 1
        BY DEF ConsumersInv
      <4> HIDE DEF QueueInv, TypeOK, CountersInv
      <4>2. next[c] \in Nat /\ next[c] + 1 \in Nat
        BY <3>1
      <4> QED BY <1>4a, <4>1, <4>2
    <3> QED BY <3>3, <3>4 DEF ConsumersInv
  <2>2. \A c \in Consumers : c \in Threads \ {p}
    OBVIOUS
  <2> QED BY <1>2, <2>1, <2>2 DEF ConsumersInv, Slot
<1>9. OwnersInv'
  <2>1. \A t \in Threads : pc'[t] \in Owning => pc[t] \in Owning /\ next'[t] = next[t]
    BY <1>2
  <2> HIDE DEF TypeOK, CountersInv
  <2> QED BY <2>1 DEF OwnersInv
<1>10. \A n : (Writing(n) /\ n # next[p] => Writing(n)') /\ (Reading(n)' <=> Reading(n))
  BY <1>2 DEF Writing, Reading
<1>11. FilledInv'
  <2>1. ASSUME NEW n \in nextDequeue .. nextEnqueue - 1, n # next[p]
        PROVE  slotIndex'[Slot(n)] = slotIndex[Slot(n)]
    BY <1>1, <1>2, <1>4, <2>1
  <2> QED BY <1>2, <1>3, <1>4, <1>10, <2>1 DEF FilledInv, Slot
<1>12. FreeInv'
  <2>1. ASSUME NEW n \in nextEnqueue .. nextDequeue + Capacity - 1
        PROVE  slotIndex'[Slot(n)] = slotIndex[Slot(n)]
    <3>1. n \in Nat /\ n \in nextDequeue .. nextDequeue + Capacity - 1 /\ n # next[p]
      <4>1. nextEnqueue \in Nat /\ nextDequeue \in Nat /\ nextDequeue <= nextEnqueue
        OBVIOUS
      <4>2. next[p] \in Nat /\ next[p] < nextEnqueue
        BY <1>3
      <4> HIDE DEF QueueInv, TypeOK, CountersInv
      <4> QED BY <4>1, <4>2
    <3>2. Slot(n) # Slot(next[p])
      BY <1>1, <1>2, <3>1
    <3> QED BY <1>4, <3>1, <3>2
  <2> QED BY <1>2, <1>10, <2>1 DEF FreeInv, Slot
<1>13. OutdatedInv'
  <2>1. ASSUME NEW n \in 0 .. nextEnqueue - 1
        PROVE  slotIndex'[Slot(n)] >= n
    <3>1. n \in Nat /\ slotIndex[Slot(n)] >= n
      BY DEF OutdatedInv
    <3> QED BY <1>4a, <3>1
  <2>2. ASSUME NEW n \in 0 .. nextDequeue - 1
        PROVE  slotIndex'[Slot(n)] >= n + 1
    <3>1. n \in Nat /\ n + 1 \in Nat /\ slotIndex[Slot(n)] >= n + 1
      BY DEF OutdatedInv
    <3> QED BY <1>4a, <3>1
  <2> QED BY <1>2, <2>1, <2>2 DEF OutdatedInv, Slot
<1> QED BY <1>6, <1>7, <1>8, <1>9, <1>11, <1>12, <1>13

\* A consumer that claims position nextDequeue finds the slot filled, and no
\* producer is still writing it.
LEMMA ClaimedSlotIsFilled ==
    ASSUME QueueInv, Capacity > 1, NEW c \in Consumers, PopClaim(c)
    PROVE  /\ nextDequeue < nextEnqueue
           /\ slotIndex[Slot(nextDequeue)] = nextDequeue + 1
           /\ slotData[Slot(nextDequeue)] = log[nextDequeue + 1]
           /\ ~ Writing(nextDequeue)
<1> USE QueueAssumption DEF QueueInv, TypeOK, CountersInv, Threads
<1>1. slotIndex[Slot(nextDequeue)] >= nextDequeue + 1
  BY DEF PopClaim, Goto, ConsumersInv
<1>2. nextDequeue < nextEnqueue
  <2>1. CASE nextDequeue = nextEnqueue
    <3>1. ~ Reading(nextDequeue - Capacity)
      <4>1. ASSUME NEW d \in Consumers, pc[d] \in Owning, next[d] = nextDequeue - Capacity
            PROVE  FALSE
        <5>1. next[d] \in Nat /\ next[d] + Capacity = nextDequeue
          BY <4>1
        <5>2. slotIndex[Slot(nextDequeue)] = next[d] + 1
          BY <4>1, <5>1, SlotOfNextLap DEF ConsumersInv
        <5> QED BY <1>1, <5>1, <5>2
      <4> QED BY <4>1 DEF Reading
    <3>2. nextDequeue \in nextEnqueue .. nextDequeue + Capacity - 1
      BY <2>1
    <3> QED BY <1>1, <3>1, <3>2 DEF FreeInv
  <2> QED BY <2>1
<1>3. ~ Writing(nextDequeue)
  BY <1>1 DEF Writing, ProducersInv
<1>4. nextDequeue \in nextDequeue .. nextEnqueue - 1
  BY <1>2
<1> QED BY <1>2, <1>3, <1>4 DEF FilledInv

\* The compare-exchange by which a pop claims its position.
LEMMA PopClaimStep ==
    ASSUME QueueInv, TypeOK', Capacity > 1, NEW c \in Consumers, PopClaim(c)
    PROVE  QueueInv'
<1>0. /\ nextDequeue < nextEnqueue
      /\ slotIndex[Slot(nextDequeue)] = nextDequeue + 1
      /\ slotData[Slot(nextDequeue)] = log[nextDequeue + 1]
      /\ ~ Writing(nextDequeue)
  BY ClaimedSlotIsFilled
<1> USE QueueAssumption DEF QueueInv, TypeOK, CountersInv, Threads, Owning
<1>1. /\ nextDequeue' = nextDequeue + 1 /\ next[c] = nextDequeue
      /\ pc[c] = "cas" /\ pc'[c] = "data"
      /\ \A t \in Threads \ {c} : pc'[t] = pc[t]
      /\ UNCHANGED <<nextEnqueue, slotIndex, slotData, log, next, data>>
  BY DEF PopClaim, Goto
<1>2. CountersInv'
  BY <1>0, <1>1
<1>3. ProducersInv'
  <2>1. ASSUME NEW p \in Producers
        PROVE  pc'[p] = pc[p] /\ (pc[p] \in Owning => nextDequeue + 1 <= next[p])
    <3>1. pc[p] \in Owning => next[p] # nextDequeue
      BY <1>0 DEF Writing
    <3> QED BY <1>1, <3>1 DEF ProducersInv
  <2> QED BY <1>1, <2>1 DEF ProducersInv, Slot
<1>4. ConsumersInv'
  <2>1. nextEnqueue <= next[c] + Capacity
    BY <1>1
  <2>2. ASSUME NEW d \in Consumers, d # c
        PROVE  pc'[d] = pc[d] /\ next[d] <= nextDequeue + 1
               /\ (pc[d] \in Owning => next[d] < nextDequeue + 1)
    BY <1>1, <2>2 DEF ConsumersInv
  <2> QED BY <1>0, <1>1, <2>1, <2>2 DEF ConsumersInv, Slot
<1>5. OwnersInv'
  <2>1. ASSUME NEW d \in Consumers, d # c, pc'[d] \in Owning
        PROVE  next'[d] # next'[c]
    BY <1>1, <2>1 DEF ConsumersInv
  <2>2. \A p \in Producers : pc'[p] = pc[p] /\ next'[p] = next[p]
    BY <1>1
  <2>3. \A d \in Consumers \ {c} : pc'[d] = pc[d] /\ next'[d] = next[d]
    BY <1>1
  <2> QED BY <2>1, <2>2, <2>3 DEF OwnersInv
<1>6. \A n : (Writing(n)' <=> Writing(n)) /\ (Reading(n) => Reading(n)')
  BY <1>1 DEF Writing, Reading
<1>7. FilledInv'
  BY <1>1, <1>6 DEF FilledInv, Slot
<1>8. FreeInv'
  <2>1. ASSUME NEW n \in nextEnqueue .. nextDequeue + Capacity
        PROVE  Reading(n - Capacity)' \/ slotIndex[Slot(n)] = n
    <3>1. CASE n = nextDequeue + Capacity
      <4>1. pc'[c] \in Owning /\ next'[c] = n - Capacity
        BY <1>1, <3>1
      <4> QED BY <4>1 DEF Reading
    <3>2. CASE n # nextDequeue + Capacity
      <4>1. n \in nextEnqueue .. nextDequeue + Capacity - 1
        BY <3>2
      <4> QED BY <1>6, <4>1 DEF FreeInv
    <3> QED BY <3>1, <3>2
  <2>2. nextEnqueue' = nextEnqueue /\ nextDequeue' + Capacity - 1 = nextDequeue + Capacity
    BY <1>1
  <2> QED BY <1>1, <2>1, <2>2 DEF FreeInv, Slot
<1>9. OutdatedInv'
  <2>1. \A n \in 0 .. nextDequeue : slotIndex[Slot(n)] >= n + 1
    BY <1>0, SMTT(40) DEF OutdatedInv
  <2>2. nextDequeue' - 1 = nextDequeue
    BY <1>1
  <2> QED BY <1>1, <2>1, <2>2 DEF OutdatedInv, Slot
<1> QED BY <1>2, <1>3, <1>4, <1>5, <1>7, <1>8, <1>9

\* The move of the element out of its slot.
LEMMA PopDataStep ==
    ASSUME QueueInv, TypeOK', Capacity > 1, NEW c \in Consumers, PopData(c)
    PROVE  QueueInv'
<1>0. SlotExclusion
  BY OwnersExcluded, QueueAssumption
<1>1. /\ \A n \in nextDequeue .. nextDequeue + Capacity - 1 :
            pc[c] \in Owning /\ n # next[c] + Capacity => Slot(n) # Slot(next[c])
      /\ \A n \in Nat : Slot(n) \in 0 .. Capacity - 1
  BY OwnedSlots, SlotInRange, QueueAssumption DEF QueueInv
<1> USE QueueAssumption DEF QueueInv, TypeOK, CountersInv, Threads, Owning
<1>2. /\ pc[c] = "data" /\ pc'[c] = "store"
      /\ \A t \in Threads \ {c} : pc'[t] = pc[t] /\ data'[t] = data[t]
      /\ slotData' = [slotData EXCEPT ![Slot(next[c])] = Moved]
      /\ UNCHANGED <<nextEnqueue, nextDequeue, slotIndex, log, next>>
  BY DEF PopData, Goto
<1>3. \A t \in Threads \ {c} : pc[t] \in Owning =>
         slotData'[Slot(next[t])] = slotData[Slot(next[t])]
  BY <1>0, <1>1, <1>2 DEF SlotExclusion
<1>4. CountersInv'
  BY <1>2
<1>5. ProducersInv'
  <2>1. \A p \in Producers : p \in Threads \ {c} /\ pc'[p] = pc[p] /\ data'[p] = data[p]
    BY <1>2
  <2>2. \A p \in Producers : pc[p] \in Owning =>
           slotData'[Slot(next[p])] = slotData[Slot(next[p])]
    BY <1>3, <2>1
  <2> HIDE DEF TypeOK, CountersInv
  <2> QED BY <1>2, <2>1, <2>2 DEF ProducersInv, Slot
<1>6. ConsumersInv'
  BY <1>2, <1>3 DEF ConsumersInv, Slot
<1>7. OwnersInv'
  BY <1>2 DEF OwnersInv
<1>8. \A n : (Writing(n)' <=> Writing(n)) /\ (Reading(n)' <=> Reading(n))
  BY <1>2 DEF Writing, Reading
<1>9. FilledInv'
  <2>1. ASSUME NEW n \in nextDequeue .. nextEnqueue - 1
        PROVE  slotData'[Slot(n)] = slotData[Slot(n)]
    <3>1. n # next[c] + Capacity
      BY <1>2, <2>1 DEF ConsumersInv
    <3>2. Slot(n) # Slot(next[c])
      BY <1>1, <1>2, <3>1
    <3> QED BY <1>1, <1>2, <3>2
  <2> QED BY <1>2, <1>8, <2>1 DEF FilledInv, Slot
<1>10. FreeInv'
  BY <1>2, <1>8 DEF FreeInv, Slot
<1>11. OutdatedInv'
  BY <1>2 DEF OutdatedInv, Slot
<1> QED BY <1>4, <1>5, <1>6, <1>7, <1>9, <1>10, <1>11

\* The store by which a pop hands its slot to the next lap.
LEMMA PopStoreStep ==
    ASSUME QueueInv, TypeOK', Capacity > 1, NEW c \in Consumers, PopStore(c)
    PROVE  QueueInv'
<1>0. SlotExclusion
  BY OwnersExcluded, QueueAssumption
<1>1. /\ \A n \in nextDequeue .. nextDequeue + Capacity - 1 :
            pc[c] \in Owning /\ n # next[c] + Capacity => Slot(n) # Slot(next[c])
      /\ \A n \in Nat : Slot(n) \in 0 .. Capacity - 1
      /\ \A n \in Nat : Slot(n + Capacity) = Slot(n)
  BY OwnedSlots, SlotInRange, SlotOfNextLap, QueueAssumption DEF QueueInv
<1> USE QueueAssumption DEF QueueInv, TypeOK, CountersInv, Threads, Owning
<1>2. /\ pc[c] = "store" /\ pc'[c] = "idle" /\ next'[c] = next[c] + 1
      /\ \A t \in Threads \ {c} : pc'[t] = pc[t] /\ next'[t] = next[t]
      /\ slotIndex' = [slotIndex EXCEPT ![Slot(next[c])] = next[c] + Capacity]
      /\ UNCHANGED <<nextEnqueue, nextDequeue, slotData, log, data>>
  BY DEF PopStore, Goto
<1>3. /\ next[c] \in Nat /\ next[c] + 1 <= nextDequeue
      /\ nextEnqueue <= next[c] + Capacity
      /\ slotIndex[Slot(next[c])] = next[c] + 1
  BY <1>2 DEF ConsumersInv
<1>3a. /\ nextEnqueue \in Nat /\ nextDequeue \in Nat
       /\ nextDequeue <= nextEnqueue /\ nextEnqueue <= nextDequeue + Capacity
  OBVIOUS
<1>4. /\ slotIndex'[Slot(next[c])] = next[c] + Capacity
      /\ \A n \in Nat : slotIndex'[Slot(n)] >= slotIndex[Slot(n)]
      /\ \A n \in Nat : Slot(n) # Slot(next[c]) => slotIndex'[Slot(n)] = slotIndex[Slot(n)]
  <2>1. Slot(next[c]) \in 0 .. Capacity - 1
    BY <1>1, <1>3
  <2>2. slotIndex'[Slot(next[c])] = next[c] + Capacity
    BY <1>2, <2>1
  <2>3. ASSUME NEW n \in Nat
        PROVE  /\ slotIndex'[Slot(n)] >= slotIndex[Slot(n)]
               /\ Slot(n) # Slot(next[c]) => slotIndex'[Slot(n)] = slotIndex[Slot(n)]
    <3>1. Slot(n) \in 0 .. Capacity - 1
      BY <1>1
    <3>2. CASE Slot(n) = Slot(next[c])
      BY <1>3, <2>1, <2>2, <3>2
    <3>3. CASE Slot(n) # Slot(next[c])
      BY <1>2, <2>1, <3>1, <3>3
    <3> QED BY <3>2, <3>3
  <2> QED BY <2>2, <2>3
<1>4a. \A n \in Nat : \A m \in Nat : slotIndex[Slot(n)] >= m => slotIndex'[Slot(n)] >= m
  <2>1. \A n \in Nat : slotIndex'[Slot(n)] >= slotIndex[Slot(n)]
    BY <1>4
  <2>2. /\ slotIndex \in [0 .. Capacity - 1 -> Nat]
        /\ slotIndex' \in [0 .. Capacity - 1 -> Nat]
        /\ Capacity \in Nat \ {0}
    OBVIOUS
  <2> QED BY <2>1, <2>2, LowerBoundsKept
<1>5. \A t \in Threads \ {c} : pc[t] \in Owning =>
         slotIndex'[Slot(next[t])] = slotIndex[Slot(next[t])]
  BY <1>0, <1>2, <1>4 DEF SlotExclusion
<1>6. CountersInv'
  BY <1>2
<1>7. ProducersInv'
  <2>1. ASSUME NEW p \in Producers
        PROVE  /\ next[p] <= nextEnqueue
               /\ pc[p] = "cas" => slotIndex'[Slot(next[p])] >= next[p]
               /\ pc[p] \in Owning =>
                     /\ nextDequeue <= next[p] /\ next[p] < nextEnqueue
                     /\ slotIndex'[Slot(next[p])] = next[p]
                     /\ data[p] = log[next[p] + 1]
               /\ pc[p] = "store" => slotData[Slot(next[p])] = data[p]
    <3>1. /\ next[p] \in Nat /\ Slot(next[p]) \in 0 .. Capacity - 1
          /\ slotIndex'[Slot(next[p])] >= slotIndex[Slot(next[p])]
          /\ p \in Threads \ {c}
      BY <1>1, <1>4
    <3>2. /\ slotIndex[Slot(next[p])] \in Nat /\ slotIndex'[Slot(next[p])] \in Nat
          /\ pc[p] \in Owning => slotIndex'[Slot(next[p])] = slotIndex[Slot(next[p])]
      BY <1>5, <3>1
    <3>3. pc[p] = "cas" => slotIndex'[Slot(next[p])] >= next[p]
      <4>1. pc[p] = "cas" => slotIndex[Slot(next[p])] >= next[p]
        BY DEF ProducersInv
      <4> QED BY <1>4a, <3>1, <4>1
    <3> QED BY <3>2, <3>3 DEF ProducersInv
  <2>2. \A p \in Producers : p \in Threads \ {c}
    OBVIOUS
  <2> QED BY <1>2, <2>1, <2>2 DEF ProducersInv, Slot
<1>8. ConsumersInv'
  <2>1. ASSUME NEW d \in Consumers, d # c
        PROVE  /\ next[d] <= nextDequeue
               /\ pc[d] = "cas" => slotIndex'[Slot(next[d])] >= next[d] + 1
               /\ pc[d] \in Owning =>
                     /\ next[d] < nextDequeue /\ nextEnqueue <= next[d] + Capacity
                     /\ slotIndex'[Slot(next[d])] = next[d] + 1
               /\ pc[d] = "data" => slotData[Slot(next[d])] = log[next[d] + 1]
    <3>1. /\ next[d] \in Nat /\ Slot(next[d]) \in 0 .. Capacity - 1
          /\ slotIndex'[Slot(next[d])] >= slotIndex[Slot(next[d])]
      BY <1>1, <1>4
    <3>2. /\ slotIndex[Slot(next[d])] \in Nat /\ slotIndex'[Slot(next[d])] \in Nat
          /\ pc[d] \in Owning => slotIndex'[Slot(next[d])] = slotIndex[Slot(next[d])]
      BY <1>5, <2>1, <3>1
    <3>3. pc[d] = "cas" => slotIndex'[Slot(next[d])] >= next[d] + 1
      <4>1. pc[d] = "cas" => slotIndex[Slot(next[d])] >= next[d] + 1
        BY DEF ConsumersInv
      <4> HIDE DEF QueueInv, TypeOK, CountersInv
      <4>2. next[d] \in Nat /\ next[d] + 1 \in Nat
        BY <3>1
      <4> QED BY <1>4a, <4>1, <4>2
    <3>4. pc[d] \in Owning =>
             /\ next[d] < nextDequeue /\ nextEnqueue <= next[d] + Capacity
             /\ slotIndex[Slot(next[d])] = next[d] + 1
      BY DEF ConsumersInv
    <3>5. /\ next[d] <= nextDequeue
          /\ pc[d] = "data" => slotData[Slot(next[d])] = log[next[d] + 1]
      BY DEF ConsumersInv
    <3> QED BY <3>2, <3>3, <3>4, <3>5
  <2> QED BY <1>2, <1>3, <2>1 DEF ConsumersInv, Slot
<1>9. OwnersInv'
  <2>1. \A t \in Threads : pc'[t] \in Owning => pc[t] \in Owning /\ next'[t] = next[t]
    BY <1>2
  <2> HIDE DEF TypeOK, CountersInv
  <2> QED BY <2>1 DEF OwnersInv
<1>10. \A n : (Writing(n)' <=> Writing(n)) /\ (Reading(n) /\ n # next[c] => Reading(n)')
  BY <1>2 DEF Writing, Reading
<1>11. FilledInv'
  <2>1. ASSUME NEW n \in nextDequeue .. nextEnqueue - 1
        PROVE  slotIndex'[Slot(n)] = slotIndex[Slot(n)]
    <3>1. n \in Nat /\ n \in nextDequeue .. nextDequeue + Capacity - 1 /\ n # next[c] + Capacity
      <4> HIDE DEF QueueInv, TypeOK, CountersInv
      <4> QED BY <1>3, <1>3a
    <3>2. Slot(n) # Slot(next[c])
      BY <1>1, <1>2, <3>1
    <3> QED BY <1>4, <3>1, <3>2
  <2> QED BY <1>2, <1>10, <2>1 DEF FilledInv, Slot
<1>12. FreeInv'
  <2>1. ASSUME NEW n \in nextEnqueue .. nextDequeue + Capacity - 1
        PROVE  Reading(n - Capacity)' \/ slotIndex'[Slot(n)] = n
    <3>1. CASE n = next[c] + Capacity
      BY <1>1, <1>3, <1>4, <3>1
    <3>2. CASE n # next[c] + Capacity
      <4>1. n \in Nat /\ n \in nextDequeue .. nextDequeue + Capacity - 1 /\ n - Capacity # next[c]
        <5> HIDE DEF QueueInv, TypeOK, CountersInv
        <5> QED BY <1>3, <1>3a, <3>2
      <4>2. slotIndex'[Slot(n)] = slotIndex[Slot(n)]
        BY <1>1, <1>2, <1>4, <3>2, <4>1
      <4> QED BY <1>10, <4>1, <4>2 DEF FreeInv
    <3> QED BY <3>1, <3>2
  <2> QED BY <1>2, <2>1 DEF FreeInv, Slot
<1>13. OutdatedInv'
  <2>1. ASSUME NEW n \in 0 .. nextEnqueue - 1
        PROVE  slotIndex'[Slot(n)] >= n
    <3>1. n \in Nat /\ slotIndex[Slot(n)] >= n
      BY DEF OutdatedInv
    <3> QED BY <1>4a, <3>1
  <2>2. ASSUME NEW n \in 0 .. nextDequeue - 1
        PROVE  slotIndex'[Slot(n)] >= n + 1
    <3>1. n \in Nat /\ n + 1 \in Nat /\ slotIndex[Slot(n)] >= n + 1
      BY DEF OutdatedInv
    <3> QED BY <1>4a, <3>1
  <2> QED BY <1>2, <2>1, <2>2 DEF OutdatedInv, Slot
<1> QED BY <1>6, <1>7, <1>8, <1>9, <1>11, <1>12, <1>13

\* Every step keeps the invariant.
LEMMA QueueStep ==
    ASSUME QueueInv, Capacity > 1, [Next]_vars
    PROVE  QueueInv'
<1>1. TypeOK'
  BY TypeStep DEF QueueInv
<1>2. ASSUME NEW p \in Producers, Push(p)
      PROVE  QueueInv'
  BY <1>1, <1>2, PushOutside, PushClaimStep, PushDataStep, PushStoreStep DEF Push
<1>3. ASSUME NEW c \in Consumers, Pop(c)
      PROVE  QueueInv'
  BY <1>1, <1>3, PopOutside, PopClaimStep, PopDataStep, PopStoreStep DEF Pop
<1>4. CASE UNCHANGED vars
  BY <1>4 DEF vars, shared, local, QueueInv, TypeOK, CountersInv, ProducersInv,
              ConsumersInv, OwnersInv, FilledInv, FreeInv, OutdatedInv, Writing, Reading, Slot
<1> QED BY <1>2, <1>3, <1>4 DEF Next

\* An empty queue has the invariant.
LEMMA QueueInit ==
    ASSUME Init, Capacity > 1
    PROVE  QueueInv
<1> USE QueueAssumption DEF Init, Threads, Owning
<1>1. TypeOK
  BY DEF TypeOK
<1>2. CountersInv /\ ProducersInv /\ ConsumersInv /\ OwnersInv /\ OutdatedInv
  BY DEF CountersInv, ProducersInv, ConsumersInv, OwnersInv, OutdatedInv
<1>3. FilledInv
  BY DEF FilledInv
<1>4. FreeInv
  <2>1. \A n \in 0 .. Capacity - 1 : Slot(n) = n
    <3>1. ASSUME NEW n \in 0 .. Capacity - 1
          PROVE  n % Capacity = n
      OBVIOUS
    <3> QED BY <3>1 DEF Slot
  <2>2. nextEnqueue .. nextDequeue + Capacity - 1 = 0 .. Capacity - 1
    OBVIOUS
  <2>3. \A n \in 0 .. Capacity - 1 : slotIndex[n] = n
    OBVIOUS
  <2> QED BY <2>1, <2>2, <2>3 DEF FreeInv
<1> QED BY <1>1, <1>2, <1>3, <1>4 DEF QueueInv

\* The invariant of Queue holds in every state of every queue of two slots or
\* more.
THEOREM Invariant == ASSUME Capacity > 1 PROVE Spec => []QueueInv
<1>1. Init => QueueInv
  BY QueueInit
<1>2. QueueInv /\ [Next]_vars => QueueInv'
  BY QueueStep
<1> QED BY <1>1, <1>2, PTL DEF Spec

------------------------------------------------------------------------------
(* What follows from it *)

\* Push and Pop never access the Data of one slot at the same time, whatever
\* the number of threads and wherever they are suspended.
THEOREM Exclusion == ASSUME Capacity > 1 PROVE Spec => []SlotExclusion
<1>1. QueueInv => SlotExclusion
  BY OwnersExcluded, QueueAssumption
<1> QED BY <1>1, Invariant, PTL

\* The queue never holds more than Capacity elements.
THEOREM Bounded == ASSUME Capacity > 1 PROVE Spec => []WithinCapacity
<1>1. QueueInv => WithinCapacity
  BY QueueAssumption DEF QueueInv, TypeOK, CountersInv, WithinCapacity
<1> QED BY <1>1, Invariant, PTL

\* What the invariant says of counters and indices.
LEMMA InvariantTypes ==
    ASSUME QueueInv
    PROVE  /\ nextEnqueue \in Nat /\ nextDequeue \in Nat /\ Capacity \in Nat \ {0}
           /\ nextDequeue <= nextEnqueue /\ nextEnqueue <= nextDequeue + Capacity
           /\ \A t \in Threads : next[t] \in Nat /\ slotIndex[Slot(next[t])] \in Nat
<1>1. \A t \in Threads : next[t] \in Nat
  BY DEF QueueInv, TypeOK
<1>2. \A t \in Threads : Slot(next[t]) \in 0 .. Capacity - 1
  BY <1>1, SlotInRange, QueueAssumption
<1>3. \A t \in Threads : slotIndex[Slot(next[t])] \in Nat
  BY <1>2 DEF QueueInv, TypeOK
<1> QED BY <1>1, <1>3, QueueAssumption DEF QueueInv, TypeOK, CountersInv

\* A Push is refused only while the slot of the next position is still in use
\* on the lap before.
THEOREM PushRefusal == ASSUME Capacity > 1 PROVE Spec => PushRefusedByOldest
<1>1. ASSUME QueueInv, NEW p \in Producers, PushFull(p)
      PROVE  \/ nextEnqueue = nextDequeue + Capacity
             \/ nextEnqueue >= Capacity /\ Reading(nextEnqueue - Capacity)
  <2>0. /\ next[p] \in Nat /\ slotIndex[Slot(next[p])] \in Nat
        /\ nextEnqueue \in Nat /\ nextDequeue \in Nat /\ Capacity \in Nat \ {0}
        /\ nextDequeue <= nextEnqueue /\ nextEnqueue <= nextDequeue + Capacity
    BY <1>1, InvariantTypes DEF Threads
  <2>1. next[p] <= nextEnqueue /\ slotIndex[Slot(next[p])] < next[p]
    BY <1>1 DEF QueueInv, PushFull, ProducersInv
  <2>2. next[p] = nextEnqueue
    <3>1. next[p] \in 0 .. nextEnqueue - 1 => slotIndex[Slot(next[p])] >= next[p]
      BY <1>1 DEF QueueInv, OutdatedInv
    <3> QED BY <2>0, <2>1, <3>1
  <2>3. CASE nextEnqueue < nextDequeue + Capacity
    <3>1. nextEnqueue \in nextEnqueue .. nextDequeue + Capacity - 1
      BY <2>0, <2>3
    <3>2. Reading(nextEnqueue - Capacity) \/ slotIndex[Slot(nextEnqueue)] = nextEnqueue
      BY <1>1, <3>1 DEF QueueInv, FreeInv
    <3>3. Reading(nextEnqueue - Capacity)
      BY <2>0, <2>1, <2>2, <3>2
    <3>4. nextEnqueue >= Capacity
      <4>1. PICK c \in Consumers : next[c] = nextEnqueue - Capacity
        BY <3>3 DEF Reading
      <4>2. next[c] \in Nat
        BY <1>1, InvariantTypes DEF Threads
      <4> QED BY <2>0, <4>1, <4>2
    <3> QED BY <3>3, <3>4
  <2> QED BY <2>0, <2>3
<1>2. QueueInv /\ [Next]_vars =>
        [\A p \in Producers : PushFull(p) =>
            \/ nextEnqueue = nextDequeue + Capacity
            \/ nextEnqueue >= Capacity /\ Reading(nextEnqueue - Capacity)]_vars
  BY <1>1
<1> QED BY <1>2, Invariant, PTL DEF Spec, PushRefusedByOldest

\* A Pop is refused only when there is nothing left to claim, or the producer of
\* the next position has not finished.
THEOREM PopRefusal == ASSUME Capacity > 1 PROVE Spec => PopRefusedByOldest
<1>1. ASSUME QueueInv, NEW c \in Consumers, PopEmpty(c)
      PROVE  nextDequeue = nextEnqueue \/ Writing(nextDequeue)
  <2>0. /\ next[c] \in Nat /\ slotIndex[Slot(next[c])] \in Nat
        /\ nextEnqueue \in Nat /\ nextDequeue \in Nat
        /\ nextDequeue <= nextEnqueue
    BY <1>1, InvariantTypes DEF Threads
  <2>1. next[c] <= nextDequeue /\ slotIndex[Slot(next[c])] < next[c] + 1
    BY <1>1 DEF QueueInv, PopEmpty, ConsumersInv
  <2>2. next[c] = nextDequeue
    <3>1. next[c] \in 0 .. nextDequeue - 1 => slotIndex[Slot(next[c])] >= next[c] + 1
      BY <1>1 DEF QueueInv, OutdatedInv
    <3> QED BY <2>0, <2>1, <3>1
  <2>3. CASE nextDequeue < nextEnqueue
    <3>1. nextDequeue \in nextDequeue .. nextEnqueue - 1
      BY <2>0, <2>3
    <3>2. Writing(nextDequeue) \/ slotIndex[Slot(nextDequeue)] = nextDequeue + 1
      BY <1>1, <3>1 DEF QueueInv, FilledInv
    <3> QED BY <2>0, <2>1, <2>2, <3>2
  <2> QED BY <2>0, <2>3
<1>2. QueueInv /\ [Next]_vars =>
        [\A c \in Consumers : PopEmpty(c) =>
            nextDequeue = nextEnqueue \/ Writing(nextDequeue)]_vars
  BY <1>1
<1> QED BY <1>2, Invariant, PTL DEF Spec, PopRefusedByOldest

------------------------------------------------------------------------------
(* The queue implements FifoQueue *)

\* A claim of a push appends its element to the abstract queue.
LEMMA ClaimsAppend ==
    ASSUME QueueInv, Capacity > 1, NEW p \in Producers, PushClaim(p)
    PROVE  Fifo!Enqueue(data[p]) /\ data[p] \in Values
<1>1. /\ nextEnqueue < nextDequeue + Capacity
      /\ nextEnqueue = Len(log) /\ nextDequeue \in Nat /\ log \in Seq(Values)
      /\ Capacity \in Nat
  BY ClaimedSlotIsFree, QueueAssumption DEF QueueInv, TypeOK, CountersInv
<1>2. /\ log' = Append(log, data[p]) /\ nextDequeue' = nextDequeue
      /\ next' = next /\ data' = data
      /\ pc[p] = "cas" /\ \A c \in Consumers : pc'[c] = pc[c]
  BY QueueAssumption DEF PushClaim, Goto, QueueInv, TypeOK, Threads
<1>3. data[p] \in Values
  BY <1>2 DEF QueueInv, TypeOK
<1>4. \A c \in Consumers : pc[c] = "data" => log'[next[c] + 1] = log[next[c] + 1]
  <2>1. ASSUME NEW c \in Consumers, pc[c] = "data"
        PROVE  next[c] + 1 \in 1 .. Len(log)
    <3>1. next[c] \in Nat /\ next[c] < nextDequeue /\ nextDequeue <= nextEnqueue
      BY <2>1 DEF QueueInv, TypeOK, CountersInv, ConsumersInv, Owning, Threads
    <3> QED BY <1>1, <3>1
  <2> QED BY <1>1, <1>2, <1>3, <2>1
<1>5. Received' = Received
  BY <1>2, <1>4 DEF Received
<1>6. Len(log) - nextDequeue < Capacity
  BY <1>1
<1> QED BY <1>2, <1>3, <1>5, <1>6 DEF Fifo!Enqueue

\* A claim of a pop takes the oldest element of the abstract queue.
LEMMA ClaimsRemove ==
    ASSUME QueueInv, Capacity > 1, NEW c \in Consumers, PopClaim(c)
    PROVE  Fifo!Dequeue(c)
<1>1. nextDequeue < Len(log)
  BY ClaimedSlotIsFilled DEF QueueInv, CountersInv
<1>2. /\ nextDequeue' = nextDequeue + 1 /\ log' = log /\ next' = next /\ data' = data
      /\ next[c] = nextDequeue /\ pc'[c] = "data"
      /\ \A d \in Consumers \ {c} : pc'[d] = pc[d]
  BY DEF PopClaim, Goto, QueueInv, TypeOK, Threads
<1>3. Received' = [Received EXCEPT ![c] = log[nextDequeue + 1]]
  BY <1>2 DEF Received
<1> QED BY <1>1, <1>2, <1>3 DEF Fifo!Dequeue

\* The element that a pop moves out is the one it claimed.
LEMMA MovesOutClaimed ==
    ASSUME QueueInv, NEW c \in Consumers, PopData(c)
    PROVE  UNCHANGED <<log, nextDequeue, Received>>
<1>1. /\ log' = log /\ nextDequeue' = nextDequeue /\ next' = next
      /\ pc[c] = "data" /\ pc'[c] = "store"
      /\ data'[c] = slotData[Slot(next[c])]
      /\ \A d \in Consumers \ {c} : pc'[d] = pc[d] /\ data'[d] = data[d]
  BY DEF PopData, Goto, QueueInv, TypeOK, Threads
<1>2. slotData[Slot(next[c])] = log[next[c] + 1]
  BY <1>1 DEF QueueInv, ConsumersInv
<1> QED BY <1>1, <1>2 DEF Received

\* No other step is seen in the abstract queue.
LEMMA RestStutters ==
    ASSUME QueueInv,
           \/ \E p \in Producers : Push(p) /\ ~ PushClaim(p)
           \/ \E c \in Consumers : Pop(c) /\ ~ PopClaim(c) /\ ~ PopData(c)
           \/ UNCHANGED vars
    PROVE  UNCHANGED <<log, nextDequeue, Received>>
<1> USE QueueAssumption DEF QueueInv, TypeOK, Threads, Goto, RelaxedLoad, shared
<1>1. ASSUME NEW p \in Producers, Push(p), ~ PushClaim(p)
      PROVE  /\ log' = log /\ nextDequeue' = nextDequeue
             /\ \A c \in Consumers : pc'[c] = pc[c] /\ next'[c] = next[c] /\ data'[c] = data[c]
  BY <1>1 DEF Push, PushBegin, PushTry, PushFull, PushOutdated, PushReload, PushRetry,
              PushData, PushStore
<1>2. ASSUME NEW c \in Consumers, Pop(c), ~ PopClaim(c), ~ PopData(c)
      PROVE  /\ log' = log /\ nextDequeue' = nextDequeue /\ data' = data
             /\ pc[c] # "data" /\ pc'[c] # "data"
             /\ \A d \in Consumers \ {c} : pc'[d] = pc[d] /\ next'[d] = next[d]
  BY <1>2 DEF Pop, PopBegin, PopTry, PopEmpty, PopOutdated, PopReload, PopRetry, PopStore
<1>3. CASE \E p \in Producers : Push(p) /\ ~ PushClaim(p)
  BY <1>1, <1>3 DEF Received
<1>4. CASE \E c \in Consumers : Pop(c) /\ ~ PopClaim(c) /\ ~ PopData(c)
  <2>1. PICK c \in Consumers : Pop(c) /\ ~ PopClaim(c) /\ ~ PopData(c)
    BY <1>4
  <2>2. \A d \in Consumers :
           (IF pc'[d] = "data" THEN log'[next'[d] + 1] ELSE data'[d])
           = (IF pc[d] = "data" THEN log[next[d] + 1] ELSE data[d])
    BY <1>2, <2>1
  <2> QED BY <1>2, <2>1, <2>2 DEF Received
<1>5. CASE UNCHANGED vars
  BY <1>5 DEF Received, vars, local
<1> QED BY <1>3, <1>4, <1>5

\* The queue is linearizable, with the successful compare-exchange as the point
\* where an operation takes effect: every behaviour of the lock-free queue is,
\* step for step, a behaviour of the sequential bounded FIFO queue.
THEOREM Refinement == ASSUME Capacity > 1 PROVE Spec => FifoSpec
<1>1. Init => Fifo!Init
  BY QueueAssumption DEF Init, Fifo!Init, Received, Threads
<1>2. QueueInv /\ [Next]_vars => [Fifo!Next]_Fifo!fifoVars
  <2> SUFFICES ASSUME QueueInv, [Next]_vars
               PROVE  [Fifo!Next]_Fifo!fifoVars
    OBVIOUS
  <2>1. ASSUME NEW p \in Producers, PushClaim(p) PROVE Fifo!Next
    BY <2>1, ClaimsAppend DEF Fifo!Next
  <2>2. ASSUME NEW c \in Consumers, PopClaim(c) PROVE Fifo!Next
    BY <2>2, ClaimsRemove DEF Fifo!Next
  <2>3. ASSUME NEW c \in Consumers, PopData(c) PROVE UNCHANGED Fifo!fifoVars
    BY <2>3, MovesOutClaimed DEF Fifo!fifoVars
  <2>4. CASE \/ \E p \in Producers : Push(p) /\ ~ PushClaim(p)
             \/ \E c \in Consumers : Pop(c) /\ ~ PopClaim(c) /\ ~ PopData(c)
             \/ UNCHANGED vars
    BY <2>4, RestStutters DEF Fifo!fifoVars
  <2> QED BY <2>1, <2>2, <2>3, <2>4 DEF Next
<1> QED BY <1>1, <1>2, Invariant, PTL DEF Spec, FifoSpec, Fifo!Spec

------------------------------------------------------------------------------
(* The queue implements ClaimQueue *)

\* What a step does to the positions that are being written or read is all that
\* tells whether they are published or released.
LEMMA SameOwners ==
    ASSUME \A p \in Producers :
              /\ pc'[p] \in Owning <=> pc[p] \in Owning
              /\ pc[p] \in Owning => next'[p] = next[p],
           \A c \in Consumers :
              /\ pc'[c] \in Owning <=> pc[c] \in Owning
              /\ pc[c] \in Owning => next'[c] = next[c],
           UNCHANGED <<nextEnqueue, nextDequeue>>
    PROVE  UNCHANGED <<Published, Released>>
<1>1. \A n : Writing(n)' <=> Writing(n)
  BY DEF Writing
<1>2. \A n : Reading(n)' <=> Reading(n)
  BY DEF Reading
<1> QED BY <1>1, <1>2 DEF Published, Released

\* A claim of a push finds the slot of its position released, and leaves the
\* position unpublished.
LEMMA ClaimsPush ==
    ASSUME QueueInv, Capacity > 1, NEW p \in Producers, PushClaim(p)
    PROVE  Claims!ClaimPush(data[p]) /\ data[p] \in Values
<1>1. /\ nextEnqueue = Len(log) /\ nextEnqueue \in Nat /\ nextDequeue \in Nat
      /\ nextDequeue <= nextEnqueue /\ Capacity \in Nat
  BY QueueAssumption DEF QueueInv, TypeOK, CountersInv
<1>2. /\ nextEnqueue < nextDequeue + Capacity
      /\ \A c \in Consumers : pc[c] \in Owning => nextEnqueue < next[c] + Capacity
  BY ClaimedSlotIsFree
<1>3. /\ pc[p] = "cas" /\ next[p] = nextEnqueue /\ pc' = [pc EXCEPT ![p] = "data"]
      /\ nextEnqueue' = nextEnqueue + 1 /\ log' = Append(log, data[p])
      /\ UNCHANGED <<nextDequeue, next>>
  BY DEF PushClaim, Goto
<1>4. data[p] \in Values
  BY <1>3 DEF QueueInv, TypeOK
<1>5. pc'[p] = "data" /\ \A t \in Threads : t # p => pc'[t] = pc[t]
  BY <1>3 DEF QueueInv, TypeOK, Threads
<1>6. ~ Claims!Full
  <2>1. ASSUME nextEnqueue >= Capacity PROVE nextEnqueue - Capacity + 1 \in Released
    <3>1. nextEnqueue - Capacity + 1 \in 1 .. nextDequeue
      BY <1>1, <1>2, <2>1
    <3>2. ~ Reading(nextEnqueue - Capacity)
      <4>1. ASSUME NEW c \in Consumers, pc[c] \in Owning PROVE next[c] # nextEnqueue - Capacity
        <5>1. next[c] \in Nat
          BY DEF QueueInv, TypeOK, Threads
        <5> QED BY <1>1, <1>2, <4>1, <5>1
      <4> QED BY <4>1 DEF Reading
    <3> QED BY <1>1, <3>1, <3>2 DEF Released, Reading
  <2> QED BY <1>1, <2>1 DEF Claims!Full
<1>7. \A n : Writing(n)' <=> Writing(n) \/ n = nextEnqueue
  BY <1>3, <1>5 DEF Writing, Owning, Threads
<1>8. \A n : Reading(n)' <=> Reading(n)
  <2>1. \A c \in Consumers : pc'[c] = pc[c]
    BY <1>5, QueueAssumption DEF Threads
  <2> QED BY <1>3, <2>1 DEF Reading
<1>9. Published' = Published
  <2>1. \A n \in 1 .. nextEnqueue + 1 : n - 1 = nextEnqueue <=> n = nextEnqueue + 1
    BY <1>1
  <2>2. \A n : n \in 1 .. nextEnqueue <=> n \in 1 .. nextEnqueue + 1 /\ n # nextEnqueue + 1
    BY <1>1
  <2> QED BY <1>3, <1>7, <2>1, <2>2 DEF Published
<1>10. Released' = Released
  BY <1>3, <1>8 DEF Released
<1> QED BY <1>3, <1>4, <1>6, <1>9, <1>10 DEF Claims!ClaimPush

\* The store of Index by which a push ends publishes its position.
LEMMA StorePublishes ==
    ASSUME QueueInv, NEW p \in Producers, PushStore(p)
    PROVE  /\ next[p] + 1 \in 1 .. Len(log)
           /\ Claims!Publish(next[p] + 1)
<1>1. /\ pc[p] = "store" /\ pc' = [pc EXCEPT ![p] = "idle"] /\ next' = [next EXCEPT ![p] = @ + 1]
      /\ UNCHANGED <<nextEnqueue, nextDequeue, log>>
  BY DEF PushStore, Goto
<1>2. /\ pc'[p] = "idle" /\ \A t \in Threads : t # p => pc'[t] = pc[t] /\ next'[t] = next[t]
  BY <1>1 DEF QueueInv, TypeOK, Threads
<1>3. next[p] \in Nat /\ next[p] < nextEnqueue /\ nextEnqueue \in Nat /\ nextEnqueue = Len(log)
  BY <1>1 DEF QueueInv, TypeOK, CountersInv, ProducersInv, Owning, Threads
<1>4. \A q \in Producers : q # p /\ pc[q] \in Owning => next[q] # next[p]
  BY <1>1 DEF QueueInv, OwnersInv, Owning
<1>5. \A n : Writing(n)' <=> Writing(n) /\ n # next[p]
  BY <1>1, <1>2, <1>4 DEF Writing, Owning, Threads
<1>6. \A n : Reading(n)' <=> Reading(n)
  <2>1. \A c \in Consumers : pc'[c] = pc[c] /\ next'[c] = next[c]
    BY <1>2, QueueAssumption DEF Threads
  <2> QED BY <2>1 DEF Reading
<1>7. next[p] + 1 - 1 = next[p] /\ next[p] + 1 \in 1 .. nextEnqueue
  BY <1>3
<1>8. Writing(next[p])
  BY <1>1 DEF Writing, Owning
<1>9. next[p] + 1 \notin Published
  BY <1>3, <1>8 DEF Published, Writing
<1>10. Published' = Published \cup {next[p] + 1}
  <2>1. \A n \in 1 .. nextEnqueue : n - 1 = next[p] <=> n = next[p] + 1
    BY <1>3
  <2> QED BY <1>1, <1>5, <1>7, <2>1 DEF Published
<1>11. Released' = Released
  BY <1>1, <1>6 DEF Released
<1> QED BY <1>1, <1>3, <1>7, <1>9, <1>10, <1>11 DEF Claims!Publish

\* A claim of a pop finds its position published, and leaves the slot in use.
LEMMA ClaimsPop ==
    ASSUME QueueInv, Capacity > 1, NEW c \in Consumers, PopClaim(c)
    PROVE  Claims!ClaimPop
<1>1. nextEnqueue \in Nat /\ nextDequeue \in Nat
  BY DEF QueueInv, TypeOK
<1>2. nextDequeue < nextEnqueue /\ ~ Writing(nextDequeue)
  BY ClaimedSlotIsFilled
<1>3. /\ pc[c] = "cas" /\ next[c] = nextDequeue /\ pc' = [pc EXCEPT ![c] = "data"]
      /\ nextDequeue' = nextDequeue + 1
      /\ UNCHANGED <<nextEnqueue, log, next>>
  BY DEF PopClaim, Goto
<1>4. pc'[c] = "data" /\ \A t \in Threads : t # c => pc'[t] = pc[t]
  BY <1>3 DEF QueueInv, TypeOK, Threads
<1>5. ~ Claims!Empty
  <2>1. nextDequeue + 1 \in 1 .. nextEnqueue /\ nextDequeue + 1 - 1 = nextDequeue
    BY <1>1, <1>2
  <2> QED BY <1>1, <1>2, <2>1 DEF Claims!Empty, Published, Writing
<1>6. \A n : Reading(n)' <=> Reading(n) \/ n = nextDequeue
  BY <1>3, <1>4 DEF Reading, Owning, Threads
<1>7. \A n : Writing(n)' <=> Writing(n)
  <2>1. \A p \in Producers : pc'[p] = pc[p]
    BY <1>4, QueueAssumption DEF Threads
  <2> QED BY <1>3, <2>1 DEF Writing
<1>8. Released' = Released
  <2>1. \A n \in 1 .. nextDequeue + 1 : n - 1 = nextDequeue <=> n = nextDequeue + 1
    BY <1>1
  <2>2. \A n : n \in 1 .. nextDequeue <=> n \in 1 .. nextDequeue + 1 /\ n # nextDequeue + 1
    BY <1>1
  <2> QED BY <1>3, <1>6, <2>1, <2>2 DEF Released
<1>9. Published' = Published
  BY <1>3, <1>7 DEF Published
<1> QED BY <1>3, <1>5, <1>8, <1>9 DEF Claims!ClaimPop

\* The store of Index by which a pop ends releases its slot.
LEMMA StoreReleases ==
    ASSUME QueueInv, NEW c \in Consumers, PopStore(c)
    PROVE  /\ next[c] + 1 \in 1 .. nextDequeue
           /\ Claims!Release(next[c] + 1)
<1>1. /\ pc[c] = "store" /\ pc' = [pc EXCEPT ![c] = "idle"] /\ next' = [next EXCEPT ![c] = @ + 1]
      /\ UNCHANGED <<nextEnqueue, nextDequeue, log>>
  BY DEF PopStore, Goto
<1>2. pc'[c] = "idle" /\ \A t \in Threads : t # c => pc'[t] = pc[t] /\ next'[t] = next[t]
  BY <1>1 DEF QueueInv, TypeOK, Threads
<1>3. next[c] \in Nat /\ next[c] < nextDequeue /\ nextDequeue \in Nat
  BY <1>1 DEF QueueInv, TypeOK, ConsumersInv, Owning, Threads
<1>4. \A d \in Consumers : d # c /\ pc[d] \in Owning => next[d] # next[c]
  BY <1>1 DEF QueueInv, OwnersInv, Owning
<1>5. \A n : Reading(n)' <=> Reading(n) /\ n # next[c]
  BY <1>1, <1>2, <1>4 DEF Reading, Owning, Threads
<1>6. \A n : Writing(n)' <=> Writing(n)
  <2>1. \A p \in Producers : pc'[p] = pc[p] /\ next'[p] = next[p]
    BY <1>2, QueueAssumption DEF Threads
  <2> QED BY <2>1 DEF Writing
<1>7. next[c] + 1 - 1 = next[c] /\ next[c] + 1 \in 1 .. nextDequeue
  BY <1>3
<1>8. Reading(next[c])
  BY <1>1 DEF Reading, Owning
<1>9. next[c] + 1 \notin Released
  BY <1>3, <1>8 DEF Released, Reading
<1>10. Released' = Released \cup {next[c] + 1}
  <2>1. \A n \in 1 .. nextDequeue : n - 1 = next[c] <=> n = next[c] + 1
    BY <1>3
  <2> QED BY <1>1, <1>5, <1>7, <2>1 DEF Released
<1>11. Published' = Published
  BY <1>1, <1>6 DEF Published
<1> QED BY <1>1, <1>7, <1>9, <1>10, <1>11 DEF Claims!Release

\* The loads, the retries and the moves of an element are not seen.
LEMMA OthersUnseen ==
    ASSUME QueueInv,
           \/ \E p \in Producers : Push(p) /\ ~ PushClaim(p) /\ ~ PushStore(p)
           \/ \E c \in Consumers : Pop(c) /\ ~ PopClaim(c) /\ ~ PopStore(c)
           \/ UNCHANGED vars
    PROVE  UNCHANGED Claims!claimVars
<1> USE DEF QueueInv, TypeOK, Threads, Goto, RelaxedLoad, shared
<1>1. ASSUME NEW p \in Producers, Push(p), ~ PushClaim(p), ~ PushStore(p)
      PROVE  /\ UNCHANGED <<log, nextEnqueue, nextDequeue>>
             /\ pc'[p] \in Owning <=> pc[p] \in Owning
             /\ pc[p] \in Owning => next' = next
             /\ \A t \in Threads : t # p => pc'[t] = pc[t] /\ next'[t] = next[t]
  BY <1>1 DEF Push, PushBegin, PushTry, PushFull, PushOutdated, PushReload, PushRetry,
              PushData, Owning
<1>2. ASSUME NEW c \in Consumers, Pop(c), ~ PopClaim(c), ~ PopStore(c)
      PROVE  /\ UNCHANGED <<log, nextEnqueue, nextDequeue>>
             /\ pc'[c] \in Owning <=> pc[c] \in Owning
             /\ pc[c] \in Owning => next' = next
             /\ \A t \in Threads : t # c => pc'[t] = pc[t] /\ next'[t] = next[t]
  BY <1>2 DEF Pop, PopBegin, PopTry, PopEmpty, PopOutdated, PopReload, PopRetry,
              PopData, Owning
<1>3. /\ UNCHANGED <<log, nextEnqueue, nextDequeue>>
      /\ \A t \in Threads : /\ pc'[t] \in Owning <=> pc[t] \in Owning
                            /\ pc[t] \in Owning => next'[t] = next[t]
  <2>1. CASE UNCHANGED vars
    BY <2>1 DEF vars, local
  <2>2. CASE \E p \in Producers : Push(p) /\ ~ PushClaim(p) /\ ~ PushStore(p)
    BY <1>1, <2>2
  <2>3. CASE \E c \in Consumers : Pop(c) /\ ~ PopClaim(c) /\ ~ PopStore(c)
    BY <1>2, <2>3
  <2> QED BY <2>1, <2>2, <2>3
<1>4. UNCHANGED <<Published, Released>>
  BY <1>3, SameOwners
<1> QED BY <1>3, <1>4 DEF Claims!claimVars

\* At the grain of its claims and of its stores of Index, every behaviour of the
\* lock-free queue is one of ClaimQueue, whatever threads stop in between.
THEOREM ClaimRefinement == ASSUME Capacity > 1 PROVE Spec => ClaimSpec
<1>1. Init => Claims!Init
  <2>1. Init => nextEnqueue = 0 /\ nextDequeue = 0 /\ 1 .. 0 = {} /\ log = <<>>
    BY DEF Init
  <2> QED BY <2>1 DEF Claims!Init, Published, Released
<1>2. QueueInv /\ [Next]_vars => [Claims!Next]_Claims!claimVars
  <2> SUFFICES ASSUME QueueInv, [Next]_vars
               PROVE  [Claims!Next]_Claims!claimVars
    OBVIOUS
  <2>1. ASSUME NEW p \in Producers, PushClaim(p) PROVE Claims!Next
    BY <2>1, ClaimsPush DEF Claims!Next
  <2>2. ASSUME NEW p \in Producers, PushStore(p) PROVE Claims!Next
    BY <2>2, StorePublishes DEF Claims!Next
  <2>3. ASSUME NEW c \in Consumers, PopClaim(c) PROVE Claims!Next
    BY <2>3, ClaimsPop DEF Claims!Next
  <2>4. ASSUME NEW c \in Consumers, PopStore(c) PROVE Claims!Next
    BY <2>4, StoreReleases DEF Claims!Next
  <2>5. CASE \/ \E p \in Producers : Push(p) /\ ~ PushClaim(p) /\ ~ PushStore(p)
             \/ \E c \in Consumers : Pop(c) /\ ~ PopClaim(c) /\ ~ PopStore(c)
             \/ UNCHANGED vars
    BY <2>5, OthersUnseen
  <2> QED BY <2>1, <2>2, <2>3, <2>4, <2>5 DEF Next
<1> QED BY <1>1, <1>2, Invariant, PTL DEF Spec, ClaimSpec, Claims!Spec

\* An operation that returns false does so in a state in which ClaimQueue is full,
\* or empty, although what it read may be older: so its user may take the refusal
\* to be one step.
RefusedRightly ==
    [][/\ (\E p \in Producers : PushFull(p)) => Claims!Full
       /\ (\E c \in Consumers : PopEmpty(c)) => Claims!Empty]_vars

\* Every refusal is one that ClaimQueue allows.
THEOREM Refusals == ASSUME Capacity > 1 PROVE Spec => RefusedRightly
<1>1. ASSUME QueueInv,
             nextEnqueue = nextDequeue + Capacity
                \/ (nextEnqueue >= Capacity /\ Reading(nextEnqueue - Capacity))
      PROVE  Claims!Full
  <2>1. /\ nextEnqueue \in Nat /\ nextDequeue \in Nat /\ Capacity \in Nat \ {0}
        /\ nextEnqueue = Len(log)
    BY <1>1, QueueAssumption DEF QueueInv, TypeOK, CountersInv
  <2>2. nextEnqueue - Capacity + 1 \notin Released
    <3>1. CASE nextEnqueue = nextDequeue + Capacity
      BY <2>1, <3>1 DEF Released
    <3>2. CASE Reading(nextEnqueue - Capacity)
      BY <2>1, <3>2 DEF Released, Reading
    <3> QED BY <1>1, <3>1, <3>2
  <2>3. nextEnqueue >= Capacity
    BY <1>1, <2>1
  <2> QED BY <2>1, <2>2, <2>3 DEF Claims!Full
<1>2. ASSUME QueueInv, nextDequeue = nextEnqueue \/ Writing(nextDequeue)
      PROVE  Claims!Empty
  <2>1. nextEnqueue \in Nat /\ nextDequeue \in Nat /\ nextDequeue + 1 - 1 = nextDequeue
    BY <1>2 DEF QueueInv, TypeOK
  <2> QED BY <1>2, <2>1 DEF Claims!Empty, Published
<1>3. QueueInv
        /\ [\A p \in Producers : PushFull(p) =>
              \/ nextEnqueue = nextDequeue + Capacity
              \/ nextEnqueue >= Capacity /\ Reading(nextEnqueue - Capacity)]_vars
        /\ [\A c \in Consumers : PopEmpty(c) =>
              nextDequeue = nextEnqueue \/ Writing(nextDequeue)]_vars
      => [/\ (\E p \in Producers : PushFull(p)) => Claims!Full
          /\ (\E c \in Consumers : PopEmpty(c)) => Claims!Empty]_vars
  BY <1>1, <1>2
<1> QED BY <1>3, Invariant, PushRefusal, PopRefusal, PTL
        DEF PushRefusedByOldest, PopRefusedByOldest, RefusedRightly

==============================================================================
