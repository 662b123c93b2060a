--------------------------- MODULE ThreadPoolProofs ---------------------------
(***************************************************************************)
(* Theorems about ThreadPool, for every number of threads, of submitters   *)
(* and of tasks, and every capacity of the queues: the invariant that ties *)
(* the queues to what the threads hold, what is left when the destructor   *)
(* has returned, and that the pool implements TaskPool.                    *)
(***************************************************************************)
EXTENDS ThreadPool, FiniteSetTheorems, SequenceTheorems, TLAPS

------------------------------------------------------------------------------
(* The inductive invariant *)

SubmitStates ==
    [pc : {"idle"}]
        \cup [pc : {"post"}, task : Tasks, to : Workers]
        \cup [pc : {"publish"}, task : Tasks, to : Workers, at : Nat]

WorkerStates ==
    [pc : {"loop", "pop", "steal", "exit"}]
        \cup [pc : {"release"}, task : Tasks, from : Workers, at : Nat]
        \cup [pc : {"task"}, task : Tasks]

QueueStates == [log : Seq(Tasks), head : Nat, ready : SUBSET Nat, freed : SUBSET Nat]

Types ==
    /\ nextWorker \in Workers
    /\ queue \in [Workers -> QueueStates]
    /\ submit \in [Submitters -> SubmitStates]
    /\ running \in [Workers -> BOOLEAN]
    /\ worker \in [Workers -> WorkerStates]
    /\ stopping \in -1 .. Threads
    /\ finished \subseteq Tasks

\* What is claimed is published, what is released is claimed, and a position
\* was pushed to only when the one a lap before it was released.
QueueOK(q) ==
    /\ q.head <= Len(q.log)
    /\ q.ready \subseteq 1 .. Len(q.log)
    /\ q.freed \subseteq 1 .. q.head
    /\ 1 .. q.head \subseteq q.ready
    /\ \A i \in 1 .. Len(q.log) : i + Capacity <= Len(q.log) => i \in q.freed

Queues == \A v \in Workers : QueueOK(queue[v])

\* A task is accepted once: no two positions of the queues hold the same one.
LogsDistinct ==
    \A u, v \in Workers :
        \A i \in 1 .. Len(queue[u].log), j \in 1 .. Len(queue[v].log) :
            queue[u].log[i] = queue[v].log[j] => u = v /\ i = j

\* Every submitter has a task of its own; the position it is about to publish
\* is pushed, holds that task, and can not be popped yet.
SubmitsDistinct ==
    \A s, r \in Submitters :
        s # r /\ submit[s].pc # "idle" /\ submit[r].pc # "idle" => submit[s].task # submit[r].task

PostsUnaccepted ==
    \A s \in Submitters : submit[s].pc = "post" => submit[s].task \notin Accepted

Publishing(s) ==
    LET q == queue[submit[s].to] IN
       /\ submit[s].at \in q.head + 1 .. Len(q.log)
       /\ submit[s].at \notin q.ready
       /\ q.log[submit[s].at] = submit[s].task

Publishes == \A s \in Submitters : submit[s].pc = "publish" => Publishing(s)

\* The tasks that a worker holds or has finished are the claimed ones, each in
\* one place only.
Holds(w) == worker[w].pc \in {"release", "task"}

Claimed(t) == \E v \in Workers : \E i \in 1 .. queue[v].head : queue[v].log[i] = t

HeldClaimed ==
    \A w \in Workers : Holds(w) => Claimed(worker[w].task) /\ worker[w].task \notin finished

HeldDistinct ==
    \A w, v \in Workers : Holds(w) /\ Holds(v) /\ w # v => worker[w].task # worker[v].task

FinishedClaimed == \A t \in finished : Claimed(t)

ClaimedHeld ==
    \A t \in Tasks :
        Claimed(t) => t \in finished \/ \E w \in Workers : Holds(w) /\ worker[w].task = t

Releasing(w) ==
    LET q == queue[worker[w].from] IN
       /\ worker[w].at \in (1 .. q.head) \ q.freed
       /\ q.log[worker[w].at] = worker[w].task

Releases == \A w \in Workers : worker[w].pc = "release" => Releasing(w)

\* The destructor has joined the workers before the one it is at.
Stops == \A w \in Workers : w < stopping => worker[w].pc = "exit"

IInv ==
    /\ Types
    /\ Queues
    /\ LogsDistinct
    /\ SubmitsDistinct
    /\ PostsUnaccepted
    /\ Publishes
    /\ HeldClaimed
    /\ HeldDistinct
    /\ FinishedClaimed
    /\ ClaimedHeld
    /\ Releases
    /\ Stops

------------------------------------------------------------------------------
(* Workers and queues *)

\* The worker after the last one is the first.
LEMMA NextWorker ==
    ASSUME NEW w \in Workers
    PROVE  (w + 1) % Threads \in Workers
BY PoolAssumption DEF Workers

\* What a task accepted is: one that some queue holds at some position.
LEMMA AcceptedPosition ==
    ASSUME Types, NEW t
    PROVE  t \in Accepted <=> \E v \in Workers : \E i \in 1 .. Len(queue[v].log) : queue[v].log[i] = t
<1>1. ASSUME NEW v \in Workers
      PROVE  Range(queue[v].log) = {queue[v].log[i] : i \in 1 .. Len(queue[v].log)}
  <2>1. queue[v].log \in Seq(Tasks)
    BY DEF Types, QueueStates
  <2>2. DOMAIN queue[v].log = 1 .. Len(queue[v].log)
    BY <2>1
  <2> QED BY <2>2, Zenon DEF Range
<1>2. t \in Accepted <=> \E v \in Workers : t \in Range(queue[v].log)
  BY Zenon DEF Accepted
<1>3. \A v \in Workers :
         t \in Range(queue[v].log) <=> \E i \in 1 .. Len(queue[v].log) : queue[v].log[i] = t
  BY <1>1
<1> QED BY <1>2, <1>3

\* A claimed task was accepted.
LEMMA ClaimedAccepted ==
    ASSUME Types, Queues, NEW t, Claimed(t)
    PROVE  t \in Accepted
<1>1. PICK v \in Workers : \E i \in 1 .. queue[v].head : queue[v].log[i] = t
  BY DEF Claimed
<1>2. 1 .. queue[v].head \subseteq 1 .. Len(queue[v].log)
  BY DEF Types, QueueStates, Queues, QueueOK
<1> QED BY <1>1, <1>2, AcceptedPosition

\* What a worker that holds a task is.
LEMMA HolderTask ==
    ASSUME Types, NEW w \in Workers, Holds(w)
    PROVE  worker[w].task \in Tasks
BY DEF Types, WorkerStates, Holds

------------------------------------------------------------------------------
(* The invariant holds at first *)

\* The queues are empty, and no task exists.
LEMMA InitInvariant == Init => IInv
<1> SUFFICES ASSUME Init PROVE IInv
  OBVIOUS
<1> USE PoolAssumption DEF Init, EmptyQueue
<1>1. 0 \in Workers /\ -1 \in -1 .. Threads
  BY DEF Workers
<1>2. Types
  <2>1. EmptyQueue \in QueueStates
    BY DEF QueueStates
  <2>2. [pc |-> "idle"] \in SubmitStates
    BY DEF SubmitStates
  <2>3. [pc |-> "loop"] \in WorkerStates
    BY DEF WorkerStates
  <2> QED BY <1>1, <2>1, <2>2, <2>3 DEF Types
<1>3. \A v \in Workers : queue[v].log = <<>> /\ queue[v].head = 0 /\ queue[v].ready = {} /\ queue[v].freed = {}
  OBVIOUS
<1>4. \A v \in Workers : 1 .. Len(queue[v].log) = {} /\ 1 .. queue[v].head = {}
  BY <1>3
<1>5. Queues
  BY <1>3, <1>4 DEF Queues, QueueOK
<1>6. LogsDistinct
  BY <1>4 DEF LogsDistinct
<1>7. SubmitsDistinct /\ PostsUnaccepted /\ Publishes
  BY DEF SubmitsDistinct, PostsUnaccepted, Publishes
<1>8. HeldClaimed /\ HeldDistinct /\ Releases
  BY DEF HeldClaimed, HeldDistinct, Releases, Holds
<1>9. FinishedClaimed /\ ClaimedHeld
  BY <1>4 DEF FinishedClaimed, ClaimedHeld, Claimed
<1>10. Stops
  BY DEF Stops, Workers
<1> QED BY <1>2, <1>5, <1>6, <1>7, <1>8, <1>9, <1>10 DEF IInv

------------------------------------------------------------------------------
(* Submit *)

\* Nothing that speaks of the queues and the workers changes when they do not.
LEMMA WorkersUntouched ==
    ASSUME IInv, UNCHANGED <<queue, worker, finished>>
    PROVE  /\ Queues' /\ LogsDistinct' /\ HeldClaimed' /\ HeldDistinct'
           /\ FinishedClaimed' /\ ClaimedHeld' /\ Releases' /\ Accepted' = Accepted
<1> USE DEF IInv
<1>1. Queues' /\ LogsDistinct'
  BY DEF Queues, LogsDistinct, QueueOK
<1>2. HeldClaimed' /\ HeldDistinct' /\ FinishedClaimed' /\ ClaimedHeld' /\ Releases'
  BY DEF HeldClaimed, HeldDistinct, FinishedClaimed, ClaimedHeld, Releases, Claimed, Holds, Releasing
<1>3. Accepted' = Accepted
  BY DEF Accepted
<1> QED BY <1>1, <1>2, <1>3

\* A submitter takes its turn, and its task gets a number.
LEMMA SubmitTurnStep ==
    ASSUME IInv, NEW s \in Submitters, SubmitTurn(s)
    PROVE  IInv'
<1> USE DEF SubmitTurn, IInv
<1>1. PICK t \in Unused : submit' = [submit EXCEPT ![s] = [pc |-> "post", task |-> t, to |-> nextWorker]]
  OBVIOUS
<1>2. t \in Tasks /\ t \notin Accepted /\ t \notin Submitting
  BY DEF Unused
<1>3. nextWorker' \in Workers
  BY NextWorker DEF Types
<1>4. submit' \in [Submitters -> SubmitStates]
  <2>1. [pc |-> "post", task |-> t, to |-> nextWorker] \in SubmitStates
    BY <1>2 DEF Types, SubmitStates
  <2> QED BY <1>1, <2>1 DEF Types
<1>5. Types'
  BY <1>3, <1>4 DEF Types
<1>6. \A r \in Submitters : r # s => submit'[r] = submit[r]
  BY <1>1 DEF Types
<1>7. submit'[s] = [pc |-> "post", task |-> t, to |-> nextWorker]
  BY <1>1 DEF Types
<1>8. \A r \in Submitters : submit[r].pc # "idle" => submit[r].task # t
  BY <1>2 DEF Submitting
<1>9. SubmitsDistinct'
  BY <1>6, <1>7, <1>8 DEF SubmitsDistinct
<1>10. PostsUnaccepted'
  BY <1>2, <1>6, <1>7, WorkersUntouched DEF PostsUnaccepted
<1>11. Publishes'
  BY <1>6, <1>7 DEF Publishes, Publishing
<1>12. Stops'
  BY DEF Stops
<1> QED BY <1>5, <1>9, <1>10, <1>11, <1>12, WorkersUntouched

\* A submitter that goes back to idle leaves the rest as it was.
LEMMA SubmitRefusedStep ==
    ASSUME IInv, NEW s \in Submitters, SubmitRefused(s)
    PROVE  IInv'
<1> USE DEF SubmitRefused, IInv
<1>1. /\ \A r \in Submitters : r # s => submit'[r] = submit[r]
      /\ submit'[s].pc = "idle"
  BY DEF Types
<1>2. Types'
  <2>1. [pc |-> "idle"] \in SubmitStates
    BY DEF SubmitStates
  <2> QED BY <2>1 DEF Types
<1>3. SubmitsDistinct' /\ PostsUnaccepted'
  BY <1>1, WorkersUntouched DEF SubmitsDistinct, PostsUnaccepted
<1>4. Publishes'
  BY <1>1 DEF Publishes, Publishing
<1>5. Stops'
  BY DEF Stops
<1> QED BY <1>2, <1>3, <1>4, <1>5, WorkersUntouched

\* A push: the task is at the end of the log of queue v, the rest is as it was.
LEMMA PushedLog ==
    ASSUME Types, NEW v \in Workers, NEW t \in Tasks,
           queue' = [queue EXCEPT ![v].log = Append(@, t)]
    PROVE  /\ queue' \in [Workers -> QueueStates]
           /\ \A u \in Workers : u # v => queue'[u] = queue[u]
           /\ Len(queue'[v].log) = Len(queue[v].log) + 1
           /\ queue'[v].log[Len(queue[v].log) + 1] = t
           /\ \A i \in 1 .. Len(queue[v].log) : queue'[v].log[i] = queue[v].log[i]
           /\ queue'[v].head = queue[v].head
           /\ queue'[v].ready = queue[v].ready /\ queue'[v].freed = queue[v].freed
<1>1. queue[v] \in QueueStates
  BY DEF Types
<1>2. queue'[v] = [queue[v] EXCEPT !.log = Append(queue[v].log, t)]
  BY DEF Types
<1>3. queue'[v] \in QueueStates
  <2>1. Append(queue[v].log, t) \in Seq(Tasks)
    BY <1>1 DEF QueueStates
  <2> QED BY <1>1, <1>2, <2>1 DEF QueueStates
<1>4. \A u \in Workers : u # v => queue'[u] = queue[u]
  BY DEF Types
<1>5. queue' \in [Workers -> QueueStates]
  BY <1>1, <1>2, <1>3 DEF Types
<1>6. queue'[v].log = Append(queue[v].log, t) /\ queue[v].log \in Seq(Tasks)
  BY <1>1, <1>2 DEF QueueStates
<1>7. /\ Len(queue'[v].log) = Len(queue[v].log) + 1
      /\ queue'[v].log[Len(queue[v].log) + 1] = t
      /\ \A i \in 1 .. Len(queue[v].log) : queue'[v].log[i] = queue[v].log[i]
  BY <1>6
<1>8. /\ queue'[v].head = queue[v].head
      /\ queue'[v].ready = queue[v].ready /\ queue'[v].freed = queue[v].freed
  BY <1>1, <1>2 DEF QueueStates
<1> QED BY <1>4, <1>5, <1>7, <1>8

\* A step that leaves the claimed part of the queues, what is released of it,
\* the workers and the finished tasks alone.
LEMMA ClaimedUntouched ==
    ASSUME Types, Queues, HeldClaimed, HeldDistinct, FinishedClaimed, ClaimedHeld, Releases,
           UNCHANGED <<worker, finished>>,
           \A v \in Workers :
              /\ queue'[v].head = queue[v].head /\ queue'[v].freed = queue[v].freed
              /\ \A i \in 1 .. Len(queue[v].log) : queue'[v].log[i] = queue[v].log[i]
    PROVE  HeldClaimed' /\ HeldDistinct' /\ FinishedClaimed' /\ ClaimedHeld' /\ Releases'
<1>1. \A v \in Workers : 1 .. queue[v].head \subseteq 1 .. Len(queue[v].log)
  BY DEF Types, QueueStates, Queues, QueueOK
<1>2. \A t : Claimed(t)' <=> Claimed(t)
  BY <1>1 DEF Claimed
<1>3. \A w \in Workers : Holds(w)' <=> Holds(w)
  BY DEF Holds
<1>4. HeldClaimed' /\ HeldDistinct'
  BY <1>2, <1>3 DEF HeldClaimed, HeldDistinct
<1>5. FinishedClaimed' /\ ClaimedHeld'
  BY <1>2, <1>3 DEF FinishedClaimed, ClaimedHeld
<1>6. ASSUME NEW w \in Workers, worker[w].pc = "release"
      PROVE  Releasing(w)'
  <2>1. worker[w].from \in Workers
    BY <1>6 DEF Types, WorkerStates
  <2>2. Releasing(w)
    BY <1>6 DEF Releases
  <2> QED BY <1>1, <2>1, <2>2 DEF Releasing
<1>7. Releases'
  BY <1>6 DEF Releases
<1> QED BY <1>4, <1>5, <1>7

\* The slot of the position pushed was released: SubmitClaim looked.
LEMMA SubmitClaimStep ==
    ASSUME IInv, NEW s \in Submitters, SubmitClaim(s)
    PROVE  IInv'
<1> USE DEF IInv
<1> DEFINE v == submit[s].to
<1> DEFINE t == submit[s].task
<1> DEFINE n == Len(queue[v].log)
<1>1. v \in Workers /\ t \in Tasks /\ submit[s].pc = "post"
  BY DEF SubmitClaim, Types, SubmitStates
<1>2. queue' = [queue EXCEPT ![v].log = Append(@, t)]
  BY DEF SubmitClaim
<1>3. /\ \A r \in Submitters : r # s => submit'[r] = submit[r]
      /\ submit'[s] = [pc |-> "publish", task |-> t, to |-> v, at |-> n + 1]
  BY DEF SubmitClaim, Types
<1>4. /\ queue' \in [Workers -> QueueStates]
      /\ \A u \in Workers : u # v => queue'[u] = queue[u]
      /\ Len(queue'[v].log) = n + 1
      /\ queue'[v].log[n + 1] = t
      /\ \A i \in 1 .. n : queue'[v].log[i] = queue[v].log[i]
      /\ queue'[v].head = queue[v].head
      /\ queue'[v].ready = queue[v].ready /\ queue'[v].freed = queue[v].freed
  BY <1>1, <1>2, PushedLog
<1>5. /\ queue[v].head \in Nat /\ n \in Nat /\ queue[v].head <= n
      /\ queue[v].ready \subseteq 1 .. n /\ queue[v].freed \subseteq 1 .. queue[v].head
  BY <1>1 DEF Types, QueueStates, Queues, QueueOK
<1>6. ~ Full(queue[v])
  BY DEF SubmitClaim
<1>7. UNCHANGED <<nextWorker, running, worker, stopping, finished>>
  BY DEF SubmitClaim
<1>8. \A w \in Workers : \A i \in 1 .. Len(queue[w].log) : queue[w].log[i] # t
  BY <1>1, AcceptedPosition DEF PostsUnaccepted
<1> HIDE DEF v, t, n
<1>9. Types'
  <2>1. submit'[s] \in SubmitStates
    BY <1>1, <1>3, <1>5 DEF SubmitStates
  <2>2. submit' \in [Submitters -> SubmitStates]
    BY <1>3, <2>1 DEF SubmitClaim, Types
  <2> QED BY <1>4, <1>7, <2>2 DEF Types
<1>10. Queues'
  <2>1. ASSUME NEW i \in 1 .. n + 1, i + Capacity <= n + 1
        PROVE  i \in queue[v].freed
    <3>1. CASE i + Capacity <= n
      BY <1>1, <1>5, <2>1, <3>1, PoolAssumption DEF Queues, QueueOK, n
    <3>2. CASE i + Capacity = n + 1
      BY <1>5, <1>6, <3>2, PoolAssumption DEF Full, n
    <3> QED BY <1>5, <2>1, <3>1, <3>2, PoolAssumption
  <2>2. QueueOK(queue[v])
    BY <1>1 DEF Queues
  <2>3. QueueOK(queue'[v])
    BY <1>4, <1>5, <2>1, <2>2 DEF QueueOK
  <2>4. \A u \in Workers : u # v => QueueOK(queue'[u])
    BY <1>4 DEF Queues
  <2> QED BY <2>3, <2>4 DEF Queues, QueueOK
<1>11. LogsDistinct'
  <2> SUFFICES ASSUME NEW u \in Workers, NEW w \in Workers,
                      NEW i \in 1 .. Len(queue'[u].log), NEW j \in 1 .. Len(queue'[w].log),
                      queue'[u].log[i] = queue'[w].log[j]
               PROVE  u = w /\ i = j
    BY DEF LogsDistinct
  <2>1. /\ \/ i \in 1 .. Len(queue[u].log) /\ queue'[u].log[i] = queue[u].log[i]
           \/ u = v /\ i = n + 1
        /\ \/ j \in 1 .. Len(queue[w].log) /\ queue'[w].log[j] = queue[w].log[j]
           \/ w = v /\ j = n + 1
    <3>1. \A x \in Workers : \A k \in 1 .. Len(queue'[x].log) :
             \/ k \in 1 .. Len(queue[x].log) /\ queue'[x].log[k] = queue[x].log[k]
             \/ x = v /\ k = n + 1
      <4>1. \A k \in 1 .. n + 1 : k \in 1 .. n \/ k = n + 1
        BY <1>5
      <4> QED BY <1>4, <4>1 DEF n
    <3> QED BY <3>1
  <2>2. \/ u = v /\ i = n + 1 /\ w = v /\ j = n + 1
        \/ /\ i \in 1 .. Len(queue[u].log) /\ queue'[u].log[i] = queue[u].log[i]
           /\ j \in 1 .. Len(queue[w].log) /\ queue'[w].log[j] = queue[w].log[j]
    BY <1>4, <1>8, <2>1
  <2> QED BY <2>2 DEF LogsDistinct
<1>12. SubmitsDistinct'
  BY <1>1, <1>3 DEF SubmitsDistinct, t
<1>13. PostsUnaccepted'
  <2> SUFFICES ASSUME NEW r \in Submitters, submit'[r].pc = "post", submit'[r].task \in Accepted'
               PROVE  FALSE
    BY DEF PostsUnaccepted
  <2>1. r # s /\ submit'[r] = submit[r]
    BY <1>3
  <2>2. submit[r].task \notin Accepted /\ submit[r].task # t
    BY <1>1, <2>1 DEF PostsUnaccepted, SubmitsDistinct, t
  <2>3. PICK u \in Workers : \E i \in 1 .. Len(queue'[u].log) : queue'[u].log[i] = submit[r].task
    <3>1. \E u \in Workers : \E i \in 1 .. Len(queue'[u].log) : queue'[u].log[i] = submit'[r].task
      <4>1. \A x : x \in Accepted' <=> \E u \in Workers : x \in Range(queue'[u].log)
        BY Zenon DEF Accepted
      <4>2. \A u \in Workers : DOMAIN queue'[u].log = 1 .. Len(queue'[u].log)
        BY <1>4 DEF QueueStates
      <4> QED BY <4>1, <4>2 DEF Range
    <3> QED BY <2>1, <3>1
  <2>4. PICK i \in 1 .. Len(queue'[u].log) : queue'[u].log[i] = submit[r].task
    BY <2>3
  <2>5. i \in 1 .. Len(queue[u].log) /\ queue[u].log[i] = submit[r].task
    BY <1>4, <1>5, <2>2, <2>4 DEF n
  <2> QED BY <2>2, <2>5, AcceptedPosition
<1>14. Publishes'
  <2> SUFFICES ASSUME NEW r \in Submitters, submit'[r].pc = "publish"
               PROVE  Publishing(r)'
    BY DEF Publishes
  <2>1. CASE r = s
    BY <1>1, <1>3, <1>4, <1>5, <2>1 DEF Publishing
  <2>2. CASE r # s
    <3>1. submit'[r] = submit[r] /\ submit[r].to \in Workers /\ submit[r].at \in Nat
      BY <1>3, <2>2 DEF Types, SubmitStates
    <3>2. Publishing(r)
      BY <3>1 DEF Publishes
    <3>3. queue[submit[r].to].head \in Nat
      BY <3>1 DEF Types, QueueStates
    <3>4. CASE submit[r].to = v
      <4>1. submit[r].at \in queue[v].head + 1 .. n /\ submit[r].at \in 1 .. n
        BY <1>5, <3>2, <3>4 DEF Publishing, n
      <4>2. submit[r].at \in queue[v].head + 1 .. n + 1
        BY <1>5, <4>1
      <4> QED BY <1>4, <3>1, <3>2, <3>4, <4>1, <4>2 DEF Publishing
    <3>5. CASE submit[r].to # v
      BY <1>4, <3>1, <3>2, <3>5 DEF Publishing
    <3> QED BY <3>4, <3>5
  <2> QED BY <2>1, <2>2
<1>15. HeldClaimed' /\ HeldDistinct' /\ FinishedClaimed' /\ ClaimedHeld' /\ Releases'
  <2>1. \A u \in Workers :
           /\ queue'[u].head = queue[u].head /\ queue'[u].freed = queue[u].freed
           /\ \A i \in 1 .. Len(queue[u].log) : queue'[u].log[i] = queue[u].log[i]
    BY <1>4 DEF n
  <2> QED BY <1>7, <2>1, ClaimedUntouched
<1>16. Stops'
  BY <1>7 DEF Stops
<1> QED BY <1>9, <1>10, <1>11, <1>12, <1>13, <1>14, <1>15, <1>16

\* A submitter publishes the task at the position it claimed.
LEMMA SubmitPublishStep ==
    ASSUME IInv, NEW s \in Submitters, SubmitPublish(s)
    PROVE  IInv'
<1> USE DEF IInv
<1> DEFINE v == submit[s].to
<1>1. v \in Workers /\ submit[s].at \in Nat /\ submit[s].pc = "publish"
  BY DEF SubmitPublish, Types, SubmitStates
<1>2. Publishing(s)
  BY <1>1 DEF Publishes
<1>3. /\ \A r \in Submitters : r # s => submit'[r] = submit[r]
      /\ submit'[s] = [pc |-> "idle"]
  BY DEF SubmitPublish, Types
<1>4. /\ \A u \in Workers : u # v => queue'[u] = queue[u]
      /\ queue'[v] = [queue[v] EXCEPT !.ready = @ \cup {submit[s].at}]
  BY <1>1 DEF SubmitPublish, Types
<1>5. queue[v] \in QueueStates
  BY <1>1 DEF Types
<1>6. /\ queue'[v] \in QueueStates
      /\ queue'[v].log = queue[v].log /\ queue'[v].head = queue[v].head
      /\ queue'[v].freed = queue[v].freed
      /\ queue'[v].ready = queue[v].ready \cup {submit[s].at}
  BY <1>1, <1>4, <1>5 DEF QueueStates
<1>7. /\ \A u \in Workers : queue'[u].log = queue[u].log /\ queue'[u].head = queue[u].head
      /\ \A u \in Workers : queue'[u].freed = queue[u].freed
      /\ \A u \in Workers : u # v => queue'[u].ready = queue[u].ready
  BY <1>4, <1>6
<1>8. UNCHANGED <<nextWorker, running, worker, stopping, finished>>
  BY DEF SubmitPublish
<1>9. Types'
  <2>1. [pc |-> "idle"] \in SubmitStates
    BY DEF SubmitStates
  <2>2. submit' \in [Submitters -> SubmitStates]
    BY <2>1 DEF SubmitPublish, Types
  <2>3. queue' \in [Workers -> QueueStates]
    BY <1>4, <1>6 DEF SubmitPublish, Types
  <2> QED BY <1>8, <2>2, <2>3 DEF Types
<1> HIDE DEF v
<1>10. Queues'
  <2>1. submit[s].at \in 1 .. Len(queue[v].log)
    BY <1>2, <1>5 DEF Publishing, QueueStates, v
  <2>2. QueueOK(queue'[v])
    BY <1>1, <1>6, <2>1 DEF Queues, QueueOK
  <2> QED BY <1>4, <2>2 DEF Queues, QueueOK
<1>11. LogsDistinct'
  BY <1>7 DEF LogsDistinct
<1>12. SubmitsDistinct'
  BY <1>3 DEF SubmitsDistinct
<1>13. PostsUnaccepted'
  <2>1. Accepted' = Accepted
    BY <1>7, Zenon DEF Accepted
  <2> QED BY <1>3, <2>1 DEF PostsUnaccepted
\* Another submitter publishes another position: it has another task there.
<1>14. Publishes'
  <2> SUFFICES ASSUME NEW r \in Submitters, submit'[r].pc = "publish"
               PROVE  Publishing(r)'
    BY DEF Publishes
  <2>1. r # s /\ submit'[r] = submit[r] /\ submit[r].to \in Workers
    BY <1>3 DEF Types, SubmitStates
  <2>2. Publishing(r)
    BY <2>1 DEF Publishes
  <2>3. submit[r].task # submit[s].task
    BY <1>1, <2>1 DEF SubmitsDistinct
  <2>4. CASE submit[r].to = v
    BY <1>2, <1>6, <2>1, <2>2, <2>3, <2>4 DEF Publishing, v
  <2>5. CASE submit[r].to # v
    BY <1>7, <2>1, <2>2, <2>5 DEF Publishing
  <2> QED BY <2>4, <2>5
<1>15. HeldClaimed' /\ HeldDistinct' /\ FinishedClaimed' /\ ClaimedHeld' /\ Releases'
  BY <1>7, <1>8, ClaimedUntouched
<1>16. Stops'
  BY <1>8 DEF Stops
<1> QED BY <1>9, <1>10, <1>11, <1>12, <1>13, <1>14, <1>15, <1>16

------------------------------------------------------------------------------
(* Worker::_Routine *)

\* Nothing that speaks of the submitters and the queues changes when they do not.
LEMMA SubmittersUntouched ==
    ASSUME IInv, UNCHANGED <<queue, submit>>
    PROVE  Queues' /\ LogsDistinct' /\ SubmitsDistinct' /\ PostsUnaccepted' /\ Publishes'
<1> USE DEF IInv
<1>1. Queues' /\ LogsDistinct'
  BY DEF Queues, LogsDistinct, QueueOK
<1>2. Accepted' = Accepted
  BY DEF Accepted
<1>3. SubmitsDistinct' /\ PostsUnaccepted'
  BY <1>2 DEF SubmitsDistinct, PostsUnaccepted
<1>4. Publishes'
  BY DEF Publishes, Publishing
<1> QED BY <1>1, <1>3, <1>4

\* A worker that holds no task moves on.
LEMMA MoveOn ==
    ASSUME IInv, NEW w \in Workers,
           worker[w].pc \in {"loop", "pop", "steal"},
           NEW p \in {"loop", "pop", "steal", "exit"},
           worker' = [worker EXCEPT ![w].pc = p],
           UNCHANGED <<nextWorker, queue, submit, running, stopping, finished>>
    PROVE  IInv'
<1> USE DEF IInv
<1>1. worker[w] \in [pc : {"loop", "pop", "steal", "exit"}]
  BY DEF Types, WorkerStates
<1>2. worker'[w] = [worker[w] EXCEPT !.pc = p]
  BY DEF Types
<1>3. worker'[w] \in [pc : {"loop", "pop", "steal", "exit"}] /\ worker'[w].pc = p
  BY <1>1, <1>2
<1>4. \A v \in Workers : v # w => worker'[v] = worker[v]
  BY DEF Types
<1>5. Types'
  <2>1. worker'[w] \in WorkerStates
    BY <1>3 DEF WorkerStates
  <2> QED BY <2>1 DEF Types
<1>6. ~ Holds(w) /\ ~ Holds(w)'
  BY <1>3 DEF Holds
<1>7. \A t : Claimed(t)' <=> Claimed(t)
  BY DEF Claimed
<1>8. \A v \in Workers : v # w => (Holds(v)' <=> Holds(v))
  BY <1>4 DEF Holds
<1>9. HeldClaimed' /\ HeldDistinct' /\ FinishedClaimed'
  BY <1>4, <1>6, <1>7, <1>8 DEF HeldClaimed, HeldDistinct, FinishedClaimed
<1>10. ClaimedHeld'
  BY <1>4, <1>6, <1>7, <1>8 DEF ClaimedHeld
<1>11. Releases'
  BY <1>3, <1>4 DEF Releases, Releasing
<1>12. Stops'
  BY <1>3, <1>4 DEF Stops
<1> QED BY <1>5, <1>9, <1>10, <1>11, <1>12, SubmittersUntouched

\* The task that worker w takes from queue v was claimed by nobody before.
LEMMA TakeStep ==
    ASSUME IInv, NEW w \in Workers, NEW v \in Workers, worker[w].pc \in {"pop", "steal"},
           Take(w, v)
    PROVE  IInv'
<1> USE DEF IInv
<1> DEFINE h == queue[v].head + 1
<1> DEFINE t == queue[v].log[h]
<1>1. /\ queue[v] \in QueueStates /\ QueueOK(queue[v]) /\ h \in queue[v].ready
  BY DEF Take, Poppable, Types, Queues
<1>2. h \in 1 .. Len(queue[v].log) /\ h \in Nat /\ queue[v].head \in Nat
  BY <1>1 DEF QueueStates, QueueOK
<1>3. t \in Tasks
  BY <1>1, <1>2 DEF QueueStates
<1>4. /\ queue' = [queue EXCEPT ![v].head = h]
      /\ worker' = [worker EXCEPT ![w] = [pc |-> "release", task |-> t, from |-> v, at |-> h]]
      /\ UNCHANGED <<nextWorker, submit, running, stopping, finished>>
  BY DEF Take
<1> HIDE DEF h, t
<1>5. /\ \A u \in Workers : u # v => queue'[u] = queue[u]
      /\ queue'[v] = [queue[v] EXCEPT !.head = h]
  BY <1>4 DEF Types
<1>6. /\ queue'[v] \in QueueStates
      /\ queue'[v].log = queue[v].log /\ queue'[v].head = h
      /\ queue'[v].freed = queue[v].freed /\ queue'[v].ready = queue[v].ready
  BY <1>1, <1>2, <1>5 DEF QueueStates
<1>7. /\ \A u \in Workers : queue'[u].log = queue[u].log /\ queue'[u].freed = queue[u].freed
      /\ \A u \in Workers : queue'[u].ready = queue[u].ready
      /\ \A u \in Workers : u # v => queue'[u].head = queue[u].head
  BY <1>5, <1>6
<1>8. /\ \A u \in Workers : u # w => worker'[u] = worker[u]
      /\ worker'[w] = [pc |-> "release", task |-> t, from |-> v, at |-> h]
  BY <1>4 DEF Types
<1>9. Types'
  <2>1. worker'[w] \in WorkerStates
    BY <1>2, <1>3, <1>8 DEF WorkerStates
  <2>2. worker' \in [Workers -> WorkerStates]
    BY <1>4, <1>8, <2>1 DEF Types
  <2>3. queue' \in [Workers -> QueueStates]
    BY <1>4, <1>5, <1>6 DEF Types
  <2> QED BY <1>4, <2>2, <2>3 DEF Types
<1>10. Queues'
  <2>1. 1 .. h = 1 .. queue[v].head \cup {h} /\ h <= Len(queue[v].log)
    BY <1>2 DEF h
  <2>2. QueueOK(queue'[v])
    BY <1>1, <1>2, <1>6, <2>1 DEF QueueOK
  <2> QED BY <1>5, <2>2 DEF Queues, QueueOK
<1>11. LogsDistinct'
  BY <1>7 DEF LogsDistinct
<1>12. SubmitsDistinct' /\ PostsUnaccepted'
  <2>1. Accepted' = Accepted
    BY <1>7, Zenon DEF Accepted
  <2> QED BY <1>4, <2>1 DEF SubmitsDistinct, PostsUnaccepted
<1>13. Publishes'
  <2> SUFFICES ASSUME NEW r \in Submitters, submit[r].pc = "publish"
               PROVE  Publishing(r)'
    BY <1>4 DEF Publishes
  <2>1. Publishing(r) /\ submit[r].to \in Workers /\ submit[r].at \in Nat
    BY DEF Publishes, Types, SubmitStates
  <2>2. CASE submit[r].to = v
    <3>1. submit[r].at # h
      BY <1>1, <2>1, <2>2 DEF Publishing
    <3>2. submit[r].at \in h + 1 .. Len(queue[v].log)
      BY <1>2, <2>1, <2>2, <3>1 DEF Publishing, h
    <3> QED BY <1>4, <1>6, <2>1, <2>2, <3>2 DEF Publishing
  <2>3. CASE submit[r].to # v
    BY <1>4, <1>5, <2>1, <2>3 DEF Publishing
  <2> QED BY <2>2, <2>3
\* Position h was not claimed: its task is held by nobody and not finished.
<1>14. ~ Claimed(t)
  <2> SUFFICES ASSUME NEW u \in Workers, NEW i \in 1 .. queue[u].head, queue[u].log[i] = t
               PROVE  FALSE
    BY DEF Claimed
  <2>1. i \in 1 .. Len(queue[u].log)
    BY DEF Types, QueueStates, Queues, QueueOK
  <2>2. u = v /\ i = h
    BY <1>2, <2>1 DEF LogsDistinct, t
  <2> QED BY <1>2, <2>2 DEF h
<1>15. \A x : Claimed(x)' <=> Claimed(x) \/ x = t
  <2> TAKE x
  <2>1. 1 .. h = 1 .. queue[v].head \cup {h}
    BY <1>2 DEF h
  <2>2. Claimed(x)' <=> \E u \in Workers : \E i \in 1 .. queue'[u].head : queue[u].log[i] = x
    BY <1>7 DEF Claimed
  <2>3. ASSUME NEW u \in Workers
        PROVE  (\E i \in 1 .. queue'[u].head : queue[u].log[i] = x)
                  <=> (\E i \in 1 .. queue[u].head : queue[u].log[i] = x) \/ (u = v /\ x = t)
    <3>1. CASE u = v
      BY <1>6, <2>1, <3>1 DEF t
    <3>2. CASE u # v
      BY <1>7, <3>2
    <3> QED BY <3>1, <3>2
  <2> QED BY <2>2, <2>3 DEF Claimed
<1>16. /\ ~ Holds(w) /\ Holds(w)' /\ worker'[w].task = t
       /\ \A u \in Workers : u # w => (Holds(u)' <=> Holds(u))
  BY <1>8 DEF Holds
<1>17. HeldClaimed'
  BY <1>4, <1>8, <1>14, <1>15, <1>16 DEF HeldClaimed, FinishedClaimed
<1>18. HeldDistinct'
  BY <1>8, <1>14, <1>16 DEF HeldDistinct, HeldClaimed
<1>19. FinishedClaimed'
  BY <1>4, <1>15 DEF FinishedClaimed
<1>20. ClaimedHeld'
  BY <1>4, <1>8, <1>15, <1>16 DEF ClaimedHeld
<1>21. Releases'
  <2> SUFFICES ASSUME NEW u \in Workers, worker'[u].pc = "release"
               PROVE  Releasing(u)'
    BY DEF Releases
  <2>1. CASE u = w
    <3>1. h \in 1 .. h /\ h \notin queue[v].freed
      BY <1>1, <1>2 DEF QueueOK, h
    <3> QED BY <1>6, <1>8, <2>1, <3>1 DEF Releasing, t
  <2>2. CASE u # w
    <3>1. worker'[u] = worker[u] /\ Releasing(u) /\ worker[u].from \in Workers
      BY <1>8, <2>2 DEF Releases, Types, WorkerStates
    <3>2. 1 .. queue[worker[u].from].head \subseteq 1 .. queue'[worker[u].from].head
      <4>1. 1 .. queue[v].head \subseteq 1 .. h
        BY <1>2 DEF h
      <4> QED BY <1>6, <1>7, <3>1, <4>1
    <3> QED BY <1>7, <3>1, <3>2 DEF Releasing
  <2> QED BY <2>1, <2>2
<1>22. Stops'
  BY <1>4, <1>8 DEF Stops
<1> QED BY <1>9, <1>10, <1>11, <1>12, <1>13, <1>17, <1>18, <1>19, <1>20, <1>21, <1>22

\* Two workers never release the same position: they would hold the same task.
LEMMA ReleaseStep ==
    ASSUME IInv, NEW w \in Workers, Release(w)
    PROVE  IInv'
<1> USE DEF IInv
<1> DEFINE v == worker[w].from
<1> DEFINE t == worker[w].task
<1>1. v \in Workers /\ t \in Tasks /\ worker[w].at \in Nat /\ worker[w].pc = "release"
  BY DEF Release, Types, WorkerStates
<1>2. Releasing(w)
  BY <1>1 DEF Releases
<1>3. /\ queue' = [queue EXCEPT ![v].freed = @ \cup {worker[w].at}]
      /\ worker' = [worker EXCEPT ![w] = [pc |-> "task", task |-> t]]
      /\ UNCHANGED <<nextWorker, submit, running, stopping, finished>>
  BY DEF Release
<1>4. /\ \A u \in Workers : u # v => queue'[u] = queue[u]
      /\ queue'[v] = [queue[v] EXCEPT !.freed = @ \cup {worker[w].at}]
  BY <1>1, <1>3 DEF Types
<1>5. queue[v] \in QueueStates /\ QueueOK(queue[v])
  BY <1>1 DEF Types, Queues
<1>6. /\ queue'[v] \in QueueStates
      /\ queue'[v].log = queue[v].log /\ queue'[v].head = queue[v].head
      /\ queue'[v].freed = queue[v].freed \cup {worker[w].at}
      /\ queue'[v].ready = queue[v].ready
  BY <1>1, <1>4, <1>5 DEF QueueStates
<1>7. /\ \A u \in Workers : queue'[u].log = queue[u].log /\ queue'[u].head = queue[u].head
      /\ \A u \in Workers : queue'[u].ready = queue[u].ready
      /\ \A u \in Workers : u # v => queue'[u].freed = queue[u].freed
  BY <1>4, <1>6
<1>8. /\ \A u \in Workers : u # w => worker'[u] = worker[u]
      /\ worker'[w] = [pc |-> "task", task |-> t]
  BY <1>3 DEF Types
<1> HIDE DEF v
<1>9. Types'
  <2>1. worker'[w] \in WorkerStates
    BY <1>1, <1>8 DEF WorkerStates
  <2>2. worker' \in [Workers -> WorkerStates]
    BY <1>3, <1>8, <2>1 DEF Types
  <2>3. queue' \in [Workers -> QueueStates]
    BY <1>3, <1>4, <1>6 DEF Types
  <2> QED BY <1>3, <2>2, <2>3 DEF Types
<1>10. Queues'
  <2>1. worker[w].at \in 1 .. queue[v].head
    BY <1>2 DEF Releasing, v
  <2>2. QueueOK(queue'[v])
    BY <1>1, <1>5, <1>6, <2>1 DEF QueueOK
  <2> QED BY <1>4, <2>2 DEF Queues, QueueOK
<1>11. LogsDistinct'
  BY <1>7 DEF LogsDistinct
<1>12. SubmitsDistinct' /\ PostsUnaccepted'
  <2>1. Accepted' = Accepted
    BY <1>7, Zenon DEF Accepted
  <2> QED BY <1>3, <2>1 DEF SubmitsDistinct, PostsUnaccepted
<1>13. Publishes'
  <2> SUFFICES ASSUME NEW r \in Submitters, submit[r].pc = "publish"
               PROVE  Publishing(r)'
    BY <1>3 DEF Publishes
  <2>1. Publishing(r) /\ submit[r].to \in Workers
    BY DEF Publishes, Types, SubmitStates
  <2> QED BY <1>3, <1>7, <2>1 DEF Publishing
<1>14. \A x : Claimed(x)' <=> Claimed(x)
  BY <1>7 DEF Claimed
<1>15. /\ Holds(w) /\ Holds(w)' /\ worker'[w].task = worker[w].task
       /\ \A u \in Workers : u # w => (Holds(u)' <=> Holds(u)) /\ worker'[u].task = worker[u].task
  BY <1>1, <1>8 DEF Holds
<1>16. \A u \in Workers : (Holds(u)' <=> Holds(u)) /\ worker'[u].task = worker[u].task
  BY <1>15
<1>17. HeldClaimed' /\ HeldDistinct'
  BY <1>3, <1>14, <1>16 DEF HeldClaimed, HeldDistinct
<1>18. FinishedClaimed' /\ ClaimedHeld'
  BY <1>3, <1>14, <1>16 DEF FinishedClaimed, ClaimedHeld
<1>19. Releases'
  <2> SUFFICES ASSUME NEW u \in Workers, worker'[u].pc = "release"
               PROVE  Releasing(u)'
    BY DEF Releases
  <2>1. u # w /\ worker'[u] = worker[u] /\ worker[u].from \in Workers /\ worker[u].pc = "release"
    BY <1>8 DEF Types, WorkerStates
  <2>2. Releasing(u)
    BY <2>1 DEF Releases
  <2>3. worker[u].task # worker[w].task
    BY <1>1, <2>1 DEF HeldDistinct, Holds
  <2>4. CASE worker[u].from = v
    BY <1>2, <1>6, <2>1, <2>2, <2>3, <2>4 DEF Releasing, v
  <2>5. CASE worker[u].from # v
    BY <1>7, <2>1, <2>2, <2>5 DEF Releasing
  <2> QED BY <2>4, <2>5
<1>20. Stops'
  BY <1>1, <1>3, <1>8 DEF Stops
<1> QED BY <1>9, <1>10, <1>11, <1>12, <1>13, <1>17, <1>18, <1>19, <1>20

\* A task returns.
LEMMA TaskReturnsStep ==
    ASSUME IInv, NEW w \in Workers, TaskReturns(w)
    PROVE  IInv'
<1> USE DEF IInv
<1>1. /\ worker[w].pc = "task"
      /\ finished' = finished \cup {worker[w].task}
      /\ UNCHANGED <<nextWorker, queue, submit, running, stopping>>
  BY DEF TaskReturns
<1>2. /\ \A u \in Workers : u # w => worker'[u] = worker[u]
      /\ worker'[w] = [pc |-> "loop"]
  BY DEF TaskReturns, Types
<1>3. Types'
  <2>1. [pc |-> "loop"] \in WorkerStates
    BY DEF WorkerStates
  <2>2. worker' \in [Workers -> WorkerStates]
    BY <2>1 DEF TaskReturns, Types
  <2>3. worker[w].task \in Tasks
    BY <1>1, HolderTask DEF Holds
  <2> QED BY <1>1, <2>2, <2>3 DEF Types
<1>4. Holds(w) /\ ~ Holds(w)' /\ \A u \in Workers : u # w => (Holds(u)' <=> Holds(u))
  BY <1>1, <1>2 DEF Holds
<1>5. \A x : Claimed(x)' <=> Claimed(x)
  BY <1>1 DEF Claimed
<1>6. HeldClaimed' /\ HeldDistinct'
  BY <1>1, <1>2, <1>4, <1>5 DEF HeldClaimed, HeldDistinct
<1>7. FinishedClaimed'
  BY <1>1, <1>4, <1>5 DEF FinishedClaimed, HeldClaimed
<1>8. ClaimedHeld'
  BY <1>1, <1>2, <1>4, <1>5 DEF ClaimedHeld
<1>9. Releases'
  BY <1>1, <1>2 DEF Releases, Releasing
<1>10. Stops'
  BY <1>1, <1>2 DEF Stops
<1> QED BY <1>1, <1>3, <1>6, <1>7, <1>8, <1>9, <1>10, SubmittersUntouched

------------------------------------------------------------------------------
(* ~ThreadPool *)

\* The destructor stops the workers and joins them.
LEMMA DestructorStep ==
    ASSUME IInv, Destructor
    PROVE  IInv'
<1> USE DEF IInv
<1>1. UNCHANGED <<nextWorker, queue, submit, worker, finished>>
  BY DEF Destructor, DestructorBegin, DestructorJoin
<1>2. Types'
  <2>1. stopping' \in -1 .. Threads
    BY PoolAssumption DEF Destructor, DestructorBegin, DestructorJoin, Types, Workers
  <2>2. running' \in [Workers -> BOOLEAN]
    BY DEF Destructor, DestructorBegin, DestructorJoin, Types
  <2> QED BY <1>1, <2>1, <2>2 DEF Types
<1>3. Stops'
  <2>1. CASE DestructorBegin
    BY <2>1, PoolAssumption DEF DestructorBegin, Stops, Workers
  <2>2. CASE DestructorJoin
    BY <2>2, PoolAssumption DEF DestructorJoin, Stops, Workers
  <2> QED BY <2>1, <2>2 DEF Destructor
<1> QED BY <1>1, <1>2, <1>3, WorkersUntouched, SubmittersUntouched

------------------------------------------------------------------------------
(* The invariant *)

\* Every step of the pool keeps the invariant.
LEMMA NextInvariant == IInv /\ [Next]_vars => IInv'
<1> SUFFICES ASSUME IInv, [Next]_vars PROVE IInv'
  OBVIOUS
<1>1. ASSUME NEW s \in Submitters, Submit(s) PROVE IInv'
  BY <1>1, SubmitTurnStep, SubmitRefusedStep, SubmitClaimStep, SubmitPublishStep DEF Submit
<1>2. ASSUME NEW w \in Workers, Routine(w) PROVE IInv'
  <2>1. CASE Loop(w)
    BY <2>1, MoveOn DEF Loop
  <2>2. CASE PopOwn(w)
    BY <2>2, TakeStep DEF PopOwn
  <2>3. CASE OwnEmpty(w)
    BY <2>3, MoveOn DEF OwnEmpty
  <2>4. CASE Steal(w)
    BY <2>4, TakeStep, NextWorker DEF Steal, Donor
  <2>5. CASE Sleep(w)
    BY <2>5, MoveOn DEF Sleep
  <2>6. CASE Release(w)
    BY <2>6, ReleaseStep
  <2>7. CASE TaskReturns(w)
    BY <2>7, TaskReturnsStep
  <2> QED BY <1>2, <2>1, <2>2, <2>3, <2>4, <2>5, <2>6, <2>7 DEF Routine
<1>3. CASE Destructor
  BY <1>3, DestructorStep
<1>4. CASE UNCHANGED vars
  <2>1. Types' /\ Stops'
    BY <1>4 DEF vars, IInv, Types, Stops
  <2> QED BY <1>4, <2>1, WorkersUntouched, SubmittersUntouched DEF vars, IInv
<1>5. CASE Gone
  BY <1>4, <1>5 DEF Gone
<1> QED BY <1>1, <1>2, <1>3, <1>4, <1>5 DEF Next

\* The invariant holds in every state the pool reaches.
THEOREM Invariance == Spec => []IInv
<1>1. Init => IInv
  BY InitInvariant
<1>2. IInv /\ [Next]_vars => IInv'
  BY NextInvariant
<1> QED BY <1>1, <1>2, PTL DEF Spec

------------------------------------------------------------------------------
(* What the runs check *)

\* The positions whose slot is in use are among the last Capacity ones.
LEMMA InUse ==
    ASSUME IInv, NEW w \in Workers
    PROVE  Cardinality(Positions(w) \ queue[w].freed) <= Capacity
<1> DEFINE n == Len(queue[w].log)
<1> DEFINE Last == n - Capacity + 1 .. n
<1>1. n \in Nat /\ QueueOK(queue[w])
  BY DEF IInv, Types, QueueStates, Queues
<1>2. Positions(w) \ queue[w].freed \subseteq Last
  BY <1>1, PoolAssumption DEF Positions, QueueOK
<1>3. IsFiniteSet(Last) /\ Cardinality(Last) = Capacity
  <2>1. n - Capacity + 1 \in Int /\ n \in Int
    BY <1>1, PoolAssumption
  <2>2. /\ IsFiniteSet(Last)
        /\ Cardinality(Last) = IF n - Capacity + 1 > n THEN 0 ELSE n - (n - Capacity + 1) + 1
    BY <2>1, FS_Interval
  <2> HIDE DEF Last
  <2> QED BY <1>1, <2>2, PoolAssumption
<1> HIDE DEF Last
<1> QED BY <1>2, <1>3, FS_Subset

\* The types hold, and a queue of a worker never has more than Capacity
\* elements whose slot is in use.
THEOREM TypeCorrect == Spec => []TypeOK
<1>1. IInv => TypeOK
  <2> SUFFICES ASSUME IInv PROVE TypeOK
    OBVIOUS
  <2> USE DEF IInv
  <2>1. \A s \in Submitters : submit[s].pc \in {"idle", "post", "publish"}
    BY DEF Types, SubmitStates
  <2>2. \A w \in Workers : worker[w].pc \in {"loop", "pop", "steal", "release", "task", "exit"}
    BY DEF Types, WorkerStates
  <2>3. ASSUME NEW w \in Workers
        PROVE  /\ queue[w].head <= Len(queue[w].log)
               /\ queue[w].freed \subseteq queue[w].ready
               /\ queue[w].ready \subseteq Positions(w)
    BY DEF Queues, QueueOK, Positions
  <2> QED BY <2>1, <2>2, <2>3, InUse DEF TypeOK, Types, QueueStates
<1> QED BY <1>1, Invariance, PTL

\* What a log holds after its first h positions.
LEMMA RestOfLog ==
    ASSUME NEW s \in Seq(Tasks), NEW h \in Nat, NEW i \in h + 1 .. Len(s)
    PROVE  s[i] \in Range(SubSeq(s, h + 1, Len(s)))
<1> DEFINE rest == SubSeq(s, h + 1, Len(s))
<1>1. Len(s) \in Nat /\ h + 1 \in Int /\ \A k \in h + 1 .. Len(s) : s[k] \in Tasks
  OBVIOUS
<1>2. /\ rest \in Seq(Tasks)
      /\ Len(rest) = IF h + 1 <= Len(s) THEN Len(s) - (h + 1) + 1 ELSE 0
      /\ \A k \in 1 .. Len(s) - (h + 1) + 1 : rest[k] = s[h + 1 + k - 1]
  BY <1>1, SubSeqProperties
<1> HIDE DEF rest
<1>3. i - h \in 1 .. Len(s) - (h + 1) + 1 /\ h + 1 + (i - h) - 1 = i /\ Len(rest) = Len(s) - h
  BY <1>1, <1>2
<1>4. rest[i - h] = s[i]
  BY <1>2, <1>3
<1>5. i - h \in DOMAIN rest
  <2>1. DOMAIN rest = 1 .. Len(rest)
    BY <1>2
  <2> QED BY <1>1, <1>3, <2>1
<1>6. s[i] \in Range(rest)
  BY <1>4, <1>5, Zenon DEF Range
<1> QED BY <1>6 DEF rest

\* When the destructor has returned no thread of the pool runs, and every
\* accepted task has returned or was never taken out of its queue.
THEOREM StopIsClean == Spec => []StoppedClean
<1>1. IInv => StoppedClean
  <2> SUFFICES ASSUME IInv, Destroyed
               PROVE  /\ Accepted \subseteq finished \cup Waiting
                      /\ \A w \in Workers : worker[w].pc = "exit"
    BY DEF StoppedClean
  <2> USE DEF IInv
  <2>1. \A w \in Workers : worker[w].pc = "exit"
    BY PoolAssumption DEF Stops, Destroyed, Workers
  <2>2. ASSUME NEW t \in Accepted, t \notin finished
        PROVE  t \in Waiting
    <3>1. PICK v \in Workers : \E i \in 1 .. Len(queue[v].log) : queue[v].log[i] = t
      BY AcceptedPosition
    <3>2. PICK i \in 1 .. Len(queue[v].log) : queue[v].log[i] = t
      BY <3>1
    <3>3. queue[v].log \in Seq(Tasks) /\ queue[v].head \in Nat
      BY DEF Types, QueueStates
    <3>4. ~ Claimed(t)
      <4>1. t \in Tasks
        BY <3>2, <3>3
      <4> QED BY <2>1, <2>2, <4>1 DEF ClaimedHeld, Holds
    <3>5. i \notin 1 .. queue[v].head
      BY <3>2, <3>4 DEF Claimed
    <3>6. i \in queue[v].head + 1 .. Len(queue[v].log)
      BY <3>3, <3>5
    <3>7. t \in Range(SubSeq(queue[v].log, queue[v].head + 1, Len(queue[v].log)))
      BY <3>2, <3>3, <3>6, RestOfLog
    <3> QED BY <3>7, Zenon DEF Waiting
  <2> QED BY <2>1, <2>2
<1> QED BY <1>1, Invariance, PTL

------------------------------------------------------------------------------
(* The pool implements TaskPool *)

\* A task that a worker holds or has finished was accepted.
LEMMA TakenAccepted ==
    ASSUME IInv
    PROVE  Started \cup finished \subseteq Accepted
<1> USE DEF IInv
<1>1. ASSUME NEW t \in finished PROVE t \in Accepted
  BY ClaimedAccepted DEF FinishedClaimed
<1>2. ASSUME NEW w \in Workers, worker[w].pc = "task" PROVE worker[w].task \in Accepted
  BY <1>2, ClaimedAccepted DEF HeldClaimed, Holds
<1> QED BY <1>1, <1>2 DEF Started

\* A step that accepts, starts and finishes no task.
LEMMA Stutters ==
    ASSUME Accepted' = Accepted, Started' = Started, finished' = finished
    PROVE  UNCHANGED TaskPool!poolVars
BY DEF TaskPool!poolVars, Pending

\* The step that puts a task in a queue accepts it.
LEMMA ClaimAccepts ==
    ASSUME IInv, NEW s \in Submitters, SubmitClaim(s)
    PROVE  TaskPool!Accept(submit[s].task)
<1> USE DEF IInv
<1> DEFINE v == submit[s].to
<1> DEFINE t == submit[s].task
<1>1. v \in Workers /\ t \in Tasks /\ t \notin Accepted
  BY DEF SubmitClaim, Types, SubmitStates, PostsUnaccepted
<1>2. /\ queue' \in [Workers -> QueueStates]
      /\ \A u \in Workers : u # v => queue'[u] = queue[u]
      /\ queue'[v].log = Append(queue[v].log, t)
      /\ UNCHANGED <<worker, finished>>
  <2>1. queue' = [queue EXCEPT ![v].log = Append(@, t)] /\ UNCHANGED <<worker, finished>>
    BY DEF SubmitClaim
  <2>2. queue' \in [Workers -> QueueStates] /\ \A u \in Workers : u # v => queue'[u] = queue[u]
    BY <1>1, <2>1, PushedLog
  <2>3. queue'[v].log = Append(queue[v].log, t)
    BY <1>1, <2>1 DEF Types, QueueStates
  <2> QED BY <2>1, <2>2, <2>3
<1> HIDE DEF v, t
<1>3. Range(queue'[v].log) = Range(queue[v].log) \cup {t}
  <2>1. queue[v].log \in Seq(Tasks)
    BY <1>1 DEF Types, QueueStates
  <2>2. /\ DOMAIN queue[v].log = 1 .. Len(queue[v].log)
        /\ DOMAIN queue'[v].log = 1 .. Len(queue[v].log) + 1
        /\ queue'[v].log[Len(queue[v].log) + 1] = t
        /\ \A i \in 1 .. Len(queue[v].log) : queue'[v].log[i] = queue[v].log[i]
    BY <1>1, <1>2, <2>1
  <2>3. 1 .. Len(queue[v].log) + 1 = (1 .. Len(queue[v].log)) \cup {Len(queue[v].log) + 1}
    BY <2>1
  <2> QED BY <2>2, <2>3 DEF Range
<1>4. Accepted' = Accepted \cup {t}
  <2>1. \A x : x \in Accepted' <=> \E u \in Workers : x \in Range(queue'[u].log)
    BY Zenon DEF Accepted
  <2>2. \A x : x \in Accepted <=> \E u \in Workers : x \in Range(queue[u].log)
    BY Zenon DEF Accepted
  <2> QED BY <1>1, <1>2, <1>3, <2>1, <2>2
<1>5. Started' = Started
  BY <1>2 DEF Started
<1>6. t \notin Started \cup finished
  BY <1>1, TakenAccepted
<1> QED BY <1>1, <1>2, <1>4, <1>5, <1>6 DEF TaskPool!Accept, Pending, t

\* A worker that is about to run a task is not among those that run one: there
\* are at most Threads - 1 of these.
LEMMA RoomToStart ==
    ASSUME IInv, NEW w \in Workers, worker[w].pc # "task"
    PROVE  Cardinality(Started) < Threads
<1> DEFINE busy == {v \in Workers : worker[v].pc = "task"}
<1> DEFINE f == [v \in busy |-> worker[v].task]
<1>1. f \in Surjection(busy, Started)
  BY DEF Surjection, Started
<1>2. IsFiniteSet(Workers) /\ Cardinality(Workers) = Threads
  <2>1. 0 \in Int /\ Threads - 1 \in Int
    BY PoolAssumption
  <2>2. /\ IsFiniteSet(0 .. Threads - 1)
        /\ Cardinality(0 .. Threads - 1) = IF 0 > Threads - 1 THEN 0 ELSE Threads - 1 - 0 + 1
    BY <2>1, FS_Interval
  <2> QED BY <2>2, PoolAssumption DEF Workers
<1>3. IsFiniteSet(Workers \ {w}) /\ Cardinality(Workers \ {w}) = Threads - 1
  BY <1>2, FS_RemoveElement
<1>4. busy \subseteq Workers \ {w}
  OBVIOUS
<1>5. IsFiniteSet(busy) /\ Cardinality(busy) <= Threads - 1
  BY <1>3, <1>4, FS_Subset
<1>6. Cardinality(busy) \in Nat
  BY <1>5, FS_CardinalityType
<1>7. IsFiniteSet(Started) /\ Cardinality(Started) <= Cardinality(busy)
  BY <1>1, <1>5, FS_Surjection
<1>8. Cardinality(Started) \in Nat
  BY <1>7, FS_CardinalityType
<1> QED BY <1>5, <1>6, <1>7, <1>8, PoolAssumption

\* The step that releases the slot of a task starts the task.
LEMMA ReleaseStarts ==
    ASSUME IInv, NEW w \in Workers, Release(w)
    PROVE  TaskPool!Start(worker[w].task)
<1> USE DEF IInv
<1> DEFINE t == worker[w].task
<1>1. worker[w].pc = "release" /\ t \in Tasks /\ worker[w].from \in Workers
  BY DEF Release, Types, WorkerStates
<1>2. t \in Accepted /\ t \notin finished
  BY <1>1, ClaimedAccepted DEF HeldClaimed, Holds
<1>3. t \notin Started
  BY <1>1 DEF HeldDistinct, Holds, Started
<1>4. Accepted' = Accepted
  <2>1. \A u \in Workers : queue'[u].log = queue[u].log
    BY <1>1 DEF Release, Types, QueueStates
  <2> QED BY <2>1, Zenon DEF Accepted
<1>5. /\ \A u \in Workers : u # w => worker'[u] = worker[u]
      /\ worker'[w] = [pc |-> "task", task |-> t]
      /\ finished' = finished
  BY DEF Release, Types
<1>6. Started' = Started \cup {t}
  BY <1>1, <1>5 DEF Started
<1>7. Cardinality(Started) < Threads
  BY <1>1, RoomToStart
<1>8. t \in Pending /\ Pending' = Pending \ {t}
  BY <1>2, <1>3, <1>4, <1>5, <1>6 DEF Pending
<1> HIDE DEF t
<1>9. TaskPool!Start(t)
  <2>1. TaskPool!Cardinality(Started) = Cardinality(Started)
    BY Zenon DEF TaskPool!Cardinality, Cardinality
  <2> QED BY <1>5, <1>6, <1>7, <1>8, <2>1 DEF TaskPool!Start
<1> QED BY <1>9 DEF t

\* The return of a task finishes it.
LEMMA ReturnFinishes ==
    ASSUME IInv, NEW w \in Workers, TaskReturns(w)
    PROVE  TaskPool!Finish(worker[w].task)
<1> USE DEF IInv
<1> DEFINE t == worker[w].task
<1>1. worker[w].pc = "task" /\ finished' = finished \cup {t} /\ queue' = queue
  BY DEF TaskReturns
<1>2. /\ \A u \in Workers : u # w => worker'[u] = worker[u]
      /\ worker'[w] = [pc |-> "loop"]
  BY DEF TaskReturns, Types
<1>3. t \in Started
  BY <1>1 DEF Started
<1>4. \A u \in Workers : u # w /\ worker[u].pc = "task" => worker[u].task # t
  BY <1>1 DEF HeldDistinct, Holds
<1>5. Started' = Started \ {t}
  BY <1>2, <1>4 DEF Started
<1>6. Pending' = Pending
  BY <1>1, <1>3, <1>5 DEF Pending, Accepted
<1> QED BY <1>1, <1>3, <1>5, <1>6 DEF TaskPool!Finish

\* A worker that is in no task before or after a step starts and finishes none.
LEMMA NotRunning ==
    ASSUME Types, NEW w \in Workers, NEW x,
           worker[w].pc # "task", x.pc # "task", worker' = [worker EXCEPT ![w] = x]
    PROVE  Started' = Started
<1>1. worker'[w] = x /\ \A v \in Workers : v # w => worker'[v] = worker[v]
  BY DEF Types
<1> QED BY <1>1 DEF Started

\* Every step of the pool is one of TaskPool, or leaves its variables alone.
LEMMA StepRefines ==
    ASSUME IInv, [Next]_vars
    PROVE  [TaskPool!Next]_TaskPool!poolVars
<1> USE DEF IInv
<1>1. ASSUME NEW s \in Submitters, Submit(s)
      PROVE  [TaskPool!Next]_TaskPool!poolVars
  <2>1. CASE SubmitTurn(s) \/ SubmitRefused(s)
    BY <2>1, Stutters DEF SubmitTurn, SubmitRefused, Accepted, Started
  <2>2. CASE SubmitClaim(s)
    <3>1. submit[s].task \in Tasks
      BY <2>2 DEF SubmitClaim, Types, SubmitStates
    <3> QED BY <2>2, <3>1, ClaimAccepts DEF TaskPool!Next
  <2>3. CASE SubmitPublish(s)
    <3>1. \A u \in Workers : queue'[u].log = queue[u].log
      BY <2>3 DEF SubmitPublish, Types, SubmitStates, QueueStates
    <3>2. Accepted' = Accepted
      BY <3>1, Zenon DEF Accepted
    <3> QED BY <2>3, <3>2, Stutters DEF SubmitPublish, Started
  <2> QED BY <1>1, <2>1, <2>2, <2>3 DEF Submit
<1>2. ASSUME NEW w \in Workers, Routine(w)
      PROVE  [TaskPool!Next]_TaskPool!poolVars
  <2>1. CASE Loop(w) \/ OwnEmpty(w) \/ Sleep(w)
    <3>1. worker[w] \in [pc : {"loop", "pop", "steal", "exit"}]
      BY <2>1 DEF Loop, OwnEmpty, Sleep, Types, WorkerStates
    <3>2. PICK p \in {"loop", "pop", "steal", "exit"} : worker' = [worker EXCEPT ![w].pc = p]
      BY <2>1 DEF Loop, OwnEmpty, Sleep
    <3>3. Started' = Started
      <4>1. \A v \in Workers : v # w => worker'[v] = worker[v]
        BY <3>2 DEF Types
      <4>2. worker'[w].pc # "task" /\ worker[w].pc # "task"
        BY <3>1, <3>2 DEF Types
      <4> QED BY <4>1, <4>2 DEF Started
    <3> QED BY <2>1, <3>3, Stutters DEF Loop, OwnEmpty, Sleep, Accepted
  <2>2. CASE PopOwn(w) \/ Steal(w)
    <3>1. PICK v \in Workers : Take(w, v) /\ worker[w].pc # "task"
      BY <2>2, NextWorker DEF PopOwn, Steal, Donor
    <3>2. \A u \in Workers : queue'[u].log = queue[u].log
      BY <3>1 DEF Take, Types, QueueStates
    <3>3. Accepted' = Accepted
      BY <3>2, Zenon DEF Accepted
    <3>4. Started' = Started
      BY <3>1, NotRunning DEF Take
    <3> QED BY <3>1, <3>3, <3>4, Stutters DEF Take
  <2>3. CASE Release(w)
    <3>1. worker[w].task \in Tasks
      BY <2>3, HolderTask DEF Release, Holds
    <3> QED BY <2>3, <3>1, ReleaseStarts DEF TaskPool!Next
  <2>4. CASE TaskReturns(w)
    <3>1. worker[w].task \in Tasks
      BY <2>4, HolderTask DEF TaskReturns, Holds
    <3> QED BY <2>4, <3>1, ReturnFinishes DEF TaskPool!Next
  <2> QED BY <1>2, <2>1, <2>2, <2>3, <2>4 DEF Routine
<1>3. CASE Destructor \/ Gone \/ UNCHANGED vars
  BY <1>3, Stutters DEF Destructor, DestructorBegin, DestructorJoin, Gone, vars, Accepted, Started
<1> QED BY <1>1, <1>2, <1>3 DEF Next

\* An accepted task is started at most once, only accepted tasks are started,
\* and no more of them run at a time than there are threads.
THEOREM Refinement == Spec => TaskPoolSpec
<1>1. Init => TaskPool!Init
  <2> SUFFICES ASSUME Init PROVE TaskPool!Init
    OBVIOUS
  <2>1. Started = {} /\ finished = {}
    BY DEF Init, Started
  <2>2. ASSUME NEW t \in Accepted PROVE FALSE
    <3>1. Types /\ \A v \in Workers : 1 .. Len(queue[v].log) = {}
      BY InitInvariant DEF Init, EmptyQueue, IInv
    <3> QED BY <2>2, <3>1, AcceptedPosition
  <2> QED BY <2>1, <2>2 DEF TaskPool!Init, Pending
<1>2. IInv /\ [Next]_vars => [TaskPool!Next]_TaskPool!poolVars
  BY StepRefines
<1> QED BY <1>1, <1>2, Invariance, PTL DEF Spec, TaskPoolSpec, TaskPool!Spec

------------------------------------------------------------------------------
(* The queues of the pool follow ClaimQueue *)

\* Publishing changes one field of one queue.
LEMMA ReadyChanged ==
    ASSUME Types, NEW v \in Workers, NEW x, queue' = [queue EXCEPT ![v].ready = x]
    PROVE  /\ \A w \in Workers : w # v => queue'[w] = queue[w]
           /\ queue'[v].log = queue[v].log /\ queue'[v].ready = x
           /\ queue'[v].head = queue[v].head /\ queue'[v].freed = queue[v].freed
BY DEF Types, QueueStates

\* So does taking,
LEMMA HeadChanged ==
    ASSUME Types, NEW v \in Workers, NEW x, queue' = [queue EXCEPT ![v].head = x]
    PROVE  /\ \A w \in Workers : w # v => queue'[w] = queue[w]
           /\ queue'[v].log = queue[v].log /\ queue'[v].head = x
           /\ queue'[v].ready = queue[v].ready /\ queue'[v].freed = queue[v].freed
BY DEF Types, QueueStates

\* and releasing.
LEMMA FreedChanged ==
    ASSUME Types, NEW v \in Workers, NEW x, queue' = [queue EXCEPT ![v].freed = x]
    PROVE  /\ \A w \in Workers : w # v => queue'[w] = queue[w]
           /\ queue'[v].log = queue[v].log /\ queue'[v].freed = x
           /\ queue'[v].head = queue[v].head /\ queue'[v].ready = queue[v].ready
BY DEF Types, QueueStates

\* A submitter that finds the queue not full claims the next position.
LEMMA SubmitClaims ==
    ASSUME IInv, NEW s \in Submitters, SubmitClaim(s), NEW w \in Workers
    PROVE  [Claims(w)!Next]_(Claims(w)!claimVars)
<1> DEFINE v == submit[s].to
<1> DEFINE t == submit[s].task
<1>1. /\ v \in Workers /\ t \in Tasks /\ ~ Full(queue[v])
      /\ queue' = [queue EXCEPT ![v].log = Append(@, t)]
  BY DEF SubmitClaim, IInv, Types, SubmitStates
<1> HIDE DEF v, t
<1>2. /\ \A u \in Workers : u # v => queue'[u] = queue[u]
      /\ queue'[v].head = queue[v].head
      /\ queue'[v].ready = queue[v].ready /\ queue'[v].freed = queue[v].freed
  BY <1>1, PushedLog DEF IInv
<1>3. queue'[v].log = Append(queue[v].log, t)
  BY <1>1 DEF IInv, Types, QueueStates
<1>4. CASE w = v
  BY <1>1, <1>2, <1>3, <1>4 DEF Claims!Next, Claims!ClaimPush, Claims!Full, Full
<1>5. CASE w # v
  BY <1>2, <1>5 DEF Claims!claimVars
<1> QED BY <1>4, <1>5

\* It publishes a position that was pushed and is not published.
LEMMA SubmitPublishes ==
    ASSUME IInv, NEW s \in Submitters, SubmitPublish(s), NEW w \in Workers
    PROVE  [Claims(w)!Next]_(Claims(w)!claimVars)
<1> DEFINE v == submit[s].to
<1> DEFINE n == submit[s].at
<1>1. /\ v \in Workers /\ submit[s].pc = "publish"
      /\ queue' = [queue EXCEPT ![v].ready = @ \cup {n}]
  BY DEF SubmitPublish, IInv, Types, SubmitStates
<1>2. n \in queue[v].head + 1 .. Len(queue[v].log) /\ n \notin queue[v].ready
  BY <1>1 DEF IInv, Publishes, Publishing
<1> HIDE DEF v, n
<1>3. queue[v].head \in Nat /\ Len(queue[v].log) \in Nat
  BY <1>1 DEF IInv, Types, QueueStates
<1>4. /\ \A u \in Workers : u # v => queue'[u] = queue[u]
      /\ queue'[v].log = queue[v].log /\ queue'[v].ready = queue[v].ready \cup {n}
      /\ queue'[v].head = queue[v].head /\ queue'[v].freed = queue[v].freed
  <2>1. queue' = [queue EXCEPT ![v].ready = queue[v].ready \cup {n}]
    BY <1>1
  <2> QED BY <1>1, <2>1, ReadyChanged DEF IInv
<1>5. CASE w = v
  <2>1. n \in 1 .. Len(queue[v].log)
    BY <1>2, <1>3
  <2> QED BY <1>2, <1>4, <1>5, <2>1 DEF Claims!Next, Claims!Publish
<1>6. CASE w # v
  BY <1>4, <1>6 DEF Claims!claimVars
<1> QED BY <1>5, <1>6

\* A worker or its neighbour takes the next position once it is published.
LEMMA TakeClaims ==
    ASSUME IInv, NEW v \in Workers, NEW u \in Workers, Take(u, v), NEW w \in Workers
    PROVE  [Claims(w)!Next]_(Claims(w)!claimVars)
<1>1. Poppable(queue[v]) /\ queue' = [queue EXCEPT ![v].head = queue[v].head + 1]
  BY DEF Take
<1>2. /\ \A x \in Workers : x # v => queue'[x] = queue[x]
      /\ queue'[v].log = queue[v].log /\ queue'[v].head = queue[v].head + 1
      /\ queue'[v].ready = queue[v].ready /\ queue'[v].freed = queue[v].freed
  BY <1>1, HeadChanged DEF IInv
<1>3. CASE w = v
  BY <1>1, <1>2, <1>3 DEF Claims!Next, Claims!ClaimPop, Claims!Empty, Poppable
<1>4. CASE w # v
  BY <1>2, <1>4 DEF Claims!claimVars
<1> QED BY <1>3, <1>4

\* It releases a position that was taken and is not released.
LEMMA ReleaseFrees ==
    ASSUME IInv, NEW u \in Workers, Release(u), NEW w \in Workers
    PROVE  [Claims(w)!Next]_(Claims(w)!claimVars)
<1> DEFINE v == worker[u].from
<1> DEFINE n == worker[u].at
<1>1. /\ v \in Workers /\ worker[u].pc = "release"
      /\ queue' = [queue EXCEPT ![v].freed = queue[v].freed \cup {n}]
  BY DEF Release, IInv, Types, WorkerStates
<1>2. n \in (1 .. queue[v].head) \ queue[v].freed
  BY <1>1 DEF IInv, Releases, Releasing
<1> HIDE DEF v, n
<1>3. /\ \A x \in Workers : x # v => queue'[x] = queue[x]
      /\ queue'[v].log = queue[v].log /\ queue'[v].freed = queue[v].freed \cup {n}
      /\ queue'[v].head = queue[v].head /\ queue'[v].ready = queue[v].ready
  BY <1>1, FreedChanged DEF IInv
<1>4. CASE w = v
  BY <1>2, <1>3, <1>4 DEF Claims!Next, Claims!Release
<1>5. CASE w # v
  BY <1>3, <1>5 DEF Claims!claimVars
<1> QED BY <1>4, <1>5

\* Every step of the pool is a step of at most one of its queues.
LEMMA StepFollows ==
    ASSUME IInv, [Next]_vars, NEW w \in Workers
    PROVE  [Claims(w)!Next]_(Claims(w)!claimVars)
<1>1. CASE queue' = queue
  BY <1>1 DEF Claims!claimVars
<1>2. CASE \E s \in Submitters : Submit(s)
  <2>1. PICK s \in Submitters : Submit(s)
    BY <1>2
  <2>2. CASE SubmitTurn(s) \/ SubmitRefused(s)
    BY <1>1, <2>2 DEF SubmitTurn, SubmitRefused
  <2> QED BY <2>1, <2>2, SubmitClaims, SubmitPublishes DEF Submit
<1>3. CASE \E u \in Workers : Routine(u)
  <2>1. PICK u \in Workers : Routine(u)
    BY <1>3
  <2>2. CASE PopOwn(u) \/ Steal(u)
    BY <2>2, TakeClaims, NextWorker DEF PopOwn, Steal, Donor
  <2>3. CASE Release(u)
    BY <2>3, ReleaseFrees
  <2>4. CASE Loop(u) \/ OwnEmpty(u) \/ Sleep(u) \/ TaskReturns(u)
    BY <1>1, <2>4 DEF Loop, OwnEmpty, Sleep, TaskReturns
  <2> QED BY <2>1, <2>2, <2>3, <2>4 DEF Routine
<1>4. CASE Destructor \/ Gone \/ UNCHANGED vars
  BY <1>1, <1>4 DEF Destructor, DestructorBegin, DestructorJoin, Gone, vars
<1> QED BY <1>2, <1>3, <1>4 DEF Next

\* A new pool has empty queues.
LEMMA InitFollows ==
    ASSUME Init, NEW w \in Workers
    PROVE  Claims(w)!Init
BY DEF Init, EmptyQueue, Claims!Init

\* What the pool takes for granted of its queues is what ClaimRefinement and
\* Refusals show of the queue they are.
THEOREM QueuesAsProved == Spec => QueuesFollow
<1>1. Init => \A w \in Workers : Claims(w)!Init
  BY InitFollows
<1>2. IInv /\ [Next]_vars =>
        [\A w \in Workers : [Claims(w)!Next]_(Claims(w)!claimVars)]_vars
  BY StepFollows
<1> QED BY <1>1, <1>2, Invariance, PTL DEF Spec, QueuesFollow

\* The same of each queue: a behaviour of the pool is one of ClaimQueue there.
THEOREM QueueAsProved == ASSUME NEW w \in Workers PROVE Spec => Claims(w)!Spec
<1>1. Init => Claims(w)!Init
  BY InitFollows
<1>2. IInv /\ [Next]_vars => [Claims(w)!Next]_(Claims(w)!claimVars)
  BY StepFollows
<1> QED BY <1>1, <1>2, Invariance, PTL DEF Spec, Claims!Spec

==============================================================================
