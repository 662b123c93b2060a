----------------------------- MODULE ThreadPool ------------------------------
(***************************************************************************)
(* The thread pool of minet/src/threading: ThreadPool.h, ThreadPool.cpp    *)
(* and Worker.h.  Submit picks the workers in turn and posts to the queue  *)
(* of one of them; a worker runs the tasks of its own queue and, when that *)
(* is empty, one of its neighbour's.  The destructor stops and joins the   *)
(* workers one after the other.                                            *)
(*                                                                         *)
(* A queue is taken at the grain that module Queue proves it to have: a    *)
(* Push or Pop takes effect at its claim; the element can be popped once   *)
(* it is published, and its slot pushed to again once it is released.      *)
(* Tasks are claimed from a queue in order and released in any.            *)
(***************************************************************************)
EXTENDS Integers, Sequences, FiniteSets, Functions

CONSTANTS
    Threads,        \* _threads
    Submitters,     \* threads that call Submit
    Capacity,       \* the slots of each worker's queue
    MaxTasks        \* bound: the tasks that may be submitted

ASSUME PoolAssumption ==
    /\ Threads \in Nat \ {0}
    /\ Capacity \in Nat \ {0, 1}
    /\ MaxTasks \in Nat

\* Tasks are numbered in the order in which their Submit takes its turn.
Tasks == 1 .. MaxTasks

Workers == 0 .. Threads - 1

VARIABLES
    nextWorker,     \* ThreadPool::_next % _threads
    queue,          \* Worker::_queue of each worker
    submit,         \* what each submitter is doing
    running,        \* Worker::_running
    worker,         \* what each worker is doing
    stopping,       \* the worker the destructor is at, -1 before it is called
    finished        \* history: the tasks that have returned

vars == <<nextWorker, queue, submit, running, worker, stopping, finished>>

\* Positions log[1 .. head] are claimed by consumers.  An element is in `ready`
\* once published, and in `freed` once its slot is released.
EmptyQueue == [log |-> <<>>, head |-> 0, ready |-> {}, freed |-> {}]

\* The slot of the next position to push is in use on the lap before.
Full(q) == Len(q.log) >= Capacity /\ Len(q.log) - Capacity + 1 \notin q.freed

Poppable(q) == q.head + 1 \in q.ready

\* Variant of Donor: a worker is its own donor.
DonorSelf(w) == w

Donor(w) == (w + 1) % Threads

Init ==
    /\ nextWorker = 0
    /\ queue = [w \in Workers |-> EmptyQueue]
    /\ submit = [s \in Submitters |-> [pc |-> "idle"]]
    /\ running = [w \in Workers |-> TRUE]
    /\ worker = [w \in Workers |-> [pc |-> "loop"]]
    /\ stopping = -1
    /\ finished = {}

\* The tasks accepted so far, and those on their way into a queue.
Accepted == UNION {Range(queue[w].log) : w \in Workers}
Submitting == {submit[s].task : s \in {r \in Submitters : submit[r].pc # "idle"}}
Unused     == Tasks \ (Accepted \cup Submitting)

------------------------------------------------------------------------------
(* Submit *)

\* _next.fetch_add(1) % _threads; only the remainder matters.  The number of a
\* task that was refused is given again.
SubmitTurn(s) ==
    /\ stopping = -1
    /\ submit[s].pc = "idle"
    /\ \E t \in Unused :
          /\ \A u \in Unused : t <= u
          /\ submit' = [submit EXCEPT ![s] = [pc |-> "post", task |-> t, to |-> nextWorker]]
    /\ nextWorker' = (nextWorker + 1) % Threads
    /\ UNCHANGED <<queue, running, worker, stopping, finished>>

\* Post returned false, and so does Submit.
SubmitRefused(s) ==
    /\ submit[s].pc = "post"
    /\ Full(queue[submit[s].to])
    /\ submit' = [submit EXCEPT ![s] = [pc |-> "idle"]]
    /\ UNCHANGED <<nextWorker, queue, running, worker, stopping, finished>>

\* Variant of SubmitClaim: no look at whether the slot is free.
SubmitClaimBlind(s) ==
    /\ submit[s].pc = "post"
    /\ queue' = [queue EXCEPT ![submit[s].to].log = Append(@, submit[s].task)]
    /\ submit' = [submit EXCEPT ![s] =
          [pc |-> "publish", task |-> submit[s].task, to |-> submit[s].to,
           at |-> Len(queue[submit[s].to].log) + 1]]
    /\ UNCHANGED <<nextWorker, running, worker, stopping, finished>>

SubmitClaim(s) ==
    /\ submit[s].pc = "post"
    /\ ~ Full(queue[submit[s].to])
    /\ queue' = [queue EXCEPT ![submit[s].to].log = Append(@, submit[s].task)]
    /\ submit' = [submit EXCEPT ![s] =
          [pc |-> "publish", task |-> submit[s].task, to |-> submit[s].to,
           at |-> Len(queue[submit[s].to].log) + 1]]
    /\ UNCHANGED <<nextWorker, running, worker, stopping, finished>>

SubmitPublish(s) ==
    /\ submit[s].pc = "publish"
    /\ queue' = [queue EXCEPT ![submit[s].to].ready = @ \cup {submit[s].at}]
    /\ submit' = [submit EXCEPT ![s] = [pc |-> "idle"]]
    /\ UNCHANGED <<nextWorker, running, worker, stopping, finished>>

Submit(s) == SubmitTurn(s) \/ SubmitRefused(s) \/ SubmitClaim(s) \/ SubmitPublish(s)

------------------------------------------------------------------------------
(* Worker::_Routine *)

Loop(w) ==
    /\ worker[w].pc = "loop"
    /\ worker' = [worker EXCEPT ![w].pc = IF running[w] THEN "pop" ELSE "exit"]
    /\ UNCHANGED <<nextWorker, queue, submit, running, stopping, finished>>

\* Variant of Take: the thief reads the task without claiming it.
TakeCopy(w, v) ==
    /\ Poppable(queue[v])
    /\ worker' = [worker EXCEPT ![w] =
          [pc |-> "release", task |-> queue[v].log[queue[v].head + 1],
           from |-> v, at |-> queue[v].head + 1]]
    /\ UNCHANGED <<nextWorker, queue, submit, running, stopping, finished>>

\* Claim the oldest task of queue v.
Take(w, v) ==
    /\ Poppable(queue[v])
    /\ queue' = [queue EXCEPT ![v].head = @ + 1]
    /\ worker' = [worker EXCEPT ![w] =
          [pc |-> "release", task |-> queue[v].log[queue[v].head + 1],
           from |-> v, at |-> queue[v].head + 1]]
    /\ UNCHANGED <<nextWorker, submit, running, stopping, finished>>

PopOwn(w) == worker[w].pc = "pop" /\ Take(w, w)

OwnEmpty(w) ==
    /\ worker[w].pc = "pop"
    /\ ~ Poppable(queue[w])
    /\ worker' = [worker EXCEPT ![w].pc = "steal"]
    /\ UNCHANGED <<nextWorker, queue, submit, running, stopping, finished>>

\* donor->_Steal
Steal(w) == worker[w].pc = "steal" /\ Take(w, Donor(w))

\* sleep_for(1ms)
Sleep(w) ==
    /\ worker[w].pc = "steal"
    /\ ~ Poppable(queue[Donor(w)])
    /\ worker' = [worker EXCEPT ![w].pc = "loop"]
    /\ UNCHANGED <<nextWorker, queue, submit, running, stopping, finished>>

\* Variant of Release: the stop flag is looked at once a task is taken.
ReleaseUnlessStopped(w) ==
    /\ worker[w].pc = "release"
    /\ queue' = [queue EXCEPT ![worker[w].from].freed = @ \cup {worker[w].at}]
    /\ worker' = [worker EXCEPT ![w] =
          [pc |-> IF running[w] THEN "task" ELSE "exit", task |-> worker[w].task]]
    /\ UNCHANGED <<nextWorker, submit, running, stopping, finished>>

\* The task is moved out of the slot, the slot released, and the task called.
Release(w) ==
    /\ worker[w].pc = "release"
    /\ queue' = [queue EXCEPT ![worker[w].from].freed = @ \cup {worker[w].at}]
    /\ worker' = [worker EXCEPT ![w] = [pc |-> "task", task |-> worker[w].task]]
    /\ UNCHANGED <<nextWorker, submit, running, stopping, finished>>

TaskReturns(w) ==
    /\ worker[w].pc = "task"
    /\ finished' = finished \cup {worker[w].task}
    /\ worker' = [worker EXCEPT ![w] = [pc |-> "loop"]]
    /\ UNCHANGED <<nextWorker, queue, submit, running, stopping>>

Routine(w) ==
    Loop(w) \/ PopOwn(w) \/ OwnEmpty(w) \/ Steal(w) \/ Sleep(w) \/ Release(w) \/ TaskReturns(w)

------------------------------------------------------------------------------
(* ~ThreadPool *)

\* Nobody may be using the pool when it is destroyed.
DestructorBegin ==
    /\ stopping = -1
    /\ \A s \in Submitters : submit[s].pc = "idle"
    /\ stopping' = 0
    /\ running' = [running EXCEPT ![0] = FALSE]
    /\ UNCHANGED <<nextWorker, queue, submit, worker, finished>>

\* Variant of DestructorJoin: the next worker is not told to stop.
DestructorJoinOnly ==
    /\ stopping \in Workers
    /\ worker[stopping].pc = "exit"
    /\ stopping' = stopping + 1
    /\ UNCHANGED <<nextWorker, queue, submit, running, worker, finished>>

\* The worker is joined; the next one, if any, is told to stop.
DestructorJoin ==
    /\ stopping \in Workers
    /\ worker[stopping].pc = "exit"
    /\ stopping' = stopping + 1
    /\ running' = [w \in Workers |-> running[w] /\ w # stopping']
    /\ UNCHANGED <<nextWorker, queue, submit, worker, finished>>

Destructor == DestructorBegin \/ DestructorJoin

Destroyed == stopping = Threads

\* The pool is gone: nothing is left to do.
Gone == Destroyed /\ UNCHANGED vars

Next ==
    \/ \E s \in Submitters : Submit(s)
    \/ \E w \in Workers : Routine(w)
    \/ Destructor
    \/ Gone

Spec == Init /\ [][Next]_vars

------------------------------------------------------------------------------
(* Properties *)

Started == {worker[w].task : w \in {v \in Workers : worker[v].pc = "task"}}

\* The accepted tasks nobody has started.
Pending == Accepted \ (Started \cup finished)

\* The tasks that are still in a queue, not claimed by a worker.
Waiting == UNION {Range(SubSeq(queue[w].log, queue[w].head + 1, Len(queue[w].log))) : w \in Workers}

Positions(w) == 1 .. Len(queue[w].log)

\* Types; a queue holds no more than Capacity elements whose slot is in use.
TypeOK ==
    /\ nextWorker \in Workers
    /\ queue \in [Workers -> [log : Seq(Tasks), head : Nat, ready : SUBSET Nat, freed : SUBSET Nat]]
    /\ \A w \in Workers :
          /\ queue[w].head <= Len(queue[w].log)
          /\ queue[w].freed \subseteq queue[w].ready
          /\ queue[w].ready \subseteq Positions(w)
          /\ Cardinality(Positions(w) \ queue[w].freed) <= Capacity
    /\ \A s \in Submitters : submit[s].pc \in {"idle", "post", "publish"}
    /\ running \in [Workers -> BOOLEAN]
    /\ \A w \in Workers : worker[w].pc \in {"loop", "pop", "steal", "release", "task", "exit"}
    /\ stopping \in -1 .. Threads
    /\ finished \subseteq Tasks

\* The pool implements the abstract one: an accepted task is started at most
\* once, by the worker it was posted to or by the one that stole it.
TaskPool == INSTANCE TaskPool WITH pending <- Pending, started <- Started

TaskPoolSpec == TaskPool!Spec

\* Every queue of the pool takes steps of ClaimQueue only: Post, Pop and _Steal
\* ask nothing of it that the queue of Queue.h, which implements ClaimQueue,
\* does not do.
Claims(w) ==
    INSTANCE ClaimQueue WITH
        Values <- Tasks, log <- queue[w].log, head <- queue[w].head,
        ready <- queue[w].ready, freed <- queue[w].freed

QueuesFollow ==
    /\ \A w \in Workers : Claims(w)!Init
    /\ [][\A w \in Workers : [Claims(w)!Next]_(Claims(w)!claimVars)]_vars

\* The destructor loses no task that a worker has taken: when it returns, every
\* accepted task has returned or was never taken out of its queue, and no thread
\* of the pool is running.
StoppedClean ==
    Destroyed =>
        /\ Accepted \subseteq finished \cup Waiting
        /\ \A w \in Workers : worker[w].pc = "exit"

\* Fairness: the threads of the pool run, the destructor goes on.  The tasks of
\* the workers in `stuck` need not return.
Fairness(stuck) ==
    /\ \A s \in Submitters : WF_vars(submit[s].pc # "idle" /\ Submit(s))
    /\ \A w \in Workers : WF_vars(worker[w].pc # "task" /\ Routine(w))
    /\ \A w \in Workers \ stuck : WF_vars(TaskReturns(w))
    /\ WF_vars(DestructorJoin)

\* An accepted task is started in the end, unless the pool is destroyed.
AcceptedTaskStarts ==
    \A t \in Tasks : t \in Accepted ~> t \in Started \cup finished \/ stopping # -1

\* If every task returns, so does the destructor, whenever it is called.
DestructorReturns ==
    (\A w \in Workers : WF_vars(TaskReturns(w))) => (stopping # -1 ~> Destroyed)

==============================================================================
