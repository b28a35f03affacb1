----------------------------- MODULE ThreadPool -----------------------------
(***************************************************************************)
(* thread/ThreadPool.cc: worker threads that share a queue of tasks under  *)
(* one lock and two conditions.  A step is what a thread does between      *)
(* taking the lock and giving it up; running_ and threads_ are also read   *)
(* without it.  A task is one call of Run() at most: it submits the task   *)
(* that Spawns gives for it and returns.                                   *)
(***************************************************************************)
EXTENDS Integers, FiniteSets, Sequences

CONSTANTS
    Callers,        \* threads outside the pool that call Run
    Workers,        \* the threads that Start creates
    Tasks,          \* each is submitted once, by a caller or by one task
    NoTask,         \* an empty std::function
    Spawns,         \* the task a task submits while it runs, or NoTask
    MaxQueueSize    \* maxQueueSize_; 0 stands for no limit

ASSUME PoolAssumption ==
    /\ IsFiniteSet(Workers) /\ Workers # {}
    /\ IsFiniteSet(Callers) /\ Callers \intersect Workers = {}
    /\ IsFiniteSet(Tasks) /\ NoTask \notin Tasks
    /\ Spawns \in [Tasks -> Tasks \union {NoTask}]
    /\ \A x, y \in Tasks : Spawns[x] = Spawns[y] /\ Spawns[x] # NoTask => x = y
    /\ MaxQueueSize \in Nat

VARIABLES
    queue_,
    running_,
    threads_,   \* the workers that Start has created so far
    owner,      \* the thread that calls Start and Stop: "new", "open",
                \* "joining" inside Stop, "stopped" when Stop has returned
    stage,      \* where each thread is: a caller is "idle" or at "work"; a
                \* worker is at the "loop" condition, in "take" or at "work"
    job,        \* the task each thread runs or has run last
    arg,        \* the argument of the Run each thread waits in, or NoTask
    notEmpty_,  \* workers that block in notEmpty_.Wait()
    notFull_,   \* threads that block in notFull_.Wait()
    submitted   \* tasks Run has been called with

vars == <<queue_, running_, threads_, owner, stage, job, arg,
          notEmpty_, notFull_, submitted>>

Threads == Callers \union Workers

Init ==
    /\ queue_ = <<>>
    /\ running_ = FALSE
    /\ threads_ = {}
    /\ owner = "new"
    /\ stage = [t \in Threads |-> IF t \in Callers THEN "idle" ELSE "none"]
    /\ job = [t \in Threads |-> NoTask]
    /\ arg = [t \in Threads |-> NoTask]
    /\ notEmpty_ = {}
    /\ notFull_ = {}
    /\ submitted = {}

Goto(t, where) == stage' = [stage EXCEPT ![t] = where]

(* Where a thread is when the task it ran has returned. *)
AfterTask(t) == IF t \in Workers THEN "loop" ELSE "idle"

Notify(blocked, blockedNext) ==
    IF blocked = {}
    THEN blockedNext = {}
    ELSE \E t \in blocked : blockedNext = blocked \ {t}

-----------------------------------------------------------------------------
QueueIsFull == MaxQueueSize > 0 /\ Len(queue_) >= MaxQueueSize

(* Run from the point where thread t has the lock: it waits, gives up      *)
(* because the pool has stopped, or queues the task and wakes one worker.  *)
RunLocked(t, x) ==
    \/ /\ QueueIsFull /\ running_
       /\ notFull_' = notFull_ \union {t}
       /\ arg' = [arg EXCEPT ![t] = x]
       /\ UNCHANGED <<queue_, stage, notEmpty_>>
    \/ /\ ~running_
       /\ arg' = [arg EXCEPT ![t] = NoTask]
       /\ Goto(t, AfterTask(t))
       /\ UNCHANGED <<queue_, notEmpty_, notFull_>>
    \/ /\ ~QueueIsFull /\ running_
       /\ queue_' = Append(queue_, x)
       /\ Notify(notEmpty_, notEmpty_')
       /\ arg' = [arg EXCEPT ![t] = NoTask]
       /\ Goto(t, AfterTask(t))
       /\ UNCHANGED notFull_

(* Run: while there are no threads yet the caller itself runs the task. *)
Run(t, x) ==
    /\ submitted' = submitted \union {x}
    /\ \/ /\ threads_ = {}
          /\ job' = [job EXCEPT ![t] = x]
          /\ Goto(t, "work")
          /\ UNCHANGED <<queue_, arg, notEmpty_, notFull_>>
       \/ /\ threads_ # {}
          /\ RunLocked(t, x)
          /\ UNCHANGED job
    /\ UNCHANGED <<running_, threads_, owner>>

CallRun(c, x) ==
    /\ stage[c] = "idle" /\ arg[c] = NoTask
    /\ x \notin submitted /\ \A y \in Tasks : Spawns[y] # x
    /\ Run(c, x)

(* Mutation: if instead of while, a woken thread does not look again. *)
ResumeRunUnchecked(t) ==
    /\ arg[t] # NoTask /\ t \notin notFull_ /\ running_
    /\ queue_' = Append(queue_, arg[t])
    /\ Notify(notEmpty_, notEmpty_')
    /\ arg' = [arg EXCEPT ![t] = NoTask]
    /\ Goto(t, AfterTask(t))
    /\ UNCHANGED <<running_, threads_, owner, job, notFull_, submitted>>

(* A thread that waited in Run has been woken and has the lock again. *)
ResumeRun(t) ==
    /\ arg[t] # NoTask /\ t \notin notFull_
    /\ RunLocked(t, arg[t])
    /\ UNCHANGED <<running_, threads_, owner, job, submitted>>

(* The body of a task: nothing the pool sees, or one call of Run. *)
TaskBody(t) ==
    /\ stage[t] = "work" /\ arg[t] = NoTask
    /\ LET x == Spawns[job[t]]
       IN  \/ /\ x # NoTask
              /\ Run(t, x)
           \/ /\ x = NoTask
              /\ Goto(t, AfterTask(t))
              /\ UNCHANGED <<queue_, running_, threads_, owner, job, arg,
                             notEmpty_, notFull_, submitted>>

-----------------------------------------------------------------------------
(* The loop condition of RunInThread, read without the lock. *)
LoopCondition(w) ==
    /\ stage[w] = "loop"
    /\ Goto(w, IF running_ THEN "take" ELSE "exited")
    /\ UNCHANGED <<queue_, running_, threads_, owner, job, arg,
                   notEmpty_, notFull_, submitted>>

(* Mutation: whether producers can be waiting is asked after pop_front. *)
NotifyProducerIfStillFull ==
    IF MaxQueueSize > 0 /\ Len(queue_) - 1 >= MaxQueueSize
    THEN Notify(notFull_, notFull_')
    ELSE UNCHANGED notFull_

NotifyProducer ==
    IF MaxQueueSize > 0 THEN Notify(notFull_, notFull_') ELSE UNCHANGED notFull_

(* Mutation: the task is taken from the wrong end. *)
TakeYoungest(w) ==
    /\ job' = [job EXCEPT ![w] = queue_[Len(queue_)]]
    /\ queue_' = SubSeq(queue_, 1, Len(queue_) - 1)

TakeFront(w) ==
    /\ job' = [job EXCEPT ![w] = Head(queue_)]
    /\ queue_' = Tail(queue_)

(* Take from the point where worker w has the lock.  After Stop it returns *)
(* an empty task, whatever the queue still holds.                          *)
Take(w) ==
    /\ stage[w] = "take" /\ w \notin notEmpty_
    /\ \/ /\ queue_ = <<>> /\ running_
          /\ notEmpty_' = notEmpty_ \union {w}
          /\ UNCHANGED <<queue_, stage, job, notFull_>>
       \/ /\ ~running_
          /\ Goto(w, "loop")
          /\ UNCHANGED <<queue_, job, notEmpty_, notFull_>>
       \/ /\ queue_ # <<>> /\ running_
          /\ TakeFront(w)
          /\ NotifyProducer
          /\ Goto(w, "work")
          /\ UNCHANGED notEmpty_
    /\ UNCHANGED <<running_, threads_, owner, arg, submitted>>

-----------------------------------------------------------------------------
(* Start sets running_ before there is a thread, and a thread runs as soon *)
(* as it is created.                                                       *)
Start ==
    /\ owner = "new"
    /\ owner' = "open"
    /\ running_' = TRUE
    /\ UNCHANGED <<queue_, threads_, stage, job, arg,
                   notEmpty_, notFull_, submitted>>

StartThread(w) ==
    /\ owner = "open" /\ w \notin threads_
    /\ threads_' = threads_ \union {w}
    /\ Goto(w, "loop")
    /\ UNCHANGED <<queue_, running_, owner, job, arg,
                   notEmpty_, notFull_, submitted>>

(* Mutation: the producers that wait are forgotten. *)
WakeConsumersOnly == notEmpty_' = {} /\ UNCHANGED notFull_

WakeAll == notEmpty_' = {} /\ notFull_' = {}

(* Stop, or the destructor of a pool that runs. *)
Stop ==
    /\ owner = "open" /\ threads_ = Workers
    /\ owner' = "joining"
    /\ running_' = FALSE
    /\ WakeAll
    /\ UNCHANGED <<queue_, threads_, stage, job, arg, submitted>>

JoinAll ==
    /\ owner = "joining"
    /\ \A w \in Workers : stage[w] = "exited"
    /\ owner' = "stopped"
    /\ UNCHANGED <<queue_, running_, threads_, stage, job, arg,
                   notEmpty_, notFull_, submitted>>

(* pthread_cond_wait may return at any time. *)
WakeUnasked ==
    /\ \/ /\ \E w \in notEmpty_ : notEmpty_' = notEmpty_ \ {w}
          /\ UNCHANGED notFull_
       \/ /\ \E t \in notFull_ : notFull_' = notFull_ \ {t}
          /\ UNCHANGED notEmpty_
    /\ UNCHANGED <<queue_, running_, threads_, owner, stage, job, arg, submitted>>

Next ==
    \/ Start
    \/ \E w \in Workers : StartThread(w)
    \/ Stop
    \/ JoinAll
    \/ \E c \in Callers, x \in Tasks : CallRun(c, x)
    \/ \E t \in Threads : ResumeRun(t)
    \/ \E t \in Threads : TaskBody(t)
    \/ \E w \in Workers : LoopCondition(w)
    \/ \E w \in Workers : Take(w)
    \/ WakeUnasked

(* A thread that can go on does so some time; a thread that waited gets    *)
(* the lock in the end.  Nobody has to call Run or Stop.                   *)
Fairness ==
    /\ WF_vars(JoinAll)
    /\ \A w \in Workers :
        /\ WF_vars(StartThread(w))
        /\ WF_vars(LoopCondition(w))
        /\ WF_vars(Take(w))
    /\ \A t \in Threads : WF_vars(ResumeRun(t)) /\ WF_vars(TaskBody(t))

Spec == Init /\ [][Next]_vars /\ Fairness

-----------------------------------------------------------------------------
(* The variables have the types of their declarations; the queue stops at  *)
(* the size at which QueueIsFull() becomes true, whoever overtakes a       *)
(* thread that was woken, and who blocks in Wait is inside the call that   *)
(* waits (ThreadPool.cc QueueIsFull, Run).  That size is the maximum:      *)
(* ThreadPool.h has QueueIsFull() return false while the size does not     *)
(* exceed the maximum ("队列大小不超过maxQueueSize_"), which would let one  *)
(* task more in.                                                           *)
TypeOK ==
    /\ queue_ \in Seq(Tasks)
    /\ MaxQueueSize > 0 => Len(queue_) <= MaxQueueSize
    /\ running_ \in BOOLEAN
    /\ threads_ \in SUBSET Workers
    /\ owner \in {"new", "open", "joining", "stopped"}
    /\ stage \in [Threads ->
                    {"idle", "none", "loop", "take", "work", "exited"}]
    /\ job \in [Threads -> Tasks \union {NoTask}]
    /\ arg \in [Threads -> Tasks \union {NoTask}]
    /\ notEmpty_ \in SUBSET {w \in Workers : stage[w] = "take"}
    /\ notFull_ \in SUBSET {t \in Threads : arg[t] # NoTask}
    /\ submitted \in SUBSET Tasks

WokenWorkers == {w \in Workers : stage[w] = "take"} \ notEmpty_
WokenProducers == {t \in Threads : arg[t] # NoTask} \ notFull_

(* No thread sleeps through what it waits for: while a worker blocks every *)
(* queued task has a worker on its way to it, while a producer blocks      *)
(* every free place has a producer, and after Stop nobody blocks at all,   *)
(* producers outside the pool and tasks that call Run included             *)
(* (ThreadPool.cc Run, Take, Stop).                                        *)
NoneForgotten ==
    /\ running_ /\ notEmpty_ # {} => Len(queue_) <= Cardinality(WokenWorkers)
    /\ running_ /\ notFull_ # {} =>
        MaxQueueSize - Len(queue_) <= Cardinality(WokenProducers)
    /\ ~running_ => notEmpty_ = {} /\ notFull_ = {}

Fifo == INSTANCE BoundedFifo WITH
            items <- queue_,
            result <- [w \in Workers |-> job[w]],
            Consumers <- Workers, Items <- Tasks, NoItem <- NoTask,
            Capacity <- IF MaxQueueSize > 0 THEN MaxQueueSize
                                            ELSE Cardinality(Tasks)

(* Whatever the lock, the conditions, Start and Stop do, the workers see a *)
(* bounded queue: tasks start in the order of the Runs, each on one worker *)
(* (ThreadPool.cc Run, Take).                                              *)
ImplementsFifo == Fifo!Spec

(* Every worker waits in a Run of its own task for the others to take from *)
(* the queue: the one way in which the pool can come to rest with work.    *)
AllInNestedRun == \A w \in Workers : arg[w] # NoTask

(* A queued task is taken unless the pool is stopped or every worker is    *)
(* stuck in a nested Run, and Stop() returns: it gets the workers out of   *)
(* every wait, that one included (ThreadPool.cc Stop, RunInThread).        *)
TasksRunAndStopReturns ==
    /\ \A x \in Tasks :
        (\E i \in DOMAIN queue_ : queue_[i] = x)
            ~> \/ \A i \in DOMAIN queue_ : queue_[i] # x
               \/ ~running_
               \/ AllInNestedRun
    /\ owner = "joining" ~> owner = "stopped"
=============================================================================
