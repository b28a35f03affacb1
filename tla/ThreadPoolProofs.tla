-------------------------- MODULE ThreadPoolProofs --------------------------
(***************************************************************************)
(* Theorems about ThreadPool, for any number of callers, workers and       *)
(* tasks, whatever tasks submit which, and queues with or without a limit. *)
(***************************************************************************)
EXTENDS ThreadPool, SequenceLemmas, FiniteSetTheorems, TLAPS

Works(t) == stage[t] = "work"

-----------------------------------------------------------------------------
(* Types, and where threads are *)

(* TypeOK is not inductive: that a thread in Run is not in Take at the     *)
(* same time, and that a thread at work has a task, takes the order of the *)
(* calls into account.                                                     *)
Placement ==
    /\ \A t \in Threads : arg[t] # NoTask => stage[t] \in {"idle", "work"}
    /\ \A t \in Threads : Works(t) => job[t] \in Tasks
    /\ \A w \in Workers \ threads_ : stage[w] = "none"

\* Thread t, in Run, hands task x over, gives it up, or waits to.
HandOver(t, x) ==
    /\ t \notin notFull_
    /\ stage[t] \in {"idle", "work"}
    /\ RunLocked(t, x)
    /\ UNCHANGED <<running_, threads_, owner, job>>

\* The caller of Run runs the task.
RunHere(t, x) ==
    /\ threads_ = {}
    /\ stage[t] \in {"idle", "work"} /\ arg[t] = NoTask
    /\ job' = [job EXCEPT ![t] = x]
    /\ Goto(t, "work")
    /\ UNCHANGED <<queue_, running_, threads_, owner, arg, notEmpty_, notFull_>>

\* Thread t has task x from a Run in which it waited, or x is new: from its
\* caller, or from the task that t runs.
Enters(t, x) ==
    \/ arg[t] = x /\ submitted' = submitted
    \/ /\ arg[t] = NoTask /\ submitted' = submitted \union {x}
       /\ \/ ~Works(t) /\ x \notin submitted /\ \A y \in Tasks : Spawns[y] # x
          \/ Works(t) /\ Spawns[job[t]] = x

\* The task of a thread returns.
Return(t) ==
    /\ Works(t) /\ arg[t] = NoTask
    /\ Goto(t, AfterTask(t))
    /\ UNCHANGED <<queue_, running_, threads_, owner, job, arg,
                   notEmpty_, notFull_, submitted>>

\* Run either hands its task over or runs it.
LEMMA RunCases ==
    ASSUME TypeOK, NEW t \in Threads, NEW x \in Tasks,
           stage[t] \in {"idle", "work"}, arg[t] = NoTask, Run(t, x)
    PROVE  HandOver(t, x) \/ RunHere(t, x)
  <1>1. t \notin notFull_
    BY DEF TypeOK
  <1>. QED  BY <1>1 DEF Run, HandOver, RunHere

\* Each step is that of a thread in Run, of a worker, or of the owner.
LEMMA StepCases ==
    ASSUME TypeOK, Placement, [Next]_vars
    PROVE  \/ \E t \in Threads, x \in Tasks :
                  Enters(t, x) /\ (HandOver(t, x) \/ RunHere(t, x))
           \/ \E t \in Threads : Return(t)
           \/ \E w \in Workers : LoopCondition(w) \/ Take(w) \/ StartThread(w)
           \/ Start \/ Stop \/ JoinAll \/ WakeUnasked \/ UNCHANGED vars
  <1>1. ASSUME NEW c \in Callers, NEW x \in Tasks, CallRun(c, x)
        PROVE  /\ c \in Threads
               /\ Enters(c, x) /\ (HandOver(c, x) \/ RunHere(c, x))
    <2>1. c \in Threads /\ stage[c] = "idle" /\ arg[c] = NoTask /\ Run(c, x)
      BY <1>1 DEF CallRun, Threads
    <2>2. Enters(c, x)
      BY <1>1, <2>1 DEF CallRun, Run, Enters, Works
    <2>. QED  BY <2>1, <2>2, RunCases
  <1>2. ASSUME NEW t \in Threads, ResumeRun(t)
        PROVE  /\ arg[t] \in Tasks
               /\ Enters(t, arg[t]) /\ HandOver(t, arg[t])
    BY <1>2 DEF ResumeRun, HandOver, Enters, TypeOK, Placement
  <1>3. ASSUME NEW t \in Threads, TaskBody(t)
        PROVE  \/ \E x \in Tasks :
                      Enters(t, x) /\ (HandOver(t, x) \/ RunHere(t, x))
               \/ Return(t)
    <2>1. Spawns[job[t]] \in Tasks \union {NoTask}
      BY <1>3, PoolAssumption DEF TaskBody, Placement, Works
    <2>2. CASE Spawns[job[t]] = NoTask
      BY <1>3, <2>2 DEF TaskBody, Return, Works
    <2>3. CASE Spawns[job[t]] # NoTask
      <3>1. Run(t, Spawns[job[t]]) /\ stage[t] = "work" /\ arg[t] = NoTask
        BY <1>3, <2>3 DEF TaskBody
      <3>2. Enters(t, Spawns[job[t]])
        BY <3>1 DEF Run, Enters, Works
      <3>. QED  BY <2>1, <2>3, <3>1, <3>2, RunCases
    <2>. QED  BY <2>2, <2>3
  <1>. QED  BY <1>1, <1>2, <1>3 DEF Next

\* Handing a task over keeps the types.
LEMMA HandOverTypes ==
    ASSUME TypeOK, Placement, NEW t \in Threads, NEW x \in Tasks,
           HandOver(t, x), submitted' \in SUBSET Tasks
    PROVE  TypeOK' /\ Placement'
  <1>. USE DEF HandOver, RunLocked, TypeOK, Placement, Goto, Works
  <1>a. AfterTask(t) \in {"loop", "idle"}
    BY DEF AfterTask
  <1>1. CASE QueueIsFull /\ running_
    <2>1. /\ arg' = [arg EXCEPT ![t] = x] /\ x # NoTask
          /\ notFull_' = notFull_ \union {t}
          /\ UNCHANGED <<queue_, running_, threads_, owner, stage, job,
                         notEmpty_>>
      BY <1>1, PoolAssumption
    <2>2. TypeOK'
      BY <2>1
    <2>3. Placement'
      BY <2>1
    <2>. QED  BY <2>2, <2>3
  <1>2. CASE ~running_
    <2>1. /\ stage' = [stage EXCEPT ![t] = AfterTask(t)]
          /\ arg' = [arg EXCEPT ![t] = NoTask]
          /\ UNCHANGED <<queue_, running_, threads_, owner, job, notEmpty_,
                         notFull_>>
      BY <1>2
    <2>2. TypeOK'
      BY <1>a, <2>1
    <2>3. Placement'
      BY <1>a, <2>1
    <2>. QED  BY <2>2, <2>3
  <1>3. CASE ~QueueIsFull /\ running_
    <2>1. queue_' \in Seq(Tasks) /\ Len(queue_') = Len(queue_) + 1
      BY SMTT(30), <1>3
    <2>2. MaxQueueSize > 0 => Len(queue_') <= MaxQueueSize
      BY <1>3, <2>1, PoolAssumption DEF QueueIsFull
    <2>3. notEmpty_' \subseteq notEmpty_ /\ notFull_' = notFull_
      BY <1>3 DEF Notify
    <2>4. /\ stage' = [stage EXCEPT ![t] = AfterTask(t)]
          /\ arg' = [arg EXCEPT ![t] = NoTask]
      BY <1>3
    <2>5. TypeOK'
      BY <1>a, <2>1, <2>2, <2>3, <2>4
    <2>6. Placement'
      BY <1>a, <2>4
    <2>. QED  BY <2>5, <2>6
  <1>. QED  BY <1>1, <1>2, <1>3

\* Each step keeps the types.
LEMMA TypeStep ==
    ASSUME TypeOK, Placement, [Next]_vars
    PROVE  TypeOK' /\ Placement'
  <1>. USE DEF TypeOK, Placement, Goto, Works
  <1>0. ASSUME NEW t \in Threads, NEW x \in Tasks, Enters(t, x)
        PROVE  submitted' \in SUBSET Tasks
    BY <1>0 DEF Enters
  <1>1. ASSUME NEW t \in Threads, NEW x \in Tasks, RunHere(t, x),
               submitted' \in SUBSET Tasks
        PROVE  TypeOK' /\ Placement'
    <2>1. TypeOK'
      BY <1>1 DEF RunHere
    <2>2. Placement'
      BY <1>1 DEF RunHere
    <2>. QED  BY <2>1, <2>2
  <1>2. ASSUME NEW t \in Threads, Return(t)
        PROVE  TypeOK' /\ Placement'
    BY <1>2 DEF Return, AfterTask
  <1>3. ASSUME NEW w \in Workers, LoopCondition(w)
        PROVE  TypeOK' /\ Placement'
    BY <1>3 DEF LoopCondition, Threads
  <1>4. ASSUME NEW w \in Workers, StartThread(w)
        PROVE  TypeOK' /\ Placement'
    BY <1>4 DEF StartThread, Threads
  <1>5. ASSUME NEW w \in Workers, Take(w)
        PROVE  TypeOK' /\ Placement'
    <2>. USE DEF Take
    <2>a. w \in Threads /\ arg[w] = NoTask
      BY <1>5 DEF Threads
    <2>1. CASE queue_ = <<>> /\ running_
      BY <1>5, <2>1
    <2>2. CASE ~running_
      <3>1. /\ stage' = [stage EXCEPT ![w] = "loop"] /\ w \notin notEmpty_
            /\ stage[w] = "take"
            /\ UNCHANGED <<queue_, running_, threads_, owner, job, arg,
                           notEmpty_, notFull_, submitted>>
        BY <1>5, <2>2
      <3>2. TypeOK'
        BY <2>a, <3>1
      <3>3. Placement'
        BY <2>a, <3>1
      <3>. QED  BY <3>2, <3>3
    <2>3. CASE queue_ # <<>> /\ running_
      <3>1. /\ queue_' \in Seq(Tasks) /\ Len(queue_') = Len(queue_) - 1
            /\ job' = [job EXCEPT ![w] = Head(queue_)] /\ Head(queue_) \in Tasks
        BY <1>5, <2>3 DEF TakeFront
      <3>2. MaxQueueSize > 0 => Len(queue_') <= MaxQueueSize
        BY <3>1, PoolAssumption
      <3>3. notFull_' \subseteq notFull_
        BY <1>5, <2>3 DEF NotifyProducer, Notify
      <3>4. /\ stage' = [stage EXCEPT ![w] = "work"]
            /\ UNCHANGED <<running_, threads_, owner, arg, submitted, notEmpty_>>
        BY <1>5, <2>3
      <3>5. TypeOK'
        BY <1>5, <2>a, <3>1, <3>2, <3>3, <3>4
      <3>6. Placement'
        BY <1>5, <2>a, <3>1, <3>4
      <3>. QED  BY <3>5, <3>6
    <2>. QED  BY <1>5, <2>1, <2>2, <2>3
  <1>6. CASE Start \/ Stop \/ JoinAll \/ WakeUnasked \/ UNCHANGED vars
    BY <1>6 DEF Start, Stop, WakeAll, JoinAll, WakeUnasked, vars
  <1>. QED  BY <1>0, <1>1, <1>2, <1>3, <1>4, <1>5, <1>6, HandOverTypes,
               StepCases

\* TypeOK with what makes it inductive.
LEMMA PlacementInvariant == Spec => [](TypeOK /\ Placement)
  <1>1. Init => TypeOK /\ Placement
    <2>1. SUFFICES ASSUME Init PROVE TypeOK /\ Placement
      OBVIOUS
    <2>2. /\ stage \in [Threads -> {"idle", "none"}]
          /\ \A w \in Workers : stage[w] = "none"
      BY <2>1, PoolAssumption DEF Init, Threads
    <2>3. \A t \in Threads : arg[t] = NoTask /\ ~Works(t)
      BY <2>1, <2>2 DEF Init, Works
    <2>4. TypeOK
      <3>1. queue_ \in Seq(Tasks) /\ Len(queue_) = 0
        BY <2>1 DEF Init
      <3>2. job \in [Threads -> {NoTask}] /\ arg \in [Threads -> {NoTask}]
        BY <2>1 DEF Init
      <3>3. MaxQueueSize > 0 => Len(queue_) <= MaxQueueSize
        BY <3>1, PoolAssumption
      <3>4. stage \in [Threads ->
                          {"idle", "none", "loop", "take", "work", "exited"}]
        BY <2>2
      <3>5. /\ job \in [Threads -> Tasks \union {NoTask}]
            /\ arg \in [Threads -> Tasks \union {NoTask}]
        BY <3>2
      <3>. QED  BY <2>1, <3>1, <3>3, <3>4, <3>5 DEF Init, TypeOK
    <2>. QED  BY <2>2, <2>3, <2>4 DEF Placement
  <1>2. TypeOK /\ Placement /\ [Next]_vars => TypeOK' /\ Placement'
    BY TypeStep
  <1>. QED  BY <1>1, <1>2, PTL DEF Spec

(* The queue keeps to its limit, and who blocks on a condition is inside   *)
(* the call that waits for it, for any number of threads and tasks         *)
(* (thread/ThreadPool.h).                                                  *)
THEOREM TypeCorrect == Spec => []TypeOK
  BY PlacementInvariant, PTL

-----------------------------------------------------------------------------
(* Signals *)

\* There are finitely many threads, so those that were woken can be counted.
LEMMA WokenFinite ==
    /\ IsFiniteSet(WokenWorkers) /\ IsFiniteSet(WokenWorkers')
    /\ IsFiniteSet(WokenProducers) /\ IsFiniteSet(WokenProducers')
  <1>1. IsFiniteSet(Workers) /\ IsFiniteSet(Threads)
    BY PoolAssumption, FS_Union DEF Threads
  <1>2. /\ WokenWorkers \in SUBSET Workers
        /\ WokenWorkers' \in SUBSET Workers
        /\ WokenProducers \in SUBSET Threads
        /\ WokenProducers' \in SUBSET Threads
    BY DEF WokenWorkers, WokenProducers
  <1>. QED  BY <1>1, <1>2, PartIsSmaller

\* More woken threads than needed do no harm.
LEMMA MoreWoken ==
    ASSUME TypeOK, TypeOK', NoneForgotten,
           UNCHANGED <<queue_, running_>>,
           notEmpty_' \subseteq notEmpty_, notFull_' \subseteq notFull_,
           WokenWorkers \subseteq WokenWorkers',
           WokenProducers \subseteq WokenProducers'
    PROVE  NoneForgotten'
  <1>1. IsFiniteSet(WokenWorkers') /\ IsFiniteSet(WokenProducers')
    BY WokenFinite
  <1>2. /\ Cardinality(WokenWorkers) \in Nat
        /\ Cardinality(WokenWorkers') \in Nat
        /\ Cardinality(WokenWorkers) <= Cardinality(WokenWorkers')
    BY <1>1, PartIsSmaller
  <1>3. /\ Cardinality(WokenProducers) \in Nat
        /\ Cardinality(WokenProducers') \in Nat
        /\ Cardinality(WokenProducers) <= Cardinality(WokenProducers')
    BY <1>1, PartIsSmaller
  <1>4. Len(queue_) \in Nat /\ MaxQueueSize \in Nat
    BY PoolAssumption DEF TypeOK
  <1>. QED  BY <1>2, <1>3, <1>4 DEF NoneForgotten

\* A task that is queued wakes a worker for it, if any blocks.
LEMMA HandOverKeepsSignals ==
    ASSUME TypeOK, TypeOK', Placement, NoneForgotten,
           NEW t \in Threads, NEW x \in Tasks, HandOver(t, x)
    PROVE  NoneForgotten'
  <1>. USE DEF HandOver, RunLocked, Goto
  <1>a. Len(queue_) \in Nat /\ MaxQueueSize \in Nat
    BY PoolAssumption DEF TypeOK
  <1>b. AfterTask(t) # "take"
    BY DEF AfterTask
  <1>1. CASE QueueIsFull /\ running_
    <2>1. Cardinality(WokenProducers') \in Nat
      BY WokenFinite, FS_CardinalityType
    <2>2. /\ queue_' = queue_ /\ running_' /\ notEmpty_' = notEmpty_
          /\ WokenWorkers' = WokenWorkers
      BY <1>1 DEF WokenWorkers
    <2>3. MaxQueueSize - Len(queue_') <= 0
      BY <1>1, <1>a, <2>2 DEF QueueIsFull, TypeOK
    <2>. QED  BY <1>a, <2>1, <2>2, <2>3 DEF NoneForgotten
  <1>2. CASE ~running_
    BY <1>2 DEF NoneForgotten
  <1>3. CASE ~QueueIsFull /\ running_
    <2>1. /\ Len(queue_') = Len(queue_) + 1 /\ running_'
          /\ Notify(notEmpty_, notEmpty_') /\ notFull_' = notFull_
          /\ stage' = [stage EXCEPT ![t] = AfterTask(t)]
          /\ arg' = [arg EXCEPT ![t] = NoTask]
      BY <1>3 DEF TypeOK
    <2>2. ASSUME notEmpty_' # {}
          PROVE  Len(queue_') <= Cardinality(WokenWorkers')
      <3>1. PICK w \in notEmpty_ : notEmpty_' = notEmpty_ \ {w}
        BY <2>1, <2>2 DEF Notify
      <3>2. WokenWorkers' = WokenWorkers \union {w} /\ w \notin WokenWorkers
        BY <1>b, <2>1, <3>1 DEF WokenWorkers, TypeOK
      <3>3. /\ Cardinality(WokenWorkers) \in Nat
            /\ Cardinality(WokenWorkers') = Cardinality(WokenWorkers) + 1
        BY <3>2, OneMore, WokenFinite
      <3>. QED  BY <1>3, <1>a, <2>1, <3>1, <3>3 DEF NoneForgotten
    <2>3. ASSUME notFull_' # {}
          PROVE  MaxQueueSize - Len(queue_') <= Cardinality(WokenProducers')
      <3>1. WokenProducers' = WokenProducers \ {t}
        BY <2>1 DEF WokenProducers, TypeOK
      <3>2. Cardinality(WokenProducers) - 1 <= Cardinality(WokenProducers')
        BY <3>1, OneLess, WokenFinite
      <3>3. /\ Cardinality(WokenProducers) \in Nat
            /\ Cardinality(WokenProducers') \in Nat
        BY WokenFinite, FS_CardinalityType
      <3>. QED  BY <1>3, <1>a, <2>1, <2>3, <3>2, <3>3 DEF NoneForgotten
    <2>. QED  BY <2>1, <2>2, <2>3 DEF NoneForgotten
  <1>. QED  BY <1>1, <1>2, <1>3

\* A worker that takes a task from a queue with a limit wakes a producer, if
\* any blocks.
LEMMA TakeKeepsSignals ==
    ASSUME TypeOK, TypeOK', NoneForgotten, NEW w \in Workers, Take(w)
    PROVE  NoneForgotten'
  <1>. USE DEF Take, Goto
  <1>a. Len(queue_) \in Nat /\ MaxQueueSize \in Nat
    BY PoolAssumption DEF TypeOK
  <1>b. /\ Cardinality(WokenWorkers) \in Nat
        /\ Cardinality(WokenWorkers') \in Nat
        /\ Cardinality(WokenProducers) \in Nat
        /\ Cardinality(WokenProducers') \in Nat
    BY WokenFinite, FS_CardinalityType
  <1>1. CASE queue_ = <<>> /\ running_
    <2>1. /\ Len(queue_') = 0 /\ running_' /\ notFull_' = notFull_
          /\ queue_' = queue_ /\ WokenProducers' = WokenProducers
      BY <1>1 DEF WokenProducers
    <2>. QED  BY <1>1, <1>b, <2>1 DEF NoneForgotten
  <1>2. CASE ~running_
    BY <1>2 DEF NoneForgotten
  <1>3. CASE queue_ # <<>> /\ running_
    <2>1. /\ Len(queue_') = Len(queue_) - 1 /\ running_'
          /\ NotifyProducer /\ notEmpty_' = notEmpty_
          /\ stage' = [stage EXCEPT ![w] = "work"] /\ arg' = arg
      BY <1>3 DEF TypeOK, TakeFront
    <2>2. ASSUME notEmpty_' # {}
          PROVE  Len(queue_') <= Cardinality(WokenWorkers')
      <3>1. WokenWorkers' = WokenWorkers \ {w}
        BY <2>1 DEF WokenWorkers, TypeOK, Threads
      <3>2. Cardinality(WokenWorkers) - 1 <= Cardinality(WokenWorkers')
        BY <3>1, OneLess, WokenFinite
      <3>. QED  BY <1>3, <1>a, <1>b, <2>1, <2>2, <3>2 DEF NoneForgotten
    <2>3. ASSUME notFull_' # {}
          PROVE  MaxQueueSize - Len(queue_') <= Cardinality(WokenProducers')
      <3>1. CASE MaxQueueSize = 0
        <4>1. Len(queue_') \in Nat
          BY DEF TypeOK
        <4>. QED  BY <1>b, <3>1, <4>1
      <3>2. CASE MaxQueueSize > 0
        <4>1. PICK t \in notFull_ : notFull_' = notFull_ \ {t}
          BY <2>1, <2>3, <3>2 DEF NotifyProducer, Notify
        <4>2. /\ WokenProducers' = WokenProducers \union {t}
              /\ t \notin WokenProducers
          BY <2>1, <4>1 DEF WokenProducers, TypeOK
        <4>3. Cardinality(WokenProducers') = Cardinality(WokenProducers) + 1
          BY <4>2, OneMore, WokenFinite
        <4>. QED  BY <1>3, <1>a, <1>b, <2>1, <4>1, <4>3 DEF NoneForgotten
      <3>. QED  BY <1>a, <3>1, <3>2
    <2>. QED  BY <2>1, <2>2, <2>3 DEF NoneForgotten
  <1>. QED  BY <1>1, <1>2, <1>3

(* No thread sleeps through what it waits for, for any number of workers,  *)
(* producers and nested Runs: one signal per task queued and one per task  *)
(* taken are enough, and Stop leaves nobody behind.                        *)
THEOREM NoSignalLost == Spec => []NoneForgotten
  <1>1. Init => NoneForgotten
    BY DEF Init, NoneForgotten
  <1>2. TypeOK /\ TypeOK' /\ Placement /\ NoneForgotten /\ [Next]_vars
            => NoneForgotten'
    <2>1. SUFFICES ASSUME TypeOK, TypeOK', Placement, NoneForgotten,
                          [Next]_vars
                   PROVE  NoneForgotten'
      OBVIOUS
    <2>2. ASSUME NEW t \in Threads, NEW x \in Tasks, RunHere(t, x)
          PROVE  NoneForgotten'
      <3>1. /\ WokenWorkers \subseteq WokenWorkers'
            /\ WokenProducers' = WokenProducers
        BY <2>1, <2>2 DEF RunHere, Goto, WokenWorkers, WokenProducers, TypeOK
      <3>. QED  BY <2>1, <2>2, <3>1, MoreWoken DEF RunHere
    <2>3. ASSUME NEW t \in Threads, Return(t)
          PROVE  NoneForgotten'
      <3>1. /\ WokenWorkers \subseteq WokenWorkers'
            /\ WokenProducers' = WokenProducers
        BY <2>1, <2>3
           DEF Return, Works, Goto, WokenWorkers, WokenProducers, TypeOK
      <3>. QED  BY <2>1, <2>3, <3>1, MoreWoken DEF Return
    <2>4. ASSUME NEW w \in Workers, LoopCondition(w)
          PROVE  NoneForgotten'
      <3>1. /\ WokenWorkers \subseteq WokenWorkers'
            /\ WokenProducers' = WokenProducers
        BY <2>1, <2>4
           DEF LoopCondition, Goto, WokenWorkers, WokenProducers, TypeOK
      <3>. QED  BY <2>1, <2>4, <3>1, MoreWoken DEF LoopCondition
    <2>5. ASSUME NEW w \in Workers, StartThread(w)
          PROVE  NoneForgotten'
      <3>1. stage[w] = "none" /\ w \in Threads
        BY <2>1, <2>5 DEF StartThread, Placement, Threads
      <3>2. /\ WokenWorkers \subseteq WokenWorkers'
            /\ WokenProducers' = WokenProducers
        BY <2>1, <2>5, <3>1
           DEF StartThread, Goto, WokenWorkers, WokenProducers, TypeOK
      <3>. QED  BY <2>1, <2>5, <3>2, MoreWoken DEF StartThread
    <2>6. CASE WakeUnasked
      <3>1. /\ WokenWorkers \subseteq WokenWorkers'
            /\ WokenProducers \subseteq WokenProducers'
            /\ notEmpty_' \subseteq notEmpty_ /\ notFull_' \subseteq notFull_
        BY <2>6 DEF WakeUnasked, WokenWorkers, WokenProducers
      <3>. QED  BY <2>1, <2>6, <3>1, MoreWoken DEF WakeUnasked
    <2>7. CASE Start
      <3>1. CASE running_
        <4>1. /\ WokenWorkers' = WokenWorkers
              /\ WokenProducers' = WokenProducers
          BY <2>7 DEF Start, WokenWorkers, WokenProducers
        <4>. QED  BY <2>1, <2>7, <3>1, <4>1 DEF Start, NoneForgotten
      <3>2. CASE ~running_
        BY <2>1, <2>7, <3>2 DEF Start, NoneForgotten
      <3>. QED  BY <3>1, <3>2
    <2>8. CASE Stop
      BY <2>8 DEF Stop, WakeAll, NoneForgotten
    <2>9. CASE JoinAll \/ UNCHANGED vars
      BY <2>1, <2>9
         DEF JoinAll, vars, NoneForgotten, WokenWorkers, WokenProducers
    <2>. QED  BY <2>1, <2>2, <2>3, <2>4, <2>5, <2>6, <2>7, <2>8, <2>9,
                 StepCases, HandOverKeepsSignals, TakeKeepsSignals
  <1>. QED  BY <1>1, <1>2, PlacementInvariant, PTL DEF Spec

-----------------------------------------------------------------------------
(* Where tasks are *)

(* A task is in one place only: in the queue, in a Run that waits, or at   *)
(* work; so an unlimited queue never holds as many tasks as there are.     *)
InOnePlace ==
    /\ IsInjective(queue_)
    /\ Range(queue_) \subseteq submitted
    /\ \A t \in Threads : arg[t] # NoTask => arg[t] \in submitted \ Range(queue_)
    /\ \A t \in Threads : Works(t) => job[t] \in submitted \ Range(queue_)
    /\ \A s, t \in Threads : arg[s] = arg[t] /\ arg[t] # NoTask => s = t
    /\ \A s, t \in Threads : Works(s) /\ Works(t) /\ job[s] = job[t] => s = t
    /\ \A s, t \in Threads : Works(s) => job[s] # arg[t]

(* A task whose Run has been called was submitted by a task that is over,  *)
(* or waits in that Run.                                                   *)
SpawnedOnce ==
    \A y \in Tasks : Spawns[y] \in submitted =>
        /\ y \in submitted \ Range(queue_)
        /\ \A t \in Threads : arg[t] # y
        /\ \A t \in Threads : Works(t) /\ job[t] = y => arg[t] = Spawns[y]

\* Nobody but thread t has task x, and if x was submitted by a task, t runs it.
Fresh(t, x) ==
    /\ x \notin Range(queue_)
    /\ arg[t] \in {NoTask, x} /\ \A s \in Threads \ {t} : arg[s] # x
    /\ \A s \in Threads : Works(s) => job[s] # x
    /\ Spawns[x] \notin submitted \union {x}
    /\ arg[t] = x \/ (Works(t) => Spawns[job[t]] = x)
    /\ \A y \in Tasks : Spawns[y] = x =>
           /\ y \in submitted \ Range(queue_)
           /\ \A s \in Threads : arg[s] # y
           /\ \A s \in Threads : Works(s) /\ job[s] = y => s = t

\* A task that enters Run is fresh.
LEMMA EntersFresh ==
    ASSUME TypeOK, InOnePlace, SpawnedOnce,
           NEW t \in Threads, NEW x \in Tasks, Enters(t, x)
    PROVE  Fresh(t, x) /\ submitted' = submitted \union {x}
  <1>. USE PoolAssumption
  <1>1. CASE arg[t] = x /\ submitted' = submitted
    <2>1. x \in submitted \ Range(queue_) /\ x # NoTask
      BY <1>1 DEF InOnePlace
    <2>2. Spawns[x] \notin submitted \union {x}
      BY <1>1, <2>1 DEF SpawnedOnce
    <2>3. \A s \in Threads : (s # t => arg[s] # x) /\ (Works(s) => job[s] # x)
      BY <1>1, <2>1 DEF InOnePlace
    <2>4. ASSUME NEW y \in Tasks, Spawns[y] = x
          PROVE  /\ y \in submitted \ Range(queue_)
                 /\ \A s \in Threads : arg[s] # y
                 /\ \A s \in Threads : Works(s) /\ job[s] = y => s = t
      BY <2>1, <2>3, <2>4 DEF SpawnedOnce
    <2>. QED  BY <1>1, <2>1, <2>2, <2>3, <2>4 DEF Fresh
  <1>2. CASE /\ arg[t] = NoTask /\ submitted' = submitted \union {x}
             /\ ~Works(t) /\ x \notin submitted /\ \A y \in Tasks : Spawns[y] # x
    <2>1. x # NoTask
      OBVIOUS
    <2>2. \A s \in Threads : arg[s] # x /\ (Works(s) => job[s] # x)
      BY <1>2, <2>1 DEF InOnePlace
    <2>3. Spawns[x] \notin submitted \union {x}
      BY <1>2 DEF SpawnedOnce
    <2>. QED  BY <1>2, <2>2, <2>3 DEF Fresh, InOnePlace
  <1>3. CASE /\ arg[t] = NoTask /\ submitted' = submitted \union {x}
             /\ Works(t) /\ Spawns[job[t]] = x
    <2>1. job[t] \in submitted \ Range(queue_) /\ job[t] \in Tasks /\ x # NoTask
      BY <1>3 DEF InOnePlace, TypeOK
    <2>2. x \notin submitted
      BY <1>3, <2>1 DEF SpawnedOnce
    <2>3. \A y \in Tasks : Spawns[y] = x => y = job[t]
      BY <1>3, <2>1
    <2>4. Spawns[x] \notin submitted \union {x}
      BY <2>1, <2>2, <2>3 DEF SpawnedOnce
    <2>5. \A s \in Threads : arg[s] # x /\ (Works(s) => job[s] # x)
      BY <2>1, <2>2 DEF InOnePlace
    <2>6. /\ \A s \in Threads : arg[s] # job[t]
          /\ \A s \in Threads : Works(s) /\ job[s] = job[t] => s = t
      BY <1>3 DEF InOnePlace
    <2>. QED  BY <1>3, <2>1, <2>2, <2>3, <2>4, <2>5, <2>6
                 DEF Fresh, InOnePlace
  <1>. QED  BY <1>1, <1>2, <1>3 DEF Enters

\* A fresh task is put in one place.
LEMMA FreshKeepsPlaces ==
    ASSUME TypeOK, InOnePlace, SpawnedOnce,
           NEW t \in Threads, NEW x \in Tasks, Fresh(t, x),
           submitted' = submitted \union {x}, HandOver(t, x) \/ RunHere(t, x)
    PROVE  InOnePlace' /\ SpawnedOnce'
  <1>. USE PoolAssumption
  <1>a. x # NoTask /\ AfterTask(t) # "work"
    BY DEF AfterTask
  <1>1. CASE /\ queue_' = queue_ /\ arg' = [arg EXCEPT ![t] = x]
             /\ UNCHANGED <<stage, job>>
    <2>1. /\ arg'[t] = x /\ \A s \in Threads \ {t} : arg'[s] = arg[s]
          /\ \A s \in Threads : Works(s)' = Works(s)
      BY <1>1 DEF TypeOK, Works
    <2>2. InOnePlace'
      BY <1>1, <1>a, <2>1 DEF InOnePlace, Fresh
    <2>3. SpawnedOnce'
      BY <1>1, <1>a, <2>1 DEF SpawnedOnce, Fresh
    <2>. QED  BY <2>2, <2>3
  <1>2. CASE /\ queue_' \in {queue_, Append(queue_, x)} /\ job' = job
             /\ arg' = [arg EXCEPT ![t] = NoTask] /\ Goto(t, AfterTask(t))
    <2>1. /\ arg'[t] = NoTask /\ \A s \in Threads \ {t} : arg'[s] = arg[s]
          /\ ~Works(t)' /\ \A s \in Threads \ {t} : Works(s)' = Works(s)
      BY <1>2, <1>a DEF TypeOK, Works, Goto
    <2>2. /\ IsInjective(queue_')
          /\ Range(queue_') \subseteq Range(queue_) \union {x}
      <3>1. queue_ \in Seq(Tasks) /\ IsInjective(queue_) /\ x \notin Range(queue_)
        BY DEF TypeOK, InOnePlace, Fresh
      <3>2. IsInjective(Append(queue_, x))
        BY <3>1, AppendDistinct
      <3>3. Range(Append(queue_, x)) = Range(queue_) \union {x}
        BY <3>1, RangeAppend
      <3>. QED  BY <1>2, <3>1, <3>2, <3>3
    <2>3. InOnePlace'
      <3>1. Range(queue_') \subseteq submitted'
        BY <2>2 DEF InOnePlace
      <3>2. ASSUME NEW s \in Threads
            PROVE  /\ arg'[s] # NoTask => arg'[s] \in submitted' \ Range(queue_')
                   /\ Works(s)' => job'[s] \in submitted' \ Range(queue_')
        BY <1>2, <2>1, <2>2 DEF InOnePlace, Fresh
      <3>3. ASSUME NEW s \in Threads, NEW r \in Threads
            PROVE  /\ arg'[s] = arg'[r] /\ arg'[r] # NoTask => s = r
                   /\ Works(s)' /\ Works(r)' /\ job'[s] = job'[r] => s = r
                   /\ Works(s)' => job'[s] # arg'[r]
        BY <1>2, <2>1 DEF InOnePlace, TypeOK
      <3>. QED  BY <2>2, <3>1, <3>2, <3>3 DEF InOnePlace
    <2>4. SpawnedOnce'
      BY <1>2, <1>a, <2>1, <2>2 DEF SpawnedOnce, Fresh
    <2>. QED  BY <2>3, <2>4
  <1>3. CASE RunHere(t, x)
    <2>1. /\ queue_' = queue_ /\ arg' = arg /\ arg[t] = NoTask
          /\ Works(t)' /\ \A s \in Threads \ {t} : Works(s)' = Works(s)
          /\ job'[t] = x /\ \A s \in Threads \ {t} : job'[s] = job[s]
      BY <1>3 DEF RunHere, Goto, Works, TypeOK
    <2>2. InOnePlace'
      BY <1>a, <2>1 DEF InOnePlace, Fresh
    <2>3. SpawnedOnce'
      BY <1>a, <2>1 DEF SpawnedOnce, Fresh
    <2>. QED  BY <2>2, <2>3
  <1>. QED  BY <1>1, <1>2, <1>3 DEF HandOver, RunLocked

\* A worker takes its task away from the queue.
LEMMA TakeKeepsPlaces ==
    ASSUME TypeOK, InOnePlace, SpawnedOnce, NEW w \in Workers,
           stage[w] = "take", queue_ # <<>>, TakeFront(w), Goto(w, "work"),
           arg' = arg, submitted' = submitted
    PROVE  InOnePlace' /\ SpawnedOnce'
  <1>. DEFINE x == Head(queue_)
  <1>1. x \in Range(queue_) /\ queue_ \in Seq(Tasks) /\ x \in Tasks
    BY RangeHeadTail DEF TypeOK
  <1>2. /\ Range(queue_') = Range(queue_) \ {x}
        /\ IsInjective(queue_')
    BY <1>1, RangeHeadTail, TailDistinct DEF TakeFront, InOnePlace
  <1>3. /\ w \in Threads
        /\ Works(w)' /\ \A s \in Threads \ {w} : Works(s)' = Works(s)
        /\ job'[w] = x /\ \A s \in Threads \ {w} : job'[s] = job[s]
    BY DEF TakeFront, Goto, Works, TypeOK, Threads
  <1>. HIDE DEF x
  <1>4. InOnePlace'
    BY <1>1, <1>2, <1>3, PoolAssumption DEF InOnePlace
  <1>5. SpawnedOnce'
    BY <1>1, <1>2, <1>3 DEF SpawnedOnce
  <1>. QED  BY <1>4, <1>5

\* Each step leaves every task in one place.
LEMMA PlacesStep ==
    ASSUME TypeOK, Placement, InOnePlace, SpawnedOnce, [Next]_vars
    PROVE  InOnePlace' /\ SpawnedOnce'
  <1>1. ASSUME NEW t \in Threads, NEW x \in Tasks, Enters(t, x),
               HandOver(t, x) \/ RunHere(t, x)
        PROVE  InOnePlace' /\ SpawnedOnce'
    BY <1>1, EntersFresh, FreshKeepsPlaces
  <1>2. ASSUME UNCHANGED <<queue_, job, arg, submitted>>,
               \A t \in Threads : Works(t)' => Works(t)
        PROVE  InOnePlace' /\ SpawnedOnce'
    <2>1. InOnePlace'
      BY <1>2 DEF InOnePlace
    <2>2. SpawnedOnce'
      BY <1>2 DEF SpawnedOnce
    <2>. QED  BY <2>1, <2>2
  <1>3. ASSUME NEW t \in Threads, Return(t)
        PROVE  InOnePlace' /\ SpawnedOnce'
    BY <1>2, <1>3 DEF Return, Goto, AfterTask, Works, TypeOK
  <1>4. ASSUME NEW w \in Workers, LoopCondition(w) \/ StartThread(w)
        PROVE  InOnePlace' /\ SpawnedOnce'
    BY <1>2, <1>4 DEF LoopCondition, StartThread, Goto, Works, TypeOK
  <1>5. ASSUME NEW w \in Workers, Take(w)
        PROVE  InOnePlace' /\ SpawnedOnce'
    <2>1. CASE queue_ # <<>> /\ running_ /\ TakeFront(w) /\ Goto(w, "work")
      BY <1>5, <2>1, TakeKeepsPlaces DEF Take
    <2>2. CASE UNCHANGED <<queue_, job>> /\ (stage' = stage \/ Goto(w, "loop"))
      BY <1>2, <1>5, <2>2 DEF Take, Goto, Works, TypeOK
    <2>. QED  BY <1>5, <2>1, <2>2 DEF Take
  <1>6. CASE Start \/ Stop \/ JoinAll \/ WakeUnasked \/ UNCHANGED vars
    BY <1>2, <1>6 DEF Start, Stop, JoinAll, WakeUnasked, vars, Works
  <1>. QED  BY <1>1, <1>3, <1>4, <1>5, <1>6, StepCases

(* However often threads wait and are woken, and whoever runs a task: each *)
(* is in one place only, so it starts once at most.                        *)
THEOREM TasksInOnePlace == Spec => [](InOnePlace /\ SpawnedOnce)
  <1>1. Init => InOnePlace /\ SpawnedOnce
    <2>1. SUFFICES ASSUME Init PROVE InOnePlace /\ SpawnedOnce
      OBVIOUS
    <2>2. queue_ = <<>> /\ submitted = {} /\ IsInjective(queue_)
      BY <2>1 DEF Init, IsInjective
    <2>3. \A t \in Threads : arg[t] = NoTask /\ ~Works(t)
      BY <2>1 DEF Init, Works
    <2>. QED  BY <2>2, <2>3, RangeEmpty DEF InOnePlace, SpawnedOnce
  <1>2. TypeOK /\ Placement /\ InOnePlace /\ SpawnedOnce /\ [Next]_vars
            => (InOnePlace /\ SpawnedOnce)'
    BY PlacesStep
  <1>. QED  BY <1>1, <1>2, PlacementInvariant, PTL DEF Spec

-----------------------------------------------------------------------------
(* The queue as callers and workers see it *)

(* Whatever the lock, the conditions, Start and Stop do, the workers see a *)
(* queue that hands out tasks in the order of the Runs, each to one worker *)
(* only, and that holds no more than its limit.                            *)
THEOREM PoolImplementsFifo == Spec => ImplementsFifo
  <1>1. Init => Fifo!Init
    <2>1. SUFFICES ASSUME Init PROVE Fifo!Init
      OBVIOUS
    <2>2. [w \in Workers |-> job[w]] = [w \in Workers |-> NoTask]
      BY <2>1 DEF Init, Threads
    <2>. QED  BY <2>1, <2>2 DEF Init, Fifo!Init
  <1>2. TypeOK /\ Placement /\ InOnePlace /\ SpawnedOnce /\ [Next]_vars
            => [Fifo!Next]_Fifo!vars
    <2>1. SUFFICES ASSUME TypeOK, Placement, InOnePlace, SpawnedOnce,
                          [Next]_vars
                   PROVE  Fifo!Next \/ UNCHANGED Fifo!vars
      BY DEF Fifo!vars
    <2>2. ASSUME queue_' = queue_, \A w \in Workers : job'[w] = job[w]
          PROVE  UNCHANGED Fifo!vars
      BY <2>2 DEF Fifo!vars
    <2>3. ASSUME NEW t \in Threads, NEW x \in Tasks, Enters(t, x),
                 HandOver(t, x)
          PROVE  Fifo!Next \/ UNCHANGED Fifo!vars
      <3>1. CASE queue_' = queue_ /\ job' = job
        BY <2>2, <3>1
      <3>2. CASE ~QueueIsFull /\ queue_' = Append(queue_, x) /\ job' = job
        <4>1. CASE MaxQueueSize > 0
          <5>1. Len(queue_) < MaxQueueSize
            BY <2>1, <3>2, <4>1, PoolAssumption DEF QueueIsFull, TypeOK
          <5>. QED  BY <3>2, <4>1, <5>1 DEF Fifo!Next, Fifo!Put
        <4>2. CASE ~(MaxQueueSize > 0)
          <5>1. Len(queue_) < Cardinality(Tasks)
            BY <2>1, <2>3, EntersFresh, DistinctIsShorter, PoolAssumption
               DEF Fresh, InOnePlace, TypeOK
          <5>. QED  BY <3>2, <4>2, <5>1 DEF Fifo!Next, Fifo!Put
        <4>. QED  BY <4>1, <4>2
      <3>. QED  BY <2>3, <3>1, <3>2 DEF HandOver, RunLocked
    <2>4. ASSUME NEW t \in Threads, NEW x \in Tasks, RunHere(t, x)
          PROVE  UNCHANGED Fifo!vars
      <3>1. t \notin Workers
        BY <2>1, <2>4 DEF RunHere, Placement
      <3>. QED  BY <2>1, <2>2, <2>4, <3>1 DEF RunHere, TypeOK, Threads
    <2>5. ASSUME NEW w \in Workers, Take(w)
          PROVE  Fifo!Next \/ UNCHANGED Fifo!vars
      <3>1. CASE queue_' = queue_ /\ job' = job
        BY <2>2, <3>1
      <3>2. CASE queue_ # <<>> /\ TakeFront(w)
        <4>1. [v \in Workers |-> job[v]]' =
                  [[v \in Workers |-> job[v]] EXCEPT ![w] = Head(queue_)]
          BY <2>1, <3>2 DEF TakeFront, TypeOK, Threads
        <4>. QED  BY <3>2, <4>1 DEF TakeFront, Fifo!Next, Fifo!Take
      <3>. QED  BY <2>5, <3>1, <3>2 DEF Take
    <2>6. ASSUME \/ \E t \in Threads : Return(t)
                 \/ \E w \in Workers : LoopCondition(w) \/ StartThread(w)
                 \/ Start \/ Stop \/ JoinAll \/ WakeUnasked \/ UNCHANGED vars
          PROVE  UNCHANGED Fifo!vars
      BY <2>2, <2>6 DEF Return, LoopCondition, StartThread, Start, Stop,
                        JoinAll, WakeUnasked, vars
    <2>. QED  BY <2>1, <2>3, <2>4, <2>5, <2>6, StepCases
  <1>. QED
    BY <1>1, <1>2, PlacementInvariant, TasksInOnePlace, PTL
       DEF Spec, ImplementsFifo, Fifo!Spec
=============================================================================
