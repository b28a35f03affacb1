---------------------------- MODULE ReactorProofs ----------------------------
(***************************************************************************)
(* Proofs about the reactor.                                               *)
(*                                                                         *)
(* EventLoop, for any set of threads and of functors: its type invariant,  *)
(* that no wakeup is lost, and that it implements TaskExecutor.            *)
(*                                                                         *)
(* TimerQueue, for any number of timers, any intervals and any bounds on   *)
(* time: its type invariant; that every Timer object is in exactly one     *)
(* place as long as it is allocated; that the timerfd is set for the first *)
(* timer; that callbacks run when they are due, not again, and not after a *)
(* cancellation that came in time; when AddTimer reads the number of a     *)
(* deleted timer, and what a cancellation may then delete.                 *)
(***************************************************************************)
EXTENDS EventLoop, TimerQueue, SequenceLemmas

-----------------------------------------------------------------------------
(* EventLoop: the type invariant *)

LEMMA TypeOKInit == Init => TypeOK
  <1> SUFFICES ASSUME Init PROVE TypeOK
    OBVIOUS
  <1>1. <<>> \in Seq(Functors) /\ <<>> \in Seq(Channels)
    OBVIOUS
  <1>2. quit_ \in BOOLEAN /\ eventfd_ \in BOOLEAN /\ ioReady \in BOOLEAN
    BY DEF Init
  <1> QED
    BY <1>1, <1>2 DEF Init, TypeOK, LoopPcs, Origins

LEMMA TypeOKStep == TypeOK /\ [Next]_vars => TypeOK'
  <1> SUFFICES ASSUME TypeOK, [Next]_vars
               PROVE  TypeOK'
    OBVIOUS
  <1> USE DEF TypeOK, LoopPcs, Origins
  <1>1. ASSUME NEW t \in OtherThreads, NEW f \in Fresh, ForeignQueue(t, f)
        PROVE  TypeOK'
    BY <1>1 DEF ForeignQueue, Fresh
  <1>2. ASSUME NEW t \in OtherThreads, ForeignQuit(t)
        PROVE  TypeOK'
    BY <1>2 DEF ForeignQuit
  <1>3. ASSUME NEW t \in OtherThreads, Wakeup(t)
        PROVE  TypeOK'
    BY <1>3 DEF Wakeup
  <1>4. CASE IoArrives
    BY <1>4 DEF IoArrives
  <1>5. ASSUME NEW f \in Fresh, LoopThreadQueue(f)
        PROVE  TypeOK'
    BY <1>5 DEF LoopThreadQueue, Fresh
  <1>6. ASSUME NEW f \in Fresh, LoopThreadRun(f)
        PROVE  TypeOK'
    BY <1>6 DEF LoopThreadRun, Fresh
  <1>7. CASE LoopThreadQuit
    BY <1>7 DEF LoopThreadQuit
  <1>8. CASE Return
    BY <1>8 DEF Return
  <1>9. CASE EnterLoop
    BY <1>9 DEF EnterLoop
  <1>10. CASE CheckQuit
    BY <1>10 DEF CheckQuit
  <1>11. CASE PollReturns
    <2>1. /\ <<>> \in Seq(Channels)
          /\ <<"eventfd">> \in Seq(Channels)
          /\ <<"io">> \in Seq(Channels)
          /\ <<"eventfd", "io">> \in Seq(Channels)
          /\ <<"io", "eventfd">> \in Seq(Channels)
      BY DEF Channels
    <2>2. ReadyLists \subseteq Seq(Channels)
      BY <2>1, Zenon DEF ReadyLists
    <2> QED
      BY <1>11, <2>2 DEF PollReturns
  <1>12. CASE PollTimesOut
    BY <1>12 DEF PollTimesOut
  <1>13. CASE HandleEventfdRead
    <2>1. activeChannels_' \in Seq(Channels)
      BY <1>13, HeadTailProperties DEF HandleEventfdRead
    <2> QED
      BY <1>13, <2>1 DEF HandleEventfdRead
  <1>14. CASE HandleIoRead
    <2>1. activeChannels_' \in Seq(Channels)
      BY <1>14, HeadTailProperties DEF HandleIoRead
    <2> QED
      BY <1>14, <2>1 DEF HandleIoRead
  <1>15. CASE HandleDone
    BY <1>15 DEF HandleDone
  <1>16. CASE Swap
    BY <1>16 DEF Swap
  <1>17. CASE RunFunctor
    BY <1>17 DEF RunFunctor
  <1>18. CASE RunDone
    BY <1>18 DEF RunDone
  <1>19. CASE UNCHANGED vars
    BY <1>19 DEF vars
  <1> QED
    BY <1>1, <1>2, <1>3, <1>4, <1>5, <1>6, <1>7, <1>8, <1>9, <1>10, <1>11,
       <1>12, <1>13, <1>14, <1>15, <1>16, <1>17, <1>18, <1>19
       DEF Next, Foreign, UnknownCode, LoopStep

\* Every variable keeps its type, in particular depth never goes below 0.
THEOREM TypeCorrect == Spec => []TypeOK
  BY TypeOKInit, TypeOKStep, PTL DEF Spec

-----------------------------------------------------------------------------
(* No wakeup is lost *)

\* Unknown code runs on the loop thread only before Loop(), in callbacks and
\* in functors; so LoopThreadQuit is never taken in epoll_wait().
CodeRunsWhere == depth > 0 => loopPc \in {"idle", "handle", "run"}

WakeupInv ==
    /\ TypeOK
    /\ CodeRunsWhere
    /\ NoLostWakeup
    /\ QuitNotSleptThrough
    /\ CallbackFunctorsNeverSleep

LEMMA WakeupInit == Init => WakeupInv
  <1> SUFFICES ASSUME Init PROVE WakeupInv
    OBVIOUS
  <1>1. \A f \in Functors : ~Pending(f)
    BY RangeEmpty DEF Init, Pending
  <1> QED
    BY <1>1, TypeOKInit DEF Init, WakeupInv, CodeRunsWhere, NoLostWakeup,
       QuitNotSleptThrough, CallbackFunctorsNeverSleep

LEMMA WakeupStep == WakeupInv /\ [Next]_vars => WakeupInv'
  <1> SUFFICES ASSUME WakeupInv, [Next]_vars
               PROVE  WakeupInv'
    OBVIOUS
  <1>0. TypeOK /\ TypeOK'
    BY TypeOKStep DEF WakeupInv
  <1> USE <1>0 DEF WakeupInv, CodeRunsWhere, NoLostWakeup,
       QuitNotSleptThrough, CallbackFunctorsNeverSleep, WakeupDue
  <1>1. ASSUME NEW t \in OtherThreads, NEW f \in Fresh, ForeignQueue(t, f)
        PROVE  WakeupInv'
    <2>1. \A g \in Functors : Pending(g)' => g = f \/ Pending(g)
      BY <1>1, RangeAppend DEF ForeignQueue, Pending, Fresh, TypeOK
    <2>2. callerPc'[t] = "wakeup"
      BY <1>1 DEF ForeignQueue, TypeOK
    <2>3. \A g \in Functors : Pending(g)' /\ origin'[g] = "callback"
                                => Pending(g) /\ origin[g] = "callback"
      BY <1>1, <2>1 DEF ForeignQueue, Fresh, TypeOK
    <2> QED
      BY <1>1, <2>2, <2>3 DEF ForeignQueue
  <1>2. ASSUME NEW t \in OtherThreads, ForeignQuit(t)
        PROVE  WakeupInv'
    <2>1. callerPc'[t] = "wakeup"
      BY <1>2 DEF ForeignQuit, TypeOK
    <2> QED
      BY <1>2, <2>1 DEF ForeignQuit, Pending
  <1>3. ASSUME NEW t \in OtherThreads, Wakeup(t)
        PROVE  WakeupInv'
    BY <1>3 DEF Wakeup, Pending
  <1>4. CASE IoArrives
    BY <1>4 DEF IoArrives, Pending
  <1>5. ASSUME NEW f \in Fresh, LoopThreadQueue(f)
        PROVE  WakeupInv'
    <2>1. \A g \in Functors : Pending(g)' => g = f \/ Pending(g)
      BY <1>5, RangeAppend DEF LoopThreadQueue, Pending, Fresh, TypeOK
    <2>2. \A g \in Functors :
              g # f => origin'[g] = origin[g]
      BY <1>5 DEF LoopThreadQueue, TypeOK, Fresh
    <2>3. /\ origin'[f] # "foreign"
          /\ origin'[f] = "callback" => loopPc = "handle"
      BY <1>5 DEF LoopThreadQueue, TypeOK, Fresh
    <2> QED
      BY <1>5, <2>1, <2>2, <2>3 DEF LoopThreadQueue
  <1>6. ASSUME NEW f \in Fresh, LoopThreadRun(f)
        PROVE  WakeupInv'
    BY <1>6 DEF LoopThreadRun, Pending
  <1>7. CASE LoopThreadQuit
    BY <1>7 DEF LoopThreadQuit, Pending
  <1>8. CASE Return
    BY <1>8 DEF Return, Pending, TypeOK
  <1>9. CASE EnterLoop
    BY <1>9 DEF EnterLoop, Pending
  <1>10. CASE CheckQuit
    BY <1>10 DEF CheckQuit, Pending
  <1>11. CASE PollReturns
    BY <1>11 DEF PollReturns, Pending
  <1>12. CASE PollTimesOut
    BY <1>12 DEF PollTimesOut, Pending
  <1>13. CASE HandleEventfdRead
    BY <1>13 DEF HandleEventfdRead, Pending
  <1>14. CASE HandleIoRead
    BY <1>14 DEF HandleIoRead, Pending
  <1>15. CASE HandleDone
    BY <1>15 DEF HandleDone, Pending
  <1>16. CASE Swap
    <2>1. \A g \in Functors : ~Pending(g)'
      BY <1>16, RangeEmpty DEF Swap, Pending
    <2> QED
      BY <1>16, <2>1 DEF Swap
  <1>17. CASE RunFunctor
    BY <1>17 DEF RunFunctor, Pending
  <1>18. CASE RunDone
    BY <1>18 DEF RunDone, Pending
  <1>19. CASE UNCHANGED vars
    BY <1>19 DEF vars, Pending
  <1> QED
    BY <1>1, <1>2, <1>3, <1>4, <1>5, <1>6, <1>7, <1>8, <1>9, <1>10, <1>11,
       <1>12, <1>13, <1>14, <1>15, <1>16, <1>17, <1>18, <1>19
       DEF Next, Foreign, UnknownCode, LoopStep

\* No functor of another thread is left behind a loop that is about to block,
\* Loop() never blocks on a Quit() whose wakeup is not due, and what a channel
\* callback queues is taken before the loop blocks again.
THEOREM NothingIsSleptThrough == Spec => []NothingSleptThrough
  <1>1. WakeupInv => NothingSleptThrough
    BY DEF WakeupInv, NothingSleptThrough
  <1> QED
    BY <1>1, WakeupInit, WakeupStep, PTL DEF Spec

-----------------------------------------------------------------------------
(* The loop implements the task executor *)

\* functors is empty except while Loop() runs it, and what is queued has been
\* handed over, so that nothing is accepted twice.
QueueInv ==
    /\ TypeOK
    /\ CodeRunsWhere
    /\ functors # <<>> => loopPc = "run"
    /\ \A f \in Range(functors) \union Range(pendingFunctors_) :
           origin[f] # "none"

LEMMA QueueInit == Init => QueueInv
  <1> SUFFICES ASSUME Init PROVE QueueInv
    OBVIOUS
  <1>1. Range(functors) \union Range(pendingFunctors_) = {}
    BY RangeEmpty DEF Init
  <1> QED
    BY <1>1, TypeOKInit DEF Init, QueueInv, CodeRunsWhere

LEMMA QueueStep == QueueInv /\ [Next]_vars => QueueInv'
  <1> SUFFICES ASSUME QueueInv, [Next]_vars
               PROVE  QueueInv'
    OBVIOUS
  <1>0. TypeOK /\ TypeOK'
    BY TypeOKStep DEF QueueInv
  <1> USE <1>0 DEF QueueInv, CodeRunsWhere
  <1>1. ASSUME NEW t \in OtherThreads, NEW f \in Fresh, ForeignQueue(t, f)
        PROVE  QueueInv'
    <2>1. f \in Functors
      BY DEF Fresh
    <2>2. Range(pendingFunctors_') = Range(pendingFunctors_) \union {f}
      BY <1>1, <2>1, RangeAppend DEF ForeignQueue, TypeOK
    <2>3. \A g : g # f => origin'[g] = origin[g]
      BY <1>1 DEF ForeignQueue, TypeOK
    <2>4. origin'[f] # "none"
      BY <1>1, <2>1 DEF ForeignQueue, TypeOK
    <2> QED
      BY <1>1, <2>2, <2>3, <2>4 DEF ForeignQueue
  <1>2. ASSUME NEW t \in OtherThreads, ForeignQuit(t) \/ Wakeup(t)
        PROVE  QueueInv'
    BY <1>2 DEF ForeignQuit, Wakeup
  <1>3. CASE IoArrives
    BY <1>3 DEF IoArrives
  <1>4. ASSUME NEW f \in Fresh, LoopThreadQueue(f)
        PROVE  QueueInv'
    <2>1. f \in Functors
      BY DEF Fresh
    <2>2. Range(pendingFunctors_') = Range(pendingFunctors_) \union {f}
      BY <1>4, <2>1, RangeAppend DEF LoopThreadQueue, TypeOK
    <2>3. \A g : g # f => origin'[g] = origin[g]
      BY <1>4 DEF LoopThreadQueue, TypeOK
    <2>4. origin'[f] # "none"
      BY <1>4, <2>1 DEF LoopThreadQueue, TypeOK
    <2> QED
      BY <1>4, <2>2, <2>3, <2>4 DEF LoopThreadQueue
  <1>5. ASSUME NEW f \in Fresh, LoopThreadRun(f)
        PROVE  QueueInv'
    BY <1>5 DEF LoopThreadRun
  <1>6. CASE LoopThreadQuit \/ Return
    BY <1>6 DEF LoopThreadQuit, Return, TypeOK
  <1>7. CASE EnterLoop \/ CheckQuit
    BY <1>7 DEF EnterLoop, CheckQuit
  <1>8. CASE PollReturns \/ PollTimesOut
    BY <1>8 DEF PollReturns, PollTimesOut
  <1>9. CASE HandleEventfdRead \/ HandleIoRead \/ HandleDone
    BY <1>9 DEF HandleEventfdRead, HandleIoRead, HandleDone
  <1>10. CASE Swap
    BY <1>10, RangeEmpty DEF Swap
  <1>11. CASE RunFunctor
    <2>1. Range(functors') \subseteq Range(functors)
      BY <1>11, RangeHeadTail DEF RunFunctor, TypeOK
    <2> QED
      BY <1>11, <2>1 DEF RunFunctor
  <1>12. CASE RunDone
    BY <1>12 DEF RunDone
  <1>13. CASE UNCHANGED vars
    BY <1>13 DEF vars
  <1> QED
    BY <1>1, <1>2, <1>3, <1>4, <1>5, <1>6, <1>7, <1>8, <1>9, <1>10, <1>11,
       <1>12, <1>13 DEF Next, Foreign, UnknownCode, LoopStep

\* A functor nobody has handed over is unknown to the executor.
LEMMA FreshIsUnknown ==
    ASSUME QueueInv, NEW f \in Fresh
    PROVE  f \in Functors /\ ~Executor!Known(f)
  <1>1. Range(functors \o pendingFunctors_)
            = Range(functors) \union Range(pendingFunctors_)
    BY RangeConcatenation DEF QueueInv, TypeOK
  <1>2. \A s : Executor!Range(s) = Range(s)
    BY DEF Executor!Range, Range
  <1> QED
    BY <1>1, <1>2 DEF QueueInv, Fresh, Executor!Known

\* Initial states are initial states of the executor.
LEMMA ExecutorInit == Init => Executor!Init
  <1> SUFFICES ASSUME Init PROVE Executor!Init
    OBVIOUS
  <1>1. functors \o pendingFunctors_ = <<>>
    BY EmptyConcat DEF Init
  <1> QED
    BY <1>1 DEF Init, Executor!Init

\* Every step of the loop is a step of the executor or leaves it alone.
LEMMA ExecutorStep ==
    QueueInv /\ QueueInv' /\ [Next]_vars => [Executor!Next]_Executor!vars
  <1> SUFFICES ASSUME QueueInv, QueueInv', [Next]_vars
               PROVE  [Executor!Next]_Executor!vars
    OBVIOUS
  <1> DEFINE queue == functors \o pendingFunctors_
             over == loopPc \in {"exited", "aborted"}
  <1>1. ASSUME NEW f \in Fresh,
               pendingFunctors_' = Append(pendingFunctors_, f),
               UNCHANGED <<functors, quit_, loopPc, started>>
        PROVE  Executor!Submit(f)
    <2>1. f \in Functors /\ ~Executor!Known(f)
      BY FreshIsUnknown
    <2>2. queue' = Append(queue, f)
      BY <1>1, <2>1, AppendConcat DEF QueueInv, TypeOK
    <2> QED
      BY <1>1, <2>1, <2>2 DEF Executor!Submit
  <1>2. ASSUME NEW f \in Fresh, LoopThreadRun(f)
        PROVE  Executor!StartDirectly(f)
    <2>1. f \in Functors /\ ~Executor!Known(f)
      BY FreshIsUnknown
    <2>2. ~over
      BY <1>2 DEF LoopThreadRun, QueueInv, CodeRunsWhere
    <2> QED
      BY <1>2, <2>1, <2>2 DEF LoopThreadRun, Executor!StartDirectly
  <1>3. ASSUME RunFunctor
        PROVE  Executor!StartNext
    <2>1. /\ queue # <<>>
          /\ Head(queue) = Head(functors)
          /\ Tail(queue) = Tail(functors) \o pendingFunctors_
      BY <1>3, HeadTailConcat DEF RunFunctor, QueueInv, TypeOK
    <2>2. ~over /\ UNCHANGED <<quit_, over>>
      BY <1>3 DEF RunFunctor
    <2> QED
      BY <1>3, <2>1, <2>2 DEF RunFunctor, Executor!StartNext
  <1>4. ASSUME quit_' = TRUE,
               UNCHANGED <<functors, pendingFunctors_, loopPc, started>>
        PROVE  Executor!RequestQuit
    BY <1>4 DEF Executor!RequestQuit
  <1>5. ASSUME EnterLoop \/ CheckQuit, quit_
        PROVE  Executor!Stop
    BY <1>5 DEF EnterLoop, CheckQuit, Executor!Stop
  <1>6. ASSUME UNCHANGED <<functors, pendingFunctors_, quit_, started, over>>
        PROVE  UNCHANGED Executor!vars
    BY <1>6 DEF Executor!vars
  <1>7. ASSUME EnterLoop \/ CheckQuit, ~quit_
        PROVE  UNCHANGED Executor!vars
    BY <1>6, <1>7 DEF EnterLoop, CheckQuit
  <1>8. ASSUME Swap
        PROVE  UNCHANGED Executor!vars
    <2>1. functors = <<>>
      BY <1>8 DEF Swap, QueueInv
    <2>2. queue' = queue
      BY <1>8, <2>1, EmptyConcat DEF Swap, QueueInv, TypeOK
    <2> QED
      BY <1>8, <2>2 DEF Swap, Executor!vars
  <1>9. ASSUME NEW t \in OtherThreads, Wakeup(t)
        PROVE  UNCHANGED Executor!vars
    BY <1>6, <1>9 DEF Wakeup
  <1>10. ASSUME IoArrives \/ Return
         PROVE  UNCHANGED Executor!vars
    BY <1>6, <1>10 DEF IoArrives, Return
  <1>11. ASSUME PollReturns \/ PollTimesOut
         PROVE  UNCHANGED Executor!vars
    BY <1>6, <1>11 DEF PollReturns, PollTimesOut
  <1>12. ASSUME HandleEventfdRead \/ HandleIoRead \/ HandleDone \/ RunDone
         PROVE  UNCHANGED Executor!vars
    BY <1>6, <1>12 DEF HandleEventfdRead, HandleIoRead, HandleDone, RunDone
  <1>13. ASSUME NEW t \in OtherThreads, NEW f \in Fresh, ForeignQueue(t, f)
         PROVE  Executor!Submit(f)
    BY <1>1, <1>13 DEF ForeignQueue
  <1>14. ASSUME NEW f \in Fresh, LoopThreadQueue(f)
         PROVE  Executor!Submit(f)
    BY <1>1, <1>14 DEF LoopThreadQueue
  <1>15. ASSUME NEW t \in OtherThreads, ForeignQuit(t)
         PROVE  Executor!RequestQuit
    BY <1>4, <1>15 DEF ForeignQuit
  <1>16. ASSUME LoopThreadQuit
         PROVE  Executor!RequestQuit
    BY <1>4, <1>16 DEF LoopThreadQuit
  <1>17. ASSUME UNCHANGED vars
         PROVE  UNCHANGED Executor!vars
    BY <1>17 DEF vars, Executor!vars
  <1>18. Fresh \subseteq Functors
    BY DEF Fresh
  <1> QED
    BY <1>2, <1>3, <1>5, <1>7, <1>8, <1>9, <1>10, <1>11, <1>12, <1>13, <1>14,
       <1>15, <1>16, <1>17, <1>18
       DEF Next, Foreign, UnknownCode, LoopStep, Executor!Next

\* The loop starts what it is handed in order, once, and not after its end.
THEOREM LoopImplementsExecutor == Spec => ImplementsExecutor
  BY QueueInit, QueueStep, ExecutorInit, ExecutorStep, PTL
     DEF Spec, ImplementsExecutor, Executor!Spec

Op == [op : {"add", "cancel"}, timer : Timers]

-----------------------------------------------------------------------------
(* TimerQueue: the type invariant *)

\* What UpdateTimerfd leaves behind.
LEMMA UpdateTimerfdType ==
    ASSUME TimerTypeOK, NEW when \in Nat, UpdateTimerfd(when)
    PROVE  /\ clock' \in 0 .. MaxClock
           /\ timerfd_' \subseteq Nat
           /\ slipped' \in BOOLEAN
  <1>1. CASE clock < when
    <2>1. PICK reading \in clock .. (clock + MaxSlip) :
              /\ reading <= MaxClock
              /\ clock' = reading
              /\ timerfd_' = {when} \/ timerfd_' = {} \/ timerfd_' = timerfd_
              /\ slipped' = TRUE \/ slipped' = FALSE
      BY <1>1 DEF UpdateTimerfd, TimerTypeOK
    <2>2. slipped' \in BOOLEAN
      BY <2>1
    <2>3. clock' \in 0 .. MaxClock
      BY <2>1, TimerQueueAssumption DEF TimerQueueAssumption, TimerTypeOK
    <2> QED
      BY <2>1, <2>2, <2>3 DEF TimerTypeOK
  <1>2. CASE ~(clock < when)
    <2>1. timerfd_' = {clock} /\ clock' = clock /\ slipped' = FALSE
      BY <1>2 DEF UpdateTimerfd, TimerTypeOK
    <2>2. clock \in Nat
      BY TimerQueueAssumption DEF TimerQueueAssumption, TimerTypeOK
    <2>3. slipped' \in BOOLEAN
      BY <2>1
    <2> QED
      BY <2>1, <2>2, <2>3 DEF TimerTypeOK
  <1> QED
    BY <1>1, <1>2

\* What AddTimerInLoop leaves behind.
LEMMA AddTimerInLoopType ==
    ASSUME TimerTypeOK, NEW t \in Timers, NEW when \in Nat, AddTimerInLoop(t, when)
    PROVE  /\ clock' \in 0 .. MaxClock
           /\ timerfd_' \subseteq Nat
           /\ slipped' \in BOOLEAN
           /\ timers_' = timers_ \union {t}
           /\ timers_' \subseteq Timers
  <1>1. timers_' = timers_ \union {t} /\ (UpdateTimerfd(when) \/ KeepTimerfd)
    BY DEF AddTimerInLoop
  <1>2. CASE UpdateTimerfd(when)
    BY <1>1, <1>2, UpdateTimerfdType DEF TimerTypeOK
  <1>3. CASE KeepTimerfd
    BY <1>1, <1>3 DEF TimerTypeOK, KeepTimerfd
  <1> QED
    BY <1>1, <1>2, <1>3

\* What NewTimer leaves behind.
LEMMA NewTimerType ==
    ASSUME TimerTypeOK, NEW t \in Timers, NEW when \in Nat,
           NEW i \in Intervals \union {0}, NewTimer(t, when, i)
    PROVE  /\ expiration' \in [Timers -> Nat]
           /\ index' \in [Timers -> Nat]
           /\ interval' \in [Timers -> Intervals \union {0}]
           /\ memory' \in [Timers -> {"none", "live", "freed", "leaked"}]
           /\ sequence' \in [Timers -> Timers \union {0}]
  <1>1. expiration' \in [Timers -> Nat] /\ index' \in [Timers -> Nat]
    BY DEF NewTimer, TimerTypeOK
  <1>2. /\ interval' \in [Timers -> Intervals \union {0}]
        /\ memory' \in [Timers -> {"none", "live", "freed", "leaked"}]
    BY DEF NewTimer, TimerTypeOK
  <1>3. sequence' \in [Timers -> Timers \union {0}]
    BY DEF NewTimer, TimerTypeOK
  <1> QED
    BY <1>1, <1>2, <1>3

\* What CancelTimerInLoop leaves behind.
LEMMA CancelTimerInLoopType ==
    ASSUME TimerTypeOK, NEW t \in Timers, CancelTimerInLoop(t)
    PROVE  /\ timers_' \subseteq Timers
           /\ memory' \in [Timers -> {"none", "live", "freed", "leaked"}]
           /\ cancelled' \in [Timers -> {"no", "scheduled", "expired"}]
  <1>1. timers_' \subseteq Timers
    BY DEF CancelTimerInLoop, TimerTypeOK
  <1>2. memory' \in [Timers -> {"none", "live", "freed", "leaked"}]
    BY DEF CancelTimerInLoop, TimerTypeOK
  <1>3. cancelled' \in [Timers -> {"no", "scheduled", "expired"}]
    BY DEF CancelTimerInLoop, NoteCancel, TimerTypeOK
  <1> QED
    BY <1>1, <1>2, <1>3

LEMMA TimerTypeOKInit == TimerInit => TimerTypeOK
  <1> SUFFICES ASSUME TimerInit PROVE TimerTypeOK
    OBVIOUS
  <1>1. pendingOps \in Seq(Op)
    BY EmptySeq DEF TimerInit
  <1>2. /\ clock \in 0 .. MaxClock /\ now \in 0 .. MaxClock
        /\ cancels \in 0 .. MaxCancels
    BY TimerQueueAssumption DEF TimerQueueAssumption, TimerInit
  <1>3. /\ timers_ \subseteq Timers /\ expired \subseteq Timers
        /\ running \subseteq Timers /\ timerfd_ \subseteq Nat
        /\ slipped \in BOOLEAN
        /\ timerPc \in {"other", "dispatch", "batch", "callback", "destroyed"}
    BY DEF TimerInit
  <1>4. /\ expiration \in [Timers -> Nat] /\ index \in [Timers -> Nat]
        /\ interval \in [Timers -> Intervals \union {0}]
        /\ runs \in [Timers -> 0 .. 2]
    BY DEF TimerInit
  <1>5. /\ memory \in [Timers -> {"none", "live", "freed", "leaked"}]
        /\ adding \subseteq Timers /\ stale \subseteq Timers
        /\ sequence \in [Timers -> Timers \union {0}]
        /\ cancelled \in [Timers -> {"no", "scheduled", "expired"}]
    BY DEF TimerInit
  <1> QED
    BY <1>1, <1>2, <1>3, <1>4, <1>5 DEF TimerTypeOK, Op

LEMMA TimerTypeOKStep == TimerTypeOK /\ [TimerNext]_queueVars => TimerTypeOK'
  <1> SUFFICES ASSUME TimerTypeOK, [TimerNext]_queueVars
               PROVE  TimerTypeOK'
    OBVIOUS
  <1> USE TimerQueueAssumption
      DEF TimerQueueAssumption, timerVars, historyVars, returnVars
  <1>1. ASSUME NEW t \in Timers, NEW when \in 0 .. MaxClock,
               NEW i \in Intervals \union {0}, LoopAdd(t, when, i)
        PROVE  TimerTypeOK'
    <2>1. when \in Nat /\ AddTimerInLoop(t, when) /\ NewTimer(t, when, i)
      BY <1>1 DEF LoopAdd
    <2>2. /\ expiration' \in [Timers -> Nat]
          /\ index' \in [Timers -> Nat]
          /\ interval' \in [Timers -> Intervals \union {0}]
          /\ memory' \in [Timers -> {"none", "live", "freed", "leaked"}]
          /\ sequence' \in [Timers -> Timers \union {0}]
      BY <2>1, NewTimerType
    <2> QED
      BY <1>1, <2>1, <2>2, AddTimerInLoopType DEF LoopAdd, TimerTypeOK
  <1>2. ASSUME NEW t \in Timers, NEW when \in 0 .. MaxClock,
               NEW i \in Intervals \union {0}, ForeignAdd(t, when, i)
        PROVE  TimerTypeOK'
    <2>1. /\ expiration' \in [Timers -> Nat]
          /\ index' \in [Timers -> Nat]
          /\ interval' \in [Timers -> Intervals \union {0}]
          /\ memory' \in [Timers -> {"none", "live", "freed", "leaked"}]
          /\ sequence' \in [Timers -> Timers \union {0}]
      <3>1. when \in Nat /\ NewTimer(t, when, i)
        BY <1>2 DEF ForeignAdd
      <3> QED
        BY <3>1, NewTimerType
    <2>2. [op |-> "add", timer |-> t] \in Op
      BY DEF Op
    <2>3. pendingOps' \in Seq(Op)
      BY <1>2, <2>2, AppendProperties DEF ForeignAdd, TimerTypeOK, Op
    <2> QED
      BY <1>2, <2>1, <2>3 DEF ForeignAdd, KeepTimerfd, TimerTypeOK, Op
  <1>3. ASSUME NEW t \in Timers, LoopCancel(t)
        PROVE  TimerTypeOK'
    BY <1>3, CancelTimerInLoopType DEF LoopCancel, KeepTimerfd, TimerTypeOK
  <1>4. ASSUME NEW t \in Timers, ForeignCancel(t)
        PROVE  TimerTypeOK'
    <2>1. [op |-> "cancel", timer |-> t] \in Op
      BY DEF Op
    <2>2. pendingOps' \in Seq(Op)
      BY <1>4, <2>1, AppendProperties DEF ForeignCancel, TimerTypeOK, Op
    <2> QED
      BY <1>4, <2>2 DEF ForeignCancel, KeepTimerfd, TimerTypeOK, Op
  <1>5. CASE RunAdd
    <2>1. /\ Head(pendingOps).timer \in Timers
          /\ pendingOps' \in Seq(Op)
      <3>1. pendingOps \in Seq(Op) /\ pendingOps # <<>>
        BY <1>5 DEF RunAdd, TimerTypeOK, Op
      <3>2. Head(pendingOps) \in Op /\ Tail(pendingOps) \in Seq(Op)
        BY <3>1, HeadTailProperties
      <3> QED
        BY <1>5, <3>2 DEF RunAdd, Op
    <2>2. expiration[Head(pendingOps).timer] \in Nat
      BY <2>1 DEF TimerTypeOK
    <2> QED
      BY <1>5, <2>1, <2>2, AddTimerInLoopType DEF RunAdd, TimerTypeOK, Op
  <1>6. CASE RunCancel
    <2>1. /\ Head(pendingOps).timer \in Timers
          /\ pendingOps' \in Seq(Op)
      <3>1. pendingOps \in Seq(Op) /\ pendingOps # <<>>
        BY <1>6 DEF RunCancel, TimerTypeOK, Op
      <3>2. Head(pendingOps) \in Op /\ Tail(pendingOps) \in Seq(Op)
        BY <3>1, HeadTailProperties
      <3> QED
        BY <1>6, <3>2 DEF RunCancel, Op
    <2> QED
      BY <1>6, <2>1, CancelTimerInLoopType
         DEF RunCancel, KeepTimerfd, TimerTypeOK, Op
  <1>7. CASE PollTimerfd
    BY <1>7 DEF PollTimerfd, TimerTypeOK
  <1>8. CASE HandleRead
    BY <1>8 DEF HandleRead, TimerTypeOK
  <1>9. ASSUME NEW t \in Timers, RunTimer(t)
        PROVE  TimerTypeOK'
    <2>1. runs' \in [Timers -> 0 .. 2]
      <3> DEFINE once == IF runs[t] < 2 THEN runs[t] + 1 ELSE 2
      <3>1. runs \in [Timers -> 0 .. 2]
        BY DEF TimerTypeOK
      <3>2. once \in 0 .. 2
        BY <3>1
      <3>3. runs' = [runs EXCEPT ![t] = once]
        BY <1>9 DEF RunTimer
      <3> HIDE DEF once
      <3> QED
        BY <3>1, <3>2, <3>3
    <2>2. running' \subseteq Timers /\ expired' \subseteq Timers
      BY <1>9 DEF RunTimer, TimerTypeOK
    <2> QED
      BY <1>9, <2>1, <2>2 DEF RunTimer, TimerTypeOK
  <1>10. ASSUME NEW t \in Timers, RestartTimer(t)
         PROVE  TimerTypeOK'
    <2>1. now + interval[t] \in Nat
      <3>1. interval[t] \in Intervals \union {0} /\ now \in 0 .. MaxClock
        BY DEF TimerTypeOK
      <3>2. interval[t] \in Nat
        <4>1. \A x \in Intervals \union {0} : x \in Nat
          OBVIOUS
        <4> QED
          BY <3>1, <4>1
      <3>3. now \in Nat
        BY <3>1
      <3> QED
        BY <3>2, <3>3
    <2> QED
      BY <1>10, <2>1, AddTimerInLoopType DEF RestartTimer, TimerTypeOK
  <1>11. ASSUME NEW t \in Timers, DeleteTimer(t)
         PROVE  TimerTypeOK'
    BY <1>11 DEF DeleteTimer, TimerTypeOK
  <1>12. CASE HandleReadDone
    <2>1. /\ clock' \in 0 .. MaxClock
          /\ timerfd_' \subseteq Nat
          /\ slipped' \in BOOLEAN
      <3>1. CASE KeepTimerfd
        BY <3>1 DEF KeepTimerfd, TimerTypeOK
      <3>2. ASSUME NEW t \in timers_, UpdateTimerfd(expiration[t])
            PROVE  <2>1!1 /\ <2>1!2 /\ <2>1!3
        <4>1. expiration[t] \in Nat
          BY DEF TimerTypeOK
        <4> QED
          BY <3>2, <4>1, UpdateTimerfdType
      <3> QED
        BY <1>12, <3>1, <3>2 DEF HandleReadDone
    <2> QED
      BY <1>12, <2>1 DEF HandleReadDone, TimerTypeOK
  <1>13. CASE Destroy
    <2>1. pendingOps' \in Seq(Op)
      BY <1>13, EmptySeq DEF Destroy
    <2>2. memory' \in [Timers -> {"none", "live", "freed", "leaked"}]
      BY <1>13 DEF Destroy, TimerTypeOK
    <2> QED
      BY <1>13, <2>1, <2>2 DEF Destroy, TimerTypeOK, Op
  <1>14. CASE Tick
    BY <1>14 DEF Tick, TimerTypeOK
  <1>15. CASE UNCHANGED queueVars
    BY <1>15 DEF queueVars, TimerTypeOK
  <1>16. ASSUME NEW t \in Timers, AddReturns(t)
         PROVE  TimerTypeOK'
    BY <1>16 DEF AddReturns, KeepTimerfd, TimerTypeOK
  <1> QED
    BY <1>1, <1>2, <1>3, <1>4, <1>5, <1>6, <1>7, <1>8, <1>9, <1>10, <1>11,
       <1>12, <1>13, <1>14, <1>15, <1>16 DEF TimerNext, Call, TimerLoopStep

\* Every variable keeps its type.
THEOREM TimerTypeCorrect == TimerSpec => []TimerTypeOK
  BY TimerTypeOKInit, TimerTypeOKStep, PTL DEF TimerSpec

-----------------------------------------------------------------------------
(* Every allocated timer is in one place *)

\* The timers that the functors of a sequence are to add.
AddsOf(ops) == {op.timer : op \in {o \in Range(ops) : o.op = "add"}}

\* No timer has two AddTimerInLoop functors.
AddsDistinct(ops) ==
    \A i, j \in DOMAIN ops :
        /\ ops[i].op = "add" /\ ops[j].op = "add"
        /\ ops[i].timer = ops[j].timer
        => i = j

Live == {t \in Timers : memory[t] = "live"}

\* OwnedOnce is not inductive alone: an added timer must not be added again
\* by a second functor, and HandleRead must not find old expired timers.
OwnInv ==
    /\ TimerTypeOK
    /\ OwnedOnce
    /\ AddsDistinct(pendingOps)
    /\ expired # {} => timerPc \in {"batch", "callback"}
    /\ running # {} => timerPc = "callback"
    /\ \A s, t \in running : s = t

LEMMA AddsOfAppend ==
    ASSUME NEW ops \in Seq(Op), NEW o \in Op
    PROVE  AddsOf(Append(ops, o))
               = AddsOf(ops) \union (IF o.op = "add" THEN {o.timer} ELSE {})
  <1>1. Range(Append(ops, o)) = Range(ops) \union {o}
    BY RangeAppend
  <1> QED
    BY <1>1 DEF AddsOf

LEMMA AddsDistinctAppend ==
    ASSUME NEW ops \in Seq(Op), NEW o \in Op, AddsDistinct(ops),
           o.op = "add" => o.timer \notin AddsOf(ops)
    PROVE  AddsDistinct(Append(ops, o))
  <1> DEFINE new == Append(ops, o)
  <1>1. \A i \in DOMAIN ops :
            o.op = "add" /\ ops[i].op = "add" => ops[i].timer # o.timer
    BY DEF AddsOf, Range
  <1>2. /\ DOMAIN new = 1 .. Len(ops) + 1
        /\ DOMAIN ops = 1 .. Len(ops)
        /\ \A i \in 1 .. Len(ops) : new[i] = ops[i]
        /\ new[Len(ops) + 1] = o
    OBVIOUS
  <1> HIDE DEF new
  <1>3. AddsDistinct(new)
    <2> SUFFICES ASSUME NEW i \in DOMAIN new, NEW j \in DOMAIN new,
                        new[i].op = "add", new[j].op = "add",
                        new[i].timer = new[j].timer
                 PROVE  i = j
      BY DEF AddsDistinct
    <2>1. CASE i \in DOMAIN ops /\ j \in DOMAIN ops
      BY <1>2, <2>1 DEF AddsDistinct
    <2>2. CASE i \in DOMAIN ops /\ j = Len(ops) + 1
      BY <1>1, <1>2, <2>2
    <2>3. CASE i = Len(ops) + 1 /\ j \in DOMAIN ops
      BY <1>1, <1>2, <2>3
    <2> QED
      BY <1>2, <2>1, <2>2, <2>3
  <1> QED
    BY <1>3 DEF new

LEMMA AddsOfTail ==
    ASSUME NEW ops \in Seq(Op), ops # <<>>, AddsDistinct(ops)
    PROVE  /\ AddsDistinct(Tail(ops))
           /\ AddsOf(Tail(ops)) \subseteq AddsOf(ops)
           /\ Head(ops).op = "add" =>
                  /\ Head(ops).timer \in AddsOf(ops)
                  /\ AddsOf(Tail(ops)) = AddsOf(ops) \ {Head(ops).timer}
           /\ Head(ops).op # "add" => AddsOf(Tail(ops)) = AddsOf(ops)
  <1>1. Range(ops) = {Head(ops)} \union Range(Tail(ops))
    BY RangeHeadTail
  <1>2. /\ DOMAIN Tail(ops) = 1 .. Len(ops) - 1
        /\ DOMAIN ops = 1 .. Len(ops)
        /\ \A i \in 1 .. Len(ops) - 1 : Tail(ops)[i] = ops[i + 1]
        /\ Head(ops) = ops[1]
        /\ 1 \in DOMAIN ops
        /\ Len(ops) \in Nat
    OBVIOUS
  <1>3. AddsDistinct(Tail(ops))
    <2> SUFFICES ASSUME NEW i \in 1 .. Len(ops) - 1,
                        NEW j \in 1 .. Len(ops) - 1,
                        Tail(ops)[i].op = "add", Tail(ops)[j].op = "add",
                        Tail(ops)[i].timer = Tail(ops)[j].timer
                 PROVE  i = j
      BY <1>2, Zenon DEF AddsDistinct
    <2>1. i + 1 \in DOMAIN ops /\ j + 1 \in DOMAIN ops
      BY <1>2
    <2>2. i + 1 = j + 1
      BY <1>2, <2>1 DEF AddsDistinct
    <2> QED
      BY <2>2
  <1>4. ASSUME Head(ops).op = "add"
        PROVE  Head(ops).timer \notin AddsOf(Tail(ops))
    <2> SUFFICES ASSUME NEW i \in 1 .. Len(ops) - 1,
                        Tail(ops)[i].op = "add",
                        Tail(ops)[i].timer = Head(ops).timer
                 PROVE  FALSE
      BY <1>2, Zenon DEF AddsOf, Range
    <2>1. i + 1 \in DOMAIN ops /\ i + 1 # 1
      BY <1>2
    <2> QED
      BY <1>2, <1>4, <2>1 DEF AddsDistinct
  <1>5. AddsOf(ops)
            = AddsOf(Tail(ops))
              \union (IF Head(ops).op = "add" THEN {Head(ops).timer} ELSE {})
    BY <1>1 DEF AddsOf
  <1> QED
    BY <1>3, <1>4, <1>5

LEMMA OwnInit == TimerInit => OwnInv
  <1> SUFFICES ASSUME TimerInit PROVE OwnInv
    OBVIOUS
  <1>1. PendingAdds = {} /\ AddsDistinct(pendingOps)
    BY RangeEmpty DEF TimerInit, PendingAdds, AddsDistinct
  <1>2. {t \in Timers : memory[t] = "live"} = {}
    BY DEF TimerInit
  <1> QED
    BY <1>1, <1>2, TimerTypeOKInit DEF TimerInit, OwnInv, OwnedOnce

LEMMA OwnStep == OwnInv /\ [TimerNext]_queueVars => OwnInv'
  <1> SUFFICES ASSUME OwnInv, [TimerNext]_queueVars
               PROVE  OwnInv'
    OBVIOUS
  <1>a. TimerTypeOK /\ TimerTypeOK' /\ pendingOps \in Seq(Op)
    BY TimerTypeOKStep DEF OwnInv, TimerTypeOK, Op
  <1>b. PendingAdds = AddsOf(pendingOps) /\ PendingAdds' = AddsOf(pendingOps')
    BY DEF PendingAdds, AddsOf
  <1>c. /\ Live = PendingAdds \union timers_ \union expired \union running
        /\ PendingAdds \intersect (timers_ \union expired \union running) = {}
        /\ timers_ \intersect (expired \union running) = {}
        /\ expired \intersect running = {}
    BY DEF OwnInv, OwnedOnce, Live
  \* What a step has to establish, with the places after the step named.
  <1>d. ASSUME /\ Live' = PendingAdds' \union timers_' \union expired'
                              \union running'
               /\ PendingAdds' \intersect (timers_' \union expired'
                                               \union running') = {}
               /\ timers_' \intersect (expired' \union running') = {}
               /\ expired' \intersect running' = {},
               AddsDistinct(pendingOps'),
               expired' # {} => timerPc' \in {"batch", "callback"},
               running' # {} => timerPc' = "callback",
               \A s, t \in running' : s = t
        PROVE  OwnInv'
    BY <1>a, <1>d DEF OwnInv, OwnedOnce, Live, AddsDistinct
  <1>e. /\ AddsDistinct(pendingOps)
        /\ expired # {} => timerPc \in {"batch", "callback"}
        /\ running # {} => timerPc = "callback"
        /\ \A s, t \in running : s = t
    BY DEF OwnInv
  <1>f. ASSUME NEW t \in Timers, NEW when, NEW i, NewTimer(t, when, i)
        PROVE  Live' = Live \union {t} /\ t \notin Live
    BY <1>a, <1>f DEF NewTimer, Live, TimerTypeOK
  <1>g. ASSUME NEW t \in Timers, CancelTimerInLoop(t)
        PROVE  \E found \in SUBSET timers_ :
                   timers_' = timers_ \ found /\ Live' = Live \ found
    <2> DEFINE found == {s \in timers_ : s = sequence[t] /\ expiration[s] = index[t]}
    <2>1. /\ timers_' = timers_ \ found
          /\ memory' = [s \in Timers |-> IF s \in found THEN "freed" ELSE memory[s]]
      BY <1>g DEF CancelTimerInLoop
    <2>2. found \in SUBSET timers_
      OBVIOUS
    <2> HIDE DEF found
    <2>3. Live' = Live \ found
      BY <2>1 DEF Live
    <2> QED
      BY <2>1, <2>2, <2>3
  <1> USE DEF timerVars, historyVars, returnVars
  <1>1. ASSUME NEW t \in Timers, NEW when \in 0 .. MaxClock,
               NEW i \in Intervals \union {0}, LoopAdd(t, when, i)
        PROVE  OwnInv'
    <2>1. Live' = Live \union {t} /\ t \notin Live
      BY <1>1, <1>f DEF LoopAdd
    <2>2. timers_' = timers_ \union {t}
      BY <1>1 DEF LoopAdd, AddTimerInLoop
    <2>3. UNCHANGED <<pendingOps, expired, running, timerPc>>
      BY <1>1 DEF LoopAdd
    <2> QED
      BY <1>b, <1>c, <1>d, <1>e, <2>1, <2>2, <2>3
  <1>2. ASSUME NEW t \in Timers, NEW when \in 0 .. MaxClock,
               NEW i \in Intervals \union {0}, ForeignAdd(t, when, i)
        PROVE  OwnInv'
    <2>1. Live' = Live \union {t} /\ t \notin Live
      BY <1>2, <1>f DEF ForeignAdd
    <2> DEFINE o == [op |-> "add", timer |-> t]
    <2>2. o \in Op
      BY DEF Op
    <2>3. AddsOf(pendingOps') = AddsOf(pendingOps) \union {t}
      BY <1>2, <1>a, <2>2, AddsOfAppend DEF ForeignAdd
    <2>4. AddsDistinct(pendingOps')
      <3>1. o.timer \notin AddsOf(pendingOps)
        BY <1>b, <1>c, <2>1
      <3> QED
        BY <1>2, <1>a, <1>e, <2>2, <3>1, AddsDistinctAppend DEF ForeignAdd
    <2>5. UNCHANGED <<timers_, expired, running, timerPc>>
      BY <1>2 DEF ForeignAdd
    <2> HIDE DEF o
    <2> QED
      BY <1>b, <1>c, <1>d, <1>e, <2>1, <2>3, <2>4, <2>5
  <1>3. ASSUME NEW t \in Timers, LoopCancel(t)
        PROVE  OwnInv'
    <2>1. UNCHANGED <<pendingOps, expired, running, timerPc>>
      BY <1>3 DEF LoopCancel
    <2>2. CancelTimerInLoop(t)
      BY <1>3 DEF LoopCancel
    <2> QED
      BY <1>b, <1>c, <1>d, <1>e, <1>g, <2>1, <2>2
  <1>4. ASSUME NEW t \in Timers, ForeignCancel(t)
        PROVE  OwnInv'
    <2> DEFINE o == [op |-> "cancel", timer |-> t]
    <2>1. o \in Op /\ o.op # "add"
      BY DEF Op
    <2>2. pendingOps' = Append(pendingOps, o)
      BY <1>4 DEF ForeignCancel
    <2>3. UNCHANGED <<timers_, expired, running, timerPc, memory>>
      BY <1>4 DEF ForeignCancel
    <2> HIDE DEF o
    <2>4. AddsOf(pendingOps') = AddsOf(pendingOps)
      BY <1>a, <2>1, <2>2, AddsOfAppend
    <2>5. AddsDistinct(pendingOps')
      BY <1>a, <1>e, <2>1, <2>2, AddsDistinctAppend
    <2> QED
      BY <1>b, <1>c, <1>d, <1>e, <2>3, <2>4, <2>5 DEF Live
  <1>5. CASE RunAdd
    <2> DEFINE t == Head(pendingOps).timer
    <2>1. /\ timers_' = timers_ \union {t}
          /\ pendingOps # <<>> /\ Head(pendingOps).op = "add"
          /\ pendingOps' = Tail(pendingOps)
          /\ UNCHANGED <<expired, running, timerPc, memory>>
      BY <1>5 DEF RunAdd, AddTimerInLoop
    <2>2. /\ AddsDistinct(pendingOps')
          /\ t \in AddsOf(pendingOps)
          /\ AddsOf(pendingOps') = AddsOf(pendingOps) \ {t}
      BY <1>a, <1>e, <2>1, AddsOfTail
    <2> HIDE DEF t
    <2> QED
      BY <1>b, <1>c, <1>d, <1>e, <2>1, <2>2 DEF Live
  <1>6. CASE RunCancel
    <2> DEFINE t == Head(pendingOps).timer
    <2>1. /\ CancelTimerInLoop(t)
          /\ pendingOps # <<>> /\ Head(pendingOps).op # "add"
          /\ pendingOps' = Tail(pendingOps)
          /\ UNCHANGED <<expired, running, timerPc>>
      BY <1>6 DEF RunCancel
    <2>2. AddsDistinct(pendingOps') /\ AddsOf(pendingOps') = AddsOf(pendingOps)
      BY <1>a, <1>e, <2>1, AddsOfTail
    <2>3. t \in Timers
      <3>1. Head(pendingOps) \in Op
        BY <1>a, <2>1, HeadTailProperties
      <3> QED
        BY <3>1 DEF Op
    <2> HIDE DEF t
    <2> QED
      BY <1>b, <1>c, <1>d, <1>e, <1>g, <2>1, <2>2, <2>3
  <1>7. CASE PollTimerfd
    <2>1. /\ timerPc = "other" /\ timerPc' = "dispatch"
          /\ UNCHANGED <<pendingOps, timers_, expired, running, memory>>
      BY <1>7 DEF PollTimerfd
    <2> QED
      BY <1>b, <1>c, <1>d, <1>e, <2>1 DEF Live
  <1>8. CASE HandleRead
    <2>1. /\ expired = {} /\ running = {}
          /\ UNCHANGED <<pendingOps, running, memory>>
          /\ timerPc' = "batch"
      BY <1>8, <1>e DEF HandleRead
    <2>2. /\ timers_ = timers_' \union expired'
          /\ timers_' \intersect expired' = {}
      BY <1>8, <1>a DEF HandleRead, TimerTypeOK
    <2> QED
      BY <1>b, <1>c, <1>d, <1>e, <2>1, <2>2 DEF Live
  <1>9. ASSUME NEW t \in Timers, RunTimer(t)
        PROVE  OwnInv'
    <2>1. /\ t \in expired
          /\ running' = {t} /\ expired' = expired \ {t}
          /\ UNCHANGED <<pendingOps, timers_, memory>>
          /\ timerPc = "batch" /\ timerPc' = "callback"
      BY <1>9 DEF RunTimer, IsFirst
    <2> QED
      BY <1>b, <1>c, <1>d, <1>e, <2>1 DEF Live
  <1>10. ASSUME NEW t \in Timers, RestartTimer(t)
         PROVE  OwnInv'
    <2>1. /\ running = {t} /\ running' = {}
          /\ timers_' = timers_ \union {t}
          /\ UNCHANGED <<pendingOps, expired, memory>>
          /\ timerPc' = "batch"
      BY <1>10, <1>e DEF RestartTimer, AddTimerInLoop
    <2> QED
      BY <1>b, <1>c, <1>d, <1>e, <2>1 DEF Live
  <1>11. ASSUME NEW t \in Timers, DeleteTimer(t)
         PROVE  OwnInv'
    <2>1. /\ running = {t} /\ running' = {}
          /\ UNCHANGED <<pendingOps, timers_, expired>>
          /\ timerPc' = "batch"
      BY <1>11, <1>e DEF DeleteTimer
    <2>2. Live' = Live \ {t}
      BY <1>11, <1>a DEF DeleteTimer, Live, TimerTypeOK
    <2> QED
      BY <1>b, <1>c, <1>d, <1>e, <2>1, <2>2
  <1>12. CASE HandleReadDone
    <2>1. /\ expired = {} /\ timerPc = "batch" /\ timerPc' = "other"
          /\ UNCHANGED <<pendingOps, timers_, expired, running, memory>>
      BY <1>12 DEF HandleReadDone
    <2> QED
      BY <1>b, <1>c, <1>d, <1>e, <2>1 DEF Live
  <1>13. CASE Destroy
    <2>1. /\ timerPc = "other" /\ timers_' = {} /\ timerPc' = "destroyed"
          /\ pendingOps' = <<>>
          /\ UNCHANGED <<expired, running>>
      BY <1>13 DEF Destroy
    <2>2. Live' = Live \ (timers_ \union PendingAdds)
      BY <1>13 DEF Destroy, Live
    <2>3. PendingAdds' = {} /\ AddsDistinct(pendingOps')
      BY <2>1, RangeEmpty DEF PendingAdds, AddsDistinct
    <2> QED
      BY <1>b, <1>c, <1>d, <1>e, <2>1, <2>2, <2>3
  <1>14. CASE Tick \/ UNCHANGED queueVars
    <2>1. UNCHANGED <<pendingOps, timers_, expired, running, memory, timerPc>>
      BY <1>14 DEF Tick, queueVars
    <2> QED
      BY <1>b, <1>c, <1>d, <1>e, <2>1 DEF Live
  <1>15. ASSUME NEW t \in Timers, AddReturns(t)
         PROVE  OwnInv'
    <2>1. UNCHANGED <<pendingOps, timers_, expired, running, memory, timerPc>>
      BY <1>15 DEF AddReturns
    <2> QED
      BY <1>b, <1>c, <1>d, <1>e, <2>1 DEF Live
  <1> QED
    BY <1>1, <1>2, <1>3, <1>4, <1>5, <1>6, <1>7, <1>8, <1>9, <1>10, <1>11,
       <1>12, <1>13, <1>14, <1>15 DEF TimerNext, Call, TimerLoopStep

\* An allocated timer is queued to be added, scheduled, expired or running,
\* in one of these only, and a freed one is in none; so the loop never touches
\* a timer after its delete.
THEOREM TimerOwnedOnce == TimerSpec => []OwnedOnce
  <1>1. OwnInv => OwnedOnce
    BY DEF OwnInv
  <1> QED
    BY <1>1, OwnInit, OwnStep, PTL DEF TimerSpec

LEMMA OwnInvariant == TimerSpec => []OwnInv
  BY OwnInit, OwnStep, PTL DEF TimerSpec

-----------------------------------------------------------------------------
(* The timerfd is set for the first timer *)

\* What UpdateTimerfd does to the clock and the timerfd, unless it slips.
LEMMA UpdateTimerfdArms ==
    ASSUME TimerTypeOK, NEW when \in Nat, UpdateTimerfd(when)
    PROVE  /\ clock \in Nat /\ clock' \in Nat /\ clock <= clock'
           /\ ~slipped' => \E d \in timerfd_' : d <= clock' \/ d = when
  <1>1. clock \in Nat
    BY TimerQueueAssumption DEF TimerTypeOK, TimerQueueAssumption
  <1>2. CASE clock < when
    <2>1. PICK reading \in clock .. (clock + MaxSlip) :
              /\ clock' = reading
              /\ slipped' = TRUE \/ timerfd_' = {when}
      BY <1>2 DEF UpdateTimerfd, TimerTypeOK
    <2>2. reading \in Nat /\ clock <= reading
      BY <1>1, TimerQueueAssumption DEF TimerQueueAssumption
    <2>. QED  BY <1>1, <2>1, <2>2
  <1>3. CASE ~(clock < when)
    <2>1. timerfd_' = {clock} /\ clock' = clock
      BY <1>3 DEF UpdateTimerfd, TimerTypeOK
    <2>. QED  BY <1>1, <2>1
  <1>. QED  BY <1>2, <1>3

\* The timerfd has a deadline d that does for the timers of S.
Armed(S) == \E d \in timerfd_ : d <= clock \/ \A t \in S : d <= expiration[t]

\* AddTimerInLoop keeps the timerfd early enough, whichever branch it takes.
LEMMA AddKeepsArmed ==
    ASSUME TimerTypeOK, timers_ # {} /\ ~slipped => Armed(timers_),
           NEW t \in Timers \ timers_, NEW when \in Nat,
           AddTimerInLoop(t, when), expiration'[t] = when,
           \A s \in timers_ : expiration'[s] = expiration[s]
    PROVE  ~slipped' => Armed(timers_)'
  <1>. SUFFICES ASSUME ~slipped' PROVE Armed(timers_)'
    OBVIOUS
  <1>1. timers_' = timers_ \union {t}
    BY DEF AddTimerInLoop
  <1>2. \A s \in timers_ : expiration[s] \in Nat
    BY DEF TimerTypeOK
  <1>3. \A d \in timerfd_ : d \in Nat
    BY DEF TimerTypeOK
  <1>4. CASE \A s \in timers_ : when < expiration[s]
    <2>1. UpdateTimerfd(when)
      BY <1>4 DEF AddTimerInLoop
    <2>2. PICK d \in timerfd_' : d <= clock' \/ d = when
      BY <2>1, UpdateTimerfdArms
    <2>3. d = when => \A s \in timers_' : d <= expiration'[s]
      BY <1>1, <1>2, <1>4
    <2>. QED  BY <2>2, <2>3 DEF Armed
  <1>5. CASE ~ \A s \in timers_ : when < expiration[s]
    <2>1. UNCHANGED <<clock, timerfd_, slipped>>
      BY <1>5 DEF AddTimerInLoop, KeepTimerfd
    <2>2. PICK s \in timers_ : ~(when < expiration[s])
      BY <1>5
    <2>3. PICK d \in timerfd_ : d <= clock \/ \A r \in timers_ : d <= expiration[r]
      BY <2>1, <2>2 DEF Armed
    <2>4. (\A r \in timers_ : d <= expiration[r]) => d <= when
      BY <1>2, <1>3, <2>2
    <2>5. d <= clock' \/ \A r \in timers_' : d <= expiration'[r]
      BY <1>1, <2>1, <2>3, <2>4
    <2>. QED  BY <2>1, <2>5 DEF Armed
  <1>. QED  BY <1>4, <1>5

\* The timerfd stays early enough for fewer timers and at a later time.
LEMMA FewerStayArmed ==
    ASSUME TimerTypeOK, TimerTypeOK', timers_' \subseteq timers_, Armed(timers_),
           timerfd_' = timerfd_, clock <= clock',
           \A s \in timers_' : expiration'[s] = expiration[s]
    PROVE  Armed(timers_)'
  <1>1. PICK d \in timerfd_ : d <= clock \/ \A r \in timers_ : d <= expiration[r]
    BY DEF Armed
  <1>2. d \in Nat /\ clock \in Nat /\ clock' \in Nat
    BY TimerQueueAssumption DEF TimerTypeOK, TimerQueueAssumption
  <1>3. d <= clock' \/ \A r \in timers_' : d <= expiration'[r]
    BY <1>1, <1>2
  <1>. QED  BY <1>3 DEF Armed

\* TimerfdArmed is inductive over OwnInv, which says that the timers in
\* timers_ are allocated: those to come do not change their expirations.
LEMMA ArmedStep == OwnInv /\ TimerfdArmed /\ [TimerNext]_queueVars => TimerfdArmed'
  <1> SUFFICES ASSUME OwnInv, TimerfdArmed, [TimerNext]_queueVars
               PROVE  TimerfdArmed'
    OBVIOUS
  <1> USE DEF timerVars, historyVars, returnVars
  <1>a. TimerTypeOK /\ TimerTypeOK' /\ OwnInv'
    BY OwnStep DEF OwnInv
  <1>b. /\ TimerfdArmed <=> (timerPc \in {"other", "dispatch"} /\ timers_ # {}
                                /\ ~slipped => Armed(timers_))
        /\ TimerfdArmed' <=> (timerPc' \in {"other", "dispatch"} /\ timers_' # {}
                                /\ ~slipped' => Armed(timers_)')
    BY DEF TimerfdArmed, Armed
  <1>c. \A t \in timers_ : t \in Timers /\ memory[t] = "live"
    BY <1>a DEF OwnInv, OwnedOnce
  <1>d. clock \in Nat
    BY <1>a, TimerQueueAssumption DEF TimerTypeOK, TimerQueueAssumption
  \* Steps that leave the timerfd, and what was scheduled, alone.
  <1>e. ASSUME timerPc' \in {"other", "dispatch"} => timerPc \in {"other", "dispatch"},
               timers_' \subseteq timers_,
               UNCHANGED <<timerfd_, slipped>>,
               clock <= clock',
               \A s \in timers_' : expiration'[s] = expiration[s]
        PROVE  TimerfdArmed'
    <2>1. timers_' # {} => timers_ # {}
      BY <1>e
    <2>2. Armed(timers_) => Armed(timers_)'
      BY <1>a, <1>e, FewerStayArmed
    <2>. QED  BY <1>b, <1>e, <2>1, <2>2
  <1>f. ASSUME NEW t \in Timers, NEW when, NEW i, NewTimer(t, when, i)
        PROVE  /\ t \notin timers_ /\ expiration'[t] = when
               /\ \A s \in timers_ : expiration'[s] = expiration[s]
    BY <1>a, <1>c, <1>f DEF NewTimer, TimerTypeOK
  <1>g. clock' = clock => clock <= clock'
    BY <1>d
  <1>1. ASSUME NEW t \in Timers, NEW when \in 0 .. MaxClock,
               NEW i \in Intervals \union {0}, LoopAdd(t, when, i)
        PROVE  TimerfdArmed'
    <2>1. timerPc' = timerPc /\ AddTimerInLoop(t, when) /\ NewTimer(t, when, i)
      BY <1>1 DEF LoopAdd
    <2>2. when \in Nat
      OBVIOUS
    <2>3. CASE timerPc \in {"other", "dispatch"}
      <3>1. timers_ # {} /\ ~slipped => Armed(timers_)
        BY <1>b, <2>3
      <3>2. ~slipped' => Armed(timers_)'
        BY <1>a, <1>f, <2>1, <2>2, <3>1, AddKeepsArmed
      <3>. QED  BY <1>b, <3>2
    <2>4. CASE timerPc \notin {"other", "dispatch"}
      BY <1>b, <2>1, <2>4
    <2>. QED  BY <2>3, <2>4
  <1>2. ASSUME NEW t \in Timers, NEW when \in 0 .. MaxClock,
               NEW i \in Intervals \union {0}, ForeignAdd(t, when, i)
        PROVE  TimerfdArmed'
    <2>1. NewTimer(t, when, i)
      BY <1>2 DEF ForeignAdd
    <2>2. UNCHANGED <<timers_, timerPc, timerfd_, slipped, clock>>
      BY <1>2 DEF ForeignAdd, KeepTimerfd
    <2>. QED  BY <1>e, <1>f, <1>g, <2>1, <2>2
  <1>3. ASSUME NEW t \in Timers, LoopCancel(t) \/ ForeignCancel(t)
        PROVE  TimerfdArmed'
    <2>1. /\ timers_' \subseteq timers_
          /\ UNCHANGED <<timerPc, timerfd_, slipped, clock, expiration>>
      BY <1>3 DEF LoopCancel, ForeignCancel, CancelTimerInLoop, KeepTimerfd
    <2>. QED  BY <1>e, <1>g, <2>1
  <1>4. CASE RunAdd
    <2> DEFINE t == Head(pendingOps).timer
    <2>1. /\ timerPc = "other" /\ UNCHANGED <<timerPc, expiration>>
          /\ AddTimerInLoop(t, expiration[t])
          /\ pendingOps # <<>> /\ Head(pendingOps).op = "add"
      BY <1>4 DEF RunAdd
    <2>2. t \in Timers \ timers_
      <3>1. pendingOps \in Seq(Op)
        BY <1>a DEF TimerTypeOK, Op
      <3>2. Head(pendingOps) \in Op
        BY <2>1, <3>1, HeadTailProperties
      <3>3. t \in PendingAdds
        BY <2>1, <3>1, AddsOfTail DEF PendingAdds, AddsOf, OwnInv
      <3>. QED  BY <3>2, <3>3 DEF Op, OwnInv, OwnedOnce
    <2>3. expiration[t] \in Nat /\ expiration'[t] = expiration[t]
      BY <1>a, <2>1, <2>2 DEF TimerTypeOK
    <2>4. timers_ # {} /\ ~slipped => Armed(timers_)
      BY <1>b, <2>1
    <2> HIDE DEF t
    <2>5. ~slipped' => Armed(timers_)'
      BY <1>a, <2>1, <2>2, <2>3, <2>4, AddKeepsArmed
    <2>. QED  BY <1>b, <2>5
  <1>5. CASE RunCancel
    <2>1. /\ timers_' \subseteq timers_
          /\ UNCHANGED <<timerPc, timerfd_, slipped, clock, expiration>>
      BY <1>5 DEF RunCancel, CancelTimerInLoop, KeepTimerfd
    <2>. QED  BY <1>e, <1>g, <2>1
  <1>6. CASE PollTimerfd
    <2>1. /\ timerPc = "other"
          /\ UNCHANGED <<timers_, timerfd_, slipped, clock, expiration>>
      BY <1>6 DEF PollTimerfd
    <2>. QED  BY <1>e, <1>g, <2>1
  <1>7. ASSUME timerPc' \in {"batch", "callback", "destroyed"}
        PROVE  TimerfdArmed'
    BY <1>b, <1>7
  <1>8. ASSUME \/ HandleRead \/ Destroy
               \/ \E t \in Timers : RunTimer(t) \/ RestartTimer(t) \/ DeleteTimer(t)
        PROVE  TimerfdArmed'
    <2>1. timerPc' \in {"batch", "callback", "destroyed"}
      BY <1>8 DEF HandleRead, Destroy, RunTimer, RestartTimer, DeleteTimer
    <2>. QED  BY <1>7, <2>1
  <1>9. CASE HandleReadDone
    <2>1. UNCHANGED <<timers_, expiration>>
      BY <1>9 DEF HandleReadDone
    <2>2. CASE timers_ = {}
      BY <1>b, <2>1, <2>2
    <2>3. ASSUME NEW t \in timers_, IsFirst(t, timers_),
                 UpdateTimerfd(expiration[t]), ~slipped'
          PROVE  Armed(timers_)'
      <3>1. expiration[t] \in Nat /\ \A s \in timers_ : expiration[s] \in Nat
        BY <1>a DEF TimerTypeOK
      <3>2. PICK d \in timerfd_' : d <= clock' \/ d = expiration[t]
        BY <1>a, <2>3, <3>1, UpdateTimerfdArms
      <3>3. \A s \in timers_ : expiration[t] <= expiration[s]
        BY <2>3, <3>1 DEF IsFirst, Earlier
      <3>4. d <= clock' \/ \A s \in timers_' : d <= expiration'[s]
        BY <2>1, <3>2, <3>3
      <3>. QED  BY <3>2, <3>4 DEF Armed
    <2>. QED  BY <1>9, <1>b, <2>1, <2>2, <2>3 DEF HandleReadDone
  <1>11. ASSUME NEW t \in Timers, AddReturns(t)
         PROVE  TimerfdArmed'
    <2>1. UNCHANGED <<timerPc, timers_, timerfd_, slipped, expiration, clock>>
      BY <1>11 DEF AddReturns, KeepTimerfd
    <2>. QED  BY <1>e, <1>g, <2>1
  <1>10. CASE Tick \/ UNCHANGED queueVars
    <2>1. /\ UNCHANGED <<timerPc, timers_, timerfd_, slipped, expiration>>
          /\ clock <= clock'
      BY <1>10, <1>d DEF Tick, queueVars
    <2>. QED  BY <1>e, <2>1
  <1> QED
    BY <1>1, <1>2, <1>3, <1>4, <1>5, <1>6, <1>8, <1>9, <1>10, <1>11
       DEF TimerNext, Call, TimerLoopStep

\* Outside HandleRead the timerfd has been set for the first timer, or for an
\* earlier time, whoever added or cancelled what in between; unless the two
\* readings of the clock in UpdateTimerfd slipped past that time.
THEOREM TimerfdIsArmed == TimerSpec => []TimerfdArmed
  <1>1. TimerInit => TimerfdArmed
    BY DEF TimerInit, TimerfdArmed
  <1>2. OwnInv /\ TimerfdArmed /\ [TimerNext]_queueVars => TimerfdArmed'
    BY ArmedStep
  <1> QED
    BY <1>1, <1>2, OwnInvariant, PTL DEF TimerSpec

-----------------------------------------------------------------------------
(* When callbacks run *)

\* Of one timer: none of its history before it is created; while it is
\* allocated, a timer without interval has not run until it does; and one that
\* cannot be found by its index, or was cancelled and not found, repeats and
\* has run.
HistoryOf(t) ==
    /\ memory[t] = "none" => runs[t] = 0 /\ cancelled[t] = "no"
    /\ memory[t] = "live" /\ interval[t] = 0 /\ t \notin running => runs[t] = 0
    /\ memory[t] = "live" /\ cancelled[t] = "scheduled" =>
           interval[t] # 0 /\ runs[t] > 0
    /\ memory[t] = "live" /\ expiration[t] # index[t] =>
           interval[t] # 0 /\ runs[t] > 0
    /\ t \in running => runs[t] > 0

\* What RunsWhenDue rests on: the timers of a batch were due when HandleRead
\* read the clock, which has not gone back since.
HistoryInv ==
    /\ \A t \in expired : expiration[t] <= clock
    /\ \A t \in Timers : HistoryOf(t)

\* The number at a timer that has not been deleted is its own: a new timer
\* takes the memory of deleted ones only.
IndexInv ==
    \A t \in Timers : memory[t] \in {"live", "leaked"} => sequence[t] = t

\* What a new timer does to the numbers that are there.
LEMMA NewTimerNumbers ==
    ASSUME TimerTypeOK, IndexInv, NEW t \in Timers, NEW when, NEW i,
           NewTimer(t, when, i)
    PROVE  /\ sequence'[t] = t
           /\ \A s \in Timers \ {t} :
                  /\ memory[s] \in {"live", "leaked"} \/ s \notin adding =>
                         sequence'[s] = sequence[s]
  <1>1. CASE sequence' = [sequence EXCEPT ![t] = t]
    BY <1>1 DEF TimerTypeOK
  <1>2. ASSUME NEW d \in adding, memory[sequence[d]] = "freed",
               sequence' = [s \in Timers |->
                               IF s = t \/ (s \in adding /\ sequence[s] = sequence[d])
                               THEN t ELSE sequence[s]]
        PROVE  /\ sequence'[t] = t
               /\ \A s \in Timers \ {t} :
                      /\ memory[s] \in {"live", "leaked"} \/ s \notin adding =>
                             sequence'[s] = sequence[s]
    BY <1>2 DEF IndexInv
  <1>. QED  BY <1>1, <1>2 DEF NewTimer

LEMMA IndexStep == OwnInv /\ IndexInv /\ [TimerNext]_queueVars => IndexInv'
  <1> SUFFICES ASSUME OwnInv, IndexInv, [TimerNext]_queueVars
               PROVE  IndexInv'
    OBVIOUS
  <1> USE DEF timerVars, historyVars, returnVars
  <1>a. TimerTypeOK
    BY DEF OwnInv
  <1>1. ASSUME NEW t \in Timers, NEW when \in 0 .. MaxClock,
               NEW i \in Intervals \union {0},
               LoopAdd(t, when, i) \/ ForeignAdd(t, when, i)
        PROVE  IndexInv'
    <2>1. NewTimer(t, when, i)
      BY <1>1 DEF LoopAdd, ForeignAdd
    <2>2. \A s \in Timers \ {t} : memory'[s] = memory[s]
      BY <1>a, <2>1 DEF NewTimer, TimerTypeOK
    <2>. QED  BY <1>a, <2>1, <2>2, NewTimerNumbers DEF IndexInv
  \* Of the other steps none changes a number or revives a deleted timer.
  <1>2. ASSUME UNCHANGED sequence,
               \A s \in Timers : \/ memory'[s] = memory[s] \/ memory'[s] = "freed"
                                  \/ memory[s] = "live"
        PROVE  IndexInv'
    BY <1>2 DEF IndexInv
  <1>3. ASSUME NEW t \in Timers, CancelTimerInLoop(t), UNCHANGED sequence
        PROVE  IndexInv'
    BY <1>2, <1>3 DEF CancelTimerInLoop
  <1>4. CASE RunCancel
    <2>1. pendingOps \in Seq(Op) /\ pendingOps # <<>>
      BY <1>4, <1>a DEF RunCancel, TimerTypeOK, Op
    <2>2. Head(pendingOps) \in Op
      BY <2>1, HeadTailProperties
    <2>. QED  BY <1>3, <1>4, <2>2 DEF RunCancel, Op
  <1>5. ASSUME NEW t \in Timers, LoopCancel(t)
        PROVE  IndexInv'
    BY <1>3, <1>5 DEF LoopCancel
  <1>6. ASSUME NEW t \in Timers, DeleteTimer(t)
        PROVE  IndexInv'
    <2>1. \A s \in Timers : memory'[s] = memory[s] \/ memory'[s] = "freed"
      BY <1>6, <1>a DEF DeleteTimer, TimerTypeOK
    <2>. QED  BY <1>2, <1>6, <2>1 DEF DeleteTimer
  <1>7. CASE Destroy
    <2>1. \A s \in Timers : \/ memory'[s] = memory[s] \/ memory'[s] = "freed"
                             \/ s \in PendingAdds
      BY <1>7 DEF Destroy
    <2>2. \A s \in PendingAdds : memory[s] = "live"
      BY DEF OwnInv, OwnedOnce
    <2>. QED  BY <1>2, <1>7, <2>1, <2>2 DEF Destroy
  <1>8. ASSUME \/ \E t \in Timers : \/ ForeignCancel(t) \/ RunTimer(t)
                                    \/ RestartTimer(t) \/ AddReturns(t)
               \/ RunAdd \/ PollTimerfd \/ HandleRead \/ HandleReadDone
               \/ Tick \/ UNCHANGED queueVars
        PROVE  IndexInv'
    <2>1. UNCHANGED <<sequence, memory>>
      BY <1>8 DEF ForeignCancel, RunTimer, RestartTimer, AddReturns, RunAdd,
                  PollTimerfd, HandleRead, HandleReadDone, Tick, queueVars
    <2>. QED  BY <1>2, <2>1
  <1> QED
    BY <1>1, <1>4, <1>5, <1>6, <1>7, <1>8 DEF TimerNext, Call, TimerLoopStep

LEMMA IndexInvariant == TimerSpec => []IndexInv
  <1>1. TimerInit => IndexInv
    BY DEF TimerInit, IndexInv
  <1> QED
    BY <1>1, IndexStep, OwnInvariant, PTL DEF TimerSpec

\* No step turns the clock back.
LEMMA ClockForward ==
    ASSUME TimerTypeOK, [TimerNext]_queueVars
    PROVE  clock \in Nat /\ clock' \in Nat /\ clock <= clock'
  <1> USE TimerQueueAssumption
      DEF TimerQueueAssumption, timerVars, historyVars, returnVars
  <1>1. clock \in Nat
    BY DEF TimerTypeOK
  <1>2. clock' \in Nat
    BY TimerTypeOKStep DEF TimerTypeOK
  <1>3. ASSUME NEW t \in Timers, NEW when \in Nat, AddTimerInLoop(t, when)
        PROVE  clock <= clock'
    BY <1>1, <1>3, UpdateTimerfdArms DEF AddTimerInLoop, KeepTimerfd
  <1>4. ASSUME NEW t \in Timers, NEW when \in 0 .. MaxClock,
               NEW i \in Intervals \union {0},
               LoopAdd(t, when, i) \/ ForeignAdd(t, when, i)
        PROVE  clock <= clock'
    <2>1. when \in Nat
      OBVIOUS
    <2>. QED  BY <1>1, <1>3, <1>4, <2>1 DEF LoopAdd, ForeignAdd, KeepTimerfd
  <1>5. CASE RunAdd
    <2>1. pendingOps \in Seq(Op) /\ pendingOps # <<>>
      BY <1>5 DEF RunAdd, TimerTypeOK, Op
    <2>2. Head(pendingOps) \in Op
      BY <2>1, HeadTailProperties
    <2> DEFINE t == Head(pendingOps).timer
    <2>3. t \in Timers
      BY <2>2 DEF Op
    <2>4. expiration[t] \in Nat
      BY <2>3 DEF TimerTypeOK
    <2>5. UpdateTimerfd(expiration[t]) \/ KeepTimerfd
      BY <1>5 DEF RunAdd, AddTimerInLoop
    <2> HIDE DEF t
    <2>6. CASE UpdateTimerfd(expiration[t])
      BY <1>1, <2>4, <2>6, UpdateTimerfdArms
    <2>7. CASE KeepTimerfd
      BY <1>1, <2>7 DEF KeepTimerfd
    <2>. QED  BY <2>5, <2>6, <2>7
  <1>6. ASSUME NEW t \in Timers, RestartTimer(t)
        PROVE  clock <= clock'
    <2>1. interval[t] \in Intervals \union {0} /\ now \in 0 .. MaxClock
      BY DEF TimerTypeOK
    <2>2. interval[t] \in Nat
      <3>1. \A i \in Intervals \union {0} : i \in Nat
        OBVIOUS
      <3>. QED  BY <2>1, <3>1, Zenon
    <2>3. now \in Nat
      BY <2>1
    <2>4. now + interval[t] \in Nat
      BY <2>2, <2>3
    <2> DEFINE when == now + interval[t]
    <2>5. AddTimerInLoop(t, when)
      BY <1>6 DEF RestartTimer
    <2> HIDE DEF when
    <2>6. UpdateTimerfd(when) \/ KeepTimerfd
      BY <2>5 DEF AddTimerInLoop
    <2>7. when \in Nat
      BY <2>4 DEF when
    <2>8. CASE UpdateTimerfd(when)
      BY <1>1, <2>7, <2>8, UpdateTimerfdArms
    <2>9. CASE KeepTimerfd
      BY <1>1, <2>9 DEF KeepTimerfd
    <2>. QED  BY <2>6, <2>8, <2>9
  <1>7. CASE HandleReadDone
    <2>1. ASSUME NEW t \in timers_, UpdateTimerfd(expiration[t])
          PROVE  clock <= clock'
      <3>1. expiration[t] \in Nat
        BY DEF TimerTypeOK
      <3>. QED  BY <2>1, <3>1, UpdateTimerfdArms
    <2>2. KeepTimerfd => clock <= clock'
      BY <1>1 DEF KeepTimerfd
    <2>3. CASE KeepTimerfd
      BY <1>1, <1>2, <2>2, <2>3
    <2>4. CASE \E t \in timers_ : UpdateTimerfd(expiration[t])
      BY <1>1, <1>2, <2>1, <2>4
    <2>. QED  BY <1>7, <2>3, <2>4 DEF HandleReadDone
  <1>8. CASE Tick
    BY <1>1, <1>8 DEF Tick
  <1>9. ASSUME UNCHANGED clock
        PROVE  clock <= clock'
    BY <1>1, <1>9
  <1>10. ASSUME \/ \E t \in Timers : \/ LoopCancel(t) \/ ForeignCancel(t)
                                     \/ RunTimer(t) \/ DeleteTimer(t)
                                     \/ AddReturns(t)
                \/ RunCancel \/ HandleRead \/ PollTimerfd \/ Destroy
                \/ UNCHANGED queueVars
         PROVE  UNCHANGED clock
    BY <1>10 DEF LoopCancel, ForeignCancel, RunTimer, DeleteTimer, RunCancel,
                 HandleRead, PollTimerfd, Destroy, AddReturns, KeepTimerfd,
                 queueVars
  <1> QED
    BY <1>1, <1>2, <1>4, <1>5, <1>6, <1>7, <1>8, <1>9, <1>10
       DEF TimerNext, Call, TimerLoopStep

LEMMA HistoryStep ==
    OwnInv /\ IndexInv /\ HistoryInv /\ [TimerNext]_queueVars => HistoryInv'
  <1> SUFFICES ASSUME OwnInv, IndexInv, HistoryInv, [TimerNext]_queueVars
               PROVE  HistoryInv'
    OBVIOUS
  <1> USE DEF timerVars, historyVars, returnVars
  <1>a. TimerTypeOK /\ TimerTypeOK'
    BY TimerTypeOKStep DEF OwnInv
  <1>b. clock \in Nat /\ clock' \in Nat /\ clock <= clock'
    BY <1>a, ClockForward
  <1>c. /\ \A t \in timers_ \union expired \union running :
               t \in Timers /\ memory[t] = "live"
        /\ expired # {} => timerPc \in {"batch", "callback"}
        /\ running # {} => timerPc = "callback"
        /\ \A s, t \in running : s = t
        /\ expired \intersect running = {}
    BY <1>a DEF OwnInv, OwnedOnce
  <1>d. \A t \in Timers : expiration[t] \in Nat /\ expiration'[t] \in Nat
    BY <1>a DEF TimerTypeOK
  \* The first half, for a step that takes nothing new into the batch.
  <1>e. ASSUME expired' \subseteq expired,
               \A t \in expired : expiration'[t] = expiration[t]
        PROVE  \A t \in expired' : expiration'[t] <= clock'
    BY <1>b, <1>c, <1>d, <1>e DEF HistoryInv
  \* The second half, for the timers that a step leaves alone.
  <1>f. ASSUME NEW t \in Timers, HistoryOf(t),
               expiration'[t] = expiration[t], index'[t] = index[t],
               interval'[t] = interval[t], memory'[t] = memory[t],
               runs'[t] = runs[t], cancelled'[t] = cancelled[t],
               t \in running' <=> t \in running
        PROVE  HistoryOf(t)'
    BY <1>f DEF HistoryOf
  <1>g. \A t \in Timers : HistoryOf(t)
    BY DEF HistoryInv
  <1>h. ASSUME NEW t \in Timers, NEW when, NEW i, NewTimer(t, when, i),
               UNCHANGED <<expired, running, historyVars>>
        PROVE  HistoryInv'
    <2>1. /\ memory[t] = "none" /\ memory'[t] = "live"
          /\ expiration'[t] = when /\ index'[t] = when
          /\ \A s \in Timers \ {t} :
                 /\ expiration'[s] = expiration[s] /\ index'[s] = index[s]
                 /\ interval'[s] = interval[s] /\ memory'[s] = memory[s]
      BY <1>a, <1>h DEF NewTimer, TimerTypeOK
    <2>2. \A s \in expired : expiration'[s] = expiration[s]
      BY <1>c, <2>1
    <2>3. HistoryOf(t)'
      BY <1>c, <1>g, <1>h, <2>1 DEF HistoryOf
    <2>4. \A s \in Timers \ {t} : HistoryOf(s)'
      BY <1>f, <1>g, <1>h, <2>1
    <2>. QED  BY <1>e, <1>h, <2>2, <2>3, <2>4 DEF HistoryInv
  <1>i. ASSUME NEW t \in Timers, CancelTimerInLoop(t),
               UNCHANGED <<expired, running, expiration, index, interval, runs>>
        PROVE  HistoryInv'
    <2>1. /\ \A s \in Timers \ {t} : cancelled'[s] = cancelled[s]
          /\ cancelled'[t] = IF t \in timers_ THEN "scheduled"
                             ELSE IF t \in expired \union running
                                  THEN "expired"
                             ELSE cancelled[t]
      BY <1>a, <1>i DEF CancelTimerInLoop, NoteCancel, TimerTypeOK
    <2> DEFINE found == {s \in timers_ : s = sequence[t] /\ expiration[s] = index[t]}
    <2>2. \A s \in Timers : memory'[s] = IF s \in found THEN "freed" ELSE memory[s]
      BY <1>i DEF CancelTimerInLoop
    <2>3. t \in timers_ /\ expiration[t] = index[t] => t \in found
      BY <1>c DEF IndexInv
    <2>4. \A s \in found : s \notin running
      BY DEF OwnInv, OwnedOnce
    <2> HIDE DEF found
    <2>5. HistoryOf(t)'
      <3>1. HistoryOf(t)
        BY <1>g
      <3>2. CASE t \in found
        BY <1>i, <2>2, <2>4, <3>2 DEF HistoryOf
      <3>3. CASE t \notin found /\ t \in timers_
        BY <1>c, <1>i, <2>1, <2>2, <2>3, <3>1, <3>3 DEF HistoryOf
      <3>4. CASE t \notin found /\ t \notin timers_ /\ t \in expired \union running
        BY <1>c, <1>i, <2>1, <2>2, <3>1, <3>4 DEF HistoryOf
      <3>5. CASE t \notin found /\ t \notin timers_ /\ t \notin expired \union running
        BY <1>i, <2>1, <2>2, <3>1, <3>5 DEF HistoryOf
      <3>. QED  BY <3>2, <3>3, <3>4, <3>5
    <2>6. ASSUME NEW s \in Timers \ {t}
          PROVE  HistoryOf(s)'
      <3>1. CASE s \in found
        BY <1>i, <2>2, <2>4, <3>1 DEF HistoryOf
      <3>2. CASE s \notin found
        BY <1>f, <1>g, <1>i, <2>1, <2>2, <3>2
      <3>. QED  BY <3>1, <3>2
    <2>. QED  BY <1>e, <1>i, <2>5, <2>6 DEF HistoryInv
  <1>1. ASSUME NEW t \in Timers, NEW when \in 0 .. MaxClock,
               NEW i \in Intervals \union {0},
               LoopAdd(t, when, i) \/ ForeignAdd(t, when, i)
        PROVE  HistoryInv'
    BY <1>1, <1>h DEF LoopAdd, ForeignAdd
  <1>2. ASSUME NEW t \in Timers, LoopCancel(t)
        PROVE  HistoryInv'
    BY <1>2, <1>i DEF LoopCancel
  <1>3. CASE RunCancel
    <2>1. pendingOps \in Seq(Op) /\ pendingOps # <<>>
      BY <1>3, <1>a DEF RunCancel, TimerTypeOK, Op
    <2>2. Head(pendingOps) \in Op
      BY <2>1, HeadTailProperties
    <2>3. Head(pendingOps).timer \in Timers
      BY <2>2 DEF Op
    <2>. QED  BY <1>3, <1>i, <2>3 DEF RunCancel
  \* Steps that concern no timer, or only where it is scheduled.
  <1>4. ASSUME UNCHANGED <<expired, running, expiration, index, interval,
                           memory, runs, cancelled>>
        PROVE  HistoryInv'
    BY <1>4, <1>e, <1>f, <1>g DEF HistoryInv
  <1>5. ASSUME \/ \E t \in Timers : ForeignCancel(t) \/ AddReturns(t)
               \/ RunAdd \/ PollTimerfd \/ HandleReadDone \/ Tick \/ UNCHANGED queueVars
        PROVE  HistoryInv'
    <2>1. UNCHANGED <<expired, running, expiration, index, interval,
                      memory, runs, cancelled>>
      BY <1>5 DEF ForeignCancel, AddReturns, RunAdd, PollTimerfd, HandleReadDone,
                  Tick, queueVars
    <2>. QED  BY <1>4, <2>1
  <1>6. CASE HandleRead
    <2>1. /\ \A t \in expired' : expiration[t] <= clock
          /\ UNCHANGED <<running, clock, expiration, index, interval, memory,
                         runs, cancelled>>
      BY <1>6 DEF HandleRead
    <2>. QED  BY <1>f, <1>g, <2>1 DEF HistoryInv
  <1>7. ASSUME NEW t \in Timers, RunTimer(t)
        PROVE  HistoryInv'
    <2>1. /\ t \in expired /\ expired' = expired \ {t}
          /\ running = {} /\ running' = {t}
          /\ UNCHANGED <<expiration, index, interval, memory, cancelled>>
      BY <1>7, <1>c DEF RunTimer, IsFirst
    <2>2. /\ runs'[t] > 0 /\ \A s \in Timers \ {t} : runs'[s] = runs[s]
      <3> DEFINE once == IF runs[t] < 2 THEN runs[t] + 1 ELSE 2
      <3>0. runs[t] \in 0 .. 2
        BY <1>a DEF TimerTypeOK
      <3>1. runs \in [Timers -> 0 .. 2] /\ once > 0
        <4>1. once > 0
          BY <3>0
        <4>2. runs \in [Timers -> 0 .. 2]
          BY <1>a DEF TimerTypeOK
        <4>. QED  BY <4>1, <4>2
      <3>2. runs' = [runs EXCEPT ![t] = once]
        BY <1>7 DEF RunTimer
      <3> HIDE DEF once
      <3>. QED  BY <3>1, <3>2
    <2>3. HistoryOf(t)'
      <3>1. memory[t] = "live"
        BY <1>c, <2>1
      <3>2. cancelled[t] = "scheduled" => interval[t] # 0
        BY <1>g, <3>1 DEF HistoryOf
      <3>3. expiration[t] # index[t] => interval[t] # 0
        BY <1>g, <3>1 DEF HistoryOf
      <3>. QED  BY <2>1, <2>2, <3>1, <3>2, <3>3 DEF HistoryOf
    <2>4. \A s \in Timers \ {t} : HistoryOf(s)'
      BY <1>f, <1>g, <2>1, <2>2
    <2>. QED  BY <1>e, <2>1, <2>3, <2>4 DEF HistoryInv
  <1>8. ASSUME NEW t \in Timers, RestartTimer(t)
        PROVE  HistoryInv'
    <2>1. /\ running = {t} /\ running' = {} /\ interval[t] # 0
          /\ expired' = expired
          /\ \A s \in Timers \ {t} : expiration'[s] = expiration[s]
          /\ UNCHANGED <<index, interval, memory, runs, cancelled>>
      BY <1>8, <1>a, <1>c DEF RestartTimer, TimerTypeOK
    <2>2. HistoryOf(t)'
      <3>1. memory[t] = "live" /\ runs[t] > 0
        BY <1>c, <1>g, <2>1 DEF HistoryOf
      <3>. QED  BY <2>1, <3>1 DEF HistoryOf
    <2>3. \A s \in Timers \ {t} : HistoryOf(s)'
      BY <1>f, <1>g, <2>1
    <2>4. \A s \in expired : expiration'[s] = expiration[s]
      BY <1>c, <2>1
    <2>. QED  BY <1>e, <2>1, <2>2, <2>3, <2>4 DEF HistoryInv
  <1>9. ASSUME NEW t \in Timers, DeleteTimer(t)
        PROVE  HistoryInv'
    <2>1. /\ running = {t} /\ running' = {}
          /\ memory'[t] = "freed"
          /\ \A s \in Timers \ {t} : memory'[s] = memory[s]
          /\ UNCHANGED <<expired, expiration, index, interval, runs, cancelled>>
      BY <1>9, <1>a, <1>c DEF DeleteTimer, TimerTypeOK
    <2>2. HistoryOf(t)'
      BY <1>g, <2>1 DEF HistoryOf
    <2>3. \A s \in Timers \ {t} : HistoryOf(s)'
      BY <1>f, <1>g, <2>1
    <2>. QED  BY <1>e, <2>1, <2>2, <2>3 DEF HistoryInv
  <1>10. CASE Destroy
    <2>1. /\ \A s \in Timers : memory'[s] \in {"freed", "leaked", memory[s]}
          /\ running = {} /\ running' = {}
          /\ UNCHANGED <<expired, expiration, index, interval, runs, cancelled>>
      BY <1>10, <1>c DEF Destroy
    <2>2. \A s \in Timers : HistoryOf(s)'
      BY <1>c, <1>g, <2>1 DEF HistoryOf
    <2>. QED  BY <1>e, <2>1, <2>2 DEF HistoryInv
  <1> QED
    BY <1>1, <1>2, <1>3, <1>5, <1>6, <1>7, <1>8, <1>9, <1>10
       DEF TimerNext, Call, TimerLoopStep

\* No callback runs before its time, one without interval runs once, and a
\* timer that was found by its cancellation never runs again.
THEOREM CallbacksRunWhenDue == TimerSpec => RunsWhenDue
  <1> DEFINE Step(t) ==
          runs'[t] # runs[t] =>
              /\ expiration[t] <= clock
              /\ interval[t] = 0 => runs[t] = 0
              /\ cancelled[t] = "scheduled" => interval[t] # 0 /\ runs[t] > 0
  <1>1. TimerInit => HistoryInv
    BY DEF TimerInit, HistoryInv, HistoryOf
  <1>2. OwnInv /\ IndexInv /\ HistoryInv /\ [TimerNext]_queueVars => HistoryInv'
    BY HistoryStep
  <1>3. OwnInv /\ HistoryInv /\ [TimerNext]_queueVars => [\A t \in Timers : Step(t)]_queueVars
    <2> SUFFICES ASSUME OwnInv, HistoryInv, TimerNext, NEW t \in Timers
                 PROVE  Step(t)
      OBVIOUS
    <2> USE DEF timerVars, historyVars, returnVars
    <2>1. ASSUME NEW s \in Timers, RunTimer(s)
          PROVE  Step(t)
      <3>1. s \in expired /\ runs' = [runs EXCEPT ![s] = IF @ < 2 THEN @ + 1 ELSE 2]
        BY <2>1 DEF RunTimer, IsFirst
      <3>2. CASE t = s
        <4>1. memory[t] = "live" /\ t \notin running
          BY <3>1, <3>2 DEF OwnInv, OwnedOnce
        <4>. QED  BY <3>1, <3>2, <4>1 DEF HistoryInv, HistoryOf
      <3>3. CASE t # s
        BY <3>1, <3>3 DEF OwnInv, TimerTypeOK
      <3>. QED  BY <3>2, <3>3
    <2>2. ASSUME runs' = runs
          PROVE  Step(t)
      BY <2>2
    <2>3. (\A s \in Timers : ~RunTimer(s)) => runs' = runs
      BY DEF TimerNext, Call, TimerLoopStep, LoopAdd, ForeignAdd, LoopCancel,
             ForeignCancel, RunAdd, RunCancel, HandleRead, HandleReadDone,
             RestartTimer, DeleteTimer, PollTimerfd, Destroy, Tick, AddReturns
    <2>. QED  BY <2>1, <2>2, <2>3
  <1> QED
    BY <1>1, <1>2, <1>3, OwnInvariant, IndexInvariant, PTL DEF TimerSpec, RunsWhenDue

-----------------------------------------------------------------------------
(* Numbers read too late *)

\* Why the memory of a timer that AddTimer() is to read, or has read, is freed.
Explained(t) ==
    \/ interval[t] = 0 /\ runs[t] > 0
    \/ timerPc = "destroyed"
    \/ \E s \in stale \ {t} : sequence[s] = t

\* Of one timer: an AddTimer() that has not returned is one of a timer that was
\* created; what was read too late is deleted; an index that was read in time
\* has the timer's number; and what is deleted early is so for a reason.
NumberOf(t) ==
    /\ t \in adding => memory[t] # "none"
    /\ t \in stale => memory[t] = "freed" /\ t \notin adding
    /\ memory[t] # "none" /\ t \notin adding \union stale => sequence[t] = t
    /\ t \in adding \union stale /\ memory[t] = "freed" => Explained(t)

\* The cancellations in the queue have an index that AddTimer() has returned.
NumberInv ==
    /\ \A t \in Timers : NumberOf(t)
    /\ \A op \in Range(pendingOps) :
           op.op = "cancel" => op.timer \in Created \ adding

\* A reason stays one.
LEMMA ExplainedStays ==
    ASSUME TimerTypeOK, NEW t \in Timers, Explained(t),
           interval'[t] = interval[t], runs[t] > 0 => runs'[t] > 0,
           timerPc = "destroyed" => timerPc' = "destroyed",
           stale \subseteq stale', \A s \in stale : sequence'[s] = sequence[s]
    PROVE  Explained(t)'
  BY DEF Explained

\* Cancellations stay behind what was returned.
LEMMA CancelsReturned ==
    ASSUME NEW S, NEW S1, S \subseteq S1, NEW ops, NEW ops1,
           \A op \in Range(ops) : op.op = "cancel" => op.timer \in S,
           \A op \in Range(ops1) :
               op \in Range(ops) \/ op.op # "cancel" \/ op.timer \in S1
    PROVE  \A op \in Range(ops1) : op.op = "cancel" => op.timer \in S1
  OBVIOUS

LEMMA NumberStep ==
    OwnInv /\ IndexInv /\ HistoryInv /\ NumberInv /\ [TimerNext]_queueVars
        => NumberInv'
  <1> SUFFICES ASSUME OwnInv, IndexInv, HistoryInv, NumberInv, [TimerNext]_queueVars
               PROVE  NumberInv'
    OBVIOUS
  <1> USE DEF timerVars, historyVars, returnVars
  <1>a. TimerTypeOK /\ TimerTypeOK' /\ pendingOps \in Seq(Op)
    BY TimerTypeOKStep DEF OwnInv, TimerTypeOK, Op
  <1>b. \A t \in Timers : NumberOf(t)
    BY DEF NumberInv
  <1>c. \A op \in Range(pendingOps) : op.op = "cancel" => op.timer \in Created \ adding
    BY DEF NumberInv
  <1>d. adding \subseteq Timers /\ stale \subseteq Timers
    BY <1>a DEF TimerTypeOK
  <1>e. \A t \in PendingAdds \union timers_ \union expired \union running :
            t \in Timers /\ memory[t] = "live"
    BY <1>a DEF OwnInv, OwnedOnce
  \* Steps that leave the numbers alone and free a timer for a reason only.
  <1>f. ASSUME UNCHANGED <<adding, stale, sequence>>,
               \A t \in Timers : /\ interval'[t] = interval[t]
                                 /\ runs[t] > 0 => runs'[t] > 0
                                 /\ memory'[t] = "none" <=> memory[t] = "none",
               \A t \in Timers :
                   memory[t] # memory'[t] /\ t \in adding => Explained(t)',
               \A t \in Timers : memory[t] = "freed" => memory'[t] = "freed",
               timerPc = "destroyed" => timerPc' = "destroyed"
        PROVE  \A t \in Timers : NumberOf(t)'
    <2> SUFFICES ASSUME NEW t \in Timers PROVE NumberOf(t)'
      OBVIOUS
    <2>1. Explained(t) => Explained(t)'
      BY <1>a, <1>f, ExplainedStays
    <2>2. NumberOf(t)
      BY <1>b
    <2>. QED  BY <1>f, <2>1, <2>2 DEF NumberOf
  \* The second half, for what steps do to the queue of functors.
  <1>g. ASSUME Created \ adding \subseteq (Created \ adding)',
               \A op \in Range(pendingOps') :
                   \/ op \in Range(pendingOps) \/ op.op # "cancel"
                   \/ op.timer \in (Created \ adding)'
        PROVE  \A op \in Range(pendingOps') :
                   op.op = "cancel" => op.timer \in (Created \ adding)'
    BY <1>c, <1>g
  <1>h. ASSUME UNCHANGED <<adding, stale, sequence, interval, runs, memory>>,
               \/ timerPc # "destroyed" /\ timerPc' # "destroyed"
               \/ timerPc' = timerPc,
               Range(pendingOps') \subseteq Range(pendingOps)
        PROVE  NumberInv'
    <2>1. \A t \in Timers : NumberOf(t)'
      BY <1>f, <1>h
    <2>2. Created' = Created
      BY <1>h DEF Created
    <2>. QED  BY <1>g, <1>h, <2>1, <2>2 DEF NumberInv
  <1>1. ASSUME NEW t \in Timers, NEW when \in 0 .. MaxClock,
               NEW i \in Intervals \union {0},
               LoopAdd(t, when, i) \/ ForeignAdd(t, when, i)
        PROVE  NumberInv'
    <2>1. /\ NewTimer(t, when, i)
          /\ UNCHANGED <<stale, runs, timerPc>>
          /\ adding' = adding \/ adding' = adding \union {t}
      BY <1>1 DEF LoopAdd, ForeignAdd
    <2>2. /\ memory[t] = "none" /\ memory'[t] = "live"
          /\ \A s \in Timers \ {t} :
                 memory'[s] = memory[s] /\ interval'[s] = interval[s]
      BY <1>a, <2>1 DEF NewTimer, TimerTypeOK
    <2>3. /\ sequence'[t] = t
          /\ \A s \in Timers \ {t} : s \notin adding => sequence'[s] = sequence[s]
      BY <1>a, <2>1, NewTimerNumbers
    <2>4. t \notin adding /\ t \notin stale /\ stale \intersect adding = {}
      BY <1>b, <1>d, <2>2 DEF NumberOf
    <2>5. NumberOf(t)'
      BY <2>1, <2>2, <2>3, <2>4 DEF NumberOf
    <2>6. ASSUME NEW s \in Timers \ {t}
          PROVE  NumberOf(s)'
      <3>1. \A r \in stale : sequence'[r] = sequence[r]
        BY <1>d, <2>3, <2>4
      <3>2. Explained(s) => Explained(s)'
        BY <1>a, <2>1, <2>2, <3>1, ExplainedStays
      <3>3. NumberOf(s)
        BY <1>b
      <3>. QED  BY <2>1, <2>2, <2>3, <3>2, <3>3 DEF NumberOf
    <2>7. Created \ adding \subseteq (Created \ adding)'
      BY <2>1, <2>2 DEF Created
    <2>8. \A op \in Range(pendingOps') :
              op \in Range(pendingOps) \/ op.op # "cancel"
      <3>1. CASE pendingOps' = pendingOps
        BY <3>1
      <3>2. CASE pendingOps' = Append(pendingOps, [op |-> "add", timer |-> t])
        <4>1. [op |-> "add", timer |-> t] \in Op
          BY DEF Op
        <4>. QED  BY <1>a, <3>2, <4>1, RangeAppend
      <3>. QED  BY <1>1, <3>1, <3>2 DEF LoopAdd, ForeignAdd
    <2>. QED  BY <1>g, <2>5, <2>6, <2>7, <2>8 DEF NumberInv
  <1>2. ASSUME NEW t \in Timers, AddReturns(t)
        PROVE  NumberInv'
    <2>1. /\ t \in adding /\ adding' = adding \ {t}
          /\ stale' = IF memory[t] = "freed" THEN stale \union {t} ELSE stale
          /\ UNCHANGED <<sequence, interval, runs, memory, timerPc, pendingOps>>
      BY <1>2 DEF AddReturns
    <2>2. memory[t] # "none" /\ memory[t] # "freed" => memory[t] \in {"live", "leaked"}
      BY <1>a DEF TimerTypeOK
    <2>3. ASSUME NEW s \in Timers
          PROVE  NumberOf(s)'
      <3>1. Explained(s) => Explained(s)'
        BY <1>a, <2>1, ExplainedStays
      <3>2. NumberOf(s) /\ NumberOf(t)
        BY <1>b
      <3>3. memory[t] # "none" /\ memory[t] # "freed" => sequence[t] = t
        BY <2>2 DEF IndexInv
      <3>. QED  BY <2>1, <3>1, <3>2, <3>3 DEF NumberOf
    <2>4. Created \ adding \subseteq (Created \ adding)'
      BY <2>1 DEF Created
    <2>. QED  BY <1>g, <2>1, <2>3, <2>4 DEF NumberInv
  \* A timer that a cancellation deletes has got into another one's index.
  <1>3. ASSUME NEW t \in Created \ adding, CancelTimerInLoop(t),
               UNCHANGED <<adding, stale, sequence, interval, runs, timerPc>>
        PROVE  /\ \A s \in Timers : NumberOf(s)'
               /\ Created' = Created
    <2> DEFINE found == {s \in timers_ : s = sequence[t] /\ expiration[s] = index[t]}
    <2>1. \A s \in Timers : memory'[s] = IF s \in found THEN "freed" ELSE memory[s]
      BY <1>3 DEF CancelTimerInLoop
    <2>2. \A s \in found : s \in Timers /\ memory[s] = "live" /\ sequence[t] = s
      BY <1>e
    <2> HIDE DEF found
    <2>3. t \in Timers /\ memory[t] # "none"
      BY DEF Created
    <2>4. \A s \in found \intersect adding : Explained(s)'
      <3>1. \A s \in found \intersect adding : s # t
        BY <1>3
      <3>2. \A s \in found \intersect adding : t \in stale
        BY <1>b, <1>3, <2>2, <2>3, <3>1 DEF NumberOf
      <3>. QED  BY <1>3, <2>2, <3>1, <3>2 DEF Explained
    <2>5. \A s \in Timers : NumberOf(s)'
      BY <1>f, <1>3, <2>1, <2>2, <2>4
    <2>6. Created' = Created
      BY <2>1, <2>2 DEF Created
    <2>. QED  BY <2>5, <2>6
  <1>4. ASSUME NEW t \in Timers, LoopCancel(t)
        PROVE  NumberInv'
    <2>1. /\ t \in Created \ adding /\ CancelTimerInLoop(t)
          /\ UNCHANGED <<adding, stale, sequence, interval, runs, timerPc, pendingOps>>
      BY <1>4 DEF LoopCancel
    <2>. QED  BY <1>3, <1>g, <2>1 DEF NumberInv
  <1>5. CASE RunCancel
    <2> DEFINE o == Head(pendingOps)
    <2>1. /\ pendingOps # <<>> /\ o.op = "cancel" /\ CancelTimerInLoop(o.timer)
          /\ pendingOps' = Tail(pendingOps)
          /\ UNCHANGED <<adding, stale, sequence, interval, runs, timerPc>>
      BY <1>5 DEF RunCancel
    <2>2. Range(pendingOps) = {o} \union Range(pendingOps')
      BY <1>a, <2>1, RangeHeadTail
    <2> HIDE DEF o
    <2>3. o.timer \in Created \ adding
      BY <1>c, <2>1, <2>2
    <2>4. Created' = Created /\ \A s \in Timers : NumberOf(s)'
      BY <1>3, <2>1, <2>3
    <2>. QED  BY <1>g, <2>1, <2>2, <2>4 DEF NumberInv
  <1>6. ASSUME NEW t \in Timers, ForeignCancel(t)
        PROVE  NumberInv'
    <2> DEFINE o == [op |-> "cancel", timer |-> t]
    <2>1. /\ t \in Created \ adding /\ pendingOps' = Append(pendingOps, o)
          /\ UNCHANGED <<adding, stale, sequence, interval, runs, memory, timerPc>>
      BY <1>6 DEF ForeignCancel
    <2>2. o \in Op /\ o.timer = t
      BY DEF Op
    <2> HIDE DEF o
    <2>3. Range(pendingOps') = Range(pendingOps) \union {o}
      BY <1>a, <2>1, <2>2, RangeAppend
    <2>4. \A s \in Timers : NumberOf(s)'
      BY <1>f, <2>1
    <2>5. Created' = Created
      BY <2>1 DEF Created
    <2>. QED  BY <1>g, <2>1, <2>2, <2>3, <2>4, <2>5 DEF NumberInv
  <1>7. ASSUME NEW t \in Timers, RunTimer(t)
        PROVE  NumberInv'
    <2>1. UNCHANGED <<adding, stale, sequence, interval, memory, pendingOps>>
      BY <1>7 DEF RunTimer
    <2>2. timerPc # "destroyed"
      BY <1>7 DEF RunTimer
    <2>3. \A s \in Timers : runs[s] > 0 => runs'[s] > 0
      <3> DEFINE once == IF runs[t] < 2 THEN runs[t] + 1 ELSE 2
      <3>1. runs \in [Timers -> 0 .. 2]
        BY <1>a DEF TimerTypeOK
      <3>2. once > 0
        BY <3>1
      <3>3. runs' = [runs EXCEPT ![t] = once]
        BY <1>7 DEF RunTimer
      <3> HIDE DEF once
      <3>. QED  BY <3>1, <3>2, <3>3
    <2>4. \A s \in Timers : NumberOf(s)'
      BY <1>f, <2>1, <2>2, <2>3
    <2>5. Created' = Created
      BY <2>1 DEF Created
    <2>. QED  BY <1>g, <2>1, <2>4, <2>5 DEF NumberInv
  <1>8. ASSUME NEW t \in Timers, DeleteTimer(t)
        PROVE  NumberInv'
    <2>1. /\ t \in running /\ interval[t] = 0 /\ timerPc # "destroyed"
          /\ memory'[t] = "freed"
          /\ \A s \in Timers \ {t} : memory'[s] = memory[s]
          /\ UNCHANGED <<adding, stale, sequence, interval, runs, pendingOps>>
      BY <1>8, <1>a DEF DeleteTimer, TimerTypeOK
    <2>2. memory[t] = "live" /\ runs[t] > 0
      BY <1>e, <2>1 DEF HistoryInv, HistoryOf
    <2>3. Explained(t)'
      BY <2>1, <2>2 DEF Explained
    <2>4. \A s \in Timers : NumberOf(s)'
      BY <1>f, <2>1, <2>2, <2>3
    <2>5. Created' = Created
      BY <2>1, <2>2 DEF Created
    <2>. QED  BY <1>g, <2>1, <2>4, <2>5 DEF NumberInv
  <1>9. CASE Destroy
    <2>1. /\ \A s \in Timers :
                 \/ s \in timers_ \union PendingAdds /\ memory'[s] \in {"freed", "leaked"}
                 \/ memory'[s] = memory[s]
          /\ timerPc' = "destroyed" /\ pendingOps' = <<>>
          /\ UNCHANGED <<adding, stale, sequence, interval, runs>>
      BY <1>9 DEF Destroy
    <2>2. \A s \in Timers : Explained(s)'
      BY <2>1 DEF Explained
    <2>3. \A s \in Timers : NumberOf(s)'
      BY <1>e, <1>f, <2>1, <2>2
    <2>4. Range(pendingOps') = {}
      BY <2>1, RangeEmpty
    <2>. QED  BY <2>3, <2>4 DEF NumberInv
  <1>10. CASE RunAdd
    <2>1. /\ pendingOps # <<>> /\ pendingOps' = Tail(pendingOps)
          /\ UNCHANGED <<adding, stale, sequence, interval, runs, memory, timerPc>>
      BY <1>10 DEF RunAdd
    <2>2. Range(pendingOps') \subseteq Range(pendingOps)
      BY <1>a, <2>1, RangeHeadTail
    <2>. QED  BY <1>h, <2>1, <2>2
  <1>11. ASSUME \/ \E t \in Timers : RestartTimer(t)
                \/ PollTimerfd \/ HandleRead \/ HandleReadDone
                \/ Tick \/ UNCHANGED queueVars
         PROVE  NumberInv'
    <2>1. /\ UNCHANGED <<adding, stale, sequence, interval, runs, memory, pendingOps>>
          /\ \/ timerPc # "destroyed" /\ timerPc' # "destroyed"
             \/ timerPc' = timerPc
      BY <1>11 DEF RestartTimer, PollTimerfd, HandleRead, HandleReadDone, Tick, queueVars
    <2>. QED  BY <1>h, <2>1
  <1> QED
    BY <1>1, <1>2, <1>4, <1>5, <1>6, <1>7, <1>8, <1>9, <1>10, <1>11
       DEF TimerNext, Call, TimerLoopStep

LEMMA NumberInvariant == TimerSpec => [](HistoryInv /\ NumberInv)
  <1>1. TimerInit => HistoryInv /\ NumberInv
    BY RangeEmpty DEF TimerInit, HistoryInv, HistoryOf, NumberInv, NumberOf
  <1> QED
    BY <1>1, HistoryStep, NumberStep, OwnInvariant, IndexInvariant, PTL DEF TimerSpec

\* AddTimer() on another thread reads the number of a deleted timer only after a
\* run that was the timer's last, after the end of the loop, or after another
\* late reading had let somebody cancel this timer; every other index is right.
THEOREM StaleReadsAreExplained == TimerSpec => []StaleReadsExplained
  <1>1. OwnInv /\ NumberInv => StaleReadsExplained
    <2> SUFFICES ASSUME OwnInv, NumberInv PROVE StaleReadsExplained
      OBVIOUS
    <2>1. \A t \in Timers : NumberOf(t)
      BY DEF NumberInv
    <2>2. stale \subseteq Timers
      BY DEF OwnInv, TimerTypeOK
    <2>3. \A t \in stale : Explained(t)
      BY <2>1, <2>2 DEF NumberOf
    <2>4. \A t \in (Created \ adding) \ stale : sequence[t] = t
      BY <2>1 DEF NumberOf, Created
    <2>. QED  BY <2>3, <2>4 DEF Explained, StaleReadsExplained
  <1> QED
    BY <1>1, OwnInvariant, NumberInvariant, PTL

\* A cancellation deletes the timer whose index it has, unless the number in
\* that index was read after the delete of its timer.
THEOREM CancelsOnlyItsOwn == TimerSpec => CancelsItsOwn
  <1> DEFINE Own(t) ==
          memory'[t] = "freed" /\ timerPc' # "destroyed" =>
              \/ cancelled'[t] = "scheduled"
              \/ \E s \in stale : sequence[s] = t
  <1>1. OwnInv /\ NumberInv /\ [TimerNext]_queueVars
            => [\A t \in timers_ : Own(t)]_queueVars
    <2> SUFFICES ASSUME OwnInv, NumberInv, TimerNext, NEW t \in timers_
                 PROVE  Own(t)
      OBVIOUS
    <2> USE DEF timerVars, historyVars, returnVars
    <2>1. t \in Timers /\ memory[t] = "live" /\ t \notin running
      BY DEF OwnInv, OwnedOnce
    <2>2. TimerTypeOK
      BY DEF OwnInv
    <2>3. ASSUME memory'[t] = memory[t] \/ timerPc' = "destroyed"
          PROVE  Own(t)
      BY <2>1, <2>3
    <2>4. ASSUME NEW d \in Created \ adding, CancelTimerInLoop(d)
          PROVE  Own(t)
      <3>1. CASE t = sequence[d] /\ d \in stale
        BY <3>1
      <3>2. CASE t = sequence[d] /\ d \notin stale
        <4>1. d = t
          BY <3>2 DEF NumberInv, NumberOf, Created
        <4>2. cancelled'[t] = "scheduled"
          BY <2>2, <2>4, <4>1 DEF CancelTimerInLoop, NoteCancel, TimerTypeOK
        <4>. QED  BY <4>2
      <3>3. CASE t # sequence[d]
        <4>1. memory'[t] = memory[t]
          BY <2>1, <2>4, <3>3 DEF CancelTimerInLoop
        <4>. QED  BY <2>3, <4>1
      <3>. QED  BY <3>1, <3>2, <3>3
    <2>5. ASSUME NEW d \in Timers, LoopCancel(d)
          PROVE  Own(t)
      BY <2>4, <2>5 DEF LoopCancel
    <2>6. CASE RunCancel
      <3>1. pendingOps \in Seq(Op) /\ pendingOps # <<>>
        BY <2>2, <2>6 DEF RunCancel, TimerTypeOK, Op
      <3>2. Head(pendingOps) \in Range(pendingOps)
        BY <3>1, RangeHeadTail
      <3>3. Head(pendingOps).timer \in Created \ adding
        BY <2>6, <3>2 DEF RunCancel, NumberInv
      <3>. QED  BY <2>4, <2>6, <3>3 DEF RunCancel
    <2>7. ASSUME NEW s \in Timers, NEW when, NEW i, NewTimer(s, when, i)
          PROVE  Own(t)
      <3>1. memory'[t] = memory[t]
        BY <2>1, <2>2, <2>7 DEF NewTimer, TimerTypeOK
      <3>. QED  BY <2>3, <3>1
    <2>8. ASSUME NEW s \in Timers, DeleteTimer(s)
          PROVE  Own(t)
      <3>1. memory'[t] = memory[t]
        BY <2>1, <2>2, <2>8 DEF DeleteTimer, TimerTypeOK
      <3>. QED  BY <2>3, <3>1
    <2>9. ASSUME \/ \E s \in Timers : \/ AddReturns(s) \/ ForeignCancel(s)
                                      \/ RunTimer(s) \/ RestartTimer(s)
                 \/ RunAdd \/ HandleRead \/ HandleReadDone \/ PollTimerfd \/ Destroy \/ Tick
          PROVE  Own(t)
      <3>1. memory' = memory \/ timerPc' = "destroyed"
        BY <2>9 DEF AddReturns, ForeignCancel, RunTimer, RestartTimer, RunAdd,
                    HandleRead, HandleReadDone, PollTimerfd, Destroy, Tick
      <3>. QED  BY <2>3, <3>1
    <2> HIDE DEF Own
    <2>. QED  BY <2>5, <2>6, <2>7, <2>8, <2>9
              DEF TimerNext, Call, TimerLoopStep, LoopAdd, ForeignAdd
  <1> QED
    BY <1>1, OwnInvariant, NumberInvariant, PTL DEF TimerSpec, CancelsItsOwn
==============================================================================
