------------------------------ MODULE EventLoop ------------------------------
(***************************************************************************)
(* One EventLoop: the loop thread (the code before Loop(), Loop() itself,  *)
(* the channel callbacks and functors it runs) and other threads that call *)
(* RunInLoop, QueueInLoop and Quit on it.                                  *)
(*                                                                         *)
(* Grain of atomicity.  pendingFunctors_ is touched only under lock_, so a *)
(* push and the swap are one step each.  A foreign thread can be           *)
(* interrupted between its push (or its store to quit_) and its Wakeup().  *)
(* quit_ is atomic and is read once per iteration.  The body of a functor, *)
(* of the callback of an ordinary channel, and of the code before Loop(),  *)
(* is unknown: each may call QueueInLoop, RunInLoop and Quit any number of *)
(* times before it returns.                                                *)
(***************************************************************************)
EXTENDS Naturals, Sequences, Functions

CONSTANTS
    OtherThreads,   \* the threads that are not loopThreadId_
    Functors        \* the tasks; each is handed over at most once

VARIABLES
    quit_,              \* EventLoop::quit_
    pendingFunctors_,   \* EventLoop::pendingFunctors_, oldest first
    functors,           \* what is left of the local vector of Loop()
    eventfd_,           \* TRUE iff the counter of the eventfd is not 0
    ioReady,            \* TRUE iff the fd of an ordinary channel is readable
    activeChannels_,    \* what is left of the channels Poll() returned
    loopPc,             \* where the loop thread is, in Loop()
    depth,              \* nested calls of unknown code on the loop thread
    callerPc,           \* where each other thread is, in QueueInLoop()/Quit()
    started,            \* history: the functors in the order they started
    origin              \* history: who queued a functor

vars == <<quit_, pendingFunctors_, functors, eventfd_, ioReady,
          activeChannels_, loopPc, depth, callerPc, started, origin>>

Channels == {"eventfd", "io"}
LoopPcs == {"idle", "check", "poll", "handle", "swap", "run",
            "exited", "aborted"}
Origins == {"none", "foreign", "main", "callback", "functor"}

\* Functors nobody has handed over yet.
Fresh == {f \in Functors : origin[f] = "none" /\ f \notin Range(started)}

-----------------------------------------------------------------------------
\* The loop has been constructed and its thread has yet to call Loop().
Init ==
    /\ quit_ = FALSE
    /\ pendingFunctors_ = <<>>
    /\ functors = <<>>
    /\ eventfd_ = FALSE
    /\ ioReady = FALSE
    /\ activeChannels_ = <<>>
    /\ loopPc = "idle"
    /\ depth = 1
    /\ callerPc = [t \in OtherThreads |-> "ready"]
    /\ started = <<>>
    /\ origin = [f \in Functors |-> "none"]

-----------------------------------------------------------------------------
(* Other threads *)

\* Mutation: the Wakeup() after the push is forgotten.
ForeignQueueNoWakeup(t, f) ==
    /\ callerPc[t] = "ready"
    /\ pendingFunctors_' = Append(pendingFunctors_, f)
    /\ origin' = [origin EXCEPT ![f] = "foreign"]
    /\ UNCHANGED <<quit_, functors, eventfd_, ioReady, activeChannels_,
                   loopPc, depth, callerPc, started>>

\* RunInLoop() or QueueInLoop() off the loop thread, up to the unlock.
ForeignQueue(t, f) ==
    /\ callerPc[t] = "ready"
    /\ pendingFunctors_' = Append(pendingFunctors_, f)
    /\ origin' = [origin EXCEPT ![f] = "foreign"]
    /\ callerPc' = [callerPc EXCEPT ![t] = "wakeup"]
    /\ UNCHANGED <<quit_, functors, eventfd_, ioReady, activeChannels_,
                   loopPc, depth, started>>

\* Quit() off the loop thread, up to its Wakeup().
ForeignQuit(t) ==
    /\ callerPc[t] = "ready"
    /\ quit_' = TRUE
    /\ callerPc' = [callerPc EXCEPT ![t] = "wakeup"]
    /\ UNCHANGED <<pendingFunctors_, functors, eventfd_, ioReady,
                   activeChannels_, loopPc, depth, started, origin>>

\* Wakeup() adds 1 to the counter of the eventfd.
Wakeup(t) ==
    /\ callerPc[t] = "wakeup"
    /\ eventfd_' = TRUE
    /\ callerPc' = [callerPc EXCEPT ![t] = "ready"]
    /\ UNCHANGED <<quit_, pendingFunctors_, functors, ioReady,
                   activeChannels_, loopPc, depth, started, origin>>

\* Input arrives on an ordinary channel.
IoArrives ==
    /\ ~ioReady
    /\ ioReady' = TRUE
    /\ UNCHANGED <<quit_, pendingFunctors_, functors, eventfd_,
                   activeChannels_, loopPc, depth, callerPc, started, origin>>

-----------------------------------------------------------------------------
(* Unknown code on the loop thread, which calls the loop it runs on *)

\* QueueInLoop() on the loop thread: no Wakeup().
LoopThreadQueue(f) ==
    /\ depth > 0
    /\ pendingFunctors_' = Append(pendingFunctors_, f)
    /\ origin' = [origin EXCEPT ![f] = CASE loopPc = "idle" -> "main"
                                         [] loopPc = "handle" -> "callback"
                                         [] OTHER -> "functor"]
    /\ UNCHANGED <<quit_, functors, eventfd_, ioReady, activeChannels_,
                   loopPc, depth, callerPc, started>>

\* RunInLoop() on the loop thread: the functor is called on the spot.
LoopThreadRun(f) ==
    /\ depth > 0
    /\ depth' = depth + 1
    /\ started' = Append(started, f)
    /\ UNCHANGED <<quit_, pendingFunctors_, functors, eventfd_, ioReady,
                   activeChannels_, loopPc, callerPc, origin>>

\* Quit() on the loop thread: no Wakeup().
LoopThreadQuit ==
    /\ depth > 0
    /\ quit_' = TRUE
    /\ UNCHANGED <<pendingFunctors_, functors, eventfd_, ioReady,
                   activeChannels_, loopPc, depth, callerPc, started, origin>>

\* The functor or callback that runs returns; the code before Loop() does
\* not, it calls Loop().
Return ==
    /\ depth > (IF loopPc = "idle" THEN 1 ELSE 0)
    /\ depth' = depth - 1
    /\ UNCHANGED <<quit_, pendingFunctors_, functors, eventfd_, ioReady,
                   activeChannels_, loopPc, callerPc, started, origin>>

-----------------------------------------------------------------------------
(* Loop() *)

\* The call of Loop(): assert(!quit_) aborts when Quit() came first.
EnterLoop ==
    /\ loopPc = "idle" /\ depth = 1
    /\ loopPc' = IF quit_ THEN "aborted" ELSE "check"
    /\ depth' = 0
    /\ UNCHANGED <<quit_, pendingFunctors_, functors, eventfd_, ioReady,
                   activeChannels_, callerPc, started, origin>>

\* while (!quit_), and activeChannels_.clear().
CheckQuit ==
    /\ loopPc = "check"
    /\ loopPc' = IF quit_ THEN "exited" ELSE "poll"
    /\ activeChannels_' = IF quit_ THEN activeChannels_ ELSE <<>>
    /\ UNCHANGED <<quit_, pendingFunctors_, functors, eventfd_, ioReady,
                   depth, callerPc, started, origin>>

\* The channels whose fd epoll reports, in the orders it may report them.
ReadyLists ==
    {l \in {<<>>, <<"eventfd">>, <<"io">>, <<"eventfd", "io">>,
            <<"io", "eventfd">>} :
        /\ eventfd_ <=> "eventfd" \in Range(l)
        /\ ioReady <=> "io" \in Range(l)}

\* epoll_wait() returns because some fd is ready.
PollReturns ==
    /\ loopPc = "poll"
    /\ eventfd_ \/ ioReady
    /\ activeChannels_' \in ReadyLists
    /\ loopPc' = "handle"
    /\ UNCHANGED <<quit_, pendingFunctors_, functors, eventfd_, ioReady,
                   depth, callerPc, started, origin>>

\* Mutation: an iteration without events goes straight to the next one.
PollTimesOutContinue ==
    /\ loopPc = "poll"
    /\ ~eventfd_ /\ ~ioReady
    /\ loopPc' = "check"
    /\ UNCHANGED <<quit_, pendingFunctors_, functors, eventfd_, ioReady,
                   activeChannels_, depth, callerPc, started, origin>>

\* epoll_wait() returns 0: kPollTimeoutsMs have passed and nothing is ready.
PollTimesOut ==
    /\ loopPc = "poll"
    /\ ~eventfd_ /\ ~ioReady
    /\ loopPc' = "handle"
    /\ UNCHANGED <<quit_, pendingFunctors_, functors, eventfd_, ioReady,
                   activeChannels_, depth, callerPc, started, origin>>

\* HandleEvent() of the eventfd channel: HandleEventfdRead() empties the
\* counter.
HandleEventfdRead ==
    /\ loopPc = "handle" /\ depth = 0
    /\ activeChannels_ # <<>> /\ Head(activeChannels_) = "eventfd"
    /\ activeChannels_' = Tail(activeChannels_)
    /\ eventfd_' = FALSE
    /\ UNCHANGED <<quit_, pendingFunctors_, functors, ioReady, loopPc, depth,
                   callerPc, started, origin>>

\* HandleEvent() of an ordinary channel: its callback consumes the input.
HandleIoRead ==
    /\ loopPc = "handle" /\ depth = 0
    /\ activeChannels_ # <<>> /\ Head(activeChannels_) = "io"
    /\ activeChannels_' = Tail(activeChannels_)
    /\ ioReady' = FALSE
    /\ depth' = 1
    /\ UNCHANGED <<quit_, pendingFunctors_, functors, eventfd_, loopPc,
                   callerPc, started, origin>>

\* The for loop over activeChannels_ is done.
HandleDone ==
    /\ loopPc = "handle" /\ depth = 0 /\ activeChannels_ = <<>>
    /\ loopPc' = "swap"
    /\ UNCHANGED <<quit_, pendingFunctors_, functors, eventfd_, ioReady,
                   activeChannels_, depth, callerPc, started, origin>>

\* Mutation: the vector is copied, not swapped.
SwapCopy ==
    /\ loopPc = "swap"
    /\ functors' = pendingFunctors_
    /\ loopPc' = "run"
    /\ UNCHANGED <<quit_, pendingFunctors_, eventfd_, ioReady, activeChannels_,
                   depth, callerPc, started, origin>>

\* functors.swap(pendingFunctors_), under lock_.
Swap ==
    /\ loopPc = "swap"
    /\ functors' = pendingFunctors_
    /\ pendingFunctors_' = <<>>
    /\ loopPc' = "run"
    /\ UNCHANGED <<quit_, eventfd_, ioReady, activeChannels_, depth, callerPc,
                   started, origin>>

\* func() for the next of functors.
RunFunctor ==
    /\ loopPc = "run" /\ depth = 0 /\ functors # <<>>
    /\ started' = Append(started, Head(functors))
    /\ functors' = Tail(functors)
    /\ depth' = 1
    /\ UNCHANGED <<quit_, pendingFunctors_, eventfd_, ioReady,
                   activeChannels_, loopPc, callerPc, origin>>

\* Mutation: the eventfd is emptied at the end of the iteration.
RunDoneEmptiesEventfd ==
    /\ loopPc = "run" /\ depth = 0 /\ functors = <<>>
    /\ loopPc' = "check"
    /\ eventfd_' = FALSE
    /\ UNCHANGED <<quit_, pendingFunctors_, functors, ioReady,
                   activeChannels_, depth, callerPc, started, origin>>

\* The for loop over functors is done.
RunDone ==
    /\ loopPc = "run" /\ depth = 0 /\ functors = <<>>
    /\ loopPc' = "check"
    /\ UNCHANGED <<quit_, pendingFunctors_, functors, eventfd_, ioReady,
                   activeChannels_, depth, callerPc, started, origin>>

-----------------------------------------------------------------------------
Foreign(t) ==
    \/ \E f \in Fresh : ForeignQueue(t, f)
    \/ ForeignQuit(t)
    \/ Wakeup(t)

UnknownCode ==
    \/ \E f \in Fresh : LoopThreadQueue(f) \/ LoopThreadRun(f)
    \/ LoopThreadQuit

\* The steps of Loop() that do not wait for the 10 s to pass.
LoopStep ==
    \/ CheckQuit \/ PollReturns \/ HandleEventfdRead \/ HandleIoRead
    \/ HandleDone \/ Swap \/ RunFunctor \/ RunDone

Next ==
    \/ \E t \in OtherThreads : Foreign(t)
    \/ IoArrives
    \/ UnknownCode \/ Return
    \/ EnterLoop \/ LoopStep \/ PollTimesOut

(***************************************************************************)
(* Fairness.  A thread that is inside a call of the loop finishes the call;*)
(* the loop thread goes on as long as Loop() is not blocked in             *)
(* epoll_wait(); functors and callbacks return (EventLoop.h asks its users *)
(* for functors that do not take long).  Nothing obliges anyone to call    *)
(* the loop, and the return of epoll_wait() on its timeout is kept apart:  *)
(* the first two liveness properties hold without it.                      *)
(***************************************************************************)
Fairness ==
    /\ \A t \in OtherThreads : WF_vars(Wakeup(t))
    /\ WF_vars(Return)
    /\ WF_vars(LoopStep)

Spec == Init /\ [][Next]_vars /\ Fairness

-----------------------------------------------------------------------------
(* Properties *)

TypeOK ==
    /\ quit_ \in BOOLEAN
    /\ pendingFunctors_ \in Seq(Functors)
    /\ functors \in Seq(Functors)
    /\ eventfd_ \in BOOLEAN
    /\ ioReady \in BOOLEAN
    /\ activeChannels_ \in Seq(Channels)
    /\ loopPc \in LoopPcs
    /\ depth \in Nat
    /\ callerPc \in [OtherThreads -> {"ready", "wakeup"}]
    /\ started \in Seq(Functors)
    /\ origin \in [Functors -> Origins]

\* A Wakeup() has happened, or is about to.
WakeupDue == eventfd_ \/ \E t \in OtherThreads : callerPc[t] = "wakeup"

Pending(f) == f \in Range(pendingFunctors_)

\* QueueInLoop() from another thread never leaves its functor behind a
\* sleeping loop: while the loop is on its way into epoll_wait() or blocked
\* there, a pending functor of another thread has its wakeup due.
NoLostWakeup ==
    loopPc \in {"idle", "check", "poll", "run"} =>
        \A f \in Functors : Pending(f) /\ origin[f] = "foreign" => WakeupDue

\* Quit() never leaves the loop asleep: if Loop() blocks in epoll_wait() with
\* quit_ set, the wakeup of the Quit() that set it is due.
QuitNotSleptThrough == loopPc = "poll" /\ quit_ => WakeupDue

\* QueueInLoop() skips Wakeup() on the loop thread; for a channel callback
\* that is harmless, because the functor is taken in the same iteration,
\* before the loop can block again.
CallbackFunctorsNeverSleep ==
    \A f \in Functors :
        Pending(f) /\ origin[f] = "callback" => loopPc \in {"handle", "swap"}

\* Nothing the loop has been asked for is slept through: neither a functor of
\* another thread or of a channel callback nor a Quit().
NothingSleptThrough ==
    NoLostWakeup /\ QuitNotSleptThrough /\ CallbackFunctorsNeverSleep

\* The loop implements the task executor: per the order of the pushes, each
\* functor started once, nothing after Loop() has ended.
Executor == INSTANCE TaskExecutor
                WITH waiting <- functors \o pendingFunctors_,
                     quitting <- quit_,
                     stopped <- loopPc \in {"exited", "aborted"}
ImplementsExecutor == Executor!Spec

\* A functor another thread has queued is started, unless the loop is asked
\* to quit, without any help of the poll timeout.
ForeignFunctorsRun ==
    \A f \in Functors :
        (Pending(f) /\ origin[f] = "foreign" /\ loopPc # "idle")
            ~> (f \in Range(started) \/ quit_)

\* Quit() ends Loop() without any help of the poll timeout.
QuitEndsLoop ==
    (quit_ /\ loopPc # "idle") ~> loopPc \in {"exited", "aborted"}

\* What other threads ask of the loop comes to pass without any help of the
\* poll timeout: their functors are started, and Quit() ends Loop().
ForeignCallsTakeEffect == ForeignFunctorsRun /\ QuitEndsLoop

\* A functor queued by a functor, or before Loop(), can have to wait until
\* epoll_wait() times out: with the timeout every functor is started.
TimeoutRunsEveryFunctor ==
    WF_vars(PollTimesOut) =>
        \A f \in Functors :
            (Pending(f) /\ loopPc # "idle")
                ~> (f \in Range(started) \/ quit_)
=============================================================================
