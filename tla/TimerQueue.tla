----------------------------- MODULE TimerQueue -----------------------------
(***************************************************************************)
(* The timers of one EventLoop: TimerQueue and its timerfd.                *)
(*                                                                         *)
(* AddTimer and CancelTimer go through RunInLoop: on the loop thread they  *)
(* act on the spot, from other threads they become functors, which the     *)
(* loop runs one after the other in the order they were queued (module     *)
(* EventLoop shows that it does); those are kept in pendingOps.  The loop  *)
(* thread is outside the timer queue ("other": polling, or running         *)
(* functors and callbacks of other channels), between epoll_wait() and its *)
(* call of HandleRead ("dispatch"), in HandleRead between two timers       *)
(* ("batch"), or in the callback of a timer ("callback").                  *)
(*                                                                         *)
(* AddTimer on another thread first queues the functor and then reads      *)
(* timer->Sequence() for the TimerIndex it returns.  Nothing keeps the     *)
(* Timer until then: the loop may have run and deleted it, and the next    *)
(* Timer may have been allocated in its place (adding, sequence, stale).   *)
(* Whatever else lies there is the number of no scheduled timer, as the    *)
(* number of the deleted one is.                                           *)
(*                                                                         *)
(* Time is counted in ticks of the clock that Timestamp::Now() reads; the  *)
(* microsecond after which an overdue timerfd fires is shorter than one.   *)
(* The clock advances between any two steps, and by at most MaxSlip ticks  *)
(* between the two readings UpdateTimerfd takes of it.                     *)
(*                                                                         *)
(* Names that module EventLoop has too begin with Timer here.              *)
(***************************************************************************)
EXTENDS Naturals, Sequences, FiniteSets, Functions

CONSTANTS
    MaxTimers,      \* bound: timers created; they are numbered from 1
    Intervals,      \* the intervals of repeating timers
    MaxClock,       \* bound: the last tick
    MaxSlip,        \* bound: ticks between two readings in UpdateTimerfd
    MaxCancels      \* bound: calls of CancelTimer

ASSUME TimerQueueAssumption ==
    /\ MaxTimers \in Nat
    /\ Intervals \subseteq Nat \ {0}
    /\ MaxClock \in Nat
    /\ MaxSlip \in Nat
    /\ MaxCancels \in Nat

VARIABLES
    clock,          \* Timestamp::Now()
    pendingOps,     \* functors of AddTimerInLoop and CancelTimerInLoop
    timers_,        \* TimerQueue::timers_, the timers scheduled
    expired,        \* what is left of the local vector of HandleRead
    running,        \* the timer whose callback runs, as a set
    now,            \* the local variable of HandleRead
    timerfd_,       \* {d}: it becomes readable at tick d; {}: disarmed
    slipped,        \* the last UpdateTimerfd did not arm the timerfd
    timerPc,        \* where the loop thread is
    expiration,     \* Timer::expiration_
    index,          \* TimerIndex::expiration_ as AddTimer returned it
    interval,       \* Timer::interval_; 0: the timer does not repeat
    memory,         \* whether the Timer object is allocated
    adding,         \* timers queued by an AddTimer() that has not returned
    sequence,       \* TimerIndex::sequence_; while t is in adding, the number
                    \* that the memory at Timer* t holds
    runs,           \* history: how often the callback was called (2: more)
    cancelled,      \* history: where the timer was when it was cancelled
    cancels,        \* history: calls of CancelTimer
    stale           \* history: timers whose number was read after the delete

queueVars == <<clock, pendingOps, timers_, expired, running, now, timerfd_,
               slipped, timerPc, expiration, index, interval, memory, adding,
               sequence, runs, cancelled, cancels, stale>>
timerVars == <<expiration, index, interval, memory>>
returnVars == <<adding, sequence, stale>>
historyVars == <<runs, cancelled, cancels>>

Timers == 1 .. MaxTimers

Created == {t \in Timers : memory[t] # "none"}

\* The timerfd is readable.
Readable == \E d \in timerfd_ : d <= clock

\* TimerIndex::operator<
Earlier(s, t) ==
    \/ expiration[s] < expiration[t]
    \/ expiration[s] = expiration[t] /\ s < t

\* The first of a set of timers in the order of std::set<TimerIndex>.
IsFirst(t, S) == t \in S /\ \A s \in S \ {t} : Earlier(t, s)

\* The timers with an AddTimerInLoop functor still queued.
PendingAdds == {op.timer : op \in {o \in Range(pendingOps) : o.op = "add"}}

-----------------------------------------------------------------------------
TimerInit ==
    /\ clock = 0
    /\ pendingOps = <<>>
    /\ timers_ = {} /\ expired = {} /\ running = {}
    /\ now = 0
    /\ timerfd_ = {}
    /\ slipped = FALSE
    /\ timerPc = "other"
    /\ expiration = [t \in Timers |-> 0]
    /\ index = [t \in Timers |-> 0]
    /\ interval = [t \in Timers |-> 0]
    /\ memory = [t \in Timers |-> "none"]
    /\ adding = {} /\ stale = {}
    /\ sequence = [t \in Timers |-> 0]
    /\ runs = [t \in Timers |-> 0]
    /\ cancelled = [t \in Timers |-> "no"]
    /\ cancels = 0

-----------------------------------------------------------------------------
(* Parts of the handlers *)

\* UpdateTimerfd(timerfd_, when).  It compares when with one reading of the
\* clock and subtracts a second, later one: a difference of 0 disarms the
\* timerfd, a negative one makes timerfd_settime() fail and leaves it alone.
UpdateTimerfd(when) ==
    \/ /\ clock < when
       /\ \E reading \in clock .. (clock + MaxSlip) :
              /\ reading <= MaxClock
              /\ clock' = reading
              /\ \/ reading < when /\ timerfd_' = {when} /\ slipped' = FALSE
                 \/ reading = when /\ timerfd_' = {} /\ slipped' = TRUE
                 \/ reading > when /\ UNCHANGED timerfd_ /\ slipped' = TRUE
    \/ /\ clock >= when
       /\ timerfd_' = {clock}
       /\ slipped' = FALSE
       /\ UNCHANGED clock

\* The timerfd is left alone.
KeepTimerfd == UNCHANGED <<clock, timerfd_, slipped>>

\* Mutation: the timerfd is set only for the first timer of an empty queue.
AddTimerInLoopIfEmpty(t, when) ==
    /\ timers_' = timers_ \union {t}
    /\ IF timers_ = {} THEN UpdateTimerfd(when) ELSE KeepTimerfd

\* AddTimerInLoop(t) for a timer that expires at when: the timerfd is set
\* only if t comes first.
AddTimerInLoop(t, when) ==
    /\ timers_' = timers_ \union {t}
    /\ IF \A s \in timers_ : when < expiration[s]
       THEN UpdateTimerfd(when)
       ELSE KeepTimerfd

\* What a CancelTimerInLoop() that finds t notes of it.
NoteCancel(t) ==
    cancelled' =
        [cancelled EXCEPT ![t] = IF t \in timers_ THEN "scheduled"
                                 ELSE IF t \in expired \union running
                                      THEN "expired"
                                 ELSE @]

\* Mutation: the timer is deleted wherever it is.
CancelTimerInLoopAnywhere(t) ==
    /\ timers_' = timers_ \ {t}
    /\ memory' = [memory EXCEPT ![t] = "freed"]
    /\ UNCHANGED cancelled

\* Mutation: the timer stays in timers_.
CancelTimerInLoopNoErase(t) ==
    /\ NoteCancel(t)
    /\ UNCHANGED <<timers_, memory>>

\* Mutation: operator< compares no sequence numbers.
CancelTimerInLoopByTime(t) ==
    LET found == {s \in timers_ : expiration[s] = index[t]} IN
    /\ timers_' = timers_ \ found
    /\ memory' = [s \in Timers |-> IF s \in found THEN "freed" ELSE memory[s]]
    /\ NoteCancel(t)

\* CancelTimerInLoop(timerIndex) with the index of t: timers_ is searched for
\* the expiration and the number that AddTimer returned; the timerfd is left
\* as it is.
CancelTimerInLoop(t) ==
    LET found == {s \in timers_ : s = sequence[t] /\ expiration[s] = index[t]} IN
    /\ timers_' = timers_ \ found
    /\ memory' = [s \in Timers |-> IF s \in found THEN "freed" ELSE memory[s]]
    /\ NoteCancel(t)

\* new Timer(cb, when, i): it gets the next number of count_, and either fresh
\* memory or that of a deleted timer d which an AddTimer() is still to read.
\* The numbers of timers created on other threads and not queued yet are
\* passed over.
NewTimer(t, when, i) ==
    /\ memory[t] = "none"
    /\ memory' = [memory EXCEPT ![t] = "live"]
    /\ expiration' = [expiration EXCEPT ![t] = when]
    /\ index' = [index EXCEPT ![t] = when]
    /\ interval' = [interval EXCEPT ![t] = i]
    /\ \/ sequence' = [sequence EXCEPT ![t] = t]
       \/ \E d \in adding :
              /\ memory[sequence[d]] = "freed"
              /\ sequence' =
                     [s \in Timers |->
                         IF s = t \/ (s \in adding /\ sequence[s] = sequence[d])
                         THEN t ELSE sequence[s]]

-----------------------------------------------------------------------------
(* Calls *)

\* AddTimer() on the loop thread.
LoopAdd(t, when, i) ==
    /\ timerPc \in {"other", "dispatch", "callback"}
    /\ NewTimer(t, when, i)
    /\ AddTimerInLoop(t, when)
    /\ UNCHANGED <<pendingOps, expired, running, now, timerPc, adding, stale,
                   historyVars>>

\* AddTimer() on another thread, until the functor is queued.
ForeignAdd(t, when, i) ==
    /\ timerPc # "destroyed"
    /\ NewTimer(t, when, i)
    /\ pendingOps' = Append(pendingOps, [op |-> "add", timer |-> t])
    /\ adding' = adding \union {t}
    /\ KeepTimerfd
    /\ UNCHANGED <<timers_, expired, running, now, timerPc, stale, historyVars>>

\* AddTimer() on another thread reads timer->Sequence() and returns.
AddReturns(t) ==
    /\ t \in adding
    /\ adding' = adding \ {t}
    /\ stale' = IF memory[t] = "freed" THEN stale \union {t} ELSE stale
    /\ KeepTimerfd
    /\ UNCHANGED <<pendingOps, timers_, expired, running, now, timerPc,
                   timerVars, sequence, historyVars>>

\* CancelTimer() on the loop thread.
LoopCancel(t) ==
    /\ timerPc \in {"other", "dispatch", "callback"}
    /\ t \in Created \ adding /\ cancels < MaxCancels
    /\ cancels' = cancels + 1
    /\ CancelTimerInLoop(t)
    /\ KeepTimerfd
    /\ UNCHANGED <<pendingOps, expired, running, now, timerPc, expiration,
                   index, interval, runs, returnVars>>

\* CancelTimer() on another thread.
ForeignCancel(t) ==
    /\ timerPc # "destroyed"
    /\ t \in Created \ adding /\ cancels < MaxCancels
    /\ cancels' = cancels + 1
    /\ pendingOps' = Append(pendingOps, [op |-> "cancel", timer |-> t])
    /\ KeepTimerfd
    /\ UNCHANGED <<timers_, expired, running, now, timerPc, timerVars, runs,
                   cancelled, returnVars>>

-----------------------------------------------------------------------------
(* The loop thread *)

\* The loop runs the functor of an AddTimer().
RunAdd ==
    /\ timerPc = "other" /\ pendingOps # <<>> /\ Head(pendingOps).op = "add"
    /\ pendingOps' = Tail(pendingOps)
    /\ AddTimerInLoop(Head(pendingOps).timer,
                      expiration[Head(pendingOps).timer])
    /\ UNCHANGED <<expired, running, now, timerPc, timerVars, historyVars,
                   returnVars>>

\* The loop runs the functor of a CancelTimer().
RunCancel ==
    /\ timerPc = "other" /\ pendingOps # <<>> /\ Head(pendingOps).op = "cancel"
    /\ pendingOps' = Tail(pendingOps)
    /\ CancelTimerInLoop(Head(pendingOps).timer)
    /\ KeepTimerfd
    /\ UNCHANGED <<expired, running, now, timerPc, expiration, index, interval,
                   runs, cancels, returnVars>>

\* epoll_wait() reports the timerfd; callbacks of channels that come before
\* it in activeChannels_ may still add and cancel timers.
PollTimerfd ==
    /\ timerPc = "other" /\ Readable
    /\ timerPc' = "dispatch"
    /\ UNCHANGED <<clock, pendingOps, timers_, expired, running, now,
                   timerfd_, slipped, timerVars, historyVars, returnVars>>

\* HandleRead() up to the loop: now, ReadTimerfd (which finds nothing when a
\* callback has set the timerfd again meanwhile) and GetExpired.
HandleRead ==
    /\ timerPc = "dispatch"
    /\ now' = clock
    /\ timerfd_' = IF Readable THEN {} ELSE timerfd_
    /\ expired' = {t \in timers_ : expiration[t] <= clock}
    /\ timers_' = {t \in timers_ : expiration[t] > clock}
    /\ timerPc' = "batch"
    /\ UNCHANGED <<clock, pendingOps, running, slipped, timerVars,
                   historyVars, returnVars>>

\* timerIndex.timer_->Run() of the next expired timer.
RunTimer(t) ==
    /\ timerPc = "batch" /\ IsFirst(t, expired)
    /\ running' = {t}
    /\ expired' = expired \ {t}
    /\ runs' = [runs EXCEPT ![t] = IF @ < 2 THEN @ + 1 ELSE 2]
    /\ timerPc' = "callback"
    /\ UNCHANGED <<clock, pendingOps, timers_, now, timerfd_, slipped,
                   timerVars, cancelled, cancels, returnVars>>

\* The callback of a repeating timer returns: Restart(now), AddTimerInLoop.
RestartTimer(t) ==
    /\ timerPc = "callback" /\ t \in running /\ interval[t] > 0
    /\ running' = {}
    /\ expiration' = [expiration EXCEPT ![t] = now + interval[t]]
    /\ AddTimerInLoop(t, now + interval[t])
    /\ timerPc' = "batch"
    /\ UNCHANGED <<pendingOps, expired, now, index, interval, memory,
                   historyVars, returnVars>>

\* Mutation: a timer that was started again is deleted as well.
DeleteTimerRepeated(t) ==
    /\ timerPc = "callback" /\ t \in running
    /\ running' = {}
    /\ memory' = [memory EXCEPT ![t] = "freed"]
    /\ timerPc' = "batch"
    /\ UNCHANGED <<clock, pendingOps, timers_, expired, now, timerfd_,
                   slipped, expiration, index, interval, historyVars,
                   returnVars>>

\* The callback of any other timer returns: the timer is deleted.
DeleteTimer(t) ==
    /\ timerPc = "callback" /\ t \in running /\ interval[t] = 0
    /\ running' = {}
    /\ memory' = [memory EXCEPT ![t] = "freed"]
    /\ timerPc' = "batch"
    /\ UNCHANGED <<clock, pendingOps, timers_, expired, now, timerfd_,
                   slipped, expiration, index, interval, historyVars,
                   returnVars>>

\* Mutation: the timerfd is not set for the timers left.
HandleReadDoneNoUpdate ==
    /\ timerPc = "batch" /\ expired = {}
    /\ KeepTimerfd
    /\ now' = 0
    /\ timerPc' = "other"
    /\ UNCHANGED <<pendingOps, timers_, expired, running, timerVars,
                   historyVars, returnVars>>

\* The end of HandleRead().
HandleReadDone ==
    /\ timerPc = "batch" /\ expired = {}
    /\ \/ timers_ = {} /\ KeepTimerfd
       \/ \E t \in timers_ : IsFirst(t, timers_) /\ UpdateTimerfd(expiration[t])
    /\ now' = 0     \* out of scope
    /\ timerPc' = "other"
    /\ UNCHANGED <<pendingOps, timers_, expired, running, timerVars,
                   historyVars, returnVars>>

\* ~TimerQueue() deletes the timers in timers_.  Functors still queued are
\* dropped with ~EventLoop(); they hold plain pointers, so the timers that they
\* were to add are not deleted.
Destroy ==
    /\ timerPc = "other"
    /\ memory' = [t \in Timers |-> CASE t \in timers_ -> "freed"
                                     [] t \in PendingAdds -> "leaked"
                                     [] OTHER -> memory[t]]
    /\ pendingOps' = <<>>
    /\ timers_' = {}
    /\ timerfd_' = {}
    /\ timerPc' = "destroyed"
    /\ UNCHANGED <<clock, expired, running, now, slipped, expiration, index,
                   interval, historyVars, returnVars>>

Tick ==
    /\ clock < MaxClock
    /\ clock' = clock + 1
    /\ UNCHANGED <<pendingOps, timers_, expired, running, now, timerfd_,
                   slipped, timerPc, timerVars, historyVars, returnVars>>

-----------------------------------------------------------------------------
Call ==
    \E t \in Timers :
        \/ \E when \in 0 .. MaxClock, i \in Intervals \union {0} :
               LoopAdd(t, when, i) \/ ForeignAdd(t, when, i)
        \/ AddReturns(t)
        \/ LoopCancel(t)
        \/ ForeignCancel(t)

TimerLoopStep ==
    \/ RunAdd \/ RunCancel
    \/ HandleRead \/ HandleReadDone
    \/ \E t \in Timers : RunTimer(t) \/ RestartTimer(t) \/ DeleteTimer(t)

TimerNext == Call \/ TimerLoopStep \/ PollTimerfd \/ Destroy \/ Tick

\* The loop thread goes on, it polls the timerfd again and again among its
\* other work, callbacks return, and time passes.
TimerFairness ==
    /\ WF_queueVars(TimerLoopStep)
    /\ WF_queueVars(PollTimerfd)
    /\ WF_queueVars(Tick)

TimerSpec == TimerInit /\ [][TimerNext]_queueVars /\ TimerFairness

-----------------------------------------------------------------------------
(* Properties *)

TimerTypeOK ==
    /\ clock \in 0 .. MaxClock /\ now \in 0 .. MaxClock
    /\ pendingOps \in Seq([op : {"add", "cancel"}, timer : Timers])
    /\ timers_ \subseteq Timers
    /\ expired \subseteq Timers
    /\ running \subseteq Timers
    /\ timerfd_ \subseteq Nat
    /\ slipped \in BOOLEAN
    /\ timerPc \in {"other", "dispatch", "batch", "callback", "destroyed"}
    /\ expiration \in [Timers -> Nat]
    /\ index \in [Timers -> Nat]
    /\ interval \in [Timers -> Intervals \union {0}]
    /\ memory \in [Timers -> {"none", "live", "freed", "leaked"}]
    /\ adding \subseteq Timers /\ stale \subseteq Timers
    /\ sequence \in [Timers -> Timers \union {0}]
    /\ runs \in [Timers -> 0 .. 2]
    /\ cancelled \in [Timers -> {"no", "scheduled", "expired"}]
    /\ cancels \in 0 .. MaxCancels

\* A Timer object is in one place only as long as it is allocated: queued to
\* be added, scheduled, expired, or running; in none before and after.  So the
\* loop never runs, restarts or deletes a timer that was deleted, whatever is
\* cancelled from where, and loses none while it lives.  The timers whose
\* functors are dropped at the end are leaked.
OwnedOnce ==
    /\ {t \in Timers : memory[t] = "live"}
           = PendingAdds \union timers_ \union expired \union running
    /\ PendingAdds \intersect (timers_ \union expired \union running) = {}
    /\ timers_ \intersect (expired \union running) = {}
    /\ expired \intersect running = {}

\* AddTimer(), of which TimerQueue.h says "可以由非loop线程调用" (it may be called
\* by other threads than the loop's), reads there, after queuing its functor,
\* what may be the memory of a deleted timer.  It does so for three reasons only: a timer without interval has run and was deleted, the loop is
\* destroyed, or somebody cancelled with an index that was read too late itself
\* and had got this timer's number.  Any other index has its timer's number.
StaleReadsExplained ==
    /\ \A t \in stale :
           \/ interval[t] = 0 /\ runs[t] > 0
           \/ timerPc = "destroyed"
           \/ \E s \in stale \ {t} : sequence[s] = t
    /\ \A t \in (Created \ adding) \ stale : sequence[t] = t

\* CancelTimer() deletes the scheduled timer whose index it was given, and no
\* other, unless the number in the index was read too late.
CancelsItsOwn ==
    [][\A t \in timers_ :
           memory'[t] = "freed" /\ timerPc' # "destroyed" =>
               \/ cancelled'[t] = "scheduled"
               \/ \E s \in stale : sequence[s] = t]_queueVars

\* Outside HandleRead() the timerfd is set for the earliest timer, or is due
\* already, unless the two clock readings of UpdateTimerfd slipped past it.
TimerfdArmed ==
    timerPc \in {"other", "dispatch"} /\ timers_ # {} /\ ~slipped =>
        \E d \in timerfd_ :
            d <= clock \/ \A t \in timers_ : d <= expiration[t]

\* No callback runs before the time its timer stands for, and that of a timer
\* without interval runs once at most.  A timer that was cancelled while it was
\* scheduled, by whomever, does not run again, unless it is one that repeats
\* and had run already: the index then has the expiration of its first run.
RunsWhenDue ==
    [][\A t \in Timers :
           runs'[t] # runs[t] =>
               /\ expiration[t] <= clock
               /\ interval[t] = 0 => runs[t] = 0
               /\ cancelled[t] = "scheduled" => interval[t] # 0 /\ runs[t] > 0]_queueVars

\* A scheduled timer whose time comes leaves the queue (HandleRead takes it,
\* or it is cancelled), unless the timerfd slipped.
ScheduledTimersFire ==
    \A t \in Timers :
        (t \in timers_ /\ expiration[t] <= MaxClock)
            ~> (t \notin timers_ \/ slipped)
=============================================================================
