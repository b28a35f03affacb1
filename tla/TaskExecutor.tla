---------------------------- MODULE TaskExecutor ----------------------------
(***************************************************************************)
(* What an EventLoop promises to the code that hands it tasks, without its *)
(* threads, file descriptors or lock: tasks handed over with QueueInLoop   *)
(* (or with RunInLoop from another thread) are started one after the       *)
(* other, in the order they were handed over, each at most once; a task    *)
(* given to RunInLoop by code the loop itself runs starts at once, ahead   *)
(* of the queue; nothing is started once the loop has stopped, and it      *)
(* stops only when asked to.  Module EventLoop is shown to implement this. *)
(***************************************************************************)
EXTENDS Sequences, Functions

CONSTANT Functors   \* the tasks

VARIABLES
    waiting,    \* accepted and not started yet, oldest first
    started,    \* the tasks in the order they were started
    quitting,   \* Quit() was called
    stopped     \* the loop has ended; what still waits is never run

vars == <<waiting, started, quitting, stopped>>

Known(f) == f \in Range(waiting) \union Range(started)


Init ==
    /\ waiting = <<>>
    /\ started = <<>>
    /\ quitting = FALSE
    /\ stopped = FALSE

Submit(f) ==
    /\ ~Known(f)
    /\ waiting' = Append(waiting, f)
    /\ UNCHANGED <<started, quitting, stopped>>

StartNext ==
    /\ ~stopped
    /\ waiting # <<>>
    /\ started' = Append(started, Head(waiting))
    /\ waiting' = Tail(waiting)
    /\ UNCHANGED <<quitting, stopped>>

StartDirectly(f) ==
    /\ ~stopped
    /\ ~Known(f)
    /\ started' = Append(started, f)
    /\ UNCHANGED <<waiting, quitting, stopped>>

RequestQuit ==
    /\ quitting' = TRUE
    /\ UNCHANGED <<waiting, started, stopped>>

Stop ==
    /\ quitting
    /\ stopped' = TRUE
    /\ UNCHANGED <<waiting, started, quitting>>

Next ==
    \/ \E f \in Functors : Submit(f) \/ StartDirectly(f)
    \/ StartNext
    \/ RequestQuit
    \/ Stop

Spec == Init /\ [][Next]_vars
=============================================================================
