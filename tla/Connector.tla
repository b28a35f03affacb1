----------------------------- MODULE Connector ------------------------------
(***************************************************************************)
(* net/Connector.cc: attempts to connect, one after the other, with a      *)
(* retry timer between them.  All of it happens in one loop thread, inside *)
(* callbacks that call one another, so the operations are functions of the *)
(* connector's state: where connect() decides, the set of states it may    *)
(* leave behind.  Module TcpClient makes steps of them.                    *)
(***************************************************************************)
EXTENDS Integers

CONSTANTS
    InitRetryDelay,     \* kInitRetryDelay
    MaxRetryDelay       \* kMaxRetryDelay

ASSUME ConnectorAssumption ==
    /\ InitRetryDelay \in Nat \ {0}
    /\ MaxRetryDelay \in Nat /\ MaxRetryDelay >= InitRetryDelay

(* socket_: whether there is one; channel: socketChannel_, "none", "idle"  *)
(* or "registered" with epoll; timers: retry timers in the timer queue,    *)
(* the last of which timerIdx_ names if indexed; due: those that have left *)
(* the queue in a batch of expired timers and have not run yet; inEvent:   *)
(* the channel's HandleEvent is running; fault: how the process ended.     *)
InitConnector ==
    [stop_ |-> FALSE, connecting_ |-> FALSE, socket_ |-> FALSE,
     channel |-> "none", timers |-> 0, indexed |-> FALSE, due |-> 0,
     retryDelay_ |-> InitRetryDelay, gaveUp |-> FALSE, inEvent |-> FALSE,
     fault |-> "none"]

Faulty(c, what) == [c EXCEPT !.fault = what]

(* CancelTimer(timerIdx_): a timer that is due already runs nevertheless. *)
CancelRetry(c) ==
    IF c.indexed THEN [c EXCEPT !.timers = @ - 1, !.indexed = FALSE] ELSE c

Retry(c) ==
    IF c.stop_
    THEN c
    ELSE [c EXCEPT !.timers = @ + 1, !.indexed = TRUE,
                   !.retryDelay_ = IF 2 * @ > MaxRetryDelay
                                   THEN MaxRetryDelay ELSE 2 * @]

(* Mutation: no retry after an error that may pass. *)
LeaveIt(c) == c

(* What comes of a refused or failed connect(). *)
TryAgain(c) == Retry(c)

(* Undefined: HandleEvent goes on with a channel that has been freed under *)
(* it, unharmed or not.                                                    *)
ChannelFreed(c) == IF c.inEvent THEN {Faulty(c, "freed channel")} ELSE {}

(* RegisterForConnecting, and connecting_ after it. *)
RegisterForConnecting(c) ==
    [c EXCEPT !.channel = "registered", !.connecting_ = TRUE]

(* connect() on a fresh socket: it is under way or done, it has failed     *)
(* with an error that may pass, or with another.                           *)
StartInLoop(c) ==
    LET fresh == [c EXCEPT !.socket_ = TRUE, !.channel = "idle"]
    IN  IF c.stop_ THEN {c}
        ELSE IF c.channel = "registered" THEN {Faulty(c, "assert registered")}
        ELSE {RegisterForConnecting(fresh),
              TryAgain(fresh),
              [c EXCEPT !.socket_ = FALSE, !.channel = "none", !.gaveUp = TRUE]}
             \union ChannelFreed(c)

(* Mutation: connecting_ is not taken back with the registration. *)
KeepConnecting(c) == [c EXCEPT !.channel = "idle"]

(* Mutation: the channel stays with epoll. *)
KeepRegistered(c) == [c EXCEPT !.connecting_ = FALSE]

(* UnregisterForConnecting, and connecting_ after it. *)
UnregisterForConnecting(c) ==
    [c EXCEPT !.channel = "idle", !.connecting_ = FALSE]

Restart(c) ==
    LET quiet == IF c.connecting_ THEN UnregisterForConnecting(c) ELSE c
    IN  StartInLoop(CancelRetry([quiet EXCEPT !.retryDelay_ = InitRetryDelay,
                                              !.stop_ = FALSE, !.gaveUp = FALSE]))

(* The socket is closed first: to unregister its channel after that fails. *)
StopInLoop(c) ==
    IF c.connecting_
    THEN {Faulty([c EXCEPT !.socket_ = FALSE], "epoll_ctl")}
    ELSE {[CancelRetry(c) EXCEPT !.socket_ = FALSE, !.channel = "none"]}
         \union ChannelFreed(c)

Stop(c) == StopInLoop([c EXCEPT !.stop_ = TRUE])
=============================================================================
