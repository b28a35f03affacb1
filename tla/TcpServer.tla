------------------------------ MODULE TcpServer ------------------------------
(***************************************************************************)
(* The life of the connections of a TcpServer: accepted on the base loop,  *)
(* established, closed and destroyed on the I/O loop they are given to,    *)
(* removed from connections_ on the base loop.  Loop 0 is the base loop,   *)
(* loops 1 .. NumThreads are those of the thread pool; with NumThreads = 0 *)
(* the base loop does everything.                                          *)
(*                                                                         *)
(* Each loop thread alternates between epoll_wait(), the channels it       *)
(* reported and the functors queued (module EventLoop).  frames[l] is its  *)
(* call stack: the calls it has still to make or to return from, innermost *)
(* first; RunInLoop() pushes a frame when the caller is the loop's own     *)
(* thread and queues a functor otherwise.  Iterations without an event and *)
(* without a functor are left out.                                         *)
(*                                                                         *)
(* A TcpConnection lives as long as a shared_ptr to it: in connections_,   *)
(* in a functor, in the call of a callback, or with the user (Alive).  Its *)
(* channel is known to epoll by a raw pointer from its registration until  *)
(* RemoveFromPoller().  Bytes sent to the peer are left out: nothing is    *)
(* ever waiting to be written.                                             *)
(*                                                                         *)
(* aborted holds the check that has failed; nothing happens after it.      *)
(***************************************************************************)
EXTENDS Naturals, Sequences, FiniteSets, Functions

CONSTANTS
    Conns,          \* the connections peers make
    NumThreads,     \* the argument of Start()
    MaxUserCalls    \* bound: calls of StartRead, StopRead, Shutdown and
                    \* ForceClose by the user

ASSUME TcpServerAssumption ==
    /\ NumThreads \in Nat
    /\ MaxUserCalls \in Nat

VARIABLES
    phase,          \* where each loop is: "poll", "handle" or "run"
    active,         \* what is left of its activeChannels_, with revents_
    queue,          \* pendingFunctors_ of each loop
    ran,            \* connections bound in the functors it has taken
    frames,         \* the call stack of each loop thread
    next_,          \* EventLoopThreadPool::next_
    connections_,   \* TcpServer::connections_
    loopOf,         \* TcpConnection::loop_
    state_,         \* TcpConnection::state_; "none" before it exists
    interest,       \* Channel::events_ asks for EPOLLIN
    registered,     \* Channel::registeredToPoller, and known to epoll
    reading_,       \* TcpConnection::reading_
    writeShut,      \* ShutdownWrite() was called on the socket
    peer,           \* what the peer has done to the connection
    data,           \* received bytes wait in the socket
    userHolds,      \* connections the user keeps a shared_ptr to
    checked,        \* Shutdown() of another thread between check and store
    userCalls,      \* history: calls made by the user
    downs,          \* history: connectionCallback_ calls after the close
    blame,          \* history: what may lead to an abort, per connection
    aborted         \* the check that failed, and for which connection

loopVars == <<phase, active, ran>>
poolVars == <<next_, connections_, loopOf>>
channelVars == <<interest, registered, reading_>>
peerVars == <<peer, data>>
userVars == <<userHolds, checked, userCalls>>
vars == <<loopVars, queue, frames, poolVars, state_, channelVars, writeShut,
          peerVars, userVars, downs, blame, aborted>>

Loops == 0 .. NumThreads
Base == 0

FunctorOps == {"ConnectionEstablished", "RemoveConnectionInLoop",
               "ConnectionDestroyed", "ShutdownInLoop", "ForceCloseInLoop",
               "StartReadInLoop", "StopReadInLoop"}
\* Calls that work on the raw pointer of a channel, or on the connection it
\* belongs to, without a shared_ptr.
ChannelOps == {"HandleRead", "closeCallback_", "return"}
FrameOps == FunctorOps \union ChannelOps \union {"callback"}
Call(op, c) == [op |-> op, conn |-> c]

Created == {c \in Conns : state_[c] # "none"}

\* Some shared_ptr to the connection is left.
Alive(c) ==
    \/ c \in connections_ \union userHolds \union checked
    \/ \E l \in Loops :
        \/ c \in ran[l]
        \/ \E f \in Range(queue[l]) \union Range(frames[l]) :
               f.conn = c /\ f.op \notin ChannelOps

-----------------------------------------------------------------------------
Init ==
    /\ phase = [l \in Loops |-> "poll"]
    /\ active = [l \in Loops |-> {}]
    /\ queue = [l \in Loops |-> <<>>]
    /\ ran = [l \in Loops |-> {}]
    /\ frames = [l \in Loops |-> <<>>]
    /\ next_ = 0
    /\ connections_ = {}
    /\ loopOf = [c \in Conns |-> Base]
    /\ state_ = [c \in Conns |-> "none"]
    /\ interest = [c \in Conns |-> FALSE]
    /\ registered = [c \in Conns |-> FALSE]
    /\ reading_ = [c \in Conns |-> FALSE]
    /\ writeShut = [c \in Conns |-> FALSE]
    /\ peer = [c \in Conns |-> "open"]
    /\ data = [c \in Conns |-> FALSE]
    /\ userHolds = {}
    /\ checked = {}
    /\ userCalls = 0
    /\ downs = [c \in Conns |-> 0]
    /\ blame = [c \in Conns |-> {}]
    /\ aborted = {}

-----------------------------------------------------------------------------
(* Calls and returns on a loop thread *)

\* Thread l has returned to Loop(), to the step the phase names.
InLoop(l, step) == aborted = {} /\ frames[l] = <<>> /\ phase[l] = step

\* The call loop l has to make, or to return from, next.
Runs(l, f) == aborted = {} /\ frames[l] # <<>> /\ Head(frames[l]) = f

\* The call returns, and calls are made before its caller goes on.
ReturnAnd(l, calls) == frames' = [frames EXCEPT ![l] = calls \o Tail(@)]

\* The call of thread l ends with RunInLoop(f) on loop target.
ReturnAndRunInLoop(l, target, f) ==
    IF l = target
    THEN ReturnAnd(l, <<f>>) /\ UNCHANGED queue
    ELSE /\ ReturnAnd(l, <<>>)
         /\ queue' = [queue EXCEPT ![target] = Append(@, f)]

Abort(check, c) ==
    /\ aborted' = {Call(check, c)}
    /\ UNCHANGED <<loopVars, queue, frames, poolVars, state_, channelVars,
                   writeShut, peerVars, userVars, downs, blame>>

-----------------------------------------------------------------------------
(* The iterations of a loop *)

\* EPOLLHUP: the peer has reset the connection, or both ways are shut.
HangsUp(c) == peer[c] \in {"reset", "gone"}
                \/ (writeShut[c] /\ peer[c] = "fin")

\* What epoll_wait() reports for a channel: EPOLLHUP even if events_ is 0.
Reported(c) ==
    [conn |-> c,
     in |-> interest[c] /\ (data[c] \/ peer[c] # "open"),
     hup |-> HangsUp(c)]

\* A connection that is destroyed closes its socket, which epoll then forgets.
Ready(l) ==
    {Reported(c) : c \in {d \in Created :
        /\ registered[d] /\ loopOf[d] = l /\ Alive(d)
        /\ HangsUp(d) \/ (interest[d] /\ (data[d] \/ peer[d] # "open"))}}

\* The acceptor's channel; conn is the connection it will accept.
Acceptable(c) == [conn |-> c, in |-> TRUE, hup |-> FALSE]

\* epoll_wait() returns.
Poll(l) ==
    /\ InLoop(l, "poll")
    /\ \E new \in SUBSET (IF l = Base THEN Conns \ Created ELSE {}) :
        /\ Cardinality(new) <= 1
        /\ active' = [active EXCEPT ![l] =
                          Ready(l) \union {Acceptable(c) : c \in new}]
        /\ active'[l] # {} \/ queue[l] # <<>>
    /\ phase' = [phase EXCEPT ![l] = "handle"]
    /\ UNCHANGED <<queue, ran, frames, poolVars, state_, channelVars,
                   writeShut, peerVars, userVars, downs, blame, aborted>>

\* HandleEvent() of an active channel.  After the read callback it looks at
\* its revents_ again, and calls the close callback on EPOLLHUP.
HandleEvent(l, e) ==
    /\ InLoop(l, "handle")
    /\ e \in active[l] /\ e.conn \in Created
    /\ IF Alive(e.conn)
       THEN /\ active' = [active EXCEPT ![l] = @ \ {e}]
            /\ frames' = [frames EXCEPT ![l] =
                  (IF e.in THEN <<Call("HandleRead", e.conn)>> ELSE <<>>)
                  \o <<Call(IF e.hup THEN "closeCallback_" ELSE "return",
                            e.conn)>>]
            /\ UNCHANGED <<phase, queue, ran, poolVars, state_, channelVars,
                           writeShut, peerVars, userVars, downs, blame,
                           aborted>>
       ELSE Abort("freed Channel", e.conn)

\* All active channels are handled: the functors are taken, and called one
\* after the other.  What they have bound lives as long as their vector.
TakeFunctors(l) ==
    /\ InLoop(l, "handle") /\ active[l] = {}
    /\ frames' = [frames EXCEPT ![l] = queue[l]]
    /\ ran' = [ran EXCEPT ![l] = {f.conn : f \in Range(queue[l])}]
    /\ queue' = [queue EXCEPT ![l] = <<>>]
    /\ phase' = [phase EXCEPT ![l] = "run"]
    /\ UNCHANGED <<active, poolVars, state_, channelVars, writeShut,
                   peerVars, userVars, downs, blame, aborted>>

\* The end of the iteration: the vector of functors is destroyed.
EndIteration(l) ==
    /\ InLoop(l, "run")
    /\ ran' = [ran EXCEPT ![l] = {}]
    /\ phase' = [phase EXCEPT ![l] = "poll"]
    /\ UNCHANGED <<active, queue, frames, poolVars, state_, channelVars,
                   writeShut, peerVars, userVars, downs, blame, aborted>>

-----------------------------------------------------------------------------
(* TcpServer, on the base loop *)

\* EventLoopThreadPool::NextLoop(): loops_[next_] is loop next_ + 1.
NextLoop ==
    IF NumThreads = 0 THEN Base
    ELSE IF next_ = NumThreads THEN 1 ELSE next_ + 1

\* The acceptor's callback ends with RunInLoop(f) on loop target.
ReturnAndRunInLoopOf(target, f) ==
    IF target = Base
    THEN frames' = [frames EXCEPT ![Base] = <<f>>] /\ UNCHANGED queue
    ELSE /\ queue' = [queue EXCEPT ![target] = Append(@, f)]
         /\ UNCHANGED frames

\* NewConnection(), called by the acceptor's channel: the connection is
\* recorded before its loop hears of it.
NewConnection(c) ==
    /\ InLoop(Base, "handle")
    /\ Acceptable(c) \in active[Base] /\ c \notin Created
    /\ active' = [active EXCEPT ![Base] = @ \ {Acceptable(c)}]
    /\ state_' = [state_ EXCEPT ![c] = "kConnecting"]
    /\ loopOf' = [loopOf EXCEPT ![c] = NextLoop]
    /\ next_' = NextLoop
    /\ connections_' = connections_ \union {c}
    /\ ReturnAndRunInLoopOf(NextLoop, Call("ConnectionEstablished", c))
    /\ UNCHANGED <<phase, ran, channelVars, writeShut, peerVars,
                   userVars, downs, blame, aborted>>

RemoveConnectionInLoop(l, c) ==
    /\ Runs(l, Call("RemoveConnectionInLoop", c))
    /\ connections_' = connections_ \ {c}
    /\ ReturnAndRunInLoop(l, loopOf[c], Call("ConnectionDestroyed", c))
    /\ UNCHANGED <<loopVars, next_, loopOf, state_, channelVars, writeShut,
                   peerVars, userVars, downs, blame, aborted>>

-----------------------------------------------------------------------------
(* TcpConnection, on its loop *)

\* Any change of events_ registers the channel.
EnableReading(c) ==
    /\ interest' = [interest EXCEPT ![c] = TRUE]
    /\ registered' = [registered EXCEPT ![c] = TRUE]

DisableAll(c) ==
    /\ interest' = [interest EXCEPT ![c] = FALSE]
    /\ registered' = [registered EXCEPT ![c] = TRUE]

\* DisableAll, then RemoveFromPoller.
RemoveFromPoller(c) ==
    /\ interest' = [interest EXCEPT ![c] = FALSE]
    /\ registered' = [registered EXCEPT ![c] = FALSE]

\* EnableReading, then connectionCallback_.
ConnectionEstablished(l, c) ==
    /\ Runs(l, Call("ConnectionEstablished", c))
    /\ IF state_[c] = "kConnecting"
       THEN /\ state_' = [state_ EXCEPT ![c] = "kConnected"]
            /\ EnableReading(c)
            /\ ReturnAnd(l, <<Call("callback", c)>>)
            /\ UNCHANGED <<loopVars, queue, poolVars, reading_, writeShut,
                           peerVars, userVars, downs, blame, aborted>>
       ELSE Abort("ConnectionEstablished", c)

\* Mutation: the channel stays with epoll.
ConnectionDestroyedStaysRegistered(l, c) ==
    /\ Runs(l, Call("ConnectionDestroyed", c))
    /\ IF state_[c] = "kDisconnected"
       THEN /\ interest' = [interest EXCEPT ![c] = FALSE]
            /\ downs' = [downs EXCEPT ![c] = IF @ < 2 THEN @ + 1 ELSE 2]
            /\ ReturnAnd(l, <<>>)
            /\ UNCHANGED <<loopVars, queue, poolVars, state_, registered,
                           reading_, writeShut, peerVars, userVars, blame,
                           aborted>>
       ELSE Abort("ConnectionDestroyed", c)

\* connectionCallback_ only looks at the state of a closed connection.
ConnectionDestroyed(l, c) ==
    /\ Runs(l, Call("ConnectionDestroyed", c))
    /\ IF state_[c] = "kDisconnected"
       THEN /\ RemoveFromPoller(c)
            /\ downs' = [downs EXCEPT ![c] = IF @ < 2 THEN @ + 1 ELSE 2]
            /\ ReturnAnd(l, <<>>)
            /\ UNCHANGED <<loopVars, queue, poolVars, state_, reading_,
                           writeShut, peerVars, userVars, blame, aborted>>
       ELSE Abort("ConnectionDestroyed", c)

\* Mutation: the channel goes on reading.
HandleCloseNoDisable(l, c) ==
    IF state_[c] \in {"kConnected", "kDisconnecting"}
    THEN /\ UNCHANGED interest
         /\ registered' = [registered EXCEPT ![c] = TRUE]
         /\ state_' = [state_ EXCEPT ![c] = "kDisconnected"]
         /\ ReturnAndRunInLoop(l, Base, Call("RemoveConnectionInLoop", c))
         /\ UNCHANGED <<loopVars, poolVars, reading_, writeShut, peerVars,
                        userVars, downs, blame, aborted>>
    ELSE Abort("HandleClose", c)

\* Mutation: the state is not looked at.
HandleCloseUnchecked(l, c) ==
    IF TRUE
    THEN /\ DisableAll(c)
         /\ state_' = [state_ EXCEPT ![c] = "kDisconnected"]
         /\ ReturnAndRunInLoop(l, Base, Call("RemoveConnectionInLoop", c))
         /\ UNCHANGED <<loopVars, poolVars, reading_, writeShut, peerVars,
                        userVars, downs, blame, aborted>>
    ELSE Abort("HandleClose", c)

\* DisableAll, which leaves the channel registered (and registers it again
\* if it was not), then closeCallback_, TcpServer::RemoveConnection().
HandleClose(l, c) ==
    IF state_[c] \in {"kConnected", "kDisconnecting"}
    THEN /\ DisableAll(c)
         /\ state_' = [state_ EXCEPT ![c] = "kDisconnected"]
         /\ ReturnAndRunInLoop(l, Base, Call("RemoveConnectionInLoop", c))
         /\ UNCHANGED <<loopVars, poolVars, reading_, writeShut, peerVars,
                        userVars, downs, blame, aborted>>
    ELSE Abort("HandleClose", c)

\* ReadFd() finds bytes (messageCallback_), the end of the stream
\* (HandleClose), or an error, which it consumes (HandleError).
HandleRead(l, c) ==
    /\ Runs(l, Call("HandleRead", c))
    /\ IF ~data[c] /\ peer[c] \in {"fin", "gone"}
       THEN HandleClose(l, c)
       ELSE /\ ReturnAnd(l, IF data[c] THEN <<Call("callback", c)>> ELSE <<>>)
            /\ data' = [data EXCEPT ![c] = FALSE]
            /\ peer' = [peer EXCEPT ![c] =
                            IF ~data[c] /\ @ = "reset" THEN "gone" ELSE @]
            /\ UNCHANGED <<loopVars, queue, poolVars, state_, channelVars,
                           writeShut, userVars, downs, blame, aborted>>

\* HandleEvent() after the read callback: closeCallback_ on EPOLLHUP.
HandleHangUp(l, c) ==
    /\ Runs(l, Call("closeCallback_", c))
    /\ IF Alive(c) THEN HandleClose(l, c) ELSE Abort("freed Channel", c)

\* HandleEvent() after the read callback, without EPOLLHUP.
HandleEventReturns(l, c) ==
    /\ Runs(l, Call("return", c))
    /\ IF Alive(c)
       THEN /\ ReturnAnd(l, <<>>)
            /\ UNCHANGED <<loopVars, queue, poolVars, state_, channelVars,
                           writeShut, peerVars, userVars, downs, blame,
                           aborted>>
       ELSE Abort("freed Channel", c)

\* Shutdown() has stored kDisconnecting before this runs.
ShutdownInLoop(l, c) ==
    /\ Runs(l, Call("ShutdownInLoop", c))
    /\ writeShut' = [writeShut EXCEPT ![c] = @ \/ state_[c] = "kConnected"]
    /\ ReturnAnd(l, <<>>)
    /\ UNCHANGED <<loopVars, queue, poolVars, state_, channelVars, peerVars,
                   userVars, downs, blame, aborted>>

ForceCloseInLoop(l, c) ==
    /\ Runs(l, Call("ForceCloseInLoop", c))
    /\ IF state_[c] \in {"kConnected", "kDisconnecting"}
       THEN HandleClose(l, c)
       ELSE /\ ReturnAnd(l, <<>>)
            /\ UNCHANGED <<loopVars, queue, poolVars, state_, channelVars,
                           writeShut, peerVars, userVars, downs, blame,
                           aborted>>

\* Mutation: what the caller asked for, not what reading_ allows.
StopReadInLoopAnyway(l, c) ==
    /\ Runs(l, Call("StopReadInLoop", c))
    /\ interest' = [interest EXCEPT ![c] = FALSE]
    /\ reading_' = [reading_ EXCEPT ![c] = FALSE]
    /\ ReturnAnd(l, <<>>)
    /\ UNCHANGED <<loopVars, queue, poolVars, state_, registered, writeShut,
                   peerVars, userVars, downs, blame, aborted>>

\* Whatever the state of the connection.
StartReadInLoop(l, c) ==
    /\ Runs(l, Call("StartReadInLoop", c))
    /\ IF ~reading_[c] /\ ~interest[c]
       THEN /\ EnableReading(c)
            /\ reading_' = [reading_ EXCEPT ![c] = TRUE]
            /\ blame' = [blame EXCEPT ![c] = @ \union {"read again"}]
       ELSE UNCHANGED <<channelVars, blame>>
    /\ ReturnAnd(l, <<>>)
    /\ UNCHANGED <<loopVars, queue, poolVars, state_, writeShut, peerVars,
                   userVars, downs, aborted>>

StopReadInLoop(l, c) ==
    /\ Runs(l, Call("StopReadInLoop", c))
    /\ IF reading_[c] /\ interest[c]
       THEN /\ DisableAll(c)
            /\ reading_' = [reading_ EXCEPT ![c] = FALSE]
       ELSE UNCHANGED channelVars
    /\ ReturnAnd(l, <<>>)
    /\ UNCHANGED <<loopVars, queue, poolVars, state_, writeShut, peerVars,
                   userVars, downs, blame, aborted>>

-----------------------------------------------------------------------------
(* The user's code *)

\* state_ = kDisconnecting, whatever it was.
StoreDisconnecting(c) == state_' = [state_ EXCEPT ![c] = "kDisconnecting"]

Overwriting(c) == IF state_[c] = "kDisconnected" THEN {"overwritten"} ELSE {}

Blame(c, reasons) == blame' = [blame EXCEPT ![c] = @ \union reasons]

InCallback(l, c) == Runs(l, Call("callback", c))

\* A connection or message callback keeps its connection.
CallbackKeeps(l, c) ==
    /\ InCallback(l, c)
    /\ userHolds' = userHolds \union {c}
    /\ UNCHANGED <<loopVars, queue, frames, poolVars, state_, channelVars,
                   writeShut, peerVars, checked, userCalls, downs, blame,
                   aborted>>

\* It calls Shutdown() for a connection d of the same loop, its own or one
\* the user holds: the functor is called on the spot.
CallbackShutdown(l, c, d) ==
    /\ InCallback(l, c) /\ userCalls < MaxUserCalls
    /\ d \in userHolds \union {c} /\ loopOf[d] = l
    /\ state_[d] = "kConnected"
    /\ userCalls' = userCalls + 1
    /\ StoreDisconnecting(d)
    /\ frames' = [frames EXCEPT ![l] = <<Call("ShutdownInLoop", d)>> \o @]
    /\ UNCHANGED <<loopVars, queue, poolVars, channelVars, writeShut,
                   peerVars, userHolds, checked, downs, blame, aborted>>

\* The same for ForceClose(), whose condition is true in every state.
CallbackForceClose(l, c, d) ==
    /\ InCallback(l, c) /\ userCalls < MaxUserCalls
    /\ d \in userHolds \union {c} /\ loopOf[d] = l
    /\ userCalls' = userCalls + 1
    /\ StoreDisconnecting(d)
    /\ Blame(d, Overwriting(d)
                  \union (IF d = c THEN {} ELSE {"closed by another"}))
    /\ frames' = [frames EXCEPT ![l] = <<Call("ForceCloseInLoop", d)>> \o @]
    /\ UNCHANGED <<loopVars, queue, poolVars, channelVars, writeShut,
                   peerVars, userHolds, checked, downs, aborted>>

\* StartRead() and StopRead() look at nothing.
ReadOps == {"StartReadInLoop", "StopReadInLoop"}

CallbackReads(l, c, d) ==
    /\ InCallback(l, c) /\ userCalls < MaxUserCalls
    /\ d \in userHolds \union {c} /\ loopOf[d] = l
    /\ userCalls' = userCalls + 1
    /\ \E op \in ReadOps :
           frames' = [frames EXCEPT ![l] = <<Call(op, d)>> \o @]
    /\ UNCHANGED <<loopVars, queue, poolVars, state_, channelVars, writeShut,
                   peerVars, userHolds, checked, downs, blame, aborted>>

CallbackReturns(l, c) ==
    /\ InCallback(l, c)
    /\ ReturnAnd(l, <<>>)
    /\ UNCHANGED <<loopVars, queue, poolVars, state_, channelVars, writeShut,
                   peerVars, userVars, downs, blame, aborted>>

\* Shutdown() on a thread that is not the connection's: the check,
UserShutdownChecks(c) ==
    /\ aborted = {}
    /\ c \in userHolds \ checked /\ userCalls < MaxUserCalls
    /\ state_[c] = "kConnected"
    /\ checked' = checked \union {c}
    /\ userCalls' = userCalls + 1
    /\ UNCHANGED <<loopVars, queue, frames, poolVars, state_, channelVars,
                   writeShut, peerVars, userHolds, downs, blame, aborted>>

\* and the store, with the functor.
UserShutdownStores(c) ==
    /\ aborted = {} /\ c \in checked
    /\ checked' = checked \ {c}
    /\ StoreDisconnecting(c)
    /\ Blame(c, Overwriting(c))
    /\ queue' = [queue EXCEPT ![loopOf[c]] =
                     Append(@, Call("ShutdownInLoop", c))]
    /\ UNCHANGED <<loopVars, frames, poolVars, channelVars, writeShut,
                   peerVars, userHolds, userCalls, downs, aborted>>

\* ForceClose() on a thread that is not the connection's.
UserForceCloses(c) ==
    /\ aborted = {} /\ c \in userHolds /\ userCalls < MaxUserCalls
    /\ userCalls' = userCalls + 1
    /\ StoreDisconnecting(c)
    /\ Blame(c, Overwriting(c))
    /\ queue' = [queue EXCEPT ![loopOf[c]] =
                     Append(@, Call("ForceCloseInLoop", c))]
    /\ UNCHANGED <<loopVars, frames, poolVars, channelVars, writeShut,
                   peerVars, userHolds, checked, downs, aborted>>

\* StartRead() and StopRead() on a thread that is not the connection's.
UserReads(c) ==
    /\ aborted = {} /\ c \in userHolds /\ userCalls < MaxUserCalls
    /\ userCalls' = userCalls + 1
    /\ \E op \in ReadOps :
           queue' = [queue EXCEPT ![loopOf[c]] = Append(@, Call(op, c))]
    /\ UNCHANGED <<loopVars, frames, poolVars, state_, channelVars, writeShut,
                   peerVars, userHolds, checked, downs, blame, aborted>>

\* The user gives up its shared_ptr.
UserDrops(c) ==
    /\ aborted = {} /\ c \in userHolds
    /\ userHolds' = userHolds \ {c}
    /\ UNCHANGED <<loopVars, queue, frames, poolVars, state_, channelVars,
                   writeShut, peerVars, checked, userCalls, downs, blame,
                   aborted>>

-----------------------------------------------------------------------------
(* The peer of an accepted connection *)

PeerSends(c) ==
    /\ aborted = {} /\ c \in Created /\ peer[c] = "open" /\ ~data[c]
    /\ data' = [data EXCEPT ![c] = TRUE]
    /\ UNCHANGED <<loopVars, queue, frames, poolVars, state_, channelVars,
                   writeShut, peer, userVars, downs, blame, aborted>>

PeerCloses(c) ==
    /\ aborted = {} /\ c \in Created /\ peer[c] = "open"
    /\ peer' = [peer EXCEPT ![c] = "fin"]
    /\ UNCHANGED <<loopVars, queue, frames, poolVars, state_, channelVars,
                   writeShut, data, userVars, downs, blame, aborted>>

\* After the end of the stream a reset shows as EPOLLHUP only.
PeerResets(c) ==
    /\ aborted = {} /\ c \in Created /\ peer[c] \in {"open", "fin"}
    /\ peer' = [peer EXCEPT ![c] = IF @ = "open" THEN "reset" ELSE "gone"]
    /\ Blame(c, {"reset"})
    /\ UNCHANGED <<loopVars, queue, frames, poolVars, state_, channelVars,
                   writeShut, data, userVars, downs, aborted>>

-----------------------------------------------------------------------------
\* What the thread of loop l does on its own.
LoopStep(l) ==
    \/ Poll(l) \/ TakeFunctors(l) \/ EndIteration(l)
    \/ \E e \in active[l] : HandleEvent(l, e)
    \/ \E c \in Conns :
        \/ HandleRead(l, c) \/ HandleHangUp(l, c) \/ HandleEventReturns(l, c)
        \/ ConnectionEstablished(l, c) \/ ConnectionDestroyed(l, c)
        \/ RemoveConnectionInLoop(l, c)
        \/ ShutdownInLoop(l, c) \/ ForceCloseInLoop(l, c)
        \/ StartReadInLoop(l, c) \/ StopReadInLoop(l, c)
        \/ CallbackReturns(l, c)
        \/ l = Base /\ NewConnection(c)

UserStep ==
    \/ \E l \in Loops, c \in Conns :
        \/ CallbackKeeps(l, c)
        \/ \E d \in Conns :
            \/ CallbackShutdown(l, c, d) \/ CallbackForceClose(l, c, d)
            \/ CallbackReads(l, c, d)
    \/ \E c \in Conns :
        \/ UserShutdownChecks(c) \/ UserShutdownStores(c)
        \/ UserForceCloses(c) \/ UserReads(c) \/ UserDrops(c)

PeerStep == \E c \in Conns : PeerSends(c) \/ PeerCloses(c) \/ PeerResets(c)

Next == (\E l \in Loops : LoopStep(l)) \/ UserStep \/ PeerStep

\* The loop threads go on, and callbacks return.
Fairness == \A l \in Loops : WF_vars(LoopStep(l))

Spec == Init /\ [][Next]_vars /\ Fairness

-----------------------------------------------------------------------------
(* Properties *)

TypeOK ==
    /\ phase \in [Loops -> {"poll", "handle", "run"}]
    /\ \A l \in Loops :
        /\ active[l] \subseteq [conn : Conns, in : BOOLEAN, hup : BOOLEAN]
        /\ queue[l] \in Seq([op : FunctorOps, conn : Conns])
        /\ frames[l] \in Seq([op : FrameOps, conn : Conns])
        /\ ran[l] \subseteq Conns
    /\ next_ \in Loops
    /\ connections_ \subseteq Conns
    /\ loopOf \in [Conns -> Loops]
    /\ state_ \in [Conns -> {"none", "kConnecting", "kConnected",
                             "kDisconnecting", "kDisconnected"}]
    /\ interest \in [Conns -> BOOLEAN]
    /\ registered \in [Conns -> BOOLEAN]
    /\ reading_ \in [Conns -> BOOLEAN]
    /\ writeShut \in [Conns -> BOOLEAN]
    /\ peer \in [Conns -> {"open", "fin", "reset", "gone"}]
    /\ data \in [Conns -> BOOLEAN]
    /\ userHolds \subseteq Conns
    /\ checked \subseteq Conns
    /\ userCalls \in 0 .. MaxUserCalls
    /\ downs \in [Conns -> 0 .. 2]
    /\ \A c \in Conns :
           blame[c] \subseteq
               {"overwritten", "closed by another", "reset", "read again"}
    /\ aborted \subseteq
           [op : {"ConnectionEstablished", "ConnectionDestroyed",
                  "HandleClose", "freed Channel"}, conn : Conns]

Overwritten(c) == "overwritten" \in blame[c]
ReadAgain(c) == "read again" \in blame[c]

\* The assertions on state_ fail for four reasons only: a peer that resets
\* the connection (EPOLLHUP after the close), a callback that closes another
\* connection of its loop (whose events are already on their way), a user
\* whose Shutdown() or ForceClose() overwrites kDisconnected, or one whose
\* StartRead() finds the connection closed, and so has its end read again.
\* With I/O threads no channel is used after its connection, but for the last.
AbortsExplained ==
    \A f \in aborted :
        /\ f.op # "ConnectionEstablished"
        /\ f.op = "ConnectionDestroyed" => Overwritten(f.conn)
        /\ f.op = "HandleClose" =>
               blame[f.conn] \intersect
                   {"reset", "closed by another", "read again"} # {}
        /\ f.op = "freed Channel" => NumThreads = 0 \/ ReadAgain(f.conn)

\* As long as epoll knows the channel of a connection, or a loop has it among
\* its active channels or works on it, the connection is not destroyed, unless
\* StartRead() registered the channel of a closed connection.
NoDanglingChannel ==
    NumThreads > 0 =>
        \A c \in Created :
            \/ Alive(c) \/ ReadAgain(c)
            \/ /\ ~registered[c]
               /\ \A l \in Loops : \A e \in active[l] \union Range(frames[l]) :
                      e.conn # c

\* ~TcpConnection() and ~Channel() run on the last release, whoever does it:
\* their assertions hold then, with the same exceptions.
DestructorsAssert ==
    \A c \in Created :
        Alive(c) \/ Overwritten(c) \/ ReadAgain(c)
            \/ (state_[c] = "kDisconnected" /\ ~registered[c])

\* The user hears of the end of a connection once, whoever closes it first,
\* unless it overwrote kDisconnected.
OneDownCallback ==
    \A c \in Conns : downs[c] <= 1 \/ Overwritten(c)

\* The server knows every connection that is not closed yet, and epoll goes on
\* watching its input: reading_ is false while it is open, so that StopRead()
\* does nothing then, and StartRead() has nothing to do.
OpenConnectionsServed ==
    \A c \in Conns :
        /\ state_[c] \in {"kConnecting", "kConnected", "kDisconnecting"} =>
               c \in connections_ \/ Overwritten(c)
        /\ state_[c] \in {"kConnected", "kDisconnecting"} =>
               (interest[c] /\ registered[c] /\ ~reading_[c])
                   \/ Overwritten(c)

\* A connection lives as long as it is needed, and no longer: it is listed and
\* read until it is closed, it outlives the use of its channel, and its
\* destructor finds it closed and unregistered.
LifetimesSafe == NoDanglingChannel /\ DestructorsAssert /\ OpenConnectionsServed

\* A connection whose peer is gone leaves the server and its channel leaves
\* epoll, unless StartRead() brings it back or the program aborts.
DeadConnectionsLeave ==
    \A c \in Conns :
        peer[c] # "open"
            ~> \/ c \notin connections_ /\ ~registered[c]
               \/ ReadAgain(c) \/ aborted # {}

\* What TcpConnection.h says of Shutdown(), 通知loop线程关闭写端 (tell the loop
\* thread to shut the write end): once ShutdownInLoop() has run for a
\* connection that is not closed, its write end is shut.
ShutdownShutsWriteEnd ==
    [][\A l \in Loops, c \in Conns :
           /\ Runs(l, Call("ShutdownInLoop", c))
           /\ frames'[l] = Tail(frames[l])
           /\ state_[c] # "kDisconnected"
           => writeShut'[c]]_vars
=============================================================================
