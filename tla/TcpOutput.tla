------------------------------ MODULE TcpOutput ------------------------------
(***************************************************************************)
(* How a TcpConnection sends (net/TcpConnection.cc): Send() from its loop  *)
(* thread and from others, what does not fit into the socket kept in the   *)
(* output buffer, write interest, the high water mark, the callbacks, and  *)
(* output that waits when the connection is shut down, closed or reset.    *)
(*                                                                         *)
(* One established connection whose loop is not the server's base loop;    *)
(* the rest of its life, ForceClose() from other threads and the gap       *)
(* inside Shutdown() are the subject of TcpServer.  SendInLoop is queued   *)
(* with a raw pointer to the connection, the other functors share it.      *)
(***************************************************************************)
EXTENDS Naturals, Sequences, Functions

CONSTANTS
    Users,          \* threads other than the loop's that call Send
    Lengths,        \* how many bytes a call of Send passes
    HighWaterMark,
    MaxSends        \* bound: calls of Send

ASSUME TcpOutputAssumption ==
    /\ Lengths \subseteq Nat \ {0}
    /\ HighWaterMark \in Nat \ {0}
    /\ MaxSends \in Nat

VARIABLES
    state_,                 \* TcpConnection::state_
    outputBuffer_,          \* its readable bytes
    writing,                \* the channel asks for EPOLLOUT
    writeShut,              \* ShutdownWrite() was called on the socket
    writeCompleteCallback_, \* whether the user has set it
    removal,                \* how far the server is with the closed connection
    wire,                   \* bytes the socket has taken
    reset,                  \* the peer has reset the connection
    phase,                  \* of the loop: "poll", "handle" or "run"
    frames,                 \* calls on the loop thread, innermost first
    functors,               \* taken by the loop and not called yet
    pendingFunctors_,
    ran,                    \* a functor of this batch shares the connection
    holders,                \* users that have a shared_ptr to it
    sending,                \* data of a user between test and RunInLoop
    sends,                  \* history: calls of Send that passed the test
    accepted,               \* history: bytes SendInLoop did not refuse
    told,                   \* history: high water callbacks since the buffer
                            \* was last below the mark
    late,                   \* history: a Send queued after the close
    aborted                 \* the call in which the program died, if any

bufferVars == <<outputBuffer_, writing, wire, accepted, told>>
connVars == <<state_, writeShut, removal>>
loopVars == <<phase, functors, ran>>
userVars == <<holders, sending, sends, late>>
vars == <<bufferVars, connVars, loopVars, frames, pendingFunctors_, userVars,
          writeCompleteCallback_, reset, aborted>>

(* The data of the n-th call of Send. *)
Bytes(n, length) == [i \in 1 .. length |-> <<n, i>>]

Functor(op, data) == [op |-> op, data |-> data]
Shares(f) == f.op # "SendInLoop"

Closed == state_ = "kDisconnected"

(* write() fails from now on. *)
Broken == reset \/ writeShut

(* Some shared_ptr to the connection is left. *)
Alive ==
    \/ removal # "done"
    \/ holders # {}
    \/ ran
    \/ frames # <<>>
    \/ \E f \in Range(functors) \union Range(pendingFunctors_) : Shares(f)

Init ==
    /\ state_ = "kConnected"
    /\ outputBuffer_ = <<>>
    /\ writing = FALSE
    /\ writeShut = FALSE
    /\ writeCompleteCallback_ \in BOOLEAN
    /\ removal = "no"
    /\ wire = <<>>
    /\ reset = FALSE
    /\ phase = "poll"
    /\ frames = <<>>
    /\ functors = <<>>
    /\ pendingFunctors_ = <<>>
    /\ ran = FALSE
    /\ holders = Users
    /\ sending = [u \in Users |-> <<>>]
    /\ sends = 0
    /\ accepted = <<>>
    /\ told = 0
    /\ late = FALSE
    /\ aborted = {}

-----------------------------------------------------------------------------
(* On the loop thread *)

Abort(call) ==
    /\ aborted' = {call}
    /\ UNCHANGED <<bufferVars, connVars, loopVars, frames, pendingFunctors_,
                   userVars, writeCompleteCallback_, reset>>

(* The thread is in the call f. *)
Runs(f) == aborted = {} /\ frames # <<>> /\ Head(frames) = f

ReturnAnd(calls) == frames' = calls \o Tail(frames)

(* The thread has returned to Loop(). *)
InLoop(step) == aborted = {} /\ frames = <<>> /\ phase = step

(* Mutation: write interest is left as it is. *)
KeepForLaterSilently(rest) ==
    /\ IF /\ Len(outputBuffer_) + Len(rest) >= HighWaterMark
          /\ Len(outputBuffer_) < HighWaterMark
       THEN /\ pendingFunctors_' = Append(pendingFunctors_,
                                          Functor("highWaterMarkCallback_", <<>>))
            /\ told' = told + 1
       ELSE UNCHANGED <<pendingFunctors_, told>>
    /\ outputBuffer_' = outputBuffer_ \o rest
    /\ UNCHANGED writing

(* What write() has left over goes to the buffer. *)
KeepForLater(rest) ==
    LET oldBytes == Len(outputBuffer_) IN
    /\ IF /\ oldBytes + Len(rest) >= HighWaterMark
          /\ oldBytes < HighWaterMark
       THEN /\ pendingFunctors_' = Append(pendingFunctors_,
                                          Functor("highWaterMarkCallback_", <<>>))
            /\ told' = told + 1
       ELSE UNCHANGED <<pendingFunctors_, told>>
    /\ outputBuffer_' = outputBuffer_ \o rest
    /\ writing' = TRUE

(* Mutation: new data may overtake what waits. *)
DirectWritesAlways(data) == IF ~Broken THEN 0 .. Len(data) ELSE {0}

(* How many bytes of data write() takes, if it is called: none if the      *)
(* socket is full, write() is interrupted, or the peer has gone (EPIPE).   *)
DirectWrites(data) ==
    IF ~writing /\ outputBuffer_ = <<>> /\ ~Broken THEN 0 .. Len(data) ELSE {0}

(* SendInLoop, called with the stack `below`: refused, written at once, or *)
(* kept for HandleWrite().                                                 *)
SendInLoop(data, below) ==
    IF state_ = "kConnected"
    THEN \E n \in DirectWrites(data) :
            /\ wire' = wire \o SubSeq(data, 1, n)
            /\ accepted' = accepted \o data
            /\ IF n = Len(data) /\ writeCompleteCallback_
               THEN /\ frames' = <<"callback">> \o below
                    /\ UNCHANGED <<outputBuffer_, writing, told,
                                   pendingFunctors_>>
               ELSE /\ KeepForLater(SubSeq(data, n + 1, Len(data)))
                    /\ frames' = below
    ELSE /\ frames' = below
         /\ UNCHANGED <<bufferVars, pendingFunctors_>>

(* write() after a reset may also fail with ECONNRESET: LOG_SYSFATAL. *)
WriteIsFatal ==
    /\ state_ = "kConnected"
    /\ ~writing /\ outputBuffer_ = <<>> /\ reset

(* ShutdownInLoop, called when the connection is in state `state`. *)
ShutdownInLoop(state) ==
    writeShut' = (writeShut \/ (state = "kConnected" /\ ~writing))

(* Mutation: the server forgets the connection without asking its loop. *)
HandleCloseAtOnce ==
    /\ Runs("HandleClose")
    /\ IF state_ \in {"kConnected", "kDisconnecting"}
       THEN /\ writing' = FALSE
            /\ state_' = "kDisconnected"
            /\ removal' = "done"
            /\ ReturnAnd(<<>>)
            /\ UNCHANGED <<outputBuffer_, wire, accepted, told, writeShut,
                           loopVars, pendingFunctors_, userVars,
                           writeCompleteCallback_, reset, aborted>>
       ELSE Abort("HandleClose")

(* DisableAll and closeCallback_: the base loop is asked to remove it. *)
HandleClose ==
    /\ Runs("HandleClose")
    /\ IF state_ \in {"kConnected", "kDisconnecting"}
       THEN /\ writing' = FALSE
            /\ state_' = "kDisconnected"
            /\ removal' = "asked"
            /\ ReturnAnd(<<>>)
            /\ UNCHANGED <<outputBuffer_, wire, accepted, told, writeShut,
                           loopVars, pendingFunctors_, userVars,
                           writeCompleteCallback_, reset, aborted>>
       ELSE Abort("HandleClose")

(* HandleWrite() of a connection that has been closed meanwhile, or whose  *)
(* write() takes nothing: no bytes, no room after all, or an error.        *)
HandleWriteNothing ==
    /\ Runs("HandleWrite")
    /\ ReturnAnd(<<>>)
    /\ UNCHANGED <<bufferVars, connVars, loopVars, pendingFunctors_, userVars,
                   writeCompleteCallback_, reset, aborted>>

(* What is due when the buffer has become empty. *)
WhenWrittenAll ==
    (IF writeCompleteCallback_ THEN <<"callback">> ELSE <<>>) \o <<"wroteAll">>

(* Mutation: write interest is given up after each write. *)
HandleWriteSomeOnce ==
    /\ Runs("HandleWrite")
    /\ writing /\ ~Broken
    /\ \E n \in 1 .. Len(outputBuffer_) :
        /\ wire' = wire \o SubSeq(outputBuffer_, 1, n)
        /\ outputBuffer_' = SubSeq(outputBuffer_, n + 1, Len(outputBuffer_))
        /\ told' = IF Len(outputBuffer_') < HighWaterMark THEN 0 ELSE told
        /\ writing' = FALSE
        /\ ReturnAnd(IF n = Len(outputBuffer_) THEN WhenWrittenAll ELSE <<>>)
    /\ UNCHANGED <<accepted, connVars, loopVars, pendingFunctors_, userVars,
                   writeCompleteCallback_, reset, aborted>>

HandleWriteSome ==
    /\ Runs("HandleWrite")
    /\ writing /\ ~Broken
    /\ \E n \in 1 .. Len(outputBuffer_) :
        /\ wire' = wire \o SubSeq(outputBuffer_, 1, n)
        /\ outputBuffer_' = SubSeq(outputBuffer_, n + 1, Len(outputBuffer_))
        /\ told' = IF Len(outputBuffer_') < HighWaterMark THEN 0 ELSE told
        /\ writing' = (n < Len(outputBuffer_))
        /\ ReturnAnd(IF n = Len(outputBuffer_) THEN WhenWrittenAll ELSE <<>>)
    /\ UNCHANGED <<accepted, connVars, loopVars, pendingFunctors_, userVars,
                   writeCompleteCallback_, reset, aborted>>

(* The rest of HandleWrite(), after the callback. *)
WroteAll ==
    /\ Runs("wroteAll")
    /\ ReturnAnd(<<>>)
    /\ IF state_ = "kDisconnecting" THEN ShutdownInLoop(state_)
                                    ELSE UNCHANGED writeShut
    /\ UNCHANGED <<bufferVars, state_, removal, loopVars, pendingFunctors_,
                   userVars, writeCompleteCallback_, reset, aborted>>

-----------------------------------------------------------------------------
(* The iterations of the loop *)

(* What HandleEvent() calls for the events of the connection's channel:    *)
(* HandleRead(), which calls the message callback or ends in HandleClose() *)
(* or in neither, HandleWrite(), and on EPOLLHUP HandleClose().            *)
EventCalls(in, out) ==
    (IF in = "data" THEN <<"callback">> ELSE <<>>)
    \o (IF in = "eof" THEN <<"HandleClose">> ELSE <<>>)
    \o (IF out THEN <<"HandleWrite">> ELSE <<>>)
    \o (IF reset /\ removal # "done" THEN <<"HandleClose">> ELSE <<>>)

(* epoll_wait() returns. *)
Poll(in, out) ==
    /\ InLoop("poll")
    /\ in # "none" => ~Closed
    /\ in = "data" => ~reset
    /\ out => writing
    /\ EventCalls(in, out) # <<>> \/ pendingFunctors_ # <<>>
    /\ frames' = EventCalls(in, out)
    /\ phase' = "handle"
    /\ UNCHANGED <<bufferVars, connVars, functors, ran, pendingFunctors_,
                   userVars, writeCompleteCallback_, reset, aborted>>

Swap ==
    /\ InLoop("handle")
    /\ functors' = pendingFunctors_
    /\ pendingFunctors_' = <<>>
    /\ ran' = \E f \in Range(pendingFunctors_) : Shares(f)
    /\ phase' = "run"
    /\ UNCHANGED <<bufferVars, connVars, frames, userVars,
                   writeCompleteCallback_, reset, aborted>>

(* The next functor of the batch is op. *)
RunsFunctor(op) ==
    /\ InLoop("run")
    /\ functors # <<>>
    /\ Head(functors).op = op
    /\ functors' = Tail(functors)

RunSendInLoop ==
    /\ RunsFunctor("SendInLoop")
    /\ Alive
    /\ SendInLoop(Head(functors).data, <<>>)
    /\ UNCHANGED <<connVars, phase, ran, userVars, writeCompleteCallback_,
                   reset, aborted>>

RunSendInLoopFails ==
    /\ InLoop("run")
    /\ functors # <<>>
    /\ Head(functors).op = "SendInLoop"
    /\ IF Alive THEN WriteIsFatal /\ Abort("write")
                ELSE Abort("freed TcpConnection")

RunShutdownInLoop ==
    /\ RunsFunctor("ShutdownInLoop")
    /\ ShutdownInLoop(state_)
    /\ UNCHANGED <<bufferVars, state_, removal, phase, ran, frames,
                   pendingFunctors_, userVars, writeCompleteCallback_, reset,
                   aborted>>

RunHighWaterMarkCallback ==
    /\ RunsFunctor("highWaterMarkCallback_")
    /\ frames' = <<"callback">>
    /\ UNCHANGED <<bufferVars, connVars, phase, ran, pendingFunctors_,
                   userVars, writeCompleteCallback_, reset, aborted>>

(* The channel leaves epoll; the server has no more use for the connection *)
RunConnectionDestroyed ==
    /\ RunsFunctor("ConnectionDestroyed")
    /\ removal' = "done"
    /\ writing' = FALSE
    /\ frames' = <<"callback">>
    /\ UNCHANGED <<outputBuffer_, wire, accepted, told, state_, writeShut,
                   phase, ran, pendingFunctors_, userVars,
                   writeCompleteCallback_, reset, aborted>>

EndIteration ==
    /\ InLoop("run")
    /\ functors = <<>>
    /\ ran' = FALSE
    /\ phase' = "poll"
    /\ UNCHANGED <<bufferVars, connVars, functors, frames, pendingFunctors_,
                   userVars, writeCompleteCallback_, reset, aborted>>

-----------------------------------------------------------------------------
(* What callbacks do on the loop thread.  Send() and Shutdown() return at  *)
(* once if the connection is not kConnected.                               *)

CallbackSends(length) ==
    /\ Runs("callback")
    /\ state_ = "kConnected" /\ sends < MaxSends
    /\ sends' = sends + 1
    /\ SendInLoop(Bytes(sends', length), frames)
    /\ UNCHANGED <<connVars, loopVars, holders, sending, late,
                   writeCompleteCallback_, reset, aborted>>

CallbackSendFails ==
    /\ Runs("callback")
    /\ sends < MaxSends
    /\ WriteIsFatal
    /\ Abort("write")

CallbackShutsDown ==
    /\ Runs("callback")
    /\ state_ = "kConnected"
    /\ state_' = "kDisconnecting"
    /\ ShutdownInLoop(state_')
    /\ UNCHANGED <<bufferVars, removal, loopVars, frames, pendingFunctors_,
                   userVars, writeCompleteCallback_, reset, aborted>>

(* ForceClose() of a connection that is not closed yet: HandleClose(). *)
CallbackForceCloses ==
    /\ Runs("callback")
    /\ ~Closed
    /\ state_' = "kDisconnected"
    /\ writing' = FALSE
    /\ removal' = "asked"
    /\ UNCHANGED <<outputBuffer_, wire, accepted, told, writeShut, loopVars,
                   frames, pendingFunctors_, userVars,
                   writeCompleteCallback_, reset, aborted>>

CallbackReturns ==
    /\ Runs("callback")
    /\ ReturnAnd(<<>>)
    /\ UNCHANGED <<bufferVars, connVars, loopVars, pendingFunctors_, userVars,
                   writeCompleteCallback_, reset, aborted>>

-----------------------------------------------------------------------------
(* Other threads *)

UserSendTests(u, length) ==
    /\ aborted = {}
    /\ u \in holders /\ sending[u] = <<>>
    /\ state_ = "kConnected" /\ sends < MaxSends
    /\ sends' = sends + 1
    /\ sending' = [sending EXCEPT ![u] = Bytes(sends', length)]
    /\ UNCHANGED <<bufferVars, connVars, loopVars, frames, pendingFunctors_,
                   holders, late, writeCompleteCallback_, reset, aborted>>

UserSendQueues(u) ==
    /\ aborted = {}
    /\ sending[u] # <<>>
    /\ pendingFunctors_' = Append(pendingFunctors_,
                                  Functor("SendInLoop", sending[u]))
    /\ sending' = [sending EXCEPT ![u] = <<>>]
    /\ late' = (late \/ Closed)
    /\ UNCHANGED <<bufferVars, connVars, loopVars, frames, holders, sends,
                   writeCompleteCallback_, reset, aborted>>

UserShutsDown(u) ==
    /\ aborted = {}
    /\ u \in holders /\ sending[u] = <<>>
    /\ state_ = "kConnected"
    /\ state_' = "kDisconnecting"
    /\ pendingFunctors_' = Append(pendingFunctors_,
                                  Functor("ShutdownInLoop", <<>>))
    /\ UNCHANGED <<bufferVars, writeShut, removal, loopVars, frames, userVars,
                   writeCompleteCallback_, reset, aborted>>

UserDrops(u) ==
    /\ aborted = {}
    /\ u \in holders /\ sending[u] = <<>>
    /\ holders' = holders \ {u}
    /\ UNCHANGED <<bufferVars, connVars, loopVars, frames, pendingFunctors_,
                   sending, sends, late, writeCompleteCallback_, reset,
                   aborted>>

(* RemoveConnectionInLoop() on the base loop. *)
ServerRemoves ==
    /\ aborted = {}
    /\ removal = "asked"
    /\ removal' = "queued"
    /\ pendingFunctors_' = Append(pendingFunctors_,
                                  Functor("ConnectionDestroyed", <<>>))
    /\ UNCHANGED <<bufferVars, state_, writeShut, loopVars, frames, userVars,
                   writeCompleteCallback_, reset, aborted>>

PeerResets ==
    /\ aborted = {}
    /\ ~reset /\ removal # "done"
    /\ reset' = TRUE
    /\ UNCHANGED <<bufferVars, connVars, loopVars, frames, pendingFunctors_,
                   userVars, writeCompleteCallback_, aborted>>

-----------------------------------------------------------------------------
Polls == \E in \in {"none", "data", "eof"}, out \in BOOLEAN : Poll(in, out)

Callback ==
    \/ \E length \in Lengths : CallbackSends(length)
    \/ CallbackSendFails
    \/ CallbackShutsDown
    \/ CallbackForceCloses

Handler == HandleClose \/ HandleWriteNothing \/ HandleWriteSome \/ WroteAll

RunFunctor ==
    \/ RunSendInLoop
    \/ RunSendInLoopFails
    \/ RunShutdownInLoop
    \/ RunHighWaterMarkCallback
    \/ RunConnectionDestroyed

User(u) ==
    \/ \E length \in Lengths : UserSendTests(u, length)
    \/ UserSendQueues(u)
    \/ UserShutsDown(u)
    \/ UserDrops(u)

Next ==
    \/ Polls
    \/ Handler
    \/ Callback
    \/ CallbackReturns
    \/ Swap
    \/ RunFunctor
    \/ EndIteration
    \/ \E u \in Users : User(u)
    \/ ServerRemoves
    \/ PeerResets

(* Callbacks return, the loop goes on, and threads inside Send() get to    *)
(* its end.  EPOLLOUT is reported again and again while it is asked for,   *)
(* and a peer that does not reset the connection goes on reading, so that  *)
(* write() does not find the socket full for ever.                         *)
Fairness ==
    /\ WF_vars(CallbackReturns)
    /\ WF_vars(Handler)
    /\ WF_vars(Swap \/ RunFunctor \/ EndIteration)
    /\ WF_vars(Polls)
    /\ SF_vars(\E in \in {"none", "data", "eof"} : Poll(in, TRUE))
    /\ SF_vars(HandleWriteSome)
    /\ \A u \in Users : WF_vars(UserSendQueues(u))

Spec == Init /\ [][Next]_vars /\ Fairness

-----------------------------------------------------------------------------
Data == Seq(Seq(Nat))
Ops == {"SendInLoop", "ShutdownInLoop", "highWaterMarkCallback_",
        "ConnectionDestroyed"}

(* Every variable has the type of its declaration; threads inside Send()   *)
(* have the connection, and a batch of functors is called to its end.      *)
TypeOK ==
    /\ state_ \in {"kConnected", "kDisconnecting", "kDisconnected"}
    /\ outputBuffer_ \in Data /\ wire \in Data /\ accepted \in Data
    /\ writing \in BOOLEAN /\ writeShut \in BOOLEAN
    /\ writeCompleteCallback_ \in BOOLEAN
    /\ removal \in {"no", "asked", "queued", "done"}
    /\ reset \in BOOLEAN
    /\ phase \in {"poll", "handle", "run"}
    /\ frames \in Seq({"callback", "HandleClose", "HandleWrite", "wroteAll"})
    /\ functors \in Seq([op : Ops, data : Data])
    /\ pendingFunctors_ \in Seq([op : Ops, data : Data])
    /\ ran \in BOOLEAN
    /\ holders \subseteq Users
    /\ sending \in [Users -> Data]
    /\ \A u \in Users : sending[u] # <<>> => u \in holders
    /\ functors # <<>> => phase = "run"
    /\ sends \in 0 .. MaxSends
    /\ told \in Nat
    /\ late \in BOOLEAN
    /\ aborted \subseteq {"HandleClose", "write", "freed TcpConnection"}

(* What SendInLoop accepts reaches the socket in the order it was accepted *)
(* and is not lost or repeated: what write() left over, at either of the   *)
(* two places that call it, is in the buffer, and nothing overtakes it,    *)
(* also when a write complete callback sends from inside another send.     *)
StreamInOrder == wire \o outputBuffer_ = accepted

(* Output waits only if EPOLLOUT will be asked for.  The interest goes     *)
(* with the last byte, if there is a writeCompleteCallback_ to tell.       *)
InterestFollowsOutput ==
    ~Closed => /\ outputBuffer_ # <<>> => writing
               /\ writeCompleteCallback_ /\ writing => outputBuffer_ # <<>>

(* As net/TcpConnection.h:82 says, the callback is due when the output     *)
(* buffer is not below the mark: once, until it has been below it again.   *)
HighWaterToldOnce ==
    told = IF Len(outputBuffer_) >= HighWaterMark THEN 1 ELSE 0

(* The write event and the high water mark follow the output buffer.       *)
BufferWatched == InterestFollowsOutput /\ HighWaterToldOnce

(* The program dies only after a reset by the peer, or when a Send that    *)
(* tested the state before the connection was closed was queued after it.  *)
(* All other sends run before the connection can be gone, although they    *)
(* are queued with a raw pointer (net/TcpConnection.cc:61).                *)
AbortsExplained ==
    /\ aborted \intersect {"HandleClose", "write"} # {} => reset
    /\ aborted = {"freed TcpConnection"} => late

(* Output does not get stuck, whatever callbacks do in between: what is    *)
(* accepted is written, Shutdown() or not, unless the connection dies.     *)
OutputDrains ==
    wire # accepted ~> \/ wire = accepted
                       \/ Closed \/ reset \/ aborted # {}
=============================================================================
