-------------------------- MODULE TcpServerProofs --------------------------
(***************************************************************************)
(* Theorems about TcpServer, for any number of connections, threads and    *)
(* calls of the user.  The inductive invariant grows in layers, each the   *)
(* conjunction of the one before and of what it adds:                      *)
(*   LifeInv    one call at a time moves a connection from one state of    *)
(*              its life to the next, calls and events fit the state       *)
(*   ServedInv  open connections are listed and read, and only these       *)
(*   WorkInv    the events and the calls of a loop iteration find the      *)
(*              channel registered, and close a connection once            *)
(*   ServerInv  a registered channel has a connection that is listed, or   *)
(*              held by the call that will remove it                       *)
(***************************************************************************)
EXTENDS TcpServer, SequenceLemmas

USE TcpServerAssumption DEF TcpServerAssumption

FunctorType == [op : FunctorOps, conn : Conns]
FrameType == [op : FrameOps, conn : Conns]
EventType == [conn : Conns, in : BOOLEAN, hup : BOOLEAN]
Reasons == {"overwritten", "closed by another", "reset", "read again"}

States == {"none", "kConnecting", "kConnected", "kDisconnecting",
           "kDisconnected"}
AbortType ==
    [op : {"ConnectionEstablished", "ConnectionDestroyed", "HandleClose",
           "freed Channel"}, conn : Conns]

\* TypeOK, with the domains of the variables that it speaks of pointwise.
Typed ==
    /\ phase \in [Loops -> {"poll", "handle", "run"}]
    /\ active \in [Loops -> SUBSET EventType]
    /\ queue \in [Loops -> Seq(FunctorType)]
    /\ frames \in [Loops -> Seq(FrameType)]
    /\ ran \in [Loops -> SUBSET Conns]
    /\ next_ \in Loops
    /\ connections_ \subseteq Conns
    /\ loopOf \in [Conns -> Loops]
    /\ state_ \in [Conns -> States]
    /\ interest \in [Conns -> BOOLEAN] /\ registered \in [Conns -> BOOLEAN]
    /\ reading_ \in [Conns -> BOOLEAN] /\ writeShut \in [Conns -> BOOLEAN]
    /\ peer \in [Conns -> {"open", "fin", "reset", "gone"}]
    /\ data \in [Conns -> BOOLEAN]
    /\ userHolds \subseteq Conns /\ checked \subseteq Conns
    /\ userCalls \in 0 .. MaxUserCalls
    /\ downs \in [Conns -> 0 .. 2]
    /\ blame \in [Conns -> SUBSET Reasons]
    /\ aborted \subseteq AbortType

-----------------------------------------------------------------------------
(* Types *)

\* The calls that the program makes have the type of a frame or a functor.
LEMMA CallType ==
    ASSUME NEW c \in Conns
    PROVE  /\ \A op \in FunctorOps : /\ Call(op, c) \in FunctorType
                                     /\ <<Call(op, c)>> \in Seq(FrameType)
           /\ \A op \in FrameOps : /\ Call(op, c) \in FrameType
                                   /\ <<Call(op, c)>> \in Seq(FrameType)
           /\ <<>> \in Seq(FrameType)
           /\ \A op : Call(op, c).op = op /\ Call(op, c).conn = c
  <1>1. FunctorOps \subseteq FrameOps
    BY DEF FrameOps
  <1>2. /\ \A op \in FunctorOps : Call(op, c) \in FunctorType
        /\ \A op \in FrameOps : Call(op, c) \in FrameType
        /\ \A op : Call(op, c).op = op /\ Call(op, c).conn = c
    BY DEF Call, FunctorType, FrameType
  <1>3. \A f \in FrameType : <<f>> \in Seq(FrameType)
    OBVIOUS
  <1>. QED  BY <1>1, <1>2, <1>3

\* Functors can be on the stack.
LEMMA FunctorsAreFrames ==
    ASSUME NEW s \in Seq(FunctorType)
    PROVE  s \in Seq(FrameType)
  <1>1. FunctorType \subseteq FrameType
    BY DEF FunctorType, FrameType, FrameOps
  <1>2. \A i \in 1 .. Len(s) : s[i] \in FrameType
    BY <1>1
  <1>. QED  BY <1>2

\* The stack after a return with calls.
LEMMA ReturnType ==
    ASSUME Typed, NEW l \in Loops, frames[l] # <<>>,
           NEW calls \in Seq(FrameType), ReturnAnd(l, calls)
    PROVE  /\ frames' \in [Loops -> Seq(FrameType)]
           /\ frames'[l] = calls \o Tail(frames[l])
           /\ \A m \in Loops : m # l => frames'[m] = frames[m]
  <1>1. frames \in [Loops -> Seq(FrameType)] /\ frames[l] \in Seq(FrameType)
    BY DEF Typed
  <1>2. Tail(frames[l]) \in Seq(FrameType)
    BY <1>1
  <1>3. calls \o Tail(frames[l]) \in Seq(FrameType)
    BY <1>2
  <1>4. frames' = [frames EXCEPT ![l] = calls \o Tail(frames[l])]
    BY DEF ReturnAnd
  <1>. QED  BY <1>1, <1>3, <1>4

\* The queue of a loop that is given one more functor.
LEMMA QueueType ==
    ASSUME Typed, NEW l \in Loops, NEW f \in FunctorType,
           queue' = [queue EXCEPT ![l] = Append(@, f)]
    PROVE  /\ queue' \in [Loops -> Seq(FunctorType)]
           /\ queue'[l] = Append(queue[l], f)
           /\ \A m \in Loops : m # l => queue'[m] = queue[m]
  <1>1. queue \in [Loops -> Seq(FunctorType)] /\ queue[l] \in Seq(FunctorType)
    BY DEF Typed
  <1>2. Append(queue[l], f) \in Seq(FunctorType)
    BY <1>1
  <1>. QED  BY <1>1, <1>2

\* The call returns and hands the functor op to loop target.
LEMMA HandOverType ==
    ASSUME Typed, NEW l \in Loops, frames[l] # <<>>, NEW target \in Loops,
           NEW op \in FunctorOps, NEW c \in Conns,
           ReturnAndRunInLoop(l, target, Call(op, c))
    PROVE  /\ frames' \in [Loops -> Seq(FrameType)]
           /\ queue' \in [Loops -> Seq(FunctorType)]
  <1>1. Call(op, c) \in FunctorType /\ <<Call(op, c)>> \in Seq(FrameType)
        /\ <<>> \in Seq(FrameType) /\ queue \in [Loops -> Seq(FunctorType)]
    BY CallType DEF Typed
  <1>2. CASE l = target
    BY <1>1, <1>2, ReturnType DEF ReturnAndRunInLoop
  <1>3. CASE l # target
    BY <1>1, <1>3, ReturnType, QueueType DEF ReturnAndRunInLoop
  <1>. QED  BY <1>2, <1>3

\* Typed is TypeOK for variables that are functions.
LEMMA TypedIsTypeOK == Typed => TypeOK
  BY DEF Typed, TypeOK, FunctorType, FrameType, EventType, Reasons, States,
     AbortType

\* Everything that no step changes together with the calls and the queues.
LEMMA InitTyped == Init => Typed
  <1>. SUFFICES ASSUME Init
                PROVE  Typed
    OBVIOUS
  <1>1. /\ active \in [Loops -> SUBSET EventType]
        /\ queue \in [Loops -> Seq(FunctorType)]
        /\ frames \in [Loops -> Seq(FrameType)]
        /\ ran \in [Loops -> SUBSET Conns]
        /\ blame \in [Conns -> SUBSET Reasons]
        /\ phase \in [Loops -> {"poll", "handle", "run"}]
    BY DEF Init
  <1>2. 0 \in Loops /\ userCalls \in 0 .. MaxUserCalls
    BY DEF Init, Loops
  <1>. QED  BY <1>1, <1>2 DEF Init, Typed, States, Base

\* A state is stored, or a reason noted.
LEMMA StateType ==
    ASSUME Typed, NEW c \in Conns, NEW state \in States,
           state_' = [state_ EXCEPT ![c] = state]
    PROVE  state_' \in [Conns -> States]
  BY DEF Typed

LEMMA BlameType ==
    ASSUME Typed, NEW c \in Conns, NEW reasons \in SUBSET Reasons,
           blame' = [blame EXCEPT ![c] = @ \union reasons]
    PROVE  blame' \in [Conns -> SUBSET Reasons]
  <1>1. blame[c] \union reasons \in SUBSET Reasons
    BY DEF Typed
  <1>. QED  BY <1>1 DEF Typed

\* A check that fails keeps the types.
LEMMA AbortTyped ==
    ASSUME Typed, NEW c \in Conns,
           NEW check \in {"ConnectionEstablished", "ConnectionDestroyed",
                          "HandleClose", "freed Channel"},
           Abort(check, c)
    PROVE  Typed'
  <1>1. Call(check, c) \in AbortType
    BY DEF Call, AbortType
  <1>2. aborted' \subseteq AbortType
    BY <1>1 DEF Abort
  <1>. QED  BY <1>2 DEF Abort, Typed, loopVars, poolVars, channelVars,
               peerVars, userVars

\* HandleClose() keeps the types.
LEMMA HandleCloseTyped ==
    ASSUME Typed, NEW l \in Loops, NEW c \in Conns, frames[l] # <<>>,
           HandleClose(l, c)
    PROVE  Typed'
  <1>1. CASE state_[c] \in {"kConnected", "kDisconnecting"}
    <2>1. /\ DisableAll(c)
          /\ state_' = [state_ EXCEPT ![c] = "kDisconnected"]
          /\ ReturnAndRunInLoop(l, Base, Call("RemoveConnectionInLoop", c))
          /\ UNCHANGED <<loopVars, poolVars, reading_, writeShut, peerVars,
                         userVars, downs, blame, aborted>>
      BY <1>1 DEF HandleClose
    <2>2. Base \in Loops /\ "RemoveConnectionInLoop" \in FunctorOps
      BY DEF Base, Loops, FunctorOps
    <2>3. /\ frames' \in [Loops -> Seq(FrameType)]
          /\ queue' \in [Loops -> Seq(FunctorType)]
      BY <2>1, <2>2, HandOverType
    <2>4. state_' \in [Conns -> States]
      BY <2>1 DEF Typed, States
    <2>5. interest' \in [Conns -> BOOLEAN] /\ registered' \in [Conns -> BOOLEAN]
      BY <2>1 DEF Typed, DisableAll
    <2>. QED  BY <2>1, <2>3, <2>4, <2>5 DEF Typed, loopVars, poolVars,
                 peerVars, userVars
  <1>2. CASE state_[c] \notin {"kConnected", "kDisconnecting"}
    <2>1. Abort("HandleClose", c)
      BY <1>2 DEF HandleClose
    <2>. QED  BY <2>1, AbortTyped
  <1>. QED  BY <1>1, <1>2

\* Every step keeps the types.
LEMMA StepTyped ==
    ASSUME Typed, [Next]_vars
    PROVE  Typed'
  <1>. USE DEF loopVars, poolVars, channelVars, peerVars, userVars
  <1>1. CASE UNCHANGED vars
    BY <1>1 DEF Typed, vars
  <1>2. ASSUME NEW l \in Loops, Poll(l)
        PROVE  Typed'
    <2>1. \A c \in Conns : Reported(c) \in EventType
                           /\ Acceptable(c) \in EventType
      BY DEF Typed, Reported, Acceptable, EventType, HangsUp
    <2>2. PICK new \in SUBSET (IF l = Base THEN Conns \ Created ELSE {}) :
            active' = [active EXCEPT ![l] =
                          Ready(l) \union {Acceptable(c) : c \in new}]
      BY <1>2 DEF Poll
    <2>3. /\ \A c \in new : c \in Conns
          /\ Ready(l) \subseteq EventType
      BY <2>1 DEF Ready, Created
    <2>4. Ready(l) \union {Acceptable(c) : c \in new} \in SUBSET EventType
      BY <2>1, <2>3
    <2>5. active' \in [Loops -> SUBSET EventType]
      BY <2>2, <2>4 DEF Typed
    <2>. QED  BY <1>2, <2>5 DEF Poll, Typed
  <1>3. ASSUME NEW l \in Loops, TakeFunctors(l)
        PROVE  Typed'
    <2>1. queue[l] \in Seq(FunctorType) /\ queue[l] \in Seq(FrameType)
      BY FunctorsAreFrames DEF Typed
    <2>2. /\ frames' = [frames EXCEPT ![l] = queue[l]]
          /\ queue' = [queue EXCEPT ![l] = <<>>]
          /\ ran' = [ran EXCEPT ![l] = {f.conn : f \in Range(queue[l])}]
      BY <1>3 DEF TakeFunctors
    <2>3. {f.conn : f \in Range(queue[l])} \in SUBSET Conns
      <3>1. \A f \in Range(queue[l]) : f \in FunctorType
        BY <2>1 DEF Range
      <3>. QED  BY <3>1 DEF FunctorType
    <2>4. /\ frames' \in [Loops -> Seq(FrameType)]
          /\ queue' \in [Loops -> Seq(FunctorType)]
          /\ ran' \in [Loops -> SUBSET Conns]
      BY <2>1, <2>2, <2>3 DEF Typed
    <2>. QED  BY <1>3, <2>4 DEF TakeFunctors, Typed
  <1>4. ASSUME NEW l \in Loops, EndIteration(l)
        PROVE  Typed'
    BY <1>4 DEF EndIteration, Typed
  <1>5. ASSUME NEW l \in Loops, NEW e \in active[l], HandleEvent(l, e)
        PROVE  Typed'
    <2>1. e \in EventType /\ e.conn \in Conns
      BY DEF Typed, EventType
    <2>2. CASE Alive(e.conn)
      <3>. DEFINE read == IF e.in THEN <<Call("HandleRead", e.conn)>> ELSE <<>>
                  last == Call(IF e.hup THEN "closeCallback_" ELSE "return",
                               e.conn)
      <3>1. /\ {"HandleRead", "closeCallback_", "return"} \subseteq FrameOps
            /\ <<>> \in Seq(FrameType)
        BY DEF FrameOps, ChannelOps
      <3>2. read \in Seq(FrameType) /\ <<last>> \in Seq(FrameType)
        BY <2>1, <3>1, CallType
      <3>3. /\ active' = [active EXCEPT ![l] = @ \ {e}]
            /\ frames' = [frames EXCEPT ![l] = read \o <<last>>]
            /\ UNCHANGED <<phase, queue, ran, poolVars, state_, channelVars,
                           writeShut, peerVars, userVars, downs, blame,
                           aborted>>
        BY <1>5, <2>2 DEF HandleEvent
      <3>. HIDE DEF read, last
      <3>4. frames' \in [Loops -> Seq(FrameType)]
        BY <3>2, <3>3 DEF Typed
      <3>5. active' \in [Loops -> SUBSET EventType]
        BY <3>3 DEF Typed
      <3>. QED  BY <3>3, <3>4, <3>5 DEF Typed
    <2>3. CASE ~Alive(e.conn)
      BY <1>5, <2>1, <2>3, AbortTyped DEF HandleEvent
    <2>. QED  BY <2>2, <2>3
  <1>6. ASSUME NEW c \in Conns, NewConnection(c)
        PROVE  Typed'
    <2>1. NextLoop \in Loops /\ Base \in Loops
      BY DEF NextLoop, Loops, Base, Typed
    <2>2. /\ Call("ConnectionEstablished", c) \in FunctorType
          /\ <<Call("ConnectionEstablished", c)>> \in Seq(FrameType)
      BY CallType DEF FunctorOps
    <2>3. /\ frames' \in [Loops -> Seq(FrameType)]
          /\ queue' \in [Loops -> Seq(FunctorType)]
      <3>1. ReturnAndRunInLoopOf(NextLoop, Call("ConnectionEstablished", c))
        BY <1>6 DEF NewConnection
      <3>2. CASE NextLoop = Base
        BY <2>1, <2>2, <3>1, <3>2 DEF ReturnAndRunInLoopOf, Typed
      <3>3. CASE NextLoop # Base
        BY <2>1, <2>2, <3>1, <3>3, QueueType DEF ReturnAndRunInLoopOf, Typed
      <3>. QED  BY <3>2, <3>3
    <2>4. active' \in [Loops -> SUBSET EventType]
      BY <1>6 DEF NewConnection, Typed
    <2>5. /\ state_' \in [Conns -> States] /\ loopOf' \in [Conns -> Loops]
          /\ next_' \in Loops /\ connections_' \subseteq Conns
      BY <1>6, <2>1 DEF NewConnection, Typed, States
    <2>. QED  BY <1>6, <2>3, <2>4, <2>5 DEF NewConnection, Typed
  <1>7. ASSUME NEW l \in Loops, NEW c \in Conns, RemoveConnectionInLoop(l, c)
        PROVE  Typed'
    <2>1. /\ frames[l] # <<>> /\ loopOf[c] \in Loops
          /\ "ConnectionDestroyed" \in FunctorOps
      BY <1>7 DEF RemoveConnectionInLoop, Runs, Typed, FunctorOps
    <2>2. /\ frames' \in [Loops -> Seq(FrameType)]
          /\ queue' \in [Loops -> Seq(FunctorType)]
      BY <1>7, <2>1, HandOverType DEF RemoveConnectionInLoop
    <2>. QED  BY <1>7, <2>2 DEF RemoveConnectionInLoop, Typed
  <1>8. ASSUME NEW l \in Loops, NEW c \in Conns, ConnectionEstablished(l, c)
        PROVE  Typed'
    <2>1. CASE state_[c] = "kConnecting"
      <3>1. <<Call("callback", c)>> \in Seq(FrameType) /\ frames[l] # <<>>
        BY <1>8, CallType DEF ConnectionEstablished, Runs, FrameOps
      <3>2. frames' \in [Loops -> Seq(FrameType)]
        BY <1>8, <2>1, <3>1, ReturnType DEF ConnectionEstablished
      <3>3. state_' \in [Conns -> States]
        BY <1>8, <2>1, StateType DEF ConnectionEstablished, States
      <3>4. /\ interest' \in [Conns -> BOOLEAN]
            /\ registered' \in [Conns -> BOOLEAN]
        BY <1>8, <2>1 DEF ConnectionEstablished, Typed, EnableReading
      <3>. QED  BY <1>8, <2>1, <3>2, <3>3, <3>4 DEF ConnectionEstablished, Typed
    <2>2. CASE state_[c] # "kConnecting"
      BY <1>8, <2>2, AbortTyped DEF ConnectionEstablished
    <2>. QED  BY <2>1, <2>2
  <1>9. ASSUME NEW l \in Loops, NEW c \in Conns, ConnectionDestroyed(l, c)
        PROVE  Typed'
    <2>1. CASE state_[c] = "kDisconnected"
      <3>1. <<>> \in Seq(FrameType) /\ frames[l] # <<>>
        BY <1>9 DEF ConnectionDestroyed, Runs
      <3>2. frames' \in [Loops -> Seq(FrameType)]
        BY <1>9, <2>1, <3>1, ReturnType DEF ConnectionDestroyed
      <3>3. downs' \in [Conns -> 0 .. 2]
        <4>1. downs[c] \in 0 .. 2
          BY DEF Typed
        <4>2. (IF downs[c] < 2 THEN downs[c] + 1 ELSE 2) \in 0 .. 2
          BY <4>1
        <4>. QED  BY <1>9, <2>1, <4>2 DEF ConnectionDestroyed, Typed
      <3>4. /\ interest' \in [Conns -> BOOLEAN]
            /\ registered' \in [Conns -> BOOLEAN]
        BY <1>9, <2>1 DEF ConnectionDestroyed, Typed, RemoveFromPoller
      <3>. QED  BY <1>9, <2>1, <3>2, <3>3, <3>4 DEF ConnectionDestroyed, Typed
    <2>2. CASE state_[c] # "kDisconnected"
      BY <1>9, <2>2, AbortTyped DEF ConnectionDestroyed
    <2>. QED  BY <2>1, <2>2
  <1>10. ASSUME NEW l \in Loops, NEW c \in Conns, HandleRead(l, c)
        PROVE  Typed'
    <2>1. frames[l] # <<>>
      BY <1>10 DEF HandleRead, Runs
    <2>2. CASE ~data[c] /\ peer[c] \in {"fin", "gone"}
      BY <1>10, <2>1, <2>2, HandleCloseTyped DEF HandleRead
    <2>3. CASE ~(~data[c] /\ peer[c] \in {"fin", "gone"})
      <3>1. /\ <<Call("callback", c)>> \in Seq(FrameType)
            /\ <<>> \in Seq(FrameType)
        BY CallType DEF FrameOps
      <3>2. frames' \in [Loops -> Seq(FrameType)]
        BY <1>10, <2>1, <2>3, <3>1, ReturnType DEF HandleRead
      <3>3. /\ data' \in [Conns -> BOOLEAN]
            /\ peer' \in [Conns -> {"open", "fin", "reset", "gone"}]
        BY <1>10, <2>3 DEF HandleRead, Typed
      <3>. QED  BY <1>10, <2>3, <3>2, <3>3 DEF HandleRead, Typed
    <2>. QED  BY <2>2, <2>3
  <1>11. ASSUME NEW l \in Loops, NEW c \in Conns, HandleHangUp(l, c)
        PROVE  Typed'
    <2>1. frames[l] # <<>>
      BY <1>11 DEF HandleHangUp, Runs
    <2>. QED  BY <1>11, <2>1, HandleCloseTyped, AbortTyped DEF HandleHangUp
  <1>12. ASSUME NEW l \in Loops, NEW c \in Conns,
               HandleEventReturns(l, c) \/ ForceCloseInLoop(l, c)
        PROVE  Typed'
    <2>1. frames[l] # <<>> /\ <<>> \in Seq(FrameType)
      <3>1. frames[l] # <<>>
        BY <1>12 DEF HandleEventReturns, ForceCloseInLoop, Runs
      <3>. QED  BY <3>1, CallType
    <2>2. CASE HandleClose(l, c)
      BY <2>1, <2>2, HandleCloseTyped
    <2>3. CASE Abort("freed Channel", c)
      BY <2>3, AbortTyped
    <2>4. CASE /\ ReturnAnd(l, <<>>)
               /\ UNCHANGED <<loopVars, queue, poolVars, state_, channelVars,
                              writeShut, peerVars, userVars, downs, blame,
                              aborted>>
      <3>1. frames' \in [Loops -> Seq(FrameType)]
        BY <2>1, <2>4, ReturnType
      <3>. QED  BY <2>4, <3>1 DEF Typed
    <2>. QED  BY <1>12, <2>2, <2>3, <2>4 DEF HandleEventReturns, ForceCloseInLoop
  <1>13. ASSUME NEW l \in Loops, NEW c \in Conns,
               \/ ShutdownInLoop(l, c) \/ StartReadInLoop(l, c)
               \/ StopReadInLoop(l, c) \/ CallbackReturns(l, c)
        PROVE  Typed'
    <2>1. frames[l] # <<>> /\ <<>> \in Seq(FrameType) /\ ReturnAnd(l, <<>>)
      <3>1. frames[l] # <<>> /\ ReturnAnd(l, <<>>)
        BY <1>13 DEF ShutdownInLoop, StartReadInLoop, StopReadInLoop,
           CallbackReturns, InCallback, Runs
      <3>. QED  BY <3>1, CallType
    <2>2. frames' \in [Loops -> Seq(FrameType)]
      BY <2>1, ReturnType
    <2>3. CASE ShutdownInLoop(l, c)
      BY <2>2, <2>3 DEF ShutdownInLoop, Typed
    <2>4. CASE StartReadInLoop(l, c) \/ StopReadInLoop(l, c)
      <3>1. /\ interest' \in [Conns -> BOOLEAN]
            /\ registered' \in [Conns -> BOOLEAN]
            /\ reading_' \in [Conns -> BOOLEAN]
        BY <2>4 DEF StartReadInLoop, StopReadInLoop, EnableReading, DisableAll,
           Typed
      <3>2. blame' \in [Conns -> SUBSET Reasons]
        <4>1. \/ UNCHANGED blame
              \/ blame' = [blame EXCEPT ![c] = @ \union {"read again"}]
          BY <2>4 DEF StartReadInLoop, StopReadInLoop
        <4>2. {"read again"} \in SUBSET Reasons
          BY DEF Reasons
        <4>. QED  BY <4>1, <4>2, BlameType DEF Typed
      <3>. QED  BY <2>2, <2>4, <3>1, <3>2 DEF StartReadInLoop, StopReadInLoop,
                   Typed
    <2>5. CASE CallbackReturns(l, c)
      BY <2>2, <2>5 DEF CallbackReturns, Typed
    <2>. QED  BY <1>13, <2>3, <2>4, <2>5
  <1>14. ASSUME NEW l \in Loops, NEW c \in Conns, CallbackKeeps(l, c)
        PROVE  Typed'
    BY <1>14 DEF CallbackKeeps, Typed
  <1>15. ASSUME NEW l \in Loops, NEW c \in Conns, NEW d \in Conns,
               \/ CallbackShutdown(l, c, d) \/ CallbackForceClose(l, c, d)
               \/ CallbackReads(l, c, d)
        PROVE  Typed'
    <2>1. /\ userCalls < MaxUserCalls /\ userCalls' = userCalls + 1
          /\ userCalls \in 0 .. MaxUserCalls
      BY <1>15 DEF CallbackShutdown, CallbackForceClose, CallbackReads, Typed
    <2>2. userCalls' \in 0 .. MaxUserCalls
      BY <2>1
    <2>3. PICK op \in FunctorOps :
            frames' = [frames EXCEPT ![l] = <<Call(op, d)>> \o @]
      BY <1>15 DEF CallbackShutdown, CallbackForceClose, CallbackReads, ReadOps,
         FunctorOps
    <2>4. frames' \in [Loops -> Seq(FrameType)]
      <3>1. /\ <<Call(op, d)>> \in Seq(FrameType)
            /\ frames[l] \in Seq(FrameType)
        BY CallType DEF Typed
      <3>2. <<Call(op, d)>> \o frames[l] \in Seq(FrameType)
        BY <3>1, ConcatProperties
      <3>. QED  BY <2>3, <3>2 DEF Typed
    <2>5. state_' \in [Conns -> States]
      <3>1. UNCHANGED state_ \/ StoreDisconnecting(d)
        BY <1>15 DEF CallbackShutdown, CallbackForceClose, CallbackReads
      <3>. QED  BY <3>1, StateType DEF StoreDisconnecting, States, Typed
    <2>6. blame' \in [Conns -> SUBSET Reasons]
      <3>1. \/ UNCHANGED blame
            \/ blame' = [blame EXCEPT ![d] = @ \union (Overwriting(d)
                   \union (IF d = c THEN {} ELSE {"closed by another"}))]
        BY <1>15 DEF CallbackShutdown, CallbackForceClose, CallbackReads, Blame
      <3>2. Overwriting(d)
                \union (IF d = c THEN {} ELSE {"closed by another"})
                    \in SUBSET Reasons
        BY DEF Overwriting, Reasons
      <3>. QED  BY <3>1, <3>2, BlameType DEF Typed
    <2>. QED  BY ZenonT(60), <1>15, <2>2, <2>4, <2>5, <2>6 DEF CallbackShutdown,
                 CallbackForceClose, CallbackReads, Typed
  <1>16. ASSUME NEW c \in Conns, UserShutdownChecks(c) \/ UserDrops(c)
        PROVE  Typed'
    BY <1>16 DEF UserShutdownChecks, UserDrops, Typed
  <1>17. ASSUME NEW c \in Conns,
               UserShutdownStores(c) \/ UserForceCloses(c) \/ UserReads(c)
        PROVE  Typed'
    <2>1. userCalls' \in 0 .. MaxUserCalls
      BY <1>17 DEF UserShutdownStores, UserForceCloses, UserReads, Typed
    <2>2. PICK op \in FunctorOps :
            queue' = [queue EXCEPT ![loopOf[c]] = Append(@, Call(op, c))]
      BY <1>17 DEF UserShutdownStores, UserForceCloses, UserReads, ReadOps,
         FunctorOps
    <2>3. queue' \in [Loops -> Seq(FunctorType)]
      <3>1. Call(op, c) \in FunctorType /\ loopOf[c] \in Loops
        BY CallType DEF Typed
      <3>. QED  BY <2>2, <3>1, QueueType
    <2>4. state_' \in [Conns -> States]
      <3>1. UNCHANGED state_ \/ StoreDisconnecting(c)
        BY <1>17 DEF UserShutdownStores, UserForceCloses, UserReads
      <3>. QED  BY <3>1, StateType DEF StoreDisconnecting, States, Typed
    <2>5. blame' \in [Conns -> SUBSET Reasons]
      <3>1. \/ UNCHANGED blame
            \/ blame' = [blame EXCEPT ![c] = @ \union Overwriting(c)]
        BY <1>17 DEF UserShutdownStores, UserForceCloses, UserReads, Blame
      <3>2. Overwriting(c) \in SUBSET Reasons
        BY DEF Overwriting, Reasons
      <3>. QED  BY <3>1, <3>2, BlameType DEF Typed
    <2>. QED  BY <1>17, <2>1, <2>3, <2>4, <2>5 DEF UserShutdownStores,
                 UserForceCloses, UserReads, Typed
  <1>18. CASE PeerStep
    <2>1. PICK c \in Conns : PeerSends(c) \/ PeerCloses(c) \/ PeerResets(c)
      BY <1>18 DEF PeerStep
    <2>2. CASE PeerSends(c) \/ PeerCloses(c)
      BY ZenonT(60), <2>2 DEF PeerSends, PeerCloses, Typed
    <2>3. CASE PeerResets(c)
      <3>1. peer' \in [Conns -> {"open", "fin", "reset", "gone"}]
        BY <2>3 DEF PeerResets, Typed
      <3>2. {"reset"} \in SUBSET Reasons
        BY DEF Reasons
      <3>3. blame' \in [Conns -> SUBSET Reasons]
        BY <2>3, <3>2, BlameType DEF PeerResets, Blame
      <3>. QED  BY <2>3, <3>1, <3>3 DEF PeerResets, Typed
    <2>. QED  BY <2>1, <2>2, <2>3
  <1>. QED
    BY <1>1, <1>2, <1>3, <1>4, <1>5, <1>6, <1>7, <1>8, <1>9, <1>10, <1>11,
       <1>12, <1>13, <1>14, <1>15, <1>16, <1>17, <1>18
    DEF Next, LoopStep, UserStep

\* TypeOK: every variable keeps its type, the call stacks and the queues in
\* particular, whatever the loops, the users and the peers do.
THEOREM TypeCorrect == Spec => []TypeOK
  <1>1. Init => Typed
    BY InitTyped
  <1>2. Typed /\ [Next]_vars => Typed'
    BY StepTyped
  <1>3. Typed => TypeOK
    BY TypedIsTypeOK
  <1>. QED  BY <1>1, <1>2, <1>3, PTL DEF Spec

-----------------------------------------------------------------------------
(* Connections are moved by one call at a time *)

\* The calls that take a connection from one state of its life to the next.
Closing == {"RemoveConnectionInLoop", "ConnectionDestroyed"}
Moves(f, c) == f.conn = c /\ f.op \in Closing \union {"ConnectionEstablished"}

\* None of the calls of s moves c, and at most one.
Free(s, c) == \A i \in DOMAIN s : ~Moves(s[i], c)
Once(s, c) == \A i, j \in DOMAIN s : Moves(s[i], c) /\ Moves(s[j], c) => i = j

\* A shorter sequence of calls.
LEMMA FreeTail ==
    ASSUME NEW s \in Seq(FrameType), s # <<>>, NEW c
    PROVE  /\ Free(s, c) => Free(Tail(s), c)
           /\ Once(s, c) => Once(Tail(s), c)
           /\ Once(s, c) /\ Moves(Head(s), c) => Free(Tail(s), c)
           /\ Free(s, c) => ~Moves(Head(s), c)
  <1>1. \A i \in DOMAIN Tail(s) :
            i \in Int /\ i + 1 \in DOMAIN s /\ Tail(s)[i] = s[i + 1]
    OBVIOUS
  <1>2. 1 \in DOMAIN s /\ Head(s) = s[1]
    OBVIOUS
  <1>3. Free(s, c) => Free(Tail(s), c)
    BY <1>1 DEF Free
  <1>4. Once(s, c) => Once(Tail(s), c)
    <2>. SUFFICES ASSUME Once(s, c), NEW i \in DOMAIN Tail(s),
                         NEW j \in DOMAIN Tail(s),
                         Moves(Tail(s)[i], c), Moves(Tail(s)[j], c)
                  PROVE  i = j
      BY DEF Once
    <2>1. i + 1 = j + 1
      BY <1>1 DEF Once
    <2>. QED  BY <1>1, <2>1
  <1>5. Once(s, c) /\ Moves(Head(s), c) => Free(Tail(s), c)
    <2>. SUFFICES ASSUME Once(s, c), Moves(Head(s), c),
                         NEW i \in DOMAIN Tail(s), Moves(Tail(s)[i], c)
                  PROVE  FALSE
      BY DEF Free
    <2>1. i + 1 = 1 /\ i \in DOMAIN Tail(s)
      BY <1>1, <1>2 DEF Once
    <2>. QED  BY <2>1
  <1>6. Free(s, c) => ~Moves(Head(s), c)
    BY <1>2 DEF Free
  <1>. QED  BY <1>3, <1>4, <1>5, <1>6

\* One more call, in front.
LEMMA FreePush ==
    ASSUME NEW s \in Seq(FrameType), NEW f \in FrameType, NEW c
    PROVE  /\ Free(s, c) => Once(<<f>> \o s, c)
           /\ Free(s, c) /\ ~Moves(f, c) => Free(<<f>> \o s, c)
           /\ Once(s, c) /\ ~Moves(f, c) => Once(<<f>> \o s, c)
  <1>. DEFINE t == <<f>> \o s
  <1>1. /\ 1 \in DOMAIN t /\ t[1] = f
        /\ \A i \in DOMAIN t :
               i = 1 \/ (i \in Int /\ i - 1 \in DOMAIN s /\ t[i] = s[i - 1])
    OBVIOUS
  <1>. HIDE DEF t
  <1>2. Free(s, c) => Once(t, c)
    BY <1>1 DEF Free, Once
  <1>3. Free(s, c) /\ ~Moves(f, c) => Free(t, c)
    BY <1>1 DEF Free
  <1>4. Once(s, c) /\ ~Moves(f, c) => Once(t, c)
    <2>. SUFFICES ASSUME Once(s, c), ~Moves(f, c), NEW i \in DOMAIN t,
                         NEW j \in DOMAIN t, Moves(t[i], c), Moves(t[j], c)
                  PROVE  i = j
      BY DEF Once
    <2>1. i # 1 /\ j # 1
      BY <1>1
    <2>2. i - 1 = j - 1
      BY <1>1, <2>1 DEF Once
    <2>. QED  BY <1>1, <2>1, <2>2
  <1>. QED  BY <1>2, <1>3, <1>4 DEF t

\* One more call, at the end.
LEMMA FreeAppend ==
    ASSUME NEW s \in Seq(FrameType), NEW f \in FrameType, NEW c
    PROVE  /\ Free(s, c) => Once(Append(s, f), c)
           /\ Free(s, c) /\ ~Moves(f, c) => Free(Append(s, f), c)
           /\ Once(s, c) /\ ~Moves(f, c) => Once(Append(s, f), c)
  <1>. DEFINE t == Append(s, f)
  <1>1. \A i \in DOMAIN t :
            \/ i = Len(s) + 1 /\ t[i] = f
            \/ i \in DOMAIN s /\ t[i] = s[i]
    OBVIOUS
  <1>. HIDE DEF t
  <1>2. Free(s, c) => Once(t, c)
    BY <1>1 DEF Free, Once
  <1>3. Free(s, c) /\ ~Moves(f, c) => Free(t, c)
    BY <1>1 DEF Free
  <1>4. Once(s, c) /\ ~Moves(f, c) => Once(t, c)
    BY <1>1 DEF Once
  <1>. QED  BY <1>2, <1>3, <1>4 DEF t

\* No call at all.
LEMMA FreeEmpty == \A c : Free(<<>>, c) /\ Once(<<>>, c)
  BY DEF Free, Once

\* No call of loop l moves c, and at most one.
Idle(l, c) == Free(frames[l], c) /\ Free(queue[l], c)
OneMover(l, c) ==
    /\ Once(frames[l], c) /\ Once(queue[l], c)
    /\ Free(frames[l], c) \/ Free(queue[l], c)

\* The calls that loop l has still to make, or to return from.
Pending(l) == Range(frames[l]) \union Range(queue[l])

Open(c) == state_[c] \in {"kConnected", "kDisconnecting"}

\* The user does not know c yet.
New(c) == state_[c] \in {"none", "kConnecting"}

\* One call at a time moves a connection: its establishment while it is
\* kConnecting, its removal and destruction once it is kDisconnected, and
\* none when it is open or the user has heard of its end.
MovedOnce(c) ==
    \/ Overwritten(c)
    \/ /\ \A l \in Loops : OneMover(l, c)
       /\ \A l, m \in Loops : l = m \/ Idle(l, c) \/ Idle(m, c)
       /\ state_[c] \notin {"kConnecting", "kDisconnected"} \/ downs[c] = 1
              => \A l \in Loops : Idle(l, c)
       /\ downs[c] <= 1
       /\ state_[c] # "kDisconnected" => downs[c] = 0

\* A call is made on the loop it belongs to, and not before its connection is
\* in the state for it.
CallFits(l, f) ==
    /\ l = IF f.op = "RemoveConnectionInLoop" THEN Base ELSE loopOf[f.conn]
    /\ f.op = "ConnectionEstablished" => state_[f.conn] = "kConnecting"
    /\ f.op # "ConnectionEstablished" => ~New(f.conn)
    /\ f.op \in Closing =>
           state_[f.conn] = "kDisconnected" \/ Overwritten(f.conn)
    /\ f.op = "ShutdownInLoop" => state_[f.conn] # "kConnected"

\* An event is of a connection that was registered, or of the acceptor.
EventFits(l, e) ==
    /\ e.conn \notin Created => l = Base /\ e = Acceptable(e.conn)
    /\ e.conn \in Created => ~New(e.conn) /\ l = loopOf[e.conn]

\* A connection that the user does not know is not in use.
ConnFits(c) ==
    New(c) => /\ c \notin userHolds \union checked
              /\ ~Overwritten(c)
              /\ ~interest[c] /\ ~registered[c] /\ ~reading_[c]

MovesOnce == \A c \in Conns : MovedOnce(c)
CallsFit == \A l \in Loops : \A f \in Pending(l) : CallFits(l, f)
EventsFit == \A l \in Loops : \A e \in active[l] : EventFits(l, e)
ConnsFit == \A c \in Conns : ConnFits(c)

LifeInv == Typed /\ MovesOnce /\ CallsFit /\ EventsFit /\ ConnsFit

-----------------------------------------------------------------------------
(* What a step may change *)

\* The call that a loop makes is one of its calls.
LEMMA RunsPending ==
    ASSUME Typed, NEW l \in Loops, NEW f, Runs(l, f)
    PROVE  /\ frames[l] \in Seq(FrameType) /\ frames[l] # <<>>
           /\ f = Head(frames[l]) /\ f \in Range(frames[l]) /\ f \in Pending(l)
           /\ f \in FrameType
  <1>1. frames[l] \in Seq(FrameType) /\ frames[l] # <<>> /\ f = Head(frames[l])
    BY DEF Typed, Runs
  <1>2. Head(frames[l]) \in Range(frames[l])
    BY <1>1, RangeHeadTail
  <1>3. Head(frames[l]) \in FrameType
    BY <1>1
  <1>. QED  BY <1>1, <1>2, <1>3 DEF Pending

\* What is pending has a type.
LEMMA PendingType ==
    ASSUME Typed, NEW l \in Loops
    PROVE  /\ Range(frames[l]) \subseteq FrameType
           /\ Range(queue[l]) \subseteq FunctorType
           /\ Pending(l) \subseteq FrameType
           /\ \A f \in Pending(l) : f.conn \in Conns /\ f.op \in FrameOps
           /\ frames[l] \in Seq(FrameType) /\ queue[l] \in Seq(FrameType)
           /\ queue[l] \in Seq(FunctorType)
  <1>1. /\ frames[l] \in Seq(FrameType) /\ queue[l] \in Seq(FunctorType)
        /\ queue[l] \in Seq(FrameType)
    BY FunctorsAreFrames DEF Typed
  <1>2. /\ Range(frames[l]) \subseteq FrameType
        /\ Range(queue[l]) \subseteq FrameType
        /\ Range(queue[l]) \subseteq FunctorType
    BY <1>1 DEF Range
  <1>. QED  BY <1>1, <1>2 DEF Pending, FrameType

\* The store of kDisconnecting, with what the user is to blame for.
Stores(c) ==
    /\ ~New(c)
    /\ StoreDisconnecting(c)
    /\ \/ UNCHANGED blame /\ state_[c] = "kConnected"
       \/ \E r : Blame(c, Overwriting(c) \union r)
    /\ UNCHANGED loopOf

\* The steps that change the state of a connection, its loop or its blame.
StateStep ==
    \/ UNCHANGED <<loopOf, state_, blame>>
    \/ \E c \in Conns : NewConnection(c)
    \/ \E l \in Loops, c \in Conns :
           ConnectionEstablished(l, c) /\ state_[c] = "kConnecting"
    \/ \E l \in Loops, c \in Conns :
           HandleClose(l, c) /\ Open(c) /\ frames[l] # <<>>
    \/ \E c \in Conns : \E r \in SUBSET {"reset", "read again"} :
           Blame(c, r) /\ UNCHANGED <<loopOf, state_>>
    \/ \E c \in Conns : Stores(c)

LEMMA StateSteps ==
    ASSUME Typed, CallsFit, ConnsFit, [Next]_vars
    PROVE  StateStep
  <1>. USE DEF loopVars, poolVars
  <1>1. CASE UNCHANGED vars
    BY <1>1 DEF vars, StateStep
  <1>2. ASSUME NEW check, NEW c, Abort(check, c)
        PROVE  StateStep
    BY <1>2 DEF Abort, StateStep
  <1>3. ASSUME NEW l \in Loops, NEW c \in Conns, frames[l] # <<>>,
               HandleClose(l, c)
        PROVE  StateStep
    BY <1>2, <1>3 DEF HandleClose, Open, StateStep
  <1>4. ASSUME NEW l \in Loops, \/ Poll(l) \/ TakeFunctors(l) \/ EndIteration(l)
                                \/ \E e \in active[l] : HandleEvent(l, e)
        PROVE  StateStep
    BY <1>2, <1>4 DEF StateStep, Poll, TakeFunctors, EndIteration, HandleEvent
  <1>5. ASSUME NEW l \in Loops, NEW c \in Conns,
               \/ HandleRead(l, c) \/ HandleHangUp(l, c)
               \/ HandleEventReturns(l, c) \/ ForceCloseInLoop(l, c)
        PROVE  StateStep
    BY <1>2, <1>3, <1>5 DEF StateStep, HandleRead, HandleHangUp, HandleEventReturns,
       ForceCloseInLoop, Runs
  <1>6. ASSUME NEW l \in Loops, NEW c \in Conns,
               \/ ConnectionEstablished(l, c) \/ ConnectionDestroyed(l, c)
               \/ RemoveConnectionInLoop(l, c) \/ NewConnection(c)
        PROVE  StateStep
    BY <1>2, <1>6 DEF StateStep, ConnectionEstablished, ConnectionDestroyed,
       RemoveConnectionInLoop
  <1>7. ASSUME NEW l \in Loops, NEW c \in Conns,
               \/ ShutdownInLoop(l, c) \/ StopReadInLoop(l, c)
               \/ CallbackReturns(l, c) \/ CallbackKeeps(l, c)
               \/ UserShutdownChecks(c) \/ UserReads(c) \/ UserDrops(c)
               \/ PeerSends(c) \/ PeerCloses(c)
               \/ \E d \in Conns : CallbackReads(l, c, d)
        PROVE  StateStep
    BY <1>7 DEF StateStep, ShutdownInLoop, StopReadInLoop, CallbackReturns,
       CallbackKeeps, UserShutdownChecks, UserReads, UserDrops, PeerSends,
       PeerCloses, CallbackReads
  <1>8. ASSUME NEW l \in Loops, NEW c \in Conns,
               StartReadInLoop(l, c) \/ PeerResets(c)
        PROVE  StateStep
    <2>1. \/ UNCHANGED <<loopOf, state_, blame>>
          \/ Blame(c, {"reset"}) /\ UNCHANGED <<loopOf, state_>>
          \/ Blame(c, {"read again"}) /\ UNCHANGED <<loopOf, state_>>
      BY <1>8 DEF StartReadInLoop, PeerResets, Blame
    <2>2. /\ {"reset"} \in SUBSET {"reset", "read again"}
          /\ {"read again"} \in SUBSET {"reset", "read again"}
      OBVIOUS
    <2>. QED  BY <2>1, <2>2 DEF StateStep
  <1>9. ASSUME NEW l \in Loops, NEW c \in Conns, NEW d \in Conns,
               CallbackShutdown(l, c, d) \/ CallbackForceClose(l, c, d)
        PROVE  StateStep
    <2>1. InCallback(l, c) /\ d \in userHolds \union {c}
      BY <1>9 DEF CallbackShutdown, CallbackForceClose
    <2>2. Call("callback", c) \in Pending(l)
      BY <2>1, RunsPending DEF InCallback
    <2>3. ~New(c)
      BY <2>2, CallType DEF CallsFit, CallFits
    <2>4. ~New(d)
      BY <2>1, <2>3 DEF ConnsFit, ConnFits
    <2>5. Stores(d)
      BY <1>9, <2>4 DEF CallbackShutdown, CallbackForceClose, Stores
    <2>. QED  BY <2>5 DEF StateStep
  <1>10. ASSUME NEW c \in Conns, UserShutdownStores(c) \/ UserForceCloses(c)
         PROVE  StateStep
    <2>1. c \in userHolds \union checked
      BY <1>10 DEF UserShutdownStores, UserForceCloses
    <2>2. ~New(c)
      BY <2>1 DEF ConnsFit, ConnFits
    <2>3. /\ StoreDisconnecting(c) /\ UNCHANGED loopOf
          /\ Blame(c, Overwriting(c) \union {})
      BY <1>10 DEF UserShutdownStores, UserForceCloses, Blame
    <2>4. Stores(c)
      BY <2>2, <2>3 DEF Stores, Blame
    <2>. QED  BY <2>4 DEF StateStep
  <1>11. Base \in Loops
    BY DEF Base, Loops
  <1>12. CASE \E l \in Loops : LoopStep(l)
    BY <1>12, <1>4, <1>5, <1>6, <1>7, <1>8 DEF LoopStep
  <1>13. CASE UserStep \/ PeerStep
    BY <1>13, <1>7, <1>8, <1>9, <1>10, <1>11 DEF UserStep, PeerStep
  <1>. QED
    BY <1>1, <1>12, <1>13
    DEF Next

\* How a connection goes on that is neither accepted nor established by the
\* step: its loop stays, and its state unless the user stores kDisconnecting
\* or it is closed.
Ages(c) ==
    /\ loopOf'[c] = loopOf[c]
    /\ \/ state_'[c] = state_[c]
       \/ /\ ~New(c) /\ state_'[c] = "kDisconnecting"
          /\ state_[c] = "kDisconnected" => "overwritten" \in blame'[c]
       \/ /\ Open(c) /\ state_'[c] = "kDisconnected"
          /\ \E l \in Loops : HandleClose(l, c) /\ frames[l] # <<>>

LEMMA Ageing ==
    ASSUME Typed, CallsFit, ConnsFit, [Next]_vars, NEW c \in Conns
    PROVE  /\ blame[c] \subseteq blame'[c]
           /\ "overwritten" \in blame'[c] => Overwritten(c) \/ ~New(c)
           /\ \/ Ages(c)
              \/ NewConnection(c)
              \/ \E l \in Loops :
                     ConnectionEstablished(l, c) /\ state_[c] = "kConnecting"
  <1>. USE DEF poolVars
  <1>0. /\ state_ \in [Conns -> States] /\ loopOf \in [Conns -> Loops]
        /\ blame \in [Conns -> SUBSET Reasons]
    BY DEF Typed
  <1>1. CASE UNCHANGED <<loopOf, state_, blame>>
    BY <1>1 DEF Ages, Overwritten
  <1>2. ASSUME NEW d \in Conns, NewConnection(d)
        PROVE  /\ blame' = blame
               /\ d # c => loopOf'[c] = loopOf[c] /\ state_'[c] = state_[c]
    BY <1>0, <1>2 DEF NewConnection
  <1>3. ASSUME NEW l \in Loops, NEW d \in Conns,
               ConnectionEstablished(l, d), state_[d] = "kConnecting"
        PROVE  /\ blame' = blame
               /\ d # c => loopOf'[c] = loopOf[c] /\ state_'[c] = state_[c]
    BY <1>0, <1>3 DEF ConnectionEstablished
  <1>4. ASSUME NEW l \in Loops, NEW d \in Conns, HandleClose(l, d), Open(d),
               frames[l] # <<>>
        PROVE  /\ blame' = blame /\ loopOf' = loopOf
               /\ d # c => state_'[c] = state_[c]
               /\ d = c => state_'[c] = "kDisconnected"
    BY <1>0, <1>4 DEF HandleClose, Open
  <1>5. ASSUME NEW d \in Conns, NEW r \in SUBSET {"reset", "read again"},
               Blame(d, r), UNCHANGED <<loopOf, state_>>
        PROVE  /\ blame[c] \subseteq blame'[c] /\ Ages(c)
               /\ "overwritten" \in blame'[c] => Overwritten(c)
    BY <1>0, <1>5 DEF Blame, Ages, Overwritten
  <1>6. ASSUME NEW d \in Conns, Stores(d)
        PROVE  /\ blame[c] \subseteq blame'[c] /\ Ages(c)
               /\ "overwritten" \in blame'[c] => Overwritten(c) \/ ~New(c)
    <2>1. loopOf' = loopOf /\ state_' = [state_ EXCEPT ![d] = "kDisconnecting"]
      BY <1>6 DEF Stores, StoreDisconnecting
    <2>2. \/ blame' = blame /\ state_[d] = "kConnected"
          \/ \E r : blame' = [blame EXCEPT ![d] = @ \union (Overwriting(d) \union r)]
      BY <1>6 DEF Stores, Blame
    <2>3. /\ blame[c] \subseteq blame'[c]
          /\ state_[d] = "kDisconnected" => "overwritten" \in blame'[d]
          /\ d # c => blame'[c] = blame[c]
      BY <1>0, <2>2 DEF Overwriting
    <2>4. CASE d = c
      BY <1>0, <1>6, <2>1, <2>3, <2>4 DEF Ages, Stores
    <2>5. CASE d # c
      BY <1>0, <2>1, <2>3, <2>5 DEF Ages, Overwritten
    <2>. QED  BY <2>4, <2>5
  <1>7. StateStep
    BY StateSteps
  <1>. QED
    BY <1>1, <1>2, <1>3, <1>4, <1>5, <1>6, <1>7
    DEF StateStep, Ages, Overwritten

-----------------------------------------------------------------------------
(* The calls after a step *)

\* A call that is new on the stack of loop m.
FreshFrame(m, f) ==
    \/ \E e \in active[m] :
           /\ HandleEvent(m, e) /\ Alive(e.conn)
           /\ f \in {Call("HandleRead", e.conn), Call("return", e.conn),
                     Call("closeCallback_", e.conn)}
           /\ f.op = "HandleRead" => e.in
           /\ f.op = "closeCallback_" => e.hup
    \/ \E c \in Conns :
        \/ /\ f = Call("ConnectionEstablished", c)
           /\ NewConnection(c) /\ NextLoop = Base /\ m = Base
        \/ /\ f = Call("callback", c)
           /\ \/ ConnectionEstablished(m, c) /\ state_[c] = "kConnecting"
              \/ HandleRead(m, c)
        \/ /\ f = Call("RemoveConnectionInLoop", c)
           /\ HandleClose(m, c) /\ Open(c) /\ m = Base
        \/ /\ f = Call("ConnectionDestroyed", c)
           /\ RemoveConnectionInLoop(m, c) /\ m = loopOf[c]
        \/ \E b \in Conns :
               /\ InCallback(m, b)
               /\ c \in userHolds \union {b} /\ m = loopOf[c]
               /\ \/ /\ f = Call("ShutdownInLoop", c)
                     /\ StoreDisconnecting(c)
                  \/ /\ f = Call("ForceCloseInLoop", c)
                     /\ c = b \/ "closed by another" \in blame'[c]
                  \/ \E op \in ReadOps : f = Call(op, c)

\* A functor that is new in the queue of loop m.
FreshFunctor(m, f) ==
    \E c \in Conns :
        \/ /\ f = Call("ConnectionEstablished", c)
           /\ NewConnection(c) /\ m = NextLoop
        \/ /\ f = Call("RemoveConnectionInLoop", c)
           /\ \E l \in Loops : HandleClose(l, c) /\ frames[l] # <<>>
           /\ Open(c) /\ m = Base
        \/ /\ f = Call("ConnectionDestroyed", c)
           /\ \E l \in Loops : RemoveConnectionInLoop(l, c)
           /\ m = loopOf[c]
        \/ /\ c \in userHolds \union checked /\ m = loopOf[c]
           /\ \/ f = Call("ShutdownInLoop", c) /\ StoreDisconnecting(c)
              \/ f = Call("ForceCloseInLoop", c)
              \/ \E op \in ReadOps : f = Call(op, c)

\* What is on the stack after a return with calls.
LEMMA FramesReturn ==
    ASSUME Typed, NEW l \in Loops, frames[l] # <<>>,
           NEW calls \in Seq(FrameType), ReturnAnd(l, calls), NEW m \in Loops
    PROVE  Range(frames'[m]) \subseteq
               Range(frames[m]) \union (IF m = l THEN Range(calls) ELSE {})
  <1>1. /\ frames'[l] = calls \o Tail(frames[l])
        /\ m # l => frames'[m] = frames[m]
    BY ReturnType
  <1>2. frames[l] \in Seq(FrameType) /\ Tail(frames[l]) \in Seq(FrameType)
    BY DEF Typed
  <1>3. Range(calls \o Tail(frames[l])) = Range(calls) \union Range(Tail(frames[l]))
    BY ZenonT(60), <1>2, RangeConcat
  <1>4. Range(Tail(frames[l])) \subseteq Range(frames[l])
    BY <1>2, RangeHeadTail
  <1>. QED  BY <1>1, <1>3, <1>4

\* One call as a sequence.
LEMMA RangeOne == \A f : Range(<<f>>) = {f}
  BY DEF Range

\* What is called or queued after a call that ends with RunInLoop(f).
LEMMA HandedOver ==
    ASSUME Typed, NEW l \in Loops, frames[l] # <<>>, NEW target \in Loops,
           NEW op \in FunctorOps, NEW c \in Conns,
           ReturnAndRunInLoop(l, target, Call(op, c)), NEW m \in Loops
    PROVE  /\ \A f \in Range(frames'[m]) :
                  \/ f \in Range(frames[m])
                  \/ f = Call(op, c) /\ m = l /\ l = target
           /\ \A f \in Range(queue'[m]) :
                  \/ f \in Range(queue[m])
                  \/ f = Call(op, c) /\ m = target
  <1>1. /\ Call(op, c) \in FunctorType /\ <<Call(op, c)>> \in Seq(FrameType)
        /\ <<>> \in Seq(FrameType) /\ queue[m] \in Seq(FunctorType)
    BY CallType DEF Typed
  <1>2. CASE l = target
    <2>1. ReturnAnd(l, <<Call(op, c)>>) /\ queue' = queue
      BY <1>2 DEF ReturnAndRunInLoop
    <2>. QED  BY <1>1, <1>2, <2>1, FramesReturn, RangeOne
  <1>3. CASE l # target
    <2>1. /\ ReturnAnd(l, <<>>)
          /\ queue' = [queue EXCEPT ![target] = Append(@, Call(op, c))]
      BY <1>3 DEF ReturnAndRunInLoop
    <2>2. /\ queue'[target] = Append(queue[target], Call(op, c))
          /\ m # target => queue'[m] = queue[m]
      BY <1>1, <2>1, QueueType
    <2>3. Range(Append(queue[m], Call(op, c))) = Range(queue[m]) \union {Call(op, c)}
      BY <1>1, RangeAppend
    <2>4. Range(frames'[m]) \subseteq Range(frames[m])
      <3>1. Range(frames'[m]) \subseteq
                Range(frames[m]) \union (IF m = l THEN Range(<<>>) ELSE {})
        BY <1>1, <2>1, FramesReturn
      <3>. QED  BY <3>1, RangeEmpty
    <2>5. ASSUME NEW f \in Range(frames'[m])
          PROVE  f \in Range(frames[m])
      BY <2>4
    <2>6. ASSUME NEW f \in Range(queue'[m])
          PROVE  f \in Range(queue[m]) \/ (f = Call(op, c) /\ m = target)
      <3>1. CASE m = target
        BY <2>2, <2>3, <3>1
      <3>2. CASE m # target
        BY <2>2, <3>2
      <3>. QED  BY <3>1, <3>2
    <2>. QED  BY <2>5, <2>6
  <1>. QED  BY <1>2, <1>3

\* The calls that a loop has after a step: those it had, the functors it has
\* taken, and new ones.
CallsKnown(m) ==
    /\ \A f \in Range(frames'[m]) :
           \/ f \in Range(frames[m])
           \/ TakeFunctors(m) /\ f \in Range(queue[m])
           \/ FreshFrame(m, f)
    /\ \A f \in Range(queue'[m]) : f \in Range(queue[m]) \/ FreshFunctor(m, f)

\* The same after HandleClose().
LEMMA CallsAfterClose ==
    ASSUME Typed, NEW l \in Loops, frames[l] # <<>>, NEW c \in Conns,
           HandleClose(l, c), NEW m \in Loops
    PROVE  CallsKnown(m)
  <1>1. CASE Open(c)
    <2>1. ReturnAndRunInLoop(l, Base, Call("RemoveConnectionInLoop", c))
      BY <1>1 DEF HandleClose, Open
    <2>2. Base \in Loops /\ "RemoveConnectionInLoop" \in FunctorOps
      BY DEF Base, Loops, FunctorOps
    <2>3. \A f \in Range(frames'[m]) :
              \/ f \in Range(frames[m])
              \/ f = Call("RemoveConnectionInLoop", c) /\ m = l /\ l = Base
      BY <2>1, <2>2, HandedOver
    <2>4. \A f \in Range(queue'[m]) :
              \/ f \in Range(queue[m])
              \/ f = Call("RemoveConnectionInLoop", c) /\ m = Base
      BY <2>1, <2>2, HandedOver
    <2>. QED  BY <1>1, <2>3, <2>4 DEF CallsKnown, FreshFrame, FreshFunctor
  <1>2. CASE ~Open(c)
    BY <1>2 DEF HandleClose, Open, Abort, CallsKnown
  <1>. QED  BY <1>1, <1>2

\* The same after a return without a call.
LEMMA CallsAfterReturn ==
    ASSUME Typed, NEW l \in Loops, frames[l] # <<>>, ReturnAnd(l, <<>>),
           UNCHANGED queue, NEW m \in Loops
    PROVE  CallsKnown(m)
  <1>1. Range(frames'[m]) \subseteq
            Range(frames[m]) \union (IF m = l THEN Range(<<>>) ELSE {})
    <2>1. <<>> \in Seq(FrameType)
      OBVIOUS
    <2>. QED  BY <2>1, FramesReturn
  <1>. QED  BY <1>1, RangeEmpty DEF CallsKnown

\* The same after a call by the user's callback.
LEMMA CallsAfterCall ==
    ASSUME Typed, NEW l \in Loops, NEW op \in FunctorOps, NEW c \in Conns,
           frames' = [frames EXCEPT ![l] = <<Call(op, c)>> \o @],
           NEW m \in Loops, NEW f \in Range(frames'[m])
    PROVE  f \in Range(frames[m]) \/ (m = l /\ f = Call(op, c))
  <1>1. /\ <<Call(op, c)>> \in Seq(FrameType)
        /\ frames[l] \in Seq(FrameType)
        /\ frames \in [Loops -> Seq(FrameType)]
    BY CallType DEF Typed
  <1>2. Range(<<Call(op, c)>> \o frames[l]) =
            Range(<<Call(op, c)>>) \union Range(frames[l])
    BY ZenonT(60), <1>1, RangeConcat
  <1>3. /\ m = l => frames'[m] = <<Call(op, c)>> \o frames[l]
        /\ m # l => frames'[m] = frames[m]
    BY <1>1
  <1>. QED  BY <1>2, <1>3, RangeOne

\* The same after a functor was queued.
LEMMA CallsAfterQueue ==
    ASSUME Typed, NEW l \in Loops, NEW op \in FunctorOps, NEW c \in Conns,
           queue' = [queue EXCEPT ![l] = Append(@, Call(op, c))],
           NEW m \in Loops, NEW f \in Range(queue'[m])
    PROVE  f \in Range(queue[m]) \/ (m = l /\ f = Call(op, c))
  <1>1. Call(op, c) \in FunctorType /\ queue[l] \in Seq(FunctorType)
    BY CallType DEF Typed
  <1>2. Range(Append(queue[l], Call(op, c))) = Range(queue[l]) \union {Call(op, c)}
    BY <1>1, RangeAppend
  <1>3. /\ queue'[l] = Append(queue[l], Call(op, c))
        /\ m # l => queue'[m] = queue[m]
    BY <1>1, QueueType
  <1>. QED  BY <1>2, <1>3

LEMMA CallsAfter ==
    ASSUME Typed, [Next]_vars, NEW m \in Loops
    PROVE  CallsKnown(m)
  <1>1. CASE UNCHANGED <<frames, queue>>
    BY <1>1 DEF CallsKnown
  <1>2. ASSUME NEW check, NEW c, Abort(check, c)
        PROVE  CallsKnown(m)
    BY <1>1, <1>2 DEF Abort
  <1>3. ASSUME NEW l \in Loops, TakeFunctors(l)
        PROVE  CallsKnown(m)
    <2>1. /\ m = l => frames'[m] = queue[m] /\ queue'[m] = <<>>
          /\ m # l => frames'[m] = frames[m] /\ queue'[m] = queue[m]
      BY <1>3 DEF TakeFunctors, Typed
    <2>. QED  BY <1>3, <2>1, RangeEmpty DEF CallsKnown
  <1>4. ASSUME NEW l \in Loops, NEW e \in active[l], HandleEvent(l, e)
        PROVE  CallsKnown(m)
    <2>1. CASE Alive(e.conn)
      <3>. DEFINE read == Call("HandleRead", e.conn)
                  last == Call(IF e.hup THEN "closeCallback_" ELSE "return",
                               e.conn)
      <3>1. /\ queue' = queue /\ frames \in [Loops -> Seq(FrameType)]
            /\ frames' = [frames EXCEPT ![l] =
                  (IF e.in THEN <<read>> ELSE <<>>) \o <<last>>]
        BY <1>4, <2>1 DEF HandleEvent, Typed
      <3>2. /\ <<read>> \in Seq(FrameType) /\ <<last>> \in Seq(FrameType)
            /\ <<>> \in Seq(FrameType)
        <4>1. e.conn \in Conns
          BY DEF Typed, EventType
        <4>. QED  BY <4>1, CallType DEF FrameOps, ChannelOps
      <3>3. ASSUME NEW f \in Range(frames'[m])
            PROVE  \/ f \in Range(frames[m])
                   \/ m = l /\ f = last
                   \/ m = l /\ f = read /\ e.in
        <4>1. CASE m # l
          BY <3>1, <4>1
        <4>2. CASE m = l /\ e.in
          <5>1. Range(<<read>> \o <<last>>) = Range(<<read>>) \union Range(<<last>>)
            BY ZenonT(60), <3>2, RangeConcat
          <5>2. frames'[l] = <<read>> \o <<last>>
            BY <3>1, <4>2
          <5>. QED  BY <4>2, <5>1, <5>2, RangeOne
        <4>3. CASE m = l /\ ~e.in
          <5>1. Range(<<>> \o <<last>>) = Range(<<>>) \union Range(<<last>>)
            BY ZenonT(60), <3>2, RangeConcat
          <5>2. frames'[l] = <<>> \o <<last>>
            BY <3>1, <4>3
          <5>. QED  BY <4>3, <5>1, <5>2, RangeOne, RangeEmpty
        <4>. QED  BY <4>1, <4>2, <4>3
      <3>4. read.op = "HandleRead" /\ last.op # "HandleRead"
            /\ (last.op = "closeCallback_" => e.hup)
            /\ (last = Call("return", e.conn) \/ last = Call("closeCallback_", e.conn))
        BY DEF Call
      <3>5. \A f \in {read, last} : f = read => f.op # "closeCallback_"
        BY <3>4
      <3>. HIDE DEF last
      <3>6. \A f \in Range(frames'[m]) : f \in Range(frames[m]) \/ FreshFrame(m, f)
        BY <1>4, <2>1, <3>3, <3>4, <3>5 DEF FreshFrame
      <3>. QED  BY <3>1, <3>6 DEF CallsKnown
    <2>2. CASE ~Alive(e.conn)
      BY <1>2, <1>4, <2>2 DEF HandleEvent
    <2>. QED  BY <2>1, <2>2

  <1>5. ASSUME NEW l \in Loops, NEW c \in Conns,
               \/ Poll(l) \/ EndIteration(l) \/ CallbackKeeps(l, c)
               \/ UserShutdownChecks(c) \/ UserDrops(c)
               \/ PeerSends(c) \/ PeerCloses(c) \/ PeerResets(c)
        PROVE  CallsKnown(m)
    BY <1>1, <1>5 DEF Poll, EndIteration, CallbackKeeps, UserShutdownChecks,
       UserDrops, PeerSends, PeerCloses, PeerResets
  <1>6. ASSUME NEW c \in Conns, NewConnection(c)
        PROVE  CallsKnown(m)
    <2>. DEFINE f == Call("ConnectionEstablished", c)
    <2>1. ReturnAndRunInLoopOf(NextLoop, f) /\ NextLoop \in Loops
          /\ "ConnectionEstablished" \in FunctorOps
      BY <1>6 DEF NewConnection, NextLoop, Loops, Base, Typed, FunctorOps
    <2>2. CASE NextLoop = Base
      <3>1. frames' = [frames EXCEPT ![Base] = <<f>>] /\ queue' = queue
        BY <2>1, <2>2 DEF ReturnAndRunInLoopOf
      <3>2. \A g \in Range(frames'[m]) : g \in Range(frames[m]) \/ (m = Base /\ g = f)
        BY <3>1, RangeOne DEF Typed
      <3>. QED  BY <1>6, <2>2, <3>1, <3>2 DEF CallsKnown, FreshFrame
    <2>3. CASE NextLoop # Base
      <3>1. frames' = frames /\ queue' = [queue EXCEPT ![NextLoop] = Append(@, f)]
        BY <2>1, <2>3 DEF ReturnAndRunInLoopOf
      <3>2. \A g \in Range(queue'[m]) : g \in Range(queue[m]) \/ (m = NextLoop /\ g = f)
        BY <2>1, <3>1, CallsAfterQueue
      <3>. QED  BY <1>6, <3>1, <3>2 DEF CallsKnown, FreshFunctor
    <2>. QED  BY <2>2, <2>3
  <1>7. ASSUME NEW l \in Loops, NEW c \in Conns, RemoveConnectionInLoop(l, c)
        PROVE  CallsKnown(m)
    <2>1. /\ frames[l] # <<>> /\ loopOf[c] \in Loops
          /\ "ConnectionDestroyed" \in FunctorOps
          /\ ReturnAndRunInLoop(l, loopOf[c], Call("ConnectionDestroyed", c))
      BY <1>7 DEF RemoveConnectionInLoop, Runs, Typed, FunctorOps
    <2>2. \A f \in Range(frames'[m]) :
              \/ f \in Range(frames[m])
              \/ f = Call("ConnectionDestroyed", c) /\ m = l /\ l = loopOf[c]
      BY <2>1, HandedOver
    <2>3. \A f \in Range(queue'[m]) :
              \/ f \in Range(queue[m])
              \/ f = Call("ConnectionDestroyed", c) /\ m = loopOf[c]
      BY ZenonT(60), <2>1, HandedOver
    <2>. QED  BY <1>7, <2>2, <2>3 DEF CallsKnown, FreshFrame, FreshFunctor
  <1>8. ASSUME NEW l \in Loops, NEW c \in Conns, frames[l] # <<>>,
               ReturnAnd(l, <<Call("callback", c)>>), UNCHANGED queue,
               \/ ConnectionEstablished(l, c) /\ state_[c] = "kConnecting"
               \/ HandleRead(l, c)
        PROVE  CallsKnown(m)
    <2>1. <<Call("callback", c)>> \in Seq(FrameType)
      BY CallType DEF FrameOps
    <2>2. \A f \in Range(frames'[m]) :
              f \in Range(frames[m]) \/ (m = l /\ f = Call("callback", c))
      BY <1>8, <2>1, FramesReturn, RangeOne
    <2>. QED  BY <1>8, <2>2 DEF CallsKnown, FreshFrame
  <1>9. ASSUME NEW l \in Loops, NEW c \in Conns, ConnectionEstablished(l, c)
        PROVE  CallsKnown(m)
    BY <1>2, <1>8, <1>9 DEF ConnectionEstablished, Runs
  <1>10. ASSUME NEW l \in Loops, NEW c \in Conns, HandleRead(l, c)
         PROVE  CallsKnown(m)
    <2>1. frames[l] # <<>>
      BY <1>10 DEF HandleRead, Runs
    <2>2. CASE ~data[c] /\ peer[c] \in {"fin", "gone"}
      BY <1>10, <2>1, <2>2, CallsAfterClose DEF HandleRead
    <2>3. CASE ~(~data[c] /\ peer[c] \in {"fin", "gone"}) /\ data[c]
      BY <1>8, <1>10, <2>1, <2>3 DEF HandleRead
    <2>4. CASE ~(~data[c] /\ peer[c] \in {"fin", "gone"}) /\ ~data[c]
      BY <1>10, <2>1, <2>4, CallsAfterReturn DEF HandleRead
    <2>. QED  BY <2>2, <2>3, <2>4
  <1>11. ASSUME NEW l \in Loops, NEW c \in Conns,
                \/ HandleHangUp(l, c) \/ HandleEventReturns(l, c)
                \/ ForceCloseInLoop(l, c)
         PROVE  CallsKnown(m)
    <2>1. frames[l] # <<>>
      BY <1>11 DEF HandleHangUp, HandleEventReturns, ForceCloseInLoop, Runs
    <2>2. \/ HandleClose(l, c) \/ Abort("freed Channel", c)
          \/ ReturnAnd(l, <<>>) /\ UNCHANGED queue
      BY <1>11 DEF HandleHangUp, HandleEventReturns, ForceCloseInLoop
    <2>. QED  BY <1>2, <2>1, <2>2, CallsAfterClose, CallsAfterReturn
  <1>12. ASSUME NEW l \in Loops, NEW c \in Conns,
                \/ ConnectionDestroyed(l, c) \/ ShutdownInLoop(l, c)
                \/ StartReadInLoop(l, c) \/ StopReadInLoop(l, c)
                \/ CallbackReturns(l, c)
         PROVE  CallsKnown(m)
    <2>1. frames[l] # <<>>
      BY <1>12 DEF ConnectionDestroyed, ShutdownInLoop, StartReadInLoop,
         StopReadInLoop, CallbackReturns, InCallback, Runs
    <2>2. \/ Abort("ConnectionDestroyed", c)
          \/ ReturnAnd(l, <<>>) /\ UNCHANGED queue
      BY <1>12 DEF ConnectionDestroyed, ShutdownInLoop, StartReadInLoop,
         StopReadInLoop, CallbackReturns
    <2>. QED  BY <1>2, <2>1, <2>2, CallsAfterReturn
  <1>13. ASSUME NEW l \in Loops, NEW c \in Conns, NEW d \in Conns,
                \/ CallbackShutdown(l, c, d) \/ CallbackForceClose(l, c, d)
                \/ CallbackReads(l, c, d)
         PROVE  CallsKnown(m)
    <2>1. /\ InCallback(l, c) /\ d \in userHolds \union {c} /\ l = loopOf[d]
          /\ queue' = queue
      BY <1>13 DEF CallbackShutdown, CallbackForceClose, CallbackReads
    <2>2. PICK op \in FunctorOps :
            /\ frames' = [frames EXCEPT ![l] = <<Call(op, d)>> \o @]
            /\ \/ op = "ShutdownInLoop" /\ StoreDisconnecting(d)
               \/ /\ op = "ForceCloseInLoop"
                  /\ d = c \/ "closed by another" \in blame'[d]
               \/ op \in ReadOps
      <3>1. CASE CallbackShutdown(l, c, d)
        BY <3>1 DEF CallbackShutdown, FunctorOps
      <3>2. CASE CallbackForceClose(l, c, d)
        BY <3>2 DEF CallbackForceClose, FunctorOps, Blame, Typed
      <3>3. CASE CallbackReads(l, c, d)
        BY <3>3 DEF CallbackReads, ReadOps, FunctorOps
      <3>. QED  BY <1>13, <3>1, <3>2, <3>3
    <2>3. \A f \in Range(frames'[m]) :
              f \in Range(frames[m]) \/ (m = l /\ f = Call(op, d))
      BY <2>2, CallsAfterCall
    <2>. QED  BY <2>1, <2>2, <2>3 DEF CallsKnown, FreshFrame
  <1>14. ASSUME NEW c \in Conns,
                UserShutdownStores(c) \/ UserForceCloses(c) \/ UserReads(c)
         PROVE  CallsKnown(m)
    <2>1. /\ c \in userHolds \union checked /\ loopOf[c] \in Loops
          /\ frames' = frames
      BY <1>14 DEF UserShutdownStores, UserForceCloses, UserReads, Typed
    <2>2. PICK op \in FunctorOps :
            /\ queue' = [queue EXCEPT ![loopOf[c]] = Append(@, Call(op, c))]
            /\ \/ op = "ShutdownInLoop" /\ StoreDisconnecting(c)
               \/ op = "ForceCloseInLoop" \/ op \in ReadOps
      BY <1>14 DEF UserShutdownStores, UserForceCloses, UserReads, ReadOps,
         FunctorOps
    <2>3. \A f \in Range(queue'[m]) :
              f \in Range(queue[m]) \/ (m = loopOf[c] /\ f = Call(op, c))
      BY <2>1, <2>2, CallsAfterQueue
    <2>. QED  BY <2>1, <2>2, <2>3 DEF CallsKnown, FreshFunctor
  <1>15. CASE UNCHANGED vars
    BY <1>1, <1>15 DEF vars
  <1>16. CASE \E l \in Loops : LoopStep(l)
    <2>1. PICK l \in Loops : LoopStep(l)
      BY <1>16
    <2>2. CASE Poll(l) \/ EndIteration(l)
      BY <1>1, <2>2 DEF Poll, EndIteration
    <2>. QED  BY <2>1, <2>2, <1>3, <1>4, <1>6, <1>7, <1>9, <1>10, <1>11, <1>12
         DEF LoopStep
  <1>17. Base \in Loops
    BY DEF Base, Loops
  <1>. QED
    BY <1>5, <1>13, <1>14, <1>15, <1>16, <1>17 DEF Next, UserStep, PeerStep

-----------------------------------------------------------------------------
(* MovesOnce *)

\* In this respect nothing is lost from s to t.
Follows(s, t, c) == (Free(s, c) => Free(t, c)) /\ (Once(s, c) => Once(t, c))

\* A return, with at most one call that does not move c.
LEMMA FollowsReturn ==
    ASSUME Typed, NEW l \in Loops, frames[l] # <<>>, NEW c, NEW m \in Loops,
           \/ ReturnAnd(l, <<>>)
           \/ \E f \in FrameType : ReturnAnd(l, <<f>>) /\ ~Moves(f, c)
    PROVE  Follows(frames[m], frames'[m], c)
  <1>1. frames[l] \in Seq(FrameType) /\ Tail(frames[l]) \in Seq(FrameType)
    BY DEF Typed
  <1>2. Follows(frames[l], Tail(frames[l]), c)
    BY <1>1, FreeTail DEF Follows
  <1>3. CASE m # l
    BY <1>3 DEF ReturnAnd, Typed, Follows
  <1>4. CASE m = l /\ ReturnAnd(l, <<>>)
    <2>1. <<>> \in Seq(FrameType)
      OBVIOUS
    <2>2. frames'[l] = <<>> \o Tail(frames[l])
      BY <1>4, <2>1, ReturnType
    <2>3. <<>> \o Tail(frames[l]) = Tail(frames[l])
      BY <1>1, EmptyConcat
    <2>. QED  BY <1>2, <1>4, <2>2, <2>3
  <1>5. ASSUME m = l, NEW f \in FrameType, ReturnAnd(l, <<f>>), ~Moves(f, c)
        PROVE  Follows(frames[m], frames'[m], c)
    <2>1. <<f>> \in Seq(FrameType)
      OBVIOUS
    <2>2. frames'[l] = <<f>> \o Tail(frames[l])
      BY <1>5, <2>1, ReturnType
    <2>3. Follows(Tail(frames[l]), <<f>> \o Tail(frames[l]), c)
      BY <1>1, <1>5, FreePush DEF Follows
    <2>. QED  BY <1>2, <1>5, <2>2, <2>3 DEF Follows
  <1>. QED  BY <1>3, <1>4, <1>5

\* A functor in the queue that does not move c.
LEMMA FollowsQueue ==
    ASSUME Typed, NEW l \in Loops, NEW f \in FunctorType, NEW c,
           queue' = [queue EXCEPT ![l] = Append(@, f)], ~Moves(f, c),
           NEW m \in Loops
    PROVE  Follows(queue[m], queue'[m], c)
  <1>1. /\ queue'[l] = Append(queue[l], f)
        /\ m # l => queue'[m] = queue[m]
    BY QueueType
  <1>2. queue[l] \in Seq(FrameType) /\ f \in FrameType
    BY PendingType DEF FunctorType, FrameType, FrameOps
  <1>3. Follows(queue[l], Append(queue[l], f), c)
    BY <1>2, FreeAppend DEF Follows
  <1>. QED  BY <1>1, <1>3 DEF Follows

\* The loops go on as they were, as far as calls that move c are concerned.
Undisturbed(c) ==
    \A l \in Loops : /\ Idle(l, c) => Idle(l, c)'
                     /\ OneMover(l, c) => OneMover(l, c)'

LEMMA FollowsUndisturbed ==
    ASSUME NEW c, \A m \in Loops : /\ Follows(frames[m], frames'[m], c)
                                   /\ Follows(queue[m], queue'[m], c)
    PROVE  Undisturbed(c)
  BY DEF Undisturbed, Follows, Idle, OneMover

\* The same after HandleClose() of another connection, or of a closed one.
LEMMA UndisturbedByClose ==
    ASSUME Typed, NEW l \in Loops, NEW c \in Conns, NEW d \in Conns,
           frames[l] # <<>>, HandleClose(l, d), ~(d = c /\ Open(c))
    PROVE  Undisturbed(c)
  <1>1. CASE ~Open(d)
    BY <1>1, FollowsUndisturbed DEF HandleClose, Open, Abort, Follows
  <1>2. CASE Open(d)
    <2>. DEFINE f == Call("RemoveConnectionInLoop", d)
    <2>1. ReturnAndRunInLoop(l, Base, f)
      BY <1>2 DEF HandleClose, Open
    <2>2. ~Moves(f, c) /\ f \in FunctorType /\ f \in FrameType /\ Base \in Loops
      BY <1>2, CallType DEF Moves, Base, Loops, FunctorOps, FrameOps
    <2>. HIDE DEF f
    <2>3. \A m \in Loops : Follows(frames[m], frames'[m], c)
      BY <2>1, <2>2, FollowsReturn DEF ReturnAndRunInLoop
    <2>4. \A m \in Loops : Follows(queue[m], queue'[m], c)
      BY <2>1, <2>2, FollowsQueue DEF ReturnAndRunInLoop, Follows
    <2>. QED  BY <2>3, <2>4, FollowsUndisturbed
  <1>. QED  BY <1>1, <1>2

\* The same after a return.
LEMMA UndisturbedByReturn ==
    ASSUME Typed, NEW l \in Loops, NEW c \in Conns, frames[l] # <<>>,
           \/ ReturnAnd(l, <<>>)
           \/ \E d \in Conns : ReturnAnd(l, <<Call("callback", d)>>),
           UNCHANGED queue
    PROVE  Undisturbed(c)
  <1>1. \A d \in Conns : /\ Call("callback", d) \in FrameType
                         /\ ~Moves(Call("callback", d), c)
    BY CallType DEF FrameOps, Moves, Closing
  <1>2. \A m \in Loops : Follows(frames[m], frames'[m], c)
    BY <1>1, FollowsReturn
  <1>. QED  BY <1>2, FollowsUndisturbed DEF Follows

\* Three steps only give a connection a call that moves it.
LEMMA Undisturbing ==
    ASSUME Typed, [Next]_vars, NEW c \in Conns
    PROVE  \/ Undisturbed(c)
           \/ NewConnection(c)
           \/ \E l \in Loops :
                  \/ RemoveConnectionInLoop(l, c)
                  \/ HandleClose(l, c) /\ Open(c) /\ frames[l] # <<>>
  <1>1. ASSUME UNCHANGED <<frames, queue>>
        PROVE  Undisturbed(c)
    BY <1>1, FollowsUndisturbed DEF Follows
  <1>2. ASSUME NEW check, NEW d, Abort(check, d)
        PROVE  Undisturbed(c)
    BY <1>1, <1>2 DEF Abort
  <1>3. ASSUME NEW l \in Loops, TakeFunctors(l)
        PROVE  Undisturbed(c)
    <2>1. /\ frames[l] = <<>>
          /\ frames'[l] = queue[l] /\ queue'[l] = <<>>
          /\ \A m \in Loops \ {l} : frames'[m] = frames[m] /\ queue'[m] = queue[m]
      BY <1>3 DEF TakeFunctors, InLoop, Typed
    <2>. QED  BY <2>1, FreeEmpty DEF Undisturbed, Idle, OneMover
  <1>4. ASSUME NEW l \in Loops, NEW e \in active[l], HandleEvent(l, e)
        PROVE  Undisturbed(c)
    <2>1. CASE Alive(e.conn)
      <3>. DEFINE read == Call("HandleRead", e.conn)
                  last == Call(IF e.hup THEN "closeCallback_" ELSE "return",
                               e.conn)
      <3>1. /\ queue' = queue /\ frames \in [Loops -> Seq(FrameType)]
            /\ frames' = [frames EXCEPT ![l] =
                  (IF e.in THEN <<read>> ELSE <<>>) \o <<last>>]
        BY <1>4, <2>1 DEF HandleEvent, Typed
      <3>2. read \in FrameType /\ last \in FrameType
        <4>1. e.conn \in Conns
          BY DEF Typed, EventType
        <4>. QED  BY <4>1, CallType DEF FrameOps, ChannelOps
      <3>3. ~Moves(read, c) /\ ~Moves(last, c)
        BY DEF Moves, Call, Closing
      <3>. HIDE DEF read, last
      <3>4. <<>> \in Seq(FrameType) /\ <<last>> \in Seq(FrameType)
        BY <3>2
      <3>5. Free(<<last>>, c) /\ Once(<<last>>, c)
        BY <3>3 DEF Free, Once
      <3>6. Free(<<read>> \o <<last>>, c) /\ Once(<<read>> \o <<last>>, c)
        BY <3>2, <3>3, <3>4, <3>5, FreePush
      <3>7. \A m \in Loops : Follows(frames[m], frames'[m], c)
        <4>1. <<>> \o <<last>> = <<last>>
          BY <3>4, EmptyConcat
        <4>2. CASE e.in
          BY <3>1, <3>6, <4>2 DEF Follows
        <4>3. CASE ~e.in
          <5>1. frames' = [frames EXCEPT ![l] = <<last>>]
            BY <3>1, <4>1, <4>3
          <5>. QED  BY <3>1, <3>5, <5>1 DEF Follows
        <4>. QED  BY <4>2, <4>3
      <3>. QED  BY <3>1, <3>7, FollowsUndisturbed DEF Follows
    <2>2. CASE ~Alive(e.conn)
      BY <1>2, <1>4, <2>2 DEF HandleEvent
    <2>. QED  BY <2>1, <2>2
  <1>5. ASSUME NEW l \in Loops, NEW d \in Conns,
               \/ Poll(l) \/ EndIteration(l) \/ CallbackKeeps(l, d)
               \/ UserShutdownChecks(d) \/ UserDrops(d)
               \/ PeerSends(d) \/ PeerCloses(d) \/ PeerResets(d)
        PROVE  Undisturbed(c)
    BY <1>1, <1>5 DEF Poll, EndIteration, CallbackKeeps, UserShutdownChecks,
       UserDrops, PeerSends, PeerCloses, PeerResets
  <1>6. ASSUME NEW d \in Conns, NewConnection(d), d # c
        PROVE  Undisturbed(c)
    <2>. DEFINE f == Call("ConnectionEstablished", d)
    <2>1. ReturnAndRunInLoopOf(NextLoop, f) /\ NextLoop \in Loops
      BY <1>6 DEF NewConnection, NextLoop, Loops, Base, Typed
    <2>2. ~Moves(f, c) /\ f \in FunctorType /\ f \in FrameType
      BY <1>6, CallType DEF Moves, FunctorOps, FrameOps
    <2>. HIDE DEF f
    <2>3. Free(<<f>>, c) /\ Once(<<f>>, c)
      BY <2>2 DEF Free, Once
    <2>4. \A m \in Loops : Follows(frames[m], frames'[m], c)
      BY <2>1, <2>3 DEF ReturnAndRunInLoopOf, Follows, Typed
    <2>5. \A m \in Loops : Follows(queue[m], queue'[m], c)
      BY <2>1, <2>2, FollowsQueue DEF ReturnAndRunInLoopOf, Follows
    <2>. QED  BY <2>4, <2>5, FollowsUndisturbed
  <1>7. ASSUME NEW l \in Loops, NEW d \in Conns, RemoveConnectionInLoop(l, d),
               d # c
        PROVE  Undisturbed(c)
    <2>. DEFINE f == Call("ConnectionDestroyed", d)
    <2>1. ReturnAndRunInLoop(l, loopOf[d], f) /\ frames[l] # <<>>
          /\ loopOf[d] \in Loops
      BY <1>7 DEF RemoveConnectionInLoop, Runs, Typed
    <2>2. ~Moves(f, c) /\ f \in FunctorType /\ f \in FrameType
      BY <1>7, CallType DEF Moves, FunctorOps, FrameOps
    <2>. HIDE DEF f
    <2>3. \A m \in Loops : Follows(frames[m], frames'[m], c)
      BY <2>1, <2>2, FollowsReturn DEF ReturnAndRunInLoop
    <2>4. \A m \in Loops : Follows(queue[m], queue'[m], c)
      BY <2>1, <2>2, FollowsQueue DEF ReturnAndRunInLoop, Follows
    <2>. QED  BY <2>3, <2>4, FollowsUndisturbed
  <1>8. ASSUME NEW l \in Loops, NEW d \in Conns,
               \/ ConnectionEstablished(l, d) \/ ConnectionDestroyed(l, d)
               \/ ShutdownInLoop(l, d) \/ StartReadInLoop(l, d)
               \/ StopReadInLoop(l, d) \/ CallbackReturns(l, d)
        PROVE  Undisturbed(c)
    <2>1. frames[l] # <<>>
      BY <1>8 DEF ConnectionEstablished, ConnectionDestroyed, ShutdownInLoop,
         StartReadInLoop, StopReadInLoop, CallbackReturns, InCallback, Runs
    <2>2. \/ \E check : Abort(check, d)
          \/ /\ \/ ReturnAnd(l, <<>>)
                \/ ReturnAnd(l, <<Call("callback", d)>>)
             /\ UNCHANGED queue
      BY <1>8 DEF ConnectionEstablished, ConnectionDestroyed, ShutdownInLoop,
         StartReadInLoop, StopReadInLoop, CallbackReturns
    <2>. QED  BY <1>2, <2>1, <2>2, UndisturbedByReturn
  <1>9. ASSUME NEW l \in Loops, NEW d \in Conns,
               \/ HandleRead(l, d) \/ HandleHangUp(l, d)
               \/ HandleEventReturns(l, d) \/ ForceCloseInLoop(l, d)
        PROVE  \/ Undisturbed(c)
               \/ HandleClose(l, c) /\ Open(c) /\ frames[l] # <<>>
    <2>1. frames[l] # <<>>
      BY <1>9 DEF HandleRead, HandleHangUp, HandleEventReturns,
         ForceCloseInLoop, Runs
    <2>2. \/ HandleClose(l, d)
          \/ \E check : Abort(check, d)
          \/ /\ \/ ReturnAnd(l, <<>>)
                \/ ReturnAnd(l, <<Call("callback", d)>>)
             /\ UNCHANGED queue
      BY <1>9 DEF HandleRead, HandleHangUp, HandleEventReturns,
         ForceCloseInLoop
    <2>. QED  BY <1>2, <2>1, <2>2, UndisturbedByReturn, UndisturbedByClose
  <1>10. ASSUME NEW l \in Loops, NEW b \in Conns, NEW d \in Conns,
                \/ CallbackShutdown(l, b, d) \/ CallbackForceClose(l, b, d)
                \/ CallbackReads(l, b, d)
         PROVE  Undisturbed(c)
    <2>1. PICK op \in ReadOps \union {"ShutdownInLoop", "ForceCloseInLoop"} :
            frames' = [frames EXCEPT ![l] = <<Call(op, d)>> \o @]
      BY <1>10 DEF CallbackShutdown, CallbackForceClose, CallbackReads
    <2>. DEFINE f == Call(op, d)
    <2>2. ~Moves(f, c) /\ f \in FrameType
      BY <2>1, CallType DEF Moves, FunctorOps, FrameOps, ReadOps, Closing
    <2>3. queue' = queue
      BY <1>10 DEF CallbackShutdown, CallbackForceClose, CallbackReads
    <2>4. frames' = [frames EXCEPT ![l] = <<f>> \o frames[l]]
      BY <2>1
    <2>. HIDE DEF f
    <2>5. frames[l] \in Seq(FrameType) /\ frames \in [Loops -> Seq(FrameType)]
      BY DEF Typed
    <2>6. Follows(frames[l], <<f>> \o frames[l], c)
      BY <2>2, <2>5, FreePush DEF Follows
    <2>7. \A m \in Loops : Follows(frames[m], frames'[m], c)
      BY <2>4, <2>5, <2>6 DEF Follows
    <2>. QED  BY <2>3, <2>7, FollowsUndisturbed DEF Follows
  <1>11. ASSUME NEW d \in Conns,
                UserShutdownStores(d) \/ UserForceCloses(d) \/ UserReads(d)
         PROVE  Undisturbed(c)
    <2>1. PICK op \in ReadOps \union {"ShutdownInLoop", "ForceCloseInLoop"} :
            queue' = [queue EXCEPT ![loopOf[d]] = Append(@, Call(op, d))]
      BY <1>11 DEF UserShutdownStores, UserForceCloses, UserReads
    <2>. DEFINE f == Call(op, d)
    <2>2. ~Moves(f, c) /\ f \in FunctorType
      BY <2>1, CallType DEF Moves, FunctorOps, ReadOps, Closing
    <2>3. frames' = frames /\ loopOf[d] \in Loops
      BY <1>11 DEF UserShutdownStores, UserForceCloses, UserReads, Typed
    <2>4. queue' = [queue EXCEPT ![loopOf[d]] = Append(@, f)]
      BY <2>1
    <2>. HIDE DEF f
    <2>5. \A m \in Loops : Follows(queue[m], queue'[m], c)
      BY <2>2, <2>3, <2>4, FollowsQueue
    <2>. QED  BY <2>3, <2>5, FollowsUndisturbed DEF Follows
  <1>12. CASE UNCHANGED vars
    BY <1>1, <1>12 DEF vars
  <1>13. CASE \E l \in Loops : LoopStep(l)
    <2>1. PICK l \in Loops : LoopStep(l)
      BY <1>13
    <2>2. CASE Poll(l) \/ EndIteration(l)
      BY <1>1, <2>2 DEF Poll, EndIteration
    <2>. QED  BY <2>1, <2>2, <1>3, <1>4, <1>6, <1>7, <1>8, <1>9 DEF LoopStep
  <1>14. Base \in Loops
    BY DEF Base, Loops
  <1>. QED
    BY <1>5, <1>10, <1>11, <1>12, <1>13, <1>14 DEF Next, UserStep, PeerStep

\* The call that is made is the only one that moves its connection.
LEMMA OnlyMover ==
    ASSUME Typed, NEW c \in Conns, MovedOnce(c), ~Overwritten(c),
           NEW l \in Loops, NEW f, Runs(l, f), Moves(f, c)
    PROVE  /\ Free(Tail(frames[l]), c) /\ Free(queue[l], c)
           /\ \A m \in Loops : m # l => Idle(m, c)
           /\ state_[c] \in {"kConnecting", "kDisconnected"} /\ downs[c] = 0
  <1>1. frames[l] \in Seq(FrameType) /\ frames[l] # <<>> /\ f = Head(frames[l])
    BY RunsPending
  <1>2. ~Free(frames[l], c)
    BY <1>1, FreeTail
  <1>3. OneMover(l, c) /\ ~Idle(l, c)
    BY <1>2 DEF MovedOnce, Idle
  <1>4. Free(Tail(frames[l]), c) /\ Free(queue[l], c)
    BY <1>1, <1>2, <1>3, FreeTail DEF OneMover
  <1>5. \A m \in Loops : m # l => Idle(m, c)
    BY <1>3 DEF MovedOnce
  <1>6. state_[c] \in {"kConnecting", "kDisconnected"} /\ downs[c] = 0
    <2>1. /\ state_[c] \in {"kConnecting", "kDisconnected"} /\ downs[c] # 1
          /\ downs[c] <= 1 /\ downs[c] \in 0 .. 2
      BY <1>3 DEF MovedOnce, Typed
    <2>. QED  BY <2>1
  <1>. QED  BY <1>4, <1>5, <1>6

\* A call that moves c is given to a loop while there is no other.
LEMMA MoverHandedOver ==
    ASSUME Typed, NEW l \in Loops, NEW target \in Loops, frames[l] # <<>>,
           NEW op \in FunctorOps, NEW c \in Conns,
           ReturnAndRunInLoop(l, target, Call(op, c)),
           Free(Tail(frames[l]), c), Free(queue[l], c),
           \A m \in Loops : m # l => Idle(m, c)
    PROVE  \A m \in Loops : /\ OneMover(m, c)'
                            /\ m # target => Idle(m, c)'
  <1>. DEFINE f == Call(op, c)
  <1>1. f \in FunctorType /\ f \in FrameType
    BY CallType DEF FrameOps
  <1>. HIDE DEF f
  <1>2. /\ frames[l] \in Seq(FrameType) /\ Tail(frames[l]) \in Seq(FrameType)
        /\ frames \in [Loops -> Seq(FrameType)]
        /\ queue \in [Loops -> Seq(FunctorType)]
    BY DEF Typed
  <1>3. \A s : Free(s, c) => Once(s, c)
    BY DEF Free, Once
  <1>4. CASE l = target
    <2>1. ReturnAnd(l, <<f>>) /\ queue' = queue
      BY <1>4 DEF ReturnAndRunInLoop, f
    <2>2. <<f>> \in Seq(FrameType)
      BY <1>1
    <2>3. /\ frames'[l] = <<f>> \o Tail(frames[l])
          /\ \A m \in Loops : m # l => frames'[m] = frames[m]
      BY <2>1, <2>2, ReturnType
    <2>4. Once(frames'[l], c)
      BY <1>1, <1>2, <2>3, FreePush
    <2>5. \A m \in Loops : m # l => Idle(m, c)'
      BY <2>1, <2>3 DEF Idle
    <2>6. OneMover(l, c)'
      BY <1>3, <2>1, <2>4 DEF OneMover
    <2>7. \A m \in Loops : m # l => OneMover(m, c)'
      BY <1>3, <2>5 DEF OneMover, Idle
    <2>. QED  BY <1>4, <2>5, <2>6, <2>7
  <1>5. CASE l # target
    <2>1. /\ ReturnAnd(l, <<>>)
          /\ queue' = [queue EXCEPT ![target] = Append(@, f)]
      BY <1>5 DEF ReturnAndRunInLoop, f
    <2>2. <<>> \in Seq(FrameType)
      OBVIOUS
    <2>3. /\ frames'[l] = <<>> \o Tail(frames[l])
          /\ \A m \in Loops : m # l => frames'[m] = frames[m]
      BY <2>1, <2>2, ReturnType
    <2>4. frames'[l] = Tail(frames[l])
      BY <1>2, <2>3, EmptyConcat
    <2>5. /\ queue'[target] = Append(queue[target], f)
          /\ \A m \in Loops : m # target => queue'[m] = queue[m]
      BY <1>1, <2>1, QueueType
    <2>6. \A m \in Loops : Free(frames'[m], c)
      BY <2>3, <2>4 DEF Idle
    <2>7. \A m \in Loops : m # target => Free(queue'[m], c)
      BY <2>5 DEF Idle
    <2>8. Once(queue'[target], c)
      <3>1. queue[target] \in Seq(FrameType) /\ Free(queue[target], c)
        BY <1>5, PendingType DEF Idle
      <3>. QED  BY <1>1, <2>5, <3>1, FreeAppend
    <2>. QED  BY <1>3, <2>6, <2>7, <2>8 DEF Idle, OneMover
  <1>. QED  BY <1>4, <1>5

\* The user hears of the end of a connection from ConnectionDestroyed only.
LEMMA DownsStep ==
    ASSUME Typed, [Next]_vars, NEW c \in Conns
    PROVE  downs'[c] = downs[c] \/ \E l \in Loops : ConnectionDestroyed(l, c)
  <1>1. ASSUME NEW check, NEW d, Abort(check, d)
        PROVE  downs' = downs
    BY <1>1 DEF Abort
  <1>2. ASSUME NEW l \in Loops, NEW d \in Conns, HandleClose(l, d)
        PROVE  downs' = downs
    BY <1>1, <1>2 DEF HandleClose
  <1>3. ASSUME NEW l \in Loops, LoopStep(l)
        PROVE  downs' = downs \/ \E d \in Conns : ConnectionDestroyed(l, d)
    BY <1>1, <1>2, <1>3 DEF LoopStep, Poll, TakeFunctors, EndIteration,
       HandleEvent, HandleRead, HandleHangUp, HandleEventReturns,
       ConnectionEstablished, RemoveConnectionInLoop, ShutdownInLoop,
       ForceCloseInLoop, StartReadInLoop, StopReadInLoop, CallbackReturns,
       NewConnection
  <1>4. ASSUME UserStep \/ PeerStep
        PROVE  downs' = downs
    BY ZenonT(60), <1>4 DEF UserStep, PeerStep, CallbackKeeps, CallbackShutdown,
       CallbackForceClose, CallbackReads, UserShutdownChecks,
       UserShutdownStores, UserForceCloses, UserReads, UserDrops, PeerSends,
       PeerCloses, PeerResets
  <1>5. ASSUME NEW l \in Loops, NEW d \in Conns, ConnectionDestroyed(l, d),
               d # c
        PROVE  downs'[c] = downs[c]
    BY <1>5 DEF ConnectionDestroyed, Abort, Typed
  <1>. QED  BY <1>3, <1>4, <1>5 DEF Next, vars

\* MovesOnce is kept by every step.
LEMMA MovesOnceStep ==
    ASSUME LifeInv, [Next]_vars
    PROVE  MovesOnce'
  <1>. SUFFICES ASSUME NEW c \in Conns
                PROVE  MovedOnce(c)'
    BY DEF MovesOnce
  <1>0. /\ Typed /\ MovedOnce(c) /\ CallsFit /\ ConnsFit
        /\ state_ \in [Conns -> States] /\ downs \in [Conns -> 0 .. 2]
    BY DEF LifeInv, MovesOnce, Typed
  <1>1. blame[c] \subseteq blame'[c]
    BY <1>0, Ageing
  <1>2. CASE Overwritten(c)
    BY <1>1, <1>2 DEF MovedOnce, Overwritten
  <1>3. CASE ~Overwritten(c) /\ NewConnection(c)
    <2>1. /\ state_[c] = "none" /\ state_'[c] = "kConnecting" /\ downs' = downs
          /\ ReturnAndRunInLoopOf(NextLoop, Call("ConnectionEstablished", c))
          /\ NextLoop \in Loops /\ Base \in Loops
      BY <1>0, <1>3 DEF NewConnection, Created, NextLoop, Loops, Base, Typed
    <2>2. downs[c] = 0 /\ \A m \in Loops : Idle(m, c)
      BY <1>0, <1>3, <2>1 DEF MovedOnce
    <2>3. /\ Call("ConnectionEstablished", c) \in FunctorType
          /\ Call("ConnectionEstablished", c) \in FrameType
      BY CallType DEF FunctorOps, FrameOps
    <2>. DEFINE f == Call("ConnectionEstablished", c)
    <2>. HIDE DEF f
    <2>4. Once(<<f>>, c) /\ \A s : Free(s, c) => Once(s, c)
      BY DEF Free, Once
    <2>5. \A m \in Loops : OneMover(m, c)' /\ (m # NextLoop => Idle(m, c)')
      <3>1. CASE NextLoop = Base
        <4>1. /\ queue' = queue /\ frames'[Base] = <<f>>
              /\ \A m \in Loops : m # Base => frames'[m] = frames[m]
          BY <1>0, <2>1, <3>1 DEF ReturnAndRunInLoopOf, Typed, f
        <4>. QED  BY <2>1, <2>2, <2>4, <3>1, <4>1 DEF Idle, OneMover
      <3>2. CASE NextLoop # Base
        <4>1. /\ frames' = frames
              /\ queue' = [queue EXCEPT ![NextLoop] = Append(@, f)]
          BY <2>1, <3>2 DEF ReturnAndRunInLoopOf, f
        <4>2. /\ queue'[NextLoop] = Append(queue[NextLoop], f)
              /\ \A m \in Loops : m # NextLoop => queue'[m] = queue[m]
          BY <1>0, <2>1, <2>3, <4>1, QueueType DEF f
        <4>3. Once(queue'[NextLoop], c)
          <5>1. /\ queue[NextLoop] \in Seq(FrameType)
                /\ Free(queue[NextLoop], c)
            BY <1>0, <2>1, <2>2, PendingType DEF Idle
          <5>. QED  BY <2>3, <4>2, <5>1, FreeAppend DEF f
        <4>. QED  BY <2>2, <2>4, <4>1, <4>2, <4>3 DEF Idle, OneMover
      <3>. QED  BY <3>1, <3>2
    <2>. QED  BY <2>1, <2>2, <2>5 DEF MovedOnce
  <1>4. ASSUME ~Overwritten(c), NEW l \in Loops, frames[l] # <<>>,
               HandleClose(l, c), Open(c)
        PROVE  MovedOnce(c)'
    <2>1. /\ ReturnAndRunInLoop(l, Base, Call("RemoveConnectionInLoop", c))
          /\ state_'[c] = "kDisconnected" /\ downs' = downs
          /\ Base \in Loops /\ "RemoveConnectionInLoop" \in FunctorOps
      BY <1>0, <1>4 DEF HandleClose, Open, Base, Loops, FunctorOps
    <2>2. downs[c] = 0 /\ \A m \in Loops : Idle(m, c)
      BY <1>0, <1>4 DEF MovedOnce, Open
    <2>3. Free(Tail(frames[l]), c) /\ Free(queue[l], c)
      BY <1>0, <1>4, <2>2, FreeTail DEF Idle, Typed
    <2>4. \A m \in Loops : OneMover(m, c)' /\ (m # Base => Idle(m, c)')
      BY <1>0, <1>4, <2>1, <2>2, <2>3, MoverHandedOver
    <2>. QED  BY <2>1, <2>2, <2>4 DEF MovedOnce
  <1>5. ASSUME ~Overwritten(c), NEW l \in Loops, RemoveConnectionInLoop(l, c)
        PROVE  MovedOnce(c)'
    <2>1. /\ Runs(l, Call("RemoveConnectionInLoop", c))
          /\ ReturnAndRunInLoop(l, loopOf[c], Call("ConnectionDestroyed", c))
          /\ state_' = state_ /\ downs' = downs /\ frames[l] # <<>>
          /\ loopOf[c] \in Loops /\ "ConnectionDestroyed" \in FunctorOps
      BY <1>0, <1>5 DEF RemoveConnectionInLoop, Runs, Typed, FunctorOps
    <2>2. Moves(Call("RemoveConnectionInLoop", c), c)
      BY DEF Moves, Closing, Call
    <2>3. /\ Free(Tail(frames[l]), c) /\ Free(queue[l], c)
          /\ \A m \in Loops : m # l => Idle(m, c)
          /\ state_[c] \in {"kConnecting", "kDisconnected"} /\ downs[c] = 0
      BY <1>0, <1>5, <2>1, <2>2, OnlyMover
    <2>4. \A m \in Loops : OneMover(m, c)' /\ (m # loopOf[c] => Idle(m, c)')
      BY <1>0, <2>1, <2>3, MoverHandedOver
    <2>. QED  BY <1>0, <2>1, <2>3, <2>4 DEF MovedOnce

  <1>6. ASSUME ~Overwritten(c), NEW l \in Loops,
               \/ ConnectionDestroyed(l, c) /\ state_[c] = "kDisconnected"
               \/ ConnectionEstablished(l, c) /\ state_[c] = "kConnecting"
        PROVE  MovedOnce(c)'
    <2>1. PICK f \in {Call("ConnectionDestroyed", c),
                      Call("ConnectionEstablished", c)} : Runs(l, f)
      BY <1>6 DEF ConnectionDestroyed, ConnectionEstablished
    <2>2. Moves(f, c) /\ frames[l] # <<>>
      BY <2>1 DEF Moves, Closing, Call, Runs
    <2>3. /\ Free(Tail(frames[l]), c) /\ Free(queue[l], c)
          /\ \A m \in Loops : m # l => Idle(m, c)
          /\ downs[c] = 0
      BY <1>0, <1>6, <2>1, <2>2, OnlyMover
    <2>4. /\ \/ ReturnAnd(l, <<>>)
             \/ ReturnAnd(l, <<Call("callback", c)>>)
          /\ queue' = queue
          /\ \/ state_'[c] = "kDisconnected" /\ downs'[c] = 1
             \/ state_'[c] = "kConnected" /\ downs'[c] = 0
      BY <1>0, <1>6, <2>3 DEF ConnectionDestroyed, ConnectionEstablished
    <2>5. Free(frames'[l], c) /\ \A m \in Loops : m # l => frames'[m] = frames[m]
      <3>. DEFINE g == Call("callback", c)
      <3>1. g \in FrameType /\ ~Moves(g, c)
        BY CallType DEF FrameOps, Moves, Closing
      <3>. HIDE DEF g
      <3>2. <<>> \in Seq(FrameType) /\ <<g>> \in Seq(FrameType)
            /\ Tail(frames[l]) \in Seq(FrameType)
        BY <1>0, <2>2, <3>1 DEF Typed
      <3>3. CASE ReturnAnd(l, <<>>)
        <4>1. /\ frames'[l] = <<>> \o Tail(frames[l])
              /\ \A m \in Loops : m # l => frames'[m] = frames[m]
          BY <1>0, <2>2, <3>2, <3>3, ReturnType
        <4>. QED  BY <2>3, <3>2, <4>1, EmptyConcat
      <3>4. CASE ReturnAnd(l, <<g>>)
        <4>1. /\ frames'[l] = <<g>> \o Tail(frames[l])
              /\ \A m \in Loops : m # l => frames'[m] = frames[m]
          BY <1>0, <2>2, <3>2, <3>4, ReturnType
        <4>. QED  BY <2>3, <3>1, <3>2, <4>1, FreePush
      <3>. QED  BY <2>4, <3>3, <3>4 DEF g
    <2>6. \A m \in Loops : Idle(m, c)'
      BY <2>3, <2>4, <2>5 DEF Idle
    <2>7. \A m \in Loops : OneMover(m, c)'
      BY <2>6 DEF OneMover, Idle, Free, Once
    <2>. QED  BY <2>4, <2>6, <2>7 DEF MovedOnce
  <1>7. ASSUME NEW l \in Loops, ConnectionDestroyed(l, c),
               state_[c] # "kDisconnected"
        PROVE  MovedOnce(c)'
    <2>1. UNCHANGED <<frames, queue, state_, downs, blame>>
      BY <1>7 DEF ConnectionDestroyed, Abort
    <2>. QED  BY <1>0, <2>1 DEF MovedOnce, Overwritten, Idle, OneMover
  <1>8. CASE ~Overwritten(c) /\ Ages(c) /\ Undisturbed(c) /\ downs'[c] = downs[c]
    <2>1. ASSUME state_'[c] = state_[c] \/ (Open(c) /\ state_'[c] = "kDisconnecting")
          PROVE  MovedOnce(c)'
      <3>1. /\ \A l \in Loops : OneMover(l, c)'
            /\ \A l, m \in Loops : l = m \/ Idle(l, c)' \/ Idle(m, c)'
            /\ downs'[c] <= 1
        BY <1>0, <1>8 DEF MovedOnce, Undisturbed
      <3>2. state_'[c] \notin {"kConnecting", "kDisconnected"} \/ downs'[c] = 1
                => \A l \in Loops : Idle(l, c)'
        BY <1>0, <1>8, <2>1 DEF MovedOnce, Undisturbed, Open
      <3>3. state_'[c] # "kDisconnected" => downs'[c] = 0
        BY <1>0, <1>8, <2>1 DEF MovedOnce, Open
      <3>. QED  BY <3>1, <3>2, <3>3 DEF MovedOnce
    <2>2. CASE "overwritten" \in blame'[c]
      BY <2>2 DEF MovedOnce, Overwritten
    <2>3. CASE ~New(c) /\ state_'[c] = "kDisconnecting" /\ state_[c] # "kDisconnected"
      BY <1>0, <2>1, <2>3 DEF New, Open, States
    <2>. QED  BY <1>4, <1>8, <2>1, <2>2, <2>3 DEF Ages
  <1>. QED
    <2>1. \/ Ages(c) \/ NewConnection(c)
          \/ \E l \in Loops :
                 ConnectionEstablished(l, c) /\ state_[c] = "kConnecting"
      BY <1>0, Ageing
    <2>2. \/ Undisturbed(c) \/ NewConnection(c)
          \/ \E l \in Loops :
                 \/ RemoveConnectionInLoop(l, c)
                 \/ HandleClose(l, c) /\ Open(c) /\ frames[l] # <<>>
      BY <1>0, Undisturbing
    <2>3. downs'[c] = downs[c] \/ \E l \in Loops : ConnectionDestroyed(l, c)
      BY <1>0, DownsStep
    <2>. QED  BY <1>2, <1>3, <1>4, <1>5, <1>6, <1>7, <1>8, <2>1, <2>2, <2>3

-----------------------------------------------------------------------------
(* CallsFit, EventsFit and ConnsFit *)

\* What the user knows it goes on knowing, and its loop stays.
LEMMA KnownStays ==
    ASSUME Typed, CallsFit, ConnsFit, [Next]_vars, NEW c \in Conns, ~New(c)
    PROVE  /\ Ages(c) /\ loopOf'[c] = loopOf[c] /\ ~New(c)'
           /\ blame[c] \subseteq blame'[c]
  <1>1. ~NewConnection(c) /\ state_[c] # "kConnecting"
    BY DEF NewConnection, Created, New
  <1>2. Ages(c) /\ blame[c] \subseteq blame'[c]
    BY <1>1, Ageing
  <1>. QED  BY <1>2 DEF Ages, New

\* The calls of a connection that goes on as it is still fit.
LEMMA CallStays ==
    ASSUME Typed, NEW m \in Loops, NEW f \in FrameType, CallFits(m, f),
           Ages(f.conn), blame[f.conn] \subseteq blame'[f.conn]
    PROVE  CallFits(m, f)'
  BY DEF CallFits, Ages, Overwritten, New, Open

\* The calls of loop m fit after a step, those it has got in particular.
LEMMA FreshFits ==
    ASSUME LifeInv, [Next]_vars, NEW m \in Loops, NEW f \in FrameType,
           FreshFrame(m, f) \/ FreshFunctor(m, f)
    PROVE  CallFits(m, f)'
  <1>. DEFINE c == f.conn
  <1>0. /\ Typed /\ CallsFit /\ EventsFit /\ ConnsFit /\ c \in Conns
        /\ state_ \in [Conns -> States] /\ loopOf \in [Conns -> Loops]
    BY DEF LifeInv, FrameType, Typed
  <1>1. ASSUME ~New(c), m = loopOf[c],
               f.op \notin Closing \union {"ConnectionEstablished",
                                           "ShutdownInLoop"}
        PROVE  CallFits(m, f)'
    BY <1>0, <1>1, KnownStays DEF CallFits, Closing
  <1>2. ASSUME ~New(c), m = loopOf[c], f.op = "ShutdownInLoop",
               StoreDisconnecting(c)
        PROVE  CallFits(m, f)'
    <2>1. state_'[c] = "kDisconnecting"
      BY <1>0, <1>2 DEF StoreDisconnecting
    <2>. QED  BY <1>0, <1>2, <2>1, KnownStays DEF CallFits, Closing
  <1>3. ASSUME NewConnection(c), m = NextLoop, f.op = "ConnectionEstablished"
        PROVE  CallFits(m, f)'
    <2>1. state_'[c] = "kConnecting" /\ loopOf'[c] = NextLoop
      BY <1>0, <1>3 DEF NewConnection
    <2>. QED  BY <1>3, <2>1 DEF CallFits, Closing
  <1>4. ASSUME NEW l \in Loops, HandleClose(l, c), Open(c), m = Base,
               f.op = "RemoveConnectionInLoop"
        PROVE  CallFits(m, f)'
    <2>1. state_'[c] = "kDisconnected"
      BY <1>0, <1>4 DEF HandleClose, Open
    <2>. QED  BY <1>4, <2>1 DEF CallFits, Closing, New
  <1>5. ASSUME NEW l \in Loops, RemoveConnectionInLoop(l, c), m = loopOf[c],
               f.op = "ConnectionDestroyed"
        PROVE  CallFits(m, f)'
    <2>1. Call("RemoveConnectionInLoop", c) \in Pending(l)
      BY <1>0, <1>5, RunsPending DEF RemoveConnectionInLoop
    <2>2. ~New(c) /\ (state_[c] = "kDisconnected" \/ Overwritten(c))
      BY <1>0, <2>1, CallType DEF CallsFit, CallFits, Closing
    <2>3. state_' = state_ /\ loopOf' = loopOf /\ blame' = blame
      BY <1>5 DEF RemoveConnectionInLoop
    <2>. QED  BY <1>5, <2>2, <2>3 DEF CallFits, Closing, New, Overwritten
  <1>6. ASSUME NEW d \in Conns, NEW op \in FrameOps, f = Call(op, d)
        PROVE  f.op = op /\ c = d
    BY <1>6, CallType
  <1>7. FrameOps = {"ConnectionEstablished", "RemoveConnectionInLoop",
                    "ConnectionDestroyed", "ShutdownInLoop",
                    "ForceCloseInLoop", "StartReadInLoop", "StopReadInLoop",
                    "HandleRead", "closeCallback_", "return", "callback"}
        /\ ReadOps = {"StartReadInLoop", "StopReadInLoop"}
    BY DEF FrameOps, FunctorOps, ChannelOps, ReadOps
  <1>8. CASE \E e \in active[m] :
               /\ HandleEvent(m, e)
               /\ f \in {Call("HandleRead", e.conn), Call("return", e.conn),
                         Call("closeCallback_", e.conn)}
    <2>1. PICK e \in active[m] :
            /\ HandleEvent(m, e)
            /\ f \in {Call("HandleRead", e.conn), Call("return", e.conn),
                      Call("closeCallback_", e.conn)}
      BY <1>8
    <2>2. e.conn \in Conns /\ e.conn \in Created
      <3>1. e \in EventType
        BY <1>0 DEF Typed
      <3>. QED  BY <2>1, <3>1 DEF HandleEvent, EventType
    <2>3. ~New(e.conn) /\ m = loopOf[e.conn]
      BY <1>0, <2>2 DEF EventsFit, EventFits
    <2>4. f.conn = e.conn /\ f.op \in {"HandleRead", "return", "closeCallback_"}
      BY <1>6, <1>7, <2>1, <2>2
    <2>. QED  BY <1>1, <2>3, <2>4 DEF Closing
  <1>9. ASSUME NEW l \in Loops, NEW g, Runs(l, g), g.conn = c,
               g.op # "ConnectionEstablished"
        PROVE  ~New(c)
    BY <1>0, <1>9, RunsPending DEF CallsFit, CallFits
  <1>10. ASSUME FreshFunctor(m, f)
         PROVE  CallFits(m, f)'
    <2>1. PICK d \in Conns :
        \/ /\ f = Call("ConnectionEstablished", d)
           /\ NewConnection(d) /\ m = NextLoop
        \/ /\ f = Call("RemoveConnectionInLoop", d)
           /\ \E l \in Loops : HandleClose(l, d)
           /\ Open(d) /\ m = Base
        \/ /\ f = Call("ConnectionDestroyed", d)
           /\ \E l \in Loops : RemoveConnectionInLoop(l, d)
           /\ m = loopOf[d]
        \/ /\ d \in userHolds \union checked /\ m = loopOf[d]
           /\ \/ f = Call("ShutdownInLoop", d) /\ StoreDisconnecting(d)
              \/ f = Call("ForceCloseInLoop", d)
              \/ \E op \in ReadOps : f = Call(op, d)
      BY <1>10 DEF FreshFunctor
    <2>2. f.conn = d
      BY <2>1, <1>6, <1>7
    <2>3. d \in userHolds \union checked => ~New(d)
      BY <1>0 DEF ConnsFit, ConnFits
    <2>. QED  BY <1>1, <1>2, <1>3, <1>4, <1>5, <1>6, <1>7, <2>1, <2>2, <2>3
         DEF Closing
  <1>11. ASSUME FreshFrame(m, f)
         PROVE  CallFits(m, f)'
    <2>1. CASE \E d \in Conns :
        \/ /\ f = Call("ConnectionEstablished", d)
           /\ NewConnection(d) /\ NextLoop = Base /\ m = Base
        \/ /\ f = Call("RemoveConnectionInLoop", d)
           /\ HandleClose(m, d) /\ Open(d) /\ m = Base
        \/ /\ f = Call("ConnectionDestroyed", d)
           /\ RemoveConnectionInLoop(m, d) /\ m = loopOf[d]
      BY <1>3, <1>4, <1>5, <1>6, <1>7, <2>1
    <2>2. ASSUME NEW d \in Conns, f = Call("callback", d),
                 ConnectionEstablished(m, d), state_[d] = "kConnecting"
          PROVE  CallFits(m, f)'
      <3>1. /\ Call("ConnectionEstablished", d) \in Pending(m)
            /\ f.op = "callback" /\ f.conn = d
        BY <1>0, <1>6, <1>7, <2>2, RunsPending DEF ConnectionEstablished
      <3>2. m = loopOf[d]
        <4>1. /\ Call("ConnectionEstablished", d).conn = d
              /\ Call("ConnectionEstablished", d).op = "ConnectionEstablished"
          BY DEF Call
        <4>2. CallFits(m, Call("ConnectionEstablished", d))
          BY <1>0, <3>1 DEF CallsFit
        <4>. QED  BY <4>1, <4>2 DEF CallFits
      <3>3. state_'[d] = "kConnected" /\ loopOf' = loopOf
        BY <1>0, <2>2 DEF ConnectionEstablished, poolVars
      <3>. QED  BY <3>1, <3>2, <3>3 DEF CallFits, Closing, New
    <2>3. ASSUME NEW d \in Conns, f = Call("callback", d), HandleRead(m, d)
          PROVE  CallFits(m, f)'
      <3>1. /\ Call("HandleRead", d) \in Pending(m)
            /\ f.op = "callback" /\ f.conn = d
        BY <1>0, <1>6, <1>7, <2>3, RunsPending DEF HandleRead
      <3>2. m = loopOf[d] /\ ~New(d)
        <4>1. /\ Call("HandleRead", d).conn = d
              /\ Call("HandleRead", d).op = "HandleRead"
          BY DEF Call
        <4>. QED  BY <1>0, <3>1, <4>1 DEF CallsFit, CallFits
      <3>. QED  BY <1>1, <3>1, <3>2 DEF Closing
    <2>4. ASSUME NEW d \in Conns, NEW b \in Conns,
                 InCallback(m, b), d \in userHolds \union {b}, m = loopOf[d],
                 \/ f = Call("ShutdownInLoop", d) /\ StoreDisconnecting(d)
                 \/ f = Call("ForceCloseInLoop", d)
                 \/ \E op \in ReadOps : f = Call(op, d)
          PROVE  CallFits(m, f)'
      <3>1. f.conn = d /\ f.op \in {"ShutdownInLoop", "ForceCloseInLoop"} \union ReadOps
            /\ (f.op = "ShutdownInLoop" => StoreDisconnecting(d))
        BY <1>6, <1>7, <2>4
      <3>2. ~New(d)
        <4>1. Call("callback", b) \in Pending(m)
          BY <1>0, <2>4, RunsPending DEF InCallback
        <4>2. Call("callback", b).conn = b /\ Call("callback", b).op = "callback"
          BY DEF Call
        <4>3. ~New(b)
          BY <1>0, <4>1, <4>2 DEF CallsFit, CallFits
        <4>. QED  BY <1>0, <2>4, <4>3 DEF ConnsFit, ConnFits
      <3>. QED  BY <1>1, <1>2, <1>7, <2>4, <3>1, <3>2 DEF Closing
    <2>. QED  BY <1>8, <1>11, <2>1, <2>2, <2>3, <2>4 DEF FreshFrame
  <1>. QED  BY <1>10, <1>11

\* CallsFit is kept by every step.
LEMMA CallsFitStep ==
    ASSUME LifeInv, [Next]_vars
    PROVE  CallsFit'
  <1>0. /\ Typed /\ CallsFit /\ ConnsFit /\ Typed' /\ MovesOnce'
        /\ state_ \in [Conns -> States]
    BY StepTyped, MovesOnceStep DEF LifeInv, Typed
  <1>. SUFFICES ASSUME NEW m \in Loops, NEW f \in Pending(m)'
                PROVE  CallFits(m, f)'
    BY DEF CallsFit
  <1>1. f \in FrameType /\ f.conn \in Conns
    <2>1. Pending(m)' \subseteq FrameType
      <3>1. /\ frames'[m] \in Seq(FrameType)
            /\ queue'[m] \in Seq(FunctorType)
        BY <1>0 DEF Typed
      <3>2. queue'[m] \in Seq(FrameType)
        BY <3>1, FunctorsAreFrames
      <3>. QED  BY <3>1, <3>2 DEF Pending, Range
    <2>. QED  BY <2>1 DEF FrameType
  <1>2. \/ f \in Pending(m)
        \/ FreshFrame(m, f) \/ FreshFunctor(m, f)
    BY <1>0, CallsAfter DEF CallsKnown, Pending
  <1>3. CASE f \in Pending(m)
    <2>1. CallFits(m, f)
      BY <1>0, <1>3 DEF CallsFit
    <2>2. blame[f.conn] \subseteq blame'[f.conn]
      BY <1>0, <1>1, Ageing
    <2>3. CASE Ages(f.conn)
      BY <1>0, <1>1, <2>1, <2>2, <2>3, CallStays
    <2>4. CASE NewConnection(f.conn)
      <3>1. state_[f.conn] = "none"
        BY <1>1, <2>4 DEF NewConnection, Created
      <3>. QED  BY <2>1, <3>1 DEF CallFits, New
    <2>5. ASSUME NEW l \in Loops, ConnectionEstablished(l, f.conn),
                 state_[f.conn] = "kConnecting"
          PROVE  FALSE
      <3>1. Moves(f, f.conn)
        BY <2>1, <2>5 DEF CallFits, New, Moves
      <3>2. ~Overwritten(f.conn)
        BY <1>0, <1>1, <2>5 DEF ConnsFit, ConnFits, New
      <3>3. state_'[f.conn] = "kConnected" /\ blame' = blame
        BY <1>0, <1>1, <2>5 DEF ConnectionEstablished
      <3>4. Idle(m, f.conn)'
        BY <1>0, <1>1, <3>2, <3>3 DEF MovesOnce, MovedOnce, Overwritten
      <3>5. \A s : f \in Range(s) => ~Free(s, f.conn)
        BY <3>1 DEF Range, Free
      <3>. QED  BY <3>4, <3>5 DEF Pending, Idle
    <2>. QED  BY <1>0, <1>1, <2>3, <2>4, <2>5, Ageing
  <1>4. CASE FreshFrame(m, f) \/ FreshFunctor(m, f)
    BY <1>1, <1>4, FreshFits
  <1>. QED  BY <1>2, <1>3, <1>4

\* The events that a loop has to handle after a step.
LEMMA EventsAfter ==
    ASSUME Typed, [Next]_vars, NEW m \in Loops, NEW e \in active'[m]
    PROVE  \/ /\ e \in active[m]
              /\ ~HandleEvent(m, e) \/ ~Alive(e.conn)
              /\ NewConnection(e.conn) => m # Base \/ e # Acceptable(e.conn)
           \/ Poll(m) /\ e \in Ready(m)
           \/ Poll(m) /\ m = Base /\ e.conn \in Conns \ Created
                      /\ e = Acceptable(e.conn)
  <1>. USE DEF loopVars
  <1>. DEFINE Old == /\ e \in active[m]
                     /\ ~HandleEvent(m, e) \/ ~Alive(e.conn)
                     /\ NewConnection(e.conn) =>
                            m # Base \/ e # Acceptable(e.conn)
              Polled == \/ Poll(m) /\ e \in Ready(m)
                        \/ Poll(m) /\ m = Base /\ e.conn \in Conns \ Created
                                   /\ e = Acceptable(e.conn)
  <1>1. HandleEvent(m, e) /\ Alive(e.conn) => e \notin active'[m]
    BY DEF HandleEvent, Typed
  <1>2. NewConnection(e.conn) /\ m = Base => e # Acceptable(e.conn)
    BY DEF NewConnection, Typed
  <1>3. ASSUME e \in active[m]
        PROVE  Old
    BY <1>1, <1>2, <1>3
  <1>4. ASSUME NEW l \in Loops, Poll(l)
        PROVE  Old \/ Polled
    <2>1. CASE l # m
      BY <1>3, <1>4, <2>1 DEF Poll, Typed
    <2>2. CASE l = m
      <3>1. PICK new \in SUBSET (IF m = Base THEN Conns \ Created ELSE {}) :
              active' = [active EXCEPT ![m] =
                            Ready(m) \union {Acceptable(c) : c \in new}]
        BY <1>4, <2>2 DEF Poll
      <3>2. e \in Ready(m) \/ \E c \in new : e = Acceptable(c)
        BY <3>1 DEF Typed
      <3>3. \A c : Acceptable(c).conn = c
        BY DEF Acceptable
      <3>. QED  BY <1>4, <2>2, <3>2, <3>3
    <2>. QED  BY <2>1, <2>2
  <1>5. ASSUME NEW l \in Loops, NEW d \in active[l], HandleEvent(l, d)
        PROVE  e \in active[m]
    <2>1. \/ active' = [active EXCEPT ![l] = @ \ {d}]
          \/ active' = active
      BY <1>5 DEF HandleEvent, Abort
    <2>. QED  BY ZenonT(60), <2>1 DEF Typed
  <1>6. ASSUME NEW c \in Conns, NewConnection(c)
        PROVE  e \in active[m]
    BY <1>6 DEF NewConnection, Typed
  <1>7. ASSUME NEW check, NEW c, Abort(check, c)
        PROVE  active' = active
    BY <1>7 DEF Abort
  <1>8. ASSUME NEW l \in Loops, NEW c \in Conns, HandleClose(l, c)
        PROVE  active' = active
    BY <1>7, <1>8 DEF HandleClose
  <1>9. ASSUME NEW l \in Loops, LoopStep(l)
        PROVE  Old \/ Polled
    <2>1. CASE \/ TakeFunctors(l) \/ EndIteration(l)
               \/ \E c \in Conns :
                   \/ HandleRead(l, c) \/ HandleHangUp(l, c)
                   \/ HandleEventReturns(l, c)
                   \/ ConnectionEstablished(l, c) \/ ConnectionDestroyed(l, c)
                   \/ RemoveConnectionInLoop(l, c)
                   \/ ShutdownInLoop(l, c) \/ ForceCloseInLoop(l, c)
                   \/ StartReadInLoop(l, c) \/ StopReadInLoop(l, c)
                   \/ CallbackReturns(l, c)
      <3>1. active' = active
        BY <1>7, <1>8, <2>1 DEF TakeFunctors, EndIteration, HandleRead,
           HandleHangUp, HandleEventReturns, ConnectionEstablished,
           ConnectionDestroyed, RemoveConnectionInLoop, ShutdownInLoop,
           ForceCloseInLoop, StartReadInLoop, StopReadInLoop, CallbackReturns
      <3>. QED  BY <1>3, <3>1
    <2>. QED  BY <1>3, <1>4, <1>5, <1>6, <1>9, <2>1 DEF LoopStep
  <1>10. ASSUME UserStep \/ PeerStep
         PROVE  active' = active
    BY ZenonT(60), <1>10 DEF UserStep, PeerStep, CallbackKeeps, CallbackShutdown,
       CallbackForceClose, CallbackReads, UserShutdownChecks,
       UserShutdownStores, UserForceCloses, UserReads, UserDrops, PeerSends,
       PeerCloses, PeerResets
  <1>11. CASE UNCHANGED vars
    BY <1>3, <1>11 DEF vars
  <1>12. CASE UserStep \/ PeerStep
    BY <1>3, <1>10, <1>12
  <1>. QED  BY <1>9, <1>11, <1>12 DEF Next

\* EventsFit is kept by every step.
LEMMA EventsFitStep ==
    ASSUME LifeInv, [Next]_vars
    PROVE  EventsFit'
  <1>0. /\ Typed /\ CallsFit /\ EventsFit /\ ConnsFit /\ Typed'
        /\ state_ \in [Conns -> States] /\ state_' \in [Conns -> States]
    BY StepTyped DEF LifeInv, Typed
  <1>. SUFFICES ASSUME NEW m \in Loops, NEW e \in active'[m]
                PROVE  EventFits(m, e)'
    BY DEF EventsFit
  <1>1. e.conn \in Conns
    <2>1. e \in EventType
      BY <1>0 DEF Typed
    <2>. QED  BY <2>1 DEF EventType
  <1>2. CASE e \in active[m] /\ e.conn \in Created
    <2>1. ~New(e.conn) /\ m = loopOf[e.conn]
      BY <1>0, <1>2 DEF EventsFit, EventFits
    <2>2. ~New(e.conn)' /\ m = loopOf'[e.conn]
      BY <1>0, <1>1, <2>1, KnownStays
    <2>. QED  BY <1>1, <2>2 DEF EventFits, Created, New
  <1>3. CASE /\ e \in active[m] /\ e.conn \notin Created
             /\ NewConnection(e.conn) => m # Base \/ e # Acceptable(e.conn)
    <2>1. m = Base /\ e = Acceptable(e.conn)
      BY <1>0, <1>3 DEF EventsFit, EventFits
    <2>2. ~NewConnection(e.conn) /\ state_[e.conn] = "none"
      BY <1>1, <1>3, <2>1 DEF Created
    <2>3. Ages(e.conn)
      BY <1>0, <1>1, <2>2, Ageing
    <2>4. state_'[e.conn] = "none"
      BY <2>2, <2>3 DEF Ages, New, Open
    <2>. QED  BY <2>1, <2>4 DEF EventFits, Created
  <1>4. CASE Poll(m) /\ e \in Ready(m)
    <2>1. /\ e.conn \in Created /\ registered[e.conn] /\ loopOf[e.conn] = m
          /\ UNCHANGED <<state_, loopOf>>
      BY <1>4 DEF Ready, Poll, Reported, poolVars
    <2>2. ~New(e.conn)
      BY <1>0, <1>1, <2>1 DEF ConnsFit, ConnFits
    <2>. QED  BY <2>1, <2>2 DEF EventFits, Created, New
  <1>5. CASE Poll(m) /\ m = Base /\ e.conn \in Conns \ Created
                     /\ e = Acceptable(e.conn)
    <2>1. UNCHANGED state_
      BY <1>5 DEF Poll
    <2>. QED  BY <1>5, <2>1 DEF EventFits, Created
  <1>. QED  BY <1>0, <1>2, <1>3, <1>4, <1>5, EventsAfter

\* The steps that change what epoll knows of a connection's channel.
ChannelStep(c) ==
    \/ /\ interest'[c] = interest[c] /\ registered'[c] = registered[c]
       /\ reading_'[c] = reading_[c]
    \/ \E l \in Loops :
        \/ ConnectionEstablished(l, c) /\ state_[c] = "kConnecting"
        \/ HandleClose(l, c) /\ Open(c) /\ frames[l] # <<>>
        \/ ConnectionDestroyed(l, c) /\ state_[c] = "kDisconnected"
        \/ StartReadInLoop(l, c) \/ StopReadInLoop(l, c)

LEMMA ChannelSteps ==
    ASSUME Typed, [Next]_vars, NEW c \in Conns
    PROVE  ChannelStep(c)
  <1>. USE DEF channelVars
  <1>1. CASE UNCHANGED channelVars
    BY <1>1 DEF ChannelStep
  <1>2. ASSUME NEW check, NEW d, Abort(check, d)
        PROVE  ChannelStep(c)
    BY <1>1, <1>2 DEF Abort
  <1>3. ASSUME NEW l \in Loops, NEW d \in Conns, frames[l] # <<>>,
               HandleClose(l, d)
        PROVE  ChannelStep(c)
    <2>1. CASE ~Open(d)
      BY <1>2, <1>3, <2>1 DEF HandleClose, Open
    <2>2. CASE Open(d) /\ d # c
      BY <1>3, <2>2 DEF HandleClose, Open, DisableAll, ChannelStep, Typed
    <2>. QED  BY <1>3, <2>1, <2>2 DEF ChannelStep
  <1>4. ASSUME NEW l \in Loops, NEW d \in Conns,
               \/ ConnectionEstablished(l, d) \/ ConnectionDestroyed(l, d)
               \/ StartReadInLoop(l, d) \/ StopReadInLoop(l, d)
        PROVE  ChannelStep(c)
    <2>1. CASE d = c
      BY <1>2, <1>4, <2>1 DEF ChannelStep, ConnectionEstablished,
         ConnectionDestroyed
    <2>2. CASE d # c
      BY <1>2, <1>4, <2>2 DEF ChannelStep, ConnectionEstablished,
         ConnectionDestroyed, StartReadInLoop, StopReadInLoop, EnableReading,
         DisableAll, RemoveFromPoller, Typed
    <2>. QED  BY <2>1, <2>2
  <1>5. ASSUME NEW l \in Loops, NEW d \in Conns,
               \/ HandleRead(l, d) \/ HandleHangUp(l, d)
               \/ HandleEventReturns(l, d) \/ ForceCloseInLoop(l, d)
        PROVE  ChannelStep(c)
    BY <1>1, <1>2, <1>3, <1>5 DEF HandleRead, HandleHangUp,
       HandleEventReturns, ForceCloseInLoop, Runs
  <1>6. ASSUME NEW l \in Loops, LoopStep(l)
        PROVE  ChannelStep(c)
    <2>1. CASE \/ Poll(l) \/ TakeFunctors(l) \/ EndIteration(l)
               \/ \E e \in active[l] : HandleEvent(l, e)
               \/ \E d \in Conns :
                   \/ RemoveConnectionInLoop(l, d) \/ ShutdownInLoop(l, d)
                   \/ CallbackReturns(l, d) \/ NewConnection(d)
      BY <1>1, <1>2, <2>1 DEF Poll, TakeFunctors, EndIteration, HandleEvent,
         RemoveConnectionInLoop, ShutdownInLoop, CallbackReturns,
         NewConnection
    <2>. QED  BY <1>4, <1>5, <1>6, <2>1 DEF LoopStep
  <1>7. CASE UserStep \/ PeerStep
    <2>1. CASE PeerStep
      BY <1>1, <2>1 DEF PeerStep, PeerSends, PeerCloses, PeerResets
    <2>2. ASSUME NEW l \in Loops, NEW b \in Conns, NEW d \in Conns,
                 \/ CallbackKeeps(l, b) \/ CallbackShutdown(l, b, d)
                 \/ CallbackForceClose(l, b, d) \/ CallbackReads(l, b, d)
          PROVE  ChannelStep(c)
      BY <1>1, <2>2 DEF CallbackKeeps, CallbackShutdown, CallbackForceClose,
         CallbackReads
    <2>3. ASSUME NEW d \in Conns,
                 \/ UserShutdownChecks(d) \/ UserShutdownStores(d)
                 \/ UserForceCloses(d) \/ UserReads(d) \/ UserDrops(d)
          PROVE  ChannelStep(c)
      BY <1>1, <2>3 DEF UserShutdownChecks, UserShutdownStores,
         UserForceCloses, UserReads, UserDrops
    <2>. QED  BY <1>7, <2>1, <2>2, <2>3 DEF UserStep
  <1>8. CASE UNCHANGED vars
    BY <1>1, <1>8 DEF vars
  <1>. QED  BY <1>6, <1>7, <1>8 DEF Next

\* The user comes to know a connection in a callback of it.
LEMMA HoldsStep ==
    ASSUME Typed, [Next]_vars, NEW c \in userHolds' \union checked'
    PROVE  \/ c \in userHolds \union checked
           \/ \E l \in Loops : CallbackKeeps(l, c)
  <1>. USE DEF userVars
  <1>1. ASSUME NEW check, NEW d, Abort(check, d)
        PROVE  UNCHANGED <<userHolds, checked>>
    BY <1>1 DEF Abort
  <1>2. ASSUME NEW l \in Loops, NEW d \in Conns, HandleClose(l, d)
        PROVE  UNCHANGED <<userHolds, checked>>
    BY <1>1, <1>2 DEF HandleClose
  <1>3. ASSUME NEW l \in Loops, LoopStep(l)
        PROVE  UNCHANGED <<userHolds, checked>>
    BY <1>1, <1>2, <1>3 DEF LoopStep, Poll, TakeFunctors, EndIteration,
       HandleEvent, HandleRead, HandleHangUp, HandleEventReturns,
       ConnectionEstablished, ConnectionDestroyed, RemoveConnectionInLoop,
       ShutdownInLoop, ForceCloseInLoop, StartReadInLoop, StopReadInLoop,
       CallbackReturns, NewConnection
  <1>4. CASE UserStep
    <2>1. ASSUME NEW l \in Loops, NEW d \in Conns, CallbackKeeps(l, d)
          PROVE  c \in userHolds \union checked \/ d = c
      BY <2>1 DEF CallbackKeeps
    <2>2. ASSUME NEW l \in Loops, NEW b \in Conns, NEW d \in Conns,
                 \/ CallbackShutdown(l, b, d) \/ CallbackForceClose(l, b, d)
                 \/ CallbackReads(l, b, d)
          PROVE  c \in userHolds \union checked
      BY <2>2 DEF CallbackShutdown, CallbackForceClose, CallbackReads
    <2>3. ASSUME NEW d \in Conns,
                 \/ UserShutdownChecks(d) \/ UserShutdownStores(d)
                 \/ UserForceCloses(d) \/ UserReads(d) \/ UserDrops(d)
          PROVE  c \in userHolds \union checked
      BY <2>3 DEF UserShutdownChecks, UserShutdownStores, UserForceCloses,
         UserReads, UserDrops
    <2>. QED  BY <1>4, <2>1, <2>2, <2>3 DEF UserStep
  <1>5. CASE PeerStep
    BY <1>5 DEF PeerStep, PeerSends, PeerCloses, PeerResets
  <1>6. CASE UNCHANGED vars
    BY <1>6 DEF vars
  <1>. QED  BY <1>3, <1>4, <1>5, <1>6 DEF Next

\* A call that is made, other than its establishment, is of a connection that
\* the user may know.
LEMMA RunsKnown ==
    ASSUME Typed, CallsFit, NEW l \in Loops, NEW op \in FrameOps,
           NEW c \in Conns, Runs(l, Call(op, c))
    PROVE  /\ CallFits(l, Call(op, c))
           /\ op # "ConnectionEstablished" => ~New(c)
           /\ op # "RemoveConnectionInLoop" => l = loopOf[c]
           /\ op \in Closing => state_[c] = "kDisconnected" \/ Overwritten(c)
  <1>1. Call(op, c) \in Pending(l)
    BY RunsPending
  <1>2. CallFits(l, Call(op, c))
    BY <1>1 DEF CallsFit
  <1>3. Call(op, c).op = op /\ Call(op, c).conn = c
    BY DEF Call
  <1>. QED  BY <1>2, <1>3 DEF CallFits

\* ConnsFit is kept by every step.
LEMMA ConnsFitStep ==
    ASSUME LifeInv, [Next]_vars
    PROVE  ConnsFit'
  <1>0. /\ Typed /\ CallsFit /\ EventsFit /\ ConnsFit
        /\ state_ \in [Conns -> States]
    BY DEF LifeInv, Typed
  <1>. SUFFICES ASSUME NEW c \in Conns, New(c)'
                PROVE  ConnFits(c)'
    BY DEF ConnsFit, ConnFits
  <1>1. New(c) /\ ~\E l \in Loops : ConnectionEstablished(l, c) /\ state_[c] = "kConnecting"
    <2>1. ASSUME NEW l \in Loops, ConnectionEstablished(l, c),
                 state_[c] = "kConnecting"
          PROVE  FALSE
      BY <1>0, <2>1 DEF ConnectionEstablished, New
    <2>. QED  BY <1>0, <2>1, KnownStays
  <1>2. /\ c \notin userHolds \union checked /\ ~Overwritten(c)
        /\ ~interest[c] /\ ~registered[c] /\ ~reading_[c]
    BY <1>0, <1>1 DEF ConnsFit, ConnFits
  <1>3. "overwritten" \notin blame'[c]
    BY <1>0, <1>1, <1>2, Ageing
  <1>4. c \notin userHolds' \union checked'
    <2>1. ASSUME NEW l \in Loops, CallbackKeeps(l, c)
          PROVE  ~New(c)
      BY <1>0, <2>1, RunsKnown DEF CallbackKeeps, InCallback, FrameOps
    <2>. QED  BY <1>0, <1>1, <1>2, <2>1, HoldsStep
  <1>5. ~interest'[c] /\ ~registered'[c] /\ ~reading_'[c]
    <2>1. ASSUME NEW l \in Loops,
                 \/ ConnectionDestroyed(l, c)
                 \/ StartReadInLoop(l, c) \/ StopReadInLoop(l, c)
          PROVE  ~New(c)
      <3>1. PICK op \in {"ConnectionDestroyed", "StartReadInLoop",
                         "StopReadInLoop"} : Runs(l, Call(op, c))
        BY <2>1 DEF ConnectionDestroyed, StartReadInLoop, StopReadInLoop
      <3>2. op \in FrameOps /\ op # "ConnectionEstablished"
        BY DEF FrameOps, FunctorOps
      <3>. QED  BY <1>0, <3>1, <3>2, RunsKnown
    <2>2. ~Open(c)
      BY <1>1 DEF New, Open
    <2>. QED  BY <1>0, <1>1, <1>2, <2>1, <2>2, ChannelSteps DEF ChannelStep
  <1>. QED  BY <1>3, <1>4, <1>5 DEF ConnFits, Overwritten

\* LifeInv is inductive.
LEMMA InitLifeInv == Init => LifeInv
  <1>. SUFFICES ASSUME Init
                PROVE  LifeInv
    OBVIOUS
  <1>1. Typed
    BY InitTyped
  <1>2. /\ \A l \in Loops : frames[l] = <<>> /\ queue[l] = <<>> /\ active[l] = {}
        /\ \A c \in Conns : state_[c] = "none" /\ downs[c] = 0 /\ blame[c] = {}
                            /\ ~interest[c] /\ ~registered[c] /\ ~reading_[c]
        /\ userHolds = {} /\ checked = {}
    BY DEF Init
  <1>3. MovesOnce
    BY <1>2, FreeEmpty DEF MovesOnce, MovedOnce, OneMover, Idle
  <1>4. CallsFit /\ EventsFit /\ ConnsFit
    BY <1>2, RangeEmpty DEF CallsFit, Pending, EventsFit, ConnsFit, ConnFits,
       Overwritten
  <1>. QED  BY <1>1, <1>3, <1>4 DEF LifeInv

LEMMA StepLifeInv == LifeInv /\ [Next]_vars => LifeInv'
  BY StepTyped, MovesOnceStep, CallsFitStep, EventsFitStep, ConnsFitStep
  DEF LifeInv

\* OneDownCallback: whoever closes a connection first, and however the calls
\* of the loops follow each other, the user hears of its end once.
THEOREM OneEnd == Spec => []OneDownCallback
  <1>1. LifeInv => OneDownCallback
    BY DEF LifeInv, MovesOnce, MovedOnce, OneDownCallback
  <1>. QED  BY <1>1, InitLifeInv, StepLifeInv, PTL DEF Spec

-----------------------------------------------------------------------------
(* Open connections are served *)

\* The user has the closed connection read again.  What epoll reports of a
\* connection can close it while it is open, or if it was reset; the server
\* has threads of its own for the connections, if it has threads at all.
Served(c) ==
    /\ reading_[c] => ReadAgain(c)
    /\ interest[c] => Open(c) \/ ReadAgain(c)
    /\ ~writeShut[c]
    /\ peer[c] \in {"reset", "gone"} => "reset" \in blame[c]
    /\ NumThreads > 0 /\ c \in Created => loopOf[c] # Base

ServedInv == LifeInv /\ OpenConnectionsServed /\ \A c \in Conns : Served(c)

\* What changes connections_, writeShut and peer.
LEMMA RestSteps ==
    ASSUME Typed, [Next]_vars, NEW c \in Conns
    PROVE  /\ c \in connections_ =>
                  \/ c \in connections_'
                  \/ \E l \in Loops : RemoveConnectionInLoop(l, c)
           /\ writeShut'[c] = writeShut[c]
                  \/ \E l \in Loops : ShutdownInLoop(l, c)
           /\ peer'[c] = peer[c] \/ PeerResets(c) \/ PeerCloses(c)
                  \/ (peer[c] = "reset" /\ peer'[c] = "gone")
  <1>. USE DEF poolVars, peerVars
  <1>. DEFINE Same == UNCHANGED <<connections_, writeShut, peer>>
              Rest == /\ c \in connections_ =>
                             \/ c \in connections_'
                             \/ \E l \in Loops : RemoveConnectionInLoop(l, c)
                      /\ writeShut'[c] = writeShut[c]
                             \/ \E l \in Loops : ShutdownInLoop(l, c)
                      /\ peer'[c] = peer[c] \/ PeerResets(c) \/ PeerCloses(c)
                             \/ (peer[c] = "reset" /\ peer'[c] = "gone")
  <1>1. CASE Same
    BY <1>1
  <1>2. ASSUME NEW check, NEW d, Abort(check, d)
        PROVE  Same
    BY <1>2 DEF Abort
  <1>3. ASSUME NEW l \in Loops, NEW d \in Conns, HandleClose(l, d)
        PROVE  Same
    BY <1>2, <1>3 DEF HandleClose
  <1>4. ASSUME NEW l \in Loops, NEW d \in Conns, HandleRead(l, d)
        PROVE  Rest
    <2>1. CASE Same
      BY <2>1
    <2>2. CASE ~Same
      <3>1. /\ UNCHANGED <<connections_, writeShut>>
            /\ peer' = [peer EXCEPT ![d] =
                            IF ~data[d] /\ @ = "reset" THEN "gone" ELSE @]
        BY <1>3, <1>4, <2>2 DEF HandleRead
      <3>2. peer \in [Conns -> {"open", "fin", "reset", "gone"}]
        BY DEF Typed
      <3>. QED  BY <3>1, <3>2
    <2>. QED  BY <2>1, <2>2
  <1>5. ASSUME NEW l \in Loops, NEW d \in Conns,
               RemoveConnectionInLoop(l, d) \/ ShutdownInLoop(l, d)
        PROVE  Rest
    BY <1>5 DEF RemoveConnectionInLoop, ShutdownInLoop, Typed
  <1>6. ASSUME NEW d \in Conns, NewConnection(d)
        PROVE  Rest
    BY <1>6 DEF NewConnection
  <1>7. ASSUME NEW d \in Conns, PeerSends(d) \/ PeerCloses(d) \/ PeerResets(d)
        PROVE  Rest
    BY <1>7 DEF PeerSends, PeerCloses, PeerResets, Typed
  <1>8. ASSUME NEW l \in Loops, LoopStep(l)
        PROVE  Rest
    <2>1. CASE \/ Poll(l) \/ TakeFunctors(l) \/ EndIteration(l)
               \/ \E e \in active[l] : HandleEvent(l, e)
               \/ \E d \in Conns :
                   \/ HandleHangUp(l, d) \/ HandleEventReturns(l, d)
                   \/ ConnectionEstablished(l, d) \/ ConnectionDestroyed(l, d)
                   \/ ForceCloseInLoop(l, d) \/ StartReadInLoop(l, d)
                   \/ StopReadInLoop(l, d) \/ CallbackReturns(l, d)
      <3>1. Same
        BY <1>2, <1>3, <2>1 DEF Poll, TakeFunctors, EndIteration, HandleEvent,
           HandleHangUp, HandleEventReturns, ConnectionEstablished,
           ConnectionDestroyed, ForceCloseInLoop, StartReadInLoop,
           StopReadInLoop, CallbackReturns
      <3>. QED  BY <1>1, <3>1
    <2>. QED  BY <1>4, <1>5, <1>6, <1>8, <2>1 DEF LoopStep
  <1>9. ASSUME NEW l \in Loops, NEW b \in Conns, NEW d \in Conns,
               \/ CallbackKeeps(l, b) \/ CallbackShutdown(l, b, d)
               \/ CallbackForceClose(l, b, d) \/ CallbackReads(l, b, d)
        PROVE  Rest
    BY <1>1, <1>9 DEF CallbackKeeps, CallbackShutdown, CallbackForceClose,
       CallbackReads
  <1>10. ASSUME NEW d \in Conns,
                \/ UserShutdownChecks(d) \/ UserShutdownStores(d)
                \/ UserForceCloses(d) \/ UserReads(d) \/ UserDrops(d)
         PROVE  Rest
    BY <1>1, <1>10 DEF UserShutdownChecks, UserShutdownStores,
       UserForceCloses, UserReads, UserDrops
  <1>11. CASE PeerStep
    BY <1>7, <1>11 DEF PeerStep
  <1>12. CASE UNCHANGED vars
    BY <1>1, <1>12 DEF vars
  <1>. QED  BY <1>8, <1>9, <1>10, <1>11, <1>12 DEF Next, UserStep

\* How each step changes what epoll knows, in the terms of Served.
LEMMA ChannelOutcome ==
    ASSUME LifeInv, [Next]_vars, NEW c \in Conns
    PROVE  \/ /\ interest'[c] = interest[c] /\ registered'[c] = registered[c]
              /\ reading_'[c] = reading_[c]
           \/ /\ state_[c] = "kConnecting" /\ state_'[c] = "kConnected"
              /\ interest'[c] /\ registered'[c] /\ reading_'[c] = reading_[c]
           \/ /\ Open(c) /\ state_'[c] = "kDisconnected"
              /\ ~interest'[c] /\ registered'[c] /\ reading_'[c] = reading_[c]
              /\ \E l \in Loops : HandleClose(l, c) /\ frames[l] # <<>>
           \/ /\ state_[c] = "kDisconnected" /\ state_'[c] = state_[c]
              /\ ~interest'[c] /\ ~registered'[c] /\ reading_'[c] = reading_[c]
              /\ \E l \in Loops : ConnectionDestroyed(l, c)
           \/ /\ "read again" \in blame'[c] /\ ~reading_[c] /\ ~interest[c]
              /\ state_'[c] = state_[c]
           \/ /\ reading_[c] /\ interest[c] /\ state_'[c] = state_[c]
              /\ ~reading_'[c] /\ ~interest'[c]
  <1>. USE DEF channelVars
  <1>0. /\ Typed /\ state_ \in [Conns -> States]
        /\ interest \in [Conns -> BOOLEAN] /\ registered \in [Conns -> BOOLEAN]
        /\ reading_ \in [Conns -> BOOLEAN]
        /\ blame \in [Conns -> SUBSET Reasons]
    BY DEF LifeInv, Typed
  <1>1. ASSUME NEW l \in Loops, ConnectionEstablished(l, c),
               state_[c] = "kConnecting"
        PROVE  /\ state_'[c] = "kConnected"
               /\ interest'[c] /\ registered'[c] /\ reading_'[c] = reading_[c]
    BY <1>0, <1>1 DEF ConnectionEstablished, EnableReading
  <1>2. ASSUME NEW l \in Loops, HandleClose(l, c), Open(c)
        PROVE  /\ state_'[c] = "kDisconnected"
               /\ ~interest'[c] /\ registered'[c] /\ reading_'[c] = reading_[c]
    BY <1>0, <1>2 DEF HandleClose, Open, DisableAll
  <1>3. ASSUME NEW l \in Loops, ConnectionDestroyed(l, c),
               state_[c] = "kDisconnected"
        PROVE  /\ state_'[c] = state_[c]
               /\ ~interest'[c] /\ ~registered'[c] /\ reading_'[c] = reading_[c]
    BY <1>0, <1>3 DEF ConnectionDestroyed, RemoveFromPoller
  <1>4. ASSUME NEW l \in Loops, StartReadInLoop(l, c)
        PROVE  \/ /\ interest'[c] = interest[c]
                  /\ registered'[c] = registered[c]
                  /\ reading_'[c] = reading_[c]
               \/ /\ "read again" \in blame'[c] /\ ~reading_[c] /\ ~interest[c]
                  /\ state_'[c] = state_[c]
    <2>1. CASE ~reading_[c] /\ ~interest[c]
      <3>1. /\ blame' = [blame EXCEPT ![c] = @ \union {"read again"}]
            /\ UNCHANGED state_
        BY <1>4, <2>1 DEF StartReadInLoop
      <3>. QED  BY <1>0, <2>1, <3>1
    <2>2. CASE ~(~reading_[c] /\ ~interest[c])
      BY <1>4, <2>2 DEF StartReadInLoop
    <2>. QED  BY <2>1, <2>2
  <1>5. ASSUME NEW l \in Loops, StopReadInLoop(l, c)
        PROVE  \/ /\ interest'[c] = interest[c]
                  /\ registered'[c] = registered[c]
                  /\ reading_'[c] = reading_[c]
               \/ /\ reading_[c] /\ interest[c] /\ state_'[c] = state_[c]
                  /\ ~reading_'[c] /\ ~interest'[c]
    BY <1>0, <1>5 DEF StopReadInLoop, DisableAll
  <1>6. ChannelStep(c)
    BY <1>0, ChannelSteps
  <1>. QED  BY <1>1, <1>2, <1>3, <1>4, <1>5, <1>6 DEF ChannelStep

\* Served is kept by every step.
LEMMA ServedStep ==
    ASSUME ServedInv, [Next]_vars, NEW c \in Conns
    PROVE  Served(c)'
  <1>0. /\ LifeInv /\ Typed /\ CallsFit /\ ConnsFit /\ Served(c)
        /\ state_ \in [Conns -> States] /\ loopOf \in [Conns -> Loops]
        /\ writeShut \in [Conns -> BOOLEAN]
        /\ reading_ \in [Conns -> BOOLEAN]
        /\ interest \in [Conns -> BOOLEAN]
    BY DEF ServedInv, LifeInv, Typed
  <1>00. reading_' \in [Conns -> BOOLEAN] /\ interest' \in [Conns -> BOOLEAN]
    BY <1>0, StepTyped DEF Typed
  <1>1. blame[c] \subseteq blame'[c]
    BY <1>0, Ageing
  <1>2. reading_'[c] => ReadAgain(c)'
    BY <1>0, <1>1, ChannelOutcome DEF Served, ReadAgain
  <1>3. interest'[c] => Open(c)' \/ ReadAgain(c)'
    <2>. SUFFICES ASSUME interest'[c], ~ReadAgain(c)'
                  PROVE  Open(c)'
      OBVIOUS
    <2>1. CASE state_[c] = "kConnecting" /\ state_'[c] = "kConnected"
      BY <2>1 DEF Open
    <2>2. CASE interest[c] /\ ~(state_[c] = "kConnecting" /\ state_'[c] = "kConnected")
      <3>1. Open(c)
        BY <1>0, <1>1, <2>2 DEF Served, ReadAgain
      <3>2. Ages(c)
        BY <1>0, <3>1, KnownStays DEF Open, New
      <3>3. ASSUME NEW l \in Loops, HandleClose(l, c)
            PROVE  ~interest'[c]
        BY <1>0, <3>1, <3>3 DEF HandleClose, Open, DisableAll
      <3>. QED  BY <3>1, <3>2, <3>3 DEF Ages, Open
    <2>. QED  BY <1>0, <2>1, <2>2, ChannelOutcome DEF ReadAgain
  <1>4. ~writeShut'[c]
    <2>1. ASSUME NEW l \in Loops, ShutdownInLoop(l, c)
          PROVE  ~writeShut'[c]
      <3>1. CallFits(l, Call("ShutdownInLoop", c))
        BY <1>0, <2>1, RunsKnown DEF ShutdownInLoop, FrameOps, FunctorOps
      <3>2. state_[c] # "kConnected"
        BY <3>1 DEF CallFits, Call
      <3>. QED  BY <1>0, <2>1, <3>2 DEF ShutdownInLoop, Served
    <2>. QED  BY <1>0, <2>1, RestSteps DEF Served
  <1>5. peer'[c] \in {"reset", "gone"} => "reset" \in blame'[c]
    <2>1. ASSUME PeerResets(c)
          PROVE  "reset" \in blame'[c]
      BY <1>0, <2>1 DEF PeerResets, Blame, Typed
    <2>2. ASSUME PeerCloses(c)
          PROVE  peer'[c] = "fin"
      BY <1>0, <2>2 DEF PeerCloses, Typed
    <2>. QED  BY <1>0, <1>1, <2>1, <2>2, RestSteps DEF Served
  <1>6. NumThreads > 0 /\ state_'[c] # "none" => loopOf'[c] # Base
    <2>. SUFFICES ASSUME NumThreads > 0, state_'[c] # "none"
                  PROVE  loopOf'[c] # Base
      OBVIOUS
    <2>1. CASE NewConnection(c)
      <3>1. loopOf'[c] = NextLoop
        BY <1>0, <2>1 DEF NewConnection
      <3>2. NextLoop # Base
        <4>1. next_ \in Nat
          BY <1>0 DEF Typed, Loops
        <4>. QED  BY <4>1 DEF NextLoop, Base
      <3>. QED  BY <3>1, <3>2
    <2>2. CASE Ages(c)
      <3>1. state_[c] # "none"
        BY <2>2 DEF Ages, New, Open
      <3>. QED  BY <1>0, <2>2, <3>1 DEF Ages, Served, Created
    <2>3. ASSUME NEW l \in Loops, ConnectionEstablished(l, c),
                 state_[c] = "kConnecting"
          PROVE  loopOf'[c] # Base
      BY <1>0, <2>3 DEF ConnectionEstablished, poolVars, Served, Created
    <2>. QED  BY <1>0, <2>1, <2>2, <2>3, Ageing
  <1>. QED
    <2>1. NumThreads > 0 /\ c \in Created' => loopOf'[c] # Base
      BY <1>6 DEF Created
    <2>. QED  BY <1>2, <1>3, <1>4, <1>5, <2>1 DEF Served

\* OpenConnectionsServed is kept by every step.
LEMMA OpenServedStep ==
    ASSUME ServedInv, [Next]_vars
    PROVE  OpenConnectionsServed'
  <1>. SUFFICES ASSUME NEW c \in Conns
                PROVE  /\ state_'[c] \in {"kConnecting", "kConnected",
                                          "kDisconnecting"} =>
                              c \in connections_' \/ "overwritten" \in blame'[c]
                       /\ state_'[c] \in {"kConnected", "kDisconnecting"} =>
                              \/ interest'[c] /\ registered'[c] /\ ~reading_'[c]
                              \/ "overwritten" \in blame'[c]
    BY DEF OpenConnectionsServed, Overwritten
  <1>0. /\ LifeInv /\ Typed /\ CallsFit /\ ConnsFit
        /\ state_ \in [Conns -> States]
        /\ interest \in [Conns -> BOOLEAN] /\ registered \in [Conns -> BOOLEAN]
        /\ reading_ \in [Conns -> BOOLEAN]
    BY DEF ServedInv, LifeInv, Typed
  <1>1. blame[c] \subseteq blame'[c]
    BY <1>0, Ageing
  <1>2. /\ state_[c] \in {"kConnecting", "kConnected", "kDisconnecting"} =>
               c \in connections_ \/ "overwritten" \in blame'[c]
        /\ state_[c] \in {"kConnected", "kDisconnecting"} =>
               \/ interest[c] /\ registered[c] /\ ~reading_[c]
               \/ "overwritten" \in blame'[c]
    BY <1>1 DEF ServedInv, OpenConnectionsServed, Overwritten
  <1>4. ASSUME NEW l \in Loops, ConnectionEstablished(l, c),
               state_[c] = "kConnecting"
        PROVE  /\ c \in connections_' \/ "overwritten" \in blame'[c]
               /\ interest'[c] /\ registered'[c] /\ ~reading_'[c]
    <2>1. /\ connections_' = connections_ /\ reading_' = reading_
          /\ interest'[c] /\ registered'[c]
      BY <1>0, <1>4 DEF ConnectionEstablished, EnableReading, poolVars
    <2>2. ~reading_[c]
      BY <1>0, <1>4 DEF ConnsFit, ConnFits, New
    <2>. QED  BY <1>2, <1>4, <2>1, <2>2
  <1>5. CASE Ages(c)
    <2>1. state_'[c] \in {"kConnecting", "kConnected", "kDisconnecting"} =>
              \/ "overwritten" \in blame'[c]
              \/ /\ state_[c] \in {"kConnecting", "kConnected",
                                   "kDisconnecting"}
                 /\ Open(c)' => Open(c)
      BY <1>0, <1>5 DEF Ages, New, Open, States
    <2>2. ASSUME state_[c] \in {"kConnecting", "kConnected", "kDisconnecting"},
                 "overwritten" \notin blame'[c]
          PROVE  c \in connections_'
      <3>1. ASSUME NEW l \in Loops, RemoveConnectionInLoop(l, c)
            PROVE  FALSE
        <4>1. "RemoveConnectionInLoop" \in FrameOps \intersect Closing
          BY DEF FrameOps, FunctorOps, Closing
        <4>2. state_[c] = "kDisconnected" \/ Overwritten(c)
          BY <1>0, <3>1, <4>1, RunsKnown DEF RemoveConnectionInLoop
        <4>. QED  BY <1>1, <2>2, <4>2 DEF Overwritten
      <3>. QED  BY <1>0, <1>2, <2>2, <3>1, RestSteps
    <2>3. ASSUME Open(c), Open(c)', "overwritten" \notin blame'[c]
          PROVE  interest'[c] /\ registered'[c] /\ ~reading_'[c]
      <3>1. interest[c] /\ registered[c] /\ ~reading_[c]
        BY <1>2, <2>3 DEF Open
      <3>. QED  BY <1>0, <2>3, <3>1, ChannelOutcome DEF Open
    <2>4. state_'[c] \in {"kConnected", "kDisconnecting"} => Open(c)'
      BY DEF Open
    <2>. QED  BY <2>1, <2>2, <2>3, <2>4
  <1>7. CASE NewConnection(c) /\ state_'[c] = "kConnecting"
    BY <1>7 DEF NewConnection
  <1>. QED
    <2>1. NewConnection(c) => state_'[c] = "kConnecting"
      BY <1>0 DEF NewConnection
    <2>. QED  BY <1>0, <1>4, <1>5, <1>7, <2>1, Ageing

LEMMA InitServedInv == Init => ServedInv
  <1>. SUFFICES ASSUME Init
                PROVE  ServedInv
    OBVIOUS
  <1>1. \A c \in Conns :
            /\ state_[c] = "none" /\ peer[c] = "open"
            /\ ~interest[c] /\ ~reading_[c] /\ ~writeShut[c]
    BY DEF Init
  <1>2. OpenConnectionsServed /\ \A c \in Conns : Served(c)
    BY <1>1 DEF OpenConnectionsServed, Served, Created
  <1>. QED  BY <1>2, InitLifeInv DEF ServedInv

LEMMA StepServedInv == ServedInv /\ [Next]_vars => ServedInv'
  <1>. SUFFICES ASSUME ServedInv, [Next]_vars
                PROVE  ServedInv'
    OBVIOUS
  <1>1. LifeInv'
    BY StepLifeInv DEF ServedInv
  <1>2. \A c \in Conns : Served(c)'
    BY ServedStep
  <1>. QED  BY <1>1, <1>2, OpenServedStep DEF ServedInv

-----------------------------------------------------------------------------
(* The stacks of the loops *)

\* A loop goes on to the next part of its iteration from Loop() only.
LEMMA PhaseStep ==
    ASSUME Typed, [Next]_vars, NEW m \in Loops
    PROVE  \/ phase'[m] = phase[m]
           \/ /\ frames[m] = <<>>
              /\ Poll(m) \/ TakeFunctors(m) \/ EndIteration(m)
  <1>. USE DEF loopVars
  <1>. DEFINE Goal == \/ phase'[m] = phase[m]
                      \/ /\ frames[m] = <<>>
                         /\ Poll(m) \/ TakeFunctors(m) \/ EndIteration(m)
  <1>1. ASSUME NEW check, NEW d, Abort(check, d)
        PROVE  phase' = phase
    BY <1>1 DEF Abort
  <1>2. ASSUME NEW l \in Loops, NEW d \in Conns, HandleClose(l, d)
        PROVE  phase' = phase
    BY <1>1, <1>2 DEF HandleClose
  <1>3. ASSUME NEW l \in Loops,
               Poll(l) \/ TakeFunctors(l) \/ EndIteration(l)
        PROVE  Goal
    <2>1. frames[l] = <<>>
      BY <1>3 DEF Poll, TakeFunctors, EndIteration, InLoop
    <2>2. l # m => phase'[m] = phase[m]
      BY <1>3 DEF Poll, TakeFunctors, EndIteration, Typed
    <2>. QED  BY <1>3, <2>1, <2>2
  <1>4. ASSUME NEW l \in Loops, LoopStep(l)
        PROVE  Goal
    <2>1. CASE \/ \E e \in active[l] : HandleEvent(l, e)
               \/ \E d \in Conns :
                   \/ HandleRead(l, d) \/ HandleHangUp(l, d)
                   \/ HandleEventReturns(l, d)
                   \/ ConnectionEstablished(l, d) \/ ConnectionDestroyed(l, d)
                   \/ RemoveConnectionInLoop(l, d)
                   \/ ShutdownInLoop(l, d) \/ ForceCloseInLoop(l, d)
                   \/ StartReadInLoop(l, d) \/ StopReadInLoop(l, d)
                   \/ CallbackReturns(l, d) \/ NewConnection(d)
      <3>1. phase' = phase
        BY <1>1, <1>2, <2>1 DEF HandleEvent, HandleRead, HandleHangUp,
           HandleEventReturns, ConnectionEstablished, ConnectionDestroyed,
           RemoveConnectionInLoop, ShutdownInLoop, ForceCloseInLoop,
           StartReadInLoop, StopReadInLoop, CallbackReturns, NewConnection
      <3>. QED  BY <3>1
    <2>. QED  BY <1>3, <1>4, <2>1 DEF LoopStep
  <1>5. ASSUME NEW l \in Loops, NEW b \in Conns, NEW d \in Conns,
               \/ CallbackKeeps(l, b) \/ CallbackShutdown(l, b, d)
               \/ CallbackForceClose(l, b, d) \/ CallbackReads(l, b, d)
        PROVE  phase' = phase
    BY <1>5 DEF CallbackKeeps, CallbackShutdown, CallbackForceClose,
       CallbackReads
  <1>6. ASSUME NEW d \in Conns,
               \/ UserShutdownChecks(d) \/ UserShutdownStores(d)
               \/ UserForceCloses(d) \/ UserReads(d) \/ UserDrops(d)
               \/ PeerSends(d) \/ PeerCloses(d) \/ PeerResets(d)
        PROVE  phase' = phase
    BY <1>6 DEF UserShutdownChecks, UserShutdownStores, UserForceCloses,
       UserReads, UserDrops, PeerSends, PeerCloses, PeerResets
  <1>7. CASE UNCHANGED vars
    BY <1>7 DEF vars
  <1>. QED  BY <1>4, <1>5, <1>6, <1>7 DEF Next, UserStep, PeerStep

\* One of three calls closes a connection.
LEMMA WhoCloses ==
    ASSUME Typed, [Next]_vars, NEW c \in Conns,
           Open(c), state_'[c] = "kDisconnected"
    PROVE  \E l \in Loops :
               /\ HandleClose(l, c)
               /\ \/ Runs(l, Call("HandleRead", c))
                  \/ Runs(l, Call("closeCallback_", c))
                  \/ Runs(l, Call("ForceCloseInLoop", c))
  <1>. DEFINE Closed == \E l \in Loops :
                  /\ HandleClose(l, c)
                  /\ \/ Runs(l, Call("HandleRead", c))
                     \/ Runs(l, Call("closeCallback_", c))
                     \/ Runs(l, Call("ForceCloseInLoop", c))
  <1>0. state_ \in [Conns -> States]
    BY DEF Typed
  <1>1. state_' # state_
    BY DEF Open
  <1>2. ASSUME NEW check, NEW d, Abort(check, d)
        PROVE  FALSE
    BY <1>1, <1>2 DEF Abort
  <1>3. ASSUME NEW l \in Loops, NEW d \in Conns, HandleClose(l, d)
        PROVE  d = c
    BY <1>0, <1>2, <1>3 DEF HandleClose, Open
  <1>4. ASSUME NEW l \in Loops, NEW d \in Conns,
               HandleRead(l, d) \/ HandleHangUp(l, d) \/ ForceCloseInLoop(l, d)
        PROVE  Closed
    <2>1. /\ HandleClose(l, d)
          /\ \/ Runs(l, Call("HandleRead", d))
             \/ Runs(l, Call("closeCallback_", d))
             \/ Runs(l, Call("ForceCloseInLoop", d))
      BY <1>1, <1>2, <1>4 DEF HandleRead, HandleHangUp, ForceCloseInLoop
    <2>. QED  BY <1>3, <2>1
  <1>5. ASSUME NEW l \in Loops, NEW d \in Conns,
               ConnectionEstablished(l, d) \/ NewConnection(d)
        PROVE  FALSE
    BY <1>0, <1>2, <1>5 DEF ConnectionEstablished, NewConnection, Open
  <1>6. ASSUME NEW l \in Loops, LoopStep(l)
        PROVE  Closed
    <2>1. CASE \/ Poll(l) \/ TakeFunctors(l) \/ EndIteration(l)
               \/ \E e \in active[l] : HandleEvent(l, e)
               \/ \E d \in Conns :
                   \/ HandleEventReturns(l, d)
                   \/ ConnectionDestroyed(l, d)
                   \/ RemoveConnectionInLoop(l, d)
                   \/ ShutdownInLoop(l, d)
                   \/ StartReadInLoop(l, d) \/ StopReadInLoop(l, d)
                   \/ CallbackReturns(l, d)
      BY <1>1, <1>2, <2>1 DEF Poll, TakeFunctors, EndIteration, HandleEvent,
         HandleEventReturns, ConnectionDestroyed, RemoveConnectionInLoop,
         ShutdownInLoop, StartReadInLoop, StopReadInLoop, CallbackReturns
    <2>. QED  BY <1>4, <1>5, <1>6, <2>1 DEF LoopStep
  <1>7. ASSUME NEW d, StoreDisconnecting(d)
        PROVE  FALSE
    BY <1>0, <1>7 DEF StoreDisconnecting, Open
  <1>8. ASSUME NEW l \in Loops, NEW b \in Conns, NEW d \in Conns,
               \/ CallbackKeeps(l, b) \/ CallbackShutdown(l, b, d)
               \/ CallbackForceClose(l, b, d) \/ CallbackReads(l, b, d)
        PROVE  FALSE
    BY <1>1, <1>7, <1>8 DEF CallbackKeeps, CallbackShutdown,
       CallbackForceClose, CallbackReads
  <1>9. ASSUME NEW d \in Conns,
               \/ UserShutdownChecks(d) \/ UserShutdownStores(d)
               \/ UserForceCloses(d) \/ UserReads(d) \/ UserDrops(d)
               \/ PeerSends(d) \/ PeerCloses(d) \/ PeerResets(d)
        PROVE  FALSE
    BY <1>1, <1>7, <1>9 DEF UserShutdownChecks, UserShutdownStores,
       UserForceCloses, UserReads, UserDrops, PeerSends, PeerCloses, PeerResets
  <1>10. CASE UNCHANGED vars
    BY <1>1, <1>10 DEF vars
  <1>. QED  BY <1>6, <1>8, <1>9, <1>10 DEF Next, UserStep, PeerStep

\* Nothing in s is a read callback; at most what is called next is one.
NoReads(s) == \A f \in Range(s) : f.op # "HandleRead"
ReadFirst(s) == s # <<>> => NoReads(Tail(s))

LEMMA NoReadsFirst ==
    ASSUME NEW s \in Seq(FrameType), NoReads(s)
    PROVE  ReadFirst(s)
  <1>1. ASSUME s # <<>>
        PROVE  Range(Tail(s)) \subseteq Range(s)
    BY <1>1, RangeHeadTail
  <1>. QED  BY <1>1 DEF ReadFirst, NoReads

\* The steps in which the call on top of the stack goes on.
Returns(l, c) ==
    \/ HandleRead(l, c) \/ HandleHangUp(l, c) \/ HandleEventReturns(l, c)
    \/ ConnectionEstablished(l, c) \/ ConnectionDestroyed(l, c)
    \/ RemoveConnectionInLoop(l, c)
    \/ ShutdownInLoop(l, c) \/ ForceCloseInLoop(l, c)
    \/ StartReadInLoop(l, c) \/ StopReadInLoop(l, c)
    \/ CallbackReturns(l, c)

\* It returns, with one more call at most.
LEMMA Returning ==
    ASSUME NEW l \in Loops, NEW c \in Conns, Returns(l, c)
    PROVE  /\ frames[l] # <<>>
           /\ \/ frames' = frames
              \/ ReturnAnd(l, <<>>)
              \/ \E op \in FrameOps \ {"HandleRead"} :
                     ReturnAnd(l, <<Call(op, c)>>)
  <1>. DEFINE Goes == \/ frames' = frames
                      \/ ReturnAnd(l, <<>>)
                      \/ \E op \in FrameOps \ {"HandleRead"} :
                             ReturnAnd(l, <<Call(op, c)>>)
  <1>0. {"callback", "RemoveConnectionInLoop", "ConnectionDestroyed"}
            \subseteq FrameOps \ {"HandleRead"}
    BY DEF FrameOps, FunctorOps
  <1>1. ASSUME NEW check, Abort(check, c)
        PROVE  Goes
    BY <1>1 DEF Abort
  <1>2. ASSUME HandleClose(l, c)
        PROVE  Goes
    BY <1>0, <1>1, <1>2 DEF HandleClose, ReturnAndRunInLoop
  <1>3. ASSUME RemoveConnectionInLoop(l, c)
        PROVE  Goes
    BY <1>0, <1>3 DEF RemoveConnectionInLoop, ReturnAndRunInLoop
  <1>4. ASSUME HandleRead(l, c)
        PROVE  Goes
    <2>1. CASE HandleClose(l, c)
      BY <1>2, <2>1
    <2>2. CASE ReturnAnd(l, IF data[c] THEN <<Call("callback", c)>> ELSE <<>>)
      BY <1>0, <2>2
    <2>. QED  BY <1>4, <2>1, <2>2 DEF HandleRead
  <1>5. ASSUME ConnectionEstablished(l, c)
        PROVE  Goes
    BY <1>0, <1>1, <1>5 DEF ConnectionEstablished
  <1>6. ASSUME HandleHangUp(l, c) \/ ForceCloseInLoop(l, c)
        PROVE  Goes
    BY <1>1, <1>2, <1>6 DEF HandleHangUp, ForceCloseInLoop
  <1>7. ASSUME \/ HandleEventReturns(l, c) \/ ConnectionDestroyed(l, c)
               \/ ShutdownInLoop(l, c)
               \/ StartReadInLoop(l, c) \/ StopReadInLoop(l, c)
               \/ CallbackReturns(l, c)
        PROVE  Goes
    BY <1>1, <1>7 DEF HandleEventReturns, ConnectionDestroyed,
       ShutdownInLoop, StartReadInLoop, StopReadInLoop, CallbackReturns
  <1>8. frames[l] # <<>>
    BY DEF Returns, HandleRead, HandleHangUp, HandleEventReturns,
       ConnectionEstablished, ConnectionDestroyed, RemoveConnectionInLoop,
       ShutdownInLoop, ForceCloseInLoop, StartReadInLoop, StopReadInLoop,
       CallbackReturns, InCallback, Runs
  <1>. QED  BY <1>2, <1>3, <1>4, <1>5, <1>6, <1>7, <1>8 DEF Returns

\* A return leaves no read callback on the stack.
LEMMA ReadPopped ==
    ASSUME Typed, NEW l \in Loops, frames[l] # <<>>, ReadFirst(frames[l]),
           NEW calls \in Seq(FrameType), ReturnAnd(l, calls), NoReads(calls)
    PROVE  /\ NoReads(frames'[l])
           /\ \A m \in Loops : m # l => frames'[m] = frames[m]
  <1>1. /\ frames'[l] = calls \o Tail(frames[l])
        /\ \A m \in Loops : m # l => frames'[m] = frames[m]
    BY ReturnType
  <1>2. NoReads(Tail(frames[l])) /\ Tail(frames[l]) \in Seq(FrameType)
    BY DEF ReadFirst, Typed
  <1>3. Range(calls \o Tail(frames[l])) = Range(calls) \union Range(Tail(frames[l]))
    BY ZenonT(60), <1>2, RangeConcat
  <1>. QED  BY <1>1, <1>2, <1>3 DEF NoReads

\* After it, no call on the stack is a read callback.
LEMMA ReadReturned ==
    ASSUME Typed, NEW l \in Loops, NEW c \in Conns, Returns(l, c),
           frames' # frames, ReadFirst(frames[l])
    PROVE  /\ NoReads(frames'[l])
           /\ \A m \in Loops : m # l => frames'[m] = frames[m]
  <1>1. PICK calls \in Seq(FrameType) :
            /\ ReturnAnd(l, calls) /\ NoReads(calls)
    <2>1. CASE ReturnAnd(l, <<>>)
      <3>1. <<>> \in Seq(FrameType) /\ NoReads(<<>>)
        BY RangeEmpty DEF NoReads
      <3>. QED  BY <2>1, <3>1
    <2>2. ASSUME NEW op \in FrameOps \ {"HandleRead"},
                 ReturnAnd(l, <<Call(op, c)>>)
          PROVE  \E calls \in Seq(FrameType) :
                     ReturnAnd(l, calls) /\ NoReads(calls)
      <3>1. <<Call(op, c)>> \in Seq(FrameType) /\ Call(op, c).op = op
        BY CallType
      <3>2. NoReads(<<Call(op, c)>>)
        BY <3>1, RangeOne DEF NoReads
      <3>. QED  BY <2>2, <3>1, <3>2
    <2>. QED  BY <2>1, <2>2, Returning
  <1>. QED  BY <1>1, Returning, ReadPopped

\* A read callback is called first in every step.
LEMMA ReadFirstStep ==
    ASSUME Typed, [Next]_vars, NEW m \in Loops,
           \A l \in Loops : ReadFirst(frames[l])
    PROVE  ReadFirst(frames'[m])
  <1>0. /\ frames \in [Loops -> Seq(FrameType)]
        /\ frames' \in [Loops -> Seq(FrameType)] /\ queue[m] \in Seq(FrameType)
    BY StepTyped, FunctorsAreFrames DEF Typed
  <1>1. CASE frames' = frames
    BY <1>1
  <1>2. ASSUME NEW l \in Loops, NEW c \in Conns, Returns(l, c)
        PROVE  ReadFirst(frames'[m])
    BY <1>0, <1>1, <1>2, ReadReturned, NoReadsFirst
  <1>3. ASSUME NEW l \in Loops, NEW e \in active[l], HandleEvent(l, e)
        PROVE  ReadFirst(frames'[m])
    <2>1. CASE Alive(e.conn) /\ m = l
      <3>. DEFINE read == Call("HandleRead", e.conn)
                  last == Call(IF e.hup THEN "closeCallback_" ELSE "return",
                               e.conn)
      <3>1. frames'[l] = (IF e.in THEN <<read>> ELSE <<>>) \o <<last>>
        BY <1>0, <1>3, <2>1 DEF HandleEvent
      <3>2. last.op # "HandleRead"
        BY DEF Call
      <3>3. e.conn \in Conns
        BY DEF Typed, EventType
      <3>4. read \in FrameType /\ last \in FrameType
        BY <3>3, CallType DEF FrameOps, ChannelOps
      <3>. HIDE DEF read, last
      <3>5. NoReads(<<last>>)
        BY <3>2, RangeOne DEF NoReads
      <3>6. CASE e.in
        <4>1. Tail(<<read>> \o <<last>>) = <<last>>
          <5>1. <<last>> \in Seq(FrameType)
            BY <3>4
          <5>. QED  BY <3>4, <5>1, TailPush
        <4>2. frames'[l] = <<read>> \o <<last>>
          BY <3>1, <3>6
        <4>. QED  BY <2>1, <3>5, <4>1, <4>2 DEF ReadFirst
      <3>7. CASE ~e.in
        <4>1. frames'[l] = <<last>>
          BY <3>1, <3>7, <3>4
        <4>. QED  BY <1>0, <2>1, <3>5, <4>1, NoReadsFirst
      <3>. QED  BY <3>6, <3>7
    <2>2. CASE Alive(e.conn) /\ m # l
      <3>1. frames'[m] = frames[m]
        BY <1>0, <1>3, <2>2 DEF HandleEvent
      <3>. QED  BY <3>1
    <2>3. CASE ~Alive(e.conn)
      BY <1>1, <1>3, <2>3 DEF HandleEvent, Abort
    <2>. QED  BY <2>1, <2>2, <2>3
  <1>4. ASSUME NEW l \in Loops, TakeFunctors(l)
        PROVE  ReadFirst(frames'[m])
    <2>1. CASE m = l
      <3>1. frames'[m] = queue[m]
        BY <1>0, <1>4, <2>1 DEF TakeFunctors
      <3>2. NoReads(queue[m])
        BY PendingType DEF NoReads, FunctorType, FunctorOps
      <3>. QED  BY <1>0, <3>1, <3>2, NoReadsFirst
    <2>2. CASE m # l
      <3>1. frames'[m] = frames[m]
        BY <1>0, <1>4, <2>2 DEF TakeFunctors
      <3>. QED  BY <3>1
    <2>. QED  BY <2>1, <2>2
  <1>5. ASSUME NEW c \in Conns, NewConnection(c)
        PROVE  ReadFirst(frames'[m])
    <2>. DEFINE f == Call("ConnectionEstablished", c)
    <2>1. frames' = frames \/ frames' = [frames EXCEPT ![Base] = <<f>>]
      BY <1>5 DEF NewConnection, ReturnAndRunInLoopOf
    <2>2. f.op # "HandleRead" /\ f \in FrameType
      BY CallType DEF FrameOps, FunctorOps
    <2>. HIDE DEF f
    <2>3. NoReads(<<f>>) /\ <<f>> \in Seq(FrameType)
      BY <2>2, RangeOne DEF NoReads
    <2>4. CASE frames' = [frames EXCEPT ![Base] = <<f>>]
      BY <1>0, <2>3, <2>4, NoReadsFirst
    <2>. QED  BY <1>1, <2>1, <2>4
  <1>6. ASSUME NEW l \in Loops, NEW c \in Conns, NEW d \in Conns,
               \/ CallbackShutdown(l, c, d) \/ CallbackForceClose(l, c, d)
               \/ CallbackReads(l, c, d)
        PROVE  ReadFirst(frames'[m])
    <2>1. PICK op \in FunctorOps :
              frames' = [frames EXCEPT ![l] = <<Call(op, d)>> \o @]
      <3>1. CASE CallbackShutdown(l, c, d)
        BY <3>1 DEF CallbackShutdown, FunctorOps
      <3>2. CASE CallbackForceClose(l, c, d)
        BY <3>2 DEF CallbackForceClose, FunctorOps
      <3>3. CASE CallbackReads(l, c, d)
        BY <3>3 DEF CallbackReads, ReadOps, FunctorOps
      <3>. QED  BY <1>6, <3>1, <3>2, <3>3
    <2>. DEFINE f == Call(op, d)
    <2>2. f \in FrameType /\ f.op # "HandleRead"
      BY CallType DEF FrameOps, FunctorOps
    <2>3. /\ frames[l] # <<>> /\ Head(frames[l]) = Call("callback", c)
          /\ frames[l] \in Seq(FrameType)
      BY <1>0, <1>6 DEF CallbackShutdown, CallbackForceClose, CallbackReads,
         InCallback, Runs
    <2>. HIDE DEF f
    <2>4. NoReads(frames[l])
      <3>1. /\ Range(frames[l]) =
                   {Head(frames[l])} \union Range(Tail(frames[l]))
            /\ NoReads(Tail(frames[l]))
        BY <2>3, RangeHeadTail DEF ReadFirst
      <3>2. Head(frames[l]).op # "HandleRead"
        BY <2>3 DEF Call
      <3>. QED  BY <3>1, <3>2 DEF NoReads
    <2>5. <<f>> \in Seq(FrameType) /\ NoReads(<<f>>)
      BY <2>2, RangeOne DEF NoReads
    <2>6. Range(<<f>> \o frames[l]) = Range(<<f>>) \union Range(frames[l])
      BY ZenonT(60), <2>3, <2>5, RangeConcat
    <2>7. NoReads(<<f>> \o frames[l]) /\ <<f>> \o frames[l] \in Seq(FrameType)
      BY <2>3, <2>4, <2>5, <2>6 DEF NoReads
    <2>8. m = l => frames'[m] = <<f>> \o frames[l]
      BY <1>0, <2>1 DEF f
    <2>9. m # l => frames'[m] = frames[m]
      BY <1>0, <2>1
    <2>. QED  BY <2>7, <2>8, <2>9, NoReadsFirst
  <1>7. ASSUME NEW l \in Loops, LoopStep(l)
        PROVE  ReadFirst(frames'[m])
    <2>1. CASE Poll(l) \/ EndIteration(l)
      BY <1>1, <2>1 DEF Poll, EndIteration
    <2>. QED  BY <1>2, <1>3, <1>4, <1>5, <1>7, <2>1 DEF LoopStep, Returns
  <1>8. ASSUME NEW l \in Loops, NEW c \in Conns,
               \/ CallbackKeeps(l, c)
               \/ UserShutdownChecks(c) \/ UserShutdownStores(c)
               \/ UserForceCloses(c) \/ UserReads(c) \/ UserDrops(c)
               \/ PeerSends(c) \/ PeerCloses(c) \/ PeerResets(c)
        PROVE  frames' = frames
    BY <1>8 DEF CallbackKeeps, UserShutdownChecks, UserShutdownStores,
       UserForceCloses, UserReads, UserDrops, PeerSends, PeerCloses, PeerResets
  <1>9. Base \in Loops
    BY DEF Base, Loops
  <1>10. CASE UNCHANGED vars
    BY <1>1, <1>10 DEF vars
  <1>. QED  BY <1>1, <1>6, <1>7, <1>8, <1>9, <1>10 DEF Next, UserStep, PeerStep

-----------------------------------------------------------------------------
(* The events and the calls of a loop *)

\* The user or the peer has done what may have the connection closed twice.
Excused(c) ==
    blame[c] \intersect {"reset", "closed by another", "read again"} # {}

\* While a loop handles its events, the channels of these events stay with
\* epoll if the server has threads; each connection has one event, which can
\* close it while it is open only.
EventServed(l, e) ==
    /\ phase[l] = "handle"
    /\ \A g \in active[l] : g.conn = e.conn => g = e
    /\ e.conn \in Created =>
           /\ NumThreads > 0 => registered[e.conn] \/ ReadAgain(e.conn)
           /\ e.in => Open(e.conn) \/ Excused(e.conn)
           /\ e.hup => "reset" \in blame[e.conn]

\* The same holds of the calls that come from these events.  What may close a
\* connection has no event of it behind it.
FrameServed(l, f) ==
    /\ f.op \in ChannelOps =>
           /\ phase[l] = "handle"
           /\ NumThreads > 0 => registered[f.conn] \/ ReadAgain(f.conn)
    /\ f.op = "HandleRead" => Open(f.conn) \/ Excused(f.conn)
    /\ f.op = "closeCallback_" => "reset" \in blame[f.conn]
    /\ f.op = "ConnectionDestroyed" /\ NumThreads > 0 => phase[l] = "run"
    /\ f.op \in {"HandleRead", "callback", "ForceCloseInLoop"} =>
           Excused(f.conn) \/ \A e \in active[l] : e.conn # f.conn

EventsServed == \A l \in Loops : \A e \in active[l] : EventServed(l, e)
FramesServed ==
    \A l \in Loops : /\ ReadFirst(frames[l])
                     /\ \A f \in Range(frames[l]) : FrameServed(l, f)

WorkInv == ServedInv /\ EventsServed /\ FramesServed

\* What is known of the call that a loop makes.
LEMMA RunsServed ==
    ASSUME WorkInv, NEW l \in Loops, NEW op \in FrameOps, NEW c \in Conns,
           Runs(l, Call(op, c))
    PROVE  /\ FrameServed(l, Call(op, c)) /\ CallFits(l, Call(op, c))
           /\ op # "ConnectionEstablished" => ~New(c)
           /\ op # "RemoveConnectionInLoop" => l = loopOf[c]
           /\ op = "ConnectionDestroyed" /\ NumThreads > 0 => phase[l] = "run"
           /\ op = "closeCallback_" => Excused(c)
           /\ op \in {"HandleRead", "callback", "ForceCloseInLoop"} =>
                  Excused(c) \/ \A e \in active[l] : e.conn # c
           /\ op = "HandleRead" => Open(c) \/ Excused(c)
           /\ op \in ChannelOps /\ NumThreads > 0 =>
                  registered[c] \/ ReadAgain(c)
           /\ frames[l] # <<>> /\ Call(op, c) = Head(frames[l])
  <1>1. Typed /\ CallsFit
    BY DEF WorkInv, ServedInv, LifeInv
  <1>2. /\ Call(op, c) \in Range(frames[l])
        /\ frames[l] # <<>> /\ Call(op, c) = Head(frames[l])
    BY <1>1, RunsPending
  <1>3. FrameServed(l, Call(op, c))
    BY <1>2 DEF WorkInv, FramesServed
  <1>4. Call(op, c).op = op /\ Call(op, c).conn = c
    BY DEF Call
  <1>5. "reset" \in blame[c] => Excused(c)
    BY DEF Excused
  <1>. QED  BY <1>1, <1>2, <1>3, <1>4, <1>5, RunsKnown DEF FrameServed

\* A loop that handles events, or makes calls, does not poll.
LEMMA NotPolling ==
    ASSUME WorkInv, [Next]_vars, NEW m \in Loops,
           active[m] # {} \/ frames[m] # <<>>
    PROVE  /\ phase'[m] = phase[m] /\ ~Poll(m)
           /\ \A e \in active'[m] : e \in active[m]
  <1>1. Typed /\ \A e \in active[m] : phase[m] = "handle"
    BY DEF WorkInv, ServedInv, LifeInv, EventsServed, EventServed
  <1>2. ~Poll(m)
    BY <1>1 DEF Poll, InLoop
  <1>3. phase'[m] = phase[m]
    BY <1>1, <1>2, PhaseStep DEF TakeFunctors, EndIteration, InLoop
  <1>4. \A e \in active'[m] : e \in active[m]
    BY <1>1, <1>2, EventsAfter
  <1>. QED  BY <1>2, <1>3, <1>4

\* A channel is unregistered behind the events of its loop, not among them.
LEMMA RegisteredStays ==
    ASSUME WorkInv, [Next]_vars, NEW c \in Conns, NumThreads > 0,
           phase[loopOf[c]] = "handle", registered[c] \/ ReadAgain(c)
    PROVE  registered'[c] \/ ReadAgain(c)'
  <1>0. LifeInv /\ Typed /\ CallsFit /\ ConnsFit /\ Served(c)
    BY DEF WorkInv, ServedInv, LifeInv
  <1>1. blame[c] \subseteq blame'[c]
    BY <1>0, Ageing
  <1>2. ASSUME NEW l \in Loops, ConnectionDestroyed(l, c)
        PROVE  FALSE
    <2>1. Runs(l, Call("ConnectionDestroyed", c))
          /\ "ConnectionDestroyed" \in FrameOps
      BY <1>2 DEF ConnectionDestroyed, FrameOps, FunctorOps
    <2>. QED  BY <2>1, RunsServed
  <1>3. reading_[c] => ReadAgain(c)
    BY <1>0 DEF Served
  <1>. QED  BY <1>0, <1>1, <1>2, <1>3, ChannelOutcome DEF ReadAgain

\* Who closes a connection finds none of its events, or has an excuse.
LEMMA ClosedBehindEvents ==
    ASSUME WorkInv, [Next]_vars, NEW c \in Conns, ~New(c),
           Open(c) \/ Excused(c)
    PROVE  \/ Open(c)' \/ Excused(c)'
           \/ /\ HandleClose(loopOf[c], c)
              /\ \A e \in active[loopOf[c]] : e.conn # c
              /\ \/ Runs(loopOf[c], Call("HandleRead", c))
                 \/ Runs(loopOf[c], Call("ForceCloseInLoop", c))
  <1>0. LifeInv /\ Typed /\ CallsFit /\ ConnsFit
    BY DEF WorkInv, ServedInv, LifeInv
  <1>1. Ages(c) /\ blame[c] \subseteq blame'[c]
    BY <1>0, KnownStays
  <1>2. CASE Excused(c)
    BY <1>1, <1>2 DEF Excused
  <1>3. CASE Open(c) /\ state_'[c] # "kDisconnected"
    BY <1>1, <1>3 DEF Ages, Open
  <1>4. CASE Open(c) /\ state_'[c] = "kDisconnected" /\ ~Excused(c)
    <2>1. PICK l \in Loops :
              /\ HandleClose(l, c)
              /\ \/ Runs(l, Call("HandleRead", c))
                 \/ Runs(l, Call("closeCallback_", c))
                 \/ Runs(l, Call("ForceCloseInLoop", c))
      BY <1>0, <1>4, WhoCloses
    <2>2. {"HandleRead", "closeCallback_", "ForceCloseInLoop"} \subseteq FrameOps
      BY DEF FrameOps, FunctorOps, ChannelOps
    <2>3. ~Runs(l, Call("closeCallback_", c))
      BY <1>4, <2>2, RunsServed
    <2>4. l = loopOf[c] /\ \A e \in active[l] : e.conn # c
      BY <1>4, <2>1, <2>2, <2>3, RunsServed
    <2>. QED  BY <2>1, <2>3, <2>4
  <1>. QED  BY <1>2, <1>3, <1>4

\* EventsServed is kept by every step.
LEMMA EventsServedStep ==
    ASSUME WorkInv, [Next]_vars
    PROVE  EventsServed'
  <1>0. /\ LifeInv /\ Typed /\ CallsFit /\ ConnsFit /\ EventsFit
        /\ EventsServed /\ \A c \in Conns : Served(c)
        /\ interest \in [Conns -> BOOLEAN] /\ data \in [Conns -> BOOLEAN]
        /\ registered \in [Conns -> BOOLEAN]
    BY DEF WorkInv, ServedInv, LifeInv, Typed
  <1>00. Typed' /\ phase' \in [Loops -> {"poll", "handle", "run"}]
    BY <1>0, StepTyped DEF Typed
  <1>. SUFFICES ASSUME NEW m \in Loops, NEW e \in active'[m]
                PROVE  EventServed(m, e)'
    BY DEF EventsServed
  <1>1. e.conn \in Conns
    <2>1. e \in EventType
      BY <1>00 DEF Typed
    <2>. QED  BY <2>1 DEF EventType
  <1>. DEFINE c == e.conn
  <1>2. CASE /\ e \in active[m]
             /\ NewConnection(c) => m # Base \/ e # Acceptable(c)
    <2>1. /\ phase[m] = "handle" /\ phase'[m] = "handle"
          /\ \A g \in active'[m] : g \in active[m]
      <3>1. phase[m] = "handle"
        BY <1>0, <1>2 DEF EventsServed, EventServed
      <3>. QED  BY <1>2, <3>1, NotPolling
    <2>2. \A g \in active'[m] : g.conn = e.conn => g = e
      BY <1>0, <1>2, <2>1 DEF EventsServed, EventServed
    <2>3. CASE c \in Created
      <3>1. /\ ~New(c) /\ m = loopOf[c]
            /\ NumThreads > 0 => registered[c] \/ ReadAgain(c)
            /\ e.in => Open(c) \/ Excused(c)
            /\ e.hup => "reset" \in blame[c]
        BY <1>0, <1>2, <2>3 DEF EventsFit, EventFits, EventsServed, EventServed
      <3>2. NumThreads > 0 => registered'[c] \/ ReadAgain(c)'
        BY <1>1, <2>1, <3>1, RegisteredStays
      <3>3. e.in => Open(c)' \/ Excused(c)'
        BY <1>1, <1>2, <3>1, ClosedBehindEvents
      <3>4. e.hup => "reset" \in blame'[c]
        BY <1>0, <1>1, <3>1, Ageing
      <3>. QED  BY <2>1, <2>2, <3>2, <3>3, <3>4 DEF EventServed
    <2>4. CASE c \notin Created
      <3>1. m = Base /\ e = Acceptable(c)
        BY <1>0, <1>2, <2>4 DEF EventsFit, EventFits
      <3>2. ~NewConnection(c)
        BY <1>2, <3>1
      <3>3. Ages(c)
        <4>1. state_[c] = "none"
          BY <1>1, <2>4 DEF Created
        <4>. QED  BY <1>0, <1>1, <3>2, <4>1, Ageing
      <3>4. c \notin Created'
        BY <1>1, <2>4, <3>3 DEF Ages, Created, New, Open
      <3>. QED  BY <2>1, <2>2, <3>4 DEF EventServed
    <2>. QED  BY <2>3, <2>4
  <1>3. CASE Poll(m)
    <2>1. /\ active[m] = {} /\ phase'[m] = "handle"
          /\ UNCHANGED <<state_, registered, blame>>
      <3>1. active[m] = {}
        BY <1>0, <1>3 DEF Poll, InLoop, EventsServed, EventServed
      <3>. QED  BY <1>0, <1>3, <3>1 DEF Poll, channelVars, Typed
    <2>2. \A g \in active'[m] :
              \/ g \in Ready(m)
              \/ g.conn \in Conns \ Created /\ g = Acceptable(g.conn)
      BY <1>0, <2>1, EventsAfter
    <2>3. \A g \in Ready(m) :
              g.conn \in Created /\ registered[g.conn] /\ g = Reported(g.conn)
      BY DEF Ready, Reported
    <2>4. \A g \in active'[m] : g.conn = e.conn => g = e
      BY <2>2, <2>3
    <2>5. ASSUME e \in Ready(m)
          PROVE  /\ registered'[c]
                 /\ e.in => Open(c)' \/ Excused(c)'
                 /\ e.hup => "reset" \in blame'[c]
      <3>1. /\ registered[c] /\ e.in = Reported(c).in /\ e.hup = Reported(c).hup
        BY <2>3, <2>5
      <3>2. /\ e.in => interest[c]
            /\ e.hup => HangsUp(c)
        BY <3>1 DEF Reported
      <3>3. e.in => Open(c) \/ Excused(c)
        BY <1>0, <1>1, <3>2 DEF Served, ReadAgain, Excused
      <3>4. e.hup => "reset" \in blame[c]
        BY <1>0, <1>1, <3>2 DEF Served, HangsUp
      <3>. QED  BY <2>1, <3>1, <3>3, <3>4 DEF Open, Excused
    <2>6. c \in Created' => e \in Ready(m)
      BY <2>1, <2>2 DEF Created
    <2>. QED  BY <2>1, <2>4, <2>5, <2>6 DEF EventServed
  <1>. QED  BY <1>0, <1>2, <1>3, EventsAfter

\* A call that is new on a stack.
LEMMA FreshServed ==
    ASSUME WorkInv, [Next]_vars, NEW m \in Loops, NEW f \in FrameType,
           FreshFrame(m, f)
    PROVE  FrameServed(m, f)'
  <1>0. /\ LifeInv /\ Typed /\ CallsFit /\ ConnsFit /\ EventsFit
        /\ EventsServed /\ \A c \in Conns : Served(c)
        /\ f.conn \in Conns
    BY DEF WorkInv, ServedInv, LifeInv, FrameType
  <1>1. ASSUME f.op \in {"ConnectionEstablished", "RemoveConnectionInLoop",
                         "ShutdownInLoop", "StartReadInLoop", "StopReadInLoop"}
        PROVE  FrameServed(m, f)'
    BY <1>1 DEF FrameServed, ChannelOps
  <1>2. ASSUME NEW e \in active[m], HandleEvent(m, e), Alive(e.conn),
               f \in {Call("HandleRead", e.conn), Call("return", e.conn),
                      Call("closeCallback_", e.conn)},
               f.op = "HandleRead" => e.in,
               f.op = "closeCallback_" => e.hup
        PROVE  FrameServed(m, f)'
    <2>. DEFINE c == e.conn
    <2>1. /\ phase[m] = "handle" /\ c \in Created
          /\ active' = [active EXCEPT ![m] = @ \ {e}]
          /\ UNCHANGED <<phase, state_, registered, blame>>
      BY <1>2 DEF HandleEvent, InLoop, channelVars
    <2>2. f.conn = c /\ f.op \in ChannelOps
      BY <1>2 DEF Call, ChannelOps
    <2>3. /\ NumThreads > 0 => registered[c] \/ ReadAgain(c)
          /\ e.in => Open(c) \/ Excused(c)
          /\ e.hup => "reset" \in blame[c]
          /\ \A g \in active[m] : g.conn = c => g = e
      BY <1>0, <2>1 DEF EventsServed, EventServed
    <2>4. \A g \in active'[m] : g.conn # c
      BY <1>0, <2>1, <2>3 DEF Typed
    <2>5. f.op # "ConnectionDestroyed" /\ f.op # "callback"
              /\ f.op # "ForceCloseInLoop"
      BY <2>2 DEF ChannelOps
    <2>6. /\ phase'[m] = "handle"
          /\ NumThreads > 0 => registered'[c] \/ ReadAgain(c)'
          /\ f.op = "HandleRead" => Open(c)' \/ Excused(c)'
          /\ f.op = "closeCallback_" => "reset" \in blame'[c]
      BY <1>2, <2>1, <2>3 DEF ReadAgain, Open, Excused
    <2>. QED  BY <2>2, <2>4, <2>5, <2>6 DEF FrameServed
  <1>3. ASSUME NEW c \in Conns, f = Call("callback", c),
               \/ ConnectionEstablished(m, c) /\ state_[c] = "kConnecting"
               \/ HandleRead(m, c)
        PROVE  FrameServed(m, f)'
    <2>1. f.op = "callback" /\ f.conn = c
      BY <1>3 DEF Call
    <2>2. Excused(c) \/ \A e \in active[m] : e.conn # c
      <3>1. CASE ConnectionEstablished(m, c) /\ state_[c] = "kConnecting"
        BY <1>0, <3>1 DEF EventsFit, EventFits, Created, New
      <3>2. CASE HandleRead(m, c)
        BY <3>2, RunsServed DEF HandleRead, FrameOps, ChannelOps
      <3>. QED  BY <1>3, <3>1, <3>2
    <2>3. frames[m] # <<>>
      BY <1>3 DEF ConnectionEstablished, HandleRead, Runs
    <2>4. \A e \in active'[m] : e \in active[m]
      BY <2>3, NotPolling
    <2>5. Excused(c) => Excused(c)'
      BY <1>0, Ageing DEF Excused
    <2>. QED  BY <2>1, <2>2, <2>4, <2>5 DEF FrameServed, ChannelOps
  <1>4. ASSUME NEW c \in Conns, f = Call("ConnectionDestroyed", c),
               RemoveConnectionInLoop(m, c), m = loopOf[c]
        PROVE  FrameServed(m, f)'
    <2>1. f.op = "ConnectionDestroyed" /\ f.conn = c
      BY <1>4 DEF Call
    <2>2. m = Base /\ c \in Created
      <3>1. CallFits(m, Call("RemoveConnectionInLoop", c)) /\ ~New(c)
        <4>1. /\ Runs(m, Call("RemoveConnectionInLoop", c))
              /\ "RemoveConnectionInLoop" \in FrameOps
          BY <1>4 DEF RemoveConnectionInLoop, FrameOps, FunctorOps
        <4>. QED  BY <4>1, RunsServed
      <3>2. m = Base
        BY <3>1 DEF CallFits, Call
      <3>. QED  BY <3>1, <3>2 DEF Created, New
    <2>3. ~(NumThreads > 0)
      BY <1>0, <1>4, <2>2 DEF Served
    <2>. QED  BY <2>1, <2>3 DEF FrameServed, ChannelOps
  <1>5. ASSUME NEW c \in Conns, f = Call("ForceCloseInLoop", c),
               NEW b \in Conns, InCallback(m, b),
               c = b \/ "closed by another" \in blame'[c]
        PROVE  FrameServed(m, f)'
    <2>1. f.op = "ForceCloseInLoop" /\ f.conn = c
      BY <1>5 DEF Call
    <2>2. frames[m] # <<>> /\ (Excused(b) \/ \A e \in active[m] : e.conn # b)
      BY <1>5, RunsServed DEF InCallback, FrameOps
    <2>3. \A e \in active'[m] : e \in active[m]
      BY <2>2, NotPolling
    <2>4. Excused(b) => Excused(b)'
      BY <1>0, Ageing DEF Excused
    <2>5. "closed by another" \in blame'[c] => Excused(c)'
      BY DEF Excused
    <2>6. Excused(c)' \/ \A e \in active'[m] : e.conn # c
      BY <1>5, <2>2, <2>3, <2>4, <2>5
    <2>. QED  BY <2>1, <2>6 DEF FrameServed, ChannelOps
  <1>6. \A op, c : Call(op, c).op = op
    BY DEF Call
  <1>7. ASSUME NEW c \in Conns,
               \/ f = Call("ConnectionEstablished", c)
               \/ f = Call("RemoveConnectionInLoop", c)
               \/ f = Call("ShutdownInLoop", c)
               \/ \E op \in ReadOps : f = Call(op, c)
        PROVE  FrameServed(m, f)'
    BY <1>1, <1>6, <1>7 DEF ReadOps
  <1>. QED  BY <1>2, <1>3, <1>4, <1>5, <1>7 DEF FreshFrame

\* Who closes a connection has left no read callback on its stack.
LEMMA ClosedAfterRead ==
    ASSUME WorkInv, NEW l \in Loops, NEW c \in Conns,
           HandleClose(l, c), Open(c), frames[l] # <<>>
    PROVE  NoReads(frames'[l])
  <1>0. Typed /\ ReadFirst(frames[l])
    BY DEF WorkInv, ServedInv, LifeInv, FramesServed
  <1>1. ReturnAndRunInLoop(l, Base, Call("RemoveConnectionInLoop", c))
    BY DEF HandleClose, Open
  <1>2. \/ ReturnAnd(l, <<>>)
        \/ ReturnAnd(l, <<Call("RemoveConnectionInLoop", c)>>)
    BY <1>1 DEF ReturnAndRunInLoop
  <1>3. <<>> \in Seq(FrameType) /\ NoReads(<<>>)
    BY RangeEmpty DEF NoReads
  <1>4. /\ <<Call("RemoveConnectionInLoop", c)>> \in Seq(FrameType)
        /\ NoReads(<<Call("RemoveConnectionInLoop", c)>>)
    <2>. DEFINE f == Call("RemoveConnectionInLoop", c)
    <2>1. f \in FrameType /\ f.op # "HandleRead"
      BY CallType DEF FrameOps, FunctorOps
    <2>. HIDE DEF f
    <2>2. <<f>> \in Seq(FrameType)
      BY <2>1
    <2>3. NoReads(<<f>>)
      BY <2>1, RangeOne DEF NoReads
    <2>. QED  BY <2>2, <2>3 DEF f
  <1>. QED  BY <1>0, <1>2, <1>3, <1>4, ReadPopped

\* What was already on a stack.
LEMMA OldServed ==
    ASSUME WorkInv, [Next]_vars, NEW m \in Loops, NEW f \in Range(frames[m]),
           f \in Range(frames'[m])
    PROVE  FrameServed(m, f)'
  <1>0. /\ LifeInv /\ Typed /\ CallsFit /\ ConnsFit
        /\ FrameServed(m, f) /\ ReadFirst(frames[m])
        /\ frames[m] \in Seq(FrameType)
    BY DEF WorkInv, ServedInv, LifeInv, Typed, FramesServed
  <1>1. f \in Pending(m) /\ f.conn \in Conns /\ f.op \in FrameOps
    BY <1>0, PendingType DEF Pending
  <1>. DEFINE c == f.conn
  <1>2. CallFits(m, f)
    BY <1>0, <1>1 DEF CallsFit
  <1>3. frames[m] # <<>>
    BY RangeEmpty
  <1>4. /\ phase'[m] = phase[m]
        /\ \A e \in active'[m] : e \in active[m]
    BY <1>3, NotPolling
  <1>5. blame[c] \subseteq blame'[c] /\ (Excused(c) => Excused(c)')
    BY <1>0, <1>1, Ageing DEF Excused
  <1>6. ASSUME f.op \in ChannelOps
        PROVE  /\ phase'[m] = "handle"
               /\ NumThreads > 0 => registered'[c] \/ ReadAgain(c)'
    <2>1. m = loopOf[c] /\ phase[m] = "handle"
      BY <1>0, <1>2, <1>6 DEF CallFits, FrameServed, ChannelOps
    <2>2. NumThreads > 0 => registered[c] \/ ReadAgain(c)
      BY <1>0, <1>6 DEF FrameServed
    <2>. QED  BY <1>1, <1>4, <2>1, <2>2, RegisteredStays
  <1>7. ASSUME f.op = "HandleRead", ~Open(c)', ~Excused(c)'
        PROVE  FALSE
    <2>1. Open(c) \/ Excused(c)
      BY <1>0, <1>7 DEF FrameServed
    <2>2. ~New(c) /\ m = loopOf[c]
      BY <1>2, <1>7 DEF CallFits
    <2>3. HandleClose(m, c)
      BY <1>1, <1>7, <2>1, <2>2, ClosedBehindEvents
    <2>4. NoReads(frames'[m])
      BY <1>1, <1>3, <1>5, <1>7, <2>1, <2>3, ClosedAfterRead
    <2>. QED  BY <1>7, <2>4 DEF NoReads
  <1>8. f.op = "closeCallback_" => "reset" \in blame'[c]
    BY <1>0, <1>5 DEF FrameServed
  <1>9. f.op = "ConnectionDestroyed" /\ NumThreads > 0 => phase'[m] = "run"
    BY <1>0, <1>4 DEF FrameServed
  <1>10. f.op \in {"HandleRead", "callback", "ForceCloseInLoop"} =>
             Excused(c)' \/ \A e \in active'[m] : e.conn # c
    BY <1>0, <1>4, <1>5 DEF FrameServed
  <1>. QED  BY <1>6, <1>7, <1>8, <1>9, <1>10 DEF FrameServed

\* A functor that is taken.
LEMMA TakenServed ==
    ASSUME WorkInv, NEW m \in Loops, NEW f \in Range(queue[m]),
           TakeFunctors(m)
    PROVE  FrameServed(m, f)'
  <1>0. Typed
    BY DEF WorkInv, ServedInv, LifeInv
  <1>1. f.op \in FunctorOps
    BY <1>0, PendingType DEF FunctorType
  <1>2. phase'[m] = "run" /\ active'[m] = {}
    BY <1>0 DEF TakeFunctors, Typed
  <1>3. f.op \notin ChannelOps
    BY <1>1 DEF FunctorOps, ChannelOps
  <1>. QED  BY <1>2, <1>3 DEF FrameServed, ChannelOps

\* FramesServed is kept by every step.
LEMMA FramesServedStep ==
    ASSUME WorkInv, [Next]_vars
    PROVE  FramesServed'
  <1>0. Typed /\ Typed' /\ \A l \in Loops : ReadFirst(frames[l])
    BY StepTyped DEF WorkInv, ServedInv, LifeInv, FramesServed
  <1>1. \A m \in Loops : ReadFirst(frames'[m])
    BY <1>0, ReadFirstStep
  <1>2. ASSUME NEW m \in Loops, NEW f \in Range(frames'[m])
        PROVE  FrameServed(m, f)'
    <2>1. f \in FrameType
      <3>1. frames'[m] \in Seq(FrameType)
        BY <1>0 DEF Typed
      <3>. QED  BY <3>1 DEF Range
    <2>2. \/ f \in Range(frames[m])
          \/ TakeFunctors(m) /\ f \in Range(queue[m])
          \/ FreshFrame(m, f)
      BY <1>0, CallsAfter DEF CallsKnown
    <2>. QED  BY <1>2, <2>1, <2>2, OldServed, TakenServed, FreshServed
  <1>. QED  BY <1>1, <1>2 DEF FramesServed

LEMMA InitWorkInv == Init => WorkInv
  <1>. SUFFICES ASSUME Init
                PROVE  WorkInv
    OBVIOUS
  <1>1. ServedInv
    BY InitServedInv
  <1>2. \A l \in Loops : active[l] = {} /\ frames[l] = <<>>
    BY DEF Init
  <1>3. EventsServed
    BY <1>2 DEF EventsServed
  <1>4. FramesServed
    BY <1>2, RangeEmpty DEF FramesServed, ReadFirst
  <1>. QED  BY <1>1, <1>3, <1>4 DEF WorkInv

LEMMA StepWorkInv == WorkInv /\ [Next]_vars => WorkInv'
  <1>. SUFFICES ASSUME WorkInv, [Next]_vars
                PROVE  WorkInv'
    OBVIOUS
  <1>1. ServedInv'
    BY StepServedInv DEF WorkInv
  <1>. QED  BY <1>1, EventsServedStep, FramesServedStep DEF WorkInv

-----------------------------------------------------------------------------
(* Registered channels *)

\* As long as epoll knows the channel of a connection, the server lists the
\* connection, or a call on its way holds it that will take the channel from
\* epoll, unless StartRead() registered the channel again.
RegisteredListed(c) ==
    registered[c] =>
        \/ c \in connections_
        \/ ReadAgain(c)
        \/ \E l \in Loops : \E f \in Pending(l) :
               f.conn = c /\ f.op \in Closing

ServerInv == WorkInv /\ \A c \in Conns : RegisteredListed(c)

\* Queued functors stay queued until they are taken.
LEMMA QueuedStays ==
    ASSUME Typed, [Next]_vars, NEW m \in Loops, NEW f \in Range(queue[m])
    PROVE  f \in Range(queue'[m]) \/ TakeFunctors(m)
  <1>. DEFINE Goal == f \in Range(queue'[m]) \/ TakeFunctors(m)
  <1>1. CASE queue' = queue
    BY <1>1
  <1>2. ASSUME NEW l \in Loops, NEW g \in FunctorType,
               queue' = [queue EXCEPT ![l] = Append(@, g)]
        PROVE  Goal
    <2>1. /\ queue'[l] = Append(queue[l], g) /\ queue[l] \in Seq(FunctorType)
          /\ m # l => queue'[m] = queue[m]
      BY <1>2, QueueType DEF Typed
    <2>2. Range(Append(queue[l], g)) = Range(queue[l]) \union {g}
      BY <2>1, RangeAppend
    <2>. QED  BY <2>1, <2>2
  <1>3. ASSUME NEW check, NEW d, Abort(check, d)
        PROVE  Goal
    BY <1>1, <1>3 DEF Abort
  <1>4. ASSUME NEW l \in Loops, NEW t \in Loops, NEW op \in FunctorOps,
               NEW d \in Conns, ReturnAndRunInLoop(l, t, Call(op, d))
        PROVE  Goal
    BY <1>1, <1>2, <1>4, CallType DEF ReturnAndRunInLoop
  <1>5. Base \in Loops /\ \A d \in Conns : loopOf[d] \in Loops
    BY DEF Base, Loops, Typed
  <1>6. ASSUME NEW l \in Loops, NEW d \in Conns, HandleClose(l, d)
        PROVE  Goal
    BY <1>3, <1>4, <1>5, <1>6 DEF HandleClose, FunctorOps
  <1>7. ASSUME NEW l \in Loops, NEW d \in Conns, RemoveConnectionInLoop(l, d)
        PROVE  Goal
    BY <1>4, <1>5, <1>7 DEF RemoveConnectionInLoop, FunctorOps
  <1>8. ASSUME NEW d \in Conns, NewConnection(d)
        PROVE  Goal
    <2>1. Call("ConnectionEstablished", d) \in FunctorType
      BY CallType DEF FunctorOps
    <2>2. NextLoop \in Loops
      BY DEF NextLoop, Loops, Base, Typed
    <2>. QED
      BY <1>1, <1>2, <1>8, <2>1, <2>2 DEF NewConnection, ReturnAndRunInLoopOf
  <1>9. ASSUME NEW l \in Loops, TakeFunctors(l)
        PROVE  Goal
    BY <1>9 DEF TakeFunctors, Typed
  <1>10. ASSUME NEW l \in Loops, LoopStep(l)
         PROVE  Goal
    <2>1. CASE \/ Poll(l) \/ EndIteration(l)
               \/ \E e \in active[l] : HandleEvent(l, e)
               \/ \E d \in Conns :
                   \/ HandleRead(l, d) \/ HandleHangUp(l, d)
                   \/ HandleEventReturns(l, d)
                   \/ ConnectionEstablished(l, d) \/ ConnectionDestroyed(l, d)
                   \/ ShutdownInLoop(l, d) \/ ForceCloseInLoop(l, d)
                   \/ StartReadInLoop(l, d) \/ StopReadInLoop(l, d)
                   \/ CallbackReturns(l, d)
      BY <1>1, <1>3, <1>6, <2>1 DEF Poll, EndIteration, HandleEvent,
         HandleRead, HandleHangUp, HandleEventReturns, ConnectionEstablished,
         ConnectionDestroyed, ShutdownInLoop, ForceCloseInLoop,
         StartReadInLoop, StopReadInLoop, CallbackReturns
    <2>. QED  BY <1>7, <1>8, <1>9, <1>10, <2>1 DEF LoopStep
  <1>11. ASSUME NEW l \in Loops, NEW b \in Conns, NEW d \in Conns,
                \/ CallbackKeeps(l, b) \/ CallbackShutdown(l, b, d)
                \/ CallbackForceClose(l, b, d) \/ CallbackReads(l, b, d)
         PROVE  Goal
    BY <1>1, <1>11 DEF CallbackKeeps, CallbackShutdown, CallbackForceClose,
       CallbackReads
  <1>12. ASSUME NEW d \in Conns, NEW op \in FunctorOps,
                queue' = [queue EXCEPT ![loopOf[d]] = Append(@, Call(op, d))]
         PROVE  Goal
    BY <1>2, <1>5, <1>12, CallType
  <1>13. ASSUME NEW d \in Conns,
                \/ UserShutdownStores(d) \/ UserForceCloses(d) \/ UserReads(d)
         PROVE  Goal
    BY <1>12, <1>13 DEF UserShutdownStores, UserForceCloses, UserReads,
       ReadOps, FunctorOps
  <1>14. ASSUME NEW d \in Conns,
                \/ UserShutdownChecks(d) \/ UserDrops(d)
                \/ PeerSends(d) \/ PeerCloses(d) \/ PeerResets(d)
         PROVE  Goal
    BY <1>1, <1>14 DEF UserShutdownChecks, UserDrops, PeerSends, PeerCloses,
       PeerResets
  <1>15. CASE UNCHANGED vars
    BY <1>1, <1>15 DEF vars
  <1>. QED
    BY <1>10, <1>11, <1>13, <1>14, <1>15 DEF Next, UserStep, PeerStep

\* A call stays on its stack until it is on top and returns.
LEMMA StackedStays ==
    ASSUME Typed, [Next]_vars, NEW m \in Loops, NEW f \in Range(frames[m])
    PROVE  \/ f \in Range(frames'[m])
           \/ /\ Runs(m, f) /\ frames' # frames
              /\ \E c \in Conns : Returns(m, c)
  <1>. DEFINE Goal == \/ f \in Range(frames'[m])
                      \/ /\ Runs(m, f) /\ frames' # frames
                         /\ \E c \in Conns : Returns(m, c)
  <1>0. /\ frames \in [Loops -> Seq(FrameType)] /\ frames[m] # <<>>
        /\ f = Head(frames[m]) \/ f \in Range(Tail(frames[m]))
    BY RangeEmpty, RangeHeadTail DEF Typed
  <1>1. CASE frames' = frames
    BY <1>1
  <1>2. ASSUME NEW l \in Loops, NEW c \in Conns, Returns(l, c)
        PROVE  Goal
    <2>. SUFFICES ASSUME frames' # frames
                  PROVE  Goal
      BY <1>1
    <2>1. PICK calls \in Seq(FrameType) : ReturnAnd(l, calls)
      <3>1. <<>> \in Seq(FrameType)
        OBVIOUS
      <3>2. \A op \in FrameOps : <<Call(op, c)>> \in Seq(FrameType)
        BY CallType
      <3>. QED  BY <1>2, <3>1, <3>2, Returning
    <2>2. /\ frames[l] # <<>> /\ frames'[l] = calls \o Tail(frames[l])
          /\ m # l => frames'[m] = frames[m]
      BY <1>2, <2>1, Returning, ReturnType
    <2>3. Tail(frames[l]) \in Seq(FrameType)
      BY <1>0, <2>2
    <2>4. Range(calls \o Tail(frames[l])) =
              Range(calls) \union Range(Tail(frames[l]))
      BY ZenonT(60), <2>3, RangeConcat
    <2>5. aborted = {}
      BY <1>2 DEF Returns, HandleRead, HandleHangUp, HandleEventReturns,
         ConnectionEstablished, ConnectionDestroyed, RemoveConnectionInLoop,
         ShutdownInLoop, ForceCloseInLoop, StartReadInLoop, StopReadInLoop,
         CallbackReturns, InCallback, Runs
    <2>6. CASE m = l /\ f = Head(frames[m])
      BY <1>2, <2>2, <2>5, <2>6 DEF Runs
    <2>7. CASE m = l /\ f \in Range(Tail(frames[m]))
      BY <2>2, <2>4, <2>7
    <2>8. CASE m # l
      BY <2>2, <2>8
    <2>. QED  BY <1>0, <2>6, <2>7, <2>8
  <1>3. ASSUME NEW l \in Loops, NEW s,
               frames[l] = <<>>, frames' = [frames EXCEPT ![l] = s]
        PROVE  Goal
    BY <1>0, <1>3
  <1>4. ASSUME NEW l \in Loops, NEW e \in active[l], HandleEvent(l, e)
        PROVE  Goal
    BY <1>1, <1>3, <1>4 DEF HandleEvent, InLoop, Abort
  <1>5. ASSUME NEW l \in Loops, TakeFunctors(l)
        PROVE  Goal
    BY <1>3, <1>5 DEF TakeFunctors, InLoop
  <1>6. ASSUME NEW c \in Conns, NewConnection(c)
        PROVE  Goal
    <2>1. Base \in Loops
      BY DEF Base, Loops
    <2>. QED
      BY <1>1, <1>3, <1>6, <2>1 DEF NewConnection, InLoop,
         ReturnAndRunInLoopOf
  <1>7. ASSUME NEW l \in Loops, NEW op \in FunctorOps, NEW d \in Conns,
               frames' = [frames EXCEPT ![l] = <<Call(op, d)>> \o @]
        PROVE  Goal
    <2>1. <<Call(op, d)>> \in Seq(FrameType) /\ frames[l] \in Seq(FrameType)
      BY <1>0, CallType
    <2>2. Range(<<Call(op, d)>> \o frames[l]) =
              Range(<<Call(op, d)>>) \union Range(frames[l])
      BY ZenonT(60), <2>1, RangeConcat
    <2>3. /\ m = l => frames'[m] = <<Call(op, d)>> \o frames[l]
          /\ m # l => frames'[m] = frames[m]
      BY <1>0, <1>7
    <2>. QED  BY <2>2, <2>3
  <1>8. ASSUME NEW l \in Loops, NEW b \in Conns, NEW d \in Conns,
               \/ CallbackShutdown(l, b, d) \/ CallbackForceClose(l, b, d)
               \/ CallbackReads(l, b, d)
        PROVE  Goal
    BY <1>7, <1>8 DEF CallbackShutdown, CallbackForceClose, CallbackReads,
       ReadOps, FunctorOps
  <1>9. ASSUME NEW l \in Loops, LoopStep(l)
        PROVE  Goal
    <2>1. CASE Poll(l) \/ EndIteration(l)
      BY <1>1, <2>1 DEF Poll, EndIteration
    <2>. QED
      BY <1>2, <1>4, <1>5, <1>6, <1>9, <2>1 DEF LoopStep, Returns
  <1>10. ASSUME NEW d \in Conns,
                \/ \E l \in Loops : CallbackKeeps(l, d)
                \/ UserShutdownChecks(d) \/ UserShutdownStores(d)
                \/ UserForceCloses(d) \/ UserReads(d) \/ UserDrops(d)
                \/ PeerSends(d) \/ PeerCloses(d) \/ PeerResets(d)
         PROVE  Goal
    BY <1>1, <1>10 DEF CallbackKeeps, UserShutdownChecks, UserShutdownStores,
       UserForceCloses, UserReads, UserDrops, PeerSends, PeerCloses, PeerResets
  <1>11. CASE UNCHANGED vars
    BY <1>1, <1>11 DEF vars
  <1>. QED  BY <1>8, <1>9, <1>10, <1>11 DEF Next, UserStep, PeerStep

\* What RunInLoop() hands over is called or queued on the loop it is meant for.
LEMMA HandOverPending ==
    ASSUME Typed, NEW l \in Loops, frames[l] # <<>>, NEW t \in Loops,
           NEW op \in FunctorOps, NEW c \in Conns,
           ReturnAndRunInLoop(l, t, Call(op, c))
    PROVE  Call(op, c) \in Pending(t)'
  <1>. DEFINE f == Call(op, c)
  <1>0. f \in FunctorType /\ f \in FrameType
    BY CallType DEF FrameOps
  <1>1. l = t => ReturnAnd(l, <<f>>)
    BY DEF ReturnAndRunInLoop
  <1>2. l # t => queue' = [queue EXCEPT ![t] = Append(@, f)]
    BY DEF ReturnAndRunInLoop
  <1>. HIDE DEF f
  <1>3. CASE l = t
    <2>1. <<f>> \in Seq(FrameType) /\ Tail(frames[l]) \in Seq(FrameType)
      BY <1>0 DEF Typed
    <2>2. frames'[t] = <<f>> \o Tail(frames[l])
      BY <1>1, <1>3, <2>1, ReturnType
    <2>3. Range(<<f>> \o Tail(frames[l])) =
              Range(<<f>>) \union Range(Tail(frames[l]))
      BY ZenonT(60), <2>1, RangeConcat
    <2>4. f \in Range(frames'[t])
      BY <2>2, <2>3, RangeOne
    <2>. QED  BY <2>4 DEF Pending, f
  <1>4. CASE l # t
    <2>1. /\ queue'[t] = Append(queue[t], f) /\ queue[t] \in Seq(FunctorType)
      BY <1>0, <1>2, <1>4, QueueType DEF Typed
    <2>2. Range(Append(queue[t], f)) = Range(queue[t]) \union {f}
      BY <1>0, <2>1, RangeAppend
    <2>3. f \in Range(queue'[t])
      BY <2>1, <2>2
    <2>. QED  BY <2>3 DEF Pending, f
  <1>. QED  BY <1>3, <1>4

\* A call that removes or destroys a connection stays on its way until it is
\* made.
LEMMA ClosingStays ==
    ASSUME Typed, [Next]_vars, NEW l \in Loops, NEW f \in Pending(l),
           f.op \in Closing
    PROVE  \/ f \in Pending(l)'
           \/ RemoveConnectionInLoop(l, f.conn)
           \/ ConnectionDestroyed(l, f.conn) /\ state_[f.conn] = "kDisconnected"
  <1>1. CASE f \in Range(queue[l])
    <2>1. ASSUME TakeFunctors(l)
          PROVE  frames'[l] = queue[l]
      BY <2>1 DEF TakeFunctors, Typed
    <2>. QED  BY <1>1, <2>1, QueuedStays DEF Pending
  <1>2. ASSUME NEW c \in Conns, Runs(l, f), Returns(l, c), frames' # frames
        PROVE  \/ RemoveConnectionInLoop(l, f.conn)
               \/ /\ ConnectionDestroyed(l, f.conn)
                  /\ state_[f.conn] = "kDisconnected"
    <2>1. ASSUME NEW op, Runs(l, Call(op, c))
          PROVE  f.op = op /\ f.conn = c
      BY <1>2, <2>1 DEF Runs, Call
    <2>2. CASE RemoveConnectionInLoop(l, c)
      BY <2>1, <2>2 DEF RemoveConnectionInLoop
    <2>3. CASE ConnectionDestroyed(l, c)
      BY <1>2, <2>1, <2>3 DEF ConnectionDestroyed, Abort
    <2>4. ASSUME NEW op, Runs(l, Call(op, c)), op \notin Closing
          PROVE  FALSE
      BY <2>1, <2>4
    <2>5. CASE \/ HandleRead(l, c) \/ HandleHangUp(l, c)
               \/ HandleEventReturns(l, c) \/ ConnectionEstablished(l, c)
               \/ ShutdownInLoop(l, c) \/ ForceCloseInLoop(l, c)
               \/ StartReadInLoop(l, c) \/ StopReadInLoop(l, c)
               \/ CallbackReturns(l, c)
      <3>1. PICK op : op \notin Closing /\ Runs(l, Call(op, c))
        <4>1. {"HandleRead", "closeCallback_", "return",
               "ConnectionEstablished", "ShutdownInLoop", "ForceCloseInLoop",
               "StartReadInLoop", "StopReadInLoop", "callback"}
                  \intersect Closing = {}
          BY DEF Closing
        <4>. QED
          BY <2>5, <4>1 DEF HandleRead, HandleHangUp, HandleEventReturns,
             ConnectionEstablished, ShutdownInLoop, ForceCloseInLoop,
             StartReadInLoop, StopReadInLoop, CallbackReturns, InCallback
      <3>. QED  BY <2>4, <3>1
    <2>. QED  BY <1>2, <2>2, <2>3, <2>5 DEF Returns
  <1>3. CASE f \in Range(frames[l])
    BY <1>2, <1>3, StackedStays DEF Pending
  <1>. QED  BY <1>1, <1>3 DEF Pending

\* RegisteredListed is kept by every step.
LEMMA RegisteredStep ==
    ASSUME ServerInv, [Next]_vars, NEW c \in Conns
    PROVE  RegisteredListed(c)'
  <1>0. /\ WorkInv /\ LifeInv /\ Typed /\ CallsFit /\ ConnsFit
        /\ OpenConnectionsServed /\ Served(c) /\ RegisteredListed(c)
        /\ blame[c] \subseteq blame'[c]
    BY Ageing DEF ServerInv, WorkInv, ServedInv, LifeInv
  <1>1. Base \in Loops /\ loopOf[c] \in Loops
    BY <1>0 DEF Base, Loops, Typed
  <1>. DEFINE Leaving == \E l \in Loops : \E f \in Pending(l) :
                             f.conn = c /\ f.op \in Closing
  <1>2. ASSUME NEW t \in Loops, NEW op \in Closing, Call(op, c) \in Pending(t)'
        PROVE  Leaving'
    <2>. DEFINE g == Call(op, c)
    <2>1. g.op = op /\ g.conn = c /\ g \in Pending(t)'
      BY <1>2 DEF Call
    <2>. HIDE DEF g
    <2>. QED  BY <2>1
  <1>3. ASSUME NEW l \in Loops, RemoveConnectionInLoop(l, c)
        PROVE  Leaving'
    <2>1. /\ ReturnAndRunInLoop(l, loopOf[c], Call("ConnectionDestroyed", c))
          /\ frames[l] # <<>> /\ "ConnectionDestroyed" \in FunctorOps
          /\ "ConnectionDestroyed" \in Closing
      BY <1>3 DEF RemoveConnectionInLoop, Runs, FunctorOps, Closing
    <2>2. PICK t \in Loops : t = loopOf[c]
      BY <1>1
    <2>3. Call("ConnectionDestroyed", c) \in Pending(t)'
      BY <1>0, <2>1, <2>2, HandOverPending
    <2>. QED  BY <1>2, <2>1, <2>3
  <1>4. c \in connections_ => c \in connections_' \/ Leaving'
    BY <1>0, <1>3, RestSteps
  <1>5. ReadAgain(c) => ReadAgain(c)'
    BY <1>0 DEF ReadAgain
  <1>6. Leaving => \/ Leaving'
                   \/ \E l \in Loops : /\ ConnectionDestroyed(l, c)
                                       /\ state_[c] = "kDisconnected"
    <2>. SUFFICES ASSUME NEW l \in Loops, NEW f \in Pending(l),
                         f.conn = c, f.op \in Closing
                  PROVE  \/ Leaving'
                         \/ /\ ConnectionDestroyed(l, c)
                            /\ state_[c] = "kDisconnected"
      OBVIOUS
    <2>. QED  BY <1>0, <1>3, ClosingStays
  <1>7. ASSUME NEW l \in Loops, ConnectionDestroyed(l, c),
               state_[c] = "kDisconnected"
        PROVE  ~registered'[c]
    BY <1>0, <1>7 DEF ConnectionDestroyed, RemoveFromPoller, Typed
  <1>8. ASSUME NEW l \in Loops, HandleClose(l, c), frames[l] # <<>>, Open(c)
        PROVE  Leaving'
    <2>1. /\ ReturnAndRunInLoop(l, Base, Call("RemoveConnectionInLoop", c))
          /\ "RemoveConnectionInLoop" \in FunctorOps
          /\ "RemoveConnectionInLoop" \in Closing
      BY <1>8 DEF HandleClose, Open, FunctorOps, Closing
    <2>2. Call("RemoveConnectionInLoop", c) \in Pending(Base)'
      BY <1>0, <1>1, <1>8, <2>1, HandOverPending
    <2>. QED  BY <1>1, <1>2, <2>1, <2>2
  <1>9. state_[c] = "kConnecting" => c \in connections_
    BY <1>0 DEF OpenConnectionsServed, ConnsFit, ConnFits, New
  <1>10. reading_[c] => ReadAgain(c)
    BY <1>0 DEF Served
  <1>11. registered'[c] => c \in connections_' \/ ReadAgain(c)' \/ Leaving'
    <2>1. CASE registered'[c] = registered[c]
      BY <1>0, <1>4, <1>5, <1>6, <1>7, <2>1 DEF RegisteredListed
    <2>2. "read again" \in blame'[c] => ReadAgain(c)'
      BY DEF ReadAgain
    <2>. QED
      BY <1>0, <1>4, <1>5, <1>8, <1>9, <1>10, <2>1, <2>2, ChannelOutcome
  <1>. QED  BY <1>11 DEF RegisteredListed

LEMMA InitServerInv == Init => ServerInv
  BY InitWorkInv DEF Init, ServerInv, RegisteredListed

LEMMA StepServerInv == ServerInv /\ [Next]_vars => ServerInv'
  <1>. SUFFICES ASSUME ServerInv, [Next]_vars
                PROVE  ServerInv'
    OBVIOUS
  <1>1. WorkInv'
    BY StepWorkInv DEF ServerInv
  <1>. QED  BY <1>1, RegisteredStep DEF ServerInv

-----------------------------------------------------------------------------
(* Lifetimes *)

\* A registered channel has a connection.
LEMMA RegisteredAlive ==
    ASSUME ServerInv, NEW c \in Conns, registered[c]
    PROVE  Alive(c) \/ ReadAgain(c)
  <1>1. RegisteredListed(c)
    BY DEF ServerInv
  <1>2. \A f : f.op \in Closing => f.op \notin ChannelOps
    BY DEF Closing, ChannelOps
  <1>. QED  BY <1>1, <1>2 DEF RegisteredListed, Pending, Alive

\* LifetimesSafe: a connection is listed and read until it is closed, it
\* outlives the use of its channel, by epoll and by the events and calls of
\* its loop, and is destroyed closed and unregistered, but for a user that
\* reopens it, and whoever releases it last.
THEOREM LifetimesCorrect == Spec => []LifetimesSafe
  <1>1. ASSUME ServerInv
        PROVE  LifetimesSafe
    <2>0. /\ Typed /\ OpenConnectionsServed /\ EventsServed /\ FramesServed
      BY <1>1 DEF ServerInv, WorkInv, ServedInv, LifeInv
    <2>1. NoDanglingChannel
      <3>. SUFFICES ASSUME NumThreads > 0, NEW c \in Created, ~Alive(c),
                           ~ReadAgain(c)
                    PROVE  /\ ~registered[c]
                           /\ \A l \in Loops :
                                  \A e \in active[l] \union Range(frames[l]) :
                                      e.conn # c
        BY DEF NoDanglingChannel
      <3>1. ~registered[c]
        BY <1>1, RegisteredAlive DEF Created
      <3>2. ASSUME NEW l \in Loops, NEW e \in active[l], e.conn = c
            PROVE  FALSE
        BY <2>0, <3>1, <3>2 DEF EventsServed, EventServed
      <3>3. ASSUME NEW l \in Loops, NEW f \in Range(frames[l]), f.conn = c
            PROVE  FALSE
        <4>1. f.op \in ChannelOps
          BY <3>3 DEF Alive
        <4>. QED  BY <2>0, <3>1, <3>3, <4>1 DEF FramesServed, FrameServed
      <3>. QED  BY <3>1, <3>2, <3>3
    <2>2. DestructorsAssert
      <3>. SUFFICES ASSUME NEW c \in Created, ~Alive(c), ~Overwritten(c),
                           ~ReadAgain(c)
                    PROVE  state_[c] = "kDisconnected" /\ ~registered[c]
        BY DEF DestructorsAssert
      <3>1. ~registered[c]
        BY <1>1, RegisteredAlive DEF Created
      <3>2. c \notin connections_ /\ state_[c] \in States /\ state_[c] # "none"
        BY <2>0 DEF Alive, Created, Typed
      <3>3. state_[c] = "kDisconnected"
        BY <2>0, <3>2 DEF OpenConnectionsServed, States, Created
      <3>. QED  BY <3>1, <3>3
    <2>. QED  BY <2>0, <2>1, <2>2 DEF LifetimesSafe
  <1>. QED  BY <1>1, InitServerInv, StepServerInv, PTL DEF Spec

-----------------------------------------------------------------------------
(* Aborts *)

\* Why the check of f fails, as AbortsExplained has it.
Explained(f) ==
    /\ f.op # "ConnectionEstablished"
    /\ f.op = "ConnectionDestroyed" => Overwritten(f.conn)
    /\ f.op = "HandleClose" => Excused(f.conn)
    /\ f.op = "freed Channel" => NumThreads = 0 \/ ReadAgain(f.conn)

\* The checks fail for these reasons only.
LEMMA AbortSteps ==
    ASSUME ServerInv, [Next]_vars
    PROVE  \/ aborted' = aborted
           \/ \E f : Explained(f) /\ f.conn \in Conns /\ aborted' = {f}
  <1>. DEFINE Goal == \/ aborted' = aborted
                      \/ \E f : /\ Explained(f) /\ f.conn \in Conns
                                /\ aborted' = {f}
  <1>0. WorkInv /\ Typed /\ EventsServed
    BY DEF ServerInv, WorkInv, ServedInv, LifeInv
  <1>1. CASE aborted' = aborted
    BY <1>1
  <1>2. ASSUME NEW check, NEW c \in Conns, Abort(check, c),
               check # "ConnectionEstablished",
               check = "ConnectionDestroyed" => Overwritten(c),
               check = "HandleClose" => Excused(c),
               check = "freed Channel" => NumThreads = 0 \/ ReadAgain(c)
        PROVE  Goal
    <2>. DEFINE f == Call(check, c)
    <2>1. f.op = check /\ f.conn = c /\ aborted' = {f}
      BY <1>2 DEF Abort, Call
    <2>. HIDE DEF f
    <2>2. Explained(f)
      BY <1>2, <2>1 DEF Explained
    <2>. QED  BY <2>1, <2>2
  <1>3. ASSUME NEW l \in Loops, NEW c \in Conns, HandleClose(l, c),
               Open(c) \/ Excused(c)
        PROVE  Goal
    BY <1>1, <1>2, <1>3 DEF HandleClose, Open
  <1>4. ASSUME NEW c \in Conns, ~Alive(c),
               NumThreads > 0 => registered[c] \/ ReadAgain(c)
        PROVE  NumThreads = 0 \/ ReadAgain(c)
    BY <1>4, RegisteredAlive, TcpServerAssumption
  <1>5. {"HandleRead", "closeCallback_", "return", "ConnectionEstablished",
         "ConnectionDestroyed"} \subseteq FrameOps
    BY DEF FrameOps, FunctorOps, ChannelOps
  <1>6. ASSUME NEW l \in Loops, NEW c \in Conns, HandleRead(l, c)
        PROVE  Goal
    <2>1. Open(c) \/ Excused(c)
      <3>1. Runs(l, Call("HandleRead", c))
        BY <1>6 DEF HandleRead
      <3>. QED  BY <1>0, <1>5, <3>1, RunsServed
    <2>. QED  BY <1>1, <1>3, <1>6, <2>1 DEF HandleRead
  <1>7. ASSUME NEW l \in Loops, NEW c \in Conns, HandleHangUp(l, c)
        PROVE  Goal
    <2>1. /\ Excused(c)
          /\ NumThreads > 0 => registered[c] \/ ReadAgain(c)
      <3>1. Runs(l, Call("closeCallback_", c)) /\ "closeCallback_" \in ChannelOps
        BY <1>7 DEF HandleHangUp, ChannelOps
      <3>. QED  BY <1>0, <1>5, <3>1, RunsServed
    <2>2. CASE Alive(c)
      BY <1>3, <1>7, <2>1, <2>2 DEF HandleHangUp
    <2>3. CASE ~Alive(c)
      BY <1>2, <1>4, <1>7, <2>1, <2>3 DEF HandleHangUp
    <2>. QED  BY <2>2, <2>3
  <1>8. ASSUME NEW l \in Loops, NEW c \in Conns, HandleEventReturns(l, c)
        PROVE  Goal
    <2>1. NumThreads > 0 => registered[c] \/ ReadAgain(c)
      <3>1. Runs(l, Call("return", c)) /\ "return" \in ChannelOps
        BY <1>8 DEF HandleEventReturns, ChannelOps
      <3>. QED  BY <1>0, <1>5, <3>1, RunsServed
    <2>. QED  BY <1>1, <1>2, <1>4, <1>8, <2>1 DEF HandleEventReturns
  <1>9. ASSUME NEW l \in Loops, NEW e \in active[l], HandleEvent(l, e)
        PROVE  Goal
    <2>1. /\ e.conn \in Conns
          /\ NumThreads > 0 => registered[e.conn] \/ ReadAgain(e.conn)
      BY <1>0, <1>9 DEF HandleEvent, Created, EventsServed, EventServed
    <2>. QED  BY <1>1, <1>2, <1>4, <1>9, <2>1 DEF HandleEvent
  <1>10. ASSUME NEW l \in Loops, NEW c \in Conns, ConnectionEstablished(l, c)
         PROVE  Goal
    <2>1. state_[c] = "kConnecting"
      <3>1. Runs(l, Call("ConnectionEstablished", c))
        BY <1>10 DEF ConnectionEstablished
      <3>2. CallFits(l, Call("ConnectionEstablished", c))
        BY <1>0, <1>5, <3>1, RunsServed
      <3>. QED  BY <3>2 DEF CallFits, Call
    <2>. QED  BY <1>1, <1>10, <2>1 DEF ConnectionEstablished
  <1>11. ASSUME NEW l \in Loops, NEW c \in Conns, ConnectionDestroyed(l, c)
         PROVE  Goal
    <2>1. state_[c] = "kDisconnected" \/ Overwritten(c)
      <3>1. Runs(l, Call("ConnectionDestroyed", c))
        BY <1>11 DEF ConnectionDestroyed
      <3>2. CallFits(l, Call("ConnectionDestroyed", c))
        BY <1>0, <1>5, <3>1, RunsServed
      <3>. QED  BY <3>2 DEF CallFits, Call, Closing
    <2>. QED  BY <1>1, <1>2, <1>11, <2>1 DEF ConnectionDestroyed
  <1>12. ASSUME NEW l \in Loops, NEW c \in Conns, ForceCloseInLoop(l, c)
         PROVE  Goal
    BY <1>1, <1>3, <1>12 DEF ForceCloseInLoop, Open
  <1>13. ASSUME NEW l \in Loops, LoopStep(l)
         PROVE  Goal
    <2>1. CASE \/ Poll(l) \/ TakeFunctors(l) \/ EndIteration(l)
               \/ \E c \in Conns :
                   \/ RemoveConnectionInLoop(l, c) \/ ShutdownInLoop(l, c)
                   \/ StartReadInLoop(l, c) \/ StopReadInLoop(l, c)
                   \/ CallbackReturns(l, c) \/ NewConnection(c)
      BY <1>1, <2>1 DEF Poll, TakeFunctors, EndIteration,
         RemoveConnectionInLoop, ShutdownInLoop, StartReadInLoop,
         StopReadInLoop, CallbackReturns, NewConnection
    <2>. QED
      BY <1>6, <1>7, <1>8, <1>9, <1>10, <1>11, <1>12, <1>13, <2>1 DEF LoopStep
  <1>14. ASSUME NEW l \in Loops, NEW b \in Conns, NEW d \in Conns,
                \/ CallbackKeeps(l, b) \/ CallbackShutdown(l, b, d)
                \/ CallbackForceClose(l, b, d) \/ CallbackReads(l, b, d)
         PROVE  Goal
    BY <1>1, <1>14 DEF CallbackKeeps, CallbackShutdown, CallbackForceClose,
       CallbackReads
  <1>15. ASSUME NEW d \in Conns,
                \/ UserShutdownChecks(d) \/ UserShutdownStores(d)
                \/ UserForceCloses(d) \/ UserReads(d) \/ UserDrops(d)
                \/ PeerSends(d) \/ PeerCloses(d) \/ PeerResets(d)
         PROVE  Goal
    BY <1>1, <1>15 DEF UserShutdownChecks, UserShutdownStores,
       UserForceCloses, UserReads, UserDrops, PeerSends, PeerCloses, PeerResets
  <1>16. CASE UNCHANGED vars
    BY <1>1, <1>16 DEF vars
  <1>. QED  BY <1>13, <1>14, <1>15, <1>16 DEF Next, UserStep, PeerStep

\* AbortsExplained: however many connections, threads and calls of the user
\* there are, the assertions on state_ fail only after a reset, a close from
\* another connection's callback, a store over kDisconnected, or a StartRead()
\* that finds the connection closed; with I/O threads no freed channel is
\* used but after the last.
THEOREM AbortsCorrect == Spec => []AbortsExplained
  <1>1. Init => ServerInv /\ AbortsExplained
    BY InitServerInv DEF Init, AbortsExplained
  <1>2. ServerInv /\ AbortsExplained /\ [Next]_vars
            => ServerInv' /\ AbortsExplained'
    <2>. SUFFICES ASSUME ServerInv, AbortsExplained, [Next]_vars
                  PROVE  AbortsExplained'
      BY StepServerInv
    <2>0. Typed /\ CallsFit /\ ConnsFit
      BY DEF ServerInv, WorkInv, ServedInv, LifeInv
    <2>1. \A f \in aborted' : Explained(f) /\ f.conn \in Conns
      <3>1. \A f \in aborted : f.conn \in Conns
        BY <2>0 DEF Typed, AbortType
      <3>2. \A f \in aborted : Explained(f)
        BY DEF AbortsExplained, Explained, Excused
      <3>. QED  BY <3>1, <3>2, AbortSteps
    <2>2. ASSUME NEW f \in aborted'
          PROVE  Explained(f)'
      <3>1. blame[f.conn] \subseteq blame'[f.conn] /\ Explained(f)
        BY <2>0, <2>1, <2>2, Ageing
      <3>. QED  BY <3>1 DEF Explained, Overwritten, ReadAgain, Excused
    <2>. QED  BY <2>2 DEF AbortsExplained, Explained, Excused
  <1>. QED  BY <1>1, <1>2, PTL DEF Spec
=============================================================================
