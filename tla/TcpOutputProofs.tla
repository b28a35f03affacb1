-------------------------- MODULE TcpOutputProofs --------------------------
(***************************************************************************)
(* Theorems about TcpOutput, for any number of threads that send, sends of *)
(* any lengths and any high water mark.                                    *)
(*                                                                         *)
(* The stream and its buffer are kept by the two places that write: they   *)
(* split what they are given (SplitAt), and the parts are put back behind  *)
(* one another in the same order.  ConnectionDestroyed() clears the write  *)
(* interest without looking at the buffer: that the connection is closed   *)
(* by then needs ClosedInOrder.  Why the program ends needs the order of   *)
(* all functors that wait, taken by the loop or not (SendsFirst), and the  *)
(* calls on the loop's stack (ClosesOnce).                                 *)
(*                                                                         *)
(* The last part is about the vector behind the output and input buffers,  *)
(* which TcpOutput takes for a sequence: what the operations of            *)
(* net/Buffer.cc do, for every content and every size of the buffer.       *)
(***************************************************************************)
EXTENDS TcpOutput, Buffer, SequenceLemmas

USE TcpOutputAssumption DEF TcpOutputAssumption

Calls == {"callback", "HandleClose", "HandleWrite", "wroteAll"}
FunctorType == [op : Ops, data : Data]

Output == <<outputBuffer_, writing, wire, accepted, told, pendingFunctors_>>

-----------------------------------------------------------------------------
(* What a send does *)

\* What is kept for later is appended to the buffer, and asked for.
LEMMA KeepsForLater ==
    ASSUME TypeOK, NEW rest \in Data, KeepForLater(rest)
    PROVE  /\ outputBuffer_' = outputBuffer_ \o rest
           /\ outputBuffer_' \in Data
           /\ Len(outputBuffer_') = Len(outputBuffer_) + Len(rest)
           /\ writing' = TRUE
           /\ told' \in Nat
           /\ HighWaterToldOnce => HighWaterToldOnce'
           /\ \/ pendingFunctors_' = pendingFunctors_
              \/ pendingFunctors_' =
                     Append(pendingFunctors_,
                            Functor("highWaterMarkCallback_", <<>>))
  <1>1. /\ outputBuffer_ \in Data /\ outputBuffer_' = outputBuffer_ \o rest
        /\ told \in Nat
    BY DEF TypeOK, KeepForLater
  <1>2. /\ outputBuffer_' \in Data
        /\ Len(outputBuffer_') = Len(outputBuffer_) + Len(rest)
        /\ Len(outputBuffer_) \in Nat /\ Len(rest) \in Nat
    BY <1>1 DEF Data
  <1>3. CASE /\ Len(outputBuffer_) + Len(rest) >= HighWaterMark
             /\ Len(outputBuffer_) < HighWaterMark
    <2>1. /\ told' = told + 1
          /\ pendingFunctors_' =
                 Append(pendingFunctors_,
                        Functor("highWaterMarkCallback_", <<>>))
          /\ writing' = TRUE
      BY <1>3 DEF KeepForLater
    <2>. QED  BY <1>1, <1>2, <1>3, <2>1 DEF HighWaterToldOnce
  <1>4. CASE ~(/\ Len(outputBuffer_) + Len(rest) >= HighWaterMark
               /\ Len(outputBuffer_) < HighWaterMark)
    <2>1. /\ told' = told /\ writing' = TRUE
          /\ pendingFunctors_' = pendingFunctors_
      BY <1>4 DEF KeepForLater
    <2>. QED  BY <1>1, <1>2, <1>4, <2>1 DEF HighWaterToldOnce
  <1>. QED  BY <1>3, <1>4

\* A functor of the right type may be queued.
LEMMA QueuedFunctor ==
    ASSUME TypeOK, NEW op \in Ops, NEW data \in Data
    PROVE  /\ Functor(op, data) \in FunctorType
           /\ Functor(op, data).op = op
           /\ Append(pendingFunctors_, Functor(op, data)) \in Seq(FunctorType)
  <1>1. pendingFunctors_ \in Seq(FunctorType)
    BY DEF TypeOK, FunctorType
  <1>2. Functor(op, data) \in FunctorType /\ Functor(op, data).op = op
    BY DEF Functor, FunctorType
  <1>. QED  BY <1>1, <1>2, AppendProperties

\* SendInLoop writes the first bytes of its data, if nothing waits, and keeps
\* the rest.
LEMMA SendKeepsOrder ==
    ASSUME TypeOK, StreamInOrder, BufferWatched, NEW data \in Data, NEW below,
           SendInLoop(data, below),
           UNCHANGED <<state_, writeCompleteCallback_>>
    PROVE  /\ outputBuffer_' \in Data /\ wire' \in Data /\ accepted' \in Data
           /\ writing' \in BOOLEAN /\ told' \in Nat
           /\ StreamInOrder' /\ BufferWatched'
           /\ \/ pendingFunctors_' = pendingFunctors_
              \/ pendingFunctors_' =
                     Append(pendingFunctors_,
                            Functor("highWaterMarkCallback_", <<>>))
           /\ frames' = below \/ frames' = <<"callback">> \o below
  <1>1. CASE state_ # "kConnected"
    BY <1>1 DEF SendInLoop, bufferVars, TypeOK, StreamInOrder, BufferWatched,
                InterestFollowsOutput, HighWaterToldOnce, Closed
  <1>2. CASE state_ = "kConnected"
    <2>1. PICK n \in DirectWrites(data) :
            /\ wire' = wire \o SubSeq(data, 1, n)
            /\ accepted' = accepted \o data
            /\ IF n = Len(data) /\ writeCompleteCallback_
               THEN /\ frames' = <<"callback">> \o below
                    /\ UNCHANGED <<outputBuffer_, writing, told,
                                   pendingFunctors_>>
               ELSE /\ KeepForLater(SubSeq(data, n + 1, Len(data)))
                    /\ frames' = below
      BY <1>2 DEF SendInLoop
    <2>. DEFINE first == SubSeq(data, 1, n)
                rest == SubSeq(data, n + 1, Len(data))
    <2>2. /\ data \in Seq(Seq(Nat)) /\ n \in 0 .. Len(data)
          /\ outputBuffer_ = <<>> \/ n = 0
      BY DEF DirectWrites, Data
    <2>3. /\ first \in Seq(Seq(Nat)) /\ rest \in Seq(Seq(Nat))
          /\ Len(first) = n /\ Len(rest) = Len(data) - n
      BY <2>2, SplitAt
    <2>4. /\ wire \in Seq(Seq(Nat)) /\ outputBuffer_ \in Seq(Seq(Nat))
          /\ accepted \in Seq(Seq(Nat)) /\ wire \o outputBuffer_ = accepted
      BY DEF TypeOK, StreamInOrder, Data
    <2>5. Len(data) \in Nat
      BY <2>2
    <2>6. first \o rest = data
      BY <2>2, SplitAt
    <2>. HIDE DEF first, rest
    <2>7. (wire \o first) \o (outputBuffer_ \o rest) = accepted \o data
      <3>1. outputBuffer_ = <<>> \/ first = <<>>
        BY <2>2, <2>3, EmptySeq
      <3>. DEFINE Byte == Seq(Nat)
      <3>2. /\ wire \in Seq(Byte) /\ outputBuffer_ \in Seq(Byte)
            /\ first \in Seq(Byte) /\ rest \in Seq(Byte)
        BY <2>3, <2>4
      <3>. HIDE DEF Byte
      <3>3. (wire \o first) \o (outputBuffer_ \o rest)
                = (wire \o outputBuffer_) \o (first \o rest)
        <4>1. (wire \o first) \o rest = wire \o (first \o rest)
          BY <3>2
        <4>2. (wire \o outputBuffer_) \o rest = wire \o (outputBuffer_ \o rest)
          BY <3>2
        <4>3. /\ wire \o <<>> = wire
              /\ <<>> \o rest = rest
          BY <3>2, EmptyConcat
        <4>. QED  BY <3>1, <4>1, <4>2, <4>3
      <3>. QED  BY <2>4, <2>6, <3>3
    <2>8. wire' \in Data /\ accepted' \in Data /\ rest \in Data
      <3>1. wire' = wire \o first
        BY <2>1 DEF first
      <3>. QED  BY <2>1, <2>2, <2>3, <2>4, <3>1, ConcatProperties DEF Data
    <2>9. CASE n = Len(data) /\ writeCompleteCallback_
      <3>1. /\ UNCHANGED <<outputBuffer_, writing, told, pendingFunctors_>>
            /\ frames' = <<"callback">> \o below /\ wire' = wire \o first
        BY <2>1, <2>9 DEF first
      <3>2. outputBuffer_ \o rest = outputBuffer_
        <4>1. rest = <<>>
          BY <2>3, <2>5, <2>9
        <4>. QED  BY <2>4, <4>1, EmptyConcat
      <3>3. StreamInOrder'
        BY <2>1, <2>7, <3>1, <3>2 DEF StreamInOrder
      <3>4. BufferWatched'
        BY <3>1 DEF BufferWatched, InterestFollowsOutput, HighWaterToldOnce,
                    Closed
      <3>. QED  BY <2>4, <2>8, <3>1, <3>3, <3>4 DEF TypeOK
    <2>10. CASE ~(n = Len(data) /\ writeCompleteCallback_)
      <3>1. /\ KeepForLater(rest) /\ frames' = below /\ wire' = wire \o first
        BY <2>1, <2>10 DEF first, rest
      <3>2. StreamInOrder'
        BY <2>1, <2>8, <2>7, <3>1, KeepsForLater DEF StreamInOrder
      <3>3. writeCompleteCallback_ => outputBuffer_' # <<>>
        <4>1. Len(outputBuffer_') = Len(outputBuffer_) + Len(rest)
          BY <2>8, <3>1, KeepsForLater
        <4>2. writeCompleteCallback_ => Len(rest) > 0
          BY <2>2, <2>3, <2>5, <2>10
        <4>3. Len(outputBuffer_) \in Nat /\ Len(rest) \in Nat /\ Len(<<>>) = 0
          BY <2>3, <2>4
        <4>. QED  BY <4>1, <4>2, <4>3
      <3>4. BufferWatched'
        BY <2>8, <3>1, <3>3, KeepsForLater DEF BufferWatched,
           InterestFollowsOutput
      <3>. QED  BY <2>8, <3>1, <3>2, <3>4, KeepsForLater
    <2>. QED  BY <2>9, <2>10
  <1>. QED  BY <1>1, <1>2

-----------------------------------------------------------------------------
(* The queue of functors *)

\* The functors that have still to be called, in their order.
Queue == functors \o pendingFunctors_

\* A functor op is in the queue q.
Waits(op, q) == \E i \in DOMAIN q : q[i].op = op

\* In q, a send comes after the functor that removes the connection.
Overtaken(q) ==
    \E i, j \in DOMAIN q :
        i < j /\ q[i].op = "ConnectionDestroyed" /\ q[j].op = "SendInLoop"

\* What waits in an empty queue, and after one more functor.
LEMMA WaitsAppend ==
    ASSUME NEW q \in Seq(FunctorType), NEW f \in FunctorType
    PROVE  /\ ~Overtaken(<<>>) /\ \A op : ~Waits(op, <<>>)
           /\ Append(q, f) \in Seq(FunctorType)
           /\ \A op : Waits(op, Append(q, f)) => Waits(op, q) \/ f.op = op
           /\ Overtaken(Append(q, f)) =>
                  \/ Overtaken(q)
                  \/ Waits("ConnectionDestroyed", q) /\ f.op = "SendInLoop"
  <1>1. /\ Append(q, f) \in Seq(FunctorType)
        /\ DOMAIN Append(q, f) = DOMAIN q \union {Len(q) + 1}
        /\ \A i \in DOMAIN q : Append(q, f)[i] = q[i]
        /\ Append(q, f)[Len(q) + 1] = f
        /\ Len(q) \in Nat /\ DOMAIN q = 1 .. Len(q)
    BY AppendProperties
  <1>2. DOMAIN <<>> = {}
    OBVIOUS
  <1>3. ~Overtaken(<<>>) /\ \A op : ~Waits(op, <<>>)
    BY <1>2 DEF Overtaken, Waits
  <1>4. \A op : Waits(op, Append(q, f)) => Waits(op, q) \/ f.op = op
    BY <1>1 DEF Waits
  <1>5. ASSUME Overtaken(Append(q, f))
        PROVE  \/ Overtaken(q)
               \/ Waits("ConnectionDestroyed", q) /\ f.op = "SendInLoop"
    <2>1. PICK i, j \in DOMAIN Append(q, f) :
            /\ i < j
            /\ Append(q, f)[i].op = "ConnectionDestroyed"
            /\ Append(q, f)[j].op = "SendInLoop"
      BY <1>5 DEF Overtaken
    <2>2. i \in DOMAIN q
      BY <1>1, <2>1
    <2>. QED  BY <1>1, <2>1, <2>2 DEF Overtaken, Waits
  <1>. QED  BY <1>1, <1>3, <1>4, <1>5

\* What waits when the first functor is taken.
LEMMA WaitsTail ==
    ASSUME NEW q \in Seq(FunctorType), q # <<>>
    PROVE  /\ Tail(q) \in Seq(FunctorType)
           /\ Head(q) \in FunctorType
           /\ Waits(Head(q).op, q)
           /\ \A op : Waits(op, Tail(q)) => Waits(op, q)
           /\ Overtaken(Tail(q)) => Overtaken(q)
           /\ Head(q).op = "ConnectionDestroyed"
              /\ Waits("SendInLoop", Tail(q)) => Overtaken(q)
  <1>1. /\ Tail(q) \in Seq(FunctorType) /\ Head(q) \in FunctorType
        /\ Head(q) = q[1] /\ 1 \in DOMAIN q
        /\ \A i \in DOMAIN Tail(q) : /\ i \in Nat \ {0} /\ i + 1 \in DOMAIN q
                                     /\ Tail(q)[i] = q[i + 1]
    OBVIOUS
  <1>2. \A op : Waits(op, Tail(q)) => Waits(op, q)
    BY <1>1 DEF Waits
  <1>3. Waits(Head(q).op, q)
    BY <1>1 DEF Waits
  <1>4. ASSUME Overtaken(Tail(q))
        PROVE  Overtaken(q)
    <2>1. PICK i, j \in DOMAIN Tail(q) :
            /\ i < j
            /\ Tail(q)[i].op = "ConnectionDestroyed"
            /\ Tail(q)[j].op = "SendInLoop"
      BY <1>4 DEF Overtaken
    <2>2. i + 1 \in DOMAIN q /\ j + 1 \in DOMAIN q /\ i + 1 < j + 1
      BY <1>1, <2>1
    <2>. QED  BY <1>1, <2>1, <2>2 DEF Overtaken
  <1>5. ASSUME Head(q).op = "ConnectionDestroyed", Waits("SendInLoop", Tail(q))
        PROVE  Overtaken(q)
    <2>1. PICK j \in DOMAIN Tail(q) : Tail(q)[j].op = "SendInLoop"
      BY <1>5 DEF Waits
    <2>2. j + 1 \in DOMAIN q /\ 1 < j + 1
      BY <1>1
    <2>. QED  BY <1>1, <1>5, <2>1, <2>2 DEF Overtaken
  <1>. QED  BY <1>1, <1>2, <1>3, <1>4, <1>5

\* A functor is queued.
LEMMA QueueAppend ==
    ASSUME TypeOK, NEW op \in Ops, NEW data \in Data, UNCHANGED functors,
           pendingFunctors_' = Append(pendingFunctors_, Functor(op, data))
    PROVE  /\ Queue \in Seq(FunctorType)
           /\ Queue' = Append(Queue, Functor(op, data))
           /\ pendingFunctors_' \in Seq(FunctorType)
           /\ Functor(op, data) \in FunctorType /\ Functor(op, data).op = op
  <1>1. functors \in Seq(FunctorType) /\ pendingFunctors_ \in Seq(FunctorType)
    BY DEF TypeOK, FunctorType
  <1>2. /\ Functor(op, data) \in FunctorType /\ Functor(op, data).op = op
        /\ Append(pendingFunctors_, Functor(op, data)) \in Seq(FunctorType)
    BY QueuedFunctor
  <1>3. functors \o Append(pendingFunctors_, Functor(op, data))
            = Append(functors \o pendingFunctors_, Functor(op, data))
    BY <1>1, <1>2, AppendConcat
  <1>4. functors \o pendingFunctors_ \in Seq(FunctorType)
    BY <1>1
  <1>. QED  BY <1>1, <1>2, <1>3, <1>4 DEF Queue

\* The next functor is taken.
LEMMA QueueTail ==
    ASSUME TypeOK, functors # <<>>
    PROVE  /\ Queue \in Seq(FunctorType) /\ Queue # <<>>
           /\ Head(Queue) = Head(functors) /\ Head(functors) \in FunctorType
           /\ Tail(Queue) = Tail(functors) \o pendingFunctors_
           /\ Tail(functors) \in Seq(FunctorType)
  <1>1. functors \in Seq(FunctorType) /\ pendingFunctors_ \in Seq(FunctorType)
    BY DEF TypeOK, FunctorType
  <1>2. /\ functors \o pendingFunctors_ # <<>>
        /\ Head(functors \o pendingFunctors_) = Head(functors)
        /\ Tail(functors \o pendingFunctors_)
               = Tail(functors) \o pendingFunctors_
    BY <1>1, HeadTailConcat
  <1>3. functors \o pendingFunctors_ \in Seq(FunctorType)
    BY <1>1
  <1>4. Head(functors) \in FunctorType /\ Tail(functors) \in Seq(FunctorType)
    BY <1>1
  <1>. QED  BY <1>2, <1>3, <1>4 DEF Queue

-----------------------------------------------------------------------------
(* The calls on the loop thread *)

\* No call is of HandleClose.
Quiet(calls) == \A i \in DOMAIN calls : calls[i] # "HandleClose"

\* A concatenation of calls is quiet if its parts are.
LEMMA QuietConcat ==
    ASSUME NEW s \in Seq(Calls), NEW t \in Seq(Calls)
    PROVE  /\ s \o t \in Seq(Calls)
           /\ Quiet(s) /\ Quiet(t) => Quiet(s \o t)
           /\ Quiet(<<>>)
           /\ <<"callback">> \in Seq(Calls) /\ Quiet(<<"callback">>)
           /\ s # <<>> => /\ Tail(s) \in Seq(Calls)
                          /\ Quiet(s) => Quiet(Tail(s))
                          /\ Quiet(Tail(s)) /\ Head(s) # "HandleClose"
                                => Quiet(s)
  <1>1. s \o t \in Seq(Calls)
    OBVIOUS
  <1>2. Quiet(s) /\ Quiet(t) => Quiet(s \o t)
    <2>1. ASSUME Quiet(s), Quiet(t), NEW i \in DOMAIN (s \o t)
          PROVE  (s \o t)[i] # "HandleClose"
      <3>1. \/ i \in DOMAIN s /\ (s \o t)[i] = s[i]
            \/ i - Len(s) \in DOMAIN t /\ (s \o t)[i] = t[i - Len(s)]
        OBVIOUS
      <3>. QED  BY <2>1, <3>1 DEF Quiet
    <2>. QED  BY <2>1 DEF Quiet
  <1>3. /\ Quiet(<<>>) /\ Quiet(<<"callback">>)
        /\ <<"callback">> \in Seq(Calls)
    BY DEF Quiet, Calls
  <1>4. ASSUME s # <<>>
        PROVE  /\ Tail(s) \in Seq(Calls)
               /\ Quiet(s) => Quiet(Tail(s))
               /\ Quiet(Tail(s)) /\ Head(s) # "HandleClose" => Quiet(s)
    <2>1. /\ Tail(s) \in Seq(Calls)
          /\ \A i \in DOMAIN Tail(s) : i + 1 \in DOMAIN s
                                       /\ Tail(s)[i] = s[i + 1]
      BY <1>4
    <2>2. \A i \in DOMAIN s : \/ s[i] = Head(s)
                              \/ i - 1 \in DOMAIN Tail(s)
                                 /\ Tail(s)[i - 1] = s[i]
      BY <1>4
    <2>. QED  BY <2>1, <2>2 DEF Quiet
  <1>. QED  BY <1>1, <1>2, <1>3, <1>4

\* Sequences of no call and of one.
LEMMA OneCall ==
    /\ <<>> \in Seq(Calls) /\ <<"callback">> \in Seq(Calls)
    /\ <<"HandleClose">> \in Seq(Calls) /\ <<"HandleWrite">> \in Seq(Calls)
    /\ <<"wroteAll">> \in Seq(Calls)
    /\ Quiet(<<>>) /\ Quiet(<<"callback">>) /\ Quiet(<<"HandleWrite">>)
    /\ Quiet(<<"wroteAll">>)
  <1>1. \A c \in Calls : <<c>> \in Seq(Calls)
    OBVIOUS
  <1>2. <<>> \in Seq(Calls)
    OBVIOUS
  <1>3. \A c \in Calls \ {"HandleClose"} : Quiet(<<c>>)
    BY DEF Quiet
  <1>4. Quiet(<<>>)
    BY DEF Quiet
  <1>5. /\ "callback" \in Calls \ {"HandleClose"} /\ "HandleClose" \in Calls
        /\ "HandleWrite" \in Calls \ {"HandleClose"}
        /\ "wroteAll" \in Calls \ {"HandleClose"}
    BY DEF Calls
  <1>. QED  BY <1>1, <1>2, <1>3, <1>4, <1>5

\* What HandleEvent() calls: HandleClose() first if there is nothing to read.
LEMMA EventCallsType ==
    ASSUME NEW in \in {"none", "data", "eof"}, NEW out \in BOOLEAN
    PROVE  /\ EventCalls(in, out) \in Seq(Calls)
           /\ ~reset => \/ Quiet(EventCalls(in, out))
                        \/ /\ in = "eof"
                           /\ EventCalls(in, out) # <<>>
                           /\ Head(EventCalls(in, out)) = "HandleClose"
                           /\ Quiet(Tail(EventCalls(in, out)))
  <1>. DEFINE read == IF in = "data" THEN <<"callback">> ELSE <<>>
              end == IF in = "eof" THEN <<"HandleClose">> ELSE <<>>
              write == IF out THEN <<"HandleWrite">> ELSE <<>>
              gone == IF reset /\ removal # "done" THEN <<"HandleClose">>
                                                   ELSE <<>>
  <1>1. EventCalls(in, out) = ((read \o end) \o write) \o gone
    BY DEF EventCalls
  <1>2. /\ read \in Seq(Calls) /\ end \in Seq(Calls)
        /\ write \in Seq(Calls) /\ gone \in Seq(Calls)
        /\ read \o end \in Seq(Calls) /\ (read \o end) \o write \in Seq(Calls)
        /\ ((read \o end) \o write) \o gone \in Seq(Calls)
    <2>1. /\ read \in Seq(Calls) /\ end \in Seq(Calls)
          /\ write \in Seq(Calls) /\ gone \in Seq(Calls)
      BY OneCall
    <2>. HIDE DEF read, end, write, gone
    <2>. QED  BY <2>1
  <1>3. Quiet(read) /\ Quiet(write) /\ (~reset => gone = <<>>)
    BY DEF Quiet
  <1>4. CASE in # "eof"
    <2>1. end = <<>>
      BY <1>4
    <2>2. Quiet(end)
      BY <2>1 DEF Quiet
    <2>. HIDE DEF read, end, write, gone
    <2>3. Quiet(read \o end)
      BY <1>2, <1>3, <2>2, QuietConcat
    <2>4. Quiet((read \o end) \o write)
      BY <1>2, <1>3, <2>3, QuietConcat
    <2>5. ~reset => ((read \o end) \o write) \o gone = (read \o end) \o write
      BY <1>2, <1>3, EmptyConcat
    <2>. QED  BY <1>1, <1>2, <2>4, <2>5
  <1>5. CASE in = "eof"
    <2>1. read = <<>> /\ end = <<"HandleClose">>
      BY <1>5
    <2>2. read \o end = <<"HandleClose">>
      BY <1>2, <2>1, EmptyConcat
    <2>3. write = <<>> \/ write = <<"HandleWrite">>
      OBVIOUS
    <2>4. ~reset => EventCalls(in, out) = (read \o end) \o write
      <3>. HIDE DEF read, end, write, gone
      <3>. QED  BY <1>1, <1>2, <1>3, EmptyConcat
    <2>. HIDE DEF read, end, write, gone
    <2>5. CASE write = <<>>
      <3>1. (read \o end) \o write = <<"HandleClose">>
        BY <1>2, <2>2, <2>5, EmptyConcat
      <3>2. /\ Head(<<"HandleClose">>) = "HandleClose"
            /\ Tail(<<"HandleClose">>) = <<>>
            /\ <<"HandleClose">> # <<>>
        OBVIOUS
      <3>. QED  BY <1>5, <2>4, <3>1, <3>2, <1>1, <1>2, OneCall
    <2>6. CASE write = <<"HandleWrite">>
      <3>1. /\ Tail(<<"HandleClose">>) = <<>>
            /\ <<"HandleClose">> # <<>>
            /\ Head(<<"HandleClose">>) = "HandleClose"
        OBVIOUS
      <3>2. /\ (read \o end) \o write # <<>>
            /\ Head((read \o end) \o write) = "HandleClose"
            /\ Tail((read \o end) \o write) = <<>> \o write
        BY <1>2, <2>2, <3>1, HeadTailConcat
      <3>3. <<>> \o write = <<"HandleWrite">>
        BY <1>2, <2>6, EmptyConcat
      <3>. QED  BY <1>5, <2>4, <3>2, <3>3, <1>1, <1>2, OneCall
    <2>. QED  BY <2>3, <2>5, <2>6
  <1>. QED  BY <1>4, <1>5

\* The calls that follow when all is written.
LEMMA WhenWrittenAllType ==
    /\ WhenWrittenAll \in Seq(Calls) /\ Quiet(WhenWrittenAll)
    /\ <<>> \in Seq(Calls) /\ Quiet(<<>>)
  <1>1. CASE writeCompleteCallback_
    <2>1. WhenWrittenAll = <<"callback">> \o <<"wroteAll">>
      BY <1>1 DEF WhenWrittenAll
    <2>. QED  BY <2>1, OneCall, QuietConcat
  <1>2. CASE ~writeCompleteCallback_
    <2>1. WhenWrittenAll = <<>> \o <<"wroteAll">>
      BY <1>2 DEF WhenWrittenAll
    <2>. QED  BY <2>1, OneCall, EmptyConcat
  <1>. QED  BY <1>1, <1>2, OneCall

\* What a thread passes to Send().
LEMMA BytesType ==
    ASSUME NEW n \in Nat, NEW length \in Lengths
    PROVE  Bytes(n, length) \in Data
  <1>1. length \in Nat /\ \A i \in 1 .. length : <<n, i>> \in Seq(Nat)
    OBVIOUS
  <1>. QED  BY <1>1 DEF Bytes, Data

\* The types after a send.
LEMMA SendQueues ==
    ASSUME TypeOK, StreamInOrder, BufferWatched, NEW data \in Data,
           NEW below \in Seq(Calls),
           SendInLoop(data, below),
           UNCHANGED <<state_, writeCompleteCallback_>>
    PROVE  /\ outputBuffer_' \in Data /\ wire' \in Data /\ accepted' \in Data
           /\ writing' \in BOOLEAN /\ told' \in Nat
           /\ pendingFunctors_' \in Seq(FunctorType)
           /\ frames' \in Seq(Calls)
           /\ Quiet(below) => Quiet(frames')
  <1>1. /\ outputBuffer_' \in Data /\ wire' \in Data /\ accepted' \in Data
        /\ writing' \in BOOLEAN /\ told' \in Nat
        /\ \/ pendingFunctors_' = pendingFunctors_
           \/ pendingFunctors_' =
                  Append(pendingFunctors_,
                         Functor("highWaterMarkCallback_", <<>>))
        /\ frames' = below \/ frames' = <<"callback">> \o below
    BY SendKeepsOrder
  <1>2. /\ <<"callback">> \o below \in Seq(Calls)
        /\ Quiet(below) => Quiet(<<"callback">> \o below)
    BY OneCall, QuietConcat
  <1>3. /\ Append(pendingFunctors_, Functor("highWaterMarkCallback_", <<>>))
               \in Seq(FunctorType)
        /\ pendingFunctors_ \in Seq(FunctorType)
    <2>1. "highWaterMarkCallback_" \in Ops /\ <<>> \in Data
      BY DEF Ops, Data
    <2>2. pendingFunctors_ \in Seq(FunctorType)
      BY DEF TypeOK, FunctorType
    <2>. QED  BY <2>1, <2>2, QueuedFunctor
  <1>4. pendingFunctors_' \in Seq(FunctorType)
    BY <1>1, <1>3
  <1>5. frames' \in Seq(Calls) /\ (Quiet(below) => Quiet(frames'))
    BY <1>1, <1>2
  <1>. QED  BY <1>1, <1>4, <1>5

-----------------------------------------------------------------------------
(* The inductive invariant *)

\* The server is asked to remove a connection that is closed, and only then
\* queues the functor.
ClosedInOrder ==
    /\ removal # "no" => Closed
    /\ Waits("ConnectionDestroyed", Queue) => removal # "no"

\* Unless the peer has reset the connection, HandleClose() is called when it
\* is not closed: directly from HandleEvent(), with no other call below it
\* that could close the connection.
ClosesOnce ==
    ~reset =>
        \/ Quiet(frames)
        \/ /\ frames # <<>> /\ Head(frames) = "HandleClose"
           /\ Quiet(Tail(frames))
           /\ ~Closed

\* Unless a send is late, none is queued behind the functor that removes the
\* connection.
SendsFirst ==
    ~late => /\ ~Overtaken(Queue)
             /\ removal = "done" => ~Waits("SendInLoop", Queue)

Inv == TypeOK /\ StreamInOrder /\ BufferWatched /\ ClosedInOrder

\* The invariant holds initially.
LEMMA InitInv == Init => Inv /\ ClosesOnce /\ SendsFirst /\ AbortsExplained
  <1>. SUFFICES ASSUME Init
                PROVE  Inv /\ ClosesOnce /\ SendsFirst /\ AbortsExplained
    OBVIOUS
  <1>1. TypeOK
    <2>1. sending \in [Users -> Data] /\ \A u \in Users : sending[u] = <<>>
      BY DEF Init, Data
    <2>2. /\ outputBuffer_ \in Data /\ wire \in Data /\ accepted \in Data
          /\ functors \in Seq([op : Ops, data : Data])
          /\ pendingFunctors_ \in Seq([op : Ops, data : Data])
          /\ frames \in Seq(Calls)
      BY DEF Init, Data
    <2>3. /\ functors = <<>> /\ holders = Users
          /\ sends \in 0 .. MaxSends /\ told \in Nat /\ aborted = {}
      BY DEF Init
    <2>. QED  BY <2>1, <2>2, <2>3 DEF Init, TypeOK, Calls
  <1>2. StreamInOrder
    BY DEF Init, StreamInOrder
  <1>3. BufferWatched
    BY DEF Init, BufferWatched, InterestFollowsOutput, HighWaterToldOnce
  <1>4. Queue = <<>>
    BY DEF Init, Queue
  <1>5. ~Overtaken(Queue) /\ \A op : ~Waits(op, Queue)
    BY <1>4 DEF Overtaken, Waits
  <1>6. ClosedInOrder /\ SendsFirst
    BY <1>5 DEF Init, ClosedInOrder, SendsFirst
  <1>7. ClosesOnce
    BY OneCall DEF Init, ClosesOnce
  <1>8. AbortsExplained
    <2>1. aborted = {}
      BY DEF Init
    <2>. QED  BY <2>1 DEF AbortsExplained
  <1>. QED  BY <1>1, <1>2, <1>3, <1>6, <1>7, <1>8 DEF Inv

\* HandleWrite() moves the first bytes of the buffer to the socket.
LEMMA WriteKeepsOrder ==
    ASSUME TypeOK, StreamInOrder, BufferWatched, HandleWriteSome
    PROVE  /\ outputBuffer_' \in Data /\ wire' \in Data
           /\ writing' \in BOOLEAN /\ told' \in Nat
           /\ frames' \in Seq(Calls)
           /\ Quiet(Tail(frames)) => Quiet(frames')
           /\ StreamInOrder' /\ BufferWatched'
  <1>1. PICK n \in 1 .. Len(outputBuffer_) :
            /\ wire' = wire \o SubSeq(outputBuffer_, 1, n)
            /\ outputBuffer_' =
                   SubSeq(outputBuffer_, n + 1, Len(outputBuffer_))
            /\ told' = IF Len(outputBuffer_') < HighWaterMark THEN 0 ELSE told
            /\ writing' = (n < Len(outputBuffer_))
            /\ ReturnAnd(IF n = Len(outputBuffer_) THEN WhenWrittenAll
                                                   ELSE <<>>)
    BY DEF HandleWriteSome
  <1>2. /\ UNCHANGED <<accepted, state_, writeCompleteCallback_>>
        /\ frames # <<>> /\ writing = TRUE
    BY DEF HandleWriteSome, Runs, connVars, TypeOK
  <1>. DEFINE first == SubSeq(outputBuffer_, 1, n)
              rest == SubSeq(outputBuffer_, n + 1, Len(outputBuffer_))
  <1>3. /\ wire \in Seq(Seq(Nat)) /\ outputBuffer_ \in Seq(Seq(Nat))
        /\ n \in 0 .. Len(outputBuffer_) /\ Len(outputBuffer_) \in Nat
        /\ n \in Nat \ {0} /\ n <= Len(outputBuffer_)
        /\ wire \o outputBuffer_ = accepted /\ told \in Nat
    <2>1. /\ wire \in Seq(Seq(Nat)) /\ outputBuffer_ \in Seq(Seq(Nat))
          /\ told \in Nat
      BY DEF TypeOK, Data
    <2>2. Len(outputBuffer_) \in Nat
      BY <2>1
    <2>3. n \in 0 .. Len(outputBuffer_) /\ n \in Nat \ {0}
      BY <2>2
    <2>. QED  BY <2>1, <2>2, <2>3 DEF StreamInOrder
  <1>4. /\ first \in Seq(Seq(Nat)) /\ rest \in Seq(Seq(Nat))
        /\ Len(rest) = Len(outputBuffer_) - n /\ first \o rest = outputBuffer_
    BY <1>3, SplitAt
  <1>5. wire' = wire \o first /\ outputBuffer_' = rest
    BY <1>1
  <1>. HIDE DEF first, rest
  <1>6. wire' \in Data /\ outputBuffer_' \in Data
    BY <1>3, <1>4, <1>5, ConcatProperties DEF Data
  <1>7. StreamInOrder'
    <2>. DEFINE Byte == Seq(Nat)
    <2>1. wire \in Seq(Byte) /\ first \in Seq(Byte) /\ rest \in Seq(Byte)
      BY <1>3, <1>4
    <2>. HIDE DEF Byte
    <2>2. (wire \o first) \o rest = wire \o (first \o rest)
      BY <2>1
    <2>. QED  BY <1>2, <1>3, <1>4, <1>5, <2>2 DEF StreamInOrder
  <1>8. /\ Len(outputBuffer_') \in Nat
        /\ Len(outputBuffer_') = Len(outputBuffer_) - n
        /\ Len(outputBuffer_') <= Len(outputBuffer_)
    BY <1>3, <1>4, <1>5
  <1>9. told' \in Nat /\ writing' \in BOOLEAN
    BY <1>1, <1>3
  <1>10. HighWaterToldOnce'
    BY SMTT(30), <1>1, <1>3, <1>8 DEF BufferWatched, HighWaterToldOnce
  <1>11. InterestFollowsOutput'
    <2>1. outputBuffer_' # <<>> => Len(outputBuffer_') > 0
      BY <1>4, <1>5, EmptySeq
    <2>2. Len(outputBuffer_') > 0 => outputBuffer_' # <<>>
      BY EmptySeq
    <2>3. writing' = (n < Len(outputBuffer_))
      BY <1>1
    <2>4. n < Len(outputBuffer_) <=> Len(outputBuffer_') > 0
      BY <1>3, <1>8
    <2>. QED  BY <2>1, <2>2, <2>3, <2>4 DEF InterestFollowsOutput
  <1>12. /\ frames' \in Seq(Calls)
         /\ Quiet(Tail(frames)) => Quiet(frames')
    <2>1. frames \in Seq(Calls)
      BY DEF TypeOK, Calls
    <2>2. Tail(frames) \in Seq(Calls)
      BY <1>2, <2>1, QuietConcat
    <2>3. CASE n = Len(outputBuffer_)
      <3>1. frames' = WhenWrittenAll \o Tail(frames)
        BY <1>1, <2>3 DEF ReturnAnd
      <3>. QED  BY <2>2, <3>1, WhenWrittenAllType, QuietConcat
    <2>4. CASE n # Len(outputBuffer_)
      <3>1. frames' = <<>> \o Tail(frames)
        BY <1>1, <2>4 DEF ReturnAnd
      <3>. QED  BY <2>2, <3>1, EmptyConcat
    <2>. QED  BY <2>3, <2>4
  <1>. QED  BY <1>6, <1>7, <1>9, <1>10, <1>11, <1>12 DEF BufferWatched

\* Every step keeps the types.
LEMMA StepType ==
    ASSUME TypeOK, StreamInOrder, BufferWatched, [Next]_vars
    PROVE  TypeOK'
  <1>. USE DEF InLoop, Runs, RunsFunctor, ReturnAnd, Abort, bufferVars,
           connVars, loopVars, userVars
  <1>1. ASSUME frames # <<>>
        PROVE  /\ Tail(frames) \in Seq(Calls)
               /\ \A calls \in Seq(Calls) :
                      calls \o Tail(frames) \in Seq(Calls)
    <2>1. frames \in Seq(Calls)
      BY DEF TypeOK, Calls
    <2>. QED  BY <1>1, <2>1, QuietConcat
  <1>2. ASSUME UNCHANGED vars
        PROVE  TypeOK'
    BY ZenonT(60), <1>2 DEF TypeOK, vars
  <1>3. ASSUME NEW in \in {"none", "data", "eof"}, NEW out \in BOOLEAN,
               Poll(in, out)
        PROVE  TypeOK'
    <2>1. frames' \in Seq(Calls) /\ phase' = "handle"
      BY <1>3, EventCallsType DEF Poll
    <2>2. functors = <<>>
      BY <1>3 DEF Poll, TypeOK
    <2>. QED  BY <1>3, <2>1, <2>2 DEF Poll, TypeOK, Calls
  <1>4. ASSUME HandleClose
        PROVE  TypeOK'
    <2>1. CASE state_ \in {"kConnected", "kDisconnecting"}
      <3>1. frames' \in Seq(Calls)
        BY <1>1, <1>4, <2>1, OneCall DEF HandleClose
      <3>. QED  BY <1>4, <2>1, <3>1 DEF HandleClose, TypeOK, Calls
    <2>2. CASE state_ \notin {"kConnected", "kDisconnecting"}
      BY ZenonT(60), <1>4, <2>2 DEF HandleClose, TypeOK
    <2>. QED  BY <2>1, <2>2
  <1>5. ASSUME HandleWriteNothing
        PROVE  TypeOK'
    BY <1>5, OneCall DEF HandleWriteNothing, TypeOK, Calls
  <1>6. ASSUME HandleWriteSome
        PROVE  TypeOK'
    <2>1. UNCHANGED <<accepted, connVars, loopVars, pendingFunctors_, userVars,
                      writeCompleteCallback_, reset, aborted>>
      BY <1>6 DEF HandleWriteSome
    <2>2. /\ outputBuffer_' \in Data /\ wire' \in Data
          /\ writing' \in BOOLEAN /\ told' \in Nat /\ frames' \in Seq(Calls)
      BY <1>6, WriteKeepsOrder
    <2>. QED  BY ZenonT(60), <2>1, <2>2 DEF TypeOK, Calls
  <1>7. ASSUME WroteAll
        PROVE  TypeOK'
    BY <1>7, OneCall DEF WroteAll, ShutdownInLoop, TypeOK, Calls
  <1>8. ASSUME NEW length \in Lengths, CallbackSends(length)
        PROVE  TypeOK'
    <2>1. /\ frames \in Seq(Calls) /\ sends \in Nat /\ sends' = sends + 1
          /\ sends' \in 0 .. MaxSends
      BY <1>8 DEF CallbackSends, TypeOK, Calls
    <2>2. SendInLoop(Bytes(sends', length), frames)
      BY <1>8 DEF CallbackSends
    <2>3. Bytes(sends', length) \in Data
      BY <2>1, BytesType
    <2>4. UNCHANGED <<connVars, loopVars, holders, sending, late,
                      writeCompleteCallback_, reset, aborted>>
      BY <1>8 DEF CallbackSends
    <2>5. <<"callback">> \o frames \in Seq(Calls)
      BY <2>1, OneCall, QuietConcat
    <2>6. /\ outputBuffer_' \in Data /\ wire' \in Data /\ accepted' \in Data
          /\ writing' \in BOOLEAN /\ told' \in Nat
          /\ pendingFunctors_' \in Seq(FunctorType)
          /\ frames' \in Seq(Calls)
      BY <2>1, <2>2, <2>3, <2>4, <2>5, SendQueues
    <2>. QED  BY ZenonT(60), <2>1, <2>4, <2>6 DEF TypeOK, Calls, FunctorType
  <1>9. ASSUME CallbackSendFails
        PROVE  TypeOK'
    BY <1>9 DEF CallbackSendFails, TypeOK
  <1>10. ASSUME CallbackShutsDown
        PROVE  TypeOK'
    BY <1>10 DEF CallbackShutsDown, ShutdownInLoop, TypeOK
  <1>11. ASSUME CallbackForceCloses
        PROVE  TypeOK'
    BY <1>11 DEF CallbackForceCloses, TypeOK
  <1>12. ASSUME CallbackReturns
        PROVE  TypeOK'
    BY <1>12, OneCall DEF CallbackReturns, TypeOK, Calls
  <1>13. ASSUME Swap
        PROVE  TypeOK'
    BY <1>13 DEF Swap, TypeOK
  <1>14. ASSUME RunSendInLoop
        PROVE  TypeOK'
    <2>1. /\ functors # <<>> /\ functors' = Tail(functors) /\ phase = "run"
          /\ SendInLoop(Head(functors).data, <<>>)
          /\ UNCHANGED <<connVars, phase, ran, userVars,
                         writeCompleteCallback_, reset, aborted>>
      BY <1>14 DEF RunSendInLoop
    <2>2. /\ Head(functors) \in FunctorType
          /\ Tail(functors) \in Seq(FunctorType)
      BY <2>1, QueueTail
    <2>3. Head(functors).data \in Data
      BY <2>2 DEF FunctorType
    <2>4. <<"callback">> \o <<>> \in Seq(Calls) /\ <<>> \in Seq(Calls)
      BY OneCall, QuietConcat
    <2>5. /\ outputBuffer_' \in Data /\ wire' \in Data /\ accepted' \in Data
          /\ writing' \in BOOLEAN /\ told' \in Nat
          /\ pendingFunctors_' \in Seq(FunctorType)
          /\ frames' \in Seq(Calls)
      BY <2>1, <2>3, <2>4, SendQueues
    <2>. QED  BY <2>1, <2>2, <2>5 DEF TypeOK, Calls, FunctorType
  <1>15. ASSUME RunSendInLoopFails
        PROVE  TypeOK'
    BY ZenonT(60), <1>15 DEF RunSendInLoopFails, TypeOK
  <1>16. ASSUME RunShutdownInLoop
        PROVE  TypeOK'
    BY <1>16 DEF RunShutdownInLoop, ShutdownInLoop, TypeOK
  <1>17. ASSUME RunHighWaterMarkCallback
        PROVE  TypeOK'
    BY <1>17, OneCall DEF RunHighWaterMarkCallback, TypeOK, Calls
  <1>18. ASSUME RunConnectionDestroyed
        PROVE  TypeOK'
    <2>1. Tail(functors) \in Seq(FunctorType)
      BY <1>18, QueueTail DEF RunConnectionDestroyed
    <2>. QED  BY <1>18, <2>1, OneCall DEF RunConnectionDestroyed, TypeOK,
                 Calls, FunctorType
  <1>19. ASSUME EndIteration
        PROVE  TypeOK'
    BY <1>19 DEF EndIteration, TypeOK
  <1>20. ASSUME NEW u \in Users, NEW length \in Lengths,
                UserSendTests(u, length)
        PROVE  TypeOK'
    BY <1>20, BytesType DEF UserSendTests, TypeOK
  <1>21. ASSUME NEW u \in Users, UserSendQueues(u)
        PROVE  TypeOK'
    <2>1. sending[u] \in Data /\ "SendInLoop" \in Ops
      BY DEF TypeOK, Ops
    <2>2. pendingFunctors_' \in Seq(FunctorType)
      BY <1>21, <2>1, QueuedFunctor DEF UserSendQueues
    <2>3. sending' = [sending EXCEPT ![u] = <<>>] /\ <<>> \in Data
      BY <1>21 DEF UserSendQueues, Data
    <2>4. /\ sending' \in [Users -> Data]
          /\ \A v \in Users : sending'[v] # <<>> => v \in holders
      BY <2>3 DEF TypeOK
    <2>5. late' \in BOOLEAN
      BY <1>21 DEF UserSendQueues, TypeOK
    <2>. QED  BY <1>21, <2>2, <2>4, <2>5 DEF UserSendQueues, TypeOK,
                 FunctorType
  <1>22. ASSUME NEW u \in Users, UserShutsDown(u)
        PROVE  TypeOK'
    <2>1. "ShutdownInLoop" \in Ops /\ <<>> \in Data
      BY DEF Ops, Data
    <2>2. pendingFunctors_' \in Seq(FunctorType)
      BY <1>22, <2>1, QueuedFunctor DEF UserShutsDown
    <2>. QED  BY <1>22, <2>2 DEF UserShutsDown, TypeOK, FunctorType
  <1>23. ASSUME NEW u \in Users, UserDrops(u)
        PROVE  TypeOK'
    BY <1>23 DEF UserDrops, TypeOK
  <1>24. ASSUME ServerRemoves
        PROVE  TypeOK'
    <2>1. "ConnectionDestroyed" \in Ops /\ <<>> \in Data
      BY DEF Ops, Data
    <2>2. pendingFunctors_' \in Seq(FunctorType)
      BY <1>24, <2>1, QueuedFunctor DEF ServerRemoves
    <2>. QED  BY <1>24, <2>2 DEF ServerRemoves, TypeOK, FunctorType
  <1>25. ASSUME PeerResets
        PROVE  TypeOK'
    BY <1>25 DEF PeerResets, TypeOK
  <1>. QED
    BY <1>2, <1>3, <1>4, <1>5, <1>6, <1>7, <1>8, <1>9, <1>10, <1>11,
       <1>12, <1>13, <1>14, <1>15, <1>16, <1>17, <1>18, <1>19, <1>20, <1>21,
       <1>22, <1>23, <1>24, <1>25
    DEF Next, Polls, Handler, Callback, RunFunctor, User

\* A step that sends or writes nothing, and closes the connection or leaves
\* the write interest alone.
LEMMA OutputLeft ==
    ASSUME StreamInOrder, BufferWatched,
           UNCHANGED <<outputBuffer_, wire, accepted, told,
                       writeCompleteCallback_>>,
           Closed' \/ (~Closed /\ UNCHANGED writing)
    PROVE  StreamInOrder' /\ BufferWatched'
  BY DEF StreamInOrder, BufferWatched, InterestFollowsOutput, HighWaterToldOnce

\* Every step keeps the stream in order and its buffer watched.
LEMMA StepOutput ==
    ASSUME Inv, [Next]_vars
    PROVE  StreamInOrder' /\ BufferWatched'
  <1>. USE DEF bufferVars, connVars
  <1>1. TypeOK /\ StreamInOrder /\ BufferWatched /\ ClosedInOrder
    BY DEF Inv
  <1>2. CASE /\ UNCHANGED <<bufferVars, writeCompleteCallback_>>
             /\ Closed => Closed'
    BY <1>1, <1>2, OutputLeft
  <1>3. CASE /\ UNCHANGED <<outputBuffer_, wire, accepted, told,
                            writeCompleteCallback_>>
             /\ Closed'
    BY <1>1, <1>3, OutputLeft
  <1>4. CASE HandleWriteSome
    BY <1>1, <1>4, WriteKeepsOrder
  <1>5. ASSUME NEW length \in Lengths, CallbackSends(length)
        PROVE  StreamInOrder' /\ BufferWatched'
    <2>1. /\ sends' = sends + 1 /\ SendInLoop(Bytes(sends', length), frames)
          /\ UNCHANGED <<state_, writeCompleteCallback_>>
      BY <1>5 DEF CallbackSends
    <2>2. Bytes(sends', length) \in Data
      <3>1. sends \in 0 .. MaxSends
        BY <1>1 DEF TypeOK
      <3>2. sends' \in Nat
        BY <2>1, <3>1
      <3>. QED  BY <3>2, BytesType
    <2>. QED  BY <1>1, <2>1, <2>2, SendKeepsOrder
  <1>6. CASE RunSendInLoop
    <2>1. /\ functors # <<>> /\ SendInLoop(Head(functors).data, <<>>)
          /\ UNCHANGED <<state_, writeCompleteCallback_>>
      BY <1>6 DEF RunSendInLoop, RunsFunctor
    <2>2. Head(functors) \in FunctorType
      BY <1>1, <2>1, QueueTail
    <2>3. Head(functors).data \in Data
      BY <2>2 DEF FunctorType
    <2>. QED  BY <1>1, <2>1, <2>3, SendKeepsOrder
  <1>7. CASE RunConnectionDestroyed
    <2>1. /\ functors # <<>> /\ Head(functors).op = "ConnectionDestroyed"
          /\ UNCHANGED state_
      BY <1>7 DEF RunConnectionDestroyed, RunsFunctor
    <2>2. Waits("ConnectionDestroyed", Queue)
      BY <1>1, <2>1, QueueTail, WaitsTail
    <2>3. Closed'
      BY <1>1, <2>1, <2>2 DEF ClosedInOrder, Closed
    <2>. QED  BY <1>3, <1>7, <2>3 DEF RunConnectionDestroyed
  <1>8. CASE UNCHANGED vars
    BY <1>2, <1>8 DEF vars, Closed
  <1>9. CASE Polls \/ Swap \/ EndIteration \/ CallbackReturns \/ ServerRemoves
             \/ PeerResets
    BY <1>2, <1>9 DEF Polls, Poll, Swap, EndIteration, CallbackReturns,
       ServerRemoves, PeerResets, Closed
  <1>10. CASE Handler
    <2>1. CASE HandleClose
      BY <1>2, <1>3, <2>1 DEF HandleClose, Abort, Closed
    <2>2. CASE HandleWriteNothing \/ WroteAll
      BY <1>2, <2>2 DEF HandleWriteNothing, WroteAll, Closed
    <2>. QED  BY <1>4, <1>10, <2>1, <2>2 DEF Handler
  <1>11. CASE Callback
    <2>1. CASE CallbackSendFails \/ CallbackShutsDown
      BY <1>2, <2>1 DEF CallbackSendFails, CallbackShutsDown, Abort, Closed
    <2>2. CASE CallbackForceCloses
      BY <1>3, <2>2 DEF CallbackForceCloses, Closed
    <2>. QED  BY <1>5, <1>11, <2>1, <2>2 DEF Callback
  <1>12. CASE RunFunctor
    <2>1. CASE RunSendInLoopFails \/ RunShutdownInLoop
               \/ RunHighWaterMarkCallback
      BY <1>2, <2>1 DEF RunSendInLoopFails, RunShutdownInLoop,
         RunHighWaterMarkCallback, Abort, Closed
    <2>. QED  BY <1>6, <1>7, <1>12, <2>1 DEF RunFunctor
  <1>13. CASE \E u \in Users : User(u)
    BY <1>2, <1>13 DEF User, UserSendTests, UserSendQueues, UserShutsDown,
       UserDrops, Closed
  <1>. QED
    BY <1>8, <1>9, <1>10, <1>11, <1>12, <1>13 DEF Next

\* A functor is queued that is neither a send nor the one that removes the
\* connection, or none is.
LEMMA QueueStays ==
    ASSUME TypeOK,
           \/ UNCHANGED <<functors, pendingFunctors_>>
           \/ /\ UNCHANGED functors
              /\ \E op \in {"ShutdownInLoop", "highWaterMarkCallback_"} :
                    pendingFunctors_' =
                        Append(pendingFunctors_, Functor(op, <<>>))
           \/ functors = <<>> /\ functors' = pendingFunctors_
              /\ pendingFunctors_' = <<>>
    PROVE  /\ Waits("ConnectionDestroyed", Queue')
                  => Waits("ConnectionDestroyed", Queue)
           /\ Waits("SendInLoop", Queue') => Waits("SendInLoop", Queue)
           /\ Overtaken(Queue') => Overtaken(Queue)
  <1>1. CASE UNCHANGED <<functors, pendingFunctors_>>
    <2>1. Queue' = Queue
      BY <1>1 DEF Queue
    <2>. QED  BY <2>1
  <1>2. ASSUME UNCHANGED functors,
               NEW op \in {"ShutdownInLoop", "highWaterMarkCallback_"},
               pendingFunctors_' = Append(pendingFunctors_, Functor(op, <<>>))
        PROVE  /\ Waits("ConnectionDestroyed", Queue')
                      => Waits("ConnectionDestroyed", Queue)
               /\ Waits("SendInLoop", Queue') => Waits("SendInLoop", Queue)
               /\ Overtaken(Queue') => Overtaken(Queue)
    <2>1. op \in Ops /\ <<>> \in Data
      BY DEF Ops, Data
    <2>2. /\ Queue' = Append(Queue, Functor(op, <<>>))
          /\ Queue \in Seq(FunctorType)
          /\ Functor(op, <<>>) \in FunctorType /\ Functor(op, <<>>).op = op
      BY <1>2, <2>1, QueueAppend
    <2>. QED  BY <2>2, WaitsAppend
  <1>3. CASE functors = <<>> /\ functors' = pendingFunctors_
             /\ pendingFunctors_' = <<>>
    <2>1. pendingFunctors_ \in Seq(FunctorType)
      BY DEF TypeOK, FunctorType
    <2>2. <<>> \o pendingFunctors_ = pendingFunctors_ \o <<>>
      BY <2>1, EmptyConcat
    <2>3. Queue' = Queue
      BY <1>3, <2>2 DEF Queue
    <2>. QED  BY <2>3
  <1>. QED  BY <1>1, <1>2, <1>3

\* A step that queues no send and no removal, and asks for one only if the
\* connection is closed.
LEMMA OrderLeft ==
    ASSUME TypeOK, ClosedInOrder,
           \/ UNCHANGED <<functors, pendingFunctors_>>
           \/ /\ UNCHANGED functors
              /\ \E op \in {"ShutdownInLoop", "highWaterMarkCallback_"} :
                    pendingFunctors_' =
                        Append(pendingFunctors_, Functor(op, <<>>))
           \/ functors = <<>> /\ functors' = pendingFunctors_
              /\ pendingFunctors_' = <<>>,
           \/ UNCHANGED removal /\ (Closed => Closed')
           \/ removal' = "asked" /\ Closed',
           UNCHANGED late
    PROVE  ClosedInOrder' /\ (SendsFirst => SendsFirst')
  <1>1. /\ Waits("ConnectionDestroyed", Queue)'
               => Waits("ConnectionDestroyed", Queue)
        /\ Waits("SendInLoop", Queue)' => Waits("SendInLoop", Queue)
        /\ Overtaken(Queue)' => Overtaken(Queue)
    BY QueueStays
  <1>. QED  BY <1>1 DEF ClosedInOrder, SendsFirst

\* The next functor is called.  If it is ConnectionDestroyed(), the connection
\* is closed, and no send waits behind it unless one is late.
LEMMA OrderTaken ==
    ASSUME TypeOK, ClosedInOrder, functors # <<>>, functors' = Tail(functors),
           \/ UNCHANGED pendingFunctors_
           \/ pendingFunctors_' =
                  Append(pendingFunctors_,
                         Functor("highWaterMarkCallback_", <<>>)),
           UNCHANGED <<state_, late>>,
           \/ UNCHANGED removal
           \/ Head(functors).op = "ConnectionDestroyed" /\ removal' = "done"
    PROVE  ClosedInOrder' /\ (SendsFirst => SendsFirst')
  <1>1. /\ Queue \in Seq(FunctorType) /\ Queue # <<>>
        /\ Head(Queue) = Head(functors)
        /\ Tail(Queue) = Tail(functors) \o pendingFunctors_
        /\ Tail(functors) \in Seq(FunctorType)
    BY QueueTail
  <1>2. /\ Tail(Queue) \in Seq(FunctorType)
        /\ Waits(Head(Queue).op, Queue)
        /\ \A op : Waits(op, Tail(Queue)) => Waits(op, Queue)
        /\ Overtaken(Tail(Queue)) => Overtaken(Queue)
        /\ Head(Queue).op = "ConnectionDestroyed"
           /\ Waits("SendInLoop", Tail(Queue)) => Overtaken(Queue)
    BY <1>1, WaitsTail
  <1>. DEFINE mark == Functor("highWaterMarkCallback_", <<>>)
  <1>3. /\ mark \in FunctorType /\ mark.op = "highWaterMarkCallback_"
        /\ pendingFunctors_ \in Seq(FunctorType)
    <2>1. "highWaterMarkCallback_" \in Ops /\ <<>> \in Data
      BY DEF Ops, Data
    <2>. QED  BY <2>1, QueuedFunctor DEF TypeOK, FunctorType
  <1>4. Queue' = Tail(Queue) \/ Queue' = Append(Tail(Queue), mark)
    <2>. HIDE DEF mark
    <2>1. Tail(functors) \o Append(pendingFunctors_, mark)
              = Append(Tail(functors) \o pendingFunctors_, mark)
      BY SMTT(30), <1>1, <1>3, AppendConcat
    <2>. QED  BY <1>1, <2>1 DEF Queue, mark
  <1>. HIDE DEF mark
  <1>5. \A op \in {"ConnectionDestroyed", "SendInLoop"} :
            Waits(op, Queue') => Waits(op, Tail(Queue))
    <2>1. \A op : Waits(op, Append(Tail(Queue), mark))
                    => Waits(op, Tail(Queue)) \/ mark.op = op
      BY <1>2, <1>3, WaitsAppend
    <2>. QED  BY <1>3, <1>4, <2>1
  <1>6. Overtaken(Queue') => Overtaken(Tail(Queue))
    <2>1. \/ Overtaken(Tail(Queue))
          \/ Waits("ConnectionDestroyed", Tail(Queue)) /\ mark.op = "SendInLoop"
          \/ ~Overtaken(Append(Tail(Queue), mark))
      BY <1>2, <1>3, WaitsAppend, Zenon
    <2>2. mark.op # "SendInLoop"
      BY <1>3
    <2>. QED  BY <1>4, <2>1, <2>2, Zenon
  <1>7. /\ Waits("ConnectionDestroyed", Queue)'
               => Waits("ConnectionDestroyed", Queue)
        /\ Waits("SendInLoop", Queue)' => Waits("SendInLoop", Tail(Queue))
        /\ Overtaken(Queue)' => Overtaken(Queue)
    BY <1>2, <1>5, <1>6
  <1>8. removal' # removal => removal # "no"
    BY <1>1, <1>2 DEF ClosedInOrder
  <1>9. ClosedInOrder'
    BY <1>7, <1>8 DEF ClosedInOrder, Closed
  <1>10. ASSUME SendsFirst
         PROVE  SendsFirst'
    BY <1>1, <1>2, <1>7, <1>10 DEF SendsFirst
  <1>. QED  BY <1>9, <1>10

\* Every step keeps sends before the removal, and that after the close.
LEMMA StepOrder ==
    ASSUME Inv, [Next]_vars
    PROVE  ClosedInOrder' /\ (SendsFirst => SendsFirst')
  <1>. USE DEF connVars, loopVars, userVars, InLoop, Runs
  <1>1. TypeOK /\ StreamInOrder /\ BufferWatched /\ ClosedInOrder
    BY DEF Inv
  <1>2. CASE UNCHANGED vars
    BY <1>1, <1>2, OrderLeft DEF vars, Closed
  <1>3. CASE Polls \/ Swap \/ EndIteration \/ CallbackReturns \/ PeerResets
    <2>1. CASE Swap
      BY <1>1, <2>1, OrderLeft DEF Swap, TypeOK, Closed
    <2>2. CASE Polls \/ EndIteration \/ CallbackReturns \/ PeerResets
      BY <1>1, <2>2, OrderLeft DEF Polls, Poll, EndIteration,
         CallbackReturns, PeerResets, Closed
    <2>. QED  BY <1>3, <2>1, <2>2
  <1>4. CASE Handler
    BY <1>1, <1>4, OrderLeft DEF Handler, HandleClose, HandleWriteNothing,
       HandleWriteSome, WroteAll, Abort, Closed
  <1>5. ASSUME NEW length \in Lengths, CallbackSends(length)
        PROVE  ClosedInOrder' /\ (SendsFirst => SendsFirst')
    <2>1. /\ sends' = sends + 1 /\ SendInLoop(Bytes(sends', length), frames)
          /\ UNCHANGED <<connVars, loopVars, late, writeCompleteCallback_>>
      BY <1>5 DEF CallbackSends
    <2>2. Bytes(sends', length) \in Data
      <3>1. sends \in 0 .. MaxSends
        BY <1>1 DEF TypeOK
      <3>2. sends' \in Nat
        BY <2>1, <3>1
      <3>. QED  BY <3>2, BytesType
    <2>3. \/ pendingFunctors_' = pendingFunctors_
          \/ pendingFunctors_' =
                 Append(pendingFunctors_,
                        Functor("highWaterMarkCallback_", <<>>))
      BY <1>1, <2>1, <2>2, SendKeepsOrder
    <2>. QED  BY <1>1, <2>1, <2>3, OrderLeft DEF Closed
  <1>6. CASE CallbackSendFails \/ CallbackShutsDown \/ CallbackForceCloses
    BY <1>1, <1>6, OrderLeft DEF CallbackSendFails, CallbackShutsDown,
       CallbackForceCloses, Abort, Closed
  <1>7. CASE RunSendInLoop
    <2>1. /\ functors # <<>> /\ functors' = Tail(functors)
          /\ SendInLoop(Head(functors).data, <<>>)
          /\ UNCHANGED <<state_, removal, late, writeCompleteCallback_>>
      BY <1>7 DEF RunSendInLoop, RunsFunctor
    <2>2. Head(functors).data \in Data
      <3>1. Head(functors) \in FunctorType
        BY <1>1, <2>1, QueueTail
      <3>. QED  BY <3>1 DEF FunctorType
    <2>3. \/ pendingFunctors_' = pendingFunctors_
          \/ pendingFunctors_' =
                 Append(pendingFunctors_,
                        Functor("highWaterMarkCallback_", <<>>))
      BY <1>1, <2>1, <2>2, SendKeepsOrder
    <2>. QED  BY <1>1, <2>1, <2>3, OrderTaken
  <1>8. CASE RunShutdownInLoop \/ RunHighWaterMarkCallback
             \/ RunConnectionDestroyed
    BY <1>1, <1>8, OrderTaken DEF RunShutdownInLoop, RunHighWaterMarkCallback,
       RunConnectionDestroyed, RunsFunctor
  <1>9. CASE RunSendInLoopFails
    BY <1>1, <1>9, OrderLeft DEF RunSendInLoopFails, Abort, Closed
  <1>10. ASSUME NEW u \in Users, UserSendQueues(u)
         PROVE  ClosedInOrder' /\ (SendsFirst => SendsFirst')
    <2>. DEFINE f == Functor("SendInLoop", sending[u])
    <2>1. sending[u] \in Data /\ "SendInLoop" \in Ops
      BY <1>1 DEF TypeOK, Ops
    <2>2. /\ pendingFunctors_' = Append(pendingFunctors_, f)
          /\ late' = (late \/ Closed)
          /\ UNCHANGED <<functors, state_, removal>>
      BY <1>10 DEF UserSendQueues
    <2>3. /\ Queue' = Append(Queue, f) /\ Queue \in Seq(FunctorType)
          /\ f \in FunctorType /\ f.op = "SendInLoop"
      BY <1>1, <2>1, <2>2, QueueAppend
    <2>. HIDE DEF f
    <2>4. /\ \A op : Waits(op, Queue') => Waits(op, Queue) \/ f.op = op
          /\ Overtaken(Queue') => Overtaken(Queue)
                                  \/ Waits("ConnectionDestroyed", Queue)
      BY <2>3, WaitsAppend
    <2>5. /\ Waits("ConnectionDestroyed", Queue)'
                 => Waits("ConnectionDestroyed", Queue)
          /\ Overtaken(Queue)' => Overtaken(Queue)
                                  \/ Waits("ConnectionDestroyed", Queue)
      BY <2>3, <2>4
    <2>6. ClosedInOrder'
      BY <1>1, <2>2, <2>5 DEF ClosedInOrder, Closed
    <2>7. ~late' => ~late /\ ~Closed
      BY <2>2
    <2>8. ASSUME SendsFirst, ~late'
          PROVE  ~Overtaken(Queue)' /\ removal' # "done"
      BY <1>1, <2>2, <2>5, <2>7, <2>8 DEF ClosedInOrder, SendsFirst
    <2>. QED  BY <2>6, <2>8 DEF SendsFirst
  <1>11. ASSUME NEW u \in Users,
                \/ \E length \in Lengths : UserSendTests(u, length)
                \/ UserShutsDown(u)
                \/ UserDrops(u)
         PROVE  ClosedInOrder' /\ (SendsFirst => SendsFirst')
    BY <1>1, <1>11, OrderLeft DEF UserSendTests, UserShutsDown, UserDrops,
       Closed
  <1>12. CASE ServerRemoves
    <2>. DEFINE f == Functor("ConnectionDestroyed", <<>>)
    <2>1. <<>> \in Data /\ "ConnectionDestroyed" \in Ops
      BY DEF Data, Ops
    <2>2. /\ pendingFunctors_' = Append(pendingFunctors_, f)
          /\ removal = "asked" /\ removal' = "queued"
          /\ UNCHANGED <<functors, state_, late>>
      BY <1>12 DEF ServerRemoves
    <2>3. /\ Queue' = Append(Queue, f) /\ Queue \in Seq(FunctorType)
          /\ f \in FunctorType /\ f.op = "ConnectionDestroyed"
      BY <1>1, <2>1, <2>2, QueueAppend
    <2>. HIDE DEF f
    <2>4. Overtaken(Queue') => Overtaken(Queue)
      BY <2>3, WaitsAppend
    <2>5. Overtaken(Queue)' => Overtaken(Queue)
      BY <2>4
    <2>. QED  BY <1>1, <2>2, <2>5 DEF ClosedInOrder, SendsFirst, Closed
  <1>. QED
    BY <1>2, <1>3, <1>4, <1>5, <1>6, <1>7, <1>8, <1>9, <1>10, <1>11, <1>12
    DEF Next, Callback, RunFunctor, User

\* Every step keeps HandleClose() a call of its own.
LEMMA StepCloses ==
    ASSUME Inv, ClosesOnce, [Next]_vars
    PROVE  ClosesOnce'
  <1>. USE DEF connVars, loopVars, userVars, bufferVars, InLoop, Runs,
           ReturnAnd
  <1>1. /\ TypeOK /\ StreamInOrder /\ BufferWatched /\ ClosedInOrder
        /\ frames \in Seq(Calls)
    BY DEF Inv, TypeOK, Calls
  <1>2. CASE /\ reset => reset'
             /\ UNCHANGED frames
             /\ Closed' => Closed \/ Quiet(frames)
    BY <1>2 DEF ClosesOnce
  <1>3. frames # <<>> => /\ Tail(frames) \in Seq(Calls)
                         /\ <<>> \o Tail(frames) = Tail(frames)
    BY <1>1, QuietConcat, EmptyConcat
  <1>4. ~reset /\ frames # <<>> => Quiet(Tail(frames))
    BY <1>1, QuietConcat DEF ClosesOnce
  <1>5. ASSUME ~reset, frames # <<>>, Head(frames) # "HandleClose"
        PROVE  Quiet(frames)
    BY <1>5 DEF ClosesOnce
  <1>6. CASE /\ frames # <<>> /\ frames' = <<>> \o Tail(frames)
             /\ UNCHANGED reset
    BY <1>3, <1>4, <1>6 DEF ClosesOnce
  <1>7. CASE UNCHANGED vars
    BY <1>2, <1>7 DEF vars, Closed
  <1>8. ASSUME NEW in \in {"none", "data", "eof"}, NEW out \in BOOLEAN,
               Poll(in, out)
        PROVE  ClosesOnce'
    BY <1>8, EventCallsType DEF Poll, ClosesOnce, Closed
  <1>9. CASE Handler
    <2>1. CASE HandleClose
      BY <1>2, <1>6, <2>1 DEF HandleClose, Abort, Closed
    <2>2. CASE HandleWriteNothing \/ WroteAll
      BY <1>6, <2>2 DEF HandleWriteNothing, WroteAll
    <2>3. CASE HandleWriteSome
      <3>1. frames # <<>> /\ UNCHANGED reset
        BY <2>3 DEF HandleWriteSome
      <3>2. Quiet(Tail(frames)) => Quiet(frames)'
        BY <1>1, <2>3, WriteKeepsOrder
      <3>. QED  BY <1>4, <3>1, <3>2 DEF ClosesOnce
    <2>. QED  BY <1>9, <2>1, <2>2, <2>3 DEF Handler
  <1>10. ASSUME NEW length \in Lengths, CallbackSends(length)
         PROVE  ClosesOnce'
    <2>1. /\ sends' = sends + 1 /\ SendInLoop(Bytes(sends', length), frames)
          /\ UNCHANGED <<state_, writeCompleteCallback_, reset>>
          /\ frames # <<>> /\ Head(frames) = "callback"
      BY <1>10 DEF CallbackSends
    <2>2. Bytes(sends', length) \in Data
      <3>1. sends \in 0 .. MaxSends
        BY <1>1 DEF TypeOK
      <3>2. sends' \in Nat
        BY <2>1, <3>1
      <3>. QED  BY <3>2, BytesType
    <2>3. Quiet(frames) => Quiet(frames)'
      BY <1>1, <2>1, <2>2, SendQueues
    <2>. QED  BY <1>5, <2>1, <2>3 DEF ClosesOnce
  <1>11. CASE CallbackSendFails \/ CallbackShutsDown \/ CallbackForceCloses
    <2>1. /\ frames # <<>> /\ Head(frames) = "callback"
          /\ UNCHANGED <<frames, reset>>
      BY <1>11 DEF CallbackSendFails, CallbackShutsDown, CallbackForceCloses,
         Abort
    <2>. QED  BY <1>5, <2>1 DEF ClosesOnce
  <1>12. CASE CallbackReturns
    BY <1>6, <1>12 DEF CallbackReturns
  <1>13. CASE Swap \/ EndIteration \/ ServerRemoves \/ PeerResets
    BY <1>2, <1>13 DEF Swap, EndIteration, ServerRemoves, PeerResets, Closed
  <1>14. CASE RunSendInLoop
    <2>1. /\ functors # <<>> /\ SendInLoop(Head(functors).data, <<>>)
          /\ UNCHANGED <<state_, writeCompleteCallback_>>
      BY <1>14 DEF RunSendInLoop, RunsFunctor
    <2>2. Head(functors).data \in Data
      <3>1. Head(functors) \in FunctorType
        BY <1>1, <2>1, QueueTail
      <3>. QED  BY <3>1 DEF FunctorType
    <2>3. Quiet(frames)'
      BY <1>1, <2>1, <2>2, SendQueues, OneCall
    <2>. QED  BY <2>3 DEF ClosesOnce
  <1>15. CASE RunHighWaterMarkCallback \/ RunConnectionDestroyed
    <2>1. Quiet(frames)'
      BY <1>15, OneCall DEF RunHighWaterMarkCallback, RunConnectionDestroyed
    <2>. QED  BY <2>1 DEF ClosesOnce
  <1>16. CASE RunSendInLoopFails \/ RunShutdownInLoop
    BY <1>2, <1>16 DEF RunSendInLoopFails, RunShutdownInLoop, RunsFunctor,
       Abort, Closed
  <1>17. CASE \E u \in Users : User(u)
    BY <1>2, <1>17 DEF User, UserSendTests, UserSendQueues, UserShutsDown,
       UserDrops, Closed
  <1>. QED
    BY <1>7, <1>8, <1>9, <1>10, <1>11, <1>12, <1>13, <1>14, <1>15, <1>16, <1>17
    DEF Next, Polls, Callback, RunFunctor

\* Every step that ends the program has the cause that is stated.
LEMMA StepAborts ==
    ASSUME Inv, ClosesOnce, SendsFirst, AbortsExplained, [Next]_vars
    PROVE  AbortsExplained'
  <1>. USE DEF connVars, loopVars, userVars, bufferVars, InLoop, Runs
  <1>1. TypeOK
    BY DEF Inv
  <1>2. CASE UNCHANGED aborted /\ (reset => reset') /\ (late => late')
    BY <1>2 DEF AbortsExplained
  <1>3. CASE HandleClose
    <2>1. CASE state_ \in {"kConnected", "kDisconnecting"}
      BY <1>2, <1>3, <2>1 DEF HandleClose
    <2>2. CASE state_ \notin {"kConnected", "kDisconnecting"}
      <3>1. aborted' = {"HandleClose"} /\ UNCHANGED reset
        BY <1>3, <2>2 DEF HandleClose, Abort
      <3>2. /\ frames \in Seq(Calls) /\ frames # <<>>
            /\ Head(frames) = "HandleClose"
        BY <1>1, <1>3 DEF HandleClose, TypeOK, Calls
      <3>3. ~Quiet(frames)
        BY <3>2 DEF Quiet
      <3>4. Closed
        BY <1>1, <2>2 DEF TypeOK, Closed
      <3>5. reset
        BY <3>3, <3>4 DEF ClosesOnce
      <3>. QED  BY <3>1, <3>5 DEF AbortsExplained
    <2>. QED  BY <2>1, <2>2
  <1>4. CASE CallbackSendFails \/ RunSendInLoopFails
    <2>1. CASE WriteIsFatal /\ Abort("write")
      BY <2>1 DEF WriteIsFatal, Abort, AbortsExplained
    <2>2. CASE RunSendInLoopFails /\ ~Alive
      <3>1. /\ functors # <<>> /\ Head(functors).op = "SendInLoop"
            /\ removal = "done"
            /\ aborted' = {"freed TcpConnection"} /\ UNCHANGED late
        BY <2>2 DEF RunSendInLoopFails, Alive, Abort
      <3>2. Waits("SendInLoop", Queue)
        BY ZenonT(60), <1>1, <3>1, QueueTail, WaitsTail
      <3>. QED  BY <3>1, <3>2 DEF SendsFirst, AbortsExplained
    <2>. QED  BY <1>4, <2>1, <2>2 DEF CallbackSendFails, RunSendInLoopFails
  <1>5. CASE UNCHANGED vars
    BY <1>2, <1>5 DEF vars
  <1>6. CASE Polls \/ Swap \/ EndIteration \/ CallbackReturns \/ ServerRemoves
             \/ PeerResets
    BY <1>2, <1>6 DEF Polls, Poll, Swap, EndIteration, CallbackReturns,
       ServerRemoves, PeerResets
  <1>7. CASE HandleWriteNothing \/ HandleWriteSome \/ WroteAll
    BY <1>2, <1>7 DEF HandleWriteNothing, HandleWriteSome, WroteAll
  <1>8. CASE \/ \E length \in Lengths : CallbackSends(length)
             \/ CallbackShutsDown \/ CallbackForceCloses
    BY <1>2, <1>8 DEF CallbackSends, CallbackShutsDown, CallbackForceCloses
  <1>9. CASE RunSendInLoop \/ RunShutdownInLoop \/ RunHighWaterMarkCallback
             \/ RunConnectionDestroyed
    BY <1>2, <1>9 DEF RunSendInLoop, RunShutdownInLoop,
       RunHighWaterMarkCallback, RunConnectionDestroyed
  <1>10. CASE \E u \in Users : User(u)
    <2>1. PICK u \in Users : User(u)
      BY <1>10
    <2>2. CASE UserSendQueues(u)
      BY <1>2, <2>2 DEF UserSendQueues
    <2>3. CASE ~UserSendQueues(u)
      BY <1>2, <2>1, <2>3 DEF User, UserSendTests, UserShutsDown, UserDrops
    <2>. QED  BY <2>2, <2>3
  <1>. QED
    BY <1>3, <1>4, <1>5, <1>6, <1>7, <1>8, <1>9, <1>10
    DEF Next, Handler, Callback, RunFunctor

-----------------------------------------------------------------------------
(* The theorems *)

\* The invariant holds in every reachable state.
LEMMA Invariant ==
    Spec => [](Inv /\ ClosesOnce /\ SendsFirst /\ AbortsExplained)
  <1>. DEFINE IInv == Inv /\ ClosesOnce /\ SendsFirst /\ AbortsExplained
  <1>1. Init => IInv
    BY InitInv
  <1>2. IInv /\ [Next]_vars => IInv'
    <2>. SUFFICES ASSUME Inv, ClosesOnce, SendsFirst, AbortsExplained,
                         [Next]_vars
                  PROVE  Inv' /\ ClosesOnce' /\ SendsFirst' /\ AbortsExplained'
      OBVIOUS
    <2>1. TypeOK'
      BY StepType DEF Inv
    <2>2. Inv' /\ SendsFirst'
      BY <2>1, StepOutput, StepOrder DEF Inv
    <2>. QED  BY <2>2, StepCloses, StepAborts
  <1>. QED  BY <1>1, <1>2, PTL DEF Spec

\* TypeOK holds in every reachable state: threads inside Send() have the
\* connection, and a batch of functors is called to its end.
THEOREM TypeCorrect == Spec => []TypeOK
  <1>1. Inv => TypeOK
    BY DEF Inv
  <1>. QED  BY <1>1, Invariant, PTL

\* What SendInLoop accepts is written in its order, without loss or repetition:
\* what the socket has and what the buffer keeps make up what was accepted.
THEOREM BytesInOrder == Spec => []StreamInOrder
  <1>1. Inv => StreamInOrder
    BY DEF Inv
  <1>. QED  BY <1>1, Invariant, PTL

\* Output that waits in the buffer of an open connection is asked for, and the
\* high water mark is told once each time the buffer reaches it.
THEOREM BufferIsWatched == Spec => []BufferWatched
  <1>1. Inv => BufferWatched
    BY DEF Inv
  <1>. QED  BY <1>1, Invariant, PTL

\* The program dies in HandleClose() or write() only after a reset, and uses a
\* freed connection only if a send was queued after the close.
THEOREM OnlyLateSendsDangle == Spec => []AbortsExplained
  BY Invariant, PTL

-----------------------------------------------------------------------------
(***************************************************************************)
(* The buffers: bytes come out in the order in which they went in, whether *)
(* the vector had room, its bytes were moved, or it grew.  Where memcpy()  *)
(* gets bytes that overlap, the theorems speak of the outcome in which     *)
(* they arrive as intended.                                                *)
(***************************************************************************)

(* The states in which no assertion of an operation can fail, over the     *)
(* bytes of S.                                                             *)
Buffers(S) ==
    {b \in [buffer_ : Seq(S), readIndex_ : Nat, writeIndex_ : Nat] :
        /\ kInitPrependSize <= b.readIndex_
        /\ b.readIndex_ <= b.writeIndex_
        /\ b.writeIndex_ <= Len(b.buffer_)}

-----------------------------------------------------------------------------
\* A function on the first m numbers is a sequence of length m.
LEMMA FunctionIsSeq ==
    ASSUME NEW S, NEW m \in Nat, NEW f \in [1 .. m -> S]
    PROVE  f \in Seq(S) /\ Len(f) = m
  OBVIOUS

\* What a buffer of Buffers(S) is made of.
LEMMA BufferParts ==
    ASSUME NEW S, NEW b \in Buffers(S)
    PROVE  /\ b = [buffer_ |-> b.buffer_, readIndex_ |-> b.readIndex_,
                   writeIndex_ |-> b.writeIndex_]
           /\ b.buffer_ \in Seq(S) /\ Len(b.buffer_) \in Nat
           /\ b.readIndex_ \in Nat /\ b.writeIndex_ \in Nat
           /\ kInitPrependSize \in Nat
           /\ kInitPrependSize <= b.readIndex_
           /\ b.readIndex_ <= b.writeIndex_
           /\ b.writeIndex_ <= Len(b.buffer_)
  BY BufferAssumption DEF Buffers

\* The bytes of a buffer that have been written and not been read.
LEMMA ReadableBytesOf ==
    ASSUME NEW S, NEW b \in Buffers(S)
    PROVE  /\ Readable(b) \in Seq(S)
           /\ Len(Readable(b)) = b.writeIndex_ - b.readIndex_
           /\ \A i \in 1 .. b.writeIndex_ - b.readIndex_ :
                 Readable(b)[i] = b.buffer_[b.readIndex_ + i]
  <1>1. b.writeIndex_ - b.readIndex_ \in Nat
    BY BufferParts
  <1>2. \A i \in 1 .. b.writeIndex_ - b.readIndex_ :
            b.buffer_[b.readIndex_ + i] \in S
    <2>1. TAKE i \in 1 .. b.writeIndex_ - b.readIndex_
    <2>2. b.readIndex_ + i \in 1 .. Len(b.buffer_)
      BY BufferParts
    <2> QED
      BY <2>2, BufferParts, ElementOfSeq
  <1> QED
    BY <1>1, <1>2, IsASeq DEF Readable, ReadableBytes

\* A copy leaves the length of the vector and what is outside its target.
LEMMA CopiedVector ==
    ASSUME NEW S, NEW v \in Seq(S), NEW s \in Seq(S), NEW at \in Nat,
           at + Len(s) <= Len(v)
    PROVE  /\ Copied(v, at, s) \in Seq(S)
           /\ Len(Copied(v, at, s)) = Len(v)
           /\ \A i \in 1 .. Len(v) :
                 Copied(v, at, s)[i] = IF i \in at + 1 .. at + Len(s)
                                       THEN s[i - at] ELSE v[i]
  <1>1. Len(v) \in Nat /\ Len(s) \in Nat
    OBVIOUS
  <1>2. \A i \in 1 .. Len(v) :
            (IF i \in at + 1 .. at + Len(s) THEN s[i - at] ELSE v[i]) \in S
    <2>1. TAKE i \in 1 .. Len(v)
    <2>2. CASE i \in at + 1 .. at + Len(s)
      <3>1. i - at \in 1 .. Len(s)
        BY <1>1, <2>2
      <3> QED
        BY <2>2, <3>1, ElementOfSeq
    <2>3. CASE i \notin at + 1 .. at + Len(s)
      BY <2>3, ElementOfSeq
    <2> QED
      BY <2>2, <2>3
  <1> QED
    BY <1>1, <1>2, IsASeq DEF Copied

-----------------------------------------------------------------------------
\* Two buffers with the same bytes between their indices hold the same.
LEMMA SameReadable ==
    ASSUME NEW S, NEW b \in Buffers(S), NEW c \in Buffers(S),
           c.writeIndex_ - c.readIndex_ = b.writeIndex_ - b.readIndex_,
           \A i \in 1 .. b.writeIndex_ - b.readIndex_ :
               c.buffer_[c.readIndex_ + i] = b.buffer_[b.readIndex_ + i]
    PROVE  Readable(c) = Readable(b)
  BY DEF Readable, ReadableBytes

\* CheckAndMakePlace finds or makes the room it was asked for, with its
\* assertions holding, and the buffer holds what it held before
\* (Buffer.cc CheckAndMakePlace).
THEOREM PlaceIsMade ==
    ASSUME NEW S, Unset \in S, NEW b \in Buffers(S), NEW len \in Nat
    PROVE  /\ CheckAndMakePlace(b, len) \in Buffers(S)
           /\ Readable(CheckAndMakePlace(b, len)) = Readable(b)
           /\ Fits(b, len)
           /\ MovedFromBehind(b, len)
  <1>. DEFINE c == CheckAndMakePlace(b, len)
              n == b.writeIndex_ - b.readIndex_
              k == kInitPrependSize
  <1>. USE BufferParts
  <1>0. /\ WritableBytes(b) = Len(b.buffer_) - b.writeIndex_
        /\ PrependableBytes(b) = b.readIndex_
        /\ Fits(b, len) <=> Len(c.buffer_) - c.writeIndex_ >= len
        /\ n \in Nat
    BY DEF WritableBytes, PrependableBytes, Fits
  <1>1. CASE WritableBytes(b) >= len
    <2>1. c = b /\ ~Moves(b, len)
      BY <1>0, <1>1 DEF CheckAndMakePlace, Moves
    <2> QED
      BY <1>0, <1>1, <2>1 DEF MovedFromBehind
  <1>2. CASE Moves(b, len)
    <2>1. /\ ~(WritableBytes(b) >= len)
          /\ Len(b.buffer_) - b.writeIndex_ + b.readIndex_ >= len + k
      BY <1>0, <1>2 DEF Moves, Grows
    <2>2. k < b.readIndex_ /\ k + n <= Len(b.buffer_)
      BY <1>0, <2>1
    <2>3. /\ c.buffer_ = Copied(b.buffer_, k, Readable(b))
          /\ c.readIndex_ = k
          /\ c.writeIndex_ = k + n
          /\ c = [buffer_ |-> Copied(b.buffer_, k, Readable(b)),
                  readIndex_ |-> k, writeIndex_ |-> k + n]
      BY <1>2, <2>1 DEF CheckAndMakePlace, ReadableBytes
    <2>4. /\ c.buffer_ \in Seq(S)
          /\ Len(c.buffer_) = Len(b.buffer_)
          /\ \A i \in 1 .. Len(b.buffer_) :
                c.buffer_[i] = IF i \in k + 1 .. k + n
                               THEN Readable(b)[i - k] ELSE b.buffer_[i]
      BY SMTT(30), <1>0, <2>2, <2>3, ReadableBytesOf, CopiedVector
    <2>5. c \in Buffers(S)
      BY SMTT(60), <1>0, <2>2, <2>3, <2>4 DEF Buffers
    <2>6. \A i \in 1 .. n : c.buffer_[c.readIndex_ + i] = b.buffer_[b.readIndex_ + i]
      <3>1. TAKE i \in 1 .. n
      <3>2. k + i \in 1 .. Len(b.buffer_) /\ k + i \in k + 1 .. k + n /\ k + i - k = i
        BY SMTT(30), <1>0, <2>2
      <3>3. c.buffer_[k + i] = Readable(b)[i]
        BY SMTT(30), <2>4, <3>2
      <3> QED
        BY <2>3, <3>3, ReadableBytesOf
    <2>7. Readable(c) = Readable(b)
      <3>1. c.writeIndex_ - c.readIndex_ = n
        BY <1>0, <2>3
      <3> QED
        BY <2>5, <2>6, <3>1, SameReadable
    <2> QED
      BY SMTT(30), <1>0, <2>1, <2>2, <2>3, <2>4, <2>5, <2>7 DEF MovedFromBehind
  <1>3. CASE ~(WritableBytes(b) >= len) /\ ~Moves(b, len)
    <2>1. /\ c.buffer_ = [i \in 1 .. b.writeIndex_ + len |->
                          IF i <= Len(b.buffer_) THEN b.buffer_[i] ELSE Unset]
          /\ c.readIndex_ = b.readIndex_
          /\ c.writeIndex_ = b.writeIndex_
          /\ c = [buffer_ |-> c.buffer_, readIndex_ |-> c.readIndex_,
                  writeIndex_ |-> c.writeIndex_]
      BY <1>3 DEF CheckAndMakePlace, Buffers
    <2>2. b.writeIndex_ + len \in Nat
      OBVIOUS
    <2>3. \A i \in 1 .. b.writeIndex_ + len :
              (IF i <= Len(b.buffer_) THEN b.buffer_[i] ELSE Unset) \in S
      BY ElementOfSeq
    <2>4. c.buffer_ \in Seq(S) /\ Len(c.buffer_) = b.writeIndex_ + len
      <3>1. c.buffer_ \in [1 .. b.writeIndex_ + len -> S]
        BY <2>1, <2>3
      <3> QED
        BY <2>2, <3>1, FunctionIsSeq, Zenon
    <2>5. c \in Buffers(S)
      <3>1. /\ k <= c.readIndex_ /\ c.readIndex_ <= c.writeIndex_
            /\ c.writeIndex_ <= Len(c.buffer_)
        BY <2>1, <2>4
      <3>2. c \in [buffer_ : Seq(S), readIndex_ : Nat, writeIndex_ : Nat]
        BY <2>1, <2>4
      <3> QED
        BY <3>1, <3>2 DEF Buffers
    <2>6. \A i \in 1 .. n : c.buffer_[c.readIndex_ + i] = b.buffer_[b.readIndex_ + i]
      <3>1. TAKE i \in 1 .. n
      <3>2. /\ b.readIndex_ + i \in 1 .. b.writeIndex_ + len
            /\ b.readIndex_ + i <= Len(b.buffer_)
        BY <1>0
      <3> QED
        BY <2>1, <3>2
    <2>7. Readable(c) = Readable(b)
      BY <2>1, <2>5, <2>6, SameReadable
    <2> QED
      BY <1>0, <1>3, <2>1, <2>4, <2>5, <2>7 DEF MovedFromBehind
  <1> QED
    BY <1>1, <1>2, <1>3

(* The bytes s are in the vector, behind the last one. *)
Written(b, s) ==
    [b EXCEPT !.buffer_ = Copied(@, b.writeIndex_, s), !.writeIndex_ = @ + Len(s)]

\* Bytes that have room behind the last one are appended.
LEMMA WrittenIsAppended ==
    ASSUME NEW S, NEW b \in Buffers(S), NEW s \in Seq(S),
           b.writeIndex_ + Len(s) <= Len(b.buffer_)
    PROVE  /\ Written(b, s) \in Buffers(S)
           /\ Readable(Written(b, s)) = Readable(b) \o s
  <1>. DEFINE n == b.writeIndex_ - b.readIndex_
              c == Written(b, s)
  <1>. USE BufferParts
  <1>1. Len(s) \in Nat /\ n \in Nat
    OBVIOUS
  <1>2. /\ c.buffer_ = Copied(b.buffer_, b.writeIndex_, s)
        /\ c.readIndex_ = b.readIndex_
        /\ c.writeIndex_ = b.writeIndex_ + Len(s)
        /\ c = [buffer_ |-> c.buffer_, readIndex_ |-> c.readIndex_,
                writeIndex_ |-> c.writeIndex_]
    <2>1. c = [b EXCEPT !.buffer_ = Copied(b.buffer_, b.writeIndex_, s),
                        !.writeIndex_ = b.writeIndex_ + Len(s)]
      BY DEF Written
    <2>. HIDE DEF c
    <2> QED
      BY <2>1 DEF Buffers
  <1>3. /\ c.buffer_ \in Seq(S)
        /\ Len(c.buffer_) = Len(b.buffer_)
        /\ \A i \in 1 .. Len(b.buffer_) :
              c.buffer_[i] = IF i \in b.writeIndex_ + 1 .. b.writeIndex_ + Len(s)
                             THEN s[i - b.writeIndex_] ELSE b.buffer_[i]
    BY <1>1, <1>2, CopiedVector
  <1>4. c \in Buffers(S)
    BY <1>1, <1>2, <1>3 DEF Buffers
  <1>5. /\ Readable(b) \o s \in Seq(S)
        /\ Len(Readable(b) \o s) = n + Len(s)
        /\ Readable(c) \in Seq(S)
        /\ Len(Readable(c)) = n + Len(s)
    <2>1. c.writeIndex_ - c.readIndex_ = n + Len(s)
      BY <1>1, <1>2
    <2>2. Readable(c) \in Seq(S) /\ Len(Readable(c)) = n + Len(s)
      BY <1>4, <2>1, ReadableBytesOf
    <2>3. Readable(b) \in Seq(S) /\ Len(Readable(b)) = n
      BY ReadableBytesOf
    <2> QED
      BY <2>2, <2>3, ConcatProperties
  <1>6. \A i \in 1 .. n + Len(s) : Readable(c)[i] = (Readable(b) \o s)[i]
    <2>1. TAKE i \in 1 .. n + Len(s)
    <2>2. Readable(c)[i] = c.buffer_[b.readIndex_ + i]
      BY SMTT(30), <1>1, <1>2, <1>4, ReadableBytesOf
    <2>3. b.readIndex_ + i \in 1 .. Len(b.buffer_)
      BY <1>1
    <2>4. CASE i <= n
      <3>1. b.readIndex_ + i \notin b.writeIndex_ + 1 .. b.writeIndex_ + Len(s)
        BY <1>1, <2>4
      <3>2. Readable(c)[i] = b.buffer_[b.readIndex_ + i]
        BY <1>3, <2>2, <2>3, <3>1
      <3>3. (Readable(b) \o s)[i] = Readable(b)[i]
        BY <1>1, <2>4, ReadableBytesOf, ConcatProperties
      <3>4. i \in 1 .. n
        BY <1>1, <2>4
      <3> QED
        BY <3>2, <3>3, <3>4, ReadableBytesOf
    <2>5. CASE i > n
      <3>1. /\ b.readIndex_ + i \in b.writeIndex_ + 1 .. b.writeIndex_ + Len(s)
            /\ b.readIndex_ + i - b.writeIndex_ = i - n
        BY SMTT(30), <1>1, <2>5
      <3>2. Readable(c)[i] = s[i - n]
        BY SMTT(30), <1>3, <2>2, <2>3, <3>1
      <3>3. (Readable(b) \o s)[i] = s[i - n]
        BY SMTT(30), <1>1, <2>5, ReadableBytesOf, ConcatProperties
      <3> QED
        BY <3>2, <3>3
    <2>6. i <= n \/ i > n
      BY <1>1
    <2> QED
      BY <2>4, <2>5, <2>6
  <1> QED
    BY <1>4, <1>5, <1>6, <1>1, SeqEqual

-----------------------------------------------------------------------------
\* Append puts its bytes behind those the buffer holds (Buffer.cc Append).
THEOREM AppendAppends ==
    ASSUME NEW S, Unset \in S, NEW b \in Buffers(S), NEW s \in Seq(S)
    PROVE  /\ AppendBytes(b, s) \in Buffers(S)
           /\ Readable(AppendBytes(b, s)) = Readable(b) \o s
  <1>. DEFINE p == CheckAndMakePlace(b, Len(s))
              c == Written(p, s)
  <1>1. Len(s) \in Nat
    OBVIOUS
  <1>2. p \in Buffers(S) /\ Readable(p) = Readable(b) /\ Fits(b, Len(s))
    BY <1>1, PlaceIsMade
  <1>3. p.writeIndex_ + Len(s) <= Len(p.buffer_)
    BY <1>1, <1>2, BufferParts DEF Fits, WritableBytes
  <1>4. AppendBytes(b, s) = c
    BY DEF AppendBytes, Written
  <1>5. c \in Buffers(S) /\ Readable(c) = Readable(p) \o s
    BY <1>2, <1>3, WrittenIsAppended
  <1> QED
    BY <1>2, <1>4, <1>5

\* A sequence is the concatenation of its two parts.
LEMMA Parts ==
    ASSUME NEW S, NEW s \in Seq(S), NEW w \in 0 .. Len(s)
    PROVE  /\ SubSeq(s, 1, w) \in Seq(S)
           /\ Len(SubSeq(s, 1, w)) = w
           /\ SubSeq(s, w + 1, Len(s)) \in Seq(S)
           /\ SubSeq(s, 1, w) \o SubSeq(s, w + 1, Len(s)) = s
  <1>1. Len(s) \in Nat /\ w \in Nat /\ w <= Len(s)
    OBVIOUS
  <1>0. 1 \in Int /\ w + 1 \in Int /\ Len(s) \in Int /\ w \in Int
    BY <1>1
  <1>2. SubSeq(s, 1, w) \in Seq(S) /\ Len(SubSeq(s, 1, w)) = w
    <2>1. \A i \in 1 .. w : s[i] \in S
      BY <1>1, ElementOfSeq
    <2>2. /\ SubSeq(s, 1, w) \in Seq(S)
          /\ Len(SubSeq(s, 1, w)) = IF 1 <= w THEN w - 1 + 1 ELSE 0
      BY <1>0, <2>1, SubSeqProperties
    <2> QED
      BY <1>1, <2>2
  <1>3. SubSeq(s, w + 1, Len(s)) \in Seq(S)
    <2>1. \A i \in w + 1 .. Len(s) : s[i] \in S
      BY <1>1, ElementOfSeq
    <2> QED
      BY <1>0, <2>1, SubSeqProperties
  <1>4. SubSeq(s, 1, w) \o SubSeq(s, w + 1, Len(s)) = SubSeq(s, 1, Len(s))
    <2>1. 1 \in 1 .. Len(s) + 1 /\ w \in 1 - 1 .. Len(s) /\ Len(s) \in w .. Len(s)
      BY <1>1
    <2> QED
      BY <2>1, ConcatAdjacentSubSeq
  <1> QED
    BY <1>2, <1>3, <1>4, SubSeqFull

\* Of what readv() has put into the free bytes and into the stack buffer,
\* nothing is lost and the order is kept (Buffer.cc ReadFd).
THEOREM ReadFdAppends ==
    ASSUME NEW S, Unset \in S, NEW b \in Buffers(S), NEW s \in Seq(S)
    PROVE  /\ ReadFd(b, s) \in Buffers(S)
           /\ Readable(ReadFd(b, s)) = Readable(b) \o s
  <1>. DEFINE w == WritableBytes(b)
  <1>1. w \in Nat /\ b.writeIndex_ + w = Len(b.buffer_) /\ Len(s) \in Nat
    BY BufferParts DEF WritableBytes
  <1>2. CASE Len(s) <= w
    <2>. DEFINE c == Written(b, s)
    <2>1. ReadFd(b, s) = c
      BY <1>2 DEF ReadFd, Written
    <2>2. b.writeIndex_ + Len(s) <= Len(b.buffer_)
      BY <1>1, <1>2, BufferParts
    <2>3. c \in Buffers(S) /\ Readable(c) = Readable(b) \o s
      BY <2>2, WrittenIsAppended
    <2> QED
      BY <2>1, <2>3
  <1>3. CASE ~(Len(s) <= w)
    <2>. DEFINE s1 == SubSeq(s, 1, w)
                s2 == SubSeq(s, w + 1, Len(s))
                f == Written(b, s1)
    <2>1. w \in 0 .. Len(s)
      BY <1>1, <1>3
    <2>2. s1 \in Seq(S) /\ Len(s1) = w /\ s2 \in Seq(S) /\ s1 \o s2 = s
      BY <2>1, Parts
    <2>3. ReadFd(b, s) = AppendBytes(Filled(b, s), s2)
      BY <1>3 DEF ReadFd
    <2>4. Filled(b, s) = f
      <3>. DEFINE g == Filled(b, s)
                  v == Copied(b.buffer_, b.writeIndex_, s1)
                  end == b.writeIndex_ + Len(s1)
      <3>1. end = Len(b.buffer_)
        BY <1>1, <2>2
      <3>2. f = [b EXCEPT !.buffer_ = v, !.writeIndex_ = end]
        BY DEF Written
      <3>3. g = [b EXCEPT !.buffer_ = v, !.writeIndex_ = Len(b.buffer_)]
        BY DEF Filled
      <3>. HIDE DEF v, end, f, g
      <3>4. f = [buffer_ |-> v, readIndex_ |-> b.readIndex_,
                 writeIndex_ |-> end]
        BY <3>2 DEF Buffers
      <3>5. g = [buffer_ |-> v, readIndex_ |-> b.readIndex_,
                 writeIndex_ |-> Len(b.buffer_)]
        BY <3>3 DEF Buffers
      <3>6. f = g
        BY <3>1, <3>4, <3>5
      <3> QED
        BY <3>6 DEF g
    <2>5. f \in Buffers(S) /\ Readable(f) = Readable(b) \o s1
      <3>1. b.writeIndex_ + Len(s1) <= Len(b.buffer_)
        BY <1>1, <2>2, BufferParts
      <3> QED
        BY <2>2, <3>1, WrittenIsAppended
    <2>6. /\ AppendBytes(f, s2) \in Buffers(S)
          /\ Readable(AppendBytes(f, s2)) = Readable(f) \o s2
      BY <2>2, <2>5, AppendAppends
    <2>7. (Readable(b) \o s1) \o s2 = Readable(b) \o s
      <3>1. Readable(b) \in Seq(S)
        BY ReadableBytesOf
      <3>2. (Readable(b) \o s1) \o s2 = Readable(b) \o (s1 \o s2)
        <4>1. s1 \in Seq(S) /\ s2 \in Seq(S)
          BY <2>2
        <4>. HIDE DEF s1, s2
        <4> QED
          BY SMTT(30), <3>1, <4>1, ConcatAssociative
      <3> QED
        BY <2>2, <3>2
    <2> QED
      BY <2>3, <2>4, <2>5, <2>6, <2>7
  <1> QED
    BY <1>2, <1>3

\* Retrieve takes away the oldest bytes and no others, whether indices are
\* moved forward or set back to the start (Buffer.cc Retrieve, RetrieveAll).
THEOREM RetrieveDropsOldest ==
    ASSUME NEW S, NEW b \in Buffers(S), NEW len \in 0 .. ReadableBytes(b)
    PROVE  /\ Retrieve(b, len) \in Buffers(S)
           /\ Readable(Retrieve(b, len)) =
                 SubSeq(Readable(b), len + 1, ReadableBytes(b))
  <1>. DEFINE n == b.writeIndex_ - b.readIndex_
              c == Retrieve(b, len)
  <1>1. n \in Nat /\ ReadableBytes(b) = n /\ len \in Nat /\ len <= n
    BY BufferParts DEF ReadableBytes
  <1>2. /\ c \in Buffers(S)
        /\ c.writeIndex_ - c.readIndex_ = n - len
        /\ len < n => c.buffer_ = b.buffer_ /\ c.readIndex_ = b.readIndex_ + len
    <2>1. CASE len < n
      <3>1. c = [buffer_ |-> b.buffer_, readIndex_ |-> b.readIndex_ + len,
                 writeIndex_ |-> b.writeIndex_]
        BY <1>1, <2>1, BufferParts DEF Retrieve, Buffers
      <3>2. /\ b.readIndex_ + len \in Nat
            /\ kInitPrependSize <= b.readIndex_ + len
            /\ b.readIndex_ + len <= b.writeIndex_
        BY <1>1, BufferParts
      <3>3. c \in Buffers(S)
        BY <3>1, <3>2, BufferParts DEF Buffers
      <3> QED
        BY <1>1, <3>1, <3>3, BufferParts
    <2>2. CASE len = n
      <3>1. c = [buffer_ |-> b.buffer_, readIndex_ |-> kInitPrependSize,
                 writeIndex_ |-> kInitPrependSize]
        <4>1. c = [b EXCEPT !.readIndex_ = kInitPrependSize,
                            !.writeIndex_ = kInitPrependSize]
          BY <1>1, <2>2 DEF Retrieve, RetrieveAll
        <4>. HIDE DEF c
        <4> QED
          BY <4>1 DEF Buffers
      <3>2. c \in Buffers(S)
        BY <3>1, BufferParts DEF Buffers
      <3> QED
        BY <1>1, <2>2, <3>1, <3>2, BufferParts
    <2> QED
      BY <1>1, <2>1, <2>2
  <1>3. Readable(b) \in Seq(S) /\ Len(Readable(b)) = n
    BY ReadableBytesOf
  <1>4. Readable(c) \in Seq(S) /\ Len(Readable(c)) = n - len
    BY <1>2, ReadableBytesOf
  <1>5. /\ SubSeq(Readable(b), len + 1, n) \in Seq(S)
        /\ Len(SubSeq(Readable(b), len + 1, n)) = n - len
        /\ \A i \in 1 .. n - len :
              SubSeq(Readable(b), len + 1, n)[i] = Readable(b)[len + i]
    BY <1>1, <1>3
  <1>6. \A i \in 1 .. n - len : Readable(c)[i] = Readable(b)[len + i]
    <2>1. TAKE i \in 1 .. n - len
    <2>2. len < n /\ len + i \in 1 .. n
      BY <1>1
    <2>3. Readable(c)[i] = b.buffer_[b.readIndex_ + len + i]
      BY <1>2, <2>2, ReadableBytesOf
    <2>4. Readable(b)[len + i] = b.buffer_[b.readIndex_ + (len + i)]
      BY <2>2, ReadableBytesOf
    <2>5. b.readIndex_ + len + i = b.readIndex_ + (len + i)
      BY <1>1, BufferParts
    <2> QED
      BY <2>3, <2>4, <2>5
  <1>7. Readable(c) = SubSeq(Readable(b), len + 1, n)
    BY <1>1, <1>4, <1>5, <1>6, SeqEqual
  <1> QED
    BY <1>1, <1>2, <1>7
=============================================================================
