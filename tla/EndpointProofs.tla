---------------------------- MODULE EndpointProofs ----------------------------
(***************************************************************************)
(* Theorems about the two ends of a connection's life.  Of TcpClient, for  *)
(* any delays, any number of calls and any bound of the retry timers: its  *)
(* types, that its attempts exclude one another, and that only the user    *)
(* gives a reason for a fault.  Of ServerLife, for any set of clients, any *)
(* number of threads and of descriptors: its types, and for which reasons  *)
(* alone its process is aborted or uses memory that has been freed.        *)
(***************************************************************************)
EXTENDS TcpClient, ServerLife, SequenceLemmas

USE ConnectorAssumption, TcpClientAssumption, ServerLifeAssumption
    DEF ConnectorAssumption, TcpClientAssumption, ServerLifeAssumption

-----------------------------------------------------------------------------
(* The connector's operations *)

Faults ==
    {"none", "freed channel", "assert registered", "epoll_ctl",
     "freed connection", "closed twice", "no connection", "dead client",
     "dead connector", "~TcpConnection"}

ConnectorType ==
    [stop_ : BOOLEAN, connecting_ : BOOLEAN, socket_ : BOOLEAN,
     channel : {"none", "idle", "registered"}, timers : Nat,
     indexed : BOOLEAN, due : Nat,
     retryDelay_ : InitRetryDelay .. MaxRetryDelay, gaveUp : BOOLEAN,
     inEvent : BOOLEAN, fault : Faults]

\* The connector keeps its own state in order.
Ordered(c) ==
    /\ c \in ConnectorType
    /\ c.indexed => c.timers > 0
    /\ c.connecting_ <=> c.channel = "registered"
    /\ c.fault = "none" /\ c.connecting_ => c.socket_

One(p) == IF p THEN 1 ELSE 0

\* Its retry timers and its attempt.
Load(c) == c.timers + c.due + One(c.channel = "registered")

\* What an operation leaves alone.
Same(c, d) == d.due = c.due /\ d.inEvent = c.inEvent

LEMMA LoadType ==
    ASSUME NEW c, Ordered(c)
    PROVE  Load(c) \in Nat /\ c.timers \in Nat /\ c.due \in Nat
  BY DEF Ordered, ConnectorType, Load, One

LEMMA FaultyOrdered ==
    ASSUME NEW c, Ordered(c), NEW what \in Faults \ {"none"}
    PROVE  LET d == Faulty(c, what)
           IN  Ordered(d) /\ Same(c, d) /\ d.fault = what /\ Load(d) = Load(c)
  <1>. DEFINE d == Faulty(c, what)
  <1>1. c \in ConnectorType
    BY DEF Ordered
  <1>2. /\ d \in ConnectorType
        /\ d.fault = what /\ d.channel = c.channel /\ d.timers = c.timers
        /\ d.due = c.due /\ d.indexed = c.indexed /\ d.inEvent = c.inEvent
        /\ d.connecting_ = c.connecting_ /\ d.socket_ = c.socket_
    BY <1>1 DEF Faulty, ConnectorType
  <1>. HIDE DEF d
  <1>3. Ordered(d) /\ Same(c, d) /\ d.fault = what /\ Load(d) = Load(c)
    BY <1>2 DEF Ordered, Same, Load
  <1>. QED  BY <1>3 DEF d

\* A retry timer more, or none.
LEMMA RetryOrdered ==
    ASSUME NEW c, Ordered(c)
    PROVE  LET d == Retry(c)
           IN  /\ Ordered(d) /\ Same(c, d) /\ d.fault = c.fault
               /\ Load(d) \in {Load(c), Load(c) + 1}
  <1>. DEFINE delay == IF 2 * c.retryDelay_ > MaxRetryDelay
                       THEN MaxRetryDelay ELSE 2 * c.retryDelay_
              d == [c EXCEPT !.timers = @ + 1, !.indexed = TRUE,
                             !.retryDelay_ = delay]
  <1>1. c \in ConnectorType
    BY DEF Ordered
  <1>2. CASE c.stop_
    <2>1. Retry(c) = c
      BY <1>2 DEF Retry
    <2>. QED  BY <2>1 DEF Same
  <1>3. CASE ~c.stop_
    <2>1. delay \in InitRetryDelay .. MaxRetryDelay
      BY <1>1 DEF ConnectorType
    <2>2. Retry(c) = d
      BY <1>3 DEF Retry
    <2>. HIDE DEF delay
    <2>3. d \in ConnectorType
      <3>1. c.timers + 1 \in Nat
        BY <1>1 DEF ConnectorType
      <3>. QED  BY <1>1, <2>1, <3>1 DEF ConnectorType
    <2>4. /\ d.fault = c.fault /\ d.channel = c.channel
          /\ d.timers = c.timers + 1 /\ d.due = c.due /\ d.indexed
          /\ d.inEvent = c.inEvent /\ d.connecting_ = c.connecting_
          /\ d.socket_ = c.socket_
      BY <1>1 DEF ConnectorType
    <2>. HIDE DEF d
    <2>5. c.timers \in Nat /\ c.due \in Nat
      BY LoadType
    <2>6. Ordered(d) /\ Same(c, d) /\ d.fault = c.fault
      BY <2>3, <2>4, <2>5 DEF Ordered, Same
    <2>7. Load(d) = Load(c) + 1
      BY <2>4, <2>5 DEF Load, One
    <2>. QED  BY <2>2, <2>6, <2>7
  <1>. QED  BY <1>2, <1>3

LEMMA CancelOrdered ==
    ASSUME NEW c, Ordered(c)
    PROVE  LET d == CancelRetry(c)
           IN  /\ Ordered(d) /\ Same(c, d) /\ d.fault = c.fault
               /\ Load(d) <= Load(c) /\ d.timers <= c.timers
               /\ d.connecting_ = c.connecting_ /\ d.channel = c.channel
  <1>. DEFINE d == [c EXCEPT !.timers = @ - 1, !.indexed = FALSE]
  <1>0. Load(c) \in Nat /\ c.timers \in Nat /\ c.due \in Nat
    BY LoadType
  <1>1. c \in ConnectorType
    BY DEF Ordered
  <1>2. CASE ~c.indexed
    <2>1. CancelRetry(c) = c
      BY <1>2 DEF CancelRetry
    <2>. QED  BY <1>0, <2>1 DEF Same
  <1>3. CASE c.indexed
    <2>1. CancelRetry(c) = d
      BY <1>3 DEF CancelRetry
    <2>2. c.timers - 1 \in Nat
      BY <1>0, <1>3 DEF Ordered
    <2>3. /\ d \in ConnectorType
          /\ d.fault = c.fault /\ d.channel = c.channel
          /\ d.timers = c.timers - 1 /\ d.due = c.due /\ ~d.indexed
          /\ d.inEvent = c.inEvent /\ d.connecting_ = c.connecting_
          /\ d.socket_ = c.socket_
      BY <1>1, <2>2 DEF ConnectorType
    <2>. HIDE DEF d
    <2>4. Ordered(d) /\ Same(c, d)
      BY <2>3 DEF Ordered, Same
    <2>5. Load(d) <= Load(c) /\ d.timers <= c.timers
      BY <1>0, <2>3 DEF Load, One
    <2>. QED  BY <2>1, <2>3, <2>4, <2>5
  <1>. QED  BY <1>2, <1>3

LEMMA UnregisterOrdered ==
    ASSUME NEW c, Ordered(c)
    PROVE  LET d == UnregisterForConnecting(c)
           IN  /\ Ordered(d) /\ Same(c, d) /\ d.fault = c.fault
               /\ Load(d) = c.timers + c.due /\ d.timers = c.timers
               /\ d.channel = "idle" /\ ~d.connecting_
  <1>. DEFINE d == UnregisterForConnecting(c)
  <1>1. c \in ConnectorType
    BY DEF Ordered
  <1>2. /\ d \in ConnectorType
        /\ d.fault = c.fault /\ d.channel = "idle"
        /\ d.timers = c.timers /\ d.due = c.due /\ d.indexed = c.indexed
        /\ d.inEvent = c.inEvent /\ ~d.connecting_
    BY <1>1 DEF UnregisterForConnecting, ConnectorType
  <1>3. c.timers \in Nat /\ c.due \in Nat
    BY LoadType
  <1>. HIDE DEF d
  <1>4. Ordered(d) /\ Same(c, d)
    BY <1>2 DEF Ordered, Same
  <1>5. Load(d) = c.timers + c.due
    BY <1>2, <1>3 DEF Load, One
  <1>6. /\ Ordered(d) /\ Same(c, d) /\ d.fault = c.fault
        /\ Load(d) = c.timers + c.due /\ d.timers = c.timers
        /\ d.channel = "idle" /\ ~d.connecting_
    BY <1>2, <1>4, <1>5
  <1>. QED  BY <1>6 DEF d

\* An attempt adds one timer or one attempt at most; it finds the channel
\* registered, or frees it, only if it was registered or handles its event.
LEMMA StartOrdered ==
    ASSUME NEW c, Ordered(c), c.fault = "none", NEW d \in StartInLoop(c)
    PROVE  /\ Ordered(d) /\ Same(c, d) /\ Load(d) <= Load(c) + 1
           /\ \/ d.fault = "none"
              \/ d.fault = "assert registered" /\ c.channel = "registered"
              \/ d.fault = "freed channel" /\ c.inEvent
  <1>. DEFINE fresh == [c EXCEPT !.socket_ = TRUE, !.channel = "idle"]
              none == [c EXCEPT !.socket_ = FALSE, !.channel = "none",
                                !.gaveUp = TRUE]
  <1>0. Load(c) \in Nat /\ c.timers \in Nat /\ c.due \in Nat
    BY LoadType
  <1>1. c \in ConnectorType
    BY DEF Ordered
  <1>2. CASE c.stop_
    <2>1. d = c
      BY <1>2 DEF StartInLoop
    <2>2. Same(c, d)
      BY <2>1 DEF Same
    <2>3. Load(d) <= Load(c) + 1
      BY <1>0, <2>1
    <2>. QED  BY <2>1, <2>2, <2>3
  <1>3. CASE ~c.stop_ /\ c.channel = "registered"
    <2>1. d = Faulty(c, "assert registered")
      BY <1>3 DEF StartInLoop
    <2>2. "assert registered" \in Faults \ {"none"}
      BY DEF Faults
    <2>3. Ordered(d) /\ Same(c, d) /\ d.fault = "assert registered"
      BY <2>1, <2>2, FaultyOrdered
    <2>4. Load(d) = Load(c)
      BY <2>1, <2>2, FaultyOrdered
    <2>5. Load(d) <= Load(c) + 1
      BY <1>0, <2>4
    <2>. QED  BY <1>3, <2>3, <2>5
  <1>4. CASE ~c.stop_ /\ c.channel # "registered"
    <2>1. \/ d = RegisterForConnecting(fresh)
          \/ d = Retry(fresh)
          \/ d = none
          \/ c.inEvent /\ d = Faulty(c, "freed channel")
      BY <1>4 DEF StartInLoop, TryAgain, ChannelFreed
    <2>2. ~c.connecting_
      BY <1>4 DEF Ordered
    <2>3. /\ fresh \in ConnectorType
          /\ fresh.fault = c.fault /\ fresh.channel = "idle"
          /\ fresh.timers = c.timers /\ fresh.due = c.due
          /\ fresh.indexed = c.indexed /\ fresh.inEvent = c.inEvent
          /\ fresh.connecting_ = c.connecting_ /\ fresh.socket_
      BY <1>1 DEF ConnectorType
    <2>4. /\ none \in ConnectorType
          /\ none.fault = c.fault /\ none.channel = "none"
          /\ none.timers = c.timers /\ none.due = c.due
          /\ none.indexed = c.indexed /\ none.inEvent = c.inEvent
          /\ none.connecting_ = c.connecting_
      BY <1>1 DEF ConnectorType
    <2>. HIDE DEF fresh, none
    <2>5. Ordered(fresh) /\ Same(c, fresh) /\ Load(fresh) = Load(c)
      <3>1. Ordered(fresh) /\ Same(c, fresh)
        BY <2>2, <2>3 DEF Ordered, Same
      <3>2. Load(fresh) = Load(c)
        BY <1>4, <2>3 DEF Load, One
      <3>. QED  BY <3>1, <3>2
    <2>6. CASE d = RegisterForConnecting(fresh)
      <3>1. /\ d \in ConnectorType
            /\ d.fault = fresh.fault /\ d.channel = "registered"
            /\ d.timers = fresh.timers /\ d.due = fresh.due
            /\ d.indexed = fresh.indexed /\ d.inEvent = fresh.inEvent
            /\ d.connecting_ /\ d.socket_ = fresh.socket_
        BY <2>3, <2>6 DEF RegisterForConnecting, ConnectorType
      <3>2. Ordered(d) /\ Same(c, d) /\ d.fault = "none"
        BY <2>3, <2>5, <3>1 DEF Ordered, Same
      <3>3. Load(d) <= Load(c) + 1
        BY <1>0, <1>4, <2>3, <3>1 DEF Load, One
      <3>. QED  BY <3>2, <3>3
    <2>7. CASE d = Retry(fresh)
      <3>1. /\ Ordered(d) /\ Same(fresh, d) /\ d.fault = fresh.fault
            /\ Load(d) \in {Load(fresh), Load(fresh) + 1}
        BY <2>5, <2>7, RetryOrdered
      <3>2. Same(c, d)
        BY <2>5, <3>1 DEF Same
      <3>. QED  BY <1>0, <2>3, <2>5, <3>1, <3>2
    <2>8. CASE d = none
      <3>1. Ordered(d) /\ Same(c, d)
        BY <2>2, <2>4, <2>8 DEF Ordered, Same
      <3>2. Load(d) = Load(c)
        BY <1>4, <2>4, <2>8 DEF Load, One
      <3>3. Load(d) <= Load(c) + 1
        BY <1>0, <3>2
      <3>. QED  BY <2>4, <2>8, <3>1, <3>3
    <2>9. CASE c.inEvent /\ d = Faulty(c, "freed channel")
      <3>1. "freed channel" \in Faults \ {"none"}
        BY DEF Faults
      <3>2. Ordered(d) /\ Same(c, d) /\ d.fault = "freed channel"
        BY <2>9, <3>1, FaultyOrdered
      <3>3. Load(d) = Load(c)
        BY <2>9, <3>1, FaultyOrdered
      <3>4. Load(d) <= Load(c) + 1
        BY <1>0, <3>3
      <3>. QED  BY <2>9, <3>2, <3>4
    <2>. QED  BY <2>1, <2>6, <2>7, <2>8, <2>9
  <1>. QED  BY <1>2, <1>3, <1>4

\* Restart() gives its attempt up first, so it never finds it registered.
LEMMA RestartOrdered ==
    ASSUME NEW c, Ordered(c), c.fault = "none", NEW d \in Restart(c)
    PROVE  /\ Ordered(d) /\ Same(c, d) /\ Load(d) <= c.timers + c.due + 1
           /\ d.fault = "none" \/ (d.fault = "freed channel" /\ c.inEvent)
  <1>. DEFINE quiet == IF c.connecting_ THEN UnregisterForConnecting(c) ELSE c
              ready == [quiet EXCEPT !.retryDelay_ = InitRetryDelay,
                                     !.stop_ = FALSE, !.gaveUp = FALSE]
  <1>0. c.timers \in Nat /\ c.due \in Nat
    BY LoadType
  <1>1. d \in StartInLoop(CancelRetry(ready))
    BY DEF Restart
  <1>2. /\ Ordered(quiet) /\ Same(c, quiet) /\ quiet.timers = c.timers
        /\ quiet.fault = "none" /\ quiet.channel # "registered"
    <2>1. CASE c.connecting_
      BY <2>1, UnregisterOrdered
    <2>2. CASE ~c.connecting_
      BY <2>2 DEF Ordered, Same
    <2>. QED  BY <2>1, <2>2
  <1>. HIDE DEF quiet
  <1>3. quiet \in ConnectorType
    BY <1>2 DEF Ordered
  <1>4. ready \in ConnectorType
    <2>1. InitRetryDelay \in InitRetryDelay .. MaxRetryDelay
      OBVIOUS
    <2>. QED  BY <1>3, <2>1 DEF ConnectorType
  <1>5. /\ ready.fault = quiet.fault /\ ready.channel = quiet.channel
        /\ ready.timers = quiet.timers /\ ready.due = quiet.due
        /\ ready.indexed = quiet.indexed /\ ready.inEvent = quiet.inEvent
        /\ ready.connecting_ = quiet.connecting_
        /\ ready.socket_ = quiet.socket_
    BY <1>3 DEF ConnectorType
  <1>. HIDE DEF ready
  <1>6. Ordered(ready) /\ Same(c, ready)
    BY <1>2, <1>4, <1>5 DEF Ordered, Same
  <1>7. Load(ready) = c.timers + c.due
    BY <1>0, <1>2, <1>5 DEF Load, One, Same
  <1>8. /\ Ordered(CancelRetry(ready)) /\ Same(ready, CancelRetry(ready))
        /\ CancelRetry(ready).fault = "none"
        /\ CancelRetry(ready).channel # "registered"
    BY <1>2, <1>5, <1>6, CancelOrdered
  <1>9. /\ Ordered(d) /\ Same(CancelRetry(ready), d)
        /\ \/ d.fault = "none"
           \/ d.fault = "freed channel" /\ CancelRetry(ready).inEvent
    BY <1>1, <1>8, StartOrdered
  <1>10. Same(c, d) /\ CancelRetry(ready).inEvent = c.inEvent
    BY <1>6, <1>8, <1>9 DEF Same
  <1>11. Load(d) <= c.timers + c.due + 1
    <2>1. Load(CancelRetry(ready)) \in Nat /\ Load(d) \in Nat
      BY <1>8, <1>9, LoadType
    <2>2. Load(CancelRetry(ready)) <= c.timers + c.due
      BY <1>6, <1>7, CancelOrdered
    <2>3. Load(d) <= Load(CancelRetry(ready)) + 1
      BY <1>1, <1>8, StartOrdered
    <2>. QED  BY <1>0, <2>1, <2>2, <2>3
  <1>. QED  BY <1>9, <1>10, <1>11

\* To stop adds nothing; it fails during an attempt.
LEMMA StopInLoopOrdered ==
    ASSUME NEW c, Ordered(c), c.fault = "none", NEW d \in StopInLoop(c)
    PROVE  /\ Ordered(d) /\ Same(c, d) /\ Load(d) <= Load(c)
           /\ \/ d.fault = "none" /\ ~d.connecting_
              \/ d.fault = "epoll_ctl" /\ c.connecting_
              \/ d.fault = "freed channel" /\ c.inEvent
  <1>0. Load(c) \in Nat /\ c.timers \in Nat /\ c.due \in Nat
    BY LoadType
  <1>1. c \in ConnectorType
    BY DEF Ordered
  <1>2. CASE c.connecting_
    <2>. DEFINE e == [c EXCEPT !.socket_ = FALSE]
    <2>1. d = Faulty(e, "epoll_ctl")
      BY <1>2 DEF StopInLoop
    <2>2. /\ e \in ConnectorType
          /\ e.channel = c.channel /\ e.timers = c.timers /\ e.due = c.due
          /\ e.indexed = c.indexed /\ e.inEvent = c.inEvent
          /\ e.connecting_ = c.connecting_
      BY <1>1 DEF ConnectorType
    <2>. HIDE DEF e
    <2>3. /\ d \in ConnectorType /\ d.fault = "epoll_ctl"
          /\ d.channel = e.channel /\ d.timers = e.timers /\ d.due = e.due
          /\ d.indexed = e.indexed /\ d.inEvent = e.inEvent
          /\ d.connecting_ = e.connecting_
      BY <2>1, <2>2 DEF Faulty, ConnectorType, Faults
    <2>4. Ordered(d) /\ Same(c, d)
      BY <2>2, <2>3 DEF Ordered, Same
    <2>5. Load(d) = Load(c)
      BY <2>2, <2>3 DEF Load
    <2>. QED  BY <1>0, <1>2, <2>3, <2>4, <2>5
  <1>3. CASE ~c.connecting_
    <2>. DEFINE e == CancelRetry(c)
                idle == [e EXCEPT !.socket_ = FALSE, !.channel = "none"]
    <2>1. d = idle \/ (c.inEvent /\ d = Faulty(c, "freed channel"))
      BY <1>3 DEF StopInLoop, ChannelFreed
    <2>2. /\ Ordered(e) /\ Same(c, e) /\ e.fault = "none"
          /\ Load(e) <= Load(c) /\ ~e.connecting_
      BY <1>3, CancelOrdered
    <2>3. e \in ConnectorType /\ e.channel # "registered"
      BY <2>2 DEF Ordered
    <2>. HIDE DEF e
    <2>4. /\ idle \in ConnectorType /\ idle.fault = e.fault
          /\ idle.channel = "none" /\ idle.timers = e.timers
          /\ idle.due = e.due /\ idle.indexed = e.indexed
          /\ idle.inEvent = e.inEvent /\ idle.connecting_ = e.connecting_
      BY <2>3 DEF ConnectorType
    <2>. HIDE DEF idle
    <2>5. CASE d = idle
      <3>1. Ordered(d) /\ Same(c, d)
        BY <2>2, <2>4, <2>5 DEF Ordered, Same
      <3>2. Load(d) = Load(e)
        BY <2>3, <2>4, <2>5 DEF Load, One
      <3>. QED  BY <2>2, <2>4, <2>5, <3>1, <3>2
    <2>6. CASE c.inEvent /\ d = Faulty(c, "freed channel")
      <3>1. "freed channel" \in Faults \ {"none"}
        BY DEF Faults
      <3>2. Ordered(d) /\ Same(c, d) /\ d.fault = "freed channel"
        BY <2>6, <3>1, FaultyOrdered
      <3>3. Load(d) = Load(c)
        BY <2>6, <3>1, FaultyOrdered
      <3>4. Load(d) <= Load(c)
        BY <1>0, <3>3
      <3>. QED  BY <2>6, <3>2, <3>4
    <2>. QED  BY <2>1, <2>5, <2>6
  <1>. QED  BY <1>2, <1>3

LEMMA StopOrdered ==
    ASSUME NEW c, Ordered(c), c.fault = "none", NEW d \in Stop(c)
    PROVE  /\ Ordered(d) /\ Same(c, d) /\ Load(d) <= Load(c)
           /\ \/ d.fault = "none" /\ ~d.connecting_
              \/ d.fault = "epoll_ctl" /\ c.connecting_
              \/ d.fault = "freed channel" /\ c.inEvent
  <1>. DEFINE e == [c EXCEPT !.stop_ = TRUE]
  <1>1. c \in ConnectorType
    BY DEF Ordered
  <1>2. /\ e \in ConnectorType
        /\ e.fault = c.fault /\ e.channel = c.channel
        /\ e.timers = c.timers /\ e.due = c.due /\ e.indexed = c.indexed
        /\ e.inEvent = c.inEvent /\ e.connecting_ = c.connecting_
        /\ e.socket_ = c.socket_
    BY <1>1 DEF ConnectorType
  <1>3. d \in StopInLoop(e)
    BY DEF Stop
  <1>. HIDE DEF e
  <1>4. Ordered(e) /\ e.fault = "none"
    BY <1>2 DEF Ordered
  <1>5. Load(e) = Load(c)
    BY <1>2 DEF Load
  <1>6. /\ Ordered(d) /\ Same(e, d)
        /\ \/ d.fault = "none" /\ ~d.connecting_
           \/ d.fault = "epoll_ctl" /\ e.connecting_
           \/ d.fault = "freed channel" /\ e.inEvent
    BY <1>3, <1>4, StopInLoopOrdered
  <1>7. Load(d) <= Load(e)
    BY <1>3, <1>4, StopInLoopOrdered
  <1>8. Same(c, d)
    BY <1>2, <1>6 DEF Same
  <1>. QED  BY <1>2, <1>5, <1>6, <1>7, <1>8

\* A closed connection makes room for one attempt.
LEMMA AfterCloseOrdered ==
    ASSUME NEW c, Ordered(c), c.fault = "none", c.channel # "registered",
           NEW stop \in BOOLEAN, NEW d \in AfterClose(c, stop)
    PROVE  /\ Ordered(d) /\ Same(c, d) /\ Load(d) <= Load(c) + 1
           /\ d.fault = "none" \/ (d.fault = "freed channel" /\ c.inEvent)
  <1>0. Load(c) \in Nat
    BY LoadType
  <1>1. PICK b \in IF stop THEN Stop(c) ELSE {c} :
            d \in IF retry_ /\ b.fault = "none" THEN Restart(b) ELSE {b}
    BY DEF AfterClose
  <1>2. /\ Ordered(b) /\ Same(c, b)
        /\ b.fault = "none" \/ (b.fault = "freed channel" /\ c.inEvent)
    <2>1. CASE stop
      <3>1. b \in Stop(c)
        BY <1>1, <2>1
      <3>2. ~c.connecting_
        BY DEF Ordered
      <3>. QED  BY <3>1, <3>2, StopOrdered
    <2>2. CASE ~stop
      <3>1. b = c
        BY <1>1, <2>2
      <3>. QED  BY <3>1 DEF Same
    <2>. QED  BY <2>1, <2>2
  <1>3. Load(b) <= Load(c)
    <2>1. CASE stop
      <3>1. b \in Stop(c)
        BY <1>1, <2>1
      <3>. QED  BY <3>1, StopOrdered
    <2>2. CASE ~stop
      BY <1>0, <1>1, <2>2
    <2>. QED  BY <2>1, <2>2
  <1>4. Load(b) \in Nat /\ b.timers \in Nat /\ b.due \in Nat
    BY <1>2, LoadType
  <1>5. CASE retry_ /\ b.fault = "none"
    <2>1. d \in Restart(b)
      BY <1>1, <1>5
    <2>2. /\ Ordered(d) /\ Same(b, d)
          /\ d.fault = "none" \/ (d.fault = "freed channel" /\ b.inEvent)
      BY <1>2, <1>5, <2>1, RestartOrdered
    <2>3. Load(d) <= b.timers + b.due + 1
      BY <1>2, <1>5, <2>1, RestartOrdered
    <2>4. b.timers + b.due <= Load(b)
      BY <1>4 DEF Load, One
    <2>5. Load(d) \in Nat
      BY <2>2, LoadType
    <2>6. Load(d) <= Load(c) + 1
      BY <1>0, <1>3, <1>4, <2>3, <2>4, <2>5
    <2>7. Same(c, d) /\ b.inEvent = c.inEvent
      BY <1>2, <2>2 DEF Same
    <2>. QED  BY <2>2, <2>6, <2>7
  <1>6. CASE ~(retry_ /\ b.fault = "none")
    <2>1. d = b
      BY <1>1, <1>6
    <2>2. Load(d) <= Load(c) + 1
      BY <1>0, <1>3, <1>4, <2>1
    <2>. QED  BY <1>2, <2>1, <2>2
  <1>. QED  BY <1>5, <1>6

-----------------------------------------------------------------------------
(* The invariant *)

Queued(what) == what \in Range(functors)

\* What the client has going: timers, an attempt, the call that starts it,
\* a connection.
Attempts ==
    Load(con) + One(Queued("start")) + One(Connected)

\* Only the connector's user who restarts it can have more than one.
AttemptsBounded ==
    /\ Attempts <= MaxTimers
    /\ "Restart" \notin did => Attempts <= 1
    /\ "Connect" \notin did => Attempts = 0

StartsOnce ==
    \A i, j \in DOMAIN functors :
        functors[i] = "start" /\ functors[j] = "start" => i = j

\* What is under way was called by the user.
CallsRemembered ==
    /\ Queued("stop") => "Stop" \in did
    /\ client = "gone" => "Destroy" \in did
    /\ "Restart" \in did => direct /\ "Connect" \in did
    /\ direct => conn = "none"

Typed ==
    /\ Ordered(con) /\ ~con.inEvent
    /\ direct \in BOOLEAN
    /\ conn \in {"none", "up", "closing"}
    /\ functors \in Seq({"start", "stop"})
    /\ client \in {"alive", "gone"}

ClientInv ==
    /\ Typed
    /\ StartsOnce
    /\ CallsRemembered
    /\ AttemptsBounded
    /\ FaultsExplained

LEMMA CountsType ==
    ASSUME ClientInv
    PROVE  /\ Load(con) \in Nat /\ con.timers \in Nat /\ con.due \in Nat
           /\ One(Queued("start")) \in {0, 1} /\ One(Connected) \in {0, 1}
           /\ One(con.channel = "registered") \in {0, 1}
           /\ Attempts = Load(con) + One(Queued("start")) + One(Connected)
           /\ Attempts <= MaxTimers
  <1>1. Load(con) \in Nat /\ con.timers \in Nat /\ con.due \in Nat
    BY LoadType DEF ClientInv, Typed
  <1>2. Attempts <= MaxTimers
    BY DEF ClientInv, AttemptsBounded
  <1>. QED  BY <1>1, <1>2 DEF One, Attempts

\* A connection is the only thing its client has going.
LEMMA ConnectionAlone ==
    ASSUME ClientInv, Connected
    PROVE  /\ ~direct /\ Load(con) = 0 /\ con.channel # "registered"
           /\ ~Queued("start") /\ con.timers = 0 /\ con.due = 0
  <1>1. ~direct
    BY DEF ClientInv, CallsRemembered, Connected
  <1>2. Attempts <= 1
    BY <1>1 DEF ClientInv, AttemptsBounded, CallsRemembered
  <1>3. One(Connected) = 1
    BY DEF One
  <1>4. Load(con) = 0 /\ One(Queued("start")) = 0
    <2>. DEFINE l == Load(con)
                q == One(Queued("start"))
                n == One(Connected)
    <2>1. l \in Nat /\ q \in {0, 1} /\ Attempts = l + q + n
      BY CountsType
    <2>2. n = 1
      BY <1>3
    <2>. HIDE DEF l, q, n
    <2>3. l = 0 /\ q = 0
      BY <1>2, <2>1, <2>2
    <2>. QED  BY <2>3 DEF l, q
  <1>5. Load(con) = con.timers + con.due + One(con.channel = "registered")
    BY DEF Load
  <1>6. /\ One(con.channel = "registered") = 0
        /\ con.timers = 0 /\ con.due = 0
    BY <1>4, <1>5, CountsType
  <1>. QED  BY <1>1, <1>4, <1>6 DEF One

\* So is an attempt.
LEMMA AttemptAlone ==
    ASSUME ClientInv, con.channel = "registered", ~direct
    PROVE  /\ ~Connected /\ ~Queued("start") /\ con.timers = 0 /\ con.due = 0
           /\ Load(con) = 1
  <1>1. Attempts <= 1
    BY DEF ClientInv, AttemptsBounded, CallsRemembered
  <1>2. Load(con) = con.timers + con.due + 1
    BY DEF Load, One
  <1>3. /\ One(Connected) = 0 /\ One(Queued("start")) = 0
        /\ con.timers = 0 /\ con.due = 0
    BY <1>1, <1>2, CountsType
  <1>. QED  BY <1>2, <1>3 DEF One

\* A step that queues nothing, restarts nothing and does not add to what the
\* client has going.
LEMMA NothingAdded ==
    ASSUME ClientInv, Ordered(con'), ~con'.inEvent,
           UNCHANGED <<direct, functors, client>>,
           conn' \in {"none", "up", "closing"}, direct => conn' = "none",
           did \subseteq did', "Restart" \in did' => "Restart" \in did,
           Load(con') + One(conn' # "none") <= Load(con) + One(Connected)
    PROVE  Typed' /\ StartsOnce' /\ CallsRemembered' /\ AttemptsBounded'
  <1>1. Typed'
    BY DEF ClientInv, Typed
  <1>2. StartsOnce'
    BY DEF ClientInv, StartsOnce
  <1>3. Queued("start")' = Queued("start") /\ Queued("stop")' = Queued("stop")
    BY DEF Queued
  <1>4. CallsRemembered'
    BY <1>3 DEF ClientInv, CallsRemembered
  <1>5. AttemptsBounded'
    <2>1. Load(con') \in Nat
      BY LoadType
    <2>2. One(Connected)' = One(conn' # "none")
      BY DEF One, Connected
    <2>3. One(Queued("start"))' = One(Queued("start"))
      BY <1>3 DEF One
    <2>4. Attempts' = Load(con') + One(Queued("start")) + One(conn' # "none")
      BY <2>2, <2>3 DEF Attempts, Load, One
    <2>5. One(conn' # "none") \in {0, 1}
      BY DEF One
    <2>6. Attempts' <= Attempts /\ Attempts' \in Nat /\ Attempts \in Nat
      BY <2>1, <2>4, <2>5, CountsType
    <2>. QED  BY <2>6 DEF ClientInv, AttemptsBounded
  <1>. QED  BY <1>1, <1>2, <1>4, <1>5

LEMMA NoFault ==
    ASSUME con'.fault = "none"
    PROVE  FaultsExplained'
  BY DEF FaultsExplained

-----------------------------------------------------------------------------
(* The steps *)

LEMMA HandleCloseStep ==
    ASSUME ClientInv, con.fault = "none", NEW inEvent \in BOOLEAN,
           HandleClose(inEvent)
    PROVE  ClientInv'
  <1>1. /\ Connected /\ conn' = "none"
        /\ UNCHANGED <<direct, held, retry_, functors, client>>
    BY DEF HandleClose
  <1>2. PICK stop \in BOOLEAN :
            /\ con' \in AfterClose(con, stop) \union
                        (IF inEvent THEN ConnectionFreed(AfterClose(con, stop))
                         ELSE {})
            /\ IF stop THEN Did("nested Stop") ELSE NoCall
    BY DEF HandleClose
  <1>3. did \subseteq did' /\ ("Restart" \in did' => "Restart" \in did)
    <2>1. did' = did \union {"nested Stop"} \/ did' = did
      BY <1>2 DEF Did, NoCall
    <2>. QED  BY <2>1
  <1>4. PICK d \in AfterClose(con, stop) :
            \/ con' = d
            \/ ~held /\ con' = Faulty(d, "freed connection")
    BY <1>2 DEF ConnectionFreed
  <1>5. Ordered(con) /\ ~con.inEvent /\ con.channel # "registered"
    BY <1>1, ConnectionAlone DEF ClientInv, Typed
  <1>6. Ordered(d) /\ Same(con, d) /\ d.fault = "none"
    BY <1>5, AfterCloseOrdered
  <1>7. Load(d) <= Load(con) + 1 /\ Load(d) \in Nat /\ Load(con) \in Nat
    BY <1>5, <1>6, AfterCloseOrdered, LoadType
  <1>8. "freed connection" \in Faults \ {"none"}
    BY DEF Faults
  <1>9. Ordered(con') /\ ~con'.inEvent
    <2>1. Ordered(con') /\ Same(d, con')
      <3>1. CASE con' = d
        BY <1>6, <3>1 DEF Same
      <3>2. CASE con' = Faulty(d, "freed connection")
        BY <1>6, <1>8, <3>2, FaultyOrdered
      <3>. QED  BY <1>4, <3>1, <3>2
    <2>. QED  BY <1>5, <1>6, <2>1 DEF Same
  <1>10. Load(con') = Load(d)
    BY <1>4, <1>6, <1>8, FaultyOrdered
  <1>11. Load(con') + One(conn' # "none") <= Load(con) + One(Connected)
    <2>1. One(conn' # "none") = 0 /\ One(Connected) = 1
      BY <1>1 DEF One
    <2>. QED  BY <1>7, <1>10, <2>1
  <1>12. con'.fault = "none" \/ (~held /\ con'.fault = "freed connection")
    BY <1>4, <1>6, <1>8, FaultyOrdered
  <1>13. FaultsExplained'
    BY <1>1, <1>12 DEF FaultsExplained
  <1>. QED  BY <1>1, <1>3, <1>9, <1>11, <1>13, NothingAdded DEF ClientInv

LEMMA ResetInEventStep ==
    ASSUME ClientInv, con.fault = "none", ResetInEvent
    PROVE  ClientInv'
  <1>1. /\ Connected /\ held /\ conn' = "none" /\ did' = did
        /\ UNCHANGED <<direct, held, retry_, functors, client>>
    BY DEF ResetInEvent, NoCall
  <1>2. PICK d \in AfterClose(con, FALSE) : con' = Faulty(d, "closed twice")
    BY DEF ResetInEvent
  <1>3. Ordered(con) /\ ~con.inEvent /\ con.channel # "registered"
    BY <1>1, ConnectionAlone DEF ClientInv, Typed
  <1>4. Ordered(d) /\ Same(con, d)
    BY <1>3, AfterCloseOrdered
  <1>5. Load(d) <= Load(con) + 1 /\ Load(d) \in Nat /\ Load(con) \in Nat
    BY <1>3, <1>4, AfterCloseOrdered, LoadType
  <1>6. "closed twice" \in Faults \ {"none"}
    BY DEF Faults
  <1>7. Ordered(con') /\ ~con'.inEvent /\ con'.fault = "closed twice"
    BY <1>2, <1>3, <1>4, <1>6, FaultyOrdered DEF Same
  <1>8. Load(con') = Load(d)
    BY <1>2, <1>4, <1>6, FaultyOrdered
  <1>9. Load(con') + One(conn' # "none") <= Load(con) + One(Connected)
    <2>1. One(conn' # "none") = 0 /\ One(Connected) = 1
      BY <1>1 DEF One
    <2>. QED  BY <1>5, <1>8, <2>1
  <1>10. FaultsExplained'
    BY <1>1, <1>7 DEF FaultsExplained
  <1>. QED  BY <1>1, <1>7, <1>9, <1>10, NothingAdded DEF ClientInv

LEMMA DisconnectStep ==
    ASSUME ClientInv, con.fault = "none", Disconnect
    PROVE  ClientInv'
  <1>1. /\ ~direct /\ did' = did \union {"Disconnect"}
        /\ UNCHANGED <<direct, held, retry_, functors, client>>
    BY DEF Disconnect, Did
  <1>2. Ordered(con) /\ ~con.inEvent /\ conn \in {"none", "up", "closing"}
    BY DEF ClientInv, Typed
  <1>3. CASE Connected
    <2>1. conn' = "closing" /\ con' = con
      BY <1>3 DEF Disconnect
    <2>2. Load(con') + One(conn' # "none") <= Load(con) + One(Connected)
      <3>1. One(conn' # "none") = 1 /\ One(Connected) = 1
        BY <1>3, <2>1 DEF One
      <3>2. Load(con') = Load(con) /\ Load(con) \in Nat
        BY <1>2, <2>1, LoadType
      <3>. QED  BY <3>1, <3>2
    <2>3. FaultsExplained'
      BY <2>1, NoFault
    <2>. QED  BY <1>1, <1>2, <2>1, <2>2, <2>3, NothingAdded DEF ClientInv
  <1>4. CASE ~Connected
    <2>1. conn' = conn /\ con' = Faulty(con, "no connection")
      BY <1>4 DEF Disconnect
    <2>2. "no connection" \in Faults \ {"none"}
      BY DEF Faults
    <2>3. Ordered(con') /\ ~con'.inEvent /\ con'.fault = "no connection"
      <3>1. /\ Ordered(con') /\ Same(con, con')
            /\ con'.fault = "no connection"
        BY <1>2, <2>1, <2>2, FaultyOrdered
      <3>. QED  BY <1>2, <3>1 DEF Same
    <2>4. Load(con') = Load(con) /\ Load(con) \in Nat
      BY <1>2, <2>1, <2>2, FaultyOrdered, LoadType
    <2>5. Load(con') + One(conn' # "none") <= Load(con) + One(Connected)
      <3>1. One(conn' # "none") = 0 /\ One(Connected) = 0
        BY <1>4, <2>1 DEF One, Connected
      <3>. QED  BY <2>4, <3>1
    <2>6. FaultsExplained'
      BY <1>1, <2>3 DEF FaultsExplained
    <2>7. direct => conn' = "none"
      BY <1>1
    <2>. QED
      BY <1>1, <1>2, <2>1, <2>3, <2>5, <2>6, <2>7, NothingAdded DEF ClientInv
  <1>. QED  BY <1>3, <1>4

LEMMA CloseWithoutClientStep ==
    ASSUME ClientInv, con.fault = "none", CloseWithoutClient
    PROVE  ClientInv'
  <1>1. /\ client = "gone" /\ did' = did /\ con' = Faulty(con, "dead client")
        /\ UNCHANGED <<direct, conn, held, retry_, functors, client>>
    BY DEF CloseWithoutClient, NoCall
  <1>2. /\ Ordered(con) /\ ~con.inEvent /\ conn \in {"none", "up", "closing"}
        /\ "Destroy" \in did /\ (direct => conn = "none")
    BY <1>1 DEF ClientInv, Typed, CallsRemembered
  <1>3. "dead client" \in Faults \ {"none"}
    BY DEF Faults
  <1>4. Ordered(con') /\ ~con'.inEvent /\ con'.fault = "dead client"
    <2>1. Ordered(con') /\ Same(con, con') /\ con'.fault = "dead client"
      BY <1>1, <1>2, <1>3, FaultyOrdered
    <2>. QED  BY <1>2, <2>1 DEF Same
  <1>5. Load(con') = Load(con) /\ Load(con) \in Nat
    BY <1>1, <1>2, <1>3, FaultyOrdered, LoadType
  <1>6. Load(con') + One(conn' # "none") <= Load(con) + One(Connected)
    <2>1. /\ One(conn' # "none") = One(Connected)
          /\ One(Connected) \in {0, 1}
      BY <1>1 DEF One, Connected
    <2>. QED  BY <1>5, <2>1
  <1>7. FaultsExplained'
    BY <1>1, <1>2, <1>4 DEF FaultsExplained
  <1>. QED  BY <1>1, <1>2, <1>4, <1>6, <1>7, NothingAdded DEF ClientInv

\* The retry after a failed attempt takes the attempt's place.
LEMMA AttemptFailsStep ==
    ASSUME ClientInv, con.fault = "none", AttemptFails
    PROVE  ClientInv'
  <1>. DEFINE c == UnregisterForConnecting(con)
  <1>1. /\ con.channel = "registered" /\ con' = Retry(c) /\ did' = did
        /\ UNCHANGED <<direct, conn, held, retry_, functors, client>>
    BY DEF AttemptFails, TryAgain, NoCall
  <1>2. /\ Ordered(con) /\ ~con.inEvent /\ conn \in {"none", "up", "closing"}
        /\ (direct => conn = "none")
    BY DEF ClientInv, Typed, CallsRemembered
  <1>3. Ordered(c) /\ Same(con, c) /\ c.fault = "none"
    BY <1>2, UnregisterOrdered
  <1>4. Load(c) = con.timers + con.due
    BY <1>2, UnregisterOrdered
  <1>. HIDE DEF c
  <1>5. Ordered(con') /\ Same(c, con') /\ con'.fault = "none"
    BY <1>1, <1>3, RetryOrdered
  <1>6. ~con'.inEvent
    BY <1>2, <1>3, <1>5 DEF Same
  <1>7. Load(con') <= Load(con) /\ Load(con) \in Nat /\ Load(con') \in Nat
    <2>1. Load(con') \in {Load(c), Load(c) + 1}
      BY <1>1, <1>3, RetryOrdered
    <2>2. Load(con) = con.timers + con.due + 1
      BY <1>1 DEF Load, One
    <2>3. con.timers \in Nat /\ con.due \in Nat
      BY <1>2, LoadType
    <2>. QED  BY <1>4, <2>1, <2>2, <2>3
  <1>8. Load(con') + One(conn' # "none") <= Load(con) + One(Connected)
    <2>1. /\ One(conn' # "none") = One(Connected)
          /\ One(Connected) \in {0, 1}
      BY <1>1 DEF One, Connected
    <2>. QED  BY <1>7, <2>1
  <1>9. FaultsExplained'
    BY <1>5, NoFault
  <1>. QED  BY <1>1, <1>2, <1>5, <1>6, <1>8, <1>9, NothingAdded DEF ClientInv

LEMMA LeaveOrdered ==
    ASSUME NEW c, Ordered(c)
    PROVE  LET d == [c EXCEPT !.inEvent = FALSE]
           IN  /\ Ordered(d) /\ ~d.inEvent /\ d.fault = c.fault
               /\ Load(d) = Load(c)
  <1>. DEFINE d == [c EXCEPT !.inEvent = FALSE]
  <1>1. c \in ConnectorType
    BY DEF Ordered
  <1>2. /\ d \in ConnectorType
        /\ d.fault = c.fault /\ d.channel = c.channel
        /\ d.timers = c.timers /\ d.due = c.due /\ d.indexed = c.indexed
        /\ ~d.inEvent /\ d.connecting_ = c.connecting_
        /\ d.socket_ = c.socket_
    BY <1>1 DEF ConnectorType
  <1>. HIDE DEF d
  <1>3. Ordered(d)
    BY <1>2 DEF Ordered
  <1>4. Load(d) = Load(c)
    BY <1>2 DEF Load
  <1>5. Ordered(d) /\ ~d.inEvent /\ d.fault = c.fault /\ Load(d) = Load(c)
    BY <1>2, <1>3, <1>4
  <1>. QED  BY <1>5 DEF d

LEMMA AttemptSucceedsStep ==
    ASSUME ClientInv, con.fault = "none", AttemptSucceeds
    PROVE  ClientInv'
  <1>. DEFINE u == UnregisterForConnecting(con)
              moved == [u EXCEPT !.socket_ = FALSE]
              busy == [moved EXCEPT !.inEvent = TRUE]
  <1>1. /\ con.channel = "registered"
        /\ UNCHANGED <<direct, retry_, functors, client>>
    BY DEF AttemptSucceeds
  <1>2. \/ /\ con' = moved /\ did' = did
           /\ conn' = IF direct THEN "none" ELSE "up"
        \/ /\ ~direct /\ conn' = "up" /\ did' = did \union {"nested Stop"}
           /\ \E c \in Stop(busy) : con' = [c EXCEPT !.inEvent = FALSE]
        \/ /\ ~direct /\ conn' = conn
           /\ did' = did \union {"nested ForceClose"}
           /\ \E c \in AfterClose(busy, FALSE) :
                  con' = [c EXCEPT !.inEvent = FALSE]
    BY DEF AttemptSucceeds, Did, NoCall
  <1>3. Ordered(con) /\ ~con.inEvent
    BY DEF ClientInv, Typed
  <1>4. /\ Ordered(u) /\ Same(con, u) /\ u.fault = con.fault
        /\ u.timers = con.timers /\ u.channel = "idle" /\ ~u.connecting_
    BY <1>3, UnregisterOrdered
  <1>. HIDE DEF u
  <1>5. u \in ConnectorType
    BY <1>4 DEF Ordered
  <1>6. /\ moved \in ConnectorType
        /\ moved.fault = u.fault /\ moved.channel = u.channel
        /\ moved.timers = u.timers /\ moved.due = u.due
        /\ moved.indexed = u.indexed /\ moved.inEvent = u.inEvent
        /\ moved.connecting_ = u.connecting_
    BY <1>5 DEF ConnectorType
  <1>. HIDE DEF moved
  <1>7. /\ busy \in ConnectorType
        /\ busy.fault = moved.fault /\ busy.channel = moved.channel
        /\ busy.timers = moved.timers /\ busy.due = moved.due
        /\ busy.indexed = moved.indexed
        /\ busy.connecting_ = moved.connecting_
    BY <1>6 DEF ConnectorType
  <1>. HIDE DEF busy
  <1>8. /\ Ordered(moved) /\ ~moved.inEvent /\ moved.fault = "none"
        /\ Ordered(busy) /\ busy.fault = "none"
        /\ busy.channel # "registered" /\ ~busy.connecting_
    BY <1>3, <1>4, <1>6, <1>7 DEF Ordered, Same
  <1>9. /\ Load(moved) = con.timers + con.due /\ Load(busy) = Load(moved)
        /\ Load(con) = Load(moved) + 1 /\ Load(moved) \in Nat
    <2>1. con.timers \in Nat /\ con.due \in Nat
      BY CountsType
    <2>. QED  BY <1>1, <1>4, <1>6, <1>7, <2>1 DEF Load, One, Same
  <1>10. ~direct => ~Connected
    BY <1>1, AttemptAlone
  <1>11. One(TRUE) = 1 /\ One(FALSE) = 0 /\ One(Connected) \in {0, 1}
    BY DEF One
  <1>12. CASE /\ con' = moved /\ did' = did
              /\ conn' = IF direct THEN "none" ELSE "up"
    <2>1. Load(con') + One(conn' # "none") <= Load(con) + One(Connected)
      <3>1. One(conn' # "none") \in {0, 1}
        BY DEF One
      <3>. QED  BY <1>9, <1>11, <1>12, <3>1
    <2>2. FaultsExplained'
      BY <1>8, <1>12, NoFault
    <2>3. conn' \in {"none", "up", "closing"} /\ (direct => conn' = "none")
      BY <1>12
    <2>. QED
      BY <1>1, <1>8, <1>12, <2>1, <2>2, <2>3, NothingAdded DEF ClientInv
  <1>13. CASE /\ ~direct /\ conn' = "up"
              /\ did' = did \union {"nested Stop"}
              /\ \E c \in Stop(busy) : con' = [c EXCEPT !.inEvent = FALSE]
    <2>1. PICK c \in Stop(busy) : con' = [c EXCEPT !.inEvent = FALSE]
      BY <1>13
    <2>2. /\ Ordered(c)
          /\ c.fault = "none" \/ c.fault = "freed channel"
      BY <1>8, StopOrdered
    <2>3. Load(c) <= Load(busy) /\ Load(c) \in Nat
      BY <1>8, <2>2, StopOrdered, LoadType
    <2>4. Ordered(con') /\ ~con'.inEvent /\ con'.fault = c.fault
      BY <2>1, <2>2, LeaveOrdered
    <2>5. Load(con') = Load(c)
      BY <2>1, <2>2, LeaveOrdered
    <2>6. Load(con') + One(conn' # "none") <= Load(con) + One(Connected)
      <3>1. One(conn' # "none") = 1
        BY <1>13 DEF One
      <3>. QED  BY <1>9, <1>11, <2>3, <2>5, <3>1
    <2>7. FaultsExplained'
      BY <1>13, <2>2, <2>4 DEF FaultsExplained
    <2>8. did \subseteq did' /\ ("Restart" \in did' => "Restart" \in did)
      BY <1>13
    <2>. QED
      BY <1>1, <1>13, <2>4, <2>6, <2>7, <2>8, NothingAdded DEF ClientInv
  <1>14. CASE /\ ~direct /\ conn' = conn
              /\ did' = did \union {"nested ForceClose"}
              /\ \E c \in AfterClose(busy, FALSE) :
                     con' = [c EXCEPT !.inEvent = FALSE]
    <2>1. PICK c \in AfterClose(busy, FALSE) :
              con' = [c EXCEPT !.inEvent = FALSE]
      BY <1>14
    <2>2. /\ Ordered(c)
          /\ c.fault = "none" \/ c.fault = "freed channel"
      BY <1>8, AfterCloseOrdered
    <2>3. Load(c) <= Load(busy) + 1 /\ Load(c) \in Nat
      BY <1>8, <2>2, AfterCloseOrdered, LoadType
    <2>4. Ordered(con') /\ ~con'.inEvent /\ con'.fault = c.fault
      BY <2>1, <2>2, LeaveOrdered
    <2>5. Load(con') = Load(c)
      BY <2>1, <2>2, LeaveOrdered
    <2>6. Load(con') + One(conn' # "none") <= Load(con) + One(Connected)
      <3>1. One(conn' # "none") = 0
        BY <1>10, <1>14 DEF One, Connected
      <3>. QED  BY <1>9, <1>11, <2>3, <2>5, <3>1
    <2>7. FaultsExplained'
      BY <1>14, <2>2, <2>4 DEF FaultsExplained
    <2>8. did \subseteq did' /\ ("Restart" \in did' => "Restart" \in did)
      BY <1>14
    <2>9. conn' \in {"none", "up", "closing"} /\ (direct => conn' = "none")
      BY <1>14 DEF ClientInv, Typed
    <2>. QED
      BY <1>1, <2>4, <2>6, <2>7, <2>8, <2>9, NothingAdded DEF ClientInv
  <1>. QED  BY <1>2, <1>12, <1>13, <1>14

LEMMA TimersExpireStep ==
    ASSUME ClientInv, con.fault = "none", TimersExpire
    PROVE  ClientInv'
  <1>1. PICK n \in 1 .. con.timers, indexed \in BOOLEAN :
            /\ indexed => con.indexed /\ n < con.timers
            /\ con' = [con EXCEPT !.timers = @ - n, !.due = n,
                                  !.indexed = indexed]
    BY DEF TimersExpire
  <1>2. /\ con.due = 0 /\ did' = did
        /\ UNCHANGED <<direct, conn, held, retry_, functors, client>>
    BY DEF TimersExpire, BetweenTimers, NoCall
  <1>3. /\ Ordered(con) /\ ~con.inEvent /\ con \in ConnectorType
        /\ conn \in {"none", "up", "closing"} /\ (direct => conn = "none")
    BY DEF ClientInv, Typed, Ordered, CallsRemembered
  <1>4. con.timers \in Nat /\ con.timers - n \in Nat /\ n \in Nat
    BY CountsType
  <1>5. /\ con' \in ConnectorType
        /\ con'.fault = con.fault /\ con'.channel = con.channel
        /\ con'.timers = con.timers - n /\ con'.due = n
        /\ con'.indexed = indexed /\ con'.inEvent = con.inEvent
        /\ con'.connecting_ = con.connecting_ /\ con'.socket_ = con.socket_
    BY <1>1, <1>3, <1>4 DEF ConnectorType
  <1>6. Ordered(con')
    BY <1>1, <1>3, <1>4, <1>5 DEF Ordered
  <1>7. Load(con') = Load(con)
    BY <1>2, <1>4, <1>5 DEF Load, One
  <1>8. Load(con') + One(conn' # "none") <= Load(con) + One(Connected)
    <2>1. /\ One(conn' # "none") = One(Connected)
          /\ One(Connected) \in {0, 1}
      BY <1>2 DEF One, Connected
    <2>2. Load(con) \in Nat
      BY CountsType
    <2>. QED  BY <1>7, <2>1, <2>2
  <1>9. FaultsExplained'
    BY <1>5, NoFault
  <1>. QED
    BY <1>2, <1>3, <1>5, <1>6, <1>8, <1>9, NothingAdded DEF ClientInv

\* A retry that is due meets an attempt only after Restart().
LEMMA RunRetryStep ==
    ASSUME ClientInv, con.fault = "none", RunRetry
    PROVE  ClientInv'
  <1>. DEFINE c == [con EXCEPT !.due = @ - 1]
  <1>1. /\ con.due # 0 /\ did' = did
        /\ con' \in IF client = "alive" THEN StartInLoop(c) ELSE {c}
        /\ UNCHANGED <<direct, conn, held, retry_, functors, client>>
    BY DEF RunRetry, BetweenTimers, NoCall
  <1>2. /\ Ordered(con) /\ ~con.inEvent /\ con \in ConnectorType
        /\ conn \in {"none", "up", "closing"} /\ (direct => conn = "none")
    BY DEF ClientInv, Typed, Ordered, CallsRemembered
  <1>3. con.timers \in Nat /\ con.due \in Nat /\ con.due - 1 \in Nat
    BY <1>1, CountsType
  <1>4. /\ c \in ConnectorType
        /\ c.fault = con.fault /\ c.channel = con.channel
        /\ c.timers = con.timers /\ c.due = con.due - 1
        /\ c.indexed = con.indexed /\ c.inEvent = con.inEvent
        /\ c.connecting_ = con.connecting_ /\ c.socket_ = con.socket_
    BY <1>2, <1>3 DEF ConnectorType
  <1>. HIDE DEF c
  <1>5. Ordered(c)
    BY <1>2, <1>4 DEF Ordered
  <1>6. Load(con) = Load(c) + 1 /\ Load(c) \in Nat
    BY <1>3, <1>4 DEF Load, One
  <1>7. /\ Ordered(con') /\ ~con'.inEvent
        /\ \/ con'.fault = "none"
           \/ /\ con'.fault = "assert registered"
              /\ con.channel = "registered"
    <2>1. CASE client = "alive"
      <3>1. /\ Ordered(con') /\ Same(c, con')
            /\ \/ con'.fault = "none"
               \/ con'.fault = "assert registered" /\ c.channel = "registered"
               \/ con'.fault = "freed channel" /\ c.inEvent
        BY <1>1, <1>4, <1>5, <2>1, StartOrdered
      <3>. QED  BY <1>2, <1>4, <3>1 DEF Same
    <2>2. CASE client # "alive"
      BY <1>1, <1>2, <1>4, <1>5, <2>2
    <2>. QED  BY <2>1, <2>2
  <1>8. Load(con') <= Load(con) /\ Load(con') \in Nat
    <2>1. CASE client = "alive"
      <3>1. Load(con') <= Load(c) + 1
        BY <1>1, <1>4, <1>5, <2>1, StartOrdered
      <3>. QED  BY <1>6, <1>7, <3>1, LoadType
    <2>2. CASE client # "alive"
      <3>1. con' = c
        BY <1>1, <2>2
      <3>. QED  BY <1>6, <3>1
    <2>. QED  BY <2>1, <2>2
  <1>9. Load(con') + One(conn' # "none") <= Load(con) + One(Connected)
    <2>1. /\ One(conn' # "none") = One(Connected)
          /\ One(Connected) \in {0, 1}
      BY <1>1 DEF One, Connected
    <2>. QED  BY <1>6, <1>8, <2>1
  <1>10. ASSUME con.channel = "registered"
         PROVE  direct /\ "Restart" \in did
    <2>1. Load(con) >= 2
      <3>1. Load(con) = con.timers + con.due + 1
        BY <1>10 DEF Load, One
      <3>. QED  BY <1>3, <3>1
    <2>2. ~(Attempts <= 1)
      BY <2>1, CountsType
    <2>. QED  BY <2>2 DEF ClientInv, AttemptsBounded, CallsRemembered
  <1>11. FaultsExplained'
    BY <1>1, <1>7, <1>10 DEF FaultsExplained
  <1>. QED  BY <1>1, <1>2, <1>7, <1>9, <1>11, NothingAdded DEF ClientInv

LEMMA RunFunctorStep ==
    ASSUME ClientInv, con.fault = "none", RunFunctor
    PROVE  ClientInv'
  <1>1. /\ functors # <<>> /\ functors' = Tail(functors) /\ did' = did
        /\ con' \in IF client = "gone" THEN {Faulty(con, "dead connector")}
                    ELSE IF Head(functors) = "start" THEN StartInLoop(con)
                    ELSE StopInLoop(con)
        /\ UNCHANGED <<direct, conn, held, retry_, client>>
    BY DEF RunFunctor, NoCall
  <1>2. /\ Ordered(con) /\ ~con.inEvent
        /\ functors \in Seq({"start", "stop"})
    BY DEF ClientInv, Typed
  <1>3. /\ functors' \in Seq({"start", "stop"})
        /\ Head(functors) \in {"start", "stop"}
        /\ Queued(Head(functors))
        /\ \A what : Queued(what)' => Queued(what)
    <2>1. Range(functors) = {Head(functors)} \union Range(Tail(functors))
      BY <1>1, <1>2, RangeHeadTail
    <2>2. functors' \in Seq({"start", "stop"})
      BY <1>1, <1>2, HeadTailProperties, Zenon
    <2>3. Head(functors) \in {"start", "stop"}
      BY <1>1, <1>2, HeadTailProperties, Zenon
    <2>. QED  BY <1>1, <2>1, <2>2, <2>3 DEF Queued
  <1>4. /\ DOMAIN functors' = 1 .. Len(functors) - 1
        /\ DOMAIN functors = 1 .. Len(functors) /\ Len(functors) \in Nat
        /\ \A i \in DOMAIN functors' : functors'[i] = functors[i + 1]
        /\ Head(functors) = functors[1]
    <2>1. /\ Tail(functors) \in Seq({"start", "stop"})
          /\ Len(Tail(functors)) = Len(functors) - 1
          /\ \A i \in 1 .. Len(Tail(functors)) :
                Tail(functors)[i] = functors[i + 1]
      BY <1>1, <1>2, HeadTailProperties, Zenon
    <2>2. Head(functors) = functors[1]
      <3>1. functors # <<>> /\ functors \in Seq({"start", "stop"})
        BY <1>1, <1>2
      <3>. QED  BY <3>1
    <2>3. /\ DOMAIN functors = 1 .. Len(functors) /\ Len(functors) \in Nat
          /\ DOMAIN Tail(functors) = 1 .. Len(Tail(functors))
      BY <1>2, <2>1
    <2>. QED  BY <1>1, <2>1, <2>2, <2>3
  <1>5. StartsOnce'
    <2>. SUFFICES ASSUME NEW i \in DOMAIN functors', NEW j \in DOMAIN functors',
                         functors'[i] = "start", functors'[j] = "start"
                  PROVE  i = j
      BY DEF StartsOnce
    <2>1. /\ i + 1 \in DOMAIN functors /\ j + 1 \in DOMAIN functors
          /\ i \in Int /\ j \in Int
      BY <1>4
    <2>2. i + 1 = j + 1
      BY <1>4, <2>1 DEF ClientInv, StartsOnce
    <2>. QED  BY <2>1, <2>2
  <1>6. Head(functors) = "start" => ~Queued("start")'
    <2>. SUFFICES ASSUME Head(functors) = "start", Queued("start")'
                  PROVE  FALSE
      OBVIOUS
    <2>1. PICK i \in DOMAIN functors' : functors'[i] = "start"
      BY DEF Queued, Range
    <2>2. /\ i + 1 \in DOMAIN functors /\ 1 \in DOMAIN functors
          /\ functors[i + 1] = "start" /\ functors[1] = "start" /\ i \in 1 .. Len(functors) - 1
      BY <1>4, <2>1
    <2>3. i + 1 = 1
      BY <2>2 DEF ClientInv, StartsOnce
    <2>. QED  BY <1>4, <2>2, <2>3
  <1>7. CallsRemembered'
    BY <1>1, <1>3 DEF ClientInv, CallsRemembered
  <1>8. /\ Ordered(con') /\ ~con'.inEvent
        /\ \/ con'.fault = "none"
           \/ client = "gone" /\ con'.fault = "dead connector"
           \/ /\ con'.fault = "assert registered" /\ con.channel = "registered"
              /\ Head(functors) = "start"
           \/ con'.fault = "epoll_ctl" /\ Head(functors) = "stop"
    <2>1. CASE client = "gone"
      <3>1. "dead connector" \in Faults \ {"none"}
        BY DEF Faults
      <3>2. /\ Ordered(con') /\ Same(con, con')
            /\ con'.fault = "dead connector"
        BY <1>1, <1>2, <2>1, <3>1, FaultyOrdered
      <3>. QED  BY <1>2, <2>1, <3>2 DEF Same
    <2>2. CASE client # "gone" /\ Head(functors) = "start"
      <3>1. con' \in StartInLoop(con)
        BY <1>1, <2>2
      <3>2. /\ Ordered(con') /\ Same(con, con')
            /\ \/ con'.fault = "none"
               \/ con'.fault = "assert registered" /\ con.channel = "registered"
        BY <1>2, <3>1, StartOrdered
      <3>. QED  BY <1>2, <2>2, <3>2 DEF Same
    <2>3. CASE client # "gone" /\ Head(functors) # "start"
      <3>1. con' \in StopInLoop(con)
        BY <1>1, <2>3
      <3>2. /\ Ordered(con') /\ Same(con, con')
            /\ con'.fault = "none" \/ con'.fault = "epoll_ctl"
        BY <1>2, <3>1, StopInLoopOrdered
      <3>. QED  BY <1>2, <1>3, <2>3, <3>2 DEF Same
    <2>. QED  BY <2>1, <2>2, <2>3
  <1>9. Typed'
    BY <1>1, <1>3, <1>8 DEF ClientInv, Typed
  <1>10. Load(con') \in Nat /\ Load(con) \in Nat
    BY <1>2, <1>8, LoadType
  <1>11. \/ Load(con') <= Load(con)
         \/ Head(functors) = "start" /\ Load(con') <= Load(con) + 1
    <2>1. CASE client = "gone"
      <3>1. "dead connector" \in Faults \ {"none"}
        BY DEF Faults
      <3>2. Load(con') = Load(con)
        BY <1>1, <1>2, <2>1, <3>1, FaultyOrdered
      <3>. QED  BY <1>10, <3>2
    <2>2. CASE client # "gone" /\ Head(functors) = "start"
      BY <1>1, <1>2, <2>2, StartOrdered
    <2>3. CASE client # "gone" /\ Head(functors) # "start"
      BY <1>1, <1>2, <2>3, StopInLoopOrdered
    <2>. QED  BY <2>1, <2>2, <2>3
  <1>12. AttemptsBounded'
    <2>. DEFINE q == One(Queued("start"))
                p == One(Queued("start")')
                n == One(Connected)
    <2>1. Attempts = Load(con) + q + n /\ q \in {0, 1} /\ n \in {0, 1}
      BY CountsType
    <2>2. Connected' = Connected
      BY <1>1 DEF Connected
    <2>3. Attempts' = Load(con') + p + n
      BY <2>2 DEF Attempts, Load, One
    <2>4. p \in {0, 1} /\ p <= q
      BY <1>3 DEF One
    <2>5. Head(functors) = "start" => q = 1 /\ p = 0
      BY <1>3, <1>6 DEF One
    <2>. HIDE DEF q, p, n
    <2>6. Attempts' <= Attempts /\ Attempts' \in Nat /\ Attempts \in Nat
      BY <1>10, <1>11, <2>1, <2>3, <2>4, <2>5
    <2>7. did' = did
      BY <1>1
    <2>. QED  BY <2>6, <2>7 DEF ClientInv, AttemptsBounded
  <1>13. ASSUME con.channel = "registered", Head(functors) = "start"
         PROVE  direct /\ "Restart" \in did
    <2>. DEFINE q == One(Queued("start"))
    <2>1. Load(con) = con.timers + con.due + 1 /\ q = 1
      BY <1>3, <1>13 DEF Load, One
    <2>2. con.timers \in Nat /\ con.due \in Nat
      BY CountsType
    <2>3. One(Connected) \in {0, 1} /\ Attempts = Load(con) + q + One(Connected)
      BY CountsType
    <2>. HIDE DEF q
    <2>4. ~(Attempts <= 1)
      BY <2>1, <2>2, <2>3
    <2>. QED  BY <2>4 DEF ClientInv, AttemptsBounded, CallsRemembered
  <1>14. /\ client = "gone" => "Destroy" \in did
         /\ Head(functors) = "stop" => "Stop" \in did
    BY <1>3 DEF ClientInv, CallsRemembered
  <1>15. FaultsExplained'
    BY <1>1, <1>8, <1>13, <1>14 DEF FaultsExplained
  <1>. QED  BY <1>5, <1>7, <1>9, <1>12, <1>15 DEF ClientInv

\* What is appended to the functors.
LEMMA Queue ==
    ASSUME functors \in Seq({"start", "stop"}), NEW f \in {"start", "stop"},
           functors' = Append(functors, f)
    PROVE  /\ functors' \in Seq({"start", "stop"})
           /\ \A what : Queued(what)' <=> (Queued(what) \/ what = f)
           /\ StartsOnce /\ (f = "start" => ~Queued("start")) => StartsOnce'
  <1>1. functors' \in Seq({"start", "stop"})
    OBVIOUS
  <1>2. Range(functors') = Range(functors) \union {f}
    BY RangeAppend
  <1>3. /\ DOMAIN functors = 1 .. Len(functors) /\ Len(functors) \in Nat
        /\ DOMAIN functors' = 1 .. Len(functors) + 1
        /\ \A i \in 1 .. Len(functors) : functors'[i] = functors[i]
        /\ functors'[Len(functors) + 1] = f
    OBVIOUS
  <1>4. ASSUME StartsOnce, f = "start" => ~Queued("start"),
               NEW i \in DOMAIN functors', NEW j \in DOMAIN functors',
               functors'[i] = "start", functors'[j] = "start"
        PROVE  i = j
    <2>1. \A k \in 1 .. Len(functors) + 1 :
              k \in 1 .. Len(functors) \/ k = Len(functors) + 1
      BY <1>3
    <2>2. ASSUME f = "start", NEW k \in 1 .. Len(functors),
                 functors'[k] = "start"
          PROVE  FALSE
      BY <1>3, <1>4, <2>2 DEF Queued, Range
    <2>3. CASE i \in 1 .. Len(functors) /\ j \in 1 .. Len(functors)
      BY <1>3, <1>4, <2>3 DEF StartsOnce
    <2>. QED  BY <1>3, <1>4, <2>1, <2>2, <2>3
  <1>5. StartsOnce /\ (f = "start" => ~Queued("start")) => StartsOnce'
    BY <1>4 DEF StartsOnce
  <1>. QED  BY <1>1, <1>2, <1>5 DEF Queued

LEMMA ConnectStep ==
    ASSUME ClientInv, con.fault = "none", Connect
    PROVE  ClientInv'
  <1>1. /\ "Connect" \notin did /\ did' = did \union {"Connect"}
        /\ UNCHANGED <<direct, conn, held, retry_, client>>
    BY DEF Connect, Did
  <1>2. /\ Ordered(con) /\ ~con.inEvent /\ StartsOnce
        /\ functors \in Seq({"start", "stop"})
    BY DEF ClientInv, Typed
  <1>3. Attempts = 0
    BY <1>1 DEF ClientInv, AttemptsBounded
  <1>4. /\ Load(con) = 0 /\ ~Connected /\ ~Queued("start")
        /\ con.channel # "registered"
    <2>. DEFINE l == Load(con)
                q == One(Queued("start"))
                n == One(Connected)
    <2>1. l \in Nat /\ q \in {0, 1} /\ n \in {0, 1} /\ Attempts = l + q + n
      BY CountsType
    <2>2. l = con.timers + con.due + One(con.channel = "registered")
      BY DEF Load
    <2>3. l = 0 /\ q = 0 /\ n = 0
      <3>. HIDE DEF l, q, n
      <3>. QED  BY <1>3, <2>1
    <2>4. One(con.channel = "registered") = 0
      <3>. HIDE DEF l, q, n
      <3>. QED  BY <2>2, <2>3, CountsType
    <2>. QED  BY <2>3, <2>4 DEF One
  <1>5. ~Connected'
    BY <1>1, <1>4 DEF Connected
  <1>6. "Restart" \in did' => "Restart" \in did
    BY <1>1
  <1>7. CASE con' \in StartInLoop(con) /\ functors' = functors
    <2>1. Ordered(con') /\ Same(con, con') /\ con'.fault = "none"
      BY <1>2, <1>4, <1>7, StartOrdered
    <2>2. Load(con') <= 1 /\ Load(con') \in Nat
      <3>1. Load(con') <= Load(con) + 1
        BY <1>2, <1>7, StartOrdered
      <3>2. Load(con') \in Nat /\ Load(con) = 0
        BY <1>4, <2>1, LoadType
      <3>. QED  BY <3>1, <3>2
    <2>3. ~con'.inEvent
      BY <1>2, <2>1 DEF Same
    <2>4. ~Queued("start")' /\ Queued("stop")' = Queued("stop")
      BY <1>4, <1>7 DEF Queued
    <2>5. Typed' /\ StartsOnce'
      BY <1>1, <1>7, <2>1, <2>3 DEF ClientInv, Typed, StartsOnce
    <2>6. CallsRemembered'
      BY <1>1, <1>6, <2>4 DEF ClientInv, CallsRemembered
    <2>7. Attempts' <= 1
      <3>1. Attempts' = Load(con') + 0 + 0
        BY <1>5, <2>4 DEF Attempts, Load, One
      <3>. QED  BY <2>2, <3>1
    <2>8. AttemptsBounded'
      <3>1. Attempts' <= MaxTimers
        <4>1. Attempts' = Load(con') + 0 + 0
          BY <1>5, <2>4 DEF Attempts, Load, One
        <4>. QED  BY <2>2, <4>1
      <3>. QED  BY <1>1, <2>7, <3>1 DEF AttemptsBounded
    <2>9. FaultsExplained'
      BY <2>1, NoFault
    <2>. QED  BY <2>5, <2>6, <2>8, <2>9 DEF ClientInv
  <1>8. CASE functors' = Append(functors, "start") /\ con' = con
    <2>1. /\ functors' \in Seq({"start", "stop"})
          /\ Queued("start")' /\ (Queued("stop")' => Queued("stop"))
          /\ StartsOnce'
      BY <1>2, <1>4, <1>8, Queue
    <2>2. Typed'
      BY <1>1, <1>8, <2>1 DEF ClientInv, Typed
    <2>3. CallsRemembered'
      BY <1>1, <1>6, <2>1 DEF ClientInv, CallsRemembered
    <2>4. AttemptsBounded'
      <3>1. Attempts' = Load(con') + 1 + 0
        BY <1>5, <2>1 DEF Attempts, Load, One
      <3>2. Load(con') = 0
        BY <1>4, <1>8
      <3>3. Attempts' = 1
        BY <3>1, <3>2
      <3>. QED  BY <1>1, <3>3 DEF AttemptsBounded
    <2>5. FaultsExplained'
      BY <1>8, NoFault
    <2>. QED  BY <2>1, <2>2, <2>3, <2>4, <2>5 DEF ClientInv
  <1>. QED  BY <1>7, <1>8 DEF Connect

LEMMA CallStopStep ==
    ASSUME ClientInv, con.fault = "none", CallStop
    PROVE  ClientInv'
  <1>1. /\ did' = did \union {"Stop"}
        /\ UNCHANGED <<direct, conn, held, retry_, client>>
    BY DEF CallStop, Did
  <1>2. /\ Ordered(con) /\ ~con.inEvent /\ StartsOnce
        /\ functors \in Seq({"start", "stop"})
        /\ conn \in {"none", "up", "closing"} /\ (direct => conn = "none")
    BY DEF ClientInv, Typed, CallsRemembered
  <1>3. did \subseteq did' /\ ("Restart" \in did' => "Restart" \in did)
    BY <1>1
  <1>4. /\ One(conn' # "none") = One(Connected) /\ One(Connected) \in {0, 1}
    BY <1>1 DEF One, Connected
  <1>5. CASE con' \in Stop(con) /\ functors' = functors
    <2>1. /\ Ordered(con') /\ Same(con, con')
          /\ con'.fault = "none" \/ con'.fault = "epoll_ctl"
      BY <1>2, <1>5, StopOrdered
    <2>2. /\ Load(con') <= Load(con) /\ Load(con') \in Nat
          /\ Load(con) \in Nat
      BY <1>2, <1>5, <2>1, StopOrdered, LoadType
    <2>3. ~con'.inEvent
      BY <1>2, <2>1 DEF Same
    <2>4. Load(con') + One(conn' # "none") <= Load(con) + One(Connected)
      BY <1>4, <2>2
    <2>5. FaultsExplained'
      BY <1>1, <2>1 DEF FaultsExplained
    <2>. QED
      BY <1>1, <1>2, <1>3, <1>5, <2>1, <2>3, <2>4, <2>5, NothingAdded
         DEF ClientInv
  <1>6. CASE /\ functors' = Append(functors, "stop")
             /\ con' = [con EXCEPT !.stop_ = TRUE]
    <2>1. /\ functors' \in Seq({"start", "stop"})
          /\ Queued("start")' <=> Queued("start")
          /\ StartsOnce'
      <3>1. functors' = Append(functors, "stop") /\ "stop" \in {"start", "stop"}
        BY <1>6
      <3>. QED  BY <1>2, <3>1, Queue
    <2>2. con \in ConnectorType
      BY <1>2 DEF Ordered
    <2>3. /\ con' \in ConnectorType
          /\ con'.fault = con.fault /\ con'.channel = con.channel
          /\ con'.timers = con.timers /\ con'.due = con.due
          /\ con'.indexed = con.indexed /\ con'.inEvent = con.inEvent
          /\ con'.connecting_ = con.connecting_
          /\ con'.socket_ = con.socket_
      BY <1>6, <2>2 DEF ConnectorType
    <2>4. Ordered(con') /\ ~con'.inEvent
      BY <1>2, <2>3 DEF Ordered
    <2>5. Load(con') = Load(con)
      BY <2>3 DEF Load
    <2>6. Typed'
      BY <1>1, <2>1, <2>4 DEF ClientInv, Typed
    <2>7. CallsRemembered'
      BY <1>1, <1>3 DEF ClientInv, CallsRemembered
    <2>8. AttemptsBounded'
      <3>1. Connected' = Connected
        BY <1>1 DEF Connected
      <3>2. Attempts' = Attempts
        BY <2>1, <2>5, <3>1 DEF Attempts, Load, One
      <3>. QED  BY <1>3, <3>2 DEF ClientInv, AttemptsBounded
    <2>9. FaultsExplained'
      BY <2>3, NoFault
    <2>. QED  BY <2>1, <2>6, <2>7, <2>8, <2>9 DEF ClientInv
  <1>. QED  BY <1>5, <1>6 DEF CallStop

\* The only step that may add to what is going already.
LEMMA CallRestartStep ==
    ASSUME ClientInv, con.fault = "none", CallRestart
    PROVE  ClientInv'
  <1>1. /\ direct /\ "Connect" \in did /\ did' = did \union {"Restart"}
        /\ con.timers + con.due < MaxTimers
        /\ \A i \in DOMAIN functors : functors[i] # "start"
        /\ UNCHANGED <<direct, conn, held, retry_, functors, client>>
    BY DEF CallRestart, Did
  <1>2. con' \in Restart(con)
    BY DEF CallRestart
  <1>3. Ordered(con) /\ ~con.inEvent
    BY DEF ClientInv, Typed
  <1>4. Ordered(con') /\ Same(con, con') /\ con'.fault = "none"
    BY <1>2, <1>3, RestartOrdered
  <1>5. ~con'.inEvent
    BY <1>3, <1>4 DEF Same
  <1>6. ~Queued("start")' /\ Queued("stop")' = Queued("stop")
    BY <1>1 DEF Queued, Range
  <1>7. ~Connected'
    BY <1>1 DEF ClientInv, CallsRemembered, Connected
  <1>8. Typed' /\ StartsOnce'
    BY <1>1, <1>4, <1>5 DEF ClientInv, Typed, StartsOnce
  <1>9. CallsRemembered'
    BY <1>1, <1>6 DEF ClientInv, CallsRemembered
  <1>10. AttemptsBounded'
    <2>1. Attempts' = Load(con') + 0 + 0
      BY <1>6, <1>7 DEF Attempts, Load, One
    <2>2. Load(con') \in Nat /\ con.timers \in Nat /\ con.due \in Nat
      BY <1>4, CountsType, LoadType
    <2>3. Load(con') <= con.timers + con.due + 1
      BY <1>2, <1>3, RestartOrdered
    <2>4. con.timers + con.due < MaxTimers
      BY <1>1
    <2>5. Attempts' <= MaxTimers
      BY <2>1, <2>2, <2>3, <2>4
    <2>6. "Restart" \in did' /\ "Connect" \in did'
      BY <1>1
    <2>. QED  BY <2>5, <2>6 DEF AttemptsBounded
  <1>11. FaultsExplained'
    BY <1>4, NoFault
  <1>. QED  BY <1>8, <1>9, <1>10, <1>11 DEF ClientInv

LEMMA SetAutoRetryStep ==
    ASSUME ClientInv, con.fault = "none", SetAutoRetry
    PROVE  ClientInv'
  <1>1. /\ did' = did \union {"SetAutoRetry"}
        /\ UNCHANGED <<direct, con, conn, held, functors, client>>
    BY DEF SetAutoRetry, Did
  <1>2. /\ Ordered(con) /\ ~con.inEvent
        /\ conn \in {"none", "up", "closing"} /\ (direct => conn = "none")
    BY DEF ClientInv, Typed, CallsRemembered
  <1>3. did \subseteq did' /\ ("Restart" \in did' => "Restart" \in did)
    BY <1>1
  <1>4. Load(con') + One(conn' # "none") <= Load(con) + One(Connected)
    <2>1. One(conn' # "none") = One(Connected) /\ Load(con') = Load(con)
      BY <1>1 DEF One, Connected
    <2>2. Load(con) \in Nat /\ One(Connected) \in {0, 1}
      BY CountsType
    <2>. QED  BY <2>1, <2>2
  <1>5. FaultsExplained'
    BY <1>1, NoFault
  <1>. QED  BY <1>1, <1>2, <1>3, <1>4, <1>5, NothingAdded DEF ClientInv

LEMMA DestroyStep ==
    ASSUME ClientInv, con.fault = "none", Destroy
    PROVE  ClientInv'
  <1>1. /\ did' = did \union {"Destroy"} /\ client' = "gone"
        /\ UNCHANGED <<direct, conn, held, retry_, functors>>
    BY DEF Destroy, Did
  <1>2. con' \in IF Connected /\ ~held THEN {Faulty(con, "~TcpConnection")}
                 ELSE Stop(con)
    BY DEF Destroy
  <1>3. Ordered(con) /\ ~con.inEvent
    BY DEF ClientInv, Typed
  <1>4. "~TcpConnection" \in Faults \ {"none"}
    BY DEF Faults
  <1>5. /\ Ordered(con') /\ Same(con, con')
        /\ con'.fault \in {"none", "epoll_ctl", "~TcpConnection"}
    <2>1. CASE Connected /\ ~held
      BY <1>2, <1>3, <1>4, <2>1, FaultyOrdered
    <2>2. CASE ~(Connected /\ ~held)
      BY <1>2, <1>3, <2>2, StopOrdered
    <2>. QED  BY <2>1, <2>2
  <1>6. Load(con') <= Load(con) /\ Load(con') \in Nat /\ Load(con) \in Nat
    <2>1. Load(con') \in Nat /\ Load(con) \in Nat
      BY <1>3, <1>5, LoadType
    <2>2. CASE Connected /\ ~held
      <3>1. Load(con') = Load(con)
        BY <1>2, <1>3, <1>4, <2>2, FaultyOrdered
      <3>. QED  BY <2>1, <3>1
    <2>3. CASE ~(Connected /\ ~held)
      BY <1>2, <1>3, <2>1, <2>3, StopOrdered
    <2>. QED  BY <2>2, <2>3
  <1>7. ~con'.inEvent
    BY <1>3, <1>5 DEF Same
  <1>8. Typed' /\ StartsOnce'
    BY <1>1, <1>5, <1>7 DEF ClientInv, Typed, StartsOnce
  <1>9. /\ Queued("start")' = Queued("start") /\ Queued("stop")' = Queued("stop")
        /\ Connected' = Connected
    BY <1>1 DEF Queued, Connected
  <1>10. did \subseteq did' /\ ("Restart" \in did' => "Restart" \in did)
    BY <1>1
  <1>11. CallsRemembered'
    BY <1>1, <1>9, <1>10 DEF ClientInv, CallsRemembered
  <1>12. AttemptsBounded'
    <2>. DEFINE q == One(Queued("start"))
                n == One(Connected)
    <2>1. Attempts = Load(con) + q + n /\ q \in {0, 1} /\ n \in {0, 1}
      BY CountsType
    <2>2. Attempts' = Load(con') + q + n
      BY <1>9 DEF Attempts, Load, One
    <2>. HIDE DEF q, n
    <2>3. Attempts' <= Attempts /\ Attempts' \in Nat /\ Attempts \in Nat
      BY <1>6, <2>1, <2>2
    <2>. QED  BY <1>10, <2>3 DEF ClientInv, AttemptsBounded
  <1>13. FaultsExplained'
    BY <1>1, <1>5 DEF FaultsExplained
  <1>. QED  BY <1>8, <1>11, <1>12, <1>13 DEF ClientInv

-----------------------------------------------------------------------------
(* The theorems *)

LEMMA ClientInvInit ==
    ASSUME Init
    PROVE  ClientInv
  <1>1. /\ con.timers = 0 /\ con.due = 0 /\ con.channel = "none"
        /\ con.fault = "none" /\ ~con.inEvent /\ ~con.connecting_
        /\ ~con.indexed /\ con \in ConnectorType
    <2>1. InitRetryDelay \in InitRetryDelay .. MaxRetryDelay
      OBVIOUS
    <2>. QED  BY <2>1 DEF Init, InitConnector, ConnectorType, Faults
  <1>2. Ordered(con)
    BY <1>1 DEF Ordered
  <1>3. functors = <<>> /\ <<>> \in Seq({"start", "stop"}) /\ did = {}
    BY DEF Init
  <1>4. Typed
    BY <1>1, <1>2, <1>3 DEF Init, Typed
  <1>5. \A what : ~Queued(what)
    BY <1>3, RangeEmpty DEF Queued
  <1>6. StartsOnce
    BY <1>3 DEF StartsOnce
  <1>7. CallsRemembered
    BY <1>5 DEF Init, CallsRemembered
  <1>8. AttemptsBounded
    <2>1. Attempts = 0 + 0 + 0
      BY <1>1, <1>5 DEF Init, Attempts, Load, One, Connected
    <2>. QED  BY <2>1 DEF AttemptsBounded
  <1>9. FaultsExplained
    BY <1>1 DEF FaultsExplained
  <1>. QED  BY <1>4, <1>6, <1>7, <1>8, <1>9 DEF ClientInv

LEMMA ClientInvStep ==
    ASSUME ClientInv, [Next]_vars
    PROVE  ClientInv'
  <1>1. CASE UNCHANGED vars
    <2>1. UNCHANGED <<direct, con, conn, held, functors, client, did>>
      BY <1>1 DEF vars
    <2>2. Typed' /\ StartsOnce' /\ CallsRemembered'
      BY <2>1 DEF ClientInv, Typed, StartsOnce, CallsRemembered, Queued
    <2>3. Attempts' = Attempts
      BY <2>1 DEF Attempts, Load, One, Queued, Connected
    <2>4. AttemptsBounded'
      BY <2>1, <2>3 DEF ClientInv, AttemptsBounded
    <2>5. FaultsExplained'
      BY <2>1 DEF ClientInv, FaultsExplained
    <2>. QED  BY <2>2, <2>4, <2>5 DEF ClientInv
  <1>2. CASE Next
    <2>1. con.fault = "none"
      BY <1>2 DEF Next
    <2>2. CASE CloseInEvent
      BY <2>1, <2>2, HandleCloseStep DEF CloseInEvent
    <2>3. CASE ForceClose
      BY <2>1, <2>3, HandleCloseStep DEF ForceClose
    <2>. QED
      BY <1>2, <2>1, <2>2, <2>3, ResetInEventStep, DisconnectStep,
         CloseWithoutClientStep, AttemptFailsStep, AttemptSucceedsStep,
         TimersExpireStep, RunRetryStep, RunFunctorStep, ConnectStep,
         CallStopStep, CallRestartStep, SetAutoRetryStep, DestroyStep DEF Next
  <1>. QED  BY <1>1, <1>2

LEMMA ClientInvariant == Spec => []ClientInv
  BY ClientInvInit, ClientInvStep, PTL DEF Spec

\* Every variable has its type: among others, the retry timers are counted
\* down as they are counted up, and the connector has a socket and a
\* registered channel whenever it believes to be connecting (Connector.cc).
THEOREM TypeCorrect == Spec => []TypeOK
  <1>1. ASSUME ClientInv
        PROVE  TypeOK
    <2>1. /\ con \in ConnectorType /\ Ordered(con) /\ ~con.inEvent
      BY <1>1 DEF ClientInv, Typed, Ordered
    <2>2. con.timers <= MaxTimers /\ con.due <= MaxTimers
      <3>. DEFINE l == Load(con)
                  q == One(Queued("start"))
                  n == One(Connected)
                  a == One(con.channel = "registered")
      <3>1. /\ con.timers \in Nat /\ con.due \in Nat
            /\ a \in {0, 1} /\ q \in {0, 1} /\ n \in {0, 1}
            /\ Attempts = l + q + n /\ Attempts <= MaxTimers
        BY <1>1, CountsType
      <3>2. l = con.timers + con.due + a
        BY DEF Load
      <3>. HIDE DEF l, q, n, a
      <3>. QED  BY <3>1, <3>2
    <2>3. /\ con.timers \in 0 .. MaxTimers /\ con.due \in 0 .. MaxTimers
      BY <1>1, <2>2, CountsType
    <2>4. con.retryDelay_ \in InitRetryDelay .. MaxRetryDelay
          /\ con.channel \in {"none", "idle", "registered"}
      BY <2>1 DEF ConnectorType
    <2>. QED
      BY <1>1, <2>1, <2>3, <2>4 DEF TypeOK, ClientInv, Typed, Ordered
  <1>. QED  BY <1>1, ClientInvariant, PTL

\* A client has one timer, attempt or connection at a time (TcpClient.cc
\* HandleClose, Connector.cc Retry, Restart).
THEOREM OneAtATime == Spec => []OneAttempt
  <1>1. ASSUME ClientInv
        PROVE  OneAttempt
    <2>. SUFFICES ASSUME ~direct
                  PROVE  /\ ~(con.timers + con.due > 1)
                         /\ ~(/\ con.timers + con.due > 0
                              /\ con.connecting_ \/ Connected)
                         /\ ~(con.connecting_ /\ Connected)
      BY DEF OneAttempt
    <2>. DEFINE l == Load(con)
                q == One(Queued("start"))
                n == One(Connected)
                a == One(con.channel = "registered")
    <2>1. /\ con.timers \in Nat /\ con.due \in Nat
          /\ a \in {0, 1} /\ q \in {0, 1} /\ n \in {0, 1}
          /\ Attempts = l + q + n
      BY <1>1, CountsType
    <2>2. l = con.timers + con.due + a
      BY DEF Load
    <2>3. Attempts <= 1
      BY <1>1 DEF ClientInv, CallsRemembered, AttemptsBounded
    <2>4. (con.connecting_ => a = 1) /\ (Connected => n = 1)
      BY <1>1 DEF ClientInv, Typed, Ordered, One
    <2>. HIDE DEF l, q, n, a
    <2>5. con.timers + con.due + a + n <= 1
      BY <2>1, <2>2, <2>3
    <2>. QED  BY <2>1, <2>4, <2>5
  <1>. QED  BY <1>1, ClientInvariant, PTL

\* Whatever the order of events, timers, functors and calls, the process
\* goes wrong only for a reason that its user has given (Connector.cc,
\* TcpClient.cc, Channel.cc).
THEOREM FaultsCorrect == Spec => []FaultsExplained
  <1>1. ClientInv => FaultsExplained
    BY DEF ClientInv
  <1>. QED  BY <1>1, ClientInvariant, PTL

-----------------------------------------------------------------------------
(* ServerLife: what holds between the steps of the server *)

Ops == {"ConnectionEstablished", "ConnectionDestroyed", "RemoveConnection"}
FunctorType == [op : Ops, conn : Clients]
Mains == {"constructed", "starting", "serving", "destroying", "gone"}
Places == {"none", "created", "counted", "published", "while", "poll", "swap",
           "run", "exited"}
States == {"absent", "waiting", "turned away", "kConnecting", "kConnected",
           "kDisconnected", "removed"}
Queues == [Loops -> Seq(FunctorType)]

ServerTyped ==
    /\ main \in Mains /\ starts \in Nat
    /\ numThreads \in 0 .. MaxThreads
    /\ thread \in [Threads -> Places] /\ quit_ \in [Threads -> BOOLEAN]
    /\ waking \in Loops
    /\ queue \in Queues /\ batch \in Queues
    /\ state_ \in [Clients -> States]
    /\ connections_ \in SUBSET Clients /\ loopOf \in [Clients -> Loops]
    /\ next_ \in 0 .. numThreads
    /\ accepting \in {"no", "reserve", "reopen"}
    /\ placeholder \in BOOLEAN /\ others \in Nat /\ raced \in BOOLEAN
    /\ left \in SUBSET Clients

\* Where the main thread is, and what connections there are by then.
ConnsPlaced ==
    /\ starts = 0 => /\ next_ = 0 /\ Accepted = {}
                     /\ main \in {"constructed", "destroying", "gone"}
    /\ \A c \in Accepted : (loopOf[c] = 0) <=> (numThreads = 0)
    /\ left # {} => main \in {"destroying", "gone"}

\* What has become of the loop threads by then.
ThreadsPlaced ==
    /\ \A i \in Threads : quit_[i] => main \in {"destroying", "gone"}
    /\ main = "gone" => \A i \in Threads : thread[i] \in {"none", "exited"}
    /\ waking # 0 => main = "destroying" /\ quit_[waking] /\ Running(waking)

QueuesPlaced ==
    /\ \A i \in Threads : (batch[i] # <<>>) <=> (thread[i] = "run")
    /\ batch[0] = <<>>
    /\ \A f \in Range(queue[0]) : f.op = "RemoveConnection"

HeldFiles == {c \in Accepted : Held(c)}

\* What the acceptor has given up, somebody else has taken, or is free.
FilesCounted ==
    /\ IsFiniteSet(HeldFiles) /\ FreeFiles \in Nat
    /\ accepting # "no" =>
        main = "serving" /\ ~placeholder /\ (raced \/ FreeFiles > 0)
    /\ accepting = "reserve" => Waiting # {}
    /\ accepting = "no" /\ ~placeholder => raced \/ main = "gone"

\* What loop l has yet to run, whether it has taken it from its queue or not.
DueOf(B, Q) == [l \in Loops |-> B[l] \o Q[l]]
Due == DueOf(batch, queue)

NoneTwice(q) == \A i, j \in DOMAIN q : q[i].conn = q[j].conn => i = j

\* A functor that is due in loop l finds its connection as it should.
FitsIn(l, f, st, C, loop) ==
    \/ /\ l = 0 /\ f.op = "RemoveConnection" /\ loop[f.conn] # 0
       /\ st[f.conn] = "kDisconnected" /\ f.conn \in C
    \/ /\ l # 0 /\ f.op = "ConnectionEstablished" /\ loop[f.conn] = l
       /\ st[f.conn] = "kConnecting"
    \/ /\ l # 0 /\ f.op = "ConnectionDestroyed" /\ loop[f.conn] = l
       /\ st[f.conn] = "kDisconnected" /\ f.conn \notin C

\* The connections st, of which the server has those in C, their loops, and
\* the functors in D agree.
Agree(D, st, C, loop) ==
    /\ \A l \in Loops : NoneTwice(D[l])
    /\ \A l \in Loops : \A f \in Range(D[l]) : FitsIn(l, f, st, C, loop)
    /\ \A c \in C : st[c] \in {"kConnecting", "kConnected", "kDisconnected"}
    /\ \A c \in Clients : st[c] \in {"kConnecting", "kConnected"} => c \in C
    /\ \A c \in Clients \ C :
        st[c] = "kDisconnected" => \E f \in Range(D[loop[c]]) : f.conn = c

\* As long as no connection is left to a server that is destroyed.
Served ==
    left = {} =>
        /\ Agree(Due, state_, connections_, loopOf)
        /\ main \in {"destroying", "gone"} =>
              connections_ = {} /\ \A l \in Loops : Due[l] = <<>>

FaultNames == {"none", "pool started", "CloseFd", "assert(!quit_)", "dead loop",
               "dead server", "freed channel"} \union Ops

\* A connection of the base loop was closed in its own channel's event.
ClosedOnBase ==
    main = "serving" /\ numThreads = 0 /\ \E c \in Clients : state_[c] = "removed"

\* Why a check has failed.
FaultsKnown ==
    /\ fault \in FaultNames
    /\ fault = "freed channel" => ClosedOnBase
    /\ fault = "pool started" => starts > 1
    /\ fault = "CloseFd" => raced
    /\ fault = "assert(!quit_)" => main = "destroying"
    /\ fault = "dead loop" => main = "destroying" /\ quit_[waking]
    /\ fault \in Ops \union {"dead server"} => left # {}

ServerInv ==
    /\ ServerTyped
    /\ ConnsPlaced
    /\ ThreadsPlaced
    /\ QueuesPlaced
    /\ FilesCounted
    /\ Served
    /\ FaultsKnown

-----------------------------------------------------------------------------
(* Functors *)

\* A functor has the types of its fields, and is made of them.
LEMMA FunctorParts ==
    /\ \A f \in FunctorType : f.op \in Ops /\ f.conn \in Clients
    /\ \A op \in Ops, c \in Clients :
          /\ Functor(op, c) \in FunctorType
          /\ Functor(op, c).op = op /\ Functor(op, c).conn = c
  <1>1. \A f \in FunctorType : f.op \in Ops /\ f.conn \in Clients
    BY DEF FunctorType
  <1>2. ASSUME NEW op \in Ops, NEW c \in Clients
        PROVE  /\ Functor(op, c) \in FunctorType
               /\ Functor(op, c).op = op /\ Functor(op, c).conn = c
    BY DEF Functor, FunctorType
  <1>. QED  BY <1>1, <1>2, Zenon

\* One more functor for a connection that has none in the sequence.
LEMMA OnceMore ==
    ASSUME NEW q \in Seq(FunctorType), NEW f \in FunctorType, NoneTwice(q),
           \A g \in Range(q) : g.conn # f.conn
    PROVE  /\ Append(q, f) \in Seq(FunctorType)
           /\ NoneTwice(Append(q, f))
           /\ Range(Append(q, f)) = Range(q) \union {f}
  <1>1. \A i \in DOMAIN q : q[i].conn # f.conn
    BY DEF Range
  <1>2. /\ DOMAIN Append(q, f) = 1 .. Len(q) + 1 /\ DOMAIN q = 1 .. Len(q)
        /\ \A i \in 1 .. Len(q) : Append(q, f)[i] = q[i]
        /\ Append(q, f)[Len(q) + 1] = f
        /\ Append(q, f) \in Seq(FunctorType)
    OBVIOUS
  <1>3. \A i \in 1 .. Len(q) + 1 : i \in 1 .. Len(q) \/ i = Len(q) + 1
    OBVIOUS
  <1>4. NoneTwice(Append(q, f))
    BY <1>1, <1>2, <1>3, Zenon DEF NoneTwice
  <1>5. Range(Append(q, f)) = Range(q) \union {f}
    BY RangeAppend
  <1>. QED  BY <1>2, <1>4, <1>5, Zenon

\* The functors behind the first are for other connections.
LEMMA OnceLess ==
    ASSUME NEW q \in Seq(FunctorType), q # <<>>, NoneTwice(q)
    PROVE  /\ Head(q) \in FunctorType /\ Head(q) \in Range(q)
           /\ Tail(q) \in Seq(FunctorType) /\ NoneTwice(Tail(q))
           /\ Range(Tail(q)) \subseteq Range(q)
           /\ \A f \in Range(q) : f = Head(q) \/ f \in Range(Tail(q))
           /\ \A f \in Range(Tail(q)) : f.conn # Head(q).conn
  <1>1. /\ Tail(q) \in Seq(FunctorType) /\ Head(q) = q[1] /\ 1 \in DOMAIN q
        /\ Head(q) \in FunctorType
        /\ \A i \in DOMAIN Tail(q) :
              i + 1 \in DOMAIN q /\ Tail(q)[i] = q[i + 1] /\ i + 1 # 1
    OBVIOUS
  <1>2. \A i, j \in DOMAIN Tail(q) : i + 1 = j + 1 => i = j
    OBVIOUS
  <1>3. NoneTwice(Tail(q))
    <2>1. ASSUME NEW i \in DOMAIN Tail(q), NEW j \in DOMAIN Tail(q),
                 Tail(q)[i].conn = Tail(q)[j].conn
          PROVE  i = j
      <3>1. q[i + 1].conn = q[j + 1].conn
        BY <1>1, <2>1, Zenon
      <3>2. i + 1 = j + 1
        BY <1>1, <3>1, Zenon DEF NoneTwice
      <3>. QED  BY <1>2, <3>2, Zenon
    <2>. QED  BY <2>1, Zenon DEF NoneTwice
  <1>4. \A i \in DOMAIN Tail(q) : Tail(q)[i].conn # Head(q).conn
    BY <1>1, Zenon DEF NoneTwice
  <1>5. \A f \in Range(Tail(q)) : f.conn # Head(q).conn
    BY <1>4 DEF Range
  <1>6. Range(q) = {Head(q)} \union Range(Tail(q))
    BY RangeHeadTail
  <1>. QED  BY <1>1, <1>3, <1>5, <1>6, Zenon

-----------------------------------------------------------------------------
(* What the steps do to connections and functors *)

\* One loop runs the functor that was due first: it finds the connection as
\* it should, and nothing else is due for that connection.
LEMMA RunFirst ==
    ASSUME NEW D \in Queues, NEW E \in Queues, NEW st \in [Clients -> States],
           NEW C \in SUBSET Clients, NEW loop \in [Clients -> Loops],
           NEW l \in Loops \ {0}, D[l] # <<>>,
           E[l] = Tail(D[l]), \A k \in Loops \ {l} : E[k] = D[k],
           Agree(D, st, C, loop),
           NEW f, f = Head(D[l]),
           NEW s2 \in [Clients -> States],
           \A c \in Clients \ {f.conn} : s2[c] = st[c],
           s2[f.conn] = IF f.op = "ConnectionEstablished" THEN "kConnected"
                        ELSE "removed"
    PROVE  /\ st[f.conn] = IF f.op = "ConnectionEstablished" THEN "kConnecting"
                           ELSE "kDisconnected"
           /\ Agree(E, s2, C, loop)
  <1>. DEFINE c == f.conn
  <1>1. /\ D[l] \in Seq(FunctorType) /\ NoneTwice(D[l])
        /\ \A k \in Loops : D[k] \in Seq(FunctorType) /\ NoneTwice(D[k])
    BY DEF Agree, Queues
  <1>2. /\ f \in FunctorType /\ f \in Range(D[l]) /\ NoneTwice(E[l])
        /\ Range(E[l]) \subseteq Range(D[l])
        /\ \A g \in Range(D[l]) : g = f \/ g \in Range(E[l])
        /\ \A g \in Range(E[l]) : g.conn # c
    <2>. DEFINE q == D[l]
    <2>1. q \in Seq(FunctorType) /\ q # <<>> /\ NoneTwice(q)
      BY <1>1
    <2>2. f = Head(q) /\ E[l] = Tail(q)
      OBVIOUS
    <2>. HIDE DEF q
    <2>3. /\ Head(q) \in FunctorType /\ Head(q) \in Range(q)
          /\ NoneTwice(Tail(q)) /\ Range(Tail(q)) \subseteq Range(q)
          /\ \A g \in Range(q) : g = Head(q) \/ g \in Range(Tail(q))
          /\ \A g \in Range(Tail(q)) : g.conn # Head(q).conn
      BY <2>1, OnceLess, Zenon
    <2>. QED  BY <2>2, <2>3 DEF q
  <1>3. FitsIn(l, f, st, C, loop) /\ c \in Clients
    BY <1>2, FunctorParts, Zenon DEF Agree
  <1>4. /\ loop[c] = l /\ l # 0
        /\ \/ f.op = "ConnectionEstablished" /\ st[c] = "kConnecting"
           \/ f.op = "ConnectionDestroyed" /\ st[c] = "kDisconnected" /\ c \notin C
    BY <1>3 DEF FitsIn
  <1>5. /\ \A k \in Loops : NoneTwice(E[k])
        /\ \A k \in Loops : Range(E[k]) \subseteq Range(D[k])
    BY <1>1, <1>2
  <1>6. ASSUME NEW k \in Loops, NEW g \in Range(E[k])
        PROVE  g.conn # c /\ FitsIn(k, g, st, C, loop) /\ g.conn \in Clients
    <2>1. g \in Range(D[k])
      BY <1>5
    <2>2. FitsIn(k, g, st, C, loop)
      BY <2>1 DEF Agree
    <2>3. g \in FunctorType
      BY <1>1, <2>1 DEF Range
    <2>4. CASE k = l
      BY <1>2, <2>2, <2>3, <2>4, FunctorParts
    <2>5. CASE k # l
      BY <1>4, <2>2, <2>3, <2>5, FunctorParts DEF FitsIn
    <2>. QED  BY <2>4, <2>5
  <1>7. \A k \in Loops : \A g \in Range(E[k]) : FitsIn(k, g, s2, C, loop)
    BY <1>6 DEF FitsIn
  <1>8. \A k \in Loops : \A g \in Range(D[k]) : g.conn # c => g \in Range(E[k])
    BY <1>2
  <1>9. \A d \in C : s2[d] \in {"kConnecting", "kConnected", "kDisconnected"}
    <2>1. c \in C => s2[c] = "kConnected"
      BY <1>4
    <2>. QED  BY <2>1 DEF Agree
  <1>10. \A d \in Clients : s2[d] \in {"kConnecting", "kConnected"} => d \in C
    <2>1. s2[c] = "kConnected" => st[c] = "kConnecting"
      BY <1>4
    <2>2. s2[c] # "kConnecting"
      BY <1>4
    <2>3. st[c] = "kConnecting" => c \in C
      BY <1>3 DEF Agree
    <2>. QED  BY <2>1, <2>2, <2>3 DEF Agree
  <1>11. ASSUME NEW d \in Clients \ C, s2[d] = "kDisconnected"
         PROVE  \E g \in Range(E[loop[d]]) : g.conn = d
    <2>1. d # c /\ st[d] = "kDisconnected"
      BY <1>4, <1>11
    <2>2. PICK g \in Range(D[loop[d]]) : g.conn = d
      BY <2>1 DEF Agree
    <2>3. loop[d] \in Loops
      OBVIOUS
    <2>. QED  BY <1>8, <2>1, <2>2, <2>3
  <1>12. Agree(E, s2, C, loop)
    BY <1>5, <1>7, <1>9, <1>10, <1>11, Zenon DEF Agree
  <1>. QED  BY <1>4, <1>12

\* Functors that are due are of their type, and each is for a connection that
\* is being established or closed.
LEMMA DueFits ==
    ASSUME NEW D \in Queues, NEW st, NEW C, NEW loop, Agree(D, st, C, loop)
    PROVE  \A k \in Loops :
              /\ D[k] \in Seq(FunctorType) /\ NoneTwice(D[k])
              /\ \A g \in Range(D[k]) :
                    /\ g \in FunctorType /\ g.conn \in Clients
                    /\ FitsIn(k, g, st, C, loop)
                    /\ st[g.conn] \in {"kConnecting", "kDisconnected"}
  <1>1. ASSUME NEW k \in Loops
        PROVE  D[k] \in Seq(FunctorType) /\ NoneTwice(D[k])
    BY DEF Agree, Queues
  <1>2. ASSUME NEW k \in Loops, NEW g \in Range(D[k])
        PROVE  /\ g \in FunctorType /\ g.conn \in Clients
               /\ FitsIn(k, g, st, C, loop)
               /\ st[g.conn] \in {"kConnecting", "kDisconnected"}
    <2>1. g \in FunctorType
      BY <1>1 DEF Range
    <2>2. FitsIn(k, g, st, C, loop)
      BY DEF Agree
    <2>. QED  BY <2>1, <2>2, FunctorParts DEF FitsIn
  <1>. QED  BY <1>1, <1>2, Zenon

\* A client that is no connection yet becomes something else of that kind.
LEMMA NoConnectionYet ==
    ASSUME NEW D \in Queues, NEW st \in [Clients -> States],
           NEW C \in SUBSET Clients, NEW loop \in [Clients -> Loops],
           Agree(D, st, C, loop), NEW c \in Clients,
           NEW s2 \in [Clients -> States],
           st[c] \in {"absent", "waiting"}, s2[c] \in {"waiting", "turned away"},
           \A d \in Clients \ {c} : s2[d] = st[d]
    PROVE  Agree(D, s2, C, loop)
  <1>1. \A k \in Loops : \A g \in Range(D[k]) :
            FitsIn(k, g, st, C, loop) /\ g.conn # c /\ g.conn \in Clients
    <2>1. ASSUME NEW k \in Loops, NEW g \in Range(D[k])
          PROVE  FitsIn(k, g, st, C, loop) /\ g.conn # c /\ g.conn \in Clients
      <3>1. /\ FitsIn(k, g, st, C, loop) /\ g.conn \in Clients
            /\ st[g.conn] \in {"kConnecting", "kDisconnected"}
        BY DueFits
      <3>. QED  BY <3>1
    <2>. QED  BY <2>1, Zenon
  <1>2. \A k \in Loops : \A g \in Range(D[k]) : FitsIn(k, g, s2, C, loop)
    <2>1. ASSUME NEW k \in Loops, NEW g \in Range(D[k])
          PROVE  FitsIn(k, g, s2, C, loop)
      <3>1. FitsIn(k, g, st, C, loop) /\ s2[g.conn] = st[g.conn]
        BY <1>1
      <3>. QED  BY <3>1 DEF FitsIn
    <2>. QED  BY <2>1, Zenon
  <1>3. c \notin C
    BY DEF Agree
  <1>4. \A d \in C : s2[d] \in {"kConnecting", "kConnected", "kDisconnected"}
    BY <1>3 DEF Agree
  <1>5. \A d \in Clients : s2[d] \in {"kConnecting", "kConnected"} => d \in C
    BY DEF Agree
  <1>6. \A d \in Clients \ C :
            s2[d] = "kDisconnected" => \E f \in Range(D[loop[d]]) : f.conn = d
    BY DEF Agree
  <1>. QED  BY <1>2, <1>4, <1>5, <1>6, Zenon DEF Agree

\* A connection of the base loop is closed and removed at once.
LEMMA CloseOnBase ==
    ASSUME NEW D \in Queues, NEW st \in [Clients -> States],
           NEW C \in SUBSET Clients, NEW loop \in [Clients -> Loops],
           Agree(D, st, C, loop), NEW c \in Clients,
           NEW s2 \in [Clients -> States],
           st[c] = "kConnected", s2[c] = "removed",
           \A d \in Clients \ {c} : s2[d] = st[d]
    PROVE  Agree(D, s2, C \ {c}, loop)
  <1>. DEFINE B == C \ {c}
  <1>1. \A k \in Loops : \A g \in Range(D[k]) :
            FitsIn(k, g, st, C, loop) /\ g.conn # c /\ g.conn \in Clients
    BY DueFits
  <1>2. \A k \in Loops : \A g \in Range(D[k]) : FitsIn(k, g, s2, B, loop)
    BY <1>1 DEF FitsIn
  <1>3. \A d \in B : s2[d] \in {"kConnecting", "kConnected", "kDisconnected"}
    BY DEF Agree
  <1>4. \A d \in Clients : s2[d] \in {"kConnecting", "kConnected"} => d \in B
    BY DEF Agree
  <1>5. \A d \in Clients \ B :
            s2[d] = "kDisconnected" => \E f \in Range(D[loop[d]]) : f.conn = d
    BY DEF Agree
  <1>. QED  BY <1>2, <1>3, <1>4, <1>5, Zenon DEF Agree

\* A connection of another loop is closed there; the base loop will remove it.
LEMMA CloseOnLoop ==
    ASSUME NEW D \in Queues, NEW E \in Queues, NEW st \in [Clients -> States],
           NEW C \in SUBSET Clients, NEW loop \in [Clients -> Loops],
           Agree(D, st, C, loop), NEW c \in Clients,
           NEW s2 \in [Clients -> States],
           st[c] = "kConnected", s2[c] = "kDisconnected", loop[c] # 0,
           \A d \in Clients \ {c} : s2[d] = st[d],
           0 \in Loops,
           E[0] = Append(D[0], Functor("RemoveConnection", c)),
           \A k \in Loops \ {0} : E[k] = D[k]
    PROVE  Agree(E, s2, C, loop)
  <1>. DEFINE f == Functor("RemoveConnection", c)
              q == D[0]
  <1>0. ASSUME NEW k \in Loops
        PROVE  /\ D[k] \in Seq(FunctorType) /\ NoneTwice(D[k])
               /\ \A g \in Range(D[k]) :
                     /\ FitsIn(k, g, st, C, loop) /\ g.conn \in Clients
                     /\ st[g.conn] \in {"kConnecting", "kDisconnected"}
    BY DueFits, Zenon
  <1>1. \A k \in Loops : /\ D[k] \in Seq(FunctorType) /\ NoneTwice(D[k])
                         /\ \A g \in Range(D[k]) :
                               /\ FitsIn(k, g, st, C, loop)
                               /\ g.conn # c /\ g.conn \in Clients
    BY <1>0
  <1>2. f \in FunctorType /\ f.conn = c /\ f.op = "RemoveConnection"
    <2>1. "RemoveConnection" \in Ops
      BY DEF Ops
    <2>. QED  BY <2>1 DEF FunctorType, Functor
  <1>3. q \in Seq(FunctorType) /\ NoneTwice(q) /\ \A g \in Range(q) : g.conn # c
    BY <1>1
  <1>4. E[0] = Append(q, f)
    OBVIOUS
  <1>. HIDE DEF f, q
  <1>5. NoneTwice(Append(q, f)) /\ Range(Append(q, f)) = Range(q) \union {f}
    BY <1>2, <1>3, OnceMore, Zenon
  <1>6. NoneTwice(E[0]) /\ Range(E[0]) = Range(D[0]) \union {f}
    BY <1>4, <1>5 DEF q
  <1>7. \A k \in Loops : NoneTwice(E[k])
    BY <1>1, <1>6
  <1>8. c \in C
    BY DEF Agree
  <1>9. ASSUME NEW k \in Loops, NEW g \in Range(E[k])
        PROVE  FitsIn(k, g, s2, C, loop)
    <2>1. CASE k = 0 /\ g = f
      BY <1>2, <1>8, <2>1 DEF FitsIn
    <2>2. CASE g \in Range(D[k])
      <3>1. FitsIn(k, g, st, C, loop) /\ s2[g.conn] = st[g.conn]
        BY <1>1, <2>2
      <3>. QED  BY <3>1 DEF FitsIn
    <2>. QED  BY <1>6, <2>1, <2>2
  <1>10. \A d \in C : s2[d] \in {"kConnecting", "kConnected", "kDisconnected"}
    BY DEF Agree
  <1>11. \A d \in Clients : s2[d] \in {"kConnecting", "kConnected"} => d \in C
    BY DEF Agree
  <1>12. ASSUME NEW d \in Clients \ C, s2[d] = "kDisconnected"
         PROVE  \E g \in Range(E[loop[d]]) : g.conn = d
    <2>1. st[d] = "kDisconnected" /\ loop[d] \in Loops
      BY <1>8, <1>12
    <2>2. PICK g \in Range(D[loop[d]]) : g.conn = d
      BY <2>1 DEF Agree
    <2>3. g \in Range(E[loop[d]])
      BY <1>6, <2>1
    <2>. QED  BY <2>2, <2>3
  <1>. QED  BY <1>7, <1>9, <1>10, <1>11, <1>12, Zenon DEF Agree

\* What the base loop removes first.
LEMMA FirstRemoval ==
    ASSUME NEW D \in Queues, NEW st, NEW C, NEW loop, Agree(D, st, C, loop),
           0 \in Loops, D[0] # <<>>, NEW c, c = Head(D[0]).conn
    PROVE  /\ Head(D[0]) \in FunctorType /\ c \in Clients
           /\ loop[c] # 0 /\ c \in C /\ st[c] = "kDisconnected"
  <1>1. Head(D[0]) \in Range(D[0])
    <2>1. D[0] \in Seq(FunctorType)
      BY DEF Queues
    <2>. QED  BY <2>1, RangeHeadTail
  <1>2. FitsIn(0, Head(D[0]), st, C, loop) /\ Head(D[0]) \in FunctorType
        /\ c \in Clients
    BY <1>1, DueFits, Zenon
  <1>. QED  BY <1>2 DEF FitsIn

\* It is removed from the server, and its loop will destroy it.
LEMMA RemoveOne ==
    ASSUME NEW D \in Queues, NEW E \in Queues, NEW st \in [Clients -> States],
           NEW C \in SUBSET Clients, NEW loop \in [Clients -> Loops],
           Agree(D, st, C, loop), 0 \in Loops, D[0] # <<>>,
           NEW c, c = Head(D[0]).conn, NEW l, l = loop[c],
           E[0] = Tail(D[0]),
           E[l] = Append(D[l], Functor("ConnectionDestroyed", c)),
           \A k \in Loops \ {0, l} : E[k] = D[k],
           NEW B, B = C \ {c}
    PROVE  Agree(E, st, B, loop)
  <1>. DEFINE f == Functor("ConnectionDestroyed", c)
              p == D[0]
              q == D[l]
  <1>1. /\ c \in Clients /\ l # 0 /\ l \in Loops /\ c \in C
        /\ st[c] = "kDisconnected"
    <2>1. D[0] \in Seq(FunctorType) /\ Head(D[0]) \in Range(D[0])
      <3>1. D[0] \in Seq(FunctorType)
        BY DEF Queues
      <3>. QED  BY <3>1, RangeHeadTail
    <2>2. FitsIn(0, Head(D[0]), st, C, loop) /\ c \in Clients
      BY <2>1, DueFits, Zenon
    <2>. QED  BY <2>2 DEF FitsIn
  <1>2. \A k \in Loops : /\ D[k] \in Seq(FunctorType) /\ NoneTwice(D[k])
                         /\ \A g \in Range(D[k]) :
                               FitsIn(k, g, st, C, loop) /\ g.conn \in Clients
    BY DueFits
  <1>3. f \in FunctorType /\ f.conn = c /\ f.op = "ConnectionDestroyed"
    <2>1. "ConnectionDestroyed" \in Ops
      BY DEF Ops
    <2>. QED  BY <1>1, <2>1, FunctorParts, Zenon
  <1>4. \A k \in Loops \ {0} : \A g \in Range(D[k]) : g.conn # c
    <2>1. ASSUME NEW k \in Loops \ {0}, NEW g \in Range(D[k]), g.conn = c
          PROVE  FALSE
      <3>1. FitsIn(k, g, st, C, loop)
        BY <1>2
      <3>2. st[g.conn] = "kDisconnected" /\ g.conn \in C
        BY <1>1, <2>1
      <3>. QED  BY <3>1, <3>2 DEF FitsIn
    <2>. QED  BY <2>1, Zenon
  <1>5. /\ q \in Seq(FunctorType) /\ NoneTwice(q) /\ \A g \in Range(q) : g.conn # c
        /\ p \in Seq(FunctorType) /\ NoneTwice(p) /\ p # <<>>
    BY <1>1, <1>2, <1>4
  <1>6. E[l] = Append(q, f) /\ E[0] = Tail(p) /\ c = Head(p).conn
    OBVIOUS
  <1>. HIDE DEF f, p, q
  <1>7. NoneTwice(Append(q, f)) /\ Range(Append(q, f)) = Range(q) \union {f}
    <2>1. \A g \in Range(q) : g.conn # f.conn
      BY <1>3, <1>5
    <2>. QED  BY <1>3, <1>5, <2>1, OnceMore, Zenon
  <1>8. /\ NoneTwice(Tail(p)) /\ Range(Tail(p)) \subseteq Range(p)
        /\ \A g \in Range(p) : g = Head(p) \/ g \in Range(Tail(p))
        /\ \A g \in Range(Tail(p)) : g.conn # Head(p).conn
    BY <1>5, OnceLess, Zenon
  <1>9. /\ NoneTwice(E[l]) /\ Range(E[l]) = Range(D[l]) \union {f}
        /\ NoneTwice(E[0]) /\ Range(E[0]) \subseteq Range(D[0])
        /\ \A g \in Range(E[0]) : g.conn # c
        /\ \A g \in Range(D[0]) : g.conn # c => g \in Range(E[0])
    BY <1>6, <1>7, <1>8 DEF p, q
  <1>10. \A k \in Loops : NoneTwice(E[k])
    BY <1>2, <1>9
  <1>11. ASSUME NEW k \in Loops, NEW g \in Range(E[k])
         PROVE  FitsIn(k, g, st, B, loop)
    <2>1. CASE k = l /\ g = f
      BY <1>1, <1>3, <2>1 DEF FitsIn
    <2>2. CASE g \in Range(D[k]) /\ g.conn # c
      <3>1. FitsIn(k, g, st, C, loop)
        BY <1>2, <2>2
      <3>. QED  BY <2>2, <3>1 DEF FitsIn
    <2>3. CASE k = 0
      BY <1>9, <2>2, <2>3
    <2>4. CASE k = l
      BY <1>1, <1>4, <1>9, <2>1, <2>2, <2>4
    <2>5. CASE k # 0 /\ k # l
      <3>1. E[k] = D[k]
        BY <2>5
      <3>2. g \in Range(D[k])
        BY <3>1
      <3>3. g.conn # c
        BY <1>4, <2>5, <3>2
      <3>. QED  BY <2>2, <3>2, <3>3
    <2>. QED  BY <2>3, <2>4, <2>5
  <1>12. \A d \in B : st[d] \in {"kConnecting", "kConnected", "kDisconnected"}
    BY DEF Agree
  <1>13. \A d \in Clients : st[d] \in {"kConnecting", "kConnected"} => d \in B
    BY <1>1 DEF Agree
  <1>14. ASSUME NEW d \in Clients \ B, st[d] = "kDisconnected"
         PROVE  \E g \in Range(E[loop[d]]) : g.conn = d
    <2>1. CASE d = c
      BY <1>3, <1>9, <2>1
    <2>2. CASE d # c
      <3>1. d \in Clients \ C /\ loop[d] \in Loops
        BY <2>2
      <3>2. PICK g \in Range(D[loop[d]]) : g.conn = d
        BY <1>14, <3>1 DEF Agree
      <3>3. g \in Range(E[loop[d]])
        BY <1>9, <2>2, <3>1, <3>2
      <3>. QED  BY <3>2, <3>3
    <2>. QED  BY <2>1, <2>2
  <1>15. \A k \in Loops : \A g \in Range(E[k]) : FitsIn(k, g, st, B, loop)
    BY <1>11, Zenon
  <1>16. \A d \in Clients \ B :
            st[d] = "kDisconnected" => \E g \in Range(E[loop[d]]) : g.conn = d
    BY <1>14, Zenon
  <1>. QED  BY <1>10, <1>12, <1>13, <1>15, <1>16, Zenon DEF Agree

\* A client that waited is a new connection, for whose loop a functor is due
\* unless it is the base loop.
LEMMA AdmitOne ==
    ASSUME NEW D \in Queues, NEW E \in Queues, NEW st \in [Clients -> States],
           NEW C \in SUBSET Clients, NEW loop \in [Clients -> Loops],
           Agree(D, st, C, loop), NEW c \in Clients,
           NEW s2 \in [Clients -> States], NEW l2 \in [Clients -> Loops],
           st[c] = "waiting", NEW n \in Loops, l2[c] = n,
           s2[c] = IF n = 0 THEN "kConnected" ELSE "kConnecting",
           \A d \in Clients \ {c} : s2[d] = st[d] /\ l2[d] = loop[d],
           \A k \in Loops \ {n} : E[k] = D[k],
           n = 0 => E[n] = D[n],
           n # 0 => E[n] = Append(D[n], Functor("ConnectionEstablished", c))
    PROVE  Agree(E, s2, C \union {c}, l2)
  <1>. DEFINE f == Functor("ConnectionEstablished", c)
              q == D[n]
              B == C \union {c}
  <1>0. ASSUME NEW k \in Loops
        PROVE  /\ D[k] \in Seq(FunctorType) /\ NoneTwice(D[k])
               /\ \A g \in Range(D[k]) :
                     /\ FitsIn(k, g, st, C, loop) /\ g.conn \in Clients
                     /\ st[g.conn] \in {"kConnecting", "kDisconnected"}
    BY DueFits, Zenon
  <1>1. \A k \in Loops : /\ D[k] \in Seq(FunctorType) /\ NoneTwice(D[k])
                         /\ \A g \in Range(D[k]) :
                               /\ FitsIn(k, g, st, C, loop)
                               /\ g.conn # c /\ g.conn \in Clients
    BY <1>0
  <1>2. f \in FunctorType /\ f.conn = c /\ f.op = "ConnectionEstablished"
    <2>1. "ConnectionEstablished" \in Ops
      BY DEF Ops
    <2>. QED  BY <2>1, FunctorParts, Zenon
  <1>3. q \in Seq(FunctorType) /\ NoneTwice(q) /\ \A g \in Range(q) : g.conn # c
    BY <1>1
  <1>4. n # 0 => E[n] = Append(q, f)
    OBVIOUS
  <1>5. c \notin C
    BY DEF Agree
  <1>. HIDE DEF f, q
  <1>6. NoneTwice(Append(q, f)) /\ Range(Append(q, f)) = Range(q) \union {f}
    BY <1>2, <1>3, OnceMore, Zenon
  <1>7. n # 0 => NoneTwice(E[n]) /\ Range(E[n]) = Range(D[n]) \union {f}
    BY <1>4, <1>6 DEF q
  <1>8. \A k \in Loops : NoneTwice(E[k]) /\ Range(D[k]) \subseteq Range(E[k])
    BY <1>1, <1>7
  <1>9. ASSUME NEW k \in Loops, NEW g \in Range(E[k])
        PROVE  FitsIn(k, g, s2, B, l2)
    <2>1. CASE n # 0 /\ k = n /\ g = f
      BY <1>2, <2>1 DEF FitsIn
    <2>2. CASE g \in Range(D[k])
      <3>1. /\ FitsIn(k, g, st, C, loop) /\ s2[g.conn] = st[g.conn]
            /\ l2[g.conn] = loop[g.conn] /\ g.conn # c
        BY <1>1, <2>2
      <3>. QED  BY <3>1 DEF FitsIn
    <2>. QED  BY <1>7, <2>1, <2>2
  <1>10. \A d \in B : s2[d] \in {"kConnecting", "kConnected", "kDisconnected"}
    BY <1>5 DEF Agree
  <1>11. \A d \in Clients : s2[d] \in {"kConnecting", "kConnected"} => d \in B
    BY DEF Agree
  <1>12. ASSUME NEW d \in Clients \ B, s2[d] = "kDisconnected"
         PROVE  \E g \in Range(E[l2[d]]) : g.conn = d
    <2>1. st[d] = "kDisconnected" /\ l2[d] = loop[d] /\ loop[d] \in Loops
      BY <1>12
    <2>2. PICK g \in Range(D[loop[d]]) : g.conn = d
      BY <2>1 DEF Agree
    <2>. QED  BY <1>8, <2>1, <2>2
  <1>. QED  BY <1>8, <1>9, <1>10, <1>11, <1>12, Zenon DEF Agree

-----------------------------------------------------------------------------
(* The parts of the state *)

\* What is due, from queues and batches.
LEMMA DueParts ==
    ASSUME NEW B \in Queues, NEW Q \in Queues
    PROVE  /\ DueOf(B, Q) \in Queues
           /\ \A l \in Loops :
                 /\ DueOf(B, Q)[l] = B[l] \o Q[l]
                 /\ Range(DueOf(B, Q)[l]) = Range(B[l]) \union Range(Q[l])
  <1>1. \A l \in Loops : Q[l] \in Seq(FunctorType) /\ B[l] \in Seq(FunctorType)
    BY DEF Queues
  <1>2. \A l \in Loops : DueOf(B, Q)[l] = B[l] \o Q[l]
    BY DEF DueOf
  <1>3. \A l \in Loops : B[l] \o Q[l] \in Seq(FunctorType)
    BY <1>1
  <1>4. DueOf(B, Q) \in Queues
    BY <1>3 DEF Queues, DueOf
  <1>5. \A l \in Loops : Range(B[l] \o Q[l]) = Range(B[l]) \union Range(Q[l])
    BY <1>1, RangeConcat
  <1>. QED  BY <1>2, <1>4, <1>5

LEMMA DueType ==
    ASSUME ServerTyped
    PROVE  /\ Due \in Queues /\ 0 \in Loops
           /\ \A l \in Loops :
                 /\ Due[l] = batch[l] \o queue[l]
                 /\ Range(Due[l]) = Range(batch[l]) \union Range(queue[l])
  <1>1. queue \in Queues /\ batch \in Queues
    BY DEF ServerTyped
  <1>2. 0 \in Loops
    BY DEF Loops
  <1>. QED  BY <1>1, <1>2, DueParts, Zenon DEF Due

\* The same in the next state.
LEMMA DueTypeNext ==
    ASSUME queue' \in Queues, batch' \in Queues
    PROVE  /\ Due' \in Queues
           /\ \A l \in Loops :
                 /\ Due'[l] = batch'[l] \o queue'[l]
                 /\ Range(Due'[l]) = Range(batch'[l]) \union Range(queue'[l])
  BY DueParts, Zenon DEF Due

\* Descriptors do not become fewer while no connection is added.
LEMMA FilesKept ==
    ASSUME ServerTyped, FilesCounted, HeldFiles' \subseteq HeldFiles,
           others' = others, placeholder' = placeholder
    PROVE  IsFiniteSet(HeldFiles') /\ FreeFiles' \in Nat /\ FreeFiles' >= FreeFiles
  <1>. DEFINE m == Cardinality(HeldFiles)
              n == Cardinality(HeldFiles')
              p == IF placeholder THEN 1 ELSE 0
  <1>1. IsFiniteSet(HeldFiles') /\ n \in Nat /\ m \in Nat /\ n <= m
    BY PartIsSmaller DEF FilesCounted
  <1>2. FreeFiles = MaxFiles - m - others - p /\ FreeFiles' = MaxFiles - n - others - p
    BY DEF FreeFiles, HeldFiles
  <1>3. p \in Nat /\ others \in Nat /\ FreeFiles \in Nat
    BY DEF ServerTyped, FilesCounted
  <1>. HIDE DEF m, n, p
  <1>. QED  BY <1>1, <1>2, <1>3

\* A step that leaves queues and connections alone.
LEMMA ConnsKept ==
    ASSUME ServerTyped, Served,
           UNCHANGED <<queues, state_, connections_, loopOf, left>>,
           main' \in {"destroying", "gone"} => main \in {"destroying", "gone"}
    PROVE  /\ Served' /\ HeldFiles' = HeldFiles /\ Waiting' = Waiting
           /\ Accepted' = Accepted
           /\ queue' = queue /\ batch' = batch
  <1>1. /\ queue' = queue /\ batch' = batch /\ state_' = state_ /\ left' = left
        /\ connections_' = connections_ /\ loopOf' = loopOf
    BY DEF queues
  <1>2. Due' = Due /\ Waiting' = Waiting /\ Accepted' = Accepted
    BY <1>1 DEF Due, DueOf, Waiting, Accepted
  <1>3. HeldFiles' = HeldFiles
    BY <1>1, <1>2 DEF HeldFiles, Held
  <1>4. Served'
    BY <1>1, <1>2 DEF Served
  <1>. QED  BY <1>1, <1>2, <1>3, <1>4

\* A check fails, and nothing else happens.
LEMMA FailStep ==
    ASSUME ServerInv, NEW what, Fail(what), FaultsKnown'
    PROVE  ServerInv'
  <1>1. /\ main' = main /\ starts' = starts /\ numThreads' = numThreads
        /\ thread' = thread /\ quit_' = quit_ /\ waking' = waking
        /\ queue' = queue /\ batch' = batch /\ state_' = state_
        /\ connections_' = connections_ /\ loopOf' = loopOf /\ next_' = next_
        /\ accepting' = accepting /\ placeholder' = placeholder
        /\ others' = others /\ errnoKept' = errnoKept /\ raced' = raced
        /\ left' = left
    BY DEF Fail, pool, queues, conns, files
  <1>2. /\ Served' /\ HeldFiles' = HeldFiles /\ Waiting' = Waiting
        /\ Accepted' = Accepted
    BY <1>1, ConnsKept DEF ServerInv, queues
  <1>3. ServerTyped'
    BY <1>1 DEF ServerInv, ServerTyped
  <1>4. ConnsPlaced'
    BY <1>1, <1>2 DEF ServerInv, ConnsPlaced
  <1>5. ThreadsPlaced' /\ QueuesPlaced'
    BY <1>1 DEF ServerInv, ThreadsPlaced, QueuesPlaced, Running
  <1>6. FreeFiles' = FreeFiles
    BY <1>1, <1>2 DEF FreeFiles, HeldFiles
  <1>7. FilesCounted'
    BY <1>1, <1>2, <1>6 DEF ServerInv, FilesCounted
  <1>. QED  BY <1>2, <1>3, <1>4, <1>5, <1>7 DEF ServerInv

-----------------------------------------------------------------------------
(* Steps that leave connections and functors alone *)

\* The main thread or a loop thread goes from one place to another.
LEMMA PoolStep ==
    ASSUME ServerInv, fault = "none",
           UNCHANGED <<queues, conns, files, left, fault>>,
           main' \in Mains, starts' \in Nat,
           numThreads' \in 0 .. MaxThreads, thread' \in [Threads -> Places],
           quit_' \in [Threads -> BOOLEAN], waking' \in Loops,
           numThreads' = numThreads \/ starts = 0,
           starts' = 0 => starts = 0 /\ main' = main,
           main' \in {"destroying", "gone"} <=> main \in {"destroying", "gone"},
           accepting # "no" => main' = "serving",
           main = "gone" => main' = "gone",
           ThreadsPlaced',
           \A i \in Threads : thread'[i] = "run" <=> thread[i] = "run"
    PROVE  ServerInv'
  <1>1. /\ queue' = queue /\ batch' = batch /\ state_' = state_
        /\ connections_' = connections_ /\ loopOf' = loopOf /\ next_' = next_
        /\ accepting' = accepting /\ placeholder' = placeholder
        /\ others' = others /\ errnoKept' = errnoKept /\ raced' = raced
        /\ left' = left /\ fault' = "none"
    BY DEF queues, conns, files
  <1>2. /\ Served' /\ HeldFiles' = HeldFiles /\ Waiting' = Waiting
        /\ Accepted' = Accepted
    BY <1>1, ConnsKept DEF ServerInv, queues
  <1>3. ConnsPlaced'
    <2>1. starts = 0 => Accepted = {}
      BY DEF ServerInv, ConnsPlaced
    <2>2. \A c \in Accepted' : (loopOf'[c] = 0) <=> (numThreads' = 0)
      BY <1>1, <1>2, <2>1 DEF ServerInv, ConnsPlaced
    <2>. QED  BY <1>1, <1>2, <2>2 DEF ServerInv, ConnsPlaced
  <1>4. ServerTyped'
    <2>1. next_' \in 0 .. numThreads'
      BY <1>1 DEF ServerInv, ServerTyped, ConnsPlaced
    <2>. QED  BY <1>1, <2>1 DEF ServerInv, ServerTyped
  <1>5. QueuesPlaced'
    BY <1>1 DEF ServerInv, QueuesPlaced
  <1>6. FreeFiles' = FreeFiles
    BY <1>1, <1>2 DEF FreeFiles, HeldFiles
  <1>7. FilesCounted'
    BY <1>1, <1>2, <1>6 DEF ServerInv, FilesCounted
  <1>8. FaultsKnown'
    BY <1>1 DEF FaultsKnown, FaultNames, Ops
  <1>. QED  BY <1>2, <1>3, <1>4, <1>5, <1>7, <1>8 DEF ServerInv

\* Descriptors are opened and closed.
LEMMA FilesStep ==
    ASSUME ServerInv, fault = "none",
           UNCHANGED <<main, starts, pool, queues, conns, errnoKept, left, fault>>,
           accepting' \in {"no", "reserve", "reopen"}, placeholder' \in BOOLEAN,
           others' \in Nat, raced' \in BOOLEAN,
           FreeFiles' \in Nat,
           accepting' # "no" =>
              main = "serving" /\ ~placeholder' /\ (raced' \/ FreeFiles' > 0),
           accepting' = "reserve" => Waiting # {},
           accepting' = "no" /\ ~placeholder' => raced' \/ main = "gone"
    PROVE  ServerInv'
  <1>1. /\ main' = main /\ starts' = starts /\ numThreads' = numThreads
        /\ thread' = thread /\ quit_' = quit_ /\ waking' = waking
        /\ queue' = queue /\ batch' = batch /\ state_' = state_
        /\ connections_' = connections_ /\ loopOf' = loopOf /\ next_' = next_
        /\ left' = left /\ fault' = "none"
    BY DEF pool, queues, conns
  <1>2. /\ Served' /\ HeldFiles' = HeldFiles /\ Waiting' = Waiting
        /\ Accepted' = Accepted
    BY <1>1, ConnsKept DEF ServerInv, queues
  <1>3. ServerTyped'
    BY <1>1 DEF ServerInv, ServerTyped
  <1>4. ConnsPlaced'
    BY <1>1, <1>2 DEF ServerInv, ConnsPlaced
  <1>5. ThreadsPlaced' /\ QueuesPlaced'
    BY <1>1 DEF ServerInv, ThreadsPlaced, QueuesPlaced, Running
  <1>6. FilesCounted'
    BY <1>1, <1>2 DEF ServerInv, FilesCounted
  <1>7. FaultsKnown'
    BY <1>1 DEF FaultsKnown, FaultNames, Ops
  <1>. QED  BY <1>2, <1>3, <1>4, <1>5, <1>6, <1>7 DEF ServerInv

\* The descriptors that are free, by those of others and the placeholder.
LEMMA FreeFilesCount ==
    ASSUME ServerTyped, FilesCounted, HeldFiles' = HeldFiles, others' \in Nat
    PROVE  \E n \in Nat :
              /\ placeholder => FreeFiles = n - others - 1
              /\ ~placeholder => FreeFiles = n - others
              /\ placeholder' => FreeFiles' = n - others' - 1
              /\ ~placeholder' => FreeFiles' = n - others'
  <1>. DEFINE m == Cardinality(HeldFiles)
              n == MaxFiles - m
              p == IF placeholder THEN 1 ELSE 0
              q == IF placeholder' THEN 1 ELSE 0
  <1>1. m \in Nat
    BY FS_CardinalityType DEF FilesCounted
  <1>2. FreeFiles = n - others - p /\ FreeFiles' = n - others' - q
    BY DEF FreeFiles, HeldFiles
  <1>3. others \in Nat /\ FreeFiles \in Nat /\ p \in Nat
    BY DEF ServerTyped, FilesCounted
  <1>4. /\ placeholder => p = 1
        /\ ~placeholder => p = 0
        /\ placeholder' => q = 1
        /\ ~placeholder' => q = 0
    OBVIOUS
  <1>. HIDE DEF m, p, q
  <1>5. n \in Nat
    BY <1>1, <1>2, <1>3
  <1>. HIDE DEF n
  <1>7. n - others - 0 = n - others /\ n - others' - 0 = n - others'
    BY <1>3, <1>5
  <1>. QED  BY <1>2, <1>4, <1>5, <1>7, Zenon

\* The second call is one too many.
LEMMA TwoCalls == \A n : n = 2 => n # 0 /\ n > 1
  OBVIOUS

\* The pool's assertion meets a second call of Start().
LEMMA StartedTwice ==
    ASSUME ServerInv, starts' = 2, fault' = "pool started",
           UNCHANGED <<main, pool, queues, conns, files, left>>
    PROVE  ServerInv'
  <1>1. /\ main' = main /\ numThreads' = numThreads
        /\ thread' = thread /\ quit_' = quit_ /\ waking' = waking
        /\ queue' = queue /\ batch' = batch /\ state_' = state_
        /\ connections_' = connections_ /\ loopOf' = loopOf /\ next_' = next_
        /\ accepting' = accepting /\ placeholder' = placeholder
        /\ others' = others /\ errnoKept' = errnoKept /\ raced' = raced
        /\ left' = left
    BY DEF pool, queues, conns, files
  <1>2. /\ Served' /\ HeldFiles' = HeldFiles /\ Waiting' = Waiting
        /\ Accepted' = Accepted
    BY <1>1, ConnsKept DEF ServerInv, queues
  <1>3. ServerTyped'
    BY <1>1 DEF ServerInv, ServerTyped
  <1>9. starts' # 0 /\ starts' > 1
    BY TwoCalls, Zenon
  <1>4. ConnsPlaced'
    <2>1. starts' # 0
      BY <1>9
    <2>. QED  BY <1>1, <1>2, <2>1 DEF ServerInv, ConnsPlaced
  <1>5. ThreadsPlaced' /\ QueuesPlaced'
    BY <1>1 DEF ServerInv, ThreadsPlaced, QueuesPlaced, Running
  <1>6. FreeFiles' = FreeFiles
    BY <1>1, <1>2 DEF FreeFiles, HeldFiles
  <1>7. FilesCounted'
    BY <1>1, <1>2, <1>6 DEF ServerInv, FilesCounted
  <1>8. FaultsKnown'
    BY <1>9 DEF FaultsKnown, FaultNames, Ops
  <1>. QED  BY <1>2, <1>3, <1>4, <1>5, <1>7, <1>8 DEF ServerInv

\* Start(): the first call goes on, the second meets the pool's assertion.
LEMMA StartStep ==
    ASSUME ServerInv, fault = "none", Start
    PROVE  ServerInv'
  <1>1. CASE /\ starts = 0 /\ main \in {"constructed", "serving"}
             /\ accepting = "no"
             /\ numThreads' \in 0 .. MaxThreads
             /\ main' = "starting" /\ starts' = 1
             /\ UNCHANGED <<thread, quit_, waking, queues, conns, files, left, fault>>
    <2>1. /\ thread' = thread /\ quit_' = quit_ /\ waking' = waking
          /\ main \notin {"destroying", "gone"}
      BY <1>1
    <2>2. ThreadsPlaced'
      BY <1>1, <2>1 DEF ServerInv, ThreadsPlaced
    <2>. QED  BY <1>1, <2>1, <2>2, PoolStep DEF ServerInv, ServerTyped, Mains
  <1>2. CASE /\ starts' = 2 /\ fault' = "pool started"
             /\ UNCHANGED <<main, pool, queues, conns, files, left>>
    BY <1>2, StartedTwice, Zenon
  <1>. QED  BY <1>1, <1>2 DEF Start

\* One loop thread goes on by itself.
LEMMA GotoStep ==
    ASSUME ServerInv, fault = "none", NEW i \in Threads, NEW where \in Places,
           Goto(i, where), UNCHANGED queues,
           thread[i] \notin {"run", "exited"},
           thread[i] = "none" => main = "starting",
           where \notin {"none", "run"},
           where \in {"created", "counted"} => thread[i] \in {"none", "created"}
    PROVE  ServerInv'
  <1>1. /\ main' = main /\ starts' = starts /\ numThreads' = numThreads
        /\ quit_' = quit_ /\ waking' = waking
        /\ thread' = [thread EXCEPT ![i] = where]
        /\ UNCHANGED <<queues, conns, files, left, fault>>
    BY DEF Goto
  <1>2. /\ thread \in [Threads -> Places] /\ quit_ \in [Threads -> BOOLEAN]
        /\ waking \in Loops /\ main \in Mains /\ starts \in Nat
        /\ numThreads \in 0 .. MaxThreads
    BY DEF ServerInv, ServerTyped
  <1>3. /\ thread' \in [Threads -> Places] /\ thread'[i] = where
        /\ \A j \in Threads \ {i} : thread'[j] = thread[j]
    BY <1>1, <1>2
  <1>4. main # "gone"
    BY DEF ServerInv, ThreadsPlaced
  <1>5. waking # 0 => waking \in Threads
    BY <1>2 DEF Loops, Threads
  <1>6. waking # 0 => thread'[waking] \notin {"none", "created", "counted"}
    BY <1>3, <1>5 DEF ServerInv, ThreadsPlaced, Running
  <1>7. ThreadsPlaced'
    BY <1>1, <1>4, <1>6 DEF ServerInv, ThreadsPlaced, Running
  <1>8. \A j \in Threads : thread'[j] = "run" <=> thread[j] = "run"
    BY <1>3
  <1>9. accepting # "no" => main' = "serving"
    BY <1>1 DEF ServerInv, FilesCounted
  <1>. QED  BY <1>1, <1>2, <1>3, <1>7, <1>8, <1>9, PoolStep

\* The steps of a loop thread that do not touch its functors, and the main
\* thread's step that creates it.
LEMMA OwnSteps ==
    ASSUME ServerInv, fault = "none", NEW i \in Threads,
           StartLoop(i) \/ RunInThread(i) \/ LoopInThread(i) \/ PollReturns(i)
    PROVE  ServerInv'
  <1>1. CASE StartLoop(i)
    <2>1. /\ Goto(i, "created") /\ UNCHANGED queues
          /\ thread[i] = "none" /\ main = "starting"
      BY <1>1 DEF StartLoop, Goto, queues
    <2>. QED  BY <2>1, GotoStep DEF Places
  <1>2. CASE RunInThread(i)
    <2>1. Goto(i, "counted") /\ UNCHANGED queues /\ thread[i] = "created"
      BY <1>2 DEF RunInThread
    <2>. QED  BY <2>1, GotoStep DEF Places
  <1>3. CASE LoopInThread(i)
    <2>1. Goto(i, "published") /\ UNCHANGED queues /\ thread[i] = "counted"
      BY <1>3 DEF LoopInThread
    <2>. QED  BY <2>1, GotoStep DEF Places
  <1>4. CASE PollReturns(i)
    <2>1. Goto(i, "swap") /\ UNCHANGED queues /\ thread[i] = "poll"
      BY <1>4 DEF PollReturns
    <2>. QED  BY <2>1, GotoStep DEF Places
  <1>. QED  BY <1>1, <1>2, <1>3, <1>4

\* Only the destructor makes a loop quit, and it ends when all have.
LEMMA QuitEarly ==
    ASSUME ServerInv, NEW i \in Threads, thread[i] \notin {"none", "exited"},
           quit_[i]
    PROVE  main = "destroying"
  BY DEF ServerInv, ThreadsPlaced

\* The loop asserts that it has not been made to quit yet.
LEMMA EnterLoopStep ==
    ASSUME ServerInv, fault = "none", NEW i \in Threads, EnterLoop(i)
    PROVE  ServerInv'
  <1>1. CASE quit_[i] /\ Fail("assert(!quit_)")
    <2>1. main = "destroying"
      BY <1>1, QuitEarly DEF EnterLoop
    <2>2. main' = main /\ fault' = "assert(!quit_)"
      BY <1>1 DEF Fail
    <2>3. FaultsKnown'
      BY <2>1, <2>2 DEF FaultsKnown, FaultNames, Ops
    <2>. QED  BY <1>1, <2>3, FailStep, Zenon
  <1>2. CASE Goto(i, "while") /\ UNCHANGED queues
    BY <1>2, GotoStep DEF EnterLoop, Places
  <1>. QED  BY <1>1, <1>2 DEF EnterLoop

-----------------------------------------------------------------------------
(* Steps of connections and functors *)

\* The connections that the server has or a functor is for.
Kept(D, C) ==
    C \union {c \in Clients : \E l \in Loops : \E f \in Range(D[l]) : f.conn = c}

LEMMA HeldNow ==
    ASSUME ServerTyped
    PROVE  HeldFiles = Accepted \intersect Kept(Due, connections_)
  <1>1. \A l \in Loops : Range(Due[l]) = Range(queue[l]) \union Range(batch[l])
    BY DueType, Zenon
  <1>2. \A c \in Clients : Held(c) <=> c \in Kept(Due, connections_)
    BY <1>1, Zenon DEF Held, Kept
  <1>3. Accepted \subseteq Clients
    BY DEF Accepted
  <1>. QED  BY <1>2, <1>3 DEF HeldFiles

\* The same in the next state.
LEMMA HeldThen ==
    ASSUME queue' \in Queues, batch' \in Queues
    PROVE  HeldFiles' = Accepted' \intersect Kept(Due', connections_')
  <1>1. \A l \in Loops : Range(Due'[l]) = Range(queue'[l]) \union Range(batch'[l])
    BY DueTypeNext, Zenon
  <1>2. \A c \in Clients : Held(c)' <=> c \in Kept(Due', connections_')
    BY <1>1, Zenon DEF Held, Kept
  <1>3. Accepted' \subseteq Clients
    BY DEF Accepted
  <1>. QED  BY <1>2, <1>3 DEF HeldFiles

\* No connection is kept that was not kept before.
LEMMA KeptLess ==
    ASSUME NEW D, NEW E, NEW C, NEW B, B \subseteq C,
           \A l \in Loops : \A f \in Range(E[l]) : f.conn \in Kept(D, C)
    PROVE  Kept(E, B) \subseteq Kept(D, C)
  BY DEF Kept

LEMMA KeptOf ==
    ASSUME NEW D, NEW C, C \subseteq Clients, D \in Queues
    PROVE  /\ \A c \in C : c \in Kept(D, C)
           /\ \A l \in Loops : \A f \in Range(D[l]) : f.conn \in Kept(D, C)
  <1>1. ASSUME NEW l \in Loops, NEW f \in Range(D[l])
        PROVE  f.conn \in Kept(D, C)
    <2>1. f \in FunctorType
      BY DEF Queues, Range
    <2>2. f.conn \in Clients
      BY <2>1, FunctorParts
    <2>. QED  BY <2>2, Zenon DEF Kept
  <1>. QED  BY <1>1 DEF Kept

\* A loop goes on to another place that it comes to in Loop().
LEMMA ThreadGoes ==
    ASSUME ServerInv, NEW i \in Threads,
           NEW where \in {"while", "poll", "swap", "run", "exited"},
           thread[i] \notin {"none", "exited"},
           thread' = [thread EXCEPT ![i] = where],
           main' = main, quit_' = quit_, waking' = waking
    PROVE  /\ thread' \in [Threads -> Places] /\ ThreadsPlaced'
           /\ thread'[i] = where
           /\ \A j \in Threads \ {i} : thread'[j] = thread[j]
  <1>1. thread \in [Threads -> Places] /\ waking \in Loops
    BY DEF ServerInv, ServerTyped
  <1>2. /\ thread' \in [Threads -> Places] /\ thread'[i] = where
        /\ \A j \in Threads \ {i} : thread'[j] = thread[j]
    BY <1>1 DEF Places
  <1>3. main # "gone"
    BY DEF ServerInv, ThreadsPlaced
  <1>4. waking # 0 => waking \in Threads
    BY <1>1 DEF Loops, Threads
  <1>5. waking # 0 => thread'[waking] \notin {"none", "created", "counted"}
    BY <1>2, <1>4 DEF ServerInv, ThreadsPlaced, Running
  <1>6. ThreadsPlaced'
    BY <1>3, <1>5 DEF ServerInv, ThreadsPlaced, Running
  <1>. QED  BY <1>2, <1>6

\* A step that moves connections and functors, but accepts nobody.
LEMMA ConnFaultStep ==
    ASSUME ServerInv, FaultsKnown',
           UNCHANGED <<main, starts, numThreads, quit_, waking, loopOf, next_,
                       files, left>>,
           thread' \in [Threads -> Places], ThreadsPlaced',
           queue' \in Queues, batch' \in Queues, QueuesPlaced',
           state_' \in [Clients -> States], Accepted' = Accepted,
           connections_' \in SUBSET Clients,
           Waiting \subseteq Waiting',
           Kept(Due', connections_') \subseteq Kept(Due, connections_),
           Served'
    PROVE  ServerInv'
  <1>1. /\ main' = main /\ starts' = starts /\ numThreads' = numThreads
        /\ quit_' = quit_ /\ waking' = waking /\ loopOf' = loopOf /\ next_' = next_
        /\ accepting' = accepting /\ placeholder' = placeholder
        /\ others' = others /\ errnoKept' = errnoKept /\ raced' = raced
        /\ left' = left
    BY DEF files
  <1>2. HeldFiles' \subseteq HeldFiles
    BY HeldNow, HeldThen DEF ServerInv
  <1>3. ServerTyped'
    BY <1>1 DEF ServerInv, ServerTyped
  <1>4. ConnsPlaced'
    BY <1>1 DEF ServerInv, ConnsPlaced
  <1>5. /\ IsFiniteSet(HeldFiles') /\ FreeFiles' \in Nat /\ FreeFiles \in Nat
        /\ FreeFiles' >= FreeFiles
    BY <1>1, <1>2, FilesKept DEF ServerInv, FilesCounted
  <1>6. FreeFiles > 0 => FreeFiles' > 0
    BY <1>5
  <1>7. FilesCounted'
    BY <1>1, <1>5, <1>6, Zenon DEF ServerInv, FilesCounted
  <1>. QED  BY <1>3, <1>4, <1>7 DEF ServerInv

\* The same, without a fault.
LEMMA ConnStep ==
    ASSUME ServerInv, fault = "none",
           UNCHANGED <<main, starts, numThreads, quit_, waking, loopOf, next_,
                       files, left, fault>>,
           thread' \in [Threads -> Places], ThreadsPlaced',
           queue' \in Queues, batch' \in Queues, QueuesPlaced',
           state_' \in [Clients -> States], Accepted' = Accepted,
           connections_' \in SUBSET Clients,
           Waiting \subseteq Waiting',
           Kept(Due', connections_') \subseteq Kept(Due, connections_),
           Served'
    PROVE  ServerInv'
  <1>1. FaultsKnown'
    BY DEF FaultsKnown, FaultNames, Ops
  <1>2. UNCHANGED <<main, starts, numThreads, quit_, waking, loopOf, next_,
                    files, left>>
    OBVIOUS
  <1>. QED  BY <1>1, <1>2, ConnFaultStep

\* Queues of which nothing is due.
LEMMA NothingDue ==
    ASSUME NEW B \in Queues, NEW Q \in Queues
    PROVE  (\A l \in Loops : DueOf(B, Q)[l] = <<>>)
              <=> \A l \in Loops : B[l] = <<>> /\ Q[l] = <<>>
  <1>1. \A l \in Loops : B[l] \in Seq(FunctorType) /\ Q[l] \in Seq(FunctorType)
    BY DEF Queues
  <1>2. \A l \in Loops : DueOf(B, Q)[l] = B[l] \o Q[l]
    BY DEF DueOf
  <1>3. \A s, t \in Seq(FunctorType) : s \o t = <<>> <=> s = <<>> /\ t = <<>>
    OBVIOUS
  <1>. QED  BY <1>1, <1>2, <1>3

\* A loop that is made to quit leaves its queue behind.
LEMMA LoopConditionStep ==
    ASSUME ServerInv, fault = "none", NEW i \in Threads, LoopCondition(i)
    PROVE  ServerInv'
  <1>1. CASE quit_[i]
    <2>1. /\ thread[i] = "while" /\ Goto(i, "exited")
          /\ queue' = [queue EXCEPT ![i] = <<>>] /\ batch' = batch
      BY <1>1 DEF LoopCondition
    <2>2. /\ UNCHANGED <<main, starts, numThreads, quit_, waking, loopOf, next_,
                         files, left, fault>>
          /\ thread' = [thread EXCEPT ![i] = "exited"]
          /\ state_' = state_ /\ connections_' = connections_
      BY <2>1 DEF Goto, conns
    <2>3. main = "destroying"
      BY <1>1, <2>1, QuitEarly
    <2>4. /\ thread' \in [Threads -> Places] /\ ThreadsPlaced'
          /\ thread'[i] = "exited"
          /\ \A j \in Threads \ {i} : thread'[j] = thread[j]
      BY <2>1, <2>2, ThreadGoes
    <2>5. /\ queue \in Queues /\ batch \in Queues
          /\ i \in Loops /\ i # 0 /\ 0 \in Loops /\ <<>> \in Seq(FunctorType)
      BY DEF ServerInv, ServerTyped, Threads, Loops
    <2>6. /\ queue' \in Queues /\ queue'[i] = <<>>
          /\ \A k \in Loops \ {i} : queue'[k] = queue[k]
      BY <2>1, <2>5 DEF Queues
    <2>7. QueuesPlaced'
      <3>1. queue'[0] = queue[0]
        BY <2>5, <2>6
      <3>2. \A j \in Threads : thread'[j] = "run" <=> thread[j] = "run"
        BY <2>1, <2>4
      <3>. QED  BY <2>1, <3>1, <3>2 DEF ServerInv, QueuesPlaced
    <2>8. \A l \in Loops : Range(Due'[l]) \subseteq Range(Due[l])
      <3>1. \A l \in Loops : Range(queue'[l]) \subseteq Range(queue[l])
        BY <2>6, RangeEmpty
      <3>2. /\ \A l \in Loops : Range(Due[l]) = Range(batch[l]) \union Range(queue[l])
            /\ \A l \in Loops : Range(Due'[l]) = Range(batch[l]) \union Range(queue'[l])
        BY <2>1, <2>5, <2>6, DueType, DueTypeNext, Zenon DEF ServerInv
      <3>. QED  BY <3>1, <3>2
    <2>9. Kept(Due', connections_') \subseteq Kept(Due, connections_)
      BY <2>2, <2>8 DEF Kept
    <2>10. Served'
      <3>1. SUFFICES ASSUME left = {}
                     PROVE  Due' = Due
        BY <2>2, <3>1 DEF ServerInv, Served
      <3>2. \A l \in Loops : Due[l] = <<>>
        BY <2>3, <3>1 DEF ServerInv, Served
      <3>3. \A l \in Loops : batch[l] = <<>> /\ queue[l] = <<>>
        BY <2>5, <3>2, NothingDue, Zenon DEF Due
      <3>4. queue' = queue
        <4>1. \A l \in Loops : queue'[l] = queue[l]
          BY <2>6, <3>3
        <4>. QED  BY <2>5, <2>6, <4>1 DEF Queues
      <3>. QED  BY <2>1, <3>4 DEF Due
    <2>11. Accepted' = Accepted /\ Waiting' = Waiting
      BY <2>2 DEF Accepted, Waiting
    <2>12. state_' \in [Clients -> States] /\ connections_' \in SUBSET Clients
      BY <2>2 DEF ServerInv, ServerTyped
    <2>. QED  BY <2>1, <2>2, <2>4, <2>5, <2>6, <2>7, <2>9, <2>10, <2>11, <2>12, ConnStep
  <1>2. CASE ~quit_[i]
    <2>1. thread[i] = "while" /\ Goto(i, "poll") /\ UNCHANGED queues
      BY <1>2 DEF LoopCondition
    <2>. QED  BY <2>1, GotoStep DEF Places
  <1>. QED  BY <1>1, <1>2

\* A loop takes its queue as a batch.
LEMMA SwapStep ==
    ASSUME ServerInv, fault = "none", NEW i \in Threads, Swap(i)
    PROVE  ServerInv'
  <1>. DEFINE where == IF queue[i] = <<>> THEN "while" ELSE "run"
  <1>1. /\ thread[i] = "swap" /\ Goto(i, where)
        /\ batch' = [batch EXCEPT ![i] = queue[i]]
        /\ queue' = [queue EXCEPT ![i] = <<>>]
    BY DEF Swap
  <1>2. /\ UNCHANGED <<main, starts, numThreads, quit_, waking, loopOf, next_,
                       files, left, fault>>
        /\ thread' = [thread EXCEPT ![i] = where]
        /\ state_' = state_ /\ connections_' = connections_
        /\ main' = main /\ left' = left /\ loopOf' = loopOf
    BY <1>1 DEF Goto, conns
  <1>3. where \in {"while", "run"}
    OBVIOUS
  <1>4. /\ thread' \in [Threads -> Places] /\ ThreadsPlaced'
        /\ thread'[i] = where
        /\ \A j \in Threads \ {i} : thread'[j] = thread[j]
    <2>. HIDE DEF where
    <2>. QED  BY <1>1, <1>2, <1>3, ThreadGoes
  <1>5. /\ queue \in Queues /\ batch \in Queues
        /\ i \in Loops /\ i # 0 /\ 0 \in Loops /\ <<>> \in Seq(FunctorType)
    BY DEF ServerInv, ServerTyped, Threads, Loops
  <1>6. /\ queue' \in Queues /\ queue'[i] = <<>>
        /\ \A k \in Loops \ {i} : queue'[k] = queue[k]
        /\ batch' \in Queues /\ batch'[i] = queue[i]
        /\ \A k \in Loops \ {i} : batch'[k] = batch[k]
    BY <1>1, <1>5 DEF Queues
  <1>7. batch[i] = <<>>
    BY <1>1 DEF ServerInv, QueuesPlaced
  <1>8. QueuesPlaced'
    <2>1. queue'[0] = queue[0] /\ batch'[0] = batch[0]
      BY <1>5, <1>6
    <2>2. \A j \in Threads : j \in Loops
      BY DEF Threads, Loops
    <2>3. ASSUME NEW j \in Threads
          PROVE  (batch'[j] # <<>>) <=> (thread'[j] = "run")
      <3>1. CASE j = i
        BY <1>4, <1>6, <3>1
      <3>2. CASE j # i
        <4>1. batch'[j] = batch[j] /\ thread'[j] = thread[j]
          BY <1>4, <1>6, <2>2, <3>2
        <4>. QED  BY <4>1 DEF ServerInv, QueuesPlaced
      <3>. QED  BY <3>1, <3>2
    <2>. QED  BY <2>1, <2>3 DEF ServerInv, QueuesPlaced
  <1>9. Due' = Due
    <2>1. ASSUME NEW l \in Loops PROVE batch'[l] \o queue'[l] = batch[l] \o queue[l]
      <3>1. queue[l] \in Seq(FunctorType)
        BY <1>5 DEF Queues
      <3>2. CASE l = i
        <4>1. queue[l] \o <<>> = queue[l] /\ <<>> \o queue[l] = queue[l]
          BY <3>1, EmptyConcat
        <4>. QED  BY <1>6, <1>7, <3>2, <4>1
      <3>3. CASE l # i
        BY <1>6, <3>3
      <3>. QED  BY <3>2, <3>3
    <2>. QED  BY <2>1 DEF Due, DueOf
  <1>10. Kept(Due', connections_') \subseteq Kept(Due, connections_)
    BY <1>2, <1>9
  <1>11. Served'
    BY <1>2, <1>9 DEF ServerInv, Served
  <1>12. Accepted' = Accepted /\ Waiting' = Waiting
    BY <1>2 DEF Accepted, Waiting
  <1>13. state_' \in [Clients -> States] /\ connections_' \in SUBSET Clients
    BY <1>2 DEF ServerInv, ServerTyped
  <1>. HIDE DEF where
  <1>. QED  BY <1>2, <1>4, <1>6, <1>8, <1>10, <1>11, <1>12, <1>13, ConnStep

\* A connection that is accepted stays so while its state goes on.
LEMMA AcceptedKept ==
    ASSUME ServerInv, NEW c \in Clients,
           NEW s \in {"kConnecting", "kConnected", "kDisconnected", "removed"},
           c \in Accepted, state_' = [state_ EXCEPT ![c] = s]
    PROVE  /\ state_' \in [Clients -> States] /\ state_'[c] = s
           /\ \A d \in Clients \ {c} : state_'[d] = state_[d]
           /\ Accepted' = Accepted /\ Waiting' = Waiting
  <1>1. state_ \in [Clients -> States]
    BY DEF ServerInv, ServerTyped
  <1>2. /\ state_' \in [Clients -> States] /\ state_'[c] = s
        /\ \A d \in Clients \ {c} : state_'[d] = state_[d]
    BY <1>1 DEF States
  <1>3. Accepted' = Accepted /\ Waiting' = Waiting
    BY <1>2 DEF Accepted, Waiting
  <1>. QED  BY <1>2, <1>3

\* What a functor is for, and what it makes of its connection.
Expected(f) == IF f.op = "ConnectionEstablished" THEN "kConnecting" ELSE "kDisconnected"
Becomes(f) == IF f.op = "ConnectionEstablished" THEN "kConnected" ELSE "removed"

\* Behind the only element of a sequence nothing is left.
LEMMA LastOne ==
    ASSUME NEW S, NEW s \in Seq(S), s # <<>>
    PROVE  Tail(s) \in Seq(S) /\ (Tail(s) = <<>> <=> Len(s) = 1)
  <1>1. Tail(s) \in Seq(S) /\ Len(Tail(s)) = Len(s) - 1 /\ Len(s) \in Nat
    OBVIOUS
  <1>2. Tail(s) = <<>> <=> Len(Tail(s)) = 0
    <2>. DEFINE t == Tail(s)
    <2>1. t \in Seq(S)
      BY <1>1
    <2>. HIDE DEF t
    <2>2. t = <<>> <=> Len(t) = 0
      BY <2>1
    <2>. QED  BY <2>2 DEF t
  <1>3. Len(s) - 1 = 0 <=> Len(s) = 1
    BY <1>1
  <1>. QED  BY <1>1, <1>2, <1>3

\* The first functor that a loop has taken.
LEMMA FirstInBatch ==
    ASSUME ServerInv, NEW i \in Threads, thread[i] = "run",
           NEW f, f = Head(batch[i])
    PROVE  /\ batch[i] # <<>> /\ batch[i] \in Seq(FunctorType)
           /\ f \in FunctorType /\ f.op \in Ops /\ f.conn \in Clients
           /\ i \in Loops \ {0} /\ Due[i] # <<>>
           /\ f = Head(Due[i]) /\ Tail(Due[i]) = Tail(batch[i]) \o queue[i]
           /\ left = {} => main \notin {"destroying", "gone"}
           /\ left = {} => state_[f.conn] = Expected(f)
  <1>1. /\ queue \in Queues /\ batch \in Queues
        /\ i \in Loops /\ i # 0 /\ 0 \in Loops
    BY DEF ServerInv, ServerTyped, Threads, Loops
  <1>2. batch[i] # <<>> /\ batch[i] \in Seq(FunctorType) /\ queue[i] \in Seq(FunctorType)
    BY <1>1 DEF ServerInv, QueuesPlaced, Queues
  <1>3. f \in FunctorType
    BY <1>2
  <1>4. f.op \in Ops /\ f.conn \in Clients
    BY <1>3, FunctorParts
  <1>5. Due \in Queues /\ \A l \in Loops : Due[l] = batch[l] \o queue[l]
    BY DueType DEF ServerInv
  <1>6. /\ Due[i] # <<>> /\ f = Head(Due[i])
        /\ Tail(Due[i]) = Tail(batch[i]) \o queue[i]
    <2>1. /\ batch[i] \o queue[i] # <<>> /\ Head(batch[i] \o queue[i]) = Head(batch[i])
          /\ Tail(batch[i] \o queue[i]) = Tail(batch[i]) \o queue[i]
      <3>. DEFINE b == batch[i]
                  q == queue[i]
      <3>1. b \in Seq(FunctorType) /\ q \in Seq(FunctorType) /\ b # <<>>
        BY <1>2
      <3>. HIDE DEF b, q
      <3>2. b \o q # <<>> /\ Head(b \o q) = Head(b) /\ Tail(b \o q) = Tail(b) \o q
        BY <3>1, HeadTailConcat, Zenon
      <3>. QED  BY <3>2 DEF b, q
    <2>. QED  BY <1>1, <1>5, <2>1
  <1>7. left = {} => main \notin {"destroying", "gone"}
    BY <1>1, <1>6 DEF ServerInv, Served
  <1>8. left = {} => state_[f.conn] = Expected(f)
    <2>1. SUFFICES ASSUME left = {} PROVE state_[f.conn] = Expected(f)
      OBVIOUS
    <2>2. Agree(Due, state_, connections_, loopOf)
      BY <2>1 DEF ServerInv, Served
    <2>3. f \in Range(Due[i])
      <3>1. Due[i] \in Seq(FunctorType)
        BY <1>1, <1>5 DEF Queues
      <3>. QED  BY <1>6, <3>1, RangeHeadTail
    <2>4. FitsIn(i, f, state_, connections_, loopOf)
      BY <1>1, <2>2, <2>3 DEF Agree
    <2>. QED  BY <1>1, <2>4 DEF FitsIn, Expected
  <1>. QED  BY <1>1, <1>2, <1>3, <1>4, <1>6, <1>7, <1>8

\* A loop runs the first functor that it has taken.
LEMMA DoPendingFunctorStep ==
    ASSUME ServerInv, fault = "none", NEW i \in Threads, DoPendingFunctor(i)
    PROVE  ServerInv'
  <1>. DEFINE f == Head(batch[i])
              where == IF Len(batch[i]) = 1 THEN "while" ELSE "run"
  <1>1. /\ thread[i] = "run" /\ batch[i] # <<>> /\ batch[i] \in Seq(FunctorType)
        /\ f \in FunctorType /\ f.op \in Ops /\ f.conn \in Clients
        /\ i \in Loops \ {0} /\ Due[i] # <<>>
        /\ f = Head(Due[i]) /\ Tail(Due[i]) = Tail(batch[i]) \o queue[i]
        /\ left = {} => main \notin {"destroying", "gone"}
        /\ left = {} => state_[f.conn] = Expected(f)
    <2>1. thread[i] = "run"
      BY DEF DoPendingFunctor
    <2>. QED  BY <2>1, FirstInBatch
  <1>2. CASE state_[f.conn] # Expected(f) /\ Fail(f.op)
    <2>1. left # {} /\ left' = left /\ fault' = f.op
      BY <1>1, <1>2 DEF Fail
    <2>2. FaultsKnown'
      BY <1>1, <2>1 DEF FaultsKnown, FaultNames, Ops
    <2>. QED  BY <1>2, <2>2, FailStep, Zenon
  <1>3. CASE /\ state_[f.conn] = Expected(f)
             /\ state_' = [state_ EXCEPT ![f.conn] = Becomes(f)]
             /\ batch' = [batch EXCEPT ![i] = Tail(@)]
             /\ thread' = [thread EXCEPT ![i] = where]
             /\ UNCHANGED <<main, starts, numThreads, quit_, waking, queue, connections_,
                            loopOf, next_, files, left, fault>>
    <2>1. /\ UNCHANGED <<main, starts, numThreads, quit_, waking, loopOf, next_,
                         files, left, fault>>
          /\ main' = main /\ left' = left /\ loopOf' = loopOf
          /\ connections_' = connections_ /\ queue' = queue
          /\ quit_' = quit_ /\ waking' = waking
      BY <1>3
    <2>2. f.conn \in Accepted
      BY <1>1, <1>3 DEF Accepted, Expected
    <2>3. Becomes(f) \in {"kConnected", "removed"}
      BY DEF Becomes
    <2>4. /\ state_' \in [Clients -> States] /\ state_'[f.conn] = Becomes(f)
          /\ \A d \in Clients \ {f.conn} : state_'[d] = state_[d]
          /\ Accepted' = Accepted /\ Waiting' = Waiting
      <3>. HIDE DEF f
      <3>. QED  BY <1>1, <1>3, <2>2, <2>3, AcceptedKept
    <2>5. where \in {"while", "run"}
      OBVIOUS
    <2>6. /\ thread' \in [Threads -> Places] /\ ThreadsPlaced'
          /\ thread'[i] = where
          /\ \A j \in Threads \ {i} : thread'[j] = thread[j]
      <3>. HIDE DEF where
      <3>. QED  BY <1>1, <1>3, <2>1, <2>5, ThreadGoes
    <2>7. /\ queue \in Queues /\ batch \in Queues /\ 0 \in Loops
          /\ \A j \in Threads : j \in Loops
      BY DEF ServerInv, ServerTyped, Threads, Loops
    <2>8. Tail(batch[i]) \in Seq(FunctorType) /\ (Tail(batch[i]) = <<>> <=> Len(batch[i]) = 1)
      BY <1>1, LastOne, Zenon
    <2>9. /\ batch' \in Queues /\ batch'[i] = Tail(batch[i])
          /\ \A k \in Loops \ {i} : batch'[k] = batch[k]
      BY <1>1, <1>3, <2>7, <2>8 DEF Queues
    <2>10. QueuesPlaced'
      <3>1. ASSUME NEW j \in Threads
            PROVE  (batch'[j] # <<>>) <=> (thread'[j] = "run")
        <4>1. CASE j = i
          BY <2>6, <2>8, <2>9, <4>1
        <4>2. CASE j # i
          <5>1. batch'[j] = batch[j] /\ thread'[j] = thread[j]
            BY <2>6, <2>7, <2>9, <4>2
          <5>. QED  BY <5>1 DEF ServerInv, QueuesPlaced
        <4>. QED  BY <4>1, <4>2
      <3>2. batch'[0] = batch[0]
        BY <1>1, <2>7, <2>9
      <3>. QED  BY <2>1, <3>1, <3>2 DEF ServerInv, QueuesPlaced
    <2>11. /\ Due \in Queues /\ Due' \in Queues
           /\ Due'[i] = Tail(Due[i]) /\ \A k \in Loops \ {i} : Due'[k] = Due[k]
      <3>1. Due \in Queues /\ \A l \in Loops : Due[l] = batch[l] \o queue[l]
        BY DueType DEF ServerInv
      <3>2. Due' \in Queues /\ \A l \in Loops : Due'[l] = batch'[l] \o queue'[l]
        BY <2>1, <2>7, <2>9, DueTypeNext
      <3>3. Due'[i] = batch'[i] \o queue'[i]
        BY <1>1, <3>2
      <3>4. Due'[i] = Tail(Due[i])
        BY <1>1, <2>1, <2>9, <3>3
      <3>5. ASSUME NEW k \in Loops \ {i}  PROVE Due'[k] = Due[k]
        BY <2>1, <2>9, <3>1, <3>2
      <3>. QED  BY <3>1, <3>2, <3>4, <3>5
    <2>12. Kept(Due', connections_') \subseteq Kept(Due, connections_)
      <3>1. Due[i] \in Seq(FunctorType)
        BY <1>1, <2>11 DEF Queues
      <3>2. Range(Due'[i]) \subseteq Range(Due[i])
        BY <1>1, <2>11, <3>1, RangeHeadTail
      <3>3. \A l \in Loops : Range(Due'[l]) \subseteq Range(Due[l])
        BY <2>11, <3>2
      <3>. QED  BY <2>1, <3>3 DEF Kept
    <2>13. Served'
      <3>1. SUFFICES ASSUME left = {}
                     PROVE  Agree(Due', state_', connections_, loopOf)
        BY <1>1, <2>1, <3>1 DEF Served
      <3>2. /\ Agree(Due, state_, connections_, loopOf)
            /\ state_ \in [Clients -> States] /\ connections_ \in SUBSET Clients
            /\ loopOf \in [Clients -> Loops]
        BY <3>1 DEF ServerInv, Served, ServerTyped
      <3>3. state_'[f.conn] = IF f.op = "ConnectionEstablished" THEN "kConnected"
                              ELSE "removed"
        BY <2>4 DEF Becomes
      <3>. HIDE DEF f
      <3>. QED  BY <1>1, <2>4, <2>11, <3>2, <3>3, RunFirst
    <2>14. connections_' \in SUBSET Clients
      BY <2>1 DEF ServerInv, ServerTyped
    <2>. HIDE DEF f, where
    <2>. QED  BY <2>1, <2>4, <2>6, <2>7, <2>9, <2>10, <2>12, <2>13, <2>14, ConnStep
  <1>. QED  BY <1>1, <1>2, <1>3, Zenon DEF DoPendingFunctor, Expected, Becomes

\* R is Q with a functor appended for loop l.
Appended(Q, l, f, R) ==
    /\ R \in Queues
    /\ R[l] = Append(Q[l], f)
    /\ \A k \in Loops \ {l} : R[k] = Q[k]

LEMMA QueuedRange ==
    ASSUME NEW Q \in Queues, NEW l \in Loops, NEW f \in FunctorType, NEW R,
           Appended(Q, l, f, R)
    PROVE  Range(R[l]) = Range(Q[l]) \union {f}
  <1>1. Q[l] \in Seq(FunctorType)
    BY DEF Queues
  <1>2. Range(Append(Q[l], f)) = Range(Q[l]) \union {f}
    BY <1>1, RangeAppend
  <1>. QED  BY <1>2 DEF Appended

\* A functor that is appended to the queue of a loop is due last there.
LEMMA QueuedLast ==
    ASSUME NEW B \in Queues, NEW Q \in Queues, NEW l \in Loops,
           NEW f \in FunctorType, NEW R, Appended(Q, l, f, R)
    PROVE  Appended(DueOf(B, Q), l, f, DueOf(B, R))
  <1>. DEFINE q == Q[l]
              b == B[l]
  <1>1. q \in Seq(FunctorType) /\ b \in Seq(FunctorType) /\ R \in Queues
    BY DEF Queues, Appended
  <1>2. \A k \in Loops : DueOf(B, R)[k] = B[k] \o R[k] /\ DueOf(B, Q)[k] = B[k] \o Q[k]
    BY DEF DueOf
  <1>3. DueOf(B, R)[l] = b \o Append(q, f) /\ DueOf(B, Q)[l] = b \o q
    BY <1>2 DEF Appended
  <1>4. \A k \in Loops \ {l} : DueOf(B, R)[k] = DueOf(B, Q)[k]
    BY <1>2 DEF Appended
  <1>5. DueOf(B, R) \in Queues
    BY <1>1, DueParts
  <1>. HIDE DEF q, b
  <1>6. b \o Append(q, f) = Append(b \o q, f)
    BY <1>1
  <1>. QED  BY <1>3, <1>4, <1>5, <1>6 DEF Appended

\* The same of the queues in the next state.
LEMMA QueuedLastNext ==
    ASSUME batch \in Queues, queue \in Queues, batch' = batch,
           NEW l \in Loops, NEW f \in FunctorType, Appended(queue, l, f, queue')
    PROVE  /\ Appended(Due, l, f, Due') /\ Due \in Queues
           /\ Range(Due'[l]) = Range(Due[l]) \union {f}
           /\ Range(queue'[l]) = Range(queue[l]) \union {f}
  <1>1. Appended(DueOf(batch, queue), l, f, DueOf(batch, queue'))
    BY QueuedLast, Zenon
  <1>2. Due' = DueOf(batch, queue') /\ Due = DueOf(batch, queue)
    BY DEF Due
  <1>3. Appended(Due, l, f, Due') /\ Due \in Queues
    BY <1>1, <1>2, DueParts, Zenon
  <1>4. Range(Due'[l]) = Range(Due[l]) \union {f}
    BY <1>3, QueuedRange
  <1>5. Range(queue'[l]) = Range(queue[l]) \union {f}
    BY QueuedRange
  <1>. QED  BY <1>3, <1>4, <1>5, Zenon

\* A connection is due for what is not freed.
LEMMA NotFreed ==
    ASSUME ServerInv, ~Aborted, NEW c \in Accepted, state_[c] # "removed"
    PROVE  c \in Kept(Due, connections_)
  <1>1. c \in HeldFiles
    BY DEF Aborted, Freed, HeldFiles, Accepted
  <1>. QED  BY <1>1, HeldNow DEF ServerInv

\* The connections agree while the server is there.
LEMMA WhileThere ==
    ASSUME ServerInv, main \notin {"destroying", "gone"}
    PROVE  left = {} /\ Agree(Due, state_, connections_, loopOf)
  BY DEF ServerInv, ConnsPlaced, Served

\* A peer ends its connection, of the base loop or another.
LEMMA PeerClosesStep ==
    ASSUME ServerInv, ~Aborted, fault = "none", NEW c \in Clients, PeerCloses(c)
    PROVE  ServerInv'
  <1>. DEFINE f == Functor("RemoveConnection", c)
  <1>1. /\ state_[c] = "kConnected"
        /\ UNCHANGED <<main, starts, pool, batch, loopOf, next_, files, left>>
    BY DEF PeerCloses
  <1>2. /\ UNCHANGED <<main, starts, numThreads, quit_, waking, loopOf, next_,
                       files, left>>
        /\ main' = main /\ thread' = thread /\ quit_' = quit_ /\ waking' = waking
        /\ batch' = batch /\ left' = left /\ loopOf' = loopOf
    BY <1>1 DEF pool
  <1>3. c \in Accepted /\ c \in Kept(Due, connections_)
    BY <1>1, NotFreed DEF Accepted
  <1>4. /\ thread' \in [Threads -> Places] /\ ThreadsPlaced'
        /\ queue \in Queues /\ batch \in Queues /\ batch' \in Queues
        /\ 0 \in Loops /\ state_ \in [Clients -> States]
        /\ connections_ \in SUBSET Clients /\ loopOf \in [Clients -> Loops]
    BY <1>2 DEF ServerInv, ServerTyped, ThreadsPlaced, Running, Loops
  <1>5. Due \in Queues
    BY DueType DEF ServerInv
  <1>6. CASE /\ main = "serving" /\ loopOf[c] = 0
             /\ fault' \in {"none", "freed channel"}
             /\ state_' = [state_ EXCEPT ![c] = "removed"]
             /\ connections_' = connections_ \ {c}
             /\ queue' = queue
    <2>1. /\ state_' \in [Clients -> States] /\ state_'[c] = "removed"
          /\ \A d \in Clients \ {c} : state_'[d] = state_[d]
          /\ Accepted' = Accepted /\ Waiting' = Waiting
      BY <1>3, <1>6, AcceptedKept
    <2>2. Due' = Due
      BY <1>2, <1>6 DEF Due
    <2>3. Kept(Due', connections_') \subseteq Kept(Due, connections_)
      BY <1>6, <2>2 DEF Kept
    <2>4. Agree(Due, state_, connections_, loopOf)
      BY <1>6, WhileThere
    <2>5. Agree(Due, state_', connections_ \ {c}, loopOf)
      BY <1>1, <1>4, <1>5, <2>1, <2>4, CloseOnBase
    <2>6. Served'
      BY <1>2, <1>6, <2>2, <2>5 DEF Served
    <2>7. QueuesPlaced' /\ queue' \in Queues
      BY <1>2, <1>4, <1>6 DEF ServerInv, QueuesPlaced
    <2>8. connections_' \in SUBSET Clients
      BY <1>4, <1>6
    <2>9. FaultsKnown'
      <3>1. numThreads = 0
        BY <1>3, <1>6 DEF ServerInv, ConnsPlaced
      <3>2. ClosedOnBase'
        BY <1>2, <1>6, <2>1, <3>1 DEF ClosedOnBase
      <3>. QED  BY <1>6, <3>2 DEF FaultsKnown, FaultNames, Ops
    <2>. QED  BY <1>2, <1>4, <2>1, <2>3, <2>6, <2>7, <2>8, <2>9, ConnFaultStep
  <1>7. CASE /\ loopOf[c] # 0 /\ fault' = fault
             /\ state_' = [state_ EXCEPT ![c] = "kDisconnected"]
             /\ queue' = [queue EXCEPT ![0] = Append(@, f)]
             /\ connections_' = connections_
    <2>1. /\ state_' \in [Clients -> States] /\ state_'[c] = "kDisconnected"
          /\ \A d \in Clients \ {c} : state_'[d] = state_[d]
          /\ Accepted' = Accepted /\ Waiting' = Waiting
      BY <1>3, <1>7, AcceptedKept
    <2>2. f \in FunctorType /\ f.op = "RemoveConnection" /\ f.conn = c
      <3>1. "RemoveConnection" \in Ops
        BY DEF Ops
      <3>. QED  BY <3>1, FunctorParts, Zenon
    <2>3. Appended(queue, 0, f, queue')
      <3>. HIDE DEF f
      <3>. QED  BY <1>4, <1>7, <2>2 DEF Queues, Appended
    <2>4. /\ Appended(Due, 0, f, Due')
          /\ Range(Due'[0]) = Range(Due[0]) \union {f}
          /\ Range(queue'[0]) = Range(queue[0]) \union {f}
      <3>. HIDE DEF f
      <3>. QED  BY <1>2, <1>4, <2>2, <2>3, QueuedLastNext, Zenon
    <2>10. /\ \A k \in Loops \ {0} : Due'[k] = Due[k]
           /\ Due'[0] = Append(Due[0], f)
           /\ queue' \in Queues
      BY <2>3, <2>4 DEF Appended
    <2>5. Due' \in Queues
      BY <1>4, <2>10, DueTypeNext
    <2>6. QueuesPlaced'
      BY <1>2, <2>2, <2>4, <2>10 DEF ServerInv, QueuesPlaced
    <2>7. Kept(Due', connections_') \subseteq Kept(Due, connections_)
      <3>1. \A l \in Loops : \A g \in Range(Due[l]) : g.conn \in Kept(Due, connections_)
        BY <1>4, <1>5, KeptOf
      <3>2. \A l \in Loops : \A g \in Range(Due'[l]) : g.conn \in Kept(Due, connections_)
        BY <1>3, <2>2, <2>4, <2>10, <3>1
      <3>. QED  BY <1>7, <3>2, KeptLess
    <2>8. Served'
      <3>1. SUFFICES ASSUME left = {}
                     PROVE  /\ Agree(Due', state_', connections_, loopOf)
                            /\ main \notin {"destroying", "gone"}
        BY <1>2, <1>7, <3>1 DEF Served
      <3>2. Agree(Due, state_, connections_, loopOf)
        BY <3>1 DEF ServerInv, Served
      <3>3. c \in connections_
        BY <1>1, <3>2 DEF Agree
      <3>4. main \notin {"destroying", "gone"}
        BY <3>1, <3>3 DEF ServerInv, Served
      <3>5. Agree(Due', state_', connections_, loopOf)
        <4>1. /\ Due'[0] = Append(Due[0], Functor("RemoveConnection", c))
              /\ \A k \in Loops \ {0} : Due'[k] = Due[k]
          BY <2>10
        <4>2. /\ state_[c] = "kConnected" /\ state_'[c] = "kDisconnected"
              /\ loopOf[c] # 0
          BY <1>1, <1>7, <2>1
        <4>. QED  BY <1>4, <1>5, <2>1, <2>5, <3>2, <4>1, <4>2, CloseOnLoop
      <3>. QED  BY <3>4, <3>5
    <2>9. connections_' \in SUBSET Clients
      BY <1>4, <1>7
    <2>11. UNCHANGED <<main, starts, numThreads, quit_, waking, loopOf, next_,
                       files, left, fault>>
      BY <1>2, <1>7
    <2>. QED  BY <1>4, <2>1, <2>6, <2>7, <2>8, <2>9, <2>10, <2>11, ConnStep
  <1>. QED  BY <1>6, <1>7 DEF PeerCloses

\* A client connects, and waits for accept().
LEMMA ClientConnectsStep ==
    ASSUME ServerInv, fault = "none", NEW c \in Clients, ClientConnects(c)
    PROVE  ServerInv'
  <1>1. /\ main = "serving" /\ state_[c] = "absent"
        /\ state_' = [state_ EXCEPT ![c] = "waiting"]
        /\ UNCHANGED <<main, starts, pool, queues, connections_, loopOf, next_,
                       files, left, fault>>
    BY DEF ClientConnects
  <1>2. /\ UNCHANGED <<main, starts, numThreads, quit_, waking, loopOf, next_,
                       files, left, fault>>
        /\ main' = main /\ thread' = thread /\ quit_' = quit_ /\ waking' = waking
        /\ queue' = queue /\ batch' = batch /\ left' = left /\ loopOf' = loopOf
        /\ connections_' = connections_
    BY <1>1 DEF pool, queues
  <1>3. /\ thread' \in [Threads -> Places] /\ ThreadsPlaced' /\ QueuesPlaced'
        /\ queue' \in Queues /\ batch' \in Queues
        /\ state_ \in [Clients -> States]
        /\ connections_ \in SUBSET Clients /\ connections_' \in SUBSET Clients
        /\ loopOf \in [Clients -> Loops]
    BY <1>2 DEF ServerInv, ServerTyped, ThreadsPlaced, Running, QueuesPlaced
  <1>4. /\ state_' \in [Clients -> States] /\ state_'[c] = "waiting"
        /\ \A d \in Clients \ {c} : state_'[d] = state_[d]
    BY <1>1, <1>3 DEF States
  <1>5. Accepted' = Accepted /\ Waiting \subseteq Waiting'
    BY <1>1, <1>4 DEF Accepted, Waiting
  <1>6. Due' = Due /\ Due \in Queues
    BY <1>2, DueType DEF Due, ServerInv
  <1>7. Agree(Due, state_, connections_, loopOf)
    BY <1>1, WhileThere
  <1>8. Agree(Due, state_', connections_, loopOf)
    BY <1>1, <1>3, <1>4, <1>6, <1>7, NoConnectionYet
  <1>9. Served'
    BY <1>1, <1>2, <1>6, <1>8 DEF Served
  <1>10. Kept(Due', connections_') \subseteq Kept(Due, connections_)
    BY <1>2, <1>6
  <1>. QED  BY <1>2, <1>3, <1>4, <1>5, <1>9, <1>10, ConnStep

\* The base loop removes the connection that is first in its queue.
LEMMA RemoveConnectionStep ==
    ASSUME ServerInv, fault = "none", RemoveConnectionInLoop
    PROVE  ServerInv'
  <1>1. /\ queue \in Queues /\ batch \in Queues /\ 0 \in Loops
        /\ state_ \in [Clients -> States]
        /\ connections_ \in SUBSET Clients /\ loopOf \in [Clients -> Loops]
    BY DEF ServerInv, ServerTyped, Loops
  <1>2. /\ Due \in Queues /\ \A l \in Loops : Due[l] = batch[l] \o queue[l]
    BY DueType DEF ServerInv
  <1>3. queue[0] # <<>> /\ queue[0] \in Seq(FunctorType) /\ Due[0] = queue[0]
    <2>1. queue[0] \in Seq(FunctorType) /\ batch[0] = <<>>
      BY <1>1 DEF Queues, ServerInv, QueuesPlaced
    <2>2. <<>> \o queue[0] = queue[0]
      BY <2>1, EmptyConcat
    <2>. QED  BY <1>1, <1>2, <2>1, <2>2 DEF RemoveConnectionInLoop
  <1>4. CASE main = "gone" /\ Fail("dead server")
    <2>1. left # {}
      BY <1>1, <1>3, <1>4 DEF ServerInv, Served
    <2>2. left' = left /\ fault' = "dead server"
      BY <1>4 DEF Fail
    <2>3. FaultsKnown'
      BY <2>1, <2>2 DEF FaultsKnown, FaultNames, Ops
    <2>. QED  BY <1>4, <2>3, FailStep, Zenon
  <1>5. CASE main # "gone"
    <2>. DEFINE c == Head(queue[0]).conn
                l == loopOf[c]
                f == Functor("ConnectionDestroyed", c)
                Q == [queue EXCEPT ![0] = Tail(@)]
    <2>1. /\ main = "serving" /\ connections_' = connections_ \ {c}
          /\ queue' = [queue EXCEPT ![0] = Tail(@), ![l] = Append(@, f)]
          /\ UNCHANGED <<main, starts, pool, batch, state_, loopOf, next_,
                         files, left, fault>>
      BY <1>5 DEF RemoveConnectionInLoop
    <2>2. /\ UNCHANGED <<main, starts, numThreads, quit_, waking, loopOf, next_,
                         files, left, fault>>
          /\ main' = main /\ thread' = thread /\ quit_' = quit_ /\ waking' = waking
          /\ batch' = batch /\ left' = left /\ loopOf' = loopOf /\ state_' = state_
      BY <2>1 DEF pool
    <2>3. /\ thread' \in [Threads -> Places] /\ ThreadsPlaced' /\ batch' \in Queues
          /\ connections_' \in SUBSET Clients /\ state_' \in [Clients -> States]
          /\ Accepted' = Accepted /\ Waiting' = Waiting
      BY <1>1, <2>1, <2>2 DEF ServerInv, ServerTyped, ThreadsPlaced, Running,
                              Accepted, Waiting
    <2>4. left = {} /\ Agree(Due, state_, connections_, loopOf)
      BY <2>1, WhileThere
    <2>5. c = Head(Due[0]).conn /\ Due[0] # <<>>
      BY <1>3
    <2>6. c \in Clients /\ l # 0 /\ l \in Loops /\ c \in connections_
      <3>. HIDE DEF c
      <3>1. c \in Clients /\ loopOf[c] # 0 /\ c \in connections_
        BY <1>1, <1>2, <2>4, <2>5, FirstRemoval
      <3>. QED  BY <1>1, <3>1
    <2>7. f \in FunctorType /\ f.conn = c
      <3>. HIDE DEF c
      <3>1. "ConnectionDestroyed" \in Ops
        BY DEF Ops
      <3>. QED  BY <2>6, <3>1, FunctorParts, Zenon
    <2>8. /\ Q \in Queues /\ Q[0] = Tail(queue[0])
          /\ \A k \in Loops \ {0} : Q[k] = queue[k]
      <3>1. Tail(queue[0]) \in Seq(FunctorType)
        BY <1>3
      <3>. QED  BY <1>1, <3>1 DEF Queues
    <2>. HIDE DEF c, l, f, Q
    <2>9. /\ queue' \in Queues /\ queue'[0] = Tail(queue[0])
          /\ queue'[l] = Append(queue[l], f)
          /\ \A k \in Loops \ {0, l} : queue'[k] = queue[k]
      <3>1. Tail(queue[0]) \in Seq(FunctorType) /\ queue[l] \in Seq(FunctorType)
        BY <1>1, <1>3, <2>6 DEF Queues
      <3>2. Append(queue[l], f) \in Seq(FunctorType)
        BY <2>7, <3>1
      <3>. QED  BY <1>1, <2>1, <2>6, <3>1, <3>2 DEF Queues
    <2>10. Appended(Q, l, f, queue')
      BY <2>6, <2>8, <2>9 DEF Appended
    <2>12. Appended(DueOf(batch, Q), l, f, DueOf(batch, queue'))
      BY <1>1, <2>6, <2>7, <2>8, <2>10, QueuedLast, Zenon
    <2>13. /\ DueOf(batch, Q)[0] = Tail(Due[0])
           /\ \A k \in Loops \ {0} : DueOf(batch, Q)[k] = Due[k]
      <3>1. batch[0] = <<>> /\ Tail(queue[0]) \in Seq(FunctorType)
        BY <1>3 DEF ServerInv, QueuesPlaced
      <3>2. <<>> \o Tail(queue[0]) = Tail(queue[0])
        BY <3>1, EmptyConcat
      <3>3. \A k \in Loops : DueOf(batch, Q)[k] = batch[k] \o Q[k]
        BY DEF DueOf
      <3>. QED  BY <1>1, <1>2, <1>3, <2>8, <3>1, <3>2, <3>3
    <2>14. /\ Due' \in Queues /\ Due'[0] = Tail(Due[0])
           /\ Due'[l] = Append(Due[l], f)
           /\ \A k \in Loops \ {0, l} : Due'[k] = Due[k]
      <3>1. Due' = DueOf(batch, queue')
        BY <2>2 DEF Due
      <3>. QED  BY <1>1, <2>6, <2>12, <2>13, <3>1 DEF Appended
    <2>15. QueuesPlaced'
      <3>1. Range(Tail(queue[0])) \subseteq Range(queue[0])
        BY <1>3, RangeHeadTail
      <3>. QED  BY <2>2, <2>9, <3>1 DEF ServerInv, QueuesPlaced
    <2>16. Kept(Due', connections_') \subseteq Kept(Due, connections_)
      <3>1. /\ \A k \in Loops : \A g \in Range(Due[k]) : g.conn \in Kept(Due, connections_)
            /\ c \in Kept(Due, connections_)
        BY <1>1, <1>2, <2>6, KeptOf
      <3>2. /\ Range(Due'[0]) \subseteq Range(Due[0])
            /\ Range(Due'[l]) = Range(Due[l]) \union {f}
        <4>1. Due[0] \in Seq(FunctorType) /\ Due[l] \in Seq(FunctorType)
          BY <1>1, <1>2, <2>6 DEF Queues
        <4>2. Range(Append(Due[l], f)) = Range(Due[l]) \union {f}
          BY <2>7, <4>1, RangeAppend
        <4>3. Range(Tail(Due[0])) \subseteq Range(Due[0])
          BY <2>5, <4>1, RangeHeadTail
        <4>. QED  BY <2>14, <4>2, <4>3
      <3>3. \A k \in Loops : \A g \in Range(Due'[k]) : g.conn \in Kept(Due, connections_)
        BY <2>7, <2>14, <3>1, <3>2
      <3>. QED  BY <2>1, <3>3, KeptLess
    <2>17. Served'
      <3>1. Agree(Due', state_, connections_', loopOf)
        <4>1. l = loopOf[c]
          BY DEF l
        <4>2. Due'[l] = Append(Due[l], Functor("ConnectionDestroyed", c))
          BY <2>14 DEF f
        <4>3. /\ connections_' = connections_ \ {c}
              /\ Agree(Due, state_, connections_, loopOf)
              /\ Due' \in Queues /\ Due'[0] = Tail(Due[0])
              /\ \A k \in Loops \ {0, l} : Due'[k] = Due[k]
          BY <2>1, <2>4, <2>14
        <4>4. /\ state_ \in [Clients -> States] /\ loopOf \in [Clients -> Loops]
              /\ connections_ \in SUBSET Clients /\ Due \in Queues
              /\ 0 \in Loops /\ Due[0] # <<>> /\ c = Head(Due[0]).conn
          BY <1>1, <1>2, <2>5 DEF ServerInv, ServerTyped
        <4>. QED  BY <4>1, <4>2, <4>3, <4>4, RemoveOne
      <3>. QED  BY <2>1, <2>2, <3>1 DEF Served
    <2>. QED  BY <2>2, <2>3, <2>9, <2>15, <2>16, <2>17, ConnStep
  <1>. QED  BY <1>4, <1>5 DEF RemoveConnectionInLoop

\* Nobody is accepted: the descriptors are those of before.
LEMMA TurnAwayStep ==
    ASSUME ServerInv, fault = "none", TurnAway
    PROVE  ServerInv'
  <1>1. accepting = "reserve" /\ main = "serving" /\ ~placeholder
        /\ (raced \/ FreeFiles > 0) /\ left = {} /\ FreeFiles \in Nat
    BY WhileThere DEF TurnAway, ServerInv, FilesCounted
  <1>2. CASE FreeFiles = 0 /\ Fail("CloseFd")
    <2>1. raced' /\ fault' = "CloseFd"
      BY <1>1, <1>2 DEF Fail, files
    <2>2. FaultsKnown'
      BY <2>1 DEF FaultsKnown, FaultNames, Ops
    <2>. QED  BY <1>2, <2>2, FailStep, Zenon
  <1>3. CASE /\ \E c \in Waiting : state_' = [state_ EXCEPT ![c] = "turned away"]
             /\ accepting' = "reopen"
             /\ UNCHANGED <<main, starts, pool, queues, connections_, loopOf, next_,
                            placeholder, others, errnoKept, raced, left, fault>>
    <2>1. PICK c \in Waiting : state_' = [state_ EXCEPT ![c] = "turned away"]
      BY <1>3
    <2>2. /\ main' = main /\ starts' = starts /\ numThreads' = numThreads
          /\ thread' = thread /\ quit_' = quit_ /\ waking' = waking
          /\ queue' = queue /\ batch' = batch /\ connections_' = connections_
          /\ loopOf' = loopOf /\ next_' = next_ /\ placeholder' = placeholder
          /\ others' = others /\ raced' = raced /\ left' = left /\ fault' = fault
          /\ accepting' = "reopen"
      BY <1>3 DEF pool, queues
    <2>3. /\ state_ \in [Clients -> States]
          /\ connections_ \in SUBSET Clients /\ loopOf \in [Clients -> Loops]
      BY DEF ServerInv, ServerTyped
    <2>4. /\ c \in Clients /\ state_[c] = "waiting"
          /\ state_' \in [Clients -> States] /\ state_'[c] = "turned away"
          /\ \A d \in Clients \ {c} : state_'[d] = state_[d]
      BY <2>1, <2>3 DEF Waiting, States
    <2>5. Accepted' = Accepted
      BY <2>4 DEF Accepted
    <2>6. Due' = Due /\ Due \in Queues
      BY <2>2, DueType DEF Due, ServerInv
    <2>7. Agree(Due, state_, connections_, loopOf)
      BY <1>1, WhileThere
    <2>8. Agree(Due, state_', connections_, loopOf)
      BY <2>3, <2>4, <2>6, <2>7, NoConnectionYet
    <2>9. Served'
      BY <1>1, <2>2, <2>6, <2>8 DEF Served
    <2>10. HeldFiles' = HeldFiles
      BY <2>2, <2>5 DEF HeldFiles, Held
    <2>11. FreeFiles' = FreeFiles
      BY <2>2, <2>10 DEF FreeFiles, HeldFiles
    <2>12. FilesCounted'
      BY <1>1, <2>2, <2>10, <2>11 DEF ServerInv, FilesCounted
    <2>13. ServerTyped'
      BY <2>2, <2>4 DEF ServerInv, ServerTyped
    <2>14. ConnsPlaced' /\ ThreadsPlaced' /\ QueuesPlaced' /\ FaultsKnown'
      BY <2>2, <2>5 DEF ServerInv, ConnsPlaced, ThreadsPlaced, Running, QueuesPlaced,
                        FaultsKnown
    <2>. QED  BY <2>9, <2>12, <2>13, <2>14 DEF ServerInv
  <1>. QED  BY <1>2, <1>3 DEF TurnAway

\* The loops take turns.
LEMMA NextLoopType ==
    ASSUME ServerInv
    PROVE  /\ NextLoop \in 0 .. numThreads /\ NextLoop \in Loops
           /\ NextLoop = 0 <=> numThreads = 0
  <1>1. /\ numThreads \in 0 .. MaxThreads /\ next_ \in 0 .. numThreads
        /\ MaxThreads \in Nat
    BY DEF ServerInv, ServerTyped
  <1>2. /\ NextLoop \in 0 .. numThreads /\ NextLoop \in 0 .. MaxThreads
        /\ NextLoop = 0 <=> numThreads = 0
    BY <1>1 DEF NextLoop
  <1>. QED  BY <1>2 DEF Loops

\* accept() has a descriptor for a client that waits.
LEMMA AcceptStep ==
    ASSUME ServerInv, fault = "none", main = "serving", accepting = "no",
           NEW c \in Waiting, FreeFiles > 0, NewConnection(c),
           UNCHANGED <<accepting, placeholder, raced, fault>>,
           UNCHANGED <<main, starts, pool, batch, others, errnoKept, left>>
    PROVE  ServerInv'
  <1>. DEFINE n == NextLoop
              f == Functor("ConnectionEstablished", c)
              s == IF n = 0 THEN "kConnected" ELSE "kConnecting"
  <1>1. /\ main' = main /\ starts' = starts /\ numThreads' = numThreads
        /\ thread' = thread /\ quit_' = quit_ /\ waking' = waking
        /\ batch' = batch /\ others' = others /\ left' = left
        /\ accepting' = accepting /\ placeholder' = placeholder /\ raced' = raced
        /\ fault' = fault
    BY DEF pool
  <1>2. /\ state_' = [state_ EXCEPT ![c] = s]
        /\ connections_' = connections_ \union {c}
        /\ loopOf' = [loopOf EXCEPT ![c] = n] /\ next_' = n
        /\ queue' = IF n = 0 THEN queue ELSE [queue EXCEPT ![n] = Append(@, f)]
    BY DEF NewConnection
  <1>3. /\ n \in 0 .. numThreads /\ n \in Loops /\ (n = 0 <=> numThreads = 0)
    BY NextLoopType
  <1>4. /\ queue \in Queues /\ batch \in Queues /\ 0 \in Loops
        /\ state_ \in [Clients -> States]
        /\ connections_ \in SUBSET Clients /\ loopOf \in [Clients -> Loops]
        /\ Due \in Queues
    BY DueType DEF ServerInv, ServerTyped, Loops
  <1>5. c \in Clients /\ state_[c] = "waiting"
    BY DEF Waiting
  <1>6. s \in {"kConnected", "kConnecting"}
    OBVIOUS
  <1>7. f \in FunctorType /\ f.conn = c /\ f.op = "ConnectionEstablished"
    <2>1. "ConnectionEstablished" \in Ops
      BY DEF Ops
    <2>. QED  BY <1>5, <2>1, FunctorParts, Zenon
  <1>8. s = IF n = 0 THEN "kConnected" ELSE "kConnecting"
    OBVIOUS
  <1>9. f = Functor("ConnectionEstablished", c)
    OBVIOUS
  <1>. HIDE DEF n, f, s
  <1>10. /\ state_' \in [Clients -> States] /\ state_'[c] = s
         /\ \A d \in Clients \ {c} : state_'[d] = state_[d]
         /\ loopOf' \in [Clients -> Loops] /\ loopOf'[c] = n
         /\ \A d \in Clients \ {c} : loopOf'[d] = loopOf[d]
    BY <1>2, <1>3, <1>4, <1>5, <1>6 DEF States
  <1>11. n # 0 => Appended(queue, n, f, queue')
    BY <1>2, <1>3, <1>4, <1>7 DEF Queues, Appended
  <1>12. n # 0 => /\ Appended(Due, n, f, Due')
                  /\ Range(Due'[n]) = Range(Due[n]) \union {f}
    BY <1>1, <1>3, <1>4, <1>7, <1>11, QueuedLastNext, Zenon
  <1>13. n = 0 => queue' = queue /\ Due' = Due
    BY <1>1, <1>2 DEF Due
  <1>14. /\ queue' \in Queues /\ queue'[0] = queue[0]
         /\ Due' \in Queues /\ \A k \in Loops \ {n} : Due'[k] = Due[k]
         /\ n = 0 => Due'[n] = Due[n]
         /\ n # 0 => Due'[n] = Append(Due[n], f)
    BY <1>3, <1>4, <1>11, <1>12, <1>13 DEF Appended
  <1>15. Agree(Due, state_, connections_, loopOf)
    BY WhileThere
  <1>16. Agree(Due', state_', connections_', loopOf')
    <2>1. s = IF n = 0 THEN "kConnected" ELSE "kConnecting"
      BY <1>8
    <2>2. /\ \A d \in Clients \ {c} : state_'[d] = state_[d] /\ loopOf'[d] = loopOf[d]
          /\ n # 0 => Due'[n] = Append(Due[n], Functor("ConnectionEstablished", c))
      BY <1>9, <1>10, <1>14
    <2>3. Agree(Due', state_', connections_ \union {c}, loopOf')
      BY <1>3, <1>4, <1>5, <1>10, <1>14, <1>15, <2>1, <2>2, AdmitOne
    <2>. QED  BY <1>2, <2>3
  <1>17. Served'
    BY <1>1, <1>16 DEF Served
  <1>18. /\ Accepted' = Accepted \union {c} /\ c \notin Accepted
    BY <1>5, <1>6, <1>10 DEF Accepted
  <1>19. HeldFiles' = HeldFiles \union {c} /\ c \notin HeldFiles
    <2>1. Kept(Due', connections_') = Kept(Due, connections_) \union {c}
      <3>1. CASE n = 0
        BY <1>2, <1>5, <1>13, <3>1 DEF Kept
      <3>2. CASE n # 0
        <4>1. /\ \A l \in Loops \ {n} : Range(Due'[l]) = Range(Due[l])
              /\ Range(Due'[n]) = Range(Due[n]) \union {f}
          BY <1>12, <1>14, <3>2
        <4>2. ASSUME NEW d \in Clients \ {c}
              PROVE  (\E l \in Loops : \E g \in Range(Due'[l]) : g.conn = d)
                        <=> \E l \in Loops : \E g \in Range(Due[l]) : g.conn = d
          BY <1>3, <1>7, <4>1
        <4>. QED  BY <1>2, <1>5, <4>2 DEF Kept
      <3>. QED  BY <3>1, <3>2
    <2>2. HeldFiles = Accepted \intersect Kept(Due, connections_)
      BY HeldNow DEF ServerInv
    <2>3. HeldFiles' = Accepted' \intersect Kept(Due', connections_')
      BY <1>1, <1>4, <1>14, HeldThen
    <2>. QED  BY <1>18, <2>1, <2>2, <2>3
  <1>20. IsFiniteSet(HeldFiles') /\ FreeFiles' \in Nat
    <2>. DEFINE H == HeldFiles
                m == Cardinality(H)
                k == Cardinality(H \union {c})
                p == IF placeholder THEN 1 ELSE 0
    <2>1. IsFiniteSet(H) /\ c \notin H
      BY <1>19 DEF ServerInv, FilesCounted
    <2>2. m \in Nat /\ k \in Nat /\ k = m + 1
      <3>. HIDE DEF H
      <3>. QED  BY <2>1, OneMore
    <2>3. IsFiniteSet(H \union {c})
      <3>. HIDE DEF H
      <3>. QED  BY <2>1, FS_AddElement
    <2>4. FreeFiles = MaxFiles - m - others - p /\ FreeFiles' = MaxFiles - k - others - p
      BY <1>1, <1>19 DEF FreeFiles, HeldFiles
    <2>5. p \in Nat /\ others \in Nat /\ FreeFiles \in Nat
      BY DEF ServerInv, ServerTyped, FilesCounted
    <2>. HIDE DEF m, k, p
    <2>6. FreeFiles' \in Nat
      BY <2>2, <2>4, <2>5
    <2>. QED  BY <1>19, <2>3, <2>6
  <1>21. FilesCounted'
    BY <1>1, <1>20 DEF ServerInv, FilesCounted
  <1>22. ServerTyped'
    BY <1>1, <1>2, <1>3, <1>4, <1>5, <1>10, <1>14 DEF ServerInv, ServerTyped
  <1>23. ConnsPlaced'
    <2>1. starts # 0
      BY DEF ServerInv, ConnsPlaced
    <2>2. \A d \in Accepted' : (loopOf'[d] = 0) <=> (numThreads' = 0)
      BY <1>1, <1>3, <1>10, <1>18 DEF ServerInv, ConnsPlaced, Accepted
    <2>. QED  BY <1>1, <2>1, <2>2 DEF ServerInv, ConnsPlaced
  <1>24. ThreadsPlaced' /\ FaultsKnown'
    BY <1>1 DEF ServerInv, ThreadsPlaced, Running, FaultsKnown
  <1>25. QueuesPlaced'
    BY <1>1, <1>14 DEF ServerInv, QueuesPlaced
  <1>. QED  BY <1>17, <1>21, <1>22, <1>23, <1>24, <1>25 DEF ServerInv

\* The acceptor accepts, gives up its placeholder, or closes it once more.
LEMMA HandleReadStep ==
    ASSUME ServerInv, fault = "none", HandleRead
    PROVE  ServerInv'
  <1>1. /\ main = "serving" /\ accepting = "no" /\ Waiting # {}
        /\ UNCHANGED <<main, starts, pool, batch, others, errnoKept, left>>
    BY DEF HandleRead
  <1>2. CASE /\ FreeFiles > 0
             /\ \E c \in Waiting : NewConnection(c)
             /\ UNCHANGED <<accepting, placeholder, raced, fault>>
    <2>1. PICK c \in Waiting : NewConnection(c)
      BY <1>2
    <2>. QED  BY <1>1, <1>2, <2>1, AcceptStep, Zenon
  <1>3. /\ placeholder \in BOOLEAN /\ raced \in BOOLEAN /\ others \in Nat
        /\ FreeFiles \in Nat
    BY DEF ServerInv, ServerTyped, FilesCounted
  <1>4. CASE /\ FreeFiles = 0 /\ placeholder
             /\ accepting' = "reserve" /\ placeholder' = FALSE /\ UNCHANGED fault
             /\ raced' = (raced /\ ~placeholder)
             /\ UNCHANGED <<queue, conns>>
    <2>1. /\ UNCHANGED <<main, starts, pool, queues, conns, errnoKept, left, fault>>
          /\ others' = others /\ raced' = FALSE
      BY <1>1, <1>4 DEF queues
    <2>2. HeldFiles' = HeldFiles
      BY <2>1, ConnsKept DEF ServerInv, queues, conns
    <2>3. FreeFiles' = 1
      <3>1. PICK n \in Nat :
               /\ placeholder => FreeFiles = n - others - 1
               /\ ~placeholder' => FreeFiles' = n - others'
        BY <1>3, <2>1, <2>2, FreeFilesCount DEF ServerInv
      <3>2. ~placeholder'
        BY <1>4
      <3>3. 0 = n - others - 1 /\ FreeFiles' = n - others
        BY <1>4, <2>1, <3>1, <3>2
      <3>. QED  BY <1>3, <3>3
    <2>4. /\ accepting' = "reserve" /\ ~placeholder' /\ placeholder' \in BOOLEAN
          /\ raced' \in BOOLEAN /\ FreeFiles' \in Nat /\ FreeFiles' > 0
          /\ others' \in Nat
      <3>1. FreeFiles' \in Nat /\ FreeFiles' > 0 /\ others' \in Nat
        BY <1>3, <2>1, <2>3
      <3>. QED  BY <1>4, <2>1, <3>1, Zenon
    <2>. QED  BY <1>1, <2>1, <2>4, FilesStep
  <1>5. CASE /\ FreeFiles = 0 /\ ~placeholder
             /\ fault' = "CloseFd" /\ UNCHANGED <<accepting, placeholder>>
             /\ raced' = (raced /\ ~placeholder)
             /\ UNCHANGED <<queue, conns>>
    <2>1. raced
      BY <1>1, <1>5 DEF ServerInv, FilesCounted
    <2>2. raced' = raced
      BY <1>3, <1>5
    <2>3. Fail("CloseFd")
      BY <1>1, <1>5, <2>2 DEF Fail, queues, files
    <2>4. FaultsKnown'
      BY <1>5, <2>1, <2>2 DEF FaultsKnown, FaultNames, Ops
    <2>. QED  BY <2>3, <2>4, FailStep, Zenon
  <1>. QED  BY <1>2, <1>4, <1>5 DEF HandleRead, GiveUpPlaceholder

\* The acceptor opens its placeholder again, if it can, and others open and
\* close descriptors of theirs.
LEMMA DescriptorSteps ==
    ASSUME ServerInv, fault = "none", Reopen \/ OthersOpen \/ OthersClose
    PROVE  ServerInv'
  <1>1. /\ UNCHANGED <<main, starts, pool, queues, conns, errnoKept, left, fault>>
    BY DEF Reopen, OthersOpen, OthersClose
  <1>2. HeldFiles' = HeldFiles
    BY <1>1, ConnsKept DEF ServerInv, queues, conns
  <1>9. others' \in Nat
    BY DEF Reopen, OthersOpen, OthersClose, ServerInv, ServerTyped
  <1>3. PICK n \in Nat :
           /\ placeholder => FreeFiles = n - others - 1
           /\ ~placeholder => FreeFiles = n - others
           /\ placeholder' => FreeFiles' = n - others' - 1
           /\ ~placeholder' => FreeFiles' = n - others'
    BY <1>2, <1>9, FreeFilesCount DEF ServerInv
  <1>4. /\ placeholder \in BOOLEAN /\ raced \in BOOLEAN /\ others \in Nat
        /\ FreeFiles \in Nat /\ accepting \in {"no", "reserve", "reopen"}
    BY DEF ServerInv, ServerTyped, FilesCounted
  <1>5. /\ accepting # "no" =>
             main = "serving" /\ ~placeholder /\ (raced \/ FreeFiles > 0)
        /\ accepting = "reserve" => Waiting # {}
        /\ accepting = "no" /\ ~placeholder => raced \/ main = "gone"
    BY DEF ServerInv, FilesCounted
  <1>6. CASE Reopen
    <2>1. /\ accepting = "reopen" /\ accepting' = "no"
          /\ placeholder' = (FreeFiles > 0)
          /\ others' = others /\ raced' = raced
      BY <1>6 DEF Reopen
    <2>2. FreeFiles' \in Nat
      <3>1. CASE FreeFiles > 0
        <4>1. FreeFiles = n - others /\ FreeFiles' = n - others - 1
          <5>1. ~placeholder /\ placeholder'
            BY <1>5, <2>1, <3>1
          <5>. QED  BY <1>3, <2>1, <5>1
        <4>. QED  BY <1>4, <3>1, <4>1
      <3>2. CASE ~(FreeFiles > 0)
        <4>1. FreeFiles' = FreeFiles
          <5>1. ~placeholder /\ ~placeholder'
            BY <1>5, <2>1, <3>2
          <5>. QED  BY <1>3, <2>1, <5>1
        <4>. QED  BY <1>4, <4>1
      <3>. QED  BY <3>1, <3>2
    <2>3. ~placeholder' => raced'
      BY <1>5, <2>1
    <2>4. placeholder' \in BOOLEAN
      BY <2>1
    <2>. QED  BY <1>1, <1>4, <2>1, <2>2, <2>3, <2>4, FilesStep
  <1>7. CASE OthersOpen
    <2>1. /\ FreeFiles > 0 /\ others' = others + 1
          /\ raced' = (raced \/ accepting # "no")
          /\ accepting' = accepting /\ placeholder' = placeholder
      BY <1>7 DEF OthersOpen
    <2>2. FreeFiles' = FreeFiles - 1
      <3>1. CASE placeholder
        BY <1>3, <1>4, <2>1, <3>1
      <3>2. CASE ~placeholder
        BY <1>3, <1>4, <2>1, <3>2
      <3>. QED  BY <3>1, <3>2
    <2>3. FreeFiles' \in Nat /\ others' \in Nat
      BY <1>4, <2>1, <2>2
    <2>4. raced' \in BOOLEAN /\ (accepting # "no" => raced') /\ (raced => raced')
      BY <2>1
    <2>. QED  BY <1>1, <1>4, <1>5, <2>1, <2>3, <2>4, FilesStep
  <1>8. CASE OthersClose
    <2>1. /\ others > 0 /\ others' = others - 1 /\ raced' = raced
          /\ accepting' = accepting /\ placeholder' = placeholder
      BY <1>8 DEF OthersClose
    <2>2. FreeFiles' = FreeFiles + 1
      <3>1. CASE placeholder
        BY <1>3, <1>4, <2>1, <3>1
      <3>2. CASE ~placeholder
        BY <1>3, <1>4, <2>1, <3>2
      <3>. QED  BY <3>1, <3>2
    <2>3. FreeFiles' \in Nat /\ others' \in Nat /\ FreeFiles' > 0
      BY <1>4, <2>1, <2>2
    <2>. QED  BY <1>1, <1>4, <1>5, <2>1, <2>3, FilesStep
  <1>. QED  BY <1>6, <1>7, <1>8

-----------------------------------------------------------------------------
(* The pool and the destructor *)

\* Start() has all the threads that it wanted.
LEMMA ListenStep ==
    ASSUME ServerInv, fault = "none", Listen
    PROVE  ServerInv'
  <1>1. /\ main = "starting" /\ main' = "serving"
        /\ UNCHANGED <<queues, conns, files, left, fault>>
        /\ starts' = starts /\ numThreads' = numThreads /\ thread' = thread
        /\ quit_' = quit_ /\ waking' = waking
    BY DEF Listen, pool
  <1>2. /\ main' \in Mains /\ starts' \in Nat /\ numThreads' \in 0 .. MaxThreads
        /\ thread' \in [Threads -> Places] /\ quit_' \in [Threads -> BOOLEAN]
        /\ waking' \in Loops
    BY <1>1 DEF ServerInv, ServerTyped, Mains
  <1>3. starts # 0
    BY <1>1 DEF ServerInv, ConnsPlaced
  <1>4. ThreadsPlaced'
    BY <1>1 DEF ServerInv, ThreadsPlaced
  <1>. QED  BY <1>1, <1>2, <1>3, <1>4, PoolStep

\* EventLoop::Quit stores quit_, and has still to wake the loop.
LEMMA QuitStep ==
    ASSUME ServerInv, fault = "none", NEW i \in Threads, Quit(i)
    PROVE  ServerInv'
  <1>1. /\ main = "destroying" /\ waking = 0 /\ Running(i)
        /\ quit_' = [quit_ EXCEPT ![i] = TRUE] /\ waking' = i
        /\ UNCHANGED <<queues, conns, files, left, fault>>
        /\ main' = main /\ starts' = starts /\ numThreads' = numThreads
        /\ thread' = thread
    BY DEF Quit
  <1>2. /\ quit_ \in [Threads -> BOOLEAN] /\ i \in Loops
        /\ main' \in Mains /\ starts' \in Nat /\ numThreads' \in 0 .. MaxThreads
        /\ thread' \in [Threads -> Places]
    BY <1>1 DEF ServerInv, ServerTyped, Threads, Loops
  <1>3. quit_' \in [Threads -> BOOLEAN] /\ quit_'[i] = TRUE
    BY <1>1, <1>2
  <1>4. accepting = "no"
    BY <1>1 DEF ServerInv, FilesCounted
  <1>5. ThreadsPlaced'
    BY <1>1, <1>3 DEF ThreadsPlaced, Running
  <1>. QED  BY <1>1, <1>2, <1>3, <1>4, <1>5, PoolStep

\* Quit() uses the loop once more.
LEMMA WakeupStep ==
    ASSUME ServerInv, fault = "none", Wakeup
    PROVE  ServerInv'
  <1>1. waking # 0 /\ main = "destroying" /\ quit_[waking]
    BY DEF Wakeup, ServerInv, ThreadsPlaced
  <1>2. CASE Fail("dead loop")
    <2>1. main' = main /\ quit_' = quit_ /\ waking' = waking /\ fault' = "dead loop"
      BY <1>2 DEF Fail, pool
    <2>2. FaultsKnown'
      BY <1>1, <2>1 DEF FaultsKnown, FaultNames, Ops
    <2>. QED  BY <1>2, <2>2, FailStep, Zenon
  <1>3. CASE /\ waking' = 0
             /\ UNCHANGED <<main, starts, numThreads, thread, quit_, queues, conns,
                            files, left, fault>>
    <2>1. /\ main' = main /\ starts' = starts /\ numThreads' = numThreads
          /\ thread' = thread /\ quit_' = quit_
          /\ UNCHANGED <<queues, conns, files, left, fault>>
      BY <1>3
    <2>2. /\ main' \in Mains /\ starts' \in Nat /\ numThreads' \in 0 .. MaxThreads
          /\ thread' \in [Threads -> Places] /\ quit_' \in [Threads -> BOOLEAN]
          /\ waking' \in Loops
      BY <1>3, <2>1 DEF ServerInv, ServerTyped, Loops
    <2>3. accepting = "no"
      BY <1>1 DEF ServerInv, FilesCounted
    <2>4. ThreadsPlaced'
      BY <1>1, <1>3, <2>1 DEF ThreadsPlaced, ServerInv
    <2>. QED  BY <1>1, <2>1, <2>2, <2>3, <2>4, PoolStep
  <1>. QED  BY <1>2, <1>3 DEF Wakeup

\* All threads are joined, and the acceptor closes its placeholder.
LEMMA DestroyedStep ==
    ASSUME ServerInv, fault = "none", Destroyed
    PROVE  ServerInv'
  <1>1. /\ main = "destroying" /\ waking = 0
        /\ \A i \in Threads : thread[i] \in {"none", "exited"}
    BY DEF Destroyed
  <1>2. accepting = "no" /\ (~placeholder => raced)
    BY <1>1 DEF ServerInv, FilesCounted, ServerTyped
  <1>3. CASE /\ placeholder /\ main' = "gone" /\ placeholder' = FALSE
             /\ UNCHANGED <<starts, pool, queues, conns, accepting, others, errnoKept,
                            raced, left, fault>>
    <2>1. /\ starts' = starts /\ numThreads' = numThreads
          /\ thread' = thread /\ quit_' = quit_ /\ waking' = waking
          /\ queue' = queue /\ batch' = batch /\ state_' = state_
          /\ connections_' = connections_ /\ loopOf' = loopOf /\ next_' = next_
          /\ accepting' = accepting /\ others' = others /\ raced' = raced
          /\ left' = left /\ fault' = "none"
      BY <1>3 DEF pool, queues, conns
    <2>2. /\ Served' /\ HeldFiles' = HeldFiles /\ Accepted' = Accepted
      BY <1>1, <1>3, <2>1, ConnsKept DEF ServerInv, queues
    <2>3. others' \in Nat /\ others \in Nat
      BY <2>1 DEF ServerInv, ServerTyped
    <2>4. FreeFiles' \in Nat
      <3>1. PICK n \in Nat :
               /\ placeholder => FreeFiles = n - others - 1
               /\ ~placeholder' => FreeFiles' = n - others'
        BY <2>2, <2>3, FreeFilesCount DEF ServerInv
      <3>2. ~placeholder'
        BY <1>3
      <3>3. FreeFiles = n - others - 1 /\ FreeFiles' = n - others
        BY <1>3, <2>1, <3>1, <3>2
      <3>4. FreeFiles \in Nat
        BY DEF ServerInv, FilesCounted
      <3>. QED  BY <2>3, <3>3, <3>4
    <2>5. FilesCounted'
      BY <1>2, <1>3, <2>1, <2>2, <2>4 DEF ServerInv, FilesCounted
    <2>6. ServerTyped'
      <3>1. placeholder' \in BOOLEAN
        BY <1>3
      <3>. QED  BY <1>3, <2>1, <3>1 DEF ServerInv, ServerTyped, Mains
    <2>7. ConnsPlaced'
      BY <1>1, <1>3, <2>1, <2>2 DEF ServerInv, ConnsPlaced
    <2>8. ThreadsPlaced'
      BY <1>1, <1>3, <2>1 DEF ServerInv, ThreadsPlaced
    <2>9. QueuesPlaced' /\ FaultsKnown'
      BY <2>1 DEF ServerInv, QueuesPlaced, FaultsKnown, FaultNames, Ops
    <2>. QED  BY <2>2, <2>5, <2>6, <2>7, <2>8, <2>9 DEF ServerInv
  <1>4. CASE ~placeholder /\ Fail("CloseFd")
    <2>1. raced' /\ fault' = "CloseFd"
      BY <1>2, <1>4 DEF Fail, files
    <2>2. FaultsKnown'
      BY <2>1 DEF FaultsKnown, FaultNames, Ops
    <2>. QED  BY <1>4, <2>2, FailStep, Zenon
  <1>. QED  BY <1>3, <1>4 DEF Destroyed

\* A finite set as a sequence.
LEMMA SequenceOfSet ==
    ASSUME NEW S, IsFiniteSet(S)
    PROVE  SetToSeq(S) \in Seq(S) /\ (S = {} => SetToSeq(S) = <<>>)
  <1>. DEFINE n == Cardinality(S)
  <1>1. n \in Nat /\ ExistsBijection(1 .. n, S)
    BY FS_CardinalityType
  <1>2. \E f \in [1 .. n -> S] : IsInjective(f)
    BY <1>1 DEF ExistsBijection, Bijection, Injection
  <1>3. SetToSeq(S) \in [1 .. n -> S]
    BY <1>2 DEF SetToSeq
  <1>4. SetToSeq(S) \in Seq(S)
    <2>. HIDE DEF n
    <2>. QED  BY <1>1, <1>3
  <1>5. \A s \in Seq({}) : s = <<>>
    <2>1. SUFFICES ASSUME NEW s \in Seq({}), s # <<>> PROVE FALSE
      OBVIOUS
    <2>. QED  BY <2>1
  <1>. QED  BY <1>4, <1>5

\* ConnectionDestroyed for each of a sequence of connections.
Destructions(s) == [n \in DOMAIN s |-> Functor("ConnectionDestroyed", s[n])]

LEMMA DestructionsType ==
    ASSUME NEW S \in SUBSET Clients, NEW s \in Seq(S)
    PROVE  /\ Destructions(s) \in Seq(FunctorType)
           /\ \A g \in Range(Destructions(s)) : g.conn \in S
           /\ s = <<>> => Destructions(s) = <<>>
  <1>. DEFINE r == Destructions(s)
  <1>1. \A c \in S : /\ Functor("ConnectionDestroyed", c) \in FunctorType
                     /\ Functor("ConnectionDestroyed", c).conn = c
    <2>1. "ConnectionDestroyed" \in Ops /\ \A c \in S : c \in Clients
      BY DEF Ops
    <2>. QED  BY <2>1, FunctorParts, Zenon
  <1>2. DOMAIN s = 1 .. Len(s) /\ Len(s) \in Nat /\ \A n \in DOMAIN s : s[n] \in S
    OBVIOUS
  <1>3. /\ DOMAIN r = DOMAIN s
        /\ \A n \in DOMAIN s : r[n] = Functor("ConnectionDestroyed", s[n])
    BY DEF Destructions
  <1>4. \A n \in DOMAIN s : r[n] \in FunctorType /\ r[n].conn \in S
    BY <1>1, <1>2, <1>3
  <1>5. r \in [1 .. Len(s) -> FunctorType]
    BY <1>2, <1>3, <1>4 DEF Destructions
  <1>6. r \in Seq(FunctorType) /\ Len(r) = Len(s)
    <2>. HIDE DEF r
    <2>. QED  BY <1>2, <1>5
  <1>7. \A g \in Range(r) : g.conn \in S
    BY <1>3, <1>4 DEF Range
  <1>8. s = <<>> => r = <<>>
    <2>1. s = <<>> => Len(s) = 0
      OBVIOUS
    <2>. HIDE DEF r
    <2>. QED  BY <1>6, <2>1
  <1>. QED  BY <1>6, <1>7, <1>8

\* All connections of the server get a functor on their loops.
LEMMA AllDestroyed ==
    ASSUME ServerTyped, IsFiniteSet(connections_), DestroyConnections
    PROVE  /\ queue' \in Queues /\ queue'[0] = queue[0]
           /\ \A l \in Loops : \A g \in Range(queue'[l]) :
                 g \in Range(queue[l]) \/ g.conn \in connections_
           /\ connections_ = {} => queue' = queue
  <1>. DEFINE Mine(l) == {c \in connections_ : loopOf[c] = l}
              d(l) == Destructions(SetToSeq(Mine(l)))
  <1>1. /\ queue \in Queues /\ 0 \in Loops /\ connections_ \subseteq Clients
    BY DEF ServerTyped, Loops
  <1>2. queue' = [l \in Loops |-> IF l = 0 THEN queue[0] ELSE queue[l] \o d(l)]
    BY DEF DestroyConnections, Destructions
  <1>3. ASSUME NEW l \in Loops
        PROVE  /\ d(l) \in Seq(FunctorType)
               /\ \A g \in Range(d(l)) : g.conn \in connections_
               /\ connections_ = {} => d(l) = <<>>
    <2>. DEFINE S == Mine(l)
                s == SetToSeq(S)
    <2>1. S \subseteq connections_ /\ (connections_ = {} => S = {})
      OBVIOUS
    <2>. HIDE DEF S
    <2>2. IsFiniteSet(S) /\ S \in SUBSET Clients
      BY <1>1, <2>1, FS_Subset
    <2>3. s \in Seq(S) /\ (S = {} => s = <<>>)
      BY <2>2, SequenceOfSet
    <2>. HIDE DEF s
    <2>4. /\ Destructions(s) \in Seq(FunctorType)
          /\ \A g \in Range(Destructions(s)) : g.conn \in S
          /\ s = <<>> => Destructions(s) = <<>>
      BY <2>2, <2>3, DestructionsType
    <2>5. d(l) = Destructions(s)
      BY DEF s, S
    <2>. HIDE DEF d
    <2>. QED  BY <2>1, <2>3, <2>4, <2>5
  <1>. HIDE DEF Mine, d
  <1>4. ASSUME NEW l \in Loops
        PROVE  /\ queue[l] \o d(l) \in Seq(FunctorType)
               /\ Range(queue[l] \o d(l)) = Range(queue[l]) \union Range(d(l))
               /\ d(l) = <<>> => queue[l] \o d(l) = queue[l]
    <2>1. queue[l] \in Seq(FunctorType) /\ d(l) \in Seq(FunctorType)
      BY <1>1, <1>3 DEF Queues
    <2>. QED  BY <2>1, RangeConcat, EmptyConcat
  <1>5. /\ queue' \in Queues /\ queue'[0] = queue[0]
        /\ \A l \in Loops \ {0} : queue'[l] = queue[l] \o d(l)
    BY <1>1, <1>2, <1>4 DEF Queues
  <1>6. \A l \in Loops : \A g \in Range(queue'[l]) :
            g \in Range(queue[l]) \/ g.conn \in connections_
    BY <1>3, <1>4, <1>5
  <1>7. connections_ = {} => queue' = queue
    <2>1. connections_ = {} => \A l \in Loops : queue'[l] = queue[l]
      BY <1>3, <1>4, <1>5
    <2>. QED  BY <1>1, <1>5, <2>1 DEF Queues
  <1>. QED  BY <1>5, <1>6, <1>7

\* The destructor: nothing is left, or left says what is.
LEMMA DestroyServerStep ==
    ASSUME ServerInv, fault = "none", DestroyServer
    PROVE  ServerInv'
  <1>1. /\ main \in {"constructed", "serving"} /\ accepting = "no"
        /\ main' = "destroying" /\ left' = HeldFiles
        /\ starts' = starts /\ numThreads' = numThreads
        /\ thread' = thread /\ quit_' = quit_ /\ waking' = waking
        /\ batch' = batch /\ state_' = state_ /\ loopOf' = loopOf /\ next_' = next_
        /\ accepting' = accepting /\ placeholder' = placeholder
        /\ others' = others /\ errnoKept' = errnoKept /\ raced' = raced
    BY DEF DestroyServer, HeldFiles, pool, files
  <1>2. Agree(Due, state_, connections_, loopOf)
    BY <1>1, WhileThere
  <1>3. /\ Due \in Queues /\ queue \in Queues /\ batch \in Queues
        /\ connections_ \in SUBSET Clients /\ state_ \in [Clients -> States]
    BY DueType DEF ServerInv, ServerTyped
  <1>4. HeldFiles = Accepted \intersect Kept(Due, connections_)
    BY HeldNow DEF ServerInv
  <1>5. connections_ \subseteq HeldFiles /\ HeldFiles \subseteq Clients
    <2>1. connections_ \subseteq Accepted
      BY <1>2, <1>3 DEF Agree, Accepted
    <2>. QED  BY <1>4, <2>1 DEF Kept, Accepted
  <1>6. IsFiniteSet(connections_)
    BY <1>5, FS_Subset DEF ServerInv, FilesCounted
  <1>7. Accepted' = Accepted /\ Waiting' = Waiting
    BY <1>1 DEF Accepted, Waiting
  <1>8. ConnsPlaced' /\ ThreadsPlaced'
    <2>1. waking = 0
      BY <1>1 DEF ServerInv, ThreadsPlaced
    <2>2. ThreadsPlaced'
      BY <1>1, <2>1 DEF ThreadsPlaced
    <2>3. ConnsPlaced'
      BY <1>1, <1>7 DEF ServerInv, ConnsPlaced
    <2>. QED  BY <2>2, <2>3
  <1>9. ASSUME queue' \in Queues, queue'[0] = queue[0],
               connections_' \in SUBSET connections_,
               Kept(Due', connections_') \subseteq Kept(Due, connections_)
        PROVE  ServerTyped' /\ QueuesPlaced' /\ FilesCounted'
    <2>1. ServerTyped'
      BY <1>1, <1>3, <1>5, <1>9 DEF ServerInv, ServerTyped, Mains
    <2>2. QueuesPlaced'
      BY <1>1, <1>9 DEF ServerInv, QueuesPlaced
    <2>3. HeldFiles' \subseteq HeldFiles
      BY <1>1, <1>3, <1>4, <1>7, <1>9, HeldThen
    <2>4. IsFiniteSet(HeldFiles') /\ FreeFiles' \in Nat
      BY <1>1, <2>3, FilesKept DEF ServerInv
    <2>5. FilesCounted'
      BY <1>1, <2>4 DEF ServerInv, FilesCounted
    <2>. QED  BY <2>1, <2>2, <2>5
  <1>10. CASE /\ \E c \in connections_ : loopOf[c] = 0
              /\ fault' = "ConnectionDestroyed" /\ queue' = queue
              /\ connections_' = connections_
    <2>1. left' # {}
      BY <1>1, <1>5, <1>10
    <2>2. Due' = Due
      BY <1>1, <1>10 DEF Due
    <2>3. Served' /\ FaultsKnown'
      BY <1>10, <2>1 DEF Served, FaultsKnown, FaultNames, Ops
    <2>4. ServerTyped' /\ QueuesPlaced' /\ FilesCounted'
      BY <1>3, <1>9, <1>10, <2>2
    <2>. QED  BY <1>8, <2>3, <2>4 DEF ServerInv
  <1>11. CASE DestroyConnections /\ connections_' = {} /\ fault' = fault
    <2>1. /\ queue' \in Queues /\ queue'[0] = queue[0]
          /\ \A l \in Loops : \A g \in Range(queue'[l]) :
                g \in Range(queue[l]) \/ g.conn \in connections_
          /\ connections_ = {} => queue' = queue
      BY <1>6, <1>11, AllDestroyed DEF ServerInv
    <2>2. Kept(Due', connections_') \subseteq Kept(Due, connections_)
      <3>1. /\ \A l \in Loops : Range(Due[l]) = Range(batch[l]) \union Range(queue[l])
            /\ \A l \in Loops : Range(Due'[l]) = Range(batch[l]) \union Range(queue'[l])
        BY <1>1, <1>3, <2>1, DueType, DueTypeNext DEF ServerInv
      <3>2. /\ \A c \in connections_ : c \in Kept(Due, connections_)
            /\ \A l \in Loops : \A g \in Range(Due[l]) : g.conn \in Kept(Due, connections_)
        BY <1>3, KeptOf
      <3>3. \A l \in Loops : \A g \in Range(Due'[l]) : g.conn \in Kept(Due, connections_)
        BY <2>1, <3>1, <3>2
      <3>. QED  BY <1>11, <3>3, KeptLess
    <2>3. ServerTyped' /\ QueuesPlaced' /\ FilesCounted'
      BY <1>9, <1>11, <2>1, <2>2
    <2>4. Served'
      <3>1. SUFFICES ASSUME HeldFiles = {}
                     PROVE  /\ Agree(Due', state_', connections_', loopOf')
                            /\ \A l \in Loops : Due'[l] = <<>>
        BY <1>1, <1>11, <3>1 DEF Served
      <3>2. connections_ = {}
        BY <1>5, <3>1
      <3>3. Due' = Due /\ connections_' = connections_
        BY <1>1, <1>11, <2>1, <3>2 DEF Due
      <3>4. ASSUME NEW l \in Loops, Due[l] # <<>>
            PROVE  FALSE
        <4>1. Due[l] \in Seq(FunctorType)
          BY <1>3 DEF Queues
        <4>2. Head(Due[l]) \in Range(Due[l])
          BY <3>4, <4>1, RangeHeadTail
        <4>. DEFINE c == Head(Due[l]).conn
        <4>3. c \in Clients /\ state_[c] \in {"kConnecting", "kDisconnected"}
          BY <1>2, <1>3, <4>2, DueFits
        <4>4. c \in Kept(Due, connections_)
          BY <1>3, <4>2, KeptOf
        <4>5. c \in Accepted
          BY <4>3 DEF Accepted
        <4>. QED  BY <1>4, <3>1, <4>4, <4>5
      <3>. QED  BY <1>1, <1>2, <3>3, <3>4
    <2>5. FaultsKnown'
      BY <1>11 DEF FaultsKnown, FaultNames, Ops
    <2>. QED  BY <1>8, <2>3, <2>4, <2>5 DEF ServerInv
  <1>. QED  BY <1>10, <1>11 DEF DestroyServer

-----------------------------------------------------------------------------
(* The invariant *)

LEMMA ServerInvInit == ServerInit => ServerInv
  <1>. SUFFICES ASSUME ServerInit PROVE ServerInv
    OBVIOUS
  <1>1. /\ main = "constructed" /\ starts = 0 /\ numThreads = 0 /\ waking = 0
        /\ thread = [i \in Threads |-> "none"] /\ quit_ = [i \in Threads |-> FALSE]
        /\ queue = [l \in Loops |-> <<>>] /\ batch = [l \in Loops |-> <<>>]
        /\ state_ = [c \in Clients |-> "absent"] /\ connections_ = {}
        /\ loopOf = [c \in Clients |-> 0] /\ next_ = 0
        /\ accepting = "no" /\ placeholder = TRUE /\ others = 0
        /\ raced = FALSE /\ left = {} /\ fault = "none"
    BY DEF ServerInit
  <1>2. 0 \in Loops /\ 0 \in 0 .. MaxThreads /\ \A i \in Threads : i \in Loops
    BY DEF Loops, Threads
  <1>3. queue \in Queues /\ batch \in Queues
    BY <1>1 DEF Queues
  <1>4. state_ \in [Clients -> States] /\ loopOf \in [Clients -> Loops]
    BY <1>1, <1>2 DEF States
  <1>5. thread \in [Threads -> Places] /\ quit_ \in [Threads -> BOOLEAN]
    BY <1>1 DEF Places
  <1>6. ServerTyped
    <2>1. main \in Mains /\ starts \in Nat /\ next_ \in 0 .. numThreads /\ others \in Nat
      BY <1>1 DEF Mains
    <2>2. numThreads \in 0 .. MaxThreads /\ waking \in Loops
      BY <1>1, <1>2
    <2>3. /\ accepting \in {"no", "reserve", "reopen"}
          /\ placeholder \in BOOLEAN /\ raced \in BOOLEAN
          /\ connections_ \in SUBSET Clients /\ left \in SUBSET Clients
      BY <1>1
    <2>. QED  BY <1>3, <1>4, <1>5, <2>1, <2>2, <2>3, Zenon DEF ServerTyped
  <1>7. Accepted = {} /\ HeldFiles = {}
    <2>1. Accepted = {}
      BY <1>1 DEF Accepted
    <2>. QED  BY <2>1 DEF HeldFiles
  <1>8. ConnsPlaced
    BY <1>1, <1>7 DEF ConnsPlaced
  <1>9. ThreadsPlaced
    BY <1>1 DEF ThreadsPlaced
  <1>10. QueuesPlaced
    BY <1>1, <1>2, RangeEmpty DEF QueuesPlaced
  <1>11. FilesCounted
    <2>1. IsFiniteSet(HeldFiles) /\ Cardinality(HeldFiles) = 0
      BY <1>7, FS_EmptySet
    <2>. DEFINE m == Cardinality(HeldFiles)
    <2>2. FreeFiles = MaxFiles - m - 0 - 1
      BY <1>1 DEF FreeFiles, HeldFiles
    <2>. HIDE DEF m
    <2>3. m = 0
      BY <2>1 DEF m
    <2>4. FreeFiles \in Nat
      BY <2>2, <2>3
    <2>. QED  BY <1>1, <2>1, <2>4 DEF FilesCounted
  <1>12. Served
    <2>1. \A l \in Loops : Due[l] = <<>>
      BY <1>1, <1>3, NothingDue DEF Due
    <2>2. /\ \A l \in Loops : NoneTwice(Due[l])
          /\ \A l \in Loops : Range(Due[l]) = {}
      BY <2>1, RangeEmpty DEF NoneTwice
    <2>3. \A c \in Clients : state_[c] = "absent"
      BY <1>1
    <2>4. Agree(Due, state_, connections_, loopOf)
      BY <1>1, <2>2, <2>3 DEF Agree
    <2>. QED  BY <1>1, <2>4 DEF Served
  <1>13. FaultsKnown
    BY <1>1 DEF FaultsKnown, FaultNames, Ops
  <1>. QED  BY <1>6, <1>8, <1>9, <1>10, <1>11, <1>12, <1>13 DEF ServerInv

LEMMA ServerInvStutter ==
    ASSUME ServerInv, UNCHANGED serverVars
    PROVE  ServerInv'
  <1>1. Fail(fault)
    BY DEF Fail, serverVars
  <1>2. FaultsKnown'
    BY DEF ServerInv, FaultsKnown, ClosedOnBase, serverVars, pool, conns, files
  <1>. QED  BY <1>1, <1>2, FailStep, Zenon

LEMMA ServerInvStep == ServerInv /\ [ServerNext]_serverVars => ServerInv'
  <1>. SUFFICES ASSUME ServerInv, [ServerNext]_serverVars PROVE ServerInv'
    OBVIOUS
  <1>1. CASE UNCHANGED serverVars
    BY <1>1, ServerInvStutter, Zenon
  <1>2. CASE ServerNext
    <2>1. ~Aborted /\ fault = "none"
      BY <1>2 DEF ServerNext, Aborted
    <2>2. ASSUME NEW i \in Threads, StartLoop(i)
          PROVE  ServerInv'
      BY <2>1, <2>2, OwnSteps, Zenon
    <2>3. CASE Listen
      BY <2>1, <2>3, ListenStep, Zenon
    <2>4. CASE HandleRead
      BY <2>1, <2>4, HandleReadStep, Zenon
    <2>5. CASE TurnAway
      BY <2>1, <2>5, TurnAwayStep, Zenon
    <2>6. CASE Reopen \/ OthersOpen \/ OthersClose
      BY <2>1, <2>6, DescriptorSteps, Zenon
    <2>7. ASSUME NEW i \in Threads, Quit(i)
          PROVE  ServerInv'
      BY <2>1, <2>7, QuitStep, Zenon
    <2>8. CASE Wakeup
      BY <2>1, <2>8, WakeupStep, Zenon
    <2>9. CASE Destroyed
      BY <2>1, <2>9, DestroyedStep, Zenon
    <2>10. ASSUME NEW i \in Threads, ThreadStep(i)
           PROVE  ServerInv'
      <3>1. CASE RunInThread(i) \/ LoopInThread(i) \/ PollReturns(i)
        BY <2>1, <3>1, OwnSteps, Zenon
      <3>2. CASE EnterLoop(i)
        BY <2>1, <3>2, EnterLoopStep, Zenon
      <3>3. CASE LoopCondition(i)
        BY <2>1, <3>3, LoopConditionStep, Zenon
      <3>4. CASE Swap(i)
        BY <2>1, <3>4, SwapStep, Zenon
      <3>5. CASE DoPendingFunctor(i)
        BY <2>1, <3>5, DoPendingFunctorStep, Zenon
      <3>. QED  BY <2>10, <3>1, <3>2, <3>3, <3>4, <3>5, Zenon DEF ThreadStep
    <2>11. CASE RemoveConnectionInLoop
      BY <2>1, <2>11, RemoveConnectionStep, Zenon
    <2>12. CASE Start
      BY <2>1, <2>12, StartStep, Zenon
    <2>13. CASE DestroyServer
      BY <2>1, <2>13, DestroyServerStep, Zenon
    <2>14. ASSUME NEW c \in Clients, ClientConnects(c)
           PROVE  ServerInv'
      BY <2>1, <2>14, ClientConnectsStep, Zenon
    <2>15. ASSUME NEW c \in Clients, PeerCloses(c)
           PROVE  ServerInv'
      BY <2>1, <2>15, PeerClosesStep, Zenon
    <2>16. MainStep => ServerInv'
      BY <2>2, <2>3, <2>4, <2>5, <2>6, <2>7, <2>8, <2>9, Zenon DEF MainStep
    <2>. QED  BY <1>2, <2>6, <2>10, <2>11, <2>12, <2>13, <2>14, <2>15, <2>16, Zenon
              DEF ServerNext
  <1>. QED  BY <1>1, <1>2

-----------------------------------------------------------------------------
(* Theorems *)

LEMMA ServerTypesFollow == ServerInv => ServerTypeOK
  <1>. SUFFICES ASSUME ServerInv PROVE ServerTypeOK
    OBVIOUS
  <1>1. FreeFiles \in 0 .. MaxFiles
    <2>. DEFINE m == Cardinality(HeldFiles)
                p == IF placeholder THEN 1 ELSE 0
    <2>1. m \in Nat
      BY FS_CardinalityType DEF ServerInv, FilesCounted
    <2>2. FreeFiles = MaxFiles - m - others - p
      BY DEF FreeFiles, HeldFiles
    <2>3. p \in Nat /\ others \in Nat /\ FreeFiles \in Nat
      BY DEF ServerInv, ServerTyped, FilesCounted
    <2>. HIDE DEF m, p
    <2>. QED  BY <2>1, <2>2, <2>3
  <1>2. accepting = "reserve" => Waiting # {} /\ ~placeholder
    BY DEF ServerInv, FilesCounted
  <1>3. waking # 0 => quit_[waking] /\ Running(waking)
    BY DEF ServerInv, ThreadsPlaced
  <1>. QED  BY <1>1, <1>2, <1>3 DEF ServerTypeOK, ServerInv, ServerTyped, Mains,
                                    ConnsPlaced, QueuesPlaced

\* As long as no connection is left behind, none goes before it is removed.
LEMMA NoneFreedEarly ==
    ASSUME ServerInv, left = {}, NEW c \in Clients, Freed(c)
    PROVE  state_[c] = "removed"
  <1>1. c \in Accepted /\ c \notin HeldFiles
    BY DEF Freed, HeldFiles
  <1>2. c \notin Kept(Due, connections_)
    BY <1>1, HeldNow DEF ServerInv
  <1>3. c \notin connections_ /\ loopOf[c] \in Loops
    BY <1>2 DEF Kept, ServerInv, ServerTyped
  <1>4. Agree(Due, state_, connections_, loopOf)
    BY DEF ServerInv, Served
  <1>5. state_[c] \notin {"kConnecting", "kConnected"}
    BY <1>3, <1>4 DEF Agree
  <1>6. state_[c] # "kDisconnected"
    <2>1. SUFFICES ASSUME state_[c] = "kDisconnected" PROVE FALSE
      OBVIOUS
    <2>2. PICK f \in Range(Due[loopOf[c]]) : f.conn = c
      BY <1>3, <1>4, <2>1 DEF Agree
    <2>. QED  BY <1>2, <1>3, <2>2 DEF Kept
  <1>. QED  BY <1>1, <1>5, <1>6 DEF Accepted

LEMMA AbortsFollow == ServerInv => AbortsExplained
  <1>. SUFFICES ASSUME ServerInv, Aborted
                PROVE  CASE fault = "pool started" -> starts > 1
                         [] fault = "freed channel" ->
                                /\ main = "serving" /\ numThreads = 0
                                /\ \E c \in Clients : state_[c] = "removed"
                         [] fault = "CloseFd" -> raced
                         [] fault = "assert(!quit_)" -> main = "destroying"
                         [] fault = "dead loop" -> main = "destroying" /\ quit_[waking]
                         [] OTHER -> left # {}
    BY DEF AbortsExplained
  <1>1. fault = "none" => left # {}
    BY NoneFreedEarly DEF Aborted
  <1>2. /\ fault = "pool started" => starts > 1
        /\ fault = "freed channel" => ClosedOnBase
        /\ fault = "CloseFd" => raced
        /\ fault = "assert(!quit_)" => main = "destroying"
        /\ fault = "dead loop" => main = "destroying" /\ quit_[waking]
        /\ fault \in Ops \union {"dead server"} => left # {}
        /\ fault \in FaultNames
    BY DEF ServerInv, FaultsKnown
  <1>3. fault \notin {"pool started", "freed channel", "CloseFd", "assert(!quit_)",
                      "dead loop"} => left # {}
    BY <1>1, <1>2 DEF FaultNames
  <1>. QED  BY <1>2, <1>3 DEF ClosedOnBase

\* The types of ServerTypeOK hold in every state, for any number of threads,
\* clients and descriptors: descriptors never run below zero, the client that
\* Acceptor::HandleRead is about to turn away is still there, a thread that
\* has exited has nothing left to run, and Wakeup() is due only in a loop that
\* was told to quit.
THEOREM ServerTypeCorrect == ServerSpec => []ServerTypeOK
  <1>1. ServerInit => ServerInv
    BY ServerInvInit
  <1>2. ServerInv /\ [ServerNext]_serverVars => ServerInv'
    BY ServerInvStep
  <1>3. ServerInv => ServerTypeOK
    BY ServerTypesFollow
  <1>. QED  BY <1>1, <1>2, <1>3, PTL DEF ServerSpec

\* However the threads of the pool interleave with TcpServer's constructor,
\* Start() and destructor, the process aborts, or goes on with memory that was
\* freed, for the reasons of AbortsExplained only.  That a peer closes its
\* connection is one of them, but only for a server without loop threads.
THEOREM ServerAbortsCorrect == ServerSpec => []AbortsExplained
  <1>1. ServerInit => ServerInv
    BY ServerInvInit
  <1>2. ServerInv /\ [ServerNext]_serverVars => ServerInv'
    BY ServerInvStep
  <1>3. ServerInv => AbortsExplained
    BY AbortsFollow
  <1>. QED  BY <1>1, <1>2, <1>3, PTL DEF ServerSpec

=============================================================================
