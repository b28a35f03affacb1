----------------------------- MODULE TcpClient ------------------------------
(***************************************************************************)
(* net/TcpClient.cc with its Connector and its TcpConnection in one loop.  *)
(* A step is one callback of the loop (a channel event, a timer, a         *)
(* functor) with everything it calls, the user's callbacks included, or    *)
(* the part of Connect() and Stop() that another thread executes.  With    *)
(* direct, a connector is used without a client and Restart() is the       *)
(* user's to call.                                                         *)
(***************************************************************************)
EXTENDS Connector, Sequences

CONSTANTS
    MaxCalls,   \* bound: calls of the user
    MaxTimers   \* bound: retry timers at the same time

ASSUME TcpClientAssumption == MaxCalls \in Nat /\ MaxTimers \in Nat \ {0}

VARIABLES
    direct,
    con,        \* the connector
    conn,       \* the connection: "none", "up", or "closing" after Shutdown
    held,       \* the user has a TcpConnectionPtr of his own to it
    retry_,
    functors,   \* "start" and "stop", queued by another thread
    client,     \* "alive" or "gone"
    did,        \* what the user has called
    calls

vars == <<direct, con, conn, held, retry_, functors, client, did, calls>>

Init ==
    /\ direct \in BOOLEAN
    /\ con = InitConnector
    /\ conn = "none"
    /\ held = FALSE
    /\ retry_ \in BOOLEAN
    /\ functors = <<>>
    /\ client = "alive"
    /\ did = {}
    /\ calls = 0

Did(what) ==
    /\ calls < MaxCalls
    /\ calls' = calls + 1
    /\ did' = did \union {what}

NoCall == UNCHANGED <<calls, did>>

Connected == conn # "none"

(* Not inside a batch of expired timers. *)
BetweenTimers == con.due = 0

(* Events and functors come between the batches of timers. *)
Event == BetweenTimers /\ client = "alive"

-----------------------------------------------------------------------------
(* What HandleClose may make of the connector's state c.  In the client's  *)
(* connection callback the user may stop the connector.                    *)
AfterClose(c, stop) ==
    LET called == IF stop THEN Stop(c) ELSE {c}
    IN  UNION {IF retry_ /\ d.fault = "none" THEN Restart(d) ELSE {d} : d \in called}

(* Undefined: inside an event of the connection's channel the user's own   *)
(* reference is all that keeps the channel when the client gives up its.   *)
ConnectionFreed(outcomes) ==
    IF held THEN {} ELSE {Faulty(c, "freed connection") : c \in outcomes}

(* HandleClose of the connection from a callback of its channel, or not. *)
HandleClose(inEvent) ==
    /\ Connected
    /\ \E stop \in BOOLEAN :
        LET outcomes == AfterClose(con, stop)
        IN  /\ con' \in outcomes \union
                        (IF inEvent THEN ConnectionFreed(outcomes) ELSE {})
            /\ IF stop THEN Did("nested Stop") ELSE NoCall
    /\ conn' = "none"
    /\ UNCHANGED <<direct, held, retry_, functors, client>>

(* The peer closes, or the user closes in the message callback. *)
CloseInEvent == Event /\ HandleClose(TRUE)

(* The peer closes and then resets the connection: HandleEvent calls the   *)
(* close callback when the read callback has closed the connection before. *)
ResetInEvent ==
    /\ Event /\ Connected /\ held
    /\ con' \in {Faulty(c, "closed twice") : c \in AfterClose(con, FALSE)}
    /\ conn' = "none"
    /\ NoCall
    /\ UNCHANGED <<direct, held, retry_, functors, client>>

(* The user shuts the connection down in the message callback or in a      *)
(* functor of his.                                                         *)
Disconnect ==
    /\ client = "alive" /\ ~direct
    /\ IF Connected
       THEN conn' = "closing" /\ UNCHANGED con
       ELSE con' = Faulty(con, "no connection") /\ UNCHANGED conn
    /\ Did("Disconnect")
    /\ UNCHANGED <<direct, held, retry_, functors, client>>

ForceClose ==
    /\ client = "alive" /\ held
    /\ HandleClose(FALSE)

(* The connection outlives the client in the user's hands. *)
CloseWithoutClient ==
    /\ client = "gone" /\ Connected
    /\ con' = Faulty(con, "dead client")
    /\ NoCall
    /\ UNCHANGED <<direct, conn, held, retry_, functors, client>>

-----------------------------------------------------------------------------
(* The attempt's socket is writable.  An error, or a connection of the     *)
(* socket with itself, is followed by a retry.                             *)
AttemptFails ==
    /\ Event /\ con.channel = "registered"
    /\ con' = TryAgain(UnregisterForConnecting(con))
    /\ NoCall
    /\ UNCHANGED <<direct, conn, held, retry_, functors, client>>

(* NewConnection takes the socket, and the connection callback of the user *)
(* runs while the attempt's channel still handles its event.               *)
AttemptSucceeds ==
    /\ Event /\ con.channel = "registered"
    /\ LET moved == [UnregisterForConnecting(con) EXCEPT !.socket_ = FALSE]
           busy == [moved EXCEPT !.inEvent = TRUE]
           Leave(outcomes) == {[c EXCEPT !.inEvent = FALSE] : c \in outcomes}
       IN  \/ /\ con' = moved
              /\ conn' = IF direct THEN "none" ELSE "up"
              /\ held' \in IF direct THEN {FALSE} ELSE BOOLEAN
              /\ NoCall
           \/ /\ ~direct
              /\ con' \in Leave(Stop(busy))
              /\ conn' = "up"
              /\ Did("nested Stop")
              /\ UNCHANGED held
           \/ /\ ~direct
              /\ con' \in Leave(AfterClose(busy, FALSE))
              /\ Did("nested ForceClose")
              /\ UNCHANGED <<conn, held>>
    /\ UNCHANGED <<direct, retry_, functors, client>>

(* A batch of n retry timers leaves the timer queue; the callbacks of      *)
(* other timers in the batch may come before theirs.                       *)
TimersExpire ==
    /\ BetweenTimers
    /\ \E n \in 1 .. con.timers, indexed \in BOOLEAN :
        /\ indexed => con.indexed /\ n < con.timers
        /\ con' = [con EXCEPT !.timers = @ - n, !.due = n, !.indexed = indexed]
    /\ NoCall
    /\ UNCHANGED <<direct, conn, held, retry_, functors, client>>

(* The callback of a retry timer does nothing without its connector. *)
RunRetry ==
    /\ ~BetweenTimers
    /\ LET c == [con EXCEPT !.due = @ - 1]
       IN  con' \in IF client = "alive" THEN StartInLoop(c) ELSE {c}
    /\ NoCall
    /\ UNCHANGED <<direct, conn, held, retry_, functors, client>>

RunFunctor ==
    /\ BetweenTimers /\ functors # <<>>
    /\ functors' = Tail(functors)
    /\ con' \in IF client = "gone" THEN {Faulty(con, "dead connector")}
                ELSE IF Head(functors) = "start" THEN StartInLoop(con)
                ELSE StopInLoop(con)
    /\ NoCall
    /\ UNCHANGED <<direct, conn, held, retry_, client>>

-----------------------------------------------------------------------------
(* Calls of the user in the loop thread, in a functor or in a timer        *)
(* callback of his, or in another thread.                                  *)
Connect ==
    /\ client = "alive" /\ "Connect" \notin did
    /\ Did("Connect")
    /\ \/ con' \in StartInLoop(con) /\ UNCHANGED functors
       \/ functors' = Append(functors, "start") /\ UNCHANGED con
    /\ UNCHANGED <<direct, conn, held, retry_, client>>

CallStop ==
    /\ client = "alive"
    /\ Did("Stop")
    /\ \/ con' \in Stop(con) /\ UNCHANGED functors
       \/ functors' = Append(functors, "stop") /\ con' = [con EXCEPT !.stop_ = TRUE]
    /\ UNCHANGED <<direct, conn, held, retry_, client>>

CallRestart ==
    /\ direct /\ client = "alive" /\ "Connect" \in did
    /\ con.timers + con.due < MaxTimers
    /\ \A i \in DOMAIN functors : functors[i] # "start"
    /\ Did("Restart")
    /\ con' \in Restart(con)
    /\ UNCHANGED <<direct, conn, held, retry_, functors, client>>

SetAutoRetry ==
    /\ client = "alive"
    /\ Did("SetAutoRetry")
    /\ retry_' = ~retry_
    /\ UNCHANGED <<direct, con, conn, held, functors, client>>

(* ~TcpClient gives up the connection before the connector. *)
Destroy ==
    /\ client = "alive"
    /\ Did("Destroy")
    /\ client' = "gone"
    /\ con' \in IF Connected /\ ~held THEN {Faulty(con, "~TcpConnection")}
                ELSE Stop(con)
    /\ UNCHANGED <<direct, conn, held, retry_, functors>>

Next ==
    /\ con.fault = "none"
    /\ \/ CloseInEvent
       \/ ResetInEvent
       \/ Disconnect
       \/ ForceClose
       \/ CloseWithoutClient
       \/ AttemptFails
       \/ AttemptSucceeds
       \/ TimersExpire
       \/ RunRetry
       \/ RunFunctor
       \/ Connect
       \/ CallStop
       \/ CallRestart
       \/ SetAutoRetry
       \/ Destroy

(* The loop goes on: timers expire and functors run.  An attempt may stay  *)
(* under way as long as the kernel likes.                                  *)
Fairness ==
    /\ WF_vars(con.fault = "none" /\ TimersExpire)
    /\ WF_vars(con.fault = "none" /\ RunRetry)
    /\ WF_vars(con.fault = "none" /\ RunFunctor)

Spec == Init /\ [][Next]_vars /\ Fairness

-----------------------------------------------------------------------------
(* The variables have the types of their declarations; the delay doubles   *)
(* up to its maximum; and while connecting_ is set there is a socket whose *)
(* channel is registered, as the assertions of Restart() and StopInLoop()  *)
(* expect (Connector.cc).                                                  *)
TypeOK ==
    /\ con.retryDelay_ \in InitRetryDelay .. MaxRetryDelay
    /\ con.timers \in 0 .. MaxTimers /\ con.due \in 0 .. MaxTimers
    /\ con.indexed => con.timers > 0
    /\ con.channel \in {"none", "idle", "registered"}
    /\ con.connecting_ <=> con.channel = "registered"
    /\ con.fault = "none" /\ con.connecting_ => con.socket_
    /\ conn \in {"none", "up", "closing"}
    /\ functors \in Seq({"start", "stop"})
    /\ client \in {"alive", "gone"}
    /\ ~con.inEvent \/ con.fault = "freed channel"

(* Whatever the network does, in any order with the timers and with what   *)
(* the user calls, the process goes wrong only for a reason the user has   *)
(* given: Stop() or the destructor during an attempt; a call inside the    *)
(* connection callback; no reference of his own to the connection, or the  *)
(* last one kept while the peer resets; Disconnect() without a connection; *)
(* the destructor with one, or with a functor queued; Restart() in a batch *)
(* of timers with the retry (Connector.cc, TcpClient.cc, Channel.cc).      *)
FaultsExplained ==
    LET Because(fault, calls_) == con.fault = fault => did \intersect calls_ # {}
    IN  /\ Because("epoll_ctl", {"Stop", "nested Stop", "Destroy"})
        /\ Because("freed channel", {"nested Stop", "nested ForceClose"})
        /\ Because("no connection", {"Disconnect"})
        /\ Because("~TcpConnection", {"Destroy"})
        /\ Because("dead client", {"Destroy"})
        /\ Because("dead connector", {"Destroy"})
        /\ Because("assert registered", IF direct THEN {"Restart"} ELSE {})
        /\ con.fault = "freed connection" => ~held
        /\ con.fault = "closed twice" => held

(* A client has one thing going at a time: a retry timer, an attempt or a  *)
(* connection.  No race of Stop(), close and retry leaves two of them      *)
(* (TcpClient.cc HandleClose, Connector.cc Retry, Restart).                *)
OneAttempt ==
    ~direct => ~ \/ con.timers + con.due > 1
                 \/ con.timers + con.due > 0 /\ (con.connecting_ \/ Connected)
                 \/ con.connecting_ /\ Connected

(* The connector's user has done nothing that ends the attempts. *)
Wanted ==
    /\ ~direct /\ retry_ /\ "Connect" \in did
    /\ did \intersect {"SetAutoRetry", "Stop", "nested Stop", "Destroy"} = {}
    /\ ~con.gaveUp /\ con.fault = "none"

(* A client that reconnects never comes to rest without a connection: it   *)
(* is connected, has an attempt under way or makes the next one, again and *)
(* again, unless it is stopped or connect() fails for good (Connector.h:   *)
(* tries until it is connected or cancelled).                              *)
KeepsTrying == []<>(Wanted => Connected \/ con.connecting_ \/ con.due > 0)
=============================================================================
