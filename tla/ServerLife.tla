----------------------------- MODULE ServerLife -----------------------------
(***************************************************************************)
(* A TcpServer from Start() to the end of its destructor, with its         *)
(* acceptor and the loop threads of its pool.  main is the thread of the   *)
(* base loop 0; loops 1 .. numThreads run in the EventLoopThreads.  Peers  *)
(* close their connections in order; what else happens to a connection is  *)
(* in module TcpServer.  Descriptors are counted where the acceptor meets  *)
(* their limit: its placeholder, the connections, and those that the rest  *)
(* of the process opens and closes meanwhile.                              *)
(* EndpointProofs extends this module and TcpClient: names that both would *)
(* have begin with Server here.                                            *)
(***************************************************************************)
EXTENDS Naturals, SequencesExt

CONSTANTS
    MaxThreads,     \* the most that Start() may be asked for
    Clients,
    MaxFiles        \* descriptors for connections, placeholder and others

ASSUME ServerLifeAssumption == MaxThreads \in Nat /\ MaxFiles \in Nat \ {0}

VARIABLES
    main,           \* "constructed", "starting" inside Start(), "serving",
                    \* "destroying" after the body of ~TcpServer, or "gone"
    starts,         \* calls of Start()
    numThreads,     \* the argument of the first
    thread,         \* where each loop thread is
    quit_,          \* of the loops of the threads
    waking,         \* the thread whose Wakeup() is due in Quit(), or 0
    queue,          \* pendingFunctors_ of each loop
    batch,          \* functors that a loop has taken from it
    state_,         \* of the connection of each client, or what it got
    connections_, loopOf, next_,
    accepting,      \* inside Acceptor::HandleRead: "no", "reserve" after
                    \* the placeholder was closed, "reopen" before it is back
    placeholder,    \* placeholderFd_ is open
    others,         \* descriptors of the rest of the process
    errnoKept,      \* logging leaves errno alone
    raced,          \* history: others opened one inside HandleRead
    left,           \* history: connections when the destructor was called
    fault

pool == <<numThreads, thread, quit_, waking>>
queues == <<queue, batch>>
conns == <<state_, connections_, loopOf, next_>>
files == <<accepting, placeholder, others, errnoKept, raced>>
serverVars == <<main, starts, pool, queues, conns, files, left, fault>>

Threads == 1 .. MaxThreads
Loops == 0 .. MaxThreads
Functor(op, c) == [op |-> op, conn |-> c]

Waiting == {c \in Clients : state_[c] = "waiting"}
Accepted ==
    {c \in Clients : state_[c] \in {"kConnecting", "kConnected", "kDisconnected", "removed"}}

Held(c) ==
    \/ c \in connections_
    \/ \E l \in Loops : \E f \in Range(queue[l]) \union Range(batch[l]) : f.conn = c

(* The last shared_ptr is given up: the connection and its descriptor go. *)
Freed(c) == c \in Accepted /\ ~Held(c)

FreeFiles ==
    MaxFiles - Cardinality({c \in Accepted : Held(c)}) - others
             - (IF placeholder THEN 1 ELSE 0)

(* ~TcpConnection and ~Channel refuse one that was not destroyed before. *)
Aborted == fault # "none" \/ \E c \in Clients : Freed(c) /\ state_[c] # "removed"

ServerInit ==
    /\ main = "constructed"
    /\ starts = 0
    /\ numThreads = 0
    /\ thread = [i \in Threads |-> "none"]
    /\ quit_ = [i \in Threads |-> FALSE]
    /\ waking = 0
    /\ queue = [l \in Loops |-> <<>>]
    /\ batch = [l \in Loops |-> <<>>]
    /\ state_ = [c \in Clients |-> "absent"]
    /\ connections_ = {}
    /\ loopOf = [c \in Clients |-> 0]
    /\ next_ = 0
    /\ accepting = "no"
    /\ placeholder = TRUE
    /\ others = 0
    /\ errnoKept \in BOOLEAN
    /\ raced = FALSE
    /\ left = {}
    /\ fault = "none"

Fail(what) ==
    /\ fault' = what
    /\ UNCHANGED <<main, starts, pool, queues, conns, files, left>>

-----------------------------------------------------------------------------
(* TcpServer::Start, EventLoopThreadPool::Start, EventLoopThread::StartLoop *)

Running(i) == thread[i] \notin {"none", "created", "counted"}

(* started_ is never set: the pool's assertion meets a second call. *)
Start ==
    /\ main \in {"constructed", "serving"} /\ accepting = "no" /\ starts < 2
    /\ IF starts = 0
       THEN /\ numThreads' \in 0 .. MaxThreads
            /\ main' = "starting" /\ starts' = 1
            /\ UNCHANGED <<thread, quit_, waking, queues, conns, files, left, fault>>
       ELSE /\ starts' = 2 /\ fault' = "pool started"
            /\ UNCHANGED <<main, pool, queues, conns, files, left>>

(* The next thread is created when the loop of the last is known. *)
StartLoop(i) ==
    /\ main = "starting" /\ i <= numThreads /\ thread[i] = "none"
    /\ \A j \in 1 .. i - 1 : Running(j)
    /\ thread' = [thread EXCEPT ![i] = "created"]
    /\ UNCHANGED <<main, starts, numThreads, quit_, waking, queues, conns, files, left, fault>>

Listen ==
    /\ main = "starting" /\ \A i \in 1 .. numThreads : Running(i)
    /\ main' = "serving"
    /\ UNCHANGED <<starts, pool, queues, conns, files, left, fault>>

Goto(i, where) ==
    /\ thread' = [thread EXCEPT ![i] = where]
    /\ UNCHANGED <<main, starts, numThreads, quit_, waking, conns, files, left, fault>>

(* The thread stores tid_ and wakes Thread::Start. *)
RunInThread(i) ==
    thread[i] = "created" /\ Goto(i, "counted") /\ UNCHANGED queues

(* It stores loop_ and wakes StartLoop, and only then calls Loop(). *)
LoopInThread(i) ==
    thread[i] = "counted" /\ Goto(i, "published") /\ UNCHANGED queues

-----------------------------------------------------------------------------
(* EventLoop::Loop in thread i.  A poll ends after its timeout, if not     *)
(* before; what is queued when the loop is left is deleted with it.        *)
EnterLoop(i) ==
    /\ thread[i] = "published"
    /\ IF quit_[i] THEN Fail("assert(!quit_)") ELSE Goto(i, "while") /\ UNCHANGED queues

(* Mutation: quit_ is not looked at again. *)
IgnoreQuit(i) == thread[i] = "while" /\ Goto(i, "poll") /\ UNCHANGED queues

LoopCondition(i) ==
    /\ thread[i] = "while"
    /\ IF quit_[i]
       THEN Goto(i, "exited") /\ queue' = [queue EXCEPT ![i] = <<>>] /\ UNCHANGED batch
       ELSE Goto(i, "poll") /\ UNCHANGED queues

PollReturns(i) == thread[i] = "poll" /\ Goto(i, "swap") /\ UNCHANGED queues

Swap(i) ==
    /\ thread[i] = "swap"
    /\ batch' = [batch EXCEPT ![i] = queue[i]]
    /\ queue' = [queue EXCEPT ![i] = <<>>]
    /\ Goto(i, IF queue[i] = <<>> THEN "while" ELSE "run")

(* ConnectionEstablished and ConnectionDestroyed as functors. *)
DoPendingFunctor(i) ==
    /\ thread[i] = "run"
    /\ LET f == Head(batch[i])
           established == f.op = "ConnectionEstablished"
           expected == IF established THEN "kConnecting" ELSE "kDisconnected"
           becomes == IF established THEN "kConnected" ELSE "removed"
       IN  IF state_[f.conn] # expected
           THEN Fail(f.op)
           ELSE /\ state_' = [state_ EXCEPT ![f.conn] = becomes]
                /\ batch' = [batch EXCEPT ![i] = Tail(@)]
                /\ thread' = [thread EXCEPT ![i] =
                                IF Len(batch[i]) = 1 THEN "while" ELSE "run"]
                /\ UNCHANGED <<main, starts, numThreads, quit_, waking, queue, connections_,
                               loopOf, next_, files, left, fault>>

(* HandleRead meets the end of the stream.  RemoveConnection runs on the   *)
(* base loop, at once if it is the connection's own: unless the user keeps *)
(* the connection, it is then deleted inside the event of its own channel, *)
(* and Channel::HandleEvent goes on with what was deleted.                 *)
PeerCloses(c) ==
    /\ state_[c] = "kConnected"
    /\ IF loopOf[c] = 0
       THEN /\ main = "serving" /\ accepting = "no"
            /\ state_' = [state_ EXCEPT ![c] = "removed"]
            /\ connections_' = connections_ \ {c}
            /\ fault' \in {"none", "freed channel"}
            /\ UNCHANGED queue
       ELSE /\ thread[loopOf[c]] = "poll"
            /\ state_' = [state_ EXCEPT ![c] = "kDisconnected"]
            /\ queue' = [queue EXCEPT ![0] = Append(@, Functor("RemoveConnection", c))]
            /\ UNCHANGED <<connections_, fault>>
    /\ UNCHANGED <<main, starts, pool, batch, loopOf, next_, files, left>>

-----------------------------------------------------------------------------
(* The base loop.  It may go on when the server is gone, and a functor     *)
(* queued by RemoveConnection holds the server's address.                  *)
RemoveConnectionInLoop ==
    /\ main \in {"serving", "gone"} /\ accepting = "no" /\ queue[0] # <<>>
    /\ IF main = "gone"
       THEN Fail("dead server")
       ELSE LET c == Head(queue[0]).conn
            IN  /\ connections_' = connections_ \ {c}
                /\ queue' = [queue EXCEPT ![0] = Tail(@),
                                ![loopOf[c]] = Append(@, Functor("ConnectionDestroyed", c))]
                /\ UNCHANGED <<main, starts, pool, batch, state_, loopOf, next_,
                               files, left, fault>>

ClientConnects(c) ==
    /\ main = "serving" /\ state_[c] = "absent"
    /\ state_' = [state_ EXCEPT ![c] = "waiting"]
    /\ UNCHANGED <<main, starts, pool, queues, connections_, loopOf, next_,
                   files, left, fault>>

(* Mutation: the index wraps one step late. *)
NextLoopPastEnd ==
    IF numThreads = 0 THEN 0 ELSE (IF next_ > numThreads THEN 0 ELSE next_) + 1

NextLoop ==
    IF numThreads = 0 THEN 0 ELSE (IF next_ = numThreads THEN 0 ELSE next_) + 1

NewConnection(c) ==
    /\ state_' = [state_ EXCEPT ![c] = IF NextLoop = 0 THEN "kConnected" ELSE "kConnecting"]
    /\ connections_' = connections_ \union {c}
    /\ loopOf' = [loopOf EXCEPT ![c] = NextLoop]
    /\ next_' = NextLoop
    /\ queue' = IF NextLoop = 0 THEN queue
                ELSE [queue EXCEPT ![NextLoop] =
                        Append(@, Functor("ConnectionEstablished", c))]

(* Mutation: the placeholder is not given up before accept(). *)
KeepPlaceholder == placeholder' = placeholder

(* CloseFd(placeholderFd_); others may take the descriptor. *)
GiveUpPlaceholder == placeholder' = FALSE

(* Acceptor::HandleRead: accept(), and without a free descriptor, if errno *)
(* still says so after the logging, the exchange of the placeholder.       *)
HandleRead ==
    /\ main = "serving" /\ accepting = "no" /\ Waiting # {}
    /\ \/ /\ FreeFiles > 0
          /\ \E c \in Waiting : NewConnection(c)
          /\ UNCHANGED <<accepting, placeholder, raced, fault>>
       \/ /\ FreeFiles = 0 /\ errnoKept
          /\ IF placeholder
             THEN accepting' = "reserve" /\ GiveUpPlaceholder /\ UNCHANGED fault
             ELSE fault' = "CloseFd" /\ UNCHANGED <<accepting, placeholder>>
          /\ raced' = (raced /\ ~placeholder)
          /\ UNCHANGED <<queue, conns>>
    /\ UNCHANGED <<main, starts, pool, batch, others, errnoKept, left>>

(* accept() of the client to turn away, and the end of its connection. *)
TurnAway ==
    /\ accepting = "reserve"
    /\ IF FreeFiles = 0
       THEN Fail("CloseFd")
       ELSE /\ \E c \in Waiting : state_' = [state_ EXCEPT ![c] = "turned away"]
            /\ accepting' = "reopen"
            /\ UNCHANGED <<main, starts, pool, queues, connections_, loopOf, next_,
                           placeholder, others, errnoKept, raced, left, fault>>

(* open() may fail as well; nothing looks at its result. *)
Reopen ==
    /\ accepting = "reopen"
    /\ accepting' = "no"
    /\ placeholder' = (FreeFiles > 0)
    /\ UNCHANGED <<main, starts, pool, queues, conns, others, errnoKept, raced,
                   left, fault>>

OthersOpen ==
    /\ FreeFiles > 0
    /\ others' = others + 1
    /\ raced' = (raced \/ accepting # "no")
    /\ UNCHANGED <<main, starts, pool, queues, conns, accepting, placeholder,
                   errnoKept, left, fault>>

OthersClose ==
    /\ others > 0
    /\ others' = others - 1
    /\ UNCHANGED <<main, starts, pool, queues, conns, accepting, placeholder,
                   errnoKept, raced, left, fault>>

-----------------------------------------------------------------------------
(* ~TcpServer: ConnectionDestroyed for every connection, on its loop, and  *)
(* then the members; ~EventLoopThread stops and joins one after another.   *)
DestroyConnections ==
    LET Of(l) == SetToSeq({c \in connections_ : loopOf[c] = l})
    IN  queue' = [l \in Loops |->
                    IF l = 0 THEN queue[0]
                    ELSE queue[l] \o [n \in DOMAIN Of(l) |->
                                        Functor("ConnectionDestroyed", Of(l)[n])]]

DestroyServer ==
    /\ main \in {"constructed", "serving"} /\ accepting = "no"
    /\ main' = "destroying"
    /\ left' = {c \in Accepted : Held(c)}
    /\ IF \E c \in connections_ : loopOf[c] = 0
       THEN fault' = "ConnectionDestroyed" /\ UNCHANGED <<queue, connections_>>
       ELSE DestroyConnections /\ connections_' = {} /\ UNCHANGED fault
    /\ UNCHANGED <<starts, pool, batch, state_, loopOf, next_, files>>

(* EventLoop::Quit: store quit_, and then use the loop for Wakeup().        *)
Quit(i) ==
    /\ main = "destroying" /\ waking = 0 /\ ~quit_[i] /\ Running(i)
    /\ \A j \in 1 .. i - 1 : thread[j] = "exited"
    /\ quit_' = [quit_ EXCEPT ![i] = TRUE]
    /\ waking' = i
    /\ UNCHANGED <<main, starts, numThreads, thread, queues, conns, files, left, fault>>

Wakeup ==
    /\ waking # 0
    /\ IF thread[waking] = "exited"
       THEN Fail("dead loop")
       ELSE /\ waking' = 0
            /\ UNCHANGED <<main, starts, numThreads, thread, quit_, queues, conns, files, left, fault>>

(* The last thread is joined, the acceptor closes its descriptors. *)
Destroyed ==
    /\ main = "destroying" /\ waking = 0
    /\ \A i \in Threads : thread[i] \in {"none", "exited"}
    /\ IF placeholder
       THEN /\ main' = "gone" /\ placeholder' = FALSE
            /\ UNCHANGED <<starts, pool, queues, conns, accepting, others, errnoKept,
                           raced, left, fault>>
       ELSE Fail("CloseFd")

ThreadStep(i) ==
    \/ RunInThread(i)
    \/ LoopInThread(i)
    \/ EnterLoop(i)
    \/ LoopCondition(i)
    \/ PollReturns(i)
    \/ Swap(i)
    \/ DoPendingFunctor(i)

(* What the main thread does next when nobody has to decide anything. *)
MainStep ==
    \/ \E i \in Threads : StartLoop(i)
    \/ Listen
    \/ HandleRead
    \/ TurnAway
    \/ Reopen
    \/ \E i \in Threads : Quit(i)
    \/ Wakeup
    \/ Destroyed

ServerNext ==
    /\ ~Aborted
    /\ \/ MainStep
       \/ \E i \in Threads : ThreadStep(i)
       \/ RemoveConnectionInLoop
       \/ Start
       \/ DestroyServer
       \/ \E c \in Clients : ClientConnects(c) \/ PeerCloses(c)
       \/ OthersOpen
       \/ OthersClose

(* The threads run, and epoll reports a listening socket again and again   *)
(* while a client waits there.                                             *)
ServerFairness ==
    /\ WF_serverVars(~Aborted /\ MainStep)
    /\ WF_serverVars(~Aborted /\ main = "serving" /\ RemoveConnectionInLoop)
    /\ \A i \in Threads : WF_serverVars(~Aborted /\ ThreadStep(i))

ServerSpec == ServerInit /\ [][ServerNext]_serverVars /\ ServerFairness

-----------------------------------------------------------------------------
(* The variables have the types of their declarations.  Descriptors never  *)
(* run below zero, a client that accept() is about to take is there, the   *)
(* base loop keeps only removals, and a thread that has exited has nothing *)
(* left to run.                                                            *)
ServerTypeOK ==
    /\ main \in {"constructed", "starting", "serving", "destroying", "gone"}
    /\ FreeFiles \in 0 .. MaxFiles
    /\ accepting \in {"no", "reserve", "reopen"}
    /\ accepting = "reserve" => Waiting # {} /\ ~placeholder
    /\ next_ \in 0 .. numThreads
    /\ loopOf \in [Clients -> Loops]
    /\ \A c \in Accepted : (loopOf[c] = 0) <=> (numThreads = 0)
    /\ \A f \in Range(queue[0]) : f.op = "RemoveConnection"
    /\ \A i \in Threads : (batch[i] # <<>>) <=> (thread[i] = "run")
    /\ waking # 0 => quit_[waking] /\ Running(waking)

(* The process is aborted, or goes on with memory that has been freed, for *)
(* four reasons only, however the threads interleave: Start() was called   *)
(* twice; the server has no loop threads and a peer closed a connection;   *)
(* the server was destroyed while it had connections, before a thread had  *)
(* come to Loop(), or after one had left it for the quit_ that Quit() had  *)
(* stored and not yet followed by its Wakeup(); or another thread took the *)
(* descriptor that Acceptor::HandleRead had given up (TcpServer.cc         *)
(* ~TcpServer, Start, RemoveConnectionInLoop; Channel.cc HandleEvent;      *)
(* EventLoop.cc Quit; EventLoopThread.cc; Acceptor.cc HandleRead).         *)
AbortsExplained ==
    Aborted =>
        CASE fault = "pool started" -> starts > 1
          [] fault = "freed channel" -> /\ main = "serving" /\ numThreads = 0
                                        /\ \E c \in Clients : state_[c] = "removed"
          [] fault = "CloseFd" -> raced
          [] fault = "assert(!quit_)" -> main = "destroying"
          [] fault = "dead loop" -> main = "destroying" /\ quit_[waking]
          [] OTHER -> left # {}

(* Start() returns; the destructor returns, with all threads joined; and   *)
(* while the server runs each client that waits is accepted, or turned     *)
(* away for want of descriptors if errno survives the logging              *)
(* (EventLoopThread.cc StartLoop, ~EventLoopThread; Acceptor.cc            *)
(* HandleRead).                                                            *)
StartsServesAndEnds ==
    /\ main = "starting" ~> main # "starting" \/ Aborted
    /\ main = "destroying" ~> main = "gone" \/ Aborted
    /\ \A c \in Clients :
        errnoKept /\ state_[c] = "waiting"
            ~> state_[c] # "waiting" \/ main # "serving" \/ Aborted
=============================================================================
