---------------------------- MODULE AsyncLogging ----------------------------
(***************************************************************************)
(* logger/AsyncLogging.cc: the threads that log fill buffers under a lock, *)
(* a background thread swaps the filled buffers for empty ones and writes  *)
(* them to a LogFile.  Lines are numbered in the order in which Append has *)
(* the lock; a buffer is the sequence of its lines.  Start and Stop are    *)
(* called by the main thread as AsyncLogging.h asks: Start before and Stop *)
(* after all other threads that log.                                       *)
(***************************************************************************)
EXTENDS LogFile, Functions

CONSTANTS
    BufferLines,    \* lines that fit into one FixedBuffer
    MaxBuffers,     \* 16: more buffers than this in one swap are dropped
    NoBuffer,       \* a null BufferPtr
    MaxLines,       \* bound: lines that are logged
    MaxNow          \* bound: ticks of the clock

ASSUME AsyncLoggingAssumption ==
    /\ BufferLines \in Nat \ {0}
    /\ MaxBuffers \in Nat /\ MaxBuffers >= 2
    /\ NoBuffer # <<>>
    /\ MaxLines \in Nat /\ MaxNow \in Nat

VARIABLES
    running_,
    main,           \* the main thread: "new", "starting" inside Start, "open",
                    \* "joining" inside Stop, "stopped"; or "aborted", the process
    back,           \* where the background thread is in ThreadFunc
    currentBuffer_, nextBuffer_, buffers_,
    newBuffer1, newBuffer2, buffersToWrite,
    written,        \* buffers of buffersToWrite that are in the file
    accepted,       \* lines that Append has taken
    dropped         \* lines in the buffers the background thread dropped

front == <<currentBuffer_, nextBuffer_, buffers_>>
spare == <<newBuffer1, newBuffer2, buffersToWrite, written>>
vars == <<now, logFile, running_, main, back, front, spare, accepted, dropped>>

Init ==
    /\ LogFileInit
    /\ running_ = FALSE
    /\ main = "new"
    /\ back = "none"
    /\ currentBuffer_ = <<>>
    /\ nextBuffer_ = <<>>
    /\ buffers_ = <<>>
    /\ newBuffer1 = NoBuffer
    /\ newBuffer2 = NoBuffer
    /\ buffersToWrite = <<>>
    /\ written = 0
    /\ accepted = 0
    /\ dropped = {}

-----------------------------------------------------------------------------
(* The main thread *)

Start ==
    /\ main = "new"
    /\ main' = "starting"
    /\ running_' = TRUE
    /\ back' = "created"
    /\ UNCHANGED <<now, logFile, front, spare, accepted, dropped>>

(* latch_.Wait() returns once the background thread has counted down. *)
StartReturns ==
    /\ main = "starting" /\ back # "created"
    /\ main' = "open"
    /\ UNCHANGED <<now, logFile, running_, back, front, spare, accepted, dropped>>

(* Stop takes no lock: its Notify may come before the background thread    *)
(* waits, which then waits until its time is up.                           *)
Stop ==
    /\ main = "open"
    /\ main' = "joining"
    /\ running_' = FALSE
    /\ UNCHANGED <<now, logFile, back, front, spare, accepted, dropped>>

Join ==
    /\ main = "joining" /\ back = "exited"
    /\ main' = "stopped"
    /\ UNCHANGED <<now, logFile, running_, back, front, spare, accepted, dropped>>

-----------------------------------------------------------------------------
(* A thread that logs *)

(* Mutation: the line that found no room is not appended after all. *)
TakeNextBufferOnly ==
    /\ currentBuffer_' = <<>>
    /\ nextBuffer_' = NoBuffer

(* The buffer in reserve becomes the current one, or a new one is made. *)
TakeNextBuffer ==
    /\ currentBuffer_' = <<accepted'>>
    /\ nextBuffer_' = NoBuffer

Append1 ==
    /\ main = "open" /\ accepted < MaxLines
    /\ accepted' = accepted + 1
    /\ \/ /\ Len(currentBuffer_) < BufferLines
          /\ currentBuffer_' = Append(currentBuffer_, accepted')
          /\ UNCHANGED <<nextBuffer_, buffers_>>
       \/ /\ Len(currentBuffer_) = BufferLines
          /\ buffers_' = Append(buffers_, currentBuffer_)
          /\ TakeNextBuffer
    /\ UNCHANGED <<now, logFile, running_, back, spare, dropped>>

LogLine == Append1 /\ UNCHANGED main

(* ~Logger of a FATAL line: abort() right after the line was appended; the *)
(* flush function it calls in between flushes stdout, not the log file.    *)
LogFatal == Append1 /\ main' = "aborted"

-----------------------------------------------------------------------------
(* The background thread *)

Goto(where) == back' = where

CountDown ==
    /\ back = "created"
    /\ Goto("opening")
    /\ UNCHANGED <<now, logFile, running_, main, front, spare, accepted, dropped>>

OpenFile ==
    /\ back = "opening"
    /\ OpenLogFile
    /\ newBuffer1' = <<>>
    /\ newBuffer2' = <<>>
    /\ Goto("loop")
    /\ UNCHANGED <<now, running_, main, front, buffersToWrite, written,
                   accepted, dropped>>

(* Leaving the loop destroys the LogFile and with it stdio's buffer; what  *)
(* is in currentBuffer_ and buffers_ stays there.                          *)
LoopCondition ==
    /\ back = "loop"
    /\ \/ /\ running_
          /\ Goto("enter")
          /\ UNCHANGED logFile
       \/ /\ ~running_
          /\ Goto("exited")
          /\ FlushLogFile
    /\ UNCHANGED <<now, running_, main, front, spare, accepted, dropped>>

WaitForSeconds ==
    /\ back = "enter" /\ buffers_ = <<>>
    /\ Goto("wait")
    /\ UNCHANGED <<now, logFile, running_, main, front, spare, accepted, dropped>>

(* buffersToWrite.resize(2) keeps the two oldest. *)
KeepTwo(taken) == SubSeq(taken, 1, 2)

LinesOf(seqs) == UNION {Range(seqs[i]) : i \in DOMAIN seqs}

(* The critical section, at once or after a wait that ended by a Notify or *)
(* for the time, and the dropping of buffers that follows it.              *)
Swap ==
    /\ (back = "enter" /\ buffers_ # <<>>) \/ back = "wait"
    /\ LET taken == Append(buffers_, currentBuffer_)
           kept == IF Len(taken) > MaxBuffers THEN KeepTwo(taken) ELSE taken
       IN  /\ buffersToWrite' = kept
           /\ dropped' = dropped \union (LinesOf(taken) \ LinesOf(kept))
    /\ buffers_' = <<>>
    /\ currentBuffer_' = newBuffer1
    /\ newBuffer1' = NoBuffer
    /\ IF nextBuffer_ = NoBuffer
       THEN nextBuffer_' = newBuffer2 /\ newBuffer2' = NoBuffer
       ELSE UNCHANGED <<nextBuffer_, newBuffer2>>
    /\ written' = 0
    /\ Goto("write")
    /\ UNCHANGED <<now, logFile, running_, main, accepted>>

WriteBuffer ==
    /\ back = "write"
    /\ AppendLines(buffersToWrite[written + 1])
    /\ written' = written + 1
    /\ Goto(IF written' = Len(buffersToWrite) THEN "recycle" ELSE "write")
    /\ UNCHANGED <<now, running_, main, front, newBuffer1, newBuffer2,
                   buffersToWrite, accepted, dropped>>

(* Mutation: one buffer is taken back where two may be needed. *)
RecycleFirst ==
    /\ newBuffer1' = <<>>
    /\ UNCHANGED newBuffer2

(* The buffers that are taken back from buffersToWrite, which has at least *)
(* two of them if newBuffer2 was used; back() of none is undefined.        *)
TakeBack ==
    /\ newBuffer1' = <<>>
    /\ IF newBuffer2 = NoBuffer /\ Len(buffersToWrite) >= 2
       THEN newBuffer2' = <<>>
       ELSE UNCHANGED newBuffer2

Recycle ==
    /\ back = "recycle"
    /\ TakeBack
    /\ buffersToWrite' = <<>>
    /\ written' = 0
    /\ FlushLogFile
    /\ Goto("loop")
    /\ UNCHANGED <<now, running_, main, front, accepted, dropped>>

Background ==
    \/ CountDown
    \/ OpenFile
    \/ LoopCondition
    \/ WaitForSeconds
    \/ Swap
    \/ WriteBuffer
    \/ Recycle

Tick ==
    /\ now < MaxNow
    /\ now' = now + 1
    /\ UNCHANGED <<logFile, running_, main, back, front, spare, accepted, dropped>>

Next ==
    /\ main # "aborted"
    /\ \/ Start
       \/ StartReturns
       \/ Stop
       \/ Join
       \/ LogLine
       \/ LogFatal
       \/ Background
       \/ Tick

(* The threads get the processor and the lock, and timed waits end; nobody *)
(* has to log or to call Stop.                                             *)
Fairness ==
    /\ WF_vars(main # "aborted" /\ Background)
    /\ WF_vars(main # "aborted" /\ StartReturns)
    /\ WF_vars(main # "aborted" /\ Join)

Spec == Init /\ [][Next]_vars /\ Fairness

-----------------------------------------------------------------------------
Lines == 1 .. MaxLines
Buffer == UNION {[1 .. n -> Lines] : n \in 0 .. BufferLines}

(* The variables have the types of their declarations.  The background     *)
(* thread has both spare buffers whenever it goes for the lock, so that    *)
(* the threads that log never meet a null currentBuffer_, and it finds two *)
(* buffers to take back whenever it needs two (AsyncLogging.cc ThreadFunc).*)
TypeOK ==
    /\ running_ \in BOOLEAN
    /\ main \in {"new", "starting", "open", "joining", "stopped", "aborted"}
    /\ currentBuffer_ \in Buffer
    /\ nextBuffer_ \in {<<>>, NoBuffer}
    /\ \A i \in DOMAIN buffers_ : buffers_[i] \in Buffer
    /\ accepted \in 0 .. MaxLines
    /\ dropped \in SUBSET Lines
    /\ nextBuffer_ = NoBuffer => buffers_ # <<>>
    /\ back \in {"loop", "enter", "wait"} => newBuffer1 = <<>> /\ newBuffer2 = <<>>
    /\ back \in {"write", "recycle"} /\ newBuffer2 = NoBuffer =>
        Len(buffersToWrite) >= 2

(* Where the lines are: in the files, in what the background thread has    *)
(* not written yet, and in the buffers of the front.                       *)
FileLines == [i \in DOMAIN files |-> files[i].lines]
ToWrite == SubSeq(buffersToWrite, written + 1, Len(buffersToWrite))
Chunks == FileLines \o ToWrite \o buffers_ \o <<currentBuffer_>>

Before(S, T) == \A x \in S, y \in T : x < y

Ascending(lines) == \A k, l \in DOMAIN lines : k < l => lines[k] < lines[l]

(* The lines of seqs ascend, in each of its sequences and from one of them *)
(* to the next.                                                            *)
InOrder(seqs) ==
    /\ \A i \in DOMAIN seqs : Ascending(seqs[i])
    /\ \A i, j \in DOMAIN seqs : i < j => Before(Range(seqs[i]), Range(seqs[j]))

(* Every line that Append has taken is in the files, in the buffers of the *)
(* background thread or in those of the front, each once, and all in the   *)
(* order in which they were taken, except those of dropped buffers         *)
(* (AsyncLogging.cc Append, ThreadFunc).                                   *)
LinesAccounted ==
    /\ InOrder(Chunks)
    /\ LinesOf(Chunks) = (1 .. accepted) \ dropped

(* FilesRolled for batches of one buffer. *)
LogFilesRolled == FilesRolled(BufferLines)

(* Midnight is not missed for long: each append that stays in the file and *)
(* period of an earlier day brings the next look at the clock nearer       *)
(* (LogFile.cc AppendUnlocked).                                            *)
DayNoticed == [][LooksSoon]_vars

(* Lines that are past stdio's buffer. *)
Durable ==
    IF files = <<>> THEN {}
    ELSE LinesOf([FileLines EXCEPT ![Len(files)] = SubSeq(@, 1, flushed)])

(* A line is written through to the file, unless the background thread     *)
(* dropped its buffer, Stop was called or the process aborted first; and   *)
(* Stop returns although its Notify may be missed (AsyncLogging.cc         *)
(* ThreadFunc, Stop).                                                      *)
LinesGetWritten ==
    /\ \A x \in Lines :
        accepted >= x ~> x \in Durable \union dropped \/ ~running_ \/ main = "aborted"
    /\ main = "joining" ~> main = "stopped"
=============================================================================
