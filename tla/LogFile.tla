------------------------------ MODULE LogFile -------------------------------
(***************************************************************************)
(* logger/LogFile.cc without its lock: one thread appends batches of lines *)
(* and the file is replaced by size and by day, but never twice within a   *)
(* second, because files are named by the second.  A line counts as one    *)
(* unit of length.  Module AsyncLogging makes these operations its steps.  *)
(***************************************************************************)
EXTENDS Integers, Sequences

CONSTANTS
    RollSize,       \* rollsize_, in lines
    FlushInterval,  \* flushInterval_, in ticks
    CheckEveryN,    \* checkEveryNAppend_
    Second, Day     \* a second and a day, in ticks

ASSUME LogFileAssumption ==
    /\ RollSize \in Nat \ {0} /\ CheckEveryN \in Nat \ {0}
    /\ FlushInterval \in Nat
    /\ Second \in Nat \ {0} /\ Day \in Nat \ {0}

VARIABLES
    now,            \* the clock, in ticks
    files,          \* all files made so far, file_ last: when each was made,
                    \* when something was appended last, and its lines
    flushed,        \* how many lines of file_ have left stdio's buffer
    appendCount_,
    lastRoll_,
    lastFlush_,
    currentPeriod_

logFile == <<files, flushed, appendCount_, lastRoll_, lastFlush_, currentPeriod_>>

LogFileInit ==
    /\ now = 0
    /\ files = <<>>
    /\ flushed = 0
    /\ appendCount_ = 0
    /\ lastRoll_ = -Day
    /\ lastFlush_ = -Day
    /\ currentPeriod_ = -Day

file_ == files[Len(files)]

RoundByDay(t) == t - (t % Day)

(* RollFileUnlocked makes no file when the last one is that young. *)
RollRefused == now - lastRoll_ < Second

NewFile(lines) == [made |-> now, touched |-> now, lines |-> lines]

(* LogFile(): the first file. *)
OpenLogFile ==
    /\ files' = <<NewFile(<<>>)>>
    /\ lastRoll_' = now
    /\ lastFlush_' = now
    /\ currentPeriod_' = RoundByDay(now)
    /\ UNCHANGED <<flushed, appendCount_>>

(* Mutation: the file is replaced only when it is past its size already. *)
OverSizeAlready(lines) == Len(file_.lines) > RollSize

OverSize(lines) == Len(file_.lines) + Len(lines) > RollSize

(* Mutation: an append that looks at the clock finds yesterday good enough. *)
NewDayLate == currentPeriod_ + Day < RoundByDay(now)

NewDay == currentPeriod_ < RoundByDay(now)

(* Append of a batch: the size is looked at every time; the day, and if it *)
(* is the same the flush interval, at every CheckEveryN-th append.  The    *)
(* period moves on even when RollFileUnlocked has refused to make a file.  *)
AppendLines(lines) ==
    LET check == ~OverSize(lines) /\ appendCount_ >= CheckEveryN
        period == check /\ NewDay
        rolls == (OverSize(lines) \/ period) /\ ~RollRefused
        flushes == check /\ ~period /\ now - lastFlush_ >= FlushInterval
    IN  IF lines = <<>>
        THEN UNCHANGED logFile
        ELSE /\ files' = IF rolls
                         THEN Append(files, NewFile(lines))
                         ELSE [files EXCEPT ![Len(files)].touched = now,
                                            ![Len(files)].lines = @ \o lines]
             /\ flushed' = IF rolls THEN 0
                           ELSE IF flushes THEN Len(file_.lines) ELSE flushed
             /\ appendCount_' = IF OverSize(lines) \/ check
                                THEN 1 ELSE appendCount_ + 1
             /\ lastRoll_' = IF rolls THEN now ELSE lastRoll_
             /\ lastFlush_' = IF rolls \/ flushes THEN now ELSE lastFlush_
             /\ currentPeriod_' = IF rolls \/ period
                                  THEN RoundByDay(now) ELSE currentPeriod_

(* Mutation: the file is left to flush itself. *)
FlushLater == UNCHANGED logFile

(* Flush, and what fclose does when the LogFile is destroyed. *)
FlushLogFile ==
    /\ flushed' = Len(file_.lines)
    /\ UNCHANGED <<files, appendCount_, lastRoll_, lastFlush_, currentPeriod_>>

-----------------------------------------------------------------------------
(* Files have names of their own, being made a second apart; a file longer *)
(* than RollSize holds one batch, or all of it was written before the      *)
(* first second of the file was over; and the period of the file in use is *)
(* the day it was made on, unless midnight came within that second: then   *)
(* the day's new file is skipped (LogFile.cc AppendUnlocked,               *)
(* RollFileUnlocked).                                                      *)
FilesRolled(batch) ==
    /\ \A i \in 1 .. Len(files) - 1 : files[i + 1].made - files[i].made >= Second
    /\ \A i \in DOMAIN files :
        Len(files[i].lines) > RollSize =>
            \/ Len(files[i].lines) <= batch
            \/ files[i].touched - files[i].made < Second
    /\ files # <<>> =>
        \/ currentPeriod_ = RoundByDay(file_.made)
        \/ /\ currentPeriod_ > file_.made
           /\ currentPeriod_ - file_.made < Second

(* An append that leaves the period at an earlier day is one of at most    *)
(* CheckEveryN, counted up to the one that looks at the clock, unless the  *)
(* file is too young to be replaced (LogFile.cc AppendUnlocked).           *)
LooksSoon ==
    files # <<>> /\ files' # files /\ currentPeriod_' < RoundByDay(now) /\ ~RollRefused =>
        appendCount_ < appendCount_' /\ appendCount_' <= CheckEveryN
=============================================================================
