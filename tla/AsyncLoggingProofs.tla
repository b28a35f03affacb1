------------------------ MODULE AsyncLoggingProofs ------------------------
(***************************************************************************)
(* Theorems about AsyncLogging and its LogFile, for buffers, files and     *)
(* periods of any length, any limit of the backlog and any number of       *)
(* lines.                                                                  *)
(***************************************************************************)
EXTENDS AsyncLogging, SequenceLemmas

USE AsyncLoggingAssumption, LogFileAssumption
    DEF AsyncLoggingAssumption, LogFileAssumption

File == [made : Nat, touched : Nat, lines : Seq(Nat)]

FilesTyped ==
    /\ now \in Nat /\ files \in Seq(File)
    /\ lastRoll_ \in Int /\ currentPeriod_ \in Int

Mains == {"new", "starting", "open", "joining", "stopped", "aborted"}
Places == {"none", "created", "opening", "loop", "enter", "wait", "write",
           "recycle", "exited"}

Typed ==
    /\ FilesTyped
    /\ running_ \in BOOLEAN
    /\ main \in Mains /\ back \in Places
    /\ currentBuffer_ \in Buffer
    /\ buffers_ \in Seq(Buffer) /\ buffersToWrite \in Seq(Buffer)
    /\ nextBuffer_ \in {<<>>, NoBuffer}
    /\ newBuffer1 \in {<<>>, NoBuffer} /\ newBuffer2 \in {<<>>, NoBuffer}
    /\ written \in Nat
    /\ accepted \in 0 .. MaxLines
    /\ dropped \in SUBSET (1 .. accepted)

\* The file and the buffers that the background thread has, by the place it
\* is in.
Placed ==
    /\ main = "new" <=> back = "none"
    /\ back \in {"none", "created", "opening"} <=> files = <<>>
    /\ back \notin {"write", "recycle"} => buffersToWrite = <<>> /\ written = 0
    /\ back = "write" => written < Len(buffersToWrite)
    /\ back = "recycle" => written = Len(buffersToWrite)

\* Both spare buffers are back in time.
SparesBack ==
    /\ nextBuffer_ = NoBuffer => buffers_ # <<>>
    /\ back \in {"loop", "enter", "wait"} => newBuffer1 = <<>> /\ newBuffer2 = <<>>
    /\ back \in {"write", "recycle"} /\ newBuffer2 = NoBuffer =>
        Len(buffersToWrite) >= 2

\* The last roll made the file in use.
Rolled ==
    /\ LogFilesRolled
    /\ files # <<>> => lastRoll_ = file_.made /\ file_.made <= now

LogInv == Typed /\ Placed /\ SparesBack /\ Rolled /\ LinesAccounted

-----------------------------------------------------------------------------
(* Lines in order *)

\* What a buffer is.
LEMMA BufferParts ==
    ASSUME NEW b
    PROVE  b \in Buffer <=> b \in Seq(Lines) /\ Len(b) <= BufferLines
  <1>1. ASSUME b \in Buffer
        PROVE  b \in Seq(Lines) /\ Len(b) <= BufferLines
    <2>1. PICK n \in 0 .. BufferLines : b \in [1 .. n -> Lines]
      BY <1>1 DEF Buffer
    <2>2. b \in Seq(Lines) /\ Len(b) = n
      BY <2>1
    <2>. QED  BY <2>1, <2>2
  <1>2. ASSUME b \in Seq(Lines), Len(b) <= BufferLines
        PROVE  b \in Buffer
    <2>1. b \in [1 .. Len(b) -> Lines] /\ Len(b) \in 0 .. BufferLines
      BY <1>2
    <2>. QED  BY <2>1 DEF Buffer
  <1>. QED  BY <1>1, <1>2

\* What is a buffer of lines is a sequence of numbers.
LEMMA LinesAreNumbers ==
    /\ Lines \subseteq Nat
    /\ \A b \in Buffer : b \in Seq(Nat)
    /\ \A s \in Seq(Buffer) : s \in Seq(Seq(Nat))
    /\ <<>> \in Buffer
  <1>1. Lines \subseteq Nat
    BY DEF Lines
  <1>2. \A b \in Buffer : b \in Seq(Nat)
    <2>. SUFFICES ASSUME NEW b \in Buffer
                  PROVE  b \in Seq(Nat)
      OBVIOUS
    <2>1. b \in Seq(Lines)
      BY BufferParts
    <2>2. \A n \in Lines : n \in Nat
      BY <1>1
    <2>3. \A i \in 1 .. Len(b) : b[i] \in Lines
      BY <2>1
    <2>4. b \in [1 .. Len(b) -> Nat] /\ Len(b) \in Nat
      BY <2>1, <2>2, <2>3
    <2>. QED  BY <2>4
  <1>3. \A s \in Seq(Buffer) : s \in Seq(Seq(Nat))
    BY <1>2
  <1>4. <<>> \in Buffer
    <2>1. <<>> \in Seq(Lines) /\ Len(<<>>) <= BufferLines
      OBVIOUS
    <2>. QED  BY <2>1, BufferParts
  <1>. QED  BY <1>1, <1>2, <1>3, <1>4

\* The lines of a concatenation of chunks.
LEMMA LinesOfConcat ==
    ASSUME NEW s \in Seq(Seq(Nat)), NEW t \in Seq(Seq(Nat))
    PROVE  LinesOf(s \o t) = LinesOf(s) \union LinesOf(t)
  <1>1. ASSUME NEW y \in LinesOf(s \o t)
        PROVE  y \in LinesOf(s) \union LinesOf(t)
    <2>1. PICK i \in DOMAIN (s \o t) : y \in Range((s \o t)[i])
      BY DEF LinesOf
    <2>2. \/ i \in DOMAIN s /\ (s \o t)[i] = s[i]
          \/ i - Len(s) \in DOMAIN t /\ (s \o t)[i] = t[i - Len(s)]
      OBVIOUS
    <2>. QED  BY <2>1, <2>2 DEF LinesOf
  <1>2. ASSUME NEW y \in LinesOf(s)
        PROVE  y \in LinesOf(s \o t)
    <2>1. PICK i \in DOMAIN s : y \in Range(s[i])
      BY DEF LinesOf
    <2>2. i \in DOMAIN (s \o t) /\ (s \o t)[i] = s[i]
      OBVIOUS
    <2>. QED  BY <2>1, <2>2 DEF LinesOf
  <1>3. ASSUME NEW y \in LinesOf(t)
        PROVE  y \in LinesOf(s \o t)
    <2>1. PICK i \in DOMAIN t : y \in Range(t[i])
      BY DEF LinesOf
    <2>2. i + Len(s) \in DOMAIN (s \o t) /\ (s \o t)[i + Len(s)] = t[i]
      OBVIOUS
    <2>. QED  BY <2>1, <2>2 DEF LinesOf
  <1>. QED  BY <1>1, <1>2, <1>3

\* The lines of one chunk.
LEMMA LinesOfOne ==
    ASSUME NEW c \in Seq(Nat)
    PROVE  /\ LinesOf(<<c>>) = Range(c) /\ LinesOf(<<>>) = {}
           /\ InOrder(<<c>>) <=> Ascending(c)
           /\ InOrder(<<>>)
  <1>1. DOMAIN <<c>> = {1} /\ <<c>>[1] = c /\ DOMAIN <<>> = {}
    OBVIOUS
  <1>2. LinesOf(<<c>>) = Range(c) /\ LinesOf(<<>>) = {}
    BY <1>1, Zenon DEF LinesOf
  <1>3. ~(1 < 1)
    OBVIOUS
  <1>4. InOrder(<<c>>) <=> Ascending(c)
    BY <1>1, <1>3, Zenon DEF InOrder
  <1>5. InOrder(<<>>)
    BY <1>1, Zenon DEF InOrder
  <1>. QED  BY <1>2, <1>4, <1>5

\* Lines are in order in a concatenation if they are in each part, and those
\* of the first part come before those of the second.
LEMMA InOrderConcat ==
    ASSUME NEW s \in Seq(Seq(Nat)), NEW t \in Seq(Seq(Nat))
    PROVE  InOrder(s \o t) <=> /\ InOrder(s) /\ InOrder(t)
                               /\ Before(LinesOf(s), LinesOf(t))
  <1>. DEFINE st == s \o t
              n == Len(s)
  <1>1. /\ n \in Nat /\ DOMAIN s = 1 .. n /\ Len(t) \in Nat
        /\ DOMAIN t = 1 .. Len(t) /\ DOMAIN st = 1 .. n + Len(t)
        /\ \A i \in DOMAIN s : i \in DOMAIN st /\ st[i] = s[i]
        /\ \A i \in DOMAIN t : i + n \in DOMAIN st /\ st[i + n] = t[i]
    OBVIOUS
  <1>2. \A i \in DOMAIN st : \/ i \in DOMAIN s /\ st[i] = s[i]
                             \/ i - n \in DOMAIN t /\ st[i] = t[i - n]
    OBVIOUS
  <1>. HIDE DEF st, n
  <1>3. ASSUME InOrder(st)
        PROVE  InOrder(s) /\ InOrder(t) /\ Before(LinesOf(s), LinesOf(t))
    <2>1. InOrder(s)
      BY <1>1, <1>3, Zenon DEF InOrder
    <2>2. \A i, j \in DOMAIN t : i < j => i + n < j + n
      BY <1>1
    <2>3. InOrder(t)
      BY <1>1, <1>3, <2>2, Zenon DEF InOrder
    <2>4. \A i \in DOMAIN s, j \in DOMAIN t : i < j + n
      BY <1>1
    <2>5. \A i \in DOMAIN s, j \in DOMAIN t : Before(Range(s[i]), Range(t[j]))
      BY <1>1, <1>3, <2>4, Zenon DEF InOrder
    <2>6. Before(LinesOf(s), LinesOf(t))
      BY <2>5, Zenon DEF Before, LinesOf
    <2>. QED  BY <2>1, <2>3, <2>6
  <1>4. ASSUME InOrder(s), InOrder(t), Before(LinesOf(s), LinesOf(t))
        PROVE  InOrder(st)
    <2>1. \A i \in DOMAIN st : Ascending(st[i])
      BY <1>2, <1>4, Zenon DEF InOrder
    <2>2. \A i \in DOMAIN s, j \in DOMAIN t : Before(Range(s[i]), Range(t[j]))
      BY <1>4, Zenon DEF Before, LinesOf
    <2>3. ASSUME NEW i \in DOMAIN st, NEW j \in DOMAIN st, i < j
          PROVE  Before(Range(st[i]), Range(st[j]))
      <3>1. CASE i \in DOMAIN s /\ j \in DOMAIN s
        BY <1>1, <1>4, <2>3, <3>1, Zenon DEF InOrder
      <3>2. CASE i \in DOMAIN s /\ j \notin DOMAIN s
        BY <1>1, <1>2, <2>2, <3>2, Zenon
      <3>3. CASE i \notin DOMAIN s
        <4>1. j \notin DOMAIN s /\ i - n < j - n
          BY <1>1, <2>3, <3>3
        <4>2. /\ i - n \in DOMAIN t /\ st[i] = t[i - n]
              /\ j - n \in DOMAIN t /\ st[j] = t[j - n]
          BY <1>2, <3>3, <4>1, Zenon
        <4>. QED  BY <1>4, <4>1, <4>2, Zenon DEF InOrder
      <3>. QED  BY <3>1, <3>2, <3>3
    <2>. QED  BY <2>1, <2>3, Zenon DEF InOrder
  <1>. QED  BY <1>3, <1>4 DEF st

\* Lines that come after those of an ascending sequence continue it.
LEMMA AscendingConcat ==
    ASSUME NEW c \in Seq(Nat), NEW d \in Seq(Nat), Ascending(c), Ascending(d),
           Before(Range(c), Range(d))
    PROVE  Ascending(c \o d)
  <1>. DEFINE cd == c \o d
              n == Len(c)
  <1>1. /\ n \in Nat /\ DOMAIN c = 1 .. n /\ Len(d) \in Nat
        /\ DOMAIN d = 1 .. Len(d) /\ DOMAIN cd = 1 .. n + Len(d)
    OBVIOUS
  <1>2. \A i \in DOMAIN cd : \/ i \in DOMAIN c /\ cd[i] = c[i]
                             \/ i - n \in DOMAIN d /\ cd[i] = d[i - n]
    OBVIOUS
  <1>3. \A i \in DOMAIN c, j \in DOMAIN d : c[i] < d[j]
    BY Zenon DEF Before, Range
  <1>4. \A i \in DOMAIN c : cd[i] = c[i]
    OBVIOUS
  <1>. HIDE DEF cd, n
  <1>5. ASSUME NEW i \in DOMAIN cd, NEW j \in DOMAIN cd, i < j
        PROVE  cd[i] < cd[j]
    <2>1. CASE i \in DOMAIN c /\ j \in DOMAIN c
      BY <1>4, <1>5, <2>1, Zenon DEF Ascending
    <2>2. CASE i \in DOMAIN c /\ j \notin DOMAIN c
      BY <1>2, <1>3, <1>4, <2>2, Zenon
    <2>3. CASE i \notin DOMAIN c
      <3>1. j \notin DOMAIN c /\ i - n < j - n
        BY <1>1, <1>5, <2>3
      <3>2. /\ i - n \in DOMAIN d /\ cd[i] = d[i - n]
            /\ j - n \in DOMAIN d /\ cd[j] = d[j - n]
        BY <1>2, <2>3, <3>1, Zenon
      <3>. QED  BY <3>1, <3>2, Zenon DEF Ascending
    <2>. QED  BY <2>1, <2>2, <2>3
  <1>. QED  BY <1>5, Zenon DEF Ascending, cd

\* A chunk may be put behind the last one, or continue it.
LEMMA ContinueLast ==
    ASSUME NEW s \in Seq(Seq(Nat)), s # <<>>, NEW c \in Seq(Nat),
           InOrder(s), Ascending(c), Before(LinesOf(s), Range(c))
    PROVE  LET t == [s EXCEPT ![Len(s)] = @ \o c]
           IN  /\ t \in Seq(Seq(Nat)) /\ t # <<>> /\ InOrder(t)
               /\ LinesOf(t) = LinesOf(s) \union Range(c)
  <1>. DEFINE n == Len(s)
              l == s[n] \o c
              t == [s EXCEPT ![n] = l]
              f == SubSeq(s, 1, n - 1)
  <1>1. n \in Nat /\ n > 0 /\ n - 1 \in 0 .. Len(s) /\ s[n] \in Seq(Nat)
    BY EmptySeq
  <1>2. l \in Seq(Nat)
    BY <1>1
  <1>3. t \in Seq(Seq(Nat)) /\ Len(t) = n
    BY <1>1, <1>2
  <1>4. f \in Seq(Seq(Nat)) /\ Len(f) = n - 1 /\ \A i \in 1 .. n - 1 : f[i] = s[i]
    <2>. DEFINE g == SubSeq(s, n - 1 + 1, Len(s))
    <2>0. \A m \in 0 .. Len(s) :
            /\ SubSeq(s, 1, m) \in Seq(Seq(Nat)) /\ Len(SubSeq(s, 1, m)) = m
            /\ SubSeq(s, m + 1, Len(s)) \in Seq(Seq(Nat))
            /\ SubSeq(s, 1, m) \o SubSeq(s, m + 1, Len(s)) = s
      BY SplitAt, Zenon
    <2>1. /\ f \in Seq(Seq(Nat)) /\ Len(f) = n - 1
          /\ g \in Seq(Seq(Nat)) /\ f \o g = s
      BY <1>1, <2>0, Zenon
    <2>. HIDE DEF f, g
    <2>2. \A i \in 1 .. n - 1 : (f \o g)[i] = f[i]
      BY <1>1, <2>1
    <2>. QED  BY <2>1, <2>2
  <1>. HIDE DEF f, l
  <1>5. s = f \o <<s[n]>>
    <2>1. /\ f \o <<s[n]>> \in Seq(Seq(Nat)) /\ Len(f \o <<s[n]>>) = n
          /\ \A i \in 1 .. n : (f \o <<s[n]>>)[i] = s[i]
      BY <1>1, <1>4
    <2>. QED  BY <2>1, SeqEqual
  <1>6. t = f \o <<l>>
    <2>1. /\ f \o <<l>> \in Seq(Seq(Nat)) /\ Len(f \o <<l>>) = n
          /\ \A i \in 1 .. n - 1 : (f \o <<l>>)[i] = f[i]
          /\ (f \o <<l>>)[n] = l
      BY <1>1, <1>2, <1>4
    <2>2. t[n] = l /\ \A i \in 1 .. n - 1 : t[i] = s[i]
      BY <1>1
    <2>3. \A i \in 1 .. n : i = n \/ i \in 1 .. n - 1
      BY <1>1
    <2>4. \A i \in 1 .. n : (f \o <<l>>)[i] = t[i]
      BY <1>4, <2>1, <2>2, <2>3
    <2>. QED  BY <1>3, <2>1, <2>4, SeqEqual, Zenon
  <1>7. /\ <<s[n]>> \in Seq(Seq(Nat)) /\ <<l>> \in Seq(Seq(Nat))
        /\ t # <<>>
    BY <1>1, <1>2, <1>3
  <1>. HIDE DEF n, t
  <1>8. Range(l) = Range(s[n]) \union Range(c)
    BY <1>1, RangeConcat DEF l
  <1>9. /\ InOrder(f) /\ Ascending(s[n]) /\ Before(LinesOf(f), Range(s[n]))
        /\ LinesOf(s) = LinesOf(f) \union Range(s[n])
    <2>1. InOrder(f \o <<s[n]>>)
      BY <1>5
    <2>2. /\ InOrder(f) /\ InOrder(<<s[n]>>) /\ Before(LinesOf(f), LinesOf(<<s[n]>>))
      BY <1>4, <1>7, <2>1, InOrderConcat
    <2>3. LinesOf(f \o <<s[n]>>) = LinesOf(f) \union LinesOf(<<s[n]>>)
      BY <1>4, <1>7, LinesOfConcat, Zenon
    <2>4. /\ LinesOf(<<s[n]>>) = Range(s[n])
          /\ InOrder(<<s[n]>>) <=> Ascending(s[n])
      BY <1>1, LinesOfOne
    <2>5. LinesOf(s) = LinesOf(f) \union Range(s[n])
      BY <1>5, <2>3, <2>4
    <2>. QED  BY <2>2, <2>4, <2>5
  <1>10. Before(Range(s[n]), Range(c)) /\ Before(LinesOf(f), Range(l))
    BY <1>8, <1>9, Zenon DEF Before
  <1>11. Ascending(l)
    BY <1>1, <1>9, <1>10, AscendingConcat DEF l
  <1>12. InOrder(<<l>>) /\ LinesOf(<<l>>) = Range(l)
    BY <1>2, <1>11, LinesOfOne
  <1>13. InOrder(t)
    <2>1. InOrder(f \o <<l>>) <=> /\ InOrder(f) /\ InOrder(<<l>>)
                                 /\ Before(LinesOf(f), LinesOf(<<l>>))
      BY <1>4, <1>7, InOrderConcat, Zenon
    <2>. QED  BY <1>6, <1>9, <1>10, <1>12, <2>1, Zenon
  <1>14. LinesOf(t) = LinesOf(f) \union Range(l)
    <2>1. LinesOf(f \o <<l>>) = LinesOf(f) \union LinesOf(<<l>>)
      BY <1>4, <1>7, LinesOfConcat, Zenon
    <2>. QED  BY <1>6, <1>12, <2>1, Zenon
  <1>15. LinesOf(t) = LinesOf(s) \union Range(c)
    BY <1>8, <1>9, <1>14, Zenon
  <1>. QED  BY <1>3, <1>7, <1>13, <1>15 DEF t, l, n

\* Parts of the lines, in order, that make up S.
Parts(f, w, b, c, S) ==
    /\ InOrder(f) /\ InOrder(w) /\ InOrder(b) /\ Ascending(c)
    /\ Before(LinesOf(f), LinesOf(w))
    /\ Before(LinesOf(f) \union LinesOf(w), LinesOf(b))
    /\ Before(LinesOf(f) \union LinesOf(w) \union LinesOf(b), Range(c))
    /\ LinesOf(f) \union LinesOf(w) \union LinesOf(b) \union Range(c) = S

\* The four places a line can be in, taken apart.
LEMMA PartsAccount ==
    ASSUME NEW f \in Seq(Seq(Nat)), NEW w \in Seq(Seq(Nat)),
           NEW b \in Seq(Seq(Nat)), NEW c \in Seq(Nat), NEW S
    PROVE  Parts(f, w, b, c, S) <=>
               /\ InOrder(f \o w \o b \o <<c>>)
               /\ LinesOf(f \o w \o b \o <<c>>) = S
  <1>. DEFINE fw == f \o w
              fwb == fw \o b
  <1>1. /\ fw \in Seq(Seq(Nat)) /\ fwb \in Seq(Seq(Nat)) /\ <<c>> \in Seq(Seq(Nat))
    OBVIOUS
  <1>2. /\ LinesOf(fw) = LinesOf(f) \union LinesOf(w)
        /\ InOrder(fw) <=> /\ InOrder(f) /\ InOrder(w)
                           /\ Before(LinesOf(f), LinesOf(w))
    BY LinesOfConcat, InOrderConcat, Zenon
  <1>. HIDE DEF fw
  <1>3. /\ LinesOf(fwb) = LinesOf(fw) \union LinesOf(b)
        /\ InOrder(fwb) <=> /\ InOrder(fw) /\ InOrder(b)
                            /\ Before(LinesOf(fw), LinesOf(b))
    BY <1>1, LinesOfConcat, InOrderConcat, Zenon
  <1>. HIDE DEF fwb
  <1>4. /\ LinesOf(fwb \o <<c>>) = LinesOf(fwb) \union LinesOf(<<c>>)
        /\ InOrder(fwb \o <<c>>) <=> /\ InOrder(fwb) /\ InOrder(<<c>>)
                                     /\ Before(LinesOf(fwb), LinesOf(<<c>>))
    BY <1>1, LinesOfConcat, InOrderConcat, Zenon
  <1>5. LinesOf(<<c>>) = Range(c) /\ (InOrder(<<c>>) <=> Ascending(c))
    BY LinesOfOne
  <1>6. Parts(f, w, b, c, S) <=>
            InOrder(fwb \o <<c>>) /\ LinesOf(fwb \o <<c>>) = S
    BY <1>2, <1>3, <1>4, <1>5 DEF Parts
  <1>. QED  BY <1>6 DEF fw, fwb

-----------------------------------------------------------------------------
(* The log file *)

\* A day that has begun later than another begins after all of that.
LEMMA DaysApart ==
    ASSUME NEW s \in Nat, NEW t \in Nat, RoundByDay(s) < RoundByDay(t)
    PROVE  s < RoundByDay(t)
  <1>. DEFINE p == s \div Day
              q == t \div Day
  <1>1. /\ Day \in Nat \ {0} /\ p \in Nat /\ q \in Nat
        /\ s = Day * p + (s % Day) /\ s % Day \in 0 .. Day - 1
        /\ t = Day * q + (t % Day) /\ t % Day \in 0 .. Day - 1
    OBVIOUS
  <1>. HIDE DEF p, q
  <1>2. Day * p \in Nat /\ Day * q \in Nat /\ Day * (p + 1) = Day * p + Day
    BY <1>1
  <1>3. RoundByDay(s) = Day * p /\ RoundByDay(t) = Day * q
    BY <1>1, <1>2 DEF RoundByDay
  <1>4. p < q
    BY <1>1, <1>2, <1>3
  <1>5. Day * (p + 1) <= Day * q
    BY <1>1, <1>4
  <1>. QED  BY <1>1, <1>2, <1>3, <1>5

\* A day begins no later than any time of it.
LEMMA RoundByDayType ==
    ASSUME NEW t \in Nat
    PROVE  RoundByDay(t) \in Nat /\ RoundByDay(t) <= t
  BY DEF RoundByDay

\* The file in use, continued.
Continued(lines) ==
    [files EXCEPT ![Len(files)].touched = now, ![Len(files)].lines = @ \o lines]

\* What appending a batch does to the files.
LEMMA AppendLinesCases ==
    ASSUME NEW lines, AppendLines(lines)
    PROVE  \/ lines = <<>> /\ UNCHANGED logFile
           \/ /\ files' = Append(files, NewFile(lines))
              /\ lastRoll_' = now /\ currentPeriod_' = RoundByDay(now)
              /\ ~RollRefused
           \/ /\ files' = Continued(lines)
              /\ lastRoll_' = lastRoll_
              /\ OverSize(lines) => RollRefused
              /\ \/ currentPeriod_' = currentPeriod_
                 \/ NewDay /\ RollRefused /\ currentPeriod_' = RoundByDay(now)
  <1>. DEFINE check == ~OverSize(lines) /\ appendCount_ >= CheckEveryN
              period == check /\ NewDay
              rolls == (OverSize(lines) \/ period) /\ ~RollRefused
  <1>1. \/ lines = <<>> /\ UNCHANGED logFile
        \/ /\ files' = IF rolls THEN Append(files, NewFile(lines))
                       ELSE Continued(lines)
           /\ lastRoll_' = IF rolls THEN now ELSE lastRoll_
           /\ currentPeriod_' = IF rolls \/ period
                                THEN RoundByDay(now) ELSE currentPeriod_
    BY Zenon DEF AppendLines, Continued
  <1>. QED  BY <1>1, Zenon

\* A file that is appended to.
LEMMA TouchedFile ==
    ASSUME NEW l \in File, NEW t \in Nat, NEW x \in Seq(Nat)
    PROVE  LET m == [l EXCEPT !.touched = t]
           IN  /\ m.lines = l.lines
               /\ [m EXCEPT !.lines = x] = [made |-> l.made, touched |-> t, lines |-> x]
  <1>. DEFINE m == [l EXCEPT !.touched = t]
              r == [m EXCEPT !.lines = x]
              g == [made |-> l.made, touched |-> t, lines |-> x]
  <1>1. m \in File /\ m.made = l.made /\ m.touched = t /\ m.lines = l.lines
    BY DEF File
  <1>. HIDE DEF m
  <1>2. r \in File /\ r.made = m.made /\ r.touched = m.touched /\ r.lines = x
    BY <1>1 DEF File
  <1>3. g \in File /\ g.made = l.made /\ g.touched = t /\ g.lines = x
    BY DEF File
  <1>. HIDE DEF r, g
  <1>4. \A d \in File : d = [made |-> d.made, touched |-> d.touched, lines |-> d.lines]
    BY DEF File
  <1>5. r = g
    BY <1>1, <1>2, <1>3, <1>4, Zenon
  <1>. QED  BY <1>1, <1>5 DEF m, r, g

\* A file that is continued keeps when it was made.
LEMMA ContinuedParts ==
    ASSUME now \in Nat, files \in Seq(File), files # <<>>, NEW lines \in Seq(Nat)
    PROVE  /\ Continued(lines) \in Seq(File)
           /\ Len(Continued(lines)) = Len(files)
           /\ DOMAIN Continued(lines) = 1 .. Len(files)
           /\ \A i \in 1 .. Len(files) :
                 i # Len(files) => Continued(lines)[i] = files[i]
           /\ Continued(lines)[Len(files)].made = files[Len(files)].made
           /\ Continued(lines)[Len(files)].touched = now
           /\ Continued(lines)[Len(files)].lines = files[Len(files)].lines \o lines
  <1>. DEFINE n == Len(files)
              l == files[n]
              g == [made |-> l.made, touched |-> now, lines |-> l.lines \o lines]
              h == [files EXCEPT ![n] = g]
  <1>1. n \in Nat \ {0} /\ n \in 1 .. Len(files) /\ l \in File
    BY EmptySeq
  <1>2. l.made \in Nat /\ l.lines \in Seq(Nat) /\ l.touched \in Nat
        /\ l = [made |-> l.made, touched |-> l.touched, lines |-> l.lines]
    BY <1>1 DEF File
  <1>3. l.lines \o lines \in Seq(Nat)
    BY <1>2
  <1>4. g \in File
    BY <1>2, <1>3 DEF File
  <1>5. Continued(lines) = h
    <2>. DEFINE m == [l EXCEPT !.touched = now]
                k == [files EXCEPT ![n] = m]
    <2>1. /\ m.lines = l.lines
          /\ [m EXCEPT !.lines = l.lines \o lines] = g
      BY <1>1, <1>3, TouchedFile DEF g
    <2>2. [m EXCEPT !.lines = m.lines \o lines] = g
      BY <2>1, Zenon
    <2>3. k[n] = m /\ n \in DOMAIN files
      BY <1>1
    <2>4. Continued(lines) = [k EXCEPT ![n] = [k[n] EXCEPT !.lines = k[n].lines \o lines]]
      BY Zenon DEF Continued
    <2>5. Continued(lines) = [k EXCEPT ![n] = g]
      BY <2>2, <2>3, <2>4, Zenon
    <2>6. [k EXCEPT ![n] = g] = h
      BY <2>3
    <2>. QED  BY <2>5, <2>6
  <1>7. g.made = l.made /\ g.touched = now /\ g.lines = l.lines \o lines
    OBVIOUS
  <1>. HIDE DEF g
  <1>6. /\ h \in Seq(File) /\ Len(h) = n /\ DOMAIN h = 1 .. n /\ h[n] = g
        /\ \A i \in 1 .. n : i # n => h[i] = files[i]
    BY <1>1, <1>4
  <1>. QED  BY <1>5, <1>6, <1>7

\* A sequence that agrees with s up to its new last element.
LEMMA PutBehind ==
    ASSUME NEW S, NEW s \in Seq(S), NEW x \in S,
           NEW t \in [1 .. Len(s) + 1 -> S],
           \A i \in 1 .. Len(s) : t[i] = s[i], t[Len(s) + 1] = x
    PROVE  t = s \o <<x>>
  <1>. DEFINE n == Len(s)
  <1>1. t \in Seq(S) /\ Len(t) = n + 1
    OBVIOUS
  <1>2. /\ s \o <<x>> \in Seq(S) /\ Len(s \o <<x>>) = n + 1
        /\ \A i \in 1 .. n : (s \o <<x>>)[i] = s[i]
        /\ (s \o <<x>>)[n + 1] = x
    OBVIOUS
  <1>3. \A i \in 1 .. n + 1 : i \in 1 .. n \/ i = n + 1
    OBVIOUS
  <1>4. \A i \in 1 .. n + 1 : t[i] = (s \o <<x>>)[i]
    BY <1>2, <1>3, Zenon
  <1>. QED  BY <1>1, <1>2, <1>4, SeqEqual, Zenon

\* A sequence that agrees with s but for one element.
LEMMA PutAt ==
    ASSUME NEW S, NEW s \in Seq(S), NEW x \in S, NEW n \in 1 .. Len(s),
           NEW t \in [1 .. Len(s) -> S],
           \A i \in 1 .. Len(s) : i # n => t[i] = s[i], t[n] = x
    PROVE  t = [s EXCEPT ![n] = x]
  <1>1. t \in Seq(S) /\ Len(t) = Len(s)
    OBVIOUS
  <1>2. /\ [s EXCEPT ![n] = x] \in Seq(S) /\ Len([s EXCEPT ![n] = x]) = Len(s)
        /\ \A i \in 1 .. Len(s) : i # n => [s EXCEPT ![n] = x][i] = s[i]
        /\ [s EXCEPT ![n] = x][n] = x
    OBVIOUS
  <1>3. \A i \in 1 .. Len(s) : t[i] = [s EXCEPT ![n] = x][i]
    BY <1>2, Zenon
  <1>. QED  BY <1>1, <1>2, <1>3, SeqEqual, Zenon

\* A file has the types of its fields.
LEMMA FileParts ==
    ASSUME NEW f \in File
    PROVE  /\ f.made \in Nat /\ f.touched \in Nat /\ f.lines \in Seq(Nat)
           /\ Len(f.lines) \in Nat
  BY DEF File

\* Where the lines of a batch come to be.
LEMMA AppendLinesWrites ==
    ASSUME FilesTyped, files # <<>>, NEW lines \in Seq(Nat), AppendLines(lines),
           UNCHANGED now
    PROVE  /\ FilesTyped' /\ files' # <<>>
           /\ \/ lines = <<>> /\ FileLines' = FileLines
              \/ FileLines' = FileLines \o <<lines>>
              \/ FileLines' =
                     [FileLines EXCEPT ![Len(FileLines)] = @ \o lines]
  <1>. DEFINE n == Len(files)
  <1>1. /\ n \in Nat \ {0} /\ DOMAIN files = 1 .. n
        /\ now \in Nat /\ files \in Seq(File) /\ now' = now
        /\ lastRoll_ \in Int /\ currentPeriod_ \in Int
    BY EmptySeq DEF FilesTyped
  <1>2. \A i \in 1 .. n : files[i] \in File /\ files[i].lines \in Seq(Nat)
    <2>1. \A i \in 1 .. n : files[i] \in File
      BY <1>1
    <2>. QED  BY <2>1, FileParts
  <1>3. /\ FileLines \in Seq(Seq(Nat)) /\ Len(FileLines) = n
        /\ \A i \in 1 .. n : FileLines[i] = files[i].lines
    BY <1>1, <1>2 DEF FileLines
  <1>4. RoundByDay(now) \in Int /\ now \in Int
    BY <1>1, RoundByDayType
  <1>5. CASE lines = <<>> /\ UNCHANGED logFile
    BY <1>1, <1>5 DEF logFile, FilesTyped, FileLines
  <1>6. CASE /\ files' = Append(files, NewFile(lines))
             /\ lastRoll_' = now /\ currentPeriod_' = RoundByDay(now)
    <2>1. NewFile(lines) \in File /\ NewFile(lines).lines = lines
      BY <1>1 DEF NewFile, File
    <2>2. /\ files' \in Seq(File) /\ Len(files') = n + 1
          /\ DOMAIN files' = 1 .. n + 1
          /\ \A i \in 1 .. n : files'[i] = files[i]
          /\ files'[n + 1] = NewFile(lines)
      BY <1>1, <1>6, <2>1
    <2>3. /\ FileLines' \in [1 .. n + 1 -> Seq(Nat)]
          /\ \A i \in 1 .. n : FileLines'[i] = FileLines[i]
          /\ FileLines'[n + 1] = lines
      <3>1. FileLines' = [i \in 1 .. n + 1 |-> files'[i].lines]
        BY <2>2 DEF FileLines
      <3>2. \A i \in 1 .. n + 1 : i \in 1 .. n \/ i = n + 1
        BY <1>1
      <3>3. \A i \in 1 .. n : files'[i].lines = files[i].lines
        BY <2>2
      <3>4. files'[n + 1].lines = lines
        BY <2>1, <2>2
      <3>5. \A i \in 1 .. n + 1 : files'[i].lines \in Seq(Nat)
        BY <1>2, <3>2, <3>3, <3>4, Zenon
      <3>6. FileLines' \in [1 .. n + 1 -> Seq(Nat)]
        BY <3>1, <3>5
      <3>7. n + 1 \in 1 .. n + 1 /\ \A i \in 1 .. n : i \in 1 .. n + 1
        BY <1>1
      <3>. QED  BY <1>3, <3>1, <3>3, <3>4, <3>6, <3>7, Zenon
    <2>7. FileLines' = FileLines \o <<lines>>
      <3>1. n \in Nat /\ n = Len(FileLines)
        BY <1>1, <1>3
      <3>2. /\ 1 .. Len(FileLines) = 1 .. n
            /\ 1 .. Len(FileLines) + 1 = 1 .. n + 1
            /\ FileLines'[Len(FileLines) + 1] = lines
        BY <2>3, <3>1
      <3>3. FileLines' \in [1 .. Len(FileLines) + 1 -> Seq(Nat)]
        BY <2>3, <3>2, Zenon
      <3>4. \A i \in 1 .. Len(FileLines) : FileLines'[i] = FileLines[i]
        BY <2>3, <3>2, Zenon
      <3>5. FileLines \in Seq(Seq(Nat)) /\ lines \in Seq(Nat)
        BY <1>3
      <3>. QED  BY <3>2, <3>3, <3>4, <3>5, PutBehind, Zenon
    <2>8. FilesTyped'
      BY <1>1, <1>4, <1>6, <2>2 DEF FilesTyped
    <2>. QED  BY <1>1, <2>2, <2>7, <2>8, EmptySeq
  <1>7. CASE /\ files' = Continued(lines) /\ lastRoll_' = lastRoll_
             /\ \/ currentPeriod_' = currentPeriod_
                \/ currentPeriod_' = RoundByDay(now)
    <2>1. /\ files' \in Seq(File) /\ Len(files') = n
          /\ \A i \in 1 .. n : i # n => files'[i] = files[i]
          /\ DOMAIN files' = 1 .. n
          /\ files'[n].made = files[n].made /\ files'[n].touched = now
          /\ files'[n].lines = files[n].lines \o lines
      BY <1>1, <1>7, ContinuedParts
    <2>2. DOMAIN files' = 1 .. n /\ n \in 1 .. n
      BY <1>1, <2>1
    <2>9. files'[n].lines = files[n].lines \o lines
      BY <2>1, Zenon
    <2>10. files[n].lines \o lines \in Seq(Nat)
      BY <1>2, <2>2
    <2>3. FileLines' = [i \in 1 .. n |-> files'[i].lines]
      BY <2>2 DEF FileLines
    <2>4. \A i \in 1 .. n : i # n => files'[i].lines = files[i].lines
      BY <2>1
    <2>5. FileLines' = [FileLines EXCEPT ![n] = FileLines[n] \o lines]
      <3>1. \A i \in 1 .. n : files'[i].lines \in Seq(Nat)
        BY <1>2, <2>4, <2>9, <2>10, Zenon
      <3>2. FileLines' \in [1 .. n -> Seq(Nat)]
        BY <2>3, <3>1
      <3>3. \A i \in 1 .. n : FileLines'[i] = files'[i].lines
        BY <2>3
      <3>4. FileLines[n] \o lines \in Seq(Nat) /\ FileLines'[n] = FileLines[n] \o lines
        BY <1>3, <2>2, <2>9, <2>10, <3>3, Zenon
      <3>5. \A i \in 1 .. n : i # n => FileLines'[i] = FileLines[i]
        BY <1>3, <2>4, <3>3, Zenon
      <3>6. 1 .. Len(FileLines) = 1 .. n /\ n \in 1 .. Len(FileLines)
        BY <1>3, <2>2
      <3>. QED  BY <1>3, <3>2, <3>4, <3>5, <3>6, PutAt
    <2>6. FilesTyped'
      BY <1>1, <1>4, <1>7, <2>1 DEF FilesTyped
    <2>. QED  BY <1>1, <1>3, <2>1, <2>5, <2>6, EmptySeq
  <1>. QED  BY <1>5, <1>6, <1>7, AppendLinesCases, Zenon

\* Appending a batch of a buffer keeps the rules about the files.
LEMMA AppendLinesRolls ==
    ASSUME FilesTyped, files # <<>>, NEW lines \in Buffer, AppendLines(lines),
           UNCHANGED now, Rolled
    PROVE  Rolled'
  <1>. DEFINE n == Len(files)
  <1>1. /\ n \in Nat \ {0} /\ DOMAIN files = 1 .. n
        /\ now \in Nat /\ files \in Seq(File) /\ now' = now
        /\ lastRoll_ \in Int /\ currentPeriod_ \in Int
    BY EmptySeq DEF FilesTyped
  <1>2. /\ lines \in Seq(Nat) /\ Len(lines) \in Nat /\ Len(lines) <= BufferLines
    BY LinesAreNumbers, BufferParts
  <1>3. /\ lastRoll_ = files[n].made /\ files[n].made <= now
        /\ \A i \in 1 .. n - 1 : files[i + 1].made - files[i].made >= Second
        /\ \A i \in 1 .. n :
              Len(files[i].lines) > RollSize =>
                  \/ Len(files[i].lines) <= BufferLines
                  \/ files[i].touched - files[i].made < Second
        /\ \/ currentPeriod_ = RoundByDay(files[n].made)
           \/ /\ currentPeriod_ > files[n].made
              /\ currentPeriod_ - files[n].made < Second
    BY <1>1 DEF Rolled, LogFilesRolled, FilesRolled, file_
  <1>4. /\ RoundByDay(now) \in Nat /\ RoundByDay(now) <= now
        /\ \A i \in 1 .. n : /\ files[i].made \in Nat /\ files[i].touched \in Nat
                             /\ files[i].lines \in Seq(Nat)
                             /\ Len(files[i].lines) \in Nat
    <2>1. \A i \in 1 .. n : files[i] \in File
      BY <1>1
    <2>. QED  BY <1>1, <2>1, FileParts, RoundByDayType
  <1>8. n \in Nat \ {0}
    BY <1>1
  <1>5. CASE UNCHANGED logFile
    BY <1>5 DEF logFile, Rolled, LogFilesRolled, FilesRolled, file_
  <1>6. CASE /\ files' = Append(files, NewFile(lines))
             /\ lastRoll_' = now /\ currentPeriod_' = RoundByDay(now)
             /\ ~RollRefused
    <2>1. NewFile(lines) = [made |-> now, touched |-> now, lines |-> lines]
      BY DEF NewFile
    <2>2. NewFile(lines) \in File
      BY <1>1, <1>2, <2>1 DEF File
    <2>3. /\ Len(files') = n + 1 /\ DOMAIN files' = 1 .. n + 1
          /\ \A i \in 1 .. n : files'[i] = files[i]
          /\ files'[n + 1] = NewFile(lines)
      BY <1>1, <1>6, <2>2
    <2>4. /\ files'[n + 1].made = now /\ files'[n + 1].lines = lines
      BY <2>1, <2>3
    <2>5. now - files[n].made >= Second
      BY <1>1, <1>3, <1>6 DEF RollRefused
    <2>6. ASSUME NEW i \in 1 .. n
          PROVE  files'[i + 1].made - files'[i].made >= Second
      <3>1. CASE i = n
        BY <1>1, <2>3, <2>4, <2>5, <3>1
      <3>2. CASE i # n
        <4>1. i \in 1 .. n - 1 /\ i + 1 \in 1 .. n
          BY <1>8, <3>2
        <4>. QED  BY <1>3, <2>3, <4>1
      <3>. QED  BY <3>1, <3>2
    <2>7. ASSUME NEW i \in 1 .. n + 1, Len(files'[i].lines) > RollSize
          PROVE  \/ Len(files'[i].lines) <= BufferLines
                 \/ files'[i].touched - files'[i].made < Second
      <3>1. CASE i = n + 1
        BY <1>2, <2>4, <3>1
      <3>2. CASE i # n + 1
        <4>1. i \in 1 .. n
          BY <1>1, <3>2
        <4>. QED  BY <1>3, <2>3, <2>7, <4>1
      <3>. QED  BY <3>1, <3>2
    <2>8. /\ currentPeriod_' = RoundByDay(files'[n + 1].made)
          /\ lastRoll_' = files'[n + 1].made /\ files'[n + 1].made <= now'
      BY <1>1, <1>6, <2>4
    <2>10. Len(files') - 1 = n
      BY <1>1, <2>3
    <2>. QED
      BY <2>3, <2>6, <2>7, <2>8, <2>10
      DEF Rolled, LogFilesRolled, FilesRolled, file_, RoundByDay
  <1>7. CASE /\ files' = Continued(lines) /\ lastRoll_' = lastRoll_
             /\ OverSize(lines) => RollRefused
             /\ \/ currentPeriod_' = currentPeriod_
                \/ NewDay /\ RollRefused /\ currentPeriod_' = RoundByDay(now)
    <2>1. /\ files' \in Seq(File) /\ Len(files') = n
          /\ \A i \in 1 .. n : i # n => files'[i] = files[i]
          /\ DOMAIN files' = 1 .. n
          /\ files'[n].made = files[n].made /\ files'[n].touched = now
          /\ files'[n].lines = files[n].lines \o lines
      BY <1>1, <1>2, <1>7, ContinuedParts
    <2>2. /\ files'[n].made = files[n].made /\ files'[n].touched = now
          /\ files'[n].lines = files[n].lines \o lines
          /\ DOMAIN files' = 1 .. n
      BY <2>1
    <2>3. Len(files'[n].lines) = Len(files[n].lines) + Len(lines)
      BY <1>1, <1>2, <1>4, <2>2
    <2>4. \A i \in 1 .. n : files'[i].made = files[i].made
      BY <2>1, <2>2
    <2>5. ASSUME NEW i \in 1 .. n - 1
          PROVE  files'[i + 1].made - files'[i].made >= Second
      <3>1. i \in 1 .. n /\ i + 1 \in 1 .. n
        BY <1>1
      <3>. QED  BY <1>3, <2>4, <3>1
    <2>6. RollRefused => now - files[n].made < Second
      BY <1>3, Zenon DEF RollRefused
    <2>7. ASSUME NEW i \in 1 .. n, Len(files'[i].lines) > RollSize
          PROVE  \/ Len(files'[i].lines) <= BufferLines
                 \/ files'[i].touched - files'[i].made < Second
      <3>1. CASE i = n
        <4>1. OverSize(lines)
          BY <1>1, <1>2, <1>4, <2>3, <2>7, <3>1 DEF OverSize, file_
        <4>. QED  BY <1>7, <2>2, <2>6, <3>1, <4>1
      <3>2. CASE i # n
        BY <1>3, <2>1, <2>7, <3>2
      <3>. QED  BY <3>1, <3>2
    <2>8. \/ currentPeriod_' = RoundByDay(files[n].made)
          \/ /\ currentPeriod_' > files[n].made
             /\ currentPeriod_' - files[n].made < Second
      <3>1. CASE currentPeriod_' = currentPeriod_
        BY <1>3, <3>1
      <3>2. CASE NewDay /\ RollRefused /\ currentPeriod_' = RoundByDay(now)
        <4>1. n \in 1 .. n /\ files[n].made \in Nat
          BY <1>1, <1>4
        <4>2. now - files[n].made < Second /\ currentPeriod_ < RoundByDay(now)
          BY <2>6, <3>2 DEF NewDay
        <4>3. CASE currentPeriod_ = RoundByDay(files[n].made)
          <5>1. files[n].made < RoundByDay(now)
            BY <1>1, <4>1, <4>2, <4>3, DaysApart
          <5>. QED  BY <1>1, <1>4, <3>2, <4>1, <4>2, <5>1
        <4>4. CASE currentPeriod_ > files[n].made
          BY <1>1, <1>4, <3>2, <4>1, <4>2, <4>4
        <4>. QED  BY <1>3, <4>3, <4>4
      <3>. QED  BY <1>7, <3>1, <3>2
    <2>9. lastRoll_' = files'[n].made /\ files'[n].made <= now'
      BY <1>1, <1>3, <1>7, <2>2
    <2>. QED
      BY <2>1, <2>2, <2>5, <2>7, <2>8, <2>9
      DEF Rolled, LogFilesRolled, FilesRolled, file_, RoundByDay
  <1>. QED  BY <1>5, <1>6, <1>7, AppendLinesCases, Zenon

-----------------------------------------------------------------------------
(* The steps *)

\* The lines of files are chunks.
LEMMA FileLinesType ==
    ASSUME NEW fs \in Seq(File)
    PROVE  [i \in DOMAIN fs |-> fs[i].lines] \in Seq(Seq(Nat))
  <1>. DEFINE g == [i \in DOMAIN fs |-> fs[i].lines]
              n == Len(fs)
  <1>1. n \in Nat /\ DOMAIN fs = 1 .. n
    OBVIOUS
  <1>2. \A i \in 1 .. n : fs[i] \in File
    OBVIOUS
  <1>3. \A i \in 1 .. n : fs[i].lines \in Seq(Nat)
    BY <1>2, FileParts
  <1>4. g \in [1 .. n -> Seq(Nat)]
    BY <1>1, <1>3
  <1>. HIDE DEF g, n
  <1>5. g \in Seq(Seq(Nat))
    BY <1>1, <1>4
  <1>. QED  BY <1>5 DEF g

\* What each of the four places holds.
LEMMA ChunkTypes ==
    ASSUME Typed, Placed
    PROVE  /\ FileLines \in Seq(Seq(Nat)) /\ ToWrite \in Seq(Seq(Nat))
           /\ buffers_ \in Seq(Seq(Nat)) /\ currentBuffer_ \in Seq(Nat)
           /\ written \in 0 .. Len(buffersToWrite)
           /\ ToWrite \in Seq(Buffer)
           /\ Parts(FileLines, ToWrite, buffers_, currentBuffer_,
                    (1 .. accepted) \ dropped)
                <=> LinesAccounted
  <1>1. /\ files \in Seq(File) /\ buffersToWrite \in Seq(Buffer)
        /\ buffers_ \in Seq(Buffer) /\ currentBuffer_ \in Buffer
        /\ written \in Nat
    BY DEF Typed, FilesTyped
  <1>2. FileLines \in Seq(Seq(Nat))
    BY <1>1, FileLinesType DEF FileLines
  <1>3. written \in 0 .. Len(buffersToWrite)
    <2>1. Len(buffersToWrite) \in Nat
      BY <1>1
    <2>2. \/ buffersToWrite = <<>> /\ written = 0
          \/ written < Len(buffersToWrite)
          \/ written = Len(buffersToWrite)
      BY Zenon DEF Placed
    <2>. QED  BY <1>1, <2>1, <2>2
  <1>4. ToWrite \in Seq(Buffer)
    BY <1>1, <1>3, SplitAt DEF ToWrite
  <1>5. /\ ToWrite \in Seq(Seq(Nat)) /\ buffers_ \in Seq(Seq(Nat))
        /\ currentBuffer_ \in Seq(Nat)
    BY <1>1, <1>4, LinesAreNumbers, Zenon
  <1>6. Parts(FileLines, ToWrite, buffers_, currentBuffer_, (1 .. accepted) \ dropped)
          <=> LinesAccounted
    BY <1>2, <1>5, PartsAccount, Zenon DEF LinesAccounted, Chunks
  <1>. QED  BY <1>2, <1>3, <1>4, <1>5, <1>6

\* The same in the next state.
LEMMA ChunkTypesNext ==
    ASSUME Typed', Placed',
           Parts(FileLines', ToWrite', buffers_', currentBuffer_',
                 (1 .. accepted') \ dropped')
    PROVE  LinesAccounted'
  <1>1. /\ files' \in Seq(File) /\ buffersToWrite' \in Seq(Buffer)
        /\ buffers_' \in Seq(Buffer) /\ currentBuffer_' \in Buffer
        /\ written' \in Nat
    BY DEF Typed, FilesTyped
  <1>2. FileLines' \in Seq(Seq(Nat))
    BY <1>1, FileLinesType DEF FileLines
  <1>3. written' \in 0 .. Len(buffersToWrite')
    <2>1. Len(buffersToWrite') \in Nat
      BY <1>1
    <2>2. \/ buffersToWrite' = <<>> /\ written' = 0
          \/ written' < Len(buffersToWrite')
          \/ written' = Len(buffersToWrite')
      BY Zenon DEF Placed
    <2>. QED  BY <1>1, <2>1, <2>2
  <1>4. ToWrite' \in Seq(Buffer)
    BY <1>1, <1>3, SplitAt DEF ToWrite
  <1>5. /\ ToWrite' \in Seq(Seq(Nat)) /\ buffers_' \in Seq(Seq(Nat))
        /\ currentBuffer_' \in Seq(Nat)
    BY <1>1, <1>4, LinesAreNumbers, Zenon
  <1>. QED  BY <1>2, <1>5, PartsAccount, Zenon DEF LinesAccounted, Chunks

\* The invariant holds at first.
LEMMA LogInvInit == Init => LogInv
  <1>. SUFFICES ASSUME Init
                PROVE  LogInv
    OBVIOUS
  <1>1. /\ now = 0 /\ files = <<>> /\ lastRoll_ = -Day /\ currentPeriod_ = -Day
        /\ running_ = FALSE /\ main = "new" /\ back = "none"
        /\ currentBuffer_ = <<>> /\ nextBuffer_ = <<>> /\ buffers_ = <<>>
        /\ newBuffer1 = NoBuffer /\ newBuffer2 = NoBuffer
        /\ buffersToWrite = <<>> /\ written = 0 /\ accepted = 0 /\ dropped = {}
    BY DEF Init, LogFileInit
  <1>2. FilesTyped
    BY <1>1 DEF FilesTyped
  <1>3. Typed
    <2>1. /\ <<>> \in Buffer /\ <<>> \in Seq(Buffer)
          /\ 0 \in Nat /\ 0 \in 0 .. MaxLines /\ {} \in SUBSET (1 .. 0)
      BY LinesAreNumbers
    <2>2. main \in Mains /\ back \in Places /\ running_ \in BOOLEAN
      BY <1>1 DEF Mains, Places
    <2>. QED  BY <1>1, <1>2, <2>1, <2>2, Zenon DEF Typed
  <1>4. Placed
    BY <1>1 DEF Placed
  <1>5. SparesBack
    BY <1>1 DEF SparesBack
  <1>6. Rolled
    BY <1>1 DEF Rolled, LogFilesRolled, FilesRolled
  <1>7. LinesAccounted
    <2>1. FileLines = <<>>
      BY <1>1 DEF FileLines
    <2>2. ToWrite = <<>>
      BY <1>1 DEF ToWrite
    <2>3. LinesOf(<<>>) = {} /\ InOrder(<<>>) /\ Range(<<>>) = {}
      <3>1. <<>> \in Seq(Nat)
        OBVIOUS
      <3>. QED  BY <3>1, LinesOfOne, RangeEmpty, Zenon
    <2>4. Ascending(<<>>)
      BY DEF Ascending
    <2>5. (1 .. accepted) \ dropped = {}
      BY <1>1
    <2>6. Parts(<<>>, <<>>, <<>>, <<>>, {})
      BY <2>3, <2>4, Zenon DEF Parts, Before
    <2>7. Parts(FileLines, ToWrite, buffers_, currentBuffer_, (1 .. accepted) \ dropped)
      BY <1>1, <2>1, <2>2, <2>5, <2>6, Zenon
    <2>. QED  BY <1>3, <1>4, <2>7, ChunkTypes
  <1>. QED  BY <1>3, <1>4, <1>5, <1>6, <1>7 DEF LogInv

\* Where the background thread goes without touching a buffer.
Moves(b, c) ==
    \/ c = b
    \/ b \in {"none", "created"} /\ c \in {"created", "opening"}
    \/ b \in {"loop", "enter"} /\ c \in {"enter", "wait", "exited"}

\* A step that moves neither lines nor buffers.
LEMMA QuietStep ==
    ASSUME LogInv, now' \in Nat, now' >= now, running_' \in BOOLEAN,
           main' \in Mains, back' \in Places, Moves(back, back'),
           main' = "new" <=> back' = "none",
           UNCHANGED <<files, lastRoll_, currentPeriod_, front, spare, accepted,
                       dropped>>
    PROVE  LogInv'
  <1>1. /\ files' = files /\ lastRoll_' = lastRoll_
        /\ currentPeriod_' = currentPeriod_ /\ currentBuffer_' = currentBuffer_
        /\ nextBuffer_' = nextBuffer_ /\ buffers_' = buffers_
        /\ newBuffer1' = newBuffer1 /\ newBuffer2' = newBuffer2
        /\ buffersToWrite' = buffersToWrite /\ written' = written
        /\ accepted' = accepted /\ dropped' = dropped
    BY DEF front, spare
  <1>2. FilesTyped /\ Typed /\ Placed /\ SparesBack /\ Rolled /\ LinesAccounted
    BY DEF LogInv, Typed
  <1>3. FilesTyped'
    BY <1>1, <1>2 DEF FilesTyped
  <1>4. Typed'
    BY <1>1, <1>2, <1>3, Zenon DEF Typed
  <1>5. /\ back' \in {"none", "created", "opening"} <=>
               back \in {"none", "created", "opening"}
        /\ back' \in {"write", "recycle"} \/ back \in {"write", "recycle"} =>
               back' = back
        /\ back' \in {"loop", "enter", "wait"} => back \in {"loop", "enter", "wait"}
    BY DEF Moves
  <1>6. Placed'
    BY <1>1, <1>2, <1>5 DEF Placed
  <1>7. SparesBack'
    BY <1>1, <1>2, <1>5 DEF SparesBack
  <1>8. Rolled'
    <2>1. LogFilesRolled'
      BY <1>1, <1>2 DEF Rolled, LogFilesRolled, FilesRolled, file_, RoundByDay
    <2>2. files # <<>> => file_.made \in Nat
      <3>1. ASSUME files # <<>>
            PROVE  file_ \in File
        BY <1>2, <3>1, EmptySeq DEF FilesTyped, file_
      <3>. QED  BY <3>1, FileParts
    <2>3. files # <<>> => file_.made <= now'
      BY <1>2, <2>2 DEF Rolled, FilesTyped
    <2>. QED  BY <1>1, <1>2, <2>1, <2>3 DEF Rolled, file_
  <1>9. LinesAccounted'
    BY <1>1, <1>2 DEF LinesAccounted, Chunks, FileLines, ToWrite
  <1>. QED  BY <1>4, <1>6, <1>7, <1>8, <1>9 DEF LogInv

\* A line is logged: it becomes the last one of the current buffer, or the
\* first one of the next, and the current one waits to be written.
LEMMA AppendStep ==
    ASSUME LogInv, Append1, main' \in Mains \ {"new"}
    PROVE  LogInv'
  <1>1. /\ now' = now /\ files' = files /\ lastRoll_' = lastRoll_
        /\ currentPeriod_' = currentPeriod_ /\ running_' = running_ /\ back' = back
        /\ newBuffer1' = newBuffer1 /\ newBuffer2' = newBuffer2
        /\ buffersToWrite' = buffersToWrite /\ written' = written
        /\ dropped' = dropped /\ accepted' = accepted + 1 /\ accepted < MaxLines
        /\ main = "open"
    BY DEF Append1, logFile, spare
  <1>2. FilesTyped /\ Typed /\ Placed /\ SparesBack /\ Rolled /\ LinesAccounted
    BY DEF LogInv, Typed
  <1>3. /\ accepted \in Nat /\ accepted' \in 1 .. MaxLines /\ accepted' \in Nat
        /\ currentBuffer_ \in Seq(Lines) /\ Len(currentBuffer_) <= BufferLines
        /\ currentBuffer_ \in Buffer /\ buffers_ \in Seq(Buffer)
        /\ dropped \in SUBSET (1 .. accepted)
    <2>1. /\ accepted \in 0 .. MaxLines /\ currentBuffer_ \in Buffer
          /\ buffers_ \in Seq(Buffer) /\ dropped \in SUBSET (1 .. accepted)
      BY <1>2 DEF Typed
    <2>2. accepted \in Nat /\ accepted' \in 1 .. MaxLines /\ accepted' \in Nat
      BY <1>1, <2>1
    <2>. QED  BY <2>1, <2>2, BufferParts
  <1>4. accepted' \in Lines
    BY <1>3 DEF Lines
  <1>5. /\ <<accepted'>> \in Buffer
        /\ \A y : y \in Range(<<accepted'>>) <=> y = accepted'
        /\ Ascending(<<accepted'>>)
    <2>1. <<accepted'>> \in Seq(Lines) /\ Len(<<accepted'>>) = 1 /\ 1 <= BufferLines
      BY <1>4
    <2>2. DOMAIN <<accepted'>> = {1} /\ <<accepted'>>[1] = accepted'
      OBVIOUS
    <2>3. \A y : y \in Range(<<accepted'>>) <=> y = accepted'
      BY <2>2, Zenon DEF Range
    <2>4. ~(1 < 1)
      OBVIOUS
    <2>5. Ascending(<<accepted'>>)
      BY <2>2, <2>4, Zenon DEF Ascending
    <2>. QED  BY <2>1, <2>3, <2>5, BufferParts
  <1>. DEFINE F == LinesOf(FileLines)
              W == LinesOf(ToWrite)
              B == LinesOf(buffers_)
              C == Range(currentBuffer_)
  <1>6. /\ FileLines \in Seq(Seq(Nat)) /\ ToWrite \in Seq(Seq(Nat))
        /\ buffers_ \in Seq(Seq(Nat)) /\ currentBuffer_ \in Seq(Nat)
        /\ Parts(FileLines, ToWrite, buffers_, currentBuffer_,
                 (1 .. accepted) \ dropped)
    BY <1>2, ChunkTypes
  <1>7. /\ InOrder(FileLines) /\ InOrder(ToWrite) /\ InOrder(buffers_)
        /\ Ascending(currentBuffer_)
        /\ Before(F, W) /\ Before(F \union W, B) /\ Before(F \union W \union B, C)
        /\ F \union W \union B \union C = (1 .. accepted) \ dropped
    BY <1>6 DEF Parts
  <1>8. FileLines' = FileLines /\ ToWrite' = ToWrite
    BY <1>1 DEF FileLines, ToWrite
  <1>. HIDE DEF F, W, B, C
  <1>9. /\ \A x \in F \union W \union B \union C : x < accepted'
        /\ (1 .. accepted') \ dropped' = ((1 .. accepted) \ dropped) \union {accepted'}
    <2>1. \A x \in 1 .. accepted : x < accepted'
      BY <1>1, <1>3
    <2>2. 1 .. accepted' = (1 .. accepted) \union {accepted'}
      BY <1>1, <1>3
    <2>3. accepted' \notin dropped
      BY <1>1, <1>3
    <2>4. \A x \in F \union W \union B \union C : x \in 1 .. accepted
      BY <1>7
    <2>. QED  BY <1>1, <2>1, <2>2, <2>3, <2>4
  <1>10. FilesTyped'
    BY <1>1, <1>2 DEF FilesTyped
  <1>11. dropped' \in SUBSET (1 .. accepted') /\ accepted' \in 0 .. MaxLines
    BY <1>1, <1>3
  <1>12. Placed'
    BY <1>1, <1>2 DEF Placed
  <1>13. Rolled'
    BY <1>1, <1>2 DEF Rolled, LogFilesRolled, FilesRolled, file_, RoundByDay
  <1>14. CASE /\ Len(currentBuffer_) < BufferLines
              /\ currentBuffer_' = Append(currentBuffer_, accepted')
              /\ UNCHANGED <<nextBuffer_, buffers_>>
    <2>1. currentBuffer_' \in Buffer
      <3>1. currentBuffer_' \in Seq(Lines) /\ Len(currentBuffer_') <= BufferLines
        BY <1>3, <1>4, <1>14
      <3>. QED  BY <3>1, BufferParts
    <2>2. Typed'
      BY <1>1, <1>2, <1>10, <1>11, <1>14, <2>1 DEF Typed
    <2>3. SparesBack'
      BY <1>1, <1>2, <1>14 DEF SparesBack
    <2>4. Range(currentBuffer_') = C \union {accepted'}
      BY <1>3, <1>4, <1>14, RangeAppend DEF C
    <2>5. Ascending(currentBuffer_')
      <3>1. currentBuffer_' = currentBuffer_ \o <<accepted'>>
        BY <1>3, <1>4, <1>14
      <3>2. Before(Range(currentBuffer_), Range(<<accepted'>>))
        BY <1>5, <1>9 DEF Before, C
      <3>3. <<accepted'>> \in Seq(Nat) /\ Ascending(<<accepted'>>)
        BY <1>3, <1>5
      <3>. QED  BY <1>6, <1>7, <3>1, <3>2, <3>3, AscendingConcat
    <2>6. Before(F \union W \union B, C \union {accepted'})
      BY <1>7, <1>9, Zenon DEF Before
    <2>7. F \union W \union B \union (C \union {accepted'}) = (1 .. accepted') \ dropped'
      BY <1>7, <1>9
    <2>8. Parts(FileLines', ToWrite', buffers_', currentBuffer_',
                (1 .. accepted') \ dropped')
      BY <1>7, <1>8, <1>14, <2>4, <2>5, <2>6, <2>7 DEF Parts, F, W, B
    <2>9. LinesAccounted'
      BY <1>12, <2>2, <2>8, ChunkTypesNext
    <2>. QED  BY <1>12, <1>13, <2>2, <2>3, <2>9 DEF LogInv
  <1>15. CASE /\ buffers_' = Append(buffers_, currentBuffer_)
              /\ currentBuffer_' = <<accepted'>>
              /\ nextBuffer_' = NoBuffer
    <2>1. buffers_' \in Seq(Buffer) /\ buffers_' # <<>>
      BY <1>3, <1>15
    <2>2. Typed'
      BY <1>1, <1>2, <1>5, <1>10, <1>11, <1>15, <2>1 DEF Typed
    <2>3. SparesBack'
      BY <1>1, <1>2, <1>15, <2>1 DEF SparesBack
    <2>4. /\ LinesOf(buffers_') = B \union C
          /\ InOrder(buffers_')
      <3>1. buffers_' = buffers_ \o <<currentBuffer_>>
        BY <1>3, <1>15
      <3>2. <<currentBuffer_>> \in Seq(Seq(Nat))
        BY <1>6
      <3>3. LinesOf(<<currentBuffer_>>) = C /\ InOrder(<<currentBuffer_>>)
        BY <1>6, <1>7, LinesOfOne DEF C
      <3>4. Before(B, C)
        BY <1>7, Zenon DEF Before
      <3>5. LinesOf(buffers_ \o <<currentBuffer_>>) =
                LinesOf(buffers_) \union LinesOf(<<currentBuffer_>>)
        BY <1>6, <3>2, LinesOfConcat
      <3>6. InOrder(buffers_ \o <<currentBuffer_>>)
        BY <1>6, <1>7, <3>2, <3>3, <3>4, InOrderConcat DEF B
      <3>. QED  BY <3>1, <3>3, <3>5, <3>6 DEF B
    <2>5. /\ Before(F \union W, B \union C)
          /\ \A x \in F \union W \union (B \union C) : x < accepted'
      BY <1>7, <1>9, Zenon DEF Before
    <2>6. Before(F \union W \union (B \union C), Range(currentBuffer_'))
      BY <1>5, <1>15, <2>5 DEF Before
    <2>7. F \union W \union (B \union C) \union Range(currentBuffer_')
              = (1 .. accepted') \ dropped'
      BY <1>5, <1>7, <1>9, <1>15
    <2>8. Parts(FileLines', ToWrite', buffers_', currentBuffer_',
                (1 .. accepted') \ dropped')
      BY <1>5, <1>7, <1>8, <1>15, <2>4, <2>5, <2>6, <2>7 DEF Parts, F, W
    <2>9. LinesAccounted'
      BY <1>12, <2>2, <2>8, ChunkTypesNext
    <2>. QED  BY <1>12, <1>13, <2>2, <2>3, <2>9 DEF LogInv
  <1>. QED  BY <1>14, <1>15, Zenon DEF Append1, TakeNextBuffer

\* A new file is a file.
LEMMA NewFileParts ==
    ASSUME now \in Nat, NEW lines \in Seq(Nat)
    PROVE  /\ NewFile(lines) \in File
           /\ NewFile(lines).made = now /\ NewFile(lines).lines = lines
  BY DEF NewFile, File

\* The background thread makes its file and its spare buffers.
LEMMA OpenFileStep ==
    ASSUME LogInv, OpenFile
    PROVE  LogInv'
  <1>1. /\ back = "opening" /\ back' = "loop" /\ now' = now
        /\ files' = <<NewFile(<<>>)>> /\ lastRoll_' = now
        /\ currentPeriod_' = RoundByDay(now)
        /\ newBuffer1' = <<>> /\ newBuffer2' = <<>>
        /\ running_' = running_ /\ main' = main
        /\ currentBuffer_' = currentBuffer_ /\ nextBuffer_' = nextBuffer_
        /\ buffers_' = buffers_ /\ buffersToWrite' = buffersToWrite
        /\ written' = written /\ accepted' = accepted /\ dropped' = dropped
    BY DEF OpenFile, OpenLogFile, Goto, front
  <1>2. FilesTyped /\ Typed /\ Placed /\ SparesBack /\ Rolled /\ LinesAccounted
    BY DEF LogInv, Typed
  <1>3. now \in Nat /\ RoundByDay(now) \in Nat /\ files = <<>>
    BY <1>1, <1>2, RoundByDayType DEF FilesTyped, Placed
  <1>4. <<>> \in Seq(Nat)
    OBVIOUS
  <1>5. /\ NewFile(<<>>) \in File
        /\ NewFile(<<>>).made = now /\ NewFile(<<>>).lines = <<>>
    BY <1>3, <1>4, NewFileParts, Zenon
  <1>6. /\ files' \in Seq(File) /\ Len(files') = 1 /\ DOMAIN files' = {1}
        /\ files'[1].made = now /\ files'[1].lines = <<>>
    BY <1>1, <1>5
  <1>7. FilesTyped'
    BY <1>1, <1>3, <1>6 DEF FilesTyped
  <1>8. Typed'
    <2>1. back' \in Places
      BY <1>1 DEF Places
    <2>. QED  BY <1>1, <1>2, <1>7, <2>1, Zenon DEF Typed
  <1>9. files' # <<>>
    BY <1>6
  <1>10. Placed'
    BY <1>1, <1>2, <1>9 DEF Placed
  <1>11. SparesBack'
    BY <1>1, <1>2 DEF SparesBack
  <1>12. Rolled'
    <2>1. /\ \A i \in 1 .. Len(files') - 1 :
                files'[i + 1].made - files'[i].made >= Second
          /\ \A i \in DOMAIN files' : ~(Len(files'[i].lines) > RollSize)
      <3>1. 1 .. Len(files') - 1 = {} /\ Len(<<>>) = 0 /\ ~(0 > RollSize)
        BY <1>6
      <3>. QED  BY <1>6, <3>1, Zenon
    <2>2. /\ currentPeriod_' = RoundByDay(files'[1].made)
          /\ lastRoll_' = files'[1].made /\ files'[1].made <= now'
      BY <1>1, <1>3, <1>6
    <2>. QED
      BY <1>6, <2>1, <2>2 DEF Rolled, LogFilesRolled, FilesRolled, file_, RoundByDay
  <1>13. /\ FileLines = <<>> /\ FileLines' = <<<<>>>> /\ ToWrite' = ToWrite
    <2>1. FileLines' = [i \in {1} |-> <<>>]
      BY <1>6 DEF FileLines
    <2>. QED  BY <1>1, <1>3, <2>1 DEF FileLines, ToWrite
  <1>14. /\ LinesOf(<<<<>>>>) = LinesOf(<<>>) /\ InOrder(<<<<>>>>)
    <2>1. Ascending(<<>>)
      BY DEF Ascending
    <2>. QED  BY <1>4, <2>1, LinesOfOne, RangeEmpty, Zenon
  <1>15. Parts(FileLines, ToWrite, buffers_, currentBuffer_,
               (1 .. accepted) \ dropped)
    BY <1>2, ChunkTypes
  <1>16. Parts(FileLines', ToWrite', buffers_', currentBuffer_',
               (1 .. accepted') \ dropped')
    BY <1>1, <1>13, <1>14, <1>15, Zenon DEF Parts
  <1>17. LinesAccounted'
    BY <1>8, <1>10, <1>16, ChunkTypesNext
  <1>. QED  BY <1>8, <1>10, <1>11, <1>12, <1>17 DEF LogInv

\* The background thread takes the buffers of the front for its spare ones,
\* and drops what is too much.
LEMMA SwapStep ==
    ASSUME LogInv, Swap
    PROVE  LogInv'
  <1>. DEFINE taken == Append(buffers_, currentBuffer_)
              kept == IF Len(taken) > MaxBuffers THEN KeepTwo(taken) ELSE taken
  <1>1. /\ (back = "enter" /\ buffers_ # <<>>) \/ back = "wait"
        /\ buffersToWrite' = kept
        /\ dropped' = dropped \union (LinesOf(taken) \ LinesOf(kept))
        /\ buffers_' = <<>> /\ currentBuffer_' = newBuffer1
        /\ newBuffer1' = NoBuffer
        /\ \/ nextBuffer_ = NoBuffer /\ nextBuffer_' = newBuffer2
              /\ newBuffer2' = NoBuffer
           \/ nextBuffer_ # NoBuffer /\ nextBuffer_' = nextBuffer_
              /\ newBuffer2' = newBuffer2
        /\ written' = 0 /\ back' = "write"
        /\ now' = now /\ files' = files /\ lastRoll_' = lastRoll_
        /\ currentPeriod_' = currentPeriod_ /\ running_' = running_
        /\ main' = main /\ accepted' = accepted
    BY DEF Swap, Goto, logFile
  <1>2. FilesTyped /\ Typed /\ Placed /\ SparesBack /\ Rolled /\ LinesAccounted
    BY DEF LogInv, Typed
  <1>3. /\ currentBuffer_ \in Buffer /\ buffers_ \in Seq(Buffer)
        /\ dropped \in SUBSET (1 .. accepted)
        /\ newBuffer1 = <<>> /\ newBuffer2 = <<>>
        /\ buffersToWrite = <<>> /\ written = 0
        /\ nextBuffer_ \in {<<>>, NoBuffer}
        /\ nextBuffer_ = NoBuffer => buffers_ # <<>>
    BY <1>1, <1>2 DEF Typed, SparesBack, Placed
  <1>4. /\ taken \in Seq(Buffer) /\ Len(taken) = Len(buffers_) + 1
        /\ Len(buffers_) \in Nat
        /\ buffers_ # <<>> => Len(buffers_) >= 1
    BY <1>3
  <1>5. \E rest \in Seq(Buffer) :
            /\ taken = kept \o rest /\ kept \in Seq(Buffer)
            /\ Len(kept) >= 1 /\ (buffers_ # <<>> => Len(kept) >= 2)
    <2>1. CASE Len(taken) > MaxBuffers
      <3>1. 2 \in 0 .. Len(taken)
        BY <1>4, <2>1
      <3>. DEFINE rest == SubSeq(taken, 2 + 1, Len(taken))
      <3>. HIDE DEF taken
      <3>2. /\ SubSeq(taken, 1, 2) \in Seq(Buffer) /\ Len(SubSeq(taken, 1, 2)) = 2
            /\ rest \in Seq(Buffer) /\ SubSeq(taken, 1, 2) \o rest = taken
        BY <1>4, <3>1, SplitAt
      <3>3. kept = SubSeq(taken, 1, 2)
        BY <2>1 DEF KeepTwo
      <3>. HIDE DEF rest, kept
      <3>4. Len(kept) >= 1 /\ Len(kept) >= 2
        BY <3>2, <3>3
      <3>. QED  BY <3>2, <3>3, <3>4
    <2>2. CASE ~(Len(taken) > MaxBuffers)
      <3>1. kept = taken
        BY <2>2
      <3>. HIDE DEF kept, taken
      <3>2. taken = taken \o <<>> /\ <<>> \in Seq(Buffer)
        BY <1>4, EmptyConcat
      <3>3. Len(kept) >= 1 /\ (buffers_ # <<>> => Len(kept) >= 2)
        BY <1>4, <3>1
      <3>. QED  BY <1>4, <3>1, <3>2, <3>3
    <2>. QED  BY <2>1, <2>2
  <1>6. PICK rest \in Seq(Buffer) :
            /\ taken = kept \o rest /\ kept \in Seq(Buffer)
            /\ Len(kept) >= 1 /\ (buffers_ # <<>> => Len(kept) >= 2)
    BY <1>5
  <1>. DEFINE F == LinesOf(FileLines)
              B == LinesOf(buffers_)
              C == Range(currentBuffer_)
              K == LinesOf(kept)
              R == LinesOf(rest)
  <1>7. /\ FileLines \in Seq(Seq(Nat)) /\ buffers_ \in Seq(Seq(Nat))
        /\ currentBuffer_ \in Seq(Nat)
        /\ Parts(FileLines, ToWrite, buffers_, currentBuffer_,
                 (1 .. accepted) \ dropped)
    BY <1>2, ChunkTypes
  <1>8. ToWrite = <<>> /\ LinesOf(<<>>) = {} /\ <<>> \in Seq(Nat)
    <2>1. ToWrite = <<>>
      BY <1>3 DEF ToWrite
    <2>2. <<>> \in Seq(Nat)
      OBVIOUS
    <2>. QED  BY <2>1, <2>2, LinesOfOne, Zenon
  <1>9. /\ InOrder(FileLines) /\ InOrder(buffers_) /\ Ascending(currentBuffer_)
        /\ Before(F, B) /\ Before(F, C) /\ Before(B, C)
        /\ F \union B \union C = (1 .. accepted) \ dropped
    BY <1>7, <1>8 DEF Parts, Before
  <1>10. /\ kept \in Seq(Seq(Nat)) /\ rest \in Seq(Seq(Nat))
         /\ <<currentBuffer_>> \in Seq(Seq(Nat))
         /\ taken = buffers_ \o <<currentBuffer_>>
    <2>1. kept \in Seq(Seq(Nat)) /\ rest \in Seq(Seq(Nat))
      BY <1>6, LinesAreNumbers, Zenon
    <2>2. /\ <<currentBuffer_>> \in Seq(Seq(Nat))
          /\ taken = buffers_ \o <<currentBuffer_>>
      BY <1>7
    <2>. QED  BY <2>1, <2>2
  <1>. HIDE DEF kept, taken
  <1>11. /\ LinesOf(<<currentBuffer_>>) = C /\ InOrder(<<currentBuffer_>>)
    BY <1>7, <1>9, LinesOfOne
  <1>12. LinesOf(taken) = B \union C /\ InOrder(taken)
    <2>1. LinesOf(buffers_ \o <<currentBuffer_>>) =
              LinesOf(buffers_) \union LinesOf(<<currentBuffer_>>)
      BY <1>7, <1>10, LinesOfConcat
    <2>2. InOrder(buffers_ \o <<currentBuffer_>>)
              <=> /\ InOrder(buffers_) /\ InOrder(<<currentBuffer_>>)
                  /\ Before(LinesOf(buffers_), LinesOf(<<currentBuffer_>>))
      BY <1>7, <1>10, InOrderConcat, Zenon
    <2>3. InOrder(buffers_ \o <<currentBuffer_>>)
      BY <1>9, <1>11, <2>2, Zenon
    <2>. QED  BY <1>10, <1>11, <2>1, <2>3, Zenon
  <1>13. LinesOf(taken) = K \union R /\ InOrder(kept) /\ Before(K, R)
    BY <1>6, <1>10, <1>12, LinesOfConcat, InOrderConcat, Zenon
  <1>. HIDE DEF F, B, C, K, R
  <1>14. /\ Before(F, K)
         /\ F \union K = (1 .. accepted') \ dropped'
    <2>1. Before(F, K)
      BY <1>9, <1>12, <1>13, Zenon DEF Before
    <2>2. dropped' = dropped \union (LinesOf(taken) \ K)
      BY <1>1 DEF K
    <2>3. ASSUME NEW x \in F
          PROVE  x \notin LinesOf(taken)
      <3>1. x \in Nat
        BY <1>3, <1>9
      <3>2. x \in B \union C => x < x
        BY <1>9, Zenon DEF Before
      <3>3. ~(x < x)
        BY <3>1
      <3>. QED  BY <1>12, <3>2, <3>3, Zenon
    <2>4. F \union LinesOf(taken) = (1 .. accepted) \ dropped
      BY <1>9, <1>12, Zenon
    <2>. QED  BY <1>1, <1>13, <2>1, <2>2, <2>3, <2>4, Zenon
  <1>15. FilesTyped'
    BY <1>1, <1>2 DEF FilesTyped
  <1>16. dropped' \in SUBSET (1 .. accepted')
    <2>1. LinesOf(taken) \subseteq 1 .. accepted
      BY <1>9, <1>12, Zenon
    <2>. QED  BY <1>1, <1>3, <2>1, Zenon
  <1>17. Typed'
    <2>1. /\ back' \in Places /\ written' \in Nat /\ buffersToWrite' \in Seq(Buffer)
          /\ buffers_' \in Seq(Buffer) /\ currentBuffer_' \in Buffer
      BY <1>1, <1>3, <1>6, LinesAreNumbers DEF Places
    <2>2. /\ newBuffer1' \in {<<>>, NoBuffer} /\ newBuffer2' \in {<<>>, NoBuffer}
          /\ nextBuffer_' \in {<<>>, NoBuffer}
      BY <1>1, <1>3
    <2>. QED  BY <1>1, <1>2, <1>15, <1>16, <2>1, <2>2, Zenon DEF Typed
  <1>18. Len(buffersToWrite') >= 1 /\ (nextBuffer_ = NoBuffer => Len(buffersToWrite') >= 2)
    BY <1>1, <1>3, <1>6
  <1>19. Placed'
    <2>1. written' < Len(buffersToWrite')
      BY <1>1, <1>6
    <2>. QED  BY <1>1, <1>2, <2>1 DEF Placed
  <1>20. SparesBack'
    BY <1>1, <1>3, <1>18 DEF SparesBack
  <1>21. Rolled'
    BY <1>1, <1>2 DEF Rolled, LogFilesRolled, FilesRolled, file_, RoundByDay
  <1>22. FileLines' = FileLines /\ ToWrite' = kept
    <2>1. SubSeq(kept, 0 + 1, Len(kept)) = kept
      BY <1>6, SubSeqFull
    <2>. QED  BY <1>1, <2>1 DEF FileLines, ToWrite
  <1>23. Parts(FileLines', ToWrite', buffers_', currentBuffer_',
               (1 .. accepted') \ dropped')
    <2>1. buffers_' = <<>> /\ currentBuffer_' = <<>>
      BY <1>1, <1>3
    <2>2. /\ Range(<<>>) = {} /\ Ascending(<<>>) /\ InOrder(<<>>)
      <3>1. Ascending(<<>>)
        BY DEF Ascending
      <3>. QED  BY <1>8, <3>1, RangeEmpty, LinesOfOne, Zenon
    <2>3. Parts(FileLines, kept, <<>>, <<>>, (1 .. accepted') \ dropped')
      BY <1>8, <1>9, <1>13, <1>14, <2>2 DEF Parts, Before, F, K
    <2>. QED  BY <1>22, <2>1, <2>3
  <1>24. LinesAccounted'
    BY <1>17, <1>19, <1>23, ChunkTypesNext
  <1>. QED  BY <1>17, <1>19, <1>20, <1>21, <1>24 DEF LogInv

\* What is left to be written begins with the next buffer.
LEMMA NextToWrite ==
    ASSUME NEW S, NEW s \in Seq(S), NEW n \in Nat, n < Len(s)
    PROVE  /\ s[n + 1] \in S
           /\ SubSeq(s, n + 1, Len(s)) =
                  <<s[n + 1]>> \o SubSeq(s, n + 1 + 1, Len(s))
  <1>. DEFINE m == n + 1
  <1>1. /\ m \in 1 .. Len(s) /\ n \in 0 .. Len(s) /\ m \in 0 .. Len(s)
        /\ s[m] \in S
    OBVIOUS
  <1>. DEFINE f == SubSeq(s, n + 1, Len(s))
              g == SubSeq(s, m + 1, Len(s))
  <1>2. f \in Seq(S) /\ Len(f) = Len(s) - n
    BY <1>1, SplitAt
  <1>3. g \in Seq(S) /\ Len(g) = Len(s) - m
    BY <1>1, SplitAt
  <1>4. /\ \A i \in 1 .. Len(s) - n : f[i] = s[n + i]
        /\ \A i \in 1 .. Len(s) - m : g[i] = s[m + i]
    OBVIOUS
  <1>. HIDE DEF f, g
  <1>5. /\ <<s[m]>> \o g \in Seq(S) /\ Len(<<s[m]>> \o g) = Len(s) - n
        /\ (<<s[m]>> \o g)[1] = s[m]
        /\ \A i \in 1 .. Len(s) - m : (<<s[m]>> \o g)[i + 1] = g[i]
    BY <1>1, <1>3
  <1>6. \A i \in 1 .. Len(s) - n : i = 1 \/ i - 1 \in 1 .. Len(s) - m
    BY <1>1
  <1>7. ASSUME NEW i \in 1 .. Len(s) - n
        PROVE  f[i] = (<<s[m]>> \o g)[i]
    <2>1. CASE i = 1
      BY <1>4, <1>5, <2>1
    <2>2. CASE i - 1 \in 1 .. Len(s) - m
      <3>1. (<<s[m]>> \o g)[i - 1 + 1] = s[m + (i - 1)]
        BY <1>4, <1>5, <2>2
      <3>2. i - 1 + 1 = i /\ m + (i - 1) = n + i
        BY <1>1
      <3>. QED  BY <1>4, <3>1, <3>2
    <2>. QED  BY <1>6, <2>1, <2>2
  <1>8. f = <<s[m]>> \o g
    BY <1>2, <1>5, <1>7, SeqEqual
  <1>. QED  BY <1>1, <1>8 DEF f, g

\* A buffer is written to the file in use, or to a new one.
LEMMA WriteBufferStep ==
    ASSUME LogInv, WriteBuffer
    PROVE  LogInv'
  <1>. DEFINE lines == buffersToWrite[written + 1]
  <1>1. /\ back = "write" /\ AppendLines(lines) /\ written' = written + 1
        /\ back' = IF written' = Len(buffersToWrite) THEN "recycle" ELSE "write"
        /\ now' = now /\ running_' = running_ /\ main' = main
        /\ currentBuffer_' = currentBuffer_ /\ nextBuffer_' = nextBuffer_
        /\ buffers_' = buffers_ /\ newBuffer1' = newBuffer1
        /\ newBuffer2' = newBuffer2 /\ buffersToWrite' = buffersToWrite
        /\ accepted' = accepted /\ dropped' = dropped
    BY DEF WriteBuffer, Goto, front
  <1>2. FilesTyped /\ Typed /\ Placed /\ SparesBack /\ Rolled /\ LinesAccounted
    BY DEF LogInv, Typed
  <1>3. /\ buffersToWrite \in Seq(Buffer) /\ written \in Nat
        /\ written < Len(buffersToWrite) /\ Len(buffersToWrite) \in Nat
        /\ files # <<>>
    <2>1. /\ buffersToWrite \in Seq(Buffer) /\ written \in Nat
          /\ written < Len(buffersToWrite) /\ files # <<>>
      BY <1>1, <1>2 DEF Typed, Placed
    <2>. QED  BY <2>1
  <1>4. /\ lines \in Buffer /\ lines \in Seq(Nat)
        /\ ToWrite = <<lines>> \o ToWrite'
    <2>1. /\ lines \in Buffer
          /\ SubSeq(buffersToWrite, written + 1, Len(buffersToWrite)) =
                 <<lines>> \o SubSeq(buffersToWrite, written + 1 + 1, Len(buffersToWrite))
      BY <1>3, NextToWrite
    <2>2. lines \in Seq(Nat)
      BY <2>1, LinesAreNumbers
    <2>. QED  BY <1>1, <2>1, <2>2 DEF ToWrite
  <1>. HIDE DEF lines
  <1>5. /\ FilesTyped' /\ files' # <<>>
        /\ \/ lines = <<>> /\ FileLines' = FileLines
           \/ FileLines' = FileLines \o <<lines>>
           \/ FileLines' = [FileLines EXCEPT ![Len(FileLines)] = @ \o lines]
    BY <1>1, <1>2, <1>3, <1>4, AppendLinesWrites
  <1>6. Rolled'
    BY <1>1, <1>2, <1>3, <1>4, AppendLinesRolls
  <1>7. Typed'
    <2>1. back' \in Places /\ written' \in Nat
      BY <1>1, <1>3 DEF Places
    <2>. QED  BY <1>1, <1>2, <1>5, <2>1, Zenon DEF Typed
  <1>8. Placed'
    <2>1. written' \in Nat /\ written' <= Len(buffersToWrite')
      BY <1>1, <1>3
    <2>2. /\ back' = "recycle" => written' = Len(buffersToWrite')
          /\ back' = "write" => written' < Len(buffersToWrite')
          /\ back' \in {"write", "recycle"}
      BY <1>1, <1>3, <2>1
    <2>3. main' # "new"
      BY <1>1, <1>2 DEF Placed
    <2>. QED  BY <1>5, <2>2, <2>3 DEF Placed
  <1>9. SparesBack'
    BY <1>1, <1>2 DEF SparesBack
  <1>. DEFINE F == LinesOf(FileLines)
              W == LinesOf(ToWrite)
              V == LinesOf(ToWrite')
              B == LinesOf(buffers_)
              C == Range(currentBuffer_)
              L == Range(lines)
  <1>10. /\ FileLines \in Seq(Seq(Nat)) /\ ToWrite \in Seq(Seq(Nat))
         /\ Parts(FileLines, ToWrite, buffers_, currentBuffer_,
                  (1 .. accepted) \ dropped)
    BY <1>2, ChunkTypes
  <1>11. ToWrite' \in Seq(Seq(Nat)) /\ <<lines>> \in Seq(Seq(Nat))
    <2>1. written' \in 0 .. Len(buffersToWrite')
      BY <1>1, <1>3
    <2>2. ToWrite' \in Seq(Buffer)
      BY <1>1, <1>3, <2>1, SplitAt DEF ToWrite
    <2>3. <<lines>> \in Seq(Seq(Nat))
      BY <1>4
    <2>. QED  BY <2>2, <2>3, LinesAreNumbers, Zenon
  <1>12. /\ LinesOf(<<lines>>) = L /\ (InOrder(<<lines>>) <=> Ascending(lines))
    BY <1>4, LinesOfOne
  <1>13. /\ W = L \union V /\ Before(L, V) /\ Ascending(lines) /\ InOrder(ToWrite')
    <2>1. InOrder(<<lines>> \o ToWrite')
      BY <1>4, <1>10, Zenon DEF Parts
    <2>2. InOrder(<<lines>>) /\ InOrder(ToWrite') /\ Before(LinesOf(<<lines>>), V)
      BY <1>11, <2>1, InOrderConcat
    <2>3. LinesOf(<<lines>> \o ToWrite') = LinesOf(<<lines>>) \union V
      BY <1>11, LinesOfConcat
    <2>. QED  BY <1>4, <1>12, <2>2, <2>3, Zenon
  <1>14. /\ InOrder(FileLines) /\ InOrder(buffers_) /\ Ascending(currentBuffer_)
         /\ Before(F, W) /\ Before(F \union W, B) /\ Before(F \union W \union B, C)
         /\ F \union W \union B \union C = (1 .. accepted) \ dropped
    BY <1>10 DEF Parts
  <1>15. Before(F, L)
    BY <1>13, <1>14, Zenon DEF Before
  <1>16. LinesOf(FileLines') = F \union L /\ InOrder(FileLines')
    <2>1. CASE lines = <<>> /\ FileLines' = FileLines
      BY <1>14, <2>1, RangeEmpty
    <2>2. CASE FileLines' = FileLines \o <<lines>>
      <3>1. LinesOf(FileLines \o <<lines>>) = F \union LinesOf(<<lines>>)
        BY <1>10, <1>11, LinesOfConcat
      <3>2. InOrder(FileLines \o <<lines>>)
                <=> /\ InOrder(FileLines) /\ InOrder(<<lines>>)
                    /\ Before(LinesOf(FileLines), LinesOf(<<lines>>))
        BY <1>10, <1>11, InOrderConcat, Zenon
      <3>3. InOrder(FileLines \o <<lines>>)
        BY <1>12, <1>13, <1>14, <1>15, <3>2, Zenon
      <3>. QED  BY <1>12, <2>2, <3>1, <3>3, Zenon
    <2>3. CASE FileLines' = [FileLines EXCEPT ![Len(FileLines)] = @ \o lines]
      <3>1. FileLines # <<>>
        BY <1>2, <1>3 DEF FileLines, FilesTyped
      <3>. QED  BY <1>4, <1>10, <1>13, <1>14, <1>15, <2>3, <3>1, ContinueLast
    <2>. QED  BY <1>5, <2>1, <2>2, <2>3
  <1>. HIDE DEF F, W, V, B, C, L
  <1>17. /\ Before(F \union L, V) /\ Before(F \union L \union V, B)
         /\ Before(F \union L \union V \union B, C)
         /\ F \union L \union V \union B \union C = (1 .. accepted) \ dropped
    <2>1. Before(F \union L, V)
      BY <1>13, <1>14, Zenon DEF Before
    <2>2. F \union L \union V = F \union W
      BY <1>13
    <2>. QED  BY <1>14, <2>1, <2>2, Zenon
  <1>18. Parts(FileLines', ToWrite', buffers_', currentBuffer_',
               (1 .. accepted') \ dropped')
    BY <1>1, <1>13, <1>14, <1>16, <1>17 DEF Parts, V, B, C
  <1>19. LinesAccounted'
    BY <1>7, <1>8, <1>18, ChunkTypesNext
  <1>. QED  BY <1>6, <1>7, <1>8, <1>9, <1>19 DEF LogInv

\* Spare buffers are taken from those written.
LEMMA RecycleStep ==
    ASSUME LogInv, Recycle
    PROVE  LogInv'
  <1>1. /\ back = "recycle" /\ back' = "loop" /\ newBuffer1' = <<>>
        /\ IF newBuffer2 = NoBuffer /\ Len(buffersToWrite) >= 2
           THEN newBuffer2' = <<>> ELSE newBuffer2' = newBuffer2
        /\ buffersToWrite' = <<>> /\ written' = 0
        /\ files' = files /\ lastRoll_' = lastRoll_
        /\ currentPeriod_' = currentPeriod_
        /\ now' = now /\ running_' = running_ /\ main' = main
        /\ currentBuffer_' = currentBuffer_ /\ nextBuffer_' = nextBuffer_
        /\ buffers_' = buffers_ /\ accepted' = accepted /\ dropped' = dropped
    BY DEF Recycle, TakeBack, FlushLogFile, Goto, front
  <1>2. FilesTyped /\ Typed /\ Placed /\ SparesBack /\ Rolled /\ LinesAccounted
    BY DEF LogInv, Typed
  <1>3. /\ newBuffer2 \in {<<>>, NoBuffer} /\ written = Len(buffersToWrite)
        /\ newBuffer2 = NoBuffer => Len(buffersToWrite) >= 2
        /\ buffersToWrite \in Seq(Buffer)
    BY <1>1, <1>2 DEF Typed, SparesBack, Placed
  <1>4. newBuffer2' = <<>>
    BY <1>1, <1>3
  <1>5. FilesTyped'
    BY <1>1, <1>2 DEF FilesTyped
  <1>6. Typed'
    <2>1. /\ back' \in Places /\ written' \in Nat /\ buffersToWrite' \in Seq(Buffer)
          /\ newBuffer1' \in {<<>>, NoBuffer} /\ newBuffer2' \in {<<>>, NoBuffer}
      BY <1>1, <1>4 DEF Places
    <2>. QED  BY <1>1, <1>2, <1>5, <2>1, Zenon DEF Typed
  <1>7. Placed'
    BY <1>1, <1>2 DEF Placed
  <1>8. SparesBack'
    BY <1>1, <1>2, <1>4 DEF SparesBack
  <1>9. Rolled'
    BY <1>1, <1>2 DEF Rolled, LogFilesRolled, FilesRolled, file_, RoundByDay
  <1>10. ToWrite = <<>> /\ ToWrite' = <<>> /\ FileLines' = FileLines
    <2>1. Len(buffersToWrite) \in 0 .. Len(buffersToWrite)
      BY <1>3
    <2>2. /\ SubSeq(buffersToWrite, Len(buffersToWrite) + 1, Len(buffersToWrite)) \in Seq(Buffer)
          /\ Len(SubSeq(buffersToWrite, Len(buffersToWrite) + 1, Len(buffersToWrite)))
               = Len(buffersToWrite) - Len(buffersToWrite)
      BY <1>3, <2>1, SplitAt
    <2>3. ToWrite \in Seq(Buffer) /\ Len(ToWrite) = 0
      BY <1>3, <2>1, <2>2 DEF ToWrite
    <2>4. ToWrite = <<>>
      BY <2>3, EmptySeq
    <2>5. ToWrite' = <<>>
      BY <1>1 DEF ToWrite
    <2>. QED  BY <1>1, <2>4, <2>5 DEF FileLines
  <1>11. LinesAccounted'
    BY <1>1, <1>2, <1>10 DEF LinesAccounted, Chunks
  <1>. QED  BY <1>6, <1>7, <1>8, <1>9, <1>11 DEF LogInv

-----------------------------------------------------------------------------
(* The specification *)

\* One step per action.
LEMMA LogInvStep == LogInv /\ [Next]_vars => LogInv'
  <1>. SUFFICES ASSUME LogInv, [Next]_vars
                PROVE  LogInv'
    OBVIOUS
  <1>1. /\ now \in Nat /\ running_ \in BOOLEAN /\ main \in Mains /\ back \in Places
    BY DEF LogInv, Typed, FilesTyped
  <1>2. main = "new" <=> back = "none"
    BY DEF LogInv, Placed
  <1>3. CASE Start
    <2>1. /\ now' = now /\ running_' = TRUE /\ main' = "starting"
          /\ back' = "created" /\ main = "new"
          /\ UNCHANGED <<files, lastRoll_, currentPeriod_, front, spare,
                         accepted, dropped>>
      BY <1>3 DEF Start, logFile
    <2>. QED  BY <1>1, <1>2, <2>1, QuietStep DEF Mains, Places, Moves
  <1>4. CASE StartReturns \/ Stop \/ Join
    <2>1. /\ now' = now /\ running_' \in BOOLEAN
          /\ main # "new" /\ main' \in {"open", "joining", "stopped"}
          /\ back' = back
          /\ UNCHANGED <<files, lastRoll_, currentPeriod_, front, spare,
                         accepted, dropped>>
      BY <1>1, <1>4 DEF StartReturns, Stop, Join, logFile
    <2>. QED  BY <1>1, <1>2, <2>1, QuietStep DEF Mains, Moves
  <1>5. CASE CountDown \/ LoopCondition \/ WaitForSeconds
    <2>1. /\ now' = now /\ running_' = running_ /\ main' = main
          /\ back' \in Places \ {"none"} /\ back # "none" /\ Moves(back, back')
          /\ UNCHANGED <<files, lastRoll_, currentPeriod_, front, spare,
                         accepted, dropped>>
      BY <1>5 DEF CountDown, LoopCondition, WaitForSeconds, FlushLogFile, Goto,
                  logFile, Moves, Places
    <2>. QED  BY <1>1, <1>2, <2>1, QuietStep
  <1>6. CASE Tick
    <2>1. /\ now' = now + 1 /\ running_' = running_ /\ main' = main /\ back' = back
          /\ UNCHANGED <<files, lastRoll_, currentPeriod_, front, spare,
                         accepted, dropped>>
      BY <1>6 DEF Tick, logFile
    <2>2. now' \in Nat /\ now' >= now
      BY <1>1, <2>1
    <2>. QED  BY <1>1, <1>2, <2>1, <2>2, QuietStep DEF Moves
  <1>7. CASE LogLine \/ LogFatal
    <2>1. Append1 /\ main' \in Mains \ {"new"}
      BY <1>1, <1>7 DEF LogLine, LogFatal, Append1, Mains
    <2>. QED  BY <2>1, AppendStep
  <1>8. CASE OpenFile \/ Swap \/ WriteBuffer \/ Recycle
    BY <1>8, OpenFileStep, SwapStep, WriteBufferStep, RecycleStep
  <1>9. CASE UNCHANGED vars
    <2>1. /\ now' = now /\ running_' = running_ /\ main' = main /\ back' = back
          /\ UNCHANGED <<files, lastRoll_, currentPeriod_, front, spare,
                         accepted, dropped>>
      BY <1>9 DEF vars, logFile
    <2>2. now' >= now
      BY <1>1, <2>1
    <2>. QED  BY <1>1, <1>2, <2>1, <2>2, QuietStep DEF Moves
  <1>. QED
    BY <1>3, <1>4, <1>5, <1>6, <1>7, <1>8, <1>9, Zenon DEF Next, Background

\* The invariant holds of every behaviour.
LEMMA LogInvariant == Spec => []LogInv
  BY LogInvInit, LogInvStep, PTL DEF Spec

\* Every variable has its type, and both spare buffers are back whenever the
\* background thread goes for the lock (AsyncLogging.cc ThreadFunc).
THEOREM TypeCorrect == Spec => []TypeOK
  <1>1. ASSUME LogInv
        PROVE  TypeOK
    <2>1. Typed /\ SparesBack
      BY <1>1 DEF LogInv
    <2>2. /\ \A i \in DOMAIN buffers_ : buffers_[i] \in Buffer
          /\ dropped \in SUBSET Lines
      <3>1. /\ buffers_ \in Seq(Buffer) /\ dropped \in SUBSET (1 .. accepted)
            /\ accepted \in 0 .. MaxLines
        BY <2>1 DEF Typed
      <3>2. 1 .. accepted \subseteq Lines
        BY <3>1 DEF Lines
      <3>3. \A i \in DOMAIN buffers_ : buffers_[i] \in Buffer
        BY <3>1
      <3>. QED  BY <3>1, <3>2, <3>3
    <2>. QED  BY <2>1, <2>2, Zenon DEF TypeOK, Typed, SparesBack, Mains
  <1>. QED  BY <1>1, LogInvariant, PTL

\* No line is lost on its way, doubled or overtaken, except with a buffer that
\* the background thread drops (AsyncLogging.cc Append, ThreadFunc).
THEOREM NoLineAstray == Spec => []LinesAccounted
  <1>1. LogInv => LinesAccounted
    BY DEF LogInv
  <1>. QED  BY <1>1, LogInvariant, PTL

\* Files are a second apart, exceed their size for the reasons named only,
\* and are those of their day (LogFile.cc AppendUnlocked, RollFileUnlocked).
THEOREM FilesAreRolled == Spec => []LogFilesRolled
  <1>1. LogInv => LogFilesRolled
    BY DEF LogInv, Rolled
  <1>. QED  BY <1>1, LogInvariant, PTL
-----------------------------------------------------------------------------
(* The clock is looked at in time *)

\* Only a write changes the files that there are, and the count with them.
LEMMA CountStep ==
    ASSUME LogInv, appendCount_ \in Nat, [Next]_vars
    PROVE  appendCount_' \in Nat /\ LooksSoon
  <1>1. /\ now \in Nat /\ currentPeriod_ \in Int /\ lastRoll_ \in Int
    BY DEF LogInv, Typed, FilesTyped
  <1>2. RoundByDay(now) \in Int
    BY <1>1 DEF RoundByDay
  <1>3. CASE OpenFile
    <2>1. appendCount_' = appendCount_ /\ currentPeriod_' = RoundByDay(now)
      BY <1>3 DEF OpenFile, OpenLogFile
    <2>. QED  BY <1>2, <2>1 DEF LooksSoon
  <1>4. ASSUME NEW lines, AppendLines(lines)
        PROVE  appendCount_' \in Nat /\ LooksSoon
    <2>1. CASE lines = <<>>
      BY <1>4, <2>1 DEF AppendLines, logFile, LooksSoon
    <2>2. CASE lines # <<>>
      <3>. DEFINE over == OverSize(lines)
                  check == ~over /\ appendCount_ >= CheckEveryN
                  rolls == (over \/ (check /\ NewDay)) /\ ~RollRefused
      <3>1. /\ appendCount_' = IF over \/ check THEN 1 ELSE appendCount_ + 1
            /\ currentPeriod_' = IF rolls \/ (check /\ NewDay)
                                 THEN RoundByDay(now) ELSE currentPeriod_
        BY <1>4, <2>2 DEF AppendLines
      <3>. HIDE DEF over
      <3>2. appendCount_' \in Nat
        BY <3>1
      <3>3. CASE over
        BY <1>2, <3>1, <3>2, <3>3 DEF LooksSoon
      <3>4. CASE check
        BY <1>1, <1>2, <3>1, <3>2, <3>4 DEF LooksSoon, NewDay
      <3>5. CASE ~over /\ ~check
        BY <3>1, <3>2, <3>5 DEF LooksSoon
      <3>. QED  BY <3>3, <3>4, <3>5
    <2>. QED  BY <2>1, <2>2
  <1>5. CASE WriteBuffer
    BY <1>4, <1>5 DEF WriteBuffer
  <1>6. CASE files' = files /\ appendCount_' = appendCount_
    BY <1>6 DEF LooksSoon
  <1>7. CASE Start \/ StartReturns \/ Stop \/ Join \/ LogLine \/ LogFatal \/ Tick
    BY <1>6, <1>7
       DEF Start, StartReturns, Stop, Join, LogLine, LogFatal, Append1, Tick, logFile
  <1>8. CASE CountDown \/ LoopCondition \/ WaitForSeconds \/ Swap \/ Recycle
    BY <1>6, <1>8
       DEF CountDown, LoopCondition, WaitForSeconds, Swap, Recycle, FlushLogFile,
           logFile
  <1>9. CASE UNCHANGED vars
    BY <1>6, <1>9 DEF vars, logFile
  <1>. QED
    BY <1>3, <1>5, <1>7, <1>8, <1>9, Zenon DEF Next, Background

\* A file of an earlier day is replaced by the CheckEveryN-th append at the
\* latest that finds it old enough (LogFile.cc AppendUnlocked).
THEOREM MidnightIsNoticed == Spec => DayNoticed
  <1>1. Init => appendCount_ \in Nat
    BY DEF Init, LogFileInit
  <1>2. LogInv /\ appendCount_ \in Nat /\ [Next]_vars
            => (appendCount_ \in Nat)' /\ [LooksSoon]_vars
    BY CountStep
  <1>. QED  BY <1>1, <1>2, LogInvariant, PTL DEF Spec, DayNoticed
=============================================================================
