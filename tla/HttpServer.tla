----------------------------- MODULE HttpServer -----------------------------
(***************************************************************************)
(* net/http on one connection of an I/O loop.  The client's requests are a *)
(* stream of bytes that read() hands over in pieces of any size; each      *)
(* piece is one call of onMessage() with all it calls, down to the answers *)
(* given to TcpConnection::Send().  A byte is a token: a text without line *)
(* break (request line, header, body), "CR" or "LF".                       *)
(***************************************************************************)
EXTENDS Buffer, SequencesExt

CONSTANTS
    MaxRequests     \* bound: requests of the client

VARIABLES
    httpCallback_,  \* "default", or "user": one that leaves close as it is
    asked,          \* history: the requests sent
    pipelined,      \* history: one was sent before the last was answered
    wire,           \* bytes that wait in the socket
    buf,            \* inputBuffer_ of the connection
    context,        \* its HttpContext
    connected,      \* state_ is kConnected; FALSE after Shutdown()
    answers,        \* history: what was sent
    lineCut,        \* history: a read has ended inside a request line
    fault           \* what went wrong; "none"

vars == <<httpCallback_, asked, pipelined, wire, buf, context, connected,
          answers, lineCut, fault>>

RequestLines == {"HTTP/1.0", "HTTP/1.1"}
ConnectionHeaders == {"close", "Keep-Alive"}

(* Each version with the header that makes a difference, or without; a     *)
(* request with a body; and requests with one line out of order.           *)
Requests ==
    [line : RequestLines, header : {"none"}, body : {FALSE}]
    \union [line : {"HTTP/1.1"}, header : {"close"}, body : {FALSE}]
    \union [line : {"HTTP/1.0"}, header : {"Keep-Alive"}, body : {FALSE}]
    \union [line : {"HTTP/1.1"}, header : {"none"}, body : {TRUE}]
    \union [line : {"HTTP/1.1"}, header : {"bad"}, body : {FALSE}]
    \union [line : {"bad"}, header : {"none"}, body : {FALSE}]

WellFormed(r) == r.line # "bad" /\ r.header # "bad"

Bytes(r) ==
    <<r.line, "CR", "LF">>
    \o (IF r.header = "none" THEN <<>> ELSE <<r.header, "CR", "LF">>)
    \o <<"CR", "LF">> \o (IF r.body THEN <<"text">> ELSE <<>>)

Stream == FlattenSeq([i \in DOMAIN asked |-> Bytes(asked[i])])

-----------------------------------------------------------------------------
NewContext == [state_ |-> "kExpectRequestLine", version_ |-> "kUnknown",
               Connection |-> "none"]

(* Mutation: the headers of the last request stay. *)
ResetState(c) == [c EXCEPT !.state_ = "kExpectRequestLine", !.version_ = "kUnknown"]

(* The request_ is swapped with a blank one. *)
Reset(c) == [c EXCEPT !.state_ = "kExpectRequestLine", !.version_ = "kUnknown",
                      !.Connection = "none"]

(* The text in front of the line break. *)
Line(b, n) == SubSeq(Readable(b), 1, n)

ParseRequestLine(c, text) ==
    IF text \in {<<v>> : v \in RequestLines}
    THEN {[c EXCEPT !.state_ = "kExpectHeaders", !.version_ = text[1]]}
    ELSE {}

AddHeader(c, text) ==
    IF text \in {<<h>> : h \in ConnectionHeaders}
    THEN {[c EXCEPT !.Connection = text[1]]}
    ELSE IF text = <<>> THEN {[c EXCEPT !.state_ = "kExpectBody"]} ELSE {}

Parsed(c, b, ok) == [context |-> c, buf |-> b, ok |-> ok]

RECURSIVE ParseRequest(_, _)
ParseRequest(c, b) ==
    IF c.state_ = "kExpectBody"
    THEN Parsed([c EXCEPT !.state_ = "kGotAll"], b, TRUE)
    ELSE IF FindCRLF(b) = {}
    THEN Parsed(c, b, c.state_ # "kExpectRequestLine")
    ELSE LET n == CHOOSE m \in FindCRLF(b) : TRUE
             next == IF c.state_ = "kExpectRequestLine"
                     THEN ParseRequestLine(c, Line(b, n))
                     ELSE AddHeader(c, Line(b, n))
         IN  IF next = {} THEN Parsed(c, b, FALSE)
             ELSE ParseRequest(CHOOSE d \in next : TRUE, Retrieve(b, n + 2))

GotAll(c) == c.state_ = "kGotAll"

(* handleRequest's close before the callback. *)
AsksToClose(c) ==
    \/ c.Connection = "close"
    \/ c.version_ = "HTTP/1.0" /\ c.Connection # "Keep-Alive"

(* AppendToBuffer writes a Content-Length only if the connection stays. *)
Response(c) ==
    LET close == AsksToClose(c) \/ httpCallback_ = "default"
    IN  [code |-> 200, version |-> c.version_, Connection |-> c.Connection,
         length |-> ~close, shutdown |-> close]

BadRequest == [code |-> 400, version |-> "kUnknown", Connection |-> "none",
               length |-> FALSE, shutdown |-> TRUE]

(* What onMessage sends in turn. *)
Replies(p) ==
    (IF p.ok THEN <<>> ELSE <<BadRequest>>)
    \o (IF GotAll(p.context) THEN <<Response(p.context)>> ELSE <<>>)

(* Send() drops what comes after Shutdown(). *)
SentOf(replies) ==
    IF ~connected THEN <<>>
    ELSE LET last == SelectInSeq(replies, LAMBDA r : r.shutdown)
         IN  IF last = 0 THEN replies ELSE SubSeq(replies, 1, last)

onMessage(b) ==
    LET p == ParseRequest(context, b)
        sent == SentOf(Replies(p))
    IN  /\ buf' = p.buf
        /\ context' = IF GotAll(p.context) THEN Reset(p.context) ELSE p.context
        /\ answers' = answers \o sent
        /\ connected' = (connected /\ \A i \in DOMAIN sent : ~sent[i].shutdown)

-----------------------------------------------------------------------------
Init ==
    /\ httpCallback_ \in {"default", "user"}
    /\ asked = <<>> /\ pipelined = FALSE
    /\ wire = <<>>
    /\ buf = NewBuffer
    /\ context = NewContext
    /\ connected = TRUE
    /\ answers = <<>>
    /\ lineCut = FALSE
    /\ fault = "none"

ClientAsks ==
    \E r \in Requests :
        /\ Len(asked) < MaxRequests
        /\ asked' = Append(asked, r)
        /\ pipelined' = (pipelined \/ Len(answers) < Len(asked))
        /\ wire' = wire \o Bytes(r)
        /\ UNCHANGED <<httpCallback_, buf, context, connected, answers, lineCut, fault>>

Taken == Len(Stream) - Len(wire)

InsideRequestLine ==
    UNION {LET start == Len(FlattenSeq([j \in 1 .. i - 1 |-> Bytes(asked[j])]))
           IN  {start + 1, start + 2} : i \in DOMAIN asked}

(* TcpConnection::HandleRead: one ReadFd and the message callback.  Moving  *)
(* bytes that overlap their new place may go wrong.                        *)
HandleRead ==
    \E n \in 1 .. Len(wire) :
        /\ n <= ReadLimit(buf)
        /\ LET s == SubSeq(wire, 1, n)
               spill == Extra(buf, s)
               full == Filled(buf, s)
               asserted == spill > 0 => MovedFromBehind(full, spill) /\ Fits(full, spill)
           IN  /\ wire' = SubSeq(wire, n + 1, Len(wire))
               /\ lineCut' = (lineCut \/ Taken + n \in InsideRequestLine)
               /\ \/ asserted /\ onMessage(ReadFd(buf, s)) /\ UNCHANGED fault
                  \/ /\ ~asserted \/ (spill > 0 /\ Overlaps(full, spill))
                     /\ fault' = IF asserted THEN "overlap" ELSE "Buffer assertion"
                     /\ UNCHANGED <<buf, context, answers, connected>>
        /\ UNCHANGED <<httpCallback_, asked, pipelined>>

Next == fault = "none" /\ (ClientAsks \/ HandleRead)

Spec == Init /\ [][Next]_vars

-----------------------------------------------------------------------------
(* Whatever way the stream is cut, and whether the buffer had room, moved  *)
(* its bytes or grew: its indices stand in the order that its operations   *)
(* assume, and what it holds, followed by what the socket still holds, is  *)
(* the end of what the client has sent (Buffer.cc ReadFd, Retrieve,        *)
(* CheckAndMakePlace).                                                     *)
BytesKept ==
    /\ kInitPrependSize <= buf.readIndex_ /\ buf.readIndex_ <= buf.writeIndex_
    /\ buf.writeIndex_ <= Len(buf.buffer_)
    /\ fault = "none" => IsSuffix(Readable(buf) \o wire, Stream)

(* The answers are to the client's requests in their order, each made from *)
(* the version and the Connection header of its own request: a context is  *)
(* blank when the next request line is expected.  An answer without a      *)
(* length is the last one, and Shutdown() has been called after it         *)
(* (HttpServer.cc onMessage, handleRequest; HttpResponse.cc                *)
(* AppendToBuffer; HttpContext.h Reset).                                   *)
AnswersMatch ==
    /\ context.state_ = "kExpectRequestLine" => context = NewContext
    /\ \A i \in DOMAIN answers :
           /\ answers[i].length \/ (i = Len(answers) /\ ~connected)
           /\ answers[i].code = 200 =>
                  /\ i <= Len(asked)
                  /\ answers[i].version = asked[i].line
                  /\ answers[i].Connection = asked[i].header

(* When the server has read everything, each request has had one answer,   *)
(* of code 200, unless the client itself is behind it: it did not wait for *)
(* the answer before its next request, it sent a request with a body or    *)
(* one the server cannot parse; or the connection was closed with the last *)
(* answer, or a request line came in two pieces (HttpContext.cc            *)
(* ParseRequest, HttpServer.cc onMessage).                                 *)
OneAnswerEach ==
    wire = <<>> =>
        \/ /\ Len(answers) = Len(asked)
           /\ \A i \in DOMAIN answers : answers[i].code = 200
        \/ pipelined \/ lineCut
        \/ (\E i \in DOMAIN asked : asked[i].body \/ ~WellFormed(asked[i]))
        \/ (~connected /\ Last(answers).code = 200)
=============================================================================
