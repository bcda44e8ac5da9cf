----------------------------- MODULE HttpServer -----------------------------
(***************************************************************************)
(* One connection of an HttpServer (src/http/HttpServer.cc): the bytes of  *)
(* a client that sends its requests one after the other arrive cut into    *)
(* pieces anywhere; TcpConnection::handleRead() reads them into the input  *)
(* buffer and onMessage() parses the buffer with a fresh HttpContext       *)
(* (src/http/HttpContext.cc), line by line, and answers.                   *)
(*                                                                         *)
(* The stream is a sequence of lexemes: a method, a space, a target, a     *)
(* protocol version, a colon, other text, CR and LF.  A cut inside a       *)
(* lexeme shows the parser the same lines as a cut before it.  Headers are *)
(* looked up only for `Connection', and what follows from it is overwritten*)
(* (close = true), so they are not kept.  The answer is what send() is     *)
(* given; how it reaches the peer is the subject of TcpConnection.         *)
(***************************************************************************)
EXTENDS Buffer, FiniteSetsExt

CONSTANTS
  Workloads      \* sequences of requests a client may send

VARIABLES
  requests,      \* what the client sends (never changes)
  stream,        \* the same as one sequence of lexemes (never changes)
  delivered,     \* how many of them have reached the socket
  received,      \* how many of them readFd() has taken
  inputBuffer,   \* inputBuffer_
  pc,            \* "poll", "parse" (the loop of parseRequest), "parsed"
  context,       \* the HttpContext of the running onMessage(): state_, request_, ok
  connState,     \* state_ of the TcpConnection
  answers,       \* what send() accepted
  cut            \* history: a read ended inside a request

clientVars == <<requests, stream, delivered>>
bufferVars == <<received, inputBuffer, cut>>
connVars == <<connState, answers>>
httpVars == <<clientVars, bufferVars, pc, context, connVars>>

\* The stream up to the end of the i-th request.
Upto(reqs, i) ==
  LET upto[j \in 0 .. Len(reqs)] == IF j = 0 THEN <<>> ELSE upto[j - 1] \o reqs[j].text
  IN upto[i]
RequestEnds == {Len(Upto(requests, i)) : i \in 0 .. Len(requests)}

\* A request: the lexemes of it, and what it asks for.
Request == [text : Seq(Byte), path : Seq(Byte)]

ASSUME WorkloadAssumption == \A reqs \in Workloads : reqs \in Seq(Request)

\* new HttpContext
NewContext == [state |-> "kExpectRequestLine", path |-> <<>>, ok |-> FALSE]

HttpInit ==
  /\ requests \in Workloads
  /\ stream = Upto(requests, Len(requests))
  /\ delivered = 0 /\ received = 0
  /\ inputBuffer = NewBuffer
  /\ pc = "poll" /\ context = NewContext
  /\ connState = "kConnected" /\ answers = <<>>
  /\ cut = FALSE

-----------------------------------------------------------------------------
(* The client and the network.                                             *)

Deliver ==
  /\ \E n \in (delivered + 1) .. Len(stream) : delivered' = n
  /\ UNCHANGED <<requests, stream, bufferVars, pc, context, connVars>>

-----------------------------------------------------------------------------
(* The io loop.                                                            *)

\* TcpConnection::handleRead(): readv() takes what has arrived, up to the room
\* that readFd() offers, and messageCallback_ is HttpServer::onMessage().
HandleRead ==
  /\ pc = "poll" /\ received < delivered
  /\ received' = IF delivered - received <= ReadLimit(inputBuffer)
                  THEN delivered ELSE received + ReadLimit(inputBuffer)
  /\ inputBuffer' = readFd(inputBuffer, SubSeq(stream, received + 1, received'))
  /\ cut' = (cut \/ received' \notin RequestEnds)
  /\ context' = NewContext
  /\ pc' = "parse"
  /\ UNCHANGED <<clientVars, connVars>>

\* std::find(): the first position from `from' on that holds c, or the end.
Find(s, from, c) == Min({i \in from .. Len(s) : s[i] = c} \cup {Len(s) + 1})

\* Buffer::findCRLF(): where the first CR LF of the readable bytes is; the empty
\* set when there is none (NULL).
CRLFs ==
  LET b == inputBuffer
  IN {i \in b.readerIndex .. (b.writerIndex - 2) : b.data[i] = "CR" /\ b.data[i + 1] = "LF"}
findCRLF == {i \in CRLFs : \A j \in CRLFs : i <= j}

\* The bytes from peek() to crlf.
Line(crlf) == SubSeq(Readable(inputBuffer), 1, crlf - inputBuffer.readerIndex)

\* HttpRequest::setMethod(): GET, POST, HEAD, PUT and DELETE are all the same here.
setMethod(word) == word = <<"METHOD">>

\* processRequestLine(): method, target and version with one space between them.
processRequestLine(line) ==
  LET space1 == Find(line, 1, "SP")
      space2 == Find(line, space1 + 1, "SP")
  IN [ok |-> /\ setMethod(SubSeq(line, 1, space1 - 1))
             /\ space2 <= Len(line)
             /\ SubSeq(line, space2 + 1, Len(line)) = <<"HTTP/1.x">>,
      path |-> SubSeq(line, space1 + 1, space2 - 1)]

\* retrieveUntil(crlf + 2)
RetrieveLineMutant(crlf) == retrieve(inputBuffer, crlf + 1 - inputBuffer.readerIndex)
RetrieveLine(crlf) == retrieve(inputBuffer, crlf + 2 - inputBuffer.readerIndex)

\* One turn of parseRequest() in state kExpectRequestLine with a whole line.
ParseRequestLine ==
  /\ pc = "parse" /\ context.state = "kExpectRequestLine"
  /\ \E crlf \in findCRLF :
       LET parsed == processRequestLine(Line(crlf))
       IN IF parsed.ok
          THEN /\ context' = [state |-> "kExpectHeaders", path |-> parsed.path, ok |-> TRUE]
               /\ inputBuffer' = RetrieveLine(crlf)
               /\ pc' = pc
          ELSE /\ pc' = "parsed"
               /\ UNCHANGED <<context, inputBuffer>>
  /\ UNCHANGED <<clientVars, received, cut, connVars>>

\* The same in state kExpectHeaders: a line without a colon ends the headers.
ParseHeader ==
  /\ pc = "parse" /\ context.state = "kExpectHeaders"
  /\ \E crlf \in findCRLF :
       /\ IF Find(Line(crlf), 1, ":") <= Len(Line(crlf))
          THEN UNCHANGED <<pc, context>>
          ELSE pc' = "parsed" /\ context' = [context EXCEPT !.state = "kGotAll"]
       /\ inputBuffer' = RetrieveLine(crlf)
  /\ UNCHANGED <<clientVars, received, cut, connVars>>

\* No whole line is left: parseRequest() returns with what it has.
ParseRunsDry ==
  /\ pc = "parse" /\ findCRLF = {}
  /\ pc' = "parsed"
  /\ UNCHANGED <<clientVars, bufferVars, context, connVars>>

\* TcpConnection::send() and shutdown(), here called in the io loop.
Send(answer) ==
  answers' = IF connState = "kConnected" THEN Append(answers, answer) ELSE answers
Shutdown == connState' = "kDisconnecting"

\* onMessage(): parseRequest() returned false.
BadRequestMutant ==
  /\ pc = "parsed" /\ ~context.ok
  /\ pc' = "poll"
  /\ UNCHANGED <<clientVars, bufferVars, context, connVars>>
BadRequest ==
  /\ pc = "parsed" /\ ~context.ok
  /\ Send([status |-> 400, path |-> <<>>]) /\ Shutdown
  /\ pc' = "poll"
  /\ UNCHANGED <<clientVars, bufferVars, context>>

\* onRequest(): the user's callback may keep the connection.
OnRequestMutant ==
  /\ pc = "parsed" /\ context.ok /\ context.state = "kGotAll"
  /\ Send([status |-> 200, path |-> context.path])
  /\ \/ Shutdown
     \/ UNCHANGED connState
  /\ inputBuffer' = retrieveAll(inputBuffer)
  /\ pc' = "poll" /\ context' = NewContext
  /\ UNCHANGED <<clientVars, received, cut>>
OnRequest ==
  /\ pc = "parsed" /\ context.ok /\ context.state = "kGotAll"
  /\ Send([status |-> 200, path |-> context.path])
  /\ \/ Shutdown
     \/ UNCHANGED connState
  /\ pc' = "poll" /\ context' = NewContext
  /\ UNCHANGED <<clientVars, bufferVars>>

\* The request line was parsed and the headers are not complete: onMessage()
\* returns and its context, with the request line in it, is gone.
NeedsMore ==
  /\ pc = "parsed" /\ context.ok /\ context.state # "kGotAll"
  /\ pc' = "poll"
  /\ UNCHANGED <<clientVars, bufferVars, context, connVars>>

LoopStep ==
  HandleRead \/ ParseRequestLine \/ ParseHeader \/ ParseRunsDry
  \/ BadRequest \/ OnRequest \/ NeedsMore

HttpNext == Deliver \/ LoopStep

\* The io loop has something to do: exactly when LoopStep is enabled.
LoopReady == pc # "poll" \/ received < delivered

\* The network delivers in the end what was sent, and the io loop goes on: weak
\* fairness of LoopStep, with its enabling condition written out, which spares
\* TLC the search for a successor through the buffer operations.
HttpSpec ==
  /\ HttpInit /\ [][HttpNext]_httpVars
  /\ WF_httpVars(Deliver)
  /\ []<>~LoopReady \/ []<><<LoopStep>>_httpVars

-----------------------------------------------------------------------------
(* Properties.                                                             *)

\* The input buffer is well formed and its readable bytes are exactly the last
\* ones received, however often Buffer moved them, grew and was refilled
\* through extrabuf: the parser consumes the stream from the front, without a
\* gap and without a byte twice.
BufferIsStream ==
  /\ WellFormed(inputBuffer)
  /\ Readable(inputBuffer) =
       SubSeq(stream, received - readableBytes(inputBuffer) + 1, received)

LineEnds(t) == {i \in 1 .. Len(t) - 1 : t[i] = "CR" /\ t[i + 1] = "LF"}

\* A request as this server takes it: the line of the request, then lines that begin
\* with a name and a colon, then an empty line.  A request with a body, which the
\* protocol allows and setMethod() accepts (POST, PUT), is not among them: onMessage()
\* looks for no body and takes the bytes of one for the next request.
WellFormedRequest(r) ==
  LET t == r.text
      IsHeader(s) == \E c \in s .. Len(t) :
                       t[c] = ":" /\ \A j \in s .. c - 1 : t[j] \notin {"SP", "CR"}
  IN /\ \A j \in DOMAIN r.path : r.path[j] \notin {"SP", "CR"}
     /\ Len(t) >= Len(r.path) + 6
     /\ SubSeq(t, 1, Len(r.path) + 6)
          = <<"METHOD", "SP">> \o r.path \o <<"SP", "HTTP/1.x", "CR", "LF">>
     /\ {Len(t) - 3, Len(t) - 1} \subseteq LineEnds(t)
     /\ \A e \in LineEnds(t) : e + 2 < Len(t) - 1 => IsHeader(e + 2)

AllWellFormed(i) == i <= Len(requests) /\ \A j \in 1 .. i : WellFormedRequest(requests[j])

\* As long as the client's requests are well formed the i-th answer, unless it
\* is a refusal, is the answer to the i-th request, although every onMessage()
\* starts with an empty context and answers one request at most.
AnswersInOrder ==
  \A i \in 1 .. Len(answers) :
    AllWellFormed(i) /\ answers[i].status = 200 => answers[i].path = requests[i].path

\* onMessage() refuses (400) only a client one of whose requests so far is
\* malformed, or one of whose requests did not arrive in one read; and a
\* refusal is the last answer.
RefusedForCause ==
  \A i \in 1 .. Len(answers) : answers[i].status = 400 =>
    /\ i = Len(answers)
    /\ AllWellFormed(i) => cut

\* A client that has sent everything has, in the end, an answer to each request
\* or a closed connection, or the last requests lie unparsed in the input
\* buffer (they came in the same read as an answered one: onMessage() does not
\* look for a second request).
ClientIsServed ==
  delivered = Len(stream) ~>
    \/ connState = "kDisconnecting" /\ answers # <<>>
    \/ Len(answers) = Len(requests)
    \/ received = delivered /\ pc = "poll" /\ readableBytes(inputBuffer) > 0 /\ answers # <<>>

=============================================================================
