------------------------------ MODULE HttpClient ------------------------------
(* http_client::impl (lib/client/client_impl.cpp): one request at a time on a *)
(* connection that is kept between requests, a single retry, three timeout    *)
(* policies, and close() called at any moment by somebody else.  The server   *)
(* may answer in pieces, answer never, close or reset the connection.  The    *)
(* parser is Beast's: buffer_ outlives the connection whose bytes it holds,   *)
(* and a header that is not complete stays in it.                             *)
EXTENDS Integers, Sequences, SequencesExt

CONSTANTS
  Policies,   \* the timeout policies a client may have
  MaxCalls,   \* how many requests are made
  MaxBody     \* the longest body of an answer, in pieces; it is one chunk

\* A piece of an answer: the attempt it answers, what it is, and for a piece of
\* the chunk how many pieces of it there are from here on.  "first" carries the
\* chunk's header; "header" and "header_close" are the second half of a header.
Piece(a, k, r) == [of |-> a, kind |-> k, remain |-> r]
HeaderEnds == {"header", "header_close"}
Kinds == {"start", "first", "more", "end"} \cup HeaderEnds

VARIABLES
  policy,    \* timeout_policy_
  literal,   \* whether host_ is an address
  handler,   \* whether there is a chunk_handler_
  calls,     \* how many requests have been made
  method,    \* the method of the current one
  pc,        \* where async_send_request is
  ec,        \* the error it caught
  retry,     \* its parameter
  attempt,   \* how often async_send_request_impl was entered
  fresh,     \* whether this attempt makes a connection
  stream,    \* the socket of stream_: "none", "open", "shut" while a close() on another
             \* thread is between its two steps, or "closed"
  armed,     \* whether the stream's deadline is set
  buffer,    \* buffer_
  stale,     \* whether this attempt began with something of an earlier answer
  keep,      \* body_parser.keep_alive()
  own,       \* whether all that was parsed is of this attempt
  need,      \* the pieces of a chunk the parser expects
  chunks,    \* what chunk_handler_ was given in this call
  sends,     \* how often this call's request reached the server
  closedAt,  \* the pc at which the user closed during this call, or "window" if the
             \* request goes on with a retry for that very close()
  result,    \* how the last call ended
  peer,      \* the server's end: "alive", "eof" or "reset"
  todo,      \* what the server has still to send
  wire       \* what is on its way to the client

config == <<policy, literal>>
call   == <<calls, method>>
try    == <<retry, attempt, fresh, stale>>
parser == <<keep, own, need>>
seen   == <<chunks, sends, closedAt, result>>
server == <<peer, todo, wire>>
vars   == <<config, handler, call, pc, ec, try, stream, armed, buffer, parser, seen, server>>

Init ==
  /\ policy \in Policies /\ literal \in BOOLEAN /\ handler = FALSE
  /\ calls = 0 /\ method = "get"
  /\ pc = "idle" /\ ec = "none"
  /\ retry = TRUE /\ attempt = 0 /\ fresh = FALSE /\ stale = FALSE
  /\ stream = "none" /\ armed = FALSE
  /\ buffer = <<>>
  /\ keep = TRUE /\ own = TRUE /\ need = 0
  /\ chunks = <<>> /\ sends = 0 /\ closedAt = "none" /\ result = "none"
  /\ peer = "alive" /\ todo = <<>> /\ wire = <<>>
-----------------------------------------------------------------------------
(* What the steps share *)

\* expires_after that also arms the deadline of a reused connection.
MutArm(first) ==
  CASE policy = "step"    -> FALSE
    [] policy = "never"   -> FALSE
    [] policy = "overall" -> first \/ armed

\* expires_after(first): whether the deadline is set when it returns.
Arm(first) ==
  CASE policy = "step"    -> TRUE
    [] policy = "never"   -> FALSE
    [] policy = "overall" -> first \/ armed

\* Whether stream_mutex_ can be had: a close() on another thread holds it until
\* the socket is closed.
StreamFree == stream # "shut"

\* close() of the stream with nothing pending: the socket is closed.
Shut == IF stream = "none" THEN "none" ELSE "closed"

\* async_send_request_impl entered: the test of is_open decides the way.  What is
\* left of an earlier answer is in buffer_ or, if it is reused, on the connection.
Enter(r) ==
  /\ retry' = r
  /\ attempt' = attempt + 1
  /\ stale' = (buffer # <<>> \/ (~fresh' /\ wire \o todo # <<>>))

Fail(e) == pc' = "failed" /\ ec' = e
-----------------------------------------------------------------------------
(* The calls of the user *)

\* async_get, async_post or async_head.
Call(m) ==
  /\ pc = "idle" /\ calls < MaxCalls
  /\ calls' = calls + 1 /\ method' = m
  /\ fresh' = (stream # "open")
  /\ Enter(TRUE)
  /\ pc' = IF stream = "open" THEN "write" ELSE "start"
  /\ armed' = IF stream = "open" THEN Arm(FALSE) ELSE armed
  /\ chunks' = <<>> /\ sends' = 0 /\ closedAt' = "none" /\ result' = "none"
  /\ UNCHANGED <<config, handler, ec, stream, buffer, parser, server>>

SetChunkHandler(h) ==
  /\ pc = "idle" /\ calls < MaxCalls /\ handler # h
  /\ handler' = h
  /\ UNCHANGED <<config, call, pc, ec, try, stream, armed, buffer, parser, seen, server>>

\* A close() that is only the resolver's.
MutClose ==
  /\ pc # "idle" /\ closedAt = "none"
  /\ closedAt' = pc
  /\ IF pc = "resolve" THEN Fail("aborted") ELSE UNCHANGED <<pc, ec>>
  /\ UNCHANGED <<config, handler, call, try, stream, armed, buffer, parser, chunks, sends,
                 result, server>>

\* close() from another coroutine or thread: it cancels a resolve that has not
\* completed, drops the deadline and shuts the socket down, in both directions.
Close ==
  /\ pc # "idle" /\ closedAt = "none"
  /\ closedAt' = pc
  /\ stream' = IF stream = "open" THEN "shut" ELSE stream
  /\ armed' = FALSE
  /\ IF pc = "resolve" THEN Fail("aborted") ELSE UNCHANGED <<pc, ec>>
  /\ UNCHANGED <<config, handler, call, try, buffer, parser, chunks, sends, result, server>>

\* The rest of close(): the socket is closed, and what is pending on it aborted.
CloseSocket ==
  /\ stream = "shut"
  /\ stream' = "closed"
  /\ UNCHANGED <<config, handler, call, pc, ec, try, armed, buffer, parser, seen, server>>

\* close() between two requests.
CloseIdle ==
  /\ pc = "idle" /\ stream = "open"
  /\ stream' = Shut /\ armed' = FALSE
  /\ UNCHANGED <<config, handler, call, pc, ec, try, buffer, parser, seen, server>>
-----------------------------------------------------------------------------
(* The connection *)

\* A new http_stream; an address needs no resolver.
NewStream ==
  /\ pc = "start"
  /\ stream' = "none" /\ armed' = FALSE
  /\ pc' = IF literal THEN "resolved" ELSE "resolve"
  /\ UNCHANGED <<config, handler, call, ec, try, buffer, parser, seen, server>>

Resolve ==
  /\ pc = "resolve"
  /\ (pc' = "resolved" /\ UNCHANGED ec) \/ Fail("not_found")
  /\ UNCHANGED <<config, handler, call, try, stream, armed, buffer, parser, seen, server>>

\* async_connect opens a socket, whatever was closed before it.
StartConnect ==
  /\ pc = "resolved"
  /\ stream' = "open" /\ armed' = Arm(TRUE)
  /\ pc' = "connect"
  /\ UNCHANGED <<config, handler, call, ec, try, buffer, parser, seen, server>>

Connected ==
  /\ pc = "connect" /\ stream = "open"
  /\ pc' = "write" /\ armed' = Arm(FALSE)
  /\ peer' = "alive" /\ todo' = <<>> /\ wire' = <<>>
  /\ UNCHANGED <<config, handler, call, ec, try, stream, buffer, parser, seen>>

\* Refused, or reset in the TLS handshake.
ConnectFails(e) ==
  /\ pc = "connect" /\ stream = "open"
  /\ Fail(e)
  /\ UNCHANGED <<config, handler, call, try, stream, armed, buffer, parser, seen, server>>
-----------------------------------------------------------------------------
(* The request and its answer *)

\* The pieces of the server's answer; none of the body for HEAD.
Answer(b, k) ==
  LET body == [i \in 1 .. b |-> Piece(attempt, IF i = 1 THEN "first" ELSE "more", b + 1 - i)]
      head == <<Piece(attempt, "start", 0),
                Piece(attempt, IF k THEN "header" ELSE "header_close", 0)>>
  IN  IF method = "head" THEN head ELSE head \o body \o <<Piece(attempt, "end", 0)>>

\* The request is written; a server that has closed does not get it.
Write(b, k) ==
  /\ pc = "write" /\ stream = "open" /\ peer # "reset"
  /\ IF peer = "alive"
       THEN todo' = todo \o Answer(b, k) /\ sends' = sends + 1
       ELSE UNCHANGED <<todo, sends>>
  /\ pc' = "header" /\ armed' = Arm(FALSE)
  /\ UNCHANGED <<config, handler, call, ec, try, stream, buffer, parser, chunks, closedAt,
                 result, peer, wire>>

WriteFails(e) ==
  /\ pc = "write" /\ stream = "open" /\ peer = "reset"
  /\ Fail(e)
  /\ UNCHANGED <<config, handler, call, try, stream, armed, buffer, parser, seen, server>>

\* Whether b holds a complete header, and whether it is its first h pieces.
HasHeader(b) == \E i \in DOMAIN b : b[i].kind \in HeaderEnds
HeaderIs(b, h) ==
  b[h].kind \in HeaderEnds /\ \A i \in 1 .. h - 1 : b[i].kind \notin HeaderEnds

\* A read leaves the stream alone while buffer_ is enough for the parser.
Filled(n) == buffer \o SubSeq(wire, 1, n)
Reads(n, enough) == IF enough THEN n = 0 /\ StreamFree ELSE stream = "open" /\ n \in 1 .. Len(wire)

\* A client that leaves the body to its chunk_handler_.
MutBodiless == method = "head" \/ handler

\* The answers whose body is not read.
Bodiless == method = "head"

\* A handler that returns less than it was given.
MutReturned(given, remain) == 1

\* A handler that counts the chunk's line end as well.
MutReturnedMore(given, remain) == IF handler THEN remain + 1 ELSE given

\* What the parser takes as consumed of the chunk: chunk_handler_ is given what
\* has arrived and returns all that remains, so that the parser goes on after it.
Returned(given, remain) == IF handler THEN remain ELSE given

\* The end of async_send_request_impl.
Finish(k, mine) ==
  /\ pc' = "idle" /\ armed' = FALSE
  /\ stream' = IF k THEN stream ELSE Shut
  /\ result' = IF mine THEN "own" ELSE "foreign"

\* The header is complete: it is of this attempt, or begins with what an earlier
\* one left in buffer_, which reads as a header or does not.
ReadHeader(n) ==
  /\ pc = "header" /\ Reads(n, HasHeader(buffer))
  /\ \E h \in DOMAIN Filled(n) :
       LET f == Filled(n)
           k == f[h].kind = "header"
           mine == h = 2 /\ f[1].kind = "start" /\ f[1].of = attempt /\ f[2].of = attempt
       IN  /\ HeaderIs(f, h)
           /\ \/ /\ f[1].kind = "start"
                 /\ buffer' = SubSeq(f, h + 1, Len(f))
                 /\ keep' = k /\ own' = mine /\ need' = 0
                 /\ UNCHANGED ec
                 /\ IF Bodiless
                      THEN Finish(k, mine)
                      ELSE pc' = "body" /\ armed' = Arm(FALSE) /\ UNCHANGED <<stream, result>>
              \/ /\ ~mine
                 /\ Fail("bad")
                 /\ buffer' = f
                 /\ UNCHANGED <<parser, armed, stream, result>>
  /\ wire' = SubSeq(wire, n + 1, Len(wire))
  /\ UNCHANGED <<config, handler, call, try, chunks, sends, closedAt, peer, todo>>

\* A part of a header is left in buffer_, and the operation goes on.
ReadPartOfHeader(n) ==
  /\ pc = "header" /\ Reads(n, HasHeader(buffer)) /\ ~HasHeader(Filled(n))
  /\ buffer' = Filled(n)
  /\ wire' = SubSeq(wire, n + 1, Len(wire))
  /\ UNCHANGED <<config, handler, call, pc, ec, try, stream, armed, parser, seen, peer, todo>>

\* The chunk, or what has arrived of it.
ReadPiece(n) ==
  LET f == Filled(n)
      given == Min({Len(f), f[1].remain})
      back  == Returned(given, f[1].remain)
  IN  /\ pc = "body" /\ Reads(n, buffer # <<>>)
      /\ f # <<>> /\ f[1].kind = IF need = 0 THEN "first" ELSE "more"
      /\ need' = f[1].remain - back
      /\ own' = (own /\ f[1].of = attempt)
      /\ chunks' = IF handler THEN chunks \o SubSeq(f, 1, given) ELSE chunks
      /\ buffer' = SubSeq(f, back + 1, Len(f))
      /\ wire' = SubSeq(wire, n + 1, Len(wire))
      /\ armed' = Arm(FALSE)
      /\ UNCHANGED <<config, handler, call, pc, ec, try, stream, keep, sends, closedAt,
                     result, peer, todo>>

\* The last chunk.
ReadEnd(n) ==
  LET f == Filled(n)
  IN  /\ pc = "body" /\ Reads(n, buffer # <<>>)
      /\ f[1].kind = "end" /\ need = 0
      /\ own' = (own /\ f[1].of = attempt)
      /\ buffer' = Tail(f)
      /\ wire' = SubSeq(wire, n + 1, Len(wire))
      /\ Finish(keep, own')
      /\ UNCHANGED <<config, handler, call, ec, try, keep, need, chunks, sends, closedAt,
                     peer, todo>>

\* Something else where a chunk's header or more of a chunk is expected.
BadChunk(n) ==
  LET f == Filled(n)
  IN  /\ pc = "body" /\ Reads(n, buffer # <<>>)
      /\ f[1].kind \notin IF need = 0 THEN {"first", "end"} ELSE {"more"}
      /\ Fail("bad")
      /\ buffer' = f
      /\ wire' = SubSeq(wire, n + 1, Len(wire))
      /\ UNCHANGED <<config, handler, call, try, stream, armed, parser, seen, peer, todo>>

\* Whether the read that is pending needs the stream.
Waits ==
  \/ pc = "header" /\ ~HasHeader(buffer)
  \/ pc = "body" /\ buffer = <<>>

\* The end of the input: end_of_stream only if nothing of an answer was parsed.
ReadEof ==
  /\ Waits /\ stream = "open" /\ peer = "eof" /\ wire = <<>> /\ todo = <<>>
  /\ Fail(IF pc = "header" /\ buffer = <<>> THEN "end_of_stream" ELSE "partial_message")
  /\ UNCHANGED <<config, handler, call, try, stream, armed, buffer, parser, seen, server>>

ReadReset ==
  /\ Waits /\ stream = "open" /\ peer = "reset"
  /\ Fail("reset")
  /\ UNCHANGED <<config, handler, call, try, stream, armed, buffer, parser, seen, server>>

Retried == {"reset", "end_of_stream"}

\* How an operation ends on a socket that is shut down: as at the end of the
\* input, with a broken pipe, or with the reset of a connection not yet made.
ShutError ==
  CASE pc = "connect" -> "reset"
    [] pc = "write"   -> "broken_pipe"
    [] pc = "header" /\ buffer = <<>> -> "end_of_stream"
    [] OTHER          -> "partial_message"

\* An operation that is pending when close() shuts the socket down may end before
\* it closes the socket, on the thread that runs it.
ShutdownEnds ==
  /\ pc \in {"connect", "write"} \/ Waits
  /\ stream = "shut"
  /\ Fail(ShutError)
  /\ closedAt' = IF ShutError \in Retried /\ retry THEN "window" ELSE closedAt
  /\ UNCHANGED <<config, handler, call, try, stream, armed, buffer, parser, chunks, sends,
                 result, server>>

\* An operation on a socket that was closed.
Aborted ==
  /\ pc \in {"connect", "write"} \/ Waits
  /\ stream = "closed"
  /\ Fail("aborted")
  /\ UNCHANGED <<config, handler, call, try, stream, armed, buffer, parser, seen, server>>

\* The deadline passes while an operation is pending: Beast closes the socket.
Timeout ==
  /\ pc \in {"connect", "write"} \/ Waits
  /\ stream = "open" /\ armed
  /\ Fail("timeout")
  /\ stream' = "closed" /\ armed' = FALSE
  /\ UNCHANGED <<config, handler, call, try, buffer, parser, seen, server>>

\* A retry that may be retried.
MutCatchAgain ==
  /\ pc = "failed" /\ StreamFree
  /\ stream' = Shut /\ armed' = FALSE
  /\ IF ec \in Retried /\ attempt < 3 * MaxCalls
       THEN fresh' = TRUE /\ Enter(TRUE) /\ pc' = "start" /\ UNCHANGED result
       ELSE pc' = "idle" /\ result' = "error" /\ UNCHANGED try
  /\ ec' = "none"
  /\ UNCHANGED <<config, handler, call, buffer, parser, chunks, sends, closedAt, server>>

\* The handlers of async_send_request: close, then once more or not.
Catch ==
  /\ pc = "failed" /\ StreamFree
  /\ stream' = Shut /\ armed' = FALSE
  /\ IF ec \in Retried /\ retry
       THEN fresh' = TRUE /\ Enter(FALSE) /\ pc' = "start" /\ UNCHANGED result
       ELSE pc' = "idle" /\ result' = "error" /\ UNCHANGED try
  /\ ec' = "none"
  /\ UNCHANGED <<config, handler, call, buffer, parser, chunks, sends, closedAt, server>>
-----------------------------------------------------------------------------
(* The server *)

Sends ==
  /\ stream = "open" /\ peer = "alive" /\ todo # <<>>
  /\ wire' = Append(wire, Head(todo)) /\ todo' = Tail(todo)
  /\ UNCHANGED <<config, handler, call, pc, ec, try, stream, armed, buffer, parser, seen, peer>>

\* It closes the connection, idle or in the middle of an answer, or resets it.
Leaves(how) ==
  /\ stream = "open" /\ pc # "connect" /\ peer # "reset" /\ peer # how
  /\ peer' = how /\ todo' = <<>>
  /\ UNCHANGED <<config, handler, call, pc, ec, try, stream, armed, buffer, parser, seen, wire>>
-----------------------------------------------------------------------------
Read(n) == ReadHeader(n) \/ ReadPartOfHeader(n) \/ ReadPiece(n) \/ ReadEnd(n) \/ BadChunk(n)

Client ==
  \/ NewStream \/ Resolve \/ StartConnect \/ Connected
  \/ \E e \in {"refused", "reset"} : ConnectFails(e)
  \/ \E b \in 0 .. MaxBody, k \in BOOLEAN : Write(b, k)
  \/ \E e \in {"reset", "broken_pipe"} : WriteFails(e)
  \/ \E n \in 0 .. Len(wire) : Read(n)
  \/ ReadEof \/ ReadReset \/ ShutdownEnds \/ Aborted \/ Catch

Next ==
  \/ Client \/ Timeout
  \/ \E m \in {"get", "head"} : Call(m)
  \/ \E h \in BOOLEAN : SetChunkHandler(h)
  \/ Close \/ CloseSocket \/ CloseIdle
  \/ Sends
  \/ \E how \in {"eof", "reset"} : Leaves(how)

Spec == Init /\ [][Next]_vars
-----------------------------------------------------------------------------
(* Properties *)

Pieces == [of : Nat, kind : Kinds, remain : 0 .. MaxBody]

\* The states each variable ranges over.
TypeOK ==
  /\ policy \in Policies /\ literal \in BOOLEAN /\ handler \in BOOLEAN
  /\ calls \in 0 .. MaxCalls /\ method \in {"get", "head"}
  /\ pc \in {"idle", "start", "resolve", "resolved", "connect", "write", "header", "body",
             "failed"}
  /\ ec \in {"none", "not_found", "refused", "reset", "broken_pipe", "end_of_stream",
             "partial_message", "aborted", "timeout", "bad"}
  /\ retry \in BOOLEAN /\ attempt \in Nat /\ fresh \in BOOLEAN /\ stale \in BOOLEAN
  /\ stream \in {"none", "open", "shut", "closed"} /\ armed \in BOOLEAN
  /\ buffer \in Seq(Pieces) /\ chunks \in Seq(Pieces)
  /\ keep \in BOOLEAN /\ own \in BOOLEAN /\ need \in 0 .. MaxBody
  /\ sends \in Nat
  /\ peer \in {"alive", "eof", "reset"} /\ todo \in Seq(Pieces) /\ wire \in Seq(Pieces)
  /\ result \in {"none", "own", "foreign", "error"}

\* An answer is the one to the request that was sent, in every part, unless the
\* attempt began with something of an earlier answer: bytes in buffer_ of an old
\* connection, or what a request that was answered from them did not read.  Then
\* it is never the one to the request.
OwnAnswer ==
  /\ result = "foreign" => stale
  /\ result = "own" => ~stale /\ buffer = <<>>

\* What a server sends is parsed: an answer is refused only for what an earlier
\* one left or for a chunk that chunk_handler_ got in more than one piece.
ParsesWhatArrives ==
  ec = "bad" => stale \/ (chunks # <<>> /\ Last(chunks).remain > 1)

\* chunk_handler_ is given the body once and in order, and all of it if the call
\* succeeds; a retry may begin it again, unless an earlier answer precedes it.
HandlerGetsTheBody ==
  ~stale =>
    \E q \in 0 .. Len(chunks) :
      /\ retry => q = 0
      /\ \A i \in 1 .. q : chunks[i].of # attempt
      /\ \A i \in q + 1 .. Len(chunks) :
           /\ chunks[i].of = attempt
           /\ (chunks[i].kind = "first") <=> (i = q + 1)
           /\ chunks[i].remain = chunks[q + 1].remain + q + 1 - i
      /\ result = "own" /\ q < Len(chunks) => Last(chunks).remain = 1

\* A request reaches the server twice at the most, and the second time only
\* after a connection that failed under the first.
SentAtMostTwice == sends <= (IF retry THEN 1 ELSE 2)

\* close() during a request ends it: nothing is sent or opened any more until the
\* next request.  It has no effect before async_connect begins, nor when an
\* operation has failed already but is not yet caught, as before a retry; and the
\* request is retried if close() runs on another thread and the operation that is
\* pending ends between the shutdown and the close of the socket in a way that is.
Sticky == closedAt \in {"resolve", "connect", "write", "header", "body"}
CloseHolds ==
  Sticky /\ closedAt' = closedAt =>
    stream # "open" /\ stream' # "open" /\ sends' = sends

\* A deadline covers the request: with the policy "step" always, and with
\* "overall" if its connection is new.  On a connection that is reused "overall"
\* sets no deadline.
Bounded == policy = "step" \/ (policy = "overall" /\ fresh)
=============================================================================
