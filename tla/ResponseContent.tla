---------------------------- MODULE ResponseContent ----------------------------
(* The content of a response: the set_*_content functions of response.cpp,    *)
(* called one after the other by a handler, the not-found handler, the post   *)
(* handler or the session itself, then http_task::async_write, which decides  *)
(* how the body is framed, and what a client makes of the bytes.  Beast's     *)
(* serializer and the client, which follows the rules of HTTP for the length  *)
(* of a message, are external.  Bodies are one piece (AnyBody cuts them).     *)
EXTENDS Naturals, Sequences, SequencesExt, FiniteSets

CONSTANTS
  MaxCalls,    \* calls that set content
  MaxChunks    \* chunks of a stream

None       == 99          \* no Content-Length
NoStream   == 99          \* stream_handler_ is null
ok         == 200
continue   == 100
BodilessStatus == {100, 204, 304}

\* The statuses a handler asks for, which the setters take as they are, but those
\* of forms and files, which have their own: two that have a body, the default and
\* that of a new response, for all of those (a redirection's 301 too), and two that
\* have none.
Statuses == {200, 204, 304, 404}

\* One unit of the body that the call by left, a chunk header, the end of a
\* compressed stream; the lengths tell the bodies apart.
Unit(by) == [unit |-> by, at |-> 0]
Chunk(n) == [unit |-> "chunk", at |-> n]
Units(by, n) == [i \in 1 .. n |-> Unit(by)]
ErrorPage == Units("error", 3)
Text      == Units("string", 2)
Json      == Units("json", 1)
File      == Units("file", 4)
FilePart  == Units("file", 2)
FileParts == Units("parts", 3)
Form      == Units("form", 2)

\* What a call of set_file_content comes to: see the module FileResponse.
FileOutcomes == {"failed", "unsatisfiable", "unmodified", "whole", "part", "parts"}

VARIABLES
  req,      \* head, version, keep, expect, Accept-Encoding
  resp,     \* the response: result, length, chunked, encoding, body, stream
  content,  \* what the last call that set content asked for
  calls,
  wire,
  pc

vars == <<req, resp, content, calls, wire, pc>>

\* The tokens of Accept-Encoding, an empty one and one that the factory does not
\* have included; the parameters of an element, its weight among them, are
\* parsed and not looked at.
Tokens == {"", "gzip", "identity"}
Supported == {"gzip"}

Requests == [head : BOOLEAN, version : {10, 11}, keep : BOOLEAN, expect : BOOLEAN,
             accept : UNION {[1 .. n -> Tokens] : n \in 0 .. 2}]

Elements(accept) == SelectSeq(accept, LAMBDA token : token # "")

\* The first encoding of the client's list that the server has, or "".
ServerApplyEncoding(elements) ==
  LET i == SelectInSeq(elements, LAMBDA value : value \in Supported)
  IN  IF i = 0 THEN "" ELSE elements[i]

New == [result |-> 404, length |-> None, chunked |-> FALSE, encoding |-> "",
        body |-> <<>>, stream |-> NoStream]

Init ==
  /\ req \in Requests
  /\ resp = New /\ content = [by |-> "nothing", body |-> <<>>]
  /\ calls = 0 /\ wire = <<>>
  /\ pc = IF req.expect THEN "continue" ELSE "handling"
-----------------------------------------------------------------------------
(* response::set_*_content *)

\* reset_content() leaves every header, that of the length included.
Reset(r) == [r EXCEPT !.stream = NoStream, !.body = <<>>]

\* content_length(n) also ends a chunked encoding.
WithLength(r, n) == [r EXCEPT !.length = n, !.chunked = FALSE]

Empty(r, s) == WithLength([Reset(r) EXCEPT !.result = s], 0)

\* String content whose length is left to what was there.
MutString(r, s, b) == [Reset(r) EXCEPT !.result = s, !.body = b]

String(r, s, b) == [WithLength(Reset(r), Len(b)) EXCEPT !.result = s, !.body = b]

Calls(by, b, r) ==
  /\ pc = "handling" /\ calls < MaxCalls
  /\ calls' = calls + 1
  /\ resp' = r
  /\ content' = [by |-> by, body |-> b]
  /\ UNCHANGED <<req, wire, pc>>

SetEmptyContent(s)  == Calls("empty", <<>>, Empty(resp, s))
SetErrorContent(s)  == Calls("error", ErrorPage, String(resp, s, ErrorPage))
SetStringContent(s) == Calls("string", Text, String(resp, s, Text))
SetRedirect(s)      == Calls("redirect", <<>>, Empty(resp, s))
SetJsonContent(s)   == Calls("json", Json, [Reset(resp) EXCEPT !.result = s, !.body = Json])
SetStreamContent(s) == Calls("stream", <<>>, [Reset(resp) EXCEPT !.result = s, !.stream = 0])

\* A form that leaves the status to what was there.
MutSetFormDataContent == Calls("form", Form, [Reset(resp) EXCEPT !.body = Form])

SetFormDataContent ==
  Calls("form", Form, [Reset(resp) EXCEPT !.result = ok, !.body = Form])

\* set_file_content leaves at several places: with the content reset and nothing
\* else when the file cannot be examined or opened.
SetFileContent(how) ==
  CASE how = "failed"        -> Calls("nofile", <<>>, Reset(resp))
    [] how = "unsatisfiable" -> Calls("file", <<>>, Empty(resp, 416))
    [] how = "unmodified"    -> Calls("file", <<>>, Empty(resp, 304))
    [] how = "whole"         -> Calls("file", File, String(resp, ok, File))
    [] how = "part"          -> Calls("file", FilePart, String(resp, 206, FilePart))
    [] how = "parts"         -> Calls("parts", FileParts,
                                      [Reset(resp) EXCEPT !.result = 206, !.body = FileParts])
-----------------------------------------------------------------------------
(* http_task::async_write *)

Chunked(r) == [r EXCEPT !.chunked = TRUE, !.length = None]

\* prepare_payload() of a body of unknown length.
Prepared(r) == IF req.version = 11 THEN Chunked(r) ELSE [r EXCEPT !.chunked = FALSE]
Throws(r)   == r.stream = NoStream /\ r.length = None /\ r.result \in BodilessStatus

\* An encoding announced together with the chunks, beside the length.
MutEncoded(r) ==
  LET e == ServerApplyEncoding(Elements(req.accept))
  IN  IF e # "" THEN [r EXCEPT !.chunked = TRUE, !.encoding = e] ELSE r

Encoding   == ServerApplyEncoding(Elements(req.accept))
Encoded(r) == IF Encoding # "" THEN [Chunked(r) EXCEPT !.encoding = Encoding] ELSE r

Framed(r) ==
  LET f == IF r.stream # NoStream THEN Chunked(r)
           ELSE Encoded(IF r.length = None THEN Prepared(r) ELSE r)
  IN  IF req.head THEN Reset(f) ELSE f

\* The serializer: the header, the body with the frame of a chunk, the end mark
\* of a compressed stream within, and the last chunk, which follows the header
\* when there is no body.
Written(r) ==
  LET body == IF r.encoding # "" /\ r.body # <<>> THEN Append(r.body, Unit("end")) ELSE r.body
  IN  <<[unit |-> "header", at |-> [r EXCEPT !.body = <<>>]]>>
        \o (IF r.chunked /\ body # <<>> THEN <<Chunk(Len(body))>> ELSE <<>>)
        \o body
        \o (IF r.chunked THEN <<Chunk(0)>> ELSE <<>>)

\* The 100 response goes the same way as a final one.
WriteContinue ==
  /\ pc = "continue"
  /\ wire' = wire \o Written(Framed(Empty(New, continue)))
  /\ pc' = "handling"
  /\ UNCHANGED <<req, resp, content, calls>>

\* An exception leaves the task: nothing is answered.
WriteThrows ==
  /\ pc = "handling" /\ Throws(resp)
  /\ pc' = "thrown"
  /\ UNCHANGED <<req, resp, content, calls, wire>>

WriteResponse ==
  /\ pc = "handling" /\ ~Throws(resp)
  /\ resp' = Framed(resp)
  /\ wire' = wire \o Written(resp')
  /\ pc' = IF resp'.stream # NoStream THEN "stream" ELSE "done"
  /\ UNCHANGED <<req, content, calls>>

\* One call of the stream's handler: what it puts into the buffer is a chunk,
\* and the last chunk is written when it says that there is no more.
WriteChunk(n, more) ==
  /\ pc = "stream" /\ (resp.stream < MaxChunks \/ ~more)
  /\ resp' = [resp EXCEPT !.stream = @ + 1]
  /\ content' = [content EXCEPT !.body = @ \o Units("stream", n)]
  /\ wire' = wire \o (IF n > 0 THEN <<Chunk(n)>> \o Units("stream", n) ELSE <<>>)
                  \o (IF more THEN <<>> ELSE <<Chunk(0)>>)
  /\ pc' = IF more THEN pc ELSE "done"
  /\ UNCHANGED <<req, calls>>

\* The handler or a write fails: the connection is dropped.
StreamFails ==
  /\ pc = "stream"
  /\ pc' = "dropped"
  /\ UNCHANGED <<req, resp, content, calls, wire>>
-----------------------------------------------------------------------------
(* What a client reads *)

NoBody(h) == req.head \/ h.result \in BodilessStatus

LastChunkIn(s) == SelectInSeq(s, LAMBDA u : u = Chunk(0))
Payload(s) ==
  LET kept[i \in 0 .. Len(s)] ==
        IF i = 0 THEN <<>>
        ELSE IF s[i].unit \in {"chunk", "end"} THEN kept[i - 1] ELSE Append(kept[i - 1], s[i])
  IN  kept[Len(s)]

\* The body, whether all of it is there, and what remains, of the message whose
\* header h comes before s.
ReadMessage(h, s) ==
  LET n == CASE NoBody(h)                                        -> 0
             [] ~NoBody(h) /\ h.chunked /\ req.version = 11      -> LastChunkIn(s)
             [] ~NoBody(h) /\ h.length # None                    -> h.length
             [] OTHER                                            -> Len(s)
  IN  [body     |-> Payload(SubSeq(s, 1, n)),
       complete |-> n <= Len(s) /\ (NoBody(h) \/ h.chunked \/ h.length # None \/ ~req.keep),
       rest     |-> SubSeq(s, n + 1, Len(s))]

\* The final message, after an interim one that must leave nothing before it.
Final ==
  LET first == ReadMessage(wire[1].at, Tail(wire))
  IN  IF ~req.expect THEN first
      ELSE ReadMessage(first.rest[1].at, Tail(first.rest))
-----------------------------------------------------------------------------
Next ==
  \/ \E s \in Statuses :
       \/ SetEmptyContent(s) \/ SetErrorContent(s) \/ SetStringContent(s) \/ SetRedirect(s)
       \/ SetJsonContent(s) \/ SetStreamContent(s)
  \/ SetFormDataContent
  \/ \E how \in FileOutcomes : SetFileContent(how)
  \/ WriteContinue \/ WriteResponse \/ WriteThrows
  \/ \E n \in 0 .. 1, more \in BOOLEAN : WriteChunk(n, more)
  \/ StreamFails
  \/ pc \in {"done", "thrown", "dropped"} /\ UNCHANGED vars

Spec == Init /\ [][Next]_vars
-----------------------------------------------------------------------------
(* Properties *)

\* The states each variable ranges over; a response is never both chunked and
\* of a known length.
TypeOK ==
  /\ req \in Requests /\ calls \in 0 .. MaxCalls
  /\ resp.result \in Statuses \cup {206, 416}
  /\ resp.chunked => resp.length = None
  /\ resp.stream \in (0 .. MaxChunks + 1) \cup {NoStream}
  /\ pc \in {"continue", "handling", "stream", "done", "thrown", "dropped"}

\* The responses that a client can take off the connection.  Excepted are: a
\* stream, whose header is followed by a last chunk before its own chunks; a
\* string, or the page of an error, set with a status that has no body, whose
\* bytes are written all the same; the last chunk behind a response that has no
\* body, a 100 response with an encoding included; chunks, or a length that is not
\* given on a connection that is kept, for HTTP/1.0; content that sets no length
\* after content that did.
Regular ==
  /\ content.by # "stream" \/ req.head
  /\ content.by \in {"string", "error"} /\ ~req.head => resp.result \notin BodilessStatus
  /\ resp.chunked => ~NoBody(resp) /\ req.version = 11
  /\ req.expect => Encoding = ""
  /\ req.version = 10 /\ req.keep => resp.length # None
  /\ content.by \in {"json", "form", "parts", "nofile"} => resp.length = None

\* Whatever was set before, in which order and by whom, the client reads the
\* content that was set last, all of it, and nothing of the response is left to
\* be taken for the next one.
ClientReadsTheContent ==
  pc = "done" /\ Regular =>
    /\ Final.complete
    /\ Final.rest = <<>>
    /\ Final.body = IF NoBody(resp) THEN <<>> ELSE content.body

\* async_write throws, and the request stays without an answer, only when JSON,
\* or a file that cannot be read, was set with a status that has no body.
ThrowsOnlyForStatus == pc = "thrown" => content.by \in {"json", "nofile"}
=============================================================================
