------------------------------- MODULE HttpTask -------------------------------
(* The request loop of a connection (session::http_task in                    *)
(* lib/server/session.cpp) with the routing calls it makes                    *)
(* (lib/server/router_impl.cpp), and a client that may send requests ahead    *)
(* and may wait for "100 Continue" before it sends a body.  A request is a    *)
(* header and some pieces of body on the wire; what the server has read ahead *)
(* is in buffer_, which the loop, the body parser and a response's stream     *)
(* handler share.                                                             *)
EXTENDS Integers, Sequences, SequencesExt

CONSTANTS
  MaxRequests,   \* how many requests the client sends
  MaxBody        \* the longest body, in pieces

Methods == {"get", "head", "post", "connect", "upgrade"}

\* What of a request matters here.  Only a post has a body.
Requests ==
  {r \in [method : Methods, body : 0 .. MaxBody, expect : BOOLEAN, keep : BOOLEAN] :
     /\ r.method # "post" => r.body = 0
     /\ r.expect => r.body > 0}

VARIABLES
  sent,      \* the requests whose header the client has sent
  unsent,    \* the pieces of the last one's body that it has not
  net,       \* what is on its way: pairs of a request's number and "header" or "body"
  buffer,    \* buffer_
  pc,        \* where then() is
  cur,       \* the number of the request it works on
  left,      \* the pieces of its body the parser has not seen
  keep,      \* resp.keep_alive()
  stream,    \* whether resp has a stream_handler_
  out,       \* what was sent back: pairs of a number and "continue" or "final"
  lost       \* why the connection's input is out of step, if it is: a set

vars == <<sent, unsent, net, buffer, pc, cur, left, keep, stream, out, lost>>
client   == <<sent, unsent>>
response == <<keep, stream>>

Init ==
  /\ sent = <<>> /\ unsent = 0
  /\ net = <<>> /\ buffer = <<>>
  /\ pc = "header"
  /\ cur = 0 /\ left = 0
  /\ keep = TRUE /\ stream = FALSE
  /\ out = <<>>
  /\ lost = {}

Request == sent[cur]
-----------------------------------------------------------------------------
(* The client *)

SendHeader(r) ==
  /\ Len(sent) < MaxRequests /\ unsent = 0
  /\ sent' = Append(sent, r)
  /\ unsent' = r.body
  /\ net' = Append(net, <<Len(sent) + 1, "header">>)
  /\ UNCHANGED <<buffer, pc, cur, left, response, out, lost>>

\* A client that asked to be told so waits before it sends the body; once it has
\* the final answer instead, it does not send it at all.
SendBody ==
  /\ unsent > 0
  /\ Last(sent).expect => <<Len(sent), "continue">> \in Range(out)
  /\ unsent' = unsent - 1
  /\ net' = Append(net, <<Len(sent), "body">>)
  /\ UNCHANGED <<sent, buffer, pc, cur, left, response, out, lost>>
-----------------------------------------------------------------------------
(* http_task::then *)

\* A read takes some of what is on its way, and reads nothing only if buffer_
\* has something.
Available == {n \in 0 .. Len(net) : n > 0 \/ buffer # <<>>}
Filled(n) == buffer \o SubSeq(net, 1, n)
Take(n) ==
  /\ buffer' = Tail(Filled(n))
  /\ net' = SubSeq(net, n + 1, Len(net))

\* A header, and what is made of it; a piece of a body in its place does not
\* parse.  The tasks for CONNECT and for an upgrade get the stream, but not
\* buffer_.
ReadHeader(n) ==
  /\ pc = "header" /\ n \in Available
  /\ Take(n)
  /\ LET token == Head(Filled(n))
         r     == sent[token[1]]
     IN  IF token[2] = "body"
           THEN pc' = "closed" /\ UNCHANGED <<cur, left, response>>
           ELSE /\ cur' = token[1]
                /\ left' = r.body
                /\ keep' = r.keep /\ stream' = FALSE
                /\ pc' = CASE r.method = "connect" -> "proxy"
                           [] r.method = "upgrade" -> "websocket"
                           [] OTHER                -> "pre_routing"
  /\ UNCHANGED <<client, out, lost>>

\* A refusal that leaves the connection open.
MutPreRoutingRefuses ==
  /\ pc = "pre_routing" /\ Request.method = "post"
  /\ pc' = "post_routing"
  /\ UNCHANGED <<client, net, buffer, cur, left, response, out, lost>>

\* No route for the method: the body is not read, so the connection must go.
PreRoutingRefuses ==
  /\ pc = "pre_routing" /\ Request.method = "post"
  /\ keep' = FALSE
  /\ pc' = "post_routing"
  /\ UNCHANGED <<client, net, buffer, cur, left, stream, out, lost>>

PreRoutingAccepts ==
  /\ pc = "pre_routing"
  /\ pc' = IF Request.expect THEN "continue" ELSE "body"
  /\ UNCHANGED <<client, net, buffer, cur, left, response, out, lost>>

\* std::regex_match may throw: a 500, on a connection whose body was not read
\* and that stays as it was.
PreRoutingThrows ==
  /\ pc = "pre_routing" /\ Request.method = "post"
  /\ pc' = "write"
  /\ lost' = lost \cup {c \in {"threw"} : keep /\ left > 0}
  /\ UNCHANGED <<client, net, buffer, cur, left, response, out>>

\* A server that reads on without sending the 100 response.
MutWriteContinueSkips ==
  /\ pc = "continue"
  /\ pc' = "body"
  /\ UNCHANGED <<client, net, buffer, cur, left, response, out, lost>>

\* A server that sends the response it is preparing in place of a new one.
MutWriteContinueFinal ==
  /\ pc = "continue"
  /\ out' = out \o <<<<cur, "continue">>, <<cur, "final">>>>
  /\ pc' = "body"
  /\ UNCHANGED <<client, net, buffer, cur, left, response, lost>>

WriteContinue ==
  /\ pc = "continue"
  /\ out' = Append(out, <<cur, "continue">>)
  /\ pc' = "body"
  /\ UNCHANGED <<client, net, buffer, cur, left, response, lost>>

\* A loop that tests for the end after it has read.
MutReadBody(n) ==
  /\ pc = "body" /\ n \in Available
  /\ Take(n)
  /\ left' = left - 1
  /\ pc' = IF left < 1 THEN "proc_routing" ELSE "body"
  /\ UNCHANGED <<client, cur, response, out, lost>>

\* One async_read_some: the body parser is not done.
ReadBody(n) ==
  /\ pc = "body" /\ left > 0 /\ n \in Available
  /\ Take(n)
  /\ left' = left - 1
  /\ UNCHANGED <<client, pc, cur, response, out, lost>>

BodyDone ==
  /\ pc = "body" /\ left = 0
  /\ pc' = "proc_routing"
  /\ UNCHANGED <<client, net, buffer, cur, left, response, out, lost>>

\* The handler, or the answer for want of one, and the handlers of
\* post_routing.  Each of them sets some content, the last of which counts; an
\* exception sets the content of a 500.
SetContent(s) ==
  /\ pc \in {"proc_routing", "post_routing"}
  /\ stream' = s
  /\ pc' = IF pc = "proc_routing" THEN "post_routing" ELSE "write"
  /\ UNCHANGED <<client, net, buffer, cur, left, keep, out, lost>>

HandlerThrows ==
  /\ pc \in {"proc_routing", "post_routing"}
  /\ stream' = FALSE
  /\ pc' = "write"
  /\ UNCHANGED <<client, net, buffer, cur, left, keep, out, lost>>
-----------------------------------------------------------------------------
(* http_task::async_write of the response, and what then() does after it *)

\* Keep-alive decides between the next request and the end.
AfterWrite == pc' = IF keep THEN "header" ELSE "closed"

\* The header and a body that is not streamed.  HEAD drops the stream handler.
WriteResponse ==
  /\ pc = "write"
  /\ out' = Append(out, <<cur, "final">>)
  /\ IF stream /\ Request.method # "head" THEN pc' = "stream" ELSE AfterWrite
  /\ UNCHANGED <<client, net, buffer, cur, left, response, lost>>

\* The stream handler adds to buffer_, and all of buffer_ goes out as a chunk,
\* with what was read ahead of the client's next request.
WriteChunk ==
  /\ pc = "stream"
  /\ buffer' = <<>>
  /\ lost' = lost \cup {c \in {"stream"} : buffer # <<>>}
  /\ UNCHANGED pc \/ AfterWrite
  /\ UNCHANGED <<client, net, cur, left, response, out>>

\* Any read or write may fail or time out, or meet a stream that abort() closed.
Fails ==
  /\ pc \in {"header", "continue", "body", "write", "stream"}
  /\ pc' = "closed"
  /\ UNCHANGED <<client, net, buffer, cur, left, response, out, lost>>
-----------------------------------------------------------------------------
Server ==
  \/ \E n \in 0 .. Len(net) : ReadHeader(n) \/ ReadBody(n)
  \/ PreRoutingRefuses \/ PreRoutingAccepts \/ PreRoutingThrows
  \/ WriteContinue \/ BodyDone
  \/ (\E s \in BOOLEAN : SetContent(s)) \/ HandlerThrows
  \/ WriteResponse \/ WriteChunk

Next ==
  \/ \E r \in Requests : SendHeader(r)
  \/ SendBody
  \/ Server \/ Fails

Spec == Init /\ [][Next]_vars
-----------------------------------------------------------------------------
(* Properties *)

Ended == {"closed", "proxy", "websocket"}

\* The states each variable ranges over.
TypeOK ==
  /\ sent \in Seq(Requests) /\ unsent \in 0 .. MaxBody
  /\ net \in Seq((1 .. MaxRequests) \X {"header", "body"})
  /\ buffer \in Seq((1 .. MaxRequests) \X {"header", "body"})
  /\ pc \in {"header", "pre_routing", "continue", "body", "proc_routing",
             "post_routing", "write", "stream"} \cup Ended
  /\ cur \in 0 .. Len(sent) /\ left \in 0 .. MaxBody
  /\ keep \in BOOLEAN /\ stream \in BOOLEAN
  /\ out \in Seq((1 .. MaxRequests) \X {"continue", "final"})
  /\ lost \subseteq {"threw", "stream"}

\* Where the server looks for a header there is one: what has been read, refused
\* or answered leaves no piece of a body behind.  The two exceptions are an
\* exception in pre_routing and a stream handler that met pipelined input.
InStep ==
  pc = "header" /\ lost = {} /\ buffer \o net # <<>> => Head(buffer \o net)[2] = "header"

\* The requests are answered in the order in which they were sent, each once and
\* none left out, and what is asked to continue has not been answered yet.
AnsweredInOrder ==
  "stream" \notin lost =>
    /\ \A i, j \in DOMAIN out :
         i < j /\ out[i][2] = "final" /\ out[j][2] = "final" => out[i][1] < out[j][1]
    /\ \A i \in DOMAIN out :
         \A k \in 1 .. out[i][1] - 1 : \E j \in 1 .. i - 1 : out[j] = <<k, "final">>
    /\ \A i, j \in DOMAIN out :
         out[i][2] = "continue" /\ out[j] = <<out[i][1], "final">> => i < j
=============================================================================
