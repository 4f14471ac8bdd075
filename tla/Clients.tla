-------------------------------- MODULE Clients --------------------------------
(* The two clients of lib/client, an http_client or a ws_client, whichever    *)
(* the program has made.  The variables of the other keep their initial       *)
(* values.                                                                    *)
EXTENDS Naturals, Sequences

CONSTANTS
  Policies, MaxCalls, MaxBody,        \* of HttpClient
  Frames, Closes, MaxIn, MaxRuns      \* of WsClient

ASSUME ClientsAssumption ==
  /\ Policies \subseteq {"step", "overall", "never"}
  /\ MaxCalls \in Nat /\ MaxBody \in Nat /\ MaxIn \in Nat /\ MaxRuns \in Nat
  /\ Frames \cap Closes = {} /\ "close" \notin Frames \cup Closes

VARIABLES
  client,     \* "http" or "websocket"
  \* the http client
  policy, literal, handler, calls, method, pc, ec, retry, attempt, fresh, stream, armed, buffer,
  stale, keep, own, need, chunks, sends, closedAt, result, peer, todo, wire,
  \* the websocket client
  run, runs, conn, pending, active, submitted, order, cleared, began, excused, message, events,
  threw, frames, inbox, server

httpVars ==
  <<policy, literal, handler, calls, method, pc, ec, retry, attempt, fresh, stream, armed,
    buffer, stale, keep, own, need, chunks, sends, closedAt, result, peer, todo, wire>>
wsVars ==
  <<run, runs, conn, pending, active, submitted, order, cleared, began, excused, message,
    events, threw, frames, inbox, server>>
vars == <<client, httpVars, wsVars>>

H == INSTANCE HttpClient
W == INSTANCE WsClient WITH pc <- run, buffer <- message, wire <- frames, peer <- server

Init ==
  /\ client \in {"http", "websocket"}
  /\ H!Init /\ W!Init
  /\ client = "websocket" => literal /\ policy = "step"

InHttp(A) == client = "http" /\ A /\ UNCHANGED <<client, wsVars>>
InWs(A)   == client = "websocket" /\ A /\ UNCHANGED <<client, httpVars>>

Next == InHttp(H!Next) \/ InWs(W!Next)

Spec == Init /\ [][Next]_vars

\* An http client goes on with what it can do, a resolver answers, a close() that
\* has begun closes the socket, and a deadline that is set passes.  Of a websocket
\* client, the executor runs what is ready, connecting ends one way or the other, an
\* operation on a broken connection fails, and the timer of async_close passes.  Of
\* the servers nothing is assumed.
FairSpec ==
  /\ Spec
  /\ WF_vars(InHttp(H!NewStream \/ H!Resolve \/ H!StartConnect \/ H!Aborted \/ H!Catch))
  /\ WF_vars(InHttp(\E n \in 0 .. Len(wire) : H!Read(n)))
  /\ WF_vars(InHttp(H!CloseSocket)) /\ WF_vars(InHttp(H!Timeout))
  /\ WF_vars(InWs(W!Running)) /\ WF_vars(InWs(W!Begin))
  /\ \A a \in Frames \cup Closes :
       /\ WF_vars(InWs(W!ClosePushes(a))) /\ WF_vars(InWs(W!SendFails(a)))
       /\ WF_vars(InWs(W!CloseDone(a)))
-----------------------------------------------------------------------------
(* Properties *)

\* The states each variable ranges over.
TypeOK == client \in {"http", "websocket"} /\ H!TypeOK /\ W!TypeOK

\* A request is sent twice at the most, what the server sends is parsed, and what
\* a call and its chunk_handler_ are given is the answer to it (see HttpClient).
AnswersAreOwn ==
  H!SentAtMostTwice /\ H!ParsesWhatArrives /\ H!OwnAnswer /\ H!HandlerGetsTheBody

\* close() during a request stops it, whatever the server does, with the exceptions
\* of two moments and of one race with the pending operation (see HttpClient).
CloseSticks == [][H!CloseHolds]_vars

\* The frames of a websocket client go out in order and none is lost without a
\* reason, and its handlers are called in theirs, in a first run and in a second
\* one that finds what the first has left (see WsClient).
ClientFramesInOrder == W!FramesInOrder /\ W!NothingLost /\ W!HandlersInOrder

\* What the clients owe: a request ends if a deadline bounds it, and a run of a
\* websocket client whose connection is over, or that close() is closing, ends.
RequestOver == H!Bounded => pc = "idle"
RunOver == server = "lost" \/ conn \in {"closing", "closed"} => run \in {"idle", "connect"}

=============================================================================
