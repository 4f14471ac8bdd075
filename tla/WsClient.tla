------------------------------- MODULE WsClient -------------------------------
(* The websocket client (lib/client/ws_client_impl.cpp): async_run connects,  *)
(* calls the handlers and reads; send() and close() push work to an           *)
(* action_queue, which is a SerialExecutor that nobody shuts down.  A client  *)
(* may be run again when its connection is over: the queue, buffer_ and what  *)
(* close() is still doing outlive a connection.                               *)
EXTENDS Naturals, Sequences, SequencesExt

CONSTANTS
  Frames,     \* what send() is called with, each once
  Closes,     \* the calls of close()
  MaxIn,      \* how many messages the server sends on a connection
  MaxRuns     \* how many calls of async_run

VARIABLES
  pc,         \* where the coroutine of async_run is
  runs,       \* the calls of async_run so far
  conn,       \* the state of stream_
  pending,    \* que_ of ac_que_
  active,     \* the action that is executed
  submitted,  \* what was pushed
  order,      \* the same, in the order of the pushes
  cleared,    \* the calls of close() that have cleared the queue but not pushed
  began,      \* the run whose connection that action works on, or 0 for none
  excused,    \* the frames that met no connection, or the clear of a close()
  buffer,     \* buffer_: the messages in it
  events,     \* the handlers this run has called, with what they were given
  threw,      \* whether one of them threw
  wire,       \* what was sent on this connection
  inbox,      \* what the server has sent on it: numbers, and 0 for a close
  peer        \* "up" or "lost"

queue   == <<pending, active, submitted>>
history == <<order, excused>>
link    == <<wire, inbox, peer>>
run     == <<pc, runs, events, threw, buffer>>
vars    == <<run, conn, queue, history, cleared, began, link>>

Q == INSTANCE SerialExecutor WITH Handlers <- Frames \cup Closes

Init ==
  /\ pc = "idle" /\ runs = 0 /\ conn = "none"
  /\ Q!Init
  /\ order = <<>> /\ excused = {} /\ cleared = {} /\ began = 0
  /\ buffer = <<>> /\ events = <<>> /\ threw = FALSE
  /\ wire = <<>> /\ inbox = <<>> /\ peer = "up"
-----------------------------------------------------------------------------
(* send and close *)

Send(f) ==
  /\ f \in Frames
  /\ Q!Submit(f)
  /\ order' = Append(order, f)
  /\ UNCHANGED <<run, conn, excused, cleared, began, link>>

\* close() drops what has not begun, and pushes itself after that.
CloseClears(c) ==
  /\ c \in Closes \ (submitted \cup cleared)
  /\ Q!Discard
  /\ excused' = excused \cup Range(pending)
  /\ cleared' = cleared \cup {c}
  /\ UNCHANGED <<run, conn, order, began, link>>

\* A close() that drops what was pushed since it cleared the queue.
MutClosePushes(c) ==
  /\ c \in cleared
  /\ cleared' = cleared \ {c}
  /\ submitted' = submitted \cup {c} /\ pending' = <<c>> /\ UNCHANGED active
  /\ order' = Append(order, c)
  /\ UNCHANGED <<run, conn, excused, began, link>>

ClosePushes(c) ==
  /\ c \in cleared
  /\ cleared' = cleared \ {c}
  /\ Q!Submit(c)
  /\ order' = Append(order, c)
  /\ UNCHANGED <<run, conn, excused, began, link>>

\* A queue that executes what came last.
MutBegin ==
  /\ pending # <<>> /\ active = {}
  /\ active' = {Last(pending)} /\ pending' = Front(pending)
  /\ began' = IF conn = "open" THEN runs ELSE 0
  /\ excused' = IF conn = "open" THEN excused ELSE excused \cup active'
  /\ UNCHANGED <<run, conn, submitted, order, cleared, link>>

\* A queue that spawns the actions instead of awaiting them.
MutBeginAtOnce ==
  /\ pending # <<>>
  /\ active' = active \cup {Head(pending)} /\ pending' = Tail(pending)
  /\ UNCHANGED <<run, conn, submitted, history, cleared, began, link>>

\* async_send or async_close begins; neither does anything without a connection.
Begin ==
  /\ Q!Begin
  /\ began' = IF conn = "open" THEN runs ELSE 0
  /\ excused' = IF conn = "open" THEN excused ELSE excused \cup {Head(pending)}
  /\ IF Head(pending) \in Closes /\ conn = "open"
       THEN conn' = "closing" /\ wire' = Append(wire, Head(pending))
       ELSE UNCHANGED <<conn, wire>>
  /\ UNCHANGED <<run, order, cleared, inbox, peer>>

\* The connection an action works on is still the one of stream_.
Current == began = runs /\ runs > 0

WriteDone(a) ==
  /\ a \in active \cap Frames /\ Current /\ conn = "open"
  /\ wire' = Append(wire, a)
  /\ Q!End(a)
  /\ UNCHANGED <<run, conn, history, cleared, began, inbox, peer>>

\* not_connected, or an error of the connection: logged and forgotten.
SendFails(a) ==
  /\ a \in active \cap Frames
  /\ ~Current \/ conn # "open" \/ peer = "lost"
  /\ conn' = IF Current THEN "closed" ELSE conn
  /\ Q!End(a)
  /\ UNCHANGED <<run, history, cleared, began, link>>

\* A close that leaves the socket to the server's answer.
MutCloseDone(a) ==
  /\ a \in active \cap Closes
  /\ Q!End(a)
  /\ UNCHANGED <<run, conn, history, cleared, began, link>>

\* The reply or five seconds: ec is an error either way, that of the one that was
\* cancelled, and so the socket is closed.  It is that of the stream_ there is by
\* now, which may be the next connection.
CloseDone(a) ==
  /\ a \in active \cap Closes
  /\ conn' = IF began = 0 THEN conn ELSE "closed"
  /\ Q!End(a)
  /\ UNCHANGED <<run, history, cleared, began, link>>
-----------------------------------------------------------------------------
(* async_run *)

Run ==
  /\ pc = "idle" /\ runs < MaxRuns /\ conn \in {"none", "closed"}
  /\ runs' = runs + 1 /\ pc' = "connect"
  /\ events' = <<>> /\ threw' = FALSE
  /\ UNCHANGED <<buffer, conn, queue, history, cleared, began, link>>

\* The open handler is told of the error, and that is all.
ConnectFails ==
  /\ pc \in {"connect", "handshake"}
  /\ conn' = IF pc = "handshake" THEN "closed" ELSE conn
  /\ events' = <<<<"failed", <<>>>>>>
  /\ pc' = "idle"
  /\ UNCHANGED <<runs, threw, buffer, queue, history, cleared, began, link>>

\* Resolved and connected: stream_ is the new one, which is not open before the
\* handshake.
Connected ==
  /\ pc = "connect"
  /\ conn' = "handshake"
  /\ wire' = <<>> /\ inbox' = <<>> /\ peer' = "up"
  /\ pc' = "handshake"
  /\ UNCHANGED <<runs, events, threw, buffer, queue, history, cleared, began>>

Handshake ==
  /\ pc = "handshake" /\ conn = "handshake"
  /\ conn' = "open"
  /\ events' = <<<<"open", <<>>>>>>
  /\ pc' = "open_handler"
  /\ UNCHANGED <<runs, threw, buffer, queue, history, cleared, began, link>>

HandlerReturns ==
  /\ pc \in {"open_handler", "message"}
  /\ pc' = "loop"
  /\ UNCHANGED <<runs, events, threw, buffer, conn, queue, history, cleared, began, link>>

\* An exception, or the call of an open handler that was not set, ends the
\* coroutine; the connection stays open with nobody to read from it.
HandlerThrows ==
  /\ pc \in {"open_handler", "message"}
  /\ threw' = TRUE
  /\ pc' = "idle"
  /\ UNCHANGED <<runs, events, buffer, conn, queue, history, cleared, began, link>>

\* A read that keeps what is in buffer_.
MutLoop ==
  /\ pc = "loop"
  /\ pc' = IF conn = "open" THEN "read" ELSE "close_handler"
  /\ UNCHANGED <<runs, events, threw, buffer, conn, queue, history, cleared, began, link>>

\* while (is_open()), and the consume of the last message.
Loop ==
  /\ pc = "loop"
  /\ IF conn = "open"
       THEN pc' = "read" /\ buffer' = <<>>
       ELSE pc' = "close_handler" /\ UNCHANGED buffer
  /\ UNCHANGED <<runs, events, threw, conn, queue, history, cleared, began, link>>

ReadMessage ==
  /\ pc = "read" /\ conn \in {"open", "closing"}
  /\ inbox # <<>> /\ Head(inbox) # 0
  /\ inbox' = Tail(inbox)
  /\ buffer' = Append(buffer, Head(inbox))
  /\ events' = Append(events, <<"message", buffer'>>)
  /\ pc' = "message"
  /\ UNCHANGED <<runs, threw, conn, queue, history, cleared, began, wire, peer>>


\* The server closed, and is answered unless it answers; or the connection is gone.
ReadFails ==
  /\ pc = "read"
  /\ \/ /\ inbox # <<>> /\ Head(inbox) = 0 /\ conn \in {"open", "closing"}
        /\ ~(Current /\ active \cap Frames # {})
        /\ inbox' = Tail(inbox)
        /\ wire' = IF conn = "open" THEN Append(wire, "close") ELSE wire
     \/ (conn = "closed" \/ peer = "lost") /\ UNCHANGED <<inbox, wire>>
  /\ conn' = "closed"
  /\ pc' = "close_handler"
  /\ UNCHANGED <<runs, events, threw, buffer, queue, history, cleared, began, peer>>

CloseHandler ==
  /\ pc = "close_handler"
  /\ events' = Append(events, <<"close", <<>>>>)
  /\ pc' = "idle"
  /\ UNCHANGED <<runs, threw, buffer, conn, queue, history, cleared, began, link>>
-----------------------------------------------------------------------------
(* The server *)

\* The messages of this connection that were read: all that the handlers were
\* called with but the open and, if it was called, the close handler's.
Closed  == events # <<>> /\ Last(events)[1] = "close"
Arrived == Len(events) - IF Closed THEN 2 ELSE 1
Talks == peer = "up" /\ conn \in {"open", "closing"} /\ 0 \notin Range(inbox)

ServerSends ==
  /\ Talks /\ Arrived + Len(inbox) < MaxIn
  /\ inbox' = Append(inbox, Arrived + Len(inbox) + 1)
  /\ UNCHANGED <<run, conn, queue, history, cleared, began, wire, peer>>

ServerCloses ==
  /\ Talks
  /\ inbox' = Append(inbox, 0)
  /\ UNCHANGED <<run, conn, queue, history, cleared, began, wire, peer>>

ServerLost ==
  /\ peer = "up" /\ conn \in {"open", "closing"}
  /\ peer' = "lost"
  /\ UNCHANGED <<run, conn, queue, history, cleared, began, wire, inbox>>
-----------------------------------------------------------------------------
Running ==
  \/ ConnectFails \/ Connected \/ Handshake \/ HandlerReturns \/ Loop
  \/ ReadMessage \/ ReadFails \/ CloseHandler

Next ==
  \/ \E a \in Frames \cup Closes :
       Send(a) \/ CloseClears(a) \/ ClosePushes(a) \/ WriteDone(a) \/ SendFails(a) \/ CloseDone(a)
  \/ Begin
  \/ Run \/ Running \/ HandlerThrows
  \/ ServerSends \/ ServerCloses \/ ServerLost

Spec == Init /\ [][Next]_vars
-----------------------------------------------------------------------------
(* Properties *)

\* The states each variable ranges over.
TypeOK ==
  /\ pc \in {"idle", "connect", "handshake", "open_handler", "loop", "read", "message",
             "close_handler"}
  /\ runs \in 0 .. MaxRuns /\ began \in 0 .. runs
  /\ conn \in {"none", "handshake", "open", "closing", "closed"}
  /\ pending \in Seq(Frames \cup Closes)
  /\ active \subseteq Frames \cup Closes /\ \A a, b \in active : a = b
  /\ submitted \subseteq Frames \cup Closes /\ cleared \subseteq Closes
  /\ buffer \in Seq(1 .. MaxIn) /\ inbox \in Seq(0 .. MaxIn)
  /\ Range(wire) \subseteq Frames \cup Closes \cup {"close"}
  /\ threw \in BOOLEAN /\ peer \in {"up", "lost"}

\* x was pushed before y.
Before(x, y) == \E i, j \in DOMAIN order : i < j /\ order[i] = x /\ order[j] = y

\* On a connection the frames are sent in the order of the calls of send(), each
\* once, and a close frame is the last.
FramesInOrder ==
  /\ \A i \in 1 .. Len(wire) - 1 : wire[i] \in Frames
  /\ \A i, j \in DOMAIN wire :
       i < j /\ wire[j] # "close" => Before(wire[i], wire[j])

\* A frame is lost only without a connection, with one that ends, or to close().
Lost == (submitted \cap Frames) \ (Range(wire) \cup Range(pending) \cup active \cup excused)
NothingLost == runs = 1 /\ Lost # {} => conn \in {"closing", "closed"}

\* A run calls the open handler first and once; if it is told of an error that is
\* the end; then the messages follow, whole, once and in order, and the close
\* handler is the last, which a run that has ended has called unless one threw.
HandlersInOrder ==
  /\ \A i \in DOMAIN events :
       /\ (events[i][1] \in {"open", "failed"}) <=> (i = 1)
       /\ events[i][1] \in {"close", "failed"} => i = Len(events)
       /\ events[i][1] = "message" => events[i][2] = <<i - 1>>
  /\ pc = "idle" /\ runs > 0 /\ ~threw => Last(events)[1] \in {"close", "failed"}
=============================================================================
