---------------------------- MODULE WebsocketConn ----------------------------
(* A websocket connection of the server (lib/server/websocket_conn_impl.cpp): *)
(* run() accepts the upgrade, calls the handlers and reads; send_message,     *)
(* send_ping and close push work to an action_queue from any thread.  The     *)
(* queue is the one SerialExecutor specifies, with what its shutdown adds     *)
(* (see ActionQueue).  The peer may send, close, vanish, or stop reading.     *)
EXTENDS Naturals, Sequences, SequencesExt

CONSTANTS
  Frames,     \* the messages and pings that are sent, each once
  Closes,     \* the calls of close()
  MaxIn       \* how many messages the peer sends

VARIABLES
  threads,     \* how many threads run the executor: it does not change
  pc,          \* where run() is
  ws,          \* the state of ws_
  pending,     \* que_
  active,      \* the action perform() executes
  submitted,   \* what was pushed
  order,       \* the same, in the order of the pushes
  passed,      \* the calls that found ws_ open and have not pushed yet
  performing,  \* running_
  shutdowning, \* shutdowning_
  cancelled,   \* whether the running perform() was cancelled
  signalled,   \* whether the timer of the shutdown has been set and cancelled
  buffer,      \* buffer_: the messages in it
  events,      \* the handlers that were called, with what they were given
  wire,        \* what was sent: actions, or "close" in answer to a close
  inbox,       \* what the peer has sent: numbers, or "close"
  peer         \* "up" or "lost"

queue   == <<pending, active, submitted>>
perform == <<performing, cancelled>>
stop    == <<shutdowning, signalled>>
vars    == <<threads, pc, ws, queue, order, passed, perform, stop, buffer, events, wire, inbox, peer>>

Q == INSTANCE SerialExecutor WITH Handlers <- Frames \cup Closes

Init ==
  /\ pc = "accept" /\ ws = "handshake"
  /\ Q!Init
  /\ passed = {} /\ order = <<>>
  /\ performing = FALSE /\ shutdowning = FALSE /\ cancelled = FALSE /\ signalled = FALSE
  /\ buffer = <<>> /\ events = <<>> /\ wire = <<>> /\ inbox = <<>>
  /\ peer = "up"

\* Something still holds the connection: run(), or an action in the queue.
Alive == pc # "ended" \/ active # {} \/ pending # <<>>

\* On one thread run() goes from the clear of the queue to its wait at one go.
Worker == threads > 1 \/ pc \notin {"shutdown", "wait"}
-----------------------------------------------------------------------------
(* send_message, send_ping and close *)

\* The test of ws_.is_open(), by whoever has a connection from a handler.
Test(a) ==
  /\ ws = "open" /\ a \notin submitted \cup passed /\ events # <<>> /\ Alive
  /\ passed' = passed \cup {a}
  /\ UNCHANGED <<pc, ws, queue, order, perform, stop, buffer, events, wire, inbox, peer>>

\* A close() that clears the queue first, as the client's does.
MutPush(a) ==
  /\ a \in passed
  /\ passed' = passed \ {a}
  /\ a \notin submitted /\ submitted' = submitted \cup {a} /\ UNCHANGED active
  /\ pending' = IF a \in Closes THEN <<a>> ELSE Append(pending, a)
  /\ order' = Append(order, a)
  /\ performing' = TRUE
  /\ cancelled' = (cancelled /\ performing)
  /\ UNCHANGED <<pc, ws, stop, buffer, events, wire, inbox, peer>>

\* ac_que_.push, whose own test of shutdowning_ may be as old as the other one;
\* a new perform() is spawned if none runs.
Push(a) ==
  /\ a \in passed
  /\ passed' = passed \ {a}
  /\ Q!Submit(a)
  /\ order' = Append(order, a)
  /\ performing' = TRUE
  /\ cancelled' = (cancelled /\ performing)
  /\ UNCHANGED <<pc, ws, stop, buffer, events, wire, inbox, peer>>

PushRefused(a) ==
  /\ a \in passed /\ shutdowning
  /\ passed' = passed \ {a}
  /\ UNCHANGED <<pc, ws, queue, order, perform, stop, buffer, events, wire, inbox, peer>>
-----------------------------------------------------------------------------
(* perform *)

\* A perform() that spawns the actions instead of awaiting them.
MutBegin ==
  /\ Worker /\ performing /\ ~cancelled
  /\ pending # <<>>
  /\ active' = active \cup {Head(pending)} /\ pending' = Tail(pending)
  /\ UNCHANGED <<pc, ws, submitted, order, passed, perform, stop, buffer, events, wire, inbox, peer>>

\* A frame is about to be written, or close() sends its close frame and waits.
Begin ==
  /\ Worker /\ performing /\ ~cancelled
  /\ Q!Begin
  /\ IF Head(pending) \in Closes /\ ws = "open"
       THEN ws' = "closing" /\ wire' = Append(wire, Head(pending))
       ELSE UNCHANGED <<ws, wire>>
  /\ UNCHANGED <<pc, order, passed, perform, stop, buffer, events, inbox, peer>>

\* A write that goes on with what is in the queue before it is done.
MutWriteDone(a) ==
  /\ Worker /\ a \in active \cap Frames /\ ws = "open"
  /\ pending # <<>> /\ Head(pending) \in Frames
  /\ wire' = wire \o <<Head(pending), a>>
  /\ active' = {} /\ pending' = Tail(pending)
  /\ UNCHANGED <<pc, ws, submitted, order, passed, perform, stop, buffer, events, inbox, peer>>

\* The frame is written.
WriteDone(a) ==
  /\ Worker /\ a \in active \cap Frames /\ ws = "open"
  /\ wire' = Append(wire, a)
  /\ Q!End(a)
  /\ UNCHANGED <<pc, ws, order, passed, perform, stop, buffer, events, inbox, peer>>

\* The frame is not: the error is dropped and the next one tried.
WriteFails(a) ==
  /\ Worker /\ a \in active \cap Frames
  /\ peer = "lost" \/ ws # "open"
  /\ ws' = "closed"
  /\ Q!End(a)
  /\ UNCHANGED <<pc, order, passed, perform, stop, buffer, events, wire, inbox, peer>>

\* A close that leaves the socket to the peer's answer.
MutCloseDone(a) ==
  /\ Worker /\ a \in active \cap Closes
  /\ Q!End(a)
  /\ UNCHANGED <<pc, ws, order, passed, perform, stop, buffer, events, wire, inbox, peer>>

\* The close that waits for its reply for five seconds at the most, and closes
\* the socket in any case.
CloseDone(a) ==
  /\ Worker /\ a \in active \cap Closes
  /\ ws' = "closed"
  /\ Q!End(a)
  /\ UNCHANGED <<pc, order, passed, perform, stop, buffer, events, wire, inbox, peer>>

\* The end of the loop, with the signal to a shutdown.
PerformExit ==
  /\ Worker /\ performing /\ active = {} /\ (pending = <<>> \/ cancelled)
  /\ performing' = FALSE
  /\ signalled' = (signalled \/ shutdowning)
  /\ UNCHANGED <<pc, ws, queue, order, passed, cancelled, shutdowning, buffer, events, wire, inbox,
                 peer>>

\* The cancelled action throws, and perform() with it: running_ stays set.
PerformThrows(a) ==
  /\ Worker /\ cancelled /\ a \in active
  /\ Q!End(a)
  /\ UNCHANGED <<pc, ws, order, passed, perform, stop, buffer, events, wire, inbox, peer>>
-----------------------------------------------------------------------------
(* run *)

\* The handshake; a route without handlers ends run() before it.
Accept ==
  /\ pc = "accept"
  /\ \/ pc' = "open_handler" /\ ws' = "open" /\ events' = <<<<"open", <<>>>>>>
     \/ pc' = "ended" /\ ws' = "closed" /\ UNCHANGED events
  /\ UNCHANGED <<queue, order, passed, perform, stop, buffer, wire, inbox, peer>>

OpenHandlerReturns ==
  /\ pc = "open_handler"
  /\ pc' = "read"
  /\ UNCHANGED <<ws, queue, order, passed, perform, stop, buffer, events, wire, inbox, peer>>

\* run() ends without a close handler and without a shutdown of the queue.
OpenHandlerThrows ==
  /\ pc = "open_handler"
  /\ pc' = "ended"
  /\ UNCHANGED <<ws, queue, order, passed, perform, stop, buffer, events, wire, inbox, peer>>

\* A message, and the call of the handler with what is in buffer_.
ReadMessage ==
  /\ pc = "read" /\ ws \in {"open", "closing"}
  /\ inbox # <<>> /\ Head(inbox) # 0
  /\ inbox' = Tail(inbox)
  /\ buffer' = Append(buffer, Head(inbox))
  /\ events' = Append(events, <<"message", buffer'>>)
  /\ pc' = "message"
  /\ UNCHANGED <<ws, queue, order, passed, perform, stop, wire, peer>>

\* A handler that throws leaves the message in buffer_.
MutMessageHandled ==
  /\ pc = "message"
  /\ buffer' = <<>> \/ UNCHANGED buffer
  /\ pc' = "read"
  /\ UNCHANGED <<ws, queue, order, passed, perform, stop, events, wire, inbox, peer>>

\* A handler that throws ends run() like a read that fails.
MutMessageHandledEnds ==
  /\ pc = "message"
  /\ buffer' = <<>>
  /\ pc' \in {"read", "clear"}
  /\ UNCHANGED <<ws, queue, order, passed, perform, stop, events, wire, inbox, peer>>

\* The handler returned, or it threw and that was caught.
MessageHandled ==
  /\ pc = "message"
  /\ buffer' = <<>>
  /\ pc' = "read"
  /\ UNCHANGED <<ws, queue, order, passed, perform, stop, events, wire, inbox, peer>>

\* The peer closed, and is answered unless it answers itself; the socket was
\* closed; or the peer is gone.  An answer waits for the frame in progress.
ReadFails ==
  /\ pc = "read"
  /\ \/ /\ inbox # <<>> /\ Head(inbox) = 0 /\ ws \in {"open", "closing"}
        /\ active \cap Frames = {}
        /\ inbox' = Tail(inbox)
        /\ wire' = IF ws = "open" THEN Append(wire, "close") ELSE wire
     \/ (ws = "closed" \/ peer = "lost") /\ UNCHANGED <<inbox, wire>>
  /\ ws' = "closed"
  /\ pc' = "clear"
  /\ UNCHANGED <<queue, order, passed, perform, stop, buffer, events, peer>>

Clear ==
  /\ pc = "clear"
  /\ Q!Discard
  /\ pc' = "shutdown"
  /\ UNCHANGED <<ws, order, passed, perform, stop, buffer, events, wire, inbox, peer>>

\* async_shutdown: the flag, and the signal to the perform() that runs.
Shutdown ==
  /\ pc = "shutdown"
  /\ shutdowning' = TRUE
  /\ cancelled' = performing
  /\ pc' = "wait"
  /\ UNCHANGED <<ws, queue, order, passed, performing, signalled, buffer, events, wire, inbox, peer>>

\* A wait on a timer that only the signal of perform() ends.
MutWait ==
  /\ pc = "wait" /\ signalled
  /\ events' = Append(events, <<"close", <<>>>>)
  /\ pc' = "close_handler"
  /\ UNCHANGED <<ws, queue, order, passed, perform, stop, buffer, wire, inbox, peer>>

\* Its wait on a timer that was never set ends at once.  It never ends if a
\* perform() on another thread has set and cancelled the timer in between.
Wait ==
  /\ pc = "wait" /\ ~signalled
  /\ events' = Append(events, <<"close", <<>>>>)
  /\ pc' = "close_handler"
  /\ UNCHANGED <<ws, queue, order, passed, perform, stop, buffer, wire, inbox, peer>>

CloseHandlerReturns ==
  /\ pc = "close_handler"
  /\ pc' = "ended"
  /\ UNCHANGED <<ws, queue, order, passed, perform, stop, buffer, events, wire, inbox, peer>>

\* Nobody holds the connection: its destructor closes the socket.
Destroy ==
  /\ ~Alive /\ ws # "closed"
  /\ ws' = "closed"
  /\ UNCHANGED <<pc, queue, order, passed, perform, stop, buffer, events, wire, inbox, peer>>
-----------------------------------------------------------------------------
(* The peer *)

\* The close handler has been called, and is the last.
Closed == events # <<>> /\ Last(events)[1] = "close"

\* The messages that were handled: all the calls but that of the open handler,
\* and that of the close handler.
Arrived == Len(events) - IF Closed THEN 2 ELSE 1

PeerSends ==
  /\ peer = "up" /\ events # <<>> /\ 0 \notin Range(inbox)
  /\ Arrived + Len(inbox) < MaxIn
  /\ inbox' = Append(inbox, Arrived + Len(inbox) + 1)
  /\ UNCHANGED <<pc, ws, queue, order, passed, perform, stop, buffer, events, wire, peer>>

\* A close frame, on its own or in answer to one.
PeerCloses ==
  /\ peer = "up" /\ events # <<>> /\ 0 \notin Range(inbox)
  /\ inbox' = Append(inbox, 0)
  /\ UNCHANGED <<pc, ws, queue, order, passed, perform, stop, buffer, events, wire, peer>>

PeerLost ==
  /\ peer = "up"
  /\ peer' = "lost"
  /\ UNCHANGED <<pc, ws, queue, order, passed, perform, stop, buffer, events, wire, inbox>>
-----------------------------------------------------------------------------
Run ==
  \/ Accept \/ OpenHandlerReturns \/ OpenHandlerThrows \/ MessageHandled
  \/ ReadMessage \/ ReadFails \/ Clear \/ Shutdown \/ Wait \/ CloseHandlerReturns

Perform(a) == WriteDone(a) \/ WriteFails(a) \/ CloseDone(a) \/ PerformThrows(a)

Next ==
  /\ \/ \E a \in Frames \cup Closes : Test(a) \/ Push(a) \/ PushRefused(a) \/ Perform(a)
     \/ Begin \/ PerformExit
     \/ Run \/ Destroy
     \/ PeerSends \/ PeerCloses \/ PeerLost
  /\ UNCHANGED threads

Spec == Init /\ [][Next]_vars
-----------------------------------------------------------------------------
(* Properties *)

\* The states each variable ranges over.
TypeOK ==
  /\ pc \in {"accept", "open_handler", "read", "message", "clear", "shutdown", "wait",
             "close_handler", "ended"}
  /\ ws \in {"handshake", "open", "closing", "closed"}
  /\ pending \in Seq(Frames \cup Closes)
  /\ active \subseteq Frames \cup Closes /\ \A a, b \in active : a = b
  /\ submitted \subseteq Frames \cup Closes /\ passed \subseteq Frames \cup Closes
  /\ performing \in BOOLEAN /\ cancelled \in BOOLEAN
  /\ shutdowning \in BOOLEAN /\ signalled \in BOOLEAN
  /\ buffer \in Seq(1 .. MaxIn) /\ inbox \in Seq(0 .. MaxIn)
  /\ Range(wire) \subseteq Frames \cup Closes \cup {"close"}
  /\ peer \in {"up", "lost"}

\* The push of x came before that of y.
Before(x, y) == \E i, j \in DOMAIN order : i < j /\ order[i] = x /\ order[j] = y

\* The frames go out in the order in which they were pushed, each once; a close
\* frame, sent or answered, is the last of all.
FramesInOrder ==
  /\ \A i \in 1 .. Len(wire) - 1 : wire[i] \in Frames
  /\ \A i, j \in DOMAIN wire :
       i < j /\ wire[j] # "close" => Before(wire[i], wire[j])

\* The handlers are called as the interface says: open first, then every message
\* of the peer, whole, once and in order, then close, once and last, which a run()
\* that has read anything does not end without.
HandlersInOrder ==
  /\ \A i \in DOMAIN events :
       /\ (events[i][1] = "open") <=> (i = 1)
       /\ events[i][1] = "close" => i = Len(events)
       /\ events[i][1] = "message" => events[i][2] = <<i - 1>>
  /\ pc = "ended" /\ Len(events) > 1 => Last(events)[1] = "close"

\* close() lets everything go out that was pushed before it: a close frame is
\* preceded by all of that.
CloseComesLast ==
  \A c \in Closes \cap Range(wire), f \in Frames : Before(f, c) => f \in Range(wire)

\* The connection is over, or about to be.
Broken == peer = "lost" \/ ws \in {"closing", "closed"}
=============================================================================
