----------------------------- MODULE SessionTasks -----------------------------
(* The tasks of a session one after the other (session::run in                *)
(* lib/server/session.cpp): the request loop runs first, and a CONNECT or an  *)
(* upgrade makes it return the task that takes the connection over.  The      *)
(* variables of a task that has not begun have their initial values, and      *)
(* those of the request loop are given theirs again when it is destroyed.     *)
(* What ProxyTask declares is the proxy task's.                               *)
EXTENDS ProxyTask

CONSTANTS
  MaxRequests, MaxBody,     \* of HttpTask
  Frames, Closes, MaxIn,    \* of WebsocketConn
  MaxThreads                \* how many threads run the executor at the most

ASSUME SessionAssumption ==
  /\ MaxRequests \in Nat /\ MaxBody \in Nat /\ MaxIn \in Nat
  /\ Frames \cap Closes = {} /\ "close" \notin Frames \cup Closes

VARIABLES
  task,                     \* task_: "http", "proxy" or "websocket"
  threads,                  \* how many threads run the executor
  \* the request loop
  requests, unsent, net, ahead_of, loop, cur, left, keep, stream, out, lost,
  \* the websocket connection
  run, ws, pending, active, submitted, order, passed, performing, shutdowning, cancelled,
  signalled, message, events, wire, inbox, peer

H == INSTANCE HttpTask WITH sent <- requests, buffer <- ahead_of, pc <- loop
W == INSTANCE WebsocketConn WITH pc <- run, buffer <- message

httpVars ==
  <<requests, unsent, net, ahead_of, loop, cur, left, keep, stream, out, lost>>
wsVars ==
  <<run, ws, pending, active, submitted, order, passed, performing, shutdowning, cancelled,
    signalled, message, events, wire, inbox, peer>>
sessionVars == <<task, threads, httpVars, wsVars, vars>>

SessionInit ==
  /\ task = "http" /\ threads \in 1 .. MaxThreads
  /\ H!Init /\ W!Init
  /\ Init /\ named = FALSE /\ ahead = 0
-----------------------------------------------------------------------------
(* session::run: task_->then() returned the next task *)

Destroyed ==
  /\ requests' = <<>> /\ unsent' = 0 /\ net' = <<>> /\ ahead_of' = <<>> /\ loop' = "closed"
  /\ cur' = 0 /\ left' = 0 /\ keep' = TRUE /\ stream' = FALSE /\ out' = <<>> /\ lost' = {}

\* http_proxy_task gets the stream and the request.  What was read together with
\* the request is not its to pass on.
StartProxy ==
  /\ task = "http" /\ loop = "proxy"
  /\ task' = "proxy"
  /\ named' \in BOOLEAN
  /\ ahead' = IF ahead_of = <<>> THEN 0 ELSE 1
  /\ sent' = [sent EXCEPT !["client"] = ahead'] /\ taken' = sent'
  /\ Destroyed
  /\ UNCHANGED <<threads, wsVars, pc, socket, ended, at, buffer, received, fin, deaf, aborted>>

StartWebsocket ==
  /\ task = "http" /\ loop = "websocket"
  /\ task' = "websocket"
  /\ Destroyed
  /\ UNCHANGED <<threads, wsVars, vars>>
-----------------------------------------------------------------------------
InHttp(A) == task = "http" /\ A /\ UNCHANGED <<task, threads, wsVars, vars>>
InProxy(A) == task = "proxy" /\ A /\ UNCHANGED <<task, threads, httpVars, wsVars>>
InWs(A) == task = "websocket" /\ A /\ UNCHANGED <<task, threads, httpVars, vars>>
Alone(A) == threads = 1 /\ InWs(A)

SessionNext ==
  \/ InHttp(H!Next)
  \/ StartProxy \/ StartWebsocket
  \/ InProxy(Next)
  \/ InWs(W!Next)

SessionSpec == SessionInit /\ [][SessionNext]_sessionVars

\* Of the request loop, the server goes on with what it can do, and the client
\* sends the body of what it has begun: no timeout is needed.  Of a proxy task,
\* name resolution and connecting end, a peer takes what it is sent, and the
\* transfers and then() are resumed; the peers need not send or end.  Of a
\* websocket connection on one thread, the executor runs what is ready, handlers
\* return, an operation on a broken connection fails, and the timer of close()
\* passes; of its peer and its users nothing is assumed.
SessionFairness ==
  /\ WF_sessionVars(InHttp(H!Server)) /\ WF_sessionVars(InHttp(H!SendBody))
  /\ WF_sessionVars(StartProxy) /\ WF_sessionVars(StartWebsocket)
  /\ WF_sessionVars(InProxy(Setup)) /\ WF_sessionVars(InProxy(Join))
  /\ \A p \in Peers : WF_sessionVars(InProxy(Copy(p)))
  /\ WF_sessionVars(Alone(W!Run)) /\ WF_sessionVars(Alone(W!Begin))
  /\ \A a \in Frames \cup Closes :
       /\ WF_sessionVars(Alone(W!WriteFails(a)))
       /\ WF_sessionVars(Alone(W!CloseDone(a)))
       /\ WF_sessionVars(Alone(W!PerformThrows(a)))

SessionFairSpec == SessionSpec /\ SessionFairness
-----------------------------------------------------------------------------
(* Properties.  InOrder and EndMeansAll are those of ProxyTask. *)

\* The states each variable ranges over, and one task at a time: a task that is
\* not task_ has the values it begins with or is destroyed with.
SessionTypeOK ==
  /\ task \in {"http", "proxy", "websocket"} /\ threads \in 1 .. MaxThreads
  /\ TypeOK /\ W!TypeOK /\ H!TypeOK
  /\ task # "http" => loop = "closed"
  /\ task # "proxy" => pc = "start" /\ socket["target"] = "none"
  /\ task # "websocket" => run = "accept" /\ submitted = {}

\* Where the request loop looks for a header there is one (see HttpTask).
InStep == H!InStep

\* Requests are answered in order, each once (see HttpTask).
AnsweredInOrder == H!AnsweredInOrder

\* Frames go out in the order of the calls and all before the close frame, the
\* handlers are called in theirs, on one thread and on several (see
\* WebsocketConn).
WebsocketInOrder == W!FramesInOrder /\ W!HandlersInOrder /\ W!CloseComesLast

\* Nothing is sent once the close handler was called (see WebsocketConn).
NothingSentAfterClose == [][W!Closed => wire' = wire]_sessionVars

\* What the tasks owe.  The request loop answers every request that was sent,
\* unless the connection ended or is out of step.
Answered ==
  task = "http" /\ loop # "closed" /\ lost = {}
    => \A k \in DOMAIN requests : <<k, "final">> \in Range(out)

\* A proxy task passes every byte on once the client was told, unless a peer
\* resets or the server aborts, and ends when both peers have ended or on abort().
Delivered ==
  received["client"] # <<>> /\ ~Broken
    => received["target"] = ForTarget /\ received["client"] = ForClient
ProxyEnded == aborted \/ (\A p \in Peers : ended[p] # "no") => task # "proxy" \/ pc = "done"

\* A websocket connection whose peer is gone, or that close() has begun to close,
\* ends.  (On several threads the wait of its shutdown may last for ever.)
WebsocketEnded == task = "websocket" /\ threads = 1 /\ W!Broken => run = "ended"

\* Whatever a session goes through, and whatever is sent to it, it comes back to a
\* state in which no task owes anything: client, server and target never wait for
\* each other, "100 Continue" included.
TasksSettle == []<>(Answered /\ Delivered /\ ProxyEnded /\ WebsocketEnded)
=============================================================================
