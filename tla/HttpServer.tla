------------------------------ MODULE HttpServer ------------------------------
(* The life of a server and of its sessions (lib/server/server_impl.cpp,      *)
(* lib/server/session.cpp): accept loops that spawn one session per           *)
(* connection, a session that runs a chain of tasks, the map of sessions, and *)
(* the two sweeps that abort every session in it, one in stop() and one at    *)
(* the end of co_run().  The executor may have any number of threads: a step  *)
(* is what happens between two accesses to shared state.  What the tasks do   *)
(* with their bytes is abstracted to when then() may return and with which    *)
(* next task.                                                                 *)
EXTENDS FiniteSets

CONSTANTS
  Conns,    \* the connections clients make
  Loops,    \* the co_accept coroutines (32 in the code)
  Stops,    \* the calls of stop()
  Ssl,      \* whether use_ssl configured a context
  NoConn

Callers == Stops \cup {"co_run"}

ASSUME ConstantsAssumption ==
  /\ Ssl \in BOOLEAN
  /\ NoConn \notin Conns
  /\ "co_run" \notin Stops
  /\ Loops # {}

VARIABLES
  acceptor,   \* "open" until stop() closes it
  loop,       \* where each co_accept is
  sock,       \* co_accept's accepted socket
  sessions,   \* session_map_
  owner,      \* the sweep that holds session_mutex_, or {}
  todo,       \* the sessions its iteration has not reached
  marked,     \* the session it is in the middle of aborting
  call,       \* where each call of stop(), and co_run(), is
  conn,       \* where each connection, then session, is
  abort,      \* the sessions with abort_ set
  task,       \* task_
  next,       \* what then() returned, until it is stored in task_
  stream,     \* the state of the session's stream
  upgraded    \* the sessions whose websocket handshake is complete

vars == <<acceptor, loop, sock, sessions, owner, todo, marked, call,
          conn, abort, task, next, stream, upgraded>>

acceptVars  == <<acceptor, loop, sock>>
sweepVars   == <<owner, todo, marked, call>>
sessionVars == <<conn, abort, task, next, stream, upgraded>>

Tasks == {"detect", "handshake", "http", "websocket", "proxy"}

Init ==
  /\ acceptor = "open"
  /\ loop = [l \in Loops |-> "accepting"]
  /\ sock = [l \in Loops |-> NoConn]
  /\ sessions = {}
  /\ owner = {} /\ todo = {} /\ marked = NoConn
  /\ call = [x \in Callers |-> "idle"]
  /\ conn = [c \in Conns |-> "backlog"]
  /\ abort = {}
  /\ task = [c \in Conns |-> "detect"]
  /\ next = [c \in Conns |-> "null"]
  /\ stream = [c \in Conns |-> "open"]
  /\ upgraded = {}
-----------------------------------------------------------------------------
(* co_accept *)

LoopAccept(l, c) ==
  /\ loop[l] = "accepting" /\ acceptor = "open" /\ conn[c] = "backlog"
  /\ loop' = [loop EXCEPT ![l] = "accepted"]
  /\ sock' = [sock EXCEPT ![l] = c]
  /\ conn' = [conn EXCEPT ![c] = "accepted"]
  /\ UNCHANGED <<acceptor, sessions, sweepVars, abort, task, next, stream, upgraded>>

\* too_many_files_open: wait 100 ms and try again.
LoopTooManyFiles(l) ==
  /\ loop[l] = "accepting" /\ acceptor = "open"
  /\ loop' = [loop EXCEPT ![l] = "retry"]
  /\ UNCHANGED <<acceptor, sock, sessions, sweepVars, sessionVars>>

\* Any other error while listening ends this loop for good.
LoopFails(l) ==
  /\ loop[l] = "accepting" /\ acceptor = "open"
  /\ loop' = [loop EXCEPT ![l] = "ended"]
  /\ UNCHANGED <<acceptor, sock, sessions, sweepVars, sessionVars>>

\* The closed acceptor fails the accept.
LoopAborted(l) ==
  /\ loop[l] = "accepting" /\ acceptor = "closed"
  /\ loop' = [loop EXCEPT ![l] = "ended"]
  /\ UNCHANGED <<acceptor, sock, sessions, sweepVars, sessionVars>>

LoopRetry(l) ==
  /\ loop[l] = "retry"
  /\ loop' = [loop EXCEPT ![l] = "accepting"]
  /\ UNCHANGED <<acceptor, sock, sessions, sweepVars, sessionVars>>

\* co_spawn(handle_accept) starts the coroutine at once: the session is in the
\* map before the loop accepts again.  remote_endpoint() throws when the peer
\* is already gone: then there is no session.
HandleAccept(l) ==
  /\ loop[l] = "accepted"
  /\ \/ /\ owner = {}
        /\ sessions' = sessions \cup {sock[l]}
        /\ conn' = [conn EXCEPT ![sock[l]] = "test"]
     \/ /\ conn' = [conn EXCEPT ![sock[l]] = "gone"]
        /\ UNCHANGED sessions
  /\ loop' = [loop EXCEPT ![l] = "accepting"]
  /\ sock' = [sock EXCEPT ![l] = NoConn]
  /\ UNCHANGED <<acceptor, sweepVars, abort, task, next, stream, upgraded>>
-----------------------------------------------------------------------------
(* session::run, and the end of handle_accept *)

\* A loop that tests task_ only.
MutRunIgnoresAbort(c) ==
  /\ conn[c] = "test"
  /\ conn' = [conn EXCEPT ![c] = IF task[c] # "null" THEN "then" ELSE "ended"]
  /\ UNCHANGED <<acceptVars, sessions, sweepVars, abort, task, next, stream, upgraded>>

\* The loop condition: !abort_ && task_.
RunTest(c) ==
  /\ conn[c] = "test"
  /\ conn' = [conn EXCEPT ![c] = IF c \notin abort /\ task[c] # "null" THEN "then" ELSE "ended"]
  /\ UNCHANGED <<acceptVars, sessions, sweepVars, abort, task, next, stream, upgraded>>

\* The tasks then() of each task may return.
NextTasks(t) ==
  CASE t = "detect" /\ Ssl  -> {"handshake", "http", "null"}
    [] t = "detect" /\ ~Ssl -> {"http"}
    [] t = "handshake"      -> {"http", "null"}
    [] t = "http"           -> {"websocket", "proxy", "null"}
    [] OTHER                -> {"null"}

\* then() returns.  A read that completed before the stream was closed still
\* leads to the next task.
ThenReturns(c) ==
  /\ conn[c] = "then"
  /\ \E n \in NextTasks(task[c]) : next' = [next EXCEPT ![c] = n]
  /\ conn' = [conn EXCEPT ![c] = "returned"]
  /\ UNCHANGED <<acceptVars, sessions, sweepVars, abort, task, stream, upgraded>>

\* An exception out of then(): handle_accept catches it.
ThenThrows(c) ==
  /\ conn[c] = "then"
  /\ conn' = [conn EXCEPT ![c] = "ended"]
  /\ UNCHANGED <<acceptVars, sessions, sweepVars, abort, task, next, stream, upgraded>>

\* websocket_conn_impl::run: async_accept succeeded, ws_.is_open() from now on.
WebsocketAccepted(c) ==
  /\ conn[c] = "then" /\ task[c] = "websocket"
  /\ c \notin upgraded /\ stream[c] = "open"
  /\ upgraded' = upgraded \cup {c}
  /\ UNCHANGED <<acceptVars, sessions, sweepVars, conn, abort, task, next, stream>>

\* The close action that websocket_conn_impl::close() queued has run.  It may never
\* do so: it waits behind the frames that were queued before it, and a peer that
\* takes none of them is not timed out.
WebsocketClosed(c) ==
  /\ stream[c] = "closing"
  /\ stream' = [stream EXCEPT ![c] = "closed"]
  /\ UNCHANGED <<acceptVars, sessions, sweepVars, conn, abort, task, next, upgraded>>

StoreNext(c) ==
  /\ conn[c] = "returned"
  /\ task' = [task EXCEPT ![c] = next[c]]
  /\ next' = [next EXCEPT ![c] = "null"]
  /\ conn' = [conn EXCEPT ![c] = "test"]
  /\ UNCHANGED <<acceptVars, sessions, sweepVars, abort, stream, upgraded>>

\* An erase that does not take session_mutex_.
MutEraseUnlocked(c) ==
  /\ conn[c] = "ended"
  /\ sessions' = sessions \ {c}
  /\ conn' = [conn EXCEPT ![c] = "gone"]
  /\ UNCHANGED <<acceptVars, sweepVars, abort, task, next, stream, upgraded>>

Erase(c) ==
  /\ conn[c] = "ended" /\ owner = {}
  /\ sessions' = sessions \ {c}
  /\ conn' = [conn EXCEPT ![c] = "gone"]
  /\ UNCHANGED <<acceptVars, sweepVars, abort, task, next, stream, upgraded>>
-----------------------------------------------------------------------------
(* stop(), and co_run() after its loops *)

\* A stop() that cancels the pending accepts and leaves the acceptor open.
MutStopKeepsAcceptor(x) ==
  /\ x # "co_run" /\ call[x] = "idle"
  /\ call' = [call EXCEPT ![x] = "locking"]
  /\ UNCHANGED <<acceptVars, sessions, owner, todo, marked, sessionVars>>

StopAccepting(x) ==
  /\ x # "co_run" /\ call[x] = "idle"
  /\ acceptor' = "closed"
  /\ call' = [call EXCEPT ![x] = "locking"]
  /\ UNCHANGED <<loop, sock, sessions, owner, todo, marked, sessionVars>>

\* when_all returns when the first loop does.
MutLoopsEndedAny ==
  /\ call["co_run"] = "idle"
  /\ \E l \in Loops : loop[l] = "ended"
  /\ call' = [call EXCEPT !["co_run"] = "locking"]
  /\ UNCHANGED <<acceptVars, sessions, owner, todo, marked, sessionVars>>

\* co_await when_all(ops): co_run resumes when every loop has returned.
LoopsEnded ==
  /\ call["co_run"] = "idle"
  /\ \A l \in Loops : loop[l] = "ended"
  /\ call' = [call EXCEPT !["co_run"] = "locking"]
  /\ UNCHANGED <<acceptVars, sessions, owner, todo, marked, sessionVars>>

SweepLock(x) ==
  /\ call[x] = "locking" /\ owner = {}
  /\ owner' = {x}
  /\ todo' = sessions
  /\ call' = [call EXCEPT ![x] = "sweeping"]
  /\ UNCHANGED <<acceptVars, sessions, marked, sessionVars>>

\* session::abort on the next session of the iteration: nothing if abort_ is
\* set already, otherwise abort_ is set ...
SweepMark(x, c) ==
  /\ x \in owner /\ marked = NoConn /\ c \in todo
  /\ todo' = todo \ {c}
  /\ marked' = IF c \in abort THEN NoConn ELSE c
  /\ abort' = abort \cup {c}
  /\ UNCHANGED <<acceptVars, sessions, owner, call, conn, task, next, stream, upgraded>>

\* A task's stream has moved on to the next task, which task_ does not hold yet.
Moved(c) == conn[c] = "returned" /\ next[c] # "null"

\* A proxy task whose abort does not close the client's stream.
MutAbortSparesProxy(c) ==
  CASE stream[c] # "open" \/ Moved(c) -> stream[c]
    [] task[c] = "websocket" /\ c \in upgraded -> "closing"
    [] task[c] \in {"detect", "http"} -> "closed"
    [] OTHER -> stream[c]

\* The effect of task_->abort() on the stream.  A plain close for detect, http
\* and proxy; an orderly close, queued, for an accepted websocket; none for a
\* websocket that is not open yet, or for a task whose stream has moved on.
AbortedStream(c) ==
  CASE stream[c] # "open" \/ Moved(c) -> stream[c]
    [] task[c] = "websocket" /\ c \in upgraded -> "closing"
    [] task[c] \in {"detect", "http", "proxy"} -> "closed"
    [] OTHER -> stream[c]

\* ... and the task is told, under task_mtx_.
SweepAbortTask(x) ==
  /\ x \in owner /\ marked # NoConn
  /\ stream' = [stream EXCEPT ![marked] = AbortedStream(marked)]
  /\ marked' = NoConn
  /\ UNCHANGED <<acceptVars, sessions, owner, todo, call, conn, abort, task, next, upgraded>>

\* ssl_handshake_task::abort calls the overload of shutdown() that throws, and a
\* TLS shutdown in the middle of the handshake is an error.  Nobody catches it
\* on the way: the sweep is over and the caller of stop(), or co_run, gets it.
SweepThrows(x) ==
  /\ x \in owner /\ marked # NoConn /\ task[marked] = "handshake"
  /\ marked' = NoConn
  /\ todo' = {}
  /\ owner' = {}
  /\ call' = [call EXCEPT ![x] = "threw"]
  /\ UNCHANGED <<acceptVars, sessions, sessionVars>>

SweepDone(x) ==
  /\ x \in owner /\ todo = {} /\ marked = NoConn
  /\ owner' = {}
  /\ call' = [call EXCEPT ![x] = "returned"]
  /\ UNCHANGED <<acceptVars, sessions, todo, marked, sessionVars>>
-----------------------------------------------------------------------------
Loop(l) ==
  \/ \E c \in Conns : LoopAccept(l, c)
  \/ LoopTooManyFiles(l) \/ LoopFails(l) \/ LoopAborted(l) \/ LoopRetry(l) \/ HandleAccept(l)

Session(c) ==
  \/ RunTest(c) \/ ThenReturns(c) \/ ThenThrows(c) \/ WebsocketAccepted(c)
  \/ WebsocketClosed(c) \/ StoreNext(c) \/ Erase(c)

Sweep(x) ==
  \/ SweepLock(x) \/ (\E c \in Conns : SweepMark(x, c))
  \/ SweepAbortTask(x) \/ SweepThrows(x) \/ SweepDone(x)

Next ==
  \/ \E l \in Loops : Loop(l)
  \/ \E c \in Conns : Session(c)
  \/ \E x \in Callers : StopAccepting(x) \/ Sweep(x)
  \/ LoopsEnded

Spec == Init /\ [][Next]_vars

\* Detection and the TLS handshake are under read_timeout, and the then() of http
\* and of a proxy returns once its stream is closed, its handlers returning.  An
\* open stream may live on; and so may a websocket, also on a closed stream: its
\* run() still waits for the queue's async_shutdown and the close handler.
MustReturn(c) ==
  \/ task[c] \in {"detect", "handshake"}
  \/ stream[c] = "closed" /\ task[c] # "websocket"

\* The threads of the executor keep running, timers fire, pending accepts on a
\* closed acceptor complete.  Clients, errors and calls of stop() are free.
Fairness ==
  /\ \A l \in Loops : WF_vars(LoopAborted(l)) /\ WF_vars(LoopRetry(l)) /\ WF_vars(HandleAccept(l))
  /\ \A c \in Conns :
       /\ WF_vars(RunTest(c)) /\ WF_vars(StoreNext(c)) /\ WF_vars(Erase(c))
       /\ WF_vars(MustReturn(c) /\ ThenReturns(c))
  /\ \A x \in Callers : WF_vars(Sweep(x))
  /\ WF_vars(LoopsEnded)

FairSpec == Spec /\ Fairness
-----------------------------------------------------------------------------
(* Properties *)

InMap == {"test", "then", "returned", "ended"}

\* The states each variable ranges over; session_map_ holds exactly the
\* sessions that run, and a sweep, which holds session_mutex_, iterates over
\* sessions that are all still in the map.
TypeOK ==
  /\ acceptor \in {"open", "closed"}
  /\ loop \in [Loops -> {"accepting", "accepted", "retry", "ended"}]
  /\ sock \in [Loops -> Conns \cup {NoConn}]
  /\ sessions = {c \in Conns : conn[c] \in InMap}
  /\ owner \subseteq Callers
  /\ todo \subseteq sessions
  /\ marked \in sessions \cup {NoConn}
  /\ call \in [Callers -> {"idle", "locking", "sweeping", "returned", "threw"}]
  /\ conn \in [Conns -> {"backlog", "accepted", "gone"} \cup InMap]
  /\ abort \subseteq Conns
  /\ task \in [Conns -> Tasks \cup {"null"}]
  /\ next \in [Conns -> Tasks \cup {"null"}]
  /\ stream \in [Conns -> {"open", "closing", "closed"}]
  /\ upgraded \subseteq Conns

\* When co_run() returns, no connection is on its way into the map and every
\* session in the map has been aborted, also those accepted while stop() was
\* sweeping: the second sweep in co_run() is what makes this true.
NothingEscapesShutdown ==
  call["co_run"] = "returned" =>
    \A c \in Conns : conn[c] # "accepted" /\ (c \in sessions => c \in abort)

\* A session never runs a task of which the sweep that aborted it did not know:
\* once abort() is over, what is left is a closed or closing stream, a session
\* about to end, a TLS handshake under its timeout, or a websocket that was
\* aborted before its handshake was complete, when close() does nothing.
AbortTakesEffect ==
  \A c \in sessions \cap abort :
    c # marked /\ conn[c] = "then" =>
      \/ stream[c] # "open"
      \/ task[c] \in {"handshake", "websocket"}

\* After a stop() co_run() ends, by returning or by throwing: every accept loop
\* gets to see that the acceptor is closed, whatever it was doing.
ServerStops == (\E x \in Stops : call[x] # "idle") ~> call["co_run"] \in {"returned", "threw"}

\* An aborted session leaves the map, whatever its peer does or fails to do, unless
\* it is or becomes a websocket: that one is only asked to close (see MustReturn),
\* and not even asked before its handshake is complete.
AbortedSessionEnds ==
  \A c \in Conns : c \in sessions \cap abort ~> (c \notin sessions \/ task[c] = "websocket")

\* What the completion handler in async_run takes for granted: co_run reports
\* its normal errors by error code, and an ordinary stop() is not an exception.
RunReportsByErrorCode == call["co_run"] # "threw"
=============================================================================
