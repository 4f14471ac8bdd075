----------------------------- MODULE ActionQueue -----------------------------
(* util::action_queue (lib/util/action_queue_impl.hpp): a mutex-protected     *)
(* queue of coroutines that a single perform() coroutine executes in order,   *)
(* with a shutdown that other coroutines await.  Every websocket connection   *)
(* sends its frames through one.                                              *)
(*                                                                            *)
(* One step is what happens between two accesses to state that another thread *)
(* can see.  A handler h names three things at once: the coroutine pushed,    *)
(* the call of push that brings it, and the instance of perform() that this   *)
(* call spawns when it finds none running.                                    *)
EXTENDS Naturals, Sequences, SequencesExt, FiniteSets

CONSTANTS
  Handlers,   \* the coroutines pushed, each once
  External,   \* those pushed by threads that do not run the executor
  Stoppers,   \* the calls of async_shutdown
  Graceful,   \* those made with cancel_signal = false
  Workers,    \* how many threads run the executor
  NoHandler

ASSUME ConstantsAssumption ==
  /\ External \subseteq Handlers
  /\ Graceful \subseteq Stoppers
  /\ Workers \in Nat \ {0}
  /\ NoHandler \notin Handlers

VARIABLES
  que,          \* que_
  running,      \* running_
  shutdowning,  \* shutdowning_
  expiry,       \* the expiry of shutdown_timer_
  slot,         \* the perform() that cs_ would cancel
  cancelled,    \* the perform() instances whose cancellation state is set
  push,         \* where each call of push is
  perform,      \* where each instance of perform() is
  job,          \* perform()'s local handler
  stop          \* where each call of async_shutdown is

vars == <<que, running, shutdowning, expiry, slot, cancelled, push, perform, job, stop>>

\* A perform() in one of these states holds que_mutex_ (it leaves by co_return).
Exiting == {"exiting", "signalled"}
Live    == {"posted", "spawned", "loop", "popped", "handler"}

MutexFree == \A i \in Handlers : perform[i] \notin Exiting

\* The activities that occupy a thread of the executor right now.  A posted or
\* suspended coroutine occupies none.
Busy ==
  {<<"push", h>> : h \in {g \in Handlers \ External : push[g] \in {"gated", "spawning"}}}
    \cup {<<"perform", i>> : i \in {j \in Handlers : perform[j] \in {"spawned", "loop", "popped"} \cup Exiting}}
    \cup {<<"stop", s>> : s \in {t \in Stoppers : stop[t] \in {"notRunning", "entered", "set", "emitted"}}}
FreeWorker == Cardinality(Busy) < Workers

Init ==
  /\ que = <<>>
  /\ running = FALSE
  /\ shutdowning = FALSE
  /\ expiry = "epoch"
  /\ slot = NoHandler
  /\ cancelled = {}
  /\ push = [h \in Handlers |-> "idle"]
  /\ perform = [h \in Handlers |-> "none"]
  /\ job = [h \in Handlers |-> NoHandler]
  /\ stop = [s \in Stoppers |-> "idle"]
-----------------------------------------------------------------------------
(* push *)

\* The test of shutdowning_, made before the mutex is taken.
PushGate(h) ==
  /\ push[h] = "idle"
  /\ h \in External \/ FreeWorker
  /\ push' = [push EXCEPT ![h] = IF shutdowning THEN "refused" ELSE "gated"]
  /\ UNCHANGED <<que, running, shutdowning, expiry, slot, cancelled, perform, job, stop>>

\* A push that leaves the setting of running_ to the coroutine it spawns.
MutPushLeavesRunning(h) ==
  /\ push[h] = "gated" /\ MutexFree
  /\ que' = Append(que, h)
  /\ push' = [push EXCEPT ![h] = IF running THEN "returned" ELSE "spawning"]
  /\ UNCHANGED <<running, shutdowning, expiry, slot, cancelled, perform, job, stop>>

\* The critical section: enqueue, and claim running_ if nobody has it.
PushEnqueue(h) ==
  /\ push[h] = "gated" /\ MutexFree
  /\ que' = Append(que, h)
  /\ push' = [push EXCEPT ![h] = IF running THEN "returned" ELSE "spawning"]
  /\ running' = TRUE
  /\ UNCHANGED <<shutdowning, expiry, slot, cancelled, perform, job, stop>>

\* co_spawn, after the unlock.  On a thread of the executor the new coroutine
\* starts at once, in place of its caller; from another thread it is posted.
PushSpawn(h) ==
  /\ push[h] = "spawning"
  /\ push' = [push EXCEPT ![h] = "returned"]
  /\ perform' = [perform EXCEPT ![h] = IF h \in External THEN "posted" ELSE "spawned"]
  /\ slot' = h
  /\ UNCHANGED <<que, running, shutdowning, expiry, cancelled, job, stop>>

Clear ==
  /\ que # <<>> /\ MutexFree
  /\ que' = <<>>
  /\ UNCHANGED <<running, shutdowning, expiry, slot, cancelled, push, perform, job, stop>>
-----------------------------------------------------------------------------
(* perform *)

PerformStart(i) ==
  /\ perform[i] = "spawned" \/ (perform[i] = "posted" /\ FreeWorker)
  /\ i \notin cancelled
  /\ perform' = [perform EXCEPT ![i] = "loop"]
  /\ UNCHANGED <<que, running, shutdowning, expiry, slot, cancelled, push, job, stop>>

\* A pop that takes the newest handler.
MutPerformPopNewest(i) ==
  /\ perform[i] = "loop" /\ MutexFree
  /\ que # <<>> /\ i \notin cancelled
  /\ job' = [job EXCEPT ![i] = Last(que)]
  /\ que' = Front(que)
  /\ perform' = [perform EXCEPT ![i] = "popped"]
  /\ UNCHANGED <<running, shutdowning, expiry, slot, cancelled, push, stop>>

\* A pop that reads the front and leaves it in the queue.
MutPerformPopKeepsFront(i) ==
  /\ perform[i] = "loop" /\ MutexFree
  /\ que # <<>> /\ i \notin cancelled
  /\ job' = [job EXCEPT ![i] = Head(que)]
  /\ perform' = [perform EXCEPT ![i] = "popped"]
  /\ UNCHANGED <<que, running, shutdowning, expiry, slot, cancelled, push, stop>>

PerformPop(i) ==
  /\ perform[i] = "loop" /\ MutexFree
  /\ que # <<>> /\ i \notin cancelled
  /\ job' = [job EXCEPT ![i] = Head(que)]
  /\ que' = Tail(que)
  /\ perform' = [perform EXCEPT ![i] = "popped"]
  /\ UNCHANGED <<running, shutdowning, expiry, slot, cancelled, push, stop>>

\* An exit that forgets to give running_ back.
MutPerformExitKeepsRunning(i) ==
  /\ perform[i] = "loop" /\ MutexFree
  /\ que = <<>> \/ i \in cancelled
  /\ perform' = [perform EXCEPT ![i] = "exiting"]
  /\ UNCHANGED <<que, running, shutdowning, expiry, slot, cancelled, push, job, stop>>

\* Nothing to do, or cancelled: give running_ back, still under the mutex.
PerformExit(i) ==
  /\ perform[i] = "loop" /\ MutexFree
  /\ que = <<>> \/ i \in cancelled
  /\ running' = FALSE
  /\ perform' = [perform EXCEPT ![i] = "exiting"]
  /\ UNCHANGED <<que, shutdowning, expiry, slot, cancelled, push, job, stop>>

\* What cancelling the timer's waits does to the shutdowns suspended on it.
WaitersReleased == [s \in Stoppers |-> IF stop[s] = "waiting" THEN "returned" ELSE stop[s]]

\* The test of shutdowning_ and, if it is set, expires_after(max), which cancels
\* the waits in progress; otherwise the mutex is released and perform() is over.
PerformSignal(i) ==
  /\ perform[i] = "exiting"
  /\ IF shutdowning
       THEN /\ expiry' = "max"
            /\ stop' = WaitersReleased
            /\ perform' = [perform EXCEPT ![i] = "signalled"]
       ELSE /\ perform' = [perform EXCEPT ![i] = "done"]
            /\ UNCHANGED <<expiry, stop>>
  /\ UNCHANGED <<que, running, shutdowning, slot, cancelled, push, job>>

\* shutdown_timer_.cancel(), then the mutex is released.
PerformCancelTimer(i) ==
  /\ perform[i] = "signalled"
  /\ stop' = WaitersReleased
  /\ perform' = [perform EXCEPT ![i] = "done"]
  /\ UNCHANGED <<que, running, shutdowning, expiry, slot, cancelled, push, job>>

\* co_await handler(): the handler runs up to its first asynchronous operation.
HandlerStart(i) ==
  /\ perform[i] = "popped" /\ i \notin cancelled
  /\ perform' = [perform EXCEPT ![i] = "handler"]
  /\ UNCHANGED <<que, running, shutdowning, expiry, slot, cancelled, push, job, stop>>

\* A perform() that ends after one handler.
MutHandlerDoneEnds(i) ==
  /\ perform[i] = "handler" /\ FreeWorker
  /\ job' = [job EXCEPT ![i] = NoHandler]
  /\ perform' = [perform EXCEPT ![i] = "exiting"]
  /\ running' = FALSE
  /\ UNCHANGED <<que, shutdowning, expiry, slot, cancelled, push, stop>>

HandlerDone(i) ==
  /\ perform[i] = "handler" /\ FreeWorker
  /\ job' = [job EXCEPT ![i] = NoHandler]
  /\ perform' = [perform EXCEPT ![i] = "loop"]
  /\ UNCHANGED <<que, running, shutdowning, expiry, slot, cancelled, push, stop>>

\* In a cancelled coroutine a co_await throws operation_aborted: before the body
\* of a spawned perform() begins, at co_await handler(), or inside the handler.
\* perform() has no catch, so running_ keeps its value and the timer is not
\* touched; the completion handler given to co_spawn rethrows.
PerformThrows(i) ==
  /\ i \in cancelled
  /\ perform[i] \in {"spawned", "popped"} \/ (perform[i] \in {"posted", "handler"} /\ FreeWorker)
  /\ job' = [job EXCEPT ![i] = NoHandler]
  /\ perform' = [perform EXCEPT ![i] = "threw"]
  /\ UNCHANGED <<que, running, shutdowning, expiry, slot, cancelled, push, stop>>
-----------------------------------------------------------------------------
(* async_shutdown: it never takes the mutex *)

ShutdownReadRunning(s) ==
  /\ stop[s] = "idle" /\ FreeWorker
  /\ stop' = [stop EXCEPT ![s] = IF running THEN "entered" ELSE "notRunning"]
  /\ UNCHANGED <<que, running, shutdowning, expiry, slot, cancelled, push, perform, job>>

\* A shutdown without the early return.
MutShutdownIgnoresFlag(s) ==
  /\ stop[s] = "notRunning"
  /\ stop' = [stop EXCEPT ![s] = "entered"]
  /\ UNCHANGED <<que, running, shutdowning, expiry, slot, cancelled, push, perform, job>>

ShutdownReadFlag(s) ==
  /\ stop[s] = "notRunning"
  /\ stop' = [stop EXCEPT ![s] = IF shutdowning THEN "returned" ELSE "entered"]
  /\ UNCHANGED <<que, running, shutdowning, expiry, slot, cancelled, push, perform, job>>

ShutdownSet(s) ==
  /\ stop[s] = "entered"
  /\ shutdowning' = TRUE
  /\ stop' = [stop EXCEPT ![s] = "set"]
  /\ UNCHANGED <<que, running, expiry, slot, cancelled, push, perform, job>>

\* A shutdown that never emits the cancellation signal.
MutShutdownSkipsEmit(s) ==
  /\ stop[s] = "set"
  /\ stop' = [stop EXCEPT ![s] = "emitted"]
  /\ UNCHANGED <<que, running, shutdowning, expiry, slot, cancelled, push, perform, job>>

\* cs_.emit(all) reaches the perform() registered last, and only that one.
ShutdownEmit(s) ==
  /\ stop[s] = "set"
  /\ cancelled' = IF s \in Graceful THEN cancelled ELSE cancelled \cup ({slot} \ {NoHandler})
  /\ stop' = [stop EXCEPT ![s] = "emitted"]
  /\ UNCHANGED <<que, running, shutdowning, expiry, slot, push, perform, job>>

\* async_wait on a timer that was never set completes at once; after
\* expires_after(max) it completes only when the timer is cancelled.
ShutdownWait(s) ==
  /\ stop[s] = "emitted"
  /\ stop' = [stop EXCEPT ![s] = IF expiry = "epoch" THEN "returned" ELSE "waiting"]
  /\ UNCHANGED <<que, running, shutdowning, expiry, slot, cancelled, push, perform, job>>
-----------------------------------------------------------------------------
Perform(i) ==
  \/ PerformStart(i) \/ PerformPop(i) \/ PerformExit(i) \/ PerformSignal(i)
  \/ PerformCancelTimer(i) \/ HandlerStart(i) \/ HandlerDone(i) \/ PerformThrows(i)

Next ==
  \/ \E h \in Handlers : PushGate(h) \/ PushEnqueue(h) \/ PushSpawn(h) \/ Perform(h)
  \/ Clear
  \/ \E s \in Stoppers : \/ ShutdownReadRunning(s) \/ ShutdownReadFlag(s) \/ ShutdownSet(s)
                         \/ ShutdownEmit(s) \/ ShutdownWait(s)

Spec == Init /\ [][Next]_vars

\* A thread in the middle of a call goes on, a free thread of the executor takes
\* up what is ready, and the asynchronous operations of a handler complete.
\* Nobody is obliged to call push, clear or async_shutdown.
Fairness ==
  /\ \A h \in Handlers : WF_vars(PushEnqueue(h)) /\ WF_vars(PushSpawn(h)) /\ WF_vars(Perform(h))
  /\ \A s \in Stoppers : /\ WF_vars(ShutdownReadFlag(s)) /\ WF_vars(ShutdownSet(s))
                         /\ WF_vars(ShutdownEmit(s)) /\ WF_vars(ShutdownWait(s))

FairSpec == Spec /\ Fairness
-----------------------------------------------------------------------------
(* Properties *)

Jobs == {job[i] : i \in Handlers} \ {NoHandler}

Types ==
  /\ running \in BOOLEAN /\ shutdowning \in BOOLEAN
  /\ expiry \in {"epoch", "max"}
  /\ slot \in Handlers \cup {NoHandler}
  /\ cancelled \subseteq Handlers
  /\ push \in [Handlers -> {"idle", "gated", "spawning", "returned", "refused"}]
  /\ perform \in [Handlers -> Live \cup Exiting \cup {"none", "done", "threw"}]
  /\ job \in [Handlers -> Handlers \cup {NoHandler}]
  /\ stop \in [Stoppers -> {"idle", "notRunning", "entered", "set", "emitted", "waiting", "returned"}]

\* A handler is in que_ at most once, only after its push enqueued it, and not
\* while some perform() has it.
QueueOK ==
  /\ que \in Seq(Handlers) /\ IsInjective(que)
  /\ \A h \in Range(que) : push[h] \in {"spawning", "returned"} /\ h \notin Jobs

\* The states each variable ranges over; the queue and the handlers taken from
\* it are disjoint.
TypeOK == Types /\ QueueOK

\* running_ is what keeps two perform() coroutines from executing handlers side
\* by side: of all the instances, and the pushes about to spawn one, at most one
\* is alive.  (A second one would interleave two websocket frames.)
AtMostOnePerform ==
  \A i, j \in Handlers :
    /\ perform[i] \in Live /\ perform[j] \in Live => i = j
    /\ ~(push[i] = "spawning" /\ perform[j] \in Live)

\* Work in the queue always has somebody who will take it, unless a shutdown
\* cancelled a perform().  In particular a push that slips past the shutdowning_
\* test, and a shutdown with cancel_signal = false, strand nothing.
NoStrandedWork ==
  que # <<>> =>
    \/ \E h \in Handlers : push[h] = "spawning" \/ perform[h] \in Live
    \/ cancelled # {}

Abstract == INSTANCE SerialExecutor WITH
  pending <- que,
  active <- Jobs,
  submitted <- {h \in Handlers : push[h] \in {"spawning", "returned"}}

\* The queue implements the serial executor: handlers begin in the order in
\* which push enqueued them, never two at once and never one twice.
ExecutesSerially == Abstract!Spec

\* As long as no shutdown cancels a perform(), whatever is in the queue leaves it.
HandlerSettles ==
  \A h \in Handlers : h \in Range(que) ~> (h \notin Range(que) \/ cancelled # {})

\* With one thread running the executor and every push made on it, every
\* async_shutdown returns (the websocket connection calls its close handler
\* only after that).
ShutdownReturns ==
  \A s \in Stoppers : stop[s] = "entered" ~> stop[s] = "returned"

\* In the same setting, no handler starts after a cancelling shutdown returned.
QuietAfterShutdown ==
  [][(\E s \in Stoppers \ Graceful : stop[s] = "returned") =>
       \A i \in Handlers : perform'[i] = "handler" => perform[i] = "handler"]_vars
=============================================================================
