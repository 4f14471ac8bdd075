--------------------------- MODULE HttpServerProofs ---------------------------
(* Theorems about HttpServer for any number of connections, accept loops and  *)
(* calls of stop().  Two things carry the argument: the accepted socket is in *)
(* its loop's hands until its session is in the map, so when every loop has   *)
(* ended the map is complete; and a sweep keeps session_mutex_ from its first *)
(* session to its last, so every session in the map is either aborted or      *)
(* still ahead of the iteration.                                              *)
EXTENDS HttpServer, TLAPS

\* An accepted connection is held by exactly one accept loop.
SocketsHeld ==
  /\ \A l \in Loops : loop[l] = "accepted" => sock[l] \in Conns /\ conn[sock[l]] = "accepted"
  /\ \A c \in Conns : conn[c] = "accepted" => \E l \in Loops : loop[l] = "accepted" /\ sock[l] = c
  /\ \A l, m \in Loops : loop[l] = "accepted" /\ loop[m] = "accepted" /\ sock[l] = sock[m] => l = m

\* co_run goes on only after all its loops, and loops do not come back.
LoopsFirst == call["co_run"] # "idle" => \A l \in Loops : loop[l] = "ended"

\* The holder of session_mutex_ is the one sweep in progress.
OneSweep ==
  /\ \A x \in Callers : x \in owner <=> call[x] = "sweeping"
  /\ \A x, y \in owner : x = y
  /\ owner = {} => todo = {} /\ marked = NoConn

\* What the second sweep has done so far, and what it leaves behind.
SweepCovers ==
  /\ "co_run" \in owner => sessions \subseteq todo \cup abort
  /\ call["co_run"] = "returned" => sessions \subseteq abort

\* A session suspended in then() has a task.
RunsTask == \A c \in Conns : conn[c] = "then" => task[c] # "null"

\* The inductive invariant.
IInv == TypeOK /\ RunsTask /\ SocketsHeld /\ LoopsFirst /\ OneSweep /\ SweepCovers /\ AbortTakesEffect
-----------------------------------------------------------------------------
LEMMA InitIInv == Init => IInv
<1> SUFFICES ASSUME Init PROVE IInv
  OBVIOUS
<1>1. TypeOK
  BY DEF Init, TypeOK, InMap, Tasks
<1>2. RunsTask /\ SocketsHeld /\ LoopsFirst /\ OneSweep /\ SweepCovers /\ AbortTakesEffect
  BY ConstantsAssumption
  DEF Init, RunsTask, SocketsHeld, LoopsFirst, OneSweep, SweepCovers, AbortTakesEffect, Callers
<1> QED
  BY <1>1, <1>2 DEF IInv

\* The steps of an accept loop keep the invariant.
LEMMA LoopStep ==
  ASSUME IInv, NEW l \in Loops, Loop(l)
  PROVE  IInv'
<1> USE ConstantsAssumption
<1>0. TypeOK /\ RunsTask /\ SocketsHeld /\ LoopsFirst /\ OneSweep /\ SweepCovers /\ AbortTakesEffect
  BY DEF IInv
<1>1. ASSUME NEW c \in Conns, LoopAccept(l, c) PROVE IInv'
  <2>1. TypeOK'
    BY <1>0, <1>1 DEF TypeOK, InMap, Tasks, LoopAccept, acceptVars, sweepVars, sessionVars
  <2>2. SocketsHeld' /\ LoopsFirst'
    BY <1>0, <1>1 DEF TypeOK, SocketsHeld, LoopsFirst, InMap, LoopAccept, acceptVars, sweepVars, sessionVars
  <2>3. OneSweep'
    BY <1>0, <1>1 DEF TypeOK, OneSweep, LoopAccept, acceptVars, sweepVars, sessionVars
  <2>4. SweepCovers'
    BY <1>0, <1>1 DEF TypeOK, SweepCovers, OneSweep, LoopsFirst, Callers, LoopAccept, acceptVars, sweepVars, sessionVars
  <2>5. AbortTakesEffect'
    BY <1>0, <1>1 DEF TypeOK, AbortTakesEffect, InMap, LoopAccept, acceptVars, sweepVars, sessionVars
  <2>6. RunsTask'
    BY <1>0, <1>1 DEF TypeOK, RunsTask, SocketsHeld, InMap, LoopAccept, acceptVars, sweepVars, sessionVars
  <2> QED
    BY <2>1, <2>2, <2>3, <2>4, <2>5, <2>6 DEF IInv
<1>2. CASE LoopTooManyFiles(l)
  <2>1. TypeOK'
    BY <1>0, <1>2 DEF TypeOK, InMap, Tasks, LoopTooManyFiles, acceptVars, sweepVars, sessionVars
  <2>2. SocketsHeld' /\ LoopsFirst'
    BY <1>0, <1>2 DEF TypeOK, SocketsHeld, LoopsFirst, InMap, LoopTooManyFiles, acceptVars, sweepVars, sessionVars
  <2>3. OneSweep'
    BY <1>0, <1>2 DEF TypeOK, OneSweep, LoopTooManyFiles, acceptVars, sweepVars, sessionVars
  <2>4. SweepCovers'
    BY <1>0, <1>2 DEF TypeOK, SweepCovers, OneSweep, LoopsFirst, Callers, LoopTooManyFiles, acceptVars, sweepVars, sessionVars
  <2>5. AbortTakesEffect'
    BY <1>0, <1>2 DEF TypeOK, AbortTakesEffect, InMap, LoopTooManyFiles, acceptVars, sweepVars, sessionVars
  <2>6. RunsTask'
    BY <1>0, <1>2 DEF TypeOK, RunsTask, SocketsHeld, InMap, LoopTooManyFiles, acceptVars, sweepVars, sessionVars
  <2> QED
    BY <2>1, <2>2, <2>3, <2>4, <2>5, <2>6 DEF IInv
<1>3. CASE LoopFails(l)
  <2>1. TypeOK'
    BY <1>0, <1>3 DEF TypeOK, InMap, Tasks, LoopFails, acceptVars, sweepVars, sessionVars
  <2>2. SocketsHeld' /\ LoopsFirst'
    BY <1>0, <1>3 DEF TypeOK, SocketsHeld, LoopsFirst, InMap, LoopFails, acceptVars, sweepVars, sessionVars
  <2>3. OneSweep'
    BY <1>0, <1>3 DEF TypeOK, OneSweep, LoopFails, acceptVars, sweepVars, sessionVars
  <2>4. SweepCovers'
    BY <1>0, <1>3 DEF TypeOK, SweepCovers, OneSweep, LoopsFirst, Callers, LoopFails, acceptVars, sweepVars, sessionVars
  <2>5. AbortTakesEffect'
    BY <1>0, <1>3 DEF TypeOK, AbortTakesEffect, InMap, LoopFails, acceptVars, sweepVars, sessionVars
  <2>6. RunsTask'
    BY <1>0, <1>3 DEF TypeOK, RunsTask, SocketsHeld, InMap, LoopFails, acceptVars, sweepVars, sessionVars
  <2> QED
    BY <2>1, <2>2, <2>3, <2>4, <2>5, <2>6 DEF IInv
<1>4. CASE LoopAborted(l)
  <2>1. TypeOK'
    BY <1>0, <1>4 DEF TypeOK, InMap, Tasks, LoopAborted, acceptVars, sweepVars, sessionVars
  <2>2. SocketsHeld' /\ LoopsFirst'
    BY <1>0, <1>4 DEF TypeOK, SocketsHeld, LoopsFirst, InMap, LoopAborted, acceptVars, sweepVars, sessionVars
  <2>3. OneSweep'
    BY <1>0, <1>4 DEF TypeOK, OneSweep, LoopAborted, acceptVars, sweepVars, sessionVars
  <2>4. SweepCovers'
    BY <1>0, <1>4 DEF TypeOK, SweepCovers, OneSweep, LoopsFirst, Callers, LoopAborted, acceptVars, sweepVars, sessionVars
  <2>5. AbortTakesEffect'
    BY <1>0, <1>4 DEF TypeOK, AbortTakesEffect, InMap, LoopAborted, acceptVars, sweepVars, sessionVars
  <2>6. RunsTask'
    BY <1>0, <1>4 DEF TypeOK, RunsTask, SocketsHeld, InMap, LoopAborted, acceptVars, sweepVars, sessionVars
  <2> QED
    BY <2>1, <2>2, <2>3, <2>4, <2>5, <2>6 DEF IInv
<1>5. CASE LoopRetry(l)
  <2>1. TypeOK'
    BY <1>0, <1>5 DEF TypeOK, InMap, Tasks, LoopRetry, acceptVars, sweepVars, sessionVars
  <2>2. SocketsHeld' /\ LoopsFirst'
    BY <1>0, <1>5 DEF TypeOK, SocketsHeld, LoopsFirst, InMap, LoopRetry, acceptVars, sweepVars, sessionVars
  <2>3. OneSweep'
    BY <1>0, <1>5 DEF TypeOK, OneSweep, LoopRetry, acceptVars, sweepVars, sessionVars
  <2>4. SweepCovers'
    BY <1>0, <1>5 DEF TypeOK, SweepCovers, OneSweep, LoopsFirst, Callers, LoopRetry, acceptVars, sweepVars, sessionVars
  <2>5. AbortTakesEffect'
    BY <1>0, <1>5 DEF TypeOK, AbortTakesEffect, InMap, LoopRetry, acceptVars, sweepVars, sessionVars
  <2>6. RunsTask'
    BY <1>0, <1>5 DEF TypeOK, RunsTask, SocketsHeld, InMap, LoopRetry, acceptVars, sweepVars, sessionVars
  <2> QED
    BY <2>1, <2>2, <2>3, <2>4, <2>5, <2>6 DEF IInv
<1>6. CASE HandleAccept(l)
  <2>1. TypeOK'
    BY <1>0, <1>6 DEF TypeOK, SocketsHeld, OneSweep, InMap, Tasks, HandleAccept, acceptVars, sweepVars, sessionVars
  <2>2. SocketsHeld' /\ LoopsFirst'
    BY <1>0, <1>6 DEF TypeOK, SocketsHeld, LoopsFirst, InMap, HandleAccept, acceptVars, sweepVars, sessionVars
  <2>3. OneSweep'
    BY <1>0, <1>6 DEF TypeOK, OneSweep, HandleAccept, acceptVars, sweepVars, sessionVars
  <2>4. SweepCovers'
    BY <1>0, <1>6 DEF TypeOK, SweepCovers, OneSweep, LoopsFirst, Callers, HandleAccept, acceptVars, sweepVars, sessionVars
  <2>5. AbortTakesEffect'
    BY <1>0, <1>6 DEF TypeOK, AbortTakesEffect, InMap, HandleAccept, acceptVars, sweepVars, sessionVars
  <2>6. RunsTask'
    BY <1>0, <1>6 DEF TypeOK, RunsTask, SocketsHeld, InMap, HandleAccept, acceptVars, sweepVars, sessionVars
  <2> QED
    BY <2>1, <2>2, <2>3, <2>4, <2>5, <2>6 DEF IInv
<1> QED
  BY <1>1, <1>2, <1>3, <1>4, <1>5, <1>6 DEF Loop

\* The steps of a session keep it.
LEMMA SessionStep ==
  ASSUME IInv, NEW c \in Conns, Session(c)
  PROVE  IInv'
<1> USE ConstantsAssumption
<1>0. TypeOK /\ RunsTask /\ SocketsHeld /\ LoopsFirst /\ OneSweep /\ SweepCovers /\ AbortTakesEffect
  BY DEF IInv
<1>1. CASE RunTest(c)
  <2>1. TypeOK'
    BY <1>0, <1>1 DEF TypeOK, InMap, Tasks, RunTest, acceptVars, sweepVars, sessionVars
  <2>2. SocketsHeld' /\ LoopsFirst'
    BY <1>0, <1>1 DEF TypeOK, SocketsHeld, LoopsFirst, InMap, RunTest, acceptVars, sweepVars, sessionVars
  <2>3. OneSweep'
    BY <1>0, <1>1 DEF TypeOK, OneSweep, RunTest, acceptVars, sweepVars, sessionVars
  <2>4. SweepCovers'
    BY <1>0, <1>1 DEF TypeOK, SweepCovers, OneSweep, LoopsFirst, Callers, RunTest, acceptVars, sweepVars, sessionVars
  <2>5. AbortTakesEffect'
    BY <1>0, <1>1 DEF TypeOK, AbortTakesEffect, InMap, RunTest, acceptVars, sweepVars, sessionVars
  <2>6. RunsTask'
    BY <1>0, <1>1 DEF TypeOK, RunsTask, SocketsHeld, InMap, RunTest, acceptVars, sweepVars, sessionVars
  <2> QED
    BY <2>1, <2>2, <2>3, <2>4, <2>5, <2>6 DEF IInv
<1>2. CASE ThenReturns(c)
  <2>1. TypeOK'
    BY <1>0, <1>2 DEF TypeOK, InMap, Tasks, ThenReturns, NextTasks, acceptVars, sweepVars, sessionVars
  <2>2. SocketsHeld' /\ LoopsFirst'
    BY <1>0, <1>2 DEF TypeOK, SocketsHeld, LoopsFirst, InMap, ThenReturns, acceptVars, sweepVars, sessionVars
  <2>3. OneSweep'
    BY <1>0, <1>2 DEF TypeOK, OneSweep, ThenReturns, acceptVars, sweepVars, sessionVars
  <2>4. SweepCovers'
    BY <1>0, <1>2 DEF TypeOK, SweepCovers, OneSweep, LoopsFirst, Callers, ThenReturns, acceptVars, sweepVars, sessionVars
  <2>5. AbortTakesEffect'
    BY <1>0, <1>2 DEF TypeOK, AbortTakesEffect, InMap, ThenReturns, NextTasks, acceptVars, sweepVars, sessionVars
  <2>6. RunsTask'
    BY <1>0, <1>2 DEF TypeOK, RunsTask, SocketsHeld, InMap, ThenReturns, acceptVars, sweepVars, sessionVars
  <2> QED
    BY <2>1, <2>2, <2>3, <2>4, <2>5, <2>6 DEF IInv
<1>3. CASE ThenThrows(c)
  <2>1. TypeOK'
    BY <1>0, <1>3 DEF TypeOK, InMap, Tasks, ThenThrows, acceptVars, sweepVars, sessionVars
  <2>2. SocketsHeld' /\ LoopsFirst'
    BY <1>0, <1>3 DEF TypeOK, SocketsHeld, LoopsFirst, InMap, ThenThrows, acceptVars, sweepVars, sessionVars
  <2>3. OneSweep'
    BY <1>0, <1>3 DEF TypeOK, OneSweep, ThenThrows, acceptVars, sweepVars, sessionVars
  <2>4. SweepCovers'
    BY <1>0, <1>3 DEF TypeOK, SweepCovers, OneSweep, LoopsFirst, Callers, ThenThrows, acceptVars, sweepVars, sessionVars
  <2>5. AbortTakesEffect'
    BY <1>0, <1>3 DEF TypeOK, AbortTakesEffect, InMap, ThenThrows, acceptVars, sweepVars, sessionVars
  <2>6. RunsTask'
    BY <1>0, <1>3 DEF TypeOK, RunsTask, SocketsHeld, InMap, ThenThrows, acceptVars, sweepVars, sessionVars
  <2> QED
    BY <2>1, <2>2, <2>3, <2>4, <2>5, <2>6 DEF IInv
<1>4. CASE WebsocketAccepted(c)
  <2>1. TypeOK'
    BY <1>0, <1>4 DEF TypeOK, InMap, Tasks, WebsocketAccepted, acceptVars, sweepVars, sessionVars
  <2>2. SocketsHeld' /\ LoopsFirst'
    BY <1>0, <1>4 DEF TypeOK, SocketsHeld, LoopsFirst, InMap, WebsocketAccepted, acceptVars, sweepVars, sessionVars
  <2>3. OneSweep'
    BY <1>0, <1>4 DEF TypeOK, OneSweep, WebsocketAccepted, acceptVars, sweepVars, sessionVars
  <2>4. SweepCovers'
    BY <1>0, <1>4 DEF TypeOK, SweepCovers, OneSweep, LoopsFirst, Callers, WebsocketAccepted, acceptVars, sweepVars, sessionVars
  <2>5. AbortTakesEffect'
    BY <1>0, <1>4 DEF TypeOK, AbortTakesEffect, InMap, WebsocketAccepted, acceptVars, sweepVars, sessionVars
  <2>6. RunsTask'
    BY <1>0, <1>4 DEF TypeOK, RunsTask, SocketsHeld, InMap, WebsocketAccepted, acceptVars, sweepVars, sessionVars
  <2> QED
    BY <2>1, <2>2, <2>3, <2>4, <2>5, <2>6 DEF IInv
<1>5. CASE WebsocketClosed(c)
  <2>1. TypeOK'
    BY <1>0, <1>5 DEF TypeOK, InMap, Tasks, WebsocketClosed, acceptVars, sweepVars, sessionVars
  <2>2. SocketsHeld' /\ LoopsFirst'
    BY <1>0, <1>5 DEF TypeOK, SocketsHeld, LoopsFirst, InMap, WebsocketClosed, acceptVars, sweepVars, sessionVars
  <2>3. OneSweep'
    BY <1>0, <1>5 DEF TypeOK, OneSweep, WebsocketClosed, acceptVars, sweepVars, sessionVars
  <2>4. SweepCovers'
    BY <1>0, <1>5 DEF TypeOK, SweepCovers, OneSweep, LoopsFirst, Callers, WebsocketClosed, acceptVars, sweepVars, sessionVars
  <2>5. AbortTakesEffect'
    BY <1>0, <1>5 DEF TypeOK, AbortTakesEffect, InMap, WebsocketClosed, acceptVars, sweepVars, sessionVars
  <2>6. RunsTask'
    BY <1>0, <1>5 DEF TypeOK, RunsTask, SocketsHeld, InMap, WebsocketClosed, acceptVars, sweepVars, sessionVars
  <2> QED
    BY <2>1, <2>2, <2>3, <2>4, <2>5, <2>6 DEF IInv
<1>6. CASE StoreNext(c)
  <2>1. TypeOK'
    BY <1>0, <1>6 DEF TypeOK, InMap, Tasks, StoreNext, acceptVars, sweepVars, sessionVars
  <2>2. SocketsHeld' /\ LoopsFirst'
    BY <1>0, <1>6 DEF TypeOK, SocketsHeld, LoopsFirst, InMap, StoreNext, acceptVars, sweepVars, sessionVars
  <2>3. OneSweep'
    BY <1>0, <1>6 DEF TypeOK, OneSweep, StoreNext, acceptVars, sweepVars, sessionVars
  <2>4. SweepCovers'
    BY <1>0, <1>6 DEF TypeOK, SweepCovers, OneSweep, LoopsFirst, Callers, StoreNext, acceptVars, sweepVars, sessionVars
  <2>5. AbortTakesEffect'
    BY <1>0, <1>6 DEF TypeOK, AbortTakesEffect, InMap, StoreNext, acceptVars, sweepVars, sessionVars
  <2>6. RunsTask'
    BY <1>0, <1>6 DEF TypeOK, RunsTask, SocketsHeld, InMap, StoreNext, acceptVars, sweepVars, sessionVars
  <2> QED
    BY <2>1, <2>2, <2>3, <2>4, <2>5, <2>6 DEF IInv
<1>7. CASE Erase(c)
  <2>1. TypeOK'
    BY <1>0, <1>7 DEF TypeOK, SocketsHeld, OneSweep, InMap, Tasks, Erase, acceptVars, sweepVars, sessionVars
  <2>2. SocketsHeld' /\ LoopsFirst'
    BY <1>0, <1>7 DEF TypeOK, SocketsHeld, LoopsFirst, InMap, Erase, acceptVars, sweepVars, sessionVars
  <2>3. OneSweep'
    BY <1>0, <1>7 DEF TypeOK, OneSweep, Erase, acceptVars, sweepVars, sessionVars
  <2>4. SweepCovers'
    BY <1>0, <1>7 DEF TypeOK, SweepCovers, OneSweep, LoopsFirst, Callers, Erase, acceptVars, sweepVars, sessionVars
  <2>5. AbortTakesEffect'
    BY <1>0, <1>7 DEF TypeOK, AbortTakesEffect, InMap, Erase, acceptVars, sweepVars, sessionVars
  <2>6. RunsTask'
    BY <1>0, <1>7 DEF TypeOK, RunsTask, SocketsHeld, InMap, Erase, acceptVars, sweepVars, sessionVars
  <2> QED
    BY <2>1, <2>2, <2>3, <2>4, <2>5, <2>6 DEF IInv
<1> QED
  BY <1>1, <1>2, <1>3, <1>4, <1>5, <1>6, <1>7 DEF Session

\* The steps of a sweep keep it.
LEMMA SweepStep ==
  ASSUME IInv, NEW x \in Callers, StopAccepting(x) \/ Sweep(x)
  PROVE  IInv'
<1> USE ConstantsAssumption
<1>0. TypeOK /\ RunsTask /\ SocketsHeld /\ LoopsFirst /\ OneSweep /\ SweepCovers /\ AbortTakesEffect
  BY DEF IInv
<1>1. CASE StopAccepting(x)
  <2>1. TypeOK'
    BY <1>0, <1>1 DEF TypeOK, InMap, Tasks, StopAccepting, acceptVars, sweepVars, sessionVars
  <2>2. SocketsHeld' /\ LoopsFirst'
    BY <1>0, <1>1 DEF TypeOK, SocketsHeld, LoopsFirst, InMap, StopAccepting, acceptVars, sweepVars, sessionVars
  <2>3. OneSweep'
    BY <1>0, <1>1 DEF TypeOK, OneSweep, StopAccepting, acceptVars, sweepVars, sessionVars
  <2>4. SweepCovers'
    BY <1>0, <1>1 DEF TypeOK, SweepCovers, OneSweep, LoopsFirst, Callers, StopAccepting, acceptVars, sweepVars, sessionVars
  <2>5. AbortTakesEffect'
    BY <1>0, <1>1 DEF TypeOK, AbortTakesEffect, InMap, StopAccepting, acceptVars, sweepVars, sessionVars
  <2>6. RunsTask'
    BY <1>0, <1>1 DEF TypeOK, RunsTask, SocketsHeld, InMap, StopAccepting, acceptVars, sweepVars, sessionVars
  <2> QED
    BY <2>1, <2>2, <2>3, <2>4, <2>5, <2>6 DEF IInv
<1>2. CASE SweepLock(x)
  <2>1. TypeOK'
    BY <1>0, <1>2 DEF TypeOK, InMap, Tasks, SweepLock, acceptVars, sweepVars, sessionVars
  <2>2. SocketsHeld' /\ LoopsFirst'
    BY <1>0, <1>2 DEF TypeOK, SocketsHeld, LoopsFirst, InMap, SweepLock, acceptVars, sweepVars, sessionVars
  <2>3. OneSweep'
    BY <1>0, <1>2 DEF TypeOK, OneSweep, SweepLock, acceptVars, sweepVars, sessionVars
  <2>4. SweepCovers'
    BY <1>0, <1>2 DEF TypeOK, SweepCovers, OneSweep, LoopsFirst, Callers, SweepLock, acceptVars, sweepVars, sessionVars
  <2>5. AbortTakesEffect'
    BY <1>0, <1>2 DEF TypeOK, AbortTakesEffect, InMap, SweepLock, acceptVars, sweepVars, sessionVars
  <2>6. RunsTask'
    BY <1>0, <1>2 DEF TypeOK, RunsTask, SocketsHeld, InMap, SweepLock, acceptVars, sweepVars, sessionVars
  <2> QED
    BY <2>1, <2>2, <2>3, <2>4, <2>5, <2>6 DEF IInv
<1>3. ASSUME NEW c \in Conns, SweepMark(x, c) PROVE IInv'
  <2>1. TypeOK'
    BY <1>0, <1>3 DEF TypeOK, InMap, Tasks, SweepMark, acceptVars, sweepVars, sessionVars
  <2>2. SocketsHeld' /\ LoopsFirst'
    BY <1>0, <1>3 DEF TypeOK, SocketsHeld, LoopsFirst, InMap, SweepMark, acceptVars, sweepVars, sessionVars
  <2>3. OneSweep'
    BY <1>0, <1>3 DEF TypeOK, OneSweep, SweepMark, acceptVars, sweepVars, sessionVars
  <2>4. SweepCovers'
    BY <1>0, <1>3 DEF TypeOK, SweepCovers, OneSweep, LoopsFirst, Callers, SweepMark, acceptVars, sweepVars, sessionVars
  <2>5. AbortTakesEffect'
    BY <1>0, <1>3 DEF TypeOK, AbortTakesEffect, InMap, SweepMark, acceptVars, sweepVars, sessionVars
  <2>6. RunsTask'
    BY <1>0, <1>3 DEF TypeOK, RunsTask, SocketsHeld, InMap, SweepMark, acceptVars, sweepVars, sessionVars
  <2> QED
    BY <2>1, <2>2, <2>3, <2>4, <2>5, <2>6 DEF IInv
<1>4. CASE SweepAbortTask(x)
  <2>1. TypeOK'
    BY <1>0, <1>4 DEF TypeOK, InMap, Tasks, SweepAbortTask, AbortedStream, Moved, acceptVars, sweepVars, sessionVars
  <2>2. SocketsHeld' /\ LoopsFirst'
    BY <1>0, <1>4 DEF TypeOK, SocketsHeld, LoopsFirst, InMap, SweepAbortTask, acceptVars, sweepVars, sessionVars
  <2>3. OneSweep'
    BY <1>0, <1>4 DEF TypeOK, OneSweep, SweepAbortTask, acceptVars, sweepVars, sessionVars
  <2>4. SweepCovers'
    BY <1>0, <1>4 DEF TypeOK, SweepCovers, OneSweep, LoopsFirst, Callers, SweepAbortTask, acceptVars, sweepVars, sessionVars
  <2>5. AbortTakesEffect'
    <3> SUFFICES ASSUME NEW c \in sessions \cap abort, conn[c] = "then"
                 PROVE  stream'[c] # "open" \/ task[c] \in {"handshake", "websocket"}
      BY <1>4 DEF AbortTakesEffect, SweepAbortTask, acceptVars, sweepVars, sessionVars
    <3>1. CASE c = marked
      <4>1. ~Moved(c) /\ c \in Conns /\ task[c] \in Tasks \cup {"null"}
        BY <1>0 DEF TypeOK, Moved
      <4>2. task[c] # "null"
        BY <1>0, <4>1 DEF RunsTask
      <4>3. stream'[c] = AbortedStream(c)
        BY <1>0, <1>4, <3>1, <4>1 DEF TypeOK, SweepAbortTask
      <4> QED
        BY <4>1, <4>2, <4>3 DEF AbortedStream, Tasks
    <3>2. CASE c # marked
      BY <1>0, <1>4, <3>2 DEF TypeOK, AbortTakesEffect, SweepAbortTask
    <3> QED
      BY <3>1, <3>2
  <2>6. RunsTask'
    BY <1>0, <1>4 DEF TypeOK, RunsTask, SocketsHeld, InMap, SweepAbortTask, acceptVars, sweepVars, sessionVars
  <2> QED
    BY <2>1, <2>2, <2>3, <2>4, <2>5, <2>6 DEF IInv
<1>5. CASE SweepThrows(x)
  <2>1. TypeOK'
    BY <1>0, <1>5 DEF TypeOK, InMap, Tasks, SweepThrows, acceptVars, sweepVars, sessionVars
  <2>2. SocketsHeld' /\ LoopsFirst'
    BY <1>0, <1>5 DEF TypeOK, SocketsHeld, LoopsFirst, OneSweep, InMap, SweepThrows, acceptVars, sweepVars, sessionVars
  <2>3. OneSweep'
    BY <1>0, <1>5 DEF TypeOK, OneSweep, SweepThrows, acceptVars, sweepVars, sessionVars
  <2>4. SweepCovers'
    BY <1>0, <1>5 DEF TypeOK, SweepCovers, OneSweep, LoopsFirst, Callers, SweepThrows, acceptVars, sweepVars, sessionVars
  <2>5. AbortTakesEffect'
    BY <1>0, <1>5 DEF TypeOK, AbortTakesEffect, InMap, SweepThrows, acceptVars, sweepVars, sessionVars
  <2>6. RunsTask'
    BY <1>0, <1>5 DEF TypeOK, RunsTask, SocketsHeld, InMap, SweepThrows, acceptVars, sweepVars, sessionVars
  <2> QED
    BY <2>1, <2>2, <2>3, <2>4, <2>5, <2>6 DEF IInv
<1>6. CASE SweepDone(x)
  <2>1. TypeOK'
    BY <1>0, <1>6 DEF TypeOK, InMap, Tasks, SweepDone, acceptVars, sweepVars, sessionVars
  <2>2. SocketsHeld' /\ LoopsFirst'
    BY <1>0, <1>6 DEF TypeOK, SocketsHeld, LoopsFirst, OneSweep, InMap, SweepDone, acceptVars, sweepVars, sessionVars
  <2>3. OneSweep'
    BY <1>0, <1>6 DEF TypeOK, OneSweep, SweepDone, acceptVars, sweepVars, sessionVars
  <2>4. SweepCovers'
    BY <1>0, <1>6 DEF TypeOK, SweepCovers, OneSweep, LoopsFirst, Callers, SweepDone, acceptVars, sweepVars, sessionVars
  <2>5. AbortTakesEffect'
    BY <1>0, <1>6 DEF TypeOK, AbortTakesEffect, InMap, SweepDone, acceptVars, sweepVars, sessionVars
  <2>6. RunsTask'
    BY <1>0, <1>6 DEF TypeOK, RunsTask, SocketsHeld, InMap, SweepDone, acceptVars, sweepVars, sessionVars
  <2> QED
    BY <2>1, <2>2, <2>3, <2>4, <2>5, <2>6 DEF IInv
<1> QED
  BY <1>1, <1>2, <1>3, <1>4, <1>5, <1>6 DEF Sweep

LEMMA LoopsEndedStep ==
  ASSUME IInv, LoopsEnded
  PROVE  IInv'
<1>1. TypeOK'
  BY DEF IInv, TypeOK, LoopsEnded, acceptVars, sessionVars
<1>2. SocketsHeld' /\ LoopsFirst' /\ OneSweep'
  BY DEF IInv, TypeOK, SocketsHeld, LoopsFirst, OneSweep, LoopsEnded, acceptVars, sessionVars
<1>3. RunsTask' /\ SweepCovers' /\ AbortTakesEffect'
  BY DEF IInv, TypeOK, RunsTask, SweepCovers, OneSweep, Callers, AbortTakesEffect, LoopsEnded, acceptVars, sessionVars
<1> QED
  BY <1>1, <1>2, <1>3 DEF IInv

\* IInv is inductive.
LEMMA NextIInv == IInv /\ [Next]_vars => IInv'
<1> SUFFICES ASSUME IInv, [Next]_vars PROVE IInv'
  OBVIOUS
<1>1. CASE UNCHANGED vars
  BY <1>1 DEF vars, IInv, TypeOK, RunsTask, SocketsHeld, LoopsFirst, OneSweep, SweepCovers, AbortTakesEffect
<1>2. CASE Next
  BY <1>2, LoopStep, SessionStep, SweepStep, LoopsEndedStep DEF Next
<1> QED
  BY <1>1, <1>2
-----------------------------------------------------------------------------
\* The invariant holds in every state of every execution.
THEOREM Invariance == Spec => []IInv
  BY InitIInv, NextIInv, PTL DEF Spec

\* The server's state is well typed; session_map_ is exactly the set of running
\* sessions, also in the middle of a sweep.
THEOREM TypeCorrect == Spec => []TypeOK
<1>1. IInv => TypeOK
  BY DEF IInv
<1> QED
  BY <1>1, Invariance, PTL

\* When co_run() has returned nothing was missed by the two sweeps.
THEOREM ShutdownIsComplete == Spec => []NothingEscapesShutdown
<1>1. IInv => NothingEscapesShutdown
  BY DEF IInv, NothingEscapesShutdown, SocketsHeld, LoopsFirst, SweepCovers
<1> QED
  BY <1>1, Invariance, PTL

\* abort() is never lost between two tasks of a session.
THEOREM AbortIsEffective == Spec => []AbortTakesEffect
<1>1. IInv => AbortTakesEffect
  BY DEF IInv
<1> QED
  BY <1>1, Invariance, PTL
=============================================================================
