-------------------------- MODULE ActionQueueProofs --------------------------
(* Theorems about ActionQueue for any number of handlers, stoppers and        *)
(* threads.  The argument is about who owns running_: a push that has set it  *)
(* and not yet spawned, or an instance of perform() that has not given it     *)
(* back.  There is exactly one owner while running_ is set.                   *)
EXTENDS ActionQueue, SequenceFacts, TLAPS

Owns(h) == push[h] = "spawning" \/ perform[h] \in Live \cup {"threw"}

\* running_ is set exactly while it has an owner, and it has one owner at most.
OneOwner ==
  /\ running <=> \E h \in Handlers : Owns(h)
  /\ \A i, j \in Handlers : Owns(i) /\ Owns(j) => i = j
  /\ \A h \in Handlers : push[h] # "returned" => perform[h] = "none"
  /\ \A i \in Handlers : perform[i] \in Exiting => ~running

\* A perform() has a handler from its pop to its end, and that handler was pushed.
JobsPushed ==
  \A i \in Handlers :
    /\ job[i] # NoHandler <=> perform[i] \in {"popped", "handler"}
    /\ job[i] # NoHandler => push[job[i]] \in {"spawning", "returned"}

\* Only cancellation leaves work in the queue without an owner of running_, or
\* ends a perform() with an exception.
Abandoned ==
  /\ que # <<>> /\ ~running => cancelled # {}
  /\ \A i \in Handlers : perform[i] = "threw" => i \in cancelled

\* The inductive invariant.
IInv == TypeOK /\ OneOwner /\ JobsPushed /\ Abandoned
-----------------------------------------------------------------------------
LEMMA InitIInv == Init => IInv
<1> SUFFICES ASSUME Init PROVE IInv
  OBVIOUS
<1>1. Range(que) = {} /\ IsInjective(que) /\ que \in Seq(Handlers)
  BY DEF Init, Range, IsInjective
<1>2. QueueOK
  BY <1>1 DEF QueueOK
<1>3. Types
  BY DEF Init, Types, Live, Exiting
<1>4. OneOwner /\ JobsPushed /\ Abandoned
  BY DEF Init, OneOwner, Owns, JobsPushed, Abandoned, Live, Exiting
<1> QED
  BY <1>2, <1>3, <1>4 DEF IInv, TypeOK

LEMMA PushStep ==
  ASSUME IInv, NEW h \in Handlers, PushGate(h) \/ PushEnqueue(h) \/ PushSpawn(h)
  PROVE  IInv'
<1>0. QueueOK /\ Types /\ OneOwner /\ JobsPushed /\ Abandoned
  BY DEF IInv, TypeOK
<1>1. CASE PushGate(h)
  <2>1. QueueOK'
    BY <1>0, <1>1 DEF QueueOK, Types, PushGate, Jobs
  <2>2. Types'
    BY <1>0, <1>1 DEF Types, PushGate
  <2>3. OneOwner' /\ Abandoned'
    BY <1>0, <1>1 DEF Types, OneOwner, Owns, Abandoned, PushGate
  <2>4. JobsPushed'
    BY <1>0, <1>1 DEF Types, JobsPushed, PushGate
  <2> QED
    BY <2>1, <2>2, <2>3, <2>4 DEF IInv, TypeOK
<1>2. CASE PushEnqueue(h)
  <2>0. h \notin Range(que) /\ h \notin Jobs
    BY <1>0, <1>2 DEF QueueOK, JobsPushed, Jobs, PushEnqueue
  <2>1. QueueOK'
    <3>1. /\ que' \in Seq(Handlers) /\ IsInjective(que')
          /\ Range(que') = Range(que) \cup {h}
      BY <1>0, <1>2, <2>0, AppendFacts DEF QueueOK, PushEnqueue
    <3>2. push'[h] \in {"spawning", "returned"} /\ Jobs' = Jobs
      BY <1>0, <1>2 DEF Types, PushEnqueue, Jobs
    <3>3. \A g \in Range(que) : push'[g] \in {"spawning", "returned"}
      BY <1>0, <1>2 DEF Types, QueueOK, PushEnqueue
    <3> QED
      BY <1>0, <2>0, <3>1, <3>2, <3>3 DEF QueueOK
  <2>2. Types'
    BY <1>0, <1>2 DEF Types, PushEnqueue
  <2>3. OneOwner'
    BY <1>0, <1>2 DEF Types, OneOwner, Owns, PushEnqueue, MutexFree, Live
  <2>4. JobsPushed' /\ Abandoned'
    BY <1>0, <1>2 DEF Types, JobsPushed, Abandoned, PushEnqueue
  <2> QED
    BY <2>1, <2>2, <2>3, <2>4 DEF IInv, TypeOK
<1>3. CASE PushSpawn(h)
  <2>1. QueueOK'
    BY <1>0, <1>3 DEF QueueOK, Types, PushSpawn, Jobs
  <2>2. Types'
    BY <1>0, <1>3 DEF Types, PushSpawn, Live
  <2>3. OneOwner'
    BY <1>0, <1>3 DEF Types, OneOwner, Owns, PushSpawn, Live, Exiting
  <2>4. JobsPushed' /\ Abandoned'
    BY <1>0, <1>3 DEF Types, OneOwner, JobsPushed, Abandoned, PushSpawn
  <2> QED
    BY <2>1, <2>2, <2>3, <2>4 DEF IInv, TypeOK
<1> QED
  BY <1>1, <1>2, <1>3

LEMMA ClearStep ==
  ASSUME IInv, Clear
  PROVE  IInv'
<1>1. que' \in Seq(Handlers) /\ IsInjective(que') /\ Range(que') = {}
  BY DEF Clear, Range, IsInjective
<1>2. TypeOK'
  BY <1>1 DEF IInv, TypeOK, QueueOK, Types, Clear
<1>3. OneOwner' /\ JobsPushed' /\ Abandoned'
  BY DEF IInv, OneOwner, Owns, JobsPushed, Abandoned, Clear
<1> QED
  BY <1>2, <1>3 DEF IInv

LEMMA PerformStep ==
  ASSUME IInv, NEW i \in Handlers, Perform(i)
  PROVE  IInv'
<1> USE ConstantsAssumption
<1>0. QueueOK /\ Types /\ OneOwner /\ JobsPushed /\ Abandoned
  BY DEF IInv, TypeOK
<1>1. CASE PerformStart(i)
  <2>1. TypeOK'
    BY <1>0, <1>1 DEF TypeOK, QueueOK, Types, Jobs, PerformStart, Live
  <2>2. OneOwner' /\ JobsPushed' /\ Abandoned'
    BY <1>0, <1>1 DEF Types, OneOwner, Owns, JobsPushed, Abandoned, PerformStart, Live, Exiting
  <2> QED
    BY <2>1, <2>2 DEF IInv
<1>2. CASE PerformPop(i)
  <2>1. /\ Head(que) \in Range(que) /\ Head(que) \in Handlers
        /\ que' \in Seq(Handlers) /\ IsInjective(que')
        /\ Range(que') = Range(que) \ {Head(que)}
    BY <1>0, <1>2, TailFacts DEF QueueOK, PerformPop
  <2>2. Jobs' \subseteq Jobs \cup {Head(que)}
    BY <1>0, <1>2 DEF Types, Jobs, PerformPop
  <2>3. QueueOK'
    BY <1>0, <1>2, <2>1, <2>2 DEF QueueOK, PerformPop
  <2>4. Types'
    BY <1>0, <1>2, <2>1 DEF Types, PerformPop, Live
  <2>5. JobsPushed'
    BY <1>0, <1>2, <2>1 DEF Types, QueueOK, JobsPushed, PerformPop
  <2>6. OneOwner'
    BY <1>0, <1>2 DEF Types, OneOwner, Owns, PerformPop, Live, Exiting
  <2>7. Abandoned'
    BY <1>0, <1>2 DEF Types, Abandoned, OneOwner, Owns, Live, PerformPop
  <2> QED
    BY <2>3, <2>4, <2>5, <2>6, <2>7 DEF IInv, TypeOK
<1>3. CASE PerformExit(i)
  <2>1. TypeOK'
    BY <1>0, <1>3, ZenonT(30) DEF TypeOK, QueueOK, Types, Jobs, PerformExit, Exiting
  <2>2. OneOwner'
    BY <1>0, <1>3 DEF Types, OneOwner, Owns, PerformExit, Live, Exiting
  <2>3. JobsPushed' /\ Abandoned'
    BY <1>0, <1>3 DEF Types, JobsPushed, Abandoned, PerformExit
  <2> QED
    BY <2>1, <2>2, <2>3 DEF IInv
<1>4. CASE PerformSignal(i)
  <2>1. TypeOK'
    BY <1>0, <1>4 DEF TypeOK, QueueOK, Types, Jobs, PerformSignal, WaitersReleased, Exiting
  <2>2. OneOwner' /\ JobsPushed' /\ Abandoned'
    BY <1>0, <1>4 DEF Types, OneOwner, Owns, JobsPushed, Abandoned, PerformSignal, Live, Exiting
  <2> QED
    BY <2>1, <2>2 DEF IInv
<1>5. CASE PerformCancelTimer(i)
  <2>1. TypeOK'
    BY <1>0, <1>5 DEF TypeOK, QueueOK, Types, Jobs, PerformCancelTimer, WaitersReleased
  <2>2. OneOwner' /\ JobsPushed' /\ Abandoned'
    BY <1>0, <1>5 DEF Types, OneOwner, Owns, JobsPushed, Abandoned, PerformCancelTimer, Live, Exiting
  <2> QED
    BY <2>1, <2>2 DEF IInv
<1>6. CASE HandlerStart(i)
  <2>1. TypeOK'
    BY <1>0, <1>6 DEF TypeOK, QueueOK, Types, Jobs, HandlerStart, Live
  <2>2. OneOwner' /\ JobsPushed' /\ Abandoned'
    BY <1>0, <1>6 DEF Types, OneOwner, Owns, JobsPushed, Abandoned, HandlerStart, Live, Exiting
  <2> QED
    BY <2>1, <2>2 DEF IInv
<1>7. CASE HandlerDone(i)
  <2>1. TypeOK'
    BY <1>0, <1>7 DEF TypeOK, QueueOK, Types, Jobs, HandlerDone, Live
  <2>2. OneOwner' /\ JobsPushed' /\ Abandoned'
    BY <1>0, <1>7 DEF Types, OneOwner, Owns, JobsPushed, Abandoned, HandlerDone, Live, Exiting
  <2> QED
    BY <2>1, <2>2 DEF IInv
<1>8. CASE PerformThrows(i)
  <2>1. TypeOK'
    BY <1>0, <1>8 DEF TypeOK, QueueOK, Types, Jobs, PerformThrows
  <2>2. OneOwner' /\ JobsPushed' /\ Abandoned'
    BY <1>0, <1>8 DEF Types, OneOwner, Owns, JobsPushed, Abandoned, PerformThrows, Live, Exiting
  <2> QED
    BY <2>1, <2>2 DEF IInv
<1> QED
  BY <1>1, <1>2, <1>3, <1>4, <1>5, <1>6, <1>7, <1>8 DEF Perform

LEMMA ShutdownStep ==
  ASSUME IInv, NEW s \in Stoppers,
         \/ ShutdownReadRunning(s) \/ ShutdownReadFlag(s) \/ ShutdownSet(s)
         \/ ShutdownEmit(s) \/ ShutdownWait(s)
  PROVE  IInv'
<1> USE DEF ShutdownReadRunning, ShutdownReadFlag, ShutdownSet, ShutdownEmit, ShutdownWait
<1>1. QueueOK'
  BY DEF IInv, TypeOK, QueueOK, Jobs
<1>2. Types'
  BY DEF IInv, TypeOK, Types
<1>3. OneOwner' /\ JobsPushed'
  BY DEF IInv, OneOwner, Owns, JobsPushed
<1>4. Abandoned'
  BY DEF IInv, Abandoned
<1> QED
  BY <1>1, <1>2, <1>3, <1>4 DEF IInv, TypeOK

\* IInv is inductive.
LEMMA NextIInv == IInv /\ [Next]_vars => IInv'
<1> SUFFICES ASSUME IInv, [Next]_vars PROVE IInv'
  OBVIOUS
<1>1. CASE UNCHANGED vars
  BY <1>1 DEF vars, IInv, TypeOK, QueueOK, Types, Jobs, OneOwner, Owns, JobsPushed, Abandoned
<1>2. CASE Next
  BY <1>2, PushStep, PerformStep, ClearStep, ShutdownStep DEF Next
<1> QED
  BY <1>1, <1>2
-----------------------------------------------------------------------------
\* The invariant holds in every state of every execution.
THEOREM Invariance == Spec => []IInv
  BY InitIInv, NextIInv, PTL DEF Spec

\* Every reachable state of the queue is well typed, and no handler is queued
\* twice or both queued and held by a perform().
THEOREM TypeCorrect == Spec => []TypeOK
<1>1. IInv => TypeOK
  BY DEF IInv
<1> QED
  BY <1>1, Invariance, PTL

\* running_ and que_mutex_ together keep perform() single, whatever the number
\* of pushing threads, executor threads and shutdowns.
THEOREM SinglePerform == Spec => []AtMostOnePerform
<1>1. IInv => AtMostOnePerform
  <2> SUFFICES ASSUME IInv, NEW i \in Handlers, NEW j \in Handlers
               PROVE  /\ perform[i] \in Live /\ perform[j] \in Live => i = j
                      /\ ~(push[i] = "spawning" /\ perform[j] \in Live)
    BY DEF AtMostOnePerform
  <2> QED
    BY DEF IInv, OneOwner, Owns, Live
<1> QED
  BY <1>1, Invariance, PTL

\* Queued work always has a perform() that will take it, unless a shutdown
\* cancelled one.
THEOREM WorkIsOwned == Spec => []NoStrandedWork
<1>1. IInv => NoStrandedWork
  BY DEF IInv, NoStrandedWork, OneOwner, Owns, Abandoned
<1> QED
  BY <1>1, Invariance, PTL
-----------------------------------------------------------------------------
Pushed == {h \in Handlers : push[h] \in {"spawning", "returned"}}

\* The handlers of different instances cannot both be active: the instance that
\* holds one is the owner of running_.
LEMMA SoleJob ==
  ASSUME IInv, NEW i \in Handlers, perform[i] \in Live
  PROVE  Jobs = {job[i]} \ {NoHandler}
<1>1. \A j \in Handlers : j # i => perform[j] \notin Live
  BY DEF IInv, OneOwner, Owns
<1>2. \A j \in Handlers : j # i => job[j] = NoHandler
  BY <1>1 DEF IInv, JobsPushed, Live
<1> QED
  BY <1>2 DEF Jobs

LEMMA RefinesStep == IInv /\ [Next]_vars => [Abstract!Next]_(Abstract!vars)
<1> SUFFICES ASSUME IInv, [Next]_vars
             PROVE  Abstract!Next \/ UNCHANGED <<que, Jobs, Pushed>>
  BY DEF Abstract!vars, Pushed
<1> USE ConstantsAssumption
<1>t. Types /\ QueueOK /\ JobsPushed
  BY DEF IInv, TypeOK
<1>1. CASE UNCHANGED vars
  BY <1>1 DEF vars, Jobs, Pushed
<1>2. ASSUME NEW h \in Handlers, PushGate(h)
      PROVE  UNCHANGED <<que, Jobs, Pushed>>
  BY <1>t, <1>2 DEF PushGate, Types, Jobs, Pushed
<1>3. ASSUME NEW h \in Handlers, PushEnqueue(h)
      PROVE  Abstract!Submit(h)
  <2>1. h \notin Pushed /\ Pushed' = Pushed \cup {h}
    BY <1>t, <1>3 DEF PushEnqueue, Types, Pushed
  <2>2. que' = Append(que, h) /\ UNCHANGED Jobs
    BY <1>3 DEF PushEnqueue, Jobs
  <2> QED
    BY <2>1, <2>2 DEF Abstract!Submit, Pushed
<1>4. ASSUME NEW h \in Handlers, PushSpawn(h)
      PROVE  UNCHANGED <<que, Jobs, Pushed>>
  BY <1>t, <1>4 DEF PushSpawn, Types, Jobs, Pushed
<1>5. ASSUME Clear
      PROVE  Abstract!Discard
  BY <1>5 DEF Clear, Abstract!Discard, Jobs
<1>6. ASSUME NEW i \in Handlers, PerformPop(i)
      PROVE  Abstract!Begin
  <2>1. job[i] = NoHandler /\ Jobs = {}
    BY <1>t, <1>6, SoleJob DEF PerformPop, JobsPushed, Live
  <2>2. Head(que) \in Handlers
    BY <1>t, <1>6 DEF PerformPop, QueueOK
  <2>3. Jobs' = {Head(que)}
    BY <1>t, <1>6, <2>1, <2>2 DEF PerformPop, Jobs, Types
  <2> QED
    BY <1>6, <2>1, <2>3 DEF PerformPop, Abstract!Begin
<1>7. ASSUME NEW i \in Handlers, HandlerDone(i) \/ PerformThrows(i)
      PROVE  UNCHANGED <<que, Jobs, Pushed>> \/ \E h \in Handlers : Abstract!End(h)
  <2>1. perform[i] \in Live
    BY <1>7 DEF HandlerDone, PerformThrows, Live
  <2>2. Jobs = {job[i]} \ {NoHandler}
    BY <2>1, SoleJob
  <2>3. \A j \in Handlers : j # i => job[j] = NoHandler
    BY <2>2, <2>1 DEF IInv, OneOwner, Owns, JobsPushed, Live
  <2>4. Jobs' = {}
    BY <1>t, <1>7, <2>3 DEF HandlerDone, PerformThrows, Jobs, Types
  <2>5. que' = que /\ push' = push
    BY <1>7 DEF HandlerDone, PerformThrows
  <2>6. CASE job[i] = NoHandler
    BY <2>2, <2>4, <2>5, <2>6 DEF Pushed
  <2>7. CASE job[i] # NoHandler
    <3>1. job[i] \in Handlers /\ Jobs = {job[i]}
      BY <1>t, <2>2, <2>7 DEF Types
    <3>2. Abstract!End(job[i])
      BY <2>4, <2>5, <3>1 DEF Abstract!End
    <3> QED
      BY <3>1, <3>2
  <2> QED
    BY <2>6, <2>7
<1>8. ASSUME NEW i \in Handlers,
             \/ PerformStart(i) \/ PerformExit(i) \/ PerformSignal(i)
             \/ PerformCancelTimer(i) \/ HandlerStart(i)
      PROVE  UNCHANGED <<que, Jobs, Pushed>>
  BY <1>8 DEF PerformStart, PerformExit, PerformSignal, PerformCancelTimer, HandlerStart, Jobs, Pushed
<1>9. ASSUME NEW s \in Stoppers,
             \/ ShutdownReadRunning(s) \/ ShutdownReadFlag(s) \/ ShutdownSet(s)
             \/ ShutdownEmit(s) \/ ShutdownWait(s)
      PROVE  UNCHANGED <<que, Jobs, Pushed>>
  BY <1>9 DEF ShutdownReadRunning, ShutdownReadFlag, ShutdownSet, ShutdownEmit, ShutdownWait, Jobs, Pushed
<1> QED
  BY <1>1, <1>2, <1>3, <1>4, <1>5, <1>6, <1>7, <1>8, <1>9 DEF Next, Perform, Abstract!Next

\* action_queue implements the serial executor: submission order, one handler
\* at a time, each at most once.
THEOREM Refinement == Spec => ExecutesSerially
<1>1. Init => Abstract!Init
  BY DEF Init, Abstract!Init, Jobs
<1> QED
  BY <1>1, Invariance, RefinesStep, PTL DEF Spec, ExecutesSerially, Abstract!Spec
=============================================================================
