--------------------------- MODULE ClientPoolProofs ---------------------------
(* Theorems about both client pools, for any number of clients, handles and   *)
(* servers and any max_size_.                                                 *)
EXTENDS ClientPool, SequenceFacts, TLAPS

\* An idle client is in the queue release() files it in.
Filed == \A k \in Keys : \A c \in Range(idle[k]) : FiledUnder(kind[c]) = k

\* The inductive invariant.
IInv ==
  /\ Types /\ HandlesOK /\ OnePlace /\ Filed
  /\ PoolBounded /\ NoDowngrade /\ NothingOutlivesPool
-----------------------------------------------------------------------------
LEMMA EmptyFacts ==
  ASSUME NEW S
  PROVE  <<>> \in Seq(S) /\ Range(<<>>) = {} /\ IsInjective(<<>>) /\ Len(<<>>) = 0
  BY DEF Range, IsInjective

LEMMA KeyFacts ==
  /\ \A k \in Keys : k.host \in Hosts /\ k.ssl \in BOOLEAN /\ FiledUnder(k) \in Keys
  /\ \A k \in Keys : FiledUnder(k).host = k.host /\ (FiledUnder(k).ssl => k.ssl)
  BY ConstantsAssumption DEF Keys, FiledUnder

LEMMA AnyKeyFacts == AnyKey \in Keys
<1>1. \E k \in Keys : TRUE
  <2>1. PICK a \in Hosts : TRUE
    BY ConstantsAssumption
  <2>2. [host |-> a, ssl |-> FALSE] \in Keys
    BY DEF Keys
  <2> QED
    BY <2>2
<1> QED
  BY <1>1 DEF AnyKey

LEMMA InitIInv == Init => IInv
<1> SUFFICES ASSUME Init PROVE IInv
  OBVIOUS
<1>1. Types
  BY AnyKeyFacts DEF Init, Types, Locking
<1>2. \A k \in Keys : idle[k] = <<>>
  BY DEF Init
<1>3. OnePlace /\ Filed /\ PoolBounded
  BY <1>2, EmptyFacts, ConstantsAssumption DEF Init, OnePlace, HeldOnce, IdleOnce, Filed, PoolBounded
<1>4. HandlesOK /\ NoDowngrade /\ NothingOutlivesPool
  BY DEF Init, HandlesOK, NoDowngrade, NothingOutlivesPool
<1> QED
  BY <1>1, <1>3, <1>4 DEF IInv

\* The queues hold clients, and only idle ones.
LEMMA IdleAreClients ==
  ASSUME IInv, NEW q \in Keys
  PROVE  Range(idle[q]) \subseteq Clients /\ \A c \in Range(idle[q]) : place[c] = "idle"
<1>1. Range(idle[q]) \subseteq Clients
  BY DEF IInv, Types, Range
<1>2. \A c \in Range(idle[q]) : place[c] = "idle"
  BY DEF IInv, OnePlace, IdleOnce
<1> QED
  BY <1>1, <1>2

\* acquire takes the head of a queue.
LEMMA AcquireReuseStep ==
  ASSUME IInv, NEW h \in Handles, NEW k \in Keys, AcquireReuse(h, k)
  PROVE  IInv'
<1> USE ConstantsAssumption
<1>0. Types /\ HandlesOK /\ HeldOnce /\ IdleOnce /\ Filed /\ PoolBounded /\ NoDowngrade
  BY DEF IInv, OnePlace
<1>1. idle[k] \in Seq(Clients) /\ idle[k] # <<>> /\ IsInjective(idle[k])
  BY <1>0 DEF Types, IdleOnce, AcquireReuse
<1> DEFINE c == Head(idle[k])
<1>2. /\ c \in Clients /\ c \in Range(idle[k])
      /\ Tail(idle[k]) \in Seq(Clients) /\ IsInjective(Tail(idle[k]))
      /\ Range(Tail(idle[k])) = Range(idle[k]) \ {c}
  BY <1>1, TailFacts
<1>3. Len(Tail(idle[k])) <= MaxSize
  BY <1>0, <1>1 DEF PoolBounded
<1>4. idle' = [idle EXCEPT ![k] = Tail(idle[k])] /\ place' = [place EXCEPT ![c] = "held"]
  BY DEF AcquireReuse
<1>5. /\ \A q \in Keys : idle'[q] = IF q = k THEN Tail(idle[k]) ELSE idle[q]
      /\ \A d \in Clients : place'[d] = IF d = c THEN "held" ELSE place[d]
  BY <1>0, <1>4 DEF Types
<1>6. /\ \A g \in Handles : conn'[g] = IF g = h THEN c ELSE conn[g]
      /\ \A g \in Handles : want'[g] = IF g = h THEN k ELSE want[g]
      /\ \A g \in Handles : handle'[g] = IF g = h THEN "live" ELSE handle[g]
      /\ kind' = kind /\ shared' = shared /\ shared
  BY <1>0, Zenon DEF Types, AcquireReuse
<1> HIDE DEF c
<1>7. place[c] = "idle" /\ FiledUnder(kind[c]) = k /\ kind[c] \in Keys
  BY <1>0, <1>2 DEF IdleOnce, Filed, Types
<1>8. \A q \in Keys : q # k => c \notin Range(idle[q])
  BY <1>0, <1>2 DEF IdleOnce
<1>9. Types'
  BY <1>0, <1>2 DEF Types, AcquireReuse, c
<1>10. HandlesOK'
  BY <1>0, <1>6 DEF HandlesOK
<1>11. HeldOnce'
  <2>1. \A g \in Handles : conn[g] # NoClient => conn[g] \in Clients /\ conn[g] # c
    BY <1>0, <1>7 DEF HeldOnce, Types
  <2> QED
    BY <1>0, <1>2, <1>5, <1>6, <2>1 DEF HeldOnce
<1>12. IdleOnce'
  <2>1. \A q \in Keys : IsInjective(idle'[q]) /\ \A d \in Range(idle'[q]) : place'[d] = "idle"
    <3> SUFFICES ASSUME NEW q \in Keys
                 PROVE  IsInjective(idle'[q]) /\ \A d \in Range(idle'[q]) : place'[d] = "idle"
      OBVIOUS
    <3>1. \A d \in Range(idle[q]) : d \in Clients
      BY <1>0 DEF Types, Range
    <3>2. CASE q = k
      BY <1>0, <1>2, <1>5, <3>1, <3>2 DEF IdleOnce
    <3>3. CASE q # k
      BY <1>0, <1>5, <1>8, <3>1, <3>3 DEF IdleOnce
    <3> QED
      BY <3>2, <3>3
  <2>2. \A q, r \in Keys : q # r => Range(idle'[q]) \cap Range(idle'[r]) = {}
    BY <1>0, <1>2, <1>5 DEF IdleOnce
  <2> QED
    BY <2>1, <2>2 DEF IdleOnce
<1>13. Filed' /\ PoolBounded'
  BY <1>0, <1>2, <1>3, <1>5, <1>6 DEF Filed, PoolBounded, FiledUnder
<1>14. NoDowngrade'
  BY <1>0, <1>6, <1>7, KeyFacts DEF NoDowngrade
<1>15. NothingOutlivesPool'
  BY <1>6 DEF NothingOutlivesPool
<1> QED
  BY <1>9, <1>10, <1>11, <1>12, <1>13, <1>14, <1>15 DEF IInv, OnePlace

\* acquire makes a client that was nowhere before.
LEMMA AcquireNewStep ==
  ASSUME IInv, NEW h \in Handles, NEW k \in Keys, NEW c \in Clients, AcquireNew(h, k, c)
  PROVE  IInv'
<1> USE ConstantsAssumption
<1>0. Types /\ HandlesOK /\ HeldOnce /\ IdleOnce /\ Filed /\ PoolBounded /\ NoDowngrade
  BY DEF IInv, OnePlace
<1>a. place[c] = "unborn"
  BY DEF AcquireNew
<1>1. /\ \A g \in Handles : conn[g] # NoClient => conn[g] \in Clients /\ conn[g] # c
      /\ \A q \in Keys : c \notin Range(idle[q]) /\ Range(idle[q]) \subseteq Clients
  <2>1. \A g \in Handles : conn[g] # NoClient => conn[g] \in Clients /\ conn[g] # c
    BY <1>0, <1>a DEF HeldOnce, Types
  <2>2. \A q \in Keys : c \notin Range(idle[q]) /\ Range(idle[q]) \subseteq Clients
    BY <1>a, IdleAreClients
  <2> QED
    BY <2>1, <2>2
<1>2. /\ \A g \in Handles : conn'[g] = IF g = h THEN c ELSE conn[g]
      /\ \A g \in Handles : want'[g] = IF g = h THEN k ELSE want[g]
      /\ \A g \in Handles : handle'[g] = IF g = h THEN "live" ELSE handle[g]
      /\ \A d \in Clients : place'[d] = IF d = c THEN "held" ELSE place[d]
      /\ \A d \in Clients : kind'[d] = IF d = c THEN k ELSE kind[d]
      /\ idle' = idle /\ shared' = shared /\ shared
  BY <1>0, Zenon DEF Types, AcquireNew
<1>3. Types'
  BY <1>0 DEF Types, AcquireNew
<1>4. HandlesOK' /\ HeldOnce'
  BY <1>0, <1>1, <1>2 DEF HandlesOK, HeldOnce
<1>5. IdleOnce'
  BY <1>0, <1>1, <1>2 DEF IdleOnce
<1>6. Filed' /\ PoolBounded'
  BY <1>0, <1>1, <1>2 DEF Filed, PoolBounded, FiledUnder
<1>7. NoDowngrade' /\ NothingOutlivesPool'
  BY <1>0, <1>1, <1>2 DEF NoDowngrade, NothingOutlivesPool
<1> QED
  BY <1>3, <1>4, <1>5, <1>6, <1>7 DEF IInv, OnePlace

\* Where no queue changes and no client becomes idle or changes its kind, the
\* invariant on the queues is kept.
LEMMA QueuesUntouched ==
  ASSUME IInv, idle' = idle, kind' = kind,
         \A c \in Clients : place[c] = "idle" => place'[c] = "idle"
  PROVE  IdleOnce' /\ Filed' /\ PoolBounded'
<1>1. \A q \in Keys : Range(idle[q]) \subseteq Clients
  BY IdleAreClients
<1>2. IdleOnce'
  BY <1>1 DEF IInv, OnePlace, IdleOnce
<1>3. Filed' /\ PoolBounded'
  BY DEF IInv, Filed, FiledUnder, PoolBounded
<1> QED
  BY <1>2, <1>3

LEMMA MoveAssignStep ==
  ASSUME IInv, NEW h \in Handles, NEW g \in Handles, MoveAssign(h, g)
  PROVE  IInv'
<1> USE ConstantsAssumption
<1>0. Types /\ HandlesOK /\ HeldOnce /\ NoDowngrade /\ NothingOutlivesPool
  BY DEF IInv, OnePlace
<1>1. /\ \A f \in Handles : conn'[f] = IF f = g THEN NoClient ELSE IF f = h THEN conn[g] ELSE conn[f]
      /\ \A f \in Handles : want'[f] = IF f = h THEN want[g] ELSE want[f]
      /\ \A d \in Clients : place'[d] = IF d = conn[h] THEN "destroyed" ELSE place[d]
      /\ idle' = idle /\ kind' = kind /\ handle' = handle /\ shared' = shared
      /\ h # g /\ handle[h] = "live" /\ handle[g] = "live"
  BY <1>0 DEF Types, MoveAssign
<1>2. Types'
  BY <1>0 DEF Types, MoveAssign
<1>3. HandlesOK'
  BY <1>0, <1>1 DEF HandlesOK
<1>4. HeldOnce'
  <2>1. \A f \in Handles : conn[f] # NoClient => conn[f] \in Clients
    BY <1>0 DEF Types
  <2> QED
    BY <1>0, <1>1, <2>1 DEF HeldOnce
<1>5. \A c \in Clients : place[c] = "idle" => place'[c] = "idle"
  <2>1. \A c \in Clients : c = conn[h] => place[c] = "held"
    BY <1>0 DEF HeldOnce
  <2> QED
    BY <1>1, <2>1
<1>6. IdleOnce' /\ Filed' /\ PoolBounded'
  BY <1>1, <1>5, QueuesUntouched
<1>7. NoDowngrade'
  BY <1>0, <1>1 DEF NoDowngrade
<1>8. NothingOutlivesPool'
  BY <1>0, <1>1 DEF NothingOutlivesPool, Referenced
<1> QED
  BY <1>2, <1>3, <1>4, <1>6, <1>7, <1>8 DEF IInv, OnePlace

LEMMA DropAloneStep ==
  ASSUME IInv, NEW h \in Handles, DropAlone(h)
  PROVE  IInv'
<1> USE ConstantsAssumption
<1>0. Types /\ HandlesOK /\ HeldOnce /\ NoDowngrade /\ NothingOutlivesPool
  BY DEF IInv, OnePlace
<1>1. /\ \A f \in Handles : conn'[f] = IF f = h THEN NoClient ELSE conn[f]
      /\ \A f \in Handles : handle'[f] = IF f = h THEN "none" ELSE handle[f]
      /\ \A d \in Clients : place'[d] = IF d = conn[h] THEN "destroyed" ELSE place[d]
      /\ idle' = idle /\ kind' = kind /\ want' = want /\ shared' = shared
      /\ handle[h] = "live"
  BY <1>0 DEF Types, DropAlone
<1>2. Types'
  BY <1>0 DEF Types, DropAlone
<1>3. HandlesOK' /\ NoDowngrade'
  BY <1>0, <1>1 DEF HandlesOK, NoDowngrade
<1>4. HeldOnce'
  <2>1. \A f \in Handles : conn[f] # NoClient => conn[f] \in Clients
    BY <1>0 DEF Types
  <2> QED
    BY <1>0, <1>1, <2>1 DEF HeldOnce
<1>5. \A c \in Clients : place[c] = "idle" => place'[c] = "idle"
  <2>1. \A c \in Clients : c = conn[h] => place[c] = "held"
    BY <1>0 DEF HeldOnce
  <2> QED
    BY <1>1, <2>1
<1>6. IdleOnce' /\ Filed' /\ PoolBounded'
  BY <1>1, <1>5, QueuesUntouched
<1>7. NothingOutlivesPool'
  <2>1. Referenced({})' <=> Referenced({})
    BY <1>1 DEF Referenced, Locking
  <2>2. \A c \in Clients : place'[c] = "idle" => place[c] = "idle"
    BY <1>1
  <2> QED
    BY <1>0, <1>1, <2>1, <2>2 DEF NothingOutlivesPool
<1> QED
  BY <1>2, <1>3, <1>4, <1>6, <1>7 DEF IInv, OnePlace

LEMMA DropLockStep ==
  ASSUME IInv, NEW h \in Handles, DropLock(h)
  PROVE  IInv'
<1>0. Types /\ HandlesOK /\ HeldOnce /\ NoDowngrade /\ NothingOutlivesPool
  BY DEF IInv, OnePlace
<1>1. Types'
  BY <1>0 DEF Types, DropLock, Locking
<1>2. HandlesOK' /\ NoDowngrade' /\ HeldOnce'
  BY <1>0 DEF Types, HandlesOK, NoDowngrade, HeldOnce, DropLock
<1>3. IdleOnce' /\ Filed' /\ PoolBounded'
  BY QueuesUntouched DEF DropLock
<1>4. NothingOutlivesPool'
  <2>1. handle'[h] \in Locking
    BY <1>0 DEF Types, DropLock, Locking
  <2> QED
    BY <2>1 DEF NothingOutlivesPool, Referenced
<1> QED
  BY <1>1, <1>2, <1>3, <1>4 DEF IInv, OnePlace

\* release() files the client at the end of its queue, or destroys it.
LEMMA ReleaseStep ==
  ASSUME IInv, NEW h \in Handles, Release(h)
  PROVE  IInv'
<1> USE ConstantsAssumption
<1>0. Types /\ HandlesOK /\ HeldOnce /\ IdleOnce /\ Filed /\ PoolBounded /\ NoDowngrade
  BY DEF IInv, OnePlace
<1> DEFINE c == conn[h]
           k == FiledUnder(kind[c])
<1>1. c \in Clients /\ kind[c] \in Keys /\ k \in Keys /\ place[c] = "held" /\ handle[h] = "locked"
  BY <1>0, KeyFacts DEF Types, HeldOnce, Release
<1>2. /\ \A f \in Handles : conn'[f] = IF f = h THEN NoClient ELSE conn[f]
      /\ \A f \in Handles : handle'[f] = IF f = h THEN "released" ELSE handle[f]
      /\ kind' = kind /\ want' = want /\ shared' = shared
  BY <1>0 DEF Types, Release
<1>3. \A q \in Keys : Range(idle[q]) \subseteq Clients /\ c \notin Range(idle[q])
  BY <1>1, IdleAreClients
<1>4. HandlesOK' /\ NoDowngrade'
  BY <1>0, <1>2 DEF HandlesOK, NoDowngrade
<1>5. NothingOutlivesPool'
  <2>1. handle'[h] \in Locking
    BY <1>2 DEF Locking
  <2> QED
    BY <2>1 DEF NothingOutlivesPool, Referenced
<1>6. \A f \in Handles : conn[f] # NoClient => conn[f] \in Clients /\ (f # h => conn[f] # c)
  BY <1>0, <1>1 DEF Types, HeldOnce
<1>7. CASE Len(idle[k]) < MaxSize
  <2>1. idle' = [idle EXCEPT ![k] = Append(idle[k], c)] /\ place' = [place EXCEPT ![c] = "idle"]
    BY <1>7 DEF Release
  <2>2. /\ \A q \in Keys : idle'[q] = IF q = k THEN Append(idle[k], c) ELSE idle[q]
        /\ \A d \in Clients : place'[d] = IF d = c THEN "idle" ELSE place[d]
    BY <1>0, <1>1, <2>1 DEF Types
  <2>3. idle[k] \in Seq(Clients) /\ IsInjective(idle[k])
    BY <1>0, <1>1 DEF Types, IdleOnce
  <2>4. /\ Append(idle[k], c) \in Seq(Clients) /\ IsInjective(Append(idle[k], c))
        /\ Range(Append(idle[k], c)) = Range(idle[k]) \cup {c}
    BY <1>1, <1>3, <2>3, AppendFacts
  <2>5. Len(Append(idle[k], c)) <= MaxSize
    BY <1>1, <1>7, <2>3
  <2>6. Types'
    BY <1>0, <1>1, <2>1, <2>4 DEF Types, Release, Locking
  <2> HIDE DEF c, k
  <2>7. HeldOnce'
    BY <1>0, <1>2, <1>6, <2>2 DEF HeldOnce
  <2>8. IdleOnce'
    <3>1. \A q \in Keys : IsInjective(idle'[q]) /\ \A d \in Range(idle'[q]) : place'[d] = "idle"
      BY <1>0, <1>1, <1>3, <2>2, <2>4 DEF IdleOnce
    <3>2. \A q, r \in Keys : q # r => Range(idle'[q]) \cap Range(idle'[r]) = {}
      BY <1>0, <1>3, <2>2, <2>4 DEF IdleOnce
    <3> QED
      BY <3>1, <3>2 DEF IdleOnce
  <2>9. PoolBounded'
    BY <1>0, <2>2, <2>5 DEF PoolBounded
  <2>10. Filed'
    <3>1. FiledUnder(kind[c]) = k
      BY DEF k
    <3> QED
      BY <1>0, <1>2, <2>2, <2>4, <3>1 DEF Filed, FiledUnder
  <2> QED
    BY <1>4, <1>5, <2>6, <2>7, <2>8, <2>9, <2>10 DEF IInv, OnePlace
<1>8. CASE ~(Len(idle[k]) < MaxSize)
  <2>1. idle' = idle /\ place' = [place EXCEPT ![c] = "destroyed"]
    BY <1>8 DEF Release
  <2>2. \A d \in Clients : place'[d] = IF d = c THEN "destroyed" ELSE place[d]
    BY <1>0, <1>1, <2>1 DEF Types
  <2>3. Types'
    BY <1>0, <1>1, <2>1 DEF Types, Release, Locking
  <2>4. HeldOnce'
    BY <1>0, <1>2, <1>6, <2>2 DEF HeldOnce
  <2>5. IdleOnce' /\ Filed' /\ PoolBounded'
    BY <1>1, <1>2, <2>1, <2>2, QueuesUntouched
  <2> QED
    BY <1>4, <1>5, <2>3, <2>4, <2>5 DEF IInv, OnePlace
<1> QED
  BY <1>7, <1>8

\* The destructor of the pool leaves nothing idle.
LEMMA DestroyFacts ==
  ASSUME IInv, DestroyPool, kind' = kind, conn' = conn
  PROVE  /\ idle' \in [Keys -> Seq(Clients)]
         /\ place' \in [Clients -> {"unborn", "idle", "held", "destroyed"}]
         /\ \A c \in Clients : place'[c] # "idle"
         /\ HeldOnce' /\ IdleOnce' /\ Filed' /\ PoolBounded'
<1> USE ConstantsAssumption
<1>1. \A k \in Keys : idle'[k] = <<>>
  BY DEF DestroyPool
<1>2. /\ place' \in [Clients -> {"unborn", "idle", "held", "destroyed"}]
      /\ \A c \in Clients : place'[c] = IF place[c] = "idle" THEN "destroyed" ELSE place[c]
  BY DEF IInv, Types, DestroyPool
<1>3. HeldOnce'
  <2>1. \A f \in Handles : conn[f] # NoClient => conn[f] \in Clients
    BY DEF IInv, Types
  <2> QED
    BY <1>2, <2>1 DEF IInv, OnePlace, HeldOnce
<1>4. IdleOnce' /\ Filed' /\ PoolBounded'
  BY <1>1, EmptyFacts DEF IdleOnce, Filed, PoolBounded
<1>5. idle' \in [Keys -> Seq(Clients)]
  BY EmptyFacts DEF DestroyPool
<1> QED
  BY <1>2, <1>3, <1>4, <1>5

LEMMA DropEndStep ==
  ASSUME IInv, NEW h \in Handles, DropEnd(h)
  PROVE  IInv'
<1>0. Types /\ HandlesOK /\ HeldOnce /\ NoDowngrade
  BY DEF IInv, OnePlace
<1>1. /\ handle' \in [Handles -> {"none", "live"} \cup Locking]
      /\ \A f \in Handles : handle'[f] = IF f = h THEN "none" ELSE handle[f]
      /\ kind' = kind /\ conn' = conn /\ want' = want /\ shared' = shared
      /\ conn[h] = NoClient
  BY <1>0 DEF Types, HandlesOK, DropEnd, Locking
<1>2. HandlesOK' /\ NoDowngrade'
  BY <1>0, <1>1 DEF HandlesOK, NoDowngrade
<1>3. CASE shared \/ Referenced({h})
  <2>1. idle' = idle /\ place' = place
    BY <1>3 DEF DropEnd
  <2>2. NothingOutlivesPool'
    <3>1. Referenced({h}) => Referenced({})'
      BY <1>1 DEF Referenced
    <3> QED
      BY <1>1, <1>3, <3>1 DEF NothingOutlivesPool
  <2>3. Types' /\ HeldOnce'
    BY <1>0, <1>1, <2>1 DEF Types, HeldOnce
  <2>4. IdleOnce' /\ Filed' /\ PoolBounded'
    BY <1>1, <2>1, QueuesUntouched
  <2> QED
    BY <1>2, <2>2, <2>3, <2>4 DEF IInv, OnePlace
<1>4. CASE ~(shared \/ Referenced({h}))
  <2>1. DestroyPool
    BY <1>4 DEF DropEnd
  <2>2. Types' /\ NothingOutlivesPool'
    BY <1>0, <1>1, <2>1, DestroyFacts DEF Types, NothingOutlivesPool
  <2> QED
    BY <1>1, <1>2, <2>1, <2>2, DestroyFacts DEF IInv, OnePlace
<1> QED
  BY <1>3, <1>4

LEMMA OwnerDropsStep ==
  ASSUME IInv, OwnerDrops
  PROVE  IInv'
<1>0. Types /\ HandlesOK /\ HeldOnce /\ NoDowngrade
  BY DEF IInv, OnePlace
<1>1. kind' = kind /\ conn' = conn /\ want' = want /\ handle' = handle /\ shared' = FALSE
  BY DEF OwnerDrops
<1>2. HandlesOK' /\ NoDowngrade'
  BY <1>0, <1>1 DEF HandlesOK, NoDowngrade
<1>3. CASE Referenced({})
  <2>1. idle' = idle /\ place' = place
    BY <1>3 DEF OwnerDrops
  <2>2. NothingOutlivesPool'
    BY <1>1, <1>3 DEF NothingOutlivesPool, Referenced
  <2>3. Types' /\ HeldOnce'
    BY <1>0, <1>1, <2>1 DEF Types, HeldOnce
  <2>4. IdleOnce' /\ Filed' /\ PoolBounded'
    BY <1>1, <2>1, QueuesUntouched
  <2> QED
    BY <1>2, <2>2, <2>3, <2>4 DEF IInv, OnePlace
<1>4. CASE ~Referenced({})
  <2>1. DestroyPool
    BY <1>4 DEF OwnerDrops
  <2>2. Types' /\ NothingOutlivesPool'
    BY <1>0, <1>1, <2>1, DestroyFacts DEF Types, NothingOutlivesPool
  <2> QED
    BY <1>1, <1>2, <2>1, <2>2, DestroyFacts DEF IInv, OnePlace
<1> QED
  BY <1>3, <1>4

\* IInv is inductive.
LEMMA NextIInv == IInv /\ [Next]_vars => IInv'
<1> SUFFICES ASSUME IInv, [Next]_vars PROVE IInv'
  OBVIOUS
<1>1. CASE UNCHANGED vars
  <2>1. Types' /\ HandlesOK' /\ HeldOnce' /\ NoDowngrade' /\ NothingOutlivesPool'
    BY <1>1 DEF vars, IInv, OnePlace, Types, HandlesOK, HeldOnce, NoDowngrade,
                NothingOutlivesPool, Referenced
  <2>2. IdleOnce' /\ Filed' /\ PoolBounded'
    BY <1>1, QueuesUntouched DEF vars
  <2> QED
    BY <2>1, <2>2 DEF IInv, OnePlace
<1>2. CASE Next
  BY <1>2, AcquireReuseStep, AcquireNewStep, MoveAssignStep, DropAloneStep, DropLockStep,
     ReleaseStep, DropEndStep, OwnerDropsStep DEF Next
<1> QED
  BY <1>1, <1>2
-----------------------------------------------------------------------------
\* The invariant holds in every state of every execution.
THEOREM Invariance == Spec => []IInv
  BY InitIInv, NextIInv, PTL DEF Spec

\* Type correctness, with no client left in a dead handle.
THEOREM TypeCorrect == Spec => []TypeOK
<1>1. IInv => TypeOK
  BY DEF IInv, TypeOK
<1> QED
  BY <1>1, Invariance, PTL

\* No connection is ever shared by two users, or both idle and in use.
THEOREM ClientsInOnePlace == Spec => []OnePlace
<1>1. IInv => OnePlace
  BY DEF IInv
<1> QED
  BY <1>1, Invariance, PTL

\* max_size_ bounds the idle clients of every server.
THEOREM IdleClientsBounded == Spec => []PoolBounded
<1>1. IInv => PoolBounded
  BY DEF IInv
<1> QED
  BY <1>1, Invariance, PTL

\* A request for TLS is never served over a plain connection, whatever key the
\* clients are filed under.
THEOREM TlsIsNotDowngraded == Spec => []NoDowngrade
<1>1. IInv => NoDowngrade
  BY DEF IInv
<1> QED
  BY <1>1, Invariance, PTL

\* The last reference to the pool, the owner's or a returning handle's, takes
\* the idle clients with it.
THEOREM PoolLeavesNothing == Spec => []NothingOutlivesPool
<1>1. IInv => NothingOutlivesPool
  BY DEF IInv
<1> QED
  BY <1>1, Invariance, PTL
=============================================================================
