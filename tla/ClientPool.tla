------------------------------ MODULE ClientPool ------------------------------
(* The pools of idle clients: http_client_pool, for one server                *)
(* (include/httplib/client/client_pool.hpp), and multi_http_client_pool, for  *)
(* many (multi_client_pool.hpp).  A client handed out travels in a            *)
(* ClientHandle that gives it back when it is destroyed, by any thread, also  *)
(* while the owner of the pool lets go of it.                                 *)
EXTENDS Naturals, Sequences, SequencesExt

CONSTANTS
  Clients,    \* the http_client objects that can come to exist
  Handles,    \* the ClientHandle variables of the program
  Hosts,      \* host and port pairs
  Tls,        \* the values of ssl in use, a set of BOOLEANs
  Multi,      \* whether this is the pool for many servers
  MaxSize,    \* max_size_
  NoClient

ASSUME ConstantsAssumption ==
  /\ Tls \subseteq BOOLEAN
  /\ Multi \in BOOLEAN
  /\ MaxSize \in Nat
  /\ Hosts # {}
  /\ NoClient \notin Clients

Keys == [host : Hosts, ssl : Tls \cup {FALSE}]    \* ConnectionInfo
AnyKey == CHOOSE k \in Keys : TRUE    \* of a client or a handle that does not exist yet

VARIABLES
  idle,      \* pools_: the queue of idle clients of each key
  place,     \* where each client is
  kind,      \* the server a client was made for
  handle,    \* where each handle is
  conn,      \* its conn_
  want,      \* what acquire was asked for
  shared     \* whether the owner still has its shared_ptr

vars == <<idle, place, kind, handle, conn, want, shared>>

Init ==
  /\ idle = [k \in Keys |-> <<>>]
  /\ place = [c \in Clients |-> "unborn"]
  /\ kind = [c \in Clients |-> AnyKey]
  /\ handle = [h \in Handles |-> "none"]
  /\ conn = [h \in Handles |-> NoClient]
  /\ want = [h \in Handles |-> AnyKey]
  /\ shared = TRUE

\* The other strong references: a handle in its destructor has locked pool_.
Locking == {"locked", "released"}
\* Whether any is left, apart from those of the handles in H.
Referenced(H) == \E h \in Handles \ H : handle[h] \in Locking

\* The destructor of the pool closes and destroys what is idle.
DestroyPool ==
  /\ idle' = [k \in Keys |-> <<>>]
  /\ place' = [c \in Clients |-> IF place[c] = "idle" THEN "destroyed" ELSE place[c]]

\* The key under which release() files a client.  The pool for many servers
\* builds it from host() and port() alone, which leaves ssl false.
FiledUnder(k) == IF Multi THEN [k EXCEPT !.ssl = FALSE] ELSE k
-----------------------------------------------------------------------------
\* An acquire that does not tell TLS from plain.
MutAcquireReuseAnyTls(h, k) ==
  /\ shared /\ handle[h] = "none" /\ k.ssl \in Tls
  /\ \E q \in Keys :
       /\ q.host = k.host /\ idle[q] # <<>>
       /\ conn' = [conn EXCEPT ![h] = Head(idle[q])]
       /\ idle' = [idle EXCEPT ![q] = Tail(@)]
       /\ place' = [place EXCEPT ![Head(idle[q])] = "held"]
  /\ handle' = [handle EXCEPT ![h] = "live"]
  /\ want' = [want EXCEPT ![h] = k]
  /\ UNCHANGED <<kind, shared>>

\* acquire: the client that has been idle longest ...
AcquireReuse(h, k) ==
  /\ shared /\ handle[h] = "none" /\ k.ssl \in Tls
  /\ idle[k] # <<>>
  /\ conn' = [conn EXCEPT ![h] = Head(idle[k])]
  /\ idle' = [idle EXCEPT ![k] = Tail(@)]
  /\ place' = [place EXCEPT ![Head(idle[k])] = "held"]
  /\ handle' = [handle EXCEPT ![h] = "live"]
  /\ want' = [want EXCEPT ![h] = k]
  /\ UNCHANGED <<kind, shared>>

\* ... or a new one.
AcquireNew(h, k, c) ==
  /\ shared /\ handle[h] = "none" /\ k.ssl \in Tls
  /\ idle[k] = <<>>
  /\ place[c] = "unborn"
  /\ conn' = [conn EXCEPT ![h] = c]
  /\ place' = [place EXCEPT ![c] = "held"]
  /\ kind' = [kind EXCEPT ![c] = k]
  /\ handle' = [handle EXCEPT ![h] = "live"]
  /\ want' = [want EXCEPT ![h] = k]
  /\ UNCHANGED <<idle, shared>>

\* A move that leaves g as it was.
MutMoveAssignCopies(h, g) ==
  /\ h # g /\ handle[h] = "live" /\ handle[g] = "live"
  /\ conn' = [conn EXCEPT ![h] = conn[g]]
  /\ want' = [want EXCEPT ![h] = want[g]]
  /\ place' = IF conn[h] = NoClient THEN place ELSE [place EXCEPT ![conn[h]] = "destroyed"]
  /\ UNCHANGED <<idle, kind, handle, shared>>

\* h = std::move(g): the client h had is destroyed, not returned to the pool,
\* and g is left empty.
MoveAssign(h, g) ==
  /\ h # g /\ handle[h] = "live" /\ handle[g] = "live"
  /\ conn' = [conn EXCEPT ![h] = conn[g], ![g] = NoClient]
  /\ want' = [want EXCEPT ![h] = want[g]]
  /\ place' = IF conn[h] = NoClient THEN place ELSE [place EXCEPT ![conn[h]] = "destroyed"]
  /\ UNCHANGED <<idle, kind, handle, shared>>

\* A destructor that forgets the client when the pool is gone.
MutDropAloneLeaks(h) ==
  /\ handle[h] = "live"
  /\ conn[h] = NoClient \/ (~shared /\ ~Referenced({}))
  /\ handle' = [handle EXCEPT ![h] = "none"]
  /\ UNCHANGED <<idle, place, kind, conn, want, shared>>

\* ~ClientHandle: pool_.lock() fails in a handle that was moved from, whose pool_
\* is empty like its conn_, and when the pool is gone: a client dies with its
\* handle.
DropAlone(h) ==
  /\ handle[h] = "live"
  /\ conn[h] = NoClient \/ (~shared /\ ~Referenced({}))
  /\ handle' = [handle EXCEPT ![h] = "none"]
  /\ conn' = [conn EXCEPT ![h] = NoClient]
  /\ place' = IF conn[h] = NoClient THEN place ELSE [place EXCEPT ![conn[h]] = "destroyed"]
  /\ UNCHANGED <<idle, kind, want, shared>>

\* pool_.lock() succeeds: the destructor now keeps the pool alive.
DropLock(h) ==
  /\ handle[h] = "live" /\ conn[h] # NoClient
  /\ shared \/ Referenced({})
  /\ handle' = [handle EXCEPT ![h] = "locked"]
  /\ UNCHANGED <<idle, place, kind, conn, want, shared>>

\* release(): file the client if there is room, otherwise destroy it.
Release(h) ==
  /\ handle[h] = "locked" /\ conn[h] # NoClient
  /\ LET c == conn[h]
         k == FiledUnder(kind[c])
     IN  IF Len(idle[k]) < MaxSize
           THEN /\ idle' = [idle EXCEPT ![k] = Append(@, c)]
                /\ place' = [place EXCEPT ![c] = "idle"]
           ELSE /\ place' = [place EXCEPT ![c] = "destroyed"]
                /\ UNCHANGED idle
  /\ conn' = [conn EXCEPT ![h] = NoClient]
  /\ handle' = [handle EXCEPT ![h] = "released"]
  /\ UNCHANGED <<kind, want, shared>>

\* A destructor that unlocks without destroying the pool it was the last to hold.
MutDropEndLeaves(h) ==
  /\ handle[h] = "released"
  /\ handle' = [handle EXCEPT ![h] = "none"]
  /\ UNCHANGED <<idle, place, kind, conn, want, shared>>

\* The end of the destructor gives the strong reference back; it may be the last.
DropEnd(h) ==
  /\ handle[h] = "released"
  /\ handle' = [handle EXCEPT ![h] = "none"]
  /\ IF shared \/ Referenced({h}) THEN UNCHANGED <<idle, place>> ELSE DestroyPool
  /\ UNCHANGED <<kind, conn, want, shared>>

\* The owner of the pool resets its shared_ptr.
OwnerDrops ==
  /\ shared
  /\ shared' = FALSE
  /\ IF Referenced({}) THEN UNCHANGED <<idle, place>> ELSE DestroyPool
  /\ UNCHANGED <<kind, handle, conn, want>>
-----------------------------------------------------------------------------
Next ==
  \/ \E h \in Handles :
       \/ \E k \in Keys : AcquireReuse(h, k) \/ \E c \in Clients : AcquireNew(h, k, c)
       \/ \E g \in Handles : MoveAssign(h, g)
       \/ DropAlone(h) \/ DropLock(h) \/ Release(h) \/ DropEnd(h)
  \/ OwnerDrops

Spec == Init /\ [][Next]_vars
-----------------------------------------------------------------------------
(* Properties *)

Types ==
  /\ idle \in [Keys -> Seq(Clients)]
  /\ place \in [Clients -> {"unborn", "idle", "held", "destroyed"}]
  /\ kind \in [Clients -> Keys]
  /\ handle \in [Handles -> {"none", "live"} \cup Locking]
  /\ conn \in [Handles -> Clients \cup {NoClient}]
  /\ want \in [Handles -> Keys]
  /\ shared \in BOOLEAN

\* Only a handle that is in use, or gives its client back, has one.
HandlesOK == \A h \in Handles : conn[h] # NoClient => handle[h] \in {"live", "locked"}

\* The states each variable ranges over; no client stays behind in a handle whose
\* destructor has run.
TypeOK == Types /\ HandlesOK

HeldOnce ==
  /\ \A h \in Handles : conn[h] # NoClient => place[conn[h]] = "held"
  /\ \A h, g \in Handles : conn[h] = conn[g] /\ conn[h] # NoClient => h = g

IdleOnce ==
  /\ \A k \in Keys : IsInjective(idle[k]) /\ \A c \in Range(idle[k]) : place[c] = "idle"
  /\ \A k, q \in Keys : k # q => Range(idle[k]) \cap Range(idle[q]) = {}

\* A client is in one place: idle in one queue, once, or held by one handle.
\* Two users of one connection would read each other's responses.
OnePlace == HeldOnce /\ IdleOnce

\* No queue of idle clients grows beyond max_size_, however many handles return
\* their clients at the same time.
PoolBounded == \A k \in Keys : Len(idle[k]) <= MaxSize

\* A client handed out speaks to the server asked for, and a caller that asked
\* for TLS never gets a plain connection.
NoDowngrade ==
  \A h \in Handles :
    conn[h] # NoClient =>
      /\ kind[conn[h]].host = want[h].host
      /\ want[h].ssl => kind[conn[h]].ssl

\* When the last reference to the pool is gone, nothing is left idle: whoever
\* was last, the owner or a handle giving a client back, has destroyed it.
NothingOutlivesPool ==
  ~shared /\ ~Referenced({}) => \A c \in Clients : place[c] # "idle"
=============================================================================
