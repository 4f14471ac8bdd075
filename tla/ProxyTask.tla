------------------------------- MODULE ProxyTask -------------------------------
(* A CONNECT request (session::http_proxy_task): the target is resolved and   *)
(* connected, the client is told, and two coroutines copy bytes, one for each *)
(* direction, until both have ended.  The two peers, which send, end their    *)
(* sending and reset as they like, and abort() by the server are steps of     *)
(* their own.  Bytes are numbered in the order in which they were sent.       *)
EXTENDS Naturals, Sequences, SequencesExt

CONSTANT MaxSent   \* the bytes a peer sends

ASSUME MaxSentAssumption == MaxSent \in Nat \ {0}

Peers == {"client", "target"}
Other(p) == IF p = "client" THEN "target" ELSE "client"
Reply == 0

VARIABLES
  pc,       \* where then() is
  named,    \* the request names a host and a port
  ahead,    \* bytes read together with the header of the request
  socket,   \* the server's socket to each peer: "none", "open", "closed"
  ended,    \* how each peer has ended its sending: "no", "fin", "reset"
  sent,     \* how many bytes it has sent
  taken,    \* how many of them the server has read
  at,       \* transfer() from each peer: "read", "write", "ended"
  buffer,   \* its buffer
  received, \* what each peer has been sent
  fin,      \* whether its socket was shut down for sending
  deaf,     \* whether its socket was shut down for receiving
  aborted

peers    == <<ended, sent>>
transfer == <<taken, at, buffer, received, fin, deaf>>
vars     == <<pc, named, ahead, socket, peers, transfer, aborted>>

Each(v) == [p \in Peers |-> v]

Init ==
  /\ pc = "start" /\ named \in BOOLEAN /\ aborted = FALSE
  /\ ahead \in 0 .. 1
  /\ socket = [p \in Peers |-> IF p = "client" THEN "open" ELSE "none"]
  /\ sent = [p \in Peers |-> IF p = "client" THEN ahead ELSE 0] /\ taken = sent
  /\ ended = Each("no") /\ at = Each("read") /\ buffer = Each(<<>>)
  /\ received = Each(<<>>) /\ fin = Each(FALSE) /\ deaf = Each(FALSE)
-----------------------------------------------------------------------------
(* The peers *)

\* The target exists for the server once it is connected.
Present(p) == p = "client" \/ pc \in {"reply", "relay"}

Send(p) ==
  /\ Present(p) /\ ended[p] = "no" /\ sent[p] < MaxSent
  /\ sent' = [sent EXCEPT ![p] = @ + 1]
  /\ UNCHANGED <<pc, named, ahead, socket, ended, transfer, aborted>>

End(p, how) ==
  /\ Present(p) /\ ended[p] = "no"
  /\ ended' = [ended EXCEPT ![p] = how]
  /\ UNCHANGED <<pc, named, ahead, socket, sent, transfer, aborted>>
-----------------------------------------------------------------------------
(* http_proxy_task::then up to the reply *)

Goto(l) == pc' = l /\ UNCHANGED <<named, ahead, peers, transfer, aborted>>

FindTarget == pc = "start" /\ Goto(IF named THEN "resolve" ELSE "done") /\ UNCHANGED socket
Resolved   == pc = "resolve" /\ (Goto("resolved") \/ Goto("done")) /\ UNCHANGED socket

\* async_connect opens the socket, even if abort() has closed it before.
StartConnect ==
  /\ pc = "resolved"
  /\ Goto("connect")
  /\ socket' = [socket EXCEPT !["target"] = "open"]

Connected     == pc = "connect" /\ socket["target"] = "open" /\ Goto("reply") /\ UNCHANGED socket
ConnectFails  == pc = "connect" /\ Goto("done") /\ UNCHANGED socket

Writable(p) == socket[p] = "open" /\ ended[p] # "reset"

WriteReply ==
  /\ pc = "reply" /\ Writable("client")
  /\ pc' = "relay"
  /\ received' = [received EXCEPT !["client"] = Append(@, Reply)]
  /\ UNCHANGED <<named, ahead, socket, peers, taken, at, buffer, fin, deaf, aborted>>

ReplyFails == pc = "reply" /\ ~Writable("client") /\ Goto("done") /\ UNCHANGED socket
-----------------------------------------------------------------------------
(* detail::transfer, from p to the other peer *)

Rest(p) == sent[p] - taken[p]

Readable(p) == socket[p] = "open" /\ ended[p] # "reset" /\ ~deaf[p] /\ Rest(p) > 0

ReadSome(p, n) ==
  /\ pc = "relay" /\ at[p] = "read" /\ Readable(p) /\ n \in 1 .. Rest(p)
  /\ buffer' = [buffer EXCEPT ![p] = [i \in 1 .. n |-> taken[p] + i]]
  /\ taken' = [taken EXCEPT ![p] = @ + n]
  /\ at' = [at EXCEPT ![p] = "write"]
  /\ UNCHANGED <<pc, named, ahead, socket, peers, received, fin, deaf, aborted>>

ReadEnds(p) ==
  \/ socket[p] # "open" \/ ended[p] = "reset" \/ deaf[p]
  \/ ended[p] = "fin" /\ Rest(p) = 0

\* The end of the input, or an error: the end is passed on.
ReadFails(p) ==
  /\ pc = "relay" /\ at[p] = "read" /\ ReadEnds(p)
  /\ fin' = [fin EXCEPT ![Other(p)] = TRUE]
  /\ at' = [at EXCEPT ![p] = "ended"]
  /\ UNCHANGED <<pc, named, ahead, socket, peers, taken, buffer, received, deaf, aborted>>

Pass(p, n) == received' = [received EXCEPT ![Other(p)] = @ \o SubSeq(buffer[p], 1, n)]

\* async_write_some for async_write.
MutWrite(p) ==
  /\ pc = "relay" /\ at[p] = "write" /\ Writable(Other(p))
  /\ \E n \in 1 .. Len(buffer[p]) : Pass(p, n)
  /\ at' = [at EXCEPT ![p] = "read"]
  /\ UNCHANGED <<pc, named, ahead, socket, peers, taken, buffer, fin, deaf, aborted>>

Write(p) ==
  /\ pc = "relay" /\ at[p] = "write" /\ Writable(Other(p))
  /\ Pass(p, Len(buffer[p]))
  /\ at' = [at EXCEPT ![p] = "read"]
  /\ UNCHANGED <<pc, named, ahead, socket, peers, taken, buffer, fin, deaf, aborted>>

\* The write fails, with a part of the buffer sent.
WriteFails(p) ==
  /\ pc = "relay" /\ at[p] = "write" /\ ~Writable(Other(p))
  /\ \E n \in 0 .. Len(buffer[p]) : Pass(p, n)
  /\ deaf' = [deaf EXCEPT ![p] = TRUE]
  /\ at' = [at EXCEPT ![p] = "ended"]
  /\ UNCHANGED <<pc, named, ahead, socket, peers, taken, buffer, fin, aborted>>

\* The transfers joined with || for &&.
MutJoin ==
  /\ pc = "relay" /\ \E p \in Peers : at[p] = "ended"
  /\ Goto("done") /\ UNCHANGED socket

\* Both have ended: then() returns, and the session ends with its sockets.
Join ==
  /\ pc = "relay" /\ at = Each("ended")
  /\ Goto("done") /\ UNCHANGED socket
-----------------------------------------------------------------------------
\* An abort that forgets the socket to the target.
MutAbort ==
  /\ pc # "done" /\ ~aborted
  /\ aborted' = TRUE
  /\ socket' = [socket EXCEPT !["client"] = "closed"]
  /\ pc' = IF pc = "resolve" THEN "done" ELSE pc
  /\ UNCHANGED <<named, ahead, peers, transfer>>

\* abort(): the client's stream, the resolver and the socket to the target.
Abort ==
  /\ pc # "done" /\ ~aborted
  /\ aborted' = TRUE
  /\ socket' = [p \in Peers |-> IF socket[p] = "open" THEN "closed" ELSE socket[p]]
  /\ pc' = IF pc = "resolve" THEN "done" ELSE pc
  /\ UNCHANGED <<named, ahead, peers, transfer>>

Setup    == FindTarget \/ Resolved \/ StartConnect \/ Connected \/ ConnectFails
              \/ WriteReply \/ ReplyFails
Copy(p)  == \/ \E n \in 1 .. MaxSent : ReadSome(p, n)
            \/ ReadFails(p) \/ Write(p) \/ WriteFails(p)
Done     == pc = "done" /\ UNCHANGED vars

Next ==
  \/ Setup \/ (\E p \in Peers : Copy(p)) \/ Join
  \/ \E p \in Peers : Send(p) \/ End(p, "fin") \/ End(p, "reset")
  \/ Abort \/ Done

Spec == Init /\ [][Next]_vars
-----------------------------------------------------------------------------
(* Properties *)

\* The states each variable ranges over; what is in a buffer was taken last.
TypeOK ==
  /\ pc \in {"start", "resolve", "resolved", "connect", "reply", "relay", "done"}
  /\ socket \in [Peers -> {"none", "open", "closed"}]
  /\ ended \in [Peers -> {"no", "fin", "reset"}]
  /\ at \in [Peers -> {"read", "write", "ended"}]
  /\ fin \in [Peers -> BOOLEAN] /\ deaf \in [Peers -> BOOLEAN]
  /\ \A p \in Peers : /\ 0 <= taken[p] /\ taken[p] <= sent[p] /\ sent[p] <= MaxSent
                      /\ at[p] = "write" => buffer[p][Len(buffer[p])] = taken[p]

\* The bytes from one number to another.
Bytes(from, to) == [i \in 1 .. to - from |-> from + i]
ForTarget == Bytes(ahead, sent["client"])
ForClient == <<Reply>> \o Bytes(0, sent["target"])

\* Each peer receives what the other has sent, in order and with nothing
\* missing in between, and the client the reply before anything else.  Excepted
\* is what came together with the request: it stays in the session's buffer.
InOrder == IsPrefix(received["target"], ForTarget) /\ IsPrefix(received["client"], ForClient)

\* A peer is told that there is no more only when it has all there was, unless
\* the other one or the server broke off.
EndMeansAll ==
  /\ fin["target"] /\ ended["client"] = "fin" /\ ~aborted => received["target"] = ForTarget
  /\ fin["client"] /\ ended["target"] = "fin" /\ ~aborted => received["client"] = ForClient

\* A peer or the server broke off.
Broken == aborted \/ \E p \in Peers : ended[p] = "reset"
=============================================================================
