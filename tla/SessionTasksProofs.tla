-------------------------- MODULE SessionTasksProofs --------------------------
(* Theorems about the tasks of a session, for any number of requests, bodies, *)
(* relayed bytes, frames, messages and threads: those of the relay of a       *)
(* CONNECT request (ProxyTask), then the inductive invariants of the request  *)
(* loop (HttpTask) and of the websocket connection (WebsocketConn), and with  *)
(* that of the proxy task the one of the session.                             *)
EXTENDS SessionTasks, SequenceFacts
-----------------------------------------------------------------------------
(* The relay of a CONNECT request *)

Types ==
  /\ pc \in {"start", "resolve", "resolved", "connect", "reply", "relay", "done"}
  /\ aborted \in BOOLEAN /\ ahead \in 0 .. 1
  /\ socket \in [Peers -> {"none", "open", "closed"}]
  /\ ended \in [Peers -> {"no", "fin", "reset"}]
  /\ at \in [Peers -> {"read", "write", "ended"}]
  /\ fin \in [Peers -> BOOLEAN] /\ deaf \in [Peers -> BOOLEAN]
  /\ sent \in [Peers -> Nat] /\ taken \in [Peers -> Nat]
  /\ \A p \in Peers : taken[p] <= sent[p] /\ sent[p] <= MaxSent
  /\ buffer \in [Peers -> Seq(Nat)] /\ received \in [Peers -> Seq(Nat)]

\* Only abort() closes a socket.
Sockets ==
  ~aborted => /\ socket["client"] = "open"
              /\ pc \in {"connect", "reply", "relay"} => socket["target"] = "open"

\* The client has been told that it is connected.
Told == Len(received["client"]) > 0

Phases ==
  /\ pc \in {"start", "resolve", "resolved", "connect", "reply"} => ~Told
  /\ pc = "relay" => Told

\* What came out of the transfer from p, and the number before its first byte.
Out(p)  == received[Other(p)]
Base(p) == IF p = "client" THEN ahead ELSE 0 - 1

\* Nothing is transferred before the reply.
Unused(p) ==
  /\ at[p] = "read" /\ Len(Out(p)) = 0 /\ taken[p] = IF p = "client" THEN ahead ELSE 0
  /\ ~fin[Other(p)] /\ ~deaf[p]

\* What comes out of a transfer is what goes in.
Numbered(p) == \A i \in 1 .. Len(Out(p)) : Out(p)[i] = Base(p) + i

\* What was taken is in the buffer or has come out, until a write fails.
Held(p) ==
  /\ Len(buffer[p]) > 0
  /\ taken[p] = Base(p) + Len(Out(p)) + Len(buffer[p])
  /\ \A i \in 1 .. Len(buffer[p]) : buffer[p][i] = Base(p) + Len(Out(p)) + i

Accounted(p) ==
  /\ at[p] = "read" => taken[p] = Base(p) + Len(Out(p))
  /\ at[p] = "write" => Held(p)
  /\ at[p] = "ended" => Base(p) + Len(Out(p)) <= taken[p]

\* How a transfer has ended, and with what.
EndKnown(p) ==
  /\ deaf[p] => at[p] = "ended"
  /\ fin[Other(p)] => at[p] = "ended" /\ taken[p] = Base(p) + Len(Out(p))
  /\ fin[Other(p)] /\ ~aborted => \/ ended[p] = "reset"
                                  \/ ended[p] = "fin" /\ taken[p] = sent[p]

Flow(p) == (~Told => Unused(p)) /\ (Told => Numbered(p) /\ Accounted(p) /\ EndKnown(p))

\* The inductive invariant.
IInv == Types /\ Sockets /\ Phases /\ \A p \in Peers : Flow(p)
-----------------------------------------------------------------------------
\* The two peers.
LEMMA PeerFacts ==
  /\ "client" \in Peers /\ "target" \in Peers
  /\ Other("client") = "target" /\ Other("target") = "client"
  /\ \A p \in Peers : p = "client" \/ p = "target"
  /\ \A p \in Peers : Other(p) \in Peers /\ Other(p) # p /\ Other(Other(p)) = p
  /\ \A p, q \in Peers : p # q => q = Other(p)
  BY DEF Peers, Other

\* What a write of n bytes of a buffer adds to what a peer has been sent.
LEMMA PassFacts ==
  ASSUME NEW s \in Seq(Nat), NEW b \in Seq(Nat), NEW n \in 0 .. Len(b)
  PROVE  /\ s \o SubSeq(b, 1, n) \in Seq(Nat)
         /\ Len(s \o SubSeq(b, 1, n)) = Len(s) + n
         /\ \A i \in 1 .. Len(s) : (s \o SubSeq(b, 1, n))[i] = s[i]
         /\ \A i \in 1 .. n : (s \o SubSeq(b, 1, n))[Len(s) + i] = b[i]
<1>1. Len(b) \in Nat /\ Len(s) \in Nat
  OBVIOUS
<1>2. /\ SubSeq(b, 1, n) \in Seq(Nat) /\ Len(SubSeq(b, 1, n)) = n
      /\ \A i \in 1 .. n : SubSeq(b, 1, n)[i] = b[i]
  BY <1>1
<1> DEFINE t == SubSeq(b, 1, n)
<1> HIDE DEF t
<1>3. t \in Seq(Nat) /\ Len(t) = n /\ \A i \in 1 .. n : t[i] = b[i]
  BY <1>2 DEF t
<1>4. s \o t \in Seq(Nat) /\ Len(s \o t) = Len(s) + n
  BY <1>3, ConcatProperties
<1>5. \A i \in 1 .. Len(s) : (s \o t)[i] = s[i]
  BY <1>1, <1>3
<1>6. ASSUME NEW i \in 1 .. n PROVE (s \o t)[Len(s) + i] = b[i]
  <2>1. Len(s) + i \in Len(s) + 1 .. Len(s) + Len(t) /\ Len(s) + i - Len(s) = i
    BY <1>1, <1>3
  <2>2. (s \o t)[Len(s) + i] = t[Len(s) + i - Len(s)]
    BY <1>1, <1>3, <2>1, ConcatProperties
  <2> QED
    BY <1>3, <2>1, <2>2
<1> QED
  BY <1>4, <1>5, <1>6 DEF t

\* The transfer from q does not notice what does not change its own state.
LEMMA FlowKept ==
  ASSUME NEW q \in Peers, Flow(q),
         ahead' = ahead, at'[q] = at[q], taken'[q] = taken[q], buffer'[q] = buffer[q],
         received'[Other(q)] = received[Other(q)], fin'[Other(q)] = fin[Other(q)],
         deaf'[q] = deaf[q], ended'[q] = ended[q], sent'[q] = sent[q],
         aborted => aborted', Told' <=> Told
  PROVE  Flow(q)'
<1>1. Out(q)' = Out(q) /\ Base(q)' = Base(q)
  BY DEF Out, Base
<1>2. /\ Unused(q) => Unused(q)'
      /\ Numbered(q) => Numbered(q)'
      /\ Accounted(q) => Accounted(q)'
      /\ EndKnown(q) => EndKnown(q)'
  BY <1>1 DEF Unused, Numbered, Accounted, Held, EndKnown
<1> QED
  BY <1>2 DEF Flow

LEMMA InitIInv == Init => IInv
<1> SUFFICES ASSUME Init PROVE IInv
  OBVIOUS
<1> USE PeerFacts
<1>1. Types
  <2>1. ahead \in Nat /\ ahead <= MaxSent /\ MaxSent \in Nat /\ <<>> \in Seq(Nat)
    BY MaxSentAssumption DEF Init
  <2>2. /\ pc = "start" /\ aborted \in BOOLEAN /\ ahead \in 0 .. 1
        /\ fin \in [Peers -> BOOLEAN] /\ deaf \in [Peers -> BOOLEAN]
    BY DEF Init, Each
  <2>3. /\ sent \in [Peers -> Nat] /\ taken \in [Peers -> Nat]
        /\ \A p \in Peers : taken[p] <= sent[p] /\ sent[p] <= MaxSent
    BY <2>1 DEF Init
  <2>4. /\ socket \in [Peers -> {"none", "open", "closed"}]
        /\ ended \in [Peers -> {"no", "fin", "reset"}]
        /\ at \in [Peers -> {"read", "write", "ended"}]
    BY DEF Init, Each
  <2>5. buffer \in [Peers -> Seq(Nat)] /\ received \in [Peers -> Seq(Nat)]
    BY <2>1 DEF Init, Each
  <2> QED
    BY <2>2, <2>3, <2>4, <2>5 DEF Types
<1>2. \A p \in Peers : received[p] = <<>> /\ Out(p) = <<>>
  BY DEF Init, Each, Out
<1>3. ~Told /\ \A p \in Peers : Len(Out(p)) = 0
  BY <1>2 DEF Told
<1>4. Sockets /\ Phases
  BY <1>3 DEF Init, Sockets, Phases
<1>5. \A p \in Peers : Unused(p)
  BY <1>3 DEF Init, Each, Unused
<1> QED
  BY <1>1, <1>3, <1>4, <1>5 DEF IInv, Flow

\* The steps of a peer touch only what is still to be read.
LEMMA PeerStep ==
  ASSUME IInv, NEW p \in Peers, Send(p) \/ End(p, "fin") \/ End(p, "reset")
  PROVE  IInv'
<1> USE PeerFacts
<1>1. /\ UNCHANGED <<pc, ahead, socket, taken, at, buffer, received, fin, deaf, aborted>>
      /\ ended[p] = "no"
  BY DEF Send, End, transfer
<1>2. Types'
  <2>0. /\ ended \in [Peers -> {"no", "fin", "reset"}] /\ sent \in [Peers -> Nat]
        /\ taken \in [Peers -> Nat]
        /\ \A q \in Peers : taken[q] <= sent[q] /\ sent[q] <= MaxSent
    BY DEF IInv, Types
  <2>a. \/ ended' = ended \/ ended' = [ended EXCEPT ![p] = "fin"]
        \/ ended' = [ended EXCEPT ![p] = "reset"]
    BY DEF Send, End
  <2>b. sent' = sent \/ (sent[p] < MaxSent /\ sent' = [sent EXCEPT ![p] = @ + 1])
    BY DEF Send, End
  <2>1. ended' \in [Peers -> {"no", "fin", "reset"}]
    BY <2>0, <2>a
  <2>2. /\ sent' \in [Peers -> Nat]
        /\ \A q \in Peers : sent[q] <= sent'[q] /\ sent'[q] <= MaxSent
    BY <2>0, <2>b, MaxSentAssumption
  <2>3. \A q \in Peers : taken[q] <= sent'[q]
    BY <2>0, <2>2
  <2> QED
    BY <1>1, <2>1, <2>2, <2>3 DEF IInv, Types
<1>3. (Told' <=> Told) /\ Sockets' /\ Phases'
  BY <1>1 DEF IInv, Sockets, Phases, Told
<1>4. ASSUME NEW q \in Peers, q # p PROVE Flow(q)'
  <2>1. ended'[q] = ended[q] /\ sent'[q] = sent[q]
    BY <1>4, SMTT(30) DEF IInv, Types, Send, End
  <2> QED
    BY <1>1, <1>3, <2>1, FlowKept DEF IInv
<1>5. Flow(p)'
  <2>1. Out(p)' = Out(p) /\ Base(p)' = Base(p)
    BY <1>1 DEF Out, Base
  <2>2. Flow(p)
    BY DEF IInv
  <2>3. (~Told => Unused(p)') /\ (Told => Numbered(p)' /\ Accounted(p)')
    BY <1>1, <2>1, <2>2 DEF Flow, Unused, Numbered, Accounted, Held
  <2>4. Told => EndKnown(p)'
    BY <1>1, <2>1, <2>2 DEF Flow, EndKnown
  <2> QED
    BY <1>3, <2>3, <2>4 DEF Flow
<1> QED
  BY <1>2, <1>3, <1>4, <1>5 DEF IInv

\* What the steps of then() before the reply leave alone, and so the flows.
LEMMA SetupStep ==
  ASSUME IInv,
         \/ FindTarget \/ Resolved \/ StartConnect \/ Connected \/ ConnectFails
         \/ ReplyFails \/ Join \/ Abort
  PROVE  IInv'
<1> USE PeerFacts
<1>1. UNCHANGED <<ahead, peers, transfer>> /\ (aborted => aborted') /\ aborted' \in BOOLEAN
  BY DEF IInv, Types, FindTarget, Resolved, StartConnect, Connected, ConnectFails, ReplyFails,
         Join, Abort, Goto
<1>2. UNCHANGED <<ended, sent, taken, at, buffer, received, fin, deaf>>
  BY <1>1 DEF peers, transfer
<1>3. /\ socket' \in [Peers -> {"none", "open", "closed"}]
      /\ pc' \in {"start", "resolve", "resolved", "connect", "reply", "relay", "done"}
  <2>1. /\ socket \in [Peers -> {"none", "open", "closed"}]
        /\ pc \in {"start", "resolve", "resolved", "connect", "reply", "relay", "done"}
    BY DEF IInv, Types
  <2>2. \/ socket' = socket \/ socket' = [socket EXCEPT !["target"] = "open"]
        \/ socket' = [p \in Peers |-> IF socket[p] = "open" THEN "closed" ELSE socket[p]]
    BY DEF FindTarget, Resolved, StartConnect, Connected, ConnectFails, ReplyFails, Join, Abort
  <2>3. pc' \in {pc, "resolve", "resolved", "connect", "reply", "done"}
    BY DEF FindTarget, Resolved, StartConnect, Connected, ConnectFails, ReplyFails, Join, Abort,
           Goto
  <2>4. socket' \in [Peers -> {"none", "open", "closed"}]
    BY <2>1, <2>2
  <2> QED
    BY <2>1, <2>3, <2>4
<1>4. Types'
  BY <1>1, <1>2, <1>3 DEF IInv, Types
<1>5. Told' <=> Told
  BY <1>2 DEF Told
<1>6. Sockets'
  BY DEF IInv, Types, Sockets, FindTarget, Resolved, StartConnect, Connected, ConnectFails,
         ReplyFails, Join, Abort, Goto
<1>7. Phases'
  BY <1>5 DEF IInv, Phases, FindTarget, Resolved, StartConnect, Connected, ConnectFails,
         ReplyFails, Join, Abort, Goto
<1>8. \A q \in Peers : Flow(q)'
  BY <1>1, <1>2, <1>5, FlowKept DEF IInv
<1> QED
  BY <1>4, <1>6, <1>7, <1>8 DEF IInv

\* The reply is the first thing that the client is sent.
LEMMA ReplyStep ==
  ASSUME IInv, WriteReply
  PROVE  IInv'
<1> USE PeerFacts
<1>1. /\ pc = "reply" /\ pc' = "relay"
      /\ UNCHANGED <<ahead, socket, ended, sent, taken, at, buffer, fin, deaf, aborted>>
  BY DEF WriteReply, peers
<1>2. /\ received["client"] \in Seq(Nat) /\ Len(received["client"]) = 0
      /\ received["target"] \in Seq(Nat) /\ Len(received["target"]) = 0
      /\ \A p \in Peers : Unused(p)
  BY <1>1 DEF IInv, Types, Phases, Flow, Told, Unused, Out
<1>3. /\ received' \in [Peers -> Seq(Nat)]
      /\ received'["client"] = Append(received["client"], Reply)
      /\ received'["target"] = received["target"]
  BY <1>2 DEF IInv, Types, WriteReply, Reply
<1>4. Len(received'["client"]) = 1 /\ received'["client"][1] = 0
  BY <1>2, <1>3 DEF Reply
<1>5. Types'
  BY <1>1, <1>3 DEF IInv, Types
<1>6. Told' /\ Sockets' /\ Phases'
  BY <1>1, <1>4 DEF IInv, Told, Sockets, Phases
<1>7. ASSUME NEW p \in Peers PROVE Flow(p)'
  <2>a. at'[p] = "read" /\ ~fin'[Other(p)] /\ ~deaf'[p]
    BY <1>1, <1>2 DEF Unused
  <2>b. taken["client"] = ahead /\ taken["target"] = 0 /\ ahead \in Nat
    BY <1>2 DEF Unused, IInv, Types
  <2>1. taken'[p] = Base(p)' + Len(Out(p)')
    <3>1. CASE p = "client"
      <4>1. Out(p)' = received["target"] /\ Base(p)' = ahead
        BY <1>1, <1>3, <3>1 DEF Base, Out
      <4> QED
        BY <1>1, <1>2, <2>b, <3>1, <4>1
    <3>2. CASE p = "target"
      <4>1. Out(p)' = received'["client"] /\ Base(p)' = 0 - 1
        BY <3>2 DEF Base, Out
      <4>2. Len(Out(p)') = 1 /\ taken'[p] = 0
        BY <1>1, <1>4, <2>b, <3>2, <4>1
      <4> QED
        BY <4>1, <4>2
    <3> QED
      BY <3>1, <3>2
  <2>2. Numbered(p)'
    BY <1>2, <1>3, <1>4, SMTT(30) DEF Numbered, Out, Base
  <2> QED
    BY <1>6, <2>a, <2>1, <2>2 DEF Flow, Accounted, EndKnown, Out
<1> QED
  BY <1>5, <1>6, <1>7 DEF IInv

\* The state of one transfer, as the steps of a transfer find it.
LEMMA TransferState ==
  ASSUME IInv, NEW p \in Peers, pc = "relay"
  PROVE  /\ Told /\ Numbered(p) /\ Accounted(p) /\ EndKnown(p)
         /\ Other(p) \in Peers /\ Other(p) # p
         /\ taken[p] \in Nat /\ sent[p] \in Nat /\ taken[p] <= sent[p]
         /\ buffer[p] \in Seq(Nat) /\ Out(p) \in Seq(Nat) /\ Len(Out(p)) \in Nat
         /\ Base(p) \in Int /\ 0 - 1 <= Base(p)
<1>1. Told /\ Numbered(p) /\ Accounted(p) /\ EndKnown(p)
  BY DEF IInv, Phases, Flow
<1>2. Other(p) \in Peers /\ Other(p) # p
  BY PeerFacts
<1>3. /\ taken[p] \in Nat /\ sent[p] \in Nat /\ taken[p] <= sent[p]
      /\ buffer[p] \in Seq(Nat) /\ Out(p) \in Seq(Nat) /\ ahead \in 0 .. 1
  BY <1>2 DEF IInv, Types, Out
<1>4. Base(p) \in Int /\ 0 - 1 <= Base(p) /\ Len(Out(p)) \in Nat
  BY <1>3 DEF Base
<1> QED
  BY <1>1, <1>2, <1>3, <1>4

\* A step of the transfer from p keeps the invariant if it keeps its types and the
\* flow of p, and leaves what belongs to the other direction alone.
LEMMA TransferStep ==
  ASSUME IInv, NEW p \in Peers, pc = "relay", Types', Flow(p)', Told',
         UNCHANGED <<pc, ahead, socket, ended, sent, aborted>>,
         LET q == Other(p)
         IN  /\ at'[q] = at[q] /\ taken'[q] = taken[q] /\ buffer'[q] = buffer[q]
             /\ received'[p] = received[p] /\ fin'[p] = fin[p] /\ deaf'[q] = deaf[q]
  PROVE  IInv'
<1>1. Told /\ Other(p) \in Peers /\ Other(Other(p)) = p
  BY TransferState, PeerFacts
<1>2. Sockets' /\ Phases'
  BY DEF IInv, Sockets, Phases
<1>3. Flow(Other(p))'
  BY <1>1, FlowKept DEF IInv
<1>4. \A q \in Peers : q = p \/ q = Other(p)
  BY PeerFacts
<1> QED
  BY <1>2, <1>3, <1>4 DEF IInv

\* What is read continues what was passed on.
LEMMA ReadStep ==
  ASSUME IInv, NEW p \in Peers, NEW n, ReadSome(p, n)
  PROVE  IInv'
<1>1. /\ pc = "relay" /\ at[p] = "read" /\ n \in 1 .. Rest(p)
      /\ buffer' = [buffer EXCEPT ![p] = [i \in 1 .. n |-> taken[p] + i]]
      /\ taken' = [taken EXCEPT ![p] = @ + n]
      /\ at' = [at EXCEPT ![p] = "write"]
      /\ UNCHANGED <<pc, ahead, socket, ended, sent, received, fin, deaf, aborted>>
  BY DEF ReadSome, peers
<1> DEFINE b == [i \in 1 .. n |-> taken[p] + i]
<1>2. /\ Told /\ Numbered(p) /\ Accounted(p) /\ EndKnown(p)
      /\ Other(p) \in Peers /\ Other(p) # p
      /\ taken[p] \in Nat /\ sent[p] \in Nat /\ taken[p] <= sent[p]
      /\ Len(Out(p)) \in Nat /\ Base(p) \in Int
  BY <1>1, TransferState
<1>3. n \in Nat /\ n > 0 /\ taken[p] + n <= sent[p]
  BY <1>1, <1>2 DEF Rest
<1>4. b \in Seq(Nat) /\ Len(b) = n /\ \A i \in 1 .. n : b[i] = taken[p] + i
  <2>1. b \in [1 .. n -> Nat]
    BY <1>2, <1>3
  <2> QED
    BY <2>1, <1>3
<1>5. /\ buffer \in [Peers -> Seq(Nat)] /\ taken \in [Peers -> Nat]
      /\ at \in [Peers -> {"read", "write", "ended"}]
      /\ \A q \in Peers : taken[q] <= sent[q]
  BY DEF IInv, Types
<1> HIDE DEF b
<1>6. /\ buffer'[p] = b /\ taken'[p] = taken[p] + n /\ at'[p] = "write"
      /\ at'[Other(p)] = at[Other(p)] /\ taken'[Other(p)] = taken[Other(p)]
      /\ buffer'[Other(p)] = buffer[Other(p)]
  BY <1>1, <1>2, <1>5 DEF b
<1>7. Types'
  <2>1. buffer' \in [Peers -> Seq(Nat)]
    BY <1>1, <1>4, <1>5 DEF b
  <2>2. taken' \in [Peers -> Nat] /\ \A q \in Peers : taken'[q] <= sent[q]
    BY <1>1, <1>2, <1>3, <1>5
  <2>3. at' \in [Peers -> {"read", "write", "ended"}]
    BY <1>1, <1>5
  <2> QED
    BY <1>1, <2>1, <2>2, <2>3 DEF IInv, Types
<1>8. Out(p)' = Out(p) /\ Base(p)' = Base(p) /\ Told'
  BY <1>1, <1>2 DEF Out, Base, Told
<1>9. taken[p] = Base(p) + Len(Out(p)) /\ ~fin[Other(p)] /\ ~deaf[p]
  BY <1>1, <1>2 DEF Accounted, EndKnown
<1>10. Held(p)'
  BY <1>2, <1>3, <1>4, <1>6, <1>8, <1>9 DEF Held
<1>11. Numbered(p)' /\ Accounted(p)' /\ EndKnown(p)'
  BY <1>1, <1>2, <1>6, <1>8, <1>9, <1>10 DEF Numbered, Accounted, EndKnown
<1>12. Flow(p)'
  BY <1>8, <1>11 DEF Flow
<1> QED
  BY <1>1, <1>6, <1>7, <1>8, <1>12, TransferStep

\* The end is passed on behind everything that was taken.
LEMMA ReadFailsStep ==
  ASSUME IInv, NEW p \in Peers, ReadFails(p)
  PROVE  IInv'
<1>1. /\ pc = "relay" /\ at[p] = "read" /\ ReadEnds(p)
      /\ fin' = [fin EXCEPT ![Other(p)] = TRUE]
      /\ at' = [at EXCEPT ![p] = "ended"]
      /\ UNCHANGED <<pc, ahead, socket, ended, sent, taken, buffer, received, deaf, aborted>>
  BY DEF ReadFails, peers
<1>2. /\ Told /\ Numbered(p) /\ Accounted(p) /\ EndKnown(p)
      /\ Other(p) \in Peers /\ Other(p) # p
      /\ taken[p] \in Nat /\ sent[p] \in Nat
      /\ Len(Out(p)) \in Nat /\ Base(p) \in Int
  BY <1>1, TransferState
<1>3. /\ fin \in [Peers -> BOOLEAN] /\ at \in [Peers -> {"read", "write", "ended"}]
  BY DEF IInv, Types
<1>4. /\ at'[p] = "ended" /\ fin'[Other(p)] = TRUE
      /\ at'[Other(p)] = at[Other(p)] /\ fin'[p] = fin[p]
  BY <1>1, <1>2, <1>3
<1>5. Types'
  <2>1. at' \in [Peers -> {"read", "write", "ended"}]
    BY <1>1, <1>3
  <2>2. fin' \in [Peers -> BOOLEAN]
    BY <1>1, <1>2, <1>3
  <2> QED
    BY <1>1, <2>1, <2>2 DEF IInv, Types
<1>6. Out(p)' = Out(p) /\ Base(p)' = Base(p) /\ Told'
  BY <1>1, <1>2 DEF Out, Base, Told
<1>7. taken[p] = Base(p) + Len(Out(p)) /\ ~deaf[p]
  BY <1>1, <1>2 DEF Accounted, EndKnown
<1>8. ~aborted => ended[p] = "reset" \/ (ended[p] = "fin" /\ taken[p] = sent[p])
  <2>1. ~aborted => socket[p] = "open"
    BY <1>1, PeerFacts DEF IInv, Sockets
  <2> QED
    BY <1>1, <1>2, <1>7, <2>1 DEF ReadEnds, Rest
<1>9. Numbered(p)' /\ Accounted(p)' /\ EndKnown(p)'
  BY <1>1, <1>2, <1>4, <1>6, <1>7, <1>8 DEF Numbered, Accounted, EndKnown
<1>10. Flow(p)'
  BY <1>6, <1>9 DEF Flow
<1> QED
  BY <1>1, <1>4, <1>5, <1>6, <1>10, TransferStep

\* Some of the buffer is passed on, in order and right behind what was before;
\* all of it by a write that succeeds.
LEMMA WriteStep ==
  ASSUME IInv, NEW p \in Peers, Write(p) \/ WriteFails(p)
  PROVE  IInv'
<1>1. /\ pc = "relay" /\ at[p] = "write"
      /\ UNCHANGED <<pc, ahead, socket, ended, sent, taken, buffer, fin, aborted>>
  BY DEF Write, WriteFails, peers
<1>2. /\ Told /\ Numbered(p) /\ Accounted(p) /\ EndKnown(p)
      /\ Other(p) \in Peers /\ Other(p) # p
      /\ taken[p] \in Nat /\ sent[p] \in Nat /\ taken[p] <= sent[p]
      /\ buffer[p] \in Seq(Nat) /\ Out(p) \in Seq(Nat) /\ Len(Out(p)) \in Nat
      /\ Base(p) \in Int
  BY <1>1, TransferState
<1>3. PICK n \in 0 .. Len(buffer[p]) :
        /\ received' = [received EXCEPT ![Other(p)] = @ \o SubSeq(buffer[p], 1, n)]
        /\ \/ /\ n = Len(buffer[p]) /\ at' = [at EXCEPT ![p] = "read"] /\ deaf' = deaf
           \/ /\ at' = [at EXCEPT ![p] = "ended"] /\ deaf' = [deaf EXCEPT ![p] = TRUE]
  <2>1. Len(buffer[p]) \in 0 .. Len(buffer[p])
    BY <1>2
  <2> QED
    BY <2>1 DEF Write, WriteFails, Pass
<1>4. Len(buffer[p]) \in Nat /\ n \in Nat /\ n <= Len(buffer[p])
  BY <1>2
<1> DEFINE r == Out(p) \o SubSeq(buffer[p], 1, n)
<1>5. /\ r \in Seq(Nat) /\ Len(r) = Len(Out(p)) + n
      /\ \A i \in 1 .. Len(Out(p)) : r[i] = Out(p)[i]
      /\ \A i \in 1 .. n : r[Len(Out(p)) + i] = buffer[p][i]
  BY <1>2, PassFacts
<1>6. received \in [Peers -> Seq(Nat)]
  BY DEF IInv, Types
<1>7. received' = [received EXCEPT ![Other(p)] = r]
  BY <1>3 DEF Out
<1> HIDE DEF r
<1>8. /\ received' \in [Peers -> Seq(Nat)]
      /\ Out(p)' = r /\ received'[p] = received[p] /\ Base(p)' = Base(p)
  BY <1>1, <1>2, <1>5, <1>6, <1>7 DEF Out, Base
<1>9. Told'
  <2>1. CASE p = "client"
    BY <1>2, <1>8, <2>1 DEF Told
  <2>2. CASE p = "target"
    <3>1. Out(p) = received["client"] /\ received'["client"] = r
      BY <1>8, <2>2, PeerFacts DEF Out
    <3> QED
      BY <1>2, <1>4, <1>5, <3>1 DEF Told
  <2> QED
    BY <2>1, <2>2, PeerFacts
<1>10. at \in [Peers -> {"read", "write", "ended"}] /\ deaf \in [Peers -> BOOLEAN]
  BY DEF IInv, Types
<1>11. /\ at'[Other(p)] = at[Other(p)] /\ deaf'[Other(p)] = deaf[Other(p)]
       /\ \/ n = Len(buffer[p]) /\ at'[p] = "read" /\ deaf'[p] = deaf[p]
          \/ at'[p] = "ended"
  BY <1>2, <1>3, <1>10
<1>12. Types'
  <2>1. at' \in [Peers -> {"read", "write", "ended"}] /\ deaf' \in [Peers -> BOOLEAN]
    BY <1>3, <1>10
  <2> QED
    BY <1>1, <1>8, <2>1 DEF IInv, Types
<1>13. Held(p) /\ ~fin[Other(p)] /\ ~deaf[p]
  BY <1>1, <1>2 DEF Accounted, EndKnown
<1>14. Numbered(p)'
  <2> SUFFICES ASSUME NEW i \in 1 .. Len(r) PROVE r[i] = Base(p) + i
    BY <1>8 DEF Numbered
  <2>1. CASE i \in 1 .. Len(Out(p))
    BY <1>2, <1>5, <2>1 DEF Numbered
  <2>2. CASE i \notin 1 .. Len(Out(p))
    <3>1. i - Len(Out(p)) \in 1 .. n /\ i = Len(Out(p)) + (i - Len(Out(p)))
      <4>1. Len(Out(p)) \in Nat /\ n \in Nat /\ Len(r) = Len(Out(p)) + n
        BY <1>2, <1>4, <1>5
      <4> QED
        BY <4>1, <2>2
    <3>2. r[i] = buffer[p][i - Len(Out(p))] /\ i - Len(Out(p)) \in 1 .. Len(buffer[p])
      <4> DEFINE j == i - Len(Out(p))
      <4>1. j \in 1 .. n /\ i = Len(Out(p)) + j
        BY <3>1
      <4> HIDE DEF j
      <4>2. r[i] = buffer[p][j]
        BY <1>5, <4>1
      <4>3. j \in 1 .. Len(buffer[p])
        BY <1>4, <4>1
      <4> QED
        BY <4>2, <4>3 DEF j
    <3>3. r[i] = Base(p) + Len(Out(p)) + (i - Len(Out(p)))
      BY <1>13, <3>2 DEF Held
    <3>4. Len(Out(p)) \in Nat /\ Base(p) \in Int /\ i \in Int
      BY <1>2, <3>1
    <3> QED
      BY <3>3, <3>4
  <2> QED
    BY <2>1, <2>2
<1>15. Accounted(p)'
  <2>1. taken[p] = Base(p) + Len(Out(p)) + Len(buffer[p])
    BY <1>13 DEF Held
  <2>2. Len(Out(p)') = Len(Out(p)) + n
    BY <1>5, <1>8
  <2>3. CASE at'[p] = "ended"
    <3>1. Base(p) + (Len(Out(p)) + n) <= taken[p]
      BY <1>2, <1>4, <2>1
    <3> QED
      BY <1>1, <1>8, <2>2, <2>3, <3>1 DEF Accounted
  <2>4. CASE at'[p] = "read" /\ n = Len(buffer[p])
    <3>1. taken[p] = Base(p) + (Len(Out(p)) + n)
      BY <1>2, <1>4, <2>1, <2>4
    <3> QED
      BY <1>1, <1>8, <2>2, <2>4, <3>1 DEF Accounted
  <2> QED
    BY <1>11, <2>3, <2>4
<1>16. EndKnown(p)'
  BY <1>1, <1>11, <1>13 DEF EndKnown
<1>17. Flow(p)'
  BY <1>9, <1>14, <1>15, <1>16 DEF Flow
<1> QED
  BY <1>1, <1>8, <1>9, <1>11, <1>12, <1>17, TransferStep

LEMMA StepIInv == IInv /\ [Next]_vars => IInv'
<1> SUFFICES ASSUME IInv, [Next]_vars PROVE IInv'
  OBVIOUS
<1>1. CASE Setup
  BY <1>1, SetupStep, ReplyStep DEF Setup
<1>2. ASSUME NEW p \in Peers, Copy(p) PROVE IInv'
  BY <1>2, ReadStep, ReadFailsStep, WriteStep DEF Copy
<1>3. CASE Join \/ Abort
  BY <1>3, SetupStep
<1>4. ASSUME NEW p \in Peers, Send(p) \/ End(p, "fin") \/ End(p, "reset") PROVE IInv'
  BY <1>4, PeerStep
<1>5. CASE UNCHANGED vars
  <2>1. UNCHANGED <<pc, ahead, socket, ended, sent, taken, at, buffer, received, fin, deaf,
                    aborted>>
    BY <1>5 DEF vars, peers, transfer
  <2>2. Types' /\ Sockets' /\ Phases' /\ (Told' <=> Told)
    BY <2>1 DEF IInv, Types, Sockets, Phases, Told
  <2>3. \A q \in Peers : Flow(q)'
    BY <2>1, <2>2, FlowKept DEF IInv
  <2> QED
    BY <2>2, <2>3 DEF IInv
<1> QED
  BY <1>1, <1>2, <1>3, <1>4, <1>5 DEF Next, Done

LEMMA Invariance == Spec => []IInv
<1> QED
  BY InitIInv, StepIInv, PTL DEF Spec
-----------------------------------------------------------------------------
\* A sequence that agrees with another as far as it goes is a prefix of it.
LEMMA PrefixFacts ==
  ASSUME NEW s \in Seq(Nat), NEW t \in Seq(Nat), Len(s) <= Len(t),
         \A i \in 1 .. Len(s) : s[i] = t[i]
  PROVE  IsPrefix(s, t) /\ (Len(s) = Len(t) => s = t)
<1>1. Len(s) \in Nat /\ Len(t) \in Nat
  OBVIOUS
<1>2. /\ SubSeq(s, 1, Len(s)) \in Seq(Nat) /\ Len(SubSeq(s, 1, Len(s))) = Len(s)
      /\ \A i \in 1 .. Len(s) : SubSeq(s, 1, Len(s))[i] = s[i]
  BY <1>1
<1>3. /\ SubSeq(t, 1, Len(s)) \in Seq(Nat) /\ Len(SubSeq(t, 1, Len(s))) = Len(s)
      /\ \A i \in 1 .. Len(s) : SubSeq(t, 1, Len(s))[i] = t[i]
  BY <1>1
<1>4. SubSeq(s, 1, Len(s)) = SubSeq(t, 1, Len(s))
  BY <1>2, <1>3, SeqEqual
<1>5. Len(s) = Len(t) => s = t
  BY SeqEqual
<1> QED
  BY <1>4, <1>5 DEF IsPrefix

\* The bytes in between two numbers.
LEMMA BytesFacts ==
  ASSUME NEW m \in Nat, NEW n \in Nat, m <= n
  PROVE  /\ Bytes(m, n) \in Seq(Nat) /\ Len(Bytes(m, n)) = n - m
         /\ \A i \in 1 .. n - m : Bytes(m, n)[i] = m + i
<1>1. n - m \in Nat
  OBVIOUS
<1>2. Bytes(m, n) \in [1 .. n - m -> Nat]
  BY <1>1 DEF Bytes
<1>3. \A i \in 1 .. n - m : Bytes(m, n)[i] = m + i
  BY <1>1 DEF Bytes
<1> QED
  BY <1>1, <1>2, <1>3

\* What the invariant says of what each peer has been sent.
LEMMA Summary ==
  ASSUME IInv
  PROVE  /\ received["target"] \in Seq(Nat) /\ received["client"] \in Seq(Nat)
         /\ ahead \in Nat /\ sent["client"] \in Nat /\ sent["target"] \in Nat
         /\ ahead + Len(received["target"]) <= sent["client"]
         /\ Len(received["client"]) <= sent["target"] + 1
         /\ \A i \in 1 .. Len(received["target"]) : received["target"][i] = ahead + i
         /\ \A i \in 1 .. Len(received["client"]) : received["client"][i] = i - 1
<1> DEFINE rt == received["target"]
           rc == received["client"]
<1>1. /\ rt \in Seq(Nat) /\ rc \in Seq(Nat) /\ ahead \in Nat
      /\ sent["client"] \in Nat /\ sent["target"] \in Nat
      /\ taken["client"] \in Nat /\ taken["target"] \in Nat
      /\ taken["client"] <= sent["client"] /\ taken["target"] <= sent["target"]
      /\ at \in [Peers -> {"read", "write", "ended"}]
  BY PeerFacts DEF IInv, Types
<1>2. Len(rt) \in Nat /\ Len(rc) \in Nat
  BY <1>1
<1>3. Out("client") = rt /\ Out("target") = rc /\ Base("client") = ahead /\ Base("target") = 0 - 1
  BY PeerFacts DEF Out, Base
<1>4. Flow("client") /\ Flow("target")
  BY PeerFacts DEF IInv
<1> HIDE DEF rt, rc
<1>5. CASE ~Told
  <2>1. Len(rt) = 0 /\ Len(rc) = 0 /\ taken["client"] = ahead
    BY <1>3, <1>4, <1>5 DEF Flow, Unused
  <2> QED
    BY <1>1, <2>1 DEF rt, rc
<1>6. CASE Told
  <2>1. Numbered("client") /\ Numbered("target") /\ Accounted("client") /\ Accounted("target")
    BY <1>4, <1>6 DEF Flow
  <2>2. /\ \A i \in 1 .. Len(rt) : rt[i] = ahead + i
        /\ \A i \in 1 .. Len(rc) : rc[i] = (0 - 1) + i
    BY <1>3, <2>1 DEF Numbered
  <2>3. ahead + Len(rt) <= taken["client"]
    <3>1. at["client"] \in {"read", "write", "ended"} /\ Len(buffer["client"]) \in Nat
      BY <1>1, PeerFacts DEF IInv, Types
    <3> QED
      BY <1>1, <1>2, <1>3, <2>1, <3>1 DEF Accounted, Held
  <2>4. (0 - 1) + Len(rc) <= taken["target"]
    <3>1. at["target"] \in {"read", "write", "ended"} /\ Len(buffer["target"]) \in Nat
      BY <1>1, PeerFacts DEF IInv, Types
    <3> QED
      BY <1>1, <1>2, <1>3, <2>1, <3>1 DEF Accounted, Held
  <2>5. ahead + Len(rt) <= sent["client"] /\ Len(rc) <= sent["target"] + 1
    BY <1>1, <1>2, <2>3, <2>4, SMTT(30)
  <2>6. \A i \in 1 .. Len(rc) : rc[i] = i - 1
    BY <1>2, <2>2
  <2> QED
    BY <1>1, <2>2, <2>5, <2>6 DEF rt, rc
<1> QED
  BY <1>5, <1>6

\* What each peer should be sent in the end.
LEMMA TargetsFacts ==
  ASSUME IInv
  PROVE  /\ ForTarget \in Seq(Nat) /\ Len(ForTarget) = sent["client"] - ahead
         /\ \A i \in 1 .. Len(ForTarget) : ForTarget[i] = ahead + i
         /\ ForClient \in Seq(Nat) /\ Len(ForClient) = sent["target"] + 1
         /\ \A i \in 1 .. Len(ForClient) : ForClient[i] = i - 1
<1>1. /\ ahead \in Nat /\ sent["client"] \in Nat /\ sent["target"] \in Nat
      /\ ahead <= sent["client"]
  <2>1. Len(received["target"]) \in Nat
    BY Summary
  <2> QED
    BY <2>1, Summary
<1>2. /\ ForTarget \in Seq(Nat) /\ Len(ForTarget) = sent["client"] - ahead
      /\ \A i \in 1 .. Len(ForTarget) : ForTarget[i] = ahead + i
  BY <1>1, BytesFacts DEF ForTarget
<1> DEFINE b == Bytes(0, sent["target"])
<1>3. b \in Seq(Nat) /\ Len(b) = sent["target"] /\ \A i \in 1 .. sent["target"] : b[i] = i
  <2>1. 0 <= sent["target"] /\ sent["target"] - 0 = sent["target"]
    BY <1>1
  <2>2. /\ b \in Seq(Nat) /\ Len(b) = sent["target"]
        /\ \A i \in 1 .. sent["target"] : b[i] = 0 + i
    BY <1>1, <2>1, BytesFacts, ZenonT(30)
  <2> QED
    BY <1>1, <2>2
<1> HIDE DEF b
<1>4. ForClient = <<Reply>> \o b
  BY DEF ForClient, b
<1>5. <<Reply>> \in Seq(Nat) /\ Len(<<Reply>>) = 1 /\ <<Reply>>[1] = 0
  BY DEF Reply
<1>6. ForClient \in Seq(Nat) /\ Len(ForClient) = sent["target"] + 1
  BY <1>1, <1>3, <1>4, <1>5, ConcatProperties
<1>7. ASSUME NEW i \in 1 .. Len(ForClient) PROVE ForClient[i] = i - 1
  <2>1. ForClient[i] = IF i <= 1 THEN <<Reply>>[i] ELSE b[i - 1]
    BY <1>3, <1>4, <1>5, <1>6, <1>7, ConcatProperties
  <2>2. i \in 1 .. sent["target"] + 1
    BY <1>6
  <2>3. CASE i = 1
    BY <1>5, <2>1, <2>3
  <2>4. CASE i # 1
    <3>1. i - 1 \in 1 .. sent["target"] /\ ~(i <= 1)
      BY <1>1, <2>2, <2>4
    <3>2. b[i - 1] = i - 1
      BY <1>3, <3>1
    <3> QED
      BY <2>1, <3>1, <3>2
  <2> QED
    BY <2>3, <2>4
<1> QED
  BY <1>2, <1>6, <1>7

\* The inductive invariant says that the state is well formed.
LEMMA TypesFollow == ASSUME IInv PROVE TypeOK
<1>1. ASSUME NEW p \in Peers, at[p] = "write" PROVE buffer[p][Len(buffer[p])] = taken[p]
  <2>1. Held(p)
    BY <1>1 DEF IInv, Flow, Unused, Accounted
  <2>2. buffer[p] \in Seq(Nat) /\ Len(buffer[p]) \in Nat
    BY DEF IInv, Types
  <2>3. Len(buffer[p]) \in 1 .. Len(buffer[p])
    BY <2>1, <2>2 DEF Held
  <2> QED
    BY <2>1, <2>3 DEF Held
<1>2. \A p \in Peers : 0 <= taken[p] /\ taken[p] <= sent[p] /\ sent[p] <= MaxSent
  BY DEF IInv, Types
<1> QED
  BY <1>1, <1>2 DEF IInv, Types, TypeOK

\* It says that each peer received a prefix of what is meant for it.
LEMMA OrderFollows == ASSUME IInv PROVE InOrder
<1>1. /\ Len(received["target"]) \in Nat /\ Len(received["client"]) \in Nat
      /\ Len(received["target"]) <= Len(ForTarget)
      /\ Len(received["client"]) <= Len(ForClient)
  <2>1. /\ received["target"] \in Seq(Nat) /\ received["client"] \in Seq(Nat)
        /\ ahead \in Nat /\ sent["client"] \in Nat /\ sent["target"] \in Nat
        /\ ahead + Len(received["target"]) <= sent["client"]
        /\ Len(received["client"]) <= sent["target"] + 1
    BY Summary
  <2>2. Len(ForTarget) = sent["client"] - ahead /\ Len(ForClient) = sent["target"] + 1
    BY TargetsFacts
  <2>3. Len(received["target"]) \in Nat /\ Len(received["client"]) \in Nat
    BY <2>1
  <2> QED
    BY <2>1, <2>2, <2>3
<1>2. \A i \in 1 .. Len(received["target"]) : received["target"][i] = ForTarget[i]
  <2> SUFFICES ASSUME NEW i \in 1 .. Len(received["target"])
               PROVE  received["target"][i] = ForTarget[i]
    OBVIOUS
  <2>1. received["target"][i] = ahead + i
    BY Summary
  <2>2. Len(ForTarget) \in Nat
    BY TargetsFacts
  <2>3. i \in 1 .. Len(ForTarget)
    BY <1>1, <2>2
  <2>4. ForTarget[i] = ahead + i
    BY <2>3, TargetsFacts
  <2> QED
    BY <2>1, <2>4
<1>3. \A i \in 1 .. Len(received["client"]) : received["client"][i] = ForClient[i]
  <2> SUFFICES ASSUME NEW i \in 1 .. Len(received["client"])
               PROVE  received["client"][i] = ForClient[i]
    OBVIOUS
  <2>1. received["client"][i] = i - 1
    BY Summary
  <2>2. Len(ForClient) \in Nat
    BY TargetsFacts
  <2>3. i \in 1 .. Len(ForClient)
    BY <1>1, <2>2
  <2>4. ForClient[i] = i - 1
    BY <2>3, TargetsFacts
  <2> QED
    BY <2>1, <2>4
<1>4. /\ received["target"] \in Seq(Nat) /\ received["client"] \in Seq(Nat)
      /\ ForTarget \in Seq(Nat) /\ ForClient \in Seq(Nat)
  BY Summary, TargetsFacts
<1> QED
  BY <1>1, <1>2, <1>3, <1>4, PrefixFacts DEF InOrder

\* It says that an end is passed on behind everything sent before it.
LEMMA EndFollows == ASSUME IInv PROVE EndMeansAll
<1>1. ASSUME NEW p \in Peers, fin[Other(p)], ended[p] = "fin", ~aborted
      PROVE  sent[p] = Base(p) + Len(Out(p))
  BY <1>1 DEF IInv, Flow, Unused, EndKnown
<1>2. /\ received["target"] \in Seq(Nat) /\ received["client"] \in Seq(Nat)
      /\ ForTarget \in Seq(Nat) /\ ForClient \in Seq(Nat)
      /\ Len(received["target"]) \in Nat /\ Len(received["client"]) \in Nat
  BY Summary, TargetsFacts
<1>3. ASSUME fin["target"], ended["client"] = "fin", ~aborted PROVE received["target"] = ForTarget
  <2>1. sent["client"] = ahead + Len(received["target"])
    BY <1>1, <1>3, PeerFacts DEF Base, Out
  <2>2. Len(received["target"]) = Len(ForTarget)
    BY <1>2, <2>1, Summary, TargetsFacts
  <2>3. \A i \in 1 .. Len(received["target"]) : received["target"][i] = ForTarget[i]
    BY <2>2, Summary, TargetsFacts
  <2> QED
    BY <1>2, <2>2, <2>3, SeqEqual
<1>4. ASSUME fin["client"], ended["target"] = "fin", ~aborted PROVE received["client"] = ForClient
  <2>1. sent["target"] = (0 - 1) + Len(received["client"])
    BY <1>1, <1>4, PeerFacts DEF Base, Out
  <2>2. Len(received["client"]) = Len(ForClient)
    BY <1>2, <2>1, Summary, TargetsFacts
  <2>3. \A i \in 1 .. Len(received["client"]) : received["client"][i] = ForClient[i]
    BY <2>2, Summary, TargetsFacts
  <2> QED
    BY <1>2, <2>2, <2>3, SeqEqual
<1> QED
  BY <1>3, <1>4 DEF EndMeansAll
-----------------------------------------------------------------------------
\* The state of a proxied connection is well formed: the sockets, the ends and
\* the counts of bytes, and what is in a buffer was taken last.
THEOREM TypeCorrect == Spec => []TypeOK
<1>1. IInv => TypeOK
  BY TypesFollow
<1> QED
  BY <1>1, Invariance, PTL

\* Each peer of a proxied connection receives what the other has sent, in order
\* and without a gap, and the client the reply first, for any number of bytes and
\* however the transfers, the peers and abort() interleave.
THEOREM RelayedInOrder == Spec => []InOrder
<1>1. IInv => InOrder
  BY OrderFollows
<1> QED
  BY <1>1, Invariance, PTL

\* The end of one peer's sending is passed on only behind all that it has sent,
\* unless a peer resets or the server aborts.
THEOREM EndIsLast == Spec => []EndMeansAll
<1>1. IInv => EndMeansAll
  BY EndFollows
<1> QED
  BY <1>1, Invariance, PTL
-----------------------------------------------------------------------------
(* The request loop: its inductive invariant *)

\* What is on the wire is numbered by the requests that were sent.
Tokens(n)  == (1 .. n) \X {"header", "body"}
Answers(n) == (1 .. n) \X {"continue", "final"}

\* The request whose piece is the one before place i + 1 of the input t, of which
\* c was being read.
Number(t, c, i) == IF i = 0 THEN c ELSE t[i][1]

\* The input t continues request c, of which l pieces are to come: each header is
\* followed by as many pieces as it announces, and the last one wants u more.
Laid(t, rs, c, l, u) ==
  \E due \in [0 .. Len(t) -> 0 .. MaxBody] :
    /\ due[0] = l /\ due[Len(t)] = u /\ Number(t, c, Len(t)) = Len(rs)
    /\ \A i \in 1 .. Len(t) :
         IF due[i - 1] > 0
           THEN t[i] = <<Number(t, c, i - 1), "body">> /\ due[i] = due[i - 1] - 1
           ELSE t[i] = <<Number(t, c, i - 1) + 1, "header">> /\ due[i] = rs[t[i][1]].body

\* Where the loop works on a request that it has not answered yet.
Unanswered == {"pre_routing", "continue", "body", "proc_routing", "post_routing", "write"}

HttpTypes ==
  /\ requests \in Seq(H!Requests) /\ Len(requests) <= MaxRequests
  /\ unsent \in 0 .. MaxBody /\ (unsent > 0 => Len(requests) > 0)
  /\ net \in Seq(Tokens(Len(requests))) /\ ahead_of \in Seq(Tokens(Len(requests)))
  /\ loop \in {"header", "stream"} \cup Unanswered \cup H!Ended
  /\ cur \in 0 .. Len(requests) /\ left \in 0 .. MaxBody
  /\ (loop \in Unanswered => cur > 0)
  /\ keep \in BOOLEAN /\ stream \in BOOLEAN
  /\ out \in Seq(Answers(Len(requests)))
  /\ lost \subseteq {"threw", "stream"}

Reading == loop \notin H!Ended /\ "stream" \notin lost
Input == ahead_of \o net
InputLaid == Reading => Laid(Input, requests, cur, left, unsent)

\* A body that was not read to its end is followed by the end of the loop.
BodyRead ==
  /\ loop = "header" /\ "threw" \notin lost => left = 0
  /\ loop = "proc_routing" => left = 0
  /\ loop \in {"post_routing", "write", "stream"} => left = 0 \/ ~keep \/ "threw" \in lost

\* All the requests up to the current one have their answers, and this one has
\* its own from WriteResponse on.
AnswersGiven ==
  Reading =>
    /\ \A i \in DOMAIN out : out[i][1] <= cur
    /\ loop \in Unanswered => \A i \in DOMAIN out : out[i] # <<cur, "final">>
    /\ \A k \in 1 .. cur : k < cur \/ loop \notin Unanswered
                             => \E j \in DOMAIN out : out[j] = <<k, "final">>

HttpIInv == HttpTypes /\ InputLaid /\ BodyRead /\ AnswersGiven /\ AnsweredInOrder
-----------------------------------------------------------------------------
\* What the requests of the client are, of which only the body counts here.
LEMMA RequestFacts == \A r \in H!Requests : r.body \in 0 .. MaxBody /\ r.keep \in BOOLEAN
  BY DEF H!Requests

\* A longer list of requests has all the numbers of the shorter one.
LEMMA Widened ==
  ASSUME NEW n \in Nat, NEW m \in Nat, n <= m
  PROVE  Seq(Tokens(n)) \subseteq Seq(Tokens(m)) /\ Seq(Answers(n)) \subseteq Seq(Answers(m))
<1>1. Tokens(n) \subseteq Tokens(m) /\ Answers(n) \subseteq Answers(m)
  BY DEF Tokens, Answers
<1> QED
  BY <1>1, SeqMonotonic

\* What the loop finds at the head of an input, and what is left of the input.
LEMMA LaidTail ==
  ASSUME NEW rs, NEW S, NEW t \in Seq(S), NEW c \in Nat, NEW l \in 0 .. MaxBody, NEW u,
         Laid(t, rs, c, l, u), t # <<>>
  PROVE  /\ l > 0 => t[1] = <<c, "body">> /\ Laid(Tail(t), rs, c, l - 1, u)
         /\ l = 0 => t[1] = <<c + 1, "header">> /\ Laid(Tail(t), rs, c + 1, rs[c + 1].body, u)
<1> DEFINE n == Len(t)
<1>0. n \in Nat /\ n > 0 /\ MaxBody \in Nat
  BY SessionAssumption, EmptySeq
<1>1. PICK due \in [0 .. n -> 0 .. MaxBody] :
        /\ due[0] = l /\ due[n] = u /\ Number(t, c, n) = Len(rs)
        /\ \A i \in 1 .. n :
             IF due[i - 1] > 0
               THEN t[i] = <<Number(t, c, i - 1), "body">> /\ due[i] = due[i - 1] - 1
               ELSE t[i] = <<Number(t, c, i - 1) + 1, "header">> /\ due[i] = rs[t[i][1]].body
  BY DEF Laid
<1>2. /\ Tail(t) \in Seq(S) /\ Len(Tail(t)) = n - 1
      /\ \A i \in 1 .. n - 1 : Tail(t)[i] = t[i + 1]
  BY HeadTailProperties
<1> DEFINE s == Tail(t)
<1> HIDE DEF s, n
<1>3. /\ s \in Seq(S) /\ Len(s) = n - 1 /\ \A i \in 1 .. n - 1 : s[i] = t[i + 1]
  BY <1>2 DEF s
<1>4. /\ 1 \in 1 .. n /\ 1 - 1 = 0 /\ Number(t, c, 0) = c
  BY <1>0 DEF Number
<1>5. /\ l > 0 => t[1] = <<c, "body">> /\ due[1] = l - 1
      /\ l = 0 => t[1] = <<c + 1, "header">> /\ due[1] = rs[c + 1].body
  <2>1. IF due[1 - 1] > 0
          THEN t[1] = <<Number(t, c, 1 - 1), "body">> /\ due[1] = due[1 - 1] - 1
          ELSE t[1] = <<Number(t, c, 1 - 1) + 1, "header">> /\ due[1] = rs[t[1][1]].body
    BY <1>1, <1>4
  <2>2. IF l > 0
          THEN t[1] = <<c, "body">> /\ due[1] = l - 1
          ELSE t[1] = <<c + 1, "header">> /\ due[1] = rs[t[1][1]].body
    BY <1>1, <1>4, <2>1
  <2> QED
    BY <2>2
<1>6. Laid(s, rs, t[1][1], due[1], u)
  <2> DEFINE d == [i \in 0 .. n - 1 |-> due[i + 1]]
  <2>1. d \in [0 .. Len(s) -> 0 .. MaxBody] /\ d[0] = due[1] /\ d[Len(s)] = u
    BY <1>0, <1>1, <1>3
  <2>2. ASSUME NEW i \in 0 .. n - 1 PROVE Number(s, t[1][1], i) = Number(t, c, i + 1)
    <3>1. CASE i = 0
      BY <3>1 DEF Number
    <3>2. CASE i \in 1 .. n - 1
      <4>1. i # 0 /\ i + 1 # 0
        BY <3>2, SMTT(30)
      <4>2. s[i] = t[i + 1]
        BY <1>3, <3>2, Zenon
      <4> QED
        BY <4>1, <4>2 DEF Number
    <3> QED
      BY <1>0, <3>1, <3>2
  <2>3. Number(s, t[1][1], Len(s)) = Len(rs)
    BY <1>0, <1>1, <1>3, <2>2
  <2>4. ASSUME NEW i \in 1 .. Len(s)
        PROVE  IF d[i - 1] > 0
                 THEN s[i] = <<Number(s, t[1][1], i - 1), "body">> /\ d[i] = d[i - 1] - 1
                 ELSE /\ s[i] = <<Number(s, t[1][1], i - 1) + 1, "header">>
                      /\ d[i] = rs[s[i][1]].body
    <3>1. /\ i \in 1 .. n - 1 /\ i - 1 \in 0 .. n - 1 /\ i \in 0 .. n - 1 /\ i + 1 \in 1 .. n
          /\ (i + 1) - 1 = i /\ (i - 1) + 1 = i
      BY <1>0, <1>3
    <3>2. d[i - 1] = due[i] /\ d[i] = due[i + 1] /\ s[i] = t[i + 1]
      BY <1>3, <3>1
    <3>3. Number(s, t[1][1], i - 1) = Number(t, c, i)
      BY <2>2, <3>1
    <3>4. IF due[i] > 0
            THEN t[i + 1] = <<Number(t, c, i), "body">> /\ due[i + 1] = due[i] - 1
            ELSE t[i + 1] = <<Number(t, c, i) + 1, "header">> /\ due[i + 1] = rs[t[i + 1][1]].body
      BY <1>1, <3>1
    <3> HIDE DEF d
    <3> QED
      BY <3>2, <3>3, <3>4
  <2> HIDE DEF d
  <2> QED
    BY <2>1, <2>3, <2>4 DEF Laid
<1>7. CASE l > 0
  BY <1>5, <1>6, <1>7 DEF s
<1>8. CASE l = 0
  BY <1>5, <1>6, <1>8 DEF s
<1> QED
  BY <1>7, <1>8

\* What the client may send next.
LEMMA LaidAppend ==
  ASSUME NEW rs \in Seq(H!Requests), NEW qs \in Seq(H!Requests), NEW c \in Nat, NEW l, NEW u,
         NEW t \in Seq(Tokens(Len(rs))), Laid(t, rs, c, l, u), NEW x, NEW v \in 0 .. MaxBody,
         \/ u = 0 /\ (\E r \in H!Requests : qs = Append(rs, r)) /\ x = <<Len(qs), "header">>
                  /\ v = qs[Len(qs)].body
         \/ u > 0 /\ u \in Nat /\ qs = rs /\ x = <<Len(qs), "body">> /\ v = u - 1
  PROVE  Laid(Append(t, x), qs, c, l, v)
<1> DEFINE n == Len(t)
           s == Append(t, x)
<1>0. n \in Nat /\ MaxBody \in Nat /\ Len(rs) \in Nat
  BY SessionAssumption
<1>1. PICK due \in [0 .. n -> 0 .. MaxBody] :
        /\ due[0] = l /\ due[n] = u /\ Number(t, c, n) = Len(rs)
        /\ \A i \in 1 .. n :
             IF due[i - 1] > 0
               THEN t[i] = <<Number(t, c, i - 1), "body">> /\ due[i] = due[i - 1] - 1
               ELSE t[i] = <<Number(t, c, i - 1) + 1, "header">> /\ due[i] = rs[t[i][1]].body
  BY DEF Laid
<1>2. Len(s) = n + 1 /\ s[n + 1] = x /\ \A i \in 1 .. n : s[i] = t[i]
  OBVIOUS
<1>3. /\ \A k \in 1 .. Len(rs) : qs[k] = rs[k]
      /\ \A i \in 1 .. n : t[i][1] \in 1 .. Len(rs)
  <2>1. \A k \in 1 .. Len(rs) : qs[k] = rs[k]
    <3>1. qs = rs \/ \E r \in H!Requests : qs = Append(rs, r)
      OBVIOUS
    <3> QED
      BY <3>1, AppendProperties
  <2>2. \A i \in 1 .. n : t[i] \in Tokens(Len(rs))
    BY ElementOfSeq
  <2> QED
    BY <2>1, <2>2 DEF Tokens
<1> HIDE DEF s, n
<1> DEFINE d == [i \in 0 .. n + 1 |-> IF i = n + 1 THEN v ELSE due[i]]
<1>4. /\ d \in [0 .. Len(s) -> 0 .. MaxBody] /\ d[0] = l /\ d[Len(s)] = v
      /\ \A i \in 0 .. n : d[i] = due[i]
  BY <1>0, <1>1, <1>2
<1>5. \A i \in 0 .. n : Number(s, c, i) = Number(t, c, i)
  BY <1>0, <1>2 DEF Number
<1>6. Number(s, c, Len(s)) = Len(qs)
  BY <1>0, <1>2 DEF Number
<1>7. ASSUME NEW i \in 1 .. Len(s)
      PROVE  IF d[i - 1] > 0
               THEN s[i] = <<Number(s, c, i - 1), "body">> /\ d[i] = d[i - 1] - 1
               ELSE s[i] = <<Number(s, c, i - 1) + 1, "header">> /\ d[i] = qs[s[i][1]].body
  <2>1. i - 1 \in 0 .. n /\ d[i - 1] = due[i - 1] /\ Number(s, c, i - 1) = Number(t, c, i - 1)
    <3>1. i - 1 \in 0 .. n
      BY <1>0, <1>2
    <3> HIDE DEF d
    <3> QED
      BY <1>4, <1>5, <3>1
  <2>2. CASE i \in 1 .. n
    <3> HIDE DEF d
    <3>0. i \in 0 .. n
      BY <1>0, <2>2
    <3>1. d[i] = due[i] /\ s[i] = t[i] /\ qs[s[i][1]] = rs[t[i][1]]
      BY <1>2, <1>3, <1>4, <2>2, <3>0
    <3> QED
      BY <1>1, <2>1, <2>2, <3>1
  <2>3. CASE i = n + 1
    <3>1. i - 1 = n /\ due[i - 1] = u /\ d[i] = v /\ s[i] = x /\ Number(t, c, i - 1) = Len(rs)
      BY <1>0, <1>1, <1>2, <1>4, <2>3
    <3> HIDE DEF d
    <3>2. CASE u = 0 /\ (\E r \in H!Requests : qs = Append(rs, r)) /\ x = <<Len(qs), "header">>
                 /\ v = qs[Len(qs)].body
      <4>1. Len(qs) = Len(rs) + 1
        BY <3>2
      <4> QED
        BY <2>1, <3>1, <3>2, <4>1
    <3>3. CASE u > 0 /\ u \in Nat /\ qs = rs /\ x = <<Len(qs), "body">> /\ v = u - 1
      BY <2>1, <3>1, <3>3
    <3> QED
      BY <3>2, <3>3
  <2>4. i \in 1 .. n \/ i = n + 1
    BY <1>0, <1>2
  <2> QED
    BY <2>2, <2>3, <2>4, Zenon
<1> HIDE DEF d
<1> QED
  BY <1>4, <1>6, <1>7 DEF Laid, s
-----------------------------------------------------------------------------
LEMMA HttpInit == H!Init => HttpIInv
<1> SUFFICES ASSUME H!Init PROVE HttpIInv
  OBVIOUS
<1>0. MaxRequests \in Nat /\ MaxBody \in Nat /\ Len(<<>>) = 0 /\ \A S : <<>> \in Seq(S)
  BY SessionAssumption, EmptySeq
<1>1. HttpTypes
  <2>1. <<>> \in Seq(H!Requests) /\ <<>> \in Seq(Tokens(0)) /\ <<>> \in Seq(Answers(0))
    BY EmptySeq
  <2>2. /\ requests = <<>> /\ Len(requests) = 0 /\ net = <<>> /\ ahead_of = <<>> /\ out = <<>>
        /\ unsent = 0 /\ loop = "header" /\ cur = 0 /\ left = 0 /\ keep \in BOOLEAN
        /\ stream \in BOOLEAN /\ lost = {}
    BY <1>0 DEF H!Init
  <2> QED
    BY <1>0, <2>1, <2>2 DEF HttpTypes, Unanswered
<1>2. Laid(Input, requests, cur, left, unsent)
  <2>1. Input = <<>> /\ requests = <<>> /\ cur = 0 /\ left = 0 /\ unsent = 0
    <3>1. <<>> \o <<>> = <<>>
      BY EmptySeq, ConcatEmptySeq
    <3> QED
      BY <3>1 DEF H!Init, Input
  <2> DEFINE d == [i \in 0 .. 0 |-> 0]
  <2>2. d \in [0 .. Len(<<>>) -> 0 .. MaxBody] /\ d[0] = 0 /\ d[Len(<<>>)] = 0
    BY <1>0
  <2>3. Number(<<>>, 0, Len(<<>>)) = Len(<<>>) /\ 1 .. Len(<<>>) = {}
    BY <1>0 DEF Number
  <2> HIDE DEF d
  <2>4. Laid(<<>>, <<>>, 0, 0, 0)
    BY <2>2, <2>3 DEF Laid
  <2> QED
    BY <2>1, <2>4
<1>3. BodyRead /\ AnswersGiven /\ AnsweredInOrder
  BY <1>0 DEF H!Init, BodyRead, AnswersGiven, AnsweredInOrder, H!AnsweredInOrder
<1> QED
  BY <1>1, <1>2, <1>3 DEF HttpIInv, InputLaid

\* The task is destroyed.
LEMMA HttpDestroyed == Destroyed => HttpIInv'
<1> SUFFICES ASSUME Destroyed PROVE HttpIInv'
  OBVIOUS
<1>0. MaxRequests \in Nat /\ MaxBody \in Nat /\ Len(<<>>) = 0 /\ \A S : <<>> \in Seq(S)
  BY SessionAssumption, EmptySeq
<1>1. HttpTypes'
  <2>1. <<>> \in Seq(H!Requests) /\ <<>> \in Seq(Tokens(0)) /\ <<>> \in Seq(Answers(0))
    BY EmptySeq
  <2>2. /\ requests' = <<>> /\ Len(requests') = 0 /\ net' = <<>> /\ ahead_of' = <<>> /\ out' = <<>>
        /\ unsent' = 0 /\ loop' = "closed" /\ cur' = 0 /\ left' = 0 /\ keep' \in BOOLEAN
        /\ stream' \in BOOLEAN /\ lost' = {}
    BY <1>0 DEF Destroyed
  <2> QED
    BY <1>0, <2>1, <2>2 DEF HttpTypes, Unanswered, H!Ended
<1>2. ~Reading' /\ BodyRead'
  BY DEF Destroyed, Reading, H!Ended, BodyRead
<1>3. AnsweredInOrder'
  BY <1>0 DEF Destroyed, AnsweredInOrder, H!AnsweredInOrder
<1> QED
  BY <1>1, <1>2, <1>3 DEF HttpIInv, InputLaid, AnswersGiven

\* The steps that read, send and answer nothing: what they may do to the state.
LEMMA HttpKept ==
  ASSUME HttpIInv, UNCHANGED <<requests, unsent, net, cur, left, out>>,
         \/ ahead_of' = ahead_of
         \/ ahead_of' = <<>> /\ "stream" \in lost',
         lost \subseteq lost', lost' \subseteq {"threw", "stream"},
         keep' \in BOOLEAN, stream' \in BOOLEAN,
         loop' \in {"header", "stream"} \cup Unanswered \cup H!Ended,
         loop' \notin H!Ended => loop \notin H!Ended /\ (loop' \in Unanswered <=> loop \in Unanswered),
         BodyRead'
  PROVE  HttpIInv'
<1>1. HttpTypes'
  <2>1. ahead_of' \in Seq(Tokens(Len(requests)))
    BY EmptySeq DEF HttpIInv, HttpTypes
  <2>2. loop' \in Unanswered => loop \in Unanswered
    BY DEF Unanswered, H!Ended
  <2> QED
    BY <2>1, <2>2 DEF HttpIInv, HttpTypes
<1>2. Reading' => Reading /\ Input' = Input
  BY DEF Reading, Input
<1>3. InputLaid'
  BY <1>2 DEF HttpIInv, InputLaid
<1>4. AnswersGiven'
  BY <1>2 DEF HttpIInv, AnswersGiven, Reading
<1>5. AnsweredInOrder'
  BY DEF HttpIInv, AnsweredInOrder, H!AnsweredInOrder
<1> QED
  BY <1>1, <1>3, <1>4, <1>5 DEF HttpIInv

\* The routing calls, the handlers and the end of a body.
LEMMA HttpRouting ==
  ASSUME HttpIInv,
         \/ H!PreRoutingRefuses \/ H!PreRoutingAccepts \/ H!PreRoutingThrows \/ H!BodyDone
         \/ (\E s \in BOOLEAN : H!SetContent(s)) \/ H!HandlerThrows
  PROVE  HttpIInv'
<1>0. /\ keep \in BOOLEAN /\ stream \in BOOLEAN /\ lost \subseteq {"threw", "stream"}
      /\ BodyRead /\ left \in Nat
  BY SessionAssumption DEF HttpIInv, HttpTypes
<1>1. /\ UNCHANGED <<requests, unsent, net, cur, left, out, ahead_of>>
      /\ lost \subseteq lost' /\ lost' \subseteq {"threw", "stream"}
      /\ keep' \in BOOLEAN /\ stream' \in BOOLEAN
      /\ loop \in Unanswered /\ loop' \in Unanswered
  BY <1>0 DEF H!PreRoutingRefuses, H!PreRoutingAccepts, H!PreRoutingThrows, H!BodyDone,
              H!SetContent, H!HandlerThrows, H!client, H!response, Unanswered
<1>2. BodyRead'
  BY <1>0 DEF H!PreRoutingRefuses, H!PreRoutingAccepts, H!PreRoutingThrows, H!BodyDone,
              H!SetContent, H!HandlerThrows, H!client, H!response, BodyRead
<1>3. loop \notin H!Ended
  BY <1>1 DEF Unanswered, H!Ended
<1> QED
  BY <1>1, <1>2, <1>3, HttpKept

\* A chunk of a streamed response, and the end by a failure.
LEMMA HttpChunk ==
  ASSUME HttpIInv, H!WriteChunk \/ H!Fails
  PROVE  HttpIInv'
<1>0. keep \in BOOLEAN /\ stream \in BOOLEAN /\ lost \subseteq {"threw", "stream"} /\ BodyRead
  BY DEF HttpIInv, HttpTypes
<1>1. CASE H!WriteChunk
  <2>1. /\ UNCHANGED <<requests, unsent, net, cur, left, out, keep, stream>>
        /\ loop = "stream" /\ loop' \in {"stream", "header", "closed"}
        /\ ahead_of' = <<>> /\ (ahead_of # <<>> => "stream" \in lost')
        /\ lost \subseteq lost' /\ lost' \subseteq {"threw", "stream"}
        /\ (loop' = "header" => keep)
    BY <1>0, <1>1 DEF H!WriteChunk, H!AfterWrite, H!client, H!response
  <2>2. BodyRead'
    BY <1>0, <2>1 DEF BodyRead
  <2> QED
    BY <1>0, <2>1, <2>2, HttpKept DEF Unanswered, H!Ended
<1>2. CASE H!Fails
  <2>1. /\ UNCHANGED <<requests, unsent, net, cur, left, out, keep, stream, ahead_of, lost>>
        /\ loop' = "closed"
    BY <1>2 DEF H!Fails, H!client, H!response
  <2>2. BodyRead'
    BY <2>1 DEF BodyRead
  <2> QED
    BY <1>0, <2>1, <2>2, HttpKept DEF Unanswered, H!Ended
<1> QED
  BY <1>1, <1>2
\* The client's steps.
LEMMA HttpSends ==
  ASSUME HttpIInv, (\E r \in H!Requests : H!SendHeader(r)) \/ H!SendBody
  PROVE  HttpIInv'
<1> DEFINE x == <<Len(requests'), IF requests' = requests THEN "body" ELSE "header">>
<1>0. /\ requests \in Seq(H!Requests) /\ Len(requests) \in Nat /\ Len(requests) <= MaxRequests
      /\ unsent \in 0 .. MaxBody /\ (unsent > 0 => Len(requests) > 0)
      /\ net \in Seq(Tokens(Len(requests))) /\ ahead_of \in Seq(Tokens(Len(requests)))
      /\ cur \in 0 .. Len(requests) /\ out \in Seq(Answers(Len(requests)))
      /\ MaxRequests \in Nat /\ MaxBody \in Nat
  BY SessionAssumption DEF HttpIInv, HttpTypes
<1>1. /\ UNCHANGED <<ahead_of, loop, cur, left, keep, stream, out, lost>>
      /\ \/ /\ unsent = 0 /\ Len(requests') = Len(requests) + 1 /\ Len(requests') <= MaxRequests
            /\ \E r \in H!Requests : requests' = Append(requests, r)
            /\ x = <<Len(requests'), "header">> /\ unsent' = requests'[Len(requests')].body
         \/ /\ unsent > 0 /\ requests' = requests
            /\ x = <<Len(requests'), "body">> /\ unsent' = unsent - 1
      /\ net' = Append(net, x)
      /\ requests' \in Seq(H!Requests) /\ unsent' \in 0 .. MaxBody
  <2>1. CASE H!SendBody
    BY <1>0, <2>1 DEF H!SendBody, H!response
  <2>2. ASSUME NEW r \in H!Requests, H!SendHeader(r)
        PROVE  <1>1!:
    <3>1. /\ requests' = Append(requests, r) /\ unsent = 0 /\ unsent' = r.body
          /\ Len(requests) < MaxRequests /\ net' = Append(net, <<Len(requests) + 1, "header">>)
          /\ UNCHANGED <<ahead_of, loop, cur, left, keep, stream, out, lost>>
      BY <2>2 DEF H!SendHeader, H!response
    <3>2. /\ requests' \in Seq(H!Requests) /\ Len(requests') = Len(requests) + 1
          /\ requests'[Len(requests')] = r
      BY <1>0, <3>1, AppendProperties
    <3>3. requests' # requests
      BY <1>0, <3>2
    <3>4. x = <<Len(requests) + 1, "header">>
      BY <3>2, <3>3
    <3>5. r.body \in 0 .. MaxBody
      BY RequestFacts
    <3> HIDE DEF x
    <3> QED
      BY <1>0, <3>1, <3>2, <3>4, <3>5
  <2> QED
    BY <2>1, <2>2
<1> HIDE DEF x
<1>2. /\ Len(requests') \in Nat /\ Len(requests) <= Len(requests') /\ Len(requests') <= MaxRequests
      /\ Len(requests') > 0
  BY <1>0, <1>1
<1>3. /\ net \in Seq(Tokens(Len(requests'))) /\ ahead_of \in Seq(Tokens(Len(requests')))
      /\ out \in Seq(Answers(Len(requests')))
  BY <1>0, <1>2, Widened
<1>4. x \in Tokens(Len(requests'))
  BY <1>1, <1>2 DEF Tokens
<1>5. net' \in Seq(Tokens(Len(requests'))) /\ Input' = Append(Input, x)
  BY <1>1, <1>3, <1>4, AppendProperties, SendFacts DEF Input
<1>6. HttpTypes'
  BY <1>0, <1>1, <1>2, <1>3, <1>5 DEF HttpIInv, HttpTypes
<1>7. InputLaid'
  <2> SUFFICES ASSUME Reading PROVE Laid(Input', requests', cur, left, unsent')
    BY <1>1 DEF InputLaid, Reading
  <2>1. Laid(Input, requests, cur, left, unsent)
    BY DEF HttpIInv, InputLaid
  <2>2. Input \in Seq(Tokens(Len(requests))) /\ cur \in Nat /\ unsent \in Nat
    BY <1>0, ConcatProperties DEF Input
  <2>3. Laid(Append(Input, x), requests', cur, left, unsent')
    BY <1>0, <1>1, <2>1, <2>2, LaidAppend
  <2> QED
    BY <1>5, <2>3
<1>8. BodyRead' /\ AnswersGiven' /\ AnsweredInOrder'
  BY <1>1 DEF HttpIInv, BodyRead, AnswersGiven, AnsweredInOrder, H!AnsweredInOrder, Reading
<1> QED
  BY <1>6, <1>7, <1>8 DEF HttpIInv

\* What both reads do to the input.
LEMMA HttpTakes ==
  ASSUME HttpTypes, NEW n \in H!Available, H!Take(n)
  PROVE  /\ net' \in Seq(Tokens(Len(requests))) /\ ahead_of' \in Seq(Tokens(Len(requests)))
         /\ Input \in Seq(Tokens(Len(requests))) /\ Input # <<>>
         /\ Head(H!Filled(n)) = Input[1]
         /\ Input[1] \in Tokens(Len(requests)) /\ Input' = Tail(Input)
<1>1. /\ n \in 0 .. Len(net) /\ (n > 0 \/ ahead_of # <<>>)
      /\ net \in Seq(Tokens(Len(requests))) /\ ahead_of \in Seq(Tokens(Len(requests)))
  BY DEF H!Available, HttpTypes
<1>2. ahead_of' = Tail(H!Filled(n)) /\ net' = SubSeq(net, n + 1, Len(net))
  BY DEF H!Take
<1>3. H!Filled(n) = ahead_of \o SubSeq(net, 1, n)
  BY DEF H!Filled
<1>4. Input \in Seq(Tokens(Len(requests)))
  BY <1>1, ConcatProperties DEF Input
<1> DEFINE S == Tokens(Len(requests))
           f == ahead_of \o SubSeq(net, 1, n)
<1>5. /\ Input # <<>> /\ Head(f) = Input[1] /\ Head(f) \in S
      /\ Tail(f) \in Seq(S) /\ SubSeq(net, n + 1, Len(net)) \in Seq(S)
      /\ Tail(f) \o SubSeq(net, n + 1, Len(net)) = Tail(Input)
  <2> HIDE DEF S
  <2>1. net \in Seq(S) /\ ahead_of \in Seq(S)
    BY <1>1 DEF S
  <2>2. /\ ahead_of \o net # <<>> /\ Head(f) = (ahead_of \o net)[1] /\ Head(f) \in S
        /\ Tail(f) \in Seq(S) /\ SubSeq(net, n + 1, Len(net)) \in Seq(S)
        /\ Tail(f) \o SubSeq(net, n + 1, Len(net)) = Tail(ahead_of \o net)
    <3>1. \A b, w \in Seq(S) : \A k \in 0 .. Len(w) : (k > 0 \/ b # <<>>) =>
            LET g == b \o SubSeq(w, 1, k)
            IN  /\ b \o w # <<>> /\ Head(g) = (b \o w)[1] /\ Head(g) \in S
                /\ Tail(g) \in Seq(S) /\ SubSeq(w, k + 1, Len(w)) \in Seq(S)
                /\ Tail(g) \o SubSeq(w, k + 1, Len(w)) = Tail(b \o w)
      BY ReadFacts
    <3> QED
      BY <1>1, <2>1, <3>1, ZenonT(60)
  <2> QED
    BY <2>2, Zenon DEF Input
<1> HIDE DEF f
<1>6. Input' = Tail(Input)
  BY <1>2, <1>3, <1>5 DEF Input, f
<1> QED
  BY <1>2, <1>3, <1>4, <1>5, <1>6 DEF f

LEMMA HttpReadsHeader ==
  ASSUME HttpIInv, NEW n, H!ReadHeader(n)
  PROVE  HttpIInv'
<1>0. /\ requests \in Seq(H!Requests) /\ Len(requests) \in Nat
      /\ cur \in 0 .. Len(requests) /\ left \in 0 .. MaxBody /\ MaxBody \in Nat
  BY SessionAssumption DEF HttpIInv, HttpTypes
<1> DEFINE token == Head(H!Filled(n))
           r == requests[token[1]]
<1>1. /\ loop = "header" /\ n \in H!Available /\ H!Take(n)
      /\ UNCHANGED <<requests, unsent, out, lost>>
      /\ IF token[2] = "body"
           THEN loop' = "closed" /\ UNCHANGED <<cur, left, keep, stream>>
           ELSE /\ cur' = token[1] /\ left' = r.body /\ keep' = r.keep /\ stream' = FALSE
                /\ loop' \in {"proxy", "websocket", "pre_routing"}
  BY DEF H!ReadHeader, H!client, H!response
<1>2. /\ net' \in Seq(Tokens(Len(requests))) /\ ahead_of' \in Seq(Tokens(Len(requests)))
      /\ Input \in Seq(Tokens(Len(requests))) /\ Input # <<>>
      /\ token = Input[1] /\ token \in Tokens(Len(requests)) /\ Input' = Tail(Input)
  BY <1>1, HttpTakes DEF HttpIInv
<1> HIDE DEF token
<1>3. token[1] \in 1 .. Len(requests) /\ token[2] \in {"header", "body"}
  BY <1>2 DEF Tokens
<1>4. r \in H!Requests /\ r.body \in 0 .. MaxBody /\ r.keep \in BOOLEAN
  BY <1>0, <1>3, ElementOfSeq, RequestFacts
<1>5. HttpTypes'
  <2>1. CASE token[2] = "body"
    BY <1>1, <1>2, <2>1 DEF HttpIInv, HttpTypes, Unanswered, H!Ended
  <2>2. CASE token[2] # "body"
    <3>1. /\ cur' \in 0 .. Len(requests) /\ cur' > 0 /\ left' \in 0 .. MaxBody
          /\ keep' \in BOOLEAN /\ stream' \in BOOLEAN
      <4>1. cur' = token[1] /\ left' = r.body /\ keep' = r.keep /\ stream' = FALSE
        BY <1>1, <2>2
      <4>2. keep' \in BOOLEAN /\ stream' \in BOOLEAN /\ left' \in 0 .. MaxBody
        BY <1>4, <4>1, Zenon
      <4> QED
        BY <1>0, <1>3, <4>1, <4>2
    <3>2. loop' \in {"header", "stream"} \cup Unanswered \cup H!Ended
      BY <1>1, <2>2 DEF Unanswered, H!Ended
    <3> QED
      BY <1>1, <1>2, <3>1, <3>2 DEF HttpIInv, HttpTypes
  <2> QED
    BY <2>1, <2>2
<1>6. BodyRead'
  BY <1>1 DEF BodyRead
<1>7. AnsweredInOrder'
  <2>1. out' = out /\ lost' = lost /\ AnsweredInOrder
    BY <1>1 DEF HttpIInv
  <2> QED
    BY <2>1 DEF AnsweredInOrder, H!AnsweredInOrder
<1>8. CASE ~Reading'
  BY <1>5, <1>6, <1>7, <1>8 DEF HttpIInv, InputLaid, AnswersGiven
<1>9. CASE Reading'
  <2>1. Reading /\ token[2] # "body" /\ loop' = "pre_routing"
    BY <1>1, <1>9 DEF Reading, H!Ended
  <2>2. Laid(Input, requests, cur, left, unsent) /\ cur \in Nat
    BY <1>0, <2>1 DEF HttpIInv, InputLaid
  <2>3. left = 0 /\ token = <<cur + 1, "header">>
        /\ Laid(Tail(Input), requests, cur + 1, requests[cur + 1].body, unsent)
    <3>1. left > 0 => token = <<cur, "body">>
      BY <1>0, <1>2, <2>2, LaidTail
    <3>2. left = 0
      BY <1>0, <2>1, <3>1
    <3> QED
      BY <1>0, <1>2, <2>2, <3>2, LaidTail
  <2>4. cur' = cur + 1 /\ left' = requests[cur + 1].body
    BY <1>1, <2>1, <2>3
  <2>5. InputLaid'
    BY <1>1, <1>2, <2>3, <2>4 DEF InputLaid
  <2>6. /\ \A i \in DOMAIN out : out[i][1] <= cur
        /\ \A k \in 1 .. cur : \E j \in DOMAIN out : out[j] = <<k, "final">>
    BY <1>1, <2>1 DEF HttpIInv, AnswersGiven, Unanswered
  <2>7. \A i \in DOMAIN out : out[i] \in Answers(Len(requests)) /\ out[i][1] \in Nat
    BY <1>0, LenProperties, ElementOfSeq DEF HttpIInv, HttpTypes, Answers
  <2>8. \A i \in DOMAIN out : out[i][1] <= cur' /\ out[i] # <<cur', "final">>
    BY <1>0, <2>4, <2>6, <2>7
  <2>9. \A k \in 1 .. cur' : k < cur' => \E j \in DOMAIN out : out[j] = <<k, "final">>
    BY <1>0, <2>4, <2>6
  <2>10. AnswersGiven'
    BY <1>1, <2>1, <2>8, <2>9 DEF AnswersGiven, Unanswered
  <2> QED
    BY <1>5, <1>6, <1>7, <2>5, <2>10 DEF HttpIInv
<1> QED
  BY <1>8, <1>9

LEMMA HttpReadsBody ==
  ASSUME HttpIInv, NEW n, H!ReadBody(n)
  PROVE  HttpIInv'
<1>0. cur \in 0 .. Len(requests) /\ left \in 0 .. MaxBody /\ MaxBody \in Nat /\ Len(requests) \in Nat
  BY SessionAssumption DEF HttpIInv, HttpTypes
<1>1. /\ loop = "body" /\ n \in H!Available /\ H!Take(n) /\ left > 0 /\ left' = left - 1
      /\ UNCHANGED <<requests, unsent, out, lost, loop, cur, keep, stream>>
  BY DEF H!ReadBody, H!client, H!response
<1>2. /\ net' \in Seq(Tokens(Len(requests))) /\ ahead_of' \in Seq(Tokens(Len(requests)))
      /\ Input \in Seq(Tokens(Len(requests))) /\ Input # <<>> /\ Input' = Tail(Input)
  BY <1>1, HttpTakes DEF HttpIInv
<1>3. HttpTypes'
  BY <1>0, <1>1, <1>2 DEF HttpIInv, HttpTypes
<1>4. InputLaid'
  <2> SUFFICES ASSUME Reading PROVE Laid(Tail(Input), requests, cur, left - 1, unsent)
    BY <1>1, <1>2 DEF InputLaid, Reading
  <2>1. Laid(Input, requests, cur, left, unsent) /\ cur \in Nat
    BY <1>0 DEF HttpIInv, InputLaid
  <2> QED
    BY <1>0, <1>1, <1>2, <2>1, LaidTail
<1>5. BodyRead' /\ AnswersGiven' /\ AnsweredInOrder'
  BY <1>1 DEF HttpIInv, BodyRead, AnswersGiven, AnsweredInOrder, H!AnsweredInOrder, Reading
<1> QED
  BY <1>3, <1>4, <1>5 DEF HttpIInv
\* What is added at the end of the answers is in order if it comes after them.
LEMMA HttpWrites ==
  ASSUME HttpIInv, H!WriteContinue \/ H!WriteResponse
  PROVE  HttpIInv'
<1>0. /\ out \in Seq(Answers(Len(requests))) /\ Len(out) \in Nat /\ Len(requests) \in Nat
      /\ cur \in 0 .. Len(requests) /\ keep \in BOOLEAN /\ BodyRead
  BY DEF HttpIInv, HttpTypes
<1> DEFINE kind == IF loop = "continue" THEN "continue" ELSE "final"
           x == <<cur, kind>>
<1>1. /\ UNCHANGED <<requests, unsent, net, ahead_of, cur, left, keep, stream, lost>>
      /\ out' = Append(out, x) /\ loop \in Unanswered
      /\ \/ loop = "continue" /\ loop' = "body" /\ kind = "continue"
         \/ /\ loop = "write" /\ loop' \in {"stream", "header", "closed"} /\ kind = "final"
            /\ (loop' = "header" => keep)
  BY DEF H!WriteContinue, H!WriteResponse, H!AfterWrite, H!client, H!response, Unanswered
<1>2. x \in Answers(Len(requests)) /\ x[1] = cur /\ x[2] = kind
  <2>1. cur \in 1 .. Len(requests)
    BY <1>0, <1>1 DEF HttpIInv, HttpTypes
  <2> QED
    BY <2>1 DEF Answers
<1> HIDE DEF x, kind
<1>3. /\ out' \in Seq(Answers(Len(requests))) /\ Len(out') = Len(out) + 1
      /\ \A i \in 1 .. Len(out) : out'[i] = out[i]
      /\ out'[Len(out) + 1] = x
      /\ DOMAIN out' = 1 .. Len(out) + 1 /\ DOMAIN out = 1 .. Len(out)
  BY <1>0, <1>1, <1>2, AppendProperties
<1>4. HttpTypes'
  BY <1>1, <1>3 DEF HttpIInv, HttpTypes, Unanswered, H!Ended
<1>5. BodyRead'
  BY <1>0, <1>1 DEF BodyRead
<1>6. InputLaid'
  BY <1>1 DEF HttpIInv, InputLaid, Input, Reading, Unanswered, H!Ended
<1>7. CASE "stream" \in lost
  BY <1>1, <1>4, <1>5, <1>6, <1>7 DEF HttpIInv, AnswersGiven, AnsweredInOrder, H!AnsweredInOrder, Reading
<1>8. CASE "stream" \notin lost
  <2>1. /\ \A i \in 1 .. Len(out) : out[i][1] <= cur /\ out[i] # <<cur, "final">>
        /\ \A k \in 1 .. cur : k < cur => \E j \in 1 .. Len(out) : out[j] = <<k, "final">>
    BY <1>1, <1>3, <1>8 DEF HttpIInv, AnswersGiven, Reading, Unanswered, H!Ended
  <2>2. /\ \A i, j \in 1 .. Len(out) :
             i < j /\ out[i][2] = "final" /\ out[j][2] = "final" => out[i][1] < out[j][1]
        /\ \A i \in 1 .. Len(out) :
             \A k \in 1 .. out[i][1] - 1 : \E j \in 1 .. i - 1 : out[j] = <<k, "final">>
        /\ \A i, j \in 1 .. Len(out) :
             out[i][2] = "continue" /\ out[j] = <<out[i][1], "final">> => i < j
    BY <1>3, <1>8 DEF HttpIInv, AnsweredInOrder, H!AnsweredInOrder
  <2>3. ASSUME NEW i \in 1 .. Len(out)
        PROVE  /\ out[i] = <<out[i][1], out[i][2]>> /\ out[i][1] \in Nat
               /\ out[i][2] = "final" => out[i][1] < cur
    <3>1. out[i] \in Answers(Len(requests))
      BY <1>0, ElementOfSeq
    <3>2. out[i] = <<out[i][1], out[i][2]>> /\ out[i][1] \in Nat
      BY <1>0, <3>1 DEF Answers
    <3> QED
      BY <1>0, <2>1, <3>2
  <2>4. AnswersGiven'
    <3>1. \A i \in 1 .. Len(out) + 1 : out'[i][1] <= cur
      BY <1>0, <1>2, <1>3, <2>1
    <3>2. loop' \in Unanswered => \A i \in 1 .. Len(out) + 1 : out'[i] # <<cur, "final">>
      <4> SUFFICES ASSUME loop' \in Unanswered, NEW i \in 1 .. Len(out) + 1
                   PROVE  out'[i] # <<cur, "final">>
        OBVIOUS
      <4>1. kind = "continue"
        BY <1>1 DEF Unanswered
      <4>2. CASE i \in 1 .. Len(out)
        BY <1>3, <2>1, <4>2
      <4>3. CASE i = Len(out) + 1
        BY <1>2, <1>3, <4>1, <4>3
      <4> QED
        BY <1>0, <4>2, <4>3
    <3>3. ASSUME NEW k \in 1 .. cur, k < cur \/ loop' \notin Unanswered, loop' # "closed"
          PROVE  \E j \in 1 .. Len(out) + 1 : out'[j] = <<k, "final">>
      <4>1. CASE k < cur
        <5>1. PICK j \in 1 .. Len(out) : out[j] = <<k, "final">>
          BY <2>1, <4>1
        <5>2. j \in 1 .. Len(out) + 1 /\ out'[j] = <<k, "final">>
          BY <1>0, <1>3, <5>1
        <5> QED
          BY <5>2
      <4>2. CASE k = cur
        <5>1. kind = "final"
          BY <1>1, <3>3, <4>2, <1>0 DEF Unanswered
        <5> QED
          BY <1>0, <1>3, <4>2, <5>1 DEF x
      <4> QED
        BY <1>0, <4>1, <4>2
    <3> QED
      BY <1>1, <1>3, <3>1, <3>2, <3>3 DEF AnswersGiven, Reading, H!Ended
  <2>5. ASSUME NEW i \in 1 .. Len(out) + 1, NEW j \in 1 .. Len(out) + 1,
               i < j, out'[i][2] = "final", out'[j][2] = "final"
        PROVE  out'[i][1] < out'[j][1]
    <3>1. i \in 1 .. Len(out) /\ out'[i] = out[i]
      BY <1>0, <1>3, <2>5
    <3>2. CASE j \in 1 .. Len(out)
      BY <1>3, <2>2, <2>5, <3>1, <3>2
    <3>3. CASE j = Len(out) + 1
      BY <1>2, <1>3, <2>3, <2>5, <3>1, <3>3
    <3> QED
      BY <1>0, <3>2, <3>3
  <2>6. ASSUME NEW i \in 1 .. Len(out) + 1, NEW k \in 1 .. out'[i][1] - 1
        PROVE  \E j \in 1 .. i - 1 : out'[j] = <<k, "final">>
    <3>1. CASE i \in 1 .. Len(out)
      <4>1. PICK j \in 1 .. i - 1 : out[j] = <<k, "final">>
        BY <1>3, <2>2, <2>6, <3>1
      <4>2. out'[j] = out[j]
        BY <1>0, <1>3, <3>1
      <4> QED
        BY <4>1, <4>2
    <3>2. CASE i = Len(out) + 1
      <4>1. k \in 1 .. cur /\ k < cur
        BY <1>0, <1>2, <1>3, <2>6, <3>2
      <4>2. PICK j \in 1 .. Len(out) : out[j] = <<k, "final">>
        BY <2>1, <4>1
      <4> QED
        BY <1>0, <1>3, <3>2, <4>2
    <3> QED
      BY <1>0, <3>1, <3>2
  <2>7. ASSUME NEW i \in 1 .. Len(out) + 1, NEW j \in 1 .. Len(out) + 1,
               out'[i][2] = "continue", out'[j] = <<out'[i][1], "final">>
        PROVE  i < j
    <3>1. CASE j = Len(out) + 1
      <4>1. i # j
        BY <2>7
      <4> QED
        BY <1>0, <3>1, <4>1
    <3>2. CASE j \in 1 .. Len(out)
      <4>1. out[j] = <<out'[i][1], "final">>
        BY <1>3, <2>7, <3>2
      <4>2. i # Len(out) + 1
        BY <1>2, <1>3, <2>1, <2>7, <3>2, <4>1
      <4>3. i \in 1 .. Len(out) /\ out'[i] = out[i]
        BY <1>0, <1>3, <4>2
      <4> QED
        BY <2>2, <2>7, <3>2, <4>1, <4>3
    <3> QED
      BY <1>0, <3>1, <3>2
  <2>8. AnsweredInOrder'
    BY <1>3, <2>5, <2>6, <2>7 DEF AnsweredInOrder, H!AnsweredInOrder
  <2> QED
    BY <1>4, <1>5, <1>6, <2>4, <2>8 DEF HttpIInv
<1> QED
  BY <1>7, <1>8

\* Every step of the loop and of its client keeps the invariant.
LEMMA HttpStep ==
  ASSUME HttpIInv, H!Next
  PROVE  HttpIInv'
<1>1. CASE (\E r \in H!Requests : H!SendHeader(r)) \/ H!SendBody
  BY <1>1, HttpSends
<1>2. CASE H!Fails
  BY <1>2, HttpChunk
<1>3. CASE H!Server
  BY <1>3, HttpReadsHeader, HttpReadsBody, HttpRouting, HttpWrites, HttpChunk DEF H!Server
<1> QED
  BY <1>1, <1>2, <1>3 DEF H!Next

LEMMA HttpUnchanged ==
  ASSUME HttpIInv, UNCHANGED httpVars
  PROVE  HttpIInv'
  BY DEF HttpIInv, HttpTypes, InputLaid, Input, Reading, BodyRead, AnswersGiven, AnsweredInOrder,
         H!AnsweredInOrder, httpVars
\* What the invariant says of the properties.
LEMMA HttpProperties ==
  ASSUME HttpIInv
  PROVE  InStep /\ H!TypeOK
<1>0. /\ Len(requests) \in Nat /\ Len(requests) <= MaxRequests /\ MaxRequests \in Nat
      /\ net \in Seq(Tokens(Len(requests))) /\ ahead_of \in Seq(Tokens(Len(requests)))
      /\ out \in Seq(Answers(Len(requests))) /\ cur \in 0 .. Len(requests) /\ left \in 0 .. MaxBody
  BY SessionAssumption DEF HttpIInv, HttpTypes
<1>1. H!TypeOK
  <2>1. /\ net \in Seq(Tokens(MaxRequests)) /\ ahead_of \in Seq(Tokens(MaxRequests))
        /\ out \in Seq(Answers(MaxRequests))
    BY <1>0, Widened
  <2> QED
    BY <2>1 DEF HttpIInv, HttpTypes, H!TypeOK, Tokens, Answers, Unanswered
<1>2. InStep
  <2> SUFFICES ASSUME loop = "header", lost = {}, ahead_of \o net # <<>>
               PROVE  Head(ahead_of \o net)[2] = "header"
    BY DEF InStep, H!InStep
  <2>1. Laid(Input, requests, cur, left, unsent) /\ left = 0
    BY DEF HttpIInv, InputLaid, BodyRead, Reading, H!Ended
  <2>2. Input \in Seq(Tokens(Len(requests))) /\ Input # <<>> /\ cur \in Nat
    BY <1>0, ConcatProperties DEF Input
  <2>3. Input[1] = <<cur + 1, "header">>
    BY <1>0, <2>1, <2>2, LaidTail
  <2>4. Head(Input) = Input[1]
    BY <2>2
  <2> QED
    BY <2>3, <2>4 DEF Input
<1> QED
  BY <1>1, <1>2
-----------------------------------------------------------------------------
(* The websocket connection: its inductive invariant *)

Actions == Frames \cup Closes

WsTypes ==
  /\ run \in {"accept", "open_handler", "read", "message", "clear", "shutdown", "wait",
              "close_handler", "ended"}
  /\ ws \in {"handshake", "open", "closing", "closed"} /\ peer \in {"up", "lost"}
  /\ pending \in Seq(Actions) /\ order \in Seq(Actions) /\ wire \in Seq(Actions \cup {"close"})
  /\ active = {} \/ \E a \in Actions : active = {a}
  /\ submitted \subseteq Actions /\ passed \subseteq Actions
  /\ performing \in BOOLEAN /\ cancelled \in BOOLEAN
  /\ shutdowning \in BOOLEAN /\ signalled \in BOOLEAN
  /\ message \in Seq(1 .. MaxIn) /\ inbox \in Seq(0 .. MaxIn)
  /\ events \in Seq({"open", "message", "close"} \X Seq(0 .. MaxIn))

\* The queue keeps the order of the pushes, and what is executed precedes it.
Queued ==
  /\ IsInjective(order) /\ Range(order) = submitted
  /\ active \subseteq submitted /\ \A j \in DOMAIN pending : pending[j] \in submitted
  /\ \A i, j \in DOMAIN pending : i < j => Precedes(order, pending[i], pending[j])
  /\ \A a \in active, j \in DOMAIN pending : Precedes(order, a, pending[j])

\* What was sent precedes what is in the queue or in progress.
Sent ==
  /\ \A i \in DOMAIN wire : wire[i] # "close" => wire[i] \in submitted
  /\ \A i \in DOMAIN wire, j \in DOMAIN pending :
       wire[i] # "close" => Precedes(order, wire[i], pending[j])
  /\ \A i \in DOMAIN wire, a \in active \cap Frames :
       wire[i] # "close" => Precedes(order, wire[i], a)

\* No close frame goes out on an open connection, and none of its frames is lost.
OpenSends ==
  /\ ws \in {"handshake", "open"} => \A i \in DOMAIN wire : wire[i] \in Frames
  /\ ws = "open" => \A f \in submitted \cap Frames :
                      \/ f \in active \/ (\E i \in DOMAIN wire : wire[i] = f)
                      \/ \E j \in DOMAIN pending : pending[j] = f

\* FramesInOrder and CloseComesLast of WebsocketConn.
InPlace ==
  /\ \A i \in 1 .. Len(wire) - 1 : wire[i] \in Frames
  /\ \A i, j \in DOMAIN wire : i < j /\ wire[j] # "close" => Precedes(order, wire[i], wire[j])
  /\ \A c \in DOMAIN wire : wire[c] \in Closes =>
       \A f \in Frames : Precedes(order, f, wire[c]) => \E i \in DOMAIN wire : wire[i] = f

\* A connection is over from the read that fails on.
Over ==
  /\ run = "accept" => /\ ws = "handshake" /\ submitted = {} /\ passed = {} /\ active = {}
                       /\ pending = <<>> /\ wire = <<>> /\ events = <<>> /\ inbox = <<>>
                       /\ message = <<>>
  /\ run \in {"clear", "shutdown", "wait", "close_handler"} \/ cancelled \/ W!Closed
       => ws = "closed"

\* The calls of the handlers, and the messages that are still to be handled.
Called ==
  /\ \A i \in DOMAIN events :
       /\ (events[i][1] = "open") <=> (i = 1)
       /\ events[i][1] = "close" => i = Len(events)
       /\ events[i][1] = "message" => events[i][2] = <<i - 1>>
  /\ run \notin {"accept", "close_handler", "ended"} => events # <<>> /\ ~W!Closed
  /\ run = "open_handler" => Len(events) = 1
  /\ run = "close_handler" \/ (run = "ended" /\ Len(events) > 1) => W!Closed
  /\ run # "message" => message = <<>>
  /\ \A i \in DOMAIN inbox : inbox[i] = W!Arrived + i \/ (inbox[i] = 0 /\ i = Len(inbox))

WsIInv == WsTypes /\ Queued /\ Sent /\ OpenSends /\ InPlace /\ Over /\ Called
-----------------------------------------------------------------------------
LEMMA WsInit == W!Init => WsIInv
<1> SUFFICES ASSUME W!Init PROVE WsIInv
  OBVIOUS
<1>0. /\ run = "accept" /\ ws = "handshake" /\ pending = <<>> /\ active = {} /\ submitted = {}
      /\ passed = {} /\ order = <<>> /\ performing = FALSE /\ shutdowning = FALSE
      /\ cancelled = FALSE /\ signalled = FALSE /\ message = <<>> /\ events = <<>> /\ wire = <<>>
      /\ inbox = <<>> /\ peer = "up"
  BY DEF W!Init, W!Q!Init
<1>1. DOMAIN <<>> = {} /\ Len(<<>>) = 0
  OBVIOUS
<1>2. WsTypes
  <2>1. /\ <<>> \in Seq(Actions) /\ <<>> \in Seq(Actions \cup {"close"}) /\ <<>> \in Seq(1 .. MaxIn)
        /\ <<>> \in Seq(0 .. MaxIn)
        /\ <<>> \in Seq({"open", "message", "close"} \X Seq(0 .. MaxIn))
    BY EmptySeq
  <2> QED
    BY <1>0, <2>1 DEF WsTypes
<1>3. Queued /\ Sent /\ OpenSends
  BY <1>0, <1>1 DEF Queued, Sent, OpenSends, IsInjective, Range
<1>4. InPlace
  BY <1>0, <1>1 DEF InPlace
<1>5. Over /\ Called
  BY <1>0, <1>1 DEF Over, Called, W!Closed
<1> QED
  BY <1>2, <1>3, <1>4, <1>5 DEF WsIInv

\* The queue and the wire do not notice what does not change them.
LEMMA QueueKept ==
  ASSUME WsIInv, UNCHANGED <<pending, active, submitted, order, wire>>,
         ws' \in {"handshake", "open"} => ws' = ws \/ (ws = "handshake" /\ submitted = {})
  PROVE  Queued' /\ Sent' /\ OpenSends' /\ InPlace'
<1>1. Queued' /\ Sent' /\ InPlace'
  BY DEF WsIInv, Queued, Sent, InPlace, Precedes, IsInjective, Range
<1>2. OpenSends'
  BY DEF WsIInv, OpenSends
<1> QED
  BY <1>1, <1>2

\* Nor do the calls of the handlers.
LEMMA CalledKept ==
  ASSUME Called, UNCHANGED <<run, events, message, inbox>>
  PROVE  Called' /\ (W!Closed' <=> W!Closed)
  BY DEF Called, W!Closed, W!Arrived, W!Last

\* A call of send_message, send_ping or close.
LEMMA WsPush ==
  ASSUME WsIInv, NEW a \in Actions, W!Push(a)
  PROVE  WsIInv'
<1>0. WsTypes /\ Queued /\ Sent /\ OpenSends /\ InPlace /\ Over /\ Called
  BY DEF WsIInv
<1>1. /\ a \in passed /\ passed' = passed \ {a} /\ a \notin submitted
      /\ submitted' = submitted \cup {a} /\ pending' = Append(pending, a)
      /\ order' = Append(order, a) /\ performing' = TRUE /\ cancelled' \in BOOLEAN
      /\ (cancelled' => cancelled)
      /\ UNCHANGED <<active, run, ws, shutdowning, signalled, message, events, wire, inbox, peer>>
  BY <1>0 DEF W!Push, W!Q!Submit, W!stop, WsTypes
<1>2. a \notin Range(order) /\ order \in Seq(Actions) /\ pending \in Seq(Actions)
  BY <1>0, <1>1 DEF Queued, WsTypes
<1>3. /\ \A x, y : Precedes(order, x, y) => Precedes(order', x, y)
      /\ \A x \in submitted : Precedes(order', x, a)
      /\ \A x, y : y # a /\ Precedes(order', x, y) => Precedes(order, x, y)
  BY <1>0, <1>1, <1>2, PrecedesAppend DEF Queued
<1>4. /\ pending' \in Seq(Actions)
      /\ \A j \in DOMAIN pending : j \in DOMAIN pending' /\ pending'[j] = pending[j]
      /\ Len(pending) + 1 \in DOMAIN pending' /\ pending'[Len(pending) + 1] = a
      /\ \A j \in DOMAIN pending' : j \in DOMAIN pending \/ j = Len(pending) + 1
      /\ DOMAIN pending = 1 .. Len(pending) /\ Len(pending) \in Nat
  BY <1>1, <1>2, AppendedFacts
<1>5. order' \in Seq(Actions) /\ Range(order') = submitted' /\ IsInjective(order')
  BY <1>0, <1>1, <1>2, AppendFacts DEF Queued
<1>6. WsTypes'
  BY <1>0, <1>1, <1>4, <1>5 DEF WsTypes
<1>7. Queued'
  <2>1. active' \subseteq submitted' /\ \A j \in DOMAIN pending' : pending'[j] \in submitted'
    BY <1>0, <1>1, <1>4 DEF Queued
  <2>2. ASSUME NEW i \in DOMAIN pending', NEW j \in DOMAIN pending', i < j
        PROVE  Precedes(order', pending'[i], pending'[j])
    <3>1. i \in DOMAIN pending /\ pending'[i] = pending[i] /\ pending[i] \in submitted
      BY <1>0, <1>4, <2>2 DEF Queued
    <3>2. CASE j \in DOMAIN pending
      BY <1>0, <1>3, <1>4, <2>2, <3>1, <3>2 DEF Queued
    <3>3. CASE j = Len(pending) + 1
      BY <1>3, <1>4, <3>1, <3>3
    <3> QED
      BY <1>4, <3>2, <3>3
  <2>3. ASSUME NEW b \in active', NEW j \in DOMAIN pending'
        PROVE  Precedes(order', b, pending'[j])
    <3>1. b \in active /\ b \in submitted
      BY <1>0, <1>1 DEF Queued
    <3>2. CASE j \in DOMAIN pending
      BY <1>0, <1>3, <1>4, <3>1, <3>2 DEF Queued
    <3>3. CASE j = Len(pending) + 1
      BY <1>3, <1>4, <3>1, <3>3
    <3> QED
      BY <1>4, <3>2, <3>3
  <2> QED
    BY <1>5, <2>1, <2>2, <2>3 DEF Queued
<1>8. Sent'
  <2>1. ASSUME NEW i \in DOMAIN wire, NEW j \in DOMAIN pending', wire[i] # "close"
        PROVE  Precedes(order', wire[i], pending'[j])
    <3>1. wire[i] \in submitted
      BY <1>0, <2>1 DEF Sent
    <3>2. CASE j \in DOMAIN pending
      BY <1>0, <1>3, <1>4, <2>1, <3>2 DEF Sent
    <3>3. CASE j = Len(pending) + 1
      BY <1>3, <1>4, <3>1, <3>3
    <3> QED
      BY <1>4, <3>2, <3>3
  <2> QED
    BY <1>0, <1>1, <1>3, <2>1 DEF Sent
<1>9. OpenSends'
  <2>1. ASSUME ws = "open", NEW f \in submitted' \cap Frames
        PROVE  \/ f \in active \/ (\E i \in DOMAIN wire : wire[i] = f)
               \/ \E j \in DOMAIN pending' : pending'[j] = f
    <3>1. CASE f = a
      BY <1>4, <3>1
    <3>2. CASE f \in submitted
      <4>1. \/ f \in active \/ (\E i \in DOMAIN wire : wire[i] = f)
            \/ \E j \in DOMAIN pending : pending[j] = f
        BY <1>0, <2>1, <3>2 DEF OpenSends
      <4> QED
        BY <1>4, <4>1
    <3> QED
      BY <1>1, <3>1, <3>2
  <2> QED
    BY <1>0, <1>1, <2>1 DEF OpenSends
<1>10. InPlace'
  <2>1. ASSUME NEW c \in DOMAIN wire, wire[c] \in Closes, NEW f \in Frames,
               Precedes(order', f, wire[c])
        PROVE  \E i \in DOMAIN wire : wire[i] = f
    <3>1. wire[c] # "close"
      BY <2>1, SessionAssumption
    <3>2. wire[c] \in submitted /\ wire[c] # a
      BY <1>0, <1>1, <3>1 DEF Sent
    <3>3. Precedes(order, f, wire[c])
      BY <1>3, <2>1, <3>2
    <3> QED
      BY <1>0, <2>1, <3>3 DEF InPlace
  <2> QED
    BY <1>0, <1>1, <1>3, <2>1 DEF InPlace
<1>11. Called' /\ (W!Closed' <=> W!Closed)
  BY <1>0, <1>1, CalledKept
<1>12. Over'
  BY <1>0, <1>1, <1>11 DEF Over
<1> QED
  BY <1>6, <1>7, <1>8, <1>9, <1>10, <1>11, <1>12 DEF WsIInv
\* perform() takes the next action; a close begins by sending its frame.
LEMMA WsBegin ==
  ASSUME WsIInv, W!Begin
  PROVE  WsIInv'
<1>0. WsTypes /\ Queued /\ Sent /\ OpenSends /\ InPlace /\ Over /\ Called
  BY DEF WsIInv
<1> DEFINE h == Head(pending)
<1>1. /\ pending # <<>> /\ active = {} /\ active' = {h} /\ pending' = Tail(pending)
      /\ ~cancelled
      /\ IF h \in Closes /\ ws = "open"
           THEN ws' = "closing" /\ wire' = Append(wire, h)
           ELSE ws' = ws /\ wire' = wire
      /\ UNCHANGED <<submitted, run, order, passed, performing, cancelled, shutdowning, signalled,
                     message, events, inbox, peer>>
  BY DEF W!Begin, W!Q!Begin, W!perform, W!stop
<1>2. /\ pending' \in Seq(Actions) /\ 1 \in DOMAIN pending /\ h = pending[1] /\ h \in Actions
      /\ \A i \in DOMAIN pending' : i + 1 \in DOMAIN pending /\ pending'[i] = pending[i + 1] /\ 1 < i + 1
      /\ \A i \in DOMAIN pending : i = 1 \/ (i - 1 \in DOMAIN pending' /\ pending'[i - 1] = pending[i])
      /\ DOMAIN pending' \subseteq Nat
  BY <1>0, <1>1, RemovedFacts DEF WsTypes
<1> HIDE DEF h
<1>3. h \in submitted /\ \A i \in DOMAIN pending' : Precedes(order, h, pending'[i])
  BY <1>0, <1>2 DEF Queued
<1>4. order \in Seq(Actions) /\ IsInjective(order) /\ h # "close"
  BY <1>0, <1>2, SessionAssumption DEF WsTypes, Queued, Actions
<1>5. Queued'
  <2>1. ASSUME NEW i \in DOMAIN pending', NEW j \in DOMAIN pending', i < j
        PROVE  Precedes(order, pending'[i], pending'[j])
    <3>1. i + 1 \in DOMAIN pending /\ j + 1 \in DOMAIN pending /\ i + 1 < j + 1
      BY <1>2, <2>1
    <3> QED
      BY <1>0, <1>2, <3>1 DEF Queued
  <2>2. \A j \in DOMAIN pending' : pending'[j] \in submitted
    BY <1>0, <1>2 DEF Queued
  <2> QED
    BY <1>0, <1>1, <1>3, <2>1, <2>2 DEF Queued
<1>6. \A i \in DOMAIN wire : wire[i] # "close" =>
        /\ wire[i] \in submitted /\ Precedes(order, wire[i], h)
        /\ \A j \in DOMAIN pending' : Precedes(order, wire[i], pending'[j])
  BY <1>0, <1>2 DEF Sent
<1>7. Called' /\ (W!Closed' <=> W!Closed)
  BY <1>0, <1>1, CalledKept
<1>8. Over'
  BY <1>0, <1>1, <1>7 DEF Over
<1>9. CASE h \in Closes /\ ws = "open"
  <2>1. /\ wire \in Seq(Actions \cup {"close"}) /\ h \in Actions \cup {"close"} /\ h \notin Frames
        /\ ws' = "closing" /\ wire' = Append(wire, h)
    BY <1>0, <1>1, <1>2, <1>9, SessionAssumption DEF WsTypes
  <2>2. /\ wire' \in Seq(Actions \cup {"close"}) /\ Len(wire') = Len(wire) + 1 /\ Len(wire) \in Nat
        /\ DOMAIN wire = 1 .. Len(wire)
        /\ \A i \in DOMAIN wire : i \in DOMAIN wire' /\ wire'[i] = wire[i]
        /\ Len(wire) + 1 \in DOMAIN wire' /\ wire'[Len(wire) + 1] = h
        /\ \A i \in DOMAIN wire' : i \in DOMAIN wire \/ i = Len(wire) + 1
    BY <2>1, AppendedFacts
  <2>3. \A i \in DOMAIN wire : wire[i] \in Frames /\ wire[i] # "close"
    BY <1>0, <1>9, SessionAssumption DEF OpenSends
  <2>4. WsTypes'
    BY <1>0, <1>1, <1>2, <2>1, <2>2 DEF WsTypes
  <2>5. Sent'
    BY <1>1, <1>3, <1>6, <2>1, <2>2 DEF Sent
  <2>6. OpenSends'
    BY <2>1 DEF OpenSends
  <2>7. InPlace'
    <3>1. \A i \in 1 .. Len(wire') - 1 : wire'[i] \in Frames
      BY <2>2, <2>3
    <3>2. ASSUME NEW i \in DOMAIN wire', NEW j \in DOMAIN wire', i < j
          PROVE  Precedes(order, wire'[i], wire'[j])
      <4>1. i \in DOMAIN wire /\ wire'[i] = wire[i]
        BY <2>2, <3>2
      <4>2. CASE j \in DOMAIN wire
        BY <1>0, <2>2, <2>3, <3>2, <4>1, <4>2 DEF InPlace
      <4>3. CASE j = Len(wire) + 1
        BY <1>6, <2>2, <2>3, <4>1, <4>3
      <4> QED
        BY <2>2, <4>2, <4>3
    <3>3. ASSUME NEW c \in DOMAIN wire', wire'[c] \in Closes, NEW f \in Frames,
                 Precedes(order, f, wire'[c])
          PROVE  \E i \in DOMAIN wire' : wire'[i] = f
      <4>1. c = Len(wire) + 1 /\ wire'[c] = h
        BY <2>2, <2>3, <3>3, SessionAssumption
      <4>2. f \in submitted /\ f # h /\ ~Precedes(order, h, f)
        BY <1>0, <1>4, <3>3, <4>1, PrecedesFacts DEF Queued
      <4>3. \/ \E i \in DOMAIN wire : wire[i] = f
            \/ \E j \in DOMAIN pending : pending[j] = f
        BY <1>0, <1>1, <1>9, <4>2 DEF OpenSends
      <4>4. ASSUME NEW j \in DOMAIN pending, pending[j] = f PROVE FALSE
        BY <1>2, <1>3, <4>2, <4>4
      <4> QED
        BY <2>2, <4>3, <4>4
    <3> QED
      BY <1>1, <3>1, <3>2, <3>3 DEF InPlace
  <2> QED
    BY <1>5, <1>7, <1>8, <2>4, <2>5, <2>6, <2>7 DEF WsIInv
<1>10. CASE ~(h \in Closes /\ ws = "open")
  <2>1. wire' = wire /\ ws' = ws
    BY <1>1, <1>10
  <2>2. WsTypes'
    BY <1>0, <1>1, <1>2, <2>1 DEF WsTypes
  <2>3. Sent'
    BY <1>1, <1>6, <2>1 DEF Sent
  <2>4. OpenSends'
    <3>1. ASSUME ws = "open", NEW f \in submitted \cap Frames
          PROVE  \/ f \in active' \/ (\E i \in DOMAIN wire : wire[i] = f)
                 \/ \E j \in DOMAIN pending' : pending'[j] = f
      <4>1. (\E i \in DOMAIN wire : wire[i] = f) \/ \E j \in DOMAIN pending : pending[j] = f
        BY <1>0, <1>1, <3>1 DEF OpenSends
      <4>2. ASSUME NEW j \in DOMAIN pending, pending[j] = f
            PROVE  f \in active' \/ \E k \in DOMAIN pending' : pending'[k] = f
        BY <1>1, <1>2, <4>2
      <4> QED
        BY <4>1, <4>2
    <3> QED
      BY <1>0, <1>1, <2>1, <3>1 DEF OpenSends
  <2>5. InPlace'
    BY <1>0, <1>1, <2>1 DEF InPlace
  <2> QED
    BY <1>5, <1>7, <1>8, <2>2, <2>3, <2>4, <2>5 DEF WsIInv
<1> QED
  BY <1>9, <1>10

\* A frame has been written.
LEMMA WsWriteDone ==
  ASSUME WsIInv, NEW a \in Actions, W!WriteDone(a)
  PROVE  WsIInv'
<1>0. WsTypes /\ Queued /\ Sent /\ OpenSends /\ InPlace /\ Over /\ Called
  BY DEF WsIInv
<1>1. /\ a \in active /\ a \in Frames /\ ws = "open" /\ wire' = Append(wire, a)
      /\ active' = active \ {a}
      /\ UNCHANGED <<pending, submitted, run, ws, order, passed, performing, cancelled, shutdowning,
                     signalled, message, events, inbox, peer>>
  BY DEF W!WriteDone, W!Q!End, W!perform, W!stop
<1>2. active = {a} /\ active' = {} /\ a \in submitted /\ a # "close" /\ a \notin Closes
  BY <1>0, <1>1, SessionAssumption DEF WsTypes, Queued
<1>3. /\ wire' \in Seq(Actions \cup {"close"}) /\ Len(wire') = Len(wire) + 1 /\ Len(wire) \in Nat
      /\ DOMAIN wire = 1 .. Len(wire)
      /\ \A i \in DOMAIN wire : i \in DOMAIN wire' /\ wire'[i] = wire[i]
      /\ Len(wire) + 1 \in DOMAIN wire' /\ wire'[Len(wire) + 1] = a
      /\ \A i \in DOMAIN wire' : i \in DOMAIN wire \/ i = Len(wire) + 1
  <2>1. wire \in Seq(Actions \cup {"close"}) /\ a \in Actions \cup {"close"}
    BY <1>0 DEF WsTypes
  <2> QED
    BY <1>1, <2>1, AppendedFacts
<1>4. \A i \in DOMAIN wire : wire[i] \in Frames /\ wire[i] # "close" /\ Precedes(order, wire[i], a)
  BY <1>0, <1>1, SessionAssumption DEF OpenSends, Sent
<1>5. WsTypes'
  BY <1>0, <1>1, <1>2, <1>3 DEF WsTypes
<1>6. Queued'
  BY <1>0, <1>1, <1>2 DEF Queued
<1>7. Sent'
  <2>1. \A i \in DOMAIN wire' : wire'[i] \in submitted
    BY <1>0, <1>2, <1>3, <1>4 DEF Sent
  <2>2. ASSUME NEW i \in DOMAIN wire', NEW j \in DOMAIN pending
        PROVE  Precedes(order, wire'[i], pending[j])
    <3>1. CASE i \in DOMAIN wire
      BY <1>0, <1>3, <1>4, <3>1 DEF Sent
    <3>2. CASE i = Len(wire) + 1
      BY <1>0, <1>1, <1>3, <3>2 DEF Queued
    <3> QED
      BY <1>3, <3>1, <3>2
  <2> QED
    BY <1>1, <1>2, <2>1, <2>2 DEF Sent
<1>8. OpenSends'
  <2>1. \A i \in DOMAIN wire' : wire'[i] \in Frames
    BY <1>1, <1>3, <1>4
  <2>2. ASSUME NEW f \in submitted \cap Frames
        PROVE  (\E i \in DOMAIN wire' : wire'[i] = f) \/ \E j \in DOMAIN pending : pending[j] = f
    <3>1. \/ f \in active \/ (\E i \in DOMAIN wire : wire[i] = f)
          \/ \E j \in DOMAIN pending : pending[j] = f
      BY <1>0, <1>1 DEF OpenSends
    <3> QED
      BY <1>2, <1>3, <3>1
  <2> QED
    BY <1>1, <2>1, <2>2 DEF OpenSends
<1>9. InPlace'
  <2>1. \A i \in 1 .. Len(wire') - 1 : wire'[i] \in Frames
    BY <1>3, <1>4
  <2>2. ASSUME NEW i \in DOMAIN wire', NEW j \in DOMAIN wire', i < j
        PROVE  Precedes(order, wire'[i], wire'[j])
    <3>1. i \in DOMAIN wire /\ wire'[i] = wire[i]
      BY <1>3, <2>2
    <3>2. CASE j \in DOMAIN wire
      BY <1>0, <1>3, <1>4, <2>2, <3>1, <3>2 DEF InPlace
    <3>3. CASE j = Len(wire) + 1
      BY <1>3, <1>4, <3>1, <3>3
    <3> QED
      BY <1>3, <3>2, <3>3
  <2>3. \A c \in DOMAIN wire' : wire'[c] \notin Closes
    BY <1>2, <1>3, <1>4, SessionAssumption
  <2> QED
    BY <1>1, <2>1, <2>2, <2>3 DEF InPlace
<1>10. Called' /\ (W!Closed' <=> W!Closed)
  BY <1>0, <1>1, CalledKept
<1>11. Over'
  BY <1>0, <1>1, <1>10 DEF Over
<1> QED
  BY <1>5, <1>6, <1>7, <1>8, <1>9, <1>10, <1>11 DEF WsIInv
\* An action ends without having sent anything: the connection is over by then.
LEMMA WsActionEnds ==
  ASSUME WsIInv, NEW a \in Actions, W!WriteFails(a) \/ W!CloseDone(a) \/ W!PerformThrows(a)
  PROVE  WsIInv'
<1>0. WsTypes /\ Queued /\ Sent /\ OpenSends /\ InPlace /\ Over /\ Called
  BY DEF WsIInv
<1>1. /\ a \in active /\ active' = active \ {a} /\ (ws' = "closed" \/ (cancelled /\ ws' = ws))
      /\ UNCHANGED <<pending, submitted, run, order, passed, performing, cancelled, shutdowning,
                     signalled, message, events, wire, inbox, peer>>
  BY DEF W!WriteFails, W!CloseDone, W!PerformThrows, W!Q!End, W!perform, W!stop
<1>2. active = {a} /\ active' = {} /\ ws' = "closed"
  BY <1>0, <1>1 DEF WsTypes, Over
<1>3. WsTypes'
  BY <1>0, <1>1, <1>2 DEF WsTypes
<1>4. Queued' /\ Sent' /\ OpenSends' /\ InPlace'
  BY <1>0, <1>1, <1>2 DEF Queued, Sent, OpenSends, InPlace
<1>5. Called' /\ (W!Closed' <=> W!Closed)
  BY <1>0, <1>1, CalledKept
<1>6. Over'
  BY <1>0, <1>1, <1>2, <1>5 DEF Over
<1> QED
  BY <1>3, <1>4, <1>5, <1>6 DEF WsIInv

\* The other steps of the callers, of perform() and of the destructor.
LEMMA WsOther ==
  ASSUME WsIInv,
         \/ (\E a \in Actions : W!Test(a) \/ W!PushRefused(a)) \/ W!PerformExit \/ W!Destroy
         \/ W!PeerLost
  PROVE  WsIInv'
<1>0. WsTypes /\ Over /\ Called
  BY DEF WsIInv
<1>1. /\ UNCHANGED <<pending, active, submitted, order, wire, run, events, message, inbox>>
      /\ (ws' = ws \/ (ws' = "closed" /\ run # "accept"))
      /\ cancelled' = cancelled
      /\ (passed' = passed \/ (passed' \subseteq Actions /\ run # "accept"))
      /\ performing' \in BOOLEAN /\ shutdowning' \in BOOLEAN /\ signalled' \in BOOLEAN
      /\ peer' \in {"up", "lost"}
  <2>1. ASSUME NEW a \in Actions, W!Test(a) \/ W!PushRefused(a) PROVE <1>1!:
    BY <1>0, <2>1 DEF W!Test, W!PushRefused, W!queue, W!perform, W!stop, WsTypes, Over
  <2>2. CASE W!PerformExit
    BY <1>0, <2>2 DEF W!PerformExit, W!queue, WsTypes
  <2>3. CASE W!Destroy
    BY <1>0, <2>3 DEF W!Destroy, W!Alive, W!queue, W!perform, W!stop, WsTypes
  <2>4. CASE W!PeerLost
    BY <1>0, <2>4 DEF W!PeerLost, W!queue, W!perform, W!stop, WsTypes
  <2> QED
    BY <2>1, <2>2, <2>3, <2>4
<1>2. WsTypes'
  BY <1>0, <1>1 DEF WsTypes
<1>3. Queued' /\ Sent' /\ OpenSends' /\ InPlace'
  BY <1>1, QueueKept
<1>4. Called' /\ (W!Closed' <=> W!Closed)
  BY <1>0, <1>1, CalledKept
<1>5. Over'
  BY <1>0, <1>1, <1>4 DEF Over
<1> QED
  BY <1>2, <1>3, <1>4, <1>5 DEF WsIInv

\* The read that ends the loop of run(), with the answer to a close.
LEMMA WsReadFails ==
  ASSUME WsIInv, W!ReadFails
  PROVE  WsIInv'
<1>0. WsTypes /\ Queued /\ Sent /\ OpenSends /\ InPlace /\ Over /\ Called
  BY DEF WsIInv
<1>1. /\ run = "read" /\ ws' = "closed" /\ run' = "clear"
      /\ \/ inbox' = inbox /\ wire' = wire
         \/ /\ inbox # <<>> /\ inbox' = Tail(inbox) /\ Head(inbox) = 0
            /\ wire' = wire \/ (ws = "open" /\ wire' = Append(wire, "close"))
      /\ UNCHANGED <<pending, active, submitted, order, passed, performing, cancelled, shutdowning,
                     signalled, message, events, peer>>
  BY DEF W!ReadFails, W!queue, W!perform, W!stop
<1>2. inbox' \in Seq(0 .. MaxIn)
      /\ \A i \in DOMAIN inbox' : inbox'[i] = W!Arrived + i \/ (inbox'[i] = 0 /\ i = Len(inbox'))
  <2>1. CASE inbox' = inbox
    BY <1>0, <2>1 DEF WsTypes, Called
  <2>2. CASE inbox # <<>> /\ inbox' = Tail(inbox) /\ Head(inbox) = 0
    <3>1. /\ inbox' \in Seq(0 .. MaxIn) /\ 1 \in DOMAIN inbox /\ inbox[1] = 0 /\ Len(inbox) \in Nat
          /\ DOMAIN inbox' = 1 .. Len(inbox) - 1
      BY <1>0, <2>2, RemovedFacts DEF WsTypes
    <3>2. events # <<>> /\ ~W!Closed
      BY <1>0, <1>1 DEF Called
    <3>3. W!Arrived = Len(events) - 1 /\ Len(events) \in Nat /\ Len(events) > 0
      BY <1>0, <3>2, EmptySeq DEF WsTypes, W!Arrived
    <3>4. 1 = Len(inbox)
      <4>1. inbox[1] = W!Arrived + 1 \/ (inbox[1] = 0 /\ 1 = Len(inbox))
        BY <1>0, <3>1 DEF Called
      <4> QED
        BY <3>1, <3>3, <4>1
    <3>5. DOMAIN inbox' = {}
      <4>1. Len(inbox) - 1 = 0 /\ 1 .. 0 = {}
        BY <3>4
      <4> QED
        BY <3>1, <4>1
    <3> QED
      BY <3>1, <3>5
  <2> QED
    BY <1>1, <2>1, <2>2
<1>3. W!Arrived' = W!Arrived /\ (W!Closed' <=> W!Closed)
  BY <1>1 DEF W!Arrived, W!Closed, W!Last
<1>4. Called'
  BY <1>0, <1>1, <1>2, <1>3 DEF Called
<1>5. Over'
  BY <1>0, <1>1 DEF Over
<1>6. Queued' /\ OpenSends'
  BY <1>0, <1>1 DEF Queued, OpenSends
<1>7. CASE wire' = wire
  <2>1. WsTypes' /\ Sent' /\ InPlace'
    BY <1>0, <1>1, <1>2, <1>7 DEF WsTypes, Sent, InPlace
  <2> QED
    BY <1>4, <1>5, <1>6, <2>1 DEF WsIInv
<1>8. CASE ws = "open" /\ wire' = Append(wire, "close")
  <2>1. /\ wire' \in Seq(Actions \cup {"close"}) /\ Len(wire') = Len(wire) + 1 /\ Len(wire) \in Nat
        /\ DOMAIN wire = 1 .. Len(wire)
        /\ \A i \in DOMAIN wire : i \in DOMAIN wire' /\ wire'[i] = wire[i]
        /\ Len(wire) + 1 \in DOMAIN wire' /\ wire'[Len(wire) + 1] = "close"
        /\ \A i \in DOMAIN wire' : i \in DOMAIN wire \/ i = Len(wire) + 1
    <3>1. wire \in Seq(Actions \cup {"close"}) /\ "close" \in Actions \cup {"close"}
      BY <1>0 DEF WsTypes
    <3> QED
      BY <1>8, <3>1, AppendedFacts
  <2>2. \A i \in DOMAIN wire : wire[i] \in Frames
    BY <1>0, <1>8 DEF OpenSends
  <2>3. WsTypes'
    BY <1>0, <1>1, <1>2, <2>1 DEF WsTypes
  <2>4. Sent'
    BY <1>0, <1>1, <2>1 DEF Sent
  <2>5. InPlace'
    <3>1. \A i \in 1 .. Len(wire') - 1 : wire'[i] \in Frames
      BY <2>1, <2>2
    <3>2. ASSUME NEW i \in DOMAIN wire', NEW j \in DOMAIN wire', i < j, wire'[j] # "close"
          PROVE  Precedes(order, wire'[i], wire'[j])
      <4>1. j \in DOMAIN wire /\ i \in DOMAIN wire
        BY <2>1, <3>2
      <4> QED
        BY <1>0, <2>1, <3>2, <4>1 DEF InPlace
    <3>3. \A c \in DOMAIN wire' : wire'[c] \notin Closes
      BY <2>1, <2>2, SessionAssumption
    <3> QED
      BY <1>1, <3>1, <3>2, <3>3 DEF InPlace
  <2> QED
    BY <1>4, <1>5, <1>6, <2>3, <2>4, <2>5 DEF WsIInv
<1> QED
  BY <1>1, <1>7, <1>8

\* A message, and the call of its handler.
LEMMA WsReadMessage ==
  ASSUME WsIInv, W!ReadMessage
  PROVE  WsIInv'
<1>0. WsTypes /\ Over /\ Called
  BY DEF WsIInv
<1>1. /\ run = "read" /\ inbox # <<>> /\ Head(inbox) # 0 /\ inbox' = Tail(inbox)
      /\ message' = Append(message, Head(inbox)) /\ events' = Append(events, <<"message", message'>>)
      /\ run' = "message"
      /\ UNCHANGED <<pending, active, submitted, order, passed, performing, cancelled, shutdowning,
                     signalled, ws, wire, peer>>
  BY DEF W!ReadMessage, W!queue, W!perform, W!stop
<1>2. /\ events # <<>> /\ ~W!Closed /\ message = <<>>
  BY <1>0, <1>1 DEF Called
<1>3. W!Arrived = Len(events) - 1 /\ Len(events) \in Nat /\ Len(events) > 0
  BY <1>0, <1>2, EmptySeq DEF WsTypes, W!Arrived
<1>4. /\ inbox' \in Seq(0 .. MaxIn) /\ 1 \in DOMAIN inbox /\ inbox[1] = Head(inbox)
      /\ Len(inbox) \in Nat /\ Len(inbox') = Len(inbox) - 1 /\ inbox[1] \in 0 .. MaxIn
      /\ \A i \in DOMAIN inbox' : i + 1 \in DOMAIN inbox /\ inbox'[i] = inbox[i + 1]
      /\ DOMAIN inbox' = 1 .. Len(inbox) - 1
  <2>1. inbox \in Seq(0 .. MaxIn)
    BY <1>0 DEF WsTypes
  <2>2. /\ inbox' \in Seq(0 .. MaxIn) /\ 1 \in DOMAIN inbox /\ Head(inbox) = inbox[1]
        /\ Len(inbox) \in Nat /\ Len(inbox') = Len(inbox) - 1 /\ Head(inbox) \in 0 .. MaxIn
        /\ \A i \in DOMAIN inbox' : i + 1 \in DOMAIN inbox /\ inbox'[i] = inbox[i + 1] /\ 1 < i + 1
        /\ DOMAIN inbox' = 1 .. Len(inbox) - 1
    BY <1>1, <2>1, RemovedFacts
  <2> QED
    BY <2>2
<1>5. Head(inbox) = Len(events) /\ Head(inbox) \in 1 .. MaxIn
  <2>1. inbox[1] = W!Arrived + 1
    BY <1>0, <1>1, <1>4 DEF Called
  <2>2. MaxIn \in Nat
    BY SessionAssumption
  <2> QED
    BY <1>1, <1>3, <1>4, <2>1, <2>2
<1>6. message' = <<Len(events)>> /\ message' \in Seq(1 .. MaxIn) /\ message' \in Seq(0 .. MaxIn)
  <2>1. Append(<<>>, Len(events)) = <<Len(events)>> /\ Len(events) \in 0 .. MaxIn
    BY <1>3, <1>5
  <2> QED
    BY <1>1, <1>2, <1>5, <2>1
<1> DEFINE e == <<"message", message'>>
           Es == {"open", "message", "close"} \X Seq(0 .. MaxIn)
<1>7. e \in Es /\ e[1] = "message" /\ e[2] = <<Len(events)>> /\ events \in Seq(Es)
  BY <1>0, <1>6 DEF WsTypes
<1> HIDE DEF e, Es
<1>8. /\ events' \in Seq(Es) /\ Len(events') = Len(events) + 1
      /\ DOMAIN events = 1 .. Len(events) /\ DOMAIN events' = 1 .. Len(events) + 1
      /\ \A i \in DOMAIN events : i \in DOMAIN events' /\ events'[i] = events[i]
      /\ events'[Len(events) + 1] = e
      /\ \A i \in DOMAIN events' : i \in DOMAIN events \/ i = Len(events) + 1
  BY <1>1, <1>7, AppendedFacts DEF e
<1>9. ~W!Closed' /\ W!Arrived' = W!Arrived + 1 /\ events' # <<>>
  <2>1. events'[Len(events')] = e /\ events' # <<>>
    BY <1>3, <1>8
  <2>2. ~W!Closed'
    BY <1>7, <2>1 DEF W!Closed, W!Last
  <2>3. W!Arrived' = Len(events') - 1
    BY <2>2 DEF W!Arrived
  <2> QED
    BY <1>3, <1>8, <2>1, <2>2, <2>3
<1>10. WsTypes'
  BY <1>0, <1>1, <1>4, <1>6, <1>8 DEF WsTypes, Es
<1>11. Queued' /\ Sent' /\ OpenSends' /\ InPlace'
  BY <1>1, QueueKept
<1>12. Over'
  BY <1>0, <1>1, <1>9 DEF Over
<1>13. Called'
  <2>1. ASSUME NEW i \in DOMAIN events'
        PROVE  /\ (events'[i][1] = "open") <=> (i = 1)
               /\ events'[i][1] = "close" => i = Len(events')
               /\ events'[i][1] = "message" => events'[i][2] = <<i - 1>>
    <3>1. CASE i \in DOMAIN events
      <4>1. /\ (events[i][1] = "open") <=> (i = 1)
            /\ events[i][1] = "close" => i = Len(events)
            /\ events[i][1] = "message" => events[i][2] = <<i - 1>>
        BY <1>0, <3>1 DEF Called
      <4>2. events[i][1] # "close"
        BY <1>2, <4>1 DEF W!Closed, W!Last
      <4> QED
        BY <1>8, <3>1, <4>1, <4>2
    <3>2. CASE i = Len(events) + 1
      <4>1. events'[i] = e /\ i - 1 = Len(events) /\ i # 1
        BY <1>3, <1>8, <3>2
      <4> QED
        BY <1>7, <4>1
    <3> QED
      BY <1>8, <3>1, <3>2
  <2>2. ASSUME NEW i \in DOMAIN inbox'
        PROVE  inbox'[i] = W!Arrived' + i \/ (inbox'[i] = 0 /\ i = Len(inbox'))
    <3>1. inbox[i + 1] = W!Arrived + (i + 1) \/ (inbox[i + 1] = 0 /\ i + 1 = Len(inbox))
      BY <1>0, <1>4 DEF Called
    <3> QED
      BY <1>3, <1>4, <1>9, <3>1
  <2> QED
    BY <1>1, <1>9, <2>1, <2>2 DEF Called
<1> QED
  BY <1>10, <1>11, <1>12, <1>13 DEF WsIInv
\* The steps of run() between two calls of handlers.
LEMMA WsRuns ==
  ASSUME WsIInv,
         \/ W!OpenHandlerReturns \/ W!OpenHandlerThrows \/ W!MessageHandled
         \/ W!Shutdown \/ W!CloseHandlerReturns
  PROVE  WsIInv'
<1>0. WsTypes /\ Over /\ Called
  BY DEF WsIInv
<1>1. /\ UNCHANGED <<pending, active, submitted, order, passed, ws, wire, events, inbox, peer>>
      /\ performing' \in BOOLEAN /\ shutdowning' \in BOOLEAN /\ signalled' \in BOOLEAN
      /\ cancelled' \in BOOLEAN /\ (cancelled' => cancelled \/ run = "shutdown")
      /\ message' = message \/ (message' = <<>> /\ run = "message")
      /\ run' # "message" /\ (run = "message" => message' = <<>>)
      /\ \/ run = "open_handler" /\ run' \in {"read", "ended"}
         \/ run = "message" /\ run' = "read"
         \/ run = "shutdown" /\ run' = "wait"
         \/ run = "close_handler" /\ run' = "ended"
  <2> USE <1>0 DEF W!queue, W!perform, W!stop, WsTypes
  <2>1. CASE W!OpenHandlerReturns
    BY <2>1 DEF W!OpenHandlerReturns
  <2>2. CASE W!OpenHandlerThrows
    BY <2>2 DEF W!OpenHandlerThrows
  <2>3. CASE W!MessageHandled
    BY <2>3 DEF W!MessageHandled
  <2>4. CASE W!Shutdown
    BY <2>4 DEF W!Shutdown
  <2>5. CASE W!CloseHandlerReturns
    BY <2>5 DEF W!CloseHandlerReturns
  <2> QED
    BY <2>1, <2>2, <2>3, <2>4, <2>5
<1>2. WsTypes'
  <2>1. message' \in Seq(1 .. MaxIn)
    BY <1>0, <1>1, EmptySeq DEF WsTypes
  <2> QED
    BY <1>0, <1>1, <2>1 DEF WsTypes
<1>3. Queued' /\ Sent' /\ OpenSends' /\ InPlace'
  BY <1>1, QueueKept
<1>4. W!Arrived' = W!Arrived /\ (W!Closed' <=> W!Closed)
  BY <1>1 DEF W!Arrived, W!Closed, W!Last
<1>5. Called'
  BY <1>0, <1>1, <1>4 DEF Called
<1>6. Over'
  BY <1>0, <1>1, <1>4 DEF Over
<1> QED
  BY <1>2, <1>3, <1>5, <1>6 DEF WsIInv

\* The queue is cleared when the connection is over.
LEMMA WsClear ==
  ASSUME WsIInv, W!Clear
  PROVE  WsIInv'
<1>0. WsTypes /\ Queued /\ Sent /\ OpenSends /\ InPlace /\ Over /\ Called
  BY DEF WsIInv
<1>1. /\ run = "clear" /\ run' = "shutdown" /\ pending' = <<>>
      /\ UNCHANGED <<active, submitted, order, passed, performing, cancelled, shutdowning,
                     signalled, ws, wire, message, events, inbox, peer>>
  BY DEF W!Clear, W!Q!Discard, W!perform, W!stop
<1>2. ws = "closed" /\ ws' = "closed"
  BY <1>0, <1>1 DEF Over
<1>3. pending' \in Seq(Actions) /\ DOMAIN pending' = {}
  BY <1>1, EmptySeq
<1>4. WsTypes'
  BY <1>0, <1>1, <1>3 DEF WsTypes
<1>5. Queued' /\ Sent' /\ OpenSends' /\ InPlace'
  BY <1>0, <1>1, <1>2, <1>3 DEF Queued, Sent, OpenSends, InPlace
<1>6. W!Arrived' = W!Arrived /\ (W!Closed' <=> W!Closed)
  BY <1>1 DEF W!Arrived, W!Closed, W!Last
<1>7. Called' /\ Over'
  BY <1>0, <1>1, <1>2, <1>6 DEF Called, Over
<1> QED
  BY <1>4, <1>5, <1>7 DEF WsIInv

\* The handshake and the call of the open handler, or the end for want of a route.
LEMMA WsAccept ==
  ASSUME WsIInv, W!Accept
  PROVE  WsIInv'
<1>0. WsTypes /\ Over /\ Called
  BY DEF WsIInv
<1>1. /\ run = "accept"
      /\ \/ run' = "open_handler" /\ ws' = "open" /\ events' = <<<<"open", <<>>>>>>
         \/ run' = "ended" /\ ws' = "closed" /\ events' = events
      /\ UNCHANGED <<pending, active, submitted, order, passed, performing, cancelled, shutdowning,
                     signalled, wire, message, inbox, peer>>
  BY DEF W!Accept, W!queue, W!perform, W!stop
<1>2. /\ ws = "handshake" /\ submitted = {} /\ events = <<>> /\ inbox = <<>> /\ message = <<>>
      /\ ~cancelled
  BY <1>0, <1>1 DEF Over
<1>3. Queued' /\ Sent' /\ OpenSends' /\ InPlace'
  BY <1>1, <1>2, QueueKept
<1>4. DOMAIN inbox' = {}
  BY <1>1, <1>2
<1>5. CASE events' = events /\ run' = "ended" /\ ws' = "closed"
  <2>1. ~W!Closed' /\ DOMAIN events' = {} /\ Len(events') = 0
    BY <1>2, <1>5 DEF W!Closed
  <2>2. WsTypes'
    BY <1>0, <1>1, <1>5 DEF WsTypes
  <2>3. Called'
    BY <1>1, <1>2, <1>4, <1>5, <2>1 DEF Called
  <2>4. Over'
    BY <1>5 DEF Over
  <2> QED
    BY <1>3, <2>2, <2>3, <2>4 DEF WsIInv
<1>6. CASE events' = <<<<"open", <<>>>>>> /\ run' = "open_handler" /\ ws' = "open"
  <2>1. /\ DOMAIN events' = 1 .. 1 /\ Len(events') = 1 /\ events'[1] = <<"open", <<>>>>
        /\ events' # <<>> /\ events'[1][1] = "open"
    BY <1>6
  <2>2. ~W!Closed'
    BY <2>1 DEF W!Closed, W!Last
  <2>3. events' \in Seq({"open", "message", "close"} \X Seq(0 .. MaxIn))
    <3>1. <<>> \in Seq(0 .. MaxIn)
      BY EmptySeq
    <3>2. <<"open", <<>>>> \in {"open", "message", "close"} \X Seq(0 .. MaxIn)
      BY <3>1
    <3> QED
      BY <1>6, <3>2
  <2>4. WsTypes'
    BY <1>0, <1>1, <1>6, <2>3 DEF WsTypes
  <2>5. \A i \in DOMAIN events' : i = 1
    BY <2>1
  <2>6. Called'
    BY <1>1, <1>2, <1>4, <1>6, <2>1, <2>2, <2>5 DEF Called
  <2>7. Over'
    BY <1>1, <1>2, <1>6, <2>2 DEF Over
  <2> QED
    BY <1>3, <2>4, <2>6, <2>7 DEF WsIInv
<1> QED
  BY <1>1, <1>5, <1>6

\* The end of the wait, and the call of the close handler.
LEMMA WsWait ==
  ASSUME WsIInv, W!Wait
  PROVE  WsIInv'
<1>0. WsTypes /\ Over /\ Called
  BY DEF WsIInv
<1>1. /\ run = "wait" /\ run' = "close_handler" /\ events' = Append(events, <<"close", <<>>>>)
      /\ UNCHANGED <<pending, active, submitted, order, passed, performing, cancelled, shutdowning,
                     signalled, ws, wire, message, inbox, peer>>
  BY DEF W!Wait, W!queue, W!perform, W!stop
<1>2. events # <<>> /\ ~W!Closed /\ ws = "closed" /\ message = <<>>
  BY <1>0, <1>1 DEF Called, Over
<1> DEFINE e == <<"close", <<>>>>
           Es == {"open", "message", "close"} \X Seq(0 .. MaxIn)
<1>3. e \in Es /\ e[1] = "close" /\ events \in Seq(Es) /\ events' = Append(events, e)
  <2>1. <<>> \in Seq(0 .. MaxIn)
    BY EmptySeq
  <2> QED
    BY <1>0, <1>1, <2>1 DEF WsTypes
<1> HIDE DEF e, Es
<1>4. /\ events' \in Seq(Es) /\ Len(events') = Len(events) + 1 /\ Len(events) \in Nat
      /\ DOMAIN events = 1 .. Len(events) /\ DOMAIN events' = 1 .. Len(events) + 1
      /\ \A i \in DOMAIN events : i \in DOMAIN events' /\ events'[i] = events[i]
      /\ events'[Len(events) + 1] = e
      /\ \A i \in DOMAIN events' : i \in DOMAIN events \/ i = Len(events) + 1
  BY <1>3, AppendedFacts
<1>5. Len(events) > 0 /\ events' # <<>>
  BY <1>2, <1>3, <1>4, EmptySeq
<1>6. W!Closed'
  BY <1>3, <1>4, <1>5 DEF W!Closed, W!Last
<1>7. W!Arrived' = W!Arrived
  BY <1>2, <1>4, <1>6 DEF W!Arrived
<1>8. WsTypes'
  BY <1>0, <1>1, <1>4 DEF WsTypes, Es
<1>9. Queued' /\ Sent' /\ OpenSends' /\ InPlace'
  BY <1>1, QueueKept
<1>10. Over'
  BY <1>1, <1>2 DEF Over
<1>11. Called'
  <2>1. ASSUME NEW i \in DOMAIN events'
        PROVE  /\ (events'[i][1] = "open") <=> (i = 1)
               /\ events'[i][1] = "close" => i = Len(events')
               /\ events'[i][1] = "message" => events'[i][2] = <<i - 1>>
    <3>1. CASE i \in DOMAIN events
      <4>1. /\ (events[i][1] = "open") <=> (i = 1)
            /\ events[i][1] = "close" => i = Len(events)
            /\ events[i][1] = "message" => events[i][2] = <<i - 1>>
        BY <1>0, <3>1 DEF Called
      <4>2. events[i][1] # "close"
        BY <1>2, <4>1 DEF W!Closed, W!Last
      <4> QED
        BY <1>4, <3>1, <4>1, <4>2
    <3>2. CASE i = Len(events) + 1
      <4>1. events'[i] = e /\ i = Len(events') /\ i # 1
        BY <1>4, <1>5, <3>2
      <4> QED
        BY <1>3, <4>1
    <3> QED
      BY <1>4, <3>1, <3>2
  <2>2. \A i \in DOMAIN inbox' : inbox'[i] = W!Arrived' + i \/ (inbox'[i] = 0 /\ i = Len(inbox'))
    BY <1>0, <1>1, <1>7 DEF Called
  <2> QED
    BY <1>1, <1>2, <1>6, <2>1, <2>2 DEF Called
<1> QED
  BY <1>8, <1>9, <1>10, <1>11 DEF WsIInv

\* What the peer sends is numbered.
LEMMA WsPeerSends ==
  ASSUME WsIInv, W!PeerSends \/ W!PeerCloses
  PROVE  WsIInv'
<1>0. WsTypes /\ Over /\ Called
  BY DEF WsIInv
<1>1. /\ events # <<>> /\ 0 \notin W!Range(inbox)
      /\ \/ W!Arrived + Len(inbox) < MaxIn /\ inbox' = Append(inbox, W!Arrived + Len(inbox) + 1)
         \/ inbox' = Append(inbox, 0)
      /\ UNCHANGED <<run, pending, active, submitted, order, passed, performing, cancelled,
                     shutdowning, signalled, ws, wire, message, events, peer>>
  BY DEF W!PeerSends, W!PeerCloses, W!queue, W!perform, W!stop
<1>2. W!Arrived \in Nat
  <2>1. /\ Len(events) \in Nat /\ Len(events) > 0 /\ DOMAIN events = 1 .. Len(events)
    BY <1>0, <1>1, EmptySeq, LenProperties DEF WsTypes
  <2>2. events[1][1] = "open"
    BY <1>0, <2>1 DEF Called
  <2>3. W!Closed => Len(events) # 1
    BY <2>2 DEF W!Closed, W!Last
  <2> QED
    BY <2>1, <2>3 DEF W!Arrived
<1> DEFINE x == inbox'[Len(inbox) + 1]
<1>3. /\ inbox \in Seq(0 .. MaxIn) /\ Len(inbox) \in Nat /\ DOMAIN inbox = 1 .. Len(inbox)
      /\ MaxIn \in Nat
  BY <1>0, SessionAssumption, LenProperties DEF WsTypes
<1>4. PICK y \in 0 .. MaxIn : inbox' = Append(inbox, y) /\ (y = 0 \/ y = W!Arrived + Len(inbox) + 1)
  BY <1>1, <1>2, <1>3
<1>5. /\ inbox' \in Seq(0 .. MaxIn) /\ Len(inbox') = Len(inbox) + 1
      /\ \A i \in DOMAIN inbox : i \in DOMAIN inbox' /\ inbox'[i] = inbox[i]
      /\ inbox'[Len(inbox) + 1] = y
      /\ \A i \in DOMAIN inbox' : i \in DOMAIN inbox \/ i = Len(inbox) + 1
  BY <1>3, <1>4, AppendedFacts
<1>6. WsTypes'
  BY <1>0, <1>1, <1>5 DEF WsTypes
<1>7. Queued' /\ Sent' /\ OpenSends' /\ InPlace'
  BY <1>1, QueueKept
<1>8. W!Arrived' = W!Arrived /\ (W!Closed' <=> W!Closed)
  BY <1>1 DEF W!Arrived, W!Closed, W!Last
<1>9. Over'
  BY <1>0, <1>1, <1>8 DEF Over
<1>10. ASSUME NEW i \in DOMAIN inbox'
       PROVE  inbox'[i] = W!Arrived + i \/ (inbox'[i] = 0 /\ i = Len(inbox'))
  <2>1. CASE i \in DOMAIN inbox
    <3>1. inbox[i] # 0
      BY <1>1, <2>1 DEF W!Range
    <3>2. inbox[i] = W!Arrived + i
      BY <1>0, <2>1, <3>1 DEF Called
    <3> QED
      BY <1>5, <2>1, <3>2
  <2>2. CASE i = Len(inbox) + 1
    BY <1>2, <1>3, <1>4, <1>5, <2>2
  <2> QED
    BY <1>5, <2>1, <2>2
<1>11. Called'
  BY <1>0, <1>1, <1>8, <1>10 DEF Called
<1> QED
  BY <1>6, <1>7, <1>9, <1>11 DEF WsIInv

\* Every step of the connection, its users and its peer keeps the invariant.
LEMMA WsStep ==
  ASSUME WsIInv, W!Next
  PROVE  WsIInv'
<1>1. ASSUME NEW a \in Actions, W!Test(a) \/ W!Push(a) \/ W!PushRefused(a) \/ W!Perform(a)
      PROVE  WsIInv'
  BY <1>1, WsPush, WsOther, WsWriteDone, WsActionEnds DEF W!Perform
<1>2. CASE W!Begin \/ W!PerformExit \/ W!Destroy
  BY <1>2, WsBegin, WsOther
<1>3. CASE W!Run
  BY <1>3, WsAccept, WsRuns, WsReadMessage, WsReadFails, WsClear, WsWait DEF W!Run
<1>4. CASE W!PeerSends \/ W!PeerCloses \/ W!PeerLost
  BY <1>4, WsPeerSends, WsOther
<1> QED
  BY <1>1, <1>2, <1>3, <1>4 DEF W!Next, Actions

LEMMA WsUnchanged ==
  ASSUME WsIInv, UNCHANGED wsVars
  PROVE  WsIInv'
<1>1. /\ UNCHANGED <<run, ws, pending, active, submitted, order, passed, performing, shutdowning>>
      /\ UNCHANGED <<cancelled, signalled, message, events, wire, inbox, peer>>
  BY DEF wsVars
<1>2. Queued' /\ Sent' /\ OpenSends' /\ InPlace'
  BY <1>1, QueueKept
<1>3. Called' /\ (W!Closed' <=> W!Closed)
  BY <1>1, CalledKept DEF WsIInv
<1>4. WsTypes' /\ Over'
  BY <1>1, <1>3 DEF WsIInv, WsTypes, Over
<1> QED
  BY <1>2, <1>3, <1>4 DEF WsIInv

\* What the invariant says of the properties.
LEMMA WsProperties ==
  ASSUME WsIInv
  PROVE  W!TypeOK /\ WebsocketInOrder
<1>0. WsTypes /\ InPlace /\ Called
  BY DEF WsIInv
<1>1. W!TypeOK
  <2>1. active \subseteq Frames \cup Closes /\ \A a, b \in active : a = b
    BY <1>0 DEF WsTypes, Actions
  <2>2. W!Range(wire) \subseteq Frames \cup Closes \cup {"close"}
    <3>1. wire \in Seq(Frames \cup Closes \cup {"close"})
      BY <1>0 DEF WsTypes, Actions
    <3> QED
      BY <3>1, LenProperties, ElementOfSeq DEF W!Range
  <2>3. /\ run \in {"accept", "open_handler", "read", "message", "clear", "shutdown", "wait",
                   "close_handler", "ended"}
        /\ ws \in {"handshake", "open", "closing", "closed"} /\ peer \in {"up", "lost"}
        /\ pending \in Seq(Frames \cup Closes)
        /\ submitted \subseteq Frames \cup Closes /\ passed \subseteq Frames \cup Closes
        /\ performing \in BOOLEAN /\ cancelled \in BOOLEAN
        /\ shutdowning \in BOOLEAN /\ signalled \in BOOLEAN
        /\ message \in Seq(1 .. MaxIn) /\ inbox \in Seq(0 .. MaxIn)
    BY <1>0 DEF WsTypes, Actions
  <2> QED
    BY <2>1, <2>2, <2>3, Zenon DEF W!TypeOK
<1>2. W!FramesInOrder
  BY <1>0 DEF InPlace, W!FramesInOrder, W!Before, Precedes
<1>3. W!CloseComesLast
  BY <1>0 DEF InPlace, W!CloseComesLast, W!Before, Precedes, W!Range
<1>4. W!HandlersInOrder
  BY <1>0 DEF Called, W!HandlersInOrder, W!Closed
<1> QED
  BY <1>1, <1>2, <1>3, <1>4 DEF WebsocketInOrder

\* Nothing is sent once the close handler was called.
LEMMA WsSilent ==
  ASSUME WsIInv, W!Next, W!Closed
  PROVE  wire' = wire
<1>1. ws = "closed"
  BY DEF WsIInv, Over
<1>2. ASSUME NEW a, W!Test(a) \/ W!Push(a) \/ W!PushRefused(a) \/ W!Perform(a)
      PROVE  wire' = wire
  BY <1>1, <1>2 DEF W!Test, W!Push, W!PushRefused, W!Perform, W!WriteDone, W!WriteFails, W!CloseDone,
                    W!PerformThrows
<1>3. CASE W!Begin \/ W!PerformExit \/ W!Destroy
  BY <1>1, <1>3 DEF W!Begin, W!PerformExit, W!Destroy
<1>4. CASE W!Run
  BY <1>1, <1>4 DEF W!Run, W!Accept, W!OpenHandlerReturns, W!OpenHandlerThrows, W!MessageHandled,
                    W!ReadMessage, W!ReadFails, W!Clear, W!Shutdown, W!Wait, W!CloseHandlerReturns
<1>5. CASE W!PeerSends \/ W!PeerCloses \/ W!PeerLost
  BY <1>5 DEF W!PeerSends, W!PeerCloses, W!PeerLost
<1> QED
  BY <1>2, <1>3, <1>4, <1>5 DEF W!Next
-----------------------------------------------------------------------------
(* The session *)

\* The inductive invariant: that of each task holds whichever of them runs, the
\* tasks that have not begun are as they begin, and the first is gone when another
\* one runs.
SessionIInv ==
  /\ task \in {"http", "proxy", "websocket"} /\ threads \in 1 .. MaxThreads
  /\ HttpIInv /\ IInv /\ WsIInv
  /\ task # "http" => loop = "closed"
  /\ task # "proxy" => Init
  /\ task # "websocket" => run = "accept"

LEMMA SessionInitIInv == SessionInit => SessionIInv
<1> SUFFICES ASSUME SessionInit PROVE SessionIInv
  OBVIOUS
<1>1. task = "http" /\ threads \in 1 .. MaxThreads /\ H!Init /\ W!Init /\ Init
  BY DEF SessionInit
<1>2. HttpIInv /\ IInv /\ WsIInv
  BY <1>1, HttpInit, InitIInv, WsInit
<1>3. run = "accept"
  BY <1>1 DEF W!Init
<1> QED
  BY <1>1, <1>2, <1>3 DEF SessionIInv

\* A task that does not run stays as it is.
LEMMA ProxyUnchanged ==
  ASSUME IInv, UNCHANGED vars
  PROVE  IInv' /\ (Init => Init')
<1>1. IInv'
  BY StepIInv
<1>2. Init => Init'
  BY DEF Init, Each, vars, peers, transfer
<1> QED
  BY <1>1, <1>2

\* A proxy task begins with the stream and without what was read ahead of it.
LEMMA ProxyStarts == SessionIInv /\ StartProxy => Init'
<1> SUFFICES ASSUME SessionIInv, StartProxy PROVE Init'
  OBVIOUS
<1>1. /\ Init /\ named' \in BOOLEAN /\ ahead' \in 0 .. 1
      /\ sent' = [sent EXCEPT !["client"] = ahead'] /\ taken' = sent'
      /\ UNCHANGED <<pc, socket, ended, at, buffer, received, fin, deaf, aborted>>
  BY DEF SessionIInv, StartProxy
<1>2. sent = [p \in Peers |-> IF p = "client" THEN ahead ELSE 0]
  BY <1>1 DEF Init
<1>3. sent' = [p \in Peers |-> IF p = "client" THEN ahead' ELSE 0]
  BY <1>1, <1>2 DEF Peers
<1> QED
  BY <1>1, <1>3 DEF Init, Each

LEMMA SessionStep ==
  ASSUME SessionIInv, [SessionNext]_sessionVars, StartProxy => IInv'
  PROVE  SessionIInv'
<1>0. HttpIInv /\ IInv /\ WsIInv /\ threads \in 1 .. MaxThreads
  BY DEF SessionIInv
<1>1. CASE InHttp(H!Next)
  <2>1. task = "http" /\ H!Next /\ task' = task /\ threads' = threads /\ UNCHANGED wsVars /\ UNCHANGED vars
    BY <1>1 DEF InHttp
  <2>2. HttpIInv' /\ IInv' /\ WsIInv' /\ (Init => Init')
    BY <1>0, <2>1, HttpStep, ProxyUnchanged, WsUnchanged
  <2>3. run' = run
    BY <2>1 DEF wsVars
  <2> QED
    BY <2>1, <2>2, <2>3 DEF SessionIInv
<1>2. CASE StartProxy
  <2>1. /\ task = "http" /\ task' = "proxy" /\ threads' = threads /\ UNCHANGED wsVars /\ Destroyed
    BY <1>2 DEF StartProxy
  <2>2. HttpIInv' /\ IInv' /\ WsIInv'
    BY <1>0, <1>2, <2>1, HttpDestroyed, WsUnchanged
  <2>3. run' = run /\ loop' = "closed"
    BY <2>1 DEF wsVars, Destroyed
  <2> QED
    BY <2>1, <2>2, <2>3 DEF SessionIInv
<1>3. CASE StartWebsocket
  <2>1. /\ task = "http" /\ task' = "websocket" /\ threads' = threads /\ UNCHANGED wsVars
        /\ UNCHANGED vars /\ Destroyed
    BY <1>3 DEF StartWebsocket
  <2>2. HttpIInv' /\ IInv' /\ WsIInv' /\ (Init => Init')
    BY <1>0, <2>1, HttpDestroyed, ProxyUnchanged, WsUnchanged
  <2>3. loop' = "closed"
    BY <2>1 DEF Destroyed
  <2> QED
    BY <2>1, <2>2, <2>3 DEF SessionIInv
<1>4. CASE InProxy(Next)
  <2>1. /\ task = "proxy" /\ Next /\ task' = task /\ threads' = threads /\ UNCHANGED httpVars
        /\ UNCHANGED wsVars
    BY <1>4 DEF InProxy
  <2>2. HttpIInv' /\ IInv' /\ WsIInv'
    BY <1>0, <2>1, HttpUnchanged, StepIInv, WsUnchanged
  <2>3. run' = run /\ loop' = loop
    BY <2>1 DEF wsVars, httpVars
  <2> QED
    BY <2>1, <2>2, <2>3 DEF SessionIInv
<1>5. CASE InWs(W!Next)
  <2>1. /\ task = "websocket" /\ W!Next /\ task' = task /\ threads' = threads /\ UNCHANGED httpVars
        /\ UNCHANGED vars
    BY <1>5 DEF InWs
  <2>2. HttpIInv' /\ IInv' /\ WsIInv' /\ (Init => Init')
    BY <1>0, <2>1, HttpUnchanged, ProxyUnchanged, WsStep
  <2>3. loop' = loop
    BY <2>1 DEF httpVars
  <2> QED
    BY <2>1, <2>2, <2>3 DEF SessionIInv
<1>6. CASE UNCHANGED sessionVars
  <2>1. task' = task /\ threads' = threads /\ UNCHANGED httpVars /\ UNCHANGED wsVars /\ UNCHANGED vars
    BY <1>6 DEF sessionVars
  <2>2. HttpIInv' /\ IInv' /\ WsIInv' /\ (Init => Init')
    BY <1>0, <2>1, HttpUnchanged, ProxyUnchanged, WsUnchanged
  <2>3. run' = run /\ loop' = loop
    BY <2>1 DEF wsVars, httpVars
  <2> QED
    BY <2>1, <2>2, <2>3 DEF SessionIInv
<1> QED
  BY <1>1, <1>2, <1>3, <1>4, <1>5, <1>6 DEF SessionNext

LEMMA SessionInvariance == SessionSpec => []SessionIInv
<1>1. SessionIInv /\ StartProxy => IInv'
  BY ProxyStarts, InitIInv, PTL
<1>2. SessionIInv /\ [SessionNext]_sessionVars => SessionIInv'
  BY <1>1, SessionStep
<1> QED
  BY SessionInitIInv, <1>2, PTL DEF SessionSpec
-----------------------------------------------------------------------------
(* Theorems *)

\* A session keeps to the states of its variables and to one task at a time: a
\* task that is not task_ is as it begins or as it was destroyed.
THEOREM SessionTypeCorrect == SessionSpec => []SessionTypeOK
<1>1. SessionIInv => SessionTypeOK
  <2> SUFFICES ASSUME SessionIInv PROVE SessionTypeOK
    OBVIOUS
  <2>1. HttpIInv /\ IInv /\ WsIInv
    BY DEF SessionIInv
  <2>2. H!TypeOK /\ TypeOK /\ W!TypeOK
    BY <2>1, HttpProperties, TypesFollow, WsProperties
  <2>3. task # "proxy" => pc = "start" /\ socket["target"] = "none"
    BY DEF SessionIInv, Init, Peers
  <2>4. task # "websocket" => run = "accept" /\ submitted = {}
    BY <2>1 DEF SessionIInv, WsIInv, Over
  <2> QED
    BY <2>2, <2>3, <2>4 DEF SessionIInv, SessionTypeOK
<1> QED
  BY <1>1, SessionInvariance, PTL

\* Where the request loop looks for a header there is one, for any number of
\* pipelined requests and bodies of any length, unless pre_routing threw or a
\* stream handler met pipelined input.
THEOREM LoopInStep == SessionSpec => []InStep
<1>1. SessionIInv => InStep
  BY HttpProperties DEF SessionIInv
<1> QED
  BY <1>1, SessionInvariance, PTL

\* Requests are answered in the order in which they were sent, each once and none
\* left out, and "100 Continue" precedes the answer.
THEOREM RequestsAnsweredInOrder == SessionSpec => []AnsweredInOrder
<1>1. SessionIInv => AnsweredInOrder
  BY DEF SessionIInv, HttpIInv
<1> QED
  BY <1>1, SessionInvariance, PTL

\* A proxied connection of a session relays in order, and passes the end of one
\* peer on only behind all that it has sent.
THEOREM SessionRelays == SessionSpec => [](InOrder /\ EndMeansAll)
<1>1. SessionIInv => InOrder /\ EndMeansAll
  BY OrderFollows, EndFollows DEF SessionIInv
<1> QED
  BY <1>1, SessionInvariance, PTL

\* The frames of a websocket connection go out in the order of the calls, all of
\* those before a close() precede its close frame, and the handlers are called in
\* their order, on any number of threads.
THEOREM WebsocketKeepsOrder == SessionSpec => []WebsocketInOrder
<1>1. SessionIInv => WebsocketInOrder
  BY WsProperties DEF SessionIInv
<1> QED
  BY <1>1, SessionInvariance, PTL

\* Once the close handler was called nothing is sent any more.
THEOREM SilentAfterClose == SessionSpec => NothingSentAfterClose
<1>1. SessionIInv /\ [SessionNext]_sessionVars => [W!Closed => wire' = wire]_sessionVars
  <2> SUFFICES ASSUME SessionIInv, SessionNext, W!Closed PROVE wire' = wire
    OBVIOUS
  <2>1. CASE InWs(W!Next)
    BY <2>1, WsSilent DEF InWs, SessionIInv
  <2>2. CASE UNCHANGED wsVars
    BY <2>2 DEF wsVars
  <2> QED
    BY <2>1, <2>2 DEF SessionNext, InHttp, InProxy, StartProxy, StartWebsocket
<1> QED
  BY <1>1, SessionInvariance, PTL DEF SessionSpec, NothingSentAfterClose
=============================================================================
