---------------------------- MODULE ClientsProofs ----------------------------
(* Proofs about the clients: what the http client takes as the answer to a    *)
(* request, what close() stops, and the order of a websocket client's frames  *)
(* and handlers, for every number of calls and pieces of a body, and every    *)
(* set of frames and number of messages.                                      *)
EXTENDS Clients, SequenceFacts
-----------------------------------------------------------------------------
(* The http client: its inductive invariant *)

\* The states in which an attempt makes its connection, and those before it has
\* read a header.
Opening == {"start", "resolve", "resolved", "connect"}
Before  == Opening \cup {"write", "header"}

\* What a request that is going on has not yet, and what it has made.
Phase ==
  /\ pc # "idle" => result = "none"
  /\ pc # "failed" => ec = "none"
  /\ pc \in Opening => fresh

\* SentAtMostTwice, and that the request of this attempt is still to be sent.
Limited ==
  /\ sends <= (IF retry THEN 1 ELSE 2)
  /\ pc \in Opening \cup {"write"} => sends <= (IF retry THEN 0 ELSE 1)

\* After a close() that holds, nothing opens a connection.
Halted ==
  H!Sticky => /\ stream # "open" /\ pc \notin {"start", "resolve", "resolved"}
              /\ ~(pc = "failed" /\ ec \in H!Retried /\ retry)

\* All pieces of s are of attempts up to n.
UpTo(s, n) == \A i \in DOMAIN s : s[i].of <= n

\* Nothing is of an attempt to come, and the chunk handler has been given nothing
\* of one whose header is not read.
Ages ==
  /\ UpTo(buffer, attempt) /\ UpTo(wire, attempt) /\ UpTo(todo, attempt) /\ UpTo(chunks, attempt)
  /\ pc \in Before => UpTo(chunks, attempt - 1) /\ (retry => chunks = <<>>)

\* What an attempt finds first is of an earlier one.
Foreign ==
  IF buffer # <<>> THEN buffer[1].of < attempt
  ELSE /\ ~fresh
       /\ IF wire # <<>> THEN wire[1].of < attempt
          ELSE IF todo # <<>> THEN todo[1].of < attempt ELSE peer # "alive"

Behind ==
  stale => /\ pc \in Before => Foreign
           /\ pc = "body" => ~own
           /\ result # "own"

\* x is piece j of the answer to this attempt, whose chunk has b pieces.
IsPiece(x, j, b) ==
  /\ x.of = attempt
  /\ j = 1 => x.kind = "start"
  /\ j = 2 => x.kind \in H!HeaderEnds
  /\ 2 < j => method = "get" /\ j <= b + 3
  /\ 2 < j /\ j < b + 3 => x.kind = (IF j = 3 THEN "first" ELSE "more") /\ x.remain = b + 3 - j
  /\ j = b + 3 => x.kind = "end"

\* What is in buffer_, on its way or still to be sent are the pieces after p.
Follows(p, b) ==
  /\ \A i \in DOMAIN buffer : IsPiece(buffer[i], p + i, b)
  /\ \A i \in DOMAIN wire : IsPiece(wire[i], p + Len(buffer) + i, b)
  /\ \A i \in DOMAIN todo : IsPiece(todo[i], p + Len(buffer) + Len(wire) + i, b)

\* The chunk handler was given the first m pieces of the chunk, after what it was
\* given of an attempt that failed.
Handed(b, m) ==
  \E q \in 0 .. Len(chunks) :
    /\ Len(chunks) = q + m /\ (retry => q = 0)
    /\ \A i \in 1 .. q : chunks[i].of # attempt
    /\ \A i \in 1 .. m : IsPiece(chunks[q + i], i + 2, b)

\* The parser is behind piece p of the answer.
Parsed(p, b) ==
  /\ Follows(p, b) /\ Handed(b, IF handler THEN p - 2 ELSE 0)
  /\ need = IF handler \/ p = 2 THEN 0 ELSE b + 2 - p

\* An attempt that began with nothing of an earlier answer.
Clean ==
  ~stale =>
    /\ pc \in Opening => buffer = <<>>
    /\ pc = "write" => buffer = <<>> /\ wire = <<>> /\ todo = <<>>
    /\ pc = "header" => \E b \in 0 .. MaxBody : Follows(0, b)
    /\ pc = "body" => own /\ \E b \in 0 .. MaxBody : \E p \in 2 .. b + 2 : Parsed(p, b)
    /\ \E b \in 0 .. MaxBody : \E m \in 0 .. b :
         /\ Handed(b, m)
         /\ result = "own" => m \in {0, b}
         /\ ec = "bad" => 0 < m /\ m < b
    /\ result # "foreign" /\ (result = "own" => buffer = <<>>)

HttpIInv == H!TypeOK /\ Phase /\ Limited /\ Halted /\ Ages /\ Behind /\ Clean
-----------------------------------------------------------------------------
\* The fields of a piece.
LEMMA PieceFacts ==
  ASSUME NEW a \in Nat, NEW k \in H!Kinds, NEW r \in 0 .. MaxBody
  PROVE  /\ H!Piece(a, k, r) \in H!Pieces
         /\ H!Piece(a, k, r).of = a /\ H!Piece(a, k, r).kind = k /\ H!Piece(a, k, r).remain = r
  BY DEF H!Piece, H!Pieces

\* The answer to a request is laid out piece by piece.
LEMMA AnswerFacts ==
  ASSUME H!TypeOK, NEW b \in 0 .. MaxBody, NEW k \in BOOLEAN
  PROVE  /\ H!Answer(b, k) \in Seq(H!Pieces)
         /\ \A i \in DOMAIN H!Answer(b, k) : IsPiece(H!Answer(b, k)[i], i, b)
         /\ UpTo(H!Answer(b, k), attempt)
<1>0. attempt \in Nat /\ method \in {"get", "head"} /\ MaxBody \in Nat /\ b \in Nat
  BY ClientsAssumption DEF H!TypeOK
<1> DEFINE body == [i \in 1 .. b |-> H!Piece(attempt, IF i = 1 THEN "first" ELSE "more", b + 1 - i)]
           start == H!Piece(attempt, "start", 0)
           header == H!Piece(attempt, IF k THEN "header" ELSE "header_close", 0)
           last == H!Piece(attempt, "end", 0)
           head == <<start, header>>
<1>1. /\ {"start", "header", "header_close", "end", "first", "more"} \subseteq H!Kinds
      /\ 0 \in 0 .. MaxBody
      /\ {"header", "header_close"} = H!HeaderEnds
  BY <1>0 DEF H!Kinds, H!HeaderEnds
<1>2. /\ start \in H!Pieces /\ start.of = attempt /\ start.kind = "start"
      /\ header \in H!Pieces /\ header.of = attempt /\ header.kind \in H!HeaderEnds
      /\ last \in H!Pieces /\ last.of = attempt /\ last.kind = "end"
  <2>1. (IF k THEN "header" ELSE "header_close") \in H!Kinds \cap H!HeaderEnds
    BY <1>1
  <2> QED
    BY <1>0, <1>1, <2>1, PieceFacts
<1>3. ASSUME NEW i \in 1 .. b
      PROVE  /\ body[i] \in H!Pieces /\ body[i].of = attempt /\ body[i].remain = b + 1 - i
             /\ body[i].kind = IF i = 1 THEN "first" ELSE "more"
  <2>1. b + 1 - i \in 0 .. MaxBody
    BY <1>0
  <2>2. (IF i = 1 THEN "first" ELSE "more") \in H!Kinds
    BY <1>1
  <2> QED
    BY <1>0, <2>1, <2>2, PieceFacts
<1>4. H!Answer(b, k) = IF method = "head" THEN head ELSE (head \o body) \o <<last>>
  BY DEF H!Answer
<1> HIDE DEF body, start, header, last
<1>5. /\ head \in Seq(H!Pieces) /\ Len(head) = 2 /\ DOMAIN head = 1 .. 2
      /\ head[1] = start /\ head[2] = header
  BY <1>2
<1>6. IsPiece(head[1], 1, b) /\ IsPiece(head[2], 2, b)
  BY <1>0, <1>2, <1>5 DEF IsPiece
<1>7. CASE method = "head"
  <2>1. H!Answer(b, k) = head
    BY <1>4, <1>7
  <2>2. \A i \in DOMAIN head : i = 1 \/ i = 2
    BY <1>5
  <2>3. UpTo(head, attempt)
    BY <1>0, <1>2, <1>5, <2>2 DEF UpTo
  <2> QED
    BY <1>5, <1>6, <2>1, <2>2, <2>3
<1>8. CASE method = "get"
  <2> DEFINE front == head \o body
             all == front \o <<last>>
  <2>1. /\ body \in Seq(H!Pieces) /\ Len(body) = b
    <3>1. body \in [1 .. b -> H!Pieces]
      BY <1>3 DEF body
    <3> QED
      BY <1>0, <3>1
  <2>2. /\ front \in Seq(H!Pieces) /\ Len(front) = b + 2
        /\ \A i \in 1 .. b + 2 : front[i] = IF i <= 2 THEN head[i] ELSE body[i - 2]
    <3> HIDE DEF head
    <3>1. /\ front \in Seq(H!Pieces) /\ Len(front) = Len(head) + Len(body)
          /\ \A i \in 1 .. Len(head) + Len(body) :
               front[i] = IF i <= Len(head) THEN head[i] ELSE body[i - Len(head)]
      BY <1>5, <2>1, ConcatProperties
    <3>2. Len(head) = 2 /\ Len(head) + Len(body) = b + 2
      BY <1>0, <1>5, <2>1
    <3> QED
      BY <3>1, <3>2
  <2> HIDE DEF front, head
  <2>3. <<last>> \in Seq(H!Pieces) /\ Len(<<last>>) = 1 /\ <<last>>[1] = last
    BY <1>2
  <2>4. /\ all \in Seq(H!Pieces) /\ Len(all) = b + 3 /\ DOMAIN all = 1 .. b + 3
        /\ \A i \in 1 .. b + 3 : all[i] = IF i <= b + 2 THEN front[i] ELSE <<last>>[i - (b + 2)]
    <3>1. /\ all \in Seq(H!Pieces) /\ Len(all) = Len(front) + Len(<<last>>)
          /\ \A i \in 1 .. Len(front) + Len(<<last>>) :
               all[i] = IF i <= Len(front) THEN front[i] ELSE <<last>>[i - Len(front)]
      BY <2>2, <2>3, ConcatProperties
    <3>2. Len(front) = b + 2 /\ Len(front) + Len(<<last>>) = b + 3
      BY <1>0, <2>2, <2>3
    <3>3. DOMAIN all = 1 .. Len(all)
      BY <3>1, LenProperties
    <3> QED
      BY <3>1, <3>2, <3>3
  <2> HIDE DEF all
  <2>5. ASSUME NEW i \in 1 .. b + 3 PROVE IsPiece(all[i], i, b) /\ all[i].of = attempt
    <3>1. CASE i <= 2
      <4>1. i <= b + 2 /\ i \in 1 .. b + 2 /\ (i = 1 \/ i = 2)
        BY <1>0, <3>1
      <4>2. all[i] = head[i]
        BY <2>2, <2>4, <3>1, <4>1
      <4> QED
        BY <1>6, <4>1, <4>2 DEF IsPiece
    <3>2. CASE 2 < i /\ i < b + 3
      <4>1. i <= b + 2 /\ i \in 1 .. b + 2 /\ ~(i <= 2) /\ i - 2 \in 1 .. b
            /\ b + 1 - (i - 2) = b + 3 - i /\ ((i - 2 = 1) <=> (i = 3))
        BY <1>0, <3>2
      <4>2. all[i] = body[i - 2]
        BY <2>2, <2>4, <4>1
      <4>3. /\ all[i].of = attempt /\ all[i].remain = b + 3 - i
            /\ all[i].kind = IF i = 3 THEN "first" ELSE "more"
        BY <1>3, <4>1, <4>2
      <4>4. i # 1 /\ i # 2 /\ i # b + 3 /\ i <= b + 3
        BY <1>0, <3>2
      <4> QED
        BY <1>8, <4>3, <4>4 DEF IsPiece
    <3>3. CASE i = b + 3
      <4>1. ~(i <= b + 2) /\ i - (b + 2) = 1 /\ i # 1 /\ i # 2 /\ 2 < i /\ i <= b + 3 /\ ~(i < b + 3)
        BY <1>0, <3>3
      <4>2. all[i] = last
        BY <2>3, <2>4, <4>1
      <4> QED
        BY <1>2, <1>8, <4>1, <4>2 DEF IsPiece
    <3>4. i <= 2 \/ (2 < i /\ i < b + 3) \/ i = b + 3
      BY <1>0
    <3> QED
      BY <3>1, <3>2, <3>3, <3>4, Zenon
  <2>6. H!Answer(b, k) = all
    BY <1>4, <1>8 DEF all, front
  <2>7. UpTo(all, attempt)
    BY <1>0, <2>4, <2>5 DEF UpTo
  <2> QED
    BY <2>4, <2>5, <2>6, <2>7
<1> QED
  BY <1>0, <1>7, <1>8
-----------------------------------------------------------------------------
\* A handler that was given nothing of this attempt.
LEMMA NothingHanded ==
  ASSUME chunks \in Seq(H!Pieces), \A i \in DOMAIN chunks : chunks[i].of # attempt,
         retry => chunks = <<>>, NEW b
  PROVE  Handed(b, 0)
<1>1. Len(chunks) \in Nat /\ DOMAIN chunks = 1 .. Len(chunks) /\ (chunks = <<>> => Len(chunks) = 0)
  BY LenProperties
<1>2. Len(chunks) \in 0 .. Len(chunks) /\ Len(chunks) = Len(chunks) + 0 /\ 1 .. 0 = {}
  BY <1>1
<1> QED
  BY <1>1, <1>2 DEF Handed

\* A deadline is set or not.
LEMMA ArmFacts ==
  ASSUME H!TypeOK, NEW f \in BOOLEAN
  PROVE  H!Arm(f) \in BOOLEAN
<1>1. armed \in BOOLEAN /\ policy \in {"step", "overall", "never"}
  BY ClientsAssumption DEF H!TypeOK
<1>2. (f \/ armed) \in BOOLEAN
  BY <1>1
<1> QED
  BY <1>1, <1>2 DEF H!Arm

\* The http client begins in its invariant.
LEMMA HttpInit == H!Init => HttpIInv
<1> SUFFICES ASSUME H!Init PROVE HttpIInv
  OBVIOUS
<1>0. /\ policy \in Policies /\ literal \in BOOLEAN /\ handler = FALSE /\ calls = 0
      /\ method = "get" /\ pc = "idle" /\ ec = "none" /\ retry = TRUE /\ attempt = 0
      /\ fresh = FALSE /\ stale = FALSE /\ stream = "none" /\ armed = FALSE /\ buffer = <<>>
      /\ keep = TRUE /\ own = TRUE /\ need = 0 /\ chunks = <<>> /\ sends = 0
      /\ closedAt = "none" /\ result = "none" /\ peer = "alive" /\ todo = <<>> /\ wire = <<>>
  BY DEF H!Init
<1>1. <<>> \in Seq(H!Pieces) /\ DOMAIN <<>> = {}
  BY EmptySeq
<1>2. 0 \in 0 .. MaxCalls /\ 0 \in 0 .. MaxBody /\ 0 \in 0 .. 0 /\ 0 \in Nat
  BY ClientsAssumption
<1>3. H!TypeOK
  BY <1>0, <1>1, <1>2 DEF H!TypeOK
<1>4. Phase /\ Halted
  BY <1>0 DEF Phase, Halted, Opening, H!Sticky
<1>5. Limited
  BY <1>0 DEF Limited, Opening
<1>6. Ages
  BY <1>0, <1>1 DEF Ages, UpTo, Before, Opening
<1>7. Behind
  BY <1>0 DEF Behind
<1>8. Handed(0, 0)
  BY <1>0, <1>1, NothingHanded
<1>9. Clean
  BY <1>0, <1>2, <1>8 DEF Clean, Opening
<1> QED
  BY <1>3, <1>4, <1>5, <1>6, <1>7, <1>9 DEF HttpIInv

\* What was read and what is to be read do not notice a step that leaves them alone
\* and goes no further in the answer.
LEMMA HttpKept ==
  ASSUME HttpIInv,
         UNCHANGED <<handler, method, retry, attempt, fresh, stale, buffer, own, need, chunks, result,
                     peer, todo, wire>>,
         ec' = "bad" => ec = "bad", pc' \in Opening => pc \in Opening,
         pc' \in {"write", "header", "body"} => pc' = pc
  PROVE  Ages' /\ Behind' /\ Clean'
<1>0. Ages /\ Behind /\ Clean
  BY DEF HttpIInv
<1>1. pc' \in Before => pc \in Before
  BY DEF Before, Opening
<1>2. Ages'
  BY <1>0, <1>1 DEF Ages, UpTo
<1>3. Behind'
  BY <1>0, <1>1 DEF Behind, Foreign
<1>4. \A b, p : (Follows(p, b)' <=> Follows(p, b)) /\ (Handed(b, p)' <=> Handed(b, p))
  BY DEF Follows, Handed, IsPiece
<1>5. \A b, p : Parsed(p, b)' <=> Parsed(p, b)
  BY <1>4 DEF Parsed
<1>6. Clean'
  BY <1>0, <1>4, <1>5 DEF Clean
<1> QED
  BY <1>2, <1>3, <1>6

\* close(), the connection until it is made, and an operation that fails.
LEMMA HttpQuiet ==
  ASSUME HttpIInv,
         \/ H!Close \/ H!CloseSocket \/ H!CloseIdle \/ H!NewStream \/ H!Resolve \/ H!StartConnect
         \/ \E e \in {"refused", "reset"} : H!ConnectFails(e)
         \/ \E e \in {"reset", "broken_pipe"} : H!WriteFails(e)
         \/ H!ReadEof \/ H!ReadReset \/ H!ShutdownEnds \/ H!Aborted \/ H!Timeout
  PROVE  HttpIInv'
<1>0. H!TypeOK /\ Phase /\ Limited /\ Halted
  BY DEF HttpIInv
<1>1. /\ UNCHANGED <<policy, literal, handler, calls, method, retry, attempt, fresh, stale, buffer,
                     keep, own, need, chunks, sends, result, peer, todo, wire>>
  BY DEF H!Close, H!CloseSocket, H!CloseIdle, H!NewStream, H!Resolve, H!StartConnect,
         H!ConnectFails, H!WriteFails, H!ReadEof, H!ReadReset, H!ShutdownEnds, H!ShutError,
         H!Aborted, H!Timeout, H!config, H!call, H!try, H!parser, H!seen, H!server
<1> DEFINE New == {"not_found", "refused", "reset", "broken_pipe", "end_of_stream",
                   "partial_message", "aborted", "timeout"}
<1>2. /\ stream' \in {"none", "open", "shut", "closed"} /\ armed' \in BOOLEAN
      /\ stream' = "open" => stream = "open" \/ pc = "resolved"
  <2>1. /\ H!Shut \in {"none", "closed"} /\ H!Arm(TRUE) \in BOOLEAN
    BY <1>0, ClientsAssumption DEF H!Shut, H!Arm, H!TypeOK
  <2> QED
    BY <1>0, <2>1 DEF H!Close, H!CloseSocket, H!CloseIdle, H!NewStream, H!Resolve,
         H!StartConnect, H!ConnectFails, H!WriteFails, H!ReadEof, H!ReadReset, H!ShutdownEnds,
         H!Aborted, H!Timeout, H!TypeOK
<1>3. \/ pc' = pc /\ ec' = ec
      \/ pc \in Opening /\ pc' \in Opening /\ ec' = ec
      \/ pc' = "failed" /\ ec' \in New /\ pc # "idle" /\ (pc = "failed" => ec' = ec)
  BY <1>0 DEF H!Close, H!CloseSocket, H!CloseIdle, H!NewStream, H!Resolve, H!StartConnect,
         H!ConnectFails, H!WriteFails, H!ReadEof, H!ReadReset, H!ShutdownEnds, H!ShutError,
         H!Aborted, H!Timeout, H!Fail, H!Waits, Opening
<1>4. H!TypeOK'
  BY <1>0, <1>1, <1>2, <1>3 DEF H!TypeOK, Opening
<1>5. Phase'
  BY <1>0, <1>1, <1>3 DEF Phase, Opening
<1>6. Limited'
  BY <1>0, <1>1, <1>3 DEF Limited, Opening
<1>7. Halted'
  <2>1. CASE H!Close
    BY <1>0, <2>1 DEF H!Close, H!Fail, Halted, H!Sticky, H!Shut, H!Retried, H!TypeOK
  <2>2. CASE H!CloseIdle
    BY <1>0, <2>2 DEF H!CloseIdle, H!seen, Halted, H!Sticky, H!Shut
  <2>3. CASE H!CloseSocket
    BY <1>0, <2>3 DEF H!CloseSocket, H!seen, H!try, Halted, H!Sticky
  <2>4. CASE H!ShutdownEnds
    <3>1. /\ pc' = "failed" /\ ec' = H!ShutError /\ UNCHANGED <<retry, stream>> /\ stream = "shut"
          /\ closedAt' = IF H!ShutError \in H!Retried /\ retry THEN "window" ELSE closedAt
      BY <2>4 DEF H!ShutdownEnds, H!Fail, H!try
    <3> QED
      BY <3>1 DEF Halted, H!Sticky
  <2>5. CASE ~H!Close /\ ~H!CloseIdle /\ ~H!CloseSocket /\ ~H!ShutdownEnds
    <3>1. closedAt' = closedAt
      BY <2>5 DEF H!NewStream, H!Resolve, H!StartConnect, H!ConnectFails,
           H!WriteFails, H!ReadEof, H!ReadReset, H!Aborted, H!Timeout, H!seen
    <3>2. CASE ~H!Sticky
      BY <3>1, <3>2 DEF Halted, H!Sticky
    <3>3. CASE H!Sticky
      <4>1. stream # "open" /\ pc \notin {"start", "resolve", "resolved"}
        BY <1>0, <3>3 DEF Halted
      <4>2. H!Aborted
        BY <2>5, <4>1 DEF H!NewStream, H!Resolve, H!StartConnect, H!ConnectFails, H!WriteFails,
             H!ReadEof, H!ReadReset, H!Timeout
      <4> QED
        BY <4>1, <4>2 DEF H!Aborted, H!Fail, Halted, H!Retried
    <3> QED
      BY <3>2, <3>3
  <2> QED
    BY <2>1, <2>2, <2>3, <2>4, <2>5
<1>8. Ages' /\ Behind' /\ Clean'
  <2>1. /\ ec' = "bad" => ec = "bad"
        /\ pc' \in Opening => pc \in Opening
        /\ pc' \in {"write", "header", "body"} => pc' = pc
    BY <1>3 DEF Opening
  <2> QED
    BY <1>1, <2>1, HttpKept
<1> QED
  BY <1>4, <1>5, <1>6, <1>7, <1>8 DEF HttpIInv

\* A chunk handler is set or removed between two requests.
LEMMA HttpSetsHandler ==
  ASSUME HttpIInv, NEW h \in BOOLEAN, H!SetChunkHandler(h)
  PROVE  HttpIInv'
<1>0. H!TypeOK /\ Phase /\ Limited /\ Halted /\ Ages /\ Behind /\ Clean
  BY DEF HttpIInv
<1>1. /\ pc = "idle" /\ handler' = h
      /\ UNCHANGED <<policy, literal, calls, method, pc, ec, retry, attempt, fresh, stale, stream,
                     armed, buffer, keep, own, need, chunks, sends, closedAt, result, peer, todo,
                     wire>>
  BY DEF H!SetChunkHandler, H!config, H!call, H!try, H!parser, H!seen, H!server
<1>2. H!TypeOK' /\ Phase' /\ Limited' /\ Halted'
  BY <1>0, <1>1 DEF H!TypeOK, Phase, Limited, Halted, H!Sticky
<1>3. Ages' /\ Behind'
  BY <1>0, <1>1 DEF Ages, UpTo, Behind, Foreign
<1>4. \A b, p : Handed(b, p)' <=> Handed(b, p)
  BY <1>1 DEF Handed, IsPiece
<1>5. Clean'
  BY <1>0, <1>1, <1>4 DEF Clean, Opening
<1> QED
  BY <1>2, <1>3, <1>5 DEF HttpIInv

\* A new connection carries nothing.
LEMMA HttpConnects ==
  ASSUME HttpIInv, H!Connected
  PROVE  HttpIInv'
<1>0. H!TypeOK /\ Phase /\ Limited /\ Halted /\ Ages /\ Behind /\ Clean
  BY DEF HttpIInv
<1>a. armed' \in BOOLEAN
  <2>1. armed' = H!Arm(FALSE)
    BY DEF H!Connected
  <2>2. H!Arm(FALSE) \in BOOLEAN
    BY <1>0, ArmFacts
  <2> QED
    BY <2>1, <2>2, Zenon
<1>1. /\ pc = "connect" /\ stream = "open" /\ pc' = "write"
      /\ peer' = "alive" /\ todo' = <<>> /\ wire' = <<>>
      /\ UNCHANGED <<policy, literal, handler, calls, method, ec, retry, attempt, fresh, stale,
                     stream, buffer, keep, own, need, chunks, sends, closedAt, result>>
  BY DEF H!Connected, H!config, H!call, H!try, H!parser, H!seen
<1>2. todo' \in Seq(H!Pieces) /\ wire' \in Seq(H!Pieces) /\ DOMAIN <<>> = {} /\ armed' \in BOOLEAN
  BY <1>1, <1>a, EmptySeq
<1>3. H!TypeOK'
  BY <1>0, <1>1, <1>2 DEF H!TypeOK
<1>4. Phase' /\ Limited' /\ Halted'
  BY <1>0, <1>1 DEF Phase, Limited, Halted, H!Sticky, Opening
<1>5. Ages'
  BY <1>0, <1>1, <1>2 DEF Ages, UpTo, Before, Opening
<1>6. Behind'
  BY <1>0, <1>1 DEF Behind, Foreign, Phase, Before, Opening
<1>7. \A b, p : Handed(b, p)' <=> Handed(b, p)
  BY <1>1 DEF Handed, IsPiece
<1>8. Clean'
  BY <1>0, <1>1, <1>7 DEF Clean, Opening
<1> QED
  BY <1>3, <1>4, <1>5, <1>6, <1>8 DEF HttpIInv

\* A request begins: what is found in buffer_ or on the connection is of an
\* earlier attempt.
LEMMA HttpBegins ==
  ASSUME HttpIInv, NEW m \in {"get", "head"}, H!Call(m)
  PROVE  HttpIInv'
<1>0. H!TypeOK /\ Phase /\ Ages
  BY DEF HttpIInv
<1>a. armed' \in BOOLEAN
  <2>1. armed' = H!Arm(FALSE) \/ armed' = armed
    BY DEF H!Call
  <2>2. H!Arm(FALSE) \in BOOLEAN
    BY <1>0, ArmFacts
  <2>3. armed \in BOOLEAN
    BY <1>0 DEF H!TypeOK
  <2> QED
    BY <2>1, <2>2, <2>3, Zenon
<1>1. /\ pc = "idle" /\ calls < MaxCalls /\ calls' = calls + 1 /\ method' = m /\ retry' = TRUE
      /\ attempt' = attempt + 1 /\ fresh' = (stream # "open")
      /\ stale' = (buffer # <<>> \/ (~fresh' /\ wire \o todo # <<>>))
      /\ pc' = (IF stream = "open" THEN "write" ELSE "start")
      /\ chunks' = <<>> /\ sends' = 0 /\ closedAt' = "none" /\ result' = "none"
      /\ UNCHANGED <<policy, literal, handler, ec, stream, buffer, keep, own, need, peer, todo, wire>>
  BY DEF H!Call, H!Enter, H!config, H!parser, H!server
<1>2. chunks' \in Seq(H!Pieces) /\ DOMAIN <<>> = {} /\ Len(<<>>) = 0 /\ armed' \in BOOLEAN
  BY <1>1, <1>a, EmptySeq
<1>3. attempt \in Nat /\ attempt' \in Nat /\ calls' \in 0 .. MaxCalls
  BY <1>0, <1>1, ClientsAssumption DEF H!TypeOK
<1>4. buffer \in Seq(H!Pieces) /\ wire \in Seq(H!Pieces) /\ todo \in Seq(H!Pieces)
  BY <1>0 DEF H!TypeOK
<1>5. H!TypeOK'
  <2>1. fresh' \in BOOLEAN /\ stale' \in BOOLEAN /\ armed' \in BOOLEAN /\ pc' \in {"write", "start"}
    BY <1>1, <1>2
  <2> QED
    BY <1>0, <1>1, <1>2, <1>3, <2>1 DEF H!TypeOK
<1>6. Phase' /\ Halted'
  BY <1>0, <1>1 DEF Phase, Halted, H!Sticky, Opening
<1>7. Limited'
  BY <1>1 DEF Limited
<1>8. ASSUME NEW x \in H!Pieces, x.of <= attempt PROVE x.of <= attempt' /\ x.of < attempt'
  <2>1. x.of \in Nat
    BY DEF H!Pieces
  <2> QED
    BY <1>1, <1>3, <1>8, <2>1
<1>9. ASSUME NEW s \in Seq(H!Pieces), UpTo(s, attempt)
      PROVE  UpTo(s, attempt') /\ (s # <<>> => s[1].of < attempt')
  <2>1. \A i \in DOMAIN s : s[i] \in H!Pieces /\ s[i].of <= attempt
    BY <1>9 DEF UpTo
  <2>2. s # <<>> => 1 \in DOMAIN s
    BY EmptySeq, LenProperties
  <2> QED
    BY <1>8, <2>1, <2>2 DEF UpTo
<1>10. Ages'
  <2>1. UpTo(buffer, attempt') /\ UpTo(wire, attempt') /\ UpTo(todo, attempt')
    BY <1>0, <1>4, <1>9 DEF Ages
  <2>2. chunks' = <<>> /\ UpTo(<<>>, attempt') /\ UpTo(<<>>, attempt' - 1)
    BY <1>1, <1>2 DEF UpTo
  <2> QED
    BY <1>1, <2>1, <2>2 DEF Ages, UpTo
<1>11. (wire \o todo # <<>>) <=> (wire # <<>> \/ todo # <<>>)
  BY <1>4, ConcatEmptySeq, ConcatProperties, EmptySeq
<1>12. Behind'
  <2>1. ASSUME stale' PROVE Foreign'
    <3>1. CASE buffer # <<>>
      BY <1>0, <1>1, <1>4, <1>9, <3>1 DEF Foreign, Ages
    <3>2. CASE buffer = <<>>
      <4>1. ~fresh' /\ (wire # <<>> \/ todo # <<>>)
        BY <1>1, <1>11, <2>1, <3>2
      <4>2. (wire # <<>> => wire[1].of < attempt') /\ (todo # <<>> => todo[1].of < attempt')
        BY <1>0, <1>4, <1>9 DEF Ages
      <4> QED
        BY <1>1, <3>2, <4>1, <4>2 DEF Foreign
    <3> QED
      BY <3>1, <3>2
  <2> QED
    BY <1>1, <2>1 DEF Behind
<1>13. Handed(0, 0)'
  <2>1. chunks' = <<>> /\ Len(chunks') = 0 /\ 0 \in 0 .. 0 /\ 0 + 0 = 0 /\ 1 .. 0 = {}
    BY <1>1, <1>2
  <2> QED
    BY <2>1 DEF Handed
<1>14. Clean'
  <2>1. 0 \in 0 .. MaxBody /\ 0 \in 0 .. 0
    BY ClientsAssumption
  <2>2. ec = "none"
    BY <1>0, <1>1 DEF Phase
  <2>3. ~stale' => buffer = <<>> /\ (pc' = "write" => wire = <<>> /\ todo = <<>>)
    BY <1>1, <1>11
  <2> QED
    BY <1>1, <1>13, <2>1, <2>2, <2>3 DEF Clean, Opening
<1> QED
  BY <1>5, <1>6, <1>7, <1>10, <1>12, <1>14 DEF HttpIInv

\* A request has failed: it is made once more on a new connection, or given up.
LEMMA HttpCatches ==
  ASSUME HttpIInv, H!Catch
  PROVE  HttpIInv'
<1>0. H!TypeOK /\ Phase /\ Limited /\ Halted /\ Ages /\ Behind /\ Clean
  BY DEF HttpIInv
<1>1. /\ pc = "failed" /\ stream' = H!Shut /\ armed' = FALSE /\ ec' = "none" /\ result = "none"
      /\ UNCHANGED <<policy, literal, handler, calls, method, buffer, keep, own, need, chunks, sends,
                     closedAt, peer, todo, wire>>
  BY <1>0 DEF H!Catch, H!config, H!call, H!parser, H!server, Phase
<1>2. H!Shut \in {"none", "closed"}
  BY DEF H!Shut
<1>3. CASE ec \in H!Retried /\ retry
  <2>1. /\ fresh' = TRUE /\ retry' = FALSE /\ attempt' = attempt + 1
        /\ stale' = (buffer # <<>>) /\ pc' = "start" /\ result' = result
    BY <1>3 DEF H!Catch, H!Enter
  <2>2. attempt \in Nat /\ attempt' \in Nat /\ attempt' - 1 = attempt
    BY <1>0, <2>1 DEF H!TypeOK
  <2>3. buffer \in Seq(H!Pieces) /\ wire \in Seq(H!Pieces) /\ todo \in Seq(H!Pieces)
        /\ chunks \in Seq(H!Pieces) /\ sends \in Nat
    BY <1>0 DEF H!TypeOK
  <2>4. H!TypeOK'
    <3>1. stale' \in BOOLEAN
      BY <2>1
    <3> QED
      BY <1>0, <1>1, <1>2, <2>1, <2>2, <3>1 DEF H!TypeOK
  <2>5. Phase'
    BY <1>1, <2>1 DEF Phase
  <2>6. Limited'
    <3>1. sends <= 1
      BY <1>0, <1>3 DEF Limited
    <3> QED
      BY <1>1, <2>1, <2>3, <3>1 DEF Limited
  <2>7. Halted'
    BY <1>0, <1>1, <1>3 DEF Halted, H!Sticky
  <2>8. ASSUME NEW s \in Seq(H!Pieces), UpTo(s, attempt)
        PROVE  UpTo(s, attempt') /\ (\A i \in DOMAIN s : s[i].of < attempt')
    <3>1. \A i \in DOMAIN s : s[i] \in H!Pieces /\ s[i].of <= attempt
      BY <2>8 DEF UpTo
    <3>2. \A i \in DOMAIN s : s[i].of \in Nat /\ s[i].of <= attempt
      BY <3>1 DEF H!Pieces
    <3>3. \A i \in DOMAIN s : s[i].of <= attempt' /\ s[i].of < attempt'
      BY <2>1, <2>2, <3>2
    <3> QED
      BY <3>3 DEF UpTo
  <2>9. Ages'
    <3>1. /\ UpTo(buffer, attempt') /\ UpTo(wire, attempt') /\ UpTo(todo, attempt')
          /\ UpTo(chunks, attempt') /\ UpTo(chunks, attempt' - 1)
      BY <1>0, <2>2, <2>3, <2>8 DEF Ages
    <3> QED
      BY <1>1, <2>1, <3>1 DEF Ages, UpTo
  <2>10. Behind'
    <3>1. buffer # <<>> => 1 \in DOMAIN buffer
      BY <2>3, EmptySeq, LenProperties
    <3>2. buffer # <<>> => buffer[1].of < attempt'
      BY <1>0, <2>3, <2>8, <3>1 DEF Ages
    <3> QED
      BY <1>1, <2>1, <3>2 DEF Behind, Foreign
  <2>11. Handed(0, 0)'
    <3>1. Len(chunks) \in Nat /\ DOMAIN chunks = 1 .. Len(chunks)
      BY <2>3, LenProperties
    <3>2. Len(chunks) \in 0 .. Len(chunks) /\ Len(chunks) = Len(chunks) + 0 /\ 1 .. 0 = {}
      BY <3>1
    <3>3. \A i \in 1 .. Len(chunks) : chunks[i].of < attempt'
      BY <1>0, <2>3, <2>8, <3>1 DEF Ages
    <3>4. \A i \in 1 .. Len(chunks) : chunks[i].of # attempt'
      BY <2>2, <3>3
    <3> QED
      BY <1>1, <2>1, <3>2, <3>4 DEF Handed
  <2>12. Clean'
    <3>1. 0 \in 0 .. MaxBody /\ 0 \in 0 .. 0
      BY ClientsAssumption
    <3> QED
      BY <1>1, <2>1, <2>11, <3>1 DEF Clean
  <2> QED
    BY <2>4, <2>5, <2>6, <2>7, <2>9, <2>10, <2>12 DEF HttpIInv
<1>4. CASE ~(ec \in H!Retried /\ retry)
  <2>1. pc' = "idle" /\ result' = "error" /\ UNCHANGED <<retry, attempt, fresh, stale>>
    BY <1>4 DEF H!Catch, H!try
  <2>2. H!TypeOK'
    <3>1. pc' \in {"idle"} /\ result' \in {"error"}
      BY <2>1
    <3>2. armed' \in BOOLEAN
      BY <1>1, Zenon
    <3>3. stream' \in {"none", "closed"} /\ ec' \in {"none"}
      BY <1>1, <1>2
    <3>4. H!TypeOK
      BY <1>0
    <3>5. UNCHANGED <<policy, literal, handler, calls, method, buffer, keep, own, need, chunks,
                      sends, peer, todo, wire, retry, attempt, fresh, stale>>
      BY <1>1, <2>1
    <3> QED
      BY <3>1, <3>2, <3>3, <3>4, <3>5 DEF H!TypeOK
  <2>3. Phase' /\ Limited' /\ Halted'
    BY <1>0, <1>1, <1>2, <2>1 DEF Phase, Limited, Halted, Opening
  <2>4. Ages' /\ Behind'
    BY <1>0, <1>1, <2>1 DEF Ages, UpTo, Before, Opening, Behind
  <2>5. \A b, p : Handed(b, p)' <=> Handed(b, p)
    BY <1>1, <2>1 DEF Handed, IsPiece
  <2>6. Clean'
    BY <1>0, <1>1, <2>1, <2>5 DEF Clean, Opening
  <2> QED
    BY <2>2, <2>3, <2>4, <2>6 DEF HttpIInv
<1> QED
  BY <1>3, <1>4

\* The request is written: its answer is behind what the server has still to send.
LEMMA HttpWrites ==
  ASSUME HttpIInv, NEW b \in 0 .. MaxBody, NEW k \in BOOLEAN, H!Write(b, k)
  PROVE  HttpIInv'
<1>0. H!TypeOK /\ Phase /\ Limited /\ Halted /\ Ages /\ Behind /\ Clean
  BY DEF HttpIInv
<1>a. armed' \in BOOLEAN
  <2>1. armed' = H!Arm(FALSE)
    BY DEF H!Write
  <2>2. H!Arm(FALSE) \in BOOLEAN
    BY <1>0, ArmFacts
  <2> QED
    BY <2>1, <2>2, Zenon
<1> DEFINE A == H!Answer(b, k)
<1>1. /\ pc = "write" /\ stream = "open" /\ pc' = "header"
      /\ IF peer = "alive" THEN todo' = todo \o A /\ sends' = sends + 1
                           ELSE todo' = todo /\ sends' = sends
      /\ UNCHANGED <<policy, literal, handler, calls, method, ec, retry, attempt, fresh, stale,
                     stream, buffer, keep, own, need, chunks, closedAt, result, peer, wire>>
  BY DEF H!Write, H!config, H!call, H!try, H!parser
<1>2. A \in Seq(H!Pieces) /\ UpTo(A, attempt) /\ \A i \in DOMAIN A : IsPiece(A[i], i, b)
  BY <1>0, AnswerFacts
<1> HIDE DEF A
<1>3. buffer \in Seq(H!Pieces) /\ wire \in Seq(H!Pieces) /\ todo \in Seq(H!Pieces)
      /\ sends \in Nat /\ attempt \in Nat
  BY <1>0 DEF H!TypeOK
<1>4. /\ todo \o A \in Seq(H!Pieces) /\ Len(todo \o A) = Len(todo) + Len(A)
      /\ Len(todo) \in Nat /\ Len(A) \in Nat
      /\ DOMAIN (todo \o A) = 1 .. Len(todo) + Len(A) /\ DOMAIN todo = 1 .. Len(todo)
      /\ DOMAIN A = 1 .. Len(A)
      /\ \A i \in 1 .. Len(todo) + Len(A) :
           (todo \o A)[i] = IF i <= Len(todo) THEN todo[i] ELSE A[i - Len(todo)]
  BY <1>2, <1>3, ConcatProperties, LenProperties
<1>5. H!TypeOK'
  <2>0. sends + 1 \in Nat
    BY <1>3
  <2>1. todo' \in Seq(H!Pieces) /\ sends' \in Nat
    BY <1>1, <1>3, <1>4, <2>0, Zenon
  <2> QED
    BY <1>0, <1>1, <1>a, <2>1 DEF H!TypeOK
<1>6. Phase' /\ Halted'
  BY <1>0, <1>1 DEF Phase, Halted, H!Sticky, Opening
<1>7. Limited'
  <2>1. sends <= (IF retry THEN 0 ELSE 1)
    BY <1>0, <1>1 DEF Limited
  <2>2. sends' <= (IF retry THEN 1 ELSE 2)
    BY <1>1, <1>3, <2>1
  <2> QED
    BY <1>1, <2>2 DEF Limited, Opening
<1>8. Ages'
  <2>1. UpTo(todo \o A, attempt)
    <3> SUFFICES ASSUME NEW i \in 1 .. Len(todo) + Len(A) PROVE (todo \o A)[i].of <= attempt
      BY <1>4 DEF UpTo
    <3>1. CASE i <= Len(todo)
      <4>1. i \in DOMAIN todo
        BY <1>4, <3>1
      <4> QED
        BY <1>0, <1>4, <3>1, <4>1 DEF Ages, UpTo
    <3>2. CASE ~(i <= Len(todo))
      <4>1. i - Len(todo) \in DOMAIN A
        BY <1>4, <3>2
      <4> QED
        BY <1>2, <1>4, <3>2, <4>1 DEF UpTo
    <3> QED
      BY <3>1, <3>2
  <2>2. UpTo(todo', attempt)
    BY <1>0, <1>1, <2>1 DEF Ages
  <2> QED
    BY <1>0, <1>1, <2>2 DEF Ages, UpTo, Before, Opening
<1>9. Behind'
  <2>1. ASSUME stale PROVE Foreign'
    <3>1. Foreign
      BY <1>0, <1>1, <2>1 DEF Behind, Before
    <3>2. CASE buffer # <<>> \/ wire # <<>>
      BY <1>1, <3>1, <3>2 DEF Foreign
    <3>3. CASE buffer = <<>> /\ wire = <<>> /\ todo # <<>>
      <4>1. Len(todo) > 0 /\ 1 \in 1 .. Len(todo) + Len(A) /\ 1 <= Len(todo)
        BY <1>3, <1>4, <3>3, EmptySeq
      <4>2. (todo \o A)[1] = todo[1]
        BY <1>4, <4>1
      <4>3. todo \o A # <<>>
        BY <1>4, <4>1
      <4> QED
        BY <1>1, <3>1, <3>3, <4>2, <4>3 DEF Foreign
    <3>4. CASE buffer = <<>> /\ wire = <<>> /\ todo = <<>>
      BY <1>1, <3>1, <3>4 DEF Foreign
    <3> QED
      BY <3>2, <3>3, <3>4
  <2> QED
    BY <1>0, <1>1, <2>1 DEF Behind
<1>10. \A c, p : Handed(c, p)' <=> Handed(c, p)
  BY <1>1 DEF Handed, IsPiece
<1>11. ASSUME ~stale PROVE Follows(0, b)'
  <2>1. buffer = <<>> /\ wire = <<>> /\ todo = <<>>
    BY <1>0, <1>1, <1>11 DEF Clean
  <2>2. todo \o A = A
    BY <1>2, <2>1, ConcatEmptySeq
  <2>3. /\ Len(<<>>) = 0 /\ DOMAIN <<>> = {}
        /\ \A i \in 1 .. Len(A) : 0 + 0 + 0 + i = i
    BY <1>4
  <2>4. CASE peer = "alive"
    <3>1. buffer' = <<>> /\ wire' = <<>> /\ todo' = A /\ attempt' = attempt /\ method' = method
      BY <1>1, <2>1, <2>2, <2>4
    <3>2. \A i \in DOMAIN A : IsPiece(A[i], 0 + 0 + 0 + i, b)
      BY <1>2, <1>4, <2>3
    <3>3. Len(buffer') = 0 /\ Len(wire') = 0 /\ DOMAIN buffer' = {} /\ DOMAIN wire' = {}
      BY <2>3, <3>1
    <3> QED
      BY <3>1, <3>2, <3>3 DEF Follows, IsPiece
  <2>5. CASE peer # "alive"
    <3>1. DOMAIN buffer' = {} /\ DOMAIN wire' = {} /\ DOMAIN todo' = {}
      BY <1>1, <2>1, <2>3, <2>5
    <3> QED
      BY <3>1 DEF Follows
  <2> QED
    BY <2>4, <2>5
<1>12. Clean'
  BY <1>0, <1>1, <1>10, <1>11 DEF Clean, Opening
<1> QED
  BY <1>5, <1>6, <1>7, <1>8, <1>9, <1>12 DEF HttpIInv

\* The server sends a piece, closes or resets the connection.
LEMMA HttpServer ==
  ASSUME HttpIInv, H!Sends \/ \E how \in {"eof", "reset"} : H!Leaves(how)
  PROVE  HttpIInv'
<1>0. H!TypeOK /\ Phase /\ Limited /\ Halted /\ Ages /\ Behind /\ Clean
  BY DEF HttpIInv
<1>1. UNCHANGED <<policy, literal, handler, calls, method, pc, ec, retry, attempt, fresh, stale,
                  stream, armed, buffer, keep, own, need, chunks, sends, closedAt, result>>
  BY DEF H!Sends, H!Leaves, H!config, H!call, H!try, H!parser, H!seen
<1>2. buffer \in Seq(H!Pieces) /\ wire \in Seq(H!Pieces) /\ todo \in Seq(H!Pieces)
  BY <1>0 DEF H!TypeOK
<1>3. Phase' /\ Limited' /\ Halted'
  BY <1>0, <1>1 DEF Phase, Limited, Halted, H!Sticky
<1>4. \A c, p : Handed(c, p)' <=> Handed(c, p)
  BY <1>1 DEF Handed, IsPiece
<1>5. CASE H!Sends
  <2>1. todo # <<>> /\ wire' = Append(wire, Head(todo)) /\ todo' = Tail(todo) /\ peer' = peer
    BY <1>5 DEF H!Sends
  <2>2. /\ Tail(todo) \in Seq(H!Pieces) /\ Len(todo) \in Nat /\ Len(todo) > 0
        /\ DOMAIN Tail(todo) = 1 .. Len(todo) - 1 /\ 1 \in DOMAIN todo /\ Head(todo) = todo[1]
        /\ Head(todo) \in H!Pieces
        /\ \A i \in DOMAIN Tail(todo) : i + 1 \in DOMAIN todo /\ Tail(todo)[i] = todo[i + 1]
    BY <1>2, <2>1, RemovedFacts
  <2>3. /\ wire' \in Seq(H!Pieces) /\ Len(wire') = Len(wire) + 1 /\ Len(wire) \in Nat
        /\ DOMAIN wire = 1 .. Len(wire)
        /\ \A i \in DOMAIN wire : i \in DOMAIN wire' /\ wire'[i] = wire[i]
        /\ wire'[Len(wire) + 1] = todo[1]
        /\ \A i \in DOMAIN wire' : i \in DOMAIN wire \/ i = Len(wire) + 1
    BY <1>2, <2>1, <2>2, AppendedFacts
  <2>4. H!TypeOK'
    BY <1>0, <1>1, <2>1, <2>2, <2>3 DEF H!TypeOK
  <2>5. Ages'
    <3>1. UpTo(wire', attempt) /\ UpTo(todo', attempt)
      BY <1>0, <2>1, <2>2, <2>3 DEF Ages, UpTo
    <3> QED
      BY <1>0, <1>1, <3>1 DEF Ages, UpTo
  <2>6. Behind'
    <3>1. wire' # <<>> /\ wire'[1] = (IF wire # <<>> THEN wire[1] ELSE todo[1])
      <4>0. wire' # <<>>
        BY <2>3
      <4>1. CASE wire = <<>>
        <5>1. Len(wire) + 1 = 1
          BY <4>1
        <5>2. wire'[1] = todo[1]
          BY <2>3, <5>1
        <5> QED
          BY <4>0, <4>1, <5>2
      <4>2. CASE wire # <<>>
        <5>1. 1 \in DOMAIN wire
          BY <1>2, <2>3, <4>2, EmptySeq
        <5> QED
          BY <2>3, <4>0, <4>2, <5>1
      <4> QED
        BY <4>1, <4>2
    <3>2. ASSUME Foreign PROVE Foreign'
      BY <1>1, <2>1, <3>1, <3>2 DEF Foreign
    <3> QED
      BY <1>0, <1>1, <3>2 DEF Behind
  <2>7. ASSUME NEW p \in Nat, NEW b, Follows(p, b) PROVE Follows(p, b)'
    <3>0. Len(buffer) \in Nat
      BY <1>2, LenProperties
    <3>1. ASSUME NEW i \in DOMAIN wire' PROVE IsPiece(wire'[i], p + Len(buffer) + i, b)
      <4>1. CASE i \in DOMAIN wire
        BY <2>3, <2>7, <4>1 DEF Follows
      <4>2. CASE i = Len(wire) + 1
        <5>1. IsPiece(todo[1], p + Len(buffer) + Len(wire) + 1, b)
          BY <2>2, <2>7 DEF Follows
        <5>2. p + Len(buffer) + Len(wire) + 1 = p + Len(buffer) + i
          BY <2>3, <3>0, <4>2
        <5> QED
          BY <2>3, <4>2, <5>1, <5>2
      <4> QED
        BY <2>3, <4>1, <4>2
    <3>2. ASSUME NEW i \in DOMAIN todo'
          PROVE  IsPiece(todo'[i], p + Len(buffer) + Len(wire') + i, b)
      <4>1. i \in Nat /\ i + 1 \in DOMAIN todo /\ todo'[i] = todo[i + 1]
        BY <2>1, <2>2
      <4>2. IsPiece(todo[i + 1], p + Len(buffer) + Len(wire) + (i + 1), b)
        BY <2>7, <4>1 DEF Follows
      <4>3. p + Len(buffer) + Len(wire) + (i + 1) = p + Len(buffer) + Len(wire') + i
        BY <2>3, <3>0, <4>1
      <4> QED
        BY <4>1, <4>2, <4>3
    <3> QED
      BY <1>1, <2>7, <3>1, <3>2 DEF Follows, IsPiece
  <2>8. Clean'
    <3>1. pc = "write" => stale
      BY <1>0, <2>1 DEF Clean
    <3>2. \A b \in 0 .. MaxBody : \A p \in 2 .. b + 2 : p \in Nat
      BY ClientsAssumption
    <3>3. \A b \in 0 .. MaxBody : \A p \in 2 .. b + 2 : Parsed(p, b) => Parsed(p, b)'
      BY <1>1, <1>4, <2>7, <3>2 DEF Parsed
    <3>4. \A b \in 0 .. MaxBody : Follows(0, b) => Follows(0, b)'
      BY <2>7
    <3> QED
      BY <1>0, <1>1, <1>4, <3>1, <3>3, <3>4 DEF Clean
  <2> QED
    BY <1>3, <2>4, <2>5, <2>6, <2>8 DEF HttpIInv
<1>6. CASE \E how \in {"eof", "reset"} : H!Leaves(how)
  <2>1. peer' \in {"eof", "reset"} /\ todo' = <<>> /\ wire' = wire
    BY <1>6 DEF H!Leaves
  <2>2. todo' \in Seq(H!Pieces) /\ DOMAIN todo' = {}
    BY <2>1, EmptySeq
  <2>3. H!TypeOK'
    BY <1>0, <1>1, <2>1, <2>2 DEF H!TypeOK
  <2>4. Ages'
    BY <1>0, <1>1, <2>1, <2>2 DEF Ages, UpTo
  <2>5. Behind'
    BY <1>0, <1>1, <2>1 DEF Behind, Foreign
  <2>6. \A b, p : Follows(p, b) => Follows(p, b)'
    BY <1>1, <2>1, <2>2 DEF Follows, IsPiece
  <2>7. \A b, p : Parsed(p, b) => Parsed(p, b)'
    BY <1>1, <1>4, <2>6 DEF Parsed
  <2>8. Clean'
    BY <1>0, <1>1, <1>4, <2>1, <2>6, <2>7 DEF Clean
  <2> QED
    BY <1>3, <2>3, <2>4, <2>5, <2>8 DEF HttpIInv
<1> QED
  BY <1>5, <1>6
-----------------------------------------------------------------------------
(* The reads of the http client *)

\* What is left on the wire by a read of n pieces.
Rest(n) == SubSeq(wire, n + 1, Len(wire))

\* What the parser is given by a read of n pieces, and what it leaves.
LEMMA ReadInput ==
  ASSUME HttpIInv, NEW n \in 0 .. Len(wire)
  PROVE  /\ H!Filled(n) \in Seq(H!Pieces) /\ Rest(n) \in Seq(H!Pieces)
         /\ Len(H!Filled(n)) = Len(buffer) + n /\ Len(buffer) \in Nat
         /\ \A i \in DOMAIN buffer : i \in DOMAIN H!Filled(n) /\ H!Filled(n)[i] = buffer[i]
         /\ UpTo(H!Filled(n), attempt) /\ UpTo(Rest(n), attempt)
         /\ stale /\ pc \in Before /\ H!Filled(n) # <<>> => H!Filled(n)[1].of < attempt
         /\ \A p \in Nat : \A b : Follows(p, b) =>
              /\ \A i \in DOMAIN H!Filled(n) : IsPiece(H!Filled(n)[i], p + i, b)
              /\ \A i \in DOMAIN Rest(n) : IsPiece(Rest(n)[i], p + Len(H!Filled(n)) + i, b)
              /\ \A i \in DOMAIN todo :
                   IsPiece(todo[i], p + Len(H!Filled(n)) + Len(Rest(n)) + i, b)
<1> DEFINE f == H!Filled(n)
           r == Rest(n)
<1>0. H!TypeOK /\ Ages /\ Behind
  BY DEF HttpIInv
<1>1. /\ buffer \in Seq(H!Pieces) /\ wire \in Seq(H!Pieces) /\ todo \in Seq(H!Pieces)
      /\ Len(buffer) \in Nat /\ Len(wire) \in Nat
      /\ DOMAIN buffer = 1 .. Len(buffer) /\ DOMAIN wire = 1 .. Len(wire)
      /\ DOMAIN todo = 1 .. Len(todo) /\ Len(todo) \in Nat
  BY <1>0, LenProperties DEF H!TypeOK
<1>2. /\ f \in Seq(H!Pieces) /\ Len(f) = Len(buffer) + n /\ DOMAIN f = 1 .. Len(buffer) + n
      /\ \A i \in 1 .. Len(buffer) : f[i] = buffer[i]
      /\ \A i \in 1 .. n : f[Len(buffer) + i] = wire[i]
      /\ r \in Seq(H!Pieces) /\ Len(r) = Len(wire) - n /\ DOMAIN r = 1 .. Len(wire) - n
      /\ \A i \in 1 .. Len(wire) - n : r[i] = wire[n + i]
  <2>1. f = buffer \o SubSeq(wire, 1, n) /\ r = SubSeq(wire, n + 1, Len(wire))
    BY DEF H!Filled, Rest
  <2>2. buffer \in Seq(H!Pieces) /\ wire \in Seq(H!Pieces)
    BY <1>1
  <2> HIDE DEF f, r
  <2>3. f \in Seq(H!Pieces) /\ Len(f) = Len(buffer) + n /\ DOMAIN f = 1 .. Len(buffer) + n
    BY <2>1, <2>2, FillFacts
  <2>4. \A i \in 1 .. Len(buffer) : f[i] = buffer[i]
    BY <2>1, <2>2, FillFacts
  <2>5. \A i \in 1 .. n : f[Len(buffer) + i] = wire[i]
    BY <2>1, <2>2, FillFacts
  <2>6. r \in Seq(H!Pieces) /\ Len(r) = Len(wire) - n /\ DOMAIN r = 1 .. Len(wire) - n
    BY <2>1, <2>2, FillFacts
  <2>7. \A i \in 1 .. Len(wire) - n : r[i] = wire[n + i]
    BY <2>1, <2>2, FillFacts
  <2> QED
    BY <2>3, <2>4, <2>5, <2>6, <2>7
<1> HIDE DEF f, r
<1>3. \A i \in DOMAIN f : \/ i \in DOMAIN buffer
                         \/ (i - Len(buffer) \in 1 .. n /\ Len(buffer) + (i - Len(buffer)) = i)
  BY <1>1, <1>2
<1>4. \A i \in DOMAIN f :
        \/ i \in DOMAIN buffer /\ f[i] = buffer[i]
        \/ i - Len(buffer) \in DOMAIN wire /\ f[i] = wire[i - Len(buffer)]
  <2>1. \A i \in 1 .. n : i \in DOMAIN wire
    BY <1>1
  <2> QED
    BY <1>1, <1>2, <1>3, <2>1
<1>5. \A i \in DOMAIN r : n + i \in DOMAIN wire /\ r[i] = wire[n + i]
  BY <1>1, <1>2, SMTT(30)
<1>6. UpTo(f, attempt) /\ UpTo(r, attempt)
  BY <1>0, <1>4, <1>5 DEF Ages, UpTo
<1>7. \A i \in DOMAIN buffer : i \in DOMAIN f /\ f[i] = buffer[i]
  BY <1>1, <1>2
<1>8. ASSUME stale, pc \in Before, f # <<>> PROVE f[1].of < attempt
  <2>1. Foreign
    BY <1>0, <1>8 DEF Behind
  <2>2. CASE buffer # <<>>
    <3>1. 1 \in DOMAIN buffer
      BY <1>1, <2>2, EmptySeq
    <3> QED
      BY <1>7, <2>1, <2>2, <3>1 DEF Foreign
  <2>3. CASE buffer = <<>>
    <3>1. Len(buffer) = 0 /\ Len(f) > 0
      BY <1>2, <1>8, <2>3, EmptySeq
    <3>2. 1 \in 1 .. n /\ Len(buffer) + 1 = 1
      BY <1>2, <3>1
    <3>3. f[1] = wire[1] /\ wire # <<>>
      BY <1>1, <1>2, <3>2
    <3> QED
      BY <2>1, <2>3, <3>3 DEF Foreign
  <2> QED
    BY <2>2, <2>3
<1>9. ASSUME NEW p \in Nat, NEW b, Follows(p, b)
      PROVE  /\ \A i \in DOMAIN f : IsPiece(f[i], p + i, b)
             /\ \A i \in DOMAIN r : IsPiece(r[i], p + Len(f) + i, b)
             /\ \A i \in DOMAIN todo : IsPiece(todo[i], p + Len(f) + Len(r) + i, b)
  <2>1. ASSUME NEW i \in DOMAIN f PROVE IsPiece(f[i], p + i, b)
    <3>1. CASE i \in DOMAIN buffer /\ f[i] = buffer[i]
      BY <1>9, <3>1 DEF Follows
    <3>2. CASE i - Len(buffer) \in DOMAIN wire /\ f[i] = wire[i - Len(buffer)]
      <4>1. IsPiece(wire[i - Len(buffer)], p + Len(buffer) + (i - Len(buffer)), b)
        BY <1>9, <3>2 DEF Follows
      <4>2. p + Len(buffer) + (i - Len(buffer)) = p + i
        BY <1>1, <1>2
      <4> QED
        BY <3>2, <4>1, <4>2
    <3> QED
      BY <1>4, <3>1, <3>2
  <2>2. ASSUME NEW i \in DOMAIN r PROVE IsPiece(r[i], p + Len(f) + i, b)
    <3>1. IsPiece(wire[n + i], p + Len(buffer) + (n + i), b) /\ r[i] = wire[n + i]
      BY <1>5, <1>9 DEF Follows
    <3>2. p + Len(buffer) + (n + i) = p + Len(f) + i
      BY <1>1, <1>2
    <3> QED
      BY <3>1, <3>2
  <2>3. ASSUME NEW i \in DOMAIN todo PROVE IsPiece(todo[i], p + Len(f) + Len(r) + i, b)
    <3>1. IsPiece(todo[i], p + Len(buffer) + Len(wire) + i, b)
      BY <1>9 DEF Follows
    <3>2. p + Len(buffer) + Len(wire) + i = p + Len(f) + Len(r) + i
      BY <1>1, <1>2
    <3> QED
      BY <3>1, <3>2
  <2> QED
    BY <2>1, <2>2, <2>3
<1> QED
  BY <1>1, <1>2, <1>6, <1>7, <1>8, <1>9 DEF f, r

\* What the pieces are that follow when d of them were consumed.
LEMMA Consumed ==
  ASSUME HttpIInv, NEW n \in 0 .. Len(wire), NEW d \in 0 .. Len(H!Filled(n)),
         NEW g \in Seq(H!Pieces), DOMAIN g = 1 .. Len(H!Filled(n)) - d,
         Len(g) = Len(H!Filled(n)) - d, \A i \in DOMAIN g : g[i] = H!Filled(n)[d + i],
         buffer' = g, wire' = Rest(n), UNCHANGED <<todo, attempt, method>>
  PROVE  /\ UpTo(buffer', attempt) /\ UpTo(wire', attempt)
         /\ buffer' \in Seq(H!Pieces) /\ wire' \in Seq(H!Pieces)
         /\ \A p \in Nat : \A b : Follows(p, b) => Follows(p + d, b)'
<1> DEFINE f == H!Filled(n)
           r == Rest(n)
<1>1. /\ f \in Seq(H!Pieces) /\ r \in Seq(H!Pieces) /\ Len(f) \in Nat /\ DOMAIN f = 1 .. Len(f)
      /\ Len(r) \in Nat /\ DOMAIN r = 1 .. Len(r)
      /\ UpTo(f, attempt) /\ UpTo(r, attempt)
  BY ReadInput, LenProperties
<1>2. \A p \in Nat : \A b : Follows(p, b) =>
        /\ \A i \in DOMAIN f : IsPiece(f[i], p + i, b)
        /\ \A i \in DOMAIN r : IsPiece(r[i], p + Len(f) + i, b)
        /\ \A i \in DOMAIN todo : IsPiece(todo[i], p + Len(f) + Len(r) + i, b)
  BY ReadInput
<1>3. d \in Nat /\ Len(g) = Len(f) - d /\ \A i \in DOMAIN g : g[i] = f[d + i]
  BY <1>1
<1>a. DOMAIN g = 1 .. Len(f) - d /\ buffer' = g /\ wire' = r
  OBVIOUS
<1>b. todo \in Seq(H!Pieces) /\ DOMAIN todo = 1 .. Len(todo) /\ Len(todo) \in Nat
  BY LenProperties DEF HttpIInv, H!TypeOK
<1> HIDE DEF f, r
<1>4. \A i \in DOMAIN g : d + i \in DOMAIN f
  BY <1>1, <1>3, <1>a
<1>5. UpTo(g, attempt)
  BY <1>1, <1>3, <1>4 DEF UpTo
<1>6. ASSUME NEW p \in Nat, NEW b, Follows(p, b) PROVE Follows(p + d, b)'
  <2>1. ASSUME NEW i \in DOMAIN g PROVE IsPiece(g[i], (p + d) + i, b)
    <3>1. IsPiece(f[d + i], p + (d + i), b)
      BY <1>2, <1>4, <1>6
    <3>2. p + (d + i) = (p + d) + i
      BY <1>1, <1>3, <1>a
    <3> QED
      BY <1>3, <3>1, <3>2
  <2>2. ASSUME NEW i \in DOMAIN r PROVE IsPiece(r[i], (p + d) + Len(g) + i, b)
    <3>1. IsPiece(r[i], p + Len(f) + i, b)
      BY <1>2, <1>6
    <3>2. p + Len(f) + i = (p + d) + Len(g) + i
      BY <1>1, <1>3
    <3> QED
      BY <3>1, <3>2
  <2>3. ASSUME NEW i \in DOMAIN todo PROVE IsPiece(todo[i], (p + d) + Len(g) + Len(r) + i, b)
    <3>1. IsPiece(todo[i], p + Len(f) + Len(r) + i, b)
      BY <1>2, <1>6
    <3>a. i \in Nat
      BY <1>b
    <3>2. Len(f) \in Nat /\ Len(r) \in Nat /\ d \in Nat /\ Len(g) = Len(f) - d
      BY <1>1, <1>3
    <3>3. p + Len(f) + Len(r) + i = (p + d) + Len(g) + Len(r) + i
      BY <3>2, <3>a
    <3> QED
      BY <3>1, <3>3
  <2>4. \A i \in DOMAIN buffer' : IsPiece(buffer'[i], (p + d) + i, b)
    BY <1>a, <2>1
  <2>5. \A i \in DOMAIN wire' : IsPiece(wire'[i], (p + d) + Len(buffer') + i, b)
    BY <1>a, <2>2
  <2>6. \A i \in DOMAIN todo' : IsPiece(todo'[i], (p + d) + Len(buffer') + Len(wire') + i, b)
    BY <1>a, <2>3
  <2> QED
    BY <2>4, <2>5, <2>6 DEF Follows, IsPiece
<1> QED
  BY <1>1, <1>5, <1>6, <1>a

\* A part of a header stays in buffer_.
LEMMA HttpReadsPart ==
  ASSUME HttpIInv, NEW n \in 0 .. Len(wire), H!ReadPartOfHeader(n)
  PROVE  HttpIInv'
<1>0. H!TypeOK /\ Phase /\ Limited /\ Halted /\ Ages /\ Behind /\ Clean
  BY DEF HttpIInv
<1> DEFINE f == H!Filled(n)
<1>1. /\ pc = "header" /\ H!Reads(n, H!HasHeader(buffer)) /\ ~H!HasHeader(f)
      /\ buffer' = f /\ wire' = Rest(n)
      /\ UNCHANGED <<policy, literal, handler, calls, method, pc, ec, retry, attempt, fresh, stale,
                     stream, armed, keep, own, need, chunks, sends, closedAt, result, peer, todo>>
  BY DEF H!ReadPartOfHeader, H!config, H!call, H!try, H!parser, H!seen, Rest
<1>2. /\ f \in Seq(H!Pieces) /\ Len(f) = Len(buffer) + n /\ Len(buffer) \in Nat
      /\ \A i \in DOMAIN buffer : i \in DOMAIN f /\ f[i] = buffer[i]
      /\ stale /\ pc \in Before /\ f # <<>> => f[1].of < attempt
  BY ReadInput
<1>3. Len(f) \in Nat /\ DOMAIN f = 1 .. Len(f)
  BY <1>2, LenProperties
<1>4. /\ UpTo(buffer', attempt) /\ UpTo(wire', attempt)
      /\ buffer' \in Seq(H!Pieces) /\ wire' \in Seq(H!Pieces)
      /\ \A p \in Nat : \A b : Follows(p, b) => Follows(p + 0, b)'
  <2>1. 0 \in 0 .. Len(f) /\ Len(f) - 0 = Len(f) /\ \A i \in DOMAIN f : 0 + i = i
    BY <1>3
  <2>2. \A i \in DOMAIN f : f[i] = f[0 + i]
    BY <2>1
  <2> QED
    BY <1>1, <1>2, <1>3, <2>1, <2>2, Consumed
<1> HIDE DEF f
<1>5. H!TypeOK'
  BY <1>0, <1>1, <1>4 DEF H!TypeOK
<1>6. Phase' /\ Limited' /\ Halted'
  BY <1>0, <1>1 DEF Phase, Limited, Halted, H!Sticky
<1>7. Ages'
  BY <1>0, <1>1, <1>4 DEF Ages, UpTo
<1>8. f # <<>>
  <2>1. ~H!HasHeader(buffer)
    BY <1>1, <1>2 DEF H!HasHeader
  <2>2. n \in 1 .. Len(wire)
    BY <1>1, <2>1 DEF H!Reads
  <2>3. Len(f) > 0
    BY <1>2, <2>2
  <2> QED
    BY <2>3
<1>9. Behind'
  BY <1>0, <1>1, <1>2, <1>8 DEF Behind, Foreign, Before
<1>10. \A c, p : Handed(c, p)' <=> Handed(c, p)
  BY <1>1 DEF Handed, IsPiece
<1>11. \A b : Follows(0, b) => Follows(0, b)'
  BY <1>4
<1>12. Clean'
  <2>1. result = "none"
    BY <1>0, <1>1 DEF Phase
  <2> QED
    BY <1>0, <1>1, <1>10, <1>11, <2>1 DEF Clean, Opening
<1> QED
  BY <1>5, <1>6, <1>7, <1>9, <1>12 DEF HttpIInv

\* The header of this attempt's answer, if nothing was left of another.
LEMMA HeaderIsOwn ==
  ASSUME HttpIInv, pc = "header", ~stale, NEW n \in 0 .. Len(wire), NEW h \in DOMAIN H!Filled(n),
         H!HeaderIs(H!Filled(n), h), NEW b \in 0 .. MaxBody, Follows(0, b)
  PROVE  /\ h = 2 /\ H!Filled(n)[1].kind = "start" /\ H!Filled(n)[1].of = attempt
         /\ H!Filled(n)[2].of = attempt
<1> DEFINE f == H!Filled(n)
<1>1. /\ f \in Seq(H!Pieces) /\ \A i \in DOMAIN f : IsPiece(f[i], 0 + i, b)
  BY ReadInput
<1>2. Len(f) \in Nat /\ DOMAIN f = 1 .. Len(f)
  BY <1>1, LenProperties
<1>3. f[h].kind \in H!HeaderEnds /\ \A i \in 1 .. h - 1 : f[i].kind \notin H!HeaderEnds
  BY DEF H!HeaderIs
<1>4. \A i \in DOMAIN f : IsPiece(f[i], i, b)
  BY <1>1, <1>2
<1> HIDE DEF f
<1>5. h \in Nat /\ 1 <= h /\ h <= Len(f)
  BY <1>2 DEF f
<1>6. 1 \in DOMAIN f /\ f[1].kind = "start" /\ f[1].of = attempt
  <2>1. 1 \in DOMAIN f
    BY <1>2, <1>5
  <2> QED
    BY <1>4, <2>1 DEF IsPiece
<1>7. h # 1
  BY <1>3, <1>6 DEF H!HeaderEnds
<1>8. 2 \in DOMAIN f
  BY <1>2, <1>5, <1>7
<1>9. f[2].kind \in H!HeaderEnds /\ f[2].of = attempt
  BY <1>4, <1>8 DEF IsPiece
<1>10. ~(2 \in 1 .. h - 1)
  BY <1>3, <1>9
<1>11. h = 2
  BY <1>5, <1>7, <1>10
<1> QED
  BY <1>6, <1>9, <1>11 DEF f

\* No piece follows the end of an answer: nothing is left when it is read.
LEMMA NothingFollows ==
  ASSUME buffer' \in Seq(H!Pieces), NEW p \in Nat, NEW b \in Nat, Follows(p, b)',
         (p = 2 /\ method' = "head") \/ p = b + 3
  PROVE  buffer' = <<>>
<1> SUFFICES ASSUME buffer' # <<>> PROVE FALSE
  OBVIOUS
<1>1. 1 \in DOMAIN buffer'
  BY EmptySeq, LenProperties
<1>2. (2 < p + 1 => method' = "get" /\ p + 1 <= b + 3)
  BY <1>1 DEF Follows, IsPiece
<1>3. 2 < p + 1
  OBVIOUS
<1>4. method' = "get" /\ p + 1 <= b + 3
  BY <1>2, <1>3
<1> QED
  BY <1>4

\* The header is read: it is this attempt's, or nothing of the answer counts.
LEMMA HttpReadsHeader ==
  ASSUME HttpIInv, NEW n \in 0 .. Len(wire), H!ReadHeader(n)
  PROVE  HttpIInv'
<1>0. H!TypeOK /\ Phase /\ Limited /\ Halted /\ Ages /\ Behind /\ Clean
  BY DEF HttpIInv
<1> DEFINE f == H!Filled(n)
           mine(h) == h = 2 /\ f[1].kind = "start" /\ f[1].of = attempt /\ f[2].of = attempt
           k(h) == f[h].kind = "header"
<1>1. /\ pc = "header" /\ wire' = Rest(n)
      /\ UNCHANGED <<policy, literal, handler, calls, method, retry, attempt, fresh, stale, chunks,
                     sends, closedAt, peer, todo>>
  BY DEF H!ReadHeader, H!config, H!call, H!try, Rest
<1>2. PICK h \in DOMAIN f :
        /\ H!HeaderIs(f, h)
        /\ \/ /\ f[1].kind = "start" /\ buffer' = SubSeq(f, h + 1, Len(f))
              /\ keep' = k(h) /\ own' = mine(h) /\ need' = 0 /\ ec' = ec
              /\ IF H!Bodiless
                   THEN H!Finish(k(h), mine(h))
                   ELSE pc' = "body" /\ armed' = H!Arm(FALSE) /\ stream' = stream /\ result' = result
           \/ /\ ~mine(h) /\ H!Fail("bad") /\ buffer' = f
              /\ UNCHANGED <<keep, own, need, armed, stream, result>>
  BY DEF H!ReadHeader, H!parser
<1>3. /\ f \in Seq(H!Pieces) /\ Len(f) \in Nat /\ DOMAIN f = 1 .. Len(f) /\ f # <<>>
      /\ h \in Nat /\ 1 <= h /\ h <= Len(f)
      /\ stale => f[1].of < attempt
  <2>1. f \in Seq(H!Pieces) /\ (stale /\ pc \in Before /\ f # <<>> => f[1].of < attempt)
    BY ReadInput
  <2>2. Len(f) \in Nat /\ DOMAIN f = 1 .. Len(f)
    BY <2>1, LenProperties
  <2> HIDE DEF f
  <2>3. h \in Nat /\ 1 <= h /\ h <= Len(f)
    BY <2>2
  <2>4. f # <<>>
    BY <2>2
  <2> QED
    BY <1>1, <2>1, <2>2, <2>3, <2>4 DEF Before
<1>4. stale => ~mine(h)
  <2>1. attempt \in Nat
    BY <1>0 DEF H!TypeOK
  <2>2. ~(f[1].of < attempt /\ f[1].of = attempt)
    BY <2>1
  <2> QED
    BY <1>3, <2>2
<1>5. ASSUME ~stale PROVE mine(h) /\ \E b \in 0 .. MaxBody : Follows(0, b)
  <2>1. PICK b \in 0 .. MaxBody : Follows(0, b)
    BY <1>0, <1>1, <1>5 DEF Clean
  <2> QED
    BY <1>1, <1>2, <1>5, <2>1, HeaderIsOwn
<1>6. ~stale => Handed(0, 0)' /\ \A b : Handed(b, 0)'
  <2>1. chunks \in Seq(H!Pieces) /\ attempt \in Nat
    BY <1>0 DEF H!TypeOK
  <2>2. UpTo(chunks, attempt - 1) /\ (retry => chunks = <<>>)
    BY <1>0, <1>1 DEF Ages, Before
  <2>3. \A i \in DOMAIN chunks : chunks[i].of # attempt
    <3>1. \A i \in DOMAIN chunks : chunks[i].of <= attempt - 1
      BY <2>2 DEF UpTo
    <3> QED
      BY <2>1, <3>1
  <2>4. \A b : Handed(b, 0)
    BY <2>1, <2>2, <2>3, NothingHanded
  <2> QED
    BY <1>1, <2>4 DEF Handed, IsPiece
<1>7. result = "none" /\ ec = "none" /\ keep \in BOOLEAN /\ own \in BOOLEAN /\ MaxBody \in Nat
      /\ stream \in {"none", "open", "shut", "closed"} /\ attempt \in Nat
  BY <1>0, <1>1, ClientsAssumption DEF Phase, H!TypeOK
<1>8. CASE /\ ~mine(h) /\ H!Fail("bad") /\ buffer' = f
           /\ UNCHANGED <<keep, own, need, armed, stream, result>>
  <2>1. /\ pc' = "failed" /\ ec' = "bad" /\ buffer' = f
        /\ UNCHANGED <<keep, own, need, armed, stream, result>>
    BY <1>8 DEF H!Fail
  <2>2. stale
    BY <1>5, <1>8
  <2>3. UpTo(f, attempt) /\ UpTo(wire', attempt) /\ wire' \in Seq(H!Pieces)
    BY <1>1, ReadInput
  <2> HIDE DEF f, mine, k
  <2>4. H!TypeOK'
    BY <1>0, <1>1, <1>3, <2>1, <2>3 DEF H!TypeOK
  <2>5. Phase' /\ Limited' /\ Halted'
    BY <1>0, <1>1, <1>7, <2>1 DEF Phase, Limited, Halted, H!Sticky, H!Retried, Opening
  <2>6. Ages'
    BY <1>0, <1>1, <2>1, <2>3 DEF Ages, UpTo, Before, Opening
  <2>7. Behind'
    BY <1>1, <1>7, <2>1 DEF Behind, Before, Opening
  <2>8. Clean'
    BY <1>1, <2>2 DEF Clean
  <2> QED
    BY <2>4, <2>5, <2>6, <2>7, <2>8 DEF HttpIInv
<1>9. CASE /\ f[1].kind = "start" /\ buffer' = SubSeq(f, h + 1, Len(f))
           /\ keep' = k(h) /\ own' = mine(h) /\ need' = 0 /\ ec' = ec
           /\ IF H!Bodiless
                THEN H!Finish(k(h), mine(h))
                ELSE pc' = "body" /\ armed' = H!Arm(FALSE) /\ stream' = stream /\ result' = result
  <2>a. armed' \in BOOLEAN
    <3>1. armed' = FALSE \/ armed' = H!Arm(FALSE)
      BY <1>9 DEF H!Finish
    <3>2. H!Arm(FALSE) \in BOOLEAN
      BY <1>0, ArmFacts
    <3> QED
      BY <3>1, <3>2, Zenon
  <2>1. /\ buffer' = SubSeq(f, h + 1, Len(f)) /\ keep' = k(h) /\ own' = mine(h) /\ need' = 0
        /\ ec' = ec
    BY <1>9
  <2>2. IF method = "head"
          THEN /\ pc' = "idle" /\ stream' \in {stream, "none", "closed"}
               /\ result' = IF mine(h) THEN "own" ELSE "foreign"
          ELSE pc' = "body" /\ stream' = stream /\ result' = "none"
    BY <1>7, <1>9 DEF H!Bodiless, H!Finish, H!Shut
  <2>3. keep' \in BOOLEAN /\ own' \in BOOLEAN
    BY <2>1
  <2>4. /\ UpTo(buffer', attempt) /\ UpTo(wire', attempt)
        /\ buffer' \in Seq(H!Pieces) /\ wire' \in Seq(H!Pieces)
        /\ \A p \in Nat : \A b : Follows(p, b) => Follows(p + h, b)'
    <3> DEFINE g == SubSeq(f, h + 1, Len(f))
    <3>1. h \in 0 .. Len(f)
      <4> HIDE DEF f
      <4>1. h \in Nat /\ Len(f) \in Nat /\ h <= Len(f)
        BY <1>3
      <4> QED
        BY <4>1
    <3>2. /\ g \in Seq(H!Pieces) /\ Len(g) = Len(f) - h /\ DOMAIN g = 1 .. Len(f) - h
          /\ \A i \in 1 .. Len(f) - h : g[i] = f[h + i]
      <4>1. g = SubSeq(f, h + 1, Len(f))
        OBVIOUS
      <4> HIDE DEF f, g
      <4> QED
        BY <1>3, <3>1, <4>1, DropFacts
    <3>3. buffer' = g
      BY <2>1
    <3> HIDE DEF g
    <3> QED
      BY <1>1, <3>1, <3>2, <3>3, Consumed
  <2>5. ~stale => mine(h) /\ h = 2
    BY <1>5
  <2> HIDE DEF f, mine, k
  <2>6. H!TypeOK'
    <3>1. 0 \in 0 .. MaxBody
      BY <1>7
    <3>2. pc' \in {"idle", "body"} /\ stream' \in {"none", "open", "shut", "closed"}
          /\ result' \in {"none", "own", "foreign"}
      BY <1>7, <2>2
    <3> QED
      BY <1>0, <1>1, <2>1, <2>3, <2>4, <2>a, <3>1, <3>2, SMTT(30) DEF H!TypeOK
  <2>7. Phase' /\ Limited' /\ Halted'
    BY <1>0, <1>1, <1>7, <2>1, <2>2 DEF Phase, Limited, Halted, H!Sticky, H!Retried, Opening
  <2>8. Ages'
    BY <1>0, <1>1, <2>2, <2>4 DEF Ages, UpTo, Before, Opening
  <2>9. Behind'
    BY <1>1, <1>4, <2>1, <2>2 DEF Behind, Before, Opening
  <2>10. ASSUME ~stale PROVE Clean'
    <3>1. PICK b \in 0 .. MaxBody : Follows(0, b)
      BY <1>5, <2>10
    <3>2. Follows(2, b)'
      <4>1. Follows(0 + 2, b)'
        BY <2>4, <2>5, <2>10, <3>1
      <4> QED
        BY <4>1
    <3>3. Handed(b, 0)' /\ b \in Nat /\ 2 \in 2 .. b + 2 /\ 0 \in 0 .. b
      BY <1>6, <1>7, <2>10
    <3>4. CASE method = "head"
      <4>1. buffer' = <<>>
        BY <1>1, <2>4, <3>2, <3>3, <3>4, NothingFollows
      <4>2. pc' = "idle" /\ result' = "own" /\ ec' = "none"
        BY <1>7, <2>1, <2>2, <2>5, <2>10, <3>4
      <4> QED
        BY <3>3, <4>1, <4>2 DEF Clean, Opening
    <3>5. CASE method # "head"
      <4>1. pc' = "body" /\ result' = "none" /\ ec' = "none" /\ own' /\ need' = 0
        BY <1>7, <2>1, <2>2, <2>5, <2>10, <3>5
      <4>2. Parsed(2, b)'
        <5>1. (IF handler' THEN 2 - 2 ELSE 0) = 0
          OBVIOUS
        <5> QED
          BY <3>2, <3>3, <4>1, <5>1 DEF Parsed
      <4> QED
        BY <3>3, <4>1, <4>2 DEF Clean, Opening
    <3> QED
      BY <3>4, <3>5
  <2>11. stale => Clean'
    BY <1>1 DEF Clean
  <2> QED
    BY <2>6, <2>7, <2>8, <2>9, <2>10, <2>11 DEF HttpIInv
<1> QED
  BY <1>2, <1>8, <1>9, Zenon

\* The piece with which a read of the body begins.
LEMMA FirstPiece ==
  ASSUME HttpIInv, pc = "body", NEW n \in 0 .. Len(wire), H!Reads(n, buffer # <<>>)
  PROVE  /\ H!Filled(n) \in Seq(H!Pieces) /\ Len(H!Filled(n)) \in Nat /\ Len(H!Filled(n)) > 0
         /\ DOMAIN H!Filled(n) = 1 .. Len(H!Filled(n))
         /\ H!Filled(n)[1] \in H!Pieces
         /\ ~stale => own /\ \E b \in 0 .. MaxBody : \E p \in 2 .. b + 2 :
                               /\ Parsed(p, b) /\ IsPiece(H!Filled(n)[1], p + 1, b)
                               /\ \A i \in DOMAIN H!Filled(n) : IsPiece(H!Filled(n)[i], p + i, b)
<1> DEFINE f == H!Filled(n)
<1>0. Clean /\ buffer \in Seq(H!Pieces)
  BY DEF HttpIInv, H!TypeOK
<1>1. f \in Seq(H!Pieces) /\ Len(f) = Len(buffer) + n /\ Len(buffer) \in Nat
      /\ \A p \in Nat : \A b : Follows(p, b) => \A i \in DOMAIN f : IsPiece(f[i], p + i, b)
  BY ReadInput
<1>2. Len(f) \in Nat /\ DOMAIN f = 1 .. Len(f)
  BY <1>1, LenProperties
<1> HIDE DEF f
<1>3. Len(buffer) > 0 \/ n > 0
  BY <1>0, EmptySeq, LenProperties DEF H!Reads
<1>4. Len(f) > 0 /\ 1 \in DOMAIN f
  BY <1>1, <1>2, <1>3
<1>5. f[1] \in H!Pieces
  BY <1>1, <1>4, ElementOfSeq, <1>2
<1>6. ASSUME ~stale
      PROVE  own /\ \E b \in 0 .. MaxBody : \E p \in 2 .. b + 2 :
               /\ Parsed(p, b) /\ IsPiece(f[1], p + 1, b)
               /\ \A i \in DOMAIN f : IsPiece(f[i], p + i, b)
  <2>1. own
    BY <1>0, <1>6 DEF Clean
  <2>2. PICK b \in 0 .. MaxBody : \E p \in 2 .. b + 2 : Parsed(p, b)
    BY <1>0, <1>6 DEF Clean
  <2>3. PICK p \in 2 .. b + 2 : Parsed(p, b)
    BY <2>2
  <2>4. p \in Nat
    BY ClientsAssumption
  <2>5. \A i \in DOMAIN f : IsPiece(f[i], p + i, b)
    BY <1>1, <2>3, <2>4 DEF Parsed
  <2> QED
    BY <1>4, <2>1, <2>3, <2>5
<1> QED
  BY <1>1, <1>2, <1>4, <1>5, <1>6 DEF f

\* Where the parser is, by what it finds.
LEMMA PieceKinds ==
  ASSUME NEW x, NEW b \in Nat, NEW p \in 2 .. b + 2, IsPiece(x, p + 1, b)
  PROVE  /\ x.of = attempt
         /\ x.kind = "first" <=> (p = 2 /\ b > 0)
         /\ x.kind = "more" <=> (2 < p /\ p < b + 2)
         /\ x.kind = "end" <=> p = b + 2
         /\ p < b + 2 => x.remain = b + 2 - p
<1>1. /\ p \in Nat /\ 2 <= p /\ p <= b + 2 /\ 2 < p + 1 /\ p + 1 # 1 /\ p + 1 # 2
      /\ (p + 1 < b + 3 <=> p < b + 2) /\ (p + 1 = b + 3 <=> p = b + 2)
      /\ (p + 1 = 3 <=> p = 2) /\ b + 3 - (p + 1) = b + 2 - p
  OBVIOUS
<1>2. /\ x.of = attempt
      /\ p < b + 2 => x.kind = (IF p = 2 THEN "first" ELSE "more") /\ x.remain = b + 2 - p
      /\ p = b + 2 => x.kind = "end"
  BY <1>1 DEF IsPiece
<1>3. CASE p < b + 2
  <2>1. p # b + 2 /\ (p = 2 => b > 0) /\ (p # 2 => 2 < p)
    BY <1>1, <1>3
  <2> QED
    BY <1>1, <1>2, <1>3, <2>1
<1>4. CASE p = b + 2
  <2>1. ~(p < b + 2) /\ ~(p = 2 /\ b > 0)
    BY <1>1, <1>4
  <2> QED
    BY <1>2, <1>4, <2>1
<1> QED
  BY <1>1, <1>3, <1>4

\* Something else where a chunk's header or more of a chunk is expected.
LEMMA HttpBadChunk ==
  ASSUME HttpIInv, NEW n \in 0 .. Len(wire), H!BadChunk(n)
  PROVE  HttpIInv'
<1>0. H!TypeOK /\ Phase /\ Limited /\ Halted /\ Ages /\ Behind /\ Clean
  BY DEF HttpIInv
<1> DEFINE f == H!Filled(n)
<1>1. /\ pc = "body" /\ H!Reads(n, buffer # <<>>)
      /\ f[1].kind \notin (IF need = 0 THEN {"first", "end"} ELSE {"more"})
      /\ pc' = "failed" /\ ec' = "bad" /\ buffer' = f /\ wire' = Rest(n)
      /\ UNCHANGED <<policy, literal, handler, calls, method, retry, attempt, fresh, stale, stream,
                     armed, keep, own, need, chunks, sends, closedAt, result, peer, todo>>
  BY DEF H!BadChunk, H!Fail, H!config, H!call, H!try, H!parser, H!seen, Rest
<1>2. f \in Seq(H!Pieces) /\ UpTo(f, attempt) /\ wire' \in Seq(H!Pieces) /\ UpTo(wire', attempt)
  BY <1>1, ReadInput
<1>3. ~stale => \E b \in 0 .. MaxBody : \E p \in 2 .. b + 2 :
                  Parsed(p, b) /\ IsPiece(f[1], p + 1, b)
  BY <1>1, FirstPiece
<1> HIDE DEF f
<1>4. H!TypeOK'
  BY <1>0, <1>1, <1>2 DEF H!TypeOK
<1>5. Phase' /\ Limited' /\ Halted'
  BY <1>0, <1>1 DEF Phase, Limited, Halted, H!Sticky, H!Retried, Opening
<1>6. Ages'
  BY <1>0, <1>1, <1>2 DEF Ages, UpTo, Before, Opening
<1>7. Behind'
  BY <1>0, <1>1 DEF Behind, Before, Opening
<1>8. ASSUME ~stale PROVE Clean'
  <2>1. PICK b \in 0 .. MaxBody : \E p \in 2 .. b + 2 : Parsed(p, b) /\ IsPiece(f[1], p + 1, b)
    BY <1>3, <1>8
  <2>2. PICK p \in 2 .. b + 2 : Parsed(p, b) /\ IsPiece(f[1], p + 1, b)
    BY <2>1
  <2>3. b \in Nat /\ p \in Nat /\ 2 <= p
    BY ClientsAssumption
  <2>4. /\ f[1].kind = "first" <=> (p = 2 /\ b > 0)
        /\ f[1].kind = "more" <=> (2 < p /\ p < b + 2)
        /\ f[1].kind = "end" <=> p = b + 2
    BY <2>2, <2>3, PieceKinds
  <2>5. need = (IF handler \/ p = 2 THEN 0 ELSE b + 2 - p) /\ Handed(b, IF handler THEN p - 2 ELSE 0)
    BY <2>2 DEF Parsed
  <2>6. handler /\ 2 < p /\ p < b + 2
    <3>1. p = 2 \/ (2 < p /\ p < b + 2) \/ p = b + 2
      BY <2>3
    <3>2. p = 2 => b = 0 \/ b > 0
      BY <2>3
    <3>3. CASE p = 2
      <4>1. need = 0 /\ (b = 0 => p = b + 2)
        BY <2>5, <3>3
      <4> QED
        BY <1>1, <2>4, <3>2, <3>3, <4>1
    <3>4. CASE p = b + 2 /\ p # 2
      <4>1. need = 0
        BY <2>3, <2>5, <3>4
      <4> QED
        BY <1>1, <2>4, <3>4, <4>1
    <3>5. CASE 2 < p /\ p < b + 2
      <4>1. f[1].kind = "more"
        BY <2>4, <3>5
      <4>2. need = 0
        BY <1>1, <4>1
      <4>3. b + 2 - p # 0 /\ p # 2
        BY <2>3, <3>5
      <4> QED
        BY <2>5, <3>5, <4>2, <4>3
    <3> QED
      BY <3>1, <3>3, <3>4, <3>5
  <2>7. p - 2 \in 0 .. b /\ 0 < p - 2 /\ p - 2 < b
    BY <2>3, <2>6
  <2>8. Handed(b, p - 2)'
    BY <1>1, <2>5, <2>6 DEF Handed, IsPiece
  <2>9. result' = "none"
    BY <1>0, <1>1 DEF Phase
  <2> QED
    BY <1>1, <2>7, <2>8, <2>9 DEF Clean, Opening
<1>9. stale => Clean'
  BY <1>1 DEF Clean
<1> QED
  BY <1>4, <1>5, <1>6, <1>7, <1>8, <1>9 DEF HttpIInv

\* The last chunk is read: nothing follows it.
LEMMA HttpReadsEnd ==
  ASSUME HttpIInv, NEW n \in 0 .. Len(wire), H!ReadEnd(n)
  PROVE  HttpIInv'
<1>0. H!TypeOK /\ Phase /\ Limited /\ Halted /\ Ages /\ Behind /\ Clean
  BY DEF HttpIInv
<1> DEFINE f == H!Filled(n)
<1>1. /\ pc = "body" /\ H!Reads(n, buffer # <<>>) /\ f[1].kind = "end"
      /\ own' = (own /\ f[1].of = attempt) /\ buffer' = Tail(f) /\ wire' = Rest(n)
      /\ pc' = "idle" /\ armed' = FALSE /\ stream' \in {stream, "none", "closed"}
      /\ result' = (IF own' THEN "own" ELSE "foreign")
      /\ UNCHANGED <<policy, literal, handler, calls, method, ec, retry, attempt, fresh, stale,
                     keep, need, chunks, sends, closedAt, peer, todo>>
  BY DEF H!ReadEnd, H!Finish, H!Shut, H!config, H!call, H!try, Rest
<1>2. /\ f \in Seq(H!Pieces) /\ Len(f) \in Nat /\ Len(f) > 0 /\ DOMAIN f = 1 .. Len(f)
      /\ ~stale => own /\ \E b \in 0 .. MaxBody : \E p \in 2 .. b + 2 :
                            Parsed(p, b) /\ IsPiece(f[1], p + 1, b)
  BY <1>1, FirstPiece
<1>3. /\ UpTo(buffer', attempt) /\ UpTo(wire', attempt)
      /\ buffer' \in Seq(H!Pieces) /\ wire' \in Seq(H!Pieces)
      /\ \A p \in Nat : \A b : Follows(p, b) => Follows(p + 1, b)'
  <2> DEFINE g == Tail(f)
  <2>1. /\ g \in Seq(H!Pieces) /\ Len(g) = Len(f) - 1 /\ DOMAIN g = 1 .. Len(f) - 1
        /\ \A i \in DOMAIN g : g[i] = f[i + 1]
    <3> HIDE DEF f
    <3>1. f # <<>>
      BY <1>2
    <3> QED
      BY <1>2, <3>1, RemovedFacts
  <2>2. \A i \in DOMAIN g : i + 1 = 1 + i
    BY <2>1
  <2>3. \A i \in DOMAIN g : g[i] = f[1 + i]
    BY <2>1, <2>2
  <2>4. 1 \in 0 .. Len(f)
    <3> HIDE DEF f
    <3> QED
      BY <1>2
  <2>5. buffer' = g
    BY <1>1
  <2> HIDE DEF g
  <2> QED
    BY <1>1, <2>1, <2>3, <2>4, <2>5, Consumed
<1> HIDE DEF f
<1>4. H!TypeOK'
  <2>1. /\ own' \in BOOLEAN /\ stream' \in {"none", "open", "shut", "closed"}
        /\ result' \in {"own", "foreign"}
    BY <1>0, <1>1 DEF H!TypeOK
  <2>2. /\ pc' = "idle" /\ armed' \in BOOLEAN
        /\ UNCHANGED <<policy, literal, handler, calls, method, ec, retry, attempt, fresh, stale,
                       keep, need, chunks, sends, peer, todo>>
    BY <1>1
  <2> QED
    BY <1>0, <1>3, <2>1, <2>2 DEF H!TypeOK
<1>5. Phase' /\ Limited' /\ Halted'
  BY <1>0, <1>1 DEF Phase, Limited, Halted, H!Sticky, H!Retried, Opening
<1>6. Ages'
  BY <1>0, <1>1, <1>3 DEF Ages, UpTo, Before, Opening
<1>7. Behind'
  BY <1>0, <1>1 DEF Behind, Before, Opening
<1>8. ASSUME ~stale PROVE Clean'
  <2>1. PICK b \in 0 .. MaxBody : \E p \in 2 .. b + 2 : Parsed(p, b) /\ IsPiece(f[1], p + 1, b)
    BY <1>2, <1>8
  <2>2. PICK p \in 2 .. b + 2 : Parsed(p, b) /\ IsPiece(f[1], p + 1, b)
    BY <2>1
  <2>3. b \in Nat /\ p \in Nat /\ 2 <= p
    BY ClientsAssumption
  <2>4. p = b + 2 /\ f[1].of = attempt
    BY <1>1, <2>2, <2>3, PieceKinds
  <2>5. p + 1 = b + 3 /\ p - 2 = b /\ p + 1 \in Nat /\ b \in 0 .. b /\ 0 \in 0 .. b
    BY <2>3, <2>4
  <2>6. Follows(p + 1, b)' /\ Handed(b, IF handler THEN p - 2 ELSE 0)
    BY <1>3, <2>2, <2>3 DEF Parsed
  <2>7. buffer' = <<>>
    BY <1>3, <2>3, <2>5, <2>6, NothingFollows
  <2>8. own' /\ result' = "own" /\ ec' = "none"
    BY <1>0, <1>1, <1>2, <1>8, <2>4 DEF Phase
  <2>9. \A c, m : Handed(c, m)' <=> Handed(c, m)
    BY <1>1 DEF Handed, IsPiece
  <2>10. \E m \in 0 .. b : Handed(b, m)' /\ m \in {0, b}
    BY <2>5, <2>6, <2>9
  <2> QED
    BY <1>1, <2>7, <2>8, <2>10 DEF Clean, Opening
<1>9. stale => Clean'
  BY <1>1 DEF Clean
<1> QED
  BY <1>4, <1>5, <1>6, <1>7, <1>8, <1>9 DEF HttpIInv

\* What is given of a chunk: what has arrived, up to its end.
LEMMA MinOfTwo ==
  ASSUME NEW x \in Nat, NEW y \in Nat
  PROVE  H!Min({x, y}) = IF x < y THEN x ELSE y
<1> DEFINE m == IF x < y THEN x ELSE y
<1>1. m \in {x, y} /\ \A z \in {x, y} : m <= z
  OBVIOUS
<1>2. \A u \in {x, y} : (\A z \in {x, y} : u <= z) => u = m
  OBVIOUS
<1> QED
  BY <1>1, <1>2 DEF H!Min

\* What chunk_handler_ was given with the chunk's first pieces.
LEMMA HandedMore ==
  ASSUME HttpIInv, NEW b \in Nat, Handed(b, 0), NEW f \in Seq(H!Pieces), NEW g \in 0 .. b, g <= Len(f),
         \A i \in DOMAIN f : IsPiece(f[i], 2 + i, b),
         chunks' = chunks \o SubSeq(f, 1, g), UNCHANGED <<attempt, method, retry>>
  PROVE  Handed(b, g)'
<1>1. chunks \in Seq(H!Pieces) /\ Len(chunks) \in Nat /\ Len(f) \in Nat /\ DOMAIN f = 1 .. Len(f)
  BY LenProperties DEF HttpIInv, H!TypeOK
<1>2. g \in 0 .. Len(f) /\ g \in Nat
  BY <1>1
<1>3. Len(chunks') = Len(chunks) + g
  BY <1>1, <1>2, FillFacts
<1>4. \A i \in 1 .. Len(chunks) : chunks'[i] = chunks[i]
  BY <1>1, <1>2, FillFacts
<1>5. \A i \in 1 .. g : chunks'[Len(chunks) + i] = f[i]
  BY <1>1, <1>2, FillFacts
<1>6. PICK q \in 0 .. Len(chunks) :
        /\ Len(chunks) = q + 0 /\ (retry => q = 0) /\ \A i \in 1 .. q : chunks[i].of # attempt
  BY DEF Handed
<1>7. q = Len(chunks) /\ q \in Nat
  BY <1>1, <1>6
<1>8. q \in 0 .. Len(chunks') /\ Len(chunks') = q + g
  BY <1>1, <1>2, <1>3, <1>7
<1>9. \A i \in 1 .. q : chunks'[i].of # attempt'
  BY <1>4, <1>6, <1>7
<1>10. ASSUME NEW i \in 1 .. g PROVE IsPiece(chunks'[q + i], i + 2, b)
  <2>1. i \in DOMAIN f /\ 2 + i = i + 2
    BY <1>1, <1>2
  <2>2. IsPiece(f[i], i + 2, b)
    BY <2>1
  <2> QED
    BY <1>5, <1>7, <2>2
<1>11. retry' => q = 0
  BY <1>6
<1> QED
  BY <1>8, <1>9, <1>10, <1>11 DEF Handed, IsPiece

\* A piece of the chunk is read: the parser goes on behind it, and the handler
\* has been given it if there is one.
LEMMA HttpReadsPiece ==
  ASSUME HttpIInv, NEW n \in 0 .. Len(wire), H!ReadPiece(n)
  PROVE  HttpIInv'
<1>0. H!TypeOK /\ Phase /\ Limited /\ Halted /\ Ages /\ Behind /\ Clean
  BY DEF HttpIInv
<1> DEFINE f == H!Filled(n)
           r == f[1].remain
           part == IF Len(f) < r THEN Len(f) ELSE r
           back == IF handler THEN r ELSE part
<1>a. armed' \in BOOLEAN
  <2>1. armed' = H!Arm(FALSE)
    BY DEF H!ReadPiece
  <2>2. H!Arm(FALSE) \in BOOLEAN
    BY <1>0, ArmFacts
  <2> QED
    BY <2>1, <2>2, Zenon
<1>1. /\ pc = "body" /\ H!Reads(n, buffer # <<>>)
      /\ f[1].kind = (IF need = 0 THEN "first" ELSE "more")
      /\ own' = (own /\ f[1].of = attempt) /\ wire' = Rest(n)
      /\ UNCHANGED <<policy, literal, handler, calls, method, pc, ec, retry, attempt, fresh, stale,
                     stream, keep, sends, closedAt, result, peer, todo>>
  BY DEF H!ReadPiece, H!config, H!call, H!try, Rest
<1>2. /\ f \in Seq(H!Pieces) /\ Len(f) \in Nat /\ Len(f) > 0 /\ DOMAIN f = 1 .. Len(f)
      /\ f[1] \in H!Pieces
      /\ ~stale => own /\ \E b \in 0 .. MaxBody : \E p \in 2 .. b + 2 :
                            /\ Parsed(p, b) /\ IsPiece(f[1], p + 1, b)
                            /\ \A i \in DOMAIN f : IsPiece(f[i], p + i, b)
  BY <1>1, FirstPiece
<1>3. r \in 0 .. MaxBody /\ r \in Nat /\ MaxBody \in Nat
  BY <1>2, ClientsAssumption DEF H!Pieces
<1>4. /\ need' = r - back /\ buffer' = SubSeq(f, back + 1, Len(f))
      /\ chunks' = IF handler THEN chunks \o SubSeq(f, 1, part) ELSE chunks
  <2>1. H!Min({Len(f), r}) = part
    BY <1>2, <1>3, MinOfTwo
  <2> QED
    BY <2>1 DEF H!ReadPiece, H!Returned
<1>5. /\ part \in Nat /\ part \in 0 .. Len(f) /\ part <= r /\ part <= Len(f)
      /\ back \in Nat /\ back <= r
      /\ part = IF back < Len(f) THEN back ELSE Len(f)
      /\ 1 <= r => 1 <= part
  <2> HIDE DEF f, r
  <2>1. Len(f) \in Nat /\ r \in Nat /\ Len(f) > 0
    BY <1>2, <1>3
  <2> QED
    BY <2>1
<1>b. PICK given \in Nat : given = part
  BY <1>5
<1> HIDE DEF part
<1>c. /\ given \in 0 .. Len(f) /\ given <= r /\ given <= Len(f) /\ (1 <= r => 1 <= given)
      /\ given = (IF back < Len(f) THEN back ELSE Len(f))
      /\ back = (IF handler THEN r ELSE given)
      /\ chunks' = IF handler THEN chunks \o SubSeq(f, 1, given) ELSE chunks
  BY <1>4, <1>5, <1>b
<1> HIDE DEF back
<1>6. /\ UpTo(buffer', attempt) /\ UpTo(wire', attempt)
      /\ buffer' \in Seq(H!Pieces) /\ wire' \in Seq(H!Pieces)
      /\ \A p \in Nat : \A b : Follows(p, b) => Follows(p + given, b)'
  <2> DEFINE g == SubSeq(f, back + 1, Len(f))
  <2>1. /\ g \in Seq(H!Pieces) /\ Len(g) = Len(f) - given /\ DOMAIN g = 1 .. Len(f) - given
        /\ \A i \in 1 .. Len(f) - given : g[i] = f[given + i]
    <3> HIDE DEF f
    <3>1. /\ f \in Seq(H!Pieces) /\ back \in Nat
          /\ given = IF back < Len(f) THEN back ELSE Len(f)
      BY <1>2, <1>5, <1>c
    <3>2. g = SubSeq(f, back + 1, Len(f))
      OBVIOUS
    <3>3. Len(f) \in Nat
      BY <1>2
    <3> HIDE DEF g
    <3>4. CASE back < Len(f)
      <4>1. back \in 0 .. Len(f) /\ given = back
        BY <3>1, <3>3, <3>4
      <4>2. f \in Seq(H!Pieces)
        BY <3>1
      <4>3. /\ g \in Seq(H!Pieces) /\ Len(g) = Len(f) - back /\ DOMAIN g = 1 .. Len(f) - back
            /\ \A i \in 1 .. Len(f) - back : g[i] = f[back + i]
        BY <3>2, <4>1, <4>2, DropFacts
      <4> QED
        BY <4>1, <4>3
    <3>5. CASE ~(back < Len(f))
      <4>1. Len(f) <= back /\ given = Len(f) /\ Len(f) - given = 0 /\ 1 .. 0 = {}
        BY <3>1, <3>3, <3>5
      <4>2. g = <<>>
        BY <3>1, <3>2, <4>1, DropAll
      <4>3. <<>> \in Seq(H!Pieces) /\ Len(<<>>) = 0 /\ DOMAIN <<>> = {}
        BY EmptySeq
      <4> QED
        BY <4>1, <4>2, <4>3
    <3> QED
      BY <3>4, <3>5
  <2>2. buffer' = g
    BY <1>4
  <2> HIDE DEF g
  <2> QED
    BY <1>1, <1>c, <2>1, <2>2, Consumed
<1>7. chunks' \in Seq(H!Pieces) /\ UpTo(chunks', attempt)
  <2>0. chunks \in Seq(H!Pieces) /\ UpTo(chunks, attempt) /\ UpTo(f, attempt)
        /\ Len(chunks) \in Nat /\ DOMAIN chunks = 1 .. Len(chunks)
    BY <1>0, ReadInput, LenProperties DEF H!TypeOK, Ages
  <2> HIDE DEF f
  <2>1. CASE handler
    <3> DEFINE u == chunks \o SubSeq(f, 1, given)
    <3>0. chunks \in Seq(H!Pieces) /\ f \in Seq(H!Pieces) /\ given \in 0 .. Len(f)
      BY <1>2, <1>c, <2>0
    <3>1. u \in Seq(H!Pieces) /\ DOMAIN u = 1 .. Len(chunks) + given
      BY <3>0, FillFacts
    <3>2. \A i \in 1 .. Len(chunks) : u[i] = chunks[i]
      BY <3>0, FillFacts
    <3>3. \A i \in 1 .. given : u[Len(chunks) + i] = f[i]
      BY <3>0, FillFacts
    <3>4. chunks' = u
      BY <1>c, <2>1
    <3> HIDE DEF u
    <3>5. ASSUME NEW i \in 1 .. Len(chunks) + given PROVE u[i].of <= attempt
      <4>1. CASE i \in 1 .. Len(chunks)
        BY <2>0, <3>2, <4>1 DEF UpTo
      <4>2. CASE i \notin 1 .. Len(chunks)
        <5>1. i - Len(chunks) \in 1 .. given /\ Len(chunks) + (i - Len(chunks)) = i
          BY <2>0, <4>2
        <5>2. i - Len(chunks) \in DOMAIN f
          <6>1. Len(f) \in Nat /\ DOMAIN f = 1 .. Len(f) /\ given <= Len(f)
            BY <1>2, <1>c
          <6> QED
            BY <5>1, <6>1
        <5>3. u[i] = f[i - Len(chunks)]
          BY <3>3, <5>1
        <5> QED
          BY <2>0, <5>2, <5>3 DEF UpTo
      <4> QED
        BY <4>1, <4>2
    <3> QED
      BY <3>1, <3>4, <3>5 DEF UpTo
  <2>2. CASE ~handler
    BY <1>c, <2>0, <2>2
  <2> QED
    BY <2>1, <2>2
<1>8. need' \in 0 .. MaxBody
  <2>1. r \in Nat /\ r <= MaxBody /\ back \in Nat /\ back <= r
    BY <1>3, <1>5
  <2> HIDE DEF r
  <2>2. r - back \in 0 .. MaxBody
    BY <1>3, <2>1
  <2> QED
    BY <1>4, <2>2
<1>9. own' \in BOOLEAN /\ (~own => ~own')
  BY <1>0, <1>1 DEF H!TypeOK
<1>10. UNCHANGED <<policy, literal, handler, calls, method, pc, ec, retry, attempt, fresh, stale,
                     stream, keep, sends, closedAt, result, peer, todo>>
  BY <1>1
<1>11. H!TypeOK'
  BY <1>0, <1>10, <1>6, <1>7, <1>8, <1>9, <1>a DEF H!TypeOK
<1>12. Phase' /\ Limited' /\ Halted'
  BY <1>0, <1>10 DEF Phase, Limited, Halted, H!Sticky
<1>13. Ages'
  <2>1. pc = "body"
    BY <1>1
  <2> QED
    BY <1>0, <1>6, <1>7, <1>10, <2>1 DEF Ages, UpTo, Before, Opening
<1>14. Behind'
  <2>1. pc = "body"
    BY <1>1
  <2> QED
    BY <1>0, <1>9, <1>10, <2>1 DEF Behind, Before, Opening
<1>15. ASSUME ~stale PROVE Clean'
  <2>1. PICK b \in 0 .. MaxBody : \E p \in 2 .. b + 2 :
          /\ Parsed(p, b) /\ IsPiece(f[1], p + 1, b) /\ \A i \in DOMAIN f : IsPiece(f[i], p + i, b)
    BY <1>2, <1>15
  <2>2. PICK p \in 2 .. b + 2 :
          /\ Parsed(p, b) /\ IsPiece(f[1], p + 1, b) /\ \A i \in DOMAIN f : IsPiece(f[i], p + i, b)
    BY <2>1
  <2>3. b \in Nat /\ p \in Nat /\ 2 <= p /\ p <= b + 2
    BY <1>3
  <2>4. /\ f[1].of = attempt
        /\ f[1].kind = "first" <=> (p = 2 /\ b > 0)
        /\ f[1].kind = "more" <=> (2 < p /\ p < b + 2)
        /\ p < b + 2 => r = b + 2 - p
    BY <2>2, <2>3, PieceKinds
  <2>5. Follows(p + given, b)' /\ Handed(b, IF handler THEN p - 2 ELSE 0)
        /\ need = IF handler \/ p = 2 THEN 0 ELSE b + 2 - p
    BY <1>6, <2>2, <2>3 DEF Parsed
  <2>6. own' /\ pc' = "body" /\ result' = "none" /\ ec' = "none"
    BY <1>0, <1>1, <1>2, <1>15, <2>4 DEF Phase
  <2>7. p < b + 2 /\ r = b + 2 - p /\ (need = 0 => p = 2)
    <3>1. f[1].kind = "first" \/ f[1].kind = "more"
      BY <1>1
    <3>2. p = 2 /\ b > 0 => p < b + 2
      BY <2>3
    <3>3. need = 0 => p = 2
      BY <1>1, <2>4
    <3> QED
      BY <2>4, <3>1, <3>2, <3>3
  <2>8. given \in Nat /\ given <= b + 2 - p /\ 1 <= given
    <3> HIDE DEF f, r
    <3>1. 1 <= r
      BY <1>3, <2>3, <2>7
    <3> QED
      BY <1>3, <1>c, <2>7, <3>1
  <2>9. CASE handler
    <3>1. p = 2 /\ need' = 0 /\ chunks' = chunks \o SubSeq(f, 1, given)
      <4>1. back = r
        BY <1>c, <2>9
      <4>2. r - r = 0
        BY <1>3
      <4> QED
        BY <1>4, <1>c, <2>5, <2>7, <2>9, <4>1, <4>2
    <3>2. given \in 0 .. b /\ 2 + given \in 2 .. b + 2 /\ (2 + given) - 2 = given
      BY <2>3, <2>8, <3>1
    <3>3. Handed(b, 0) /\ \A i \in DOMAIN f : IsPiece(f[i], 2 + i, b)
      BY <2>2, <2>5, <2>9, <3>1
    <3>4. Handed(b, given)'
      <4> HIDE DEF f
      <4> QED
        BY <1>2, <1>c, <1>10, <2>3, <3>1, <3>2, <3>3, HandedMore
    <3>5. handler'
      BY <1>10, <2>9
    <3>6. Parsed(2 + given, b)'
      BY <2>5, <3>1, <3>2, <3>4, <3>5 DEF Parsed
    <3> QED
      BY <2>6, <3>2, <3>4, <3>6 DEF Clean, Opening
  <2>10. CASE ~handler
    <3>1. need' = b + 2 - (p + given) /\ chunks' = chunks /\ ~handler'
      <4>1. back = given
        BY <1>c, <2>10
      <4>2. (b + 2 - p) - given = b + 2 - (p + given)
        BY <2>3, <2>8
      <4> QED
        BY <1>4, <1>c, <1>10, <2>7, <2>10, <4>1, <4>2
    <3>2. p + given \in 2 .. b + 2 /\ p + given # 2 /\ 0 \in 0 .. b
      BY <2>3, <2>8
    <3>3. Handed(b, 0)'
      BY <1>10, <2>5, <2>10, <3>1 DEF Handed, IsPiece
    <3>4. Parsed(p + given, b)'
      BY <2>5, <3>1, <3>2, <3>3 DEF Parsed
    <3> QED
      BY <2>6, <3>2, <3>3, <3>4 DEF Clean, Opening
  <2> QED
    BY <2>9, <2>10
<1>16. stale => Clean'
  BY <1>10 DEF Clean
<1> QED
  BY <1>11, <1>12, <1>13, <1>14, <1>15, <1>16 DEF HttpIInv

\* Every step of the http client keeps its invariant.
LEMMA HttpStep ==
  ASSUME HttpIInv, H!Next
  PROVE  HttpIInv'
<1>1. CASE \/ H!Close \/ H!CloseSocket \/ H!CloseIdle \/ H!NewStream \/ H!Resolve \/ H!StartConnect
           \/ \E e \in {"refused", "reset"} : H!ConnectFails(e)
           \/ \E e \in {"reset", "broken_pipe"} : H!WriteFails(e)
           \/ H!ReadEof \/ H!ReadReset \/ H!ShutdownEnds \/ H!Aborted \/ H!Timeout
  BY <1>1, HttpQuiet
<1>2. CASE H!Connected
  BY <1>2, HttpConnects
<1>3. CASE \E b \in 0 .. MaxBody, k \in BOOLEAN : H!Write(b, k)
  BY <1>3, HttpWrites
<1>4. CASE \E n \in 0 .. Len(wire) : H!Read(n)
  <2>1. PICK n \in 0 .. Len(wire) : H!Read(n)
    BY <1>4
  <2>2. \/ H!ReadHeader(n) \/ H!ReadPartOfHeader(n) \/ H!ReadPiece(n) \/ H!ReadEnd(n)
        \/ H!BadChunk(n)
    BY <2>1 DEF H!Read
  <2> QED
    BY <2>2, HttpReadsHeader, HttpReadsPart, HttpReadsPiece, HttpReadsEnd, HttpBadChunk
<1>5. CASE H!Catch
  BY <1>5, HttpCatches
<1>6. CASE \E m \in {"get", "head"} : H!Call(m)
  BY <1>6, HttpBegins
<1>7. CASE \E h \in BOOLEAN : H!SetChunkHandler(h)
  BY <1>7, HttpSetsHandler
<1>8. CASE H!Sends \/ \E how \in {"eof", "reset"} : H!Leaves(how)
  BY <1>8, HttpServer
<1> QED
  BY <1>1, <1>2, <1>3, <1>4, <1>5, <1>6, <1>7, <1>8, Zenon DEF H!Next, H!Client

\* And one that leaves it alone.
LEMMA HttpUnchanged ==
  ASSUME HttpIInv, UNCHANGED httpVars
  PROVE  HttpIInv'
<1>0. H!TypeOK /\ Phase /\ Limited /\ Halted /\ Ages /\ Behind /\ Clean
  BY DEF HttpIInv
<1>1. UNCHANGED <<policy, literal, handler, calls, method, pc, ec, retry, attempt, fresh, stale,
                  stream, armed, buffer, keep, own, need, chunks, sends, closedAt, result, peer,
                  todo, wire>>
  BY DEF httpVars
<1>2. H!TypeOK' /\ Phase' /\ Limited' /\ Halted'
  BY <1>0, <1>1 DEF H!TypeOK, Phase, Limited, Halted, H!Sticky
<1>3. Ages' /\ Behind' /\ Clean'
  BY <1>1, HttpKept
<1> QED
  BY <1>2, <1>3 DEF HttpIInv

\* close() holds: nothing opens or is sent any more in the request it fell into.
LEMMA CloseIsKept ==
  ASSUME HttpIInv, H!Next
  PROVE  H!CloseHolds
<1> SUFFICES ASSUME H!Sticky, closedAt' = closedAt
             PROVE  stream # "open" /\ stream' # "open" /\ sends' = sends
  BY DEF H!CloseHolds
<1>1. HttpIInv'
  BY HttpStep
<1>2. H!Sticky'
  BY DEF H!Sticky
<1>3. stream # "open" /\ stream' # "open"
  BY <1>1, <1>2 DEF HttpIInv, Halted
<1>4. \A b \in 0 .. MaxBody, k \in BOOLEAN : ~H!Write(b, k)
  BY <1>3 DEF H!Write
<1>5. \A m \in {"get", "head"} : ~H!Call(m)
  BY DEF H!Call, H!Sticky
<1>6. sends' = sends
  <2>1. CASE \/ H!Close \/ H!CloseSocket \/ H!CloseIdle \/ H!NewStream \/ H!Resolve \/ H!StartConnect
             \/ \E e \in {"refused", "reset"} : H!ConnectFails(e)
             \/ \E e \in {"reset", "broken_pipe"} : H!WriteFails(e)
             \/ H!ReadEof \/ H!ReadReset \/ H!ShutdownEnds \/ H!Aborted \/ H!Timeout
             \/ H!Connected \/ H!Catch
             \/ (\E h \in BOOLEAN : H!SetChunkHandler(h))
             \/ H!Sends \/ (\E how \in {"eof", "reset"} : H!Leaves(how))
    BY <2>1 DEF H!Close, H!CloseSocket, H!CloseIdle, H!NewStream, H!Resolve, H!StartConnect,
         H!ConnectFails, H!WriteFails, H!ReadEof, H!ReadReset, H!ShutdownEnds, H!ShutError,
         H!Aborted, H!Timeout, H!Connected, H!Catch,
         H!SetChunkHandler, H!Sends, H!Leaves, H!seen
  <2>2. CASE \E n \in 0 .. Len(wire) : H!Read(n)
    BY <2>2 DEF H!Read, H!ReadHeader, H!ReadPartOfHeader, H!ReadPiece, H!ReadEnd, H!BadChunk,
         H!seen
  <2> QED
    BY <1>4, <1>5, <2>1, <2>2, Zenon DEF H!Next, H!Client
<1> QED
  BY <1>3, <1>6

\* What the invariant says of the answers, the requests and the chunk handler.
LEMMA HttpProperties ==
  ASSUME HttpIInv
  PROVE  /\ H!TypeOK /\ H!OwnAnswer /\ H!ParsesWhatArrives /\ H!HandlerGetsTheBody
         /\ H!SentAtMostTwice
<1>0. H!TypeOK /\ Limited /\ Behind /\ Clean
  BY DEF HttpIInv
<1>1. H!OwnAnswer
  BY <1>0 DEF Behind, Clean, H!OwnAnswer
<1>2. H!SentAtMostTwice
  BY <1>0 DEF Limited, H!SentAtMostTwice
<1>3. chunks \in Seq(H!Pieces) /\ Len(chunks) \in Nat /\ attempt \in Nat /\ MaxBody \in Nat
  BY <1>0, LenProperties, ClientsAssumption DEF H!TypeOK
<1>4. ASSUME ~stale
      PROVE  \E b \in Nat, m \in Nat, q \in 0 .. Len(chunks) :
               /\ b \in Nat /\ m \in Nat /\ q \in Nat /\ m <= b
               /\ Len(chunks) = q + m /\ (retry => q = 0)
               /\ \A i \in 1 .. q : chunks[i].of # attempt
               /\ \A i \in q + 1 .. Len(chunks) :
                    /\ chunks[i].of = attempt /\ ((chunks[i].kind = "first") <=> (i = q + 1))
                    /\ chunks[i].remain = b + 1 - (i - q)
               /\ result = "own" => m \in {0, b}
               /\ ec = "bad" => 0 < m /\ m < b
  <2>1. PICK b \in 0 .. MaxBody : \E m \in 0 .. b :
          Handed(b, m) /\ (result = "own" => m \in {0, b}) /\ (ec = "bad" => 0 < m /\ m < b)
    BY <1>0, <1>4 DEF Clean
  <2>2. PICK m \in 0 .. b :
          Handed(b, m) /\ (result = "own" => m \in {0, b}) /\ (ec = "bad" => 0 < m /\ m < b)
    BY <2>1
  <2>3. PICK q \in 0 .. Len(chunks) :
          /\ Len(chunks) = q + m /\ (retry => q = 0)
          /\ \A i \in 1 .. q : chunks[i].of # attempt
          /\ \A i \in 1 .. m : IsPiece(chunks[q + i], i + 2, b)
    BY <2>2 DEF Handed
  <2>4. b \in Nat /\ m \in Nat /\ q \in Nat /\ m <= b
    BY <1>3
  <2>5. ASSUME NEW i \in q + 1 .. Len(chunks)
        PROVE  /\ chunks[i].of = attempt /\ ((chunks[i].kind = "first") <=> (i = q + 1))
               /\ chunks[i].remain = b + 1 - (i - q)
    <3>1. /\ i - q \in 1 .. m /\ q + (i - q) = i /\ 2 < (i - q) + 2 /\ (i - q) + 2 < b + 3
          /\ ((i - q) + 2 = 3 <=> i = q + 1) /\ b + 3 - ((i - q) + 2) = b + 1 - (i - q)
      <4>1. /\ Len(chunks) = q + m /\ b \in Nat /\ m \in Nat /\ q \in Nat /\ m <= b
            /\ i \in q + 1 .. Len(chunks)
        BY <2>3, <2>4
      <4>2. i \in Int /\ q + 1 <= i /\ i <= q + m
        BY <4>1
      <4> QED
        BY <4>1, <4>2
    <3>2. IsPiece(chunks[i], (i - q) + 2, b)
      BY <2>3, <3>1
    <3>3. /\ chunks[i].of = attempt /\ chunks[i].remain = b + 3 - ((i - q) + 2)
          /\ chunks[i].kind = (IF (i - q) + 2 = 3 THEN "first" ELSE "more")
      BY <3>1, <3>2 DEF IsPiece
    <3> QED
      BY <3>1, <3>3
  <2> QED
    BY <2>2, <2>3, <2>4, <2>5
<1>5. H!ParsesWhatArrives
  <2> SUFFICES ASSUME ec = "bad", ~stale PROVE chunks # <<>> /\ H!Last(chunks).remain > 1
    BY DEF H!ParsesWhatArrives
  <2>1. PICK b \in Nat, m \in Nat, q \in 0 .. Len(chunks) :
          /\ b \in Nat /\ m \in Nat /\ q \in Nat /\ 0 < m /\ m < b /\ Len(chunks) = q + m
          /\ \A i \in q + 1 .. Len(chunks) : chunks[i].remain = b + 1 - (i - q)
    BY <1>4
  <2>2. Len(chunks) \in q + 1 .. Len(chunks) /\ Len(chunks) > 0 /\ b + 1 - (Len(chunks) - q) > 1
    BY <2>1
  <2>3. H!Last(chunks) = chunks[Len(chunks)] /\ chunks # <<>>
    BY <1>3, <2>2 DEF H!Last
  <2> QED
    BY <2>1, <2>2, <2>3
<1>6. H!HandlerGetsTheBody
  <2> SUFFICES ASSUME ~stale
               PROVE  \E q \in 0 .. Len(chunks) :
                        /\ retry => q = 0
                        /\ \A i \in 1 .. q : chunks[i].of # attempt
                        /\ \A i \in q + 1 .. Len(chunks) :
                             /\ chunks[i].of = attempt
                             /\ (chunks[i].kind = "first") <=> (i = q + 1)
                             /\ chunks[i].remain = chunks[q + 1].remain + q + 1 - i
                        /\ result = "own" /\ q < Len(chunks) => H!Last(chunks).remain = 1
    BY DEF H!HandlerGetsTheBody
  <2>1. PICK b \in Nat, m \in Nat, q \in 0 .. Len(chunks) :
          /\ b \in Nat /\ m \in Nat /\ q \in Nat /\ m <= b
          /\ Len(chunks) = q + m /\ (retry => q = 0)
          /\ \A i \in 1 .. q : chunks[i].of # attempt
          /\ \A i \in q + 1 .. Len(chunks) :
               /\ chunks[i].of = attempt /\ ((chunks[i].kind = "first") <=> (i = q + 1))
               /\ chunks[i].remain = b + 1 - (i - q)
          /\ result = "own" => m \in {0, b}
    BY <1>4
  <2>2. ASSUME NEW i \in q + 1 .. Len(chunks)
        PROVE  chunks[i].remain = chunks[q + 1].remain + q + 1 - i
    <3>1. q + 1 \in q + 1 .. Len(chunks) /\ i \in Nat
      BY <1>3, <2>1
    <3>2. chunks[q + 1].remain = b + 1 - ((q + 1) - q) /\ chunks[i].remain = b + 1 - (i - q)
      BY <2>1, <3>1
    <3>3. b + 1 - (i - q) = (b + 1 - ((q + 1) - q)) + q + 1 - i
      BY <2>1, <3>1
    <3> QED
      BY <3>2, <3>3
  <2>3. ASSUME result = "own", q < Len(chunks) PROVE H!Last(chunks).remain = 1
    <3>1. m = b
      BY <2>1, <2>3
    <3>2. /\ Len(chunks) \in q + 1 .. Len(chunks) /\ Len(chunks) > 0
          /\ b + 1 - (Len(chunks) - q) = 1
      BY <2>1, <2>3, <3>1
    <3>3. H!Last(chunks) = chunks[Len(chunks)]
      BY <1>3, <3>2 DEF H!Last
    <3> QED
      BY <2>1, <3>2, <3>3
  <2> QED
    BY <2>1, <2>2, <2>3
<1> QED
  BY <1>0, <1>1, <1>2, <1>5, <1>6
-----------------------------------------------------------------------------
(* The websocket client: its inductive invariant *)

Actions == Frames \cup Closes

\* A handler of the run is being called or may be called next.
Calling == {"open_handler", "loop", "read", "message", "close_handler"}
Up      == {"open", "closing"}

WsTypes ==
  /\ run \in {"idle", "connect", "handshake"} \cup Calling
  /\ runs \in 0 .. MaxRuns /\ began \in 0 .. runs /\ (run # "idle" => runs # 0)
  /\ conn \in {"none", "handshake", "closed"} \cup Up
  /\ pending \in Seq(Actions) /\ order \in Seq(Actions)
  /\ active \subseteq Actions /\ \A a, b \in active : a = b
  /\ submitted \subseteq Actions /\ cleared \subseteq Closes
  /\ message \in Seq(1 .. MaxIn) /\ inbox \in Seq(0 .. MaxIn)
  /\ frames \in Seq(Actions \cup {"close"})
  /\ events \in Seq({"open", "failed", "message", "close"} \X Seq(0 .. MaxIn))
  /\ threw \in BOOLEAN /\ server \in {"up", "lost"}

\* The queue keeps the order of the pushes, and what is executed precedes it.
Queued ==
  /\ IsInjective(order) /\ Range(order) = submitted
  /\ active \subseteq submitted /\ \A j \in DOMAIN pending : pending[j] \in submitted
  /\ \A i, j \in DOMAIN pending : i < j => Precedes(order, pending[i], pending[j])
  /\ \A a \in active, j \in DOMAIN pending : Precedes(order, a, pending[j])

\* What was sent on the connection precedes what is in the queue or in progress.
Sent ==
  /\ \A i \in DOMAIN frames : frames[i] # "close" => frames[i] \in submitted
  /\ \A i \in DOMAIN frames, j \in DOMAIN pending :
       frames[i] # "close" => Precedes(order, frames[i], pending[j])
  /\ \A i \in DOMAIN frames, a \in active \cap Frames :
       frames[i] # "close" => Precedes(order, frames[i], a)

\* FramesInOrder of WsClient, and no close frame on a connection that is open.
InPlace ==
  /\ conn \in {"handshake", "open"} => \A i \in DOMAIN frames : frames[i] \in Frames
  /\ \A i \in 1 .. Len(frames) - 1 : frames[i] \in Frames
  /\ \A i, j \in DOMAIN frames :
       i < j /\ frames[j] # "close" => Precedes(order, frames[i], frames[j])

\* Where a frame of a first run can be.
Placed(f) ==
  \/ f \in active \/ f \in excused \/ (\E i \in DOMAIN frames : frames[i] = f)
  \/ \E j \in DOMAIN pending : pending[j] = f

\* Nothing is lost in a first run before its connection ends, and an action that
\* met no connection is excused.
Kept ==
  /\ runs <= 1 /\ conn \notin {"closing", "closed"} => \A f \in submitted \cap Frames : Placed(f)
  /\ began = 0 => active \subseteq excused
  /\ conn = "none" => began = 0 /\ frames = <<>>
  /\ runs = 0 \/ (runs = 1 /\ run = "connect") => conn = "none"

\* The calls of the handlers, and the messages that are still to be handled.
Called ==
  /\ \A i \in DOMAIN events :
       /\ (events[i][1] \in {"open", "failed"}) <=> (i = 1)
       /\ events[i][1] \in {"close", "failed"} => i = Len(events)
       /\ events[i][1] = "message" => events[i][2] = <<i - 1>>
  /\ run \in Calling => events # <<>> /\ events[Len(events)][1] \notin {"close", "failed"}
  /\ run \in {"connect", "handshake"} => events = <<>> /\ conn \notin Up
  /\ run = "idle" /\ runs > 0 =>
       events # <<>> /\ (~threw => events[Len(events)][1] \in {"close", "failed"})
  /\ run = "read" => message = <<>>
  /\ conn = "handshake" => inbox = <<>>
  /\ conn \in Up => /\ events # <<>> /\ events[1][1] = "open"
                    /\ \A i \in DOMAIN inbox : inbox[i] = 0 \/ inbox[i] = W!Arrived + i

WsIInv == WsTypes /\ Queued /\ Sent /\ InPlace /\ Kept /\ Called
-----------------------------------------------------------------------------
\* The websocket client begins in its invariant.
LEMMA WsInit == W!Init => WsIInv
<1> SUFFICES ASSUME W!Init PROVE WsIInv
  OBVIOUS
<1>0. /\ run = "idle" /\ runs = 0 /\ conn = "none" /\ pending = <<>> /\ active = {}
      /\ submitted = {} /\ cleared = {} /\ order = <<>> /\ began = 0 /\ excused = {}
      /\ message = <<>> /\ events = <<>> /\ threw = FALSE /\ frames = <<>> /\ inbox = <<>>
      /\ server = "up"
  BY DEF W!Init, W!Q!Init
<1>1. DOMAIN <<>> = {} /\ Len(<<>>) = 0 /\ 1 .. 0 - 1 = {}
  OBVIOUS
<1>2. WsTypes
  <2>1. /\ <<>> \in Seq(Actions) /\ <<>> \in Seq(Actions \cup {"close"}) /\ <<>> \in Seq(1 .. MaxIn)
        /\ <<>> \in Seq(0 .. MaxIn)
        /\ <<>> \in Seq({"open", "failed", "message", "close"} \X Seq(0 .. MaxIn))
    BY EmptySeq
  <2>2. 0 \in 0 .. MaxRuns /\ 0 \in 0 .. 0
    BY ClientsAssumption
  <2> QED
    BY <1>0, <2>1, <2>2 DEF WsTypes
<1>3. Queued /\ Sent
  BY <1>0, <1>1 DEF Queued, Sent, IsInjective, Range
<1>4. InPlace /\ Kept
  BY <1>0, <1>1 DEF InPlace, Kept
<1>5. Called
  BY <1>0, <1>1 DEF Called, Calling, Up
<1> QED
  BY <1>2, <1>3, <1>4, <1>5 DEF WsIInv

\* The queue and the wire do not notice what does not change them.
LEMMA QueueKept ==
  ASSUME WsIInv, UNCHANGED <<pending, active, submitted, order, frames>>
  PROVE  /\ Queued' /\ Sent'
         /\ (conn' \in {"handshake", "open"} => conn \in {"handshake", "open"}) => InPlace'
  BY DEF WsIInv, Queued, Sent, InPlace, Precedes, IsInjective, Range

\* Nor do the calls of the handlers.
LEMMA CalledKept ==
  ASSUME Called, UNCHANGED <<run, runs, threw, events, message, inbox>>,
         conn' \in {conn, "closed"} \/ (conn = "open" /\ conn' = "closing")
  PROVE  Called'
  BY DEF Called, Up, W!Closed, W!Arrived, W!Last

\* send() and the second half of close() push to the queue.
LEMMA WsPush ==
  ASSUME WsIInv, NEW a \in Actions, W!Send(a) \/ W!ClosePushes(a)
  PROVE  WsIInv'
<1>0. WsTypes /\ Queued /\ Sent /\ InPlace /\ Kept /\ Called
  BY DEF WsIInv
<1>1. /\ cleared' \subseteq cleared /\ a \notin submitted
      /\ submitted' = submitted \cup {a} /\ pending' = Append(pending, a)
      /\ order' = Append(order, a)
      /\ UNCHANGED <<active, run, runs, events, threw, message, conn, excused, began, frames,
                     inbox, server>>
  BY <1>0 DEF W!Send, W!ClosePushes, W!Q!Submit, W!run, W!link
<1>2. a \notin Range(order) /\ order \in Seq(Actions) /\ pending \in Seq(Actions)
  BY <1>0, <1>1 DEF Queued, WsTypes
<1>3. /\ \A x, y : Precedes(order, x, y) => Precedes(order', x, y)
      /\ \A x \in submitted : Precedes(order', x, a)
  BY <1>0, <1>1, <1>2, PrecedesAppend DEF Queued
<1>4. /\ pending' \in Seq(Actions)
      /\ \A j \in DOMAIN pending : j \in DOMAIN pending' /\ pending'[j] = pending[j]
      /\ Len(pending) + 1 \in DOMAIN pending' /\ pending'[Len(pending) + 1] = a
      /\ \A j \in DOMAIN pending' : j \in DOMAIN pending \/ j = Len(pending) + 1
      /\ DOMAIN pending = 1 .. Len(pending) /\ Len(pending) \in Nat
  BY <1>1, <1>2, AppendedFacts
<1>5. order' \in Seq(Actions) /\ Range(order') = submitted' /\ IsInjective(order')
  BY <1>0, <1>1, <1>2, AppendFacts DEF Queued
<1>6. WsTypes'
  BY <1>0, <1>1, <1>4, <1>5 DEF WsTypes
<1>7. Queued'
  <2>1. active' \subseteq submitted' /\ \A j \in DOMAIN pending' : pending'[j] \in submitted'
    BY <1>0, <1>1, <1>4 DEF Queued
  <2>2. ASSUME NEW i \in DOMAIN pending', NEW j \in DOMAIN pending', i < j
        PROVE  Precedes(order', pending'[i], pending'[j])
    <3>1. i \in DOMAIN pending /\ pending'[i] = pending[i] /\ pending[i] \in submitted
      BY <1>0, <1>4, <2>2 DEF Queued
    <3>2. CASE j \in DOMAIN pending
      BY <1>0, <1>3, <1>4, <2>2, <3>1, <3>2 DEF Queued
    <3>3. CASE j = Len(pending) + 1
      BY <1>3, <1>4, <3>1, <3>3
    <3> QED
      BY <1>4, <3>2, <3>3
  <2>3. ASSUME NEW b \in active', NEW j \in DOMAIN pending'
        PROVE  Precedes(order', b, pending'[j])
    <3>1. b \in active /\ b \in submitted
      BY <1>0, <1>1 DEF Queued
    <3>2. CASE j \in DOMAIN pending
      BY <1>0, <1>3, <1>4, <3>1, <3>2 DEF Queued
    <3>3. CASE j = Len(pending) + 1
      BY <1>3, <1>4, <3>1, <3>3
    <3> QED
      BY <1>4, <3>2, <3>3
  <2> QED
    BY <1>5, <2>1, <2>2, <2>3 DEF Queued
<1>8. Sent'
  <2>1. ASSUME NEW i \in DOMAIN frames, NEW j \in DOMAIN pending', frames[i] # "close"
        PROVE  Precedes(order', frames[i], pending'[j])
    <3>1. frames[i] \in submitted
      BY <1>0, <2>1 DEF Sent
    <3>2. CASE j \in DOMAIN pending
      BY <1>0, <1>3, <1>4, <2>1, <3>2 DEF Sent
    <3>3. CASE j = Len(pending) + 1
      BY <1>3, <1>4, <3>1, <3>3
    <3> QED
      BY <1>4, <3>2, <3>3
  <2> QED
    BY <1>0, <1>1, <1>3, <2>1 DEF Sent
<1>9. InPlace'
  BY <1>0, <1>1, <1>3 DEF InPlace
<1>10. Kept'
  <2>1. ASSUME NEW f \in submitted' \cap Frames, runs <= 1, conn \notin {"closing", "closed"}
        PROVE  Placed(f)'
    <3>1. CASE f = a
      BY <1>4, <3>1 DEF Placed
    <3>2. CASE f \in submitted
      <4>1. Placed(f)
        BY <1>0, <2>1, <3>2 DEF Kept
      <4> QED
        BY <1>1, <1>4, <4>1 DEF Placed
    <3> QED
      BY <1>1, <3>1, <3>2
  <2> QED
    BY <1>0, <1>1, <2>1 DEF Kept
<1>11. Called'
  BY <1>0, <1>1, CalledKept
<1> QED
  BY <1>6, <1>7, <1>8, <1>9, <1>10, <1>11 DEF WsIInv

\* The first half of close() drops what has not begun.
LEMMA WsClear ==
  ASSUME WsIInv, NEW c \in Actions, W!CloseClears(c)
  PROVE  WsIInv'
<1>0. WsTypes /\ Queued /\ Sent /\ InPlace /\ Kept /\ Called
  BY DEF WsIInv
<1>1. /\ c \in Closes /\ pending' = <<>> /\ excused' = excused \cup Range(pending)
      /\ cleared' = cleared \cup {c}
      /\ UNCHANGED <<active, submitted, run, runs, events, threw, message, conn, order, began,
                     frames, inbox, server>>
  BY DEF W!CloseClears, W!Q!Discard, W!run, W!link, W!Range, Range
<1>2. pending' \in Seq(Actions) /\ DOMAIN pending' = {}
  BY <1>1, EmptySeq
<1>3. WsTypes'
  BY <1>0, <1>1, <1>2 DEF WsTypes
<1>4. Queued' /\ Sent' /\ InPlace'
  BY <1>0, <1>1, <1>2 DEF Queued, Sent, InPlace
<1>5. Kept'
  <2>1. ASSUME NEW f, Placed(f) PROVE Placed(f)'
    BY <1>1, <2>1 DEF Placed, Range
  <2> QED
    BY <1>0, <1>1, <2>1 DEF Kept
<1>6. Called'
  BY <1>0, <1>1, CalledKept
<1> QED
  BY <1>3, <1>4, <1>5, <1>6 DEF WsIInv

\* perform() takes the next action; a close begins by sending its frame.
LEMMA WsBegin ==
  ASSUME WsIInv, W!Begin
  PROVE  WsIInv'
<1>0. WsTypes /\ Queued /\ Sent /\ InPlace /\ Kept /\ Called
  BY DEF WsIInv
<1> DEFINE h == Head(pending)
<1>1. /\ pending # <<>> /\ active = {} /\ active' = {h} /\ pending' = Tail(pending)
      /\ began' = IF conn = "open" THEN runs ELSE 0
      /\ excused' = IF conn = "open" THEN excused ELSE excused \cup {h}
      /\ IF h \in Closes /\ conn = "open"
           THEN conn' = "closing" /\ frames' = Append(frames, h)
           ELSE conn' = conn /\ frames' = frames
      /\ UNCHANGED <<submitted, run, runs, events, threw, message, order, cleared, inbox, server>>
  BY DEF W!Begin, W!Q!Begin, W!run
<1>2. /\ pending' \in Seq(Actions) /\ 1 \in DOMAIN pending /\ h = pending[1] /\ h \in Actions
      /\ \A i \in DOMAIN pending' : i + 1 \in DOMAIN pending /\ pending'[i] = pending[i + 1] /\ 1 < i + 1
      /\ \A i \in DOMAIN pending : i = 1 \/ (i - 1 \in DOMAIN pending' /\ pending'[i - 1] = pending[i])
      /\ DOMAIN pending' \subseteq Nat
  BY <1>0, <1>1, RemovedFacts DEF WsTypes
<1> HIDE DEF h
<1>3. h \in submitted /\ \A i \in DOMAIN pending' : Precedes(order, h, pending'[i])
  BY <1>0, <1>2 DEF Queued
<1>4. h # "close"
  BY <1>2, ClientsAssumption DEF Actions
<1>5. Queued'
  <2>1. ASSUME NEW i \in DOMAIN pending', NEW j \in DOMAIN pending', i < j
        PROVE  Precedes(order, pending'[i], pending'[j])
    <3>1. i + 1 \in DOMAIN pending /\ j + 1 \in DOMAIN pending /\ i + 1 < j + 1
      BY <1>2, <2>1
    <3> QED
      BY <1>0, <1>2, <3>1 DEF Queued
  <2>2. \A j \in DOMAIN pending' : pending'[j] \in submitted
    BY <1>0, <1>2 DEF Queued
  <2> QED
    BY <1>0, <1>1, <1>3, <2>1, <2>2 DEF Queued
<1>6. \A i \in DOMAIN frames : frames[i] # "close" =>
        /\ frames[i] \in submitted /\ Precedes(order, frames[i], h)
        /\ \A j \in DOMAIN pending' : Precedes(order, frames[i], pending'[j])
  BY <1>0, <1>2 DEF Sent
<1>7. conn' = conn \/ (conn = "open" /\ conn' = "closing")
  BY <1>1
<1>8. Called'
  BY <1>0, <1>1, <1>7, CalledKept
<1>9. /\ runs \in 0 .. MaxRuns /\ runs \in 0 .. runs /\ 0 \in 0 .. runs
      /\ began' \in 0 .. runs /\ conn' \in {"none", "handshake", "closed"} \cup Up
  BY <1>0, <1>1, <1>7, ClientsAssumption DEF WsTypes, Up
<1>10. Kept'
  <2>1. \A i \in DOMAIN frames : i \in DOMAIN frames' /\ frames'[i] = frames[i]
    <3>1. frames \in Seq(Actions \cup {"close"}) /\ h \in Actions \cup {"close"}
      BY <1>0, <1>2 DEF WsTypes
    <3>2. \A i \in DOMAIN frames : i \in DOMAIN Append(frames, h) /\ Append(frames, h)[i] = frames[i]
      BY <3>1, AppendedFacts
    <3> QED
      BY <1>1, <3>2
  <2>2. ASSUME NEW f, Placed(f) PROVE Placed(f)'
    <3>1. ASSUME NEW j \in DOMAIN pending, pending[j] = f
          PROVE  f \in active' \/ \E k \in DOMAIN pending' : pending'[k] = f
      BY <1>1, <1>2, <3>1
    <3> QED
      BY <1>1, <2>1, <2>2, <3>1 DEF Placed
  <2>3. /\ runs <= 1 /\ conn' \notin {"closing", "closed"} =>
             \A f \in submitted' \cap Frames : Placed(f)'
    BY <1>0, <1>1, <1>7, <2>2 DEF Kept
  <2>4. began' = 0 => active' \subseteq excused'
    <3>1. CASE conn = "open"
      <4>1. began' = runs
        BY <1>1, <3>1
      <4>2. runs # 0
        BY <1>0, <3>1 DEF Kept
      <4> QED
        BY <4>1, <4>2
    <3>2. CASE conn # "open"
      BY <1>1, <3>2
    <3> QED
      BY <3>1, <3>2
  <2>5. conn' = "none" => began' = 0 /\ frames' = <<>>
    BY <1>0, <1>1, <1>7 DEF Kept
  <2>6. runs = 0 \/ (runs = 1 /\ run = "connect") => conn' = "none"
    BY <1>0, <1>1, <1>7 DEF Kept
  <2> QED
    BY <1>1, <2>3, <2>4, <2>5, <2>6 DEF Kept
<1>11. CASE h \in Closes /\ conn = "open"
  <2>1. /\ frames \in Seq(Actions \cup {"close"}) /\ h \in Actions \cup {"close"} /\ h \notin Frames
        /\ conn' = "closing" /\ frames' = Append(frames, h)
    BY <1>0, <1>1, <1>2, <1>11, ClientsAssumption DEF WsTypes
  <2>2. /\ frames' \in Seq(Actions \cup {"close"}) /\ Len(frames') = Len(frames) + 1
        /\ Len(frames) \in Nat /\ DOMAIN frames = 1 .. Len(frames)
        /\ \A i \in DOMAIN frames : i \in DOMAIN frames' /\ frames'[i] = frames[i]
        /\ Len(frames) + 1 \in DOMAIN frames' /\ frames'[Len(frames) + 1] = h
        /\ \A i \in DOMAIN frames' : i \in DOMAIN frames \/ i = Len(frames) + 1
    BY <2>1, AppendedFacts
  <2>3. \A i \in DOMAIN frames : frames[i] \in Frames /\ frames[i] # "close"
    BY <1>0, <1>11, ClientsAssumption DEF InPlace
  <2>4. WsTypes'
    BY <1>0, <1>1, <1>2, <1>9, <2>2 DEF WsTypes
  <2>5. Sent'
    BY <1>1, <1>3, <1>6, <2>1, <2>2 DEF Sent
  <2>6. InPlace'
    <3>1. \A i \in 1 .. Len(frames') - 1 : frames'[i] \in Frames
      BY <2>2, <2>3
    <3>2. ASSUME NEW i \in DOMAIN frames', NEW j \in DOMAIN frames', i < j
          PROVE  Precedes(order, frames'[i], frames'[j])
      <4>1. i \in DOMAIN frames /\ frames'[i] = frames[i]
        BY <2>2, <3>2
      <4>2. CASE j \in DOMAIN frames
        BY <1>0, <2>2, <2>3, <3>2, <4>1, <4>2 DEF InPlace
      <4>3. CASE j = Len(frames) + 1
        BY <1>6, <2>2, <2>3, <4>1, <4>3
      <4> QED
        BY <2>2, <4>2, <4>3
    <3> QED
      BY <1>1, <2>1, <3>1, <3>2 DEF InPlace
  <2> QED
    BY <1>5, <1>8, <1>10, <2>4, <2>5, <2>6 DEF WsIInv
<1>12. CASE ~(h \in Closes /\ conn = "open")
  <2>1. frames' = frames /\ conn' = conn
    BY <1>1, <1>12
  <2>2. WsTypes'
    BY <1>0, <1>1, <1>2, <1>9, <2>1 DEF WsTypes
  <2>3. Sent'
    BY <1>1, <1>6, <2>1 DEF Sent
  <2>4. InPlace'
    BY <1>0, <1>1, <2>1 DEF InPlace
  <2> QED
    BY <1>5, <1>8, <1>10, <2>2, <2>3, <2>4 DEF WsIInv
<1> QED
  BY <1>11, <1>12

\* A frame has been written.
LEMMA WsWriteDone ==
  ASSUME WsIInv, NEW a \in Actions, W!WriteDone(a)
  PROVE  WsIInv'
<1>0. WsTypes /\ Queued /\ Sent /\ InPlace /\ Kept /\ Called
  BY DEF WsIInv
<1>1. /\ a \in active /\ a \in Frames /\ conn = "open" /\ frames' = Append(frames, a)
      /\ active' = active \ {a}
      /\ UNCHANGED <<pending, submitted, run, runs, events, threw, message, conn, order, excused,
                     cleared, began, inbox, server>>
  BY DEF W!WriteDone, W!Q!End, W!run, W!history
<1>2. a # "close" /\ active' = {} /\ frames \in Seq(Actions \cup {"close"}) /\ a \in submitted
  BY <1>0, <1>1, ClientsAssumption DEF WsTypes, Queued
<1>3. /\ frames' \in Seq(Actions \cup {"close"}) /\ Len(frames') = Len(frames) + 1
      /\ Len(frames) \in Nat /\ DOMAIN frames = 1 .. Len(frames)
      /\ DOMAIN frames' = 1 .. Len(frames) + 1
      /\ \A i \in DOMAIN frames : i \in DOMAIN frames' /\ frames'[i] = frames[i]
      /\ Len(frames) + 1 \in DOMAIN frames' /\ frames'[Len(frames) + 1] = a
      /\ \A i \in DOMAIN frames' : i \in DOMAIN frames \/ i = Len(frames) + 1
  BY <1>1, <1>2, AppendedFacts
<1>4. \A i \in DOMAIN frames : frames[i] \in Frames /\ frames[i] # "close"
  BY <1>0, <1>1, ClientsAssumption DEF InPlace
<1>5. WsTypes'
  BY <1>0, <1>1, <1>2, <1>3 DEF WsTypes
<1>6. Queued'
  BY <1>0, <1>1, <1>2 DEF Queued
<1>7. Sent'
  <2>1. ASSUME NEW i \in DOMAIN frames', frames'[i] # "close"
        PROVE  /\ frames'[i] \in submitted
               /\ \A j \in DOMAIN pending : Precedes(order, frames'[i], pending[j])
    <3>1. CASE i \in DOMAIN frames
      BY <1>0, <1>3, <1>4, <3>1 DEF Sent
    <3>2. CASE i = Len(frames) + 1
      BY <1>0, <1>1, <1>2, <1>3, <3>2 DEF Queued
    <3> QED
      BY <1>3, <3>1, <3>2
  <2> QED
    BY <1>1, <1>2, <2>1 DEF Sent
<1>8. InPlace'
  <2>1. \A i \in DOMAIN frames' : frames'[i] \in Frames
    BY <1>1, <1>3, <1>4
  <2>2. \A i \in 1 .. Len(frames') - 1 : i \in DOMAIN frames'
    BY <1>3
  <2>3. ASSUME NEW i \in DOMAIN frames', NEW j \in DOMAIN frames', i < j
        PROVE  Precedes(order, frames'[i], frames'[j])
    <3>1. i \in DOMAIN frames /\ frames'[i] = frames[i]
      BY <1>3, <2>3
    <3>2. CASE j \in DOMAIN frames
      BY <1>0, <1>3, <1>4, <2>3, <3>1, <3>2 DEF InPlace
    <3>3. CASE j = Len(frames) + 1
      BY <1>0, <1>1, <1>3, <1>4, <3>1, <3>3 DEF Sent
    <3> QED
      BY <1>3, <3>2, <3>3
  <2> QED
    BY <1>1, <2>1, <2>2, <2>3 DEF InPlace
<1>9. Kept'
  <2>1. ASSUME NEW f, Placed(f) PROVE Placed(f)'
    <3>1. CASE f = a
      BY <1>3, <3>1 DEF Placed
    <3>2. CASE f # a
      BY <1>1, <1>3, <2>1, <3>2 DEF Placed
    <3> QED
      BY <3>1, <3>2
  <2> QED
    BY <1>0, <1>1, <1>2, <2>1 DEF Kept
<1>10. Called'
  BY <1>0, <1>1, CalledKept
<1> QED
  BY <1>5, <1>6, <1>7, <1>8, <1>9, <1>10 DEF WsIInv

\* async_send fails, or async_close closes the socket.
LEMMA WsActionEnds ==
  ASSUME WsIInv, NEW a \in Actions, W!SendFails(a) \/ W!CloseDone(a)
  PROVE  WsIInv'
<1>0. WsTypes /\ Queued /\ Sent /\ InPlace /\ Kept /\ Called
  BY DEF WsIInv
<1>1. /\ a \in active /\ active' = active \ {a} /\ conn' \in {conn, "closed"}
      /\ a \in Frames => conn' = IF W!Current THEN "closed" ELSE conn
      /\ a \in Closes => conn' = IF began = 0 THEN conn ELSE "closed"
      /\ UNCHANGED <<pending, submitted, run, runs, events, threw, message, order, excused,
                     cleared, began, frames, inbox, server>>
  BY ClientsAssumption DEF W!SendFails, W!CloseDone, W!Q!End, W!run, W!history, W!link
<1>2. active' = {} /\ runs \in Nat /\ began \in 0 .. runs
  BY <1>0, <1>1 DEF WsTypes
<1>3. WsTypes'
  BY <1>0, <1>1, <1>2 DEF WsTypes
<1>4. Queued' /\ Sent' /\ InPlace'
  BY <1>0, <1>1, <1>2 DEF Queued, Sent, InPlace
<1>5. conn = "none" => conn' = "none"
  <2>1. conn = "none" => began = 0
    BY <1>0 DEF Kept
  <2>2. began = 0 => ~W!Current
    BY <1>2 DEF W!Current
  <2> QED
    BY <1>1, <2>1, <2>2 DEF Actions
<1>6. Kept'
  <2>1. ASSUME NEW f \in submitted \cap Frames, runs <= 1, conn' \notin {"closing", "closed"}
        PROVE  Placed(f)'
    <3>1. Placed(f) /\ conn' = conn
      BY <1>0, <1>1, <2>1 DEF Kept
    <3>2. CASE f = a
      <4>1. ~W!Current
        BY <1>1, <2>1, <3>2
      <4>2. began = 0
        BY <1>2, <2>1, <4>1 DEF W!Current
      <4> QED
        BY <1>0, <1>1, <3>2, <4>2 DEF Kept, Placed
    <3>3. CASE f # a
      BY <1>1, <3>1, <3>3 DEF Placed
    <3> QED
      BY <3>2, <3>3
  <2> QED
    BY <1>0, <1>1, <1>2, <1>5, <2>1 DEF Kept
<1>7. Called'
  BY <1>0, <1>1, CalledKept
<1> QED
  BY <1>3, <1>4, <1>6, <1>7 DEF WsIInv

\* async_run begins, and the resolver or the connect ends: no handler has been
\* called, and a new connection has carried nothing.
LEMMA WsConnects ==
  ASSUME WsIInv, W!Run \/ W!Connected
  PROVE  WsIInv'
<1>0. WsTypes /\ Queued /\ Sent /\ InPlace /\ Kept /\ Called
  BY DEF WsIInv
<1>1. CASE W!Run
  <2>1. /\ run = "idle" /\ runs < MaxRuns /\ conn \in {"none", "closed"} /\ runs' = runs + 1
        /\ run' = "connect" /\ events' = <<>> /\ threw' = FALSE
        /\ UNCHANGED <<message, conn, pending, active, submitted, order, excused, cleared, began,
                       frames, inbox, server>>
    BY <1>1 DEF W!Run, W!queue, W!history, W!link
  <2>2. runs \in Nat /\ runs' \in 0 .. MaxRuns /\ began \in 0 .. runs' /\ runs' # 0
    BY <1>0, <2>1, ClientsAssumption DEF WsTypes
  <2>3. events' \in Seq({"open", "failed", "message", "close"} \X Seq(0 .. MaxIn))
    BY <2>1, EmptySeq
  <2>4. WsTypes'
    BY <1>0, <2>1, <2>2, <2>3 DEF WsTypes
  <2>5. Queued' /\ Sent' /\ InPlace'
    BY <2>1, QueueKept
  <2>6. Kept'
    <3>1. runs' <= 1 => runs = 0
      BY <2>1, <2>2
    <3>2. runs' # 0 /\ 0 <= 1 /\ (runs' = 1 => runs = 0)
      BY <2>1, <2>2
    <3>3. \A f : Placed(f) => Placed(f)'
      BY <2>1 DEF Placed
    <3> QED
      BY <1>0, <2>1, <3>1, <3>2, <3>3 DEF Kept
  <2>7. Called'
    <3>1. DOMAIN events' = {}
      BY <2>1
    <3> QED
      BY <1>0, <2>1, <3>1 DEF Called, Calling, Up
  <2> QED
    BY <2>4, <2>5, <2>6, <2>7 DEF WsIInv
<1>2. CASE W!Connected
  <2>1. /\ run = "connect" /\ conn' = "handshake" /\ frames' = <<>> /\ inbox' = <<>>
        /\ server' = "up" /\ run' = "handshake"
        /\ UNCHANGED <<runs, events, threw, message, pending, active, submitted, order, excused,
                       cleared, began>>
    BY <1>2 DEF W!Connected, W!queue, W!history
  <2>2. /\ frames' \in Seq(Actions \cup {"close"}) /\ inbox' \in Seq(0 .. MaxIn)
        /\ DOMAIN frames' = {} /\ DOMAIN inbox' = {} /\ 1 .. Len(frames') - 1 = {}
    BY <2>1, EmptySeq
  <2>3. WsTypes'
    BY <1>0, <2>1, <2>2 DEF WsTypes
  <2>4. Queued'
    BY <1>0, <2>1 DEF Queued
  <2>5. Sent' /\ InPlace'
    BY <2>2 DEF Sent, InPlace
  <2>6. Kept'
    <3>1. ASSUME runs <= 1 PROVE conn = "none" /\ frames = <<>>
      <4>1. runs = 0 \/ runs = 1
        BY <1>0, <3>1 DEF WsTypes
      <4> QED
        BY <1>0, <2>1, <4>1 DEF Kept
    <3>2. ASSUME NEW f, Placed(f), frames = <<>> PROVE Placed(f)'
      BY <2>1, <3>2 DEF Placed
    <3>3. runs # 0
      BY <1>0, <2>1 DEF WsTypes
    <3> QED
      BY <1>0, <2>1, <3>1, <3>2, <3>3 DEF Kept
  <2>7. Called'
    BY <1>0, <2>1, <2>2 DEF Called, Calling, Up
  <2> QED
    BY <2>3, <2>4, <2>5, <2>6, <2>7 DEF WsIInv
<1> QED
  BY <1>1, <1>2

\* The steps of a run that call no handler with a message and leave the queue and
\* the wire alone.
LEMMA WsRunning ==
  ASSUME WsIInv, W!ConnectFails \/ W!Handshake \/ W!HandlerReturns \/ W!HandlerThrows \/ W!Loop
                 \/ W!CloseHandler
  PROVE  WsIInv'
<1>0. WsTypes /\ Queued /\ Sent /\ InPlace /\ Kept /\ Called
  BY DEF WsIInv
<1>1. UNCHANGED <<pending, active, submitted, order, excused, cleared, began, frames, inbox, server,
                  runs>>
  BY DEF W!ConnectFails, W!Handshake, W!HandlerReturns, W!HandlerThrows, W!Loop, W!CloseHandler,
         W!queue, W!history, W!link
<1>2. /\ run # "idle" /\ run' # "connect" /\ run' \in {"idle"} \cup Calling
      /\ conn' \in {conn, "closed"} \/ (conn = "handshake" /\ conn' = "open")
      /\ conn' = "none" => conn = "none"
      /\ conn = "none" => conn' = "none" \/ run = "handshake"
      /\ threw' \in BOOLEAN /\ (message' = message \/ message' = <<>>)
  BY <1>0 DEF W!ConnectFails, W!Handshake, W!HandlerReturns, W!HandlerThrows, W!Loop,
              W!CloseHandler, Calling, WsTypes
<1>3. \/ events' = events \/ events' = <<<<"failed", <<>>>>>> \/ events' = <<<<"open", <<>>>>>>
      \/ events' = Append(events, <<"close", <<>>>>)
  BY DEF W!ConnectFails, W!Handshake, W!HandlerReturns, W!HandlerThrows, W!Loop, W!CloseHandler
<1> DEFINE E == {"open", "failed", "message", "close"} \X Seq(0 .. MaxIn)
<1>4. <<"failed", <<>>>> \in E /\ <<"open", <<>>>> \in E /\ <<"close", <<>>>> \in E
  <2>1. <<>> \in Seq(0 .. MaxIn)
    BY EmptySeq
  <2> QED
    BY <2>1
<1>5. events \in Seq(E)
  BY <1>0 DEF WsTypes
<1> HIDE DEF E
<1>6. events' \in Seq(E)
  <2>1. \A e \in E : <<e>> \in Seq(E)
    OBVIOUS
  <2>2. \A e \in E : Append(events, e) \in Seq(E)
    BY <1>5, AppendProperties
  <2> QED
    BY <1>3, <1>4, <1>5, <2>1, <2>2
<1>7. message' \in Seq(1 .. MaxIn)
  <2>1. <<>> \in Seq(1 .. MaxIn)
    BY EmptySeq
  <2> QED
    BY <1>0, <1>2, <2>1 DEF WsTypes
<1>8. WsTypes'
  BY <1>0, <1>1, <1>2, <1>6, <1>7 DEF WsTypes, E, Up
<1>9. Queued' /\ Sent' /\ InPlace'
  BY <1>1, <1>2, QueueKept
<1>10. Kept'
  <2>1. \A f : Placed(f) => Placed(f)'
    BY <1>1 DEF Placed
  <2>2. runs # 0
    BY <1>0, <1>2 DEF WsTypes
  <2> QED
    BY <1>0, <1>1, <1>2, <2>1, <2>2 DEF Kept
<1>11. Called'
  <2>1. CASE W!ConnectFails
    <3>1. /\ run \in {"connect", "handshake"} /\ events' = <<<<"failed", <<>>>>>> /\ run' = "idle"
          /\ conn' = IF run = "handshake" THEN "closed" ELSE conn
          /\ inbox' = inbox
      BY <2>1 DEF W!ConnectFails, W!link
    <3>2. /\ Len(events') = 1 /\ DOMAIN events' = {1} /\ events'[1][1] = "failed" /\ events' # <<>>
      BY <3>1
    <3>3. conn' \notin Up /\ (conn' = "handshake" => conn = "handshake")
      BY <1>0, <3>1 DEF Called, Up
    <3> QED
      BY <1>0, <3>1, <3>2, <3>3 DEF Called, Calling
  <2>2. CASE W!Handshake
    <3>1. /\ conn = "handshake" /\ events' = <<<<"open", <<>>>>>> /\ run' = "open_handler"
          /\ conn' = "open" /\ inbox' = inbox
      BY <2>2 DEF W!Handshake, W!link
    <3>2. /\ Len(events') = 1 /\ DOMAIN events' = {1} /\ events'[1][1] = "open" /\ events' # <<>>
      BY <3>1
    <3>3. DOMAIN inbox' = {}
      BY <1>0, <3>1 DEF Called
    <3> QED
      BY <3>1, <3>2, <3>3 DEF Called, Calling
  <2>3. CASE W!HandlerReturns \/ W!HandlerThrows
    <3>1. /\ run \in Calling /\ events' = events /\ conn' = conn /\ inbox' = inbox
          /\ run' = "loop" \/ (run' = "idle" /\ threw')
      BY <2>3 DEF W!HandlerReturns, W!HandlerThrows, Calling, W!link
    <3>2. W!Arrived' = W!Arrived
      BY <3>1 DEF W!Arrived, W!Closed, W!Last
    <3> QED
      BY <1>0, <3>1, <3>2 DEF Called, Calling
  <2>4. CASE W!Loop
    <3>1. /\ run = "loop" /\ events' = events /\ conn' = conn /\ inbox' = inbox
          /\ (run' = "read" /\ message' = <<>>) \/ run' = "close_handler"
      BY <2>4 DEF W!Loop, W!link
    <3>2. W!Arrived' = W!Arrived
      BY <3>1 DEF W!Arrived, W!Closed, W!Last
    <3> QED
      BY <1>0, <3>1, <3>2 DEF Called, Calling
  <2>5. CASE W!CloseHandler
    <3>1. /\ run = "close_handler" /\ events' = Append(events, <<"close", <<>>>>) /\ run' = "idle"
          /\ conn' = conn /\ inbox' = inbox
      BY <2>5 DEF W!CloseHandler, W!link
    <3>2. /\ Len(events') = Len(events) + 1 /\ Len(events) \in Nat /\ DOMAIN events = 1 .. Len(events)
          /\ \A i \in DOMAIN events : i \in DOMAIN events' /\ events'[i] = events[i]
          /\ events'[Len(events) + 1] = <<"close", <<>>>>
          /\ \A i \in DOMAIN events' : i \in DOMAIN events \/ i = Len(events) + 1
      BY <1>4, <1>5, <3>1, AppendedFacts
    <3>3. events # <<>> /\ events[Len(events)][1] \notin {"close", "failed"}
      BY <1>0, <3>1 DEF Called, Calling
    <3>4. Len(events) > 0 /\ events' # <<>> /\ 1 \in DOMAIN events
      BY <1>5, <1>6, <3>2, <3>3, EmptySeq
    <3>5. ASSUME NEW i \in DOMAIN events'
          PROVE  /\ (events'[i][1] \in {"open", "failed"}) <=> (i = 1)
                 /\ events'[i][1] \in {"close", "failed"} => i = Len(events')
                 /\ events'[i][1] = "message" => events'[i][2] = <<i - 1>>
      <4>1. CASE i \in DOMAIN events
        <5>1. /\ (events[i][1] \in {"open", "failed"}) <=> (i = 1)
              /\ events[i][1] \in {"close", "failed"} => i = Len(events)
              /\ events[i][1] = "message" => events[i][2] = <<i - 1>>
          BY <1>0, <4>1 DEF Called
        <5>2. events[i][1] \notin {"close", "failed"}
          BY <3>3, <5>1
        <5> QED
          BY <3>2, <4>1, <5>1, <5>2
      <4>2. CASE i = Len(events) + 1
        BY <3>2, <3>4, <4>2
      <4> QED
        BY <3>2, <4>1, <4>2
    <3>6. W!Arrived' = W!Arrived
      <4>1. ~W!Closed /\ W!Closed'
        BY <3>2, <3>3, <3>4 DEF W!Closed, W!Last
      <4> QED
        BY <3>2, <4>1 DEF W!Arrived
    <3> QED
      BY <1>0, <3>1, <3>2, <3>4, <3>5, <3>6 DEF Called, Calling
  <2> QED
    BY <2>1, <2>2, <2>3, <2>4, <2>5
<1> QED
  BY <1>8, <1>9, <1>10, <1>11 DEF WsIInv

\* A message arrives and is handed to the message handler.
LEMMA WsReadMessage ==
  ASSUME WsIInv, W!ReadMessage
  PROVE  WsIInv'
<1>0. WsTypes /\ Queued /\ Sent /\ InPlace /\ Kept /\ Called
  BY DEF WsIInv
<1> DEFINE E == {"open", "failed", "message", "close"} \X Seq(0 .. MaxIn)
           m == Head(inbox)
<1>1. /\ run = "read" /\ conn \in Up /\ inbox # <<>> /\ m # 0 /\ inbox' = Tail(inbox)
      /\ message' = Append(message, m) /\ events' = Append(events, <<"message", message'>>)
      /\ run' = "message"
      /\ UNCHANGED <<runs, threw, conn, pending, active, submitted, order, excused, cleared, began,
                     frames, server>>
  BY DEF W!ReadMessage, W!queue, W!history, Up
<1>2. /\ inbox' \in Seq(0 .. MaxIn) /\ 1 \in DOMAIN inbox /\ m = inbox[1] /\ m \in 0 .. MaxIn
      /\ \A i \in DOMAIN inbox' : i + 1 \in DOMAIN inbox /\ inbox'[i] = inbox[i + 1]
      /\ DOMAIN inbox' \subseteq Nat
  <2>1. inbox \in Seq(0 .. MaxIn) /\ inbox # <<>>
    BY <1>0, <1>1 DEF WsTypes
  <2>2. /\ Tail(inbox) \in Seq(0 .. MaxIn) /\ 1 \in DOMAIN inbox /\ m = inbox[1] /\ m \in 0 .. MaxIn
        /\ \A i \in DOMAIN Tail(inbox) : i + 1 \in DOMAIN inbox /\ Tail(inbox)[i] = inbox[i + 1]
        /\ DOMAIN Tail(inbox) = 1 .. Len(inbox) - 1 /\ Len(inbox) \in Nat
    BY <2>1, RemovedFacts
  <2> QED
    BY <1>1, <2>2
<1>3. /\ events # <<>> /\ events[Len(events)][1] \notin {"close", "failed"} /\ message = <<>>
      /\ events[1][1] = "open"
  BY <1>0, <1>1 DEF Called, Calling
<1>4. W!Arrived = Len(events) - 1
  BY <1>3 DEF W!Arrived, W!Closed, W!Last
<1>5. m = W!Arrived + 1 /\ m \in 1 .. MaxIn
  <2>1. m = 0 \/ m = W!Arrived + 1
    BY <1>0, <1>1, <1>2 DEF Called
  <2> QED
    BY <1>1, <1>2, <2>1, ClientsAssumption
<1> HIDE DEF m
<1>6. message' = <<m>>
  BY <1>1, <1>3
<1>7. message' \in Seq(1 .. MaxIn) /\ message' \in Seq(0 .. MaxIn)
  <2>1. m \in 0 .. MaxIn /\ m \in 1 .. MaxIn
    BY <1>2, <1>5
  <2> QED
    BY <1>6, <2>1
<1>8. events \in Seq(E) /\ <<"message", message'>> \in E
  BY <1>0, <1>7 DEF WsTypes
<1> HIDE DEF E
<1>9. /\ events' \in Seq(E) /\ Len(events') = Len(events) + 1 /\ Len(events) \in Nat
      /\ DOMAIN events = 1 .. Len(events)
      /\ \A i \in DOMAIN events : i \in DOMAIN events' /\ events'[i] = events[i]
      /\ events'[Len(events) + 1] = <<"message", message'>>
      /\ \A i \in DOMAIN events' : i \in DOMAIN events \/ i = Len(events) + 1
  BY <1>1, <1>8, AppendedFacts
<1>10. Len(events) > 0 /\ events' # <<>> /\ 1 \in DOMAIN events
  BY <1>3, <1>8, <1>9, EmptySeq
<1>11. WsTypes'
  BY <1>0, <1>1, <1>2, <1>7, <1>9 DEF WsTypes, E, Calling
<1>12. Queued' /\ Sent' /\ InPlace'
  BY <1>1, QueueKept
<1>13. Kept'
  <2>1. \A f : Placed(f) => Placed(f)'
    BY <1>1 DEF Placed
  <2>2. conn # "none"
    BY <1>1 DEF Up
  <2> QED
    BY <1>0, <1>1, <2>1, <2>2 DEF Kept
<1>14. ASSUME NEW i \in DOMAIN events'
       PROVE  /\ (events'[i][1] \in {"open", "failed"}) <=> (i = 1)
              /\ events'[i][1] \in {"close", "failed"} => i = Len(events')
              /\ events'[i][1] = "message" => events'[i][2] = <<i - 1>>
  <2>1. CASE i \in DOMAIN events
    <3>1. /\ (events[i][1] \in {"open", "failed"}) <=> (i = 1)
          /\ events[i][1] \in {"close", "failed"} => i = Len(events)
          /\ events[i][1] = "message" => events[i][2] = <<i - 1>>
      BY <1>0, <2>1 DEF Called
    <3>2. events[i][1] \notin {"close", "failed"}
      BY <1>3, <3>1
    <3> QED
      BY <1>9, <2>1, <3>1, <3>2
  <2>2. CASE i = Len(events) + 1
    <3>1. events'[i][1] = "message" /\ events'[i][2] = <<m>> /\ i # 1
      BY <1>6, <1>9, <1>10, <2>2
    <3>2. m = i - 1
      BY <1>4, <1>5, <1>9, <2>2
    <3> QED
      BY <3>1, <3>2
  <2> QED
    BY <1>9, <2>1, <2>2
<1>15. W!Arrived' = W!Arrived + 1 /\ events'[Len(events')][1] = "message"
  <2>1. events'[Len(events')][1] = "message"
    BY <1>9
  <2>2. ~W!Closed'
    BY <2>1 DEF W!Closed, W!Last
  <2>3. W!Arrived' = Len(events') - 1
    BY <2>2 DEF W!Arrived
  <2> QED
    BY <1>4, <1>9, <2>1, <2>3
<1>16. ASSUME NEW i \in DOMAIN inbox' PROVE inbox'[i] = 0 \/ inbox'[i] = W!Arrived' + i
  <2>1. inbox[i + 1] = 0 \/ inbox[i + 1] = W!Arrived + (i + 1)
    BY <1>0, <1>1, <1>2 DEF Called
  <2>2. W!Arrived + (i + 1) = (W!Arrived + 1) + i
    BY <1>2, <1>4, <1>9
  <2> QED
    BY <1>2, <1>15, <2>1, <2>2
<1>17. Called'
  <2>1. events'[1][1] = "open" /\ conn' # "handshake"
    BY <1>1, <1>3, <1>9, <1>10 DEF Up
  <2> QED
    BY <1>1, <1>10, <1>14, <1>15, <1>16, <2>1 DEF Called, Calling
<1> QED
  BY <1>11, <1>12, <1>13, <1>17 DEF WsIInv

\* The read fails: the server closed and is answered, or the connection is gone.
LEMMA WsReadFails ==
  ASSUME WsIInv, W!ReadFails
  PROVE  WsIInv'
<1>0. WsTypes /\ Queued /\ Sent /\ InPlace /\ Kept /\ Called
  BY DEF WsIInv
<1>1. /\ run = "read" /\ conn' = "closed" /\ run' = "close_handler"
      /\ frames' = frames \/ (conn = "open" /\ frames' = Append(frames, "close"))
      /\ inbox' = inbox \/ (inbox # <<>> /\ inbox' = Tail(inbox))
      /\ UNCHANGED <<runs, events, threw, message, pending, active, submitted, order, excused,
                     cleared, began, server>>
  BY DEF W!ReadFails, W!queue, W!history
<1>2. inbox' \in Seq(0 .. MaxIn)
  <2>1. inbox \in Seq(0 .. MaxIn)
    BY <1>0 DEF WsTypes
  <2>2. inbox # <<>> => Tail(inbox) \in Seq(0 .. MaxIn)
    BY <2>1, RemovedFacts
  <2> QED
    BY <1>1, <2>1, <2>2
<1>3. runs # 0
  BY <1>0, <1>1 DEF WsTypes
<1>4. Called'
  BY <1>0, <1>1 DEF Called, Calling, Up
<1>5. CASE frames' = frames
  <2>1. WsTypes'
    BY <1>0, <1>1, <1>2, <1>5 DEF WsTypes, Calling
  <2>2. Queued' /\ Sent' /\ InPlace'
    BY <1>1, <1>5, QueueKept
  <2>3. Kept'
    BY <1>0, <1>1, <1>3 DEF Kept
  <2> QED
    BY <1>4, <2>1, <2>2, <2>3 DEF WsIInv
<1>6. CASE conn = "open" /\ frames' = Append(frames, "close")
  <2>1. frames \in Seq(Actions \cup {"close"}) /\ "close" \in Actions \cup {"close"}
    BY <1>0 DEF WsTypes
  <2>2. /\ frames' \in Seq(Actions \cup {"close"}) /\ Len(frames') = Len(frames) + 1
        /\ Len(frames) \in Nat /\ DOMAIN frames = 1 .. Len(frames)
        /\ \A i \in DOMAIN frames : i \in DOMAIN frames' /\ frames'[i] = frames[i]
        /\ frames'[Len(frames) + 1] = "close"
        /\ \A i \in DOMAIN frames' : i \in DOMAIN frames \/ i = Len(frames) + 1
    BY <1>6, <2>1, AppendedFacts
  <2>3. \A i \in DOMAIN frames : frames[i] \in Frames
    BY <1>0, <1>6 DEF InPlace
  <2>4. WsTypes'
    BY <1>0, <1>1, <1>2, <2>2 DEF WsTypes, Calling
  <2>5. Queued'
    BY <1>0, <1>1 DEF Queued
  <2>6. Sent'
    BY <1>0, <1>1, <2>2 DEF Sent
  <2>7. InPlace'
    <3>1. \A i \in 1 .. Len(frames') - 1 : frames'[i] \in Frames
      BY <2>2, <2>3
    <3>2. ASSUME NEW i \in DOMAIN frames', NEW j \in DOMAIN frames', i < j, frames'[j] # "close"
          PROVE  Precedes(order, frames'[i], frames'[j])
      <4>1. j \in DOMAIN frames /\ frames'[j] = frames[j]
        BY <2>2, <3>2
      <4>2. i \in DOMAIN frames /\ frames'[i] = frames[i]
        BY <2>2, <3>2, <4>1
      <4> QED
        BY <1>0, <3>2, <4>1, <4>2 DEF InPlace
    <3> QED
      BY <1>1, <3>1, <3>2 DEF InPlace
  <2>8. Kept'
    BY <1>0, <1>1, <1>3, <1>6 DEF Kept
  <2> QED
    BY <1>4, <2>4, <2>5, <2>6, <2>7, <2>8 DEF WsIInv
<1> QED
  BY <1>1, <1>5, <1>6

\* The server sends, closes or is lost.
LEMMA WsServer ==
  ASSUME WsIInv, W!ServerSends \/ W!ServerCloses \/ W!ServerLost
  PROVE  WsIInv'
<1>0. WsTypes /\ Queued /\ Sent /\ InPlace /\ Kept /\ Called
  BY DEF WsIInv
<1>1. /\ conn \in Up /\ server' \in {"up", "lost"}
      /\ UNCHANGED <<run, runs, events, threw, message, conn, pending, active, submitted, order,
                     excused, cleared, began, frames>>
  BY <1>0 DEF W!ServerSends, W!ServerCloses, W!ServerLost, W!Talks, W!run, W!queue, W!history, Up,
              WsTypes
<1>2. Len(inbox) \in Nat /\ Len(events) \in Nat /\ events # <<>> /\ events[1][1] = "open"
  BY <1>0, <1>1 DEF WsTypes, Called
<1>3. W!Arrived \in Nat
  <2>1. Len(events) > 0
    BY <1>0, <1>2, EmptySeq DEF WsTypes
  <2>2. CASE W!Closed
    <3>1. events[Len(events)][1] = "close"
      BY <2>2 DEF W!Closed, W!Last
    <3>2. Len(events) # 1
      BY <1>2, <3>1
    <3> QED
      BY <1>2, <2>1, <2>2, <3>2 DEF W!Arrived
  <2>3. CASE ~W!Closed
    BY <1>2, <2>1, <2>3 DEF W!Arrived
  <2> QED
    BY <2>2, <2>3
<1>4. inbox' = inbox \/ \E y \in 0 .. MaxIn :
        inbox' = Append(inbox, y) /\ (y = 0 \/ y = W!Arrived + Len(inbox) + 1)
  <2>1. CASE W!ServerSends
    BY <1>2, <1>3, <2>1, ClientsAssumption DEF W!ServerSends
  <2>2. CASE W!ServerCloses
    BY <2>2, ClientsAssumption DEF W!ServerCloses
  <2>3. CASE W!ServerLost
    BY <2>3 DEF W!ServerLost
  <2> QED
    BY <2>1, <2>2, <2>3
<1>5. W!Arrived' = W!Arrived
  BY <1>1 DEF W!Arrived, W!Closed, W!Last
<1>6. inbox' \in Seq(0 .. MaxIn) /\ \A i \in DOMAIN inbox' : inbox'[i] = 0 \/ inbox'[i] = W!Arrived + i
  <2>0. \A i \in DOMAIN inbox : inbox[i] = 0 \/ inbox[i] = W!Arrived + i
    BY <1>0, <1>1 DEF Called
  <2>1. CASE inbox' = inbox
    BY <1>0, <2>0, <2>1 DEF WsTypes
  <2>2. CASE inbox' # inbox
    <3>0. PICK y \in 0 .. MaxIn :
            inbox' = Append(inbox, y) /\ (y = 0 \/ y = W!Arrived + Len(inbox) + 1)
      BY <1>4, <2>2
    <3>a. inbox \in Seq(0 .. MaxIn)
      BY <1>0 DEF WsTypes
    <3>1. /\ Append(inbox, y) \in Seq(0 .. MaxIn)
          /\ \A i \in DOMAIN inbox : Append(inbox, y)[i] = inbox[i]
          /\ Append(inbox, y)[Len(inbox) + 1] = y
          /\ \A i \in DOMAIN Append(inbox, y) : i \in DOMAIN inbox \/ i = Len(inbox) + 1
      BY <3>a, <3>0, AppendedFacts
    <3>2. /\ inbox' \in Seq(0 .. MaxIn)
          /\ \A i \in DOMAIN inbox : inbox'[i] = inbox[i]
          /\ inbox'[Len(inbox) + 1] = y
          /\ \A i \in DOMAIN inbox' : i \in DOMAIN inbox \/ i = Len(inbox) + 1
      BY <3>0, <3>1
    <3>3. y = 0 \/ y = W!Arrived + (Len(inbox) + 1)
      BY <1>2, <1>3, <3>0
    <3> QED
      BY <2>0, <3>2, <3>3
  <2> QED
    BY <2>1, <2>2
<1>7. WsTypes'
  BY <1>0, <1>1, <1>6 DEF WsTypes
<1>8. Queued' /\ Sent' /\ InPlace'
  BY <1>1, QueueKept
<1>9. Kept'
  <2>1. \A f : Placed(f) => Placed(f)'
    BY <1>1 DEF Placed
  <2> QED
    BY <1>0, <1>1, <2>1 DEF Kept
<1>10. Called'
  BY <1>0, <1>1, <1>5, <1>6 DEF Called, Up
<1> QED
  BY <1>7, <1>8, <1>9, <1>10 DEF WsIInv

\* Every step of the websocket client keeps its invariant.
LEMMA WsStep == WsIInv /\ W!Next => WsIInv'
<1> SUFFICES ASSUME WsIInv, W!Next PROVE WsIInv'
  OBVIOUS
<1>1. ASSUME NEW a \in Actions,
             \/ W!Send(a) \/ W!CloseClears(a) \/ W!ClosePushes(a) \/ W!WriteDone(a)
             \/ W!SendFails(a) \/ W!CloseDone(a)
      PROVE  WsIInv'
  BY <1>1, WsPush, WsClear, WsWriteDone, WsActionEnds
<1>2. CASE W!Begin
  BY <1>2, WsBegin
<1>3. CASE W!Run \/ W!Connected
  BY <1>3, WsConnects
<1>4. CASE W!ConnectFails \/ W!Handshake \/ W!HandlerReturns \/ W!HandlerThrows \/ W!Loop
           \/ W!CloseHandler
  BY <1>4, WsRunning
<1>5. CASE W!ReadMessage \/ W!ReadFails
  BY <1>5, WsReadMessage, WsReadFails
<1>6. CASE W!ServerSends \/ W!ServerCloses \/ W!ServerLost
  BY <1>6, WsServer
<1> QED
  BY <1>1, <1>2, <1>3, <1>4, <1>5, <1>6 DEF W!Next, W!Running, Actions

\* And one that leaves it alone.
LEMMA WsUnchanged == WsIInv /\ UNCHANGED wsVars => WsIInv'
<1> SUFFICES ASSUME WsIInv, UNCHANGED wsVars PROVE WsIInv'
  OBVIOUS
<1>0. WsTypes /\ Queued /\ Sent /\ InPlace /\ Kept /\ Called
  BY DEF WsIInv
<1>1. UNCHANGED <<run, runs, conn, pending, active, submitted, order, cleared, began, excused,
                  message, events, threw, frames, inbox, server>>
  BY DEF wsVars
<1>2. WsTypes'
  BY <1>0, <1>1 DEF WsTypes
<1>3. Queued' /\ Sent' /\ InPlace'
  BY <1>1, QueueKept
<1>4. Kept'
  BY <1>0, <1>1 DEF Kept, Placed
<1>5. Called'
  BY <1>0, <1>1, CalledKept
<1> QED
  BY <1>2, <1>3, <1>4, <1>5 DEF WsIInv

\* What the inductive invariant says of the properties of WsClient.
LEMMA WsProperties ==
  ASSUME WsIInv
  PROVE  W!TypeOK /\ W!FramesInOrder /\ W!NothingLost /\ W!HandlersInOrder
<1>0. WsTypes /\ Queued /\ Sent /\ InPlace /\ Kept /\ Called
  BY DEF WsIInv
<1>1. W!TypeOK
  <2>1. W!Range(frames) \subseteq Actions \cup {"close"}
    <3>1. \A i \in DOMAIN frames : frames[i] \in Actions \cup {"close"}
      BY <1>0 DEF WsTypes
    <3> QED
      BY <3>1 DEF W!Range
  <2> QED
    BY <1>0, <2>1 DEF WsTypes, W!TypeOK, Actions, Calling, Up
<1>2. W!FramesInOrder
  BY <1>0 DEF InPlace, Precedes, W!FramesInOrder, W!Before
<1>3. W!NothingLost
  <2>1. ASSUME runs = 1, conn \notin {"closing", "closed"}, NEW f \in W!Lost PROVE FALSE
    <3>1. /\ f \in submitted \cap Frames /\ f \notin active /\ f \notin excused
          /\ \A i \in DOMAIN frames : frames[i] # f
          /\ \A j \in DOMAIN pending : pending[j] # f
      BY <2>1 DEF W!Lost, W!Range
    <3>2. runs <= 1
      BY <2>1
    <3> QED
      BY <1>0, <2>1, <3>1, <3>2 DEF Kept, Placed
  <2> QED
    BY <2>1 DEF W!NothingLost
<1>4. W!HandlersInOrder
  BY <1>0 DEF Called, W!HandlersInOrder, W!Last
<1> QED
  BY <1>1, <1>2, <1>3, <1>4
-----------------------------------------------------------------------------
(* The clients *)

ClientsIInv == client \in {"http", "websocket"} /\ HttpIInv /\ WsIInv

\* The invariant holds at first and is kept by every step of either client.
LEMMA ClientsInvariant == Spec => []ClientsIInv
<1>1. Init => ClientsIInv
  BY HttpInit, WsInit DEF Init, ClientsIInv
<1>2. ClientsIInv /\ [Next]_vars => ClientsIInv'
  <2> SUFFICES ASSUME ClientsIInv, [Next]_vars PROVE ClientsIInv'
    OBVIOUS
  <2>0. HttpIInv /\ WsIInv /\ client \in {"http", "websocket"}
    BY DEF ClientsIInv
  <2>1. CASE InHttp(H!Next)
    <3>1. H!Next /\ UNCHANGED wsVars /\ client' = client
      BY <2>1 DEF InHttp
    <3> QED
      BY <2>0, <3>1, HttpStep, WsUnchanged DEF ClientsIInv
  <2>2. CASE InWs(W!Next)
    <3>1. W!Next /\ UNCHANGED httpVars /\ client' = client
      BY <2>2 DEF InWs
    <3> QED
      BY <2>0, <3>1, HttpUnchanged, WsStep DEF ClientsIInv
  <2>3. CASE UNCHANGED vars
    <3>1. UNCHANGED httpVars /\ UNCHANGED wsVars /\ client' = client
      BY <2>3 DEF vars
    <3> QED
      BY <2>0, <3>1, HttpUnchanged, WsUnchanged DEF ClientsIInv
  <2> QED
    BY <2>1, <2>2, <2>3 DEF Next
<1> QED
  BY <1>1, <1>2, PTL DEF Spec

\* Every variable of both clients stays in its type.
THEOREM ClientsTypeCorrect == Spec => []TypeOK
<1>1. ClientsIInv => TypeOK
  BY HttpProperties, WsProperties DEF ClientsIInv, TypeOK
<1> QED
  BY <1>1, ClientsInvariant, PTL

\* A request is sent twice at the most, what the server sends is parsed, and a
\* call and its chunk_handler_ are given the answer to it: for any number of
\* calls and any length of a body.
THEOREM AnswersOwn == Spec => []AnswersAreOwn
<1>1. ClientsIInv => AnswersAreOwn
  BY HttpProperties DEF ClientsIInv, AnswersAreOwn
<1> QED
  BY <1>1, ClientsInvariant, PTL

\* After close() in the course of a request nothing is opened or sent until the
\* next one, for any number of requests and however the server answers; except at
\* two moments and in one race with the pending operation, which Sticky leaves out.
THEOREM CloseIsFinal == Spec => CloseSticks
<1>1. ClientsIInv /\ [Next]_vars => [H!CloseHolds]_vars
  <2> SUFFICES ASSUME ClientsIInv, Next PROVE H!CloseHolds \/ UNCHANGED vars
    OBVIOUS
  <2>1. CASE InHttp(H!Next)
    <3>1. HttpIInv /\ H!Next
      BY <2>1 DEF InHttp, ClientsIInv
    <3> QED
      BY <3>1, CloseIsKept
  <2>2. CASE InWs(W!Next)
    <3>1. UNCHANGED <<stream, sends, closedAt>> /\ HttpIInv
      BY <2>2 DEF InWs, httpVars, ClientsIInv
    <3> QED
      BY <3>1 DEF H!CloseHolds, HttpIInv, Halted
  <2> QED
    BY <2>1, <2>2 DEF Next
<1> QED
  BY <1>1, ClientsInvariant, PTL DEF Spec, CloseSticks

\* The frames of a websocket client go out in the order of the calls, none of a
\* first run is lost before its connection ends, and its handlers are called in
\* their order: for every set of frames and any number of runs and messages.
THEOREM ClientKeepsOrder == Spec => []ClientFramesInOrder
<1>1. ClientsIInv => ClientFramesInOrder
  BY WsProperties DEF ClientsIInv, ClientFramesInOrder
<1> QED
  BY <1>1, ClientsInvariant, PTL
=============================================================================
