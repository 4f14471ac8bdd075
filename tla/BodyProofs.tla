----------------------------- MODULE BodyProofs -----------------------------
(* Proofs about the bodies of Messages: of every body, in whatever pieces,    *)
(* chunks and reads it comes, what its reader accepts is what was sent.  They *)
(* rest on an inductive invariant of that part's own, BodyIInv; with those of *)
(* MessagesProofs it gives the types of all four parts.                       *)
EXTENDS MessagesProofs
-----------------------------------------------------------------------------
(* The inductive invariant *)

\* What the pieces of a body are made of, and what is sent.
PlainUnits ==
  [unit : {"x", "--boundary crlf", "field header", "crlf", "--boundary--"}, at : Nat]
Carriable == PlainUnits \cup {B!End}
WireUnits == [unit : {"chunk"}, at : Nat] \cup Carriable

\* The text of the first i pieces.
Sofar[i \in 0 .. Len(pieces)] == IF i = 0 THEN <<>> ELSE Sofar[i - 1] \o pieces[i]

\* The states each variable ranges over.
BodyTypes ==
  /\ B!TypeOK
  /\ wire \in Seq(WireUnits) /\ deflating \in Seq(PlainUnits) /\ inflating \in Seq(Carriable)
  /\ enc # "br" => decoded \in Seq(PlainUnits) /\ got \in Seq(PlainUnits)

\* The message: no piece is empty but the only one of a text, or that of a form;
\* the delimiter that closes a form is the last but one unit of it.
Sendable ==
  /\ pieces \in Seq(Seq(PlainUnits))
  /\ framing = "length" => enc = "none"
  /\ kind # "form" => \A i \in 1 .. Len(pieces) : pieces[i] = <<>> => Len(pieces) = 1
  /\ B!Carried /\ framing = "chunked" /\ enc = "none" =>
       \A i \in 1 .. Len(pieces) : pieces[i] # <<>>
  /\ kind = "form" => \A i \in 1 .. Len(B!text) : B!text[i] = B!Closing => i = Len(B!text) - 1

\* What has been sent and what the compressor holds is what has been written.
Sending ==
  /\ C!Payload(wire) \o deflating = Sofar[windex]
  /\ enc = "none" => deflating = <<>> /\ \A p \in 1 .. Len(wire) : wire[p] # B!End
  /\ framing = "length" => wire \in Seq(PlainUnits)
  /\ ~sent /\ windex = Len(pieces) => pieces = <<>>
  /\ sent => windex = Len(pieces) /\ deflating = <<>>

\* A chunk header stands before as many units as it says, and before every other.
IsChunk(w, p) == w[p].unit = "chunk"
Chunks(w) ==
  /\ w # <<>> => IsChunk(w, 1)
  /\ \A p \in 1 .. Len(w) : IsChunk(w, p) =>
       /\ p + w[p].at <= Len(w)
       /\ \A k \in p + 1 .. p + w[p].at : ~IsChunk(w, k)
       /\ p + w[p].at < Len(w) => IsChunk(w, p + w[p].at + 1)

\* What comes before an empty chunk is all, but in a form; and no bodies but those
\* that do not get through have one that is not the last.
LastChunks ==
  \A p \in 1 .. Len(wire) : wire[p] = B!Chunk(0) =>
    /\ kind # "form" => C!Payload(SubSeq(wire, 1, p)) = B!text
    /\ B!Carried \/ enc # "none" => sent /\ p = Len(wire)

\* Nothing is read before all is sent.
Unread ==
  ~sent => /\ arrived = 0 /\ used = 0 /\ got = <<>> /\ inflating = <<>> /\ decoded = <<>>
           /\ step = "boundary_line" /\ result = "reading" /\ (framing = "chunked" => len = 0)

\* The parser is in a chunk, len before its end.
Parsing ==
  result = "reading" =>
    /\ framing = "length" => used + len = Len(B!text)
    /\ framing = "chunked" =>
         /\ used + len <= Len(wire)
         /\ \A k \in used + 1 .. used + len : ~IsChunk(wire, k)
         /\ used + len < Len(wire) => IsChunk(wire, used + len + 1)

\* Where the reader of a form is, by what it has consumed.
Marked(g, s) ==
  /\ s = "finished" => g # <<>> /\ g[Len(g)] = B!Closing
  /\ s = "eof" => Len(g) >= 2 /\ g[Len(g) - 1] = B!Closing

\* What the reader has consumed, and what it has been given and the decompressor
\* holds, is what the parser has consumed.
Consuming ==
  result = "reading" /\ enc # "br" =>
    /\ (got \o decoded) \o C!Payload(inflating) = C!Payload(SubSeq(wire, 1, used))
    /\ enc = "none" => decoded = <<>> /\ inflating = <<>>
    /\ kind = "form" => Marked(got, step)

\* The inductive invariant.
BodyIInv ==
  /\ BodyTypes /\ Sendable /\ Sending /\ (framing = "chunked" => Chunks(wire)) /\ LastChunks
  /\ Unread /\ Parsing /\ Consuming
  /\ B!AcceptedIsWhole /\ B!NothingLeftBehind

-----------------------------------------------------------------------------
(* Units, and what is kept of them *)

\* The three sorts of units are told apart by their names.
LEMMA WireUnitFacts ==
  ASSUME NEW u \in WireUnits
  PROVE  /\ u.unit \notin {"chunk", "end"} <=> u \in PlainUnits
         /\ u.unit = "end" <=> u = B!End
         /\ u \in Carriable <=> u.unit # "chunk"
         /\ u.unit = "chunk" => u.at \in Nat
<1>1. B!End.unit = "end"
  BY DEF B!End, B!Mark
<1>2. CASE u \in PlainUnits
  <2>1. u.unit \in {"x", "--boundary crlf", "field header", "crlf", "--boundary--"}
    BY <1>2 DEF PlainUnits
  <2>2. u.unit # "chunk" /\ u.unit # "end"
    BY <2>1
  <2> QED
    BY <1>1, <1>2, <2>2, Zenon DEF Carriable
<1>3. CASE u = B!End
  <2>1. u \notin PlainUnits
    BY <1>1, <1>3 DEF PlainUnits
  <2> QED
    BY <1>1, <1>3, <2>1 DEF Carriable
<1>4. CASE u \in [unit : {"chunk"}, at : Nat]
  <2>1. u.unit = "chunk" /\ u.at \in Nat
    BY <1>4
  <2>2. u \notin PlainUnits
    BY <2>1 DEF PlainUnits
  <2>3. u # B!End
    BY <1>1, <2>1
  <2>4. u.unit # "end"
    BY <2>1
  <2> QED
    BY <2>1, <2>2, <2>3, <2>4, Zenon DEF Carriable
<1> QED
  BY <1>2, <1>3, <1>4 DEF WireUnits, Carriable

\* A chunk header is one of them.
LEMMA HeaderUnitFacts ==
  ASSUME NEW n \in Nat
  PROVE  /\ B!Chunk(n) \in WireUnits /\ B!Chunk(n).unit = "chunk" /\ B!Chunk(n).at = n
         /\ B!Chunk(n) = B!Chunk(0) <=> n = 0
BY DEF WireUnits, B!Chunk

\* f keeps the units of the body, one after the other.
IsPayload(s, f) ==
  /\ f \in [0 .. Len(s) -> Seq(PlainUnits)] /\ f[0] = <<>>
  /\ \A i \in 1 .. Len(s) :
       f[i] = IF s[i].unit \in {"chunk", "end"} THEN f[i - 1] ELSE Append(f[i - 1], s[i])

\* There is such a function,
LEMMA Payloads == ASSUME NEW s \in Seq(WireUnits) PROVE \E f : IsPayload(s, f)
<1> DEFINE U    == Seq(PlainUnits)
           next == [p \in (1 .. Len(s)) \X U |->
                      IF s[p[1]].unit \in {"chunk", "end"} THEN p[2] ELSE Append(p[2], s[p[1]])]
<1>1. Len(s) \in Nat /\ \A i \in 1 .. Len(s) : s[i] \in WireUnits
  BY LenProperties, ElementOfSeq
<1>2. \A i \in 1 .. Len(s) : s[i].unit \notin {"chunk", "end"} => s[i] \in PlainUnits
  BY <1>1, WireUnitFacts, Zenon
<1>3. next \in [(1 .. Len(s)) \X U -> U]
  <2>1. ASSUME NEW p \in (1 .. Len(s)) \X U
        PROVE  (IF s[p[1]].unit \in {"chunk", "end"} THEN p[2] ELSE Append(p[2], s[p[1]])) \in U
    <3>1. p[1] \in 1 .. Len(s) /\ p[2] \in U
      OBVIOUS
    <3>2. CASE s[p[1]].unit \in {"chunk", "end"}
      BY <3>1, <3>2
    <3>3. CASE s[p[1]].unit \notin {"chunk", "end"}
      <4>1. s[p[1]] \in PlainUnits
        BY <1>2, <3>1, <3>3
      <4>2. Append(p[2], s[p[1]]) \in U
        BY <3>1, <4>1, AppendProperties
      <4> QED
        BY <3>3, <4>2, Zenon
    <3> QED
      BY <3>2, <3>3
  <2> QED
    BY <2>1, Zenon
<1>4. \A i \in 1 .. Len(s) : \A y \in U :
        next[<<i, y>>] = IF s[i].unit \in {"chunk", "end"} THEN y ELSE Append(y, s[i])
  <2> HIDE DEF U
  <2> QED
    OBVIOUS
<1>5. <<>> \in U
  OBVIOUS
<1> HIDE DEF next, U
<1>6. PICK f : IsIterate(U, <<>>, Len(s), next, f)
  BY <1>1, <1>3, <1>5, Iterates
<1>7. /\ f \in [0 .. Len(s) -> U] /\ f[0] = <<>>
      /\ \A i \in 1 .. Len(s) : f[i] = next[<<i, f[i - 1]>>]
  BY <1>6, Zenon DEF IsIterate
<1>8. ASSUME NEW i \in 1 .. Len(s)
      PROVE  f[i] = IF s[i].unit \in {"chunk", "end"} THEN f[i - 1] ELSE Append(f[i - 1], s[i])
  <2>1. i - 1 \in 0 .. Len(s)
    BY <1>1
  <2>2. f[i - 1] \in U
    BY <1>7, <2>1
  <2> QED
    BY <1>4, <1>7, <2>2, Zenon
<1>9. IsPayload(s, f)
  BY <1>7, <1>8, Zenon DEF IsPayload, U
<1> QED
  BY <1>9

\* it is the only one,
LEMMA OnePayload ==
  ASSUME NEW s, Len(s) \in Nat, NEW f, IsPayload(s, f), NEW c, c[0] = <<>>,
         \A i \in 1 .. Len(s) :
           c[i] = IF s[i].unit \in {"chunk", "end"} THEN c[i - 1] ELSE Append(c[i - 1], s[i])
  PROVE  c[Len(s)] = f[Len(s)]
<1>1. PICK n : n = Len(s)
  OBVIOUS
<1>2. n \in Nat /\ c[0] = f[0]
  BY <1>1 DEF IsPayload
<1>3. \A i \in 1 .. n : c[i - 1] = f[i - 1] => c[i] = f[i]
  BY <1>1, Zenon DEF IsPayload
<1>4. \A i \in 0 .. n : c[i] = f[i]
  <2>1. GoAlike(n, c, f)
    BY <1>2, <1>3, Zenon DEF GoAlike
  <2> QED
    BY <1>2, <2>1, SameSteps
<1>5. n \in 0 .. n
  BY <1>2
<1> QED
  BY <1>1, <1>4, <1>5, Zenon

\* and that of Payload.
LEMMA PayloadFun ==
  ASSUME NEW s \in Seq(WireUnits)
  PROVE  \E f : IsPayload(s, f) /\ C!Payload(s) = f[Len(s)]
<1> DEFINE n    == Len(s)
           E(h) == h = [i \in 0 .. n |->
                         IF i = 0 THEN <<>>
                         ELSE IF s[i].unit \in {"chunk", "end"} THEN h[i - 1]
                              ELSE Append(h[i - 1], s[i])]
           c    == CHOOSE h : E(h)
<1>1. n \in Nat
  BY LenProperties
<1>2. PICK f : IsPayload(s, f)
  BY Payloads
<1>3. E(f)
  <2>1. ASSUME NEW i \in 0 .. n
        PROVE  f[i] = IF i = 0 THEN <<>>
                      ELSE IF s[i].unit \in {"chunk", "end"} THEN f[i - 1]
                           ELSE Append(f[i - 1], s[i])
    <3>1. i = 0 \/ i \in 1 .. n
      BY <1>1
    <3> QED
      BY <1>2, <3>1, Zenon DEF IsPayload
  <2>2. f = [i \in 0 .. n |-> f[i]]
    BY <1>2 DEF IsPayload
  <2> QED
    BY <2>1, <2>2, Zenon
<1>4. E(c)
  BY <1>3, Zenon
<1>5. C!Payload(s) = c[n]
  BY DEF C!Payload
<1> HIDE DEF c
<1>6. \A i \in 0 .. n :
        c[i] = IF i = 0 THEN <<>>
               ELSE IF s[i].unit \in {"chunk", "end"} THEN c[i - 1] ELSE Append(c[i - 1], s[i])
  BY <1>4, Zenon
<1>7. /\ c[0] = <<>>
      /\ \A i \in 1 .. n :
           c[i] = IF s[i].unit \in {"chunk", "end"} THEN c[i - 1] ELSE Append(c[i - 1], s[i])
  BY <1>1, <1>6
<1>8. c[n] = f[n]
  <2>1. PICK d : d = c
    OBVIOUS
  <2> QED
    BY <1>1, <1>2, <1>7, <2>1, OnePayload
<1> QED
  BY <1>2, <1>5, <1>8, Zenon

\* What is kept of two sequences is kept of each.
LEMMA PayloadJoin ==
  ASSUME NEW s \in Seq(WireUnits), NEW t \in Seq(WireUnits)
  PROVE  C!Payload(s \o t) = C!Payload(s) \o C!Payload(t)
<1>1. PICK r : r = s \o t
  OBVIOUS
<1>2. /\ r \in Seq(WireUnits) /\ Len(r) = Len(s) + Len(t) /\ Len(s) \in Nat /\ Len(t) \in Nat
      /\ \A i \in 1 .. Len(s) : r[i] = s[i]
      /\ \A i \in 1 .. Len(t) : r[Len(s) + i] = t[i]
  BY <1>1, JoinFacts
<1>3. PICK f : IsPayload(r, f) /\ C!Payload(r) = f[Len(r)]
  BY <1>2, PayloadFun
<1>4. PICK g : IsPayload(s, g) /\ C!Payload(s) = g[Len(s)]
  BY PayloadFun
<1>5. PICK h : IsPayload(t, h) /\ C!Payload(t) = h[Len(t)]
  BY PayloadFun
<1>6. PICK m \in Nat, n \in Nat : m = Len(s) /\ n = Len(t)
  BY <1>2
<1>7. /\ f[0] = <<>>
      /\ \A i \in 1 .. m + n :
           f[i] = IF r[i].unit \in {"chunk", "end"} THEN f[i - 1] ELSE Append(f[i - 1], r[i])
  BY <1>2, <1>3, <1>6, Zenon DEF IsPayload
<1>8. /\ g[0] = <<>> /\ g[m] \in Seq(PlainUnits)
      /\ \A i \in 1 .. m :
           g[i] = IF s[i].unit \in {"chunk", "end"} THEN g[i - 1] ELSE Append(g[i - 1], s[i])
  <2>1. m \in 0 .. m
    BY <1>6
  <2>2. g \in [0 .. m -> Seq(PlainUnits)]
    BY <1>4, <1>6, Zenon DEF IsPayload
  <2> QED
    BY <1>4, <1>6, <2>1, <2>2, Zenon DEF IsPayload
<1>9. /\ h[0] = <<>> /\ \A i \in 0 .. n : h[i] \in Seq(PlainUnits)
      /\ \A i \in 1 .. n :
           h[i] = IF t[i].unit \in {"chunk", "end"} THEN h[i - 1] ELSE Append(h[i - 1], t[i])
  <2>1. h \in [0 .. n -> Seq(PlainUnits)]
    BY <1>5, <1>6, Zenon DEF IsPayload
  <2> QED
    BY <1>5, <1>6, <2>1, Zenon DEF IsPayload
<1>10. \A i \in 1 .. n : t[i].unit \notin {"chunk", "end"} => t[i] \in PlainUnits
  <2>1. \A i \in 1 .. n : t[i] \in WireUnits
    BY <1>6, ElementOfSeq
  <2> QED
    BY <2>1, WireUnitFacts, Zenon
<1>11. f[m] = g[m]
  <2>1. ASSUME NEW i \in 1 .. m, g[i - 1] = f[i - 1] PROVE g[i] = f[i]
    <3>1. i \in 1 .. m + n
      BY <1>6
    <3>2. r[i] = s[i]
      BY <1>2, <1>6
    <3> QED
      BY <1>7, <1>8, <2>1, <3>1, <3>2, Zenon
  <2>2. g[0] = f[0]
    BY <1>7, <1>8
  <2>3. \A i \in 1 .. m : g[i - 1] = f[i - 1] => g[i] = f[i]
    BY <2>1, Zenon
  <2>4. \A i \in 0 .. m : g[i] = f[i]
    <3>1. GoAlike(m, g, f)
      BY <2>2, <2>3, Zenon DEF GoAlike
    <3> QED
      BY <1>6, <3>1, SameSteps
  <2>5. m \in 0 .. m
    BY <1>6
  <2> QED
    BY <2>4, <2>5
<1>12. f[m + n] = g[m] \o h[n]
  <2> DEFINE a == [i \in 0 .. n |-> f[m + i]]
             b == [i \in 0 .. n |-> g[m] \o h[i]]
  <2>1. a[0] = b[0]
    <3>1. g[m] \o <<>> = g[m]
      BY <1>8, ConcatEmptySeq
    <3>2. a[0] = f[m] /\ b[0] = g[m] \o <<>>
      <4>1. 0 \in 0 .. n /\ m + 0 = m
        BY <1>6
      <4> QED
        BY <1>9, <4>1
    <3> HIDE DEF a, b
    <3> QED
      BY <1>11, <3>1, <3>2
  <2>2. ASSUME NEW i \in 1 .. n, a[i - 1] = b[i - 1] PROVE a[i] = b[i]
    <3>1. /\ m + i \in 1 .. m + n /\ (m + i) - 1 = m + (i - 1)
          /\ i \in 0 .. n /\ i - 1 \in 0 .. n
      BY <1>6
    <3>2. a[i] = f[m + i] /\ a[i - 1] = f[(m + i) - 1] /\ b[i] = g[m] \o h[i]
          /\ b[i - 1] = g[m] \o h[i - 1]
      BY <3>1
    <3> HIDE DEF a, b
    <3>3. r[m + i] = t[i]
      BY <1>2, <1>6
    <3>4. CASE t[i].unit \in {"chunk", "end"}
      <4>1. a[i] = a[i - 1] /\ h[i] = h[i - 1]
        BY <1>7, <1>9, <3>1, <3>2, <3>3, <3>4, Zenon
      <4> QED
        BY <2>2, <3>2, <4>1
    <3>5. CASE t[i].unit \notin {"chunk", "end"}
      <4>1. a[i] = Append(a[i - 1], t[i]) /\ h[i] = Append(h[i - 1], t[i])
        BY <1>7, <1>9, <3>1, <3>2, <3>3, <3>5, Zenon
      <4>2. g[m] \o Append(h[i - 1], t[i]) = Append(g[m] \o h[i - 1], t[i])
        <5>1. t[i] \in PlainUnits /\ h[i - 1] \in Seq(PlainUnits)
          BY <1>9, <1>10, <3>1, <3>5, Zenon
        <5>2. g[m] \in Seq(PlainUnits)
          BY <1>8
        <5>3. PICK x \in PlainUnits, y \in Seq(PlainUnits), z \in Seq(PlainUnits) :
                x = t[i] /\ y = h[i - 1] /\ z = g[m]
          BY <5>1, <5>2, Zenon
        <5>4. z \o Append(y, x) = Append(z \o y, x)
          BY SendFacts
        <5> QED
          BY <5>3, <5>4, Zenon
      <4> QED
        BY <2>2, <3>2, <4>1, <4>2, Zenon
    <3> QED
      BY <3>4, <3>5
  <2>3. a[n] = f[m + n] /\ b[n] = g[m] \o h[n] /\ n \in 0 .. n
    <3>1. n \in 0 .. n
      BY <1>6
    <3> QED
      BY <3>1
  <2> HIDE DEF a, b
  <2>4. PICK c, d : c = a /\ d = b
    OBVIOUS
  <2>5. \A i \in 1 .. n : c[i - 1] = d[i - 1] => c[i] = d[i]
    BY <2>2, <2>4, Zenon
  <2>6. c[0] = d[0]
    BY <2>1, <2>4
  <2>7. \A i \in 0 .. n : c[i] = d[i]
    <3>1. GoAlike(n, c, d)
      BY <2>5, <2>6, Zenon DEF GoAlike
    <3> QED
      BY <1>6, <3>1, SameSteps
  <2> QED
    BY <2>3, <2>4, <2>7, Zenon
<1>13. Len(r) = m + n
  BY <1>2, <1>6
<1> QED
  BY <1>1, <1>3, <1>4, <1>5, <1>6, <1>12, <1>13, Zenon

\* What is kept is of the body.
LEMMA PayloadType == ASSUME NEW s \in Seq(WireUnits) PROVE C!Payload(s) \in Seq(PlainUnits)
<1>1. PICK f : IsPayload(s, f) /\ C!Payload(s) = f[Len(s)]
  BY PayloadFun
<1>2. Len(s) \in Nat
  BY LenProperties
<1>3. f \in [0 .. Len(s) -> Seq(PlainUnits)] /\ Len(s) \in 0 .. Len(s)
  BY <1>1, <1>2 DEF IsPayload
<1> QED
  BY <1>1, <1>3

\* All is kept of what has no frames.
LEMMA PayloadPlain == ASSUME NEW s \in Seq(PlainUnits) PROVE C!Payload(s) = s
<1>1. s \in Seq(WireUnits)
  <2>1. PlainUnits \subseteq WireUnits
    BY DEF WireUnits, Carriable
  <2> QED
    BY <2>1, SeqMonotonic
<1>2. PICK f : IsPayload(s, f) /\ C!Payload(s) = f[Len(s)]
  BY <1>1, PayloadFun
<1>3. PICK n \in Nat : n = Len(s)
  BY LenProperties
<1>4. \A i \in 1 .. n : s[i].unit \notin {"chunk", "end"}
  <2>1. \A i \in 1 .. n : s[i] \in PlainUnits /\ s[i] \in WireUnits
    BY <1>1, <1>3, ElementOfSeq
  <2> QED
    BY <2>1, WireUnitFacts, Zenon
<1>5. f[0] = <<>> /\ \A i \in 1 .. n : f[i] = Append(f[i - 1], s[i])
  BY <1>2, <1>3, <1>4, Zenon DEF IsPayload
<1>6. f[n] = SubSeq(s, 1, n)
  <2>1. \A i \in 1 .. n : f[i] = IF 1 <= i /\ i <= n THEN Append(f[i - 1], s[i]) ELSE f[i - 1]
    BY <1>5
  <2>2. 1 \in Nat /\ 1 <= 1 /\ n <= Len(s) /\ 1 <= n + 1
    BY <1>3
  <2>3. f[0] = <<>> /\ \A i \in 1 .. Len(s) : f[i] = IF 1 <= i /\ i <= n THEN Append(f[i - 1], s[i]) ELSE f[i - 1]
    BY <1>3, <1>5, <2>1
  <2>4. f[Len(s)] = SubSeq(s, 1, n)
    BY <2>2, <2>3, Selection
  <2> QED
    BY <1>3, <2>4
<1>7. SubSeq(s, 1, n) = s
  BY <1>3, SubSeqFull
<1> QED
  BY <1>2, <1>3, <1>6, <1>7, Zenon

\* Nothing is kept of a frame, or of the mark at the end of a compressed stream.
LEMMA PayloadMark ==
  ASSUME NEW u \in WireUnits, u.unit \in {"chunk", "end"}
  PROVE  <<u>> \in Seq(WireUnits) /\ C!Payload(<<u>>) = <<>> /\ C!Payload(<<>>) = <<>>
<1>1. PICK s : s = <<u>>
  OBVIOUS
<1>2. s \in Seq(WireUnits) /\ Len(s) = 1 /\ s[1] = u
  BY <1>1
<1>3. PICK f : IsPayload(s, f) /\ C!Payload(s) = f[Len(s)]
  BY <1>2, PayloadFun
<1>4. f[0] = <<>> /\ f[1] = f[1 - 1]
  <2>1. 1 \in 1 .. Len(s)
    BY <1>2
  <2> QED
    BY <1>2, <1>3, <2>1, Zenon DEF IsPayload
<1>5. f[1] = f[0]
  BY <1>4
<1>6. C!Payload(<<>>) = <<>>
  <2>1. <<>> \in Seq(PlainUnits)
    OBVIOUS
  <2> QED
    BY <2>1, PayloadPlain
<1> QED
  BY <1>1, <1>2, <1>3, <1>4, <1>5, <1>6, Zenon

\* What comes out of a decompressor is what went into the compressor.
LEMMA InflatedIs ==
  ASSUME NEW s \in Seq(Carriable), enc # "br"
  PROVE  B!Inflated(s) = C!Payload(s)
<1> DEFINE n    == Len(s)
           E(h) == h = [i \in 0 .. n |->
                         IF i = 0 THEN <<>>
                         ELSE IF s[i] = B!End THEN h[i - 1] ELSE Append(h[i - 1], s[i])]
           c    == CHOOSE h : E(h)
<1>1. n \in Nat /\ s \in Seq(WireUnits)
  <2>1. Carriable \subseteq WireUnits
    BY DEF WireUnits
  <2>2. s \in Seq(WireUnits)
    BY <2>1, SeqMonotonic
  <2> QED
    BY <2>2, LenProperties
<1>2. \A i \in 1 .. n : s[i] = B!End <=> s[i].unit \in {"chunk", "end"}
  <2>1. \A i \in 1 .. n : s[i] \in Carriable /\ s[i] \in WireUnits
    BY <1>1, ElementOfSeq
  <2> QED
    BY <2>1, WireUnitFacts, Zenon
<1>3. PICK f : IsPayload(s, f) /\ C!Payload(s) = f[n]
  BY <1>1, PayloadFun
<1>4. E(f)
  <2>1. ASSUME NEW i \in 0 .. n
        PROVE  f[i] = IF i = 0 THEN <<>>
                      ELSE IF s[i] = B!End THEN f[i - 1] ELSE Append(f[i - 1], s[i])
    <3>1. i = 0 \/ i \in 1 .. n
      BY <1>1
    <3> QED
      BY <1>2, <1>3, <3>1, Zenon DEF IsPayload
  <2>2. f = [i \in 0 .. n |-> f[i]]
    BY <1>3 DEF IsPayload
  <2> QED
    BY <2>1, <2>2, Zenon
<1>5. E(c)
  BY <1>4, Zenon
<1>6. B!Inflated(s) = c[n]
  BY DEF B!Inflated
<1> HIDE DEF c
<1>7. /\ c[0] = <<>>
      /\ \A i \in 1 .. n :
           c[i] = IF s[i].unit \in {"chunk", "end"} THEN c[i - 1] ELSE Append(c[i - 1], s[i])
  <2>1. \A i \in 0 .. n :
          c[i] = IF i = 0 THEN <<>>
                 ELSE IF s[i] = B!End THEN c[i - 1] ELSE Append(c[i - 1], s[i])
    BY <1>5, Zenon
  <2>2. c[0] = <<>> /\ \A i \in 1 .. n : i \in 0 .. n /\ i # 0
    BY <1>1, <2>1
  <2> QED
    BY <1>2, <2>1, <2>2, Zenon
<1>8. c[n] = f[n]
  <2>1. PICK d : d = c
    OBVIOUS
  <2> QED
    BY <1>1, <1>3, <1>7, <2>1, OnePayload
<1> QED
  BY <1>3, <1>6, <1>8, Zenon

\* The text of the pieces, one after the other.
LEMMA SofarFacts ==
  ASSUME pieces \in Seq(Seq(PlainUnits))
  PROVE  /\ Len(pieces) \in Nat /\ Sofar[0] = <<>> /\ Sofar[Len(pieces)] = B!text
         /\ \A i \in 0 .. Len(pieces) : Sofar[i] \in Seq(PlainUnits)
         /\ \A i \in 1 .. Len(pieces) : Sofar[i] = Sofar[i - 1] \o pieces[i]
<1> DEFINE E(h) == h = [i \in 0 .. Len(pieces) |-> IF i = 0 THEN <<>> ELSE h[i - 1] \o pieces[i]]
           c    == CHOOSE h : E(h)
<1>1. Len(pieces) \in Nat
  BY LenProperties
<1>2. PICK f : IsJoin(PlainUnits, Len(pieces), pieces, f) /\ FlattenSeq(pieces) = f[Len(pieces)]
  BY FlattenFacts
<1>3. /\ f \in [0 .. Len(pieces) -> Seq(PlainUnits)] /\ f[0] = <<>>
      /\ \A i \in 1 .. Len(pieces) : f[i] = f[i - 1] \o pieces[i]
  BY <1>2, Zenon DEF IsJoin
<1>4. E(f)
  <2>1. ASSUME NEW i \in 0 .. Len(pieces)
        PROVE  f[i] = IF i = 0 THEN <<>> ELSE f[i - 1] \o pieces[i]
    <3>1. i = 0 \/ i \in 1 .. Len(pieces)
      BY <1>1
    <3> QED
      BY <1>3, <3>1, Zenon
  <2>2. f = [i \in 0 .. Len(pieces) |-> f[i]]
    BY <1>3
  <2> QED
    BY <2>1, <2>2, Zenon
<1>5. E(c)
  BY <1>4, Zenon
<1>6. Sofar = c
  BY DEF Sofar
<1> HIDE DEF c
<1>7. \A i \in 0 .. Len(pieces) : c[i] = IF i = 0 THEN <<>> ELSE c[i - 1] \o pieces[i]
  BY <1>5, Zenon
<1>8. PICK d : d = c
  OBVIOUS
<1>9. GoAlike(Len(pieces), d, f)
  <2>1. d[0] = <<>> /\ \A i \in 1 .. Len(pieces) : d[i] = d[i - 1] \o pieces[i]
    <3>1. 0 \in 0 .. Len(pieces) /\ \A i \in 1 .. Len(pieces) : i \in 0 .. Len(pieces) /\ i # 0
      BY <1>1
    <3> QED
      BY <1>7, <1>8, <3>1, Zenon
  <2> QED
    BY <1>3, <2>1, Zenon DEF GoAlike
<1>10. \A i \in 0 .. Len(pieces) : d[i] = f[i]
  BY <1>1, <1>9, SameSteps
<1>11. B!text = f[Len(pieces)]
  <2>1. B!FlattenSeq(pieces) = FlattenSeq(pieces)
    BY DEF B!FlattenSeq, FlattenSeq
  <2> QED
    BY <1>2, <2>1 DEF B!text
<1>12. \A i \in 0 .. Len(pieces) : Sofar[i] = f[i]
  BY <1>6, <1>8, <1>10
<1>13. /\ 0 \in 0 .. Len(pieces) /\ Len(pieces) \in 0 .. Len(pieces)
       /\ \A i \in 1 .. Len(pieces) : i \in 0 .. Len(pieces) /\ i - 1 \in 0 .. Len(pieces)
  BY <1>1
<1>14. \A i \in 0 .. Len(pieces) : Sofar[i] \in Seq(PlainUnits)
  BY <1>3, <1>12
<1>15. \A i \in 1 .. Len(pieces) : Sofar[i] = Sofar[i - 1] \o pieces[i]
  BY <1>3, <1>12, <1>13, Zenon
<1> QED
  BY <1>1, <1>3, <1>11, <1>12, <1>13, <1>14, <1>15, Zenon
-----------------------------------------------------------------------------
(* The pieces of a body *)

\* A quotient is no more than that.
LEMMA Quotient ==
  ASSUME NEW a \in Nat, NEW b \in Nat, b > 0
  PROVE  a \div b \in Nat /\ (a \div b) * b <= a
OBVIOUS

\* Products of greater numbers are greater.
LEMMA Product ==
  ASSUME NEW i \in Nat, NEW q \in Nat, NEW b \in Nat, i <= q
  PROVE  i * b \in Nat /\ i * b <= q * b /\ (i + 1) * b = i * b + b
OBVIOUS

\* A content is a sequence of units.
LEMMA ContentSeq ==
  ASSUME NEW n \in Nat
  PROVE  B!Content(n) \in Seq(PlainUnits) /\ Len(B!Content(n)) = n
BY DEF B!Content, B!x, PlainUnits

\* The smaller of two lengths.
LEMMA LeastLength ==
  ASSUME NEW a \in Nat, NEW b \in Nat
  PROVE  B!Min({a, b}) = IF a <= b THEN a ELSE b
BY DEF B!Min

\* What a file's or a json text's writer cuts the text into has no empty piece.
LEMMA SplitFacts ==
  ASSUME NEW t \in Seq(PlainUnits)
  PROVE  /\ B!Split(t) \in Seq(Seq(PlainUnits))
         /\ \A i \in 1 .. Len(B!Split(t)) : B!Split(t)[i] # <<>>
<1> DEFINE n  == (Len(t) + BufferSize - 1) \div BufferSize
           hi(i) == B!Min({i * BufferSize, Len(t)})
           slice(i) == SubSeq(t, (i - 1) * BufferSize + 1, hi(i))
<1>1. Len(t) \in Nat /\ BufferSize \in Nat /\ BufferSize > 0
      /\ \A i \in 1 .. Len(t) : t[i] \in PlainUnits
  BY LenProperties, ElementOfSeq, MessagesAssumption DEF MessagesAssumption
<1>2. n \in Nat /\ n * BufferSize <= Len(t) + BufferSize - 1
  <2>1. Len(t) + BufferSize - 1 \in Nat
    BY <1>1
  <2> QED
    BY <1>1, <2>1, Quotient
<1>3. B!Split(t) = [i \in 1 .. n |-> slice(i)]
  BY DEF B!Split
<1> HIDE DEF n
<1>4. ASSUME NEW i \in 1 .. n
      PROVE  slice(i) \in Seq(PlainUnits) /\ slice(i) # <<>>
  <2>1. i - 1 \in Nat /\ (i - 1) + 1 = i /\ i \in Nat /\ i <= n /\ i - 1 <= i
    BY <1>2
  <2>2. PICK a \in Nat, c \in Nat : a = (i - 1) * BufferSize /\ c = i * BufferSize
    BY <1>1, <2>1, Product
  <2>3. c = a + BufferSize
    <3>1. ((i - 1) + 1) * BufferSize = (i - 1) * BufferSize + BufferSize
      BY <1>1, <2>1, Product
    <3> QED
      BY <2>1, <2>2, <3>1
  <2>4. c <= n * BufferSize
    BY <1>1, <1>2, <2>1, <2>2, Product
  <2>5. n * BufferSize \in Nat
    BY <1>1, <1>2, Product
  <2>6. a + 1 <= Len(t) /\ a + 1 <= c
    BY <1>1, <1>2, <2>3, <2>4, <2>5
  <2>7. hi(i) = IF c <= Len(t) THEN c ELSE Len(t)
    BY <1>1, <2>2, LeastLength
  <2>8. hi(i) \in Nat /\ a + 1 <= hi(i) /\ hi(i) <= Len(t)
    BY <1>1, <2>6, <2>7
  <2>9. PICK h \in Nat : h = hi(i)
    BY <2>8
  <2>a. a + 1 <= h /\ h <= Len(t)
    BY <2>8, <2>9, Zenon
  <2>10. slice(i) = SubSeq(t, a + 1, h)
    BY <2>2, <2>9
  <2>11. SubSeq(t, a + 1, h) \in Seq(PlainUnits) /\ Len(SubSeq(t, a + 1, h)) = h - (a + 1) + 1
    <3>1. a + 1 \in Int /\ h \in Int /\ a + 1 <= h /\ \A k \in a + 1 .. h : t[k] \in PlainUnits
      <4> HIDE DEF hi, slice
      <4> QED
        BY <1>1, <2>a
    <3> QED
      BY <3>1, SubSeqProperties
  <2>12. Len(SubSeq(t, a + 1, h)) # 0
    <3> HIDE DEF hi, slice
    <3> QED
      BY <2>a, <2>11
  <2>13. SubSeq(t, a + 1, h) # <<>>
    BY <2>12, EmptySeq, Zenon
  <2> QED
    BY <2>10, <2>11, <2>13
<1> HIDE DEF slice
<1>5. B!Split(t) \in Seq(Seq(PlainUnits)) /\ Len(B!Split(t)) = n
  BY <1>2, <1>3, <1>4
<1> QED
  BY <1>3, <1>4, <1>5

\* No unit closes a form.
Unclosed(s) == \A i \in 1 .. Len(s) : s[i] # B!Closing

\* The pieces of a form: the last one closes it, and no other.
ClosedOnce(ps) ==
  ps # <<>> => /\ ps[Len(ps)] = <<B!LineEnd, B!Closing, B!LineEnd>>
               /\ \A j \in 1 .. Len(ps) - 1 : Unclosed(ps[j])
               /\ ps[1] # <<>>

\* The marks of a form are units of it, and differ.
LEMMA FormMarks ==
  /\ {B!Delimiter, B!Header, B!LineEnd, B!Closing} \subseteq PlainUnits
  /\ B!Delimiter # B!Closing /\ B!Header # B!Closing /\ B!LineEnd # B!Closing
  /\ \A i \in Nat : B!x(i) # B!Closing
<1>1. {B!Delimiter, B!Header, B!LineEnd, B!Closing} \subseteq PlainUnits
  BY DEF B!Delimiter, B!Header, B!LineEnd, B!Closing, B!Mark, PlainUnits
<1>2. /\ B!Delimiter.unit = "--boundary crlf" /\ B!Header.unit = "field header"
      /\ B!LineEnd.unit = "crlf" /\ B!Closing.unit = "--boundary--"
  BY DEF B!Delimiter, B!Header, B!LineEnd, B!Closing, B!Mark
<1>3. ASSUME NEW i \in Nat PROVE B!x(i).unit = "x"
  BY DEF B!x
<1>4. B!Delimiter # B!Closing /\ B!Header # B!Closing /\ B!LineEnd # B!Closing
  BY <1>2
<1>5. ASSUME NEW i \in Nat PROVE B!x(i) # B!Closing
  BY <1>2, <1>3
<1> QED
  BY <1>1, <1>4, <1>5, Zenon

\* The last piece of a form.
LEMMA LastPiece ==
  LET l == <<B!LineEnd, B!Closing, B!LineEnd>>
  IN  /\ l \in Seq(PlainUnits) /\ Len(l) = 3 /\ l[2] = B!Closing
      /\ l[1] # B!Closing /\ l[3] # B!Closing
<1>1. PICK a \in PlainUnits, c \in PlainUnits : a = B!LineEnd /\ c = B!Closing
  BY FormMarks
<1>2. a # c
  BY <1>1, FormMarks
<1>3. /\ <<a, c, a>> \in Seq(PlainUnits) /\ Len(<<a, c, a>>) = 3 /\ <<a, c, a>>[2] = c
      /\ <<a, c, a>>[1] = a /\ <<a, c, a>>[3] = a
  OBVIOUS
<1> QED
  BY <1>1, <1>2, <1>3, Zenon

\* The first piece of a field.
LEMMA FieldPiece ==
  LET l == <<B!Delimiter, B!Header>>
  IN  l \in Seq(PlainUnits) /\ l # <<>> /\ Unclosed(l)
<1>1. PICK a \in PlainUnits, c \in PlainUnits, d \in PlainUnits :
        a = B!Delimiter /\ c = B!Header /\ d = B!Closing
  BY FormMarks
<1>2. a # d /\ c # d
  BY <1>1, FormMarks
<1>3. /\ <<a, c>> \in Seq(PlainUnits) /\ Len(<<a, c>>) = 2 /\ <<a, c>>[1] = a /\ <<a, c>>[2] = c
      /\ <<a, c>> # <<>>
  OBVIOUS
<1>4. \A i \in 1 .. 2 : <<a, c>>[i] # d
  <2>1. \A i \in 1 .. 2 : i = 1 \/ i = 2
    OBVIOUS
  <2> QED
    BY <1>2, <1>3, <2>1, Zenon
<1> QED
  BY <1>1, <1>3, <1>4, Zenon DEF Unclosed

\* What a field's end is made of, between two fields.
LEMMA InnerEnd == <<B!LineEnd>> \in Seq(PlainUnits) /\ Unclosed(<<B!LineEnd>>)
<1>1. PICK a \in PlainUnits, d \in PlainUnits : a = B!LineEnd /\ d = B!Closing /\ a # d
  BY FormMarks
<1>2. /\ <<a>> \in Seq(PlainUnits) /\ Len(<<a>>) = 1 /\ <<a>>[1] = a
  OBVIOUS
<1>3. \A i \in 1 .. 1 : i = 1
  OBVIOUS
<1> QED
  BY <1>1, <1>2, <1>3, Zenon DEF Unclosed

\* A content does not hold the delimiter.
LEMMA ContentUnclosed == ASSUME NEW n \in Nat PROVE Unclosed(B!Content(n))
<1>1. Len(B!Content(n)) = n /\ \A i \in 1 .. n : B!Content(n)[i] = B!x(i)
  BY ContentSeq DEF B!Content
<1>2. \A i \in 1 .. n : i \in Nat
  OBVIOUS
<1> QED
  BY <1>1, <1>2, FormMarks, Zenon DEF Unclosed

\* Three sequences in one.
LEMMA ThreeItems ==
  ASSUME NEW S, NEW a \in S, NEW b \in S, NEW c \in S
  PROVE  /\ <<a, b, c>> \in Seq(S) /\ Len(<<a, b, c>>) = 3
         /\ <<a, b, c>>[1] = a /\ <<a, b, c>>[2] = b /\ <<a, b, c>>[3] = c
OBVIOUS

\* What a form's writer writes of its fields.
LEMMA FormPiecesFacts ==
  ASSUME NEW n \in Nat, NEW parts \in [1 .. n -> Nat]
  PROVE  LET ps == B!FormPieces([i \in DOMAIN parts |-> B!Content(parts[i])])
         IN  ps \in Seq(Seq(PlainUnits)) /\ ClosedOnce(ps)
<1> DEFINE contents == [i \in DOMAIN parts |-> B!Content(parts[i])]
           U == Seq(PlainUnits)
           a == <<B!Delimiter, B!Header>>
           z(i) == IF i = n THEN <<B!LineEnd, B!Closing, B!LineEnd>> ELSE <<B!LineEnd>>
           gg == [i \in 1 .. n |-> <<a, contents[i], z(i)>>]
<1>1. /\ DOMAIN contents = 1 .. n /\ Len(contents) = n
      /\ \A i \in 1 .. n : contents[i] \in U /\ Unclosed(contents[i])
  <2>1. contents = [i \in 1 .. n |-> B!Content(parts[i])]
    OBVIOUS
  <2>2. \A i \in 1 .. n : parts[i] \in Nat
    OBVIOUS
  <2> HIDE DEF contents
  <2>3. \A i \in 1 .. n : contents[i] \in U /\ Unclosed(contents[i])
    BY <2>1, <2>2, ContentSeq, ContentUnclosed
  <2> HIDE DEF U
  <2>4. contents \in Seq(U) /\ Len(contents) = n
    BY <2>1, <2>3
  <2> QED
    BY <2>1, <2>3, <2>4
<1>2. \A i \in 1 .. n : z(i) \in U /\ (i # n => Unclosed(z(i)))
  BY LastPiece, InnerEnd
<1>3. a \in U /\ Unclosed(a) /\ a # <<>>
  BY FieldPiece
<1>4. B!FormPieces(contents) = B!FlattenSeq(gg)
  <2>1. [i \in DOMAIN contents |->
           << <<B!Delimiter, B!Header>>, contents[i],
              IF i = Len(contents) THEN <<B!LineEnd, B!Closing, B!LineEnd>> ELSE <<B!LineEnd>> >>] = gg
    <3> HIDE DEF contents
    <3> QED
      BY <1>1
  <2> HIDE DEF gg, contents
  <2> QED
    BY <2>1, Zenon DEF B!FormPieces
<1>5. /\ gg \in Seq(Seq(U)) /\ Len(gg) = n
      /\ \A i \in 1 .. n : gg[i] \in Seq(U) /\ Len(gg[i]) = 3
                           /\ gg[i][1] = a /\ gg[i][2] = contents[i] /\ gg[i][3] = z(i)
  <2>1. \A i \in 1 .. n : gg[i] = <<a, contents[i], z(i)>>
    OBVIOUS
  <2>2. \A i \in 1 .. n : a \in U /\ contents[i] \in U /\ z(i) \in U
    BY <1>1, <1>2, <1>3
  <2>3. gg = [i \in 1 .. n |-> gg[i]]
    OBVIOUS
  <2> HIDE DEF gg, contents, a, z, U
  <2>4. \A i \in 1 .. n : gg[i] \in Seq(U) /\ Len(gg[i]) = 3
                          /\ gg[i][1] = a /\ gg[i][2] = contents[i] /\ gg[i][3] = z(i)
    <3> TAKE i \in 1 .. n
    <3>1. PICK x \in U, y \in U, w \in U : x = a /\ y = contents[i] /\ w = z(i)
      BY <2>2
    <3>2. /\ <<x, y, w>> \in Seq(U) /\ Len(<<x, y, w>>) = 3
          /\ <<x, y, w>>[1] = x /\ <<x, y, w>>[2] = y /\ <<x, y, w>>[3] = w
      BY ThreeItems
    <3> QED
      BY <2>1, <3>1, <3>2, Zenon
  <2>5. gg \in Seq(Seq(U)) /\ Len(gg) = n
    BY <2>3, <2>4
  <2> QED
    BY <2>4, <2>5
<1> HIDE DEF gg, contents, a, z
<1>6. PICK f : IsJoin(U, n, gg, f) /\ FlattenSeq(gg) = f[n]
  <2> HIDE DEF U
  <2> QED
    BY <1>5, FlattenFacts, Zenon
<1>7. /\ f[0] = <<>> /\ \A i \in 0 .. n : f[i] \in Seq(U)
      /\ \A i \in 1 .. n : f[i] = f[i - 1] \o gg[i]
  <2>1. f \in [0 .. n -> Seq(U)]
    BY <1>6, Zenon DEF IsJoin
  <2> QED
    BY <1>6, <2>1, Zenon DEF IsJoin
<1> DEFINE ps == B!FormPieces(contents)
<1>8. ps = f[n]
  <2>1. B!FlattenSeq(gg) = FlattenSeq(gg)
    BY DEF B!FlattenSeq, FlattenSeq
  <2> QED
    BY <1>4, <1>6, <2>1, Zenon
<1> HIDE DEF ps
<1>9. ASSUME NEW i \in 1 .. n
      PROVE  /\ Len(f[i]) = Len(f[i - 1]) + 3 /\ Len(f[i - 1]) \in Nat
             /\ \A j \in 1 .. Len(f[i - 1]) : f[i][j] = f[i - 1][j]
             /\ f[i][Len(f[i - 1]) + 1] = a
             /\ f[i][Len(f[i - 1]) + 2] = contents[i]
             /\ f[i][Len(f[i - 1]) + 3] = z(i)
  <2>0. i - 1 \in 0 .. n
    OBVIOUS
  <2>1. f[i - 1] \in Seq(U) /\ gg[i] \in Seq(U) /\ f[i] = f[i - 1] \o gg[i]
    BY <1>5, <1>7, <2>0
  <2>2. PICK p \in Seq(U), q \in Seq(U) : p = f[i - 1] /\ q = gg[i]
    BY <2>1
  <2>3. PICK r : r = f[i]
    OBVIOUS
  <2> HIDE DEF U
  <2>4. r = p \o q
    BY <2>1, <2>2, <2>3
  <2>5. /\ Len(r) = Len(p) + Len(q) /\ Len(p) \in Nat
        /\ \A k \in 1 .. Len(p) : r[k] = p[k]
        /\ \A k \in 1 .. Len(q) : r[Len(p) + k] = q[k]
    BY <2>4, JoinFacts
  <2>6. Len(q) = 3 /\ q[1] = a /\ q[2] = contents[i] /\ q[3] = z(i)
    BY <1>5, <2>2
  <2>7. 1 \in 1 .. 3 /\ 2 \in 1 .. 3 /\ 3 \in 1 .. 3
    OBVIOUS
  <2> QED
    BY <2>2, <2>3, <2>5, <2>6, <2>7, Zenon
<1>10. \A k \in Nat : k < n => \A j \in 1 .. Len(f[k]) : Unclosed(f[k][j])
  <2> DEFINE T == {k \in Nat : k < n => \A j \in 1 .. Len(f[k]) : Unclosed(f[k][j])}
  <2>1. 0 \in T
    <3>1. Len(f[0]) = 0
      BY <1>7
    <3>2. \A j \in 1 .. 0 : FALSE
      OBVIOUS
    <3>3. \A j \in 1 .. Len(f[0]) : Unclosed(f[0][j])
      BY <3>1, <3>2, Zenon
    <3> QED
      BY <3>3
  <2>2. ASSUME NEW k \in Nat, k \in T PROVE k + 1 \in T
    <3> SUFFICES ASSUME k + 1 < n, NEW j \in 1 .. Len(f[k + 1]) PROVE Unclosed(f[k + 1][j])
      OBVIOUS
    <3>1. k + 1 \in 1 .. n /\ (k + 1) - 1 = k /\ k < n /\ k + 1 # n
      OBVIOUS
    <3>2. \A m \in 1 .. Len(f[k]) : Unclosed(f[k][m])
      BY <2>2, <3>1
    <3> HIDE DEF T
    <3>3. PICK l \in Nat : l = Len(f[k])
      BY <1>9, <3>1
    <3>4. /\ Len(f[k + 1]) = l + 3
          /\ \A m \in 1 .. l : f[k + 1][m] = f[k][m]
          /\ f[k + 1][l + 1] = a /\ f[k + 1][l + 2] = contents[k + 1] /\ f[k + 1][l + 3] = z(k + 1)
      BY <1>9, <3>1, <3>3, SMTT(25)
    <3>5. j \in 1 .. l \/ j = l + 1 \/ j = l + 2 \/ j = l + 3
      BY <3>4
    <3>6. Unclosed(a) /\ Unclosed(contents[k + 1]) /\ Unclosed(z(k + 1))
      BY <1>1, <1>2, <1>3, <3>1
    <3> QED
      BY <3>2, <3>3, <3>4, <3>5, <3>6, Zenon
  <2> HIDE DEF T
  <2>3. \A k \in Nat : k \in T
    BY <2>1, <2>2, AllOf
  <2> QED
    BY <2>3 DEF T
<1>11. ps \in Seq(U)
  <2>1. n \in 0 .. n
    OBVIOUS
  <2> QED
    BY <1>7, <1>8, <2>1
<1>12. CASE n = 0
  BY <1>7, <1>8, <1>11, <1>12 DEF ClosedOnce, ps, U, contents
<1>13. CASE n # 0
  <2>1. n \in 1 .. n /\ n - 1 \in Nat /\ n - 1 < n
    BY <1>13
  <2>2. PICK l \in Nat : l = Len(f[n - 1])
    BY <1>9, <2>1
  <2>3. /\ Len(ps) = l + 3 /\ \A j \in 1 .. l : ps[j] = f[n - 1][j]
        /\ ps[l + 1] = a /\ ps[l + 2] = contents[n] /\ ps[l + 3] = z(n)
    BY <1>8, <1>9, <2>1, <2>2, Zenon
  <2>4. \A j \in 1 .. l : Unclosed(f[n - 1][j])
    BY <1>10, <2>1, <2>2, Zenon
  <2>5. ASSUME NEW j \in 1 .. Len(ps) - 1 PROVE Unclosed(ps[j])
    <3>1. j \in 1 .. l \/ j = l + 1 \/ j = l + 2
      BY <2>3
    <3> QED
      BY <1>1, <1>3, <2>1, <2>3, <2>4, <3>1, Zenon
  <2>6. ps[Len(ps)] = <<B!LineEnd, B!Closing, B!LineEnd>>
    BY <2>3 DEF z
  <2>7. ps[1] # <<>>
    <3> DEFINE H(k) == k = 0 \/ (Len(f[k]) \in Nat /\ Len(f[k]) >= 3 /\ f[k][1] = a)
               T == {k \in Nat : k <= n => H(k)}
    <3>1. 0 \in T
      OBVIOUS
    <3>2. ASSUME NEW k \in Nat, k \in T PROVE k + 1 \in T
      <4> SUFFICES ASSUME k + 1 <= n PROVE H(k + 1)
        OBVIOUS
      <4>1. k + 1 \in 1 .. n /\ (k + 1) - 1 = k /\ H(k)
        BY <3>2
      <4> HIDE DEF T
      <4>2. PICK m \in Nat : m = Len(f[k])
        BY <1>9, <4>1
      <4>3. /\ Len(f[k + 1]) = m + 3 /\ \A j \in 1 .. m : f[k + 1][j] = f[k][j]
            /\ f[k + 1][m + 1] = a
        BY <1>9, <4>1, <4>2, SMTT(25)
      <4>4. CASE k = 0
        <5>1. m = 0
          BY <1>7, <4>2, <4>4
        <5> QED
          BY <4>3, <4>4, <5>1
      <4>5. CASE k # 0
        <5>1. m >= 3 /\ f[k][1] = a
          BY <4>1, <4>2, <4>5
        <5>2. 1 \in 1 .. m
          BY <5>1
        <5> QED
          BY <4>3, <5>1, <5>2
      <4> QED
        BY <4>4, <4>5
    <3> HIDE DEF T
    <3>3. \A k \in Nat : k \in T
      BY <3>1, <3>2, AllOf
    <3>4. f[n][1] = a
      BY <1>13, <3>3 DEF T
    <3> QED
      BY <1>3, <1>8, <3>4
  <2> HIDE DEF U
  <2> QED
    BY <1>11, <2>5, <2>6, <2>7 DEF ClosedOnce, ps, U, contents
<1> QED
  BY <1>12, <1>13
-----------------------------------------------------------------------------
(* The writer and the serializer *)

\* v is w with a chunk of s added to it.
Framing(w, s, v) ==
  /\ v \in Seq(WireUnits) /\ Len(v) = Len(w) + 1 + Len(s)
  /\ \A p \in 1 .. Len(w) : v[p] = w[p]
  /\ v[Len(w) + 1] = B!Chunk(Len(s))
  /\ \A p \in 1 .. Len(s) : v[Len(w) + 1 + p] = s[p]
  /\ C!Payload(v) = C!Payload(w) \o C!Payload(s)
  /\ \A n \in 0 .. Len(w) : SubSeq(v, 1, n) = SubSeq(w, 1, n)

\* What a compressed stream is made of is put on the wire as it is.
LEMMA CarriableFacts ==
  ASSUME NEW s \in Seq(Carriable)
  PROVE  /\ s \in Seq(WireUnits) /\ Len(s) \in Nat
         /\ \A p \in 1 .. Len(s) : s[p] \in Carriable /\ s[p].unit # "chunk"
<1>1. Carriable \subseteq WireUnits
  BY DEF WireUnits
<1>2. s \in Seq(WireUnits)
  BY <1>1, SeqMonotonic
<1>3. \A u \in Carriable : u.unit # "chunk"
  BY <1>1, WireUnitFacts
<1>4. Len(s) \in Nat /\ \A p \in 1 .. Len(s) : s[p] \in Carriable
  BY LenProperties, ElementOfSeq
<1> QED
  BY <1>2, <1>3, <1>4

\* The serializer adds a chunk: a header, and as many units as it says.
LEMMA FramingFacts ==
  ASSUME NEW w \in Seq(WireUnits), NEW s \in Seq(Carriable)
  PROVE  Framing(w, s, w \o (<<B!Chunk(Len(s))>> \o s))
<1>1. s \in Seq(WireUnits) /\ Len(s) \in Nat /\ Len(w) \in Nat
  BY CarriableFacts, LenProperties
<1>2. PICK h : h = B!Chunk(Len(s))
  OBVIOUS
<1>3. h \in WireUnits /\ h.unit = "chunk"
  BY <1>1, <1>2, HeaderUnitFacts
<1>4. <<h>> \in Seq(WireUnits) /\ C!Payload(<<h>>) = <<>>
  BY <1>3, PayloadMark
<1>5. Len(<<h>>) = 1 /\ <<h>>[1] = h
  OBVIOUS
<1>6. PICK g \in Seq(WireUnits) : g = <<h>>
  BY <1>4
<1>7. PICK f : f = g \o s
  OBVIOUS
<1>8. /\ f \in Seq(WireUnits) /\ Len(f) = Len(g) + Len(s)
      /\ \A i \in 1 .. Len(g) : f[i] = g[i]
      /\ \A i \in 1 .. Len(s) : f[Len(g) + i] = s[i]
  BY <1>1, <1>7, JoinFacts
<1>9. Len(g) = 1 /\ g[1] = h
  BY <1>5, <1>6
<1>10. Len(f) = 1 + Len(s) /\ f[1] = h /\ \A i \in 1 .. Len(s) : f[1 + i] = s[i]
  BY <1>8, <1>9
<1>11. C!Payload(f) = C!Payload(s)
  <2>1. C!Payload(f) = C!Payload(g) \o C!Payload(s)
    BY <1>1, <1>7, PayloadJoin
  <2>2. C!Payload(s) \in Seq(PlainUnits)
    BY <1>1, PayloadType
  <2>3. <<>> \o C!Payload(s) = C!Payload(s)
    BY <2>2, ConcatEmptySeq
  <2> QED
    BY <1>4, <1>6, <2>1, <2>3, Zenon
<1>12. PICK v : v = w \o f
  OBVIOUS
<1>13. /\ v \in Seq(WireUnits) /\ Len(v) = Len(w) + Len(f)
       /\ \A i \in 1 .. Len(w) : v[i] = w[i]
       /\ \A i \in 1 .. Len(f) : v[Len(w) + i] = f[i]
  <2>1. f \in Seq(WireUnits)
    BY <1>8
  <2> QED
    BY <1>12, <2>1, JoinFacts
<1>14. C!Payload(v) = C!Payload(w) \o C!Payload(s)
  BY <1>8, <1>11, <1>12, PayloadJoin
<1>15. \A n \in 0 .. Len(w) : SubSeq(v, 1, n) = SubSeq(w, 1, n)
  BY <1>8, <1>12, CutOfJoin
<1>16. /\ Len(v) = Len(w) + 1 + Len(s) /\ v[Len(w) + 1] = h
       /\ \A p \in 1 .. Len(s) : v[Len(w) + 1 + p] = s[p]
  <2>1. 1 \in 1 .. Len(f) /\ \A p \in 1 .. Len(s) : 1 + p \in 1 .. Len(f)
    BY <1>1, <1>10
  <2>2. \A p \in 1 .. Len(s) : Len(w) + 1 + p = Len(w) + (1 + p)
    BY <1>1
  <2>3. v[Len(w) + 1] = f[1] /\ \A p \in 1 .. Len(s) : v[Len(w) + (1 + p)] = f[1 + p]
    BY <1>13, <2>1, Zenon
  <2>4. \A p \in 1 .. Len(s) : v[Len(w) + 1 + p] = s[p]
    BY <1>10, <2>2, <2>3, Zenon
  <2> QED
    BY <1>1, <1>10, <1>13, <2>3, <2>4
<1>17. Framing(w, s, v)
  BY <1>2, <1>13, <1>14, <1>15, <1>16, Zenon DEF Framing
<1> QED
  BY <1>2, <1>6, <1>7, <1>12, <1>17, Zenon

\* Each chunk is where the one before it says it is; one of no units is of no text.
LEMMA FramingChunks ==
  ASSUME NEW w \in Seq(WireUnits), NEW s \in Seq(Carriable), NEW v, Framing(w, s, v), Chunks(w)
  PROVE  /\ Chunks(v)
         /\ \A p \in 1 .. Len(v) :
              v[p] = B!Chunk(0) => (p \in 1 .. Len(w) /\ w[p] = B!Chunk(0)) \/ (p = Len(w) + 1 /\ s = <<>>)
         /\ (\A p \in 1 .. Len(w) : w[p] # B!End) /\ (\A p \in 1 .. Len(s) : s[p] # B!End) =>
              \A p \in 1 .. Len(v) : v[p] # B!End
<1>1. /\ Len(w) \in Nat /\ Len(s) \in Nat /\ \A p \in 1 .. Len(s) : s[p].unit # "chunk"
      /\ \A p \in 1 .. Len(w) : w[p] \in WireUnits
  BY CarriableFacts, LenProperties, ElementOfSeq
<1>2. PICK h : h = B!Chunk(Len(s))
  OBVIOUS
<1>3. h.unit = "chunk" /\ h.at = Len(s) /\ (h = B!Chunk(0) <=> Len(s) = 0) /\ B!Chunk(0).unit = "chunk"
  BY <1>1, <1>2, HeaderUnitFacts
<1>4. /\ Len(v) = Len(w) + 1 + Len(s) /\ v[Len(w) + 1] = h
      /\ \A p \in 1 .. Len(w) : v[p] = w[p]
      /\ \A p \in 1 .. Len(s) : v[Len(w) + 1 + p] = s[p]
  BY <1>2 DEF Framing
<1>5. ASSUME NEW p \in 1 .. Len(v)
      PROVE  \/ p \in 1 .. Len(w) /\ v[p] = w[p]
             \/ p = Len(w) + 1 /\ v[p] = h
             \/ p > Len(w) + 1 /\ p - Len(w) - 1 \in 1 .. Len(s) /\ v[p] = s[p - Len(w) - 1]
                /\ v[p].unit # "chunk"
  <2>1. CASE p <= Len(w)
    BY <1>1, <1>4, <2>1
  <2>2. CASE p = Len(w) + 1
    BY <1>4, <2>2
  <2>3. CASE p > Len(w) + 1
    <3>1. PICK q : q = p - Len(w) - 1
      OBVIOUS
    <3>2. q \in 1 .. Len(s) /\ Len(w) + 1 + q = p
      BY <1>1, <1>4, <2>3, <3>1
    <3>3. v[p] = s[q] /\ s[q].unit # "chunk"
      BY <1>1, <1>4, <3>2
    <3> QED
      BY <2>3, <3>1, <3>2, <3>3
  <2>4. p <= Len(w) \/ p = Len(w) + 1 \/ p > Len(w) + 1
    BY <1>1
  <2> QED
    BY <2>1, <2>2, <2>3, <2>4, Zenon
<1>6. \A p \in 1 .. Len(w) : w[p].unit = "chunk" => w[p].at \in Nat
  BY <1>1, WireUnitFacts
<1>7. /\ w # <<>> => w[1].unit = "chunk"
      /\ \A p \in 1 .. Len(w) : w[p].unit = "chunk" =>
           /\ p + w[p].at <= Len(w)
           /\ \A k \in p + 1 .. p + w[p].at : w[k].unit # "chunk"
           /\ p + w[p].at < Len(w) => w[p + w[p].at + 1].unit = "chunk"
  BY DEF Chunks, IsChunk
<1>8. v[1].unit = "chunk"
  <2>1. CASE Len(w) = 0
    BY <1>3, <1>4, <2>1
  <2>2. CASE Len(w) # 0
    <3>1. 1 \in 1 .. Len(w) /\ w # <<>>
      BY <1>1, <2>2
    <3> QED
      BY <1>4, <1>7, <3>1
  <2> QED
    BY <2>1, <2>2
<1>9. ASSUME NEW p \in 1 .. Len(v), v[p].unit = "chunk"
      PROVE  /\ p + v[p].at <= Len(v)
             /\ \A k \in p + 1 .. p + v[p].at : v[k].unit # "chunk"
             /\ p + v[p].at < Len(v) => v[p + v[p].at + 1].unit = "chunk"
  <2>1. CASE p \in 1 .. Len(w)
    <3>1. v[p] = w[p] /\ w[p].unit = "chunk"
      BY <1>4, <1>9, <2>1
    <3>2. PICK n : n = w[p].at
      OBVIOUS
    <3>3. n \in Nat
      BY <1>6, <2>1, <3>1, <3>2
    <3>4. /\ p + n <= Len(w)
          /\ \A k \in p + 1 .. p + n : w[k].unit # "chunk"
          /\ p + n < Len(w) => w[p + n + 1].unit = "chunk"
      BY <1>7, <2>1, <3>1, <3>2
    <3>5. p + n <= Len(v)
      BY <1>1, <1>4, <3>3, <3>4
    <3>6. ASSUME NEW k \in p + 1 .. p + n PROVE v[k].unit # "chunk"
      <4>1. k \in 1 .. Len(w)
        BY <1>1, <2>1, <3>3, <3>4
      <4>2. v[k] = w[k]
        BY <1>4, <4>1
      <4> QED
        BY <3>4, <4>2
    <3>7. ASSUME p + n < Len(v) PROVE v[p + n + 1].unit = "chunk"
      <4>1. CASE p + n < Len(w)
        <5>1. p + n + 1 \in 1 .. Len(w)
          BY <1>1, <2>1, <3>3, <4>1
        <5>2. v[p + n + 1] = w[p + n + 1]
          BY <1>4, <5>1
        <5> QED
          BY <3>4, <4>1, <5>2
      <4>2. CASE p + n = Len(w)
        <5>1. p + n + 1 = Len(w) + 1
          BY <4>2
        <5> QED
          BY <1>3, <1>4, <5>1
      <4> QED
        BY <1>1, <2>1, <3>3, <3>4, <4>1, <4>2
    <3> QED
      BY <3>1, <3>2, <3>5, <3>6, <3>7
  <2>2. CASE p = Len(w) + 1
    <3>1. v[p] = h /\ v[p].at = Len(s)
      BY <1>3, <1>4, <2>2
    <3>2. p + Len(s) = Len(v)
      BY <1>1, <1>4, <2>2
    <3>3. ASSUME NEW k \in p + 1 .. p + Len(s) PROVE v[k].unit # "chunk"
      <4>1. k \in 1 .. Len(v) /\ k > Len(w) + 1
        BY <1>1, <1>4, <2>2, <3>2
      <4> QED
        BY <1>1, <1>5, <4>1
    <3> QED
      BY <1>1, <1>4, <3>1, <3>2, <3>3
  <2> QED
    BY <1>1, <1>5, <1>9, <2>1, <2>2
<1>10. Chunks(v)
  BY <1>8, <1>9, Zenon DEF Chunks, IsChunk
<1>11. ASSUME NEW p \in 1 .. Len(v), v[p] = B!Chunk(0)
       PROVE  (p \in 1 .. Len(w) /\ w[p] = B!Chunk(0)) \/ (p = Len(w) + 1 /\ s = <<>>)
  <2>1. Len(s) = 0 => s = <<>>
    BY EmptySeq
  <2>2. v[p].unit = "chunk"
    BY <1>3, <1>11
  <2>3. \/ p \in 1 .. Len(w) /\ v[p] = w[p]
        \/ p = Len(w) + 1 /\ v[p] = h
    BY <1>5, <2>2, Zenon
  <2>4. ASSUME v[p] = h PROVE s = <<>>
    BY <1>3, <1>11, <2>1, <2>4
  <2>5. CASE p \in 1 .. Len(w) /\ v[p] = w[p]
    <3>1. w[p] = B!Chunk(0)
      BY <1>11, <2>5, Zenon
    <3> QED
      BY <2>5, <3>1, Zenon
  <2>6. CASE p = Len(w) + 1 /\ v[p] = h
    BY <2>4, <2>6, Zenon
  <2> QED
    BY <2>3, <2>5, <2>6, Zenon
<1>12. ASSUME \A p \in 1 .. Len(w) : w[p] # B!End, \A p \in 1 .. Len(s) : s[p] # B!End,
              NEW p \in 1 .. Len(v)
       PROVE  v[p] # B!End
  <2>1. B!End.unit # "chunk"
    BY DEF B!End, B!Mark
  <2>2. h # B!End
    BY <1>3, <2>1
  <2> QED
    BY <1>5, <1>12, <2>2
<1> QED
  BY <1>10, <1>11, <1>12

\* What is on the wire when s, and the last chunk if it is the last, is sent.
NoEnd(w) == \A p \in 1 .. Len(w) : w[p] # B!End
Sends(w, s, last, v) ==
  /\ v \in Seq(WireUnits) /\ C!Payload(v) = C!Payload(w) \o C!Payload(s) /\ Len(w) <= Len(v)
  /\ NoEnd(w) /\ NoEnd(s) => NoEnd(v)
  /\ framing = "length" => v = w \o s
  /\ framing = "chunked" =>
       /\ Chunks(v)
       /\ \A p \in 1 .. Len(v) : v[p] = B!Chunk(0) =>
            \/ p \in 1 .. Len(w) /\ w[p] = B!Chunk(0) /\ SubSeq(v, 1, p) = SubSeq(w, 1, p)
            \/ p = Len(w) + 1 /\ s = <<>> /\ C!Payload(SubSeq(v, 1, p)) = C!Payload(w)
            \/ last /\ p = Len(v)

\* One chunk,
LEMMA SendsChunk ==
  ASSUME NEW w \in Seq(WireUnits), Chunks(w), NEW s \in Seq(Carriable), framing = "chunked"
  PROVE  Sends(w, s, FALSE, w \o (<<B!Chunk(Len(s))>> \o s))
<1>1. PICK v : v = w \o (<<B!Chunk(Len(s))>> \o s)
  OBVIOUS
<1>2. Framing(w, s, v)
  BY <1>1, FramingFacts
<1>3. /\ v \in Seq(WireUnits) /\ Len(v) = Len(w) + 1 + Len(s)
      /\ C!Payload(v) = C!Payload(w) \o C!Payload(s)
      /\ \A n \in 0 .. Len(w) : SubSeq(v, 1, n) = SubSeq(w, 1, n)
  BY <1>2, Zenon DEF Framing
<1>4. /\ Chunks(v)
      /\ \A p \in 1 .. Len(v) :
           v[p] = B!Chunk(0) => (p \in 1 .. Len(w) /\ w[p] = B!Chunk(0)) \/ (p = Len(w) + 1 /\ s = <<>>)
      /\ (NoEnd(w) /\ NoEnd(s) => NoEnd(v))
  <2>1. Chunks(v) /\ (NoEnd(w) /\ NoEnd(s) => NoEnd(v))
    BY <1>2, FramingChunks DEF NoEnd
  <2>2. \A p \in 1 .. Len(v) :
          v[p] = B!Chunk(0) => (p \in 1 .. Len(w) /\ w[p] = B!Chunk(0)) \/ (p = Len(w) + 1 /\ s = <<>>)
    BY <1>2, FramingChunks
  <2> QED
    BY <2>1, <2>2, Zenon
<1>5. Len(w) \in Nat /\ Len(s) \in Nat
  BY LenProperties
<1>6. \A p \in 1 .. Len(w) : SubSeq(v, 1, p) = SubSeq(w, 1, p)
  BY <1>3, <1>5
<1>7. ASSUME s = <<>> PROVE C!Payload(SubSeq(v, 1, Len(w) + 1)) = C!Payload(w)
  <2>1. Len(v) = Len(w) + 1
    BY <1>3, <1>5, <1>7
  <2>2. SubSeq(v, 1, Len(v)) = v
    BY <1>3, WholeCut
  <2>3. C!Payload(s) = <<>> /\ C!Payload(w) \in Seq(PlainUnits)
    <3>1. B!Chunk(0) \in WireUnits /\ B!Chunk(0).unit = "chunk"
      BY HeaderUnitFacts
    <3> QED
      BY <1>7, <3>1, PayloadMark, PayloadType
  <2>4. C!Payload(v) = C!Payload(w)
    BY <1>3, <2>3, ConcatEmptySeq
  <2> QED
    BY <2>1, <2>2, <2>4, Zenon
<1>8. ASSUME NEW p \in 1 .. Len(v), v[p] = B!Chunk(0)
      PROVE  \/ p \in 1 .. Len(w) /\ w[p] = B!Chunk(0) /\ SubSeq(v, 1, p) = SubSeq(w, 1, p)
             \/ p = Len(w) + 1 /\ s = <<>> /\ C!Payload(SubSeq(v, 1, p)) = C!Payload(w)
  BY <1>4, <1>6, <1>7, <1>8, Zenon
<1>9. Len(w) <= Len(v)
  BY <1>3, <1>5
<1>10. framing # "length"
  OBVIOUS
<1> QED
  BY <1>1, <1>3, <1>4, <1>8, <1>9, <1>10, Zenon DEF Sends

\* two of them, of which the last one is empty,
LEMMA SendsLast ==
  ASSUME NEW w \in Seq(WireUnits), Chunks(w), NEW s \in Seq(Carriable), framing = "chunked"
  PROVE  Sends(w, s, TRUE, (w \o (<<B!Chunk(Len(s))>> \o s)) \o <<B!Chunk(0)>>)
<1>1. PICK v : v = w \o (<<B!Chunk(Len(s))>> \o s)
  OBVIOUS
<1>2. Sends(w, s, FALSE, v)
  BY <1>1, SendsChunk
<1>3. v \in Seq(WireUnits) /\ Chunks(v)
  BY <1>2 DEF Sends
<1>4. PICK e \in Seq(Carriable) : e = <<>> /\ Len(e) = 0
  <2>1. <<>> \in Seq(Carriable) /\ Len(<<>>) = 0
    BY EmptySeq
  <2> QED
    BY <2>1, Zenon
<1>5. PICK c : c = B!Chunk(0)
  OBVIOUS
<1>6. Sends(v, e, FALSE, v \o (<<B!Chunk(Len(e))>> \o e))
  BY <1>3, <1>4, SendsChunk
<1>7. <<c>> \o <<>> = <<c>>
  <2>1. <<c>> \in Seq({c})
    OBVIOUS
  <2> QED
    BY <2>1, ConcatEmptySeq
<1>8. PICK u : u = v \o <<c>>
  OBVIOUS
<1>9. Sends(v, e, FALSE, u)
  BY <1>4, <1>5, <1>6, <1>7, <1>8, Zenon
<1>10. /\ u \in Seq(WireUnits) /\ C!Payload(u) = C!Payload(v) \o C!Payload(e) /\ Len(v) <= Len(u)
       /\ NoEnd(v) /\ NoEnd(e) => NoEnd(u)
       /\ Chunks(u)
  BY <1>9, Zenon DEF Sends
<1>11. Len(w) \in Nat /\ Len(v) \in Nat /\ Len(u) \in Nat /\ Len(w) <= Len(v) /\ Len(v) <= Len(u)
  <2>1. Len(w) <= Len(v)
    BY <1>2, Zenon DEF Sends
  <2> QED
    BY <1>3, <1>10, <2>1, LenProperties
<1>12. C!Payload(e) = <<>> /\ C!Payload(v) \in Seq(PlainUnits)
  <2>1. c \in WireUnits /\ c.unit = "chunk"
    BY <1>5, HeaderUnitFacts
  <2> QED
    BY <1>3, <1>4, <2>1, PayloadMark, PayloadType
<1>13. C!Payload(u) = C!Payload(w) \o C!Payload(s)
  <2>1. C!Payload(u) = C!Payload(v)
    BY <1>10, <1>12, ConcatEmptySeq
  <2>2. C!Payload(v) = C!Payload(w) \o C!Payload(s)
    BY <1>2, Zenon DEF Sends
  <2> QED
    BY <2>1, <2>2, Zenon
<1>14. NoEnd(w) /\ NoEnd(s) => NoEnd(u)
  <2>1. NoEnd(e)
    BY <1>4 DEF NoEnd
  <2>2. NoEnd(w) /\ NoEnd(s) => NoEnd(v)
    BY <1>2, Zenon DEF Sends
  <2> QED
    BY <1>10, <2>1, <2>2, Zenon
<1>15. Len(u) = Len(v) + 1
  <2>1. Framing(v, e, u)
    BY <1>3, <1>4, <1>5, <1>7, <1>8, FramingFacts
  <2> QED
    BY <1>4, <1>11, <2>1 DEF Framing
<1>16. \A n \in 1 .. Len(v) : SubSeq(u, 1, n) = SubSeq(v, 1, n) /\ u[n] = v[n]
  <2>1. Framing(v, e, u)
    BY <1>3, <1>4, <1>5, <1>7, <1>8, FramingFacts
  <2> QED
    BY <1>11, <2>1 DEF Framing
<1>17. ASSUME NEW p \in 1 .. Len(u), u[p] = B!Chunk(0)
       PROVE  \/ p \in 1 .. Len(w) /\ w[p] = B!Chunk(0) /\ SubSeq(u, 1, p) = SubSeq(w, 1, p)
              \/ p = Len(w) + 1 /\ s = <<>> /\ C!Payload(SubSeq(u, 1, p)) = C!Payload(w)
              \/ p = Len(u)
  <2>1. CASE p = Len(v) + 1
    BY <1>15, <2>1
  <2>2. CASE p \in 1 .. Len(v)
    <3>1. SubSeq(u, 1, p) = SubSeq(v, 1, p) /\ v[p] = B!Chunk(0)
      BY <1>16, <1>17, <2>2
    <3>2. \/ p \in 1 .. Len(w) /\ w[p] = B!Chunk(0) /\ SubSeq(v, 1, p) = SubSeq(w, 1, p)
          \/ p = Len(w) + 1 /\ s = <<>> /\ C!Payload(SubSeq(v, 1, p)) = C!Payload(w)
      BY <1>2, <2>2, <3>1, Zenon DEF Sends
    <3> QED
      BY <3>1, <3>2, Zenon
  <2>3. p = Len(v) + 1 \/ p \in 1 .. Len(v)
    BY <1>11, <1>15
  <2> QED
    BY <2>1, <2>2, <2>3, Zenon
<1>18. Len(w) <= Len(u) /\ framing # "length"
  BY <1>11
<1>19. Sends(w, s, TRUE, u)
  BY <1>10, <1>13, <1>14, <1>17, <1>18, Zenon DEF Sends
<1> QED
  BY <1>1, <1>5, <1>8, <1>19, Zenon

\* or none.
LEMMA SendsUnframed ==
  ASSUME NEW w \in Seq(WireUnits), NEW s \in Seq(Carriable), framing = "length", NEW last
  PROVE  Sends(w, s, last, w \o s)
<1>1. s \in Seq(WireUnits)
  BY CarriableFacts
<1>2. PICK v : v = w \o s
  OBVIOUS
<1>3. /\ v \in Seq(WireUnits) /\ Len(v) = Len(w) + Len(s) /\ Len(w) \in Nat /\ Len(s) \in Nat
      /\ \A i \in 1 .. Len(w) : v[i] = w[i]
      /\ \A i \in 1 .. Len(s) : v[Len(w) + i] = s[i]
  BY <1>1, <1>2, JoinFacts
<1>4. C!Payload(v) = C!Payload(w) \o C!Payload(s)
  BY <1>1, <1>2, PayloadJoin
<1>5. NoEnd(w) /\ NoEnd(s) => NoEnd(v)
  <2> SUFFICES ASSUME \A p \in 1 .. Len(w) : w[p] # B!End, \A p \in 1 .. Len(s) : s[p] # B!End,
                      NEW p \in 1 .. Len(v)
               PROVE  v[p] # B!End
    BY DEF NoEnd
  <2>1. CASE p <= Len(w)
    BY <1>3, <2>1
  <2>2. CASE p > Len(w)
    <3>1. PICK q : q = p - Len(w)
      OBVIOUS
    <3>2. q \in 1 .. Len(s) /\ Len(w) + q = p
      BY <1>3, <2>2, <3>1
    <3> QED
      BY <1>3, <3>2
  <2> QED
    BY <1>3, <2>1, <2>2
<1>6. Len(w) <= Len(v) /\ framing # "chunked"
  BY <1>3
<1> QED
  BY <1>2, <1>3, <1>4, <1>5, <1>6, Zenon DEF Sends

\* That is what the serializer does.
LEMMA SendsFramed ==
  ASSUME NEW w \in Seq(WireUnits), framing = "chunked" => Chunks(w), framing \in B!Framings,
         NEW s \in Seq(Carriable), NEW last \in BOOLEAN
  PROVE  Sends(w, s, last, w \o B!Framed(s) \o (IF last THEN B!LastChunk ELSE <<>>))
<1>1. ASSUME framing = "length"
      PROVE  Sends(w, s, last, w \o B!Framed(s) \o (IF last THEN B!LastChunk ELSE <<>>))
  <2>1. B!Framed(s) = s /\ B!LastChunk = <<>>
    BY <1>1 DEF B!Framed, B!LastChunk
  <2>2. s \in Seq(WireUnits)
    BY CarriableFacts
  <2>3. w \o s \in Seq(WireUnits)
    BY <2>2, ConcatProperties
  <2>4. (w \o s) \o <<>> = w \o s
    BY <2>3, ConcatEmptySeq
  <2>5. Sends(w, s, last, w \o s)
    BY <1>1, SendsUnframed
  <2>6. (IF last THEN B!LastChunk ELSE <<>>) = <<>>
    BY <2>1
  <2> QED
    BY <2>1, <2>4, <2>5, <2>6, Zenon
<1>2. ASSUME framing = "chunked"
      PROVE  Sends(w, s, last, w \o B!Framed(s) \o (IF last THEN B!LastChunk ELSE <<>>))
  <2>1. B!Framed(s) = <<B!Chunk(Len(s))>> \o s /\ B!LastChunk = <<B!Chunk(0)>>
    BY <1>2 DEF B!Framed, B!LastChunk
  <2>2. Chunks(w)
    BY <1>2
  <2>3. CASE last
    <3>1. Sends(w, s, TRUE, (w \o (<<B!Chunk(Len(s))>> \o s)) \o <<B!Chunk(0)>>)
      BY <1>2, <2>2, SendsLast
    <3>2. last = TRUE
      BY <2>3
    <3> QED
      BY <2>1, <2>3, <3>1, <3>2, Zenon
  <2>4. CASE ~last
    <3>1. PICK u : u = w \o (<<B!Chunk(Len(s))>> \o s)
      OBVIOUS
    <3>2. Sends(w, s, FALSE, u)
      BY <1>2, <2>2, <3>1, SendsChunk
    <3>3. u \in Seq(WireUnits)
      BY <3>2 DEF Sends
    <3>4. u \o <<>> = u
      BY <3>3, ConcatEmptySeq
    <3>5. last = FALSE
      BY <2>4
    <3>6. w \o B!Framed(s) \o (IF last THEN B!LastChunk ELSE <<>>) = u
      BY <2>1, <2>4, <3>1, <3>4, Zenon
    <3> QED
      BY <3>2, <3>5, <3>6, Zenon
  <2> QED
    BY <2>3, <2>4
<1>3. framing = "length" \/ framing = "chunked"
  BY DEF B!Framings
<1> QED
  BY <1>1, <1>2, <1>3, Zenon

\* What is kept of a message that is not changed.
LEMMA MessageKept ==
  ASSUME UNCHANGED B!message
  PROVE  /\ kind' = kind /\ pieces' = pieces /\ enc' = enc /\ framing' = framing
         /\ B!text' = B!text /\ (B!Carried <=> B!Carried') /\ Sofar' = Sofar
         /\ (Sendable => Sendable')
<1>1. kind' = kind /\ pieces' = pieces /\ enc' = enc /\ framing' = framing
  BY DEF B!message
<1>2. B!text' = B!text
  BY <1>1 DEF B!text
<1>3. B!Carried <=> B!Carried'
  BY <1>1, <1>2, Zenon DEF B!Carried
<1>4. Sofar' = Sofar
  BY <1>1 DEF Sofar
<1>5. Sendable => Sendable'
  BY <1>1, <1>2, <1>3, Zenon DEF Sendable
<1> QED
  BY <1>1, <1>2, <1>3, <1>4, <1>5

\* A writer that keeps to what is asked of it keeps the invariant.
LEMMA BodyWriterKeeps ==
  ASSUME BodyIInv, ~sent, UNCHANGED <<B!message, B!parser, B!reader, result>>,
         windex' \in 0 .. Len(pieces), sent' \in BOOLEAN, deflating' \in Seq(PlainUnits),
         wire' \in Seq(WireUnits), framing = "chunked" => Chunks(wire'), Sending', LastChunks'
  PROVE  BodyIInv'
<1>1. /\ kind' = kind /\ pieces' = pieces /\ enc' = enc /\ framing' = framing
      /\ B!text' = B!text /\ Sendable'
  <2>1. UNCHANGED B!message /\ Sendable
    BY DEF BodyIInv
  <2> QED
    BY <2>1, MessageKept
<1>2. /\ arrived' = arrived /\ used' = used /\ len' = len /\ hungry' = hungry
      /\ inflating' = inflating /\ decoded' = decoded /\ got' = got /\ step' = step
      /\ result' = result
  BY DEF B!parser, B!reader
<1>3. /\ arrived = 0 /\ used = 0 /\ got = <<>> /\ inflating = <<>> /\ decoded = <<>>
      /\ step = "boundary_line" /\ result = "reading" /\ (framing = "chunked" => len = 0)
  BY DEF BodyIInv, Unread
<1>4. Unread'
  BY <1>1, <1>2, <1>3, Zenon DEF Unread
<1>5. BodyTypes'
  <2>1. B!TypeOK'
    <3>1. B!TypeOK
      BY DEF BodyIInv, BodyTypes
    <3>2. Len(wire') \in Nat
      BY LenProperties
    <3>3. arrived' \in 0 .. Len(wire') /\ used' \in 0 .. arrived'
      BY <1>2, <1>3, <3>2
    <3>4. windex' \in 0 .. Len(pieces')
      BY <1>1
    <3> QED
      BY <1>1, <1>2, <3>1, <3>3, <3>4, Zenon DEF B!TypeOK
  <2>2. inflating' \in Seq(Carriable) /\ (enc' # "br" => decoded' \in Seq(PlainUnits) /\ got' \in Seq(PlainUnits))
    BY <1>1, <1>2 DEF BodyIInv, BodyTypes
  <2> QED
    BY <2>1, <2>2, Zenon DEF BodyTypes
<1>6. Parsing'
  <2>1. Parsing
    BY DEF BodyIInv
  <2>2. ASSUME framing = "length" PROVE used' + len' = Len(B!text')
    BY <1>1, <1>2, <1>3, <2>1, <2>2 DEF Parsing
  <2>3. ASSUME framing = "chunked"
        PROVE  /\ used' + len' <= Len(wire')
               /\ \A k \in used' + 1 .. used' + len' : ~IsChunk(wire', k)
               /\ used' + len' < Len(wire') => IsChunk(wire', used' + len' + 1)
    <3>1. used' = 0 /\ len' = 0
      BY <1>2, <1>3, <2>3
    <3>2. Len(wire') \in Nat /\ (wire' # <<>> => IsChunk(wire', 1))
      BY <2>3, LenProperties, Zenon DEF Chunks
    <3>3. Len(wire') # 0 => wire' # <<>>
      OBVIOUS
    <3>4. 0 + 0 = 0 /\ 0 + 1 = 1 /\ ~(\E k : k \in 1 .. 0)
      OBVIOUS
    <3>5. 0 <= Len(wire') /\ (0 < Len(wire') => Len(wire') # 0)
      BY <3>2
    <3> QED
      BY <3>1, <3>2, <3>3, <3>4, <3>5, Zenon
  <2> QED
    BY <1>1, <2>2, <2>3, Zenon DEF Parsing
<1>7. Consuming'
  <2>1. SubSeq(wire', 1, used') = <<>> /\ SubSeq(wire, 1, used) = <<>>
    BY <1>2, <1>3, NoCut
  <2>2. Consuming
    BY DEF BodyIInv
  <2> QED
    BY <1>1, <1>2, <1>3, <2>1, <2>2, Zenon DEF Consuming
<1>8. B!AcceptedIsWhole' /\ B!NothingLeftBehind'
  <2>1. result' # "ok"
    BY <1>2, <1>3
  <2> QED
    BY <2>1, Zenon DEF B!AcceptedIsWhole, B!NothingLeftBehind
<1> QED
  BY <1>1, <1>4, <1>5, <1>6, <1>7, <1>8, Zenon DEF BodyIInv

\* The marks of the frames are units of the wire, and of no body.
LEMMA PlainSends ==
  ASSUME NEW s \in Seq(PlainUnits)
  PROVE  /\ s \in Seq(Carriable) /\ s \in Seq(WireUnits) /\ NoEnd(s)
         /\ \A p \in 1 .. Len(s) : s[p] # B!Chunk(0)
<1>1. PlainUnits \subseteq Carriable /\ Carriable \subseteq WireUnits
  BY DEF Carriable, WireUnits
<1>2. s \in Seq(Carriable)
  BY <1>1, SeqMonotonic
<1>3. s \in Seq(WireUnits)
  BY <1>1, <1>2, SeqMonotonic
<1>4. \A p \in 1 .. Len(s) : s[p] \in PlainUnits
  BY ElementOfSeq
<1>5. ASSUME NEW u \in PlainUnits PROVE u # B!Chunk(0) /\ u # B!End
  <2>1. u \in WireUnits
    BY <1>1
  <2>2. u.unit \notin {"chunk", "end"}
    BY <2>1, WireUnitFacts
  <2>3. B!End.unit = "end" /\ B!Chunk(0).unit = "chunk"
    BY DEF B!End, B!Mark, B!Chunk
  <2> QED
    BY <2>2, <2>3
<1> QED
  BY <1>2, <1>3, <1>4, <1>5, Zenon DEF NoEnd

\* One turn of the writer: s is put out of what the compressor holds and the next
\* piece, the rest is held.
Turn(s, last) ==
  /\ s \in Seq(Carriable) /\ last \in BOOLEAN /\ deflating' \in Seq(PlainUnits)
  /\ C!Payload(s) \o deflating' = deflating \o pieces[windex + 1]
  /\ s = <<>> => enc = "none" /\ pieces[windex + 1] = <<>>
  /\ enc = "none" => s \in Seq(PlainUnits) /\ deflating' = <<>>
  /\ last => deflating' = <<>>
  /\ last <=> windex + 1 = Len(pieces)

\* Where the writer is.
LEMMA WriterFacts ==
  ASSUME BodyIInv, ~sent, B!More
  PROVE  /\ windex \in Nat /\ windex + 1 \in 1 .. Len(pieces) /\ Len(pieces) \in Nat
         /\ pieces[windex + 1] \in Seq(PlainUnits) /\ wire \in Seq(WireUnits)
         /\ deflating \in Seq(PlainUnits) /\ C!Payload(wire) \in Seq(PlainUnits)
         /\ Sofar[windex + 1] = (C!Payload(wire) \o deflating) \o pieces[windex + 1]
         /\ Sofar[Len(pieces)] = B!text
<1>1. /\ pieces \in Seq(Seq(PlainUnits)) /\ windex \in 0 .. Len(pieces)
      /\ wire \in Seq(WireUnits) /\ deflating \in Seq(PlainUnits)
      /\ C!Payload(wire) \o deflating = Sofar[windex]
  BY DEF BodyIInv, Sendable, BodyTypes, B!TypeOK, Sending
<1>2. /\ Len(pieces) \in Nat /\ Sofar[Len(pieces)] = B!text
      /\ \A i \in 1 .. Len(pieces) : Sofar[i] = Sofar[i - 1] \o pieces[i]
  BY <1>1, SofarFacts
<1>3. windex < Len(pieces)
  BY DEF B!More
<1>4. windex \in Nat /\ windex + 1 \in 1 .. Len(pieces)
  BY <1>1, <1>2, <1>3
<1>5. pieces[windex + 1] \in Seq(PlainUnits)
  BY <1>1, <1>4, ElementOfSeq
<1>6. Sofar[windex + 1] = Sofar[windex] \o pieces[windex + 1]
  <2>1. (windex + 1) - 1 = windex
    BY <1>4
  <2> QED
    BY <1>2, <1>4, <2>1
<1>7. C!Payload(wire) \in Seq(PlainUnits)
  BY <1>1, PayloadType
<1> QED
  BY <1>1, <1>2, <1>4, <1>5, <1>6, <1>7

\* What has been sent and what is held is what has been written, after a turn too,
LEMMA TurnSends ==
  ASSUME BodyIInv, ~sent, B!More, UNCHANGED B!message, NEW s, NEW last, Turn(s, last),
         windex' = windex + 1, sent' = last, Sends(wire, s, last, wire')
  PROVE  Sending'
<1>1. /\ windex \in Nat /\ windex + 1 \in 1 .. Len(pieces) /\ Len(pieces) \in Nat
      /\ pieces[windex + 1] \in Seq(PlainUnits) /\ wire \in Seq(WireUnits)
      /\ deflating \in Seq(PlainUnits) /\ C!Payload(wire) \in Seq(PlainUnits)
      /\ Sofar[windex + 1] = (C!Payload(wire) \o deflating) \o pieces[windex + 1]
  BY WriterFacts
<1>2. /\ pieces' = pieces /\ enc' = enc /\ framing' = framing /\ Sofar' = Sofar
  BY MessageKept
<1>3. /\ s \in Seq(Carriable) /\ last \in BOOLEAN /\ deflating' \in Seq(PlainUnits)
      /\ C!Payload(s) \o deflating' = deflating \o pieces[windex + 1]
      /\ enc = "none" => s \in Seq(PlainUnits) /\ deflating' = <<>>
      /\ last => deflating' = <<>>
      /\ last <=> windex + 1 = Len(pieces)
  BY DEF Turn
<1>4. C!Payload(wire') \o deflating' = Sofar'[windex']
  <2>1. C!Payload(wire') = C!Payload(wire) \o C!Payload(s)
    BY DEF Sends
  <2>2. s \in Seq(WireUnits)
    BY <1>3, CarriableFacts
  <2>3. C!Payload(s) \in Seq(PlainUnits)
    BY <2>2, PayloadType
  <2>4. (C!Payload(wire) \o C!Payload(s)) \o deflating'
          = (C!Payload(wire) \o deflating) \o pieces[windex + 1]
    <3>1. PICK a \in Seq(PlainUnits), b \in Seq(PlainUnits), c \in Seq(PlainUnits),
               e \in Seq(PlainUnits), f \in Seq(PlainUnits) :
            /\ a = C!Payload(wire) /\ b = C!Payload(s) /\ c = deflating' /\ e = deflating
            /\ f = pieces[windex + 1]
      BY <1>1, <1>3, <2>3, Zenon
    <3>2. PICK x, y, z, r :
            Spliced(x, b, c) /\ Spliced(y, a, b) /\ Spliced(z, a, e) /\ Spliced(r, y, c)
      BY Zenon DEF Spliced
    <3>3. Spliced(x, e, f)
      BY <1>3, <3>1, <3>2, Zenon DEF Spliced
    <3>4. Spliced(r, z, f)
      BY <3>2, <3>3, Regrouped
    <3> QED
      BY <3>1, <3>2, <3>4, Zenon DEF Spliced
  <2> QED
    BY <1>1, <1>2, <2>1, <2>4, Zenon
<1>5. Sending
  BY DEF BodyIInv
<1>6. enc' = "none" => deflating' = <<>> /\ \A p \in 1 .. Len(wire') : wire'[p] # B!End
  <2> SUFFICES ASSUME enc = "none" PROVE deflating' = <<>> /\ NoEnd(wire')
    BY <1>2, Zenon DEF NoEnd
  <2>1. NoEnd(wire)
    BY <1>5, Zenon DEF NoEnd, Sending
  <2>2. NoEnd(s)
    BY <1>3, PlainSends
  <2> QED
    BY <1>3, <2>1, <2>2 DEF Sends
<1>7. framing' = "length" => wire' \in Seq(PlainUnits)
  <2> SUFFICES ASSUME framing = "length" PROVE wire' \in Seq(PlainUnits)
    BY <1>2
  <2>1. enc = "none"
    BY DEF BodyIInv, Sendable
  <2>2. wire \in Seq(PlainUnits) /\ s \in Seq(PlainUnits) /\ wire' = wire \o s
    BY <1>3, <1>5, <2>1 DEF Sending, Sends
  <2> QED
    BY <2>2, ConcatProperties
<1>8. ~sent' /\ windex' = Len(pieces') => pieces' = <<>>
  BY <1>2, <1>3
<1>9. sent' => windex' = Len(pieces') /\ deflating' = <<>>
  BY <1>2, <1>3
<1> QED
  BY <1>4, <1>6, <1>7, <1>8, <1>9, Zenon DEF Sending

\* and of an empty chunk before the end it says what LastChunks asks.
LEMMA TurnEnds ==
  ASSUME BodyIInv, ~sent, B!More, UNCHANGED B!message, NEW s, NEW last, Turn(s, last),
         windex' = windex + 1, sent' = last, Sends(wire, s, last, wire'), Sending'
  PROVE  LastChunks'
<1>1. /\ windex \in Nat /\ windex + 1 \in 1 .. Len(pieces) /\ Len(pieces) \in Nat
      /\ pieces[windex + 1] \in Seq(PlainUnits) /\ wire \in Seq(WireUnits)
      /\ deflating \in Seq(PlainUnits) /\ C!Payload(wire) \in Seq(PlainUnits)
      /\ Sofar[windex + 1] = (C!Payload(wire) \o deflating) \o pieces[windex + 1]
      /\ Sofar[Len(pieces)] = B!text
  BY WriterFacts
<1>2. /\ kind' = kind /\ pieces' = pieces /\ enc' = enc /\ framing' = framing /\ Sofar' = Sofar
      /\ B!text' = B!text /\ (B!Carried <=> B!Carried')
  BY MessageKept
<1>3. /\ s = <<>> => enc = "none" /\ pieces[windex + 1] = <<>>
      /\ last => deflating' = <<>>
      /\ last <=> windex + 1 = Len(pieces)
  BY DEF Turn
<1>4. wire' \in Seq(WireUnits) /\ LastChunks /\ Sendable /\ Sending
  BY DEF Sends, BodyIInv
<1>5. ASSUME NEW p \in 1 .. Len(wire'), wire'[p] = B!Chunk(0)
      PROVE  /\ kind # "form" => C!Payload(SubSeq(wire', 1, p)) = B!text
             /\ B!Carried \/ enc # "none" => last /\ p = Len(wire')
  <2>1. framing = "chunked"
    <3>1. framing = "length" => wire' \in Seq(PlainUnits)
      BY <1>2 DEF Sending
    <3>2. framing # "length"
      BY <1>5, <3>1, PlainSends
    <3> QED
      BY <3>2 DEF BodyIInv, BodyTypes, B!TypeOK, B!Framings
  <2>2. \/ p \in 1 .. Len(wire) /\ wire[p] = B!Chunk(0) /\ SubSeq(wire', 1, p) = SubSeq(wire, 1, p)
        \/ p = Len(wire) + 1 /\ s = <<>> /\ C!Payload(SubSeq(wire', 1, p)) = C!Payload(wire)
        \/ last /\ p = Len(wire')
    BY <1>5, <2>1, Zenon DEF Sends
  <2>3. ASSUME p \in 1 .. Len(wire), wire[p] = B!Chunk(0), SubSeq(wire', 1, p) = SubSeq(wire, 1, p)
        PROVE  /\ kind # "form" => C!Payload(SubSeq(wire', 1, p)) = B!text
               /\ B!Carried \/ enc # "none" => last /\ p = Len(wire')
    BY <1>4, <2>3, Zenon DEF LastChunks
  <2>4. ASSUME s = <<>>, C!Payload(SubSeq(wire', 1, p)) = C!Payload(wire)
        PROVE  /\ kind # "form" => C!Payload(SubSeq(wire', 1, p)) = B!text
               /\ B!Carried \/ enc # "none" => last /\ p = Len(wire')
    <3>1. enc = "none" /\ pieces[windex + 1] = <<>> /\ deflating = <<>>
      BY <1>3, <1>4, <2>4 DEF Sending
    <3>2. ~B!Carried
      BY <1>1, <1>4, <2>1, <3>1, Zenon DEF Sendable
    <3>3. ASSUME kind # "form" PROVE C!Payload(wire) = B!text
      <4>1. Len(pieces) = 1
        BY <1>1, <1>4, <3>1, <3>3, Zenon DEF Sendable
      <4>2. windex + 1 = Len(pieces)
        BY <1>1, <4>1
      <4>3. (C!Payload(wire) \o <<>>) \o <<>> = C!Payload(wire)
        BY <1>1, ConcatEmptySeq
      <4> QED
        BY <1>1, <3>1, <4>2, <4>3, Zenon
    <3> QED
      BY <2>4, <3>1, <3>2, <3>3, Zenon
  <2>5. ASSUME last, p = Len(wire')
        PROVE  /\ kind # "form" => C!Payload(SubSeq(wire', 1, p)) = B!text
               /\ B!Carried \/ enc # "none" => last /\ p = Len(wire')
    <3>1. SubSeq(wire', 1, p) = wire'
      BY <1>4, <2>5, WholeCut
    <3>2. C!Payload(wire') \o deflating' = Sofar'[windex']
      BY DEF Sending
    <3>3. windex' = Len(pieces) /\ deflating' = <<>>
      BY <1>3, <2>5
    <3>4. C!Payload(wire') \o <<>> = C!Payload(wire')
      <4>1. C!Payload(wire') \in Seq(PlainUnits)
        BY <1>4, PayloadType
      <4> QED
        BY <4>1, ConcatEmptySeq
    <3>5. C!Payload(wire') = B!text
      BY <1>1, <1>2, <3>2, <3>3, <3>4, Zenon
    <3> QED
      BY <2>5, <3>1, <3>5, Zenon
  <2> QED
    BY <2>2, <2>3, <2>4, <2>5, Zenon
<1> QED
  BY <1>2, <1>5, Zenon DEF LastChunks

\* What Send leaves on the wire.
LEMMA SentIs ==
  ASSUME BodyIInv, NEW s \in Seq(Carriable), NEW last \in BOOLEAN, B!Send(s, last)
  PROVE  Sends(wire, s, last, wire') /\ sent' = last
<1>1. /\ wire' = wire \o B!Framed(s) \o (IF last THEN B!LastChunk ELSE <<>>)
      /\ sent' = last
  BY DEF B!Send
<1>2. wire \in Seq(WireUnits) /\ framing \in B!Framings /\ (framing = "chunked" => Chunks(wire))
  BY DEF BodyIInv, BodyTypes, B!TypeOK
<1>3. Sends(wire, s, last, wire \o B!Framed(s) \o (IF last THEN B!LastChunk ELSE <<>>))
  BY <1>2, SendsFramed
<1> QED
  BY <1>1, <1>3, Zenon

\* A turn that sends s keeps the invariant.
LEMMA TurnKeeps ==
  ASSUME BodyIInv, ~sent, B!More, UNCHANGED <<B!message, B!parser, B!reader, result>>,
         NEW s, NEW last, Turn(s, last), windex' = windex + 1, sent' = last,
         Sends(wire, s, last, wire')
  PROVE  BodyIInv'
<1>1. /\ UNCHANGED B!message
      /\ windex \in Nat /\ windex + 1 \in 1 .. Len(pieces) /\ Len(pieces) \in Nat
  BY WriterFacts
<1>2. Sending' /\ LastChunks'
  BY <1>1, TurnSends, TurnEnds
<1>3. windex' \in 0 .. Len(pieces)
  BY <1>1
<1>4. sent' \in BOOLEAN /\ deflating' \in Seq(PlainUnits)
  BY DEF Turn
<1>5. wire' \in Seq(WireUnits) /\ (framing = "chunked" => Chunks(wire'))
  BY DEF Sends
<1> QED
  BY <1>2, <1>3, <1>4, <1>5, BodyWriterKeeps

\* Whether a piece is the last one, as a value.
LEMMA LastTurn ==
  ASSUME NEW s, B!Send(s, B!AtLast), Len(pieces) \in Nat, windex \in Nat
  PROVE  \E last \in BOOLEAN : (last <=> windex + 1 = Len(pieces)) /\ B!Send(s, last)
<1>1. B!AtLast <=> windex + 1 = Len(pieces)
  BY DEF B!AtLast
<1>2. CASE B!AtLast
  <2>1. B!Send(s, TRUE)
    BY <1>2 DEF B!Send
  <2> QED
    BY <1>1, <1>2, <2>1
<1>3. CASE ~B!AtLast
  <2>1. B!Send(s, FALSE)
    BY <1>3 DEF B!Send, B!AtLast
  <2> QED
    BY <1>1, <1>3, <2>1
<1> QED
  BY <1>2, <1>3

\* get() without a compressor keeps the invariant,
LEMMA PlainGot == ASSUME BodyIInv, B!GetPlain PROVE BodyIInv'
<1>1. /\ enc = "none" /\ ~sent /\ B!More /\ windex' = windex + 1 /\ deflating' = deflating
      /\ B!Send(pieces[windex + 1], B!AtLast)
      /\ UNCHANGED <<B!message, B!parser, B!reader, result>>
  BY DEF B!GetPlain
<1>2. /\ windex \in Nat /\ Len(pieces) \in Nat
      /\ pieces[windex + 1] \in Seq(PlainUnits) /\ deflating \in Seq(PlainUnits)
  BY <1>1, WriterFacts
<1>3. PICK s : s = pieces[windex + 1]
  OBVIOUS
<1>4. B!Send(s, B!AtLast) /\ s \in Seq(PlainUnits)
  BY <1>1, <1>2, <1>3, Zenon
<1>5. PICK last \in BOOLEAN : (last <=> windex + 1 = Len(pieces)) /\ B!Send(s, last)
  BY <1>2, <1>4, LastTurn
<1>6. s \in Seq(Carriable)
  BY <1>4, PlainSends
<1>7. Sends(wire, s, last, wire') /\ sent' = last
  BY <1>5, <1>6, SentIs
<1>8. deflating = <<>>
  BY <1>1 DEF BodyIInv, Sending
<1>9. C!Payload(s) \o deflating' = deflating \o pieces[windex + 1]
  <2>1. C!Payload(s) = s
    BY <1>4, PayloadPlain
  <2>2. s \o <<>> = s /\ <<>> \o s = s
    BY <1>4, ConcatEmptySeq
  <2> QED
    BY <1>1, <1>3, <1>8, <2>1, <2>2, Zenon
<1>10. Turn(s, last)
  BY <1>1, <1>2, <1>3, <1>4, <1>5, <1>6, <1>8, <1>9, Zenon DEF Turn
<1> QED
  BY <1>1, <1>7, <1>10, TurnKeeps

\* The units that are marks of frames or streams, left out of a body.
LEMMA EndedFacts ==
  ASSUME NEW t \in Seq(PlainUnits)
  PROVE  /\ Append(t, B!End) \in Seq(Carriable) /\ Append(t, B!End) # <<>>
         /\ C!Payload(Append(t, B!End)) = t
<1>1. PICK e : e = B!End
  OBVIOUS
<1>2. e \in Carriable /\ e \in WireUnits /\ e.unit = "end"
  BY <1>1 DEF Carriable, WireUnits, B!End, B!Mark
<1>3. t \in Seq(Carriable) /\ t \in Seq(WireUnits) /\ C!Payload(t) = t
  BY PlainSends, PayloadPlain
<1>4. Append(t, e) \in Seq(Carriable) /\ Append(t, e) # <<>> /\ Append(t, e) = t \o <<e>>
  <2>1. Append(t, e) \in Seq(Carriable) /\ Append(t, e) # <<>>
    BY <1>2, <1>3, AppendProperties
  <2>2. Append(t, e) = t \o <<e>>
    BY <1>2, <1>3, AppendIsConcat
  <2> QED
    BY <2>1, <2>2
<1>5. <<e>> \in Seq(WireUnits) /\ C!Payload(<<e>>) = <<>>
  BY <1>2, PayloadMark
<1>6. C!Payload(t \o <<e>>) = C!Payload(t) \o C!Payload(<<e>>)
  BY <1>3, <1>5, PayloadJoin
<1>7. t \o <<>> = t
  BY ConcatEmptySeq
<1> QED
  BY <1>1, <1>3, <1>4, <1>5, <1>6, <1>7, Zenon

\* as does get() with one, whatever it holds back,
LEMMA DeflatedGot == ASSUME BodyIInv, B!GetDeflated PROVE BodyIInv'
<1> DEFINE given == deflating \o pieces[windex + 1]
<1>1. /\ enc # "none" /\ ~sent /\ B!More /\ windex' = windex + 1
      /\ UNCHANGED <<B!message, B!parser, B!reader, result>>
      /\ IF B!AtLast
           THEN deflating' = <<>> /\ B!Send(Append(given, B!End), TRUE)
           ELSE \E n \in 0 .. Len(given) :
                  /\ deflating' = SubSeq(given, n + 1, Len(given))
                  /\ IF n = 0 THEN UNCHANGED <<wire, sent>>
                              ELSE B!Send(SubSeq(given, 1, n), FALSE)
  BY DEF B!GetDeflated
<1>2. /\ windex \in Nat /\ Len(pieces) \in Nat /\ windex + 1 \in 1 .. Len(pieces)
      /\ pieces[windex + 1] \in Seq(PlainUnits) /\ deflating \in Seq(PlainUnits)
      /\ wire \in Seq(WireUnits) /\ C!Payload(wire) \in Seq(PlainUnits)
      /\ Sofar[windex + 1] = (C!Payload(wire) \o deflating) \o pieces[windex + 1]
  BY <1>1, WriterFacts
<1>3. B!AtLast <=> windex + 1 = Len(pieces)
  BY <1>2 DEF B!AtLast
<1>4. given \in Seq(PlainUnits)
  BY <1>2, ConcatProperties
<1> HIDE DEF given
<1>5. CASE B!AtLast
  <2>1. PICK s : s = Append(given, B!End)
    OBVIOUS
  <2>2. s \in Seq(Carriable) /\ s # <<>> /\ C!Payload(s) = given
    BY <1>4, <2>1, EndedFacts
  <2>3. deflating' = <<>> /\ B!Send(s, TRUE)
    BY <1>1, <1>5, <2>1
  <2>4. Sends(wire, s, TRUE, wire') /\ sent' = TRUE
    BY <2>2, <2>3, SentIs
  <2>5. C!Payload(s) \o deflating' = given
    BY <1>4, <2>2, <2>3, ConcatEmptySeq
  <2>6. deflating' \in Seq(PlainUnits)
    BY <2>3
  <2>7. Turn(s, TRUE)
    BY <1>1, <1>3, <1>5, <2>2, <2>3, <2>5, <2>6, Zenon DEF Turn, given
  <2> QED
    BY <1>1, <2>4, <2>7, TurnKeeps
<1>6. CASE ~B!AtLast
  <2>1. PICK n \in 0 .. Len(given) :
          /\ deflating' = SubSeq(given, n + 1, Len(given))
          /\ IF n = 0 THEN UNCHANGED <<wire, sent>> ELSE B!Send(SubSeq(given, 1, n), FALSE)
    BY <1>1, <1>6
  <2>2. PICK s : s = SubSeq(given, 1, n)
    OBVIOUS
  <2>3. /\ s \in Seq(PlainUnits) /\ deflating' \in Seq(PlainUnits) /\ Len(s) = n
        /\ given = s \o deflating'
    BY <1>4, <2>1, <2>2, TwoParts
  <2>4. CASE n # 0
    <3>1. B!Send(s, FALSE)
      BY <2>1, <2>2, <2>4
    <3>2. s \in Seq(Carriable) /\ C!Payload(s) = s
      BY <2>3, PlainSends, PayloadPlain
    <3>3. Sends(wire, s, FALSE, wire') /\ sent' = FALSE
      BY <3>1, <3>2, SentIs
    <3>4. s # <<>>
      BY <2>3, <2>4
    <3>5. C!Payload(s) \o deflating' = given
      BY <2>3, <3>2
    <3>6. Turn(s, FALSE)
      BY <1>1, <1>3, <1>6, <2>3, <3>2, <3>4, <3>5, Zenon DEF Turn, given
    <3> QED
      BY <1>1, <3>3, <3>6, TurnKeeps
  <2>5. CASE n = 0
    <3>1. wire' = wire /\ sent' = sent
      BY <2>1, <2>5
    <3>2. s = <<>>
      BY <2>3, <2>5, EmptySeq
    <3>3. deflating' = given
      BY <2>3, <3>2, ConcatEmptySeq
    <3>4. kind' = kind /\ pieces' = pieces /\ enc' = enc /\ framing' = framing /\ Sofar' = Sofar
          /\ B!text' = B!text /\ (B!Carried <=> B!Carried')
      BY <1>1, MessageKept
    <3>5. C!Payload(wire') \o deflating' = Sofar'[windex']
      <4>1. PICK a \in Seq(PlainUnits), b \in Seq(PlainUnits), c \in Seq(PlainUnits) :
              a = C!Payload(wire) /\ b = deflating /\ c = pieces[windex + 1]
        BY <1>2, Zenon
      <4>2. (a \o b) \o c = a \o (b \o c)
        BY ONLY a \in Seq(PlainUnits), b \in Seq(PlainUnits), c \in Seq(PlainUnits), ConcatAssociative
      <4> QED
        BY <1>1, <1>2, <3>1, <3>3, <3>4, <4>1, <4>2, Zenon DEF given
    <3>6. Sending'
      <4>1. Sending /\ (framing = "length" => enc = "none")
        BY DEF BodyIInv, Sendable
      <4>2. framing # "length" /\ windex' # Len(pieces')
        BY <1>1, <1>3, <1>6, <3>4, <4>1
      <4> QED
        BY <1>1, <3>1, <3>4, <3>5, <4>2, Zenon DEF Sending
    <3>7. LastChunks'
      <4>1. LastChunks
        BY DEF BodyIInv
      <4> QED
        BY <3>1, <3>4, <4>1, Zenon DEF LastChunks
    <3>8. windex' \in 0 .. Len(pieces) /\ sent' \in BOOLEAN
      BY <1>1, <1>2, <3>1 DEF BodyIInv, BodyTypes, B!TypeOK
    <3>9. wire' \in Seq(WireUnits) /\ (framing = "chunked" => Chunks(wire'))
      BY <3>1 DEF BodyIInv, BodyTypes
    <3> QED
      BY <1>1, <2>3, <3>6, <3>7, <3>8, <3>9, BodyWriterKeeps
  <2> QED
    BY <2>4, <2>5
<1> QED
  BY <1>5, <1>6

\* and a body that has nothing to write.
LEMMA NothingGot == ASSUME BodyIInv, B!GetNothing PROVE BodyIInv'
<1>1. /\ ~sent /\ ~B!More /\ wire' = wire \o B!LastChunk /\ sent' = TRUE
      /\ windex' = windex /\ deflating' = deflating
      /\ UNCHANGED <<B!message, B!parser, B!reader, result>>
  BY DEF B!GetNothing
<1>2. /\ windex \in 0 .. Len(pieces) /\ pieces \in Seq(Seq(PlainUnits)) /\ wire \in Seq(WireUnits)
      /\ framing \in B!Framings /\ (framing = "chunked" => Chunks(wire))
      /\ Sending /\ LastChunks /\ (framing = "length" => enc = "none")
      /\ C!Payload(wire) \o deflating = Sofar[windex] /\ deflating \in Seq(PlainUnits)
  BY DEF BodyIInv, BodyTypes, B!TypeOK, Sendable, Sending
<1>3. Len(pieces) \in Nat /\ Sofar[0] = <<>> /\ Sofar[Len(pieces)] = B!text
  BY <1>2, SofarFacts
<1>4. windex = Len(pieces)
  BY <1>1, <1>2, <1>3 DEF B!More
<1>5. pieces = <<>>
  BY <1>1, <1>2, <1>4 DEF Sending
<1>6. Len(pieces) = 0
  BY <1>5
<1>7. B!text = <<>> /\ C!Payload(wire) \o deflating = <<>>
  BY <1>2, <1>3, <1>4, <1>6
<1>8. C!Payload(wire) = <<>> /\ deflating = <<>>
  <2>1. C!Payload(wire) \in Seq(PlainUnits)
    BY <1>2, PayloadType
  <2> QED
    BY <1>2, <1>7, <2>1, EmptyJoin
<1>9. /\ kind' = kind /\ pieces' = pieces /\ enc' = enc /\ framing' = framing /\ Sofar' = Sofar
      /\ B!text' = B!text /\ (B!Carried <=> B!Carried')
  BY <1>1, MessageKept
<1>10. PICK s \in Seq(Carriable) : s = <<>> /\ Len(s) = 0
  <2>1. <<>> \in Seq(Carriable) /\ Len(<<>>) = 0
    BY EmptySeq
  <2> QED
    BY <2>1, Zenon
<1>11. framing = "length" => wire' = wire
  <2> SUFFICES ASSUME framing = "length" PROVE wire' = wire
    OBVIOUS
  <2>1. B!LastChunk = <<>>
    BY DEF B!LastChunk
  <2> QED
    BY <1>1, <1>2, <2>1, ConcatEmptySeq
<1>12. framing = "chunked" => Sends(wire, s, FALSE, wire') /\ Len(wire') = Len(wire) + 1
  <2> SUFFICES ASSUME framing = "chunked"
               PROVE  Sends(wire, s, FALSE, wire') /\ Len(wire') = Len(wire) + 1
    OBVIOUS
  <2>1. PICK c : c = B!Chunk(0)
    OBVIOUS
  <2>2. <<c>> \o <<>> = <<c>>
    <3>1. <<c>> \in Seq({c})
      OBVIOUS
    <3> QED
      BY <3>1, ConcatEmptySeq
  <2>3. wire' = wire \o (<<B!Chunk(Len(s))>> \o s)
    <3>1. B!LastChunk = <<c>>
      BY <2>1 DEF B!LastChunk
    <3> QED
      BY <1>1, <1>10, <2>1, <2>2, <3>1, Zenon
  <2>4. PICK v : v = wire \o (<<B!Chunk(Len(s))>> \o s)
    OBVIOUS
  <2>5. Sends(wire, s, FALSE, v) /\ Framing(wire, s, v)
    BY <1>2, <2>4, SendsChunk, FramingFacts
  <2>6. Len(v) = Len(wire) + 1
    <3>1. Len(wire) \in Nat /\ Len(v) = Len(wire) + 1 + Len(s)
      BY <1>2, <2>5, LenProperties DEF Framing
    <3> QED
      BY <1>10, <3>1
  <2> QED
    BY <2>3, <2>4, <2>5, <2>6, Zenon
<1>13. framing = "length" \/ framing = "chunked"
  BY <1>2 DEF B!Framings
<1>14. wire' \in Seq(WireUnits) /\ (framing = "chunked" => Chunks(wire'))
  <2>1. CASE framing = "length"
    BY <1>2, <1>11, <2>1
  <2>2. CASE framing = "chunked"
    BY <1>12, <2>2, Zenon DEF Sends
  <2> QED
    BY <1>13, <2>1, <2>2
<1>15. C!Payload(wire') = <<>>
  <2>1. CASE framing = "length"
    BY <1>8, <1>11, <2>1
  <2>2. CASE framing = "chunked"
    <3>1. C!Payload(wire') = C!Payload(wire) \o C!Payload(s)
      BY <1>12, <2>2, Zenon DEF Sends
    <3>2. C!Payload(<<>>) = <<>>
      <4>1. B!Chunk(0) \in WireUnits /\ B!Chunk(0).unit = "chunk"
        BY HeaderUnitFacts
      <4> QED
        BY <4>1, PayloadMark
    <3>3. <<>> \o <<>> = <<>>
      OBVIOUS
    <3> QED
      BY <1>8, <1>10, <3>1, <3>2, <3>3, Zenon
  <2> QED
    BY <1>13, <2>1, <2>2
<1>16. Sending'
  <2>1. C!Payload(wire') \o deflating' = Sofar'[windex']
    <3>1. <<>> \o <<>> = <<>> /\ Sofar[windex] = <<>>
      BY <1>3, <1>4, <1>6
    <3> QED
      BY <1>1, <1>8, <1>9, <1>15, <3>1, Zenon
  <2>2. enc' = "none" => deflating' = <<>> /\ \A p \in 1 .. Len(wire') : wire'[p] # B!End
    <3> SUFFICES ASSUME enc = "none" PROVE NoEnd(wire')
      BY <1>1, <1>8, <1>9, Zenon DEF NoEnd
    <3>1. NoEnd(wire)
      BY <1>2, Zenon DEF NoEnd, Sending
    <3>2. NoEnd(s)
      BY <1>10 DEF NoEnd
    <3>3. CASE framing = "length"
      BY <1>11, <3>1, <3>3
    <3>4. CASE framing = "chunked"
      BY <1>12, <3>1, <3>2, <3>4, Zenon DEF Sends
    <3> QED
      BY <1>13, <3>3, <3>4
  <2>3. framing' = "length" => wire' \in Seq(PlainUnits)
    BY <1>2, <1>9, <1>11 DEF Sending
  <2>4. windex' = Len(pieces') /\ deflating' = <<>> /\ sent'
    BY <1>1, <1>4, <1>8, <1>9
  <2> QED
    BY <2>1, <2>2, <2>3, <2>4, Zenon DEF Sending
<1>17. LastChunks'
  <2>1. ASSUME NEW p \in 1 .. Len(wire'), wire'[p] = B!Chunk(0)
        PROVE  /\ kind # "form" => C!Payload(SubSeq(wire', 1, p)) = B!text
               /\ B!Carried \/ enc # "none" => sent' /\ p = Len(wire')
    <3>1. framing = "chunked"
      <4>1. framing = "length" => wire' \in Seq(PlainUnits)
        BY <1>9, <1>16 DEF Sending
      <4>2. framing # "length"
        BY <2>1, <4>1, PlainSends
      <4> QED
        BY <1>13, <4>2
    <3>2. \/ p \in 1 .. Len(wire) /\ wire[p] = B!Chunk(0) /\ SubSeq(wire', 1, p) = SubSeq(wire, 1, p)
          \/ p = Len(wire) + 1 /\ s = <<>> /\ C!Payload(SubSeq(wire', 1, p)) = C!Payload(wire)
      BY <1>12, <2>1, <3>1, Zenon DEF Sends
    <3>3. ASSUME p \in 1 .. Len(wire), wire[p] = B!Chunk(0), SubSeq(wire', 1, p) = SubSeq(wire, 1, p)
          PROVE  /\ kind # "form" => C!Payload(SubSeq(wire', 1, p)) = B!text
                 /\ B!Carried \/ enc # "none" => sent' /\ p = Len(wire')
      BY <1>1, <1>2, <3>3, Zenon DEF LastChunks
    <3>4. ASSUME p = Len(wire) + 1, C!Payload(SubSeq(wire', 1, p)) = C!Payload(wire)
          PROVE  /\ kind # "form" => C!Payload(SubSeq(wire', 1, p)) = B!text
                 /\ B!Carried \/ enc # "none" => sent' /\ p = Len(wire')
      BY <1>1, <1>7, <1>8, <1>12, <3>1, <3>4, Zenon
    <3> QED
      BY <3>2, <3>3, <3>4, Zenon
  <2> QED
    BY <1>9, <2>1, Zenon DEF LastChunks
<1>18. windex' \in 0 .. Len(pieces) /\ sent' \in BOOLEAN /\ deflating' \in Seq(PlainUnits)
  BY <1>1, <1>2
<1> QED
  BY <1>1, <1>14, <1>16, <1>17, <1>18, BodyWriterKeeps
-----------------------------------------------------------------------------
(* The parser *)

\* What the parser passes on.
LEMMA PassedOn ==
  ASSUME BodyIInv, B!Reading, B!data # <<>>
  PROVE  /\ B!data \in Seq(Carriable) /\ Len(B!data) \in Nat \ {0} /\ used \in Nat /\ len \in Nat
         /\ arrived \in Nat /\ used + Len(B!data) <= arrived /\ Len(B!data) <= len
         /\ enc = "none" => B!data \in Seq(PlainUnits)
         /\ \A n \in 0 .. Len(B!data) :
              C!Payload(SubSeq(wire, 1, used + n))
                = C!Payload(SubSeq(wire, 1, used)) \o C!Payload(SubSeq(B!data, 1, n))
<1>1. /\ wire \in Seq(WireUnits) /\ arrived \in 0 .. Len(wire) /\ used \in 0 .. arrived /\ len \in Nat
      /\ result = "reading" /\ framing \in B!Framings
  BY DEF BodyIInv, BodyTypes, B!TypeOK, B!Reading
<1>2. Len(wire) \in Nat /\ arrived \in Nat /\ used \in Nat /\ used + len \in Nat
      /\ used <= arrived /\ arrived <= Len(wire)
  BY <1>1, LenProperties
<1>3. PICK e : e = B!Min({arrived, used + len})
  OBVIOUS
<1>4. e = IF arrived <= used + len THEN arrived ELSE used + len
  BY <1>2, <1>3, LeastLength
<1>5. PICK k : k = e - used
  OBVIOUS
<1>6. k \in Nat /\ e = used + k /\ used + k <= arrived /\ k <= len /\ used + k <= Len(wire)
  BY <1>1, <1>2, <1>4, <1>5
<1>7. PICK d : d = B!data
  OBVIOUS
<1>8. d = SubSeq(wire, used + 1, used + k)
  BY <1>3, <1>6, <1>7 DEF B!data
<1>9. d \in Seq(WireUnits) /\ Len(d) = k /\ \A i \in 1 .. k : d[i] = wire[used + i]
  BY <1>1, <1>2, <1>6, <1>8, LongerCut
<1>10. k # 0
  <2>1. k = 0 => d = <<>>
    BY <1>9, EmptySeq
  <2> QED
    BY <1>7, <2>1
<1>11. ASSUME NEW i \in 1 .. k PROVE wire[used + i] \in WireUnits /\ wire[used + i].unit # "chunk"
  <2>1. used + i \in 1 .. Len(wire) /\ used + i \in used + 1 .. used + len
    BY <1>1, <1>2, <1>6
  <2>2. wire[used + i] \in WireUnits
    BY <1>1, <2>1, ElementOfSeq
  <2>3. CASE framing = "length"
    <3>1. wire \in Seq(PlainUnits)
      BY <2>3 DEF BodyIInv, Sending
    <3>2. wire[used + i] \in PlainUnits
      BY <2>1, <3>1, ElementOfSeq
    <3> QED
      BY <2>2, <3>2, WireUnitFacts
  <2>4. CASE framing = "chunked"
    <3>1. ~IsChunk(wire, used + i)
      BY <1>1, <2>1, <2>4 DEF BodyIInv, Parsing
    <3> QED
      BY <2>2, <3>1 DEF IsChunk
  <2> QED
    BY <1>1, <2>3, <2>4 DEF B!Framings
<1>12. d \in Seq(Carriable)
  <2>1. \A i \in 1 .. Len(d) : d[i] \in Carriable
    BY <1>9, <1>11, WireUnitFacts
  <2>2. AllIn(d, Carriable)
    BY <2>1, Zenon DEF AllIn
  <2> QED
    BY <1>9, <2>2, SeqWithin
<1>13. ASSUME enc = "none" PROVE d \in Seq(PlainUnits)
  <2>1. \A p \in 1 .. Len(wire) : wire[p] # B!End
    BY <1>13 DEF BodyIInv, Sending
  <2>2. ASSUME NEW i \in 1 .. Len(d) PROVE d[i] \in PlainUnits
    <3>1. d[i] \in Carriable /\ d[i] = wire[used + i]
      BY <1>9, <1>12, <2>2, ElementOfSeq
    <3>2. used + i \in 1 .. Len(wire)
      BY <1>1, <1>2, <1>6, <1>9
    <3> QED
      BY <2>1, <3>1, <3>2 DEF Carriable
  <2>3. AllIn(d, PlainUnits)
    BY <2>2, Zenon DEF AllIn
  <2> QED
    BY <1>9, <2>3, SeqWithin
<1>14. ASSUME NEW n \in 0 .. k
       PROVE  C!Payload(SubSeq(wire, 1, used + n))
                = C!Payload(SubSeq(wire, 1, used)) \o C!Payload(SubSeq(d, 1, n))
  <2>1. n \in Nat /\ used + n <= Len(wire)
    BY <1>2, <1>6
  <2>2. /\ SubSeq(wire, 1, used) \in Seq(WireUnits)
        /\ SubSeq(wire, used + 1, used + n) \in Seq(WireUnits)
        /\ SubSeq(wire, 1, used + n) = SubSeq(wire, 1, used) \o SubSeq(wire, used + 1, used + n)
    BY <1>1, <1>2, <2>1, LongerCut
  <2>3. SubSeq(d, 1, n) = SubSeq(wire, used + 1, used + n)
    BY <1>1, <1>2, <1>6, <1>8, CutOfCut
  <2>4. PICK a \in Seq(WireUnits), b \in Seq(WireUnits) :
          a = SubSeq(wire, 1, used) /\ b = SubSeq(wire, used + 1, used + n)
    BY <2>2, Zenon
  <2>5. C!Payload(a \o b) = C!Payload(a) \o C!Payload(b)
    BY PayloadJoin
  <2> QED
    BY <2>2, <2>3, <2>4, <2>5, Zenon
<1>15. \A n \in 0 .. Len(d) :
          C!Payload(SubSeq(wire, 1, used + n))
            = C!Payload(SubSeq(wire, 1, used)) \o C!Payload(SubSeq(d, 1, n))
  BY <1>9, <1>14, Zenon
<1>16. Len(d) \in Nat \ {0} /\ used + Len(d) <= arrived /\ Len(d) <= len
  BY <1>6, <1>9, <1>10
<1> QED
  BY <1>1, <1>2, <1>7, <1>12, <1>13, <1>15, <1>16, Zenon

\* A reader that keeps to what is asked of it keeps the invariant.
LEMMA ReaderKeeps ==
  ASSUME BodyIInv, sent, UNCHANGED <<B!message, B!writer>>, BodyTypes', Parsing', Consuming',
         B!AcceptedIsWhole', B!NothingLeftBehind'
  PROVE  BodyIInv'
<1>1. /\ UNCHANGED B!message /\ windex' = windex /\ deflating' = deflating /\ wire' = wire
      /\ sent' = sent
  BY DEF B!writer
<1>2. /\ kind' = kind /\ pieces' = pieces /\ enc' = enc /\ framing' = framing /\ Sofar' = Sofar
      /\ B!text' = B!text /\ (B!Carried <=> B!Carried') /\ (Sendable => Sendable')
  BY <1>1, MessageKept
<1>3. Sendable' /\ (framing' = "chunked" => Chunks(wire'))
  BY <1>1, <1>2 DEF BodyIInv
<1>4. Sending'
  BY <1>1, <1>2, Zenon DEF BodyIInv, Sending
<1>5. LastChunks'
  BY <1>1, <1>2, Zenon DEF BodyIInv, LastChunks
<1>6. Unread'
  BY <1>1 DEF Unread
<1> QED
  BY <1>3, <1>4, <1>5, <1>6, Zenon DEF BodyIInv

\* The types, but for those that a step sets.
LEMMA ReaderTypes ==
  ASSUME BodyIInv, sent, UNCHANGED <<B!message, B!writer>>,
         arrived' \in 0 .. Len(wire), used' \in 0 .. arrived', len' \in Nat, hungry' \in BOOLEAN,
         step' \in {"boundary_line", "boundary_header", "boundary_content", "finished", "eof"},
         result' \in {"reading", "ok", "failed"}, inflating' \in Seq(Carriable),
         enc # "br" => decoded' \in Seq(PlainUnits) /\ got' \in Seq(PlainUnits)
  PROVE  BodyTypes'
<1>1. /\ UNCHANGED B!message /\ windex' = windex /\ deflating' = deflating /\ wire' = wire
      /\ sent' = sent
  BY DEF B!writer
<1>2. kind' = kind /\ pieces' = pieces /\ enc' = enc /\ framing' = framing
  BY <1>1, MessageKept
<1>3. BodyTypes /\ B!TypeOK
  BY DEF BodyIInv, BodyTypes
<1>4. B!TypeOK'
  BY <1>1, <1>2, <1>3, Zenon DEF B!TypeOK
<1> QED
  BY <1>1, <1>2, <1>3, <1>4, Zenon DEF BodyTypes

\* Of a body that is not accepted nothing is asked.
LEMMA Unaccepted ==
  ASSUME result' # "ok"
  PROVE  B!AcceptedIsWhole' /\ B!NothingLeftBehind'
BY Zenon DEF B!AcceptedIsWhole, B!NothingLeftBehind

\* What has not been read is as it was.
LEMMA ConsumingSame ==
  ASSUME Consuming, UNCHANGED <<B!message, wire, used, got, decoded, inflating, step>>,
         result' = result \/ result' = "failed"
  PROVE  Consuming'
<1>1. kind' = kind /\ enc' = enc /\ UNCHANGED <<wire, used, got, decoded, inflating, step>>
  BY DEF B!message
<1>2. result' = "reading" => result = "reading"
  OBVIOUS
<1> QED
  BY <1>1, <1>2, Zenon DEF Consuming

\* The parser's place is as it was.
LEMMA ParsingSame ==
  ASSUME Parsing, UNCHANGED <<B!message, wire, used, len>>, result' = result \/ result' = "failed"
  PROVE  Parsing'
<1>1. framing' = framing /\ B!text' = B!text /\ UNCHANGED <<wire, used, len>>
  BY MessageKept
<1>2. result' = "reading" => result = "reading"
  OBVIOUS
<1> QED
  BY <1>1, <1>2, Zenon DEF Parsing

\* What arrives keeps the invariant,
LEMMA BodyArrives == ASSUME BodyIInv, B!Arrive PROVE BodyIInv'
<1>1. /\ sent /\ result = "reading" /\ arrived < Len(wire)
      /\ arrived' \in (arrived + 1) .. Len(wire) /\ hungry' = FALSE
      /\ UNCHANGED <<B!message, B!writer, used, len, B!reader, result>>
  BY DEF B!Arrive, B!Reading
<1>2. /\ inflating' = inflating /\ decoded' = decoded /\ got' = got /\ step' = step /\ wire' = wire
      /\ used' = used /\ len' = len
  BY <1>1 DEF B!reader, B!writer
<1>3. /\ arrived \in 0 .. Len(wire) /\ used \in 0 .. arrived /\ len \in Nat
      /\ step \in {"boundary_line", "boundary_header", "boundary_content", "finished", "eof"}
      /\ inflating \in Seq(Carriable)
      /\ (enc # "br" => decoded \in Seq(PlainUnits) /\ got \in Seq(PlainUnits))
      /\ Len(wire) \in Nat
  BY LenProperties DEF BodyIInv, BodyTypes, B!TypeOK
<1>4. arrived' \in 0 .. Len(wire) /\ used' \in 0 .. arrived'
  BY <1>1, <1>2, <1>3
<1>5. BodyTypes'
  BY <1>1, <1>2, <1>3, <1>4, ReaderTypes
<1>6. Parsing' /\ Consuming'
  BY <1>1, <1>2, ParsingSame, ConsumingSame DEF BodyIInv
<1>7. B!AcceptedIsWhole' /\ B!NothingLeftBehind'
  BY <1>1, Unaccepted
<1> QED
  BY <1>1, <1>5, <1>6, <1>7, ReaderKeeps

\* as does a read that ends with nothing to come,
LEMMA BodyStarves == ASSUME BodyIInv, B!Starve PROVE BodyIInv'
<1>1. /\ sent /\ result = "reading" /\ result' = "failed"
      /\ UNCHANGED <<B!message, B!writer, B!parser, B!reader>>
  BY DEF B!Starve, B!Reading
<1>2. /\ inflating' = inflating /\ decoded' = decoded /\ got' = got /\ step' = step /\ wire' = wire
      /\ used' = used /\ len' = len /\ arrived' = arrived /\ hungry' = hungry
  BY <1>1 DEF B!reader, B!writer, B!parser
<1>3. /\ arrived \in 0 .. Len(wire) /\ used \in 0 .. arrived /\ len \in Nat /\ hungry \in BOOLEAN
      /\ step \in {"boundary_line", "boundary_header", "boundary_content", "finished", "eof"}
      /\ inflating \in Seq(Carriable)
      /\ (enc # "br" => decoded \in Seq(PlainUnits) /\ got \in Seq(PlainUnits))
  BY DEF BodyIInv, BodyTypes, B!TypeOK
<1>4. BodyTypes'
  BY <1>1, <1>2, <1>3, ReaderTypes
<1>5. Parsing' /\ Consuming'
  BY <1>1, <1>2, ParsingSame, ConsumingSame DEF BodyIInv
<1>6. B!AcceptedIsWhole' /\ B!NothingLeftBehind'
  BY <1>1, Unaccepted
<1> QED
  BY <1>1, <1>4, <1>5, <1>6, ReaderKeeps

\* the header of a chunk,
LEMMA HeaderRead == ASSUME BodyIInv, B!ChunkHeader PROVE BodyIInv'
<1>1. /\ sent /\ result = "reading" /\ framing = "chunked" /\ len = 0 /\ used < arrived
      /\ used' = used + 1 /\ len' = wire[used + 1].at
      /\ UNCHANGED <<B!message, B!writer, arrived, hungry, B!reader, result>>
  BY DEF B!ChunkHeader, B!Reading
<1>2. /\ inflating' = inflating /\ decoded' = decoded /\ got' = got /\ step' = step /\ wire' = wire
      /\ arrived' = arrived /\ hungry' = hungry /\ kind' = kind /\ enc' = enc /\ framing' = framing
      /\ result' = result
  BY <1>1, MessageKept DEF B!reader, B!writer
<1>3. /\ arrived \in 0 .. Len(wire) /\ used \in 0 .. arrived /\ hungry \in BOOLEAN
      /\ step \in {"boundary_line", "boundary_header", "boundary_content", "finished", "eof"}
      /\ inflating \in Seq(Carriable)
      /\ (enc # "br" => decoded \in Seq(PlainUnits) /\ got \in Seq(PlainUnits))
      /\ wire \in Seq(WireUnits)
  BY DEF BodyIInv, BodyTypes, B!TypeOK
<1>4. PICK p : p = used + 1
  OBVIOUS
<1>5. Len(wire) \in Nat /\ used \in Nat /\ p \in 1 .. Len(wire) /\ used' = p /\ used' \in 0 .. arrived'
  <2>1. Len(wire) \in Nat
    BY <1>3, LenProperties
  <2> QED
    BY <1>1, <1>2, <1>3, <1>4, <2>1
<1>6. IsChunk(wire, p)
  <2>1. used + len < Len(wire) /\ used + len + 1 = p
    BY <1>1, <1>4, <1>5
  <2>2. Parsing
    BY DEF BodyIInv
  <2> QED
    BY <1>1, <2>1, <2>2 DEF Parsing
<1>7. wire[p] \in WireUnits /\ wire[p].unit = "chunk" /\ wire[p].at \in Nat
  <2>1. wire[p] \in WireUnits
    BY <1>3, <1>5, ElementOfSeq
  <2> QED
    BY <1>6, <2>1, WireUnitFacts DEF IsChunk
<1>8. /\ p + wire[p].at <= Len(wire)
      /\ \A k \in p + 1 .. p + wire[p].at : ~IsChunk(wire, k)
      /\ p + wire[p].at < Len(wire) => IsChunk(wire, p + wire[p].at + 1)
  <2>1. Chunks(wire)
    BY <1>1 DEF BodyIInv
  <2> QED
    BY <1>5, <1>6, <2>1, Zenon DEF Chunks
<1>9. len' = wire[p].at
  BY <1>1, <1>4
<1>10. Parsing'
  <2>1. framing' # "length"
    BY <1>1, <1>2
  <2> QED
    BY <1>2, <1>5, <1>8, <1>9, <2>1, Zenon DEF Parsing
<1>11. C!Payload(SubSeq(wire, 1, p)) = C!Payload(SubSeq(wire, 1, used))
  <2>1. 1 \in Nat /\ used + 1 <= Len(wire)
    BY <1>4, <1>5
  <2>2. /\ SubSeq(wire, 1, used) \in Seq(WireUnits)
        /\ SubSeq(wire, used + 1, used + 1) \in Seq(WireUnits)
        /\ Len(SubSeq(wire, used + 1, used + 1)) = 1
        /\ \A i \in 1 .. 1 : SubSeq(wire, used + 1, used + 1)[i] = wire[used + i]
        /\ SubSeq(wire, 1, used + 1) = SubSeq(wire, 1, used) \o SubSeq(wire, used + 1, used + 1)
    BY <1>3, <1>5, <2>1, LongerCut
  <2>3. PICK a \in Seq(WireUnits), b \in Seq(WireUnits) :
          a = SubSeq(wire, 1, used) /\ b = SubSeq(wire, used + 1, used + 1)
    BY <2>2, Zenon
  <2>4. Len(b) = 1 /\ b[1] = wire[p]
    <3>1. 1 \in 1 .. 1
      OBVIOUS
    <3> QED
      BY <1>4, <2>2, <2>3, <3>1, Zenon
  <2>5. PICK u : u = wire[p]
    OBVIOUS
  <2>6. b = <<u>>
    BY <2>4, <2>5
  <2>7. C!Payload(<<u>>) = <<>>
    BY <1>7, <2>5, PayloadMark
  <2>8. C!Payload(a \o b) = C!Payload(a) \o C!Payload(b)
    BY PayloadJoin
  <2>9. C!Payload(a) \o <<>> = C!Payload(a)
    <3>1. C!Payload(a) \in Seq(PlainUnits)
      BY PayloadType
    <3> QED
      BY <3>1, ConcatEmptySeq
  <2> QED
    BY <1>4, <2>2, <2>3, <2>6, <2>7, <2>8, <2>9, Zenon
<1>12. Consuming'
  <2>1. Consuming
    BY DEF BodyIInv
  <2> QED
    BY <1>2, <1>5, <1>11, <2>1, Zenon DEF Consuming
<1>13. BodyTypes'
  BY <1>1, <1>2, <1>3, <1>5, <1>7, <1>9, ReaderTypes
<1>14. B!AcceptedIsWhole' /\ B!NothingLeftBehind'
  BY <1>1, Unaccepted
<1> QED
  BY <1>1, <1>10, <1>12, <1>13, <1>14, ReaderKeeps

\* and a step of another part.
LEMMA BodyStays == ASSUME BodyIInv, UNCHANGED B!vars PROVE BodyIInv'
<1>1. /\ UNCHANGED <<B!message, B!writer, B!parser, B!reader, result>>
  BY DEF B!vars
<1>2. /\ inflating' = inflating /\ decoded' = decoded /\ got' = got /\ step' = step /\ wire' = wire
      /\ used' = used /\ len' = len /\ arrived' = arrived /\ hungry' = hungry /\ sent' = sent
      /\ windex' = windex /\ deflating' = deflating /\ result' = result
  BY <1>1 DEF B!reader, B!writer, B!parser
<1>3. /\ kind' = kind /\ pieces' = pieces /\ enc' = enc /\ framing' = framing /\ Sofar' = Sofar
      /\ B!text' = B!text /\ (B!Carried <=> B!Carried') /\ (Sendable => Sendable')
  BY <1>1, MessageKept
<1>4. B!TypeOK'
  BY <1>2, <1>3, Zenon DEF BodyIInv, BodyTypes, B!TypeOK
<1>5. BodyTypes'
  BY <1>2, <1>3, <1>4, Zenon DEF BodyIInv, BodyTypes
<1>6. Sending' /\ LastChunks' /\ Unread'
  <2>1. Sending'
    BY <1>2, <1>3, Zenon DEF BodyIInv, Sending
  <2>2. LastChunks'
    BY <1>2, <1>3, Zenon DEF BodyIInv, LastChunks
  <2>3. Unread'
    BY <1>2, <1>3, Zenon DEF BodyIInv, Unread
  <2> QED
    BY <2>1, <2>2, <2>3
<1>7. Parsing' /\ Consuming'
  BY <1>1, <1>2, ParsingSame, ConsumingSame DEF BodyIInv
<1>8. B!AcceptedIsWhole' /\ B!NothingLeftBehind'
  BY <1>2, <1>3, Zenon DEF BodyIInv, B!AcceptedIsWhole, B!NothingLeftBehind
<1> QED
  BY <1>2, <1>3, <1>5, <1>6, <1>7, <1>8, Zenon DEF BodyIInv
-----------------------------------------------------------------------------
(* The readers *)

\* The steps of a form's reader.
FormSteps == {"boundary_line", "boundary_header", "boundary_content", "finished", "eof"}

\* What a reader answers.
LEMMA PutResultIs ==
  ASSUME NEW n, NEW s, NEW ec
  PROVE  /\ B!PutResult(n, s, ec).n = n /\ B!PutResult(n, s, ec).step = s
         /\ B!PutResult(n, s, ec).ec = ec
BY DEF B!PutResult

\* The least place of a mark.
LEMMA LeastPlace ==
  ASSUME NEW k \in Nat, NEW P \in SUBSET (1 .. k), P # {}, 1 \notin P
  PROVE  B!Min(P) - 1 \in 0 .. k
<1>1. P \subseteq Nat
  OBVIOUS
<1>2. PICK m \in P : \A y \in P : m <= y
  BY <1>1, LeastOf
<1>3. B!Min(P) \in P
  BY <1>2, Zenon DEF B!Min
<1>4. PICK q : q = B!Min(P)
  OBVIOUS
<1>5. q \in 1 .. k /\ q # 1
  BY <1>3, <1>4
<1>6. q - 1 \in 0 .. k
  BY <1>5
<1> QED
  BY <1>4, <1>6, Zenon

\* Where a form's reader goes, and how far.
FormGoes(d, r) ==
  /\ r.n \in 0 .. Len(d) /\ r.step \in FormSteps
  /\ \/ r.n = 1 /\ step = "boundary_line" /\ d[1] = B!Closing /\ r.step = "finished"
     \/ r.n = 1 /\ step = "finished" /\ r.step = "eof"
     \/ r.n = 0 /\ r.step = step
     \/ r.step \notin {"finished", "eof"}

\* That is what its put() does.
LEMMA FormPutFacts ==
  ASSUME NEW d, Len(d) \in Nat \ {0}, DOMAIN d = 1 .. Len(d), step \in FormSteps
  PROVE  FormGoes(d, B!FormPut(d))
<1> DEFINE ends == {i \in DOMAIN d : d[i] = B!LineEnd}
           r    == B!FormPut(d)
<1>1. r = CASE step = "boundary_line" /\ d[1] = B!Delimiter -> B!PutResult(1, "boundary_header", "none")
            [] step = "boundary_line" /\ d[1] = B!Closing   -> B!PutResult(1, "finished", "none")
            [] step = "boundary_header" /\ d[1] = B!Header  -> B!PutResult(1, "boundary_content", "none")
            [] step = "boundary_content" /\ 1 \in ends ->
                 IF Len(d) = 1 THEN B!PutResult(0, step, "need_more")
                               ELSE B!PutResult(1, "boundary_line", "none")
            [] step = "boundary_content" /\ 1 \notin ends ->
                 B!PutResult(IF ends = {} THEN Len(d) ELSE B!Min(ends) - 1, step, "none")
            [] step = "finished" /\ d[1] = B!LineEnd -> B!PutResult(1, "eof", "none")
            [] OTHER -> B!PutResult(0, step, "error")
  BY DEF B!FormPut
<1>2. ends \in SUBSET (1 .. Len(d))
  OBVIOUS
<1> HIDE DEF ends, r
<1>3. 1 \in 0 .. Len(d) /\ 0 \in 0 .. Len(d) /\ Len(d) \in 0 .. Len(d)
  OBVIOUS
<1>4. B!Delimiter # B!Closing
  BY FormMarks
<1>5. CASE step = "boundary_line" /\ d[1] = B!Delimiter
  <2>1. r = B!PutResult(1, "boundary_header", "none")
    BY <1>1, <1>4, <1>5
  <2> QED
    BY <1>3, <2>1, PutResultIs DEF FormGoes, FormSteps, r
<1>6. CASE step = "boundary_line" /\ d[1] = B!Closing
  <2>1. r = B!PutResult(1, "finished", "none")
    BY <1>1, <1>4, <1>6
  <2> QED
    BY <1>3, <1>6, <2>1, PutResultIs DEF FormGoes, FormSteps, r
<1>7. CASE step = "boundary_header" /\ d[1] = B!Header
  <2>1. r = B!PutResult(1, "boundary_content", "none")
    BY <1>1, <1>7
  <2> QED
    BY <1>3, <2>1, PutResultIs DEF FormGoes, FormSteps, r
<1>8. CASE step = "boundary_content" /\ 1 \in ends
  <2>1. r = B!PutResult(0, step, "need_more") \/ r = B!PutResult(1, "boundary_line", "none")
    BY <1>1, <1>8
  <2> QED
    BY <1>3, <1>8, <2>1, PutResultIs DEF FormGoes, FormSteps, r
<1>9. CASE step = "boundary_content" /\ 1 \notin ends
  <2>1. PICK n : n = IF ends = {} THEN Len(d) ELSE B!Min(ends) - 1
    OBVIOUS
  <2>2. r = B!PutResult(n, step, "none")
    BY <1>1, <1>9, <2>1
  <2>3. n \in 0 .. Len(d)
    <3>1. ASSUME ends # {} PROVE B!Min(ends) - 1 \in 0 .. Len(d)
      <4>1. PICK P \in SUBSET (1 .. Len(d)) : P = ends
        BY <1>2
      <4> QED
        BY <1>9, <3>1, <4>1, LeastPlace
    <3> QED
      BY <1>3, <2>1, <3>1
  <2> QED
    BY <1>9, <2>2, <2>3, PutResultIs DEF FormGoes, FormSteps, r
<1>10. CASE step = "finished" /\ d[1] = B!LineEnd
  <2>1. r = B!PutResult(1, "eof", "none")
    BY <1>1, <1>10
  <2> QED
    BY <1>3, <1>10, <2>1, PutResultIs DEF FormGoes, FormSteps, r
<1>11. CASE /\ ~(step = "boundary_line" /\ d[1] = B!Delimiter)
            /\ ~(step = "boundary_line" /\ d[1] = B!Closing)
            /\ ~(step = "boundary_header" /\ d[1] = B!Header)
            /\ ~(step = "boundary_content" /\ 1 \in ends)
            /\ ~(step = "boundary_content" /\ 1 \notin ends)
            /\ ~(step = "finished" /\ d[1] = B!LineEnd)
  <2>1. r = B!PutResult(0, step, "error")
    BY <1>1, <1>11
  <2> QED
    BY <1>3, <2>1, PutResultIs DEF FormGoes, FormSteps, r
<1> QED
  BY <1>5, <1>6, <1>7, <1>8, <1>9, <1>10, <1>11

\* After it the reader is still where what it has consumed says.
LEMMA MarksKept ==
  ASSUME NEW g \in Seq(PlainUnits), NEW d \in Seq(PlainUnits), d # <<>>, Marked(g, step),
         NEW r, FormGoes(d, r)
  PROVE  Marked(g \o SubSeq(d, 1, r.n), r.step)
<1>1. Len(g) \in Nat /\ Len(d) \in Nat \ {0} /\ r.n \in 0 .. Len(d)
  BY LenProperties, EmptySeq DEF FormGoes
<1>2. PICK e : e = SubSeq(d, 1, r.n)
  OBVIOUS
<1>3. e \in Seq(PlainUnits) /\ Len(e) = r.n
  BY <1>1, <1>2, TwoParts
<1>4. PICK h : h = g \o e
  OBVIOUS
<1>5. /\ h \in Seq(PlainUnits) /\ Len(h) = Len(g) + Len(e)
      /\ \A i \in 1 .. Len(g) : h[i] = g[i]
      /\ \A i \in 1 .. Len(e) : h[Len(g) + i] = e[i]
  BY ONLY g \in Seq(PlainUnits), <1>3, <1>4, JoinFacts
<1>6. CASE r.n = 0 /\ r.step = step
  <2>1. e = <<>>
    BY <1>3, <1>6, EmptySeq
  <2>2. h = g
    BY <1>4, <2>1, ConcatEmptySeq
  <2> QED
    BY <1>2, <1>4, <1>6, <2>2
<1>7. CASE r.n = 1 /\ step = "boundary_line" /\ d[1] = B!Closing /\ r.step = "finished"
  <2>1. Len(e) = 1 /\ e[1] = B!Closing
    <3>1. 1 \in 1 .. Len(d) /\ \A i \in 1 .. 1 : SubSeq(d, 1, 1)[i] = d[i]
      BY <1>1, SubSeqProperties
    <3> QED
      BY <1>2, <1>3, <1>7, <3>1
  <2>2. Len(h) = Len(g) + 1 /\ h[Len(g) + 1] = B!Closing
    BY <1>1, <1>5, <2>1
  <2>3. h # <<>> /\ h[Len(h)] = B!Closing
    BY <1>1, <2>2
  <2> QED
    BY <1>2, <1>4, <1>7, <2>3 DEF Marked
<1>8. CASE r.n = 1 /\ step = "finished" /\ r.step = "eof"
  <2>1. g # <<>> /\ g[Len(g)] = B!Closing
    BY <1>8 DEF Marked
  <2>2. Len(g) \in 1 .. Len(g)
    BY <1>1, <2>1, EmptySeq
  <2>3. Len(h) = Len(g) + 1 /\ h[Len(g)] = B!Closing
    BY <1>3, <1>5, <1>8, <2>1, <2>2
  <2>4. Len(h) >= 2 /\ Len(h) - 1 = Len(g)
    BY <1>1, <2>2, <2>3
  <2> QED
    BY <1>2, <1>4, <1>8, <2>3, <2>4 DEF Marked
<1>9. CASE r.step \notin {"finished", "eof"}
  BY <1>9 DEF Marked
<1> QED
  BY <1>6, <1>7, <1>8, <1>9 DEF FormGoes

\* A form's reader is at one of its steps.
LEMMA FormStepIs == ASSUME NEW d, step \in FormSteps PROVE B!FormPut(d).step \in FormSteps
<1>1. \A n, s, ec : s \in FormSteps => B!PutResult(n, s, ec).step \in FormSteps
  BY DEF B!PutResult
<1>2. \A n, s, ec : B!PutResult(n, s, ec).step = s
  BY DEF B!PutResult
<1> QED
  BY <1>1 DEF B!FormPut, FormSteps

\* The reader that the content type chooses, at the form's step.
LEMMA PutFacts ==
  ASSUME kind \in B!Kinds, step \in FormSteps, NEW d, NEW r, r = B!ProxyPut(d)
  PROVE  /\ r.step \in FormSteps
         /\ kind = "form" => r = B!FormPut(d)
         /\ kind = "json" => r.step = step /\ r.n \in {0, Len(d)}
         /\ kind \notin {"form", "json"} => r.step = step /\ r.n = Len(d)
<1>1. CASE kind = "form"
  <2>1. B!ReaderKind = "form"
    BY <1>1 DEF B!ReaderKind
  <2>2. r = B!FormPut(d)
    BY <2>1 DEF B!ProxyPut
  <2> QED
    BY <1>1, <2>2, FormStepIs
<1>2. CASE kind = "json"
  <2>1. B!ReaderKind = "json"
    BY <1>2 DEF B!ReaderKind
  <2>2. r = B!JsonPut(d)
    BY <2>1 DEF B!ProxyPut
  <2>3. r = B!PutResult(0, step, "error") \/ r = B!PutResult(Len(d), step, "none")
    BY <2>2 DEF B!JsonPut
  <2> QED
    BY <1>2, <2>3, PutResultIs
<1>3. CASE kind \notin {"form", "json"}
  <2>1. B!ReaderKind = "query" \/ B!ReaderKind = "string"
    BY <1>3 DEF B!ReaderKind
  <2>2. r = B!QueryPut(d) \/ r = B!StringPut(d)
    BY <2>1 DEF B!ProxyPut
  <2>3. r = B!PutResult(Len(d), step, "none")
    BY <2>2 DEF B!QueryPut, B!StringPut
  <2> QED
    BY <1>3, <2>3, PutResultIs
<1> QED
  BY <1>1, <1>2, <1>3

\* What it takes is what comes first.
LEMMA PutTakes ==
  ASSUME kind \in B!Kinds, step \in FormSteps, NEW d \in Seq(PlainUnits), d # <<>>,
         NEW r, r = B!ProxyPut(d), NEW g \in Seq(PlainUnits), kind = "form" => Marked(g, step)
  PROVE  /\ r.n \in 0 .. Len(d) /\ SubSeq(d, 1, r.n) \in Seq(PlainUnits)
         /\ SubSeq(d, r.n + 1, Len(d)) \in Seq(PlainUnits)
         /\ d = SubSeq(d, 1, r.n) \o SubSeq(d, r.n + 1, Len(d))
         /\ g \o SubSeq(d, 1, r.n) \in Seq(PlainUnits)
         /\ kind = "form" => Marked(g \o SubSeq(d, 1, r.n), r.step)
<1>1. Len(d) \in Nat \ {0} /\ DOMAIN d = 1 .. Len(d)
  BY LenProperties, EmptySeq
<1>2. ASSUME kind = "form" PROVE FormGoes(d, r)
  <2>1. r = B!FormPut(d)
    BY <1>2, PutFacts
  <2> QED
    BY <1>1, <2>1, FormPutFacts
<1>3. r.n \in 0 .. Len(d)
  <2>1. CASE kind = "form"
    BY <1>2, <2>1 DEF FormGoes
  <2>2. CASE kind # "form"
    <3>1. r.n = 0 \/ r.n = Len(d)
      BY <2>2, PutFacts
    <3> QED
      BY <1>1, <3>1
  <2> QED
    BY <2>1, <2>2
<1>4. /\ SubSeq(d, 1, r.n) \in Seq(PlainUnits) /\ SubSeq(d, r.n + 1, Len(d)) \in Seq(PlainUnits)
      /\ d = SubSeq(d, 1, r.n) \o SubSeq(d, r.n + 1, Len(d))
  <2>1. PICK n \in 0 .. Len(d) : n = r.n
    BY <1>3
  <2>2. /\ SubSeq(d, 1, n) \in Seq(PlainUnits) /\ SubSeq(d, n + 1, Len(d)) \in Seq(PlainUnits)
        /\ d = SubSeq(d, 1, n) \o SubSeq(d, n + 1, Len(d))
    BY TwoParts
  <2> QED
    BY <2>1, <2>2, Zenon
<1>5. g \o SubSeq(d, 1, r.n) \in Seq(PlainUnits)
  BY <1>4, ConcatProperties
<1>6. kind = "form" => Marked(g \o SubSeq(d, 1, r.n), r.step)
  BY <1>2, MarksKept
<1> QED
  BY <1>3, <1>4, <1>5, <1>6, Zenon

\* The parser has gone on within its chunk.
LEMMA ParsingGoesOn ==
  ASSUME Parsing, UNCHANGED <<B!message, wire>>, used \in Nat, len \in Nat,
         NEW n \in Nat, n <= len, used' = used + n, len' = len - n,
         result' = result \/ result' = "failed"
  PROVE  Parsing'
<1>1. framing' = framing /\ B!text' = B!text /\ wire' = wire
  BY MessageKept
<1>2. used' + len' = used + len /\ used + 1 <= used' + 1
  OBVIOUS
<1>3. \A k \in used' + 1 .. used' + len' : k \in used + 1 .. used + len
  BY <1>2
<1>4. used' + len' + 1 = used + len + 1
  BY <1>2
<1>5. result' = "reading" => result = "reading"
  OBVIOUS
<1> QED
  BY <1>1, <1>2, <1>3, <1>4, <1>5, Zenon DEF Parsing

\* put() without a decompressor keeps the invariant,
LEMMA PlainPut == ASSUME BodyIInv, B!PutPlain PROVE BodyIInv'
<1>1. PICK d, r : d = B!data /\ r = B!ProxyPut(d)
  OBVIOUS
<1>2. /\ sent /\ result = "reading" /\ enc = "none" /\ d # <<>> /\ B!Reading
      /\ got' = got \o SubSeq(d, 1, r.n) /\ step' = r.step /\ hungry' = (r.ec = "need_more")
      /\ result' = IF r.ec = "error" THEN "failed" ELSE result
      /\ used' = used + r.n /\ len' = len - r.n
      /\ UNCHANGED <<B!message, B!writer, arrived, inflating, decoded>>
  BY <1>1 DEF B!PutPlain, B!Consume, B!Reading
<1>3. /\ d \in Seq(PlainUnits) /\ Len(d) \in Nat \ {0} /\ used \in Nat /\ len \in Nat
      /\ arrived \in Nat /\ used + Len(d) <= arrived /\ Len(d) <= len
      /\ \A n \in 0 .. Len(d) :
           C!Payload(SubSeq(wire, 1, used + n))
             = C!Payload(SubSeq(wire, 1, used)) \o C!Payload(SubSeq(d, 1, n))
  <2>1. B!data # <<>>
    BY <1>1, <1>2
  <2> QED
    BY <1>1, <1>2, <2>1, PassedOn
<1>4. /\ kind \in B!Kinds /\ step \in FormSteps /\ inflating \in Seq(Carriable)
      /\ decoded \in Seq(PlainUnits) /\ got \in Seq(PlainUnits) /\ arrived \in 0 .. Len(wire)
  BY <1>2 DEF BodyIInv, BodyTypes, B!TypeOK, FormSteps
<1>5. /\ (got \o decoded) \o C!Payload(inflating) = C!Payload(SubSeq(wire, 1, used))
      /\ decoded = <<>> /\ inflating = <<>> /\ (kind = "form" => Marked(got, step))
  BY <1>2 DEF BodyIInv, Consuming
<1>6. /\ r.n \in 0 .. Len(d) /\ SubSeq(d, 1, r.n) \in Seq(PlainUnits)
      /\ got \o SubSeq(d, 1, r.n) \in Seq(PlainUnits)
      /\ kind = "form" => Marked(got \o SubSeq(d, 1, r.n), r.step)
      /\ r.step \in FormSteps
  BY <1>1, <1>2, <1>3, <1>4, <1>5, PutTakes, PutFacts
<1>7. PICK n \in Nat : n = r.n /\ n <= Len(d) /\ n <= len
  BY <1>3, <1>6
<1>8. PICK e \in Seq(PlainUnits) : e = SubSeq(d, 1, n)
  BY <1>6, <1>7
<1>9. got' = got \o e /\ used' = used + n /\ len' = len - n
  BY <1>2, <1>7, <1>8
<1>10. used' \in 0 .. arrived' /\ len' \in Nat
  <2>1. PICK k \in Nat : k = Len(d)
    BY <1>3
  <2>2. used + n \in 0 .. arrived /\ len - n \in Nat
    BY <1>3, <1>7, <2>1, SMTT(25)
  <2>3. arrived' = arrived
    BY <1>2
  <2> QED
    BY <1>9, <2>2, <2>3, Zenon
<1>11. hungry' \in BOOLEAN /\ result' \in {"reading", "ok", "failed"}
       /\ (result' = result \/ result' = "failed")
  BY <1>2
<1>12. UNCHANGED <<B!message, wire>> /\ Parsing
  BY <1>2 DEF B!writer, BodyIInv
<1>13. Parsing'
  BY <1>3, <1>7, <1>9, <1>11, <1>12, ParsingGoesOn
<1>14. BodyTypes'
  <2>1. arrived' \in 0 .. Len(wire) /\ inflating' \in Seq(Carriable)
        /\ decoded' \in Seq(PlainUnits) /\ got' \in Seq(PlainUnits)
    BY <1>2, <1>4, <1>6
  <2>2. step' \in FormSteps
    BY <1>2, <1>6
  <2> QED
    BY <1>2, <1>10, <1>11, <2>1, <2>2, ReaderTypes DEF FormSteps
<1>15. C!Payload(<<>>) = <<>>
  <2>1. B!Chunk(0) \in WireUnits /\ B!Chunk(0).unit = "chunk"
    BY HeaderUnitFacts
  <2> QED
    BY <2>1, PayloadMark
<1>16. got = C!Payload(SubSeq(wire, 1, used))
  <2>1. got \o <<>> = got
    BY <1>4, ConcatEmptySeq
  <2> QED
    BY <1>5, <1>15, <2>1
<1>17. (got' \o decoded') \o C!Payload(inflating') = C!Payload(SubSeq(wire', 1, used'))
  <2>1. n \in 0 .. Len(d)
    BY <1>6, <1>7
  <2>2. C!Payload(SubSeq(wire, 1, used + n))
          = C!Payload(SubSeq(wire, 1, used)) \o C!Payload(SubSeq(d, 1, n))
    BY <1>3, <2>1, Zenon
  <2>3. C!Payload(e) = e
    BY PayloadPlain
  <2>4. got' = C!Payload(SubSeq(wire, 1, used + n))
    BY <1>8, <1>9, <1>16, <2>2, <2>3, Zenon
  <2>5. got' \in Seq(PlainUnits)
    BY <1>2, <1>6
  <2>6. got' \o <<>> = got'
    BY <2>5, ConcatEmptySeq
  <2>7. decoded' = <<>> /\ inflating' = <<>> /\ wire' = wire
    BY <1>2, <1>5, <1>12
  <2> QED
    BY <1>9, <1>15, <2>4, <2>6, <2>7, Zenon
<1>18. Consuming'
  <2>1. kind' = kind /\ enc' = enc /\ decoded' = <<>> /\ inflating' = <<>>
    BY <1>2, <1>5, MessageKept
  <2>2. kind = "form" => Marked(got', step')
    BY <1>2, <1>6, Zenon
  <2> QED
    BY <1>17, <2>1, <2>2, Zenon DEF Consuming
<1>19. B!AcceptedIsWhole' /\ B!NothingLeftBehind'
  <2>1. result' # "ok"
    BY <1>2
  <2> QED
    BY <2>1, Unaccepted
<1> QED
  BY <1>2, <1>13, <1>14, <1>18, <1>19, ReaderKeeps

\* as does put() with one, whatever it holds back.
LEMMA DeflatedPut == ASSUME BodyIInv, B!PutDeflated PROVE BodyIInv'
<1>1. PICK d : d = B!data
  OBVIOUS
<1> DEFINE given == inflating \o d
<1>2. /\ sent /\ result = "reading" /\ enc # "none" /\ d # <<>> /\ B!Reading
      /\ used' = used + Len(d) /\ len' = len - Len(d)
      /\ UNCHANGED <<B!message, B!writer, arrived>>
  BY <1>1 DEF B!PutDeflated, B!Reading
<1>3. PICK n, c, r :
        /\ n \in 0 .. Len(given)
        /\ c = decoded \o B!Inflated(SubSeq(given, 1, n))
        /\ r = IF c = <<>> THEN B!PutResult(0, step, "none") ELSE B!ProxyPut(c)
        /\ inflating' = SubSeq(given, n + 1, Len(given))
        /\ got' = got \o SubSeq(c, 1, r.n) /\ step' = r.step /\ hungry' = (r.ec = "need_more")
        /\ result' = IF r.ec = "error" THEN "failed" ELSE result
        /\ decoded' = SubSeq(c, r.n + 1, Len(c))
  <2>1. \E n \in 0 .. Len(inflating \o B!data) :
          LET t  == inflating \o B!data
              c  == decoded \o B!Inflated(SubSeq(t, 1, n))
              r  == IF c = <<>> THEN B!PutResult(0, step, "none") ELSE B!ProxyPut(c)
          IN  /\ inflating' = SubSeq(t, n + 1, Len(t))
              /\ B!Consume(c, r) /\ decoded' = SubSeq(c, r.n + 1, Len(c))
    BY Zenon DEF B!PutDeflated
  <2>2. PICK n \in 0 .. Len(given) :
          LET c  == decoded \o B!Inflated(SubSeq(given, 1, n))
              r  == IF c = <<>> THEN B!PutResult(0, step, "none") ELSE B!ProxyPut(c)
          IN  /\ inflating' = SubSeq(given, n + 1, Len(given))
              /\ B!Consume(c, r) /\ decoded' = SubSeq(c, r.n + 1, Len(c))
    BY <1>1, <2>1, Zenon
  <2>3. PICK c, r :
          /\ c = decoded \o B!Inflated(SubSeq(given, 1, n))
          /\ r = IF c = <<>> THEN B!PutResult(0, step, "none") ELSE B!ProxyPut(c)
    OBVIOUS
  <2>4. /\ inflating' = SubSeq(given, n + 1, Len(given))
        /\ B!Consume(c, r) /\ decoded' = SubSeq(c, r.n + 1, Len(c))
    BY <2>2, <2>3, Zenon
  <2> QED
    BY <2>3, <2>4, Zenon DEF B!Consume
<1>4. /\ d \in Seq(Carriable) /\ Len(d) \in Nat \ {0} /\ used \in Nat /\ len \in Nat
      /\ arrived \in Nat /\ used + Len(d) <= arrived /\ Len(d) <= len
      /\ \A k \in 0 .. Len(d) :
           C!Payload(SubSeq(wire, 1, used + k))
             = C!Payload(SubSeq(wire, 1, used)) \o C!Payload(SubSeq(d, 1, k))
  <2>1. B!data # <<>>
    BY <1>1, <1>2
  <2> QED
    BY <1>1, <1>2, <2>1, PassedOn
<1>5. /\ kind \in B!Kinds /\ step \in FormSteps /\ inflating \in Seq(Carriable)
      /\ arrived \in 0 .. Len(wire) /\ wire \in Seq(WireUnits)
  BY <1>2 DEF BodyIInv, BodyTypes, B!TypeOK, FormSteps
<1>6. given \in Seq(Carriable)
  BY <1>4, <1>5, ConcatProperties
<1> HIDE DEF given
<1>7. /\ SubSeq(given, 1, n) \in Seq(Carriable) /\ SubSeq(given, n + 1, Len(given)) \in Seq(Carriable)
      /\ given = SubSeq(given, 1, n) \o SubSeq(given, n + 1, Len(given))
  BY <1>3, <1>6, TwoParts
<1>8. PICK m \in Nat : m = Len(d) /\ m <= len /\ used + m <= arrived
  BY <1>4
<1>9. used' \in 0 .. arrived' /\ len' \in Nat /\ used' = used + m /\ len' = len - m
  BY <1>2, <1>4, <1>8
<1>10. hungry' \in BOOLEAN /\ result' \in {"reading", "ok", "failed"}
       /\ (result' = result \/ result' = "failed")
  BY <1>2, <1>3
<1>11. Parsing'
  <2>1. UNCHANGED <<B!message, wire>> /\ Parsing
    BY <1>2 DEF B!writer, BodyIInv
  <2> QED
    BY <1>4, <1>8, <1>9, <1>10, <2>1, ParsingGoesOn
<1>12. step' \in FormSteps
  <2>1. CASE c = <<>>
    <3>1. r = B!PutResult(0, step, "none")
      BY <1>3, <2>1
    <3> QED
      BY <1>3, <1>5, <3>1, PutResultIs
  <2>2. CASE c # <<>>
    <3>1. r = B!ProxyPut(c)
      BY <1>3, <2>2
    <3> QED
      BY <1>3, <1>5, <3>1, PutFacts
  <2> QED
    BY <2>1, <2>2
<1>13. ASSUME enc # "br"
       PROVE  /\ decoded' \in Seq(PlainUnits) /\ got' \in Seq(PlainUnits)
              /\ (got' \o decoded') \o C!Payload(inflating') = C!Payload(SubSeq(wire, 1, used'))
              /\ kind = "form" => Marked(got', step')
  <2>1. /\ decoded \in Seq(PlainUnits) /\ got \in Seq(PlainUnits)
        /\ (got \o decoded) \o C!Payload(inflating) = C!Payload(SubSeq(wire, 1, used))
        /\ kind = "form" => Marked(got, step)
    BY <1>2, <1>13 DEF BodyIInv, BodyTypes, Consuming
  <2>2. PICK a \in Seq(Carriable), b \in Seq(Carriable) :
          a = SubSeq(given, 1, n) /\ b = SubSeq(given, n + 1, Len(given))
    BY <1>7, Zenon
  <2>3. a \in Seq(WireUnits) /\ b \in Seq(WireUnits) /\ d \in Seq(WireUnits) /\ inflating \in Seq(WireUnits)
    BY <1>4, <1>5, CarriableFacts
  <2>4. PICK pa \in Seq(PlainUnits), pb \in Seq(PlainUnits), pd \in Seq(PlainUnits),
             pi \in Seq(PlainUnits), pw \in Seq(PlainUnits) :
          /\ pa = C!Payload(a) /\ pb = C!Payload(b) /\ pd = C!Payload(d)
          /\ pi = C!Payload(inflating) /\ pw = C!Payload(SubSeq(wire, 1, used))
    <3>1. SubSeq(wire, 1, used) \in Seq(WireUnits)
      <4>1. used \in 0 .. Len(wire)
        BY <1>4, <1>5, LenProperties
      <4> QED
        BY <1>5, <4>1, TwoParts
    <3>2. /\ C!Payload(a) \in Seq(PlainUnits) /\ C!Payload(b) \in Seq(PlainUnits)
          /\ C!Payload(d) \in Seq(PlainUnits) /\ C!Payload(inflating) \in Seq(PlainUnits)
          /\ C!Payload(SubSeq(wire, 1, used)) \in Seq(PlainUnits)
      BY <2>3, <3>1, PayloadType
    <3> QED
      BY <3>2, Zenon
  <2>5. c = decoded \o pa
    <3>1. B!Inflated(a) = C!Payload(a)
      BY <1>13, InflatedIs
    <3> QED
      BY <1>3, <2>2, <2>4, <3>1, Zenon
  <2>6. c \in Seq(PlainUnits)
    BY <2>1, <2>5, ConcatProperties
  <2>7. PICK e \in Seq(PlainUnits), f \in Seq(PlainUnits) :
          /\ e = SubSeq(c, 1, r.n) /\ f = SubSeq(c, r.n + 1, Len(c)) /\ c = e \o f
          /\ got \o e \in Seq(PlainUnits) /\ (kind = "form" => Marked(got \o e, r.step))
    <3>1. CASE c = <<>>
      <4>0. r = B!PutResult(0, step, "none")
        BY <1>3, <3>1
      <4>1. r.n = 0 /\ r.step = step
        BY <4>0, PutResultIs
      <4>2. Len(c) = 0 /\ SubSeq(c, 1, 0) = <<>> /\ SubSeq(c, 0 + 1, 0) = <<>>
        BY <3>1, NoCut
      <4>3. got \o <<>> = got /\ <<>> \o <<>> = <<>> /\ <<>> \in Seq(PlainUnits)
        BY <2>1, ConcatEmptySeq
      <4> QED
        BY <2>1, <3>1, <4>1, <4>2, <4>3, Zenon
    <3>2. CASE c # <<>>
      <4>1. r = B!ProxyPut(c)
        BY <1>3, <3>2
      <4>2. /\ SubSeq(c, 1, r.n) \in Seq(PlainUnits) /\ SubSeq(c, r.n + 1, Len(c)) \in Seq(PlainUnits)
            /\ c = SubSeq(c, 1, r.n) \o SubSeq(c, r.n + 1, Len(c))
            /\ got \o SubSeq(c, 1, r.n) \in Seq(PlainUnits)
            /\ kind = "form" => Marked(got \o SubSeq(c, 1, r.n), r.step)
        BY <1>5, <2>1, <2>6, <3>2, <4>1, PutTakes
      <4> QED
        BY <4>2, Zenon
    <3> QED
      BY <3>1, <3>2
  <2>8. C!Payload(SubSeq(wire, 1, used')) = pw \o pd
    <3>1. Len(d) \in 0 .. Len(d) /\ SubSeq(d, 1, Len(d)) = d
      BY <1>4, WholeCut
    <3>2. C!Payload(SubSeq(wire, 1, used + Len(d)))
            = C!Payload(SubSeq(wire, 1, used)) \o C!Payload(SubSeq(d, 1, Len(d)))
      BY <1>4, <3>1
    <3> QED
      BY <1>2, <2>4, <3>1, <3>2, Zenon
  <2>9. pi \o pd = pa \o pb
    <3>1. C!Payload(a \o b) = C!Payload(a) \o C!Payload(b)
      BY <2>3, PayloadJoin
    <3>2. C!Payload(inflating \o d) = C!Payload(inflating) \o C!Payload(d)
      BY <2>3, PayloadJoin
    <3>3. inflating \o d = a \o b
      BY <1>7, <2>2, Zenon DEF given
    <3> QED
      BY <2>4, <3>1, <3>2, <3>3, Zenon
  <2>10. PICK go, x, ge, gef, z :
           /\ Spliced(go, got, decoded) /\ Spliced(x, pi, pd) /\ Spliced(ge, got, e)
           /\ Spliced(gef, ge, f) /\ Spliced(z, gef, pb)
    BY Zenon DEF Spliced
  <2>11. Spliced(pw, go, pi) /\ Spliced(x, pa, pb) /\ Spliced(c, decoded, pa) /\ Spliced(c, e, f)
    BY <2>1, <2>4, <2>5, <2>7, <2>9, <2>10, Zenon DEF Spliced
  <2>12. Spliced(z, pw, pd)
    <3>1. go \in Seq(PlainUnits)
      <4>1. got \o decoded \in Seq(PlainUnits)
        BY <2>1, ConcatProperties
      <4> QED
        BY <2>10, <4>1, Zenon DEF Spliced
    <3>2. PICK gt \in Seq(PlainUnits), dc \in Seq(PlainUnits) : gt = got /\ dc = decoded
      BY <2>1
    <3>3. /\ Spliced(go, gt, dc) /\ Spliced(x, pi, pd) /\ Spliced(ge, gt, e)
          /\ Spliced(gef, ge, f) /\ Spliced(z, gef, pb)
      BY <2>10, <3>2
    <3>4. Spliced(pw, go, pi) /\ Spliced(x, pa, pb) /\ Spliced(c, dc, pa) /\ Spliced(c, e, f)
      BY <2>11, <3>2
    <3>5. /\ go \in Seq(PlainUnits) /\ gt \in Seq(PlainUnits) /\ dc \in Seq(PlainUnits)
          /\ pa \in Seq(PlainUnits) /\ pb \in Seq(PlainUnits) /\ pd \in Seq(PlainUnits)
          /\ pi \in Seq(PlainUnits) /\ e \in Seq(PlainUnits) /\ f \in Seq(PlainUnits)
      BY <3>1
    <3>6. Spliced(gef, go, pa)
      BY <3>3, <3>4, <3>5, Regrouped, SMTT(60)
    <3> QED
      BY <3>3, <3>4, <3>5, <3>6, Regrouped, SMTT(60)
  <2>13. got' = ge /\ decoded' = f /\ C!Payload(inflating') = pb
    BY <1>3, <2>2, <2>4, <2>7, <2>10, Zenon DEF Spliced
  <2>14. (got' \o decoded') \o C!Payload(inflating') = C!Payload(SubSeq(wire, 1, used'))
    BY <2>8, <2>10, <2>12, <2>13, Zenon DEF Spliced
  <2>15. /\ decoded' \in Seq(PlainUnits) /\ got' \in Seq(PlainUnits)
         /\ kind = "form" => Marked(got', step')
    BY <1>3, <2>7, <2>10, <2>13, Zenon DEF Spliced
  <2> QED
    BY <2>14, <2>15, Zenon
<1>14. BodyTypes'
  <2>1. arrived' \in 0 .. Len(wire) /\ inflating' \in Seq(Carriable)
    BY <1>2, <1>3, <1>5, <1>7
  <2>2. enc # "br" => decoded' \in Seq(PlainUnits) /\ got' \in Seq(PlainUnits)
    BY <1>13, Zenon
  <2> QED
    BY <1>2, <1>9, <1>10, <1>12, <2>1, <2>2, ReaderTypes DEF FormSteps
<1>15. Consuming'
  <2>1. kind' = kind /\ enc' = enc /\ wire' = wire
    BY <1>2, MessageKept DEF B!writer
  <2> QED
    BY <1>2, <1>13, <2>1, Zenon DEF Consuming
<1>16. B!AcceptedIsWhole' /\ B!NothingLeftBehind'
  <2>1. result' # "ok"
    BY <1>2, <1>10
  <2> QED
    BY <2>1, Unaccepted
<1> QED
  BY <1>2, <1>11, <1>14, <1>15, <1>16, ReaderKeeps

\* What is on the wire when the serializer is done is the text.
LEMMA SentIsText ==
  ASSUME BodyIInv, sent
  PROVE  /\ C!Payload(wire) = B!text /\ B!text \in Seq(PlainUnits)
         /\ framing = "length" => wire = B!text
<1>1. /\ wire \in Seq(WireUnits) /\ pieces \in Seq(Seq(PlainUnits))
      /\ C!Payload(wire) \o deflating = Sofar[windex] /\ windex = Len(pieces) /\ deflating = <<>>
      /\ framing = "length" => wire \in Seq(PlainUnits)
  BY DEF BodyIInv, BodyTypes, Sendable, Sending
<1>2. C!Payload(wire) \in Seq(PlainUnits)
  BY <1>1, PayloadType
<1>3. C!Payload(wire) \o <<>> = C!Payload(wire)
  BY <1>2, ConcatEmptySeq
<1>4. Sofar[Len(pieces)] = B!text
  BY <1>1, SofarFacts
<1>5. C!Payload(wire) = B!text
  BY <1>1, <1>3, <1>4, Zenon
<1>6. framing = "length" => C!Payload(wire) = wire
  BY <1>1, PayloadPlain
<1> QED
  BY <1>2, <1>5, <1>6

\* The parser is done when it has consumed the text and, of a body that gets
\* through, all that was sent.
LEMMA BodyIsConsumed ==
  ASSUME BodyIInv, B!BodyEnds, NEW u, u = used + Len(B!LastChunk)
  PROVE  /\ u \in 0 .. arrived
         /\ kind # "form" => C!Payload(SubSeq(wire, 1, used)) = B!text
         /\ B!Carried => u = Len(wire)
<1>1. /\ sent /\ result = "reading" /\ len = 0
      /\ framing = "chunked" => used < arrived /\ wire[used + 1] = B!Chunk(0)
  BY DEF B!BodyEnds, B!Reading
<1>2. /\ arrived \in 0 .. Len(wire) /\ used \in 0 .. arrived /\ framing \in B!Framings
      /\ wire \in Seq(WireUnits) /\ Parsing /\ LastChunks
  BY DEF BodyIInv, BodyTypes, B!TypeOK
<1>3. Len(wire) \in Nat /\ arrived \in Nat /\ used \in Nat
  BY <1>2, LenProperties
<1>4. CASE framing = "length"
  <2>1. u = used
    <3>1. B!LastChunk = <<>>
      BY <1>4 DEF B!LastChunk
    <3> QED
      BY <1>3, <3>1
  <2>2. wire = B!text /\ C!Payload(wire) = B!text
    BY <1>1, <1>4, SentIsText
  <2>3. used = Len(wire)
    <3>1. used + len = Len(B!text)
      BY <1>1, <1>2, <1>4 DEF Parsing
    <3> QED
      BY <1>1, <1>3, <2>2, <3>1
  <2>4. SubSeq(wire, 1, used) = wire
    BY <1>2, <2>3, WholeCut
  <2> QED
    BY <1>2, <2>1, <2>2, <2>3, <2>4
<1>5. CASE framing = "chunked"
  <2>1. PICK p : p = used + 1
    OBVIOUS
  <2>2. u = p
    <3>1. B!LastChunk = <<B!Chunk(0)>>
      BY <1>5 DEF B!LastChunk
    <3> QED
      BY <1>3, <2>1, <3>1
  <2>3. p \in 1 .. Len(wire) /\ p \in 0 .. arrived /\ wire[p] = B!Chunk(0)
    BY <1>1, <1>2, <1>3, <1>5, <2>1
  <2>4. /\ kind # "form" => C!Payload(SubSeq(wire, 1, p)) = B!text
        /\ B!Carried => p = Len(wire)
    BY <1>2, <2>3, Zenon DEF LastChunks
  <2>5. C!Payload(SubSeq(wire, 1, p)) = C!Payload(SubSeq(wire, 1, used))
    <3>1. 1 \in Nat /\ used + 1 <= Len(wire)
      BY <1>3, <2>1, <2>3
    <3>2. /\ SubSeq(wire, 1, used) \in Seq(WireUnits)
          /\ SubSeq(wire, used + 1, used + 1) \in Seq(WireUnits)
          /\ Len(SubSeq(wire, used + 1, used + 1)) = 1
          /\ \A i \in 1 .. 1 : SubSeq(wire, used + 1, used + 1)[i] = wire[used + i]
          /\ SubSeq(wire, 1, used + 1) = SubSeq(wire, 1, used) \o SubSeq(wire, used + 1, used + 1)
      BY <1>2, <1>3, <3>1, LongerCut
    <3>3. PICK a \in Seq(WireUnits), b \in Seq(WireUnits) :
            a = SubSeq(wire, 1, used) /\ b = SubSeq(wire, used + 1, used + 1)
      BY <3>2, Zenon
    <3>4. PICK h : h = B!Chunk(0)
      OBVIOUS
    <3>5. h \in WireUnits /\ h.unit = "chunk"
      BY <3>4, HeaderUnitFacts
    <3>6. b = <<h>>
      <4>1. 1 \in 1 .. 1
        OBVIOUS
      <4>2. b[1] = wire[used + 1]
        BY <3>2, <3>3, <4>1, Zenon
      <4>3. b[1] = h /\ Len(b) = 1
        BY <2>1, <2>3, <3>2, <3>3, <3>4, <4>2, Zenon
      <4> QED
        BY <4>3
    <3>7. C!Payload(<<h>>) = <<>>
      BY <3>5, PayloadMark
    <3>8. C!Payload(a \o b) = C!Payload(a) \o C!Payload(b)
      BY PayloadJoin
    <3>9. C!Payload(a) \o <<>> = C!Payload(a)
      <4>1. C!Payload(a) \in Seq(PlainUnits)
        BY PayloadType
      <4> QED
        BY <4>1, ConcatEmptySeq
    <3> QED
      BY <2>1, <3>2, <3>3, <3>6, <3>7, <3>8, <3>9, Zenon
  <2> QED
    BY <2>2, <2>3, <2>4, <2>5
<1> QED
  BY <1>2, <1>4, <1>5 DEF B!Framings

\* A form whose reader is past the closing delimiter is whole: no other unit is one.
LEMMA FormIsWhole ==
  ASSUME Sendable, kind = "form", NEW g \in Seq(PlainUnits), NEW y \in Seq(PlainUnits),
         B!text = g \o y, Marked(g, "eof")
  PROVE  g = B!text
<1>1. PICK t : t = B!text
  OBVIOUS
<1>2. t = g \o y
  BY <1>1
<1>3. /\ t \in Seq(PlainUnits) /\ Len(g) \in Nat /\ Len(t) \in Nat /\ Len(g) <= Len(t)
      /\ \A i \in 1 .. Len(g) : t[i] = g[i]
      /\ Len(g) = Len(t) => g = t
  BY <1>2, BeginFacts
<1>4. Len(g) >= 2 /\ g[Len(g) - 1] = B!Closing
  BY DEF Marked
<1>5. PICK i : i = Len(g) - 1
  OBVIOUS
<1>6. i \in 1 .. Len(g) /\ i \in 1 .. Len(t)
  BY <1>3, <1>4, <1>5
<1>7. t[i] = B!Closing
  BY <1>3, <1>4, <1>5, <1>6
<1>8. i = Len(t) - 1
  BY <1>1, <1>6, <1>7 DEF Sendable
<1> QED
  BY <1>1, <1>3, <1>5, <1>8

\* What the reader has taken at the end, g of it and then e, at its step.
LEMMA AcceptedIsText ==
  ASSUME BodyIInv, sent, enc # "br", kind \in B!Kinds, NEW all \in Seq(PlainUnits), NEW left \in Seq(PlainUnits),
         NEW final, used \in 0 .. Len(wire), all \o left = C!Payload(SubSeq(wire, 1, used)),
         kind # "form" => C!Payload(SubSeq(wire, 1, used)) = B!text,
         kind = "form" => Marked(all, final), kind \notin {"form", "json"} => left = <<>>,
         B!ProxyAccepts(all, final)
  PROVE  all = B!text
<1>1. CASE kind = "form"
  <2>1. final = "eof"
    <3>1. B!ReaderKind = "form"
      BY <1>1 DEF B!ReaderKind
    <3> QED
      BY <3>1 DEF B!ProxyAccepts
  <2>2. wire \in Seq(WireUnits) /\ Sendable
    BY DEF BodyIInv, BodyTypes
  <2>3. PICK a \in Seq(WireUnits), b \in Seq(WireUnits) :
          a = SubSeq(wire, 1, used) /\ b = SubSeq(wire, used + 1, Len(wire)) /\ wire = a \o b
    <3>1. /\ SubSeq(wire, 1, used) \in Seq(WireUnits) /\ SubSeq(wire, used + 1, Len(wire)) \in Seq(WireUnits)
          /\ wire = SubSeq(wire, 1, used) \o SubSeq(wire, used + 1, Len(wire))
      BY <2>2, TwoParts
    <3> QED
      BY <3>1, Zenon
  <2>4. C!Payload(wire) = C!Payload(a) \o C!Payload(b)
    BY <2>3, PayloadJoin
  <2>5. PICK p \in Seq(PlainUnits), q \in Seq(PlainUnits) : p = C!Payload(a) /\ q = C!Payload(b)
    BY PayloadType, Zenon
  <2>6. B!text = p \o q /\ p = all \o left
    BY <2>3, <2>4, <2>5, SentIsText
  <2>7. (all \o left) \o q = all \o (left \o q)
    BY ONLY all \in Seq(PlainUnits), left \in Seq(PlainUnits), q \in Seq(PlainUnits), ConcatAssociative, SMTT(25)
  <2>8. left \o q \in Seq(PlainUnits)
    BY ConcatProperties
  <2>9. PICK y \in Seq(PlainUnits) : y = left \o q
    BY <2>8
  <2>10. B!text = all \o y
    BY <2>6, <2>7, <2>9, Zenon
  <2> QED
    BY <1>1, <2>1, <2>2, <2>10, FormIsWhole
<1>2. CASE kind = "json"
  <2>1. B!ReaderKind = "json"
    BY <1>2 DEF B!ReaderKind
  <2> QED
    BY <2>1 DEF B!ProxyAccepts
<1>3. CASE kind \notin {"form", "json"}
  <2>1. all \o <<>> = all
    BY ConcatEmptySeq
  <2> QED
    BY <1>3, <2>1
<1> QED
  BY <1>1, <1>2, <1>3

\* finish() accepts nothing but the text that was sent.
LEMMA BodyFinishes == ASSUME BodyIInv, B!Finish PROVE BodyIInv'
<1>1. PICK rest, r, all, final :
        /\ rest = decoded \o B!Inflated(inflating) /\ r = B!ProxyPut(rest)
        /\ all = (IF rest = <<>> THEN got ELSE got \o SubSeq(rest, 1, r.n))
        /\ final = (IF rest = <<>> THEN step ELSE r.step)
        /\ got' = all /\ step' = final
        /\ result' \in (IF B!ProxyAccepts(all, final) THEN {"ok"} ELSE {"failed"})
                          \cup (IF enc # "none" /\ B!End \notin B!Range(wire) THEN {"failed"} ELSE {})
  BY Zenon DEF B!Finish
<1>2. /\ B!BodyEnds /\ used' = used + Len(B!LastChunk) /\ inflating' = <<>> /\ decoded' = <<>>
      /\ UNCHANGED <<B!message, B!writer, arrived, len, hungry>>
  BY DEF B!Finish
<1>3. sent /\ result = "reading"
  BY <1>2 DEF B!BodyEnds, B!Reading
<1>4. result' \in {"ok", "failed"} /\ (result' = "ok" => B!ProxyAccepts(all, final))
  BY <1>1
<1>5. /\ used' \in 0 .. arrived
      /\ kind # "form" => C!Payload(SubSeq(wire, 1, used)) = B!text
      /\ B!Carried => used' = Len(wire)
  BY <1>2, BodyIsConsumed
<1>6. /\ kind \in B!Kinds /\ step \in FormSteps /\ inflating \in Seq(Carriable)
      /\ wire \in Seq(WireUnits) /\ arrived \in 0 .. Len(wire) /\ used \in 0 .. arrived
      /\ len \in Nat /\ hungry \in BOOLEAN
  BY DEF BodyIInv, BodyTypes, B!TypeOK, FormSteps
<1>7. used \in 0 .. Len(wire)
  <2>1. Len(wire) \in Nat
    BY <1>6, LenProperties
  <2> QED
    BY <1>6, <2>1
<1>8. /\ kind' = kind /\ enc' = enc /\ wire' = wire /\ B!text' = B!text /\ (B!Carried <=> B!Carried')
      /\ UNCHANGED B!message
  BY <1>2, MessageKept DEF B!writer
<1>9. final \in FormSteps
  <2>1. CASE rest = <<>>
    BY <1>1, <1>6, <2>1
  <2>2. CASE rest # <<>>
    BY <1>1, <1>6, <2>2, PutFacts
  <2> QED
    BY <2>1, <2>2
<1>10. ASSUME enc # "br"
       PROVE  all \in Seq(PlainUnits) /\ (B!ProxyAccepts(all, final) => all = B!text)
  <2>1. /\ decoded \in Seq(PlainUnits) /\ got \in Seq(PlainUnits)
        /\ (got \o decoded) \o C!Payload(inflating) = C!Payload(SubSeq(wire, 1, used))
        /\ kind = "form" => Marked(got, step)
    BY <1>3, <1>10 DEF BodyIInv, BodyTypes, Consuming
  <2>2. PICK i \in Seq(PlainUnits) : i = C!Payload(inflating)
    <3>1. inflating \in Seq(WireUnits)
      BY <1>6, CarriableFacts
    <3> QED
      BY <3>1, PayloadType
  <2>3. rest = decoded \o i
    BY <1>1, <1>6, <1>10, <2>2, InflatedIs
  <2>4. rest \in Seq(PlainUnits)
    BY <2>1, <2>3, ConcatProperties
  <2>5. got \o rest = C!Payload(SubSeq(wire, 1, used))
    <3>1. (got \o decoded) \o i = got \o (decoded \o i)
      BY ONLY <2>1, i \in Seq(PlainUnits), ConcatAssociative
    <3> QED
      BY <2>1, <2>2, <2>3, <3>1, Zenon
  <2>6. PICK left \in Seq(PlainUnits) :
          /\ all \in Seq(PlainUnits) /\ all \o left = got \o rest
          /\ kind = "form" => Marked(all, final)
          /\ kind \notin {"form", "json"} => left = <<>>
    <3>1. CASE rest = <<>>
      <4>1. all = got /\ final = step
        BY <1>1, <3>1
      <4> QED
        BY <2>1, <2>4, <3>1, <4>1, Zenon
    <3>2. CASE rest # <<>>
      <4>1. PICK e, f : e = SubSeq(rest, 1, r.n) /\ f = SubSeq(rest, r.n + 1, Len(rest))
        OBVIOUS
      <4>2. /\ e \in Seq(PlainUnits) /\ f \in Seq(PlainUnits) /\ rest = e \o f
            /\ got \o e \in Seq(PlainUnits) /\ (kind = "form" => Marked(got \o e, r.step))
        <5>1. /\ SubSeq(rest, 1, r.n) \in Seq(PlainUnits) /\ SubSeq(rest, r.n + 1, Len(rest)) \in Seq(PlainUnits)
              /\ rest = SubSeq(rest, 1, r.n) \o SubSeq(rest, r.n + 1, Len(rest))
              /\ got \o SubSeq(rest, 1, r.n) \in Seq(PlainUnits)
              /\ kind = "form" => Marked(got \o SubSeq(rest, 1, r.n), r.step)
          BY <1>1, <1>6, <2>1, <2>4, <3>2, PutTakes
        <5> QED
          BY <4>1, <5>1, Zenon
      <4>3. all = got \o e /\ final = r.step
        BY <1>1, <3>2, <4>1
      <4>4. (got \o e) \o f = got \o (e \o f)
        <5>1. e \in Seq(PlainUnits) /\ f \in Seq(PlainUnits) /\ got \in Seq(PlainUnits)
          BY <2>1, <4>2
        <5> QED
          BY ONLY <5>1, ConcatAssociative, SMTT(25)
      <4>5. kind \notin {"form", "json"} => f = <<>>
        <5>1. kind \notin {"form", "json"} => r.n = Len(rest)
          BY <1>1, <1>6, PutFacts
        <5>2. SubSeq(rest, Len(rest) + 1, Len(rest)) = <<>>
          <6>1. Len(rest) \in Nat
            BY <2>4, LenProperties
          <6> QED
            BY <6>1, SubSeqEmpty
        <5> QED
          BY <4>1, <5>1, <5>2
      <4> QED
        BY <4>2, <4>3, <4>4, <4>5, Zenon
    <3> QED
      BY <3>1, <3>2, Zenon
  <2>7. all \o left = C!Payload(SubSeq(wire, 1, used))
    BY <2>5, <2>6, Zenon
  <2>8. ASSUME B!ProxyAccepts(all, final) PROVE all = B!text
    BY <1>3, <1>5, <1>6, <1>7, <1>10, <2>6, <2>7, <2>8, AcceptedIsText
  <2> QED
    BY <2>6, <2>8
<1>11. BodyTypes'
  <2>1. /\ arrived' \in 0 .. Len(wire) /\ used' \in 0 .. arrived' /\ len' \in Nat /\ hungry' \in BOOLEAN
        /\ inflating' \in Seq(Carriable) /\ decoded' \in Seq(PlainUnits)
    BY <1>2, <1>5, <1>6, EmptySeq
  <2>2. step' \in FormSteps /\ result' \in {"reading", "ok", "failed"}
    BY <1>1, <1>4, <1>9
  <2>3. enc # "br" => got' \in Seq(PlainUnits)
    BY <1>1, <1>10
  <2> QED
    BY <1>2, <1>3, <2>1, <2>2, <2>3, ReaderTypes DEF FormSteps
<1>12. Parsing' /\ Consuming'
  <2>1. result' # "reading"
    BY <1>4
  <2> QED
    BY <2>1, Zenon DEF Parsing, Consuming
<1>13. B!AcceptedIsWhole'
  <2>1. result' = "ok" /\ enc # "br" => got' = B!text
    BY <1>1, <1>4, <1>10
  <2> QED
    BY <1>8, <2>1, Zenon DEF B!AcceptedIsWhole
<1>14. B!NothingLeftBehind'
  BY <1>5, <1>8, Zenon DEF B!NothingLeftBehind
<1> QED
  BY <1>2, <1>3, <1>11, <1>12, <1>13, <1>14, ReaderKeeps
-----------------------------------------------------------------------------
(* The messages, and the theorem *)

\* What the writers of the bodies give out.
LEMMA PiecesFacts ==
  ASSUME kind \in B!Kinds, pieces \in {B!Pieces(kind, parts) : parts \in B!Parts(kind)}
  PROVE  /\ pieces \in Seq(Seq(PlainUnits))
         /\ kind = "empty" => pieces = <<>>
         /\ kind \in {"string", "query"} => Len(pieces) = 1
         /\ kind \in {"json", "file"} => \A i \in 1 .. Len(pieces) : pieces[i] # <<>>
         /\ kind = "form" => ClosedOnce(pieces)
<1>1. PICK parts \in B!Parts(kind) : pieces = B!Pieces(kind, parts)
  OBVIOUS
<1>2. MaxUnits \in Nat /\ MaxParts \in Nat
  BY MessagesAssumption DEF MessagesAssumption
<1>3. CASE kind = "empty"
  <2>1. pieces = <<>>
    BY <1>1, <1>3 DEF B!Pieces, B!EmptyPieces
  <2> QED
    BY <1>3, <2>1, EmptySeq
<1>4. CASE kind \in {"string", "query"}
  <2>1. parts \in [{1} -> 0 .. MaxUnits]
    BY <1>1, <1>4 DEF B!Parts
  <2>2. parts[1] \in Nat
    BY <1>2, <2>1
  <2>3. PICK t \in Seq(PlainUnits) : t = B!Content(parts[1])
    BY <2>2, ContentSeq
  <2>4. pieces = <<t>>
    BY <1>1, <1>4, <2>3 DEF B!Pieces, B!StringPieces, B!QueryPieces
  <2>5. PICK U : U = Seq(PlainUnits)
    OBVIOUS
  <2>6. <<t>> \in Seq(U) /\ Len(<<t>>) = 1
    BY <2>5
  <2> QED
    BY <1>4, <2>4, <2>5, <2>6
<1>5. CASE kind \in {"json", "file"}
  <2>1. parts \in [{1} -> 1 .. MaxUnits] \/ parts \in [{1} -> 0 .. MaxUnits]
    BY <1>1, <1>5 DEF B!Parts
  <2>2. parts[1] \in Nat
    BY <1>2, <2>1
  <2>3. PICK t \in Seq(PlainUnits) : t = B!Content(parts[1])
    BY <2>2, ContentSeq
  <2>4. pieces = B!Split(t)
    BY <1>1, <1>5, <2>3 DEF B!Pieces, B!JsonPieces, B!FilePieces
  <2> QED
    BY <1>5, <2>4, SplitFacts
<1>6. CASE kind = "form"
  <2>1. parts \in UNION {[1 .. n -> 0 .. MaxUnits] : n \in 0 .. MaxParts}
    BY <1>1, <1>6 DEF B!Parts
  <2>2. PICK n \in 0 .. MaxParts : parts \in [1 .. n -> 0 .. MaxUnits]
    BY <2>1
  <2>3. n \in Nat /\ parts \in [1 .. n -> Nat]
    BY <1>2, <2>2
  <2>4. pieces = B!FormPieces([i \in DOMAIN parts |-> B!Content(parts[i])])
    BY <1>1, <1>6 DEF B!Pieces
  <2> QED
    BY <1>6, <2>3, <2>4, FormPiecesFacts
<1> QED
  BY <1>3, <1>4, <1>5, <1>6 DEF B!Kinds

\* No delimiter closes what two sequences without one make.
LEMMA UnclosedJoin ==
  ASSUME NEW a \in Seq(PlainUnits), NEW b \in Seq(PlainUnits), Unclosed(a), Unclosed(b),
         NEW t, t = a \o b
  PROVE  Unclosed(t)
<1>1. /\ Len(t) = Len(a) + Len(b) /\ Len(a) \in Nat /\ Len(b) \in Nat
      /\ \A k \in 1 .. Len(a) : t[k] = a[k]
      /\ \A k \in 1 .. Len(b) : t[Len(a) + k] = b[k]
  BY JoinFacts
<1>2. ASSUME NEW i \in 1 .. Len(t) PROVE t[i] # B!Closing
  <2>1. CASE i \in 1 .. Len(a)
    BY <1>1, <2>1 DEF Unclosed
  <2>2. CASE i \notin 1 .. Len(a)
    <3>1. PICK k : k = i - Len(a)
      OBVIOUS
    <3>2. k \in 1 .. Len(b) /\ Len(a) + k = i
      BY <1>1, <2>2, <3>1
    <3> QED
      BY <1>1, <3>2 DEF Unclosed
  <2> QED
    BY <2>1, <2>2
<1> QED
  BY <1>2, Zenon DEF Unclosed

\* The delimiter that closes a form is the last but one unit of it.
LEMMA ClosingIsLast ==
  ASSUME pieces \in Seq(Seq(PlainUnits)), ClosedOnce(pieces), NEW i \in 1 .. Len(B!text),
         B!text[i] = B!Closing
  PROVE  i = Len(B!text) - 1
<1>1. /\ Len(pieces) \in Nat /\ Sofar[0] = <<>> /\ Sofar[Len(pieces)] = B!text
      /\ \A j \in 0 .. Len(pieces) : Sofar[j] \in Seq(PlainUnits)
      /\ \A j \in 1 .. Len(pieces) : Sofar[j] = Sofar[j - 1] \o pieces[j]
  BY SofarFacts
<1>2. pieces # <<>> /\ Len(pieces) \in Nat \ {0}
  <2>1. ASSUME Len(pieces) = 0 PROVE FALSE
    <3>1. B!text = <<>>
      BY <1>1, <2>1
    <3> QED
      BY <3>1
  <2>2. Len(pieces) # 0
    BY <2>1
  <2> QED
    BY <1>1, <2>2
<1>3. /\ pieces[Len(pieces)] = <<B!LineEnd, B!Closing, B!LineEnd>>
      /\ \A j \in 1 .. Len(pieces) - 1 : Unclosed(pieces[j])
  BY <1>2 DEF ClosedOnce
<1>4. PICK m \in Nat : m = Len(pieces) - 1
  <2>1. Len(pieces) - 1 \in Nat
    BY <1>2
  <2> QED
    BY <2>1, Zenon
<1> DEFINE T == {j \in Nat : j <= m => Unclosed(Sofar[j])}
<1>5. 0 \in T
  BY <1>1 DEF Unclosed
<1>6. ASSUME NEW j \in 1 .. m, Unclosed(Sofar[j - 1]) PROVE Unclosed(Sofar[j])
  <2>1. j \in 1 .. Len(pieces) /\ j - 1 \in 0 .. Len(pieces) /\ j \in 1 .. Len(pieces) - 1
    BY <1>1, <1>4
  <2>2. PICK a \in Seq(PlainUnits), b \in Seq(PlainUnits) : a = Sofar[j - 1] /\ b = pieces[j]
    <3>1. pieces[j] \in Seq(PlainUnits)
      BY <2>1, ElementOfSeq
    <3> QED
      BY <1>1, <2>1, <3>1, Zenon
  <2>3. PICK t : t = a \o b
    OBVIOUS
  <2>4. Sofar[j] = t
    BY <1>1, <2>1, <2>2, <2>3
  <2>5. Unclosed(a) /\ Unclosed(b)
    BY <1>3, <1>6, <2>1, <2>2
  <2>6. Unclosed(t)
    BY <2>3, <2>5, UnclosedJoin
  <2> QED
    BY <2>4, <2>6
<1>7. Unclosed(Sofar[m])
  <2>1. ASSUME NEW n \in Nat, n \in T PROVE n + 1 \in T
    <3>1. ASSUME n + 1 <= m PROVE Unclosed(Sofar[n + 1])
      <4>1. n + 1 \in 1 .. m /\ (n + 1) - 1 = n /\ n <= m
        BY <3>1
      <4> QED
        BY <1>6, <2>1, <4>1
    <3> QED
      BY <3>1
  <2> HIDE DEF T
  <2>2. \A n \in Nat : n \in T
    BY <1>5, <2>1, AllOf
  <2> QED
    BY <2>2 DEF T
<1>8. PICK a \in Seq(PlainUnits) : a = Sofar[m]
  <2>1. m \in 0 .. Len(pieces)
    BY <1>1, <1>4
  <2> QED
    BY <1>1, <2>1
<1>9. PICK l \in Seq(PlainUnits) :
        /\ l = <<B!LineEnd, B!Closing, B!LineEnd>> /\ Len(l) = 3
        /\ l[1] # B!Closing /\ l[3] # B!Closing
  BY LastPiece
<1>10. PICK t : t = a \o l
  OBVIOUS
<1>11. B!text = t
  <2>1. Len(pieces) \in 1 .. Len(pieces) /\ Len(pieces) - 1 = m
    BY <1>2, <1>4
  <2> QED
    BY <1>1, <1>3, <1>8, <1>9, <1>10, <2>1
<1>12. /\ Len(t) = Len(a) + Len(l) /\ Len(a) \in Nat
       /\ \A k \in 1 .. Len(a) : t[k] = a[k]
       /\ \A k \in 1 .. Len(l) : t[Len(a) + k] = l[k]
  BY <1>10, JoinFacts
<1>13. i \in 1 .. Len(a) + 3 /\ t[i] = B!Closing
  BY <1>9, <1>11, <1>12
<1>14. i \notin 1 .. Len(a)
  BY <1>7, <1>8, <1>12, <1>13 DEF Unclosed
<1>15. i # Len(a) + 1 /\ i # Len(a) + 3
  BY <1>9, <1>12, <1>13
<1>16. i = Len(a) + 2
  <2>1. PICK n \in Nat : n = Len(a)
    BY <1>12
  <2>2. i \in 1 .. n + 3 /\ i \notin 1 .. n /\ i # n + 1 /\ i # n + 3
    BY <1>13, <1>14, <1>15, <2>1
  <2> QED
    BY <2>1, <2>2
<1> QED
  BY <1>9, <1>11, <1>12, <1>16

\* The messages that the writers send are such as the invariant says.
LEMMA SendableAtFirst == ASSUME B!Init PROVE Sendable
<1>1. /\ kind \in B!Kinds /\ pieces \in {B!Pieces(kind, parts) : parts \in B!Parts(kind)}
      /\ framing \in B!FramingsOf(kind, enc)
  BY DEF B!Init
<1>2. /\ pieces \in Seq(Seq(PlainUnits))
      /\ kind = "empty" => pieces = <<>>
      /\ kind \in {"string", "query"} => Len(pieces) = 1
      /\ kind \in {"json", "file"} => \A i \in 1 .. Len(pieces) : pieces[i] # <<>>
      /\ kind = "form" => ClosedOnce(pieces)
  BY <1>1, PiecesFacts
<1>3. framing = "length" => enc = "none"
  BY <1>1 DEF B!FramingsOf
<1>4. ASSUME kind # "form", NEW i \in 1 .. Len(pieces), pieces[i] = <<>> PROVE Len(pieces) = 1
  BY <1>1, <1>2, <1>4 DEF B!Kinds
<1>5. ASSUME B!Carried, framing = "chunked", enc = "none", NEW i \in 1 .. Len(pieces)
      PROVE  pieces[i] # <<>>
  <2>1. CASE kind \in {"empty", "json", "file"}
    BY <1>2, <1>5, <2>1
  <2>2. CASE kind \in {"string", "query"}
    <3>1. B!text # <<>>
      BY <1>5, <2>2 DEF B!Carried
    <3>2. /\ Sofar[0] = <<>> /\ Sofar[Len(pieces)] = B!text
          /\ \A j \in 1 .. Len(pieces) : Sofar[j] = Sofar[j - 1] \o pieces[j]
      BY <1>2, SofarFacts
    <3>3. Len(pieces) = 1 /\ i = 1
      <4>1. Len(pieces) = 1
        BY <1>2, <2>2
      <4> QED
        BY <4>1
    <3>4. Sofar[1] = Sofar[0] \o pieces[1]
      <4>1. 1 \in 1 .. Len(pieces) /\ 1 - 1 = 0
        BY <3>3
      <4> QED
        BY <3>2, <4>1
    <3>5. <<>> \o <<>> = <<>>
      BY ConcatEmptySeq, EmptySeq
    <3> QED
      BY <3>1, <3>2, <3>3, <3>4, <3>5
  <2>3. CASE kind = "form"
    <3>1. Len(pieces) = 3 /\ pieces[2] # <<>>
      BY <1>5, <2>3 DEF B!Carried
    <3>2. pieces # <<>>
      BY <3>1
    <3>3. pieces[1] # <<>> /\ pieces[3] = <<B!LineEnd, B!Closing, B!LineEnd>>
      BY <1>2, <2>3, <3>1, <3>2 DEF ClosedOnce
    <3>4. pieces[3] # <<>>
      BY <3>3
    <3> QED
      BY <1>5, <3>1, <3>3, <3>4
  <2> QED
    BY <1>1, <2>1, <2>2, <2>3 DEF B!Kinds
<1>6. ASSUME kind = "form", NEW i \in 1 .. Len(B!text), B!text[i] = B!Closing
      PROVE  i = Len(B!text) - 1
  BY <1>2, <1>6, ClosingIsLast
<1> QED
  BY <1>2, <1>3, <1>4, <1>5, <1>6, Zenon DEF Sendable

\* The first state: nothing written, nothing read.
LEMMA BodyInit == ASSUME B!Init PROVE BodyIInv
<1>1. /\ kind \in B!Kinds /\ enc \in B!Encodings /\ framing \in B!Framings
      /\ windex = 0 /\ deflating = <<>> /\ wire = <<>> /\ sent = FALSE
      /\ arrived = 0 /\ used = 0 /\ hungry = FALSE
      /\ len = (IF framing = "length" THEN Len(B!text) ELSE 0)
      /\ inflating = <<>> /\ decoded = <<>> /\ got = <<>> /\ step = "boundary_line"
      /\ result = "reading"
  BY DEF B!Init, B!FramingsOf, B!Framings, B!Encodings
<1>2. Sendable
  BY SendableAtFirst
<1>3. pieces \in Seq(Seq(PlainUnits))
  BY <1>2 DEF Sendable
<1>4. /\ Len(pieces) \in Nat /\ Sofar[0] = <<>> /\ Sofar[Len(pieces)] = B!text
      /\ \A i \in 0 .. Len(pieces) : Sofar[i] \in Seq(PlainUnits)
  BY <1>3, SofarFacts
<1>5. Len(B!text) \in Nat
  <2>1. Len(pieces) \in 0 .. Len(pieces)
    BY <1>4
  <2>2. B!text \in Seq(PlainUnits)
    BY <1>4, <2>1
  <2> QED
    BY <2>2, LenProperties
<1>6. Len(wire) = 0
  BY <1>1
<1>7. /\ wire \in Seq(WireUnits) /\ wire \in Seq(PlainUnits) /\ deflating \in Seq(PlainUnits)
      /\ inflating \in Seq(Carriable) /\ decoded \in Seq(PlainUnits) /\ got \in Seq(PlainUnits)
  BY <1>1, EmptySeq
<1>8. BodyTypes
  <2>1. /\ windex \in 0 .. Len(pieces) /\ arrived \in 0 .. Len(wire) /\ used \in 0 .. arrived
        /\ len \in Nat
    BY <1>1, <1>4, <1>5, <1>6
  <2>2. B!TypeOK
    BY <1>1, <2>1 DEF B!TypeOK
  <2> QED
    BY <1>7, <2>2 DEF BodyTypes
<1>9. C!Payload(<<>>) = <<>> /\ <<>> \o <<>> = <<>>
  <2>1. B!Chunk(0) \in WireUnits /\ B!Chunk(0).unit = "chunk"
    BY HeaderUnitFacts
  <2>2. <<>> \in Seq(PlainUnits)
    BY <1>1, <1>7
  <2> QED
    BY <2>1, <2>2, PayloadMark, ConcatEmptySeq
<1>10. Sending
  <2>1. C!Payload(wire) \o deflating = Sofar[windex]
    BY <1>1, <1>4, <1>9
  <2>2. windex = Len(pieces) => pieces = <<>>
    BY <1>1, <1>3, EmptySeq
  <2>3. \A p \in 1 .. Len(wire) : wire[p] # B!End
    BY <1>6
  <2> QED
    BY <1>1, <1>7, <2>1, <2>2, <2>3, Zenon DEF Sending
<1>11. Chunks(wire) /\ LastChunks
  <2>1. wire = <<>> /\ 1 .. Len(wire) = {}
    BY <1>1, <1>6
  <2>2. \A p \in 1 .. Len(wire) : FALSE
    BY <2>1
  <2> QED
    BY <2>1, <2>2, Zenon DEF Chunks, LastChunks
<1>12. Unread
  BY <1>1 DEF Unread
<1>13. Parsing
  <2>1. framing = "length" => used + len = Len(B!text)
    BY <1>1, <1>5
  <2>2. framing = "chunked" => /\ used + len = 0 /\ used + 1 = 1
    BY <1>1
  <2>3. ASSUME framing = "chunked"
        PROVE  /\ used + len <= Len(wire)
               /\ \A k \in used + 1 .. used + len : ~IsChunk(wire, k)
               /\ used + len < Len(wire) => IsChunk(wire, used + len + 1)
    BY <1>6, <2>2, <2>3
  <2> QED
    BY <2>1, <2>3, Zenon DEF Parsing
<1>14. Consuming
  <2>1. SubSeq(wire, 1, used) = <<>>
    BY <1>1, NoCut
  <2>2. Marked(got, step)
    BY <1>1 DEF Marked
  <2> QED
    BY <1>1, <1>9, <2>1, <2>2, Zenon DEF Consuming
<1>15. B!AcceptedIsWhole /\ B!NothingLeftBehind
  BY <1>1 DEF B!AcceptedIsWhole, B!NothingLeftBehind
<1> QED
  BY <1>2, <1>8, <1>10, <1>11, <1>12, <1>13, <1>14, <1>15 DEF BodyIInv

\* Every step of the writer, the parser and the readers keeps the invariant.
LEMMA BodyStep == ASSUME BodyIInv, B!Next \/ UNCHANGED bodyVars PROVE BodyIInv'
<1>1. CASE B!Get
  BY <1>1, PlainGot, DeflatedGot, NothingGot DEF B!Get
<1>2. CASE B!Arrive
  BY <1>2, BodyArrives
<1>3. CASE B!ChunkHeader
  BY <1>3, HeaderRead
<1>4. CASE B!Put
  BY <1>4, PlainPut, DeflatedPut DEF B!Put
<1>5. CASE B!Starve
  BY <1>5, BodyStarves
<1>6. CASE B!Finish
  BY <1>6, BodyFinishes
<1>7. CASE B!Done
  BY <1>7, BodyStays DEF B!Done
<1>8. CASE UNCHANGED bodyVars
  <2>1. UNCHANGED B!vars
    BY <1>8 DEF bodyVars, B!vars, B!message, B!writer, B!parser, B!reader
  <2> QED
    BY <2>1, BodyStays
<1> QED
  BY <1>1, <1>2, <1>3, <1>4, <1>5, <1>6, <1>7, <1>8 DEF B!Next

\* Of every body, in whatever pieces, chunks and reads it comes and whatever the
\* compressors hold back (any_body's writer and reader): the reader accepts nothing
\* but the whole of it, and leaves nothing of a body that gets through.
THEOREM BodiesAcceptedWhole == FairSpec => []AcceptedIsWhole
<1> DEFINE I == part = "body" => BodyIInv
<1>1. Init => I
  BY BodyInit DEF Init
<1>2. I /\ [Next]_vars => I'
  <2> SUFFICES ASSUME I, [Next]_vars, part' = "body" PROVE BodyIInv'
    OBVIOUS
  <2>1. CASE InBody(B!Next)
    BY <2>1, BodyStep DEF InBody
  <2>2. CASE InForm(F!Next) \/ InFile(R!Next) \/ InContent(C!Next)
    BY <2>2 DEF InForm, InFile, InContent
  <2>3. CASE UNCHANGED vars
    <3>1. part = "body" /\ UNCHANGED bodyVars
      BY <2>3 DEF vars
    <3> QED
      BY <3>1, BodyStep
  <2> QED
    BY <2>1, <2>2, <2>3 DEF Next
<1>3. I => AcceptedIsWhole
  BY DEF AcceptedIsWhole, BodyIInv
<1> QED
  BY <1>1, <1>2, <1>3, PTL DEF FairSpec

\* Of every part, whatever its constants: the states each variable ranges over, no
\* reader consumes more than it was given, and no response is chunked and of a
\* known length.
THEOREM MessagesTypeCorrect == FairSpec => []TypeOK
<1> DEFINE I == /\ part = "file" => FileIInv
                /\ part = "form" => FormIInv
                /\ part = "content" => ContentIInv
                /\ part = "body" => BodyIInv
<1>1. Init => I
  BY FileInit, FormInit, ContentInit, BodyInit DEF Init
<1>2. I /\ [Next]_vars => I'
  <2> SUFFICES ASSUME I, [Next]_vars PROVE I'
    OBVIOUS
  <2>1. CASE InFile(R!Next)
    <3>1. FileIInv /\ part = "file" /\ part' = part
      BY <2>1 DEF InFile
    <3>2. FileIInv'
      BY <2>1, <3>1, FileStep DEF InFile
    <3> QED
      BY <3>1, <3>2
  <2>2. CASE InForm(F!Next)
    <3>1. FormIInv /\ part = "form" /\ part' = part
      BY <2>2 DEF InForm
    <3>2. FormIInv'
      BY <2>2, <3>1, FormStep DEF InForm
    <3> QED
      BY <3>1, <3>2
  <2>3. CASE InContent(C!Next)
    <3>1. ContentIInv /\ part = "content" /\ part' = part
      BY <2>3 DEF InContent
    <3>2. ContentIInv'
      BY <2>3, <3>1, ContentStep DEF InContent
    <3> QED
      BY <3>1, <3>2
  <2>4. CASE InBody(B!Next)
    <3>1. BodyIInv /\ part = "body" /\ part' = part
      BY <2>4 DEF InBody
    <3>2. BodyIInv'
      BY <2>4, <3>1, BodyStep DEF InBody
    <3> QED
      BY <3>1, <3>2
  <2>5. CASE UNCHANGED vars
    <3>1. part' = part /\ UNCHANGED formVars /\ UNCHANGED bodyVars /\ UNCHANGED contentVars
          /\ UNCHANGED fileVars
      BY <2>5 DEF vars
    <3>2. part = "file" => FileIInv'
      BY <3>1, FileSame
    <3>3. part = "form" => FormIInv'
      BY <3>1, FormStep
    <3>4. part = "content" => ContentIInv'
      BY <3>1, ContentStep
    <3>5. part = "body" => BodyIInv'
      BY <3>1, BodyStep
    <3> QED
      BY <3>1, <3>2, <3>3, <3>4, <3>5
  <2> QED
    BY <2>1, <2>2, <2>3, <2>4, <2>5 DEF Next
<1>3. I => TypeOK
  BY DEF TypeOK, FileIInv, FileTypes, FormIInv, FormTypes, ContentIInv, ContentTypes, BodyIInv, BodyTypes
<1> QED
  BY <1>1, <1>2, <1>3, PTL DEF FairSpec
=============================================================================
