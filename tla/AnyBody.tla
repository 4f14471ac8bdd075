-------------------------------- MODULE AnyBody --------------------------------
(* The body of a message on its way (lib/body/any_body.cpp and the bodies it  *)
(* chooses from): the writer asks the body it holds for one piece after the   *)
(* other, passes them through a compressor when the message has a content     *)
(* encoding, and the serializer frames what comes out; the parser takes the   *)
(* frames apart, and the reader decompresses and feeds the body that the      *)
(* content type chooses.  Bodies are sequences of units; a compressed stream  *)
(* is the sequence of what went in and an end mark.  The serializer, the      *)
(* parser and the compression libraries are external.                         *)
EXTENDS Naturals, Sequences, SequencesExt, FiniteSetsExt

CONSTANTS
  MaxUnits,    \* the longest body, and the longest content of a form's field
  MaxFields,   \* fields of a form
  MaxEncoded,  \* the longest body, its delimiters included, that is encoded
  BufferSize   \* of a json or file writer

Kinds     == {"empty", "string", "json", "query", "file", "form"}
\* gzip, deflate and zstd behave alike here.
Encodings == {"none", "gzip", "br"}
Framings  == {"length", "chunked"}

x(i)     == [unit |-> "x", at |-> i]
Mark(u)  == [unit |-> u, at |-> 0]
Chunk(n) == [unit |-> "chunk", at |-> n]    \* a chunk header; of length 0, the last
End      == Mark("end")                     \* of a compressed stream
Junk     == Mark("junk")
Delimiter == Mark("--boundary crlf")
Header    == Mark("field header")
LineEnd   == Mark("crlf")
Closing   == Mark("--boundary--")

\* What the writers of the bodies return from get(), call by call: the last
\* piece is the one that comes with `more' false.
EmptyPieces     == <<>>
StringPieces(t) == <<t>>
QueryPieces(t)  == <<t>>

Split(t) ==
  [i \in 1 .. (Len(t) + BufferSize - 1) \div BufferSize |->
     SubSeq(t, (i - 1) * BufferSize + 1, Min({i * BufferSize, Len(t)}))]

\* A file writer that finds out at the end of the file that there is no more.
MutFilePieces(t) == Append(Split(t), <<>>)

JsonPieces(t) == Split(t)
FilePieces(t) == Split(t)

FormPieces(contents) ==
  FlattenSeq([i \in DOMAIN contents |->
     << <<Delimiter, Header>>,
        contents[i],
        IF i = Len(contents) THEN <<LineEnd, Closing, LineEnd>> ELSE <<LineEnd>> >>])

Content(n) == [i \in 1 .. n |-> x(i)]

Pieces(kind, parts) ==
  CASE kind = "empty"  -> EmptyPieces
    [] kind = "string" -> StringPieces(Content(parts[1]))
    [] kind = "query"  -> QueryPieces(Content(parts[1]))
    [] kind = "json"   -> JsonPieces(Content(parts[1]))
    [] kind = "file"   -> FilePieces(Content(parts[1]))
    [] kind = "form"   -> FormPieces([i \in DOMAIN parts |-> Content(parts[i])])

\* The lengths of a body's parts: those of the fields of a form, which may have
\* none, and one otherwise.  A json text is never empty.
Parts(kind) ==
  CASE kind = "empty" -> {<<>>}
    [] kind = "json"  -> [{1} -> 1 .. MaxUnits]
    [] kind = "form"  -> UNION {[1 .. n -> 0 .. MaxUnits] : n \in 0 .. MaxFields}
    [] OTHER          -> [{1} -> 0 .. MaxUnits]

\* Only strings and files are sent with a length, and only unencoded.
FramingsOf(kind, enc) ==
  IF kind \in {"empty", "string", "file"} /\ enc = "none" THEN Framings ELSE {"chunked"}

VARIABLES
  kind, pieces, enc, framing,   \* the message
  windex,    \* how many pieces the writer has got from the body
  deflating, \* what the compressor has taken and not put out
  wire,      \* what has been sent
  sent,      \* whether the serializer is done
  arrived,   \* how much of the wire has arrived
  used,      \* how much of it the parser has consumed
  len,       \* what is left of the chunk, or of the body
  hungry,    \* the parser wants more than it was given
  inflating, \* what the decompressor has taken and not put out
  decoded,   \* the decompressor's buffer_
  got,       \* what the body's reader has consumed
  step,      \* the form reader's step_
  result     \* "reading", then "ok" or "failed"

message == <<kind, pieces, enc, framing>>
writer  == <<windex, deflating, wire, sent>>
parser  == <<arrived, used, len, hungry>>
reader  == <<inflating, decoded, got, step>>
vars    == <<message, writer, parser, reader, result>>

text == FlattenSeq(pieces)

Init ==
  /\ kind \in Kinds
  /\ pieces \in {Pieces(kind, parts) : parts \in Parts(kind)}
  /\ enc \in IF Len(text) <= MaxEncoded THEN Encodings ELSE {"none"}
  /\ framing \in FramingsOf(kind, enc)
  /\ windex = 0 /\ deflating = <<>> /\ wire = <<>> /\ sent = FALSE
  /\ arrived = 0 /\ used = 0 /\ hungry = FALSE
  /\ len = IF framing = "length" THEN Len(text) ELSE 0
  /\ inflating = <<>> /\ decoded = <<>> /\ got = <<>>
  /\ step = "boundary_line"
  /\ result = "reading"
-----------------------------------------------------------------------------
(* any_body::writer and the serializer *)

Framed(s) == IF framing = "chunked" THEN <<Chunk(Len(s))>> \o s ELSE s
LastChunk == IF framing = "chunked" THEN <<Chunk(0)>> ELSE <<>>

More == windex < Len(pieces)
AtLast == windex = Len(pieces) - 1

\* The body has nothing (left) to write: get() returns none, without closing
\* the compressor's stream.
GetNothing ==
  /\ ~sent /\ ~More
  /\ wire' = wire \o LastChunk
  /\ sent' = TRUE
  /\ UNCHANGED <<message, windex, deflating, parser, reader, result>>

Send(s, last) ==
  /\ wire' = wire \o Framed(s) \o (IF last THEN LastChunk ELSE <<>>)
  /\ sent' = last

\* get() without a compressor.
GetPlain ==
  /\ enc = "none" /\ ~sent /\ More
  /\ windex' = windex + 1
  /\ Send(pieces[windex + 1], AtLast)
  /\ UNCHANGED <<message, deflating, parser, reader, result>>

\* A writer that forgets consume_all(): what was returned before is returned again.
MutGetDeflated ==
  /\ enc # "none" /\ ~sent /\ More
  /\ windex' = windex + 1
  /\ LET taken == deflating \o pieces[windex + 1]
     IN  IF AtLast
           THEN deflating' = <<>> /\ Send(Append(taken, End), TRUE)
           ELSE \E n \in 0 .. Len(taken) :
                  /\ deflating' = taken
                  /\ IF n = 0 THEN UNCHANGED <<wire, sent>>
                              ELSE Send(SubSeq(taken, 1, n), FALSE)
  /\ UNCHANGED <<message, parser, reader, result>>

\* get() with a compressor, one turn of its loop: the piece is written to the
\* compressor, which puts out what it likes of what it has taken and, when the
\* last piece closes it, all of it.  With nothing put out the loop goes on.
GetDeflated ==
  /\ enc # "none" /\ ~sent /\ More
  /\ windex' = windex + 1
  /\ LET taken == deflating \o pieces[windex + 1]
     IN  IF AtLast
           THEN deflating' = <<>> /\ Send(Append(taken, End), TRUE)
           ELSE \E n \in 0 .. Len(taken) :
                  /\ deflating' = SubSeq(taken, n + 1, Len(taken))
                  /\ IF n = 0 THEN UNCHANGED <<wire, sent>>
                              ELSE Send(SubSeq(taken, 1, n), FALSE)
  /\ UNCHANGED <<message, parser, reader, result>>
-----------------------------------------------------------------------------
(* The parser *)

Reading == sent /\ result = "reading"
data    == SubSeq(wire, used + 1, Min({arrived, used + len}))

\* The parser asks the connection for more when it has used what it has, or
\* when put() has returned need_more.
Arrive ==
  /\ Reading /\ arrived < Len(wire)
  /\ hungry \/ used = arrived
  /\ arrived' \in (arrived + 1) .. Len(wire)
  /\ hungry' = FALSE
  /\ UNCHANGED <<message, writer, used, len, reader, result>>

ChunkHeader ==
  /\ Reading /\ framing = "chunked" /\ len = 0
  /\ used < arrived /\ wire[used + 1] # Chunk(0)
  /\ used' = used + 1
  /\ len' = wire[used + 1].at
  /\ UNCHANGED <<message, writer, arrived, hungry, reader, result>>

\* There is nothing more to come: the read ends with the connection or its
\* time limit.
Starve ==
  /\ Reading /\ arrived = Len(wire) /\ hungry
  /\ result' = "failed"
  /\ UNCHANGED <<message, writer, parser, reader>>
-----------------------------------------------------------------------------
(* The bodies' readers: how much of d put() consumes, and the error          *)

PutResult(n, s, ec) == [n |-> n, step |-> s, ec |-> ec]

StringPut(d) == PutResult(Len(d), step, "none")
QueryPut(d)  == PutResult(Len(d), step, "none")
JsonPut(d)   == IF Junk \in Range(d) THEN PutResult(0, step, "error")
                                     ELSE PutResult(Len(d), step, "none")

\* One step of the form reader for each call.  A content is consumed up to its
\* line end, which may begin a delimiter.
FormPut(d) ==
  LET ends == {i \in DOMAIN d : d[i] = LineEnd}
  IN  CASE step = "boundary_line" /\ d[1] = Delimiter -> PutResult(1, "boundary_header", "none")
        [] step = "boundary_line" /\ d[1] = Closing   -> PutResult(1, "finished", "none")
        [] step = "boundary_header" /\ d[1] = Header  -> PutResult(1, "boundary_content", "none")
        [] step = "boundary_content" /\ 1 \in ends ->
             IF Len(d) = 1 THEN PutResult(0, step, "need_more")
                           ELSE PutResult(1, "boundary_line", "none")
        [] step = "boundary_content" /\ 1 \notin ends ->
             PutResult(IF ends = {} THEN Len(d) ELSE Min(ends) - 1, step, "none")
        [] step = "finished" /\ d[1] = LineEnd -> PutResult(1, "eof", "none")
        [] OTHER -> PutResult(0, step, "error")

\* The body that init() chooses by the content type; anything else is a string.
ReaderKind == IF kind \in {"form", "json", "query"} THEN kind ELSE "string"

ProxyPut(d) ==
  CASE ReaderKind = "form"   -> FormPut(d)
    [] ReaderKind = "json"   -> JsonPut(d)
    [] ReaderKind = "query"  -> QueryPut(d)
    [] ReaderKind = "string" -> StringPut(d)

\* finish() of the body's reader, which has consumed g and is at s: json and
\* form data are refused when incomplete, parameters when they do not decode.
ProxyAccepts(g, s) ==
  CASE ReaderKind = "form"   -> s = "eof"
    [] ReaderKind = "json"   -> g = text
    [] ReaderKind = "query"  -> Junk \notin Range(g)
    [] ReaderKind = "string" -> TRUE

\* What comes out of the decompressor when s is put in: that of "br" is a
\* second compressor.
Inflated(s) ==
  LET kept[i \in 0 .. Len(s)] ==
        IF i = 0 THEN <<>> ELSE IF s[i] = End THEN kept[i - 1] ELSE Append(kept[i - 1], s[i])
  IN  IF enc = "br" THEN [i \in DOMAIN s |-> Junk] ELSE kept[Len(s)]

Consume(d, r) ==
  /\ got' = got \o SubSeq(d, 1, r.n)
  /\ step' = r.step
  /\ hungry' = (r.ec = "need_more")
  /\ result' = IF r.ec = "error" THEN "failed" ELSE result

PutPlain ==
  /\ Reading /\ enc = "none" /\ data # <<>> /\ ~hungry
  /\ LET r == ProxyPut(data)
     IN  /\ Consume(data, r)
         /\ used' = used + r.n
         /\ len' = len - r.n
  /\ UNCHANGED <<message, writer, arrived, inflating, decoded>>

\* A put() that returns what the body's reader consumed, which is counted in
\* decompressed units.
MutPutDeflated ==
  /\ Reading /\ enc # "none" /\ data # <<>> /\ ~hungry
  /\ \E n \in 0 .. Len(inflating \o data) :
       LET taken == inflating \o data
           d     == decoded \o Inflated(SubSeq(taken, 1, n))
           r     == IF d = <<>> THEN PutResult(0, step, "none") ELSE ProxyPut(d)
       IN  /\ inflating' = SubSeq(taken, n + 1, Len(taken))
           /\ Consume(d, r) /\ decoded' = SubSeq(d, r.n + 1, Len(d))
           /\ used' = used + r.n /\ len' = len - r.n
  /\ UNCHANGED <<message, writer, arrived>>

\* put() with a decompressor: all of the data is written to it, and what it has
\* put out so far, if anything, goes to the body's reader in one call.
PutDeflated ==
  /\ Reading /\ enc # "none" /\ data # <<>> /\ ~hungry
  /\ used' = used + Len(data) /\ len' = len - Len(data)
  /\ \E n \in 0 .. Len(inflating \o data) :
       LET taken == inflating \o data
           d     == decoded \o Inflated(SubSeq(taken, 1, n))
           r     == IF d = <<>> THEN PutResult(0, step, "none") ELSE ProxyPut(d)
       IN  /\ inflating' = SubSeq(taken, n + 1, Len(taken))
           /\ Consume(d, r) /\ decoded' = SubSeq(d, r.n + 1, Len(d))
  /\ UNCHANGED <<message, writer, arrived>>

\* The last chunk has come, or as much as was announced.
BodyEnds ==
  /\ Reading /\ len = 0
  /\ framing = "chunked" => used < arrived /\ wire[used + 1] = Chunk(0)

\* finish(): the decompressor gives out the rest, which goes to the body's
\* reader in one call whose error is lost.  A stream without an end may throw.
Finish ==
  /\ BodyEnds
  /\ used' = used + Len(LastChunk)
  /\ LET rest == decoded \o Inflated(inflating)
         r    == ProxyPut(rest)
         all  == IF rest = <<>> THEN got ELSE got \o SubSeq(rest, 1, r.n)
         at   == IF rest = <<>> THEN step ELSE r.step
     IN  /\ got' = all /\ step' = at
         /\ result' \in (IF ProxyAccepts(all, at) THEN {"ok"} ELSE {"failed"})
                          \cup (IF enc # "none" /\ End \notin Range(wire) THEN {"failed"} ELSE {})
  /\ inflating' = <<>> /\ decoded' = <<>>
  /\ UNCHANGED <<message, writer, arrived, len, hungry>>
-----------------------------------------------------------------------------
Get  == GetNothing \/ GetPlain \/ GetDeflated
Put  == PutPlain \/ PutDeflated
Done == result # "reading" /\ UNCHANGED vars

Next == Get \/ Arrive \/ ChunkHeader \/ Put \/ Starve \/ Finish \/ Done

Spec == Init /\ [][Next]_vars
-----------------------------------------------------------------------------
(* Properties *)

\* The states each variable ranges over, and that the parser never runs ahead
\* of what has arrived or past the end of a chunk.
TypeOK ==
  /\ kind \in Kinds /\ enc \in Encodings /\ framing \in Framings
  /\ windex \in 0 .. Len(pieces) /\ sent \in BOOLEAN /\ hungry \in BOOLEAN
  /\ arrived \in 0 .. Len(wire) /\ used \in 0 .. arrived /\ len \in Nat
  /\ step \in {"boundary_line", "boundary_header", "boundary_content", "finished", "eof"}
  /\ result \in {"reading", "ok", "failed"}

\* The bodies that get through.  Excepted are: "br", which is compressed again
\* when it is read; an empty text, parameter list or field content sent as a
\* chunk, which is the last chunk to its reader; a body of no pieces with an
\* encoding, whose stream is never closed; a form without fields; a form of
\* two, of which a line end between fields is a chunk of its own that its reader
\* cannot tell from content; an encoded form, of which each buffer is read one
\* step.
Carried ==
  /\ enc # "br"
  /\ framing = "chunked" /\ kind \in {"string", "query"} /\ enc = "none" => text # <<>>
  /\ kind \in {"empty", "file"} /\ enc # "none" => text # <<>>
  /\ kind = "form" => enc = "none" /\ Len(pieces) = 3 /\ pieces[2] # <<>>

\* However the body was cut into pieces, chunks and reads, and whatever the
\* compressors hold back, a body that its reader accepts is the one that was
\* sent: nothing is lost, doubled, reordered, or cut short unnoticed.
AcceptedIsWhole == result = "ok" /\ enc # "br" => got = text

\* The reader of a body that gets through consumes all that its writer sent:
\* nothing stays in the connection to be taken for the next message.
NothingLeftBehind == result = "ok" /\ Carried => used = Len(wire)
=============================================================================
