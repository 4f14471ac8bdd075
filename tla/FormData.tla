------------------------------- MODULE FormData -------------------------------
(* multipart/form-data (lib/body/form_data_body.cpp): the writer that turns   *)
(* fields into a body, the reader that the parser feeds with whatever has     *)
(* arrived, and the connection between them, which delivers the body in       *)
(* pieces of any size and may end it early.  A body is a sequence of          *)
(* characters, of which only those that the format gives a meaning are told   *)
(* apart; the boundary and the header lines of a field are one symbol each.   *)
EXTENDS Naturals, Sequences, SequencesExt, FiniteSetsExt

CONSTANTS
  Names,       \* the fields' header lines: name, filename, content type
  MaxFields,
  MaxContent   \* the longest all contents together

Chars    == {"x", "cr", "lf", "-", "boundary"}
CRLF     == <<"cr", "lf">>
Boundary == <<"-", "-", "boundary">>

\* generate_boundary() draws it at random: no content has it after a line end.
Contents ==
  {c \in UNION {[1 .. n -> Chars] : n \in 0 .. MaxContent} :
     ~\E i \in DOMAIN c : IsPrefix(CRLF \o Boundary, SubSeq(c, i, Len(c)))}

Fields == [name : Names, content : Contents]

VARIABLES
  form,      \* the fields to send
  wstep,     \* the writer's step_
  windex,    \* its field_data_index_ + 1
  wire,      \* the body as written so far
  cut,       \* whether the body ends before the writer has finished
  arrived,   \* how much of it has arrived
  used,      \* how much of that put() has consumed
  step,      \* the reader's step_
  field,     \* its field_data_
  fields,    \* body_.fields
  result     \* "reading", then "ok" or "failed"

vars == <<form, wstep, windex, wire, cut, arrived, used, step, field, fields, result>>
sender   == <<form, wstep, windex, wire, cut>>
receiver == <<step, field, fields>>

NoField == [name |-> CHOOSE n \in Names : TRUE, content |-> <<>>]

\* A form has at least one field: for none the writer produces an empty body.
Init ==
  /\ form \in {f \in UNION {[1 .. n -> Fields] : n \in 1 .. MaxFields} :
                 FoldSeq(LAMBDA e, sum : Len(e.content) + sum, 0, f) <= MaxContent}
  /\ wstep = "header" /\ windex = 1
  /\ wire = <<>> /\ cut = FALSE
  /\ arrived = 0 /\ used = 0
  /\ step = "boundary_line"
  /\ field = NoField /\ fields = <<>>
  /\ result = "reading"
-----------------------------------------------------------------------------
(* form_data_body::writer::get *)

WriteHeader ==
  /\ wstep = "header" /\ ~cut
  /\ wire' = wire \o Boundary \o CRLF \o <<form[windex].name>> \o CRLF \o CRLF
  /\ wstep' = "content"
  /\ UNCHANGED <<form, windex, cut, arrived, used, receiver, result>>

WriteContent ==
  /\ wstep = "content" /\ ~cut
  /\ wire' = wire \o form[windex].content
  /\ wstep' = "content_end"
  /\ UNCHANGED <<form, windex, cut, arrived, used, receiver, result>>

\* A writer that leaves out the line end after the closing boundary.
MutWriteContentEnd ==
  /\ wstep = "content_end" /\ ~cut
  /\ IF windex = Len(form)
       THEN /\ wire' = wire \o CRLF \o Boundary \o <<"-", "-">>
            /\ wstep' = "eof"
            /\ UNCHANGED windex
       ELSE /\ wire' = wire \o CRLF
            /\ wstep' = "header"
            /\ windex' = windex + 1
  /\ UNCHANGED <<form, cut, arrived, used, receiver, result>>

WriteContentEnd ==
  /\ wstep = "content_end" /\ ~cut
  /\ IF windex = Len(form)
       THEN /\ wire' = wire \o CRLF \o Boundary \o <<"-", "-">> \o CRLF
            /\ wstep' = "eof"
            /\ UNCHANGED windex
       ELSE /\ wire' = wire \o CRLF
            /\ wstep' = "header"
            /\ windex' = windex + 1
  /\ UNCHANGED <<form, cut, arrived, used, receiver, result>>
-----------------------------------------------------------------------------
(* The parser and the connection *)

data == SubSeq(wire, used + 1, arrived)

\* Where an empty line ends the header of a field.
HeaderEnds == {i \in 1 .. Len(data) - 3 : SubSeq(data, i, i + 3) = CRLF \o CRLF}

\* Both forms of the boundary line have the same length.
BoundaryLine     == Boundary \o CRLF
BoundaryLineLast == Boundary \o <<"-", "-">>

\* Whether put() has nothing to work on, or returns need_more.
NeedsMore ==
  data # <<>> =>
    \/ step = "boundary_line" /\ Len(data) < Max({Len(BoundaryLine), Len(BoundaryLineLast)})
    \/ step = "boundary_header" /\ HeaderEnds = {}
    \/ step = "boundary_content" /\ Head(data) = "cr" /\ Len(data) < Len(CRLF \o Boundary)
    \/ step = "finished" /\ Len(data) < 2

\* The parser reads from the connection only when put() can do no more.
Arrive ==
  /\ result = "reading" /\ NeedsMore
  /\ arrived' \in (arrived + 1) .. Len(wire)
  /\ UNCHANGED <<sender, used, receiver, result>>

\* The body ends with what has arrived, as when its sender announced a length
\* that is too small.
Cut ==
  /\ result = "reading" /\ NeedsMore /\ ~cut
  /\ arrived < Len(wire) \/ wstep # "eof"
  /\ cut' = TRUE
  /\ wire' = SubSeq(wire, 1, arrived)
  /\ UNCHANGED <<form, wstep, windex, arrived, used, receiver, result>>

Complete == (cut \/ wstep = "eof") /\ arrived = Len(wire)
-----------------------------------------------------------------------------
(* form_data_body::reader: one action per call of put(), by step_ *)

Putting == result = "reading" /\ ~NeedsMore

PutBoundaryLine ==
  /\ step = "boundary_line" /\ Putting
  /\ CASE IsPrefix(BoundaryLine, data) ->
            step' = "boundary_header" /\ used' = used + Len(BoundaryLine) /\ UNCHANGED result
       [] IsPrefix(BoundaryLineLast, data) ->
            step' = "finished" /\ used' = used + Len(BoundaryLineLast) /\ UNCHANGED result
       [] OTHER -> result' = "failed" /\ UNCHANGED <<step, used>>
  /\ UNCHANGED <<sender, arrived, field, fields>>

PutBoundaryHeader ==
  /\ step = "boundary_header" /\ Putting
  /\ field' = [name |-> data[1], content |-> <<>>]
  /\ step' = "boundary_content"
  /\ used' = used + Min(HeaderEnds) + 3
  /\ UNCHANGED <<sender, arrived, fields, result>>

\* Everything up to the next carriage return, where a boundary may begin.
PutContent ==
  /\ step = "boundary_content" /\ Putting /\ Head(data) # "cr"
  /\ LET crs == {i \in DOMAIN data : data[i] = "cr"}
         n   == IF crs = {} THEN Len(data) ELSE Min(crs) - 1
     IN  /\ field' = [field EXCEPT !.content = @ \o SubSeq(data, 1, n)]
         /\ used' = used + n
  /\ UNCHANGED <<sender, arrived, step, fields, result>>

\* A reader that decides with what has arrived whether a boundary follows.
MutPutCarriageReturn ==
  /\ result = "reading" /\ data # <<>> /\ step = "boundary_content" /\ Head(data) = "cr"
  /\ IF IsPrefix(CRLF \o Boundary, data)
       THEN /\ step' = "boundary_line"
            /\ fields' = Append(fields, field)
            /\ used' = used + 2
            /\ UNCHANGED field
       ELSE /\ field' = [field EXCEPT !.content = Append(@, "cr")]
            /\ used' = used + 1
            /\ UNCHANGED <<step, fields>>
  /\ UNCHANGED <<sender, arrived, result>>

\* At a carriage return the reader waits until it can tell.
PutCarriageReturn ==
  /\ step = "boundary_content" /\ Putting /\ Head(data) = "cr"
  /\ IF IsPrefix(CRLF \o Boundary, data)
       THEN /\ step' = "boundary_line"
            /\ fields' = Append(fields, field)
            /\ used' = used + 2
            /\ UNCHANGED field
       ELSE /\ field' = [field EXCEPT !.content = Append(@, "cr")]
            /\ used' = used + 1
            /\ UNCHANGED <<step, fields>>
  /\ UNCHANGED <<sender, arrived, result>>

\* A reader that takes the last line end for granted.
MutPutFinished ==
  /\ result = "reading" /\ data # <<>> /\ step = "finished"
  /\ step' = "eof" /\ used' = used + 2
  /\ UNCHANGED <<sender, arrived, field, fields, result>>

PutFinished ==
  /\ step = "finished" /\ Putting
  /\ IF IsPrefix(CRLF, data)
       THEN step' = "eof" /\ used' = used + 2 /\ UNCHANGED result
       ELSE result' = "failed" /\ UNCHANGED <<step, used>>
  /\ UNCHANGED <<sender, arrived, field, fields>>

\* put() wants more than there will ever be.
Starve ==
  /\ result = "reading" /\ Complete /\ data # <<>> /\ NeedsMore
  /\ result' = "failed"
  /\ UNCHANGED <<sender, arrived, used, receiver>>

\* A finish() that accepts whatever it has.
MutFinish ==
  /\ result = "reading" /\ Complete /\ data = <<>>
  /\ result' = "ok"
  /\ UNCHANGED <<sender, arrived, used, receiver>>

Finish ==
  /\ result = "reading" /\ Complete /\ data = <<>>
  /\ result' = IF step = "eof" THEN "ok" ELSE "failed"
  /\ UNCHANGED <<sender, arrived, used, receiver>>
-----------------------------------------------------------------------------
Put == \/ PutBoundaryLine \/ PutBoundaryHeader \/ PutContent \/ PutCarriageReturn \/ PutFinished

Next ==
  \/ WriteHeader \/ WriteContent \/ WriteContentEnd
  \/ Arrive \/ Cut
  \/ Put \/ Starve \/ Finish

Spec == Init /\ [][Next]_vars
-----------------------------------------------------------------------------
(* Properties *)

\* The states each variable ranges over; put() never consumes more than it was
\* given.
TypeOK ==
  /\ form \in Seq(Fields)
  /\ wstep \in {"header", "content", "content_end", "eof"}
  /\ windex \in 1 .. Len(form)
  /\ wire \in Seq(Chars \cup Names) /\ cut \in BOOLEAN
  /\ arrived \in 0 .. Len(wire) /\ used \in 0 .. arrived
  /\ step \in {"boundary_line", "boundary_header", "boundary_content", "finished", "eof"}
  /\ field.name \in Names /\ field.content \in Seq(Chars)
  /\ fields \in Seq([name : Names, content : Seq(Chars)])
  /\ result \in {"reading", "ok", "failed"}

\* At every moment, and wherever the pieces were cut, the reader has the fields
\* that were sent, in order, and of the one it is reading the beginning of the
\* content: no carriage return is lost, doubled or taken for a boundary.
ReadsWhatWasSent ==
  /\ IsPrefix(fields, form)
  /\ step \in {"boundary_header", "boundary_content"} => Len(fields) < Len(form)
  /\ step = "boundary_content" =>
       LET sent == form[Len(fields) + 1]
       IN  field.name = sent.name /\ IsPrefix(field.content, sent.content)

\* A form that was cut short is never taken for a complete one.
OnlyWholeForms == result = "ok" => fields = form
=============================================================================
