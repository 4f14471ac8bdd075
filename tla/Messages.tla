------------------------------- MODULE Messages -------------------------------
(* What a message carries, from the call that sets it to the reader of the    *)
(* other side: a form character by character (FormData), a body of any kind   *)
(* in its frames and encodings (AnyBody), the ranges and bytes of a file      *)
(* (FileResponse), and the content of a response with its header              *)
(* (ResponseContent).  Each looks at one side of the same calls in detail; a  *)
(* behaviour is one of them, and the variables of the others keep their       *)
(* initial values.                                                            *)
EXTENDS Naturals, Sequences

CONSTANTS
  Names, MaxFields, MaxContent,                \* of FormData
  MaxUnits, MaxParts, MaxEncoded, BufferSize,  \* of AnyBody
  Sizes, Numbers, IntMax, BufSize, MaxSpecs,   \* of FileResponse
  MaxCalls, MaxChunks                          \* of ResponseContent

VARIABLES
  part,       \* "form", "body", "file" or "content"
  \* the form
  form, wstep, findex, text, cut, come, taken, fstep, field, fields, outcome,
  \* the body
  kind, pieces, enc, framing, windex, deflating, wire, sent, arrived, used, len, hungry,
  inflating, decoded, got, step, result,
  \* the file
  size, header, specs, cached, at, ranges, rejected, status, length, index, rstep, pos, fpos, out,
  \* the content
  req, resp, content, calls, stream, pc

formVars == <<form, wstep, findex, text, cut, come, taken, fstep, field, fields, outcome>>
bodyVars ==
  <<kind, pieces, enc, framing, windex, deflating, wire, sent, arrived, used, len, hungry,
    inflating, decoded, got, step, result>>
fileVars ==
  <<size, header, specs, cached, at, ranges, rejected, status, length, index, rstep, pos, fpos,
    out>>
contentVars == <<req, resp, content, calls, stream, pc>>
vars == <<part, formVars, bodyVars, fileVars, contentVars>>

F == INSTANCE FormData WITH windex <- findex, wire <- text, arrived <- come, used <- taken,
                            step <- fstep, result <- outcome
B == INSTANCE AnyBody WITH MaxFields <- MaxParts
R == INSTANCE FileResponse WITH pc <- at, step <- rstep
C == INSTANCE ResponseContent WITH wire <- stream

\* A header line is told apart from the characters that have a meaning, the
\* numbers are those of the code, and a buffer holds something.
ASSUME MessagesAssumption ==
  /\ Names # {} /\ Names \cap F!Chars = {} /\ MaxFields \in Nat /\ MaxContent \in Nat
  /\ MaxUnits \in Nat /\ MaxParts \in Nat /\ MaxEncoded \in Nat /\ BufferSize \in Nat \ {0}
  /\ Sizes \subseteq Nat /\ Numbers \subseteq Nat /\ IntMax \in Nat /\ BufSize \in Nat \ {0}
  /\ MaxSpecs \in Nat /\ MaxCalls \in Nat /\ MaxChunks \in Nat

\* The one initial state of a part that is not looked at.
NoForm    == form = <<F!NoField>> /\ F!Init
NoBody    == kind = "empty" /\ enc = "none" /\ framing = "length" /\ B!Init
NoFile    == size = 1 /\ header = "none" /\ cached = FALSE /\ R!Init
NoContent == /\ req = [head |-> FALSE, version |-> 11, keep |-> TRUE, expect |-> FALSE,
                       accept |-> <<>>]
             /\ C!Init

Init ==
  \/ part = "form" /\ NoBody /\ NoFile /\ NoContent /\ F!Init
  \/ part = "body" /\ NoForm /\ NoFile /\ NoContent /\ B!Init
  \/ part = "file" /\ NoForm /\ NoBody /\ NoContent /\ R!Init
  \/ part = "content" /\ NoForm /\ NoBody /\ NoFile /\ C!Init

InForm(A)    == part = "form" /\ A /\ UNCHANGED <<part, bodyVars, fileVars, contentVars>>
InBody(A)    == part = "body" /\ A /\ UNCHANGED <<part, formVars, fileVars, contentVars>>
InFile(A)    == part = "file" /\ A /\ UNCHANGED <<part, formVars, bodyVars, contentVars>>
InContent(A) == part = "content" /\ A /\ UNCHANGED <<part, formVars, bodyVars, fileVars>>

Next == InForm(F!Next) \/ InBody(B!Next) \/ InFile(R!Next) \/ InContent(C!Next)

\* Writers and readers of bodies are called until they are done, and what was
\* sent arrives.  To end a body early is nobody's duty.
Writing == InForm(F!WriteHeader \/ F!WriteContent \/ F!WriteContentEnd) \/ InBody(B!Get)
Reading ==
  \/ InForm(F!Arrive \/ F!Put \/ F!Starve \/ F!Finish)
  \/ InBody(B!Arrive \/ B!ChunkHeader \/ B!Put \/ B!Finish \/ B!Starve)

FairSpec == Init /\ [][Next]_vars /\ WF_vars(Writing) /\ WF_vars(Reading)
-----------------------------------------------------------------------------
(* Properties *)

\* The states each variable ranges over; no reader consumes more than it was
\* given (see FormData and AnyBody), no response is chunked and of a known length
\* (see ResponseContent).
TypeOK ==
  /\ part = "form" => F!TypeOK
  /\ part = "body" => B!TypeOK
  /\ part = "file" => R!TypeOK
  /\ part = "content" => C!TypeOK

\* However it is cut into pieces, a form is read as it was sent, and one that was
\* cut short is not taken for a whole one (see FormData).
FormsAreRead == part = "form" => F!ReadsWhatWasSent /\ F!OnlyWholeForms

\* A body that is accepted is the whole of what was sent, and nothing of it stays
\* in the connection (see AnyBody).
AcceptedIsWhole == part = "body" => B!AcceptedIsWhole /\ B!NothingLeftBehind

\* Every form that is not cut short is read, and every body that gets through is
\* accepted: no reader waits for what it has, whatever the contents.
BodiesAreRead ==
  <>((part = "form" => outcome = "ok" \/ cut) /\ (part = "body" => result = "ok" \/ ~B!Carried))

\* The bytes written for a file are those that were announced, and what exists of
\* a range is neither refused nor left out (see FileResponse).
ServesWhatItAnnounces == part = "file" => R!ServesWhatItAnnounces /\ R!SatisfiableIsServed

\* Whatever was set before, the client reads the content that was set last, and
\* it gets an answer, but for content that cannot have its status (see
\* ResponseContent).
ClientReadsTheContent == part = "content" => C!ClientReadsTheContent /\ C!ThrowsOnlyForStatus
=============================================================================
