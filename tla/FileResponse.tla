---------------------------- MODULE FileResponse ----------------------------
(* Serving a file, or ranges of it: http_ranges::parse                        *)
(* (lib/html/http_ranges.cpp), response::set_file_content                     *)
(* (lib/server/response.cpp) and file_body::writer::get                       *)
(* (lib/body/file_body.cpp), one element of the Range header and one buffer   *)
(* of the body at a time.  A byte of the file is its offset.                  *)
EXTENDS Integers, Sequences, SequencesExt, FiniteSetsExt

CONSTANTS
  Sizes,     \* the sizes a file may have
  Numbers,   \* the numbers a Range header may contain
  IntMax,    \* the largest value of int, the type parse() computes in
  BufSize,   \* the size of the writer's buffer
  MaxSpecs   \* the longest list of ranges in a header

\* An element of the list, as it is written: 3-5, 3-, 3, -5, or - -5.
Forms == {"a-b", "a-", "a", "-b", "- -b"}
Specs ==
  {s \in [form : Forms, a : Numbers, b : Numbers] : s.form # "a-b" => s.a = s.b}

\* A Range header: absent or empty, not of the form bytes=..., a lone dash, or a list.
Headers == {"none", "malformed", "-", "list"}

VARIABLES
  size,      \* the size of the file
  header,    \* the Range header ...
  specs,     \* ... and its list
  cached,    \* whether If-None-Match or If-Modified-Since matches
  pc,        \* "stat", "parse", "head", "write", then "done" or "failed"
  ranges,    \* ranges_: pairs of a first and a last offset
  rejected,  \* the element of the list that made parse() return false, if any
  status,    \* the status of the response
  length,    \* its Content-Length, -1 if it has none
  index,     \* range_index_ + 1
  step,      \* step_
  pos,       \* pos_, -1 when it has no value
  fpos,      \* the read position of the file
  out        \* the bytes of the file written so far

vars == <<size, header, specs, cached, pc, ranges, rejected, status, length,
          index, step, pos, fpos, out>>
request == <<size, header, specs, cached>>

Init ==
  /\ size \in Sizes
  /\ header \in Headers
  /\ specs \in IF header = "list" THEN UNION {[1 .. n -> Specs] : n \in 1 .. MaxSpecs} ELSE {<<>>}
  /\ cached \in BOOLEAN
  /\ pc = "stat"
  /\ ranges = <<>> /\ rejected = 0
  /\ status = 404 /\ length = -1    \* as the constructor of response leaves it
  /\ index = 1 /\ step = "header"
  /\ pos = -1 /\ fpos = 0
  /\ out = <<>>
-----------------------------------------------------------------------------
(* response::set_file_content up to parse() *)

\* Size and write time of the file, or an early return that leaves the 404.
Stat ==
  /\ pc = "stat"
  /\ pc' \in {"parse", "done"}
  /\ UNCHANGED <<request, ranges, rejected, status, length, index, step, pos, fpos, out>>
-----------------------------------------------------------------------------
(* http_ranges::parse *)

\* The conversion to int of a value of type size_t or of a difference of two.
ToInt(n) == ((n + IntMax + 1) % (2 * (IntMax + 1))) - (IntMax + 1)

\* util::split(range, "-") drops a leading and a trailing dash, so that "-5"
\* has the one part "5", like "5-".  An empty part is -1.
Parts(s) ==
  CASE s.form = "a-b"          -> <<s.a, s.b>>
    [] s.form \in {"a-", "a"}  -> <<s.a>>
    [] s.form = "-b"           -> <<s.b>>
    [] s.form = "- -b"         -> <<-1, s.b>>

\* std::from_chars fails on a number that int cannot hold.
Unreadable(s) == \E n \in Range(Parts(s)) : n > IntMax

First(s)     == Parts(s)[1]
LastGiven(s) == IF Len(Parts(s)) = 1 THEN ToInt(size - 1) ELSE Parts(s)[2]

\* The test marked "out of range".
Unsatisfiable(s) == First(s) > 0 /\ (First(s) >= size \/ First(s) = LastGiven(s))

\* No clamping to the end of the file.
MutClamped(s) == LastGiven(s)

\* The last offset, clamped to the end of the file.
Clamped(s) == IF LastGiven(s) > 0 /\ LastGiven(s) >= size THEN ToInt(size - 1) ELSE LastGiven(s)

RangeOf(s) ==
  IF First(s) = -1 THEN <<ToInt(size - Clamped(s)), ToInt(size - 1)>> ELSE <<First(s), Clamped(s)>>

ParseTrivial ==
  /\ pc = "parse" /\ header # "list"
  /\ ranges' = IF header = "-" THEN <<<<0, size - 1>>>> ELSE <<>>
  /\ pc' = IF header = "malformed" THEN "unsatisfiable" ELSE "head"
  /\ UNCHANGED <<request, rejected, status, length, index, step, pos, fpos, out>>

\* One turn of the loop over the list.
ParseRange ==
  /\ pc = "parse" /\ header = "list"
  /\ LET s == specs[index]
     IN  IF Unreadable(s) \/ Unsatisfiable(s)
           THEN /\ ranges' = <<>>
                /\ rejected' = index
                /\ pc' = "unsatisfiable"
                /\ index' = 1
           ELSE /\ ranges' = Append(ranges, RangeOf(s))
                /\ pc' = IF index = Len(specs) THEN "head" ELSE "parse"
                /\ index' = IF index = Len(specs) THEN 1 ELSE index + 1
                /\ UNCHANGED rejected
  /\ UNCHANGED <<request, status, length, step, pos, fpos, out>>
-----------------------------------------------------------------------------
(* response::set_file_content after parse() *)

NotSatisfiable ==
  /\ pc = "unsatisfiable"
  /\ status' = 416 /\ length' = 0
  /\ pc' = "done"
  /\ UNCHANGED <<request, ranges, rejected, index, step, pos, fpos, out>>

NotModified ==
  /\ pc = "head" /\ cached
  /\ status' = 304 /\ length' = 0
  /\ pc' = "done"
  /\ UNCHANGED <<request, ranges, rejected, index, step, pos, fpos, out>>

\* The file is gone by the time it is opened: the 404 stays.
OpenFails ==
  /\ pc = "head" /\ ~cached
  /\ pc' = "done"
  /\ UNCHANGED <<request, ranges, rejected, status, length, index, step, pos, fpos, out>>

\* A Content-Length that takes the last offset for the end.
MutSetFileContent ==
  /\ pc = "head" /\ ~cached
  /\ status' = IF ranges = <<>> THEN 200 ELSE 206
  /\ length' = CASE Len(ranges) = 0 -> size
                 [] Len(ranges) = 1 -> ranges[1][2] - ranges[1][1]
                 [] OTHER           -> -1
  /\ pc' = "write"
  /\ UNCHANGED <<request, ranges, rejected, index, step, pos, fpos, out>>

SetFileContent ==
  /\ pc = "head" /\ ~cached
  /\ status' = IF ranges = <<>> THEN 200 ELSE 206
  /\ length' = CASE Len(ranges) = 0 -> size
                 [] Len(ranges) = 1 -> ranges[1][2] + 1 - ranges[1][1]
                 [] OTHER           -> -1
  /\ pc' = "write"
  /\ UNCHANGED <<request, ranges, rejected, index, step, pos, fpos, out>>
-----------------------------------------------------------------------------
(* file_body::writer::get *)

\* seekg moves relative to the current position, when a range begins.
Begin(r) == IF pos = -1 THEN r[1] ELSE pos
Seek(r)  == IF pos = -1 THEN fpos + r[1] ELSE fpos

\* How much to read next: what is left up to end, an unsigned difference, but at
\* most a buffer.
ToRead(r, end) == IF end < Begin(r) THEN BufSize ELSE Min({BufSize, end - Begin(r)})

\* How much read() gets.  After a read that met the end of the file, or a seek
\* before its beginning, the stream has failed: fpos is then negative.
Got(r, end) ==
  IF Seek(r) < 0 \/ fpos < 0 THEN 0 ELSE Min({ToRead(r, end), Max({size - Seek(r), 0})})

\* Read one buffer of range r, which ends before offset end.
ReadBuffer(r, end) ==
  /\ out' = out \o [i \in 1 .. Got(r, end) |-> Seek(r) + i - 1]
  /\ pos' = Begin(r) + Got(r, end)
  /\ fpos' = IF Got(r, end) < ToRead(r, end) THEN -1 ELSE Seek(r) + Got(r, end)

Whole == IF ranges = <<>> THEN <<0, size>> ELSE <<ranges[1][1], ranges[1][2] + 1>>

\* The whole file, or its one range.
WriteSingle ==
  /\ pc = "write" /\ Len(ranges) < 2
  /\ LET r   == Whole
         end == Whole[2]
     IN  IF ToRead(r, end) = 0
           THEN pc' = "done" /\ UNCHANGED <<pos, fpos, out>>
           ELSE IF Got(r, end) = 0
             THEN pc' = "failed" /\ UNCHANGED <<pos, fpos, out>>
             ELSE /\ ReadBuffer(r, end)
                  /\ pc' = IF pos' < end THEN "write" ELSE "done"
  /\ UNCHANGED <<request, ranges, rejected, status, length, index, step>>

WritePartHeader ==
  /\ pc = "write" /\ Len(ranges) > 1 /\ step = "header"
  /\ step' = "content"
  /\ pos' = -1
  /\ UNCHANGED <<request, pc, ranges, rejected, status, length, index, fpos, out>>

\* Up to the last offset of the part, exclusive; the file was opened once, so a
\* part's first offset is counted from where the part before it ended.
WritePartContent ==
  /\ pc = "write" /\ Len(ranges) > 1 /\ step = "content"
  /\ LET r   == ranges[index]
         end == ranges[index][2]
     IN  /\ ToRead(r, end) # 0
         /\ IF Got(r, end) = 0
              THEN pc' = "failed" /\ UNCHANGED <<pos, fpos, out>>
              ELSE ReadBuffer(r, end) /\ UNCHANGED pc
  /\ UNCHANGED <<request, ranges, rejected, status, length, index, step>>

\* A writer that takes the last part for the last but one.
MutWritePartEnd ==
  /\ pc = "write" /\ Len(ranges) > 1 /\ step = "content"
  /\ ToRead(ranges[index], ranges[index][2]) = 0
  /\ index' = index + 1 /\ step' = "header"
  /\ UNCHANGED <<request, pc, ranges, rejected, status, length, pos, fpos, out>>

\* The part is complete: a line end, and the closing boundary after the last.
WritePartEnd ==
  /\ pc = "write" /\ Len(ranges) > 1 /\ step = "content"
  /\ ToRead(ranges[index], ranges[index][2]) = 0
  /\ fpos' = IF pos = -1 /\ fpos >= 0 THEN Seek(ranges[index]) ELSE fpos
  /\ IF index = Len(ranges)
       THEN pc' = "done" /\ step' = "eof" /\ UNCHANGED index
       ELSE index' = index + 1 /\ step' = "header" /\ UNCHANGED pc
  /\ UNCHANGED <<request, ranges, rejected, status, length, pos, out>>
-----------------------------------------------------------------------------
Next ==
  \/ Stat \/ ParseTrivial \/ ParseRange
  \/ NotSatisfiable \/ NotModified \/ OpenFails \/ SetFileContent
  \/ WriteSingle \/ WritePartHeader \/ WritePartContent \/ WritePartEnd

Spec == Init /\ [][Next]_vars
-----------------------------------------------------------------------------
(* Properties *)

\* The states each variable ranges over.
TypeOK ==
  /\ size \in Sizes /\ header \in Headers /\ specs \in Seq(Specs) /\ cached \in BOOLEAN
  /\ pc \in {"stat", "parse", "unsatisfiable", "head", "write", "done", "failed"}
  /\ ranges \in Seq(Int \X Int) /\ rejected \in 0 .. MaxSpecs
  /\ status \in {200, 206, 304, 404, 416} /\ length \in Int
  /\ index \in 1 .. (IF specs = <<>> THEN 1 ELSE Len(specs))
  /\ step \in {"header", "content", "eof"}
  /\ pos \in Int /\ fpos \in Int
  /\ out \in Seq(Nat)

\* The arithmetic of parse() is exact: the file is not too large for int.
Fits == size <= IntMax

\* A response for the whole file or for one range: the bytes written are those
\* that Content-Range names, one after the other, and as many as Content-Length
\* says.  For files that are not empty and that int can measure, and ranges that
\* do not end before they begin, whatever the header looked like.
ServesWhatItAnnounces ==
  pc \in {"done", "failed"} /\ status \in {200, 206} /\ Len(ranges) < 2
    /\ Fits /\ size > 0 /\ Whole[1] <= Whole[2] =>
      /\ pc = "done"
      /\ Len(out) = length
      /\ \A i \in DOMAIN out : out[i] = Whole[1] + i - 1 /\ out[i] < size

\* Of a file that int can measure, an element a-b of which at least two bytes
\* exist is refused only if int cannot hold b, and of what exists nothing is left
\* out.
Satisfiable(s) == s.form = "a-b" /\ s.a < s.b /\ s.a < size
SatisfiableIsServed ==
  Fits =>
    /\ rejected # 0 /\ Satisfiable(specs[rejected]) => specs[rejected].b > IntMax
    /\ pc = "head" /\ header = "list" =>
         \A i \in DOMAIN specs :
           Satisfiable(specs[i]) => ranges[i] = <<specs[i].a, Min({specs[i].b, size - 1})>>

\* What the comment at the rejection says: a range is refused there because it
\* is out of the file's range.
RejectedIsOutOfRange ==
  rejected # 0 /\ ~Unreadable(specs[rejected]) => First(specs[rejected]) >= size
=============================================================================
