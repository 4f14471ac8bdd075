--------------------------- MODULE MessagesProofs ---------------------------
(* Proofs about Messages: of every file and every Range header, what is       *)
(* served is what was announced; of every form, in whatever pieces it comes,  *)
(* the fields that are read are those that were sent; of every content, in    *)
(* whatever way it was set, the client reads what was set last.  Each rests   *)
(* on an inductive invariant of that part's own: FileIInv, FormIInv and       *)
(* ContentIInv.                                                               *)
EXTENDS Messages, SequenceFacts
-----------------------------------------------------------------------------
(* The file: its inductive invariant *)

FileTypes == R!TypeOK /\ Len(specs) <= MaxSpecs /\ (header = "list" => specs # <<>>)

\* parse() has made one range of each of the first n elements.
Parsed(n) ==
  /\ Len(ranges) = n
  /\ \A i \in 1 .. n : ranges[i] = R!RangeOf(specs[i]) /\ ~R!Unsatisfiable(specs[i])

\* What ranges_ holds, by how far the response is.
Ranges ==
  /\ at = "stat" => ranges = <<>> /\ index = 1
  /\ header # "list" => ranges \in {<<>>, << <<0, size - 1>> >>}
  /\ header = "list" =>
       /\ at = "parse" => Parsed(index - 1)
       /\ at \in {"head", "write", "failed"} => Parsed(Len(specs))
       /\ at \in {"unsatisfiable", "done"} => ranges = <<>> \/ Parsed(Len(specs))

\* Why parse() has returned false.
Refused ==
  rejected # 0 => /\ rejected \in DOMAIN specs
                  /\ R!Unreadable(specs[rejected]) \/ R!Unsatisfiable(specs[rejected])

\* Nothing is answered before the file is opened.
Unanswered ==
  /\ at \in {"stat", "parse", "unsatisfiable", "head"} =>
       status = 404 /\ pos = -1 /\ fpos = 0 /\ out = <<>>
  /\ at = "write" => status \in {200, 206}

\* The responses of which ServesWhatItAnnounces speaks.
Announced ==
  /\ status \in {200, 206} /\ Len(ranges) < 2
  /\ R!Fits /\ size > 0 /\ R!Whole[1] <= R!Whole[2]

\* The writer's place in the file is that of the range it has reached.
Place(lo, hi) ==
  \/ pos = -1 /\ fpos = 0 /\ out = <<>> /\ (at = "done" => lo = hi)
  \/ pos = lo + Len(out) /\ fpos = pos /\ pos <= hi /\ (at = "done" => pos = hi)

Served ==
  at \in {"write", "done", "failed"} /\ Announced =>
    /\ at # "failed"
    /\ length = R!Whole[2] - R!Whole[1]
    /\ Place(R!Whole[1], R!Whole[2])
    /\ \A i \in DOMAIN out : out[i] = R!Whole[1] + i - 1

FileIInv == FileTypes /\ Ranges /\ Refused /\ Unanswered /\ Served
-----------------------------------------------------------------------------
\* What % keeps.
LEMMA Remainder ==
  ASSUME NEW m \in Nat, m > 0, NEW x \in Int
  PROVE  x % m \in Int /\ (0 <= x /\ x < m => x % m = x)
  OBVIOUS

\* int keeps what it can hold.
LEMMA ToIntFacts ==
  ASSUME NEW n \in Int
  PROVE  /\ R!ToInt(n) \in Int
         /\ - (IntMax + 1) <= n /\ n <= IntMax => R!ToInt(n) = n
<1> DEFINE m == 2 * (IntMax + 1)
           k == n + IntMax + 1
<1>0. IntMax \in Nat
  BY MessagesAssumption
<1>1. m \in Nat /\ m > 0 /\ k \in Int /\ (- (IntMax + 1) <= n /\ n <= IntMax => 0 <= k /\ k < m)
  BY <1>0
<1>2. R!ToInt(n) = (k % m) - (IntMax + 1)
  BY DEF R!ToInt
<1> HIDE DEF m, k
<1>3. k % m \in Int /\ (0 <= k /\ k < m => k % m = k)
  BY <1>1, Remainder
<1>4. CASE - (IntMax + 1) <= n /\ n <= IntMax
  BY <1>0, <1>1, <1>2, <1>3, <1>4 DEF k
<1> QED
  BY <1>0, <1>2, <1>3, <1>4

\* The numbers of an element of a Range header.
LEMMA SpecFacts ==
  ASSUME NEW s \in R!Specs
  PROVE  /\ s.form \in R!Forms /\ s.a \in Nat /\ s.b \in Nat
         /\ R!First(s) \in Int /\ R!First(s) >= -1
         /\ s.form # "- -b" => R!First(s) \in Nat
         /\ s.form = "a-b" => R!First(s) = s.a /\ R!LastGiven(s) = s.b
         /\ s.form = "- -b" => R!First(s) = -1 /\ R!LastGiven(s) = s.b
         /\ s.form \in {"a-", "a", "-b"} => R!LastGiven(s) = R!ToInt(size - 1)
<1>1. s.form \in R!Forms /\ s.a \in Nat /\ s.b \in Nat
  BY MessagesAssumption DEF R!Specs
<1>2. CASE s.form = "a-b"
  <2>1. R!Parts(s) = <<s.a, s.b>>
    BY <1>2 DEF R!Parts
  <2> QED
    BY <1>1, <1>2, <2>1 DEF R!First, R!LastGiven
<1>3. CASE s.form \in {"a-", "a"}
  <2>1. R!Parts(s) = <<s.a>>
    BY <1>3 DEF R!Parts
  <2>2. R!First(s) = s.a /\ R!LastGiven(s) = R!ToInt(size - 1)
    BY <2>1 DEF R!First, R!LastGiven
  <2>3. s.form # "a-b" /\ s.form # "- -b"
    BY <1>3
  <2>4. R!First(s) \in Int /\ R!First(s) >= -1 /\ R!First(s) \in Nat
    BY <1>1, <2>2
  <2> QED
    BY <1>1, <2>2, <2>3, <2>4, Zenon
<1>4. CASE s.form = "-b"
  <2>1. R!Parts(s) = <<s.b>>
    BY <1>4 DEF R!Parts
  <2> QED
    BY <1>1, <1>4, <2>1 DEF R!First, R!LastGiven
<1>5. CASE s.form = "- -b"
  <2>1. R!Parts(s) = <<-1, s.b>>
    BY <1>5 DEF R!Parts
  <2>2. R!First(s) = -1 /\ R!LastGiven(s) = s.b
    BY <2>1 DEF R!First, R!LastGiven
  <2>3. s.form # "a-b" /\ s.form \notin {"a-", "a", "-b"}
    BY <1>5
  <2>4. R!First(s) \in Int /\ R!First(s) >= -1
    BY <2>2
  <2> QED
    BY <1>1, <1>5, <2>2, <2>3, <2>4, Zenon
<1> QED
  BY <1>1, <1>2, <1>3, <1>4, <1>5 DEF R!Forms

\* What parse() makes of an element it does not refuse.
LEMMA RangeFacts ==
  ASSUME NEW s \in R!Specs, size \in Sizes
  PROVE  /\ R!RangeOf(s) \in Int \X Int
         /\ R!Fits /\ size > 0 /\ ~R!Unsatisfiable(s) =>
              R!RangeOf(s)[1] \in 0 .. size /\ R!RangeOf(s)[2] \in 0 .. size - 1
         /\ R!Fits /\ R!Satisfiable(s) =>
              /\ ~R!Unsatisfiable(s)
              /\ R!RangeOf(s) = <<s.a, IF s.b < size THEN s.b ELSE size - 1>>
<1> DEFINE a == s.a
           b == s.b
           f == R!First(s)
           l == R!LastGiven(s)
           c == R!Clamped(s)
           z == R!ToInt(size - 1)
           y == R!ToInt(size - c)
<1>0. size \in Nat /\ IntMax \in Nat
  BY MessagesAssumption
<1>1. z \in Int /\ (size <= IntMax => z = size - 1)
  <2>1. size - 1 \in Int /\ (size <= IntMax => - (IntMax + 1) <= size - 1 /\ size - 1 <= IntMax)
    BY <1>0
  <2> HIDE DEF z
  <2>2. z \in Int /\ (- (IntMax + 1) <= size - 1 /\ size - 1 <= IntMax => z = size - 1)
    BY <2>1, ToIntFacts DEF z
  <2> QED
    BY <2>1, <2>2
<1>2. /\ a \in Nat /\ b \in Nat /\ f \in Int /\ f >= -1
      /\ f = -1 \/ f \in Nat
      /\ \/ s.form = "a-b" /\ f = a /\ l = b
         \/ s.form # "a-b" /\ f = -1 /\ l = b
         \/ s.form # "a-b" /\ f \in Nat /\ l = z
  <2>1. CASE s.form = "a-b"
    BY <2>1, SpecFacts, Zenon
  <2>2. CASE s.form = "- -b"
    BY <2>2, SpecFacts, Zenon
  <2>3. CASE s.form \in {"a-", "a", "-b"}
    <3>1. s.form # "a-b" /\ s.form # "- -b"
      BY <2>3
    <3> QED
      BY <2>3, <3>1, SpecFacts, Zenon
  <2> QED
    BY <2>1, <2>2, <2>3, SpecFacts DEF R!Forms
<1>3. c = IF l > 0 /\ l >= size THEN z ELSE l
  BY DEF R!Clamped
<1>4. R!RangeOf(s) = IF f = -1 THEN <<y, z>> ELSE <<f, c>>
  BY DEF R!RangeOf
<1>5. R!Unsatisfiable(s) <=> f > 0 /\ (f >= size \/ f = l)
  BY DEF R!Unsatisfiable
<1>6. R!Satisfiable(s) <=> s.form = "a-b" /\ a < b /\ a < size
  BY DEF R!Satisfiable
<1>7. l \in Int /\ c \in Int
  <2>1. l \in Int
    BY <1>1, <1>2
  <2> HIDE DEF l, c, z
  <2> QED
    BY <1>1, <1>3, <2>1
<1>8. y \in Int /\ (- (IntMax + 1) <= size - c /\ size - c <= IntMax => y = size - c)
  <2> HIDE DEF c
  <2> QED
    BY <1>0, <1>7, ToIntFacts
<1> HIDE DEF a, b, f, l, c, z, y
<1>9. R!RangeOf(s) \in Int \X Int
  <2>1. CASE f = -1
    BY <1>1, <1>4, <1>8, <2>1
  <2>2. CASE f # -1
    BY <1>2, <1>4, <1>7, <2>2
  <2> QED
    BY <2>1, <2>2
<1>10. ASSUME R!Fits, size > 0, ~R!Unsatisfiable(s)
       PROVE  R!RangeOf(s)[1] \in 0 .. size /\ R!RangeOf(s)[2] \in 0 .. size - 1
  <2>0. size <= IntMax
    BY <1>10 DEF R!Fits
  <2>a. size > 0 /\ ~(f > 0 /\ (f >= size \/ f = l))
    BY <1>5, <1>10
  <2>1. l \in Nat /\ z = size - 1
    <3>1. z = size - 1 /\ z \in Nat
      BY <1>0, <1>1, <2>0, <2>a
    <3> QED
      BY <1>2, <3>1
  <2>2. c \in 0 .. size - 1
    BY <1>0, <1>3, <2>a, <2>1
  <2>3. CASE f = -1
    <3>1. y = size - c
      BY <1>0, <1>8, <2>0, <2>2
    <3>2. y \in 0 .. size /\ z \in 0 .. size - 1
      BY <1>0, <2>1, <2>2, <2>a, <3>1
    <3> QED
      BY <1>4, <2>3, <3>2
  <2>4. CASE f # -1
    <3>0. f \in Nat
      BY <1>2, <2>4
    <3>1. f \in 0 .. size
      BY <1>0, <2>a, <3>0
    <3> QED
      BY <1>4, <2>2, <2>4, <3>1
  <2> QED
    BY <2>3, <2>4
<1>11. ASSUME R!Fits, R!Satisfiable(s)
       PROVE  /\ ~R!Unsatisfiable(s)
              /\ R!RangeOf(s) = <<s.a, IF s.b < size THEN s.b ELSE size - 1>>
  <2>0. size <= IntMax
    BY <1>11 DEF R!Fits
  <2>1. f = a /\ l = b /\ a < b /\ a < size
    BY <1>2, <1>6, <1>11
  <2>2. a \in Nat /\ b \in Nat /\ z = size - 1
    BY <1>1, <1>2, <2>0
  <2>3. f # -1 /\ c = IF b < size THEN b ELSE size - 1
    BY <1>0, <1>3, <2>1, <2>2
  <2>4. ~(f > 0 /\ (f >= size \/ f = l))
    BY <1>0, <2>1, <2>2
  <2>5. R!RangeOf(s) = <<a, IF b < size THEN b ELSE size - 1>>
    BY <1>4, <2>1, <2>3
  <2> QED
    BY <1>5, <2>4, <2>5 DEF a, b
<1> QED
  BY <1>9, <1>10, <1>11

\* Nothing is served yet.
LEMMA FileInit == R!Init => FileIInv
<1> SUFFICES ASSUME R!Init PROVE FileIInv
  OBVIOUS
<1>1. /\ size \in Sizes /\ header \in R!Headers /\ cached \in BOOLEAN /\ at = "stat"
      /\ ranges = <<>> /\ rejected = 0 /\ status = 404 /\ length = -1 /\ index = 1
      /\ rstep = "header" /\ pos = -1 /\ fpos = 0 /\ out = <<>>
  BY DEF R!Init
<1>2. specs \in Seq(R!Specs) /\ Len(specs) <= MaxSpecs /\ (header = "list" => specs # <<>>)
  <2>1. CASE header # "list"
    <3>1. specs = <<>>
      BY <2>1 DEF R!Init
    <3> QED
      BY <2>1, <3>1, MessagesAssumption
  <2>2. CASE header = "list"
    <3>1. PICK n \in 1 .. MaxSpecs : specs \in [1 .. n -> R!Specs]
      BY <2>2 DEF R!Init
    <3>2. n \in Nat /\ n > 0 /\ n <= MaxSpecs
      BY MessagesAssumption
    <3>3. specs \in Seq(R!Specs)
      BY <3>1, <3>2, SeqDef
    <3>4. Len(specs) = n
      BY <3>1, <3>2, <3>3, LenProperties
    <3> QED
      BY <3>2, <3>3, <3>4
  <2> QED
    BY <2>1, <2>2
<1>3. index \in 1 .. (IF specs = <<>> THEN 1 ELSE Len(specs))
  <2>1. specs # <<>> => Len(specs) \in Nat /\ Len(specs) > 0
    BY <1>2, LenProperties, EmptySeq
  <2> QED
    BY <1>1, <2>1
<1>4. FileTypes
  BY <1>1, <1>2, <1>3, MessagesAssumption DEF FileTypes, R!TypeOK
<1> QED
  BY <1>1, <1>4 DEF FileIInv, Ranges, Refused, Unanswered, Served

\* Size and write time of the file.
LEMMA FileStats == ASSUME FileIInv, R!Stat PROVE FileIInv'
<1>0. FileTypes /\ Ranges /\ Refused /\ Unanswered /\ Served
  BY DEF FileIInv
<1>1. /\ at = "stat" /\ at' \in {"parse", "done"}
      /\ UNCHANGED <<size, header, specs, cached, ranges, rejected, status, length, index, rstep,
                     pos, fpos, out>>
  BY DEF R!Stat, R!request
<1>2. FileTypes'
  BY <1>0, <1>1 DEF FileTypes, R!TypeOK
<1>3. ranges = <<>> /\ index - 1 = 0 /\ status = 404
  BY <1>0, <1>1 DEF Ranges, Unanswered
<1>4. Parsed(0)'
  BY <1>1, <1>3 DEF Parsed
<1>5. Ranges'
  BY <1>0, <1>1, <1>3, <1>4 DEF Ranges
<1>6. Refused'
  BY <1>0, <1>1 DEF Refused, R!Unreadable, R!Unsatisfiable, R!First, R!LastGiven
<1>7. Unanswered' /\ Served'
  BY <1>0, <1>1, <1>3 DEF Unanswered, Served, Announced
<1> QED
  BY <1>2, <1>5, <1>6, <1>7 DEF FileIInv

\* A header that is no list.
LEMMA FileParsesTrivial == ASSUME FileIInv, R!ParseTrivial PROVE FileIInv'
<1>0. FileTypes /\ Ranges /\ Refused /\ Unanswered /\ Served
  BY DEF FileIInv
<1>1. /\ at = "parse" /\ header # "list"
      /\ ranges' = IF header = "-" THEN << <<0, size - 1>> >> ELSE <<>>
      /\ at' = IF header = "malformed" THEN "unsatisfiable" ELSE "head"
      /\ UNCHANGED <<size, header, specs, cached, rejected, status, length, index, rstep,
                     pos, fpos, out>>
  BY DEF R!ParseTrivial, R!request
<1>2. at' \in {"unsatisfiable", "head"}
  BY <1>1
<1>3. FileTypes'
  <2>1. size \in Nat
    BY <1>0, MessagesAssumption DEF FileTypes, R!TypeOK
  <2>2. << <<0, size - 1>> >> \in Seq(Int \X Int) /\ <<>> \in Seq(Int \X Int)
    BY <2>1
  <2>3. ranges' \in Seq(Int \X Int)
    BY <1>1, <2>2
  <2> HIDE DEF FileIInv
  <2> QED
    BY <1>0, <1>1, <1>2, <2>3 DEF FileTypes, R!TypeOK
<1>4. Ranges'
  BY <1>1, <1>2 DEF Ranges
<1>6. Refused'
  BY <1>0, <1>1 DEF Refused, R!Unreadable, R!Unsatisfiable, R!First, R!LastGiven
<1>7. Unanswered' /\ Served'
  BY <1>0, <1>1, <1>2 DEF Unanswered, Served
<1> QED
  BY <1>3, <1>4, <1>6, <1>7 DEF FileIInv

\* One element of the list.
LEMMA FileParsesRange == ASSUME FileIInv, R!ParseRange PROVE FileIInv'
<1>0. FileTypes /\ Ranges /\ Refused /\ Unanswered /\ Served
  BY DEF FileIInv
<1> DEFINE s == specs[index]
<1>1. /\ at = "parse" /\ header = "list"
      /\ UNCHANGED <<size, header, specs, cached, status, length, rstep, pos, fpos, out>>
      /\ IF R!Unreadable(s) \/ R!Unsatisfiable(s)
           THEN ranges' = <<>> /\ rejected' = index /\ at' = "unsatisfiable" /\ index' = 1
           ELSE /\ ranges' = Append(ranges, R!RangeOf(s))
                /\ at' = IF index = Len(specs) THEN "head" ELSE "parse"
                /\ index' = IF index = Len(specs) THEN 1 ELSE index + 1
                /\ rejected' = rejected
  BY DEF R!ParseRange, R!request
<1>2. /\ size \in Sizes /\ specs \in Seq(R!Specs) /\ Len(specs) \in Nat /\ Len(specs) > 0
      /\ DOMAIN specs = 1 .. Len(specs) /\ specs # <<>>
      /\ index \in 1 .. Len(specs) /\ Len(specs) <= MaxSpecs /\ ranges \in Seq(Int \X Int)
  <2>1. size \in Sizes /\ specs \in Seq(R!Specs) /\ specs # <<>> /\ Len(specs) <= MaxSpecs
        /\ ranges \in Seq(Int \X Int)
        /\ index \in 1 .. (IF specs = <<>> THEN 1 ELSE Len(specs))
    BY <1>0, <1>1 DEF FileTypes, R!TypeOK
  <2> QED
    BY <2>1, LenProperties, EmptySeq
<1>3. s \in R!Specs
  BY <1>2, ElementOfSeq
<1>4. Parsed(index - 1)
  BY <1>0, <1>1 DEF Ranges
<1>5. /\ \A e : R!Unreadable(e)' <=> R!Unreadable(e)
      /\ \A e : R!Unsatisfiable(e)' <=> R!Unsatisfiable(e)
      /\ \A e : R!RangeOf(e)' = R!RangeOf(e)
  BY <1>1 DEF R!Unreadable, R!Unsatisfiable, R!RangeOf, R!Clamped, R!First, R!LastGiven
<1>6. Unanswered' /\ Served' /\ at' \in {"unsatisfiable", "head", "parse"}
  <2>1. at' \in {"unsatisfiable", "head", "parse"}
    BY <1>1
  <2> QED
    BY <1>0, <1>1, <2>1 DEF Unanswered, Served
<1>7. CASE R!Unreadable(s) \/ R!Unsatisfiable(s)
  <2>1. ranges' = <<>> /\ rejected' = index /\ at' = "unsatisfiable" /\ index' = 1
    BY <1>1, <1>7
  <2>2. index' \in 1 .. (IF specs = <<>> THEN 1 ELSE Len(specs)) /\ rejected' \in 0 .. MaxSpecs
    BY <1>2, <2>1, MessagesAssumption
  <2>3. FileTypes'
    BY <1>0, <1>1, <2>1, <2>2 DEF FileTypes, R!TypeOK
  <2>4. Ranges'
    BY <1>1, <2>1 DEF Ranges
  <2>5. Refused'
    BY <1>1, <1>2, <1>5, <1>7, <2>1 DEF Refused
  <2> QED
    BY <1>6, <2>3, <2>4, <2>5 DEF FileIInv
<1>8. CASE ~(R!Unreadable(s) \/ R!Unsatisfiable(s))
  <2>1. /\ ranges' = Append(ranges, R!RangeOf(s)) /\ rejected' = rejected
        /\ at' = IF index = Len(specs) THEN "head" ELSE "parse"
        /\ index' = IF index = Len(specs) THEN 1 ELSE index + 1
    BY <1>1, <1>8
  <2> DEFINE x == R!RangeOf(s)
  <2>2. x \in Int \X Int
    BY <1>2, <1>3, RangeFacts
  <2> HIDE DEF x
  <2>3. /\ ranges' \in Seq(Int \X Int) /\ Len(ranges') = Len(ranges) + 1 /\ Len(ranges) \in Nat
        /\ \A i \in 1 .. Len(ranges) : ranges'[i] = ranges[i]
        /\ ranges'[Len(ranges) + 1] = x
    <3>1. ranges' = Append(ranges, x)
      BY <2>1 DEF x
    <3> QED
      BY <1>2, <2>2, <3>1, AppendedFacts
  <2>4. index' \in 1 .. (IF specs = <<>> THEN 1 ELSE Len(specs))
    <3>1. index' \in 1 .. Len(specs)
      <4>1. index \in 1 .. Len(specs) /\ Len(specs) \in Nat /\ Len(specs) > 0
        BY <1>2
      <4>2. CASE index = Len(specs)
        BY <2>1, <4>1, <4>2
      <4>3. CASE index # Len(specs)
        <5>1. index' = index + 1
          BY <2>1, <4>3
        <5> QED
          BY <4>1, <4>3, <5>1
      <4> QED
        BY <4>2, <4>3
    <3> QED
      BY <1>2, <3>1
  <2>5. FileTypes'
    BY <1>0, <1>1, <1>6, <2>1, <2>3, <2>4 DEF FileTypes, R!TypeOK
  <2>6. ASSUME NEW n, n = index PROVE Parsed(n)'
    <3>1. Len(ranges) = index - 1 /\ \A i \in 1 .. index - 1 :
            ranges[i] = R!RangeOf(specs[i]) /\ ~R!Unsatisfiable(specs[i])
      BY <1>4 DEF Parsed
    <3>2. Len(ranges') = index
      BY <1>2, <2>3, <3>1
    <3>3. ASSUME NEW i \in 1 .. index
          PROVE  ranges'[i] = R!RangeOf(specs[i]) /\ ~R!Unsatisfiable(specs[i])
      <4>1. CASE i \in 1 .. index - 1
        BY <2>3, <3>1, <4>1
      <4>2. CASE i = index
        <5>1. i = Len(ranges) + 1
          BY <1>2, <3>1, <4>2
        <5> QED
          BY <1>8, <2>3, <4>2, <5>1 DEF x
      <4> QED
        BY <1>2, <4>1, <4>2
    <3> QED
      BY <1>1, <1>5, <2>6, <3>2, <3>3 DEF Parsed
  <2>7. Ranges'
    <3>1. PICK n \in 1 .. Len(specs) : n = index /\ Parsed(n)'
      BY <1>2, <2>6
    <3>2. CASE index = Len(specs)
      <4>1. at' = "head" /\ specs' = specs /\ header' = "list" /\ Parsed(Len(specs))'
        BY <1>1, <2>1, <3>1, <3>2
      <4> QED
        BY <4>1 DEF Ranges
    <3>3. CASE index # Len(specs)
      <4>0. at' = "parse" /\ header' = "list" /\ index' = index + 1 /\ n = index
        BY <1>1, <2>1, <3>1, <3>3
      <4>1. at' = "parse" /\ header' = "list" /\ index' - 1 = n
        BY <1>2, <4>0
      <4>2. Parsed(index - 1)'
        BY <3>1, <4>1
      <4> QED
        BY <4>1, <4>2 DEF Ranges
    <3> QED
      BY <3>2, <3>3
  <2>8. Refused'
    BY <1>0, <1>1, <1>5, <2>1 DEF Refused
  <2> QED
    BY <1>6, <2>5, <2>7, <2>8 DEF FileIInv
<1> QED
  BY <1>7, <1>8

\* What does not change while a response is written.
LEMMA FileKeeps ==
  ASSUME UNCHANGED <<size, header, specs, ranges>>
  PROVE  /\ \A n : Parsed(n)' <=> Parsed(n)
         /\ R!Whole' = R!Whole /\ (R!Fits' <=> R!Fits)
         /\ rejected' = rejected /\ Refused => Refused'
<1>1. /\ \A e : R!Unreadable(e)' <=> R!Unreadable(e)
      /\ \A e : R!Unsatisfiable(e)' <=> R!Unsatisfiable(e)
      /\ \A e : R!RangeOf(e)' = R!RangeOf(e)
  BY DEF R!Unreadable, R!Unsatisfiable, R!RangeOf, R!Clamped, R!First, R!LastGiven
<1>2. \A n : Parsed(n)' <=> Parsed(n)
  BY <1>1 DEF Parsed
<1>3. R!Whole' = R!Whole /\ (R!Fits' <=> R!Fits)
  BY DEF R!Whole, R!Fits
<1>4. rejected' = rejected /\ Refused => Refused'
  BY <1>1 DEF Refused
<1> QED
  BY <1>2, <1>3, <1>4

\* An answer without a body: 416, 304, or the 404 that was there.
LEMMA FileAnswersShort ==
  ASSUME FileIInv, R!NotSatisfiable \/ R!NotModified \/ R!OpenFails
  PROVE  FileIInv'
<1>0. FileTypes /\ Ranges /\ Refused /\ Unanswered /\ Served
  BY DEF FileIInv
<1>1. /\ at \in {"unsatisfiable", "head"} /\ at' = "done"
      /\ \/ status' = 416 /\ length' = 0
         \/ status' = 304 /\ length' = 0
         \/ status' = status /\ length' = length
      /\ UNCHANGED <<size, header, specs, cached, ranges, rejected, index, rstep, pos, fpos, out>>
  BY DEF R!NotSatisfiable, R!NotModified, R!OpenFails, R!request
<1>2. status = 404
  BY <1>0, <1>1 DEF Unanswered
<1>3. status' \in {416, 304, 404} /\ length' \in Int
  <2>1. length \in Int
    BY <1>0 DEF FileTypes, R!TypeOK
  <2> QED
    BY <1>1, <1>2, <2>1
<1>4. FileTypes'
  BY <1>0, <1>1, <1>3 DEF FileTypes, R!TypeOK
<1>5. Ranges'
  BY <1>0, <1>1, FileKeeps DEF Ranges
<1>6. Refused'
  BY <1>0, <1>1, FileKeeps
<1>7. Unanswered' /\ Served'
  BY <1>1, <1>3 DEF Unanswered, Served, Announced
<1> QED
  BY <1>4, <1>5, <1>6, <1>7 DEF FileIInv

\* The one range that is served lies within the file.
LEMMA WholeFacts ==
  ASSUME FileTypes, Ranges, at \in {"head", "write", "done", "failed"}, Len(ranges) < 2
  PROVE  /\ R!Whole \in Int \X Int /\ size \in Nat
         /\ R!Fits /\ size > 0 => R!Whole[1] \in 0 .. size /\ R!Whole[2] \in 0 .. size
         /\ ranges = <<>> => R!Whole = <<0, size>>
         /\ ranges # <<>> =>
              Len(ranges) = 1 /\ ranges[1] \in Int \X Int /\ R!Whole = <<ranges[1][1], ranges[1][2] + 1>>
<1>0. size \in Nat /\ size \in Sizes /\ ranges \in Seq(Int \X Int) /\ specs \in Seq(R!Specs)
  BY MessagesAssumption DEF FileTypes, R!TypeOK
<1>1. CASE ranges = <<>>
  BY <1>0, <1>1 DEF R!Whole
<1>2. CASE ranges # <<>>
  <2> DEFINE S == Int \X Int
  <2>0. ranges \in Seq(S)
    BY <1>0
  <2> HIDE DEF S
  <2>1. Len(ranges) = 1
    <3>1. Len(ranges) \in Nat /\ Len(ranges) # 0
      BY <1>2, <2>0, LenProperties, EmptySeq
    <3>2. \A n \in Nat : n # 0 /\ n < 2 => n = 1
      OBVIOUS
    <3> QED
      BY <3>1, <3>2, Zenon
  <2>2. ranges[1] \in Int \X Int
    <3>1. ranges[1] \in S
      BY <2>0, <2>1, ElementOfSeq
    <3> QED
      BY <3>1 DEF S
  <2>3. R!Whole = <<ranges[1][1], ranges[1][2] + 1>>
    BY <1>2 DEF R!Whole
  <2>4. ASSUME R!Fits, size > 0
        PROVE  ranges[1][1] \in 0 .. size /\ ranges[1][2] \in 0 .. size - 1
    <3>1. CASE header # "list"
      <4>1. ranges[1] = <<0, size - 1>>
        BY <1>2, <3>1 DEF Ranges
      <4> QED
        BY <1>0, <2>4, <4>1
    <3>2. CASE header = "list"
      <4>1. Parsed(Len(specs))
        BY <1>2, <3>2 DEF Ranges
      <4>2. Len(specs) = 1 /\ 1 \in 1 .. Len(specs)
        BY <2>1, <4>1 DEF Parsed
      <4>3. ranges[1] = R!RangeOf(specs[1]) /\ ~R!Unsatisfiable(specs[1])
        BY <4>1, <4>2 DEF Parsed
      <4>4. specs[1] \in R!Specs
        BY <1>0, <4>2, ElementOfSeq
      <4> QED
        BY <1>0, <2>4, <4>3, <4>4, RangeFacts
    <3> QED
      BY <3>1, <3>2
  <2> DEFINE x == ranges[1][1]
             y == ranges[1][2]
  <2>5. x \in Int /\ y \in Int /\ y + 1 \in Int /\ R!Whole[1] = x /\ R!Whole[2] = y + 1
    BY <2>2, <2>3
  <2>6. R!Whole \in Int \X Int
    BY <2>3, <2>5
  <2>7. ASSUME R!Fits, size > 0 PROVE R!Whole[1] \in 0 .. size /\ R!Whole[2] \in 0 .. size
    <3>1. x \in 0 .. size /\ y \in 0 .. size - 1
      BY <2>4, <2>7
    <3> HIDE DEF x, y
    <3> QED
      BY <1>0, <2>5, <3>1
  <2> QED
    BY <1>0, <1>2, <2>1, <2>2, <2>3, <2>6, <2>7
<1> QED
  BY <1>1, <1>2

\* The header of the response with the file, or with one of its ranges.
LEMMA FileSetsContent == ASSUME FileIInv, R!SetFileContent PROVE FileIInv'
<1>0. FileTypes /\ Ranges /\ Refused /\ Unanswered /\ Served
  BY DEF FileIInv
<1>1. /\ at = "head" /\ at' = "write"
      /\ status' = IF ranges = <<>> THEN 200 ELSE 206
      /\ length' = CASE Len(ranges) = 0 -> size
                     [] Len(ranges) = 1 -> ranges[1][2] + 1 - ranges[1][1]
                     [] OTHER           -> -1
      /\ UNCHANGED <<size, header, specs, cached, ranges, rejected, index, rstep, pos, fpos, out>>
  BY DEF R!SetFileContent, R!request
<1>2. status' \in {200, 206}
  BY <1>1
<1>3. ranges \in Seq(Int \X Int) /\ size \in Nat /\ Len(ranges) \in Nat
  BY <1>0, MessagesAssumption, LenProperties DEF FileTypes, R!TypeOK
<1>4. Len(ranges) < 2 => length' = R!Whole[2] - R!Whole[1] /\ length' \in Int
  <2>1. CASE ranges = <<>>
    <3>1. Len(ranges) = 0 /\ R!Whole = <<0, size>>
      BY <1>0, <1>1, <2>1, WholeFacts
    <3>2. length' = size
      BY <1>1, <3>1
    <3> QED
      BY <1>3, <3>1, <3>2
  <2>2. CASE ranges # <<>> /\ Len(ranges) < 2
    <3>1. Len(ranges) = 1 /\ ranges[1] \in Int \X Int
          /\ R!Whole = <<ranges[1][1], ranges[1][2] + 1>>
      BY <1>0, <1>1, <2>2, WholeFacts
    <3>2. length' = ranges[1][2] + 1 - ranges[1][1]
      BY <1>1, <3>1
    <3> QED
      BY <3>1, <3>2
  <2> QED
    BY <2>1, <2>2
<1>5. length' \in Int
  <2>1. CASE ~(Len(ranges) < 2)
    <3>1. Len(ranges) # 0 /\ Len(ranges) # 1
      BY <2>1
    <3>2. length' = -1
      BY <1>1, <3>1
    <3> QED
      BY <3>2
  <2> QED
    BY <1>4, <2>1
<1>6. FileTypes'
  BY <1>0, <1>1, <1>2, <1>5 DEF FileTypes, R!TypeOK
<1>7. Ranges'
  BY <1>0, <1>1, FileKeeps DEF Ranges
<1>8. Refused'
  BY <1>0, <1>1, FileKeeps
<1>9. Unanswered' /\ pos = -1 /\ fpos = 0 /\ out = <<>>
  BY <1>0, <1>1, <1>2 DEF Unanswered
<1>10. Served'
  <2>1. R!Whole' = R!Whole
    BY <1>1, FileKeeps
  <2>2. \A lo, hi : Place(lo, hi)'
    BY <1>1, <1>9 DEF Place
  <2>3. Len(ranges') < 2 => length' = (R!Whole[2] - R!Whole[1])'
    BY <1>1, <1>4, <2>1
  <2>4. DOMAIN out' = {}
    BY <1>1, <1>9
  <2> QED
    BY <1>1, <2>2, <2>3, <2>4 DEF Served, Announced
<1> QED
  BY <1>6, <1>7, <1>8, <1>9, <1>10 DEF FileIInv

\* The smaller of two numbers.
LEMMA LeastOfTwo == ASSUME NEW x \in Int, NEW y \in Int PROVE R!Min({x, y}) = IF x <= y THEN x ELSE y
  BY DEF R!Min

\* The greater of two numbers.
LEMMA GreatestOfTwo == ASSUME NEW x \in Int, NEW y \in Int PROVE R!Max({x, y}) = IF x >= y THEN x ELSE y
  BY DEF R!Max

\* How much one call of get() asks for and gets.
LEMMA BufferFacts ==
  ASSUME NEW r \in Int \X Int, NEW end \in Int, size \in Nat, pos \in Int, fpos \in Int
  PROVE  /\ R!Begin(r) \in Int /\ R!Seek(r) \in Int
         /\ R!ToRead(r, end) \in Nat /\ R!Got(r, end) \in 0 .. R!ToRead(r, end)
         /\ R!Got(r, end) > 0 => R!Seek(r) >= 0
         /\ R!Begin(r) <= end /\ end <= size /\ R!Seek(r) = R!Begin(r) /\ fpos >= 0 /\ R!Begin(r) >= 0 =>
              /\ R!Got(r, end) = R!ToRead(r, end) /\ R!ToRead(r, end) <= end - R!Begin(r)
              /\ R!ToRead(r, end) = 0 => R!Begin(r) = end
<1> DEFINE b == R!Begin(r)
           k == R!Seek(r)
           n == R!ToRead(r, end)
           g == R!Got(r, end)
           m == R!Max({size - k, 0})
<1>0. r[1] \in Int /\ BufSize \in Nat /\ BufSize > 0
  BY MessagesAssumption
<1>1. b \in Int /\ k \in Int
  BY <1>0 DEF R!Begin, R!Seek
<1>2. n = IF end < b THEN BufSize ELSE R!Min({BufSize, end - b})
  BY DEF R!ToRead
<1>3. g = IF k < 0 \/ fpos < 0 THEN 0 ELSE R!Min({n, m})
  BY DEF R!Got
<1> HIDE DEF b, k, n, g
<1>4. end - b \in Int /\ size - k \in Int
  BY <1>1
<1>5. n = IF end < b \/ BufSize <= end - b THEN BufSize ELSE end - b
  BY <1>0, <1>1, <1>2, <1>4, LeastOfTwo
<1>6. m = IF size - k >= 0 THEN size - k ELSE 0
  BY <1>4, GreatestOfTwo
<1> HIDE DEF m
<1>7. n \in Nat /\ m \in Nat
  BY <1>0, <1>1, <1>4, <1>5, <1>6
<1>8. g = IF k < 0 \/ fpos < 0 THEN 0 ELSE IF n <= m THEN n ELSE m
  BY <1>3, <1>7, LeastOfTwo
<1>9. g \in 0 .. n /\ (g > 0 => k >= 0)
  BY <1>1, <1>7, <1>8
<1>10. ASSUME b <= end, end <= size, k = b, fpos >= 0, b >= 0
       PROVE  g = n /\ n <= end - b /\ (n = 0 => b = end)
  <2>1. n <= end - b /\ (n = 0 => b = end)
    BY <1>0, <1>1, <1>5, <1>10
  <2>2. n <= m
    BY <1>1, <1>6, <1>7, <1>10, <2>1
  <2> QED
    BY <1>1, <1>8, <1>10, <2>1, <2>2
<1> QED
  BY <1>1, <1>7, <1>9, <1>10 DEF b, k, n, g

\* What one call of get() does to the output and to the position.
LEMMA BufferRead ==
  ASSUME NEW r \in Int \X Int, NEW end \in Int, size \in Nat, pos \in Int, fpos \in Int,
         out \in Seq(Nat), R!ReadBuffer(r, end)
  PROVE  /\ out' \in Seq(Nat) /\ Len(out) \in Nat /\ Len(out') = Len(out) + R!Got(r, end)
         /\ \A i \in 1 .. Len(out) : out'[i] = out[i]
         /\ \A i \in 1 .. R!Got(r, end) : out'[Len(out) + i] = R!Seek(r) + i - 1
         /\ pos' = R!Begin(r) + R!Got(r, end) /\ pos' \in Int /\ fpos' \in Int
         /\ R!Got(r, end) = R!ToRead(r, end) => fpos' = R!Seek(r) + R!Got(r, end)
<1> DEFINE b == R!Begin(r)
           k == R!Seek(r)
           n == R!ToRead(r, end)
           g == R!Got(r, end)
           q == [i \in 1 .. g |-> k + i - 1]
<1>1. /\ b \in Int /\ k \in Int /\ n \in Nat /\ g \in 0 .. n /\ (g > 0 => k >= 0)
  BY BufferFacts
<1>2. /\ out' = out \o q /\ pos' = b + g
      /\ fpos' = IF g < n THEN -1 ELSE k + g
  BY DEF R!ReadBuffer
<1> HIDE DEF b, k, n, g
<1>3. q \in Seq(Nat) /\ Len(q) = g /\ \A i \in 1 .. g : q[i] = k + i - 1
  <2>1. g \in Nat
    BY <1>1
  <2>2. ASSUME NEW i \in 1 .. g PROVE k + i - 1 \in Nat
    BY <1>1
  <2>3. q \in [1 .. g -> Nat]
    BY <2>2
  <2>4. q \in Seq(Nat)
    BY <2>1, <2>3, SeqDef
  <2> QED
    BY <2>1, <2>3, <2>4, LenProperties
<1> HIDE DEF q
<1>4. /\ out' \in Seq(Nat) /\ Len(out') = Len(out) + Len(q) /\ Len(out) \in Nat
      /\ \A i \in 1 .. Len(out) + Len(q) :
           out'[i] = IF i <= Len(out) THEN out[i] ELSE q[i - Len(out)]
  BY <1>2, <1>3, ConcatProperties, LenProperties
<1>5. ASSUME NEW i \in 1 .. Len(out) PROVE out'[i] = out[i]
  <2>1. i \in 1 .. Len(out) + Len(q) /\ i <= Len(out)
    BY <1>1, <1>3, <1>4
  <2> QED
    BY <1>4, <2>1
<1>6. ASSUME NEW i \in 1 .. g PROVE out'[Len(out) + i] = k + i - 1
  <2>1. Len(out) + i \in 1 .. Len(out) + Len(q) /\ ~(Len(out) + i <= Len(out))
        /\ (Len(out) + i) - Len(out) = i
    BY <1>1, <1>3, <1>4, SMTT(25)
  <2> QED
    BY <1>3, <1>4, <2>1
<1>7. pos' \in Int /\ fpos' \in Int /\ (g = n => fpos' = k + g)
  BY <1>1, <1>2
<1> QED
  BY <1>2, <1>3, <1>4, <1>5, <1>6, <1>7 DEF b, k, n, g

\* A buffer of the whole file or of its one range.
LEMMA FileWritesSingle == ASSUME FileIInv, R!WriteSingle PROVE FileIInv'
<1>0. FileTypes /\ Ranges /\ Refused /\ Unanswered /\ Served
  BY DEF FileIInv
<1> DEFINE r   == R!Whole
           lo  == R!Whole[1]
           end == R!Whole[2]
           n   == R!ToRead(r, end)
           g   == R!Got(r, end)
<1>1. /\ at = "write" /\ Len(ranges) < 2
      /\ UNCHANGED <<size, header, specs, cached, ranges, rejected, status, length, index, rstep>>
      /\ IF n = 0 THEN at' = "done" /\ UNCHANGED <<pos, fpos, out>>
         ELSE IF g = 0 THEN at' = "failed" /\ UNCHANGED <<pos, fpos, out>>
         ELSE /\ R!ReadBuffer(r, end)
              /\ at' = IF pos' < end THEN "write" ELSE "done"
  BY DEF R!WriteSingle, R!request
<1>2. /\ size \in Nat /\ pos \in Int /\ fpos \in Int /\ out \in Seq(Nat)
  BY <1>0, MessagesAssumption DEF FileTypes, R!TypeOK
<1>3. /\ r \in Int \X Int /\ lo \in Int /\ end \in Int
      /\ R!Fits /\ size > 0 => lo \in 0 .. size /\ end \in 0 .. size
  BY <1>0, <1>1, WholeFacts
<1>4. /\ R!Begin(r) \in Int /\ R!Seek(r) \in Int /\ n \in Nat /\ g \in 0 .. n
      /\ R!Begin(r) <= end /\ end <= size /\ R!Seek(r) = R!Begin(r) /\ fpos >= 0 /\ R!Begin(r) >= 0 =>
           g = n /\ n <= end - R!Begin(r) /\ (n = 0 => R!Begin(r) = end)
  BY <1>2, <1>3, BufferFacts
<1>5. at' \in {"write", "done", "failed"} /\ pos' \in Int /\ fpos' \in Int /\ out' \in Seq(Nat)
  <2>1. CASE n = 0 \/ g = 0
    BY <1>1, <1>2, <2>1
  <2>2. CASE n # 0 /\ g # 0
    <3>1. R!ReadBuffer(r, end) /\ at' \in {"write", "done"}
      BY <1>1, <2>2
    <3> QED
      BY <1>2, <1>3, <3>1, BufferRead
  <2> QED
    BY <2>1, <2>2
<1>6. FileTypes'
  BY <1>0, <1>1, <1>5 DEF FileTypes, R!TypeOK
<1>7. Ranges'
  BY <1>0, <1>1, <1>5, FileKeeps DEF Ranges
<1>8. Refused' /\ Unanswered'
  BY <1>0, <1>1, <1>5, FileKeeps DEF Unanswered
<1>9. ASSUME Announced' PROVE Served'
  <2>1. R!Whole' = R!Whole /\ (R!Fits' <=> R!Fits)
    BY <1>1, FileKeeps
  <2>2. Announced /\ R!Fits /\ size > 0 /\ lo <= end
    BY <1>1, <1>9, <2>1 DEF Announced
  <2>3. /\ length = end - lo /\ Place(lo, end)
        /\ \A i \in DOMAIN out : out[i] = lo + i - 1
    BY <1>0, <1>1, <2>2 DEF Served
  <2>4. Len(out) \in Nat /\ DOMAIN out = 1 .. Len(out) /\ (out = <<>> => Len(out) = 0)
    BY <1>2, LenProperties
  <2>5. lo \in 0 .. size /\ end \in 0 .. size /\ lo <= end
    BY <1>3, <2>2
  <2> HIDE DEF lo, end, n, g, r
  <2>6. /\ R!Begin(r) = lo + Len(out) /\ R!Seek(r) = R!Begin(r) /\ fpos >= 0
        /\ R!Begin(r) <= end /\ R!Begin(r) >= 0
    <3>1. r[1] = lo
      BY DEF r, lo
    <3>2. CASE pos = -1 /\ fpos = 0 /\ out = <<>>
      BY <1>2, <2>4, <2>5, <3>1, <3>2 DEF R!Begin, R!Seek
    <3>3. CASE pos = lo + Len(out) /\ fpos = pos /\ pos <= end
      <4>1. pos # -1 /\ pos >= 0
        BY <2>4, <2>5, <3>3
      <4> QED
        BY <2>4, <2>5, <3>3, <4>1 DEF R!Begin, R!Seek
    <3> QED
      BY <2>3, <3>2, <3>3 DEF Place
  <2>7. g = n /\ n <= end - R!Begin(r) /\ (n = 0 => R!Begin(r) = end)
    BY <1>2, <1>4, <2>5, <2>6
  <2>8. CASE n = 0
    <3>1. at' = "done" /\ UNCHANGED <<pos, fpos, out>> /\ lo + Len(out) = end
      BY <1>1, <2>6, <2>7, <2>8
    <3>2. Place(lo, end) /\ at = "write"
      BY <1>1, <2>3
    <3>3. \/ pos' = -1 /\ fpos' = 0 /\ out' = <<>> /\ lo = end
          \/ pos' = lo + Len(out') /\ fpos' = pos' /\ pos' <= end /\ pos' = end
      <4>1. CASE pos = -1 /\ fpos = 0 /\ out = <<>>
        BY <2>4, <2>5, <3>1, <4>1
      <4>2. CASE pos = lo + Len(out) /\ fpos = pos /\ pos <= end
        BY <3>1, <4>2
      <4> QED
        BY <3>2, <4>1, <4>2 DEF Place
    <3>4. ASSUME NEW u, NEW v, u = lo, v = end PROVE Place(u, v)'
      BY <3>3, <3>4 DEF Place
    <3>5. Place(R!Whole[1], R!Whole[2])'
      BY <2>1, <3>4 DEF lo, end
    <3>6. length' = (R!Whole[2] - R!Whole[1])' /\ \A i \in DOMAIN out' : out'[i] = (R!Whole[1])' + i - 1
      BY <1>1, <2>1, <2>3, <3>1 DEF lo, end
    <3> QED
      BY <3>1, <3>5, <3>6 DEF Served
  <2>9. CASE n # 0
    <3>0. R!ReadBuffer(r, end) /\ at' = IF pos' < end THEN "write" ELSE "done"
      BY <1>1, <2>7, <2>9
    <3>1. /\ Len(out') = Len(out) + g
          /\ \A i \in 1 .. Len(out) : out'[i] = out[i]
          /\ \A i \in 1 .. g : out'[Len(out) + i] = R!Seek(r) + i - 1
          /\ pos' = R!Begin(r) + g /\ fpos' = R!Seek(r) + g /\ out' \in Seq(Nat)
      BY <1>2, <1>3, <2>7, <3>0, BufferRead DEF r, end, n, g
    <3>2. pos' = lo + Len(out') /\ fpos' = pos' /\ pos' <= end /\ (~(pos' < end) => pos' = end)
      BY <1>3, <1>4, <2>4, <2>6, <2>7, <3>1
    <3>3. ASSUME NEW i \in 1 .. Len(out') PROVE out'[i] = lo + i - 1
      <4>1. CASE i \in 1 .. Len(out)
        BY <2>3, <2>4, <3>1, <4>1
      <4>2. CASE i \notin 1 .. Len(out)
        <5>1. i - Len(out) \in 1 .. g /\ Len(out) + (i - Len(out)) = i
          BY <1>4, <2>4, <3>1, <4>2
        <5>2. out'[i] = R!Seek(r) + (i - Len(out)) - 1
          BY <3>1, <5>1
        <5> QED
          BY <1>3, <1>4, <2>4, <2>6, <5>2
      <4> QED
        BY <4>1, <4>2
    <3>4. at' \in {"write", "done"} /\ (at' = "done" => pos' = end)
      BY <3>0, <3>2
    <3>5. ASSUME NEW u, NEW v, u = lo, v = end PROVE Place(u, v)'
      BY <3>2, <3>4, <3>5 DEF Place
    <3>6. Place(R!Whole[1], R!Whole[2])'
      BY <2>1, <3>5 DEF lo, end
    <3>7. length' = (R!Whole[2] - R!Whole[1])'
      BY <1>1, <2>1, <2>3 DEF lo, end
    <3>8. DOMAIN out' = 1 .. Len(out')
      BY <3>1, LenProperties
    <3>9. \A i \in DOMAIN out' : out'[i] = (R!Whole[1])' + i - 1
      BY <2>1, <3>3, <3>8 DEF lo
    <3> QED
      BY <3>4, <3>6, <3>7, <3>9 DEF Served
  <2> QED
    BY <2>8, <2>9
<1>10. Served'
  BY <1>9 DEF Served
<1> QED
  BY <1>6, <1>7, <1>8, <1>10 DEF FileIInv

\* A step of a response with several ranges.
LEMMA FileWritesPart ==
  ASSUME FileIInv, R!WritePartHeader \/ R!WritePartContent \/ R!WritePartEnd
  PROVE  FileIInv'
<1>0. FileTypes /\ Ranges /\ Refused /\ Unanswered /\ Served
  BY DEF FileIInv
<1>1. /\ at = "write" /\ Len(ranges) > 1
      /\ UNCHANGED <<size, header, specs, cached, ranges, rejected, status, length>>
  BY DEF R!WritePartHeader, R!WritePartContent, R!WritePartEnd, R!request
<1> DEFINE S == Int \X Int
<1>2. /\ size \in Nat /\ pos \in Int /\ fpos \in Int /\ out \in Seq(Nat)
      /\ ranges \in Seq(S) /\ specs \in Seq(R!Specs)
      /\ index \in 1 .. (IF specs = <<>> THEN 1 ELSE Len(specs))
  BY <1>0, MessagesAssumption DEF FileTypes, R!TypeOK
<1> HIDE DEF S
<1>3. Len(ranges) \in Nat /\ Len(specs) \in Nat
  BY <1>2, LenProperties
<1>4. Len(specs) = Len(ranges) /\ specs # <<>> /\ index \in 1 .. Len(ranges)
  <2>1. header = "list"
    <3>1. Len(<<>>) = 0 /\ Len(<< <<0, size - 1>> >>) = 1
      OBVIOUS
    <3>2. ranges # <<>> /\ ranges # << <<0, size - 1>> >>
      BY <1>1, <1>3, <3>1
    <3> QED
      BY <1>0, <3>2 DEF Ranges
  <2>2. Parsed(Len(specs))
    BY <1>0, <1>1, <2>1 DEF Ranges
  <2>3. Len(specs) = Len(ranges)
    BY <2>2 DEF Parsed
  <2>4. specs # <<>>
    BY <1>1, <1>3, <2>3
  <2> QED
    BY <1>2, <2>3, <2>4
<1> DEFINE r   == ranges[index]
           end == ranges[index][2]
<1>5. r \in Int \X Int /\ end \in Int
  <2>1. r \in S
    BY <1>2, <1>4, ElementOfSeq
  <2> QED
    BY <2>1 DEF S
<1>6. /\ index' \in 1 .. Len(ranges) /\ rstep' \in {"header", "content", "eof"}
      /\ at' \in {"write", "failed", "done"}
      /\ pos' \in Int /\ fpos' \in Int /\ out' \in Seq(Nat)
  <2>1. CASE R!WritePartHeader
    BY <1>1, <1>2, <1>4, <2>1 DEF R!WritePartHeader
  <2>2. CASE R!WritePartContent
    <3>1. /\ rstep = "content" /\ UNCHANGED <<index, rstep>>
          /\ \/ at' = "failed" /\ UNCHANGED <<pos, fpos, out>>
             \/ R!ReadBuffer(r, end) /\ at' = at
      BY <2>2 DEF R!WritePartContent
    <3>2. CASE at' = "failed" /\ UNCHANGED <<pos, fpos, out>>
      BY <1>2, <1>4, <3>1, <3>2
    <3>3. CASE R!ReadBuffer(r, end) /\ at' = at
      <4> HIDE DEF r, end
      <4>1. pos' \in Int /\ fpos' \in Int /\ out' \in Seq(Nat)
        BY <1>2, <1>5, <3>3, BufferRead
      <4> QED
        BY <1>1, <1>4, <3>1, <3>3, <4>1
    <3> QED
      BY <3>1, <3>2, <3>3
  <2>3. CASE R!WritePartEnd
    <3>1. /\ fpos' = IF pos = -1 /\ fpos >= 0 THEN R!Seek(r) ELSE fpos
          /\ UNCHANGED <<pos, out>>
          /\ \/ index = Len(ranges) /\ at' = "done" /\ rstep' = "eof" /\ index' = index
             \/ index # Len(ranges) /\ index' = index + 1 /\ rstep' = "header" /\ at' = at
      BY <2>3 DEF R!WritePartEnd
    <3>2. R!Seek(r) \in Int
      <4> HIDE DEF r, end
      <4> QED
        BY <1>2, <1>5, BufferFacts
    <3>3. fpos' \in Int
      BY <1>2, <3>1, <3>2
    <3>4. index' \in 1 .. Len(ranges)
      BY <1>3, <1>4, <3>1
    <3> QED
      BY <1>1, <1>2, <3>1, <3>3, <3>4
  <2> QED
    BY <2>1, <2>2, <2>3
<1>7. FileTypes'
  <2>1. index' \in 1 .. (IF specs' = <<>> THEN 1 ELSE Len(specs'))
    BY <1>1, <1>4, <1>6
  <2> QED
    BY <1>0, <1>1, <1>6, <2>1 DEF FileTypes, R!TypeOK
<1>8. Ranges'
  BY <1>0, <1>1, <1>6, FileKeeps DEF Ranges
<1>9. Refused' /\ Unanswered'
  BY <1>0, <1>1, <1>6, FileKeeps DEF Unanswered
<1>10. Served'
  <2>1. ~(Len(ranges') < 2)
    BY <1>1, <1>3
  <2> QED
    BY <2>1 DEF Served, Announced
<1> QED
  BY <1>7, <1>8, <1>9, <1>10 DEF FileIInv

\* Every step of the file keeps its invariant.
LEMMA FileStep == FileIInv /\ R!Next => FileIInv'
  BY FileStats, FileParsesTrivial, FileParsesRange, FileAnswersShort, FileSetsContent,
     FileWritesSingle, FileWritesPart DEF R!Next

\* The invariant says what the properties say.
LEMMA FileServes == FileIInv => R!ServesWhatItAnnounces /\ R!SatisfiableIsServed
<1> SUFFICES ASSUME FileIInv PROVE R!ServesWhatItAnnounces /\ R!SatisfiableIsServed
  OBVIOUS
<1>0. FileTypes /\ Ranges /\ Refused /\ Unanswered /\ Served
  BY DEF FileIInv
<1>1. /\ size \in Sizes /\ size \in Nat /\ out \in Seq(Nat) /\ specs \in Seq(R!Specs)
      /\ IntMax \in Nat
  BY <1>0, MessagesAssumption DEF FileTypes, R!TypeOK
<1>2. R!ServesWhatItAnnounces
  <2> SUFFICES ASSUME at \in {"done", "failed"}, Announced
               PROVE  /\ at = "done" /\ Len(out) = length
                      /\ \A i \in DOMAIN out : out[i] = R!Whole[1] + i - 1 /\ out[i] < size
    BY DEF R!ServesWhatItAnnounces, Announced
  <2> DEFINE lo == R!Whole[1]
             hi == R!Whole[2]
  <2>1. at = "done" /\ length = hi - lo /\ Place(lo, hi) /\ \A i \in DOMAIN out : out[i] = lo + i - 1
    BY <1>0 DEF Served
  <2>2. lo \in 0 .. size /\ hi \in 0 .. size
    BY <1>0, WholeFacts DEF Announced
  <2> HIDE DEF lo, hi
  <2>3. Len(out) \in Nat /\ DOMAIN out = 1 .. Len(out) /\ (out = <<>> => Len(out) = 0)
    BY <1>1, LenProperties
  <2>4. Len(out) = hi - lo
    <3>1. CASE out = <<>> /\ lo = hi
      BY <2>2, <2>3, <3>1
    <3>2. CASE pos = lo + Len(out) /\ pos = hi
      BY <2>2, <2>3, <3>2
    <3> QED
      BY <2>1, <3>1, <3>2 DEF Place
  <2>5. ASSUME NEW i \in 1 .. Len(out) PROVE lo + i - 1 < size
    BY <1>1, <2>2, <2>3, <2>4
  <2> QED
    BY <2>1, <2>3, <2>4, <2>5 DEF lo
<1>3. R!SatisfiableIsServed
  <2> SUFFICES ASSUME R!Fits
               PROVE  /\ rejected # 0 /\ R!Satisfiable(specs[rejected]) => specs[rejected].b > IntMax
                      /\ at = "head" /\ header = "list" =>
                           \A i \in DOMAIN specs : R!Satisfiable(specs[i]) =>
                             ranges[i] = <<specs[i].a, R!Min({specs[i].b, size - 1})>>
    BY DEF R!SatisfiableIsServed
  <2>1. ASSUME rejected # 0, R!Satisfiable(specs[rejected]) PROVE specs[rejected].b > IntMax
    <3> DEFINE s == specs[rejected]
    <3>1. s \in R!Specs /\ (R!Unreadable(s) \/ R!Unsatisfiable(s))
      BY <1>0, <1>1, <2>1, ElementOfSeq, LenProperties DEF Refused
    <3>2. s.a \in Nat /\ s.b \in Nat
      BY <3>1, SpecFacts
    <3>3. ~R!Unsatisfiable(s)
      BY <1>1, <2>1, <3>1, RangeFacts
    <3>4. s.form = "a-b" /\ s.a < s.b
      BY <2>1 DEF R!Satisfiable
    <3>5. R!Parts(s) = <<s.a, s.b>>
      BY <3>4 DEF R!Parts
    <3>6. PICK n \in R!Range(R!Parts(s)) : n > IntMax
      BY <3>1, <3>3 DEF R!Unreadable
    <3>7. n = s.a \/ n = s.b
      BY <3>5, <3>6 DEF R!Range
    <3> HIDE DEF s
    <3>8. s.b > IntMax
      BY <1>1, <3>2, <3>4, <3>6, <3>7
    <3> QED
      BY <3>8 DEF s
  <2>2. ASSUME at = "head", header = "list", NEW i \in DOMAIN specs, R!Satisfiable(specs[i])
        PROVE  ranges[i] = <<specs[i].a, R!Min({specs[i].b, size - 1})>>
    <3> DEFINE s == specs[i]
    <3>1. s \in R!Specs /\ i \in 1 .. Len(specs)
      BY <1>1, ElementOfSeq, LenProperties
    <3>2. ranges[i] = R!RangeOf(s)
      BY <1>0, <2>2, <3>1 DEF Ranges, Parsed
    <3>3. R!RangeOf(s) = <<s.a, IF s.b < size THEN s.b ELSE size - 1>>
      BY <1>1, <2>2, <3>1, RangeFacts
    <3>4. s.b \in Nat
      BY <3>1, SpecFacts
    <3>5. R!Min({s.b, size - 1}) = IF s.b < size THEN s.b ELSE size - 1
      <4> DEFINE b == s.b
      <4>1. b \in Int /\ size - 1 \in Int /\ (b <= size - 1 <=> b < size)
        BY <1>1, <3>4
      <4> HIDE DEF b
      <4>2. R!Min({b, size - 1}) = IF b <= size - 1 THEN b ELSE size - 1
        BY <4>1, LeastOfTwo
      <4> QED
        BY <4>1, <4>2 DEF b
    <3> QED
      BY <3>2, <3>3, <3>5
  <2> QED
    BY <2>1, <2>2
<1> QED
  BY <1>2, <1>3

\* A step of another part leaves the invariant.
LEMMA FileSame == ASSUME FileIInv, UNCHANGED fileVars PROVE FileIInv'
<1> USE DEF fileVars
<1>1. FileTypes'
  BY DEF FileIInv, FileTypes, R!TypeOK
<1>2. Ranges'
  BY DEF FileIInv, Ranges, Parsed, R!RangeOf, R!Clamped, R!First, R!LastGiven, R!Unsatisfiable
<1>3. Refused'
  BY DEF FileIInv, Refused, R!Unreadable, R!Unsatisfiable, R!First, R!LastGiven
<1>4. Unanswered'
  BY DEF FileIInv, Unanswered
<1>5. Served'
  BY DEF FileIInv, Served, Announced, Place, R!Whole, R!Fits
<1> QED
  BY <1>1, <1>2, <1>3, <1>4, <1>5 DEF FileIInv

\* Of every file and every Range header, the bytes written for the whole file or
\* for one range are those announced; a range of which two bytes exist is refused
\* only if int cannot hold its end, and nothing that exists of it is left out:
\* set_file_content, parse() and the writer of file_body together.
THEOREM FileIsServed == FairSpec => []ServesWhatItAnnounces
<1> DEFINE I == part = "file" => FileIInv
<1>1. Init => I
  BY FileInit DEF Init
<1>2. I /\ [Next]_vars => I'
  <2> SUFFICES ASSUME I, [Next]_vars, part' = "file" PROVE FileIInv'
    OBVIOUS
  <2>1. CASE InFile(R!Next)
    BY <2>1, FileStep DEF InFile
  <2>2. CASE InForm(F!Next) \/ InBody(B!Next) \/ InContent(C!Next)
    BY <2>2 DEF InForm, InBody, InContent
  <2>3. CASE UNCHANGED vars
    <3>1. part = "file" /\ UNCHANGED fileVars
      BY <2>3 DEF vars
    <3> QED
      BY <3>1, FileSame
  <2> QED
    BY <2>1, <2>2, <2>3 DEF Next
<1>3. I => ServesWhatItAnnounces
  BY FileServes DEF ServesWhatItAnnounces
<1> QED
  BY <1>1, <1>2, <1>3, PTL DEF FairSpec
-----------------------------------------------------------------------------
(* The form: its inductive invariant *)

Content(i) == form[i].content
Records == [name : Names, content : Seq(F!Chars)]

FormTypes == F!TypeOK /\ field \in Records

\* The character at place p of t is c, if t is that long.
At(t, p, c) == p <= Len(t) => t[p] = c

\* The lines of the i-th field, behind place s of t, as far as t goes.
Written(t, i, s) ==
  LET n == Len(Content(i))
  IN  /\ At(t, s + 1, "-") /\ At(t, s + 2, "-") /\ At(t, s + 3, "boundary")
      /\ At(t, s + 4, "cr") /\ At(t, s + 5, "lf") /\ At(t, s + 6, form[i].name)
      /\ At(t, s + 7, "cr") /\ At(t, s + 8, "lf") /\ At(t, s + 9, "cr") /\ At(t, s + 10, "lf")
      /\ \A j \in 1 .. n : At(t, s + 10 + j, Content(i)[j])
      /\ At(t, s + n + 11, "cr") /\ At(t, s + n + 12, "lf")
      /\ i = Len(form) => /\ At(t, s + n + 13, "-") /\ At(t, s + n + 14, "-")
                          /\ At(t, s + n + 15, "boundary") /\ At(t, s + n + 16, "-")

\* st says where the fields begin that the writer has begun.
Starts(st) ==
  /\ st \in [1 .. findex -> Nat] /\ st[1] = 0
  /\ \A i \in 1 .. findex - 1 :
       st[i + 1] = st[i] + Len(Content(i)) + 12 /\ st[i + 1] <= st[findex]

\* How far the writer is in the field it writes.
Progress ==
  CASE wstep = "header"      -> 0
    [] wstep = "content"     -> 10
    [] wstep = "content_end" -> Len(Content(findex)) + 10
    [] wstep = "eof"         -> Len(Content(findex)) + 19

Laid(st) ==
  /\ \A i \in 1 .. findex : Written(text, i, st[i])
  /\ Len(text) <= st[findex] + Progress
  /\ ~cut => Len(text) = st[findex] + Progress
  /\ wstep = "eof" => findex = Len(form)

\* What the reader has: n whole fields, and the beginning of the next.
Read(st) ==
  LET n == Len(fields)
  IN  /\ n <= findex /\ \A i \in 1 .. n : fields[i] = form[i]
      /\ fstep = "boundary_line" => taken = IF n = 0 THEN 0 ELSE st[n] + Len(Content(n)) + 12
      /\ fstep = "boundary_header" => n < findex /\ taken = st[n + 1] + 5
      /\ fstep = "boundary_content" =>
           /\ n < findex /\ taken = st[n + 1] + 10 + Len(field.content)
           /\ field.name = form[n + 1].name /\ Len(field.content) <= Len(Content(n + 1))
           /\ \A j \in 1 .. Len(field.content) : field.content[j] = Content(n + 1)[j]
      /\ fstep \in {"finished", "eof"} => n = Len(form)

Ended == outcome = "ok" => fstep = "eof"

FormIInv == FormTypes /\ Ended /\ \E st : Starts(st) /\ Laid(st) /\ Read(st)
-----------------------------------------------------------------------------
\* A prefix, character by character.
LEMMA PrefixFacts ==
  ASSUME NEW S, NEW s \in Seq(S), NEW t \in Seq(S)
  PROVE  F!IsPrefix(s, t) <=> Len(s) <= Len(t) /\ \A i \in 1 .. Len(s) : s[i] = t[i]
<1>1. Len(s) \in Nat /\ Len(t) \in Nat /\ (\A i \in 1 .. Len(s) : s[i] \in S)
      /\ (\A i \in 1 .. Len(t) : t[i] \in S)
  BY LenProperties, ElementOfSeq
<1>2. SubSeq(s, 1, Len(s)) = s
  BY SubSeqFull
<1>3. ASSUME Len(s) <= Len(t)
      PROVE  /\ SubSeq(t, 1, Len(s)) \in Seq(S) /\ Len(SubSeq(t, 1, Len(s))) = Len(s)
             /\ \A i \in 1 .. Len(s) : SubSeq(t, 1, Len(s))[i] = t[i]
  <2> DEFINE n == Len(s)
  <2>1. n \in 0 .. Len(t) /\ n \in Nat /\ (1 <= n \/ n = 0)
    BY <1>1, <1>3
  <2> HIDE DEF n
  <2>2. /\ SubSeq(t, 1, n) \in Seq(S) /\ Len(SubSeq(t, 1, n)) = n
        /\ \A i \in 1 .. n : SubSeq(t, 1, n)[i] = t[i]
    <3>1. \A i \in 1 .. n : t[i] \in S
      BY <1>1, <2>1
    <3> QED
      BY <1>1, <2>1, <3>1, SubSeqProperties
  <2> QED
    BY <2>2 DEF n
<1>4. ASSUME Len(s) <= Len(t)
      PROVE  s = SubSeq(t, 1, Len(s)) <=> \A i \in 1 .. Len(s) : s[i] = t[i]
  <2> DEFINE u == SubSeq(t, 1, Len(s))
  <2>1. u \in Seq(S) /\ Len(u) = Len(s) /\ \A i \in 1 .. Len(s) : u[i] = t[i]
    BY <1>3, <1>4
  <2> HIDE DEF u
  <2>2. ASSUME \A i \in 1 .. Len(s) : s[i] = t[i] PROVE s = u
    BY <2>1, <2>2, SeqEqual
  <2>3. s = u => \A i \in 1 .. Len(s) : s[i] = t[i]
    BY <2>1
  <2> QED
    BY <2>2, <2>3 DEF u
<1> QED
  BY <1>2, <1>4 DEF F!IsPrefix

Text == F!Chars \cup Names

\* The characters with a meaning, and where they come from.
LEMMA CharFacts ==
  /\ "x" \in F!Chars /\ "cr" \in F!Chars /\ "lf" \in F!Chars /\ "-" \in F!Chars
  /\ "boundary" \in F!Chars /\ F!Chars \subseteq Text /\ Names \subseteq Text
  BY DEF F!Chars, Text

\* Three characters and two.
LEMMA ThreeAndTwo ==
  ASSUME NEW a, NEW b, NEW c, NEW d, NEW e
  PROVE  <<a, b, c>> \o <<d, e>> = <<a, b, c, d, e>>
<1> DEFINE S == {a, b, c, d, e}
           p == <<a, b, c>>
           q == <<d, e>>
           t == <<a, b, c, d, e>>
           r == p \o q
<1>1. p \in Seq(S) /\ Len(p) = 3 /\ p[1] = a /\ p[2] = b /\ p[3] = c
  OBVIOUS
<1>2. q \in Seq(S) /\ Len(q) = 2 /\ q[1] = d /\ q[2] = e
  OBVIOUS
<1>3. t \in Seq(S) /\ Len(t) = 5 /\ t[1] = a /\ t[2] = b /\ t[3] = c /\ t[4] = d /\ t[5] = e
  OBVIOUS
<1> HIDE DEF S, p, q, t
<1>4. /\ r \in Seq(S) /\ Len(r) = Len(p) + Len(q)
      /\ \A i \in 1 .. Len(p) + Len(q) : r[i] = IF i <= Len(p) THEN p[i] ELSE q[i - Len(p)]
  BY <1>1, <1>2, ConcatProperties
<1> HIDE DEF r
<1>5. Len(r) = 5 /\ r[1] = p[1] /\ r[2] = p[2] /\ r[3] = p[3] /\ r[4] = q[1] /\ r[5] = q[2]
  BY <1>1, <1>2, <1>4
<1>6. \A i \in 1 .. Len(r) : r[i] = t[i]
  BY <1>1, <1>2, <1>3, <1>5
<1> QED
  BY <1>3, <1>4, <1>5, <1>6, SeqEqual DEF r, p, q, t

\* Two characters and three.
LEMMA TwoAndThree ==
  ASSUME NEW a, NEW b, NEW c, NEW d, NEW e
  PROVE  <<a, b>> \o <<c, d, e>> = <<a, b, c, d, e>>
<1> DEFINE S == {a, b, c, d, e}
           p == <<a, b>>
           q == <<c, d, e>>
           t == <<a, b, c, d, e>>
           r == p \o q
<1>1. p \in Seq(S) /\ Len(p) = 2 /\ p[1] = a /\ p[2] = b
  OBVIOUS
<1>2. q \in Seq(S) /\ Len(q) = 3 /\ q[1] = c /\ q[2] = d /\ q[3] = e
  OBVIOUS
<1>3. t \in Seq(S) /\ Len(t) = 5 /\ t[1] = a /\ t[2] = b /\ t[3] = c /\ t[4] = d /\ t[5] = e
  OBVIOUS
<1> HIDE DEF S, p, q, t
<1>4. /\ r \in Seq(S) /\ Len(r) = Len(p) + Len(q)
      /\ \A i \in 1 .. Len(p) + Len(q) : r[i] = IF i <= Len(p) THEN p[i] ELSE q[i - Len(p)]
  BY <1>1, <1>2, ConcatProperties
<1> HIDE DEF r
<1>5. Len(r) = 5 /\ r[1] = p[1] /\ r[2] = p[2] /\ r[3] = q[1] /\ r[4] = q[2] /\ r[5] = q[3]
  BY <1>1, <1>2, <1>4
<1>6. \A i \in 1 .. Len(r) : r[i] = t[i]
  BY <1>1, <1>2, <1>3, <1>5
<1> QED
  BY <1>3, <1>4, <1>5, <1>6, SeqEqual DEF r, p, q, t

\* Two characters and two.
LEMMA TwoAndTwo ==
  ASSUME NEW a, NEW b, NEW c, NEW d
  PROVE  <<a, b>> \o <<c, d>> = <<a, b, c, d>>
<1> DEFINE S == {a, b, c, d}
           p == <<a, b>>
           q == <<c, d>>
           t == <<a, b, c, d>>
           r == p \o q
<1>1. p \in Seq(S) /\ Len(p) = 2 /\ p[1] = a /\ p[2] = b
  OBVIOUS
<1>2. q \in Seq(S) /\ Len(q) = 2 /\ q[1] = c /\ q[2] = d
  OBVIOUS
<1>3. t \in Seq(S) /\ Len(t) = 4 /\ t[1] = a /\ t[2] = b /\ t[3] = c /\ t[4] = d
  OBVIOUS
<1> HIDE DEF S, p, q, t
<1>4. /\ r \in Seq(S) /\ Len(r) = Len(p) + Len(q)
      /\ \A i \in 1 .. Len(p) + Len(q) : r[i] = IF i <= Len(p) THEN p[i] ELSE q[i - Len(p)]
  BY <1>1, <1>2, ConcatProperties
<1> HIDE DEF r
<1>5. Len(r) = 4 /\ r[1] = p[1] /\ r[2] = p[2] /\ r[3] = q[1] /\ r[4] = q[2]
  BY <1>1, <1>2, <1>4
<1>6. \A i \in 1 .. Len(r) : r[i] = t[i]
  BY <1>1, <1>2, <1>3, <1>5
<1> QED
  BY <1>3, <1>4, <1>5, <1>6, SeqEqual DEF r, p, q, t

\* The lines the writer and the reader compare with.
LEMMA LineFacts ==
  /\ F!BoundaryLine = <<"-", "-", "boundary", "cr", "lf">>
  /\ F!BoundaryLineLast = <<"-", "-", "boundary", "-", "-">>
  /\ F!CRLF \o F!Boundary = <<"cr", "lf", "-", "-", "boundary">>
  /\ F!CRLF \o F!CRLF = <<"cr", "lf", "cr", "lf">>
<1>1. \A a, b, c, d, e : <<a, b, c>> \o <<d, e>> = <<a, b, c, d, e>>
  BY ThreeAndTwo
<1>2. \A a, b, c, d, e : <<a, b>> \o <<c, d, e>> = <<a, b, c, d, e>>
  BY TwoAndThree
<1>3. \A a, b, c, d : <<a, b>> \o <<c, d>> = <<a, b, c, d>>
  BY TwoAndTwo
<1>4. F!BoundaryLine = <<"-", "-", "boundary", "cr", "lf">>
  BY <1>1, Zenon DEF F!CRLF, F!Boundary, F!BoundaryLine
<1>5. F!BoundaryLineLast = <<"-", "-", "boundary", "-", "-">>
  BY <1>1, Zenon DEF F!Boundary, F!BoundaryLineLast
<1>6. F!CRLF \o F!Boundary = <<"cr", "lf", "-", "-", "boundary">>
  BY <1>2, Zenon DEF F!CRLF, F!Boundary
<1>7. F!CRLF \o F!CRLF = <<"cr", "lf", "cr", "lf">>
  BY <1>3, Zenon DEF F!CRLF
<1> QED
  BY <1>4, <1>5, <1>6, <1>7

\* Whether five characters come next.
LEMMA PrefixOfFive ==
  ASSUME NEW S, NEW s \in Seq(S), NEW t \in Seq(S)
  PROVE  Len(s) = 5 =>
           (F!IsPrefix(s, t) <=>
             /\ Len(t) >= 5
             /\ t[1] = s[1] /\ t[2] = s[2] /\ t[3] = s[3] /\ t[4] = s[4] /\ t[5] = s[5])
<1>1. Len(t) \in Nat
  BY LenProperties
<1>2. F!IsPrefix(s, t) <=> Len(s) <= Len(t) /\ \A i \in 1 .. Len(s) : s[i] = t[i]
  BY PrefixFacts
<1> HAVE Len(s) = 5
<1>3. 1 .. 5 = {1, 2, 3, 4, 5}
  OBVIOUS
<1>4. (\A i \in 1 .. Len(s) : s[i] = t[i]) <=>
        s[1] = t[1] /\ s[2] = t[2] /\ s[3] = t[3] /\ s[4] = t[4] /\ s[5] = t[5]
  BY <1>3
<1>5. Len(s) <= Len(t) <=> Len(t) >= 5
  BY <1>1
<1> QED
  BY <1>2, <1>4, <1>5

\* The lines the reader looks for, in what it is given.
LEMMA LineTests ==
  ASSUME NEW t \in Seq(Text), Len(t) >= 5
  PROVE  /\ F!IsPrefix(F!BoundaryLine, t) <=>
              t[1] = "-" /\ t[2] = "-" /\ t[3] = "boundary" /\ t[4] = "cr" /\ t[5] = "lf"
         /\ F!IsPrefix(F!BoundaryLineLast, t) <=>
              t[1] = "-" /\ t[2] = "-" /\ t[3] = "boundary" /\ t[4] = "-" /\ t[5] = "-"
         /\ F!IsPrefix(F!CRLF \o F!Boundary, t) <=>
              t[1] = "cr" /\ t[2] = "lf" /\ t[3] = "-" /\ t[4] = "-" /\ t[5] = "boundary"
<1>1. "-" \in Text /\ "boundary" \in Text /\ "cr" \in Text /\ "lf" \in Text
  BY CharFacts
<1>2. \A a, b, c, d, e \in Text : <<a, b, c, d, e>> \in Seq(Text)
  OBVIOUS
<1> DEFINE u == F!BoundaryLine
           v == F!BoundaryLineLast
           w == F!CRLF \o F!Boundary
<1>3. /\ u = <<"-", "-", "boundary", "cr", "lf">> /\ v = <<"-", "-", "boundary", "-", "-">>
      /\ w = <<"cr", "lf", "-", "-", "boundary">>
  BY LineFacts
<1> HIDE DEF u, v, w
<1>4. u \in Seq(Text) /\ v \in Seq(Text) /\ w \in Seq(Text)
  BY <1>1, <1>2, <1>3, Zenon
<1>5. Len(u) = 5 /\ u[1] = "-" /\ u[2] = "-" /\ u[3] = "boundary" /\ u[4] = "cr" /\ u[5] = "lf"
  BY <1>3
<1>6. Len(v) = 5 /\ v[1] = "-" /\ v[2] = "-" /\ v[3] = "boundary" /\ v[4] = "-" /\ v[5] = "-"
  BY <1>3
<1>7. Len(w) = 5 /\ w[1] = "cr" /\ w[2] = "lf" /\ w[3] = "-" /\ w[4] = "-" /\ w[5] = "boundary"
  BY <1>3
<1>8. \A s \in Seq(Text) :
        Len(s) = 5 => (F!IsPrefix(s, t) <=>
          t[1] = s[1] /\ t[2] = s[2] /\ t[3] = s[3] /\ t[4] = s[4] /\ t[5] = s[5])
  BY PrefixOfFive
<1>9. F!IsPrefix(u, t) <=>
        t[1] = "-" /\ t[2] = "-" /\ t[3] = "boundary" /\ t[4] = "cr" /\ t[5] = "lf"
  BY <1>4, <1>5, <1>8
<1>10. F!IsPrefix(v, t) <=>
         t[1] = "-" /\ t[2] = "-" /\ t[3] = "boundary" /\ t[4] = "-" /\ t[5] = "-"
  BY <1>4, <1>6, <1>8
<1>11. F!IsPrefix(w, t) <=>
         t[1] = "cr" /\ t[2] = "lf" /\ t[3] = "-" /\ t[4] = "-" /\ t[5] = "boundary"
  BY <1>4, <1>7, <1>8
<1> QED
  BY <1>9, <1>10, <1>11 DEF u, v, w

\* What put() is given: the text from where it has read to where it has come.
LEMMA DataFacts ==
  ASSUME F!TypeOK
  PROVE  /\ F!data \in Seq(Text) /\ Len(F!data) = come - taken
         /\ come \in Nat /\ taken \in Nat /\ taken <= come /\ come <= Len(text) /\ Len(text) \in Nat
         /\ \A j \in 1 .. come - taken : F!data[j] = text[taken + j] /\ F!data[j] \in Text
         /\ F!data # <<>> => Len(F!data) > 0 /\ Head(F!data) = F!data[1]
<1>1. text \in Seq(Text) /\ come \in 0 .. Len(text) /\ taken \in 0 .. come
  BY DEF F!TypeOK, Text
<1>2. Len(text) \in Nat /\ \A i \in 1 .. Len(text) : text[i] \in Text
  BY <1>1, LenProperties, ElementOfSeq
<1>3. come \in Nat /\ taken \in Nat /\ taken <= come /\ come <= Len(text)
  BY <1>1, <1>2
<1> DEFINE d == SubSeq(text, taken + 1, come)
<1>4. /\ d \in Seq(Text) /\ Len(d) = come - taken
      /\ \A j \in 1 .. come - taken : d[j] = text[taken + j]
  <2>1. \A i \in taken + 1 .. come : text[i] \in Text
    BY <1>2, <1>3
  <2>2. /\ d \in Seq(Text)
        /\ Len(d) = IF taken + 1 <= come THEN come - (taken + 1) + 1 ELSE 0
        /\ \A j \in 1 .. come - (taken + 1) + 1 : d[j] = text[taken + 1 + j - 1]
    BY <1>1, <1>2, <1>3, <2>1, SubSeqProperties
  <2> HIDE DEF d
  <2>3. Len(d) = come - taken
    BY <1>3, <2>2
  <2>4. ASSUME NEW j \in 1 .. come - taken PROVE d[j] = text[taken + j]
    <3>1. j \in 1 .. come - (taken + 1) + 1 /\ taken + 1 + j - 1 = taken + j
      BY <1>3
    <3> QED
      BY <2>2, <3>1
  <2> QED
    BY <2>2, <2>3, <2>4
<1>5. F!data = d
  BY DEF F!data
<1> HIDE DEF d
<1>6. \A j \in 1 .. come - taken : d[j] \in Text
  BY <1>4, ElementOfSeq
<1>7. d # <<>> => Len(d) > 0 /\ Head(d) = d[1]
  BY <1>4, EmptySeq, LenProperties, HeadTailProperties
<1> QED
  BY <1>2, <1>3, <1>4, <1>5, <1>6, <1>7

\* What put() needs, by the step it is at.
LEMMA PuttingFacts ==
  ASSUME F!TypeOK, F!Putting
  PROVE  /\ outcome = "reading" /\ F!data # <<>>
         /\ fstep = "boundary_line" => Len(F!data) >= 5
         /\ fstep = "boundary_header" => F!HeaderEnds # {}
         /\ fstep = "boundary_content" /\ Head(F!data) = "cr" => Len(F!data) >= 5
         /\ fstep = "finished" => Len(F!data) >= 2
<1>1. Len(F!data) \in Nat
  BY DataFacts
<1>2. Len(F!BoundaryLine) = 5 /\ Len(F!BoundaryLineLast) = 5 /\ Len(F!CRLF \o F!Boundary) = 5
  BY LineFacts
<1>3. F!Max({5, 5}) = 5
  BY DEF F!Max
<1>4. outcome = "reading" /\ ~F!NeedsMore
  BY DEF F!Putting
<1>5. /\ F!data # <<>>
      /\ ~(fstep = "boundary_line" /\ Len(F!data) < 5)
      /\ ~(fstep = "boundary_header" /\ F!HeaderEnds = {})
      /\ ~(fstep = "boundary_content" /\ Head(F!data) = "cr" /\ Len(F!data) < 5)
      /\ ~(fstep = "finished" /\ Len(F!data) < 2)
  BY <1>2, <1>3, <1>4 DEF F!NeedsMore
<1>6. \A k \in {5, 2} : ~(Len(F!data) < k) => Len(F!data) >= k
  BY <1>1
<1> QED
  BY <1>4, <1>5, <1>6

\* A field of a form.
LEMMA FieldFacts ==
  ASSUME F!TypeOK, NEW i \in 1 .. Len(form)
  PROVE  /\ form[i].name \in Names /\ Content(i) \in Seq(F!Chars) /\ Content(i) \in F!Contents
         /\ Len(Content(i)) \in Nat /\ \A j \in 1 .. Len(Content(i)) : Content(i)[j] \in F!Chars
         /\ form[i] \in Records /\ form[i] = [name |-> form[i].name, content |-> Content(i)]
<1>1. form[i] \in F!Fields
  BY ElementOfSeq DEF F!TypeOK
<1>2. form[i].name \in Names /\ Content(i) \in F!Contents
      /\ form[i] = [name |-> form[i].name, content |-> Content(i)]
  BY <1>1 DEF F!Fields, Content
<1> DEFINE c == Content(i)
<1>3. PICK n \in 0 .. MaxContent : c \in [1 .. n -> F!Chars]
  BY <1>2 DEF F!Contents
<1>4. n \in Nat
  BY MessagesAssumption
<1>5. c \in Seq(F!Chars)
  BY <1>3, <1>4, SeqDef
<1> HIDE DEF c
<1>6. Len(c) \in Nat /\ \A j \in 1 .. Len(c) : c[j] \in F!Chars
  BY <1>5, LenProperties, ElementOfSeq
<1>7. form[i] \in Records
  BY <1>2, <1>5 DEF Records, c
<1> QED
  BY <1>2, <1>5, <1>6, <1>7 DEF c

\* t2 goes on where t ends.
Longer(t, t2) == Len(t) <= Len(t2) /\ \A p \in 1 .. Len(t) : t2[p] = t[p]

\* What is written of a field before the last stays.
LEMMA KeptFacts ==
  ASSUME F!TypeOK, NEW i \in 1 .. Len(form), i # Len(form), NEW t \in Seq(Text), NEW t2 \in Seq(Text),
         Longer(t, t2), NEW s \in Nat, s + Len(Content(i)) + 12 <= Len(t), Written(t, i, s)
  PROVE  Written(t2, i, s)
<1> DEFINE n == Len(Content(i))
<1>1. n \in Nat /\ Len(t) \in Nat /\ s + n + 12 <= Len(t)
  BY FieldFacts, LenProperties
<1>2. ASSUME NEW p \in 1 .. Len(t), NEW c, At(t, p, c) PROVE At(t2, p, c)
  <2>1. p <= Len(t) /\ t2[p] = t[p]
    BY <1>1 DEF Longer
  <2> QED
    BY <1>2, <2>1 DEF At
<1>3. /\ s + 1 \in 1 .. Len(t) /\ s + 2 \in 1 .. Len(t) /\ s + 3 \in 1 .. Len(t)
      /\ s + 4 \in 1 .. Len(t) /\ s + 5 \in 1 .. Len(t) /\ s + 6 \in 1 .. Len(t)
      /\ s + 7 \in 1 .. Len(t) /\ s + 8 \in 1 .. Len(t) /\ s + 9 \in 1 .. Len(t)
      /\ s + 10 \in 1 .. Len(t) /\ s + n + 11 \in 1 .. Len(t) /\ s + n + 12 \in 1 .. Len(t)
      /\ \A j \in 1 .. n : s + 10 + j \in 1 .. Len(t)
  <2> HIDE DEF n
  <2> QED
    BY <1>1
<1> QED
  BY <1>2, <1>3 DEF Written

\* What is cut off leaves the rest as it was.
LEMMA CutFacts ==
  ASSUME NEW i, NEW t \in Seq(Text), NEW t2 \in Seq(Text), Longer(t2, t), NEW s \in Nat,
         Len(Content(i)) \in Nat, Written(t, i, s)
  PROVE  Written(t2, i, s)
<1> DEFINE n == Len(Content(i))
<1>1. Len(t) \in Nat /\ Len(t2) \in Nat /\ n \in Nat
  BY LenProperties
<1>2. ASSUME NEW p \in Nat, p > 0, NEW c, At(t, p, c) PROVE At(t2, p, c)
  <2> SUFFICES ASSUME p <= Len(t2) PROVE t2[p] = c
    BY DEF At
  <2>1. p \in 1 .. Len(t2) /\ p <= Len(t)
    BY <1>1, <1>2 DEF Longer
  <2> QED
    BY <1>2, <2>1 DEF At, Longer
<1>3. /\ s + 1 \in Nat /\ s + 1 > 0 /\ s + 2 \in Nat /\ s + 2 > 0 /\ s + 3 \in Nat /\ s + 3 > 0
      /\ s + 4 \in Nat /\ s + 4 > 0 /\ s + 5 \in Nat /\ s + 5 > 0 /\ s + 6 \in Nat /\ s + 6 > 0
      /\ s + 7 \in Nat /\ s + 7 > 0 /\ s + 8 \in Nat /\ s + 8 > 0 /\ s + 9 \in Nat /\ s + 9 > 0
      /\ s + 10 \in Nat /\ s + 10 > 0 /\ \A j \in 1 .. n : s + 10 + j \in Nat /\ s + 10 + j > 0
      /\ s + n + 11 \in Nat /\ s + n + 11 > 0 /\ s + n + 12 \in Nat /\ s + n + 12 > 0
      /\ s + n + 13 \in Nat /\ s + n + 13 > 0 /\ s + n + 14 \in Nat /\ s + n + 14 > 0
      /\ s + n + 15 \in Nat /\ s + n + 15 > 0 /\ s + n + 16 \in Nat /\ s + n + 16 > 0
  <2> HIDE DEF n
  <2> QED
    BY <1>1
<1> QED
  BY <1>2, <1>3 DEF Written

\* r is the text t and behind it the text u.
Appended(t, u, r) ==
  /\ r \in Seq(Text) /\ Len(r) = Len(t) + Len(u) /\ Longer(t, r)
  /\ \A k \in 1 .. Len(u) : r[Len(t) + k] = u[k]

\* Such is the text after a step that writes u.
LEMMA AppendedText ==
  ASSUME NEW t \in Seq(Text), NEW u \in Seq(Text)
  PROVE  Appended(t, u, t \o u)
<1> DEFINE r == t \o u
<1>1. /\ r \in Seq(Text) /\ Len(r) = Len(t) + Len(u) /\ Len(t) \in Nat /\ Len(u) \in Nat
      /\ \A k \in 1 .. Len(t) : r[k] = t[k]
      /\ \A k \in 1 .. Len(u) : r[Len(t) + k] = u[k]
  BY JoinFacts
<1> HIDE DEF r
<1>2. Len(t) <= Len(r)
  BY <1>1
<1>3. Appended(t, u, r)
  BY <1>1, <1>2 DEF Longer, Appended
<1> QED
  BY <1>3 DEF r

\* What goes on twice goes on.
LEMMA LongerTrans ==
  ASSUME NEW a \in Seq(Text), NEW b \in Seq(Text), NEW c \in Seq(Text), Longer(a, b), Longer(b, c)
  PROVE  Longer(a, c)
<1>1. Len(a) \in Nat /\ Len(b) \in Nat /\ Len(c) \in Nat /\ Len(a) <= Len(b) /\ Len(b) <= Len(c)
  BY LenProperties DEF Longer
<1>2. ASSUME NEW p \in 1 .. Len(a) PROVE c[p] = a[p]
  <2>1. p \in 1 .. Len(b)
    BY <1>1
  <2> QED
    BY <2>1 DEF Longer
<1> QED
  BY <1>1, <1>2 DEF Longer

\* The characters of a line end and of a boundary.
LEMMA MarkFacts ==
  /\ F!CRLF \in Seq(Text) /\ Len(F!CRLF) = 2 /\ F!CRLF[1] = "cr" /\ F!CRLF[2] = "lf"
  /\ F!Boundary \in Seq(Text) /\ Len(F!Boundary) = 3
  /\ F!Boundary[1] = "-" /\ F!Boundary[2] = "-" /\ F!Boundary[3] = "boundary"
<1>1. "cr" \in Text /\ "lf" \in Text /\ "-" \in Text /\ "boundary" \in Text
  BY CharFacts
<1>2. \A a, b \in Text : <<a, b>> \in Seq(Text)
  OBVIOUS
<1>3. \A a, b, c \in Text : <<a, b, c>> \in Seq(Text)
  OBVIOUS
<1>4. F!CRLF \in Seq(Text) /\ F!Boundary \in Seq(Text)
  BY <1>1, <1>2, <1>3, Zenon DEF F!CRLF, F!Boundary
<1> QED
  BY <1>4 DEF F!CRLF, F!Boundary

\* The header lines of a field.
HeaderLines(t, x) == t \o F!Boundary \o F!CRLF \o <<x>> \o F!CRLF \o F!CRLF

HasHeader(t, x, r) ==
  /\ r \in Seq(Text) /\ Len(r) = Len(t) + 10 /\ Longer(t, r)
  /\ r[Len(t) + 1] = "-" /\ r[Len(t) + 2] = "-" /\ r[Len(t) + 3] = "boundary"
  /\ r[Len(t) + 4] = "cr" /\ r[Len(t) + 5] = "lf" /\ r[Len(t) + 6] = x
  /\ r[Len(t) + 7] = "cr" /\ r[Len(t) + 8] = "lf"
  /\ r[Len(t) + 9] = "cr" /\ r[Len(t) + 10] = "lf"

\* They stand behind what was written.
LEMMA HeaderText ==
  ASSUME NEW t \in Seq(Text), NEW x \in Names
  PROVE  HasHeader(t, x, HeaderLines(t, x))
<1> DEFINE n  == Len(t)
           r1 == t \o F!Boundary
           r2 == r1 \o F!CRLF
           w  == <<x>>
           r3 == r2 \o w
           r4 == r3 \o F!CRLF
           r5 == r4 \o F!CRLF
<1>0. n \in Nat /\ HeaderLines(t, x) = r5
  BY LenProperties DEF HeaderLines
<1>a. r1 = t \o F!Boundary /\ r2 = r1 \o F!CRLF /\ r3 = r2 \o w
      /\ r4 = r3 \o F!CRLF /\ r5 = r4 \o F!CRLF
  OBVIOUS
<1>b. w \in Seq(Text) /\ Len(w) = 1 /\ w[1] = x
  BY DEF Text
<1> HIDE DEF r1, r2, r3, r4, r5, w
<1>1. /\ r1 \in Seq(Text) /\ Len(r1) = n + 3 /\ Longer(t, r1)
      /\ r1[n + 1] = "-" /\ r1[n + 2] = "-" /\ r1[n + 3] = "boundary"
  <2>1. Appended(t, F!Boundary, r1)
    BY <1>a, AppendedText, MarkFacts, Zenon
  <2> QED
    BY <2>1, MarkFacts DEF Appended
<1> HIDE DEF n
<1>2. /\ r2 \in Seq(Text) /\ Len(r2) = Len(r1) + 2 /\ Longer(r1, r2)
      /\ r2[Len(r1) + 1] = "cr" /\ r2[Len(r1) + 2] = "lf"
  <2>1. Appended(r1, F!CRLF, r2)
    BY <1>a, <1>1, AppendedText, MarkFacts, Zenon
  <2> QED
    BY <2>1, MarkFacts DEF Appended
<1>3. r3 \in Seq(Text) /\ Len(r3) = Len(r2) + 1 /\ Longer(r2, r3) /\ r3[Len(r2) + 1] = x
  <2>1. Appended(r2, w, r3)
    BY <1>a, <1>2, AppendedText, <1>b, Zenon
  <2> QED
    BY <2>1, <1>b DEF Appended
<1>4. /\ r4 \in Seq(Text) /\ Len(r4) = Len(r3) + 2 /\ Longer(r3, r4)
      /\ r4[Len(r3) + 1] = "cr" /\ r4[Len(r3) + 2] = "lf"
  <2>1. Appended(r3, F!CRLF, r4)
    BY <1>a, <1>3, AppendedText, MarkFacts, Zenon
  <2> QED
    BY <2>1, MarkFacts DEF Appended
<1>5. /\ r5 \in Seq(Text) /\ Len(r5) = Len(r4) + 2 /\ Longer(r4, r5)
      /\ r5[Len(r4) + 1] = "cr" /\ r5[Len(r4) + 2] = "lf"
  <2>1. Appended(r4, F!CRLF, r5)
    BY <1>a, <1>4, AppendedText, MarkFacts, Zenon
  <2> QED
    BY <2>1, MarkFacts DEF Appended
<1>6. Longer(r3, r5) /\ Longer(r2, r5) /\ Longer(r1, r5) /\ Longer(t, r5)
  <2>1. Longer(r3, r5)
    BY <1>3, <1>4, <1>5, LongerTrans
  <2>2. Longer(r2, r5)
    BY <1>2, <1>3, <1>5, <2>1, LongerTrans
  <2>3. Longer(r1, r5)
    BY <1>1, <1>2, <1>5, <2>2, LongerTrans
  <2>4. Longer(t, r5)
    BY <1>1, <1>5, <2>3, LongerTrans
  <2> QED
    BY <2>1, <2>2, <2>3, <2>4
<1>7. Len(r2) = n + 5 /\ Len(r3) = n + 6 /\ Len(r4) = n + 8 /\ Len(r5) = n + 10
  BY <1>0, <1>1, <1>2, <1>3, <1>4, <1>5
<1>8. r5[n + 1] = "-" /\ r5[n + 2] = "-" /\ r5[n + 3] = "boundary"
  <2>1. n + 1 \in 1 .. n + 3 /\ n + 2 \in 1 .. n + 3 /\ n + 3 \in 1 .. n + 3
    BY <1>0
  <2> QED
    BY <1>1, <1>6, <2>1 DEF Longer
<1>9. r5[n + 4] = "cr" /\ r5[n + 5] = "lf"
  <2>1. n + 4 \in 1 .. n + 5 /\ n + 5 \in 1 .. n + 5 /\ (n + 3) + 1 = n + 4 /\ (n + 3) + 2 = n + 5
    BY <1>0
  <2>2. r2[n + 4] = "cr" /\ r2[n + 5] = "lf"
    BY <1>1, <1>2, <2>1
  <2> QED
    BY <1>6, <1>7, <2>1, <2>2 DEF Longer
<1>10. r5[n + 6] = x
  <2>1. n + 6 \in 1 .. n + 6 /\ (n + 5) + 1 = n + 6
    BY <1>0
  <2>2. r3[n + 6] = x
    BY <1>3, <1>7, <2>1
  <2> QED
    BY <1>6, <1>7, <2>1, <2>2 DEF Longer
<1>11. r5[n + 7] = "cr" /\ r5[n + 8] = "lf"
  <2>1. n + 7 \in 1 .. n + 8 /\ n + 8 \in 1 .. n + 8 /\ (n + 6) + 1 = n + 7 /\ (n + 6) + 2 = n + 8
    BY <1>0
  <2>2. r4[n + 7] = "cr" /\ r4[n + 8] = "lf"
    BY <1>4, <1>7, <2>1
  <2> QED
    BY <1>5, <1>7, <2>1, <2>2 DEF Longer
<1>12. r5[n + 9] = "cr" /\ r5[n + 10] = "lf"
  <2>1. (n + 8) + 1 = n + 9 /\ (n + 8) + 2 = n + 10
    BY <1>0
  <2> QED
    BY <1>5, <1>7, <2>1
<1> QED
  BY <1>0, <1>5, <1>6, <1>7, <1>8, <1>9, <1>10, <1>11, <1>12 DEF n, HasHeader

\* The end of the last field.
ClosingLines(t) == t \o F!CRLF \o F!Boundary \o <<"-", "-">> \o F!CRLF

HasClosing(t, r) ==
  /\ r \in Seq(Text) /\ Len(r) = Len(t) + 9 /\ Longer(t, r)
  /\ r[Len(t) + 1] = "cr" /\ r[Len(t) + 2] = "lf" /\ r[Len(t) + 3] = "-"
  /\ r[Len(t) + 4] = "-" /\ r[Len(t) + 5] = "boundary" /\ r[Len(t) + 6] = "-"

\* It stands behind what was written.
LEMMA ClosingText ==
  ASSUME NEW t \in Seq(Text)
  PROVE  HasClosing(t, ClosingLines(t))
<1> DEFINE n  == Len(t)
           r1 == t \o F!CRLF
           r2 == r1 \o F!Boundary
           w  == <<"-", "-">>
           r3 == r2 \o w
           r4 == r3 \o F!CRLF
<1>0. n \in Nat /\ ClosingLines(t) = r4
  BY LenProperties DEF ClosingLines
<1>a. r1 = t \o F!CRLF /\ r2 = r1 \o F!Boundary /\ r3 = r2 \o w /\ r4 = r3 \o F!CRLF
  OBVIOUS
<1>b. w \in Seq(Text) /\ Len(w) = 2 /\ w[1] = "-"
  <2>1. \A a, b \in Text : <<a, b>> \in Seq(Text)
    OBVIOUS
  <2>2. w \in Seq(Text)
    BY <2>1, CharFacts, Zenon
  <2> QED
    BY <2>2
<1> HIDE DEF r1, r2, r3, r4, w
<1>1. r1 \in Seq(Text) /\ Len(r1) = n + 2 /\ Longer(t, r1) /\ r1[n + 1] = "cr" /\ r1[n + 2] = "lf"
  <2>1. Appended(t, F!CRLF, r1)
    BY <1>a, AppendedText, MarkFacts, Zenon
  <2> QED
    BY <2>1, MarkFacts DEF Appended
<1> HIDE DEF n
<1>2. /\ r2 \in Seq(Text) /\ Len(r2) = Len(r1) + 3 /\ Longer(r1, r2)
      /\ r2[Len(r1) + 1] = "-" /\ r2[Len(r1) + 2] = "-" /\ r2[Len(r1) + 3] = "boundary"
  <2>1. Appended(r1, F!Boundary, r2)
    BY <1>a, <1>1, AppendedText, MarkFacts, Zenon
  <2> QED
    BY <2>1, MarkFacts DEF Appended
<1>3. r3 \in Seq(Text) /\ Len(r3) = Len(r2) + 2 /\ Longer(r2, r3) /\ r3[Len(r2) + 1] = "-"
  <2>1. Appended(r2, w, r3)
    BY <1>a, <1>2, AppendedText, <1>b, Zenon
  <2> QED
    BY <2>1, <1>b DEF Appended
<1>4. r4 \in Seq(Text) /\ Len(r4) = Len(r3) + 2 /\ Longer(r3, r4)
  <2>1. Appended(r3, F!CRLF, r4)
    BY <1>a, <1>3, AppendedText, MarkFacts, Zenon
  <2> QED
    BY <2>1, MarkFacts DEF Appended
<1>5. Longer(r2, r4) /\ Longer(r1, r4) /\ Longer(t, r4)
  <2>1. Longer(r2, r4)
    BY <1>2, <1>3, <1>4, LongerTrans
  <2>2. Longer(r1, r4)
    BY <1>1, <1>2, <1>4, <2>1, LongerTrans
  <2>3. Longer(t, r4)
    BY <1>1, <1>4, <2>2, LongerTrans
  <2> QED
    BY <2>1, <2>2, <2>3
<1>6. Len(r2) = n + 5 /\ Len(r3) = n + 7 /\ Len(r4) = n + 9
  BY <1>0, <1>1, <1>2, <1>3, <1>4
<1>7. r4[n + 1] = "cr" /\ r4[n + 2] = "lf"
  <2>1. n + 1 \in 1 .. n + 2 /\ n + 2 \in 1 .. n + 2
    BY <1>0
  <2> QED
    BY <1>1, <1>5, <2>1 DEF Longer
<1>8. r4[n + 3] = "-" /\ r4[n + 4] = "-" /\ r4[n + 5] = "boundary"
  <2>1. /\ n + 3 \in 1 .. n + 5 /\ n + 4 \in 1 .. n + 5 /\ n + 5 \in 1 .. n + 5
        /\ (n + 2) + 1 = n + 3 /\ (n + 2) + 2 = n + 4 /\ (n + 2) + 3 = n + 5
    BY <1>0
  <2>2. r2[n + 3] = "-" /\ r2[n + 4] = "-" /\ r2[n + 5] = "boundary"
    BY <1>1, <1>2, <2>1
  <2> QED
    BY <1>5, <1>6, <2>1, <2>2 DEF Longer
<1>9. r4[n + 6] = "-"
  <2>1. n + 6 \in 1 .. n + 7 /\ (n + 5) + 1 = n + 6
    BY <1>0
  <2>2. r3[n + 6] = "-"
    BY <1>3, <1>6, <2>1
  <2> QED
    BY <1>4, <1>6, <2>1, <2>2 DEF Longer
<1> QED
  BY <1>0, <1>4, <1>5, <1>6, <1>7, <1>8, <1>9 DEF n, HasClosing

\* Where the fields begin, in numbers.
LEMMA StartFacts ==
  ASSUME FormTypes, NEW st, Starts(st)
  PROVE  /\ findex \in Nat /\ 1 <= findex /\ findex <= Len(form) /\ Len(form) \in Nat
         /\ \A i \in 1 .. findex : st[i] \in Nat /\ i \in 1 .. Len(form) /\ Len(Content(i)) \in Nat
         /\ \A i \in 1 .. findex : i # findex =>
              /\ i + 1 \in 1 .. findex /\ i # Len(form)
              /\ st[i + 1] = st[i] + Len(Content(i)) + 12 /\ st[i + 1] <= st[findex]
<1>1. findex \in 1 .. Len(form) /\ form \in Seq(F!Fields)
  BY DEF FormTypes, F!TypeOK
<1>2. Len(form) \in Nat
  BY <1>1, LenProperties
<1>3. findex \in Nat /\ 1 <= findex /\ findex <= Len(form)
  BY <1>1, <1>2
<1>4. ASSUME NEW i \in 1 .. findex
      PROVE  st[i] \in Nat /\ i \in 1 .. Len(form) /\ Len(Content(i)) \in Nat
  <2>1. st[i] \in Nat
    BY DEF Starts
  <2>2. i \in 1 .. Len(form)
    BY <1>2, <1>3
  <2>3. Len(Content(i)) \in Nat
    BY <2>2, FieldFacts DEF FormTypes
  <2> QED
    BY <2>1, <2>2, <2>3
<1>5. ASSUME NEW i \in 1 .. findex, i # findex
      PROVE  /\ i + 1 \in 1 .. findex /\ i # Len(form)
             /\ st[i + 1] = st[i] + Len(Content(i)) + 12 /\ st[i + 1] <= st[findex]
  <2>1. i \in 1 .. findex - 1 /\ i + 1 \in 1 .. findex /\ i # Len(form)
    BY <1>2, <1>3, <1>5
  <2> QED
    BY <2>1 DEF Starts
<1> QED
  BY <1>2, <1>3, <1>4, <1>5

\* The reader leaves what was written alone.
LEMMA SenderSame ==
  ASSUME NEW st, Starts(st), Laid(st), UNCHANGED F!sender
  PROVE  Starts(st)' /\ Laid(st)'
<1>1. form' = form /\ wstep' = wstep /\ findex' = findex /\ text' = text /\ cut' = cut
  BY DEF F!sender
<1>2. Starts(st)'
  BY <1>1 DEF Starts, Content
<1>3. ASSUME NEW i \in 1 .. findex PROVE Written(text', i, st[i])
  BY <1>1, <1>3 DEF Laid
<1>4. Progress' = Progress
  BY <1>1 DEF Progress, Content
<1>5. ASSUME NEW i \in 1 .. findex, NEW s, Written(text, i, s) PROVE Written(text, i, s)'
  BY <1>1, <1>5 DEF Written, At, Content
<1>6. ASSUME NEW i \in (1 .. findex)' PROVE Written(text, i, st[i])'
  BY <1>1, <1>3, <1>5
<1> QED
  BY <1>1, <1>2, <1>4, <1>6 DEF Laid

\* Nothing is written yet.
LEMMA FormInit == F!Init => FormIInv
<1> SUFFICES ASSUME F!Init PROVE FormIInv
  OBVIOUS
<1>1. PICK n \in 1 .. MaxFields : form \in [1 .. n -> F!Fields]
  BY DEF F!Init
<1>2. n \in Nat /\ 1 <= n
  BY MessagesAssumption
<1>3. form \in Seq(F!Fields) /\ Len(form) = n
  BY <1>1, <1>2, SeqDef, LenProperties
<1>4. /\ wstep = "header" /\ findex = 1 /\ text = <<>> /\ cut = FALSE /\ come = 0 /\ taken = 0
      /\ fstep = "boundary_line" /\ field = F!NoField /\ fields = <<>> /\ outcome = "reading"
  BY DEF F!Init
<1>5. field \in Records /\ field.name \in Names /\ field.content \in Seq(F!Chars)
  <2>1. (CHOOSE x \in Names : TRUE) \in Names
    BY MessagesAssumption
  <2>2. <<>> \in Seq(F!Chars)
    OBVIOUS
  <2> QED
    BY <1>4, <2>1, <2>2 DEF F!NoField, Records
<1>6. /\ Len(text) = 0 /\ Len(fields) = 0 /\ text \in Seq(F!Chars \cup Names)
      /\ fields \in Seq([name : Names, content : Seq(F!Chars)])
  BY <1>4
<1>7. F!TypeOK
  <2>1. findex \in 1 .. Len(form) /\ come \in 0 .. Len(text) /\ taken \in 0 .. come
    BY <1>2, <1>3, <1>4, <1>6
  <2>2. cut \in BOOLEAN
    BY <1>4, Zenon
  <2> QED
    BY <1>3, <1>4, <1>5, <1>6, <2>1, <2>2 DEF F!TypeOK
<1> DEFINE st == [i \in 1 .. 1 |-> 0]
<1>8. Starts(st)
  BY <1>4 DEF Starts
<1>9. st[1] = 0
  OBVIOUS
<1> HIDE DEF st
<1>10. Laid(st)
  <2>1. Len(Content(1)) \in Nat
    BY <1>2, <1>3, <1>7, FieldFacts
  <2>2. Written(text, 1, 0)
    BY <1>6, <2>1 DEF Written, At
  <2>3. Progress = 0
    BY <1>4 DEF Progress
  <2>4. \A i \in 1 .. findex : i = 1
    BY <1>4
  <2>5. Len(text) <= st[findex] + Progress /\ Len(text) = st[findex] + Progress
    BY <1>4, <1>6, <1>9, <2>3
  <2> QED
    BY <1>4, <1>9, <2>2, <2>4, <2>5 DEF Laid
<1>11. Read(st)
  BY <1>4, <1>6 DEF Read
<1> QED
  BY <1>4, <1>5, <1>7, <1>8, <1>10, <1>11 DEF FormIInv, FormTypes, Ended

\* What is written of the fields before the last one begun stays.
LEMMA EarlierFields ==
  ASSUME FormTypes, NEW st, Starts(st), Laid(st), NEW t2 \in Seq(Text), Longer(text, t2),
         Len(text) >= st[findex], NEW i \in 1 .. findex, i # findex
  PROVE  Written(t2, i, st[i])
<1>1. /\ st[i] \in Nat /\ i \in 1 .. Len(form) /\ i # Len(form) /\ Len(Content(i)) \in Nat
      /\ st[i + 1] = st[i] + Len(Content(i)) + 12 /\ st[i + 1] <= st[findex] /\ st[findex] \in Nat
  BY StartFacts
<1>2. F!TypeOK /\ text \in Seq(Text) /\ Len(text) \in Nat
  BY LenProperties DEF FormTypes, F!TypeOK, Text
<1>3. st[i] + Len(Content(i)) + 12 <= Len(text)
  BY <1>1, <1>2
<1>4. Written(text, i, st[i])
  BY DEF Laid
<1> QED
  BY <1>1, <1>2, <1>3, <1>4, KeptFacts

\* The places of the fields, whichever field the writer is at.
LEMMA WriterKeeps ==
  ASSUME F!TypeOK, form' = form, NEW i, NEW s, NEW t, Written(t, i, s), text' = t
  PROVE  Written(text, i, s)'
BY DEF Written, At, Content

\* A step of the writer within a field.
LEMMA SameField ==
  ASSUME FormTypes, NEW st, Starts(st), Laid(st), Read(st), Ended,
         ~cut, Len(text) >= st[findex], Longer(text, text'), text' \in Seq(Text),
         Written(text', findex, st[findex]), Len(text') = st[findex] + Progress',
         wstep' \in {"content", "content_end", "eof"}, (wstep' = "eof") => findex = Len(form),
         UNCHANGED <<form, findex, cut, come, taken, fstep, field, fields, outcome>>
  PROVE  FormIInv'
<1>1. ASSUME NEW i \in 1 .. findex PROVE Written(text', i, st[i])
  <2>1. CASE i = findex
    BY <2>1
  <2>2. CASE i # findex
    BY <2>2, EarlierFields
  <2> QED
    BY <2>1, <2>2
<1>2. Starts(st)'
  BY DEF Starts, Content
<1>3. Read(st)'
  BY DEF Read, Content
<1>4. Ended'
  BY DEF Ended
<1>5. Len(text') \in Nat /\ Len(text) \in Nat /\ Len(text) <= Len(text')
  <2>1. text \in Seq(Text)
    BY DEF FormTypes, F!TypeOK, Text
  <2> QED
    BY <2>1, LenProperties DEF Longer
<1>6. Laid(st)'
  <2>1. ASSUME NEW i \in (1 .. findex)' PROVE Written(text, i, st[i])'
    <3>1. i \in 1 .. findex /\ F!TypeOK
      BY DEF FormTypes
    <3>2. Written(text', i, st[i])
      BY <1>1, <3>1
    <3> QED
      BY <3>1, <3>2, WriterKeeps
  <2>2. (Len(text) <= st[findex] + Progress)'
    BY <1>5
  <2> QED
    BY <2>1, <2>2 DEF Laid
<1>7. FormTypes'
  <2>1. come \in 0 .. Len(text) /\ come \in 0 .. Len(text')
    BY <1>5 DEF FormTypes, F!TypeOK
  <2>2. text' \in Seq(F!Chars \cup Names)
    BY DEF Text
  <2>3. (cut \in BOOLEAN)'
    BY DEF FormTypes, F!TypeOK
  <2> QED
    BY <2>1, <2>2, <2>3 DEF FormTypes, F!TypeOK
<1> QED
  BY <1>2, <1>3, <1>4, <1>6, <1>7 DEF FormIInv

\* writer::get(), at the header of a field.
LEMMA FormWriteHeader ==
  ASSUME FormTypes, NEW st, Starts(st), Laid(st), Read(st), Ended, F!WriteHeader
  PROVE  FormIInv'
<1> DEFINE s == st[findex]
           n == Len(Content(findex))
           x == form[findex].name
<1>1. /\ wstep = "header" /\ ~cut /\ wstep' = "content"
      /\ text' = text \o F!Boundary \o F!CRLF \o <<x>> \o F!CRLF \o F!CRLF
      /\ UNCHANGED <<form, findex, cut, come, taken, fstep, field, fields, outcome>>
  BY DEF F!WriteHeader, F!receiver
<1>2. s \in Nat /\ n \in Nat /\ x \in Names /\ text \in Seq(Text) /\ findex \in 1 .. Len(form)
  <2>1. findex \in 1 .. findex /\ findex \in 1 .. Len(form)
    BY StartFacts
  <2> QED
    BY <2>1, StartFacts, FieldFacts DEF FormTypes, F!TypeOK, Text
<1>3. Len(text) = s
  BY <1>1, <1>2 DEF Laid, Progress
<1>4. /\ text' \in Seq(Text) /\ Len(text') = s + 10 /\ Longer(text, text')
      /\ text'[s + 1] = "-" /\ text'[s + 2] = "-" /\ text'[s + 3] = "boundary"
      /\ text'[s + 4] = "cr" /\ text'[s + 5] = "lf" /\ text'[s + 6] = x
      /\ text'[s + 7] = "cr" /\ text'[s + 8] = "lf" /\ text'[s + 9] = "cr" /\ text'[s + 10] = "lf"
  <2>1. /\ text' \in Seq(Text) /\ Len(text') = Len(text) + 10 /\ Longer(text, text')
        /\ text'[Len(text) + 1] = "-" /\ text'[Len(text) + 2] = "-"
        /\ text'[Len(text) + 3] = "boundary"
        /\ text'[Len(text) + 4] = "cr" /\ text'[Len(text) + 5] = "lf" /\ text'[Len(text) + 6] = x
        /\ text'[Len(text) + 7] = "cr" /\ text'[Len(text) + 8] = "lf"
        /\ text'[Len(text) + 9] = "cr" /\ text'[Len(text) + 10] = "lf"
    <3> HIDE DEF x
    <3>1. text' = HeaderLines(text, x)
      BY <1>1, Zenon DEF HeaderLines
    <3>2. HasHeader(text, x, text')
      BY <1>2, <3>1, HeaderText
    <3> QED
      BY <3>2 DEF HasHeader
  <2> QED
    BY <1>3, <2>1
<1>5. Written(text', findex, s)
  <2>1. /\ \A j \in 1 .. n : ~(s + 10 + j <= s + 10)
        /\ ~(s + n + 11 <= s + 10) /\ ~(s + n + 12 <= s + 10) /\ ~(s + n + 13 <= s + 10)
        /\ ~(s + n + 14 <= s + 10) /\ ~(s + n + 15 <= s + 10) /\ ~(s + n + 16 <= s + 10)
    <3> HIDE DEF s, n
    <3> QED
      BY <1>2
  <2> HIDE DEF s
  <2> QED
    BY <1>4, <2>1 DEF Written, At
<1>6. Progress' = 10
  BY <1>1 DEF Progress
<1>7. Len(text) >= s
  BY <1>2, <1>3
<1> QED
  BY <1>1, <1>4, <1>5, <1>6, <1>7, SameField

\* writer::get(), at its content.
LEMMA FormWriteContent ==
  ASSUME FormTypes, NEW st, Starts(st), Laid(st), Read(st), Ended, F!WriteContent
  PROVE  FormIInv'
<1> DEFINE s == st[findex]
           c == Content(findex)
           n == Len(c)
<1>1. /\ wstep = "content" /\ ~cut /\ wstep' = "content_end" /\ text' = text \o c
      /\ UNCHANGED <<form, findex, cut, come, taken, fstep, field, fields, outcome>>
  BY DEF F!WriteContent, F!receiver, Content
<1>2. s \in Nat /\ n \in Nat /\ text \in Seq(Text) /\ c \in Seq(Text)
  <2>1. findex \in 1 .. findex /\ findex \in 1 .. Len(form)
    BY StartFacts
  <2>2. c \in Seq(F!Chars)
    BY <2>1, FieldFacts DEF FormTypes
  <2> HIDE DEF c
  <2>3. c \in Seq(Text)
    BY <2>2 DEF Text
  <2> QED
    BY <2>1, <2>3, StartFacts, LenProperties DEF FormTypes, F!TypeOK, Text
<1>3. Len(text) = s + 10
  BY <1>1, <1>2 DEF Laid, Progress
<1> HIDE DEF c
<1>4. /\ text' \in Seq(Text) /\ Len(text') = Len(text) + n /\ Longer(text, text')
      /\ \A k \in 1 .. n : text'[Len(text) + k] = c[k]
  <2>1. Appended(text, c, text')
    BY <1>1, <1>2, AppendedText, Zenon
  <2> QED
    BY <2>1 DEF Appended
<1>5. Written(text, findex, s)
  BY StartFacts DEF Laid
<1>6. Written(text', findex, s)
  <2>1. ASSUME NEW p \in 1 .. s + 10, NEW d, At(text, p, d) PROVE At(text', p, d)
    <3>1. p \in 1 .. Len(text) /\ p <= Len(text)
      BY <1>2, <1>3
    <3> QED
      BY <1>4, <2>1, <3>1 DEF At, Longer
  <2>2. /\ s + 1 \in 1 .. s + 10 /\ s + 2 \in 1 .. s + 10 /\ s + 3 \in 1 .. s + 10
        /\ s + 4 \in 1 .. s + 10 /\ s + 5 \in 1 .. s + 10 /\ s + 6 \in 1 .. s + 10
        /\ s + 7 \in 1 .. s + 10 /\ s + 8 \in 1 .. s + 10 /\ s + 9 \in 1 .. s + 10
        /\ s + 10 \in 1 .. s + 10
        /\ ~(s + n + 11 <= s + 10 + n) /\ ~(s + n + 12 <= s + 10 + n) /\ ~(s + n + 13 <= s + 10 + n)
        /\ ~(s + n + 14 <= s + 10 + n) /\ ~(s + n + 15 <= s + 10 + n) /\ ~(s + n + 16 <= s + 10 + n)
    <3> HIDE DEF s, n
    <3> QED
      BY <1>2
  <2>3. ASSUME NEW d
        PROVE /\ At(text', s + n + 11, d) /\ At(text', s + n + 12, d) /\ At(text', s + n + 13, d)
              /\ At(text', s + n + 14, d) /\ At(text', s + n + 15, d) /\ At(text', s + n + 16, d)
    <3>1. Len(text') = s + 10 + n
      BY <1>3, <1>4
    <3> HIDE DEF s, n
    <3> QED
      BY <2>2, <3>1 DEF At
  <2>4. \A j \in 1 .. n : At(text', s + 10 + j, c[j])
    BY <1>3, <1>4 DEF At
  <2>5. /\ At(text', s + 1, "-") /\ At(text', s + 2, "-") /\ At(text', s + 3, "boundary")
        /\ At(text', s + 4, "cr") /\ At(text', s + 5, "lf") /\ At(text', s + 6, form[findex].name)
        /\ At(text', s + 7, "cr") /\ At(text', s + 8, "lf") /\ At(text', s + 9, "cr")
        /\ At(text', s + 10, "lf")
    BY <1>5, <2>1, <2>2 DEF Written
  <2> QED
    BY <2>3, <2>4, <2>5 DEF Written, c
<1>7. Progress' = n + 10
  BY <1>1 DEF Progress, Content, c
<1>8. Len(text') = s + Progress' /\ Len(text) >= s
  <2> HIDE DEF s, n
  <2> QED
    BY <1>2, <1>3, <1>4, <1>7
<1> QED
  BY <1>1, <1>4, <1>6, <1>8, SameField

\* The lines of a field whose last ones are being written.
LEMMA EndedField ==
  ASSUME FormTypes, NEW t \in Seq(Text), NEW r \in Seq(Text), Longer(t, r), NEW i \in 1 .. Len(form),
         NEW s \in Nat, Len(t) = s + Len(Content(i)) + 10, Written(t, i, s),
         LET n == Len(Content(i))
         IN  /\ At(r, s + n + 11, "cr") /\ At(r, s + n + 12, "lf")
             /\ i = Len(form) => /\ At(r, s + n + 13, "-") /\ At(r, s + n + 14, "-")
                                 /\ At(r, s + n + 15, "boundary") /\ At(r, s + n + 16, "-")
  PROVE  Written(r, i, s)
<1> DEFINE n == Len(Content(i))
<1>1. n \in Nat /\ Len(t) = s + n + 10
  BY FieldFacts DEF FormTypes
<1>2. ASSUME NEW p \in 1 .. Len(t), NEW c, At(t, p, c) PROVE At(r, p, c)
  <2>1. p <= Len(t) /\ r[p] = t[p]
    BY <1>1 DEF Longer
  <2> QED
    BY <1>2, <2>1 DEF At
<1>3. /\ s + 1 \in 1 .. Len(t) /\ s + 2 \in 1 .. Len(t) /\ s + 3 \in 1 .. Len(t)
      /\ s + 4 \in 1 .. Len(t) /\ s + 5 \in 1 .. Len(t) /\ s + 6 \in 1 .. Len(t)
      /\ s + 7 \in 1 .. Len(t) /\ s + 8 \in 1 .. Len(t) /\ s + 9 \in 1 .. Len(t)
      /\ s + 10 \in 1 .. Len(t) /\ \A j \in 1 .. n : s + 10 + j \in 1 .. Len(t)
  <2> HIDE DEF n
  <2> QED
    BY <1>1
<1> QED
  BY <1>2, <1>3 DEF Written

\* writer::get(), behind the content of the last field.
LEMMA FormWriteLast ==
  ASSUME FormTypes, NEW st, Starts(st), Laid(st), Read(st), Ended, F!WriteContentEnd,
         findex = Len(form)
  PROVE  FormIInv'
<1> DEFINE s == st[findex]
           n == Len(Content(findex))
<1>1. /\ wstep = "content_end" /\ ~cut /\ wstep' = "eof" /\ text' = ClosingLines(text)
      /\ UNCHANGED <<form, findex, cut, come, taken, fstep, field, fields, outcome>>
  BY DEF F!WriteContentEnd, F!receiver, ClosingLines
<1>2. s \in Nat /\ n \in Nat /\ text \in Seq(Text) /\ findex \in 1 .. Len(form) /\ findex \in 1 .. findex
  <2>1. findex \in 1 .. findex /\ findex \in 1 .. Len(form)
    BY StartFacts
  <2> QED
    BY <2>1, StartFacts DEF FormTypes, F!TypeOK, Text
<1>3. Len(text) = s + n + 10
  <2>1. Len(text) = s + Progress /\ Progress = n + 10
    BY <1>1 DEF Laid, Progress
  <2> HIDE DEF s, n
  <2> QED
    BY <1>2, <2>1
<1>4. HasClosing(text, text')
  BY <1>1, <1>2, ClosingText
<1>5. text' \in Seq(Text) /\ Len(text') = Len(text) + 9 /\ Longer(text, text')
  BY <1>4 DEF HasClosing
<1>6. Written(text', findex, s)
  <2>1. /\ Len(text) + 1 = s + n + 11 /\ Len(text) + 2 = s + n + 12 /\ Len(text) + 3 = s + n + 13
        /\ Len(text) + 4 = s + n + 14 /\ Len(text) + 5 = s + n + 15 /\ Len(text) + 6 = s + n + 16
    <3> HIDE DEF s, n
    <3> QED
      BY <1>2, <1>3
  <2>2. /\ At(text', s + n + 11, "cr") /\ At(text', s + n + 12, "lf")
        /\ At(text', s + n + 13, "-") /\ At(text', s + n + 14, "-")
        /\ At(text', s + n + 15, "boundary") /\ At(text', s + n + 16, "-")
    <3> HIDE DEF s, n
    <3> QED
      BY <1>4, <2>1 DEF HasClosing, At
  <2>3. Written(text, findex, s)
    BY <1>2 DEF Laid
  <2> QED
    BY <1>2, <1>3, <1>5, <2>2, <2>3, EndedField
<1>7. Progress' = n + 19
  BY <1>1 DEF Progress, Content
<1>8. Len(text') = s + Progress' /\ Len(text) >= s
  <2> HIDE DEF s, n
  <2> QED
    BY <1>2, <1>3, <1>5, <1>7
<1> QED
  BY <1>1, <1>5, <1>6, <1>8, SameField

\* writer::get(), behind the content of another: one more field begins.
LEMMA FormWriteNext ==
  ASSUME FormTypes, NEW st, Starts(st), Laid(st), Read(st), Ended, F!WriteContentEnd,
         findex # Len(form)
  PROVE  FormIInv'
<1> DEFINE s == st[findex]
           n == Len(Content(findex))
<1>1. /\ wstep = "content_end" /\ ~cut /\ wstep' = "header" /\ text' = text \o F!CRLF
      /\ findex' = findex + 1
      /\ UNCHANGED <<form, cut, come, taken, fstep, field, fields, outcome>>
  BY DEF F!WriteContentEnd, F!receiver
<1>2. /\ s \in Nat /\ n \in Nat /\ text \in Seq(Text) /\ findex \in 1 .. Len(form)
      /\ findex \in 1 .. findex /\ Len(text) \in Nat /\ Len(form) \in Nat
  <2>1. findex \in 1 .. findex /\ findex \in 1 .. Len(form)
    BY StartFacts
  <2> QED
    BY <2>1, StartFacts, LenProperties DEF FormTypes, F!TypeOK, Text
<1>3. Len(text) = s + n + 10
  <2>1. Len(text) = s + Progress /\ Progress = n + 10
    BY <1>1 DEF Laid, Progress
  <2> HIDE DEF s, n
  <2> QED
    BY <1>2, <2>1
<1>4. /\ text' \in Seq(Text) /\ Len(text') = Len(text) + 2 /\ Longer(text, text')
      /\ text'[Len(text) + 1] = "cr" /\ text'[Len(text) + 2] = "lf"
  <2>1. Appended(text, F!CRLF, text')
    BY <1>1, <1>2, MarkFacts, AppendedText, Zenon
  <2> QED
    BY <2>1, MarkFacts DEF Appended
<1>5. Written(text', findex, s)
  <2>1. Len(text) + 1 = s + n + 11 /\ Len(text) + 2 = s + n + 12
    <3> HIDE DEF s, n
    <3> QED
      BY <1>2, <1>3
  <2>2. At(text', s + n + 11, "cr") /\ At(text', s + n + 12, "lf")
    <3> HIDE DEF s, n
    <3> QED
      BY <1>4, <2>1 DEF At
  <2>3. Written(text, findex, s)
    BY <1>2 DEF Laid
  <2> QED
    BY <1>2, <1>3, <1>4, <2>2, <2>3, EndedField
<1>6. Len(text') = s + n + 12 /\ Len(text') \in Nat /\ Len(text) >= s
  <2> HIDE DEF s, n
  <2> QED
    BY <1>2, <1>3, <1>4
<1> DEFINE e == Len(text')
<1>7. /\ findex \in Nat /\ findex >= 1 /\ findex + 1 \in 1 .. Len(form)
      /\ findex + 1 \in 1 .. findex + 1
  BY <1>2
<1>8. PICK st2 : /\ st2 \in [1 .. findex + 1 -> Nat] /\ st2[findex + 1] = e
                 /\ \A i \in 1 .. findex : i \in 1 .. findex + 1 /\ st2[i] = st[i]
  <2>1. \A i \in 1 .. findex : i \in 1 .. findex + 1 /\ i # findex + 1
    BY <1>7
  <2>2. \A i \in 1 .. findex + 1 : i = findex + 1 \/ i \in 1 .. findex
    BY <1>7
  <2>3. \A i \in 1 .. findex : st[i] \in Nat
    BY DEF Starts
  <2>4. e \in Nat
    BY <1>6
  <2> HIDE DEF e
  <2> DEFINE st3 == [i \in 1 .. findex + 1 |-> IF i = findex + 1 THEN e ELSE st[i]]
  <2>5. /\ st3 \in [1 .. findex + 1 -> Nat] /\ st3[findex + 1] = e
        /\ \A i \in 1 .. findex : i \in 1 .. findex + 1 /\ st3[i] = st[i]
    BY <1>7, <2>1, <2>2, <2>3, <2>4
  <2> QED
    BY <2>5
<1>9. \A i \in 1 .. findex : st[i] <= s /\ s <= e
  <2>1. s <= e
    <3> HIDE DEF s, n
    <3> QED
      BY <1>2, <1>6
  <2>2. ASSUME NEW i \in 1 .. findex PROVE st[i] <= s
    <3>1. CASE i = findex
      BY <1>2, <3>1
    <3>2. CASE i # findex
      <4>1. /\ st[i] \in Nat /\ Len(Content(i)) \in Nat /\ s \in Nat
            /\ st[i + 1] = st[i] + Len(Content(i)) + 12 /\ st[i + 1] <= s
        BY <1>2, <3>2, StartFacts
      <4> HIDE DEF s
      <4> QED
        BY <4>1
    <3> QED
      BY <3>1, <3>2
  <2> QED
    BY <2>1, <2>2
<1>10. Starts(st2)'
  <2>1. st2[1] = 0
    <3>1. 1 \in 1 .. findex /\ st[1] = 0
      BY <1>7 DEF Starts
    <3> QED
      BY <1>8, <3>1
  <2>2. ASSUME NEW i \in 1 .. findex
        PROVE  st2[i + 1] = st2[i] + Len(Content(i)) + 12 /\ st2[i + 1] <= st2[findex + 1]
    <3>1. CASE i = findex
      <4>1. st2[i + 1] = e /\ st2[i] = s /\ e = s + n + 12 /\ n = Len(Content(i)) /\ e <= e
        <5>1. e \in Nat
          BY <1>6
        <5> QED
          BY <1>2, <1>6, <1>8, <3>1, <5>1
      <4> QED
        BY <1>8, <3>1, <4>1
    <3>2. CASE i # findex
      <4>1. i + 1 \in 1 .. findex /\ st[i + 1] = st[i] + Len(Content(i)) + 12
        BY <3>2, StartFacts
      <4>2. st2[i + 1] = st[i + 1] /\ st2[i] = st[i] /\ st[i + 1] <= s /\ s <= e
        BY <1>8, <1>9, <4>1
      <4>3. st[i + 1] \in Nat /\ s \in Nat /\ e \in Nat
        BY <1>2, <1>6, <4>1, StartFacts
      <4> HIDE DEF s, e
      <4>4. st[i + 1] <= e
        BY <4>2, <4>3
      <4> QED
        BY <1>8, <4>1, <4>2, <4>4
    <3> QED
      BY <3>1, <3>2
  <2>3. (findex + 1) - 1 = findex
    BY <1>7
  <2> QED
    BY <1>1, <1>8, <2>1, <2>2, <2>3 DEF Starts, Content
<1>11. ASSUME NEW i \in 1 .. findex + 1 PROVE Written(text', i, st2[i])
  <2>1. CASE i = findex
    BY <1>5, <1>8, <2>1, <1>2
  <2>2. CASE i \in 1 .. findex /\ i # findex
    BY <1>4, <1>6, <1>8, <2>2, EarlierFields
  <2>3. CASE i = findex + 1
    <3> DEFINE m == Len(Content(i))
    <3>1. m \in Nat
      BY <1>7, <2>3, FieldFacts DEF FormTypes
    <3>2. \A k \in Nat : \A c : k > 0 => At(text', e + k, c)
      BY <1>6 DEF At
    <3> HIDE DEF m, e
    <3>3. e \in Nat
      BY <1>6 DEF e
    <3>4. /\ \A j \in 1 .. m : e + 10 + j = e + (10 + j) /\ 10 + j \in Nat /\ 10 + j > 0
          /\ e + m + 11 = e + (m + 11) /\ m + 11 \in Nat /\ m + 11 > 0
          /\ e + m + 12 = e + (m + 12) /\ m + 12 \in Nat /\ m + 12 > 0
          /\ e + m + 13 = e + (m + 13) /\ m + 13 \in Nat /\ m + 13 > 0
          /\ e + m + 14 = e + (m + 14) /\ m + 14 \in Nat /\ m + 14 > 0
          /\ e + m + 15 = e + (m + 15) /\ m + 15 \in Nat /\ m + 15 > 0
          /\ e + m + 16 = e + (m + 16) /\ m + 16 \in Nat /\ m + 16 > 0
      BY <3>1, <3>3
    <3>5. \A c : /\ At(text', e + 1, c) /\ At(text', e + 2, c) /\ At(text', e + 3, c)
                 /\ At(text', e + 4, c) /\ At(text', e + 5, c) /\ At(text', e + 6, c)
                 /\ At(text', e + 7, c) /\ At(text', e + 8, c) /\ At(text', e + 9, c)
                 /\ At(text', e + 10, c)
      BY <3>2
    <3>6. \A c : /\ At(text', e + m + 11, c) /\ At(text', e + m + 12, c) /\ At(text', e + m + 13, c)
                 /\ At(text', e + m + 14, c) /\ At(text', e + m + 15, c) /\ At(text', e + m + 16, c)
                 /\ \A j \in 1 .. m : At(text', e + 10 + j, c)
      BY <3>2, <3>4
    <3>7. Written(text', i, e)
      BY <3>5, <3>6 DEF Written, m
    <3> QED
      BY <1>8, <2>3, <3>7
  <2>4. i \in 1 .. findex \/ i = findex + 1
    BY <1>7
  <2> QED
    BY <2>1, <2>2, <2>3, <2>4
<1>12. Laid(st2)'
  <2>1. ASSUME NEW i \in (1 .. findex)' PROVE Written(text, i, st2[i])'
    <3>1. i \in 1 .. findex + 1 /\ F!TypeOK
      BY <1>1 DEF FormTypes
    <3>2. Written(text', i, st2[i])
      BY <1>11, <3>1
    <3> QED
      BY <1>1, <3>1, <3>2, WriterKeeps
  <2>2. Progress' = 0
    BY <1>1 DEF Progress
  <2>3. st2[findex'] = e
    BY <1>1, <1>8
  <2>4. Len(text') = st2[findex'] + Progress' /\ Len(text') <= st2[findex'] + Progress'
    BY <1>6, <2>2, <2>3
  <2> QED
    BY <1>1, <2>1, <2>4 DEF Laid
<1>13. Read(st2)'
  <2>1. Len(fields) \in Nat
    BY LenProperties DEF FormTypes, F!TypeOK
  <2> DEFINE k == Len(fields)
  <2>2. Read(st)
    OBVIOUS
  <2>3. k <= findex /\ k <= findex + 1 /\ (k # 0 => k \in 1 .. findex)
        /\ (k < findex => k < findex + 1 /\ k + 1 \in 1 .. findex)
    <3>1. k <= findex
      BY DEF Read
    <3> HIDE DEF k
    <3>2. k \in Nat
      BY <2>1 DEF k
    <3> QED
      BY <1>7, <3>1, <3>2
  <2>4. (k # 0 => st2[k] = st[k]) /\ (k < findex => st2[k + 1] = st[k + 1])
    BY <1>8, <2>3
  <2> QED
    BY <1>1, <2>3, <2>4 DEF Read, Content
<1>14. FormTypes'
  <2>1. come \in 0 .. Len(text) /\ come \in 0 .. Len(text')
    BY <1>2, <1>4 DEF FormTypes, F!TypeOK
  <2>2. text' \in Seq(F!Chars \cup Names)
    BY <1>4 DEF Text
  <2>3. (cut \in BOOLEAN)'
    BY <1>1 DEF FormTypes, F!TypeOK
  <2>4. findex' \in 1 .. Len(form')
    BY <1>1, <1>7
  <2> QED
    BY <1>1, <2>1, <2>2, <2>3, <2>4 DEF FormTypes, F!TypeOK
<1>15. Ended'
  BY <1>1 DEF Ended
<1> QED
  BY <1>10, <1>12, <1>13, <1>14, <1>15 DEF FormIInv

\* The body ends before its writer has finished.
LEMMA FormCut ==
  ASSUME FormTypes, NEW st, Starts(st), Laid(st), Read(st), Ended, F!Cut
  PROVE  FormIInv'
<1>1. /\ cut' = TRUE /\ text' = SubSeq(text, 1, come)
      /\ UNCHANGED <<form, wstep, findex, come, taken, fstep, field, fields, outcome>>
  BY DEF F!Cut, F!receiver
<1>2. text \in Seq(Text) /\ come \in 0 .. Len(text) /\ Len(text) \in Nat
  BY LenProperties DEF FormTypes, F!TypeOK, Text
<1>3. text' \in Seq(Text) /\ Len(text') = come /\ \A p \in 1 .. come : text'[p] = text[p]
  <2> DEFINE r == text'
  <2>1. r = SubSeq(text, 1, come)
    BY <1>1
  <2>2. \A p \in 1 .. come : text[p] \in Text
    BY <1>2, ElementOfSeq
  <2> HIDE DEF r
  <2>3. r \in Seq(Text) /\ Len(r) = come /\ \A p \in 1 .. come : r[p] = text[p]
    BY <1>2, <2>1, <2>2, SubSeqProperties
  <2> QED
    BY <2>3 DEF r
<1>4. Longer(text', text) /\ Len(text') <= Len(text)
  BY <1>2, <1>3 DEF Longer
<1>5. Starts(st)'
  BY <1>1 DEF Starts, Content
<1>6. Read(st)'
  BY <1>1 DEF Read, Content
<1>7. ASSUME NEW i \in 1 .. findex PROVE Written(text', i, st[i])
  <2>1. st[i] \in Nat /\ Len(Content(i)) \in Nat
    BY StartFacts
  <2>2. Written(text, i, st[i])
    BY DEF Laid
  <2> QED
    BY <1>2, <1>3, <1>4, <2>1, <2>2, CutFacts
<1>8. Laid(st)'
  <2>1. ASSUME NEW i \in (1 .. findex)' PROVE Written(text, i, st[i])'
    <3>1. i \in 1 .. findex /\ F!TypeOK
      BY <1>1 DEF FormTypes
    <3>2. Written(text', i, st[i])
      BY <1>7, <3>1
    <3> QED
      BY <1>1, <3>1, <3>2, WriterKeeps
  <2>2. Progress' = Progress /\ Progress \in Nat
    <3>1. Len(Content(findex)) \in Nat
      BY StartFacts
    <3> QED
      BY <1>1, <3>1 DEF Progress, Content, FormTypes, F!TypeOK
  <2>3. st[findex] \in Nat
    BY StartFacts
  <2>4. Len(text) <= st[findex] + Progress
    BY DEF Laid
  <2>5. Len(text') <= st[findex] + Progress
    BY <1>2, <1>3, <1>4, <2>2, <2>3, <2>4
  <2> QED
    BY <1>1, <2>1, <2>2, <2>5 DEF Laid
<1>9. FormTypes'
  <2>1. come' \in 0 .. Len(text')
    BY <1>1, <1>2, <1>3
  <2>2. text' \in Seq(F!Chars \cup Names)
    BY <1>3 DEF Text
  <2>3. (cut \in BOOLEAN)'
    BY <1>1, Zenon
  <2> QED
    BY <1>1, <2>1, <2>2, <2>3 DEF FormTypes, F!TypeOK
<1>10. Ended'
  BY <1>1 DEF Ended
<1> QED
  BY <1>5, <1>6, <1>8, <1>9, <1>10 DEF FormIInv

\* Steps that only the connection or the outcome sees.
LEMMA FormOther ==
  ASSUME FormTypes, NEW st, Starts(st), Laid(st), Read(st), Ended,
         F!Arrive \/ F!Starve \/ F!Finish \/ UNCHANGED formVars
  PROVE  FormIInv'
<1>1. UNCHANGED <<form, wstep, findex, text, cut, taken, fstep, field, fields>>
  BY DEF F!Arrive, F!Starve, F!Finish, F!sender, F!receiver, formVars
<1>2. Starts(st)' /\ Laid(st)'
  <2>1. UNCHANGED F!sender
    BY <1>1 DEF F!sender
  <2> QED
    BY <2>1, SenderSame
<1>3. Read(st)'
  BY <1>1 DEF Read, Content
<1>4. come' \in 0 .. Len(text) /\ taken \in 0 .. come'
  <2>0. text \in Seq(Text) /\ Len(text) \in Nat /\ come \in 0 .. Len(text) /\ taken \in 0 .. come
    BY LenProperties DEF FormTypes, F!TypeOK, Text
  <2>1. CASE F!Arrive
    BY <2>0, <2>1 DEF F!Arrive
  <2>2. CASE F!Starve \/ F!Finish \/ UNCHANGED formVars
    <3>1. come' = come
      BY <2>2 DEF F!Starve, F!Finish, formVars
    <3> QED
      BY <2>0, <3>1
  <2> QED
    BY <2>1, <2>2
<1>5. outcome' \in {"reading", "ok", "failed"} /\ (outcome' = "ok" => fstep = "eof")
  BY DEF F!Arrive, F!Starve, F!Finish, formVars, Ended, FormTypes, F!TypeOK
<1>6. FormTypes'
  <2>1. (cut \in BOOLEAN)'
    BY <1>1 DEF FormTypes, F!TypeOK
  <2> QED
    BY <1>1, <1>4, <1>5, <2>1 DEF FormTypes, F!TypeOK
<1>7. Ended'
  BY <1>1, <1>5 DEF Ended
<1> QED
  BY <1>2, <1>3, <1>6, <1>7 DEF FormIInv

\* A step of the reader.
LEMMA ReaderStep ==
  ASSUME FormTypes, NEW st, Starts(st), Laid(st), UNCHANGED F!sender, come' = come,
         taken' \in 0 .. come, field' \in Records, fields' \in Seq(Records),
         fstep' \in {"boundary_line", "boundary_header", "boundary_content", "finished", "eof"},
         outcome' \in {"reading", "failed"}, Read(st)'
  PROVE  FormIInv'
<1>1. form' = form /\ wstep' = wstep /\ findex' = findex /\ text' = text /\ cut' = cut
  BY DEF F!sender
<1>2. field'.name \in Names /\ field'.content \in Seq(F!Chars)
      /\ fields' \in Seq([name : Names, content : Seq(F!Chars)])
  BY DEF Records
<1>3. (cut \in BOOLEAN)'
  BY <1>1 DEF FormTypes, F!TypeOK
<1>4. FormTypes'
  BY <1>1, <1>2, <1>3 DEF FormTypes, F!TypeOK
<1>5. Ended'
  BY DEF Ended
<1> QED
  BY <1>4, <1>5, SenderSame DEF FormIInv

\* The numbers of the reader.
LEMMA ReaderFacts ==
  ASSUME FormTypes, NEW st, Starts(st), Laid(st), Read(st)
  PROVE  /\ Len(fields) \in Nat /\ Len(fields) <= findex /\ fields \in Seq(Records)
         /\ field \in Records
         /\ \A i \in 1 .. Len(fields) : fields[i] = form[i]
         /\ Len(fields) # 0 => Len(fields) \in 1 .. findex
         /\ Len(fields) < findex => Len(fields) + 1 \in 1 .. findex
         /\ come \in Nat /\ taken \in Nat /\ taken <= come /\ come <= Len(text) /\ Len(text) \in Nat
<1>1. fields \in Seq(Records) /\ field \in Records
  BY DEF FormTypes, F!TypeOK, Records
<1>2. Len(fields) \in Nat /\ findex \in Nat
  BY <1>1, LenProperties, StartFacts
<1>3. Len(fields) <= findex /\ \A i \in 1 .. Len(fields) : fields[i] = form[i]
  BY DEF Read
<1>4. /\ Len(fields) # 0 => Len(fields) \in 1 .. findex
      /\ Len(fields) < findex => Len(fields) + 1 \in 1 .. findex
  BY <1>2, <1>3
<1>5. come \in Nat /\ taken \in Nat /\ taken <= come /\ come <= Len(text) /\ Len(text) \in Nat
  BY DataFacts DEF FormTypes
<1> QED
  BY <1>1, <1>2, <1>3, <1>4, <1>5

\* Where the reader looks for a boundary line, the next field begins, or the
\* last one has ended.
LEMMA BoundaryAhead ==
  ASSUME FormTypes, NEW st, Starts(st), Laid(st), Read(st), fstep = "boundary_line",
         come - taken >= 5
  PROVE  \/ /\ Len(fields) < findex /\ taken = st[Len(fields) + 1]
            /\ text[taken + 1] = "-" /\ text[taken + 2] = "-" /\ text[taken + 3] = "boundary"
            /\ text[taken + 4] = "cr" /\ text[taken + 5] = "lf"
         \/ Len(fields) = Len(form) /\ text[taken + 4] = "-"
<1> DEFINE n == Len(fields)
<1>1. /\ n \in Nat /\ n <= findex /\ come \in Nat /\ taken \in Nat /\ Len(text) \in Nat
      /\ come <= Len(text) /\ findex \in Nat /\ 1 <= findex
  BY ReaderFacts, StartFacts
<1>2. taken = IF n = 0 THEN 0 ELSE st[n] + Len(Content(n)) + 12
  BY DEF Read
<1>3. taken + 5 <= Len(text)
  BY <1>1
<1>4. ASSUME n < findex PROVE taken = st[n + 1] /\ n + 1 \in 1 .. findex
  <2>1. n + 1 \in 1 .. findex
    BY <1>4, ReaderFacts
  <2>2. CASE n = 0
    <3>1. st[1] = 0
      BY DEF Starts
    <3> HIDE DEF n
    <3> QED
      BY <1>2, <2>1, <2>2, <3>1
  <2>3. CASE n # 0
    <3>1. n \in 1 .. findex /\ n # findex
      BY <1>1, <1>4, <2>3
    <3>2. st[n + 1] = st[n] + Len(Content(n)) + 12
      BY <3>1, StartFacts
    <3> HIDE DEF n
    <3> QED
      BY <1>2, <2>1, <2>3, <3>2
  <2> QED
    BY <2>2, <2>3
<1>5. ASSUME n < findex
      PROVE /\ text[taken + 1] = "-" /\ text[taken + 2] = "-" /\ text[taken + 3] = "boundary"
            /\ text[taken + 4] = "cr" /\ text[taken + 5] = "lf"
  <2>1. Written(text, n + 1, taken)
    BY <1>4, <1>5 DEF Laid
  <2>2. /\ At(text, taken + 1, "-") /\ At(text, taken + 2, "-") /\ At(text, taken + 3, "boundary")
        /\ At(text, taken + 4, "cr") /\ At(text, taken + 5, "lf")
    BY <2>1 DEF Written
  <2>3. /\ taken + 1 <= Len(text) /\ taken + 2 <= Len(text) /\ taken + 3 <= Len(text)
        /\ taken + 4 <= Len(text)
    BY <1>1, <1>3
  <2> QED
    BY <1>3, <2>2, <2>3 DEF At
<1>6. ASSUME n = findex PROVE n = Len(form) /\ text[taken + 4] = "-"
  <2> DEFINE L == Len(Content(n))
             s == st[n]
  <2>1. n \in 1 .. findex /\ L \in Nat /\ s \in Nat
    BY <1>1, <1>6, StartFacts
  <2>2. taken = s + L + 12
    BY <1>1, <1>2, <1>6
  <2>3. Len(text) <= s + Progress
    BY <1>6 DEF Laid
  <2>4. wstep = "eof"
    <3>1. wstep \in {"header", "content", "content_end", "eof"}
      BY DEF FormTypes, F!TypeOK
    <3>2. ASSUME wstep # "eof" PROVE FALSE
      <4>1. Progress \in {0, 10, L + 10}
        BY <1>6, <3>1, <3>2 DEF Progress
      <4> HIDE DEF L, s
      <4>2. Progress <= L + 10 /\ Progress \in Nat
        BY <2>1, <4>1
      <4> QED
        BY <1>1, <1>3, <2>1, <2>2, <2>3, <4>2
    <3> QED
      BY <3>2
  <2>5. n = Len(form)
    BY <1>6, <2>4 DEF Laid
  <2>6. Written(text, n, s)
    BY <1>6, <2>1 DEF Laid
  <2>7. At(text, s + L + 16, "-")
    BY <2>5, <2>6 DEF Written
  <2>8. s + L + 16 = taken + 4 /\ taken + 4 <= Len(text)
    <3> HIDE DEF L, s
    <3> QED
      BY <1>1, <1>3, <2>1, <2>2
  <2> QED
    BY <2>5, <2>7, <2>8 DEF At
<1>7. n < findex \/ n = findex
  BY <1>1
<1> QED
  BY <1>4, <1>5, <1>6, <1>7

\* put() at a boundary line.
LEMMA FormPutBoundaryLine ==
  ASSUME FormTypes, NEW st, Starts(st), Laid(st), Read(st), F!PutBoundaryLine
  PROVE  FormIInv'
<1> DEFINE d == F!data
           n == Len(fields)
<1>1. fstep = "boundary_line" /\ F!Putting /\ UNCHANGED <<F!sender, come, field, fields>>
  BY DEF F!PutBoundaryLine
<1>2. F!TypeOK
  BY DEF FormTypes
<1>3. /\ d \in Seq(Text) /\ Len(d) = come - taken /\ come \in Nat /\ taken \in Nat
      /\ \A j \in 1 .. come - taken : d[j] = text[taken + j]
  BY <1>2, DataFacts
<1>4. Len(d) >= 5 /\ come - taken >= 5
  BY <1>1, <1>2, <1>3, PuttingFacts
<1>5. d[4] = text[taken + 4] /\ d[1] = text[taken + 1] /\ d[2] = text[taken + 2]
      /\ d[3] = text[taken + 3] /\ d[5] = text[taken + 5]
  BY <1>3, <1>4
<1>6. F!IsPrefix(F!BoundaryLine, d) <=>
        d[1] = "-" /\ d[2] = "-" /\ d[3] = "boundary" /\ d[4] = "cr" /\ d[5] = "lf"
  BY <1>3, <1>4, LineTests
<1>7. \/ /\ fstep' = "boundary_header" /\ taken' = taken + 5 /\ outcome' = outcome
         /\ F!IsPrefix(F!BoundaryLine, d)
      \/ /\ fstep' = "finished" /\ taken' = taken + 5 /\ outcome' = outcome
         /\ ~F!IsPrefix(F!BoundaryLine, d)
      \/ /\ fstep' = fstep /\ taken' = taken /\ outcome' = "failed"
         /\ ~F!IsPrefix(F!BoundaryLine, d)
  <2>1. Len(F!BoundaryLine) = 5 /\ Len(F!BoundaryLineLast) = 5
    BY LineFacts
  <2> DEFINE P == F!IsPrefix(F!BoundaryLine, F!data)
             Q == F!IsPrefix(F!BoundaryLineLast, F!data)
  <2>0. ~(P /\ Q)
    <3>1. (P => d[4] = "cr") /\ (Q => d[4] = "-")
      BY <1>3, <1>4, LineTests
    <3> HIDE DEF P, Q
    <3> QED
      BY <3>1
  <2>2. P => fstep' = "boundary_header" /\ taken' = taken + Len(F!BoundaryLine) /\ outcome' = outcome
    BY <2>0 DEF F!PutBoundaryLine
  <2>3. ~P /\ Q => fstep' = "finished" /\ taken' = taken + Len(F!BoundaryLineLast)
                   /\ outcome' = outcome
    BY <2>0 DEF F!PutBoundaryLine
  <2>4. ~P /\ ~Q => outcome' = "failed" /\ fstep' = fstep /\ taken' = taken
    BY DEF F!PutBoundaryLine
  <2> HIDE DEF P, Q
  <2>5. P => fstep' = "boundary_header" /\ taken' = taken + 5 /\ outcome' = outcome
    BY <2>1, <2>2
  <2>6. ~P /\ Q => fstep' = "finished" /\ taken' = taken + 5 /\ outcome' = outcome
    BY <2>1, <2>3
  <2>7. P \/ (~P /\ Q) \/ (~P /\ ~Q)
    OBVIOUS
  <2>8. CASE P
    BY <2>5, <2>8, Zenon DEF P
  <2>9. CASE ~P /\ Q
    BY <2>6, <2>9, Zenon DEF P
  <2>10. CASE ~P /\ ~Q
    BY <2>4, <2>10, Zenon DEF P
  <2> QED
    BY <2>7, <2>8, <2>9, <2>10
<1>8. \/ n < findex /\ taken = st[n + 1] /\ F!IsPrefix(F!BoundaryLine, d)
      \/ n = Len(form) /\ ~F!IsPrefix(F!BoundaryLine, d)
  BY <1>1, <1>4, <1>5, <1>6, BoundaryAhead
<1> DEFINE w == F!IsPrefix(F!BoundaryLine, d)
<1> HIDE DEF w
<1>9. Read(st)'
  <2>1. form' = form /\ findex' = findex /\ fields' = fields
    BY <1>1 DEF F!sender
  <2>2. CASE w
    <3>1. fstep' = "boundary_header" /\ taken' = taken + 5 /\ n < findex /\ taken = st[n + 1]
      BY <1>7, <1>8, <2>2 DEF w
    <3> QED
      BY <2>1, <3>1, ReaderFacts DEF Read
  <2>3. CASE ~w
    <3>1. n = Len(form) /\ \/ fstep' = "finished"
                           \/ fstep' = fstep /\ taken' = taken
      BY <1>7, <1>8, <2>3 DEF w
    <3>2. CASE fstep' = "finished"
      BY <2>1, <3>1, <3>2, ReaderFacts DEF Read
    <3>3. CASE fstep' = fstep /\ taken' = taken
      BY <1>1, <2>1, <3>1, <3>3 DEF Read, Content
    <3> QED
      BY <3>1, <3>2, <3>3
  <2> QED
    BY <2>2, <2>3
<1>10. outcome = "reading" /\ outcome' \in {"reading", "failed"}
       /\ fstep' \in {"boundary_line", "boundary_header", "finished"}
  BY <1>1, <1>2, <1>7, PuttingFacts
<1>11. taken' \in 0 .. come
  <2>1. taken' = taken + 5 \/ taken' = taken
    BY <1>7
  <2> QED
    BY <1>3, <1>4, <2>1
<1>12. field' \in Records /\ fields' \in Seq(Records) /\ come' = come /\ UNCHANGED F!sender
  BY <1>1, ReaderFacts
<1> QED
  BY <1>9, <1>10, <1>11, <1>12, ReaderStep

\* A field's header ends where its name does: nothing before can be a line end.
LEMMA HeaderAhead ==
  ASSUME FormTypes, NEW st, Starts(st), Laid(st), Read(st), fstep = "boundary_header", F!Putting
  PROVE  /\ Len(fields) < findex /\ taken = st[Len(fields) + 1] + 5
         /\ F!data[1] = form[Len(fields) + 1].name
         /\ F!Min(F!HeaderEnds) = 2 /\ come - taken >= 5
<1> DEFINE d == F!data
           n == Len(fields)
           i == n + 1
           s == st[i]
<1>1. F!TypeOK
  BY DEF FormTypes
<1>2. /\ d \in Seq(Text) /\ Len(d) = come - taken /\ come \in Nat /\ taken \in Nat
      /\ taken <= come /\ come <= Len(text) /\ Len(text) \in Nat
      /\ \A j \in 1 .. come - taken : d[j] = text[taken + j]
  BY <1>1, DataFacts
<1>3. n < findex /\ taken = s + 5
  BY DEF Read
<1>4. i \in 1 .. findex /\ s \in Nat /\ i \in 1 .. Len(form)
  BY <1>3, ReaderFacts, StartFacts
<1>5. Written(text, i, s)
  BY <1>4 DEF Laid
<1>6. /\ At(text, s + 6, form[i].name) /\ At(text, s + 7, "cr") /\ At(text, s + 8, "lf")
      /\ At(text, s + 9, "cr") /\ At(text, s + 10, "lf")
  BY <1>5 DEF Written
<1>7. PICK k \in 1 .. Len(d) - 3 : SubSeq(d, k, k + 3) = F!CRLF \o F!CRLF
  BY <1>1, PuttingFacts DEF F!HeaderEnds
<1>8. ASSUME NEW q \in 1 .. Len(d) - 3
      PROVE  /\ SubSeq(d, q, q + 3) \in Seq(Text) /\ Len(SubSeq(d, q, q + 3)) = 4
             /\ \A j \in 1 .. 4 : SubSeq(d, q, q + 3)[j] = d[q + j - 1]
  <2>1. q \in Nat /\ q >= 1 /\ q + 3 <= Len(d) /\ Len(d) \in Nat /\ q + 3 \in Nat
    BY <1>2
  <2>2. \A j \in q .. q + 3 : d[j] \in Text
    <3>1. \A j \in 1 .. Len(d) : d[j] \in Text
      BY <1>2, ElementOfSeq
    <3> QED
      BY <2>1, <3>1
  <2> HIDE DEF d
  <2> DEFINE e == q + 3
             b == SubSeq(d, q, e)
  <2>3. e \in Nat /\ e <= Len(d) /\ q <= e /\ e - q + 1 = 4 /\ e \in 0 .. Len(d) /\ q \in 1 .. Len(d) + 1
    BY <2>1
  <2>4. \A j \in q .. e : d[j] \in Text
    BY <2>2
  <2> HIDE DEF e
  <2>5. /\ b \in Seq(Text) /\ Len(b) = IF q <= e THEN e - q + 1 ELSE 0
        /\ \A j \in 1 .. e - q + 1 : b[j] = d[q + j - 1]
    BY <1>2, <2>1, <2>3, <2>4, SubSeqProperties
  <2> HIDE DEF b
  <2>6. b \in Seq(Text) /\ Len(b) = 4 /\ \A j \in 1 .. 4 : b[j] = d[q + j - 1]
    BY <2>3, <2>5
  <2> QED
    BY <2>6 DEF b, e
<1>9. \A q \in 1 .. Len(d) - 3 :
        SubSeq(d, q, q + 3) = F!CRLF \o F!CRLF <=>
          d[q] = "cr" /\ d[q + 1] = "lf" /\ d[q + 2] = "cr" /\ d[q + 3] = "lf"
  <2> TAKE q \in 1 .. Len(d) - 3
  <2> DEFINE b == SubSeq(d, q, q + 3)
             c == F!CRLF \o F!CRLF
  <2>1. c = <<"cr", "lf", "cr", "lf">>
    BY LineFacts
  <2>2. Len(c) = 4 /\ c[1] = "cr" /\ c[2] = "lf" /\ c[3] = "cr" /\ c[4] = "lf"
    BY <2>1
  <2>3. c \in Seq(Text)
    <3>1. \A x, y, z, w \in Text : <<x, y, z, w>> \in Seq(Text)
      OBVIOUS
    <3>2. "cr" \in Text /\ "lf" \in Text
      BY CharFacts
    <3> QED
      BY <2>1, <3>1, <3>2, Zenon
  <2>4. b \in Seq(Text) /\ Len(b) = 4 /\ \A j \in 1 .. 4 : b[j] = d[q + j - 1]
    BY <1>8
  <2> HIDE DEF b, c
  <2>5. q \in Nat
    BY <1>2
  <2>6. b[1] = d[q] /\ b[2] = d[q + 1] /\ b[3] = d[q + 2] /\ b[4] = d[q + 3]
    <3>1. q + 1 - 1 = q /\ q + 2 - 1 = q + 1 /\ q + 3 - 1 = q + 2 /\ q + 4 - 1 = q + 3
      BY <2>5
    <3>2. b[1] = d[q + 1 - 1] /\ b[2] = d[q + 2 - 1] /\ b[3] = d[q + 3 - 1] /\ b[4] = d[q + 4 - 1]
      BY <2>4
    <3> QED
      BY <3>1, <3>2
  <2>7. b = c <=> b[1] = c[1] /\ b[2] = c[2] /\ b[3] = c[3] /\ b[4] = c[4]
    <3>1. ASSUME b[1] = c[1], b[2] = c[2], b[3] = c[3], b[4] = c[4] PROVE b = c
      <4>1. \A j \in 1 .. 4 : b[j] = c[j]
        BY <3>1
      <4>2. Len(b) = Len(c) /\ \A j \in 1 .. Len(b) : b[j] = c[j]
        BY <2>2, <2>4, <4>1
      <4> QED
        BY <2>3, <2>4, <4>2, SeqEqual
    <3> QED
      BY <3>1
  <2>8. b = c <=> d[q] = "cr" /\ d[q + 1] = "lf" /\ d[q + 2] = "cr" /\ d[q + 3] = "lf"
    BY <2>2, <2>6, <2>7
  <2> QED
    BY <2>8 DEF b, c
<1> HIDE DEF d
<1>10. k \in Nat /\ k >= 1 /\ Len(d) >= 4 /\ s + 6 <= Len(text) /\ s + 6 = taken + 1
  <2>1. k \in Nat /\ k >= 1 /\ k <= Len(d) - 3
    BY <1>2
  <2> HIDE DEF s
  <2>2. Len(d) >= 4
    BY <1>2, <2>1
  <2>3. s + 6 = taken + 1
    BY <1>3, <1>4
  <2>4. taken + 1 <= Len(text)
    BY <1>2, <2>2
  <2> QED
    BY <2>1, <2>2, <2>3, <2>4
<1>11. d[1] = form[i].name
  <2>1. d[1] = text[taken + 1]
    BY <1>2, <1>10
  <2> QED
    BY <1>6, <1>10, <2>1 DEF At
<1>12. d[1] # "cr"
  <2>1. form[i].name \in Names
    BY <1>1, <1>4, FieldFacts
  <2>2. "cr" \in F!Chars
    BY CharFacts
  <2> QED
    BY <1>11, <2>1, <2>2, MessagesAssumption
<1>13. k # 1
  BY <1>7, <1>9, <1>12
<1>14. Len(d) >= 5 /\ come - taken >= 5
  BY <1>2, <1>10, <1>13
<1>15. d[2] = "cr" /\ d[3] = "lf" /\ d[4] = "cr" /\ d[5] = "lf"
  <2>1. /\ s + 7 = taken + 2 /\ s + 8 = taken + 3 /\ s + 9 = taken + 4 /\ s + 10 = taken + 5
        /\ s + 7 <= Len(text) /\ s + 8 <= Len(text) /\ s + 9 <= Len(text) /\ s + 10 <= Len(text)
    <3> HIDE DEF s
    <3> QED
      BY <1>2, <1>3, <1>4, <1>14
  <2>2. text[s + 7] = "cr" /\ text[s + 8] = "lf" /\ text[s + 9] = "cr" /\ text[s + 10] = "lf"
    BY <1>6, <2>1 DEF At
  <2>3. d[2] = text[taken + 2] /\ d[3] = text[taken + 3] /\ d[4] = text[taken + 4]
        /\ d[5] = text[taken + 5]
    BY <1>2, <1>14
  <2> QED
    BY <2>1, <2>2, <2>3
<1> DEFINE H == F!HeaderEnds
<1>16. 2 \in H /\ (\A q \in H : q \in 1 .. Len(d) - 3 /\ q # 1)
  <2>1. 2 \in 1 .. Len(d) - 3
    BY <1>2, <1>14
  <2>2. SubSeq(d, 2, 2 + 3) = F!CRLF \o F!CRLF
    <3>1. d[2] = "cr" /\ d[2 + 1] = "lf" /\ d[2 + 2] = "cr" /\ d[2 + 3] = "lf"
      BY <1>15
    <3> QED
      BY <1>9, <2>1, <3>1
  <2>3. \A q \in H : q \in 1 .. Len(d) - 3 /\ SubSeq(d, q, q + 3) = F!CRLF \o F!CRLF
    BY DEF F!HeaderEnds, d
  <2>4. 2 \in H
    BY <2>1, <2>2 DEF F!HeaderEnds, d
  <2>5. ASSUME NEW q \in H PROVE q # 1
    BY <1>9, <1>12, <2>3
  <2> QED
    BY <2>3, <2>4, <2>5
<1> HIDE DEF H
<1>17. F!Min(H) = 2
  <2>1. \A q \in H : q \in Nat /\ q >= 2
    BY <1>2, <1>16
  <2>2. \A x \in H : (\A y \in H : x <= y) <=> x = 2
    BY <1>16, <2>1
  <2> QED
    BY <1>16, <2>2 DEF F!Min
<1> QED
  BY <1>3, <1>11, <1>14, <1>17 DEF H, d

\* put() at the header of a field.
LEMMA FormPutBoundaryHeader ==
  ASSUME FormTypes, NEW st, Starts(st), Laid(st), Read(st), F!PutBoundaryHeader
  PROVE  FormIInv'
<1> DEFINE n == Len(fields)
<1>1. /\ fstep = "boundary_header" /\ F!Putting /\ fstep' = "boundary_content"
      /\ field' = [name |-> F!data[1], content |-> <<>>]
      /\ taken' = taken + F!Min(F!HeaderEnds) + 3
      /\ UNCHANGED <<F!sender, come, fields, outcome>>
  BY DEF F!PutBoundaryHeader
<1>2. /\ n < findex /\ taken = st[n + 1] + 5 /\ F!data[1] = form[n + 1].name
      /\ F!Min(F!HeaderEnds) = 2 /\ come - taken >= 5
  BY <1>1, HeaderAhead
<1>3. /\ n \in Nat /\ fields \in Seq(Records) /\ n + 1 \in 1 .. findex /\ n + 1 \in 1 .. Len(form)
      /\ come \in Nat /\ taken \in Nat /\ st[n + 1] \in Nat
  BY <1>2, ReaderFacts, StartFacts
<1>4. taken' = taken + 5 /\ taken' \in 0 .. come /\ taken' = st[n + 1] + 10 + 0
  <2>1. taken' = taken + 2 + 3
    BY <1>1, <1>2
  <2> DEFINE s == st[n + 1]
  <2>2. s \in Nat /\ taken = s + 5 /\ taken \in Nat /\ come \in Nat /\ come - taken >= 5
    BY <1>2, <1>3
  <2> HIDE DEF s
  <2>3. taken' = taken + 5 /\ taken' \in 0 .. come /\ taken' = s + 10 + 0
    BY <2>1, <2>2
  <2> QED
    BY <2>3 DEF s
<1>5. form[n + 1].name \in Names /\ Len(Content(n + 1)) \in Nat
  BY <1>3, FieldFacts DEF FormTypes
<1>6. field'.name = form[n + 1].name /\ field'.content = <<>> /\ field' \in Records
  <2>1. <<>> \in Seq(F!Chars)
    OBVIOUS
  <2> QED
    BY <1>1, <1>2, <1>5, <2>1 DEF Records
<1>7. Read(st)'
  <2>1. form' = form /\ findex' = findex /\ fields' = fields
    BY <1>1 DEF F!sender
  <2>2. Len(field'.content) = 0 /\ 0 <= Len(Content(n + 1))
    BY <1>5, <1>6
  <2>3. \A j \in 1 .. 0 : FALSE
    OBVIOUS
  <2>4. taken' = st[n + 1] + 10 + Len(field'.content)
    BY <1>4, <2>2
  <2> QED
    BY <1>1, <1>2, <1>6, <2>1, <2>2, <2>3, <2>4, ReaderFacts DEF Read, Content
<1>8. outcome' = "reading"
  BY <1>1, PuttingFacts DEF FormTypes
<1>9. UNCHANGED F!sender /\ come' = come /\ fields' \in Seq(Records)
  BY <1>1, <1>3
<1> QED
  BY <1>1, <1>4, <1>6, <1>7, <1>8, <1>9, ReaderStep

\* put() behind the closing boundary.
LEMMA FormPutFinished ==
  ASSUME FormTypes, NEW st, Starts(st), Laid(st), Read(st), F!PutFinished
  PROVE  FormIInv'
<1>1. /\ fstep = "finished" /\ F!Putting /\ UNCHANGED <<F!sender, come, field, fields>>
      /\ \/ fstep' = "eof" /\ taken' = taken + 2 /\ outcome' = outcome
         \/ fstep' = fstep /\ taken' = taken /\ outcome' = "failed"
  BY DEF F!PutFinished
<1>2. Len(F!data) >= 2 /\ outcome = "reading"
  BY <1>1, PuttingFacts DEF FormTypes
<1>3. Len(F!data) = come - taken /\ come \in Nat /\ taken \in Nat /\ taken <= come
  BY DataFacts DEF FormTypes
<1>4. taken' \in 0 .. come
  <2>1. taken' = taken + 2 \/ taken' = taken
    BY <1>1
  <2> QED
    BY <1>2, <1>3, <2>1
<1>5. fstep' \in {"finished", "eof"} /\ outcome' \in {"reading", "failed"}
  BY <1>1, <1>2
<1>6. Read(st)'
  <2>1. form' = form /\ findex' = findex /\ fields' = fields
    BY <1>1 DEF F!sender
  <2>2. Len(fields) = Len(form)
    BY <1>1 DEF Read
  <2> QED
    BY <1>5, <2>1, <2>2, ReaderFacts DEF Read
<1>7. UNCHANGED F!sender /\ come' = come /\ fields' \in Seq(Records) /\ field' \in Records
  BY <1>1, ReaderFacts
<1> QED
  BY <1>4, <1>5, <1>6, <1>7, ReaderStep

\* The field that is read, how much of its content is there, and how much there
\* is to be.
Current == Len(fields) + 1
HasRead == Len(field.content)
ToRead  == Len(Content(Current))

\* What comes next while a content is read: the rest of it, and the line end and
\* the boundary behind it.
LEMMA ContentAhead ==
  ASSUME FormTypes, NEW st, Starts(st), Laid(st), Read(st), fstep = "boundary_content"
  PROVE  /\ Current \in 1 .. findex /\ Current \in 1 .. Len(form)
         /\ HasRead \in Nat /\ ToRead \in Nat /\ HasRead <= ToRead
         /\ st[Current] \in Nat /\ taken = st[Current] + 10 + HasRead
         /\ \A j \in 1 .. come - taken :
              /\ HasRead + j <= ToRead => F!data[j] = Content(Current)[HasRead + j]
              /\ HasRead + j = ToRead + 1 => F!data[j] = "cr"
              /\ HasRead + j = ToRead + 2 => F!data[j] = "lf"
         /\ come - taken >= 5 /\ HasRead = ToRead =>
              F!data[3] = "-" /\ F!data[4] = "-" /\ F!data[5] = "boundary"
<1> DEFINE i == Current
           m == HasRead
           L == ToRead
           d == F!data
<1> DEFINE s == st[i]
<1>1. Len(fields) < findex /\ taken = s + 10 + m /\ m <= L
  BY DEF Read, Current, HasRead, ToRead
<1>2. i \in 1 .. findex /\ i \in 1 .. Len(form) /\ s \in Nat /\ L \in Nat /\ findex \in Nat
  BY <1>1, ReaderFacts, StartFacts DEF Current, ToRead
<1>3. m \in Nat
  <2>1. field.content \in Seq(F!Chars)
    BY DEF FormTypes, F!TypeOK
  <2> QED
    BY <2>1, LenProperties DEF HasRead
<1>4. /\ come \in Nat /\ taken \in Nat /\ taken <= come /\ come <= Len(text) /\ Len(text) \in Nat
      /\ \A j \in 1 .. come - taken : d[j] = text[taken + j]
  BY DataFacts DEF FormTypes
<1>5. Written(text, i, s)
  BY <1>2 DEF Laid
<1>6. /\ \A j \in 1 .. L : At(text, s + 10 + j, Content(i)[j])
      /\ At(text, s + L + 11, "cr") /\ At(text, s + L + 12, "lf")
      /\ i = Len(form) => /\ At(text, s + L + 13, "-") /\ At(text, s + L + 14, "-")
                          /\ At(text, s + L + 15, "boundary")
  BY <1>5 DEF Written, ToRead
<1>7. ASSUME NEW j \in 1 .. come - taken
      PROVE  /\ m + j <= L => d[j] = Content(i)[m + j]
             /\ m + j = L + 1 => d[j] = "cr"
             /\ m + j = L + 2 => d[j] = "lf"
  <2>1. j \in Nat /\ 1 <= j /\ taken + j <= Len(text) /\ d[j] = text[taken + j]
    BY <1>4
  <2>2. ASSUME m + j <= L PROVE d[j] = Content(i)[m + j]
    <3>1. m + j \in 1 .. L /\ s + 10 + (m + j) = taken + j
      <4> HIDE DEF s
      <4> QED
        BY <1>1, <1>2, <1>3, <2>1, <2>2
    <3>2. At(text, s + 10 + (m + j), Content(i)[m + j])
      BY <1>6, <3>1
    <3> QED
      BY <2>1, <3>1, <3>2 DEF At
  <2>3. ASSUME m + j = L + 1 PROVE d[j] = "cr"
    <3>1. s + L + 11 = taken + j
      <4> HIDE DEF s
      <4> QED
        BY <1>1, <1>2, <1>3, <2>1, <2>3
    <3> QED
      BY <1>6, <2>1, <3>1 DEF At
  <2>4. ASSUME m + j = L + 2 PROVE d[j] = "lf"
    <3>1. s + L + 12 = taken + j
      <4> HIDE DEF s
      <4> QED
        BY <1>1, <1>2, <1>3, <2>1, <2>4
    <3> QED
      BY <1>6, <2>1, <3>1 DEF At
  <2> QED
    BY <2>2, <2>3, <2>4
<1>8. ASSUME come - taken >= 5, m = L PROVE d[3] = "-" /\ d[4] = "-" /\ d[5] = "boundary"
  <2>1. /\ taken = s + L + 10 /\ s + L + 13 = taken + 3 /\ s + L + 14 = taken + 4
        /\ s + L + 15 = taken + 5 /\ taken + 3 <= Len(text) /\ taken + 4 <= Len(text)
        /\ taken + 5 <= Len(text)
    <3> HIDE DEF s
    <3>1. taken = s + 10 + L
      BY <1>1, <1>8
    <3>2. /\ taken = s + L + 10 /\ s + L + 13 = taken + 3 /\ s + L + 14 = taken + 4
          /\ s + L + 15 = taken + 5
      BY <1>2, <3>1
    <3>3. taken + 3 <= Len(text) /\ taken + 4 <= Len(text) /\ taken + 5 <= Len(text)
      BY <1>4, <1>8
    <3> QED
      BY <3>2, <3>3
  <2>2. d[3] = text[taken + 3] /\ d[4] = text[taken + 4] /\ d[5] = text[taken + 5]
    BY <1>4, <1>8
  <2>3. At(text, s + L + 13, "-") /\ At(text, s + L + 14, "-") /\ At(text, s + L + 15, "boundary")
    <3>1. CASE i = findex
      <4>1. wstep = "eof"
        <5>1. wstep \in {"header", "content", "content_end", "eof"}
          BY DEF FormTypes, F!TypeOK
        <5>2. Len(text) <= s + Progress
          BY <3>1 DEF Laid
        <5>3. ASSUME wstep # "eof" PROVE FALSE
          <6>1. Progress \in {0, 10, L + 10}
            BY <3>1, <5>1, <5>3 DEF Progress, ToRead
          <6>2. Progress <= L + 10 /\ Progress \in Nat
            BY <1>2, <6>1
          <6> HIDE DEF s
          <6> QED
            BY <1>2, <1>4, <2>1, <5>2, <6>2
        <5> QED
          BY <5>3
      <4>2. i = Len(form)
        BY <3>1, <4>1 DEF Laid
      <4> QED
        BY <1>6, <4>2
    <3>2. CASE i # findex
      <4>1. i + 1 \in 1 .. findex /\ st[i + 1] = s + L + 12
        BY <1>2, <3>2, StartFacts DEF ToRead
      <4>2. Written(text, i + 1, st[i + 1])
        BY <4>1 DEF Laid
      <4>3. /\ At(text, st[i + 1] + 1, "-") /\ At(text, st[i + 1] + 2, "-")
            /\ At(text, st[i + 1] + 3, "boundary")
        BY <4>2 DEF Written
      <4>4. st[i + 1] + 1 = s + L + 13 /\ st[i + 1] + 2 = s + L + 14 /\ st[i + 1] + 3 = s + L + 15
        <5> HIDE DEF s
        <5> QED
          BY <1>2, <4>1
      <4> QED
        BY <4>3, <4>4
    <3> QED
      BY <3>1, <3>2
  <2> QED
    BY <2>1, <2>2, <2>3 DEF At
<1> QED
  BY <1>1, <1>2, <1>3, <1>7, <1>8

\* More of a content is read.
LEMMA MoreContent ==
  ASSUME FormTypes, NEW st, Starts(st), Laid(st), Read(st), fstep = "boundary_content",
         NEW c2 \in Seq(F!Chars), NEW k \in Nat, k <= come - taken, Len(c2) = HasRead + k,
         HasRead + k <= ToRead, \A j \in 1 .. HasRead : c2[j] = field.content[j],
         \A j \in 1 .. k : c2[HasRead + j] = Content(Current)[HasRead + j],
         field' = [field EXCEPT !.content = c2], taken' = taken + k,
         UNCHANGED <<F!sender, come, fstep, fields, outcome>>, outcome = "reading"
  PROVE  FormIInv'
<1> DEFINE i == Current
           m == HasRead
           L == ToRead
<1>1. /\ i \in 1 .. findex /\ i \in 1 .. Len(form) /\ m \in Nat /\ L \in Nat /\ m <= L
      /\ st[i] \in Nat /\ taken = st[i] + 10 + m
  BY ContentAhead
<1>2. /\ come \in Nat /\ taken \in Nat /\ taken <= come /\ Len(fields) \in Nat
      /\ fields \in Seq(Records) /\ field \in Records
  BY ReaderFacts
<1>3. taken' \in 0 .. come /\ taken' = st[i] + 10 + Len(c2)
  <2> DEFINE s == st[i]
  <2>1. s \in Nat /\ taken = s + 10 + m
    BY <1>1
  <2> HIDE DEF s
  <2>2. taken' = s + 10 + (m + k)
    BY <1>1, <2>1
  <2>3. taken' \in 0 .. come
    BY <1>2
  <2> QED
    BY <2>2, <2>3 DEF s
<1>4. field' \in Records /\ field'.content = c2 /\ field'.name = field.name
  BY <1>2 DEF Records
<1>5. ASSUME NEW j \in 1 .. Len(c2) PROVE c2[j] = Content(i)[j]
  <2>1. CASE j \in 1 .. m
    <3>1. c2[j] = field.content[j]
      BY <2>1
    <3>2. field.content[j] = Content(i)[j]
      BY <2>1 DEF Read, HasRead, Current
    <3> QED
      BY <3>1, <3>2
  <2>2. CASE j \notin 1 .. m
    <3>1. j - m \in 1 .. k /\ m + (j - m) = j
      <4>1. j \in 1 .. m + k /\ m \in Nat /\ j \notin 1 .. m
        BY <1>1, <2>2
      <4> HIDE DEF m
      <4> QED
        BY <4>1
    <3>2. c2[m + (j - m)] = Content(i)[m + (j - m)]
      BY <3>1
    <3> QED
      BY <3>1, <3>2
  <2> QED
    BY <2>1, <2>2
<1>6. Read(st)'
  <2>1. form' = form /\ findex' = findex /\ fields' = fields /\ fstep' = fstep
    BY DEF F!sender
  <2>2. Len(fields) < findex /\ field.name = form[i].name
    BY DEF Read, Current
  <2>3. Len(c2) <= Len(Content(i))
    BY DEF ToRead
  <2> QED
    BY <1>3, <1>4, <1>5, <2>1, <2>2, <2>3, ReaderFacts DEF Read, Content, Current
<1>7. UNCHANGED F!sender /\ come' = come /\ fields' \in Seq(Records) /\ fstep' = "boundary_content"
      /\ outcome' = "reading"
  BY <1>2
<1> QED
  BY <1>3, <1>4, <1>6, <1>7, ReaderStep

\* How far the next carriage return is: what is taken as content is.
LEMMA UpToReturn ==
  ASSUME FormTypes, F!data # <<>>, Head(F!data) # "cr",
         NEW crs, crs = {j \in DOMAIN F!data : F!data[j] = "cr"},
         NEW k, k = IF crs = {} THEN Len(F!data) ELSE F!Min(crs) - 1
  PROVE  k \in Nat /\ k <= come - taken /\ \A j \in 1 .. k : F!data[j] # "cr"
<1> DEFINE d == F!data
<1>1. d \in Seq(Text) /\ Len(d) = come - taken /\ Len(d) \in Nat /\ DOMAIN d = 1 .. Len(d)
  BY DataFacts, LenProperties DEF FormTypes
<1>2. crs = {j \in 1 .. Len(d) : d[j] = "cr"}
  BY <1>1
<1> HIDE DEF d
<1>3. CASE crs = {}
  <2>1. k = Len(d)
    BY <1>3 DEF d
  <2>2. \A j \in 1 .. Len(d) : d[j] # "cr"
    BY <1>2, <1>3
  <2> QED
    BY <1>1, <2>1, <2>2 DEF d
<1>4. CASE crs # {}
  <2>1. \A j \in crs : j \in Nat /\ j >= 1 /\ j <= Len(d)
    BY <1>1, <1>2
  <2>2. PICK x \in crs : \A y \in crs : x <= y
    <3>1. crs \in SUBSET Nat
      BY <2>1
    <3> QED
      BY <1>4, <3>1, LeastOf
  <2>3. F!Min(crs) \in crs /\ \A y \in crs : F!Min(crs) <= y
    BY <2>2 DEF F!Min
  <2> DEFINE e == F!Min(crs)
  <2> HIDE DEF e
  <2>4. e \in crs /\ e \in Nat /\ e >= 1 /\ e <= Len(d) /\ \A y \in crs : e <= y
    BY <2>1, <2>3 DEF e
  <2>5. k = e - 1
    BY <1>4 DEF e
  <2>6. k \in Nat /\ k <= come - taken
    BY <1>1, <2>4, <2>5
  <2>7. ASSUME NEW j \in 1 .. k PROVE d[j] # "cr"
    <3>1. j \in 1 .. Len(d) /\ ~(e <= j)
      BY <1>1, <2>4, <2>5, <2>6
    <3> QED
      BY <1>2, <2>4, <3>1
  <2> QED
    BY <2>6, <2>7 DEF d
<1> QED
  BY <1>3, <1>4

\* r is the content p and behind it the content q.
Joined(p, q, r) ==
  /\ r \in Seq(F!Chars) /\ Len(r) = Len(p) + Len(q)
  /\ \A j \in 1 .. Len(p) : r[j] = p[j]
  /\ \A j \in 1 .. Len(q) : r[Len(p) + j] = q[j]

\* Such is what put() has after it has appended q.
LEMMA JoinedContent ==
  ASSUME NEW p \in Seq(F!Chars), NEW q \in Seq(F!Chars)
  PROVE  Joined(p, q, p \o q)
<1> DEFINE S == F!Chars
           r == p \o q
<1>1. p \in Seq(S) /\ q \in Seq(S) /\ r = p \o q
  OBVIOUS
<1> HIDE DEF S, r
<1>2. /\ r \in Seq(S) /\ Len(r) = Len(p) + Len(q)
      /\ \A j \in 1 .. Len(p) : r[j] = p[j]
      /\ \A j \in 1 .. Len(q) : r[Len(p) + j] = q[j]
  BY <1>1, JoinFacts
<1> QED
  BY <1>2 DEF Joined, S, r

\* put() in a content, up to a carriage return.
LEMMA FormPutContent ==
  ASSUME FormTypes, NEW st, Starts(st), Laid(st), Read(st), F!PutContent
  PROVE  FormIInv'
<1> DEFINE d   == F!data
           crs == {j \in DOMAIN d : d[j] = "cr"}
           k   == IF crs = {} THEN Len(d) ELSE F!Min(crs) - 1
           u   == SubSeq(d, 1, k)
           c   == field.content
           i   == Current
           m   == HasRead
           L   == ToRead
<1>1. /\ fstep = "boundary_content" /\ F!Putting /\ Head(d) # "cr"
      /\ field' = [field EXCEPT !.content = c \o u] /\ taken' = taken + k
      /\ UNCHANGED <<F!sender, come, fstep, fields, outcome>>
  BY DEF F!PutContent
<1>2. d # <<>> /\ outcome = "reading"
  BY <1>1, PuttingFacts DEF FormTypes
<1>3. k \in Nat /\ k <= come - taken /\ \A j \in 1 .. k : d[j] # "cr"
  <2>1. crs = {j \in DOMAIN F!data : F!data[j] = "cr"}
    OBVIOUS
  <2>2. k = IF crs = {} THEN Len(F!data) ELSE F!Min(crs) - 1
    OBVIOUS
  <2> HIDE DEF k, crs
  <2> QED
    BY <1>1, <1>2, <2>1, <2>2, UpToReturn
<1> HIDE DEF k
<1>4. /\ m \in Nat /\ L \in Nat /\ m <= L /\ i \in 1 .. Len(form)
      /\ \A j \in 1 .. come - taken : /\ m + j <= L => d[j] = Content(i)[m + j]
                                      /\ m + j = L + 1 => d[j] = "cr"
  BY <1>1, ContentAhead
<1>5. come \in Nat /\ taken \in Nat /\ d \in Seq(Text) /\ Len(d) = come - taken
  BY DataFacts DEF FormTypes
<1> HIDE DEF d
<1>6. m + k <= L
  <2>1. SUFFICES ASSUME ~(m + k <= L) PROVE FALSE
    OBVIOUS
  <2> DEFINE j == L + 1 - m
  <2>2. j \in 1 .. k /\ j \in 1 .. come - taken /\ m + j = L + 1
    BY <1>3, <1>4, <1>5, <2>1
  <2> HIDE DEF j
  <2> QED
    BY <1>3, <1>4, <2>2
<1>7. \A j \in 1 .. k : d[j] = Content(i)[m + j] /\ d[j] \in F!Chars
  <2> TAKE j \in 1 .. k
  <2>1. j \in 1 .. come - taken /\ m + j <= L /\ m + j \in 1 .. L
    BY <1>3, <1>4, <1>5, <1>6
  <2>2. d[j] = Content(i)[m + j]
    BY <1>4, <2>1
  <2>3. \A q \in 1 .. Len(Content(i)) : Content(i)[q] \in F!Chars
    BY <1>4, FieldFacts DEF FormTypes
  <2>4. Content(i)[m + j] \in F!Chars
    BY <2>1, <2>3 DEF ToRead
  <2> QED
    BY <2>2, <2>4
<1>8. u \in Seq(F!Chars) /\ Len(u) = k /\ \A j \in 1 .. k : u[j] = d[j]
  <2>1. k \in 0 .. Len(d) /\ (k = 0 \/ 1 <= k) /\ Len(d) \in Nat
    BY <1>3, <1>5
  <2>2. \A j \in 1 .. k : d[j] \in F!Chars
    BY <1>7
  <2> QED
    BY <1>5, <2>1, <2>2, SubSeqProperties
<1> HIDE DEF u
<1> DEFINE c2 == c \o u
<1>9. /\ c2 \in Seq(F!Chars) /\ Len(c2) = Len(c) + Len(u)
      /\ \A j \in 1 .. Len(c) : c2[j] = c[j]
      /\ \A j \in 1 .. Len(u) : c2[Len(c) + j] = u[j]
  <2>1. c \in Seq(F!Chars)
    BY DEF FormTypes, F!TypeOK
  <2>2. u \in Seq(F!Chars)
    BY <1>8
  <2>3. Joined(c, u, c2)
    <3> HIDE DEF c
    <3> QED
      BY <2>1, <2>2, JoinedContent, Zenon
  <2> QED
    BY <2>3 DEF Joined
<1> HIDE DEF c2
<1>10. m = Len(c)
  BY DEF HasRead
<1>11. Len(c2) = m + k /\ (\A j \in 1 .. m : c2[j] = c[j])
       /\ \A j \in 1 .. k : c2[m + j] = Content(i)[m + j]
  BY <1>7, <1>8, <1>9, <1>10
<1>12. field' = [field EXCEPT !.content = c2]
  BY <1>1 DEF c2
<1> QED
  BY <1>1, <1>2, <1>3, <1>6, <1>9, <1>11, <1>12, MoreContent

\* A carriage return begins the boundary exactly where the content ends.
LEMMA ReturnEnds ==
  ASSUME FormTypes, NEW st, Starts(st), Laid(st), Read(st), fstep = "boundary_content",
         come - taken >= 5
  PROVE  F!IsPrefix(F!CRLF \o F!Boundary, F!data) <=> HasRead = ToRead
<1> DEFINE d == F!data
           i == Current
           m == HasRead
           L == ToRead
           c == Content(i)
<1>1. /\ m \in Nat /\ L \in Nat /\ m <= L /\ i \in 1 .. Len(form)
      /\ \A j \in 1 .. come - taken : /\ m + j <= L => d[j] = c[m + j]
                                      /\ m + j = L + 1 => d[j] = "cr"
                                      /\ m + j = L + 2 => d[j] = "lf"
      /\ m = L => d[3] = "-" /\ d[4] = "-" /\ d[5] = "boundary"
  BY ContentAhead
<1>2. come \in Nat /\ taken \in Nat /\ d \in Seq(Text) /\ Len(d) = come - taken /\ Len(d) >= 5
  BY DataFacts DEF FormTypes
<1>3. F!IsPrefix(F!CRLF \o F!Boundary, d) <=>
        d[1] = "cr" /\ d[2] = "lf" /\ d[3] = "-" /\ d[4] = "-" /\ d[5] = "boundary"
  BY <1>2, LineTests
<1>4. /\ 1 \in 1 .. come - taken /\ 2 \in 1 .. come - taken /\ 3 \in 1 .. come - taken
      /\ 4 \in 1 .. come - taken /\ 5 \in 1 .. come - taken
  BY <1>2
<1>5. ASSUME m = L PROVE d[1] = "cr" /\ d[2] = "lf" /\ d[3] = "-" /\ d[4] = "-" /\ d[5] = "boundary"
  <2>1. m + 1 = L + 1 /\ m + 2 = L + 2
    BY <1>1, <1>5
  <2> QED
    BY <1>1, <1>4, <1>5, <2>1
<1>6. ASSUME m # L, d[1] = "cr", d[2] = "lf", d[3] = "-", d[4] = "-", d[5] = "boundary" PROVE FALSE
  <2>1. CASE m + 5 <= L
    <3>1. m + 1 <= L /\ m + 2 <= L /\ m + 3 <= L /\ m + 4 <= L /\ m + 1 \in 1 .. L
          /\ L - m >= 5
      BY <1>1, <2>1
    <3>2. c[m + 1] = "cr" /\ c[m + 2] = "lf" /\ c[m + 3] = "-" /\ c[m + 4] = "-"
          /\ c[m + 5] = "boundary"
      BY <1>1, <1>4, <1>6, <2>1, <3>1
    <3>3. c \in F!Contents /\ c \in Seq(F!Chars) /\ DOMAIN c = 1 .. L
      BY <1>1, FieldFacts, LenProperties DEF FormTypes, ToRead
    <3> DEFINE r == SubSeq(c, m + 1, L)
    <3>4. ~F!IsPrefix(F!CRLF \o F!Boundary, r)
      <4>1. ~\E q \in DOMAIN c : F!IsPrefix(F!CRLF \o F!Boundary, SubSeq(c, q, Len(c)))
        BY <3>3 DEF F!Contents
      <4>2. m + 1 \in DOMAIN c /\ L = Len(c)
        BY <3>1, <3>3 DEF ToRead
      <4> QED
        BY <4>1, <4>2
    <3>5. r \in Seq(Text) /\ Len(r) = L - m /\ \A q \in 1 .. L - m : r[q] = c[m + q]
      <4>1. c \in Seq(Text) /\ m \in 0 .. Len(c) /\ L = Len(c) /\ r = SubSeq(c, m + 1, Len(c))
        <5>1. L = Len(c)
          BY DEF ToRead
        <5>2. c \in Seq(Text)
          <6>1. c \in Seq(F!Chars)
            BY <3>3
          <6> HIDE DEF c
          <6> QED
            BY <6>1 DEF Text
        <5> QED
          BY <1>1, <5>1, <5>2
      <4> HIDE DEF c, r
      <4> QED
        BY <4>1, DropFacts
    <3> HIDE DEF r
    <3>6. r[1] = "cr" /\ r[2] = "lf" /\ r[3] = "-" /\ r[4] = "-" /\ r[5] = "boundary" /\ Len(r) >= 5
      <4>1. /\ 1 \in 1 .. L - m /\ 2 \in 1 .. L - m /\ 3 \in 1 .. L - m /\ 4 \in 1 .. L - m
            /\ 5 \in 1 .. L - m
        BY <1>1, <3>1
      <4> QED
        BY <3>1, <3>2, <3>5, <4>1
    <3> QED
      BY <3>4, <3>5, <3>6, LineTests
  <2>2. CASE ~(m + 5 <= L)
    <3>1. L + 1 = m + 2 \/ L + 1 = m + 3 \/ L + 1 = m + 4 \/ L + 1 = m + 5
      BY <1>1, <1>6, <2>2
    <3>2. d[2] = "cr" \/ d[3] = "cr" \/ d[4] = "cr" \/ d[5] = "cr"
      BY <1>1, <1>4, <3>1
    <3> QED
      BY <1>6, <3>2
  <2> QED
    BY <2>1, <2>2
<1> QED
  BY <1>3, <1>5, <1>6

\* put() at a carriage return: of the boundary, or of the content.
LEMMA FormPutCarriageReturn ==
  ASSUME FormTypes, NEW st, Starts(st), Laid(st), Read(st), F!PutCarriageReturn
  PROVE  FormIInv'
<1> DEFINE d == F!data
           i == Current
           m == HasRead
           L == ToRead
           c == field.content
<1>1. /\ fstep = "boundary_content" /\ F!Putting /\ Head(d) = "cr"
      /\ UNCHANGED <<F!sender, come, outcome>>
      /\ IF F!IsPrefix(F!CRLF \o F!Boundary, d)
           THEN /\ fstep' = "boundary_line" /\ fields' = Append(fields, field)
                /\ taken' = taken + 2 /\ field' = field
           ELSE /\ field' = [field EXCEPT !.content = Append(c, "cr")]
                /\ taken' = taken + 1 /\ fstep' = fstep /\ fields' = fields
  BY DEF F!PutCarriageReturn
<1>2. d # <<>> /\ outcome = "reading" /\ Len(d) >= 5
  BY <1>1, PuttingFacts DEF FormTypes
<1>3. come \in Nat /\ taken \in Nat /\ Len(d) = come - taken /\ Head(d) = d[1]
  BY <1>2, DataFacts DEF FormTypes
<1>4. come - taken >= 5
  BY <1>2, <1>3
<1>5. F!IsPrefix(F!CRLF \o F!Boundary, d) <=> m = L
  BY <1>1, <1>4, ReturnEnds
<1>6. /\ m \in Nat /\ L \in Nat /\ m <= L /\ i \in 1 .. Len(form) /\ i \in 1 .. findex
      /\ st[i] \in Nat /\ taken = st[i] + 10 + m
      /\ \A j \in 1 .. come - taken : m + j <= L => d[j] = Content(i)[m + j]
  BY <1>1, ContentAhead
<1> HIDE DEF d
<1>7. CASE m = L
  <2>1. /\ fstep' = "boundary_line" /\ fields' = Append(fields, field) /\ taken' = taken + 2
        /\ field' = field
    BY <1>1, <1>5, <1>7
  <2>2. field \in Records /\ fields \in Seq(Records) /\ Len(fields) \in Nat
        /\ Len(fields) < findex /\ findex \in Nat
    BY <1>1, ReaderFacts, StartFacts DEF Read
  <2>3. field = form[i]
    <3>1. field.name = form[i].name
      BY <1>1 DEF Read, Current
    <3>2. c = Content(i)
      <4>1. \A j \in 1 .. Len(c) : c[j] = Content(i)[j]
        BY <1>1 DEF Read, Current
      <4>2. Len(c) = Len(Content(i))
        BY <1>7 DEF HasRead, ToRead
      <4>3. c \in Seq(F!Chars) /\ Content(i) \in Seq(F!Chars)
        BY <1>6, FieldFacts DEF FormTypes, F!TypeOK
      <4> DEFINE e == Content(i)
      <4> HIDE DEF c, e
      <4>4. c = e
        <5>1. c \in Seq(F!Chars) /\ e \in Seq(F!Chars) /\ Len(c) = Len(e)
              /\ \A j \in 1 .. Len(c) : c[j] = e[j]
          BY <4>1, <4>2, <4>3 DEF e
        <5> QED
          BY <5>1, SeqEqual
      <4> QED
        BY <4>4 DEF e
    <3>3. form[i] = [name |-> form[i].name, content |-> Content(i)]
      BY <1>6, FieldFacts DEF FormTypes
    <3>4. field = [name |-> field.name, content |-> c]
      BY <2>2 DEF Records
    <3> QED
      BY <3>1, <3>2, <3>3, <3>4
  <2>4. /\ fields' \in Seq(Records) /\ Len(fields') = Len(fields) + 1
        /\ \A j \in 1 .. Len(fields) : fields'[j] = fields[j]
        /\ fields'[Len(fields) + 1] = field
    <3> DEFINE f == fields'
    <3>1. f = Append(fields, field)
      BY <2>1
    <3> HIDE DEF f
    <3>2. /\ f \in Seq(Records) /\ Len(f) = Len(fields) + 1
          /\ \A j \in 1 .. Len(fields) : f[j] = fields[j]
          /\ f[Len(fields) + 1] = field
      BY <2>2, <3>1, AppendProperties
    <3> QED
      BY <3>2 DEF f
  <2>5. taken' \in 0 .. come /\ taken' = st[i] + L + 12
    <3> DEFINE s == st[i]
    <3>1. s \in Nat /\ taken = s + 10 + L /\ taken' = taken + 2
      BY <1>6, <1>7, <2>1
    <3> HIDE DEF s
    <3>2. taken' = s + L + 12
      BY <1>6, <3>1
    <3>3. taken' \in 0 .. come
      BY <1>3, <1>4, <3>1
    <3> QED
      BY <3>2, <3>3 DEF s
  <2>6. Read(st)'
    <3>1. form' = form /\ findex' = findex
      BY <1>1 DEF F!sender
    <3>2. \A j \in 1 .. Len(fields) + 1 : fields'[j] = form[j]
      <4> TAKE j \in 1 .. Len(fields) + 1
      <4>1. CASE j = Len(fields) + 1
        BY <2>3, <2>4, <4>1 DEF Current
      <4>2. CASE j \in 1 .. Len(fields)
        BY <2>4, <4>2, ReaderFacts
      <4> QED
        BY <2>2, <4>1, <4>2
    <3>3. i # 0 /\ i = Len(fields) + 1 /\ i <= findex
      BY <2>2 DEF Current
    <3>4. Len(fields') = i /\ \A j \in 1 .. i : fields'[j] = form[j]
      BY <2>4, <3>2, <3>3
    <3>5. taken' = IF i = 0 THEN 0 ELSE st[i] + Len(Content(i)) + 12
      BY <2>5, <3>3 DEF ToRead
    <3> HIDE DEF i
    <3> QED
      BY <2>1, <3>1, <3>3, <3>4, <3>5 DEF Read, Content
  <2>7. UNCHANGED F!sender /\ come' = come /\ outcome' = "reading" /\ field' \in Records
    BY <1>1, <1>2, <2>1, <2>2
  <2> QED
    BY <2>1, <2>4, <2>5, <2>6, <2>7, ReaderStep
<1>8. CASE m # L
  <2>1. /\ field' = [field EXCEPT !.content = Append(c, "cr")] /\ taken' = taken + 1
        /\ UNCHANGED <<F!sender, come, fstep, fields, outcome>>
    BY <1>1, <1>5, <1>8
  <2>2. c \in Seq(F!Chars) /\ "cr" \in F!Chars /\ m = Len(c)
    BY CharFacts DEF FormTypes, F!TypeOK, HasRead
  <2> DEFINE c2 == Append(c, "cr")
  <2>3. /\ c2 \in Seq(F!Chars) /\ Len(c2) = Len(c) + 1 /\ c2[Len(c) + 1] = "cr"
        /\ \A j \in 1 .. Len(c) : c2[j] = c[j]
    <3> HIDE DEF c
    <3> QED
      BY <2>2, AppendProperties
  <2> HIDE DEF c2
  <2>4. m + 1 <= L /\ 1 \in 1 .. come - taken /\ 1 <= come - taken
    BY <1>3, <1>4, <1>6, <1>8
  <2>5. Content(i)[m + 1] = "cr"
    BY <1>1, <1>3, <1>6, <2>4
  <2>6. \A j \in 1 .. 1 : c2[m + j] = Content(i)[m + j]
    BY <2>2, <2>3, <2>5
  <2>7. field' = [field EXCEPT !.content = c2]
    BY <2>1 DEF c2
  <2> QED
    BY <1>1, <1>2, <2>1, <2>2, <2>3, <2>4, <2>6, <2>7, MoreContent
<1> QED
  BY <1>7, <1>8

\* Every step of the form keeps its invariant.
LEMMA FormStep == FormIInv /\ (F!Next \/ UNCHANGED formVars) => FormIInv'
<1> SUFFICES ASSUME FormIInv, F!Next \/ UNCHANGED formVars PROVE FormIInv'
  OBVIOUS
<1>1. PICK st : FormTypes /\ Ended /\ Starts(st) /\ Laid(st) /\ Read(st)
  BY DEF FormIInv
<1>2. CASE F!WriteHeader
  BY <1>1, <1>2, FormWriteHeader
<1>3. CASE F!WriteContent
  BY <1>1, <1>3, FormWriteContent
<1>4. CASE F!WriteContentEnd
  BY <1>1, <1>4, FormWriteLast, FormWriteNext
<1>5. CASE F!Cut
  BY <1>1, <1>5, FormCut
<1>6. CASE F!PutBoundaryLine
  BY <1>1, <1>6, FormPutBoundaryLine
<1>7. CASE F!PutBoundaryHeader
  BY <1>1, <1>7, FormPutBoundaryHeader
<1>8. CASE F!PutContent
  BY <1>1, <1>8, FormPutContent
<1>9. CASE F!PutCarriageReturn
  BY <1>1, <1>9, FormPutCarriageReturn
<1>10. CASE F!PutFinished
  BY <1>1, <1>10, FormPutFinished
<1>11. CASE F!Arrive \/ F!Starve \/ F!Finish \/ UNCHANGED formVars
  BY <1>1, <1>11, FormOther
<1> QED
  BY <1>2, <1>3, <1>4, <1>5, <1>6, <1>7, <1>8, <1>9, <1>10, <1>11 DEF F!Next, F!Put

\* The invariant says what the properties say.
LEMMA FormReads == FormIInv => F!ReadsWhatWasSent /\ F!OnlyWholeForms
<1> SUFFICES ASSUME FormIInv PROVE F!ReadsWhatWasSent /\ F!OnlyWholeForms
  OBVIOUS
<1>1. PICK st : FormTypes /\ Ended /\ Starts(st) /\ Laid(st) /\ Read(st)
  BY DEF FormIInv
<1> DEFINE n == Len(fields)
<1>2. /\ n \in Nat /\ n <= findex /\ fields \in Seq(Records) /\ field \in Records
      /\ findex \in Nat /\ findex <= Len(form) /\ Len(form) \in Nat
      /\ \A i \in 1 .. n : fields[i] = form[i]
  BY <1>1, ReaderFacts, StartFacts
<1>3. form \in Seq(Records)
  <2>1. form \in Seq(F!Fields) /\ \A i \in 1 .. Len(form) : form[i] \in Records
    BY <1>1, FieldFacts DEF FormTypes, F!TypeOK
  <2>2. form \in [1 .. Len(form) -> F!Fields]
    BY <2>1, LenProperties
  <2>3. form \in [1 .. Len(form) -> Records]
    BY <2>1, <2>2
  <2> QED
    BY <1>2, <2>3, SeqDef
<1>4. F!IsPrefix(fields, form)
  <2>1. Len(fields) <= Len(form)
    BY <1>2
  <2>2. F!IsPrefix(fields, form) <=>
          Len(fields) <= Len(form) /\ \A i \in 1 .. Len(fields) : fields[i] = form[i]
    BY <1>2, <1>3, PrefixFacts, Zenon
  <2> QED
    BY <1>2, <2>1, <2>2
<1>5. ASSUME fstep \in {"boundary_header", "boundary_content"} PROVE n < Len(form)
  <2>1. n < findex
    BY <1>1, <1>5 DEF Read
  <2> QED
    BY <1>2, <2>1
<1>6. ASSUME fstep = "boundary_content"
      PROVE  field.name = form[n + 1].name /\ F!IsPrefix(field.content, form[n + 1].content)
  <2> DEFINE c == field.content
             e == Content(n + 1)
  <2>1. /\ field.name = form[n + 1].name /\ Len(c) <= Len(e)
        /\ \A j \in 1 .. Len(c) : c[j] = e[j]
    BY <1>1, <1>6 DEF Read
  <2>2. n + 1 \in 1 .. Len(form)
    BY <1>2, <1>5, <1>6
  <2>3. c \in Seq(F!Chars) /\ e \in Seq(F!Chars)
    BY <1>1, <2>2, FieldFacts DEF FormTypes, F!TypeOK
  <2>4. F!IsPrefix(c, e)
    <3> HIDE DEF c, e
    <3>1. F!IsPrefix(c, e) <=> Len(c) <= Len(e) /\ \A i \in 1 .. Len(c) : c[i] = e[i]
      <4>1. \A x, y \in Seq(F!Chars) :
              F!IsPrefix(x, y) <=> Len(x) <= Len(y) /\ \A i \in 1 .. Len(x) : x[i] = y[i]
        BY PrefixFacts
      <4> QED
        BY <2>3, <4>1
    <3> QED
      BY <2>1, <3>1
  <2> QED
    BY <2>1, <2>4 DEF Content
<1>7. F!ReadsWhatWasSent
  BY <1>4, <1>5, <1>6 DEF F!ReadsWhatWasSent
<1>8. ASSUME outcome = "ok" PROVE fields = form
  <2>1. n = Len(form)
    BY <1>1, <1>8 DEF Ended, Read
  <2> QED
    BY <1>2, <1>3, <2>1, SeqEqual
<1> QED
  BY <1>7, <1>8 DEF F!OnlyWholeForms

\* Of every form, with any contents that do not hold the boundary, however the
\* connection cuts it into pieces and wherever it ends: the reader of
\* form_data_body has the fields that its writer was given, and takes no form
\* that was cut short for a whole one.
THEOREM FormsAreReadBack == FairSpec => []FormsAreRead
<1> DEFINE I == part = "form" => FormIInv
<1>1. Init => I
  BY FormInit DEF Init
<1>2. I /\ [Next]_vars => I'
  <2> SUFFICES ASSUME I, [Next]_vars, part' = "form" PROVE FormIInv'
    OBVIOUS
  <2>1. CASE InForm(F!Next)
    BY <2>1, FormStep DEF InForm
  <2>2. CASE InBody(B!Next) \/ InFile(R!Next) \/ InContent(C!Next)
    BY <2>2 DEF InBody, InFile, InContent
  <2>3. CASE UNCHANGED vars
    <3>1. part = "form" /\ UNCHANGED formVars
      BY <2>3 DEF vars
    <3> QED
      BY <3>1, FormStep
  <2> QED
    BY <2>1, <2>2, <2>3 DEF Next
<1>3. I => FormsAreRead
  BY FormReads DEF FormsAreRead
<1> QED
  BY <1>1, <1>2, <1>3, PTL DEF FairSpec
-----------------------------------------------------------------------------
(* The content: its inductive invariant *)

Setters  == {"nothing", "empty", "redirect", "error", "string", "json", "file", "nofile", "parts",
             "form", "stream"}
Units    == [unit : Setters \cup {"chunk", "end"}, at : Nat]
Statuses == {C!continue, 206, 416} \cup C!Statuses
Bodies   ==
  {<<>>, C!ErrorPage, C!Text, C!Json, C!File, C!FilePart, C!FileParts, C!Form}

Responses ==
  [result : Statuses, length : (0 .. 4) \cup {C!None}, chunked : BOOLEAN,
   encoding : {"", C!Encoding}, body : Bodies, stream : Nat]

ContentTypes ==
  /\ C!TypeOK
  /\ content \in [by : Setters, body : Seq(Units)]
  /\ resp \in Responses

\* What the calls of set_*_content so far, the last one by with the body b, have
\* made of the response r.
Asking(by, b, r) ==
  /\ r \in Responses /\ ~r.chunked /\ r.encoding = "" /\ r.result # 100 /\ r.body = b
  /\ r.stream = IF by = "stream" THEN 0 ELSE C!NoStream
  /\ by = "nothing" => r.length = C!None
  /\ by \notin {"json", "form", "parts", "nofile", "stream", "nothing"} => r.length = Len(r.body)
  /\ r.result \in C!BodilessStatus =>
       /\ by \in {"json", "string", "error"} \/ b = <<>>
       /\ r.length = C!None => by \in {"json", "nofile", "stream"}

Asked(r) == Asking(content.by, content.body, r)

\* What is on the wire before the final response.
Interim ==
  IF req.expect THEN C!Written(C!Framed(C!Empty(C!New, C!continue))) ELSE <<>>

\* What a response that is done is made of.
Answered ==
  \E r \in Responses :
    /\ Asked(r) /\ ~C!Throws(r)
    /\ resp = C!Framed(r) /\ stream = Interim \o C!Written(resp)

ContentIInv ==
  /\ ContentTypes
  /\ pc = "continue" => req.expect /\ stream = <<>> /\ Asked(resp)
  /\ pc = "handling" => stream = Interim /\ Asked(resp)
  /\ pc = "thrown" => content.by \in {"json", "nofile"}
  /\ pc = "stream" =>
       content.by = "stream" /\ ~req.head /\ resp.chunked /\ resp.stream \in 0 .. MaxChunks
  /\ pc = "done" => Answered \/ (content.by = "stream" /\ ~req.head)

\* Setting one field of a response leaves a response, and its other fields.
LEMMA SetResult ==
  ASSUME NEW p \in Responses, NEW x \in Statuses
  PROVE  LET q == [p EXCEPT !.result = x]
         IN  /\ q \in Responses /\ q.result = x
             /\ q.length = p.length /\ q.chunked = p.chunked /\ q.encoding = p.encoding /\ q.body = p.body /\ q.stream = p.stream
BY DEF Responses

\* The same of its length.
LEMMA SetLength ==
  ASSUME NEW p \in Responses, NEW x \in (0 .. 4) \cup {C!None}
  PROVE  LET q == [p EXCEPT !.length = x]
         IN  /\ q \in Responses /\ q.length = x
             /\ q.result = p.result /\ q.chunked = p.chunked /\ q.encoding = p.encoding /\ q.body = p.body /\ q.stream = p.stream
BY DEF Responses

\* The same of its content encoding.
LEMMA SetEncoding ==
  ASSUME NEW p \in Responses, NEW x \in {"", C!Encoding}
  PROVE  LET q == [p EXCEPT !.encoding = x]
         IN  /\ q \in Responses /\ q.encoding = x
             /\ q.result = p.result /\ q.length = p.length /\ q.chunked = p.chunked /\ q.body = p.body /\ q.stream = p.stream
BY DEF Responses

\* The same of its body.
LEMMA SetBody ==
  ASSUME NEW p \in Responses, NEW x \in Bodies
  PROVE  LET q == [p EXCEPT !.body = x]
         IN  /\ q \in Responses /\ q.body = x
             /\ q.result = p.result /\ q.length = p.length /\ q.chunked = p.chunked /\ q.encoding = p.encoding /\ q.stream = p.stream
BY DEF Responses

\* The same of how many chunks a producer has given.
LEMMA SetStream ==
  ASSUME NEW p \in Responses, NEW x \in Nat
  PROVE  LET q == [p EXCEPT !.stream = x]
         IN  /\ q \in Responses /\ q.stream = x
             /\ q.result = p.result /\ q.length = p.length /\ q.chunked = p.chunked /\ q.encoding = p.encoding /\ q.body = p.body
BY DEF Responses

\* The same of Transfer-Encoding: chunked, set
LEMMA SetChunkedTRUE ==
  ASSUME NEW p \in Responses
  PROVE  LET q == [p EXCEPT !.chunked = TRUE]
         IN  /\ q \in Responses /\ q.chunked = TRUE
             /\ q.result = p.result /\ q.length = p.length /\ q.encoding = p.encoding /\ q.body = p.body /\ q.stream = p.stream
BY DEF Responses

\* and not set.
LEMMA SetChunkedFALSE ==
  ASSUME NEW p \in Responses
  PROVE  LET q == [p EXCEPT !.chunked = FALSE]
         IN  /\ q \in Responses /\ q.chunked = FALSE
             /\ q.result = p.result /\ q.length = p.length /\ q.encoding = p.encoding /\ q.body = p.body /\ q.stream = p.stream
BY DEF Responses

\* What reset_content() leaves of a response.
LEMMA ResetFacts ==
  ASSUME NEW p \in Responses
  PROVE  LET q == C!Reset(p)
         IN  /\ q \in Responses /\ q.body = <<>> /\ q.stream = C!NoStream
             /\ q.result = p.result /\ q.length = p.length /\ q.chunked = p.chunked /\ q.encoding = p.encoding
<1> DEFINE r == [p EXCEPT !.stream = C!NoStream]
           q == [r EXCEPT !.body = <<>>]
<1>1. C!NoStream \in Nat /\ <<>> \in Bodies
  BY DEF C!NoStream, Bodies
<1>2. /\ r \in Responses /\ r.stream = C!NoStream
      /\ r.result = p.result /\ r.length = p.length /\ r.chunked = p.chunked /\ r.encoding = p.encoding /\ r.body = p.body
  BY <1>1, SetStream
<1> HIDE DEF r
<1>3. /\ q \in Responses /\ q.body = <<>>
      /\ q.result = r.result /\ q.length = r.length /\ q.chunked = r.chunked /\ q.encoding = r.encoding /\ q.stream = r.stream
  BY <1>1, <1>2, SetBody
<1>4. C!Reset(p) = q
  BY DEF C!Reset, r
<1> HIDE DEF q
<1> QED
  BY <1>2, <1>3, <1>4

\* What content_length() does: a length, and no chunks.
LEMMA WithLengthFacts ==
  ASSUME NEW p \in Responses, NEW n \in 0 .. 4
  PROVE  LET q == C!WithLength(p, n)
         IN  /\ q \in Responses /\ q.length = n /\ ~q.chunked
             /\ q.result = p.result /\ q.encoding = p.encoding /\ q.body = p.body /\ q.stream = p.stream
<1> DEFINE r == [p EXCEPT !.length = n]
           q == [r EXCEPT !.chunked = FALSE]
<1>1. n \in (0 .. 4) \cup {C!None}
  OBVIOUS
<1>2. /\ r \in Responses /\ r.length = n
      /\ r.result = p.result /\ r.chunked = p.chunked /\ r.encoding = p.encoding /\ r.body = p.body /\ r.stream = p.stream
  BY <1>1, SetLength
<1> HIDE DEF r
<1>3. /\ q \in Responses /\ q.chunked = FALSE
      /\ q.result = r.result /\ q.length = r.length /\ q.encoding = r.encoding /\ q.body = r.body /\ q.stream = r.stream
  BY <1>2, SetChunkedFALSE
<1>4. C!WithLength(p, n) = q
  BY DEF C!WithLength, r
<1> HIDE DEF q
<1> QED
  BY <1>2, <1>3, <1>4

\* What chunked(true) does: chunks, and no length.
LEMMA ChunkedFacts ==
  ASSUME NEW p \in Responses
  PROVE  LET q == C!Chunked(p)
         IN  /\ q \in Responses /\ q.length = C!None /\ q.chunked
             /\ q.result = p.result /\ q.encoding = p.encoding /\ q.body = p.body /\ q.stream = p.stream
<1> DEFINE r == [p EXCEPT !.chunked = TRUE]
           q == [r EXCEPT !.length = C!None]
<1>1. C!None \in (0 .. 4) \cup {C!None}
  OBVIOUS
<1>2. /\ r \in Responses /\ r.chunked = TRUE
      /\ r.result = p.result /\ r.length = p.length /\ r.encoding = p.encoding /\ r.body = p.body /\ r.stream = p.stream
  BY SetChunkedTRUE
<1> HIDE DEF r
<1>3. /\ q \in Responses /\ q.length = C!None
      /\ q.result = r.result /\ q.chunked = r.chunked /\ q.encoding = r.encoding /\ q.body = r.body /\ q.stream = r.stream
  BY <1>1, <1>2, SetLength
<1>4. C!Chunked(p) = q
  BY DEF C!Chunked, r
<1> HIDE DEF q
<1> QED
  BY <1>2, <1>3, <1>4

\* What set_empty_content() makes of a response.
LEMMA EmptyFacts ==
  ASSUME NEW p \in Responses, NEW s \in Statuses
  PROVE  LET q == C!Empty(p, s)
         IN  /\ q \in Responses /\ q.result = s /\ q.length = Len(<<>>) /\ ~q.chunked
             /\ q.encoding = p.encoding /\ q.body = <<>> /\ q.stream = C!NoStream
<1> DEFINE u == C!Reset(p)
           r == [u EXCEPT !.result = s]
           q == C!WithLength(r, 0)
<1>1. /\ u \in Responses /\ u.body = <<>> /\ u.stream = C!NoStream
      /\ u.encoding = p.encoding
  BY ResetFacts
<1>2. C!Empty(p, s) = q
  BY DEF C!Empty
<1> HIDE DEF u
<1>3. /\ r \in Responses /\ r.result = s
      /\ r.length = u.length /\ r.chunked = u.chunked /\ r.encoding = u.encoding /\ r.body = u.body /\ r.stream = u.stream
  BY <1>1, SetResult
<1> HIDE DEF r
<1>4. /\ q \in Responses /\ q.length = 0 /\ ~q.chunked
      /\ q.result = r.result /\ q.encoding = r.encoding /\ q.body = r.body /\ q.stream = r.stream
  BY <1>3, WithLengthFacts
<1>5. 0 = Len(<<>>)
  OBVIOUS
<1> HIDE DEF q
<1> QED
  BY <1>1, <1>2, <1>3, <1>4, <1>5, Zenon

\* A response with a status and a body.
Having(p, s, b) == [p EXCEPT !.result = s, !.body = b]

\* What is set of a response by a content of a length.
LEMMA HasFacts ==
  ASSUME NEW p \in Responses, NEW s \in Statuses, NEW b \in Bodies
  PROVE  LET q == Having(p, s, b)
         IN  /\ q \in Responses /\ q.result = s /\ q.body = b
             /\ q.length = p.length /\ q.chunked = p.chunked /\ q.encoding = p.encoding /\ q.stream = p.stream
<1> DEFINE r == [p EXCEPT !.result = s]
           q == [r EXCEPT !.body = b]
<1>1. /\ r \in Responses /\ r.result = s
      /\ r.length = p.length /\ r.chunked = p.chunked /\ r.encoding = p.encoding /\ r.body = p.body /\ r.stream = p.stream
  BY SetResult
<1>2. Having(p, s, b) = q
  BY DEF Having
<1> HIDE DEF r
<1>3. /\ q \in Responses /\ q.body = b
      /\ q.result = r.result /\ q.length = r.length /\ q.chunked = r.chunked /\ q.encoding = r.encoding /\ q.stream = r.stream
  BY <1>1, SetBody
<1> HIDE DEF q
<1> QED
  BY <1>1, <1>2, <1>3

\* What set_string_content() makes of a response.
LEMMA StringFacts ==
  ASSUME NEW p \in Responses, NEW s \in Statuses, NEW b \in Bodies, NEW n \in 0 .. 4
  PROVE  LET q == Having(C!WithLength(C!Reset(p), n), s, b)
         IN  /\ q \in Responses /\ q.result = s /\ q.length = n /\ ~q.chunked
             /\ q.encoding = p.encoding /\ q.body = b /\ q.stream = C!NoStream
<1> DEFINE u == C!Reset(p)
           r == C!WithLength(u, n)
           q == Having(r, s, b)
<1>1. u \in Responses /\ u.stream = C!NoStream /\ u.encoding = p.encoding
  BY ResetFacts
<1>2. Having(C!WithLength(C!Reset(p), n), s, b) = q
  OBVIOUS
<1> HIDE DEF u
<1>3. /\ r \in Responses /\ r.length = n /\ ~r.chunked
      /\ r.stream = u.stream /\ r.encoding = u.encoding
  BY <1>1, WithLengthFacts
<1> HIDE DEF r
<1>4. /\ q \in Responses /\ q.result = s /\ q.body = b /\ q.length = r.length
      /\ q.chunked = r.chunked /\ q.encoding = r.encoding /\ q.stream = r.stream
  BY <1>3, HasFacts
<1> HIDE DEF q
<1> QED
  BY <1>1, <1>2, <1>3, <1>4
\* The client keeps of the frames around a body what is the body.
LEMMA PayloadIs ==
  ASSUME NEW s \in Seq(Units), NEW lo \in Nat, NEW hi \in Nat, 1 <= lo, hi <= Len(s),
         lo <= hi + 1,
         \A i \in 1 .. Len(s) : lo <= i /\ i <= hi <=> s[i].unit \notin {"chunk", "end"}
  PROVE  C!Payload(s) = SubSeq(s, lo, hi)
<1> DEFINE n    == Len(s)
           E(h) == h = [i \in 0 .. n |->
                         IF i = 0 THEN <<>>
                         ELSE IF s[i].unit \in {"chunk", "end"} THEN h[i - 1]
                              ELSE Append(h[i - 1], s[i])]
           g    == [i \in 0 .. n |-> SubSeq(s, lo, IF i <= hi THEN i ELSE hi)]
           c    == CHOOSE h : E(h)
<1>1. n \in Nat
  BY LenProperties
<1>2. E(g)
  <2>1. /\ g[0] = <<>>
        /\ \A i \in 1 .. n :
             g[i] = IF lo <= i /\ i <= hi THEN Append(g[i - 1], s[i]) ELSE g[i - 1]
    BY SelectionStep
  <2>2. ASSUME NEW i \in 0 .. n
        PROVE  g[i] = IF i = 0 THEN <<>>
                      ELSE IF s[i].unit \in {"chunk", "end"} THEN g[i - 1]
                           ELSE Append(g[i - 1], s[i])
    <3> HIDE DEF g
    <3>1. CASE i = 0
      BY <2>1, <3>1
    <3>2. CASE i # 0
      <4>1. i \in 1 .. n
        BY <3>2, <1>1
      <4> QED
        BY <2>1, <4>1, <3>2
    <3> QED
      BY <3>1, <3>2
  <2>3. g = [i \in 0 .. n |->
              IF i = 0 THEN <<>>
              ELSE IF s[i].unit \in {"chunk", "end"} THEN g[i - 1] ELSE Append(g[i - 1], s[i])]
    <3>1. g = [i \in 0 .. n |-> g[i]]
      OBVIOUS
    <3> HIDE DEF g
    <3> QED
      BY <2>2, <3>1, Zenon
  <2> HIDE DEF g
  <2> QED
    BY <2>3, Zenon
<1>3. E(c)
  <2> HIDE DEF g
  <2> QED
    BY <1>2, Zenon
<1>4. C!Payload(s) = c[n]
  BY DEF C!Payload
<1> HIDE DEF c
<1>5. /\ c[0] = <<>>
      /\ \A i \in 1 .. n :
           c[i] = IF lo <= i /\ i <= hi THEN Append(c[i - 1], s[i]) ELSE c[i - 1]
  <2>1. \A i \in 0 .. n :
          c[i] = IF i = 0 THEN <<>>
                 ELSE IF s[i].unit \in {"chunk", "end"} THEN c[i - 1] ELSE Append(c[i - 1], s[i])
    BY <1>3, Zenon
  <2> QED
    BY <2>1, <1>1
<1> QED
  BY <1>4, <1>5, Selection

\* The bodies are sequences of units that no frame is made of.
LEMMA UnitFacts ==
  ASSUME NEW by \in Setters, NEW n \in Nat
  PROVE  /\ C!Units(by, n) \in Seq(Units) /\ Len(C!Units(by, n)) = n
         /\ \A i \in 1 .. n : C!Units(by, n)[i] = C!Unit(by)
<1>1. C!Unit(by) \in Units
  BY DEF C!Unit, Units
<1> DEFINE u == C!Units(by, n)
<1>2. u = [i \in 1 .. n |-> C!Unit(by)]
  BY DEF C!Units
<1>3. u \in [1 .. n -> Units] /\ \A i \in 1 .. n : u[i] = C!Unit(by)
  BY <1>1, <1>2
<1> HIDE DEF u
<1>4. u \in Seq(Units)
  BY <1>3, SeqDef
<1>5. Len(u) = n
  <2>1. DOMAIN u = 1 .. n
    BY <1>3
  <2> QED
    BY <1>4, <2>1, LenProperties
<1> QED
  BY <1>3, <1>4, <1>5 DEF u

\* A body is a sequence of units, no frame among them.
LEMMA BodyFacts ==
  ASSUME NEW b \in Bodies
  PROVE  /\ b \in Seq(Units) /\ Len(b) \in 0 .. 4
         /\ \A i \in 1 .. Len(b) : b[i].unit \notin {"chunk", "end"}
<1>1. ASSUME NEW by \in {"error", "string", "json", "file", "parts", "form"}, NEW n \in 0 .. 4,
             b = C!Units(by, n)
      PROVE  /\ b \in Seq(Units) /\ Len(b) \in 0 .. 4
             /\ \A i \in 1 .. Len(b) : b[i].unit \notin {"chunk", "end"}
  <2>1. C!Unit(by).unit = by
    BY DEF C!Unit
  <2>2. by \in Setters /\ n \in Nat
    BY DEF Setters
  <2>3. b \in Seq(Units) /\ Len(b) = n /\ \A i \in 1 .. n : b[i] = C!Unit(by)
    BY <1>1, <2>2, UnitFacts, Zenon
  <2>4. \A i \in 1 .. n : b[i].unit = by
    BY <2>1, <2>3, Zenon
  <2> QED
    BY <2>3, <2>4
<1>2. CASE b = <<>>
  BY <1>2
<1>3. CASE b # <<>>
  <2>1. \E by \in {"error", "string", "json", "file", "parts", "form"}, n \in 0 .. 4 :
          b = C!Units(by, n)
    BY <1>3 DEF Bodies, C!ErrorPage, C!Text, C!Json, C!File, C!FilePart, C!FileParts, C!Form
  <2> QED
    BY <1>1, <2>1
<1> QED
  BY <1>2, <1>3

\* What set_string_content() makes of it with a status.
LEMMA SetStringFacts ==
  ASSUME NEW p \in Responses, NEW s \in Statuses, NEW b \in Bodies
  PROVE  LET q == C!String(p, s, b)
         IN  /\ q \in Responses /\ q.result = s /\ q.length = Len(b) /\ ~q.chunked
             /\ q.encoding = p.encoding /\ q.body = b /\ q.stream = C!NoStream
<1> DEFINE n == Len(b)
<1>1. n \in 0 .. 4
  BY BodyFacts
<1>2. C!String(p, s, b) = Having(C!WithLength(C!Reset(p), n), s, b)
  BY DEF C!String, Having
<1> HIDE DEF n
<1>3. LET q == Having(C!WithLength(C!Reset(p), n), s, b)
      IN  /\ q \in Responses /\ q.result = s /\ q.length = n /\ ~q.chunked
          /\ q.encoding = p.encoding /\ q.body = b /\ q.stream = C!NoStream
  BY <1>1, StringFacts, SMTT(25)
<1> QED
  BY <1>2, <1>3, Zenon DEF n

\* What a file's content makes of it.
LEMMA SentFacts ==
  ASSUME NEW p \in Responses, NEW s \in Statuses, NEW b \in Bodies
  PROVE  LET q == Having(C!Reset(p), s, b)
         IN  /\ q \in Responses /\ q.result = s /\ q.body = b /\ q.stream = C!NoStream
             /\ q.length = p.length /\ (~p.chunked => ~q.chunked) /\ q.encoding = p.encoding
<1> DEFINE u == C!Reset(p)
           q == Having(u, s, b)
<1>1. /\ u \in Responses /\ u.stream = C!NoStream
      /\ u.length = p.length /\ u.chunked = p.chunked /\ u.encoding = p.encoding
  BY ResetFacts
<1> HIDE DEF u
<1>2. /\ q \in Responses /\ q.result = s /\ q.body = b
      /\ q.length = u.length /\ q.chunked = u.chunked /\ q.encoding = u.encoding /\ q.stream = u.stream
  BY <1>1, HasFacts
<1> HIDE DEF q
<1>3. Having(C!Reset(p), s, b) = q
  BY DEF q, u
<1> QED
  BY <1>1, <1>2, <1>3

\* A response with a stream.
Streaming(p, s) == [p EXCEPT !.result = s, !.stream = 0]

\* What set_stream_content() makes of it.
LEMMA StreamFacts ==
  ASSUME NEW p \in Responses, NEW s \in Statuses
  PROVE  LET q == Streaming(C!Reset(p), s)
         IN  /\ q \in Responses /\ q.result = s /\ q.body = <<>> /\ q.stream = 0
             /\ q.length = p.length /\ (~p.chunked => ~q.chunked) /\ q.encoding = p.encoding
<1> DEFINE u == C!Reset(p)
           r == [u EXCEPT !.result = s]
           q == [r EXCEPT !.stream = 0]
<1>1. /\ u \in Responses /\ u.body = <<>> /\ u.length = p.length /\ u.chunked = p.chunked
      /\ u.encoding = p.encoding
  BY ResetFacts
<1>2. Streaming(C!Reset(p), s) = q
  BY DEF Streaming
<1> HIDE DEF u
<1>3. /\ r \in Responses /\ r.result = s /\ r.body = u.body
      /\ r.length = u.length /\ r.chunked = u.chunked /\ r.encoding = u.encoding
  BY <1>1, SetResult
<1> HIDE DEF r
<1>4. /\ q \in Responses /\ q.stream = 0 /\ q.result = r.result /\ q.body = r.body
      /\ q.length = r.length /\ q.chunked = r.chunked /\ q.encoding = r.encoding
  BY <1>3, SetStream
<1> HIDE DEF q
<1> QED
  BY <1>1, <1>2, <1>3, <1>4

\* What is asked of a response is asked of one of Responses.
LEMMA TypedResponse ==
  ASSUME NEW p \in Responses
  PROVE  p.result \in Statuses /\ p.length \in (0 .. 4) \cup {C!None} /\ p.chunked \in BOOLEAN
         /\ p.encoding \in {"", C!Encoding} /\ p.body \in Bodies /\ p.stream \in Nat
BY DEF Responses

\* The first state: no content, status 404.
LEMMA ContentInit == ASSUME C!Init PROVE ContentIInv
<1>1. C!New \in Responses
  BY DEF C!New, Responses, Statuses, C!Statuses, Bodies, C!NoStream, C!None
<1>2. /\ C!New.chunked = FALSE /\ C!New.encoding = "" /\ C!New.body = <<>>
      /\ C!New.length = C!None /\ C!New.stream = C!NoStream
  BY DEF C!New
<1>7. C!New.result = 404
  BY DEF C!New
<1>8. 0 \in 0 .. MaxCalls
  BY MessagesAssumption DEF MessagesAssumption
<1>3. /\ resp = C!New /\ content = [by |-> "nothing", body |-> <<>>] /\ calls = 0
      /\ req \in C!Requests /\ stream = <<>>
      /\ pc = IF req.expect THEN "continue" ELSE "handling"
  BY DEF C!Init
<1>4. ContentTypes
  <2>1. content \in [by : Setters, body : Seq(Units)]
    <3>1. <<>> \in Seq(Units)
      OBVIOUS
    <3> QED
      BY <1>3, <3>1 DEF Setters
  <2>2. /\ resp.result \in C!Statuses \cup {206, 416} /\ resp.length = C!None
        /\ resp.stream = C!NoStream /\ calls \in 0 .. MaxCalls
    <3>1. resp.result \in C!Statuses
      BY <1>3, <1>7 DEF C!Statuses
    <3> QED
      BY <1>2, <1>3, <1>8, <3>1, Zenon
  <2>3. pc \in {"continue", "handling", "stream", "done", "thrown", "dropped"}
    BY <1>3
  <2>4. C!TypeOK
    BY <1>3, <2>2, <2>3 DEF C!TypeOK
  <2> QED
    BY <1>1, <1>3, <2>1, <2>4, Zenon DEF ContentTypes
<1>5. Asked(resp)
  <2>1. /\ C!New.result # 100 /\ C!New.result \notin C!BodilessStatus
    BY <1>7 DEF C!BodilessStatus
  <2>2. Asking("nothing", <<>>, C!New)
    BY <1>1, <1>2, <2>1 DEF Asking
  <2>3. content.by = "nothing" /\ content.body = <<>>
    BY <1>3
  <2> QED
    BY <1>3, <2>2, <2>3, Zenon DEF Asked
<1>6. ~req.expect => Interim = <<>>
  BY DEF Interim
<1> QED
  BY <1>3, <1>4, <1>5, <1>6 DEF ContentIInv

\* A call that sets content.
LEMMA ContentCall ==
  ASSUME ContentIInv, NEW by \in Setters, NEW b \in Bodies, NEW r, C!Calls(by, b, r),
         Asking(by, b, r)
  PROVE  ContentIInv'
<1>1. /\ pc = "handling" /\ calls < MaxCalls /\ calls' = calls + 1 /\ resp' = r
      /\ content' = [by |-> by, body |-> b] /\ UNCHANGED <<req, stream, pc>>
  BY DEF C!Calls
<1>2. Asked(resp)'
  <2>1. content'.by = by /\ content'.body = b
    BY <1>1
  <2>2. Asking(by, b, r)'
    BY <1>1 DEF Asking, Responses, C!Encoding
  <2> QED
    BY <1>1, <2>1, <2>2, Zenon DEF Asked
<1>3. Interim' = Interim
  BY <1>1 DEF Interim, C!Framed, C!Encoded, C!Encoding, C!Prepared
<1>4. r \in Responses /\ ~r.chunked /\ r.result # 100
      /\ r.stream \in {0, C!NoStream}
  BY DEF Asking
<1>5. ContentTypes'
  <2>1. C!TypeOK'
    <3>1. /\ req' \in C!Requests /\ calls' \in 0 .. MaxCalls
          /\ pc' \in {"continue", "handling", "stream", "done", "thrown", "dropped"}
      <4>1. calls \in 0 .. MaxCalls /\ req \in C!Requests
        BY DEF ContentIInv, ContentTypes, C!TypeOK
      <4> QED
        BY <1>1, <4>1, MessagesAssumption DEF MessagesAssumption
    <3>2. r.result \in C!Statuses \cup {206, 416}
      <4>1. r.result \in Statuses /\ r.result # 100
        BY <1>4, TypedResponse, Zenon
      <4> QED
        BY <4>1 DEF Statuses, C!continue
    <3>3. r.stream \in (0 .. MaxChunks + 1) \cup {C!NoStream}
      <4>1. 0 \in 0 .. MaxChunks + 1
        BY MessagesAssumption DEF MessagesAssumption
      <4> QED
        BY <1>4, <4>1, Zenon
    <3> QED
      BY <1>1, <1>4, <3>1, <3>2, <3>3, ZenonT(40) DEF C!TypeOK
  <2>2. content' \in [by : Setters, body : Seq(Units)]
    BY <1>1, BodyFacts
  <2>3. resp' \in Responses'
    BY <1>1, <1>4 DEF Responses, C!Encoding
  <2> QED
    BY <2>1, <2>2, <2>3, Zenon DEF ContentTypes
<1>6. stream = Interim
  BY <1>1 DEF ContentIInv
<1>7. stream' = Interim' /\ pc' = "handling"
  BY <1>1, <1>3, <1>6, Zenon
<1> QED
  BY <1>2, <1>5, <1>7 DEF ContentIInv

\* A handler changes the response, the content that is asked and nothing else.
LEMMA HandlingResponse ==
  ASSUME ContentIInv, NEW by, NEW b, NEW r, C!Calls(by, b, r)
  PROVE  resp \in Responses /\ ~resp.chunked /\ resp.encoding = "" /\ resp.result # 100
<1>1. Asked(resp)
  BY DEF ContentIInv, C!Calls
<1> QED
  BY <1>1, Zenon DEF Asked, Asking

\* set_empty_content(), and an error's page, keep the invariant,
LEMMA CallEmpty ==
  ASSUME ContentIInv, NEW by \in {"empty", "redirect", "file"}, NEW s \in Statuses, s # 100,
         C!Calls(by, <<>>, C!Empty(resp, s))
  PROVE  ContentIInv'
<1> DEFINE r == C!Empty(resp, s)
<1>1. /\ r \in Responses /\ r.result = s /\ r.length = Len(<<>>) /\ ~r.chunked
      /\ r.encoding = "" /\ r.body = <<>> /\ r.stream = C!NoStream
  BY HandlingResponse, EmptyFacts, ZenonT(40)
<1>2. by # "stream" /\ by # "nothing" /\ by \in Setters
  BY DEF Setters
<1>5. Len(<<>>) # C!None
  BY DEF C!None
<1> HIDE DEF r
<1>3. Asking(by, <<>>, r)
  BY <1>1, <1>2, <1>5, Zenon DEF Asking
<1>4. <<>> \in Bodies
  BY DEF Bodies
<1> QED
  BY <1>2, <1>3, <1>4, ContentCall, Zenon DEF r

\* as do the contents of a known text,
LEMMA CallString ==
  ASSUME ContentIInv, NEW by \in {"error", "string", "file"}, NEW s \in Statuses,
         s # 100, s \in C!BodilessStatus => by # "file", NEW b \in Bodies,
         C!Calls(by, b, C!String(resp, s, b))
  PROVE  ContentIInv'
<1> DEFINE r == C!String(resp, s, b)
<1>1. /\ r \in Responses /\ r.result = s /\ r.length = Len(b) /\ ~r.chunked
      /\ r.encoding = "" /\ r.body = b /\ r.stream = C!NoStream
  <2>1. resp \in Responses /\ ~resp.chunked /\ resp.encoding = ""
    BY HandlingResponse
  <2> QED
    BY <2>1, SetStringFacts, ZenonT(40)
<1>2. by # "stream" /\ by # "nothing" /\ by \in Setters
  BY DEF Setters
<1>3. Len(b) # C!None
  <2>1. Len(b) \in 0 .. 4
    BY BodyFacts
  <2>2. 99 \notin 0 .. 4
    OBVIOUS
  <2>3. C!None = 99
    BY DEF C!None
  <2> QED
    BY <2>1, <2>2, <2>3, Zenon
<1> HIDE DEF r
<1>4. Asking(by, b, r)
  BY <1>1, <1>2, <1>3, Zenon DEF Asking
<1> QED
  BY <1>2, <1>4, ContentCall, Zenon DEF r

\* those whose length nobody sets,
LEMMA CallUnsized ==
  ASSUME ContentIInv, NEW by \in {"json", "form", "parts"}, NEW s \in Statuses, s # 100,
         s \in C!BodilessStatus => by = "json",
         NEW b \in Bodies, C!Calls(by, b, Having(C!Reset(resp), s, b))
  PROVE  ContentIInv'
<1> DEFINE r == Having(C!Reset(resp), s, b)
<1>1. /\ r \in Responses /\ r.result = s /\ ~r.chunked
      /\ r.encoding = "" /\ r.body = b /\ r.stream = C!NoStream
  <2>1. resp \in Responses /\ ~resp.chunked /\ resp.encoding = ""
    BY HandlingResponse
  <2>2. r \in Responses /\ r.result = s
    BY <2>1, SentFacts, Zenon
  <2>3. ~r.chunked /\ r.encoding = ""
    BY <2>1, SentFacts, ZenonT(40)
  <2>4. r.body = b /\ r.stream = C!NoStream
    BY <2>1, SentFacts, ZenonT(40)
  <2> QED
    BY <2>2, <2>3, <2>4, Zenon
<1>2. by # "stream" /\ by # "nothing" /\ by \in Setters
  BY DEF Setters
<1> HIDE DEF r
<1>3. Asking(by, b, r)
  BY <1>1, <1>2, Zenon DEF Asking
<1> QED
  BY <1>2, <1>3, ContentCall, Zenon DEF r

\* a file that does not open
LEMMA CallFailed ==
  ASSUME ContentIInv, C!Calls("nofile", <<>>, C!Reset(resp))
  PROVE  ContentIInv'
<1> DEFINE r == C!Reset(resp)
<1>1. /\ r \in Responses /\ r.result # 100 /\ ~r.chunked
      /\ r.encoding = "" /\ r.body = <<>> /\ r.stream = C!NoStream
  BY HandlingResponse, ResetFacts, Zenon
<1>2. "nofile" # "stream" /\ "nofile" # "nothing" /\ "nofile" \in Setters
  BY DEF Setters
<1> HIDE DEF r
<1>3. Asking("nofile", <<>>, r)
  BY <1>1, <1>2, Zenon DEF Asking
<1>4. <<>> \in Bodies
  BY DEF Bodies
<1> QED
  BY <1>2, <1>3, <1>4, ContentCall, Zenon DEF r

\* and a producer of chunks.
LEMMA CallStream ==
  ASSUME ContentIInv, NEW s \in Statuses, s # 100,
         C!Calls("stream", <<>>, Streaming(C!Reset(resp), s))
  PROVE  ContentIInv'
<1> DEFINE r == Streaming(C!Reset(resp), s)
<1>1. /\ r \in Responses /\ r.result = s /\ ~r.chunked
      /\ r.encoding = "" /\ r.body = <<>> /\ r.stream = 0
  <2>1. resp \in Responses /\ ~resp.chunked /\ resp.encoding = ""
    BY HandlingResponse
  <2> QED
    BY <2>1, StreamFacts, Zenon
<1>2. "stream" # "nothing" /\ "stream" \in Setters
  BY DEF Setters
<1> HIDE DEF r
<1>3. Asking("stream", <<>>, r)
  BY <1>1, <1>2, Zenon DEF Asking
<1>4. <<>> \in Bodies
  BY DEF Bodies
<1> QED
  BY <1>2, <1>3, <1>4, ContentCall, Zenon DEF r

\* Every call of a handler keeps the invariant.
LEMMA ContentCalls ==
  ASSUME ContentIInv,
         \/ \E s \in C!Statuses :
              \/ C!SetEmptyContent(s) \/ C!SetErrorContent(s) \/ C!SetStringContent(s)
              \/ C!SetRedirect(s) \/ C!SetJsonContent(s) \/ C!SetStreamContent(s)
         \/ C!SetFormDataContent
         \/ \E how \in C!FileOutcomes : C!SetFileContent(how)
  PROVE  ContentIInv'
<1>1. /\ C!ErrorPage \in Bodies /\ C!Text \in Bodies /\ C!Json \in Bodies
      /\ C!File \in Bodies /\ C!FilePart \in Bodies /\ C!FileParts \in Bodies /\ C!Form \in Bodies
  BY DEF Bodies
<1>2. /\ \A s \in C!Statuses \cup {200, 206, 304, 416} : s \in Statuses /\ s # 100
      /\ \A s \in {200, 206} : s \notin C!BodilessStatus
  BY DEF Statuses, C!Statuses, C!BodilessStatus
<1>3. ASSUME NEW s \in C!Statuses, C!SetEmptyContent(s) \/ C!SetRedirect(s) PROVE ContentIInv'
  BY <1>2, <1>3, CallEmpty DEF C!SetEmptyContent, C!SetRedirect
<1>4. ASSUME NEW s \in C!Statuses, C!SetErrorContent(s) PROVE ContentIInv'
  BY <1>1, <1>2, <1>4, CallString DEF C!SetErrorContent
<1>5. ASSUME NEW s \in C!Statuses, C!SetStringContent(s) PROVE ContentIInv'
  BY <1>1, <1>2, <1>5, CallString DEF C!SetStringContent
<1>6. ASSUME NEW s \in C!Statuses, C!SetJsonContent(s) PROVE ContentIInv'
  <2>1. C!Calls("json", C!Json, Having(C!Reset(resp), s, C!Json))
    BY <1>6 DEF C!SetJsonContent, Having
  <2> QED
    BY <1>1, <1>2, <2>1, CallUnsized
<1>7. ASSUME NEW s \in C!Statuses, C!SetStreamContent(s) PROVE ContentIInv'
  <2>1. C!Calls("stream", <<>>, Streaming(C!Reset(resp), s))
    BY <1>7 DEF C!SetStreamContent, Streaming
  <2> QED
    BY <1>2, <2>1, CallStream
<1>8. ASSUME C!SetFormDataContent PROVE ContentIInv'
  <2>1. C!Calls("form", C!Form, Having(C!Reset(resp), 200, C!Form))
    BY <1>8 DEF C!SetFormDataContent, C!ok, Having
  <2> QED
    BY <1>1, <1>2, <2>1, CallUnsized
<1>9. ASSUME NEW how \in C!FileOutcomes, C!SetFileContent(how) PROVE ContentIInv'
  <2>1. CASE how = "failed"
    <3>1. C!Calls("nofile", <<>>, C!Reset(resp))
      BY <1>9, <2>1 DEF C!SetFileContent
    <3> QED
      BY <3>1, CallFailed
  <2>2. CASE how = "unsatisfiable"
    <3>1. C!Calls("file", <<>>, C!Empty(resp, 416))
      BY <1>9, <2>2 DEF C!SetFileContent
    <3> QED
      BY <1>2, <3>1, CallEmpty
  <2>3. CASE how = "unmodified"
    <3>1. C!Calls("file", <<>>, C!Empty(resp, 304))
      BY <1>9, <2>3 DEF C!SetFileContent
    <3> QED
      BY <1>2, <3>1, CallEmpty
  <2>4. CASE how = "whole"
    <3>1. C!Calls("file", C!File, C!String(resp, 200, C!File))
      BY <1>9, <2>4 DEF C!SetFileContent, C!ok
    <3> QED
      BY <1>1, <1>2, <3>1, CallString
  <2>5. CASE how = "part"
    <3>1. C!Calls("file", C!FilePart, C!String(resp, 206, C!FilePart))
      BY <1>9, <2>5 DEF C!SetFileContent
    <3> QED
      BY <1>1, <1>2, <3>1, CallString
  <2>6. CASE how = "parts"
    <3>1. C!Calls("parts", C!FileParts, Having(C!Reset(resp), 206, C!FileParts))
      BY <1>9, <2>6 DEF C!SetFileContent, Having
    <3>2. 206 \in Statuses /\ 206 # 100 /\ 206 \notin C!BodilessStatus
      BY <1>2
    <3> QED
      BY <1>1, <3>1, <3>2, CallUnsized
  <2> QED
    BY <2>1, <2>2, <2>3, <2>4, <2>5, <2>6 DEF C!FileOutcomes
<1> QED
  BY <1>3, <1>4, <1>5, <1>6, <1>7, <1>8, <1>9

\* What decides how a body is framed leaves the rest of the response.
LEMMA PreparedFacts ==
  ASSUME NEW p \in Responses, ~p.chunked
  PROVE  LET q == C!Prepared(p)
         IN  /\ q \in Responses /\ (q.chunked => q.length = C!None)
             /\ (~q.chunked => q.length = p.length /\ req.version # 11)
             /\ q.result = p.result /\ q.encoding = p.encoding /\ q.body = p.body /\ q.stream = p.stream
<1> DEFINE q == C!Prepared(p)
<1>1. CASE req.version = 11
  <2>1. q = C!Chunked(p)
    BY <1>1 DEF C!Prepared
  <2>2. /\ q \in Responses /\ q.chunked /\ q.length = C!None
        /\ q.result = p.result /\ q.encoding = p.encoding /\ q.body = p.body /\ q.stream = p.stream
    <3> HIDE DEF q
    <3> QED
      BY <2>1, ChunkedFacts, Zenon
  <2> HIDE DEF q
  <2> QED
    BY <2>2, Zenon DEF q
<1>2. CASE req.version # 11
  <2> DEFINE r == [p EXCEPT !.chunked = FALSE]
  <2>1. q = r
    BY <1>2 DEF C!Prepared
  <2>2. /\ r \in Responses /\ ~r.chunked
        /\ r.result = p.result /\ r.length = p.length /\ r.encoding = p.encoding /\ r.body = p.body /\ r.stream = p.stream
    BY SetChunkedFALSE
  <2> HIDE DEF q, r
  <2> QED
    BY <1>2, <2>1, <2>2, Zenon DEF q
<1> QED
  BY <1>1, <1>2

\* What a content encoding does to a response: chunks, but for what is not encoded.
LEMMA EncodedFacts ==
  ASSUME NEW p \in Responses
  PROVE  LET q == C!Encoded(p)
         IN  /\ q \in Responses /\ (q.chunked /\ ~p.chunked => q.length = C!None)
             /\ (C!Encoding = "" => q = p)
             /\ (~q.chunked => q = p) /\ (p.chunked => q.chunked /\ (p.length = C!None => q.length = C!None))
             /\ q.result = p.result /\ q.body = p.body /\ q.stream = p.stream
<1> DEFINE q == C!Encoded(p)
<1>1. CASE C!Encoding = ""
  BY <1>1 DEF C!Encoded
<1>2. CASE C!Encoding # ""
  <2> DEFINE r == C!Chunked(p)
             w == [r EXCEPT !.encoding = C!Encoding]
  <2>1. q = w
    BY <1>2, Zenon DEF C!Encoded
  <2>2. /\ r \in Responses /\ r.chunked /\ r.length = C!None
        /\ r.result = p.result /\ r.body = p.body /\ r.stream = p.stream
    BY ChunkedFacts
  <2> HIDE DEF r
  <2>3. /\ w \in Responses /\ w.chunked = r.chunked /\ w.length = r.length
        /\ w.result = r.result /\ w.body = r.body /\ w.stream = r.stream
    BY <2>2, SetEncoding
  <2>4. w \in Responses /\ w.chunked /\ w.length = C!None
        /\ w.result = p.result /\ w.body = p.body /\ w.stream = p.stream
    <3> HIDE DEF w
    <3> QED
      BY <2>2, <2>3, Zenon
  <2> HIDE DEF q, w
  <2> QED
    BY <1>2, <2>1, <2>4, Zenon DEF q
<1> QED
  BY <1>1, <1>2

\* What async_write makes of the response p.
FramedAs(p, q) ==
  /\ q \in Responses /\ q.result = p.result
  /\ IF req.head THEN q.body = <<>> /\ q.stream = C!NoStream
                 ELSE q.body = p.body /\ q.stream = p.stream
  /\ q.chunked => q.length = C!None
  /\ ~q.chunked =>
       /\ q.length = p.length /\ q.encoding = p.encoding /\ p.stream = C!NoStream
       /\ p.length = C!None => req.version # 11

\* What the header of a response is when it is written (FramedAs).
LEMMA FramedFacts ==
  ASSUME NEW p \in Responses, ~p.chunked
  PROVE  FramedAs(p, C!Framed(p))
<1> DEFINE g == IF p.length = C!None THEN C!Prepared(p) ELSE p
           f == IF p.stream # C!NoStream THEN C!Chunked(p) ELSE C!Encoded(g)
           q == IF req.head THEN C!Reset(f) ELSE f
<1>1. C!Framed(p) = q
  BY DEF C!Framed
<1>2. /\ g \in Responses /\ g.result = p.result /\ g.body = p.body /\ g.stream = p.stream
      /\ g.encoding = p.encoding /\ (g.chunked => g.length = C!None)
      /\ (~g.chunked => g.length = p.length /\ (p.length = C!None => req.version # 11))
  <2>1. CASE p.length = C!None
    <3>1. g = C!Prepared(p)
      BY <2>1
    <3> HIDE DEF g
    <3> QED
      BY <3>1, PreparedFacts, Zenon
  <2>2. CASE p.length # C!None
    <3>1. g = p
      BY <2>2
    <3> HIDE DEF g
    <3> QED
      BY <2>2, <3>1, Zenon
  <2> QED
    BY <2>1, <2>2, Zenon
<1> HIDE DEF g
<1>3. /\ f \in Responses /\ f.result = p.result /\ f.body = p.body /\ f.stream = p.stream
      /\ (f.chunked => f.length = C!None)
      /\ (~f.chunked => /\ f.length = p.length /\ (p.length = C!None => req.version # 11)
                        /\ f.encoding = p.encoding /\ p.stream = C!NoStream)
  <2>1. CASE p.stream # C!NoStream
    <3>1. f = C!Chunked(p)
      BY <2>1
    <3> HIDE DEF f
    <3> QED
      BY <3>1, ChunkedFacts, Zenon
  <2>2. CASE p.stream = C!NoStream
    <3> DEFINE e == C!Encoded(g)
    <3>1. f = e
      BY <2>2
    <3>2. /\ e \in Responses /\ (e.chunked /\ ~g.chunked => e.length = C!None)
          /\ (~e.chunked => e = g) /\ (g.chunked => e.chunked /\ (g.length = C!None => e.length = C!None))
          /\ e.result = g.result /\ e.body = g.body /\ e.stream = g.stream
      BY <1>2, EncodedFacts, Zenon
    <3> HIDE DEF f, e
    <3>3. e.chunked => e.length = C!None
      BY <1>2, <3>2, Zenon
    <3>4. ~e.chunked => e = g /\ ~g.chunked
      BY <3>2, Zenon
    <3> QED
      BY <1>2, <2>2, <3>1, <3>2, <3>3, <3>4, Zenon
  <2> QED
    BY <2>1, <2>2, Zenon
<1> HIDE DEF f
<1>4. CASE req.head
  <2> DEFINE w == C!Reset(f)
  <2>1. q = w
    BY <1>4
  <2>2. /\ w \in Responses /\ w.body = <<>> /\ w.stream = C!NoStream
        /\ w.result = f.result /\ w.length = f.length /\ w.chunked = f.chunked /\ w.encoding = f.encoding
    BY <1>3, ResetFacts, Zenon
  <2> HIDE DEF q, w
  <2>3. FramedAs(p, w)
    BY <1>3, <1>4, <2>2, Zenon DEF FramedAs
  <2> QED
    BY <1>1, <2>1, <2>3, Zenon DEF q
<1>5. CASE ~req.head
  <2>1. q = f
    BY <1>5
  <2> HIDE DEF q
  <2>2. FramedAs(p, f)
    BY <1>3, <1>5, Zenon DEF FramedAs
  <2> QED
    BY <1>1, <2>1, <2>2, Zenon DEF q
<1> QED
  BY <1>4, <1>5

\* The header of a response, and what follows it on the wire.
HeaderOf(r) == [unit |-> "header", at |-> [r EXCEPT !.body = <<>>]]
BodyOf(r)   ==
  IF r.encoding # "" /\ r.body # <<>> THEN Append(r.body, C!Unit("end")) ELSE r.body
FrameOf(r)  ==
  ((IF r.chunked /\ BodyOf(r) # <<>> THEN <<C!Chunk(Len(BodyOf(r)))>> ELSE <<>>) \o BodyOf(r))
    \o (IF r.chunked THEN <<C!Chunk(0)>> ELSE <<>>)

\* A body of one chunk: its header, its units, the last chunk.
LEMMA ChunkFacts ==
  /\ \A n \in Nat : C!Chunk(n) \in Units /\ C!Chunk(n).unit = "chunk" /\ C!Chunk(n).at = n
  /\ C!Unit("end") \in Units /\ C!Unit("end").unit = "end"
BY DEF Units, C!Chunk, C!Unit

\* What the serializer puts out of a body that has no stream: units and frames.
LEMMA BodyOfFacts ==
  ASSUME NEW r \in Responses
  PROVE  /\ BodyOf(r) \in Seq(Units) /\ (r.body # <<>> <=> BodyOf(r) # <<>>)
         /\ r.encoding = "" => BodyOf(r) = r.body
         /\ Len(r.body) \in Nat /\ Len(BodyOf(r)) \in Len(r.body) .. Len(r.body) + 1
         /\ \A i \in 1 .. Len(r.body) :
              BodyOf(r)[i] = r.body[i] /\ r.body[i].unit \notin {"chunk", "end"}
         /\ \A i \in Len(r.body) + 1 .. Len(BodyOf(r)) : BodyOf(r)[i].unit = "end"
<1> DEFINE b == r.body
           c == Append(b, C!Unit("end"))
<1>1. /\ b \in Seq(Units) /\ Len(b) \in Nat
      /\ \A i \in 1 .. Len(b) : b[i].unit \notin {"chunk", "end"}
  <2>1. b \in Bodies
    BY TypedResponse
  <2> HIDE DEF b
  <2>2. b \in Seq(Units) /\ \A i \in 1 .. Len(b) : b[i].unit \notin {"chunk", "end"}
    BY <2>1, BodyFacts, Zenon
  <2> QED
    BY <2>2, LenProperties
<1>2. BodyOf(r) = IF r.encoding # "" /\ b # <<>> THEN c ELSE b
  BY DEF BodyOf
<1> HIDE DEF b
<1>3. /\ c \in Seq(Units) /\ Len(c) = Len(b) + 1 /\ c # <<>>
      /\ \A i \in 1 .. Len(b) : c[i] = b[i]
      /\ c[Len(b) + 1].unit = "end"
  <2>1. /\ c \in Seq(Units) /\ Len(c) = Len(b) + 1
        /\ \A i \in 1 .. Len(b) : c[i] = b[i]
        /\ c[Len(b) + 1] = C!Unit("end")
    BY <1>1, ChunkFacts, AppendProperties
  <2> HIDE DEF c
  <2>2. c # <<>>
    BY <1>1, <2>1
  <2> QED
    BY <2>1, <2>2, ChunkFacts
<1> HIDE DEF c
<1>4. CASE BodyOf(r) = c /\ b # <<>> /\ r.encoding # ""
  <2>1. \A i \in Len(b) + 1 .. Len(c) : c[i].unit = "end"
    <3>1. \A i \in Len(b) + 1 .. Len(c) : i = Len(b) + 1
      BY <1>1, <1>3
    <3> QED
      BY <1>3, <3>1
  <2>2. Len(c) \in Len(b) .. Len(b) + 1
    BY <1>1, <1>3
  <2>3. BodyOf(r) = c
    BY <1>4
  <2>4. \A i \in 1 .. Len(b) : c[i] = b[i] /\ b[i].unit \notin {"chunk", "end"}
    BY <1>1, <1>3
  <2> QED
    BY <1>1, <1>3, <1>4, <2>1, <2>2, <2>3, <2>4, Zenon DEF b
<1>5. CASE BodyOf(r) = b /\ (b = <<>> \/ r.encoding = "")
  <2>1. \A i \in Len(b) + 1 .. Len(b) : FALSE
    BY <1>1
  <2>2. Len(b) \in Len(b) .. Len(b) + 1
    BY <1>1
  <2> QED
    BY <1>1, <1>5, <2>1, <2>2 DEF b
<1> QED
  BY <1>2, <1>4, <1>5

\* What is written of a response: a header, then what FrameOf says.
LEMMA FrameFacts ==
  ASSUME NEW r \in Responses
  PROVE  /\ FrameOf(r) \in Seq(Units)
         /\ C!Written(r) = <<HeaderOf(r)>> \o FrameOf(r)
         /\ ~r.chunked /\ r.encoding = "" => FrameOf(r) = r.body
<1> DEFINE b == BodyOf(r)
           A == IF r.chunked /\ b # <<>> THEN <<C!Chunk(Len(b))>> ELSE <<>>
           Z == IF r.chunked THEN <<C!Chunk(0)>> ELSE <<>>
           H == <<HeaderOf(r)>>
           S == Units \cup {HeaderOf(r)}
<1>1. b \in Seq(Units) /\ Len(b) \in Nat
  BY BodyOfFacts, LenProperties
<1>2. FrameOf(r) = (A \o b) \o Z
  BY DEF FrameOf
<1>3. C!Written(r) = ((H \o A) \o b) \o Z
  BY DEF C!Written, BodyOf, HeaderOf
<1>4. ~r.chunked => A = <<>> /\ Z = <<>>
  OBVIOUS
<1>5. r.encoding = "" => b = r.body
  BY BodyOfFacts, Zenon
<1> HIDE DEF b
<1>6. A \in Seq(Units) /\ Z \in Seq(Units) /\ H \in Seq(S)
  <2>1. \A u \in Units : <<u>> \in Seq(Units)
    OBVIOUS
  <2>2. C!Chunk(Len(b)) \in Units /\ C!Chunk(0) \in Units
    BY <1>1, ChunkFacts
  <2>3. <<>> \in Seq(Units)
    OBVIOUS
  <2>4. HeaderOf(r) \in S
    OBVIOUS
  <2>5. \A u \in S : <<u>> \in Seq(S)
    OBVIOUS
  <2> HIDE DEF S
  <2> QED
    BY <2>1, <2>2, <2>3, <2>4, <2>5
<1>7. Seq(Units) \subseteq Seq(S)
  <2>1. Units \subseteq S
    OBVIOUS
  <2> HIDE DEF S
  <2> QED
    BY <2>1
<1> HIDE DEF A, Z, H, S
<1>8. A \o b \in Seq(Units) /\ FrameOf(r) \in Seq(Units)
  BY <1>1, <1>2, <1>6, ConcatProperties
<1>9. ((H \o A) \o b) \o Z = H \o ((A \o b) \o Z)
  <2>1. A \in Seq(S) /\ b \in Seq(S) /\ Z \in Seq(S) /\ H \in Seq(S)
    BY <1>1, <1>6, <1>7, <1>8
  <2>2. PICK T : T = S
    BY Zenon
  <2>3. ASSUME NEW p \in Seq(T), NEW q \in Seq(T), NEW s \in Seq(T) PROVE (p \o q) \o s = p \o (q \o s)
    BY ConcatAssociative
  <2>4. H \in Seq(T) /\ A \in Seq(T) /\ b \in Seq(T) /\ Z \in Seq(T)
    BY <2>1, <2>2
  <2>5. PICK h \in Seq(T), x \in Seq(T), y \in Seq(T), z \in Seq(T) : h = H /\ x = A /\ y = b /\ z = Z
    BY <2>4, Zenon
  <2>6. x \o y \in Seq(T)
    BY ConcatProperties
  <2>7. PICK w \in Seq(T) : w = x \o y
    BY <2>6
  <2>8. (h \o x) \o y = h \o w
    BY <2>3, <2>7, SMTT(25)
  <2>9. (h \o w) \o z = h \o (w \o z)
    BY ONLY <2>3, h \in Seq(T), w \in Seq(T), z \in Seq(T), SMTT(25)
  <2>10. ((h \o x) \o y) \o z = h \o ((x \o y) \o z)
    BY <2>7, <2>8, <2>9
  <2> QED
    BY <2>5, <2>10, Zenon
<1>10. ~r.chunked /\ r.encoding = "" => FrameOf(r) = r.body
  <2> SUFFICES ASSUME ~r.chunked, r.encoding = "" PROVE (A \o b) \o Z = b
    BY <1>2, <1>5
  <2>1. A = <<>> /\ Z = <<>>
    BY <1>4
  <2>2. <<>> \o b = b /\ b \o <<>> = b
    BY <1>1, ConcatEmptySeq
  <2> QED
    BY <2>1, <2>2
<1> QED
  BY <1>2, <1>3, <1>8, <1>9, <1>10 DEF H

\* A chunked response ends with its last chunk, and a client that takes the frames
\* away has the body.
LEMMA ChunkedFrame ==
  ASSUME NEW r \in Responses, r.chunked
  PROVE  LET f == FrameOf(r)
         IN  /\ Len(f) \in Nat \ {0} /\ C!LastChunkIn(f) = Len(f)
             /\ C!Payload(f) = r.body
<1> DEFINE b == r.body
           c == BodyOf(r)
           A == IF c # <<>> THEN <<C!Chunk(Len(c))>> ELSE <<>>
           Z == <<C!Chunk(0)>>
           f == FrameOf(r)
           n == Len(b)
           m == Len(c)
           a == Len(A)
<1>1. /\ c \in Seq(Units) /\ (b # <<>> <=> c # <<>>) /\ n \in Nat /\ m \in n .. n + 1
      /\ \A i \in 1 .. n : c[i] = b[i] /\ b[i].unit \notin {"chunk", "end"}
      /\ \A i \in n + 1 .. m : c[i].unit = "end"
  BY BodyOfFacts
<1>2. f = (A \o c) \o Z
  BY DEF FrameOf
<1>3. b \in Seq(Units)
  <2>1. b \in Bodies
    BY TypedResponse
  <2> HIDE DEF b
  <2> QED
    BY <2>1, BodyFacts, Zenon
<1>4. c # <<>> => m # 0
  <2> HIDE DEF c
  <2> QED
    BY <1>1, EmptySeq
<1> HIDE DEF f, b, c
<1>5. /\ A \in Seq(Units) /\ Z \in Seq(Units) /\ Len(Z) = 1 /\ Z[1] = C!Chunk(0) /\ a \in 0 .. 1
      /\ \A i \in 1 .. a : A[i] = C!Chunk(m) /\ m # 0
  <2>1. C!Chunk(m) \in Units /\ C!Chunk(0) \in Units
    BY <1>1, ChunkFacts
  <2>2. \A u \in Units : <<u>> \in Seq(Units) /\ Len(<<u>>) = 1 /\ <<u>>[1] = u
    OBVIOUS
  <2>3. CASE c # <<>>
    <3>1. A = <<C!Chunk(m)>>
      BY <2>3
    <3> HIDE DEF A, m
    <3> QED
      BY <1>4, <2>1, <2>2, <2>3, <3>1
  <2>4. CASE c = <<>>
    <3>1. A = <<>>
      BY <2>4
    <3> HIDE DEF A, m
    <3> QED
      BY <2>1, <2>2, <3>1
  <2> QED
    BY <2>3, <2>4
<1> HIDE DEF A, Z
<1>6. /\ f \in Seq(Units) /\ Len(f) = a + m + 1
      /\ \A i \in 1 .. a : f[i] = A[i]
      /\ \A i \in 1 .. m : f[a + i] = c[i]
      /\ f[a + m + 1] = C!Chunk(0)
  <2> DEFINE g == A \o c
  <2>1. /\ g \in Seq(Units) /\ Len(g) = a + m
        /\ \A i \in 1 .. a : g[i] = A[i]
        /\ \A i \in 1 .. m : g[a + i] = c[i]
    BY <1>1, <1>5, JoinFacts
  <2>2. f = g \o Z
    BY <1>2
  <2> HIDE DEF g
  <2>7. /\ f \in Seq(Units) /\ Len(f) = Len(g) + Len(Z)
        /\ \A i \in 1 .. Len(g) : f[i] = g[i]
        /\ \A i \in 1 .. Len(Z) : f[Len(g) + i] = Z[i]
    <3>1. g \in Seq(Units) /\ Z \in Seq(Units)
      BY <1>5, <2>1
    <3> QED
      BY <2>2, <3>1, JoinFacts
  <2>3. /\ f \in Seq(Units) /\ Len(f) = (a + m) + 1
        /\ \A i \in 1 .. a + m : f[i] = g[i]
        /\ \A i \in 1 .. 1 : f[(a + m) + i] = Z[i]
    BY <1>5, <2>1, <2>7, Zenon
  <2>4. a \in Nat /\ m \in Nat
    BY <1>1, <1>5
  <2> HIDE DEF a, m
  <2>5. \A i \in 1 .. a : i \in 1 .. a + m
    BY <2>4
  <2>6. \A i \in 1 .. m : a + i \in 1 .. a + m
    BY <2>4
  <2> QED
    BY <1>5, <2>1, <2>3, <2>4, <2>5, <2>6
<1>7. a \in 0 .. 1 /\ n \in Nat /\ m \in Nat /\ n <= m /\ m <= n + 1 /\ (a = 1 => m # 0)
  BY <1>1, <1>5
<1> DEFINE lo == a + 1
           hi == a + n
           k == a + m + 1
<1> HIDE DEF a, n, m
<1>8. \A i \in 1 .. k : \/ i \in 1 .. a \/ i = k
                        \/ \E j \in 1 .. n : i = a + j
                        \/ \E j \in n + 1 .. m : i = a + j
  <2> TAKE i \in 1 .. k
  <2>1. CASE i <= a
    BY <1>7, <2>1
  <2>2. CASE i > a /\ i <= a + n
    <3>1. i - a \in 1 .. n /\ i = a + (i - a)
      BY <1>7, <2>2
    <3> QED
      BY <3>1
  <2>3. CASE i > a + n /\ i <= a + m
    <3>1. i - a \in n + 1 .. m /\ i = a + (i - a)
      BY <1>7, <2>3
    <3> QED
      BY <3>1
  <2> QED
    BY <1>7, <2>1, <2>2, <2>3
<1>9. /\ \A i \in 1 .. a : f[i].unit = "chunk" /\ f[i].at # 0
      /\ \A j \in 1 .. n : f[a + j] = b[j] /\ f[a + j].unit \notin {"chunk", "end"}
      /\ \A j \in n + 1 .. m : f[a + j].unit = "end"
      /\ f[k].unit = "chunk" /\ f[k].at = 0 /\ f[k] = C!Chunk(0)
  <2>1. /\ C!Chunk(m).unit = "chunk" /\ C!Chunk(m).at = m
        /\ C!Chunk(0).unit = "chunk" /\ C!Chunk(0).at = 0
    BY <1>7, ChunkFacts
  <2>2. \A i \in 1 .. a : f[i].unit = "chunk" /\ f[i].at # 0
    BY <1>5, <1>6, <2>1
  <2>3. \A j \in 1 .. n : j \in 1 .. m
    BY <1>7
  <2>4. \A j \in n + 1 .. m : j \in 1 .. m
    BY <1>7
  <2> QED
    BY <1>1, <1>6, <2>1, <2>2, <2>3, <2>4 DEF n, m, a
<1>10. C!LastChunkIn(f) = k
  <2> DEFINE I == {i \in 1 .. Len(f) : f[i] = C!Chunk(0)}
  <2>1. I = {k}
    <3>1. k \in 1 .. Len(f) /\ Len(f) = k
      BY <1>6, <1>7 DEF a, m
    <3>2. ASSUME NEW i \in 1 .. k, f[i] = C!Chunk(0) PROVE i = k
      <4>1. f[i].unit = "chunk" /\ f[i].at = 0
        BY <1>9, <3>2
      <4> QED
        BY <1>8, <1>9, <4>1
    <3> QED
      BY <1>9, <3>1, <3>2
  <2>2. C!LastChunkIn(f) = C!Min({k})
    <3>1. C!LastChunkIn(f) = IF I # {} THEN C!Min(I) ELSE 0
      BY DEF C!LastChunkIn, C!SelectInSeq
    <3> HIDE DEF I
    <3> QED
      BY <2>1, <3>1
  <2>3. k \in Nat
    BY <1>7
  <2> HIDE DEF k
  <2>4. C!Min({k}) = k
    BY <2>3 DEF C!Min
  <2> QED
    BY <2>2, <2>4
<1>11. C!Payload(f) = b
  <2>1. SubSeq(f, lo, hi) = b
    <3> DEFINE q == SubSeq(f, lo, hi)
    <3>1. \A i \in lo .. hi : f[i] \in Units
      <4>1. \A i \in lo .. hi : i \in 1 .. Len(f)
        BY <1>6, <1>7 DEF a, m
      <4> QED
        BY <1>6, <4>1, ElementOfSeq
    <3>2. /\ lo \in Int /\ hi \in Int /\ hi - lo + 1 = n
          /\ (IF lo <= hi THEN hi - lo + 1 ELSE 0) = n
          /\ \A i \in 1 .. n : lo + i - 1 = a + i
      BY <1>7
    <3> HIDE DEF lo, hi
    <3>3. /\ q \in Seq(Units) /\ Len(q) = n
          /\ \A i \in 1 .. n : q[i] = f[lo + i - 1]
      BY <3>1, <3>2, SubSeqProperties
    <3>4. \A i \in 1 .. n : q[i] = b[i]
      BY <1>9, <3>2, <3>3
    <3> HIDE DEF q
    <3>5. Len(q) = Len(b) /\ \A i \in 1 .. Len(q) : q[i] = b[i]
      BY <3>3, <3>4 DEF n
    <3>6. q = b
      BY <1>3, <3>3, <3>5, SeqEqual
    <3> QED
      BY <3>6 DEF q
  <2>2. \A i \in 1 .. k : lo <= i /\ i <= hi <=> f[i].unit \notin {"chunk", "end"}
    <3> TAKE i \in 1 .. k
    <3>1. CASE i \in 1 .. a
      BY <1>7, <1>9, <3>1
    <3>2. CASE i = k
      BY <1>7, <1>9, <3>2
    <3>3. ASSUME NEW j \in 1 .. n, i = a + j
          PROVE  lo <= i /\ i <= hi /\ f[i].unit \notin {"chunk", "end"}
      BY <1>7, <1>9, <3>3
    <3>4. ASSUME NEW j \in n + 1 .. m, i = a + j
          PROVE  i > hi /\ f[i].unit = "end"
      BY <1>7, <1>9, <3>4
    <3>5. i \in Int /\ hi \in Int
      BY <1>7
    <3> QED
      BY <1>8, <3>1, <3>2, <3>3, <3>4, <3>5
  <2>3. /\ lo \in Nat /\ hi \in Nat /\ 1 <= lo /\ lo <= hi + 1 /\ hi <= Len(f) /\ Len(f) = k
    BY <1>6, <1>7 DEF a, m
  <2> HIDE DEF lo, hi, k
  <2>4. C!Payload(f) = SubSeq(f, lo, hi)
    BY <1>6, <2>2, <2>3, PayloadIs
  <2> QED
    BY <2>1, <2>4
<1>12. Len(f) = k /\ k \in Nat \ {0}
  BY <1>6, <1>7 DEF a, m
<1> QED
  BY <1>10, <1>11, <1>12 DEF f, b

\* What is made of a response depends on the request alone,
LEMMA FramedSame ==
  ASSUME req' = req, NEW r
  PROVE  C!Framed(r)' = C!Framed(r) /\ Interim' = Interim /\ C!Throws(r)' = C!Throws(r)
BY DEF C!Framed, C!Encoded, C!Encoding, C!Prepared, Interim, C!Throws

\* as does what is asked of it.
LEMMA AskedSame ==
  ASSUME req' = req, content' = content, NEW r
  PROVE  Asked(r)' = Asked(r) /\ Responses' = Responses
BY DEF Asked, Asking, Responses, C!Encoding

\* A step that keeps to the types of what it sets keeps the types.
LEMMA TypesSame ==
  ASSUME ContentTypes, UNCHANGED <<req, calls>>, resp' \in Responses,
         content' \in [by : Setters, body : Seq(Units)],
         resp'.result = resp.result, resp'.chunked => resp'.length = C!None,
         resp'.stream \in (0 .. MaxChunks + 1) \cup {C!NoStream},
         pc' \in {"continue", "handling", "stream", "done", "thrown", "dropped"}
  PROVE  ContentTypes'
<1>1. C!TypeOK'
  <2>1. C!TypeOK
    BY DEF ContentTypes
  <2> QED
    BY <2>1 DEF C!TypeOK
<1>2. resp' \in Responses'
  <2>1. Responses' = Responses
    BY DEF Responses, C!Encoding
  <2> QED
    BY <2>1, Zenon
<1> QED
  BY <1>1, <1>2, Zenon DEF ContentTypes

\* A step that moves pc alone keeps the types.
LEMMA TypesKept ==
  ASSUME ContentTypes, UNCHANGED <<req, resp, content, calls>>,
         pc' \in {"continue", "handling", "stream", "done", "thrown", "dropped"}
  PROVE  ContentTypes'
<1>1. /\ resp' = resp /\ content' = content /\ UNCHANGED <<req, calls>>
  OBVIOUS
<1>2. /\ resp \in Responses /\ content \in [by : Setters, body : Seq(Units)]
      /\ (resp.chunked => resp.length = C!None)
      /\ resp.stream \in (0 .. MaxChunks + 1) \cup {C!NoStream}
  BY DEF ContentTypes, C!TypeOK
<1> QED
  BY <1>1, <1>2, TypesSame, Zenon

\* A step of another part leaves the invariant.
LEMMA ContentSame == ASSUME ContentIInv, UNCHANGED contentVars PROVE ContentIInv'
<1>1. /\ req' = req /\ resp' = resp /\ content' = content /\ calls' = calls /\ stream' = stream
      /\ pc' = pc
  BY DEF contentVars
<1>2. ContentTypes'
  <2>1. /\ ContentTypes
        /\ pc' \in {"continue", "handling", "stream", "done", "thrown", "dropped"}
    BY <1>1 DEF ContentIInv, ContentTypes, C!TypeOK
  <2>2. UNCHANGED <<req, resp, content, calls>>
    BY <1>1
  <2> QED
    BY <2>1, <2>2, TypesKept
<1>3. Asked(resp)' = Asked(resp)
  BY <1>1 DEF Asked, Asking, Responses, C!Encoding
<1>4. Interim' = Interim
  BY <1>1, FramedSame
<1>5. Answered => Answered'
  <2> SUFFICES ASSUME Answered PROVE Answered'
    OBVIOUS
  <2>1. PICK r \in Responses :
          /\ Asked(r) /\ ~C!Throws(r)
          /\ resp = C!Framed(r) /\ stream = Interim \o C!Written(resp)
    BY DEF Answered
  <2>2. /\ Asked(r)' = Asked(r) /\ Responses' = Responses /\ C!Framed(r)' = C!Framed(r)
        /\ C!Throws(r)' = C!Throws(r)
    BY <1>1, AskedSame, FramedSame
  <2>3. stream' = (Interim \o C!Written(resp))'
    BY <1>1, <1>4, <2>1
  <2>4. r \in Responses' /\ Asked(r)' /\ ~C!Throws(r)' /\ resp' = C!Framed(r)'
    BY <1>1, <2>1, <2>2, Zenon
  <2> QED
    BY <2>3, <2>4, Zenon DEF Answered
<1> QED
  BY <1>1, <1>2, <1>3, <1>4, <1>5 DEF ContentIInv

\* What is written starts with a header.
LEMMA WireFacts ==
  ASSUME NEW S, NEW h \in S, NEW f \in Seq(S)
  PROVE  LET w == <<h>> \o f
         IN  /\ w \in Seq(S) /\ w[1] = h /\ Tail(w) = f /\ SubSeq(w, 1, Len(w)) = w
             /\ Len(w) \in Nat /\ w # <<>> /\ <<>> \o w = w
<1> DEFINE p == <<h>>
           w == p \o f
           t == Tail(w)
<1>1. p \in Seq(S) /\ Len(p) = 1 /\ p[1] = h
  OBVIOUS
<1> HIDE DEF p
<1>2. /\ w \in Seq(S) /\ Len(w) = 1 + Len(f) /\ Len(f) \in Nat
      /\ \A i \in 1 .. 1 : w[i] = p[i]
      /\ \A i \in 1 .. Len(f) : w[1 + i] = f[i]
  <2>1. p \in Seq(S)
    BY <1>1
  <2>2. /\ w \in Seq(S) /\ Len(w) = Len(p) + Len(f) /\ Len(f) \in Nat
        /\ \A i \in 1 .. Len(p) : w[i] = p[i]
        /\ \A i \in 1 .. Len(f) : w[Len(p) + i] = f[i]
    BY <2>1, JoinFacts, SMTT(25)
  <2> QED
    BY <1>1, <2>2, Zenon
<1> HIDE DEF w
<1>3. w # <<>>
  BY <1>2, EmptySeq
<1>4. w[1] = h
  BY <1>1, <1>2
<1>5. t \in Seq(S) /\ Len(t) = Len(f) /\ \A i \in 1 .. Len(t) : t[i] = w[i + 1]
  BY <1>2, <1>3, HeadTailProperties
<1> HIDE DEF t
<1>6. t = f
  <2>1. \A i \in 1 .. Len(t) : t[i] = f[i]
    BY <1>2, <1>5
  <2> QED
    BY <1>5, <2>1, SeqEqual
<1>7. SubSeq(w, 1, Len(w)) = w /\ <<>> \o w = w
  BY <1>2, SubSeqFull, ConcatEmptySeq
<1> QED
  BY <1>2, <1>3, <1>4, <1>6, <1>7 DEF t, w, p

\* The interim response: 100, no body, of length 0.
LEMMA InterimFacts ==
  LET r == C!Empty(C!New, C!continue)
  IN  /\ r \in Responses /\ r.result = 100 /\ ~r.chunked /\ r.encoding = "" /\ r.body = <<>>
      /\ r.stream = C!NoStream /\ r.length # C!None
<1>1. C!New \in Responses /\ C!New.encoding = ""
  BY DEF C!New, Responses, Statuses, C!Statuses, Bodies, C!NoStream, C!None
<1>2. C!continue \in Statuses /\ C!continue = 100 /\ Len(<<>>) # C!None
  BY DEF C!continue, Statuses, C!None
<1> DEFINE n == C!New
           c == C!continue
           r == C!Empty(n, c)
<1>3. n \in Responses /\ n.encoding = "" /\ c \in Statuses /\ c = 100
  BY <1>1, <1>2, Zenon
<1> HIDE DEF n, c
<1>4. /\ r \in Responses /\ r.result = c /\ r.length = Len(<<>>) /\ ~r.chunked
      /\ r.encoding = n.encoding /\ r.body = <<>> /\ r.stream = C!NoStream
  BY <1>3, EmptyFacts, ZenonT(30)
<1> HIDE DEF r
<1>5. /\ r \in Responses /\ r.result = 100 /\ ~r.chunked /\ r.encoding = "" /\ r.body = <<>>
      /\ r.stream = C!NoStream /\ r.length # C!None
  BY <1>2, <1>3, <1>4, ZenonT(30)
<1> QED
  BY <1>5, ZenonT(30) DEF r, n, c

\* Writing the interim response keeps the invariant.
LEMMA ContentContinues == ASSUME ContentIInv, C!WriteContinue PROVE ContentIInv'
<1> DEFINE r == C!Framed(C!Empty(C!New, C!continue))
<1>1. /\ pc = "continue" /\ pc' = "handling" /\ stream' = stream \o C!Written(r)
      /\ UNCHANGED <<req, resp, content, calls>>
  BY DEF C!WriteContinue
<1>2. r \in Responses
  BY InterimFacts, FramedFacts, Zenon DEF FramedAs
<1>3. stream = <<>> /\ req.expect /\ Asked(resp)
  BY <1>1 DEF ContentIInv
<1>4. Interim = C!Written(r)
  BY <1>3 DEF Interim
<1> HIDE DEF r
<1>5. <<>> \o C!Written(r) = C!Written(r)
  <2> DEFINE S == Units \cup {HeaderOf(r)}
  <2>1. FrameOf(r) \in Seq(Units) /\ C!Written(r) = <<HeaderOf(r)>> \o FrameOf(r)
    BY <1>2, FrameFacts, Zenon
  <2>2. FrameOf(r) \in Seq(S) /\ HeaderOf(r) \in S
    BY <2>1
  <2> HIDE DEF S
  <2> QED
    BY <2>1, <2>2, WireFacts
<1>6. stream' = Interim'
  BY <1>1, <1>3, <1>4, <1>5, FramedSame, Zenon
<1>7. Asked(resp)'
  BY <1>1, <1>3 DEF Asked, Asking, Responses, C!Encoding
<1>8. ContentTypes'
  <2>1. /\ ContentTypes
        /\ pc' \in {"continue", "handling", "stream", "done", "thrown", "dropped"}
    BY <1>1 DEF ContentIInv, ContentTypes, C!TypeOK
  <2>2. UNCHANGED <<req, resp, content, calls>>
    BY <1>1
  <2> QED
    BY <2>1, <2>2, TypesKept
<1> QED
  BY <1>1, <1>6, <1>7, <1>8 DEF ContentIInv

\* A response that cannot be written is one of content without a length.
LEMMA ContentThrows == ASSUME ContentIInv, C!WriteThrows PROVE ContentIInv'
<1>1. /\ pc = "handling" /\ C!Throws(resp) /\ pc' = "thrown"
      /\ UNCHANGED <<req, resp, content, calls, stream>>
  BY DEF C!WriteThrows
<1>2. Asked(resp)
  BY <1>1 DEF ContentIInv
<1>3. content.by \in {"json", "nofile"}
  <2>1. 0 # C!NoStream
    BY DEF C!NoStream
  <2>2. content.by # "stream"
    BY <1>1, <1>2, <2>1, Zenon DEF Asked, Asking, C!Throws
  <2>3. content.by \in {"json", "nofile", "stream"}
    BY <1>1, <1>2, Zenon DEF Asked, Asking, C!Throws
  <2> QED
    BY <2>2, <2>3
<1>4. ContentTypes'
  <2>1. /\ ContentTypes
        /\ pc' \in {"continue", "handling", "stream", "done", "thrown", "dropped"}
    BY <1>1 DEF ContentIInv, ContentTypes, C!TypeOK
  <2>2. UNCHANGED <<req, resp, content, calls>>
    BY <1>1
  <2> QED
    BY <2>1, <2>2, TypesKept
<1> QED
  BY <1>1, <1>3, <1>4 DEF ContentIInv

\* Writing the response keeps the invariant: what was asked is what is framed.
LEMMA ContentAnswers == ASSUME ContentIInv, C!WriteResponse PROVE ContentIInv'
<1>1. /\ pc = "handling" /\ ~C!Throws(resp) /\ resp' = C!Framed(resp)
      /\ stream' = stream \o C!Written(resp')
      /\ pc' = IF resp'.stream # C!NoStream THEN "stream" ELSE "done"
      /\ UNCHANGED <<req, content, calls>>
  BY DEF C!WriteResponse
<1>2. Asked(resp) /\ stream = Interim /\ ContentTypes
  BY <1>1 DEF ContentIInv
<1>3. /\ resp \in Responses /\ ~resp.chunked /\ resp.result # 100
      /\ resp.stream = IF content.by = "stream" THEN 0 ELSE C!NoStream
  BY <1>2, Zenon DEF Asked, Asking
<1>4. FramedAs(resp, resp')
  BY <1>1, <1>3, FramedFacts, Zenon
<1>5. /\ resp' \in Responses /\ resp'.result = resp.result
      /\ (resp'.chunked => resp'.length = C!None)
      /\ (resp'.stream # C!NoStream =>
            ~req.head /\ resp'.chunked /\ resp'.stream = resp.stream)
  BY <1>4, Zenon DEF FramedAs
<1>6. resp'.stream \in {0, C!NoStream} /\ (resp'.stream # C!NoStream => content.by = "stream")
  BY <1>3, <1>5, Zenon
<1>7. 0 \in 0 .. MaxChunks /\ 0 \in 0 .. MaxChunks + 1
  BY MessagesAssumption DEF MessagesAssumption
<1>8. ContentTypes'
  <2>1. content' \in [by : Setters, body : Seq(Units)]
    BY <1>1, <1>2 DEF ContentTypes
  <2>2. resp'.stream \in (0 .. MaxChunks + 1) \cup {C!NoStream}
    BY <1>6, <1>7, Zenon
  <2>3. pc' \in {"continue", "handling", "stream", "done", "thrown", "dropped"}
    BY <1>1, Zenon
  <2>4. UNCHANGED <<req, calls>>
    BY <1>1
  <2> QED
    BY <1>2, <1>5, <2>1, <2>2, <2>3, <2>4, TypesSame, Zenon
<1>9. CASE resp'.stream # C!NoStream
  <2>1. pc' = "stream"
    BY <1>1, <1>9
  <2>2. content'.by = "stream" /\ ~req'.head /\ resp'.chunked /\ resp'.stream \in 0 .. MaxChunks
    <3>1. content' = content /\ req' = req
      BY <1>1
    <3> QED
      BY <1>5, <1>6, <1>7, <1>9, <3>1, Zenon
  <2> QED
    BY <1>8, <2>1, <2>2 DEF ContentIInv
<1>10. CASE resp'.stream = C!NoStream
  <2>1. pc' = "done"
    BY <1>1, <1>10
  <2>2. PICK r : r = resp
    OBVIOUS
  <2>3. /\ Asked(r)' = Asked(r) /\ Responses' = Responses /\ C!Framed(r)' = C!Framed(r)
        /\ C!Throws(r)' = C!Throws(r) /\ Interim' = Interim
    BY <1>1, AskedSame, FramedSame
  <2>4. r \in Responses' /\ Asked(r)' /\ ~C!Throws(r)' /\ resp' = C!Framed(r)'
    BY <1>1, <1>2, <1>3, <2>2, <2>3, Zenon
  <2>5. stream' = (Interim \o C!Written(resp))'
    BY <1>1, <1>2, <2>3
  <2>6. Answered'
    BY <2>4, <2>5, Zenon DEF Answered
  <2> QED
    BY <1>8, <2>1, <2>6 DEF ContentIInv
<1> QED
  BY <1>9, <1>10

\* A chunk of a producer keeps the invariant,
LEMMA ContentStreams ==
  ASSUME ContentIInv, NEW n \in 0 .. 1, NEW more \in BOOLEAN, C!WriteChunk(n, more)
  PROVE  ContentIInv'
<1>1. /\ pc = "stream" /\ (resp.stream < MaxChunks \/ ~more)
      /\ resp' = [resp EXCEPT !.stream = resp.stream + 1]
      /\ content' = [content EXCEPT !.body = content.body \o C!Units("stream", n)]
      /\ pc' = IF more THEN pc ELSE "done"
      /\ UNCHANGED <<req, calls>>
  BY DEF C!WriteChunk
<1>2. /\ ContentTypes /\ resp \in Responses /\ content \in [by : Setters, body : Seq(Units)]
      /\ content.by = "stream" /\ ~req.head /\ resp.chunked /\ resp.stream \in 0 .. MaxChunks
      /\ (resp.chunked => resp.length = C!None)
  BY <1>1 DEF ContentIInv, ContentTypes, C!TypeOK
<1> DEFINE t == resp.stream + 1
<1>3. t \in Nat /\ t \in 0 .. MaxChunks + 1 /\ (more => t \in 0 .. MaxChunks)
  <2>1. MaxChunks \in Nat
    BY MessagesAssumption DEF MessagesAssumption
  <2>2. PICK s : s = resp.stream
    BY Zenon
  <2>3. s \in 0 .. MaxChunks /\ (s < MaxChunks \/ ~more)
    BY <1>1, <1>2, <2>2, Zenon
  <2>4. s + 1 \in Nat /\ s + 1 \in 0 .. MaxChunks + 1 /\ (more => s + 1 \in 0 .. MaxChunks)
    BY ONLY <2>1, <2>3
  <2> QED
    BY <2>2, <2>4
<1>4. /\ resp' \in Responses /\ resp'.stream = t /\ resp'.chunked /\ resp'.length = C!None
      /\ resp'.result = resp.result
  <2>1. resp' = [resp EXCEPT !.stream = t]
    BY <1>1
  <2> HIDE DEF t
  <2>2. t \in Nat
    BY <1>3
  <2> QED
    BY <1>2, <2>1, <2>2, SetStream, Zenon
<1> HIDE DEF t
<1>5. content' \in [by : Setters, body : Seq(Units)] /\ content'.by = "stream"
  <2>1. C!Units("stream", n) \in Seq(Units)
    <3>1. "stream" \in Setters /\ n \in Nat
      BY DEF Setters
    <3> QED
      BY <3>1, UnitFacts
  <2> DEFINE b == content.body \o C!Units("stream", n)
  <2>2. b \in Seq(Units)
    BY <1>2, <2>1, ConcatProperties
  <2>3. content' = [content EXCEPT !.body = b]
    BY <1>1
  <2> HIDE DEF b
  <2> QED
    BY <1>2, <2>2, <2>3
<1>6. pc' = IF more THEN "stream" ELSE "done"
  BY <1>1
<1>7. ContentTypes'
  <2>1. pc' \in {"continue", "handling", "stream", "done", "thrown", "dropped"}
    BY <1>6, Zenon
  <2>2. resp'.stream \in (0 .. MaxChunks + 1) \cup {C!NoStream}
    BY <1>3, <1>4, Zenon
  <2>3. UNCHANGED <<req, calls>>
    BY <1>1
  <2> QED
    BY <1>2, <1>4, <1>5, <2>1, <2>2, <2>3, TypesSame, Zenon
<1>8. req' = req /\ ~req'.head
  BY <1>1, <1>2
<1>9. pc' = "stream" => resp'.stream \in 0 .. MaxChunks
  BY <1>3, <1>4, <1>6, Zenon
<1>10. pc' \in {"stream", "done"}
  BY <1>6, Zenon
<1> QED
  BY <1>4, <1>5, <1>7, <1>8, <1>9, <1>10 DEF ContentIInv

\* as does a producer that fails.
LEMMA ContentStops == ASSUME ContentIInv, C!StreamFails PROVE ContentIInv'
<1>1. pc' = "dropped" /\ UNCHANGED <<req, resp, content, calls, stream>>
  BY DEF C!StreamFails
<1>2. ContentTypes'
  <2>1. /\ ContentTypes
        /\ pc' \in {"continue", "handling", "stream", "done", "thrown", "dropped"}
    BY <1>1 DEF ContentIInv, ContentTypes, C!TypeOK
  <2>2. UNCHANGED <<req, resp, content, calls>>
    BY <1>1
  <2> QED
    BY <2>1, <2>2, TypesKept
<1> QED
  BY <1>1, <1>2 DEF ContentIInv

\* Every step of the content keeps its invariant.
LEMMA ContentStep == ContentIInv /\ (C!Next \/ UNCHANGED contentVars) => ContentIInv'
<1> SUFFICES ASSUME ContentIInv, C!Next \/ UNCHANGED contentVars PROVE ContentIInv'
  OBVIOUS
<1>1. CASE C!WriteContinue
  BY <1>1, ContentContinues
<1>2. CASE C!WriteThrows
  BY <1>2, ContentThrows
<1>3. CASE C!WriteResponse
  BY <1>3, ContentAnswers
<1>4. CASE \E n \in 0 .. 1, more \in BOOLEAN : C!WriteChunk(n, more)
  BY <1>4, ContentStreams
<1>5. CASE C!StreamFails
  BY <1>5, ContentStops
<1>6. CASE (pc \in {"done", "thrown", "dropped"} /\ UNCHANGED C!vars) \/ UNCHANGED contentVars
  <2>1. UNCHANGED contentVars
    BY <1>6 DEF C!vars, contentVars
  <2> QED
    BY <2>1, ContentSame
<1>7. CASE \/ \E s \in C!Statuses :
                \/ C!SetEmptyContent(s) \/ C!SetErrorContent(s) \/ C!SetStringContent(s)
                \/ C!SetRedirect(s) \/ C!SetJsonContent(s) \/ C!SetStreamContent(s)
           \/ C!SetFormDataContent
           \/ \E how \in C!FileOutcomes : C!SetFileContent(how)
  BY <1>7, ContentCalls
<1> QED
  BY <1>1, <1>2, <1>3, <1>4, <1>5, <1>6, <1>7 DEF C!Next

\* What the header says of a response is what the response says.
LEMMA HeaderFacts ==
  ASSUME NEW r \in Responses
  PROVE  LET h == HeaderOf(r).at
         IN  h.result = r.result /\ h.length = r.length /\ h.chunked = r.chunked
<1> DEFINE h == [r EXCEPT !.body = <<>>]
<1>1. HeaderOf(r).at = h
  BY DEF HeaderOf
<1>2. h.result = r.result /\ h.length = r.length /\ h.chunked = r.chunked
  BY SetBody DEF Bodies
<1> HIDE DEF h
<1> QED
  BY <1>1, <1>2, Zenon

\* A client takes as the body all that comes, when that is what the header says.
LEMMA ReadWhole ==
  ASSUME NEW h, NEW s \in Seq(Units),
         \/ C!NoBody(h) /\ s = <<>>
         \/ ~C!NoBody(h) /\ h.chunked /\ h.length = C!None /\ req.version = 11
            /\ C!LastChunkIn(s) = Len(s)
         \/ ~C!NoBody(h) /\ ~h.chunked /\ h.length # C!None /\ h.length = Len(s)
         \/ ~C!NoBody(h) /\ ~h.chunked /\ h.length = C!None /\ ~req.keep
  PROVE  LET m == C!ReadMessage(h, s)
         IN  m.body = C!Payload(s) /\ m.complete /\ m.rest = <<>>
<1> DEFINE n == CASE C!NoBody(h)                                    -> 0
                  [] ~C!NoBody(h) /\ h.chunked /\ req.version = 11  -> C!LastChunkIn(s)
                  [] ~C!NoBody(h) /\ h.length # C!None              -> h.length
                  [] OTHER                                          -> Len(s)
           m == C!ReadMessage(h, s)
<1>1. /\ m.body = C!Payload(SubSeq(s, 1, n)) /\ m.rest = SubSeq(s, n + 1, Len(s))
      /\ m.complete = (n <= Len(s) /\ (C!NoBody(h) \/ h.chunked \/ h.length # C!None \/ ~req.keep))
  BY DEF C!ReadMessage
<1>2. n = Len(s)
  <2>1. CASE C!NoBody(h)
    <3>1. s = <<>>
      BY <2>1
    <3> QED
      BY <2>1, <3>1
  <2>2. CASE ~C!NoBody(h) /\ h.chunked
    <3>1. h.length = C!None /\ req.version = 11 /\ C!LastChunkIn(s) = Len(s)
      BY <2>2, Zenon
    <3>2. ~C!NoBody(h) /\ h.chunked /\ h.length = C!None /\ req.version = 11
      BY <2>2, <3>1
    <3>3. n = C!LastChunkIn(s)
      BY <3>2, SecondCase
    <3> QED
      BY <3>1, <3>3, Zenon
  <2>3. CASE ~C!NoBody(h) /\ ~h.chunked
    BY <2>3
  <2> QED
    BY <2>1, <2>2, <2>3
<1> HIDE DEF n, m
<1>3. Len(s) \in Nat
  BY LenProperties
<1>4. SubSeq(s, 1, Len(s)) = s /\ SubSeq(s, Len(s) + 1, Len(s)) = <<>>
  BY <1>3, SubSeqFull, SubSeqEmpty
<1>5. C!NoBody(h) \/ h.chunked \/ h.length # C!None \/ ~req.keep
  OBVIOUS
<1>6. n <= Len(s)
  BY <1>2, <1>3
<1> QED
  BY <1>1, <1>2, <1>4, <1>5, <1>6, Zenon DEF m

\* The client takes the final message after the interim one.
LEMMA FinalFacts ==
  ASSUME NEW r \in Responses, stream = Interim \o C!Written(r), req.expect => C!Encoding = ""
  PROVE  C!Final = C!ReadMessage(HeaderOf(r).at, FrameOf(r))
<1> DEFINE h == HeaderOf(r)
           f == FrameOf(r)
           w == <<h>> \o f
<1>1. f \in Seq(Units) /\ C!Written(r) = w
  BY FrameFacts
<1>2. CASE ~req.expect
  <2> DEFINE S == Units \cup {h}
  <2>1. h \in S /\ f \in Seq(S)
    <3>1. h \in S /\ Units \subseteq S
      OBVIOUS
    <3> HIDE DEF S, h, f
    <3> QED
      BY <1>1, <3>1, SeqMonotonic
  <2>2. Interim = <<>>
    BY <1>2 DEF Interim
  <2> HIDE DEF S, h, f
  <2>3. w[1] = h /\ Tail(w) = f /\ <<>> \o w = w
    BY <2>1, WireFacts
  <2>4. stream = w
    BY <1>1, <2>2, <2>3
  <2> HIDE DEF w
  <2>5. C!Final = C!ReadMessage(stream[1].at, Tail(stream))
    BY <1>2 DEF C!Final
  <2> QED
    BY <2>3, <2>4, <2>5 DEF h, f
<1>3. CASE req.expect
  <2> DEFINE e  == C!Empty(C!New, C!continue)
             d  == C!Framed(e)
             h0 == HeaderOf(d)
             x  == <<h0>> \o w
             S  == Units \cup {h, h0}
  <2>1. C!Encoding = ""
    BY <1>3
  <2>2. /\ e \in Responses /\ e.result = 100 /\ ~e.chunked /\ e.encoding = "" /\ e.body = <<>>
        /\ e.stream = C!NoStream /\ e.length # C!None
    BY InterimFacts
  <2>3. d \in Responses /\ d.result = 100 /\ ~d.chunked /\ d.encoding = "" /\ d.body = <<>>
    <3> HIDE DEF e
    <3>1. FramedAs(e, d)
      BY <2>2, FramedFacts, Zenon
    <3>2. ~d.chunked
      <4>1. C!Encoded(e) = e
        BY <2>1 DEF C!Encoded
      <4>2. d = IF req.head THEN C!Reset(e) ELSE e
        BY <2>2, <4>1 DEF C!Framed
      <4>3. ~C!Reset(e).chunked
        BY <2>2, ResetFacts, Zenon
      <4> HIDE DEF d
      <4>4. CASE req.head
        BY <4>2, <4>3, <4>4
      <4>5. CASE ~req.head
        BY <2>2, <4>2, <4>5
      <4> QED
        BY <4>4, <4>5
    <3> HIDE DEF d
    <3> QED
      BY <2>2, <3>1, <3>2, Zenon DEF FramedAs
  <2>4. Interim = C!Written(d)
    BY <1>3 DEF Interim
  <2> HIDE DEF e, d
  <2>5. Interim = <<h0>>
    <3>1. FrameOf(d) = <<>> /\ C!Written(d) = <<h0>> \o FrameOf(d)
      BY <2>3, FrameFacts, Zenon
    <3>2. <<h0>> \o <<>> = <<h0>>
      BY OneItem
    <3> HIDE DEF h0
    <3> QED
      BY <2>4, <3>1, <3>2
  <2>6. stream = x
    BY <1>1, <2>5
  <2>7. h \in S /\ h0 \in S /\ f \in Seq(S)
    <3>1. h \in S /\ h0 \in S /\ Units \subseteq S
      OBVIOUS
    <3> HIDE DEF S, h, h0, f
    <3> QED
      BY <1>1, <3>1, SeqMonotonic
  <2>8. C!NoBody(h0.at)
    <3>1. h0.at.result = 100
      BY <2>3, HeaderFacts, Zenon
    <3> HIDE DEF h0
    <3> QED
      BY <3>1 DEF C!NoBody, C!BodilessStatus
  <2> HIDE DEF S, h, h0, f
  <2>9. w \in Seq(S) /\ w[1] = h /\ Tail(w) = f /\ SubSeq(w, 1, Len(w)) = w
    BY <2>7, WireFacts
  <2> HIDE DEF w
  <2>10. x[1] = h0 /\ Tail(x) = w
    BY <2>7, <2>9, WireFacts
  <2> HIDE DEF x
  <2>11. C!ReadMessage(h0.at, w).rest = w
    <3>1. C!ReadMessage(h0.at, w).rest = SubSeq(w, 1, Len(w))
      BY <2>8, OneIsFirst DEF C!ReadMessage
    <3> QED
      BY <2>9, <3>1
  <2> DEFINE first == C!ReadMessage(stream[1].at, Tail(stream))
  <2>12. C!Final = C!ReadMessage(first.rest[1].at, Tail(first.rest))
    BY <1>3 DEF C!Final
  <2>13. first.rest = w
    BY <2>6, <2>10, <2>11
  <2> HIDE DEF first
  <2> QED
    BY <2>9, <2>12, <2>13 DEF h, f
<1> QED
  BY <1>2, <1>3

\* A client that takes no frames away has the body as it is.
LEMMA PlainPayload ==
  ASSUME NEW b \in Bodies
  PROVE  C!Payload(b) = b
<1>1. b \in Seq(Units) /\ \A i \in 1 .. Len(b) : b[i].unit \notin {"chunk", "end"}
  BY BodyFacts, Zenon
<1>2. Len(b) \in Nat
  BY <1>1, LenProperties
<1> DEFINE hi == Len(b)
<1>3. \A i \in 1 .. Len(b) : 1 <= i /\ i <= hi <=> b[i].unit \notin {"chunk", "end"}
  BY <1>1, <1>2
<1>4. 1 \in Nat /\ hi \in Nat /\ 1 <= 1 /\ hi <= Len(b) /\ 1 <= hi + 1
  BY <1>2
<1> HIDE DEF hi
<1>5. C!Payload(b) = SubSeq(b, 1, hi)
  BY <1>1, <1>3, <1>4, PayloadIs
<1>6. SubSeq(b, 1, Len(b)) = b
  BY <1>1, SubSeqFull
<1> QED
  BY <1>5, <1>6 DEF hi

\* The invariant says what the properties say.
LEMMA ContentReads == ContentIInv => C!ClientReadsTheContent /\ C!ThrowsOnlyForStatus
<1> SUFFICES ASSUME ContentIInv PROVE C!ClientReadsTheContent /\ C!ThrowsOnlyForStatus
  OBVIOUS
<1>1. C!ThrowsOnlyForStatus
  BY DEF ContentIInv, C!ThrowsOnlyForStatus
<1>2. ASSUME pc = "done", C!Regular
      PROVE  /\ C!Final.complete /\ C!Final.rest = <<>>
             /\ C!Final.body = IF C!NoBody(resp) THEN <<>> ELSE content.body
  <2> DEFINE h == HeaderOf(resp).at
             f == FrameOf(resp)
  <2>1. /\ content.by # "stream" \/ req.head
        /\ content.by \in {"string", "error"} /\ ~req.head => resp.result \notin C!BodilessStatus
        /\ resp.chunked => ~C!NoBody(resp) /\ req.version = 11
        /\ req.expect => C!Encoding = ""
        /\ req.version = 10 /\ req.keep => resp.length # C!None
        /\ content.by \in {"json", "form", "parts", "nofile"} => resp.length = C!None
    BY <1>2 DEF C!Regular
  <2>2. PICK r \in Responses :
          /\ Asked(r) /\ ~C!Throws(r)
          /\ resp = C!Framed(r) /\ stream = Interim \o C!Written(resp)
    BY <1>2, <2>1 DEF ContentIInv, Answered
  <2>3. /\ ~r.chunked /\ r.encoding = "" /\ r.body = content.body
        /\ content.by # "stream" => r.stream = C!NoStream
        /\ content.by = "nothing" => r.length = C!None
        /\ content.by \notin {"json", "form", "parts", "nofile", "stream", "nothing"} =>
             r.length = Len(r.body)
        /\ r.result \in C!BodilessStatus =>
             content.by \in {"json", "string", "error"} \/ content.body = <<>>
    BY <2>2, Zenon DEF Asked, Asking
  <2>4. FramedAs(r, resp)
    BY <2>2, <2>3, FramedFacts, Zenon
  <2>5. /\ resp \in Responses /\ resp.result = r.result
        /\ (resp.chunked => resp.length = C!None)
        /\ (req.head => resp.body = <<>>) /\ (~req.head => resp.body = r.body)
        /\ ~resp.chunked =>
             /\ resp.length = r.length /\ resp.encoding = "" /\ r.stream = C!NoStream
             /\ r.length = C!None => req.version # 11
    BY <2>3, <2>4, Zenon DEF FramedAs
  <2>6. C!Final = C!ReadMessage(h, f) /\ f \in Seq(Units)
    BY <2>1, <2>2, <2>5, FinalFacts, FrameFacts
  <2>7. h.result = resp.result /\ h.length = resp.length /\ h.chunked = resp.chunked
        /\ (C!NoBody(h) <=> C!NoBody(resp))
    <3>1. h.result = resp.result /\ h.length = resp.length /\ h.chunked = resp.chunked
      BY <2>5, HeaderFacts, Zenon
    <3> HIDE DEF h
    <3> QED
      BY <3>1, Zenon DEF C!NoBody
  <2>8. ~resp.chunked => f = resp.body
    BY <2>5, FrameFacts, Zenon
  <2>9. req.version \in {10, 11}
    BY DEF ContentIInv, ContentTypes, C!TypeOK, C!Requests
  <2> HIDE DEF h, f
  <2>10. ASSUME \/ C!NoBody(h) /\ f = <<>>
                \/ ~C!NoBody(h) /\ h.chunked /\ h.length = C!None /\ req.version = 11
                   /\ C!LastChunkIn(f) = Len(f)
                \/ ~C!NoBody(h) /\ ~h.chunked /\ h.length # C!None /\ h.length = Len(f)
                \/ ~C!NoBody(h) /\ ~h.chunked /\ h.length = C!None /\ ~req.keep
         PROVE  C!Final.complete /\ C!Final.rest = <<>> /\ C!Final.body = C!Payload(f)
    <3>1. LET m == C!ReadMessage(h, f) IN m.body = C!Payload(f) /\ m.complete /\ m.rest = <<>>
      BY <2>6, <2>10, ReadWhole
    <3> QED
      BY <2>6, <3>1, Zenon
  <2>11. CASE C!NoBody(resp)
    <3>1. ~resp.chunked /\ f = resp.body
      BY <2>1, <2>8, <2>11
    <3>2. resp.body = <<>>
      <4>1. CASE req.head
        BY <2>5, <4>1
      <4>2. CASE ~req.head
        <5>1. r.result \in C!BodilessStatus
          BY <2>5, <2>11, <4>2 DEF C!NoBody
        <5>2. r.length = C!None => FALSE
          BY <2>2, <2>5, <3>1, <5>1 DEF C!Throws
        <5>3. content.by \notin {"json", "string", "error"}
          BY <2>1, <2>5, <3>1, <4>2, <5>1, <5>2
        <5> QED
          BY <2>3, <2>5, <4>2, <5>1, <5>3
      <4> QED
        BY <4>1, <4>2
    <3>3. C!Payload(f) = <<>>
      <4>1. <<>> \in Bodies
        BY DEF Bodies
      <4>2. C!Payload(<<>>) = <<>>
        BY <4>1, PlainPayload, Zenon
      <4> QED
        BY <3>1, <3>2, <4>2
    <3> QED
      BY <2>7, <2>10, <2>11, <3>1, <3>2, <3>3
  <2>12. CASE ~C!NoBody(resp) /\ resp.chunked
    <3>1. /\ C!LastChunkIn(f) = Len(f) /\ C!Payload(f) = resp.body
      BY <2>5, <2>12, ChunkedFrame DEF f
    <3>2. ~req.head
      BY <2>12 DEF C!NoBody
    <3> QED
      BY <2>1, <2>3, <2>5, <2>7, <2>10, <2>12, <3>1, <3>2
  <2>13. CASE ~C!NoBody(resp) /\ ~resp.chunked
    <3>1. ~req.head
      BY <2>13 DEF C!NoBody
    <3>2. f = content.body /\ r.body = content.body /\ content.by # "stream"
      BY <2>1, <2>3, <2>5, <2>8, <2>13, <3>1
    <3>3. C!Payload(f) = content.body
      <4>1. r.body \in Bodies
        BY TypedResponse
      <4> QED
        BY <3>2, <4>1, PlainPayload, Zenon
    <3>4. CASE resp.length = C!None
      <4>1. req.version = 10
        BY <2>5, <2>9, <2>13, <3>4
      <4>2. ~req.keep
        BY <2>1, <3>4, <4>1
      <4> QED
        BY <2>7, <2>10, <2>13, <3>2, <3>3, <3>4, <4>2
    <3>5. CASE resp.length # C!None
      <4>1. r.length # C!None /\ r.length = resp.length
        BY <2>5, <2>13, <3>5
      <4>2. content.by \notin {"json", "form", "parts", "nofile", "stream", "nothing"}
        BY <2>1, <2>3, <3>2, <3>5, <4>1
      <4>3. resp.length = Len(f)
        BY <2>3, <3>2, <4>1, <4>2
      <4> QED
        BY <2>7, <2>10, <2>13, <3>2, <3>3, <3>5, <4>3
    <3> QED
      BY <3>4, <3>5
  <2> QED
    BY <2>11, <2>12, <2>13
<1> QED
  BY <1>1, <1>2 DEF C!ClientReadsTheContent

\* Whatever content was set before, in which order and with which statuses, what a
\* client takes from the connection for the response is the content that was set
\* last, all of it and nothing else; and a request stays without an answer only for
\* content that cannot have its status.
THEOREM ContentIsRead == FairSpec => []ClientReadsTheContent
<1> DEFINE I == part = "content" => ContentIInv
<1>1. Init => I
  BY ContentInit DEF Init
<1>2. I /\ [Next]_vars => I'
  <2> SUFFICES ASSUME I, [Next]_vars, part' = "content" PROVE ContentIInv'
    OBVIOUS
  <2>1. CASE InContent(C!Next)
    BY <2>1, ContentStep DEF InContent
  <2>2. CASE InBody(B!Next) \/ InFile(R!Next) \/ InForm(F!Next)
    BY <2>2 DEF InBody, InFile, InForm
  <2>3. CASE UNCHANGED vars
    <3>1. part = "content" /\ UNCHANGED contentVars
      BY <2>3 DEF vars
    <3> QED
      BY <3>1, ContentStep
  <2> QED
    BY <2>1, <2>2, <2>3 DEF Next
<1>3. I => ClientReadsTheContent
  BY ContentReads DEF ClientReadsTheContent
<1> QED
  BY <1>1, <1>2, <1>3, PTL DEF FairSpec
=============================================================================
