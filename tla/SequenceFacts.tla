---------------------------- MODULE SequenceFacts ----------------------------
(* Facts about sequences that several proofs use.  The queues of the library, *)
(* a std::queue each, are sequences without repetition; bytes and units on a  *)
(* connection are sequences that are joined and cut, and recursive functions  *)
(* run along them.                                                            *)
EXTENDS Sequences, SequencesExt, Integers, SequenceTheorems, WellFoundedInduction, TLAPS

\* What enqueueing (std::queue::push) does to the set of queued elements.
LEMMA AppendFacts ==
  ASSUME NEW S, NEW s \in Seq(S), NEW x \in S
  PROVE  /\ Append(s, x) \in Seq(S)
         /\ Append(s, x) # <<>>
         /\ Range(Append(s, x)) = Range(s) \cup {x}
         /\ IsInjective(s) /\ x \notin Range(s) => IsInjective(Append(s, x))
<1>1. Append(s, x) \in Seq(S) /\ Len(Append(s, x)) = Len(s) + 1 /\ Len(s) \in Nat
  OBVIOUS
<1>a. Append(s, x) # <<>>
  BY <1>1
<1>2. /\ DOMAIN Append(s, x) = DOMAIN s \cup {Len(s) + 1}
      /\ \A k \in DOMAIN s : Append(s, x)[k] = s[k]
      /\ Append(s, x)[Len(s) + 1] = x
  OBVIOUS
<1>3. Range(Append(s, x)) = Range(s) \cup {x}
  BY <1>2, Zenon DEF Range
<1>4. IsInjective(s) /\ x \notin Range(s) => IsInjective(Append(s, x))
  BY <1>2, Zenon DEF Range, IsInjective
<1> QED
  BY <1>1, <1>a, <1>3, <1>4

\* What dequeueing (std::queue::front, then pop) does to it.
LEMMA TailFacts ==
  ASSUME NEW S, NEW s \in Seq(S), s # <<>>, IsInjective(s)
  PROVE  /\ Head(s) \in S
         /\ Tail(s) \in Seq(S)
         /\ Head(s) \in Range(s)
         /\ Range(Tail(s)) = Range(s) \ {Head(s)}
         /\ IsInjective(Tail(s))
<1>1. Head(s) \in S /\ Tail(s) \in Seq(S)
  OBVIOUS
<1>2. Len(s) \in Nat /\ Len(s) # 0 /\ DOMAIN s = 1 .. Len(s) /\ Head(s) = s[1]
  OBVIOUS
<1>3. DOMAIN Tail(s) = 1 .. (Len(s) - 1) /\ \A k \in 1 .. (Len(s) - 1) : Tail(s)[k] = s[k + 1]
  BY <1>2
<1>4. Head(s) \in Range(s)
  BY <1>2 DEF Range
<1>5. Range(Tail(s)) \subseteq Range(s) \ {Head(s)}
  <2> SUFFICES ASSUME NEW k \in DOMAIN Tail(s)
               PROVE  Tail(s)[k] \in Range(s) \ {Head(s)}
    BY DEF Range
  <2>1. k + 1 \in DOMAIN s /\ k + 1 # 1 /\ 1 \in DOMAIN s /\ Tail(s)[k] = s[k + 1]
    BY <1>2, <1>3
  <2> QED
    BY <1>2, <2>1 DEF Range, IsInjective
<1>6. Range(s) \ {Head(s)} \subseteq Range(Tail(s))
  <2> SUFFICES ASSUME NEW k \in DOMAIN s, s[k] # Head(s)
               PROVE  s[k] \in Range(Tail(s))
    BY DEF Range
  <2>1. k - 1 \in DOMAIN Tail(s) /\ Tail(s)[k - 1] = s[k]
    BY <1>2, <1>3
  <2> QED
    BY <2>1 DEF Range
<1>7. IsInjective(Tail(s))
  <2> SUFFICES ASSUME NEW a \in DOMAIN Tail(s), NEW b \in DOMAIN Tail(s), Tail(s)[a] = Tail(s)[b]
               PROVE  a = b
    BY DEF IsInjective
  <2>1. a + 1 \in DOMAIN s /\ b + 1 \in DOMAIN s /\ s[a + 1] = s[b + 1]
    BY <1>2, <1>3
  <2>2. a + 1 = b + 1
    BY <2>1 DEF IsInjective
  <2> QED
    BY <2>2, <1>3, <1>2
<1> QED
  BY <1>1, <1>4, <1>5, <1>6, <1>7

\* x is before y in s.
Precedes(s, x, y) == \E i, j \in DOMAIN s : i < j /\ s[i] = x /\ s[j] = y

\* The order of a sequence without repetition is asymmetric.
LEMMA PrecedesFacts ==
  ASSUME NEW S, NEW s \in Seq(S), IsInjective(s), NEW x, NEW y, Precedes(s, x, y)
  PROVE  x \in Range(s) /\ y \in Range(s) /\ x # y /\ ~Precedes(s, y, x)
<1>1. PICK i \in DOMAIN s, j \in DOMAIN s : i < j /\ s[i] = x /\ s[j] = y
  BY DEF Precedes
<1>2. DOMAIN s = 1 .. Len(s) /\ Len(s) \in Nat
  BY LenProperties
<1>3. x \in Range(s) /\ y \in Range(s)
  BY <1>1 DEF Range
<1>4. i \in Nat /\ j \in Nat /\ i # j
  BY <1>1, <1>2
<1>5. x # y
  BY <1>1, <1>4 DEF IsInjective
<1>6. ASSUME NEW k \in DOMAIN s, NEW l \in DOMAIN s, k < l, s[k] = y, s[l] = x PROVE FALSE
  <2>1. k = j /\ l = i
    BY <1>1, <1>6 DEF IsInjective
  <2> QED
    BY <1>1, <1>4, <1>6, <2>1
<1> QED
  BY <1>3, <1>5, <1>6 DEF Precedes

\* What comes last is preceded by everything, and the rest stays as it is.
LEMMA PrecedesAppend ==
  ASSUME NEW S, NEW s \in Seq(S), NEW a \in S, a \notin Range(s)
  PROVE  /\ \A x, y : Precedes(s, x, y) => Precedes(Append(s, a), x, y)
         /\ \A x \in Range(s) : Precedes(Append(s, a), x, a)
         /\ \A x, y : y # a /\ Precedes(Append(s, a), x, y) => Precedes(s, x, y)
<1> DEFINE t == Append(s, a)
<1>1. /\ t \in Seq(S) /\ Len(t) = Len(s) + 1 /\ t[Len(s) + 1] = a /\ Len(s) \in Nat
      /\ \A i \in 1 .. Len(s) : t[i] = s[i]
      /\ DOMAIN s = 1 .. Len(s) /\ DOMAIN t = 1 .. Len(s) + 1
  BY AppendProperties, LenProperties
<1> HIDE DEF t
<1>2. ASSUME NEW x, NEW y, Precedes(s, x, y) PROVE Precedes(t, x, y)
  <2>1. PICK i \in DOMAIN s, j \in DOMAIN s : i < j /\ s[i] = x /\ s[j] = y
    BY <1>2 DEF Precedes
  <2>2. i \in DOMAIN t /\ j \in DOMAIN t /\ t[i] = x /\ t[j] = y
    BY <1>1, <2>1
  <2> QED
    BY <2>1, <2>2 DEF Precedes
<1>3. ASSUME NEW x \in Range(s) PROVE Precedes(t, x, a)
  <2>1. PICK i \in DOMAIN s : s[i] = x
    BY DEF Range
  <2>2. /\ i \in DOMAIN t /\ Len(s) + 1 \in DOMAIN t /\ i < Len(s) + 1
        /\ t[i] = x /\ t[Len(s) + 1] = a
    BY <1>1, <2>1
  <2> QED
    BY <2>2 DEF Precedes
<1>4. ASSUME NEW x, NEW y, y # a, Precedes(t, x, y) PROVE Precedes(s, x, y)
  <2>1. PICK i \in DOMAIN t, j \in DOMAIN t : i < j /\ t[i] = x /\ t[j] = y
    BY <1>4 DEF Precedes
  <2>2. j # Len(s) + 1
    BY <1>1, <1>4, <2>1
  <2>3. i \in DOMAIN s /\ j \in DOMAIN s /\ s[i] = x /\ s[j] = y
    BY <1>1, <2>1, <2>2
  <2> QED
    BY <2>1, <2>3 DEF Precedes
<1> QED
  BY <1>2, <1>3, <1>4 DEF t

\* What an addition does to a sequence.
LEMMA AppendedFacts ==
  ASSUME NEW S, NEW s \in Seq(S), NEW a \in S
  PROVE  /\ Append(s, a) \in Seq(S) /\ Len(Append(s, a)) = Len(s) + 1 /\ Len(s) \in Nat
         /\ DOMAIN s = 1 .. Len(s) /\ DOMAIN Append(s, a) = 1 .. Len(s) + 1
         /\ \A i \in DOMAIN s : i \in DOMAIN Append(s, a) /\ Append(s, a)[i] = s[i]
         /\ Len(s) + 1 \in DOMAIN Append(s, a) /\ Append(s, a)[Len(s) + 1] = a
         /\ \A i \in DOMAIN Append(s, a) : i \in DOMAIN s \/ i = Len(s) + 1
<1>1. /\ Append(s, a) \in Seq(S) /\ Len(Append(s, a)) = Len(s) + 1 /\ Len(s) \in Nat
      /\ \A i \in 1 .. Len(s) : Append(s, a)[i] = s[i]
      /\ Append(s, a)[Len(s) + 1] = a
  BY AppendProperties, LenProperties
<1>2. DOMAIN s = 1 .. Len(s) /\ DOMAIN Append(s, a) = 1 .. Len(s) + 1
  BY <1>1, LenProperties
<1>3. /\ \A i \in 1 .. Len(s) : i \in 1 .. Len(s) + 1
      /\ Len(s) + 1 \in 1 .. Len(s) + 1
      /\ \A i \in 1 .. Len(s) + 1 : i \in 1 .. Len(s) \/ i = Len(s) + 1
  BY <1>1
<1> QED
  BY <1>1, <1>2, <1>3, Zenon

\* What the removal of the first does.
LEMMA RemovedFacts ==
  ASSUME NEW S, NEW s \in Seq(S), s # <<>>
  PROVE  /\ Tail(s) \in Seq(S) /\ Len(Tail(s)) = Len(s) - 1 /\ Len(s) \in Nat /\ Len(s) > 0
         /\ DOMAIN s = 1 .. Len(s) /\ DOMAIN Tail(s) = 1 .. Len(s) - 1
         /\ 1 \in DOMAIN s /\ Head(s) = s[1] /\ Head(s) \in S
         /\ \A i \in DOMAIN Tail(s) : i + 1 \in DOMAIN s /\ Tail(s)[i] = s[i + 1] /\ 1 < i + 1
         /\ \A i \in DOMAIN s : i = 1 \/ (i - 1 \in DOMAIN Tail(s) /\ Tail(s)[i - 1] = s[i])
<1>1. /\ Tail(s) \in Seq(S) /\ Len(Tail(s)) = Len(s) - 1 /\ Head(s) \in S
      /\ \A i \in 1 .. Len(Tail(s)) : Tail(s)[i] = s[i + 1]
      /\ Len(s) \in Nat /\ Len(s) > 0
  BY HeadTailProperties, EmptySeq
<1>2. DOMAIN s = 1 .. Len(s) /\ DOMAIN Tail(s) = 1 .. Len(s) - 1 /\ Head(s) = s[1]
  BY <1>1, LenProperties
<1>3. \A i \in 1 .. Len(s) : i = 1 \/ (i - 1 \in 1 .. Len(s) - 1 /\ (i - 1) + 1 = i)
  BY <1>1
<1>4. \A i \in 1 .. Len(s) : i = 1 \/ (i - 1 \in 1 .. Len(s) - 1 /\ Tail(s)[i - 1] = s[i])
  BY <1>1, <1>3
<1> QED
  BY <1>1, <1>2, <1>4

\* What a read of n tokens leaves is the input without its first token.
LEMMA ReadFacts ==
  ASSUME NEW S, NEW b \in Seq(S), NEW w \in Seq(S), NEW n \in 0 .. Len(w), n > 0 \/ b # <<>>
  PROVE  LET f == b \o SubSeq(w, 1, n)
         IN  /\ b \o w # <<>> /\ Head(f) = (b \o w)[1] /\ Head(f) \in S
             /\ Tail(f) \in Seq(S) /\ SubSeq(w, n + 1, Len(w)) \in Seq(S)
             /\ Tail(f) \o SubSeq(w, n + 1, Len(w)) = Tail(b \o w)
<1> DEFINE u == SubSeq(w, 1, n)
           v == SubSeq(w, n + 1, Len(w))
           f == b \o u
<1>0. Len(w) \in Nat /\ Len(b) \in Nat /\ \A i \in 1 .. Len(w) : w[i] \in S
  BY LenProperties, ElementOfSeq
<1>1. /\ u \in Seq(S) /\ Len(u) = n /\ \A i \in 1 .. n : u[i] = w[i]
  BY <1>0, SubSeqProperties
<1>2. /\ v \in Seq(S) /\ Len(v) = Len(w) - n /\ \A i \in 1 .. Len(w) - n : v[i] = w[n + i]
  BY <1>0, SubSeqProperties
<1> HIDE DEF u, v
<1>3. /\ f \in Seq(S) /\ Len(f) = Len(b) + n
      /\ \A i \in 1 .. Len(f) : f[i] = IF i <= Len(b) THEN b[i] ELSE w[i - Len(b)]
  <2>1. /\ f \in Seq(S) /\ Len(f) = Len(b) + n
        /\ \A i \in 1 .. Len(b) + n : f[i] = IF i <= Len(b) THEN b[i] ELSE u[i - Len(b)]
    BY <1>1, ConcatProperties
  <2>2. ASSUME NEW i \in 1 .. Len(b) + n, i > Len(b) PROVE i - Len(b) \in 1 .. n
    BY <1>0, <2>2
  <2> QED
    BY <1>0, <1>1, <2>1, <2>2
<1> HIDE DEF f
<1>4. /\ b \o w \in Seq(S) /\ Len(b \o w) = Len(b) + Len(w)
      /\ \A i \in 1 .. Len(b) + Len(w) : (b \o w)[i] = IF i <= Len(b) THEN b[i] ELSE w[i - Len(b)]
  BY ConcatProperties
<1>5. b # <<>> => Len(b) > 0
  BY <1>0, EmptySeq
<1>6. Len(f) > 0 /\ f # <<>> /\ b \o w # <<>> /\ Len(b \o w) > 0
  BY <1>0, <1>3, <1>4, <1>5, EmptySeq
<1>7. Head(f) = f[1] /\ Head(f) \in S /\ Tail(f) \in Seq(S) /\ Len(Tail(f)) = Len(f) - 1
      /\ \A i \in 1 .. Len(Tail(f)) : Tail(f)[i] = f[i + 1]
  BY <1>3, <1>6, HeadTailProperties
<1>8. f[1] = (b \o w)[1]
  BY <1>0, <1>3, <1>4, <1>6
<1>9. /\ Tail(b \o w) \in Seq(S) /\ Len(Tail(b \o w)) = Len(b) + Len(w) - 1
      /\ \A i \in 1 .. Len(b) + Len(w) - 1 : Tail(b \o w)[i] = (b \o w)[i + 1]
  BY <1>4, <1>6, HeadTailProperties
<1> DEFINE g == Tail(f)
           h == Tail(b \o w)
<1> HIDE DEF g, h
<1>10. /\ g \in Seq(S) /\ Len(g) = Len(b) + n - 1
       /\ \A i \in 1 .. Len(b) + n - 1 : g[i] = IF i + 1 <= Len(b) THEN b[i + 1] ELSE w[i + 1 - Len(b)]
  BY <1>0, <1>3, <1>7 DEF g
<1>11. /\ h \in Seq(S) /\ Len(h) = Len(b) + Len(w) - 1
       /\ \A i \in 1 .. Len(b) + Len(w) - 1 : h[i] = IF i + 1 <= Len(b) THEN b[i + 1] ELSE w[i + 1 - Len(b)]
  BY <1>0, <1>4, <1>9 DEF h
<1>12. g \o v = h
  <2>1. /\ g \o v \in Seq(S) /\ Len(g \o v) = Len(g) + Len(v)
        /\ \A i \in 1 .. Len(g) + Len(v) : (g \o v)[i] = IF i <= Len(g) THEN g[i] ELSE v[i - Len(g)]
    BY <1>2, <1>10, ConcatProperties
  <2>2. Len(g \o v) = Len(h)
    BY <1>0, <1>2, <1>10, <1>11, <2>1
  <2>3. ASSUME NEW i \in 1 .. Len(h) PROVE (g \o v)[i] = h[i]
    <3>0. Len(g) \in Int /\ Len(h) \in Int /\ n \in Nat /\ i \in Int /\ 1 <= i
      BY <1>0, <1>10, <1>11
    <3>1. CASE i <= Len(g)
      <4>1. i \in 1 .. Len(b) + n - 1 /\ i \in 1 .. Len(b) + Len(w) - 1 /\ i \in 1 .. Len(g) + Len(v)
        BY <1>0, <1>2, <1>10, <1>11, <3>0, <3>1
      <4>2. (g \o v)[i] = g[i]
        BY <2>1, <3>1, <4>1
      <4> QED
        BY <1>10, <1>11, <4>1, <4>2
    <3>2. CASE i > Len(g)
      <4>1. i - Len(g) \in 1 .. Len(w) - n /\ n + (i - Len(g)) = i + 1 - Len(b) /\ i + 1 > Len(b)
        BY <1>0, <1>10, <1>11, <3>2
      <4>2. (g \o v)[i] = v[i - Len(g)]
        BY <1>0, <1>2, <1>10, <1>11, <2>1, <3>2, SMTT(30)
      <4>3. h[i] = w[i + 1 - Len(b)]
        BY <1>0, <1>11, <4>1
      <4> QED
        BY <1>2, <4>1, <4>2, <4>3
    <3>3. i <= Len(g) \/ i > Len(g)
      BY <3>0
    <3> QED
      BY <3>1, <3>2, <3>3, Zenon
  <2> QED
    BY <1>11, <2>1, <2>2, <2>3, SeqEqual
<1> QED
  BY <1>2, <1>6, <1>7, <1>8, <1>12 DEF f, u, v, g, h

\* What is sent joins the end of the input.
LEMMA SendFacts ==
  ASSUME NEW S, NEW b \in Seq(S), NEW w \in Seq(S), NEW x \in S
  PROVE  b \o Append(w, x) = Append(b \o w, x)
<1>1. Append(w, x) = w \o <<x>> /\ <<x>> \in Seq(S) /\ b \o w \in Seq(S)
  BY AppendIsConcat, ConcatProperties
<1>2. (b \o w) \o <<x>> = b \o (w \o <<x>>)
  BY <1>1, ConcatAssociative
<1>3. Append(b \o w, x) = (b \o w) \o <<x>>
  BY <1>1, AppendIsConcat
<1> QED
  BY <1>1, <1>2, <1>3

\* What a read of n more tokens leaves: those behind what is there, and the rest.
LEMMA FillFacts ==
  ASSUME NEW S, NEW b \in Seq(S), NEW w \in Seq(S), NEW n \in 0 .. Len(w),
         NEW f, f = b \o SubSeq(w, 1, n), NEW r, r = SubSeq(w, n + 1, Len(w))
  PROVE  /\ f \in Seq(S) /\ Len(f) = Len(b) + n /\ DOMAIN f = 1 .. Len(b) + n
         /\ \A i \in 1 .. Len(b) : f[i] = b[i]
         /\ \A i \in 1 .. n : f[Len(b) + i] = w[i]
         /\ r \in Seq(S) /\ Len(r) = Len(w) - n /\ DOMAIN r = 1 .. Len(w) - n
         /\ \A i \in 1 .. Len(w) - n : r[i] = w[n + i]
<1> DEFINE u == SubSeq(w, 1, n)
<1>0. Len(w) \in Nat /\ Len(b) \in Nat /\ \A i \in 1 .. Len(w) : w[i] \in S
  BY LenProperties, ElementOfSeq
<1>1. u \in Seq(S) /\ Len(u) = n /\ \A i \in 1 .. n : u[i] = w[i]
  BY <1>0, SubSeqProperties
<1>2. r \in Seq(S) /\ Len(r) = Len(w) - n /\ \A i \in 1 .. Len(w) - n : r[i] = w[n + i]
  BY <1>0, SubSeqProperties
<1>3. DOMAIN r = 1 .. Len(w) - n
  BY <1>2, LenProperties
<1>a. f = b \o u
  OBVIOUS
<1> HIDE DEF u
<1>4. /\ f \in Seq(S) /\ Len(f) = Len(b) + n
      /\ \A i \in 1 .. Len(b) + n : f[i] = IF i <= Len(b) THEN b[i] ELSE u[i - Len(b)]
  BY <1>1, <1>a, ConcatProperties
<1>5. DOMAIN f = 1 .. Len(b) + n
  BY <1>4, LenProperties
<1>6. ASSUME NEW i \in 1 .. Len(b) PROVE f[i] = b[i]
  <2>1. i \in 1 .. Len(b) + n /\ i <= Len(b)
    BY <1>0
  <2> QED
    BY <1>4, <2>1
<1>7. ASSUME NEW i \in 1 .. n PROVE f[Len(b) + i] = w[i]
  <2>1. Len(b) + i \in 1 .. Len(b) + n /\ ~(Len(b) + i <= Len(b)) /\ (Len(b) + i) - Len(b) = i
    BY <1>0
  <2> QED
    BY <1>1, <1>4, <2>1
<1> QED
  BY <1>2, <1>3, <1>4, <1>5, <1>6, <1>7

\* What consuming the first c leaves.
LEMMA DropFacts ==
  ASSUME NEW S, NEW s \in Seq(S), NEW c \in 0 .. Len(s), NEW r, r = SubSeq(s, c + 1, Len(s))
  PROVE  /\ r \in Seq(S) /\ Len(r) = Len(s) - c /\ DOMAIN r = 1 .. Len(s) - c
         /\ \A i \in 1 .. Len(s) - c : r[i] = s[c + i]
<1>0. Len(s) \in Nat /\ \A i \in 1 .. Len(s) : s[i] \in S
  BY LenProperties, ElementOfSeq
<1>1. r \in Seq(S) /\ Len(r) = Len(s) - c /\ \A i \in 1 .. Len(s) - c : r[i] = s[c + i]
  BY <1>0, SubSeqProperties
<1>2. DOMAIN r = 1 .. Len(s) - c
  BY <1>1, LenProperties
<1> QED
  BY <1>1, <1>2

\* Nothing is left if that is more than there is.
LEMMA DropAll ==
  ASSUME NEW S, NEW s \in Seq(S), NEW c \in Nat, Len(s) <= c
  PROVE  SubSeq(s, c + 1, Len(s)) = <<>>
<1>1. Len(s) \in Nat /\ c + 1 > Len(s)
  BY LenProperties
<1> QED
  BY <1>1
-----------------------------------------------------------------------------
(* Recursive functions on sequences: what holds of every place, because there  *)
(* is no least one of which it does not hold.                                  *)

\* A set of numbers that is not empty has a least one.
LEMMA LeastOf ==
  ASSUME NEW T \in SUBSET Nat, T # {}
  PROVE  \E x \in T : \A y \in T : x <= y
<1>1. PICK x \in T : \A y \in T : ~(<<y, x>> \in OpToRel(<, Nat))
  BY NatLessThanWellFounded, WFMin, Zenon
<1>2. ASSUME NEW y \in T PROVE x <= y
  <2>1. x \in Nat /\ y \in Nat
    OBVIOUS
  <2>2. ~(y < x)
    BY <1>1, <2>1 DEF OpToRel
  <2> QED
    BY <2>1, <2>2
<1> QED
  BY <1>2

\* Every number has what 0 has and each number passes on to the next: for a set T.
LEMMA AllOf ==
  ASSUME NEW T, 0 \in T, \A n \in Nat : n \in T => n + 1 \in T
  PROVE  \A n \in Nat : n \in T
<1> SUFFICES ASSUME NEW n \in Nat, n \notin T PROVE FALSE
  OBVIOUS
<1> DEFINE U == Nat \ T
<1>1. PICK m \in U : \A k \in U : m <= k
  BY LeastOf
<1>2. m # 0 /\ m - 1 \in Nat /\ m - 1 \notin U
  BY <1>1
<1>3. m - 1 \in T
  BY <1>2
<1>4. m \in T
  <2>1. (m - 1) + 1 \in T
    BY <1>2, <1>3
  <2> QED
    BY <2>1, <1>2
<1> QED
  BY <1>1, <1>4

\* What is selected element by element from place lo to place hi is what stands
\* there: as a function of the elements looked at.
LEMMA SelectionStep ==
  ASSUME NEW S, NEW s \in Seq(S), NEW lo \in Nat, NEW hi \in Nat, 1 <= lo, hi <= Len(s),
         lo <= hi + 1
  PROVE  LET g == [i \in 0 .. Len(s) |-> SubSeq(s, lo, IF i <= hi THEN i ELSE hi)]
         IN  /\ g[0] = <<>> /\ g[Len(s)] = SubSeq(s, lo, hi)
             /\ \A i \in 1 .. Len(s) :
                  g[i] = IF lo <= i /\ i <= hi THEN Append(g[i - 1], s[i]) ELSE g[i - 1]
<1> DEFINE g == [i \in 0 .. Len(s) |-> SubSeq(s, lo, IF i <= hi THEN i ELSE hi)]
<1>1. Len(s) \in Nat /\ DOMAIN s = 1 .. Len(s)
  BY LenProperties
<1>2. g[0] = <<>>
  <2>1. g[0] = SubSeq(s, lo, 0)
    BY <1>1
  <2> QED
    BY <2>1, SubSeqEmpty
<1>3. g[Len(s)] = SubSeq(s, lo, hi)
  BY <1>1
<1>4. ASSUME NEW i \in 1 .. Len(s)
      PROVE  g[i] = IF lo <= i /\ i <= hi THEN Append(g[i - 1], s[i]) ELSE g[i - 1]
  <2>1. i - 1 \in 0 .. Len(s) /\ i \in 0 .. Len(s) /\ i \in Nat
    BY <1>1
  <2>2. CASE i > hi
    <3>1. g[i] = SubSeq(s, lo, hi) /\ g[i - 1] = SubSeq(s, lo, hi)
      BY <2>1, <2>2
    <3> QED
      BY <3>1, <2>1, <2>2
  <2>3. CASE i < lo
    <3>1. g[i] = SubSeq(s, lo, i) /\ g[i - 1] = SubSeq(s, lo, i - 1)
      BY <2>1, <2>3
    <3>2. SubSeq(s, lo, i) = <<>> /\ SubSeq(s, lo, i - 1) = <<>>
      BY <2>1, <2>3, SubSeqEmpty
    <3> QED
      BY <3>1, <3>2, <2>1, <2>3
  <2>4. CASE lo <= i /\ i <= hi
    <3>1. g[i] = SubSeq(s, lo, i) /\ g[i - 1] = SubSeq(s, lo, i - 1)
      BY <2>1, <2>4
    <3>2. SubSeq(s, lo, i) = SubSeq(s, lo, i - 1) \o <<s[i]>>
      BY <2>1, <2>4, <1>1, SubSeqRecursiveSecond
    <3>3. SubSeq(s, lo, i - 1) \in Seq(S) /\ s[i] \in S
      BY <2>1, <2>4, <1>1, SubSeqProperties, ElementOfSeq
    <3>4. Append(SubSeq(s, lo, i - 1), s[i]) = SubSeq(s, lo, i - 1) \o <<s[i]>>
      BY <3>3, AppendIsConcat
    <3> HIDE DEF g
    <3> QED
      BY <3>1, <3>2, <3>4, <2>4
  <2> QED
    BY <2>1, <2>2, <2>3, <2>4
<1> QED
  BY <1>2, <1>3, <1>4

\* The recursive function that selects these elements one after the other computes it.
LEMMA Selection ==
  ASSUME NEW S, NEW s \in Seq(S), NEW lo \in Nat, NEW hi \in Nat, 1 <= lo, hi <= Len(s),
         lo <= hi + 1, NEW f, f[0] = <<>>,
         \A i \in 1 .. Len(s) :
           f[i] = IF lo <= i /\ i <= hi THEN Append(f[i - 1], s[i]) ELSE f[i - 1]
  PROVE  f[Len(s)] = SubSeq(s, lo, hi)
<1> DEFINE g == [i \in 0 .. Len(s) |-> SubSeq(s, lo, IF i <= hi THEN i ELSE hi)]
<1>1. /\ g[0] = <<>> /\ g[Len(s)] = SubSeq(s, lo, hi)
      /\ \A i \in 1 .. Len(s) :
           g[i] = IF lo <= i /\ i <= hi THEN Append(g[i - 1], s[i]) ELSE g[i - 1]
  BY SelectionStep, ZenonT(40)
<1> HIDE DEF g
<1>2. \A i \in 1 .. Len(s) : f[i - 1] = g[i - 1] => f[i] = g[i]
  BY <1>1
<1>3. Len(s) \in Nat
  BY LenProperties
<1> DEFINE T == {k \in Nat : k <= Len(s) => f[k] = g[k]}
<1>4. Len(s) \in T
  <2>1. 0 \in T
    BY <1>1
  <2>2. ASSUME NEW k \in Nat, k \in T PROVE k + 1 \in T
    <3> SUFFICES ASSUME k + 1 <= Len(s) PROVE f[k + 1] = g[k + 1]
      OBVIOUS
    <3>1. k + 1 \in 1 .. Len(s) /\ (k + 1) - 1 = k /\ f[k] = g[k]
      BY <2>2, <1>3
    <3> QED
      BY <3>1, <1>2
  <2> HIDE DEF T
  <2> QED
    BY <2>1, <2>2, <1>3, AllOf
<1> QED
  BY <1>1, <1>3, <1>4

\* Of cases of which the second alone holds, its value is taken.
LEMMA SecondCase ==
  ASSUME NEW a, NEW b, NEW c, NEW w, NEW x, NEW y, NEW z, ~a, b, ~c
  PROVE  (CASE a -> w [] b -> x [] c -> y [] OTHER -> z) = x
OBVIOUS

\* Nothing is added by an empty sequence.
LEMMA OneItem == ASSUME NEW h PROVE <<h>> \o <<>> = <<h>>
<1>1. <<h>> \in Seq({h})
  OBVIOUS
<1> QED
  BY <1>1, ConcatEmptySeq

\* Places are counted from one.
LEMMA OneIsFirst == 0 + 1 = 1
OBVIOUS
-----------------------------------------------------------------------------
(* Sequences put together of sequences, and cut *)

\* f is computed step after step, from b.
IsIterate(S, b, n, next, f) ==
  f \in [0 .. n -> S] /\ f[0] = b /\ \A i \in 1 .. n : f[i] = next[<<i, f[i - 1]>>]

\* There is such a function.
LEMMA Iterates ==
  ASSUME NEW S, NEW b \in S, NEW n \in Nat, NEW next \in [(1 .. n) \X S -> S]
  PROVE  \E f : IsIterate(S, b, n, next, f)
<1> DEFINE T == {k \in Nat : k <= n =>
      \E f \in [0 .. k -> S] : f[0] = b /\ \A i \in 1 .. k : f[i] = next[<<i, f[i - 1]>>]}
<1>1. 0 \in T
  <2> DEFINE g == [i \in 0 .. 0 |-> b]
  <2>1. g \in [0 .. 0 -> S] /\ g[0] = b
    OBVIOUS
  <2>2. \A i \in 1 .. 0 : g[i] = next[<<i, g[i - 1]>>]
    OBVIOUS
  <2> HIDE DEF g
  <2>3. \E f \in [0 .. 0 -> S] : f[0] = b /\ \A i \in 1 .. 0 : f[i] = next[<<i, f[i - 1]>>]
    BY <2>1, <2>2
  <2> QED
    BY <2>3
<1>2. ASSUME NEW k \in Nat, k \in T, k + 1 <= n PROVE k + 1 \in T
  <2>1. PICK f \in [0 .. k -> S] : f[0] = b /\ \A i \in 1 .. k : f[i] = next[<<i, f[i - 1]>>]
    BY <1>2
  <2> DEFINE v == next[<<k + 1, f[k]>>]
             g == [i \in 0 .. k + 1 |-> IF i <= k THEN f[i] ELSE v]
  <2>2. v \in S
    BY <2>1, <1>2
  <2>3. g \in [0 .. k + 1 -> S]
    BY <2>1, <2>2
  <2>4. g[0] = b
    BY <2>1
  <2>5. ASSUME NEW i \in 1 .. k + 1 PROVE g[i] = next[<<i, g[i - 1]>>]
    <3>1. i - 1 \in 0 .. k /\ g[i - 1] = f[i - 1]
      OBVIOUS
    <3>2. CASE i = k + 1
      <4>1. i - 1 = k /\ g[i] = v
        BY <3>2
      <4> HIDE DEF g
      <4> QED
        BY <3>1, <3>2, <4>1
    <3>3. CASE i <= k
      BY <3>1, <3>3, <2>1
    <3> QED
      BY <3>2, <3>3
  <2> HIDE DEF g
  <2>6. \E h \in [0 .. k + 1 -> S] : h[0] = b /\ \A i \in 1 .. k + 1 : h[i] = next[<<i, h[i - 1]>>]
    BY <2>3, <2>4, <2>5
  <2> QED
    BY <2>6
<1> HIDE DEF T
<1>3. n \in T
  <2>1. \A k \in Nat : k \in T => k + 1 \in T
    <3> TAKE k \in Nat
    <3> HAVE k \in T
    <3>1. CASE k + 1 <= n
      BY <3>1, <1>2
    <3>2. CASE ~(k + 1 <= n)
      BY <3>2 DEF T
    <3> QED
      BY <3>1, <3>2
  <2> QED
    BY <1>1, <2>1, AllOf
<1>4. PICK f \in [0 .. n -> S] : f[0] = b /\ \A i \in 1 .. n : f[i] = next[<<i, f[i - 1]>>]
  BY <1>3 DEF T
<1>5. IsIterate(S, b, n, next, f)
  BY <1>4, Zenon DEF IsIterate
<1> QED
  BY <1>5

\* Two functions that start alike and go on alike
GoAlike(n, f, g) == f[0] = g[0] /\ \A i \in 1 .. n : f[i - 1] = g[i - 1] => f[i] = g[i]

\* are the same.
LEMMA SameSteps ==
  ASSUME NEW n \in Nat, NEW f, NEW g, GoAlike(n, f, g)
  PROVE  \A i \in 0 .. n : f[i] = g[i]
<1>0. f[0] = g[0] /\ \A i \in 1 .. n : f[i - 1] = g[i - 1] => f[i] = g[i]
  BY DEF GoAlike
<1> DEFINE T == {k \in Nat : k <= n => f[k] = g[k]}
<1>1. 0 \in T
  BY <1>0
<1>2. ASSUME NEW k \in Nat, k \in T PROVE k + 1 \in T
  <2> SUFFICES ASSUME k + 1 <= n PROVE f[k + 1] = g[k + 1]
    OBVIOUS
  <2>1. k + 1 \in 1 .. n /\ (k + 1) - 1 = k /\ f[k] = g[k]
    BY <1>2
  <2> QED
    BY <1>0, <2>1
<1>3. \A k \in Nat : k \in T
  <2> HIDE DEF T
  <2> QED
    BY <1>1, <1>2, AllOf
<1> QED
  BY <1>3

\* f joins the sequences s[1], s[2], ... one to the other.
IsJoin(E, n, s, f) ==
  f \in [0 .. n -> Seq(E)] /\ f[0] = <<>> /\ \A i \in 1 .. n : f[i] = f[i - 1] \o s[i]

\* There is such a function,
LEMMA Joins ==
  ASSUME NEW E, NEW n \in Nat, NEW s, \A i \in 1 .. n : s[i] \in Seq(E)
  PROVE  \E f : IsJoin(E, n, s, f)
<1> DEFINE next == [p \in (1 .. n) \X Seq(E) |-> p[2] \o s[p[1]]]
<1>1. next \in [(1 .. n) \X Seq(E) -> Seq(E)]
  <2>1. ASSUME NEW p \in (1 .. n) \X Seq(E) PROVE p[2] \o s[p[1]] \in Seq(E)
    <3>1. p[2] \in Seq(E) /\ s[p[1]] \in Seq(E)
      OBVIOUS
    <3> QED
      BY <3>1, ConcatProperties
  <2> QED
    BY <2>1
<1>2. \A i \in 1 .. n : \A y \in Seq(E) : next[<<i, y>>] = y \o s[i]
  OBVIOUS
<1> HIDE DEF next
<1>3. <<>> \in Seq(E)
  OBVIOUS
<1>4. PICK f : IsIterate(Seq(E), <<>>, n, next, f)
  BY <1>1, <1>3, Iterates
<1>5. f \in [0 .. n -> Seq(E)] /\ f[0] = <<>> /\ \A i \in 1 .. n : f[i] = next[<<i, f[i - 1]>>]
  BY <1>4, Zenon DEF IsIterate
<1>6. ASSUME NEW i \in 1 .. n PROVE f[i] = f[i - 1] \o s[i]
  <2>1. f[i - 1] \in Seq(E)
    BY <1>5
  <2> QED
    BY <1>2, <1>5, <2>1
<1>7. IsJoin(E, n, s, f)
  BY <1>5, <1>6, Zenon DEF IsJoin
<1> QED
  BY <1>7

\* and none that computes anything else, starting from the first sequence.
LEMMA JoinsFromFirst ==
  ASSUME NEW E, NEW n \in Nat, n # 0, NEW s, NEW f, IsJoin(E, n, s, f), s[1] \in Seq(E),
         NEW c, \A i \in 1 .. n : c[i] = IF i = 1 THEN s[i] ELSE c[i - 1] \o s[i]
  PROVE  c[n] = f[n]
<1> DEFINE d == [i \in 0 .. n |-> IF i = 0 THEN <<>> ELSE c[i]]
<1>1. f[0] = <<>> /\ \A i \in 1 .. n : f[i] = f[i - 1] \o s[i]
  BY DEF IsJoin
<1>2. d[0] = <<>> /\ \A i \in 1 .. n : d[i] = c[i]
  OBVIOUS
<1> HIDE DEF d
<1>3. ASSUME NEW i \in 1 .. n, d[i - 1] = f[i - 1] PROVE d[i] = f[i]
  <2>1. CASE i = 1
    <3>1. 1 \in 1 .. n /\ 1 - 1 = 0
      BY <2>1
    <3>2. f[1] = <<>> \o s[1]
      BY <1>1, <3>1
    <3>3. f[1] = s[1]
      BY <3>2, ConcatEmptySeq
    <3> QED
      BY <1>2, <2>1, <3>1, <3>3
  <2>2. CASE i # 1
    <3>1. i - 1 \in 1 .. n
      BY <2>2
    <3>2. c[i] = c[i - 1] \o s[i] /\ d[i - 1] = c[i - 1] /\ d[i] = c[i]
      BY <1>2, <2>2, <3>1
    <3> QED
      BY <1>1, <1>3, <3>2
  <2> QED
    BY <2>1, <2>2
<1>4. \A i \in 1 .. n : d[i - 1] = f[i - 1] => d[i] = f[i]
  BY <1>3, Zenon
<1>5. \A i \in 0 .. n : d[i] = f[i]
  <2>1. PICK e : e = d
    OBVIOUS
  <2>2. e[0] = f[0] /\ \A i \in 1 .. n : e[i - 1] = f[i - 1] => e[i] = f[i]
    BY <1>1, <1>2, <1>4, <2>1, Zenon
  <2>3. \A i \in 0 .. n : e[i] = f[i]
    <3>1. GoAlike(n, e, f)
      BY <2>2, Zenon DEF GoAlike
    <3> QED
      BY <3>1, SameSteps
  <2> QED
    BY <2>1, <2>3, Zenon
<1>6. n \in 0 .. n /\ n \in 1 .. n
  OBVIOUS
<1> QED
  BY <1>2, <1>5, <1>6, Zenon

\* What is put together of pieces (FlattenSeq).
LEMMA FlattenFacts ==
  ASSUME NEW E, NEW seqs \in Seq(Seq(E))
  PROVE  \E f : IsJoin(E, Len(seqs), seqs, f) /\ FlattenSeq(seqs) = f[Len(seqs)]
<1>1. PICK n : n = Len(seqs)
  OBVIOUS
<1>2. n \in Nat /\ \A i \in 1 .. n : seqs[i] \in Seq(E)
  BY <1>1, LenProperties, ElementOfSeq
<1>3. PICK f : IsJoin(E, n, seqs, f)
  BY <1>2, Joins, Zenon
<1>4. CASE n = 0
  <2>1. FlattenSeq(seqs) = seqs /\ seqs = <<>>
    BY <1>1, <1>4, EmptySeq DEF FlattenSeq
  <2>2. f[0] = <<>>
    BY <1>3, Zenon DEF IsJoin
  <2> QED
    BY <1>1, <1>3, <1>4, <2>1, <2>2, Zenon
<1>5. CASE n # 0
  <2> DEFINE P(h) == h = [i \in 1 .. n |-> IF i = 1 THEN seqs[i] ELSE h[i - 1] \o seqs[i]]
             g    == [i \in 1 .. n |-> f[i]]
             c    == CHOOSE h : P(h)
  <2>0. f[0] = <<>> /\ \A i \in 1 .. n : f[i] = f[i - 1] \o seqs[i]
    BY <1>3, Zenon DEF IsJoin
  <2>1. P(g)
    <3>1. ASSUME NEW i \in 1 .. n
          PROVE  g[i] = IF i = 1 THEN seqs[i] ELSE g[i - 1] \o seqs[i]
      <4>1. CASE i = 1
        <5>1. 1 \in 1 .. n /\ 1 - 1 = 0
          BY <4>1
        <5>2. f[1] = <<>> \o seqs[1] /\ seqs[1] \in Seq(E)
          BY <1>2, <2>0, <5>1
        <5>3. f[1] = seqs[1]
          BY <5>2, ConcatEmptySeq
        <5>4. g[1] = f[1]
          BY <5>1
        <5> HIDE DEF g
        <5> QED
          BY <4>1, <5>3, <5>4
      <4>2. CASE i # 1
        <5>1. i - 1 \in 1 .. n
          BY <1>2, <4>2
        <5>2. g[i] = f[i] /\ g[i - 1] = f[i - 1]
          BY <5>1
        <5> HIDE DEF g
        <5> QED
          BY <2>0, <4>2, <5>2
      <4> QED
        BY <4>1, <4>2
    <3>2. g = [i \in 1 .. n |-> g[i]]
      OBVIOUS
    <3> HIDE DEF g
    <3> QED
      BY <3>1, <3>2, Zenon
  <2>2. P(c)
    <3> HIDE DEF g
    <3> QED
      BY <2>1, Zenon
  <2>3. FlattenSeq(seqs) = c[n]
    BY <1>1, <1>5 DEF FlattenSeq
  <2> HIDE DEF c
  <2>4. \A i \in 1 .. n : c[i] = IF i = 1 THEN seqs[i] ELSE c[i - 1] \o seqs[i]
    BY <2>2, Zenon
  <2>5. PICK d : d = c
    OBVIOUS
  <2>6. \A i \in 1 .. n : d[i] = IF i = 1 THEN seqs[i] ELSE d[i - 1] \o seqs[i]
    BY <2>4, <2>5, Zenon
  <2>7. seqs[1] \in Seq(E)
    BY <1>2, <1>5
  <2>8. d[n] = f[n]
    BY <1>2, <1>3, <1>5, <2>6, <2>7, JoinsFromFirst
  <2>9. FlattenSeq(seqs) = f[n]
    BY <2>3, <2>5, <2>8, Zenon
  <2> QED
    BY <1>1, <1>3, <2>9, Zenon
<1> QED
  BY <1>2, <1>4, <1>5

\* What stands where in two sequences joined.
LEMMA JoinFacts ==
  ASSUME NEW S, NEW p \in Seq(S), NEW q \in Seq(S), NEW r, r = p \o q
  PROVE  /\ r \in Seq(S) /\ Len(r) = Len(p) + Len(q) /\ Len(p) \in Nat /\ Len(q) \in Nat
         /\ \A i \in 1 .. Len(p) : r[i] = p[i]
         /\ \A i \in 1 .. Len(q) : r[Len(p) + i] = q[i]
<1>1. Len(p) \in Nat /\ Len(q) \in Nat
  BY LenProperties
<1>2. /\ r \in Seq(S) /\ Len(r) = Len(p) + Len(q)
      /\ \A i \in 1 .. Len(p) + Len(q) : r[i] = IF i <= Len(p) THEN p[i] ELSE q[i - Len(p)]
  BY ConcatProperties
<1>3. ASSUME NEW i \in 1 .. Len(p) PROVE r[i] = p[i]
  <2>1. i \in 1 .. Len(p) + Len(q) /\ i <= Len(p)
    BY <1>1
  <2> QED
    BY <1>2, <2>1
<1>4. ASSUME NEW i \in 1 .. Len(q) PROVE r[Len(p) + i] = q[i]
  <2>1. Len(p) + i \in 1 .. Len(p) + Len(q) /\ ~(Len(p) + i <= Len(p)) /\ (Len(p) + i) - Len(p) = i
    BY <1>1
  <2> QED
    BY <1>2, <2>1
<1> QED
  BY <1>1, <1>2, <1>3, <1>4

\* A sequence is what comes before a place and what comes after it.
LEMMA TwoParts ==
  ASSUME NEW S, NEW s \in Seq(S), NEW n \in 0 .. Len(s)
  PROVE  /\ SubSeq(s, 1, n) \in Seq(S) /\ SubSeq(s, n + 1, Len(s)) \in Seq(S)
         /\ Len(SubSeq(s, 1, n)) = n
         /\ s = SubSeq(s, 1, n) \o SubSeq(s, n + 1, Len(s))
<1>1. Len(s) \in Nat /\ \A i \in 1 .. Len(s) : s[i] \in S
  BY LenProperties, ElementOfSeq
<1>2. SubSeq(s, 1, n) \in Seq(S) /\ Len(SubSeq(s, 1, n)) = n
  BY <1>1, SubSeqProperties
<1>3. SubSeq(s, n + 1, Len(s)) \in Seq(S)
  BY <1>1, SubSeqProperties
<1>4. s = SubSeq(s, 1, n) \o SubSeq(s, n + 1, Len(s))
  <2>1. 1 \in 1 .. Len(s) + 1 /\ n \in 1 - 1 .. Len(s) /\ Len(s) \in n .. Len(s)
    BY <1>1
  <2>2. SubSeq(s, 1, n) \o SubSeq(s, n + 1, Len(s)) = SubSeq(s, 1, Len(s))
    BY <2>1, ConcatAdjacentSubSeq
  <2> QED
    BY <2>2, SubSeqFull
<1> QED
  BY <1>2, <1>3, <1>4

\* What comes before a later place.
LEMMA LongerCut ==
  ASSUME NEW S, NEW s \in Seq(S), NEW n \in Nat, NEW k \in Nat, n + k <= Len(s)
  PROVE  /\ SubSeq(s, 1, n) \in Seq(S) /\ SubSeq(s, n + 1, n + k) \in Seq(S)
         /\ Len(SubSeq(s, n + 1, n + k)) = k
         /\ \A i \in 1 .. k : SubSeq(s, n + 1, n + k)[i] = s[n + i]
         /\ SubSeq(s, 1, n + k) = SubSeq(s, 1, n) \o SubSeq(s, n + 1, n + k)
<1>1. Len(s) \in Nat /\ \A i \in 1 .. Len(s) : s[i] \in S
  BY LenProperties, ElementOfSeq
<1>2. SubSeq(s, 1, n) \in Seq(S)
  BY <1>1, SubSeqProperties
<1>3. /\ SubSeq(s, n + 1, n + k) \in Seq(S) /\ Len(SubSeq(s, n + 1, n + k)) = k
      /\ \A i \in 1 .. k : SubSeq(s, n + 1, n + k)[i] = s[n + i]
  <2>1. n + 1 \in Int /\ n + k \in Int /\ \A i \in n + 1 .. n + k : s[i] \in S
    BY <1>1
  <2>2. /\ SubSeq(s, n + 1, n + k) \in Seq(S)
        /\ Len(SubSeq(s, n + 1, n + k)) = IF n + 1 <= n + k THEN (n + k) - (n + 1) + 1 ELSE 0
        /\ \A i \in 1 .. (n + k) - (n + 1) + 1 : SubSeq(s, n + 1, n + k)[i] = s[(n + 1) + i - 1]
    BY <2>1, SubSeqProperties
  <2> QED
    BY <2>2
<1>4. SubSeq(s, 1, n + k) = SubSeq(s, 1, n) \o SubSeq(s, n + 1, n + k)
  <2>1. 1 \in 1 .. Len(s) + 1 /\ n \in 1 - 1 .. Len(s) /\ n + k \in n .. Len(s)
    BY <1>1
  <2> QED
    BY <2>1, ConcatAdjacentSubSeq
<1> QED
  BY <1>2, <1>3, <1>4

\* What comes before a place is not changed by what is added.
LEMMA CutOfJoin ==
  ASSUME NEW S, NEW s \in Seq(S), NEW t \in Seq(S), NEW n \in 0 .. Len(s)
  PROVE  SubSeq(s \o t, 1, n) = SubSeq(s, 1, n)
<1>1. Len(s) \in Nat
  BY LenProperties
<1>2. CASE n = 0
  <2>1. SubSeq(s \o t, 1, 0) = <<>> /\ SubSeq(s, 1, 0) = <<>>
    BY SubSeqEmpty
  <2> QED
    BY <1>2, <2>1
<1>3. CASE n # 0
  <2>1. 1 \in 1 .. Len(s) /\ n \in 1 .. Len(s)
    BY <1>1, <1>3
  <2> QED
    BY <2>1, SubSeqOfConcat1
<1> QED
  BY <1>2, <1>3

\* What a sequence starts with stands at its first places, and is all of it if it
\* is as long.
LEMMA BeginFacts ==
  ASSUME NEW S, NEW g \in Seq(S), NEW y \in Seq(S), NEW t, t = g \o y
  PROVE  /\ t \in Seq(S) /\ Len(g) \in Nat /\ Len(t) \in Nat /\ Len(g) <= Len(t)
         /\ \A i \in 1 .. Len(g) : t[i] = g[i]
         /\ Len(g) = Len(t) => g = t
<1>1. /\ t \in Seq(S) /\ Len(t) = Len(g) + Len(y) /\ Len(g) \in Nat /\ Len(y) \in Nat
      /\ \A i \in 1 .. Len(g) : t[i] = g[i]
  BY JoinFacts
<1>2. ASSUME Len(g) = Len(t) PROVE g = t
  BY <1>1, <1>2, SeqEqual
<1> QED
  BY <1>1, <1>2

\* All of a sequence is the sequence.
LEMMA WholeCut == ASSUME NEW S, NEW s \in Seq(S) PROVE SubSeq(s, 1, Len(s)) = s
BY SubSeqProperties, SeqEqual

\* Nothing of a sequence of units comes before its first.
LEMMA NoCut == ASSUME NEW s PROVE SubSeq(s, 1, 0) = <<>>
BY SubSeqProperties

\* x is p and then q.
Spliced(x, p, q) == x = p \o q

\* What is sent and what is held, put together another way.
LEMMA Regrouped ==
  ASSUME NEW S, NEW w \in Seq(S), NEW s \in Seq(S), NEW d \in Seq(S), NEW h \in Seq(S),
         NEW p \in Seq(S), NEW x, Spliced(x, s, d), Spliced(x, h, p), NEW y, Spliced(y, w, s),
         NEW z, Spliced(z, w, h), NEW r, Spliced(r, y, d)
  PROVE  Spliced(r, z, p)
<1>1. (w \o s) \o d = w \o (s \o d)
  BY ONLY w \in Seq(S), s \in Seq(S), d \in Seq(S), ConcatAssociative, SMTT(25)
<1>2. (w \o h) \o p = w \o (h \o p)
  BY ONLY w \in Seq(S), h \in Seq(S), p \in Seq(S), ConcatAssociative, SMTT(25)
<1> QED
  BY <1>1, <1>2, Zenon DEF Spliced

\* Of two sequences that make an empty one, both are empty.
LEMMA EmptyJoin ==
  ASSUME NEW S, NEW s \in Seq(S), NEW t \in Seq(S), s \o t = <<>>
  PROVE  s = <<>> /\ t = <<>>
<1>1. PICK r : r = s \o t
  OBVIOUS
<1>2. Len(r) = Len(s) + Len(t) /\ Len(s) \in Nat /\ Len(t) \in Nat
  BY ONLY s \in Seq(S), t \in Seq(S), <1>1, JoinFacts
<1>3. Len(r) = 0
  BY <1>1
<1>4. Len(s) = 0 /\ Len(t) = 0
  BY <1>2, <1>3
<1> QED
  BY <1>4, EmptySeq

\* A sequence whose elements are all in a set
AllIn(s, T) == \A i \in 1 .. Len(s) : s[i] \in T

\* is one over it.
LEMMA SeqWithin == ASSUME NEW S, NEW T, NEW s \in Seq(S), AllIn(s, T) PROVE s \in Seq(T)
<1>1. Len(s) \in Nat /\ s \in [1 .. Len(s) -> S]
  BY LenProperties
<1>2. s \in [1 .. Len(s) -> T]
  BY <1>1 DEF AllIn
<1> QED
  BY <1>1, <1>2, SeqDef

\* What comes first in a part of a sequence.
LEMMA CutOfCut ==
  ASSUME NEW S, NEW s \in Seq(S), NEW u \in Nat, NEW k \in Nat, u + k <= Len(s), NEW n \in 0 .. k
  PROVE  SubSeq(SubSeq(s, u + 1, u + k), 1, n) = SubSeq(s, u + 1, u + n)
<1>1. /\ SubSeq(s, u + 1, u + k) \in Seq(S) /\ Len(SubSeq(s, u + 1, u + k)) = k
      /\ \A i \in 1 .. k : SubSeq(s, u + 1, u + k)[i] = s[u + i]
  BY LongerCut
<1>2. PICK d \in Seq(S) : d = SubSeq(s, u + 1, u + k)
  BY <1>1
<1>3. Len(s) \in Nat /\ n \in Nat /\ n <= k /\ u + n <= Len(s)
  BY LenProperties
<1>4. /\ SubSeq(s, u + 1, u + n) \in Seq(S) /\ Len(SubSeq(s, u + 1, u + n)) = n
      /\ \A i \in 1 .. n : SubSeq(s, u + 1, u + n)[i] = s[u + i]
  BY <1>3, LongerCut
<1>5. /\ Len(d) = k /\ \A i \in 1 .. k : d[i] = s[u + i]
  BY <1>1, <1>2
<1>6. /\ SubSeq(d, 1, n) \in Seq(S) /\ Len(SubSeq(d, 1, n)) = n
      /\ \A i \in 1 .. n : SubSeq(d, 1, n)[i] = d[i]
  BY <1>3, <1>5, SubSeqProperties
<1>7. \A i \in 1 .. n : SubSeq(d, 1, n)[i] = SubSeq(s, u + 1, u + n)[i]
  BY <1>3, <1>4, <1>5, <1>6
<1>8. PICK a \in Seq(S), b \in Seq(S) : a = SubSeq(d, 1, n) /\ b = SubSeq(s, u + 1, u + n)
  BY <1>4, <1>6
<1>9. a = b
  BY <1>4, <1>6, <1>7, <1>8, SeqEqual
<1> QED
  BY <1>2, <1>8, <1>9
=============================================================================
