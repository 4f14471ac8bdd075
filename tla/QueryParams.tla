----------------------------- MODULE QueryParams -----------------------------
(* The parameters of a request (lib/html/query_params.cpp, util/misc.hpp,     *)
(* lib/client/client.cpp, lib/server/request.cpp): a client collects them and *)
(* encodes them into its target, behind a path that it leaves as it is, and   *)
(* the server's request takes path and parameters out of it again.  A text is *)
(* a sequence of byte codes, since escaping is what this is about.            *)
EXTENDS Integers, Sequences, SequencesExt, FiniteSets

CONSTANTS
  MaxParams, \* how many parameters a client adds to a path of one character; to a
             \* longer one it adds as many less, so that both bounds are this one
  MaxChars,  \* the length of a key or a value
  MaxText    \* the length of a query somebody else has written

Space    == 32
Percent  == 37
Amp      == 38
Plus     == 43
Slash    == 47
Equals   == 61
Question == 63
LetterA  == 97

Texts(chars, n) == UNION {[1 .. k -> chars] : k \in 0 .. n}

\* 233 is a byte of a character outside ASCII, 52 and 49 are "4" and "1".
Names    == Texts({LetterA, Space, Percent, Amp, Equals, Plus, 233}, MaxChars)
UrlPaths == Texts({LetterA, Question, Slash, Percent, 52, 49}, 1 + MaxParams) \ {<<>>}
Queries  == Texts({LetterA, Percent, Amp, Equals, 52, 49}, MaxText)

True  == <<116, 114, 117, 101>>
False == <<102, 97, 108, 115, 101>>
Bools == {True, False}

\* What lies behind the end of a string and the zero that follows it.
Junk == {0, 49}

VARIABLES
  path,   \* the path the client asks for
  params, \* params_ of the client, as added
  target, \* the target of the request
  pc,
  decoded_path, \* decoded_path_ of the server's request
  got,    \* its query_params_
  asked, answer \* the key the handler asks for with at_bool, and what it gets

vars == <<path, params, target, pc, decoded_path, got, asked, answer>>

Init ==
  /\ path \in UrlPaths
  /\ params = <<>> /\ target = <<>> /\ pc = "client"
  /\ decoded_path = <<>> /\ got = <<>> /\ asked = <<>> /\ answer = "none"
-----------------------------------------------------------------------------
(* util *)

HexDigit(d) == IF d < 10 THEN 48 + d ELSE 87 + d

\* A character that needs no escape.
Plain(c) == c \in (48 .. 57) \cup (65 .. 90) \cup (97 .. 122) \cup {45, 46, 95, 126}

\* An encoder that leaves the escape character itself alone.
Muturl_encode(s) ==
  LET Escape(c) == CASE Plain(c) \/ c = Percent -> <<c>>
                     [] c = Space               -> <<Plus>>
                     [] OTHER -> <<Percent, HexDigit(c \div 16), HexDigit(c % 16)>>
  IN  FoldLeft(LAMBDA t, c : t \o Escape(c), <<>>, s)

\* An encoder for which letters are what the locale says.
Muturl_encodeLocale(s) ==
  LET Escape(c) == CASE Plain(c) \/ c > 191 -> <<c>>
                     [] c = Space           -> <<Plus>>
                     [] OTHER -> <<Percent, HexDigit(c \div 16), HexDigit(c % 16)>>
  IN  FoldLeft(LAMBDA t, c : t \o Escape(c), <<>>, s)

url_encode(s) ==
  LET Escape(c) == CASE Plain(c)   -> <<c>>
                     [] c = Space  -> <<Plus>>
                     [] OTHER      -> <<Percent, HexDigit(c \div 16), HexDigit(c % 16)>>
  IN  FoldLeft(LAMBDA t, c : t \o Escape(c), <<>>, s)

\* What is not a hexadecimal digit stands for itself.
hex2dec(c) ==
  CASE c \in 48 .. 57  -> c - 48
    [] c \in 97 .. 102 -> c - 87
    [] c \in 65 .. 70  -> c - 55
    [] OTHER           -> c

\* v |= h, for a v whose lower four bits are zero and a byte h.
Or(v, h) == LET a == v \div 16  b == h \div 16
                Bit(x, i) == (x \div 2 ^ i) % 2
                Both(i)   == IF Bit(a, i) + Bit(b, i) > 0 THEN 2 ^ i ELSE 0
            IN  16 * (Both(0) + Both(1) + Both(2) + Both(3)) + (h % 16)

\* A decoder that takes the digits in the wrong order.
Muturl_decode(s, junk) ==
  LET At(i) == CASE i <= Len(s) -> s[i] [] i = Len(s) + 1 -> 0 [] OTHER -> junk
      Step(st, i) ==
        CASE i < st.next -> st
          [] i >= st.next /\ s[i] # Percent -> [next |-> i + 1, out |-> Append(st.out, s[i])]
          [] OTHER -> [next |-> i + 3,
                       out |-> Append(st.out, Or((16 * hex2dec(At(i + 2))) % 256, hex2dec(At(i + 1))))]
  IN  FoldLeft(Step, [next |-> 1, out |-> <<>>], [i \in DOMAIN s |-> i]).out

\* Two characters are read behind a "%", be they there or not; the first one
\* behind the end is the zero that ends the string.
url_decode(s, junk) ==
  LET At(i) == CASE i <= Len(s) -> s[i] [] i = Len(s) + 1 -> 0 [] OTHER -> junk
      Step(st, i) ==
        CASE i < st.next -> st
          [] i >= st.next /\ s[i] # Percent -> [next |-> i + 1, out |-> Append(st.out, s[i])]
          [] OTHER -> [next |-> i + 3,
                       out |-> Append(st.out, Or((16 * hex2dec(At(i + 1))) % 256, hex2dec(At(i + 2))))]
  IN  FoldLeft(Step, [next |-> 1, out |-> <<>>], [i \in DOMAIN s |-> i]).out

Trim(s) ==
  LET kept == {i \in DOMAIN s : s[i] # Space}
  IN  IF kept = {} THEN <<>>
      ELSE SubSeq(s, CHOOSE i \in kept : \A j \in kept : i <= j,
                     CHOOSE i \in kept : \A j \in kept : i >= j)

\* A delimiter at the front is dropped, and so is one at the end; others leave
\* empty parts between them.
split(s, d) ==
  LET body  == IF s # <<>> /\ Head(s) = d THEN Tail(s) ELSE s
      Step(parts, c) == IF c = d THEN Append(parts, <<>>)
                        ELSE [parts EXCEPT ![Len(parts)] = Append(@, c)]
      parts == FoldLeft(Step, <<<<>>>>, body)
      whole == IF body # <<>> /\ Last(body) = d THEN Front(parts) ELSE parts
  IN  IF s = <<>> THEN <<>> ELSE [i \in DOMAIN whole |-> Trim(whole[i])]
-----------------------------------------------------------------------------
(* query_params *)

Pair(k, v) == [key |-> k, val |-> v]

\* A decoder that takes a parameter apart after its escapes are gone.
Mutdecode(content, junk) ==
  LET items == split(content, Amp)
      Param(item) ==
        LET kv == split(url_decode(item, junk), Equals)
        IN  CASE Len(kv) = 1 -> <<Pair(kv[1], <<>>)>>
              [] Len(kv) = 2 -> <<Pair(kv[1], kv[2])>>
              [] OTHER -> <<>>
  IN  FoldLeft(LAMBDA ps, item : ps \o Param(item), <<>>, items)

\* An item with a second "=" is left out.
decode(content, junk) ==
  LET items == split(content, Amp)
      Param(item) ==
        LET kv == split(item, Equals)
        IN  CASE Len(kv) = 1 -> <<Pair(url_decode(kv[1], junk), <<>>)>>
              [] Len(kv) = 2 -> <<Pair(url_decode(kv[1], junk), url_decode(kv[2], junk))>>
              [] OTHER -> <<>>
  IN  FoldLeft(LAMBDA ps, item : ps \o Param(item), <<>>, items)

\* A token is its value alone when the key is empty, and else its key alone.
Mutencoded(ps) ==
  LET Token(p) == IF p.key = <<>> THEN url_encode(p.val) ELSE url_encode(p.key)
  IN  IF ps = <<>> THEN <<>>
      ELSE FoldLeft(LAMBDA t, p : t \o <<Amp>> \o Token(p), Token(Head(ps)), Tail(ps))

\* The parameters in the order given, joined with "&".
encoded(ps) ==
  LET Token(p) == url_encode(p.key) \o <<Equals>> \o url_encode(p.val)
  IN  IF ps = <<>> THEN <<>>
      ELSE FoldLeft(LAMBDA t, p : t \o <<Amp>> \o Token(p), Token(Head(ps)), Tail(ps))

\* params_ is a hash table: it is walked in an order of its own.
Orders(s) == {[i \in DOMAIN s |-> s[f[i]]] : f \in {g \in [DOMAIN s -> DOMAIN s] : IsInjective(g)}}

exists(ps, k) == \E i \in DOMAIN ps : ps[i].key = k
all(ps, k)    == {ps[i].val : i \in {j \in DOMAIN ps : ps[j].key = k}}
-----------------------------------------------------------------------------
add(k, v) ==
  /\ pc = "client" /\ Len(path) + Len(params) < 1 + MaxParams
  /\ params' = Append(params, Pair(k, v))
  /\ UNCHANGED <<path, target, pc, decoded_path, got, asked, answer>>

add_bool(k, b) == add(k, IF b THEN True ELSE False)

\* An async_get that encodes its path as it does its parameters.
MutSend ==
  /\ pc = "client"
  /\ \E ps \in Orders(params) :
       target' = url_encode(path) \o (IF params = <<>> THEN <<>> ELSE <<Question>> \o encoded(ps))
  /\ pc' = "sent"
  /\ UNCHANGED <<path, params, decoded_path, got, asked, answer>>

\* async_get: the path goes out as it is, and behind it the parameters, if any.
Send ==
  /\ pc = "client"
  /\ \E ps \in Orders(params) :
       target' = path \o (IF params = <<>> THEN <<>> ELSE <<Question>> \o encoded(ps))
  /\ pc' = "sent"
  /\ UNCHANGED <<path, params, decoded_path, got, asked, answer>>

\* A client that has written its query by other means.
SendText ==
  /\ pc = "client" /\ params = <<>> /\ path = <<LetterA>>
  /\ \E t \in Queries : target' = path \o <<Question>> \o t
  /\ pc' = "text"
  /\ UNCHANGED <<path, params, decoded_path, got, asked, answer>>

\* The constructor of the server's request: the target is taken apart at its
\* first "?".
request(junk) ==
  /\ pc \in {"sent", "text"}
  /\ LET marks == {i \in DOMAIN target : target[i] = Question}
         pos   == IF marks = {} THEN Len(target) + 1 ELSE CHOOSE i \in marks : \A j \in marks : i <= j
     IN  /\ decoded_path' = url_decode(SubSeq(target, 1, pos - 1), junk)
         /\ got' = decode(SubSeq(target, pos + 1, Len(target)), junk)
  /\ pc' = IF pc = "sent" THEN "got" ELSE "read"
  /\ UNCHANGED <<path, params, target, asked, answer>>

\* The handler asks for a Boolean; of several parameters with that key it gets
\* any.
at_bool(k) ==
  /\ pc = "got"
  /\ asked' = k /\ pc' = "done"
  /\ \/ ~exists(got, k) /\ answer' = "not found"
     \/ \E v \in all(got, k) : answer' = CASE v \in {True, <<49>>}  -> "true"
                                           [] v \in {False, <<48>>} -> "false"
                                           [] OTHER                 -> "invalid"
  /\ UNCHANGED <<path, params, target, decoded_path, got>>
-----------------------------------------------------------------------------
Next ==
  \/ \E k, v \in Names : add(k, v)
  \/ \E k \in Names : \E b \in BOOLEAN : add_bool(k, b)
  \/ Send
  \/ SendText
  \/ \E junk \in Junk : request(junk)
  \/ \E k \in {<<>>} \cup {params[i].key : i \in DOMAIN params} : at_bool(k)
  \/ pc \in {"read", "done"} /\ UNCHANGED vars

Spec == Init /\ [][Next]_vars
-----------------------------------------------------------------------------
(* Properties *)

Bytes == 0 .. 255

\* Every text is one of bytes; the parameters bring nothing into the target that
\* the first line of a request may not have (the paths looked at have nothing such).
TypeOK ==
  /\ path \in UrlPaths
  /\ \A p \in Range(params) \cup Range(got) : Range(p.key) \cup Range(p.val) \subseteq Bytes
  /\ Range(target) \subseteq 33 .. 126
  /\ Range(decoded_path) \subseteq Bytes
  /\ pc \in {"client", "sent", "text", "got", "read", "done"}
  /\ answer \in {"none", "not found", "true", "false", "invalid"}

SameBag(s, t) ==
  \A p \in Range(s) \cup Range(t) :
    Cardinality({i \in DOMAIN s : s[i] = p}) = Cardinality({i \in DOMAIN t : t[i] = p})

\* What the server makes of a parameter: a space comes back as a plus, and a
\* value without a key becomes a key.
AsReceived(p) ==
  LET Spaces(s) == [i \in DOMAIN s |-> IF s[i] = Space THEN Plus ELSE s[i]]
  IN  IF p.key = <<>> THEN Pair(Spaces(p.val), <<>>) ELSE Pair(Spaces(p.key), Spaces(p.val))

\* The server has the parameters of the client, in some order, but for those two
\* changes: no separator, escape or byte in a value moves the bounds between them.
\* A path with a "?" of its own is excepted: what follows it comes before them.
ParametersArrive ==
  pc \in {"got", "done"} /\ Question \notin Range(path) =>
    SameBag(got, [i \in DOMAIN params |-> AsReceived(params[i])])

\* A Boolean the client has added is the one the handler gets, when no other
\* parameter comes in with that key, by the path or by itself.
BooleansArrive ==
  \A i \in DOMAIN params :
    (/\ pc = "done" /\ asked = params[i].key /\ asked # <<>> /\ Question \notin Range(path)
     /\ params[i].val \in Bools
     /\ \A j \in DOMAIN params \ {i} : AsReceived(params[j]).key # AsReceived(params[i]).key
     /\ Space \notin Range(asked))
    => answer = IF params[i].val = True THEN "true" ELSE "false"

\* A query written by hand, by its definition: the items between "&" and in them
\* what precedes and follows "=", with the escapes replaced.
HexValue(c) == IF c \in 48 .. 57 THEN c - 48 ELSE c - 87
Bounds(s, d) == {0, Len(s) + 1} \cup {i \in DOMAIN s : s[i] = d}
Between(s, d) ==
  {<<i, j>> \in Bounds(s, d) \X Bounds(s, d) : i < j /\ \A m \in i + 1 .. j - 1 : s[m] # d}
Escapes(s) == {i \in DOMAIN s : s[i] = Percent}
WellFormed(s) == \A i \in Escapes(s) : i + 2 <= Len(s) /\ s[i + 1] # Percent /\ s[i + 2] # Percent
                                        /\ {s[i + 1], s[i + 2]} \subseteq {52, 49, LetterA}
Unescaped(s) ==
  LET kept == SetToSortSeq({i \in DOMAIN s : i - 1 \notin Escapes(s) /\ i - 2 \notin Escapes(s)}, <)
  IN  [n \in DOMAIN kept |-> IF kept[n] \in Escapes(s)
                               THEN 16 * HexValue(s[kept[n] + 1]) + HexValue(s[kept[n] + 2])
                               ELSE s[kept[n]]]

\* The router is given the path that the client has asked for, up to a "?" of its
\* own and with the escapes that it has replaced, if they are whole.  So it is the
\* very path of the client only if that one has neither "?" nor "%".
PathArrives ==
  LET marks  == {i \in DOMAIN path : path[i] = Question}
      before == IF marks = {} THEN path
                ELSE SubSeq(path, 1, (CHOOSE i \in marks : \A j \in marks : i <= j) - 1)
  IN  pc \in {"got", "done", "read"} /\ WellFormed(before) => decoded_path = Unescaped(before)

\* A query in which every item has a key and at most one "=" is read as it is
\* defined.
QueriesAreRead ==
  LET s == SubSeq(target, Len(path) + 2, Len(target))
      items == {SubSeq(s, b[1] + 1, b[2] - 1) : b \in Between(s, Amp)}
      Key(item) == LET e == {i \in DOMAIN item : item[i] = Equals}
                   IN  IF e = {} THEN item ELSE SubSeq(item, 1, (CHOOSE i \in e : TRUE) - 1)
      Val(item) == SubSeq(item, Len(Key(item)) + 2, Len(item))
      regular == /\ s # <<>>
                 /\ \A item \in items : /\ item # <<>> /\ Head(item) # Equals
                                        /\ Cardinality({i \in DOMAIN item : item[i] = Equals}) <= 1
                                        /\ WellFormed(Key(item)) /\ WellFormed(Val(item))
  IN  pc = "read" /\ regular =>
        /\ Range(got) = {Pair(Unescaped(Key(item)), Unescaped(Val(item))) : item \in items}
        /\ Len(got) = Cardinality(Between(s, Amp))
=============================================================================
