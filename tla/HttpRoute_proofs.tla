-------------------------- MODULE HttpRoute_proofs ---------------------------
(***************************************************************************)
(* Proofs about HttpRoute, for every set of routes, handlers, requests and *)
(* lists of parameters: the type invariant; that a query encoded by        *)
(* UrlEncode is what ParseHttpLine decodes; and that a client that goes by *)
(* Content-Length finds every response where it starts.                    *)
(***************************************************************************)
EXTENDS HttpRoute, Positions

\* What UrlDecode makes of the text from each position on.
DecodeFrom(url, plus_to_space) ==
    LET from[i \in 1 .. Len(url) + 3] ==
            CASE i > Len(url) -> <<>>
              [] i <= Len(url) /\ url[i] = Plus /\ plus_to_space -> <<Space>> \o from[i + 1]
              [] i + 2 <= Len(url) /\ url[i] = Percent ->
                    <<(16 * HexToI(url[i + 1]) + HexToI(url[i + 2])) % 256>> \o from[i + 3]
              [] OTHER -> <<url[i]>> \o from[i + 1]
    IN  from

\* UrlDecode goes through the text as it is written to: one byte or one escape at a time.
LEMMA DecodeStep ==
  ASSUME NEW S, NEW u \in Seq(S), NEW p \in BOOLEAN
  PROVE  \A i \in 1 .. Len(u) + 3 :
            DecodeFrom(u, p)[i] =
              CASE i > Len(u) -> <<>>
                [] i <= Len(u) /\ u[i] = Plus /\ p -> <<Space>> \o DecodeFrom(u, p)[i + 1]
                [] i + 2 <= Len(u) /\ u[i] = Percent ->
                      <<(16 * HexToI(u[i + 1]) + HexToI(u[i + 2])) % 256>>
                      \o DecodeFrom(u, p)[i + 3]
                [] OTHER -> <<u[i]>> \o DecodeFrom(u, p)[i + 1]
<1> DEFINE N == Len(u) + 3
           C == 1 .. Len(u)
           escape(i) == i + 2 <= Len(u) /\ u[i] = Percent /\ ~(u[i] = Plus /\ p)
           next == [i \in 1 .. N |-> IF escape(i) THEN i + 3 ELSE i + 1]
           A == [i \in 1 .. N |->
                   IF u[i] = Plus /\ p THEN <<Space>>
                   ELSE IF escape(i) THEN <<(16 * HexToI(u[i + 1]) + HexToI(u[i + 2])) % 256>>
                   ELSE <<u[i]>>]
           body(f, i) ==
              CASE i > Len(u) -> <<>>
                [] i <= Len(u) /\ u[i] = Plus /\ p -> <<Space>> \o f[i + 1]
                [] i + 2 <= Len(u) /\ u[i] = Percent ->
                      <<(16 * HexToI(u[i + 1]) + HexToI(u[i + 2])) % 256>> \o f[i + 3]
                [] OTHER -> <<u[i]>> \o f[i + 1]
           P(f) == f = [i \in 1 .. N |-> body(f, i)]
<1>1. N \in Nat /\ \A i \in 1 .. N : i \in C => next[i] \in i + 1 .. N
  OBVIOUS
<1>2. PICK f : Walks(f, N, C, next, A)
  <2> HIDE DEF N, C, next, A
  <2> QED
    BY <1>1, WalkExists
<1>3. ASSUME NEW i \in 1 .. N PROVE f[i] = body(f, i)
  <2>0. i \in Nat /\ Len(u) \in Nat
    OBVIOUS
  <2>a. PICK n, a : n = next[i] /\ a = A[i]
    OBVIOUS
  <2>b. (i \in C => f[i] = a \o f[n]) /\ (i \notin C => f[i] = <<>>)
    BY <1>2, <2>a DEF Walks
  <2> DEFINE e == <<(16 * HexToI(u[i + 1]) + HexToI(u[i + 2])) % 256>>
  <2> DEFINE B == {k \in C : u[k] = Plus /\ p}
             E == {k \in C : escape(k)}
  <2>c. /\ i \in C => /\ n = IF i \in E THEN i + 3 ELSE i + 1
                      /\ a = IF i \in B THEN <<Space>> ELSE IF i \in E THEN e ELSE <<u[i]>>
        /\ B \cap E = {} /\ B \subseteq C /\ E \subseteq C
    BY <2>a
  <2>d. body(f, i) =
          IF i \notin C THEN <<>>
          ELSE IF i \in B THEN <<Space>> \o f[i + 1]
          ELSE IF i \in E THEN e \o f[i + 3]
          ELSE <<u[i]>> \o f[i + 1]
    BY <2>0 DEF Plus, Percent
  <2> HIDE DEF A, next, body, e, B, E, C
  <2> QED
    BY <2>b, <2>c, <2>d
<1>4. P(f)
  <2>1. f = [i \in 1 .. N |-> f[i]]
    BY <1>2 DEF Walks
  <2> HIDE DEF C, next, A, body, N
  <2> QED
    BY <1>3, <2>1
<1>5. DecodeFrom(u, p) = CHOOSE g : P(g)
  BY DEF DecodeFrom
<1>6. P(DecodeFrom(u, p))
  <2> HIDE DEF P
  <2> QED
    BY <1>4, <1>5
<1>7. PICK g : g = DecodeFrom(u, p)
  OBVIOUS
<1>8. g = [i \in 1 .. N |-> body(g, i)]
  BY <1>6, <1>7
<1>9. \A i \in 1 .. N : g[i] = body(g, i)
  <2> HIDE DEF body, N
  <2> QED
    BY <1>8
<1> QED
  BY <1>7, <1>9

\* UrlDecode starts at the first byte.
LEMMA DecodeFirst ==
  ASSUME NEW u, NEW p
  PROVE  UrlDecode(u, p) = DecodeFrom(u, p)[1]
BY DEF UrlDecode, DecodeFrom

\* HexToI gives a number, whatever the character.
LEMMA HexToIType == ASSUME NEW c PROVE HexToI(c) \in Int
BY DEF HexToI

\* UrlDecode makes bytes of bytes, from each position on.
LEMMA DecodeFromType ==
  ASSUME NEW u \in Seq(Byte), NEW p \in BOOLEAN
  PROVE  \A i \in 1 .. Len(u) + 3 : DecodeFrom(u, p)[i] \in Seq(Byte)
<1> DEFINE N == Len(u) + 3
           P == {i \in 1 .. N : DecodeFrom(u, p)[i] \in Seq(Byte)}
<1>0. N \in Nat /\ 1 \in 1 .. N
  OBVIOUS
<1>1. ASSUME NEW i \in 1 .. N, \A k \in i + 1 .. N : k \in P PROVE i \in P
  <2>1. PICK d : d = DecodeFrom(u, p)
    OBVIOUS
  <2>2. PICK x : x = (16 * HexToI(u[i + 1]) + HexToI(u[i + 2])) % 256
    OBVIOUS
  <2>3. d[i] = CASE i > Len(u) -> <<>>
                 [] i <= Len(u) /\ u[i] = Plus /\ p -> <<Space>> \o d[i + 1]
                 [] i + 2 <= Len(u) /\ u[i] = Percent -> <<x>> \o d[i + 3]
                 [] OTHER -> <<u[i]>> \o d[i + 1]
    BY <2>1, <2>2, DecodeStep
  <2>4. \A k \in i + 1 .. N : d[k] \in Seq(Byte)
    BY <1>1, <2>1
  <2>5. i \in Nat /\ Len(u) \in Nat
    OBVIOUS
  <2>6. \A c : HexToI(c) \in Int
    BY HexToIType
  <2>7. x \in Byte
    <3>1. PICK a \in Int, b \in Int : x = (16 * a + b) % 256
      BY <2>2, <2>6
    <3>2. PICK c \in Int : c = 16 * a + b
      OBVIOUS
    <3> QED
      BY <3>1, <3>2 DEF Byte
  <2>8. CASE i > Len(u)
    <3>1. d[i] = <<>> /\ <<>> \in Seq(Byte)
      BY <2>3, <2>5, <2>8
    <3> QED
      BY <2>1, <3>1
  <2>9. CASE i <= Len(u)
    <3>1. d[i] \in {<<Space>> \o d[i + 1], <<u[i]>> \o d[i + 1]}
          \/ (i + 2 <= Len(u) /\ d[i] = <<x>> \o d[i + 3])
      BY <2>3, <2>5, <2>9
    <3>2. Space \in Byte /\ u[i] \in Byte
      <4>1. Space \in Byte
        BY DEF Space, Byte
      <4>2. u[i] \in Byte
        BY <2>5, <2>9
      <4> QED
        BY <4>1, <4>2
    <3>3. i + 1 \in i + 1 .. N /\ (i + 2 <= Len(u) => i + 3 \in i + 1 .. N)
      BY <2>5, <2>9
    <3>4. \A b \in Byte : \A y \in Seq(Byte) : <<b>> \o y \in Seq(Byte)
      BY OneType, ConcatProperties
    <3>5. d[i] \in Seq(Byte)
      BY <2>4, <2>7, <3>1, <3>2, <3>3, <3>4
    <3> QED
      BY <2>1, <3>5
  <2> QED
    BY <2>5, <2>8, <2>9
<1>2. \A i \in 1 .. N : i \in P
  <2> HIDE DEF P, N
  <2> QED
    BY <1>0, <1>1, DownInduction
<1> QED
  BY <1>2

\* And of the whole text.
LEMMA DecodeType ==
  ASSUME NEW u \in Seq(Byte), NEW p \in BOOLEAN
  PROVE  UrlDecode(u, p) \in Seq(Byte)
<1>1. 1 \in 1 .. Len(u) + 3
  OBVIOUS
<1> QED
  BY <1>1, DecodeFromType, DecodeFirst

-----------------------------------------------------------------------------
\* What UrlEncode makes of the text from each position on.
EncodeFrom(url, space_to_plus) ==
    LET from[i \in 1 .. Len(url) + 1] ==
            IF i > Len(url) THEN <<>>
            ELSE (CASE Unreserved(url[i]) -> <<url[i]>>
                    [] url[i] = Space /\ space_to_plus -> <<Plus>>
                    [] OTHER -> Escape(url[i]))
                 \o from[i + 1]
    IN  from

\* UrlEncode starts at the first byte.
LEMMA EncodeFirst ==
  ASSUME NEW u, NEW p
  PROVE  UrlEncode(u, p) = EncodeFrom(u, p)[1]
BY DEF UrlEncode, EncodeFrom

\* One byte of a query, encoded.
Code(b) == IF Unreserved(b) THEN <<b>> ELSE IF b = Space THEN <<Plus>> ELSE Escape(b)

\* UrlEncode writes the code of each byte, one after the other.
LEMMA EncodeStep ==
  ASSUME NEW S, NEW u \in Seq(S)
  PROVE  /\ \A i \in 1 .. Len(u) : EncodeFrom(u, TRUE)[i] = Code(u[i]) \o EncodeFrom(u, TRUE)[i + 1]
         /\ EncodeFrom(u, TRUE)[Len(u) + 1] = <<>>
<1> DEFINE N == Len(u) + 1
           C == 1 .. Len(u)
           next == [i \in 1 .. N |-> i + 1]
           A == [i \in 1 .. N |-> Code(u[i])]
           body(f, i) ==
            IF i > Len(u) THEN <<>>
            ELSE (CASE Unreserved(u[i]) -> <<u[i]>>
                    [] u[i] = Space /\ TRUE -> <<Plus>>
                    [] OTHER -> Escape(u[i]))
                 \o f[i + 1]
           P(f) == f = [i \in 1 .. N |-> body(f, i)]
<1>1. N \in Nat /\ \A i \in 1 .. N : i \in C => next[i] \in i + 1 .. N
  OBVIOUS
<1>2. PICK f : Walks(f, N, C, next, A)
  <2> HIDE DEF N, C, next, A
  <2> QED
    BY <1>1, WalkExists
<1>3. ASSUME NEW i \in 1 .. N, NEW g
      PROVE  body(g, i) = IF i \in C THEN Code(u[i]) \o g[i + 1] ELSE <<>>
  <2>1. (CASE Unreserved(u[i]) -> <<u[i]>>
           [] u[i] = Space /\ TRUE -> <<Plus>>
           [] OTHER -> Escape(u[i])) = Code(u[i])
    <3>1. ~Unreserved(Space)
      BY DEF Unreserved, IsAlnum, Space
    <3> QED
      BY <3>1 DEF Code
  <2> QED
    BY <2>1
<1>4. ASSUME NEW i \in 1 .. N PROVE f[i] = body(f, i)
  <2>1. /\ i \in C => f[i] = A[i] \o f[next[i]]
        /\ i \notin C => f[i] = <<>>
    BY <1>2 DEF Walks
  <2>2. A[i] = Code(u[i]) /\ next[i] = i + 1
    OBVIOUS
  <2>3. body(f, i) = IF i \in C THEN Code(u[i]) \o f[i + 1] ELSE <<>>
    BY <1>3
  <2> HIDE DEF C, A, next, body
  <2> QED
    BY <2>1, <2>2, <2>3
<1>5. P(f)
  <2>1. f = [i \in 1 .. N |-> f[i]]
    BY <1>2 DEF Walks
  <2> HIDE DEF N, body
  <2> QED
    BY <1>4, <2>1
<1>6. EncodeFrom(u, TRUE) = CHOOSE g : P(g)
  BY DEF EncodeFrom
<1>7. PICK g : g = EncodeFrom(u, TRUE) /\ P(g)
  <2> HIDE DEF P
  <2> QED
    BY <1>5, <1>6
<1>8. \A i \in 1 .. N : g[i] = body(g, i)
  <2>1. g = [i \in 1 .. N |-> body(g, i)]
    BY <1>7
  <2> HIDE DEF body, N
  <2> QED
    BY <2>1
<1>9. \A i \in 1 .. N : g[i] = IF i \in C THEN Code(u[i]) \o g[i + 1] ELSE <<>>
  <2> HIDE DEF body
  <2> QED
    BY <1>3, <1>8
<1> QED
  <2>1. \A i \in 1 .. Len(u) : i \in 1 .. N /\ i \in C
    OBVIOUS
  <2>2. Len(u) + 1 \in 1 .. N /\ Len(u) + 1 \notin C
    OBVIOUS
  <2> HIDE DEF C, N, body, P
  <2> QED
    BY <1>7, <1>9, <2>1, <2>2

\* What is left of a sequence, when it is known to start with c.
LEMMA SuffixSplits ==
  ASSUME NEW S, NEW s \in Seq(S), NEW j \in 1 .. Len(s) + 1,
         NEW c \in Seq(S), NEW r \in Seq(S), SubSeq(s, j, Len(s)) = c \o r
  PROVE  /\ Len(s) + 1 = j + Len(c) + Len(r)
         /\ SubSeq(s, j + Len(c), Len(s)) = r
         /\ \A k \in 1 .. Len(c) : s[j + k - 1] = c[k]
<1>1. PICK x : x = SubSeq(s, j, Len(s))
  OBVIOUS
<1>2. Len(x) = Len(s) + 1 - j /\ \A k \in 1 .. Len(x) : x[k] = s[j + k - 1]
  <2>1. j \in Int /\ Len(s) \in Int /\ \A k \in j .. Len(s) : s[k] \in S
    BY ElementOfSeq
  <2>2. /\ Len(x) = IF j <= Len(s) THEN Len(s) - j + 1 ELSE 0
        /\ \A k \in 1 .. Len(s) - j + 1 : x[k] = s[j + k - 1]
    BY <1>1, <2>1, SubSeqProperties
  <2> QED
    BY <2>1, <2>2
<1>3. /\ Len(x) = Len(c) + Len(r) /\ Len(c) \in Nat /\ Len(r) \in Nat
      /\ \A k \in 1 .. Len(c) + Len(r) : x[k] = IF k <= Len(c) THEN c[k] ELSE r[k - Len(c)]
  BY <1>1, ConcatProperties
<1>4. Len(s) + 1 = j + Len(c) + Len(r) /\ Len(s) \in Nat /\ j \in Nat
  BY <1>2, <1>3
<1>5. ASSUME NEW k \in 1 .. Len(c) PROVE s[j + k - 1] = c[k]
  <2>1. k \in 1 .. Len(x) /\ k <= Len(c) /\ k \in 1 .. Len(c) + Len(r)
    BY <1>3
  <2> QED
    BY <1>2, <1>3, <2>1
<1>6. ASSUME NEW k \in 1 .. Len(r) PROVE s[j + Len(c) + k - 1] = r[k]
  <2>1. /\ Len(c) + k \in 1 .. Len(x) /\ ~(Len(c) + k <= Len(c))
        /\ Len(c) + k \in 1 .. Len(c) + Len(r)
        /\ (Len(c) + k) - Len(c) = k /\ j + (Len(c) + k) - 1 = j + Len(c) + k - 1
    BY <1>3, <1>4
  <2> QED
    BY <1>2, <1>3, <2>1
<1>7. SubSeq(s, j + Len(c), Len(s)) = r
  <2>1. PICK m \in Nat : m = j + Len(c)
    BY <1>3, <1>4
  <2>2. m \in 1 .. Len(s) + 1 /\ Len(s) + 1 - m = Len(r)
    BY <1>3, <1>4, <2>1
  <2>3. PICK y : y = SubSeq(s, m, Len(s))
    OBVIOUS
  <2>4. y \in Seq(S) /\ Len(y) = Len(r) /\ \A k \in 1 .. Len(y) : y[k] = s[m + k - 1]
    BY <2>2, <2>3
  <2>5. \A k \in 1 .. Len(y) : y[k] = r[k]
    BY <1>6, <2>1, <2>4
  <2>6. y = r
    BY <2>4, <2>5, SeqEqual
  <2> QED
    BY <2>1, <2>3, <2>6
<1> QED
  BY <1>4, <1>5, <1>7

\* Where a tail of a sequence starts, from how long it is.
LEMMA TailStarts ==
  ASSUME NEW S, NEW s \in Seq(S), NEW j \in 1 .. Len(s) + 1, NEW r \in Seq(S),
         SubSeq(s, j, Len(s)) = r
  PROVE  j = Len(s) + 1 - Len(r)
<1>1. Len(SubSeq(s, j, Len(s))) = Len(s) + 1 - j
  OBVIOUS
<1> QED
  BY <1>1

\* A tail is no longer than the sequence.
LEMMA TailFits ==
  ASSUME NEW S, NEW c \in Seq(S), NEW r \in Seq(S), NEW s, s = c \o r
  PROVE  /\ Len(s) + 1 - Len(r) \in 1 .. Len(s) + 3
         /\ r = <<>> => Len(s) + 1 - Len(r) > Len(s)
<1>1. Len(s) = Len(c) + Len(r)
  OBVIOUS
<1> QED
  BY <1>1

\* c stands at position j of t.
Stands(t, j, c) == \A k \in 1 .. Len(c) : t[j + k - 1] = c[k]

\* c stands at j of t, and behind it, from m on, x is all that is left.
GoesOn(t, j, m, c, x) == m = j + Len(c) /\ Stands(t, j, c) /\ SubSeq(t, m, Len(t)) = x

\* What is left after the first of three parts.
LEMMA TailAfter ==
  ASSUME NEW S, NEW s \in Seq(S), NEW j \in 1 .. Len(s) + 1,
         NEW c \in Seq(S), NEW z \in Seq(S), NEW r \in Seq(S), NEW x,
         x = SubSeq(s, j, Len(s)), x = (c \o z) \o r
  PROVE  \E m \in 1 .. Len(s) + 1 : GoesOn(s, j, m, c, z \o r)
<1>1. PICK w \in Seq(S) : w = z \o r
  BY ConcatProperties
<1>2. SubSeq(s, j, Len(s)) = c \o w
  BY <1>1, ConcatAssociative
<1>3. /\ Len(s) + 1 = j + Len(c) + Len(w)
      /\ SubSeq(s, j + Len(c), Len(s)) = w
      /\ Stands(s, j, c)
  BY <1>2, SuffixSplits DEF Stands
<1>4. PICK m : m = j + Len(c)
  OBVIOUS
<1>5. m \in 1 .. Len(s) + 1
  BY <1>3, <1>4
<1> QED
  BY <1>1, <1>3, <1>4, <1>5 DEF GoesOn

\* A part of a sequence.
LEMMA PartType ==
  ASSUME NEW S, NEW s \in Seq(S), NEW i \in Nat \ {0}, NEW k \in 0 .. Len(s)
  PROVE  SubSeq(s, i, k) \in Seq(S)
<1>1. i \in Int /\ k \in Int /\ \A j \in i .. k : s[j] \in S
  BY ElementOfSeq
<1> QED
  BY <1>1, SubSeqProperties

\* What is left of a sequence is its first element and the rest.
LEMMA HeadSplits ==
  ASSUME NEW S, NEW s \in Seq(S), NEW i \in 1 .. Len(s)
  PROVE  <<s[i]>> \o SubSeq(s, i + 1, Len(s)) = SubSeq(s, i, Len(s))
OBVIOUS

-----------------------------------------------------------------------------
\* The bytes that separate nothing.
Plain == Byte \ {Amp, Equals}

\* HexToI reads the digits that HexDigit writes, and none of them separates anything.
LEMMA HexRoundTrip ==
  ASSUME NEW n \in 0 .. 15
  PROVE  HexToI(HexDigit(n)) = n /\ HexDigit(n) \in Plain /\ HexDigit(n) \in Byte
<1>1. CASE n < 10
  BY <1>1 DEF HexToI, HexDigit, Plain, Byte, Amp, Equals
<1>2. CASE n >= 10
  BY <1>2 DEF HexToI, HexDigit, Plain, Byte, Amp, Equals
<1> QED
  BY <1>1, <1>2

\* The code of a byte below 128 is the byte itself, '+' for a space, or an escape whose
\* two digits give the byte back.
LEMMA CodeOfByte ==
  ASSUME NEW b \in 0 .. 127
  PROVE  /\ Code(b) \in Seq(Plain)
         /\ \/ Code(b) = <<b>> /\ b # Plus /\ b # Percent
            \/ Code(b) = <<Plus>> /\ b = Space
            \/ \E x, y \in Byte : /\ Code(b) = <<Percent, x, y>>
                                  /\ (16 * HexToI(x) + HexToI(y)) % 256 = b
<1>1. CASE Unreserved(b)
  <2>1. b \in Plain /\ b # Plus /\ b # Percent
    BY <1>1 DEF Unreserved, IsAlnum, Plain, Byte, Amp, Equals, Plus, Percent
  <2>2. Code(b) = <<b>>
    BY <1>1 DEF Code
  <2> QED
    BY <2>1, <2>2
<1>2. CASE ~Unreserved(b) /\ b = Space
  <2>1. Plus \in Plain
    BY DEF Plain, Byte, Amp, Equals, Plus
  <2>2. Code(b) = <<Plus>>
    BY <1>2 DEF Code
  <2> QED
    BY <1>2, <2>1, <2>2
<1>3. CASE ~Unreserved(b) /\ b # Space
  <2>1. PICK h, l : h = b \div 16 /\ l = b % 16
    OBVIOUS
  <2>2. h \in 0 .. 15 /\ l \in 0 .. 15 /\ 16 * h + l = b
    BY <2>1
  <2>3. PICK x, y : x = HexDigit(h) /\ y = HexDigit(l)
    OBVIOUS
  <2>4. x \in Plain /\ y \in Plain /\ x \in Byte /\ y \in Byte /\ HexToI(x) = h /\ HexToI(y) = l
    BY <2>2, <2>3, HexRoundTrip
  <2>5. (16 * h + l) % 256 = b
    BY <2>2
  <2>6. Code(b) = <<Percent, x, y>>
    BY <1>3, <2>1, <2>3 DEF Code, Escape
  <2>7. Percent \in Plain
    BY DEF Plain, Byte, Amp, Equals, Percent
  <2>8. <<Percent, x, y>> \in Seq(Plain)
    BY <2>4, <2>7
  <2> QED
    BY <2>4, <2>5, <2>6, <2>8
<1> QED
  BY <1>1, <1>2, <1>3

\* What UrlEncode writes of a query has neither '&' nor '=' in it.
LEMMA EncodeType ==
  ASSUME NEW u \in Seq(0 .. 127)
  PROVE  \A i \in 1 .. Len(u) + 1 : EncodeFrom(u, TRUE)[i] \in Seq(Plain)
<1> DEFINE N == Len(u) + 1
           P == {i \in 1 .. N : EncodeFrom(u, TRUE)[i] \in Seq(Plain)}
<1>1. N \in Nat
  OBVIOUS
<1>2. ASSUME NEW i \in 1 .. N, \A k \in i + 1 .. N : k \in P PROVE i \in P
  <2>1. PICK e : e = EncodeFrom(u, TRUE)
    OBVIOUS
  <2>2. CASE i = Len(u) + 1
    <3>1. e[i] = <<>> /\ <<>> \in Seq(Plain)
      <4>1. <<>> \in Seq(Plain)
        OBVIOUS
      <4>2. e[Len(u) + 1] = <<>>
        BY <2>1, EncodeStep
      <4> QED
        BY <2>2, <4>1, <4>2
    <3> QED
      BY <2>1, <3>1
  <2>3. CASE i # Len(u) + 1
    <3>1. i \in 1 .. Len(u) /\ i + 1 \in i + 1 .. N
      BY <2>3
    <3>2. PICK b \in 0 .. 127 : b = u[i]
      BY <3>1, ElementOfSeq
    <3>3. e[i] = Code(b) \o e[i + 1]
      BY <2>1, <3>1, <3>2, EncodeStep
    <3>4. e[i + 1] \in Seq(Plain)
      BY <1>2, <2>1, <3>1
    <3>5. PICK c \in Seq(Plain) : c = Code(b)
      BY CodeOfByte
    <3>6. e[i] \in Seq(Plain)
      BY <3>3, <3>4, <3>5, ConcatProperties
    <3> QED
      BY <2>1, <3>6
  <2> QED
    BY <2>2, <2>3
<1>3. \A i \in 1 .. N : i \in P
  <2> HIDE DEF P, N
  <2> QED
    BY <1>1, <1>2, DownInduction
<1> QED
  BY <1>3

\* What UrlDecode makes of a query from a position on, case by case; x is the
\* byte that an escape there stands for.
Decodes(d, u, i, x) ==
    /\ i > Len(u) => d[i] = <<>>
    /\ i <= Len(u) /\ u[i] = Plus => d[i] = <<Space>> \o d[i + 1]
    /\ i + 2 <= Len(u) /\ u[i] = Percent => d[i] = x \o d[i + 3]
    /\ i <= Len(u) /\ u[i] # Plus /\ u[i] # Percent => d[i] = <<u[i]>> \o d[i + 1]

\* UrlDecode takes one of its branches at each position.
LEMMA DecodeCases ==
  ASSUME NEW S, NEW u \in Seq(S), NEW i \in 1 .. Len(u) + 3, NEW d, NEW x,
         d = DecodeFrom(u, TRUE),
         x = <<(16 * HexToI(u[i + 1]) + HexToI(u[i + 2])) % 256>>
  PROVE  Decodes(d, u, i, x)
<1>0. i \in Nat /\ Len(u) \in Nat /\ Percent # Plus
  BY DEF Percent, Plus
<1>1. TRUE \in BOOLEAN
  OBVIOUS
<1>2. d[i] = CASE i > Len(u) -> <<>>
                [] i <= Len(u) /\ u[i] = Plus /\ TRUE -> <<Space>> \o d[i + 1]
                [] i + 2 <= Len(u) /\ u[i] = Percent -> x \o d[i + 3]
                [] OTHER -> <<u[i]>> \o d[i + 1]
  BY <1>1, DecodeStep
<1>3. PICK a, b, c : a = <<Space>> \o d[i + 1] /\ b = x \o d[i + 3] /\ c = <<u[i]>> \o d[i + 1]
  OBVIOUS
<1>4. PICK y : y = u[i]
  OBVIOUS
<1>5. d[i] = CASE i > Len(u) -> <<>>
                [] i <= Len(u) /\ y = Plus /\ TRUE -> a
                [] i + 2 <= Len(u) /\ y = Percent -> b
                [] OTHER -> c
  BY <1>2, <1>3, <1>4
<1>6. PICK z : z = d[i]
  OBVIOUS
<1>7. /\ i > Len(u) => z = <<>>
      /\ i <= Len(u) /\ y = Plus => z = a
      /\ i + 2 <= Len(u) /\ y = Percent => z = b
      /\ i <= Len(u) /\ y # Plus /\ y # Percent => z = c
  BY <1>0, <1>5, <1>6
<1> QED
  BY <1>3, <1>4, <1>6, <1>7 DEF Decodes

\* What TailAfter says of bytes.
LEMMA CodeStands ==
  ASSUME NEW t \in Seq(Byte), NEW j \in 1 .. Len(t) + 1, NEW c \in Seq(Byte),
         NEW z \in Seq(Byte), NEW r \in Seq(Byte), NEW x, x = SubSeq(t, j, Len(t)),
         x = (c \o z) \o r
  PROVE  \E m \in 1 .. Len(t) + 1 : GoesOn(t, j, m, c, z \o r)
<1>1. PICK B : B = Byte
  OBVIOUS
<1>2. t \in Seq(B) /\ c \in Seq(B) /\ z \in Seq(B) /\ r \in Seq(B)
  BY <1>1
<1> QED
  BY <1>2, TailAfter, Zenon

\* What RegroupOne says of bytes.
LEMMA RegroupByte ==
  ASSUME NEW b \in Byte, NEW x \in Seq(Byte), NEW y \in Seq(Byte)
  PROVE  <<b>> \o (x \o y) = (<<b>> \o x) \o y
<1>1. PICK B : B = Byte
  OBVIOUS
<1>2. b \in B /\ x \in Seq(B) /\ y \in Seq(B)
  BY <1>1
<1> QED
  BY <1>2, RegroupOne

\* Where the code of a byte stands, UrlDecode reads that byte and goes on after it.
LEMMA DecodesCode ==
  ASSUME NEW t \in Seq(Byte), NEW d, d = DecodeFrom(t, TRUE), NEW b \in 0 .. 127,
         NEW c, c = Code(b), NEW j \in 1 .. Len(t) + 1, NEW m \in 1 .. Len(t) + 1,
         m = j + Len(c), Stands(t, j, c)
  PROVE  d[j] = <<b>> \o d[m]
<1>1. PICK v : v = <<(16 * HexToI(t[j + 1]) + HexToI(t[j + 2])) % 256>>
  OBVIOUS
<1>2. j \in 1 .. Len(t) + 3 /\ j \in Nat /\ m \in Nat /\ Len(t) \in Nat
  OBVIOUS
<1>3. /\ j <= Len(t) /\ t[j] = Plus => d[j] = <<Space>> \o d[j + 1]
      /\ j + 2 <= Len(t) /\ t[j] = Percent => d[j] = v \o d[j + 3]
      /\ j <= Len(t) /\ t[j] # Plus /\ t[j] # Percent => d[j] = <<t[j]>> \o d[j + 1]
  <2>1. Decodes(d, t, j, v)
    BY <1>1, <1>2, DecodeCases
  <2> QED
    BY <2>1 DEF Decodes
<1>4. CASE c = <<b>> /\ b # Plus /\ b # Percent
  <2>1. Len(c) = 1 /\ c[1] = b
    BY <1>4
  <2>2. t[j + 1 - 1] = b
    BY <2>1 DEF Stands
  <2>3. t[j] = b /\ m = j + 1 /\ j <= Len(t)
    BY <1>2, <2>1, <2>2
  <2> QED
    BY <1>3, <1>4, <2>3
<1>5. CASE c = <<Plus>> /\ b = Space
  <2>1. Len(c) = 1 /\ c[1] = Plus
    BY <1>5
  <2>2. t[j + 1 - 1] = Plus
    BY <2>1 DEF Stands
  <2>3. t[j] = Plus /\ m = j + 1 /\ j <= Len(t)
    BY <1>2, <2>1, <2>2
  <2> QED
    BY <1>3, <1>5, <2>3
<1>6. ASSUME NEW x \in Byte, NEW l \in Byte, c = <<Percent, x, l>>,
             (16 * HexToI(x) + HexToI(l)) % 256 = b
      PROVE  d[j] = <<b>> \o d[m]
  <2>1. Len(c) = 3 /\ c[1] = Percent /\ c[2] = x /\ c[3] = l
    BY <1>6
  <2>2. t[j + 1 - 1] = Percent /\ t[j + 2 - 1] = x /\ t[j + 3 - 1] = l
    BY <2>1 DEF Stands
  <2>3. /\ t[j] = Percent /\ t[j + 1] = x /\ t[j + 2] = l /\ m = j + 3
        /\ j <= Len(t) /\ j + 2 <= Len(t)
    BY <1>2, <2>1, <2>2
  <2>4. v = <<b>>
    BY <1>1, <1>6, <2>3
  <2> QED
    BY <1>3, <2>3, <2>4
<1> QED
  BY <1>4, <1>5, <1>6, CodeOfByte

\* t is what UrlEncode writes of u, and r.
EncodedThen(t, u, r) == t = UrlEncode(u, TRUE) \o r

\* What UrlEncode writes UrlDecode reads, before it goes on to whatever follows.
LEMMA DecodesBefore ==
  ASSUME NEW u \in Seq(0 .. 127), NEW r \in Seq(Byte), NEW t \in Seq(Byte),
         EncodedThen(t, u, r)
  PROVE  /\ UrlEncode(u, TRUE) \in Seq(Plain)
         /\ \E y \in Seq(Byte) : UrlDecode(t, TRUE) = u \o y /\ (r = <<>> => y = <<>>)
<1>1. PICK e, d : e = EncodeFrom(u, TRUE) /\ d = DecodeFrom(t, TRUE)
  OBVIOUS
<1>2. \A i \in 1 .. Len(u) + 1 : e[i] \in Seq(Plain) /\ e[i] \in Seq(Byte)
  <2>1. Plain \subseteq Byte
    BY DEF Plain
  <2> QED
    BY <1>1, <2>1, EncodeType, SeqMonotonic
<1>3. /\ UrlEncode(u, TRUE) \in Seq(Plain) /\ t = e[1] \o r
      /\ UrlDecode(t, TRUE) = d[1]
  <2>1. 1 \in 1 .. Len(u) + 1
    OBVIOUS
  <2>2. e[1] = UrlEncode(u, TRUE)
    BY <1>1, EncodeFirst
  <2>3. UrlDecode(t, TRUE) = d[1]
    BY <1>1, DecodeFirst
  <2>4. t = e[1] \o r
    BY <2>2 DEF EncodedThen
  <2> QED
    BY <1>2, <2>1, <2>2, <2>3, <2>4
<1>4. /\ \A i \in 1 .. Len(u) : e[i] = Code(u[i]) \o e[i + 1]
      /\ e[Len(u) + 1] = <<>>
  BY <1>1, EncodeStep
<1>5. PICK q : q = Len(t) + 1 - Len(r)
  OBVIOUS
<1>6. q \in 1 .. Len(t) + 3 /\ (r = <<>> => q > Len(t))
  <2>1. 1 \in 1 .. Len(u) + 1
    OBVIOUS
  <2>2. PICK z \in Seq(Byte) : z = e[1]
    BY <1>2, <2>1
  <2> QED
    BY <1>3, <1>5, <2>2, TailFits
<1>7. PICK y \in Seq(Byte) : y = d[q] /\ (r = <<>> => y = <<>>)
  <2>1. d[q] \in Seq(Byte)
    BY <1>1, <1>6, DecodeFromType
  <2>2. PICK x : x = <<(16 * HexToI(t[q + 1]) + HexToI(t[q + 2])) % 256>>
    OBVIOUS
  <2>3. Decodes(d, t, q, x)
    BY <1>1, <1>6, <2>2, DecodeCases
  <2>4. q > Len(t) => d[q] = <<>>
    BY <2>3 DEF Decodes
  <2> QED
    BY <1>6, <2>1, <2>4
<1> DEFINE N == Len(u) + 1
           P == {i \in 1 .. N : \A j \in 1 .. Len(t) + 1 :
                    SubSeq(t, j, Len(t)) = e[i] \o r => d[j] = SubSeq(u, i, Len(u)) \o y}
<1>8. ASSUME NEW i \in 1 .. N, \A k \in i + 1 .. N : k \in P,
             NEW j \in 1 .. Len(t) + 1, SubSeq(t, j, Len(t)) = e[i] \o r
      PROVE  d[j] = SubSeq(u, i, Len(u)) \o y
  <2>1. i \in Nat /\ Len(u) \in Nat
    OBVIOUS
  <2>2. CASE i = Len(u) + 1
    <3>1. SubSeq(t, j, Len(t)) = r
      <4>1. e[i] = <<>>
        BY <1>4, <2>2
      <4>2. <<>> \o r = r
        BY ConcatEmptySeq
      <4> QED
        BY <1>8, <4>1, <4>2
    <3>2. j = q
      BY <1>5, <3>1, TailStarts
    <3>3. SubSeq(u, i, Len(u)) = <<>>
      <4>1. i \in Int /\ Len(u) \in Int /\ Len(u) < i
        BY <2>1, <2>2
      <4> QED
        BY <4>1, SubSeqEmpty
    <3>4. <<>> \o y = y
      BY ConcatEmptySeq
    <3> QED
      BY <1>7, <3>2, <3>3, <3>4
  <2>3. CASE i # Len(u) + 1
    <3>1. i \in 1 .. Len(u) /\ i + 1 \in i + 1 .. N /\ i + 1 \in 1 .. N
      BY <2>3
    <3>2. PICK b \in 0 .. 127 : b = u[i]
      BY <3>1, ElementOfSeq
    <3>3. PICK c \in Seq(Plain) : c = Code(b)
      BY CodeOfByte
    <3>4. c \in Seq(Byte)
      <4>1. Plain \subseteq Byte
        BY DEF Plain
      <4> QED
        BY <3>3, <4>1, SeqMonotonic
    <3>5. PICK z \in Seq(Byte) : z = e[i + 1]
      BY <1>2, <3>1
    <3>6. SubSeq(t, j, Len(t)) = (c \o z) \o r
      <4>1. e[i] = c \o z
        BY <1>4, <3>1, <3>2, <3>3, <3>5
      <4> QED
        BY <1>8, <4>1
    <3>7. PICK m \in 1 .. Len(t) + 1 : GoesOn(t, j, m, c, z \o r)
      <4>1. PICK x : x = SubSeq(t, j, Len(t))
        OBVIOUS
      <4>2. x = (c \o z) \o r
        BY <3>6, <4>1
      <4> HIDE DEF P, N
      <4> QED
        BY <3>4, <4>1, <4>2, CodeStands, Zenon
    <3>8. PICK v : v = SubSeq(u, i + 1, Len(u))
      OBVIOUS
    <3>9. d[m] = v \o y
      BY <1>8, <3>1, <3>5, <3>7, <3>8 DEF GoesOn
    <3>10. d[j] = <<b>> \o d[m]
      <4>1. m = j + Len(c) /\ Stands(t, j, c)
        BY <3>7 DEF GoesOn
      <4> HIDE DEF P, N
      <4> QED
        BY <1>1, <3>3, <4>1, DecodesCode, Zenon
    <3>11. v \in Seq(Byte) /\ b \in Byte
      <4>1. i + 1 \in Nat \ {0} /\ Len(u) \in 0 .. Len(u)
        BY <2>1
      <4>2. v \in Seq(0 .. 127)
        BY <3>8, <4>1, PartType
      <4>3. 0 .. 127 \subseteq Byte
        BY DEF Byte
      <4> QED
        BY <4>2, <4>3, SeqMonotonic
    <3>12. <<b>> \o v = SubSeq(u, i, Len(u))
      BY <3>1, <3>2, <3>8, HeadSplits
    <3>13. <<b>> \o (v \o y) = (<<b>> \o v) \o y
      <4> HIDE DEF P, N
      <4> QED
        BY <3>11, RegroupByte, Zenon
    <3> QED
      BY <3>9, <3>10, <3>12, <3>13
  <2> QED
    BY <2>2, <2>3
<1>9. \A i \in 1 .. N : i \in P
  <2>1. \A i \in 1 .. N : (\A k \in i + 1 .. N : k \in P) => i \in P
    BY <1>8
  <2>2. N \in Nat
    OBVIOUS
  <2> HIDE DEF P, N
  <2> QED
    BY <2>1, <2>2, DownInduction
<1>10. d[1] = u \o y
  <2>1. SubSeq(t, 1, Len(t)) = t /\ SubSeq(u, 1, Len(u)) = u
    BY SubSeqFull
  <2>2. 1 \in 1 .. Len(t) + 1 /\ 1 \in 1 .. N
    OBVIOUS
  <2> QED
    BY <1>3, <1>9, <2>1, <2>2
<1> QED
  BY <1>3, <1>7, <1>10

\* The text x begins with v.
Begins(x, v) == \E y \in Seq(Byte) : x = v \o y

\* What UrlDecode reads of a text that starts with what UrlEncode writes of u.
LEMMA DecodedBegins ==
  ASSUME NEW u \in Seq(0 .. 127), NEW r \in Seq(Byte), NEW t \in Seq(Byte),
         EncodedThen(t, u, r)
  PROVE  Begins(UrlDecode(t, TRUE), u)
<1>1. \E y \in Seq(Byte) : UrlDecode(t, TRUE) = u \o y /\ (r = <<>> => y = <<>>)
  BY DecodesBefore
<1> QED
  BY <1>1 DEF Begins

\* Of what UrlEncode writes UrlDecode gives back the text.
LEMMA RoundTrip ==
  ASSUME NEW u \in Seq(0 .. 127)
  PROVE  /\ UrlEncode(u, TRUE) \in Seq(Plain)
         /\ UrlDecode(UrlEncode(u, TRUE), TRUE) = u
<1>1. UrlEncode(u, TRUE) \in Seq(Plain)
  <2>1. 1 \in 1 .. Len(u) + 1
    OBVIOUS
  <2> QED
    BY <2>1, EncodeType, EncodeFirst
<1>2. PICK t : t = UrlEncode(u, TRUE)
  OBVIOUS
<1>3. t \in Seq(Byte) /\ <<>> \in Seq(Byte)
  <2>1. Plain \subseteq Byte
    BY DEF Plain
  <2> QED
    BY <1>1, <1>2, <2>1, SeqMonotonic, EmptySeq
<1>4. EncodedThen(t, u, <<>>)
  BY <1>2, <1>3, ConcatEmptySeq DEF EncodedThen
<1>5. PICK y : UrlDecode(t, TRUE) = u \o y /\ y = <<>>
  BY <1>3, <1>4, DecodesBefore
<1>6. u \o <<>> = u
  BY ConcatEmptySeq
<1> QED
  BY <1>1, <1>2, <1>5, <1>6

-----------------------------------------------------------------------------
\* The least element of a set of numbers.
LEMMA MinIsLeast ==
  ASSUME NEW S \in SUBSET Nat, S # {}
  PROVE  Min(S) \in S /\ \A y \in S : Min(S) <= y
<1>1. \E x \in S : \A y \in S : x <= y
  BY LeastPosition
<1>2. Min(S) = CHOOSE x \in S : \A y \in S : x <= y
  BY DEF Min
<1> QED
  BY <1>1, <1>2

\* The least element, when it is known which one it is.
LEMMA MinIs ==
  ASSUME NEW S \in SUBSET Nat, NEW m \in S, \A y \in S : m <= y
  PROVE  Min(S) = m
<1>1. Min(S) \in S /\ \A y \in S : Min(S) <= y
  BY MinIsLeast
<1>2. Min(S) <= m /\ m <= Min(S) /\ Min(S) \in Nat /\ m \in Nat
  BY <1>1
<1> QED
  BY <1>2

-----------------------------------------------------------------------------
\* What Split makes of the text from each position on.
SplitFrom(src, sep) ==
    LET from[i \in 1 .. Len(src) + 1] ==
            CASE i > Len(src) -> <<>>
              [] i <= Len(src) /\ Found(src, sep, i) = {} -> <<SubSeq(src, i, Len(src))>>
              [] i \in Found(src, sep, i) -> from[i + 1]
              [] OTHER -> <<Substr(src, i - 1, Min(Found(src, sep, i)) - 1)>>
                          \o from[Min(Found(src, sep, i)) + 1]
    IN  from

\* Split starts at the first byte.
LEMMA SplitFirst ==
  ASSUME NEW u, NEW b
  PROVE  Split(u, b) = SplitFrom(u, b)[1]
BY DEF Split, SplitFrom

\* The end of the piece that starts at i when the separator follows at m.
EndOf(u, i, m) == IF Len(u) <= i + m - 2 THEN Len(u) ELSE i + m - 2

\* What substr cuts is the part up to that end.
LEMMA SubstrIs ==
  ASSUME NEW S, NEW u \in Seq(S), NEW i \in 1 .. Len(u), NEW m \in 1 .. Len(u)
  PROVE  Substr(u, i - 1, m - 1) = SubSeq(u, i, EndOf(u, i, m))
<1>1. Len(u) \in Nat /\ i - 1 + (m - 1) = i + m - 2 /\ i - 1 + 1 = i /\ i + m - 2 \in Nat
  OBVIOUS
<1>2. PICK n \in Nat, l \in Nat : n = i + m - 2 /\ l = Len(u)
  BY <1>1
<1>3. Min({l, n}) = IF l <= n THEN l ELSE n
  <2>1. {l, n} \in SUBSET Nat
    OBVIOUS
  <2>2. CASE l <= n
    <3>1. \A y \in {l, n} : l <= y
      BY <2>2
    <3> QED
      BY <2>1, <2>2, <3>1, MinIs
  <2>3. CASE ~(l <= n)
    <3>1. \A y \in {l, n} : n <= y
      BY <2>3
    <3> QED
      BY <2>1, <2>3, <3>1, MinIs
  <2> QED
    BY <2>2, <2>3
<1> QED
  BY <1>1, <1>2, <1>3 DEF Substr, EndOf

\* s is what Split makes of the text u at the position i.
Cuts(s, u, b, i) ==
    /\ s[i] \in Seq(Seq(Byte))
    /\ i > Len(u) => s[i] = <<>>
    /\ i <= Len(u) /\ (\A k \in i .. Len(u) : u[k] # b) => s[i] = <<SubSeq(u, i, Len(u))>>
    /\ i <= Len(u) /\ u[i] = b => s[i] = s[i + 1]
    /\ \A m \in i + 1 .. Len(u) :
          u[m] = b /\ (\A k \in i .. m - 1 : u[k] # b) =>
             s[i] = <<SubSeq(u, i, EndOf(u, i, m))>> \o s[m + 1]

\* Split, one piece at a time: what it does at each position follows from the next separator.
LEMMA SplitStep ==
  ASSUME NEW u \in Seq(Byte), NEW b
  PROVE  \A i \in 1 .. Len(u) + 1 : Cuts(SplitFrom(u, b), u, b, i)
<1> DEFINE N == Len(u) + 1
           C == 1 .. Len(u)
           next == [i \in 1 .. N |-> IF Found(u, b, i) = {} THEN N ELSE Min(Found(u, b, i)) + 1]
           A == [i \in 1 .. N |-> IF Found(u, b, i) = {} THEN <<SubSeq(u, i, Len(u))>>
                                  ELSE IF i \in Found(u, b, i) THEN <<>>
                                  ELSE <<Substr(u, i - 1, Min(Found(u, b, i)) - 1)>>]
           body(f, i) ==
              CASE i > Len(u)             -> <<>>
                [] i <= Len(u) /\ Found(u, b, i) = {} -> <<SubSeq(u, i, Len(u))>>
                [] i \in Found(u, b, i)             -> f[i + 1]
                [] OTHER -> <<Substr(u, i - 1, Min(Found(u, b, i)) - 1)>> \o f[Min(Found(u, b, i)) + 1]
           Is(f) == f = [i \in 1 .. N |-> body(f, i)]
<1>0. Len(u) \in Nat /\ N \in Nat
  OBVIOUS
<1>1. ASSUME NEW i \in 1 .. N, Found(u, b, i) # {}
      PROVE  /\ Min(Found(u, b, i)) \in i .. Len(u) /\ u[Min(Found(u, b, i))] = b
             /\ \A k \in i .. Len(u) : u[k] = b => Min(Found(u, b, i)) <= k
             /\ i \in Found(u, b, i) => Min(Found(u, b, i)) = i
  <2>1. Found(u, b, i) \in SUBSET Nat
    BY DEF Found, At
  <2>2. Min(Found(u, b, i)) \in Found(u, b, i) /\ \A k \in Found(u, b, i) : Min(Found(u, b, i)) <= k
    BY <1>1, <2>1, MinIsLeast
  <2>3. \A k \in Found(u, b, i) : k \in i .. Len(u) /\ u[k] = b
    BY DEF Found, At
  <2>4. \A k \in i .. Len(u) : u[k] = b => k \in Found(u, b, i)
    BY DEF Found, At
<2> QED
    BY <2>2, <2>3, <2>4
<1>2. \A i \in 1 .. N : i \in C => next[i] \in i + 1 .. N
  <2> SUFFICES ASSUME NEW i \in 1 .. N, i \in C PROVE next[i] \in i + 1 .. N
    OBVIOUS
  <2>1. next[i] = IF Found(u, b, i) = {} THEN N ELSE Min(Found(u, b, i)) + 1
    OBVIOUS
  <2> HIDE DEF next
  <2> QED
    BY <1>0, <1>1, <2>1
<1>3. PICK f : Walks(f, N, C, next, A)
  <2> HIDE DEF N, C, next, A
  <2> QED
    BY <1>0, <1>2, WalkExists
<1>4. ASSUME NEW i \in C
      PROVE  /\ Found(u, b, i) = {} => A[i] = <<SubSeq(u, i, Len(u))>> /\ next[i] = N
             /\ i \in Found(u, b, i) => A[i] = <<>> /\ next[i] = i + 1
             /\ Found(u, b, i) # {} /\ i \notin Found(u, b, i) =>
                   /\ A[i] = <<SubSeq(u, i, EndOf(u, i, Min(Found(u, b, i))))>>
                   /\ Substr(u, i - 1, Min(Found(u, b, i)) - 1) = SubSeq(u, i, EndOf(u, i, Min(Found(u, b, i))))
                   /\ next[i] = Min(Found(u, b, i)) + 1
  <2>1. i \in 1 .. N /\ i \in 1 .. Len(u)
    OBVIOUS
  <2>2. /\ A[i] = IF Found(u, b, i) = {} THEN <<SubSeq(u, i, Len(u))>>
                  ELSE IF i \in Found(u, b, i) THEN <<>> ELSE <<Substr(u, i - 1, Min(Found(u, b, i)) - 1)>>
        /\ next[i] = IF Found(u, b, i) = {} THEN N ELSE Min(Found(u, b, i)) + 1
    BY <2>1
  <2>3. Found(u, b, i) # {} => Min(Found(u, b, i)) \in 1 .. Len(u)
    BY <1>1, <2>1
  <2> HIDE DEF A, next, C
  <2>4. Found(u, b, i) # {} => Substr(u, i - 1, Min(Found(u, b, i)) - 1) = SubSeq(u, i, EndOf(u, i, Min(Found(u, b, i))))
    BY <2>1, <2>3, SubstrIs
  <2> QED
    BY <1>1, <2>1, <2>2, <2>4
<1>5. \A i \in 1 .. N : f[i] \in Seq(Seq(Byte))
  <2> DEFINE Q == {i \in 1 .. N : f[i] \in Seq(Seq(Byte))}
  <2>1. ASSUME NEW i \in 1 .. N, \A k \in i + 1 .. N : k \in Q PROVE i \in Q
    <3>1. CASE i \in C
      <4>1. f[i] = A[i] \o f[next[i]]
        BY <1>3, <3>1 DEF Walks
      <4>2. next[i] \in i + 1 .. N
        BY <1>2, <3>1
      <4>3. PICK x : x = f[next[i]]
        OBVIOUS
      <4>4. x \in Seq(Seq(Byte))
        BY <2>1, <4>2, <4>3
      <4>5. A[i] \in Seq(Seq(Byte))
        <5>1. SubSeq(u, i, Len(u)) \in Seq(Byte)
          OBVIOUS
        <5>2. ASSUME Found(u, b, i) # {} PROVE SubSeq(u, i, EndOf(u, i, Min(Found(u, b, i)))) \in Seq(Byte)
          <6>1. PICK m \in 1 .. Len(u) : m = Min(Found(u, b, i))
            BY <1>1, <5>2
          <6>2. EndOf(u, i, m) \in 0 .. Len(u)
            BY <1>0 DEF EndOf
          <6>3. SubSeq(u, i, EndOf(u, i, m)) \in Seq(Byte)
            BY <6>2, PartType
          <6> QED
            BY <6>1, <6>3
        <5>3. <<>> \in Seq(Seq(Byte)) /\ \A y \in Seq(Byte) : <<y>> \in Seq(Seq(Byte))
          BY OneType
        <5>4. PICK y, z : y = SubSeq(u, i, Len(u)) /\ z = SubSeq(u, i, EndOf(u, i, Min(Found(u, b, i))))
          OBVIOUS
        <5> HIDE DEF A, C, next, N
        <5>5. /\ Found(u, b, i) = {} => A[i] = <<y>>
              /\ i \in Found(u, b, i) => A[i] = <<>>
              /\ Found(u, b, i) # {} /\ i \notin Found(u, b, i) => A[i] = <<z>> /\ z \in Seq(Byte)
          BY <1>4, <3>1, <5>2, <5>4
        <5> QED
          BY <5>1, <5>3, <5>4, <5>5
      <4>6. PICK a : a = A[i]
        OBVIOUS
      <4>7. a \o x \in Seq(Seq(Byte))
        BY <4>4, <4>5, <4>6, ConcatProperties
      <4> HIDE DEF A, next
      <4> QED
        BY <4>1, <4>3, <4>6, <4>7
    <3>2. CASE i \notin C
      <4>1. f[i] = <<>>
        BY <1>3, <3>2 DEF Walks
      <4>2. <<>> \in Seq(Seq(Byte))
        OBVIOUS
      <4> QED
        BY <4>1, <4>2
    <3> QED
      BY <3>1, <3>2
  <2>2. \A i \in 1 .. N : i \in Q
    <3> HIDE DEF Q, N
    <3> QED
      BY <1>0, <2>1, DownInduction
  <2> QED
    BY <2>2
<1>6. ASSUME NEW i \in C
      PROVE  /\ Found(u, b, i) = {} => f[i] = <<SubSeq(u, i, Len(u))>>
             /\ i \in Found(u, b, i) => f[i] = f[i + 1]
             /\ Found(u, b, i) # {} /\ i \notin Found(u, b, i) =>
                   f[i] = <<SubSeq(u, i, EndOf(u, i, Min(Found(u, b, i))))>> \o f[Min(Found(u, b, i)) + 1]
  <2>1. f[i] = A[i] \o f[next[i]] /\ i \in 1 .. N /\ N \in 1 .. N /\ N \notin C
    <3>1. i \in 1 .. N /\ N \in 1 .. N /\ N \notin C
      OBVIOUS
    <3>2. f[i] = A[i] \o f[next[i]]
      <4> HIDE DEF N, C, A, next
      <4> QED
        BY <1>3, <3>1 DEF Walks
    <3> QED
      BY <3>1, <3>2
  <2>2. f[N] = <<>>
    <3>1. \A k \in 1 .. N : k \notin C => f[k] = <<>>
      BY <1>3 DEF Walks
    <3> HIDE DEF N, C
    <3> QED
      BY <2>1, <3>1
  <2>3. ASSUME Found(u, b, i) = {} PROVE f[i] = <<SubSeq(u, i, Len(u))>>
    <3>1. PICK x : x = SubSeq(u, i, Len(u))
      OBVIOUS
    <3>2. f[i] = <<x>> \o <<>>
      <4> HIDE DEF A, next, C, N
      <4> QED
        BY <1>4, <2>1, <2>2, <2>3, <3>1
    <3>3. x \in Seq(Byte)
      BY <3>1
    <3>4. <<x>> \o <<>> = <<x>>
      OBVIOUS
    <3> QED
      BY <3>1, <3>2, <3>4
  <2>4. ASSUME i \in Found(u, b, i) PROVE f[i] = f[i + 1]
    <3>1. PICK x : x = f[i + 1]
      OBVIOUS
    <3>2. f[i] = <<>> \o x
      <4> HIDE DEF A, next, C, N
      <4> QED
        BY <1>4, <2>1, <2>4, <3>1
    <3>3. x \in Seq(Seq(Byte))
      BY <1>5, <3>1
    <3> QED
      BY <3>1, <3>2, <3>3, ConcatEmptySeq
  <2> HIDE DEF A, next, C, N
  <2> QED
    BY <1>4, <2>1, <2>3, <2>4
<1>7. ASSUME NEW i \in 1 .. N PROVE f[i] = body(f, i)
  <2>1. i \notin C => f[i] = <<>>
    BY <1>3 DEF Walks
  <2>2. i \notin C <=> i > Len(u)
    OBVIOUS
  <2>3. i \in C => (i <= Len(u) /\ ~(i > Len(u)))
    OBVIOUS
  <2>a. i \notin C => Found(u, b, i) = {} /\ i \notin Found(u, b, i) /\ ~(i <= Len(u))
    BY DEF Found, At
  <2> HIDE DEF C
  <2>4. i \in C /\ Found(u, b, i) = {} => i \notin Found(u, b, i)
    OBVIOUS
  <2>5. PICK w, x, y, z : /\ w = <<SubSeq(u, i, Len(u))>> /\ x = f[i + 1]
                       /\ y = <<Substr(u, i - 1, Min(Found(u, b, i)) - 1)>> \o f[Min(Found(u, b, i)) + 1]
                       /\ z = f[i]
    OBVIOUS
  <2>6. /\ i \in C /\ Found(u, b, i) = {} => z = w
        /\ i \in C /\ i \in Found(u, b, i) => z = x
        /\ i \in C /\ Found(u, b, i) # {} /\ i \notin Found(u, b, i) => z = y
    BY <1>4, <1>6, <2>5
  <2>7. z = CASE i > Len(u)             -> <<>>
              [] i <= Len(u) /\ Found(u, b, i) = {} -> w
              [] i \in Found(u, b, i)             -> x
              [] OTHER -> y
    BY <2>1, <2>2, <2>3, <2>4, <2>5, <2>6, <2>a
  <2> QED
    BY <2>5, <2>7
<1>8. Is(f)
  <2>1. f = [i \in 1 .. N |-> f[i]]
    BY <1>3 DEF Walks
  <2> HIDE DEF body, N
  <2> QED
    BY <1>7, <2>1
<1>9. SplitFrom(u, b) = CHOOSE g : Is(g)
  BY DEF SplitFrom
<1>10. PICK g : g = SplitFrom(u, b) /\ Is(g)
  <2> HIDE DEF Is
  <2> QED
    BY <1>8, <1>9
<1>11. \A i \in 1 .. N : g[i] = body(g, i)
  <2>1. g = [i \in 1 .. N |-> body(g, i)]
    BY <1>10
  <2> HIDE DEF body, N
  <2> QED
    BY <2>1
<1>12. \A i \in 1 .. N : g[i] = f[i]
  <2> DEFINE Q == {i \in 1 .. N : g[i] = f[i]}
  <2>1. ASSUME NEW i \in 1 .. N, \A k \in i + 1 .. N : k \in Q PROVE i \in Q
    <3>1. body(g, i) = body(f, i)
      <4>1. \A k \in i + 1 .. N : g[k] = f[k]
        BY <2>1
      <4>2. i \in Found(u, b, i) => i + 1 \in i + 1 .. N
        BY DEF Found, At
      <4>3. Found(u, b, i) # {} => Min(Found(u, b, i)) + 1 \in i + 1 .. N
        BY <1>0, <1>1
      <4>4. PICK m : m = Min(Found(u, b, i)) + 1
        OBVIOUS
      <4>5. /\ i \in Found(u, b, i) => g[i + 1] = f[i + 1]
            /\ Found(u, b, i) # {} => g[m] = f[m]
        BY <4>1, <4>2, <4>3, <4>4
      <4>6. PICK w : w = <<Substr(u, i - 1, Min(Found(u, b, i)) - 1)>>
        OBVIOUS
      <4>7. \A h : body(h, i) =
              CASE i > Len(u)             -> <<>>
                [] i <= Len(u) /\ Found(u, b, i) = {} -> <<SubSeq(u, i, Len(u))>>
                [] i \in Found(u, b, i)             -> h[i + 1]
                [] OTHER -> w \o h[m]
        BY <4>4, <4>6
      <4>0. ASSUME i > Len(u), NEW h PROVE body(h, i) = <<>>
        <5>1. i \notin Found(u, b, i) /\ ~(i <= Len(u))
          BY <1>0, <4>0 DEF Found, At
        <5> QED
          BY <4>0, <5>1
      <4>8. ASSUME i <= Len(u), Found(u, b, i) = {}, NEW h
            PROVE  body(h, i) = <<SubSeq(u, i, Len(u))>>
        <5>1. i \notin Found(u, b, i) /\ ~(i > Len(u))
          BY <4>8
        <5> QED
          BY <4>8, <5>1
      <4>9. ASSUME i <= Len(u), i \in Found(u, b, i), NEW h PROVE body(h, i) = h[i + 1]
        <5>1. ~(i > Len(u)) /\ Found(u, b, i) # {}
          BY <4>9
        <5> QED
          BY <4>9, <5>1
      <4>10. ASSUME i <= Len(u), i \notin Found(u, b, i), Found(u, b, i) # {}, NEW h
             PROVE  body(h, i) = w \o h[m]
        <5>1. ~(i > Len(u))
          BY <4>10
        <5> HIDE DEF body
        <5> QED
          BY <4>7, <4>10, <5>1
      <4>11. i > Len(u) \/ i <= Len(u)
        BY <1>0
      <4> HIDE DEF body
      <4> QED
        BY <4>0, <4>5, <4>8, <4>9, <4>10, <4>11
    <3>2. g[i] = body(g, i) /\ f[i] = body(f, i)
      BY <1>7, <1>11
    <3> HIDE DEF body
    <3> QED
      BY <3>1, <3>2
  <2>2. \A i \in 1 .. N : i \in Q
    <3> HIDE DEF Q, N
    <3> QED
      BY <1>0, <2>1, DownInduction
  <2> QED
    BY <2>2
<1>13. ASSUME NEW i \in 1 .. N PROVE Cuts(g, u, b, i)
  <2>1. \A k \in 1 .. N : g[k] = f[k]
    BY <1>12
  <2>2. i \notin C => f[i] = <<>>
    BY <1>3 DEF Walks
  <2>3. g[i] \in Seq(Seq(Byte))
    BY <1>5, <2>1
  <2>4. i > Len(u) => g[i] = <<>>
    BY <2>1, <2>2
  <2>5. ASSUME i <= Len(u), \A k \in i .. Len(u) : u[k] # b
        PROVE  g[i] = <<SubSeq(u, i, Len(u))>>
    <3>1. Found(u, b, i) = {} /\ i \in C
      BY <2>5 DEF Found, At
    <3> QED
      BY <1>6, <2>1, <3>1
  <2>6. ASSUME i <= Len(u), u[i] = b PROVE g[i] = g[i + 1]
    <3>1. i \in Found(u, b, i) /\ i \in C /\ i + 1 \in 1 .. N
      BY <2>6 DEF Found, At
    <3> HIDE DEF N, C
    <3> QED
      BY <1>6, <2>1, <3>1
  <2>7. ASSUME NEW m \in i + 1 .. Len(u), u[m] = b, \A k \in i .. m - 1 : u[k] # b
        PROVE  g[i] = <<SubSeq(u, i, EndOf(u, i, m))>> \o g[m + 1]
    <3>1. i \notin Found(u, b, i) /\ i \in C /\ m \in Found(u, b, i) /\ m + 1 \in 1 .. N
      BY <2>7 DEF Found, At
    <3>2. \A y \in Found(u, b, i) : m <= y
      <4>1. \A y \in Found(u, b, i) : y \in i .. Len(u) /\ u[y] = b
        BY DEF Found, At
      <4> QED
        BY <2>7, <4>1
    <3>3. Found(u, b, i) \in SUBSET Nat
      BY DEF Found, At
    <3> HIDE DEF N, C
    <3>4. Min(Found(u, b, i)) = m /\ Found(u, b, i) # {}
      BY <3>1, <3>2, <3>3, MinIs
    <3> QED
      BY <1>6, <2>1, <3>1, <3>4
  <2> QED
    BY <2>3, <2>4, <2>5, <2>6, <2>7 DEF Cuts
<1> QED
  BY <1>10, <1>13

\* Split returns texts.
LEMMA SplitType ==
  ASSUME NEW u \in Seq(Byte), NEW b
  PROVE  Split(u, b) \in Seq(Seq(Byte))
<1>1. 1 \in 1 .. Len(u) + 1
  OBVIOUS
<1> QED
  BY <1>1, SplitStep, SplitFirst DEF Cuts

\* The two parts of a concatenation.
LEMMA ConcatParts ==
  ASSUME NEW S, NEW s \in Seq(S), NEW t \in Seq(S), NEW x, x = s \o t
  PROVE  /\ x \in Seq(S) /\ Len(x) = Len(s) + Len(t) /\ Len(s) \in Nat /\ Len(t) \in Nat
         /\ \A k \in 1 .. Len(s) : x[k] = s[k]
         /\ \A k \in 1 .. Len(t) : x[Len(s) + k] = t[k]
         /\ SubSeq(x, 1, Len(s)) = s
         /\ SubSeq(x, Len(s) + 1, Len(x)) = t
<1>1. /\ x \in Seq(S) /\ Len(x) = Len(s) + Len(t) /\ Len(s) \in Nat /\ Len(t) \in Nat
      /\ \A k \in 1 .. Len(s) + Len(t) : x[k] = IF k <= Len(s) THEN s[k] ELSE t[k - Len(s)]
  BY ConcatProperties, LenProperties
<1>2. ASSUME NEW k \in 1 .. Len(s) PROVE x[k] = s[k]
  <2>1. k \in 1 .. Len(s) + Len(t) /\ k <= Len(s)
    BY <1>1
  <2> QED
    BY <1>1, <2>1
<1>3. ASSUME NEW k \in 1 .. Len(t) PROVE x[Len(s) + k] = t[k]
  <2>1. /\ Len(s) + k \in 1 .. Len(s) + Len(t) /\ ~(Len(s) + k <= Len(s))
        /\ (Len(s) + k) - Len(s) = k
    BY <1>1
  <2> QED
    BY <1>1, <2>1
<1>4. SubSeq(x, 1, Len(s)) = s
  <2>1. PICK l \in Nat : l = Len(s)
    BY <1>1
  <2>2. PICK z : z = SubSeq(x, 1, l)
    OBVIOUS
  <2>3. z \in Seq(S)
    BY <1>1, <2>1, <2>2, PartType
  <2>4. Len(z) = l /\ \A k \in 1 .. l : z[k] = x[k]
    BY <1>1, <2>1, <2>2
  <2>5. \A k \in 1 .. Len(z) : z[k] = s[k]
    BY <1>2, <2>1, <2>4
  <2>7. z = s
    BY <2>1, <2>3, <2>4, <2>5, SeqEqual
  <2> QED
    BY <2>1, <2>2, <2>7
<1>5. SubSeq(x, Len(s) + 1, Len(x)) = t
  <2>1. SubSeq(x, 1, Len(x)) = x
    BY <1>1, SubSeqFull
  <2>2. 1 \in 1 .. Len(x) + 1
    BY <1>1
  <2>3. SubSeq(x, 1 + Len(s), Len(x)) = t
    BY <1>1, <2>1, <2>2, SuffixSplits
  <2>4. 1 + Len(s) = Len(s) + 1
    BY <1>1
  <2> QED
    BY <2>3, <2>4
<1> QED
  BY <1>1, <1>2, <1>3, <1>4, <1>5

-----------------------------------------------------------------------------
\* What clients mean to send: texts of bytes below 128.
Text == Seq(0 .. 127)

\* One parameter of a query: its name, '=' and its value.
Item(p) == UrlEncode(p[1], TRUE) \o <<Equals>> \o UrlEncode(p[2], TRUE)

\* A parameter is encoded without '&', in at least one byte.
LEMMA ItemType ==
  ASSUME NEW p \in Text \X Text
  PROVE  Item(p) \in Seq(Byte \ {Amp}) /\ Item(p) \in Seq(Byte) /\ Len(Item(p)) >= 1
<1>1. PICK a, b : p = <<a, b>> /\ a \in Text /\ b \in Text
  OBVIOUS
<1>2. PICK n, v : n = UrlEncode(a, TRUE) /\ v = UrlEncode(b, TRUE)
  OBVIOUS
<1>3. n \in Seq(Plain) /\ v \in Seq(Plain)
  BY <1>1, <1>2, RoundTrip DEF Text
<1>4. Item(p) = (n \o <<Equals>>) \o v
  BY <1>1, <1>2 DEF Item
<1>5. Plain \subseteq Byte \ {Amp} /\ Equals \in Byte \ {Amp} /\ Byte \ {Amp} \subseteq Byte
  BY DEF Plain, Byte, Equals, Amp
<1> DEFINE S == Byte \ {Amp}
<1> HIDE DEF S
<1>6. n \in Seq(S) /\ v \in Seq(S) /\ <<Equals>> \in Seq(S)
  BY <1>3, <1>5, SeqMonotonic, OneType DEF S
<1>7. PICK w : w = n \o <<Equals>>
  OBVIOUS
<1>8. w \in Seq(S) /\ Len(w) = Len(n) + 1
  BY <1>6, <1>7, ConcatProperties
<1>9. w \o v \in Seq(S) /\ Len(w \o v) = Len(n) + 1 + Len(v)
  <2>1. PICK z : z = w \o v
    OBVIOUS
  <2>2. z \in Seq(S) /\ Len(z) = Len(w) + Len(v)
    BY <1>6, <1>8, <2>1, ConcatParts
  <2> QED
    BY <1>8, <2>1, <2>2
<1>10. Len(n) \in Nat /\ Len(v) \in Nat
  BY <1>6, LenProperties
<1>11. Item(p) \in Seq(S) /\ Len(Item(p)) >= 1
  BY <1>4, <1>7, <1>9, <1>10
<1> QED
  BY <1>5, <1>11, SeqMonotonic DEF S

\* Whatever follows it, the name of a parameter is read as it was meant, and its
\* value to its end, where it stops if nothing follows.
LEMMA ItemParam ==
  ASSUME NEW p \in Text \X Text, NEW r \in Seq(Byte), NEW x, x = Item(p) \o r
  PROVE  /\ At(x, Equals) # {}
         /\ Param(x)[1] = p[1]
         /\ Begins(Param(x)[2], p[2])
         /\ r = <<>> => Param(x) = p
<1>1. PICK a, b : p = <<a, b>> /\ a \in Text /\ b \in Text
  OBVIOUS
<1>2. PICK n, v : n = UrlEncode(a, TRUE) /\ v = UrlEncode(b, TRUE)
  OBVIOUS
<1>3. /\ n \in Seq(Plain) /\ v \in Seq(Plain)
      /\ UrlDecode(n, TRUE) = a /\ UrlDecode(v, TRUE) = b
  BY <1>1, <1>2, RoundTrip DEF Text
<1>4. Plain \subseteq Byte /\ Equals \in Byte /\ Equals \notin Plain
  BY DEF Plain, Byte, Equals
<1>5. n \in Seq(Byte) /\ v \in Seq(Byte) /\ <<Equals>> \in Seq(Byte) /\ Len(n) \in Nat
  BY <1>3, <1>4, SeqMonotonic, OneType, LenProperties
<1>6. x = ((n \o <<Equals>>) \o v) \o r
  BY <1>1, <1>2 DEF Item
<1>7. PICK w \in Seq(Byte) : w = v \o r
  BY <1>5, ConcatProperties
<1>8. PICK y \in Seq(Byte) : y = n \o <<Equals>>
  BY <1>5, ConcatProperties
<1>9. x = y \o w
  BY <1>5, <1>6, <1>7, <1>8, ConcatAssociative
<1>10. PICK l \in Nat : l = Len(n)
  BY <1>5
<1>11. PICK e \in Seq(Byte) : e = <<Equals>> \o w
  BY <1>5, ConcatProperties
<1>12. /\ x \in Seq(Byte) /\ l + 1 \in 1 .. Len(x) /\ x[l + 1] = Equals
       /\ \A k \in 1 .. l : x[k] = n[k]
       /\ SubSeq(x, 1, l) = n
       /\ SubSeq(x, l + 2, Len(x)) = w
  <2>1. x = n \o e
    BY <1>5, <1>8, <1>9, <1>11, ConcatAssociative
  <2>2. /\ x \in Seq(Byte) /\ Len(x) = l + Len(e) /\ Len(e) \in Nat
        /\ \A k \in 1 .. l : x[k] = n[k]
        /\ \A k \in 1 .. Len(e) : x[l + k] = e[k]
        /\ SubSeq(x, 1, l) = n
    BY <1>5, <1>10, <2>1, ConcatParts
  <2>3. Len(<<Equals>>) = 1 /\ <<Equals>>[1] = Equals /\ 1 \in 1 .. 1
    OBVIOUS
  <2>4. Len(e) = 1 + Len(w) /\ Len(w) \in Nat /\ e[1] = Equals
    BY <1>5, <1>11, <2>3, ConcatParts
  <2>5. 1 \in 1 .. Len(e) /\ l + 1 \in 1 .. Len(x)
    BY <2>2, <2>4
  <2>6. Len(y) = l + 1
    BY <1>5, <1>8, <1>10, <2>3, ConcatParts
  <2>7. SubSeq(x, Len(y) + 1, Len(x)) = w
    BY <1>9, ConcatParts
  <2>8. Len(y) + 1 = l + 2
    BY <2>6
  <2> QED
    BY <2>2, <2>4, <2>5, <2>7, <2>8
<1>13. l + 1 \in At(x, Equals) /\ \A k \in At(x, Equals) : l + 1 <= k /\ k \in Nat
  <2>1. l + 1 \in At(x, Equals)
    BY <1>12 DEF At
  <2>2. ASSUME NEW k \in At(x, Equals) PROVE l + 1 <= k /\ k \in Nat
    <3>1. k \in 1 .. Len(x) /\ x[k] = Equals
      BY DEF At
    <3>2. ASSUME k <= l PROVE FALSE
      <4>1. k \in 1 .. Len(n) /\ n[k] = Equals
        BY <1>10, <1>12, <3>1, <3>2
      <4>2. n[k] \in Plain
        BY <1>3, <4>1, ElementOfSeq
      <4> QED
        BY <1>4, <4>1, <4>2
    <3> QED
      BY <3>1, <3>2
  <2> QED
    BY <2>1, <2>2
<1>14. Min(At(x, Equals)) = l + 1
  <2>1. At(x, Equals) \in SUBSET Nat
    BY <1>13
  <2>2. PICK m : m = l + 1
    OBVIOUS
  <2> QED
    BY <1>13, <2>1, <2>2, MinIs
<1>15. SubSeq(x, 1, l + 1 - 1) = n
  <2>1. l + 1 - 1 = l
    OBVIOUS
  <2> QED
    BY <1>12, <2>1
<1>16. SubSeq(x, l + 1 + 1, Len(x)) = w
  <2>1. l + 1 + 1 = l + 2
    OBVIOUS
  <2> QED
    BY <1>12, <2>1
<1>17. Param(x) = <<a, UrlDecode(w, TRUE)>>
  <2>1. Param(x) = <<UrlDecode(SubSeq(x, 1, l + 1 - 1), TRUE),
                     UrlDecode(SubSeq(x, l + 1 + 1, Len(x)), TRUE)>>
    <3>1. PICK m : m = Min(At(x, Equals))
      OBVIOUS
    <3>2. Param(x) = <<UrlDecode(SubSeq(x, 1, m - 1), TRUE),
                       UrlDecode(SubSeq(x, m + 1, Len(x)), TRUE)>>
      BY <3>1, Zenon DEF Param
    <3> QED
      BY <1>14, <3>1, <3>2
  <2> QED
    BY <1>3, <1>15, <1>16, <2>1
<1>18. r = <<>> => w = v
  BY <1>5, <1>7, ConcatEmptySeq
<1>19. Param(x)[1] = a
  BY <1>17
<1>20. Begins(UrlDecode(w, TRUE), b)
  <2>1. EncodedThen(w, b, r)
    BY <1>2, <1>7 DEF EncodedThen
  <2>2. b \in Seq(0 .. 127)
    BY <1>1 DEF Text
  <2>3. r \in Seq(Byte) /\ w \in Seq(Byte)
    BY <1>7
  <2> QED
    BY <2>1, <2>2, <2>3, DecodedBegins
<1>21. Begins(Param(x)[2], p[2])
  <2>1. Param(x)[2] = UrlDecode(w, TRUE)
    BY <1>17
  <2>2. p[2] = b
    BY <1>1
  <2> QED
    BY <1>20, <2>1, <2>2
<1>22. r = <<>> => Param(x) = <<a, b>>
  BY <1>3, <1>17, <1>18
<1>23. p[1] = a
  BY <1>1
<1> QED
  BY <1>1, <1>13, <1>19, <1>22, <1>23, <1>21

\* The query from each of its parameters on.
QueryFrom(ps) ==
    LET from[i \in 1 .. Len(ps) + 1] ==
            IF i > Len(ps) THEN <<>>
            ELSE (IF i = 1 THEN <<>> ELSE <<Amp>>) \o Item(ps[i]) \o from[i + 1]
    IN  from

\* Query starts with the first parameter.
LEMMA QueryFirst == ASSUME NEW ps PROVE Query(ps) = QueryFrom(ps)[1]
BY DEF Query, QueryFrom, Item

\* f composes the query of ps: its parameters with '&' between them.
Composes(f, ps) ==
    /\ f[Len(ps) + 1] = <<>>
    /\ \A i \in 1 .. Len(ps) + 1 : f[i] \in Seq(Byte)
    /\ \A i \in 2 .. Len(ps) : f[i] = <<Amp>> \o (Item(ps[i]) \o f[i + 1])
    /\ f[1] = Item(ps[1]) \o f[2]

\* The query is composed of its parameters.
LEMMA QueryStep ==
  ASSUME NEW ps \in Seq(Text \X Text), ps # <<>>
  PROVE  Composes(QueryFrom(ps), ps)
<1> DEFINE N == Len(ps) + 1
           C == 1 .. Len(ps)
           next == [i \in 1 .. N |-> i + 1]
           A == [i \in 1 .. N |-> (IF i = 1 THEN <<>> ELSE <<Amp>>) \o Item(ps[i])]
           body(f, i) ==
            IF i > Len(ps) THEN <<>>
            ELSE (IF i = 1 THEN <<>> ELSE <<Amp>>) \o Item(ps[i]) \o f[i + 1]
           Is(f) == f = [i \in 1 .. N |-> body(f, i)]
<1>0. Len(ps) \in Nat /\ N \in Nat /\ Len(ps) >= 1
  <2>1. Len(ps) # 0
    BY EmptySeq
  <2> QED
    BY <2>1
<1>1. \A i \in 1 .. N : i \in C => next[i] \in i + 1 .. N
  OBVIOUS
<1>2. PICK f : Walks(f, N, C, next, A)
  <2> HIDE DEF N, C, next, A
  <2> QED
    BY <1>0, <1>1, WalkExists
<1>3. ASSUME NEW i \in 1 .. N PROVE f[i] = body(f, i)
  <2>1. /\ i \in C => f[i] = A[i] \o f[next[i]]
        /\ i \notin C => f[i] = <<>>
    BY <1>2 DEF Walks
  <2>2. A[i] = (IF i = 1 THEN <<>> ELSE <<Amp>>) \o Item(ps[i]) /\ next[i] = i + 1
    OBVIOUS
  <2>3. i \notin C <=> i > Len(ps)
    OBVIOUS
  <2> HIDE DEF C, A, next
  <2> QED
    BY <2>1, <2>2, <2>3
<1>4. Is(f)
  <2>1. f = [i \in 1 .. N |-> f[i]]
    BY <1>2 DEF Walks
  <2> HIDE DEF N, body
  <2> QED
    BY <1>3, <2>1
<1>5. QueryFrom(ps) = CHOOSE g : Is(g)
  BY DEF QueryFrom
<1>6. PICK g : g = QueryFrom(ps) /\ Is(g)
  <2> HIDE DEF Is
  <2> QED
    BY <1>4, <1>5
<1>7. \A i \in 1 .. N : g[i] = body(g, i)
  <2>1. g = [i \in 1 .. N |-> body(g, i)]
    BY <1>6
  <2> HIDE DEF body, N
  <2> QED
    BY <2>1
<1>8. g[N] = <<>>
  <2>1. N \in 1 .. N /\ N > Len(ps)
    BY <1>0
  <2> QED
    BY <1>7, <2>1
<1>9. ASSUME NEW i \in 1 .. Len(ps), g[i + 1] \in Seq(Byte)
      PROVE  /\ g[i] \in Seq(Byte)
             /\ i = 1 => g[i] = Item(ps[i]) \o g[i + 1]
             /\ i # 1 => g[i] = <<Amp>> \o (Item(ps[i]) \o g[i + 1])
  <2>0. PICK it, r, sep : /\ it = Item(ps[i]) /\ r = g[i + 1]
                          /\ sep = IF i = 1 THEN <<>> ELSE <<Amp>>
    OBVIOUS
  <2>a. r \in Seq(Byte)
    BY <1>9, <2>0
  <2>1. PICK p \in Text \X Text : p = ps[i]
    BY ElementOfSeq
  <2>2. it \in Seq(Byte)
    BY <2>0, <2>1, ItemType
  <2>3. it \o r \in Seq(Byte)
    BY <2>a, <2>2, ConcatProperties
  <2>4. Amp \in Byte
    BY DEF Amp, Byte
  <2>5. g[i] = (sep \o it) \o r
    <3>1. i \in 1 .. N /\ ~(i > Len(ps))
      BY <1>0
    <3>2. g[i] = body(g, i)
      BY <1>7, <3>1
    <3>3. body(g, i) = (sep \o Item(ps[i])) \o g[i + 1]
      BY <2>0, <3>1
    <3> HIDE DEF body
    <3> QED
      BY <2>0, <3>2, <3>3
  <2>6. CASE i = 1
    <3>1. g[i] = (<<>> \o it) \o r
      BY <2>0, <2>5, <2>6
    <3>2. g[i] = it \o r
      BY <2>2, <3>1, ConcatEmptySeq
    <3> QED
      BY <2>0, <2>3, <2>6, <3>2
  <2>7. CASE i # 1
    <3>1. g[i] = (<<Amp>> \o it) \o r
      BY <2>0, <2>5, <2>7
    <3>2. g[i] = <<Amp>> \o (it \o r)
      BY <2>a, <2>2, <2>4, <3>1, RegroupOne
    <3>3. g[i] \in Seq(Byte)
      <4>1. PICK w : w = it \o r
        OBVIOUS
      <4>2. <<Amp>> \in Seq(Byte)
        BY <2>4, OneType
      <4> QED
        BY <2>3, <3>2, <4>1, <4>2, ConcatProperties
    <3> QED
      BY <2>0, <2>7, <3>2, <3>3
  <2> QED
    BY <2>6, <2>7
<1>10. \A i \in 1 .. N : g[i] \in Seq(Byte)
  <2> DEFINE Q == {i \in 1 .. N : g[i] \in Seq(Byte)}
  <2>1. ASSUME NEW i \in 1 .. N, \A k \in i + 1 .. N : k \in Q PROVE i \in Q
    <3>1. CASE i = N
      <4>1. <<>> \in Seq(Byte)
        OBVIOUS
      <4> QED
        BY <1>8, <3>1, <4>1
    <3>2. CASE i # N
      <4>1. i \in 1 .. Len(ps) /\ i + 1 \in i + 1 .. N
        BY <1>0, <3>2
      <4>2. g[i + 1] \in Seq(Byte)
        BY <2>1, <4>1
      <4>4. g[i] \in Seq(Byte)
        BY <1>9, <4>1, <4>2
      <4> QED
        BY <4>4
    <3> QED
      BY <3>1, <3>2
  <2>2. \A i \in 1 .. N : i \in Q
    <3> HIDE DEF Q, N
    <3> QED
      BY <1>0, <2>1, DownInduction
  <2> QED
    BY <2>2
<1>11. ASSUME NEW i \in 1 .. Len(ps)
       PROVE  /\ i = 1 => g[i] = Item(ps[i]) \o g[i + 1]
              /\ i # 1 => g[i] = <<Amp>> \o (Item(ps[i]) \o g[i + 1])
  <2>1. i + 1 \in 1 .. N
    BY <1>0
  <2> QED
    BY <1>9, <1>10, <2>1
<1>12. g[1] = Item(ps[1]) \o g[2]
  <2>1. 1 \in 1 .. Len(ps) /\ 1 + 1 = 2
    BY <1>0
  <2> QED
    BY <1>11, <2>1
<1>13. ASSUME NEW i \in 2 .. Len(ps) PROVE g[i] = <<Amp>> \o (Item(ps[i]) \o g[i + 1])
  <2>1. i \in 1 .. Len(ps) /\ i # 1
    OBVIOUS
  <2> QED
    BY <1>11, <2>1
<1> QED
  <2>1. Composes(g, ps)
    BY <1>8, <1>10, <1>12, <1>13 DEF Composes
  <2> QED
    BY <1>6, <2>1

\* The piece x has the name that was meant, and its value begins as it was meant.
SaysOf(x, p) ==
    At(x, Equals) # {} /\ Param(x)[1] = p[1] /\ Begins(Param(x)[2], p[2])

\* The pieces t of a query say what the parameters of ps from k on were meant to say,
\* the last one nothing else, nor the first one if it is exact.
Says(t, ps, k, exact) ==
    /\ t \in Seq(Seq(Byte)) /\ Len(t) = Len(ps) + 1 - k
    /\ \A l \in k .. Len(ps) : SaysOf(t[l - k + 1], ps[l])
    /\ Param(t[Len(t)]) = ps[Len(ps)]
    /\ exact => Param(t[1]) = ps[k]

\* One more piece in front.
LEMMA SaysMore ==
  ASSUME NEW ps \in Seq(Text \X Text), NEW k \in 1 .. Len(ps) - 1,
         NEW x \in Seq(Byte), NEW t, Says(t, ps, k + 1, FALSE),
         SaysOf(x, ps[k]),
         NEW exact \in BOOLEAN, exact => Param(x) = ps[k]
  PROVE  Says(<<x>> \o t, ps, k, exact)
<1>0. k \in Nat /\ Len(ps) \in Nat /\ k + 1 <= Len(ps)
  OBVIOUS
<1>1. /\ t \in Seq(Seq(Byte)) /\ Len(t) = Len(ps) + 1 - (k + 1)
      /\ \A l \in k + 1 .. Len(ps) : SaysOf(t[l - (k + 1) + 1], ps[l])
      /\ Param(t[Len(t)]) = ps[Len(ps)]
  BY DEF Says
<1>2. PICK y : y = <<x>> \o t
  OBVIOUS
<1>3. <<x>> \in Seq(Seq(Byte)) /\ Len(<<x>>) = 1 /\ <<x>>[1] = x
  BY OneType
<1>4. /\ y \in Seq(Seq(Byte)) /\ Len(y) = 1 + Len(t) /\ Len(t) \in Nat
      /\ y[1] = x
      /\ \A m \in 1 .. Len(t) : y[1 + m] = t[m]
  BY <1>1, <1>2, <1>3, ConcatParts
<1>5. Len(y) = Len(ps) + 1 - k
  BY <1>0, <1>1, <1>4
<1>6. ASSUME NEW l \in k .. Len(ps)
      PROVE  SaysOf(y[l - k + 1], ps[l])
  <2>1. CASE l = k
    <3>1. l - k + 1 = 1
      BY <1>0, <2>1
    <3> QED
      BY <1>4, <2>1, <3>1
  <2>2. CASE l # k
    <3>1. PICK m : m = l - (k + 1) + 1
      OBVIOUS
    <3>2. l \in k + 1 .. Len(ps) /\ m \in 1 .. Len(t) /\ l - k + 1 = 1 + m
      BY <1>0, <1>1, <2>2, <3>1
    <3>3. SaysOf(t[m], ps[l])
      BY <1>1, <3>1, <3>2
    <3>4. y[1 + m] = t[m]
      BY <1>4, <3>2
    <3> QED
      BY <3>2, <3>3, <3>4
  <2> QED
    BY <2>1, <2>2
<1>7. Param(y[Len(y)]) = ps[Len(ps)]
  <2>1. Len(t) \in 1 .. Len(t)
    BY <1>0, <1>1
  <2>2. y[1 + Len(t)] = t[Len(t)]
    BY <1>4, <2>1
  <2> QED
    BY <1>1, <1>4, <2>2
<1> QED
  BY <1>2, <1>4, <1>5, <1>6, <1>7 DEF Says

\* The only piece left.
LEMMA SaysLast ==
  ASSUME NEW ps \in Seq(Text \X Text), ps # <<>>, NEW x \in Seq(Byte),
         SaysOf(x, ps[Len(ps)]), Param(x) = ps[Len(ps)], NEW exact \in BOOLEAN
  PROVE  Says(<<x>>, ps, Len(ps), exact)
<1>1. PICK n \in Nat : n = Len(ps)
  OBVIOUS
<1>2. <<x>> \in Seq(Seq(Byte)) /\ Len(<<x>>) = 1 /\ <<x>>[1] = x
  BY OneType
<1>3. PICK y : y = <<x>>
  OBVIOUS
<1>4. ASSUME NEW l \in n .. n
      PROVE  SaysOf(y[l - n + 1], ps[l])
  <2>1. l = n /\ l - n + 1 = 1
    OBVIOUS
  <2> QED
    BY <1>1, <1>2, <1>3, <2>1
<1>5. n + 1 - n = 1
  OBVIOUS
<1> QED
  BY <1>1, <1>2, <1>3, <1>4, <1>5 DEF Says

\* ParseHttpLine finds in a query the parameters that were meant.
LEMMA QuerySays ==
  ASSUME NEW ps \in Seq(Text \X Text), ps # <<>>, NEW q \in Seq(Byte), q = Query(ps)
  PROVE  Says(Split(q, Amp), ps, 1, TRUE)
<1>0. Len(ps) \in Nat /\ Len(ps) >= 1
  <2>1. Len(ps) # 0
    BY EmptySeq
  <2> QED
    BY <2>1
<1>1. PICK f, s : f = QueryFrom(ps) /\ s = SplitFrom(q, Amp)
  OBVIOUS
<1>2. Composes(f, ps) /\ q = f[1]
  BY <1>1, QueryStep, QueryFirst
<1>3. \A i \in 1 .. Len(q) + 1 : Cuts(s, q, Amp, i)
  BY <1>1, SplitStep
<1>4. Len(q) \in Nat
  OBVIOUS
<1> DEFINE N == Len(ps)
           P == {k \in 1 .. N : \A j \in 1 .. Len(q) :
                    SubSeq(q, j, Len(q)) = Item(ps[k]) \o f[k + 1] => Says(s[j], ps, k, j = 1)}
<1>5. ASSUME NEW k \in 1 .. N, \A l \in k + 1 .. N : l \in P,
             NEW j \in 1 .. Len(q), SubSeq(q, j, Len(q)) = Item(ps[k]) \o f[k + 1]
      PROVE  Says(s[j], ps, k, j = 1)
  <2>0. k \in Nat /\ j \in Nat /\ N \in Nat
    BY <1>0
  <2>1. PICK p \in Text \X Text : p = ps[k]
    BY ElementOfSeq
  <2>2. PICK it : it = Item(p)
    OBVIOUS
  <2>3. it \in Seq(Byte \ {Amp}) /\ it \in Seq(Byte) /\ Len(it) >= 1
    BY <2>2, ItemType
  <2>4. PICK r \in Seq(Byte) : r = f[k + 1]
    BY <1>2, <2>0 DEF Composes
  <2>5. /\ Len(q) + 1 = j + Len(it) + Len(r)
        /\ SubSeq(q, j + Len(it), Len(q)) = r
        /\ \A l \in 1 .. Len(it) : q[j + l - 1] = it[l]
    <3>1. j \in 1 .. Len(q) + 1
      BY <2>0
    <3>2. SubSeq(q, j, Len(q)) = it \o r
      BY <1>5, <2>1, <2>2, <2>4
    <3> QED
      BY <2>3, <3>1, <3>2, SuffixSplits
  <2>6. PICK m \in Nat : m = j + Len(it)
    BY <2>0, <2>3
  <2>7. \A l \in j .. m - 1 : q[l] # Amp
    <3> SUFFICES ASSUME NEW l \in j .. m - 1 PROVE q[l] # Amp
      OBVIOUS
    <3>1. PICK i : i = l - j + 1
      OBVIOUS
    <3>2. i \in 1 .. Len(it) /\ j + i - 1 = l
      BY <2>0, <2>3, <2>6, <3>1
    <3>3. it[i] \in Byte \ {Amp}
      BY <2>3, <3>2, ElementOfSeq
    <3>4. q[j + i - 1] = it[i]
      BY <2>5, <3>2
    <3> QED
      BY <3>2, <3>3, <3>4
  <2>8. Len(it) \in Nat /\ Len(r) \in Nat /\ j <= m - 1
    BY <2>0, <2>3, <2>4, <2>6
  <2>9. j \in 1 .. Len(q) + 1
    BY <2>0
  <2>10. Cuts(s, q, Amp, j)
    BY <1>3, <2>9
  <2>11. (j = 1) \in BOOLEAN
    OBVIOUS
  <2>12. CASE k = N
    <3>1. r = <<>>
      BY <1>2, <2>4, <2>12 DEF Composes
    <3>2. PICK x \in Seq(Byte) : x = SubSeq(q, j, Len(q))
      <4>1. j \in Nat \ {0} /\ Len(q) \in 0 .. Len(q)
        BY <1>4, <2>0
      <4> QED
        BY <4>1, PartType
    <3>3. x = it \o r
      BY <1>5, <2>1, <2>2, <2>4, <3>2
    <3>4. SaysOf(x, p) /\ Param(x) = p
      BY <2>2, <3>1, <3>3, ItemParam DEF SaysOf
    <3>5. m - 1 = Len(q)
      <4>1. Len(r) = 0
        BY <3>1
      <4> QED
        BY <1>4, <2>0, <2>5, <2>6, <4>1
    <3>6. s[j] = <<x>>
      <4>1. j <= Len(q) /\ \A l \in j .. Len(q) : q[l] # Amp
        BY <2>0, <2>7, <3>5
      <4> QED
        BY <2>10, <3>2, <4>1 DEF Cuts
    <3>7. Says(<<x>>, ps, N, j = 1)
      BY <2>1, <2>11, <2>12, <3>4, SaysLast
    <3> QED
      BY <2>12, <3>6, <3>7
  <2>13. CASE k # N
    <3>1. k + 1 \in 2 .. N /\ k \in 1 .. Len(ps) - 1
      BY <2>0, <2>13
    <3>2. PICK p2 \in Text \X Text : p2 = ps[k + 1]
      BY <3>1, ElementOfSeq
    <3>3. PICK it2 \in Seq(Byte) : it2 = Item(p2) /\ Len(it2) >= 1
      BY ItemType
    <3>4. PICK r2 \in Seq(Byte) : r2 = f[k + 1 + 1]
      BY <1>2, <3>1 DEF Composes
    <3>5. PICK c \in Seq(Byte) : c = it2 \o r2 /\ Len(c) = Len(it2) + Len(r2)
      BY ConcatProperties
    <3>6. r = <<Amp>> \o c
      BY <1>2, <2>4, <3>1, <3>2, <3>3, <3>4, <3>5 DEF Composes
    <3>7. Len(c) \in Nat /\ Len(c) >= 1
      BY <3>3, <3>4, <3>5
    <3>8. <<Amp>> \in Seq(Byte) /\ Len(<<Amp>>) = 1 /\ <<Amp>>[1] = Amp
      <4>1. Amp \in Byte
        BY DEF Amp, Byte
      <4> QED
        BY <4>1, OneType
    <3>9. m \in j + 1 .. Len(q) /\ m \in 1 .. Len(q) + 1 /\ m + 1 \in 1 .. Len(q)
      <4>1. Len(r) = 1 + Len(c)
        BY <3>6, <3>8, ConcatParts
      <4> QED
        BY <1>4, <2>0, <2>5, <2>6, <2>8, <3>7, <4>1
    <3>10. q[m] = Amp /\ SubSeq(q, m + 1, Len(q)) = c
      <4>1. SubSeq(q, m, Len(q)) = <<Amp>> \o c
        BY <2>5, <2>6, <3>6
      <4>2. /\ SubSeq(q, m + Len(<<Amp>>), Len(q)) = c
            /\ \A l \in 1 .. Len(<<Amp>>) : q[m + l - 1] = <<Amp>>[l]
        <5>1. PICK a : a = <<Amp>>
          OBVIOUS
        <5>2. a \in Seq(Byte) /\ SubSeq(q, m, Len(q)) = a \o c
          BY <3>8, <4>1, <5>1
        <5>3. /\ Len(q) + 1 = m + Len(a) + Len(c)
              /\ SubSeq(q, m + Len(a), Len(q)) = c
              /\ \A l \in 1 .. Len(a) : q[m + l - 1] = a[l]
          <6>1. PICK m2 \in 1 .. Len(q) + 1 : m2 = m
            BY <3>9
          <6>2. SubSeq(q, m2, Len(q)) = a \o c
            BY <5>2, <6>1
          <6>3. /\ Len(q) + 1 = m2 + Len(a) + Len(c)
                /\ SubSeq(q, m2 + Len(a), Len(q)) = c
                /\ \A l \in 1 .. Len(a) : q[m2 + l - 1] = a[l]
            <7>1. a \in Seq(Byte) /\ c \in Seq(Byte)
              BY <3>5, <5>2
            <7> HIDE DEF P, N
            <7> QED
              BY <6>2, <7>1, SuffixSplits, Zenon
          <6> QED
            BY <6>1, <6>3
        <5> QED
          BY <5>1, <5>3
      <4>3. m + 1 - 1 = m /\ 1 \in 1 .. 1
        OBVIOUS
      <4> QED
        BY <3>8, <4>2, <4>3
    <3>11. PICK e \in Nat : e = EndOf(q, j, m)
      <4>1. EndOf(q, j, m) \in Nat
        BY <1>4, <2>0, <3>9 DEF EndOf
      <4> QED
        BY <4>1
    <3>12. e \in m - 1 .. Len(q) /\ (j = 1 => e = m - 1)
      BY <1>4, <2>0, <3>9, <3>11 DEF EndOf
    <3>13. PICK x : x = SubSeq(q, j, e)
      OBVIOUS
    <3>14. s[j] = <<x>> \o s[m + 1]
      <4>1. j <= Len(q)
        BY <2>0
      <4> QED
        BY <2>7, <2>10, <3>9, <3>10, <3>11, <3>13, <4>1 DEF Cuts
    <3>15. Says(s[m + 1], ps, k + 1, FALSE)
      <4>1. k + 1 \in P /\ m + 1 # 1
        <5>1. k + 1 \in k + 1 .. N /\ m + 1 # 1
          BY <2>0, <2>6, <3>1, <3>9
        <5> HIDE DEF P, N
        <5> QED
          BY <1>5, <5>1
      <4>2. PICK j2 : j2 = m + 1
        OBVIOUS
      <4>3. PICK k2 : k2 = k + 1
        OBVIOUS
      <4>4. SubSeq(q, j2, Len(q)) = Item(ps[k2]) \o f[k2 + 1]
        BY <3>2, <3>3, <3>4, <3>5, <3>10, <4>2, <4>3
      <4>5. k2 \in P /\ j2 \in 1 .. Len(q)
        BY <3>9, <4>1, <4>2, <4>3
      <4>6. Says(s[j2], ps, k2, j2 = 1)
        BY <4>4, <4>5
      <4>7. (j2 = 1) = FALSE
        BY <4>1, <4>2
      <4> QED
        BY <4>2, <4>3, <4>6, <4>7
    <3>16. PICK z : z = SubSeq(q, m, e)
      OBVIOUS
    <3>17. z \in Seq(Byte) /\ (j = 1 => z = <<>>)
      <4>1. m \in Nat \ {0} /\ e \in 0 .. Len(q)
        BY <2>0, <3>9, <3>12
      <4>2. z \in Seq(Byte)
        BY <3>16, <4>1, PartType
      <4>3. ASSUME j = 1 PROVE z = <<>>
        <5>1. m \in Int /\ e \in Int /\ e < m
          BY <2>0, <3>12, <4>1, <4>3
        <5> QED
          BY <3>16, <5>1, SubSeqEmpty
      <4> QED
        BY <4>2, <4>3
    <3>18. x = it \o z
      <4>1. PICK y : y = SubSeq(q, j, m - 1)
        OBVIOUS
      <4>2. m \in j .. Len(q) + 1 /\ m - 1 \in 0 .. Len(q) /\ j \in Nat \ {0}
        BY <2>0, <3>9
      <4>3. y \in Seq(Byte)
        BY <4>1, <4>2, PartType
      <4>4. Len(y) = Len(it) /\ \A l \in 1 .. Len(it) : y[l] = q[j + l - 1]
        <5>1. m - 1 - j + 1 = Len(it) /\ j <= m - 1
          BY <2>0, <2>6, <2>8
        <5>2. PICK a \in Nat : a = m - 1
          BY <4>2
        <5>3. Len(SubSeq(q, j, a)) = a - j + 1 /\ \A l \in 1 .. a - j + 1 : SubSeq(q, j, a)[l] = q[j + l - 1]
          BY <2>9, <4>2, <5>1, <5>2
        <5> QED
          BY <4>1, <5>1, <5>2, <5>3
      <4>5. \A l \in 1 .. Len(y) : y[l] = it[l]
        BY <2>5, <4>4
      <4>6. y = it
        BY <2>3, <4>3, <4>4, <4>5, SeqEqual
      <4>7. SubSeq(q, j, m - 1) \o SubSeq(q, m, e) = SubSeq(q, j, e)
        BY <2>9, <3>12, <4>2, Adjoin
      <4> QED
        BY <3>13, <3>16, <4>1, <4>6, <4>7
    <3>19. /\ x \in Seq(Byte) /\ SaysOf(x, p)
           /\ j = 1 => Param(x) = p
      <4>1. x \in Seq(Byte)
        BY <2>3, <3>17, <3>18, ConcatProperties
      <4>2. SaysOf(x, p) /\ (z = <<>> => Param(x) = p)
        BY <2>2, <3>17, <3>18, ItemParam DEF SaysOf
      <4> QED
        BY <3>17, <4>1, <4>2
    <3>20. PICK t : t = s[m + 1]
      OBVIOUS
    <3>21. Says(<<x>> \o t, ps, k, j = 1)
      BY <2>1, <2>11, <3>1, <3>15, <3>19, <3>20, SaysMore
    <3> QED
      BY <3>14, <3>20, <3>21
  <2> QED
    BY <2>12, <2>13
<1>6. \A k \in 1 .. N : k \in P
  <2>1. \A k \in 1 .. N : (\A l \in k + 1 .. N : l \in P) => k \in P
    BY <1>5
  <2> HIDE DEF P, N
  <2>2. N \in Nat
    BY <1>0 DEF N
  <2> QED
    BY <2>1, <2>2, DownInduction
<1>7. 1 \in P
  <2>1. 1 \in 1 .. N
    BY <1>0
  <2> HIDE DEF P, N
  <2> QED
    BY <1>6, <2>1
<1>8. SubSeq(q, 1, Len(q)) = Item(ps[1]) \o f[1 + 1]
  <2>1. 1 + 1 = 2
    OBVIOUS
  <2> QED
    BY <1>2, <2>1, SubSeqFull DEF Composes
<1>9. 1 \in 1 .. Len(q)
  <2>1. PICK p \in Text \X Text : p = ps[1]
    BY <1>0, ElementOfSeq
  <2>2. PICK it \in Seq(Byte) : it = Item(p) /\ Len(it) >= 1
    BY ItemType
  <2>3. PICK r \in Seq(Byte) : r = f[2]
    <3>1. 2 \in 1 .. Len(ps) + 1
      BY <1>0
    <3> QED
      BY <1>2, <3>1 DEF Composes
  <2>4. q = it \o r
    BY <1>2, <2>1, <2>2, <2>3 DEF Composes
  <2>5. Len(q) = Len(it) + Len(r) /\ Len(it) \in Nat /\ Len(r) \in Nat
    BY <2>4, ConcatParts
  <2> QED
    BY <2>2, <2>5
<1>10. Says(s[1], ps, 1, 1 = 1)
  BY <1>7, <1>8, <1>9
<1>11. (1 = 1) = TRUE
  OBVIOUS
<1>12. Split(q, Amp) = s[1]
  BY <1>1, SplitFirst
<1> QED
  BY <1>10, <1>11, <1>12

-----------------------------------------------------------------------------
\* The headers that a response may have, and their values.
Field == {"Content-Type", "Content-Length", "Connection"}
Type == {"text/plain", "text/html", "application/octet-stream"}
Value == {"keep-alive", "close"} \cup Type \cup Nat \cup {Extension(p) : p \in Seq(Byte)}
Headers == UNION {[D -> Value] : D \in SUBSET Field}

\* A response, whole or in work.
Response == [status : {200, 400, 404}, body : Seq(Content), headers : Headers]

\* insert adds a name that was not there and changes nothing else.
LEMMA InsertIs ==
  ASSUME NEW f, NEW k, NEW v
  PROVE  /\ DOMAIN Insert(f, k, v) = DOMAIN f \cup {k}
         /\ \A x \in DOMAIN f : Insert(f, k, v)[x] = f[x]
         /\ k \notin DOMAIN f => Insert(f, k, v)[k] = v
         /\ k \in DOMAIN f => Insert(f, k, v) = f
BY DEF Insert

\* insert leaves headers.
LEMMA InsertType ==
  ASSUME NEW h \in Headers, NEW k \in Field, NEW v \in Value
  PROVE  Insert(h, k, v) \in Headers
<1>1. PICK D \in SUBSET Field : h \in [D -> Value]
  BY DEF Headers
<1>2. Insert(h, k, v) \in [D \cup {k} -> Value]
  BY <1>1 DEF Insert
<1>3. D \cup {k} \in SUBSET Field
  OBVIOUS
<1> QED
  BY <1>2, <1>3 DEF Headers

\* SetHeader changes the headers and leaves a response.
LEMMA SetHeaderType ==
  ASSUME NEW r \in Response, NEW k \in Field, NEW v \in Value
  PROVE  /\ SetHeader(r, k, v) \in Response
         /\ SetHeader(r, k, v) = [status |-> r.status, body |-> r.body,
                                  headers |-> Insert(r.headers, k, v)]
<1>1. PICK h : h = Insert(r.headers, k, v)
  OBVIOUS
<1>2. h \in Headers
  BY <1>1, InsertType DEF Response
<1>3. SetHeader(r, k, v) = [r EXCEPT !.headers = h]
  BY <1>1 DEF SetHeader
<1> QED
  BY <1>1, <1>2, <1>3 DEF Response

\* SetContent sets the body and its type and leaves a response.
LEMMA SetContentType ==
  ASSUME NEW r \in Response, NEW b \in Seq(Content), NEW t \in Type
  PROVE  /\ SetContent(r, b, t) \in Response
         /\ SetContent(r, b, t).body = b /\ SetContent(r, b, t).status = r.status
         /\ SetContent(r, b, t).headers = Insert(r.headers, "Content-Type", t)
<1>1. PICK q : q = [r EXCEPT !.body = b]
  OBVIOUS
<1>2. q \in Response /\ q.status = r.status /\ q.body = b /\ q.headers = r.headers
  BY <1>1 DEF Response
<1>3. SetContent(r, b, t) = SetHeader(q, "Content-Type", t)
  BY <1>1 DEF SetContent
<1>4. "Content-Type" \in Field /\ t \in Value
  BY DEF Field, Value
<1>5. PICK c : c = SetHeader(q, "Content-Type", t)
  OBVIOUS
<1>6. c \in Response /\ c = [status |-> q.status, body |-> q.body, headers |-> Insert(q.headers, "Content-Type", t)]
  BY <1>2, <1>4, <1>5, SetHeaderType
<1>7. c.body = q.body /\ c.status = q.status /\ c.headers = Insert(q.headers, "Content-Type", t)
  BY <1>6
<1> QED
  BY <1>2, <1>3, <1>5, <1>6, <1>7

\* What WriteResponse makes of a response that does not announce its length yet.
LEMMA CompleteType ==
  ASSUME NEW r \in Response
  PROVE  /\ Complete(r) \in Response
         /\ Complete(r).body = r.body
         /\ "Content-Length" \notin DOMAIN r.headers =>
               /\ r.body = <<>> <=> "Content-Length" \notin DOMAIN Complete(r).headers
               /\ r.body # <<>> => Complete(r).headers["Content-Length"] = Len(r.body)
<1> DEFINE cl == "Content-Length"
           ct == "Content-Type"
           cn == "Connection"
<1>1. PICK v : v = IF request.keep /\ rsp.status # 400 THEN "keep-alive" ELSE "close"
  OBVIOUS
<1>2. v \in Value /\ cn \in Field /\ cl \in Field /\ ct \in Field /\ cl # ct /\ cl # cn
  <2>1. v = "keep-alive" \/ v = "close"
    BY <1>1
  <2> QED
    BY <2>1 DEF Field, Value
<1>3. PICK q : q = SetHeader(r, cn, v)
  OBVIOUS
<1>4. q \in Response /\ q = [status |-> r.status, body |-> r.body, headers |-> Insert(r.headers, cn, v)]
  BY <1>2, <1>3, SetHeaderType
<1>5. q.body = r.body /\ q.headers = Insert(r.headers, cn, v)
  BY <1>4
<1>6. cl \notin DOMAIN r.headers => cl \notin DOMAIN q.headers
  <2>1. PICK h, g : h = r.headers /\ g = Insert(h, cn, v)
    OBVIOUS
  <2>2. DOMAIN g = DOMAIN h \cup {cn}
    BY <2>1, InsertIs
  <2> QED
    BY <1>2, <1>5, <2>1, <2>2
<1>7. Complete(r) = WithBodyHeaders(q)
  BY <1>1, <1>3 DEF Complete, KeepAlive
<1>8. CASE r.body = <<>>
  <2>1. Complete(r) = q
    BY <1>5, <1>7, <1>8 DEF WithBodyHeaders
  <2> QED
    BY <1>4, <1>5, <1>6, <1>8, <2>1
<1>9. CASE r.body # <<>>
  <2>1. PICK n : n = Len(r.body)
    OBVIOUS
  <2>2. n \in Value
    <3>1. r.body \in Seq(Content)
      BY DEF Response
    <3>2. n \in Nat
      BY <2>1, <3>1, LenProperties
    <3> QED
      BY <3>2 DEF Value
  <2>3. PICK a : a = SetHeader(q, cl, n)
    OBVIOUS
  <2>4. a \in Response /\ a = [status |-> q.status, body |-> q.body, headers |-> Insert(q.headers, cl, n)]
    BY <1>2, <1>4, <2>2, <2>3, SetHeaderType
  <2>5. a.body = q.body /\ a.headers = Insert(q.headers, cl, n)
    BY <2>4
  <2>6. PICK o : o = "application/octet-stream"
    OBVIOUS
  <2>7. o \in Value
    <3>1. o \in Type
      BY <2>6 DEF Type
    <3> QED
      BY <3>1 DEF Value
  <2>8. PICK b : b = SetHeader(a, ct, o)
    OBVIOUS
  <2>9. b \in Response /\ b = [status |-> a.status, body |-> a.body, headers |-> Insert(a.headers, ct, o)]
    BY <1>2, <2>4, <2>7, <2>8, SetHeaderType
  <2>10. b.body = a.body /\ b.headers = Insert(a.headers, ct, o)
    BY <2>9
  <2>11. Complete(r) = b
    BY <1>5, <1>7, <1>9, <2>1, <2>3, <2>6, <2>8 DEF WithBodyHeaders
  <2>12. cl \in DOMAIN a.headers /\ (cl \notin DOMAIN q.headers => a.headers[cl] = n)
    <3>1. PICK h, g : h = q.headers /\ g = Insert(h, cl, n)
      OBVIOUS
    <3>2. DOMAIN g = DOMAIN h \cup {cl} /\ (cl \notin DOMAIN h => g[cl] = n)
      BY <3>1, InsertIs
    <3> QED
      BY <2>5, <3>1, <3>2
  <2>13. cl \in DOMAIN b.headers /\ b.headers[cl] = a.headers[cl]
    <3>1. PICK h, g : h = a.headers /\ g = Insert(h, ct, o)
      OBVIOUS
    <3>2. DOMAIN g = DOMAIN h \cup {ct} /\ (cl \in DOMAIN h => g[cl] = h[cl])
      BY <3>1, InsertIs
    <3> QED
      BY <2>10, <2>12, <3>1, <3>2
  <2> QED
    BY <1>5, <1>6, <1>9, <2>1, <2>5, <2>9, <2>10, <2>11, <2>12, <2>13
<1> QED
  BY <1>8, <1>9

-----------------------------------------------------------------------------
\* What may be in the stream, and what is kept of an answer.
Sent == [head : Headers] \cup [byte : Content]
Answer == [method : Method, rsp : Response]

\* The request in work, which may be none.
Request == Requests \cup {NoRequest}

\* The states in which no request is in work, and all but those of a handler.
Resting == {"setup", "idle", "closed"}
Stage == Resting \cup {"ParseHttpLine", "Route", "Dispatcher", "WriteResponse", "ErrorHandler"}

\* TypeOK, with the types in full.
Typed ==
    /\ basedir \in BOOLEAN
    /\ routes \in [Method \ {"HEAD"} -> Seq(Patterns \X Handlers)]
    /\ \A p \in DOMAIN files : files[p] \in Seq(Content)
    /\ pc \in Stage \cup Handlers
    /\ request \in Request
    /\ path \in Seq(Byte)
    /\ pieces \in Seq(Seq(Byte))
    /\ DOMAIN params \subseteq Seq(Byte) /\ \A n \in DOMAIN params : params[n] \in Seq(Byte)
    /\ rsp \in Response
    /\ wire \in Seq(Sent)
    /\ answers \in Seq(Answer)
    /\ Len(answers) <= MaxRequests
    /\ pc \notin Resting => Len(answers) < MaxRequests

\* The types in full imply the types.
LEMMA TypedImplies == Typed => TypeOK
<1> SUFFICES ASSUME Typed PROVE TypeOK
  OBVIOUS
<1>1. \A m \in DOMAIN routes : Range(routes[m]) \subseteq Patterns \X Handlers
  <2> SUFFICES ASSUME NEW m \in DOMAIN routes PROVE Range(routes[m]) \subseteq Patterns \X Handlers
    OBVIOUS
  <2>1. PICK s : s = routes[m]
    OBVIOUS
  <2>2. s \in Seq(Patterns \X Handlers)
    BY <2>1 DEF Typed
  <2>3. \A i \in DOMAIN s : s[i] \in Patterns \X Handlers
    BY <2>2, ElementOfSeq, LenProperties
  <2> QED
    BY <2>1, <2>3 DEF Range
<1>2. Range(files) \subseteq Seq(Content)
  BY DEF Typed, Range
<1>3. Range(pieces) \subseteq Seq(Byte)
  <2>1. \A i \in DOMAIN pieces : pieces[i] \in Seq(Byte)
    BY ElementOfSeq, LenProperties DEF Typed
  <2> QED
    BY <2>1 DEF Range
<1>4. Range(params) \subseteq Seq(Byte)
  BY DEF Typed, Range
<1>5. rsp.status \in {200, 400, 404} /\ rsp.body \in Seq(Content)
  BY DEF Typed, Response
<1> QED
  BY <1>1, <1>2, <1>3, <1>4, <1>5 DEF Typed, TypeOK, Stage, Resting

\* A request is what RequestsAssumption says of it.
LEMMA RequestType ==
  ASSUME request \in Request
  PROVE  /\ request.method \in Method /\ request.query \in Seq(Byte)
         /\ request.body \in Seq(Content)
<1>0. Seq({"data"}) \subseteq Seq(Content)
  <2>1. {"data"} \subseteq Content
    BY DEF Content
  <2> QED
    BY <2>1, SeqMonotonic
<1>1. CASE request \in Requests
  BY <1>0, <1>1, RequestsAssumption
<1>2. CASE request = NoRequest
  <2>1. request.method = "GET" /\ request.query = <<>> /\ request.body = <<>>
    BY <1>2 DEF NoRequest
  <2>2. <<>> \in Seq(Byte) /\ <<>> \in Seq(Content)
    BY EmptySeq
  <2>3. "GET" \in Method
    BY DEF Method
  <2> QED
    BY <2>1, <2>2, <2>3
<1> QED
  BY <1>1, <1>2 DEF Request

\* The response before anything is known of it.
LEMMA NoResponseType ==
  NoResponse \in Response /\ DOMAIN NoResponse.headers = {}
<1>1. PICK h : h = <<>>
  OBVIOUS
<1>2. h \in [{} -> Value] /\ DOMAIN h = {}
  BY <1>1
<1>3. h \in Headers
  <2>1. {} \in SUBSET Field
    OBVIOUS
  <2> QED
    BY <1>2, <2>1 DEF Headers
<1>4. h \in Seq(Content)
  BY <1>1, EmptySeq
<1>5. NoResponse = [status |-> 200, body |-> h, headers |-> h]
  BY <1>1 DEF NoResponse
<1> QED
  BY <1>2, <1>3, <1>4, <1>5 DEF Response

\* The bytes of a body.
LEMMA BytesType ==
  ASSUME NEW b \in Seq(Content)
  PROVE  /\ Bytes(b) \in Seq(Sent) /\ Len(Bytes(b)) = Len(b)
         /\ \A i \in 1 .. Len(b) : Bytes(b)[i] = [byte |-> b[i]]
<1>1. Len(b) \in Nat /\ \A i \in 1 .. Len(b) : b[i] \in Content
  BY LenProperties, ElementOfSeq
<1>2. Bytes(b) = [i \in 1 .. Len(b) |-> [byte |-> b[i]]]
  BY DEF Bytes
<1>3. \A i \in 1 .. Len(b) : [byte |-> b[i]] \in Sent
  BY <1>1 DEF Sent
<1>4. Bytes(b) \in Seq(Sent)
  BY <1>1, <1>2, <1>3, IsASeq
<1>5. Len(Bytes(b)) = Len(b)
  BY <1>1, <1>2, <1>4, LenProperties
<1> QED
  BY <1>2, <1>4, <1>5

\* They hold at first.
LEMMA TypedInit == Init => Typed
<1> SUFFICES ASSUME Init PROVE Typed
  OBVIOUS
<1>1. routes \in [Method \ {"HEAD"} -> Seq(Patterns \X Handlers)]
  <2>1. <<>> \in Seq(Patterns \X Handlers)
    BY EmptySeq
  <2> QED
    BY <2>1 DEF Init
<1>2. \A p \in DOMAIN files : files[p] \in Seq(Content)
  <2>1. <<"file", "file">> \in Seq(Content)
    <3>1. "file" \in Content
      BY DEF Content
    <3> QED
      BY <3>1
  <2> QED
    BY <2>1 DEF Init
<1>3. rsp \in Response
  BY NoResponseType DEF Init
<1>4. path \in Seq(Byte) /\ pieces \in Seq(Seq(Byte)) /\ wire \in Seq(Sent) /\ answers \in Seq(Answer)
  BY EmptySeq DEF Init
<1>5. DOMAIN params = {}
  BY DEF Init
<1>6. Len(answers) <= MaxRequests
  BY MaxRequestsAssumption DEF Init
<1>7. basedir \in BOOLEAN /\ pc = "setup" /\ pc \in Stage \cup Handlers /\ request \in Request
  BY DEF Init, Stage, Resting, Request
<1>8. "setup" \in Resting
  BY DEF Resting
<1> QED
  BY <1>1, <1>2, <1>3, <1>4, <1>5, <1>6, <1>7, <1>8 DEF Typed

\* The path of the file that is looked for is one.
LEMMA FilePathType == ASSUME Typed PROVE FilePath \in Seq(Byte)
<1>1. path \o IndexHtml \in Seq(Byte)
  BY IndexAssumption, ConcatProperties DEF Typed
<1> QED
  BY <1>1 DEF FilePath, Typed

\* The first of the routes that match is one.
LEMMA MatchingFirst ==
  ASSUME Typed, Matching # {}
  PROVE  routes[Table(request.method)][Min(Matching)][2] \in Handlers
<1>1. PICK m : m = Table(request.method)
  OBVIOUS
<1>2. m \in Method \ {"HEAD"}
  BY <1>1, RequestType DEF Typed, Table, Method
<1>3. PICK s : s = routes[m]
  OBVIOUS
<1>4. s \in Seq(Patterns \X Handlers)
  BY <1>2, <1>3 DEF Typed
<1>5. Matching = {i \in 1 .. Len(s) : path \in s[i][1]}
  BY <1>1, <1>3 DEF Matching
<1>6. Matching \in SUBSET Nat
  BY <1>5
<1>7. PICK i : i = Min(Matching)
  OBVIOUS
<1>8. i \in Matching
  BY <1>6, <1>7, MinIsLeast
<1>9. i \in 1 .. Len(s)
  BY <1>5, <1>8
<1>10. s[i] \in Patterns \X Handlers
  BY <1>4, <1>9, ElementOfSeq
<1> QED
  BY <1>1, <1>3, <1>7, <1>10

\* Every step keeps the types: one case per action.
LEMMA TypedStep == Typed /\ [Next]_vars => Typed'
<1> SUFFICES ASSUME Typed, [Next]_vars PROVE Typed'
  OBVIOUS
<1> USE DEF Typed
<1>a. Handlers \subseteq {"Hello", "PutFile"}
  BY HandlersAssumption
<1>0. CASE UNCHANGED vars
  BY <1>0 DEF vars
<1>1. CASE SetBaseDir
  BY <1>1 DEF SetBaseDir, parsed
<1>2. CASE Listen
  <2>1. "idle" \in Resting /\ pc' = "idle"
    BY <1>2 DEF Listen, Resting
  <2> QED
    BY <1>2, <2>1 DEF Listen, setup, parsed, Stage
<1>3. ASSUME NEW m \in Method \ {"HEAD"}, NEW p \in Patterns, NEW h \in Handlers, Register(m, p, h)
      PROVE  Typed'
  <2>1. routes' \in [Method \ {"HEAD"} -> Seq(Patterns \X Handlers)]
    <3>1. Append(routes[m], <<p, h>>) \in Seq(Patterns \X Handlers)
      BY AppendProperties
    <3> QED
      BY <1>3, <3>1 DEF Register
  <2> QED
    BY <1>3, <2>1 DEF Register, parsed
<1>4. ASSUME NEW r \in Requests, ReceiveRequest(r) PROVE Typed'
  <2>1. path' \in Seq(Byte) /\ pieces' \in Seq(Seq(Byte))
    <3>1. r.path \in Seq(Byte) /\ r.query \in Seq(Byte)
      BY RequestsAssumption
    <3>2. FALSE \in BOOLEAN
      OBVIOUS
    <3>3. PICK u, q : u = r.path /\ q = r.query
      OBVIOUS
    <3>4. UrlDecode(u, FALSE) \in Seq(Byte) /\ Split(q, Amp) \in Seq(Seq(Byte))
      BY <3>1, <3>2, <3>3, DecodeType, SplitType
    <3> QED
      BY <1>4, <3>3, <3>4 DEF ReceiveRequest
  <2>2. DOMAIN params' = {}
    BY <1>4 DEF ReceiveRequest
  <2>3. rsp' \in Response
    BY <1>4, NoResponseType DEF ReceiveRequest
  <2>4. request' \in Request /\ pc' \in Stage
    BY <1>4 DEF ReceiveRequest, Request, Stage
  <2>5. Len(answers) < MaxRequests
    BY <1>4 DEF ReceiveRequest
  <2> QED
    BY <1>4, <2>1, <2>2, <2>3, <2>4, <2>5 DEF ReceiveRequest, setup
<1>5. CASE ParseParam
  <2>0. pc \notin Resting
    BY <1>5 DEF ParseParam, Resting
  <2>1. CASE At(Head(pieces), Equals) = {}
    <3>1. rsp' = [rsp EXCEPT !.status = 400] /\ pc' = "ErrorHandler" /\ UNCHANGED <<pieces, params>>
      BY <1>5, <2>1 DEF ParseParam
    <3>2. rsp' \in Response
      BY <3>1 DEF Response
    <3>3. pc' \in Stage
      BY <3>1 DEF Stage
    <3> QED
      BY <1>5, <2>0, <3>1, <3>2, <3>3 DEF ParseParam, setup
  <2>2. CASE At(Head(pieces), Equals) # {}
    <3>0. PICK x : x = Head(pieces)
      OBVIOUS
    <3>1. pieces' = Tail(pieces) /\ UNCHANGED <<rsp, pc>>
          /\ params' = Insert(params, Param(x)[1], Param(x)[2])
      BY <1>5, <2>2, <3>0 DEF ParseParam
    <3>2. x \in Seq(Byte) /\ pieces' \in Seq(Seq(Byte))
      BY <1>5, <3>0, <3>1, HeadTailProperties DEF ParseParam
    <3>3. Param(x)[1] \in Seq(Byte) /\ Param(x)[2] \in Seq(Byte)
      <4>1. PICK i : i = Min(At(x, Equals))
        OBVIOUS
      <4>2. i \in 1 .. Len(x)
        <5>1. At(x, Equals) \in SUBSET Nat /\ At(x, Equals) # {}
          BY <2>2, <3>0 DEF At
        <5>2. i \in At(x, Equals)
          BY <4>1, <5>1, MinIsLeast
        <5> QED
          BY <5>2 DEF At
      <4>3. PICK n, v : n = SubSeq(x, 1, i - 1) /\ v = SubSeq(x, i + 1, Len(x))
        OBVIOUS
      <4>4. n \in Seq(Byte) /\ v \in Seq(Byte)
        <5>1. PICK a \in Nat, b \in Nat : a = i - 1 /\ b = i + 1
          BY <4>2
        <5>2. 1 \in Nat \ {0} /\ a \in 0 .. Len(x) /\ b \in Nat \ {0} /\ Len(x) \in 0 .. Len(x)
          BY <3>2, <4>2, <5>1
        <5> QED
          BY <3>2, <4>3, <5>1, <5>2, PartType
      <4>5. Param(x) = <<UrlDecode(n, TRUE), UrlDecode(v, TRUE)>>
        BY <4>1, <4>3, Zenon DEF Param
      <4>6. TRUE \in BOOLEAN
        OBVIOUS
      <4>7. UrlDecode(n, TRUE) \in Seq(Byte) /\ UrlDecode(v, TRUE) \in Seq(Byte)
        BY <4>4, <4>6, DecodeType
      <4>8. PICK a, b : a = UrlDecode(n, TRUE) /\ b = UrlDecode(v, TRUE)
        OBVIOUS
      <4>9. Param(x)[1] = a /\ Param(x)[2] = b
        BY <4>5, <4>8
      <4> QED
        BY <4>7, <4>8, <4>9
    <3>4. DOMAIN params' \subseteq Seq(Byte) /\ \A n \in DOMAIN params' : params'[n] \in Seq(Byte)
      <4>1. PICK k, v, f : k = Param(x)[1] /\ v = Param(x)[2] /\ f = Insert(params, k, v)
        OBVIOUS
      <4>2. DOMAIN f \subseteq Seq(Byte) /\ \A n \in DOMAIN f : f[n] \in Seq(Byte)
        BY <3>3, <4>1 DEF Insert
      <4> QED
        BY <3>1, <4>1, <4>2
    <3> QED
      BY <1>5, <3>1, <3>2, <3>4 DEF ParseParam, setup
  <2> QED
    BY <2>1, <2>2
<1>6. CASE EndParse
  <2>1. pc \notin Resting
    BY <1>6 DEF EndParse, Resting
  <2> QED
    BY <1>6, <2>1 DEF EndParse, setup, parsed, Stage
<1>7. CASE Route
  <2>1. pc \notin Resting
    BY <1>7 DEF Route, Resting
  <2>2. rsp' \in Response
    <3>1. CASE IsFileHandler
      <4>1. PICK b : b = files[FilePath]
        OBVIOUS
      <4>2. b \in Seq(Content)
        BY <3>1, <4>1 DEF IsFileHandler
      <4>3. PICK e : e = Extension(FilePath)
        OBVIOUS
      <4>4. e \in Value /\ "Content-Type" \in Field
        BY <4>3, FilePathType DEF Value, Field
      <4>5. PICK q : q = [rsp EXCEPT !.body = b]
        OBVIOUS
      <4>6. q \in Response
        BY <4>2, <4>5 DEF Response
      <4>7. rsp' = SetHeader(q, "Content-Type", e)
        BY <1>7, <3>1, <4>1, <4>3, <4>5 DEF Route, FileHandler
      <4> QED
        BY <4>4, <4>6, <4>7, SetHeaderType
    <3>2. CASE ~IsFileHandler
      BY <1>7, <3>2 DEF Route
    <3> QED
      BY <3>1, <3>2
  <2> QED
    BY <1>7, <2>1, <2>2 DEF Route, setup, parsed, Stage
<1>8. CASE CallFirst
  <2>1. pc \notin Resting
    BY <1>8 DEF CallFirst, Resting
  <2>2. pc' \in Handlers
    BY <1>8, MatchingFirst DEF CallFirst
  <2> QED
    BY <1>8, <2>1, <2>2 DEF CallFirst, setup, parsed
<1>9. CASE NotFound
  <2>1. pc \notin Resting
    BY <1>9 DEF NotFound, Resting
  <2>2. rsp' \in Response
    BY <1>9 DEF NotFound, Response
  <2> QED
    BY <1>9, <2>1, <2>2 DEF NotFound, setup, parsed, Stage
<1>10. CASE Hello
  <2>1. pc \notin Resting
    BY <1>10 DEF Hello, Resting
  <2>2. rsp' \in Response
    <3>1. PICK b, t : b = <<"text">> /\ t = "text/plain"
      OBVIOUS
    <3>2. b \in Seq(Content) /\ t \in Type
      BY <3>1 DEF Content, Type
    <3> QED
      BY <1>10, <3>1, <3>2, SetContentType DEF Hello
  <2> QED
    BY <1>10, <2>1, <2>2 DEF Hello, setup, parsed, Stage
<1>11. CASE PutFile
  <2>1. pc \notin Resting
    BY <1>11 DEF PutFile, Resting
  <2>2. \A p \in DOMAIN files' : files'[p] \in Seq(Content)
    BY <1>11, RequestType DEF PutFile
  <2> QED
    BY <1>11, <2>1, <2>2 DEF PutFile, setup, parsed, Stage
<1>12. CASE ErrorHandler
  <2>1. pc \notin Resting
    BY <1>12 DEF ErrorHandler, Resting
  <2>2. rsp' \in Response
    <3>1. PICK b, t : b = <<"page", "page">> /\ t = "text/html"
      OBVIOUS
    <3>2. b \in Seq(Content) /\ t \in Type
      BY <3>1 DEF Content, Type
    <3> QED
      BY <1>12, <3>1, <3>2, SetContentType DEF ErrorHandler
  <2> QED
    BY <1>12, <2>1, <2>2 DEF ErrorHandler, setup, parsed, Stage
<1>13. CASE WriteResponse
  <2>1. PICK r, w, a : /\ r = Complete(rsp) /\ w = <<[head |-> r.headers]>>
                       /\ a = [method |-> request.method, rsp |-> r]
    OBVIOUS
  <2>2. /\ wire' = wire \o w \o Bytes(r.body)
        /\ answers' = Append(answers, a)
        /\ pc' = IF r.headers["Connection"] = "close" THEN "closed" ELSE "idle"
        /\ rsp' = NoResponse /\ request' = NoRequest
        /\ path' = <<>> /\ pieces' = <<>> /\ params' = <<>>
        /\ UNCHANGED <<setup, files>>
    BY <1>13, <2>1 DEF WriteResponse
  <2>3. r \in Response /\ r.body \in Seq(Content) /\ r.headers \in Headers
    BY <2>1, CompleteType DEF Response
  <2>4. wire' \in Seq(Sent)
    <3>1. [head |-> r.headers] \in Sent
      BY <2>3 DEF Sent
    <3>2. w \in Seq(Sent)
      BY <2>1, <3>1, OneType
    <3>3. PICK b : b = Bytes(r.body)
      OBVIOUS
    <3>4. b \in Seq(Sent)
      BY <2>3, <3>3, BytesType
    <3> QED
      BY <2>2, <3>2, <3>3, <3>4, ConcatProperties
  <2>5. answers' \in Seq(Answer) /\ Len(answers') = Len(answers) + 1
    <3>1. a \in Answer
      BY <2>1, <2>3, RequestType DEF Answer
    <3> QED
      BY <2>2, <3>1, AppendProperties
  <2>6. Len(answers') <= MaxRequests
    <3>1. Len(answers) < MaxRequests
      BY <1>13 DEF WriteResponse, Resting
    <3> QED
      BY <2>5, <3>1, MaxRequestsAssumption, LenProperties
  <2>7. pc' \in Resting
    BY <2>2 DEF Resting
  <2>8. rsp' \in Response /\ request' \in Request
    BY <2>2, NoResponseType DEF Request
  <2>9. path' \in Seq(Byte) /\ pieces' \in Seq(Seq(Byte)) /\ DOMAIN params' = {}
    BY <2>2, EmptySeq
  <2> QED
    BY <2>2, <2>4, <2>5, <2>6, <2>7, <2>8, <2>9 DEF setup, Stage
<1> QED
  BY <1>0, <1>1, <1>2, <1>3, <1>4, <1>5, <1>6, <1>7, <1>8, <1>9, <1>10, <1>11, <1>12, <1>13
     DEF Next

\* The variables keep their types, whatever routes are registered and whatever is requested
\* (HttpServer with ParseHttpLine, Route and WriteResponse): the status is one of those the
\* server sets, and no more responses are sent than requests were received.
THEOREM TypeCorrect == Spec => []Typed /\ []TypeOK
<1>1. Spec => []Typed
  BY TypedInit, TypedStep, PTL DEF Spec
<1> QED
  BY <1>1, TypedImplies, PTL

-----------------------------------------------------------------------------
\* The name in a piece of a query.
Name(x) == Param(x)[1]

\* The first c of the pieces have been looked at: params has their names, with the
\* value of the first one of each.
ParsedUpTo(all, c) ==
    /\ pieces = SubSeq(all, c + 1, Len(all))
    /\ DOMAIN params = {Name(all[k]) : k \in 1 .. c}
    /\ \A k \in 1 .. c :
          (\A l \in 1 .. k - 1 : Name(all[l]) # Name(all[k])) =>
              params[Name(all[k])] = Param(all[k])[2]

\* The states in which the pieces have been split and the request has not been routed.
Parsing == {"ParseHttpLine", "Route"}

\* While the request line is parsed, and when it has been.
Parsed ==
    pc \in Parsing =>
      \E c \in 0 .. Len(Split(request.query, Amp)) :
        /\ ParsedUpTo(Split(request.query, Amp), c)
        /\ pc = "Route" => c = Len(Split(request.query, Amp))

\* One more piece is looked at.
LEMMA ParseOne ==
  ASSUME NEW all \in Seq(Seq(Byte)), NEW c \in 0 .. Len(all), ParsedUpTo(all, c),
         pieces # <<>>, pieces' = Tail(pieces),
         params' = Insert(params, Name(Head(pieces)), Param(Head(pieces))[2])
  PROVE  c + 1 \in 0 .. Len(all) /\ ParsedUpTo(all, c + 1)'
<1>0. c \in Nat /\ Len(all) \in Nat /\ pieces = SubSeq(all, c + 1, Len(all))
  BY DEF ParsedUpTo
<1>1. c + 1 \in 1 .. Len(all)
  <2>1. ASSUME Len(all) < c + 1 PROVE FALSE
    <3>1. c + 1 \in Int /\ Len(all) \in Int
      BY <1>0
    <3>2. pieces = <<>>
      BY <1>0, <2>1, <3>1, SubSeqEmpty
    <3> QED
      BY <3>2
  <2> QED
    BY <1>0, <2>1
<1>2. Head(pieces) = all[c + 1] /\ Tail(pieces) = SubSeq(all, c + 1 + 1, Len(all))
  <2>1. PICK m \in 1 .. Len(all) : m = c + 1
    BY <1>1
  <2>2. Len(all) \in m .. Len(all)
    BY <1>0, <2>1
  <2>3. /\ Head(SubSeq(all, m, Len(all))) = all[m]
        /\ Tail(SubSeq(all, m, Len(all))) = SubSeq(all, m + 1, Len(all))
    BY <1>0, <2>1, <2>2
  <2> QED
    BY <1>0, <2>1, <2>3
<1>3. PICK m : m = c + 1
  OBVIOUS
<1>4. PICK x : x = all[m]
  OBVIOUS
<1>5. PICK n, v : n = Name(x) /\ v = Param(x)[2]
  OBVIOUS
<1>6. params' = Insert(params, n, v)
  BY <1>2, <1>3, <1>4, <1>5
<1>7. /\ DOMAIN params' = DOMAIN params \cup {n}
      /\ \A y \in DOMAIN params : params'[y] = params[y]
      /\ n \notin DOMAIN params => params'[n] = v
  BY <1>6 DEF Insert
<1>8. DOMAIN params = {Name(all[k]) : k \in 1 .. c}
  BY DEF ParsedUpTo
<1>9. DOMAIN params' = {Name(all[k]) : k \in 1 .. m}
  <2>1. \A k : k \in 1 .. m <=> k \in 1 .. c \/ k = m
    BY <1>0, <1>3
  <2> QED
    BY <1>4, <1>5, <1>7, <1>8, <2>1
<1>10. ASSUME NEW k \in 1 .. m, \A l \in 1 .. k - 1 : Name(all[l]) # Name(all[k])
       PROVE  params'[Name(all[k])] = Param(all[k])[2]
  <2>1. CASE k = m
    <3>1. \A l \in 1 .. c : l \in 1 .. k - 1
      BY <1>0, <1>3, <2>1
    <3>2. n \notin DOMAIN params
      BY <1>4, <1>5, <1>8, <1>10, <2>1, <3>1
    <3> QED
      BY <1>4, <1>5, <1>7, <2>1, <3>2
  <2>2. CASE k # m
    <3>1. k \in 1 .. c
      BY <1>0, <1>3, <2>2
    <3>2. params[Name(all[k])] = Param(all[k])[2]
      BY <1>10, <3>1 DEF ParsedUpTo
    <3>3. PICK y : y = Name(all[k])
      OBVIOUS
    <3>4. y \in DOMAIN params
      BY <1>8, <3>1, <3>3
    <3> QED
      BY <1>7, <3>2, <3>3, <3>4
  <2> QED
    BY <2>1, <2>2
<1>11. pieces' = SubSeq(all, m + 1, Len(all))
  BY <1>2, <1>3
<1>12. ParsedUpTo(all, m)'
  BY <1>9, <1>10, <1>11 DEF ParsedUpTo
<1>13. m \in 0 .. Len(all)
  BY <1>1, <1>3
<1> QED
  BY <1>3, <1>12, <1>13

\* Every step keeps what has been parsed: ParseParam looks at one more piece.
LEMMA ParsedStep == Typed /\ Parsed /\ [Next]_vars => Parsed'
<1> SUFFICES ASSUME Typed, Parsed, [Next]_vars PROVE Parsed'
  OBVIOUS
<1>a. request \in Request
  BY DEF Typed
<1>b. request.query \in Seq(Byte)
  BY <1>a, RequestType
<1>c. ASSUME UNCHANGED <<pieces, params, request, pc>> PROVE Parsed'
  BY <1>c DEF Parsed, ParsedUpTo
<1>d. ASSUME pc' \notin Parsing PROVE Parsed'
  BY <1>d DEF Parsed
<1>0. CASE UNCHANGED vars
  BY <1>c, <1>0 DEF vars
<1>1. CASE SetBaseDir
  BY <1>c, <1>1 DEF SetBaseDir, parsed
<1>2. CASE Listen
  BY <1>d, <1>2 DEF Listen, Parsing
<1>3. ASSUME NEW m \in Method \ {"HEAD"}, NEW p \in Patterns, NEW h \in Handlers, Register(m, p, h)
      PROVE  Parsed'
  BY <1>c, <1>3 DEF Register, parsed
<1>4. ASSUME NEW r \in Requests, ReceiveRequest(r) PROVE Parsed'
  <2>1. PICK all : all = Split(r.query, Amp)
    OBVIOUS
  <2>2. all \in Seq(Seq(Byte))
    <3>1. r.query \in Seq(Byte)
      BY RequestsAssumption
    <3> QED
      BY <2>1, <3>1, SplitType
  <2>3. Len(all) \in Nat /\ SubSeq(all, 0 + 1, Len(all)) = all
    <3>1. 0 + 1 = 1
      OBVIOUS
    <3> QED
      BY <2>2, <3>1, SubSeqFull, LenProperties
  <2>4. request' = r /\ pieces' = all /\ params' = <<>> /\ pc' = "ParseHttpLine"
    BY <1>4, <2>1 DEF ReceiveRequest
  <2>5. DOMAIN params' = {}
    BY <2>4
  <2>6. \A k : k \notin 1 .. 0
    OBVIOUS
  <2>7. ParsedUpTo(all, 0)'
    BY <2>3, <2>4, <2>5, <2>6 DEF ParsedUpTo
  <2>8. 0 \in 0 .. Len(all)
    BY <2>3
  <2> QED
    BY <2>1, <2>4, <2>7, <2>8 DEF Parsed
<1>5. CASE ParseParam
  <2>1. CASE At(Head(pieces), Equals) = {}
    BY <1>d, <1>5, <2>1 DEF ParseParam, Parsing
  <2>2. CASE At(Head(pieces), Equals) # {}
    <3>1. PICK all : all = Split(request.query, Amp)
      OBVIOUS
    <3>2. all \in Seq(Seq(Byte))
      BY <1>b, <3>1, SplitType
    <3>3. /\ pc = "ParseHttpLine" /\ pieces # <<>> /\ pieces' = Tail(pieces)
          /\ params' = Insert(params, Name(Head(pieces)), Param(Head(pieces))[2])
          /\ UNCHANGED <<pc, request>>
      BY <1>5, <2>2 DEF ParseParam, Name
    <3>4. PICK c \in 0 .. Len(all) : ParsedUpTo(all, c)
      BY <3>1, <3>3 DEF Parsed, Parsing
    <3>5. c + 1 \in 0 .. Len(all) /\ ParsedUpTo(all, c + 1)'
      BY <3>2, <3>3, <3>4, ParseOne
    <3>6. request'.query = request.query /\ pc' # "Route"
      BY <3>3
    <3> QED
      BY <3>1, <3>5, <3>6 DEF Parsed
  <2> QED
    BY <2>1, <2>2
<1>6. CASE EndParse
  <2>1. PICK all : all = Split(request.query, Amp)
    OBVIOUS
  <2>2. all \in Seq(Seq(Byte))
    BY <1>b, <2>1, SplitType
  <2>3. pc = "ParseHttpLine" /\ pieces = <<>> /\ UNCHANGED <<request, pieces, params>>
    BY <1>6 DEF EndParse, parsed
  <2>4. PICK c \in 0 .. Len(all) : ParsedUpTo(all, c)
    BY <2>1, <2>3 DEF Parsed, Parsing
  <2>5. c = Len(all)
    <3>1. PICK m \in Nat : m = c + 1
      OBVIOUS
    <3>2. SubSeq(all, m, Len(all)) = <<>>
      BY <2>3, <2>4, <3>1 DEF ParsedUpTo
    <3>3. Len(all) \in Nat
      BY <2>2, LenProperties
    <3>4. ASSUME m <= Len(all) PROVE FALSE
      <4>1. Len(SubSeq(all, m, Len(all))) = Len(all) - m + 1
        BY <2>2, <3>1, <3>3, <3>4
      <4> QED
        BY <3>2, <3>3, <3>4, <4>1
    <3> QED
      BY <3>1, <3>3, <3>4
  <2>6. ParsedUpTo(all, c)'
    BY <2>3, <2>4 DEF ParsedUpTo
  <2> QED
    BY <2>1, <2>3, <2>5, <2>6 DEF Parsed
<1>7. CASE Route
  BY <1>d, <1>7 DEF Route, Parsing
<1>8. CASE CallFirst
  <2>1. pc' \in Handlers
    BY <1>8, MatchingFirst DEF CallFirst
  <2>2. pc' \notin Parsing
    BY <2>1, HandlersAssumption DEF Parsing
  <2> QED
    BY <1>d, <2>2
<1>9. CASE NotFound
  BY <1>d, <1>9 DEF NotFound, Parsing
<1>10. CASE Hello
  BY <1>d, <1>10 DEF Hello, Parsing
<1>11. CASE PutFile
  BY <1>d, <1>11 DEF PutFile, Parsing
<1>12. CASE ErrorHandler
  BY <1>d, <1>12 DEF ErrorHandler, Parsing
<1>13. CASE WriteResponse
  <2>1. pc' = "closed" \/ pc' = "idle"
    BY <1>13 DEF WriteResponse
  <2> QED
    BY <1>d, <2>1 DEF Parsing
<1> QED
  BY <1>0, <1>1, <1>2, <1>3, <1>4, <1>5, <1>6, <1>7, <1>8, <1>9, <1>10, <1>11, <1>12, <1>13
     DEF Next

\* What a text begins with is a prefix of it.
LEMMA BeginsIsPrefix ==
  ASSUME NEW v \in Seq(0 .. 127), NEW x, Begins(x, v)
  PROVE  IsPrefix(v, x)
<1>1. PICK y \in Seq(Byte) : x = v \o y
  BY DEF Begins
<1>2. v \in Seq(Byte)
  <2>1. 0 .. 127 \subseteq Byte
    BY DEF Byte
  <2> QED
    BY <2>1, SeqMonotonic
<1>3. /\ Len(x) = Len(v) + Len(y) /\ Len(v) \in Nat /\ Len(y) \in Nat
      /\ SubSeq(x, 1, Len(v)) = v
  BY <1>1, <1>2, ConcatParts
<1>4. SubSeq(v, 1, Len(v)) = v /\ Len(v) <= Len(x)
  BY <1>2, <1>3, SubSeqFull
<1> QED
  BY <1>3, <1>4 DEF IsPrefix

\* When every piece has been looked at, the parameters are what the client meant.
LEMMA ParsedImplies == Typed /\ Parsed => QueryUnderstood
<1> SUFFICES ASSUME Typed, Parsed, pc = "Route",
                    NEW ps \in Intended \ {<<>>}, request.query = Query(ps)
             PROVE  /\ DOMAIN params = {p[1] : p \in Range(ps)}
                    /\ \A l \in {k \in 1 .. Len(ps) : IsFirst(ps, k)} :
                          /\ IsPrefix(ps[l][2], params[ps[l][1]])
                          /\ l \in {1, Len(ps)} => params[ps[l][1]] = ps[l][2]
  BY DEF QueryUnderstood
<1>1. ps \in Seq(Text \X Text) /\ ps # <<>>
  BY IntendedAssumption DEF Text
<1>2. PICK q, all : q = request.query /\ all = Split(q, Amp)
  OBVIOUS
<1>3. q \in Seq(Byte) /\ q = Query(ps)
  BY <1>2, RequestType DEF Typed
<1>4. Says(all, ps, 1, TRUE)
  BY <1>1, <1>2, <1>3, QuerySays
<1>5. PICK c \in 0 .. Len(all) : ParsedUpTo(all, c) /\ c = Len(all)
  BY <1>2 DEF Parsed, Parsing
<1>6. PICK n \in Nat : n = Len(ps) /\ n >= 1 /\ n # 0
  <2>1. Len(ps) # 0
    BY <1>1, EmptySeq
  <2> QED
    BY <1>1, <2>1, LenProperties
<1>7. n = Len(all)
  BY <1>4, <1>6 DEF Says
<1>8. /\ \A l \in 1 .. n : Name(all[l]) = ps[l][1] /\ Begins(Param(all[l])[2], ps[l][2])
      /\ Param(all[1]) = ps[1] /\ Param(all[n]) = ps[n]
  <2>1. \A l \in 1 .. n : l - 1 + 1 = l
    OBVIOUS
  <2>2. \A l \in 1 .. n : SaysOf(all[l - 1 + 1], ps[l])
    BY <1>4, <1>6 DEF Says
  <2> QED
    BY <1>4, <1>6, <1>7, <2>1, <2>2 DEF Says, SaysOf, Name
<1>9. DOMAIN params = {p[1] : p \in Range(ps)}
  <2>1. DOMAIN params = {Name(all[k]) : k \in 1 .. n}
    BY <1>5, <1>7 DEF ParsedUpTo
  <2>2. DOMAIN ps = 1 .. n
    BY <1>1, <1>6, LenProperties
  <2>3. Range(ps) = {ps[k] : k \in 1 .. n}
    BY <2>2 DEF Range
  <2> QED
    BY <1>8, <2>1, <2>3
<1>10. \A k \in 1 .. n :
          (\A l \in 1 .. k - 1 : Name(all[l]) # Name(all[k])) =>
              params[Name(all[k])] = Param(all[k])[2]
  BY <1>5, <1>7 DEF ParsedUpTo
<1>11. ASSUME NEW l \in 1 .. Len(ps), IsFirst(ps, l)
       PROVE  /\ IsPrefix(ps[l][2], params[ps[l][1]])
              /\ l \in {1, Len(ps)} => params[ps[l][1]] = ps[l][2]
  <2>1. l \in 1 .. n /\ \A k \in 1 .. l - 1 : k \in 1 .. n
    BY <1>6
  <2>2. \A k \in 1 .. l - 1 : Name(all[k]) # Name(all[l])
    BY <1>8, <1>11, <2>1 DEF IsFirst
  <2>3. params[ps[l][1]] = Param(all[l])[2] /\ Begins(Param(all[l])[2], ps[l][2])
    BY <1>8, <1>10, <2>1, <2>2
  <2>4. PICK v \in Seq(0 .. 127) : v = ps[l][2]
    <3>1. ps[l] \in Text \X Text
      BY <1>1, ElementOfSeq
    <3> QED
      BY <3>1 DEF Text
  <2>5. IsPrefix(v, params[ps[l][1]])
    BY <2>3, <2>4, BeginsIsPrefix
  <2>6. l \in {1, Len(ps)} => Param(all[l]) = ps[l]
    BY <1>6, <1>8
  <2> QED
    BY <2>3, <2>4, <2>5, <2>6
<1> QED
  BY <1>9, <1>11

\* What a client encodes, ParseHttpLine decodes, for every list of parameters whose bytes
\* are below 128: the names of the query and no other, and of the first parameter of each
\* name the value, exactly if it is the first or the last of the query, and otherwise
\* followed by what Split left of the next ones (UrlEncode, Split, UrlDecode and the
\* insert that keeps the first value).
THEOREM QueriesUnderstood == Spec => []QueryUnderstood
<1>1. Init => Parsed
  BY DEF Init, Parsed, Parsing
<1> QED
  BY <1>1, TypedInit, TypedStep, ParsedStep, ParsedImplies, PTL DEF Spec

-----------------------------------------------------------------------------
\* Nothing but WriteResponse announces a length.
Unannounced == "Content-Length" \notin DOMAIN rsp.headers

\* What was answered announces the length of its body, unless it has none.
Announced(r) ==
    /\ r.body = <<>> => "Content-Length" \notin DOMAIN r.headers
    /\ r.body # <<>> => /\ "Content-Length" \in DOMAIN r.headers
                        /\ r.headers["Content-Length"] = Len(r.body)

\* The head and the body of r are in the stream w at the position i.
IsAt(r, w, i) ==
    /\ w[i] = [head |-> r.headers]
    /\ \A j \in 1 .. Len(r.body) : w[i + j] = [byte |-> r.body[j]]

\* h says where the answers start in the stream: they follow each other.
Starts(h) ==
    /\ h[1] = 1 /\ h[Len(answers) + 1] = Len(wire) + 1
    /\ \A k \in 1 .. Len(answers) :
         /\ h[k] \in 1 .. Len(wire) /\ h[k + 1] <= Len(wire) + 1
         /\ h[k + 1] = h[k] + Len(answers[k].rsp.body) + 1
         /\ IsAt(answers[k].rsp, wire, h[k])

\* The inductive invariant: only WriteResponse announces a length, every answer announces
\* its own, and the answers are in the stream one behind the other.
Framed ==
    /\ Unannounced
    /\ \A k \in 1 .. Len(answers) : Announced(answers[k].rsp)
    /\ \E h : Starts(h)

\* It holds at first: nothing has been answered.
LEMMA FramedInit == Init => Framed
<1> SUFFICES ASSUME Init PROVE Framed
  OBVIOUS
<1>1. Unannounced
  BY NoResponseType DEF Init, Unannounced
<1>2. Len(wire) = 0 /\ Len(answers) = 0
  BY DEF Init
<1>3. \A k \in 1 .. 0 : FALSE
  OBVIOUS
<1>4. PICK h : h = [k \in {1} |-> 1]
  OBVIOUS
<1>5. h[1] = 1
  BY <1>4
<1>6. Starts(h)
  BY <1>2, <1>3, <1>5 DEF Starts
<1> QED
  BY <1>1, <1>2, <1>3, <1>6 DEF Framed

\* x is t after s.
Joins(x, s, t) ==
    /\ Len(x) = Len(s) + Len(t)
    /\ \A i \in 1 .. Len(s) : x[i] = s[i]
    /\ \A i \in 1 .. Len(t) : x[Len(s) + i] = t[i]

\* Concatenation joins.
LEMMA ConcatJoins ==
  ASSUME NEW S, NEW s \in Seq(S), NEW t \in Seq(S)
  PROVE  s \o t \in Seq(S) /\ Joins(s \o t, s, t)
<1>1. PICK x : x = s \o t
  OBVIOUS
<1>2. x \in Seq(S) /\ Joins(x, s, t)
  BY <1>1, ConcatParts DEF Joins
<1> QED
  BY <1>1, <1>2

\* A response is appended to the stream.
LEMMA FramedWrite ==
  ASSUME Typed, Framed, WriteResponse
  PROVE  Framed'
<1>1. PICK r, w, a, b : /\ r = Complete(rsp) /\ w = <<[head |-> r.headers]>>
                        /\ a = [method |-> request.method, rsp |-> r]
                        /\ b = Bytes(r.body)
  OBVIOUS
<1>2. /\ wire' = (wire \o w) \o b
      /\ answers' = Append(answers, a)
      /\ rsp' = NoResponse
  BY <1>1 DEF WriteResponse
<1>3. rsp \in Response /\ wire \in Seq(Sent) /\ answers \in Seq(Answer) /\ request \in Request
  BY DEF Typed
<1>4. r \in Response /\ r.body \in Seq(Content) /\ r.headers \in Headers /\ Announced(r)
  <2>1. rsp.body \in Seq(Content) /\ "Content-Length" \notin DOMAIN rsp.headers
    BY <1>3 DEF Response, Framed, Unannounced
  <2>2. r \in Response /\ r.body = rsp.body
    BY <1>1, <1>3, CompleteType
  <2>3. /\ rsp.body = <<>> <=> "Content-Length" \notin DOMAIN r.headers
        /\ rsp.body # <<>> => r.headers["Content-Length"] = Len(rsp.body)
    BY <1>1, <1>3, <2>1, CompleteType
  <2> QED
    BY <2>1, <2>2, <2>3 DEF Response, Announced
<1>5. PICK n \in Nat, m \in Nat, l \in Nat : n = Len(answers) /\ m = Len(wire) /\ l = Len(r.body)
  BY <1>3, <1>4, LenProperties
<1>6. PICK v : v = wire \o w
  OBVIOUS
<1>7. /\ v \in Seq(Sent) /\ Len(v) = m + 1 /\ v[m + 1] = [head |-> r.headers]
      /\ \A i \in 1 .. m : v[i] = wire[i]
  <2>1. [head |-> r.headers] \in Sent
    BY <1>4 DEF Sent
  <2>2. w \in Seq(Sent) /\ Len(w) = 1 /\ w[1] = [head |-> r.headers] /\ 1 \in 1 .. 1
    BY <1>1, <2>1, OneType
  <2>3. v \in Seq(Sent) /\ Joins(v, wire, w)
    BY <1>3, <1>6, <2>2, ConcatJoins
  <2> QED
    BY <1>5, <2>2, <2>3 DEF Joins
<1>8. /\ b \in Seq(Sent) /\ Len(b) = l
      /\ \A i \in 1 .. l : b[i] = [byte |-> r.body[i]]
  BY <1>1, <1>4, <1>5, BytesType
<1>9. /\ wire' \in Seq(Sent) /\ Len(wire') = m + 1 + l
      /\ \A i \in 1 .. m + 1 : wire'[i] = v[i]
      /\ \A i \in 1 .. l : wire'[m + 1 + i] = b[i]
  <2>1. PICK z : z = v \o b
    OBVIOUS
  <2>2. z \in Seq(Sent) /\ Joins(z, v, b)
    BY <1>7, <1>8, <2>1, ConcatJoins
  <2>3. wire' = z
    BY <1>2, <1>6, <2>1
  <2> QED
    BY <1>5, <1>7, <1>8, <2>2, <2>3 DEF Joins
<1>10. /\ \A i \in 1 .. m : wire'[i] = wire[i]
       /\ wire'[m + 1] = [head |-> r.headers]
       /\ \A i \in 1 .. l : wire'[m + 1 + i] = [byte |-> r.body[i]]
  <2>1. m + 1 \in 1 .. m + 1 /\ \A i \in 1 .. m : i \in 1 .. m + 1
    OBVIOUS
  <2> QED
    BY <1>7, <1>8, <1>9, <2>1
<1>11. a.rsp = r
  BY <1>1
<1>12. /\ Len(answers') = n + 1
       /\ \A k \in 1 .. n : answers'[k] = answers[k]
       /\ answers'[n + 1] = a
  <2>1. a \in Answer
    BY <1>1, <1>3, <1>4, RequestType DEF Answer
  <2> QED
    BY <1>2, <1>3, <1>5, <2>1, AppendProperties
<1>13. Unannounced'
  BY <1>2, NoResponseType DEF Unannounced
<1>14. \A k \in 1 .. Len(answers') : Announced(answers'[k].rsp)
  <2> SUFFICES ASSUME NEW k \in 1 .. n + 1 PROVE Announced(answers'[k].rsp)
    BY <1>12
  <2>1. CASE k = n + 1
    BY <1>4, <1>11, <1>12, <2>1
  <2>2. CASE k # n + 1
    <3>1. k \in 1 .. n
      BY <2>2
    <3> QED
      BY <1>5, <1>12, <3>1 DEF Framed
  <2> QED
    BY <2>1, <2>2
<1>15. \E h : Starts(h)'
  <2>1. PICK h : Starts(h)
    BY DEF Framed
  <2> DEFINE g == [k \in 1 .. n + 2 |-> IF k = n + 2 THEN m + l + 2 ELSE h[k]]
  <2>2. g[n + 2] = m + l + 2 /\ g[1] = 1 /\ \A k \in 1 .. n + 1 : g[k] = h[k]
    <3>1. n + 2 \in 1 .. n + 2 /\ \A k \in 1 .. n + 1 : k \in 1 .. n + 2 /\ k # n + 2
      OBVIOUS
    <3>2. g[n + 2] = m + l + 2 /\ \A k \in 1 .. n + 1 : g[k] = h[k]
      BY <3>1
    <3>3. 1 \in 1 .. n + 1 /\ h[1] = 1
      BY <2>1 DEF Starts
    <3> HIDE DEF g
    <3> QED
      BY <3>2, <3>3
  <2>3. h[n + 1] = m + 1
    BY <1>5, <2>1 DEF Starts
  <2> HIDE DEF g
  <2>4. ASSUME NEW k \in 1 .. n + 1
        PROVE  /\ g[k] \in 1 .. Len(wire') /\ g[k + 1] <= Len(wire') + 1
               /\ g[k + 1] = g[k] + Len(answers'[k].rsp.body) + 1
               /\ IsAt(answers'[k].rsp, wire', g[k])
    <3>1. CASE k = n + 1
      <4>1. answers'[k].rsp = r
        BY <1>11, <1>12, <3>1
      <4>2. g[k] = m + 1 /\ g[k + 1] = m + l + 2
        <5>1. n + 1 \in 1 .. n + 1 /\ n + 1 + 1 = n + 2
          OBVIOUS
        <5> QED
          BY <2>2, <2>3, <3>1, <5>1
      <4>3. /\ m + 1 \in 1 .. Len(wire') /\ m + l + 2 <= Len(wire') + 1
            /\ m + l + 2 = m + 1 + l + 1
        BY <1>9
      <4>4. IsAt(r, wire', m + 1)
        BY <1>5, <1>10 DEF IsAt
      <4> QED
        BY <1>5, <4>1, <4>2, <4>3, <4>4
    <3>2. CASE k # n + 1
      <4>1. k \in 1 .. n /\ k + 1 \in 1 .. n + 1
        BY <3>2
      <4>2. /\ h[k] \in 1 .. m /\ h[k + 1] <= m + 1
            /\ h[k + 1] = h[k] + Len(answers[k].rsp.body) + 1
            /\ IsAt(answers[k].rsp, wire, h[k])
        BY <1>5, <2>1, <4>1 DEF Starts
      <4>3. g[k] = h[k] /\ g[k + 1] = h[k + 1] /\ answers'[k] = answers[k]
        BY <1>12, <2>2, <4>1
      <4>4. PICK q \in Response : q = answers[k].rsp
        <5>1. answers[k] \in Answer
          BY <1>3, <1>5, <4>1, ElementOfSeq
        <5> QED
          BY <5>1 DEF Answer
      <4>5. PICK p \in 1 .. m : p = h[k]
        BY <4>2
      <4>6. q.body \in Seq(Content) /\ Len(q.body) \in Nat
        <5>1. q.body \in Seq(Content)
          BY DEF Response
        <5> QED
          BY <5>1, LenProperties
      <4>7. IsAt(q, wire', p)
        <5>1. \A j \in 1 .. Len(q.body) : p + j \in 1 .. m
          BY <4>2, <4>4, <4>5, <4>6
        <5>2. wire[p] = [head |-> q.headers] /\ \A j \in 1 .. Len(q.body) : wire[p + j] = [byte |-> q.body[j]]
          BY <4>2, <4>4, <4>5 DEF IsAt
        <5> QED
          BY <1>10, <4>5, <5>1, <5>2 DEF IsAt
      <4>8. p \in 1 .. Len(wire') /\ h[k + 1] <= Len(wire') + 1
        <5>1. h[k + 1] \in Int
          BY <4>2, <4>4, <4>5, <4>6
        <5> QED
          BY <1>9, <4>2, <5>1
      <4> QED
        BY <4>2, <4>3, <4>4, <4>5, <4>7, <4>8
    <3> QED
      BY <3>1, <3>2
  <2>5. Len(answers') + 1 = n + 2 /\ g[n + 2] = Len(wire') + 1
    BY <1>9, <1>12, <2>2
  <2>6. Starts(g)'
    BY <1>12, <2>2, <2>4, <2>5 DEF Starts
  <2> QED
    BY <2>6
<1> QED
  BY <1>13, <1>14, <1>15 DEF Framed

\* Every step keeps it: a handler sets the body and its type, but not its length.
LEMMA FramedStep == Typed /\ Framed /\ [Next]_vars => Framed'
<1> SUFFICES ASSUME Typed, Framed, [Next]_vars PROVE Framed'
  OBVIOUS
<1>a. rsp \in Response
  BY DEF Typed
<1>b. ASSUME UNCHANGED <<wire, answers>>, Unannounced' PROVE Framed'
  BY <1>b DEF Framed, Starts
<1>c. ASSUME UNCHANGED <<wire, answers, rsp>> PROVE Framed'
  BY <1>b, <1>c DEF Framed, Unannounced
<1>d. "Content-Length" \notin DOMAIN rsp.headers
  BY DEF Framed, Unannounced
<1>e. ASSUME NEW r \in Response, r.headers = rsp.headers, NEW v, NEW f, f = Insert(r.headers, "Content-Type", v)
      PROVE  "Content-Length" \notin DOMAIN f
  <2>1. DOMAIN f = DOMAIN r.headers \cup {"Content-Type"}
    BY <1>e DEF Insert
  <2> QED
    BY <1>d, <1>e, <2>1
<1>f. ASSUME NEW body \in Seq(Content), NEW t \in Type, rsp' = SetContent(rsp, body, t)
      PROVE  Unannounced'
  <2>1. rsp'.headers = Insert(rsp.headers, "Content-Type", t)
    BY <1>a, <1>f, SetContentType
  <2>2. PICK f : f = Insert(rsp.headers, "Content-Type", t)
    OBVIOUS
  <2>3. "Content-Length" \notin DOMAIN f
    BY <1>a, <1>e, <2>2
  <2> QED
    BY <2>1, <2>2, <2>3 DEF Unannounced
<1>0. CASE UNCHANGED vars
  BY <1>c, <1>0 DEF vars
<1>1. CASE SetBaseDir
  BY <1>c, <1>1 DEF SetBaseDir
<1>2. CASE Listen
  BY <1>c, <1>2 DEF Listen
<1>3. ASSUME NEW m \in Method \ {"HEAD"}, NEW p \in Patterns, NEW h \in Handlers, Register(m, p, h)
      PROVE  Framed'
  BY <1>c, <1>3 DEF Register
<1>4. ASSUME NEW r \in Requests, ReceiveRequest(r) PROVE Framed'
  <2>1. Unannounced'
    BY <1>4, NoResponseType DEF ReceiveRequest, Unannounced
  <2> QED
    BY <1>b, <1>4, <2>1 DEF ReceiveRequest
<1>5. CASE ParseParam
  <2>1. CASE At(Head(pieces), Equals) = {}
    <3>1. rsp' = [rsp EXCEPT !.status = 400] /\ UNCHANGED <<wire, answers>>
      BY <1>5, <2>1 DEF ParseParam
    <3>2. rsp'.headers = rsp.headers
      BY <1>a, <3>1 DEF Response
    <3> QED
      BY <1>b, <1>d, <3>1, <3>2 DEF Unannounced
  <2>2. CASE At(Head(pieces), Equals) # {}
    BY <1>c, <1>5, <2>2 DEF ParseParam
  <2> QED
    BY <2>1, <2>2
<1>6. CASE EndParse
  BY <1>c, <1>6 DEF EndParse
<1>7. CASE Route
  <2>1. CASE IsFileHandler
    <3>1. PICK q, e : q = [rsp EXCEPT !.body = files[FilePath]] /\ e = Extension(FilePath)
      OBVIOUS
    <3>2. files[FilePath] \in Seq(Content)
      BY <2>1 DEF IsFileHandler, Typed
    <3>3. q \in Response /\ q.headers = rsp.headers
      BY <1>a, <3>1, <3>2 DEF Response
    <3>4. e \in Value /\ "Content-Type" \in Field
      BY <3>1, FilePathType DEF Value, Field
    <3>5. rsp' = SetHeader(q, "Content-Type", e)
      BY <1>7, <2>1, <3>1 DEF Route, FileHandler
    <3>6. PICK f : f = Insert(q.headers, "Content-Type", e)
      OBVIOUS
    <3>7. rsp' = [status |-> q.status, body |-> q.body, headers |-> f]
      BY <3>3, <3>4, <3>5, <3>6, SetHeaderType
    <3>8. rsp'.headers = f
      BY <3>7
    <3>9. "Content-Length" \notin DOMAIN f
      BY <1>e, <3>3, <3>6
    <3>10. Unannounced'
      BY <3>8, <3>9 DEF Unannounced
    <3> QED
      BY <1>b, <1>7, <3>10 DEF Route
  <2>2. CASE ~IsFileHandler
    BY <1>c, <1>7, <2>2 DEF Route
  <2> QED
    BY <2>1, <2>2
<1>8. CASE CallFirst
  BY <1>c, <1>8 DEF CallFirst
<1>9. CASE NotFound
  <2>1. rsp'.headers = rsp.headers
    BY <1>a, <1>9 DEF NotFound, Response
  <2> QED
    BY <1>b, <1>d, <1>9, <2>1 DEF NotFound, Unannounced
<1>10. CASE Hello
  <2>1. PICK b, t : b = <<"text">> /\ t = "text/plain"
    OBVIOUS
  <2>2. b \in Seq(Content) /\ t \in Type
    BY <2>1 DEF Content, Type
  <2>3. Unannounced'
    BY <1>f, <1>10, <2>1, <2>2 DEF Hello
  <2> QED
    BY <1>b, <1>10, <2>3 DEF Hello
<1>11. CASE PutFile
  BY <1>c, <1>11 DEF PutFile
<1>12. CASE ErrorHandler
  <2>1. PICK b, t : b = <<"page", "page">> /\ t = "text/html"
    OBVIOUS
  <2>2. b \in Seq(Content) /\ t \in Type
    BY <2>1 DEF Content, Type
  <2>3. Unannounced'
    BY <1>f, <1>12, <2>1, <2>2 DEF ErrorHandler
  <2> QED
    BY <1>b, <1>12, <2>3 DEF ErrorHandler
<1>13. CASE WriteResponse
  BY <1>13, FramedWrite
<1> QED
  BY <1>0, <1>1, <1>2, <1>3, <1>4, <1>5, <1>6, <1>7, <1>8, <1>9, <1>10, <1>11, <1>12, <1>13
     DEF Next

-----------------------------------------------------------------------------
\* Where the client looks for the k-th response, when the one before it is at x.
After(x, k) == IF IsHead(x) THEN x + BodyLength(x, k - 1) + 1 ELSE Len(wire) + 1

\* from is, up to the m-th response, what ReadFrom defines.
Follows(from, m) == \A k \in 1 .. m : from[k] = IF k = 1 THEN 1 ELSE After(from[k - 1], k)

\* There is such a function for each number of responses.
LEMMA FollowsExists ==
  ASSUME NEW n \in Nat
  PROVE  \E from : Follows(from, n)
<1> DEFINE S == {m \in 0 .. n : ~\E from : Follows(from, m)}
<1>1. ASSUME S # {} PROVE FALSE
  <2>1. S \in SUBSET Nat
    OBVIOUS
  <2>2. PICK m \in S : \A j \in S : m <= j
    <3> HIDE DEF S
    <3> QED
      BY <1>1, <2>1, LeastPosition
  <2>3. m \in 0 .. n /\ ~\E from : Follows(from, m)
    BY <2>2
  <2>4. m # 0
    <3>1. 1 .. 0 = {}
      OBVIOUS
    <3>2. Follows(<<>>, 0)
      BY <3>1 DEF Follows
    <3> QED
      BY <2>3, <3>2
  <2>5. m - 1 \in 0 .. n /\ m \in Nat /\ ~(m <= m - 1)
    BY <2>3, <2>4
  <2>6. m - 1 \notin S
    <3> HIDE DEF S
    <3> QED
      BY <2>2, <2>5
  <2>7. PICK f : Follows(f, m - 1)
    BY <2>5, <2>6
  <2>8. PICK x : x = IF m = 1 THEN 1 ELSE After(f[m - 1], m)
    OBVIOUS
  <2> DEFINE g == [k \in 1 .. m |-> IF k = m THEN x ELSE f[k]]
  <2>9. g[m] = x /\ \A k \in 1 .. m - 1 : g[k] = f[k]
    BY <2>5, <2>4
  <2> HIDE DEF g, S
  <2>10. ASSUME NEW k \in 1 .. m PROVE g[k] = IF k = 1 THEN 1 ELSE After(g[k - 1], k)
    <3>1. CASE k = m
      <4>1. m # 1 => m - 1 \in 1 .. m - 1
        BY <2>5, <2>4
      <4> QED
        BY <2>8, <2>9, <3>1, <4>1
    <3>2. CASE k # m
      <4>1. k \in 1 .. m - 1 /\ (k # 1 => k - 1 \in 1 .. m - 1)
        BY <2>5, <3>2
      <4> QED
        BY <2>7, <2>9, <4>1 DEF Follows
    <3> QED
      BY <3>1, <3>2
  <2>11. Follows(g, m)
    BY <2>10 DEF Follows
  <2> QED
    BY <2>3, <2>11
<1> QED
  BY <1>1

\* ReadFrom is one for the answers of the connection.
LEMMA ReadFollows ==
  ASSUME Typed
  PROVE  Follows(ReadFrom, Len(answers) + 1)
<1>1. PICK n \in Nat : n = Len(answers) + 1
  BY LenProperties DEF Typed
<1>2. PICK f : Follows(f, n)
  BY FollowsExists
<1> DEFINE G(from) == [k \in 1 .. n |-> IF k = 1 THEN 1 ELSE After(from[k - 1], k)]
           F == [k \in 1 .. n |-> f[k]]
<1>3. \A k \in 1 .. n : F[k] = f[k]
  OBVIOUS
<1>4. F = [k \in 1 .. n |-> F[k]]
  OBVIOUS
<1> HIDE DEF F
<1>5. ASSUME NEW k \in 1 .. n PROVE F[k] = IF k = 1 THEN 1 ELSE After(F[k - 1], k)
  <2>1. k # 1 => k - 1 \in 1 .. n
    OBVIOUS
  <2> QED
    BY <1>2, <1>3, <2>1 DEF Follows
<1>6. F = G(F)
  BY <1>4, <1>5
<1>7. ReadFrom = CHOOSE from : from = G(from)
  BY <1>1 DEF ReadFrom, After
<1>8. ReadFrom = G(ReadFrom)
  <2>1. \E from : from = G(from)
    BY <1>6
  <2> HIDE DEF G
  <2> QED
    BY <1>7, <2>1
<1>9. PICK g : g = ReadFrom
  OBVIOUS
<1>10. g = G(g)
  BY <1>8, <1>9
<1>11. Follows(g, n)
  BY <1>10 DEF Follows
<1> QED
  BY <1>1, <1>9, <1>11

\* Where an answer starts, the client takes the length of its body for what it is.
LEMMA LengthAt ==
  ASSUME Typed, Framed, NEW h, Starts(h), NEW k \in 1 .. Len(answers)
  PROVE  /\ IsHead(h[k])
         /\ Delimited(k) => BodyLength(h[k], k) = Len(answers[k].rsp.body)
<1>1. PICK n \in Nat, m \in Nat : n = Len(answers) /\ m = Len(wire)
  BY LenProperties DEF Typed
<1>2. answers[k] \in Answer
  BY ElementOfSeq DEF Typed
<1>3. PICK r \in Response : r = answers[k].rsp
  BY <1>2 DEF Answer
<1>4. r.body \in Seq(Content) /\ Len(r.body) \in Nat /\ (r.body = <<>> => Len(r.body) = 0)
  <2>1. r.body \in Seq(Content)
    BY DEF Response
  <2> QED
    BY <2>1, LenProperties, EmptySeq
<1>5. PICK i \in 1 .. m : i = h[k]
  BY <1>1 DEF Starts
<1>6. /\ wire[i] = [head |-> r.headers]
      /\ h[k + 1] = i + Len(r.body) + 1 /\ h[n + 1] = m + 1
  BY <1>1, <1>3, <1>5 DEF Starts, IsAt
<1>7. "head" \in DOMAIN wire[i] /\ wire[i].head = r.headers
  BY <1>6
<1>8. IsHead(i)
  BY <1>1, <1>7 DEF IsHead
<1>9. Announced(r)
  BY <1>3 DEF Framed
<1>10. CASE Delimited(k) /\ answers[k].method = "HEAD"
  <2>1. r.body = <<>>
    BY <1>3, <1>10 DEF Delimited
  <2>2. BodyLength(i, k) = 0
    BY <1>10 DEF BodyLength
  <2> QED
    BY <1>3, <1>4, <1>5, <1>8, <2>1, <2>2
<1>11. CASE Delimited(k) /\ answers[k].method # "HEAD" /\ r.body # <<>>
  <2>1. BodyLength(i, k) = Len(r.body)
    BY <1>7, <1>9, <1>11 DEF BodyLength, Announced
  <2> QED
    BY <1>3, <1>5, <1>8, <2>1
<1>12. CASE Delimited(k) /\ answers[k].method # "HEAD" /\ r.body = <<>>
  <2>1. k = n
    BY <1>1, <1>3, <1>12 DEF Delimited
  <2>2. BodyLength(i, k) = m - i
    BY <1>1, <1>7, <1>9, <1>12 DEF BodyLength, Announced
  <2>3. m - i = 0
    BY <1>4, <1>6, <1>12, <2>1
  <2> QED
    BY <1>3, <1>4, <1>5, <1>8, <1>12, <2>2, <2>3
<1> QED
  BY <1>5, <1>8, <1>10, <1>11, <1>12

\* After none but delimited responses the client looks for the next where it starts.
LEMMA ReadsStarts ==
  ASSUME Typed, Framed, NEW h, Starts(h), NEW k \in 1 .. Len(answers),
         \A l \in 1 .. k - 1 : Delimited(l)
  PROVE  ReadFrom[k] = h[k]
<1>1. PICK n \in Nat : n = Len(answers)
  BY LenProperties DEF Typed
<1>2. h[1] = 1 /\ \A j \in 1 .. n : h[j + 1] = h[j] + Len(answers[j].rsp.body) + 1
  BY <1>1 DEF Starts
<1>3. PICK g : g = ReadFrom
  OBVIOUS
<1>4. ASSUME NEW j \in 1 .. k PROVE g[j] = IF j = 1 THEN 1 ELSE After(g[j - 1], j)
  <2>1. j \in 1 .. Len(answers) + 1
    BY <1>1
  <2> QED
    BY <1>3, <2>1, ReadFollows DEF Follows
<1> DEFINE S == {j \in 1 .. k : g[j] # h[j]}
<1>5. ASSUME S # {} PROVE FALSE
  <2>1. S \in SUBSET Nat
    OBVIOUS
  <2>2. PICK j \in S : \A l \in S : j <= l
    <3> HIDE DEF S
    <3> QED
      BY <1>5, <2>1, LeastPosition
  <2>3. j \in 1 .. k /\ g[j] # h[j]
    BY <2>2
  <2>4. CASE j = 1
    BY <1>2, <1>4, <2>3, <2>4
  <2>5. CASE j # 1
    <3>1. PICK l \in 1 .. k - 1 : l = j - 1
      BY <1>1, <2>3, <2>5
    <3>2. l \in 1 .. k /\ l \in 1 .. n /\ l + 1 = j /\ ~(j <= l)
      BY <1>1, <2>3, <3>1
    <3>3. l \notin S
      <4> HIDE DEF S
      <4> QED
        BY <2>2, <3>2
    <3>4. g[l] = h[l]
      BY <3>2, <3>3
    <3> HIDE DEF S
    <3>5. IsHead(h[l]) /\ BodyLength(h[l], l) = Len(answers[l].rsp.body)
      BY <1>1, <3>1, <3>2, LengthAt
    <3>6. g[j] = After(h[l], j)
      BY <1>4, <2>3, <2>5, <3>1, <3>4
    <3>7. After(h[l], j) = h[l] + Len(answers[l].rsp.body) + 1
      BY <3>1, <3>5 DEF After
    <3>8. h[j] = h[l] + Len(answers[l].rsp.body) + 1
      BY <1>2, <3>2
    <3> QED
      BY <2>3, <3>6, <3>7, <3>8
  <2> QED
    BY <2>4, <2>5
<1>6. k \in 1 .. k
  BY <1>1
<1> QED
  BY <1>3, <1>5, <1>6

\* t has the l elements of s after the position i.
IsPart(t, s, i, l) == Len(t) = l /\ \A j \in 1 .. l : t[j] = s[i + j]

\* SubSeq returns such a part.
LEMMA PartIs ==
  ASSUME NEW S, NEW s \in Seq(S), NEW i \in Nat, NEW l \in Nat, i + l <= Len(s)
  PROVE  SubSeq(s, i + 1, i + l) \in Seq(S) /\ IsPart(SubSeq(s, i + 1, i + l), s, i, l)
BY DEF IsPart

\* The invariant implies that a client finds the heads and the bodies.
LEMMA FramedImplies == Typed /\ Framed => ResponsesFramed
<1> SUFFICES ASSUME Typed, Framed, NEW k \in 1 .. Len(answers),
                    \A l \in 1 .. k - 1 : Delimited(l), NEW i, i = ReadFrom[k]
             PROVE  /\ IsHead(i)
                    /\ Delimited(k) =>
                          /\ i + BodyLength(i, k) <= Len(wire)
                          /\ SubSeq(wire, i + 1, i + BodyLength(i, k))
                                = Bytes(answers[k].rsp.body)
  BY DEF ResponsesFramed
<1>1. PICK h : Starts(h)
  BY DEF Framed
<1>2. PICK n \in Nat, m \in Nat : n = Len(answers) /\ m = Len(wire)
  BY LenProperties DEF Typed
<1>3. i = h[k]
  BY <1>1, ReadsStarts
<1>4. IsHead(i) /\ (Delimited(k) => BodyLength(i, k) = Len(answers[k].rsp.body))
  BY <1>1, <1>3, LengthAt
<1>5. answers[k] \in Answer
  BY ElementOfSeq DEF Typed
<1>6. PICK r \in Response : r = answers[k].rsp
  BY <1>5 DEF Answer
<1>7. r.body \in Seq(Content)
  BY DEF Response
<1>8. PICK l \in Nat : l = Len(r.body)
  BY <1>7, LenProperties
<1>9. PICK b : b = Bytes(r.body)
  OBVIOUS
<1>10. /\ i \in 1 .. m /\ i + l <= m
      /\ \A j \in 1 .. l : wire[i + j] = [byte |-> r.body[j]]
  <2>1. h[k] \in 1 .. m /\ h[k + 1] <= m + 1 /\ h[k + 1] = h[k] + l + 1 /\ IsAt(r, wire, h[k])
    BY <1>1, <1>2, <1>6, <1>8 DEF Starts
  <2>2. h[k] + l + 1 <= m + 1
    BY <2>1
  <2> QED
    BY <1>3, <1>8, <2>1, <2>2 DEF IsAt
<1>11. b \in Seq(Sent) /\ Len(b) = l /\ \A j \in 1 .. l : b[j] = [byte |-> r.body[j]]
  BY <1>7, <1>8, <1>9, BytesType
<1>12. PICK s : s = SubSeq(wire, i + 1, i + l)
  OBVIOUS
<1>13. s \in Seq(Sent) /\ Len(s) = l /\ \A j \in 1 .. l : s[j] = wire[i + j]
  <2>1. wire \in Seq(Sent) /\ i \in Nat /\ i + l <= Len(wire)
    BY <1>2, <1>10 DEF Typed
  <2>2. s \in Seq(Sent) /\ IsPart(s, wire, i, l)
    BY <1>12, <2>1, PartIs
  <2> QED
    BY <2>2 DEF IsPart
<1>14. s = b
  BY <1>10, <1>11, <1>13, SeqEqual
<1>15. (Delimited(k) => BodyLength(i, k) = l) /\ Bytes(answers[k].rsp.body) = b
  BY <1>4, <1>6, <1>8, <1>9
<1> QED
  BY <1>2, <1>4, <1>10, <1>12, <1>14, <1>15

\* A client that goes by Content-Length finds the head of each response that comes after
\* none but delimited ones, in the order of the requests, and behind it the body, whole, if
\* that response is delimited itself, whatever FileHandler and the route's handler did to
\* the body (WriteResponse, which announces the length last). Of what comes after a kept
\* response without a body (PutFile's), or one to HEAD that has a body, it says nothing.
THEOREM AnswersFramed == Spec => []ResponsesFramed
<1>1. Init => Framed
  BY FramedInit
<1>2. Typed /\ Framed /\ [Next]_vars => Framed'
  BY FramedStep
<1>3. Typed /\ Framed => ResponsesFramed
  BY FramedImplies
<1>4. Spec => []Typed
  BY TypeCorrect
<1> QED
  BY <1>1, <1>2, <1>3, <1>4, PTL DEF Spec

=============================================================================
