----------------------------- MODULE Positions ------------------------------
(***************************************************************************)
(* Lemmas about the positions of a sequence: they are well ordered, what   *)
(* holds at each if it holds further on holds at all, and a recursion that *)
(* leads further on defines a function.                                    *)
(***************************************************************************)
EXTENDS Naturals, Sequences, SequenceTheorems, WellFoundedInduction, TLAPS

\* A sequence of one element.
LEMMA OneType == ASSUME NEW S, NEW r \in S PROVE <<r>> \in Seq(S)
OBVIOUS

\* Concatenation is associative, for a first sequence of one element.
LEMMA RegroupOne ==
  ASSUME NEW S, NEW r \in S, NEW x \in Seq(S), NEW y \in Seq(S)
  PROVE  <<r>> \o (x \o y) = (<<r>> \o x) \o y
BY OneType, ConcatAssociative

\* Two adjacent parts of a sequence make one.
LEMMA Adjoin ==
  ASSUME NEW S, NEW s \in Seq(S), NEW a \in 1 .. Len(s) + 1, NEW b \in a .. Len(s) + 1,
         NEW c \in b - 1 .. Len(s)
  PROVE  SubSeq(s, a, b - 1) \o SubSeq(s, b, c) = SubSeq(s, a, c)
<1>1. PICK m : m = b - 1
  OBVIOUS
<1>2. m \in a - 1 .. Len(s) /\ c \in m .. Len(s) /\ m + 1 = b
  BY <1>1
<1>3. SubSeq(s, a, m) \o SubSeq(s, m + 1, c) = SubSeq(s, a, c)
  BY <1>2, ConcatAdjacentSubSeq
<1> QED
  BY <1>1, <1>2, <1>3

\* A set of positions that is not empty has a first one.
LEMMA LeastPosition ==
  ASSUME NEW S \in SUBSET Nat, S # {}
  PROVE  \E m \in S : \A k \in S : m <= k
<1> DEFINE R == {p \in Nat \X Nat : p[1] < p[2]}
<1>1. R = OpToRel(<, Nat)
  BY DEF OpToRel
<1>2. IsWellFoundedOn(R, Nat)
  BY <1>1, NatLessThanWellFounded
<1>3. PICK m \in S : \A k \in S : <<k, m>> \notin R
  BY <1>2, WFMin
<1>4. ASSUME NEW k \in S PROVE m <= k
  <2>1. k \in Nat /\ m \in Nat
    OBVIOUS
  <2>2. ~(k < m)
    BY <1>3, <1>4, <2>1
  <2> QED
    BY <2>1, <2>2
<1> QED
  BY <1>4

\* Induction from the last position down, for a set of positions.
LEMMA DownInduction ==
  ASSUME NEW N \in Nat, NEW P,
         \A i \in 1 .. N : (\A k \in i + 1 .. N : k \in P) => i \in P
  PROVE  \A i \in 1 .. N : i \in P
<1> SUFFICES ASSUME NEW i \in 1 .. N, i \notin P PROVE FALSE
  OBVIOUS
<1> DEFINE D == {d \in 0 .. N : N - d \in 1 .. N /\ N - d \notin P}
<1>1. N - i \in D
  OBVIOUS
<1>2. PICK d \in D : \A e \in D : d <= e
  <2>1. D \in SUBSET Nat
    OBVIOUS
  <2> HIDE DEF D
  <2>2. D # {}
    BY <1>1
  <2> QED
    BY <2>1, <2>2, LeastPosition
<1>3. N - d \in 1 .. N /\ N - d \notin P /\ d \in 0 .. N
  BY <1>2
<1>4. ASSUME NEW k \in N - d + 1 .. N PROVE k \in P
  <2>1. N - k \in 0 .. N /\ N - (N - k) = k /\ N - k < d /\ k \in 1 .. N
    BY <1>3, <1>4
  <2> QED
    BY <1>2, <2>1
<1> QED
  BY <1>3, <1>4

\* h collects what A says of the positions in C on the way that next leads, and the
\* position where that way ends.
Collects(h, N, C, next, A) ==
    \A i \in 1 .. N :
        h[i] = IF i \in C THEN <<A[i] \o h[next[i]][1], h[next[i]][2]>> ELSE << <<>>, i>>

\* There is such a function when every step leads further on.
LEMMA RecursionExists ==
  ASSUME NEW N \in Nat, NEW C, NEW next, NEW A,
         \A i \in 1 .. N : i \in C => next[i] \in i + 1 .. N
  PROVE  \E h : Collects(h, N, C, next, A)
<1> DEFINE Good(h, i) ==
              h[i] = IF i \in C THEN <<A[i] \o h[next[i]][1], h[next[i]][2]>> ELSE << <<>>, i>>
           P == {i \in 1 .. N + 1 : \E h : \A k \in i .. N : Good(h, k)}
<1>1. ASSUME NEW i \in 1 .. N + 1, \A k \in i + 1 .. N + 1 : k \in P PROVE i \in P
  <2>1. CASE i = N + 1
    <3>1. \A k \in i .. N : FALSE
      BY <2>1
    <3> QED
      BY <3>1
  <2>2. CASE i # N + 1
    <3>0. i \in 1 .. N /\ i + 1 \in i + 1 .. N + 1
      BY <2>2
    <3>1. i \in 1 .. N /\ i + 1 \in P
      <4> HIDE DEF P
      <4> QED
        BY <1>1, <3>0
    <3>2. PICK f : \A k \in i + 1 .. N : Good(f, k)
      BY <3>1
    <3> DEFINE v == IF i \in C THEN <<A[i] \o f[next[i]][1], f[next[i]][2]>> ELSE << <<>>, i>>
               g == [k \in i .. N |-> IF k = i THEN v ELSE f[k]]
    <3>3. \A k \in i + 1 .. N : g[k] = f[k]
      BY <3>1
    <3>4. g[i] = v
      BY <3>1
    <3> HIDE DEF g, v
    <3>5. Good(g, i)
      <4>1. i \in C => g[next[i]] = f[next[i]]
        BY <3>1, <3>3
      <4> QED
        BY <3>4, <4>1 DEF v
    <3>6. ASSUME NEW k \in i + 1 .. N PROVE Good(g, k)
      <4>1. k \in C => next[k] \in i + 1 .. N
        BY <3>1, <3>6
      <4>2. g[k] = f[k] /\ (k \in C => g[next[k]] = f[next[k]]) /\ Good(f, k)
        BY <3>2, <3>3, <4>1
      <4> QED
        BY <4>2
    <3>7. \A k \in i .. N : k = i \/ k \in i + 1 .. N
      BY <3>1
    <3> HIDE DEF Good
    <3> QED
      BY <3>1, <3>5, <3>6, <3>7
  <2> QED
    BY <2>1, <2>2
<1>2. \A i \in 1 .. N + 1 : (\A k \in i + 1 .. N + 1 : k \in P) => i \in P
  BY <1>1
<1>3. 1 \in P
  <2> HIDE DEF P
  <2>1. N + 1 \in Nat
    OBVIOUS
  <2>2. \A i \in 1 .. N + 1 : i \in P
    BY <1>2, <2>1, DownInduction
  <2> QED
    BY <2>2
<1> QED
  BY <1>3 DEF Collects

\* f collects in the same way, and nothing else.
Walks(f, N, C, next, A) ==
    /\ f = [i \in 1 .. N |-> f[i]]
    /\ \A i \in 1 .. N : /\ i \in C => f[i] = A[i] \o f[next[i]]
                         /\ i \notin C => f[i] = <<>>

\* There is such a function, too.
LEMMA WalkExists ==
  ASSUME NEW N \in Nat, NEW C, NEW next, NEW A,
         \A i \in 1 .. N : i \in C => next[i] \in i + 1 .. N
  PROVE  \E f : Walks(f, N, C, next, A)
<1>1. PICK h : Collects(h, N, C, next, A)
  BY RecursionExists
<1> DEFINE f == [i \in 1 .. N |-> h[i][1]]
<1>2. ASSUME NEW i \in 1 .. N
      PROVE  /\ i \in C => f[i] = A[i] \o f[next[i]]
             /\ i \notin C => f[i] = <<>>
  <2>1. h[i] = IF i \in C THEN <<A[i] \o h[next[i]][1], h[next[i]][2]>> ELSE << <<>>, i>>
    BY <1>1 DEF Collects
  <2>2. ASSUME i \in C PROVE f[i] = A[i] \o f[next[i]]
    <3>1. next[i] \in 1 .. N
      BY <2>2
    <3>2. PICK m : m = next[i]
      OBVIOUS
    <3>3. f[m] = h[m][1] /\ f[i] = h[i][1]
      BY <3>1, <3>2
    <3>4. PICK x, y : x = A[i] \o h[m][1] /\ y = h[m][2]
      OBVIOUS
    <3>5. h[i] = <<x, y>>
      BY <2>1, <2>2, <3>2, <3>4
    <3> HIDE DEF f
    <3>6. f[i] = x
      BY <3>3, <3>5
    <3> QED
      BY <3>2, <3>3, <3>4, <3>6
  <2>3. ASSUME i \notin C PROVE f[i] = <<>>
    BY <2>1, <2>3
  <2> QED
    BY <2>2, <2>3
<1>3. f = [i \in 1 .. N |-> f[i]]
  OBVIOUS
<1> HIDE DEF f
<1>4. Walks(f, N, C, next, A)
  BY <1>2, <1>3 DEF Walks
<1> QED
  BY <1>4

=============================================================================
