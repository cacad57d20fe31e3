--------------------------- MODULE JoyStreamProofs ---------------------------
(***************************************************************************)
(* One direction of a connection keeps what it promises, for every length  *)
(* of the buffers, the packages and the chains: no buffer overflows, the   *)
(* receiver never loses its place in the stream, and the packages arrive   *)
(* as StreamSpec says.                                                     *)
(*                                                                         *)
(* The invariant behind this follows the bytes through the whole           *)
(* connection: what recvbuf, the kernels and sendbuf hold one after the    *)
(* other is the bytes of whole packages, until the connection is lost, and *)
(* then it is the first part of such bytes.  Every step moves bytes        *)
(* without changing that concatenation, or adds whole packages at its end, *)
(* or takes whole packages from its front.                                 *)
(*                                                                         *)
(* First come the lemmas about BytesOf and Complete, packages as bytes and *)
(* the packages whose last byte is among some bytes: both flatten a        *)
(* sequence, so that they distribute over concatenation, and everything    *)
(* else follows from that, by induction on the packages.                   *)
(***************************************************************************)
EXTENDS JoyStream, DataLemmas, TLAPS

-----------------------------------------------------------------------------
(* Sequences. *)

\* A set of lists that contains the empty one and with every list all that are one
\* element longer has them all.
LEMMA SeqInduction ==
  ASSUME NEW S, NEW T, <<>> \in T,
         \A s \in Seq(S), e \in S : s \in T => Append(s, e) \in T
  PROVE  Seq(S) \subseteq T
<1> DEFINE N == {n \in Nat : \A s \in Seq(S) : Len(s) = n => s \in T}
<1>1. 0 \in N
  BY EmptySeq
<1>2. ASSUME NEW n \in Nat, n \in N
      PROVE  n + 1 \in N
  <2> SUFFICES ASSUME NEW s \in Seq(S), Len(s) = n + 1
               PROVE  s \in T
    OBVIOUS
  <2>1. s # <<>>
    BY EmptySeq
  <2>2. PICK r \in Seq(S), e \in S : s = Append(r, e)
    BY <2>1, SequenceEmptyOrAppend
  <2>3. Len(r) = n
    BY <2>2, AppendProperties, LenProperties
  <2> QED BY <1>2, <2>2, <2>3
<1>3. Nat \subseteq N
  <2> HIDE DEF N
  <2> QED BY <1>1, <1>2, SetInduction
<1> QED BY <1>3, LenProperties

\* A list is what is before a place in it, and what is after.
LEMMA CutSeq ==
  ASSUME NEW S, NEW s \in Seq(S), NEW n \in 0..Len(s)
  PROVE  /\ SubSeq(s, 1, n) \in Seq(S) /\ Drop(s, n) \in Seq(S)
         /\ s = SubSeq(s, 1, n) \o Drop(s, n)
         /\ Len(SubSeq(s, 1, n)) = n /\ Len(Drop(s, n)) = Len(s) - n
<1>1. Len(s) \in Nat /\ n \in Nat
  BY LenProperties
<1>2. SubSeq(s, 1, n) \in Seq(S) /\ Len(SubSeq(s, 1, n)) = n
  BY PrefixSeq
<1>3. Drop(s, n) \in Seq(S) /\ Len(Drop(s, n)) = Len(s) - n
  BY SuffixSeq DEF Drop
<1>4. s = SubSeq(s, 1, n) \o Drop(s, n)
  <2>1. 1 \in 1..Len(s)+1 /\ n \in 1-1..Len(s) /\ Len(s) \in n..Len(s)
    BY <1>1
  <2>2. SubSeq(s, 1, n) \o SubSeq(s, n + 1, Len(s)) = SubSeq(s, 1, Len(s))
    BY <2>1, ConcatAdjacentSubSeq
  <2> QED BY <2>2, SubSeqFull DEF Drop
<1> QED BY <1>2, <1>3, <1>4

\* What is cut out of a concatenation at the seam.
LEMMA CutConcat ==
  ASSUME NEW S, NEW a \in Seq(S), NEW b \in Seq(S)
  PROVE  /\ SubSeq(a \o b, 1, Len(a)) = a
         /\ Drop(a \o b, Len(a)) = b
         /\ a \o b \in Seq(S) /\ Len(a \o b) = Len(a) + Len(b)
         /\ Len(a) \in Nat /\ Len(b) \in Nat
<1> DEFINE u == a \o b
           n == Len(a)
<1>1. /\ u \in Seq(S) /\ Len(u) = n + Len(b) /\ n \in Nat /\ Len(b) \in Nat
      /\ \A i \in 1..n+Len(b) : u[i] = IF i <= n THEN a[i] ELSE b[i - n]
  BY ConcatProperties, LenProperties
<1>2. n \in 0..Len(u)
  BY <1>1
<1> HIDE DEF u
<1>3. SubSeq(u, 1, n) = a
  <2>1. /\ SubSeq(u, 1, n) \in Seq(S) /\ Len(SubSeq(u, 1, n)) = n
        /\ \A i \in 1..n : SubSeq(u, 1, n)[i] = u[i]
    BY <1>1, <1>2, PrefixSeq
  <2>2. \A i \in 1..n : u[i] = a[i]
    BY <1>1
  <2> QED BY <2>1, <2>2, SeqEqual
<1>4. Drop(u, n) = b
  <2>1. /\ Drop(u, n) \in Seq(S) /\ Len(Drop(u, n)) = Len(u) - n
        /\ \A i \in 1..Len(u)-n : Drop(u, n)[i] = u[n + i]
    BY <1>1, <1>2, SuffixSeq DEF Drop
  <2>2. Len(u) - n = Len(b)
    BY <1>1
  <2>3. ASSUME NEW i \in 1..Len(b)
        PROVE  u[n + i] = b[i]
    <3>1. n + i \in 1..n+Len(b) /\ ~(n + i <= n) /\ (n + i) - n = i
      BY <1>1
    <3> QED BY <1>1, <3>1
  <2> QED BY <2>1, <2>2, <2>3, SeqEqual
<1> QED BY <1>1, <1>3, <1>4 DEF u

\* Of two ways to write a list as a concatenation, the shorter front is part of the
\* longer one.
SameConcat(S, a, b, c, d) ==
  /\ {a, b, c, d} \subseteq Seq(S)
  /\ a \o b = c \o d
  /\ Len(a) <= Len(c)

Overlap(S, a, b, c, d, e) == e \in Seq(S) /\ c = a \o e /\ b = e \o d

\* Two ways to cut a sequence in two differ by a piece e that one side has at
\* its end and the other at its beginning.
LEMMA SplitConcat ==
  ASSUME NEW S, NEW a, NEW b, NEW c, NEW d, SameConcat(S, a, b, c, d)
  PROVE  \E e : Overlap(S, a, b, c, d, e)
<1>0. a \in Seq(S) /\ b \in Seq(S) /\ c \in Seq(S) /\ d \in Seq(S) /\ Len(a) <= Len(c)
  BY DEF SameConcat
<1>8. a \o b = c \o d
  BY DEF SameConcat
<1> DEFINE n == Len(a)
           e == Drop(c, n)
           f == SubSeq(c, 1, n)
<1>1. n \in 0..Len(c)
  BY <1>0, LenProperties
<1>2. f \in Seq(S) /\ e \in Seq(S) /\ c = f \o e /\ Len(f) = n
  BY <1>0, <1>1, CutSeq
<1> HIDE DEF e, f
<1> DEFINE g == e \o d
           u == a \o b
<1>3. g \in Seq(S)
  BY <1>0, <1>2, ConcatProperties
<1>4. u = f \o g
  <2>1. (f \o e) \o d = f \o (e \o d)
    BY <1>0, <1>2, ConcatAssociative
  <2> QED BY <1>2, <1>8, <2>1
<1>5. SubSeq(u, 1, n) = a /\ Drop(u, n) = b
  BY <1>0, CutConcat
<1> HIDE DEF g, u, n
<1>6. SubSeq(f \o g, 1, Len(f)) = f /\ Drop(f \o g, Len(f)) = g
  BY <1>2, <1>3, CutConcat
<1>7. f = a /\ b = g
  BY <1>2, <1>4, <1>5, <1>6
<1> QED BY <1>2, <1>7 DEF g, Overlap

\* Concatenation is associative, of three parts and of four.
Regroups(a, b, c)       == (a \o b) \o c = a \o (b \o c)
RegroupsFour(a, b, c, d) == (a \o (b \o c)) \o d = (a \o b) \o (c \o d)

\* Concatenation is associative: three sequences.
LEMMA Regroup ==
  ASSUME NEW S, NEW a \in Seq(S), NEW b \in Seq(S), NEW c \in Seq(S)
  PROVE  Regroups(a, b, c)
BY ConcatAssociative DEF Regroups

\* Concatenation is associative: four sequences.
LEMMA RegroupFour ==
  ASSUME NEW S, NEW a \in Seq(S), NEW b \in Seq(S), NEW c \in Seq(S), NEW d \in Seq(S)
  PROVE  RegroupsFour(a, b, c, d)
<1> DEFINE u == a \o b
<1>1. u \in Seq(S)
  BY ConcatProperties
<1>2. Regroups(a, b, c)
  BY Regroup
<1> HIDE DEF u
<1>3. Regroups(u, c, d)
  BY <1>1, Regroup
<1> QED BY <1>2, <1>3 DEF u, Regroups, RegroupsFour

-----------------------------------------------------------------------------
(* FlattenSeq. *)

\* f[n] is the concatenation of the first n lists of ss.
Flattens(S, ss, f) ==
  /\ f \in [0..Len(ss) -> Seq(S)]
  /\ f[0] = <<>>
  /\ \A n \in 1..Len(ss) : f[n] = f[n - 1] \o ss[n]

\* FlattenSeq makes these concatenations one after the other.
LEMMA FlattenSteps ==
  ASSUME NEW S, NEW ss \in Seq(Seq(S))
  PROVE  \E f : Flattens(S, ss, f) /\ FlattenSeq(ss) = f[Len(ss)]
<1> DEFINE N == Len(ss)
           Q == Seq(S)
           g == [n \in 1..N |-> [s \in Q |-> s \o ss[n]]]
<1>1. N \in Nat /\ \A n \in 1..N : ss[n] \in Q
  BY LenProperties
<1>2. <<>> \in Q
  BY EmptySeq
<1>3. g \in [1..N -> [Q -> Q]]
  <2>1. \A n \in 1..N : \A s \in Q : s \o ss[n] \in Q
    BY <1>1, ConcatProperties
  <2> HIDE DEF Q, N
  <2> QED BY <2>1
<1>4. \A n \in 1..N : \A s \in Q : g[n][s] = s \o ss[n]
  OBVIOUS
<1> HIDE DEF g, Q, N
<1>5. PICK f : IsRecursion(f, N, Q, <<>>, g)
  BY <1>1, <1>2, <1>3, RecursionExists
<1>6. /\ f \in [0..N -> Q]
      /\ f[0] = <<>>
      /\ \A n \in 1..N : f[n] = f[n - 1] \o ss[n]
  <2>1. \A n \in 1..N : f[n] = g[n][f[n - 1]] /\ f[n - 1] \in Q
    <3>1. \A n \in 1..N : n - 1 \in 0..N
      BY <1>1
    <3> QED BY <1>5, <3>1 DEF IsRecursion
  <2> QED BY <1>4, <1>5, <2>1 DEF IsRecursion
<1>7. Flattens(S, ss, f)
  BY <1>6, Zenon DEF Flattens, N, Q
<1>8. FlattenSeq(ss) = f[N]
  <2>1. CASE N = 0
    <3>1. ss = <<>>
      BY <2>1, EmptySeq DEF N
    <3>2. FlattenSeq(ss) = ss
      BY <2>1 DEF FlattenSeq, N
    <3> QED BY <1>6, <2>1, <3>1, <3>2
  <2>2. CASE N # 0
    <3> DEFINE Step(h) == [i \in 1..N |-> IF i = 1 THEN ss[i] ELSE h[i - 1] \o ss[i]]
               h == [i \in 1..N |-> f[i]]
               c == CHOOSE d : d = Step(d)
    <3>1. h = Step(h)
      <4>1. ASSUME NEW i \in 1..N
            PROVE  f[i] = IF i = 1 THEN ss[i] ELSE h[i - 1] \o ss[i]
        <5>1. CASE i = 1
          <6>1. i - 1 = 0 /\ f[0] \o ss[i] = ss[i]
            BY <1>1, <1>6, <5>1, ConcatEmptySeq DEF Q
          <6>2. f[i] = f[i - 1] \o ss[i]
            BY <1>6
          <6> QED BY <5>1, <6>1, <6>2
        <5>2. CASE i # 1
          <6>1. i - 1 \in 1..N
            BY <1>1, <5>2
          <6> QED BY <1>6, <5>2, <6>1
        <5> QED BY <5>1, <5>2
      <4> HIDE DEF N
      <4> QED BY <4>1
    <3>2. c = Step(c)
      <4> HIDE DEF h, Step
      <4> QED BY <3>1, Zenon
    <3>3. \A i \in 1..N : c[i] = IF i = 1 THEN ss[i] ELSE c[i - 1] \o ss[i]
      <4> HIDE DEF c
      <4> QED BY <3>2
    <3>4. FlattenSeq(ss) = c[N]
      BY <2>2 DEF FlattenSeq, N
    <3> HIDE DEF c
    <3> DEFINE T == {n \in 1..N : c[n] = f[n]}
    <3>5. 1 \in T
      <4>1. 1 \in 1..N /\ 1 - 1 = 0
        BY <1>1, <2>2
      <4>2. f[1] = f[0] \o ss[1] /\ c[1] = ss[1]
        BY <1>6, <3>3, <4>1
      <4>3. f[0] \o ss[1] = ss[1]
        BY <1>1, <1>6, <4>1, ConcatEmptySeq DEF Q
      <4> QED BY <4>1, <4>2, <4>3
    <3>6. ASSUME NEW n \in 1..N-1, n \in T
          PROVE  n + 1 \in T
      <4>1. n + 1 \in 1..N /\ (n + 1) - 1 = n /\ n + 1 # 1
        BY <1>1
      <4>2. c[n + 1] = c[n] \o ss[n + 1] /\ f[n + 1] = f[n] \o ss[n + 1]
        BY <1>6, <3>3, <4>1
      <4> QED BY <3>6, <4>1, <4>2
    <3>7. N \in 1..N /\ 1 \in Int /\ N \in Int
      BY <1>1, <2>2
    <3>8. 1..N \subseteq T
      <4> HIDE DEF T
      <4> QED BY <3>5, <3>6, <3>7, IntervalInduction
    <3> QED BY <3>4, <3>7, <3>8
  <2> QED BY <2>1, <2>2
<1> QED BY <1>7, <1>8 DEF N

\* h gives a list for everything in A.
ListsOf(h, A, S) == h \in [A -> Seq(S)]

\* The values that h has for the elements of s, and their concatenation.
ValuesOf(h, s) == [i \in DOMAIN s |-> h[s[i]]]
FlatMap(h, s)  == FlattenSeq(ValuesOf(h, s))

\* The lists that h gives for the elements of s are as many as the elements.
LEMMA ValuesOfType ==
  ASSUME NEW A, NEW S, NEW h, ListsOf(h, A, S), NEW s \in Seq(A)
  PROVE  /\ ValuesOf(h, s) \in Seq(Seq(S))
         /\ Len(ValuesOf(h, s)) = Len(s)
<1>1. Len(s) \in Nat /\ DOMAIN s = 1..Len(s) /\ \A i \in 1..Len(s) : h[s[i]] \in Seq(S)
  BY LenProperties DEF ListsOf
<1> QED BY <1>1 DEF ValuesOf

\* No element, no list: FlatMap of nothing is nothing.
LEMMA FlatMapEmpty ==
  ASSUME NEW h
  PROVE  FlatMap(h, <<>>) = <<>>
<1>1. ValuesOf(h, <<>>) = <<>>
  BY DEF ValuesOf
<1>2. Len(<<>>) = 0
  OBVIOUS
<1> QED BY <1>1, <1>2 DEF FlattenSeq, FlatMap

\* FlatMap joins lists of elements of S to such a list.
LEMMA FlatMapType ==
  ASSUME NEW A, NEW S, NEW h, ListsOf(h, A, S), NEW s \in Seq(A)
  PROVE  FlatMap(h, s) \in Seq(S)
<1> DEFINE ss == ValuesOf(h, s)
<1>1. ss \in Seq(Seq(S))
  BY ValuesOfType
<1> HIDE DEF ss
<1>2. PICK f : Flattens(S, ss, f) /\ FlattenSeq(ss) = f[Len(ss)]
  BY <1>1, FlattenSteps
<1>3. Len(ss) \in 0..Len(ss)
  BY <1>1, LenProperties
<1>4. FlattenSeq(ss) \in Seq(S)
  BY <1>2, <1>3 DEF Flattens
<1> QED BY <1>4 DEF ss, FlatMap

\* One more element adds its list.
LEMMA FlatMapAppend ==
  ASSUME NEW A, NEW S, NEW h, ListsOf(h, A, S), NEW s \in Seq(A), NEW e \in A
  PROVE  FlatMap(h, Append(s, e)) = FlatMap(h, s) \o h[e]
<1> DEFINE ss == ValuesOf(h, s)
           r == Append(s, e)
           rr == ValuesOf(h, r)
           N == Len(s)
<1>1. /\ r \in Seq(A) /\ Len(r) = N + 1 /\ N \in Nat
      /\ \A i \in 1..N : r[i] = s[i]
      /\ r[N + 1] = e
      /\ DOMAIN s = 1..N /\ DOMAIN r = 1..N+1
  BY AppendProperties, LenProperties
<1> HIDE DEF r
<1>2. ss \in Seq(Seq(S)) /\ Len(ss) = N
  BY ValuesOfType
<1>3. rr \in Seq(Seq(S)) /\ Len(rr) = N + 1
  BY <1>1, ValuesOfType
<1>16. \A i \in 1..N : ss[i] = h[s[i]]
  BY <1>1 DEF ValuesOf
<1>17. \A i \in 1..N+1 : rr[i] = h[r[i]]
  BY <1>1 DEF ValuesOf
<1>5. FlattenSeq(ss) = FlatMap(h, s) /\ FlattenSeq(rr) = FlatMap(h, r)
  BY DEF FlatMap
<1> HIDE DEF ss, rr, N
<1>4. /\ \A i \in 1..N : rr[i] = ss[i] /\ i \in 1..N+1
      /\ rr[N + 1] = h[e] /\ N + 1 \in 1..N+1 /\ (N + 1) - 1 = N
  <2>1. \A i \in 1..N : i \in 1..N+1
    BY <1>1
  <2>2. N + 1 \in 1..N+1 /\ (N + 1) - 1 = N
    BY <1>1
  <2>3. \A i \in 1..N : rr[i] = ss[i]
    BY <1>1, <1>16, <1>17, <2>1
  <2>4. rr[N + 1] = h[e]
    BY <1>1, <1>17, <2>2
  <2> QED BY <2>1, <2>2, <2>3, <2>4
<1>6. PICK f : Flattens(S, ss, f) /\ FlattenSeq(ss) = f[N]
  BY <1>2, FlattenSteps
<1>7. PICK g : Flattens(S, rr, g) /\ FlattenSeq(rr) = g[N + 1]
  BY <1>3, FlattenSteps
<1>8. /\ f[0] = <<>> /\ g[0] = <<>>
      /\ \A n \in 1..N : f[n] = f[n - 1] \o ss[n]
      /\ \A n \in 1..N+1 : g[n] = g[n - 1] \o rr[n]
  BY <1>2, <1>3, <1>6, <1>7 DEF Flattens
<1> DEFINE T == {n \in 0..N : f[n] = g[n]}
<1>9. 0 \in T
  BY <1>1, <1>8
<1>10. ASSUME NEW n \in 0..N-1, n \in T
       PROVE  n + 1 \in T
  <2>1. n + 1 \in 1..N /\ n + 1 \in 1..N+1 /\ n + 1 \in 0..N /\ (n + 1) - 1 = n
    BY <1>1
  <2>2. f[n + 1] = f[n] \o ss[n + 1] /\ g[n + 1] = g[n] \o rr[n + 1]
    BY <1>8, <2>1
  <2>3. rr[n + 1] = ss[n + 1]
    BY <1>4, <2>1
  <2> QED BY <1>10, <2>1, <2>2, <2>3
<1>11. 0 \in Int /\ N \in Int /\ N \in 0..N
  BY <1>1
<1>12. 0..N \subseteq T
  <2> HIDE DEF T
  <2> QED BY <1>9, <1>10, <1>11, IntervalInduction
<1>13. f[N] = g[N]
  BY <1>11, <1>12
<1>14. g[N + 1] = g[N] \o rr[N + 1]
  BY <1>4, <1>8
<1>15. FlatMap(h, r) = FlatMap(h, s) \o h[e]
  BY <1>4, <1>5, <1>6, <1>7, <1>13, <1>14
<1> QED BY <1>15 DEF r

\* A concatenation gives the concatenation.
LEMMA FlatMapConcat ==
  ASSUME NEW A, NEW S, NEW h, ListsOf(h, A, S), NEW s \in Seq(A), NEW t \in Seq(A)
  PROVE  FlatMap(h, s \o t) = FlatMap(h, s) \o FlatMap(h, t)
<1> DEFINE T == {u \in Seq(A) : FlatMap(h, s \o u) = FlatMap(h, s) \o FlatMap(h, u)}
<1>1. <<>> \in T
  <2>1. <<>> \in Seq(A) /\ s \o <<>> = s
    BY EmptySeq, ConcatEmptySeq
  <2>2. FlatMap(h, s) \o FlatMap(h, <<>>) = FlatMap(h, s)
    <3>1. FlatMap(h, s) \in Seq(S)
      BY FlatMapType
    <3> QED BY <3>1, FlatMapEmpty, ConcatEmptySeq
  <2> QED BY <2>1, <2>2
<1>2. ASSUME NEW u \in Seq(A), NEW e \in A, u \in T
      PROVE  Append(u, e) \in T
  <2>1. Append(u, e) \in Seq(A)
    BY AppendProperties
  <2>2. s \o Append(u, e) = Append(s \o u, e)
    <3>1. s \o u \in Seq(A) /\ <<e>> \in Seq(A)
      BY ConcatProperties
    <3>2. Append(u, e) = u \o <<e>> /\ Append(s \o u, e) = (s \o u) \o <<e>>
      BY <3>1, AppendIsConcat
    <3> QED BY <3>1, <3>2, ConcatAssociative
  <2>3. FlatMap(h, Append(s \o u, e)) = FlatMap(h, s \o u) \o h[e]
    <3> DEFINE v == s \o u
    <3>1. v \in Seq(A)
      BY ConcatProperties
    <3> HIDE DEF v, T
    <3>2. FlatMap(h, Append(v, e)) = FlatMap(h, v) \o h[e]
      BY <3>1, FlatMapAppend
    <3> QED BY <3>2 DEF v
  <2>4. FlatMap(h, Append(u, e)) = FlatMap(h, u) \o h[e]
    BY FlatMapAppend
  <2>5. (FlatMap(h, s) \o FlatMap(h, u)) \o h[e] = FlatMap(h, s) \o (FlatMap(h, u) \o h[e])
    <3> DEFINE x == FlatMap(h, s)
               y == FlatMap(h, u)
               z == h[e]
    <3>1. x \in Seq(S) /\ y \in Seq(S)
      BY FlatMapType
    <3>2. z \in Seq(S)
      BY DEF ListsOf
    <3> HIDE DEF x, y, z, T
    <3>3. (x \o y) \o z = x \o (y \o z)
      BY <3>1, <3>2, ConcatAssociative
    <3> QED BY ONLY <3>3, Zenon DEF x, y, z
  <2> QED BY <1>2, <2>1, <2>2, <2>3, <2>4, <2>5
<1>3. Seq(A) \subseteq T
  <2> HIDE DEF T
  <2> QED BY <1>1, <1>2, SeqInduction
<1> QED BY <1>3

-----------------------------------------------------------------------------
(* Packages and bytes. *)

Byte == Pkg \X Nat

\* A package has at least a header.
LEMMA BytesType ==
  ASSUME NEW p \in Pkg
  PROVE  /\ Bytes(p) \in Seq(Byte) /\ Len(Bytes(p)) = PkgLen[p]
         /\ PkgLen[p] \in Nat /\ PkgLen[p] >= HeadSize /\ HeadSize \in Nat \ {0}
         /\ \A o \in 1..PkgLen[p] : Bytes(p)[o] = <<p, o>>
<1>1. PkgLen[p] \in Nat /\ PkgLen[p] >= HeadSize /\ HeadSize \in Nat \ {0}
  BY StreamAssumption
<1>2. \A o \in 1..PkgLen[p] : <<p, o>> \in Byte
  BY <1>1 DEF Byte
<1> QED BY <1>1, <1>2 DEF Bytes

PkgBytes  == [p \in Pkg |-> Bytes(p)]
ByteEnded == [b \in Byte |-> Ended(b)]

\* A package is a list of bytes.
LEMMA PkgBytesType == ListsOf(PkgBytes, Pkg, Byte)
BY BytesType DEF PkgBytes, ListsOf

\* A byte ends at most one package.
LEMMA ByteEndedType == ListsOf(ByteEnded, Byte, Pkg)
<1>1. ASSUME NEW b \in Byte
      PROVE  Ended(b) \in Seq(Pkg)
  <2>1. b[1] \in Pkg
    BY DEF Byte
  <2> QED BY <2>1, EmptySeq DEF Ended
<1> QED BY <1>1 DEF ByteEnded, ListsOf

\* The bytes of a list of packages are the bytes of each, joined.
LEMMA BytesOfFlat ==
  ASSUME NEW ps \in Seq(Pkg)
  PROVE  BytesOf(ps) = FlatMap(PkgBytes, ps)
<1>1. DOMAIN ps = 1..Len(ps) /\ \A i \in 1..Len(ps) : ps[i] \in Pkg
  BY LenProperties
<1>2. [i \in DOMAIN ps |-> Bytes(ps[i])] = ValuesOf(PkgBytes, ps)
  BY <1>1 DEF ValuesOf, PkgBytes
<1> QED BY <1>2 DEF BytesOf, FlatMap

\* The complete packages of a list of bytes are those that its bytes end,
\* joined.
LEMMA CompleteFlat ==
  ASSUME NEW x \in Seq(Byte)
  PROVE  Complete(x) = FlatMap(ByteEnded, x)
<1>1. DOMAIN x = 1..Len(x) /\ \A i \in 1..Len(x) : x[i] \in Byte
  BY LenProperties
<1>2. [i \in DOMAIN x |-> Ended(x[i])] = ValuesOf(ByteEnded, x)
  BY <1>1 DEF ValuesOf, ByteEnded
<1> QED BY <1>2 DEF Complete, FlatMap

\* The bytes of packages are bytes, of no package none.
LEMMA BytesOfType ==
  /\ BytesOf(<<>>) = <<>>
  /\ \A ps \in Seq(Pkg) : BytesOf(ps) \in Seq(Byte)
<1>1. BytesOf(<<>>) = <<>>
  BY EmptySeq, BytesOfFlat, FlatMapEmpty
<1>2. ASSUME NEW ps \in Seq(Pkg)
      PROVE  BytesOf(ps) \in Seq(Byte)
  BY BytesOfFlat, FlatMapType, PkgBytesType
<1> QED BY <1>1, <1>2

\* The complete packages of bytes are packages, of no byte none.
LEMMA CompleteType ==
  /\ Complete(<<>>) = <<>>
  /\ \A x \in Seq(Byte) : Complete(x) \in Seq(Pkg)
<1>1. Complete(<<>>) = <<>>
  BY EmptySeq, CompleteFlat, FlatMapEmpty
<1>2. ASSUME NEW x \in Seq(Byte)
      PROVE  Complete(x) \in Seq(Pkg)
  BY CompleteFlat, FlatMapType, ByteEndedType
<1> QED BY <1>1, <1>2

\* BytesOf and Complete distribute over concatenation.
LEMMA BytesOfConcat ==
  ASSUME NEW ps \in Seq(Pkg), NEW qs \in Seq(Pkg)
  PROVE  BytesOf(ps \o qs) = BytesOf(ps) \o BytesOf(qs)
<1> DEFINE rs == ps \o qs
<1>1. rs \in Seq(Pkg)
  BY ConcatProperties
<1>2. FlatMap(PkgBytes, rs) = FlatMap(PkgBytes, ps) \o FlatMap(PkgBytes, qs)
  BY FlatMapConcat, PkgBytesType
<1> HIDE DEF rs
<1>3. BytesOf(rs) = BytesOf(ps) \o BytesOf(qs)
  BY <1>1, <1>2, BytesOfFlat
<1> QED BY <1>3 DEF rs

\* The complete packages of two lists of bytes, one after the other.
LEMMA CompleteConcat ==
  ASSUME NEW x \in Seq(Byte), NEW y \in Seq(Byte)
  PROVE  Complete(x \o y) = Complete(x) \o Complete(y)
<1> DEFINE z == x \o y
<1>1. z \in Seq(Byte)
  BY ConcatProperties
<1>2. FlatMap(ByteEnded, z) = FlatMap(ByteEnded, x) \o FlatMap(ByteEnded, y)
  BY FlatMapConcat, ByteEndedType
<1> HIDE DEF z
<1>3. Complete(z) = Complete(x) \o Complete(y)
  BY <1>1, <1>2, CompleteFlat
<1> QED BY <1>3 DEF z

\* One more package, one more byte.
LEMMA BytesOfAppend ==
  ASSUME NEW ps \in Seq(Pkg), NEW p \in Pkg
  PROVE  BytesOf(Append(ps, p)) = BytesOf(ps) \o Bytes(p)
<1> DEFINE rs == Append(ps, p)
<1>1. rs \in Seq(Pkg)
  BY AppendProperties
<1>2. FlatMap(PkgBytes, rs) = FlatMap(PkgBytes, ps) \o PkgBytes[p]
  BY FlatMapAppend, PkgBytesType
<1>3. PkgBytes[p] = Bytes(p)
  BY DEF PkgBytes
<1> HIDE DEF rs
<1>4. BytesOf(rs) = BytesOf(ps) \o Bytes(p)
  BY <1>1, <1>2, <1>3, BytesOfFlat
<1> QED BY <1>4 DEF rs

\* One more byte completes the package that it ends, if it ends one.
LEMMA CompleteAppend ==
  ASSUME NEW x \in Seq(Byte), NEW b \in Byte
  PROVE  Complete(Append(x, b)) = Complete(x) \o Ended(b)
<1> DEFINE z == Append(x, b)
<1>1. z \in Seq(Byte)
  BY AppendProperties
<1>2. FlatMap(ByteEnded, z) = FlatMap(ByteEnded, x) \o ByteEnded[b]
  BY FlatMapAppend, ByteEndedType
<1>3. ByteEnded[b] = Ended(b)
  BY DEF ByteEnded
<1> HIDE DEF z
<1>4. Complete(z) = Complete(x) \o Ended(b)
  BY <1>1, <1>2, <1>3, CompleteFlat
<1> QED BY <1>4 DEF z

\* One package: it is complete with its last byte.
LEMMA BytesOfOne ==
  ASSUME NEW p \in Pkg
  PROVE  BytesOf(<<p>>) = Bytes(p)
<1>1. BytesOf(Append(<<>>, p)) = BytesOf(<<>>) \o Bytes(p)
  BY EmptySeq, BytesOfAppend
<1>2. Append(<<>>, p) = <<p>>
  OBVIOUS
<1> QED BY <1>1, <1>2, BytesOfType, BytesType, ConcatEmptySeq

\* The first k bytes of a package complete it if k is its length, and nothing
\* else.
LEMMA CompleteOne ==
  ASSUME NEW p \in Pkg, NEW k \in 0..PkgLen[p]
  PROVE  Complete(SubSeq(Bytes(p), 1, k)) = IF k = PkgLen[p] THEN <<p>> ELSE <<>>
<1> DEFINE B == Bytes(p)
           L == PkgLen[p]
           x(n) == SubSeq(B, 1, n)
           T == {n \in 0..L-1 : Complete(x(n)) = <<>>}
<1>1. /\ B \in Seq(Byte) /\ Len(B) = L /\ L \in Nat /\ L # 0
      /\ \A o \in 1..L : B[o] = <<p, o>>
  BY BytesType
<1> HIDE DEF B, L
<1>2. ASSUME NEW n \in 0..L-1
      PROVE  /\ x(n) \in Seq(Byte) /\ B[n + 1] \in Byte
             /\ x(n + 1) = Append(x(n), B[n + 1])
             /\ Ended(B[n + 1]) = IF n + 1 = L THEN <<p>> ELSE <<>>
  <2>1. n \in 0..Len(B) /\ n < Len(B) /\ n + 1 \in 1..L
    BY <1>1
  <2>2. B[n + 1] = <<p, n + 1>>
    BY <1>1, <2>1
  <2>3. Ended(B[n + 1]) = IF n + 1 = L THEN <<p>> ELSE <<>>
    BY <2>2 DEF Ended, L
  <2>4. B[n + 1] \in Byte
    BY <2>1, <2>2 DEF Byte
  <2> QED BY <1>1, <2>1, <2>3, <2>4, PrefixSeq
<1>3. 0 \in T
  <2>1. x(0) = <<>> /\ 0 \in 0..L-1
    BY <1>1, SubSeqEmpty
  <2> QED BY <2>1, CompleteType
<1>4. ASSUME NEW n \in 0..L-2, n \in T
      PROVE  n + 1 \in T
  <2>1. n \in 0..L-1 /\ n + 1 \in 0..L-1 /\ n + 1 # L
    BY <1>1
  <2> HIDE DEF x
  <2>2. Complete(Append(x(n), B[n + 1])) = Complete(x(n)) \o Ended(B[n + 1])
    BY <1>2, <2>1, CompleteAppend
  <2>3. <<>> \o <<>> = <<>>
    OBVIOUS
  <2> QED BY <1>2, <1>4, <2>1, <2>2, <2>3
<1>5. 0..L-1 \subseteq T
  <2>1. 0 \in Int /\ L - 1 \in Int /\ \A n \in 0..(L-1)-1 : n \in 0..L-2
    BY <1>1
  <2> HIDE DEF T
  <2> QED BY <1>3, <1>4, <2>1, IntervalInduction
<1>6. Complete(x(L)) = <<p>>
  <2>1. L - 1 \in 0..L-1 /\ (L - 1) + 1 = L
    BY <1>1
  <2> DEFINE n == L - 1
  <2>2. x(n) \in Seq(Byte) /\ B[n + 1] \in Byte /\ x(n + 1) = Append(x(n), B[n + 1])
        /\ Ended(B[n + 1]) = <<p>> /\ Complete(x(n)) = <<>>
    BY <1>2, <1>5, <2>1
  <2>3. n + 1 = L
    BY <2>1
  <2> HIDE DEF x, n
  <2>4. Complete(Append(x(n), B[n + 1])) = Complete(x(n)) \o Ended(B[n + 1])
    BY <2>2, CompleteAppend
  <2>5. <<>> \o <<p>> = <<p>>
    OBVIOUS
  <2> QED BY <2>2, <2>3, <2>4, <2>5
<1>7. k \in 0..L
  BY DEF L
<1>8. Complete(x(k)) = IF k = L THEN <<p>> ELSE <<>>
  <2>1. CASE k = L
    BY <1>6, <2>1
  <2>2. CASE k # L
    <3>1. k \in 0..L-1
      BY <1>1, <1>7, <2>2
    <3> QED BY <1>5, <2>2, <3>1
  <2> QED BY <2>1, <2>2
<1> QED BY <1>8 DEF B, L

\* Complete takes apart what BytesOf put together.
LEMMA CompleteBytesOf ==
  ASSUME NEW ps \in Seq(Pkg)
  PROVE  Complete(BytesOf(ps)) = ps
<1> DEFINE T == {qs \in Seq(Pkg) : Complete(BytesOf(qs)) = qs}
<1>1. <<>> \in T
  BY EmptySeq, BytesOfType, CompleteType
<1>2. ASSUME NEW qs \in Seq(Pkg), NEW p \in Pkg, qs \in T
      PROVE  Append(qs, p) \in T
  <2>1. BytesOf(qs) \in Seq(Byte) /\ Bytes(p) \in Seq(Byte) /\ Append(qs, p) \in Seq(Pkg)
    BY BytesOfType, BytesType, AppendProperties
  <2>2. Complete(BytesOf(qs) \o Bytes(p)) = Complete(BytesOf(qs)) \o Complete(Bytes(p))
    BY <2>1, CompleteConcat
  <2>3. Complete(Bytes(p)) = <<p>>
    <3>1. PkgLen[p] \in 0..PkgLen[p] /\ SubSeq(Bytes(p), 1, PkgLen[p]) = Bytes(p)
      BY BytesType, SubSeqFull
    <3> QED BY <3>1, CompleteOne
  <2>4. Append(qs, p) = qs \o <<p>>
    BY AppendIsConcat
  <2> QED BY <1>2, <2>1, <2>2, <2>3, <2>4, BytesOfAppend
<1>3. Seq(Pkg) \subseteq T
  <2> HIDE DEF T
  <2> QED BY <1>1, <1>2, SeqInduction
<1> QED BY <1>3

-----------------------------------------------------------------------------
(* What the connection holds. *)

\* The bytes x are those of packages that fit in a temporary buffer.
Small    == {p \in Pkg : PkgLen[p] < TempBufSize}
Whole(x) == \E ps \in Seq(Small) : x = BytesOf(ps)

\* The bytes x are the first ones of such packages.
Cut(x) == x \in Seq(Byte) /\ \E w \in Seq(Byte) : Whole(x \o w)

\* Packages that fit in the buffer are packages.
LEMMA SmallSeq ==
  ASSUME NEW ps \in Seq(Small)
  PROVE  ps \in Seq(Pkg)
<1>1. Small \subseteq Pkg
  BY DEF Small
<1> QED BY <1>1, SeqMonotonic

\* A package is not longer than packages among which it is.
LEMMA LenBytesOf ==
  ASSUME NEW ps \in Seq(Pkg)
  PROVE  \A i \in 1..Len(ps) : PkgLen[ps[i]] <= Len(BytesOf(ps))
<1> DEFINE T == {qs \in Seq(Pkg) : \A i \in 1..Len(qs) : PkgLen[qs[i]] <= Len(BytesOf(qs))}
<1>1. <<>> \in T
  BY EmptySeq
<1>2. ASSUME NEW qs \in Seq(Pkg), NEW p \in Pkg, qs \in T
      PROVE  Append(qs, p) \in T
  <2> DEFINE r == Append(qs, p)
             q == BytesOf(qs)
             b == Bytes(p)
  <2>1. /\ r \in Seq(Pkg)
        /\ \A i \in 1..Len(r) : (i \in 1..Len(qs) /\ r[i] = qs[i]) \/ r[i] = p
    BY AppendElements
  <2>2. /\ BytesOf(r) = q \o b
        /\ q \in Seq(Byte)
        /\ b \in Seq(Byte) /\ Len(b) = PkgLen[p] /\ PkgLen[p] \in Nat
    BY BytesOfAppend, BytesOfType, BytesType
  <2>3. \A i \in 1..Len(qs) : PkgLen[qs[i]] \in Nat /\ PkgLen[qs[i]] <= Len(q)
    BY <1>2, BytesType, LenProperties
  <2> HIDE DEF r, q, b
  <2>4. Len(BytesOf(r)) = Len(q) + PkgLen[p] /\ Len(q) \in Nat
    BY <2>2, CutConcat
  <2>5. ASSUME NEW i \in 1..Len(r)
        PROVE  PkgLen[r[i]] <= Len(BytesOf(r))
    <3>1. CASE i \in 1..Len(qs) /\ r[i] = qs[i]
      BY <2>2, <2>3, <2>4, <3>1
    <3>2. CASE r[i] = p
      BY <2>2, <2>4, <3>2
    <3> QED BY <2>1, <3>1, <3>2
  <2> QED BY <2>1, <2>5 DEF r
<1>3. Seq(Pkg) \subseteq T
  <2> HIDE DEF T
  <2> QED BY <1>1, <1>2, SeqInduction
<1> QED BY <1>3

\* The parts of a list of elements of R are such lists.
LEMMA PartsType ==
  ASSUME NEW S, NEW R, NEW a \in Seq(S), NEW b \in Seq(S), a \o b \in Seq(R)
  PROVE  a \in Seq(R) /\ b \in Seq(R)
<1> DEFINE u == a \o b
           n == Len(a)
<1>1. /\ SubSeq(u, 1, n) = a /\ Drop(u, n) = b
      /\ Len(u) = n + Len(b) /\ n \in Nat /\ Len(b) \in Nat
  BY CutConcat
<1>2. n \in 0..Len(u) /\ u \in Seq(R)
  BY <1>1
<1> HIDE DEF u, n
<1>3. SubSeq(u, 1, n) \in Seq(R) /\ Drop(u, n) \in Seq(R)
  BY <1>2, CutSeq
<1> QED BY <1>1, <1>3

\* Bytes that are whole packages: their complete packages have just these
\* bytes, and nothing is cut.
LEMMA WholeIs ==
  ASSUME NEW x, Whole(x)
  PROVE  /\ x \in Seq(Byte)
         /\ BytesOf(Complete(x)) = x
         /\ Complete(x) \in Seq(Small) /\ Complete(x) \in Seq(Pkg)
         /\ Cut(x)
<1>1. PICK ps \in Seq(Small) : x = BytesOf(ps)
  BY DEF Whole
<1>2. ps \in Seq(Pkg)
  BY SmallSeq
<1>3. Complete(x) = ps /\ x \in Seq(Byte)
  BY <1>1, <1>2, CompleteBytesOf, BytesOfType
<1>4. Cut(x)
  BY <1>3, EmptySeq, ConcatEmptySeq DEF Cut
<1> QED BY <1>1, <1>2, <1>3, <1>4

\* Whole packages with whole packages behind them are whole packages.
LEMMA WholeMore ==
  ASSUME NEW x, Whole(x), NEW ps \in Seq(Small)
  PROVE  Whole(x \o BytesOf(ps))
<1>1. PICK qs \in Seq(Small) : x = BytesOf(qs)
  BY DEF Whole
<1>2. qs \in Seq(Pkg) /\ ps \in Seq(Pkg)
  BY SmallSeq
<1>3. x \o BytesOf(ps) = BytesOf(qs \o ps)
  BY <1>1, <1>2, BytesOfConcat
<1>4. qs \o ps \in Seq(Small)
  BY ConcatProperties
<1> QED BY <1>3, <1>4 DEF Whole

\* Behind whole packages, packages begin.
LEMMA WholeRest ==
  ASSUME NEW ms \in Seq(Pkg), NEW y \in Seq(Byte), Whole(BytesOf(ms) \o y)
  PROVE  Whole(y)
<1> DEFINE m == BytesOf(ms)
           u == m \o y
           c == Complete(y)
<1>1. m \in Seq(Byte) /\ c \in Seq(Pkg) /\ Complete(m) = ms
  BY BytesOfType, CompleteType, CompleteBytesOf
<1>2. Complete(u) = ms \o c
  BY <1>1, CompleteConcat
<1>3. BytesOf(Complete(u)) = u /\ Complete(u) \in Seq(Small)
  BY WholeIs
<1>4. c \in Seq(Small)
  BY <1>1, <1>2, <1>3, PartsType
<1>5. BytesOf(c) \in Seq(Byte) /\ m \o BytesOf(c) = u
  <2> HIDE DEF u, c
  <2>1. BytesOf(ms \o c) = m \o BytesOf(c)
    BY <1>1, BytesOfConcat
  <2> QED BY <1>1, <1>2, <1>3, <2>1, BytesOfType
<1>6. BytesOf(c) = y
  <2> DEFINE z == BytesOf(c)
  <2>1. Drop(m \o y, Len(m)) = y
    BY <1>1, CutConcat
  <2>2. Drop(m \o z, Len(m)) = z
    BY <1>1, <1>5, CutConcat
  <2> QED BY <1>5, <2>1, <2>2
<1> QED BY <1>4, <1>6 DEF Whole

\* What is behind whole packages, in bytes cut at most at the end, is cut at
\* most at the end.
LEMMA CutRest ==
  ASSUME NEW ms \in Seq(Pkg), NEW y \in Seq(Byte), Cut(BytesOf(ms) \o y)
  PROVE  Cut(y)
<1>1. PICK w \in Seq(Byte) : Whole((BytesOf(ms) \o y) \o w)
  BY DEF Cut
<1>2. (BytesOf(ms) \o y) \o w = BytesOf(ms) \o (y \o w)
  BY BytesOfType, ConcatAssociative
<1>3. y \o w \in Seq(Byte)
  BY ConcatProperties
<1>4. Whole(y \o w)
  BY <1>1, <1>2, <1>3, WholeRest
<1> QED BY <1>4 DEF Cut

\* The first part of bytes that are cut at most at the end is cut at most at
\* its end.
LEMMA CutPart ==
  ASSUME NEW x \in Seq(Byte), NEW y \in Seq(Byte), Cut(x \o y)
  PROVE  Cut(x)
<1>1. PICK w \in Seq(Byte) : Whole((x \o y) \o w)
  BY DEF Cut
<1>2. (x \o y) \o w = x \o (y \o w)
  BY ConcatAssociative
<1>3. y \o w \in Seq(Byte)
  BY ConcatProperties
<1> QED BY <1>1, <1>2, <1>3 DEF Cut

\* The packages that are complete in the first bytes of packages are the first of them.
LEMMA CompletePart ==
  ASSUME NEW ps \in Seq(Pkg)
  PROVE  \A x, w \in Seq(Byte) :
           x \o w = BytesOf(ps) => \E u \in Seq(Byte) : x = BytesOf(Complete(x)) \o u
<1> DEFINE Good(x) == \E u \in Seq(Byte) : x = BytesOf(Complete(x)) \o u
           T == {qs \in Seq(Pkg) : \A x, w \in Seq(Byte) : x \o w = BytesOf(qs) => Good(x)}
<1>1. <<>> \in T
  <2>1. ASSUME NEW x \in Seq(Byte), NEW w \in Seq(Byte), x \o w = BytesOf(<<>>)
        PROVE  Good(x)
    <3>1. x = <<>>
      BY <2>1, BytesOfType, ConcatEqualIffEmpty, EmptySeq
    <3>2. <<>> \in Seq(Byte) /\ x = BytesOf(Complete(x)) \o <<>>
      BY <3>1, BytesOfType, CompleteType, EmptySeq, ConcatEmptySeq
    <3> QED BY <3>2
  <2> QED BY <2>1, EmptySeq
<1>2. ASSUME NEW qs \in Seq(Pkg), NEW p \in Pkg, qs \in T
      PROVE  Append(qs, p) \in T
  <2> DEFINE q == BytesOf(qs)
             b == Bytes(p)
             L == PkgLen[p]
  <2>1. q \in Seq(Byte) /\ b \in Seq(Byte) /\ Len(b) = L /\ L \in Nat
    BY BytesOfType, BytesType
  <2>2. Append(qs, p) \in Seq(Pkg) /\ BytesOf(Append(qs, p)) = q \o b
    BY AppendProperties, BytesOfAppend
  <2>3. ASSUME NEW x \in Seq(Byte), NEW w \in Seq(Byte), x \o w = q \o b
        PROVE  Good(x)
    <3> HIDE DEF b, L, T, Good
    <3>1. CASE Len(x) <= Len(q)
      <4> HIDE DEF q
      <4>1. PICK e : Overlap(Byte, x, w, q, b, e)
        <5>1. SameConcat(Byte, x, w, q, b)
          BY <2>1, <2>3, <3>1 DEF SameConcat
        <5> QED BY <5>1, SplitConcat
      <4>2. e \in Seq(Byte) /\ q = x \o e
        BY <4>1 DEF Overlap
      <4> QED BY <1>2, <4>2 DEF q, T
    <3>2. CASE Len(q) <= Len(x)
      <4>1. PICK e : Overlap(Byte, q, b, x, w, e)
        <5> HIDE DEF q
        <5>1. SameConcat(Byte, q, b, x, w)
          BY <2>1, <2>3, <3>2 DEF SameConcat
        <5> QED BY <5>1, SplitConcat
      <4>7. e \in Seq(Byte) /\ x = q \o e /\ b = e \o w
        BY <4>1 DEF Overlap
      <4>2. Len(e) \in 0..L /\ SubSeq(b, 1, Len(e)) = e
        BY <2>1, <4>7, CutConcat
      <4>3. Complete(x) = qs \o Complete(e)
        BY <2>1, <4>7, CompleteConcat, CompleteBytesOf
      <4>4. Complete(e) = IF Len(e) = L THEN <<p>> ELSE <<>>
        BY <4>2, CompleteOne DEF b, L
      <4>5. CASE Len(e) = L
        <5>1. e = b
          BY <2>1, <4>2, <4>5, SubSeqFull
        <5>2. Complete(x) = Append(qs, p)
          BY <4>3, <4>4, <4>5, AppendIsConcat
        <5> HIDE DEF q
        <5>3. x = BytesOf(Complete(x))
          BY <2>2, <4>7, <5>1, <5>2
        <5>4. x = x \o <<>> /\ <<>> \in Seq(Byte)
          BY EmptySeq, ConcatEmptySeq
        <5> QED BY <5>3, <5>4 DEF Good
      <4>6. CASE Len(e) # L
        <5>1. Complete(x) = qs
          BY <4>3, <4>4, <4>6, ConcatEmptySeq
        <5> QED BY <4>7, <5>1 DEF Good
      <4> QED BY <4>5, <4>6
    <3>3. Len(x) \in Nat /\ Len(q) \in Nat
      BY <2>1, LenProperties
    <3> QED BY <3>1, <3>2, <3>3
  <2> HIDE DEF Good
  <2> QED BY <2>2, <2>3
<1>3. Seq(Pkg) \subseteq T
  <2> HIDE DEF T
  <2> QED BY <1>1, <1>2, SeqInduction
<1> QED BY <1>3

\* Bytes cut at most at the end begin with the bytes of their complete
\* packages.
LEMMA CutBegins ==
  ASSUME NEW x, Cut(x)
  PROVE  IsPrefix(BytesOf(Complete(x)), x)
<1>1. x \in Seq(Byte)
  BY DEF Cut
<1>2. PICK w \in Seq(Byte) : Whole(x \o w)
  BY DEF Cut
<1>3. PICK ps \in Seq(Small) : x \o w = BytesOf(ps)
  BY <1>2 DEF Whole
<1>4. PICK u \in Seq(Byte) : x = BytesOf(Complete(x)) \o u
  BY <1>1, <1>3, SmallSeq, CompletePart
<1> DEFINE m == BytesOf(Complete(x))
<1>5. m \in Seq(Byte)
  BY <1>1, CompleteType, BytesOfType
<1> HIDE DEF m
<1>6. /\ SubSeq(m \o u, 1, Len(m)) = m /\ Len(m \o u) = Len(m) + Len(u)
      /\ Len(m) \in Nat /\ Len(u) \in Nat
  BY <1>5, CutConcat
<1>7. SubSeq(m, 1, Len(m)) = m
  BY <1>5, SubSeqFull
<1>8. x = m \o u
  BY <1>4 DEF m
<1>9. IsPrefix(m, x)
  BY <1>6, <1>7, <1>8 DEF IsPrefix
<1> QED BY <1>9 DEF m

\* The first bytes of packages begin with a header, and it is a good one.
LEMMA CutHeader ==
  ASSUME NEW v, Cut(v), HeadSize <= Len(v)
  PROVE  /\ SubSeq(v, 1, HeadSize) = SubSeq(Bytes(v[1][1]), 1, HeadSize)
         /\ PkgLen[v[1][1]] < TempBufSize
<1>1. v \in Seq(Byte)
  BY DEF Cut
<1>2. PICK w \in Seq(Byte) : Whole(v \o w)
  BY DEF Cut
<1>3. PICK rs \in Seq(Small) : v \o w = BytesOf(rs)
  BY <1>2 DEF Whole
<1>4. HeadSize \in Nat \ {0} /\ Len(v) \in Nat /\ Len(w) \in Nat
  BY <1>1, StreamAssumption, LenProperties
<1>5. rs # <<>>
  <2>1. Len(v \o w) # 0
    BY <1>1, <1>4, ConcatProperties
  <2> QED BY <1>3, <2>1, BytesOfType, EmptySeq
<1> DEFINE p == Head(rs)
           b == Bytes(p)
           t == BytesOf(Tail(rs))
<1>6. p \in Small /\ Tail(rs) \in Seq(Pkg) /\ p \in Pkg /\ rs = <<p>> \o Tail(rs)
  <2>1. p \in Small /\ Tail(rs) \in Seq(Small)
    BY <1>5, HeadTailProperties
  <2>2. rs = <<p>> \o Tail(rs)
    <3>1. Len(rs) \in Nat /\ Len(rs) # 0 /\ 1 \in 1..Len(rs) /\ Len(rs) \in 1..Len(rs)
      BY <1>5, EmptySeq, LenProperties
    <3>2. SubSeq(rs, 1, Len(rs)) = <<rs[1]>> \o SubSeq(rs, 2, Len(rs))
      BY <3>1, SubSeqRecursiveFirst
    <3>3. Tail(rs) = SubSeq(rs, 2, Len(rs)) /\ rs = SubSeq(rs, 1, Len(rs)) /\ p = rs[1]
      BY <1>5, TailIsSubSeq, SubSeqFull
    <3> QED BY <3>2, <3>3
  <2> QED BY <2>1, <2>2, SmallSeq DEF Small
<1> HIDE DEF p
<1>7. v \o w = b \o t
  <2>1. <<p>> \in Seq(Pkg)
    BY <1>6
  <2>2. BytesOf(<<p>> \o Tail(rs)) = BytesOf(<<p>>) \o BytesOf(Tail(rs))
    BY <1>6, <2>1, BytesOfConcat
  <2> QED BY <1>3, <1>6, <2>2, BytesOfOne
<1>8. /\ b \in Seq(Byte) /\ Len(b) = PkgLen[p] /\ PkgLen[p] \in Nat /\ HeadSize <= PkgLen[p]
      /\ t \in Seq(Byte) /\ Len(t) \in Nat
      /\ \A o \in 1..PkgLen[p] : b[o] = <<p, o>>
  BY <1>6, BytesType, BytesOfType, LenProperties
<1> HIDE DEF b, t
<1>9. ASSUME NEW i \in 1..HeadSize
      PROVE  v[i] = b[i]
  <2>1. (v \o w)[i] = v[i]
    BY <1>1, <1>4, ConcatProperties
  <2>2. (b \o t)[i] = b[i]
    BY <1>4, <1>8, ConcatProperties
  <2> QED BY <1>7, <2>1, <2>2
<1>10. SubSeq(v, 1, HeadSize) = SubSeq(b, 1, HeadSize)
  <2>1. HeadSize \in 0..Len(v) /\ HeadSize \in 0..Len(b)
    BY <1>4, <1>8
  <2>2. /\ SubSeq(v, 1, HeadSize) \in Seq(Byte) /\ Len(SubSeq(v, 1, HeadSize)) = HeadSize
        /\ \A i \in 1..HeadSize : SubSeq(v, 1, HeadSize)[i] = v[i]
    BY <1>1, <2>1, PrefixSeq
  <2>3. /\ SubSeq(b, 1, HeadSize) \in Seq(Byte) /\ Len(SubSeq(b, 1, HeadSize)) = HeadSize
        /\ \A i \in 1..HeadSize : SubSeq(b, 1, HeadSize)[i] = b[i]
    BY <1>8, <2>1, PrefixSeq
  <2>4. \A i \in 1..HeadSize : SubSeq(v, 1, HeadSize)[i] = SubSeq(b, 1, HeadSize)[i]
    BY <1>9, <2>2, <2>3
  <2> QED BY <2>2, <2>3, <2>4, SeqEqual
<1>11. v[1][1] = p
  <2>1. 1 \in 1..HeadSize /\ 1 \in 1..PkgLen[p]
    BY <1>4, <1>8
  <2> QED BY <1>8, <1>9, <2>1
<1> QED BY <1>6, <1>10, <1>11 DEF b, Small

-----------------------------------------------------------------------------
(* Reading. *)

\* joynetReadRecvBuf took whole packages from the front of buf, no more than fit in
\* the receive chain; what is left begins with a header again, and no check failed.
Took(buf, res) ==
  /\ res.ok
  /\ res.pkgs \in Seq(Pkg) /\ res.rest \in Seq(Byte)
  /\ buf = BytesOf(res.pkgs) \o res.rest
  /\ Len(recvq) + Len(res.pkgs) <= ChainNum
  /\ Len(res.rest) <= Len(buf)

\* joynet_read_recv_buf takes complete packages from the front of the buffer,
\* in order.
LEMMA ReadTakes ==
  ASSUME NEW buf, Cut(buf), NEW res \in ReadRecvBuf(buf)
  PROVE  Took(buf, res)
<1> DEFINE C == Complete(buf)
<1>1. buf \in Seq(Byte) /\ C \in Seq(Pkg) /\ Len(C) \in Nat /\ Len(buf) \in Nat
  BY CompleteType, LenProperties DEF Cut
<1>2. PICK ms \in Moved(buf, C) : res = ReadResult(buf, ms)
  BY DEF ReadRecvBuf
<1>3. PICK n \in 0..ChainNum : ms = SubSeq(C, 1, n) /\ Movable(buf, C, n)
  BY <1>2 DEF Moved
<1> HIDE DEF C
<1>4. /\ n \in 0..Len(C)
      /\ IsPrefix(BytesOf(SubSeq(C, 1, n)), buf)
      /\ Len(recvq) + n <= ChainNum
  BY <1>1, <1>3 DEF Movable
<1>5. ms \in Seq(Pkg) /\ Len(ms) = n
  BY <1>1, <1>3, <1>4, PrefixSeq
<1> DEFINE m   == BytesOf(ms)
           pos == Len(m)
           y   == Drop(buf, pos)
<1>6. m \in Seq(Byte) /\ pos \in Nat
  BY <1>5, BytesOfType, LenProperties
<1>7. pos \in 0..Len(buf) /\ SubSeq(m, 1, pos) = m /\ SubSeq(m, 1, pos) = SubSeq(buf, 1, pos)
  BY <1>1, <1>3, <1>4, <1>6, SubSeqFull DEF IsPrefix
<1> HIDE DEF m, pos
<1>8. y \in Seq(Byte) /\ Len(y) = Len(buf) - pos /\ buf = m \o y
  <2>1. y \in Seq(Byte) /\ Len(y) = Len(buf) - pos /\ buf = SubSeq(buf, 1, pos) \o y
    BY <1>1, <1>7, CutSeq
  <2> HIDE DEF y
  <2>2. SubSeq(buf, 1, pos) = m
    BY <1>7
  <2> QED BY <2>1, <2>2
<1>9. Cut(y)
  BY <1>5, <1>8, CutRest DEF m
<1>10. pos + HeadSize <= Len(buf) => GoodHeader(buf, pos)
  <2> SUFFICES ASSUME pos + HeadSize <= Len(buf)
               PROVE  GoodHeader(buf, pos)
    OBVIOUS
  <2>1. HeadSize \in Nat \ {0}
    BY StreamAssumption
  <2>2. HeadSize <= Len(y)
    BY <1>1, <1>6, <1>8, <2>1
  <2>3. /\ SubSeq(y, 1, HeadSize) = SubSeq(Bytes(y[1][1]), 1, HeadSize)
        /\ PkgLen[y[1][1]] < TempBufSize
    BY <1>9, <2>2, CutHeader
  <2>4. y[1] = buf[pos + 1]
    <3>1. 1 \in 1..Len(buf)-pos
      BY <1>1, <1>6, <2>1
    <3> QED BY <1>1, <1>7, <3>1, SuffixSeq DEF Drop
  <2>5. SubSeq(y, 1, HeadSize) = SubSeq(buf, pos + 1, pos + HeadSize)
    <3> DEFINE i == pos + 1
               j == Len(buf)
    <3>1. /\ i \in 1..Len(buf) /\ j \in 1..Len(buf)
          /\ 1 \in 1..j-i+1 /\ HeadSize \in 1..j-i+1
      BY <1>1, <1>6, <2>1
    <3>2. i + 1 - 1 = pos + 1 /\ i + HeadSize - 1 = pos + HeadSize
      BY <1>6, <2>1
    <3>3. y = SubSeq(buf, i, j)
      BY DEF Drop
    <3> HIDE DEF i, j
    <3>4. SubSeq(SubSeq(buf, i, j), 1, HeadSize) = SubSeq(buf, i + 1 - 1, i + HeadSize - 1)
      BY <1>1, <3>1, SubSeqOfSubSeq
    <3> QED BY <3>2, <3>3, <3>4
  <2> HIDE DEF y
  <2> QED BY <2>3, <2>4, <2>5 DEF GoodHeader
<1>11. /\ res.ok = (pos + HeadSize <= Len(buf) => GoodHeader(buf, pos))
       /\ res.pkgs = ms
       /\ res.rest = IF pos + HeadSize <= Len(buf) => GoodHeader(buf, pos) THEN y
                     ELSE SubSeq(buf, 1, Len(buf) - pos)
  BY <1>2, Zenon DEF ReadResult, m, pos
<1>12. res.ok /\ res.rest = y
  BY <1>10, <1>11, Zenon
<1>13. Len(y) <= Len(buf)
  BY <1>1, <1>6, <1>8
<1> HIDE DEF y
<1>14. buf = BytesOf(res.pkgs) \o res.rest
  BY <1>8, <1>11, <1>12 DEF m
<1> QED BY <1>4, <1>5, <1>8, <1>11, <1>12, <1>13, <1>14 DEF Took

-----------------------------------------------------------------------------
(* Subsequences. *)

\* Taking a part out of the middle leaves a subsequence.
LEMMA SubsequenceMiddle ==
  ASSUME NEW S, NEW a \in Seq(S), NEW b \in Seq(S), NEW c \in Seq(S), NEW t,
         Subsequence((a \o b) \o c, t)
  PROVE  Subsequence(a \o c, t)
<1> DEFINE u == (a \o b) \o c
           v == a \o c
           A == Len(a)
           B == Len(b)
           C == Len(c)
           from == [i \in 1..A+C |-> IF i <= A THEN i ELSE i + B]
<1>1. A \in Nat /\ B \in Nat /\ C \in Nat
  BY LenProperties
<1>2. /\ v \in Seq(S) /\ Len(v) = A + C
      /\ \A i \in 1..A+C : v[i] = IF i <= A THEN a[i] ELSE c[i - A]
  BY ConcatProperties
<1>3. /\ u \in Seq(S) /\ Len(u) = A + B + C
      /\ \A i \in 1..A+B+C : u[i] = IF i <= A THEN a[i]
                                    ELSE IF i <= A + B THEN b[i - A] ELSE c[i - (A + B)]
  <2> DEFINE w == a \o b
  <2>1. w \in Seq(S) /\ Len(w) = A + B /\ \A i \in 1..A+B : w[i] = IF i <= A THEN a[i] ELSE b[i - A]
    BY ConcatProperties
  <2> HIDE DEF w, A, B, C
  <2>2. /\ w \o c \in Seq(S) /\ Len(w \o c) = A + B + C
        /\ \A i \in 1..A+B+C : (w \o c)[i] = IF i <= A + B THEN w[i] ELSE c[i - (A + B)]
    <3>1. /\ w \o c \in Seq(S) /\ Len(w \o c) = Len(w) + Len(c)
          /\ \A i \in 1..Len(w)+Len(c) : (w \o c)[i] = IF i <= Len(w) THEN w[i] ELSE c[i - Len(w)]
      BY <2>1, ConcatProperties
    <3> QED BY <1>1, <2>1, <3>1 DEF C
  <2>3. u = w \o c
    BY DEF w
  <2>4. \A i \in 1..A+B+C : i <= A + B => i \in 1..A+B
    BY <1>1
  <2>5. \A i \in 1..A+B+C : i <= A => i <= A + B
    BY <1>1
  <2> HIDE DEF u
  <2> QED BY <2>1, <2>2, <2>3, <2>4, <2>5
<1> HIDE DEF u, v, A, B, C
<1>4. /\ from \in [1..A+C -> 1..A+B+C]
      /\ \A i, j \in 1..A+C : i < j => from[i] < from[j]
  BY <1>1
<1>5. \A i \in 1..A+C : v[i] = u[from[i]]
  <2> SUFFICES ASSUME NEW i \in 1..A+C PROVE v[i] = u[from[i]]
    OBVIOUS
  <2>1. CASE i <= A
    <3>1. from[i] = i /\ i \in 1..A+B+C
      BY <1>1, <2>1
    <3> QED BY <1>2, <1>3, <2>1, <3>1
  <2>2. CASE ~(i <= A)
    <3>1. from[i] = i + B /\ i + B \in 1..A+B+C
      BY <1>1, <2>2
    <3>2. ~(i + B <= A) /\ ~(i + B <= A + B) /\ (i + B) - (A + B) = i - A
      BY <1>1, <2>2
    <3> HIDE DEF from
    <3> QED BY <1>2, <1>3, <2>2, <3>1, <3>2
  <2> QED BY <2>1, <2>2
<1>6. DOMAIN u = 1..A+B+C /\ DOMAIN v = 1..A+C
  BY <1>2, <1>3, LenProperties
<1>7. PICK place \in [DOMAIN u -> DOMAIN t] :
        /\ \A i \in DOMAIN u : u[i] = t[place[i]]
        /\ \A i, j \in DOMAIN u : i < j => place[i] < place[j]
  BY DEF Subsequence, u
<1> HIDE DEF from
<1> DEFINE new == [i \in DOMAIN v |-> place[from[i]]]
<1>8. new \in [DOMAIN v -> DOMAIN t]
  BY <1>4, <1>6, <1>7
<1>9. \A i \in DOMAIN v : v[i] = t[new[i]]
  BY <1>4, <1>5, <1>6, <1>7
<1>10. \A i, j \in DOMAIN v : i < j => new[i] < new[j]
  BY <1>4, <1>6, <1>7
<1> HIDE DEF new
<1>11. Subsequence(v, t)
  BY <1>8, <1>9, <1>10 DEF Subsequence
<1> QED BY <1>11 DEF v

\* A subsequence of the front of a sequence is one of the sequence.
LEMMA SubsequenceFront ==
  ASSUME NEW S, NEW a \in Seq(S), NEW b \in Seq(S), NEW t, Subsequence(a \o b, t)
  PROVE  Subsequence(a, t)
<1>1. (a \o b) \o <<>> = a \o b /\ a \o <<>> = a /\ <<>> \in Seq(S)
  BY EmptySeq, ConcatEmptySeq, ConcatProperties
<1>2. Subsequence((a \o b) \o <<>>, t)
  BY <1>1
<1>3. Subsequence(a \o <<>>, t)
  BY <1>1, <1>2, SubsequenceMiddle
<1> QED BY <1>1, <1>3

\* A subsequence of the back of a sequence is one of the sequence.
LEMMA SubsequenceBack ==
  ASSUME NEW S, NEW a \in Seq(S), NEW b \in Seq(S), NEW t, Subsequence(a \o b, t)
  PROVE  Subsequence(b, t)
<1>1. <<>> \o a = a /\ <<>> \o b = b /\ <<>> \in Seq(S)
  BY EmptySeq, ConcatEmptySeq
<1>2. Subsequence((<<>> \o a) \o b, t)
  BY <1>1
<1>3. Subsequence(<<>> \o b, t)
  BY <1>1, <1>2, SubsequenceMiddle
<1> QED BY <1>1, <1>3

\* Both sequences get the same element.
LEMMA SubsequenceAppend ==
  ASSUME NEW S, NEW s \in Seq(S), NEW t \in Seq(S), NEW e \in S, Subsequence(s, t)
  PROVE  Subsequence(Append(s, e), Append(t, e))
<1> DEFINE u == Append(s, e)
           v == Append(t, e)
           M == Len(s)
           N == Len(t)
<1>1. M \in Nat /\ N \in Nat /\ DOMAIN s = 1..M /\ DOMAIN t = 1..N
  BY LenProperties
<1>2. DOMAIN u = 1..M+1 /\ \A i \in 1..M : u[i] = s[i]
  BY AppendProperties, LenProperties
<1>3. DOMAIN v = 1..N+1 /\ \A i \in 1..N : v[i] = t[i]
  BY AppendProperties, LenProperties
<1>4. u[M + 1] = e /\ v[N + 1] = e
  BY AppendProperties
<1> HIDE DEF u, v, M, N
<1>5. PICK place \in [1..M -> 1..N] :
        /\ \A i \in 1..M : s[i] = t[place[i]]
        /\ \A i, j \in 1..M : i < j => place[i] < place[j]
  BY <1>1 DEF Subsequence
<1> DEFINE new == [i \in 1..M+1 |-> IF i = M + 1 THEN N + 1 ELSE place[i]]
<1>6. ASSUME NEW i \in 1..M+1, i # M + 1
      PROVE  i \in 1..M /\ new[i] = place[i] /\ place[i] \in 1..N
  BY <1>1, <1>5, <1>6
<1>7. new[M + 1] = N + 1 /\ M + 1 \in 1..M+1 /\ N + 1 \in 1..N+1
  BY <1>1
<1>8. new \in [1..M+1 -> 1..N+1]
  BY <1>1, <1>5
<1> HIDE DEF new
<1>9. ASSUME NEW i \in 1..M+1
      PROVE  u[i] = v[new[i]]
  <2>1. CASE i = M + 1
    BY <1>4, <1>7, <2>1
  <2>2. CASE i # M + 1
    BY <1>2, <1>3, <1>5, <1>6, <2>2
  <2> QED BY <2>1, <2>2
<1>10. ASSUME NEW i \in 1..M+1, NEW j \in 1..M+1, i < j
       PROVE  new[i] < new[j]
  <2>1. i # M + 1
    BY <1>1, <1>10
  <2>2. CASE j = M + 1
    BY <1>1, <1>6, <1>7, <2>1, <2>2
  <2>3. CASE j # M + 1
    BY <1>5, <1>6, <1>10, <2>1, <2>3
  <2> QED BY <2>2, <2>3
<1>11. Subsequence(u, v)
  BY <1>2, <1>3, <1>8, <1>9, <1>10 DEF Subsequence
<1> QED BY <1>11 DEF u, v

-----------------------------------------------------------------------------
(* The inductive invariant. *)

\* The bytes on their way: once the connection is gone, sendbuf's go nowhere.
Pending == IF Gone THEN <<>> ELSE sendbuf
Holds   == (recvbuf \o wire) \o Pending

Types ==
  /\ {sendq, recvq, sent, arrived} \subseteq Seq(Pkg)
  /\ {sendbuf, wire, recvbuf} \subseteq Seq(Byte)

\* What a closed end held is gone.
Closed ==
  /\ "rcv" \notin open => recvbuf = <<>> /\ wire = <<>>
  /\ "snd" \notin open => sendbuf = <<>>

Streamed ==
  /\ Cut(Holds)
  /\ ~Gone => Whole(Holds)

\* The packages on their way and those that wait were accepted in this order.
Ordered == Subsequence(Complete(Holds) \o sendq, sent)

IInv == Types /\ TypeOK /\ Closed /\ Streamed /\ Ordered

-----------------------------------------------------------------------------
(* Concatenations. *)

\* Empty buffers hold whole packages.
LEMMA NothingCut == Whole(<<>>) /\ Cut(<<>>)
<1>1. <<>> \in Seq(Small) /\ BytesOf(<<>>) = <<>>
  BY EmptySeq, BytesOfType
<1>2. Whole(<<>>)
  BY <1>1 DEF Whole
<1> QED BY <1>2, WholeIs

\* Two bounds.
LEMMA MinOfTwo ==
  ASSUME NEW a \in Int, NEW b \in Int
  PROVE  /\ Min({a, b}) \in Int
         /\ Min({a, b}) <= a /\ Min({a, b}) <= b
         /\ Min({a, b}) \in {a, b}
<1>1. \E x \in {a, b} : \A y \in {a, b} : x <= y
  <2>1. CASE a <= b
    BY <2>1
  <2>2. CASE b <= a
    BY <2>2
  <2> QED BY <2>1, <2>2
<1>2. Min({a, b}) \in {a, b} /\ \A y \in {a, b} : Min({a, b}) <= y
  BY <1>1 DEF Min
<1> QED BY <1>2

\* A list without its first r elements, of which n come first.
LEMMA DropTwice ==
  ASSUME NEW S, NEW s \in Seq(S), NEW r \in 0..Len(s), NEW n \in 0..r
  PROVE  \E mid \in Seq(S) : Drop(s, n) = mid \o Drop(s, r)
<1> DEFINE d == Drop(s, n)
           k == r - n
           e == Drop(d, k)
<1>1. Len(s) \in Nat /\ r \in Nat /\ n \in Nat /\ n \in 0..Len(s)
  BY LenProperties
<1>2. /\ d \in Seq(S) /\ Len(d) = Len(s) - n
      /\ \A i \in 1..Len(s)-n : d[i] = s[n + i]
  BY <1>1, SuffixSeq DEF Drop
<1>3. k \in 0..Len(d) /\ k \in Nat /\ Len(d) - k = Len(s) - r
  BY <1>1, <1>2
<1> HIDE DEF d, k
<1>4. /\ SubSeq(d, 1, k) \in Seq(S) /\ e \in Seq(S) /\ d = SubSeq(d, 1, k) \o e
      /\ Len(e) = Len(d) - k
  BY <1>2, <1>3, CutSeq
<1>5. \A i \in 1..Len(d)-k : e[i] = d[k + i]
  BY <1>2, <1>3, SuffixSeq DEF Drop
<1>6. /\ Drop(s, r) \in Seq(S) /\ Len(Drop(s, r)) = Len(s) - r
      /\ \A i \in 1..Len(s)-r : Drop(s, r)[i] = s[r + i]
  BY SuffixSeq DEF Drop
<1> HIDE DEF e
<1>7. ASSUME NEW i \in 1..Len(s)-r
      PROVE  e[i] = Drop(s, r)[i]
  <2>1. i \in 1..Len(d)-k /\ k + i \in 1..Len(s)-n
    BY <1>1, <1>2, <1>3
  <2>2. n + (k + i) = r + i
    BY <1>1 DEF k
  <2> QED BY <1>2, <1>5, <1>6, <2>1, <2>2
<1>8. e = Drop(s, r)
  BY <1>3, <1>4, <1>6, <1>7, SeqEqual
<1> QED BY <1>4, <1>8 DEF d

\* y is what is left of the bytes on their way when the packages ms are taken from
\* their front.
Left(ms, y) ==
  /\ y \in Seq(Byte)
  /\ Cut(y)
  /\ ~Gone => Whole(y)
  /\ Complete(Holds) = ms \o Complete(y)
  /\ Subsequence(Complete(y) \o sendq, sent)

\* buf are the first of the bytes on their way.
Ahead(buf, x) == buf \in Seq(Byte) /\ x \in Seq(Byte) /\ Holds = buf \o x

\* joynet_read_recv_buf on a buffer that x follows takes packages and leaves
\* the rest before x.
LEMMA Reading ==
  ASSUME IInv, NEW buf, NEW x, Ahead(buf, x), NEW res \in ReadRecvBuf(buf)
  PROVE  Took(buf, res) /\ Left(res.pkgs, res.rest \o x)
<1>1. buf \in Seq(Byte) /\ x \in Seq(Byte) /\ Holds = buf \o x
  BY DEF Ahead
<1>2. Cut(Holds) /\ (~Gone => Whole(Holds)) /\ Subsequence(Complete(Holds) \o sendq, sent)
  BY DEF IInv, Streamed, Ordered
<1>3. sendq \in Seq(Pkg)
  BY DEF IInv, Types
<1>4. Cut(buf)
  BY <1>1, <1>2, CutPart
<1>5. Took(buf, res)
  BY <1>4, ReadTakes
<1> DEFINE ms == res.pkgs
           m  == BytesOf(ms)
           r  == res.rest
           y  == r \o x
<1>6. ms \in Seq(Pkg) /\ r \in Seq(Byte) /\ buf = m \o r
  BY <1>5 DEF Took
<1> HIDE DEF ms, r
<1>7. m \in Seq(Byte) /\ Complete(m) = ms
  BY <1>6, BytesOfType, CompleteBytesOf
<1> HIDE DEF m
<1>8. y \in Seq(Byte)
  BY <1>1, <1>6, ConcatProperties
<1>9. Holds = m \o y
  <2>1. (m \o r) \o x = m \o (r \o x)
    BY <1>1, <1>6, <1>7, ConcatAssociative
  <2> QED BY <1>1, <1>6, <2>1
<1> HIDE DEF y
<1>10. Cut(y)
  <2>1. Cut(m \o y)
    BY <1>2, <1>9
  <2> QED BY <1>6, <1>8, <2>1, CutRest DEF m
<1>11. ~Gone => Whole(y)
  <2> SUFFICES ASSUME ~Gone PROVE Whole(y)
    OBVIOUS
  <2>1. Whole(m \o y)
    BY <1>2, <1>9
  <2> QED BY <1>6, <1>8, <2>1, WholeRest DEF m
<1> DEFINE c == Complete(y)
<1>12. Complete(Holds) = ms \o c /\ c \in Seq(Pkg)
  BY <1>7, <1>8, <1>9, CompleteConcat, CompleteType
<1> HIDE DEF c
<1>13. Subsequence(c \o sendq, sent)
  <2>1. (ms \o c) \o sendq = ms \o (c \o sendq)
    BY <1>3, <1>6, <1>12, ConcatAssociative
  <2>2. c \o sendq \in Seq(Pkg)
    BY <1>3, <1>12, ConcatProperties
  <2>3. Subsequence(ms \o (c \o sendq), sent)
    BY <1>2, <1>12, <2>1
  <2> QED BY <1>6, <2>2, <2>3, SubsequenceBack
<1>14. Left(ms, y)
  BY <1>8, <1>10, <1>11, <1>12, <1>13 DEF Left, c
<1> QED BY <1>5, <1>14 DEF ms, y, r

\* What is received makes the invariant true again, wherever the rest goes.
Received(res, n) ==
  /\ recvq' = recvq \o res.pkgs /\ arrived' = arrived \o res.pkgs
  /\ recvbuf' = res.rest /\ wire' = Drop(wire, n)
  /\ UNCHANGED <<blockSize, sendq, sendbuf, sent, faults, open, broken>>

\* The bytes recv takes go between the buffer and the rest of the socket.
LEMMA ReceivedAhead ==
  ASSUME IInv, NEW n \in 0..Len(wire)
  PROVE  /\ Ahead(recvbuf \o SubSeq(wire, 1, n), Drop(wire, n) \o Pending)
         /\ SubSeq(wire, 1, n) \in Seq(Byte) /\ Len(SubSeq(wire, 1, n)) = n
         /\ Drop(wire, n) \in Seq(Byte) /\ Len(Drop(wire, n)) = Len(wire) - n
         /\ Pending \in Seq(Byte)
<1> DEFINE a == SubSeq(wire, 1, n)
           b == Drop(wire, n)
           p == Pending
           r == recvbuf
<1>1. r \in Seq(Byte) /\ wire \in Seq(Byte) /\ p \in Seq(Byte)
  BY EmptySeq DEF IInv, Types, Pending
<1>2. a \in Seq(Byte) /\ b \in Seq(Byte) /\ wire = a \o b /\ Len(a) = n /\ Len(b) = Len(wire) - n
  BY <1>1, CutSeq
<1> HIDE DEF a, b, p, r
<1>3. r \o a \in Seq(Byte) /\ b \o p \in Seq(Byte)
  BY <1>1, <1>2, ConcatProperties
<1>4. (r \o (a \o b)) \o p = (r \o a) \o (b \o p)
  <2>1. a \in Seq(Byte) /\ b \in Seq(Byte)
    BY <1>2
  <2>2. RegroupsFour(r, a, b, p)
    BY <1>1, <2>1, RegroupFour
  <2> QED BY ONLY <2>2 DEF RegroupsFour
<1>5. Holds = (r \o a) \o (b \o p)
  BY <1>2, <1>4 DEF Holds, p, r
<1>6. Ahead(r \o a, b \o p)
  BY <1>3, <1>5 DEF Ahead
<1> QED BY <1>1, <1>2, <1>6 DEF a, b, p, r

\* What was received keeps the invariant, and the packages read leave the
\* front of the stream.
LEMMA ReceivedKeeps ==
  ASSUME IInv, NEW n \in 0..Len(wire), n <= TempBufSize - Len(recvbuf), "rcv" \in open,
         NEW res \in ReadRecvBuf(recvbuf \o SubSeq(wire, 1, n)), Received(res, n)
  PROVE  /\ IInv'
         /\ Complete(Holds) = res.pkgs \o Complete(Holds)'
<1> DEFINE buf == recvbuf \o SubSeq(wire, 1, n)
           x   == Drop(wire, n) \o Pending
<1>1. /\ Ahead(buf, x)
      /\ SubSeq(wire, 1, n) \in Seq(Byte) /\ Len(SubSeq(wire, 1, n)) = n
      /\ Drop(wire, n) \in Seq(Byte) /\ Len(Drop(wire, n)) = Len(wire) - n
      /\ Pending \in Seq(Byte)
  BY ReceivedAhead
<1>2. Took(buf, res) /\ Left(res.pkgs, res.rest \o x)
  BY <1>1, Reading
<1>3. Types /\ TypeOK /\ Closed
  BY DEF IInv
<1>4. /\ res.pkgs \in Seq(Pkg) /\ res.rest \in Seq(Byte)
      /\ Len(recvq) + Len(res.pkgs) <= ChainNum
      /\ Len(res.rest) <= Len(buf)
  BY <1>2 DEF Took
<1>5. UNCHANGED <<sendq, sendbuf, sent, faults, open, broken>>
  BY DEF Received
<1>6. Gone' = Gone /\ Pending' = Pending
  BY <1>5 DEF Gone, Pending
<1>7. Holds' = res.rest \o x
  <2>1. Holds' = (res.rest \o Drop(wire, n)) \o Pending
    BY <1>6 DEF Holds, Received
  <2> DEFINE r == res.rest
             b == Drop(wire, n)
             p == Pending
  <2>2. r \in Seq(Byte) /\ b \in Seq(Byte) /\ p \in Seq(Byte)
    BY <1>1, <1>4
  <2> HIDE DEF r, b, p
  <2>3. Regroups(r, b, p)
    BY <2>2, Regroup
  <2> QED BY <2>1, <2>3 DEF r, b, p, Regroups
<1>8. Types'
  <2>1. recvq \o res.pkgs \in Seq(Pkg) /\ arrived \o res.pkgs \in Seq(Pkg)
    BY <1>3, <1>4, ConcatProperties DEF Types
  <2> QED BY <1>1, <1>3, <1>4, <2>1 DEF Types, Received
<1>9. TypeOK'
  <2>1. /\ Len(recvq \o res.pkgs) <= ChainNum
    BY <1>3, <1>4, CutConcat DEF Types
  <2>2. Len(res.rest) <= TempBufSize
    <3>1. /\ Len(buf) = Len(recvbuf) + Len(SubSeq(wire, 1, n))
          /\ Len(recvbuf) \in Nat
      BY <1>1, <1>3, CutConcat DEF Types
    <3>2. Len(res.rest) \in Nat /\ TempBufSize \in Nat
      BY <1>4, LenProperties, StreamAssumption
    <3> HIDE DEF buf
    <3> QED BY <1>1, <1>4, <3>1, <3>2
  <2>3. Len(Drop(wire, n)) <= WireSize
    <3>1. Len(wire) \in Nat /\ Len(wire) <= WireSize /\ WireSize \in Nat
      BY <1>3, LenProperties, StreamAssumption DEF Types, TypeOK
    <3> QED BY <1>1, <3>1
  <2> QED BY <1>3, <1>5, <2>1, <2>2, <2>3 DEF TypeOK, Received
<1>10. Closed'
  BY <1>3, <1>5 DEF Closed
<1> DEFINE y == res.rest \o x
<1>11. /\ Cut(y) /\ (~Gone => Whole(y))
       /\ Complete(Holds) = res.pkgs \o Complete(y)
       /\ Subsequence(Complete(y) \o sendq, sent)
  BY <1>2 DEF Left
<1> HIDE DEF y
<1>12. Holds' = y
  BY <1>7 DEF y
<1>13. Streamed'
  BY <1>6, <1>11, <1>12 DEF Streamed
<1>14. Ordered'
  BY <1>5, <1>11, <1>12 DEF Ordered
<1> QED BY <1>8, <1>9, <1>10, <1>11, <1>12, <1>13, <1>14 DEF IInv

-----------------------------------------------------------------------------
(* The mapping to StreamSpec. *)

\* What StreamSpec sees of the bytes on their way.
StreamFlight ==
  IF "rcv" \notin open THEN <<>>
  ELSE IF Gone THEN Complete(recvbuf \o wire)
  ELSE Complete(recvbuf \o wire \o sendbuf)

StreamStep == [Stream!Next]_(Stream!vars)

\* The packages of the abstract stream are the complete ones of the bytes on
\* the way.
LEMMA FlightNow ==
  ASSUME IInv
  PROVE  /\ StreamFlight = Complete(Holds)
         /\ Complete(Holds) \in Seq(Pkg)
         /\ Holds \in Seq(Byte)
<1>1. /\ recvbuf \in Seq(Byte) /\ wire \in Seq(Byte) /\ Holds \in Seq(Byte)
      /\ "rcv" \notin open => recvbuf = <<>> /\ wire = <<>>
  BY DEF IInv, Types, Closed, Streamed, Cut
<1>2. recvbuf \o wire \in Seq(Byte)
  BY <1>1, ConcatProperties
<1>3. Gone => Holds = recvbuf \o wire
  BY <1>2, ConcatEmptySeq DEF Holds, Pending
<1>4. ~Gone => Holds = recvbuf \o wire \o sendbuf
  BY DEF Holds, Pending
<1>5. "rcv" \notin open => Gone /\ recvbuf \o wire = <<>>
  BY <1>1, EmptySeq, ConcatEmptySeq DEF Gone, Ends
<1>6. StreamFlight = Complete(Holds)
  BY <1>3, <1>4, <1>5, CompleteType DEF StreamFlight
<1> QED BY <1>1, <1>6, CompleteType

\* FlightNow, of the next state.
LEMMA FlightNext ==
  ASSUME IInv'
  PROVE  /\ StreamFlight' = Complete(Holds)'
         /\ Complete(Holds)' \in Seq(Pkg)
         /\ Holds' \in Seq(Byte)
<1>1. /\ recvbuf' \in Seq(Byte) /\ wire' \in Seq(Byte) /\ Holds' \in Seq(Byte)
      /\ "rcv" \notin open' => recvbuf' = <<>> /\ wire' = <<>>
  BY DEF IInv, Types, Closed, Streamed, Cut
<1>2. recvbuf' \o wire' \in Seq(Byte)
  BY <1>1, ConcatProperties
<1>3. Gone' => Holds' = recvbuf' \o wire'
  BY <1>2, ConcatEmptySeq DEF Holds, Pending
<1>4. ~Gone' => Holds' = recvbuf' \o wire' \o sendbuf'
  BY DEF Holds, Pending
<1>5. "rcv" \notin open' => Gone' /\ recvbuf' \o wire' = <<>>
  BY <1>1, EmptySeq, ConcatEmptySeq DEF Gone, Ends
<1>6. StreamFlight' = Complete(Holds')
  BY <1>3, <1>4, <1>5, CompleteType DEF StreamFlight
<1> QED BY <1>1, <1>6, CompleteType

\* A step that leaves the stream as it is is a stutter of StreamSpec.
LEMMA StreamStutters ==
  ASSUME sendq' = sendq, StreamFlight' = StreamFlight, arrived' = arrived, Gone' = Gone
  PROVE  StreamStep
BY DEF StreamStep, Stream!vars, StreamFlight

\* The front of a concatenation is one of its prefixes.
LEMMA FrontIsPrefix ==
  ASSUME NEW S, NEW a \in Seq(S), NEW b \in Seq(S)
  PROVE  a \in Stream!Prefixes(a \o b)
<1> DEFINE u == a \o b
<1>1. SubSeq(u, 1, Len(a)) = a /\ Len(a) \in 0..Len(u)
  BY CutConcat
<1> HIDE DEF u
<1>2. a \in Stream!Prefixes(u)
  BY <1>1 DEF Stream!Prefixes
<1> QED BY <1>2 DEF u

\* The packages ms arrive; z is lost with the connection.
LEMMA StreamArrives ==
  ASSUME NEW ms \in Seq(Pkg), NEW z \in Seq(Pkg), StreamFlight' \in Seq(Pkg),
         StreamFlight = ms \o (StreamFlight' \o z), arrived \in Seq(Pkg),
         arrived' = arrived \o ms, sendq' = sendq, Gone' = Gone, ~Gone => z = <<>>
  PROVE  StreamStep
<1> DEFINE f == StreamFlight
           g == StreamFlight'
           r == g \o z
<1>1. r \in Seq(Pkg) /\ g \in Seq(Pkg) /\ f = ms \o r
  BY ConcatProperties
<1>2. g \in Stream!Prefixes(r)
  BY FrontIsPrefix
<1>3. ~Gone => g = r
  BY ConcatEmptySeq
<1> HIDE DEF r
<1>4. CASE ms = <<>>
  <2>1. arrived' = arrived /\ f = r
    BY <1>1, <1>4, ConcatEmptySeq
  <2>2. CASE Gone
    <3>1. Stream!Break
      BY <1>2, <2>1, <2>2 DEF Stream!Break, StreamFlight
    <3> QED BY <3>1 DEF StreamStep, Stream!Next
  <2>3. CASE ~Gone
    BY <1>3, <2>1, <2>3, StreamStutters
  <2> QED BY <2>2, <2>3
<1>5. CASE ms # <<>>
  <2> DEFINE n == Len(ms)
  <2>1. /\ SubSeq(f, 1, n) = ms /\ SubSeq(f, n + 1, Len(f)) = r
        /\ Len(f) = n + Len(r) /\ n \in Nat /\ Len(r) \in Nat
    BY <1>1, CutConcat DEF Drop
  <2>2. n \in 1..Len(f)
    BY <1>5, <2>1, EmptySeq
  <2> HIDE DEF n, f
  <2>3. g \in IF ~Gone THEN {r} ELSE Stream!Prefixes(r)
    BY <1>2, <1>3
  <2>4. Stream!Arrive
    <3>1. arrived' = arrived \o SubSeq(f, 1, n)
      BY <2>1
    <3>2. g \in Stream!Kept(SubSeq(f, n + 1, Len(f)))
      BY <2>1, <2>3 DEF Stream!Kept
    <3>3. \E i \in 1..Len(f) :
            /\ arrived' = arrived \o SubSeq(f, 1, i)
            /\ g \in Stream!Kept(SubSeq(f, i + 1, Len(f)))
      BY <2>2, <3>1, <3>2
    <3>4. UNCHANGED <<sendq, ~Gone>>
      OBVIOUS
    <3> QED BY <3>3, <3>4 DEF Stream!Arrive, f, StreamFlight
  <2> QED BY <2>4 DEF StreamStep, Stream!Next
<1> QED BY <1>4, <1>5

-----------------------------------------------------------------------------
(* The receiver's steps. *)

\* A step that received and read is one of StreamSpec.
LEMMA ReceivedSteps ==
  ASSUME IInv, NEW n \in 0..Len(wire), n <= TempBufSize - Len(recvbuf), "rcv" \in open,
         NEW res \in ReadRecvBuf(recvbuf \o SubSeq(wire, 1, n)), Received(res, n)
  PROVE  IInv' /\ StreamStep
<1>1. IInv' /\ Complete(Holds) = res.pkgs \o Complete(Holds)'
  BY ReceivedKeeps
<1>2. /\ StreamFlight = Complete(Holds)
      /\ StreamFlight' = Complete(Holds)' /\ StreamFlight' \in Seq(Pkg)
  BY <1>1, FlightNow, FlightNext
<1>3. res.pkgs \in Seq(Pkg)
  <2> DEFINE buf == recvbuf \o SubSeq(wire, 1, n)
             x   == Drop(wire, n) \o Pending
  <2>1. Ahead(buf, x)
    BY ReceivedAhead
  <2>2. Took(buf, res)
    BY <2>1, Reading
  <2> QED BY <2>2 DEF Took
<1> DEFINE ms == res.pkgs
           g  == StreamFlight'
<1>4. g \o <<>> = g /\ <<>> \in Seq(Pkg)
  BY <1>2, EmptySeq, ConcatEmptySeq
<1>5. arrived' = arrived \o ms /\ sendq' = sendq /\ Gone' = Gone /\ arrived \in Seq(Pkg)
  BY DEF Received, Gone, IInv, Types
<1>6. StreamFlight = ms \o (g \o <<>>)
  BY <1>1, <1>2, <1>4
<1>7. StreamStep
  BY <1>2, <1>3, <1>4, <1>5, <1>6, StreamArrives
<1> QED BY <1>1, <1>7

\* A check of joynetReadRecvBuf never fails: the receiver does not close because of it.
LEMMA ReceivedOk ==
  ASSUME IInv, NEW n \in 0..Len(wire),
         NEW res \in ReadRecvBuf(recvbuf \o SubSeq(wire, 1, n))
  PROVE  /\ res.ok
         /\ Took(recvbuf \o SubSeq(wire, 1, n), res)
         /\ Left(res.pkgs, res.rest \o (Drop(wire, n) \o Pending))
<1> DEFINE buf == recvbuf \o SubSeq(wire, 1, n)
           x   == Drop(wire, n) \o Pending
<1>1. Ahead(buf, x)
  BY ReceivedAhead
<1>2. Took(buf, res) /\ Left(res.pkgs, res.rest \o x)
  BY <1>1, Reading
<1> QED BY <1>2 DEF Took

\* Closing the receiver's side keeps the invariant and is a step of
\* StreamSpec.
LEMMA CloseReceiverSteps ==
  ASSUME IInv, "rcv" \in open, Gone, wire = <<>>,
         NEW res \in ReadRecvBuf(recvbuf), CloseReceiver(res)
  PROVE  IInv' /\ StreamStep
<1> USE DEF CloseReceiver, Receive
<1>1. Types /\ TypeOK /\ Closed
  BY DEF IInv
<1>2. Pending = <<>> /\ Ahead(recvbuf, <<>>)
  <2>1. recvbuf \in Seq(Byte) /\ <<>> \in Seq(Byte)
    BY <1>1, EmptySeq DEF Types
  <2>2. Holds = recvbuf /\ recvbuf = recvbuf \o <<>>
    BY <2>1, ConcatEmptySeq DEF Holds, Pending
  <2> QED BY <2>1, <2>2 DEF Ahead, Pending
<1>3. Took(recvbuf, res) /\ Left(res.pkgs, res.rest \o <<>>)
  BY <1>2, Reading
<1> DEFINE ms == res.pkgs
           y  == res.rest \o <<>>
           z  == Complete(y)
<1>4. ms \in Seq(Pkg) /\ Len(recvq) + Len(ms) <= ChainNum
  BY <1>3 DEF Took
<1>5. /\ y \in Seq(Byte) /\ Complete(Holds) = ms \o z
      /\ Subsequence(z \o sendq, sent)
  BY <1>3 DEF Left
<1> HIDE DEF y
<1>6. z \in Seq(Pkg)
  BY <1>5, CompleteType
<1> HIDE DEF ms, z
<1>7. Gone' /\ Holds' = <<>>
  BY EmptySeq, ConcatEmptySeq DEF Gone, Ends, Holds, Pending
<1>8. sendq \in Seq(Pkg) /\ recvq \in Seq(Pkg) /\ arrived \in Seq(Pkg)
  BY <1>1 DEF Types
<1>9. Types'
  <2>1. recvq \o ms \in Seq(Pkg) /\ arrived \o ms \in Seq(Pkg)
    BY <1>4, <1>8, ConcatProperties
  <2> QED BY <1>1, <2>1, EmptySeq DEF Types, ms
<1>10. TypeOK'
  <2>1. Len(recvq \o ms) <= ChainNum
    BY <1>4, <1>8, CutConcat
  <2>2. /\ Len(<<>>) = 0 /\ 0 <= TempBufSize /\ 0 <= WireSize
    BY StreamAssumption
  <2> QED BY <1>1, <2>1, <2>2 DEF TypeOK, ms
<1>11. Closed'
  BY <1>1 DEF Closed
<1>12. Streamed'
  BY <1>7, NothingCut DEF Streamed
<1>13. Ordered'
  <2>1. Subsequence(sendq, sent)
    BY <1>5, <1>6, <1>8, SubsequenceBack
  <2>2. Complete(Holds)' = <<>> /\ <<>> \o sendq = sendq
    BY <1>7, <1>8, CompleteType, ConcatEmptySeq
  <2> QED BY <2>1, <2>2 DEF Ordered
<1>14. IInv'
  BY <1>9, <1>10, <1>11, <1>12, <1>13 DEF IInv
<1>15. StreamStep
  <2>1. StreamFlight = ms \o z /\ StreamFlight' = <<>> /\ <<>> \in Seq(Pkg)
    BY <1>5, <1>7, <1>14, FlightNow, FlightNext, CompleteType
  <2>2. StreamFlight = ms \o (StreamFlight' \o z)
    BY <1>6, <2>1, ConcatEmptySeq
  <2>3. arrived' = arrived \o ms /\ sendq' = sendq /\ Gone' = Gone
    BY <1>7 DEF ms
  <2>4. StreamFlight' \in Seq(Pkg)
    BY <2>1
  <2> QED BY <1>4, <1>6, <1>7, <1>8, <2>2, <2>3, <2>4, StreamArrives
<1> QED BY <1>14, <1>15

\* joynet_recv_buf keeps the invariant and is a step of StreamSpec.
LEMMA RecvBufSteps ==
  ASSUME IInv, RecvBuf
  PROVE  IInv' /\ StreamStep
<1>1. "rcv" \in open
  BY DEF RecvBuf
<1>2. /\ Len(wire) \in Nat /\ Len(recvbuf) \in Nat /\ TempBufSize \in Nat
      /\ Len(recvbuf) <= TempBufSize
  BY LenProperties, StreamAssumption DEF IInv, Types, TypeOK
<1>3. ASSUME NEW n \in 1..Min({TempBufSize - Len(recvbuf), Len(wire)}), RecvBytes(n)
      PROVE  IInv' /\ StreamStep
  <2>1. n \in 0..Len(wire) /\ n <= TempBufSize - Len(recvbuf)
    <3> DEFINE a == TempBufSize - Len(recvbuf)
               b == Len(wire)
    <3>1. a \in Int /\ b \in Int
      BY <1>2
    <3> HIDE DEF a, b
    <3>2. Min({a, b}) \in Int /\ Min({a, b}) <= a /\ Min({a, b}) <= b
      BY <3>1, MinOfTwo
    <3>3. n \in 1..Min({a, b})
      BY DEF a, b
    <3>4. n \in 0..b /\ n <= a
      BY <3>1, <3>2, <3>3
    <3> QED BY <3>4 DEF a, b
  <2> DEFINE buf == recvbuf \o SubSeq(wire, 1, n)
  <2>2. PICK res \in ReadRecvBuf(buf) :
          \/ /\ res.ok
             /\ Receive(res, res.rest)
             /\ wire' = Drop(wire, n)
             /\ UNCHANGED <<open, broken>>
          \/ ~res.ok /\ CloseReceiver(res)
    BY <1>3 DEF RecvBytes
  <2>3. res.ok
    BY <2>1, ReceivedOk
  <2>4. Received(res, n)
    BY <2>2, <2>3 DEF Received, Receive
  <2> QED BY <1>1, <2>1, <2>4, ReceivedSteps
<1>4. ASSUME Gone, wire = <<>>, NEW res \in ReadRecvBuf(recvbuf), CloseReceiver(res)
      PROVE  IInv' /\ StreamStep
  BY <1>1, <1>4, CloseReceiverSteps
<1> QED BY <1>3, <1>4 DEF RecvBuf

\* A second try to read the buffer keeps the invariant and is a step of
\* StreamSpec.
LEMMA RetrySteps ==
  ASSUME IInv, RetryReadRecvBuf
  PROVE  IInv' /\ StreamStep
<1>1. /\ recvbuf \in Seq(Byte) /\ wire \in Seq(Byte) /\ Len(wire) \in Nat
      /\ Len(recvbuf) \in Nat /\ TempBufSize \in Nat /\ Len(recvbuf) <= TempBufSize
  BY LenProperties, StreamAssumption DEF IInv, Types, TypeOK
<1>2. SubSeq(wire, 1, 0) = <<>> /\ recvbuf \o <<>> = recvbuf /\ Drop(wire, 0) = wire
  BY <1>1, SubSeqEmpty, SubSeqFull, ConcatEmptySeq DEF Drop
<1>3. PICK res \in ReadRecvBuf(recvbuf) : Receive(res, res.rest)
  BY DEF RetryReadRecvBuf
<1>4. res \in ReadRecvBuf(recvbuf \o SubSeq(wire, 1, 0))
  BY <1>2
<1>5. 0 \in 0..Len(wire) /\ 0 <= TempBufSize - Len(recvbuf)
  BY <1>1
<1>6. Received(res, 0) /\ "rcv" \in open
  BY <1>2, <1>3 DEF Received, Receive, RetryReadRecvBuf
<1> QED BY <1>4, <1>5, <1>6, ReceivedSteps

\* A step that does not touch what is on its way.
LEMMA HeldAsIs ==
  ASSUME IInv, UNCHANGED <<sendbuf, wire, recvbuf, open, broken>>
  PROVE  Holds' = Holds /\ Gone' = Gone /\ StreamFlight' = StreamFlight /\ Streamed' /\ Closed'
<1>1. Gone' = Gone
  BY DEF Gone
<1>2. Holds' = Holds /\ StreamFlight' = StreamFlight
  BY <1>1 DEF Holds, Pending, StreamFlight
<1>3. Streamed' /\ Closed'
  BY <1>1, <1>2 DEF IInv, Streamed, Closed
<1> QED BY <1>1, <1>2, <1>3

\* Handling a received package keeps the invariant and is a step of
\* StreamSpec.
LEMMA ReadRecvPkgSteps ==
  ASSUME IInv, ReadRecvPkg
  PROVE  IInv' /\ StreamStep
<1> USE DEF ReadRecvPkg
<1>1. Holds' = Holds /\ Gone' = Gone /\ StreamFlight' = StreamFlight /\ Streamed' /\ Closed'
  BY HeldAsIs
<1>2. Tail(recvq) \in Seq(Pkg) /\ Len(Tail(recvq)) = Len(recvq) - 1 /\ Len(recvq) \in Nat
  BY HeadTailProperties, LenProperties DEF IInv, Types
<1>3. Types'
  BY <1>2 DEF IInv, Types
<1>4. TypeOK'
  <2>1. Len(Tail(recvq)) <= ChainNum
    BY <1>2, StreamAssumption DEF IInv, TypeOK
  <2> QED BY <2>1 DEF IInv, TypeOK
<1>5. Ordered'
  BY <1>1 DEF IInv, Ordered
<1> QED BY <1>1, <1>3, <1>4, <1>5, StreamStutters DEF IInv

-----------------------------------------------------------------------------
(* The sender's steps. *)

\* joynet_write_send_data keeps the invariant and is a step of StreamSpec.
LEMMA WriteSendDataSteps ==
  ASSUME IInv, NEW pkg \in Pkg, WriteSendData(pkg)
  PROVE  IInv' /\ StreamStep
<1> USE DEF WriteSendData
<1>1. Holds' = Holds /\ Gone' = Gone /\ StreamFlight' = StreamFlight /\ Streamed' /\ Closed'
  BY HeldAsIs
<1>2. sendq \in Seq(Pkg) /\ sent \in Seq(Pkg) /\ Complete(Holds) \in Seq(Pkg)
  BY FlightNow DEF IInv, Types
<1>3. /\ Append(sendq, pkg) \in Seq(Pkg) /\ Len(Append(sendq, pkg)) = Len(sendq) + 1
      /\ Append(sent, pkg) \in Seq(Pkg) /\ Len(Append(sent, pkg)) = Len(sent) + 1
      /\ Len(sendq) \in Nat /\ Len(sent) \in Nat
  BY <1>2, AppendProperties, LenProperties
<1>4. Types'
  BY <1>3 DEF IInv, Types
<1>5. TypeOK'
  <2>1. Len(Append(sendq, pkg)) <= ChainNum /\ Len(Append(sent, pkg)) <= MaxSent
    BY <1>3, StreamAssumption
  <2> QED BY <2>1 DEF IInv, TypeOK
<1>6. Ordered'
  <2> DEFINE c == Complete(Holds)
             s == c \o sendq
  <2>1. s \in Seq(Pkg) /\ Subsequence(s, sent)
    BY <1>2, ConcatProperties DEF IInv, Ordered
  <2>2. Append(s, pkg) = c \o Append(sendq, pkg)
    <3>1. Append(s, pkg) = s \o <<pkg>> /\ Append(sendq, pkg) = sendq \o <<pkg>>
      BY <1>2, <2>1, AppendIsConcat
    <3>2. <<pkg>> \in Seq(Pkg)
      OBVIOUS
    <3> HIDE DEF c
    <3>3. Regroups(c, sendq, <<pkg>>)
      BY <1>2, <3>2, Regroup DEF c
    <3> QED BY <3>1, <3>3 DEF Regroups
  <2> HIDE DEF s
  <2>3. Subsequence(Append(s, pkg), Append(sent, pkg))
    BY <1>2, <2>1, SubsequenceAppend
  <2> QED BY <1>1, <2>2, <2>3 DEF Ordered
<1>7. Stream!Accept(pkg)
  BY <1>1 DEF Stream!Accept, StreamFlight
<1>8. StreamStep
  BY <1>7 DEF StreamStep, Stream!Next
<1> QED BY <1>1, <1>4, <1>5, <1>6, <1>8 DEF IInv

\* Closing the sender's side keeps the invariant and is a step of StreamSpec.
LEMMA CloseSenderSteps ==
  ASSUME IInv, CloseSender
  PROVE  IInv' /\ StreamStep
<1> USE DEF CloseSender
<1>1. Gone /\ Gone'
  BY DEF Gone, Ends
<1>2. Holds' = Holds /\ StreamFlight' = StreamFlight
  BY <1>1 DEF Holds, Pending, StreamFlight
<1>3. Types' /\ TypeOK' /\ Closed' /\ Streamed' /\ Ordered'
  <2>1. Types' /\ Closed'
    BY EmptySeq DEF IInv, Types, Closed
  <2>2. TypeOK'
    BY EmptySeq, StreamAssumption DEF IInv, TypeOK
  <2>3. Streamed' /\ Ordered'
    BY <1>1, <1>2 DEF IInv, Streamed, Ordered
  <2> QED BY <2>1, <2>2, <2>3
<1>4. StreamStep
  BY <1>1, <1>2, StreamStutters
<1> QED BY <1>3, <1>4 DEF IInv

\* How many packages go to sendbuf, and how many are released for that.
LEMMA FillsUp ==
  ASSUME IInv, NEW n \in 0..Len(sendq), Fits(n)
  PROVE  LET ms == SubSeq(sendq, 1, n)
         IN  /\ ms \in Seq(Pkg) /\ ms \in Seq(Small) /\ Len(ms) = n
             /\ BytesOf(ms) \in Seq(Byte)
             /\ Filled(n) \in Seq(Byte)
             /\ Len(Filled(n)) < TempBufSize
<1> DEFINE ms == SubSeq(sendq, 1, n)
           m  == BytesOf(ms)
<1>1. sendq \in Seq(Pkg) /\ sendbuf \in Seq(Byte) /\ Len(sendq) \in Nat /\ Len(sendbuf) < TempBufSize
  BY LenProperties DEF IInv, Types, TypeOK
<1>2. ms \in Seq(Pkg) /\ Len(ms) = n /\ n \in Nat
  BY <1>1, PrefixSeq
<1> HIDE DEF ms
<1>3. m \in Seq(Byte)
  BY <1>2, BytesOfType
<1>4. Filled(n) = sendbuf \o m
  BY DEF Filled, ms
<1> HIDE DEF m
<1>5. /\ Filled(n) \in Seq(Byte) /\ Len(Filled(n)) = Len(sendbuf) + Len(m)
      /\ Len(sendbuf) \in Nat /\ Len(m) \in Nat
  BY <1>1, <1>3, <1>4, CutConcat
<1>6. n = 0 => m = <<>>
  BY <1>2, EmptySeq, BytesOfType DEF m
<1>7. Len(Filled(n)) < TempBufSize
  BY <1>1, <1>5, <1>6, EmptySeq DEF Fits
<1>8. ms \in Seq(Small)
  <2>1. ASSUME NEW i \in 1..n
        PROVE  ms[i] \in Small
    <3>1. ms[i] \in Pkg /\ PkgLen[ms[i]] <= Len(m)
      BY <1>2, LenBytesOf, LenProperties DEF m
    <3>2. PkgLen[ms[i]] \in Nat /\ TempBufSize \in Nat
      BY <3>1, StreamAssumption
    <3>3. PkgLen[ms[i]] < TempBufSize
      BY <1>5, <1>7, <3>1, <3>2
    <3> QED BY <3>1, <3>3 DEF Small
  <2>2. ms \in [1..n -> Small]
    BY <1>2, <2>1, LenProperties
  <2> QED BY <1>2, <2>2
<1> QED BY <1>2, <1>3, <1>5, <1>7, <1>8 DEF ms, m

\* What joynet_send_buf releases of the send chain begins with what it has
\* copied.
LEMMA ReleasesFirst ==
  ASSUME IInv, NEW n \in 0..Len(sendq)
  PROVE  /\ Released(n) \in n..Len(sendq)
         /\ Drop(sendq, Released(n)) \in Seq(Pkg)
         /\ Len(Drop(sendq, Released(n))) = Len(sendq) - Released(n)
         /\ \E mid \in Seq(Pkg) : sendq = (SubSeq(sendq, 1, n) \o mid) \o Drop(sendq, Released(n))
<1> DEFINE r == Released(n)
           a == SubSeq(sendq, 1, n)
           d == Drop(sendq, r)
<1>1. sendq \in Seq(Pkg) /\ Len(sendq) \in Nat /\ n \in Nat
  BY LenProperties DEF IInv, Types
<1>2. r \in n..Len(sendq) /\ r \in 0..Len(sendq) /\ n \in 0..r
  BY <1>1 DEF Released
<1> HIDE DEF r
<1>3. d \in Seq(Pkg) /\ Len(d) = Len(sendq) - r
  BY <1>1, <1>2, CutSeq
<1>4. PICK mid \in Seq(Pkg) : Drop(sendq, n) = mid \o d
  BY <1>1, <1>2, DropTwice
<1>5. a \in Seq(Pkg) /\ sendq = a \o Drop(sendq, n)
  BY <1>1, CutSeq
<1> HIDE DEF a, d
<1>6. Regroups(a, mid, d)
  BY <1>3, <1>5, Regroup
<1>7. sendq = (a \o mid) \o d
  BY <1>4, <1>5, <1>6 DEF Regroups
<1> QED BY <1>2, <1>3, <1>7 DEF a, d, r

\* send takes a part of the buffer that the socket has room for.
LEMMA TakesSome ==
  ASSUME NEW buf \in Seq(Byte), NEW k \in Takes(buf), wire \in Seq(Byte), Len(wire) <= WireSize
  PROVE  /\ k \in 0..Len(buf)
         /\ ~Gone => Len(wire) + k <= WireSize
<1> DEFINE all   == Len(buf)
           free  == IF Gone THEN Len(buf) ELSE WireSize - Len(wire)
           most  == Min({all, free})
           one   == 1
           least == Min({one, most})
<1>1. all \in Nat /\ Len(wire) \in Nat /\ WireSize \in Nat
  BY LenProperties, StreamAssumption
<1>2. free \in Int /\ free >= 0 /\ (~Gone => free = WireSize - Len(wire))
  BY <1>1
<1>3. k \in least..most
  BY DEF Takes
<1>4. one \in Int /\ one >= 0 /\ all \in Int
  BY <1>1
<1> HIDE DEF all, free, one
<1>5. most \in Int /\ most <= all /\ most <= free /\ most \in {all, free}
  BY <1>2, <1>4, MinOfTwo
<1> HIDE DEF most
<1>6. least \in Int /\ least \in {one, most}
  BY <1>4, <1>5, MinOfTwo
<1> HIDE DEF least
<1>7. k \in 0..all /\ k <= free
  BY <1>1, <1>2, <1>3, <1>4, <1>5, <1>6
<1> QED BY <1>1, <1>2, <1>7 DEF all

\* The first n packages go on their way, and the next one is dropped if it is too large.
LEMMA StreamDeparts ==
  ASSUME NEW n \in 0..Len(sendq), sendq \in Seq(Pkg), SubSeq(sendq, 1, n) \in Seq(Small),
         sendq' = Drop(sendq, Released(n)), arrived' = arrived, Gone' = Gone,
         StreamFlight \in Seq(Pkg),
         \/ StreamFlight' = StreamFlight \o SubSeq(sendq, 1, n)
         \/ Gone /\ StreamFlight' = StreamFlight
  PROVE  StreamStep
<1> DEFINE f  == StreamFlight
           g  == StreamFlight'
           ms == SubSeq(sendq, 1, n)
           r  == Released(n)
<1>1. Len(sendq) \in Nat /\ n \in Nat /\ n <= Len(sendq)
  BY LenProperties
<1>2. ms \in Seq(Pkg) /\ Len(ms) = n /\ \A i \in 1..n : ms[i] = sendq[i]
  BY <1>1, PrefixSeq
<1>3. \A i \in 1..Len(sendq) : sendq[i] \in Pkg /\ PkgLen[sendq[i]] \in Nat /\ TempBufSize \in Nat
  BY <1>1, StreamAssumption, LenProperties
<1>4. /\ r \in {n, n + 1} /\ r <= Len(sendq)
      /\ r = n + 1 => PkgLen[sendq[r]] >= TempBufSize
  BY <1>1 DEF Released
<1>5. \A i \in 1..n : PkgLen[sendq[i]] < TempBufSize
  BY <1>2, LenProperties DEF Small
<1> HIDE DEF r
<1>6. g \in IF ~Gone THEN {f \o ms} ELSE Stream!Prefixes(f \o ms)
  <2>1. CASE g = f \o ms
    <3>1. f \o ms \in Seq(Pkg) /\ (f \o ms) \o <<>> = f \o ms /\ <<>> \in Seq(Pkg)
      BY <1>2, ConcatProperties, ConcatEmptySeq, EmptySeq
    <3> QED BY <2>1, <3>1, FrontIsPrefix
  <2>2. CASE Gone /\ g = f
    BY <1>2, <2>2, FrontIsPrefix
  <2> QED BY <2>1, <2>2
<1>7. CASE r = 0
  <2>1. n = 0 /\ ms = <<>>
    BY <1>1, <1>2, <1>4, <1>7, EmptySeq
  <2>2. sendq' = sendq
    <3>1. Drop(sendq, 0) \in Seq(Pkg) /\ sendq = SubSeq(sendq, 1, 0) \o Drop(sendq, 0)
      BY <1>1, CutSeq
    <3> QED BY <1>7, <2>1, <3>1, ConcatEmptySeq DEF r
  <2>3. g = f
    BY <2>1, ConcatEmptySeq
  <2> QED BY <2>2, <2>3, StreamStutters
<1>8. CASE r # 0
  <2>1. r \in 1..Len(sendq) /\ n \in 0..Len(sendq) /\ n \in {r - 1, r}
    BY <1>1, <1>4, <1>8
  <2>2. \A i \in 1..r : sendq[i] \in {pkg \in Pkg : PkgLen[pkg] >= TempBufSize} <=> i > n
    <3>1. ASSUME NEW i \in 1..r
          PROVE  PkgLen[sendq[i]] >= TempBufSize <=> i > n
      <4>1. CASE i > n
        <5>1. i = r /\ r = n + 1
          BY <1>1, <1>4, <4>1
        <5> QED BY <1>4, <4>1, <5>1
      <4>2. CASE ~(i > n)
        <5>1. i \in 1..n /\ i \in 1..Len(sendq)
          BY <1>1, <1>4, <4>2
        <5> QED BY <1>3, <1>5, <4>2, <5>1
      <4> QED BY <4>1, <4>2
    <3>2. \A i \in 1..r : i \in 1..Len(sendq)
      BY <1>1, <1>4
    <3> QED BY <1>3, <3>1, <3>2
  <2>3. sendq' = SubSeq(sendq, r + 1, Len(sendq))
    BY DEF Drop, r
  <2>4. g \in Stream!Kept(f \o SubSeq(sendq, 1, n))
    BY <1>6 DEF Stream!Kept
  <2>5. \E i \in 1..Len(sendq), kept \in 0..Len(sendq) :
          /\ kept \in {i - 1, i}
          /\ \A j \in 1..i : sendq[j] \in {pkg \in Pkg : PkgLen[pkg] >= TempBufSize} <=> j > kept
          /\ sendq' = SubSeq(sendq, i + 1, Len(sendq))
          /\ g \in Stream!Kept(f \o SubSeq(sendq, 1, kept))
    BY <2>1, <2>2, <2>3, <2>4
  <2>6. Stream!Depart
    BY <2>5 DEF Stream!Depart, StreamFlight
  <2> QED BY <2>6 DEF StreamStep, Stream!Next
<1> QED BY <1>7, <1>8

\* joynet_send_buf keeps the invariant and is a step of StreamSpec.
LEMMA SendBufSteps ==
  ASSUME IInv, SendBuf
  PROVE  IInv' /\ StreamStep
<1>1. PICK n \in {m \in 0..Len(sendq) : Fits(m) /\ ~Fits(m + 1)} :
        /\ sendq' = Drop(sendq, Released(n))
        /\ \E k \in Takes(Filled(n)) :
             /\ sendbuf' = Unsent(Filled(n), k)
             /\ wire' = IF Gone THEN wire ELSE wire \o SubSeq(Filled(n), 1, k)
  BY DEF SendBuf
<1>2. PICK k \in Takes(Filled(n)) :
        /\ sendbuf' = Unsent(Filled(n), k)
        /\ wire' = IF Gone THEN wire ELSE wire \o SubSeq(Filled(n), 1, k)
  BY <1>1
<1> DEFINE F  == Filled(n)
           ms == SubSeq(sendq, 1, n)
           m  == BytesOf(ms)
           r  == Released(n)
           d  == Drop(sendq, r)
           a  == SubSeq(F, 1, k)
           b  == Drop(F, k)
           C  == Complete(Holds)
<1>3. UNCHANGED <<blockSize, recvbuf, recvq, open, broken, sent, arrived, faults>>
  BY DEF SendBuf
<1>4. /\ sendq \in Seq(Pkg) /\ {wire, recvbuf, sendbuf} \subseteq Seq(Byte)
      /\ Len(sendq) \in Nat /\ Len(sendq) <= ChainNum
      /\ wire \in Seq(Byte) /\ Len(wire) <= WireSize
  BY LenProperties DEF IInv, Types, TypeOK
<1>5. n \in 0..Len(sendq) /\ Fits(n)
  BY <1>1
<1>6. /\ ms \in Seq(Pkg) /\ ms \in Seq(Small) /\ Len(ms) = n
      /\ m \in Seq(Byte)
      /\ F \in Seq(Byte)
      /\ Len(F) < TempBufSize
  BY <1>5, FillsUp
<1>7. /\ r \in n..Len(sendq)
      /\ d \in Seq(Pkg)
      /\ Len(d) = Len(sendq) - r
      /\ \E mid \in Seq(Pkg) : sendq = (ms \o mid) \o d
  BY <1>5, ReleasesFirst
<1>8. F = sendbuf \o m
  BY DEF Filled
<1>9. sendq' = d /\ sendbuf' = b /\ wire' = IF Gone THEN wire ELSE wire \o a
  BY <1>1, <1>2 DEF Unsent
<1>10. Gone' = Gone
  BY <1>3 DEF Gone
<1> HIDE DEF F, ms, r, d
<1>11. k \in 0..Len(F) /\ (~Gone => Len(wire) + k <= WireSize)
  BY <1>2, <1>4, <1>6, TakesSome DEF F
<1>12. /\ a \in Seq(Byte) /\ b \in Seq(Byte) /\ F = a \o b
       /\ Len(a) = k /\ Len(b) = Len(F) - k
  BY <1>6, <1>11, CutSeq
<1>13. C \in Seq(Pkg) /\ StreamFlight = C /\ Holds \in Seq(Byte)
  BY FlightNow
<1> HIDE DEF m, a, b, C
<1>14. wire \o a \in Seq(Byte) /\ Len(wire \o a) = Len(wire) + k
  BY <1>4, <1>12, CutConcat
<1>15. Types'
  BY <1>3, <1>4, <1>7, <1>9, <1>12, <1>14 DEF IInv, Types
<1>16. TypeOK'
  <2>1. Len(d) <= ChainNum
    <3>1. ChainNum \in Nat /\ n \in Nat
      BY StreamAssumption, <1>5
    <3> QED BY ONLY <1>4, <1>7, <3>1
  <2>2. Len(b) < TempBufSize
    BY <1>6, <1>11, <1>12, LenProperties, StreamAssumption
  <2>3. Len(wire') <= WireSize
    BY <1>4, <1>9, <1>11, <1>14
  <2> QED BY <1>3, <1>9, <2>1, <2>2, <2>3 DEF IInv, TypeOK
<1>17. Closed'
  <2>1. "snd" \in open
    BY DEF SendBuf
  <2>2. "rcv" \notin open => Gone /\ recvbuf = <<>> /\ wire = <<>>
    BY DEF IInv, Closed, Gone, Ends
  <2> QED BY <1>3, <1>9, <2>1, <2>2 DEF Closed
\* In a connection that is gone, the bytes vanish; otherwise the packages ms follow
\* what is on its way.
<1>18. CASE Gone
  <2>1. Holds' = Holds
    BY <1>3, <1>9, <1>10, <1>18 DEF Holds, Pending
  <2>2. Streamed'
    BY <1>10, <1>18, <2>1 DEF IInv, Streamed
  <2>3. PICK mid \in Seq(Pkg) : sendq = (ms \o mid) \o d
    BY <1>7
  <2>4. Ordered'
    <3> DEFINE e == ms \o mid
    <3>1. e \in Seq(Pkg)
      BY <1>6, ConcatProperties
    <3> HIDE DEF e
    <3>2. Regroups(C, e, d)
      BY <1>7, <1>13, <3>1, Regroup
    <3>3. Subsequence(C \o sendq, sent)
      BY DEF IInv, Ordered, C
    <3>4. Subsequence((C \o e) \o d, sent)
      BY <2>3, <3>2, <3>3 DEF e, Regroups
    <3>5. Subsequence(C \o d, sent)
      BY <1>7, <1>13, <3>1, <3>4, SubsequenceMiddle
    <3> QED BY <1>3, <1>9, <2>1, <3>5 DEF Ordered, C
  <2>5. IInv'
    BY <1>15, <1>16, <1>17, <2>2, <2>4 DEF IInv
  <2>6. StreamFlight' = C
    BY <2>1, <2>5, FlightNext DEF C
  <2>7. StreamStep
    BY <1>3, <1>4, <1>5, <1>6, <1>9, <1>10, <1>13, <1>18, <2>6, StreamDeparts DEF r, d, ms
  <2> QED BY <2>5, <2>7
<1>19. CASE ~Gone
  <2> DEFINE x == recvbuf \o wire
             h == Holds
             p == sendbuf
  <2>1. h = x \o p /\ x \in Seq(Byte) /\ p \in Seq(Byte) /\ Whole(h)
        /\ recvbuf \in Seq(Byte)
    BY <1>4, <1>19, ConcatProperties DEF IInv, Streamed, Holds, Pending
  <2>2. Holds' = (recvbuf \o (wire \o a)) \o b
    BY <1>3, <1>9, <1>10, <1>19 DEF Holds, Pending
  <2>3. Holds' = h \o m
    <3>1. (recvbuf \o (wire \o a)) \o b = x \o (a \o b)
      <4>1. RegroupsFour(recvbuf, wire, a, b)
        BY <1>4, <1>12, <2>1, RegroupFour
      <4> QED BY <4>1 DEF RegroupsFour
    <3> HIDE DEF x, p, h
    <3>2. Regroups(x, p, m)
      BY <1>6, <2>1, Regroup
    <3> QED BY <1>8, <1>12, <2>1, <2>2, <3>1, <3>2 DEF Regroups, p
  <2> HIDE DEF x, p, h
  <2>4. Whole(Holds')
    BY <1>6, <2>1, <2>3, WholeMore DEF m
  <2>5. Streamed'
    <3>1. Cut(Holds')
      BY <2>4, WholeIs
    <3> QED BY <2>4, <3>1 DEF Streamed
  <2>6. Complete(Holds') = C \o ms
    <3>1. h \in Seq(Byte) /\ Complete(h) = C
      BY <1>13 DEF h, C
    <3>2. Complete(m) = ms
      BY <1>6, CompleteBytesOf DEF m
    <3> QED BY <1>6, <2>3, <3>1, <3>2, CompleteConcat
  <2>7. PICK mid \in Seq(Pkg) : sendq = (ms \o mid) \o d
    BY <1>7
  <2>8. Ordered'
    <3> DEFINE e == C \o ms
    <3>1. e \in Seq(Pkg)
      BY <1>6, <1>13, ConcatProperties
    <3> HIDE DEF e
    <3>2. C \o ((ms \o mid) \o d) = (e \o mid) \o d
      <4>1. Regroups(ms, mid, d) /\ RegroupsFour(C, ms, mid, d) /\ Regroups(C, ms, mid)
        BY <1>6, <1>7, <1>13, Regroup, RegroupFour
      <4> DEFINE mm == ms \o mid
      <4>2. mm \in Seq(Pkg)
        BY <1>6, ConcatProperties
      <4> HIDE DEF mm
      <4>3. Regroups(C, mm, d)
        BY <1>7, <1>13, <4>2, Regroup
      <4> QED BY <4>1, <4>3 DEF Regroups, mm, e
    <3>3. Subsequence(C \o sendq, sent)
      BY DEF IInv, Ordered, C
    <3>4. Subsequence((e \o mid) \o d, sent)
      BY <2>7, <3>2, <3>3
    <3>5. Subsequence(e \o d, sent)
      BY <1>7, <3>1, <3>4, SubsequenceMiddle
    <3> QED BY <1>3, <1>9, <2>6, <3>5 DEF Ordered, e
  <2>9. IInv'
    BY <1>15, <1>16, <1>17, <2>5, <2>8 DEF IInv
  <2>10. StreamFlight' = C \o ms
    BY <2>6, <2>9, FlightNext
  <2>11. StreamStep
    BY <1>3, <1>4, <1>5, <1>6, <1>9, <1>10, <1>13, <2>10, StreamDeparts DEF r, d, ms
  <2> QED BY <2>9, <2>11
<1> QED BY <1>18, <1>19

-----------------------------------------------------------------------------
(* The environment's steps. *)

\* A reset of the connection keeps the invariant and is a step of StreamSpec.
LEMMA ResetSteps ==
  ASSUME IInv, Reset
  PROVE  IInv' /\ StreamStep
<1>1. PICK n \in 0..Len(wire) : wire' = SubSeq(wire, 1, n)
  BY DEF Reset
<1> DEFINE x == Drop(wire, n) \o Pending
           h == recvbuf \o SubSeq(wire, 1, n)
           z == Complete(x)
<1>2. /\ ~Gone /\ Gone' /\ broken' = TRUE
      /\ faults \in Nat \ {0} /\ faults' = faults - 1
      /\ UNCHANGED <<blockSize, sendq, sendbuf, recvbuf, recvq, open, sent, arrived>>
  BY StreamAssumption DEF Reset, Gone, IInv, TypeOK
<1>3. Ahead(h, x) /\ wire' \in Seq(Byte) /\ Len(wire') = n
  BY <1>1, ReceivedAhead
<1> HIDE DEF x
<1>4. Holds' = h /\ h \in Seq(Byte) /\ x \in Seq(Byte) /\ Holds = h \o x
  <2>1. Holds' = h \o <<>>
    BY <1>1, <1>2 DEF Holds, Pending
  <2> HIDE DEF h
  <2> QED BY <1>3, <2>1, ConcatEmptySeq DEF Ahead
<1> HIDE DEF h
<1>5. Types'
  BY <1>2, <1>3 DEF IInv, Types
<1>6. TypeOK'
  <2>1. n \in Nat /\ n <= WireSize
    BY LenProperties, StreamAssumption DEF IInv, Types, TypeOK
  <2>2. faults' \in 0..MaxFaults
    BY <1>2, StreamAssumption DEF IInv, TypeOK
  <2> QED BY <1>2, <1>3, <2>1, <2>2 DEF IInv, TypeOK
<1>7. Closed'
  BY <1>2 DEF Gone, Ends, Closed
<1>8. Streamed'
  BY <1>2, <1>4, CutPart DEF IInv, Streamed
<1> DEFINE c == Complete(h)
<1>9. Complete(Holds) = c \o z /\ c \in Seq(Pkg) /\ z \in Seq(Pkg)
  BY <1>4, CompleteConcat, CompleteType
<1> HIDE DEF c, z
<1>10. Ordered'
  <2>1. sendq \in Seq(Pkg) /\ Subsequence((c \o z) \o sendq, sent)
    BY <1>9 DEF IInv, Types, Ordered
  <2>2. Subsequence(c \o sendq, sent)
    BY <1>9, <2>1, SubsequenceMiddle
  <2> QED BY <1>2, <1>4, <2>2 DEF Ordered, c
<1>11. IInv'
  BY <1>5, <1>6, <1>7, <1>8, <1>10 DEF IInv
<1>12. StreamFlight = c \o z /\ StreamFlight' = c
  BY <1>4, <1>9, <1>11, FlightNow, FlightNext DEF c
<1>13. StreamFlight' \in Stream!Prefixes(StreamFlight)
  BY <1>9, <1>12, FrontIsPrefix
<1>14. Stream!Break
  BY <1>2, <1>13 DEF Stream!Break, StreamFlight
<1> QED BY <1>11, <1>14 DEF StreamStep, Stream!Next

\* A new connection keeps the invariant and is a step of StreamSpec.
LEMMA ReconnectSteps ==
  ASSUME IInv, Reconnect
  PROVE  IInv' /\ StreamStep
<1> USE DEF Reconnect
<1>1. recvbuf = <<>> /\ wire = <<>> /\ sendbuf = <<>> /\ Gone /\ ~Gone'
  BY DEF IInv, Closed, Gone, Ends
<1>2. Holds = <<>> /\ Holds' = <<>>
  BY <1>1, EmptySeq, ConcatEmptySeq DEF Holds, Pending
<1>3. Types' /\ TypeOK' /\ Closed'
  BY <1>1 DEF IInv, Types, TypeOK, Closed, Ends
<1>4. Streamed'
  BY <1>2, NothingCut DEF Streamed
<1>5. Ordered'
  BY <1>2 DEF IInv, Ordered
<1>6. IInv'
  BY <1>3, <1>4, <1>5 DEF IInv
<1>7. StreamFlight = <<>> /\ StreamFlight' = <<>>
  BY <1>2, <1>6, FlightNow, FlightNext, CompleteType
<1>8. Stream!Mend
  BY <1>1, <1>7 DEF Stream!Mend, StreamFlight
<1> QED BY <1>6, <1>8 DEF StreamStep, Stream!Next

-----------------------------------------------------------------------------
(* The theorems. *)

\* The first state has the invariant and is the first of StreamSpec.
LEMMA InitHolds ==
  ASSUME Init
  PROVE  IInv /\ Stream!Init
<1> USE DEF Init
<1>1. ~Gone
  BY DEF Gone
<1>2. Holds = <<>>
  BY EmptySeq, ConcatEmptySeq DEF Holds, Pending
<1>3. Types /\ Closed
  BY EmptySeq DEF Types, Closed, Ends
<1>4. TypeOK
  <2>1. /\ Len(sendq) = 0 /\ Len(recvq) = 0 /\ Len(sendbuf) = 0 /\ Len(recvbuf) = 0
        /\ Len(wire) = 0 /\ Len(sent) = 0
    BY EmptySeq
  <2>2. /\ ChainNum \in Nat /\ TempBufSize \in Nat /\ TempBufSize # 0 /\ WireSize \in Nat
        /\ MaxSent \in Nat /\ faults \in 0..MaxFaults
    BY StreamAssumption
  <2>3. open \subseteq Ends /\ broken \in BOOLEAN
    OBVIOUS
  <2> QED BY <2>1, <2>2, <2>3 DEF TypeOK
<1>5. Streamed
  BY <1>2, NothingCut DEF Streamed
<1>6. Ordered
  <2>1. Complete(Holds) \o sendq = <<>>
    BY <1>2, CompleteType, EmptySeq, ConcatEmptySeq
  <2>2. Subsequence(<<>>, sent)
    <3>1. [i \in {} |-> i] \in [{} -> DOMAIN sent] /\ DOMAIN <<>> = {}
      OBVIOUS
    <3> QED BY <3>1 DEF Subsequence
  <2> QED BY <2>1, <2>2 DEF Ordered
<1>7. IInv
  BY <1>3, <1>4, <1>5, <1>6 DEF IInv
<1>8. StreamFlight = <<>>
  BY <1>2, <1>7, FlightNow, CompleteType
<1>9. Stream!Init
  BY <1>1, <1>8 DEF Stream!Init, StreamFlight
<1> QED BY <1>7, <1>9

\* Every step keeps the invariant and is a step of StreamSpec.
LEMMA NextKeeps ==
  ASSUME IInv, [Next]_vars
  PROVE  IInv' /\ StreamStep
<1>1. ASSUME NEW pkg \in Pkg, WriteSendData(pkg)
      PROVE  IInv' /\ StreamStep
  BY <1>1, WriteSendDataSteps
<1>2. CASE SendBuf
  BY <1>2, SendBufSteps
<1>3. CASE CloseSender
  BY <1>3, CloseSenderSteps
<1>4. CASE RecvBuf
  BY <1>4, RecvBufSteps
<1>5. CASE RetryReadRecvBuf
  BY <1>5, RetrySteps
<1>6. CASE ReadRecvPkg
  BY <1>6, ReadRecvPkgSteps
<1>7. CASE Reset
  BY <1>7, ResetSteps
<1>8. CASE Reconnect
  BY <1>8, ReconnectSteps
<1>9. CASE UNCHANGED vars
  <2> USE <1>9 DEF vars
  <2>1. Gone' = Gone /\ Holds' = Holds /\ StreamFlight' = StreamFlight
    BY DEF Gone, Holds, Pending, StreamFlight
  <2>2. Types' /\ TypeOK' /\ Closed'
    BY DEF IInv, Types, TypeOK, Closed
  <2>3. Streamed' /\ Ordered'
    BY <2>1 DEF IInv, Streamed, Ordered
  <2>4. StreamStep
    BY <2>1, StreamStutters
  <2> QED BY <2>2, <2>3, <2>4 DEF IInv
<1> QED BY <1>1, <1>2, <1>3, <1>4, <1>5, <1>6, <1>7, <1>8, <1>9 DEF Next

\* The invariant holds in every state.
LEMMA InvariantHolds == Spec => []IInv
<1>1. Init => IInv
  BY InitHolds
<1>2. IInv /\ [Next]_vars => IInv'
  BY NextKeeps
<1> QED BY <1>1, <1>2, PTL DEF Spec

\* No buffer or chain ever holds more than fits: what joynetWriteSendBuf, joynetRecvBuf
\* and joynetReadRecvBuf move is bounded by their checks, whatever the bytes are.
THEOREM TypeCorrect == Spec => []TypeOK
<1>1. IInv => TypeOK
  BY DEF IInv
<1> QED BY <1>1, InvariantHolds, PTL

\* The receiver never loses its place in the stream, however TCP cuts it: what
\* joynetReadRecvBuf finds at the front of recvbuf is a header, and the packages on
\* their way are in the order in which the program sent them.
THEOREM StreamStaysWhole == Spec => []StreamWhole
<1>1. ASSUME IInv
      PROVE  StreamWhole
  <2> DEFINE bytes == IF Gone THEN recvbuf \o wire ELSE recvbuf \o wire \o sendbuf
  <2>1. /\ recvbuf \in Seq(Byte) /\ wire \in Seq(Byte)
        /\ Cut(Holds) /\ (~Gone => Whole(Holds))
        /\ sendq \in Seq(Pkg) /\ Subsequence(Complete(Holds) \o sendq, sent)
    BY <1>1 DEF IInv, Types, Streamed, Ordered
  <2>2. bytes = Holds
    <3>1. recvbuf \o wire \in Seq(Byte)
      BY <2>1, ConcatProperties
    <3> QED BY <3>1, ConcatEmptySeq DEF Holds, Pending
  <2> HIDE DEF bytes
  <2>3. IsPrefix(BytesOf(Complete(bytes)), bytes)
    BY <2>1, <2>2, CutBegins
  <2>4. ~Gone => BytesOf(Complete(bytes)) = bytes
    BY <2>1, <2>2, WholeIs
  <2>5. Subsequence(Complete(bytes), sent)
    BY <1>1, <2>1, <2>2, FlightNow, SubsequenceFront
  <2> QED BY <2>3, <2>4, <2>5 DEF StreamWhole, bytes
<1>2. IInv => StreamWhole
  BY <1>1
<1> QED BY <1>2, InvariantHolds, PTL

\* The bytes between two processes implement StreamSpec: each step of joynet.c, of TCP
\* and of the program is a step of StreamSpec or leaves what it sees as it is.
THEOREM ImplementsStreamSpec == Spec => ImplementsStream
<1>1. Init => Stream!Init
  BY InitHolds
<1>2. IInv /\ [Next]_vars => StreamStep
  BY NextKeeps
<1> QED BY <1>1, <1>2, InvariantHolds, PTL DEF Spec, ImplementsStream, Stream!Spec, StreamStep

=============================================================================
