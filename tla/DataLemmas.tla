----------------------------- MODULE DataLemmas -----------------------------
(***************************************************************************)
(* Lemmas about data that the proofs of several components cite: induction *)
(* over the natural numbers, and sequences.                                *)
(*                                                                         *)
(* Induction is stated with a set in place of a predicate: to prove P(n)   *)
(* for every n, show that {n \in Nat : P(n)} contains Nat.  A recursive    *)
(* function f[n \in 0..k] == e is a CHOOSE of a function that satisfies    *)
(* its equation; the proofs that use one give a function that does, and    *)
(* show by induction that there is no other.                               *)
(***************************************************************************)
EXTENDS Integers, Sequences, SequenceTheorems, WellFoundedInduction, TLAPS

\* A set of numbers that contains 0 and with every number the next one has them all.
LEMMA SetInduction ==
  ASSUME NEW S, 0 \in S, \A n \in Nat : n \in S => n + 1 \in S
  PROVE  Nat \subseteq S
<1> DEFINE R == {ss \in Nat \X Nat : ss[1] < ss[2]}
           T == Nat \ S
<1>1. IsWellFoundedOn(R, Nat)
  BY NatLessThanWellFounded DEF OpToRel
<1>2. SUFFICES ASSUME T # {} PROVE FALSE
  OBVIOUS
<1>3. PICK x \in T : \A y \in T : ~(<<y, x>> \in R)
  <2> HIDE DEF T, R
  <2>1. T \subseteq Nat
    BY DEF T
  <2> QED BY <1>1, <1>2, <2>1, WFMin
<1>4. x # 0 /\ x \in Nat /\ x \notin S
  OBVIOUS
<1>5. x - 1 \in Nat /\ x - 1 + 1 = x /\ x - 1 < x
  BY <1>4
<1>6. x - 1 \notin T
  <2>1. <<x - 1, x>> \in R
    BY <1>4, <1>5
  <2> HIDE DEF T, R
  <2> QED BY <1>3, <2>1
<1>7. x - 1 \in S
  BY <1>5, <1>6
<1> QED BY <1>4, <1>5, <1>7

\* The same from a to b.
LEMMA IntervalInduction ==
  ASSUME NEW a \in Int, NEW b \in Int, NEW S, a \in S,
         \A n \in a..b-1 : n \in S => n + 1 \in S
  PROVE  a..b \subseteq S
<1> DEFINE T == {n \in Nat : a + n \in S \/ a + n > b}
<1>1. 0 \in T
  OBVIOUS
<1>2. ASSUME NEW n \in Nat, n \in T
      PROVE  n + 1 \in T
  <2>1. CASE a + n \in S /\ a + n < b
    <3>1. a + n \in a..b-1
      BY <2>1
    <3>2. (a + n) + 1 \in S
      BY <2>1, <3>1
    <3>3. (a + n) + 1 = a + (n + 1)
      OBVIOUS
    <3> QED BY <3>2, <3>3
  <2>2. CASE a + n >= b
    BY <2>2
  <2> QED BY <1>2, <2>1, <2>2
<1>3. Nat \subseteq T
  <2> HIDE DEF T
  <2> QED BY <1>1, <1>2, SetInduction
<1>4. ASSUME NEW m \in a..b
      PROVE  m \in S
  <2>1. m - a \in Nat /\ a + (m - a) = m /\ ~(m > b)
    OBVIOUS
  <2>2. m - a \in T
    BY <1>3, <2>1
  <2> QED BY <2>1, <2>2
<1> QED BY <1>4

\* f begins with start and makes the n-th step as g[n] says.
IsRecursion(f, N, S, start, g) ==
  /\ f \in [0..N -> S]
  /\ f[0] = start
  /\ \A n \in 1..N : f[n] = g[n][f[n - 1]]

\* There is such a function.
LEMMA RecursionExists ==
  ASSUME NEW N \in Nat, NEW S, NEW start \in S, NEW g \in [1..N -> [S -> S]]
  PROVE  \E f : IsRecursion(f, N, S, start, g)
<1> DEFINE Upto(m, f) == f[0] = start /\ \A n \in 1..m : f[n] = g[n][f[n - 1]]
           T == {m \in 0..N : \E f \in [0..N -> S] : Upto(m, f)}
<1>1. 0 \in T
  <2> DEFINE f == [n \in 0..N |-> start]
  <2>1. f \in [0..N -> S] /\ f[0] = start
    OBVIOUS
  <2>2. \A n \in 1..0 : f[n] = g[n][f[n - 1]]
    OBVIOUS
  <2> HIDE DEF f
  <2> QED BY <2>1, <2>2
<1>2. ASSUME NEW m \in 0..N-1, m \in T
      PROVE  m + 1 \in T
  <2>1. PICK f \in [0..N -> S] : Upto(m, f)
    BY <1>2
  <2> DEFINE h == [f EXCEPT ![m + 1] = g[m + 1][f[m]]]
  <2>2. m \in 0..N /\ m + 1 \in 0..N /\ m + 1 \in 1..N
    OBVIOUS
  <2>3. g[m + 1][f[m]] \in S
    BY <2>2
  <2>4. h \in [0..N -> S]
    BY <2>3
  <2>5. h[m + 1] = g[m + 1][f[m]]
    BY <2>2
  <2>6. \A n \in 0..m : h[n] = f[n]
    OBVIOUS
  <2>7. Upto(m + 1, h)
    <3> HIDE DEF h
    <3>1. h[0] = start
      BY <2>1, <2>6
    <3>2. ASSUME NEW n \in 1..m+1
          PROVE  h[n] = g[n][h[n - 1]]
      <4>1. n - 1 \in 0..m /\ h[n - 1] = f[n - 1]
        BY <2>6
      <4>2. CASE n = m + 1
        BY <4>1, <4>2, <2>5, n - 1 = m
      <4>3. CASE n # m + 1
        <5>1. n \in 1..m /\ n \in 0..m
          BY <4>3
        <5> QED BY <2>1, <2>6, <4>1, <5>1
      <4> QED BY <4>2, <4>3
    <3> QED BY <3>1, <3>2
  <2> HIDE DEF h, Upto
  <2> QED BY <2>2, <2>4, <2>7
<1> HIDE DEF T
<1>3. 0..N \subseteq T
  BY <1>1, <1>2, IntervalInduction
<1>4. N \in T
  BY <1>3
<1> QED BY <1>4 DEF T, IsRecursion

\* A function that takes the same steps takes no other values.
LEMMA RecursionIs ==
  ASSUME NEW N \in Nat, NEW S, NEW start \in S, NEW g \in [1..N -> [S -> S]], NEW h,
         h = [n \in 0..N |-> h[n]], h[0] = start,
         \A n \in 1..N : h[n - 1] \in S => h[n] = g[n][h[n - 1]]
  PROVE  IsRecursion(h, N, S, start, g)
<1> DEFINE T == {n \in 0..N : h[n] \in S}
<1>1. 0 \in T
  OBVIOUS
<1>2. ASSUME NEW n \in 0..N-1, n \in T
      PROVE  n + 1 \in T
  <2>1. n + 1 \in 1..N /\ n + 1 \in 0..N /\ (n + 1) - 1 = n
    OBVIOUS
  <2>2. h[n + 1] = g[n + 1][h[n]]
    <3>1. h[(n + 1) - 1] \in S
      BY <1>2, <2>1
    <3>2. h[n + 1] = g[n + 1][h[(n + 1) - 1]]
      BY <2>1, <3>1
    <3> QED BY <2>1, <3>2
  <2>3. g[n + 1] \in [S -> S]
    BY <2>1
  <2> QED BY <1>2, <2>1, <2>2, <2>3
<1>3. 0..N \subseteq T
  <2>1. 0 \in Int /\ N \in Int
    OBVIOUS
  <2> HIDE DEF T
  <2> QED BY <1>1, <1>2, <2>1, IntervalInduction
<1>4. h \in [0..N -> S]
  BY <1>3
<1>5. \A n \in 1..N : h[n] = g[n][h[n - 1]]
  <2>1. \A n \in 1..N : n - 1 \in 0..N
    OBVIOUS
  <2> QED BY <1>4, <2>1
<1> QED BY <1>4, <1>5 DEF IsRecursion

-----------------------------------------------------------------------------

\* A sequence with one more element.
LEMMA AppendElements ==
  ASSUME NEW S, NEW s \in Seq(S), NEW e \in S
  PROVE  LET t == Append(s, e)
         IN  /\ t \in Seq(S)
             /\ Len(t) = Len(s) + 1
             /\ \A i \in 1..Len(s) : i \in 1..Len(t) /\ t[i] = s[i] /\ i # Len(s) + 1
             /\ Len(s) + 1 \in 1..Len(t)
             /\ t[Len(s) + 1] = e
             /\ \A i \in 1..Len(t) : \/ i \in 1..Len(s) /\ t[i] = s[i]
                                     \/ i = Len(s) + 1 /\ t[i] = e
             /\ {t[i] : i \in 1..Len(t)} = {s[i] : i \in 1..Len(s)} \cup {e}
<1> DEFINE n == Len(s)
           t == Append(s, e)
<1>1. n \in Nat
  BY LenProperties
<1>2. /\ t \in Seq(S) /\ Len(t) = n + 1
      /\ \A i \in 1..n : t[i] = s[i]
      /\ t[n + 1] = e
  BY AppendProperties
<1> HIDE DEF n, t
<1>3. /\ n + 1 \in 1..Len(t)
      /\ \A i \in 1..n : i \in 1..Len(t) /\ t[i] = s[i] /\ i # n + 1
  BY <1>1, <1>2
<1>4. ASSUME NEW i \in 1..Len(t)
      PROVE  (i \in 1..n /\ t[i] = s[i]) \/ (i = n + 1 /\ t[i] = e)
  <2>1. i \in 1..n \/ i = n + 1
    BY <1>1, <1>2
  <2> QED BY <1>2, <2>1
<1>5. {t[i] : i \in 1..Len(t)} = {s[i] : i \in 1..n} \cup {e}
  <2>1. ASSUME NEW i \in 1..Len(t)
        PROVE  t[i] \in {s[j] : j \in 1..n} \cup {e}
    BY <1>4
  <2>2. ASSUME NEW i \in 1..n
        PROVE  s[i] \in {t[j] : j \in 1..Len(t)}
    <3>1. i \in 1..Len(t) /\ t[i] = s[i]
      BY <1>3
    <3> QED BY <3>1, Zenon
  <2>3. e \in {t[j] : j \in 1..Len(t)}
    <3>1. PICK j \in 1..Len(t) : j = n + 1
      BY <1>3
    <3> QED BY <1>2, <3>1
  <2> QED BY <2>1, <2>2, <2>3
<1> QED BY <1>2, <1>3, <1>4, <1>5 DEF n, t

\* A sequence with an element in front.
LEMMA ConsSeq ==
  ASSUME NEW S, NEW p \in S, NEW s \in Seq(S)
  PROVE  /\ <<p>> \o s \in Seq(S)
         /\ <<p>> \o s # <<>>
         /\ Tail(<<p>> \o s) = s
         /\ \A e \in S : Append(<<p>> \o s, e) = <<p>> \o Append(s, e)
<1> DEFINE a == <<p>>
           t == a \o s
<1>1. a \in Seq(S) /\ Len(a) = 1 /\ Len(s) \in Nat
  BY LenProperties
<1> HIDE DEF a
<1>2. /\ t \in Seq(S) /\ Len(t) = 1 + Len(s)
      /\ \A i \in 1..1+Len(s) : t[i] = IF i <= 1 THEN a[i] ELSE s[i - 1]
  BY <1>1, ConcatProperties
<1> HIDE DEF t
<1>3. t # <<>>
  BY <1>1, <1>2, EmptySeq
<1>4. Tail(t) = s
  <2>1. /\ Tail(t) \in Seq(S) /\ Len(Tail(t)) = Len(t) - 1
        /\ \A i \in 1..Len(Tail(t)) : Tail(t)[i] = t[i + 1]
    BY <1>2, <1>3, HeadTailProperties
  <2>2. Len(Tail(t)) = Len(s)
    BY <1>1, <1>2, <2>1
  <2>3. ASSUME NEW i \in 1..Len(s)
        PROVE  Tail(t)[i] = s[i]
    <3>1. i + 1 \in 1..1+Len(s) /\ ~(i + 1 <= 1) /\ (i + 1) - 1 = i
      BY <1>1
    <3> QED BY <1>2, <2>1, <2>2, <3>1
  <2> QED BY <2>1, <2>2, <2>3, SeqEqual
<1>5. ASSUME NEW e \in S
      PROVE  Append(t, e) = a \o Append(s, e)
  <2> DEFINE z == <<e>>
  <2>1. z \in Seq(S)
    OBVIOUS
  <2>2. Append(t, e) = t \o z /\ Append(s, e) = s \o z
    BY <1>2, AppendIsConcat
  <2> HIDE DEF z
  <2>3. (a \o s) \o z = a \o (s \o z)
    BY <1>1, <2>1, ConcatAssociative
  <2> QED BY <2>2, <2>3 DEF t
<1> QED BY <1>2, <1>3, <1>4, <1>5 DEF t, a

\* A list's first m elements, and the next one.
LEMMA PrefixSeq ==
  ASSUME NEW S, NEW s \in Seq(S), NEW m \in 0..Len(s)
  PROVE  /\ SubSeq(s, 1, m) \in Seq(S)
         /\ Len(SubSeq(s, 1, m)) = m
         /\ \A i \in 1..m : SubSeq(s, 1, m)[i] = s[i]
         /\ m = Len(s) => SubSeq(s, 1, m) = s
         /\ m < Len(s) => SubSeq(s, 1, m + 1) = Append(SubSeq(s, 1, m), s[m + 1])
<1>1. m \in Nat /\ Len(s) \in Nat /\ \A i \in 1..m : s[i] \in S
  BY LenProperties
<1>2. /\ SubSeq(s, 1, m) \in Seq(S)
      /\ Len(SubSeq(s, 1, m)) = m
      /\ \A i \in 1..m : SubSeq(s, 1, m)[i] = s[i]
  BY <1>1
<1>3. m = Len(s) => SubSeq(s, 1, m) = s
  BY SubSeqFull
<1>4. ASSUME m < Len(s)
      PROVE  SubSeq(s, 1, m + 1) = Append(SubSeq(s, 1, m), s[m + 1])
  <2>1. m + 1 \in 1..Len(s) /\ s[m + 1] \in S
    BY <1>1, <1>4, LenProperties
  <2>2. SubSeq(s, 1, m + 1) = SubSeq(s, 1, m + 1 - 1) \o <<s[m + 1]>>
    <3>1. 1 \in 1..Len(s)
      BY <1>1, <1>4
    <3> QED BY <3>1, <2>1, SubSeqRecursiveSecond
  <2>3. m + 1 - 1 = m
    OBVIOUS
  <2>4. Append(SubSeq(s, 1, m), s[m + 1]) = SubSeq(s, 1, m) \o <<s[m + 1]>>
    BY <1>2, <2>1, AppendIsConcat
  <2> QED BY <2>2, <2>3, <2>4
<1> QED BY <1>2, <1>3, <1>4

\* A sequence's elements after the first n.
LEMMA SuffixSeq ==
  ASSUME NEW S, NEW s \in Seq(S), NEW n \in 0..Len(s)
  PROVE  /\ SubSeq(s, n + 1, Len(s)) \in Seq(S)
         /\ Len(SubSeq(s, n + 1, Len(s))) = Len(s) - n
         /\ \A i \in 1..Len(s)-n : SubSeq(s, n + 1, Len(s))[i] = s[n + i]
<1>1. Len(s) \in Nat /\ \A i \in 1..Len(s) : s[i] \in S
  BY LenProperties
<1> DEFINE L == Len(s)
           a == n + 1
           t == SubSeq(s, a, L)
<1>2. a \in Int /\ L \in Int /\ \A i \in a..L : s[i] \in S
  BY <1>1
<1> HIDE DEF a, L
<1>3. /\ t \in Seq(S)
      /\ Len(t) = IF a <= L THEN L - a + 1 ELSE 0
      /\ \A i \in 1..L-a+1 : t[i] = s[a + i - 1]
  BY <1>2, SubSeqProperties
<1>4. \A i \in 1..L-n : i \in 1..L-a+1 /\ a + i - 1 = n + i
  BY <1>1 DEF a, L
<1>5. n <= L /\ L \in Nat /\ n \in Nat
  BY <1>1 DEF L
<1>6. Len(t) = L - n
  BY <1>3, <1>5 DEF a
<1> QED BY <1>3, <1>4, <1>6 DEF L, a

\* u is a and then the elements of s after the first n; v leaves out one more.
SpliceFacts(S, a, s, n, u, v) ==
  /\ u \in Seq(S) /\ v \in Seq(S)
  /\ Len(a) + 1 \in 1..Len(u)
  /\ Len(u) = Len(a) + Len(s) - n
  /\ Len(v) = Len(u) - 1
  /\ u[Len(a) + 1] = s[n + 1]
  /\ n + 1 < Len(s) => u[Len(a) + 1 + 1] = s[n + 2]
  /\ \A i \in 1..Len(v) : v[i] = IF i < Len(a) + 1 THEN u[i] ELSE u[i + 1]
  /\ Append(a, s[n + 1]) \o SubSeq(s, n + 2, Len(s)) = u

LEMMA SpliceSeq ==
  ASSUME NEW S, NEW a \in Seq(S), NEW s \in Seq(S), NEW n \in 0..Len(s)-1
  PROVE  SpliceFacts(S, a, s, n, a \o SubSeq(s, n + 1, Len(s)), a \o SubSeq(s, n + 2, Len(s)))
<1> DEFINE r == SubSeq(s, n + 1, Len(s))
           q == SubSeq(s, n + 2, Len(s))
           u == a \o r
           v == a \o q
           x == s[n + 1]
           w == Append(a, x) \o q
           A == Len(a)
           N == Len(s)
<1>1. A \in Nat /\ N \in Nat /\ n \in 0..N /\ n + 1 \in 0..N /\ n + 1 + 1 = n + 2 /\ n \in Nat
  BY LenProperties
<1>2. x \in S
  BY <1>1, LenProperties
<1>3. r \in Seq(S) /\ Len(r) = N - n /\ \A i \in 1..N-n : r[i] = s[n + i]
  BY <1>1, SuffixSeq
<1>4. q \in Seq(S) /\ Len(q) = N - n - 1 /\ \A i \in 1..N-n-1 : q[i] = s[n + 1 + i]
  <2> DEFINE b == n + 1
  <2>1. b \in 0..Len(s) /\ b + 1 = n + 2
    BY <1>1
  <2> HIDE DEF b
  <2>2. /\ SubSeq(s, b + 1, Len(s)) \in Seq(S)
        /\ Len(SubSeq(s, b + 1, Len(s))) = Len(s) - b
        /\ \A i \in 1..Len(s)-b : SubSeq(s, b + 1, Len(s))[i] = s[b + i]
    BY <2>1, SuffixSeq
  <2>3. q \in Seq(S) /\ Len(q) = N - b /\ \A i \in 1..N-b : q[i] = s[b + i]
    BY <2>1, <2>2, Zenon
  <2>4. N - b = N - n - 1
    BY <1>1 DEF b
  <2> HIDE DEF q, N
  <2> QED BY <2>3, <2>4, Zenon DEF b
<1> HIDE DEF q, r, x, N, A
<1>5. /\ u \in Seq(S)
      /\ Len(u) = A + Len(r)
      /\ \A i \in 1..A+Len(r) : u[i] = IF i <= A THEN a[i] ELSE r[i - A]
  BY <1>3, ConcatProperties DEF A
<1>6. /\ v \in Seq(S)
      /\ Len(v) = A + Len(q)
      /\ \A i \in 1..A+Len(q) : v[i] = IF i <= A THEN a[i] ELSE q[i - A]
  BY <1>4, ConcatProperties DEF A
<1>7. /\ Append(a, x) \in Seq(S)
      /\ Len(Append(a, x)) = A + 1
      /\ \A i \in 1..A : Append(a, x)[i] = a[i]
      /\ Append(a, x)[A + 1] = x
  BY <1>2, AppendProperties DEF A
<1>8. /\ w \in Seq(S)
      /\ Len(w) = A + 1 + Len(q)
      /\ \A i \in 1..A+1+Len(q) : w[i] = IF i <= A + 1 THEN Append(a, x)[i] ELSE q[i - (A + 1)]
  <2>1. /\ w \in Seq(S)
        /\ Len(w) = Len(Append(a, x)) + Len(q)
        /\ \A i \in 1..Len(Append(a, x))+Len(q) :
             w[i] = IF i <= Len(Append(a, x)) THEN Append(a, x)[i] ELSE q[i - Len(Append(a, x))]
    BY <1>4, <1>7, ConcatProperties
  <2> QED BY <1>7, <2>1
<1> HIDE DEF u, v, w
<1>9. \A i \in 1..Len(u) : u[i] = IF i <= A THEN a[i] ELSE s[i - A + n]
  <2> SUFFICES ASSUME NEW i \in 1..Len(u), i > A PROVE r[i - A] = s[i - A + n]
    BY <1>1, <1>3, <1>5
  <2>1. i - A \in 1..N-n /\ n + (i - A) = i - A + n
    BY <1>1, <1>3, <1>5
  <2> QED BY <1>3, <2>1
<1>10. \A i \in 1..Len(v) : v[i] = IF i <= A THEN a[i] ELSE s[i - A + n + 1]
  <2> SUFFICES ASSUME NEW i \in 1..Len(v), i > A PROVE q[i - A] = s[i - A + n + 1]
    BY <1>1, <1>4, <1>6
  <2>1. i - A \in 1..N-n-1 /\ n + 1 + (i - A) = i - A + n + 1
    BY <1>1, <1>4, <1>6
  <2>2. q[i - A] = s[n + 1 + (i - A)]
    BY <1>4, <2>1
  <2> QED BY <2>1, <2>2
<1>11. w = u
  <2>1. Len(w) = Len(u) /\ Len(u) = A + N - n
    BY <1>1, <1>3, <1>4, <1>5, <1>8
  <2>2. ASSUME NEW i \in 1..Len(w)
        PROVE  w[i] = u[i]
    <3>4. i \in Nat /\ i \in 1..A+1+Len(q)
      BY <1>1, <1>4, <1>8
    <3>5. w[i] = IF i <= A + 1 THEN Append(a, x)[i] ELSE q[i - (A + 1)]
      BY <1>8, <3>4
    <3>1. CASE i <= A
      BY <1>1, <1>4, <1>7, <1>8, <1>9, <2>1, <3>1
    <3>2. CASE i = A + 1
      <4>1. w[i] = x
        BY <1>1, <1>7, <3>2, <3>5
      <4>2. u[i] = s[i - A + n] /\ i - A + n = n + 1
        BY <1>1, <1>9, <2>1, <3>2
      <4> QED BY <4>1, <4>2 DEF x
    <3>3. CASE i > A + 1
      <4>1. w[i] = q[i - (A + 1)] /\ i - (A + 1) \in 1..N-n-1
        BY <1>1, <1>4, <1>8, <3>3
      <4>2. q[i - (A + 1)] = s[n + 1 + (i - (A + 1))]
        BY <1>4, <4>1
      <4>3. u[i] = s[i - A + n] /\ i - A + n = n + 1 + (i - (A + 1))
        BY <1>1, <1>9, <2>1, <3>3
      <4> QED BY <4>1, <4>2, <4>3
    <3> QED BY <1>1, <3>1, <3>2, <3>3, <3>4
  <2> QED BY <1>5, <1>8, <2>1, <2>2, SeqEqual
<1>12. Len(u) = A + N - n /\ Len(v) = A + N - n - 1 /\ Len(u) \in Nat /\ Len(v) \in Nat
  BY <1>1, <1>3, <1>4, <1>5, <1>6
<1>19. ASSUME NEW j \in 1..Len(u), j > A
       PROVE  u[j] = s[j - A + n]
  <2>1. ~(j <= A)
    BY <1>1, <1>12, <1>19
  <2> QED BY <1>9, <2>1
<1>14. A + 1 \in 1..Len(u) /\ u[A + 1] = s[n + 1]
  <2>1. A + 1 \in 1..Len(u) /\ A + 1 > A
    BY <1>1, <1>12
  <2>2. u[A + 1] = s[(A + 1) - A + n]
    BY <2>1, <1>19
  <2>3. (A + 1) - A + n = n + 1
    BY <1>1
  <2> QED BY <2>1, <2>2, <2>3
<1>15. n + 1 < N => u[A + 1 + 1] = s[n + 2]
  <2> SUFFICES ASSUME n + 1 < N PROVE u[A + 1 + 1] = s[n + 2]
    OBVIOUS
  <2>1. A + 1 + 1 \in 1..Len(u) /\ A + 1 + 1 > A
    BY <1>1, <1>12
  <2>2. u[A + 1 + 1] = s[(A + 1 + 1) - A + n]
    BY <2>1, <1>19
  <2>3. (A + 1 + 1) - A + n = n + 2
    BY <1>1
  <2> QED BY <2>1, <2>2, <2>3
<1>16. ASSUME NEW i \in 1..Len(v)
       PROVE  v[i] = IF i < A + 1 THEN u[i] ELSE u[i + 1]
  <2>1. i \in 1..Len(u) /\ i + 1 \in 1..Len(u) /\ i \in Nat
    BY <1>1, <1>12
  <2>2. CASE i < A + 1
    <3>1. i <= A
      BY <1>1, <2>1, <2>2
    <3> QED BY <1>9, <1>10, <2>1, <2>2, <3>1
  <2>3. CASE ~(i < A + 1)
    <3>1. ~(i <= A) /\ i + 1 > A /\ i - A + n + 1 = (i + 1) - A + n
      BY <1>1, <2>1, <2>3
    <3>2. v[i] = s[i - A + n + 1]
      BY <1>10, <3>1
    <3>3. u[i + 1] = s[(i + 1) - A + n]
      BY <1>19, <2>1, <3>1
    <3> QED BY <2>3, <3>1, <3>2, <3>3
  <2> QED BY <2>2, <2>3
<1>17. Len(v) = Len(u) - 1
  BY <1>1, <1>12
<1>18. SpliceFacts(S, a, s, n, u, v)
  BY <1>5, <1>6, <1>11, <1>12, <1>14, <1>15, <1>16, <1>17 DEF w, q, x, A, N, SpliceFacts
<1> QED BY <1>18, Zenon DEF u, v, q, r, N

=============================================================================
