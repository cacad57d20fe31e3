-------------------------- MODULE JoyMessageLemmas --------------------------
(***************************************************************************)
(* Messages and the places where they are, for every value of the          *)
(* constants: what a step may do to the contents of all places so that no  *)
(* message is there twice, and that those from one process to another stay *)
(* in the order in which they were accepted.                               *)
(***************************************************************************)
EXTENDS JoySystem, DataLemmas, FiniteSetTheorems, TLAPS

Pkg ==
  [type : {"Shake", "Stop"}, src : Proc] \cup
  [type : {"Msg"}, src : Proc, chain : ProcId, id : Int]

Data == {m \in Pkg : m.type # "Shake"}

\* A list in which nothing occurs twice.
Distinct(s) == \A i, j \in DOMAIN s : s[i] = s[j] => i = j

\* Some package of the list is a Shake.
HasShake(pkgs) == \E i \in DOMAIN pkgs : pkgs[i].type = "Shake"

-----------------------------------------------------------------------------
(* Sequences. *)

\* A recursion stays in the sets that its steps lead from one to the next.
LEMMA RecursionWithin ==
  ASSUME NEW N \in Nat, NEW S, NEW start, NEW g, NEW f, IsRecursion(f, N, S, start, g),
         NEW Q, start \in Q[0],
         \A n \in 1..N : \A u \in Q[n - 1] : u \in S => g[n][u] \in Q[n]
  PROVE  \A n \in 0..N : f[n] \in Q[n]
<1> DEFINE T == {n \in 0..N : f[n] \in Q[n]}
<1>1. /\ f \in [0..N -> S] /\ f[0] = start
      /\ \A n \in 1..N : f[n] = g[n][f[n - 1]]
  BY DEF IsRecursion
<1>2. 0 \in T
  BY <1>1
<1>3. ASSUME NEW n \in 0..N-1, n \in T
      PROVE  n + 1 \in T
  <2>1. n + 1 \in 1..N /\ n + 1 \in 0..N /\ (n + 1) - 1 = n /\ n \in 0..N
    OBVIOUS
  <2>2. f[n + 1] = g[n + 1][f[n]] /\ f[n] \in S /\ f[n] \in Q[n]
    BY <1>1, <1>3, <2>1
  <2> QED BY <2>1, <2>2
<1>4. 0 \in Int /\ N \in Int
  OBVIOUS
<1>5. 0..N \subseteq T
  <2> HIDE DEF T
  <2> QED BY <1>2, <1>3, <1>4, IntervalInduction
<1> QED BY <1>5

\* The elements of r are some of the first n of s, in their order: g says which.
Embedded(r, s, n, g) ==
  \A i \in 1..Len(r) :
    /\ g[i] \in 1..n /\ s[g[i]] = r[i]
    /\ \A j \in 1..Len(r) : j < i => g[j] < g[i]

\* What Select has of the first n elements of s.
Selected(r, s, n, S, T) ==
  /\ r \in Seq(S) /\ r \in Seq(S \cap T) /\ Len(r) <= n
  /\ Len(r) < n <=> \E i \in 1..n : s[i] \notin T
  /\ \A m \in 1..n : (\A i \in 1..n : i # m => s[i] \in T) => Len(r) >= n - 1
  /\ \A i \in 1..Len(r) : \E j \in 1..n : r[i] = s[j]
  /\ \A j \in 1..n : s[j] \in T => \E i \in 1..Len(r) : r[i] = s[j]
  /\ \E g : Embedded(r, s, n, g)
  /\ Distinct(s) => Distinct(r)

\* The next element is taken or it is not.
LEMMA SelectedMore ==
  ASSUME NEW S, NEW T, NEW s \in Seq(S), NEW n \in 1..Len(s), NEW r, Selected(r, s, n - 1, S, T)
  PROVE  Selected(IF s[n] \in T THEN Append(r, s[n]) ELSE r, s, n, S, T)
<1>1. /\ Len(s) \in Nat /\ s[n] \in S /\ DOMAIN s = 1..Len(s) /\ n \in Nat /\ n >= 1
      /\ \A i \in 1..n-1 : i \in 1..n /\ i # n /\ i \in 1..Len(s)
      /\ \A i \in 1..n : i = n \/ i \in 1..n-1
      /\ (n - 1) - 1 = n - 2
  BY LenProperties
<1>2. /\ r \in Seq(S) /\ r \in Seq(S \cap T) /\ Len(r) <= n - 1
      /\ Len(r) < n - 1 <=> \E i \in 1..n-1 : s[i] \notin T
      /\ \A m \in 1..n-1 : (\A i \in 1..n-1 : i # m => s[i] \in T) => Len(r) >= n - 2
      /\ \A i \in 1..Len(r) : \E j \in 1..n-1 : r[i] = s[j]
      /\ \A j \in 1..n-1 : s[j] \in T => \E i \in 1..Len(r) : r[i] = s[j]
      /\ Distinct(s) => Distinct(r)
      /\ Len(r) \in Nat /\ DOMAIN r = 1..Len(r)
  BY <1>1, LenProperties DEF Selected
<1>3. PICK g : Embedded(r, s, n - 1, g)
  BY DEF Selected
<1>4. CASE s[n] \in T
  <2> DEFINE t == Append(r, s[n])
             N == Len(r)
             h == [i \in 1..N+1 |-> IF i <= N THEN g[i] ELSE n]
  <2>1. /\ t \in Seq(S) /\ Len(t) = N + 1 /\ t[N + 1] = s[n]
        /\ \A i \in 1..N : t[i] = r[i]
        /\ DOMAIN t = 1..N+1
    BY <1>1, <1>2, AppendProperties, LenProperties
  <2>2. t \in Seq(S \cap T)
    BY <1>1, <1>2, <1>4, AppendProperties
  <2> HIDE DEF t
  <2>3. Len(t) <= n /\ (Len(t) < n <=> \E i \in 1..n : s[i] \notin T)
    <3>1. (\E i \in 1..n : s[i] \notin T) <=> \E i \in 1..n-1 : s[i] \notin T
      BY <1>1, <1>4
    <3>2. Len(t) < n <=> N < n - 1
      BY <1>1, <1>2, <2>1
    <3> QED BY <1>1, <1>2, <2>1, <3>1, <3>2
  <2>4. ASSUME NEW m \in 1..n, \A i \in 1..n : i # m => s[i] \in T
        PROVE  Len(t) >= n - 1
    <3>1. CASE m = n
      BY <1>1, <1>2, <2>1, <2>4, <3>1
    <3>2. CASE m # n
      <4>1. m \in 1..n-1 /\ \A i \in 1..n-1 : i # m => s[i] \in T
        BY <1>1, <2>4, <3>2
      <4>2. N >= n - 2
        BY <1>2, <4>1
      <4> QED BY <1>1, <1>2, <2>1, <4>2
    <3> QED BY <3>1, <3>2
  <2>5. \A i \in 1..Len(t) : i = N + 1 \/ i \in 1..N
    BY <1>2, <2>1
  <2>6. ASSUME NEW i \in 1..Len(t)
        PROVE  \E j \in 1..n : t[i] = s[j]
    <3>1. CASE i = N + 1
      BY <1>1, <2>1, <3>1
    <3>2. CASE i # N + 1
      <4>1. i \in 1..N
        BY <2>5, <3>2
      <4> QED BY <1>1, <1>2, <2>1, <4>1
    <3> QED BY <3>1, <3>2
  <2>7. ASSUME NEW j \in 1..n, s[j] \in T
        PROVE  \E i \in 1..Len(t) : t[i] = s[j]
    <3>1. CASE j = n
      <4>1. N + 1 \in 1..Len(t)
        BY <1>2, <2>1
      <4> QED BY <2>1, <3>1, <4>1
    <3>2. CASE j # n
      <4>1. PICK i \in 1..N : r[i] = s[j]
        BY <1>1, <1>2, <2>7, <3>2
      <4>2. i \in 1..Len(t)
        BY <1>2, <2>1
      <4> QED BY <2>1, <4>1, <4>2
    <3> QED BY <3>1, <3>2
  <2>8. Embedded(t, s, n, h)
    <3>1. \A i \in 1..N : i \in 1..N+1 /\ i <= N
      BY <1>2
    <3>2. N + 1 \in 1..N+1 /\ ~(N + 1 <= N)
      BY <1>2
    <3>3. h[N + 1] = n /\ \A i \in 1..N : h[i] = g[i]
      BY <3>1, <3>2
    <3> HIDE DEF h, N
    <3>4. /\ \A i \in 1..N : /\ g[i] \in 1..n-1 /\ g[i] \in 1..n /\ s[g[i]] = r[i]
                             /\ \A j \in 1..N : j < i => g[j] < g[i]
      BY <1>1, <1>3 DEF Embedded, N
    <3> SUFFICES ASSUME NEW i \in 1..Len(t)
                 PROVE  /\ h[i] \in 1..n /\ s[h[i]] = t[i]
                        /\ \A j \in 1..Len(t) : j < i => h[j] < h[i]
      BY DEF Embedded
    <3>5. CASE i = N + 1
      <4>1. \A j \in 1..Len(t) : j < i => j \in 1..N
        BY <1>2, <2>1, <3>5 DEF N
      <4>2. \A j \in 1..N : g[j] < n
        BY <1>1, <3>4
      <4> QED BY <1>1, <2>1, <3>3, <3>5, <4>1, <4>2
    <3>6. CASE i # N + 1
      <4>1. i \in 1..N
        BY <2>5, <3>6
      <4>2. \A j \in 1..Len(t) : j < i => j \in 1..N
        BY <1>2, <2>5, <4>1 DEF N
      <4> QED BY <2>1, <3>3, <3>4, <4>1, <4>2
    <3> QED BY <3>5, <3>6
  <2>9. ASSUME Distinct(s)
        PROVE  Distinct(t)
    <3>1. \A i \in 1..N : t[i] # s[n]
      <4> TAKE i \in 1..N
      <4>1. PICK j \in 1..n-1 : r[i] = s[j]
        BY <1>2
      <4> QED BY <1>1, <2>1, <2>9, <4>1 DEF Distinct
    <3>2. \A i \in 1..N+1 : i \in 1..N \/ i = N + 1
      BY <1>2
    <3>3. Distinct(r)
      BY <1>2, <2>9
    <3> QED BY <1>2, <2>1, <3>1, <3>2, <3>3 DEF Distinct
  <2> QED BY <1>4, <2>1, <2>2, <2>3, <2>4, <2>6, <2>7, <2>8, <2>9 DEF Selected, t
<1>5. CASE s[n] \notin T
  <2>1. Len(r) <= n /\ (Len(r) < n <=> \E i \in 1..n : s[i] \notin T)
    BY <1>1, <1>2, <1>5
  <2>2. \A i \in 1..Len(r) : \E j \in 1..n : r[i] = s[j]
    BY <1>1, <1>2
  <2>3. ASSUME NEW m \in 1..n, \A i \in 1..n : i # m => s[i] \in T
        PROVE  Len(r) >= n - 1
    <3>1. n \in 1..n
      BY <1>1
    <3>2. m = n
      BY <1>5, <2>3, <3>1
    <3>3. \A i \in 1..n-1 : s[i] \in T
      BY <1>1, <2>3, <3>2
    <3> QED BY <1>1, <1>2, <3>3
  <2>4. \A j \in 1..n : s[j] \in T => \E i \in 1..Len(r) : r[i] = s[j]
    BY <1>1, <1>2, <1>5
  <2>5. Embedded(r, s, n, g)
    BY <1>1, <1>3 DEF Embedded
  <2>6. /\ r \in Seq(S) /\ r \in Seq(S \cap T)
        /\ Distinct(s) => Distinct(r)
    BY <1>2
  <2> QED BY <1>5, <2>1, <2>2, <2>3, <2>4, <2>5, <2>6 DEF Selected
<1> QED BY <1>4, <1>5

\* Select finds the elements that are in T, and no others.
LEMMA SelectFacts ==
  ASSUME NEW S, NEW s \in Seq(S), NEW T
  PROVE  Selected(Select(s, T), s, Len(s), S, T)
<1> DEFINE N == Len(s)
           Q == [n \in 0..N |-> {r \in Seq(S) : Selected(r, s, n, S, T)}]
           More(n, r) == IF s[n] \in T THEN Append(r, s[n]) ELSE r
           g == [n \in 1..N |-> [r \in Seq(S) |-> More(n, r)]]
           Step(h) == [n \in 0..N |-> IF n = 0 THEN <<>> ELSE More(n, h[n - 1])]
           c == CHOOSE h : h = Step(h)
<1>1. N \in Nat /\ \A n \in 1..N : s[n] \in S
  BY LenProperties
<1>2. <<>> \in Seq(S) /\ <<>> \in Seq(S \cap T) /\ Len(<<>>) = 0 /\ DOMAIN <<>> = 1..0
  BY EmptySeq, LenProperties
<1>3. Selected(<<>>, s, 0, S, T)
  BY <1>2 DEF Selected, Distinct, Embedded
<1>4. g \in [1..N -> [Seq(S) -> Seq(S)]]
  <2>1. \A n \in 1..N : \A r \in Seq(S) : More(n, r) \in Seq(S)
    BY <1>1, AppendProperties
  <2> HIDE DEF N, More
  <2> QED BY <2>1
<1>5. \A n \in 1..N : \A r \in Seq(S) : g[n][r] = More(n, r)
  OBVIOUS
<1>6. \A n \in 1..N : \A u \in Q[n - 1] : g[n][u] \in Q[n]
  <2> TAKE n \in 1..N
  <2>1. n - 1 \in 0..N /\ n \in 0..N
    BY <1>1
  <2>2. Q[n - 1] = {r \in Seq(S) : Selected(r, s, n - 1, S, T)}
    BY <2>1
  <2>3. Q[n] = {r \in Seq(S) : Selected(r, s, n, S, T)}
    BY <2>1
  <2> TAKE u \in Q[n - 1]
  <2>4. u \in Seq(S) /\ Selected(u, s, n - 1, S, T)
    BY <2>2
  <2>5. Selected(More(n, u), s, n, S, T)
    BY <2>4, SelectedMore
  <2>6. More(n, u) \in Seq(S)
    BY <2>5 DEF Selected
  <2> HIDE DEF Q, g, More
  <2> QED BY <1>5, <2>3, <2>4, <2>5, <2>6
<1>7. <<>> \in Q[0]
  BY <1>1, <1>2, <1>3
<1> HIDE DEF g
<1>8. PICK f : IsRecursion(f, N, Seq(S), <<>>, g)
  <2> HIDE DEF N
  <2> QED BY <1>1, <1>2, <1>4, RecursionExists
<1>9. \A n \in 0..N : f[n] \in Q[n]
  <2> HIDE DEF N, Q
  <2> QED BY <1>1, <1>6, <1>7, <1>8, RecursionWithin
<1>10. f = Step(f)
  <2> HIDE DEF N, More
  <2>1. f \in [0..N -> Seq(S)] /\ f[0] = <<>> /\ \A n \in 1..N : f[n] = g[n][f[n - 1]]
    BY <1>8 DEF IsRecursion
  <2>2. ASSUME NEW n \in 0..N
        PROVE  f[n] = IF n = 0 THEN <<>> ELSE More(n, f[n - 1])
    <3>1. CASE n = 0
      BY <2>1, <3>1
    <3>2. CASE n # 0
      <4>1. n \in 1..N /\ n - 1 \in 0..N
        BY <1>1, <3>2
      <4> QED BY <1>5, <2>1, <3>2, <4>1
    <3> QED BY <3>1, <3>2
  <2> QED BY <2>1, <2>2
<1>11. c = Step(c)
  <2> HIDE DEF Step
  <2> QED BY <1>10, Zenon
<1>12. \A n \in 0..N : c[n] = IF n = 0 THEN <<>> ELSE More(n, c[n - 1])
  <2> HIDE DEF c, N, More
  <2> QED BY <1>11
<1>13. \A n \in 0..N : f[n] = IF n = 0 THEN <<>> ELSE More(n, f[n - 1])
  <2> HIDE DEF N, More
  <2> QED BY <1>10
<1>14. Select(s, T) = c[N]
  BY DEF Select
<1> DEFINE U == {n \in 0..N : c[n] = f[n]}
<1>15. 0..N \subseteq U
  <2> HIDE DEF c, N, More
  <2>1. 0 \in U
    BY <1>1, <1>12, <1>13
  <2>2. ASSUME NEW n \in 0..N-1, n \in U
        PROVE  n + 1 \in U
    <3>1. n + 1 \in 0..N /\ n + 1 # 0 /\ (n + 1) - 1 = n
      BY <1>1
    <3> QED BY <1>12, <1>13, <2>2, <3>1
  <2>3. 0 \in Int /\ N \in Int
    BY <1>1
  <2> HIDE DEF U
  <2> QED BY <2>1, <2>2, <2>3, IntervalInduction
<1>16. N \in 0..N
  BY <1>1
<1>17. c[N] \in Q[N]
  BY <1>9, <1>15, <1>16
<1> QED BY <1>14, <1>16, <1>17

-----------------------------------------------------------------------------
(* The messages in all places: F says what each place holds. *)

Contents == [Place -> Seq(Pkg)]

SameMsg(m, n) == m.type = "Msg" /\ n.type = "Msg" /\ m.src = n.src /\ m.id = n.id

\* A message is in one position of one place.
Once(F) ==
  \A a, b \in Place : \A i \in DOMAIN F[a], j \in DOMAIN F[b] :
    SameMsg(F[a][i], F[b][j]) => a = b /\ i = j

\* None has a number that its sender has not reached: n[p] is the last one of p.
Counted(F, n) ==
  \A a \in Place : \A i \in DOMAIN F[a] :
    F[a][i].type = "Msg" => F[a][i].id <= n[F[a][i].src]

\* A process sends its own messages only.
Own(F) ==
  \A a \in Place : \A i \in DOMAIN F[a] :
    a.at = "sendq" /\ F[a][i].type = "Msg" => F[a][i].src = a.of

\* The messages of x get older along the stages S, where 0 is no stage.
Aged(F, S, x) ==
  \A a, b \in Place : \A i \in DOMAIN F[a], j \in DOMAIN F[b] :
    /\ S[a] > 0 /\ S[b] > 0 /\ (S[a] < S[b] \/ (a = b /\ i < j))
    /\ SentBy(F[a][i], x) /\ SentBy(F[b][j], x)
    => F[a][i].id < F[b][j].id

\* The messages of s are messages of t, in the same order.
PartBy(s, t, g) ==
  \A i \in DOMAIN s : s[i].type = "Msg" =>
    /\ g[i] \in DOMAIN t /\ t[g[i]] = s[i]
    /\ \A j \in DOMAIN s : s[j].type = "Msg" /\ j < i => g[j] < g[i]

Part(s, t) == \E g : PartBy(s, t, g)

\* The messages of s are messages of t.
Within(s, t) ==
  \A i \in DOMAIN s : s[i].type = "Msg" => \E j \in DOMAIN t : t[j] = s[i]

\* No message of x is in s.
NoneOf(s, x) == \A i \in DOMAIN s : ~SentBy(s[i], x)

\* Where every place holds a part of what it held, no message is added, and those
\* that are left are in the same order.
LEMMA ShrinkKeeps ==
  ASSUME NEW F \in Contents, NEW G \in Contents, \A a \in Place : Part(G[a], F[a])
  PROVE  /\ Once(F) => Once(G)
         /\ \A n : Counted(F, n) => Counted(G, n)
         /\ Own(F) => Own(G)
         /\ \A S, T, x :
              /\ Aged(F, S, x)
              /\ \A a \in Place : T[a] = S[a] \/ NoneOf(G[a], x)
              => Aged(G, T, x)
<1>1. \A a \in Place : F[a] \in Seq(Pkg) /\ G[a] \in Seq(Pkg)
  BY DEF Contents
<1>2. \A a \in Place : DOMAIN F[a] \subseteq Int /\ DOMAIN G[a] \subseteq Int
  BY <1>1, LenProperties
<1>3. ASSUME Once(F)
      PROVE  Once(G)
  <2> SUFFICES ASSUME NEW a \in Place, NEW b \in Place,
                      NEW i \in DOMAIN G[a], NEW j \in DOMAIN G[b],
                      SameMsg(G[a][i], G[b][j])
               PROVE  a = b /\ i = j
    BY DEF Once
  <2>1. PICK g : PartBy(G[a], F[a], g)
    BY DEF Part
  <2>2. PICK h : PartBy(G[b], F[b], h) /\ (a = b => h = g)
    BY <2>1 DEF Part
  <2>3. g[i] \in DOMAIN F[a] /\ F[a][g[i]] = G[a][i] /\ h[j] \in DOMAIN F[b] /\ F[b][h[j]] = G[b][j]
    BY <2>1, <2>2 DEF PartBy, SameMsg
  <2>4. a = b /\ g[i] = h[j]
    BY <1>3, <2>3 DEF Once
  <2>5. i < j => g[i] < g[j]
    BY <2>1, <2>4 DEF PartBy, SameMsg
  <2>6. j < i => g[j] < g[i]
    BY <2>1, <2>4 DEF PartBy, SameMsg
  <2> QED BY <1>2, <2>2, <2>3, <2>4, <2>5, <2>6
<1>4. ASSUME NEW a \in Place, NEW i \in DOMAIN G[a], G[a][i].type = "Msg"
      PROVE  \E j \in DOMAIN F[a] : F[a][j] = G[a][i]
  <2>1. PICK g : PartBy(G[a], F[a], g)
    BY DEF Part
  <2>2. g[i] \in DOMAIN F[a] /\ F[a][g[i]] = G[a][i]
    BY <1>4, <2>1 DEF PartBy
  <2> QED BY <2>2
<1>5. ASSUME NEW S, NEW T, NEW x, Aged(F, S, x),
             \A a \in Place : T[a] = S[a] \/ NoneOf(G[a], x)
      PROVE  Aged(G, T, x)
  <2> SUFFICES ASSUME NEW a \in Place, NEW b \in Place,
                      NEW i \in DOMAIN G[a], NEW j \in DOMAIN G[b],
                      T[a] > 0, T[b] > 0, T[a] < T[b] \/ (a = b /\ i < j),
                      SentBy(G[a][i], x), SentBy(G[b][j], x)
               PROVE  G[a][i].id < G[b][j].id
    BY DEF Aged
  <2>1. PICK g : PartBy(G[a], F[a], g)
    BY DEF Part
  <2>2. PICK h : PartBy(G[b], F[b], h) /\ (a = b => h = g)
    BY <2>1 DEF Part
  <2>3. g[i] \in DOMAIN F[a] /\ F[a][g[i]] = G[a][i] /\ h[j] \in DOMAIN F[b] /\ F[b][h[j]] = G[b][j]
    BY <2>1, <2>2 DEF PartBy, SentBy
  <2>4. T[a] = S[a] /\ T[b] = S[b]
    BY <1>5 DEF NoneOf
  <2>5. a = b /\ i < j => g[i] < h[j]
    BY <2>1, <2>2 DEF PartBy, SentBy
  <2> QED BY <1>5, <2>3, <2>4, <2>5 DEF Aged
<1>6. ASSUME NEW n, Counted(F, n)
      PROVE  Counted(G, n)
  BY <1>4, <1>6 DEF Counted
<1>7. ASSUME Own(F)
      PROVE  Own(G)
  BY <1>4, <1>7 DEF Own
<1> QED BY <1>3, <1>5, <1>6, <1>7

\* Messages go from the front of place a to the end of place b.
Flow(F, G, a, b, n, s) ==
  /\ n \in 0..Len(F[a])
  /\ s \in Seq(Pkg) /\ Part(s, SubSeq(F[a], 1, n)) /\ Within(SubSeq(F[a], 1, n), s)
  /\ Part(G[a], SubSeq(F[a], n + 1, Len(F[a]))) /\ Within(SubSeq(F[a], n + 1, Len(F[a])), G[a])
  /\ G[b] = F[b] \o s
  /\ \A c \in Place : c # a /\ c # b => G[c] = F[c]

\* A flow down one stage, of which no other place holds messages of x.
Downhill(F, S, x, a, b) ==
  \/ NoneOf(F[a], x)
  \/ S[b] = 0
  \/ /\ S[a] = S[b] + 1
     /\ \A c \in Place : c # a /\ S[c] = S[a] => NoneOf(F[c], x)

\* Where a message of G comes from in such a flow: from(c, i) and at(c, i).
FlowsFrom(F, G, a, b, n, from, at) ==
  /\ \A c \in Place : \A i \in DOMAIN G[c] : G[c][i].type = "Msg" =>
       /\ from[c][i] \in Place /\ at[c][i] \in DOMAIN F[from[c][i]]
       /\ F[from[c][i]][at[c][i]] = G[c][i]
       /\ \/ from[c][i] = c /\ (c = a => at[c][i] > n)
          \/ c = b /\ from[c][i] = a /\ at[c][i] <= n /\ i > Len(F[b])
       /\ c = b /\ from[c][i] = b => at[c][i] = i /\ i <= Len(F[b])
       /\ \A j \in DOMAIN G[c] : G[c][j].type = "Msg" /\ j < i =>
            at[c][j] < at[c][i] \/ from[c][j] # from[c][i]

\* A flow has a new contents for each place that is the old one, shorter or
\* with messages of "from" added.
LEMMA FlowOrigin ==
  ASSUME NEW F \in Contents, NEW G \in Contents, NEW a \in Place, NEW b \in Place, a # b,
         NEW n, NEW s, Flow(F, G, a, b, n, s)
  PROVE  \E from, at : FlowsFrom(F, G, a, b, n, from, at)
<1> DEFINE L == Len(F[b])
           u == SubSeq(F[a], 1, n)
           r == SubSeq(F[a], n + 1, Len(F[a]))
<1>1. /\ n \in 0..Len(F[a]) /\ n \in Nat
      /\ s \in Seq(Pkg) /\ Part(s, u) /\ Part(G[a], r) /\ G[b] = F[b] \o s
      /\ \A c \in Place : c # a /\ c # b => G[c] = F[c]
      /\ \A c \in Place : F[c] \in Seq(Pkg) /\ G[c] \in Seq(Pkg)
      /\ F[a] \in Seq(Pkg)
  BY DEF Flow, Contents
<1>2. /\ \A c \in Place : /\ Len(F[c]) \in Nat /\ DOMAIN F[c] = 1..Len(F[c])
                          /\ Len(G[c]) \in Nat /\ DOMAIN G[c] = 1..Len(G[c])
      /\ Len(s) \in Nat /\ DOMAIN s = 1..Len(s) /\ L \in Nat
  BY <1>1, LenProperties
<1>3. /\ DOMAIN u = 1..n /\ \A i \in 1..n : u[i] = F[a][i]
      /\ DOMAIN r = 1..(Len(F[a]) - n) /\ \A i \in 1..(Len(F[a]) - n) : r[i] = F[a][n + i]
  BY <1>1, PrefixSeq, SuffixSeq, LenProperties
<1>4. PICK h : PartBy(s, u, h)
  BY <1>1 DEF Part
<1>5. PICK g : PartBy(G[a], r, g)
  BY <1>1 DEF Part
<1> HIDE DEF u, r
<1> DEFINE Moved(c, i) == c = b /\ i > L
           from == [c \in Place |-> [i \in DOMAIN G[c] |-> IF Moved(c, i) THEN a ELSE c]]
           at   == [c \in Place |-> [i \in DOMAIN G[c] |->
                      IF Moved(c, i) THEN h[i - L] ELSE IF c = a THEN n + g[i] ELSE i]]
<1>6. \A c \in Place : \A i \in DOMAIN G[c] :
        /\ from[c][i] = (IF Moved(c, i) THEN a ELSE c)
        /\ at[c][i] = (IF Moved(c, i) THEN h[i - L] ELSE IF c = a THEN n + g[i] ELSE i)
  OBVIOUS
<1> HIDE DEF from, at
<1>7. /\ DOMAIN G[b] = 1..(L + Len(s))
      /\ \A i \in 1..L : G[b][i] = F[b][i]
      /\ \A i \in DOMAIN G[b] : i > L => i - L \in DOMAIN s /\ G[b][i] = s[i - L]
  <2>1. /\ Len(F[b] \o s) = L + Len(s) /\ F[b] \in Seq(Pkg)
        /\ \A i \in 1..L + Len(s) : (F[b] \o s)[i] = IF i <= L THEN F[b][i] ELSE s[i - L]
    BY <1>1, ConcatProperties
  <2> HIDE DEF L
  <2> QED BY <1>1, <1>2, <2>1
<1>8. ASSUME NEW i \in DOMAIN G[b], i > L, G[b][i].type = "Msg"
      PROVE  /\ h[i - L] \in 1..n /\ h[i - L] \in DOMAIN F[a] /\ F[a][h[i - L]] = G[b][i]
             /\ \A j \in DOMAIN G[b] : G[b][j].type = "Msg" /\ j < i /\ j > L => h[j - L] < h[i - L]
  <2>1. i - L \in DOMAIN s /\ s[i - L].type = "Msg" /\ s[i - L] = G[b][i]
    BY <1>7, <1>8
  <2>2. h[i - L] \in 1..n /\ u[h[i - L]] = s[i - L]
    BY <1>3, <1>4, <2>1 DEF PartBy
  <2>3. ASSUME NEW j \in DOMAIN G[b], G[b][j].type = "Msg", j < i, j > L
        PROVE  h[j - L] < h[i - L]
    <3>1. j - L \in DOMAIN s /\ s[j - L].type = "Msg"
      BY <1>7, <2>3
    <3>2. j - L < i - L
      <4>1. i \in Int /\ j \in Int /\ L \in Int
        BY <1>2
      <4> HIDE DEF L
      <4> QED BY <2>3, <4>1
    <3> QED BY <1>4, <2>1, <3>1, <3>2 DEF PartBy
  <2>4. u[h[i - L]] = F[a][h[i - L]]
    BY <1>3, <2>2
  <2>5. 1..n \subseteq DOMAIN F[a]
    BY <1>1, <1>2
  <2> QED BY <2>1, <2>2, <2>3, <2>4, <2>5
<1>9. ASSUME NEW i \in DOMAIN G[a], G[a][i].type = "Msg"
      PROVE  /\ n + g[i] \in DOMAIN F[a] /\ F[a][n + g[i]] = G[a][i] /\ n + g[i] > n
             /\ \A j \in DOMAIN G[a] : G[a][j].type = "Msg" /\ j < i => n + g[j] < n + g[i]
  <2>1. g[i] \in 1..(Len(F[a]) - n) /\ r[g[i]] = G[a][i]
    BY <1>3, <1>5, <1>9 DEF PartBy
  <2>2. ASSUME NEW j \in DOMAIN G[a], G[a][j].type = "Msg", j < i
        PROVE  n + g[j] < n + g[i]
    <3>1. g[j] < g[i] /\ g[j] \in 1..(Len(F[a]) - n)
      BY <1>3, <1>5, <1>9, <2>2 DEF PartBy
    <3> QED BY <1>1, <1>2, <2>1, <3>1
  <2>3. F[a][n + g[i]] = G[a][i]
    BY <1>3, <2>1
  <2>4. n + g[i] \in 1..Len(F[a]) /\ n + g[i] > n
    BY <1>1, <1>2, <2>1
  <2> QED BY <1>2, <2>2, <2>3, <2>4
<1>10. ASSUME NEW c \in Place, NEW i \in DOMAIN G[c], G[c][i].type = "Msg"
       PROVE  /\ from[c][i] \in Place /\ at[c][i] \in DOMAIN F[from[c][i]]
              /\ F[from[c][i]][at[c][i]] = G[c][i]
              /\ \/ from[c][i] = c /\ (c = a => at[c][i] > n)
                 \/ c = b /\ from[c][i] = a /\ at[c][i] <= n /\ i > L
              /\ c = b /\ from[c][i] = b => at[c][i] = i /\ i <= L
              /\ \A j \in DOMAIN G[c] : G[c][j].type = "Msg" /\ j < i =>
                   at[c][j] < at[c][i] \/ from[c][j] # from[c][i]
  <2>1. CASE c = a
    <3>1. /\ from[c][i] = a /\ at[c][i] = n + g[i]
          /\ \A j \in DOMAIN G[c] : from[c][j] = a /\ at[c][j] = n + g[j]
      BY <1>6, <2>1
    <3> QED BY <1>9, <1>10, <2>1, <3>1
  <2>2. CASE c = b /\ i > L
    <3>1. from[c][i] = a /\ at[c][i] = h[i - L]
      BY <1>6, <2>2
    <3>2. ASSUME NEW j \in DOMAIN G[c], G[c][j].type = "Msg", j < i
          PROVE  at[c][j] < at[c][i] \/ from[c][j] # from[c][i]
      <4>1. CASE j > L
        BY <1>6, <1>8, <1>10, <2>2, <3>1, <3>2, <4>1
      <4>2. CASE ~(j > L)
        BY <1>6, <2>2, <3>1, <4>2
      <4> QED BY <4>1, <4>2
    <3>3. h[i - L] \in 1..n /\ h[i - L] \in DOMAIN F[a] /\ F[a][h[i - L]] = G[b][i]
      BY <1>8, <1>10, <2>2
    <3>4. at[c][i] <= n
      BY <1>1, <3>1, <3>3
    <3> HIDE DEF L
    <3> QED BY <2>2, <3>1, <3>2, <3>3, <3>4
  <2>3. CASE c # a /\ ~(c = b /\ i > L)
    <3>1. /\ from[c][i] = c /\ at[c][i] = i
      BY <1>6, <2>3
    <3>2. i \in DOMAIN F[c] /\ F[c][i] = G[c][i]
      <4>1. CASE c = b
        <5>1. i \in 1..L
          <6> HIDE DEF L
          <6> QED BY <1>2, <1>7, <2>3, <4>1
        <5> QED BY <1>2, <1>7, <4>1, <5>1
      <4>2. CASE c # b
        BY <1>1, <2>3, <4>2
      <4> QED BY <4>1, <4>2
    <3>3. ASSUME NEW j \in DOMAIN G[c], j < i
          PROVE  at[c][j] < at[c][i] \/ from[c][j] # from[c][i]
      BY <1>6, <2>3, <3>1, <3>3
    <3>4. c = b => i <= L
      <4>1. i \in Int /\ L \in Int
        BY <1>2
      <4> HIDE DEF L
      <4> QED BY <2>3, <4>1
    <3> HIDE DEF L
    <3> QED BY <2>3, <3>1, <3>2, <3>3, <3>4
  <2> QED BY <2>1, <2>2, <2>3
<1>11. FlowsFrom(F, G, a, b, n, from, at)
  BY <1>10 DEF FlowsFrom
<1> QED BY <1>11

\* Such a flow keeps the messages apart, and their order where it goes downhill.
LEMMA FlowKeeps ==
  ASSUME NEW F \in Contents, NEW G \in Contents, NEW a \in Place, NEW b \in Place, a # b,
         NEW n, NEW s, Flow(F, G, a, b, n, s)
  PROVE  /\ Once(F) => Once(G)
         /\ \A l : Counted(F, l) => Counted(G, l)
         /\ b.at # "sendq" /\ Own(F) => Own(G)
         /\ \A S, x : /\ Aged(F, S, x) /\ Downhill(F, S, x, a, b)
                       /\ S \in [Place -> Nat]
                     => Aged(G, S, x)
<1>1. PICK from, at : FlowsFrom(F, G, a, b, n, from, at)
  BY FlowOrigin
<1> DEFINE Comes(c, i) ==
             /\ from[c][i] \in Place /\ at[c][i] \in DOMAIN F[from[c][i]]
             /\ F[from[c][i]][at[c][i]] = G[c][i]
             /\ \/ from[c][i] = c /\ (c = a => at[c][i] > n)
                \/ c = b /\ from[c][i] = a /\ at[c][i] <= n /\ i > Len(F[b])
             /\ c = b /\ from[c][i] = b => at[c][i] = i /\ i <= Len(F[b])
             /\ \A j \in DOMAIN G[c] : G[c][j].type = "Msg" /\ j < i =>
                  at[c][j] < at[c][i] \/ from[c][j] # from[c][i]
<1>2. \A c \in Place : \A i \in DOMAIN G[c] : G[c][i].type = "Msg" => Comes(c, i)
  BY <1>1 DEF FlowsFrom
<1>3. /\ \A c \in Place : DOMAIN F[c] \subseteq Int /\ DOMAIN G[c] \subseteq Int /\ Len(F[c]) \in Int
      /\ n \in Int
  BY LenProperties DEF Contents, Flow
<1>4. ASSUME Once(F)
      PROVE  Once(G)
  <2> SUFFICES ASSUME NEW c \in Place, NEW d \in Place,
                      NEW i \in DOMAIN G[c], NEW j \in DOMAIN G[d],
                      SameMsg(G[c][i], G[d][j])
               PROVE  c = d /\ i = j
    BY DEF Once
  <2>1. Comes(c, i) /\ Comes(d, j) /\ G[c][i].type = "Msg" /\ G[d][j].type = "Msg"
    BY <1>2 DEF SameMsg
  <2>2. from[c][i] = from[d][j] /\ at[c][i] = at[d][j]
    BY <1>4, <2>1 DEF Once
  <2>3. at[c][i] \in Int /\ at[d][j] \in Int /\ i \in Int /\ j \in Int
    BY <1>3, <2>1
  <2>4. c = d
    BY <1>3, <2>1, <2>2, <2>3
  <2>5. ~(i < j) /\ ~(j < i)
    BY <2>1, <2>2, <2>3, <2>4
  <2> QED BY <2>3, <2>4, <2>5
<1>5. ASSUME NEW l, Counted(F, l)
      PROVE  Counted(G, l)
  BY <1>2, <1>5 DEF Counted
<1>7. ASSUME Own(F), b.at # "sendq"
      PROVE  Own(G)
  <2> SUFFICES ASSUME NEW c \in Place, NEW i \in DOMAIN G[c], c.at = "sendq", G[c][i].type = "Msg"
               PROVE  G[c][i].src = c.of
    BY DEF Own
  <2>1. Comes(c, i) /\ c # b
    BY <1>2, <1>7
  <2>2. from[c][i] = c
    BY <2>1
  <2> QED BY <1>7, <2>1, <2>2 DEF Own
<1>6. ASSUME NEW S, NEW x, Aged(F, S, x), Downhill(F, S, x, a, b), S \in [Place -> Nat]
      PROVE  Aged(G, S, x)
  <2> SUFFICES ASSUME NEW c \in Place, NEW d \in Place,
                      NEW i \in DOMAIN G[c], NEW j \in DOMAIN G[d],
                      S[c] > 0, S[d] > 0, S[c] < S[d] \/ (c = d /\ i < j),
                      SentBy(G[c][i], x), SentBy(G[d][j], x)
               PROVE  G[c][i].id < G[d][j].id
    BY DEF Aged
  <2>1. Comes(c, i) /\ Comes(d, j) /\ G[c][i].type = "Msg" /\ G[d][j].type = "Msg"
    BY <1>2 DEF SentBy
  <2>2. at[c][i] \in Int /\ at[d][j] \in Int /\ i \in Int /\ j \in Int
    BY <1>3, <2>1
  <2> DEFINE e == from[c][i]
             f == from[d][j]
  <2>3. /\ e \in Place /\ f \in Place /\ S[e] \in Nat /\ S[f] \in Nat
        /\ S[a] \in Nat /\ S[b] \in Nat /\ S[c] \in Nat /\ S[d] \in Nat
        /\ SentBy(F[e][at[c][i]], x) /\ SentBy(F[f][at[d][j]], x)
    BY <1>6, <2>1
  <2>4. ~NoneOf(F[e], x) /\ ~NoneOf(F[f], x)
    BY <2>1, <2>3 DEF NoneOf
  <2>5. (e # c \/ f # d) => S[a] = S[b] + 1
    <3>1. (e # c \/ f # d) => ~NoneOf(F[a], x) /\ S[b] > 0
      BY <2>1, <2>4
    <3> QED BY <1>6, <3>1, <2>3 DEF Downhill
  <2>6. S[e] > 0 /\ S[f] > 0
    BY <2>1, <2>3, <2>5
  <2>7. S[e] < S[f] \/ (e = f /\ at[c][i] < at[d][j])
    <3>1. CASE e = c /\ f = d
      BY <2>1, <2>2, <3>1
    <3>2. CASE e # c /\ f # d
      <4>1. c = b /\ d = b /\ e = a /\ f = a
        BY <2>1, <3>2
      <4> QED BY <2>1, <2>2, <2>3, <4>1
    <3>3. CASE e # c /\ f = d
      <4>1. c = b /\ e = a /\ at[c][i] <= n /\ i > Len(F[b]) /\ S[a] = S[b] + 1
        BY <2>1, <2>5, <3>3
      <4>2. CASE S[b] < S[d]
        <5>1. S[d] > S[a] \/ S[d] = S[a]
          BY <2>3, <4>1, <4>2
        <5>2. S[d] = S[a] => d = a
          BY <1>6, <2>3, <2>4, <3>3, <4>1 DEF Downhill
        <5>3. d = a => at[d][j] > n
          BY <2>1, <3>3
        <5> QED BY <1>3, <2>2, <2>3, <3>3, <4>1, <5>1, <5>2, <5>3
      <4>3. CASE c = d /\ i < j
        BY <1>3, <2>1, <2>2, <3>3, <4>1, <4>3
      <4> QED BY <4>1, <4>2, <4>3
    <3>4. CASE e = c /\ f # d
      <4>1. d = b /\ f = a /\ S[a] = S[b] + 1
        BY <2>1, <2>5, <3>4
      <4> QED BY <2>3, <3>4, <4>1
    <3> QED BY <3>1, <3>2, <3>3, <3>4
  <2>8. F[e][at[c][i]].id < F[f][at[d][j]].id
    <3> HIDE DEF Comes
    <3>1. at[c][i] \in DOMAIN F[e] /\ at[d][j] \in DOMAIN F[f]
      BY <2>1 DEF Comes
    <3> QED BY <1>6, <2>3, <2>6, <2>7, <3>1 DEF Aged
  <2> QED BY <2>1, <2>8
<1> QED BY <1>4, <1>5, <1>6, <1>7

-----------------------------------------------------------------------------
(* Parts of a list of packages. *)

\* A list is a part of itself, and the empty one of every list.
LEMMA PartSame == \A s, t : Part(s, s) /\ Part(<<>>, t)
<1> TAKE s, t
<1>1. PartBy(s, s, [i \in DOMAIN s |-> i])
  BY DEF PartBy
<1>2. DOMAIN <<>> = {}
  BY EmptySeq, LenProperties
<1>3. PartBy(<<>>, t, <<>>)
  BY <1>2 DEF PartBy
<1> QED BY <1>1, <1>3 DEF Part

\* So is what is cut off at its end or at its front.
LEMMA PartCut ==
  ASSUME NEW s \in Seq(Pkg), NEW n \in 0..Len(s)
  PROVE  Part(SubSeq(s, 1, n), s) /\ Part(SubSeq(s, n + 1, Len(s)), s)
<1> DEFINE a == SubSeq(s, 1, n)
           b == SubSeq(s, n + 1, Len(s))
           h == [i \in DOMAIN b |-> n + i]
<1>1. Len(s) \in Nat /\ DOMAIN s = 1..Len(s) /\ n \in Nat /\ n <= Len(s)
  BY LenProperties
<1>2. DOMAIN a = 1..n /\ \A i \in 1..n : a[i] = s[i]
  BY PrefixSeq, LenProperties
<1>3. DOMAIN b = 1..Len(s)-n /\ \A i \in 1..Len(s)-n : b[i] = s[n + i]
  BY SuffixSeq, LenProperties
<1> HIDE DEF a, b
<1>4. PartBy(a, s, [i \in DOMAIN a |-> i])
  BY <1>1, <1>2 DEF PartBy
<1>5. PartBy(b, s, h)
  <2>1. \A i \in DOMAIN b : n + i \in DOMAIN s /\ s[n + i] = b[i] /\ h[i] = n + i
    BY <1>1, <1>3
  <2>2. \A i, j \in DOMAIN b : j < i => n + j < n + i
    BY <1>1, <1>3
  <2> HIDE DEF h
  <2> QED BY <2>1, <2>2 DEF PartBy
<1> QED BY <1>4, <1>5 DEF Part, a, b

\* A list without a message of its own after s.
LEMMA PartMore ==
  ASSUME NEW s \in Seq(Pkg), NEW u \in Seq(Pkg), \A i \in 1..Len(u) : u[i].type # "Msg"
  PROVE  Part(s \o u, s)
<1> DEFINE t == s \o u
           L == Len(s)
<1>1. /\ L \in Nat /\ Len(u) \in Nat /\ DOMAIN s = 1..L /\ DOMAIN t = 1..L+Len(u)
      /\ \A i \in 1..L+Len(u) : t[i] = IF i <= L THEN s[i] ELSE u[i - L]
  BY ConcatProperties, LenProperties
<1> HIDE DEF t, L
<1>2. ASSUME NEW i \in DOMAIN t, t[i].type = "Msg"
      PROVE  i \in 1..L /\ s[i] = t[i]
  <2>1. CASE i <= L
    BY <1>1, <2>1
  <2>2. CASE ~(i <= L)
    <3>1. i - L \in 1..Len(u)
      BY <1>1, <2>2
    <3> QED BY <1>1, <1>2, <2>2, <3>1
  <2> QED BY <2>1, <2>2
<1>3. PartBy(t, s, [i \in DOMAIN t |-> i])
  BY <1>1, <1>2 DEF PartBy
<1> QED BY <1>3 DEF Part, t

\* A message that is not counted, appended to a sequence, leaves its counted
\* messages as they are.
LEMMA PartAppend ==
  ASSUME NEW s \in Seq(Pkg), NEW m \in Pkg, m.type # "Msg"
  PROVE  Part(Append(s, m), s)
<1>1. /\ Append(s, m) \in Seq(Pkg) /\ Len(Append(s, m)) = Len(s) + 1
      /\ DOMAIN Append(s, m) = 1..Len(s)+1 /\ DOMAIN s = 1..Len(s) /\ Len(s) \in Nat
      /\ \A i \in 1..Len(s) : Append(s, m)[i] = s[i]
      /\ Append(s, m)[Len(s) + 1] = m
  BY AppendProperties, LenProperties
<1> DEFINE t == Append(s, m)
           L == Len(s)
<1> HIDE DEF t, L
<1>2. ASSUME NEW i \in DOMAIN t, t[i].type = "Msg"
      PROVE  i \in 1..L /\ s[i] = t[i]
  BY <1>1, <1>2 DEF t, L
<1>3. PartBy(t, s, [i \in DOMAIN t |-> i])
  BY <1>1, <1>2 DEF PartBy, L
<1> QED BY <1>3 DEF Part, t

\* What goes up from a buffer.
LEMMA PartUps ==
  ASSUME NEW s \in Seq(Pkg)
  PROVE  Part(Ups(s), s)
<1> DEFINE T == {pkg \in ToSet(s) : pkg.type # "Shake"}
           u == Select(s, T)
<1>1. Selected(u, s, Len(s), Pkg, T) /\ Ups(s) = u
  BY SelectFacts DEF Ups
<1> HIDE DEF u, T
<1>2. u \in Seq(Pkg) /\ \E g : Embedded(u, s, Len(s), g)
  BY <1>1 DEF Selected
<1>3. PICK g : Embedded(u, s, Len(s), g)
  BY <1>2
<1>4. DOMAIN u = 1..Len(u) /\ DOMAIN s = 1..Len(s)
  BY <1>2, LenProperties
<1>5. PartBy(u, s, g)
  BY <1>3, <1>4 DEF Embedded, PartBy
<1> QED BY <1>1, <1>5 DEF Part

OneShake(s) == \A i, j \in DOMAIN s : s[i].type = "Shake" /\ s[j].type = "Shake" => i = j

\* Before the only Shake of a list everything goes up, and the Shake does not.
LEMMA ShakeSkipped ==
  ASSUME NEW s \in Seq(Pkg), OneShake(s), NEW n \in 0..Len(s)-1, s[n + 1].type = "Shake"
  PROVE  Len(Ups(SubSeq(s, 1, n))) = n /\ Len(Ups(SubSeq(s, 1, n + 1))) = n
<1> DEFINE a == SubSeq(s, 1, n)
           b == SubSeq(s, 1, n + 1)
           A == {pkg \in ToSet(a) : pkg.type # "Shake"}
           B == {pkg \in ToSet(b) : pkg.type # "Shake"}
<1>1. Len(s) \in Nat /\ DOMAIN s = 1..Len(s) /\ n \in 0..Len(s) /\ n + 1 \in 0..Len(s) /\ n \in Nat
  BY LenProperties
<1>2. a \in Seq(Pkg) /\ Len(a) = n /\ DOMAIN a = 1..n /\ \A i \in 1..n : a[i] = s[i]
  BY <1>1, PrefixSeq, LenProperties
<1>3. b \in Seq(Pkg) /\ Len(b) = n + 1 /\ DOMAIN b = 1..n+1 /\ \A i \in 1..n+1 : b[i] = s[i]
  BY <1>1, PrefixSeq, LenProperties
<1>4. \A i \in 1..n : s[i].type # "Shake"
  <2> TAKE i \in 1..n
  <2>1. i \in DOMAIN s /\ n + 1 \in DOMAIN s /\ i # n + 1
    BY <1>1
  <2> QED BY <2>1 DEF OneShake
<1> HIDE DEF a, b
<1>5. \A i \in 1..n : a[i] \in A
  BY <1>2, <1>4 DEF ToSet
<1>6. (\A i \in 1..n : b[i] \in B) /\ b[n + 1] \notin B
  BY <1>1, <1>3, <1>4 DEF ToSet
<1>7. Ups(a) = Select(a, A) /\ Ups(b) = Select(b, B)
  BY DEF Ups
<1> HIDE DEF A, B
<1>8. Selected(Ups(a), a, n, Pkg, A) /\ Selected(Ups(b), b, n + 1, Pkg, B)
  BY <1>2, <1>3, <1>7, SelectFacts
<1>9. Len(Ups(a)) \in Nat /\ Len(Ups(b)) \in Nat
  BY <1>8, LenProperties DEF Selected
<1>10. Len(Ups(a)) <= n /\ ~(Len(Ups(a)) < n)
  BY <1>5, <1>8 DEF Selected
<1>11. Len(Ups(b)) < n + 1
  <2>1. n + 1 \in 1..n+1
    BY <1>1
  <2> QED BY <1>6, <1>8, <2>1 DEF Selected
<1>12. Len(Ups(b)) >= (n + 1) - 1
  <2>1. n + 1 \in 1..n+1 /\ \A i \in 1..n+1 : i # n + 1 => i \in 1..n
    BY <1>1
  <2> QED BY <1>6, <1>8, <2>1 DEF Selected
<1> QED BY <1>1, <1>9, <1>10, <1>11, <1>12 DEF a, b

-----------------------------------------------------------------------------
(* Messages that are added, or go to the end of their list. *)

\* A new message of the process x at the end of place b.
Fresh(F, G, b, m, x, n) ==
  /\ m \in Pkg /\ m.type = "Msg" /\ m.src = x /\ m.id = n[x] + 1
  /\ G[b] = Append(F[b], m)
  /\ \A c \in Place : c # b => G[c] = F[c]

\* Where a message of G is in F, unless it is the new one.
LEMMA FreshOrigin ==
  ASSUME NEW F \in Contents, NEW G \in Contents, NEW b \in Place, NEW m, NEW x, NEW n,
         Fresh(F, G, b, m, x, n), NEW c \in Place, NEW i \in DOMAIN G[c]
  PROVE  /\ i \in Int /\ Len(F[b]) \in Nat
         /\ \/ i \in DOMAIN F[c] /\ G[c][i] = F[c][i] /\ (c = b => i <= Len(F[b]))
            \/ c = b /\ i = Len(F[b]) + 1 /\ G[c][i] = m
<1>1. F[b] \in Seq(Pkg) /\ F[c] \in Seq(Pkg) /\ G[c] \in Seq(Pkg) /\ m \in Pkg
  BY DEF Contents, Fresh
<1>2. /\ Len(F[b]) \in Nat /\ DOMAIN F[b] = 1..Len(F[b])
      /\ Len(F[c]) \in Nat /\ DOMAIN F[c] = 1..Len(F[c])
      /\ Len(G[c]) \in Nat /\ DOMAIN G[c] = 1..Len(G[c])
  BY <1>1, LenProperties
<1>3. CASE c = b
  <2>1. /\ G[c] = Append(F[b], m) /\ Len(G[c]) = Len(F[b]) + 1
        /\ \A j \in 1..Len(F[b]) : G[c][j] = F[b][j]
        /\ G[c][Len(F[b]) + 1] = m
    BY <1>1, <1>3, AppendProperties DEF Fresh
  <2> QED BY <1>2, <1>3, <2>1
<1>4. CASE c # b
  BY <1>2, <1>4 DEF Fresh
<1> QED BY <1>3, <1>4

\* The new message has a number that no other has, and if b is the last stage, the
\* greatest one.
LEMMA FreshKeeps ==
  ASSUME NEW F \in Contents, NEW G \in Contents, NEW b \in Place, NEW m, NEW x \in Proc,
         NEW n \in [Proc -> Int], Fresh(F, G, b, m, x, n), Counted(F, n)
  PROVE  /\ Once(F) => Once(G)
         /\ Counted(G, [n EXCEPT ![x] = @ + 1])
         /\ b.of = x /\ Own(F) => Own(G)
         /\ \A S, y : /\ Aged(F, S, y) /\ S \in [Place -> Nat]
                      /\ \A c \in Place : S[b] > 0 => S[c] <= S[b] /\ (S[c] = S[b] => c = b)
                    => Aged(G, S, y)
<1> DEFINE Old(c, i) == i \in DOMAIN F[c] /\ G[c][i] = F[c][i] /\ (c = b => i <= Len(F[b]))
           New(c, i) == c = b /\ i = Len(F[b]) + 1 /\ G[c][i] = m
<1>1. \A c \in Place : \A i \in DOMAIN G[c] :
        i \in Int /\ Len(F[b]) \in Nat /\ (Old(c, i) \/ New(c, i))
  BY FreshOrigin
<1>2. m \in Pkg /\ m.type = "Msg" /\ m.src = x /\ m.id = n[x] + 1 /\ n[x] \in Int
  BY DEF Fresh
<1>3. \A c \in Place : \A i \in DOMAIN F[c] :
        /\ F[c][i].type = "Msg" => F[c][i].src \in Proc /\ F[c][i].id \in Int
        /\ SentBy(F[c][i], x) => F[c][i].id < m.id
  <2> TAKE c \in Place
  <2> TAKE i \in DOMAIN F[c]
  <2>1. F[c][i] \in Pkg
    BY ElementOfSeq, LenProperties DEF Contents
  <2>2. F[c][i].type = "Msg" => F[c][i].src \in Proc /\ F[c][i].id \in Int
    BY <2>1 DEF Pkg
  <2>3. SentBy(F[c][i], x) => F[c][i].id <= n[x]
    BY DEF Counted, SentBy
  <2> QED BY <1>2, <2>2, <2>3 DEF SentBy
<1>4. ASSUME Once(F)
      PROVE  Once(G)
  <2> SUFFICES ASSUME NEW c \in Place, NEW d \in Place,
                      NEW i \in DOMAIN G[c], NEW j \in DOMAIN G[d],
                      SameMsg(G[c][i], G[d][j])
               PROVE  c = d /\ i = j
    BY DEF Once
  <2>1. CASE Old(c, i) /\ Old(d, j)
    BY <1>4, <2>1 DEF Once
  <2>2. CASE New(c, i) /\ Old(d, j)
    <3>1. SentBy(F[d][j], x) /\ F[d][j].id = m.id
      BY <1>2, <2>2 DEF SameMsg, SentBy
    <3> QED BY <1>2, <1>3, <2>2, <3>1 DEF SentBy
  <2>3. CASE Old(c, i) /\ New(d, j)
    <3>1. SentBy(F[c][i], x) /\ F[c][i].id = m.id
      BY <1>2, <2>3 DEF SameMsg, SentBy
    <3> QED BY <1>2, <1>3, <2>3, <3>1 DEF SentBy
  <2>4. CASE New(c, i) /\ New(d, j)
    BY <2>4
  <2> HIDE DEF Old, New
  <2> QED BY <1>1, <2>1, <2>2, <2>3, <2>4
<1>5. Counted(G, [n EXCEPT ![x] = @ + 1])
  <2> SUFFICES ASSUME NEW c \in Place, NEW i \in DOMAIN G[c], G[c][i].type = "Msg"
               PROVE  G[c][i].id <= [n EXCEPT ![x] = @ + 1][G[c][i].src]
    BY DEF Counted
  <2>1. CASE Old(c, i)
    <3>1. /\ F[c][i].type = "Msg" /\ F[c][i].src \in Proc /\ F[c][i].id \in Int
          /\ F[c][i].id <= n[F[c][i].src] /\ n[F[c][i].src] \in Int
      BY <1>3, <2>1 DEF Counted
    <3> QED BY <2>1, <3>1
  <2>2. CASE New(c, i)
    BY <1>2, <2>2
  <2> HIDE DEF Old, New
  <2> QED BY <1>1, <2>1, <2>2
<1>6. ASSUME b.of = x, Own(F)
      PROVE  Own(G)
  BY <1>1, <1>2, <1>6 DEF Own
<1>7. ASSUME NEW S, NEW y, Aged(F, S, y), S \in [Place -> Nat],
             \A c \in Place : S[b] > 0 => S[c] <= S[b] /\ (S[c] = S[b] => c = b)
      PROVE  Aged(G, S, y)
  <2> SUFFICES ASSUME NEW c \in Place, NEW d \in Place,
                      NEW i \in DOMAIN G[c], NEW j \in DOMAIN G[d],
                      S[c] > 0, S[d] > 0, S[c] < S[d] \/ (c = d /\ i < j),
                      SentBy(G[c][i], y), SentBy(G[d][j], y)
               PROVE  G[c][i].id < G[d][j].id
    BY DEF Aged
  <2>1. i \in Int /\ j \in Int /\ S[c] \in Nat /\ S[d] \in Nat /\ Len(F[b]) \in Nat
    BY <1>1, <1>7
  <2>2. CASE Old(c, i) /\ Old(d, j)
    BY <1>7, <2>2 DEF Aged
  <2>3. CASE New(c, i)
    <3>1. S[d] <= S[c] /\ (S[d] = S[c] => d = c)
      BY <1>7, <2>3
    <3>2. d = c /\ i < j
      BY <2>1, <3>1
    <3>3. i = Len(F[b]) + 1 /\ (j <= Len(F[b]) \/ j = Len(F[b]) + 1)
      BY <1>1, <2>3, <3>2
    <3> QED BY <2>1, <3>2, <3>3
  <2>4. CASE Old(c, i) /\ New(d, j)
    <3>1. y = x /\ SentBy(F[c][i], x)
      BY <1>2, <2>4 DEF SentBy
    <3> QED BY <1>3, <2>4, <3>1
  <2> HIDE DEF Old, New
  <2> QED BY <1>1, <2>2, <2>3, <2>4
<1> QED BY <1>4, <1>5, <1>6, <1>7

\* The first message of place b goes to its end.
Rotates(F, G, b) ==
  /\ F[b] # <<>>
  /\ G[b] = Append(Tail(F[b]), Head(F[b]))
  /\ \A c \in Place : c # b => G[c] = F[c]

\* Giving the messages of one place in another order keeps what is said of
\* all of them.
LEMMA RotateKeeps ==
  ASSUME NEW F \in Contents, NEW G \in Contents, NEW b \in Place, Rotates(F, G, b)
  PROVE  /\ Once(F) => Once(G)
         /\ \A n : Counted(F, n) => Counted(G, n)
         /\ b.at # "sendq" /\ Own(F) => Own(G)
<1> DEFINE L == Len(F[b])
           At(c, i) == IF c = b THEN IF i = L THEN 1 ELSE i + 1 ELSE i
<1>1. F[b] \in Seq(Pkg) /\ F[b] # <<>>
  BY DEF Contents, Rotates
<1>2. /\ L \in Nat /\ L > 0 /\ DOMAIN F[b] = 1..L /\ F[b][1] \in Pkg
      /\ Tail(F[b]) \in Seq(Pkg) /\ Len(Tail(F[b])) = L - 1
      /\ \A i \in 1..L-1 : Tail(F[b])[i] = F[b][i + 1]
      /\ Head(F[b]) = F[b][1]
  <2>1. L \in Nat /\ DOMAIN F[b] = 1..L /\ L # 0
    BY <1>1, LenProperties, EmptySeq
  <2>2. /\ Head(F[b]) = F[b][1] /\ Tail(F[b]) \in Seq(Pkg) /\ Len(Tail(F[b])) = L - 1
        /\ \A i \in 1..Len(Tail(F[b])) : Tail(F[b])[i] = F[b][i + 1]
    BY <1>1, HeadTailProperties
  <2>3. F[b][1] \in Pkg
    BY <1>1, <2>1, LenProperties
  <2> HIDE DEF L
  <2> QED BY <2>1, <2>2, <2>3
<1>3. /\ DOMAIN G[b] = 1..L /\ G[b][L] = F[b][1]
      /\ \A i \in 1..L-1 : G[b][i] = F[b][i + 1]
  <2> DEFINE t == Tail(F[b])
  <2>1. /\ t \in Seq(Pkg) /\ Len(t) = L - 1 /\ F[b][1] \in Pkg /\ G[b] = Append(t, F[b][1])
    BY <1>2 DEF Rotates
  <2>2. /\ Append(t, F[b][1]) \in Seq(Pkg) /\ Len(Append(t, F[b][1])) = Len(t) + 1
        /\ \A i \in 1..Len(t) : Append(t, F[b][1])[i] = t[i]
        /\ Append(t, F[b][1])[Len(t) + 1] = F[b][1]
        /\ DOMAIN Append(t, F[b][1]) = 1..Len(t)+1
    <3> HIDE DEF t, L
    <3> QED BY <2>1, AppendProperties, LenProperties
  <2>3. (L - 1) + 1 = L
    BY <1>2
  <2>4. \A i \in 1..L-1 : t[i] = F[b][i + 1]
    BY <1>2
  <2> HIDE DEF t, L
  <2> QED BY <2>1, <2>2, <2>3, <2>4
<1>4. \A c \in Place : \A i \in DOMAIN G[c] :
        At(c, i) \in DOMAIN F[c] /\ G[c][i] = F[c][At(c, i)]
  <2> TAKE c \in Place
  <2> TAKE i \in DOMAIN G[c]
  <2>1. CASE c = b
    <3>1. i \in 1..L
      BY <1>3, <2>1
    <3>2. CASE i = L
      BY <1>2, <1>3, <2>1, <3>2
    <3>3. CASE i # L
      <4>1. i \in 1..L-1 /\ i + 1 \in 1..L
        <5> HIDE DEF L
        <5> QED BY <1>2, <3>1, <3>3
      <4> QED BY <1>2, <1>3, <2>1, <3>3, <4>1
    <3> QED BY <3>2, <3>3
  <2>2. CASE c # b
    BY <2>2 DEF Rotates
  <2> QED BY <2>1, <2>2
<1>5. \A c \in Place : \A i, j \in DOMAIN G[c] : At(c, i) = At(c, j) => i = j
  <2> TAKE c \in Place
  <2> TAKE i, j \in DOMAIN G[c]
  <2>1. CASE c = b
    <3>1. i \in 1..L /\ j \in 1..L
      BY <1>3, <2>1
    <3> HIDE DEF L
    <3> QED BY <1>2, <2>1, <3>1
  <2>2. CASE c # b
    BY <2>2
  <2> QED BY <2>1, <2>2
<1> HIDE DEF At
<1>6. ASSUME Once(F)
      PROVE  Once(G)
  <2> SUFFICES ASSUME NEW c \in Place, NEW d \in Place,
                      NEW i \in DOMAIN G[c], NEW j \in DOMAIN G[d],
                      SameMsg(G[c][i], G[d][j])
               PROVE  c = d /\ i = j
    BY DEF Once
  <2>1. c = d /\ At(c, i) = At(d, j)
    BY <1>4, <1>6 DEF Once
  <2> QED BY <1>5, <2>1
<1>7. ASSUME NEW n, Counted(F, n)
      PROVE  Counted(G, n)
  BY <1>4, <1>7 DEF Counted
<1>8. ASSUME b.at # "sendq", Own(F)
      PROVE  Own(G)
  BY <1>4, <1>8 DEF Own, Rotates
<1> QED BY <1>6, <1>7, <1>8

-----------------------------------------------------------------------------
(* The places. *)

InHandled(q)    == [at |-> "handled", of |-> q, by |-> NoProc]
InRecvq(q)      == [at |-> "recvq", of |-> q, by |-> NoProc]
InSendq(q, r)   == [at |-> "sendq", of |-> q, by |-> r]
InRecvbuf(q, k) == [at |-> "recvbuf", of |-> q, by |-> k]
InWire(q, k)    == [at |-> "wire", of |-> q, by |-> k]
InSendbuf(q, k) == [at |-> "sendbuf", of |-> q, by |-> k]

\* What all places hold.
Stock(es, cs, hs) == [a \in Place |-> Content(es, cs, hs, a)]

\* Each place is one of these.
LEMMA PlaceIs ==
  /\ \A q \in Proc : InHandled(q) \in Place /\ InRecvq(q) \in Place
  /\ \A q \in Proc, r \in ProcId : InSendq(q, r) \in Place
  /\ \A q \in Proc, k \in Conn :
       InRecvbuf(q, k) \in Place /\ InWire(q, k) \in Place /\ InSendbuf(q, k) \in Place
  /\ \A c \in Place :
       /\ c.of \in Proc
       /\ \/ c = InHandled(c.of) \/ c = InRecvq(c.of)
          \/ c.by \in ProcId /\ c = InSendq(c.of, c.by)
          \/ /\ c.by \in Conn
             /\ c = InRecvbuf(c.of, c.by) \/ c = InWire(c.of, c.by) \/ c = InSendbuf(c.of, c.by)
<1>1. \A q \in Proc : InHandled(q) \in Place /\ InRecvq(q) \in Place
  BY DEF InHandled, InRecvq, Place
<1>2. \A q \in Proc, r \in ProcId : InSendq(q, r) \in Place
  BY DEF InSendq, Place
<1>3. \A q \in Proc, k \in Conn :
        InRecvbuf(q, k) \in Place /\ InWire(q, k) \in Place /\ InSendbuf(q, k) \in Place
  BY DEF InRecvbuf, InWire, InSendbuf, Place
<1>4. ASSUME NEW c \in Place
      PROVE  /\ c.of \in Proc
             /\ \/ c = InHandled(c.of) \/ c = InRecvq(c.of)
                \/ c.by \in ProcId /\ c = InSendq(c.of, c.by)
                \/ /\ c.by \in Conn
                   /\ \/ c = InRecvbuf(c.of, c.by) \/ c = InWire(c.of, c.by)
                      \/ c = InSendbuf(c.of, c.by)
  <2>1. CASE c \in [at : {"handled", "recvq"}, of : Proc, by : {NoProc}]
    BY <2>1 DEF InHandled, InRecvq
  <2>2. CASE c \in [at : {"sendq"}, of : Proc, by : ProcId]
    BY <2>2 DEF InSendq
  <2>3. CASE c \in [at : {"recvbuf", "wire", "sendbuf"}, of : Proc, by : Conn]
    BY <2>3 DEF InRecvbuf, InWire, InSendbuf
  <2> QED BY <2>1, <2>2, <2>3 DEF Place
<1> QED BY <1>1, <1>2, <1>3, <1>4

\* What they hold.
LEMMA StockIs ==
  ASSUME NEW es, NEW cs, NEW hs
  PROVE  LET F == Stock(es, cs, hs)
         IN  /\ \A q \in Proc : F[InHandled(q)] = hs[q] /\ F[InRecvq(q)] = es[q].recvq
             /\ \A q \in Proc, r \in ProcId : F[InSendq(q, r)] = es[q].sendq[r]
             /\ \A q \in Proc, k \in Conn :
                  /\ F[InRecvbuf(q, k)] = RecvBufOf(es[q], k)
                  /\ F[InWire(q, k)] = cs[k].wire[q]
                  /\ F[InSendbuf(q, k)] = SendBufOf(es[q], k)
<1> DEFINE F == Stock(es, cs, hs)
<1>1. \A c \in Place : F[c] = Content(es, cs, hs, c)
  BY DEF Stock
<1> HIDE DEF F
<1>2. ASSUME NEW q \in Proc
      PROVE  F[InHandled(q)] = hs[q] /\ F[InRecvq(q)] = es[q].recvq
  <2>1. Content(es, cs, hs, InHandled(q)) = hs[q]
    BY DEF InHandled, Content
  <2>2. Content(es, cs, hs, InRecvq(q)) = es[q].recvq
    BY DEF InRecvq, Content
  <2> QED BY <1>1, <2>1, <2>2, PlaceIs
<1>3. ASSUME NEW q \in Proc, NEW r \in ProcId
      PROVE  F[InSendq(q, r)] = es[q].sendq[r]
  <2>1. Content(es, cs, hs, InSendq(q, r)) = es[q].sendq[r]
    BY DEF InSendq, Content
  <2> QED BY <1>1, <2>1, PlaceIs
<1>4. ASSUME NEW q \in Proc, NEW k \in Conn
      PROVE  /\ F[InRecvbuf(q, k)] = RecvBufOf(es[q], k)
             /\ F[InWire(q, k)] = cs[k].wire[q]
             /\ F[InSendbuf(q, k)] = SendBufOf(es[q], k)
  <2>1. Content(es, cs, hs, InRecvbuf(q, k)) = RecvBufOf(es[q], k)
    BY DEF InRecvbuf, Content
  <2>2. Content(es, cs, hs, InWire(q, k)) = cs[k].wire[q]
    BY DEF InWire, Content
  <2>3. Content(es, cs, hs, InSendbuf(q, k)) = SendBufOf(es[q], k)
    BY DEF InSendbuf, Content
  <2> QED BY <1>1, <2>1, <2>2, <2>3, PlaceIs
<1> QED BY <1>2, <1>3, <1>4 DEF F

\* Where the messages of x to y are, the latest stage first.
Chain(x, y) == IF x \in Client THEN x ELSE y

Stage(cs, x, y) ==
  [a \in Place |->
     CASE a.at = "handled" /\ a.of = y -> 1
       [] a.at = "recvq" /\ a.of = y -> 2
       [] a.at = "recvbuf" /\ a.of = y -> 3
       [] a.at = "wire" /\ a.of = y -> 4
       [] a.at = "sendbuf" /\ a.of = x /\ Peer(cs[a.by], x) = y -> 5
       [] a.at = "sendq" /\ a.of = x /\ a.by = Chain(x, y) -> 6
       [] OTHER -> 0]

\* The stages of the way from x to y, place by place.
LEMMA StageIs ==
  ASSUME NEW cs, NEW x, NEW y
  PROVE  LET S == Stage(cs, x, y)
         IN  /\ S \in [Place -> Nat]
             /\ \A q \in Proc : /\ S[InHandled(q)] = IF q = y THEN 1 ELSE 0
                                /\ S[InRecvq(q)] = IF q = y THEN 2 ELSE 0
             /\ \A q \in Proc, r \in ProcId :
                  S[InSendq(q, r)] = IF q = x /\ r = Chain(x, y) THEN 6 ELSE 0
             /\ \A q \in Proc, k \in Conn :
                  /\ S[InRecvbuf(q, k)] = IF q = y THEN 3 ELSE 0
                  /\ S[InWire(q, k)] = IF q = y THEN 4 ELSE 0
                  /\ S[InSendbuf(q, k)] = IF q = x /\ Peer(cs[k], x) = y THEN 5 ELSE 0
<1> DEFINE S == Stage(cs, x, y)
           At(a) == CASE a.at = "handled" /\ a.of = y -> 1
                      [] a.at = "recvq" /\ a.of = y -> 2
                      [] a.at = "recvbuf" /\ a.of = y -> 3
                      [] a.at = "wire" /\ a.of = y -> 4
                      [] a.at = "sendbuf" /\ a.of = x /\ Peer(cs[a.by], x) = y -> 5
                      [] a.at = "sendq" /\ a.of = x /\ a.by = Chain(x, y) -> 6
                      [] OTHER -> 0
<1>1. S = [a \in Place |-> At(a)]
  BY DEF Stage
<1>2. \A a \in Place : At(a) \in Nat
  OBVIOUS
<1>3. \A q : /\ At(InHandled(q)) = IF q = y THEN 1 ELSE 0
             /\ At(InRecvq(q)) = IF q = y THEN 2 ELSE 0
  BY DEF InHandled, InRecvq
<1>4. \A q, r : At(InSendq(q, r)) = IF q = x /\ r = Chain(x, y) THEN 6 ELSE 0
  BY DEF InSendq
<1>5. \A q, k : /\ At(InRecvbuf(q, k)) = IF q = y THEN 3 ELSE 0
                /\ At(InWire(q, k)) = IF q = y THEN 4 ELSE 0
                /\ At(InSendbuf(q, k)) = IF q = x /\ Peer(cs[k], x) = y THEN 5 ELSE 0
  BY DEF InRecvbuf, InWire, InSendbuf
<1> HIDE DEF At, S
<1>6. S \in [Place -> Nat] /\ \A a \in Place : S[a] = At(a)
  BY <1>1, <1>2
<1> QED BY <1>3, <1>4, <1>5, <1>6, PlaceIs DEF S

\* The messages between clients and servers are in the order of their numbers.
Ordered(F, cs) ==
  \A x \in Client, y \in Server :
    Aged(F, Stage(cs, x, y), x) /\ Aged(F, Stage(cs, y, x), y)

\* The account of all messages, where n[p] have been sent by p, and callbacks have
\* refused what is missing from refusals.
Account(F, cs, refusals, n) ==
  /\ F \in Contents /\ Once(F) /\ Counted(F, n) /\ Own(F)
  /\ refusals <= MaxLeft.refusals
  /\ refusals = MaxLeft.refusals => Ordered(F, cs)

-----------------------------------------------------------------------------
(* What the account says of the properties. *)

\* What the account says of each number is OneCopy.
LEMMA AccountOneCopy ==
  ASSUME Once(Stock(ep, conn, handled))
  PROVE  OneCopy
<1> DEFINE F == Stock(ep, conn, handled)
           Copies(a) == {[place |-> a, pos |-> i, msg |-> Holds(a)[i]] : i \in DOMAIN Holds(a)}
           copies == UNION {Copies(a) : a \in Place}
<1>1. \A a \in Place : Holds(a) = F[a]
  BY DEF Stock, Holds
<1> SUFFICES ASSUME NEW x \in copies, NEW y \in copies,
                    x.msg.type = "Msg", y.msg.type = "Msg",
                    x.msg.src = y.msg.src, x.msg.id = y.msg.id
             PROVE  x = y
  BY DEF OneCopy
<1>2. PICK a \in Place : x \in Copies(a)
  OBVIOUS
<1>3. PICK b \in Place : y \in Copies(b)
  OBVIOUS
<1>4. PICK i \in DOMAIN Holds(a) : x = [place |-> a, pos |-> i, msg |-> Holds(a)[i]]
  BY <1>2
<1>5. PICK j \in DOMAIN Holds(b) : y = [place |-> b, pos |-> j, msg |-> Holds(b)[j]]
  BY <1>3
<1>6. x.msg = F[a][i] /\ y.msg = F[b][j] /\ i \in DOMAIN F[a] /\ j \in DOMAIN F[b]
  BY <1>1, <1>4, <1>5
<1> HIDE DEF F, Copies, copies
<1>7. a = b /\ i = j
  BY <1>6 DEF Once, SameMsg, F
<1> QED BY <1>4, <1>5, <1>7

\* The list t is put together from places at the stages up to n, the lowest first.
SpreadBy(t, F, S, n, at, pos) ==
  \A i \in DOMAIN t :
    /\ at[i] \in Place /\ pos[i] \in DOMAIN F[at[i]] /\ F[at[i]][pos[i]] = t[i]
    /\ S[at[i]] > 0 /\ S[at[i]] <= n
    /\ \A j \in DOMAIN t : j < i =>
         S[at[j]] < S[at[i]] \/ (at[j] = at[i] /\ pos[j] < pos[i])

Spread(t, F, S, n) == t \in Seq(Pkg) /\ \E at, pos : SpreadBy(t, F, S, n, at, pos)

\* The next stage is added.
LEMMA SpreadMore ==
  ASSUME NEW F \in Contents, NEW S \in [Place -> Nat], NEW t, NEW n \in Nat, Spread(t, F, S, n),
         NEW a \in Place, S[a] = n + 1
  PROVE  Spread(t \o F[a], F, S, n + 1)
<1> DEFINE s == F[a]
           L == Len(t)
           u == t \o s
<1>1. t \in Seq(Pkg) /\ s \in Seq(Pkg)
  BY DEF Contents, Spread
<1>2. /\ L \in Nat /\ Len(s) \in Nat /\ DOMAIN t = 1..L /\ DOMAIN s = 1..Len(s)
      /\ u \in Seq(Pkg) /\ DOMAIN u = 1..L+Len(s)
      /\ \A i \in 1..L+Len(s) : u[i] = IF i <= L THEN t[i] ELSE s[i - L]
  BY <1>1, ConcatProperties, LenProperties
<1> HIDE DEF u, L
<1>3. PICK at, pos : SpreadBy(t, F, S, n, at, pos)
  BY DEF Spread
<1> DEFINE bt == [i \in DOMAIN u |-> IF i <= L THEN at[i] ELSE a]
           qos == [i \in DOMAIN u |-> IF i <= L THEN pos[i] ELSE i - L]
<1>4. \A i \in DOMAIN u : /\ i <= L => i \in DOMAIN t /\ u[i] = t[i] /\ bt[i] = at[i] /\ qos[i] = pos[i]
                          /\ ~(i <= L) => i - L \in DOMAIN s /\ u[i] = s[i - L] /\ bt[i] = a /\ qos[i] = i - L
                          /\ i \in Int /\ L \in Int
  <2> TAKE i \in DOMAIN u
  <2>1. i \in Int /\ L \in Int /\ (~(i <= L) => i - L \in DOMAIN s) /\ (i <= L => i \in DOMAIN t)
    BY <1>2
  <2> QED BY <1>2, <2>1
<1> HIDE DEF bt, qos, s
<1>5. ASSUME NEW i \in DOMAIN u
      PROVE  /\ bt[i] \in Place /\ qos[i] \in DOMAIN F[bt[i]] /\ F[bt[i]][qos[i]] = u[i]
             /\ S[bt[i]] > 0 /\ S[bt[i]] <= n + 1
             /\ \A j \in DOMAIN u : j < i =>
                  S[bt[j]] < S[bt[i]] \/ (bt[j] = bt[i] /\ qos[j] < qos[i])
  <2>1. CASE i <= L
    <3>1. i \in DOMAIN t /\ u[i] = t[i] /\ bt[i] = at[i] /\ qos[i] = pos[i] /\ i \in Int /\ L \in Int
      BY <1>4, <2>1
    <3>2. /\ at[i] \in Place /\ pos[i] \in DOMAIN F[at[i]] /\ F[at[i]][pos[i]] = t[i]
          /\ S[at[i]] > 0 /\ S[at[i]] <= n
          /\ \A j \in DOMAIN t : j < i =>
               S[at[j]] < S[at[i]] \/ (at[j] = at[i] /\ pos[j] < pos[i])
      BY <1>3, <3>1 DEF SpreadBy
    <3>3. S[at[i]] <= n + 1
      BY <3>2
    <3>4. ASSUME NEW j \in DOMAIN u, j < i
          PROVE  S[bt[j]] < S[bt[i]] \/ (bt[j] = bt[i] /\ qos[j] < qos[i])
      <4>1. j <= L
        BY <1>4, <2>1, <3>1, <3>4
      <4>2. j \in DOMAIN t /\ bt[j] = at[j] /\ qos[j] = pos[j]
        BY <1>4, <4>1
      <4> QED BY <3>1, <3>2, <3>4, <4>2
    <3> QED BY <3>1, <3>2, <3>3, <3>4
  <2>2. CASE ~(i <= L)
    <3>1. i - L \in DOMAIN s /\ u[i] = s[i - L] /\ bt[i] = a /\ qos[i] = i - L /\ i \in Int /\ L \in Int
      BY <1>4, <2>2
    <3>2. ASSUME NEW j \in DOMAIN u, j < i
          PROVE  S[bt[j]] < S[bt[i]] \/ (bt[j] = bt[i] /\ qos[j] < qos[i])
      <4>1. CASE j <= L
        <5>1. j \in DOMAIN t /\ bt[j] = at[j]
          BY <1>4, <4>1
        <5>2. at[j] \in Place /\ S[at[j]] <= n
          BY <1>3, <5>1 DEF SpreadBy
        <5> QED BY <3>1, <5>1, <5>2
      <4>2. CASE ~(j <= L)
        <5>1. bt[j] = a /\ qos[j] = j - L /\ j \in Int
          BY <1>4, <4>2
        <5> QED BY <3>1, <3>2, <5>1
      <4> QED BY <4>1, <4>2
    <3>3. S[a] > 0 /\ S[a] <= n + 1
      OBVIOUS
    <3> QED BY <3>1, <3>2, <3>3 DEF s
  <2> QED BY <2>1, <2>2
<1>6. SpreadBy(u, F, S, n + 1, bt, qos)
  BY <1>5 DEF SpreadBy
<1> QED BY <1>2, <1>6 DEF Spread, u, s

\* Two messages in it are not the same, and are in order if those of the places are.
LEMMA SpreadOrder ==
  ASSUME NEW F \in Contents, NEW S \in [Place -> Nat], NEW t, NEW n, Spread(t, F, S, n), Once(F),
         NEW x, NEW i \in DOMAIN t, NEW j \in DOMAIN t, i < j, SentBy(t[i], x), SentBy(t[j], x)
  PROVE  t[i].id # t[j].id /\ (Aged(F, S, x) => t[i].id < t[j].id)
<1>1. PICK at, pos : SpreadBy(t, F, S, n, at, pos)
  BY DEF Spread
<1> DEFINE a == at[i]
           b == at[j]
<1>2. /\ a \in Place /\ pos[i] \in DOMAIN F[a] /\ F[a][pos[i]] = t[i] /\ S[a] > 0
      /\ b \in Place /\ pos[j] \in DOMAIN F[b] /\ F[b][pos[j]] = t[j] /\ S[b] > 0
      /\ S[a] < S[b] \/ (a = b /\ pos[i] < pos[j])
  BY <1>1 DEF SpreadBy
<1>3. ~(a = b /\ pos[i] = pos[j])
  <2>1. S[a] \in Nat /\ S[b] \in Nat
    BY <1>2
  <2>2. a = b => ~(S[a] < S[b])
    BY <2>1
  <2>3. pos[i] = pos[j] => ~(pos[i] < pos[j])
    <3>1. F[a] \in Seq(Pkg)
      BY <1>2 DEF Contents
    <3>2. pos[i] \in Int
      BY <1>2, <3>1, LenProperties
    <3> HIDE DEF a
    <3> QED BY <3>2
  <2> QED BY <1>2, <2>2, <2>3
<1>4. t[i].id # t[j].id
  BY <1>2, <1>3 DEF Once, SameMsg, SentBy
<1>5. Aged(F, S, x) => t[i].id < t[j].id
  BY <1>2 DEF Aged
<1> QED BY <1>4, <1>5

\* The messages of p on their way to q: the places they pass, at their stages.
LEMMA WayOrder ==
  ASSUME NEW k \in Conn, NEW p \in Proc, NEW q \in Proc, Peer(conn[k], p) = q,
         Stock(ep, conn, handled) \in Contents, Once(Stock(ep, conn, handled)),
         NEW i \in DOMAIN OnTheWay(p, q, k), NEW j \in DOMAIN OnTheWay(p, q, k), i < j,
         SentBy(OnTheWay(p, q, k)[i], p), SentBy(OnTheWay(p, q, k)[j], p)
  PROVE  /\ OnTheWay(p, q, k)[i].id # OnTheWay(p, q, k)[j].id
         /\ Aged(Stock(ep, conn, handled), Stage(conn, p, q), p)
              => OnTheWay(p, q, k)[i].id < OnTheWay(p, q, k)[j].id
<1> DEFINE F == Stock(ep, conn, handled)
           S == Stage(conn, p, q)
           r == Chain(p, q)
<1>1. r \in ProcId /\ S \in [Place -> Nat]
  BY StageIs DEF Chain, ProcId, Proc
<1>2. /\ F[InHandled(q)] = handled[q] /\ F[InRecvq(q)] = ep[q].recvq
      /\ F[InRecvbuf(q, k)] = RecvBufOf(ep[q], k) /\ F[InWire(q, k)] = conn[k].wire[q]
      /\ F[InSendbuf(p, k)] = SendBufOf(ep[p], k) /\ F[InSendq(p, r)] = ep[p].sendq[r]
  <2> HIDE DEF r
  <2> QED BY <1>1, StockIs
<1>3. /\ S[InHandled(q)] = 1 /\ S[InRecvq(q)] = 2 /\ S[InRecvbuf(q, k)] = 3
      /\ S[InWire(q, k)] = 4 /\ S[InSendbuf(p, k)] = 5 /\ S[InSendq(p, r)] = 6
  BY <1>1, StageIs
<1>4. /\ InHandled(q) \in Place /\ InRecvq(q) \in Place /\ InRecvbuf(q, k) \in Place
      /\ InWire(q, k) \in Place /\ InSendbuf(p, k) \in Place /\ InSendq(p, r) \in Place
  BY <1>1, PlaceIs
<1>5. OnTheWay(p, q, k) =
        F[InHandled(q)] \o F[InRecvq(q)] \o F[InRecvbuf(q, k)] \o F[InWire(q, k)]
          \o F[InSendbuf(p, k)] \o F[InSendq(p, r)]
  BY <1>2 DEF OnTheWay, Chain
<1> DEFINE t1 == F[InHandled(q)]
           t2 == t1 \o F[InRecvq(q)]
           t3 == t2 \o F[InRecvbuf(q, k)]
           t4 == t3 \o F[InWire(q, k)]
           t5 == t4 \o F[InSendbuf(p, k)]
           t6 == t5 \o F[InSendq(p, r)]
<1>6. OnTheWay(p, q, k) = t6
  BY <1>5
<1>7. F \in Contents /\ Once(F)
  OBVIOUS
<1> HIDE DEF F, S, r
<1>8. Spread(t1, F, S, 1)
  <2>1. t1 \in Seq(Pkg)
    BY <1>4, <1>7 DEF Contents
  <2>2. DOMAIN t1 \subseteq Int
    BY <2>1, LenProperties
  <2>3. SpreadBy(t1, F, S, 1, [l \in DOMAIN t1 |-> InHandled(q)], [l \in DOMAIN t1 |-> l])
    BY <1>3, <1>4, <2>2 DEF SpreadBy
  <2> QED BY <2>1, <2>3 DEF Spread
<1> HIDE DEF t1
<1>9. Spread(t2, F, S, 2)
  <2>1. S[InRecvq(q)] = 1 + 1 /\ 1 \in Nat
    BY <1>3
  <2>2. Spread(t1 \o F[InRecvq(q)], F, S, 1 + 1)
    BY <1>1, <1>4, <1>7, <1>8, <2>1, SpreadMore
  <2> QED BY <2>2
<1> HIDE DEF t2
<1>10. Spread(t3, F, S, 3)
  <2>1. S[InRecvbuf(q, k)] = 2 + 1 /\ 2 \in Nat
    BY <1>3
  <2>2. Spread(t2 \o F[InRecvbuf(q, k)], F, S, 2 + 1)
    BY <1>1, <1>4, <1>7, <1>9, <2>1, SpreadMore
  <2> QED BY <2>2
<1> HIDE DEF t3
<1>11. Spread(t4, F, S, 4)
  <2>1. S[InWire(q, k)] = 3 + 1 /\ 3 \in Nat
    BY <1>3
  <2>2. Spread(t3 \o F[InWire(q, k)], F, S, 3 + 1)
    BY <1>1, <1>4, <1>7, <1>10, <2>1, SpreadMore
  <2> QED BY <2>2
<1> HIDE DEF t4
<1>12. Spread(t5, F, S, 5)
  <2>1. S[InSendbuf(p, k)] = 4 + 1 /\ 4 \in Nat
    BY <1>3
  <2>2. Spread(t4 \o F[InSendbuf(p, k)], F, S, 4 + 1)
    BY <1>1, <1>4, <1>7, <1>11, <2>1, SpreadMore
  <2> QED BY <2>2
<1> HIDE DEF t5
<1>13. Spread(t6, F, S, 6)
  <2>1. S[InSendq(p, r)] = 5 + 1 /\ 5 \in Nat
    BY <1>3
  <2>2. Spread(t5 \o F[InSendq(p, r)], F, S, 5 + 1)
    BY <1>1, <1>4, <1>7, <1>12, <2>1, SpreadMore
  <2> QED BY <2>2
<1> HIDE DEF t6
<1> DEFINE t == OnTheWay(p, q, k)
<1>14. Spread(t, F, S, 6) /\ i \in DOMAIN t /\ j \in DOMAIN t /\ SentBy(t[i], p) /\ SentBy(t[j], p)
  BY <1>6, <1>13
<1> HIDE DEF t
<1>15. t[i].id # t[j].id /\ (Aged(F, S, p) => t[i].id < t[j].id)
  BY <1>1, <1>7, <1>14, SpreadOrder
<1> QED BY <1>15 DEF t, F, S

-----------------------------------------------------------------------------
(* No message is lost. *)

\* The first n[x] messages of each process x are somewhere.
All(F, n) ==
  \A x \in Proc : \A i \in 1..n[x] : \E a \in Place : \E j \in DOMAIN F[a] :
    SentBy(F[a][j], x) /\ F[a][j].id = i

\* No message is taken away.
Moves(F, G) ==
  \A a \in Place : \A i \in DOMAIN F[a] : F[a][i].type = "Msg" =>
    \E b \in Place : \E j \in DOMAIN G[b] : G[b][j] = F[a][i]

\* So all of them stay.
LEMMA AllMoves ==
  ASSUME NEW F, NEW G, Moves(F, G), NEW n, All(F, n)
  PROVE  All(G, n)
<1> SUFFICES ASSUME NEW x \in Proc, NEW i \in 1..n[x]
             PROVE  \E b \in Place : \E j \in DOMAIN G[b] : SentBy(G[b][j], x) /\ G[b][j].id = i
  BY DEF All
<1>1. PICK a \in Place : \E j \in DOMAIN F[a] : SentBy(F[a][j], x) /\ F[a][j].id = i
  BY DEF All
<1>2. PICK j \in DOMAIN F[a] : SentBy(F[a][j], x) /\ F[a][j].id = i
  BY <1>1
<1>3. F[a][j].type = "Msg"
  BY <1>2 DEF SentBy
<1>4. PICK b \in Place : \E l \in DOMAIN G[b] : G[b][l] = F[a][j]
  BY <1>3 DEF Moves
<1> QED BY <1>2, <1>4

\* A list within itself, and the empty one in every list.
LEMMA WithinSame == \A s, t : Within(s, s) /\ Within(<<>>, t)
<1>1. DOMAIN <<>> = {}
  BY EmptySeq, LenProperties
<1> QED BY <1>1 DEF Within

\* Two lists are within what they make together.
LEMMA WithinMore ==
  ASSUME NEW s \in Seq(Pkg), NEW u \in Seq(Pkg)
  PROVE  Within(s, s \o u) /\ Within(u, s \o u)
<1> DEFINE t == s \o u
           L == Len(s)
<1>1. /\ L \in Nat /\ Len(u) \in Nat /\ DOMAIN s = 1..L /\ DOMAIN u = 1..Len(u)
      /\ DOMAIN t = 1..L+Len(u)
      /\ \A i \in 1..L+Len(u) : t[i] = IF i <= L THEN s[i] ELSE u[i - L]
  BY ConcatProperties, LenProperties
<1> HIDE DEF t, L
<1>2. \A i \in DOMAIN s : i \in DOMAIN t /\ t[i] = s[i]
  BY <1>1
<1>3. \A i \in DOMAIN u : L + i \in DOMAIN t /\ t[L + i] = u[i]
  BY <1>1
<1> QED BY <1>2, <1>3 DEF Within, t

\* Nor does one more package take away messages.
LEMMA WithinAppend ==
  ASSUME NEW s \in Seq(Pkg), NEW m \in Pkg
  PROVE  Within(s, Append(s, m))
<1>1. /\ DOMAIN Append(s, m) = 1..Len(s)+1 /\ DOMAIN s = 1..Len(s) /\ Len(s) \in Nat
      /\ \A i \in 1..Len(s) : Append(s, m)[i] = s[i]
  BY AppendProperties, LenProperties
<1> DEFINE t == Append(s, m)
           L == Len(s)
<1> HIDE DEF t, L
<1>2. \A i \in DOMAIN s : i \in DOMAIN t /\ t[i] = s[i]
  BY <1>1 DEF t, L
<1> QED BY <1>2 DEF Within, t

\* Every message goes up from a buffer.
LEMMA WithinUps ==
  ASSUME NEW s \in Seq(Pkg)
  PROVE  Within(s, Ups(s))
<1> DEFINE T == {pkg \in ToSet(s) : pkg.type # "Shake"}
           u == Select(s, T)
<1>1. Selected(u, s, Len(s), Pkg, T) /\ Ups(s) = u
  BY SelectFacts DEF Ups
<1>2. DOMAIN s = 1..Len(s) /\ \A i \in 1..Len(s) : s[i].type = "Msg" => s[i] \in T
  BY LenProperties DEF ToSet
<1> HIDE DEF u, T
<1>3. u \in Seq(Pkg) /\ \A j \in 1..Len(s) : s[j] \in T => \E i \in 1..Len(u) : u[i] = s[j]
  BY <1>1 DEF Selected
<1>4. DOMAIN u = 1..Len(u)
  BY <1>3, LenProperties
<1> QED BY <1>1, <1>2, <1>3, <1>4 DEF Within

\* Where each place has what it had, nothing is taken away.
LEMMA MovesNone ==
  ASSUME NEW F, NEW G, \A a \in Place : Within(F[a], G[a])
  PROVE  Moves(F, G)
  BY DEF Within, Moves

\* Nor is it where messages only flow.
LEMMA MovesFlow ==
  ASSUME NEW F \in Contents, NEW G, NEW a \in Place, NEW b \in Place, a # b,
         NEW n, NEW s, Flow(F, G, a, b, n, s)
  PROVE  Moves(F, G)
<1> DEFINE N    == Len(F[a])
           head == SubSeq(F[a], 1, n)
           tail == SubSeq(F[a], n + 1, N)
<1>1. /\ F[a] \in Seq(Pkg) /\ F[b] \in Seq(Pkg) /\ N \in Nat /\ DOMAIN F[a] = 1..N
      /\ n \in 0..N /\ s \in Seq(Pkg) /\ Within(head, s) /\ Within(tail, G[a])
      /\ G[b] = F[b] \o s
      /\ \A c \in Place : c # a /\ c # b => G[c] = F[c]
  BY LenProperties DEF Contents, Flow
<1>2. /\ DOMAIN head = 1..n /\ \A i \in 1..n : head[i] = F[a][i]
      /\ DOMAIN tail = 1..N-n /\ \A i \in 1..N-n : tail[i] = F[a][n + i]
  BY <1>1, PrefixSeq, SuffixSeq, LenProperties
<1>3. Within(F[b], G[b]) /\ Within(s, G[b])
  BY <1>1, WithinMore
<1> HIDE DEF head, tail, N
<1>4. ASSUME NEW i \in DOMAIN F[a], F[a][i].type = "Msg"
      PROVE  (\E j \in DOMAIN G[a] : G[a][j] = F[a][i]) \/ (\E j \in DOMAIN G[b] : G[b][j] = F[a][i])
  <2>1. CASE i <= n
    <3>1. i \in DOMAIN head /\ head[i] = F[a][i]
      BY <1>1, <1>2, <2>1
    <3>2. PICK j \in DOMAIN s : s[j] = F[a][i]
      BY <1>1, <1>4, <3>1 DEF Within
    <3> QED BY <1>3, <1>4, <3>2 DEF Within
  <2>2. CASE ~(i <= n)
    <3>1. i - n \in DOMAIN tail /\ n + (i - n) = i
      BY <1>1, <1>2, <2>2
    <3>2. tail[i - n] = F[a][i]
      BY <1>2, <3>1
    <3> QED BY <1>1, <1>4, <3>1, <3>2 DEF Within
  <2> QED BY <2>1, <2>2
<1>5. ASSUME NEW c \in Place, c # a
      PROVE  Within(F[c], G[c])
  BY <1>1, <1>3, <1>5, WithinSame
<1> QED BY <1>4, <1>5 DEF Moves, Within

\* A new message is somewhere too.
LEMMA AllFresh ==
  ASSUME NEW F \in Contents, NEW G, NEW b \in Place, NEW m, NEW x \in Proc,
         NEW n \in [Proc -> Int], n[x] >= 0, Fresh(F, G, b, m, x, n), All(F, n)
  PROVE  All(G, [n EXCEPT ![x] = @ + 1])
<1> DEFINE l == [n EXCEPT ![x] = @ + 1]
<1>1. /\ m \in Pkg /\ m.type = "Msg" /\ m.src = x /\ m.id = n[x] + 1
      /\ F[b] \in Seq(Pkg) /\ G[b] = Append(F[b], m)
      /\ \A c \in Place : c # b => G[c] = F[c]
  BY DEF Fresh, Contents
<1>2. \A c \in Place : Within(F[c], G[c])
  BY <1>1, WithinAppend, WithinSame
<1>3. All(G, n)
  BY <1>2, MovesNone, AllMoves
<1>4. Len(F[b]) + 1 \in DOMAIN G[b] /\ G[b][Len(F[b]) + 1] = m
  BY <1>1, AppendProperties, LenProperties
<1>5. ASSUME NEW y \in Proc, NEW i \in 1..l[y]
      PROVE  i \in 1..n[y] \/ (y = x /\ i = n[x] + 1)
  <2>1. CASE y = x
    <3>1. i \in 1..n[x] + 1 /\ n[x] \in Int
      BY <2>1
    <3> QED BY <2>1, <3>1
  <2>2. CASE y # x
    BY <2>2
  <2> QED BY <2>1, <2>2
<1> HIDE DEF l
<1> SUFFICES ASSUME NEW y \in Proc, NEW i \in 1..l[y]
             PROVE  \E a \in Place : \E j \in DOMAIN G[a] : SentBy(G[a][j], y) /\ G[a][j].id = i
  BY DEF All, l
<1>6. CASE i \in 1..n[y]
  BY <1>3, <1>6 DEF All
<1>7. CASE y = x /\ i = n[x] + 1
  BY <1>1, <1>4, <1>7 DEF SentBy
<1> QED BY <1>5, <1>6, <1>7

\* What it says of the present contents is NothingLost.
LEMMA AllNothingLost ==
  ASSUME left = MaxLeft => All(Stock(ep, conn, handled), sent)
  PROVE  NothingLost
<1> DEFINE F == Stock(ep, conn, handled)
<1> SUFFICES ASSUME left = MaxLeft, NEW p \in Proc, NEW i \in 1..sent[p]
             PROVE  <<p, i>> \in Everywhere
  BY DEF NothingLost
<1>1. PICK a \in Place : \E j \in DOMAIN F[a] : SentBy(F[a][j], p) /\ F[a][j].id = i
  BY DEF All
<1>2. PICK j \in DOMAIN F[a] : SentBy(F[a][j], p) /\ F[a][j].id = i
  BY <1>1
<1>3. F[a] = Holds(a)
  BY DEF Stock, Holds
<1> HIDE DEF F
<1> DEFINE m == F[a][j]
<1>4. m.type = "Msg" /\ m.src = p /\ m.id = i
  BY <1>2 DEF SentBy
<1>5. m \in ToSet(Holds(a))
  BY <1>2, <1>3 DEF ToSet
<1> HIDE DEF m
<1>6. m \in UNION {ToSet(Holds(c)) : c \in Place}
  BY <1>5
<1> QED BY <1>4, <1>6 DEF Everywhere, MessagesIn
=============================================================================
