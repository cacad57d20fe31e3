--------------------------- MODULE JoySystemProofs ---------------------------
(***************************************************************************)
(* The theorems of JoySystem: for every number of processes, connections,  *)
(* nodes, blocks and messages, what is in a buffer fits in it, the index   *)
(* and the list of nodes agree, a connected client is registered at its    *)
(* server, a client gets only what was meant for it, no message is there   *)
(* twice, messages arrive in the order of sending, and none is lost while  *)
(* nothing goes wrong.  The lemmas about one step of joynet.c are those of *)
(* JoyNetLemmas; here are the loops over the nodes, the calls of the API   *)
(* and the system.                                                         *)
(***************************************************************************)
EXTENDS JoyNetLemmas

-----------------------------------------------------------------------------
(* Loops. *)

\* f begins with v, makes the n-th step as R[n] says from a value in Q[n - 1], and
\* ends in Q[N].
Folded(f, N, v, Q, R) ==
  /\ f = [n \in 0..N |-> f[n]]
  /\ f[0] = v
  /\ \A n \in 1..N : f[n - 1] \in Q[n - 1] /\ f[n] = R[n][f[n - 1]]

\* The steps from one set to the next.
Leads(N, Q, R) == \A n \in 1..N : \A u \in Q[n - 1] : R[n][u] \in Q[n]

\* Such a function exists where each step leads from one set to the next.
LEMMA FoldExists ==
  ASSUME NEW N \in Nat, NEW S, NEW Q, \A n \in 0..N : Q[n] \subseteq S,
         NEW v \in Q[0], NEW R, Leads(N, Q, R)
  PROVE  \E f : Folded(f, N, v, Q, R)
<1> DEFINE Next1(n, u) == IF u \in Q[n - 1] THEN R[n][u] ELSE u
           g == [n \in 1..N |-> [u \in S |-> Next1(n, u)]]
<1>1. v \in S /\ \A n \in 1..N : n - 1 \in 0..N /\ n \in 0..N
  OBVIOUS
<1>2. \A n \in 1..N : \A u \in S : Next1(n, u) \in S
  BY <1>1 DEF Leads
<1>3. g \in [1..N -> [S -> S]] /\ \A n \in 1..N : \A u \in S : g[n][u] = Next1(n, u)
  <2> HIDE DEF Next1
  <2> QED BY <1>2
<1>4. \A n \in 1..N : \A u \in Q[n - 1] : u \in S => g[n][u] = R[n][u] /\ g[n][u] \in Q[n]
  BY <1>3 DEF Leads
<1> HIDE DEF g
<1>5. PICK f : IsRecursion(f, N, S, v, g)
  BY <1>1, <1>3, RecursionExists
<1>6. \A n \in 0..N : f[n] \in Q[n]
  BY <1>4, <1>5, RecursionWithin
<1>7. f \in [0..N -> S] /\ f[0] = v /\ \A n \in 1..N : f[n] = g[n][f[n - 1]]
  BY <1>5 DEF IsRecursion
<1>8. \A n \in 1..N : f[n - 1] \in Q[n - 1] /\ f[n] = R[n][f[n - 1]]
  BY <1>1, <1>4, <1>6, <1>7
<1> QED BY <1>7, <1>8 DEF Folded

\* Whatever takes the same steps ends in the last of the sets.
LEMMA FoldEnds ==
  ASSUME NEW N \in Nat, NEW Q, NEW v \in Q[0], NEW R, Leads(N, Q, R),
         NEW c, c[0] = v, \A n \in 1..N : c[n - 1] \in Q[n - 1] => c[n] = R[n][c[n - 1]]
  PROVE  c[N] \in Q[N]
<1> DEFINE T == {n \in 0..N : c[n] \in Q[n]}
<1>1. 0 \in T
  OBVIOUS
<1>2. ASSUME NEW n \in 0..N-1, n \in T
      PROVE  n + 1 \in T
  <2>1. n + 1 \in 1..N /\ n + 1 \in 0..N /\ (n + 1) - 1 = n
    OBVIOUS
  <2>2. c[n + 1] = R[n + 1][c[n]] /\ R[n + 1][c[n]] \in Q[n + 1]
    BY <1>2, <2>1 DEF Leads
  <2> QED BY <2>1, <2>2
<1>3. 0 \in Int /\ N \in Int /\ N \in 0..N
  OBVIOUS
<1>4. 0..N \subseteq T
  <2> HIDE DEF T
  <2> QED BY <1>1, <1>2, <1>3, IntervalInduction
<1> QED BY <1>3, <1>4

\* The nodes ks are open, and each is there once.
OpenList(v, ks) ==
  /\ ks \in Seq(Conn) /\ Distinct(ks)
  /\ \A i \in DOMAIN ks : IsOpen(v.ep, ks[i])

\* The views that a loop over ks may be in after n of its nodes: the others are as
\* they were, and what may go wrong is in L.
Todo(v, p, es, ks, n, L) ==
  {u \in ViewType : /\ ViewInv(u, p, es) /\ u.left \in L
                    /\ \A i \in n+1..Len(ks) : u.ep.nodes[ks[i]] = v.ep.nodes[ks[i]]}

\* Before the first node.
LEMMA TodoFirst ==
  ASSUME NEW p, NEW es, NEW v, ViewInv(v, p, es), NEW ks, NEW L, v.left \in L
  PROVE  v \in Todo(v, p, es, ks, 0, L)
BY DEF Todo, ViewInv

\* What is known of the n-th node when its turn comes.
LEMMA TodoOpen ==
  ASSUME NEW p, NEW es, NEW v, NEW ks, OpenList(v, ks), NEW n \in 1..Len(ks),
         NEW L, NEW u \in Todo(v, p, es, ks, n - 1, L)
  PROVE  /\ ks[n] \in Conn /\ IsOpen(u.ep, ks[n]) /\ ViewInv(u, p, es) /\ u.left \in L
         /\ u.ep.nodes[ks[n]] = v.ep.nodes[ks[n]]
<1>1. /\ Len(ks) \in Nat /\ DOMAIN ks = 1..Len(ks) /\ ks[n] \in Conn
  BY LenProperties DEF OpenList
<1>2. n \in (n - 1)+1..Len(ks)
  BY <1>1
<1>3. u.ep.nodes[ks[n]] = v.ep.nodes[ks[n]] /\ ViewInv(u, p, es) /\ u.left \in L
  BY <1>2 DEF Todo
<1> QED BY <1>1, <1>3 DEF OpenList, IsOpen

\* A step for the n-th node that leaves the others alone.
LEMMA TodoNext ==
  ASSUME NEW p, NEW es, NEW v, NEW ks, OpenList(v, ks), NEW n \in 1..Len(ks),
         NEW L, NEW u \in Todo(v, p, es, ks, n - 1, L),
         NEW w, ViewInv(w, p, es), w.left \in L,
         \A j \in Conn : j # ks[n] => w.ep.nodes[j] = u.ep.nodes[j]
  PROVE  w \in Todo(v, p, es, ks, n, L)
<1>1. /\ Len(ks) \in Nat /\ DOMAIN ks = 1..Len(ks) /\ \A i \in 1..Len(ks) : ks[i] \in Conn
  BY LenProperties DEF OpenList
<1>2. ASSUME NEW i \in n+1..Len(ks)
      PROVE  w.ep.nodes[ks[i]] = v.ep.nodes[ks[i]]
  <2>1. i \in (n - 1)+1..Len(ks) /\ i \in 1..Len(ks) /\ i # n
    BY <1>1
  <2>2. ks[i] # ks[n] /\ ks[i] \in Conn
    BY <1>1, <2>1 DEF OpenList, Distinct
  <2>3. u.ep.nodes[ks[i]] = v.ep.nodes[ks[i]]
    BY <2>1 DEF Todo
  <2> QED BY <2>2, <2>3
<1>3. w \in ViewType
  BY DEF ViewInv
<1> QED BY <1>2, <1>3 DEF Todo

SameOpen(v, w) == \A j \in Conn : IsOpen(w.ep, j) <=> IsOpen(v.ep, j)

\* The loop in which both ...ProcRecvData retry joynetReadRecvBuf.
LEMMA ReadLoop ==
  ASSUME NEW p \in Proc, NEW es, NEW v, ViewInv(v, p, es), NEW ks, OpenList(v, ks)
  PROVE  LET w == ForEach(v, ks, LAMBDA u, k : ReadRecvBuf(u, k).view)
         IN  SameLeft(v, w, p, es) /\ SameOpen(v, w)
<1> DEFINE N == Len(ks)
           L == {v.left}
           Still(n) == {u \in Todo(v, p, es, ks, n, L) : SameOpen(v, u)}
           Q == [n \in 0..N |-> Still(n)]
           Cb(u, k) == ReadRecvBuf(u, k).view
           R == [n \in 1..N |-> [u \in Q[n - 1] |-> Cb(u, ks[n])]]
           One(n, x) == CHOOSE r \in {Cb(u, ks[n]) : u \in {x}} : TRUE
           Step(h) == [n \in 0..N |-> IF n = 0 THEN v ELSE One(n, h[n - 1])]
           c == CHOOSE h : h = Step(h)
<1>1. N \in Nat /\ \A n \in 1..N : n - 1 \in 0..N /\ n \in 0..N
  BY LenProperties DEF OpenList
<1>2. ASSUME NEW n \in 1..N, NEW u \in Still(n - 1)
      PROVE  Cb(u, ks[n]) \in Still(n)
  <2> DEFINE k == ks[n]
  <2>1. u \in Todo(v, p, es, ks, n - 1, L) /\ SameOpen(v, u)
    OBVIOUS
  <2>2. /\ k \in Conn /\ IsOpen(u.ep, k) /\ ViewInv(u, p, es) /\ u.left \in L
        /\ u.ep.nodes[k] = v.ep.nodes[k]
    <3> HIDE DEF L, Cb
    <3> QED BY <2>1, TodoOpen
  <2>3. Keeps(u, Cb(u, k), p, es, k) /\ SameOpen(u, Cb(u, k))
    BY <2>2, ReadKeeps DEF SameOpen
  <2> HIDE DEF Cb
  <2>4. Cb(u, k) \in Todo(v, p, es, ks, n, L)
    BY <2>1, <2>2, <2>3, TodoNext DEF Keeps
  <2> QED BY <2>1, <2>3, <2>4 DEF SameOpen
<1> HIDE DEF Cb, N, L
<1>3. v \in Q[0] /\ \A n \in 0..N : Q[n] \subseteq ViewType
  <2>1. v \in Todo(v, p, es, ks, 0, L)
    BY TodoFirst DEF L
  <2> QED BY <1>1, <2>1 DEF Todo, SameOpen
<1>4. \A n \in 1..N : \A u \in Q[n - 1] : R[n][u] = Cb(u, ks[n]) /\ Cb(u, ks[n]) \in Q[n]
  BY <1>1, <1>2
<1> HIDE DEF Q, R, Still
<1>5. Leads(N, Q, R)
  BY <1>4 DEF Leads
<1>6. \A n, x : One(n, x) = Cb(x, ks[n])
  OBVIOUS
<1> HIDE DEF One
<1>7. PICK f : Folded(f, N, v, Q, R)
  BY <1>1, <1>3, <1>5, FoldExists
<1>8. f = Step(f)
  <2>1. f = [n \in 0..N |-> f[n]] /\ f[0] = v
    BY <1>7 DEF Folded
  <2>2. \A n \in 1..N : f[n] = One(n, f[n - 1])
    BY <1>4, <1>6, <1>7 DEF Folded
  <2>3. \A n \in 0..N : n # 0 => n \in 1..N
    BY <1>1
  <2> QED BY <2>1, <2>2, <2>3
<1>9. c = Step(c)
  <2> HIDE DEF Step
  <2> QED BY <1>8, Zenon
<1>10. c[0] = v /\ \A n \in 1..N : c[n] = Cb(c[n - 1], ks[n])
  <2> HIDE DEF c
  <2> QED BY <1>1, <1>6, <1>9
<1>11. ForEach(v, ks, LAMBDA u, k : ReadRecvBuf(u, k).view) = c[N]
  BY DEF ForEach, One, N, Cb
<1> HIDE DEF c
<1>12. c[N] \in Q[N]
  BY <1>1, <1>3, <1>4, <1>5, <1>10, FoldEnds
<1>13. Q[N] = Still(N)
  BY <1>1 DEF Q
<1> QED BY <1>11, <1>12, <1>13 DEF Still, Todo, L, SameLeft

\* The loop over the nodes that epoll_wait reports to a server.
LEMMA RecvLoop ==
  ASSUME NEW p \in Proc, NEW es, NEW v, ViewInv(v, p, es), NEW ks, OpenList(v, ks)
  PROVE  SameLeft(v, ForEach(v, ks, LAMBDA u, k : RecvBuf(u, p, k)), p, es)
<1> DEFINE N == Len(ks)
           L == {v.left}
           Q == [n \in 0..N |-> Todo(v, p, es, ks, n, L)]
           Cb(u, k) == RecvBuf(u, p, k)
           R == [n \in 1..N |-> [u \in Q[n - 1] |-> Cb(u, ks[n])]]
           One(n, x) == CHOOSE r \in {Cb(u, ks[n]) : u \in {x}} : TRUE
           Step(h) == [n \in 0..N |-> IF n = 0 THEN v ELSE One(n, h[n - 1])]
           c == CHOOSE h : h = Step(h)
<1>1. N \in Nat /\ \A n \in 1..N : n - 1 \in 0..N /\ n \in 0..N
  BY LenProperties DEF OpenList
<1>2. ASSUME NEW n \in 1..N, NEW u \in Todo(v, p, es, ks, n - 1, L)
      PROVE  Cb(u, ks[n]) \in Todo(v, p, es, ks, n, L)
  <2> DEFINE k == ks[n]
  <2>1. /\ k \in Conn /\ IsOpen(u.ep, k) /\ ViewInv(u, p, es) /\ u.left \in L
        /\ u.ep.nodes[k] = v.ep.nodes[k]
    <3> HIDE DEF L, Cb
    <3> QED BY TodoOpen
  <2>2. Keeps(u, Cb(u, k), p, es, k)
    BY <2>1, RecvKeeps
  <2> HIDE DEF Cb
  <2> QED BY <2>1, <2>2, TodoNext DEF Keeps
<1> HIDE DEF Cb, N, L
<1>3. v \in Q[0] /\ \A n \in 0..N : Q[n] \subseteq ViewType
  <2>1. v \in Todo(v, p, es, ks, 0, L)
    BY TodoFirst DEF L
  <2> QED BY <1>1, <2>1 DEF Todo
<1>4. \A n \in 1..N : \A u \in Q[n - 1] : R[n][u] = Cb(u, ks[n]) /\ Cb(u, ks[n]) \in Q[n]
  BY <1>1, <1>2
<1> HIDE DEF Q, R
<1>5. Leads(N, Q, R)
  BY <1>4 DEF Leads
<1>6. \A n, x : One(n, x) = Cb(x, ks[n])
  OBVIOUS
<1> HIDE DEF One
<1>7. PICK f : Folded(f, N, v, Q, R)
  BY <1>1, <1>3, <1>5, FoldExists
<1>8. f = Step(f)
  <2>1. f = [n \in 0..N |-> f[n]] /\ f[0] = v
    BY <1>7 DEF Folded
  <2>2. \A n \in 1..N : f[n] = One(n, f[n - 1])
    BY <1>4, <1>6, <1>7 DEF Folded
  <2>3. \A n \in 0..N : n # 0 => n \in 1..N
    BY <1>1
  <2> QED BY <2>1, <2>2, <2>3
<1>9. c = Step(c)
  <2> HIDE DEF Step
  <2> QED BY <1>8, Zenon
<1>10. c[0] = v /\ \A n \in 1..N : c[n] = Cb(c[n - 1], ks[n])
  <2> HIDE DEF c
  <2> QED BY <1>1, <1>6, <1>9
<1>11. ForEach(v, ks, LAMBDA u, k : RecvBuf(u, p, k)) = c[N]
  BY DEF ForEach, One, N, Cb
<1> HIDE DEF c
<1>12. c[N] \in Q[N]
  BY <1>1, <1>3, <1>4, <1>5, <1>10, FoldEnds
<1>13. Q[N] = Todo(v, p, es, ks, N, L)
  BY <1>1 DEF Q
<1> QED BY <1>11, <1>12, <1>13 DEF Todo, L, SameLeft

ClientRecvs(v, ks, p, arrived) ==
  ForEach(v, ks, LAMBDA u, k : ClientRecvFrom(u, p, k, arrived))

\* The loop with one poll for each node of a client.
LEMMA ClientRecvLoop ==
  ASSUME NEW p \in Proc, NEW es, NEW v, ViewInv(v, p, es), NEW ks, OpenList(v, ks), NEW arrived
  PROVE  SameLeft(v, ClientRecvs(v, ks, p, arrived), p, es)
<1> DEFINE N == Len(ks)
           L == {v.left}
           Q == [n \in 0..N |-> Todo(v, p, es, ks, n, L)]
           Cb(u, k) == ClientRecvFrom(u, p, k, arrived)
           R == [n \in 1..N |-> [u \in Q[n - 1] |-> Cb(u, ks[n])]]
           One(n, x) == CHOOSE r \in {Cb(u, ks[n]) : u \in {x}} : TRUE
           Step(h) == [n \in 0..N |-> IF n = 0 THEN v ELSE One(n, h[n - 1])]
           c == CHOOSE h : h = Step(h)
<1>1. N \in Nat /\ \A n \in 1..N : n - 1 \in 0..N /\ n \in 0..N
  BY LenProperties DEF OpenList
<1>2. ASSUME NEW n \in 1..N, NEW u \in Todo(v, p, es, ks, n - 1, L)
      PROVE  Cb(u, ks[n]) \in Todo(v, p, es, ks, n, L)
  <2> DEFINE k == ks[n]
  <2>1. /\ k \in Conn /\ IsOpen(u.ep, k) /\ ViewInv(u, p, es) /\ u.left \in L
        /\ u.ep.nodes[k] = v.ep.nodes[k]
    <3> HIDE DEF L, Cb
    <3> QED BY TodoOpen
  <2>2. Keeps(u, Cb(u, k), p, es, k)
    BY <2>1, RecvKeeps DEF ClientRecvFrom, Keeps
  <2> HIDE DEF Cb
  <2> QED BY <2>1, <2>2, TodoNext DEF Keeps
<1> HIDE DEF Cb, N, L
<1>3. v \in Q[0] /\ \A n \in 0..N : Q[n] \subseteq ViewType
  <2>1. v \in Todo(v, p, es, ks, 0, L)
    BY TodoFirst DEF L
  <2> QED BY <1>1, <2>1 DEF Todo
<1>4. \A n \in 1..N : \A u \in Q[n - 1] : R[n][u] = Cb(u, ks[n]) /\ Cb(u, ks[n]) \in Q[n]
  BY <1>1, <1>2
<1> HIDE DEF Q, R
<1>5. Leads(N, Q, R)
  BY <1>4 DEF Leads
<1>6. \A n, x : One(n, x) = Cb(x, ks[n])
  OBVIOUS
<1> HIDE DEF One
<1>7. PICK f : Folded(f, N, v, Q, R)
  BY <1>1, <1>3, <1>5, FoldExists
<1>8. f = Step(f)
  <2>1. f = [n \in 0..N |-> f[n]] /\ f[0] = v
    BY <1>7 DEF Folded
  <2>2. \A n \in 1..N : f[n] = One(n, f[n - 1])
    BY <1>4, <1>6, <1>7 DEF Folded
  <2>3. \A n \in 0..N : n # 0 => n \in 1..N
    BY <1>1
  <2> QED BY <2>1, <2>2, <2>3
<1>9. c = Step(c)
  <2> HIDE DEF Step
  <2> QED BY <1>8, Zenon
<1>10. c[0] = v /\ \A n \in 1..N : c[n] = Cb(c[n - 1], ks[n])
  <2> HIDE DEF c
  <2> QED BY <1>1, <1>6, <1>9
<1>11. ClientRecvs(v, ks, p, arrived) = c[N]
  BY DEF ClientRecvs, ForEach, One, N, Cb
<1> HIDE DEF c
<1>12. c[N] \in Q[N]
  BY <1>1, <1>3, <1>4, <1>5, <1>10, FoldEnds
<1>13. Q[N] = Todo(v, p, es, ks, N, L)
  BY <1>1 DEF Q
<1> QED BY <1>11, <1>12, <1>13 DEF Todo, L, SameLeft

\* A call that may use up a fault.
Tried(v, w, p, es) ==
  ViewInv(w, p, es) /\ w.left.stops = v.left.stops /\ w.left.refusals = v.left.refusals

ServerShakes(v, ks, p, bad) ==
  ForEach(v, ks, LAMBDA u, k : ServerHandleShakeMsg(u, p, k, bad))

\* The handshakes of a server.
LEMMA ServerShakeLoop ==
  ASSUME NEW p \in Server, NEW es, NEW v, ViewInv(v, p, es), NEW ks, OpenList(v, ks), NEW bad
  PROVE  Tried(v, ServerShakes(v, ks, p, bad), p, es)
<1> DEFINE N == Len(ks)
           L == {l \in Left : l.stops = v.left.stops /\ l.refusals = v.left.refusals}
           Q == [n \in 0..N |-> Todo(v, p, es, ks, n, L)]
           Cb(u, k) == ServerHandleShakeMsg(u, p, k, bad)
           R == [n \in 1..N |-> [u \in Q[n - 1] |-> Cb(u, ks[n])]]
           One(n, x) == CHOOSE r \in {Cb(u, ks[n]) : u \in {x}} : TRUE
           Step(h) == [n \in 0..N |-> IF n = 0 THEN v ELSE One(n, h[n - 1])]
           c == CHOOSE h : h = Step(h)
<1>1. N \in Nat /\ \A n \in 1..N : n - 1 \in 0..N /\ n \in 0..N
  BY LenProperties DEF OpenList
<1>2. ASSUME NEW n \in 1..N, NEW u \in Todo(v, p, es, ks, n - 1, L)
      PROVE  Cb(u, ks[n]) \in Todo(v, p, es, ks, n, L)
  <2> DEFINE k == ks[n]
  <2>1. /\ k \in Conn /\ IsOpen(u.ep, k) /\ ViewInv(u, p, es) /\ u.left \in L
        /\ u.ep.nodes[k] = v.ep.nodes[k]
    <3> HIDE DEF L, Cb
    <3> QED BY TodoOpen
  <2>2. Tries(u, Cb(u, k), p, es, k)
    BY <2>1, ServerShakeTries
  <2>3. Cb(u, k).left \in L
    <3> HIDE DEF Cb
    <3>1. Cb(u, k).left \in Left
      BY <2>2, ViewFields DEF Tries, ViewInv
    <3> QED BY <2>1, <2>2, <3>1 DEF Tries
  <2> HIDE DEF Cb, L
  <2> QED BY <2>1, <2>2, <2>3, TodoNext DEF Tries
<1> HIDE DEF Cb, N, L
<1>3. v \in Q[0] /\ \A n \in 0..N : Q[n] \subseteq ViewType
  <2>1. v \in Todo(v, p, es, ks, 0, L)
    BY ViewFields, TodoFirst DEF L, ViewInv
  <2> QED BY <1>1, <2>1 DEF Todo
<1>4. \A n \in 1..N : \A u \in Q[n - 1] : R[n][u] = Cb(u, ks[n]) /\ Cb(u, ks[n]) \in Q[n]
  BY <1>1, <1>2
<1> HIDE DEF Q, R
<1>5. Leads(N, Q, R)
  BY <1>4 DEF Leads
<1>6. \A n, x : One(n, x) = Cb(x, ks[n])
  OBVIOUS
<1> HIDE DEF One
<1>7. PICK f : Folded(f, N, v, Q, R)
  BY <1>1, <1>3, <1>5, FoldExists
<1>8. f = Step(f)
  <2>1. f = [n \in 0..N |-> f[n]] /\ f[0] = v
    BY <1>7 DEF Folded
  <2>2. \A n \in 1..N : f[n] = One(n, f[n - 1])
    BY <1>4, <1>6, <1>7 DEF Folded
  <2>3. \A n \in 0..N : n # 0 => n \in 1..N
    BY <1>1
  <2> QED BY <2>1, <2>2, <2>3
<1>9. c = Step(c)
  <2> HIDE DEF Step
  <2> QED BY <1>8, Zenon
<1>10. c[0] = v /\ \A n \in 1..N : c[n] = Cb(c[n - 1], ks[n])
  <2> HIDE DEF c
  <2> QED BY <1>1, <1>6, <1>9
<1>11. ServerShakes(v, ks, p, bad) = c[N]
  BY DEF ServerShakes, ForEach, One, N, Cb
<1> HIDE DEF c
<1>12. c[N] \in Q[N]
  BY <1>1, <1>3, <1>4, <1>5, <1>10, FoldEnds
<1>13. Q[N] = Todo(v, p, es, ks, N, L)
  BY <1>1 DEF Q
<1> QED BY <1>11, <1>12, <1>13 DEF Todo, L, Tried

ClientShakes(v, ks, p, late) ==
  ForEach(v, ks, LAMBDA u, k : ClientHandleShakeMsg(u, p, k, late))

\* The handshakes of a client.
LEMMA ClientShakeLoop ==
  ASSUME NEW p \in Client, NEW es, NEW v, ViewInv(v, p, es), NEW ks, OpenList(v, ks), NEW late
  PROVE  Tried(v, ClientShakes(v, ks, p, late), p, es)
<1> DEFINE N == Len(ks)
           L == {l \in Left : l.stops = v.left.stops /\ l.refusals = v.left.refusals}
           Q == [n \in 0..N |-> Todo(v, p, es, ks, n, L)]
           Cb(u, k) == ClientHandleShakeMsg(u, p, k, late)
           R == [n \in 1..N |-> [u \in Q[n - 1] |-> Cb(u, ks[n])]]
           One(n, x) == CHOOSE r \in {Cb(u, ks[n]) : u \in {x}} : TRUE
           Step(h) == [n \in 0..N |-> IF n = 0 THEN v ELSE One(n, h[n - 1])]
           c == CHOOSE h : h = Step(h)
<1>1. N \in Nat /\ \A n \in 1..N : n - 1 \in 0..N /\ n \in 0..N
  BY LenProperties DEF OpenList
<1>2. ASSUME NEW n \in 1..N, NEW u \in Todo(v, p, es, ks, n - 1, L)
      PROVE  Cb(u, ks[n]) \in Todo(v, p, es, ks, n, L)
  <2> DEFINE k == ks[n]
  <2>1. /\ k \in Conn /\ IsOpen(u.ep, k) /\ ViewInv(u, p, es) /\ u.left \in L
        /\ u.ep.nodes[k] = v.ep.nodes[k]
    <3> HIDE DEF L, Cb
    <3> QED BY TodoOpen
  <2>2. Tries(u, Cb(u, k), p, es, k)
    BY <2>1, ClientShakeTries
  <2>3. Cb(u, k).left \in L
    <3> HIDE DEF Cb
    <3>1. Cb(u, k).left \in Left
      BY <2>2, ViewFields DEF Tries, ViewInv
    <3> QED BY <2>1, <2>2, <3>1 DEF Tries
  <2> HIDE DEF Cb, L
  <2> QED BY <2>1, <2>2, <2>3, TodoNext DEF Tries
<1> HIDE DEF Cb, N, L
<1>3. v \in Q[0] /\ \A n \in 0..N : Q[n] \subseteq ViewType
  <2>1. v \in Todo(v, p, es, ks, 0, L)
    BY ViewFields, TodoFirst DEF L, ViewInv
  <2> QED BY <1>1, <2>1 DEF Todo
<1>4. \A n \in 1..N : \A u \in Q[n - 1] : R[n][u] = Cb(u, ks[n]) /\ Cb(u, ks[n]) \in Q[n]
  BY <1>1, <1>2
<1> HIDE DEF Q, R
<1>5. Leads(N, Q, R)
  BY <1>4 DEF Leads
<1>6. \A n, x : One(n, x) = Cb(x, ks[n])
  OBVIOUS
<1> HIDE DEF One
<1>7. PICK f : Folded(f, N, v, Q, R)
  BY <1>1, <1>3, <1>5, FoldExists
<1>8. f = Step(f)
  <2>1. f = [n \in 0..N |-> f[n]] /\ f[0] = v
    BY <1>7 DEF Folded
  <2>2. \A n \in 1..N : f[n] = One(n, f[n - 1])
    BY <1>4, <1>6, <1>7 DEF Folded
  <2>3. \A n \in 0..N : n # 0 => n \in 1..N
    BY <1>1
  <2> QED BY <2>1, <2>2, <2>3
<1>9. c = Step(c)
  <2> HIDE DEF Step
  <2> QED BY <1>8, Zenon
<1>10. c[0] = v /\ \A n \in 1..N : c[n] = Cb(c[n - 1], ks[n])
  <2> HIDE DEF c
  <2> QED BY <1>1, <1>6, <1>9
<1>11. ClientShakes(v, ks, p, late) = c[N]
  BY DEF ClientShakes, ForEach, One, N, Cb
<1> HIDE DEF c
<1>12. c[N] \in Q[N]
  BY <1>1, <1>3, <1>4, <1>5, <1>10, FoldEnds
<1>13. Q[N] = Todo(v, p, es, ks, N, L)
  BY <1>1 DEF Q
<1> QED BY <1>11, <1>12, <1>13 DEF Todo, L, Tried

\* A connected node of a server has the procid of its peer.
LEMMA ConnectedPeer ==
  ASSUME NEW p \in Server, NEW es, NEW v, ViewInv(v, p, es), NEW k \in Conn,
         v.ep.nodes[k].status = "Connected"
  PROVE  v.ep.nodes[k].procid \in ProcId /\ ForPeer(v, p, k, v.ep.nodes[k].procid)
<1> DEFINE node == v.ep.nodes[k]
           q    == node.procid
<1>1. p \in Proc /\ IsOpen(v.ep, k)
  BY DEF Proc, IsOpen, NoNode
<1>2. node \in OpenNode /\ LinkInv(NodesAt(v, p, es, k), v.conn[k]) /\ NodesAt(v, p, es, k)[p] = node
  BY <1>1, OpenFacts
<1>3. q \in ProcId /\ node # NoNode
  BY <1>1, <1>2 DEF OpenNode, IsOpen
<1>4. Introduced(NodesAt(v, p, es, k), v.conn[k], p)
  BY <1>1, <1>2 DEF LinkInv
<1> HIDE DEF node
<1>5. q \in {NoProc, v.conn[k].client}
  BY <1>2, <1>3, <1>4 DEF Introduced
<1>6. v.ep.nodeidx[q] = k /\ v.ep.nodeidx[NoProc] = NoConn
  BY <1>1 DEF ViewInv, LocalInv, Indexed, InIndex, node
<1>7. q = v.conn[k].client
  BY <1>5, <1>6, NetAssumption
<1>8. Peer(v.conn[k], p) = v.conn[k].client
  <2>1. Ends(v.conn[k]) /\ v.conn[k] # FreeConn
    BY <1>1, <1>2, OpenFacts DEF LinkInv, FreeConn
  <2>2. v.conn[k].client \in Client /\ p \in {v.conn[k].client, v.conn[k].server}
    BY <1>1, <2>1, OpenFacts DEF Ends
  <2> QED BY <2>2, NetAssumption DEF Peer
<1>9. Chain(p, v.conn[k].client) = v.conn[k].client
  BY NetAssumption DEF Chain
<1> QED BY <1>3, <1>7, <1>8, <1>9 DEF ForPeer, node

\* While nothing has gone wrong, the peer of such a node, or of any node of a server,
\* is there.
LEMMA PeerStays ==
  ASSUME NEW p \in Proc, NEW es, NEW v, ViewInv(v, p, es), v.left = MaxLeft,
         NEW k \in Conn, IsOpen(v.ep, k), p \in Server \/ v.ep.nodes[k].status = "Connected"
  PROVE  ~Gone(v.conn[k], p)
<1> DEFINE ns == NodesAt(v, p, es, k)
<1>1. p \in v.conn[k].open /\ LinkInv(ns, v.conn[k]) /\ ns[p] = v.ep.nodes[k]
  BY OpenFacts
<1>2. Healthy(ns, v.conn[k])
  BY DEF ViewInv, KeptOf
<1> HIDE DEF ns
<1>3. p \in Server \/ ns[p].status = "Connected"
  BY <1>1
<1> QED BY <1>1, <1>2, <1>3, HealthyStays

ServerSends(v, ks, p, failed) ==
  ForEach(v, ks, LAMBDA u, k : ServerSendTo(u, p, k, failed))

\* The loop in which a server sends.
LEMMA ServerSendLoop ==
  ASSUME NEW p \in Server, NEW es, NEW v, ViewInv(v, p, es), NEW ks, OpenList(v, ks), NEW failed,
         v.left = MaxLeft => failed = {}
  PROVE  SameLeft(v, ServerSends(v, ks, p, failed), p, es)
<1> DEFINE N == Len(ks)
           L == {v.left}
           Q == [n \in 0..N |-> Todo(v, p, es, ks, n, L)]
           Cb(u, k) == ServerSendTo(u, p, k, failed)
           R == [n \in 1..N |-> [u \in Q[n - 1] |-> Cb(u, ks[n])]]
           One(n, x) == CHOOSE r \in {Cb(u, ks[n]) : u \in {x}} : TRUE
           Step(h) == [n \in 0..N |-> IF n = 0 THEN v ELSE One(n, h[n - 1])]
           c == CHOOSE h : h = Step(h)
<1>1. N \in Nat /\ \A n \in 1..N : n - 1 \in 0..N /\ n \in 0..N
  BY LenProperties DEF OpenList
<1>2. ASSUME NEW n \in 1..N, NEW u \in Todo(v, p, es, ks, n - 1, L)
      PROVE  Cb(u, ks[n]) \in Todo(v, p, es, ks, n, L)
  <2> DEFINE k == ks[n]
  <2>1. /\ k \in Conn /\ IsOpen(u.ep, k) /\ ViewInv(u, p, es) /\ u.left \in L
        /\ u.ep.nodes[k] = v.ep.nodes[k]
    <3> HIDE DEF L, Cb
    <3> QED BY TodoOpen
  <2>0. p \in Proc
    BY DEF Proc
  <2>2. CASE u.ep.nodes[k].status # "Connected"
    BY <2>1, <2>2, TodoNext DEF ServerSendTo
  <2>3. CASE u.ep.nodes[k].status = "Connected"
    <3> DEFINE q == u.ep.nodes[k].procid
    <3>1. q \in ProcId /\ ForPeer(u, p, k, q)
      BY <2>1, <2>3, ConnectedPeer
    <3>2. Cb(u, k) = SendBuf(u, p, k, q, failed)
      BY <2>3 DEF ServerSendTo
    <3> HIDE DEF Cb, q
    <3>3. u.left = MaxLeft => k \notin failed
      BY <2>1
    <3>4. Keeps(u, Cb(u, k), p, es, k)
      BY <2>0, <2>1, <2>3, <3>1, <3>2, <3>3, SendKeeps
    <3> QED BY <2>1, <3>4, TodoNext DEF Keeps
  <2> QED BY <2>2, <2>3
<1> HIDE DEF Cb, N, L
<1>3. v \in Q[0] /\ \A n \in 0..N : Q[n] \subseteq ViewType
  <2>1. v \in Todo(v, p, es, ks, 0, L)
    BY TodoFirst DEF L
  <2> QED BY <1>1, <2>1 DEF Todo
<1>4. \A n \in 1..N : \A u \in Q[n - 1] : R[n][u] = Cb(u, ks[n]) /\ Cb(u, ks[n]) \in Q[n]
  BY <1>1, <1>2
<1> HIDE DEF Q, R
<1>5. Leads(N, Q, R)
  BY <1>4 DEF Leads
<1>6. \A n, x : One(n, x) = Cb(x, ks[n])
  OBVIOUS
<1> HIDE DEF One
<1>7. PICK f : Folded(f, N, v, Q, R)
  BY <1>1, <1>3, <1>5, FoldExists
<1>8. f = Step(f)
  <2>1. f = [n \in 0..N |-> f[n]] /\ f[0] = v
    BY <1>7 DEF Folded
  <2>2. \A n \in 1..N : f[n] = One(n, f[n - 1])
    BY <1>4, <1>6, <1>7 DEF Folded
  <2>3. \A n \in 0..N : n # 0 => n \in 1..N
    BY <1>1
  <2> QED BY <2>1, <2>2, <2>3
<1>9. c = Step(c)
  <2> HIDE DEF Step
  <2> QED BY <1>8, Zenon
<1>10. c[0] = v /\ \A n \in 1..N : c[n] = Cb(c[n - 1], ks[n])
  <2> HIDE DEF c
  <2> QED BY <1>1, <1>6, <1>9
<1>11. ServerSends(v, ks, p, failed) = c[N]
  BY DEF ServerSends, ForEach, One, N, Cb
<1> HIDE DEF c
<1>12. c[N] \in Q[N]
  BY <1>1, <1>3, <1>4, <1>5, <1>10, FoldEnds
<1>13. Q[N] = Todo(v, p, es, ks, N, L)
  BY <1>1 DEF Q
<1> QED BY <1>11, <1>12, <1>13 DEF Todo, L, SameLeft

\* The loop in which a server writes its Stops.
LEMMA ServerStopLoop ==
  ASSUME NEW p \in Server, NEW es, NEW v, ViewInv(v, p, es), NEW ks, OpenList(v, ks)
  PROVE  SameLeft(v, ForEach(v, ks, LAMBDA u, k : ServerStopNode(u, p, k)), p, es)
<1> DEFINE N == Len(ks)
           L == {v.left}
           Q == [n \in 0..N |-> Todo(v, p, es, ks, n, L)]
           Cb(u, k) == ServerStopNode(u, p, k)
           R == [n \in 1..N |-> [u \in Q[n - 1] |-> Cb(u, ks[n])]]
           One(n, x) == CHOOSE r \in {Cb(u, ks[n]) : u \in {x}} : TRUE
           Step(h) == [n \in 0..N |-> IF n = 0 THEN v ELSE One(n, h[n - 1])]
           c == CHOOSE h : h = Step(h)
<1>1. N \in Nat /\ \A n \in 1..N : n - 1 \in 0..N /\ n \in 0..N
  BY LenProperties DEF OpenList
<1>2. ASSUME NEW n \in 1..N, NEW u \in Todo(v, p, es, ks, n - 1, L)
      PROVE  Cb(u, ks[n]) \in Todo(v, p, es, ks, n, L)
  <2> DEFINE k == ks[n]
  <2>1. /\ k \in Conn /\ IsOpen(u.ep, k) /\ ViewInv(u, p, es) /\ u.left \in L
        /\ u.ep.nodes[k] = v.ep.nodes[k]
    <3> HIDE DEF L, Cb
    <3> QED BY TodoOpen
  <2>0. p \in Proc
    BY DEF Proc
  <2>2. u.ep.nodes[k].procid \in ProcId
    BY <2>0, <2>1, OpenFacts DEF OpenNode
  <2>3. /\ StopPkg(p) \in Data /\ StopPkg(p) \in For(u.ep.nodes[k].procid)
        /\ StopPkg(p).type # "Msg"
    BY <2>0 DEF StopPkg, Data, Pkg, For
  <2>4. KeepsAll(u, Cb(u, k), p, es)
    BY <2>0, <2>1, <2>2, <2>3, WriteKeeps DEF ServerStopNode
  <2> HIDE DEF Cb
  <2> QED BY <2>1, <2>4, TodoNext DEF KeepsAll
<1> HIDE DEF Cb, N, L
<1>3. v \in Q[0] /\ \A n \in 0..N : Q[n] \subseteq ViewType
  <2>1. v \in Todo(v, p, es, ks, 0, L)
    BY TodoFirst DEF L
  <2> QED BY <1>1, <2>1 DEF Todo
<1>4. \A n \in 1..N : \A u \in Q[n - 1] : R[n][u] = Cb(u, ks[n]) /\ Cb(u, ks[n]) \in Q[n]
  BY <1>1, <1>2
<1> HIDE DEF Q, R
<1>5. Leads(N, Q, R)
  BY <1>4 DEF Leads
<1>6. \A n, x : One(n, x) = Cb(x, ks[n])
  OBVIOUS
<1> HIDE DEF One
<1>7. PICK f : Folded(f, N, v, Q, R)
  BY <1>1, <1>3, <1>5, FoldExists
<1>8. f = Step(f)
  <2>1. f = [n \in 0..N |-> f[n]] /\ f[0] = v
    BY <1>7 DEF Folded
  <2>2. \A n \in 1..N : f[n] = One(n, f[n - 1])
    BY <1>4, <1>6, <1>7 DEF Folded
  <2>3. \A n \in 0..N : n # 0 => n \in 1..N
    BY <1>1
  <2> QED BY <2>1, <2>2, <2>3
<1>9. c = Step(c)
  <2> HIDE DEF Step
  <2> QED BY <1>8, Zenon
<1>10. c[0] = v /\ \A n \in 1..N : c[n] = Cb(c[n - 1], ks[n])
  <2> HIDE DEF c
  <2> QED BY <1>1, <1>6, <1>9
<1>11. ForEach(v, ks, LAMBDA u, k : ServerStopNode(u, p, k)) = c[N]
  BY DEF ForEach, One, N, Cb
<1> HIDE DEF c
<1>12. c[N] \in Q[N]
  BY <1>1, <1>3, <1>4, <1>5, <1>10, FoldEnds
<1>13. Q[N] = Todo(v, p, es, ks, N, L)
  BY <1>1 DEF Q
<1> QED BY <1>11, <1>12, <1>13 DEF Todo, L, SameLeft

\* The loop in which a client writes its Stops.
LEMMA ClientStopLoop ==
  ASSUME NEW p \in Client, NEW es, NEW v, ViewInv(v, p, es), NEW ks, OpenList(v, ks)
  PROVE  SameLeft(v, ForEach(v, ks, LAMBDA u, k : WriteSendPkg(u, p, StopPkg(p))), p, es)
<1> DEFINE N == Len(ks)
           L == {v.left}
           Q == [n \in 0..N |-> Todo(v, p, es, ks, n, L)]
           Cb(u, k) == WriteSendPkg(u, p, StopPkg(p))
           R == [n \in 1..N |-> [u \in Q[n - 1] |-> Cb(u, ks[n])]]
           One(n, x) == CHOOSE r \in {Cb(u, ks[n]) : u \in {x}} : TRUE
           Step(h) == [n \in 0..N |-> IF n = 0 THEN v ELSE One(n, h[n - 1])]
           c == CHOOSE h : h = Step(h)
<1>1. N \in Nat /\ \A n \in 1..N : n - 1 \in 0..N /\ n \in 0..N
  BY LenProperties DEF OpenList
<1>2. ASSUME NEW n \in 1..N, NEW u \in Todo(v, p, es, ks, n - 1, L)
      PROVE  Cb(u, ks[n]) \in Todo(v, p, es, ks, n, L)
  <2> DEFINE k == ks[n]
  <2>1. /\ k \in Conn /\ IsOpen(u.ep, k) /\ ViewInv(u, p, es) /\ u.left \in L
        /\ u.ep.nodes[k] = v.ep.nodes[k]
    <3> HIDE DEF L, Cb
    <3> QED BY TodoOpen
  <2>0. p \in Proc
    BY DEF Proc
  <2>2. p \in ProcId /\ p \notin Server
    BY <2>0, NetAssumption DEF ProcId
  <2>3. StopPkg(p) \in Data /\ StopPkg(p).type # "Msg"
    BY <2>0 DEF StopPkg, Data, Pkg
  <2>4. KeepsAll(u, Cb(u, k), p, es)
    BY <2>0, <2>1, <2>2, <2>3, WriteKeeps
  <2> HIDE DEF Cb
  <2> QED BY <2>1, <2>4, TodoNext DEF KeepsAll
<1> HIDE DEF Cb, N, L
<1>3. v \in Q[0] /\ \A n \in 0..N : Q[n] \subseteq ViewType
  <2>1. v \in Todo(v, p, es, ks, 0, L)
    BY TodoFirst DEF L
  <2> QED BY <1>1, <2>1 DEF Todo
<1>4. \A n \in 1..N : \A u \in Q[n - 1] : R[n][u] = Cb(u, ks[n]) /\ Cb(u, ks[n]) \in Q[n]
  BY <1>1, <1>2
<1> HIDE DEF Q, R
<1>5. Leads(N, Q, R)
  BY <1>4 DEF Leads
<1>6. \A n, x : One(n, x) = Cb(x, ks[n])
  OBVIOUS
<1> HIDE DEF One
<1>7. PICK f : Folded(f, N, v, Q, R)
  BY <1>1, <1>3, <1>5, FoldExists
<1>8. f = Step(f)
  <2>1. f = [n \in 0..N |-> f[n]] /\ f[0] = v
    BY <1>7 DEF Folded
  <2>2. \A n \in 1..N : f[n] = One(n, f[n - 1])
    BY <1>4, <1>6, <1>7 DEF Folded
  <2>3. \A n \in 0..N : n # 0 => n \in 1..N
    BY <1>1
  <2> QED BY <2>1, <2>2, <2>3
<1>9. c = Step(c)
  <2> HIDE DEF Step
  <2> QED BY <1>8, Zenon
<1>10. c[0] = v /\ \A n \in 1..N : c[n] = Cb(c[n - 1], ks[n])
  <2> HIDE DEF c
  <2> QED BY <1>1, <1>6, <1>9
<1>11. ForEach(v, ks, LAMBDA u, k : WriteSendPkg(u, p, StopPkg(p))) = c[N]
  BY DEF ForEach, One, N, Cb
<1> HIDE DEF c
<1>12. c[N] \in Q[N]
  BY <1>1, <1>3, <1>4, <1>5, <1>10, FoldEnds
<1>13. Q[N] = Todo(v, p, es, ks, N, L)
  BY <1>1 DEF Q
<1> QED BY <1>11, <1>12, <1>13 DEF Todo, L, SameLeft

\* The loop in which a client sends, over connected nodes.
LEMMA ClientSendLoop ==
  ASSUME NEW p \in Client, NEW es, NEW v, ViewInv(v, p, es), NEW ks, OpenList(v, ks), NEW failed,
         \A i \in DOMAIN ks : v.ep.nodes[ks[i]].status = "Connected",
         v.left = MaxLeft => \A i \in DOMAIN ks : ks[i] \notin failed
  PROVE  SameLeft(v, ClientSendTo(v, p, ks, failed), p, es)
<1> DEFINE N == Len(ks)
           L == {v.left}
           Q == [n \in 0..N |-> Todo(v, p, es, ks, n, L)]
           Cb(u, k) == SendBuf(u, p, k, p, failed)
           R == [n \in 1..N |-> [u \in Q[n - 1] |-> Cb(u, ks[n])]]
           One(n, x) == CHOOSE r \in {Cb(u, ks[n]) : u \in {x}} : TRUE
           Step(h) == [n \in 0..N |-> IF n = 0 THEN v ELSE One(n, h[n - 1])]
           c == CHOOSE h : h = Step(h)
<1>1. N \in Nat /\ \A n \in 1..N : n - 1 \in 0..N /\ n \in 0..N
  BY LenProperties DEF OpenList
<1>2. ASSUME NEW n \in 1..N, NEW u \in Todo(v, p, es, ks, n - 1, L)
      PROVE  Cb(u, ks[n]) \in Todo(v, p, es, ks, n, L)
  <2> DEFINE k == ks[n]
  <2>1. /\ k \in Conn /\ IsOpen(u.ep, k) /\ ViewInv(u, p, es) /\ u.left \in L
        /\ u.ep.nodes[k] = v.ep.nodes[k]
    <3> HIDE DEF L, Cb
    <3> QED BY TodoOpen
  <2>0. p \in Proc
    BY DEF Proc
  <2>2. p \in ProcId /\ ForPeer(u, p, k, p)
    BY <2>0, NetAssumption DEF ProcId, ForPeer, Chain
  <2>3. u.ep.nodes[k].status = "Connected" /\ (u.left = MaxLeft => k \notin failed)
    <3>1. n \in DOMAIN ks
      BY LenProperties DEF OpenList
    <3> QED BY <2>1, <3>1
  <2>4. Keeps(u, Cb(u, k), p, es, k)
    BY <2>0, <2>1, <2>2, <2>3, SendKeeps
  <2> HIDE DEF Cb
  <2> QED BY <2>1, <2>4, TodoNext DEF Keeps
<1> HIDE DEF Cb, N, L
<1>3. v \in Q[0] /\ \A n \in 0..N : Q[n] \subseteq ViewType
  <2>1. v \in Todo(v, p, es, ks, 0, L)
    BY TodoFirst DEF L
  <2> QED BY <1>1, <2>1 DEF Todo
<1>4. \A n \in 1..N : \A u \in Q[n - 1] : R[n][u] = Cb(u, ks[n]) /\ Cb(u, ks[n]) \in Q[n]
  BY <1>1, <1>2
<1> HIDE DEF Q, R
<1>5. Leads(N, Q, R)
  BY <1>4 DEF Leads
<1>6. \A n, x : One(n, x) = Cb(x, ks[n])
  OBVIOUS
<1> HIDE DEF One
<1>7. PICK f : Folded(f, N, v, Q, R)
  BY <1>1, <1>3, <1>5, FoldExists
<1>8. f = Step(f)
  <2>1. f = [n \in 0..N |-> f[n]] /\ f[0] = v
    BY <1>7 DEF Folded
  <2>2. \A n \in 1..N : f[n] = One(n, f[n - 1])
    BY <1>4, <1>6, <1>7 DEF Folded
  <2>3. \A n \in 0..N : n # 0 => n \in 1..N
    BY <1>1
  <2> QED BY <2>1, <2>2, <2>3
<1>9. c = Step(c)
  <2> HIDE DEF Step
  <2> QED BY <1>8, Zenon
<1>10. c[0] = v /\ \A n \in 1..N : c[n] = Cb(c[n - 1], ks[n])
  <2> HIDE DEF c
  <2> QED BY <1>1, <1>6, <1>9
<1>11. ClientSendTo(v, p, ks, failed) = c[N]
  BY DEF ClientSendTo, ForEach, One, N, Cb
<1> HIDE DEF c
<1>12. c[N] \in Q[N]
  BY <1>1, <1>3, <1>4, <1>5, <1>10, FoldEnds
<1>13. Q[N] = Todo(v, p, es, ks, N, L)
  BY <1>1 DEF Q
<1> QED BY <1>11, <1>12, <1>13 DEF Todo, L, SameLeft

-----------------------------------------------------------------------------
(* The calls of the API. *)

\* The list of nodes is one to loop over.
LEMMA UsedList ==
  ASSUME NEW p, NEW es, NEW v, ViewInv(v, p, es)
  PROVE  OpenList(v, v.ep.used)
<1>1. v.ep.used \in Seq(Conn) /\ Listed(v.ep)
  BY ViewFields DEF ViewInv, LocalInv
<1>2. \A i \in DOMAIN v.ep.used : v.ep.used[i] \in Conn
  BY <1>1, LenProperties
<1> QED BY <1>1, <1>2 DEF OpenList, Listed

\* So is what epoll_wait reports, in whatever order.
LEMMA EventList ==
  ASSUME NEW v, NEW ready \in SUBSET Conn, \A k \in ready : IsOpen(v.ep, k),
         NEW evs \in SetToAllKPermutations(ready)
  PROVE  OpenList(v, evs)
<1>1. PICK s \in SUBSET ready : evs \in SetToSeqs(s)
  BY DEF SetToAllKPermutations
<1>2. s \in SUBSET Conn /\ Cardinality(s) \in Nat
  BY NetAssumption, FS_Subset, FS_CardinalityType
<1> DEFINE N == Cardinality(s)
<1>3. evs \in [1..N -> s] /\ \A i, j \in 1..N : i # j => evs[i] # evs[j]
  BY <1>1 DEF SetToSeqs
<1> HIDE DEF N
<1>4. evs \in [1..N -> Conn] /\ N \in Nat
  BY <1>2, <1>3 DEF N
<1>5. evs \in Seq(Conn) /\ DOMAIN evs = 1..N
  BY <1>4, IsASeq
<1>6. \A i \in 1..N : IsOpen(v.ep, evs[i])
  BY <1>3
<1> QED BY <1>3, <1>5, <1>6 DEF OpenList, Distinct

\* Two steps that leave what may go wrong as it was.
LEMMA SameLeftTwice ==
  ASSUME NEW p, NEW es, NEW u, NEW v, NEW w, SameLeft(u, v, p, es), SameLeft(v, w, p, es)
  PROVE  SameLeft(u, w, p, es)
BY DEF SameLeft

\* The first loop of both ...ProcRecvData.
LEMMA RetryKeeps ==
  ASSUME NEW p \in Proc, NEW es, NEW v, ViewInv(v, p, es)
  PROVE  LET w == Traverse(v, LAMBDA u, k : ReadRecvBuf(u, k).view)
         IN  SameLeft(v, w, p, es) /\ SameOpen(v, w)
<1>1. OpenList(v, v.ep.used)
  BY UsedList
<1> QED BY <1>1, ReadLoop DEF Traverse

\* joyServerProcRecvData
LEMMA ServerRecvKeeps ==
  ASSUME NEW p \in Server, NEW es, NEW v, ViewInv(v, p, es), NEW w \in ServerProcRecvData(v, p)
  PROVE  SameLeft(v, w, p, es)
<1> DEFINE ready == {k \in Conn : IsOpen(v.ep, k) /\ Readable(v.conn, k, p)}
           t     == Traverse(v, LAMBDA u, k : ReadRecvBuf(u, k).view)
<1>1. PICK evs \in SetToAllKPermutations(ready) : w \in ServerAccept(ServerReceive(v, p, evs), p)
  BY DEF ServerProcRecvData
<1>2. p \in Proc /\ ready \in SUBSET Conn /\ \A k \in ready : IsOpen(v.ep, k)
  BY DEF Proc
<1>3. SameLeft(v, t, p, es) /\ SameOpen(v, t)
  BY <1>2, RetryKeeps
<1> DEFINE r == ForEach(t, evs, LAMBDA u, k : RecvBuf(u, p, k))
<1>4. ServerReceive(v, p, evs) = r
  BY DEF ServerReceive
<1> HIDE DEF t
<1>5. OpenList(t, evs)
  <2>1. \A k \in ready : IsOpen(t.ep, k)
    BY <1>2, <1>3 DEF SameOpen
  <2> HIDE DEF ready
  <2> QED BY <1>1, <1>2, <2>1, EventList
<1>6. SameLeft(t, r, p, es)
  <2>1. ViewInv(t, p, es)
    BY <1>3 DEF SameLeft
  <2> QED BY <1>2, <1>5, <2>1, RecvLoop
<1> HIDE DEF r
<1>7. SameLeft(r, w, p, es)
  BY <1>1, <1>4, <1>6, AcceptKeeps DEF SameLeft
<1> QED BY <1>3, <1>6, <1>7, SameLeftTwice

\* joyServerReadRecvData
LEMMA ServerReadSpends ==
  ASSUME NEW p \in Server, NEW es, NEW v, ViewInv(v, p, es), NEW w \in ServerReadRecvData(v, p)
  PROVE  Spends(v, w, p, es)
<1>1. PICK bad : w \in ReadRecvPkg(ServerHandshakes(v, p, bad), p)
  BY DEF ServerReadRecvData, Possible
<1>2. w.left.faults >= 0 /\ w.left.refusals >= 0
  BY DEF ServerReadRecvData, Possible
<1> DEFINE t == ServerHandshakes(v, p, bad)
<1>3. p \in Proc
  BY DEF Proc
<1>4. Tried(v, t, p, es)
  <2> DEFINE r == ServerShakes(v, v.ep.used, p, bad)
  <2>1. OpenList(v, v.ep.used)
    BY UsedList
  <2>2. Tried(v, r, p, es)
    BY <2>1, ServerShakeLoop
  <2>3. t = r
    BY DEF ServerHandshakes, ServerShakes, Traverse
  <2> QED BY <2>2, <2>3
<1> HIDE DEF t
<1>5. ViewInv(w, p, es) /\ w.left.stops = t.left.stops
  BY <1>1, <1>3, <1>4, ReadPkgKeeps DEF Tried, t
<1> QED BY <1>2, <1>4, <1>5 DEF Spends, Tried

\* joyServerProcSendData
LEMMA ServerSendKeeps ==
  ASSUME NEW p \in Server, NEW es, NEW v, ViewInv(v, p, es), NEW w \in ServerProcSendData(v, p)
  PROVE  SameLeft(v, w, p, es)
<1> DEFINE r(failed) == ServerSends(v, v.ep.used, p, failed)
<1>1. OpenList(v, v.ep.used)
  BY UsedList
<1>2. ASSUME NEW failed \in Losses(v, p)
      PROVE  SameLeft(v, r(failed), p, es)
  <2>1. v.left = MaxLeft => failed = {}
    BY PeerStays DEF Losses, Proc
  <2> QED BY <1>1, <2>1, ServerSendLoop
<1>3. w \in {r(failed) : failed \in Losses(v, p)}
  BY DEF ServerProcSendData, ServerSends, Traverse
<1> HIDE DEF r
<1> QED BY <1>2, <1>3

\* joyServerStop
LEMMA ServerStopKeeps ==
  ASSUME NEW p \in Server, NEW es, NEW v, ViewInv(v, p, es), NEW w \in ServerStop(v, p)
  PROVE  SameLeft(v, w, p, es)
<1> DEFINE a == StopListen(v, p)
           b == Traverse(a, LAMBDA u, k : ServerStopNode(u, p, k))
<1>1. w \in ServerProcSendData(b, p)
  BY DEF ServerStop
<1>2. SameLeft(v, a, p, es)
  BY StopListenKeeps
<1> HIDE DEF a
<1>3. SameLeft(a, b, p, es)
  <2>1. ViewInv(a, p, es)
    BY <1>2 DEF SameLeft
  <2>2. OpenList(a, a.ep.used)
    BY <2>1, UsedList
  <2> QED BY <2>1, <2>2, ServerStopLoop DEF Traverse
<1> HIDE DEF b
<1>4. SameLeft(b, w, p, es)
  BY <1>1, <1>3, ServerSendKeeps DEF SameLeft
<1> QED BY <1>2, <1>3, <1>4, SameLeftTwice

\* Two steps of which either may use up a fault.
LEMMA SpendsTwice ==
  ASSUME NEW p, NEW es, NEW u, NEW v, NEW w, Spends(u, v, p, es) \/ SameLeft(u, v, p, es),
         Spends(v, w, p, es) \/ SameLeft(v, w, p, es)
  PROVE  Spends(u, w, p, es)
BY DEF Spends, SameLeft

\* joyServerCanStop
LEMMA ServerCanStopSpends ==
  ASSUME NEW p \in Server, NEW es, NEW v, ViewInv(v, p, es), NEW w \in ServerCanStopCalls(v, p)
  PROVE  Spends(v, w, p, es)
<1>1. PICK a \in ServerProcRecvData(v, p) :
        \E b \in ServerReadRecvData(a, p) : w \in ServerProcSendData(b, p)
  BY DEF ServerCanStopCalls
<1>2. PICK b \in ServerReadRecvData(a, p) : w \in ServerProcSendData(b, p)
  BY <1>1
<1>3. SameLeft(v, a, p, es)
  BY <1>1, ServerRecvKeeps
<1>4. Spends(a, b, p, es)
  BY <1>2, <1>3, ServerReadSpends DEF SameLeft
<1>5. SameLeft(b, w, p, es)
  BY <1>2, <1>4, ServerSendKeeps DEF Spends
<1> QED BY <1>3, <1>4, <1>5, SpendsTwice

\* joyClientProcRecvData
LEMMA ClientRecvKeeps ==
  ASSUME NEW p \in Client, NEW es, NEW v, ViewInv(v, p, es), NEW w \in ClientProcRecvData(v, p)
  PROVE  SameLeft(v, w, p, es)
<1> DEFINE t == Traverse(v, LAMBDA u, k : ReadRecvBuf(u, k).view)
           r(arrived) == ClientRecvs(t, t.ep.used, p, arrived)
<1>1. p \in Proc
  BY DEF Proc
<1>2. SameLeft(v, t, p, es)
  BY <1>1, RetryKeeps
<1>3. \E arrived : w = ClientReceive(v, p, arrived)
  BY DEF ClientProcRecvData
<1>4. \A arrived : ClientReceive(v, p, arrived) = r(arrived)
  BY DEF ClientReceive, ClientRecvs, Traverse
<1> HIDE DEF t
<1>5. OpenList(t, t.ep.used)
  BY <1>2, UsedList DEF SameLeft
<1>6. \A arrived : SameLeft(t, r(arrived), p, es)
  BY <1>1, <1>2, <1>5, ClientRecvLoop DEF SameLeft
<1> HIDE DEF r
<1> QED BY <1>2, <1>3, <1>4, <1>6, SameLeftTwice

\* joyClientReadRecvData
LEMMA ClientReadSpends ==
  ASSUME NEW p \in Client, NEW es, NEW v, ViewInv(v, p, es), NEW w \in ClientReadRecvData(v, p)
  PROVE  Spends(v, w, p, es)
<1>1. PICK late : w \in ReadRecvPkg(ClientHandshakes(v, p, late), p)
  BY DEF ClientReadRecvData, Possible
<1>2. w.left.faults >= 0 /\ w.left.refusals >= 0
  BY DEF ClientReadRecvData, Possible
<1> DEFINE t == ClientHandshakes(v, p, late)
<1>3. p \in Proc
  BY DEF Proc
<1>4. Tried(v, t, p, es)
  <2> DEFINE r == ClientShakes(v, v.ep.used, p, late)
  <2>1. OpenList(v, v.ep.used)
    BY UsedList
  <2>2. Tried(v, r, p, es)
    BY <2>1, ClientShakeLoop
  <2>3. t = r
    BY DEF ClientHandshakes, ClientShakes, Traverse
  <2> QED BY <2>2, <2>3
<1> HIDE DEF t
<1>5. ViewInv(w, p, es) /\ w.left.stops = t.left.stops
  BY <1>1, <1>3, <1>4, ReadPkgKeeps DEF Tried, t
<1> QED BY <1>2, <1>4, <1>5 DEF Spends, Tried

\* The connected nodes, one of them first, are each there once.
LEMMA FromList ==
  ASSUME NEW p, NEW es, NEW v, ViewInv(v, p, es)
  PROVE  LET up == UpNodes(v)
         IN  \A i \in DOMAIN up :
               LET ks == StartingAt(up, up[i])
               IN  /\ OpenList(v, ks)
                   /\ \A j \in DOMAIN ks : v.ep.nodes[ks[j]].status = "Connected"
<1> DEFINE T  == {k \in Conn : v.ep.nodes[k].status = "Connected"}
           up == Select(v.ep.used, T)
<1>1. v.ep.used \in Seq(Conn) /\ Distinct(v.ep.used)
  BY ViewFields DEF ViewInv, LocalInv, Listed
<1>2. up \in Seq(Conn \cap T) /\ Distinct(up)
  <2> HIDE DEF T
  <2>1. Selected(up, v.ep.used, Len(v.ep.used), Conn, T)
    BY <1>1, SelectFacts
  <2> HIDE DEF up
  <2> QED BY <1>1, <2>1 DEF Selected
<1>3. up \in Seq(T)
  <2>1. Conn \cap T = T
    OBVIOUS
  <2> HIDE DEF T, up
  <2> QED BY <1>2, <2>1
<1> HIDE DEF up
<1>4. ASSUME NEW i \in DOMAIN up
      PROVE  LET ks == <<up[i]>> \o Without(up, up[i])
             IN  /\ OpenList(v, ks)
                 /\ \A j \in DOMAIN ks : v.ep.nodes[ks[j]].status = "Connected"
  <2> DEFINE x  == up[i]
             r  == Without(up, x)
             ks == <<x>> \o r
  <2>1. x \in T
    BY <1>3, LenProperties
  <2>2. IsWithout(r, up, i, T)
    <3> HIDE DEF T
    <3> QED BY <1>2, <1>3, WithoutFacts
  <2> HIDE DEF x, r, T
  <2>3. r \in Seq(T) /\ Distinct(r) /\ \A j \in DOMAIN r : r[j] # x
    BY <2>2 DEF IsWithout, x
  <2>4. Len(r) \in Nat /\ DOMAIN r = 1..Len(r)
    BY <2>3, LenProperties
  <2>5. <<x>> \in Seq(T) /\ Len(<<x>>) = 1 /\ <<x>>[1] = x
    BY <2>1
  <2>6. /\ ks \in Seq(T) /\ Len(ks) = 1 + Len(r)
        /\ \A j \in 1..1+Len(r) : ks[j] = IF j <= 1 THEN <<x>>[j] ELSE r[j - 1]
    BY <2>3, <2>5, ConcatProperties
  <2>7. DOMAIN ks = 1..1+Len(r)
    BY <2>6, LenProperties
  <2> HIDE DEF ks
  <2>8. ks[1] = x /\ \A j \in 2..1+Len(r) : ks[j] = r[j - 1] /\ j - 1 \in DOMAIN r
    BY <2>4, <2>5, <2>6
  <2>9. Distinct(ks)
    <3>1. ASSUME NEW a \in DOMAIN ks, NEW b \in DOMAIN ks, ks[a] = ks[b]
          PROVE  a = b
      <4>1. CASE a = 1 /\ b = 1
        BY <4>1
      <4>2. CASE a = 1 /\ b # 1
        <5>1. b \in 2..1+Len(r)
          BY <2>4, <2>7, <4>2
        <5> QED BY <2>3, <2>8, <3>1, <4>2, <5>1
      <4>3. CASE a # 1 /\ b = 1
        <5>1. a \in 2..1+Len(r)
          BY <2>4, <2>7, <4>3
        <5> QED BY <2>3, <2>8, <3>1, <4>3, <5>1
      <4>4. CASE a # 1 /\ b # 1
        <5>1. a \in 2..1+Len(r) /\ b \in 2..1+Len(r)
          BY <2>4, <2>7, <4>4
        <5>2. a - 1 = b - 1
          BY <2>3, <2>8, <3>1, <5>1 DEF Distinct
        <5> QED BY <2>4, <5>1, <5>2
      <4> QED BY <4>1, <4>2, <4>3, <4>4
    <3> QED BY <3>1 DEF Distinct
  <2>10. \A j \in DOMAIN ks : ks[j] \in T
    BY <2>6, <2>7
  <2>11. \A k \in T : k \in Conn /\ v.ep.nodes[k].status = "Connected"
    BY DEF T
  <2>12. \A k \in T : IsOpen(v.ep, k)
    BY <2>11 DEF IsOpen, NoNode
  <2>13. ks \in Seq(Conn)
    <3>1. T \subseteq Conn
      BY <2>11
    <3> QED BY <2>6, <3>1
  <2> QED BY <2>9, <2>10, <2>11, <2>12, <2>13 DEF OpenList, ks, r, x
<1> QED BY <1>4 DEF up, UpNodes, StartingAt

\* joyClientProcSendData
LEMMA ClientSendKeeps ==
  ASSUME NEW p \in Client, NEW es, NEW v, ViewInv(v, p, es), NEW w \in ClientProcSendData(v, p)
  PROVE  SameLeft(v, w, p, es)
<1> DEFINE up == UpNodes(v)
           ks(i) == StartingAt(up, up[i])
           r(i, failed) == ClientSendTo(v, p, ks(i), failed)
           views == {r(i, failed) : i \in DOMAIN up, failed \in Losses(v, p)}
<1>1. ClientProcSendData(v, p) = IF up = <<>> THEN {v} ELSE views
  BY DEF ClientProcSendData
<1>2. CASE up = <<>>
  BY <1>1, <1>2 DEF SameLeft
<1>3. CASE up # <<>>
  <2>1. w \in views
    <3> HIDE DEF up, views
    <3> QED BY <1>1, <1>3
  <2>2. ASSUME NEW i \in DOMAIN up, NEW failed \in Losses(v, p)
        PROVE  SameLeft(v, r(i, failed), p, es)
    <3>1. /\ OpenList(v, ks(i))
          /\ \A j \in DOMAIN ks(i) : v.ep.nodes[ks(i)[j]].status = "Connected"
      BY FromList
    <3> DEFINE s == ks(i)
    <3> HIDE DEF ks, up
    <3>2. OpenList(v, s) /\ \A j \in DOMAIN s : v.ep.nodes[s[j]].status = "Connected"
      BY <3>1
    <3> HIDE DEF s
    <3>3. ASSUME v.left = MaxLeft, NEW j \in DOMAIN s
          PROVE  s[j] \notin failed
      <4>1. s[j] \in Conn /\ IsOpen(v.ep, s[j]) /\ v.ep.nodes[s[j]].status = "Connected"
        BY <3>2, LenProperties DEF OpenList
      <4>2. ~Gone(v.conn[s[j]], p)
        BY <3>3, <4>1, PeerStays DEF Proc
      <4> QED BY <4>2 DEF Losses
    <3>4. SameLeft(v, ClientSendTo(v, p, s, failed), p, es)
      BY <3>2, <3>3, ClientSendLoop
    <3> QED BY <3>4 DEF s
  <2> HIDE DEF r, up
  <2> QED BY <2>1, <2>2
<1> QED BY <1>2, <1>3

\* joyClientStop
LEMMA ClientStopKeeps ==
  ASSUME NEW p \in Client, NEW es, NEW v, ViewInv(v, p, es), NEW w \in ClientStop(v, p)
  PROVE  SameLeft(v, w, p, es)
<1> DEFINE b == Traverse(v, LAMBDA u, k : WriteSendPkg(u, p, StopPkg(p)))
<1>1. w \in ClientProcSendData(b, p)
  BY DEF ClientStop
<1>2. SameLeft(v, b, p, es)
  <2> DEFINE r == ForEach(v, v.ep.used, LAMBDA u, k : WriteSendPkg(u, p, StopPkg(p)))
  <2>1. OpenList(v, v.ep.used)
    BY UsedList
  <2>2. SameLeft(v, r, p, es)
    BY <2>1, ClientStopLoop
  <2>3. b = r
    BY DEF Traverse
  <2> QED BY <2>2, <2>3
<1> HIDE DEF b
<1>3. SameLeft(b, w, p, es)
  BY <1>1, <1>2, ClientSendKeeps DEF SameLeft
<1> QED BY <1>2, <1>3, SameLeftTwice

\* joyClientCanStop
LEMMA ClientCanStopSpends ==
  ASSUME NEW p \in Client, NEW es, NEW v, ViewInv(v, p, es), NEW w \in ClientCanStopCalls(v, p)
  PROVE  Spends(v, w, p, es)
<1>1. PICK a \in ClientProcRecvData(v, p) :
        \E b \in ClientReadRecvData(a, p) : w \in ClientProcSendData(b, p)
  BY DEF ClientCanStopCalls
<1>2. PICK b \in ClientReadRecvData(a, p) : w \in ClientProcSendData(b, p)
  BY <1>1
<1>3. SameLeft(v, a, p, es)
  BY <1>1, ClientRecvKeeps
<1>4. Spends(a, b, p, es)
  BY <1>2, <1>3, ClientReadSpends DEF SameLeft
<1>5. SameLeft(b, w, p, es)
  BY <1>2, <1>4, ClientSendKeeps DEF Spends
<1> QED BY <1>3, <1>4, <1>5, SpendsTwice

-----------------------------------------------------------------------------
(* The system. *)

LinksAt(k) == [q \in Proc |-> ep[q].nodes[k]]

\* The types of what is not in a view, and the bounds.
Bounded ==
  /\ left \in [faults : Nat, refusals : Nat, stops : Nat]
  /\ phase \in [Proc -> {"run", "stopping", "done"}]
  /\ sent \in [Proc -> Nat] /\ \A p \in Proc : sent[p] <= MaxSent[p]

Typed ==
  /\ ep \in [Proc -> Endpoint] /\ conn \in [Conn -> Connection]
  /\ handled \in [Proc -> Seq(Pkg)]

\* As long as there are stops left, none is told to stop, and as long as nothing has
\* gone wrong, connections are in order and every message is somewhere.
AllRun == left.stops = MaxLeft.stops => \A p \in Proc : phase[p] = "run"

Kept ==
  /\ InLimits(left)
  /\ AllRun
  /\ left = MaxLeft =>
       /\ \A k \in Conn : Healthy(LinksAt(k), conn[k])
       /\ All(Stock(ep, conn, handled), sent)

\* The inductive invariant.
IInv ==
  /\ Bounded
  /\ Typed
  /\ \A p \in Proc : LocalInv(ep[p], p)
  /\ \A k \in Conn : LinkInv(LinksAt(k), conn[k])
  /\ Delivered(handled)
  /\ Account(Stock(ep, conn, handled), conn, left.refusals, sent)
  /\ Kept

\* With its own endpoint a process sees all endpoints as they are.
LEMMA OwnEps ==
  ASSUME NEW p \in Proc, NEW es, es = [q \in Proc |-> es[q]], NEW v
  PROVE  /\ v.ep = es[p] => Eps(v, p, es) = es
         /\ Eps(v, p, es) = [es EXCEPT ![p] = v.ep]
BY DEF Eps

\* A process at rest has an invariant view.
LEMMA ViewAtRest ==
  ASSUME IInv, NEW p \in Proc
  PROVE  ViewInv(View(p), p, ep) /\ View(p).left = left
<1> DEFINE v == View(p)
<1>1. /\ v.ep = ep[p] /\ v.conn = conn /\ v.handled = handled /\ v.left = left
      /\ v \in [ep : {ep[p]}, conn : {conn}, handled : {handled}, left : {left},
                moved : {0}, dealt : {0}]
  BY DEF View
<1> HIDE DEF v
<1>2. /\ ep[p] \in Endpoint /\ conn \in [Conn -> Connection]
      /\ handled \in [Proc -> Seq(Pkg)] /\ left \in Left
  BY DEF IInv, Typed, Bounded, Left
<1>3. v \in ViewType
  BY <1>1, <1>2 DEF ViewType
<1>4. \A k \in Conn : NodesAt(v, p, ep, k) = LinksAt(k)
  BY <1>1 DEF NodesAt, LinksAt
<1>5. StockOf(v, p, ep) = Stock(ep, conn, handled)
  <2>1. Eps(v, p, ep) = ep
    BY <1>1, <1>2, OwnEps DEF IInv, Typed
  <2> QED BY <1>1, <2>1 DEF StockOf
<1>6. AccountOf(v, p, ep)
  BY <1>1, <1>5 DEF IInv, AccountOf
<1>7. KeptOf(v, p, ep)
  BY <1>1, <1>4, <1>5 DEF IInv, Kept, KeptOf
<1> QED BY <1>1, <1>3, <1>4, <1>6, <1>7 DEF ViewInv, IInv, v

\* A process installs an invariant view.
LEMMA InstallKeeps ==
  ASSUME IInv, NEW p \in Proc, NEW w, Frame(w, p, ep), Install(p, w), Bounded',
         Account(StockOf(w, p, ep), w.conn, w.left.refusals, sent'), InLimits(w.left), AllRun',
         w.left = MaxLeft =>
           /\ \A k \in Conn : Healthy(NodesAt(w, p, ep, k), w.conn[k])
           /\ All(StockOf(w, p, ep), sent')
  PROVE  IInv'
<1>1. /\ ep' = [ep EXCEPT ![p] = w.ep] /\ conn' = w.conn /\ handled' = w.handled
  BY DEF Install
<1>2. /\ w \in ViewType /\ LocalInv(w.ep, p) /\ Delivered(w.handled)
      /\ \A k \in Conn : LinkInv(NodesAt(w, p, ep, k), w.conn[k])
  BY DEF Frame
<1>3. w.ep \in Endpoint /\ ep \in [Proc -> Endpoint]
  BY <1>2, ViewFields DEF IInv, Typed
<1>4. Typed'
  BY <1>1, <1>2, <1>3, ViewFields DEF Typed
<1>5. \A q \in Proc : LocalInv(ep'[q], q)
  BY <1>1, <1>2, <1>3 DEF IInv
<1>6. \A k \in Conn : LinksAt(k)' = NodesAt(w, p, ep, k)
  BY <1>1, <1>3 DEF LinksAt, NodesAt
<1>7. \A k \in Conn : LinkInv(LinksAt(k)', conn'[k])
  BY <1>1, <1>2, <1>6
<1>8. Delivered(handled')
  BY <1>1, <1>2
<1>9. StockOf(w, p, ep) = Stock(ep', conn', handled')
  <2>1. Eps(w, p, ep) = ep'
    BY <1>1, <1>3, OwnEps
  <2> QED BY <1>1, <2>1 DEF StockOf
<1>10. left' = w.left
  BY DEF Install
<1>11. Account(Stock(ep', conn', handled'), conn', left'.refusals, sent')
  BY <1>1, <1>9, <1>10
<1>12. Kept'
  BY <1>1, <1>6, <1>9, <1>10 DEF Kept
<1> QED BY <1>4, <1>5, <1>7, <1>8, <1>11, <1>12 DEF IInv

\* As long as nothing is sent, its account is that of the view.
LEMMA ViewInstalled ==
  ASSUME IInv, NEW p \in Proc, NEW w, ViewInv(w, p, ep), Install(p, w), Bounded', AllRun',
         UNCHANGED sent
  PROVE  IInv'
<1>1. Frame(w, p, ep)
  BY DEF ViewInv, Frame
<1>2. Account(StockOf(w, p, ep), w.conn, w.left.refusals, sent')
  BY DEF ViewInv, AccountOf
<1>3. /\ InLimits(w.left)
      /\ w.left = MaxLeft =>
           /\ \A k \in Conn : Healthy(NodesAt(w, p, ep, k), w.conn[k])
           /\ All(StockOf(w, p, ep), sent')
  BY DEF ViewInv, KeptOf
<1> QED BY <1>1, <1>2, <1>3, InstallKeeps

\* A call that may use up what may still go wrong.
LEMMA CallKeeps ==
  ASSUME IInv, NEW p \in Proc, NEW w,
         SameLeft(View(p), w, p, ep) \/ Spends(View(p), w, p, ep),
         Install(p, w), UNCHANGED sent, phase' \in [Proc -> {"run", "stopping", "done"}],
         phase' = phase \/ left.stops # MaxLeft.stops
  PROVE  IInv'
<1>1. ViewInv(w, p, ep) /\ left' = w.left /\ w.left \in Left
  BY ViewFields DEF SameLeft, Spends, Install, ViewInv
<1>2. left \in [faults : Nat, refusals : Nat, stops : Nat] /\ View(p).left = left
  BY ViewAtRest DEF IInv, Bounded
<1>3. w.left = left \/ (w.left.stops = left.stops /\ w.left.faults >= 0 /\ w.left.refusals >= 0)
  BY <1>2 DEF SameLeft, Spends
<1>4. left' \in [faults : Nat, refusals : Nat, stops : Nat]
  <2>1. CASE w.left = left
    BY <1>1, <1>2, <2>1
  <2>2. CASE w.left.stops = left.stops /\ w.left.faults >= 0 /\ w.left.refusals >= 0
    <3>1. w.left.faults \in Nat /\ w.left.refusals \in Nat /\ w.left.stops \in Nat
      BY <1>1, <1>2, <2>2 DEF Left
    <3> QED BY <1>1, <3>1 DEF Left
  <2> QED BY <1>3, <2>1, <2>2
<1>5. Bounded'
  BY <1>4 DEF IInv, Bounded
<1>6. AllRun'
  BY <1>1, <1>3 DEF IInv, Kept, AllRun
<1> QED BY <1>1, <1>5, <1>6, ViewInstalled

\* A process that has just started.
LEMMA InitLocal ==
  ASSUME NEW p \in Proc
  PROVE  LocalInv(InitEp, p)
<1> DEFINE e == InitEp
<1>1. /\ e.nodes = [k \in Conn |-> NoNode] /\ e.used = <<>>
      /\ e.nodeidx = [q \in ProcId |-> NoConn]
      /\ e.sendq = [q \in ProcId |-> <<>>] /\ e.recvq = <<>>
      /\ e \in [nodes : {e.nodes}, used : {<<>>}, nodeidx : {e.nodeidx},
                sendq : {e.sendq}, recvq : {<<>>}]
  BY DEF InitEp
<1> HIDE DEF e
<1>2. \A S : <<>> \in Seq(S) /\ DOMAIN <<>> = {} /\ Len(<<>>) = 0
  OBVIOUS
<1>3. e.nodes \in [Conn -> Node] /\ \A k \in Conn : ~IsOpen(e, k)
  BY <1>1 DEF Node, IsOpen
<1>4. e.sendq \in [ProcId -> Seq(Data)] /\ \A q \in ProcId : e.sendq[q] = <<>>
  BY <1>1, <1>2
<1>5. e \in Endpoint
  <2>1. e.nodeidx \in [ProcId -> Conn \cup {NoConn}]
    BY <1>1
  <2>2. <<>> \in Seq(Conn) /\ <<>> \in Seq(Data)
    BY <1>2
  <2> QED BY <1>1, <1>3, <1>4, <2>1, <2>2 DEF Endpoint
<1>6. Sized(e)
  <2>1. Short(e.sendq)
    BY <1>2, <1>4, Bounds DEF Short
  <2>2. Used(e) = Len(e.recvq) + Cardinality(Places(e.sendq))
    BY <1>1, <1>2, <2>1, UsedIs
  <2>3. Places(e.sendq) = {}
    <3>1. \A q \in ProcId : {q} \X DOMAIN e.sendq[q] = {}
      BY <1>2, <1>4
    <3> QED BY <3>1 DEF Places
  <2>4. Used(e) = 0
    <3>1. Cardinality(Places(e.sendq)) = 0
      BY <2>3, FS_EmptySet
    <3>2. Len(e.recvq) = 0
      BY <1>1, <1>2
    <3> QED BY <2>2, <3>1, <3>2
  <2> QED BY <1>2, <1>4, <2>4, Bounds DEF Sized
<1>7. Sorted(e, p)
  BY <1>1, <1>2, <1>4 DEF Sorted
<1>8. Listed(e)
  BY <1>1, <1>2, <1>3 DEF Listed, Distinct
<1>9. Indexed(e, p)
  BY <1>1, <1>3 DEF Indexed, ProcId
<1> QED BY <1>5, <1>6, <1>7, <1>8, <1>9 DEF LocalInv, e

\* The invariant holds at the start.
LEMMA InitIInv == Init => IInv
<1> SUFFICES ASSUME Init
             PROVE  IInv
  OBVIOUS
<1>1. /\ ep = [p \in Proc |-> InitEp] /\ conn = [k \in Conn |-> FreeConn]
      /\ handled = [p \in Proc |-> <<>>] /\ left = MaxLeft
      /\ phase = [p \in Proc |-> "run"] /\ sent = [p \in Proc |-> 0]
  BY DEF Init
<1>2. \A S : <<>> \in Seq(S)
  OBVIOUS
<1>3. \A p \in Proc : LocalInv(ep[p], p) /\ ep[p] \in Endpoint
  BY <1>1, InitLocal DEF LocalInv
<1>4. Bounded
  BY <1>1, SystemAssumption DEF Bounded
<1>5. Typed
  BY <1>1, <1>2, <1>3, FreeLink DEF Typed
<1>6. \A k \in Conn : LinkInv(LinksAt(k), conn[k])
  <2> TAKE k \in Conn
  <2>1. \A q \in Proc : ep[q].nodes[k] = NoNode
    BY <1>1 DEF InitEp
  <2>2. LinksAt(k) \in [Proc -> Node] /\ \A q \in Proc : LinksAt(k)[q] = NoNode
    BY <2>1 DEF LinksAt, Node
  <2>3. conn[k] = FreeConn
    BY <1>1
  <2> QED BY <2>2, <2>3, FreeLink
<1>7. Delivered(handled)
  BY <1>1, <1>2 DEF Delivered
<1>8. Account(Stock(ep, conn, handled), conn, left.refusals, sent)
  <2> DEFINE F == Stock(ep, conn, handled)
  <2>1. ASSUME NEW q \in Proc
        PROVE  /\ handled[q] = <<>> /\ ep[q].recvq = <<>>
               /\ \A r \in ProcId : ep[q].sendq[r] = <<>>
               /\ \A k \in Conn : RecvBufOf(ep[q], k) = <<>> /\ SendBufOf(ep[q], k) = <<>>
    BY <1>1 DEF InitEp, IsOpen, RecvBufOf, SendBufOf
  <2>2. \A q \in Proc, k \in Conn : conn[k].wire[q] = <<>>
    BY <1>1 DEF FreeConn
  <2>3. ASSUME NEW a \in Place
        PROVE  F[a] = <<>>
    <3>1. a.of \in Proc
      BY PlaceIs
    <3>2. CASE a = InHandled(a.of) \/ a = InRecvq(a.of)
      BY <2>1, <3>1, <3>2, StockIs
    <3>3. CASE a.by \in ProcId /\ a = InSendq(a.of, a.by)
      BY <2>1, <3>1, <3>3, StockIs
    <3>4. CASE a.by \in Conn /\ (a = InRecvbuf(a.of, a.by) \/ a = InSendbuf(a.of, a.by))
      <4>1. RecvBufOf(ep[a.of], a.by) = <<>> /\ SendBufOf(ep[a.of], a.by) = <<>>
        BY <2>1, <3>1, <3>4
      <4> QED BY <3>1, <3>4, <4>1, StockIs
    <3>5. CASE a.by \in Conn /\ a = InWire(a.of, a.by)
      BY <2>2, <3>1, <3>5, StockIs
    <3> QED BY <3>2, <3>3, <3>4, <3>5, PlaceIs
  <2>4. F = [a \in Place |-> F[a]]
    BY DEF Stock
  <2> HIDE DEF F
  <2>5. F \in Contents
    <3>1. \A a \in Place : F[a] \in Seq(Pkg)
      BY <1>2, <2>3
    <3> QED BY <2>4, <3>1 DEF Contents
  <2>6. \A a \in Place : DOMAIN F[a] = {}
    BY <2>3
  <2>7. Once(F) /\ Counted(F, sent) /\ Own(F) /\ \A S, x : Aged(F, S, x)
    BY <2>6 DEF Once, Counted, Own, Aged
  <2>8. left.refusals = MaxLeft.refusals /\ MaxLeft.refusals \in Nat
    BY <1>1, SystemAssumption
  <2> QED BY <2>5, <2>7, <2>8 DEF Account, Ordered, F
<1>9. Kept
  <2>1. InLimits(left)
    BY <1>1, SystemAssumption DEF InLimits
  <2>2. \A k \in Conn : Healthy(LinksAt(k), conn[k])
    BY <1>1 DEF Healthy
  <2>3. \A x \in Proc : 1..sent[x] = {}
    BY <1>1
  <2>4. All(Stock(ep, conn, handled), sent)
    BY <2>3 DEF All
  <2> QED BY <1>1, <2>1, <2>2, <2>4 DEF Kept, AllRun
<1> QED BY <1>3, <1>4, <1>5, <1>6, <1>7, <1>8, <1>9 DEF IInv

\* A call of the API.
LEMMA CallsKeep ==
  ASSUME IInv, NEW p \in Proc,
         \/ ProcRecvData(p) \/ ReadRecvData(p) \/ ProcSendData(p) \/ CanStop(p)
         \/ p \in Client /\ \E s \in Server : ConnectTcp(p, s)
  PROVE  IInv'
<1> DEFINE v == View(p)
           Good(w) == SameLeft(v, w, p, ep) \/ Spends(v, w, p, ep)
<1>1. ViewInv(v, p, ep)
  BY ViewAtRest
<1>2. p \in Server \/ p \in Client
  BY DEF Proc
<1>3. phase \in [Proc -> {"run", "stopping", "done"}]
  BY DEF IInv, Bounded
<1> HIDE DEF v
<1>4. ASSUME NEW views, \A w \in views : Good(w), Call(p, views)
      PROVE  IInv'
  <2>1. PICK w \in views : Install(p, w)
    BY <1>4 DEF Call
  <2>2. UNCHANGED sent /\ phase' = phase
    BY <1>4 DEF Call
  <2> QED BY <1>3, <1>4, <2>1, <2>2, CallKeeps DEF v
<1>5. CASE ProcRecvData(p)
  <2> DEFINE views == IF p \in Server THEN ServerProcRecvData(v, p) ELSE ClientProcRecvData(v, p)
  <2>1. Call(p, views)
    BY <1>5 DEF ProcRecvData, v
  <2>2. \A w \in views : Good(w)
    BY <1>1, <1>2, ServerRecvKeeps, ClientRecvKeeps
  <2> QED BY <1>4, <2>1, <2>2
<1>6. CASE ReadRecvData(p)
  <2> DEFINE views == IF p \in Server THEN ServerReadRecvData(v, p) ELSE ClientReadRecvData(v, p)
  <2>1. Call(p, views)
    BY <1>6 DEF ReadRecvData, v
  <2>2. \A w \in views : Good(w)
    BY <1>1, <1>2, ServerReadSpends, ClientReadSpends
  <2> QED BY <1>4, <2>1, <2>2
<1>7. CASE ProcSendData(p)
  <2> DEFINE views == IF p \in Server THEN ServerProcSendData(v, p) ELSE ClientProcSendData(v, p)
  <2>1. Call(p, views)
    BY <1>7 DEF ProcSendData, v
  <2>2. \A w \in views : Good(w)
    BY <1>1, <1>2, ServerSendKeeps, ClientSendKeeps
  <2> QED BY <1>4, <2>1, <2>2
<1>8. CASE p \in Client /\ \E s \in Server : ConnectTcp(p, s)
  <2>1. PICK s \in Server : ConnectTcp(p, s)
    BY <1>8
  <2> DEFINE views == ClientConnectTcp(v, p, s, phase[s] = "run")
  <2>2. Call(p, views)
    BY <2>1 DEF ConnectTcp, v
  <2>3. \A w \in views : Good(w)
    BY <1>1, <1>8, ConnectSpends
  <2> QED BY <1>4, <2>2, <2>3
<1>9. CASE CanStop(p)
  <2> DEFINE views == IF p \in Server THEN ServerCanStopCalls(v, p) ELSE ClientCanStopCalls(v, p)
  <2>1. PICK w \in views :
          /\ Install(p, w)
          /\ phase' = [phase EXCEPT ![p] =
               IF IF p \in Server THEN ServerCanStop(w) ELSE ClientCanStop(w) THEN "done" ELSE @]
    BY <1>9 DEF CanStop, v
  <2>2. Good(w)
    BY <1>1, <1>2, <2>1, ServerCanStopSpends, ClientCanStopSpends
  <2>3. phase' \in [Proc -> {"run", "stopping", "done"}]
    BY <1>3, <2>1
  <2>4. UNCHANGED sent /\ left.stops # MaxLeft.stops
    BY <1>9 DEF CanStop, IInv, Kept, AllRun
  <2> QED BY <2>1, <2>2, <2>3, <2>4, CallKeeps DEF v
<1> QED BY <1>5, <1>6, <1>7, <1>8, <1>9

\* joyServerStop and joyClientStop
LEMMA StopKeeps ==
  ASSUME IInv, NEW p \in Proc, Stop(p)
  PROVE  IInv'
<1> DEFINE v == View(p)
           views == IF p \in Server THEN ServerStop(v, p) ELSE ClientStop(v, p)
<1>1. ViewInv(v, p, ep) /\ v.left = left
  BY ViewAtRest
<1>2. p \in Server \/ p \in Client
  BY DEF Proc
<1>3. PICK w \in views : Install(p, [w EXCEPT !.left.stops = @ - 1])
  BY DEF Stop
<1> HIDE DEF v
<1>4. SameLeft(v, w, p, ep)
  BY <1>1, <1>2, <1>3, ServerStopKeeps, ClientStopKeeps
<1> HIDE DEF views
<1> DEFINE l == [w.left EXCEPT !.stops = @ - 1]
           x == [w EXCEPT !.left = l]
<1>5. w \in ViewType /\ ViewInv(w, p, ep) /\ w.left = left
  BY <1>1, <1>4 DEF SameLeft, ViewInv
<1>6. /\ left \in [faults : Nat, refusals : Nat, stops : Nat] /\ left.stops > 0
      /\ phase' = [phase EXCEPT ![p] = "stopping"] /\ sent' = sent
  BY DEF IInv, Bounded, Stop
<1>7. l \in [faults : Nat, refusals : Nat, stops : Nat] /\ l \in Left
  BY <1>5, <1>6 DEF Left
<1>8. [w EXCEPT !.left.stops = @ - 1] = x
  BY <1>5 DEF ViewType
<1> HIDE DEF l
<1>9. ViewInv(x, p, ep) /\ x.left = l
  <2>1. l.refusals = w.left.refusals /\ Spent(w.left, l)
    <3>1. l.stops = w.left.stops - 1 /\ l.faults = w.left.faults /\ l.refusals = w.left.refusals
      BY <1>5, <1>6 DEF l
    <3> QED BY <1>5, <1>6, <1>7, <3>1 DEF Spent
  <2>2. KeptOf(w, p, ep) /\ w.left \in Left /\ Frame(w, p, ep) /\ AccountOf(w, p, ep)
    BY <1>5, ViewFields DEF ViewInv, Frame
  <2> QED BY <2>1, <2>2, LeftKeeps DEF x
<1> HIDE DEF x
<1>10. Install(p, x) /\ left' = l
  BY <1>3, <1>8, <1>9 DEF Install
<1>11. Bounded'
  BY <1>6, <1>7, <1>10 DEF IInv, Bounded
<1>12. AllRun'
  <2>1. l.stops = left.stops - 1
    BY <1>5, <1>6 DEF l
  <2>2. left.stops <= MaxLeft.stops /\ MaxLeft.stops \in Nat
    BY SystemAssumption DEF IInv, Kept, InLimits
  <2>3. l.stops # MaxLeft.stops
    BY <1>6, <2>1, <2>2
  <2> QED BY <1>10, <2>3 DEF AllRun
<1> QED BY <1>6, <1>9, <1>10, <1>11, <1>12, ViewInstalled

\* joyServerWriteSendData and joyClientWriteSendData
LEMMA WriteDataKeeps ==
  ASSUME IInv, NEW p \in Proc, NEW q \in Client, p \in Server \/ p = q, WriteSendData(p, q)
  PROVE  IInv'
<1> DEFINE v == View(p)
           m == Msg(p, q, sent[p] + 1)
           w == WriteSendPkg(v, q, m)
<1>1. ViewInv(v, p, ep) /\ v.left = left
  BY ViewAtRest
<1>2. /\ sent \in [Proc -> Nat] /\ sent[p] < MaxSent[p] /\ MaxSent[p] \in Nat
      /\ sent' = [sent EXCEPT ![p] = @ + 1] /\ phase' = phase /\ Install(p, w)
      /\ \A r \in Proc : sent[r] <= MaxSent[r]
  BY SystemAssumption DEF IInv, Bounded, WriteSendData
<1>3. q \in ProcId
  BY DEF Proc, ProcId
<1>4. m \in Data /\ m \in For(q)
  BY <1>2, <1>3 DEF Msg, Data, Pkg, For
<1>5. SendRoom(v.ep, q)
  BY DEF WriteSendData, View
<1>6. m.type = "Msg" /\ m.src = p /\ m.id = sent[p] + 1
  BY DEF Msg
<1> HIDE DEF v, m
<1>7. Frame(w, p, ep) /\ Written(v, w, q, m)
  BY <1>1, <1>3, <1>4, <1>5, WriteFrame
<1> HIDE DEF w
<1>8. /\ v \in ViewType /\ w \in ViewType /\ AccountOf(v, p, ep)
      /\ w.left = v.left /\ left' = left
  BY <1>1, <1>2, <1>7 DEF ViewInv, Frame, Written, Install
<1>9. sent' \in [Proc -> Nat] /\ \A r \in Proc : sent'[r] <= MaxSent[r]
  BY <1>2
<1>10. Bounded'
  BY <1>2, <1>8, <1>9 DEF IInv, Bounded
<1> DEFINE F == StockOf(v, p, ep)
           G == StockOf(w, p, ep)
           b == InSendq(p, q)
<1>11. /\ F \in Contents /\ Once(F) /\ Counted(F, sent) /\ Own(F)
       /\ v.left.refusals <= MaxLeft.refusals
       /\ v.left.refusals = MaxLeft.refusals => Ordered(F, v.conn)
  BY <1>8 DEF AccountOf, Account
<1>12. G \in Contents
  BY <1>8, <1>11, StockTyped
<1>13. Fresh(F, G, b, m, p, sent)
  <2>1. Same(v, w, p, {b}) /\ w.ep.sendq[q] = Append(v.ep.sendq[q], m)
    <3>1. v \in ViewType /\ w \in ViewType /\ Written(v, w, q, m)
      BY <1>7, <1>8
    <3> HIDE DEF F, G
    <3> QED BY <1>3, <3>1, WrittenSame
  <2>2. \A a \in Place : a # b => G[a] = F[a]
    BY <2>1, SameStock
  <2>3. F[b] = v.ep.sendq[q] /\ G[b] = w.ep.sendq[q]
    BY <1>3, StockOfIs
  <2>4. m \in Pkg
    BY <1>4 DEF Data
  <2> HIDE DEF F, G
  <2> QED BY <1>6, <2>1, <2>2, <2>3, <2>4 DEF Fresh
<1>14. b \in Place /\ b.of = p
  BY <1>3, PlaceIs DEF InSendq
<1>15. w.conn = v.conn
  BY <1>7 DEF Written
<1>16. sent \in [Proc -> Int]
  BY <1>2
<1> HIDE DEF F, G, b
<1>17. Once(G) /\ Counted(G, sent') /\ Own(G)
  BY <1>2, <1>11, <1>12, <1>13, <1>14, <1>16, FreshKeeps
<1>18. ASSUME NEW x \in Proc, NEW y \in Proc, NEW z, Aged(F, Stage(v.conn, x, y), z)
       PROVE  Aged(G, Stage(v.conn, x, y), z)
  <2> DEFINE S == Stage(v.conn, x, y)
  <2>1. S \in [Place -> Nat]
    BY StageIs
  <2>2. ASSUME NEW c \in Place, S[b] > 0
        PROVE  S[c] <= S[b] /\ (S[c] = S[b] => c = b)
    <3>1. S[b] = 6 /\ p = x /\ q = Chain(x, y)
      BY <1>3, <2>2, StageIs DEF b
    <3>2. S[c] <= 6 /\ (S[c] = 6 => c.at = "sendq" /\ c.of = x /\ c.by = Chain(x, y))
      BY DEF Stage
    <3>3. S[c] = 6 => c = b
      <4>1. c.at = "sendq" => c = InSendq(c.of, c.by)
        BY PlaceIs DEF InHandled, InRecvq, InRecvbuf, InWire, InSendbuf
      <4> QED BY <3>1, <3>2, <4>1 DEF b
    <3> HIDE DEF S
    <3> QED BY <3>1, <3>2, <3>3
  <2> HIDE DEF S
  <2>3. Aged(F, S, z)
    BY <1>18 DEF S
  <2>4. Aged(G, S, z)
    BY <1>11, <1>12, <1>13, <1>14, <1>16, <2>1, <2>2, <2>3, FreshKeeps
  <2> QED BY <2>4 DEF S
<1>19. v.left.refusals = MaxLeft.refusals => Ordered(G, v.conn)
  BY <1>11, <1>18 DEF Ordered, Proc
<1>20. Account(G, w.conn, w.left.refusals, sent')
  BY <1>8, <1>11, <1>12, <1>15, <1>17, <1>19 DEF Account
<1>21. KeptOf(v, p, ep)
  BY <1>1 DEF ViewInv
<1>22. ASSUME w.left = MaxLeft
       PROVE  (\A k \in Conn : Healthy(NodesAt(w, p, ep, k), w.conn[k])) /\ All(G, sent')
  <2>1. (\A k \in Conn : Healthy(NodesAt(v, p, ep, k), v.conn[k])) /\ All(F, sent)
    BY <1>8, <1>21, <1>22 DEF KeptOf, F
  <2>2. \A k \in Conn : NodesAt(w, p, ep, k) = NodesAt(v, p, ep, k)
    BY <1>7 DEF Written, NodesAt
  <2>3. sent[p] >= 0
    BY <1>2
  <2>4. All(G, [sent EXCEPT ![p] = @ + 1])
    BY <1>11, <1>13, <1>14, <1>16, <2>1, <2>3, AllFresh
  <2> QED BY <1>2, <1>15, <2>1, <2>2, <2>4
<1>23. InLimits(w.left) /\ AllRun'
  BY <1>2, <1>8, <1>21 DEF KeptOf, IInv, Kept, AllRun
<1> QED BY <1>2, <1>7, <1>10, <1>20, <1>22, <1>23, InstallKeeps DEF G

-----------------------------------------------------------------------------
(* The environment. *)

\* A step of the environment empties buffers and wires, or the whole endpoint of one
\* process, and frees connections over which nobody has something to send.
Empties(p) ==
  /\ ep' = [ep EXCEPT ![p] = ep'[p]] /\ ep'[p] \in {ep[p], InitEp}
  /\ handled' = handled /\ sent' = sent /\ left'.refusals = left.refusals
  /\ \A k \in Conn : \A q \in Proc :
       conn'[k].wire[q] = conn[k].wire[q] \/ conn'[k].wire[q] = <<>>
  /\ \A k \in Conn : \/ conn'[k].client = conn[k].client /\ conn'[k].server = conn[k].server
                     \/ \A q \in Proc : SendBufOf(ep'[q], k) = <<>>

\* Then the account still stands.
LEMMA EmptiesKeeps ==
  ASSUME IInv, NEW p \in Proc, Empties(p), Typed', Bounded'
  PROVE  Account(Stock(ep', conn', handled'), conn', left'.refusals, sent')
<1> DEFINE v == View(p)
           w == [ep |-> ep'[p], conn |-> conn', handled |-> handled', left |-> left',
                 moved |-> 0, dealt |-> 0]
<1>1. ViewInv(v, p, ep)
  BY ViewAtRest
<1>2. /\ v.ep = ep[p] /\ v.conn = conn /\ v.handled = handled /\ v.left = left
  BY DEF View
<1>3. w \in ViewType
  BY DEF Typed, Bounded, ViewType, Left
<1>4. /\ w.ep = ep'[p] /\ w.conn = conn' /\ w.handled = handled' /\ w.left = left'
  OBVIOUS
<1> HIDE DEF v, w
<1> DEFINE F == StockOf(v, p, ep)
           G == StockOf(w, p, ep)
<1>5. Eps(w, p, ep) = ep'
  <2>1. ep' = [ep EXCEPT ![p] = w.ep] /\ ep \in [Proc -> Endpoint]
    BY <1>4 DEF Empties, IInv, Typed
  <2>2. Eps(w, p, ep) = [ep EXCEPT ![p] = w.ep]
    BY <2>1 DEF Eps
  <2> QED BY <2>1, <2>2
<1>6. G = Stock(ep', conn', handled')
  BY <1>4, <1>5 DEF StockOf
<1>7. \A k \in Conn : ~IsOpen(InitEp, k)
  BY DEF InitEp, IsOpen
<1>8. /\ w.ep.recvq = v.ep.recvq \/ w.ep.recvq = <<>>
      /\ \A r \in ProcId : w.ep.sendq[r] = v.ep.sendq[r] \/ w.ep.sendq[r] = <<>>
      /\ \A k \in Conn : RecvBufOf(w.ep, k) = RecvBufOf(v.ep, k) \/ RecvBufOf(w.ep, k) = <<>>
      /\ \A k \in Conn : SendBufOf(w.ep, k) = SendBufOf(v.ep, k) \/ SendBufOf(w.ep, k) = <<>>
  <2>1. CASE w.ep = v.ep
    BY <2>1
  <2>2. CASE w.ep = InitEp
    <3>1. w.ep.recvq = <<>> /\ \A r \in ProcId : w.ep.sendq[r] = <<>>
      BY <2>2 DEF InitEp
    <3> QED BY <1>7, <2>2, <3>1 DEF RecvBufOf, SendBufOf
  <2> QED BY <1>2, <1>4, <2>1, <2>2 DEF Empties
<1>9. ASSUME NEW a \in Place
      PROVE  G[a] = F[a] \/ G[a] = <<>>
  <2>1. a.of \in Proc
    BY PlaceIs
  <2>2. CASE a = InHandled(a.of)
    BY <1>2, <1>4, <2>1, <2>2, StockOfIs DEF Empties
  <2>3. CASE a.by \in Conn /\ a = InWire(a.of, a.by)
    BY <1>2, <1>4, <2>1, <2>3, StockOfIs DEF Empties
  <2>4. CASE a = InRecvq(a.of)
    BY <1>8, <2>1, <2>4, StockOfIs
  <2>5. CASE a.by \in ProcId /\ a = InSendq(a.of, a.by)
    BY <1>8, <2>1, <2>5, StockOfIs
  <2>6. CASE a.by \in Conn /\ a = InRecvbuf(a.of, a.by)
    <3>1. RecvBufOf(w.ep, a.by) = RecvBufOf(v.ep, a.by) \/ RecvBufOf(w.ep, a.by) = <<>>
      BY <1>8, <2>6
    <3> QED BY <2>1, <2>6, <3>1, StockOfIs
  <2>7. CASE a.by \in Conn /\ a = InSendbuf(a.of, a.by)
    <3>1. SendBufOf(w.ep, a.by) = SendBufOf(v.ep, a.by) \/ SendBufOf(w.ep, a.by) = <<>>
      BY <1>8, <2>7
    <3> QED BY <2>1, <2>7, <3>1, StockOfIs
  <2> QED BY <2>2, <2>3, <2>4, <2>5, <2>6, <2>7, PlaceIs
<1>10. ASSUME NEW k \in Conn
       PROVE  \/ w.conn[k].client = v.conn[k].client /\ w.conn[k].server = v.conn[k].server
              \/ \A q \in Proc : G[InSendbuf(q, k)] = <<>>
  <2>1. \A q \in Proc : G[InSendbuf(q, k)] = SendBufOf(ep'[q], k)
    BY <1>6, StockIs
  <2> QED BY <1>2, <1>4, <2>1 DEF Empties
<1> HIDE DEF F, G
<1>11. \A a \in Place : Part(G[a], F[a])
  BY <1>9, PartSame
<1>12. AccountOf(w, p, ep)
  <2>1. AccountOf(v, p, ep) /\ w.left.refusals = v.left.refusals
    BY <1>1, <1>2, <1>4 DEF ViewInv, Empties
  <2> QED BY <1>3, <1>10, <1>11, <2>1, AccountLess DEF F, G
<1>13. sent' = sent
  BY DEF Empties
<1> QED BY <1>4, <1>6, <1>12, <1>13 DEF AccountOf, G

\* A process ends and starts again.
LEMMA RebornKeeps ==
  ASSUME IInv, NEW p \in Proc, Reborn(p), left' \in [faults : Nat, refusals : Nat, stops : Nat],
         left'.refusals = left.refusals, left'.stops = left.stops,
         InLimits(left'), left' # MaxLeft
  PROVE  IInv'
<1>1. /\ ep' = [ep EXCEPT ![p] = InitEp]
      /\ conn' = [k \in Conn |-> IF p \in conn[k].open THEN ShutEnd(conn[k], p) ELSE conn[k]]
      /\ phase' = [phase EXCEPT ![p] = "run"] /\ handled' = handled /\ sent' = sent
  BY DEF Reborn
<1>2. /\ ep \in [Proc -> Endpoint] /\ conn \in [Conn -> Connection]
      /\ handled \in [Proc -> Seq(Pkg)]
  BY DEF IInv, Typed
<1>3. LocalInv(InitEp, p) /\ InitEp \in Endpoint /\ \A k \in Conn : InitEp.nodes[k] = NoNode
  BY InitLocal DEF LocalInv, InitEp
<1>4. ep' \in [Proc -> Endpoint] /\ \A q \in Proc : LocalInv(ep'[q], q)
  BY <1>1, <1>2, <1>3 DEF IInv
<1>5. ASSUME NEW k \in Conn
      PROVE  LinkInv(LinksAt(k)', conn'[k]) /\ conn'[k] \in Connection
  <2> DEFINE ns == LinksAt(k)
             cn == conn[k]
  <2>1. LinkInv(ns, cn) /\ ns[p] = ep[p].nodes[k] /\ ns \in [Proc -> Node]
    BY DEF IInv, LinksAt, LinkInv
  <2>2. LinksAt(k)' = [ns EXCEPT ![p] = NoNode]
    <3>1. \A q \in Proc : ep'[q].nodes[k] = IF q = p THEN NoNode ELSE ep[q].nodes[k]
      BY <1>1, <1>2, <1>3
    <3> QED BY <3>1 DEF LinksAt
  <2> HIDE DEF ns
  <2>3. CASE p \in cn.open
    <3>1. LinkInv([ns EXCEPT ![p] = NoNode], ShutEnd(cn, p))
      BY <2>1, <2>3, LinkShut
    <3>2. conn'[k] = ShutEnd(cn, p)
      BY <1>1, <2>3
    <3> QED BY <2>2, <3>1, <3>2 DEF LinkInv
  <2>4. CASE p \notin cn.open
    <3>1. ns[p] = NoNode
      BY <2>1, <2>4 DEF LinkInv, Socketed
    <3>2. [ns EXCEPT ![p] = NoNode] = ns
      BY <2>1, <3>1
    <3>3. conn'[k] = cn
      BY <1>1, <2>4
    <3> QED BY <2>1, <2>2, <3>2, <3>3 DEF LinkInv
  <2> QED BY <2>3, <2>4
<1>6. conn' \in [Conn -> Connection]
  BY <1>1, <1>5
<1>7. Typed'
  BY <1>1, <1>2, <1>4, <1>6 DEF Typed
<1>8. Bounded'
  BY <1>1 DEF IInv, Bounded
<1>9. Delivered(handled')
  BY <1>1 DEF IInv
<1>10. Empties(p)
  <2>1. ep' = [ep EXCEPT ![p] = ep'[p]] /\ ep'[p] = InitEp
    BY <1>1, <1>2
  <2>2. ASSUME NEW k \in Conn
        PROVE  /\ \A q \in Proc : conn'[k].wire[q] = conn[k].wire[q] \/ conn'[k].wire[q] = <<>>
               /\ \/ conn'[k].client = conn[k].client /\ conn'[k].server = conn[k].server
                  \/ conn'[k] = FreeConn
    <3> DEFINE cn == conn[k]
               dn == [cn EXCEPT !.open = @ \ {p}, !.wire[p] = <<>>]
    <3>1. cn \in Connection /\ conn'[k] \in {cn, ShutEnd(cn, p)}
      BY <1>1, <1>2
    <3> HIDE DEF cn
    <3>2. ShutEnd(cn, p) \in {FreeConn, dn}
      BY DEF ShutEnd
    <3>3. \A q \in Proc : FreeConn.wire[q] = <<>>
      BY DEF FreeConn
    <3>4. /\ dn.client = cn.client /\ dn.server = cn.server
          /\ \A q \in Proc : dn.wire[q] = cn.wire[q] \/ dn.wire[q] = <<>>
      BY <3>1 DEF Connection
    <3> HIDE DEF dn
    <3> QED BY <3>1, <3>2, <3>3, <3>4 DEF cn
  <2>3. ASSUME NEW k \in Conn, conn'[k] = FreeConn, NEW q \in Proc
        PROVE  SendBufOf(ep'[q], k) = <<>>
    <3>1. LinkInv(LinksAt(k)', FreeConn)
      BY <1>5, <2>3
    <3>2. LinksAt(k)'[q] = NoNode
      BY <3>1, FreeLink
    <3>3. ep'[q].nodes[k] = NoNode
      BY <3>2 DEF LinksAt
    <3> QED BY <3>3 DEF SendBufOf, IsOpen
  <2> QED BY <1>1, <2>1, <2>2, <2>3 DEF Empties
<1>11. Account(Stock(ep', conn', handled'), conn', left'.refusals, sent')
  BY <1>7, <1>8, <1>10, EmptiesKeeps
<1>12. Kept'
  <2>1. AllRun'
    BY <1>1 DEF IInv, Kept, AllRun, Bounded
  <2> QED BY <2>1 DEF Kept
<1> QED BY <1>4, <1>5, <1>7, <1>8, <1>9, <1>11, <1>12 DEF IInv

\* After a fault not all is left.
LEMMA FaultSpent ==
  ASSUME IInv, left.faults > 0, left' = [left EXCEPT !.faults = @ - 1]
  PROVE  InLimits(left') /\ left' # MaxLeft /\ left'.stops = left.stops
<1>1. left \in [faults : Nat, refusals : Nat, stops : Nat] /\ InLimits(left)
  BY DEF IInv, Bounded, Kept
<1>2. /\ left'.faults = left.faults - 1 /\ left'.refusals = left.refusals
      /\ left'.stops = left.stops
  BY <1>1
<1>3. left.faults \in Nat /\ left.faults <= MaxLeft.faults /\ MaxLeft.faults \in Nat
  BY <1>1, SystemAssumption DEF InLimits
<1>4. left'.faults < MaxLeft.faults
  BY <1>2, <1>3
<1> QED BY <1>1, <1>2, <1>3, <1>4 DEF InLimits

\* A step of the network alone.
LEMMA NetworkKeeps ==
  ASSUME IInv, NEW k \in Conn, conn[k] # FreeConn, NEW dn, conn' = [conn EXCEPT ![k] = dn],
         LinkInv(LinksAt(k), conn[k]) => LinkInv(LinksAt(k), dn),
         dn.client = conn[k].client, dn.server = conn[k].server,
         \A q \in Proc : dn.wire[q] = conn[k].wire[q] \/ dn.wire[q] = <<>>,
         UNCHANGED <<ep, handled, phase, sent>>, left'.refusals = left.refusals,
         left' \in [faults : Nat, refusals : Nat, stops : Nat], Kept'
  PROVE  IInv'
<1>1. LinkInv(LinksAt(k), dn) /\ dn \in Connection
  BY DEF IInv, LinkInv
<1>2. conn \in [Conn -> Connection] /\ conn' \in [Conn -> Connection]
  BY <1>1 DEF IInv, Typed
<1>3. \A j \in Conn : LinksAt(j)' = LinksAt(j)
  BY DEF LinksAt
<1>4. \A j \in Conn : LinkInv(LinksAt(j)', conn'[j])
  BY <1>1, <1>2, <1>3 DEF IInv
<1>5. Typed' /\ Bounded'
  BY <1>2 DEF IInv, Typed, Bounded
<1> DEFINE p == conn[k].server
<1>6. p \in Proc
  BY DEF IInv, LinkInv, Ends, Proc
<1> HIDE DEF p
<1>7. Empties(p)
  <2>1. ep' = [ep EXCEPT ![p] = ep'[p]] /\ ep'[p] = ep[p]
    BY <1>6 DEF IInv, Typed
  <2>2. \A j \in Conn : conn'[j] = IF j = k THEN dn ELSE conn[j]
    BY <1>2
  <2> QED BY <2>1, <2>2 DEF Empties
<1>8. Account(Stock(ep', conn', handled'), conn', left'.refusals, sent')
  BY <1>5, <1>6, <1>7, EmptiesKeeps
<1> QED BY <1>4, <1>5, <1>8 DEF IInv

\* The kernels complete a connection.
LEMMA EstablishKeeps ==
  ASSUME IInv, NEW k \in Conn, Establish(k)
  PROVE  IInv'
<1> DEFINE cn == conn[k]
           dn == [cn EXCEPT !.up = TRUE, !.open = @ \cup {cn.server}]
<1>1. /\ cn # FreeConn /\ ~cn.up
      /\ UNCHANGED <<ep, handled, left, phase, sent>>
      /\ conn' = [conn EXCEPT ![k].up = TRUE, ![k].open = @ \cup {cn.server}]
  BY DEF Establish
<1>2. conn \in [Conn -> Connection] /\ cn \in Connection
  BY DEF IInv, Typed
<1>3. conn' = [conn EXCEPT ![k] = dn]
  BY <1>1, <1>2 DEF Connection
<1>4. LinkInv(LinksAt(k), cn) => LinkInv(LinksAt(k), dn)
  BY <1>1, LinkEstablish
<1>5. left' \in [faults : Nat, refusals : Nat, stops : Nat] /\ left' = left
  BY <1>1 DEF IInv, Bounded
<1>6. /\ dn.client = cn.client /\ dn.server = cn.server /\ dn.wire = cn.wire
      /\ dn.lost = cn.lost /\ dn.broken = cn.broken
      /\ dn.up = TRUE /\ dn.open = cn.open \cup {cn.server}
  BY <1>2 DEF Connection
<1> HIDE DEF dn
<1>7. Healthy(LinksAt(k), cn) => Healthy(LinksAt(k), dn)
  BY <1>1, <1>6 DEF Healthy, Unspoken
<1>8. \A j \in Conn : LinksAt(j)' = LinksAt(j) /\ conn'[j] = IF j = k THEN dn ELSE conn[j]
  BY <1>1, <1>2, <1>3 DEF LinksAt
<1>9. Stock(ep', conn', handled') = Stock(ep, conn, handled)
  <2>1. \A j \in Conn : conn'[j].wire = conn[j].wire
    BY <1>6, <1>8
  <2>2. \A a \in Place : Content(ep', conn', handled', a) = Content(ep, conn, handled, a)
    BY <1>1, <2>1 DEF Content, Place
  <2> QED BY <2>2 DEF Stock
<1>10. Kept'
  <2>1. AllRun' /\ InLimits(left')
    BY <1>1 DEF IInv, Kept, AllRun
  <2>2. ASSUME left' = MaxLeft
        PROVE  /\ \A j \in Conn : Healthy(LinksAt(j)', conn'[j])
               /\ All(Stock(ep', conn', handled'), sent')
    BY <1>1, <1>7, <1>8, <1>9, <2>2 DEF IInv, Kept
  <2> QED BY <2>1, <2>2 DEF Kept
<1> QED BY <1>1, <1>3, <1>4, <1>5, <1>6, <1>10, NetworkKeeps

\* A connection is reset.
LEMMA ResetKeeps ==
  ASSUME IInv, NEW k \in Conn, Reset(k)
  PROVE  IInv'
<1> DEFINE cn   == conn[k]
           wire == [q \in Proc |-> <<>>]
           dn   == [cn EXCEPT !.broken = TRUE, !.wire = wire]
<1>1. /\ left.faults > 0 /\ cn.up
      /\ UNCHANGED <<ep, handled, phase, sent>>
      /\ conn' = [conn EXCEPT ![k].broken = TRUE, ![k].wire = wire]
      /\ left' = [left EXCEPT !.faults = @ - 1]
  BY DEF Reset
<1>2. conn \in [Conn -> Connection] /\ cn \in Connection
  BY DEF IInv, Typed
<1>3. conn' = [conn EXCEPT ![k] = dn]
  BY <1>1, <1>2 DEF Connection
<1>4. cn # FreeConn
  BY <1>1 DEF FreeConn
<1>5. wire \in [Proc -> Seq(Pkg)] /\ \A q \in Proc : wire[q] = <<>>
  OBVIOUS
<1> HIDE DEF wire
<1>6. LinkInv(LinksAt(k), cn) => LinkInv(LinksAt(k), dn)
  BY <1>4, <1>5, LinkBreak
<1>7. left' \in [faults : Nat, refusals : Nat, stops : Nat] /\ left'.refusals = left.refusals
  BY <1>1 DEF IInv, Bounded
<1>8. dn.client = cn.client /\ dn.server = cn.server /\ dn.wire = wire
  BY <1>2 DEF Connection
<1> HIDE DEF dn
<1>9. \A q \in Proc : dn.wire[q] = cn.wire[q] \/ dn.wire[q] = <<>>
  BY <1>5, <1>8
<1>10. Kept'
  <2>1. InLimits(left') /\ left' # MaxLeft /\ left'.stops = left.stops
    BY <1>1, FaultSpent
  <2> QED BY <1>1, <2>1 DEF IInv, Kept, AllRun
<1> QED BY <1>1, <1>3, <1>4, <1>6, <1>7, <1>8, <1>9, <1>10, NetworkKeeps

\* Every step keeps the invariant.
LEMMA NextIInv == IInv /\ [Next]_vars => IInv'
<1> SUFFICES ASSUME IInv, [Next]_vars
             PROVE  IInv'
  OBVIOUS
<1>1. ASSUME NEW p \in Proc, Restart(p)
      PROVE  IInv'
  <2>1. left' = left /\ phase[p] = "done" /\ Reborn(p)
    BY <1>1 DEF Restart
  <2>2. left' # MaxLeft /\ InLimits(left')
    BY <2>1 DEF IInv, Kept, AllRun
  <2>3. left' \in [faults : Nat, refusals : Nat, stops : Nat]
    BY <2>1 DEF IInv, Bounded
  <2> QED BY <2>1, <2>2, <2>3, RebornKeeps
<1>2. ASSUME NEW p \in Proc, Crash(p)
      PROVE  IInv'
  <2>1. left' \in [faults : Nat, refusals : Nat, stops : Nat] /\ left'.refusals = left.refusals
    BY <1>2 DEF Crash, IInv, Bounded
  <2>2. InLimits(left') /\ left' # MaxLeft /\ left'.stops = left.stops
    BY <1>2, FaultSpent DEF Crash
  <2> QED BY <1>2, <2>1, <2>2, RebornKeeps DEF Crash
<1>3. CASE \E p \in Proc : ProcRecvData(p) \/ ReadRecvData(p) \/ ProcSendData(p)
                           \/ Stop(p) \/ CanStop(p) \/ Restart(p) \/ Crash(p)
  BY <1>1, <1>2, <1>3, CallsKeep, StopKeeps
<1>4. CASE \E c \in Client : WriteSendData(c, c) \/ \E s \in Server : ConnectTcp(c, s)
  <2>1. PICK c \in Client : WriteSendData(c, c) \/ \E s \in Server : ConnectTcp(c, s)
    BY <1>4
  <2>2. c \in Proc
    BY DEF Proc
  <2> QED BY <2>1, <2>2, CallsKeep, WriteDataKeeps
<1>5. CASE \E s \in Server, c \in Client : WriteSendData(s, c)
  BY <1>5, WriteDataKeeps DEF Proc
<1>6. CASE \E k \in Conn : Establish(k) \/ Reset(k)
  BY <1>6, EstablishKeeps, ResetKeeps
<1>7. CASE UNCHANGED vars
  <2>1. /\ ep' = ep /\ conn' = conn /\ handled' = handled /\ left' = left
        /\ phase' = phase /\ sent' = sent
    BY <1>7 DEF vars
  <2> QED BY <2>1 DEF IInv, Bounded, Typed, LinksAt, Kept, AllRun
<1> QED BY <1>3, <1>4, <1>5, <1>6, <1>7 DEF Next

\* The invariant holds of every behaviour.
THEOREM InvariantHolds == Spec => []IInv
BY InitIInv, NextIInv, PTL DEF Spec

-----------------------------------------------------------------------------
(* The theorems. *)

\* No buffer, chain or pool of any process ever holds more than fits in it, and no
\* wire more than the kernel takes, whatever the calls, faults and restarts.
THEOREM TypeCorrect == Spec => []TypeOK
<1>1. IInv => TypeOK
  <2> SUFFICES ASSUME IInv
               PROVE  TypeOK
    OBVIOUS
  <2>1. ASSUME NEW p \in Proc
        PROVE  /\ sent[p] \in 0..MaxSent[p]
               /\ Used(ep[p]) <= BlockNum
               /\ \A q \in ProcId : Len(ep[p].sendq[q]) <= BlockChainLen
    <3>1. sent[p] \in Nat /\ sent[p] <= MaxSent[p] /\ MaxSent[p] \in Nat
      BY SystemAssumption DEF IInv, Bounded
    <3> QED BY <3>1 DEF IInv, LocalInv, Sized
  <2>2. ASSUME NEW p \in Proc, NEW k \in Conn
        PROVE  Len(conn[k].wire[p]) <= WireNum
    BY DEF IInv, LinkInv, Wires
  <2>3. ASSUME NEW p \in Proc, NEW k \in Conn, IsOpen(ep[p], k)
        PROVE  LET node == ep[p].nodes[k]
               IN  /\ node.status \in {"Connecting", "ShakeHand", "Connected", "Stop"}
                   /\ node.procid \in ProcId
                   /\ Len(node.recvbuf) <= TempNum /\ Len(node.sendbuf) <= TempNum
    <3>1. ep[p].nodes[k] \in OpenNode
      BY <2>3 DEF IInv, Typed, Endpoint, Node, IsOpen
    <3>2. Socketed(LinksAt(k), conn[k], p) /\ LinksAt(k)[p] = ep[p].nodes[k]
      BY DEF IInv, LinkInv, LinksAt
    <3>3. /\ Len(ep[p].nodes[k].recvbuf) <= TempNum
          /\ Len(ep[p].nodes[k].sendbuf) <= TempNum
      BY <2>3, <3>2 DEF Socketed, IsOpen
    <3> QED BY <3>1, <3>3 DEF OpenNode
  <2>4. /\ left \in [faults : Nat, refusals : Nat, stops : Nat]
        /\ phase \in [Proc -> {"run", "stopping", "done"}]
    BY DEF IInv, Bounded
  <2> QED BY <2>1, <2>2, <2>3, <2>4 DEF TypeOK
<1> QED BY <1>1, InvariantHolds, PTL

\* The index, the list of nodes and the sockets of a process always agree, across
\* handshakes, closes, crashes and new connections.
THEOREM RegistryStaysConsistent == Spec => []RegistryConsistent
<1>1. IInv => RegistryConsistent
  <2> SUFFICES ASSUME IInv, NEW p \in Proc
               PROVE  LET e == ep[p] IN
                 /\ IsInjective(e.used)
                 /\ \A k \in Conn : IsOpen(e, k) <=> \E i \in DOMAIN e.used : e.used[i] = k
                 /\ \A q \in ProcId : e.nodeidx[q] # NoConn =>
                      IsOpen(e, e.nodeidx[q]) /\ e.nodes[e.nodeidx[q]].procid = q
                 /\ \A k \in Conn : IsOpen(e, k) =>
                      /\ p \in conn[k].open
                      /\ e.nodes[k].status \in {"Connected", "Stop"}
                           => e.nodeidx[e.nodes[k].procid] = k
                 /\ \A k \in Conn : p \in conn[k].open => IsOpen(e, k) \/ p \in Server
    BY DEF RegistryConsistent
  <2>1. Listed(ep[p]) /\ Indexed(ep[p], p)
    BY DEF IInv, LocalInv
  <2>2. IsInjective(ep[p].used)
    BY <2>1 DEF Listed, Distinct, IsInjective
  <2>3. ASSUME NEW k \in Conn
        PROVE  /\ IsOpen(ep[p], k) => p \in conn[k].open
               /\ p \in conn[k].open => IsOpen(ep[p], k) \/ p \in Server
    <3>1. Socketed(LinksAt(k), conn[k], p) /\ Quiet(LinksAt(k), conn[k], p)
      BY DEF IInv, LinkInv
    <3>2. LinksAt(k)[p] = ep[p].nodes[k]
      BY DEF LinksAt
    <3> QED BY <3>1, <3>2 DEF Socketed, Quiet, IsOpen
  <2> QED BY <2>1, <2>2, <2>3 DEF Listed, Indexed, InIndex
<1> QED BY <1>1, InvariantHolds, PTL

\* At the other end of a live connection over which a client is connected, the
\* server has a node that its index finds under the client's procid.
THEOREM ConnectedStaysRegistered == Spec => []ConnectedIsRegistered
<1>1. IInv => ConnectedIsRegistered
  <2> SUFFICES ASSUME IInv, NEW c \in Client, NEW k \in Conn,
                      ep[c].nodes[k].status = "Connected", ~Gone(conn[k], c)
               PROVE  LET e == ep[conn[k].server] IN
                      e.nodes[k].status \in {"Connected", "Stop"} /\ e.nodeidx[c] = k
    BY DEF ConnectedIsRegistered
  <2> DEFINE cn == conn[k]
             s  == cn.server
             ns == LinksAt(k)
  <2>1. LinkInv(ns, cn) /\ cn \in Connection /\ c \in Proc
    BY DEF IInv, LinkInv, Proc
  <2>2. ns[c] = ep[c].nodes[k] /\ ns[c] # NoNode /\ ns[c].status = "Connected"
    BY <2>1 DEF LinksAt, NoNode
  <2>3. c \in cn.open
    BY <2>1, <2>2 DEF LinkInv, Socketed
  <2> HIDE DEF ns, cn
  <2>4. s \in Server /\ s \in Proc /\ c = cn.client /\ Peer(cn, c) = s /\ cn # FreeConn
    <3>1. /\ cn # FreeConn /\ cn.client \in Client /\ cn.server \in Server
          /\ cn.server \in Proc /\ cn.client \notin Server /\ cn.server \notin Client
          /\ \/ c = cn.client /\ Peer(cn, c) = cn.server
             \/ c = cn.server /\ Peer(cn, c) = cn.client
      BY <2>1, <2>3, EndsOf
    <3> QED BY <3>1
  <2>5. cn.broken = FALSE /\ s \in cn.open
    BY <2>1, <2>4 DEF Gone, Connection, cn
  <2>6. Heard(ns[c], cn.wire[c])
    BY <2>2 DEF Heard
  <2>7. ns[s].status \in {"Connected", "Stop"}
    BY <2>1, <2>2, <2>4, <2>5, <2>6 DEF LinkInv, Greeted
  <2>8. ns[s] = ep[s].nodes[k]
    BY <2>4 DEF ns, LinksAt
  <2> HIDE DEF s
  <2>9. IsOpen(ep[s], k) /\ ns[s] # NoNode
    BY <2>7, <2>8 DEF IsOpen, NoNode
  <2>10. ep[s].nodes[k].procid \in {NoProc, c}
    BY <2>1, <2>4, <2>8, <2>9 DEF LinkInv, Introduced
  <2>11. ep[s].nodeidx[ep[s].nodes[k].procid] = k /\ ep[s].nodeidx[NoProc] = NoConn
    <3>1. Indexed(ep[s], s)
      BY <2>4 DEF IInv, LocalInv
    <3> QED BY <2>7, <2>8, <2>9, <3>1 DEF Indexed, InIndex
  <2>12. ep[s].nodeidx[c] = k
    BY <2>10, <2>11, NetAssumption
  <2> QED BY <2>7, <2>8, <2>12 DEF s, cn
<1> QED BY <1>1, InvariantHolds, PTL

\* A client gets what was written to its chain and nothing else.
THEOREM OnlyAddresseeGets == Spec => []OnlyToAddressee
<1>1. IInv => OnlyToAddressee
  <2> SUFFICES ASSUME IInv, NEW c \in Client, NEW i \in DOMAIN handled[c]
               PROVE  handled[c][i].chain = c
    BY DEF OnlyToAddressee
  <2>1. handled[c] \in Seq(MsgFor(c))
    BY DEF IInv, Delivered, Proc
  <2>2. handled[c][i] \in MsgFor(c)
    BY <2>1, LenProperties
  <2> QED BY <2>2 DEF MsgFor, For
<1> QED BY <1>1, InvariantHolds, PTL

\* No message is in two places or twice in one, and none is handled by two processes
\* or twice by one, whatever is resent, reset, crashed or sent over another node.
THEOREM NoMessageTwice == Spec => []OneCopy
<1>1. IInv => OneCopy
  BY AccountOneCopy DEF IInv, Account
<1> QED BY <1>1, InvariantHolds, PTL

\* As long as nothing has been broken, refused or stopped, every message that was
\* accepted is in one of the places on its way, or has been handled.
THEOREM NothingIsLost == Spec => []NothingLost
<1>1. IInv => NothingLost
  BY AllNothingLost DEF IInv, Kept
<1> QED BY <1>1, InvariantHolds, PTL

\* What a process handles of its peer, and what is on its way to it, has no message
\* twice, and is in the order of sending as long as no callback has refused one.
THEOREM ArrivesInOrder == Spec => []InOrderOnce
<1>1. IInv => InOrderOnce
  <2> SUFFICES ASSUME IInv, NEW k \in Conn, conn[k].client # NoProc,
                      NEW p \in {conn[k].client, conn[k].server}
               PROVE  LET way == OnTheWay(p, Peer(conn[k], p), k)
                      IN  \A i, j \in DOMAIN way :
                            i < j /\ SentBy(way[i], p) /\ SentBy(way[j], p) =>
                              /\ way[i].id # way[j].id
                              /\ left.refusals = MaxLeft.refusals => way[i].id < way[j].id
    BY DEF InOrderOnce
  <2> DEFINE q == Peer(conn[k], p)
             F == Stock(ep, conn, handled)
  <2>1. conn[k] # FreeConn /\ Ends(conn[k])
    BY DEF IInv, LinkInv, FreeConn
  <2>2. conn[k].client \in Client /\ conn[k].server \in Server
    BY <2>1 DEF Ends
  <2>3. (p \in Client /\ q \in Server) \/ (p \in Server /\ q \in Client)
    BY <2>2, NetAssumption DEF Peer
  <2>4. F \in Contents /\ Once(F) /\ (left.refusals = MaxLeft.refusals => Ordered(F, conn))
    BY DEF IInv, Account
  <2>5. left.refusals = MaxLeft.refusals => Aged(F, Stage(conn, p, q), p)
    BY <2>3, <2>4 DEF Ordered
  <2> DEFINE way == OnTheWay(p, q, k)
  <2> SUFFICES ASSUME NEW i \in DOMAIN way, NEW j \in DOMAIN way,
                      i < j, SentBy(way[i], p), SentBy(way[j], p)
               PROVE  /\ way[i].id # way[j].id
                      /\ left.refusals = MaxLeft.refusals => way[i].id < way[j].id
    OBVIOUS
  <2>6. p \in Proc /\ q \in Proc /\ Peer(conn[k], p) = q
    BY <2>3 DEF Proc
  <2> HIDE DEF q
  <2>7. /\ way[i].id # way[j].id
        /\ Aged(F, Stage(conn, p, q), p) => way[i].id < way[j].id
    BY <2>4, <2>6, WayOrder
  <2> QED BY <2>5, <2>7
<1> QED BY <1>1, InvariantHolds, PTL
=============================================================================
