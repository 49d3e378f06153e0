------------------------------ MODULE ContainerProofs ------------------------------
(***************************************************************************)
(* Proofs about what holds the program's items: the ring of a modem's      *)
(* messages (MsgRing), a queue for every number of slots although it has   *)
(* no lock and its reader's index leaves the ring for a moment; the list   *)
(* (DList), for any nodes linked as its callers mean it; and the table of  *)
(* sessions (OssNet), for any clients and any size, which never has two    *)
(* sessions or a dead one in a slot that is freed and taken again.         *)
(***************************************************************************)
EXTENDS MsgRing, DList, OssNet, SequenceTheorems, TLAPS

-----------------------------------------------------------------------------
(* DList: sequences of nodes *)

\* Sequence m with s before its position i.
Put(m, i, s) == SubSeq(m, 1, i - 1) \o <<s>> \o SubSeq(m, i, Len(m))

LEMMA Inserted ==
  ASSUME NEW S, NEW m \in Seq(S), NEW s \in S, NEW i \in 1 .. Len(m) + 1,
         NEW t, t = Put(m, i, s)
  PROVE  /\ t \in Seq(S) /\ Len(t) = Len(m) + 1
         /\ \A k \in 1 .. i - 1 : t[k] = m[k]
         /\ t[i] = s
         /\ \A k \in i .. Len(m) : t[k + 1] = m[k]
<1> DEFINE n == Len(m)
           a == SubSeq(m, 1, i - 1)
           z == SubSeq(m, i, n)
<1>1. n \in Nat /\ i \in Nat /\ 1 <= i /\ i <= n + 1 /\ m \in [1 .. n -> S]
  OBVIOUS
<1> HIDE DEF n
<1>2. /\ a \in Seq(S) /\ Len(a) = i - 1
      /\ \A k \in 1 .. i - 1 : a[k] = m[k]
  <2>1. 1 \in Int /\ i - 1 \in Int /\ \A k \in 1 .. i - 1 : m[k] \in S
    BY <1>1
  <2>2. /\ a \in Seq(S) /\ Len(a) = IF 1 <= i - 1 THEN (i - 1) - 1 + 1 ELSE 0
        /\ \A k \in 1 .. (i - 1) - 1 + 1 : a[k] = m[1 + k - 1]
    BY <2>1, SubSeqProperties
  <2> HIDE DEF a
  <2> QED
    BY <1>1, <2>2
<1>3. /\ z \in Seq(S) /\ Len(z) = n - i + 1
      /\ \A k \in 1 .. n - i + 1 : z[k] = m[i + k - 1]
  <2>1. i \in Int /\ n \in Int /\ \A k \in i .. n : m[k] \in S
    BY <1>1
  <2>2. /\ z \in Seq(S) /\ Len(z) = IF i <= n THEN n - i + 1 ELSE 0
        /\ \A k \in 1 .. n - i + 1 : z[k] = m[i + k - 1]
    BY <2>1, SubSeqProperties
  <2> HIDE DEF z
  <2> QED
    BY <1>1, <2>2
<1> HIDE DEF a, z
<1> DEFINE b == <<s>>
           y == a \o b
<1>4. b \in Seq(S) /\ Len(b) = 1 /\ b[1] = s
  OBVIOUS
<1> HIDE DEF b
<1>5. /\ y \in Seq(S) /\ Len(y) = Len(a) + Len(b)
      /\ \A k \in 1 .. Len(a) + Len(b) : y[k] = IF k <= Len(a) THEN a[k] ELSE b[k - Len(a)]
  BY <1>2, <1>4, ConcatProperties
<1> HIDE DEF y
<1>6. y \in Seq(S) /\ Len(y) = i /\ (\A k \in 1 .. i - 1 : y[k] = m[k]) /\ y[i] = s
  BY <1>1, <1>2, <1>4, <1>5
<1> DEFINE x == y \o z
<1>7. /\ x \in Seq(S) /\ Len(x) = Len(y) + Len(z)
      /\ \A k \in 1 .. Len(y) + Len(z) : x[k] = IF k <= Len(y) THEN y[k] ELSE z[k - Len(y)]
  BY <1>3, <1>6, ConcatProperties
<1> HIDE DEF x
<1>8. /\ x \in Seq(S) /\ Len(x) = n + 1
      /\ \A k \in 1 .. i - 1 : x[k] = m[k]
      /\ x[i] = s
  BY <1>1, <1>3, <1>6, <1>7
<1>9. ASSUME NEW k \in i .. n
      PROVE  x[k + 1] = m[k]
  <2>1. k + 1 \in 1 .. i + (n - i + 1) /\ ~(k + 1 <= i) /\ (k + 1) - i \in 1 .. n - i + 1
        /\ i + ((k + 1) - i) - 1 = k
    BY <1>1
  <2> QED
    BY <1>3, <1>6, <1>7, <2>1
<1>10. t = x
  BY DEF Put, x, y, z, a, b, n
<1> QED
  BY <1>8, <1>9, <1>10 DEF n

LEMMA Shortened ==
  ASSUME NEW S, NEW m \in Seq(S), Len(m) > 0
  PROVE  /\ Tail(m) \in Seq(S) /\ Len(Tail(m)) = Len(m) - 1
         /\ \A k \in 1 .. Len(m) - 1 : Tail(m)[k] = m[k + 1]
         /\ Seqs!Front(m) \in Seq(S) /\ Len(Seqs!Front(m)) = Len(m) - 1
         /\ \A k \in 1 .. Len(m) - 1 : Seqs!Front(m)[k] = m[k]
<1> DEFINE n == Len(m)
           a == SubSeq(m, 1, n - 1)
<1>1. n \in Nat /\ n > 0 /\ m \in [1 .. n -> S]
  OBVIOUS
<1>2. Tail(m) \in Seq(S) /\ Len(Tail(m)) = n - 1 /\ \A k \in 1 .. n - 1 : Tail(m)[k] = m[k + 1]
  OBVIOUS
<1> HIDE DEF n
<1>3. a \in Seq(S) /\ Len(a) = n - 1 /\ \A k \in 1 .. n - 1 : a[k] = m[k]
  <2>1. 1 \in Int /\ n - 1 \in Int /\ \A k \in 1 .. n - 1 : m[k] \in S
    BY <1>1
  <2>2. /\ a \in Seq(S) /\ Len(a) = IF 1 <= n - 1 THEN (n - 1) - 1 + 1 ELSE 0
        /\ \A k \in 1 .. (n - 1) - 1 + 1 : a[k] = m[1 + k - 1]
    BY <2>1, SubSeqProperties
  <2> HIDE DEF a
  <2> QED
    BY <1>1, <2>2
<1> QED
  BY <1>2, <1>3 DEF n, a, Seqs!Front

-----------------------------------------------------------------------------
(* DList: the inductive invariant *)

\* The nodes of m from the head on.
Chain(m, k) == IF k = 0 THEN HeadNode ELSE m[k]

Chained(n, p, m) == \A k \in 1 .. Len(m) : n[Chain(m, k - 1)] = m[k] /\ p[m[k]] = Chain(m, k - 1)

Distinct(m) == \A j, k \in 1 .. Len(m) : m[j] = m[k] => j = k

\* The links pass through the nodes that were meant, each of them once, and out at the last.
ListInv ==
  /\ ListTypeOK
  /\ meant \in Seq(Nodes) /\ Distinct(meant)
  /\ Usable => /\ size = Len(meant) /\ tail = Chain(meant, Len(meant))
               /\ Chained(next, previous, meant)
               /\ next[tail] \notin Nodes
  /\ TraverseEnds

LEMMA ChainDiffers ==
  ASSUME NEW m \in Seq(Nodes), Distinct(m), NEW j \in 0 .. Len(m), NEW k \in 0 .. Len(m)
  PROVE  /\ Chain(m, j) \in Nodes \cup {HeadNode}
         /\ j # k => Chain(m, j) # Chain(m, k)
         /\ j # 0 => Chain(m, j) = m[j]
<1>1. Len(m) \in Nat /\ \A i \in 1 .. Len(m) : m[i] \in Nodes /\ m[i] # HeadNode
  BY NodesAssumption
<1>2. \A i \in 0 .. Len(m) : i = 0 \/ i \in 1 .. Len(m)
  BY <1>1
<1> QED
  BY <1>1, <1>2 DEF Chain, Distinct

\* Links n and p become o and q: node s comes before position i of m.
Inserts(m, n, p, i, s, o, q) ==
  /\ o[Chain(m, i - 1)] = s /\ o[s] = n[Chain(m, i - 1)]
  /\ \A x \in Nodes \cup {HeadNode} : x # s /\ x # Chain(m, i - 1) => o[x] = n[x]
  /\ q[s] = Chain(m, i - 1) /\ (i <= Len(m) => q[m[i]] = s)
  /\ \A k \in 1 .. Len(m) : k # i => q[m[k]] = p[m[k]]

\* A new node that is linked between two of a chain is in the chain between them.
LEMMA ChainInserted ==
  ASSUME NEW m \in Seq(Nodes), Distinct(m), NEW n, NEW p, Chained(n, p, m),
         NEW s \in Nodes, \A k \in 1 .. Len(m) : m[k] # s, NEW i \in 1 .. Len(m) + 1, NEW o, NEW q,
         Inserts(m, n, p, i, s, o, q),
         NEW u, u = Put(m, i, s)
  PROVE  /\ u \in Seq(Nodes) /\ Len(u) = Len(m) + 1 /\ Distinct(u) /\ Chained(o, q, u)
         /\ \A k \in 1 .. i - 1 : u[k] = m[k]
         /\ u[i] = s
         /\ \A k \in i .. Len(m) : u[k + 1] = m[k]
<1> DEFINE l == Len(m)
<1>1. /\ u \in Seq(Nodes) /\ Len(u) = l + 1
      /\ \A k \in 1 .. i - 1 : u[k] = m[k]
      /\ u[i] = s
      /\ \A k \in i .. l : u[k + 1] = m[k]
  <2>1. /\ u \in Seq(Nodes) /\ Len(u) = Len(m) + 1
        /\ \A k \in 1 .. i - 1 : u[k] = m[k]
        /\ u[i] = s
        /\ \A k \in i .. Len(m) : u[k + 1] = m[k]
    BY Inserted
  <2> QED
    BY <2>1
<1>2. l \in Nat /\ i \in 1 .. l + 1 /\ \A k \in 1 .. l : m[k] # s /\ m[k] \in Nodes
  OBVIOUS
<1>0. /\ o[Chain(m, i - 1)] = s /\ o[s] = n[Chain(m, i - 1)]
      /\ \A x \in Nodes \cup {HeadNode} : x # s /\ x # Chain(m, i - 1) => o[x] = n[x]
      /\ q[s] = Chain(m, i - 1) /\ (i <= l => q[m[i]] = s)
      /\ \A k \in 1 .. l : k # i => q[m[k]] = p[m[k]]
  BY DEF Inserts
<1> HIDE DEF l
<1>3. \A k \in 1 .. l + 1 : k \in 1 .. i - 1 \/ k = i \/ (k - 1 \in i .. l /\ (k - 1) + 1 = k)
  BY <1>2
<1>4. \A k \in 1 .. l + 1 : /\ k < i => k \in 1 .. l /\ u[k] = m[k]
                            /\ k = i => u[k] = s
                            /\ k > i => k - 1 \in 1 .. l /\ u[k] = m[k - 1]
  BY <1>1, <1>2, <1>3
<1>5. Distinct(u)
  <2> SUFFICES ASSUME NEW j \in 1 .. l + 1, NEW k \in 1 .. l + 1, u[j] = u[k]
               PROVE  j = k
    BY <1>1 DEF Distinct
  <2>1. \A x, y \in 1 .. l : m[x] = m[y] => x = y
    BY DEF Distinct, l
  <2>2. (j < i \/ j = i \/ j > i) /\ (k < i \/ k = i \/ k > i)
    BY <1>2
  <2>3. /\ j < i => j \in 1 .. l /\ u[j] = m[j]
        /\ j = i => u[j] = s
        /\ j > i => j - 1 \in 1 .. l /\ u[j] = m[j - 1]
    BY <1>4
  <2>4. /\ k < i => k \in 1 .. l /\ u[k] = m[k]
        /\ k = i => u[k] = s
        /\ k > i => k - 1 \in 1 .. l /\ u[k] = m[k - 1]
    BY <1>4
  <2>5. (j = i) = (k = i)
    BY <1>2, <2>2, <2>3, <2>4
  <2>6. CASE j < i /\ k > i
    <3>1. j = k - 1
      BY <2>1, <2>3, <2>4, <2>6
    <3> QED
      BY <2>6, <3>1
  <2>7. CASE j > i /\ k < i
    <3>1. j - 1 = k
      BY <2>1, <2>3, <2>4, <2>7
    <3> QED
      BY <2>7, <3>1
  <2>8. CASE j < i /\ k < i
    BY <2>1, <2>3, <2>4, <2>8
  <2>9. CASE j > i /\ k > i
    <3>1. j - 1 = k - 1
      BY <2>1, <2>3, <2>4, <2>9
    <3> QED
      BY <2>9, <3>1
  <2> QED
    BY <2>2, <2>5, <2>6, <2>7, <2>8, <2>9
<1>6. \A j \in 0 .. l : \A k \in 0 .. l : /\ Chain(m, j) \in Nodes \cup {HeadNode}
                                          /\ j # k => Chain(m, j) # Chain(m, k)
                                          /\ j # 0 => Chain(m, j) = m[j]
  BY ChainDiffers DEF l
<1>7. \A k \in 0 .. l : Chain(m, k) # s
  <2>1. \A k \in 0 .. l : k = 0 \/ k \in 1 .. l
    BY <1>2
  <2> QED
    BY <1>2, <2>1, NodesAssumption DEF Chain
<1>8. \A k \in 1 .. l : n[Chain(m, k - 1)] = m[k] /\ p[m[k]] = Chain(m, k - 1)
  BY DEF Chained, l
<1>9. ASSUME NEW k \in 1 .. l + 1
      PROVE  o[Chain(u, k - 1)] = u[k] /\ q[u[k]] = Chain(u, k - 1)
  <2>1. CASE k <= i
    <3>1. Chain(u, k - 1) = Chain(m, k - 1)
      BY <1>1, <1>2, <2>1 DEF Chain
    <3>2. CASE k = i
      BY <1>0, <1>1, <3>1, <3>2
    <3>3. CASE k # i
      <4>1. k < i /\ k \in 1 .. l /\ k - 1 \in 0 .. l /\ i - 1 \in 0 .. l /\ k - 1 # i - 1
        BY <1>2, <2>1, <3>3
      <4>2. o[Chain(m, k - 1)] = n[Chain(m, k - 1)]
        BY <1>0, <1>6, <1>7, <4>1
      <4>3. q[m[k]] = p[m[k]]
        BY <1>0, <4>1
      <4> QED
        BY <1>4, <1>8, <3>1, <4>1, <4>2, <4>3
    <3> QED
      BY <3>2, <3>3
  <2>2. CASE k = i + 1
    <3>1. k - 1 = i /\ i # 0 /\ i \in 1 .. l
      BY <1>2, <2>2
    <3>2. Chain(u, k - 1) = s
      BY <1>1, <3>1 DEF Chain
    <3>3. u[k] = m[i]
      BY <1>4, <2>2, <3>1
    <3>4. q[m[i]] = s
      BY <1>0, <3>1
    <3> QED
      BY <1>0, <1>8, <3>1, <3>2, <3>3, <3>4
  <2>3. CASE k > i + 1
    <3>1. /\ k - 1 \in 1 .. l + 1 /\ k - 1 > i /\ k - 1 # 0 /\ (k - 1) - 1 = k - 2
          /\ k - 1 \in 1 .. l /\ k - 2 \in 1 .. l /\ k - 2 # i - 1 /\ k - 1 # i
          /\ k - 2 # 0 /\ k - 2 \in 0 .. l /\ i - 1 \in 0 .. l /\ k > i
      BY <1>2, <2>3
    <3>2. Chain(u, k - 1) = m[k - 2] /\ u[k] = m[k - 1]
      BY <1>4, <3>1 DEF Chain
    <3>3. Chain(m, k - 2) = m[k - 2]
      BY <1>6, <3>1
    <3>4. o[Chain(m, k - 2)] = n[Chain(m, k - 2)]
      BY <1>0, <1>6, <1>7, <3>1
    <3>5. q[m[k - 1]] = p[m[k - 1]]
      BY <1>0, <3>1
    <3>6. n[Chain(m, k - 2)] = m[k - 1] /\ p[m[k - 1]] = Chain(m, k - 2)
      BY <1>8, <3>1
    <3> QED
      BY <3>2, <3>3, <3>4, <3>5, <3>6
  <2> QED
    BY <1>2, <2>1, <2>2, <2>3
<1> QED
  BY <1>1, <1>5, <1>9 DEF Chained, l

\* What the links say of a list that is usable.
LEMMA UsableShape ==
  ASSUME ListInv, Usable
  PROVE  /\ meant \in Seq(Nodes) /\ Distinct(meant) /\ Len(meant) \in Nat
         /\ size = Len(meant) /\ tail = Chain(meant, Len(meant))
         /\ Chained(next, previous, meant) /\ next[tail] \notin Nodes
         /\ \A k \in 1 .. Len(meant) : /\ meant[k] \in Nodes /\ meant[k] \in Listed
                                       /\ next[Chain(meant, k - 1)] = meant[k]
                                       /\ previous[meant[k]] = Chain(meant, k - 1)
         /\ \A k \in 0 .. Len(meant) : Chain(meant, k) \in Nodes \cup {HeadNode}
         /\ \A j \in 0 .. Len(meant) : \A k \in 0 .. Len(meant) :
              j # k => Chain(meant, j) # Chain(meant, k)
         /\ \A k \in 1 .. Len(meant) : Chain(meant, k) = meant[k]
         /\ Chain(meant, 0) = HeadNode
         /\ IsEmpty <=> Len(meant) = 0
<1>1. /\ meant \in Seq(Nodes) /\ Distinct(meant)
      /\ size = Len(meant) /\ tail = Chain(meant, Len(meant))
      /\ Chained(next, previous, meant) /\ next[tail] \notin Nodes
  BY DEF ListInv
<1>2. Len(meant) \in Nat /\ \A k \in 1 .. Len(meant) : meant[k] \in Nodes
  BY <1>1
<1>3. \A k \in 1 .. Len(meant) : k \in 0 .. Len(meant) /\ k # 0
  BY <1>2
<1>4. \A j \in 0 .. Len(meant) : \A k \in 0 .. Len(meant) :
        /\ Chain(meant, j) \in Nodes \cup {HeadNode}
        /\ j # k => Chain(meant, j) # Chain(meant, k)
        /\ j # 0 => Chain(meant, j) = meant[j]
  BY <1>1, ChainDiffers
<1>5. Chain(meant, 0) = HeadNode
  BY DEF Chain
<1>6. IsEmpty <=> Len(meant) = 0
  BY <1>1, <1>5 DEF IsEmpty
<1> QED
  BY <1>1, <1>2, <1>3, <1>4, <1>5, <1>6 DEF Chained, Listed

\* A node in the list is at its position.
LEMMA Located ==
  ASSUME meant \in Seq(Nodes), NEW p \in Listed
  PROVE  At(p) \in 1 .. Len(meant) /\ meant[At(p)] = p
  BY DEF At, Listed

\* A node that a usable list takes: its links are set, and those of its neighbours to it.
LEMMA InsertStep ==
  ASSUME ListInv, Usable, NEW s \in Nodes, s \notin Listed, NEW i \in 1 .. Len(meant) + 1,
         meant' = Put(meant, i, s), size' = size + 1,
         ListTypeOK', lapses' = lapses,
         Inserts(meant, next, previous, i, s, next', previous'),
         tail' = IF i = Len(meant) + 1 THEN s ELSE tail
  PROVE  ListInv'
<1> DEFINE l == Len(meant)
<1>1. /\ meant \in Seq(Nodes) /\ Distinct(meant) /\ l \in Nat
      /\ size = l /\ tail = Chain(meant, l)
      /\ Chained(next, previous, meant) /\ next[tail] \notin Nodes
      /\ \A k \in 1 .. l : meant[k] \in Listed
      /\ \A k \in 0 .. l : Chain(meant, k) \in Nodes \cup {HeadNode}
      /\ \A j \in 0 .. l : \A k \in 0 .. l : j # k => Chain(meant, j) # Chain(meant, k)
      /\ \A k \in 1 .. l : Chain(meant, k) = meant[k]
      /\ Chain(meant, 0) = HeadNode
  BY UsableShape
<1>2. \A k \in 1 .. l : meant[k] # s
  BY <1>1
<1>3. /\ meant' \in Seq(Nodes) /\ Len(meant') = l + 1 /\ Distinct(meant')
      /\ Chained(next', previous', meant')
      /\ \A k \in 1 .. i - 1 : meant'[k] = meant[k]
      /\ meant'[i] = s
      /\ \A k \in i .. l : meant'[k + 1] = meant[k]
  <2> DEFINE o == next'
             q == previous'
             u == meant'
  <2>1. u = Put(meant, i, s) /\ Inserts(meant, next, previous, i, s, o, q)
    OBVIOUS
  <2>3. /\ meant \in Seq(Nodes) /\ Distinct(meant) /\ Chained(next, previous, meant)
        /\ \A k \in 1 .. Len(meant) : meant[k] # s
    BY <1>1, <1>2
  <2> HIDE DEF u, o, q, l
  <2>2. /\ u \in Seq(Nodes) /\ Len(u) = Len(meant) + 1 /\ Distinct(u) /\ Chained(o, q, u)
        /\ \A k \in 1 .. i - 1 : u[k] = meant[k]
        /\ u[i] = s
        /\ \A k \in i .. Len(meant) : u[k + 1] = meant[k]
    BY <2>1, <2>3, ChainInserted
  <2> QED
    BY <2>2 DEF u, o, q, l
<1>9. /\ next'[Chain(meant, i - 1)] = s /\ next'[s] = next[Chain(meant, i - 1)]
      /\ \A x \in Nodes \cup {HeadNode} : x # s /\ x # Chain(meant, i - 1) => next'[x] = next[x]
  BY DEF Inserts
<1> HIDE DEF l
<1>4. tail' = Chain(meant', l + 1) /\ next'[tail'] \notin Nodes
  <2>1. l + 1 # 0
    BY <1>1
  <2>2. CASE i = l + 1
    <3>1. tail' = s /\ i - 1 = l
      BY <1>1, <2>2 DEF l
    <3>2. next'[s] = next[tail]
      BY <1>1, <1>9, <3>1
    <3> QED
      BY <1>1, <1>3, <2>1, <2>2, <3>1, <3>2 DEF Chain
  <2>3. CASE i # l + 1
    <3>1. tail' = tail /\ l \in i .. l /\ l \in 1 .. l /\ l # i - 1 /\ l \in 0 .. l /\ i - 1 \in 0 .. l
      BY <1>1, <2>3 DEF l
    <3>2. tail = meant[l] /\ meant'[l + 1] = meant[l]
      BY <1>1, <1>3, <3>1
    <3>3. tail # s /\ tail # Chain(meant, i - 1)
      BY <1>1, <1>2, <3>1
    <3>4. next'[tail] = next[tail]
      BY <1>1, <1>9, <3>1, <3>3
    <3> QED
      BY <1>1, <2>1, <3>1, <3>2, <3>4 DEF Chain
  <2> QED
    BY <2>2, <2>3
<1>5. TraverseEnds'
  <2>1. lapses = {} => next[tail] = Null
    BY DEF ListInv, TraverseEnds
  <2>2. next'[tail'] = next[tail]
    <3>1. CASE i = l + 1
      <4>1. tail' = s /\ i - 1 = l
        BY <1>1, <3>1 DEF l
      <4> QED
        BY <1>1, <1>9, <4>1
    <3>2. CASE i # l + 1
      <4>1. tail' = tail /\ l \in 1 .. l /\ l # i - 1 /\ l \in 0 .. l /\ i - 1 \in 0 .. l
        BY <1>1, <3>2 DEF l
      <4>2. tail # s /\ tail # Chain(meant, i - 1)
        BY <1>1, <1>2, <4>1
      <4> QED
        BY <1>1, <1>9, <4>1, <4>2
    <3> QED
      BY <3>1, <3>2
  <2> QED
    BY <2>1, <2>2 DEF TraverseEnds
<1>6. size' = Len(meant')
  BY <1>1, <1>3
<1> QED
  BY <1>3, <1>4, <1>5, <1>6 DEF ListInv

LEMMA InsFirstInv ==
  ASSUME ListInv, NEW s \in Nodes, InsFirst(s)
  PROVE  ListInv'
<1> USE DEF InsFirst
<1>1. /\ meant \in Seq(Nodes) /\ Len(meant) \in Nat
      /\ Usable /\ s \notin Listed /\ Chain(meant, 0) = HeadNode
      /\ IsEmpty <=> Len(meant) = 0
      /\ \A k \in 1 .. Len(meant) : /\ meant[k] \in Nodes /\ meant[k] \in Listed
                                    /\ next[Chain(meant, k - 1)] = meant[k]
                                    /\ previous[meant[k]] = Chain(meant, k - 1)
      /\ Distinct(meant)
  BY UsableShape
<1>2. ListTypeOK /\ s # HeadNode /\ s # Null
  BY NodesAssumption DEF ListInv
<1>3. ListTypeOK'
  <2>1. next' \in [Nodes \cup {HeadNode} -> Nodes \cup {HeadNode, Null}]
    BY <1>2 DEF ListTypeOK
  <2>2. previous' \in [Nodes \cup {HeadNode} -> Nodes \cup {HeadNode, Null}]
    BY <1>2 DEF ListTypeOK
  <2>3. tail' \in Nodes \cup {HeadNode} /\ size' \in Nat
    BY <1>2 DEF ListTypeOK
  <2> QED
    BY <1>2, <2>1, <2>2, <2>3 DEF ListTypeOK
<1>4. meant' = Put(meant, 1, s)
  <2>1. SubSeq(meant, 1, 1 - 1) = <<>>
    BY SubSeqEmpty
  <2>2. SubSeq(meant, 1, Len(meant)) = meant
    BY <1>1
  <2>3. <<>> \o <<s>> = <<s>>
    OBVIOUS
  <2> QED
    BY <2>1, <2>2, <2>3 DEF Put
<1>5. /\ next'[HeadNode] = s /\ next'[s] = next[HeadNode]
      /\ \A x \in Nodes \cup {HeadNode} : x # s /\ x # HeadNode => next'[x] = next[x]
  BY <1>2 DEF ListTypeOK
<1>6. previous'[s] = HeadNode
  <2>1. s # next[HeadNode]
    <3>1. CASE Len(meant) = 0
      <4>1. next[tail] \notin Nodes /\ tail = HeadNode
        BY <1>1, <3>1, UsableShape
      <4> QED
        BY <4>1
    <3>2. CASE Len(meant) # 0
      <4>1. 1 \in 1 .. Len(meant) /\ 1 - 1 = 0
        BY <1>1, <3>2
      <4> QED
        BY <1>1, <4>1
    <3> QED
      BY <3>1, <3>2
  <2> QED
    BY <2>1
<1>7. 1 <= Len(meant) => previous'[meant[1]] = s
  <2> SUFFICES ASSUME 1 <= Len(meant) PROVE previous'[meant[1]] = s
    OBVIOUS
  <2>1. 1 \in 1 .. Len(meant) /\ 1 - 1 = 0
    BY <1>1
  <2>2. next[HeadNode] = meant[1] /\ meant[1] \in Nodes
    BY <1>1, <2>1
  <2> QED
    BY <2>2
<1>8. \A k \in 1 .. Len(meant) : k # 1 => previous'[meant[k]] = previous[meant[k]]
  <2> SUFFICES ASSUME NEW k \in 1 .. Len(meant), k # 1
               PROVE  previous'[meant[k]] = previous[meant[k]]
    OBVIOUS
  <2>1. 1 \in 1 .. Len(meant) /\ 1 - 1 = 0
    BY <1>1
  <2>2. next[HeadNode] = meant[1] /\ meant[k] # meant[1] /\ meant[k] # s /\ meant[k] \in Nodes
    BY <1>1, <2>1 DEF Distinct
  <2> QED
    BY <2>2
<1>9. tail' = IF 1 = Len(meant) + 1 THEN s ELSE tail
  BY <1>1
<1>10. 1 \in 1 .. Len(meant) + 1 /\ 1 - 1 = 0
  BY <1>1
<1>11. Inserts(meant, next, previous, 1, s, next', previous')
  BY <1>1, <1>5, <1>6, <1>7, <1>8, <1>10 DEF Inserts
<1> QED
  BY <1>1, <1>3, <1>4, <1>9, <1>10, <1>11, InsertStep

LEMMA InsBeforeInv ==
  ASSUME ListInv, NEW p \in Nodes, NEW s \in Nodes, InsBefore(p, s)
  PROVE  ListInv'
<1> USE DEF InsBefore
<1> DEFINE i == At(p)
<1>1. /\ meant \in Seq(Nodes) /\ Len(meant) \in Nat /\ Usable /\ s \notin Listed /\ Distinct(meant)
      /\ \A k \in 1 .. Len(meant) : /\ meant[k] \in Nodes /\ meant[k] \in Listed
                                    /\ next[Chain(meant, k - 1)] = meant[k]
                                    /\ previous[meant[k]] = Chain(meant, k - 1)
      /\ \A k \in 0 .. Len(meant) : Chain(meant, k) \in Nodes \cup {HeadNode}
      /\ \A k \in 1 .. Len(meant) : Chain(meant, k) = meant[k]
      /\ Chain(meant, 0) = HeadNode
  BY UsableShape
<1>2. i \in 1 .. Len(meant) /\ meant[i] = p
  BY <1>1, Located
<1> HIDE DEF i
<1>3. ListTypeOK /\ s # HeadNode /\ s # Null
  BY NodesAssumption DEF ListInv
<1>4. previous[p] = Chain(meant, i - 1) /\ previous[p] \in Nodes \cup {HeadNode} /\ next[previous[p]] = p
  <2>1. i - 1 \in 0 .. Len(meant)
    BY <1>1, <1>2
  <2> QED
    BY <1>1, <1>2, <2>1
<1>5. previous[p] # s /\ p # s
  <2>1. i - 1 = 0 \/ i - 1 \in 1 .. Len(meant)
    BY <1>1, <1>2
  <2> QED
    BY <1>1, <1>2, <1>3, <1>4, <2>1
<1>6. ListTypeOK'
  <2>1. next' \in [Nodes \cup {HeadNode} -> Nodes \cup {HeadNode, Null}]
    BY <1>3 DEF ListTypeOK
  <2>2. previous' \in [Nodes \cup {HeadNode} -> Nodes \cup {HeadNode, Null}]
    BY <1>3, <1>4 DEF ListTypeOK
  <2>3. tail' \in Nodes \cup {HeadNode} /\ size' \in Nat
    BY <1>3 DEF ListTypeOK
  <2> QED
    BY <1>3, <2>1, <2>2, <2>3 DEF ListTypeOK
<1>7. meant' = Put(meant, i, s)
  BY DEF With, Seqs!InsertAt, Put, i
<1>8. /\ next'[previous[p]] = s /\ next'[s] = p
      /\ \A x \in Nodes \cup {HeadNode} : x # s /\ x # previous[p] => next'[x] = next[x]
  BY <1>3, <1>4, <1>5 DEF ListTypeOK
<1>9. /\ previous'[s] = previous[p] /\ previous'[p] = s
      /\ \A x \in Nodes : x # s /\ x # p => previous'[x] = previous[x]
  BY <1>3, <1>5 DEF ListTypeOK
<1>10. \A k \in 1 .. Len(meant) : k # i => previous'[meant[k]] = previous[meant[k]]
  <2>1. \A k \in 1 .. Len(meant) : k # i => meant[k] # p /\ meant[k] # s /\ meant[k] \in Nodes
    BY <1>1, <1>2 DEF Distinct
  <2> QED
    BY <1>9, <2>1
<1>11. i # Len(meant) + 1 /\ i \in 1 .. Len(meant) + 1 /\ tail' = tail
  BY <1>1, <1>2
<1>12. Inserts(meant, next, previous, i, s, next', previous')
  BY <1>2, <1>4, <1>8, <1>9, <1>10 DEF Inserts
<1> QED
  BY <1>1, <1>6, <1>7, <1>11, <1>12, InsertStep

\* After a node that is not the last one the list is not usable.
LEMMA InsAfterInv ==
  ASSUME ListInv, NEW p \in Nodes, NEW s \in Nodes, InsAfter(p, s)
  PROVE  ListInv'
<1> USE DEF InsAfter
<1> DEFINE i == At(p)
<1>1. /\ meant \in Seq(Nodes) /\ Len(meant) \in Nat /\ Usable /\ s \notin Listed /\ Distinct(meant)
      /\ tail = Chain(meant, Len(meant)) /\ next[tail] \notin Nodes
      /\ \A k \in 1 .. Len(meant) : meant[k] \in Nodes /\ meant[k] \in Listed
      /\ \A k \in 1 .. Len(meant) : Chain(meant, k) = meant[k]
  BY UsableShape
<1>2. i \in 1 .. Len(meant) /\ meant[i] = p
  BY <1>1, Located
<1> HIDE DEF i
<1>3. ListTypeOK /\ s # HeadNode /\ s # Null /\ p # s
  BY NodesAssumption DEF ListInv
<1>4. ListTypeOK'
  <2>1. next' \in [Nodes \cup {HeadNode} -> Nodes \cup {HeadNode, Null}]
    BY <1>3 DEF ListTypeOK
  <2>2. previous' \in [Nodes \cup {HeadNode} -> Nodes \cup {HeadNode, Null}]
    BY <1>3 DEF ListTypeOK
  <2>3. size' \in Nat /\ lapses' \subseteq {"emptied", "middle", "cleared"}
    BY <1>3 DEF ListTypeOK
  <2> QED
    BY <2>1, <2>2, <2>3 DEF ListTypeOK
<1>5. meant' = Put(meant, i + 1, s)
  BY DEF With, Seqs!InsertAt, Put, i
<1>6. i + 1 \in 1 .. Len(meant) + 1 /\ (i + 1) - 1 = i
  BY <1>1, <1>2
<1>7. CASE p = tail
  <2>1. i = Len(meant)
    <3>1. Len(meant) \in 1 .. Len(meant)
      BY <1>1, <1>2
    <3> QED
      BY <1>1, <1>2, <1>7, <3>1 DEF Distinct
  <2>2. Chain(meant, (i + 1) - 1) = p /\ tail' = s /\ i + 1 = Len(meant) + 1 /\ ~(i + 1 <= Len(meant))
    BY <1>1, <1>2, <1>6, <2>1
  <2>3. /\ next'[p] = s /\ next'[s] = next[p]
        /\ \A x \in Nodes \cup {HeadNode} : x # s /\ x # p => next'[x] = next[x]
    BY <1>3 DEF ListTypeOK
  <2>4. previous'[s] = p /\ \A x \in Nodes : x # s => previous'[x] = previous[x]
    BY <1>1, <1>7
  <2>5. \A k \in 1 .. Len(meant) : previous'[meant[k]] = previous[meant[k]]
    BY <1>1, <2>4
  <2>6. lapses' = lapses
    BY <1>7
  <2>7. Inserts(meant, next, previous, i + 1, s, next', previous')
    BY <2>2, <2>3, <2>4, <2>5 DEF Inserts
  <2>8. tail' = IF i + 1 = Len(meant) + 1 THEN s ELSE tail
    BY <2>2
  <2> QED
    BY <1>1, <1>4, <1>5, <1>6, <2>6, <2>7, <2>8, InsertStep
<1>8. CASE p # tail
  <2>1. "middle" \in lapses'
    BY <1>8
  <2>2. ~Usable' /\ lapses' # {}
    BY <2>1 DEF Usable
  <2>3. meant' \in Seq(Nodes) /\ Distinct(meant')
    <3>1. \A k \in 1 .. Len(meant) : meant[k] # s
      BY <1>1

    <3>2. Chained(next, previous, meant)
      BY UsableShape
    <3> DEFINE m == meant
               b == i + 1
               a == Chain(m, i)
               o == [x \in Nodes \cup {HeadNode} |->
                       IF x = a THEN s ELSE IF x = s THEN next[a] ELSE next[x]]
               q == [x \in Nodes |-> IF x = s THEN a ELSE IF b <= Len(m) /\ x = m[b] THEN s ELSE previous[x]]
    <3>3. /\ a \in Nodes /\ a # s
      BY <1>1, <1>2, <1>3
    <3>4. /\ o[a] = s /\ o[s] = next[a]
          /\ \A x \in Nodes \cup {HeadNode} : x # s /\ x # a => o[x] = next[x]
      BY <3>3
    <3>5. q[s] = a /\ (b <= Len(m) => q[m[b]] = s)
      BY <1>1, <1>6, <3>1
    <3>6. \A k \in 1 .. Len(m) : k # b => q[m[k]] = previous[m[k]]
      BY <1>1, <1>6, <3>1 DEF Distinct
    <3>7. Chain(m, b - 1) = a /\ b \in 1 .. Len(m) + 1
      BY <1>6
    <3> HIDE DEF a, o, q, b
    <3>8. Inserts(m, next, previous, b, s, o, q)
      BY <3>4, <3>5, <3>6, <3>7 DEF Inserts
    <3> DEFINE u == meant'
    <3>9. u = Put(m, b, s)
      BY <1>5 DEF b
    <3> HIDE DEF u
    <3>10. u \in Seq(Nodes) /\ Distinct(u)
      BY <1>1, <3>1, <3>2, <3>7, <3>8, <3>9, ChainInserted
    <3> QED
      BY <3>10 DEF u
  <2> QED
    BY <1>4, <2>2, <2>3 DEF ListInv, TraverseEnds
<1> QED
  BY <1>7, <1>8

LEMMA DelMoreInv ==
  ASSUME ListInv, DelMore
  PROVE  ListInv'
<1> USE DEF DelMore
<1> DEFINE l == Len(meant)
<1>1. /\ meant \in Seq(Nodes) /\ l \in Nat /\ Usable /\ Distinct(meant)
      /\ size = l /\ tail = Chain(meant, l) /\ next[tail] \notin Nodes
      /\ \A k \in 1 .. l : /\ meant[k] \in Nodes
                           /\ next[Chain(meant, k - 1)] = meant[k]
                           /\ previous[meant[k]] = Chain(meant, k - 1)
      /\ \A k \in 1 .. l : Chain(meant, k) = meant[k]
      /\ Chain(meant, 0) = HeadNode
      /\ IsEmpty <=> l = 0
  BY UsableShape
<1>2. ListTypeOK
  BY DEF ListInv
<1>3. l > 1
  <2>1. l # 0
    BY <1>1
  <2>2. ASSUME l = 1
        PROVE  FALSE
    <3>1. 1 \in 1 .. l /\ 1 - 1 = 0
      BY <2>2
    <3>2. next[HeadNode] = meant[1] /\ tail = meant[1]
      BY <1>1, <2>2, <3>1
    <3> QED
      BY <3>2
  <2> QED
    BY <1>1, <2>1, <2>2
<1>4. /\ meant' \in Seq(Nodes) /\ Len(meant') = l - 1
      /\ \A k \in 1 .. l - 1 : meant'[k] = meant[k + 1]
  BY <1>1, <1>3, Shortened
<1> HIDE DEF l
<1>5. next[HeadNode] = meant[1] /\ next[meant[1]] = meant[2] /\ meant[1] \in Nodes /\ meant[2] \in Nodes
  <2>1. 1 \in 1 .. l /\ 1 - 1 = 0 /\ 2 \in 1 .. l /\ 2 - 1 = 1
    BY <1>1, <1>3
  <2> QED
    BY <1>1, <2>1
<1>6. /\ next'[HeadNode] = meant[2] /\ previous'[meant[2]] = HeadNode
      /\ \A x \in Nodes : next'[x] = next[x]
      /\ \A x \in Nodes : x # meant[2] => previous'[x] = previous[x]
  BY <1>2, <1>5, NodesAssumption DEF ListTypeOK
<1>7. ListTypeOK'
  <2>1. next' \in [Nodes \cup {HeadNode} -> Nodes \cup {HeadNode, Null}]
    BY <1>2, <1>5 DEF ListTypeOK
  <2>2. previous' \in [Nodes \cup {HeadNode} -> Nodes \cup {HeadNode, Null}]
    BY <1>2, <1>5 DEF ListTypeOK
  <2>3. size' \in Nat
    BY <1>1, <1>3
  <2> QED
    BY <1>2, <2>1, <2>2, <2>3 DEF ListTypeOK
<1>8. Distinct(meant')
  <2> SUFFICES ASSUME NEW j \in 1 .. l - 1, NEW k \in 1 .. l - 1, meant'[j] = meant'[k]
               PROVE  j = k
    BY <1>4 DEF Distinct
  <2>1. j + 1 \in 1 .. l /\ k + 1 \in 1 .. l /\ meant[j + 1] = meant[k + 1]
    BY <1>1, <1>4
  <2>2. j + 1 = k + 1
    BY <1>1, <2>1 DEF Distinct, l
  <2> QED
    BY <2>2
<1>9. ASSUME NEW k \in 1 .. l - 1
      PROVE  next'[Chain(meant', k - 1)] = meant'[k] /\ previous'[meant'[k]] = Chain(meant', k - 1)
  <2>1. meant'[k] = meant[k + 1] /\ k + 1 \in 1 .. l /\ (k + 1) - 1 = k /\ k \in 1 .. l
    BY <1>1, <1>4
  <2>2. next[meant[k]] = meant[k + 1] /\ previous[meant[k + 1]] = meant[k] /\ meant[k] \in Nodes
        /\ meant[k + 1] \in Nodes
    <3>1. Chain(meant, (k + 1) - 1) = meant[k]
      BY <1>1, <2>1
    <3> QED
      BY <1>1, <2>1, <3>1
  <2>3. CASE k = 1
    <3>1. Chain(meant', k - 1) = HeadNode /\ k + 1 = 2
      BY <2>3 DEF Chain
    <3> QED
      BY <1>6, <2>1, <3>1
  <2>4. CASE k # 1
    <3>1. k - 1 \in 1 .. l - 1 /\ k - 1 # 0 /\ (k - 1) + 1 = k /\ k + 1 # 2 /\ 2 \in 1 .. l
      BY <1>1, <2>4
    <3>2. Chain(meant', k - 1) = meant[k]
      BY <1>4, <3>1 DEF Chain
    <3>3. meant[k + 1] # meant[2]
      BY <1>1, <2>1, <3>1 DEF Distinct, l
    <3> QED
      BY <1>6, <2>1, <2>2, <3>2, <3>3
  <2> QED
    BY <2>3, <2>4
<1>10. tail' = Chain(meant', l - 1) /\ size' = l - 1 /\ next'[tail'] = next[tail]
  <2>1. l - 1 # 0 /\ l \in 1 .. l /\ l - 1 \in 1 .. l - 1 /\ (l - 1) + 1 = l
    BY <1>1, <1>3
  <2>2. Chain(meant', l - 1) = meant[l] /\ tail = meant[l] /\ meant[l] \in Nodes
    BY <1>1, <1>4, <2>1 DEF Chain
  <2> QED
    BY <1>1, <1>6, <2>2
<1>11. Chained(next', previous', meant')
  BY <1>4, <1>9 DEF Chained
<1>12. TraverseEnds'
  BY <1>10 DEF ListInv, TraverseEnds
<1> QED
  BY <1>1, <1>4, <1>7, <1>8, <1>10, <1>11, <1>12 DEF ListInv

LEMMA RemoveInv ==
  ASSUME ListInv, Remove
  PROVE  ListInv'
<1> USE DEF Remove
<1> DEFINE l == Len(meant)
<1>1. /\ meant \in Seq(Nodes) /\ l \in Nat /\ Usable /\ Distinct(meant)
      /\ size = l /\ tail = Chain(meant, l) /\ next[tail] \notin Nodes
      /\ \A k \in 1 .. l : /\ meant[k] \in Nodes
                           /\ next[Chain(meant, k - 1)] = meant[k]
                           /\ previous[meant[k]] = Chain(meant, k - 1)
      /\ \A k \in 0 .. l : Chain(meant, k) \in Nodes \cup {HeadNode}
      /\ \A j \in 0 .. l : \A k \in 0 .. l : j # k => Chain(meant, j) # Chain(meant, k)
      /\ \A k \in 1 .. l : Chain(meant, k) = meant[k]
      /\ IsEmpty <=> l = 0
  BY UsableShape
<1>2. ListTypeOK
  BY DEF ListInv
<1>3. l > 0
  BY <1>1
<1>4. /\ meant' \in Seq(Nodes) /\ Len(meant') = l - 1
      /\ \A k \in 1 .. l - 1 : meant'[k] = meant[k]
  BY <1>1, <1>3, Shortened
<1> HIDE DEF l
<1>5. previous[tail] = Chain(meant, l - 1) /\ previous[tail] \in Nodes \cup {HeadNode}
  <2>1. l \in 1 .. l /\ l - 1 \in 0 .. l
    BY <1>1, <1>3
  <2> QED
    BY <1>1, <2>1
<1>6. /\ next'[Chain(meant, l - 1)] = next[tail]
      /\ \A x \in Nodes \cup {HeadNode} : x # Chain(meant, l - 1) => next'[x] = next[x]
  BY <1>2, <1>5 DEF ListTypeOK
<1>7. ListTypeOK'
  <2>1. next' \in [Nodes \cup {HeadNode} -> Nodes \cup {HeadNode, Null}]
    BY <1>2, <1>5 DEF ListTypeOK
  <2>2. size' \in Nat
    BY <1>1, <1>3
  <2> QED
    BY <1>2, <1>5, <2>1, <2>2 DEF ListTypeOK
<1>8. Distinct(meant')
  <2>1. \A j, k \in 1 .. l - 1 : j \in 1 .. l /\ k \in 1 .. l
    BY <1>1
  <2> QED
    BY <1>1, <1>4, <2>1 DEF Distinct, l
<1>9. \A k \in 0 .. l - 1 : Chain(meant', k) = Chain(meant, k)
  <2>1. \A k \in 0 .. l - 1 : k = 0 \/ k \in 1 .. l - 1
    BY <1>1
  <2> QED
    BY <1>4, <2>1 DEF Chain
<1>10. ASSUME NEW k \in 1 .. l - 1
       PROVE  next'[Chain(meant', k - 1)] = meant'[k] /\ previous'[meant'[k]] = Chain(meant', k - 1)
  <2>1. k \in 1 .. l /\ k - 1 \in 0 .. l /\ l - 1 \in 0 .. l /\ k - 1 # l - 1 /\ k - 1 \in 0 .. l - 1
    BY <1>1
  <2>2. next'[Chain(meant, k - 1)] = next[Chain(meant, k - 1)]
    BY <1>1, <1>6, <2>1
  <2> QED
    BY <1>1, <1>4, <1>9, <2>1, <2>2
<1>11. tail' = Chain(meant', l - 1) /\ size' = l - 1 /\ next'[tail'] = next[tail]
  <2>1. l - 1 \in 0 .. l - 1
    BY <1>1, <1>3
  <2> QED
    BY <1>1, <1>5, <1>6, <1>9, <2>1
<1>12. Chained(next', previous', meant')
  BY <1>4, <1>10 DEF Chained
<1>13. TraverseEnds'
  BY <1>11 DEF ListInv, TraverseEnds
<1> QED
  BY <1>1, <1>4, <1>7, <1>8, <1>11, <1>12, <1>13 DEF ListInv

\* The head that has become its own neighbour leads to no node.
LEMMA DelOnlyInv ==
  ASSUME ListInv, DelOnly
  PROVE  ListInv'
<1> USE DEF DelOnly
<1> DEFINE l == Len(meant)
<1>1. /\ meant \in Seq(Nodes) /\ l \in Nat /\ Usable
      /\ size = l /\ tail = Chain(meant, l)
      /\ \A k \in 1 .. l : /\ meant[k] \in Nodes
                           /\ next[Chain(meant, k - 1)] = meant[k]
                           /\ previous[meant[k]] = Chain(meant, k - 1)
      /\ \A j \in 0 .. l : \A k \in 0 .. l : j # k => Chain(meant, j) # Chain(meant, k)
      /\ \A k \in 1 .. l : Chain(meant, k) = meant[k]
      /\ Chain(meant, 0) = HeadNode
      /\ IsEmpty <=> l = 0
  BY UsableShape
<1>2. ListTypeOK
  BY DEF ListInv
<1>3. l = 1
  <2>1. 1 \in 1 .. l /\ 1 - 1 = 0 /\ 1 \in 0 .. l /\ l \in 0 .. l
    BY <1>1
  <2>2. next[HeadNode] = meant[1] /\ Chain(meant, 1) = meant[1]
    BY <1>1, <2>1
  <2>3. Chain(meant, 1) = Chain(meant, l)
    BY <1>1, <2>2
  <2> QED
    BY <1>1, <2>1, <2>3
<1>4. meant' \in Seq(Nodes) /\ Len(meant') = 0
  <2>1. meant \in Seq(Nodes) /\ Len(meant) = 1 /\ Len(meant) > 0
    BY <1>1, <1>3
  <2>2. Tail(meant) \in Seq(Nodes) /\ Len(Tail(meant)) = Len(meant) - 1
    BY <2>1, Shortened
  <2> QED
    BY <2>1, <2>2
<1> HIDE DEF l
<1>5. tail' = HeadNode /\ next'[HeadNode] = HeadNode
  <2>1. l \in 1 .. l /\ l - 1 = 0
    BY <1>3
  <2>2. previous[tail] = HeadNode
    BY <1>1, <2>1
  <2> QED
    BY <1>2, <2>2 DEF ListTypeOK
<1>6. ListTypeOK'
  <2>1. next' \in [Nodes \cup {HeadNode} -> Nodes \cup {HeadNode, Null}]
    BY <1>2, <1>5 DEF ListTypeOK
  <2>2. previous' \in [Nodes \cup {HeadNode} -> Nodes \cup {HeadNode, Null}]
    BY <1>2, <1>5 DEF ListTypeOK
  <2>3. size' \in Nat
    BY <1>1, <1>3
  <2> QED
    BY <1>2, <1>5, <2>1, <2>2, <2>3 DEF ListTypeOK
<1>7. Distinct(meant') /\ Chained(next', previous', meant')
  BY <1>4 DEF Distinct, Chained
<1>8. size' = Len(meant') /\ tail' = Chain(meant', Len(meant')) /\ next'[tail'] \notin Nodes
  BY <1>1, <1>3, <1>4, <1>5, NodesAssumption DEF Chain
<1>9. lapses' # {}
  OBVIOUS
<1> QED
  BY <1>4, <1>6, <1>7, <1>8, <1>9 DEF ListInv, TraverseEnds

LEMMA ListClearInv ==
  ASSUME ListInv, ClearList
  PROVE  ListInv'
<1> USE DEF ClearList
<1>1. /\ Len(meant) \in Nat /\ Usable /\ IsEmpty <=> Len(meant) = 0
      /\ next[tail] \notin Nodes /\ ListTypeOK
  BY UsableShape DEF ListInv
<1>2. ListTypeOK'
  BY <1>1 DEF ListTypeOK
<1>3. meant' \in Seq(Nodes) /\ Len(meant') = 0
  OBVIOUS
<1>4. Distinct(meant') /\ Chained(next', previous', meant')
  BY <1>3 DEF Distinct, Chained
<1>5. CASE IsEmpty
  <2>1. tail = HeadNode
    BY <1>5 DEF IsEmpty
  <2> QED
    BY <1>1, <1>2, <1>3, <1>4, <1>5, <2>1 DEF ListInv, TraverseEnds, Chain
<1>6. CASE ~IsEmpty
  <2>1. "cleared" \in lapses'
    BY <1>6
  <2>2. ~Usable' /\ lapses' # {}
    BY <2>1 DEF Usable
  <2> QED
    BY <1>2, <1>3, <1>4, <2>2 DEF ListInv, TraverseEnds
<1> QED
  BY <1>5, <1>6

LEMMA EmptyInv ==
  /\ ListInit => ListInv
  /\ Renew => ListInv'
<1>1. <<>> \in Seq(Nodes) /\ Len(<<>>) = 0
  OBVIOUS
<1>2. ASSUME ListInit PROVE ListInv
  <2>1. ListTypeOK
    BY <1>2 DEF ListInit, ListTypeOK
  <2>2. Distinct(meant) /\ Chained(next, previous, meant)
    BY <1>1, <1>2 DEF ListInit, Distinct, Chained
  <2>3. tail = Chain(meant, Len(meant)) /\ next[tail] = Null /\ Null \notin Nodes
    BY <1>1, <1>2, NodesAssumption DEF ListInit, Chain
  <2> QED
    BY <1>1, <1>2, <2>1, <2>2, <2>3 DEF ListInit, ListInv, TraverseEnds
<1>3. ASSUME Renew PROVE ListInv'
  <2>1. ListTypeOK'
    BY <1>3 DEF Renew, ListTypeOK
  <2>2. Distinct(meant') /\ Chained(next', previous', meant')
    BY <1>1, <1>3 DEF Renew, Distinct, Chained
  <2>3. tail' = Chain(meant', Len(meant')) /\ next'[tail'] = Null /\ Null \notin Nodes
    BY <1>1, <1>3, NodesAssumption DEF Renew, Chain
  <2> QED
    BY <1>1, <1>3, <2>1, <2>2, <2>3 DEF Renew, ListInv, TraverseEnds
<1> QED
  BY <1>2, <1>3

LEMMA ListNextInv == ListInv /\ [ListNext]_listvars => ListInv'
<1> SUFFICES ASSUME ListInv, [ListNext]_listvars PROVE ListInv'
  OBVIOUS
<1>1. ASSUME NEW s \in Nodes, InsFirst(s) PROVE ListInv'
  BY <1>1, InsFirstInv
<1>2. ASSUME NEW s \in Nodes, NEW p \in Nodes, InsBefore(p, s) PROVE ListInv'
  BY <1>2, InsBeforeInv
<1>3. ASSUME NEW s \in Nodes, NEW p \in Nodes, InsAfter(p, s) PROVE ListInv'
  BY <1>3, InsAfterInv
<1>4. CASE DelMore \/ DelOnly \/ Remove \/ ClearList \/ Renew
  BY <1>4, DelMoreInv, DelOnlyInv, RemoveInv, ListClearInv, EmptyInv
<1>5. CASE UNCHANGED listvars
  BY <1>5 DEF listvars, ListInv, ListTypeOK, Usable, TraverseEnds
<1> QED
  BY <1>1, <1>2, <1>3, <1>4, <1>5 DEF ListNext

LEMMA ListInvariant == ListSpec => []ListInv
<1>1. ListInit => ListInv
  BY EmptyInv
<1> QED
  BY <1>1, ListNextInv, PTL DEF ListSpec

LEMMA ChainLinked ==
  ASSUME ListInv
  PROVE  Linked
<1> SUFFICES ASSUME Usable PROVE Linked
  BY DEF Linked
<1> DEFINE l == Len(meant)
           chain == <<HeadNode>> \o meant
<1>1. /\ meant \in Seq(Nodes) /\ l \in Nat /\ size = l /\ tail = Chain(meant, l)
      /\ \A k \in 1 .. l : /\ next[Chain(meant, k - 1)] = meant[k]
                           /\ previous[meant[k]] = Chain(meant, k - 1)
  BY UsableShape
<1>2. /\ Len(chain) = l + 1
      /\ \A k \in 1 .. l + 1 : chain[k] = Chain(meant, k - 1)
  <2> DEFINE h == <<HeadNode>>
             S == Nodes \cup {HeadNode}
  <2>1. h \in Seq(S) /\ meant \in Seq(S) /\ Len(h) = 1 /\ h[1] = HeadNode
    BY <1>1
  <2> HIDE DEF S, h
  <2>2. /\ Len(h \o meant) = Len(h) + l
        /\ \A k \in 1 .. Len(h) + l : (h \o meant)[k] = IF k <= Len(h) THEN h[k] ELSE meant[k - Len(h)]
    BY <2>1, ConcatProperties
  <2>3. /\ Len(chain) = 1 + l
        /\ \A k \in 1 .. 1 + l : chain[k] = IF k <= 1 THEN h[k] ELSE meant[k - 1]
    BY <2>1, <2>2 DEF h
  <2> HIDE DEF chain, l
  <2>4. ASSUME NEW k \in 1 .. l + 1
        PROVE  chain[k] = Chain(meant, k - 1)
    <3>1. k \in 1 .. 1 + l
      BY <1>1
    <3>2. CASE k = 1
      BY <2>1, <2>3, <3>1, <3>2 DEF Chain
    <3>3. CASE k # 1
      <4>1. ~(k <= 1) /\ k - 1 # 0
        BY <1>1, <3>3
      <4> QED
        BY <2>3, <3>1, <4>1 DEF Chain
    <3> QED
      BY <3>2, <3>3
  <2> QED
    BY <1>1, <2>3, <2>4
<1> HIDE DEF l, chain
<1>3. Seqs!Last(chain) = Chain(meant, l)
  <2>1. l + 1 \in 1 .. l + 1 /\ (l + 1) - 1 = l
    BY <1>1
  <2> QED
    BY <1>2, <2>1 DEF Seqs!Last
<1>4. \A k \in 1 .. l : next[chain[k]] = chain[k + 1] /\ previous[chain[k + 1]] = chain[k]
  <2> SUFFICES ASSUME NEW k \in 1 .. l
               PROVE  next[chain[k]] = chain[k + 1] /\ previous[chain[k + 1]] = chain[k]
    OBVIOUS
  <2>1. k \in 1 .. l + 1 /\ k + 1 \in 1 .. l + 1 /\ (k + 1) - 1 = k /\ k # 0
    BY <1>1
  <2>2. chain[k] = Chain(meant, k - 1) /\ chain[k + 1] = meant[k]
    BY <1>2, <2>1 DEF Chain
  <2> QED
    BY <1>1, <2>2
<1> QED
  BY <1>1, <1>3, <1>4 DEF Linked, l, chain

\* For any nodes: every variable of a list has a value the code can give it.
THEOREM ListTypeCorrect == ListSpec => []ListTypeOK
<1>1. ListInv => ListTypeOK
  BY DEF ListInv
<1> QED
  BY <1>1, ListInvariant, PTL

\* Whatever was inserted and removed, the links forward and back lead through the nodes the list should
\* hold, until a node is inserted after one that is not the last or a list is cleared that holds some.
THEOREM ListLinked == ListSpec => []Linked
<1>1. ListInv => Linked
  BY ChainLinked
<1> QED
  BY <1>1, ListInvariant, PTL

\* A traversal ends, unless DelFirst once took the only node.
THEOREM TraversalEnds == ListSpec => []TraverseEnds
<1>1. ListInv => TraverseEnds
  BY DEF ListInv
<1> QED
  BY <1>1, ListInvariant, PTL

-----------------------------------------------------------------------------
(* MsgRing *)

Under == IF putting = "none" THEN 0 ELSE 1

\* A put under way has its slot, and one slot stays free with it.  No other thread has moved the index
\* of a put or of a get under way.  The message in hand lies just before the oldest.
RingInv ==
  /\ RingTypeOK
  /\ InRing + Under <= MsgNum - 1
  /\ putting # "none" => slot = dwPutIndex
  /\ putting = "move" => atItem[dwPutIndex] = item
  /\ getting # 0 => dwGetIndex = getting
  /\ \A s \in held : Succ(s) = Oldest

\* What holds always, and what holds until a put goes past a get or the ring is cleared under one.
RingState == RingTypeOK /\ (~spoilt => RingInv)

Stored == Items \cup {NoItem}

USE ItemsAssumption, MsgNumAssumption

LEMMA Indices ==
  ASSUME RingTypeOK
  PROVE  /\ Oldest \in RingSlots /\ InRing \in 0 .. MsgNum - 1
         /\ \A s \in RingSlots : Succ(s) \in RingSlots
         /\ \A k \in 1 .. MsgNum : SlotOf(k) \in RingSlots
         /\ SlotOf(InRing + 1) = dwPutIndex
         /\ \A k \in 1 .. InRing : SlotOf(k) # dwPutIndex
         /\ (InRing = MsgNum - 1) = (Succ(dwPutIndex) = Oldest)
  BY DEF RingTypeOK, Oldest, Wrapped, RingSlots, InRing, Succ, SlotOf

\* What waits in the ring is a sequence of messages.
WaitingIsSeq ==
  /\ Waiting \in Seq(Stored) /\ Len(Waiting) = InRing
  /\ \A k \in 1 .. InRing : Waiting[k] = atItem[SlotOf(k)]

LEMMA WaitingSeq == RingTypeOK => WaitingIsSeq
<1> SUFFICES ASSUME RingTypeOK PROVE WaitingIsSeq
  OBVIOUS
<1>1. Waiting \in [1 .. InRing -> Stored]
  <2>1. \A k \in 1 .. InRing : SlotOf(k) \in RingSlots
    BY Indices
  <2> QED
    BY <2>1 DEF Waiting, RingTypeOK, Stored
<1>2. InRing \in Nat
  BY Indices
<1>3. Waiting \in Seq(Stored)
  BY <1>1, <1>2, SeqDef
<1>4. Len(Waiting) = InRing
  BY <1>1, <1>2, <1>3, LenProperties
<1> QED
  BY <1>3, <1>4 DEF Waiting, WaitingIsSeq

LEMMA WaitingSeqNext == RingTypeOK' => WaitingIsSeq'
  BY WaitingSeq, PTL

-----------------------------------------------------------------------------
(* The steps *)

\* A step that moves neither index and stores outside what waits and what is in hand is none of the
\* queue's.
LEMMA SameQueue ==
  ASSUME RingTypeOK, RingTypeOK', Oldest' = Oldest, dwPutIndex' = dwPutIndex, held' = held,
         \A k \in 1 .. InRing : atItem'[SlotOf(k)] = atItem[SlotOf(k)],
         \A s \in held : atItem'[s] = atItem[s]
  PROVE  Waiting' = Waiting /\ InHand' = InHand /\ InRing' = InRing
<1>1. InRing' = InRing /\ (\A k : SlotOf(k)' = SlotOf(k))
  BY DEF InRing, SlotOf
<1>2. Waiting' = Waiting
  BY <1>1 DEF Waiting
<1>3. InHand' = InHand
  BY DEF InHand
<1> QED
  BY <1>1, <1>2, <1>3

LEMMA PutCheckStep ==
  ASSUME RingInv, NEW i \in Items, PutCheck(i), ~Unseen
  PROVE  RingInv' /\ Waiting' = Waiting /\ InHand' = InHand
<1>1. RingTypeOK'
  BY DEF RingInv, RingTypeOK, PutCheck
<1>2. Oldest' = Oldest /\ InRing' = InRing
  BY DEF PutCheck, Oldest, Wrapped, InRing
<1>3. Waiting' = Waiting /\ InHand' = InHand
  BY <1>1, <1>2, SameQueue DEF PutCheck, RingInv
<1>4. InRing \in Nat /\ InRing <= MsgNum - 2
  <2>1. Succ(dwPutIndex) # Oldest
    BY DEF RingInv, RingTypeOK, PutCheck, Unseen, Oldest, Wrapped, RingSlots, Succ
  <2> QED
    BY <2>1, Indices DEF RingInv
<1>5. RingInv'
  BY <1>1, <1>2, <1>4 DEF RingInv, PutCheck, Under
<1> QED
  BY <1>3, <1>5

LEMMA PutStoreStep ==
  ASSUME RingInv, PutStore
  PROVE  RingInv' /\ Waiting' = Waiting /\ InHand' = InHand
<1>1. RingTypeOK' /\ atItem'[dwPutIndex] = item /\ slot = dwPutIndex
  BY DEF RingInv, RingTypeOK, PutStore
<1>2. Oldest' = Oldest /\ InRing' = InRing /\ InRing <= MsgNum - 2
  BY Indices DEF PutStore, Oldest, Wrapped, InRing, RingInv, Under
<1>3. \A s \in RingSlots \ {dwPutIndex} : atItem'[s] = atItem[s]
  BY <1>1 DEF PutStore, RingInv, RingTypeOK
<1>4. \A k \in 1 .. InRing : SlotOf(k) \in RingSlots \ {dwPutIndex}
  BY Indices DEF RingInv
<1>5. \A s \in held : s \in RingSlots \ {dwPutIndex}
  <2>1. Succ(dwPutIndex) # Oldest
    BY <1>2, Indices DEF RingInv
  <2> QED
    BY <2>1 DEF RingInv, RingTypeOK
<1>6. Waiting' = Waiting /\ InHand' = InHand
  BY <1>1, <1>2, <1>3, <1>4, <1>5, SameQueue DEF RingInv, PutStore
<1>7. RingInv'
  BY <1>1, <1>2 DEF RingInv, PutStore, Under
<1> QED
  BY <1>6, <1>7

LEMMA PutMoveStep ==
  ASSUME RingInv, PutMove
  PROVE  RingInv' /\ Queue!Put
<1>moved. dwPutIndex' = Succ(dwPutIndex)
  BY DEF RingInv, PutMove
<1>1. RingTypeOK'
  BY <1>moved, Indices DEF RingInv, RingTypeOK, PutMove
<1>2. Oldest' = Oldest /\ InRing' = InRing + 1 /\ InRing <= MsgNum - 2
  BY <1>moved, Indices DEF PutMove, Oldest, Wrapped, InRing, RingInv, RingTypeOK, RingSlots, Under, Succ
<1>3. RingInv'
  BY <1>1, <1>2, Indices DEF RingInv, PutMove, Under
<1>4. InHand' = InHand /\ closed' = closed
  BY DEF InHand, PutMove
<1>5. Waiting' = Append(Waiting, item)
  <2>1. /\ Waiting \in Seq(Stored) /\ Len(Waiting) = InRing /\ InRing \in Nat
        /\ \A k \in 1 .. InRing : Waiting[k] = atItem[SlotOf(k)]
    BY WaitingSeq, Indices DEF RingInv, WaitingIsSeq
  <2>2. /\ Waiting' \in Seq(Stored) /\ Len(Waiting') = InRing + 1
        /\ \A k \in 1 .. InRing + 1 : Waiting'[k] = atItem[SlotOf(k)]
    <3>1. atItem' = atItem /\ (\A k : SlotOf(k)' = SlotOf(k))
      BY <1>2 DEF PutMove, SlotOf
    <3> QED
      BY <1>1, <1>2, <3>1, WaitingSeqNext DEF Stored, WaitingIsSeq
  <2>3. item \in Stored
    BY DEF RingInv, RingTypeOK, Stored
  <2>4. /\ Append(Waiting, item) \in Seq(Stored) /\ Len(Append(Waiting, item)) = InRing + 1
        /\ \A k \in 1 .. InRing : Append(Waiting, item)[k] = Waiting[k]
        /\ Append(Waiting, item)[InRing + 1] = item
    BY <2>1, <2>3, AppendProperties
  <2>5. atItem[SlotOf(InRing + 1)] = item
    BY Indices DEF RingInv, PutMove
  <2>6. \A k \in 1 .. InRing + 1 : Waiting'[k] = Append(Waiting, item)[k]
    <3>1. \A k \in 1 .. InRing + 1 : k \in 1 .. InRing \/ k = InRing + 1
      BY <2>1
    <3> QED
      BY <2>1, <2>2, <2>4, <2>5, <3>1
  <2> QED
    BY <2>2, <2>4, <2>6, SeqEqual
<1>6. item \in Items /\ Len(Waiting) < MsgNum - 1
  BY <1>2, WaitingSeq, Indices DEF RingInv, RingTypeOK, PutMove, WaitingIsSeq
<1> QED
  BY <1>3, <1>4, <1>5, <1>6 DEF Queue!Put

LEMMA GetIncrementStep ==
  ASSUME RingInv, GetIncrement
  PROVE  RingInv' /\ Queue!Get
<1>1. dwGetIndex \in RingSlots /\ Oldest = dwGetIndex /\ Oldest' = Succ(dwGetIndex)
  BY DEF RingInv, RingTypeOK, GetIncrement, Oldest, Wrapped, Succ, RingSlots
<1>2. RingTypeOK'
  BY <1>1 DEF RingInv, RingTypeOK, GetIncrement, RingSlots
<1>3. InRing \in Nat /\ InRing # 0 /\ InRing' = InRing - 1
  BY <1>1, Indices DEF GetIncrement, InRing, RingInv, RingTypeOK, RingSlots, Succ
<1>4. RingInv'
  <2>1. \A s \in held' : Succ(s)' = Oldest'
    BY <1>1 DEF GetIncrement, Succ
  <2>2. Under' = Under /\ Under \in 0 .. 1
    BY DEF Under, GetIncrement
  <2> QED
    BY <1>2, <1>3, <2>1, <2>2 DEF RingInv, GetIncrement
<1>5. /\ Waiting \in Seq(Stored) /\ Len(Waiting) = InRing
      /\ \A k \in 1 .. InRing : Waiting[k] = atItem[SlotOf(k)]
  BY WaitingSeq DEF RingInv, WaitingIsSeq
<1>6. Waiting # <<>>
  BY <1>3, <1>5, EmptySeq
<1>7. Head(Waiting) = atItem[dwGetIndex]
  <2>1. Head(Waiting) = Waiting[1]
    BY <1>5, <1>6
  <2>2. SlotOf(1) = dwGetIndex
    BY <1>1 DEF SlotOf, RingSlots
  <2> QED
    BY <1>3, <1>5, <2>1, <2>2
<1>8. InHand' = atItem[dwGetIndex]
  BY DEF InHand, GetIncrement
<1>9. Waiting' = Tail(Waiting)
  <2>1. /\ Tail(Waiting) \in Seq(Stored) /\ Len(Tail(Waiting)) = InRing - 1
        /\ \A k \in 1 .. InRing - 1 : Tail(Waiting)[k] = Waiting[k + 1]
    BY <1>5, <1>6, HeadTailProperties
  <2>2. /\ Waiting' \in Seq(Stored) /\ Len(Waiting') = InRing - 1
        /\ \A k \in 1 .. InRing - 1 : Waiting'[k] = atItem[SlotOf(k)']
    <3>1. atItem' = atItem /\ Stored' = Stored
      BY DEF GetIncrement, Stored
    <3> QED
      BY <1>2, <1>3, <3>1, WaitingSeqNext DEF Stored, WaitingIsSeq
  <2>3. \A k \in 1 .. InRing - 1 : SlotOf(k)' = SlotOf(k + 1)
    <3>1. Oldest \in 0 .. MsgNum - 1 /\ Oldest' = IF Oldest + 1 = MsgNum THEN 0 ELSE Oldest + 1
      BY <1>1 DEF Succ, RingSlots
    <3>2. \A k \in 1 .. InRing - 1 : k \in Nat /\ k < MsgNum
      BY <1>3, Indices DEF RingInv
    <3> QED
      BY <3>1, <3>2 DEF SlotOf
  <2>4. \A k \in 1 .. InRing - 1 : Waiting'[k] = Tail(Waiting)[k]
    BY <1>3, <1>5, <2>1, <2>2, <2>3
  <2> QED
    BY <2>1, <2>2, <2>4, SeqEqual
<1> QED
  BY <1>4, <1>6, <1>7, <1>8, <1>9 DEF Queue!Get, GetIncrement

LEMMA GetWrapStep ==
  ASSUME RingInv, GetWrap
  PROVE  RingInv' /\ Waiting' = Waiting /\ InHand' = InHand
<1>1. RingTypeOK' /\ Oldest' = Oldest
  <2>3. dwGetIndex' = Wrapped(dwGetIndex)
    BY DEF RingInv, GetWrap
  <2>1. dwGetIndex' \in RingSlots /\ dwGetIndex' \in 0 .. MsgNum /\ dwGetIndex' # MsgNum
    BY <2>3 DEF RingInv, RingTypeOK, Wrapped, RingSlots
  <2>2. Oldest' = Oldest
    BY <2>1, <2>3 DEF Oldest, Wrapped
  <2> QED
    BY <2>1, <2>2 DEF RingInv, RingTypeOK, GetWrap
<1>2. Waiting' = Waiting /\ InHand' = InHand /\ InRing' = InRing
  BY <1>1, SameQueue DEF RingInv, GetWrap
<1>3. RingInv'
  BY <1>1, <1>2 DEF RingInv, GetWrap, Under, Succ
<1> QED
  BY <1>2, <1>3

LEMMA RingCleared ==
  ASSUME dwPutIndex = 0, dwGetIndex = 0, atItem = [s \in RingSlots |-> NoItem], held = {},
         putting = "none", getting = 0, RingTypeOK
  PROVE  RingInv /\ Waiting = <<>> /\ InHand = NoItem
<1>1. InRing = 0 /\ Under = 0
  BY DEF InRing, Oldest, Wrapped, Under
<1>2. Waiting = <<>>
  BY <1>1, WaitingSeq, EmptySeq DEF WaitingIsSeq
<1> QED
  BY <1>1, <1>2 DEF RingInv, InHand

LEMMA RingClearStep ==
  ASSUME RingTypeOK, RingClear, ~spoilt'
  PROVE  RingInv' /\ Queue!Close
<1>1. RingTypeOK'
  BY DEF RingTypeOK, RingClear, RingSlots
<1>3. putting' = "none" /\ getting' = 0
  BY DEF RingTypeOK, RingClear
<1>2. RingInv' /\ Waiting' = <<>> /\ InHand' = NoItem
  <2>1. InRing' = 0 /\ Under' = 0
    BY <1>3 DEF InRing, Oldest, Wrapped, Under, RingClear
  <2>2. Waiting' = <<>>
    BY <1>1, <2>1, WaitingSeqNext, EmptySeq DEF WaitingIsSeq
  <2> QED
    BY <1>1, <1>3, <2>1, <2>2 DEF RingInv, InHand, RingClear
<1> QED
  BY <1>2 DEF Queue!Close, RingClear

LEMMA RingStart == RingInit => RingState /\ Queue!Init
<1> SUFFICES ASSUME RingInit PROVE RingState /\ Queue!Init
  OBVIOUS
<1>1. RingTypeOK
  <2>1. 0 \in RingSlots /\ 0 \in 0 .. MsgNum
    BY DEF RingSlots
  <2>2. atItem \in [RingSlots -> Items \cup {NoItem}]
    BY DEF RingInit
  <2> QED
    BY <2>1, <2>2 DEF RingInit, RingTypeOK
<1> QED
  BY <1>1, RingCleared DEF RingInit, RingState, Queue!Init

LEMMA RingTypeStep == RingTypeOK /\ [RingNext]_ringvars => RingTypeOK'
<1> SUFFICES ASSUME RingTypeOK, [RingNext]_ringvars PROVE RingTypeOK'
  OBVIOUS
<1>1. ASSUME NEW i \in Items, PutCheck(i) PROVE RingTypeOK'
  BY <1>1 DEF RingTypeOK, PutCheck
<1>2. CASE PutStore
  BY <1>2 DEF RingTypeOK, PutStore
<1>3. CASE PutMove
  BY <1>3, Indices DEF RingTypeOK, PutMove
<1>4. CASE GetIncrement
  BY <1>4 DEF RingTypeOK, GetIncrement, RingSlots
<1>5. CASE GetWrap
  BY <1>5 DEF RingTypeOK, GetWrap, Wrapped, RingSlots
<1>6. CASE RingClear
  BY <1>6 DEF RingTypeOK, RingClear, RingSlots
<1>7. CASE UNCHANGED ringvars
  BY <1>7 DEF RingTypeOK, ringvars
<1> QED
  BY <1>1, <1>2, <1>3, <1>4, <1>5, <1>6, <1>7 DEF RingNext

\* A step after which nothing has gone past another is one of the queue's, or none.
LEMMA RingGoodStep ==
  ASSUME RingState, [RingNext]_ringvars, ~spoilt'
  PROVE  RingInv' /\ [Queue!Next]_<<Waiting, InHand, closed>>
<1>clear. CASE RingClear
  BY <1>clear, RingClearStep DEF RingState, Queue!Next
<1>quiet. ASSUME ~RingClear PROVE ~spoilt
  BY <1>quiet DEF RingNext, ringvars, PutCheck, PutStore, PutMove, GetIncrement, GetWrap
<1>1. ASSUME NEW i \in Items, PutCheck(i), RingInv
      PROVE  RingInv' /\ UNCHANGED <<Waiting, InHand, closed>>
  BY <1>1, PutCheckStep DEF PutCheck
<1>2. ASSUME RingInv, PutStore PROVE RingInv' /\ UNCHANGED <<Waiting, InHand, closed>>
  BY <1>2, PutStoreStep DEF PutStore
<1>3. ASSUME RingInv, PutMove PROVE RingInv' /\ Queue!Next
  BY <1>3, PutMoveStep DEF Queue!Next
<1>4. ASSUME RingInv, GetIncrement PROVE RingInv' /\ Queue!Next
  BY <1>4, GetIncrementStep DEF Queue!Next
<1>5. ASSUME RingInv, GetWrap PROVE RingInv' /\ UNCHANGED <<Waiting, InHand, closed>>
  BY <1>5, GetWrapStep DEF GetWrap
<1>6. ASSUME RingInv, UNCHANGED ringvars PROVE RingInv' /\ UNCHANGED <<Waiting, InHand, closed>>
  <2>1. RingTypeOK' /\ Oldest' = Oldest
    BY <1>6 DEF RingInv, RingTypeOK, ringvars, Oldest, Wrapped, RingSlots
  <2>2. Waiting' = Waiting /\ InHand' = InHand /\ InRing' = InRing
    BY <1>6, <2>1, SameQueue DEF ringvars, RingInv
  <2> QED
    BY <1>6, <2>1, <2>2 DEF RingInv, ringvars, Under, Succ
<1>7. ~RingClear => RingInv
  BY <1>quiet DEF RingState
<1> QED
  BY <1>1, <1>2, <1>3, <1>4, <1>5, <1>6, <1>7, <1>clear DEF RingNext

LEMMA RingStep == RingState /\ [RingNext]_ringvars =>
  RingState' /\ [~spoilt' => Queue!Next]_<<Waiting, InHand, closed>>
<1> SUFFICES ASSUME RingState, [RingNext]_ringvars
             PROVE  RingState' /\ [~spoilt' => Queue!Next]_<<Waiting, InHand, closed>>
  OBVIOUS
<1>1. RingTypeOK'
  BY RingTypeStep DEF RingState
<1> QED
  BY <1>1, RingGoodStep DEF RingState

\* Every variable of the ring has a value the code can give it (modem.h:70-84).
THEOREM RingTypeCorrect == RingSpec => []RingTypeOK
<1>1. RingState => RingTypeOK
  BY DEF RingState
<1> QED
  BY <1>1, RingStart, RingStep, PTL DEF RingSpec

\* The ring implements the bounded queue, with one slot less than it has, until a put goes past a get or
\* the ring is cleared under one: messages come out once each and in order, and the one in hand is not
\* overwritten, although neither side takes a lock (ModemMsgPut, ModemMsgGet).
THEOREM RingImplementsQueue == RingSpec => RingIsQueue
  BY RingStart, RingStep, PTL DEF RingSpec, RingIsQueue

-----------------------------------------------------------------------------
(* OssNet *)

NetInv == NetTypeOK /\ SessionsListed

USE ClientsAssumption, ConnSlotsAssumption, MaxUnreadAssumption

LEMMA Zero == 0 \in 0 .. MaxUnread
  OBVIOUS

LEMMA LowestOfOne == \A i \in Conns : Lowest({i}) = i
  BY DEF Lowest, Conns

\* The open sessions and the table, one for one.
LEMMA ListedOnce ==
  ASSUME NetTypeOK
  PROVE  SessionsListed <=>
           /\ \A c \in Clients : socket[c] = "open" <=> \E i \in Conns : gatClientConn[i] = c
           /\ \A i, j \in Conns : gatClientConn[i] = gatClientConn[j] /\ gatClientConn[i] # NoClient => i = j
<1>1. \A i \in Conns : gatClientConn[i] \in Clients \cup {NoClient}
  BY DEF NetTypeOK
<1>2. InTable = {c \in Clients : socket[c] = "open"}
        <=> (\A c \in Clients : socket[c] = "open" <=> \E i \in Conns : gatClientConn[i] = c)
  BY <1>1 DEF InTable
<1> QED
  BY <1>2 DEF SessionsListed

LEMMA ListedNext ==
  ASSUME NetTypeOK'
  PROVE  SessionsListed' <=>
           /\ \A c \in Clients : socket'[c] = "open" <=> \E i \in Conns : gatClientConn'[i] = c
           /\ \A i, j \in Conns : gatClientConn'[i] = gatClientConn'[j] /\ gatClientConn'[i] # NoClient => i = j
<1>1. \A i \in Conns : gatClientConn'[i] \in Clients \cup {NoClient}
  BY DEF NetTypeOK
<1>2. InTable' = {c \in Clients : socket'[c] = "open"}
        <=> (\A c \in Clients : socket'[c] = "open" <=> \E i \in Conns : gatClientConn'[i] = c)
  BY <1>1 DEF InTable
<1> QED
  BY <1>2 DEF SessionsListed

-----------------------------------------------------------------------------
(* The steps *)

LEMMA NetStart == NetInit => NetInv
<1> SUFFICES ASSUME NetInit PROVE NetInv
  OBVIOUS
<1>1. NetTypeOK
  BY Zero DEF NetInit, NetTypeOK
<1>2. SessionsListed
  BY <1>1, ListedOnce DEF NetInit
<1> QED
  BY <1>1, <1>2, Zero DEF NetInit, NetInv

\* The peers, and the steps of a call that leave the table alone.
LEMMA QuietStep ==
  ASSUME NetInv, gatClientConn' = gatClientConn,
         \A c \in Clients : (socket'[c] = "open") = (socket[c] = "open"),
         NetTypeOK'
  PROVE  NetInv'
  BY ListedOnce, ListedNext DEF NetInv

LEMMA PeerStep ==
  ASSUME NetInv, NEW c \in Clients, Connect(c) \/ ClientSend(c) \/ HangUp(c)
  PROVE  NetInv'
<1>1. CASE Connect(c)
  <2>1. NetTypeOK'
    BY <1>1 DEF NetInv, NetTypeOK, Connect
  <2> QED
    BY <1>1, <2>1, QuietStep DEF Connect, NetInv, NetTypeOK
<1>2. CASE ClientSend(c)
  <2>1. unread[c] + 1 \in 0 .. MaxUnread
    BY <1>2 DEF NetInv, NetTypeOK, ClientSend
  <2>2. NetTypeOK'
    BY <1>2, <2>1 DEF NetInv, NetTypeOK, ClientSend
  <2> QED
    BY <1>2, <2>2, QuietStep DEF ClientSend
<1>3. CASE HangUp(c)
  <2>1. NetTypeOK'
    BY <1>3 DEF NetInv, NetTypeOK, HangUp
  <2> QED
    BY <1>3, <2>1, QuietStep DEF HangUp
<1> QED
  BY <1>1, <1>2, <1>3

LEMMA AcceptStep ==
  ASSUME NetInv, NEW c \in Clients, Accept(c)
  PROVE  NetInv'
<1>1. PICK i \in Conns : gatClientConn[i] = NoClient /\ gatClientConn' = [gatClientConn EXCEPT ![i] = c]
  BY DEF Accept, Into
<1>2. socket[c] = "waiting"
  BY DEF Accept, Waiters
<1>3. NetTypeOK'
  BY <1>1 DEF NetInv, NetTypeOK, Accept
<1>4. \A j \in Conns : gatClientConn'[j] = IF j = i THEN c ELSE gatClientConn[j]
  BY <1>1 DEF NetInv, NetTypeOK
<1>5. \A d \in Clients : socket'[d] = IF d = c THEN "open" ELSE socket[d]
  BY DEF Accept, NetInv, NetTypeOK
\* The client was not in the table, for it was not open.
<1>6. \A j \in Conns : gatClientConn[j] # c
  BY <1>2, ListedOnce DEF NetInv
<1>7. SessionsListed'
  <2>1. \A d \in Clients : socket'[d] = "open" <=> \E j \in Conns : gatClientConn'[j] = d
    BY <1>1, <1>4, <1>5, ListedOnce DEF NetInv
  <2>2. \A j, k \in Conns : gatClientConn'[j] = gatClientConn'[k] /\ gatClientConn'[j] # NoClient => j = k
    BY <1>4, <1>6, ListedOnce DEF NetInv
  <2> QED
    BY <1>3, <2>1, <2>2, ListedNext
<1> QED
  BY <1>3, <1>7 DEF NetInv

LEMMA CallStep ==
  ASSUME NetInv, NetSetSocketQueue \/ RecvDatagram \/ RecvClient \/ SelectTimeout \/ Datagram
  PROVE  NetInv'
<1>1. CASE NetSetSocketQueue
  <2>1. InTable \subseteq Clients
    BY DEF InTable, NetInv, NetTypeOK
  <2>2. NetTypeOK'
    BY <1>1, <2>1 DEF NetInv, NetTypeOK, NetSetSocketQueue, Selected
  <2> QED
    BY <1>1, <2>2, QuietStep DEF NetSetSocketQueue
<1>2. CASE RecvDatagram
  <2>1. datagrams - 1 \in 0 .. MaxUnread
    BY <1>2 DEF NetInv, NetTypeOK, RecvDatagram
  <2>2. NetTypeOK'
    BY <1>2, <2>1 DEF NetInv, NetTypeOK, RecvDatagram
  <2> QED
    BY <1>2, <2>2, QuietStep DEF RecvDatagram
<1>3. CASE RecvClient
  <2>1. PICK i \in Conns : /\ unread[gatClientConn[i]] > 0 /\ gatClientConn[i] \in read_all
                           /\ unread' = [unread EXCEPT ![gatClientConn[i]] = @ - 1]
    BY <1>3 DEF RecvClient
  <2>2. gatClientConn[i] \in Clients /\ unread[gatClientConn[i]] \in 1 .. MaxUnread
    BY <2>1 DEF NetInv, NetTypeOK
  <2>4. unread' \in [Clients -> 0 .. MaxUnread]
    BY <2>1, <2>2 DEF NetInv, NetTypeOK
  <2>3. NetTypeOK'
    BY <1>3, <2>4 DEF NetInv, NetTypeOK, RecvClient
  <2> QED
    BY <1>3, <2>3, QuietStep DEF RecvClient
<1>4. CASE SelectTimeout
  <2>1. NetTypeOK'
    BY <1>4 DEF NetInv, NetTypeOK, SelectTimeout
  <2> QED
    BY <1>4, <2>1, QuietStep DEF SelectTimeout
<1>5. CASE Datagram
  <2>1. datagrams + 1 \in 0 .. MaxUnread
    BY <1>5 DEF NetInv, NetTypeOK, Datagram
  <2>2. NetTypeOK'
    BY <1>5, <2>1 DEF NetInv, NetTypeOK, Datagram
  <2> QED
    BY <1>5, <2>2, QuietStep DEF Datagram
<1> QED
  BY <1>1, <1>2, <1>3, <1>4, <1>5

LEMMA RefuseStep ==
  ASSUME NetInv, NEW c \in Clients, Refuse(c)
  PROVE  NetInv'
<1>1. NetTypeOK'
  BY Zero DEF NetInv, NetTypeOK, Refuse
<1>2. \A d \in Clients : (socket'[d] = "open") = (socket[d] = "open")
  BY DEF Refuse, Waiters, NetInv, NetTypeOK
<1> QED
  BY <1>1, <1>2, QuietStep DEF Refuse

LEMMA CloseStep ==
  ASSUME NetInv, NEW c \in Clients, CloseClientConn(c)
  PROVE  NetInv'
<1>1. PICK i \in Conns : gatClientConn[i] = c
  BY DEF CloseClientConn, InTable
\* The slot is the only one of the client, so that none is left over.
<1>2. {j \in Conns : gatClientConn[j] = c} = {i}
  BY <1>1 DEF NetInv, SessionsListed
<1>3. gatClientConn' = [gatClientConn EXCEPT ![i] = NoClient]
  BY <1>2, LowestOfOne DEF CloseClientConn, Freed
<1>4. NetTypeOK'
  <2>1. socket' \in [Clients -> {"idle", "waiting", "open", "refused", "closed"}]
    BY DEF CloseClientConn, NetInv, NetTypeOK
  <2>2. gatClientConn' \in [Conns -> Clients \cup {NoClient}]
    BY <1>3 DEF NetInv, NetTypeOK
  <2>3. unread' \in [Clients -> 0 .. MaxUnread]
    BY Zero DEF CloseClientConn, NetInv, NetTypeOK
  <2> QED
    BY <2>1, <2>2, <2>3 DEF NetInv, NetTypeOK, CloseClientConn
<1>5. \A j \in Conns : gatClientConn'[j] = IF j = i THEN NoClient ELSE gatClientConn[j]
  BY <1>3 DEF NetInv, NetTypeOK
<1>6. \A d \in Clients : socket'[d] = IF d = c THEN "closed" ELSE socket[d]
  BY DEF CloseClientConn, NetInv, NetTypeOK
<1>7. SessionsListed'
  <2>1. \A d \in Clients : socket'[d] = "open" <=> \E j \in Conns : gatClientConn'[j] = d
    BY <1>1, <1>2, <1>5, <1>6, ListedOnce DEF NetInv
  <2>2. \A j, k \in Conns : gatClientConn'[j] = gatClientConn'[k] /\ gatClientConn'[j] # NoClient => j = k
    BY <1>5, ListedOnce DEF NetInv
  <2> QED
    BY <1>4, <2>1, <2>2, ListedNext
<1> QED
  BY <1>4, <1>7 DEF NetInv

LEMMA NetStep == NetInv /\ [NetNext]_netvars => NetInv'
<1> SUFFICES ASSUME NetInv, [NetNext]_netvars PROVE NetInv'
  OBVIOUS
<1>1. CASE \E c \in Clients : Accept(c) \/ Refuse(c)
  BY <1>1, AcceptStep, RefuseStep
<1>2. CASE \E c \in Clients : Connect(c) \/ ClientSend(c) \/ HangUp(c) \/ CloseClientConn(c)
  BY <1>2, PeerStep, CloseStep
<1>3. CASE NetSetSocketQueue \/ RecvDatagram \/ RecvClient \/ SelectTimeout \/ Datagram
  BY <1>3, CallStep
<1>4. CASE UNCHANGED netvars
  <2>1. NetTypeOK'
    BY <1>4 DEF NetInv, NetTypeOK, netvars
  <2> QED
    BY <1>4, <2>1, QuietStep DEF netvars
<1> QED
  BY <1>1, <1>2, <1>3, <1>4 DEF NetNext, NetRecvMsg

\* Every variable has a value the code can give it (NetRecvMsg and its peers).
THEOREM NetTypeCorrect == NetSpec => []NetTypeOK
<1>1. NetInv => NetTypeOK
  BY DEF NetInv
<1> QED
  BY <1>1, NetStart, NetStep, PTL DEF NetSpec

\* The sessions that are open are those of the table, one slot each, whenever clients come and go
\* (NetConnectNewClientConn, NetConnectCloseClientConn).
THEOREM SessionsAreListed == NetSpec => []SessionsListed
<1>1. NetInv => SessionsListed
  BY DEF NetInv
<1> QED
  BY <1>1, NetStart, NetStep, PTL DEF NetSpec
=============================================================================
