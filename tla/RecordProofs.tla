---------------------------- MODULE RecordProofs ----------------------------
(* Theorems about MerkleTree and Records, for lists of any length and any    *)
(* nodes, transactions and retries.                                          *)
EXTENDS AlgorithmProofs, MerkleTree, Records

-----------------------------------------------------------------------------
(* The widths of the levels of a Merkle tree.                                *)

IsWidths(f, n, k) ==
    f = [l \in 0 .. k |-> IF l = 0 THEN n ELSE (f[l - 1] + 1) \div 2]

LEMMA WidthsStep ==
    ASSUME NEW f, NEW n, NEW k \in Nat, IsWidths(f, n, k)
    PROVE  f[0] = n /\ \A l \in 1 .. k : f[l] = (f[l - 1] + 1) \div 2
<1>1. 0 \in 0 .. k
    OBVIOUS
<1>2. ASSUME NEW l \in 1 .. k PROVE f[l] = (f[l - 1] + 1) \div 2
  <2>1. l \in 0 .. k /\ l # 0
    OBVIOUS
  <2> QED BY <2>1, Zenon DEF IsWidths
<1> QED BY <1>1, <1>2, Zenon DEF IsWidths

LEMMA WidthsExist ==
    ASSUME NEW n \in Nat, NEW k \in Nat
    PROVE  \E f \in [0 .. k -> Nat] :
               /\ Width(n, k) = f[k] /\ f[0] = n
               /\ \A l \in 1 .. k : f[l] = (f[l - 1] + 1) \div 2
<1> DEFINE g == [p \in Nat \X (1 .. k) |-> (p[1] + 1) \div 2]
<1>1. g \in [Nat \X (1 .. k) -> Nat]
  <2>1. \A p \in Nat \X (1 .. k) : (p[1] + 1) \div 2 \in Nat
    OBVIOUS
  <2> QED BY <2>1
<1>2. PICK f \in [0 .. k -> Nat] : Obeys(f, g, n, k)
  <2> HIDE DEF g
  <2> QED BY <1>1, Recursion
<1>3. \A l \in 1 .. k : f[l] = (f[l - 1] + 1) \div 2
  <2>1. ASSUME NEW l \in 1 .. k PROVE f[l] = (f[l - 1] + 1) \div 2
    <3>1. <<f[l - 1], l>> \in Nat \X (1 .. k)
      OBVIOUS
    <3> QED BY <1>2, <3>1 DEF Obeys
  <2> QED BY <2>1
<1>4. IsWidths(f, n, k)
  <2>1. f[0] = n /\ f = [l \in 0 .. k |-> f[l]]
    BY <1>2 DEF Obeys
  <2>2. \A l \in 0 .. k : l = 0 \/ (l # 0 /\ l \in 1 .. k)
    OBVIOUS
  <2>3. \A l \in 0 .. k : f[l] = IF l = 0 THEN n ELSE (f[l - 1] + 1) \div 2
    BY <1>3, <2>1, <2>2, Zenon
  <2> QED BY <2>1, <2>3, Zenon DEF IsWidths
<1> HIDE DEF g
<1> DEFINE w == CHOOSE h : IsWidths(h, n, k)
<1>5. IsWidths(w, n, k)
    BY <1>4
<1>6. Width(n, k) = w[k]
    BY DEF Width, IsWidths
<1> HIDE DEF w
<1>7. w[0] = n /\ \A l \in 1 .. k : w[l] = (w[l - 1] + 1) \div 2
    BY <1>5, WidthsStep
<1>8. w \in [0 .. k -> Nat]
  <2> DEFINE T == {l \in 0 .. k : w[l] \in Nat}
  <2>1. 0 \in T
    BY <1>7
  <2>2. ASSUME NEW l \in 0 .. k - 1, l \in T PROVE l + 1 \in T
    <3>1. l + 1 \in 1 .. k /\ l + 1 - 1 = l
      OBVIOUS
    <3>2. w[l + 1] = (w[l] + 1) \div 2
      BY <1>7, <3>1
    <3>3. w[l] \in Nat
      BY <2>2
    <3>4. w[l + 1] \in Nat
      BY <3>2, <3>3
    <3> QED BY <3>1, <3>4
  <2> HIDE DEF T
  <2>3. 0 .. k \subseteq T
    BY <2>1, <2>2, Reaches
  <2>4. w = [l \in 0 .. k |-> w[l]]
    BY <1>5, Zenon DEF IsWidths
  <2>5. \A l \in 0 .. k : w[l] \in Nat
    BY <2>3 DEF T
  <2> QED BY <2>4, <2>5
<1> QED BY <1>6, <1>7, <1>8

\* A level is half as wide as the one below it, rounded up.
LEMMA Widths ==
    ASSUME NEW n \in Nat
    PROVE  /\ Width(n, 0) = n
           /\ \A k \in Nat : /\ Width(n, k) \in Nat
                             /\ Width(n, k + 1) = (Width(n, k) + 1) \div 2
<1>1. Width(n, 0) = n
    BY WidthsExist
<1>2. ASSUME NEW k \in Nat
      PROVE  /\ Width(n, k) \in Nat
             /\ Width(n, k + 1) = (Width(n, k) + 1) \div 2
  <2>1. PICK f \in [0 .. k -> Nat] :
            /\ Width(n, k) = f[k] /\ f[0] = n
            /\ \A l \in 1 .. k : f[l] = (f[l - 1] + 1) \div 2
    BY WidthsExist
  <2>2. PICK m \in Nat : m = k + 1
    OBVIOUS
  <2>3. PICK g \in [0 .. m -> Nat] :
            /\ Width(n, m) = g[m] /\ g[0] = n
            /\ \A l \in 1 .. m : g[l] = (g[l - 1] + 1) \div 2
    BY WidthsExist
  <2> DEFINE T == {l \in 0 .. k : f[l] = g[l]}
  <2>4. 0 \in T
    BY <2>1, <2>3
  <2>5. ASSUME NEW l \in 0 .. k - 1, l \in T PROVE l + 1 \in T
    <3>1. /\ l + 1 \in 1 .. k /\ l + 1 - 1 = l
          /\ l + 1 \in 1 .. m /\ l + 1 \in 0 .. k
      BY <2>2
    <3>2. f[l + 1] = (f[l] + 1) \div 2
      BY <2>1, <3>1
    <3>3. g[l + 1] = (g[l] + 1) \div 2
      BY <2>3, <3>1
    <3> QED BY <2>5, <3>1, <3>2, <3>3
  <2> HIDE DEF T
  <2>6. 0 .. k \subseteq T
    BY <2>4, <2>5, Reaches
  <2>7. f[k] = g[k]
    BY <2>6 DEF T
  <2>8. g[m] = (g[k] + 1) \div 2
    <3>1. m \in 1 .. m /\ m - 1 = k
      BY <2>2
    <3> QED BY <2>3, <3>1
  <2> QED BY <2>1, <2>2, <2>3, <2>7, <2>8
<1> QED BY <1>1, <1>2

LEMMA Halves ==
    ASSUME NEW w \in Nat
    PROVE  /\ (w + 1) \div 2 \in Nat
           /\ w > 0 => (w + 1) \div 2 > 0
           /\ w > 1 => (w + 1) \div 2 < w
           /\ w = 1 => (w + 1) \div 2 = 1
           /\ \A i \in 1 .. (w + 1) \div 2 : 2 * i - 1 \in 1 .. w
           /\ w % 2 = 0 => (w + 1) \div 2 = w \div 2
           /\ w % 2 = 1 => (w + 1 + 1) \div 2 = (w + 1) \div 2
           /\ w % 2 = 0 => \A i \in 1 .. (w + 1) \div 2 : 2 * i \in 1 .. w
           /\ w % 2 = 1 => \A i \in 1 .. (w + 1) \div 2 : 2 * i \in 1 .. w + 1
OBVIOUS

\* The levels narrow to one, and stay there.
LEMMA DepthIs ==
    ASSUME NEW n \in Nat, n > 0
    PROVE  /\ Depth(n) \in 0 .. n
           /\ Width(n, Depth(n)) = 1
           /\ \A e \in 0 .. Depth(n) - 1 : Width(n, e) # 1
           /\ \A e \in Nat : Width(n, e) > 0
<1>1. /\ Width(n, 0) = n
      /\ \A k \in Nat : /\ Width(n, k) \in Nat
                        /\ Width(n, k + 1) = (Width(n, k) + 1) \div 2
    BY Widths
<1>2. ASSUME NEW e \in Nat PROVE Width(n, e) > 0
  <2> DEFINE T == {l \in 0 .. e : Width(n, l) > 0}
  <2>1. 0 \in T
    BY <1>1
  <2>2. ASSUME NEW l \in 0 .. e - 1, l \in T PROVE l + 1 \in T
    <3>1. l \in Nat /\ l + 1 \in 0 .. e /\ Width(n, l) > 0
      BY <2>2
    <3>2. PICK w \in Nat : w = Width(n, l)
      BY <1>1, <3>1
    <3>3. (w + 1) \div 2 > 0
      BY <3>1, <3>2, Halves
    <3> QED BY <1>1, <3>1, <3>2, <3>3
  <2> HIDE DEF T
  <2>3. 0 .. e \subseteq T
    BY <2>1, <2>2, Reaches
  <2> QED BY <2>3 DEF T
<1>3. Width(n, n) = 1
  <2> DEFINE T == {l \in 0 .. n : Width(n, l) = 1 \/ Width(n, l) <= n - l}
  <2>1. 0 \in T
    BY <1>1
  <2>2. ASSUME NEW l \in 0 .. n - 1, l \in T PROVE l + 1 \in T
    <3>1. l \in Nat /\ l + 1 \in 0 .. n
      OBVIOUS
    <3>2. PICK w \in Nat : w = Width(n, l) /\ w > 0
      BY <1>1, <1>2, <3>1
    <3>3. PICK x \in Nat : x = Width(n, l + 1) /\ x = (w + 1) \div 2
      BY <1>1, <3>1, <3>2
    <3>4. (w = 1 => x = 1) /\ (w > 1 => x < w)
      BY <3>3, <3>2, Halves
    <3>5. w = 1 \/ w <= n - l
      BY <2>2, <3>2
    <3>6. x = 1 \/ x <= n - (l + 1)
      BY <3>1, <3>2, <3>3, <3>4, <3>5
    <3> QED BY <3>1, <3>3, <3>6
  <2> HIDE DEF T
  <2>3. 0 .. n \subseteq T
    BY <2>1, <2>2, Reaches
  <2>4. n \in T
    BY <2>3
  <2>5. Width(n, n) \in Nat /\ Width(n, n) > 0
    BY <1>1, <1>2
  <2> QED BY <2>4, <2>5 DEF T
<1> DEFINE D == {d \in 0 .. n : Width(n, d) = 1}
           P(d) == Width(n, d) = 1 /\ \A e \in 0 .. d - 1 : Width(n, e) # 1
<1>4. D \in SUBSET Int /\ D # {} /\ IsFiniteSet(D)
  <2>1. IsFiniteSet(0 .. n)
    BY FS_Interval
  <2>2. n \in D
    BY <1>3
  <2>3. D \subseteq 0 .. n
    OBVIOUS
  <2> QED BY <2>1, <2>2, <2>3, FS_Subset
<1>5. Min(D) \in D /\ \A x \in D : Min(D) <= x
    BY <1>4, Extremes
<1>6. Min(D) \in 0 .. n /\ P(Min(D))
  <2>1. PICK d \in 0 .. n : d = Min(D) /\ Width(n, d) = 1
    BY <1>5
  <2>2. ASSUME NEW e \in 0 .. d - 1, Width(n, e) = 1 PROVE FALSE
    <3>1. e \in D
      BY <2>2
    <3>2. d <= e
      BY <1>5, <2>1, <3>1
    <3> QED BY <3>2
  <2> HIDE DEF D
  <2> QED BY <2>1, <2>2
<1>7. Depth(n) \in 0 .. n /\ P(Depth(n))
  <2>1. \E d \in 0 .. n : P(d)
    BY <1>6, Zenon
  <2> QED BY <2>1, Zenon DEF Depth
<1> QED BY <1>2, <1>7

-----------------------------------------------------------------------------
(* The nodes of a Merkle tree.                                               *)

\* The level l over the level g below it
Above(s, l, g) ==
    [j \in 1 .. Width(Len(s), l) |->
        Hash(g[2 * j - 1], g[Right(Len(s), l - 1, j)])]

IsNodes(f, s, k) ==
    f = [l \in 0 .. k |->
            IF l = 0 THEN s
              ELSE [j \in 1 .. Width(Len(s), l) |->
                       Hash(f[l - 1][2 * j - 1],
                            f[l - 1][Right(Len(s), l - 1, j)])]]

LEMMA NodesStep ==
    ASSUME NEW f, NEW s, NEW k \in Nat, IsNodes(f, s, k)
    PROVE  f[0] = s /\ \A l \in 1 .. k : f[l] = Above(s, l, f[l - 1])
<1>1. 0 \in 0 .. k
    OBVIOUS
<1>2. ASSUME NEW l \in 1 .. k PROVE f[l] = Above(s, l, f[l - 1])
  <2>1. l \in 0 .. k /\ l # 0
    OBVIOUS
  <2> QED BY <2>1, Zenon DEF IsNodes, Above
<1> QED BY <1>1, <1>2, Zenon DEF IsNodes

LEMMA NodesAre ==
    ASSUME NEW s, NEW k \in Nat, NEW f, f = [l \in 0 .. k |-> f[l]],
           f[0] = s, \A l \in 1 .. k : f[l] = Above(s, l, f[l - 1])
    PROVE  IsNodes(f, s, k)
<1>1. \A l \in 0 .. k : l = 0 \/ (l # 0 /\ l \in 1 .. k)
    OBVIOUS
<1>2. \A l \in 0 .. k : f[l] = IF l = 0 THEN s ELSE Above(s, l, f[l - 1])
    BY <1>1, Zenon
<1> QED BY <1>2, Zenon DEF IsNodes, Above

\* f has the levels of the tree over s up to k.
Tree(f, s, k) ==
    /\ f[0] = s /\ \A l \in 1 .. k : f[l] = Above(s, l, f[l - 1])
    /\ \A i : HashAt(s, k, i) = f[k][i]

LEMMA NodesExist ==
    ASSUME NEW s, NEW k \in Nat
    PROVE  \E f : Tree(f, s, k)
<1> DEFINE T == {m \in 0 .. k : \E f : IsNodes(f, s, m)}
<1>1. 0 \in T
  <2> DEFINE f == [l \in 0 .. 0 |-> s]
  <2>1. f = [l \in 0 .. 0 |-> f[l]] /\ f[0] = s
    OBVIOUS
  <2>2. \A l \in 1 .. 0 : f[l] = Above(s, l, f[l - 1])
    OBVIOUS
  <2> HIDE DEF f
  <2>3. IsNodes(f, s, 0)
    BY <2>1, <2>2, NodesAre
  <2> QED BY <2>3
<1>2. ASSUME NEW m \in 0 .. k - 1, m \in T PROVE m + 1 \in T
  <2>1. PICK f : IsNodes(f, s, m)
    BY <1>2
  <2>2. PICK n \in Nat : n = m + 1 /\ n \in 0 .. k /\ m \in Nat
    OBVIOUS
  <2>3. f[0] = s /\ \A l \in 1 .. m : f[l] = Above(s, l, f[l - 1])
    BY <2>1, <2>2, NodesStep
  <2> DEFINE h == [l \in 0 .. n |-> IF l = n THEN Above(s, n, f[m]) ELSE f[l]]
  <2>4. /\ h = [l \in 0 .. n |-> h[l]] /\ h[n] = Above(s, n, f[m])
        /\ \A l \in 0 .. m : h[l] = f[l]
    BY <2>2
  <2> HIDE DEF h
  <2>5. h[0] = s
    BY <2>2, <2>3, <2>4
  <2>6. ASSUME NEW l \in 1 .. n PROVE h[l] = Above(s, l, h[l - 1])
    <3>1. CASE l = n
      <4>1. l - 1 = m /\ m \in 0 .. m
        BY <2>2, <3>1
      <4>2. h[l - 1] = f[m]
        BY <2>4, <4>1
      <4> QED BY <2>4, <3>1, <4>2
    <3>2. CASE l # n
      <4>1. l \in 1 .. m /\ l \in 0 .. m /\ l - 1 \in 0 .. m
        BY <2>2, <3>2
      <4>2. h[l] = f[l] /\ h[l - 1] = f[l - 1]
        BY <2>4, <4>1
      <4> QED BY <2>3, <4>1, <4>2
    <3> QED BY <3>1, <3>2
  <2>7. IsNodes(h, s, n)
    BY <2>4, <2>5, <2>6, NodesAre
  <2> QED BY <2>2, <2>7
<1> HIDE DEF T
<1>3. k \in T
  <2>1. 0 .. k \subseteq T
    BY <1>1, <1>2, Reaches
  <2> QED BY <2>1
<1> DEFINE f == CHOOSE h : IsNodes(h, s, k)
<1>4. IsNodes(f, s, k)
    BY <1>3 DEF T
<1>5. \A i : HashAt(s, k, i) = f[k][i]
    BY DEF HashAt, IsNodes
<1> HIDE DEF f
<1>6. f[0] = s /\ \A l \in 1 .. k : f[l] = Above(s, l, f[l - 1])
    BY <1>4, NodesStep
<1> QED BY <1>5, <1>6, Zenon DEF Tree

\* A node hashes the two below it, or the last one with itself.
LEMMA Nodes ==
    ASSUME NEW s
    PROVE  /\ \A i : HashAt(s, 0, i) = s[i]
           /\ \A k \in Nat : \A i \in 1 .. Width(Len(s), k + 1) :
                  HashAt(s, k + 1, i) =
                      Hash(HashAt(s, k, 2 * i - 1),
                           HashAt(s, k, Right(Len(s), k, i)))
<1>1. \A i : HashAt(s, 0, i) = s[i]
  <2>1. PICK f : Tree(f, s, 0)
    BY NodesExist
  <2> QED BY <2>1 DEF Tree
<1>2. ASSUME NEW k \in Nat, NEW i \in 1 .. Width(Len(s), k + 1)
      PROVE  HashAt(s, k + 1, i) =
                 Hash(HashAt(s, k, 2 * i - 1), HashAt(s, k, Right(Len(s), k, i)))
  <2>1. PICK f : Tree(f, s, k)
    BY NodesExist
  <2>2. PICK m \in Nat : m = k + 1
    OBVIOUS
  <2>3. PICK g : Tree(g, s, m)
    BY NodesExist
  <2> DEFINE T == {l \in 0 .. k : f[l] = g[l]}
  <2>4. 0 \in T
    BY <2>1, <2>3 DEF Tree
  <2>5. ASSUME NEW l \in 0 .. k - 1, l \in T PROVE l + 1 \in T
    <3>1. /\ l + 1 \in 1 .. k /\ l + 1 - 1 = l
          /\ l + 1 \in 1 .. m /\ l + 1 \in 0 .. k
      BY <2>2
    <3>2. f[l + 1] = Above(s, l + 1, f[l])
      BY <2>1, <3>1 DEF Tree
    <3>3. g[l + 1] = Above(s, l + 1, g[l])
      BY <2>3, <3>1 DEF Tree
    <3> QED BY <2>5, <3>1, <3>2, <3>3
  <2> HIDE DEF T
  <2>6. 0 .. k \subseteq T
    BY <2>4, <2>5, Reaches
  <2>7. f[k] = g[k]
    BY <2>6 DEF T
  <2>8. g[m] = Above(s, m, g[k]) /\ m - 1 = k
    <3>1. m \in 1 .. m /\ m - 1 = k
      BY <2>2
    <3> QED BY <2>3, <3>1 DEF Tree
  <2>9. g[m][i] = Hash(g[k][2 * i - 1], g[k][Right(Len(s), k, i)])
    <3>1. i \in 1 .. Width(Len(s), m)
      BY <2>2
    <3> QED BY <2>8, <3>1, Zenon DEF Above
  <2>10. /\ HashAt(s, k, 2 * i - 1) = f[k][2 * i - 1]
         /\ HashAt(s, k, Right(Len(s), k, i)) = f[k][Right(Len(s), k, i)]
         /\ HashAt(s, m, i) = g[m][i]
    BY <2>1, <2>3, Zenon DEF Tree
  <2> QED BY <2>2, <2>7, <2>9, <2>10
<1> QED BY <1>1, <1>2

-----------------------------------------------------------------------------
(* The loop of merkleroot.                                                   *)

\* The list that a call hands to the next
Shrunk(x) == IF Len(x) = 1 THEN x ELSE Pairs(Padded(x))

IsLoop(f, s) ==
    f = [d \in 0 .. Len(s) |->
            IF d = 0 THEN s
              ELSE IF Len(f[d - 1]) = 1 THEN f[d - 1] ELSE Pairs(Padded(f[d - 1]))]

LEMMA PaddedIs ==
    ASSUME NEW V, NEW s \in Seq(V), s # <<>>
    PROVE  /\ Padded(s) \in Seq(V) /\ Padded(s) # <<>>
           /\ Len(s) % 2 = 0 => Padded(s) = s
           /\ Len(s) % 2 = 1 => Len(Padded(s)) = Len(s) + 1
           /\ \A i \in 1 .. Len(s) : Padded(s)[i] = s[i]
           /\ Len(s) % 2 = 1 => Padded(s)[Len(s) + 1] = s[Len(s)]
<1>1. Len(s) \in Nat /\ Len(s) > 0 /\ s[Len(s)] \in V
    OBVIOUS
<1>2. CASE Len(s) % 2 = 0
    BY <1>1, <1>2 DEF Padded
<1>3. CASE Len(s) % 2 = 1
  <2>1. Padded(s) = Append(s, s[Len(s)])
    BY <1>3 DEF Padded
  <2> QED BY <1>1, <1>3, <2>1
<1> QED BY <1>1, <1>2, <1>3

LEMMA PairsAre ==
    ASSUME NEW V, NEW s \in Seq(V), s # <<>>, NEW w, w = Len(s)
    PROVE  Pairs(Padded(s)) =
               [i \in 1 .. (w + 1) \div 2 |->
                   Hash(s[2 * i - 1], s[IF 2 * i <= w THEN 2 * i ELSE w])]
<1>1. w \in Nat /\ w > 0
    OBVIOUS
<1> DEFINE P == Padded(s)
<1>2. /\ P \in Seq(V)
      /\ w % 2 = 0 => P = s
      /\ w % 2 = 1 => Len(P) = w + 1
      /\ \A i \in 1 .. w : P[i] = s[i]
      /\ w % 2 = 1 => P[w + 1] = s[w]
    BY PaddedIs
<1> HIDE DEF P
<1>3. /\ w % 2 = 0 \/ w % 2 = 1
      /\ \A i \in 1 .. (w + 1) \div 2 : 2 * i - 1 \in 1 .. w
      /\ w % 2 = 0 => (w + 1) \div 2 = w \div 2
      /\ w % 2 = 1 => (w + 1 + 1) \div 2 = (w + 1) \div 2
      /\ w % 2 = 0 => \A i \in 1 .. (w + 1) \div 2 : 2 * i \in 1 .. w
      /\ w % 2 = 1 => \A i \in 1 .. (w + 1) \div 2 : 2 * i \in 1 .. w + 1
  <2>1. w % 2 = 0 \/ w % 2 = 1
    BY <1>1
  <2> QED BY <1>1, <2>1, Halves
<1>4. Len(P) \div 2 = (w + 1) \div 2
  <2>1. CASE w % 2 = 0
    BY <1>1, <1>2, <1>3, <2>1
  <2>2. CASE w % 2 = 1
    BY <1>1, <1>2, <1>3, <2>2
  <2> QED BY <1>3, <2>1, <2>2
<1>5. ASSUME NEW i \in 1 .. (w + 1) \div 2
      PROVE  /\ P[2 * i - 1] = s[2 * i - 1]
             /\ P[2 * i] = s[IF 2 * i <= w THEN 2 * i ELSE w]
  <2>1. P[2 * i - 1] = s[2 * i - 1]
    BY <1>2, <1>3
  <2>2. i \in Nat /\ (2 * i <= w \/ 2 * i = w + 1)
    BY <1>1, <1>3
  <2>3. CASE 2 * i <= w
    <3>1. 2 * i \in 1 .. w
      BY <1>1, <2>2, <2>3
    <3> QED BY <1>2, <2>1, <2>3, <3>1
  <2>4. CASE 2 * i = w + 1
    <3>1. w % 2 = 1
      BY <1>1, <2>2, <2>4
    <3>2. ~ (2 * i <= w)
      BY <1>1, <2>4
    <3> QED BY <1>2, <2>1, <2>4, <3>1, <3>2
  <2> QED BY <2>2, <2>3, <2>4
<1>6. Pairs(P) = [i \in 1 .. Len(P) \div 2 |-> Hash(P[2 * i - 1], P[2 * i])]
    BY DEF Pairs
<1> HIDE DEF P
<1> QED BY <1>4, <1>5, <1>6, Zenon DEF P

\* A level of the tree, as a list
Row(s, d) == [i \in 1 .. Width(Len(s), d) |-> HashAt(s, d, i)]

LEMMA RowIs ==
    ASSUME NEW V, NEW s \in Seq(V), s # <<>>, NEW d \in Nat
    PROVE  /\ Width(Len(s), d) \in Nat /\ Width(Len(s), d) > 0
           /\ \E W : Row(s, d) \in Seq(W)
           /\ Row(s, d) # <<>>
           /\ Len(Row(s, d)) = Width(Len(s), d)
           /\ \A i \in 1 .. Width(Len(s), d) : Row(s, d)[i] = HashAt(s, d, i)
<1>1. Width(Len(s), d) \in Nat /\ Width(Len(s), d) > 0
  <2>1. Len(s) \in Nat /\ Len(s) > 0
    OBVIOUS
  <2> QED BY <2>1, Widths, DepthIs
<1> DEFINE w == Width(Len(s), d)
           W == {HashAt(s, d, i) : i \in 1 .. w}
           r == Row(s, d)
<1>2. r = [i \in 1 .. w |-> HashAt(s, d, i)]
    BY DEF Row
<1> HIDE DEF w, r
<1>3. r \in [1 .. w -> W]
    BY <1>2
<1>4. w \in Nat /\ w > 0
    BY <1>1 DEF w
<1> HIDE DEF W
<1>5. r \in Seq(W) /\ Len(r) = w
    BY <1>3, <1>4
<1>6. r # <<>>
    BY <1>4, <1>5
<1>7. \A i \in 1 .. w : r[i] = HashAt(s, d, i)
    BY <1>2
<1> QED BY <1>1, <1>5, <1>6, <1>7 DEF r, w

\* A call computes the next level.
LEMMA RowStep ==
    ASSUME NEW V, NEW s \in Seq(V), s # <<>>, NEW d \in Nat
    PROVE  Pairs(Padded(Row(s, d))) = Row(s, d + 1)
<1> DEFINE n == Len(s)
           w == Width(n, d)
           v == Width(n, d + 1)
           r == Row(s, d)
<1>1. PICK W : r \in Seq(W)
    BY RowIs, Zenon
<1>2. /\ w \in Nat /\ w > 0 /\ r # <<>> /\ Len(r) = w
      /\ \A i \in 1 .. w : r[i] = HashAt(s, d, i)
    BY RowIs
<1>3. n \in Nat /\ v = (w + 1) \div 2
  <2>1. n \in Nat
    OBVIOUS
  <2> HIDE DEF n
  <2> QED BY <2>1, Widths
<1>4. Row(s, d + 1) = [i \in 1 .. v |-> HashAt(s, d + 1, i)]
    BY DEF Row
<1>5. \A i \in 1 .. v :
          HashAt(s, d + 1, i) = Hash(HashAt(s, d, 2 * i - 1),
                                     HashAt(s, d, Right(n, d, i)))
    BY Nodes
<1>6. \A i : Right(n, d, i) = IF 2 * i <= w THEN 2 * i ELSE w
    BY DEF Right
<1> HIDE DEF n, w, v, r
<1>7. Pairs(Padded(r)) = [i \in 1 .. v |->
          Hash(r[2 * i - 1], r[IF 2 * i <= w THEN 2 * i ELSE w])]
  <2>1. w = Len(r)
    BY <1>2
  <2>2. Pairs(Padded(r)) = [i \in 1 .. (w + 1) \div 2 |->
            Hash(r[2 * i - 1], r[IF 2 * i <= w THEN 2 * i ELSE w])]
    BY <1>1, <1>2, <2>1, PairsAre, Zenon
  <2> QED BY <1>3, <2>2, Zenon
<1>8. ASSUME NEW i \in 1 .. v
      PROVE  Hash(r[2 * i - 1], r[IF 2 * i <= w THEN 2 * i ELSE w]) =
                 HashAt(s, d + 1, i)
  <2>1. i \in Nat /\ i > 0 /\ 2 * i - 1 \in 1 .. w
    <3>1. \A j \in 1 .. (w + 1) \div 2 : 2 * j - 1 \in 1 .. w
      BY <1>2, Halves
    <3>2. (w + 1) \div 2 \in Nat
      BY <1>2, Halves
    <3> QED BY <1>3, <3>1, <3>2
  <2>2. PICK j \in 1 .. w : j = IF 2 * i <= w THEN 2 * i ELSE w
    BY <1>2, <2>1
  <2>3. r[2 * i - 1] = HashAt(s, d, 2 * i - 1) /\ r[j] = HashAt(s, d, j)
    BY <1>2, <2>1
  <2>4. Right(n, d, i) = j
    BY <1>6, <2>2
  <2> QED BY <1>5, <2>2, <2>3, <2>4
<1> QED BY <1>4, <1>7, <1>8, Zenon DEF r

\* The loop computes level after level, down to the root.
LEMMA RootOfList ==
    ASSUME NEW V, NEW s \in Seq(V), s # <<>>
    PROVE  merkleroot(s) = HashAt(s, Depth(Len(s)), 1)
<1> DEFINE n == Len(s)
           z == Depth(n)
<1>1. /\ n \in Nat /\ n > 0 /\ z \in 0 .. n /\ z \in Nat
      /\ Width(n, z) = 1
      /\ \A e \in 0 .. z - 1 : Width(n, e) # 1
  <2>1. n \in Nat /\ n > 0
    OBVIOUS
  <2> HIDE DEF n
  <2>2. /\ z \in 0 .. n /\ Width(n, z) = 1
        /\ \A e \in 0 .. z - 1 : Width(n, e) # 1
    BY <2>1, DepthIs
  <2> QED BY <2>1, <2>2
<1>2. /\ \A d \in Nat : Len(Row(s, d)) = Width(n, d)
      /\ Len(Row(s, z)) = 1
  <2>1. \A d \in Nat : Len(Row(s, d)) = Width(n, d)
    BY RowIs
  <2> HIDE DEF n, z
  <2> QED BY <1>1, <2>1
<1>3. Row(s, 0) = s
  <2>1. Width(n, 0) = n
    BY <1>1, Widths
  <2>2. \A i : HashAt(s, 0, i) = s[i]
    BY Nodes
  <2>3. Row(s, 0) = [i \in 1 .. n |-> s[i]]
    BY <2>1, <2>2 DEF Row
  <2>4. s = [i \in 1 .. n |-> s[i]]
    OBVIOUS
  <2> QED BY <2>3, <2>4
\* The loop exists: the levels, and the root from there on
<1> DEFINE f == [d \in 0 .. n |-> Row(s, IF d <= z THEN d ELSE z)]
<1>4. IsLoop(f, s)
  <2>1. \A d \in 0 .. n : f[d] = Row(s, IF d <= z THEN d ELSE z)
    OBVIOUS
  <2>2. f = [d \in 0 .. n |-> f[d]]
    OBVIOUS
  <2> HIDE DEF f, z
  <2>3. f[0] = s
    BY <1>1, <1>3, <2>1
  <2>4. ASSUME NEW d \in 1 .. n PROVE f[d] = Shrunk(f[d - 1])
    <3>1. d - 1 \in 0 .. n /\ d \in 0 .. n /\ d - 1 \in Nat
      BY <1>1
    <3>2. CASE d <= z
      <4>1. f[d - 1] = Row(s, d - 1) /\ f[d] = Row(s, d)
        BY <1>1, <2>1, <3>1, <3>2
      <4>2. Len(Row(s, d - 1)) # 1
        <5>1. d - 1 \in 0 .. z - 1
          BY <1>1, <3>1, <3>2
        <5> QED BY <1>1, <1>2, <3>1, <5>1
      <4>3. Pairs(Padded(Row(s, d - 1))) = Row(s, d - 1 + 1)
        BY <3>1, RowStep
      <4>4. d - 1 + 1 = d
        OBVIOUS
      <4> QED BY <4>1, <4>2, <4>3, <4>4 DEF Shrunk
    <3>3. CASE ~ (d <= z)
      <4>1. f[d - 1] = Row(s, z) /\ f[d] = Row(s, z)
        <5>1. d - 1 <= z => d - 1 = z
          BY <1>1, <3>1, <3>3
        <5> QED BY <2>1, <3>1, <3>3, <5>1
      <4>2. Len(Row(s, z)) = 1
        BY <1>2
      <4> QED BY <4>1, <4>2 DEF Shrunk
    <3> QED BY <3>2, <3>3
  <2>5. \A d \in 0 .. n : d = 0 \/ (d # 0 /\ d \in 1 .. n)
    BY <1>1
  <2>6. \A d \in 0 .. n : f[d] = IF d = 0 THEN s ELSE Shrunk(f[d - 1])
    BY <2>3, <2>4, <2>5, Zenon
  <2> QED BY <2>2, <2>6, Zenon DEF IsLoop, Shrunk
<1> HIDE DEF f
<1> DEFINE k == CHOOSE h : IsLoop(h, s)
<1>5. IsLoop(k, s)
    BY <1>4
<1>6. merkleroot(s) = k[n][1]
    BY DEF merkleroot, IsLoop
<1> HIDE DEF k
\* Every function that is the loop goes through the levels.
<1> DEFINE T == {d \in 0 .. n : k[d] = Row(s, IF d <= z THEN d ELSE z)}
<1>7. 0 \in T
  <2>1. 0 \in 0 .. n
    BY <1>1
  <2>2. k[0] = s
    BY <1>5, <2>1, Zenon DEF IsLoop
  <2> QED BY <1>1, <1>3, <2>2
<1>8. ASSUME NEW d \in 0 .. n - 1, d \in T PROVE d + 1 \in T
  <2> HIDE DEF z
  <2>1. PICK e \in 0 .. n : e = d + 1 /\ e # 0 /\ e - 1 = d /\ d \in Nat
    BY <1>1
  <2>2. k[e] = Shrunk(k[d])
    <3>1. k[e] = Shrunk(k[e - 1])
      BY <1>5, <2>1, Zenon DEF IsLoop, Shrunk
    <3> QED BY <2>1, <3>1
  <2>3. k[d] = Row(s, IF d <= z THEN d ELSE z)
    BY <1>8
  <2>4. CASE e <= z
    <3>1. d <= z /\ d \in 0 .. z - 1
      BY <1>1, <2>1, <2>4
    <3>2. Len(Row(s, d)) # 1
      BY <1>1, <1>2, <2>1, <3>1
    <3>3. Pairs(Padded(Row(s, d))) = Row(s, e)
      BY <2>1, RowStep
    <3>4. k[e] = Row(s, e)
      BY <2>2, <2>3, <3>1, <3>2, <3>3 DEF Shrunk
    <3> QED BY <2>1, <2>4, <3>4
  <2>5. CASE ~ (e <= z)
    <3>1. d <= z => d = z
      BY <1>1, <2>1, <2>5
    <3>2. k[d] = Row(s, z)
      BY <2>3, <3>1
    <3>3. Len(Row(s, z)) = 1
      BY <1>2
    <3>4. k[e] = Row(s, z)
      BY <2>2, <3>2, <3>3 DEF Shrunk
    <3> QED BY <2>1, <2>5, <3>4
  <2> QED BY <2>4, <2>5
<1> HIDE DEF T
<1>9. k[n] = Row(s, z)
  <2>1. 0 .. n \subseteq T
    BY <1>1, <1>7, <1>8, Reaches
  <2>2. n \in T
    BY <1>1, <2>1
  <2>3. k[n] = Row(s, IF n <= z THEN n ELSE z)
    BY <2>2 DEF T
  <2>4. n <= z => n = z
    BY <1>1
  <2> QED BY <2>3, <2>4
<1>10. Row(s, z)[1] = HashAt(s, z, 1)
  <2>1. \A i \in 1 .. Width(n, z) : Row(s, z)[i] = HashAt(s, z, i)
    BY <1>1, RowIs
  <2>2. 1 \in 1 .. Width(n, z)
    BY <1>1
  <2> HIDE DEF n, z
  <2> QED BY <2>1, <2>2
<1> QED BY <1>6, <1>9, <1>10

-----------------------------------------------------------------------------
(* The list that the first call leaves behind.                               *)

LEMMA DepthIsThe ==
    ASSUME NEW n \in Nat, n > 0, NEW d \in Nat, Width(n, d) = 1,
           \A e \in 0 .. d - 1 : Width(n, e) # 1
    PROVE  d = Depth(n)
<1> DEFINE z == Depth(n)
<1>1. /\ z \in Nat /\ Width(n, z) = 1 /\ \A e \in 0 .. z - 1 : Width(n, e) # 1
    BY DepthIs
<1> HIDE DEF z
<1>2. CASE d < z
    BY <1>1, <1>2
<1>3. CASE z < d
    BY <1>1, <1>3
<1>4. CASE z = d
    BY <1>4 DEF z
<1> QED BY <1>1, <1>2, <1>3, <1>4

\* From the first level on, the tree over an odd list is that of the longer one.
LEMMA PaddedTree ==
    ASSUME NEW V, NEW s \in Seq(V), s # <<>>, Len(s) # 1, Len(s) % 2 = 1
    PROVE  HashAt(Padded(s), Depth(Len(Padded(s))), 1) = HashAt(s, Depth(Len(s)), 1)
<1> DEFINE n == Len(s)
           P == Padded(s)
           q == Len(P)
<1>1. /\ n \in Nat /\ n > 1 /\ n % 2 = 1
      /\ q = n + 1 /\ P \in Seq(V)
      /\ \A i \in 1 .. n : P[i] = s[i]
      /\ P[n + 1] = s[n]
  <2>1. Len(s) \in Nat /\ Len(s) > 0
    OBVIOUS
  <2>2. /\ P \in Seq(V)
        /\ Len(s) % 2 = 1 => Len(P) = Len(s) + 1
        /\ \A j \in 1 .. Len(s) : P[j] = s[j]
        /\ Len(s) % 2 = 1 => P[Len(s) + 1] = s[Len(s)]
    BY PaddedIs
  <2>3. n \in Nat /\ n > 1 /\ n % 2 = 1
    <3>1. n % 2 = 1 /\ n # 1
      BY Zenon
    <3>2. PICK m \in Nat : m = n /\ m > 0
      BY <2>1
    <3> HIDE DEF n
    <3> QED BY <3>1, <3>2
  <2> HIDE DEF P
  <2>4. q = n + 1 /\ P[n + 1] = s[n]
    BY <2>2
  <2> QED BY <2>2, <2>3, <2>4
<1>2. /\ \A i : HashAt(s, 0, i) = s[i]
      /\ \A k \in Nat : \A i \in 1 .. Width(n, k + 1) :
             HashAt(s, k + 1, i) =
                 Hash(HashAt(s, k, 2 * i - 1), HashAt(s, k, Right(n, k, i)))
    BY Nodes
<1>3. /\ \A i : HashAt(P, 0, i) = P[i]
      /\ \A k \in Nat : \A i \in 1 .. Width(q, k + 1) :
             HashAt(P, k + 1, i) =
                 Hash(HashAt(P, k, 2 * i - 1), HashAt(P, k, Right(q, k, i)))
    BY Nodes
<1> HIDE DEF n, P, q
<1>4. q \in Nat /\ q > 1
    BY <1>1
<1>5. /\ Width(n, 0) = n /\ Width(q, 0) = q
      /\ \A k \in Nat : /\ Width(n, k) \in Nat
                        /\ Width(n, k + 1) = (Width(n, k) + 1) \div 2
                        /\ Width(q, k) \in Nat
                        /\ Width(q, k + 1) = (Width(q, k) + 1) \div 2
    BY <1>1, <1>4, Widths
<1>6. ASSUME NEW d \in Nat
      PROVE  Width(q, d + 1) = Width(n, d + 1)
  <2> DEFINE T == {l \in 0 .. d : Width(q, l + 1) = Width(n, l + 1)}
  <2>1. 0 \in T
    <3>1. (n + 1 + 1) \div 2 = (n + 1) \div 2
      BY <1>1, Halves
    <3>2. Width(q, 0 + 1) = (q + 1) \div 2 /\ Width(n, 0 + 1) = (n + 1) \div 2
      BY <1>5
    <3> QED BY <1>1, <3>1, <3>2
  <2>2. ASSUME NEW l \in 0 .. d - 1, l \in T PROVE l + 1 \in T
    <3>1. l + 1 \in Nat /\ l + 1 \in 0 .. d
      OBVIOUS
    <3>2. /\ Width(q, l + 1 + 1) = (Width(q, l + 1) + 1) \div 2
          /\ Width(n, l + 1 + 1) = (Width(n, l + 1) + 1) \div 2
      BY <1>5, <3>1
    <3> QED BY <2>2, <3>1, <3>2
  <2> HIDE DEF T
  <2>3. 0 .. d \subseteq T
    BY <2>1, <2>2, Reaches
  <2> QED BY <2>3 DEF T
<1>7. ASSUME NEW d \in Nat, NEW j \in 1 .. Width(n, d + 1)
      PROVE  HashAt(P, d + 1, j) = HashAt(s, d + 1, j)
  <2> DEFINE T == {l \in 0 .. d : \A i \in 1 .. Width(n, l + 1) :
                                      HashAt(P, l + 1, i) = HashAt(s, l + 1, i)}
  <2>1. 0 \in T
    <3>1. ASSUME NEW i \in 1 .. Width(n, 0 + 1)
          PROVE  HashAt(P, 0 + 1, i) = HashAt(s, 0 + 1, i)
      <4>1. Width(n, 0 + 1) = (n + 1) \div 2 /\ Width(q, 0 + 1) = Width(n, 0 + 1)
        BY <1>5, <1>6
      <4>2. /\ i \in Nat /\ 2 * i - 1 \in 1 .. n /\ 2 * i \in 1 .. n + 1
        <5>1. (n + 1) \div 2 \in Nat
          BY <1>1, Halves
        <5> QED BY <1>1, <4>1, <5>1, Halves
      <4>3. Right(q, 0, i) = 2 * i
        BY <1>1, <1>5, <4>2 DEF Right
      <4>4. P[2 * i - 1] = s[2 * i - 1]
        BY <1>1, <4>2
      <4>5. P[2 * i] = s[Right(n, 0, i)]
        <5>1. Right(n, 0, i) = IF 2 * i <= n THEN 2 * i ELSE n
          BY <1>5 DEF Right
        <5>2. CASE 2 * i <= n
          BY <1>1, <4>2, <5>1, <5>2
        <5>3. CASE 2 * i = n + 1
          <6>1. ~ (2 * i <= n)
            BY <1>1, <5>3
          <6> QED BY <1>1, <5>1, <5>3, <6>1
        <5> QED BY <1>1, <4>2, <5>2, <5>3
      <4>6. HashAt(P, 0 + 1, i) =
                Hash(HashAt(P, 0, 2 * i - 1), HashAt(P, 0, Right(q, 0, i)))
        BY <1>3, <4>1
      <4>7. HashAt(s, 0 + 1, i) =
                Hash(HashAt(s, 0, 2 * i - 1), HashAt(s, 0, Right(n, 0, i)))
        BY <1>2
      <4> QED BY <1>2, <1>3, <4>3, <4>4, <4>5, <4>6, <4>7
    <3> QED BY <3>1
  <2>2. ASSUME NEW l \in 0 .. d - 1, l \in T PROVE l + 1 \in T
    <3>1. PICK m \in Nat : m = l + 1 /\ m \in 0 .. d
      OBVIOUS
    <3>2. \A i \in 1 .. Width(n, m) : HashAt(P, m, i) = HashAt(s, m, i)
      BY <2>2, <3>1
    <3>3. PICK w \in Nat : w = Width(n, m) /\ Width(q, m) = w /\ w > 0
      <4>1. Width(n, m) > 0
        BY <1>1, DepthIs
      <4>2. l \in Nat
        OBVIOUS
      <4> QED BY <1>5, <1>6, <3>1, <4>1, <4>2
    <3>4. Width(n, m + 1) = (w + 1) \div 2 /\ Width(q, m + 1) = (w + 1) \div 2
      BY <1>5, <3>3
    <3>5. ASSUME NEW i \in 1 .. Width(n, m + 1)
          PROVE  HashAt(P, m + 1, i) = HashAt(s, m + 1, i)
      <4>1. i \in Nat /\ 2 * i - 1 \in 1 .. w /\ 2 * i > 0
        <5>1. (w + 1) \div 2 \in Nat
          BY <3>3, Halves
        <5> QED BY <3>3, <3>4, <5>1, Halves
      <4>2. PICK r \in 1 .. w : r = IF 2 * i <= w THEN 2 * i ELSE w
        BY <3>3, <4>1
      <4>3. Right(n, m, i) = r /\ Right(q, m, i) = r
        BY <3>3, <4>2 DEF Right
      <4>4. HashAt(P, m + 1, i) =
                Hash(HashAt(P, m, 2 * i - 1), HashAt(P, m, Right(q, m, i)))
        BY <1>3, <3>4
      <4>5. HashAt(s, m + 1, i) =
                Hash(HashAt(s, m, 2 * i - 1), HashAt(s, m, Right(n, m, i)))
        BY <1>2
      <4>6. /\ HashAt(P, m, 2 * i - 1) = HashAt(s, m, 2 * i - 1)
            /\ HashAt(P, m, r) = HashAt(s, m, r)
        BY <3>2, <3>3, <4>1, <4>2
      <4> QED BY <4>3, <4>4, <4>5, <4>6
    <3> QED BY <3>1, <3>5
  <2> HIDE DEF T
  <2>3. 0 .. d \subseteq T
    BY <2>1, <2>2, Reaches
  <2>4. d \in T
    BY <2>3
  <2> QED BY <2>4 DEF T
<1>8. PICK z \in Nat : z = Depth(n) /\ Width(n, z) = 1
                       /\ \A e \in 0 .. z - 1 : Width(n, e) # 1
    BY <1>1, DepthIs
<1>9. PICK y \in Nat : z = y + 1
  <2>1. z # 0
    BY <1>1, <1>5, <1>8
  <2>2. z - 1 \in Nat /\ z = z - 1 + 1
    BY <2>1
  <2> QED BY <2>2
<1>10. Depth(q) = z
  <2>1. Width(q, z) = 1
    BY <1>6, <1>8, <1>9
  <2>2. ASSUME NEW e \in 0 .. z - 1 PROVE Width(q, e) # 1
    <3>1. CASE e = 0
      BY <1>1, <1>5, <3>1
    <3>2. CASE e # 0
      <4>1. PICK x \in Nat : e = x + 1
        <5>1. e - 1 \in Nat /\ e = e - 1 + 1
          BY <3>2
        <5> QED BY <5>1
      <4> QED BY <1>6, <1>8, <4>1
    <3> QED BY <3>1, <3>2
  <2> QED BY <1>4, <2>1, <2>2, DepthIsThe
<1>11. HashAt(P, z, 1) = HashAt(s, z, 1)
    BY <1>7, <1>8, <1>9
<1> QED BY <1>8, <1>10, <1>11 DEF n, P, q

(* The list holds leaves, whatever has been computed from it, and the root   *)
(* that is kept with it is that of the tree over it.                         *)
MerkleInv == p_list \in Seq(Leaf) /\ RootOfTheTree

THEOREM MerkleInductive == MerkleSpec => []MerkleInv
<1>1. MerkleInit => MerkleInv
    BY DEF MerkleInit, MerkleInv, RootOfTheTree
<1>2. MerkleInv /\ [MerkleNext]_merkle => MerkleInv'
  <2> SUFFICES ASSUME MerkleInv, [MerkleNext]_merkle PROVE MerkleInv'
    OBVIOUS
  <2>1. ASSUME NEW x \in Leaf, Fill(x) PROVE MerkleInv'
    BY <2>1 DEF Fill, MerkleInv, RootOfTheTree
  <2>2. CASE ComputeRoot
    <3>1. /\ p_list \in Seq(Leaf) /\ p_list # <<>>
          /\ root' = merkleroot(p_list)
          /\ p_list' = IF Len(p_list) = 1 THEN p_list ELSE Padded(p_list)
      BY <2>2 DEF ComputeRoot, MerkleInv
    <3>2. root' = HashAt(p_list, Depth(Len(p_list)), 1)
      BY <3>1, RootOfList
    <3>3. p_list' = p_list \/ (/\ Len(p_list) # 1 /\ Len(p_list) % 2 = 1
                               /\ p_list' = Padded(p_list))
      <4>1. Len(p_list) % 2 = 0 \/ Len(p_list) % 2 = 1
        BY <3>1
      <4> QED BY <3>1, <4>1 DEF Padded
    <3>4. CASE p_list' = p_list
      BY <3>1, <3>2, <3>4 DEF MerkleInv, RootOfTheTree
    <3>5. CASE /\ Len(p_list) # 1 /\ Len(p_list) % 2 = 1
               /\ p_list' = Padded(p_list)
      <4>1. p_list' \in Seq(Leaf)
        BY <3>1, <3>5, PaddedIs
      <4>2. root' = HashAt(p_list', Depth(Len(p_list')), 1)
        BY <3>1, <3>2, <3>5, PaddedTree
      <4> QED BY <4>1, <4>2 DEF MerkleInv, RootOfTheTree
    <3> QED BY <3>3, <3>4, <3>5
  <2>3. CASE UNCHANGED merkle
    BY <2>3 DEF merkle, MerkleInv, RootOfTheTree
  <2> QED BY <2>1, <2>2, <2>3 DEF MerkleNext
<1> QED BY <1>1, <1>2, PTL DEF MerkleSpec

(* The loop of merkleroot computes the root of the tree in which a node      *)
(* without a right neighbour is its own, for a list of any length, and does  *)
(* so again from the list that it has made longer.                           *)
THEOREM RootIsOfTheTree == MerkleSpec => []RootOfTheTree
<1>1. MerkleInv => RootOfTheTree
    BY DEF MerkleInv
<1> QED BY <1>1, MerkleInductive, PTL

-----------------------------------------------------------------------------
(* Different lists have different roots.                                     *)

\* No element is repeated.
Differ(s) == \A i, j \in 1 .. Len(s) : s[i] = s[j] => i = j

LEMMA HashIs ==
    \A a, b, c, d : /\ Hash(a, b) = Hash(c, d) => a = c /\ b = d
                    /\ Len(Hash(a, b)) = 2
BY DEF Hash

LEMMA RowsDiffer ==
    ASSUME NEW V, NEW s \in Seq(V), s # <<>>, Differ(s), NEW k \in Nat
    PROVE  \A i, j \in 1 .. Width(Len(s), k) :
               HashAt(s, k, i) = HashAt(s, k, j) => i = j
<1> DEFINE n == Len(s)
           T == {l \in 0 .. k : \A i, j \in 1 .. Width(n, l) :
                                    HashAt(s, l, i) = HashAt(s, l, j) => i = j}
<1>1. n \in Nat
    OBVIOUS
<1>2. 0 \in T
  <2>1. Width(n, 0) = n /\ \A i : HashAt(s, 0, i) = s[i]
    BY <1>1, Widths, Nodes
  <2> QED BY <2>1 DEF Differ
<1>3. ASSUME NEW l \in 0 .. k - 1, l \in T PROVE l + 1 \in T
  <2>1. l \in Nat /\ l + 1 \in 0 .. k
    OBVIOUS
  <2>2. PICK w \in Nat : w = Width(n, l)
    BY <1>1, <2>1, Widths
  <2>3. Width(n, l + 1) = (w + 1) \div 2
    BY <1>1, <2>1, <2>2, Widths
  <2>4. ASSUME NEW i \in 1 .. (w + 1) \div 2, NEW j \in 1 .. (w + 1) \div 2,
               HashAt(s, l + 1, i) = HashAt(s, l + 1, j)
        PROVE  i = j
    <3>1. HashAt(s, l, 2 * i - 1) = HashAt(s, l, 2 * j - 1)
      BY <2>1, <2>3, <2>4, Nodes, HashIs
    <3>2. 2 * i - 1 \in 1 .. w /\ 2 * j - 1 \in 1 .. w
      BY Halves
    <3>3. 2 * i - 1 = 2 * j - 1
      BY <1>3, <2>2, <3>1, <3>2
    <3> QED BY <3>3
  <2> QED BY <2>1, <2>3, <2>4
<1>4. k \in T
  <2> HIDE DEF T
  <2>1. 0 .. k \subseteq T
    BY <1>2, <1>3, Reaches
  <2> QED BY <2>1
<1> QED BY <1>4

\* Two levels are one level.
SameRow(s, k, t, m) ==
    /\ Width(Len(s), k) = Width(Len(t), m)
    /\ \A i \in 1 .. Width(Len(s), k) : HashAt(s, k, i) = HashAt(t, m, i)

LEMMA ParentsTell ==
    ASSUME NEW V, NEW s \in Seq(V), s # <<>>,
           NEW W, NEW t \in Seq(W), t # <<>>,
           NEW k \in Nat, NEW m \in Nat, SameRow(s, k + 1, t, m + 1),
           NEW a, a = Width(Len(s), k), NEW b, b = Width(Len(t), m)
    PROVE  /\ a \in Nat /\ b \in Nat /\ (a + 1) \div 2 = (b + 1) \div 2
           /\ \A i \in 1 .. (a + 1) \div 2 :
                  /\ HashAt(s, k, 2 * i - 1) = HashAt(t, m, 2 * i - 1)
                  /\ HashAt(s, k, IF 2 * i <= a THEN 2 * i ELSE a)
                         = HashAt(t, m, IF 2 * i <= b THEN 2 * i ELSE b)
<1>1. Len(s) \in Nat /\ Len(t) \in Nat
    OBVIOUS
<1>2. /\ a \in Nat /\ Width(Len(s), k + 1) = (a + 1) \div 2
      /\ b \in Nat /\ Width(Len(t), m + 1) = (b + 1) \div 2
    BY <1>1, Widths
<1>3. (a + 1) \div 2 = (b + 1) \div 2
    BY <1>2 DEF SameRow
<1>4. ASSUME NEW i \in 1 .. (a + 1) \div 2
      PROVE  /\ HashAt(s, k, 2 * i - 1) = HashAt(t, m, 2 * i - 1)
             /\ HashAt(s, k, IF 2 * i <= a THEN 2 * i ELSE a)
                    = HashAt(t, m, IF 2 * i <= b THEN 2 * i ELSE b)
  <2>1. HashAt(s, k + 1, i) = HashAt(t, m + 1, i)
    BY <1>2 DEF SameRow
  <2>2. HashAt(s, k + 1, i) =
            Hash(HashAt(s, k, 2 * i - 1), HashAt(s, k, Right(Len(s), k, i)))
    BY <1>2, Nodes
  <2>3. HashAt(t, m + 1, i) =
            Hash(HashAt(t, m, 2 * i - 1), HashAt(t, m, Right(Len(t), m, i)))
    BY <1>2, <1>3, Nodes
  <2>4. /\ HashAt(s, k, 2 * i - 1) = HashAt(t, m, 2 * i - 1)
        /\ HashAt(s, k, Right(Len(s), k, i)) = HashAt(t, m, Right(Len(t), m, i))
    BY <2>1, <2>2, <2>3, HashIs
  <2>5. /\ Right(Len(s), k, i) = IF 2 * i <= a THEN 2 * i ELSE a
        /\ Right(Len(t), m, i) = IF 2 * i <= b THEN 2 * i ELSE b
    BY DEF Right
  <2> QED BY <2>4, <2>5
<1> QED BY <1>2, <1>3, <1>4

\* The padding of one list is not an element of another.
LEMMA NoWider ==
    ASSUME NEW V, NEW s \in Seq(V), s # <<>>,
           NEW W, NEW t \in Seq(W), t # <<>>, Differ(t),
           NEW k \in Nat, NEW m \in Nat, SameRow(s, k + 1, t, m + 1)
    PROVE  ~ (Width(Len(s), k) < Width(Len(t), m))
<1>1. PICK a, b : a = Width(Len(s), k) /\ b = Width(Len(t), m)
    OBVIOUS
<1>2. /\ a \in Nat /\ b \in Nat /\ (a + 1) \div 2 = (b + 1) \div 2
      /\ \A i \in 1 .. (a + 1) \div 2 :
             /\ HashAt(s, k, 2 * i - 1) = HashAt(t, m, 2 * i - 1)
             /\ HashAt(s, k, IF 2 * i <= a THEN 2 * i ELSE a)
                    = HashAt(t, m, IF 2 * i <= b THEN 2 * i ELSE b)
    BY <1>1, ParentsTell
<1>3. SUFFICES ASSUME a < b PROVE FALSE
    BY <1>1
<1>4. PICK v \in Nat : v = (a + 1) \div 2 /\ a = 2 * v - 1 /\ b = 2 * v
    BY <1>2, <1>3
<1>5. v \in 1 .. v /\ v > 0
    BY <1>2, <1>4
<1>6. HashAt(t, m, 2 * v - 1) = HashAt(s, k, a)
    BY <1>2, <1>4, <1>5
<1>7. HashAt(s, k, a) = HashAt(t, m, 2 * v)
  <2>1. /\ HashAt(s, k, IF 2 * v <= a THEN 2 * v ELSE a)
               = HashAt(t, m, IF 2 * v <= b THEN 2 * v ELSE b)
    BY <1>2, <1>4, <1>5
  <2>2. ~ (2 * v <= a) /\ 2 * v <= b
    BY <1>4
  <2> QED BY <2>1, <2>2
<1>8. 2 * v - 1 \in 1 .. Width(Len(t), m) /\ 2 * v \in 1 .. Width(Len(t), m)
  <2>1. Width(Len(t), m) = 2 * v
    BY <1>1, <1>4
  <2>2. 2 * v - 1 \in 1 .. 2 * v /\ 2 * v \in 1 .. 2 * v
    BY <1>5
  <2> QED BY <2>1, <2>2
<1>9. 2 * v - 1 = 2 * v
    BY <1>6, <1>7, <1>8, RowsDiffer
<1> QED BY <1>4, <1>9

LEMMA RowsBelow ==
    ASSUME NEW V, NEW s \in Seq(V), s # <<>>, Differ(s),
           NEW W, NEW t \in Seq(W), t # <<>>, Differ(t),
           NEW k \in Nat, NEW m \in Nat, SameRow(s, k + 1, t, m + 1)
    PROVE  SameRow(s, k, t, m)
<1>1. PICK a, b : a = Width(Len(s), k) /\ b = Width(Len(t), m)
    OBVIOUS
<1>2. /\ a \in Nat /\ b \in Nat /\ (a + 1) \div 2 = (b + 1) \div 2
      /\ \A i \in 1 .. (a + 1) \div 2 :
             /\ HashAt(s, k, 2 * i - 1) = HashAt(t, m, 2 * i - 1)
             /\ HashAt(s, k, IF 2 * i <= a THEN 2 * i ELSE a)
                    = HashAt(t, m, IF 2 * i <= b THEN 2 * i ELSE b)
    BY <1>1, ParentsTell
<1>3. a = b
  <2>1. SameRow(t, m + 1, s, k + 1)
    BY DEF SameRow
  <2>2. ~ (a < b) /\ ~ (b < a)
    BY <1>1, <2>1, NoWider
  <2> QED BY <1>2, <2>2
<1>4. ASSUME NEW i \in 1 .. a PROVE HashAt(s, k, i) = HashAt(t, m, i)
  <2>1. PICK j \in 1 .. (a + 1) \div 2 : i = 2 * j - 1 \/ i = 2 * j
    <3>1. (i + 1) \div 2 \in 1 .. (a + 1) \div 2
      BY <1>2
    <3>2. i = 2 * ((i + 1) \div 2) - 1 \/ i = 2 * ((i + 1) \div 2)
      OBVIOUS
    <3> QED BY <3>1, <3>2
  <2>2. CASE i = 2 * j - 1
    BY <1>2, <2>2
  <2>3. CASE i = 2 * j
    <3>1. 2 * j <= a /\ 2 * j <= b
      BY <1>3, <2>3
    <3> QED BY <1>2, <2>3, <3>1
  <2> QED BY <2>1, <2>2, <2>3
<1> QED BY <1>1, <1>3, <1>4 DEF SameRow

\* Lists without repetition, of what is no pair, have different roots.
LEMMA RootsTellApart ==
    ASSUME NEW V, NEW s \in Seq(V), s # <<>>, Differ(s),
           NEW W, NEW t \in Seq(W), t # <<>>, Differ(t),
           Len(s[1]) # 2, Len(t[1]) # 2,
           merkleroot(s) = merkleroot(t)
    PROVE  Len(s) = Len(t) /\ \A i \in 1 .. Len(s) : s[i] = t[i]
<1>1. /\ Len(s) \in Nat /\ Len(s) > 0 /\ Len(t) \in Nat /\ Len(t) > 0
    OBVIOUS
<1>2. PICK k, m : k = Depth(Len(s)) /\ m = Depth(Len(t))
    OBVIOUS
<1>3. /\ k \in Nat /\ Width(Len(s), k) = 1
      /\ m \in Nat /\ Width(Len(t), m) = 1
    BY <1>1, <1>2, DepthIs
<1> DEFINE Wide(n) == \A e \in Nat : 1 \in 1 .. Width(n, e)
<1>4. Wide(Len(s)) /\ Wide(Len(t))
  <2>1. ASSUME NEW n \in Nat, n > 0, NEW e \in Nat PROVE 1 \in 1 .. Width(n, e)
    <3>1. Width(n, e) \in Nat /\ Width(n, e) > 0
      BY <2>1, Widths, DepthIs
    <3> QED BY <3>1
  <2> QED BY <1>1, <2>1
<1>5. ASSUME NEW U, NEW u \in Seq(U), Wide(Len(u)), NEW e \in Nat
      PROVE  Len(HashAt(u, e + 1, 1)) = 2
  <2>1. 1 \in 1 .. Width(Len(u), e + 1)
    BY <1>5
  <2>2. HashAt(u, e + 1, 1) =
            Hash(HashAt(u, e, 2 * 1 - 1), HashAt(u, e, Right(Len(u), e, 1)))
    BY <2>1, Nodes
  <2> QED BY <2>2, HashIs
<1>6. HashAt(s, k, 1) = HashAt(t, m, 1)
    BY <1>2, RootOfList
<1>7. PICK q \in Nat : q <= k /\ q <= m /\ (q = k \/ q = m)
  <2>1. k <= m \/ m <= k
    BY <1>3
  <2> QED BY <1>3, <2>1
<1> DEFINE T == {j \in 0 .. q : SameRow(s, k - j, t, m - j)}
<1>8. 0 \in T
  <2>1. k - 0 = k /\ m - 0 = m
    BY <1>3
  <2>2. SameRow(s, k, t, m)
    BY <1>3, <1>6 DEF SameRow
  <2> QED BY <1>7, <2>1, <2>2
<1>9. ASSUME NEW j \in 0 .. q - 1, j \in T PROVE j + 1 \in T
  <2>1. PICK d, e \in Nat : /\ d = k - (j + 1) /\ d + 1 = k - j
                            /\ e = m - (j + 1) /\ e + 1 = m - j
    BY <1>3, <1>7
  <2>2. SameRow(s, d + 1, t, e + 1)
    BY <1>9, <2>1
  <2>3. SameRow(s, d, t, e)
    BY <2>2, RowsBelow
  <2> QED BY <1>7, <2>1, <2>3
<1>10. SameRow(s, k - q, t, m - q)
  <2> HIDE DEF T
  <2>1. 0 .. q \subseteq T
    BY <1>7, <1>8, <1>9, Reaches
  <2> QED BY <1>7, <2>1 DEF T
<1>11. k = q
  <2>1. SUFFICES ASSUME k # q PROVE FALSE
    OBVIOUS
  <2>2. PICK e \in Nat : e + 1 = k - q /\ m - q = 0
    BY <1>3, <1>7, <2>1
  <2>3. 1 \in 1 .. Width(Len(s), e + 1)
    BY <1>4
  <2>4. HashAt(s, e + 1, 1) = HashAt(t, 0, 1)
    BY <1>10, <2>2, <2>3 DEF SameRow
  <2>5. Len(HashAt(s, e + 1, 1)) = 2
    BY <1>4, <1>5
  <2>6. HashAt(t, 0, 1) = t[1]
    BY Nodes
  <2> QED BY <2>4, <2>5, <2>6
<1>12. m = q
  <2>1. SUFFICES ASSUME m # q PROVE FALSE
    OBVIOUS
  <2>2. PICK e \in Nat : e + 1 = m - q /\ k - q = 0
    BY <1>3, <1>7, <2>1
  <2>3. 1 \in 1 .. Width(Len(s), 0)
    BY <1>4
  <2>4. HashAt(t, e + 1, 1) = HashAt(s, 0, 1)
    BY <1>10, <2>2, <2>3 DEF SameRow
  <2>5. Len(HashAt(t, e + 1, 1)) = 2
    BY <1>4, <1>5
  <2>6. HashAt(s, 0, 1) = s[1]
    BY Nodes
  <2> QED BY <2>4, <2>5, <2>6
<1>13. SameRow(s, 0, t, 0)
    BY <1>3, <1>10, <1>11, <1>12
<1>14. Width(Len(s), 0) = Len(s) /\ Width(Len(t), 0) = Len(t)
    BY <1>1, Widths
<1> QED BY <1>13, <1>14, Nodes DEF SameRow

-----------------------------------------------------------------------------
(* Sequences.                                                                *)

\* A list, of whatever it holds
LEMMA SequenceIs ==
    ASSUME NEW s, IsSequence(s)
    PROVE  \E S : s \in Seq(S) /\ S = {s[i] : i \in 1 .. Len(s)}
<1>1. Len(s) \in Nat /\ s = [i \in 1 .. Len(s) |-> s[i]]
    BY DEF IsSequence
<1> DEFINE S == {s[i] : i \in 1 .. Len(s)}
<1>2. s \in Seq(S)
    BY <1>1
<1> QED BY <1>2

LEMMA IsSequenceIs ==
    ASSUME NEW S, NEW s \in Seq(S)
    PROVE  IsSequence(s) /\ DOMAIN s = 1 .. Len(s) /\ ToSet(s) = {s[i] : i \in 1 .. Len(s)}
BY DEF IsSequence, ToSet

LEMMA AppendIs ==
    ASSUME NEW s, IsSequence(s), NEW x
    PROVE  /\ IsSequence(Append(s, x))
           /\ ToSet(Append(s, x)) = ToSet(s) \cup {x}
<1>1. PICK S : s \in Seq(S)
    BY SequenceIs
<1> DEFINE U == S \cup {x}
<1>2. s \in Seq(U)
    BY <1>1
<1>3. Append(s, x) \in Seq(U)
    BY <1>2
<1>4. /\ Len(Append(s, x)) = Len(s) + 1 /\ Len(s) \in Nat
      /\ Append(s, x)[Len(s) + 1] = x
      /\ \A i \in 1 .. Len(s) : Append(s, x)[i] = s[i]
    BY <1>2
<1>5. ToSet(Append(s, x)) = ToSet(s) \cup {x}
  <2>1. /\ ToSet(s) = {s[i] : i \in 1 .. Len(s)}
        /\ ToSet(Append(s, x)) = {Append(s, x)[i] : i \in 1 .. Len(s) + 1}
    BY <1>1, <1>3, <1>4, IsSequenceIs
  <2> DEFINE a == Append(s, x)
             n == Len(s)
  <2> HIDE DEF a, n
  <2>2. /\ a[n + 1] = x /\ n \in Nat /\ \A i \in 1 .. n : a[i] = s[i]
        /\ ToSet(s) = {s[i] : i \in 1 .. n} /\ ToSet(a) = {a[i] : i \in 1 .. n + 1}
    BY <1>4, <2>1 DEF a, n
  <2>3. ToSet(a) = ToSet(s) \cup {x}
    BY <2>2
  <2> QED BY <2>3 DEF a
<1> QED BY <1>3, <1>5, IsSequenceIs

LEMMA Joined ==
    ASSUME NEW s, NEW t, IsSequence(s), IsSequence(t)
    PROVE  /\ IsSequence(s \o t) /\ Len(s \o t) = Len(s) + Len(t)
           /\ Len(s) \in Nat /\ Len(t) \in Nat
           /\ \A i \in 1 .. Len(s) : (s \o t)[i] = s[i]
           /\ \A i \in 1 .. Len(t) : (s \o t)[Len(s) + i] = t[i]
<1>1. PICK S : s \in Seq(S)
    BY SequenceIs
<1>2. PICK T : t \in Seq(T)
    BY SequenceIs
<1> DEFINE U == S \cup T
<1>3. s \in Seq(U) /\ t \in Seq(U)
    BY <1>1, <1>2
<1> HIDE DEF U
<1>4. s \o t \in Seq(U) /\ Len(s \o t) = Len(s) + Len(t)
      /\ Len(s) \in Nat /\ Len(t) \in Nat
    BY <1>3
<1>5. IsSequence(s \o t)
    BY <1>4, IsSequenceIs
<1>6. \A i \in 1 .. Len(s) : (s \o t)[i] = s[i]
    BY <1>3, <1>4
<1>7. \A i \in 1 .. Len(t) : (s \o t)[Len(s) + i] = t[i]
    BY <1>3, <1>4
<1> QED BY <1>4, <1>5, <1>6, <1>7

(* Texts.                                                                    *)

\* s is a text, and not None.
Spoken(s) == IsSequence(s) /\ Len(s) > 0

LEMMA JoinedIs ==
    ASSUME NEW s, NEW t, IsSequence(s), IsSequence(t), Spoken(s) \/ Spoken(t)
    PROVE  Spoken(s \o t)
BY Joined DEF Spoken

LEMMA SpokenIs == ASSUME NEW s, Spoken(s) PROVE s # Nothing /\ IsSequence(s)
<1>1. Len(Nothing) = 0
    BY DEF Nothing
<1> QED BY <1>1 DEF Spoken

LEMMA OneToken == ASSUME NEW x PROVE Spoken(<<x>>)
<1> DEFINE s == <<x>>
<1>1. PICK S : s \in Seq(S)
  <2>1. s \in Seq({x})
    OBVIOUS
  <2> QED BY <2>1
<1>2. Len(s) = 1
    OBVIOUS
<1> HIDE DEF s
<1>3. Spoken(s)
    BY <1>1, <1>2, IsSequenceIs DEF Spoken
<1> QED BY <1>3 DEF s

LEMMA TextIs == ASSUME NEW n PROVE Spoken(Text(n))
<1>1. CASE n < 10
  <2>1. Digits(n) = <<n>>
    BY <1>1 DEF Digits
  <2>2. DOMAIN Digits(n) = 1 .. 1
    BY <2>1
  <2>3. Text(n) = [i \in 1 .. 1 |-> <<"digit", Digits(n)[i]>>]
    BY <2>2 DEF Text
  <2>4. Text(n) \in Seq({<<"digit", Digits(n)[i]>> : i \in 1 .. 1}) /\ Len(Text(n)) = 1
    BY <2>3
  <2> QED BY <2>4, IsSequenceIs DEF Spoken
<1>2. CASE ~ (n < 10)
  <2>1. Digits(n) = <<n \div 10, n % 10>>
    BY <1>2 DEF Digits
  <2>2. DOMAIN Digits(n) = 1 .. 2
    BY <2>1
  <2>3. Text(n) = [i \in 1 .. 2 |-> <<"digit", Digits(n)[i]>>]
    BY <2>2 DEF Text
  <2>4. Text(n) \in Seq({<<"digit", Digits(n)[i]>> : i \in 1 .. 2}) /\ Len(Text(n)) = 2
    BY <2>3
  <2> QED BY <2>4, IsSequenceIs DEF Spoken
<1> QED BY <1>1, <1>2

LEMMA BytesAre == ASSUME NEW b PROVE Spoken(Bytes(b))
BY OneToken DEF Bytes

LEMMA TransactionHashIs ==
    ASSUME NEW t, IsSequence(t.message) PROVE Spoken(TransactionHash(t))
<1>1. Spoken(Text(1) \o <<t.type>>)
    BY TextIs, OneToken, JoinedIs, SpokenIs
<1>2. Spoken(Text(1) \o <<t.type>> \o Text(t.nonce))
    BY <1>1, TextIs, JoinedIs, SpokenIs
<1>3. Spoken(Text(1) \o <<t.type>> \o Text(t.nonce) \o Bytes(t.from))
    BY <1>2, BytesAre, JoinedIs, SpokenIs
<1>4. Spoken(Text(1) \o <<t.type>> \o Text(t.nonce) \o Bytes(t.from) \o Bytes(t.to))
    BY <1>3, BytesAre, JoinedIs, SpokenIs
<1>5. Spoken(Text(1) \o <<t.type>> \o Text(t.nonce) \o Bytes(t.from) \o Bytes(t.to)
                 \o Text(t.value))
    BY <1>4, TextIs, JoinedIs, SpokenIs
<1>6. Spoken(Text(1) \o <<t.type>> \o Text(t.nonce) \o Bytes(t.from) \o Bytes(t.to)
                 \o Text(t.value) \o Text(t.fee))
    BY <1>5, TextIs, JoinedIs, SpokenIs
<1>7. Spoken(Text(1) \o <<t.type>> \o Text(t.nonce) \o Bytes(t.from) \o Bytes(t.to)
                 \o Text(t.value) \o Text(t.fee) \o t.message)
    BY <1>6, JoinedIs, SpokenIs
<1>8. Spoken(Text(1) \o <<t.type>> \o Text(t.nonce) \o Bytes(t.from) \o Bytes(t.to)
                 \o Text(t.value) \o Text(t.fee) \o t.message \o Text(t.timestamp))
    BY <1>7, TextIs, JoinedIs, SpokenIs
<1> QED BY <1>8 DEF TransactionHash

LEMMA VoteHashIs == ASSUME NEW v PROVE Spoken(VoteHash(v))
<1>1. Spoken(Text(1) \o Text(v.block_height))
    BY TextIs, JoinedIs, SpokenIs
<1>2. Spoken(Text(1) \o Text(v.block_height) \o Bytes(v.candidate_block_hash))
    BY <1>1, BytesAre, JoinedIs, SpokenIs
<1>3. Spoken(Text(1) \o Text(v.block_height) \o Bytes(v.candidate_block_hash)
                 \o Bytes(v.creator))
    BY <1>2, BytesAre, JoinedIs, SpokenIs
<1> QED BY <1>3 DEF VoteHash

LEMMA CandidateHashIs == ASSUME NEW h PROVE Spoken(CandidateHash(h))
<1>1. Spoken(Bytes(h.prev_hash) \o Text(h.height))
    BY TextIs, BytesAre, JoinedIs, SpokenIs
<1>2. Spoken(Bytes(h.prev_hash) \o Text(h.height) \o Bytes(h.tx_root_hash))
    BY <1>1, BytesAre, JoinedIs, SpokenIs
<1>3. Spoken(Bytes(h.prev_hash) \o Text(h.height) \o Bytes(h.tx_root_hash)
                 \o Bytes(h.creator))
    BY <1>2, BytesAre, JoinedIs, SpokenIs
<1> QED BY <1>3 DEF CandidateHash

LEMMA HeaderHashIs == ASSUME NEW h PROVE Spoken(HeaderHash(h))
<1>1. Spoken(CandidateHash(h) \o Text(1))
    BY CandidateHashIs, TextIs, JoinedIs, SpokenIs
<1>2. Spoken(CandidateHash(h) \o Text(1) \o Text(h.retry_count))
    BY <1>1, TextIs, JoinedIs, SpokenIs
<1>3. Spoken(CandidateHash(h) \o Text(1) \o Text(h.retry_count)
                 \o Bytes(h.candidate_block_hash))
    BY <1>2, BytesAre, JoinedIs, SpokenIs
<1>4. Spoken(CandidateHash(h) \o Text(1) \o Text(h.retry_count)
                 \o Bytes(h.candidate_block_hash) \o Bytes(h.vote_root_hash))
    BY <1>3, BytesAre, JoinedIs, SpokenIs
<1> QED BY <1>4 DEF HeaderHash

\* A root is a hash of the list, or a pair.
LEMMA RootIs ==
    ASSUME NEW s, Spoken(s), \A i \in 1 .. Len(s) : Spoken(s[i])
    PROVE  merkleroot(s) # Nothing
<1>1. PICK S : s \in Seq(S)
    BY SequenceIs DEF Spoken
<1>2. s # <<>> /\ Len(s) \in Nat /\ Len(s) > 0
    BY <1>1 DEF Spoken
<1> DEFINE k == Depth(Len(s))
<1>3. merkleroot(s) = HashAt(s, k, 1)
    BY <1>1, <1>2, RootOfList
<1>4. k \in Nat /\ Width(Len(s), k) = 1
    BY <1>2, DepthIs
<1>5. PICK f : Tree(f, s, k)
    BY <1>4, NodesExist
<1> HIDE DEF k
<1>6. f[0] = s /\ HashAt(s, k, 1) = f[k][1] /\ \A l \in 1 .. k : f[l] = Above(s, l, f[l - 1])
    BY <1>5 DEF Tree
<1>7. CASE k = 0
  <2>1. merkleroot(s) = s[1] /\ 1 \in 1 .. Len(s)
    BY <1>2, <1>3, <1>6, <1>7
  <2> QED BY <2>1, SpokenIs
<1>8. CASE k # 0
  <2>1. k \in 1 .. k
    BY <1>4, <1>8
  <2>2. f[k] = Above(s, k, f[k - 1])
    BY <1>6, <2>1
  <2>3. f[k] = [j \in 1 .. 1 |->
                   Hash(f[k - 1][2 * j - 1], f[k - 1][Right(Len(s), k - 1, j)])]
    BY <1>4, <2>2 DEF Above
  <2>4. f[k][1] = Hash(f[k - 1][2 * 1 - 1], f[k - 1][Right(Len(s), k - 1, 1)])
    BY <2>3
  <2>5. \A a, b : Hash(a, b) # Nothing
    <3>1. SUFFICES ASSUME NEW a, NEW b PROVE Hash(a, b) # Nothing
      OBVIOUS
    <3>2. Len(Hash(a, b)) = 2 /\ Len(Nothing) = 0
      BY DEF Hash, Nothing
    <3> QED BY <3>2
  <2> QED BY <1>3, <1>6, <2>4, <2>5
<1> QED BY <1>7, <1>8

(* What a hash tells of the text that went into it.                          *)

\* Concatenation under a name of its own
Then(s, t) == s \o t

LEMMA ThenIs ==
    ASSUME NEW s, NEW t, IsSequence(s), IsSequence(t)
    PROVE  IsSequence(Then(s, t))
BY Joined DEF Then

LEMMA ThenLong ==
    ASSUME NEW s, NEW t, IsSequence(s), IsSequence(t)
    PROVE  /\ Len(Then(s, t)) = Len(s) + Len(t)
           /\ Len(s) \in Nat /\ Len(t) \in Nat
BY Joined DEF Then

LEMMA ThenLeft ==
    ASSUME NEW s, NEW t, IsSequence(s), IsSequence(t)
    PROVE  \A i \in 1 .. Len(s) : Then(s, t)[i] = s[i]
BY Joined DEF Then

LEMMA ThenRight ==
    ASSUME NEW s, NEW t, IsSequence(s), IsSequence(t)
    PROVE  \A i \in 1 .. Len(t) : Then(s, t)[Len(s) + i] = t[i]
BY Joined DEF Then

LEMMA ThenRegroups ==
    ASSUME NEW a, NEW b, NEW c, IsSequence(a), IsSequence(b), IsSequence(c)
    PROVE  Then(Then(a, b), c) = Then(a, Then(b, c))
<1>1. PICK S : a \in Seq(S)
    BY SequenceIs
<1>2. PICK T : b \in Seq(T)
    BY SequenceIs
<1>3. PICK U : c \in Seq(U)
    BY SequenceIs
<1> DEFINE V == S \cup T \cup U
<1>4. a \in Seq(V) /\ b \in Seq(V) /\ c \in Seq(V)
    BY <1>1, <1>2, <1>3
<1> HIDE DEF V
<1> QED BY <1>4 DEF Then

\* The first part of a text, if it is as long, is the same.
LEMMA ThenParts ==
    ASSUME NEW a, NEW s, NEW b, NEW t,
           IsSequence(a), IsSequence(s), IsSequence(b), IsSequence(t),
           Len(a) = Len(b), Then(a, s) = Then(b, t)
    PROVE  a = b /\ s = t
<1>1. Len(s) = Len(t)
  <2>1. /\ Len(Then(a, s)) = Len(a) + Len(s) /\ Len(a) \in Nat /\ Len(s) \in Nat
        /\ Len(Then(b, t)) = Len(b) + Len(t) /\ Len(t) \in Nat
    BY ThenLong
  <2> QED BY <2>1
<1>2. ASSUME NEW i \in 1 .. Len(a) PROVE a[i] = b[i]
    BY ThenLeft
<1>3. ASSUME NEW i \in 1 .. Len(s) PROVE s[i] = t[i]
  <2>1. Then(a, s)[Len(a) + i] = s[i]
    BY ThenRight, Zenon
  <2>2. Then(b, t)[Len(b) + i] = t[i]
    BY <1>1, ThenRight
  <2> QED BY <2>1, <2>2
<1>4. a = b
    BY <1>2 DEF IsSequence
<1>5. s = t
    BY <1>1, <1>3 DEF IsSequence
<1> QED BY <1>4, <1>5

\* The digits of a number
LEMMA TextOf ==
    ASSUME NEW n \in Nat
    PROVE  /\ IsSequence(Text(n)) /\ Len(Text(n)) \in {1, 2}
           /\ n < 10 => Len(Text(n)) = 1 /\ Text(n)[1] = <<"digit", n>>
           /\ n >= 10 => /\ Len(Text(n)) = 2
                         /\ Text(n)[1] = <<"digit", n \div 10>>
                         /\ Text(n)[2] = <<"digit", n % 10>>
<1>1. CASE n < 10
  <2>1. Digits(n) = <<n>>
    BY <1>1 DEF Digits
  <2>2. DOMAIN Digits(n) = 1 .. 1 /\ Digits(n)[1] = n
    BY <2>1
  <2>3. Text(n) = [i \in 1 .. 1 |-> <<"digit", Digits(n)[i]>>]
    BY <2>2 DEF Text
  <2>4. Text(n) \in Seq({<<"digit", Digits(n)[i]>> : i \in 1 .. 1}) /\ Len(Text(n)) = 1
    BY <2>3
  <2>5. Text(n)[1] = <<"digit", n>>
    BY <2>2, <2>3
  <2> QED BY <1>1, <2>4, <2>5, IsSequenceIs
<1>2. CASE n >= 10
  <2>1. Digits(n) = <<n \div 10, n % 10>>
    BY <1>2 DEF Digits
  <2>2. DOMAIN Digits(n) = 1 .. 2 /\ Digits(n)[1] = n \div 10 /\ Digits(n)[2] = n % 10
    BY <2>1
  <2>3. Text(n) = [i \in 1 .. 2 |-> <<"digit", Digits(n)[i]>>]
    BY <2>2 DEF Text
  <2>4. Text(n) \in Seq({<<"digit", Digits(n)[i]>> : i \in 1 .. 2}) /\ Len(Text(n)) = 2
    BY <2>3
  <2>5. Text(n)[1] = <<"digit", n \div 10>> /\ Text(n)[2] = <<"digit", n % 10>>
    BY <2>2, <2>3
  <2> QED BY <1>2, <2>4, <2>5, IsSequenceIs
<1> QED BY <1>1, <1>2

LEMMA BytesOf ==
    ASSUME NEW b
    PROVE  IsSequence(Bytes(b)) /\ Len(Bytes(b)) = 1 /\ Bytes(b)[1] = <<"bytes", b>>
<1>1. IsSequence(Bytes(b))
    BY BytesAre DEF Spoken
<1> QED BY <1>1 DEF Bytes

LEMMA TokensDiffer ==
    /\ \A x, y : <<"digit", x>> # <<"bytes", y>>
    /\ \A x, y : <<"digit", x>> = <<"digit", y>> => x = y
    /\ \A x, y : <<"bytes", x>> = <<"bytes", y>> => x = y
OBVIOUS

LEMMA BytesTell == ASSUME NEW b, NEW c, Bytes(b) = Bytes(c) PROVE b = c
<1>1. <<"bytes", b>> = <<"bytes", c>>
    BY BytesOf
<1> QED BY <1>1, TokensDiffer

LEMMA ThenBytes ==
    ASSUME NEW b, NEW s, NEW c, NEW t, IsSequence(s), IsSequence(t),
           Then(Bytes(b), s) = Then(Bytes(c), t)
    PROVE  b = c /\ s = t
<1>1. Bytes(b) = Bytes(c) /\ s = t
    BY BytesOf, ThenParts
<1> QED BY <1>1, BytesTell

\* A number ends where the next bytes begin.
LEMMA NumberEnds ==
    ASSUME NEW m \in Nat, NEW n \in Nat, NEW b, NEW s, NEW u,
           IsSequence(s), IsSequence(u),
           Then(Text(m), Then(Bytes(b), s)) = Then(Text(n), u)
    PROVE  ~ (Len(Text(m)) < Len(Text(n)))
<1> SUFFICES ASSUME Len(Text(m)) < Len(Text(n)) PROVE FALSE
    OBVIOUS
<1> DEFINE v == Then(Bytes(b), s)
<1>1. IsSequence(v) /\ Len(v) > 0 /\ v[1] = <<"bytes", b>>
  <2>1. IsSequence(Bytes(b)) /\ Len(Bytes(b)) = 1 /\ Bytes(b)[1] = <<"bytes", b>>
    BY BytesOf
  <2>2. v[1] = Bytes(b)[1]
    BY <2>1, ThenLeft
  <2>3. Len(v) = Len(Bytes(b)) + Len(s) /\ Len(s) \in Nat
    BY <2>1, ThenLong
  <2>4. IsSequence(v)
    BY <2>1, ThenIs
  <2> QED BY <2>1, <2>2, <2>3, <2>4
<1>2. Then(Text(m), v) = Then(Text(n), u)
    OBVIOUS
<1> HIDE DEF v
<1>3. /\ IsSequence(Text(m)) /\ IsSequence(Text(n)) /\ Len(Text(m)) = 1
      /\ Len(Text(n)) = 2 /\ n >= 10 /\ Text(n)[2] = <<"digit", n % 10>>
    BY TextOf
<1>4. Then(Text(m), v)[2] = v[1]
  <2>1. PICK k : k = Len(Text(m)) + 1
    OBVIOUS
  <2>2. Then(Text(m), v)[k] = v[1]
    <3>1. 1 \in 1 .. Len(v)
      BY <1>1 DEF IsSequence
    <3>2. \A i \in 1 .. Len(v) : Then(Text(m), v)[Len(Text(m)) + i] = v[i]
      <4>1. IsSequence(Text(m)) /\ IsSequence(v)
        BY <1>1, <1>3
      <4>2. PICK p : p = Text(m)
        OBVIOUS
      <4>3. \A i \in 1 .. Len(v) : Then(p, v)[Len(p) + i] = v[i]
        BY <4>1, <4>2, ThenRight
      <4> QED BY <4>2, <4>3, Zenon
    <3> QED BY <2>1, <3>1, <3>2
  <2>3. k = 2
    BY <1>3, <2>1
  <2> QED BY <2>2, <2>3
<1>5. Then(Text(n), u)[2] = Text(n)[2]
    BY <1>3, ThenLeft
<1> QED BY <1>1, <1>2, <1>3, <1>4, <1>5, TokensDiffer

LEMMA ThenText ==
    ASSUME NEW m \in Nat, NEW b, NEW s, NEW n \in Nat, NEW c, NEW t,
           IsSequence(s), IsSequence(t),
           Then(Text(m), Then(Bytes(b), s)) = Then(Text(n), Then(Bytes(c), t))
    PROVE  m = n /\ b = c /\ s = t
<1>1. IsSequence(Then(Bytes(b), s)) /\ IsSequence(Then(Bytes(c), t))
    BY BytesOf, ThenIs
<1>2. Len(Text(m)) = Len(Text(n))
  <2>1. ~ (Len(Text(m)) < Len(Text(n))) /\ ~ (Len(Text(n)) < Len(Text(m)))
    BY <1>1, NumberEnds
  <2>2. Len(Text(m)) \in {1, 2} /\ Len(Text(n)) \in {1, 2}
    BY TextOf
  <2> QED BY <2>1, <2>2
<1>3. Text(m) = Text(n) /\ Then(Bytes(b), s) = Then(Bytes(c), t)
  <2>1. IsSequence(Text(m)) /\ IsSequence(Text(n))
    BY TextOf
  <2> QED BY <1>1, <1>2, <2>1, ThenParts
<1>4. m = n
  <2>1. CASE m < 10
    <3>1. n < 10
      BY <2>1, <1>2, TextOf
    <3>2. <<"digit", m>> = <<"digit", n>>
      BY <1>3, <2>1, <3>1, TextOf
    <3> QED BY <3>2, TokensDiffer
  <2>2. CASE m >= 10
    <3>1. n >= 10
      BY <2>2, <1>2, TextOf
    <3>2. /\ <<"digit", m \div 10>> = <<"digit", n \div 10>>
          /\ <<"digit", m % 10>> = <<"digit", n % 10>>
      BY <1>3, <2>2, <3>1, TextOf
    <3>3. m \div 10 = n \div 10 /\ m % 10 = n % 10
      BY <3>2, TokensDiffer
    <3> QED BY <3>3
  <2> QED BY <2>1, <2>2
<1> QED BY <1>3, <1>4, ThenBytes

LEMMA CandidatesTell ==
    ASSUME NEW g, NEW h, g.height \in Nat, h.height \in Nat,
           CandidateHash(g) = CandidateHash(h)
    PROVE  /\ g.prev_hash = h.prev_hash /\ g.height = h.height
           /\ g.tx_root_hash = h.tx_root_hash /\ g.creator = h.creator
<1>1. ASSUME NEW f, f.height \in Nat
      PROVE  /\ CandidateHash(f) =
                    Then(Bytes(f.prev_hash), Then(Text(f.height),
                        Then(Bytes(f.tx_root_hash), Bytes(f.creator))))
             /\ IsSequence(Then(Text(f.height),
                        Then(Bytes(f.tx_root_hash), Bytes(f.creator))))
             /\ IsSequence(Bytes(f.creator))
  <2>1. /\ IsSequence(Bytes(f.prev_hash)) /\ IsSequence(Text(f.height))
        /\ IsSequence(Bytes(f.tx_root_hash)) /\ IsSequence(Bytes(f.creator))
    BY <1>1, TextOf, BytesOf
  <2>2. CandidateHash(f) =
            Then(Then(Then(Bytes(f.prev_hash), Text(f.height)),
                      Bytes(f.tx_root_hash)), Bytes(f.creator))
    BY DEF CandidateHash, Then
  <2> QED BY <2>1, <2>2, ThenIs, ThenRegroups
<1>2. /\ g.prev_hash = h.prev_hash
      /\ Then(Text(g.height), Then(Bytes(g.tx_root_hash), Bytes(g.creator)))
             = Then(Text(h.height), Then(Bytes(h.tx_root_hash), Bytes(h.creator)))
    BY <1>1, ThenBytes
<1> QED BY <1>1, <1>2, ThenText, BytesTell

LEMMA VotesTell ==
    ASSUME NEW v, NEW w, v.block_height \in Nat, w.block_height \in Nat,
           VoteHash(v) = VoteHash(w)
    PROVE  /\ v.block_height = w.block_height
           /\ v.candidate_block_hash = w.candidate_block_hash
           /\ v.creator = w.creator
<1>1. ASSUME NEW u, u.block_height \in Nat
      PROVE  /\ VoteHash(u) =
                    Then(Text(1), Then(Text(u.block_height),
                        Then(Bytes(u.candidate_block_hash), Bytes(u.creator))))
             /\ IsSequence(Then(Text(u.block_height),
                        Then(Bytes(u.candidate_block_hash), Bytes(u.creator))))
             /\ IsSequence(Bytes(u.creator)) /\ IsSequence(Text(1))
  <2>1. /\ IsSequence(Text(1)) /\ IsSequence(Text(u.block_height))
        /\ IsSequence(Bytes(u.candidate_block_hash)) /\ IsSequence(Bytes(u.creator))
    BY <1>1, TextOf, BytesOf
  <2>2. VoteHash(u) =
            Then(Then(Then(Text(1), Text(u.block_height)),
                      Bytes(u.candidate_block_hash)), Bytes(u.creator))
    BY DEF VoteHash, Then
  <2> QED BY <2>1, <2>2, ThenIs, ThenRegroups
<1>2. Then(Text(v.block_height), Then(Bytes(v.candidate_block_hash), Bytes(v.creator)))
        = Then(Text(w.block_height), Then(Bytes(w.candidate_block_hash), Bytes(w.creator)))
    BY <1>1, ThenParts
<1> QED BY <1>1, <1>2, ThenText, BytesTell

\* A transaction after its type, up to where its numbers run into each other
Body(t, r) == Then(Text(t.nonce), Then(Bytes(t.from), Then(Bytes(t.to), r)))

LEMMA TypeIs ==
    ASSUME NEW type
    PROVE  IsSequence(Then(Text(1), <<type>>)) /\ Len(Then(Text(1), <<type>>)) = 2
<1>1. PICK a, b : a = Text(1) /\ b = <<type>>
    OBVIOUS
<1>2. IsSequence(a) /\ IsSequence(b) /\ Len(a) = 1 /\ Len(b) = 1
  <2>1. IsSequence(a) /\ Len(a) = 1
    BY <1>1, TextOf
  <2>2. IsSequence(b)
    BY <1>1, OneToken DEF Spoken
  <2>3. Len(b) = 1
    BY <1>1
  <2> QED BY <2>1, <2>2, <2>3
<1>3. IsSequence(Then(a, b))
    BY <1>2, ThenIs
<1>4. Len(Then(a, b)) = Len(a) + Len(b)
    BY <1>2, ThenLong
<1>5. IsSequence(Then(a, b)) /\ Len(Then(a, b)) = 2
    BY <1>2, <1>3, <1>4
<1> QED BY <1>1, <1>5, Zenon

LEMMA TransactionBegins ==
    ASSUME NEW t, t.nonce \in Nat, IsSequence(t.message)
    PROVE  /\ \E r : /\ IsSequence(r)
                    /\ TransactionHash(t) = Then(Then(Text(1), <<t.type>>), Body(t, r))
           /\ Len(TransactionHash(t)) # 2
<1> DEFINE v == Text(t.value)
           f == Text(t.fee)
           e == Text(t.timestamp)
           p == Then(Text(1), <<t.type>>)
           r == Then(v, Then(f, Then(t.message, e)))
<1>1. /\ IsSequence(Text(1)) /\ IsSequence(<<t.type>>)
      /\ IsSequence(Text(t.nonce)) /\ Len(Text(t.nonce)) > 0
      /\ IsSequence(Bytes(t.from)) /\ IsSequence(Bytes(t.to))
      /\ IsSequence(v) /\ IsSequence(f) /\ IsSequence(e)
    BY TextIs, BytesAre, OneToken DEF Spoken
<1>2. TransactionHash(t) =
          Then(Then(Then(Then(Then(Then(Then(p, Text(t.nonce)), Bytes(t.from)),
              Bytes(t.to)), v), f), t.message), e)
    BY DEF TransactionHash, Then
<1>3. IsSequence(p) /\ Len(p) = 2
    BY TypeIs
<1> HIDE DEF v, f, e, p
<1>4. /\ IsSequence(Then(t.message, e)) /\ IsSequence(Then(f, Then(t.message, e)))
      /\ IsSequence(r)
    BY <1>1, ThenIs
<1>5. /\ IsSequence(Then(p, Text(t.nonce)))
      /\ IsSequence(Then(Then(p, Text(t.nonce)), Bytes(t.from)))
    BY <1>1, <1>3, ThenIs
<1> DEFINE q == Then(Then(Then(p, Text(t.nonce)), Bytes(t.from)), Bytes(t.to))
<1>6. IsSequence(q)
    BY <1>1, <1>5, ThenIs
<1>7. TransactionHash(t) = Then(q, r)
  <2> HIDE DEF q
  <2>1. Then(Then(Then(Then(q, v), f), t.message), e)
            = Then(Then(Then(q, v), f), Then(t.message, e))
    BY <1>1, <1>6, ThenIs, ThenRegroups
  <2>2. Then(Then(Then(q, v), f), Then(t.message, e))
            = Then(Then(q, v), Then(f, Then(t.message, e)))
    BY <1>1, <1>4, <1>6, ThenIs, ThenRegroups
  <2>3. Then(Then(q, v), Then(f, Then(t.message, e))) = Then(q, r)
    BY <1>1, <1>4, <1>6, ThenRegroups
  <2> QED BY <1>2, <2>1, <2>2, <2>3 DEF q
<1> HIDE DEF r
<1>8. Then(q, r) = Then(p, Body(t, r))
    BY <1>1, <1>3, <1>4, <1>5, ThenIs, ThenRegroups DEF Body
<1>9. IsSequence(Body(t, r)) /\ Len(Body(t, r)) > 0
  <2>1. IsSequence(Then(Bytes(t.from), Then(Bytes(t.to), r)))
    BY <1>1, <1>4, ThenIs
  <2> QED BY <1>1, <2>1, ThenIs, ThenLong DEF Body
<1>10. TransactionHash(t) = Then(p, Body(t, r))
    BY <1>7, <1>8
<1>11. Len(TransactionHash(t)) # 2
  <2>1. Len(Then(p, Body(t, r))) = Len(p) + Len(Body(t, r)) /\ Len(Body(t, r)) \in Nat
    BY <1>3, <1>9, ThenLong
  <2> QED BY <1>3, <1>9, <1>10, <2>1
<1> QED BY <1>4, <1>10, <1>11 DEF p

LEMMA TransactionsTell ==
    ASSUME NEW s, s.nonce \in Nat, IsSequence(s.message),
           NEW t, t.nonce \in Nat, IsSequence(t.message),
           TransactionHash(s) = TransactionHash(t)
    PROVE  s.nonce = t.nonce /\ s.from = t.from /\ s.to = t.to
<1>1. ASSUME NEW x, x.nonce \in Nat, IsSequence(x.message)
      PROVE  \E p, r : /\ IsSequence(p) /\ Len(p) = 2 /\ IsSequence(r)
                       /\ IsSequence(Then(Bytes(x.to), r)) /\ IsSequence(Body(x, r))
                       /\ TransactionHash(x) = Then(p, Body(x, r))
  <2>1. PICK r : /\ IsSequence(r)
                 /\ TransactionHash(x) = Then(Then(Text(1), <<x.type>>), Body(x, r))
    BY <1>1, TransactionBegins
  <2>2. /\ IsSequence(Text(x.nonce))
        /\ IsSequence(Bytes(x.from)) /\ IsSequence(Bytes(x.to))
    BY TextIs, BytesAre DEF Spoken
  <2>3. IsSequence(Then(Bytes(x.to), r))
    BY <2>1, <2>2, ThenIs
  <2>4. IsSequence(Body(x, r))
    BY <2>2, <2>3, ThenIs DEF Body
  <2> QED BY <2>1, <2>3, <2>4, TypeIs, Zenon
<1>2. PICK p, r : /\ IsSequence(p) /\ Len(p) = 2 /\ IsSequence(r)
                  /\ IsSequence(Then(Bytes(s.to), r)) /\ IsSequence(Body(s, r))
                  /\ TransactionHash(s) = Then(p, Body(s, r))
    BY <1>1
<1>3. PICK q, u : /\ IsSequence(q) /\ Len(q) = 2 /\ IsSequence(u)
                  /\ IsSequence(Then(Bytes(t.to), u)) /\ IsSequence(Body(t, u))
                  /\ TransactionHash(t) = Then(q, Body(t, u))
    BY <1>1
<1>4. Body(s, r) = Body(t, u)
  <2>1. Len(p) = Len(q) /\ Then(p, Body(s, r)) = Then(q, Body(t, u))
    BY <1>2, <1>3
  <2> QED BY <1>2, <1>3, <2>1, ThenParts
<1>5. s.nonce = t.nonce /\ s.from = t.from /\ Then(Bytes(s.to), r) = Then(Bytes(t.to), u)
    BY <1>2, <1>3, <1>4, ThenText DEF Body
<1> QED BY <1>2, <1>3, <1>5, ThenBytes

LEMMA ListsTell ==
    ASSUME NEW s, Listed(s), NEW t, Listed(t),
           merkleroot(TransactionHashes(s)) = merkleroot(TransactionHashes(t))
    PROVE  TransactionHashes(s) = TransactionHashes(t)
<1>1. ASSUME NEW list, Listed(list)
      PROVE  LET h == TransactionHashes(list)
             IN  /\ \E S : h \in Seq(S)
                 /\ h # <<>> /\ Differ(h) /\ Len(h[1]) # 2
                 /\ h = [i \in 1 .. Len(h) |-> h[i]]
  <2> DEFINE h == TransactionHashes(list)
  <2>1. PICK S : list \in Seq(S)
    BY <1>1, SequenceIs DEF Listed
  <2>2. DOMAIN list = 1 .. Len(list) /\ Len(list) \in Nat /\ Len(list) > 0
    BY <1>1, <2>1 DEF Listed
  <2>3. h = [i \in 1 .. Len(list) |-> TransactionHash(list[i])]
    BY <2>2 DEF TransactionHashes
  <2>4. h \in Seq({TransactionHash(list[i]) : i \in DOMAIN list}) /\ Len(h) = Len(list)
    BY <2>2, <2>3
  <2>5. Len(h[1]) # 2
    <3>1. 1 \in DOMAIN list /\ h[1] = TransactionHash(list[1])
      BY <2>2, <2>3
    <3> QED BY <1>1, <3>1, TransactionBegins DEF Listed
  <2>6. IsInjective(h) /\ DOMAIN h = 1 .. Len(h)
    BY <1>1, <2>2, <2>3, <2>4 DEF Listed
  <2> HIDE DEF h
  <2>7. h # <<>> /\ h = [i \in 1 .. Len(h) |-> h[i]]
    BY <2>2, <2>4
  <2>8. Differ(h)
    BY <2>6 DEF IsInjective, Differ
  <2>9. /\ \E X : h \in Seq(X)
        /\ h # <<>> /\ Differ(h) /\ Len(h[1]) # 2
        /\ h = [i \in 1 .. Len(h) |-> h[i]]
    BY <2>4, <2>5, <2>7, <2>8
  <2> QED BY <2>9 DEF h
<1>2. PICK g, h : g = TransactionHashes(s) /\ h = TransactionHashes(t)
    OBVIOUS
<1>3. PICK S : g \in Seq(S)
    BY <1>1, <1>2
<1>4. PICK T : h \in Seq(T)
    BY <1>1, <1>2
<1>5. /\ g # <<>> /\ Differ(g) /\ Len(g[1]) # 2 /\ g = [i \in 1 .. Len(g) |-> g[i]]
      /\ h # <<>> /\ Differ(h) /\ Len(h[1]) # 2 /\ h = [i \in 1 .. Len(h) |-> h[i]]
    BY <1>1, <1>2
<1>6. merkleroot(g) = merkleroot(h)
    BY <1>2
<1>7. Len(g) = Len(h) /\ \A i \in 1 .. Len(g) : g[i] = h[i]
    BY <1>3, <1>4, <1>5, <1>6, RootsTellApart
<1>8. g = h
    BY <1>5, <1>7
<1> QED BY <1>2, <1>8

-----------------------------------------------------------------------------
(* Blocks.                                                                   *)

HeaderShape(h) == DOMAIN h = HeaderKeys \cup {"timestamp"}

\* b has the fields of a block, and lists where they belong.
Shape(b) ==
    /\ DOMAIN b = {"header", "transactions", "votes"}
    /\ b = [k \in DOMAIN b |-> b[k]]
    /\ HeaderShape(b.header)
    /\ b.header = [k \in DOMAIN b.header |-> b.header[k]]

LEMMA KeysAre ==
    /\ HeaderKeys =
           {"prev_hash", "block_hash", "height", "tx_root_hash", "creator",
            "retry_count", "candidate_block_hash", "vote_root_hash"}
    /\ BytesKeys \subseteq HeaderKeys /\ "timestamp" \notin HeaderKeys
    /\ DOMAIN NewHeader = HeaderKeys \cup {"timestamp"}
BY DEF HeaderKeys, BytesKeys, NewHeader

LEMMA NewBlockShape == Shape(NewBlock)
BY KeysAre DEF Shape, HeaderShape, NewBlock, NewHeader

\* What the hashes are made of
Alike(b, c) ==
    /\ \A k \in HeaderKeys : b.header[k] = c.header[k]
    /\ TransactionHashes(b.transactions) = TransactionHashes(c.transactions)
    /\ VoteHashes(b.votes) = VoteHashes(c.votes)
    /\ {VoteWave(v) : v \in ToSet(b.votes)} = {VoteWave(v) : v \in ToSet(c.votes)}

LEMMA PackedTransaction ==
    ASSUME NEW t PROVE TransactionHash(Pack(t, TransactionKeys)) = TransactionHash(t)
<1> DEFINE p == Pack(t, TransactionKeys)
<1>1. /\ p.type = t.type /\ p.nonce = t.nonce /\ p.from = t.from /\ p.to = t.to
      /\ p.value = t.value /\ p.fee = t.fee /\ p.message = t.message
      /\ p.timestamp = t.timestamp
    BY DEF Pack, TransactionKeys
<1> HIDE DEF p
<1>2. TransactionHash(p) = TransactionHash(t)
    BY <1>1 DEF TransactionHash
<1> QED BY <1>2 DEF p

LEMMA PackedVote ==
    ASSUME NEW v
    PROVE  LET p == Pack(v, VoteKeys)
           IN  /\ VoteHash(p) = VoteHash(v) /\ VoteWave(p) = VoteWave(v)
               /\ p.vote_hash = v.vote_hash /\ p.creator = v.creator
<1> DEFINE p == Pack(v, VoteKeys)
<1>1. /\ p.block_height = v.block_height /\ p.retry_count = v.retry_count
      /\ p.candidate_block_hash = v.candidate_block_hash
      /\ p.creator = v.creator /\ p.vote_hash = v.vote_hash
    BY DEF Pack, VoteKeys
<1> HIDE DEF p
<1>2. VoteHash(p) = VoteHash(v) /\ VoteWave(p) = VoteWave(v)
    BY <1>1 DEF VoteHash, VoteWave
<1> QED BY <1>1, <1>2 DEF p

LEMMA PackedList ==
    ASSUME NEW list, Listed(list)
    PROVE  Listed([i \in DOMAIN list |-> Pack(list[i], TransactionKeys)])
<1> DEFINE p == [i \in DOMAIN list |-> Pack(list[i], TransactionKeys)]
<1>1. PICK S : list \in Seq(S)
    BY SequenceIs DEF Listed
<1>2. DOMAIN list = 1 .. Len(list) /\ Len(list) \in Nat /\ Len(list) > 0
    BY <1>1 DEF Listed
<1>3. p \in Seq({Pack(list[i], TransactionKeys) : i \in DOMAIN list})
    BY <1>2
<1>4. IsSequence(p) /\ p # <<>> /\ DOMAIN p = DOMAIN list
  <2>1. DOMAIN p = DOMAIN list
    OBVIOUS
  <2>2. Len(p) = Len(list)
    BY <1>2, <1>3
  <2> HIDE DEF p
  <2>3. IsSequence(p)
    BY <1>3, IsSequenceIs
  <2>4. p # <<>>
    BY <1>2, <2>2
  <2> QED BY <2>1, <2>3, <2>4
<1>5. \A i \in DOMAIN p : p[i].nonce = list[i].nonce /\ p[i].message = list[i].message
    BY DEF Pack, TransactionKeys
<1>6. TransactionHashes(p) = TransactionHashes(list)
    BY PackedTransaction DEF TransactionHashes
<1> HIDE DEF p
<1>7. Listed(p)
    BY <1>4, <1>5, <1>6 DEF Listed
<1> QED BY <1>7 DEF p

LEMMA Through ==
    ASSUME NEW b, Shape(b)
    PROVE  Shape(FromDict(ToDict(b))) /\ Alike(FromDict(ToDict(b)), b)
<1> DEFINE d == ToDict(b)
           c == FromDict(d)
<1>1. /\ DOMAIN d = {"header", "transactions", "votes"}
      /\ d = [k \in DOMAIN d |-> d[k]]
      /\ d.header = Pack(b.header, HeaderKeys)
      /\ d.transactions = [i \in DOMAIN b.transactions |->
                               Pack(b.transactions[i], TransactionKeys)]
      /\ d.votes = [i \in DOMAIN b.votes |-> Pack(b.votes[i], VoteKeys)]
    BY DEF ToDict
<1> HIDE DEF d
<1>2. /\ DOMAIN c = DOMAIN d /\ c = [k \in DOMAIN c |-> c[k]]
      /\ c.header = Unpack(d.header, NewHeader)
      /\ c.transactions = d.transactions /\ c.votes = d.votes
    BY <1>1 DEF FromDict
<1> HIDE DEF c
<1>3. /\ DOMAIN d.header = HeaderKeys
      /\ \A k \in HeaderKeys : d.header[k] = b.header[k]
    BY <1>1 DEF Pack
<1>4. /\ c.header = [k \in DOMAIN c.header |-> c.header[k]]
      /\ DOMAIN c.header = HeaderKeys \cup {"timestamp"}
      /\ \A k \in HeaderKeys : c.header[k] = b.header[k]
  <2>1. c.header =
            [k \in HeaderKeys \cup DOMAIN NewHeader |->
                IF k \in HeaderKeys THEN d.header[k] ELSE NewHeader[k]]
    BY <1>2, <1>3 DEF Unpack
  <2>2. HeaderKeys \cup DOMAIN NewHeader = HeaderKeys \cup {"timestamp"}
    BY KeysAre
  <2> QED BY <1>3, <2>1, <2>2
<1>5. Shape(c)
    BY <1>1, <1>2, <1>4 DEF Shape, HeaderShape
<1>6. TransactionHashes(c.transactions) = TransactionHashes(b.transactions)
    BY <1>1, <1>2, PackedTransaction DEF TransactionHashes
<1>7. VoteHashes(c.votes) = VoteHashes(b.votes)
    BY <1>1, <1>2, PackedVote DEF VoteHashes
<1>8. {VoteWave(v) : v \in ToSet(c.votes)} = {VoteWave(v) : v \in ToSet(b.votes)}
    BY <1>1, <1>2, PackedVote DEF ToSet
<1>9. Alike(c, b)
    BY <1>4, <1>6, <1>7, <1>8 DEF Alike
<1> QED BY <1>5, <1>9 DEF c, d

LEMMA AlikeIs ==
    ASSUME NEW b, NEW c, Alike(b, c)
    PROVE  /\ CandidateHash(b.header) = CandidateHash(c.header)
           /\ HeaderHash(b.header) = HeaderHash(c.header)
           /\ HeaderWave(b.header) = HeaderWave(c.header)
           /\ TxRoot(b) = TxRoot(c) /\ VoteRoot(b) = VoteRoot(c)
<1>1. /\ b.header.prev_hash = c.header.prev_hash
      /\ b.header.height = c.header.height
      /\ b.header.tx_root_hash = c.header.tx_root_hash
      /\ b.header.creator = c.header.creator
      /\ b.header.retry_count = c.header.retry_count
      /\ b.header.candidate_block_hash = c.header.candidate_block_hash
      /\ b.header.vote_root_hash = c.header.vote_root_hash
    BY KeysAre DEF Alike
<1>2. CandidateHash(b.header) = CandidateHash(c.header)
    BY <1>1 DEF CandidateHash
<1>3. HeaderHash(b.header) = HeaderHash(c.header)
    BY <1>1, <1>2 DEF HeaderHash
<1>4. HeaderWave(b.header) = HeaderWave(c.header)
    BY <1>1 DEF HeaderWave
<1>5. TxRoot(b) = TxRoot(c) /\ VoteRoot(b) = VoteRoot(c)
    BY DEF Alike, TxRoot, VoteRoot
<1> QED BY <1>2, <1>3, <1>4, <1>5

LEMMA WholeAlike ==
    ASSUME NEW b, NEW c, Alike(b, c), Whole(c) PROVE Whole(b)
<1>1. /\ CandidateHash(b.header) = CandidateHash(c.header)
      /\ HeaderHash(b.header) = HeaderHash(c.header)
      /\ HeaderWave(b.header) = HeaderWave(c.header)
      /\ TxRoot(b) = TxRoot(c) /\ VoteRoot(b) = VoteRoot(c)
    BY AlikeIs
<1>2. /\ b.header.candidate_block_hash = c.header.candidate_block_hash
      /\ b.header.tx_root_hash = c.header.tx_root_hash
      /\ b.header.block_hash = c.header.block_hash
      /\ b.header.vote_root_hash = c.header.vote_root_hash
    BY KeysAre DEF Alike
<1>3. {VoteWave(v) : v \in ToSet(b.votes)} = {VoteWave(v) : v \in ToSet(c.votes)}
    BY DEF Alike
<1>4. ToSet(b.votes) # {} => ToSet(c.votes) # {}
    BY <1>3
<1>5. (\A v \in ToSet(c.votes) : VoteWave(v) = HeaderWave(c.header)) =>
          \A v \in ToSet(b.votes) : VoteWave(v) = HeaderWave(b.header)
    BY <1>1, <1>3
<1> QED BY <1>1, <1>2, <1>4, <1>5 DEF Whole

LEMMA KeptIs ==
    ASSUME NEW list, IsSequence(list), NEW keep
    PROVE  /\ IsSequence(Kept(list, keep))
           /\ ToSet(Kept(list, keep)) = ToSet(list) \cap keep
<1> DEFINE n == Len(list)
           Upto(i) == {list[j] : j \in {m \in 1 .. i : list[m] \in keep}}
<1>1. PICK C : list \in Seq(C)
    BY SequenceIs
<1>2. n \in Nat
    BY <1>1
<1>3. PICK k : KeptSoFar(k, list, keep)
    BY <1>1, KeptSteps
<1>4. /\ Kept(list, keep) = k[n] /\ k[0] = <<>>
      /\ \A i \in 1 .. n : k[i] = IF list[i] \in keep
                                    THEN Append(k[i - 1], list[i]) ELSE k[i - 1]
    BY <1>3 DEF KeptSoFar
<1> DEFINE T == {i \in 0 .. n : IsSequence(k[i]) /\ ToSet(k[i]) = Upto(i)}
<1>5. 0 \in T
  <2>1. IsSequence(<<>>) /\ ToSet(<<>>) = {}
    BY DEF IsSequence, ToSet
  <2>2. Upto(0) = {}
    OBVIOUS
  <2> HIDE DEF Upto
  <2> QED BY <1>2, <1>4, <2>1, <2>2
<1>6. ASSUME NEW i \in 0 .. n - 1, i \in T PROVE i + 1 \in T
  <2>1. i \in 0 .. n /\ i + 1 \in 1 .. n /\ (i + 1) - 1 = i /\ i + 1 \in 0 .. n
    BY <1>2
  <2>2. CASE list[i + 1] \in keep
    <3>1. Upto(i + 1) = Upto(i) \cup {list[i + 1]}
      BY <2>1, <2>2
    <3> HIDE DEF Upto
    <3>2. k[i + 1] = Append(k[i], list[i + 1])
      BY <1>4, <2>1, <2>2
    <3>3. /\ IsSequence(k[i + 1])
          /\ ToSet(k[i + 1]) = ToSet(k[i]) \cup {list[i + 1]}
      BY <1>6, <3>2, AppendIs
    <3> QED BY <1>6, <2>1, <3>1, <3>3
  <2>3. CASE list[i + 1] \notin keep
    <3>1. Upto(i + 1) = Upto(i)
      BY <2>1, <2>3
    <3> HIDE DEF Upto
    <3>2. k[i + 1] = k[i]
      BY <1>4, <2>1, <2>3
    <3> QED BY <1>6, <2>1, <3>1, <3>2
  <2> QED BY <2>2, <2>3
<1>7. Upto(n) = ToSet(list) \cap keep
  <2>1. ToSet(list) = {list[j] : j \in 1 .. n}
    BY <1>1, IsSequenceIs
  <2> QED BY <2>1
<1> HIDE DEF Upto, T
<1>8. n \in T
  <2>1. 0 .. n \subseteq T
    BY <1>2, <1>5, <1>6, Reaches
  <2> QED BY <1>2, <2>1
<1> QED BY <1>4, <1>7, <1>8 DEF T

(* The invariant.                                                            *)

\* b is a block of a node, and to_dict can decode what it carries.
Made(b) ==
    /\ Shape(b) /\ Whole(b) /\ Listed(b.transactions)
    /\ b.header.height \in Nat /\ b.header.creator \in Address
    /\ \A k \in BytesKeys : b.header[k] # Nothing

\* The hash of the last block can be the predecessor of another.
LastIs(d) ==
    /\ FromDict(d).header.block_hash # Nothing
    /\ FromDict(d).header.height \in Nat
    /\ d.header.height > 0 => Made(FromDict(d)) /\ IsCopy(FromDict(d))

VoteIs(v) == v.vote_hash = VoteHash(v) /\ v.block_height \in Nat

OnWire(p) ==
    /\ p[1] \in {"candidate", "finalize"} =>
           Made(FromDict(p[2])) /\ IsCopy(FromDict(p[2]))
    /\ p[1] = "finalize" => ToSet(FromDict(p[2]).votes) # {}
    /\ p[1] = "vote" => VoteIs(p[2])

VotesAre(list) == IsSequence(list) /\ \A v \in ToSet(list) : VoteIs(v)

Domains ==
    /\ DOMAIN pool = Address /\ DOMAIN votes = Address
    /\ DOMAIN wire = Address /\ DOMAIN last = Address

RecordsInv ==
    /\ ~raised /\ Domains
    /\ \A n \in Address :
           /\ \A b \in pool[n] : Made(b) /\ IsCopy(b)
           /\ VotesAre(votes[n])
           /\ \A p \in wire[n] : OnWire(p)
           /\ LastIs(last[n])

LEMMA InvIsWhole == RecordsInv => ArrivesWhole
<1> SUFFICES ASSUME RecordsInv PROVE ArrivesWhole
    OBVIOUS
<1>1. ~raised
    BY DEF RecordsInv
<1>2. ASSUME NEW b \in Blocks PROVE Whole(b) /\ IsCopy(b)
  <2>1. CASE \E n \in Address : b \in pool[n]
    BY <2>1 DEF RecordsInv, Made
  <2>2. CASE \E n \in Address : last[n].header.height > 0 /\ b = FromDict(last[n])
    BY <2>2 DEF RecordsInv, LastIs, Made
  <2> QED BY <2>1, <2>2 DEF Blocks
<1>3. ASSUME NEW v \in Votes PROVE v.vote_hash = VoteHash(v)
    BY DEF RecordsInv, VotesAre, VoteIs, Votes
<1> QED BY <1>1, <1>2, <1>3 DEF ArrivesWhole

LEMMA InitIsWhole == RecordsInit => RecordsInv
<1> SUFFICES ASSUME RecordsInit PROVE RecordsInv
    OBVIOUS
<1>1. ~raised /\ Domains
    BY DEF RecordsInit, Domains
<1>2. ASSUME NEW n \in Address
      PROVE  pool[n] = {} /\ votes[n] = <<>> /\ wire[n] = {}
             /\ last[n] = ToDict(GenesisBlock)
    BY DEF RecordsInit
<1>3. VotesAre(<<>>)
  <2>1. IsSequence(<<>>) /\ ToSet(<<>>) = {}
    BY DEF IsSequence, ToSet
  <2> QED BY <2>1 DEF VotesAre
<1>4. LastIs(ToDict(GenesisBlock))
  <2> DEFINE g == GenesisBlock
             d == ToDict(g)
  <2>1. /\ Shape(g) /\ g.header.height = 0
        /\ g.header.block_hash = HeaderHash(NewHeader)
    BY KeysAre DEF GenesisBlock, NewBlock, NewHeader, Shape, HeaderShape
  <2> HIDE DEF g
  <2>2. Alike(FromDict(d), g)
    BY <2>1, Through
  <2>3. FromDict(d).header.block_hash = HeaderHash(NewHeader)
    BY <2>1, <2>2, KeysAre DEF Alike
  <2>4. d.header.height = 0
    BY <2>1, KeysAre DEF ToDict, Pack
  <2>5. FromDict(d).header.block_hash # Nothing /\ FromDict(d).header.height \in Nat
    BY <2>1, <2>2, <2>3, KeysAre, HeaderHashIs, SpokenIs DEF Alike
  <2> HIDE DEF d
  <2>6. LastIs(d)
    BY <2>4, <2>5 DEF LastIs
  <2> QED BY <2>6 DEF d, g
<1> QED BY <1>1, <1>2, <1>3, <1>4 DEF RecordsInv

\* A block of a pool is there, or one that was made of it.
SameBlock(b, c) ==
    /\ HeaderWave(b.header) = HeaderWave(c.header)
    /\ b.header.candidate_block_hash = c.header.candidate_block_hash

PoolsKeep ==
    \A n \in Address : \A c \in pool[n] : \E e \in pool'[n] : SameBlock(e, c)

LEMMA CopyStays ==
    ASSUME PoolsKeep, NEW b, b.header.creator \in Address, IsCopy(b)
    PROVE  IsCopy(b)'
<1> DEFINE n == b.header.creator
<1>1. PICK c \in pool[n] : SameBlock(c, b)
    BY DEF IsCopy, SameBlock
<1>2. PICK e \in pool'[n] : SameBlock(e, c)
    BY DEF PoolsKeep
<1>3. SameBlock(e, b)
    BY <1>1, <1>2 DEF SameBlock
<1> QED BY <1>3 DEF IsCopy, SameBlock

\* What a step adds is well made, and what was there stays so.
LEMMA Preserved ==
    ASSUME RecordsInv, PoolsKeep, ~raised', Domains',
           \A n \in Address :
               /\ \A b \in pool'[n] : Made(b) /\ (IsCopy(b) \/ IsCopy(b)')
               /\ VotesAre(votes'[n])
               /\ \A p \in wire'[n] : p \in wire[n] \/ OnWire(p)'
               /\ last'[n] = last[n] \/ LastIs(last[n])'
    PROVE  RecordsInv'
<1> SUFFICES ASSUME NEW n \in Address
             PROVE  /\ \A b \in pool'[n] : Made(b) /\ IsCopy(b)'
                    /\ VotesAre(votes'[n])
                    /\ \A p \in wire'[n] : OnWire(p)'
                    /\ LastIs(last[n])'
    BY DEF RecordsInv
<1>1. ASSUME NEW b \in pool'[n] PROVE Made(b) /\ IsCopy(b)'
    BY CopyStays DEF Made
<1>2. ASSUME NEW p \in wire'[n] PROVE OnWire(p)'
  <2>1. CASE OnWire(p)'
    BY <2>1
  <2>2. CASE p \in wire[n]
    <3>1. OnWire(p)
      BY <2>2 DEF RecordsInv
    <3>2. p[1] \in {"candidate", "finalize"} =>
              Made(FromDict(p[2])) /\ IsCopy(FromDict(p[2]))'
      BY <3>1, CopyStays DEF OnWire, Made
    <3> QED BY <3>1, <3>2 DEF OnWire
  <2> QED BY <1>2, <2>1, <2>2
<1>3. LastIs(last[n])'
  <2>1. CASE last'[n] = last[n]
    <3>1. PICK d : d = last[n]
      OBVIOUS
    <3>2. LastIs(d)
      BY <3>1 DEF RecordsInv
    <3>3. d.header.height > 0 => Made(FromDict(d)) /\ IsCopy(FromDict(d))'
      BY <3>2, CopyStays DEF LastIs, Made
    <3>4. last'[n] = d
      BY <2>1, <3>1
    <3> QED BY <3>2, <3>3, <3>4 DEF LastIs
  <2> QED BY <2>1
<1> QED BY <1>1, <1>2, <1>3

(* The blocks that are made and completed.                                   *)

LEMMA RootOfTransactions ==
    ASSUME NEW list, Listed(list)
    PROVE  merkleroot(TransactionHashes(list)) # Nothing
<1> DEFINE s == TransactionHashes(list)
<1>1. PICK S : list \in Seq(S)
    BY SequenceIs DEF Listed
<1>2. DOMAIN list = 1 .. Len(list) /\ Len(list) \in Nat /\ Len(list) > 0
    BY <1>1 DEF Listed
<1>3. s = [i \in 1 .. Len(list) |-> TransactionHash(list[i])]
    BY <1>2 DEF TransactionHashes
<1>4. \A i \in 1 .. Len(list) : Spoken(s[i])
    BY <1>2, <1>3, TransactionHashIs DEF Listed
<1>5. s \in Seq({TransactionHash(list[i]) : i \in 1 .. Len(list)}) /\ Len(s) = Len(list)
    BY <1>2, <1>3
<1> HIDE DEF s
<1>6. Spoken(s)
    BY <1>2, <1>5, IsSequenceIs DEF Spoken
<1>7. merkleroot(s) # Nothing
    BY <1>4, <1>5, <1>6, RootIs
<1> QED BY <1>7 DEF s

LEMMA RootOfVotes ==
    ASSUME NEW list, IsSequence(list), ToSet(list) # {}
    PROVE  merkleroot(VoteHashes(list)) # Nothing
<1> DEFINE s == VoteHashes(list)
<1>1. PICK S : list \in Seq(S)
    BY SequenceIs
<1>2. DOMAIN list = 1 .. Len(list) /\ Len(list) \in Nat /\ Len(list) > 0
  <2>1. DOMAIN list = 1 .. Len(list) /\ Len(list) \in Nat
    BY <1>1
  <2>2. DOMAIN list # {}
    BY DEF ToSet
  <2> QED BY <2>1, <2>2
<1>3. s = [i \in 1 .. Len(list) |-> VoteHash(list[i])]
    BY <1>2 DEF VoteHashes
<1>4. \A i \in 1 .. Len(list) : Spoken(s[i])
    BY <1>3, VoteHashIs
<1>5. s \in Seq({VoteHash(list[i]) : i \in 1 .. Len(list)}) /\ Len(s) = Len(list)
    BY <1>2, <1>3
<1> HIDE DEF s
<1>6. Spoken(s)
    BY <1>2, <1>5, IsSequenceIs DEF Spoken
<1>7. merkleroot(s) # Nothing
    BY <1>4, <1>5, <1>6, RootIs
<1> QED BY <1>7 DEF s

LEMMA NothingJoins == ASSUME NEW s, IsSequence(s) PROVE <<>> \o s = s
<1>1. PICK S : s \in Seq(S)
    BY SequenceIs
<1> QED BY <1>1

LEMMA GeneratedIs ==
    ASSUME NEW n \in Address, NEW retry, NEW list \in TxLists,
           LastHeader(n).block_hash # Nothing, LastHeader(n).height \in Nat
    PROVE  LET b == GenerateCandidate(n, retry, list)
           IN  Made(b) /\ b.header.creator = n
<1> DEFINE new == [NewBlock EXCEPT !.header.prev_hash = LastHeader(n).block_hash,
                                   !.header.height = LastHeader(n).height + 1,
                                   !.header.creator = n,
                                   !.header.retry_count = retry]
           full == AddTransactions(new, list)
           rooted == [full EXCEPT !.header.tx_root_hash = TxRoot(full)]
           b == [rooted EXCEPT !.header.candidate_block_hash =
                                   CandidateHash(rooted.header)]
<1>1. GenerateCandidate(n, retry, list) = b
    BY DEF GenerateCandidate
<1>2. /\ Shape(new) /\ new.transactions = <<>> /\ new.votes = <<>>
      /\ new.header.prev_hash = LastHeader(n).block_hash
      /\ new.header.height \in Nat /\ new.header.creator = n
      /\ new.header.block_hash = Empty /\ new.header.vote_root_hash = Empty
  <2>1. /\ Shape(NewBlock) /\ NewBlock.transactions = <<>> /\ NewBlock.votes = <<>>
        /\ NewBlock.header.block_hash = Empty /\ NewBlock.header.vote_root_hash = Empty
    BY NewBlockShape DEF NewBlock, NewHeader
  <2>2. PICK p, m : p = LastHeader(n).block_hash /\ m = LastHeader(n).height + 1
    OBVIOUS
  <2>3. PICK z : z = NewBlock
    OBVIOUS
  <2> DEFINE h == [z.header EXCEPT !.prev_hash = p, !.height = m,
                                   !.creator = n, !.retry_count = retry]
             w == [z EXCEPT !.header = h]
  <2>4. Shape(z) /\ z.transactions = <<>> /\ z.votes = <<>>
        /\ z.header.block_hash = Empty /\ z.header.vote_root_hash = Empty
    BY <2>1, <2>3
  <2>5. /\ DOMAIN h = HeaderKeys \cup {"timestamp"} /\ h = [k \in DOMAIN h |-> h[k]]
        /\ h.prev_hash = p /\ h.height = m /\ h.creator = n
        /\ h.block_hash = Empty /\ h.vote_root_hash = Empty
    BY <2>4, KeysAre DEF Shape, HeaderShape
  <2> HIDE DEF h
  <2>6. /\ Shape(w) /\ w.transactions = <<>> /\ w.votes = <<>> /\ w.header = h
    BY <2>4, <2>5 DEF Shape, HeaderShape
  <2>7. new = w
    BY <2>2, <2>3 DEF h
  <2> HIDE DEF new, w
  <2>8. m \in Nat
    BY <2>2
  <2> QED BY <2>2, <2>5, <2>6, <2>7, <2>8
<1> HIDE DEF new
<1>3. /\ Shape(full) /\ full.transactions = list /\ full.votes = <<>>
      /\ \A k \in HeaderKeys \ {"tx_root_hash"} : full.header[k] = new.header[k]
  <2>1. <<>> \o list = list
    BY NothingJoins, ListAssumption DEF Listed
  <2> QED BY <1>2, <2>1, KeysAre DEF AddTransactions, Shape, HeaderShape
<1> HIDE DEF full
<1>4. /\ Shape(rooted) /\ rooted.transactions = list /\ rooted.votes = <<>>
      /\ rooted.header.tx_root_hash = TxRoot(full)
      /\ \A k \in HeaderKeys \ {"tx_root_hash"} : rooted.header[k] = new.header[k]
    BY <1>3, KeysAre DEF Shape, HeaderShape
<1> HIDE DEF rooted
<1>5. /\ Shape(b) /\ b.transactions = list /\ b.votes = <<>>
      /\ b.header.candidate_block_hash = CandidateHash(rooted.header)
      /\ b.header.tx_root_hash = TxRoot(full)
      /\ \A k \in HeaderKeys \ {"candidate_block_hash"} : b.header[k] = rooted.header[k]
    BY <1>4, KeysAre DEF Shape, HeaderShape
<1> HIDE DEF b
<1>6. TxRoot(b) = TxRoot(full) /\ TxRoot(full) # Nothing
    BY <1>3, <1>5, RootOfTransactions, ListAssumption DEF TxRoot
<1>7. CandidateHash(b.header) = CandidateHash(rooted.header)
  <2>1. /\ b.header.prev_hash = rooted.header.prev_hash
        /\ b.header.height = rooted.header.height
        /\ b.header.tx_root_hash = rooted.header.tx_root_hash
        /\ b.header.creator = rooted.header.creator
    BY <1>5, KeysAre
  <2> QED BY <2>1 DEF CandidateHash
<1>8. /\ b.header.prev_hash # Nothing /\ b.header.creator = n /\ b.header.height \in Nat
      /\ b.header.block_hash = Empty /\ b.header.vote_root_hash = Empty
    BY <1>2, <1>4, <1>5, KeysAre
<1>9. Whole(b)
  <2>1. ToSet(b.votes) = {}
    BY <1>5 DEF ToSet
  <2> QED BY <1>5, <1>6, <1>7, <2>1 DEF Whole
<1>10. \A k \in BytesKeys : b.header[k] # Nothing
  <2>1. CandidateHash(rooted.header) # Nothing
    BY CandidateHashIs, SpokenIs
  <2> QED BY <1>5, <1>6, <1>8, <2>1, BytesAssumption DEF BytesKeys
<1>11. Made(b)
    BY <1>5, <1>8, <1>9, <1>10, ListAssumption DEF Made
<1> QED BY <1>1, <1>8, <1>11

LEMMA FinalizedIs ==
    ASSUME NEW n, NEW b, Made(b), b.votes = <<>>, VotesAre(votes[n]),
           \E v \in ToSet(votes[n]) :
               /\ VoteWave(v) = HeaderWave(b.header)
               /\ v.candidate_block_hash = b.header.candidate_block_hash
    PROVE  LET f == GenerateFinalize(n, b)
           IN  /\ Made(f) /\ SameBlock(f, b) /\ ToSet(f.votes) # {}
               /\ f.header.creator = b.header.creator
<1> DEFINE inWave == {v \in ToSet(votes[n]) :
                         /\ VoteWave(v) = HeaderWave(b.header)
                         /\ v.candidate_block_hash = b.header.candidate_block_hash}
           list == Kept(votes[n], inWave)
           full == AddVotes(b, list)
           rooted == [full EXCEPT !.header.vote_root_hash = VoteRoot(full)]
           f == [rooted EXCEPT !.header.block_hash = HeaderHash(rooted.header)]
<1>1. GenerateFinalize(n, b) = f
    BY DEF GenerateFinalize
<1>2. IsSequence(list) /\ ToSet(list) = inWave
  <2>1. IsSequence(votes[n])
    BY DEF VotesAre
  <2>2. ToSet(list) = ToSet(votes[n]) \cap inWave
    BY <2>1, KeptIs
  <2>3. inWave \subseteq ToSet(votes[n])
    OBVIOUS
  <2> HIDE DEF inWave
  <2> QED BY <2>1, <2>2, <2>3, KeptIs
<1>3. inWave # {} /\ \A v \in inWave : VoteWave(v) = HeaderWave(b.header)
    OBVIOUS
<1> HIDE DEF inWave, list
<1>4. /\ Shape(b) /\ Whole(b) /\ Listed(b.transactions)
      /\ b.header.height \in Nat /\ b.header.creator \in Address
    BY DEF Made
<1>5. /\ Shape(full) /\ full.transactions = b.transactions /\ full.votes = list
      /\ \A k \in HeaderKeys \ {"vote_root_hash"} : full.header[k] = b.header[k]
  <2>1. b.votes \o list = list
    BY <1>2, NothingJoins
  <2> QED BY <1>4, <2>1, KeysAre DEF AddVotes, Shape, HeaderShape
<1> HIDE DEF full
<1>6. /\ Shape(rooted) /\ rooted.transactions = b.transactions /\ rooted.votes = list
      /\ rooted.header.vote_root_hash = VoteRoot(full)
      /\ \A k \in HeaderKeys \ {"vote_root_hash"} : rooted.header[k] = b.header[k]
    BY <1>5, KeysAre DEF Shape, HeaderShape
<1> HIDE DEF rooted
<1>7. /\ Shape(f) /\ f.transactions = b.transactions /\ f.votes = list
      /\ f.header.block_hash = HeaderHash(rooted.header)
      /\ \A k \in HeaderKeys \ {"block_hash"} : f.header[k] = rooted.header[k]
    BY <1>6, KeysAre DEF Shape, HeaderShape
<1> HIDE DEF f
<1>8. /\ f.header.prev_hash = rooted.header.prev_hash
      /\ f.header.height = rooted.header.height
      /\ f.header.tx_root_hash = rooted.header.tx_root_hash
      /\ f.header.creator = rooted.header.creator
      /\ f.header.retry_count = rooted.header.retry_count
      /\ f.header.candidate_block_hash = rooted.header.candidate_block_hash
      /\ f.header.vote_root_hash = VoteRoot(full)
      /\ rooted.header.vote_root_hash = VoteRoot(full)
    BY <1>6, <1>7, KeysAre
<1>9. /\ rooted.header.prev_hash = b.header.prev_hash
      /\ rooted.header.height = b.header.height
      /\ rooted.header.tx_root_hash = b.header.tx_root_hash
      /\ rooted.header.creator = b.header.creator
      /\ rooted.header.retry_count = b.header.retry_count
      /\ rooted.header.candidate_block_hash = b.header.candidate_block_hash
    BY <1>6, KeysAre
<1>10. VoteRoot(f) = VoteRoot(full) /\ VoteRoot(full) # Nothing
    BY <1>2, <1>3, <1>5, <1>7, RootOfVotes DEF VoteRoot
<1>11. /\ CandidateHash(f.header) = CandidateHash(b.header)
       /\ HeaderHash(f.header) = HeaderHash(rooted.header)
       /\ HeaderWave(f.header) = HeaderWave(b.header)
  <2>1. /\ CandidateHash(f.header) = CandidateHash(b.header)
        /\ CandidateHash(f.header) = CandidateHash(rooted.header)
    BY <1>8, <1>9 DEF CandidateHash
  <2>2. HeaderHash(f.header) = HeaderHash(rooted.header)
    BY <1>8, <2>1 DEF HeaderHash
  <2>3. HeaderWave(f.header) = HeaderWave(b.header)
    BY <1>8, <1>9 DEF HeaderWave
  <2> QED BY <2>1, <2>2, <2>3
<1>12. TxRoot(f) = TxRoot(b)
    BY <1>7 DEF TxRoot
<1>13. Whole(f)
  <2>1. /\ b.header.candidate_block_hash = CandidateHash(b.header)
        /\ b.header.tx_root_hash = TxRoot(b)
    BY <1>4 DEF Whole
  <2>2. \A v \in ToSet(f.votes) : VoteWave(v) = HeaderWave(f.header)
    BY <1>2, <1>3, <1>7, <1>11
  <2> QED BY <1>7, <1>8, <1>9, <1>10, <1>11, <1>12, <2>1, <2>2 DEF Whole
<1>14. \A k \in BytesKeys : f.header[k] # Nothing
  <2>1. HeaderHash(rooted.header) # Nothing
    BY HeaderHashIs, SpokenIs
  <2>2. /\ f.header.prev_hash # Nothing /\ f.header.tx_root_hash # Nothing
        /\ f.header.creator # Nothing /\ f.header.candidate_block_hash # Nothing
    BY <1>8, <1>9 DEF Made, BytesKeys
  <2> QED BY <1>7, <1>8, <1>10, <2>1, <2>2 DEF BytesKeys
<1>15. Made(f) /\ SameBlock(f, b)
    BY <1>4, <1>7, <1>8, <1>9, <1>11, <1>13, <1>14 DEF Made, SameBlock
<1>16. ToSet(f.votes) # {} /\ f.header.creator = b.header.creator
    BY <1>2, <1>3, <1>7, <1>8, <1>9
<1> QED BY <1>1, <1>15, <1>16

(* The steps.                                                                *)

\* What is sent or stored is unpacked as a block that was made.
LEMMA WiredIs ==
    ASSUME NEW b, Made(b)
    PROVE  LET c == FromDict(ToDict(b))
           IN  /\ Made(c) /\ SameBlock(b, c) /\ c.header.creator = b.header.creator
               /\ ToSet(b.votes) # {} => ToSet(c.votes) # {}
<1> DEFINE c == FromDict(ToDict(b))
<1>0. c.transactions = [i \in DOMAIN b.transactions |->
                             Pack(b.transactions[i], TransactionKeys)]
    BY DEF FromDict, ToDict
<1>1. Shape(c) /\ Alike(c, b)
    BY Through DEF Made
<1> HIDE DEF c
<1>2. Whole(c) /\ HeaderWave(c.header) = HeaderWave(b.header)
    BY <1>1, WholeAlike, AlikeIs DEF Made
<1>3. /\ c.header.creator = b.header.creator
      /\ c.header.height = b.header.height
      /\ c.header.candidate_block_hash = b.header.candidate_block_hash
      /\ \A k \in BytesKeys : c.header[k] = b.header[k]
    BY <1>1, KeysAre DEF Alike
<1>4. Made(c)
  <2>1. Listed(c.transactions)
    BY <1>0, PackedList DEF Made
  <2> QED BY <1>1, <1>2, <1>3, <2>1 DEF Made
<1>5. ToSet(b.votes) # {} => ToSet(c.votes) # {}
    BY <1>1 DEF Alike
<1>6. SameBlock(b, c)
    BY <1>2, <1>3 DEF SameBlock
<1> QED BY <1>3, <1>4, <1>5, <1>6 DEF c

LEMMA CopyIs ==
    ASSUME NEW b, NEW c, SameBlock(b, c), b \in pool'[b.header.creator],
           c.header.creator = b.header.creator
    PROVE  IsCopy(c)'
BY DEF IsCopy, SameBlock

LEMMA SentIs ==
    ASSUME NEW type, NEW b, NEW to, Made(b), SendBlock(type, b, to)
    PROVE  /\ ~raised' /\ DOMAIN wire' = Address
           /\ \A m \in Address : \A p \in wire'[m] :
                  p \in wire[m] \/ p = <<type, ToDict(b)>>
<1>1. Nothing \notin {b.header[k] : k \in BytesKeys}
    BY DEF Made
<1> QED BY <1>1 DEF SendBlock

LEMMA TakenIs ==
    ASSUME Domains, NEW n, NEW type, NEW d, Takes(n, type, d)
    PROVE  /\ DOMAIN wire' = Address
           /\ \A m \in Address : \A p \in wire'[m] : p \in wire[m]
BY DEF Domains, Takes

LEMMA CreateCandidateKeeps ==
    ASSUME RecordsInv, NEW n \in Address, NEW retry, NEW list \in TxLists,
           CreateCandidate(n, retry, list)
    PROVE  RecordsInv'
<1>1. PICK b : b = GenerateCandidate(n, retry, list)
    OBVIOUS
<1>2. LastHeader(n).block_hash # Nothing /\ LastHeader(n).height \in Nat
    BY DEF RecordsInv, LastIs, LastHeader
<1>3. Made(b) /\ b.header.creator = n
    BY <1>1, <1>2, GeneratedIs
<1>4. /\ pool' = [pool EXCEPT ![n] = @ \cup {b}]
      /\ SendBlock("candidate", b, Address \ {n})
      /\ votes' = votes /\ last' = last
    BY <1>1 DEF CreateCandidate
<1>5. Domains
    BY DEF RecordsInv
<1>6. /\ ~raised' /\ DOMAIN wire' = Address
      /\ \A m \in Address : \A p \in wire'[m] :
             p \in wire[m] \/ p = <<"candidate", ToDict(b)>>
    BY <1>3, <1>4, SentIs
<1>7. /\ pool'[n] = pool[n] \cup {b} /\ DOMAIN pool' = Address
      /\ \A m \in Address : m # n => pool'[m] = pool[m]
    BY <1>4, <1>5 DEF Domains
<1>8. Domains'
    BY <1>4, <1>5, <1>6, <1>7 DEF Domains
<1>9. PoolsKeep
    BY <1>7 DEF PoolsKeep, SameBlock
<1>10. IsCopy(b)'
    BY <1>3, <1>7, CopyIs DEF SameBlock
<1>11. OnWire(<<"candidate", ToDict(b)>>)'
  <2>1. PICK c : c = FromDict(ToDict(b))
    OBVIOUS
  <2>2. Made(c) /\ SameBlock(b, c) /\ c.header.creator = b.header.creator
    BY <1>3, <2>1, WiredIs
  <2>3. IsCopy(c)'
    BY <1>3, <1>7, <2>2, CopyIs
  <2> QED BY <2>1, <2>2, <2>3 DEF OnWire
<1>12. ASSUME NEW m \in Address
       PROVE  /\ \A c \in pool'[m] : Made(c) /\ (IsCopy(c) \/ IsCopy(c)')
              /\ VotesAre(votes'[m])
              /\ \A p \in wire'[m] : p \in wire[m] \/ OnWire(p)'
              /\ last'[m] = last[m]
    BY <1>3, <1>4, <1>6, <1>7, <1>10, <1>11 DEF RecordsInv
<1> QED BY <1>6, <1>8, <1>9, <1>12, Preserved

LEMMA ReceiveCandidateKeeps ==
    ASSUME RecordsInv, NEW n \in Address, NEW d, ReceiveCandidate(n, d)
    PROVE  RecordsInv'
<1>1. PICK b : b = FromDict(d)
    OBVIOUS
<1>2. /\ Takes(n, "candidate", d) /\ pool' = [pool EXCEPT ![n] = @ \cup {b}]
      /\ votes' = votes /\ last' = last /\ raised' = raised
    BY <1>1 DEF ReceiveCandidate
<1>3. Domains /\ ~raised
    BY DEF RecordsInv
<1>4. Made(b) /\ IsCopy(b)
  <2>1. OnWire(<<"candidate", d>>)
    BY <1>2 DEF Takes, RecordsInv
  <2> QED BY <1>1, <2>1 DEF OnWire
<1>5. /\ DOMAIN wire' = Address
      /\ \A m \in Address : \A p \in wire'[m] : p \in wire[m]
    BY <1>2, <1>3, TakenIs
<1>6. /\ pool'[n] = pool[n] \cup {b} /\ DOMAIN pool' = Address
      /\ \A m \in Address : m # n => pool'[m] = pool[m]
    BY <1>2, <1>3 DEF Domains
<1>7. Domains'
    BY <1>2, <1>3, <1>5, <1>6 DEF Domains
<1>8. PoolsKeep
    BY <1>6 DEF PoolsKeep, SameBlock
<1>9. ASSUME NEW m \in Address
      PROVE  /\ \A c \in pool'[m] : Made(c) /\ (IsCopy(c) \/ IsCopy(c)')
             /\ VotesAre(votes'[m])
             /\ \A p \in wire'[m] : p \in wire[m] \/ OnWire(p)'
             /\ last'[m] = last[m]
    BY <1>2, <1>4, <1>5, <1>6 DEF RecordsInv
<1> QED BY <1>2, <1>3, <1>7, <1>8, <1>9, Preserved

LEMMA VotesGrow ==
    ASSUME NEW list, VotesAre(list), NEW v, VoteIs(v)
    PROVE  VotesAre(Append(list, v))
BY AppendIs DEF VotesAre

LEMMA CreateVoteKeeps ==
    ASSUME RecordsInv, NEW n \in Address, NEW b \in pool[n], CreateVote(n, b)
    PROVE  RecordsInv'
<1> DEFINE blank == [vote_hash |-> Empty, block_height |-> b.header.height,
                     retry_count |-> b.header.retry_count, creator |-> n,
                     candidate_block_hash |-> b.header.candidate_block_hash]
           v == [blank EXCEPT !.vote_hash = VoteHash(blank)]
           d == Pack(v, VoteKeys)
<1>1. /\ votes' = [votes EXCEPT ![n] = Append(@, v)]
      /\ wire' = [m \in Address |->
                     IF m = n THEN wire[m] ELSE wire[m] \cup {<<"vote", d>>}]
      /\ pool' = pool /\ last' = last /\ raised' = raised
    BY DEF CreateVote
<1>2. VoteIs(v)
  <2>1. /\ v.block_height = blank.block_height /\ v.creator = blank.creator
        /\ v.candidate_block_hash = blank.candidate_block_hash
        /\ v.vote_hash = VoteHash(blank) /\ v.block_height = b.header.height
    OBVIOUS
  <2>2. b.header.height \in Nat
    BY DEF RecordsInv, Made
  <2> HIDE DEF v, blank
  <2> QED BY <2>1, <2>2 DEF VoteHash, VoteIs
<1> HIDE DEF v
<1>3. VoteIs(d)
  <2>1. d.block_height = v.block_height
    BY DEF Pack, VoteKeys
  <2> QED BY <1>2, <2>1, PackedVote DEF VoteIs
<1> HIDE DEF d
<1>4. Domains /\ ~raised
    BY DEF RecordsInv
<1>5. Domains'
    BY <1>1, <1>4 DEF Domains
<1>6. PoolsKeep
    BY <1>1 DEF PoolsKeep, SameBlock
<1>7. OnWire(<<"vote", d>>)'
    BY <1>3 DEF OnWire
<1>8. ASSUME NEW m \in Address PROVE VotesAre(votes'[m])
  <2>1. VotesAre(votes[m])
    BY DEF RecordsInv
  <2>2. VotesAre(Append(votes[m], v))
    BY <1>2, <2>1, VotesGrow
  <2> QED BY <1>1, <1>4, <2>1, <2>2 DEF Domains
<1>9. ASSUME NEW m \in Address
      PROVE  /\ \A c \in pool'[m] : Made(c) /\ (IsCopy(c) \/ IsCopy(c)')
             /\ \A p \in wire'[m] : p \in wire[m] \/ OnWire(p)'
             /\ last'[m] = last[m]
    BY <1>1, <1>7 DEF RecordsInv
<1> QED BY <1>1, <1>4, <1>5, <1>6, <1>8, <1>9, Preserved

LEMMA ReceiveVoteKeeps ==
    ASSUME RecordsInv, NEW n \in Address, NEW d, ReceiveVote(n, d)
    PROVE  RecordsInv'
<1>1. /\ Takes(n, "vote", d) /\ votes' = [votes EXCEPT ![n] = Append(@, d)]
      /\ pool' = pool /\ last' = last /\ raised' = raised
    BY DEF ReceiveVote
<1>2. Domains /\ ~raised
    BY DEF RecordsInv
<1>3. VoteIs(d)
  <2>1. OnWire(<<"vote", d>>)
    BY <1>1 DEF Takes, RecordsInv
  <2> QED BY <2>1 DEF OnWire
<1>4. /\ DOMAIN wire' = Address
      /\ \A m \in Address : \A p \in wire'[m] : p \in wire[m]
    BY <1>1, <1>2, TakenIs
<1>5. Domains'
    BY <1>1, <1>2, <1>4 DEF Domains
<1>6. PoolsKeep
    BY <1>1 DEF PoolsKeep, SameBlock
<1>7. ASSUME NEW m \in Address PROVE VotesAre(votes'[m])
  <2>1. VotesAre(votes[m])
    BY DEF RecordsInv
  <2>2. VotesAre(Append(votes[m], d))
    BY <1>3, <2>1, VotesGrow
  <2> QED BY <1>1, <1>2, <2>1, <2>2 DEF Domains
<1>8. ASSUME NEW m \in Address
      PROVE  /\ \A c \in pool'[m] : Made(c) /\ (IsCopy(c) \/ IsCopy(c)')
             /\ \A p \in wire'[m] : p \in wire[m] \/ OnWire(p)'
             /\ last'[m] = last[m]
    BY <1>1, <1>4 DEF RecordsInv
<1> QED BY <1>1, <1>2, <1>5, <1>6, <1>7, <1>8, Preserved

LEMMA CreateFinalizeKeeps ==
    ASSUME RecordsInv, NEW n \in Address, NEW b \in pool[n], CreateFinalize(n, b)
    PROVE  RecordsInv'
<1>1. PICK f : f = GenerateFinalize(n, b)
    OBVIOUS
<1>2. Domains /\ Made(b) /\ VotesAre(votes[n])
    BY DEF RecordsInv
<1>3. /\ b.header.creator = n /\ b.votes = <<>>
      /\ pool' = [pool EXCEPT ![n] = (@ \ {b}) \cup {f}]
      /\ SendBlock("finalize", f, Address)
      /\ votes' = votes /\ last' = last
    BY <1>1 DEF CreateFinalize
<1>4. \E v \in ToSet(votes[n]) :
          /\ VoteWave(v) = HeaderWave(b.header)
          /\ v.candidate_block_hash = b.header.candidate_block_hash
    BY DEF CreateFinalize
<1>5. Made(f) /\ SameBlock(f, b) /\ ToSet(f.votes) # {} /\ f.header.creator = n
    BY <1>1, <1>2, <1>3, <1>4, FinalizedIs
<1>6. /\ ~raised' /\ DOMAIN wire' = Address
      /\ \A m \in Address : \A p \in wire'[m] :
             p \in wire[m] \/ p = <<"finalize", ToDict(f)>>
    BY <1>3, <1>5, SentIs
<1>7. /\ pool'[n] = (pool[n] \ {b}) \cup {f} /\ DOMAIN pool' = Address
      /\ \A m \in Address : m # n => pool'[m] = pool[m]
    BY <1>2, <1>3 DEF Domains
<1>8. Domains'
    BY <1>2, <1>3, <1>6, <1>7 DEF Domains
<1>9. PoolsKeep
  <2>1. SUFFICES ASSUME NEW m \in Address, NEW c \in pool[m]
                 PROVE  \E e \in pool'[m] : SameBlock(e, c)
    BY DEF PoolsKeep
  <2>2. CASE m = n /\ c = b
    BY <1>5, <1>7, <2>2
  <2>3. CASE m # n \/ c # b
    <3>1. c \in pool'[m]
      BY <1>7, <2>3
    <3> QED BY <3>1 DEF SameBlock
  <2> QED BY <2>2, <2>3
<1>10. IsCopy(f)'
    BY <1>5, <1>7, CopyIs DEF SameBlock
<1>11. OnWire(<<"finalize", ToDict(f)>>)'
  <2>1. PICK c : c = FromDict(ToDict(f))
    OBVIOUS
  <2>2. /\ Made(c) /\ SameBlock(f, c) /\ c.header.creator = f.header.creator
        /\ ToSet(c.votes) # {}
    BY <1>5, <2>1, WiredIs
  <2>3. IsCopy(c)'
    BY <1>5, <1>7, <2>2, CopyIs
  <2> QED BY <2>1, <2>2, <2>3 DEF OnWire
<1>12. ASSUME NEW m \in Address
       PROVE  /\ \A c \in pool'[m] : Made(c) /\ (IsCopy(c) \/ IsCopy(c)')
              /\ VotesAre(votes'[m])
              /\ \A p \in wire'[m] : p \in wire[m] \/ OnWire(p)'
              /\ last'[m] = last[m]
    BY <1>3, <1>5, <1>6, <1>7, <1>10, <1>11 DEF RecordsInv
<1> QED BY <1>6, <1>8, <1>9, <1>12, Preserved

LEMMA FinalizeKeeps ==
    ASSUME RecordsInv, NEW n \in Address, NEW d, Finalize(n, d)
    PROVE  RecordsInv'
<1>1. PICK b : b = FromDict(d)
    OBVIOUS
<1>2. /\ Takes(n, "finalize", d)
      /\ raised' = (HeaderHash(b.header) # b.header.block_hash)
      /\ last' = IF raised' THEN last ELSE [last EXCEPT ![n] = ToDict(b)]
      /\ pool' = pool /\ votes' = votes
    BY <1>1 DEF Finalize
<1>3. Domains
    BY DEF RecordsInv
<1>4. Made(b) /\ IsCopy(b) /\ ToSet(b.votes) # {}
  <2>1. OnWire(<<"finalize", d>>)
    BY <1>2 DEF Takes, RecordsInv
  <2> QED BY <1>1, <2>1 DEF OnWire
<1>5. ~raised' /\ last' = [last EXCEPT ![n] = ToDict(b)]
  <2>1. HeaderHash(b.header) = b.header.block_hash
    BY <1>4 DEF Made, Whole
  <2> QED BY <1>2, <2>1
<1>6. /\ DOMAIN wire' = Address
      /\ \A m \in Address : \A p \in wire'[m] : p \in wire[m]
    BY <1>2, <1>3, TakenIs
<1>7. Domains'
    BY <1>2, <1>3, <1>5, <1>6 DEF Domains
<1>8. PoolsKeep
    BY <1>2 DEF PoolsKeep, SameBlock
<1>9. LastIs(last[n])'
  <2>1. PICK e : e = ToDict(b)
    OBVIOUS
  <2>2. PICK c : c = FromDict(e)
    OBVIOUS
  <2>3. Made(c) /\ SameBlock(b, c) /\ c.header.creator = b.header.creator
    BY <1>4, <2>1, <2>2, WiredIs
  <2>4. IsCopy(c)
    BY <1>4, <2>3 DEF IsCopy, SameBlock
  <2>5. IsCopy(c)'
    BY <1>8, <2>3, <2>4, CopyStays DEF Made
  <2>6. c.header.block_hash # Nothing /\ c.header.height \in Nat
    BY <2>3 DEF Made, BytesKeys
  <2>7. last'[n] = e
    BY <1>3, <1>5, <2>1 DEF Domains
  <2> QED BY <2>2, <2>3, <2>5, <2>6, <2>7 DEF LastIs
<1>10. ASSUME NEW m \in Address
       PROVE  /\ \A c \in pool'[m] : Made(c) /\ (IsCopy(c) \/ IsCopy(c)')
              /\ VotesAre(votes'[m])
              /\ \A p \in wire'[m] : p \in wire[m] \/ OnWire(p)'
              /\ last'[m] = last[m] \/ LastIs(last[m])'
  <2>1. m # n => last'[m] = last[m]
    BY <1>3, <1>5 DEF Domains
  <2>2. m = n => LastIs(last[m])'
    BY <1>9
  <2> QED BY <1>2, <1>6, <2>1, <2>2 DEF RecordsInv
<1> QED BY <1>5, <1>7, <1>8, <1>10, Preserved

LEMMA StepKeepsRecords == RecordsInv /\ [RecordsNext]_records => RecordsInv'
<1> SUFFICES ASSUME RecordsInv, [RecordsNext]_records PROVE RecordsInv'
    OBVIOUS
<1>1. CASE RecordsNext
  <2>1. PICK n \in Address :
            \/ \E retry \in Retries, list \in TxLists : CreateCandidate(n, retry, list)
            \/ \E b \in pool[n] : CreateVote(n, b) \/ CreateFinalize(n, b)
            \/ \E p \in wire[n] : \/ ReceiveCandidate(n, p[2])
                                  \/ ReceiveVote(n, p[2])
                                  \/ Finalize(n, p[2])
    BY <1>1 DEF RecordsNext
  <2>2. CASE \E retry \in Retries, list \in TxLists : CreateCandidate(n, retry, list)
    BY <2>2, CreateCandidateKeeps
  <2>3. CASE \E b \in pool[n] : CreateVote(n, b)
    BY <2>3, CreateVoteKeeps
  <2>4. CASE \E b \in pool[n] : CreateFinalize(n, b)
    BY <2>4, CreateFinalizeKeeps
  <2>5. CASE \E p \in wire[n] : ReceiveCandidate(n, p[2])
    BY <2>5, ReceiveCandidateKeeps
  <2>6. CASE \E p \in wire[n] : ReceiveVote(n, p[2])
    BY <2>6, ReceiveVoteKeeps
  <2>7. CASE \E p \in wire[n] : Finalize(n, p[2])
    BY <2>7, FinalizeKeeps
  <2> QED BY <2>1, <2>2, <2>3, <2>4, <2>5, <2>6, <2>7
<1>2. CASE UNCHANGED records
    BY <1>2 DEF records, RecordsInv, Domains, OnWire, LastIs, IsCopy
<1> QED BY <1>1, <1>2

\* No block, vote or transaction is damaged: RecordsInv is inductive.
THEOREM RecordsInductive == RecordsSpec => []RecordsInv
BY InitIsWhole, StepKeepsRecords, PTL DEF RecordsSpec

\* What is packed, sent, completed in place, stored and unpacked carries the
\* hashes of what it consists of, and nothing raises on the way: to_dict and
\* from_dict of block.py, header.py, vote.py and gbricktransaction.py.
THEOREM RecordsArriveWhole == RecordsSpec => []ArrivesWhole
BY RecordsInductive, InvIsWhole, PTL

-----------------------------------------------------------------------------
(* Different blocks, votes and transactions have different hashes.           *)

LEMMA InvTells == RecordsInv => HashesTellApart
<1> SUFFICES ASSUME RecordsInv PROVE HashesTellApart
    OBVIOUS
<1>1. \A b \in Blocks : Made(b)
    BY DEF Blocks, RecordsInv, LastIs
<1>2. ASSUME NEW b \in Blocks, NEW c \in Blocks,
             b.header.candidate_block_hash = c.header.candidate_block_hash
      PROVE  /\ b.header.height = c.header.height
             /\ b.header.prev_hash = c.header.prev_hash
             /\ b.header.creator = c.header.creator
             /\ TransactionHashes(b.transactions) = TransactionHashes(c.transactions)
  <2>1. /\ b.header.height \in Nat /\ c.header.height \in Nat
        /\ b.header.candidate_block_hash = CandidateHash(b.header)
        /\ c.header.candidate_block_hash = CandidateHash(c.header)
        /\ b.header.tx_root_hash = TxRoot(b) /\ c.header.tx_root_hash = TxRoot(c)
        /\ Listed(b.transactions) /\ Listed(c.transactions)
    BY <1>1 DEF Made, Whole
  <2>2. CandidateHash(b.header) = CandidateHash(c.header)
    BY <1>2, <2>1
  <2>3. /\ b.header.prev_hash = c.header.prev_hash
        /\ b.header.height = c.header.height
        /\ b.header.tx_root_hash = c.header.tx_root_hash
        /\ b.header.creator = c.header.creator
    BY <2>1, <2>2, CandidatesTell
  <2>4. merkleroot(TransactionHashes(b.transactions))
            = merkleroot(TransactionHashes(c.transactions))
    BY <2>1, <2>3 DEF TxRoot
  <2> QED BY <2>1, <2>3, <2>4, ListsTell
<1>3. ASSUME NEW v \in Votes, NEW w \in Votes, v.vote_hash = w.vote_hash
      PROVE  /\ v.block_height = w.block_height
             /\ v.candidate_block_hash = w.candidate_block_hash
             /\ v.creator = w.creator
  <2>1. VoteIs(v) /\ VoteIs(w)
    BY DEF Votes, RecordsInv, VotesAre
  <2>2. VoteHash(v) = VoteHash(w) /\ v.block_height \in Nat /\ w.block_height \in Nat
    BY <1>3, <2>1 DEF VoteIs
  <2> QED BY <2>2, VotesTell
<1>4. ASSUME NEW s \in Transactions, NEW t \in Transactions,
             TransactionHash(s) = TransactionHash(t)
      PROVE  s.nonce = t.nonce /\ s.from = t.from /\ s.to = t.to
  <2>1. ASSUME NEW x \in Transactions PROVE x.nonce \in Nat /\ IsSequence(x.message)
    <3>1. PICK b \in Blocks : x \in ToSet(b.transactions)
      BY <2>1 DEF Transactions
    <3>2. Listed(b.transactions)
      BY <1>1 DEF Made
    <3> QED BY <3>1, <3>2 DEF Listed, ToSet
  <2> QED BY <1>4, <2>1, TransactionsTell
<1> QED BY <1>2, <1>3, <1>4 DEF HashesTellApart

\* Objects of one hash agree in what the engines take the hash for: to_hash of
\* blockheader.py, vote.py and transaction.py, the roots of blockbase.py, and
\* merkleroot.
THEOREM HashesStayApart == RecordsSpec => []HashesTellApart
BY RecordsInductive, InvTells, PTL

=============================================================================
