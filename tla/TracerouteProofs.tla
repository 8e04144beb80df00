--------------------------- MODULE TracerouteProofs ---------------------------
(***************************************************************************)
(* Theorems about traceroute, for any number of hosts, groups, hops and    *)
(* probes, any routers and any answers: the count of active probes is      *)
(* exact, the hops of all hosts stay a tree when chains are merged, what a *)
(* host knows of its path is not lost by that, and a host that did not     *)
(* leave its trace to another one ends with a hop for every TTL.           *)
(***************************************************************************)
EXTENDS Traceroute, FiniteSetTheorems, SequenceTheorems, TLAPS

-------------------------------------------------------------------------------
(* Numbers. *)

\* A set of natural numbers that is not empty has a least element.
LEMMA LeastNat ==
  ASSUME NEW S \in SUBSET Nat, S # {}
  PROVE  \E n \in S : \A m \in S : n <= m
<1>1. PICK n \in S : \A m \in S : ~ (<<m, n>> \in OpToRel(<, Nat))
  BY WFMin, NatLessThanWellFounded, Zenon
<1>2. \A m \in S : ~ (m < n)
  BY <1>1, Zenon DEF OpToRel
<1> QED
  BY <1>2

\* A function that is defined by recursion exists.
IsRecursion(f, N, T, base, G) ==
  /\ f \in [0 .. N -> T] /\ f[0] = base
  /\ \A k \in 1 .. N : f[k] = G[<<k, f[k - 1]>>]

\* It is built up from the values for smaller numbers.
LEMMA RecursionExists ==
  ASSUME NEW N \in Nat, NEW T, NEW base \in T, NEW G \in [(1 .. N) \X T -> T]
  PROVE  \E f : IsRecursion(f, N, T, base, G)
<1> DEFINE Upto(n, f) == IsRecursion(f, n, T, base, G)
           bad == {n \in 0 .. N : ~ \E f : Upto(n, f)}
<1> SUFFICES ASSUME bad # {} PROVE FALSE
  <2>1. N \in 0 .. N
    OBVIOUS
  <2> QED
    BY <2>1
<1>1. PICK n \in bad : \A m \in bad : n <= m
  <2>1. bad \in SUBSET Nat
    OBVIOUS
  <2> HIDE DEF bad
  <2> QED
    BY <2>1, LeastNat
<1>2. CASE n = 0
  <2> DEFINE f == [k \in 0 .. 0 |-> base]
  <2>1. Upto(0, f)
    BY DEF IsRecursion
  <2> QED
    BY <1>1, <1>2, <2>1
<1>3. CASE n # 0
  <2>1. n \in 1 .. N /\ n - 1 \in 0 .. N /\ n - 1 \notin bad
    <3>1. n \in 0 .. N
      BY <1>1
    <3>2. n - 1 \in bad => n <= n - 1
      BY <1>1
    <3> HIDE DEF bad
    <3> QED
      BY <1>3, <3>1, <3>2
  <2>2. PICK f : Upto(n - 1, f)
    BY <2>1
  <2> DEFINE v == G[<<n, f[n - 1]>>]
             g == [k \in 0 .. n |-> IF k = n THEN v ELSE f[k]]
  <2>3. v \in T
    BY <2>1, <2>2 DEF IsRecursion
  <2> HIDE DEF v
  <2>4. g \in [0 .. n -> T] /\ g[0] = base /\ g[n] = v /\ \A k \in 0 .. n - 1 : g[k] = f[k]
    BY <2>1, <2>2, <2>3 DEF IsRecursion
  <2> HIDE DEF g
  <2>5. ASSUME NEW k \in 1 .. n PROVE g[k] = G[<<k, g[k - 1]>>]
    <3>1. k - 1 \in 0 .. n - 1 /\ g[k - 1] = f[k - 1]
      BY <2>1, <2>4
    <3>2. CASE k = n
      BY <2>4, <3>1, <3>2 DEF v
    <3>3. CASE k # n
      <4>1. k \in 1 .. n - 1 /\ k \in 0 .. n - 1
        BY <2>1, <3>3
      <4>2. f[k] = G[<<k, f[k - 1]>>]
        BY <2>2, <4>1 DEF IsRecursion
      <4> QED
        BY <2>4, <3>1, <4>1, <4>2
    <3> QED
      BY <3>2, <3>3
  <2>6. Upto(n, g)
    BY <2>4, <2>5 DEF IsRecursion
  <2> HIDE DEF Upto
  <2> QED
    BY <1>1, <2>6
<1> QED
  BY <1>2, <1>3

\* The least and the greatest number of a set.
LEMMA LeastIs ==
  ASSUME NEW S \in SUBSET Nat, S # {}
  PROVE  Least(S) \in S /\ \A m \in S : Least(S) <= m
<1>1. \E n \in S : \A m \in S : n <= m
  BY LeastNat
<1> QED
  BY <1>1, Zenon DEF Least

\* A set of numbers that is bounded has a greatest one.
LEMMA GreatestIs ==
  ASSUME NEW S \in SUBSET Nat, S # {}, NEW b \in Nat, \A m \in S : m <= b
  PROVE  Greatest(S) \in S /\ \A m \in S : m <= Greatest(S)
<1> DEFINE D == {d \in Nat : \E m \in S : d = b - m}
<1>1. D \in SUBSET Nat /\ D # {}
  <2>1. PICK m \in S : m \in Nat /\ m <= b
    OBVIOUS
  <2>2. b - m \in D
    BY <2>1
  <2> QED
    BY <2>2
<1>2. PICK d \in D : \A e \in D : d <= e
  <2> HIDE DEF D
  <2> QED
    BY <1>1, LeastNat
<1>3. PICK n \in S : d = b - n
  BY <1>2
<1>4. ASSUME NEW m \in S PROVE m <= n
  <2>1. b - m \in D
    BY <1>4
  <2>2. d <= b - m
    BY <1>2, <2>1
  <2> QED
    BY <1>3, <2>2
<1>5. \E x \in S : \A m \in S : m <= x
  BY <1>4
<1> QED
  BY <1>5, Zenon DEF Greatest

-------------------------------------------------------------------------------
(* Chains of hops. *)

\* The hops are a tree: parents are hops that are nearer.  The cache finds a hop under
\* its own address.
TreeOk(tree) ==
  /\ DOMAIN tree \subseteq HopIds /\ IsFiniteSet(DOMAIN tree)
  /\ tree \in [DOMAIN tree -> Hop]
  /\ \A i \in DOMAIN tree :
       /\ i[2] > 0 => tree[i].addr = i[2]
       /\ tree[i].parent # NoHop =>
            tree[i].parent \in DOMAIN tree /\ tree[i].parent[1] < i[1]

\* The TTL of a hop is one of a probe.
LEMMA HopIdType ==
  ASSUME NEW i \in HopIds
  PROVE  i[1] \in TTLs /\ i[1] \in Nat \ {0} /\ i[1] <= MaxTTL /\ i # NoHop /\ i = <<i[1], i[2]>>
BY ConstantsAssumption DEF HopIds, TTLs, NoHop

\* A set of hops that has the parents of its members.
Closed(tree, S) ==
  \A j \in S : j \in DOMAIN tree /\ tree[j].parent # NoHop => tree[j].parent \in S

\* C is the least such set with hop i.
IsChain(tree, i, C) ==
  /\ C \subseteq DOMAIN tree
  /\ i # NoHop => i \in C
  /\ Closed(tree, C)
  /\ \A S : Closed(tree, S) /\ (i # NoHop => i \in S) => C \subseteq S

\* The definition of Chain(), one step up from a set of hops at a time.
Up(tree, S) == (UNION {{j, tree[j].parent} : j \in S}) \ {NoHop}
IsWalk(f, tree, i) ==
  f = [n \in 0 .. MaxTTL |-> IF n = 0 THEN {i} \ {NoHop}
                             ELSE (UNION {{j, tree[j].parent} : j \in f[n - 1]}) \ {NoHop}]

\* The same, step by step.
WalksTo(f, tree, i, C) ==
  /\ f \in [0 .. MaxTTL -> SUBSET DOMAIN tree]
  /\ C = f[MaxTTL] /\ f[0] = {i} \ {NoHop}
  /\ \A n \in 1 .. MaxTTL : f[n] = Up(tree, f[n - 1])

\* There is such a walk, and its last set is Chain().
LEMMA WalkExists ==
  ASSUME NEW tree, TreeOk(tree), NEW i \in DOMAIN tree \cup {NoHop}
  PROVE  \E f : WalksTo(f, tree, i, Chain(tree, i))
<1> DEFINE D == DOMAIN tree
           T == SUBSET D
           base == {i} \ {NoHop}
           N == MaxTTL
           G == [a \in (1 .. N) \X T |-> Up(tree, a[2])]
<1>1. N \in Nat
  BY ConstantsAssumption
<1>2. \A S \in T : Up(tree, S) \in T
  <2> SUFFICES ASSUME NEW S \in T, NEW k \in Up(tree, S) PROVE k \in D
    OBVIOUS
  <2>1. PICK j \in S : k \in {j, tree[j].parent}
    BY DEF Up
  <2>2. k # NoHop
    BY DEF Up
  <2>3. j \in D
    OBVIOUS
  <2> QED
    BY <2>1, <2>2, <2>3 DEF TreeOk
<1>3. base \in T
  OBVIOUS
<1>4. G \in [(1 .. N) \X T -> T]
  BY <1>2
<1>5. PICK f : IsRecursion(f, N, T, base, G)
  <2> HIDE DEF N, T, base, G
  <2> QED
    BY <1>1, <1>3, <1>4, RecursionExists, Zenon
<1>6. /\ f \in [0 .. N -> T] /\ f[0] = base
      /\ \A n \in 1 .. N : f[n] = Up(tree, f[n - 1])
  <2>1. f \in [0 .. N -> T] /\ f[0] = base /\ \A n \in 1 .. N : f[n] = G[<<n, f[n - 1]>>]
    BY <1>5 DEF IsRecursion
  <2>2. \A n \in 1 .. N : n - 1 \in 0 .. N /\ f[n - 1] \in T
    BY <1>1, <2>1
  <2> QED
    BY <2>1, <2>2
<1>7. IsWalk(f, tree, i)
  <2>1. f = [n \in 0 .. N |-> f[n]]
    BY <1>6
  <2>2. \A n \in 0 .. N : f[n] = IF n = 0 THEN {i} \ {NoHop}
                                ELSE (UNION {{j, tree[j].parent} : j \in f[n - 1]}) \ {NoHop}
    <3>1. ASSUME NEW n \in 0 .. N, n # 0 PROVE f[n] = Up(tree, f[n - 1])
      BY <1>1, <1>6, <3>1
    <3> QED
      BY <1>6, <3>1 DEF Up
  <2> QED
    BY <2>1, <2>2 DEF IsWalk
<1> DEFINE g == CHOOSE x : IsWalk(x, tree, i)
<1>8. IsWalk(g, tree, i)
  BY <1>7
<1>9. Chain(tree, i) = g[MaxTTL]
  BY DEF Chain, IsWalk
<1> HIDE DEF g
<1>10. /\ DOMAIN g = 0 .. N /\ g[0] = base /\ g = [n \in 0 .. N |-> g[n]]
       /\ \A n \in 1 .. N : g[n] = Up(tree, g[n - 1])
  <2> DEFINE E(n) == IF n = 0 THEN {i} \ {NoHop}
                     ELSE (UNION {{j, tree[j].parent} : j \in g[n - 1]}) \ {NoHop}
  <2>1. g = [n \in 0 .. N |-> E(n)]
    BY <1>8 DEF IsWalk
  <2>2. E(0) = base /\ 0 \in 0 .. N
    BY <1>1
  <2>3. \A n \in 1 .. N : n \in 0 .. N /\ E(n) = Up(tree, g[n - 1])
    BY <1>1 DEF Up
  <2> HIDE DEF E
  <2> QED
    BY <2>1, <2>2, <2>3
<1>11. \A n \in 0 .. N : g[n] \in T
  <2> DEFINE bad == {n \in 0 .. N : g[n] \notin T}
  <2> SUFFICES ASSUME bad # {} PROVE FALSE
    OBVIOUS
  <2>1. PICK n \in bad : \A m \in bad : n <= m
    <3>1. bad \in SUBSET Nat
      OBVIOUS
    <3> HIDE DEF bad
    <3> QED
      BY <3>1, LeastNat
  <2>2. n # 0
    BY <1>3, <1>10, <2>1
  <2>3. n \in 1 .. N /\ n - 1 \in 0 .. N /\ ~(n <= n - 1)
    <3>1. n \in 0 .. N
      BY <2>1
    <3> HIDE DEF bad
    <3> QED
      BY <1>1, <2>2, <3>1
  <2>4. g[n - 1] \in T
    BY <2>1, <2>3
  <2> QED
    BY <1>2, <1>10, <2>1, <2>3, <2>4
<1> QED
  <2>1. g \in [0 .. N -> T]
    BY <1>10, <1>11
  <2>2. WalksTo(g, tree, i, Chain(tree, i))
    BY <1>9, <1>10, <2>1 DEF WalksTo
  <2> QED
    BY <2>2

\* Induction up to N, for a set of numbers.
LEMMA UpTo ==
  ASSUME NEW N \in Nat, NEW S, 0 \in S, \A n \in 1 .. N : n - 1 \in S => n \in S
  PROVE  \A n \in 0 .. N : n \in S
<1> DEFINE bad == {n \in 0 .. N : n \notin S}
<1> SUFFICES ASSUME bad # {} PROVE FALSE
  OBVIOUS
<1>1. PICK n \in bad : \A m \in bad : n <= m
  <2>1. bad \in SUBSET Nat
    OBVIOUS
  <2> HIDE DEF bad
  <2> QED
    BY <2>1, LeastNat
<1>2. n \in 0 .. N /\ n # 0 /\ n \notin S
  BY <1>1
<1>3. n \in 1 .. N /\ n - 1 \in 0 .. N /\ ~(n <= n - 1)
  <2> HIDE DEF bad
  <2> QED
    BY <1>2
<1>4. n - 1 \in S
  BY <1>1, <1>3
<1> QED
  BY <1>2, <1>3, <1>4

\* Chain() is the least set of hops with hop i that has the parents of its members.
LEMMA ChainIs ==
  ASSUME NEW tree, TreeOk(tree), NEW i \in DOMAIN tree \cup {NoHop}
  PROVE  IsChain(tree, i, Chain(tree, i))
<1>1. PICK f \in [0 .. MaxTTL -> SUBSET DOMAIN tree] :
           /\ Chain(tree, i) = f[MaxTTL] /\ f[0] = {i} \ {NoHop}
           /\ \A n \in 1 .. MaxTTL : f[n] = Up(tree, f[n - 1])
  <2>1. PICK f : WalksTo(f, tree, i, Chain(tree, i))
    BY WalkExists
  <2> QED
    BY <2>1 DEF WalksTo
<1>2. MaxTTL \in Nat /\ MaxTTL \in 0 .. MaxTTL
  BY ConstantsAssumption
<1>3. \A n \in 1 .. MaxTTL : n \in 0 .. MaxTTL /\ n - 1 \in 0 .. MaxTTL
  BY <1>2
<1>4. \A n \in 0 .. MaxTTL : \A j \in f[n] : j \in DOMAIN tree /\ j \in HopIds /\ j # NoHop
  BY HopIdType DEF TreeOk
<1>5. \A n \in 1 .. MaxTTL : \A j \in f[n - 1] :
         j \in f[n] /\ (tree[j].parent # NoHop => tree[j].parent \in f[n])
  BY <1>1, <1>3, <1>4 DEF Up
<1>6. ASSUME NEW n \in 1 .. MaxTTL, NEW j \in f[n], j \notin f[n - 1]
      PROVE  \E k \in f[n - 1] : tree[k].parent = j /\ j # NoHop
  BY <1>1, <1>6 DEF Up
<1>7. i # NoHop => i \in f[MaxTTL]
  <2> SUFFICES ASSUME i # NoHop PROVE i \in f[MaxTTL]
    OBVIOUS
  <2> DEFINE S == {n \in 0 .. MaxTTL : i \in f[n]}
  <2>1. 0 \in S
    BY <1>1, <1>2
  <2>2. \A n \in 1 .. MaxTTL : n - 1 \in S => n \in S
    BY <1>3, <1>5
  <2>3. \A n \in 0 .. MaxTTL : n \in S
    <3> HIDE DEF S
    <3> QED
      BY <1>2, <2>1, <2>2, UpTo
  <2> QED
    BY <1>2, <2>3
<1>8. Closed(tree, f[MaxTTL])
  <2> DEFINE P(n, j) == tree[j].parent # NoHop => tree[j].parent \in f[n] \/ j[1] + n <= MaxTTL
             S == {n \in 0 .. MaxTTL : \A j \in f[n] : P(n, j)}
  <2>1. 0 \in S
    BY <1>2, <1>4, HopIdType
  <2>2. ASSUME NEW n \in 1 .. MaxTTL, n - 1 \in S PROVE n \in S
    <3> SUFFICES ASSUME NEW j \in f[n], tree[j].parent # NoHop, tree[j].parent \notin f[n]
                 PROVE  j[1] + n <= MaxTTL
      BY <1>3
    <3>1. j \notin f[n - 1]
      BY <1>5
    <3>2. PICK k \in f[n - 1] : tree[k].parent = j /\ j # NoHop
      BY <1>6, <3>1
    <3>3. P(n - 1, k)
      BY <2>2
    <3>4. k[1] + (n - 1) <= MaxTTL
      BY <3>1, <3>2, <3>3
    <3>5. j[1] < k[1] /\ j[1] \in Nat /\ k[1] \in Nat
      BY <1>3, <1>4, <3>2, HopIdType DEF TreeOk
    <3> QED
      BY <1>2, <3>4, <3>5
  <2>3. \A n \in 0 .. MaxTTL : n \in S
    <3> HIDE DEF S
    <3> QED
      BY <1>2, <2>1, <2>2, UpTo
  <2>4. ASSUME NEW j \in f[MaxTTL], tree[j].parent # NoHop PROVE tree[j].parent \in f[MaxTTL]
    <3>1. P(MaxTTL, j)
      BY <1>2, <2>3
    <3>2. j[1] \in Nat \ {0}
      BY <1>2, <1>4, HopIdType
    <3> QED
      BY <1>2, <2>4, <3>1, <3>2
  <2> QED
    BY <2>4 DEF Closed
<1>9. ASSUME NEW S, Closed(tree, S), i # NoHop => i \in S PROVE f[MaxTTL] \subseteq S
  <2> DEFINE R == {n \in 0 .. MaxTTL : f[n] \subseteq S}
  <2>1. 0 \in R
    BY <1>1, <1>2, <1>9
  <2>2. ASSUME NEW n \in 1 .. MaxTTL, n - 1 \in R PROVE n \in R
    <3> SUFFICES ASSUME NEW j \in f[n] PROVE j \in S
      BY <1>3
    <3>1. CASE j \in f[n - 1]
      BY <2>2, <3>1
    <3>2. CASE j \notin f[n - 1]
      <4>1. PICK k \in f[n - 1] : tree[k].parent = j /\ j # NoHop
        BY <1>6, <3>2
      <4>2. k \in S /\ k \in DOMAIN tree
        BY <1>3, <1>4, <2>2
      <4> QED
        BY <1>9, <4>1, <4>2 DEF Closed
    <3> QED
      BY <3>1, <3>2
  <2>3. \A n \in 0 .. MaxTTL : n \in R
    <3> HIDE DEF R
    <3> QED
      BY <1>2, <2>1, <2>2, UpTo
  <2> QED
    BY <1>2, <2>3
<1>10. f[MaxTTL] \subseteq DOMAIN tree
  BY <1>2
<1> QED
  BY <1>1, <1>7, <1>8, <1>9, <1>10 DEF IsChain

\* The chain of no hop is empty; that of a hop has the hop, hops that are nearer, and
\* their parents.
LEMMA ChainHops ==
  ASSUME NEW tree, TreeOk(tree), NEW i \in DOMAIN tree \cup {NoHop}
  PROVE  /\ Chain(tree, i) \subseteq DOMAIN tree /\ Chain(tree, i) \subseteq HopIds
         /\ i = NoHop => Chain(tree, i) = {}
         /\ i # NoHop => i \in Chain(tree, i)
         /\ \A k \in Chain(tree, i) : /\ k = i \/ k[1] < i[1]
                                      /\ tree[k].parent # NoHop => tree[k].parent \in Chain(tree, i)
<1>1. PICK C : C = Chain(tree, i)
  OBVIOUS
<1>2. IsChain(tree, i, C)
  BY <1>1, ChainIs
<1>3. C \subseteq DOMAIN tree /\ C \subseteq HopIds /\ Closed(tree, C)
  BY <1>2 DEF IsChain, TreeOk
<1>4. i = NoHop => C = {}
  <2>1. Closed(tree, {})
    BY DEF Closed
  <2> QED
    BY <1>2, <2>1 DEF IsChain
<1>5. i # NoHop => i \in C
  BY <1>2 DEF IsChain
<1>6. ASSUME NEW k \in C PROVE k = i \/ k[1] < i[1]
  <2> DEFINE S == {i} \cup {j \in DOMAIN tree : j[1] < i[1]}
  <2>1. i # NoHop /\ i \in DOMAIN tree
    BY <1>4, <1>6
  <2>2. Closed(tree, S)
    <3> SUFFICES ASSUME NEW j \in S, j \in DOMAIN tree, tree[j].parent # NoHop
                 PROVE  tree[j].parent \in S
      BY DEF Closed
    <3>1. PICK p : p = tree[j].parent
      OBVIOUS
    <3>2. p \in DOMAIN tree /\ p[1] < j[1]
      BY <3>1 DEF TreeOk
    <3>3. p[1] \in Nat /\ j[1] \in Nat /\ i[1] \in Nat
      BY <2>1, <3>2, HopIdType DEF TreeOk
    <3>4. j = i \/ j[1] < i[1]
      OBVIOUS
    <3>5. p[1] < i[1]
      BY <3>2, <3>3, <3>4
    <3> QED
      BY <3>1, <3>2, <3>5
  <2>3. i \in S
    OBVIOUS
  <2>4. k \in S
    <3> HIDE DEF S
    <3> QED
      BY <1>2, <1>6, <2>2, <2>3 DEF IsChain
  <2> QED
    BY <2>4
<1> QED
  BY <1>1, <1>3, <1>4, <1>5, <1>6 DEF Closed

\* A chain is in every set that has its first hop and the parents of its members.
LEMMA ChainLeast ==
  ASSUME NEW tree, TreeOk(tree), NEW i \in DOMAIN tree \cup {NoHop},
         NEW S, Closed(tree, S), i # NoHop => i \in S
  PROVE  Chain(tree, i) \subseteq S
BY ChainIs DEF IsChain

\* The chain of a hop is the hop and the chain of its parent.
LEMMA ChainStep ==
  ASSUME NEW tree, TreeOk(tree), NEW i \in DOMAIN tree
  PROVE  /\ tree[i].parent \in DOMAIN tree \cup {NoHop}
         /\ Chain(tree, i) = {i} \cup Chain(tree, tree[i].parent)
<1>1. PICK p : p = tree[i].parent
  OBVIOUS
<1>2. p \in DOMAIN tree \cup {NoHop}
  BY <1>1 DEF TreeOk
<1>3. i # NoHop
  BY HopIdType DEF TreeOk
<1>4. PICK C : C = Chain(tree, i)
  OBVIOUS
<1>5. PICK D : D = Chain(tree, p)
  OBVIOUS
<1>6. i \in C /\ Closed(tree, C)
  BY <1>3, <1>4, ChainIs DEF IsChain
<1>7. D \subseteq DOMAIN tree /\ (p # NoHop => p \in D) /\ Closed(tree, D)
  BY <1>2, <1>5, ChainIs DEF IsChain
<1>8. C \subseteq {i} \cup D
  <2>1. Closed(tree, {i} \cup D)
    BY <1>1, <1>7 DEF Closed
  <2>2. i \in {i} \cup D
    OBVIOUS
  <2> QED
    BY <1>4, <2>1, <2>2, ChainLeast
<1>9. D \subseteq C
  <2>1. p # NoHop => p \in C
    BY <1>1, <1>6 DEF Closed
  <2> QED
    BY <1>2, <1>5, <1>6, <2>1, ChainLeast
<1> QED
  BY <1>1, <1>2, <1>4, <1>5, <1>6, <1>8, <1>9

\* Of two hops of a chain one is in the chain of the other.
LEMMA ChainTotal ==
  ASSUME NEW tree, TreeOk(tree), NEW i \in DOMAIN tree \cup {NoHop},
         NEW j \in Chain(tree, i), NEW k \in Chain(tree, i)
  PROVE  j \in Chain(tree, k) \/ k \in Chain(tree, j)
<1>1. PICK C : C = Chain(tree, i)
  OBVIOUS
<1>2. C \subseteq DOMAIN tree /\ Closed(tree, C) /\ i # NoHop /\ i \in C
  BY <1>1, ChainIs, ChainHops DEF IsChain
<1> DEFINE S == {a \in C : \A b \in C : a \in Chain(tree, b) \/ b \in Chain(tree, a)}
<1>3. i \in S
  BY <1>1, <1>2
<1>4. Closed(tree, S)
  <2> SUFFICES ASSUME NEW a \in S, tree[a].parent # NoHop, NEW b \in C
               PROVE  LET p == tree[a].parent
                      IN p \in C /\ (p \in Chain(tree, b) \/ b \in Chain(tree, p))
    BY DEF Closed
  <2>1. PICK p : p = tree[a].parent
    OBVIOUS
  <2>2. a \in DOMAIN tree /\ b \in DOMAIN tree /\ p \in C
    BY <1>2, <2>1 DEF Closed
  <2>3. Chain(tree, a) = {a} \cup Chain(tree, p) /\ p \in DOMAIN tree \cup {NoHop}
    BY <2>1, <2>2, ChainStep
  <2>4. p \in Chain(tree, p)
    BY <2>1, <2>3, ChainHops
  <2>5. a \in Chain(tree, b) => p \in Chain(tree, b)
    BY <2>1, <2>2, ChainHops
  <2>6. a \in Chain(tree, b) \/ b \in Chain(tree, a)
    OBVIOUS
  <2>7. p \in Chain(tree, b) \/ b \in Chain(tree, p)
    <3>1. CASE b = a
      BY <2>3, <2>4, <3>1
    <3>2. CASE b # a
      BY <2>3, <2>5, <2>6, <3>2
    <3> QED
      BY <3>1, <3>2
  <2> QED
    BY <2>1, <2>2, <2>7
<1>5. C \subseteq S
  <2> HIDE DEF S
  <2> QED
    BY <1>1, <1>3, <1>4, ChainLeast
<1> QED
  BY <1>1, <1>5

\* A chain has one hop for each TTL, and the chain of one of its hops is the part below
\* its TTL.
LEMMA ChainBelow ==
  ASSUME NEW tree, TreeOk(tree), NEW i \in DOMAIN tree \cup {NoHop},
         NEW j \in Chain(tree, i)
  PROVE  /\ j \in DOMAIN tree /\ Chain(tree, j) \subseteq Chain(tree, i)
         /\ \A k \in Chain(tree, i) : /\ k[1] = j[1] => k = j
                                      /\ k[1] <= j[1] => k \in Chain(tree, j)
<1>1. j \in DOMAIN tree /\ Chain(tree, i) \subseteq HopIds
  BY ChainHops
<1>2. Chain(tree, j) \subseteq Chain(tree, i)
  <2>1. Closed(tree, Chain(tree, i))
    BY ChainIs DEF IsChain
  <2> QED
    BY <1>1, <2>1, ChainLeast
<1>3. ASSUME NEW k \in Chain(tree, i), k[1] <= j[1]
      PROVE  k \in Chain(tree, j) /\ (k[1] = j[1] => k = j)
  <2>1. k[1] \in Nat /\ j[1] \in Nat /\ k \in DOMAIN tree
    BY <1>1, HopIdType, ChainHops
  <2>2. k \in Chain(tree, j) => k = j \/ k[1] < j[1]
    BY <1>1, ChainHops
  <2>3. j \in Chain(tree, k) => j = k \/ j[1] < k[1]
    BY <2>1, ChainHops
  <2>4. j # NoHop /\ j \in Chain(tree, j)
    BY <1>1, ChainHops, HopIdType
  <2>5. j \in Chain(tree, k) \/ k \in Chain(tree, j)
    BY ChainTotal
  <2> QED
    BY <1>3, <2>1, <2>2, <2>3, <2>4, <2>5
<1>4. \A k \in Chain(tree, i) : k[1] = j[1] => k[1] <= j[1]
  BY <1>1, HopIdType
<1> QED
  BY <1>1, <1>2, <1>3, <1>4

\* The first and the last of some hops.
LEMMA FirstLast ==
  ASSUME NEW S \in SUBSET HopIds, S # {}
  PROVE  /\ First(S) \in S /\ \A j \in S : j[1] <= First(S)[1]
         /\ Last(S) \in S /\ \A j \in S : Last(S)[1] <= j[1]
<1> DEFINE R == {j[1] : j \in S}
<1>1. R \in SUBSET Nat /\ R # {} /\ \A m \in R : m <= MaxTTL
  BY HopIdType
<1>2. MaxTTL \in Nat
  BY ConstantsAssumption
<1> HIDE DEF R
<1>3. Greatest(R) \in R /\ \A m \in R : m <= Greatest(R)
  BY <1>1, <1>2, GreatestIs
<1>4. Least(R) \in R /\ \A m \in R : Least(R) <= m
  BY <1>1, LeastIs
<1>5. \E i \in S : \A j \in S : j[1] <= i[1]
  BY <1>3, Zenon DEF R
<1>6. \E i \in S : \A j \in S : i[1] <= j[1]
  BY <1>4, Zenon DEF R
<1> QED
  BY <1>5, <1>6, Zenon DEF First, Last

\* Hops p and c are where a new hop for ttl goes into the chain of head: between p and
\* its child c.
IsSplit(tree, head, ttl, p, c) ==
  /\ {p, c} \subseteq Chain(tree, head) \cup {NoHop}
  /\ p # NoHop => p[1] <= ttl
  /\ \A i \in Chain(tree, head) : i[1] <= ttl => p # NoHop /\ i \in Chain(tree, p)
  /\ c # NoHop => c[1] > ttl /\ tree[c].parent = p
  /\ c = NoHop => p = head

\* child_parent_ttl() finds the place.
LEMMA SplitIs ==
  ASSUME NEW tree, TreeOk(tree), NEW head \in DOMAIN tree \cup {NoHop}, NEW ttl \in TTLs
  PROVE  IsSplit(tree, head, ttl, parent_ttl(tree, head, ttl), child_ttl(tree, head, ttl))
<1>1. PICK C : C = Chain(tree, head)
  OBVIOUS
<1>2. PICK p : p = parent_ttl(tree, head, ttl)
  OBVIOUS
<1>3. PICK c : c = child_ttl(tree, head, ttl)
  OBVIOUS
<1> DEFINE P == {i \in C : i[1] <= ttl}
           Q == {i \in C : i[1] > ttl}
<1>4. C \subseteq HopIds /\ C \subseteq DOMAIN tree /\ ttl \in Nat
  BY <1>1, ChainHops, ConstantsAssumption DEF TTLs
<1>5. \A i \in C : i[1] \in Nat /\ i # NoHop /\ (i \in P \/ i \in Q) /\ ~(i \in P /\ i \in Q)
  BY <1>4, HopIdType
<1>6. p = First(P) /\ c = Last(Q)
  BY <1>1, <1>2, <1>3 DEF parent_ttl, child_ttl
<1>7. P = {} => p = NoHop
  BY <1>6 DEF First
<1>8. Q = {} => c = NoHop
  BY <1>6 DEF Last
<1>9. P # {} => p \in C /\ p[1] <= ttl /\ p # NoHop /\ \A j \in P : j[1] <= p[1]
  <2>1. P \in SUBSET HopIds
    BY <1>4
  <2>2. P # {} => p \in P /\ \A j \in P : j[1] <= p[1]
    <3> HIDE DEF P, Q
    <3> QED
      BY <1>6, <2>1, FirstLast
  <2> QED
    BY <1>5, <2>2
<1>10. Q # {} => c \in C /\ c[1] > ttl /\ c # NoHop /\ \A j \in Q : c[1] <= j[1]
  <2>1. Q \in SUBSET HopIds
    BY <1>4
  <2>2. Q # {} => c \in Q /\ \A j \in Q : c[1] <= j[1]
    <3> HIDE DEF P, Q
    <3> QED
      BY <1>6, <2>1, FirstLast
  <2> QED
    BY <1>5, <2>2
<1>11. ASSUME NEW i \in C, i[1] <= ttl PROVE p # NoHop /\ i \in Chain(tree, p)
  <2>1. i \in P
    BY <1>11
  <2>2. p \in C /\ p # NoHop /\ i[1] <= p[1]
    BY <1>9, <2>1
  <2> QED
    BY <1>1, <2>2, ChainBelow
<1>12. ASSUME c # NoHop PROVE c[1] > ttl /\ tree[c].parent = p
  <2>1. c \in C /\ c[1] > ttl /\ \A j \in Q : c[1] <= j[1]
    BY <1>8, <1>10, <1>12
  <2>2. PICK q : q = tree[c].parent
    OBVIOUS
  <2>3. c \in DOMAIN tree /\ q \in DOMAIN tree \cup {NoHop} /\ Chain(tree, c) = {c} \cup Chain(tree, q)
    BY <1>4, <2>1, <2>2, ChainStep
  <2>4. \A k \in P : q # NoHop /\ k \in Chain(tree, q)
    <3> SUFFICES ASSUME NEW k \in P PROVE q # NoHop /\ k \in Chain(tree, q)
      OBVIOUS
    <3>1. k \in C /\ k # c /\ k[1] <= c[1]
      BY <1>4, <1>5, <2>1
    <3>2. k \in Chain(tree, c)
      BY <1>1, <2>1, <3>1, ChainBelow
    <3>3. k \in Chain(tree, q)
      BY <2>3, <3>1, <3>2
    <3> QED
      BY <2>3, <3>3, ChainHops
  <2>5. CASE q = NoHop
    BY <1>7, <2>1, <2>2, <2>4, <2>5
  <2>6. CASE q # NoHop
    <3>1. q \in C /\ q[1] < c[1]
      BY <1>1, <2>1, <2>2, <2>3, <2>6, ChainHops DEF TreeOk
    <3>2. q \in P
      BY <1>5, <2>1, <3>1
    <3>3. p \in C /\ p[1] <= ttl /\ q[1] <= p[1]
      BY <1>9, <3>2
    <3>4. p \in Chain(tree, q)
      BY <2>4, <3>3
    <3>5. p = q \/ p[1] < q[1]
      BY <2>3, <3>4, ChainHops
    <3>6. p = q
      BY <1>5, <3>1, <3>3, <3>5
    <3> QED
      BY <2>1, <2>2, <3>6
  <2> QED
    BY <2>5, <2>6
<1>13. ASSUME c = NoHop PROVE p = head
  <2>1. Q = {}
    BY <1>10, <1>13
  <2>2. CASE head = NoHop
    BY <1>1, <1>7, <2>2, ChainHops
  <2>3. CASE head # NoHop
    <3>1. head \in C /\ head \in P
      BY <1>1, <1>5, <2>1, <2>3, ChainHops
    <3>2. head[1] <= p[1] /\ p \in C
      BY <1>9, <3>1
    <3>3. p = head \/ p[1] < head[1]
      BY <1>1, <3>2, ChainHops
    <3> QED
      BY <1>5, <3>1, <3>2, <3>3
  <2> QED
    BY <2>2, <2>3
<1>14. {p, c} \subseteq C \cup {NoHop} /\ (p # NoHop => p[1] <= ttl)
  BY <1>7, <1>8, <1>9, <1>10
<1> QED
  BY <1>1, <1>2, <1>3, <1>11, <1>12, <1>13, <1>14 DEF IsSplit

-------------------------------------------------------------------------------
(* What a chain tells of a path. *)

\* The TTLs of the hops of a chain and, with TRUE, of those that have answered.
Knows(tree, j) ==
  {x \in TTLs \X BOOLEAN :
     \E k \in Chain(tree, j) : k[1] = x[1] /\ (x[2] => tree[k].addr # NoAddress)}

\* No hop knows less in tree2 than in tree, nor less than the hops of its old chain.
KnowsMore(tree, tree2) ==
  /\ DOMAIN tree \subseteq DOMAIN tree2
  /\ \A j \in DOMAIN tree :
       /\ Knows(tree, j) \subseteq Knows(tree2, j)
       /\ \A k \in Chain(tree, j) : Knows(tree2, k) \subseteq Knows(tree2, j)

\* A hop knows what the hops of its chain know.
LEMMA KnowsUp ==
  ASSUME NEW tree, TreeOk(tree), NEW i \in DOMAIN tree \cup {NoHop},
         NEW j \in Chain(tree, i)
  PROVE  Knows(tree, j) \subseteq Knows(tree, i)
<1>1. Chain(tree, j) \subseteq Chain(tree, i)
  BY ChainBelow
<1> QED
  BY <1>1 DEF Knows

\* Nothing is lost if answers stay, and hops know what their old parents know.
LEMMA Carries ==
  ASSUME NEW tree, TreeOk(tree), NEW tree2, TreeOk(tree2),
         DOMAIN tree \subseteq DOMAIN tree2,
         \A j \in DOMAIN tree : tree[j].addr # NoAddress => tree2[j].addr # NoAddress,
         \A j \in DOMAIN tree : tree[j].parent # NoHop =>
                                  Knows(tree2, tree[j].parent) \subseteq Knows(tree2, j)
  PROVE  KnowsMore(tree, tree2)
<1> SUFFICES ASSUME NEW j \in DOMAIN tree
             PROVE  /\ Knows(tree, j) \subseteq Knows(tree2, j)
                    /\ \A k \in Chain(tree, j) : Knows(tree2, k) \subseteq Knows(tree2, j)
  BY DEF KnowsMore
<1> DEFINE S == {k \in DOMAIN tree : Knows(tree2, k) \subseteq Knows(tree2, j)}
<1>1. Closed(tree, S)
  <2> SUFFICES ASSUME NEW k \in S, tree[k].parent # NoHop PROVE tree[k].parent \in S
    BY DEF Closed
  <2>1. tree[k].parent \in DOMAIN tree
    BY DEF TreeOk
  <2>2. Knows(tree2, tree[k].parent) \subseteq Knows(tree2, k)
    OBVIOUS
  <2> QED
    BY <2>1, <2>2
<1>2. Chain(tree, j) \subseteq S
  <2>1. j \in S
    OBVIOUS
  <2> HIDE DEF S
  <2> QED
    BY <1>1, <2>1, ChainLeast
<1> SUFFICES ASSUME NEW x \in Knows(tree, j) PROVE x \in Knows(tree2, j)
  BY <1>2
<1>3. PICK k \in Chain(tree, j) : k[1] = x[1] /\ (x[2] => tree[k].addr # NoAddress)
  BY DEF Knows
<1>4. k \in DOMAIN tree /\ Knows(tree2, k) \subseteq Knows(tree2, j)
  BY <1>2
<1>5. k \in Chain(tree2, k)
  <2>1. k \in DOMAIN tree2 /\ k # NoHop
    BY <1>4, HopIdType DEF TreeOk
  <2> QED
    BY <2>1, ChainHops
<1>6. x \in Knows(tree2, k)
  BY <1>3, <1>4, <1>5 DEF Knows
<1> QED
  BY <1>4, <1>6

\* What linking a hop into the chain of a host gives: a tree in which no hop knows less,
\* and a head that knows what it knew, and the hop.
IsLink(link, head, ttl) ==
  /\ TreeOk(link.tree) /\ KnowsMore(hop, link.tree)
  /\ link.head \in DOMAIN link.tree
  /\ Knows(hop, head) \subseteq Knows(link.tree, link.head)
  /\ <<ttl, FALSE>> \in Knows(link.tree, link.head)

\* No hop is known to no chain; a hop is known to its own.
LEMMA KnowsOwn ==
  ASSUME NEW tree, TreeOk(tree)
  PROVE  /\ Knows(tree, NoHop) = {}
         /\ \A i \in DOMAIN tree : <<i[1], FALSE>> \in Knows(tree, i)
<1>1. Chain(tree, NoHop) = {}
  BY ChainHops
<1>2. ASSUME NEW i \in DOMAIN tree PROVE <<i[1], FALSE>> \in Knows(tree, i)
  <2>1. i \in Chain(tree, i) /\ i[1] \in TTLs
    BY ChainHops, HopIdType DEF TreeOk
  <2> QED
    BY <2>1 DEF Knows
<1> QED
  BY <1>1, <1>2 DEF Knows

\* Addresses are not 0.
LEMMA AddressType == Addresses \in SUBSET (Nat \ {0})
<1> SUFFICES ASSUME NEW a \in Addresses PROVE a \in Nat \ {0}
  OBVIOUS
<1>1. PICK h \in Hosts, t \in TTLs : a \in Answers[h][t]
  BY DEF Addresses
<1>2. Answers[h] \in [TTLs -> SUBSET (Nat \ {0})]
  BY ConstantsAssumption
<1> QED
  BY <1>1, <1>2

\* Parents stay and answers are added: nobody knows less.
LEMMA SameParents ==
  ASSUME NEW tree, TreeOk(tree), NEW tree2, TreeOk(tree2), DOMAIN tree = DOMAIN tree2,
         \A j \in DOMAIN tree : /\ tree[j].addr # NoAddress => tree2[j].addr # NoAddress
                                /\ tree2[j].parent = tree[j].parent
  PROVE  KnowsMore(tree, tree2)
<1>1. ASSUME NEW j \in DOMAIN tree, tree[j].parent # NoHop
      PROVE  Knows(tree2, tree[j].parent) \subseteq Knows(tree2, j)
  <2>1. PICK p : p = tree[j].parent
    OBVIOUS
  <2>2. j \in DOMAIN tree2 /\ j \in Chain(tree2, j) /\ tree2[j].parent = p /\ p # NoHop
    BY <1>1, <2>1, ChainHops, HopIdType DEF TreeOk
  <2>3. p \in Chain(tree2, j)
    BY <2>2, ChainHops
  <2> QED
    BY <2>1, <2>2, <2>3, KnowsUp
<1> QED
  BY <1>1, Carries

\* A new hop is put between p and c.
Inserted(tree2, id, p, c) ==
  /\ DOMAIN tree2 = DOMAIN hop \cup {id} /\ tree2 \in [DOMAIN tree2 -> Hop]
  /\ tree2[id].parent = p /\ (id[2] > 0 => tree2[id].addr = id[2])
  /\ \A i \in DOMAIN hop : /\ tree2[i].addr = hop[i].addr
                           /\ tree2[i].parent = IF i = c THEN id ELSE hop[i].parent

\* The hops are a tree again, in which nobody knows less.
LEMMA InsertedTree ==
  ASSUME TreeOk(hop), NEW head \in DOMAIN hop \cup {NoHop}, NEW ttl \in TTLs, NEW p, NEW c,
         IsSplit(hop, head, ttl, p, c), NEW id \in HopIds, id[1] = ttl, id \notin DOMAIN hop,
         p # NoHop => p[1] # ttl, NEW tree2, Inserted(tree2, id, p, c)
  PROVE  /\ TreeOk(tree2) /\ KnowsMore(hop, tree2)
         /\ c # NoHop => c \in DOMAIN hop /\ head \in DOMAIN hop
                         /\ Knows(tree2, id) \subseteq Knows(tree2, c)
         /\ p # NoHop => p \in DOMAIN hop /\ Knows(tree2, p) \subseteq Knows(tree2, id)
<1>1. {p, c} \subseteq DOMAIN hop \cup {NoHop} /\ (c # NoHop => head # NoHop)
  BY ChainHops DEF IsSplit
<1>2. \A i \in DOMAIN hop : i \in HopIds /\ i[1] \in Nat
  BY HopIdType DEF TreeOk
<1>3. ttl \in Nat
  BY HopIdType
<1>4. TreeOk(tree2)
  <2>1. DOMAIN tree2 \subseteq HopIds
    BY <1>2 DEF Inserted
  <2>2. IsFiniteSet(DOMAIN tree2)
    <3>1. IsFiniteSet(DOMAIN hop)
      BY DEF TreeOk
    <3> QED
      BY <3>1, FS_AddElement DEF Inserted
  <2>3. ASSUME NEW i \in DOMAIN tree2, i = id
        PROVE  /\ i[2] > 0 => tree2[i].addr = i[2]
               /\ tree2[i].parent # NoHop => tree2[i].parent \in DOMAIN tree2 /\ tree2[i].parent[1] < i[1]
    <3>1. tree2[i].parent = p /\ (i[2] > 0 => tree2[i].addr = i[2])
      BY <2>3 DEF Inserted
    <3>2. p # NoHop => p \in DOMAIN hop /\ p[1] <= ttl /\ p[1] # ttl
      BY <1>1 DEF IsSplit
    <3>3. p # NoHop => p \in DOMAIN tree2 /\ p[1] < ttl
      BY <1>2, <1>3, <3>2 DEF Inserted
    <3> QED
      BY <2>3, <3>1, <3>3
  <2>4. ASSUME NEW i \in DOMAIN tree2, i # id
        PROVE  /\ i[2] > 0 => tree2[i].addr = i[2]
               /\ tree2[i].parent # NoHop => tree2[i].parent \in DOMAIN tree2 /\ tree2[i].parent[1] < i[1]
    <3>1. i \in DOMAIN hop
      BY <2>4 DEF Inserted
    <3>2. /\ i[2] > 0 => hop[i].addr = i[2]
          /\ hop[i].parent # NoHop => hop[i].parent \in DOMAIN hop /\ hop[i].parent[1] < i[1]
      BY <3>1 DEF TreeOk
    <3>3. CASE i = c
      <4>1. tree2[i].parent = id /\ id[1] < i[1]
        BY <1>1, <1>2, <1>3, <3>1, <3>3, HopIdType DEF Inserted, IsSplit
      <4> QED
        BY <3>1, <3>2, <4>1 DEF Inserted
    <3>4. CASE i # c
      BY <3>1, <3>2, <3>4 DEF Inserted
    <3> QED
      BY <3>3, <3>4
  <2> QED
    BY <2>1, <2>2, <2>3, <2>4 DEF TreeOk, Inserted
<1>5. \A i \in DOMAIN tree2 : tree2[i].parent # NoHop =>
                               Knows(tree2, tree2[i].parent) \subseteq Knows(tree2, i)
  <2> SUFFICES ASSUME NEW i \in DOMAIN tree2, tree2[i].parent # NoHop
               PROVE  Knows(tree2, tree2[i].parent) \subseteq Knows(tree2, i)
    OBVIOUS
  <2>1. i \in Chain(tree2, i) /\ i # NoHop
    BY <1>4, ChainHops, HopIdType DEF TreeOk
  <2>2. tree2[i].parent \in Chain(tree2, i)
    BY <1>4, <2>1, ChainHops
  <2> QED
    BY <1>4, <2>2, KnowsUp
<1>6. id \in DOMAIN tree2 /\ id # NoHop /\ DOMAIN hop \subseteq DOMAIN tree2
  BY HopIdType DEF Inserted
<1>7. p # NoHop => p \in DOMAIN hop /\ Knows(tree2, p) \subseteq Knows(tree2, id)
  BY <1>1, <1>5, <1>6 DEF Inserted
<1>8. c # NoHop => c \in DOMAIN hop /\ Knows(tree2, id) \subseteq Knows(tree2, c)
  BY <1>1, <1>5, <1>6 DEF Inserted
<1>9. ASSUME NEW j \in DOMAIN hop, hop[j].parent # NoHop
      PROVE  Knows(tree2, hop[j].parent) \subseteq Knows(tree2, j)
  <2>1. CASE j = c
    <3>1. hop[j].parent = p /\ p # NoHop /\ c # NoHop
      BY <1>2, <1>9, <2>1, HopIdType DEF IsSplit
    <3> QED
      BY <1>7, <1>8, <2>1, <3>1
  <2>2. CASE j # c
    BY <1>5, <1>6, <1>9, <2>2 DEF Inserted
  <2> QED
    BY <2>1, <2>2
<1>10. KnowsMore(hop, tree2)
  <2>1. \A j \in DOMAIN hop : hop[j].addr # NoAddress => tree2[j].addr # NoAddress
    BY DEF Inserted
  <2> QED
    BY <1>4, <1>6, <1>9, <2>1, Carries
<1> QED
  BY <1>1, <1>4, <1>7, <1>8, <1>10

\* insert_hop() of host h links a hop into its chain, or uses the one that is there.
LEMMA InsertHop ==
  ASSUME TreeOk(hop), NEW h \in Hosts, NEW head \in DOMAIN hop \cup {NoHop}, NEW ttl \in TTLs,
         NEW addr \in Addresses \cup {NoAddress},
         NEW id, id = <<ttl, IF addr = NoAddress THEN -h ELSE addr>>,
         id \in DOMAIN hop => <<ttl, FALSE>> \in Knows(hop, head)
  PROVE  /\ IsLink(insert_hop(h, head, ttl, addr), head, ttl)
         /\ DOMAIN insert_hop(h, head, ttl, addr).tree \subseteq DOMAIN hop \cup {id}
<1>1. PICK p : p = parent_ttl(hop, head, ttl)
  OBVIOUS
<1>2. PICK c : c = child_ttl(hop, head, ttl)
  OBVIOUS
<1>3. IsSplit(hop, head, ttl, p, c)
  BY <1>1, <1>2, SplitIs
<1>4. PICK new : new = [addr |-> addr, parent |-> p, tag |-> IF c = NoHop THEN h ELSE hop[c].tag]
  OBVIOUS
<1>5. PICK tree : tree = [i \in DOMAIN hop \cup {id} |-> IF i = id THEN new ELSE hop[i]]
  OBVIOUS
<1>6. PICK link : link = insert_hop(h, head, ttl, addr)
  OBVIOUS
<1>7. {p, c} \subseteq DOMAIN hop \cup {NoHop} /\ (c # NoHop \/ p # NoHop => head # NoHop)
  BY <1>3, ChainHops DEF IsSplit
<1>8. \A i \in DOMAIN hop : i \in HopIds /\ i[1] \in Nat /\ i # NoHop
  BY HopIdType DEF TreeOk
<1>9. CASE p # NoHop /\ p[1] = ttl
  <2>1. PICK tree2 : tree2 = IF hop[p].addr = NoAddress THEN [hop EXCEPT ![p].addr = addr] ELSE hop
    OBVIOUS
  <2>2. link = [tree |-> tree2, head |-> head]
    BY <1>1, <1>6, <1>9, <2>1 DEF insert_hop
  <2>3. /\ DOMAIN tree2 = DOMAIN hop /\ tree2 \in [DOMAIN hop -> Hop]
        /\ \A j \in DOMAIN hop : /\ tree2[j].parent = hop[j].parent
                                 /\ hop[j].addr # NoAddress => tree2[j].addr = hop[j].addr
    BY <2>1 DEF TreeOk, Hop
  <2>4. TreeOk(tree2)
    <3>1. \A i \in DOMAIN hop : i[2] > 0 => hop[i].addr # NoAddress /\ hop[i].addr = i[2]
      <4> SUFFICES ASSUME NEW i \in DOMAIN hop, i[2] > 0
                   PROVE  hop[i].addr # NoAddress /\ hop[i].addr = i[2]
        OBVIOUS
      <4>1. hop[i].addr = i[2]
        BY DEF TreeOk
      <4> QED
        BY <4>1 DEF NoAddress
    <3> QED
      BY <2>3, <3>1 DEF TreeOk
  <2>5. KnowsMore(hop, tree2)
    BY <2>3, <2>4, SameParents
  <2>6. head \in DOMAIN hop /\ Knows(hop, head) \subseteq Knows(tree2, head)
    BY <1>7, <1>9, <2>5 DEF KnowsMore
  <2>7. <<ttl, FALSE>> \in Knows(hop, head)
    BY <1>3, <1>9 DEF Knows, IsSplit
  <2> QED
    BY <1>6, <2>2, <2>3, <2>4, <2>5, <2>6, <2>7 DEF IsLink
<1>10. CASE ~(p # NoHop /\ p[1] = ttl)
  <2>1. link = Linked(tree, head, c, id)
    BY <1>1, <1>2, <1>4, <1>5, <1>6, <1>10 DEF insert_hop
  <2>2. PICK tree2 : tree2 = IF c = NoHop THEN tree ELSE [tree EXCEPT ![c].parent = id]
    OBVIOUS
  <2>3. PICK head2 : head2 = IF c = NoHop THEN id ELSE head
    OBVIOUS
  <2>4. link = [tree |-> tree2, head |-> head2]
    BY <2>1, <2>2, <2>3 DEF Linked
  <2>5. id \in HopIds /\ id[1] = ttl /\ id # NoHop
    <3>1. id \in HopIds
      BY DEF HopIds
    <3> QED
      BY <3>1, HopIdType
  <2>6. id \notin DOMAIN hop
    <3> SUFFICES ASSUME id \in DOMAIN hop PROVE FALSE
      OBVIOUS
    <3>0. <<ttl, FALSE>> \in Knows(hop, head)
      OBVIOUS
    <3>1. PICK k \in Chain(hop, head) : k[1] = ttl
      BY <3>0 DEF Knows
    <3>2. p # NoHop /\ k \in Chain(hop, p) /\ p[1] <= ttl
      <4>1. k[1] <= ttl
        BY <3>1, ConstantsAssumption DEF TTLs
      <4> QED
        BY <1>3, <3>1, <4>1 DEF IsSplit
    <3>3. k = p \/ k[1] < p[1]
      BY <1>7, <3>2, ChainHops
    <3> QED
      BY <1>7, <1>8, <1>10, <3>1, <3>2, <3>3
  <2>7. new \in Hop
    <3>1. (IF c = NoHop THEN h ELSE hop[c].tag) \in Hosts
      BY <1>7 DEF TreeOk, Hop
    <3> QED
      BY <1>4, <1>7, <1>8, <3>1 DEF Hop
  <2>8. tree \in [DOMAIN hop \cup {id} -> Hop] /\ tree[id] = new
        /\ \A i \in DOMAIN hop : tree[i] = hop[i]
    BY <1>5, <2>6, <2>7 DEF TreeOk
  <2>9. Inserted(tree2, id, p, c)
    <3>1. new.parent = p /\ new.addr = addr
      BY <1>4
    <3>2. id[2] > 0 => addr = id[2]
      BY ConstantsAssumption DEF Hosts, NoAddress
    <3>3. CASE c = NoHop
      <4>1. tree2 = tree /\ \A i \in DOMAIN hop : i # c
        BY <1>8, <2>2, <3>3
      <4> QED
        BY <2>8, <3>1, <3>2, <4>1 DEF Inserted
    <3>4. CASE c # NoHop
      <4>1. c \in DOMAIN hop /\ c # id /\ c \in DOMAIN tree
        BY <1>7, <2>6, <2>8, <3>4
      <4>2. tree2 = [tree EXCEPT ![c].parent = id]
        BY <2>2, <3>4
      <4>3. tree2 \in [DOMAIN hop \cup {id} -> Hop]
        BY <2>5, <2>8, <4>1, <4>2 DEF Hop
      <4>4. tree2[id] = new
        BY <2>8, <4>1, <4>2
      <4>5. ASSUME NEW i \in DOMAIN hop
            PROVE  /\ tree2[i].addr = hop[i].addr
                   /\ tree2[i].parent = IF i = c THEN id ELSE hop[i].parent
        <5>1. CASE i = c
          <6>1. tree2[i] = [tree[i] EXCEPT !.parent = id] /\ tree[i] = hop[i] /\ hop[i] \in Hop
            BY <2>8, <4>1, <4>2, <5>1 DEF TreeOk
          <6> QED
            BY <5>1, <6>1 DEF Hop
        <5>2. CASE i # c
          BY <2>8, <4>1, <4>2, <5>2
        <5> QED
          BY <5>1, <5>2
      <4> QED
        BY <3>1, <3>2, <4>3, <4>4, <4>5 DEF Inserted
    <3> QED
      BY <3>3, <3>4
  <2>10. /\ TreeOk(tree2) /\ KnowsMore(hop, tree2)
         /\ c # NoHop => c \in DOMAIN hop /\ head \in DOMAIN hop
                         /\ Knows(tree2, id) \subseteq Knows(tree2, c)
         /\ p # NoHop => p \in DOMAIN hop /\ Knows(tree2, p) \subseteq Knows(tree2, id)
    <3>1. p # NoHop => p[1] # ttl
      BY <1>10
    <3> QED
      BY <1>3, <2>5, <2>6, <2>9, <3>1, InsertedTree
  <2>11. id \in DOMAIN tree2 /\ <<ttl, FALSE>> \in Knows(tree2, id) /\ DOMAIN tree2 = DOMAIN hop \cup {id}
    BY <2>5, <2>9, <2>10, KnowsOwn DEF Inserted
  <2>12. /\ head2 \in DOMAIN tree2 /\ Knows(hop, head) \subseteq Knows(tree2, head2)
         /\ <<ttl, FALSE>> \in Knows(tree2, head2)
    <3>1. CASE c = NoHop
      <4>1. head2 = id /\ head = p
        BY <1>3, <2>3, <3>1 DEF IsSplit
      <4>2. Knows(hop, head) \subseteq Knows(tree2, id)
        <5>1. CASE p = NoHop
          BY <4>1, <5>1, KnowsOwn
        <5>2. CASE p # NoHop
          BY <2>10, <4>1, <5>2 DEF KnowsMore
        <5> QED
          BY <5>1, <5>2
      <4> QED
        BY <2>11, <4>1, <4>2
    <3>2. CASE c # NoHop
      <4>1. head2 = head /\ head \in DOMAIN hop /\ c \in Chain(hop, head)
        BY <1>3, <2>3, <2>10, <3>2 DEF IsSplit
      <4>2. Knows(tree2, c) \subseteq Knows(tree2, head) /\ Knows(hop, head) \subseteq Knows(tree2, head)
        BY <2>10, <4>1 DEF KnowsMore
      <4> QED
        BY <2>10, <2>11, <3>2, <4>1, <4>2
    <3> QED
      BY <3>1, <3>2
  <2> QED
    BY <1>6, <2>4, <2>10, <2>11, <2>12 DEF IsLink
<1> QED
  BY <1>9, <1>10

\* At most one hop for each TTL.
OnePerTTL(S) == \A j, k \in S : j[1] = k[1] => j = k

\* merge_hops() keeps one hop for each TTL of both chains, with an answer if one of the
\* chains has one.
LEMMA KeptHops ==
  ASSUME NEW A \in SUBSET DOMAIN hop, NEW B \in SUBSET DOMAIN hop, OnePerTTL(A), OnePerTTL(B)
  PROVE  /\ Kept(A, B) \subseteq A \cup B /\ OnePerTTL(Kept(A, B))
         /\ \A q \in A \cup B : \E m \in Kept(A, B) :
              m[1] = q[1] /\ (hop[q].addr # NoAddress => hop[m].addr # NoAddress)
<1> DEFINE P(i) == hop[i].addr # NoAddress
           M1 == {i \in A : \A j \in B : j[1] = i[1] => ~P(j) \/ P(i)}
           M2 == {i \in B : \A j \in A : j[1] = i[1] /\ j # i => P(i) /\ ~P(j)}
<1>1. Kept(A, B) = M1 \cup M2
  BY DEF Kept
<1> HIDE DEF P
<1>2. OnePerTTL(M1 \cup M2)
  <2> SUFFICES ASSUME NEW m \in M1 \cup M2, NEW n \in M1 \cup M2, m[1] = n[1], m # n PROVE FALSE
    BY DEF OnePerTTL
  <2>1. CASE m \in A /\ n \in A
    BY <2>1 DEF OnePerTTL
  <2>2. CASE m \in B /\ n \in B
    BY <2>2 DEF OnePerTTL
  <2>3. CASE m \in M1 /\ n \in M2
    BY <2>3
  <2>4. CASE m \in M2 /\ n \in M1
    BY <2>4
  <2> QED
    BY <2>1, <2>2, <2>3, <2>4
<1>3. ASSUME NEW q \in A PROVE \E m \in M1 \cup M2 : m[1] = q[1] /\ (P(q) => P(m))
  <2>1. CASE q \in M1
    BY <2>1
  <2>2. CASE q \notin M1
    <3>1. PICK j \in B : j[1] = q[1] /\ P(j) /\ ~P(q)
      BY <2>2
    <3>2. j \in M2
      BY <3>1 DEF OnePerTTL
    <3> QED
      BY <3>1, <3>2
  <2> QED
    BY <2>1, <2>2
<1>4. ASSUME NEW q \in B PROVE \E m \in M1 \cup M2 : m[1] = q[1] /\ (P(q) => P(m))
  <2>1. CASE q \in M2
    BY <2>1
  <2>2. CASE q \notin M2
    <3>1. PICK a \in A : a[1] = q[1] /\ ~(P(q) /\ ~P(a))
      BY <2>2
    <3>2. a \in M1
      BY <3>1 DEF OnePerTTL
    <3> QED
      BY <3>1, <3>2
  <2> QED
    BY <2>1, <2>2
<1>5. M1 \cup M2 \subseteq A \cup B
  OBVIOUS
<1> HIDE DEF M1, M2
<1> QED
  BY <1>1, <1>2, <1>3, <1>4, <1>5 DEF P

\* The parents in a tree that the hops of M have been merged into: each hop of M has the
\* next one of M, and child c the first one.
Merged(tree2, M, c, i) ==
  /\ DOMAIN tree2 = DOMAIN hop /\ tree2 \in [DOMAIN hop -> Hop]
  /\ \A j \in DOMAIN hop :
       /\ tree2[j].addr = hop[j].addr
       /\ tree2[j].parent = IF j = c THEN i
                            ELSE IF j \in M THEN First({k \in M : k[1] < j[1]})
                            ELSE hop[j].parent

\* The merged hops follow each other in a chain.
LEMMA MergedChain ==
  ASSUME NEW tree2, TreeOk(tree2), NEW M \in SUBSET DOMAIN tree2, OnePerTTL(M),
         \A j \in M : tree2[j].parent = First({k \in M : k[1] < j[1]}),
         NEW j \in M, NEW m \in M, m[1] <= j[1]
  PROVE  m \in Chain(tree2, j)
<1>1. PICK C : C = Chain(tree2, j)
  OBVIOUS
<1>2. j \in DOMAIN tree2 /\ M \subseteq HopIds
  BY DEF TreeOk
<1>3. j \in C /\ \A k \in C : tree2[k].parent # NoHop => tree2[k].parent \in C
  BY <1>1, <1>2, ChainHops, HopIdType
<1>4. \A k \in M : k[1] \in Nat /\ k # NoHop
  BY <1>2, HopIdType
<1> SUFFICES ASSUME m \notin C PROVE FALSE
  BY <1>1
<1> DEFINE E == {k \in M : k \in C /\ k[1] > m[1]}
<1>5. m # j /\ m[1] # j[1]
  BY <1>3 DEF OnePerTTL
<1>6. j \in E
  BY <1>3, <1>4, <1>5
<1>7. PICK k : k = Last(E)
  OBVIOUS
<1>8. k \in E /\ \A e \in E : k[1] <= e[1]
  <2>1. E \in SUBSET HopIds /\ E # {}
    BY <1>2, <1>6
  <2> HIDE DEF E
  <2> QED
    BY <1>7, <2>1, FirstLast
<1> DEFINE F == {x \in M : x[1] < k[1]}
<1>9. m \in F
  BY <1>4, <1>8
<1>10. PICK y : y = First(F)
  OBVIOUS
<1>11. y \in F /\ \A x \in F : x[1] <= y[1]
  <2>1. F \in SUBSET HopIds /\ F # {}
    BY <1>2, <1>9
  <2> HIDE DEF F
  <2> QED
    BY <1>10, <2>1, FirstLast
<1>12. tree2[k].parent = y /\ y # NoHop /\ y \in M
  BY <1>4, <1>8, <1>10, <1>11
<1>13. y \in C
  BY <1>3, <1>8, <1>12
<1>14. m[1] <= y[1] /\ y[1] < k[1]
  BY <1>9, <1>11
<1>15. ~(y[1] > m[1])
  <2> SUFFICES ASSUME y[1] > m[1] PROVE FALSE
    OBVIOUS
  <2>1. y \in E
    BY <1>12, <1>13
  <2>2. k[1] <= y[1] /\ k[1] \in Nat /\ y[1] \in Nat
    BY <1>4, <1>8, <1>12, <2>1
  <2> QED
    BY <1>14, <2>2
<1>16. y[1] = m[1]
  BY <1>4, <1>12, <1>14, <1>15
<1> QED
  BY <1>12, <1>13, <1>16 DEF OnePerTTL

\* A chain has one hop for each TTL.
LEMMA ChainOnePerTTL ==
  ASSUME NEW tree, TreeOk(tree), NEW i \in DOMAIN tree \cup {NoHop}
  PROVE  OnePerTTL(Chain(tree, i))
BY ChainBelow DEF OnePerTTL

\* Of the chains of an answered hop i and of a hop p that is not beyond it, i is kept,
\* as the first hop.
LEMMA KeptFirst ==
  ASSUME TreeOk(hop), NEW i \in DOMAIN hop, hop[i].addr # NoAddress,
         NEW p \in DOMAIN hop \cup {NoHop}, p # NoHop => p[1] <= i[1],
         NEW M, M = Kept(Chain(hop, i), Chain(hop, p))
  PROVE  /\ M \subseteq Chain(hop, i) \cup Chain(hop, p) /\ M \subseteq DOMAIN hop
         /\ OnePerTTL(M) /\ i \in M /\ First(M) = i
         /\ \A k \in Chain(hop, i) \cup Chain(hop, p) : k \in HopIds /\ k \in DOMAIN hop /\ k[1] <= i[1]
<1>1. PICK A : A = Chain(hop, i)
  OBVIOUS
<1>2. PICK B : B = Chain(hop, p)
  OBVIOUS
<1>3. A \in SUBSET DOMAIN hop /\ B \in SUBSET DOMAIN hop /\ A \cup B \subseteq HopIds /\ i \in A
  BY <1>1, <1>2, ChainHops, HopIdType DEF TreeOk
<1>4. OnePerTTL(A) /\ OnePerTTL(B)
  BY <1>1, <1>2, ChainOnePerTTL
<1>5. M \subseteq A \cup B /\ OnePerTTL(M)
  BY <1>1, <1>2, <1>3, <1>4, KeptHops
<1>6. i \in M
  BY <1>1, <1>2, <1>3 DEF Kept
<1>7. \A k \in A \cup B : k[1] <= i[1]
  <2> SUFFICES ASSUME NEW k \in A \cup B PROVE k[1] <= i[1]
    OBVIOUS
  <2>1. k[1] \in Nat /\ i[1] \in Nat
    BY <1>3, HopIdType
  <2>2. CASE k \in A
    BY <1>1, <2>1, <2>2, ChainHops
  <2>3. CASE k \in B
    <3>1. p # NoHop /\ p[1] \in Nat
      BY <1>2, <2>3, ChainHops, HopIdType DEF TreeOk
    <3>2. k = p \/ k[1] < p[1]
      BY <1>2, <2>3, ChainHops
    <3> QED
      BY <2>1, <3>1, <3>2
  <2> QED
    BY <2>2, <2>3
<1>8. First(M) = i
  <2>1. M \in SUBSET HopIds /\ M # {}
    BY <1>3, <1>5, <1>6
  <2>2. PICK f : f = First(M)
    OBVIOUS
  <2>3. f \in M /\ i[1] <= f[1]
    BY <1>6, <2>1, <2>2, FirstLast
  <2>4. f[1] <= i[1] /\ f[1] \in Nat /\ i[1] \in Nat
    BY <1>3, <1>5, <1>7, <2>3, HopIdType
  <2>5. f[1] = i[1]
    BY <2>3, <2>4
  <2> QED
    BY <1>5, <1>6, <2>2, <2>3, <2>5 DEF OnePerTTL
<1> QED
  BY <1>1, <1>2, <1>3, <1>5, <1>6, <1>7, <1>8

\* What link_to() does where the chains of the answered hop i and of p differ, and what
\* it gives.
Merges(tree2, head, i, p, c) ==
  /\ TreeOk(hop) /\ i \in DOMAIN hop /\ hop[i].addr # NoAddress
  /\ head \in DOMAIN hop \cup {NoHop} /\ IsSplit(hop, head, i[1], p, c)
  /\ Merged(tree2, Kept(Chain(hop, i), Chain(hop, p)), c, i)
IsMerged(tree2, i, p, c) ==
  /\ TreeOk(tree2) /\ KnowsMore(hop, tree2)
  /\ c # NoHop => Knows(tree2, i) \subseteq Knows(tree2, c)
  /\ p # NoHop => Knows(tree2, p) \subseteq Knows(tree2, i)

\* The hops are a tree again, in which nobody knows less.
LEMMA MergedTree ==
  ASSUME NEW tree2, NEW head, NEW i, NEW p, NEW c, Merges(tree2, head, i, p, c)
  PROVE  IsMerged(tree2, i, p, c)
<1>0. PICK M : M = Kept(Chain(hop, i), Chain(hop, p))
  OBVIOUS
<1> /\ TreeOk(hop) /\ i \in DOMAIN hop /\ hop[i].addr # NoAddress
    /\ head \in DOMAIN hop \cup {NoHop} /\ IsSplit(hop, head, i[1], p, c)
    /\ M = Kept(Chain(hop, i), Chain(hop, p)) /\ Merged(tree2, M, c, i)
  BY <1>0 DEF Merges
<1>1. {p, c} \subseteq DOMAIN hop \cup {NoHop} /\ (p # NoHop => p[1] <= i[1])
      /\ (c # NoHop => c[1] > i[1] /\ hop[c].parent = p)
  BY ChainHops DEF IsSplit
<1>2. PICK A : A = Chain(hop, i)
  OBVIOUS
<1>3. PICK B : B = Chain(hop, p)
  OBVIOUS
<1>4. /\ M \subseteq A \cup B /\ M \subseteq DOMAIN hop /\ OnePerTTL(M) /\ i \in M
      /\ \A k \in A \cup B : k \in HopIds /\ k \in DOMAIN hop /\ k[1] <= i[1]
  BY <1>1, <1>2, <1>3, KeptFirst
<1>5. \A k \in DOMAIN hop : k \in HopIds /\ k[1] \in Nat /\ k # NoHop
  BY HopIdType DEF TreeOk
<1>6. c \notin A \cup B /\ c \notin M
  <2> SUFFICES ASSUME c \in A \cup B PROVE FALSE
    BY <1>4
  <2>1. c \in DOMAIN hop /\ c # NoHop /\ c[1] <= i[1] /\ c[1] \in Nat /\ i[1] \in Nat
    BY <1>4, <1>5
  <2> QED
    BY <1>1, <2>1
<1>7. ASSUME NEW j \in M
      PROVE  LET f == First({k \in M : k[1] < j[1]})
             IN tree2[j].parent = f /\ (f # NoHop => f \in M /\ f[1] < j[1])
  <2> DEFINE F == {k \in M : k[1] < j[1]}
  <2>1. tree2[j].parent = First(F)
    BY <1>4, <1>6 DEF Merged
  <2>2. F = {} => First(F) = NoHop
    BY DEF First
  <2>3. F # {} => First(F) \in F
    <3>1. F \in SUBSET HopIds
      BY <1>4, <1>5
    <3> HIDE DEF F
    <3> QED
      BY <3>1, FirstLast
  <2> QED
    BY <2>1, <2>2, <2>3
<1>8. TreeOk(tree2)
  <2>1. ASSUME NEW j \in DOMAIN hop, tree2[j].parent # NoHop
        PROVE  tree2[j].parent \in DOMAIN hop /\ tree2[j].parent[1] < j[1]
    <3>1. CASE j = c
      BY <1>1, <1>5, <2>1, <3>1 DEF Merged
    <3>2. CASE j \in M
      BY <1>4, <1>7, <2>1, <3>2
    <3>3. CASE j # c /\ j \notin M
      <4>1. tree2[j].parent = hop[j].parent
        BY <3>3 DEF Merged
      <4> QED
        BY <2>1, <4>1 DEF TreeOk
    <3> QED
      BY <3>1, <3>2, <3>3
  <2> QED
    BY <2>1 DEF TreeOk, Merged
<1>9. \A j \in DOMAIN hop : tree2[j].parent # NoHop =>
                              Knows(tree2, tree2[j].parent) \subseteq Knows(tree2, j)
  <2> SUFFICES ASSUME NEW j \in DOMAIN hop, tree2[j].parent # NoHop
               PROVE  Knows(tree2, tree2[j].parent) \subseteq Knows(tree2, j)
    OBVIOUS
  <2>1. j \in DOMAIN tree2 /\ j # NoHop
    BY <1>5 DEF Merged
  <2>2. tree2[j].parent \in Chain(tree2, j)
    BY <1>8, <2>1, ChainHops
  <2> QED
    BY <1>8, <2>1, <2>2, KnowsUp
<1>10. ASSUME NEW q \in A \cup B, NEW j \in M, q[1] <= j[1]
       PROVE  Knows(tree2, q) \subseteq Knows(tree2, j)
  <2> DEFINE S == {k \in A \cup B : k[1] <= j[1]}
  <2>1. Closed(tree2, S)
    <3> SUFFICES ASSUME NEW k \in S, tree2[k].parent # NoHop PROVE tree2[k].parent \in S
      BY DEF Closed
    <3>1. PICK f : f = tree2[k].parent
      OBVIOUS
    <3>2. k \in DOMAIN hop /\ k # c /\ f # NoHop
      BY <1>4, <1>6, <3>1
    <3>3. f \in A \cup B
      <4>1. CASE k \in M
        BY <1>4, <1>7, <3>1, <4>1
      <4>2. CASE k \notin M
        <5>1. f = hop[k].parent
          BY <3>1, <3>2, <4>2 DEF Merged
        <5> QED
          BY <1>1, <1>2, <1>3, <3>2, <5>1, ChainHops
      <4> QED
        BY <4>1, <4>2
    <3>4. f[1] < k[1]
      BY <1>8, <3>1, <3>2 DEF TreeOk, Merged
    <3>5. f[1] \in Nat /\ k[1] \in Nat /\ j[1] \in Nat /\ k[1] <= j[1]
      BY <1>4, <1>5, <3>2, <3>3
    <3> QED
      BY <3>1, <3>3, <3>4, <3>5
  <2>2. Chain(tree2, q) \subseteq S
    <3>1. q \in S /\ q \in DOMAIN tree2
      BY <1>4, <1>10 DEF Merged
    <3> HIDE DEF S
    <3> QED
      BY <1>8, <2>1, <3>1, ChainLeast
  <2> SUFFICES ASSUME NEW x \in Knows(tree2, q) PROVE x \in Knows(tree2, j)
    OBVIOUS
  <2>3. PICK k \in Chain(tree2, q) : k[1] = x[1] /\ (x[2] => tree2[k].addr # NoAddress)
    BY DEF Knows
  <2>4. k \in A \cup B /\ k \in DOMAIN hop /\ k[1] <= j[1]
    BY <1>4, <2>2
  <2>5. PICK m \in M : m[1] = k[1] /\ (hop[k].addr # NoAddress => hop[m].addr # NoAddress)
    <3>1. A \in SUBSET DOMAIN hop /\ B \in SUBSET DOMAIN hop
      BY <1>4
    <3>2. OnePerTTL(A) /\ OnePerTTL(B)
      BY <1>1, <1>2, <1>3, ChainOnePerTTL
    <3>3. M = Kept(A, B)
      BY <1>2, <1>3
    <3> QED
      BY <2>4, <3>1, <3>2, <3>3, KeptHops
  <2>6. m \in Chain(tree2, j)
    <3>1. M \in SUBSET DOMAIN tree2
      BY <1>4 DEF Merged
    <3>2. \A y \in M : tree2[y].parent = First({z \in M : z[1] < y[1]})
      BY <1>7
    <3>3. m[1] <= j[1]
      BY <2>4, <2>5
    <3> QED
      BY <1>4, <1>8, <3>1, <3>2, <3>3, MergedChain
  <2>7. x[2] => tree2[m].addr # NoAddress
    BY <1>4, <2>3, <2>4, <2>5 DEF Merged
  <2> QED
    BY <2>3, <2>5, <2>6, <2>7 DEF Knows
<1>11. p # NoHop => Knows(tree2, p) \subseteq Knows(tree2, i)
  <2>1. p # NoHop => p \in B
    BY <1>1, <1>3, ChainHops
  <2> QED
    BY <1>1, <1>4, <1>10, <2>1
<1>12. c # NoHop => Knows(tree2, i) \subseteq Knows(tree2, c)
  <2>1. c # NoHop => c \in DOMAIN hop /\ tree2[c].parent = i /\ i # NoHop
    BY <1>1, <1>5 DEF Merged
  <2> QED
    BY <1>9, <2>1
<1>13. ASSUME NEW j \in DOMAIN hop, hop[j].parent # NoHop
       PROVE  Knows(tree2, hop[j].parent) \subseteq Knows(tree2, j)
  <2>1. CASE j = c
    BY <1>1, <1>5, <1>11, <1>12, <1>13, <2>1
  <2>2. CASE j \in M
    <3>1. PICK q : q = hop[j].parent
      OBVIOUS
    <3>2. q \in A \cup B
      BY <1>1, <1>2, <1>3, <1>4, <1>13, <2>2, <3>1, ChainHops
    <3>3. q[1] < j[1]
      BY <1>13, <3>1 DEF TreeOk
    <3>4. q[1] <= j[1]
      BY <1>4, <1>5, <3>2, <3>3
    <3> QED
      BY <1>10, <2>2, <3>1, <3>2, <3>4
  <2>3. CASE j # c /\ j \notin M
    <3>1. tree2[j].parent = hop[j].parent
      BY <2>3 DEF Merged
    <3> QED
      BY <1>9, <1>13, <3>1
  <2> QED
    BY <2>1, <2>2, <2>3
<1>14. KnowsMore(hop, tree2)
  <2>1. DOMAIN hop \subseteq DOMAIN tree2
        /\ \A j \in DOMAIN hop : hop[j].addr # NoAddress => tree2[j].addr # NoAddress
    BY DEF Merged
  <2> QED
    BY <1>8, <1>13, <2>1, Carries
<1> QED
  BY <1>8, <1>11, <1>12, <1>14 DEF IsMerged

\* link_to() links the known hop i into the chain of a host, and the chain of i with it.
LEMMA LinkTo ==
  ASSUME TreeOk(hop), NEW head \in DOMAIN hop \cup {NoHop}, NEW i \in DOMAIN hop,
         hop[i].addr # NoAddress
  PROVE  /\ IsLink(link_to(head, i), head, i[1])
         /\ DOMAIN link_to(head, i).tree = DOMAIN hop
         /\ Knows(link_to(head, i).tree, i) \subseteq
              Knows(link_to(head, i).tree, link_to(head, i).head)
<1>1. i \in HopIds /\ i[1] \in TTLs /\ i # NoHop
  BY HopIdType DEF TreeOk
<1>2. PICK p : p = parent_ttl(hop, head, i[1])
  OBVIOUS
<1>3. PICK c : c = child_ttl(hop, head, i[1])
  OBVIOUS
<1>4. IsSplit(hop, head, i[1], p, c)
  BY <1>1, <1>2, <1>3, SplitIs
<1>5. {p, c} \subseteq DOMAIN hop \cup {NoHop} /\ (p # NoHop => p[1] <= i[1])
      /\ (c # NoHop \/ p # NoHop => head # NoHop)
  BY <1>4, ChainHops DEF IsSplit
<1>6. PICK link : link = link_to(head, i)
  OBVIOUS
<1>7. \A k \in DOMAIN hop : k \in HopIds /\ k # NoHop
  BY HopIdType DEF TreeOk
<1>8. CASE i = p
  <2>1. link = [tree |-> hop, head |-> head]
    BY <1>2, <1>6, <1>8 DEF link_to
  <2>2. KnowsMore(hop, hop)
    BY SameParents
  <2>3. head \in DOMAIN hop /\ i \in Chain(hop, head)
    BY <1>1, <1>4, <1>5, <1>8 DEF IsSplit
  <2>4. Knows(hop, i) \subseteq Knows(hop, head)
    BY <2>3, KnowsUp
  <2>5. <<i[1], FALSE>> \in Knows(hop, i)
    BY KnowsOwn
  <2> QED
    BY <1>6, <2>1, <2>2, <2>3, <2>4, <2>5 DEF IsLink
<1>9. CASE i # p
  <2>1. PICK M : M = Kept(Chain(hop, i), Chain(hop, p))
    OBVIOUS
  <2>2. M \subseteq DOMAIN hop /\ OnePerTTL(M) /\ i \in M /\ First(M) = i
        /\ \A k \in M : k[1] <= i[1]
    BY <1>5, <2>1, KeptFirst
  <2>3. PICK tree : tree = merge_hops(hop[i].tag, i, p).tree
    OBVIOUS
  <2>4. PICK tag : tag = hop[i].tag
    OBVIOUS
  <2>5. tag \in Hosts
    BY <2>4 DEF TreeOk, Hop
  <2> DEFINE G(k) == First({j \in M : j[1] < k[1]})
  <2>6. tree = [k \in DOMAIN hop |-> IF k \in M THEN [hop[k] EXCEPT !.parent = G(k), !.tag = tag]
                                     ELSE hop[k]]
    BY <2>1, <2>3, <2>4 DEF merge_hops
  <2>7. \A k \in DOMAIN hop : G(k) \in HopIds \cup {NoHop}
    <3> SUFFICES ASSUME NEW k \in DOMAIN hop PROVE G(k) \in HopIds \cup {NoHop}
      OBVIOUS
    <3> DEFINE F == {j \in M : j[1] < k[1]}
    <3>1. F \in SUBSET HopIds
      BY <1>7, <2>2
    <3>2. F # {} => First(F) \in F
      <4> HIDE DEF F
      <4> QED
        BY <3>1, FirstLast
    <3>3. F = {} => First(F) = NoHop
      BY DEF First
    <3> QED
      BY <3>1, <3>2, <3>3
  <2> HIDE DEF G
  <2>8. hop \in [DOMAIN hop -> Hop]
    BY DEF TreeOk
  <2>9. tree \in [DOMAIN hop -> Hop]
        /\ \A k \in DOMAIN hop : /\ tree[k].addr = hop[k].addr
                                 /\ tree[k].parent = IF k \in M THEN G(k) ELSE hop[k].parent
    BY <2>5, <2>6, <2>7, <2>8 DEF Hop
  <2>10. merge_hops(hop[i].tag, i, p).head = i
    BY <2>1, <2>2 DEF merge_hops
  <2>11. link = Linked(tree, head, c, i)
    BY <1>2, <1>3, <1>6, <1>9, <2>3, <2>10 DEF link_to
  <2>12. PICK tree2 : tree2 = IF c = NoHop THEN tree ELSE [tree EXCEPT ![c].parent = i]
    OBVIOUS
  <2>13. PICK head2 : head2 = IF c = NoHop THEN i ELSE head
    OBVIOUS
  <2>14. link = [tree |-> tree2, head |-> head2]
    BY <2>11, <2>12, <2>13 DEF Linked
  <2>15. /\ tree2 \in [DOMAIN hop -> Hop]
         /\ \A k \in DOMAIN hop :
              /\ tree2[k].addr = hop[k].addr
              /\ tree2[k].parent = IF k = c THEN i ELSE IF k \in M THEN G(k) ELSE hop[k].parent
    <3>1. CASE c = NoHop
      <4>1. tree2 = tree /\ \A k \in DOMAIN hop : k # c
        BY <1>7, <2>12, <3>1
      <4> QED
        BY <2>9, <4>1
    <3>2. CASE c # NoHop
      <4>1. c \in DOMAIN hop /\ tree2 = [tree EXCEPT ![c].parent = i]
        BY <1>5, <2>12, <3>2
      <4>2. tree2 \in [DOMAIN hop -> Hop]
        BY <1>1, <2>9, <4>1 DEF Hop
      <4>3. tree2[c] = [tree[c] EXCEPT !.parent = i] /\ tree[c] \in Hop
            /\ \A k \in DOMAIN hop : k # c => tree2[k] = tree[k]
        BY <2>9, <4>1
      <4>4. tree2[c].addr = tree[c].addr /\ tree2[c].parent = i
        BY <4>3 DEF Hop
      <4> QED
        BY <2>9, <4>1, <4>2, <4>3, <4>4
    <3> QED
      BY <3>1, <3>2
  <2>16. Merged(tree2, M, c, i)
    BY <2>15 DEF Merged, G
  <2>17. /\ TreeOk(tree2) /\ KnowsMore(hop, tree2)
         /\ c # NoHop => Knows(tree2, i) \subseteq Knows(tree2, c)
         /\ p # NoHop => Knows(tree2, p) \subseteq Knows(tree2, i)
    <3>1. Merges(tree2, head, i, p, c)
      BY <1>4, <2>1, <2>16 DEF Merges
    <3>2. IsMerged(tree2, i, p, c)
      BY <3>1, MergedTree
    <3> QED
      BY <3>2 DEF IsMerged
  <2>18. DOMAIN tree2 = DOMAIN hop /\ <<i[1], FALSE>> \in Knows(tree2, i)
    BY <2>15, <2>17, KnowsOwn
  <2>19. /\ head2 \in DOMAIN tree2 /\ Knows(hop, head) \subseteq Knows(tree2, head2)
         /\ Knows(tree2, i) \subseteq Knows(tree2, head2)
    <3>1. CASE c = NoHop
      <4>1. head2 = i /\ head = p
        BY <1>4, <2>13, <3>1 DEF IsSplit
      <4>2. Knows(hop, head) \subseteq Knows(tree2, i)
        <5>1. CASE p = NoHop
          BY <4>1, <5>1, KnowsOwn
        <5>2. CASE p # NoHop
          BY <1>5, <2>17, <4>1, <5>2 DEF KnowsMore
        <5> QED
          BY <5>1, <5>2
      <4> QED
        BY <2>18, <4>1, <4>2
    <3>2. CASE c # NoHop
      <4>1. head2 = head /\ head \in DOMAIN hop /\ c \in Chain(hop, head)
        BY <1>4, <1>5, <2>13, <3>2 DEF IsSplit
      <4>2. Knows(tree2, c) \subseteq Knows(tree2, head) /\ Knows(hop, head) \subseteq Knows(tree2, head)
        BY <2>17, <4>1 DEF KnowsMore
      <4> QED
        BY <2>17, <2>18, <3>2, <4>1, <4>2
    <3> QED
      BY <3>1, <3>2
  <2> QED
    BY <1>6, <2>14, <2>17, <2>18, <2>19 DEF IsLink
<1> QED
  BY <1>8, <1>9

-------------------------------------------------------------------------------
(* Lists of probes. *)

\* A list without repetitions.
Injective(l) == \A i, j \in DOMAIN l : l[i] = l[j] => i = j

\* The list l has the probes of R, once each.
Lists(l, R) ==
  /\ l \in Seq(TTLs) /\ SeqRange(l) = R /\ Injective(l)
  /\ IsFiniteSet(R) /\ Len(l) = Cardinality(R)

\* A list without repetitions is as long as it has probes.
LEMMA ListIs ==
  ASSUME NEW l \in Seq(TTLs), Injective(l)
  PROVE  Lists(l, SeqRange(l))
<1>1. Len(l) \in Nat /\ DOMAIN l = 1 .. Len(l)
  BY LenProperties
<1>2. PICK R : R = SeqRange(l)
  OBVIOUS
<1>3. l \in Bijection(1 .. Len(l), R)
  <2>1. l = [k \in DOMAIN l |-> l[k]]
    OBVIOUS
  <2>2. \A k \in 1 .. Len(l) : l[k] \in R
    BY <1>1, <1>2 DEF SeqRange
  <2>3. l \in [1 .. Len(l) -> R]
    BY <1>1, <2>1, <2>2
  <2>4. \A x \in R : \E k \in 1 .. Len(l) : l[k] = x
    BY <1>1, <1>2 DEF SeqRange
  <2>5. \A j, k \in 1 .. Len(l) : l[j] = l[k] => j = k
    BY <1>1 DEF Injective
  <2> QED
    BY <2>3, <2>4, <2>5 DEF Bijection, Injection, Surjection, IsInjective
<1>4. ExistsBijection(1 .. Len(l), R)
  BY <1>3 DEF ExistsBijection
<1>5. Cardinality(R) = Len(l)
  BY <1>1, <1>4, FS_CountingElements
<1>6. IsFiniteSet(R)
  BY <1>1, <1>4, FS_NatBijection
<1> QED
  BY <1>2, <1>5, <1>6 DEF Lists

\* A list without the probes of S is a list of the others, in the same order.
LEMMA WithoutProperties ==
  ASSUME NEW T, NEW l \in Seq(T), NEW S
  PROVE  /\ Without(l, S) \in Seq(T)
         /\ SeqRange(Without(l, S)) = SeqRange(l) \ S
         /\ Injective(l) => Injective(Without(l, S))
<1> DEFINE kept == {k \in DOMAIN l : l[k] \notin S}
           upto(k) == {j \in kept : j <= k}
           N == Cardinality(kept)
           nth(n) == CHOOSE k \in kept : Cardinality(upto(k)) = n
           rank == [k \in kept |-> Cardinality(upto(k))]
<1>1. Len(l) \in Nat /\ DOMAIN l = 1 .. Len(l) /\ \A k \in DOMAIN l : l[k] \in T
  BY LenProperties, ElementOfSeq
<1>2. kept \subseteq 1 .. Len(l) /\ kept \subseteq Int
  BY <1>1
<1>3. IsFiniteSet(kept) /\ N \in Nat
  <2>1. IsFiniteSet(1 .. Len(l))
    BY <1>1, FS_Interval
  <2>2. IsFiniteSet(kept)
    <3> HIDE DEF kept
    <3> QED
      BY <1>2, <2>1, FS_Subset
  <2> QED
    BY <2>2, FS_CardinalityType
<1>4. \A k \in kept : upto(k) \in SUBSET kept /\ k \in upto(k)
  BY <1>2
<1>5. \A k \in kept : IsFiniteSet(upto(k)) /\ Cardinality(upto(k)) \in 1 .. N
  <2> SUFFICES ASSUME NEW k \in kept
               PROVE  IsFiniteSet(upto(k)) /\ Cardinality(upto(k)) \in 1 .. N
    OBVIOUS
  <2>1. IsFiniteSet(upto(k)) /\ Cardinality(upto(k)) <= N
    BY <1>3, <1>4, FS_Subset
  <2>2. Cardinality(upto(k)) \in Nat /\ Cardinality(upto(k)) # 0
    BY <1>4, <2>1, FS_CardinalityType, FS_EmptySet
  <2> QED
    BY <1>3, <2>1, <2>2
<1>6. ASSUME NEW j \in kept, NEW k \in kept, Cardinality(upto(j)) = Cardinality(upto(k))
      PROVE  j = k
  <2>1. CASE j <= k
    <3>1. upto(j) \in SUBSET upto(k)
      BY <1>2, <2>1
    <3>2. upto(j) = upto(k)
      BY <1>5, <1>6, <3>1, FS_Subset
    <3> QED
      BY <1>2, <1>4, <2>1, <3>2
  <2>2. CASE k <= j
    <3>1. upto(k) \in SUBSET upto(j)
      BY <1>2, <2>2
    <3>2. upto(j) = upto(k)
      BY <1>5, <1>6, <3>1, FS_Subset
    <3> QED
      BY <1>2, <1>4, <2>2, <3>2
  <2> QED
    BY <1>2, <2>1, <2>2
<1>7. \A n \in 1 .. N : \E k \in kept : Cardinality(upto(k)) = n
  <2>1. rank \in Injection(kept, 1 .. N)
    BY <1>5, <1>6 DEF Injection, IsInjective
  <2>2. IsFiniteSet(1 .. N) /\ Cardinality(1 .. N) = N
    <3> HIDE DEF N
    <3> QED
      BY <1>3, FS_Interval
  <2>3. rank \in Surjection(kept, 1 .. N)
    <3> HIDE DEF rank
    <3> QED
      BY <1>3, <2>1, <2>2, FS_Injection
  <2> QED
    BY <2>3 DEF Surjection
<1>8. \A n \in 1 .. N : nth(n) \in kept /\ Cardinality(upto(nth(n))) = n
  <2> SUFFICES ASSUME NEW n \in 1 .. N
               PROVE  nth(n) \in kept /\ Cardinality(upto(nth(n))) = n
    OBVIOUS
  <2>1. \E k \in kept : Cardinality(upto(k)) = n
    BY <1>7
  <2> QED
    BY <2>1, Zenon
<1>9. \A k \in kept : Cardinality(upto(k)) \in 1 .. N /\ nth(Cardinality(upto(k))) = k
  BY <1>5, <1>6, <1>8
<1>10. Without(l, S) = [n \in 1 .. N |-> l[nth(n)]]
  BY DEF Without
<1> DEFINE W == Without(l, S)
<1>11. \A n \in 1 .. N : W[n] = l[nth(n)]
  BY <1>10
<1>12. DOMAIN W = 1 .. N
  BY <1>10
<1>13. W \in Seq(T)
  <2>1. \A n \in 1 .. N : l[nth(n)] \in T
    BY <1>1, <1>8
  <2>2. W \in [1 .. N -> T]
    BY <1>10, <2>1
  <2> HIDE DEF W, N
  <2> QED
    BY <1>3, <2>2, SeqDef
<1> HIDE DEF W, N, nth, upto
<1>14. SeqRange(W) = SeqRange(l) \ S
  BY <1>8, <1>9, <1>11, <1>12 DEF SeqRange
<1>15. ASSUME Injective(l) PROVE Injective(W)
  <2> SUFFICES ASSUME NEW m \in 1 .. N, NEW n \in 1 .. N, W[m] = W[n] PROVE m = n
    BY <1>12 DEF Injective
  <2>1. l[nth(m)] = l[nth(n)] /\ nth(m) \in DOMAIN l /\ nth(n) \in DOMAIN l
    BY <1>8, <1>11
  <2>2. nth(m) = nth(n)
    BY <1>15, <2>1 DEF Injective
  <2> QED
    BY <1>8, <2>2
<1> QED
  BY <1>13, <1>14, <1>15 DEF W

\* cancel_probe() takes the probes of S out of a list.
LEMMA ListWithout ==
  ASSUME NEW l, NEW R, Lists(l, R), NEW S
  PROVE  /\ Lists(Without(l, S), R \ S)
         /\ Len(Without(l, S)) = Len(l) - Cardinality(S \cap R)
<1>1. PICK w : w = Without(l, S)
  OBVIOUS
<1>2. w \in Seq(TTLs) /\ SeqRange(w) = R \ S /\ Injective(w)
  BY <1>1, WithoutProperties DEF Lists
<1>3. Lists(w, R \ S)
  BY <1>2, ListIs
<1>4. Cardinality(R \ S) = Cardinality(R) - Cardinality(R \cap S) /\ R \cap S = S \cap R
  BY FS_Difference DEF Lists
<1> QED
  BY <1>1, <1>3, <1>4 DEF Lists

\* A probe at the end of a list.
LEMMA ListAppend ==
  ASSUME NEW l, NEW R, Lists(l, R), NEW x \in TTLs, x \notin R
  PROVE  Lists(Append(l, x), R \cup {x}) /\ Len(Append(l, x)) = Len(l) + 1
<1>1. l \in Seq(TTLs) /\ Len(l) \in Nat /\ DOMAIN l = 1 .. Len(l)
  BY LenProperties DEF Lists
<1>2. PICK m : m = Append(l, x)
  OBVIOUS
<1>3. /\ m \in Seq(TTLs) /\ Len(m) = Len(l) + 1 /\ DOMAIN m = 1 .. Len(l) + 1
      /\ m[Len(l) + 1] = x /\ \A k \in 1 .. Len(l) : m[k] = l[k]
  BY <1>1, <1>2, AppendProperties, LenProperties
<1>4. PICK n \in Nat : n = Len(l)
  BY <1>1
<1>5. \A k \in 1 .. n + 1 : k \in 1 .. n \/ k = n + 1
  BY <1>4
<1>6. SeqRange(m) = R \cup {x}
  <2>1. SeqRange(l) = R
    BY DEF Lists
  <2>2. \A k \in 1 .. n : k \in 1 .. n + 1
    BY <1>4
  <2>3. n + 1 \in 1 .. n + 1
    BY <1>4
  <2> QED
    BY <1>1, <1>3, <1>4, <1>5, <2>1, <2>2, <2>3 DEF SeqRange
<1>7. Injective(m)
  <2>1. \A k \in 1 .. n : m[k] \in R
    BY <1>1, <1>3, <1>4 DEF Lists, SeqRange
  <2>2. \A j, k \in 1 .. n : m[j] = m[k] => j = k
    BY <1>1, <1>3, <1>4 DEF Lists, Injective
  <2> QED
    BY <1>3, <1>4, <1>5, <2>1, <2>2 DEF Injective
<1> QED
  BY <1>2, <1>3, <1>6, <1>7, ListIs

\* A probe in front of a list.
LEMMA ListFront ==
  ASSUME NEW l, NEW R, Lists(l, R), NEW x \in TTLs, x \notin R
  PROVE  Lists(<<x>> \o l, R \cup {x})
<1>1. l \in Seq(TTLs) /\ Len(l) \in Nat /\ DOMAIN l = 1 .. Len(l)
  BY LenProperties DEF Lists
<1>2. PICK n \in Nat : n = Len(l)
  BY <1>1
<1>3. PICK m : m = <<x>> \o l
  OBVIOUS
<1>4. /\ m \in Seq(TTLs) /\ DOMAIN m = 1 .. n + 1
      /\ m[1] = x /\ \A k \in 2 .. n + 1 : m[k] = l[k - 1]
  <2>1. <<x>> \in Seq(TTLs)
    OBVIOUS
  <2>2. PICK s \in Seq(TTLs) : s = <<x>>
    BY <2>1, Zenon
  <2>3. Len(s) = 1 /\ s[1] = x
    BY <2>2
  <2>4. m = s \o l
    BY <1>3, <2>2
  <2>5. /\ m \in Seq(TTLs) /\ Len(m) = 1 + n
        /\ \A i \in 1 .. 1 + n : m[i] = IF i <= 1 THEN s[i] ELSE l[i - 1]
    <3>1. /\ s \o l \in Seq(TTLs) /\ Len(s \o l) = Len(s) + Len(l)
          /\ \A i \in 1 .. Len(s) + Len(l) :
               (s \o l)[i] = IF i <= Len(s) THEN s[i] ELSE l[i - Len(s)]
      BY <1>1, <2>2, ConcatProperties
    <3> QED
      BY <1>2, <2>3, <2>4, <3>1
  <2>6. DOMAIN m = 1 .. n + 1
    BY <1>2, <2>5, LenProperties
  <2> QED
    BY <1>2, <2>3, <2>5, <2>6
<1>5. \A k \in 1 .. n + 1 : k = 1 \/ (k \in 2 .. n + 1 /\ k - 1 \in 1 .. n)
  BY <1>2
<1>6. \A k \in 1 .. n : k + 1 \in 2 .. n + 1 /\ k + 1 \in 1 .. n + 1 /\ m[k + 1] = l[k]
  <2> SUFFICES ASSUME NEW k \in 1 .. n
               PROVE  k + 1 \in 2 .. n + 1 /\ k + 1 \in 1 .. n + 1 /\ m[k + 1] = l[k]
    OBVIOUS
  <2>1. k + 1 \in 2 .. n + 1 /\ k + 1 \in 1 .. n + 1 /\ (k + 1) - 1 = k
    BY <1>2
  <2> QED
    BY <1>4, <2>1
<1>7. SeqRange(m) = R \cup {x}
  <2>1. SeqRange(l) = R /\ 1 \in 1 .. n + 1
    BY <1>2 DEF Lists
  <2>2. \A y \in SeqRange(m) : y \in R \cup {x}
    BY <1>1, <1>2, <1>4, <1>5, <2>1 DEF SeqRange
  <2>3. \A y \in R \cup {x} : y \in SeqRange(m)
    BY <1>1, <1>2, <1>4, <1>6, <2>1 DEF SeqRange
  <2> QED
    BY <2>2, <2>3
<1>8. Injective(m)
  <2>1. \A k \in 2 .. n + 1 : m[k] \in R
    BY <1>1, <1>2, <1>4, <1>5 DEF Lists, SeqRange
  <2>2. ASSUME NEW j \in 2 .. n + 1, NEW k \in 2 .. n + 1, m[j] = m[k] PROVE j = k
    <3>1. j - 1 \in DOMAIN l /\ k - 1 \in DOMAIN l /\ l[j - 1] = l[k - 1]
      BY <1>1, <1>2, <1>4, <2>2
    <3>2. j - 1 = k - 1
      BY <3>1 DEF Lists, Injective
    <3> QED
      BY <3>2
  <2> QED
    BY <1>4, <1>5, <2>1, <2>2 DEF Injective
<1> QED
  BY <1>3, <1>4, <1>7, <1>8, ListIs

\* A list without its front.
LEMMA ListTail ==
  ASSUME NEW l, NEW R, Lists(l, R), l # <<>>
  PROVE  /\ Lists(Tail(l), R \ {Head(l)}) /\ Len(Tail(l)) = Len(l) - 1
         /\ Head(l) \in R /\ Head(l) \in TTLs
<1>1. l \in Seq(TTLs) /\ Len(l) \in Nat /\ DOMAIN l = 1 .. Len(l)
  BY LenProperties DEF Lists
<1>2. PICK n \in Nat : n = Len(l)
  BY <1>1
<1>3. n # 0
  BY <1>1, <1>2, EmptySeq
<1>4. PICK m : m = Tail(l)
  OBVIOUS
<1>5. PICK x : x = Head(l)
  OBVIOUS
<1>6. /\ m \in Seq(TTLs) /\ DOMAIN m = 1 .. n - 1 /\ Len(m) = n - 1 /\ x = l[1]
      /\ \A k \in 1 .. n - 1 : m[k] = l[k + 1]
  <2>1. /\ m \in Seq(TTLs) /\ Len(m) = n - 1 /\ x = l[1]
        /\ \A k \in 1 .. n - 1 : m[k] = l[k + 1]
    BY <1>1, <1>2, <1>4, <1>5, HeadTailProperties
  <2>2. DOMAIN m = 1 .. n - 1
    BY <1>2, <1>3, <2>1, LenProperties
  <2> QED
    BY <2>1, <2>2
<1>7. 1 \in 1 .. n /\ \A k \in 1 .. n - 1 : k + 1 \in 1 .. n /\ k + 1 # 1
  BY <1>2, <1>3
<1>8. \A k \in 1 .. n : k = 1 \/ (k - 1 \in 1 .. n - 1 /\ m[k - 1] = l[k])
  <2> SUFFICES ASSUME NEW k \in 1 .. n, k # 1 PROVE k - 1 \in 1 .. n - 1 /\ m[k - 1] = l[k]
    OBVIOUS
  <2>1. k - 1 \in 1 .. n - 1 /\ (k - 1) + 1 = k
    BY <1>2
  <2> QED
    BY <1>6, <2>1
<1>9. SeqRange(m) = R \ {x} /\ x \in R
  <2>1. SeqRange(l) = R
    BY DEF Lists
  <2>2. \A k \in 1 .. n - 1 : l[k + 1] # l[1]
    BY <1>1, <1>2, <1>7 DEF Lists, Injective
  <2>3. \A y \in SeqRange(m) : y \in R /\ y # x
    BY <1>1, <1>2, <1>6, <1>7, <2>1, <2>2 DEF SeqRange
  <2>4. \A y \in R \ {x} : y \in SeqRange(m)
    BY <1>1, <1>2, <1>6, <1>8, <2>1, SMTT(30) DEF SeqRange
  <2>5. x \in R
    BY <1>1, <1>2, <1>6, <1>7, <2>1 DEF SeqRange
  <2> QED
    BY <2>3, <2>4, <2>5
<1>10. Injective(m)
  <2> SUFFICES ASSUME NEW j \in 1 .. n - 1, NEW k \in 1 .. n - 1, m[j] = m[k] PROVE j = k
    BY <1>6 DEF Injective
  <2>1. j + 1 \in DOMAIN l /\ k + 1 \in DOMAIN l /\ l[j + 1] = l[k + 1]
    BY <1>1, <1>2, <1>6, <1>7
  <2>2. j + 1 = k + 1
    BY <2>1 DEF Lists, Injective
  <2> QED
    BY <1>2, <2>2
<1>11. x \in TTLs
  BY <1>1, <1>2, <1>6, <1>7, ElementOfSeq
<1> QED
  BY <1>2, <1>4, <1>5, <1>6, <1>9, <1>10, <1>11, ListIs

\* Two lists with no probe in common, one after the other.
LEMMA ListConcat ==
  ASSUME NEW l, NEW R, Lists(l, R), NEW m, NEW Q, Lists(m, Q), R \cap Q = {}
  PROVE  /\ SeqRange(l \o m) = R \cup Q
         /\ Cardinality(SeqRange(l \o m)) = Len(l \o m)
<1>1. l \in Seq(TTLs) /\ m \in Seq(TTLs)
  BY DEF Lists
<1>2. PICK a \in Nat : a = Len(l) /\ DOMAIN l = 1 .. a
  BY <1>1, LenProperties
<1>3. PICK b \in Nat : b = Len(m) /\ DOMAIN m = 1 .. b
  BY <1>1, LenProperties
<1>4. PICK c : c = l \o m
  OBVIOUS
<1>5. /\ c \in Seq(TTLs) /\ Len(c) = a + b
      /\ \A i \in 1 .. a + b : c[i] = IF i <= a THEN l[i] ELSE m[i - a]
  <2>1. /\ l \o m \in Seq(TTLs) /\ Len(l \o m) = Len(l) + Len(m)
        /\ \A i \in 1 .. Len(l) + Len(m) : (l \o m)[i] = IF i <= Len(l) THEN l[i] ELSE m[i - Len(l)]
    BY <1>1, ConcatProperties
  <2> QED
    BY <1>2, <1>3, <1>4, <2>1
<1>6. DOMAIN c = 1 .. a + b
  BY <1>5, LenProperties
<1>7. \A k \in 1 .. a + b : \/ k \in 1 .. a /\ c[k] = l[k]
                            \/ k - a \in 1 .. b /\ c[k] = m[k - a]
  BY <1>2, <1>3, <1>5
<1>8. \A k \in 1 .. a : k \in 1 .. a + b /\ c[k] = l[k]
  BY <1>2, <1>3, <1>5
<1>9. \A k \in 1 .. b : k + a \in 1 .. a + b /\ c[k + a] = m[k]
  <2> SUFFICES ASSUME NEW k \in 1 .. b PROVE k + a \in 1 .. a + b /\ c[k + a] = m[k]
    OBVIOUS
  <2>1. k + a \in 1 .. a + b /\ ~(k + a <= a) /\ (k + a) - a = k
    BY <1>2, <1>3
  <2> QED
    BY <1>5, <2>1
<1>10. SeqRange(c) = R \cup Q
  <2>1. SeqRange(l) = R /\ SeqRange(m) = Q
    BY DEF Lists
  <2>2. \A y \in SeqRange(c) : y \in R \cup Q
    BY <1>2, <1>3, <1>6, <1>7, <2>1 DEF SeqRange
  <2>3. \A y \in R \cup Q : y \in SeqRange(c)
    BY <1>2, <1>3, <1>6, <1>8, <1>9, <2>1 DEF SeqRange
  <2> QED
    BY <2>2, <2>3
<1>11. Cardinality(R \cup Q) = Cardinality(R) + Cardinality(Q) - Cardinality(R \cap Q)
  BY FS_Union DEF Lists
<1>12. Cardinality(R) = a /\ Cardinality(Q) = b /\ Cardinality(R \cap Q) = 0
  BY <1>2, <1>3, FS_EmptySet DEF Lists
<1> QED
  BY <1>2, <1>3, <1>4, <1>5, <1>10, <1>11, <1>12

-------------------------------------------------------------------------------
(* The number of active probes. *)

\* The number of active probes of the hosts hs, counted up host by host.
Total(hs) ==
  LET upto[h \in 0 .. NumHosts] ==
        IF h = 0 THEN 0 ELSE upto[h - 1] + Len(hs[h].active)
  IN upto[NumHosts]

IsSum(f, hs) ==
  f = [h \in 0 .. NumHosts |-> IF h = 0 THEN 0 ELSE f[h - 1] + Len(hs[h].active)]
SumsTo(f, hs, n) ==
  /\ f \in [0 .. NumHosts -> Nat] /\ n = f[NumHosts] /\ f[0] = 0
  /\ \A h \in 1 .. NumHosts : f[h] = f[h - 1] + Len(hs[h].active)

\* There is such a sum.
LEMMA TotalIs ==
  ASSUME NEW hs, \A h \in Hosts : Len(hs[h].active) \in Nat
  PROVE  \E f : SumsTo(f, hs, Total(hs))
<1>1. NumHosts \in Nat /\ Hosts = 1 .. NumHosts
  BY ConstantsAssumption DEF Hosts
<1> DEFINE N == NumHosts
           W(h) == Len(hs[h].active)
           G == [a \in (1 .. N) \X Nat |-> a[2] + W(a[1])]
<1>2. \A h \in 1 .. N : W(h) \in Nat
  BY <1>1
<1> HIDE DEF W
<1>3. G \in [(1 .. N) \X Nat -> Nat]
  BY <1>2
<1>4. PICK f : IsRecursion(f, N, Nat, 0, G)
  <2>1. 0 \in Nat /\ N \in Nat
    BY <1>1
  <2> HIDE DEF N, G
  <2> QED
    BY <1>3, <2>1, RecursionExists, Zenon
<1>5. f \in [0 .. N -> Nat] /\ f[0] = 0 /\ \A k \in 1 .. N : f[k] = G[<<k, f[k - 1]>>]
  BY <1>4 DEF IsRecursion
<1>6. \A k \in 1 .. N : k \in 0 .. N /\ k - 1 \in 0 .. N /\ f[k] = f[k - 1] + W(k)
  <2> SUFFICES ASSUME NEW k \in 1 .. N
               PROVE  k \in 0 .. N /\ k - 1 \in 0 .. N /\ f[k] = f[k - 1] + W(k)
    OBVIOUS
  <2>1. k \in 0 .. N /\ k - 1 \in 0 .. N
    BY <1>1
  <2>2. f[k - 1] \in Nat
    BY <1>5, <2>1
  <2> QED
    BY <1>5, <2>1, <2>2
<1>7. IsSum(f, hs)
  <2> DEFINE E(h) == IF h = 0 THEN 0 ELSE f[h - 1] + Len(hs[h].active)
  <2>1. \A h \in 0 .. N : h # 0 => h \in 1 .. N
    BY <1>1
  <2>2. \A h \in 0 .. N : f[h] = E(h)
    BY <1>5, <1>6, <2>1 DEF W
  <2>3. f = [h \in 0 .. N |-> f[h]]
    BY <1>5
  <2>4. f = [h \in 0 .. N |-> E(h)]
    <3> HIDE DEF E
    <3> QED
      BY <2>2, <2>3
  <2> QED
    BY <2>4 DEF IsSum
<1> DEFINE g == CHOOSE x : IsSum(x, hs)
<1>8. IsSum(g, hs)
  BY <1>7
<1>9. Total(hs) = g[NumHosts]
  BY DEF Total, IsSum
<1> HIDE DEF g
<1>10. /\ DOMAIN g = 0 .. N /\ g[0] = 0 /\ g = [h \in 0 .. N |-> g[h]]
       /\ \A h \in 1 .. N : g[h] = g[h - 1] + W(h)
  <2> DEFINE E(h) == IF h = 0 THEN 0 ELSE g[h - 1] + Len(hs[h].active)
  <2>1. g = [h \in 0 .. N |-> E(h)]
    BY <1>8 DEF IsSum
  <2>2. E(0) = 0 /\ 0 \in 0 .. N
    BY <1>1
  <2>3. \A h \in 1 .. N : h \in 0 .. N /\ E(h) = g[h - 1] + W(h)
    BY <1>1 DEF W
  <2> HIDE DEF E
  <2> QED
    BY <2>1, <2>2, <2>3
<1>11. \A h \in 0 .. N : g[h] \in Nat
  <2> DEFINE S == {h \in 0 .. N : g[h] \in Nat}
  <2>1. 0 \in S
    BY <1>1, <1>10
  <2>2. ASSUME NEW h \in 1 .. N, h - 1 \in S PROVE h \in S
    <3>1. g[h - 1] \in Nat /\ W(h) \in Nat /\ g[h] = g[h - 1] + W(h) /\ h \in 0 .. N
      BY <1>2, <1>6, <1>10, <2>2
    <3> QED
      BY <3>1
  <2>3. \A h \in 0 .. N : h \in S
    <3> HIDE DEF S
    <3> QED
      BY <1>1, <2>1, <2>2, UpTo
  <2> QED
    BY <2>3
<1>12. g \in [0 .. N -> Nat]
  BY <1>10, <1>11
<1>13. SumsTo(g, hs, Total(hs))
  BY <1>9, <1>10, <1>12 DEF SumsTo, W
<1> QED
  BY <1>13

\* A change of one host changes the total by as much.
LEMMA TotalChange ==
  ASSUME NEW hs, NEW hs2, NEW h \in Hosts,
         \A g \in Hosts : Len(hs[g].active) \in Nat /\ Len(hs2[g].active) \in Nat,
         \A g \in Hosts : g # h => Len(hs2[g].active) = Len(hs[g].active)
  PROVE  /\ Total(hs) \in Nat /\ Total(hs2) \in Nat
         /\ Total(hs2) = Total(hs) - Len(hs[h].active) + Len(hs2[h].active)
<1>1. NumHosts \in Nat /\ Hosts = 1 .. NumHosts
  BY ConstantsAssumption DEF Hosts
<1>2. PICK f : SumsTo(f, hs, Total(hs))
  BY TotalIs
<1>3. PICK g : SumsTo(g, hs2, Total(hs2))
  BY TotalIs
<1>4. PICK a \in Nat : a = Len(hs[h].active)
  OBVIOUS
<1>5. PICK b \in Nat : b = Len(hs2[h].active)
  OBVIOUS
<1> DEFINE N == NumHosts
           P(k) == g[k] = f[k] + (IF k >= h THEN b - a ELSE 0)
           S == {k \in 0 .. N : P(k)}
<1>6. \A k \in 0 .. N : f[k] \in Nat /\ g[k] \in Nat
  BY <1>2, <1>3 DEF SumsTo
<1>7. 0 \in S
  BY <1>1, <1>2, <1>3 DEF SumsTo
<1>8. ASSUME NEW k \in 1 .. N, k - 1 \in S PROVE k \in S
  <2>1. k \in 0 .. N /\ k - 1 \in 0 .. N /\ k \in Hosts
    BY <1>1
  <2>2. PICK x \in Nat : x = Len(hs[k].active)
    BY <2>1
  <2>3. PICK y \in Nat : y = Len(hs2[k].active)
    BY <2>1
  <2>4. f[k] = f[k - 1] + x /\ g[k] = g[k - 1] + y
    BY <1>2, <1>3, <2>2, <2>3 DEF SumsTo
  <2>5. f[k - 1] \in Nat /\ g[k - 1] \in Nat /\ P(k - 1)
    BY <1>6, <1>8, <2>1
  <2>6. k # h => x = y
    BY <2>1, <2>2, <2>3
  <2>7. k = h => x = a /\ y = b
    BY <1>4, <1>5, <2>2, <2>3
  <2>8. k \in Int /\ h \in Int
    BY <1>1
  <2>9. PICK u \in Nat : u = f[k - 1]
    BY <2>5
  <2>10. PICK v \in Nat : v = g[k - 1]
    BY <2>5
  <2>11. v = u + (IF k - 1 >= h THEN b - a ELSE 0)
    BY <2>5, <2>9, <2>10
  <2>12. v + y = u + x + (IF k >= h THEN b - a ELSE 0)
    <3>1. CASE k < h
      BY <2>6, <2>8, <2>11, <3>1
    <3>2. CASE k = h
      BY <2>7, <2>8, <2>11, <3>2
    <3>3. CASE k > h
      BY <2>6, <2>8, <2>11, <3>3
    <3> QED
      BY <2>8, <3>1, <3>2, <3>3
  <2>13. P(k)
    BY <2>4, <2>9, <2>10, <2>12
  <2> QED
    BY <2>1, <2>13
<1>9. \A k \in 0 .. N : k \in S
  <2> HIDE DEF S
  <2> QED
    BY <1>1, <1>7, <1>8, UpTo
<1>10. P(N) /\ N \in 0 .. N /\ N >= h
  BY <1>1, <1>9
<1>11. Total(hs) = f[N] /\ Total(hs2) = g[N]
  BY <1>2, <1>3 DEF SumsTo
<1> QED
  <2>1. PICK u \in Nat : u = f[N]
    BY <1>6, <1>10
  <2>2. PICK v \in Nat : v = g[N]
    BY <1>6, <1>10
  <2>3. v = u + (b - a)
    BY <1>10, <2>1, <2>2
  <2>4. v = u - a + b
    BY <2>3
  <2> QED
    BY <1>4, <1>5, <1>11, <2>1, <2>2, <2>4

\* The same number of active probes of each host gives the same total.
LEMMA TotalSame ==
  ASSUME NEW hs, NEW hs2,
         \A g \in Hosts : Len(hs[g].active) \in Nat /\ Len(hs2[g].active) = Len(hs[g].active)
  PROVE  Total(hs) \in Nat /\ Total(hs2) = Total(hs)
<1>1. 1 \in Hosts
  BY ConstantsAssumption DEF Hosts
<1>2. PICK a \in Nat : a = Len(hs[1].active) /\ a = Len(hs2[1].active)
  BY <1>1
<1>3. \A g \in Hosts : Len(hs[g].active) \in Nat /\ Len(hs2[g].active) \in Nat
  OBVIOUS
<1>4. /\ Total(hs) \in Nat /\ Total(hs2) \in Nat
      /\ Total(hs2) = Total(hs) - Len(hs[1].active) + Len(hs2[1].active)
  BY <1>1, <1>3, TotalChange
<1>5. PICK u \in Nat : u = Total(hs)
  BY <1>4
<1>6. Total(hs2) = u - a + a
  BY <1>2, <1>4, <1>5
<1> QED
  BY <1>5, <1>6

\* Where no host has active probes the total is 0.
LEMMA TotalZero ==
  ASSUME NEW hs, \A g \in Hosts : Len(hs[g].active) = 0
  PROVE  Total(hs) = 0
<1>1. NumHosts \in Nat /\ Hosts = 1 .. NumHosts
  BY ConstantsAssumption DEF Hosts
<1>2. PICK f : SumsTo(f, hs, Total(hs))
  BY TotalIs, SMTT(30)
<1> DEFINE S == {k \in 0 .. NumHosts : f[k] = 0}
<1>3. 0 \in S
  BY <1>1, <1>2 DEF SumsTo
<1>4. ASSUME NEW k \in 1 .. NumHosts, k - 1 \in S PROVE k \in S
  <2>1. f[k] = f[k - 1] + Len(hs[k].active)
    BY <1>2 DEF SumsTo
  <2>2. f[k - 1] = 0 /\ Len(hs[k].active) = 0
    BY <1>1, <1>4
  <2> QED
    BY <1>1, <2>1, <2>2
<1>5. \A k \in 0 .. NumHosts : k \in S
  <2> HIDE DEF S
  <2> QED
    BY <1>1, <1>3, <1>4, UpTo
<1> QED
  BY <1>1, <1>2, <1>5 DEF SumsTo

-------------------------------------------------------------------------------
(* One host. *)

\* The lists of a host agree: a probe is on one of them at most, and unanswered; one
\* that waits can be sent again.
ListsOk(H) ==
  /\ H.unanswered \subseteq H.sent_ttls
  /\ Injective(H.active) /\ Injective(H.pending)
  /\ SeqRange(H.active) \cap SeqRange(H.pending) = {}
  /\ SeqRange(H.active) \cup SeqRange(H.pending) \subseteq H.unanswered
  /\ \A t \in SeqRange(H.pending) : H.resends[t] < MaxResends
  /\ H.state = "COUNTING_DOWN" => H.current_ttl <= MaxTTL

HostOk(H) == H \in HostState /\ ListsOk(H)

\* A host whose chain knows K has lost no TTL: one that was sent is on a list, has a hop
\* or is beyond the target.
Own(H, K) ==
  /\ \A t \in H.sent_ttls : \/ t \in SeqRange(H.active) \cup SeqRange(H.pending)
                            \/ <<t, FALSE>> \in K
                            \/ 0 < H.reached_target /\ H.reached_target < t
  /\ H.reached_target > 0 => <<H.reached_target, FALSE>> \in K
  /\ H.state = "COUNTING_UP" => \A t \in TTLs : t < H.current_ttl => t \in H.sent_ttls

\* N differs from H in the state and the current TTL at most.
SameProbes(H, N) ==
  /\ N.sent_ttls = H.sent_ttls /\ N.reached_target = H.reached_target
  /\ N.unanswered = H.unanswered /\ N.active = H.active /\ N.pending = H.pending
  /\ N.resends = H.resends /\ N.hops = H.hops

\* next_ttl() finds a TTL that was not sent, and counts up only when none is left below.
LEMMA NextTtl ==
  ASSUME NEW H, HostOk(H), NEW K
  PROVE  /\ HostOk(next_ttl(H)) /\ SameProbes(H, next_ttl(H))
         /\ next_ttl(H).current_ttl \notin H.sent_ttls
         /\ Own(H, K) => Own(next_ttl(H), K)
<1>1. MaxTTL \in Nat /\ MaxTTL >= 1
  BY ConstantsAssumption
<1>2. H \in HostState /\ H.sent_ttls \in SUBSET TTLs /\ H.state \in {"COUNTING_DOWN", "COUNTING_UP"}
  BY DEF HostOk, HostState
<1>3. PICK cur \in 1 .. MaxTTL + 1 : cur = H.current_ttl
  BY DEF HostOk, HostState
<1>4. PICK sent \in SUBSET TTLs : sent = H.sent_ttls
  BY <1>2
<1> DEFINE D == {t \in 1 .. cur : t \notin sent} \cup {1}
<1>5. PICK down : down = IF H.state = "COUNTING_DOWN" THEN Greatest(D) ELSE cur
  OBVIOUS
<1>6. Greatest(D) \in D
  <2>1. D \in SUBSET Nat /\ D # {} /\ cur \in Nat /\ \A t \in D : t <= cur
    BY <1>1
  <2> HIDE DEF D
  <2> QED
    BY <2>1, GreatestIs
<1>7. down \in 1 .. cur /\ (H.state = "COUNTING_DOWN" /\ down # 1 => down \notin sent)
  BY <1>1, <1>5, <1>6
<1>8. PICK state : state = IF down = 1 THEN "COUNTING_UP" ELSE H.state
  OBVIOUS
<1> DEFINE U == {t \in down .. MaxTTL + 1 : t \notin sent}
<1>9. PICK up : up = IF state = "COUNTING_UP" THEN Least(U) ELSE down
  OBVIOUS
<1>10. Least(U) \in U /\ \A t \in U : Least(U) <= t
  <2>1. MaxTTL + 1 \notin TTLs
    BY <1>1 DEF TTLs
  <2>2. MaxTTL + 1 \in down .. MaxTTL + 1
    BY <1>1, <1>7
  <2>3. MaxTTL + 1 \in U
    BY <2>1, <2>2
  <2>4. U \in SUBSET Nat /\ U # {}
    BY <1>1, <1>7, <2>3
  <2> HIDE DEF U
  <2> QED
    BY <2>4, LeastIs
<1>11. state \in {"COUNTING_DOWN", "COUNTING_UP"} /\ up \in 1 .. MaxTTL + 1 /\ up \notin sent
  <2>1. CASE state = "COUNTING_UP"
    BY <1>1, <1>7, <1>9, <1>10, <2>1
  <2>2. CASE state # "COUNTING_UP"
    <3>1. state = "COUNTING_DOWN" /\ H.state = "COUNTING_DOWN" /\ down # 1 /\ up = down
      BY <1>2, <1>8, <1>9, <2>2
    <3> QED
      BY <1>1, <1>7, <3>1
  <2> QED
    BY <2>1, <2>2
<1>12. state = "COUNTING_DOWN" => up <= MaxTTL
  <2> SUFFICES ASSUME state = "COUNTING_DOWN" PROVE up <= MaxTTL
    OBVIOUS
  <2>1. H.state = "COUNTING_DOWN" /\ up = down
    BY <1>8, <1>9
  <2>2. cur <= MaxTTL
    BY <1>3, <2>1 DEF HostOk, ListsOk
  <2> QED
    BY <1>1, <1>7, <2>1, <2>2
<1>13. PICK N : N = [H EXCEPT !.state = state, !.current_ttl = up]
  OBVIOUS
<1>14. N = next_ttl(H)
  BY <1>3, <1>4, <1>5, <1>8, <1>9, <1>13 DEF next_ttl
<1>15. N \in HostState /\ N.state = state /\ N.current_ttl = up /\ SameProbes(H, N)
  BY <1>2, <1>11, <1>13 DEF HostState, SameProbes
<1>16. HostOk(N)
  BY <1>12, <1>15 DEF HostOk, ListsOk, SameProbes
<1>17. ASSUME Own(H, K) PROVE Own(N, K)
  <2>1. ASSUME N.state = "COUNTING_UP", NEW t \in TTLs, t < up PROVE t \in sent
    <3>1. t \in Nat /\ t >= 1 /\ t <= MaxTTL
      BY <1>1 DEF TTLs
    <3>2. up = Least(U)
      BY <1>9, <1>15, <2>1
    <3>3. CASE t >= down
      <4>1. t \in down .. MaxTTL + 1 /\ ~(up <= t)
        BY <1>1, <1>7, <1>11, <2>1, <3>1, <3>3
      <4> QED
        BY <1>10, <3>2, <4>1
    <3>4. CASE t < down
      <4>1. H.state = "COUNTING_UP" /\ down = cur
        BY <1>1, <1>2, <1>5, <1>7, <1>8, <1>15, <2>1, <3>1, <3>4
      <4> QED
        BY <1>3, <1>4, <1>17, <3>4, <4>1 DEF Own
    <3> QED
      BY <1>7, <3>1, <3>3, <3>4
  <2> QED
    BY <1>4, <1>15, <1>17, <2>1 DEF Own, SameProbes
<1> QED
  BY <1>4, <1>11, <1>14, <1>15, <1>16, <1>17

\* The lists of a host.
LEMMA HostLists ==
  ASSUME NEW H, HostOk(H)
  PROVE  /\ Lists(H.active, SeqRange(H.active)) /\ Lists(H.pending, SeqRange(H.pending))
         /\ Len(H.active) \in Nat
<1>1. H.active \in Seq(TTLs) /\ H.pending \in Seq(TTLs) /\ Injective(H.active) /\ Injective(H.pending)
  BY DEF HostOk, HostState, ListsOk
<1>2. Len(H.active) \in Nat
  BY <1>1, LenProperties
<1> QED
  BY <1>1, <1>2, ListIs

\* What send_next_probe() does when it sends: one more active probe, and no TTL is lost.
SentOk(H, N, K) ==
  /\ HostOk(N) /\ Len(N.active) = Len(H.active) + 1 /\ N.hops = H.hops
  /\ Own(H, K) => Own(N, K)

\* The next TTL is sent.
LEMMA SentHost ==
  ASSUME NEW H, HostOk(H), NEW K, has_more_probes(H), H.current_ttl \notin H.sent_ttls
  PROVE  SentOk(H, Sent(H), K)
<1>1. H \in HostState /\ ListsOk(H)
  BY DEF HostOk
<1>2. PICK t \in 1 .. MaxTTL + 1 : t = H.current_ttl
  BY <1>1 DEF HostState
<1>3. t \in TTLs
  <2>1. t <= MaxTTL
    <3>1. MaxTTL \in Nat
      BY ConstantsAssumption
    <3>2. CASE H.state = "COUNTING_DOWN"
      BY <1>1, <1>2, <3>2 DEF ListsOk
    <3>3. CASE H.state = "COUNTING_UP"
      BY <1>2, <3>1, <3>3 DEF has_more_probes
    <3> QED
      BY <1>1, <3>2, <3>3 DEF HostState
  <2> QED
    BY <2>1, ConstantsAssumption DEF TTLs
<1>4. PICK A : A = SeqRange(H.active)
  OBVIOUS
<1>5. PICK P : P = SeqRange(H.pending)
  OBVIOUS
<1>6. t \notin H.sent_ttls /\ t \notin A /\ t \notin P
  BY <1>1, <1>2, <1>4, <1>5 DEF ListsOk
<1>7. PICK l : l = Append(H.active, t)
  OBVIOUS
<1>8. Lists(l, A \cup {t}) /\ Len(l) = Len(H.active) + 1
  BY <1>3, <1>4, <1>6, <1>7, HostLists, ListAppend
<1>9. l \in Seq(TTLs) /\ SeqRange(l) = A \cup {t} /\ Injective(l)
  BY <1>8 DEF Lists
<1>10. PICK N : N = Sent(H)
  OBVIOUS
<1>11. N = [H EXCEPT !.unanswered = H.unanswered \cup {t}, !.active = l,
                     !.sent_ttls = H.sent_ttls \cup {t}]
  BY <1>2, <1>7, <1>10 DEF Sent
<1>12. H.unanswered \in SUBSET TTLs /\ H.sent_ttls \in SUBSET TTLs
  BY <1>1 DEF HostState
<1>13. N \in HostState
  BY <1>1, <1>3, <1>9, <1>11, <1>12 DEF HostState
<1>14. /\ N.unanswered = H.unanswered \cup {t} /\ N.active = l /\ N.sent_ttls = H.sent_ttls \cup {t}
       /\ N.pending = H.pending /\ N.resends = H.resends /\ N.state = H.state
       /\ N.current_ttl = H.current_ttl /\ N.reached_target = H.reached_target /\ N.hops = H.hops
  BY <1>1, <1>11 DEF HostState
<1>15. ListsOk(N)
  BY <1>1, <1>4, <1>5, <1>6, <1>9, <1>14 DEF ListsOk
<1>16. Own(H, K) => Own(N, K)
  BY <1>4, <1>9, <1>14 DEF Own
<1> QED
  BY <1>8, <1>10, <1>13, <1>14, <1>15, <1>16 DEF SentOk, HostOk

\* A probe is sent again.
LEMMA ResentHost ==
  ASSUME NEW H, HostOk(H), NEW K, H.pending # <<>>
  PROVE  SentOk(H, Resent(H), K)
<1>1. H \in HostState /\ ListsOk(H)
  BY DEF HostOk
<1>2. PICK A : A = SeqRange(H.active)
  OBVIOUS
<1>3. PICK P : P = SeqRange(H.pending)
  OBVIOUS
<1>4. PICK t : t = Head(H.pending)
  OBVIOUS
<1>5. PICK m : m = Tail(H.pending)
  OBVIOUS
<1>6. Lists(m, P \ {t}) /\ t \in P /\ t \in TTLs
  BY <1>3, <1>4, <1>5, HostLists, ListTail
<1>7. t \notin A /\ A \cap P = {} /\ A \cup P \subseteq H.unanswered
  BY <1>1, <1>2, <1>3, <1>6 DEF ListsOk
<1>8. PICK l : l = Append(H.active, t)
  OBVIOUS
<1>9. Lists(l, A \cup {t}) /\ Len(l) = Len(H.active) + 1
  BY <1>2, <1>6, <1>7, <1>8, HostLists, ListAppend
<1>10. /\ l \in Seq(TTLs) /\ SeqRange(l) = A \cup {t} /\ Injective(l)
       /\ m \in Seq(TTLs) /\ SeqRange(m) = P \ {t} /\ Injective(m)
  BY <1>6, <1>9 DEF Lists
<1>11. PICK r : r = [u \in TTLs |-> IF u = t THEN H.resends[u] + 1 ELSE H.resends[u]]
  OBVIOUS
<1>12. /\ r \in [TTLs -> 0 .. MaxResends]
       /\ \A u \in P \ {t} : r[u] < MaxResends
  <2>1. H.resends \in [TTLs -> 0 .. MaxResends] /\ MaxResends \in Nat
    BY <1>1, ConstantsAssumption DEF HostState
  <2>2. \A u \in P : u \in TTLs /\ H.resends[u] < MaxResends
    <3>1. P \subseteq TTLs
      BY <1>1, <1>7 DEF HostState
    <3> QED
      BY <1>1, <1>3, <3>1 DEF ListsOk
  <2>3. \A u \in TTLs : (IF u = t THEN H.resends[u] + 1 ELSE H.resends[u]) \in 0 .. MaxResends
    BY <1>6, <2>1, <2>2
  <2> QED
    BY <1>11, <2>1, <2>2, <2>3
<1>13. PICK N : N = Resent(H)
  OBVIOUS
<1>14. N = [H EXCEPT !.pending = m, !.active = l, !.resends = r]
  BY <1>4, <1>5, <1>8, <1>11, <1>13 DEF Resent
<1>15. N \in HostState
  BY <1>1, <1>10, <1>12, <1>14 DEF HostState
<1>16. /\ N.pending = m /\ N.active = l /\ N.resends = r /\ N.sent_ttls = H.sent_ttls
       /\ N.unanswered = H.unanswered /\ N.state = H.state /\ N.current_ttl = H.current_ttl
       /\ N.reached_target = H.reached_target /\ N.hops = H.hops
  BY <1>1, <1>14 DEF HostState
<1>17. ListsOk(N)
  BY <1>1, <1>6, <1>7, <1>10, <1>12, <1>16 DEF ListsOk
<1>18. Own(H, K) => Own(N, K)
  BY <1>2, <1>3, <1>10, <1>16 DEF Own
<1> QED
  BY <1>9, <1>13, <1>15, <1>16, <1>17, <1>18 DEF SentOk, HostOk

\* A probe that timed out is no longer active; if it is not sent again it has a hop.
LEMMA CulledHost ==
  ASSUME NEW H, HostOk(H), H.active # <<>>, NEW K, NEW K2, K \subseteq K2,
         <<Head(H.active), FALSE>> \in K2
  PROVE  /\ HostOk(Culled(H)) /\ Len(Culled(H).active) = Len(H.active) - 1
         /\ Head(H.active) \in TTLs
         /\ Own(H, K) => Own(Culled(H), K2)
<1>1. H \in HostState /\ ListsOk(H)
  BY DEF HostOk
<1>2. PICK A : A = SeqRange(H.active)
  OBVIOUS
<1>3. PICK P : P = SeqRange(H.pending)
  OBVIOUS
<1>4. PICK t : t = Head(H.active)
  OBVIOUS
<1>5. PICK l : l = Tail(H.active)
  OBVIOUS
<1>6. Lists(l, A \ {t}) /\ t \in A /\ t \in TTLs /\ Len(l) = Len(H.active) - 1
  BY <1>2, <1>4, <1>5, HostLists, ListTail
<1>7. t \notin P /\ A \cap P = {} /\ A \cup P \subseteq H.unanswered
  BY <1>1, <1>2, <1>3, <1>6 DEF ListsOk
<1>8. PICK m : m = IF H.resends[t] < MaxResends THEN <<t>> \o H.pending ELSE H.pending
  OBVIOUS
<1>9. /\ m \in Seq(TTLs) /\ Injective(m) /\ SeqRange(m) \subseteq P \cup {t} /\ P \subseteq SeqRange(m)
      /\ t \in SeqRange(m) => H.resends[t] < MaxResends
  <2>1. Lists(H.pending, P) /\ Lists(<<t>> \o H.pending, P \cup {t})
    BY <1>3, <1>6, <1>7, HostLists, ListFront
  <2>2. CASE H.resends[t] < MaxResends
    BY <1>8, <2>1, <2>2 DEF Lists
  <2>3. CASE ~(H.resends[t] < MaxResends)
    BY <1>7, <1>8, <2>1, <2>3 DEF Lists
  <2> QED
    BY <2>2, <2>3
<1>10. l \in Seq(TTLs) /\ SeqRange(l) = A \ {t} /\ Injective(l)
  BY <1>6 DEF Lists
<1>11. PICK N : N = Culled(H)
  OBVIOUS
<1>12. N = [H EXCEPT !.active = l, !.pending = m]
  BY <1>4, <1>5, <1>8, <1>11 DEF Culled
<1>13. N \in HostState
  BY <1>1, <1>9, <1>10, <1>12 DEF HostState
<1>14. /\ N.pending = m /\ N.active = l /\ N.resends = H.resends /\ N.sent_ttls = H.sent_ttls
       /\ N.unanswered = H.unanswered /\ N.state = H.state /\ N.current_ttl = H.current_ttl
       /\ N.reached_target = H.reached_target
  BY <1>1, <1>12 DEF HostState
<1>15. ListsOk(N)
  <2>1. SeqRange(l) \cap SeqRange(m) = {} /\ SeqRange(l) \cup SeqRange(m) \subseteq N.unanswered
    BY <1>6, <1>7, <1>9, <1>10, <1>14
  <2>2. \A u \in SeqRange(m) : N.resends[u] < MaxResends
    BY <1>1, <1>3, <1>9, <1>14 DEF ListsOk
  <2> QED
    BY <1>1, <1>9, <1>10, <1>14, <2>1, <2>2 DEF ListsOk
<1>16. Own(H, K) => Own(N, K2)
  BY <1>2, <1>3, <1>4, <1>9, <1>10, <1>14 DEF Own
<1> QED
  BY <1>4, <1>6, <1>11, <1>13, <1>14, <1>15, <1>16 DEF HostOk

\* N is host H without the probes of S.
IsCancelled(H, S, N) ==
  /\ N.unanswered = H.unanswered \ S
  /\ SeqRange(N.active) = SeqRange(H.active) \ S
  /\ SeqRange(N.pending) = SeqRange(H.pending) \ S
  /\ N.sent_ttls = H.sent_ttls /\ N.state = H.state /\ N.current_ttl = H.current_ttl
  /\ N.reached_target = H.reached_target /\ N.hops = H.hops

\* cancel_probe() takes probes off all lists, and returns how many were active.
LEMMA CancelHost ==
  ASSUME NEW H, HostOk(H), NEW S
  PROVE  /\ HostOk(Cancel(H, S)) /\ IsCancelled(H, S, Cancel(H, S))
         /\ CancelledActive(H, S) \in Nat
         /\ Len(Cancel(H, S).active) = Len(H.active) - CancelledActive(H, S)
<1>1. H \in HostState /\ ListsOk(H)
  BY DEF HostOk
<1>2. PICK A : A = SeqRange(H.active)
  OBVIOUS
<1>3. PICK P : P = SeqRange(H.pending)
  OBVIOUS
<1>4. PICK l : l = Without(H.active, S)
  OBVIOUS
<1>5. PICK m : m = Without(H.pending, S)
  OBVIOUS
<1>6. Lists(l, A \ S) /\ Len(l) = Len(H.active) - Cardinality(S \cap A) /\ Lists(m, P \ S)
  BY <1>2, <1>3, <1>4, <1>5, HostLists, ListWithout
<1>7. /\ l \in Seq(TTLs) /\ SeqRange(l) = A \ S /\ Injective(l)
      /\ m \in Seq(TTLs) /\ SeqRange(m) = P \ S /\ Injective(m)
  BY <1>6 DEF Lists
<1>8. CancelledActive(H, S) = Cardinality(S \cap A) /\ Cardinality(S \cap A) \in Nat
  <2>1. IsFiniteSet(A)
    BY <1>2, HostLists DEF Lists
  <2>2. IsFiniteSet(S \cap A)
    BY <2>1, FS_Intersection
  <2> QED
    BY <1>2, <2>2, FS_CardinalityType DEF CancelledActive
<1>9. PICK r : r = [t \in TTLs |-> IF t \in S THEN 0 ELSE H.resends[t]]
  OBVIOUS
<1>10. r \in [TTLs -> 0 .. MaxResends] /\ \A t \in TTLs : t \notin S => r[t] = H.resends[t]
  <2>1. H.resends \in [TTLs -> 0 .. MaxResends] /\ 0 \in 0 .. MaxResends
    BY <1>1, ConstantsAssumption DEF HostState
  <2> QED
    BY <1>9, <2>1
<1>11. PICK N : N = Cancel(H, S)
  OBVIOUS
<1>12. N = [H EXCEPT !.unanswered = H.unanswered \ S, !.active = l, !.pending = m, !.resends = r]
  BY <1>4, <1>5, <1>9, <1>11 DEF Cancel
<1>13. H.unanswered \ S \in SUBSET TTLs /\ P \subseteq TTLs
  BY <1>1, <1>3 DEF HostState, ListsOk
<1>14. N \in HostState
  BY <1>1, <1>7, <1>10, <1>12, <1>13 DEF HostState
<1>15. /\ N.unanswered = H.unanswered \ S /\ N.active = l /\ N.pending = m /\ N.resends = r
       /\ N.sent_ttls = H.sent_ttls /\ N.state = H.state /\ N.current_ttl = H.current_ttl
       /\ N.reached_target = H.reached_target /\ N.hops = H.hops
  BY <1>1, <1>12 DEF HostState
<1>16. ListsOk(N)
  <2>1. \A t \in SeqRange(m) : N.resends[t] < MaxResends
    BY <1>1, <1>3, <1>7, <1>10, <1>13, <1>15 DEF ListsOk
  <2> QED
    BY <1>1, <1>2, <1>3, <1>7, <1>15, <2>1 DEF ListsOk
<1>17. IsCancelled(H, S, N)
  BY <1>2, <1>3, <1>7, <1>15 DEF IsCancelled
<1> QED
  BY <1>6, <1>8, <1>11, <1>14, <1>15, <1>16, <1>17 DEF HostOk

\* The target has answered: the probes beyond it are cancelled.
LEMMA ReachedHost ==
  ASSUME NEW H, HostOk(H), NEW ttl \in TTLs, NEW d \in Int, NEW K, NEW K2, K \subseteq K2,
         <<ttl, FALSE>> \in K2
  PROVE  /\ HostOk(Reached(H, ttl, d)) /\ Reached(H, ttl, d).hops = H.hops
         /\ CancelledActive(H, Above(H, ttl)) \in Nat
         /\ Len(Reached(H, ttl, d).active) = Len(H.active) - CancelledActive(H, Above(H, ttl))
         /\ Own(H, K) => Own(Reached(H, ttl, d), K2)
<1>1. H \in HostState /\ ListsOk(H)
  BY DEF HostOk
<1>2. MaxTTL \in Nat /\ MaxTTL >= 1 /\ TTLs = 1 .. MaxTTL
  BY ConstantsAssumption DEF TTLs
<1>3. PICK S : S = Above(H, ttl)
  OBVIOUS
<1>4. S = {u \in H.unanswered : u > ttl}
  BY <1>3 DEF Above
<1>5. PICK C : C = Cancel(H, S)
  OBVIOUS
<1>6. HostOk(C) /\ IsCancelled(H, S, C) /\ CancelledActive(H, S) \in Nat
      /\ Len(C.active) = Len(H.active) - CancelledActive(H, S)
  BY <1>5, CancelHost
<1>7. PICK r \in 0 .. MaxTTL : r = H.reached_target
  BY <1>1 DEF HostState
<1>8. PICK cur \in 1 .. MaxTTL + 1 : cur = H.current_ttl
  BY <1>1 DEF HostState
<1>9. PICK r2 : r2 = IF r = 0 \/ ttl < r THEN ttl ELSE r
  OBVIOUS
<1>10. r2 \in 1 .. MaxTTL /\ r2 <= ttl /\ (r > 0 => r2 <= r) /\ (r2 = ttl \/ (r2 = r /\ r > 0))
  BY <1>2, <1>9
<1>11. PICK cur2 : cur2 = IF H.state = "COUNTING_DOWN" /\ d > 0 /\ d < cur THEN Box(d) ELSE cur
  OBVIOUS
<1>12. /\ cur2 \in 1 .. MaxTTL + 1 /\ (H.state # "COUNTING_DOWN" => cur2 = cur)
       /\ (H.state = "COUNTING_DOWN" => cur2 <= MaxTTL)
  <2>1. Box(d) \in 1 .. MaxTTL
    BY <1>2 DEF Box
  <2>2. H.state = "COUNTING_DOWN" => cur <= MaxTTL
    BY <1>1, <1>8 DEF ListsOk
  <2> QED
    BY <1>2, <1>11, <2>1, <2>2
<1>13. C \in HostState /\ C.reached_target = r /\ C.current_ttl = cur /\ C.state = H.state /\ C.hops = H.hops
  BY <1>6, <1>7, <1>8 DEF HostOk, IsCancelled
<1>14. PICK N : N = Reached(H, ttl, d)
  OBVIOUS
<1>15. N = [C EXCEPT !.reached_target = r2, !.current_ttl = cur2]
  BY <1>3, <1>5, <1>9, <1>11, <1>13, <1>14 DEF Reached
<1>16. N \in HostState
  <2>1. r2 \in 0 .. MaxTTL /\ cur2 \in 1 .. MaxTTL + 1
    BY <1>2, <1>10, <1>12
  <2> QED
    BY <1>13, <1>15, <2>1 DEF HostState
<1>17. /\ N.reached_target = r2 /\ N.current_ttl = cur2 /\ N.state = H.state /\ N.hops = H.hops
       /\ N.sent_ttls = C.sent_ttls /\ N.unanswered = C.unanswered /\ N.active = C.active
       /\ N.pending = C.pending /\ N.resends = C.resends
  BY <1>13, <1>15 DEF HostState
<1>18. ListsOk(N)
  BY <1>6, <1>12, <1>17 DEF HostOk, ListsOk
<1>19. ASSUME Own(H, K) PROVE Own(N, K2)
  <2>1. /\ SeqRange(N.active) = SeqRange(H.active) \ S /\ SeqRange(N.pending) = SeqRange(H.pending) \ S
        /\ N.sent_ttls = H.sent_ttls
    BY <1>6, <1>17 DEF IsCancelled
  <2>2. ASSUME NEW t \in H.sent_ttls
        PROVE  \/ t \in SeqRange(N.active) \cup SeqRange(N.pending)
               \/ <<t, FALSE>> \in K2
               \/ 0 < r2 /\ r2 < t
    <3>1. t \in 1 .. MaxTTL
      BY <1>1, <1>2 DEF HostState
    <3>2. CASE t \in S
      BY <1>2, <1>4, <1>10, <3>1, <3>2
    <3>3. CASE t \in (SeqRange(H.active) \cup SeqRange(H.pending)) \ S
      BY <2>1, <3>3
    <3>4. CASE <<t, FALSE>> \in K
      BY <3>4
    <3>5. CASE 0 < r /\ r < t
      BY <1>10, <3>1, <3>5
    <3> QED
      BY <1>7, <1>19, <3>2, <3>3, <3>4, <3>5 DEF Own
  <2>3. <<r2, FALSE>> \in K2
    BY <1>7, <1>10, <1>19 DEF Own
  <2>4. N.state = "COUNTING_UP" => \A t \in TTLs : t < N.current_ttl => t \in N.sent_ttls
    BY <1>8, <1>12, <1>17, <1>19, <2>1 DEF Own
  <2> QED
    BY <1>17, <2>1, <2>2, <2>3, <2>4 DEF Own
<1> QED
  BY <1>3, <1>6, <1>14, <1>16, <1>17, <1>18, <1>19 DEF HostOk

\* N is host H after its hops were linked: the TTLs of merged have hops, and counting
\* down may end.
IsLinked(H, N, head, merged, up) ==
  N = [H EXCEPT !.hops = head, !.sent_ttls = @ \cup merged,
                !.state = IF up THEN "COUNTING_UP" ELSE @]

LinkedOk(H, N, head, up, K) ==
  /\ HostOk(N) /\ N.hops = head /\ N.active = H.active
  /\ ~up /\ Own(H, K) => Own(N, K)

\* No TTL is lost by that unless the rest is left to another host.
LEMMA LinkedHost ==
  ASSUME NEW H, HostOk(H), NEW head \in HopIds \cup {NoHop}, NEW merged \in SUBSET TTLs,
         NEW up \in BOOLEAN, NEW N, IsLinked(H, N, head, merged, up),
         NEW K, \A t \in merged : <<t, FALSE>> \in K
  PROVE  LinkedOk(H, N, head, up, K)
<1>1. H \in HostState /\ ListsOk(H) /\ H.sent_ttls \in SUBSET TTLs
  BY DEF HostOk, HostState
<1>2. PICK s : s = IF up THEN "COUNTING_UP" ELSE H.state
  OBVIOUS
<1>3. s \in {"COUNTING_DOWN", "COUNTING_UP"} /\ (s = "COUNTING_DOWN" => H.state = "COUNTING_DOWN")
  BY <1>1, <1>2 DEF HostState
<1>4. N = [H EXCEPT !.hops = head, !.sent_ttls = H.sent_ttls \cup merged, !.state = s]
  BY <1>2 DEF IsLinked
<1>5. N \in HostState
  BY <1>1, <1>3, <1>4 DEF HostState
<1>6. /\ N.hops = head /\ N.sent_ttls = H.sent_ttls \cup merged /\ N.state = s
      /\ N.unanswered = H.unanswered /\ N.active = H.active /\ N.pending = H.pending
      /\ N.resends = H.resends /\ N.current_ttl = H.current_ttl
      /\ N.reached_target = H.reached_target
  BY <1>1, <1>4 DEF HostState
<1>7. ListsOk(N)
  BY <1>1, <1>3, <1>6 DEF ListsOk
<1>8. ASSUME ~up, Own(H, K) PROVE Own(N, K)
  <2>1. s = H.state
    BY <1>2, <1>8
  <2> QED
    BY <1>6, <1>8, <2>1 DEF Own
<1> QED
  BY <1>5, <1>6, <1>7, <1>8 DEF HostOk, LinkedOk

\* Cancelling probes that have hops, or none, loses no TTL.
LEMMA CancelledOwn ==
  ASSUME NEW H, NEW S, NEW N, IsCancelled(H, S, N), NEW K,
         \A t \in S : <<t, FALSE>> \in K, Own(H, K)
  PROVE  Own(N, K)
BY DEF Own, IsCancelled

-------------------------------------------------------------------------------
(* The inductive invariant. *)

\* The hosts that are traced now, and those of the groups g that are not done.
CurrentOf(ph, g) == IF ph = "start" THEN {} ELSE (Head(g) \ Ignored) \ Direct
Waiting(g) == UNION {g[k] : k \in DOMAIN g}

\* Host h with state H, where the hosts act are active, cur are traced and over have left
\* their trace to others.
HostInv(h, H, tree, act, cur, over) ==
  /\ HostOk(H) /\ H.hops \in DOMAIN tree \cup {NoHop}
  /\ h \notin act => H.active = <<>> /\ H.pending = <<>>
  /\ h \in cur \ act => ~has_more_probes(H)
  /\ h \notin cur => H.hops = NoHop
  /\ h \in cur \ over => Own(H, Knows(tree, H.hops))

\* A hop that timed out for a host that is not done is in the chain of the host, or its
\* TTL has another hop there.
StaleHop(h, H, tree) ==
  \A t \in TTLs : <<t, -h>> \in DOMAIN tree => <<t, FALSE>> \in Knows(tree, H.hops)

HostsInv(hs, tree, act, cur, over, wait) ==
  /\ hs \in [Hosts -> HostState]
  /\ \A h \in Hosts : /\ HostInv(h, hs[h], tree, act, cur, over)
                      /\ h \in wait => StaleHop(h, hs[h], tree)

GroupInv(ph, g, act) ==
  /\ ph \in {"start", "send", "read", "cull", "transfer"} /\ g \in Seq(SUBSET Hosts)
  /\ \A i, j \in DOMAIN g : i # j => g[i] \cap g[j] = {}
  /\ ph # "start" => g # <<>> /\ act \subseteq CurrentOf(ph, g) /\ CurrentOf(ph, g) # {}
  /\ act = {} <=> ph \in {"start", "transfer"}

\* The loops of the group: active_hosts, next_sending_host, failed_host and culled.
LoopInv(act, next, failed, cull) ==
  /\ act \subseteq Hosts /\ {next, failed, cull} \subseteq Hosts \cup {NoHost}
  /\ act # {} => next \in act

Inv ==
  /\ GroupInv(phase, groups, active_hosts) /\ TreeOk(hop)
  /\ HostsInv(host, hop, active_hosts, CurrentOf(phase, groups), handed_over, Waiting(groups))
  /\ LoopInv(active_hosts, next_sending_host, failed_host, culled)
  /\ num_active_probes = Total(host) /\ num_active_probes <= MaxOutstanding
  /\ initial_ttl \in Nat /\ trace \in [Hosts -> SUBSET TracerouteHop] /\ handed_over \subseteq Hosts

-------------------------------------------------------------------------------
(* Steps of one host. *)

\* The next host to send exists as long as a host is active.
LEMMA NextHost ==
  ASSUME NEW S \in SUBSET Hosts, NEW h \in Hosts \cup {NoHost}
  PROVE  /\ S # {} => next_active_host(h, S) \in S
         /\ S = {} => next_active_host(h, S) = NoHost
<1> DEFINE after == {g \in S : g > h}
<1>1. S \in SUBSET Nat /\ after \in SUBSET Nat
  <2>1. \A g \in Hosts : g \in Nat
    BY ConstantsAssumption DEF Hosts
  <2> QED
    BY <2>1
<1>2. after # {} => Least(after) \in after
  <2> HIDE DEF after
  <2> QED
    BY <1>1, LeastIs
<1>3. S # {} => Least(S) \in S
  BY <1>1, LeastIs
<1> QED
  BY <1>2, <1>3 DEF next_active_host

\* What a host knows stays known when hops are linked for another one.
LEMMA OtherHost ==
  ASSUME NEW tree, TreeOk(tree), NEW tree2, TreeOk(tree2), KnowsMore(tree, tree2),
         NEW H, H.hops \in DOMAIN tree \cup {NoHop}
  PROVE  Knows(tree, H.hops) \subseteq Knows(tree2, H.hops) /\ H.hops \in DOMAIN tree2 \cup {NoHop}
BY KnowsOwn DEF KnowsMore

\* What host h does to itself and to the tree.
HostStep(h, H2, tree2, over2) ==
  /\ h \in active_hosts /\ HostOk(H2) /\ H2.hops \in DOMAIN tree2 \cup {NoHop}
  /\ TreeOk(tree2) /\ KnowsMore(hop, tree2)
  /\ Knows(hop, host[h].hops) \subseteq Knows(tree2, H2.hops)
  /\ handed_over \subseteq over2
  /\ h \notin over2 => Own(H2, Knows(tree2, H2.hops))
  /\ \A t \in TTLs, g \in Hosts :
       <<t, -g>> \in DOMAIN tree2 =>
         <<t, -g>> \in DOMAIN hop \/ (g = h /\ <<t, FALSE>> \in Knows(tree2, H2.hops))

\* Such a step keeps the invariant of all hosts.
LEMMA OneHost ==
  ASSUME NEW cur, active_hosts \subseteq cur, active_hosts \subseteq Hosts, NEW wait, TreeOk(hop),
         HostsInv(host, hop, active_hosts, cur, handed_over, wait),
         NEW h, NEW H2, NEW tree2, NEW over2, HostStep(h, H2, tree2, over2),
         NEW hs, hs = [host EXCEPT ![h] = H2]
  PROVE  /\ HostsInv(hs, tree2, active_hosts, cur, over2, wait)
         /\ Total(host) \in Nat /\ Total(hs) \in Nat
         /\ Total(hs) = Total(host) - Len(host[h].active) + Len(H2.active)
<1>1. h \in Hosts /\ host \in [Hosts -> HostState] /\ H2 \in HostState
  BY DEF HostStep, HostOk, HostsInv
<1>2. hs \in [Hosts -> HostState] /\ hs[h] = H2 /\ \A g \in Hosts : g # h => hs[g] = host[g]
  BY <1>1
<1>3. HostInv(h, H2, tree2, active_hosts, cur, over2)
  BY DEF HostStep, HostInv
<1>4. ASSUME NEW g \in Hosts, g # h
      PROVE  /\ HostInv(g, host[g], tree2, active_hosts, cur, over2)
             /\ g \in wait => StaleHop(g, host[g], tree2)
  <2>1. HostInv(g, host[g], hop, active_hosts, cur, handed_over) /\ (g \in wait => StaleHop(g, host[g], hop))
    BY DEF HostsInv
  <2>2. PICK G : G = host[g]
    OBVIOUS
  <2>3. TreeOk(tree2) /\ KnowsMore(hop, tree2)
    BY DEF HostStep
  <2>4. Knows(hop, G.hops) \subseteq Knows(tree2, G.hops) /\ G.hops \in DOMAIN tree2 \cup {NoHop}
    BY <2>1, <2>2, <2>3, OtherHost DEF HostInv
  <2>5. Own(G, Knows(hop, G.hops)) => Own(G, Knows(tree2, G.hops))
    BY <2>4 DEF Own
  <2>6. HostInv(g, G, tree2, active_hosts, cur, over2)
    BY <2>1, <2>2, <2>4, <2>5 DEF HostInv, HostStep
  <2>7. g \in wait => StaleHop(g, G, tree2)
    BY <1>4, <2>1, <2>2, <2>4 DEF StaleHop, HostStep
  <2> QED
    BY <2>2, <2>6, <2>7
<1>5. h \in wait => StaleHop(h, H2, tree2)
  <2>1. h \in wait => StaleHop(h, host[h], hop)
    BY <1>1 DEF HostsInv
  <2> QED
    BY <1>1, <2>1 DEF StaleHop, HostStep
<1>6. HostsInv(hs, tree2, active_hosts, cur, over2, wait)
  BY <1>2, <1>3, <1>4, <1>5 DEF HostsInv
<1>7. \A g \in Hosts : Len(host[g].active) \in Nat /\ Len(hs[g].active) \in Nat
  BY <1>6, HostLists DEF HostsInv, HostInv
<1>8. \A g \in Hosts : g # h => Len(hs[g].active) = Len(host[g].active)
  BY <1>2
<1> QED
  <2>1. PICK hs2 : hs2 = hs
    OBVIOUS
  <2>2. /\ \A g \in Hosts : Len(host[g].active) \in Nat /\ Len(hs2[g].active) \in Nat
        /\ \A g \in Hosts : g # h => Len(hs2[g].active) = Len(host[g].active)
    BY <1>7, <1>8, <2>1
  <2>3. /\ Total(host) \in Nat /\ Total(hs2) \in Nat
        /\ Total(hs2) = Total(host) - Len(host[h].active) + Len(hs2[h].active)
    BY <1>1, <2>2, TotalChange
  <2> QED
    BY <1>2, <1>6, <2>1, <2>3

\* A step that leaves the tree alone.
LEMMA KnowsSame ==
  ASSUME TreeOk(hop)
  PROVE  KnowsMore(hop, hop)
BY SameParents

\* What the invariant gives for a host that is active.
LEMMA ActiveHost ==
  ASSUME Inv, NEW h \in active_hosts
  PROVE  /\ h \in Hosts /\ HostOk(host[h]) /\ host[h].hops \in DOMAIN hop \cup {NoHop}
         /\ h \notin handed_over => Own(host[h], Knows(hop, host[h].hops))
         /\ h \in Waiting(groups) /\ StaleHop(h, host[h], hop) /\ h \in CurrentOf(phase, groups)
<1>1. h \in Hosts
  BY DEF Inv, LoopInv
<1>2. phase # "start" /\ groups \in Seq(SUBSET Hosts) /\ groups # <<>>
      /\ h \in CurrentOf(phase, groups)
  BY DEF Inv, GroupInv
<1>3. h \in Head(groups)
  BY <1>2 DEF CurrentOf
<1>4. h \in Waiting(groups)
  <2>1. 1 \in DOMAIN groups /\ Head(groups) = groups[1]
    BY <1>2, EmptySeq, LenProperties, HeadTailProperties
  <2> QED
    BY <1>3, <2>1 DEF Waiting
<1>5. HostInv(h, host[h], hop, active_hosts, CurrentOf(phase, groups), handed_over)
      /\ StaleHop(h, host[h], hop)
  BY <1>1, <1>4 DEF Inv, HostsInv
<1> QED
  BY <1>1, <1>2, <1>4, <1>5 DEF HostInv

\* No host knows less of its path with the states hs2 and tree2 than with hs and tree.
PathsKept(hs, tree, hs2, tree2) ==
  \A g \in Hosts : Knows(tree, hs[g].hops) \subseteq Knows(tree2, hs2[g].hops)

\* The parts of the invariant that a step of one host leaves alone.  No host knows less
\* of its path.
LEMMA HostStepInv ==
  ASSUME Inv, NEW h, NEW H2, HostStep(h, H2, hop', handed_over'),
         host' = [host EXCEPT ![h] = H2],
         num_active_probes' = num_active_probes - Len(host[h].active) + Len(H2.active),
         num_active_probes' <= MaxOutstanding, handed_over' \subseteq Hosts,
         LoopInv(active_hosts', next_sending_host', failed_host', culled'),
         UNCHANGED <<phase, groups, active_hosts, initial_ttl, trace>>
  PROVE  Inv' /\ PathsKept(host, hop, host', hop')
<1>1. PICK cur : cur = CurrentOf(phase, groups)
  OBVIOUS
<1>2. PICK wait : wait = Waiting(groups)
  OBVIOUS
<1>3. h \in active_hosts /\ TreeOk(hop')
  BY DEF HostStep
<1>4. active_hosts \subseteq cur /\ active_hosts \subseteq Hosts
  BY <1>1, ActiveHost DEF Inv, LoopInv
<1>5. PICK hs : hs = host'
  OBVIOUS
<1>6. PICK tree2 : tree2 = hop'
  OBVIOUS
<1>7. PICK over2 : over2 = handed_over'
  OBVIOUS
<1>8. TreeOk(hop) /\ HostsInv(host, hop, active_hosts, cur, handed_over, wait)
  BY <1>1, <1>2 DEF Inv
<1>9. HostStep(h, H2, tree2, over2) /\ hs = [host EXCEPT ![h] = H2]
  BY <1>5, <1>6, <1>7
<1>10. /\ HostsInv(hs, tree2, active_hosts, cur, over2, wait)
       /\ Total(host) \in Nat /\ Total(hs) \in Nat
       /\ Total(hs) = Total(host) - Len(host[h].active) + Len(H2.active)
  BY <1>4, <1>8, <1>9, OneHost
<1>11. num_active_probes' = Total(host')
  BY <1>5, <1>10 DEF Inv
<1>12. GroupInv(phase', groups', active_hosts')
  BY DEF Inv
<1>13. HostsInv(host', hop', active_hosts', CurrentOf(phase', groups'), handed_over', Waiting(groups'))
  BY <1>1, <1>2, <1>5, <1>6, <1>7, <1>10
<1>14. initial_ttl' \in Nat /\ trace' \in [Hosts -> SUBSET TracerouteHop]
  BY DEF Inv
<1>15. PathsKept(host, hop, hs, tree2)
  <2> SUFFICES ASSUME NEW g \in Hosts PROVE Knows(hop, host[g].hops) \subseteq Knows(tree2, hs[g].hops)
    BY DEF PathsKept
  <2>1. TreeOk(tree2) /\ KnowsMore(hop, tree2)
    BY <1>9 DEF HostStep
  <2>2. CASE g = h
    <3>1. hs[h] = H2
      BY <1>8, <1>9, <2>2 DEF HostsInv
    <3> QED
      BY <1>9, <2>2, <3>1 DEF HostStep
  <2>3. CASE g # h
    <3>1. PICK G : G = host[g]
      OBVIOUS
    <3>2. G.hops \in DOMAIN hop \cup {NoHop}
      BY <1>8, <3>1 DEF HostsInv, HostInv
    <3>3. Knows(hop, G.hops) \subseteq Knows(tree2, G.hops)
      BY <1>8, <2>1, <3>2, OtherHost
    <3>4. hs[g] = G
      BY <1>8, <1>9, <2>3, <3>1 DEF HostsInv
    <3> QED
      BY <3>1, <3>3, <3>4
  <2> QED
    BY <2>2, <2>3
<1>16. Inv'
  BY <1>3, <1>11, <1>12, <1>13, <1>14 DEF Inv
<1> QED
  BY <1>5, <1>6, <1>15, <1>16

\* send_new_probes() keeps the invariant and what the hosts know.
LEMMA SendStep ==
  ASSUME Inv, SendProbe
  PROVE  Inv' /\ PathsKept(host, hop, host', hop')
<1>1. PICK h : h = next_sending_host
  OBVIOUS
<1>2. PICK H : H = host[h]
  OBVIOUS
<1>3. h \in active_hosts /\ phase = "send"
  <2>1. active_hosts # {} /\ phase = "send"
    BY DEF Inv, GroupInv, SendProbe
  <2> QED
    BY <1>1, <2>1 DEF Inv, LoopInv
<1>4. /\ h \in Hosts /\ HostOk(H) /\ H.hops \in DOMAIN hop \cup {NoHop}
      /\ h \notin handed_over => Own(H, Knows(hop, H.hops))
  BY <1>2, <1>3, ActiveHost
<1>5. PICK N : N = next_ttl(H)
  OBVIOUS
<1>6. PICK K : K = Knows(hop, H.hops)
  OBVIOUS
<1>7. HostOk(N) /\ SameProbes(H, N) /\ N.current_ttl \notin H.sent_ttls /\ (Own(H, K) => Own(N, K))
  BY <1>4, <1>5, NextTtl
<1>8. PICK sent \in BOOLEAN : sent = (H.pending # <<>> \/ has_more_probes(N))
  OBVIOUS
<1>9. PICK H2 : H2 = IF H.pending # <<>> THEN Resent(H) ELSE IF has_more_probes(N) THEN Sent(N) ELSE N
  OBVIOUS
<1>10. /\ host' = [host EXCEPT ![h] = H2]
       /\ num_active_probes' = num_active_probes + (IF sent THEN 1 ELSE 0)
       /\ failed_host' = IF sent THEN NoHost ELSE IF failed_host = NoHost THEN h ELSE failed_host
       /\ next_sending_host' = next_active_host(h, active_hosts)
       /\ num_active_probes < MaxOutstanding
       /\ UNCHANGED <<phase, groups, hop, active_hosts, culled, initial_ttl, trace, handed_over>>
  BY <1>1, <1>2, <1>5, <1>8, <1>9 DEF SendProbe
<1>11. /\ HostOk(H2) /\ H2.hops = H.hops /\ (Own(H, K) => Own(H2, K))
       /\ Len(H2.active) = Len(H.active) + (IF sent THEN 1 ELSE 0)
  <2>1. CASE H.pending # <<>>
    <3>1. H2 = Resent(H) /\ sent = TRUE
      BY <1>8, <1>9, <2>1
    <3>2. SentOk(H, Resent(H), K)
      BY <1>4, <2>1, ResentHost
    <3> QED
      BY <3>1, <3>2 DEF SentOk
  <2>2. CASE H.pending = <<>> /\ has_more_probes(N)
    <3>1. H2 = Sent(N) /\ sent = TRUE
      BY <1>8, <1>9, <2>2
    <3>2. N.current_ttl \notin N.sent_ttls
      BY <1>7 DEF SameProbes
    <3>3. SentOk(N, Sent(N), K)
      BY <1>7, <2>2, <3>2, SentHost
    <3> QED
      BY <1>7, <3>1, <3>3 DEF SentOk, SameProbes
  <2>3. CASE H.pending = <<>> /\ ~has_more_probes(N)
    <3>1. H2 = N /\ sent = FALSE
      BY <1>8, <1>9, <2>3
    <3>2. Len(N.active) = Len(H.active) /\ Len(H.active) \in Nat
      BY <1>4, <1>7, HostLists DEF SameProbes
    <3> QED
      BY <1>7, <3>1, <3>2 DEF SameProbes
  <2> QED
    BY <2>1, <2>2, <2>3
<1>12. HostStep(h, H2, hop', handed_over')
  <2>1. TreeOk(hop) /\ hop' = hop /\ handed_over' = handed_over
    BY <1>10 DEF Inv
  <2>2. KnowsMore(hop, hop)
    BY <2>1, KnowsSame
  <2> QED
    BY <1>2, <1>3, <1>4, <1>6, <1>11, <2>1, <2>2 DEF HostStep
<1>13. /\ num_active_probes' = num_active_probes - Len(host[h].active) + Len(H2.active)
       /\ num_active_probes' <= MaxOutstanding
  <2>1. PICK a \in Nat : a = Len(H.active)
    BY <1>4, HostLists
  <2>2. PICK e \in 0 .. 1 : e = IF sent THEN 1 ELSE 0
    OBVIOUS
  <2>3. Len(H2.active) = a + e /\ num_active_probes' = num_active_probes + e
    BY <1>10, <1>11, <2>1, <2>2
  <2>4. num_active_probes \in Nat /\ MaxOutstanding \in Nat
    <3>1. \A g \in Hosts : Len(host[g].active) \in Nat
      BY HostLists DEF Inv, HostsInv, HostInv
    <3>2. Total(host) \in Nat
      BY <3>1, TotalSame
    <3> QED
      BY <3>2, ConstantsAssumption DEF Inv
  <2>5. PICK n \in Nat : n = num_active_probes
    BY <2>4
  <2>6. n < MaxOutstanding
    BY <1>10, <2>5
  <2>7. n + e = n - a + (a + e) /\ n + e <= MaxOutstanding
    BY <2>4, <2>6
  <2> QED
    BY <1>2, <2>1, <2>3, <2>5, <2>7
<1>14. LoopInv(active_hosts', next_sending_host', failed_host', culled')
  <2>1. next_active_host(h, active_hosts) \in active_hosts
    BY <1>3, <1>4, NextHost DEF Inv, LoopInv
  <2>2. failed_host' \in Hosts \cup {NoHost}
    BY <1>4, <1>10 DEF Inv, LoopInv
  <2> QED
    BY <1>10, <2>1, <2>2 DEF Inv, LoopInv
<1>15. handed_over' \subseteq Hosts /\ UNCHANGED <<phase, groups, active_hosts, initial_ttl, trace>>
  BY <1>10 DEF Inv
<1> QED
  BY <1>10, <1>12, <1>13, <1>14, <1>15, HostStepInv

\* The head of a chain is no part of the lists.
LEMMA SetHops ==
  ASSUME NEW H, HostOk(H), NEW x \in HopIds \cup {NoHop}, NEW K
  PROVE  LET N == [H EXCEPT !.hops = x]
         IN /\ HostOk(N) /\ N.hops = x /\ N.active = H.active
            /\ Own(H, K) => Own(N, K)
<1>1. PICK N : N = [H EXCEPT !.hops = x]
  OBVIOUS
<1>2. H \in HostState
  BY DEF HostOk
<1>3. N \in HostState
  BY <1>1, <1>2 DEF HostState
<1>4. /\ N.hops = x /\ N.sent_ttls = H.sent_ttls /\ N.state = H.state
      /\ N.unanswered = H.unanswered /\ N.active = H.active /\ N.pending = H.pending
      /\ N.resends = H.resends /\ N.current_ttl = H.current_ttl
      /\ N.reached_target = H.reached_target
  BY <1>1, <1>2 DEF HostState
<1>5. ListsOk(N)
  BY <1>4 DEF HostOk, ListsOk
<1>6. Own(H, K) => Own(N, K)
  BY <1>4 DEF Own
<1> QED
  BY <1>1, <1>3, <1>4, <1>5, <1>6 DEF HostOk

\* The number of active probes is a number.
LEMMA CountType ==
  ASSUME Inv
  PROVE  num_active_probes \in Nat /\ MaxOutstanding \in Nat
<1>1. \A g \in Hosts : Len(host[g].active) \in Nat
  BY HostLists DEF Inv, HostsInv, HostInv
<1>2. Total(host) \in Nat
  BY <1>1, TotalSame
<1> QED
  BY <1>2, ConstantsAssumption DEF Inv

\* cull_timeouts() keeps the invariant and what the hosts know.
LEMMA CullStep ==
  ASSUME Inv, NEW h \in Hosts, CullProbe(h)
  PROVE  Inv' /\ PathsKept(host, hop, host', hop')
<1>1. PICK H : H = host[h]
  OBVIOUS
<1>2. PICK ttl : ttl = Head(H.active)
  OBVIOUS
<1>3. PICK link : link = insert_hop(h, H.hops, ttl, NoAddress)
  OBVIOUS
<1>4. PICK C : C = Culled(H)
  OBVIOUS
<1>5. PICK H2 : H2 = [C EXCEPT !.hops = link.head]
  OBVIOUS
<1>6. /\ h \in active_hosts /\ H.active # <<>> /\ host' = [host EXCEPT ![h] = H2]
      /\ hop' = link.tree /\ num_active_probes' = num_active_probes - 1 /\ culled' = h
      /\ UNCHANGED <<phase, groups, active_hosts, next_sending_host, failed_host, initial_ttl,
                     trace, handed_over>>
  BY <1>1, <1>2, <1>3, <1>4, <1>5 DEF CullProbe
<1>7. /\ HostOk(H) /\ H.hops \in DOMAIN hop \cup {NoHop} /\ StaleHop(h, H, hop)
      /\ h \notin handed_over => Own(H, Knows(hop, H.hops))
  BY <1>1, <1>6, ActiveHost
<1>8. ttl \in TTLs
  BY <1>2, <1>6, <1>7, HostLists, ListTail
<1>9. PICK id : id = <<ttl, -h>>
  OBVIOUS
<1>10. IsLink(link, H.hops, ttl) /\ DOMAIN link.tree \subseteq DOMAIN hop \cup {id}
  <2>1. id \in DOMAIN hop => <<ttl, FALSE>> \in Knows(hop, H.hops)
    BY <1>7, <1>8, <1>9 DEF StaleHop
  <2>2. id = <<ttl, IF NoAddress = NoAddress THEN -h ELSE NoAddress>>
    BY <1>9
  <2>3. TreeOk(hop) /\ NoAddress \in Addresses \cup {NoAddress}
    BY DEF Inv
  <2> QED
    BY <1>3, <1>7, <1>8, <2>1, <2>2, <2>3, InsertHop
<1>11. PICK tree2 : tree2 = link.tree
  OBVIOUS
<1>12. PICK head2 : head2 = link.head
  OBVIOUS
<1>13. PICK K2 : K2 = Knows(tree2, head2)
  OBVIOUS
<1>14. /\ TreeOk(tree2) /\ KnowsMore(hop, tree2) /\ head2 \in DOMAIN tree2
       /\ Knows(hop, H.hops) \subseteq K2 /\ <<ttl, FALSE>> \in K2
  BY <1>10, <1>11, <1>12, <1>13 DEF IsLink
<1>15. head2 \in HopIds \cup {NoHop}
  BY <1>14 DEF TreeOk
<1>16. /\ HostOk(C) /\ Len(C.active) = Len(H.active) - 1
       /\ Own(H, Knows(hop, H.hops)) => Own(C, K2)
  BY <1>2, <1>4, <1>6, <1>7, <1>14, CulledHost
<1>17. HostOk(H2) /\ H2.hops = head2 /\ H2.active = C.active /\ (Own(C, K2) => Own(H2, K2))
  BY <1>5, <1>12, <1>15, <1>16, SetHops
<1>18. HostStep(h, H2, hop', handed_over')
  <2>1. ASSUME NEW t \in TTLs, NEW g \in Hosts, <<t, -g>> \in DOMAIN tree2
        PROVE  <<t, -g>> \in DOMAIN hop \/ (g = h /\ <<t, FALSE>> \in K2)
    <3>1. <<t, -g>> \in DOMAIN hop \/ <<t, -g>> = <<ttl, -h>>
      BY <1>9, <1>10, <1>11, <2>1
    <3>2. <<t, -g>> = <<ttl, -h>> => t = ttl /\ -g = -h
      OBVIOUS
    <3>3. -g = -h => g = h
      BY ConstantsAssumption DEF Hosts
    <3> QED
      BY <1>14, <3>1, <3>2, <3>3
  <2>2. hop' = tree2 /\ handed_over' = handed_over
    BY <1>6, <1>11
  <2> QED
    BY <1>1, <1>6, <1>7, <1>13, <1>14, <1>16, <1>17, <2>1, <2>2 DEF HostStep
<1>19. /\ num_active_probes' = num_active_probes - Len(host[h].active) + Len(H2.active)
       /\ num_active_probes' <= MaxOutstanding
  <2>1. PICK a \in Nat : a = Len(H.active)
    BY <1>7, HostLists
  <2>2. PICK n \in Nat : n = num_active_probes
    BY CountType
  <2>3. Len(H2.active) = a - 1 /\ num_active_probes' = n - 1
    BY <1>6, <1>16, <1>17, <2>1, <2>2
  <2>4. n <= MaxOutstanding /\ MaxOutstanding \in Nat
    BY <2>2, CountType DEF Inv
  <2>5. n - 1 = n - a + (a - 1) /\ n - 1 <= MaxOutstanding
    BY <2>4
  <2> QED
    BY <1>1, <2>1, <2>2, <2>3, <2>5
<1>20. LoopInv(active_hosts', next_sending_host', failed_host', culled')
  BY <1>6 DEF Inv, LoopInv
<1>21. handed_over' \subseteq Hosts /\ UNCHANGED <<phase, groups, active_hosts, initial_ttl, trace>>
  BY <1>6 DEF Inv
<1> QED
  BY <1>6, <1>18, <1>19, <1>20, <1>21, HostStepInv

\* The hop that an answer links into the chain head of host h.
AnswerLink(h, head, ttl, addr) ==
  IF hop_cache_lookup(ttl, addr) = NoHop THEN insert_hop(h, head, ttl, addr)
  ELSE link_to(head, hop_cache_lookup(ttl, addr))

\* It is new or was known; timed-out hops are not created.
IsAnswerLink(link, head, ttl, known) ==
  /\ IsLink(link, head, ttl)
  /\ \A t \in TTLs, g \in Hosts : <<t, -g>> \in DOMAIN link.tree => <<t, -g>> \in DOMAIN hop
  /\ known # NoHop => /\ known \in DOMAIN link.tree
                      /\ Knows(link.tree, known) \subseteq Knows(link.tree, link.head)

\* link_to() and insert_hop() do so.
LEMMA AnswerLinks ==
  ASSUME TreeOk(hop), NEW h \in Hosts, NEW head \in DOMAIN hop \cup {NoHop}, NEW ttl \in TTLs,
         NEW addr \in Addresses,
         NEW link, link = AnswerLink(h, head, ttl, addr),
         NEW known, known = hop_cache_lookup(ttl, addr)
  PROVE  IsAnswerLink(link, head, ttl, known)
<1>1. addr \in Nat \ {0} /\ addr # NoAddress
  BY AddressType DEF NoAddress
<1>2. PICK id : id = <<ttl, addr>>
  OBVIOUS
<1>3. id \in HopIds /\ id # NoHop /\ id[1] = ttl /\ id[2] = addr
  <2>1. id \in HopIds
    BY <1>2 DEF HopIds
  <2> QED
    BY <1>2, <2>1, HopIdType
<1>4. CASE id \in DOMAIN hop
  <2>1. known = id /\ link = link_to(head, id)
    BY <1>2, <1>3, <1>4 DEF hop_cache_lookup, AnswerLink
  <2>2. hop[id].addr # NoAddress
    <3>1. id[2] > 0
      BY <1>1, <1>3
    <3>2. hop[id].addr = id[2]
      BY <1>4, <3>1 DEF TreeOk
    <3> QED
      BY <1>1, <1>3, <3>2
  <2>3. /\ IsLink(link, head, id[1]) /\ DOMAIN link.tree = DOMAIN hop
        /\ Knows(link.tree, id) \subseteq Knows(link.tree, link.head)
    BY <1>4, <2>1, <2>2, LinkTo
  <2> QED
    BY <1>3, <1>4, <2>1, <2>3 DEF IsAnswerLink
<1>5. CASE id \notin DOMAIN hop
  <2>1. known = NoHop /\ link = insert_hop(h, head, ttl, addr)
    BY <1>2, <1>5 DEF hop_cache_lookup, AnswerLink
  <2>2. id = <<ttl, IF addr = NoAddress THEN -h ELSE addr>>
    BY <1>1, <1>2
  <2>3. id \in DOMAIN hop => <<ttl, FALSE>> \in Knows(hop, head)
    BY <1>5
  <2>4. addr \in Addresses \cup {NoAddress}
    OBVIOUS
  <2>5. IsLink(link, head, ttl) /\ DOMAIN link.tree \subseteq DOMAIN hop \cup {id}
    <3>1. /\ IsLink(insert_hop(h, head, ttl, addr), head, ttl)
          /\ DOMAIN insert_hop(h, head, ttl, addr).tree \subseteq DOMAIN hop \cup {id}
      BY <2>2, <2>3, <2>4, InsertHop, Zenon
    <3> QED
      BY <2>1, <3>1
  <2>6. ASSUME NEW t \in TTLs, NEW g \in Hosts PROVE <<t, -g>> # id
    <3>1. -g # addr
      BY <1>1, ConstantsAssumption DEF Hosts
    <3> QED
      BY <1>2, <3>1
  <2> QED
    BY <2>1, <2>5, <2>6 DEF IsAnswerLink
<1> QED
  BY <1>4, <1>5

\* read_replies() keeps the invariant and what the hosts know.
LEMMA ReadStep ==
  ASSUME Inv, NEW h \in Hosts, NEW ttl \in TTLs, NEW addr \in Addresses, NEW d \in Distances,
         ReadReply(h, ttl, addr, d)
  PROVE  Inv' /\ PathsKept(host, hop, host', hop')
<1>1. PICK H0 : H0 = host[h]
  OBVIOUS
<1>2. PICK H : H = IF addr = h THEN Reached(H0, ttl, d) ELSE H0
  OBVIOUS
<1>3. PICK known : known = hop_cache_lookup(ttl, addr)
  OBVIOUS
<1>4. PICK link : link = AnswerLink(h, H.hops, ttl, addr)
  OBVIOUS
<1>5. PICK chain : chain = Chain(link.tree, known)
  OBVIOUS
<1>6. PICK up \in BOOLEAN : up = (/\ known # NoHop /\ H.state = "COUNTING_DOWN"
                                  /\ link.tree[Last(chain)].tag # h)
  OBVIOUS
<1>7. PICK merged : merged = IF known # NoHop /\ H.state = "COUNTING_DOWN"
                             THEN {i[1] : i \in chain \ {known}} ELSE {}
  OBVIOUS
<1>8. PICK below : below = IF up THEN Below(H, ttl) ELSE {}
  OBVIOUS
<1>9. PICK C : C = Cancel(H, below)
  OBVIOUS
<1>10. PICK L : L = [C EXCEPT !.hops = link.head, !.sent_ttls = @ \cup merged,
                              !.state = IF up THEN "COUNTING_UP" ELSE @]
  OBVIOUS
<1>11. PICK N : N = Cancel(L, {ttl})
  OBVIOUS
<1>12. PICK c1 : c1 = IF addr = h THEN CancelledActive(H0, Above(H0, ttl)) ELSE 0
  OBVIOUS
<1>13. PICK c2 : c2 = CancelledActive(H, below)
  OBVIOUS
<1>14. PICK c3 : c3 = CancelledActive(L, {ttl})
  OBVIOUS
<1>15. /\ h \in active_hosts /\ host' = [host EXCEPT ![h] = N] /\ hop' = link.tree
       /\ num_active_probes' = num_active_probes - c1 - c2 - c3
       /\ handed_over' = IF up THEN handed_over \cup {h} ELSE handed_over
       /\ UNCHANGED <<phase, groups, active_hosts, next_sending_host, failed_host, culled,
                      initial_ttl, trace>>
  BY <1>1, <1>2, <1>3, <1>4, <1>5, <1>6, <1>7, <1>8, <1>9, <1>10, <1>11, <1>12, <1>13, <1>14
     DEF ReadReply, AnswerLink
<1>16. /\ HostOk(H0) /\ H0.hops \in DOMAIN hop \cup {NoHop} /\ TreeOk(hop)
       /\ h \notin handed_over => Own(H0, Knows(hop, H0.hops))
  BY <1>1, <1>15, ActiveHost DEF Inv
<1>17. d \in Int
  BY ConstantsAssumption
<1>18. H.hops = H0.hops
  <2>1. CASE addr = h
    <3>1. {} \subseteq {<<ttl, FALSE>>} /\ <<ttl, FALSE>> \in {<<ttl, FALSE>>}
      OBVIOUS
    <3>2. Reached(H0, ttl, d).hops = H0.hops
      BY <1>16, <1>17, <3>1, ReachedHost
    <3> QED
      BY <1>2, <2>1, <3>2
  <2>2. CASE addr # h
    BY <1>2, <2>2
  <2> QED
    BY <2>1, <2>2
<1>19. /\ IsLink(link, H0.hops, ttl)
       /\ \A t \in TTLs, g \in Hosts : <<t, -g>> \in DOMAIN link.tree => <<t, -g>> \in DOMAIN hop
       /\ known # NoHop => /\ known \in DOMAIN link.tree
                           /\ Knows(link.tree, known) \subseteq Knows(link.tree, link.head)
  <2>1. link = AnswerLink(h, H0.hops, ttl, addr)
    BY <1>4, <1>18
  <2>2. PICK x : x = H0.hops
    OBVIOUS
  <2>3. x \in DOMAIN hop \cup {NoHop} /\ link = AnswerLink(h, x, ttl, addr)
    BY <1>16, <2>1, <2>2
  <2>4. IsAnswerLink(link, x, ttl, known)
    BY <1>3, <1>16, <2>3, AnswerLinks
  <2> QED
    BY <2>2, <2>4 DEF IsAnswerLink
<1>20. PICK tree2 : tree2 = link.tree
  OBVIOUS
<1>21. PICK head2 : head2 = link.head
  OBVIOUS
<1>22. PICK K2 : K2 = Knows(tree2, head2)
  OBVIOUS
<1>23. PICK K : K = Knows(hop, H0.hops)
  OBVIOUS
<1>24. /\ TreeOk(tree2) /\ KnowsMore(hop, tree2) /\ head2 \in DOMAIN tree2 /\ head2 \in HopIds
       /\ K \subseteq K2 /\ <<ttl, FALSE>> \in K2
  BY <1>19, <1>20, <1>21, <1>22, <1>23 DEF IsLink, TreeOk
<1>25. HostOk(H) /\ c1 \in Nat /\ Len(H.active) = Len(H0.active) - c1 /\ (Own(H0, K) => Own(H, K2))
  <2>1. Len(H0.active) \in Nat
    BY <1>16, HostLists
  <2>2. CASE addr = h
    BY <1>2, <1>12, <1>16, <1>17, <1>24, <2>2, ReachedHost
  <2>3. CASE addr # h
    <3>1. H = H0 /\ c1 = 0
      BY <1>2, <1>12, <2>3
    <3>2. Own(H0, K) => Own(H0, K2)
      BY <1>24 DEF Own
    <3> QED
      BY <1>16, <2>1, <3>1, <3>2
  <2> QED
    BY <2>2, <2>3
<1>26. HostOk(C) /\ IsCancelled(H, below, C) /\ c2 \in Nat /\ Len(C.active) = Len(H.active) - c2
  BY <1>9, <1>13, <1>25, CancelHost
<1>27. merged \in SUBSET TTLs /\ \A t \in merged : <<t, FALSE>> \in K2
  <2> SUFFICES ASSUME NEW t \in merged PROVE t \in TTLs /\ <<t, FALSE>> \in K2
    OBVIOUS
  <2>1. known # NoHop /\ \E i \in chain : t = i[1]
    BY <1>7
  <2>2. PICK i \in chain : t = i[1]
    BY <2>1
  <2>3. known \in DOMAIN tree2 /\ chain = Chain(tree2, known) /\ Knows(tree2, known) \subseteq K2
    BY <1>5, <1>19, <1>20, <1>21, <1>22, <2>1
  <2>4. i \in HopIds /\ i[1] \in TTLs
    BY <1>24, <2>3, ChainHops, HopIdType
  <2>5. <<t, FALSE>> \in Knows(tree2, known)
    BY <2>2, <2>3, <2>4 DEF Knows
  <2> QED
    BY <2>2, <2>3, <2>4, <2>5
<1>28. HostOk(L) /\ L.hops = head2 /\ L.active = C.active /\ (~up /\ Own(C, K2) => Own(L, K2))
  <2>1. IsLinked(C, L, head2, merged, up)
    BY <1>10, <1>21 DEF IsLinked
  <2>2. head2 \in HopIds \cup {NoHop}
    BY <1>24
  <2> QED
    <3>1. LinkedOk(C, L, head2, up, K2)
      BY <1>26, <1>27, <2>1, <2>2, LinkedHost
    <3> QED
      BY <3>1 DEF LinkedOk
<1>29. HostOk(N) /\ IsCancelled(L, {ttl}, N) /\ c3 \in Nat /\ Len(N.active) = Len(L.active) - c3
  BY <1>11, <1>14, <1>28, CancelHost
<1>30. ASSUME ~up, Own(H0, K) PROVE Own(N, K2)
  <2>1. \A t \in below : <<t, FALSE>> \in K2
    BY <1>8, <1>30
  <2>2. Own(C, K2)
    BY <1>25, <1>26, <1>30, <2>1, CancelledOwn
  <2>3. Own(L, K2)
    BY <1>28, <1>30, <2>2
  <2>4. PICK S : S = {ttl}
    OBVIOUS
  <2>5. IsCancelled(L, S, N) /\ \A t \in S : <<t, FALSE>> \in K2
    BY <1>24, <1>29, <2>4
  <2> QED
    BY <2>3, <2>5, CancelledOwn
<1>31. HostStep(h, N, hop', handed_over')
  <2>1. hop' = tree2 /\ N.hops = head2
    BY <1>15, <1>20, <1>28, <1>29 DEF IsCancelled
  <2>2. handed_over \subseteq handed_over' /\ (h \notin handed_over' => ~up /\ h \notin handed_over)
    BY <1>15
  <2>3. \A t \in TTLs, g \in Hosts : <<t, -g>> \in DOMAIN tree2 => <<t, -g>> \in DOMAIN hop
    BY <1>19, <1>20
  <2>4. h \notin handed_over' => Own(N, K2)
    BY <1>16, <1>23, <1>30, <2>2
  <2> QED
    BY <1>1, <1>15, <1>22, <1>23, <1>24, <1>29, <2>1, <2>2, <2>3, <2>4 DEF HostStep
<1>32. /\ num_active_probes' = num_active_probes - Len(host[h].active) + Len(N.active)
       /\ num_active_probes' <= MaxOutstanding
  <2>1. PICK a \in Nat : a = Len(H0.active)
    BY <1>16, HostLists
  <2>2. PICK n \in Nat : n = num_active_probes
    BY CountType
  <2>3. c1 \in Nat /\ c2 \in Nat /\ c3 \in Nat
    BY <1>25, <1>26, <1>29
  <2>4. Len(H.active) = a - c1
    BY <1>25, <2>1
  <2>5. Len(L.active) = (a - c1) - c2
    BY <1>26, <1>28, <2>4
  <2>6. Len(N.active) = ((a - c1) - c2) - c3
    BY <1>29, <2>5
  <2>7. n <= MaxOutstanding /\ MaxOutstanding \in Nat
    BY <2>2, CountType DEF Inv
  <2>8. n - c1 - c2 - c3 = n - a + (((a - c1) - c2) - c3) /\ n - c1 - c2 - c3 <= MaxOutstanding
    BY <2>3, <2>7
  <2>9. num_active_probes' = n - c1 - c2 - c3
    BY <1>15, <2>2
  <2> QED
    BY <1>1, <2>1, <2>2, <2>6, <2>8, <2>9
<1>33. LoopInv(active_hosts', next_sending_host', failed_host', culled')
  BY <1>15 DEF Inv, LoopInv
<1>34. handed_over' \subseteq Hosts /\ UNCHANGED <<phase, groups, active_hosts, initial_ttl, trace>>
  BY <1>15 DEF Inv
<1> QED
  BY <1>15, <1>31, <1>32, <1>33, <1>34, HostStepInv

-------------------------------------------------------------------------------
(* Steps of the group. *)

\* The groups after the first one.
LEMMA TailGroups ==
  ASSUME NEW g \in Seq(SUBSET Hosts), g # <<>>,
         \A i, j \in DOMAIN g : i # j => g[i] \cap g[j] = {}
  PROVE  /\ Tail(g) \in Seq(SUBSET Hosts) /\ Head(g) \in SUBSET Hosts
         /\ Waiting(Tail(g)) \subseteq Waiting(g) /\ Waiting(Tail(g)) \cap Head(g) = {}
         /\ \A i, j \in DOMAIN Tail(g) : i # j => Tail(g)[i] \cap Tail(g)[j] = {}
<1>1. PICK n \in Nat : n = Len(g) /\ DOMAIN g = 1 .. n
  BY LenProperties
<1>2. n # 0
  BY <1>1, EmptySeq
<1>3. PICK t : t = Tail(g)
  OBVIOUS
<1>4. /\ t \in Seq(SUBSET Hosts) /\ Len(t) = n - 1 /\ Head(g) = g[1]
      /\ \A k \in 1 .. n - 1 : t[k] = g[k + 1]
  BY <1>1, <1>3, HeadTailProperties
<1>5. DOMAIN t = 1 .. n - 1
  BY <1>1, <1>2, <1>4, LenProperties
<1>6. 1 \in 1 .. n /\ \A k \in 1 .. n - 1 : k + 1 \in 1 .. n /\ k + 1 # 1
  BY <1>1, <1>2
<1>7. ASSUME NEW i \in DOMAIN t, NEW j \in DOMAIN t, i # j PROVE t[i] \cap t[j] = {}
  <2>1. i + 1 \in DOMAIN g /\ j + 1 \in DOMAIN g /\ i + 1 # j + 1
    BY <1>1, <1>5, <1>6, <1>7
  <2> QED
    BY <1>4, <1>5, <2>1
<1>8. Waiting(t) \subseteq Waiting(g)
  BY <1>1, <1>4, <1>5, <1>6 DEF Waiting
<1>9. Waiting(t) \cap Head(g) = {}
  <2> SUFFICES ASSUME NEW h \in Waiting(t), h \in Head(g) PROVE FALSE
    OBVIOUS
  <2>1. PICK k \in 1 .. n - 1 : h \in t[k]
    BY <1>5 DEF Waiting
  <2>2. h \in g[k + 1] /\ h \in g[1] /\ k + 1 \in DOMAIN g /\ 1 \in DOMAIN g /\ k + 1 # 1
    BY <1>1, <1>4, <1>6, <2>1
  <2> QED
    BY <2>2
<1>10. Head(g) \in SUBSET Hosts
  BY <1>1, <1>4, <1>6, ElementOfSeq
<1> QED
  BY <1>3, <1>4, <1>7, <1>8, <1>9, <1>10

\* A host that is new has nothing to lose.
LEMMA NewHost ==
  ASSUME initial_ttl \in Nat, NEW guess \in Nat \cup {-1}, NEW K
  PROVE  LET H == NewHostState(guess)
         IN /\ HostOk(H) /\ H.hops = NoHop /\ H.active = <<>> /\ H.pending = <<>>
            /\ Own(H, K)
<1>1. MaxTTL \in Nat /\ MaxTTL >= 1 /\ MaxResends \in Nat
  BY ConstantsAssumption
<1>2. PICK c : c = Box(IF guess # -1 THEN guess ELSE initial_ttl)
  OBVIOUS
<1>3. c \in 1 .. MaxTTL + 1 /\ c <= MaxTTL
  <2>1. PICK x \in Nat : x = IF guess # -1 THEN guess ELSE initial_ttl
    OBVIOUS
  <2> QED
    BY <1>1, <1>2, <2>1 DEF Box
<1>4. PICK r : r = [t \in TTLs |-> 0]
  OBVIOUS
<1>5. r \in [TTLs -> 0 .. MaxResends]
  BY <1>1, <1>4
<1>6. PICK H : H = NewHostState(guess)
  OBVIOUS
<1>7. H = [sent_ttls |-> {}, current_ttl |-> c, state |-> "COUNTING_DOWN", reached_target |-> 0,
           unanswered |-> {}, active |-> <<>>, pending |-> <<>>, resends |-> r, hops |-> NoHop]
  BY <1>2, <1>4, <1>6 DEF NewHostState
<1>8. <<>> \in Seq(TTLs) /\ 0 \in 0 .. MaxTTL
  BY <1>1, EmptySeq
<1>9. H \in HostState
  BY <1>3, <1>5, <1>7, <1>8 DEF HostState
<1>10. SeqRange(<<>>) = {} /\ Injective(<<>>)
  BY DEF SeqRange, Injective
<1>11. ListsOk(H)
  BY <1>3, <1>7, <1>10 DEF ListsOk
<1>12. Own(H, K)
  BY <1>7 DEF Own
<1> QED
  BY <1>6, <1>7, <1>9, <1>11, <1>12 DEF HostOk

\* Between the groups no host has probes or hops.
LEMMA IdleHosts ==
  ASSUME Inv, active_hosts = {}
  PROVE  \A h \in Hosts :
           /\ HostOk(host[h]) /\ host[h].active = <<>> /\ host[h].pending = <<>>
           /\ h \notin CurrentOf(phase, groups) => host[h].hops = NoHop
           /\ h \in Waiting(groups) => StaleHop(h, host[h], hop)
BY DEF Inv, HostsInv, HostInv

\* traceroute() starts a group.
LEMMA StartStep ==
  ASSUME Inv, StartGroup
  PROVE  Inv'
<1>1. PICK targets : targets = Head(groups) \ Ignored
  OBVIOUS
<1>2. PICK remote : remote = targets \ Direct
  OBVIOUS
<1>3. /\ phase = "start" /\ groups # <<>> /\ active_hosts' = remote /\ num_active_probes' = 0
      /\ trace' = [h \in Hosts |->
                     IF h \in targets \cap Direct THEN {[ttl |-> 1, addr |-> h, tag |-> h]} ELSE trace[h]]
      /\ next_sending_host' = IF remote = {} THEN NoHost ELSE Least(remote)
      /\ phase' = IF remote = {} THEN "start" ELSE "send"
      /\ groups' = IF remote = {} THEN Tail(groups) ELSE groups
      /\ UNCHANGED <<hop, failed_host, culled, initial_ttl, handed_over>>
  BY <1>1, <1>2 DEF StartGroup
<1>4. PICK guess : /\ \A h \in remote : guess[h] \in Guesses[h]
                   /\ host' = [h \in Hosts |-> IF h \in remote THEN NewHostState(guess[h]) ELSE host[h]]
  BY <1>1, <1>2 DEF StartGroup
<1>5. active_hosts = {} /\ groups \in Seq(SUBSET Hosts)
      /\ \A i, j \in DOMAIN groups : i # j => groups[i] \cap groups[j] = {}
  BY <1>3 DEF Inv, GroupInv
<1>6. /\ Tail(groups) \in Seq(SUBSET Hosts) /\ Head(groups) \in SUBSET Hosts
      /\ Waiting(Tail(groups)) \subseteq Waiting(groups)
      /\ \A i, j \in DOMAIN Tail(groups) : i # j => Tail(groups)[i] \cap Tail(groups)[j] = {}
  BY <1>3, <1>5, TailGroups
<1>7. remote \subseteq Hosts /\ CurrentOf(phase, groups) = {}
  BY <1>1, <1>2, <1>3, <1>6 DEF CurrentOf
<1>8. CurrentOf(phase', groups') = remote
  BY <1>1, <1>2, <1>3 DEF CurrentOf
<1>9. GroupInv(phase', groups', active_hosts')
  <2>1. CASE remote = {}
    BY <1>3, <1>6, <2>1 DEF GroupInv
  <2>2. CASE remote # {}
    BY <1>3, <1>5, <1>8, <2>2 DEF GroupInv
  <2> QED
    BY <2>1, <2>2
<1>10. Waiting(groups') \subseteq Waiting(groups)
  BY <1>3, <1>6
<1>11. TreeOk(hop) /\ initial_ttl \in Nat
  BY DEF Inv
<1>12. ASSUME NEW h \in Hosts
       PROVE  /\ HostInv(h, host'[h], hop, remote, remote, handed_over)
              /\ host'[h].active = <<>> /\ host'[h] \in HostState
              /\ h \in Waiting(groups') => StaleHop(h, host'[h], hop)
  <2>1. /\ HostOk(host[h]) /\ host[h].active = <<>> /\ host[h].pending = <<>>
        /\ host[h].hops = NoHop /\ (h \in Waiting(groups) => StaleHop(h, host[h], hop))
    BY <1>5, <1>7, IdleHosts
  <2>2. PICK H : H = host'[h]
    OBVIOUS
  <2>3. CASE h \in remote
    <3>1. H = NewHostState(guess[h])
      BY <1>4, <2>2, <2>3
    <3>2. guess[h] \in Nat \cup {-1}
      BY <1>4, <2>3, ConstantsAssumption
    <3>3. PICK x \in Nat \cup {-1} : x = guess[h]
      BY <3>2
    <3>4. /\ HostOk(H) /\ H.hops = NoHop /\ H.active = <<>> /\ H.pending = <<>>
          /\ Own(H, Knows(hop, H.hops))
      BY <1>11, <3>1, <3>3, NewHost
    <3>5. HostInv(h, H, hop, remote, remote, handed_over)
      BY <2>3, <3>4 DEF HostInv
    <3>6. StaleHop(h, host[h], hop) => StaleHop(h, H, hop)
      BY <2>1, <3>4 DEF StaleHop
    <3> QED
      BY <1>10, <2>1, <2>2, <3>4, <3>5, <3>6 DEF HostOk
  <2>4. CASE h \notin remote
    <3>1. H = host[h]
      BY <1>4, <2>2, <2>4
    <3>2. HostInv(h, H, hop, remote, remote, handed_over)
      BY <2>1, <2>4, <3>1 DEF HostInv
    <3> QED
      BY <1>10, <2>1, <2>2, <3>1, <3>2 DEF HostOk
  <2> QED
    BY <2>3, <2>4
<1>13. HostsInv(host', hop', active_hosts', CurrentOf(phase', groups'), handed_over', Waiting(groups'))
  <2>1. host' = [h \in Hosts |-> host'[h]]
    BY <1>4
  <2>2. host' \in [Hosts -> HostState]
    BY <1>12, <2>1
  <2> QED
    BY <1>3, <1>8, <1>12, <2>2 DEF HostsInv
<1>14. num_active_probes' = Total(host') /\ num_active_probes' <= MaxOutstanding
  <2>1. PICK hs : hs = host'
    OBVIOUS
  <2>2. \A h \in Hosts : Len(hs[h].active) = 0
    BY <1>12, <2>1
  <2>3. Total(hs) = 0
    BY <2>2, TotalZero
  <2> QED
    BY <1>3, <2>1, <2>3, ConstantsAssumption
<1>15. LoopInv(active_hosts', next_sending_host', failed_host', culled')
  <2>1. remote # {} => Least(remote) \in remote
    <3>1. \A h \in Hosts : h \in Nat
      BY ConstantsAssumption DEF Hosts
    <3>2. remote \in SUBSET Nat
      BY <1>7, <3>1
    <3> QED
      BY <3>2, LeastIs
  <2> QED
    BY <1>3, <1>7, <2>1 DEF Inv, LoopInv
<1>16. trace' \in [Hosts -> SUBSET TracerouteHop]
  <2>1. 1 \in TTLs
    BY ConstantsAssumption DEF TTLs
  <2>2. \A h \in Hosts : {[ttl |-> 1, addr |-> h, tag |-> h]} \in SUBSET TracerouteHop
    BY <2>1 DEF TracerouteHop
  <2>3. trace \in [Hosts -> SUBSET TracerouteHop]
    BY DEF Inv
  <2> QED
    BY <1>3, <2>2, <2>3
<1>17. TreeOk(hop') /\ initial_ttl' \in Nat /\ handed_over' \subseteq Hosts
  BY <1>3 DEF Inv
<1> QED
  BY <1>9, <1>13, <1>14, <1>15, <1>16, <1>17 DEF Inv

\* The loop goes on from sending to reading and from reading to the timeouts.
LEMMA PhaseStep ==
  ASSUME Inv, EndSend \/ EndRead
  PROVE  Inv'
<1>1. /\ phase \in {"send", "read"} /\ phase' \in {"read", "cull"}
      /\ failed_host' \in {failed_host, NoHost} /\ culled' \in {culled, NoHost}
      /\ UNCHANGED <<groups, host, hop, active_hosts, next_sending_host, num_active_probes,
                     initial_ttl, trace, handed_over>>
  BY DEF EndSend, EndRead
<1>2. CurrentOf(phase', groups') = CurrentOf(phase, groups)
  BY <1>1 DEF CurrentOf
<1>3. GroupInv(phase', groups', active_hosts')
  BY <1>1, <1>2 DEF Inv, GroupInv
<1>4. HostsInv(host', hop', active_hosts', CurrentOf(phase', groups'), handed_over', Waiting(groups'))
  BY <1>1, <1>2 DEF Inv
<1>5. LoopInv(active_hosts', next_sending_host', failed_host', culled')
  BY <1>1 DEF Inv, LoopInv
<1>6. num_active_probes' = Total(host') /\ num_active_probes' <= MaxOutstanding
  BY <1>1 DEF Inv
<1>7. TreeOk(hop') /\ initial_ttl' \in Nat /\ trace' \in [Hosts -> SUBSET TracerouteHop]
      /\ handed_over' \subseteq Hosts
  BY <1>1 DEF Inv
<1> QED
  BY <1>3, <1>4, <1>5, <1>6, <1>7 DEF Inv

\* remove_finished_hosts() keeps the invariant.
LEMMA RemoveStep ==
  ASSUME Inv, remove_finished_hosts
  PROVE  Inv'
<1>1. PICK left : left = {h \in active_hosts : ~is_finished(host[h])}
  OBVIOUS
<1>2. /\ phase = "cull" /\ active_hosts' = left /\ next_sending_host' = SendingHostAmong(left)
      /\ phase' = (IF left = {} THEN "transfer" ELSE "send") /\ culled' = NoHost
      /\ UNCHANGED <<groups, host, hop, failed_host, num_active_probes, initial_ttl, trace, handed_over>>
  BY <1>1 DEF remove_finished_hosts
<1>3. PICK cur : cur = CurrentOf(phase, groups)
  OBVIOUS
<1>4. CurrentOf(phase', groups') = cur
  BY <1>2, <1>3 DEF CurrentOf
<1>5. left \subseteq active_hosts
  BY <1>1
<1>6. GroupInv(phase', groups', active_hosts')
  BY <1>2, <1>3, <1>4, <1>5 DEF Inv, GroupInv
<1>7. HostsInv(host, hop, active_hosts, cur, handed_over, Waiting(groups))
  BY <1>3 DEF Inv
<1>8. ASSUME NEW h \in Hosts PROVE HostInv(h, host[h], hop, left, cur, handed_over)
  <2>1. HostInv(h, host[h], hop, active_hosts, cur, handed_over)
    BY <1>7 DEF HostsInv
  <2>2. h \in active_hosts \ left =>
          ~has_more_probes(host[h]) /\ host[h].active = <<>> /\ host[h].pending = <<>>
    BY <1>1 DEF is_finished
  <2> QED
    BY <1>5, <2>1, <2>2 DEF HostInv
<1>9. HostsInv(host', hop', active_hosts', CurrentOf(phase', groups'), handed_over', Waiting(groups'))
  BY <1>2, <1>4, <1>7, <1>8 DEF HostsInv
<1>10. LoopInv(active_hosts', next_sending_host', failed_host', culled')
  <2>1. left \in SUBSET Hosts /\ next_sending_host \in Hosts \cup {NoHost}
    BY <1>5 DEF Inv, LoopInv
  <2>2. /\ left # {} => SendingHostAmong(left) \in left
        /\ left = {} => SendingHostAmong(left) = NoHost
    BY <2>1, NextHost DEF SendingHostAmong
  <2> QED
    BY <1>2, <2>1, <2>2 DEF Inv, LoopInv
<1>11. num_active_probes' = Total(host') /\ num_active_probes' <= MaxOutstanding
  BY <1>2 DEF Inv
<1>12. TreeOk(hop') /\ initial_ttl' \in Nat /\ trace' \in [Hosts -> SUBSET TracerouteHop]
       /\ handed_over' \subseteq Hosts
  BY <1>2 DEF Inv
<1> QED
  BY <1>6, <1>9, <1>10, <1>11, <1>12 DEF Inv

\* The trace of a host is finite, and no longer than there are hops.
LEMMA TransferredType ==
  ASSUME TreeOk(hop), NEW H, H.hops \in DOMAIN hop \cup {NoHop}
  PROVE  /\ Transferred(H) \in SUBSET TracerouteHop
         /\ Cardinality(Transferred(H)) \in Nat
         /\ Cardinality(Transferred(H)) <= Cardinality(DOMAIN hop) /\ Cardinality(DOMAIN hop) \in Nat
<1> DEFINE J == {j \in Chain(hop, H.hops) : H.reached_target = 0 \/ j[1] <= H.reached_target}
           E(i) == [ttl |-> i[1], addr |-> hop[i].addr, tag |-> hop[i].tag]
           T == {E(i) : i \in J}
<1>1. Transferred(H) = T
  BY DEF Transferred
<1>2. J \in SUBSET DOMAIN hop
  <2>1. Chain(hop, H.hops) \subseteq DOMAIN hop
    BY ChainHops
  <2> QED
    BY <2>1
<1>3. \A i \in DOMAIN hop : E(i) \in TracerouteHop
  <2> SUFFICES ASSUME NEW i \in DOMAIN hop PROVE E(i) \in TracerouteHop
    OBVIOUS
  <2>1. i[1] \in TTLs /\ hop[i] \in Hop
    BY HopIdType DEF TreeOk
  <2> QED
    BY <2>1 DEF TracerouteHop, Hop
<1>4. IsFiniteSet(DOMAIN hop)
  BY DEF TreeOk
<1>5. IsFiniteSet(J) /\ Cardinality(J) <= Cardinality(DOMAIN hop)
  <2> HIDE DEF J
  <2> QED
    BY <1>2, <1>4, FS_Subset
<1> HIDE DEF J, E
<1>6. PICK f : f = [i \in J |-> E(i)]
  OBVIOUS
<1>7. f \in Surjection(J, T)
  <2>1. f \in [J -> T] /\ \A y \in T : \E i \in J : f[i] = y
    BY <1>6
  <2> HIDE DEF T
  <2> QED
    BY <2>1 DEF Surjection
<1>8. IsFiniteSet(T) /\ Cardinality(T) <= Cardinality(J)
  <2> HIDE DEF T
  <2> QED
    BY <1>5, <1>7, FS_Surjection
<1>9. T \in SUBSET TracerouteHop
  BY <1>2, <1>3
<1>10. Cardinality(T) \in Nat /\ Cardinality(J) \in Nat /\ Cardinality(DOMAIN hop) \in Nat
  <2> HIDE DEF T
  <2> QED
    BY <1>4, <1>5, <1>8, FS_CardinalityType
<1> HIDE DEF T
<1> QED
  BY <1>1, <1>5, <1>8, <1>9, <1>10

\* ~HostState() and the end of a group leave a host without probes and hops.
LEMMA EmptiedHost ==
  ASSUME NEW H, HostOk(H), H.active = <<>>, H.pending = <<>>
  PROVE  LET N == [H EXCEPT !.hops = NoHop, !.unanswered = {}, !.resends = [t \in TTLs |-> 0]]
         IN HostOk(N) /\ N.hops = NoHop /\ N.active = <<>> /\ N.pending = <<>>
<1>1. PICK r : r = [t \in TTLs |-> 0]
  OBVIOUS
<1>2. r \in [TTLs -> 0 .. MaxResends]
  BY <1>1, ConstantsAssumption
<1>3. PICK N : N = [H EXCEPT !.hops = NoHop, !.unanswered = {}, !.resends = r]
  OBVIOUS
<1>4. H \in HostState /\ ListsOk(H)
  BY DEF HostOk
<1>5. /\ N.hops = NoHop /\ N.unanswered = {} /\ N.resends = r /\ N.active = <<>> /\ N.pending = <<>>
      /\ N.state = H.state /\ N.current_ttl = H.current_ttl /\ N.sent_ttls = H.sent_ttls
  BY <1>3, <1>4 DEF HostState
<1>6. N \in HostState
  BY <1>2, <1>3, <1>4 DEF HostState
<1>7. SeqRange(<<>>) = {} /\ Injective(<<>>)
  BY DEF SeqRange, Injective
<1>8. ListsOk(N)
  BY <1>4, <1>5, <1>7 DEF ListsOk
<1> QED
  BY <1>1, <1>3, <1>5, <1>6, <1>8 DEF HostOk

\* The cache may be cleared between groups.
LEMMA ClearedTree ==
  ASSUME TreeOk(hop), NEW tree2, tree2 = hop \/ tree2 = [i \in {} |-> hop[i]]
  PROVE  TreeOk(tree2) /\ DOMAIN tree2 \subseteq DOMAIN hop
<1>1. CASE tree2 = hop
  BY <1>1
<1>2. CASE tree2 = [i \in {} |-> hop[i]]
  <2>1. DOMAIN tree2 = {}
    BY <1>2
  <2>2. IsFiniteSet({})
    BY FS_EmptySet
  <2>3. tree2 \in [{} -> Hop]
    BY <1>2
  <2> QED
    BY <2>1, <2>2, <2>3 DEF TreeOk
<1> QED
  BY <1>1, <1>2

\* transfer_hops() ends a group.
LEMMA EndStep ==
  ASSUME Inv, EndGroup
  PROVE  Inv'
<1>1. PICK remote : remote = (Head(groups) \ Ignored) \ Direct
  OBVIOUS
<1>2. PICK traces : traces = [h \in Hosts |-> IF h \in remote THEN Transferred(host[h]) ELSE trace[h]]
  OBVIOUS
<1>3. /\ phase = "transfer" /\ trace' = traces
      /\ initial_ttl' = Greatest({Cardinality(traces[h]) : h \in remote})
      /\ hop' = (IF hop_cache_size > MaxCache THEN [i \in {} |-> hop[i]] ELSE hop)
      /\ host' = [h \in Hosts |-> [host[h] EXCEPT !.hops = NoHop, !.unanswered = {},
                                                  !.resends = [t \in TTLs |-> 0]]]
      /\ groups' = Tail(groups) /\ phase' = "start"
      /\ UNCHANGED <<active_hosts, next_sending_host, failed_host, num_active_probes, culled,
                     handed_over>>
  BY <1>1, <1>2 DEF EndGroup
<1>4. /\ active_hosts = {} /\ groups \in Seq(SUBSET Hosts) /\ groups # <<>> /\ remote # {}
      /\ CurrentOf(phase, groups) = remote
      /\ \A i, j \in DOMAIN groups : i # j => groups[i] \cap groups[j] = {}
  BY <1>1, <1>3 DEF Inv, GroupInv, CurrentOf
<1>5. /\ Tail(groups) \in Seq(SUBSET Hosts) /\ Head(groups) \in SUBSET Hosts
      /\ Waiting(Tail(groups)) \subseteq Waiting(groups) /\ Waiting(Tail(groups)) \cap Head(groups) = {}
      /\ \A i, j \in DOMAIN Tail(groups) : i # j => Tail(groups)[i] \cap Tail(groups)[j] = {}
  BY <1>4, TailGroups
<1>6. remote \subseteq Hosts /\ CurrentOf(phase', groups') = {}
  BY <1>1, <1>3, <1>5 DEF CurrentOf
<1>7. GroupInv(phase', groups', active_hosts')
  BY <1>3, <1>4, <1>5 DEF GroupInv
<1>8. TreeOk(hop)
  BY DEF Inv
<1>9. PICK tree2 : tree2 = hop'
  OBVIOUS
<1>10. TreeOk(tree2) /\ DOMAIN tree2 \subseteq DOMAIN hop
  BY <1>3, <1>8, <1>9, ClearedTree
<1>11. ASSUME NEW h \in Hosts
       PROVE  /\ HostInv(h, host'[h], tree2, {}, {}, handed_over)
              /\ host'[h].active = <<>> /\ host'[h] \in HostState
              /\ h \in Waiting(groups') => StaleHop(h, host'[h], tree2)
  <2>1. /\ HostOk(host[h]) /\ host[h].active = <<>> /\ host[h].pending = <<>>
        /\ h \notin remote => host[h].hops = NoHop
        /\ h \in Waiting(groups) => StaleHop(h, host[h], hop)
    BY <1>4, IdleHosts
  <2>2. PICK H : H = host'[h]
    OBVIOUS
  <2>3. H = [host[h] EXCEPT !.hops = NoHop, !.unanswered = {}, !.resends = [t \in TTLs |-> 0]]
    BY <1>3, <2>2
  <2>4. HostOk(H) /\ H.hops = NoHop /\ H.active = <<>> /\ H.pending = <<>>
    BY <2>1, <2>3, EmptiedHost
  <2>5. HostInv(h, H, tree2, {}, {}, handed_over)
    BY <2>4 DEF HostInv
  <2>6. ASSUME h \in Waiting(groups') PROVE StaleHop(h, H, tree2)
    <3>1. h \in Waiting(groups) /\ h \notin remote
      BY <1>1, <1>3, <1>5, <2>6
    <3>2. host[h].hops = NoHop /\ StaleHop(h, host[h], hop)
      BY <2>1, <3>1
    <3>3. Knows(hop, NoHop) = {}
      BY <1>8, KnowsOwn
    <3>4. \A t \in TTLs : <<t, -h>> \notin DOMAIN hop
      BY <3>2, <3>3 DEF StaleHop
    <3> QED
      BY <1>10, <3>4 DEF StaleHop
  <2> QED
    BY <2>2, <2>4, <2>5, <2>6 DEF HostOk
<1>12. HostsInv(host', hop', active_hosts', CurrentOf(phase', groups'), handed_over', Waiting(groups'))
  <2>1. host' = [h \in Hosts |-> host'[h]]
    BY <1>3
  <2>2. host' \in [Hosts -> HostState]
    BY <1>11, <2>1
  <2> QED
    BY <1>3, <1>4, <1>6, <1>9, <1>11, <2>2 DEF HostsInv
<1>13. num_active_probes' = Total(host') /\ num_active_probes' <= MaxOutstanding
  <2>1. PICK hs : hs = host'
    OBVIOUS
  <2>2. \A h \in Hosts : Len(hs[h].active) = 0
    BY <1>11, <2>1
  <2>3. \A h \in Hosts : Len(host[h].active) = 0
    BY <1>4, IdleHosts
  <2>4. Total(hs) = 0 /\ Total(host) = 0
    BY <2>2, <2>3, TotalZero
  <2> QED
    BY <1>3, <2>1, <2>4 DEF Inv
<1>14. LoopInv(active_hosts', next_sending_host', failed_host', culled')
  BY <1>3 DEF Inv, LoopInv
<1>15. PICK b \in Nat : b = Cardinality(DOMAIN hop)
  BY <1>8, FS_CardinalityType DEF TreeOk
<1>16. ASSUME NEW h \in remote
       PROVE  /\ traces[h] \in SUBSET TracerouteHop /\ Cardinality(traces[h]) \in Nat
              /\ Cardinality(traces[h]) <= b
  <2>1. host[h].hops \in DOMAIN hop \cup {NoHop}
    BY <1>6, <1>16 DEF Inv, HostsInv, HostInv
  <2>2. PICK H : H = host[h]
    OBVIOUS
  <2>3. /\ Transferred(H) \in SUBSET TracerouteHop /\ Cardinality(Transferred(H)) \in Nat
        /\ Cardinality(Transferred(H)) <= Cardinality(DOMAIN hop)
    BY <1>8, <2>1, <2>2, TransferredType
  <2>4. traces[h] = Transferred(H)
    BY <1>2, <1>6, <1>16, <2>2
  <2> QED
    BY <1>15, <2>3, <2>4
<1>17. trace' \in [Hosts -> SUBSET TracerouteHop]
  <2>1. trace \in [Hosts -> SUBSET TracerouteHop]
    BY DEF Inv
  <2>2. \A h \in Hosts : traces[h] \in SUBSET TracerouteHop
    BY <1>2, <1>16, <2>1
  <2>3. traces = [h \in Hosts |-> traces[h]]
    BY <1>2
  <2> QED
    BY <1>3, <2>2, <2>3
<1>18. initial_ttl' \in Nat
  <2>1. PICK S : S = {Cardinality(traces[h]) : h \in remote}
    OBVIOUS
  <2>2. S \in SUBSET Nat /\ S # {} /\ \A m \in S : m <= b
    BY <1>4, <1>16, <2>1
  <2>3. Greatest(S) \in S
    BY <2>2, GreatestIs
  <2> QED
    BY <1>3, <2>1, <2>2, <2>3
<1>19. TreeOk(hop') /\ handed_over' \subseteq Hosts
  BY <1>3, <1>9, <1>10 DEF Inv
<1> QED
  BY <1>7, <1>12, <1>13, <1>14, <1>17, <1>18, <1>19 DEF Inv

-------------------------------------------------------------------------------
(* The theorems. *)

\* The invariant holds before the first group.
LEMMA InitInv == Init => Inv
<1> SUFFICES ASSUME Init PROVE Inv
  OBVIOUS
<1>1. /\ phase = "start" /\ groups \in Groupings /\ initial_ttl \in Nat
      /\ host = [h \in Hosts |-> NewHostState(-1)] /\ DOMAIN hop = {} /\ hop \in [{} -> Hop]
      /\ active_hosts = {} /\ next_sending_host = NoHost /\ failed_host = NoHost
      /\ num_active_probes = 0 /\ culled = NoHost
      /\ trace = [h \in Hosts |-> {}] /\ handed_over = {}
  BY ConstantsAssumption DEF Init
<1>2. GroupInv(phase, groups, active_hosts)
  BY <1>1, GroupingsAssumption DEF GroupInv
<1>3. IsFiniteSet({})
  BY FS_EmptySet
<1>4. TreeOk(hop)
  BY <1>1, <1>3 DEF TreeOk
<1>5. ASSUME NEW h \in Hosts
      PROVE  /\ HostInv(h, host[h], hop, {}, {}, {}) /\ StaleHop(h, host[h], hop)
             /\ host[h].active = <<>> /\ host[h] \in HostState
  <2>1. PICK H : H = host[h]
    OBVIOUS
  <2>2. H = NewHostState(-1) /\ -1 \in Nat \cup {-1}
    BY <1>1, <2>1
  <2>3. HostOk(H) /\ H.hops = NoHop /\ H.active = <<>> /\ H.pending = <<>>
    BY <1>1, <2>2, NewHost
  <2>4. HostInv(h, H, hop, {}, {}, {}) /\ StaleHop(h, H, hop)
    BY <1>1, <2>3 DEF HostInv, StaleHop
  <2> QED
    BY <2>1, <2>3, <2>4 DEF HostOk
<1>6. CurrentOf(phase, groups) = {}
  BY <1>1 DEF CurrentOf
<1>7. HostsInv(host, hop, active_hosts, CurrentOf(phase, groups), handed_over, Waiting(groups))
  <2>1. host \in [Hosts -> HostState]
    BY <1>1, <1>5
  <2> QED
    BY <1>1, <1>5, <1>6, <2>1 DEF HostsInv
<1>8. Total(host) = 0
  BY <1>5, TotalZero
<1>9. LoopInv(active_hosts, next_sending_host, failed_host, culled)
  BY <1>1 DEF LoopInv
<1>10. num_active_probes = Total(host) /\ num_active_probes <= MaxOutstanding
  BY <1>1, <1>8, ConstantsAssumption
<1>11. trace \in [Hosts -> SUBSET TracerouteHop] /\ handed_over \subseteq Hosts
  BY <1>1
<1> QED
  BY <1>1, <1>2, <1>4, <1>7, <1>9, <1>10, <1>11 DEF Inv

\* Every step keeps it.
LEMMA NextInv == Inv /\ [Next]_vars => Inv'
<1> SUFFICES ASSUME Inv, [Next]_vars PROVE Inv'
  OBVIOUS
<1>1. CASE NextPhase
  BY <1>1, StartStep, PhaseStep, RemoveStep, EndStep DEF NextPhase
<1>2. CASE SendProbe
  BY <1>2, SendStep
<1>3. CASE CullSome
  BY <1>3, CullStep DEF CullSome
<1>4. ASSUME NEW h \in Hosts, NEW ttl \in TTLs, NEW addr \in Addresses, NEW d \in Distances,
             ReadReply(h, ttl, addr, d)
      PROVE  Inv'
  BY <1>4, ReadStep
<1>5. CASE UNCHANGED vars
  <2>1. /\ phase' = phase /\ groups' = groups /\ host' = host /\ hop' = hop
        /\ active_hosts' = active_hosts /\ next_sending_host' = next_sending_host
        /\ failed_host' = failed_host /\ num_active_probes' = num_active_probes
        /\ culled' = culled /\ initial_ttl' = initial_ttl /\ trace' = trace
        /\ handed_over' = handed_over
    BY <1>5 DEF vars
  <2> QED
    BY <2>1 DEF Inv
<1>6. CASE Finished
  BY <1>5, <1>6 DEF Finished
<1> QED
  BY <1>1, <1>2, <1>3, <1>4, <1>5, <1>6 DEF Next

\* Every behaviour of the specification has the invariant.
LEMMA Invariance == Spec => []Inv
BY InitInv, NextInv, PTL DEF Spec

\* Each variable has its type, and next_sending_host is an active host whenever there is
\* one: send_new_probes() never follows an iterator to a host that
\* remove_finished_hosts() has erased.
THEOREM TypeCorrect == Spec => []TypeOK
<1>1. ASSUME Inv PROVE TypeOK
  <2>1. num_active_probes \in Nat
    BY <1>1, CountType
  <2> QED
    BY <1>1, <2>1 DEF Inv, GroupInv, HostsInv, LoopInv, TreeOk, TypeOK
<1> QED
  BY <1>1, Invariance, PTL

\* num_active_probes is the number of the active probes of all hosts, at most
\* MAX_OUTSTANDING_PROBES, and no probe is on two lists or on one of them twice, for any
\* number of hosts and any choice of answers and timeouts.
THEOREM ProbeAccounting == Spec => []ProbeListsAgree
<1>1. ASSUME Inv PROVE ProbeListsAgree
  <2>1. num_active_probes = ActiveProbes
    BY <1>1 DEF Inv, Total, ActiveProbes
  <2>2. num_active_probes <= MaxOutstanding
    BY <1>1 DEF Inv
  <2>3. ASSUME NEW h \in Hosts
        PROVE  /\ SeqRange(host[h].active \o host[h].pending) \subseteq host[h].unanswered
               /\ Cardinality(SeqRange(host[h].active \o host[h].pending))
                    = Len(host[h].active \o host[h].pending)
    <3>1. PICK H : H = host[h]
      OBVIOUS
    <3>2. HostOk(H)
      BY <1>1, <3>1 DEF Inv, HostsInv, HostInv
    <3>3. Lists(H.active, SeqRange(H.active)) /\ Lists(H.pending, SeqRange(H.pending))
      BY <3>2, HostLists
    <3>4. /\ SeqRange(H.active) \cap SeqRange(H.pending) = {}
          /\ SeqRange(H.active) \cup SeqRange(H.pending) \subseteq H.unanswered
      BY <3>2 DEF HostOk, ListsOk
    <3>5. PICK l : l = H.active
      OBVIOUS
    <3>6. PICK m : m = H.pending
      OBVIOUS
    <3>7. PICK R : R = SeqRange(l)
      OBVIOUS
    <3>8. PICK Q : Q = SeqRange(m)
      OBVIOUS
    <3>9. Lists(l, R) /\ Lists(m, Q) /\ R \cap Q = {} /\ R \cup Q \subseteq H.unanswered
      BY <3>3, <3>4, <3>5, <3>6, <3>7, <3>8
    <3>10. SeqRange(l \o m) = R \cup Q /\ Cardinality(SeqRange(l \o m)) = Len(l \o m)
      BY <3>9, ListConcat
    <3> QED
      BY <3>1, <3>5, <3>6, <3>9, <3>10
  <2> QED
    BY <2>1, <2>2, <2>3 DEF ProbeListsAgree
<1> QED
  BY <1>1, Invariance, PTL

\* insert_hop(), link_to() and merge_hops() keep the hops of all hosts a tree whose parents
\* are nearer than their children, in any order of answers, timeouts and merges.
THEOREM HopsStayTree == Spec => []HopTreeSound
<1>1. ASSUME Inv PROVE HopTreeSound
  <2>1. TreeOk(hop) /\ \A h \in Hosts : host[h].hops \in DOMAIN hop \cup {NoHop}
    BY <1>1 DEF Inv, HostsInv, HostInv
  <2> QED
    BY <2>1 DEF HopTreeSound, TreeOk
<1> QED
  BY <1>1, Invariance, PTL

\* The TTLs of the hops of a chain, and of those that have answered.
PathTTLs(tree, j) == {i[1] : i \in Chain(tree, j)}
PathAnswers(tree, j) == {i[1] : i \in {k \in Chain(tree, j) : tree[k].addr # NoAddress}}

\* These are the TTLs that a chain knows.
LEMMA KnowsTTLs ==
  ASSUME NEW tree, TreeOk(tree), NEW j \in DOMAIN tree \cup {NoHop}, NEW t
  PROVE  /\ t \in PathTTLs(tree, j) <=> <<t, FALSE>> \in Knows(tree, j)
         /\ t \in PathAnswers(tree, j) <=> <<t, TRUE>> \in Knows(tree, j)
<1>1. \A i \in Chain(tree, j) : i \in DOMAIN tree /\ i[1] \in TTLs
  BY ChainHops, HopIdType DEF TreeOk
<1>2. t \in PathTTLs(tree, j) <=> <<t, FALSE>> \in Knows(tree, j)
  BY <1>1 DEF PathTTLs, Knows
<1>3. t \in PathAnswers(tree, j) <=> <<t, TRUE>> \in Knows(tree, j)
  BY <1>1 DEF PathAnswers, Knows
<1> QED
  BY <1>2, <1>3

\* A host that has sent all its probes and has none left knows every TTL up to its target.
LEMMA OwnComplete ==
  ASSUME NEW H, HostOk(H), NEW K, Own(H, K), ~has_more_probes(H), H.active = <<>>, H.pending = <<>>,
         NEW t \in 1 .. (IF H.reached_target > 0 THEN H.reached_target ELSE MaxTTL)
  PROVE  <<t, FALSE>> \in K
<1>1. PICK r \in 0 .. MaxTTL : r = H.reached_target
  BY DEF HostOk, HostState
<1>2. PICK c \in 1 .. MaxTTL + 1 : c = H.current_ttl
  BY DEF HostOk, HostState
<1>3. MaxTTL \in Nat /\ TTLs = 1 .. MaxTTL
  BY ConstantsAssumption DEF TTLs
<1>4. t \in TTLs /\ (r > 0 => t <= r)
  BY <1>1, <1>3
<1>5. H.state = "COUNTING_UP" /\ ((r > 0 /\ c >= r) \/ c > MaxTTL)
  BY <1>1, <1>2 DEF has_more_probes
<1>6. CASE r > 0 /\ t = r
  BY <1>1, <1>6 DEF Own
<1>7. CASE ~(r > 0 /\ t = r)
  <2>1. t < c
    BY <1>1, <1>2, <1>3, <1>4, <1>5, <1>7
  <2>2. t \in H.sent_ttls
    BY <1>2, <1>4, <1>5, <2>1 DEF Own
  <2>3. SeqRange(H.active) \cup SeqRange(H.pending) = {}
    BY DEF SeqRange
  <2>4. <<t, FALSE>> \in K \/ (0 < r /\ r < t)
    BY <1>1, <2>2, <2>3 DEF Own
  <2> QED
    BY <1>1, <1>3, <1>4, <2>4
<1> QED
  BY <1>6, <1>7

\* A host that did not leave its trace to another one has a hop for each TTL up to its
\* target when its group ends, however answers moved current_ttl and reached_target.
THEOREM OwnTracesComplete == Spec => []OwnTraceComplete
<1>1. ASSUME Inv PROVE OwnTraceComplete
  <2> SUFFICES ASSUME NEW h \in Traced \ handed_over PROVE Complete(h)
    BY DEF OwnTraceComplete
  <2>1. phase = "transfer" /\ h \in Head(groups) \ (Ignored \cup Direct)
    BY DEF Traced
  <2>2. active_hosts = {} /\ groups \in Seq(SUBSET Hosts) /\ groups # <<>>
    BY <1>1, <2>1 DEF Inv, GroupInv
  <2>3. Head(groups) \in SUBSET Hosts
    BY <2>2, HeadTailProperties
  <2>4. h \in Hosts /\ h \in CurrentOf(phase, groups)
    BY <2>1, <2>3 DEF CurrentOf
  <2>5. PICK H : H = host[h]
    OBVIOUS
  <2>6. /\ HostOk(H) /\ H.hops \in DOMAIN hop \cup {NoHop} /\ H.active = <<>> /\ H.pending = <<>>
        /\ ~has_more_probes(H) /\ Own(H, Knows(hop, H.hops))
    BY <1>1, <2>2, <2>4, <2>5 DEF Inv, HostsInv, HostInv
  <2>7. TreeOk(hop)
    BY <1>1 DEF Inv
  <2>8. HopTTLs(h) = PathTTLs(hop, H.hops)
    BY <2>5 DEF HopTTLs, PathTTLs
  <2>9. ASSUME NEW t \in 1 .. (IF H.reached_target > 0 THEN H.reached_target ELSE MaxTTL)
        PROVE  t \in HopTTLs(h)
    <3>1. <<t, FALSE>> \in Knows(hop, H.hops)
      BY <2>6, OwnComplete
    <3>2. PICK j : j = H.hops
      OBVIOUS
    <3>3. PICK u : u = t
      OBVIOUS
    <3>4. u \in PathTTLs(hop, j) <=> <<u, FALSE>> \in Knows(hop, j)
      BY <2>6, <2>7, <3>2, KnowsTTLs
    <3> QED
      BY <2>8, <3>1, <3>2, <3>3, <3>4
  <2> QED
    BY <2>5, <2>9 DEF Complete
<1> QED
  BY <1>1, Invariance, PTL

\* What no host may lose: the TTLs of its chain, and the answers in it.
LEMMA KeptTTLs ==
  ASSUME Inv, Inv', PathsKept(host, hop, host', hop'), NEW h \in Hosts
  PROVE  HopTTLs(h) \subseteq HopTTLs(h)' /\ AnsweredTTLs(h) \subseteq AnsweredTTLs(h)'
<1>1. PICK j : j = host[h].hops
  OBVIOUS
<1>2. PICK tree2 : tree2 = hop'
  OBVIOUS
<1>3. PICK j2 : j2 = host'[h].hops
  OBVIOUS
<1>4. TreeOk(hop) /\ j \in DOMAIN hop \cup {NoHop}
  BY <1>1 DEF Inv, HostsInv, HostInv
<1>5. TreeOk(tree2) /\ j2 \in DOMAIN tree2 \cup {NoHop}
  <2>1. TreeOk(hop') /\ host'[h].hops \in DOMAIN hop' \cup {NoHop}
    BY DEF Inv, HostsInv, HostInv
  <2> QED
    BY <1>2, <1>3, <2>1
<1>6. Knows(hop, j) \subseteq Knows(tree2, j2)
  BY <1>1, <1>2, <1>3 DEF PathsKept
<1>7. ASSUME NEW t PROVE /\ t \in PathTTLs(hop, j) => t \in PathTTLs(tree2, j2)
                         /\ t \in PathAnswers(hop, j) => t \in PathAnswers(tree2, j2)
  <2>1. /\ t \in PathTTLs(hop, j) <=> <<t, FALSE>> \in Knows(hop, j)
        /\ t \in PathAnswers(hop, j) <=> <<t, TRUE>> \in Knows(hop, j)
    BY <1>4, KnowsTTLs
  <2>2. /\ t \in PathTTLs(tree2, j2) <=> <<t, FALSE>> \in Knows(tree2, j2)
        /\ t \in PathAnswers(tree2, j2) <=> <<t, TRUE>> \in Knows(tree2, j2)
    BY <1>5, KnowsTTLs
  <2> QED
    BY <1>6, <2>1, <2>2
<1>8. HopTTLs(h) = PathTTLs(hop, j) /\ AnsweredTTLs(h) = PathAnswers(hop, j)
  BY <1>1 DEF HopTTLs, AnsweredTTLs, PathTTLs, PathAnswers
<1>9. HopTTLs(h)' = PathTTLs(tree2, j2) /\ AnsweredTTLs(h)' = PathAnswers(tree2, j2)
  BY <1>2, <1>3 DEF HopTTLs, AnsweredTTLs, PathTTLs, PathAnswers
<1> QED
  BY <1>7, <1>8, <1>9

\* Until its hops are transferred no step takes from a host what it knows of its path.
LEMMA NextKeeps ==
  ASSUME Inv, [Next]_vars, phase # "transfer"
  PROVE  PathsKept(host, hop, host', hop')
<1>1. CASE UNCHANGED <<host, hop>>
  BY <1>1 DEF PathsKept
<1>2. CASE StartGroup
  <2>1. phase = "start" /\ hop' = hop
    BY <1>2 DEF StartGroup
  <2>2. active_hosts = {} /\ CurrentOf(phase, groups) = {}
    BY <2>1 DEF Inv, GroupInv, CurrentOf
  <2>3. \A h \in Hosts : host[h].hops = NoHop
    BY <2>2, IdleHosts
  <2>4. Knows(hop, NoHop) = {}
    BY KnowsOwn DEF Inv
  <2> QED
    BY <2>3, <2>4 DEF PathsKept
<1>3. CASE SendProbe
  BY <1>3, SendStep
<1>4. CASE CullSome
  BY <1>4, CullStep DEF CullSome
<1>5. ASSUME NEW h \in Hosts, NEW ttl \in TTLs, NEW addr \in Addresses, NEW d \in Distances,
             ReadReply(h, ttl, addr, d)
      PROVE  PathsKept(host, hop, host', hop')
  BY <1>5, ReadStep
<1>6. CASE EndSend \/ EndRead \/ remove_finished_hosts \/ Finished \/ UNCHANGED vars
  BY <1>1, <1>6 DEF EndSend, EndRead, remove_finished_hosts, Finished, vars
<1>7. ~EndGroup
  BY DEF EndGroup
<1> QED
  BY <1>2, <1>3, <1>4, <1>5, <1>6, <1>7 DEF Next, NextPhase

\* Whatever other hosts link or merge, the chain of a host keeps the TTLs it has, and a
\* timed-out hop never takes the place of an answer.
THEOREM AnswersAreKept == Spec => AnswersKept
<1>1. ASSUME Inv, [Next]_vars
      PROVE  [phase # "transfer" =>
                \A h \in Hosts : /\ HopTTLs(h) \subseteq HopTTLs(h)'
                                 /\ AnsweredTTLs(h) \subseteq AnsweredTTLs(h)']_vars
  <2>1. Inv'
    BY <1>1, NextInv
  <2>2. ASSUME phase # "transfer", NEW h \in Hosts
        PROVE  HopTTLs(h) \subseteq HopTTLs(h)' /\ AnsweredTTLs(h) \subseteq AnsweredTTLs(h)'
    <3>1. PathsKept(host, hop, host', hop')
      BY <1>1, <2>2, NextKeeps
    <3> QED
      BY <1>1, <2>1, <3>1, KeptTTLs
  <2> QED
    BY <2>2
<1> QED
  BY <1>1, Invariance, PTL DEF Spec, AnswersKept

================================================================================
