--------------------------- MODULE ConnectScanProofs ---------------------------
(***************************************************************************)
(* Theorems about the sockets of a connect() scan, for any number of ports *)
(* and tries, any FD_SETSIZE and any limit on the sockets: none leaks,     *)
(* none is closed twice, select() watches exactly the ones that have no    *)
(* result yet, and no descriptor is beyond an fd_set.                      *)
(***************************************************************************)
EXTENDS ConnectScan, FiniteSetTheorems, SequenceTheorems, TLAPS

-------------------------------------------------------------------------------
(* Natural numbers. *)

\* A set of natural numbers that is not empty has a least element.
LEMMA LeastNat ==
  ASSUME NEW S \in SUBSET Nat, S # {}
  PROVE  \E n \in S : \A m \in S : n <= m
<1>1. PICK n \in S : \A m \in S : ~ (<<m, n>> \in OpToRel(<, Nat))
  BY WFMin, NatLessThanWellFounded, Zenon
<1>2. \A m \in S : ~ (m < n)
  BY <1>1, Zenon DEF OpToRel
<1> QED
  BY <1>2

\* A finite set of descriptors leaves one free that is no larger than their number.
LEMMA FreeDescriptor ==
  ASSUME NEW U \in SUBSET Nat, IsFiniteSet(U)
  PROVE  \E sd \in 0 .. Cardinality(U) :
           sd \notin U /\ \A d \in 0 .. sd - 1 : d \in U
<1> DEFINE n == Cardinality(U)
           free == {d \in 0 .. n : d \notin U}
<1>1. n \in Nat
  BY FS_CardinalityType
<1>2. free # {}
  <2> SUFFICES ASSUME 0 .. n \subseteq U PROVE FALSE
    OBVIOUS
  <2>1. Cardinality(0 .. n) <= Cardinality(U)
    BY FS_Subset
  <2>2. Cardinality(0 .. n) = n + 1
    <3> HIDE DEF n
    <3>1. Cardinality(0 .. n) = IF 0 > n THEN 0 ELSE n - 0 + 1
      BY <1>1, FS_Interval
    <3> QED
      BY <1>1, <3>1
  <2> QED
    BY <1>1, <2>1, <2>2
<1>3. PICK sd \in free : \A d \in free : sd <= d
  <2>1. free \in SUBSET Nat
    BY <1>1
  <2> HIDE DEF free
  <2> QED
    BY <1>2, <2>1, LeastNat
<1>4. \A d \in 0 .. sd - 1 : d \in U
  <2> HIDE DEF n
  <2> QED
    BY <1>1, <1>3
<1> QED
  BY <1>3, <1>4

-------------------------------------------------------------------------------
(* The probes, as a sequence. *)

Probe == [port : Ports, sd : Nat]

\* The descriptors of the probes once a probe was appended.
LEMMA SdsAppend ==
  ASSUME NEW S \in Seq(Probe), NEW p \in Probe
  PROVE  /\ Append(S, p) \in Seq(Probe)
         /\ Sds(Append(S, p)) = Sds(S) \cup {p.sd}
         /\ (\A i, j \in DOMAIN S : S[i].sd = S[j].sd => i = j) /\ p.sd \notin Sds(S)
              => \A i, j \in DOMAIN Append(S, p) :
                   Append(S, p)[i].sd = Append(S, p)[j].sd => i = j
<1> DEFINE T == Append(S, p)
           n == Len(S)
<1>1. /\ T \in Seq(Probe) /\ n \in Nat /\ Len(T) = n + 1
      /\ \A i \in 1 .. n : T[i] = S[i]
      /\ T[n + 1] = p
  BY AppendProperties, LenProperties
<1>2. DOMAIN S = 1 .. n /\ DOMAIN T = 1 .. n + 1
  BY <1>1, LenProperties
<1> HIDE DEF T, n
<1>3. \A i \in DOMAIN T : i \in DOMAIN S \/ i = n + 1
  BY <1>1, <1>2
<1>4. DOMAIN S \subseteq DOMAIN T /\ n + 1 \in DOMAIN T /\ n + 1 \notin DOMAIN S
  BY <1>1, <1>2
<1>5. Sds(T) = Sds(S) \cup {p.sd}
  BY <1>1, <1>2, <1>3, <1>4 DEF Sds
<1>6. ASSUME \A i, j \in DOMAIN S : S[i].sd = S[j].sd => i = j, p.sd \notin Sds(S),
             NEW i \in DOMAIN T, NEW j \in DOMAIN T, T[i].sd = T[j].sd
      PROVE  i = j
  BY <1>1, <1>2, <1>3, <1>6 DEF Sds
<1> QED
  BY <1>1, <1>5, <1>6 DEF T

\* The descriptors of the probes once the k-th one was removed.
LEMMA SdsRemove ==
  ASSUME NEW S \in Seq(Probe), NEW k \in DOMAIN S,
         \A i, j \in DOMAIN S : S[i].sd = S[j].sd => i = j
  PROVE  LET T == SubSeq(S, 1, k - 1) \o SubSeq(S, k + 1, Len(S)) IN
         /\ T \in Seq(Probe)
         /\ Sds(T) = Sds(S) \ {S[k].sd}
         /\ \A i, j \in DOMAIN T : T[i].sd = T[j].sd => i = j
<1> DEFINE n == Len(S)
           A == SubSeq(S, 1, k - 1)
           B == SubSeq(S, k + 1, n)
           T == A \o B
<1>1. n \in Nat /\ DOMAIN S = 1 .. n /\ k \in 1 .. n /\ \A i \in 1 .. n : S[i] \in Probe
  BY LenProperties, ElementOfSeq
<1> HIDE DEF n
<1>2. /\ A \in Seq(Probe) /\ Len(A) = k - 1
      /\ \A i \in 1 .. k - 1 : A[i] = S[i]
  <2>1. \A i \in 1 .. k - 1 : S[i] \in Probe
    BY <1>1
  <2>2. /\ A \in Seq(Probe) /\ Len(A) = IF 1 <= k - 1 THEN k - 1 - 1 + 1 ELSE 0
        /\ \A i \in 1 .. k - 1 - 1 + 1 : A[i] = S[1 + i - 1]
    BY <1>1, <2>1, SubSeqProperties
  <2> QED
    BY <1>1, <2>2
<1>3. /\ B \in Seq(Probe) /\ Len(B) = n - k
      /\ \A i \in 1 .. n - k : B[i] = S[k + i]
  <2>1. \A i \in k + 1 .. n : S[i] \in Probe
    BY <1>1
  <2>2. /\ B \in Seq(Probe) /\ Len(B) = IF k + 1 <= n THEN n - (k + 1) + 1 ELSE 0
        /\ \A i \in 1 .. n - (k + 1) + 1 : B[i] = S[k + 1 + i - 1]
    BY <1>1, <2>1, SubSeqProperties
  <2> QED
    BY <1>1, <2>2
<1> HIDE DEF A, B
<1>4. /\ T \in Seq(Probe) /\ Len(T) = n - 1
      /\ \A i \in 1 .. n - 1 : T[i] = S[IF i < k THEN i ELSE i + 1]
  <2>1. /\ T \in Seq(Probe) /\ Len(T) = Len(A) + Len(B)
        /\ \A i \in 1 .. Len(A) + Len(B) : T[i] = IF i <= Len(A) THEN A[i] ELSE B[i - Len(A)]
    <3>1. A \in Seq(Probe) /\ B \in Seq(Probe)
      BY <1>2, <1>3
    <3>2. PICK a \in Seq(Probe) : a = A
      BY <3>1
    <3>3. PICK b \in Seq(Probe) : b = B
      BY <3>1
    <3>4. PICK P : P = Probe
      OBVIOUS
    <3>5. a \in Seq(P) /\ b \in Seq(P)
      BY <3>4
    <3>6. /\ a \o b \in Seq(P) /\ Len(a \o b) = Len(a) + Len(b)
          /\ \A i \in 1 .. Len(a) + Len(b) :
               (a \o b)[i] = IF i <= Len(a) THEN a[i] ELSE b[i - Len(a)]
      BY <3>5, ConcatProperties
    <3> QED
      BY <3>2, <3>3, <3>4, <3>6, Zenon
  <2>2. ASSUME NEW i \in 1 .. n - 1 PROVE T[i] = S[IF i < k THEN i ELSE i + 1]
    <3>1. CASE i < k
      BY <1>1, <1>2, <1>3, <2>1, <3>1
    <3>2. CASE ~ (i < k)
      <4>1. T[i] = B[i - (k - 1)] /\ i - (k - 1) \in 1 .. n - k
        BY <1>1, <1>2, <1>3, <2>1, <3>2
      <4>2. B[i - (k - 1)] = S[k + (i - (k - 1))] /\ k + (i - (k - 1)) = i + 1
        BY <1>1, <1>3, <4>1
      <4> QED
        BY <3>2, <4>1, <4>2
    <3> QED
      BY <3>1, <3>2
  <2> QED
    BY <1>1, <1>2, <1>3, <2>1, <2>2
<1>5. DOMAIN T = 1 .. n - 1
  BY <1>1, <1>4, LenProperties
<1> HIDE DEF T
<1> DEFINE at(i) == IF i < k THEN i ELSE i + 1
<1>6. \A i \in 1 .. n - 1 : at(i) \in 1 .. n /\ at(i) # k
  BY <1>1
<1>7. \A i, j \in 1 .. n - 1 : at(i) = at(j) => i = j
  BY <1>1
<1>8. \A m \in 1 .. n : m # k => \E i \in 1 .. n - 1 : at(i) = m
  <2> SUFFICES ASSUME NEW m \in 1 .. n, m # k PROVE \E i \in 1 .. n - 1 : at(i) = m
    OBVIOUS
  <2>1. CASE m < k
    BY <1>1, <2>1
  <2>2. CASE m > k
    <3>1. m - 1 \in 1 .. n - 1 /\ at(m - 1) = m
      BY <1>1, <2>2
    <3> QED
      BY <3>1
  <2> QED
    BY <1>1, <2>1, <2>2
<1>9. \A i \in 1 .. n - 1 : T[i] = S[at(i)]
  BY <1>4
<1> HIDE DEF at
<1>10. Sds(T) = Sds(S) \ {S[k].sd}
  <2>1. ASSUME NEW d \in Sds(T) PROVE d \in Sds(S) /\ d # S[k].sd
    <3>1. PICK i \in 1 .. n - 1 : d = T[i].sd
      BY <1>5 DEF Sds
    <3> QED
      BY <1>1, <1>6, <1>9, <3>1 DEF Sds
  <2>2. ASSUME NEW d \in Sds(S), d # S[k].sd PROVE d \in Sds(T)
    <3>1. PICK m \in 1 .. n : d = S[m].sd
      BY <1>1 DEF Sds
    <3>2. PICK i \in 1 .. n - 1 : at(i) = m
      BY <1>8, <2>2, <3>1
    <3> QED
      BY <1>5, <1>9, <3>1, <3>2 DEF Sds
  <2> QED
    BY <2>1, <2>2
<1>11. \A i, j \in DOMAIN T : T[i].sd = T[j].sd => i = j
  BY <1>1, <1>5, <1>6, <1>7, <1>9
<1> QED
  BY <1>4, <1>10, <1>11 DEF T, A, B, n

-------------------------------------------------------------------------------
(* maxValidSD. *)

\* What clearSD() makes of the limit m of select() when it clears sd.
Cleared(m, sd) == IF sd = m /\ sd \in fds_read THEN m - 1 ELSE m

\* f gives the limit, which is m at first, after each of the first n probes of S.
IsLimit(f, S, m, n) ==
  f = [i \in 0 .. n |-> IF i = 0 THEN m
                        ELSE LET l == f[i - 1]
                             IN IF S[i].sd = l /\ S[i].sd \in fds_read THEN l - 1 ELSE l]

\* The limits are defined: there is a function that gives them.
LEMMA LimitExists ==
  ASSUME NEW S \in Seq(Probe), NEW m \in Int, NEW n \in Nat
  PROVE  \E f : IsLimit(f, S, m, n)
<1> DEFINE bad == {k \in Nat : ~ \E f : IsLimit(f, S, m, k)}
<1> SUFFICES ASSUME bad # {} PROVE FALSE
  OBVIOUS
<1>1. PICK k \in bad : \A l \in bad : k <= l
  <2>1. bad \in SUBSET Nat
    OBVIOUS
  <2> HIDE DEF bad
  <2> QED
    BY <2>1, LeastNat
<1>2. CASE k = 0
  <2> DEFINE f == [i \in 0 .. 0 |-> m]
  <2>1. IsLimit(f, S, m, 0)
    BY DEF IsLimit
  <2> QED
    BY <1>1, <1>2, <2>1
<1>3. CASE k # 0
  <2>1. k \in Nat /\ k - 1 \in Nat /\ k - 1 \notin bad
    BY <1>1, <1>3
  <2>2. PICK f : IsLimit(f, S, m, k - 1)
    BY <2>1
  <2> DEFINE step(i) == IF S[i].sd = f[i - 1] /\ S[i].sd \in fds_read
                        THEN f[i - 1] - 1 ELSE f[i - 1]
             g == [i \in 0 .. k |-> IF i = k THEN step(k) ELSE f[i]]
  <2>3. \A i \in 0 .. k - 1 : g[i] = f[i] /\ f[i] = IF i = 0 THEN m ELSE step(i)
    BY <2>1, <2>2 DEF IsLimit
  <2>4. \A i \in 0 .. k : i # 0 => g[i - 1] = f[i - 1]
    BY <2>1
  <2>5. \A i \in 0 .. k : g[i] = IF i = 0 THEN m ELSE step(i)
    <3> SUFFICES ASSUME NEW i \in 0 .. k PROVE g[i] = IF i = 0 THEN m ELSE step(i)
      OBVIOUS
    <3>1. CASE i = k
      BY <1>3, <3>1
    <3>2. CASE i \in 0 .. k - 1
      <4> HIDE DEF g, step
      <4> QED
        BY <2>3, <3>2
    <3> QED
      BY <2>1, <3>1, <3>2
  <2>6. g = [i \in 0 .. k |-> IF i = 0 THEN m ELSE step(i)]
    <3> DEFINE h == [i \in 0 .. k |-> IF i = 0 THEN m ELSE step(i)]
    <3>1. \A i \in 0 .. k : g[i] = h[i]
      BY <2>5
    <3>2. g = [i \in 0 .. k |-> g[i]] /\ h = [i \in 0 .. k |-> h[i]]
      OBVIOUS
    <3> HIDE DEF g, h
    <3>3. [i \in 0 .. k |-> g[i]] = [i \in 0 .. k |-> h[i]]
      BY <3>1
    <3>4. g = h
      BY <3>2, <3>3
    <3> QED
      BY <3>4 DEF h
  <2>7. IsLimit(g, S, m, k)
    <3> HIDE DEF g
    <3> QED
      BY <2>4, <2>6 DEF IsLimit
  <2> QED
    BY <1>1, <2>7
<1> QED
  BY <1>2, <1>3

\* They are integers.
LEMMA LimitType ==
  ASSUME NEW S \in Seq(Probe), NEW m \in Int, NEW n \in Nat, NEW f, IsLimit(f, S, m, n)
  PROVE  \A i \in 0 .. n : f[i] \in Int
<1> DEFINE bad == {k \in 0 .. n : f[k] \notin Int}
<1> SUFFICES ASSUME bad # {} PROVE FALSE
  OBVIOUS
<1>1. PICK k \in bad : \A l \in bad : k <= l
  <2>1. bad \in SUBSET Nat
    OBVIOUS
  <2> HIDE DEF bad
  <2> QED
    BY <2>1, LeastNat
<1>2. f[k] = IF k = 0 THEN m
             ELSE LET l == f[k - 1]
                  IN IF S[k].sd = l /\ S[k].sd \in fds_read THEN l - 1 ELSE l
  BY <1>1 DEF IsLimit
<1>3. k # 0 => f[k - 1] \in Int
  BY <1>1
<1> QED
  BY <1>1, <1>2, <1>3

\* The limit after any probes is an integer; after one probe it is as Cleared says.
LEMMA MaxAfterType ==
  ASSUME NEW S \in Seq(Probe), maxValidSD \in Int
  PROVE  MaxAfter(S) \in Int
<1> DEFINE n == Len(S)
           m == maxValidSD
           f == CHOOSE g : IsLimit(g, S, m, n)
<1>1. n \in Nat
  BY LenProperties
<1>2. \E g : IsLimit(g, S, m, n)
  BY <1>1, LimitExists
<1>3. IsLimit(f, S, m, n)
  BY <1>2
<1>4. f[n] \in Int
  <2> HIDE DEF f, n, m
  <2>1. m \in Int
    BY DEF m
  <2>2. \A i \in 0 .. n : f[i] \in Int
    BY <1>1, <1>3, <2>1, LimitType
  <2> QED
    BY <1>1, <2>2
<1>5. MaxAfter(S) = f[n]
  BY DEF MaxAfter, IsLimit
<1> QED
  BY <1>4, <1>5

\* Taking one descriptor off maxValidSD.
LEMMA MaxAfterOne ==
  ASSUME NEW p \in Probe, maxValidSD \in Int
  PROVE  MaxAfter(<<p>>) = Cleared(maxValidSD, p.sd)
<1> DEFINE S == <<p>>
           m == maxValidSD
           f == CHOOSE g : IsLimit(g, S, m, 1)
<1>1. S \in Seq(Probe) /\ Len(S) = 1 /\ S[1] = p
  OBVIOUS
<1>2. \E g : IsLimit(g, S, m, 1)
  <2> HIDE DEF S
  <2> QED
    BY <1>1, LimitExists
<1>3. IsLimit(f, S, m, 1)
  BY <1>2
<1>4. MaxAfter(S) = f[1]
  BY <1>1 DEF MaxAfter, IsLimit
<1>5. /\ f[0] = m
      /\ f[1] = IF S[1].sd = f[0] /\ S[1].sd \in fds_read THEN f[0] - 1 ELSE f[0]
  <2> HIDE DEF f, S, m
  <2> QED
    BY <1>3 DEF IsLimit
<1> QED
  BY <1>1, <1>4, <1>5 DEF Cleared

-------------------------------------------------------------------------------
(* The inductive invariant. *)

\* What the properties of the run need besides: the sockets are finitely many, and
\* the one in reserve is never the descriptor 0, which sendOK() takes for none.
ReserveInv == IsFiniteSet(DOMAIN sockets) /\ nextSD # 0

SocketInv == SocketsOwned /\ WatchesExactly /\ SocketsBounded /\ ReserveInv
ConnInv == TypeOK /\ SocketInv

\* The invariant holds before the first probe.
LEMMA InitConn == Init => ConnInv
<1> SUFFICES ASSUME Init PROVE ConnInv
  OBVIOUS
<1>1. Sds(<<>>) = {}
  BY DEF Sds
<1>2. TypeOK
  BY ConstantsAssumption DEF Init, TypeOK
<1>3. SocketInv
  <2>1. DOMAIN sockets = {}
    BY DEF Init
  <2> QED
    BY <1>1, <2>1, FS_EmptySet, ConstantsAssumption
     DEF Init, SocketInv, SocketsOwned, WatchesExactly, SocketsBounded, ReserveInv
<1> QED
  BY <1>2, <1>3 DEF ConnInv

\* The descriptors of the probes are natural numbers.
LEMMA ProbesType ==
  ASSUME TypeOK
  PROVE  /\ probes \in Seq(Probe)
         /\ \A i \in DOMAIN probes : probes[i] \in Probe /\ probes[i].sd \in Nat
                                     /\ probes[i].port \in Ports
                                     /\ probes[i].sd \in Sds(probes)
         /\ Sds(probes) \subseteq Nat
<1>1. probes \in Seq(Probe)
  BY DEF TypeOK, Probe
<1>2. \A i \in DOMAIN probes : probes[i] \in Probe
  BY <1>1, LenProperties, ElementOfSeq
<1> QED
  BY <1>1, <1>2 DEF Probe, Sds

\* The descriptors that are watched are open, and finitely many.
LEMMA WatchedOpen ==
  ASSUME ConnInv
  PROVE  fds_read \subseteq DOMAIN sockets /\ IsFiniteSet(fds_read)
<1>1. fds_read \subseteq DOMAIN sockets /\ IsFiniteSet(DOMAIN sockets)
  BY DEF ConnInv, SocketInv, SocketsOwned, WatchesExactly, ReserveInv
<1> QED
  BY <1>1, FS_Subset

\* clearSD() of some probes keeps numSDs the number of the descriptors watched.
LEMMA ClearCounts ==
  ASSUME ConnInv, NEW S \in Seq(Probe), clearSD(S)
  PROVE  /\ fds_read' = fds_read \ Sds(S)
         /\ IsFiniteSet(fds_read')
         /\ numSDs' \in Nat /\ numSDs' = Cardinality(fds_read') /\ numSDs' <= numSDs
         /\ maxValidSD' \in Int
<1>1. /\ fds_read' = fds_read \ Sds(S)
      /\ numSDs' = numSDs - Cardinality(Sds(S) \cap fds_read)
      /\ maxValidSD' = MaxAfter(S)
  BY DEF clearSD
<1>2. IsFiniteSet(fds_read) /\ numSDs = Cardinality(fds_read) /\ maxValidSD \in Int
  BY WatchedOpen DEF ConnInv, SocketInv, TypeOK, WatchesExactly, ReserveInv
<1> DEFINE F == fds_read
           D == Sds(S)
<1>3. D \cap F = F \cap D
  OBVIOUS
<1>4. /\ IsFiniteSet(F \ D) /\ Cardinality(F \ D) = Cardinality(F) - Cardinality(F \cap D)
      /\ IsFiniteSet(F \cap D)
  <2> HIDE DEF D, F
  <2> QED
    BY <1>2, FS_Difference, FS_Intersection DEF F
<1>5. Cardinality(F) \in Nat /\ Cardinality(F \cap D) \in Nat /\ Cardinality(F \ D) \in Nat
  <2> HIDE DEF D, F
  <2> QED
    BY <1>2, <1>4, FS_CardinalityType DEF F
<1>6. MaxAfter(S) \in Int
  BY <1>2, MaxAfterType
<1>7. numSDs' = Cardinality(F \ D) /\ numSDs' <= numSDs
  <2>1. Cardinality(D \cap F) = Cardinality(F \cap D)
    BY <1>3
  <2>2. numSDs' = numSDs - Cardinality(F \cap D) /\ numSDs = Cardinality(F)
    BY <1>1, <1>2, <2>1
  <2> HIDE DEF F, D
  <2> QED
    BY <1>4, <1>5, <2>2
<1> QED
  BY <1>1, <1>4, <1>5, <1>6, <1>7

\* Closing the socket of one probe.
LEMMA CloseOne ==
  ASSUME ConnInv, NEW k \in DOMAIN probes, CloseProbe(k), nextSD' = nextSD,
         ping_scan' = ping_scan
  PROVE  /\ probes' \in Seq(Probe) /\ numSDs' \in Nat /\ maxValidSD' \in Int
         /\ fds_read' \subseteq fds_read
         /\ DOMAIN sockets' \subseteq DOMAIN sockets
         /\ \A sd \in DOMAIN sockets' : sockets'[sd] = sockets[sd]
         /\ SocketInv'
<1> DEFINE p == probes[k]
<1>1. probes \in Seq(Probe) /\ p \in Probe /\ p.sd \in Nat /\ p.sd \in Sds(probes)
  BY ProbesType DEF ConnInv
<1>2. <<p>> \in Seq(Probe) /\ Sds(<<p>>) = {p.sd}
  <2>1. <<p>> \in Seq(Probe)
    BY <1>1
  <2>2. DOMAIN <<p>> = {1} /\ <<p>>[1] = p
    OBVIOUS
  <2> QED
    BY <2>1, <2>2 DEF Sds
<1>3. /\ clearSD(<<p>>)
      /\ sockets' = Without({p.sd})
      /\ probes' = WithoutProbe(k)
  BY DEF CloseProbe
<1>4. /\ fds_read' = fds_read \ {p.sd} /\ IsFiniteSet(fds_read')
      /\ numSDs' \in Nat /\ numSDs' = Cardinality(fds_read') /\ numSDs' <= numSDs
  BY <1>2, <1>3, ClearCounts
<1>5. maxValidSD' = Cleared(maxValidSD, p.sd) /\ maxValidSD \in Int
  BY <1>1, <1>3, MaxAfterOne DEF clearSD, ConnInv, TypeOK
<1>6. /\ DOMAIN sockets' = DOMAIN sockets \ {p.sd}
      /\ \A sd \in DOMAIN sockets' : sockets'[sd] = sockets[sd]
  BY <1>3 DEF Without
<1>7. /\ probes' \in Seq(Probe)
      /\ Sds(probes') = Sds(probes) \ {p.sd}
      /\ \A i, j \in DOMAIN probes' : probes'[i].sd = probes'[j].sd => i = j
  <2>1. \A i, j \in DOMAIN probes : probes[i].sd = probes[j].sd => i = j
    BY DEF ConnInv, SocketInv, SocketsOwned
  <2> QED
    BY <1>1, <1>3, <2>1, SdsRemove DEF WithoutProbe
<1> HIDE DEF p
<1>8. SocketsOwned'
  <2>1. /\ DOMAIN sockets = Sds(probes) \cup ({nextSD} \ {-1})
        /\ nextSD \notin Sds(probes)
    BY DEF ConnInv, SocketInv, SocketsOwned
  <2>2. DOMAIN sockets' = Sds(probes') \cup ({nextSD'} \ {-1}) /\ nextSD' \notin Sds(probes')
    BY <1>1, <1>6, <1>7, <2>1
  <2> QED
    BY <1>7, <2>2 DEF SocketsOwned, Sds
<1>9. WatchesExactly'
  <2>1. /\ fds_read \subseteq Sds(probes) /\ fds_read \subseteq Nat
        /\ \A sd \in fds_read : sd <= maxValidSD
        /\ \A sd \in Sds(probes) \ fds_read : AsksForName(sockets[sd])
        /\ Sds(probes) \subseteq DOMAIN sockets
    BY DEF ConnInv, SocketInv, SocketsOwned, WatchesExactly, TypeOK
  <2>2. fds_read' \subseteq Sds(probes')
    BY <1>4, <1>7, <2>1
  <2>3. \A sd \in fds_read' : sd <= maxValidSD'
    BY <1>1, <1>4, <1>5, <2>1 DEF Cleared
  <2>4. \A sd \in Sds(probes') \ fds_read' : AsksForName(sockets[sd])'
    BY <1>4, <1>6, <1>7, <2>1 DEF AsksForName
  <2> QED
    BY <1>4, <2>2, <2>3, <2>4 DEF WatchesExactly, Sds
<1>10. SocketsBounded'
  <2>1. /\ \A sd \in DOMAIN sockets : sd < FD_SETSIZE
        /\ numSDs <= maxSocketsAllowed /\ numSDs \in Nat
    BY DEF ConnInv, SocketInv, SocketsBounded, TypeOK
  <2> QED
    BY <1>4, <1>6, <2>1, ConstantsAssumption DEF SocketsBounded
<1>11. ReserveInv'
  BY <1>6, FS_Subset DEF ConnInv, SocketInv, ReserveInv
<1> QED
  BY <1>4, <1>5, <1>6, <1>7, <1>8, <1>9, <1>10, <1>11 DEF SocketInv, Cleared

\* Closing the sockets of all probes, and of the one in reserve if extra has it.
LEMMA CloseMany ==
  ASSUME ConnInv, clearSD(probes), probes' = <<>>,
         NEW extra, sockets' = Without(Sds(probes) \cup extra),
         \/ extra = {} /\ nextSD' = nextSD
         \/ extra = {nextSD} /\ nextSD' = -1
  PROVE  /\ probes' \in Seq(Probe) /\ numSDs' \in Nat /\ maxValidSD' \in Int
         /\ fds_read' \subseteq fds_read
         /\ DOMAIN sockets' \subseteq DOMAIN sockets
         /\ \A sd \in DOMAIN sockets' : sockets'[sd] = sockets[sd]
         /\ SocketInv'
<1>1. probes \in Seq(Probe) /\ Sds(probes) \subseteq Nat
  BY ProbesType DEF ConnInv
<1>2. /\ DOMAIN sockets = Sds(probes) \cup ({nextSD} \ {-1})
      /\ nextSD \notin Sds(probes)
      /\ fds_read \subseteq Sds(probes)
      /\ \A sd \in DOMAIN sockets : sd < FD_SETSIZE
      /\ numSDs <= maxSocketsAllowed /\ numSDs \in Nat
      /\ nextSD # 0 /\ IsFiniteSet(DOMAIN sockets)
  BY DEF ConnInv, SocketInv, SocketsOwned, WatchesExactly, SocketsBounded, ReserveInv, TypeOK
<1>3. /\ fds_read' = {} /\ IsFiniteSet(fds_read')
      /\ numSDs' \in Nat /\ numSDs' = Cardinality(fds_read') /\ numSDs' <= numSDs
      /\ maxValidSD' \in Int
  BY <1>1, <1>2, ClearCounts
<1>4. /\ DOMAIN sockets' = DOMAIN sockets \ (Sds(probes) \cup extra)
      /\ \A sd \in DOMAIN sockets' : sockets'[sd] = sockets[sd]
  BY DEF Without
<1>5. Sds(probes') = {} /\ DOMAIN probes' = {} /\ probes' \in Seq(Probe)
  BY DEF Sds
<1>6. DOMAIN sockets' = {nextSD'} \ {-1}
  BY <1>2, <1>4
<1>7. SocketsOwned'
  <2>1. DOMAIN sockets' = Sds(probes') \cup ({nextSD'} \ {-1}) /\ nextSD' \notin Sds(probes')
    BY <1>5, <1>6
  <2> QED
    BY <1>5, <2>1 DEF SocketsOwned, Sds
<1>8. WatchesExactly'
  <2>1. fds_read' = Sds(probes') /\ \A sd \in fds_read' : sd <= maxValidSD'
    BY <1>3, <1>5
  <2> QED
    BY <1>3, <2>1 DEF WatchesExactly, Sds
<1>9. SocketsBounded'
  BY <1>2, <1>3, <1>4, ConstantsAssumption DEF SocketsBounded
<1>10. ReserveInv'
  BY <1>2, <1>4, FS_Subset DEF ReserveInv
<1> QED
  BY <1>3, <1>4, <1>5, <1>7, <1>8, <1>9, <1>10 DEF SocketInv

-------------------------------------------------------------------------------
(* The steps. *)

\* A step that leaves the sockets and the lists alone, or only changes what the
\* operating system says of a socket.
LEMMA SocketInvStays ==
  ASSUME ConnInv, UNCHANGED <<ping_scan, nextSD, fds_read, numSDs, maxValidSD, probes>>,
         DOMAIN sockets' = DOMAIN sockets,
         \A sd \in Sds(probes) \ fds_read : sockets'[sd] \in {sockets[sd], "none"}
  PROVE  SocketInv'
<1>1. Sds(probes') = Sds(probes)
  BY DEF Sds
<1>2. \A sd \in Sds(probes') \ fds_read' : AsksForName(sockets[sd])'
  BY <1>1 DEF ConnInv, SocketInv, WatchesExactly, AsksForName
<1>3. WatchesExactly'
  BY <1>1, <1>2 DEF ConnInv, SocketInv, WatchesExactly
<1>4. SocketsOwned'
  BY <1>1 DEF ConnInv, SocketInv, SocketsOwned
<1> QED
  BY <1>3, <1>4 DEF ConnInv, SocketInv, SocketsBounded, ReserveInv

\* What is reported is a state of a port or of a host.
LEMMA ReportType ==
  ASSUME TypeOK, NEW port \in Ports, NEW errno, Report(port, errno)
  PROVE  reports' \subseteq Ports \X {"open", "closed", "filtered", "up", "down"}
<1> DEFINE states == {"open", "closed", "filtered", "up", "down"}
<1>1. newhoststate(errno) \in states \cup {"unknown"}
  BY DEF newhoststate
<1>2. newportstate(errno) \in states \cup {"unknown"}
  BY DEF newportstate
<1>3. reports \subseteq Ports \X states
  BY DEF TypeOK
<1>4. \E state \in states \cup {"unknown"} :
        reports' = IF state = "unknown" THEN reports ELSE reports \cup {<<port, state>>}
  BY <1>1, <1>2 DEF Report
<1> QED
  BY <1>3, <1>4

\* socket() finds a free descriptor: not the one of a probe, nor 0.
LEMMA NewFdType ==
  ASSUME ConnInv
  PROVE  NewFd \in Nat /\ NewFd \notin StdFds /\ NewFd \notin DOMAIN sockets /\ NewFd # 0
<1> DEFINE U == StdFds \cup DOMAIN sockets
<1>1. U \in SUBSET Nat
  BY ConstantsAssumption DEF ConnInv, TypeOK
<1>2. IsFiniteSet(U)
  <2>1. IsFiniteSet(DOMAIN sockets)
    BY DEF ConnInv, SocketInv, ReserveInv
  <2> QED
    BY <2>1, FS_Union, ConstantsAssumption
<1>3. \E sd \in 0 .. Cardinality(U) : sd \notin U /\ \A d \in 0 .. sd - 1 : d \in U
  <2> HIDE DEF U
  <2> QED
    BY <1>1, <1>2, FreeDescriptor
<1>4. NewFd \in 0 .. Cardinality(U) /\ NewFd \notin U
  BY <1>3 DEF NewFd
<1> QED
  BY <1>4, ConstantsAssumption

\* The kernel completes a connection.
LEMMA ConnectionDoneConn ==
  ASSUME ConnInv, NEW sd \in fds_read, NEW result \in Errnos, ConnectionDone(sd, result)
  PROVE  ConnInv'
<1>1. sd \in DOMAIN sockets
  BY WatchedOpen
<1>2. /\ DOMAIN sockets' = DOMAIN sockets
      /\ \A d \in DOMAIN sockets : d # sd => sockets'[d] = sockets[d]
  BY <1>1 DEF ConnectionDone, With
<1>3. \A d \in DOMAIN sockets' : sockets'[d] \in Sockets
  BY <1>1, <1>2 DEF ConnectionDone, With, ConnInv, TypeOK, Sockets
<1>4. SocketInv'
  <2>1. \A d \in Sds(probes) \ fds_read : sockets'[d] = sockets[d]
    BY <1>2 DEF ConnInv, SocketInv, SocketsOwned
  <2> QED
    BY <1>2, <2>1, SocketInvStays DEF ConnectionDone
<1>5. TypeOK'
  BY <1>2, <1>3 DEF ConnectionDone, ConnInv, TypeOK
<1> QED
  BY <1>4, <1>5 DEF ConnInv

\* sendOK() asks for a socket in reserve.
LEMMA SendOKConn ==
  ASSUME ConnInv, sendOK
  PROVE  ConnInv'
<1>1. nextSD = -1
  BY DEF sendOK, ConnInv, TypeOK, SocketInv, ReserveInv
<1>2. NewFd \in Nat /\ NewFd \notin DOMAIN sockets /\ NewFd # 0 /\ NewFd < FD_SETSIZE
  BY NewFdType DEF sendOK
<1>3. /\ nextSD' = NewFd /\ sockets' = With(NewFd, "connecting")
      /\ UNCHANGED <<ping_scan, pc, fds_read, numSDs, maxValidSD, probes, ready, tries, reports>>
  BY DEF sendOK
<1>4. /\ DOMAIN sockets' = DOMAIN sockets \cup {NewFd}
      /\ \A d \in DOMAIN sockets' : sockets'[d] \in Sockets
      /\ \A d \in DOMAIN sockets : sockets'[d] = sockets[d]
  BY <1>2, <1>3 DEF With, ConnInv, TypeOK, Sockets
<1>5. TypeOK'
  BY <1>2, <1>3, <1>4 DEF ConnInv, TypeOK
<1>6. Sds(probes') = Sds(probes)
  BY <1>3 DEF Sds
<1>7. SocketsOwned'
  <2>1. DOMAIN sockets = Sds(probes) /\ \A i, j \in DOMAIN probes : probes[i].sd = probes[j].sd => i = j
    BY <1>1 DEF ConnInv, SocketInv, SocketsOwned
  <2> HIDE DEF Sds
  <2>2. DOMAIN sockets' = Sds(probes') \cup ({nextSD'} \ {-1}) /\ nextSD' \notin Sds(probes')
    BY <1>2, <1>3, <1>4, <1>6, <2>1
  <2> QED
    BY <1>3, <2>1, <2>2 DEF SocketsOwned, Sds
<1>8. WatchesExactly'
  <2>1. \A d \in Sds(probes') \ fds_read' : AsksForName(sockets[d])'
    BY <1>3, <1>4, <1>6
       DEF ConnInv, SocketInv, SocketsOwned, WatchesExactly, AsksForName
  <2> QED
    BY <1>3, <1>6, <2>1 DEF ConnInv, SocketInv, WatchesExactly
<1>9. SocketsBounded'
  BY <1>2, <1>3, <1>4 DEF ConnInv, SocketInv, SocketsBounded
<1>10. ReserveInv'
  <2> PICK n : n = NewFd
    OBVIOUS
  <2>1. IsFiniteSet(DOMAIN sockets \cup {n})
    BY FS_AddElement DEF ConnInv, SocketInv, ReserveInv
  <2> QED
    BY <1>2, <1>3, <1>4, <2>1 DEF ReserveInv
<1> QED
  BY <1>5, <1>7, <1>8, <1>9, <1>10 DEF ConnInv, SocketInv

\* sendConnectScanProbe() keeps the invariant.
LEMMA SendConn ==
  ASSUME ConnInv, NEW port \in Ports, Send(port)
  PROVE  ConnInv'
<1>1. /\ numSDs < maxSocketsAllowed /\ nextSD > 0
      /\ tries' = [tries EXCEPT ![port] = @ + 1] /\ tries[port] < MaxTries
      /\ nextSD' = -1
      /\ UNCHANGED <<ping_scan, ready>>
  BY DEF Send
<1>2. tries' \in [Ports -> 0 .. MaxTries]
  BY <1>1, ConstantsAssumption DEF ConnInv, TypeOK
<1>3. probes \in Seq(Probe) /\ Sds(probes) \subseteq Nat
  BY ProbesType DEF ConnInv
<1>4. /\ DOMAIN sockets = Sds(probes) \cup ({nextSD} \ {-1})
      /\ \A i, j \in DOMAIN probes : probes[i].sd = probes[j].sd => i = j
      /\ nextSD \notin Sds(probes)
      /\ fds_read \subseteq Sds(probes) /\ numSDs = Cardinality(fds_read)
      /\ IsFiniteSet(fds_read) /\ IsFiniteSet(DOMAIN sockets)
      /\ \A sd \in fds_read : sd <= maxValidSD
      /\ \A sd \in Sds(probes) \ fds_read : AsksForName(sockets[sd])
      /\ \A sd \in DOMAIN sockets : sd < FD_SETSIZE
      /\ numSDs \in Nat /\ maxValidSD \in Int
  BY WatchedOpen
     DEF ConnInv, SocketInv, SocketsOwned, WatchesExactly, SocketsBounded, ReserveInv, TypeOK
<1>5. nextSD \in Nat /\ nextSD # -1
  BY <1>1 DEF ConnInv, TypeOK
<1>6. CASE /\ watchSD(nextSD)
           /\ probes' = Append(probes, [port |-> port, sd |-> nextSD])
           /\ UNCHANGED <<pc, sockets, reports>>
  <2> DEFINE p == [port |-> port, sd |-> nextSD]
  <2>1. p \in Probe /\ p.sd = nextSD
    BY <1>5 DEF Probe
  <2>2. /\ probes' \in Seq(Probe) /\ Sds(probes') = Sds(probes) \cup {nextSD}
        /\ \A i, j \in DOMAIN probes' : probes'[i].sd = probes'[j].sd => i = j
    <3> HIDE DEF p
    <3>1. probes' = Append(probes, p)
      BY <1>6 DEF p
    <3> QED
      BY <1>3, <1>4, <2>1, <3>1, SdsAppend
  <2>3. /\ fds_read' = fds_read \cup {nextSD} /\ numSDs' = numSDs + 1
        /\ maxValidSD' = IF nextSD > maxValidSD THEN nextSD ELSE maxValidSD
    BY <1>6 DEF watchSD
  <2>4. IsFiniteSet(fds_read') /\ numSDs' = Cardinality(fds_read')
    <3> PICK n : n = nextSD
      OBVIOUS
    <3>1. n \notin fds_read
      BY <1>4
    <3>2. IsFiniteSet(fds_read \cup {n}) /\ Cardinality(fds_read \cup {n}) = Cardinality(fds_read) + 1
      BY <1>4, <3>1, FS_AddElement
    <3> QED
      BY <1>4, <2>3, <3>2
  <2>5. SocketsOwned'
    <3>1. DOMAIN sockets' = Sds(probes') \cup ({nextSD'} \ {-1})
      BY <1>1, <1>4, <1>5, <1>6, <2>2
    <3>2. nextSD' \notin Sds(probes')
      BY <1>1, <1>3, <1>5, <2>2
    <3> QED
      BY <2>2, <3>1, <3>2 DEF SocketsOwned, Sds
  <2>6. WatchesExactly'
    <3>1. fds_read' \subseteq Sds(probes')
      BY <1>4, <2>2, <2>3
    <3>2. \A sd \in fds_read' : sd <= maxValidSD'
      BY <1>3, <1>4, <1>5, <2>3
    <3>3. \A sd \in Sds(probes') \ fds_read' : AsksForName(sockets[sd])'
      BY <1>1, <1>4, <1>6, <2>2, <2>3 DEF AsksForName
    <3> QED
      BY <2>4, <3>1, <3>2, <3>3 DEF WatchesExactly, Sds
  <2>7. SocketsBounded'
    BY <1>1, <1>4, <1>6, <2>3, ConstantsAssumption DEF SocketsBounded
  <2>8. ReserveInv'
    BY <1>1, <1>4, <1>6 DEF ReserveInv
  <2>9. TypeOK'
    <3>1. fds_read' \subseteq Nat /\ numSDs' \in Nat /\ maxValidSD' \in Int
      BY <1>3, <1>4, <1>5, <2>3
    <3> QED
      BY <1>1, <1>2, <1>6, <2>2, <3>1 DEF ConnInv, TypeOK, Probe
  <2> QED
    BY <2>5, <2>6, <2>7, <2>8, <2>9 DEF ConnInv, SocketInv
<1>7. ASSUME NEW errno, Report(port, errno), UNCHANGED pc,
             ping_scan /\ newhoststate(errno) = "up",
             clearSD(probes), sockets' = Without(Sds(probes) \cup {nextSD}), probes' = <<>>
      PROVE  ConnInv'
  <2>1. /\ probes' \in Seq(Probe) /\ numSDs' \in Nat /\ maxValidSD' \in Int
        /\ fds_read' \subseteq fds_read
        /\ DOMAIN sockets' \subseteq DOMAIN sockets
        /\ \A sd \in DOMAIN sockets' : sockets'[sd] = sockets[sd]
        /\ SocketInv'
    <3> PICK extra : extra = {nextSD}
      OBVIOUS
    <3> QED
      BY <1>1, <1>7, CloseMany
  <2>2. reports' \subseteq Ports \X {"open", "closed", "filtered", "up", "down"}
    BY <1>7, ReportType DEF ConnInv
  <2>3. TypeOK'
    BY <1>1, <1>2, <1>7, <2>1, <2>2 DEF ConnInv, TypeOK, Probe
  <2> QED
    BY <2>1, <2>3 DEF ConnInv
<1>8. ASSUME NEW errno, Report(port, errno), UNCHANGED pc,
             sockets' = Without({nextSD}),
             UNCHANGED <<fds_read, numSDs, maxValidSD, probes>>
      PROVE  ConnInv'
  <2>1. /\ DOMAIN sockets' = DOMAIN sockets \ {nextSD}
        /\ \A sd \in DOMAIN sockets' : sockets'[sd] = sockets[sd]
    BY <1>8 DEF Without
  <2>2. Sds(probes') = Sds(probes)
    BY <1>8 DEF Sds
  <2>3. SocketsOwned'
    <3>1. DOMAIN sockets' = Sds(probes') \cup ({nextSD'} \ {-1}) /\ nextSD' \notin Sds(probes')
      BY <1>1, <1>3, <1>4, <2>1, <2>2
    <3> QED
      BY <1>4, <1>8, <3>1 DEF SocketsOwned, Sds
  <2>4. WatchesExactly'
    <3>1. \A sd \in Sds(probes') \ fds_read' : AsksForName(sockets[sd])'
      BY <1>1, <1>4, <1>8, <2>1, <2>2 DEF AsksForName
    <3> QED
      BY <1>4, <1>8, <2>2, <3>1 DEF WatchesExactly
  <2>5. SocketsBounded' /\ ReserveInv'
    BY <1>1, <1>4, <1>8, <2>1, FS_Subset, ConstantsAssumption
       DEF SocketsBounded, ReserveInv
  <2>6. reports' \subseteq Ports \X {"open", "closed", "filtered", "up", "down"}
    BY <1>8, ReportType DEF ConnInv
  <2>7. TypeOK'
    BY <1>1, <1>2, <1>8, <2>1, <2>6 DEF ConnInv, TypeOK
  <2> QED
    BY <2>3, <2>4, <2>5, <2>7 DEF ConnInv, SocketInv
<1>9. ASSUME NEW errno \in Errnos, AsksForName(errno), sockets' = With(nextSD, errno),
             probes' = Append(probes, [port |-> port, sd |-> nextSD]),
             UNCHANGED <<pc, fds_read, numSDs, maxValidSD, reports>>
      PROVE  ConnInv'
  <2> DEFINE p == [port |-> port, sd |-> nextSD]
  <2>1. p \in Probe /\ p.sd = nextSD
    BY <1>5 DEF Probe
  <2>2. /\ probes' \in Seq(Probe) /\ Sds(probes') = Sds(probes) \cup {nextSD}
        /\ \A i, j \in DOMAIN probes' : probes'[i].sd = probes'[j].sd => i = j
    <3> HIDE DEF p
    <3>1. probes' = Append(probes, p)
      BY <1>9 DEF p
    <3> QED
      BY <1>3, <1>4, <2>1, <3>1, SdsAppend
  <2>3. /\ DOMAIN sockets' = DOMAIN sockets /\ sockets'[nextSD] = errno
        /\ \A sd \in DOMAIN sockets : sd # nextSD => sockets'[sd] = sockets[sd]
    BY <1>4, <1>5, <1>9 DEF With
  <2>4. SocketsOwned'
    <3>1. DOMAIN sockets' = Sds(probes') \cup ({nextSD'} \ {-1})
      BY <1>1, <1>4, <1>5, <2>2, <2>3
    <3>2. nextSD' \notin Sds(probes')
      BY <1>1, <1>3, <1>5, <2>2
    <3> QED
      BY <2>2, <3>1, <3>2 DEF SocketsOwned, Sds
  <2>5. WatchesExactly'
    <3>1. fds_read' \subseteq Sds(probes')
      BY <1>4, <1>9, <2>2
    <3>2. \A sd \in Sds(probes') \ fds_read' : AsksForName(sockets[sd])'
      BY <1>1, <1>4, <1>9, <2>2, <2>3 DEF AsksForName
    <3> QED
      BY <1>4, <1>9, <3>1, <3>2 DEF WatchesExactly
  <2>6. SocketsBounded' /\ ReserveInv'
    BY <1>1, <1>4, <1>9, <2>3, ConstantsAssumption DEF SocketsBounded, ReserveInv
  <2>7. TypeOK'
    <3>1. \A sd \in DOMAIN sockets' : sockets'[sd] \in Sockets
      BY <1>9, <2>3 DEF ConnInv, TypeOK, Sockets
    <3> QED
      BY <1>1, <1>2, <1>9, <2>2, <2>3, <3>1 DEF ConnInv, TypeOK, Probe
  <2> QED
    BY <2>4, <2>5, <2>6, <2>7 DEF ConnInv, SocketInv
<1> QED
  BY <1>6, <1>7, <1>8, <1>9 DEF Send

\* A probe that has timed out leaves its socket closed.
LEMMA TimeOutConn ==
  ASSUME ConnInv, NEW k \in DOMAIN probes, TimeOut(k)
  PROVE  ConnInv'
<1>1. CloseProbe(k) /\ UNCHANGED <<ping_scan, pc, nextSD, ready, tries, reports>>
  BY DEF TimeOut
<1>2. /\ probes' \in Seq(Probe) /\ numSDs' \in Nat /\ maxValidSD' \in Int
      /\ fds_read' \subseteq fds_read
      /\ DOMAIN sockets' \subseteq DOMAIN sockets
      /\ \A sd \in DOMAIN sockets' : sockets'[sd] = sockets[sd]
      /\ SocketInv'
  BY <1>1, CloseOne
<1>3. TypeOK'
  BY <1>1, <1>2 DEF ConnInv, TypeOK, Probe
<1> QED
  BY <1>2, <1>3 DEF ConnInv

\* handleConnectResult() keeps the invariant.
LEMMA HandleConn ==
  ASSUME ConnInv, NEW k \in DOMAIN probes, HandleConnectResult(k)
  PROVE  ConnInv'
<1> DEFINE sd == probes[k].sd
           errno == sockets[sd]
<1>1. /\ pc = "select" /\ ready' = ready \ {sd}
      /\ Report(probes[k].port, errno) \/ reports' = reports
      /\ pc' = IF errno = "ENETDOWN" THEN "fatal" ELSE pc
      /\ UNCHANGED <<ping_scan, nextSD, tries>>
  BY DEF HandleConnectResult
<1>2. probes \in Seq(Probe) /\ probes[k].port \in Ports /\ sd \in Nat /\ sd \in Sds(probes)
  BY ProbesType DEF ConnInv
<1>3. reports' \subseteq Ports \X {"open", "closed", "filtered", "up", "down"}
  BY <1>1, <1>2, ReportType DEF ConnInv, TypeOK
<1>4. sd \in DOMAIN sockets
  BY <1>2 DEF ConnInv, SocketInv, SocketsOwned
<1>5. ASSUME /\ probes' \in Seq(Probe) /\ numSDs' \in Nat /\ maxValidSD' \in Int
             /\ fds_read' \subseteq fds_read
             /\ DOMAIN sockets' \subseteq DOMAIN sockets
             /\ \A d \in DOMAIN sockets' : sockets'[d] \in Sockets
             /\ SocketInv'
      PROVE  ConnInv'
  <2>1. TypeOK'
    BY <1>1, <1>3, <1>5 DEF ConnInv, TypeOK, Probe
  <2> QED
    BY <1>5, <2>1 DEF ConnInv
<1>6. \A d \in DOMAIN sockets : sockets[d] \in Sockets
  BY DEF ConnInv, TypeOK
<1>7. CASE CloseAll
  <2>1. clearSD(probes) /\ sockets' = Without(Sds(probes) \cup {}) /\ probes' = <<>>
    BY <1>7 DEF CloseAll
  <2>2. /\ probes' \in Seq(Probe) /\ numSDs' \in Nat /\ maxValidSD' \in Int
        /\ fds_read' \subseteq fds_read
        /\ DOMAIN sockets' \subseteq DOMAIN sockets
        /\ \A d \in DOMAIN sockets' : sockets'[d] = sockets[d]
        /\ SocketInv'
    BY <1>1, <2>1, CloseMany
  <2> QED
    BY <1>5, <1>6, <2>2
<1>8. CASE CloseProbe(k)
  <2>1. /\ probes' \in Seq(Probe) /\ numSDs' \in Nat /\ maxValidSD' \in Int
        /\ fds_read' \subseteq fds_read
        /\ DOMAIN sockets' \subseteq DOMAIN sockets
        /\ \A d \in DOMAIN sockets' : sockets'[d] = sockets[d]
        /\ SocketInv'
    BY <1>1, <1>8, CloseOne
  <2> QED
    BY <1>5, <1>6, <2>1
<1>9. CASE sockets' = With(sd, "none") /\ UNCHANGED <<fds_read, numSDs, maxValidSD, probes>>
  <2>1. /\ DOMAIN sockets' = DOMAIN sockets
        /\ \A d \in DOMAIN sockets' : sockets'[d] \in Sockets
    BY <1>4, <1>6, <1>9 DEF With, Sockets, Errnos
  <2>2. \A d \in Sds(probes) \ fds_read : sockets'[d] \in {sockets[d], "none"}
    BY <1>4, <1>9 DEF With, ConnInv, SocketInv, SocketsOwned
  <2>3. SocketInv'
    BY <1>1, <1>9, <2>1, <2>2, SocketInvStays
  <2> QED
    BY <1>2, <1>5, <1>9, <2>1, <2>3 DEF ConnInv, TypeOK
<1>10. CASE UNCHANGED <<sockets, fds_read, numSDs, maxValidSD, probes>>
  <2>1. SocketInv'
    BY <1>1, <1>10, SocketInvStays
  <2> QED
    BY <1>2, <1>5, <1>6, <1>10, <2>1 DEF ConnInv, TypeOK
<1> QED
  BY <1>7, <1>8, <1>9, <1>10 DEF HandleConnectResult

\* Each step keeps the invariant.
LEMMA NextConn == ConnInv /\ [Next]_vars => ConnInv'
<1> SUFFICES ASSUME ConnInv, [Next]_vars PROVE ConnInv'
  OBVIOUS
<1>1. CASE select
  <2>1. SocketInv'
    BY <1>1, SocketInvStays DEF select
  <2>2. TypeOK'
    BY <1>1 DEF select, ConnInv, TypeOK
  <2> QED
    BY <2>1, <2>2 DEF ConnInv
<1>2. CASE EndSelect
  <2>1. SocketInv'
    BY <1>2, SocketInvStays DEF EndSelect
  <2>2. TypeOK'
    BY <1>2 DEF EndSelect, ConnInv, TypeOK
  <2> QED
    BY <2>1, <2>2 DEF ConnInv
<1>3. CASE UNCHANGED vars
  <2>1. SocketInv'
    BY <1>3, SocketInvStays DEF vars
  <2>2. TypeOK'
    BY <1>3 DEF vars, ConnInv, TypeOK
  <2> QED
    BY <2>1, <2>2 DEF ConnInv
<1> QED
  BY <1>1, <1>2, <1>3, ConnectionDoneConn, SendOKConn, SendConn, TimeOutConn, HandleConn DEF Next

\* Every behaviour of the connect() scan has the invariant.
LEMMA ConnInductive == Spec => []ConnInv
<1> QED
  BY InitConn, NextConn, PTL DEF Spec

-------------------------------------------------------------------------------
(* The theorems. *)

\* A connect() scan keeps its fields within their types: numSDs, which clearSD()
\* decrements, never becomes negative, and maxValidSD stays a number however many
\* sockets are cleared.
THEOREM ConnectTypes == Spec => []TypeOK
<1>1. ConnInv => TypeOK
  BY DEF ConnInv
<1> QED
  BY <1>1, ConnInductive, PTL

\* Of the sockets that sendOK() opens none is leaked and none is closed twice: each
\* has one owner, a probe or the reserve, whatever the order of answers, timeouts and
\* the closing of all probes of a host that is found up.
THEOREM SocketsHaveOwners == Spec => []SocketsOwned
<1>1. ConnInv => SocketsOwned
  BY DEF ConnInv, SocketInv
<1> QED
  BY <1>1, ConnInductive, PTL

\* The descriptors in fds_read are those of the probes, but for the ones that were
\* connected at once and whose name getsockname() could not tell; numSDs counts them
\* and maxValidSD, which clearSD() lowers by one at most, covers them.
THEOREM SelectWatchesAll == Spec => []WatchesExactly
<1>1. ConnInv => WatchesExactly
  BY DEF ConnInv, SocketInv
<1> QED
  BY <1>1, ConnInductive, PTL

\* No descriptor reaches FD_SETSIZE, beyond which FD_SET() would write outside of the
\* fd_set, and no more sockets than maxSocketsAllowed are watched.
THEOREM SocketsWithinLimits == Spec => []SocketsBounded
<1>1. ConnInv => SocketsBounded
  BY DEF ConnInv, SocketInv
<1> QED
  BY <1>1, ConnInductive, PTL

===============================================================================
