----------------------------- MODULE MassDnsProofs -----------------------------
(***************************************************************************)
(* Theorems about the parallel resolver, for any number of requests,       *)
(* servers, batches and tries and any capacities: however timeouts,        *)
(* failed writes, lost servers and late answers move the requests about,   *)
(* none that lacks a result is off the lists, the count by which the loop  *)
(* ends is exact, and no request goes on to further servers than it may.   *)
(***************************************************************************)
EXTENDS MassDns, FiniteSetTheorems, SequenceTheorems, TLAPS

-------------------------------------------------------------------------------
(* The inductive invariant. *)

\* A connected server S has request r on one of its lists.
Holds(S, r) ==
  S.status = "CONNECTED" /\ (r \in ToSet(S.to_process) \/ r \in ToSet(S.in_process))

\* Request r is on the list N or with a server of SV.
OnList(N, SV, r) == r \in ToSet(N) \/ \E s \in DOMAIN SV : Holds(SV[s], r)

\* A server that is lost has left nothing on its lists.
EmptyIfLost(S) == S.status # "CONNECTED" => S.to_process = <<>> /\ S.in_process = <<>>

ReadyIn(req) == {r \in Requests : req[r].status = "READY"}

\* The types of what the loops and the handlers keep beside the requests.
LoopTypes ==
  /\ phase \in {"start", "timeouts", "writes", "events", "return", "aborted"}
  /\ after \in {"writes", "events"}
  /\ at \in Servers /\ pos \in Nat \ {0}
  /\ {adjust_timing, adjusted, may_increase} \subseteq BOOLEAN
  /\ num_servers \in 1 .. MaxServers /\ batch \in 0 .. NumBatches
  /\ deferred_reqs \subseteq Requests
  /\ write_errors \in 0 .. MaxWriteErrors /\ read_errors \in 0 .. MaxReadErrors

\* The requests N that are new, the requests q, their count n and the servers SV.
Requested(N, q, n, SV) ==
  /\ N \in Seq(Requests) /\ SV \in [Servers -> Server] /\ q \in [Requests -> Request]
  /\ n = Cardinality(ReadyIn(q))
  /\ \A r \in ReadyIn(q) : q[r].servers_tried < ServersToTry /\ OnList(N, SV, r)
  /\ \A s \in Servers : EmptyIfLost(SV[s])

Inv ==
  /\ LoopTypes /\ Requested(new_reqs, request, total_reqs, server)
  /\ phase = "return" => total_reqs = 0 \/ new_reqs # <<>>

-------------------------------------------------------------------------------
(* Sequences. *)

\* A sequence without the requests of S is a sequence of the others.
LEMMA WithoutProperties ==
  ASSUME NEW T, NEW l \in Seq(T), NEW S
  PROVE  /\ Without(l, S) \in Seq(T)
         /\ ToSet(Without(l, S)) = ToSet(l) \ S
<1> DEFINE kept == {k \in DOMAIN l : l[k] \notin S}
           upto(k) == {j \in kept : j <= k}
           N == Cardinality(kept)
           nth(n) == CHOOSE k \in kept : Cardinality(upto(k)) = n
           rank == [k \in kept |-> Cardinality(upto(k))]
<1>1. Len(l) \in Nat /\ DOMAIN l = 1 .. Len(l) /\ \A k \in DOMAIN l : l[k] \in T
  BY LenProperties, ElementOfSeq
<1>2. kept \subseteq 1 .. Len(l) /\ kept \subseteq Int
  BY <1>1
<1>3. IsFiniteSet(kept) /\ N \in Nat
  <2>1. IsFiniteSet(1 .. Len(l))
    BY <1>1, FS_Interval
  <2>2. IsFiniteSet(kept)
    <3> HIDE DEF kept
    <3> QED
      BY <1>2, <2>1, FS_Subset
  <2> QED
    BY <2>2, FS_CardinalityType
<1>4. \A k \in kept : upto(k) \in SUBSET kept /\ k \in upto(k)
  BY <1>2
<1>5. \A k \in kept : IsFiniteSet(upto(k)) /\ Cardinality(upto(k)) \in 1 .. N
  <2> SUFFICES ASSUME NEW k \in kept
               PROVE  IsFiniteSet(upto(k)) /\ Cardinality(upto(k)) \in 1 .. N
    OBVIOUS
  <2>1. IsFiniteSet(upto(k)) /\ Cardinality(upto(k)) <= N
    BY <1>3, <1>4, FS_Subset
  <2>2. Cardinality(upto(k)) \in Nat /\ Cardinality(upto(k)) # 0
    BY <1>4, <2>1, FS_CardinalityType, FS_EmptySet
  <2> QED
    BY <1>3, <2>1, <2>2
<1>6. ASSUME NEW j \in kept, NEW k \in kept, Cardinality(upto(j)) = Cardinality(upto(k))
      PROVE  j = k
  <2>1. CASE j <= k
    <3>1. upto(j) \in SUBSET upto(k)
      BY <1>2, <2>1
    <3>2. upto(j) = upto(k)
      BY <1>5, <1>6, <3>1, FS_Subset
    <3> QED
      BY <1>2, <1>4, <2>1, <3>2
  <2>2. CASE k <= j
    <3>1. upto(k) \in SUBSET upto(j)
      BY <1>2, <2>2
    <3>2. upto(j) = upto(k)
      BY <1>5, <1>6, <3>1, FS_Subset
    <3> QED
      BY <1>2, <1>4, <2>2, <3>2
  <2> QED
    BY <1>2, <2>1, <2>2
<1>7. \A n \in 1 .. N : \E k \in kept : Cardinality(upto(k)) = n
  <2>1. rank \in Injection(kept, 1 .. N)
    BY <1>5, <1>6 DEF Injection, IsInjective
  <2>2. IsFiniteSet(1 .. N) /\ Cardinality(1 .. N) = N
    <3> HIDE DEF N
    <3> QED
      BY <1>3, FS_Interval
  <2>3. rank \in Surjection(kept, 1 .. N)
    <3> HIDE DEF rank
    <3> QED
      BY <1>3, <2>1, <2>2, FS_Injection
  <2> QED
    BY <2>3 DEF Surjection
<1>8. \A n \in 1 .. N : nth(n) \in kept /\ Cardinality(upto(nth(n))) = n
  <2> SUFFICES ASSUME NEW n \in 1 .. N
               PROVE  nth(n) \in kept /\ Cardinality(upto(nth(n))) = n
    OBVIOUS
  <2>1. \E k \in kept : Cardinality(upto(k)) = n
    BY <1>7
  <2> QED
    BY <2>1, Zenon
<1>9. \A k \in kept : Cardinality(upto(k)) \in 1 .. N /\ nth(Cardinality(upto(k))) = k
  BY <1>5, <1>6, <1>8
<1>10. Without(l, S) = [n \in 1 .. N |-> l[nth(n)]]
  BY DEF Without
<1> DEFINE W == Without(l, S)
<1>11. \A n \in 1 .. N : W[n] = l[nth(n)]
  BY <1>10
<1>12. DOMAIN W = 1 .. N
  BY <1>10
<1>13. W \in Seq(T)
  <2>1. \A n \in 1 .. N : l[nth(n)] \in T
    BY <1>1, <1>8
  <2>2. W \in [1 .. N -> T]
    BY <1>10, <2>1
  <2> HIDE DEF W, N
  <2> QED
    BY <1>3, <2>2, SeqDef
<1> HIDE DEF W, N, nth, upto
<1>14. ToSet(W) = ToSet(l) \ S
  BY <1>8, <1>9, <1>11, <1>12 DEF ToSet
<1> QED
  BY <1>13, <1>14 DEF W

\* Two sequences one after the other.
LEMMA ConcatSets ==
  ASSUME NEW T, NEW l \in Seq(T), NEW m \in Seq(T)
  PROVE  l \o m \in Seq(T) /\ ToSet(l \o m) = ToSet(l) \cup ToSet(m)
<1> DEFINE c == l \o m
           a == Len(l)
           b == Len(m)
<1>1. /\ a \in Nat /\ DOMAIN l = 1 .. a /\ b \in Nat /\ DOMAIN m = 1 .. b
      /\ c \in Seq(T) /\ DOMAIN c = 1 .. a + b
      /\ \A k \in 1 .. a : c[k] = l[k]
      /\ \A k \in a + 1 .. a + b : c[k] = m[k - a]
  BY LenProperties, ConcatProperties
<1> HIDE DEF c, a, b
<1>2. \A k \in 1 .. b : k + a \in a + 1 .. a + b /\ k + a \in 1 .. a + b /\ k + a - a = k
  BY <1>1
<1>3. \A k \in DOMAIN c : \/ k \in DOMAIN l /\ c[k] = l[k]
                          \/ k - a \in DOMAIN m /\ c[k] = m[k - a]
  BY <1>1
<1>4. \A k \in DOMAIN m : k + a \in DOMAIN c /\ c[k + a] = m[k]
  BY <1>1, <1>2
<1>5. \A k \in DOMAIN l : k \in DOMAIN c /\ c[k] = l[k]
  BY <1>1
<1>6. ToSet(c) = ToSet(l) \cup ToSet(m)
  BY <1>3, <1>4, <1>5 DEF ToSet
<1> QED
  BY <1>1, <1>6 DEF c

\* A request at the end of a list.
LEMMA AppendSets ==
  ASSUME NEW T, NEW l \in Seq(T), NEW x \in T
  PROVE  Append(l, x) \in Seq(T) /\ ToSet(Append(l, x)) = ToSet(l) \cup {x}
<1>0. <<x>> \in Seq(T)
  OBVIOUS
<1>1. PICK m \in Seq(T) : m = <<x>>
  BY <1>0, Zenon
<1>2. Append(l, x) = l \o m /\ ToSet(m) = {x}
  BY <1>1, AppendIsConcat DEF ToSet
<1> QED
  BY <1>2, ConcatSets

\* A request in front of a list.
LEMMA FrontSets ==
  ASSUME NEW T, NEW l \in Seq(T), NEW x \in T
  PROVE  <<x>> \o l \in Seq(T) /\ ToSet(<<x>> \o l) = ToSet(l) \cup {x}
<1>0. <<x>> \in Seq(T)
  OBVIOUS
<1>1. PICK m \in Seq(T) : m = <<x>>
  BY <1>0, Zenon
<1>2. ToSet(m) = {x}
  BY <1>1 DEF ToSet
<1>3. m \o l \in Seq(T) /\ ToSet(m \o l) = {x} \cup ToSet(l)
  BY <1>2, ConcatSets
<1> QED
  BY <1>1, <1>3

\* The requests at the places a to b of a list.
Between(l, a, b) == {l[k] : k \in a .. b}

\* The parts of a list.
LEMMA PartSets ==
  ASSUME NEW T, NEW l \in Seq(T), NEW a \in Nat \ {0}, NEW b \in Nat, b <= Len(l)
  PROVE  /\ SubSeq(l, a, b) \in Seq(T)
         /\ ToSet(SubSeq(l, a, b)) = Between(l, a, b)
<1>1. Len(l) \in Nat /\ DOMAIN l = 1 .. Len(l) /\ \A k \in a .. b : l[k] \in T
  BY LenProperties, ElementOfSeq
<1> DEFINE p == SubSeq(l, a, b)
<1>2. /\ p \in Seq(T) /\ Len(p) = IF a <= b THEN b - a + 1 ELSE 0
      /\ \A i \in 1 .. b - a + 1 : p[i] = l[a + i - 1]
  BY <1>1, SubSeqProperties
<1>3. DOMAIN p = 1 .. b - a + 1
  BY <1>2, LenProperties
<1> HIDE DEF p
<1>4. \A k \in a .. b : k - a + 1 \in DOMAIN p /\ p[k - a + 1] = l[k]
  BY <1>2, <1>3
<1>5. \A i \in DOMAIN p : a + i - 1 \in a .. b /\ p[i] = l[a + i - 1]
  BY <1>2, <1>3
<1>6. ToSet(p) = Between(l, a, b)
  <2>1. ASSUME NEW x \in ToSet(p) PROVE x \in Between(l, a, b)
    <3>1. PICK i \in DOMAIN p : x = p[i]
      BY DEF ToSet
    <3>2. PICK k \in a .. b : k = a + i - 1
      BY <1>5
    <3> QED
      BY <1>5, <3>1, <3>2 DEF Between
  <2>2. ASSUME NEW k \in a .. b PROVE l[k] \in ToSet(p)
    <3>1. PICK i \in DOMAIN p : i = k - a + 1
      BY <1>4
    <3> QED
      BY <1>4, <3>1 DEF ToSet
  <2> QED
    BY <2>1, <2>2 DEF Between
<1> QED
  BY <1>2, <1>6 DEF p

\* A list from which the i-th request was taken.
LEMMA RemoveAtSets ==
  ASSUME NEW T, NEW l \in Seq(T), NEW i \in 1 .. Len(l)
  PROVE  /\ RemoveAt(l, i) \in Seq(T) /\ l[i] \in T /\ l[i] \in ToSet(l)
         /\ ToSet(RemoveAt(l, i)) \cup {l[i]} = ToSet(l)
<1>1. Len(l) \in Nat /\ DOMAIN l = 1 .. Len(l) /\ \A k \in DOMAIN l : l[k] \in T
  BY LenProperties, ElementOfSeq
<1>2. i - 1 \in Nat /\ i - 1 <= Len(l) /\ i + 1 \in Nat \ {0}
  BY <1>1
<1>3. SubSeq(l, 1, i - 1) \in Seq(T) /\ ToSet(SubSeq(l, 1, i - 1)) = Between(l, 1, i - 1)
  BY <1>2, PartSets
<1>4. /\ SubSeq(l, i + 1, Len(l)) \in Seq(T)
      /\ ToSet(SubSeq(l, i + 1, Len(l))) = Between(l, i + 1, Len(l))
  BY <1>1, <1>2, PartSets
<1>5. /\ RemoveAt(l, i) \in Seq(T)
      /\ ToSet(RemoveAt(l, i)) = Between(l, 1, i - 1) \cup Between(l, i + 1, Len(l))
  <2>1. PICK p \in Seq(T) : p = SubSeq(l, 1, i - 1)
    BY <1>3
  <2>2. PICK q \in Seq(T) : q = SubSeq(l, i + 1, Len(l))
    BY <1>4
  <2>3. p \o q \in Seq(T) /\ ToSet(p \o q) = ToSet(p) \cup ToSet(q)
    BY ConcatSets
  <2> QED
    BY <1>3, <1>4, <2>1, <2>2, <2>3 DEF RemoveAt
<1>6. \A k \in 1 .. Len(l) : k \in 1 .. i - 1 \/ k = i \/ k \in i + 1 .. Len(l)
  BY <1>1
<1>7. ToSet(l) = Between(l, 1, Len(l))
  BY <1>1 DEF ToSet, Between
<1>8. ToSet(l) = Between(l, 1, i - 1) \cup {l[i]} \cup Between(l, i + 1, Len(l))
  BY <1>1, <1>6, <1>7 DEF Between
<1> QED
  BY <1>1, <1>5, <1>8

\* A list that is turned round.
LEMMA ReverseSets ==
  ASSUME NEW T, NEW l \in Seq(T)
  PROVE  Reverse(l) \in Seq(T) /\ ToSet(Reverse(l)) = ToSet(l)
<1> DEFINE v == Reverse(l)
           n == Len(l)
<1>1. n \in Nat /\ DOMAIN l = 1 .. n /\ \A k \in DOMAIN l : l[k] \in T
  BY LenProperties, ElementOfSeq
<1>2. v = [i \in 1 .. n |-> l[n - i + 1]]
  BY DEF Reverse
<1> HIDE DEF v, n
<1>3. \A i \in 1 .. n : n - i + 1 \in 1 .. n /\ n - (n - i + 1) + 1 = i
  BY <1>1
<1>4. v \in [1 .. n -> T]
  BY <1>1, <1>2, <1>3
<1>5. v \in Seq(T)
  BY <1>1, <1>4, SeqDef
<1>6. \A i \in 1 .. n : v[i] = l[n - i + 1] /\ v[n - i + 1] = l[i]
  BY <1>1, <1>2, <1>3
<1>7. DOMAIN v = 1 .. n
  BY <1>2
<1>8. ToSet(v) = ToSet(l)
  BY <1>1, <1>3, <1>6, <1>7 DEF ToSet
<1> QED
  BY <1>5, <1>8 DEF v

\* The empty list.
LEMMA EmptyList == <<>> \in Seq(Requests) /\ ToSet(<<>>) = {}
BY DEF ToSet

-------------------------------------------------------------------------------
(* The requests and their count. *)

\* The requests that lack a result are finitely many.
LEMMA ReadyFinite ==
  ASSUME NEW q
  PROVE  IsFiniteSet(ReadyIn(q)) /\ Cardinality(ReadyIn(q)) \in Nat
<1>1. IsFiniteSet(Requests)
  BY ConstantsAssumption, FS_Interval DEF Requests
<1>2. ReadyIn(q) \subseteq Requests
  BY DEF ReadyIn
<1>3. IsFiniteSet(ReadyIn(q))
  BY <1>1, <1>2, FS_Subset
<1> QED
  BY <1>3, FS_CardinalityType

\* When no request gets a result the same ones lack it.
LEMMA ReadySame ==
  ASSUME NEW q, NEW p, \A r \in Requests : p[r].status = q[r].status
  PROVE  ReadyIn(p) = ReadyIn(q)
BY DEF ReadyIn

\* A request that gets a result, its first or another one, is counted off once.
LEMMA ReadyLess ==
  ASSUME NEW q, NEW p, NEW r \in Requests, p[r].status # "READY",
         \A x \in Requests : x # r => p[x].status = q[x].status
  PROVE  Cardinality(ReadyIn(p)) = IF q[r].status = "READY" THEN Cardinality(ReadyIn(q)) - 1
                                   ELSE Cardinality(ReadyIn(q))
<1>1. ReadyIn(p) = ReadyIn(q) \ {r}
  BY DEF ReadyIn
<1>2. r \in ReadyIn(q) <=> q[r].status = "READY"
  BY DEF ReadyIn
<1>3. IsFiniteSet(ReadyIn(q))
  BY ReadyFinite
<1>4. Cardinality(ReadyIn(q) \ {r}) = IF r \in ReadyIn(q) THEN Cardinality(ReadyIn(q)) - 1
                                     ELSE Cardinality(ReadyIn(q))
  <2>1. PICK Q : Q = ReadyIn(q)
    OBVIOUS
  <2>2. IsFiniteSet(Q)
    BY <1>3, <2>1
  <2>3. Cardinality(Q \ {r}) = IF r \in Q THEN Cardinality(Q) - 1 ELSE Cardinality(Q)
    BY <2>2, FS_RemoveElement
  <2> QED
    BY <2>1, <2>3
<1> QED
  BY <1>1, <1>2, <1>4

-------------------------------------------------------------------------------
(* The servers. *)

\* A change of one server and of the list of new requests keeps request r listed when it
\* is kept for r by those two.
LEMMA OneServer ==
  ASSUME NEW SV, NEW s \in DOMAIN SV, NEW S, NEW N, NEW M, NEW r, OnList(N, SV, r),
         r \in ToSet(N) \/ Holds(SV[s], r) => r \in ToSet(M) \/ Holds(S, r)
  PROVE  OnList(M, [SV EXCEPT ![s] = S], r)
<1>1. CASE r \in ToSet(N) \/ Holds(SV[s], r)
  BY <1>1 DEF OnList
<1>2. CASE ~(r \in ToSet(N) \/ Holds(SV[s], r))
  <2>1. PICK t \in DOMAIN SV : Holds(SV[t], r)
    BY <1>2 DEF OnList
  <2>2. t # s
    BY <1>2, <2>1
  <2> QED
    BY <2>1, <2>2 DEF OnList
<1> QED
  BY <1>1, <1>2

\* The bounds of capacities.
LEMMA CapacityType ==
  ASSUME NEW c \in Int
  PROVE  check_capacities(c) \in CapacityMin .. CapacityMax
BY ConstantsAssumption DEF check_capacities

\* The fields of a server.
LEMMA ServerFields ==
  ASSUME NEW S \in Server
  PROVE  /\ S.status \in {"DISCONNECTED", "CONNECTED"} /\ S.reqs_on_wire \in Int
         /\ S.capacity \in CapacityMin .. CapacityMax /\ S.capacity \in Int
         /\ S.ssthresh \in CapacityMin .. CapacityMax /\ S.ssthresh \in Int
         /\ S.to_process \in Seq(Requests) /\ S.in_process \in Seq(Requests)
         /\ S.records \subseteq Requests /\ S.writes \in [Requests -> Nat]
         /\ S.asked \subseteq Requests
BY ConstantsAssumption DEF Server

\* Another capacity changes nothing about the lists.
LEMMA ScaledDownIs ==
  ASSUME NEW S \in Server, NEW tenths \in {4, 7}
  PROVE  /\ ScaledDown(S, tenths) \in Server /\ ScaledDown(S, tenths).status = S.status
         /\ ScaledDown(S, tenths).to_process = S.to_process
         /\ ScaledDown(S, tenths).in_process = S.in_process
<1>1. PICK c : c = check_capacities((S.capacity * tenths) \div 10)
  OBVIOUS
<1>2. PICK m : m = IF S.capacity < S.ssthresh THEN S.capacity ELSE S.ssthresh
  OBVIOUS
<1>3. m \in CapacityMin .. CapacityMax
  BY <1>2, ServerFields
<1>4. (S.capacity * tenths) \div 10 \in Int
  <2>1. PICK k \in Int : k = S.capacity
    BY ServerFields
  <2>2. (k * 4) \div 10 \in Int /\ (k * 7) \div 10 \in Int
    BY <2>1
  <2> QED
    BY <2>1, <2>2
<1>5. c \in CapacityMin .. CapacityMax
  BY <1>1, <1>4, CapacityType
<1>6. ScaledDown(S, tenths) = [S EXCEPT !.ssthresh = m, !.capacity = c]
  BY <1>1, <1>2 DEF ScaledDown, Server
<1> QED
  BY <1>3, <1>5, <1>6 DEF Server

\* A request that timed out is taken off the list of those in process.
LEMMA TakenOffIs ==
  ASSUME server \in [Servers -> Server], NEW s \in Servers,
         NEW i \in 1 .. Len(server[s].in_process)
  PROVE  /\ TakenOff(s, i) \in Server /\ TakenOff(s, i).status = server[s].status
         /\ TakenOff(s, i).to_process = server[s].to_process
         /\ server[s].in_process[i] \in Requests
         /\ server[s].in_process[i] \in ToSet(server[s].in_process)
         /\ ToSet(TakenOff(s, i).in_process) \cup {server[s].in_process[i]}
              = ToSet(server[s].in_process)
<1>1. PICK S \in Server : S = server[s]
  OBVIOUS
<1>2. PICK l \in Seq(Requests) : l = S.in_process
  BY ServerFields
<1>3. PICK k \in Seq(Requests) : k = RemoveAt(l, i)
  BY <1>1, <1>2, RemoveAtSets
<1>4. l[i] \in Requests /\ l[i] \in ToSet(l) /\ ToSet(k) \cup {l[i]} = ToSet(l)
  BY <1>1, <1>2, <1>3, RemoveAtSets
<1>5. TakenOff(s, i) = [S EXCEPT !.in_process = k, !.reqs_on_wire = S.reqs_on_wire - 1]
  BY <1>1, <1>2, <1>3 DEF TakenOff
<1>6. S.reqs_on_wire - 1 \in Int
  BY ServerFields
<1>7. /\ TakenOff(s, i) \in Server /\ TakenOff(s, i).status = S.status
      /\ TakenOff(s, i).to_process = S.to_process /\ TakenOff(s, i).in_process = k
  BY <1>5, <1>6 DEF Server
<1> QED
  BY <1>1, <1>2, <1>4, <1>7

\* The server that gets a request after server s.
LEMMA NextServerIs ==
  ASSUME num_servers \in Nat, NEW s \in Servers
  PROVE  NextServer(s) \in Servers /\ (Connected(s) => Connected(NextServer(s)))
<1> DEFINE others == {t \in Servers \ {s} : Connected(t)}
           later == {t \in others : t > s}
<1>1. \A S \in SUBSET Servers : S # {} => Min(S) \in S
  <2> SUFFICES ASSUME NEW S \in SUBSET Servers, S # {} PROVE Min(S) \in S
    OBVIOUS
  <2>1. S \in SUBSET Nat
    BY DEF Servers
  <2>2. PICK n \in S : \A m \in S : ~ (<<m, n>> \in OpToRel(<, Nat))
    BY <2>1, WFMin, NatLessThanWellFounded, Zenon
  <2>3. \A m \in S : ~ (m < n)
    BY <2>1, <2>2, Zenon DEF OpToRel
  <2>4. \A m \in S : n <= m
    BY <2>1, <2>3
  <2> QED
    BY <2>4, Zenon DEF Min
<1>2. later \in SUBSET Servers /\ others \in SUBSET Servers
  OBVIOUS
<1>3. NextServer(s) = IF later # {} THEN Min(later) ELSE IF others # {} THEN Min(others) ELSE s
  BY DEF NextServer
<1>4. later # {} => Min(later) \in others
  BY <1>1, <1>2
<1>5. others # {} => Min(others) \in others
  BY <1>1, <1>2
<1> QED
  BY <1>3, <1>4, <1>5

-------------------------------------------------------------------------------
(* The steps. *)

\* The number of servers does not change.
LEMMA SameServers ==
  ASSUME Next
  PROVE  num_servers' = num_servers
BY Zenon DEF Next, SomeTimeOut, TimeOut, LoopStep, StartBatch, NextTimeouts, WriteServer, EndLoop,
  EndEvents, Return, Handler, ReadFails, Answered, NoSuchName, WriteDone, WriteFails, ServFail,
  Unusable, Finished, vars

\* What depends on it.
LEMMA SameRequest ==
  ASSUME num_servers' = num_servers
  PROVE  Servers' = Servers /\ Tries' = Tries /\ Request' = Request
BY DEF Servers, Tries, Request

\* The tries on a server and the fields of a request.
LEMMA RequestFields ==
  ASSUME LoopTypes, NEW q \in Request
  PROVE  /\ Tries \in Nat \ {0} /\ q.tries \in 0 .. Tries /\ q.servers_tried \in Nat
         /\ q.status \in {"READY", "NORESULT", "DONE"}
BY ConstantsAssumption DEF LoopTypes, Request, Tries

\* A request that timed out is tried again on its server.
LEMMA TryAgainKeeps ==
  ASSUME Inv, NEW s \in Servers, NEW i \in 1 .. Len(server[s].in_process), TryAgain(s, i)
  PROVE  Requested(new_reqs, request', total_reqs', server')
<1>1. /\ server \in [Servers -> Server] /\ request \in [Requests -> Request]
      /\ \A t \in Servers : EmptyIfLost(server[t])
  BY DEF Inv, Requested
<1>2. PICK r \in Requests : r = server[s].in_process[i]
  BY <1>1, TakenOffIs
<1> DEFINE tries == TriesNow(r)
           scale == ~adjusted /\ request[r].servers_tried = 0 /\ tries <= 1
<1>3. PICK S : S = IF scale THEN ScaledDown(TakenOff(s, i), 7) ELSE TakenOff(s, i)
  OBVIOUS
<1>4. /\ tries < Tries
      /\ request' = [request EXCEPT ![r] = [request[r] EXCEPT !.tries = tries]]
      /\ server' = [server EXCEPT ![s] = [S EXCEPT !.to_process = Append(S.to_process, r)]]
      /\ total_reqs' = total_reqs
  BY <1>2, <1>3 DEF TryAgain
<1>5. /\ S \in Server /\ S.status = server[s].status /\ S.to_process = server[s].to_process
      /\ r \in ToSet(server[s].in_process)
      /\ ToSet(S.in_process) \cup {r} = ToSet(server[s].in_process)
  BY <1>1, <1>2, <1>3, TakenOffIs, ScaledDownIs
<1>6. PICK l \in Seq(Requests) : l = Append(S.to_process, r)
  BY <1>5, ServerFields, AppendSets
<1>7. ToSet(l) = ToSet(S.to_process) \cup {r}
  BY <1>5, <1>6, ServerFields, AppendSets
<1>8. PICK Z : Z = [S EXCEPT !.to_process = l]
  OBVIOUS
<1>9. Z \in Server /\ Z.status = S.status /\ Z.to_process = l /\ Z.in_process = S.in_process
  BY <1>5, <1>8 DEF Server
<1>10. server' = [server EXCEPT ![s] = Z]
  BY <1>4, <1>6, <1>8
<1>11. server' \in [Servers -> Server]
  BY <1>1, <1>9, <1>10
<1>12. /\ request' \in [Requests -> Request]
       /\ \A x \in Requests : /\ request'[x].status = request[x].status
                              /\ request'[x].servers_tried = request[x].servers_tried
  <2>1. PICK q \in Request : q = [request[r] EXCEPT !.tries = tries]
    <3>1. tries \in 0 .. Tries
      BY <1>1, <1>4, RequestFields DEF Inv, TriesNow
    <3> QED
      BY <1>1, <3>1 DEF Request
  <2>2. q.status = request[r].status /\ q.servers_tried = request[r].servers_tried
    BY <1>1, <2>1 DEF Request
  <2>3. request' = [request EXCEPT ![r] = q]
    BY <1>4, <2>1
  <2> QED
    BY <1>1, <2>2, <2>3
<1>13. server[s].status = "CONNECTED"
  <2>1. server[s].in_process # <<>>
    BY <1>5, EmptyList
  <2> QED
    BY <1>1, <2>1 DEF EmptyIfLost
<1>14. ReadyIn(request') = ReadyIn(request)
  BY <1>12, ReadySame
<1>15. ASSUME NEW x \in Requests, OnList(new_reqs, server, x)
       PROVE  OnList(new_reqs, server', x)
  <2>1. s \in DOMAIN server
    BY <1>1
  <2>2. Holds(server[s], x) => Holds(Z, x)
    BY <1>5, <1>7, <1>9 DEF Holds
  <2> QED
    BY <1>10, <1>15, <2>1, <2>2, OneServer
<1>16. \A t \in Servers : EmptyIfLost(server'[t])
  <2>1. EmptyIfLost(Z)
    BY <1>5, <1>9, <1>13 DEF EmptyIfLost
  <2> QED
    BY <1>1, <1>10, <2>1
<1> QED
  BY <1>4, <1>11, <1>12, <1>14, <1>15, <1>16 DEF Requested, Inv, ReadyIn

\* A server that is handed a request has it in its queue.
LEMMA HandedIs ==
  ASSUME NEW S \in Server, NEW r \in Requests
  PROVE  /\ Handed(S, r) \in Server /\ Handed(S, r).status = S.status
         /\ Handed(S, r).in_process = S.in_process
         /\ ToSet(Handed(S, r).to_process) = ToSet(S.to_process) \cup {r}
<1>1. PICK l \in Seq(Requests) : l = Append(S.to_process, r)
  BY ServerFields, AppendSets
<1>2. ToSet(l) = ToSet(S.to_process) \cup {r}
  BY <1>1, ServerFields, AppendSets
<1>3. PICK R \in SUBSET Requests : R = S.records \cup {r}
  BY ServerFields
<1>4. Handed(S, r) = [S EXCEPT !.records = R, !.to_process = l]
  BY <1>1, <1>3 DEF Handed
<1>5. PICK H : H = Handed(S, r)
  OBVIOUS
<1>6. /\ H \in Server /\ H.status = S.status /\ H.in_process = S.in_process
      /\ H.to_process = l
  BY <1>4, <1>5 DEF Server
<1> QED
  BY <1>2, <1>5, <1>6

\* A request that timed out often enough on its server goes to the next one or is dropped.
LEMMA MoveOnKeeps ==
  ASSUME Inv, NEW s \in Servers, NEW i \in 1 .. Len(server[s].in_process), MoveOn(s, i)
  PROVE  Requested(new_reqs, request', total_reqs', server')
<1>1. /\ server \in [Servers -> Server] /\ request \in [Requests -> Request]
      /\ \A t \in Servers : EmptyIfLost(server[t])
      /\ total_reqs = Cardinality(ReadyIn(request)) /\ new_reqs \in Seq(Requests)
      /\ num_servers \in Nat
      /\ \A x \in ReadyIn(request) :
           request[x].servers_tried < ServersToTry /\ OnList(new_reqs, server, x)
  BY DEF Inv, Requested, LoopTypes
<1>2. PICK r \in Requests : r = server[s].in_process[i]
  BY <1>1, TakenOffIs
<1> DEFINE tried == request[r].servers_tried + 1
           scale == ~adjusted /\ request[r].servers_tried = 0
<1>3. PICK next \in Servers : next = NextServer(s)
  BY <1>1, NextServerIs
<1>4. PICK drop \in BOOLEAN : drop = (next = request[r].first_server \/ tried = ServersToTry)
  OBVIOUS
<1>5. PICK Z : Z = IF scale THEN ScaledDown(TakenOff(s, i), 4) ELSE TakenOff(s, i)
  OBVIOUS
<1>6. PICK S : S = [server EXCEPT ![s] = Z]
  OBVIOUS
<1>7. /\ request' = [request EXCEPT ![r] =
                       [request[r] EXCEPT !.tries = 0, !.servers_tried = tried,
                          !.status = IF drop THEN "NORESULT" ELSE request[r].status]]
      /\ total_reqs' = IF drop /\ request[r].status = "READY" THEN total_reqs - 1 ELSE total_reqs
      /\ server' = IF drop THEN S ELSE [S EXCEPT ![next] = Handed(S[next], r)]
  BY <1>2, <1>3, <1>4, <1>5, <1>6 DEF MoveOn, Ready
<1>8. /\ Z \in Server /\ Z.status = server[s].status /\ Z.to_process = server[s].to_process
      /\ r \in ToSet(server[s].in_process)
      /\ ToSet(Z.in_process) \cup {r} = ToSet(server[s].in_process)
  <2>1. PICK O \in Server : O = TakenOff(s, i)
    BY <1>1, TakenOffIs
  <2>2. /\ O.status = server[s].status /\ O.to_process = server[s].to_process
        /\ r \in ToSet(server[s].in_process)
        /\ ToSet(O.in_process) \cup {r} = ToSet(server[s].in_process)
    BY <1>1, <1>2, <2>1, TakenOffIs
  <2>3. Z = O \/ Z = ScaledDown(O, 4)
    BY <1>5, <2>1
  <2>4. /\ Z \in Server /\ Z.status = O.status /\ Z.to_process = O.to_process
        /\ Z.in_process = O.in_process
    BY <2>3, ScaledDownIs
  <2> QED
    BY <2>2, <2>4
<1>9. server[s].status = "CONNECTED" /\ server[next].status = "CONNECTED"
  <2>1. server[s].in_process # <<>>
    BY <1>8, EmptyList
  <2>2. server[s].status = "CONNECTED"
    BY <1>1, <2>1 DEF EmptyIfLost
  <2> QED
    BY <1>1, <1>3, <2>2, NextServerIs DEF Connected
<1>10. /\ S \in [Servers -> Server] /\ S[next].status = "CONNECTED"
       /\ \A t \in Servers : EmptyIfLost(S[t])
  BY <1>1, <1>6, <1>8, <1>9 DEF EmptyIfLost
<1>11. ASSUME NEW x \in Requests, x # r, OnList(new_reqs, server, x)
       PROVE  OnList(new_reqs, S, x)
  <2>1. s \in DOMAIN server
    BY <1>1
  <2>2. Holds(server[s], x) => Holds(Z, x)
    BY <1>8, <1>11 DEF Holds
  <2> QED
    BY <1>6, <1>11, <2>1, <2>2, OneServer
<1>12. PICK q \in Request :
         /\ q.servers_tried = tried /\ q.status = IF drop THEN "NORESULT" ELSE request[r].status
         /\ request' = [request EXCEPT ![r] = q]
  <2>1. PICK v \in {"READY", "NORESULT", "DONE"} :
          v = IF drop THEN "NORESULT" ELSE request[r].status
    BY <1>1, RequestFields DEF Inv
  <2>2. PICK n \in Nat : n = tried
    BY <1>1, RequestFields DEF Inv
  <2>3. PICK q : q = [request[r] EXCEPT !.tries = 0, !.servers_tried = n, !.status = v]
    OBVIOUS
  <2>4. q \in Request /\ q.servers_tried = n /\ q.status = v
    <3>1. 0 \in 0 .. Tries /\ request[r] \in Request
      BY <1>1, RequestFields DEF Inv
    <3> QED
      BY <2>3, <3>1 DEF Request
  <2> QED
    BY <1>7, <2>1, <2>2, <2>3, <2>4
<1>13. /\ request' \in [Requests -> Request] /\ request'[r] = q
       /\ \A x \in Requests : x # r => request'[x] = request[x]
  BY <1>1, <1>12
<1>14. CASE drop
  <2>1. request'[r].status # "READY"
    BY <1>12, <1>13, <1>14
  <2>2. total_reqs' = Cardinality(ReadyIn(request'))
    <3>1. PICK p : p = request'
      OBVIOUS
    <3>2. p[r].status # "READY" /\ \A x \in Requests : x # r => p[x].status = request[x].status
      BY <1>13, <2>1, <3>1
    <3>3. Cardinality(ReadyIn(p)) = IF request[r].status = "READY"
                                    THEN Cardinality(ReadyIn(request)) - 1
                                    ELSE Cardinality(ReadyIn(request))
      BY <3>2, ReadyLess
    <3> QED
      BY <1>1, <1>7, <1>14, <3>1, <3>3
  <2>3. ASSUME NEW x \in ReadyIn(request')
        PROVE  request'[x].servers_tried < ServersToTry /\ OnList(new_reqs, server', x)
    <3>1. x \in Requests /\ x # r /\ x \in ReadyIn(request)
      BY <1>13, <2>1 DEF ReadyIn
    <3> QED
      BY <1>1, <1>7, <1>11, <1>13, <1>14, <3>1
  <2> QED
    BY <1>1, <1>7, <1>10, <1>13, <1>14, <2>2, <2>3 DEF Requested
<1>15. CASE ~drop
  <2>1. PICK H : H = Handed(S[next], r)
    OBVIOUS
  <2>2. /\ H \in Server /\ H.status = "CONNECTED" /\ H.in_process = S[next].in_process
        /\ ToSet(H.to_process) = ToSet(S[next].to_process) \cup {r}
    BY <1>10, <2>1, HandedIs
  <2>3. server' = [S EXCEPT ![next] = H] /\ total_reqs' = total_reqs
    BY <1>7, <1>15, <2>1
  <2>4. server' \in [Servers -> Server] /\ \A t \in Servers : EmptyIfLost(server'[t])
    BY <1>10, <2>2, <2>3 DEF EmptyIfLost
  <2>5. \A x \in Requests : request'[x].status = request[x].status
    BY <1>12, <1>13, <1>15
  <2>6. ReadyIn(request') = ReadyIn(request)
    BY <2>5, ReadySame
  <2>7. ASSUME NEW x \in ReadyIn(request')
        PROVE  request'[x].servers_tried < ServersToTry /\ OnList(new_reqs, server', x)
    <3>1. x \in Requests /\ x \in ReadyIn(request)
      BY <2>6 DEF ReadyIn
    <3>2. CASE x = r
      <4>1. request[r].servers_tried < ServersToTry /\ tried # ServersToTry
        BY <1>1, <1>4, <1>15, <3>1, <3>2
      <4>2. request[r].servers_tried \in Nat /\ ServersToTry \in Nat
        BY <1>1, RequestFields, ConstantsAssumption DEF Inv
      <4>3. tried < ServersToTry
        BY <4>1, <4>2
      <4>4. Holds(server'[next], r) /\ next \in DOMAIN server'
        BY <1>10, <2>2, <2>3 DEF Holds
      <4> QED
        BY <1>12, <1>13, <3>2, <4>3, <4>4 DEF OnList
    <3>3. CASE x # r
      <4>1. OnList(new_reqs, S, x) /\ next \in DOMAIN S
        BY <1>1, <1>10, <1>11, <3>1, <3>3
      <4>2. Holds(S[next], x) => Holds(H, x)
        BY <2>2 DEF Holds
      <4>3. OnList(new_reqs, server', x)
        BY <2>3, <4>1, <4>2, OneServer
      <4> QED
        BY <1>1, <1>13, <3>1, <3>3, <4>3
    <3> QED
      BY <3>2, <3>3
  <2> QED
    BY <1>1, <1>13, <2>3, <2>4, <2>6, <2>7 DEF Requested
<1> QED
  BY <1>14, <1>15

\* Another capacity.
LEMMA NextTimeoutsKeeps ==
  ASSUME Inv, NEW increase \in BOOLEAN, NextTimeouts(increase)
  PROVE  Requested(new_reqs', request', total_reqs', server')
<1>1. /\ server \in [Servers -> Server] /\ at \in Servers
      /\ \A t \in Servers : EmptyIfLost(server[t])
  BY DEF Inv, Requested, LoopTypes
<1>2. PICK c : c = IF increase THEN check_capacities(server[at].capacity + CapacityUpStep)
                   ELSE server[at].capacity
  OBVIOUS
<1>3. c \in CapacityMin .. CapacityMax
  <2>1. PICK k \in Int : k = server[at].capacity + CapacityUpStep
    BY <1>1, ServerFields, ConstantsAssumption
  <2> QED
    BY <1>1, <1>2, <2>1, CapacityType, ServerFields
<1>4. PICK Z : Z = [server[at] EXCEPT !.capacity = c]
  OBVIOUS
<1>5. /\ Z \in Server /\ Z.status = server[at].status
      /\ Z.to_process = server[at].to_process /\ Z.in_process = server[at].in_process
  BY <1>1, <1>3, <1>4 DEF Server
<1>6. /\ server' = [server EXCEPT ![at] = Z]
      /\ UNCHANGED <<new_reqs, total_reqs, request>>
  BY <1>2, <1>4 DEF NextTimeouts
<1>7. server' \in [Servers -> Server] /\ \A t \in Servers : EmptyIfLost(server'[t])
  BY <1>1, <1>5, <1>6 DEF EmptyIfLost
<1>8. ASSUME NEW x, OnList(new_reqs, server, x)
      PROVE  OnList(new_reqs, server', x)
  <2>1. at \in DOMAIN server /\ (Holds(server[at], x) => Holds(Z, x))
    BY <1>1, <1>5 DEF Holds
  <2> QED
    BY <1>6, <1>8, <2>1, OneServer
<1> QED
  BY <1>6, <1>7, <1>8 DEF Requested, Inv

-------------------------------------------------------------------------------
(* Sending. *)

\* The smaller of two numbers.
LEMMA MinOfTwo ==
  ASSUME NEW a \in Nat, NEW b \in Nat
  PROVE  Min({a, b}) = IF a <= b THEN a ELSE b
<1>1. PICK c \in {a, b} : c = IF a <= b THEN a ELSE b
  OBVIOUS
<1>2. \A y \in {a, b} : c <= y
  BY <1>1
<1>3. \A x \in {a, b} : (\A y \in {a, b} : x <= y) => x = c
  BY <1>1
<1> QED
  BY <1>1, <1>2, <1>3 DEF Min

\* What is not taken from the two lists stays there.
LEMMA TakenFromTwo ==
  ASSUME NEW T, NEW N \in Seq(T), NEW P \in Seq(T), NEW last \in 0 .. Len(N \o P),
         NEW f, f = Min({last, Len(N)})
  PROVE  /\ f \in 0 .. Len(N)
         /\ SubSeq(N, f + 1, Len(N)) \in Seq(T) /\ SubSeq(P, last - f + 1, Len(P)) \in Seq(T)
         /\ SubSeq(N \o P, 1, last) \in Seq(T)
         /\ \A x \in ToSet(N) : \/ x \in ToSet(SubSeq(N, f + 1, Len(N)))
                                \/ x \in ToSet(SubSeq(N \o P, 1, last))
         /\ \A x \in ToSet(P) : \/ x \in ToSet(SubSeq(P, last - f + 1, Len(P)))
                                \/ x \in ToSet(SubSeq(N \o P, 1, last))
<1>1. PICK a \in Nat : a = Len(N) /\ DOMAIN N = 1 .. a
  BY LenProperties
<1>2. PICK b \in Nat : b = Len(P) /\ DOMAIN P = 1 .. b
  BY LenProperties
<1>0. PICK Q : Q = N \o P
  OBVIOUS
<1>3. /\ Q \in Seq(T) /\ Len(Q) = a + b
      /\ \A k \in 1 .. a : Q[k] = N[k]
      /\ \A k \in a + 1 .. a + b : Q[k] = P[k - a]
  BY <1>0, <1>1, <1>2, ConcatProperties
<1>4. last \in Nat /\ last <= a + b
  BY <1>0, <1>1, <1>2, <1>3
<1>5. f = IF last <= a THEN last ELSE a
  BY <1>1, <1>4, MinOfTwo
<1>6. f \in Nat /\ f <= a /\ f <= last /\ last - f \in Nat /\ last - f <= b
  BY <1>4, <1>5
<1>7. PICK u \in Nat \ {0} : u = f + 1
  BY <1>6
<1>8. PICK v \in Nat \ {0} : v = last - f + 1
  BY <1>6
<1>9. PICK X \in Seq(T) : X = SubSeq(N, u, a) /\ ToSet(X) = Between(N, u, a)
  <2>1. a <= Len(N)
    BY <1>1
  <2>2. SubSeq(N, u, a) \in Seq(T) /\ ToSet(SubSeq(N, u, a)) = Between(N, u, a)
    BY <2>1, PartSets
  <2> QED
    BY <2>2
<1>10. PICK Y \in Seq(T) : Y = SubSeq(P, v, b) /\ ToSet(Y) = Between(P, v, b)
  <2>1. b <= Len(P)
    BY <1>2
  <2>2. SubSeq(P, v, b) \in Seq(T) /\ ToSet(SubSeq(P, v, b)) = Between(P, v, b)
    BY <2>1, PartSets
  <2> QED
    BY <2>2
<1>11. PICK V \in Seq(T) : V = SubSeq(Q, 1, last) /\ ToSet(V) = Between(Q, 1, last)
  <2>1. PICK one \in Nat \ {0} : one = 1
    OBVIOUS
  <2>2. last <= Len(Q)
    BY <1>3, <1>4
  <2>3. SubSeq(Q, one, last) \in Seq(T) /\ ToSet(SubSeq(Q, one, last)) = Between(Q, one, last)
    BY <1>3, <1>4, <2>2, PartSets
  <2> QED
    BY <2>1, <2>3
<1>12. ASSUME NEW x \in ToSet(N)
       PROVE  x \in Between(N, u, a) \/ x \in Between(Q, 1, last)
  <2>1. PICK k \in 1 .. a : x = N[k]
    BY <1>1 DEF ToSet
  <2>2. CASE k <= f
    <3>1. k \in 1 .. last /\ x = Q[k]
      BY <1>3, <1>4, <1>6, <2>1, <2>2
    <3> QED
      BY <3>1 DEF Between
  <2>3. CASE k > f
    <3>1. k \in u .. a
      BY <1>6, <1>7, <2>3
    <3> QED
      BY <2>1, <3>1 DEF Between
  <2> QED
    BY <1>6, <2>2, <2>3
<1>13. ASSUME NEW x \in ToSet(P)
       PROVE  x \in Between(P, v, b) \/ x \in Between(Q, 1, last)
  <2>1. PICK k \in 1 .. b : x = P[k]
    BY <1>2 DEF ToSet
  <2>2. CASE k <= last - f
    <3>1. PICK j \in 1 .. last : j = k + a
      BY <1>4, <1>5, <2>2
    <3>2. j \in a + 1 .. a + b /\ j - a = k
      BY <3>1
    <3>3. x = Q[j]
      BY <1>3, <2>1, <3>2
    <3> QED
      BY <3>3 DEF Between
  <2>3. CASE k > last - f
    <3>1. k \in v .. b
      BY <1>6, <1>8, <2>3, SMTT(30)
    <3> QED
      BY <2>1, <3>1 DEF Between
  <2> QED
    BY <1>6, <2>2, <2>3
<1>14. /\ X = SubSeq(N, f + 1, Len(N)) /\ Y = SubSeq(P, last - f + 1, Len(P))
       /\ V = SubSeq(N \o P, 1, last)
  BY <1>0, <1>1, <1>2, <1>7, <1>8, <1>9, <1>10, <1>11
<1>15. f \in 0 .. Len(N)
  BY <1>1, <1>6
<1>16. /\ \A x \in ToSet(N) : x \in ToSet(X) \/ x \in ToSet(V)
       /\ \A x \in ToSet(P) : x \in ToSet(Y) \/ x \in ToSet(V)
  BY <1>9, <1>10, <1>11, <1>12, <1>13
<1> QED
  BY <1>14, <1>15, <1>16

\* A request is on a list a finite number of times.
LEMMA OccurrencesType ==
  ASSUME NEW l \in Seq(Requests), NEW r
  PROVE  Occurrences(l, r) \in Nat
<1>1. Len(l) \in Nat /\ DOMAIN l = 1 .. Len(l)
  BY LenProperties
<1>2. IsFiniteSet(DOMAIN l)
  BY <1>1, FS_Interval
<1>3. PICK K : K = {k \in DOMAIN l : l[k] = r}
  OBVIOUS
<1>4. IsFiniteSet(K)
  BY <1>2, <1>3, FS_Subset
<1>5. Cardinality(K) \in Nat
  BY <1>4, FS_CardinalityType
<1> QED
  BY <1>3, <1>5 DEF Occurrences

\* What server_send() does to a server S and to the list N of new requests: of the first
\* ones of both lists those that lack a result are in process now.
Sent(S, N, Z, M) ==
  /\ Z \in Server /\ Z.status = S.status /\ M \in Seq(Requests)
  /\ \A r \in ToSet(S.in_process) : r \in ToSet(Z.in_process)
  /\ \A r \in ReadyOnes :
       /\ r \in ToSet(N) => r \in ToSet(M) \/ r \in ToSet(Z.in_process)
       /\ r \in ToSet(S.to_process) => r \in ToSet(Z.to_process) \/ r \in ToSet(Z.in_process)

\* server_send() does that, and no request gets a result by it.
LEMMA SendUpToIs ==
  ASSUME NEW SV \in [Servers -> Server], NEW s \in Servers, NEW n, SendUpTo(SV, s, n),
         new_reqs \in Seq(Requests), request \in [Requests -> Request]
  PROVE  /\ \E Z : Sent(SV[s], new_reqs, Z, new_reqs') /\ server' = [SV EXCEPT ![s] = Z]
         /\ request' \in [Requests -> Request]
         /\ \A r \in Requests : /\ request'[r].status = request[r].status
                                /\ request'[r].servers_tried = request[r].servers_tried
<1>1. PICK S \in Server : S = SV[s]
  OBVIOUS
<1>2. PICK P \in Seq(Requests) : P = S.to_process
  BY ServerFields
<1>3. PICK I \in Seq(Requests) : I = S.in_process
  BY ServerFields
<1> DEFINE queue == new_reqs \o SV[s].to_process
           enough == {k \in 0 .. Len(queue) : Cardinality({j \in 1 .. k : Ready(queue[j])}) = n}
<1>4. PICK last \in 0 .. Len(queue) : last = IF enough = {} THEN Len(queue) ELSE Min(enough)
  <2>1. Len(queue) \in Nat
    BY <1>1, <1>2, ConcatSets, LenProperties
  <2>2. ASSUME enough # {} PROVE Min(enough) \in enough
    <3>1. enough \in SUBSET Nat
      BY <2>1
    <3>2. PICK S0 \in SUBSET Nat : S0 = enough
      BY <3>1
    <3>3. PICK k \in S0 : \A m \in S0 : ~ (<<m, k>> \in OpToRel(<, Nat))
      BY <2>2, <3>2, WFMin, NatLessThanWellFounded, Zenon
    <3>4. \A m \in S0 : ~ (m < k)
      BY <3>3, Zenon DEF OpToRel
    <3>5. \A m \in S0 : k <= m
      BY <3>4
    <3>6. Min(S0) \in S0
      BY <3>5, Zenon DEF Min
    <3> QED
      BY <3>2, <3>6
  <2>3. enough \subseteq 0 .. Len(queue)
    OBVIOUS
  <2> HIDE DEF queue, enough
  <2>4. CASE enough = {}
    BY <2>1, <2>4
  <2>5. CASE enough # {}
    <3>1. Min(enough) \in 0 .. Len(queue)
      BY <2>2, <2>3, <2>5
    <3> QED
      BY <2>5, <3>1
  <2> QED
    BY <2>4, <2>5
<1>5. PICK sent : sent = Without(SubSeq(queue, 1, last), Requests \ ReadyOnes)
  OBVIOUS
<1>6. PICK f : f = Min({last, Len(new_reqs)})
  OBVIOUS
<1> DEFINE popped == {new_reqs[k] : k \in 1 .. f}
<1>7. PICK M : M = SubSeq(new_reqs, f + 1, Len(new_reqs))
  OBVIOUS
<1>8. PICK L : L = SubSeq(SV[s].to_process, last - f + 1, Len(SV[s].to_process))
  OBVIOUS
<1>9. PICK V : V = SubSeq(queue, 1, last)
  OBVIOUS
<1>10. /\ new_reqs' = M
       /\ request' = [r \in Requests |-> IF r \in popped
                                         THEN [request[r] EXCEPT !.first_server = s]
                                         ELSE request[r]]
       /\ server' = [SV EXCEPT ![s] =
                       [SV[s] EXCEPT !.to_process = L,
                                     !.in_process = Reverse(sent) \o SV[s].in_process,
                                     !.reqs_on_wire = SV[s].reqs_on_wire + Len(sent),
                                     !.records = SV[s].records \cup ToSet(sent),
                                     !.writes = [r \in Requests |->
                                                   SV[s].writes[r] + Occurrences(sent, r)]]]
  BY <1>4, <1>5, <1>6, <1>7, <1>8 DEF SendUpTo
<1>11. /\ M \in Seq(Requests) /\ L \in Seq(Requests) /\ V \in Seq(Requests)
       /\ \A x \in ToSet(new_reqs) : x \in ToSet(M) \/ x \in ToSet(V)
       /\ \A x \in ToSet(P) : x \in ToSet(L) \/ x \in ToSet(V)
  <2>1. last \in 0 .. Len(new_reqs \o P) /\ V = SubSeq(new_reqs \o P, 1, last)
        /\ L = SubSeq(P, last - f + 1, Len(P))
    BY <1>1, <1>2, <1>8, <1>9
  <2> QED
    BY <1>6, <1>7, <2>1, TakenFromTwo
<1>12. sent \in Seq(Requests) /\ ToSet(sent) = ToSet(V) \ (Requests \ ReadyOnes)
  <2>1. PICK U : U = Requests \ ReadyOnes
    OBVIOUS
  <2>2. Without(V, U) \in Seq(Requests) /\ ToSet(Without(V, U)) = ToSet(V) \ U
    BY <1>11, WithoutProperties
  <2> QED
    BY <1>5, <1>9, <2>1, <2>2
<1>13. Reverse(sent) \in Seq(Requests) /\ ToSet(Reverse(sent)) = ToSet(sent)
  BY <1>12, ReverseSets
<1>14. PICK J \in Seq(Requests) : J = Reverse(sent) \o I /\ ToSet(J) = ToSet(sent) \cup ToSet(I)
  <2>1. PICK R \in Seq(Requests) : R = Reverse(sent)
    BY <1>13
  <2>2. R \o I \in Seq(Requests) /\ ToSet(R \o I) = ToSet(R) \cup ToSet(I)
    BY ConcatSets
  <2> QED
    BY <1>13, <2>1, <2>2
<1>15. PICK w \in Int : w = S.reqs_on_wire + Len(sent)
  <2>1. Len(sent) \in Nat
    BY <1>12, LenProperties
  <2>2. PICK m \in Int : m = S.reqs_on_wire
    BY ServerFields
  <2> QED
    BY <2>1, <2>2
<1>16. PICK R \in SUBSET Requests : R = S.records \cup ToSet(sent)
  <2>1. ToSet(sent) \subseteq Requests
    BY <1>12, ElementOfSeq, LenProperties DEF ToSet
  <2> QED
    BY <2>1, ServerFields
<1>17. PICK W \in [Requests -> Nat] : W = [r \in Requests |-> S.writes[r] + Occurrences(sent, r)]
  <2>1. \A r \in Requests : S.writes[r] \in Nat /\ Occurrences(sent, r) \in Nat
    BY <1>12, OccurrencesType, ServerFields
  <2>2. \A r \in Requests : S.writes[r] + Occurrences(sent, r) \in Nat
    BY <2>1
  <2> QED
    BY <2>2
<1>18. PICK Z : Z = [S EXCEPT !.to_process = L, !.in_process = J, !.reqs_on_wire = w,
                              !.records = R, !.writes = W]
  OBVIOUS
<1>19. Z \in Server /\ Z.status = S.status /\ Z.to_process = L /\ Z.in_process = J
  BY <1>11, <1>18 DEF Server
<1>20. server' = [SV EXCEPT ![s] = Z]
  BY <1>1, <1>3, <1>10, <1>14, <1>15, <1>16, <1>17, <1>18
<1>21. Sent(S, new_reqs, Z, M)
  <2>1. \A r \in ReadyOnes : r \in ToSet(V) => r \in ToSet(J)
    BY <1>12, <1>14
  <2> QED
    BY <1>2, <1>3, <1>11, <1>14, <1>19, <2>1 DEF Sent
<1>22. /\ request' \in [Requests -> Request]
       /\ \A r \in Requests : /\ request'[r].status = request[r].status
                              /\ request'[r].servers_tried = request[r].servers_tried
  <2>1. ASSUME NEW r \in Requests
        PROVE  /\ [request[r] EXCEPT !.first_server = s] \in Request
               /\ [request[r] EXCEPT !.first_server = s].status = request[r].status
               /\ [request[r] EXCEPT !.first_server = s].servers_tried = request[r].servers_tried
    BY DEF Request
  <2>2. PICK pop : pop = popped
    OBVIOUS
  <2>3. request' = [r \in Requests |-> IF r \in pop
                                       THEN [request[r] EXCEPT !.first_server = s]
                                       ELSE request[r]]
    BY <1>10, <2>2
  <2> QED
    BY <2>1, <2>3
<1> QED
  BY <1>1, <1>10, <1>20, <1>21, <1>22

\* Sending to a connected server keeps every request listed.
LEMMA SendKeeps ==
  ASSUME NEW SV, NEW s \in Servers, NEW n, SendUpTo(SV, s, n), SV[s].status = "CONNECTED",
         Requested(new_reqs, request, total_reqs, SV)
  PROVE  Requested(new_reqs', request', total_reqs, server')
<1>1. /\ SV \in [Servers -> Server] /\ new_reqs \in Seq(Requests)
      /\ request \in [Requests -> Request] /\ total_reqs = Cardinality(ReadyIn(request))
      /\ \A r \in ReadyIn(request) :
           request[r].servers_tried < ServersToTry /\ OnList(new_reqs, SV, r)
      /\ \A t \in Servers : EmptyIfLost(SV[t])
  BY DEF Requested
<1>2. /\ request' \in [Requests -> Request]
      /\ \A r \in Requests : /\ request'[r].status = request[r].status
                             /\ request'[r].servers_tried = request[r].servers_tried
  BY <1>1, SendUpToIs
<1>3. PICK Z : Sent(SV[s], new_reqs, Z, new_reqs') /\ server' = [SV EXCEPT ![s] = Z]
  BY <1>1, SendUpToIs
<1>4. PICK M : M = new_reqs'
  OBVIOUS
<1>5. ReadyIn(request') = ReadyIn(request) /\ ReadyIn(request) = ReadyOnes
  BY <1>2, ReadySame DEF ReadyIn, ReadyOnes, Ready
<1>6. /\ Z \in Server /\ Z.status = "CONNECTED" /\ M \in Seq(Requests)
      /\ server' \in [Servers -> Server] /\ \A t \in Servers : EmptyIfLost(server'[t])
  BY <1>1, <1>3, <1>4 DEF Sent, EmptyIfLost
<1>7. ASSUME NEW r \in ReadyIn(request)
      PROVE  OnList(M, server', r)
  <2>1. r \in ToSet(new_reqs) \/ Holds(SV[s], r) => r \in ToSet(M) \/ Holds(Z, r)
    BY <1>3, <1>4, <1>5, <1>6 DEF Sent, Holds
  <2>2. s \in DOMAIN SV /\ OnList(new_reqs, SV, r)
    BY <1>1
  <2> QED
    BY <1>3, <2>1, <2>2, OneServer
<1>8. \A r \in ReadyIn(request') : r \in Requests /\ request'[r].servers_tried < ServersToTry
  BY <1>1, <1>2, <1>5 DEF ReadyIn
<1> QED
  BY <1>1, <1>2, <1>4, <1>5, <1>6, <1>7, <1>8 DEF Requested

\* One server is replaced by Z, which holds what the old one held.
LEMMA ServerKeeps ==
  ASSUME Requested(new_reqs, request, total_reqs, server), NEW s \in Servers, NEW Z \in Server,
         EmptyIfLost(Z), NEW M \in Seq(Requests),
         \A r \in Requests : r \in ToSet(new_reqs) \/ Holds(server[s], r)
                               => r \in ToSet(M) \/ Holds(Z, r)
  PROVE  Requested(M, request, total_reqs, [server EXCEPT ![s] = Z])
<1>1. server \in [Servers -> Server] /\ s \in DOMAIN server
  BY DEF Requested
<1>2. PICK SV : SV = [server EXCEPT ![s] = Z]
  OBVIOUS
<1>3. SV \in [Servers -> Server] /\ \A t \in Servers : EmptyIfLost(SV[t])
  BY <1>1, <1>2 DEF Requested
<1>4. ASSUME NEW r \in ReadyIn(request)
      PROVE  OnList(M, SV, r)
  <2>1. r \in Requests /\ OnList(new_reqs, server, r)
    BY DEF Requested, ReadyIn
  <2> QED
    BY <1>1, <1>2, <2>1, OneServer
<1> QED
  BY <1>2, <1>3, <1>4 DEF Requested

\* do_possible_writes() sends to a connected server or does nothing.
LEMMA WriteServerKeeps ==
  ASSUME Inv, WriteServer
  PROVE  Requested(new_reqs', request', total_reqs', server')
<1>1. at \in Servers /\ Requested(new_reqs, request, total_reqs, server) /\ total_reqs' = total_reqs
  BY DEF Inv, LoopTypes, WriteServer
<1>2. CASE Connected(at) /\ Room(at) > 0
  <2>1. SendUpTo(server, at, Room(at)) /\ server[at].status = "CONNECTED"
    BY <1>2 DEF WriteServer, Connected
  <2> QED
    BY <1>1, <2>1, SendKeeps
<1>3. CASE ~(Connected(at) /\ Room(at) > 0)
  BY <1>1, <1>3 DEF WriteServer
<1> QED
  BY <1>2, <1>3

\* A write that has completed, or failed, was counted.
LEMMA OneWriteLessType ==
  ASSUME server \in [Servers -> Server], NEW s \in Servers, NEW r \in Requests,
         server[s].writes[r] > 0
  PROVE  OneWriteLess(s, r) \in [Requests -> Nat]
<1>1. PICK w \in [Requests -> Nat] : w = server[s].writes
  BY ServerFields
<1>2. OneWriteLess(s, r) = [w EXCEPT ![r] = w[r] - 1]
  BY <1>1 DEF OneWriteLess
<1>3. w[r] \in Nat /\ w[r] > 0
  BY <1>1
<1> QED
  BY <1>2, <1>3

\* After a write the server keeps its requests and may get another one.
LEMMA WriteDoneKeeps ==
  ASSUME Inv, NEW s \in Servers, NEW r \in Requests, WriteDone(s, r)
  PROVE  Requested(new_reqs', request', total_reqs', server')
<1>1. /\ Requested(new_reqs, request, total_reqs, server) /\ total_reqs' = total_reqs
      /\ server \in [Servers -> Server] /\ new_reqs \in Seq(Requests)
      /\ server[s].status = "CONNECTED" /\ server[s].writes[r] > 0
  BY DEF Inv, Requested, WriteDone, Connected
<1>2. PICK W \in [Requests -> Nat] : W = OneWriteLess(s, r)
  BY <1>1, OneWriteLessType
<1>3. PICK A \in SUBSET Requests : A = server[s].asked \cup {r}
  BY <1>1, ServerFields
<1>4. PICK Z : Z = [server[s] EXCEPT !.writes = W, !.asked = A]
  OBVIOUS
<1>5. /\ Z \in Server /\ Z.status = server[s].status
      /\ Z.to_process = server[s].to_process /\ Z.in_process = server[s].in_process
  BY <1>1, <1>4 DEF Server
<1>6. PICK SV : SV = [server EXCEPT ![s] = Z]
  OBVIOUS
<1>7. IF Room(s) > 0 THEN SendUpTo(SV, s, 1) ELSE server' = SV /\ UNCHANGED <<new_reqs, request>>
  BY <1>2, <1>3, <1>4, <1>6 DEF WriteDone
<1>8. Requested(new_reqs, request, total_reqs, SV)
  <2>1. EmptyIfLost(Z) /\ \A x \in Requests : Holds(server[s], x) => Holds(Z, x)
    BY <1>1, <1>5 DEF EmptyIfLost, Holds
  <2> QED
    BY <1>1, <1>5, <1>6, <2>1, ServerKeeps
<1>9. SV[s].status = "CONNECTED"
  BY <1>1, <1>5, <1>6
<1>10. CASE Room(s) > 0
  BY <1>1, <1>7, <1>8, <1>9, <1>10, SendKeeps
<1>11. CASE ~(Room(s) > 0)
  BY <1>1, <1>7, <1>8, <1>11
<1> QED
  BY <1>10, <1>11

\* A request whose write failed goes back to the queue.
LEMMA WriteFailsKeeps ==
  ASSUME Inv, NEW s \in Servers, NEW r \in Requests, WriteFails(s, r)
  PROVE  Requested(new_reqs', request', total_reqs', server')
<1>1. /\ Requested(new_reqs, request, total_reqs, server)
      /\ UNCHANGED <<new_reqs, request, total_reqs>>
      /\ server \in [Servers -> Server] /\ new_reqs \in Seq(Requests)
      /\ server[s].status = "CONNECTED" /\ server[s].writes[r] > 0
  BY DEF Inv, Requested, WriteFails, Connected
<1>2. PICK W \in [Requests -> Nat] : W = OneWriteLess(s, r)
  BY <1>1, OneWriteLessType
<1>3. PICK I \in Seq(Requests) : I = server[s].in_process
  BY <1>1, ServerFields
<1>4. PICK P \in Seq(Requests) : P = server[s].to_process
  BY <1>1, ServerFields
<1>5. PICK R : R = {r}
  OBVIOUS
<1>6. PICK J \in Seq(Requests) : J = Without(I, R) /\ ToSet(J) = ToSet(I) \ R
  BY WithoutProperties
<1>7. PICK Q \in Seq(Requests) : Q = <<r>> \o P /\ ToSet(Q) = ToSet(P) \cup {r}
  BY FrontSets, ZenonT(60)
<1>8. PICK Z : Z = [server[s] EXCEPT !.writes = W, !.in_process = J, !.to_process = Q]
  OBVIOUS
<1>9. /\ Z \in Server /\ Z.status = server[s].status /\ Z.to_process = Q /\ Z.in_process = J
  BY <1>1, <1>8 DEF Server
<1>10. server' = [server EXCEPT ![s] = Z]
  BY <1>2, <1>3, <1>4, <1>5, <1>6, <1>7, <1>8 DEF WriteFails
<1>11. EmptyIfLost(Z) /\ \A x \in Requests : Holds(server[s], x) => Holds(Z, x)
  BY <1>1, <1>3, <1>4, <1>5, <1>6, <1>7, <1>9 DEF EmptyIfLost, Holds
<1> QED
  BY <1>1, <1>9, <1>10, <1>11, ServerKeeps

\* The requests of a server that is lost are new again.
LEMMA ReadFailsKeeps ==
  ASSUME Inv, NEW s \in Servers, ReadFails(s)
  PROVE  Requested(new_reqs', request', total_reqs', server')
<1>1. /\ Requested(new_reqs, request, total_reqs, server) /\ UNCHANGED <<request, total_reqs>>
      /\ server \in [Servers -> Server] /\ new_reqs \in Seq(Requests)
  BY DEF Inv, Requested, ReadFails
<1>2. PICK I \in Seq(Requests) : I = server[s].in_process
  BY <1>1, ServerFields
<1>3. PICK P \in Seq(Requests) : P = server[s].to_process
  BY <1>1, ServerFields
<1>4. PICK N \in Seq(Requests) : N = new_reqs \o I /\ ToSet(N) = ToSet(new_reqs) \cup ToSet(I)
  BY <1>1, ConcatSets, ZenonT(60)
<1>5. PICK M \in Seq(Requests) : M = N \o P /\ ToSet(M) = ToSet(N) \cup ToSet(P)
  BY ConcatSets
<1>6. PICK Z : Z = [server[s] EXCEPT !.status = "DISCONNECTED", !.in_process = <<>>,
                                     !.to_process = <<>>, !.writes = NoWrites, !.asked = {}]
  OBVIOUS
<1>7. Z \in Server /\ EmptyIfLost(Z)
  <2>1. NoWrites \in [Requests -> Nat] /\ <<>> \in Seq(Requests)
    BY DEF NoWrites
  <2> QED
    BY <1>1, <1>6, <2>1 DEF Server, EmptyIfLost
<1>8. server' = [server EXCEPT ![s] = Z] /\ new_reqs' = M
  BY <1>2, <1>3, <1>4, <1>5, <1>6 DEF ReadFails
<1>9. \A x \in Requests : x \in ToSet(new_reqs) \/ Holds(server[s], x) => x \in ToSet(M)
  BY <1>2, <1>3, <1>4, <1>5 DEF Holds
<1> QED
  BY <1>1, <1>7, <1>8, <1>9, ServerKeeps

\* An answer takes the request off the lists of the server and gives it a result.
LEMMA ProcessRequestKeeps ==
  ASSUME Inv, NEW s \in Servers, NEW r \in Requests, NEW finished \in BOOLEAN,
         process_request(s, r, finished)
  PROVE  Requested(new_reqs, request', total_reqs', server')
<1>1. /\ Requested(new_reqs, request, total_reqs, server) /\ server \in [Servers -> Server]
      /\ new_reqs \in Seq(Requests) /\ request \in [Requests -> Request]
      /\ total_reqs = Cardinality(ReadyIn(request))
  BY DEF Inv, Requested
<1>2. PICK c : c = IF server[s].reqs_on_wire = server[s].capacity
                      /\ server[s].capacity < server[s].ssthresh
                   THEN check_capacities(server[s].capacity + CapacityUpStep)
                   ELSE server[s].capacity
  OBVIOUS
<1>3. c \in CapacityMin .. CapacityMax
  <2>1. PICK k \in Int : k = server[s].capacity + CapacityUpStep
    BY <1>1, ServerFields, ConstantsAssumption
  <2> QED
    BY <1>1, <1>2, <2>1, CapacityType, ServerFields
<1>4. PICK I \in Seq(Requests) : I = server[s].in_process
  BY <1>1, ServerFields
<1>5. PICK P \in Seq(Requests) : P = server[s].to_process
  BY <1>1, ServerFields
<1>6. PICK O : O = {r}
  OBVIOUS
<1>7. PICK J \in Seq(Requests) : J = Without(I, O) /\ ToSet(J) = ToSet(I) \ O
  BY WithoutProperties
<1>8. PICK Q \in Seq(Requests) : Q = Without(P, O) /\ ToSet(Q) = ToSet(P) \ O
  BY WithoutProperties
<1>9. PICK R \in SUBSET Requests : R = server[s].records \ {r}
  BY <1>1, ServerFields
<1>10. PICK w \in Int : w = server[s].reqs_on_wire - 1
  <2>1. PICK k \in Int : k = server[s].reqs_on_wire
    BY <1>1, ServerFields
  <2> QED
    BY <2>1
<1>11. PICK Z : Z = [server[s] EXCEPT !.capacity = c, !.records = R, !.in_process = J,
                                      !.to_process = Q, !.reqs_on_wire = w]
  OBVIOUS
<1>12. Z \in Server /\ Z.status = server[s].status /\ Z.to_process = Q /\ Z.in_process = J
  BY <1>1, <1>3, <1>11, ZenonT(60) DEF Server
<1>13. PICK v \in {"NORESULT", "DONE"} : v = IF finished THEN "DONE" ELSE "NORESULT"
  OBVIOUS
<1>14. /\ server' = [server EXCEPT ![s] = Z]
       /\ request' = [request EXCEPT ![r] = [request[r] EXCEPT !.status = v]]
       /\ total_reqs' = IF request[r].status = "READY" THEN total_reqs - 1 ELSE total_reqs
  BY <1>2, <1>4, <1>5, <1>6, <1>7, <1>8, <1>9, <1>10, <1>11, <1>13
     DEF process_request, mark_as_done, Ready
<1>15. server' \in [Servers -> Server] /\ \A t \in Servers : EmptyIfLost(server'[t])
  <2>1. EmptyIfLost(Z)
    <3>1. CASE server[s].status = "CONNECTED"
      BY <1>12, <3>1 DEF EmptyIfLost
    <3>2. CASE server[s].status # "CONNECTED"
      <4>1. I = <<>> /\ P = <<>>
        BY <1>1, <1>4, <1>5, <3>2 DEF Requested, EmptyIfLost
      <4>2. ToSet(J) = {} /\ ToSet(Q) = {}
        BY <1>7, <1>8, <4>1, EmptyList
      <4>3. \A l \in Seq(Requests) : ToSet(l) = {} => l = <<>>
        <5> SUFFICES ASSUME NEW l \in Seq(Requests), l # <<>> PROVE ToSet(l) # {}
          OBVIOUS
        <5>1. Len(l) \in Nat \ {0} /\ DOMAIN l = 1 .. Len(l)
          BY EmptySeq, LenProperties
        <5>2. 1 \in DOMAIN l
          BY <5>1
        <5> QED
          BY <5>2 DEF ToSet
      <4> QED
        BY <1>12, <4>2, <4>3 DEF EmptyIfLost
    <3> QED
      BY <3>1, <3>2
  <2> QED
    BY <1>1, <1>12, <1>14, <2>1 DEF Requested
<1>16. /\ request' \in [Requests -> Request] /\ request'[r].status = v
       /\ \A x \in Requests : x # r => request'[x] = request[x]
  <2>1. PICK q : q = [request[r] EXCEPT !.status = v]
    OBVIOUS
  <2>2. q \in Request /\ q.status = v
    BY <1>1, <2>1 DEF Request
  <2>3. request' = [request EXCEPT ![r] = q]
    BY <1>14, <2>1
  <2> QED
    BY <1>1, <2>2, <2>3
<1>17. total_reqs' = Cardinality(ReadyIn(request'))
  <2>1. PICK p : p = request'
    OBVIOUS
  <2>2. p[r].status # "READY" /\ \A x \in Requests : x # r => p[x].status = request[x].status
    BY <1>16, <2>1
  <2>3. Cardinality(ReadyIn(p)) = IF request[r].status = "READY"
                                  THEN Cardinality(ReadyIn(request)) - 1
                                  ELSE Cardinality(ReadyIn(request))
    BY <2>2, ReadyLess
  <2> QED
    BY <1>1, <1>14, <2>1, <2>3
<1>18. ASSUME NEW x \in ReadyIn(request')
       PROVE  request'[x].servers_tried < ServersToTry /\ OnList(new_reqs, server', x)
  <2>1. x \in Requests /\ x # r /\ x \in ReadyIn(request) /\ request'[x] = request[x]
    BY <1>16 DEF ReadyIn
  <2>2. s \in DOMAIN server /\ OnList(new_reqs, server, x)
    BY <1>1, <2>1 DEF Requested
  <2>3. Holds(server[s], x) => Holds(Z, x)
    BY <1>4, <1>5, <1>6, <1>7, <1>8, <1>12, <2>1 DEF Holds
  <2>4. OnList(new_reqs, server', x)
    BY <1>14, <2>2, <2>3, OneServer
  <2> QED
    BY <1>1, <2>1, <2>4 DEF Requested
<1> QED
  BY <1>1, <1>15, <1>16, <1>17, <1>18 DEF Requested

\* A server that fails makes the request overdue.
LEMMA ServFailKeeps ==
  ASSUME Inv, NEW s \in Servers, NEW r \in Requests, ServFail(s, r)
  PROVE  Requested(new_reqs', request', total_reqs', server')
<1>1. /\ Requested(new_reqs, request, total_reqs, server) /\ request \in [Requests -> Request]
      /\ UNCHANGED <<new_reqs, total_reqs, server>>
  BY DEF Inv, Requested, ServFail
<1>2. /\ request' \in [Requests -> Request]
      /\ \A x \in Requests : /\ request'[x].status = request[x].status
                             /\ request'[x].servers_tried = request[x].servers_tried
  <2>1. PICK q : q = [request[r] EXCEPT !.tries = Tries]
    OBVIOUS
  <2>2. Tries \in 0 .. Tries
    BY <1>1, RequestFields DEF Inv
  <2>3. q \in Request /\ q.status = request[r].status /\ q.servers_tried = request[r].servers_tried
    BY <1>1, <2>1, <2>2 DEF Request
  <2>4. request' = [request EXCEPT ![r] = q]
    BY <2>1 DEF ServFail
  <2> QED
    BY <1>1, <2>3, <2>4
<1>3. ReadyIn(request') = ReadyIn(request)
  BY <1>2, ReadySame
<1> QED
  BY <1>1, <1>2, <1>3 DEF Requested, ReadyIn

\* A batch begins with every request on the list of new ones.
LEMMA StartBatchKeeps ==
  ASSUME Inv, NEW up \in SUBSET Servers, StartBatch(up)
  PROVE  Requested(new_reqs', request', total_reqs', server')
<1>1. /\ server \in [Servers -> Server] /\ \A t \in Servers : EmptyIfLost(server[t])
      /\ NumRequests \in Nat /\ ServersToTry \in Nat \ {0} /\ Requests = 1 .. NumRequests
  BY ConstantsAssumption DEF Inv, Requested, Requests
<1>2. new_reqs' = [i \in Requests |-> i] /\ total_reqs' = NumRequests
  BY DEF StartBatch
<1>3. new_reqs' \in Seq(Requests) /\ ToSet(new_reqs') = Requests
  <2>1. PICK N : N = [i \in Requests |-> i]
    OBVIOUS
  <2>2. N \in [1 .. NumRequests -> Requests]
    BY <1>1, <2>1
  <2>3. N \in Seq(Requests)
    BY <1>1, <2>2, SeqDef
  <2>4. ToSet(N) = Requests
    BY <2>1 DEF ToSet
  <2> QED
    BY <1>2, <2>1, <2>3, <2>4
<1>4. /\ request' \in [Requests -> Request]
      /\ \A r \in Requests : request'[r].status = "READY" /\ request'[r].servers_tried = 0
  <2>1. PICK q : q = [status |-> "READY", tries |-> 0, servers_tried |-> 0,
                      first_server |-> NoServer]
    OBVIOUS
  <2>2. 0 \in 0 .. Tries
    BY ConstantsAssumption DEF Inv, LoopTypes, Tries
  <2>3. q \in Request /\ q.status = "READY" /\ q.servers_tried = 0
    BY <2>1, <2>2 DEF Request
  <2>4. request' = [r \in Requests |-> q]
    BY <2>1 DEF StartBatch
  <2> QED
    BY <2>3, <2>4
<1>5. ReadyIn(request') = Requests
  BY <1>4 DEF ReadyIn
<1>6. total_reqs' = Cardinality(ReadyIn(request'))
  BY <1>1, <1>2, <1>5, FS_Interval
<1>7. server' \in [Servers -> Server] /\ \A t \in Servers : EmptyIfLost(server'[t])
  <2>1. server' = [t \in Servers |->
                     [server[t] EXCEPT !.status = IF t \in up THEN "CONNECTED"
                                                  ELSE server[t].status]]
    BY DEF StartBatch
  <2>2. ASSUME NEW t \in Servers
        PROVE  server'[t] \in Server /\ EmptyIfLost(server'[t])
    <3>1. PICK v \in {"DISCONNECTED", "CONNECTED"} :
            v = IF t \in up THEN "CONNECTED" ELSE server[t].status
      BY <1>1, ServerFields
    <3>2. PICK Z : Z = [server[t] EXCEPT !.status = v]
      OBVIOUS
    <3>3. /\ Z \in Server /\ Z.status = v /\ Z.to_process = server[t].to_process
          /\ Z.in_process = server[t].in_process
      <4>1. server[t] \in Server
        BY <1>1
      <4> QED
        BY <3>2, <4>1 DEF Server
    <3>4. server'[t] = Z
      BY <2>1, <3>1, <3>2
    <3>5. EmptyIfLost(Z)
      BY <1>1, <3>1, <3>3 DEF EmptyIfLost
    <3> QED
      BY <3>3, <3>4, <3>5
  <2>3. PICK Z : Z = server'
    OBVIOUS
  <2>4. Z = [t \in Servers |-> Z[t]]
    BY <2>1, <2>3
  <2> QED
    BY <2>2, <2>3, <2>4
<1> QED
  BY <1>1, <1>3, <1>4, <1>5, <1>6, <1>7 DEF Requested, OnList

\* A batch ends with no request that lacks a result.
LEMMA ReturnKeeps ==
  ASSUME Inv, Return
  PROVE  Requested(new_reqs', request', total_reqs', server')
<1>1. /\ Requested(new_reqs, request, total_reqs, server) /\ UNCHANGED <<new_reqs, total_reqs>>
      /\ server \in [Servers -> Server] /\ request \in [Requests -> Request]
      /\ \A t \in Servers : EmptyIfLost(server[t])
  BY DEF Inv, Requested, Return
<1>2. CASE new_reqs # <<>>
  BY <1>1, <1>2 DEF Return
<1>3. CASE new_reqs = <<>>
  <2>1. total_reqs = 0 /\ total_reqs = Cardinality(ReadyIn(request))
    BY <1>3 DEF Inv, Requested, Return
  <2>2. ReadyIn(request) = {}
    BY <2>1, ReadyFinite, FS_EmptySet
  <2>3. /\ request' \in [Requests -> Request]
        /\ \A r \in Requests : request'[r].status = "READY" => request[r].status = "READY"
    <3>1. ASSUME NEW r \in Requests, NEW v \in {"DONE", "NORESULT"}
          PROVE  /\ [request[r] EXCEPT !.status = v] \in Request
                 /\ [request[r] EXCEPT !.status = v].status = v
      BY <1>1 DEF Request
    <3>2. PICK D : D = deferred_reqs
      OBVIOUS
    <3>3. PICK Q : Q = Queued
      OBVIOUS
    <3>4. request' = [r \in Requests |->
                        IF r \in D THEN [request[r] EXCEPT !.status = "DONE"]
                        ELSE IF r \in Q THEN [request[r] EXCEPT !.status = "NORESULT"]
                        ELSE request[r]]
      BY <1>3, <3>2, <3>3 DEF Return
    <3> QED
      BY <1>1, <3>1, <3>4
  <2>4. ReadyIn(request') = {}
    BY <2>2, <2>3 DEF ReadyIn
  <2>5. server' \in [Servers -> Server] /\ \A t \in Servers : EmptyIfLost(server'[t])
    <3>1. ASSUME NEW t \in Servers
          PROVE  /\ server'[t] \in Server /\ EmptyIfLost(server'[t])
      <4>1. PICK Z : Z = [server[t] EXCEPT !.status = "DISCONNECTED", !.to_process = <<>>,
                            !.in_process = <<>>, !.records = {}, !.writes = NoWrites,
                            !.asked = {}]
        OBVIOUS
      <4>2. NoWrites \in [Requests -> Nat] /\ <<>> \in Seq(Requests)
        BY DEF NoWrites
      <4>3. Z \in Server /\ EmptyIfLost(Z)
        BY <1>1, <4>1, <4>2 DEF Server, EmptyIfLost
      <4>4. server'[t] = IF Connected(t) THEN Z ELSE server[t]
        BY <1>3, <4>1 DEF Return
      <4> QED
        BY <1>1, <4>3, <4>4
    <3>2. PICK Z : Z = server'
      OBVIOUS
    <3>3. Z = [t \in Servers |-> Z[t]]
      BY <1>3, <3>2 DEF Return
    <3> QED
      BY <3>1, <3>2, <3>3
  <2> QED
    BY <1>1, <2>1, <2>3, <2>4, <2>5, FS_EmptySet DEF Requested
<1> QED
  BY <1>2, <1>3

-------------------------------------------------------------------------------
(* The invariant. *)

\* A resolver that was set up has nothing to do.
LEMMA InitInv ==
  ASSUME Init
  PROVE  Inv
<1>1. num_servers \in 1 .. MaxServers /\ num_servers \in Nat /\ 1 \in Servers
  BY ConstantsAssumption DEF Init, Servers
<1>2. LoopTypes
  <2>1. adjust_timing \in BOOLEAN /\ adjusted \in BOOLEAN /\ may_increase \in BOOLEAN
    BY Zenon DEF Init
  <2> QED
    BY <1>1, <2>1, ConstantsAssumption DEF Init, LoopTypes
<1>3. request \in [Requests -> Request] /\ \A r \in Requests : request[r].status = "DONE"
  <2>1. PICK q : q = [status |-> "DONE", tries |-> 0, servers_tried |-> 0,
                      first_server |-> NoServer]
    OBVIOUS
  <2>2. 0 \in 0 .. Tries
    BY <1>1, ConstantsAssumption DEF Tries
  <2>3. q \in Request /\ q.status = "DONE"
    BY <2>1, <2>2 DEF Request
  <2>4. request = [r \in Requests |-> q]
    BY <2>1 DEF Init
  <2> QED
    BY <2>3, <2>4
<1>4. server \in [Servers -> Server] /\ \A s \in Servers : EmptyIfLost(server[s])
  <2>1. PICK m \in CapacityMin .. CapacityMax : m = (CapacityMax + CapacityMin) \div 2
    BY ConstantsAssumption
  <2>2. PICK Z : Z = [status |-> "DISCONNECTED", reqs_on_wire |-> 0, capacity |-> CapacityMin,
                      ssthresh |-> m, to_process |-> <<>>, in_process |-> <<>>,
                      records |-> {}, writes |-> NoWrites, asked |-> {}]
    OBVIOUS
  <2>3. /\ NoWrites \in [Requests -> Nat] /\ <<>> \in Seq(Requests)
        /\ CapacityMin \in CapacityMin .. CapacityMax
    BY ConstantsAssumption DEF NoWrites
  <2>4. Z \in Server /\ EmptyIfLost(Z)
    BY <2>2, <2>3 DEF Server, EmptyIfLost
  <2>5. server = [s \in Servers |-> Z]
    BY <2>1, <2>2 DEF Init
  <2> QED
    BY <2>4, <2>5
<1>5. ReadyIn(request) = {} /\ Cardinality(ReadyIn(request)) = 0
  <2>1. ReadyIn(request) = {}
    BY <1>3 DEF ReadyIn
  <2> QED
    BY <2>1, FS_EmptySet
<1>6. Requested(new_reqs, request, total_reqs, server)
  <2>1. new_reqs \in Seq(Requests) /\ total_reqs = 0
    BY EmptyList DEF Init
  <2> QED
    BY <1>3, <1>4, <1>5, <2>1 DEF Requested
<1> QED
  BY <1>2, <1>6 DEF Init, Inv

\* A loop over the servers begins with the first one.
LEMMA StartLoopType ==
  ASSUME NEW adjust \in BOOLEAN, StartLoop(adjust)
  PROVE  /\ at' = 1 /\ pos' = 1 /\ adjust_timing' \in BOOLEAN /\ adjusted' \in BOOLEAN
         /\ may_increase' \in BOOLEAN
BY DEF StartLoop

\* The loops stay within the servers.
LEMMA LoopTypesKept ==
  ASSUME Inv, Next
  PROVE  LoopTypes'
<1>1. num_servers' = num_servers /\ Servers' = Servers
  BY SameServers, SameRequest
<1>2. /\ num_servers \in 1 .. MaxServers /\ MaxServers \in Nat /\ NumBatches \in Nat
      /\ MaxWriteErrors \in Nat /\ MaxReadErrors \in Nat
  BY ConstantsAssumption DEF Inv, LoopTypes
<1>3. 1 \in Servers /\ at \in Servers /\ (at < num_servers => at + 1 \in Servers)
  BY <1>2 DEF Inv, LoopTypes, Servers
<1>4. ASSUME NEW i \in 1 .. NumRequests + MaxWriteErrors, TimeOut(i)
      PROVE  LoopTypes'
  <2>1. i \in Nat \ {0}
    BY ConstantsAssumption
  <2>2. adjusted' \in BOOLEAN
    BY <1>4 DEF TimeOut, TryAgain, MoveOn
  <2> QED
    BY <1>1, <1>4, <2>1, <2>2 DEF Inv, LoopTypes, TimeOut
<1>5. ASSUME NEW up \in SUBSET Servers, StartBatch(up)
      PROVE  LoopTypes'
  <2>1. batch' \in 0 .. NumBatches
    BY <1>2, <1>5 DEF Inv, LoopTypes, StartBatch
  <2>2. phase' \in {"timeouts", "return"}
    BY <1>5 DEF StartBatch
  <2>3. /\ at' = 1 /\ pos' = 1 /\ adjust_timing' \in BOOLEAN /\ adjusted' \in BOOLEAN
        /\ may_increase' \in BOOLEAN
    BY <1>5, StartLoopType DEF StartBatch
  <2> QED
    BY <1>1, <1>3, <1>5, <2>1, <2>2, <2>3 DEF Inv, LoopTypes, StartBatch
<1>6. ASSUME NEW increase \in BOOLEAN, NextTimeouts(increase)
      PROVE  LoopTypes'
  <2>1. CASE at < num_servers
    BY <1>1, <1>3, <1>6, <2>1 DEF Inv, LoopTypes, NextTimeouts
  <2>2. CASE ~(at < num_servers)
    <3>1. /\ at' = 1 /\ pos' = 1 /\ adjust_timing' \in BOOLEAN /\ adjusted' \in BOOLEAN
          /\ may_increase' \in BOOLEAN
      BY <1>6, <2>2, StartLoopType DEF NextTimeouts
    <3> QED
      BY <1>1, <1>3, <1>6, <2>2, <3>1 DEF Inv, LoopTypes, NextTimeouts
  <2> QED
    BY <2>1, <2>2
<1>7. ASSUME WriteServer
      PROVE  LoopTypes'
  BY <1>1, <1>3, <1>7 DEF Inv, LoopTypes, WriteServer
<1>8. ASSUME NEW adjust \in BOOLEAN, EndEvents(adjust)
      PROVE  LoopTypes'
  BY <1>1, <1>3, <1>8 DEF Inv, LoopTypes, EndEvents, StartLoop
<1>9. ASSUME Return
      PROVE  LoopTypes'
  BY <1>1, <1>9 DEF Inv, LoopTypes, Return, locals
<1>10. ASSUME NEW s \in Servers, ReadFails(s)
       PROVE  LoopTypes'
  BY <1>1, <1>2, <1>10 DEF Inv, LoopTypes, ReadFails, locals
<1>11. ASSUME NEW s \in Servers, NEW r \in Requests, NEW finished \in BOOLEAN,
              Answered(s, r, finished) \/ NoSuchName(s, r, finished)
       PROVE  LoopTypes'
  <2>1. deferred_reqs' \subseteq Requests
    BY <1>11 DEF Inv, LoopTypes, Answered, NoSuchName, process_request
  <2> QED
    BY <1>1, <1>3, <1>11, <2>1 DEF Inv, LoopTypes, Answered, NoSuchName, locals
<1>12. ASSUME NEW s \in Servers, NEW r \in Requests, WriteDone(s, r) \/ WriteFails(s, r)
       PROVE  LoopTypes'
  BY <1>1, <1>2, <1>12 DEF Inv, LoopTypes, WriteDone, WriteFails, locals
<1>13. ASSUME NEW s \in Servers, NEW r \in Requests, ServFail(s, r) \/ Unusable(s, r)
       PROVE  LoopTypes'
  <2>1. CASE ServFail(s, r)
    <3>1. /\ at' = 1 /\ pos' = 1 /\ adjust_timing' \in BOOLEAN /\ adjusted' \in BOOLEAN
          /\ may_increase' \in BOOLEAN
      BY <2>1, StartLoopType DEF ServFail
    <3> QED
      BY <1>1, <1>3, <2>1, <3>1 DEF Inv, LoopTypes, ServFail
  <2>2. CASE Unusable(s, r)
    BY <1>1, <1>3, <2>2 DEF Inv, LoopTypes, Unusable
  <2> QED
    BY <1>13, <2>1, <2>2
<1>14. ASSUME Finished
       PROVE  LoopTypes'
  BY <1>1, <1>14 DEF Inv, LoopTypes, Finished, vars, locals
<1> QED
  BY <1>4, <1>5, <1>6, <1>7, <1>8, <1>9, <1>10, <1>11, <1>12, <1>13, <1>14, Zenon
     DEF Next, SomeTimeOut, LoopStep, EndLoop, Handler

\* The requests stay counted and listed.
LEMMA RequestedKept ==
  ASSUME Inv, Next
  PROVE  Requested(new_reqs', request', total_reqs', server')
<1>1. Requested(new_reqs, request, total_reqs, server) /\ at \in Servers /\ pos \in Nat \ {0}
  BY DEF Inv, LoopTypes
<1>2. ASSUME NEW i \in 1 .. NumRequests + MaxWriteErrors, TimeOut(i)
      PROVE  Requested(new_reqs', request', total_reqs', server')
  <2>1. i \in 1 .. Len(server[at].in_process) /\ new_reqs' = new_reqs
    <3>1. PICK m \in Nat : m = Len(server[at].in_process)
      BY <1>1, ServerFields, LenProperties DEF Requested
    <3>2. i \in pos .. m /\ new_reqs' = new_reqs
      BY <1>2, <3>1 DEF TimeOut
    <3> QED
      BY <1>1, <3>1, <3>2
  <2>2. TryAgain(at, i) \/ MoveOn(at, i)
    BY <1>2 DEF TimeOut
  <2>3. Requested(new_reqs, request', total_reqs', server')
    BY <1>1, <2>1, <2>2, TryAgainKeeps, MoveOnKeeps
  <2> QED
    BY <2>1, <2>3
<1>3. ASSUME NEW s \in Servers, NEW r \in Requests, NEW finished \in BOOLEAN,
             Answered(s, r, finished) \/ NoSuchName(s, r, finished)
      PROVE  Requested(new_reqs', request', total_reqs', server')
  <2>1. process_request(s, r, finished) /\ new_reqs' = new_reqs
    BY <1>3 DEF Answered, NoSuchName
  <2>2. Requested(new_reqs, request', total_reqs', server')
    BY <2>1, ProcessRequestKeeps
  <2> QED
    BY <2>1, <2>2
<1>4. ASSUME UNCHANGED <<new_reqs, request, total_reqs, server>>
      PROVE  Requested(new_reqs', request', total_reqs', server')
  BY <1>1, <1>4
<1>5. ASSUME NEW s \in Servers, NEW r \in Requests, Unusable(s, r)
      PROVE  Requested(new_reqs', request', total_reqs', server')
  BY <1>4, <1>5 DEF Unusable
<1>6. ASSUME NEW adjust \in BOOLEAN, EndEvents(adjust)
      PROVE  Requested(new_reqs', request', total_reqs', server')
  BY <1>4, <1>6 DEF EndEvents
<1>7. ASSUME Finished
      PROVE  Requested(new_reqs', request', total_reqs', server')
  BY <1>4, <1>7 DEF Finished, vars
<1> QED
  BY <1>2, <1>3, <1>5, <1>6, <1>7, NextTimeoutsKeeps, WriteServerKeeps, WriteDoneKeeps,
     WriteFailsKeeps, ReadFailsKeeps, ServFailKeeps, StartBatchKeeps, ReturnKeeps, Zenon
     DEF Next, SomeTimeOut, LoopStep, EndLoop, Handler

\* The main loop is left when nothing is to be done, or at once without servers.
LEMMA ReturnInvKept ==
  ASSUME Inv, Next
  PROVE  phase' = "return" => total_reqs' = 0 \/ new_reqs' # <<>>
<1>0. SUFFICES ASSUME phase' = "return"
               PROVE  total_reqs' = 0 \/ new_reqs' # <<>>
  OBVIOUS
<1>1. total_reqs \in Nat /\ after \in {"writes", "events"}
  BY ReadyFinite DEF Inv, Requested, LoopTypes
<1>2. ASSUME NEW up \in SUBSET Servers, StartBatch(up)
      PROVE  new_reqs' # <<>>
  <2>1. 1 \in Requests /\ new_reqs' = [i \in Requests |-> i]
    BY <1>2, ConstantsAssumption DEF StartBatch, Requests
  <2>2. DOMAIN <<>> = {}
    OBVIOUS
  <2> QED
    BY <2>1, <2>2
<1>3. ASSUME WriteServer
      PROVE  total_reqs' = 0
  BY <1>0, <1>3 DEF WriteServer
<1>4. ASSUME NEW adjust \in BOOLEAN, EndEvents(adjust)
      PROVE  total_reqs' = 0
  BY <1>0, <1>1, <1>4 DEF EndEvents
<1>5. ASSUME Finished
      PROVE  total_reqs' = 0 \/ new_reqs' # <<>>
  BY <1>0, <1>5 DEF Finished, AllDone, vars
<1>6. ASSUME NEW i \in 1 .. NumRequests + MaxWriteErrors, TimeOut(i)
      PROVE  FALSE
  BY <1>0, <1>6 DEF TimeOut
<1>7. ASSUME NEW increase \in BOOLEAN, NextTimeouts(increase)
      PROVE  FALSE
  BY <1>0, <1>1, <1>7 DEF NextTimeouts
<1>8. ASSUME Return
      PROVE  FALSE
  BY <1>0, <1>8 DEF Return
<1>9. ASSUME NEW s \in Servers, ReadFails(s)
      PROVE  FALSE
  BY <1>0, <1>9 DEF ReadFails
<1>10. ASSUME NEW s \in Servers, NEW r \in Requests, NEW finished \in BOOLEAN,
              Answered(s, r, finished) \/ NoSuchName(s, r, finished)
       PROVE  FALSE
  BY <1>0, <1>10 DEF Answered, NoSuchName, Answers
<1>11. ASSUME NEW s \in Servers, NEW r \in Requests,
              WriteDone(s, r) \/ WriteFails(s, r) \/ ServFail(s, r) \/ Unusable(s, r)
       PROVE  FALSE
  BY <1>0, <1>11 DEF WriteDone, WriteFails, ServFail, Unusable
<1> QED
  BY <1>2, <1>3, <1>4, <1>5, <1>6, <1>7, <1>8, <1>9, <1>10, <1>11, Zenon
     DEF Next, SomeTimeOut, LoopStep, EndLoop, Handler

\* Every step keeps the invariant.
LEMMA NextInv ==
  ASSUME Inv, [Next]_vars
  PROVE  Inv'
<1>1. CASE Next
  <2>1. Servers' = Servers /\ Request' = Request
    BY <1>1, SameServers, SameRequest
  <2>2. Requested(new_reqs', request', total_reqs', server')
    BY <1>1, RequestedKept
  <2>3. Requested(new_reqs, request, total_reqs, server)'
    BY <2>1, <2>2 DEF Requested
  <2> QED
    BY <1>1, <2>3, LoopTypesKept, ReturnInvKept DEF Inv
<1>2. CASE UNCHANGED vars
  BY <1>2 DEF Inv, LoopTypes, Requested, Servers, Request, Tries, vars, locals
<1> QED
  BY <1>1, <1>2

\* The invariant is one of every run.
LEMMA Invariance == Spec => []Inv
<1>1. Init => Inv
  BY InitInv
<1>2. Inv /\ [Next]_vars => Inv'
  BY NextInv
<1> QED
  BY <1>1, <1>2, PTL DEF Spec

-------------------------------------------------------------------------------
(* Theorems. *)

\* The requests that OnList() finds are those of Queued.
LEMMA QueuedIs ==
  ASSUME server \in [Servers -> Server], NEW r, OnList(new_reqs, server, r)
  PROVE  r \in Queued
<1>1. CASE r \in ToSet(new_reqs)
  BY <1>1 DEF Queued
<1>2. ASSUME NEW s \in Servers, Holds(server[s], r)
      PROVE  r \in Queued
  <2>1. PICK P \in Seq(Requests) : P = server[s].to_process
    BY ServerFields
  <2>2. PICK I \in Seq(Requests) : I = server[s].in_process
    BY ServerFields
  <2>3. ToSet(P \o I) = ToSet(P) \cup ToSet(I)
    BY ConcatSets
  <2>4. r \in ToSet(server[s].to_process \o server[s].in_process)
    BY <1>2, <2>1, <2>2, <2>3 DEF Holds
  <2>5. Connected(s)
    BY <1>2 DEF Holds, Connected
  <2> QED
    BY <2>4, <2>5 DEF Queued
<1> QED
  BY <1>1, <1>2 DEF OnList

\* Every variable of the resolver keeps its type: the capacities of the servers stay within
\* their bounds and no request is counted off twice.
THEOREM TypeCorrect == Spec => []TypeOK
<1>1. Inv => TypeOK
  BY ReadyFinite DEF Inv, LoopTypes, Requested, TypeOK
<1> QED
  BY <1>1, Invariance, PTL

\* However timeouts, failed writes, lost servers and late answers move the requests of a
\* batch, the count by which resolve_nsock() ends is that of the requests that lack a result,
\* and each of these is new or with a server that is still connected.
THEOREM NothingLost == Spec => []NoRequestLost
<1>1. Inv => NoRequestLost
  <2> SUFFICES ASSUME Inv PROVE NoRequestLost
    OBVIOUS
  <2>1. ReadyIn(request) = ReadyOnes
    BY DEF ReadyIn, ReadyOnes, Ready
  <2>2. /\ server \in [Servers -> Server] /\ total_reqs = Cardinality(ReadyIn(request))
        /\ \A r \in ReadyIn(request) : OnList(new_reqs, server, r)
    BY DEF Inv, Requested
  <2>3. \A r \in ReadyOnes : r \in Queued
    BY <2>1, <2>2, QueuedIs
  <2> QED
    BY <2>1, <2>2, <2>3 DEF NoRequestLost
<1> QED
  BY <1>1, Invariance, PTL

\* deal_with_timedout_reads() drops a request in time although it compares servers_tried with
\* SERVERS_TO_TRY for equality: a request that lacks a result is below it.
THEOREM TriedWithinLimit == Spec => []ServersBounded
<1>1. Inv => ServersBounded
  BY DEF Inv, Requested, ServersBounded, ReadyIn, ReadyOnes, Ready
<1> QED
  BY <1>1, Invariance, PTL

================================================================================
