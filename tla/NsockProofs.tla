------------------------------ MODULE NsockProofs ------------------------------
(***************************************************************************)
(* Theorems about the event library, for any iods, any number of requests  *)
(* and any callers: the counters of the pool and of the iods are exact     *)
(* when handlers make requests, cancel and delete in the middle of the     *)
(* loop, every structure is in one place, and a handler is called once;    *)
(* and callers that have one read and one write on an iod at a time lose   *)
(* no wakeup of the edge-triggered epoll.                                  *)
(***************************************************************************)
EXTENDS Nsock, FiniteSetTheorems, SequenceTheorems, TLAPS

-------------------------------------------------------------------------------
(* The inductive invariant.  Its parts are operators of the state they are about: the
   lists L, the heap X, the structures ev, the events H that are listed or in the
   heap, the frames F. *)

Members(L) == UNION {ToSet(L[i][t]) : i \in Iods, t \in Types}

\* A list holds events of its iod and type, each one once; timers are not on lists.
ListsOk(L, ev) ==
  /\ L \in [Iods -> [Types -> Seq(Events)]]
  /\ \A i \in Iods, t \in Types :
       /\ IsInjective(L[i][t])
       /\ \A e \in ToSet(L[i][t]) : ev[e].iod = i /\ ev[e].type = t
  /\ \A i \in Iods : L[i]["TIMER"] = <<>>

\* An event of the heap is on the list of its iod, if it has one.
HeapOk(L, X, ev) == X \subseteq Events /\ \A e \in X : ev[e].iod \in Iods => e \in Members(L)

Frame == [kind : {"loop", "expired", "immediate"}, event : Events]
Immediate(F) == {F[k].event : k \in {n \in DOMAIN F : F[n].kind = "immediate"}}

\* The frames are of different events, which are done.  All but the first one that was
\* called are of requests that were answered at once.
FramesOk(F, ev) ==
  /\ F \in Seq(Frame)
  /\ \A k \in DOMAIN F : ev[F[k].event].done
  /\ \A j, k \in DOMAIN F : F[j].event = F[k].event => j = k
  /\ \A k \in DOMAIN F : k < Len(F) => F[k].kind = "immediate"

\* The first one that was called belongs to the phase of the loop.
BottomOk(F, H, ph, cur) ==
  F # <<>> =>
    LET b == F[Len(F)]
    IN \/ ph = "iods" /\ b.kind = "loop" /\ b.event = cur /\ b.event \in H
       \/ ph = "expired" /\ b.kind = "expired" /\ b.event \in H
       \/ ph = "user" /\ b.kind = "immediate"

\* An event that is done and not recycled yet is the event of a frame.
DoneOk(F, H, ev) == \A e \in H : ev[e].done => \E k \in DOMAIN F : F[k].event = e

\* A structure is in one place.
Owned(H, F, fr, cr) ==
  /\ fr \in Seq(Events) /\ IsInjective(fr)
  /\ H \cup Immediate(F) \cup ToSet(fr) = 1 .. cr
  /\ ToSet(fr) \cap (H \cup Immediate(F)) = {}
  /\ H \cap Immediate(F) = {}

\* The loop is at an event of a list, and only while it processes an iod.
CursorOk(L, ph, at, cur) ==
  cur # NoEvent => ph = "iods" /\ at # NoIod /\ cur \in Members(L)

\* The pending events among H, those of an iod, and those that wait for w.
PendingIn(H, ev) == {e \in H : ~ev[e].done}
Mine(P, ev, i) == {e \in P : ev[e].iod = i}
Waiting(P, ev, i, w) == {e \in Mine(P, ev, i) : w \in Wants(ev[e].type)}

\* The counters of an iod I are exact.
IodExact(I, P, ev, i) ==
  /\ I.events_pending = Cardinality(Mine(P, ev, i))
  /\ I.readsd_count = Cardinality(Waiting(P, ev, i, "r"))
  /\ I.writesd_count = Cardinality(Waiting(P, ev, i, "w"))
  /\ I.watched = {w \in {"r", "w"} : Waiting(P, ev, i, w) # {}}

\* A read that is pending lacks a datagram, and no handler was called for a pending event.
CallsOk(P, ev) ==
  /\ \A e \in Events : ev[e].calls <= 1
  /\ \A e \in P : ev[e].calls = 0 /\ (ev[e].type = "READ" => ev[e].need > 0)

Inv ==
  /\ TypeOK
  /\ ListsOk(lists, event) /\ HeapOk(lists, expirables, event)
  /\ FramesOk(frames, event) /\ BottomOk(frames, Held, phase, cursor)
  /\ DoneOk(frames, Held, event)
  /\ Owned(Held, frames, free_events, created)
  /\ CursorOk(lists, phase, current, cursor) /\ created <= requests
  /\ events_pending = Cardinality(Pending)
  /\ \A i \in Iods : IodExact(iod[i], Pending, event, i)
  /\ CallsOk(Pending, event)

-------------------------------------------------------------------------------
(* Sequences. *)

\* A sequence without the events of S is a sequence of the others.
LEMMA WithoutProperties ==
  ASSUME NEW T, NEW l \in Seq(T), NEW S
  PROVE  /\ Without(l, S) \in Seq(T)
         /\ ToSet(Without(l, S)) = ToSet(l) \ S
         /\ IsInjective(l) => IsInjective(Without(l, S))
<1> DEFINE kept == {k \in DOMAIN l : l[k] \notin S}
           upto(k) == {j \in kept : j <= k}
           N == Cardinality(kept)
           nth(n) == CHOOSE k \in kept : Cardinality(upto(k)) = n
           rank == [k \in kept |-> Cardinality(upto(k))]
<1>1. Len(l) \in Nat /\ DOMAIN l = 1 .. Len(l) /\ \A k \in DOMAIN l : l[k] \in T
  BY LenProperties, ElementOfSeq
<1>2. kept \subseteq 1 .. Len(l) /\ kept \subseteq Int
  BY <1>1
<1>3. IsFiniteSet(kept) /\ N \in Nat
  <2>1. IsFiniteSet(1 .. Len(l))
    BY <1>1, FS_Interval
  <2>2. IsFiniteSet(kept)
    <3> HIDE DEF kept
    <3> QED
      BY <1>2, <2>1, FS_Subset
  <2> QED
    BY <2>2, FS_CardinalityType
<1>4. \A k \in kept : upto(k) \in SUBSET kept /\ k \in upto(k)
  BY <1>2
<1>5. \A k \in kept : IsFiniteSet(upto(k)) /\ Cardinality(upto(k)) \in 1 .. N
  <2> SUFFICES ASSUME NEW k \in kept
               PROVE  IsFiniteSet(upto(k)) /\ Cardinality(upto(k)) \in 1 .. N
    OBVIOUS
  <2>1. IsFiniteSet(upto(k)) /\ Cardinality(upto(k)) <= N
    BY <1>3, <1>4, FS_Subset
  <2>2. Cardinality(upto(k)) \in Nat /\ Cardinality(upto(k)) # 0
    BY <1>4, <2>1, FS_CardinalityType, FS_EmptySet
  <2> QED
    BY <1>3, <2>1, <2>2
<1>6. ASSUME NEW j \in kept, NEW k \in kept, Cardinality(upto(j)) = Cardinality(upto(k))
      PROVE  j = k
  <2>1. CASE j <= k
    <3>1. upto(j) \in SUBSET upto(k)
      BY <1>2, <2>1
    <3>2. upto(j) = upto(k)
      BY <1>5, <1>6, <3>1, FS_Subset
    <3> QED
      BY <1>2, <1>4, <2>1, <3>2
  <2>2. CASE k <= j
    <3>1. upto(k) \in SUBSET upto(j)
      BY <1>2, <2>2
    <3>2. upto(j) = upto(k)
      BY <1>5, <1>6, <3>1, FS_Subset
    <3> QED
      BY <1>2, <1>4, <2>2, <3>2
  <2> QED
    BY <1>2, <2>1, <2>2
<1>7. \A n \in 1 .. N : \E k \in kept : Cardinality(upto(k)) = n
  <2>1. rank \in Injection(kept, 1 .. N)
    BY <1>5, <1>6 DEF Injection, IsInjective
  <2>2. IsFiniteSet(1 .. N) /\ Cardinality(1 .. N) = N
    <3> HIDE DEF N
    <3> QED
      BY <1>3, FS_Interval
  <2>3. rank \in Surjection(kept, 1 .. N)
    <3> HIDE DEF rank
    <3> QED
      BY <1>3, <2>1, <2>2, FS_Injection
  <2> QED
    BY <2>3 DEF Surjection
<1>8. \A n \in 1 .. N : nth(n) \in kept /\ Cardinality(upto(nth(n))) = n
  <2> SUFFICES ASSUME NEW n \in 1 .. N
               PROVE  nth(n) \in kept /\ Cardinality(upto(nth(n))) = n
    OBVIOUS
  <2>1. \E k \in kept : Cardinality(upto(k)) = n
    BY <1>7
  <2> QED
    BY <2>1, Zenon
<1>9. \A k \in kept : Cardinality(upto(k)) \in 1 .. N /\ nth(Cardinality(upto(k))) = k
  BY <1>5, <1>6, <1>8
<1>10. Without(l, S) = [n \in 1 .. N |-> l[nth(n)]]
  BY DEF Without
<1> DEFINE W == Without(l, S)
<1>11. \A n \in 1 .. N : W[n] = l[nth(n)]
  BY <1>10
<1>12. DOMAIN W = 1 .. N
  BY <1>10
<1>13. W \in Seq(T)
  <2>1. \A n \in 1 .. N : l[nth(n)] \in T
    BY <1>1, <1>8
  <2>2. W \in [1 .. N -> T]
    BY <1>10, <2>1
  <2> HIDE DEF W, N
  <2> QED
    BY <1>3, <2>2, SeqDef
<1> HIDE DEF W, N, nth, upto
<1>14. ToSet(W) = ToSet(l) \ S
  BY <1>8, <1>9, <1>11, <1>12 DEF ToSet
<1>15. IsInjective(l) => IsInjective(W)
  BY <1>8, <1>9, <1>11, <1>12 DEF IsInjective
<1> QED
  BY <1>13, <1>14, <1>15 DEF W

\* An element in front of a sequence.
LEMMA FrontProperties ==
  ASSUME NEW T, NEW l \in Seq(T), NEW e \in T
  PROVE  /\ <<e>> \o l \in Seq(T) /\ Len(<<e>> \o l) = Len(l) + 1
         /\ (<<e>> \o l)[1] = e
         /\ \A k \in 1 .. Len(l) : (<<e>> \o l)[k + 1] = l[k]
         /\ \A k \in DOMAIN (<<e>> \o l) : k = 1 \/ (k - 1 \in DOMAIN l /\ (<<e>> \o l)[k] = l[k - 1])
         /\ ToSet(<<e>> \o l) = {e} \cup ToSet(l)
         /\ IsInjective(l) /\ e \notin ToSet(l) => IsInjective(<<e>> \o l)
<1> DEFINE m == <<e>> \o l
           n == Len(l)
<1>1. /\ n \in Nat /\ DOMAIN l = 1 .. n
      /\ m \in Seq(T) /\ Len(m) = n + 1 /\ DOMAIN m = 1 .. n + 1
      /\ m[1] = e /\ \A k \in 2 .. n + 1 : m[k] = l[k - 1]
  BY LenProperties, ConcatProperties
<1> HIDE DEF m, n
<1>2. \A k \in 1 .. n : k + 1 \in 2 .. n + 1 /\ m[k + 1] = l[k]
  BY <1>1
<1>3. \A k \in DOMAIN m : k = 1 \/ (k - 1 \in DOMAIN l /\ m[k] = l[k - 1])
  BY <1>1
<1>4. ToSet(m) = {e} \cup ToSet(l)
  <2>1. 1 \in DOMAIN m /\ \A k \in DOMAIN l : k + 1 \in DOMAIN m /\ m[k + 1] = l[k]
    BY <1>1, <1>2
  <2>2. ToSet(m) \subseteq {e} \cup ToSet(l)
    BY <1>1, <1>3 DEF ToSet
  <2>3. {e} \cup ToSet(l) \subseteq ToSet(m)
    BY <1>1, <2>1 DEF ToSet
  <2> QED
    BY <2>2, <2>3
<1>5. IsInjective(l) /\ e \notin ToSet(l) => IsInjective(m)
  <2> SUFFICES ASSUME IsInjective(l), e \notin ToSet(l),
                      NEW j \in DOMAIN m, NEW k \in DOMAIN m, m[j] = m[k]
               PROVE  j = k
    BY DEF IsInjective
  <2>1. \A x \in DOMAIN l : l[x] # e
    BY DEF ToSet
  <2>2. j \in Int /\ k \in Int
    BY <1>1
  <2>3. CASE j = 1 \/ k = 1
    BY <1>1, <1>3, <2>1, <2>3
  <2>4. CASE j # 1 /\ k # 1
    <3>1. j - 1 \in DOMAIN l /\ k - 1 \in DOMAIN l /\ l[j - 1] = l[k - 1]
      BY <1>3, <2>4
    <3>2. j - 1 = k - 1
      BY <3>1 DEF IsInjective
    <3> QED
      BY <2>2, <3>2
  <2> QED
    BY <2>3, <2>4
<1> QED
  BY <1>1, <1>2, <1>3, <1>4, <1>5 DEF m, n

\* The empty sequence is the one without elements.
LEMMA EmptySets ==
  ASSUME NEW T, NEW l \in Seq(T)
  PROVE  ToSet(l) = {} <=> l = <<>>
<1>1. Len(l) \in Nat /\ DOMAIN l = 1 .. Len(l)
  BY LenProperties
<1>2. l = <<>> <=> Len(l) = 0
  BY EmptySeq
<1>3. ASSUME l # <<>>
      PROVE  ToSet(l) # {}
  <2>1. 1 \in DOMAIN l
    BY <1>1, <1>2, <1>3
  <2> QED
    BY <2>1 DEF ToSet
<1>4. ASSUME l = <<>>
      PROVE  ToSet(l) = {}
  <2>1. DOMAIN l = {}
    BY <1>1, <1>2, <1>4
  <2> QED
    BY <2>1 DEF ToSet
<1> QED
  BY <1>3, <1>4

\* Two sequences one after the other.
LEMMA ConcatSets ==
  ASSUME NEW T, NEW l \in Seq(T), NEW m \in Seq(T)
  PROVE  /\ l \o m \in Seq(T)
         /\ ToSet(l \o m) = ToSet(l) \cup ToSet(m)
         /\ IsInjective(l) /\ IsInjective(m) /\ ToSet(l) \cap ToSet(m) = {}
              => IsInjective(l \o m)
<1> DEFINE c == l \o m
           a == Len(l)
           b == Len(m)
<1>1. /\ a \in Nat /\ DOMAIN l = 1 .. a /\ b \in Nat /\ DOMAIN m = 1 .. b
      /\ c \in Seq(T) /\ DOMAIN c = 1 .. a + b
      /\ \A k \in 1 .. a : c[k] = l[k]
      /\ \A k \in a + 1 .. a + b : c[k] = m[k - a]
  BY LenProperties, ConcatProperties
<1> HIDE DEF c, a, b
<1>2. \A k \in 1 .. b : k + a \in a + 1 .. a + b /\ k + a \in 1 .. a + b /\ k + a - a = k
  BY <1>1
<1>3. \A k \in DOMAIN c : \/ k \in DOMAIN l /\ c[k] = l[k]
                          \/ k - a \in DOMAIN m /\ c[k] = m[k - a]
  BY <1>1
<1>4. ToSet(c) = ToSet(l) \cup ToSet(m)
  <2>1. \A k \in DOMAIN m : k + a \in DOMAIN c /\ c[k + a] = m[k]
    BY <1>1, <1>2
  <2>2. \A k \in DOMAIN l : k \in DOMAIN c /\ c[k] = l[k]
    BY <1>1
  <2> QED
    BY <1>3, <2>1, <2>2 DEF ToSet
<1>5. IsInjective(l) /\ IsInjective(m) /\ ToSet(l) \cap ToSet(m) = {} => IsInjective(c)
  <2> SUFFICES ASSUME IsInjective(l), IsInjective(m), ToSet(l) \cap ToSet(m) = {},
                      NEW j \in DOMAIN c, NEW k \in DOMAIN c, c[j] = c[k]
               PROVE  j = k
    BY DEF IsInjective
  <2>1. j \in Int /\ k \in Int
    BY <1>1
  <2>2. \A x \in DOMAIN l, y \in DOMAIN m : l[x] # m[y]
    BY DEF ToSet
  <2>3. CASE j \in DOMAIN l /\ c[j] = l[j] /\ k \in DOMAIN l /\ c[k] = l[k]
    BY <2>3 DEF IsInjective
  <2>4. CASE j - a \in DOMAIN m /\ c[j] = m[j - a] /\ k - a \in DOMAIN m /\ c[k] = m[k - a]
    <3>1. j - a = k - a
      BY <2>4 DEF IsInjective
    <3> QED
      BY <1>1, <2>1, <3>1
  <2>5. ~(j \in DOMAIN l /\ c[j] = l[j] /\ k - a \in DOMAIN m /\ c[k] = m[k - a])
    BY <2>2
  <2>6. ~(k \in DOMAIN l /\ c[k] = l[k] /\ j - a \in DOMAIN m /\ c[j] = m[j - a])
    BY <2>2
  <2> QED
    BY <1>3, <2>3, <2>4, <2>5, <2>6
<1> QED
  BY <1>1, <1>4, <1>5 DEF c

\* The head and the tail of a sequence without repetitions.
LEMMA TailSets ==
  ASSUME NEW T, NEW l \in Seq(T), l # <<>>
  PROVE  /\ Tail(l) \in Seq(T) /\ Head(l) \in T /\ Head(l) = l[1] /\ 1 \in DOMAIN l
         /\ Head(l) \in ToSet(l)
         /\ Len(Tail(l)) = Len(l) - 1
         /\ \A k \in DOMAIN Tail(l) : k + 1 \in DOMAIN l /\ Tail(l)[k] = l[k + 1]
         /\ \A k \in DOMAIN l : k # 1 => k - 1 \in DOMAIN Tail(l) /\ Tail(l)[k - 1] = l[k]
         /\ IsInjective(l) => IsInjective(Tail(l)) /\ ToSet(Tail(l)) = ToSet(l) \ {Head(l)}
<1> DEFINE n == Len(l)
           u == Tail(l)
<1>1. /\ n \in Nat \ {0} /\ DOMAIN l = 1 .. n /\ \A k \in 1 .. n : l[k] \in T
      /\ Head(l) = l[1]
      /\ u \in Seq(T) /\ Len(u) = n - 1 /\ DOMAIN u = 1 .. n - 1
      /\ \A k \in 1 .. n - 1 : u[k] = l[k + 1]
  BY LenProperties, HeadTailProperties, ElementOfSeq, EmptySeq
<1> HIDE DEF n, u
<1>2. 1 \in 1 .. n
  BY <1>1
<1>3. \A k \in DOMAIN u : k + 1 \in DOMAIN l /\ u[k] = l[k + 1] /\ k \in Int /\ k + 1 # 1
  BY <1>1
<1>4. \A k \in DOMAIN l : k # 1 => k - 1 \in DOMAIN u /\ u[k - 1] = l[k]
  BY <1>1
<1>5. IsInjective(l) => IsInjective(u)
  BY <1>3 DEF IsInjective
<1>6. IsInjective(l) => ToSet(u) = ToSet(l) \ {l[1]}
  <2> HAVE IsInjective(l)
  <2>1. \A k \in DOMAIN l : k # 1 => l[k] # l[1]
    BY <1>1, <1>2 DEF IsInjective
  <2>2. ToSet(u) \subseteq ToSet(l) \ {l[1]}
    BY <1>3, <2>1 DEF ToSet
  <2>3. ToSet(l) \ {l[1]} \subseteq ToSet(u)
    BY <1>4 DEF ToSet
  <2> QED
    BY <2>2, <2>3
<1> QED
  BY <1>1, <1>2, <1>3, <1>4, <1>5, <1>6 DEF u, n, ToSet

\* A sequence without repetitions is as long as the set of its elements is large.
LEMMA LenIsCardinality ==
  ASSUME NEW T, NEW l \in Seq(T), IsInjective(l)
  PROVE  IsFiniteSet(ToSet(l)) /\ Cardinality(ToSet(l)) = Len(l)
<1>1. Len(l) \in Nat /\ DOMAIN l = 1 .. Len(l) /\ l \in [1 .. Len(l) -> T]
  BY LenProperties
<1>2. l \in Bijection(1 .. Len(l), ToSet(l))
  BY <1>1 DEF Bijection, Injection, Surjection, IsInjective, ToSet
<1>3. IsFiniteSet(1 .. Len(l)) /\ Cardinality(1 .. Len(l)) = Len(l)
  BY <1>1, FS_Interval
<1> QED
  BY <1>2, <1>3, FS_Bijection DEF ExistsBijection

-------------------------------------------------------------------------------
(* The lists of the pool. *)

\* What is on a list is a member.
LEMMA MembersOf ==
  ASSUME NEW L, NEW e
  PROVE  e \in Members(L) <=> \E i \in Iods, t \in Types : e \in ToSet(L[i][t])
BY DEF Members

\* The structures that two states have in common keep their iod and their type.
SameKind(S, ev, ev2) == \A e \in S : ev2[e].iod = ev[e].iod /\ ev2[e].type = ev[e].type

\* An event in front of the list of its iod and type.
Pushed(L, i, t, e) == [L EXCEPT ![i][t] = <<e>> \o @]

\* An event at the front of a list of its iod and type.
LEMMA ListsPush ==
  ASSUME NEW L, NEW ev, NEW ev2, ListsOk(L, ev), NEW i \in Iods, NEW t \in Types,
         t # "TIMER", NEW e \in Events, e \notin Members(L), SameKind(Members(L), ev, ev2),
         ev2[e].iod = i, ev2[e].type = t
  PROVE  /\ ListsOk(Pushed(L, i, t, e), ev2)
         /\ Members(Pushed(L, i, t, e)) = Members(L) \cup {e}
<1> DEFINE m == <<e>> \o L[i][t]
           L2 == [L EXCEPT ![i][t] = <<e>> \o @]
<1>1. L \in [Iods -> [Types -> Seq(Events)]] /\ L[i][t] \in Seq(Events)
  BY DEF ListsOk
<1>2. e \notin ToSet(L[i][t])
  BY MembersOf
<1>3. m \in Seq(Events) /\ ToSet(m) = {e} \cup ToSet(L[i][t]) /\ IsInjective(m)
  <2>1. IsInjective(L[i][t])
    BY DEF ListsOk
  <2> QED
    BY <1>1, <1>2, <2>1, FrontProperties
<1> HIDE DEF m
<1>4. /\ L2 \in [Iods -> [Types -> Seq(Events)]]
      /\ L2[i][t] = m
      /\ \A j \in Iods, u \in Types : j # i \/ u # t => L2[j][u] = L[j][u]
  <2>1. L2 = [L EXCEPT ![i] = [L[i] EXCEPT ![t] = m]]
    BY <1>1 DEF m
  <2> QED
    BY <1>1, <1>3, <2>1
<1> HIDE DEF L2
<1>5. Members(L2) = Members(L) \cup {e}
  <2>1. \A j \in Iods, u \in Types :
          ToSet(L2[j][u]) = IF j = i /\ u = t THEN {e} \cup ToSet(L[i][t]) ELSE ToSet(L[j][u])
    BY <1>3, <1>4
  <2> QED
    BY <2>1 DEF Members
<1>6. ASSUME NEW j \in Iods, NEW u \in Types
      PROVE  /\ IsInjective(L2[j][u])
             /\ \A x \in ToSet(L2[j][u]) : ev2[x].iod = j /\ ev2[x].type = u
  <2>1. \A x \in ToSet(L[j][u]) : x \in Members(L) /\ ev[x].iod = j /\ ev[x].type = u
    BY MembersOf DEF ListsOk
  <2>2. IsInjective(L[j][u])
    BY DEF ListsOk
  <2>3. CASE j = i /\ u = t
    <3>1. L2[j][u] = m /\ ToSet(L2[j][u]) = {e} \cup ToSet(L[j][u])
      BY <1>3, <1>4, <2>3
    <3> QED
      BY <1>3, <2>1, <2>3, <3>1 DEF SameKind
  <2>4. CASE j # i \/ u # t
    <3>1. L2[j][u] = L[j][u]
      BY <1>4, <2>4
    <3> QED
      BY <2>1, <2>2, <3>1 DEF SameKind
  <2> QED
    BY <2>3, <2>4
<1>7. \A j \in Iods : L2[j]["TIMER"] = <<>>
  BY <1>4 DEF ListsOk, Types
<1> QED
  BY <1>4, <1>5, <1>6, <1>7 DEF ListsOk, L2, Pushed

\* The events of S leave the lists.
Stripped(L, S) == [i \in Iods |-> [t \in Types |-> Without(L[i][t], S)]]

\* Events taken off all lists.
LEMMA ListsWithout ==
  ASSUME NEW L, NEW ev, NEW ev2, ListsOk(L, ev), NEW S, SameKind(Members(L) \ S, ev, ev2)
  PROVE  ListsOk(Stripped(L, S), ev2) /\ Members(Stripped(L, S)) = Members(L) \ S
<1> DEFINE L2 == [i \in Iods |-> [t \in Types |-> Without(L[i][t], S)]]
<1>1. L \in [Iods -> [Types -> Seq(Events)]]
  BY DEF ListsOk
<1>2. ASSUME NEW j \in Iods, NEW u \in Types
      PROVE  /\ L2[j][u] = Without(L[j][u], S) /\ L2[j][u] \in Seq(Events)
             /\ ToSet(L2[j][u]) = ToSet(L[j][u]) \ S /\ IsInjective(L2[j][u])
  <2>1. L[j][u] \in Seq(Events) /\ IsInjective(L[j][u])
    BY <1>1 DEF ListsOk
  <2>2. L2[j][u] = Without(L[j][u], S)
    OBVIOUS
  <2> HIDE DEF L2
  <2> QED
    BY <2>1, <2>2, WithoutProperties
<1>3. L2 \in [Iods -> [Types -> Seq(Events)]]
  BY <1>2
<1> HIDE DEF L2
<1>4. Members(L2) = Members(L) \ S
  <2>1. \A j \in Iods, u \in Types : ToSet(L2[j][u]) = ToSet(L[j][u]) \ S
    BY <1>2
  <2> QED
    BY <2>1 DEF Members
<1>5. ASSUME NEW j \in Iods, NEW u \in Types, NEW x \in ToSet(L2[j][u])
      PROVE  ev2[x].iod = j /\ ev2[x].type = u
  <2>1. x \in ToSet(L[j][u]) /\ x \notin S
    BY <1>2
  <2>2. x \in Members(L) /\ ev[x].iod = j /\ ev[x].type = u
    BY <2>1, MembersOf DEF ListsOk
  <2> QED
    BY <2>1, <2>2 DEF SameKind
<1>6. ASSUME NEW j \in Iods
      PROVE  L2[j]["TIMER"] = <<>>
  <2>1. "TIMER" \in Types /\ L[j]["TIMER"] = <<>>
    BY DEF Types, ListsOk
  <2>2. <<>> \in Seq(Events)
    BY EmptySeq
  <2>3. ToSet(L[j]["TIMER"]) = {}
    BY <2>1, <2>2, EmptySets
  <2>4. ToSet(L2[j]["TIMER"]) = {} /\ L2[j]["TIMER"] \in Seq(Events)
    BY <1>2, <2>1, <2>3
  <2> QED
    BY <2>4, EmptySets
<1> QED
  BY <1>2, <1>3, <1>4, <1>5, <1>6 DEF ListsOk, L2, Stripped

\* Structures that change only in what the lists do not depend on.
LEMMA ListsSame ==
  ASSUME NEW L, NEW ev, NEW ev2, ListsOk(L, ev), SameKind(Members(L), ev, ev2)
  PROVE  ListsOk(L, ev2)
BY MembersOf DEF ListsOk, SameKind

-------------------------------------------------------------------------------
(* The counters. *)

\* An iod none of whose events changes.
LEMMA IodKept ==
  ASSUME NEW I, NEW P, NEW ev, NEW P2, NEW ev2, NEW i, IodExact(I, P, ev, i),
         Mine(P2, ev2, i) = Mine(P, ev, i), \A e \in Mine(P, ev, i) : ev2[e].type = ev[e].type
  PROVE  IodExact(I, P2, ev2, i)
<1>1. \A w : Waiting(P2, ev2, i, w) = Waiting(P, ev, i, w)
  BY DEF Waiting
<1> QED
  BY <1>1 DEF IodExact

\* The sets that are counted are finite.
LEMMA CountsFinite ==
  ASSUME NEW P, IsFiniteSet(P), NEW ev, NEW i, NEW w
  PROVE  /\ IsFiniteSet(Mine(P, ev, i)) /\ Cardinality(Mine(P, ev, i)) \in Nat
         /\ IsFiniteSet(Waiting(P, ev, i, w)) /\ Cardinality(Waiting(P, ev, i, w)) \in Nat
<1>1. Mine(P, ev, i) \subseteq P /\ Waiting(P, ev, i, w) \subseteq P
  BY DEF Mine, Waiting
<1>2. IsFiniteSet(Mine(P, ev, i)) /\ IsFiniteSet(Waiting(P, ev, i, w))
  BY <1>1, FS_Subset
<1> QED
  BY <1>2, FS_CardinalityType

\* A new event e of the iod.
LEMMA IodAdd ==
  ASSUME NEW I \in Iod, NEW P, IsFiniteSet(P), NEW ev, NEW ev2, NEW i, NEW e, e \notin P,
         SameKind(P, ev, ev2), ev2[e].iod = i, ev2[e].type \in Types, IodExact(I, P, ev, i),
         NEW J, LET C == Counted(I, Wants(ev2[e].type))
                IN /\ J.readsd_count = C.readsd_count /\ J.writesd_count = C.writesd_count
                   /\ J.watched = C.watched /\ J.events_pending = I.events_pending + 1
  PROVE  IodExact(J, P \cup {e}, ev2, i)
<1> DEFINE W == Wants(ev2[e].type)
           R == Waiting(P, ev, i, "r")
           S == Waiting(P, ev, i, "w")
           M == Mine(P, ev, i)
<1>1. /\ Mine(P \cup {e}, ev2, i) = M \cup {e}
      /\ Waiting(P \cup {e}, ev2, i, "r") = IF "r" \in W THEN R \cup {e} ELSE R
      /\ Waiting(P \cup {e}, ev2, i, "w") = IF "w" \in W THEN S \cup {e} ELSE S
  BY DEF Mine, Waiting, SameKind
<1>2. e \notin M /\ e \notin R /\ e \notin S
  BY DEF Mine, Waiting
<1>3. /\ IsFiniteSet(M) /\ IsFiniteSet(R) /\ IsFiniteSet(S)
      /\ Cardinality(M) \in Nat /\ Cardinality(R) \in Nat /\ Cardinality(S) \in Nat
  BY CountsFinite
<1>4. /\ J.readsd_count = IF "r" \in W THEN I.readsd_count + 1 ELSE I.readsd_count
      /\ J.writesd_count = IF "w" \in W THEN I.writesd_count + 1 ELSE I.writesd_count
      /\ J.watched = I.watched \cup W /\ J.events_pending = I.events_pending + 1
  BY DEF Counted, Iod
<1>5. W \subseteq {"r", "w"}
  BY DEF Wants, Types
<1>6. /\ I.events_pending = Cardinality(M) /\ I.readsd_count = Cardinality(R)
      /\ I.writesd_count = Cardinality(S)
      /\ I.watched = {w \in {"r", "w"} : Waiting(P, ev, i, w) # {}}
  BY DEF IodExact
<1> HIDE DEF W, R, S, M
<1>7. /\ Cardinality(M \cup {e}) = Cardinality(M) + 1
      /\ Cardinality(R \cup {e}) = Cardinality(R) + 1
      /\ Cardinality(S \cup {e}) = Cardinality(S) + 1
  BY <1>2, <1>3, FS_AddElement
<1>8. J.watched = {w \in {"r", "w"} : Waiting(P \cup {e}, ev2, i, w) # {}}
  BY <1>1, <1>4, <1>5, <1>6 DEF R, S
<1> QED
  BY <1>1, <1>4, <1>6, <1>7, <1>8 DEF IodExact

\* The event e of the iod is pending no more.
LEMMA IodRemove ==
  ASSUME NEW I \in Iod, NEW P, IsFiniteSet(P), NEW ev, NEW ev2, NEW i, NEW e \in P,
         SameKind(P \ {e}, ev, ev2), ev[e].iod = i, ev[e].type \in Types, IodExact(I, P, ev, i),
         NEW J, LET C == Uncounted(I, Wants(ev[e].type))
                IN /\ J.readsd_count = C.readsd_count /\ J.writesd_count = C.writesd_count
                   /\ J.watched = C.watched /\ J.events_pending = I.events_pending - 1
  PROVE  IodExact(J, P \ {e}, ev2, i)
<1> DEFINE W == Wants(ev[e].type)
           R == Waiting(P, ev, i, "r")
           S == Waiting(P, ev, i, "w")
           M == Mine(P, ev, i)
<1>1. /\ Mine(P \ {e}, ev2, i) = M \ {e}
      /\ Waiting(P \ {e}, ev2, i, "r") = R \ {e}
      /\ Waiting(P \ {e}, ev2, i, "w") = S \ {e}
  BY DEF Mine, Waiting, SameKind
<1>2. e \in M /\ ("r" \in W <=> e \in R) /\ ("w" \in W <=> e \in S)
  BY DEF Mine, Waiting
<1>3. /\ IsFiniteSet(M) /\ IsFiniteSet(R) /\ IsFiniteSet(S)
      /\ Cardinality(M) \in Nat /\ Cardinality(R) \in Nat /\ Cardinality(S) \in Nat
  BY CountsFinite
<1>4. /\ J.readsd_count = IF "r" \in W THEN I.readsd_count - 1 ELSE I.readsd_count
      /\ J.writesd_count = IF "w" \in W THEN I.writesd_count - 1 ELSE I.writesd_count
      /\ J.watched = I.watched \ {w \in W : IF w = "r" THEN J.readsd_count = 0 ELSE J.writesd_count = 0}
      /\ J.events_pending = I.events_pending - 1
  BY DEF Uncounted, Iod
<1>5. W \subseteq {"r", "w"}
  BY DEF Wants, Types
<1>6. /\ I.events_pending = Cardinality(M) /\ I.readsd_count = Cardinality(R)
      /\ I.writesd_count = Cardinality(S)
      /\ I.watched = {w \in {"r", "w"} : Waiting(P, ev, i, w) # {}}
  BY DEF IodExact
<1> HIDE DEF W, R, S, M
<1>7. /\ Cardinality(M \ {e}) = Cardinality(M) - 1
      /\ Cardinality(R \ {e}) = IF e \in R THEN Cardinality(R) - 1 ELSE Cardinality(R)
      /\ Cardinality(S \ {e}) = IF e \in S THEN Cardinality(S) - 1 ELSE Cardinality(S)
      /\ IsFiniteSet(R \ {e}) /\ IsFiniteSet(S \ {e})
  BY <1>2, <1>3, FS_RemoveElement
<1>8. J.readsd_count = Cardinality(R \ {e}) /\ J.writesd_count = Cardinality(S \ {e})
  BY <1>2, <1>4, <1>6, <1>7
<1>9. (J.readsd_count = 0 <=> R \ {e} = {}) /\ (J.writesd_count = 0 <=> S \ {e} = {})
  BY <1>7, <1>8, FS_EmptySet
<1>10. J.watched = {w \in {"r", "w"} : Waiting(P \ {e}, ev2, i, w) # {}}
  <2>1. I.watched = {w \in {"r", "w"} : IF w = "r" THEN R # {} ELSE S # {}}
    BY <1>6 DEF R, S
  <2>2. ("r" \notin W => R \ {e} = R) /\ ("w" \notin W => S \ {e} = S)
    BY <1>2
  <2>3. J.watched = {w \in {"r", "w"} : IF w = "r" THEN R \ {e} # {} ELSE S \ {e} # {}}
    BY <1>4, <1>5, <1>9, <2>1, <2>2
  <2> QED
    BY <1>1, <2>3
<1> QED
  BY <1>1, <1>4, <1>6, <1>7, <1>8, <1>10 DEF IodExact

\* The iods stay records of their type.
LEMMA CountedType ==
  ASSUME NEW I \in Iod, NEW W \in SUBSET {"r", "w"}
  PROVE  Counted(I, W) \in Iod
<1>1. I.watched \cup W \in SUBSET {"r", "w"} /\ I.readsd_count \in Nat /\ I.writesd_count \in Nat
  BY DEF Iod
<1>2. PICK r \in Nat, w \in Nat : /\ r = IF "r" \in W THEN I.readsd_count + 1 ELSE I.readsd_count
                                  /\ w = IF "w" \in W THEN I.writesd_count + 1 ELSE I.writesd_count
  BY <1>1
<1>3. PICK s \in SUBSET {"r", "w"} : s = I.watched \cup W
  BY <1>1
<1>4. Counted(I, W) = [I EXCEPT !.readsd_count = r, !.writesd_count = w, !.registered = TRUE,
                                !.watched = s]
  BY <1>2, <1>3 DEF Counted
<1> QED
  BY <1>4 DEF Iod

\* The same for an event that was added to it.
LEMMA RequestedType ==
  ASSUME NEW I \in Iod
  PROVE  [I EXCEPT !.events_pending = @ + 1, !.state = "CONNECTED"] \in Iod
<1>1. I.events_pending + 1 \in Nat
  BY DEF Iod
<1>2. PICK n \in Nat : n = I.events_pending + 1
  BY <1>1
<1>3. [I EXCEPT !.events_pending = n, !.state = "CONNECTED"] \in Iod
  BY DEF Iod
<1> QED
  BY <1>2, <1>3

\* The counters of the iod of an event that is done.
SettledIod(I, W, b) == [[Uncounted(I, W) EXCEPT !.events_pending = @ - 1] EXCEPT !.eof = b]

\* The counts of an iod one of whose events was delivered.
LEMMA SettledFields ==
  ASSUME NEW I \in Iod, NEW W, NEW b
  PROVE  /\ SettledIod(I, W, b).readsd_count = Uncounted(I, W).readsd_count
         /\ SettledIod(I, W, b).writesd_count = Uncounted(I, W).writesd_count
         /\ SettledIod(I, W, b).watched = Uncounted(I, W).watched
         /\ SettledIod(I, W, b).events_pending = I.events_pending - 1
<1>0. PICK C : C = Uncounted(I, W)
  OBVIOUS
<1>1. I = [state |-> I.state, active |-> I.active, registered |-> I.registered,
           watched |-> I.watched, readsd_count |-> I.readsd_count,
           writesd_count |-> I.writesd_count, events_pending |-> I.events_pending,
           eof |-> I.eof]
  BY DEF Iod
<1>2. PICK J : J = SettledIod(I, W, b)
  OBVIOUS
<1>3. /\ {"readsd_count", "writesd_count", "watched", "events_pending"} \subseteq DOMAIN C
      /\ C.events_pending = I.events_pending
  BY <1>0, <1>1 DEF Uncounted
<1>4. J = [[C EXCEPT !.events_pending = @ - 1] EXCEPT !.eof = b]
  BY <1>0, <1>2 DEF SettledIod
<1>5. /\ J.readsd_count = C.readsd_count /\ J.writesd_count = C.writesd_count
      /\ J.watched = C.watched /\ J.events_pending = I.events_pending - 1
  BY <1>3, <1>4
<1> QED
  BY <1>0, <1>2, <1>5

\* The iod of an event that is done, whose counters are exact.
LEMMA SettledType ==
  ASSUME NEW I \in Iod, NEW W, NEW b \in BOOLEAN, NEW P, IsFiniteSet(P), NEW ev, NEW i,
         NEW J, J = SettledIod(I, W, b), IodExact(J, P, ev, i)
  PROVE  J \in Iod
<1>1. J.events_pending \in Nat /\ J.readsd_count \in Nat /\ J.writesd_count \in Nat
  BY CountsFinite DEF IodExact
<1>2. J.watched \in SUBSET {"r", "w"}
  BY DEF IodExact
<1>3. PICK n \in Nat, r \in Nat, w \in Nat, s \in SUBSET {"r", "w"} :
        n = J.events_pending /\ r = J.readsd_count /\ w = J.writesd_count /\ s = J.watched
  BY <1>1, <1>2
<1>4. J = [state |-> I.state, active |-> I.active, registered |-> I.registered,
           watched |-> s, readsd_count |-> r, writesd_count |-> w, events_pending |-> n,
           eof |-> b]
  <2>1. I = [state |-> I.state, active |-> I.active, registered |-> I.registered,
             watched |-> I.watched, readsd_count |-> I.readsd_count,
             writesd_count |-> I.writesd_count, events_pending |-> I.events_pending,
             eof |-> I.eof]
    BY DEF Iod
  <2>2. J = [state |-> I.state, active |-> I.active, registered |-> I.registered,
             watched |-> J.watched, readsd_count |-> J.readsd_count,
             writesd_count |-> J.writesd_count, events_pending |-> J.events_pending,
             eof |-> b]
    BY <2>1 DEF Uncounted, SettledIod
  <2> QED
    BY <1>3, <2>2
<1> QED
  BY <1>4 DEF Iod

-------------------------------------------------------------------------------
(* What the invariant says. *)

\* The definitions of the model in terms of the operators above.
LEMMA HeldIs ==
  /\ Listed = Members(lists) /\ Held = Members(lists) \cup expirables
  /\ Pending = PendingIn(Held, event)
BY DEF Listed, Held, Pending, PendingIn, Members

\* The events that are held are structures that were allocated, so they are finitely many.
LEMMA HeldFinite ==
  ASSUME Inv
  PROVE  /\ Held \subseteq Events /\ Pending \subseteq Held
         /\ Held \cup Immediate(frames) \cup ToSet(free_events) \subseteq Events
         /\ IsFiniteSet(Pending) /\ created \in Nat /\ created <= MaxRequests
         /\ requests \in Nat /\ MaxRequests \in Nat
<1>1. MaxRequests \in Nat
  BY ConstantsAssumption
<1>2. created \in Nat /\ created <= MaxRequests /\ requests \in Nat
  BY <1>1 DEF Inv, TypeOK
<1>3. 1 .. created \subseteq Events
  BY <1>1, <1>2 DEF Events
<1>4. Held \cup Immediate(frames) \cup ToSet(free_events) = 1 .. created
  BY DEF Inv, Owned
<1>5. Held \subseteq Events /\ Held \cup Immediate(frames) \cup ToSet(free_events) \subseteq Events
  BY <1>3, <1>4
<1>6. Pending \subseteq Held
  BY DEF Pending
<1>7. IsFiniteSet(Pending)
  <2>1. IsFiniteSet(Events)
    BY <1>1, FS_Interval DEF Events
  <2> QED
    BY <1>5, <1>6, <2>1, FS_Subset
<1> QED
  BY <1>1, <1>2, <1>5, <1>6, <1>7

\* NoEvent is no event.
LEMMA NoEventIsNone == NoEvent \notin Events
BY DEF NoEvent, Events

\* The events of the frames are held or are being answered at once.
LEMMA FrameEvents ==
  ASSUME Inv, NEW k \in DOMAIN frames
  PROVE  /\ frames[k] \in Frame /\ frames[k].event \in Events /\ event[frames[k].event].done
         /\ frames[k].event \in Held \cup Immediate(frames)
         /\ frames[k].event \notin Pending
         /\ k \in 1 .. Len(frames) /\ Len(frames) \in Nat
<1>1. frames \in Seq(Frame) /\ event[frames[k].event].done
  BY DEF Inv, FramesOk
<1>2. frames[k] \in Frame /\ Len(frames) \in Nat /\ DOMAIN frames = 1 .. Len(frames)
  BY <1>1, LenProperties, ElementOfSeq
<1>3. frames[k].event \in Held \cup Immediate(frames)
  <2>1. CASE frames[k].kind = "immediate"
    BY <2>1 DEF Immediate
  <2>2. CASE frames[k].kind # "immediate"
    <3>1. k = Len(frames)
      BY <1>2, <2>2 DEF Inv, FramesOk
    <3>2. frames # <<>>
      BY <1>2, EmptySeq
    <3> QED
      BY <2>2, <3>1, <3>2 DEF Inv, BottomOk
  <2> QED
    BY <2>1, <2>2
<1> QED
  BY <1>1, <1>2, <1>3 DEF Frame, Pending

\* Without frames no event that is held is done.
LEMMA HeldIsPending ==
  ASSUME Inv, frames = <<>>, NEW e \in Held
  PROVE  e \in Pending
<1>1. DOMAIN frames = {}
  <2>1. frames \in Seq(Frame) /\ Len(frames) = 0
    BY EmptySeq
  <2> QED
    BY <2>1, LenProperties
<1>2. ~event[e].done
  BY <1>1 DEF Inv, DoneOk
<1> QED
  BY <1>2 DEF Pending

\* The event of a list or of the heap has a type, and an iod unless it is a timer.
LEMMA EventFields ==
  ASSUME Inv, NEW e \in Events
  PROVE  /\ event[e] \in Event /\ event[e].type \in Types /\ event[e].iod \in Iods \cup {NoIod}
         /\ event[e].done \in BOOLEAN /\ event[e].need \in Nat /\ event[e].calls \in Nat
         /\ event \in [Events -> Event]
BY SMTT(30) DEF Inv, TypeOK, Event

\* The event after e in its list is another one that is listed.
LEMMA AfterIsListed ==
  ASSUME Inv, NEW e \in Members(lists), After(e) # NoEvent
  PROVE  /\ After(e) \in Members(lists) \ {e}
         /\ event[After(e)].iod = event[e].iod /\ event[After(e)].type = event[e].type
<1> DEFINE i == event[e].iod
           t == event[e].type
           l == lists[i][t]
           here == {n \in 1 .. Len(l) - 1 : l[n] = e}
<1>1. i \in Iods /\ t \in Types
  <2>1. PICK j \in Iods, u \in Types : e \in ToSet(lists[j][u])
    BY MembersOf
  <2> QED
    BY <2>1 DEF Inv, ListsOk
<1>2. l \in Seq(Events) /\ IsInjective(l)
  BY <1>1 DEF Inv, ListsOk
<1>3. here # {} /\ After(e) = l[Min(here) + 1]
  BY DEF After
<1> HIDE DEF l
<1>4. Len(l) \in Nat /\ DOMAIN l = 1 .. Len(l)
  BY <1>2, LenProperties
<1>5. PICK n \in here : TRUE
  BY <1>3
<1>6. \A m \in here : m = n /\ m \in Int
  BY <1>2, <1>4, <1>5 DEF IsInjective
<1>7. Min(here) = n
  <2>1. n \in here /\ \A y \in here : n <= y
    BY <1>5, <1>6
  <2>2. Min(here) \in here
    BY <2>1, Zenon DEF Min
  <2> QED
    BY <1>6, <2>2
<1>8. n + 1 \in DOMAIN l /\ n \in DOMAIN l /\ n # n + 1 /\ l[n] = e
  BY <1>4, <1>5
<1>9. After(e) \in ToSet(l) /\ After(e) # e
  BY <1>2, <1>3, <1>7, <1>8 DEF ToSet, IsInjective
<1>10. After(e) \in Members(lists)
  BY <1>1, <1>9, MembersOf DEF l
<1>11. event[After(e)].iod = i /\ event[After(e)].type = t
  BY <1>1, <1>9 DEF Inv, ListsOk, l
<1> QED
  BY <1>9, <1>10, <1>11

\* The first event of a list is listed.
LEMMA FirstIsListed ==
  ASSUME Inv, NEW i \in Iods, NEW k \in 1 .. 3, First(i, k) # NoEvent
  PROVE  /\ First(i, k) \in Members(lists)
         /\ event[First(i, k)].iod = i /\ event[First(i, k)].type = Order[k]
<1>1. Order[k] \in Types
  BY DEF Order, Types
<1>2. lists[i][Order[k]] \in Seq(Events)
  BY <1>1 DEF Inv, ListsOk
<1>3. First(i, k) \in ToSet(lists[i][Order[k]])
  <2>1. lists[i][Order[k]] # <<>> /\ First(i, k) = Head(lists[i][Order[k]])
    BY DEF First
  <2> QED
    BY <1>2, <2>1, TailSets
<1>4. event[First(i, k)].iod = i /\ event[First(i, k)].type = Order[k]
  BY <1>1, <1>3 DEF Inv, ListsOk
<1> QED
  BY <1>1, <1>3, <1>4, MembersOf

-------------------------------------------------------------------------------
(* Requests. *)

\* A step adds the pending event e of an iod and a type.
Added(e, i, type) ==
  /\ e \in Events /\ e \notin Held /\ Held' = Held \cup {e} /\ Pending' = Pending \cup {e}
  /\ \A x \in Held : event'[x] = event[x]
  /\ event'[e].iod = i /\ event'[e].type = type

\* A step adds none and changes none of those that it keeps.
Kept == Held' \subseteq Held /\ Pending' \subseteq Pending /\ \A x \in Held' : event'[x] = event[x]

\* The structure of a new event is in no other place.
LEMMA NewEventIsFree ==
  ASSUME Inv, requests < MaxRequests
  PROVE  LET fr2 == IF free_events # <<>> THEN Tail(free_events) ELSE free_events
             cr2 == IF free_events # <<>> THEN created ELSE created + 1
         IN /\ NewEvent \in Events /\ NewEvent \notin Held \cup Immediate(frames) \cup ToSet(fr2)
            /\ fr2 \in Seq(Events) /\ IsInjective(fr2)
            /\ {NewEvent} \cup Held \cup Immediate(frames) \cup ToSet(fr2) = 1 .. cr2
            /\ ToSet(fr2) \cap (Held \cup Immediate(frames)) = {}
            /\ cr2 \in 0 .. MaxRequests /\ cr2 <= requests + 1
<1> DEFINE O == Held \cup Immediate(frames)
<1>1. /\ free_events \in Seq(Events) /\ IsInjective(free_events)
      /\ O \cup ToSet(free_events) = 1 .. created /\ ToSet(free_events) \cap O = {}
  BY DEF Inv, Owned
<1>2. /\ created \in Nat /\ created <= requests /\ requests \in Nat
      /\ created <= MaxRequests /\ MaxRequests \in Nat
  BY HeldFinite DEF Inv
<1> HIDE DEF O
<1>3. CASE free_events # <<>>
  <2>1. /\ Tail(free_events) \in Seq(Events) /\ Head(free_events) \in Events
        /\ Head(free_events) \in ToSet(free_events) /\ IsInjective(Tail(free_events))
        /\ ToSet(Tail(free_events)) = ToSet(free_events) \ {Head(free_events)}
    BY <1>1, <1>3, TailSets
  <2>2. NewEvent = Head(free_events)
    BY <1>3 DEF NewEvent
  <2>3. created \in 0 .. MaxRequests /\ created <= requests + 1
    BY <1>2
  <2>4. {NewEvent} \cup O \cup ToSet(Tail(free_events)) = 1 .. created
    BY <1>1, <2>1, <2>2
  <2> QED
    BY <1>1, <1>3, <2>1, <2>2, <2>3, <2>4 DEF O
<1>4. CASE free_events = <<>>
  <2>1. NewEvent = created + 1
    BY <1>4 DEF NewEvent
  <2>2. ToSet(free_events) = {}
    BY <1>1, <1>4, EmptySets
  <2>3. O = 1 .. created
    BY <1>1, <2>2
  <2>4. created + 1 \in Events /\ created + 1 \notin O
    BY <1>2, <2>3 DEF Events
  <2>5. {NewEvent} \cup O \cup ToSet(free_events) = 1 .. created + 1
    BY <1>2, <2>1, <2>2, <2>3
  <2>6. created + 1 \in 0 .. MaxRequests /\ created + 1 <= requests + 1
    BY <1>2
  <2> QED
    BY <1>1, <1>4, <2>1, <2>2, <2>4, <2>5, <2>6 DEF O
<1> QED
  BY <1>3, <1>4

\* A request that is not answered at once.
LEMMA RequestWaits ==
  ASSUME Inv, NEW type \in Types, NEW i \in Iods \cup {NoIod}, NEW need \in Nat,
         NEW timeout \in BOOLEAN, Request(type, i, need, timeout, FALSE),
         type = "TIMER" => i = NoIod /\ timeout, type # "TIMER" => i \in Iods,
         type = "READ" => need > 0
  PROVE  Inv' /\ Added(NewEvent, i, type)
<1> DEFINE e == NewEvent
           R == [type |-> type, iod |-> i, done |-> FALSE, need |-> need,
                 timeout |-> timeout, due |-> FALSE, calls |-> 0]
           I == Counted(iod[i], Wants(type))
<1>1. /\ CallerRuns /\ requests < MaxRequests /\ requests' = requests + 1
      /\ free_events' = IF free_events # <<>> THEN Tail(free_events) ELSE free_events
      /\ created' = IF free_events # <<>> THEN created ELSE created + 1
      /\ event' = [event EXCEPT ![e] = R]
      /\ expirables' = IF timeout THEN expirables \cup {e} ELSE expirables
      /\ events_pending' = events_pending + 1
      /\ type = "TIMER" => UNCHANGED <<lists, iod, armed>>
      /\ type # "TIMER" =>
           /\ lists' = [lists EXCEPT ![i][type] = <<e>> \o @]
           /\ iod' = [iod EXCEPT ![i] = [I EXCEPT !.events_pending = @ + 1, !.state = "CONNECTED"]]
           /\ armed' = Rearmed(i, I)
      /\ UNCHANGED <<frames, phase, batch, current, mask, list, cursor, quit,
                     data, arrived, closed, writable>>
  BY DEF Request, loop, kernel
<1>2. /\ e \in Events /\ e \notin Held \cup Immediate(frames) \cup ToSet(free_events')
      /\ free_events' \in Seq(Events) /\ IsInjective(free_events')
      /\ {e} \cup Held \cup Immediate(frames) \cup ToSet(free_events') = 1 .. created'
      /\ ToSet(free_events') \cap (Held \cup Immediate(frames)) = {}
      /\ created' \in 0 .. MaxRequests /\ created' <= requests'
  BY <1>1, NewEventIsFree
<1> HIDE DEF e
<1>3. /\ event \in [Events -> Event] /\ R \in Event /\ event' \in [Events -> Event]
      /\ event'[e] = R /\ \A x \in Events \ {e} : event'[x] = event[x]
  <2>1. event \in [Events -> Event]
    BY DEF Inv, TypeOK
  <2>2. R \in Event
    BY DEF Event
  <2> HIDE DEF R
  <2> QED
    BY <1>1, <1>2, <2>1, <2>2
<1>4. R.type = type /\ R.iod = i /\ R.done = FALSE /\ R.need = need /\ R.calls = 0
  OBVIOUS
<1> HIDE DEF R
<1>5. Held \subseteq Events /\ Pending \subseteq Held /\ IsFiniteSet(Pending)
  BY HeldFinite
<1>6. Members(lists) \subseteq Held /\ e \notin Members(lists)
  BY <1>2, HeldIs
<1>7. SameKind(Held, event, event')
  BY <1>2, <1>3, <1>5 DEF SameKind
<1>8. /\ ListsOk(lists', event')
      /\ Members(lists') = IF type = "TIMER" THEN Members(lists) ELSE Members(lists) \cup {e}
  <2>1. ListsOk(lists, event) /\ SameKind(Members(lists), event, event')
    BY <1>6, <1>7 DEF Inv, SameKind
  <2>2. CASE type = "TIMER"
    BY <1>1, <2>1, <2>2, ListsSame
  <2>3. CASE type # "TIMER"
    <3>1. lists' = Pushed(lists, i, type, e) /\ i \in Iods
      BY <1>1, <2>3 DEF Pushed
    <3>2. event'[e].iod = i /\ event'[e].type = type
      BY <1>3, <1>4
    <3>3. /\ ListsOk(Pushed(lists, i, type, e), event')
          /\ Members(Pushed(lists, i, type, e)) = Members(lists) \cup {e}
      BY <1>2, <1>6, <2>1, <2>3, <3>1, <3>2, ListsPush
    <3> QED
      BY <2>3, <3>1, <3>3
  <2> QED
    BY <2>2, <2>3
<1>9. Held' = Held \cup {e}
  <2>1. Held' = Members(lists') \cup expirables'
    BY DEF Held, Listed, Members
  <2> QED
    BY <1>1, <1>8, <2>1, HeldIs
<1>10. Pending' = Pending \cup {e}
  <2>1. \A x \in Held : x \in Events \ {e}
    BY <1>2, <1>5
  <2> QED
    BY <1>3, <1>4, <1>9, <2>1 DEF Pending
<1>11. HeapOk(lists', expirables', event')
  <2>1. \A x \in expirables : x \in Events \ {e} /\ (event[x].iod \in Iods => x \in Members(lists))
    BY <1>2, <1>5, HeldIs DEF Inv, HeapOk
  <2>2. e \in expirables' /\ i \in Iods => e \in Members(lists')
    BY <1>8, ConstantsAssumption
  <2> QED
    BY <1>1, <1>2, <1>3, <1>4, <1>8, <2>1, <2>2 DEF HeapOk
<1>12. FramesOk(frames', event')
  <2>1. \A k \in DOMAIN frames : frames[k].event \in Events \ {e}
    BY <1>2, FrameEvents
  <2> QED
    BY <1>1, <1>3, <2>1 DEF Inv, FramesOk
<1>13. BottomOk(frames', Held', phase', cursor')
  BY <1>1, <1>9 DEF Inv, BottomOk
<1>14. DoneOk(frames', Held', event')
  <2>1. \A x \in Held : x \in Events \ {e}
    BY <1>2, <1>5
  <2> QED
    BY <1>1, <1>3, <1>4, <1>9, <2>1 DEF Inv, DoneOk
<1>15. Owned(Held', frames', free_events', created')
  <2>1. Held \cap Immediate(frames) = {}
    BY DEF Inv, Owned
  <2> QED
    BY <1>1, <1>2, <1>9, <2>1 DEF Owned
<1>16. CursorOk(lists', phase', current', cursor')
  BY <1>1, <1>8 DEF Inv, CursorOk
<1>17. events_pending' = Cardinality(Pending')
  <2>1. e \notin Pending /\ events_pending = Cardinality(Pending)
    BY <1>2, <1>5 DEF Inv
  <2>2. Cardinality(Pending \cup {e}) = Cardinality(Pending) + 1
    BY <1>5, <2>1, FS_AddElement
  <2> QED
    BY <1>1, <1>10, <2>1, <2>2
<1>18. ASSUME NEW j \in Iods
       PROVE  IodExact(iod'[j], Pending', event', j)
  <2>1. iod \in [Iods -> Iod] /\ iod[j] \in Iod /\ IodExact(iod[j], Pending, event, j)
    BY DEF Inv, TypeOK
  <2>2. e \notin Pending /\ SameKind(Pending, event, event')
    BY <1>2, <1>5, <1>7 DEF SameKind
  <2>3. CASE j = i
    <3>1. type # "TIMER"
      BY <2>3, ConstantsAssumption
    <3>2. iod'[j] = [I EXCEPT !.events_pending = @ + 1, !.state = "CONNECTED"]
      BY <1>1, <2>1, <2>3, <3>1
    <3>3. /\ iod'[j].readsd_count = I.readsd_count /\ iod'[j].writesd_count = I.writesd_count
          /\ iod'[j].watched = I.watched /\ iod'[j].events_pending = iod[j].events_pending + 1
      BY <2>1, <2>3, <3>2 DEF Counted, Iod
    <3>4. event'[e].iod = j /\ event'[e].type = type
      BY <1>3, <1>4, <2>3
    <3>5. IodExact(iod'[j], Pending \cup {e}, event', j)
      BY <1>5, <2>1, <2>2, <2>3, <3>3, <3>4, IodAdd
    <3> QED
      BY <1>10, <3>5
  <2>4. CASE j # i
    <3>1. iod'[j] = iod[j]
      BY <1>1, <2>1, <2>4
    <3>2. Mine(Pending', event', j) = Mine(Pending, event, j)
      BY <1>3, <1>4, <1>10, <2>2, <2>4 DEF Mine, SameKind
    <3>3. \A x \in Mine(Pending, event, j) : event'[x].type = event[x].type
      BY <2>2 DEF Mine, SameKind
    <3> QED
      BY <2>1, <3>1, <3>2, <3>3, IodKept
  <2> QED
    BY <2>3, <2>4
<1>19. CallsOk(Pending', event')
  <2>1. \A x \in Pending : x \in Events \ {e}
    BY <1>2, <1>5
  <2> QED
    BY <1>3, <1>4, <1>10, <2>1 DEF Inv, CallsOk
<1>20. TypeOK'
  <2>1. IsFiniteSet(Pending')
    BY <1>5, <1>10, FS_AddElement
  <2>2. events_pending' \in Nat
    BY <1>17, <2>1, FS_CardinalityType
  <2>3. iod' \in [Iods -> Iod]
    <3>1. iod \in [Iods -> Iod]
      BY DEF Inv, TypeOK
    <3>2. ASSUME type # "TIMER"
          PROVE  [I EXCEPT !.events_pending = @ + 1, !.state = "CONNECTED"] \in Iod
      <4>1. Wants(type) \subseteq {"r", "w"} /\ iod[i] \in Iod
        BY <3>1, <3>2 DEF Wants, Types
      <4>2. I \in Iod
        BY <4>1, CountedType
      <4> HIDE DEF I
      <4> QED
        BY <4>2, RequestedType
    <3> HIDE DEF I
    <3> QED
      BY <1>1, <3>1, <3>2
  <2>4. armed' \subseteq Iods
    BY <1>1 DEF Inv, TypeOK, Rearmed
  <2>5. requests' \in 0 .. MaxRequests
    BY <1>1, HeldFinite
  <2>6. expirables' \subseteq Events
    BY <1>11 DEF HeapOk
  <2>7. \A j \in Iods, t \in Types : lists'[j][t] \in Seq(Events)
    BY <1>8 DEF ListsOk
  <2>8. TypeOK
    BY DEF Inv
  <2> QED
    BY <1>1, <1>2, <1>3, <2>2, <2>3, <2>4, <2>5, <2>6, <2>7, <2>8 DEF TypeOK
<1>21. Inv'
  BY <1>2, <1>8, <1>11, <1>12, <1>13, <1>14, <1>15, <1>16, <1>17, <1>18, <1>19, <1>20 DEF Inv
<1> QED
  BY <1>21, <1>2, <1>3, <1>4, <1>5, <1>9, <1>10 DEF Added, e

\* A new frame f on top of the frames F, whose events do not change, makes the frames G.
Untouched(F, e, ev, ev2) ==
  \A k \in DOMAIN F : F[k].event # e /\ ev2[F[k].event] = ev[F[k].event]
OnTop(f, F, G, ev2) ==
  /\ FramesOk(G, ev2) /\ G # <<>>
  /\ G[Len(G)] = IF F = <<>> THEN f ELSE F[Len(F)]
  /\ Immediate(G) = Immediate(F) \cup (IF f.kind = "immediate" THEN {f.event} ELSE {})
  /\ \A e : (\E k \in DOMAIN F : F[k].event = e) \/ e = f.event
              => \E k \in DOMAIN G : G[k].event = e

\* A delivery on top of those under way.
LEMMA FramePush ==
  ASSUME NEW F, NEW ev, NEW ev2, NEW f \in Frame, FramesOk(F, ev),
         Untouched(F, f.event, ev, ev2), ev2[f.event].done, f.kind = "immediate" \/ F = <<>>
  PROVE  OnTop(f, F, <<f>> \o F, ev2)
<1> DEFINE G == <<f>> \o F
           n == Len(F)
<1>1. F \in Seq(Frame) /\ n \in Nat /\ DOMAIN F = 1 .. n /\ (F = <<>> <=> n = 0)
  BY LenProperties, EmptySeq DEF FramesOk
<1>2. /\ G \in Seq(Frame) /\ Len(G) = n + 1 /\ G[1] = f
      /\ \A k \in 1 .. n : G[k + 1] = F[k]
      /\ \A k \in DOMAIN G : k = 1 \/ (k - 1 \in DOMAIN F /\ G[k] = F[k - 1])
  BY <1>1, FrontProperties
<1>3. DOMAIN G = 1 .. n + 1
  BY <1>1, <1>2, LenProperties
<1>4. (f.kind = "immediate" \/ n = 0) /\ \A k \in DOMAIN F : k < n => F[k].kind = "immediate"
  BY <1>1 DEF FramesOk
<1> HIDE DEF G, n
<1>5. 1 \in DOMAIN G /\ \A k \in DOMAIN F : k + 1 \in DOMAIN G /\ G[k + 1] = F[k] /\ k \in Int
  BY <1>1, <1>2, <1>3
<1>6. \A k \in DOMAIN G : ev2[G[k].event].done
  <2>1. \A k \in DOMAIN F : ev2[F[k].event].done
    BY DEF FramesOk, Untouched
  <2> QED
    BY <1>2, <2>1
<1>7. ASSUME NEW j \in DOMAIN G, NEW k \in DOMAIN G, G[j].event = G[k].event
      PROVE  j = k
  <2>1. CASE j = 1 \/ k = 1
    BY <1>2, <1>7, <2>1 DEF Untouched
  <2>2. CASE j # 1 /\ k # 1
    <3>1. j - 1 \in DOMAIN F /\ k - 1 \in DOMAIN F /\ F[j - 1].event = F[k - 1].event
      BY <1>2, <1>7, <2>2
    <3>2. j - 1 = k - 1
      BY <3>1 DEF FramesOk
    <3> QED
      BY <1>1, <1>3, <3>2
  <2> QED
    BY <2>1, <2>2
<1>8. \A k \in DOMAIN G : k < Len(G) => G[k].kind = "immediate"
  BY <1>1, <1>2, <1>3, <1>4
<1>9. FramesOk(G, ev2)
  BY <1>2, <1>6, <1>7, <1>8 DEF FramesOk
<1>10. G # <<>> /\ G[Len(G)] = IF F = <<>> THEN f ELSE F[Len(F)]
  <2>1. G # <<>>
    BY <1>1, <1>2, EmptySeq
  <2>2. CASE n = 0
    BY <1>1, <1>2, <2>1, <2>2
  <2>3. CASE n # 0
    <3>1. n \in 1 .. n
      BY <1>1, <2>3
    <3> QED
      BY <1>1, <1>2, <2>1, <2>3, <3>1 DEF n
  <2> QED
    BY <2>2, <2>3
<1>11. Immediate(G) = Immediate(F) \cup (IF f.kind = "immediate" THEN {f.event} ELSE {})
  <2>1. ASSUME NEW e \in Immediate(G)
        PROVE  e \in Immediate(F) \cup (IF f.kind = "immediate" THEN {f.event} ELSE {})
    <3>1. PICK k \in DOMAIN G : G[k].kind = "immediate" /\ G[k].event = e
      BY DEF Immediate
    <3> QED
      BY <1>2, <3>1 DEF Immediate
  <2>2. ASSUME NEW e \in Immediate(F) \cup (IF f.kind = "immediate" THEN {f.event} ELSE {})
        PROVE  e \in Immediate(G)
    <3>1. CASE e \in Immediate(F)
      <4>1. PICK k \in DOMAIN F : F[k].kind = "immediate" /\ F[k].event = e
        BY <3>1 DEF Immediate
      <4> QED
        BY <1>5, <4>1 DEF Immediate
    <3>2. CASE f.kind = "immediate" /\ e = f.event
      BY <1>2, <1>5, <3>2 DEF Immediate
    <3> QED
      BY <2>2, <3>1, <3>2
  <2> QED
    BY <2>1, <2>2
<1>12. ASSUME NEW e, (\E k \in DOMAIN F : F[k].event = e) \/ e = f.event
       PROVE  \E k \in DOMAIN G : G[k].event = e
  BY <1>2, <1>5, <1>12
<1> QED
  BY <1>9, <1>10, <1>11, <1>12 DEF G, OnTop

\* A request that is answered before the call returns.
LEMMA RequestAtOnce ==
  ASSUME Inv, NEW type \in Types, NEW i \in Iods, NEW need \in Nat,
         NEW timeout \in BOOLEAN, Request(type, i, need, timeout, TRUE)
  PROVE  Inv' /\ Kept
<1> DEFINE e == NewEvent
           R == [type |-> type, iod |-> i, done |-> TRUE, need |-> need,
                 timeout |-> timeout, due |-> FALSE, calls |-> 1]
           f == [kind |-> "immediate", event |-> e]
<1>1. /\ CallerRuns /\ requests < MaxRequests /\ requests' = requests + 1
      /\ free_events' = IF free_events # <<>> THEN Tail(free_events) ELSE free_events
      /\ created' = IF free_events # <<>> THEN created ELSE created + 1
      /\ event' = [event EXCEPT ![e] = R]
      /\ frames' = <<f>> \o frames
      /\ iod' = [iod EXCEPT ![i].state = "CONNECTED"]
      /\ UNCHANGED <<lists, expirables, events_pending, armed>>
      /\ UNCHANGED <<phase, batch, current, mask, list, cursor, quit,
                     data, arrived, closed, writable>>
  BY ConstantsAssumption DEF Request, loop, kernel
<1>2. /\ e \in Events /\ e \notin Held \cup Immediate(frames) \cup ToSet(free_events')
      /\ free_events' \in Seq(Events) /\ IsInjective(free_events')
      /\ {e} \cup Held \cup Immediate(frames) \cup ToSet(free_events') = 1 .. created'
      /\ ToSet(free_events') \cap (Held \cup Immediate(frames)) = {}
      /\ created' \in 0 .. MaxRequests /\ created' <= requests'
  BY <1>1, NewEventIsFree
<1> HIDE DEF e
<1>3. /\ event \in [Events -> Event] /\ R \in Event /\ event' \in [Events -> Event]
      /\ event'[e] = R /\ \A x \in Events \ {e} : event'[x] = event[x]
  <2>1. event \in [Events -> Event]
    BY DEF Inv, TypeOK
  <2>2. R \in Event
    BY DEF Event
  <2> HIDE DEF R
  <2> QED
    BY <1>1, <1>2, <2>1, <2>2
<1>4. R.done = TRUE /\ R.calls = 1
  OBVIOUS
<1> HIDE DEF R
<1>5. Held \subseteq Events /\ Pending \subseteq Held /\ IsFiniteSet(Pending)
  BY HeldFinite
<1>6. Held' = Held /\ \A x \in Held : event'[x] = event[x]
  <2>1. Held' = Held
    BY <1>1 DEF Held, Listed
  <2> QED
    BY <1>2, <1>3, <1>5, <2>1
<1>7. Pending' = Pending
  BY <1>6 DEF Pending
<1>8. ListsOk(lists', event') /\ Members(lists') = Members(lists)
  <2>1. ListsOk(lists, event) /\ SameKind(Members(lists), event, event')
    BY <1>6, HeldIs DEF Inv, SameKind
  <2> QED
    BY <1>1, <2>1, ListsSame
<1>9. HeapOk(lists', expirables', event')
  <2>1. \A x \in expirables : x \in Held
    BY HeldIs
  <2> QED
    BY <1>1, <1>6, <2>1 DEF Inv, HeapOk
<1>10. /\ f \in Frame /\ f.event = e /\ f.kind = "immediate"
       /\ FramesOk(frames, event)
       /\ Untouched(frames, e, event, event') /\ event'[e].done
  <2>1. \A k \in DOMAIN frames : frames[k].event # e /\ frames[k].event \in Events
    BY <1>2, FrameEvents
  <2>2. f \in Frame
    BY <1>2 DEF Frame
  <2> QED
    BY <1>3, <1>4, <2>1, <2>2 DEF Inv, Untouched
<1> HIDE DEF f
<1>11. /\ FramesOk(frames', event') /\ frames' # <<>>
       /\ frames'[Len(frames')] = IF frames = <<>> THEN f ELSE frames[Len(frames)]
       /\ Immediate(frames') = Immediate(frames) \cup {e}
       /\ \A x : (\E k \in DOMAIN frames : frames[k].event = x)
                   => \E k \in DOMAIN frames' : frames'[k].event = x
  <2>1. OnTop(f, frames, <<f>> \o frames, event')
    BY <1>10, FramePush
  <2> QED
    BY <1>1, <1>10, <2>1 DEF OnTop
<1>12. BottomOk(frames', Held', phase', cursor')
  <2>1. CASE frames = <<>>
    BY <1>1, <1>10, <1>11, <2>1 DEF BottomOk, CallerRuns
  <2>2. CASE frames # <<>>
    BY <1>1, <1>6, <1>11, <2>2 DEF Inv, BottomOk
  <2> QED
    BY <2>1, <2>2
<1>13. DoneOk(frames', Held', event')
  BY <1>6, <1>11 DEF Inv, DoneOk
<1>14. Owned(Held', frames', free_events', created')
  <2>1. Held \cap Immediate(frames) = {}
    BY DEF Inv, Owned
  <2> QED
    BY <1>2, <1>6, <1>11, <2>1 DEF Owned
<1>15. CursorOk(lists', phase', current', cursor')
  BY <1>1 DEF Inv, CursorOk
<1>16. events_pending' = Cardinality(Pending')
  BY <1>1, <1>7 DEF Inv
<1>17. ASSUME NEW j \in Iods
       PROVE  IodExact(iod'[j], Pending', event', j) /\ iod'[j] \in Iod
  <2>1. iod \in [Iods -> Iod] /\ iod[j] \in Iod /\ IodExact(iod[j], Pending, event, j)
    BY DEF Inv, TypeOK
  <2>2. iod'[j] = IF j = i THEN [iod[i] EXCEPT !.state = "CONNECTED"] ELSE iod[j]
    BY <1>1, <2>1
  <2>3. /\ iod'[j].events_pending = iod[j].events_pending
        /\ iod'[j].readsd_count = iod[j].readsd_count
        /\ iod'[j].writesd_count = iod[j].writesd_count
        /\ iod'[j].watched = iod[j].watched /\ iod'[j] \in Iod
    BY <2>1, <2>2 DEF Iod
  <2>4. IodExact(iod'[j], Pending, event, j)
    BY <2>1, <2>3 DEF IodExact
  <2>5. \A x \in Pending : event'[x] = event[x]
    BY <1>5, <1>6
  <2>6. Mine(Pending', event', j) = Mine(Pending, event, j)
    BY <1>7, <2>5 DEF Mine
  <2>7. \A x \in Mine(Pending, event, j) : event'[x].type = event[x].type
    BY <2>5 DEF Mine
  <2> QED
    BY <2>3, <2>4, <2>6, <2>7, IodKept
<1>18. CallsOk(Pending', event')
  BY <1>3, <1>4, <1>5, <1>6, <1>7 DEF Inv, CallsOk
<1>19. TypeOK'
  <2>1. requests' \in 0 .. MaxRequests
    BY <1>1, HeldFinite
  <2>2. iod' \in [Iods -> Iod]
    <3>1. DOMAIN iod' = Iods /\ iod' = [j \in Iods |-> iod'[j]]
      BY <1>1 DEF Inv, TypeOK
    <3> QED
      BY <1>17, <3>1
  <2>3. \A k \in DOMAIN frames' : frames'[k] \in Frame
    BY <1>11, ElementOfSeq, LenProperties DEF FramesOk
  <2>4. TypeOK
    BY DEF Inv
  <2> QED
    BY <1>1, <1>2, <1>3, <2>1, <2>2, <2>3, <2>4 DEF TypeOK, Frame
<1>20. Inv'
  BY <1>2, <1>8, <1>9, <1>11, <1>12, <1>13, <1>14, <1>15, <1>16, <1>17, <1>18, <1>19 DEF Inv
<1> QED
  BY <1>20, <1>6, <1>7 DEF Kept

-------------------------------------------------------------------------------
(* Recycling. *)

\* The events of S have left the lists and the heap and are free.
Recycled(S) ==
  /\ ListsOk(lists', event') /\ HeapOk(lists', expirables', event')
  /\ Members(lists') = Members(lists) \ S /\ Held' = Held \ S
  /\ event' \in [Events -> Event]
  /\ \A e \in Events : e \notin S => event'[e] = event[e]
  /\ free_events' \in Seq(Events) /\ IsInjective(free_events')
  /\ ToSet(free_events') = ToSet(free_events) \cup S

\* nevent_unref() recycles the structures of the events it is given.
LEMMA UnrefRecycles ==
  ASSUME Inv, NEW es \in Seq(Events), IsInjective(es), ToSet(es) \cap ToSet(free_events) = {},
         NEW told, Unref(es, told)
  PROVE  /\ Recycled(ToSet(es))
         /\ \A e \in ToSet(es) : event'[e].calls = IF told /\ event[e].calls = 1 THEN 2 ELSE 0
<1> DEFINE S == ToSet(es)
           B(e) == [Blank EXCEPT !.calls = IF told /\ event[e].calls = 1 THEN 2 ELSE 0]
<1>1. /\ event' = [e \in Events |-> IF e \notin S THEN event[e] ELSE B(e)]
      /\ lists' = Stripped(lists, S)
      /\ expirables' = expirables \ S
      /\ free_events' = free_events \o es
  BY DEF Unref, Stripped
<1>2. S \subseteq Events
  BY LenProperties, ElementOfSeq DEF ToSet
<1>3. \A e : B(e) \in Event /\ B(e).calls = IF told /\ event[e].calls = 1 THEN 2 ELSE 0
  BY DEF Blank, Event, Types
<1> HIDE DEF S, B
<1>4. event \in [Events -> Event]
  BY DEF Inv, TypeOK
<1>5. /\ event' \in [Events -> Event] /\ \A e \in Events : e \notin S => event'[e] = event[e]
      /\ \A e \in S : event'[e] = B(e)
  BY <1>1, <1>2, <1>3, <1>4
<1>6. Held \subseteq Events /\ Held = Members(lists) \cup expirables
  BY HeldFinite, HeldIs
<1>7. ListsOk(lists', event') /\ Members(lists') = Members(lists) \ S
  <2>1. ListsOk(lists, event)
    BY DEF Inv
  <2>2. SameKind(Members(lists) \ S, event, event')
    BY <1>5, <1>6 DEF SameKind
  <2> QED
    BY <1>1, <2>1, <2>2, ListsWithout
<1>8. HeapOk(lists', expirables', event')
  <2>1. \A x \in expirables : x \in Events /\ (event[x].iod \in Iods => x \in Members(lists))
    BY DEF Inv, HeapOk
  <2> QED
    BY <1>1, <1>5, <1>7, <2>1 DEF HeapOk
<1>9. Held' = Held \ S
  <2>1. Held' = Members(lists') \cup expirables'
    BY DEF Held, Listed, Members
  <2> QED
    BY <1>1, <1>6, <1>7, <2>1
<1>10. /\ free_events' \in Seq(Events) /\ IsInjective(free_events')
       /\ ToSet(free_events') = ToSet(free_events) \cup S
  <2>1. free_events \in Seq(Events) /\ IsInjective(free_events)
    BY DEF Inv, Owned
  <2> QED
    BY <1>1, <2>1, ConcatSets DEF S
<1>11. Recycled(S)
  BY <1>5, <1>7, <1>8, <1>9, <1>10 DEF Recycled
<1>12. \A e \in S : event'[e].calls = IF told /\ event[e].calls = 1 THEN 2 ELSE 0
  BY <1>3, <1>5
<1> QED
  BY <1>11, <1>12 DEF S

\* Callers that cancel pending events of S, whose handlers have not been called.
LEMMA CancelKeeps ==
  ASSUME Inv, CallerRuns, NEW es \in Seq(Events), IsInjective(es), NEW told,
         Unref(es, told), ToSet(es) \subseteq Pending,
         UNCHANGED <<frames, phase, current, cursor, created, requests>>
  PROVE  /\ ListsOk(lists', event') /\ HeapOk(lists', expirables', event')
         /\ FramesOk(frames', event') /\ BottomOk(frames', Held', phase', cursor')
         /\ DoneOk(frames', Held', event')
         /\ Owned(Held', frames', free_events', created')
         /\ CursorOk(lists', phase', current', cursor')
         /\ CallsOk(Pending', event')
         /\ Pending' = Pending \ ToSet(es) /\ SameKind(Pending', event, event')
         /\ event' \in [Events -> Event] /\ Kept
<1> DEFINE S == ToSet(es)
<1>1. Held \subseteq Events /\ Pending \subseteq Held
  BY HeldFinite
<1>2. /\ ToSet(free_events) \cap (Held \cup Immediate(frames)) = {}
      /\ Held \cup Immediate(frames) \cup ToSet(free_events) = 1 .. created
      /\ Held \cap Immediate(frames) = {}
  BY DEF Inv, Owned
<1>3. Recycled(S) /\ \A e \in S : event'[e].calls = IF told /\ event[e].calls = 1 THEN 2 ELSE 0
  <2>1. S \cap ToSet(free_events) = {}
    BY <1>1, <1>2
  <2> QED
    BY <2>1, UnrefRecycles
<1>4. \A e \in S : e \in Events /\ ~event[e].done /\ event'[e].calls = 0
  <2>1. \A e \in S : e \in Events /\ ~event[e].done /\ event[e].calls = 0
    BY <1>1 DEF Inv, CallsOk, Pending
  <2> QED
    BY <1>3, <2>1
<1> HIDE DEF S
<1>5. /\ ListsOk(lists', event') /\ HeapOk(lists', expirables', event')
      /\ Members(lists') = Members(lists) \ S /\ Held' = Held \ S
      /\ event' \in [Events -> Event]
      /\ \A e \in Events : e \notin S => event'[e] = event[e]
  BY <1>3 DEF Recycled
<1>6. Pending' = Pending \ S /\ SameKind(Pending', event, event')
  <2>1. \A e \in Held \ S : event'[e] = event[e]
    BY <1>1, <1>5
  <2>2. Pending' = Pending \ S
    BY <1>5, <2>1 DEF Pending
  <2> QED
    BY <1>1, <2>1, <2>2 DEF SameKind
<1>7. \A k \in DOMAIN frames : /\ frames[k].event \in Events \ S
                               /\ event'[frames[k].event] = event[frames[k].event]
  <2>1. \A k \in DOMAIN frames : frames[k].event \in Events /\ event[frames[k].event].done
    BY FrameEvents
  <2> QED
    BY <1>4, <1>5, <2>1
<1>8. FramesOk(frames', event')
  BY <1>7 DEF Inv, FramesOk
<1>9. frames # <<>> => Len(frames) \in DOMAIN frames
  <2>1. frames \in Seq(Frame)
    BY DEF Inv, FramesOk
  <2> QED
    BY <2>1, LenProperties, EmptySeq
<1>10. BottomOk(frames', Held', phase', cursor')
  BY <1>5, <1>7, <1>9 DEF Inv, BottomOk
<1>11. DoneOk(frames', Held', event')
  BY <1>1, <1>5 DEF Inv, DoneOk
<1>12. Owned(Held', frames', free_events', created')
  <2>1. S \subseteq Held
    BY <1>1 DEF S
  <2> QED
    BY <1>2, <1>3, <2>1 DEF Owned, Recycled
<1>13. CursorOk(lists', phase', current', cursor')
  <2> SUFFICES ASSUME cursor # NoEvent
               PROVE  cursor \notin S
    BY <1>5 DEF Inv, CursorOk
  <2>1. phase = "iods"
    BY DEF Inv, CursorOk
  <2>2. frames # <<>>
    BY <2>1 DEF CallerRuns
  <2>3. frames[Len(frames)].event = cursor
    BY <2>1, <2>2 DEF Inv, BottomOk
  <2> QED
    BY <1>7, <1>9, <2>2, <2>3
<1>14. CallsOk(Pending', event')
  <2>1. \A e \in Events : event'[e].calls <= 1
    <3> SUFFICES ASSUME NEW e \in Events PROVE event'[e].calls <= 1
      OBVIOUS
    <3>1. CASE e \in S
      BY <1>4, <3>1
    <3>2. CASE e \notin S
      BY <1>5, <3>2 DEF Inv, CallsOk
    <3> QED
      BY <3>1, <3>2
  <2>2. \A e \in Pending' : e \in Pending /\ event'[e] = event[e]
    BY <1>1, <1>5, <1>6
  <2> QED
    BY <2>1, <2>2 DEF Inv, CallsOk
<1>15. Kept
  BY <1>1, <1>5, <1>6 DEF Kept
<1> QED
  BY <1>5, <1>6, <1>8, <1>10, <1>11, <1>12, <1>13, <1>14, <1>15 DEF S

\* The counters when one event e is pending no more.
LEMMA SettledCounts ==
  ASSUME Inv, NEW e \in Pending, NEW b \in BOOLEAN, Pending' = Pending \ {e},
         SameKind(Pending', event, event'), events_pending' = events_pending - 1,
         LET i == event[e].iod
         IN iod' = IF i = NoIod THEN iod
                   ELSE [iod EXCEPT ![i] = [Settled(iod[i], e) EXCEPT !.eof = b]]
  PROVE  /\ events_pending' = Cardinality(Pending') /\ events_pending' \in Nat
         /\ \A i \in Iods : IodExact(iod'[i], Pending', event', i)
         /\ iod' \in [Iods -> Iod]
<1> DEFINE i == event[e].iod
           W == Wants(event[e].type)
<1>1. Pending \subseteq Events /\ IsFiniteSet(Pending) /\ e \in Events
  BY HeldFinite
<1>2. event[e].type \in Types /\ i \in Iods \cup {NoIod}
  BY <1>1, EventFields
<1>3. IsFiniteSet(Pending') /\ Cardinality(Pending') = Cardinality(Pending) - 1
  BY <1>1, FS_RemoveElement
<1>4. events_pending' = Cardinality(Pending') /\ events_pending' \in Nat
  <2>1. events_pending = Cardinality(Pending)
    BY DEF Inv
  <2> QED
    BY <1>3, <2>1, FS_CardinalityType
<1>5. iod \in [Iods -> Iod] /\ DOMAIN iod' = Iods /\ iod' = [j \in Iods |-> iod'[j]]
  BY DEF Inv, TypeOK
<1>6. ASSUME NEW j \in Iods
      PROVE  IodExact(iod'[j], Pending', event', j) /\ iod'[j] \in Iod
  <2>1. iod[j] \in Iod /\ IodExact(iod[j], Pending, event, j)
    BY <1>5 DEF Inv
  <2>2. SameKind(Pending \ {e}, event, event')
    OBVIOUS
  <2>3. CASE j = i
    <3>1. iod'[j] = SettledIod(iod[j], W, b)
      BY <1>5, <2>3, ConstantsAssumption DEF Settled, SettledIod
    <3> DEFINE I == iod[j]
               J == iod'[j]
    <3>2. /\ J.readsd_count = Uncounted(I, W).readsd_count
          /\ J.writesd_count = Uncounted(I, W).writesd_count
          /\ J.watched = Uncounted(I, W).watched /\ J.events_pending = I.events_pending - 1
      <4>1. I \in Iod /\ J = SettledIod(I, W, b)
        BY <2>1, <3>1
      <4> HIDE DEF W, I, J
      <4> QED
        BY <4>1, SettledFields
    <3>3. IodExact(J, Pending \ {e}, event', j)
      <4> HIDE DEF I, J
      <4>1. I \in Iod /\ IodExact(I, Pending, event, j) /\ event[e].iod = j
        BY <2>1, <2>3 DEF I
      <4> QED
        BY <1>1, <1>2, <2>2, <3>2, <4>1, IodRemove
    <3>4. J \in Iod
      <4> HIDE DEF W
      <4> QED
        BY <1>3, <2>1, <3>1, <3>3, SettledType
    <3> QED
      BY <3>3, <3>4
  <2>4. CASE j # i
    <3>1. iod'[j] = iod[j]
      BY <1>5, <2>4
    <3>2. Mine(Pending', event', j) = Mine(Pending, event, j)
      BY <2>2, <2>4 DEF Mine, SameKind
    <3>3. \A x \in Mine(Pending, event, j) : event'[x].type = event[x].type
      BY <2>2, <2>4 DEF Mine, SameKind
    <3> QED
      BY <2>1, <3>1, <3>2, <3>3, IodKept
  <2> QED
    BY <2>3, <2>4
<1> QED
  BY <1>4, <1>5, <1>6

\* A sequence of one event.
LEMMA OneEvent ==
  ASSUME NEW e \in Events
  PROVE  <<e>> \in Seq(Events) /\ IsInjective(<<e>>) /\ ToSet(<<e>>) = {e}
BY DEF IsInjective, ToSet

\* Settled() leaves the end of the stream as it is.
LEMMA SettledKeepsEof ==
  ASSUME NEW I \in Iod, NEW W
  PROVE  LET J == [Uncounted(I, W) EXCEPT !.events_pending = @ - 1]
         IN J.eof = I.eof /\ J = SettledIod(I, W, I.eof)
<1>1. I = [state |-> I.state, active |-> I.active, registered |-> I.registered,
           watched |-> I.watched, readsd_count |-> I.readsd_count,
           writesd_count |-> I.writesd_count, events_pending |-> I.events_pending,
           eof |-> I.eof]
  BY DEF Iod
<1>2. PICK J : J = [Uncounted(I, W) EXCEPT !.events_pending = @ - 1]
  OBVIOUS
<1>3. J = [state |-> I.state, active |-> I.active, registered |-> I.registered,
           watched |-> J.watched, readsd_count |-> J.readsd_count,
           writesd_count |-> J.writesd_count, events_pending |-> J.events_pending,
           eof |-> I.eof]
  BY <1>1, <1>2 DEF Uncounted
<1>4. PICK w, r, s, n, b : w = J.watched /\ r = J.readsd_count /\ s = J.writesd_count
                           /\ n = J.events_pending /\ b = I.eof
  OBVIOUS
<1>5. J = [state |-> I.state, active |-> I.active, registered |-> I.registered,
           watched |-> w, readsd_count |-> r, writesd_count |-> s, events_pending |-> n,
           eof |-> b]
  BY <1>3, <1>4
<1>6. J.eof = b /\ [J EXCEPT !.eof = b] = J
  BY <1>5
<1> QED
  BY <1>2, <1>4, <1>6 DEF SettledIod

\* nsock_event_cancel() keeps the invariant.
LEMMA CancelInv ==
  ASSUME Inv, NEW e \in Events, NEW notify \in BOOLEAN, nsock_event_cancel(e, notify)
  PROVE  Inv' /\ Kept
<1> DEFINE i == event[e].iod
           I == Settled(iod[i], e)
<1>1. /\ CallerRuns /\ e \in Pending /\ Unref(<<e>>, notify)
      /\ events_pending' = events_pending - 1
      /\ i = NoIod => UNCHANGED <<iod, armed>>
      /\ i # NoIod => iod' = [iod EXCEPT ![i] = I] /\ armed' = Rearmed(i, I)
      /\ UNCHANGED <<phase, batch, current, mask, list, cursor, frames, created, quit, requests,
                     data, arrived, closed, writable>>
  BY DEF nsock_event_cancel, loop, kernel
<1>2. <<e>> \in Seq(Events) /\ IsInjective(<<e>>) /\ ToSet(<<e>>) = {e}
  BY OneEvent
<1>3. /\ ListsOk(lists', event') /\ HeapOk(lists', expirables', event')
      /\ FramesOk(frames', event') /\ BottomOk(frames', Held', phase', cursor')
      /\ DoneOk(frames', Held', event')
      /\ Owned(Held', frames', free_events', created')
      /\ CursorOk(lists', phase', current', cursor')
      /\ CallsOk(Pending', event')
      /\ Pending' = Pending \ {e} /\ SameKind(Pending', event, event')
      /\ event' \in [Events -> Event] /\ Kept
  <2>1. ToSet(<<e>>) \subseteq Pending
    BY <1>1, <1>2
  <2>2. UNCHANGED <<frames, phase, current, cursor, created, requests>>
    BY <1>1
  <2> QED
    BY <1>1, <1>2, <2>1, <2>2, CancelKeeps
<1>4. i \in Iods \cup {NoIod} /\ iod \in [Iods -> Iod]
  BY EventFields DEF Inv, TypeOK
<1>5. /\ events_pending' = Cardinality(Pending') /\ events_pending' \in Nat
      /\ \A j \in Iods : IodExact(iod'[j], Pending', event', j)
      /\ iod' \in [Iods -> Iod]
  <2>1. PICK b \in BOOLEAN :
          iod' = IF i = NoIod THEN iod
                 ELSE [iod EXCEPT ![i] = [Settled(iod[i], e) EXCEPT !.eof = b]]
    <3>1. CASE i = NoIod
      BY <1>1, <3>1
    <3>2. CASE i # NoIod
      <4>1. iod[i] \in Iod /\ iod[i].eof \in BOOLEAN
        BY <1>4, <3>2 DEF Iod
      <4>2. I = [I EXCEPT !.eof = iod[i].eof]
        BY <4>1, SettledKeepsEof DEF Settled, SettledIod
      <4> HIDE DEF I
      <4>3. iod' = [iod EXCEPT ![i] = [I EXCEPT !.eof = iod[i].eof]]
        BY <1>1, <3>2, <4>2
      <4> QED
        BY <3>2, <4>1, <4>3 DEF I
    <3> QED
      BY <3>1, <3>2
  <2> QED
    BY <1>1, <1>3, <2>1, SettledCounts
<1>6. TypeOK'
  <2>1. armed' \subseteq Iods
    BY <1>1, <1>4 DEF Inv, TypeOK, Rearmed
  <2>2. expirables' \subseteq Events /\ free_events' \in Seq(Events)
    BY <1>3 DEF HeapOk, Owned
  <2>3. \A j \in Iods, t \in Types : lists'[j][t] \in Seq(Events)
    BY <1>3 DEF ListsOk
  <2>4. TypeOK
    BY DEF Inv
  <2> HIDE DEF I
  <2> QED
    BY <1>1, <1>3, <1>5, <2>1, <2>2, <2>3, <2>4 DEF TypeOK
<1>7. created' <= requests'
  BY <1>1 DEF Inv
<1>8. Inv'
  BY <1>3, <1>5, <1>6, <1>7 DEF Inv
<1> QED
  BY <1>8, <1>3 DEF Kept

\* nsock_iod_delete() cancels exactly the pending events of the iod.
LEMMA OnIodIsMine ==
  ASSUME Inv, NEW i \in Iods
  PROVE  /\ OnIod(i) \in Seq(Events) /\ IsInjective(OnIod(i))
         /\ ToSet(OnIod(i)) = Mine(Pending, event, i)
<1> DEFINE a == lists[i]["CONNECT"]
           b == lists[i]["READ"]
           c == lists[i]["WRITE"]
           D == {e \in Events : event[e].done}
<1>1. /\ a \in Seq(Events) /\ IsInjective(a) /\ b \in Seq(Events) /\ IsInjective(b)
      /\ c \in Seq(Events) /\ IsInjective(c)
      /\ \A e \in ToSet(a) : event[e].iod = i /\ event[e].type = "CONNECT"
      /\ \A e \in ToSet(b) : event[e].iod = i /\ event[e].type = "READ"
      /\ \A e \in ToSet(c) : event[e].iod = i /\ event[e].type = "WRITE"
  BY DEF Inv, ListsOk, Types
<1>2. OnIod(i) = Without(a \o b \o c, D)
  BY DEF OnIod
<1>3. ToSet(a) \cup ToSet(b) \cup ToSet(c) = {e \in Members(lists) : event[e].iod = i}
  <2>1. ToSet(a) \cup ToSet(b) \cup ToSet(c) \subseteq {e \in Members(lists) : event[e].iod = i}
    BY <1>1, MembersOf DEF Types
  <2>2. ASSUME NEW e \in Members(lists), event[e].iod = i
        PROVE  e \in ToSet(a) \cup ToSet(b) \cup ToSet(c)
    <3>1. PICK j \in Iods, t \in Types : e \in ToSet(lists[j][t])
      BY MembersOf
    <3>2. j = i
      BY <2>2, <3>1 DEF Inv, ListsOk
    <3>3. ToSet(lists[i]["TIMER"]) = {}
      <4>1. lists[i]["TIMER"] = <<>> /\ <<>> \in Seq(Events)
        BY EmptySeq DEF Inv, ListsOk
      <4> QED
        BY <4>1, EmptySets
    <3> QED
      BY <3>1, <3>2, <3>3 DEF Types
  <2> QED
    BY <2>1, <2>2
<1> HIDE DEF a, b, c
<1>4. /\ a \o b \in Seq(Events) /\ ToSet(a \o b) = ToSet(a) \cup ToSet(b) /\ IsInjective(a \o b)
  <2>1. ToSet(a) \cap ToSet(b) = {}
    BY <1>1
  <2> QED
    BY <1>1, <2>1, ConcatSets
<1>5. PICK l \in Seq(Events) : /\ l = a \o b \o c /\ IsInjective(l)
                               /\ ToSet(l) = ToSet(a) \cup ToSet(b) \cup ToSet(c)
  <2>1. PICK m \in Seq(Events) : /\ m = a \o b /\ IsInjective(m)
                                 /\ ToSet(m) = ToSet(a) \cup ToSet(b)
    BY <1>4
  <2>2. /\ c \in Seq(Events) /\ IsInjective(m) /\ IsInjective(c)
        /\ ToSet(m) \cap ToSet(c) = {}
    BY <1>1, <2>1
  <2>3. /\ m \o c \in Seq(Events) /\ IsInjective(m \o c)
        /\ ToSet(m \o c) = ToSet(m) \cup ToSet(c)
    BY <2>2, ConcatSets
  <2> QED
    BY <2>1, <2>3
<1>6. /\ OnIod(i) \in Seq(Events) /\ IsInjective(OnIod(i))
      /\ ToSet(OnIod(i)) = (ToSet(a) \cup ToSet(b) \cup ToSet(c)) \ D
  <2>1. OnIod(i) = Without(l, D)
    BY <1>2, <1>5
  <2> HIDE DEF D
  <2>2. /\ Without(l, D) \in Seq(Events) /\ IsInjective(Without(l, D))
        /\ ToSet(Without(l, D)) = ToSet(l) \ D
    BY <1>5, WithoutProperties
  <2> QED
    BY <1>5, <2>1, <2>2
<1>7. Mine(Pending, event, i) = {e \in Members(lists) : event[e].iod = i} \ D
  <2>1. Held \subseteq Events /\ Held = Members(lists) \cup expirables
    BY HeldFinite, HeldIs
  <2>2. \A e \in expirables : event[e].iod = i => e \in Members(lists)
    BY DEF Inv, HeapOk
  <2> QED
    BY <2>1, <2>2 DEF Mine, Pending
<1> QED
  BY <1>3, <1>6, <1>7

\* The iod that was deleted, once its n pending events are cancelled.
DeletedIod(I, n) ==
  [I EXCEPT !.events_pending = @ - n, !.readsd_count = 0, !.writesd_count = 0,
            !.watched = {}, !.registered = FALSE, !.state = "DELETED"]

\* nsock_iod_delete() leaves no count behind.
LEMMA DeletedFields ==
  ASSUME NEW I \in Iod, NEW n \in Nat, I.events_pending = n
  PROVE  /\ DeletedIod(I, n) \in Iod /\ DeletedIod(I, n).events_pending = 0
         /\ DeletedIod(I, n).readsd_count = 0 /\ DeletedIod(I, n).writesd_count = 0
         /\ DeletedIod(I, n).watched = {}
<1>1. PICK m \in Nat : m = I.events_pending - n /\ m = 0
  OBVIOUS
<1>2. PICK J : J = [I EXCEPT !.events_pending = m, !.readsd_count = 0, !.writesd_count = 0,
                             !.watched = {}, !.registered = FALSE, !.state = "DELETED"]
  OBVIOUS
<1>3. J \in Iod
  BY <1>1, <1>2 DEF Iod
<1>4. J.events_pending = m /\ J.readsd_count = 0 /\ J.writesd_count = 0 /\ J.watched = {}
  BY <1>2 DEF Iod
<1>5. DeletedIod(I, n) = J
  BY <1>1, <1>2 DEF DeletedIod
<1> QED
  BY <1>1, <1>3, <1>4, <1>5

\* nsock_iod_delete() keeps the invariant.
LEMMA DeleteInv ==
  ASSUME Inv, NEW i \in Iods, NEW notify \in BOOLEAN, nsock_iod_delete(i, notify)
  PROVE  Inv' /\ Kept
<1> DEFINE es == OnIod(i)
           S == ToSet(es)
           n == Len(es)
           J == DeletedIod(iod[i], n)
<1>1. /\ CallerRuns /\ Unref(es, notify)
      /\ events_pending' = events_pending - n
      /\ iod' = [iod EXCEPT ![i] = J]
      /\ armed' = armed \ {i}
      /\ UNCHANGED <<phase, batch, current, mask, list, cursor, frames, created, quit, requests,
                     data, arrived, closed, writable>>
  <2>1. iod' = [iod EXCEPT ![i] = J]
    BY DEF nsock_iod_delete, DeletedIod
  <2>2. /\ CallerRuns /\ Unref(es, notify)
        /\ events_pending' = events_pending - n
        /\ armed' = armed \ {i}
        /\ UNCHANGED <<loop, frames, created, quit, requests, kernel>>
    BY DEF nsock_iod_delete
  <2> QED
    BY <2>1, <2>2 DEF loop, kernel
<1>2. es \in Seq(Events) /\ IsInjective(es) /\ S = Mine(Pending, event, i)
  BY OnIodIsMine
<1>3. S \subseteq Pending /\ IsFiniteSet(Pending)
  BY <1>2, HeldFinite DEF Mine
<1>4. /\ ListsOk(lists', event') /\ HeapOk(lists', expirables', event')
      /\ FramesOk(frames', event') /\ BottomOk(frames', Held', phase', cursor')
      /\ DoneOk(frames', Held', event')
      /\ Owned(Held', frames', free_events', created')
      /\ CursorOk(lists', phase', current', cursor')
      /\ CallsOk(Pending', event')
      /\ Pending' = Pending \ S /\ SameKind(Pending', event, event')
      /\ event' \in [Events -> Event] /\ Kept
  <2>1. UNCHANGED <<frames, phase, current, cursor, created, requests>>
    BY <1>1
  <2> HIDE DEF es
  <2> QED
    BY <1>1, <1>2, <1>3, <2>1, CancelKeeps
<1>5. n \in Nat /\ IsFiniteSet(S) /\ Cardinality(S) = n
  <2> HIDE DEF es
  <2> QED
    BY <1>2, LenIsCardinality, LenProperties
<1> HIDE DEF es, S, n
<1>6. events_pending' = Cardinality(Pending') /\ events_pending' \in Nat
  <2>1. events_pending = Cardinality(Pending)
    BY DEF Inv
  <2>2. Pending \cap S = S
    BY <1>3
  <2>3. IsFiniteSet(Pending \ S) /\ Cardinality(Pending \ S) = Cardinality(Pending) - n
    BY <1>3, <1>5, <2>2, FS_Difference
  <2> QED
    BY <1>1, <1>4, <2>1, <2>3, FS_CardinalityType
<1>7. iod \in [Iods -> Iod] /\ DOMAIN iod' = Iods /\ iod' = [j \in Iods |-> iod'[j]]
  BY <1>1 DEF Inv, TypeOK
<1>8. ASSUME NEW j \in Iods
      PROVE  IodExact(iod'[j], Pending', event', j) /\ iod'[j] \in Iod
  <2>1. iod[j] \in Iod /\ IodExact(iod[j], Pending, event, j)
    BY <1>7 DEF Inv
  <2>2. CASE j = i
    <3>1. iod'[j] = J
      BY <1>1, <1>7, <2>2
    <3>2. iod[j].events_pending = n
      BY <1>2, <1>5, <2>1, <2>2 DEF IodExact
    <3>4. /\ J \in Iod /\ J.events_pending = 0 /\ J.readsd_count = 0 /\ J.writesd_count = 0
          /\ J.watched = {}
      BY <1>5, <2>1, <2>2, <3>2, DeletedFields
    <3>5. Mine(Pending', event', j) = {}
      BY <1>2, <1>4, <2>2 DEF Mine, SameKind
    <3>6. \A w : Waiting(Pending', event', j, w) = {}
      BY <3>5 DEF Waiting
    <3>7. Cardinality({}) = 0
      BY FS_EmptySet
    <3> HIDE DEF J
    <3> QED
      BY <3>1, <3>4, <3>5, <3>6, <3>7 DEF IodExact
  <2>3. CASE j # i
    <3>1. iod'[j] = iod[j]
      BY <1>1, <1>7, <2>3
    <3>2. \A x \in Mine(Pending, event, j) : x \notin S
      BY <1>2, <2>3 DEF Mine
    <3>3. Mine(Pending', event', j) = Mine(Pending, event, j)
      BY <1>4, <3>2 DEF Mine, SameKind
    <3>4. \A x \in Mine(Pending, event, j) : event'[x].type = event[x].type
      BY <1>4, <3>2 DEF Mine, SameKind
    <3> QED
      BY <2>1, <3>1, <3>3, <3>4, IodKept
  <2> QED
    BY <2>2, <2>3
<1> HIDE DEF J
<1>9. TypeOK'
  <2>1. armed' \subseteq Iods
    BY <1>1 DEF Inv, TypeOK
  <2>2. expirables' \subseteq Events /\ free_events' \in Seq(Events)
    BY <1>4 DEF HeapOk, Owned
  <2>3. \A j \in Iods, t \in Types : lists'[j][t] \in Seq(Events)
    BY <1>4 DEF ListsOk
  <2>4. iod' \in [Iods -> Iod]
    BY <1>7, <1>8
  <2>5. TypeOK
    BY DEF Inv
  <2> QED
    BY <1>1, <1>4, <1>6, <2>1, <2>2, <2>3, <2>4, <2>5 DEF TypeOK
<1>10. created' <= requests'
  BY <1>1 DEF Inv
<1>11. Inv'
  BY <1>4, <1>6, <1>8, <1>9, <1>10 DEF Inv
<1> QED
  BY <1>11, <1>4 DEF Kept

-------------------------------------------------------------------------------
(* The loop. *)

\* A step that changes nothing of the events but the need of a read and what is due.
LEMMA QuietInv ==
  ASSUME Inv,
         UNCHANGED <<lists, expirables, free_events, created, events_pending, frames>>,
         requests <= requests', requests' \in Nat,
         \A e \in Events : /\ event'[e].iod = event[e].iod /\ event'[e].type = event[e].type
                           /\ event'[e].done = event[e].done /\ event'[e].calls = event[e].calls,
         \A e \in Pending : event[e].type = "READ" => event'[e].need > 0,
         \A i \in Iods : /\ iod'[i].events_pending = iod[i].events_pending
                         /\ iod'[i].readsd_count = iod[i].readsd_count
                         /\ iod'[i].writesd_count = iod[i].writesd_count
                         /\ iod'[i].watched = iod[i].watched,
         BottomOk(frames, Held, phase', cursor'),
         CursorOk(lists, phase', current', cursor'), TypeOK'
  PROVE  Inv'
<1>1. Held \subseteq Events /\ Pending \subseteq Events
  BY HeldFinite
<1>2. Held' = Held
  BY DEF Held, Listed
<1>3. Pending' = Pending
  BY <1>1, <1>2 DEF Pending
<1>4. ListsOk(lists', event')
  <2>1. ListsOk(lists, event) /\ SameKind(Members(lists), event, event')
    BY <1>1, HeldIs DEF Inv, SameKind
  <2> QED
    BY <2>1, ListsSame
<1>5. HeapOk(lists', expirables', event')
  BY DEF Inv, HeapOk
<1>6. FramesOk(frames', event')
  <2>1. \A k \in DOMAIN frames : frames[k].event \in Events
    BY FrameEvents
  <2> QED
    BY <2>1 DEF Inv, FramesOk
<1>7. DoneOk(frames', Held', event')
  BY <1>1, <1>2 DEF Inv, DoneOk
<1>8. Owned(Held', frames', free_events', created')
  BY <1>2 DEF Inv
<1>9. created' <= requests'
  BY HeldFinite DEF Inv
<1>10. ASSUME NEW i \in Iods
       PROVE  IodExact(iod'[i], Pending', event', i)
  <2>1. IodExact(iod'[i], Pending, event, i)
    BY DEF Inv, IodExact
  <2>2. Mine(Pending', event', i) = Mine(Pending, event, i)
    BY <1>1, <1>3 DEF Mine
  <2>3. \A x \in Mine(Pending, event, i) : event'[x].type = event[x].type
    BY <1>1 DEF Mine
  <2> QED
    BY <2>1, <2>2, <2>3, IodKept
<1>11. CallsOk(Pending', event')
  BY <1>1, <1>3 DEF Inv, CallsOk
<1>12. BottomOk(frames', Held', phase', cursor') /\ CursorOk(lists', phase', current', cursor')
  BY <1>2
<1>13. events_pending' = Cardinality(Pending')
  BY <1>3 DEF Inv
<1> QED
  BY <1>4, <1>5, <1>6, <1>7, <1>8, <1>9, <1>10, <1>11, <1>12, <1>13 DEF Inv

\* The same for a step that changes no event and no iod.
LEMMA QuietStep ==
  ASSUME Inv, UNCHANGED pool, UNCHANGED frames, requests <= requests', requests' \in Nat,
         BottomOk(frames, Held, phase', cursor'),
         CursorOk(lists, phase', current', cursor'), TypeOK'
  PROVE  Inv'
<1>1. UNCHANGED <<event, lists, expirables, free_events, created, events_pending, iod>>
  BY DEF pool
<1>2. \A e \in Pending : event[e].type = "READ" => event[e].need > 0
  BY DEF Inv, CallsOk
<1> QED
  BY <1>1, <1>2, QuietInv

\* The handler of an event that was pending is called, from the loop.
LEMMA DeliverInv ==
  ASSUME Inv, NEW e \in Held, NEW kind, NEW ended \in BOOLEAN, Deliver(e, kind, ended),
         frames = <<>>,
         \/ kind = "loop" /\ phase = "iods" /\ e = cursor
         \/ kind = "expired" /\ phase = "expired",
         UNCHANGED <<phase, batch, current, mask, list, quit, requests, arrived, closed>>,
         data' \in [Iods -> Nat], writable' \subseteq Iods
  PROVE  Inv' /\ Held' = Held /\ Pending' = Pending \ {e} /\ SameKind(Held, event, event')
<1> DEFINE i == event[e].iod
           I == Settled(iod[i], e)
           f == [kind |-> kind, event |-> e]
           R == [event[e] EXCEPT !.done = TRUE, !.calls = @ + 1]
<1>1. /\ events_pending' = events_pending - 1
      /\ event' = [event EXCEPT ![e] = R]
      /\ i = NoIod => UNCHANGED <<iod, armed>>
      /\ i # NoIod => iod' = [iod EXCEPT ![i] = [I EXCEPT !.eof = @ \/ ended]] /\ armed' = Rearmed(i, I)
      /\ frames' = <<f>> \o frames
      /\ UNCHANGED <<cursor, lists, expirables, free_events, created>>
  BY DEF Deliver
<1>2. e \in Pending /\ e \in Events /\ Held \subseteq Events /\ Pending \subseteq Held
  BY HeldIsPending, HeldFinite
<1>3. event[e].calls = 0 /\ event[e] \in Event /\ event \in [Events -> Event]
  BY <1>2, EventFields DEF Inv, CallsOk
<1>4. /\ R \in Event /\ R.done = TRUE /\ R.calls = 1 /\ R.iod = event[e].iod
      /\ R.type = event[e].type
  <2>1. PICK r \in Event : r = event[e] /\ r.calls = 0
    BY <1>3
  <2>2. PICK c \in Nat : c = r.calls + 1 /\ c = 1
    BY <2>1
  <2>3. R = [r EXCEPT !.done = TRUE, !.calls = c]
    BY <2>1, <2>2
  <2>4. /\ [r EXCEPT !.done = TRUE, !.calls = c] \in Event
        /\ [r EXCEPT !.done = TRUE, !.calls = c].done = TRUE
        /\ [r EXCEPT !.done = TRUE, !.calls = c].calls = c
        /\ [r EXCEPT !.done = TRUE, !.calls = c].iod = r.iod
        /\ [r EXCEPT !.done = TRUE, !.calls = c].type = r.type
    BY DEF Event
  <2> QED
    BY <2>1, <2>2, <2>3, <2>4
<1> HIDE DEF R
<1>5. /\ event' \in [Events -> Event] /\ event'[e] = R
      /\ \A x \in Events \ {e} : event'[x] = event[x]
  BY <1>1, <1>2, <1>3, <1>4
<1>6. Held' = Held /\ Pending' = Pending \ {e}
  <2>1. Held' = Held
    BY <1>1 DEF Held, Listed
  <2> QED
    BY <1>2, <1>4, <1>5, <2>1 DEF Pending
<1>7. SameKind(Held, event, event')
  BY <1>2, <1>4, <1>5 DEF SameKind
<1>8. ListsOk(lists', event')
  <2>1. ListsOk(lists, event) /\ SameKind(Members(lists), event, event')
    BY <1>7, HeldIs DEF Inv, SameKind
  <2> QED
    BY <1>1, <2>1, ListsSame
<1>9. HeapOk(lists', expirables', event')
  <2>1. \A x \in expirables : x \in Held
    BY HeldIs
  <2> QED
    BY <1>1, <1>7, <2>1 DEF Inv, HeapOk, SameKind
<1>10. /\ f \in Frame /\ f.event = e /\ f.kind = kind /\ FramesOk(frames, event)
       /\ Untouched(frames, e, event, event') /\ event'[e].done
  <2>1. f \in Frame
    BY <1>2 DEF Frame
  <2>2. DOMAIN frames = {}
    BY EmptySeq, LenProperties
  <2> QED
    BY <1>4, <1>5, <2>1, <2>2 DEF Inv, Untouched
<1> HIDE DEF f
<1>11. /\ FramesOk(frames', event') /\ frames' # <<>>
       /\ frames'[Len(frames')] = f
       /\ Immediate(frames') = Immediate(frames)
       /\ \E k \in DOMAIN frames' : frames'[k].event = e
  <2>1. OnTop(f, frames, <<f>> \o frames, event')
    BY <1>10, FramePush
  <2>2. kind # "immediate"
    OBVIOUS
  <2> QED
    BY <1>1, <1>10, <2>1, <2>2, ZenonT(60) DEF OnTop
<1>12. BottomOk(frames', Held', phase', cursor')
  BY <1>1, <1>6, <1>10, <1>11 DEF BottomOk
<1>13. DoneOk(frames', Held', event')
  <2>1. \A x \in Held : x # e => ~event'[x].done
    BY <1>2, <1>5, HeldIsPending DEF Pending
  <2> QED
    BY <1>6, <1>11, <2>1 DEF DoneOk
<1>14. Owned(Held', frames', free_events', created')
  BY <1>1, <1>6, <1>11 DEF Inv, Owned
<1>15. CursorOk(lists', phase', current', cursor')
  BY <1>1 DEF Inv, CursorOk
<1>16. /\ events_pending' = Cardinality(Pending') /\ events_pending' \in Nat
       /\ \A j \in Iods : IodExact(iod'[j], Pending', event', j)
       /\ iod' \in [Iods -> Iod]
  <2>1. PICK b \in BOOLEAN :
          iod' = IF i = NoIod THEN iod
                 ELSE [iod EXCEPT ![i] = [Settled(iod[i], e) EXCEPT !.eof = b]]
    <3>1. CASE i = NoIod
      BY <1>1, <3>1
    <3>2. CASE i # NoIod
      <4>1. iod[i] \in Iod /\ iod[i].eof \in BOOLEAN
        BY <1>2, <3>2, EventFields DEF Inv, TypeOK, Iod
      <4>2. I.eof = iod[i].eof
        BY <4>1, SettledKeepsEof DEF Settled
      <4> HIDE DEF I
      <4>3. PICK b \in BOOLEAN : b = (I.eof \/ ended)
        BY <4>1, <4>2
      <4>4. iod' = [iod EXCEPT ![i] = [I EXCEPT !.eof = b]]
        BY <1>1, <3>2, <4>3
      <4> QED
        BY <3>2, <4>4 DEF I
    <3> QED
      BY <3>1, <3>2
  <2>2. SameKind(Pending', event, event')
    BY <1>2, <1>6, <1>7 DEF SameKind
  <2> QED
    BY <1>1, <1>2, <1>6, <2>1, <2>2, SettledCounts
<1>17. CallsOk(Pending', event')
  BY <1>2, <1>4, <1>5, <1>6 DEF Inv, CallsOk
<1>18. TypeOK'
  <2>1. armed' \subseteq Iods
    BY <1>1, <1>2, EventFields DEF Inv, TypeOK, Rearmed
  <2>2. \A k \in DOMAIN frames' : frames'[k] \in Frame
    BY <1>11, ElementOfSeq, LenProperties DEF FramesOk
  <2>3. TypeOK
    BY DEF Inv
  <2> HIDE DEF I
  <2> QED
    BY <1>1, <1>5, <1>16, <2>1, <2>2, <2>3 DEF TypeOK, Frame
<1>19. created' <= requests'
  BY <1>1 DEF Inv
<1>20. Inv'
  BY <1>8, <1>9, <1>11, <1>12, <1>13, <1>14, <1>15, <1>16, <1>17, <1>18, <1>19 DEF Inv
<1> QED
  BY <1>20, <1>6, <1>7

\* A handler returns to the loop or to the call that answered at once.
LEMMA HandlerReturnsInv ==
  ASSUME Inv, HandlerReturns
  PROVE  Inv' /\ Kept /\ Pending' = Pending
<1> DEFINE f == Head(frames)
           e == f.event
           n == Len(frames)
<1>1. /\ frames # <<>> /\ frames' = Tail(frames)
      /\ cursor' = IF f.kind = "loop" THEN After(e) ELSE cursor
      /\ Unref(<<e>>, FALSE)
      /\ UNCHANGED <<phase, batch, current, mask, list, created, events_pending, iod,
                     quit, requests, data, arrived, closed, writable, armed>>
  BY DEF HandlerReturns, Running, kernel
<1>2. frames \in Seq(Frame) /\ n \in Nat /\ n # 0 /\ DOMAIN frames = 1 .. n
  BY <1>1, LenProperties, EmptySeq DEF Inv, FramesOk
<1>3. /\ Tail(frames) \in Seq(Frame) /\ f = frames[1] /\ 1 \in DOMAIN frames
      /\ Len(Tail(frames)) = n - 1
      /\ \A k \in DOMAIN Tail(frames) : k + 1 \in DOMAIN frames /\ Tail(frames)[k] = frames[k + 1]
      /\ \A k \in DOMAIN frames : k # 1 => k - 1 \in DOMAIN Tail(frames) /\ Tail(frames)[k - 1] = frames[k]
  BY <1>1, <1>2, TailSets
<1>4. /\ f \in Frame /\ e \in Events /\ event[e].done /\ e \in Held \cup Immediate(frames)
      /\ e \notin Pending
  BY <1>3, FrameEvents
<1> HIDE DEF f, n
<1>5. /\ \A k \in DOMAIN frames : k # 1 => frames[k].event # e
      /\ \A k \in DOMAIN frames : k < n => frames[k].kind = "immediate"
  BY <1>3 DEF Inv, FramesOk, n
<1>6. /\ ToSet(free_events) \cap (Held \cup Immediate(frames)) = {}
      /\ Held \cup Immediate(frames) \cup ToSet(free_events) = 1 .. created
      /\ Held \cap Immediate(frames) = {}
  BY DEF Inv, Owned
<1>7. Recycled({e}) /\ event'[e].calls = 0
  <2>1. <<e>> \in Seq(Events) /\ IsInjective(<<e>>) /\ ToSet(<<e>>) = {e}
    BY <1>4, OneEvent
  <2>2. ToSet(<<e>>) \cap ToSet(free_events) = {}
    BY <1>4, <1>6, <2>1
  <2>3. /\ Recycled(ToSet(<<e>>))
        /\ \A x \in ToSet(<<e>>) : event'[x].calls = IF FALSE /\ event[x].calls = 1 THEN 2 ELSE 0
    BY <1>1, <2>1, <2>2, UnrefRecycles
  <2> QED
    BY <2>1, <2>3
<1>8. /\ ListsOk(lists', event') /\ HeapOk(lists', expirables', event')
      /\ Members(lists') = Members(lists) \ {e} /\ Held' = Held \ {e}
      /\ event' \in [Events -> Event]
      /\ \A x \in Events : x # e => event'[x] = event[x]
      /\ free_events' \in Seq(Events) /\ IsInjective(free_events')
      /\ ToSet(free_events') = ToSet(free_events) \cup {e}
  BY <1>7 DEF Recycled
<1>9. Held \subseteq Events /\ Members(lists) \subseteq Held
  BY HeldFinite, HeldIs
<1>10. Pending' = Pending /\ \A x \in Pending : event'[x] = event[x]
  <2>1. \A x \in Held \ {e} : event'[x] = event[x]
    BY <1>8, <1>9
  <2> QED
    BY <1>4, <1>8, <2>1 DEF Pending
<1>11. \A k \in DOMAIN Tail(frames) :
         /\ k \in Int /\ k + 1 \in DOMAIN frames /\ Tail(frames)[k] = frames[k + 1]
         /\ frames[k + 1].event # e /\ frames[k + 1].event \in Events
         /\ event'[frames[k + 1].event] = event[frames[k + 1].event]
  <2>1. DOMAIN Tail(frames) = 1 .. n - 1
    BY <1>2, <1>3, LenProperties
  <2>2. \A k \in DOMAIN Tail(frames) : k \in Int /\ k + 1 # 1
    BY <1>2, <2>1
  <2>3. \A k \in DOMAIN frames : frames[k].event \in Events
    BY FrameEvents
  <2> QED
    BY <1>3, <1>5, <1>8, <2>2, <2>3
<1>12. FramesOk(frames', event')
  <2>1. \A k \in DOMAIN frames' : event'[frames'[k].event].done
    BY <1>1, <1>11 DEF Inv, FramesOk
  <2>2. ASSUME NEW j \in DOMAIN frames', NEW k \in DOMAIN frames',
               frames'[j].event = frames'[k].event
        PROVE  j = k
    <3>1. /\ j + 1 \in DOMAIN frames /\ k + 1 \in DOMAIN frames /\ j \in Int /\ k \in Int
          /\ frames[j + 1].event = frames[k + 1].event
      BY <1>1, <1>11, <2>2
    <3>2. j + 1 = k + 1
      BY <3>1 DEF Inv, FramesOk
    <3> QED
      BY <3>1, <3>2
  <2>3. \A k \in DOMAIN frames' : k < Len(frames') => frames'[k].kind = "immediate"
    <3>1. \A k \in DOMAIN frames' : k < n - 1 => k + 1 < n
      BY <1>1, <1>2, <1>11
    <3> QED
      BY <1>1, <1>3, <1>5, <1>11, <3>1
  <2> QED
    BY <1>1, <1>3, <2>1, <2>2, <2>3 DEF FramesOk
<1>13. frames' # <<>> => /\ f.kind = "immediate" /\ frames[n].event # e
                         /\ frames'[Len(frames')] = frames[n]
  <2> HAVE frames' # <<>>
  <2>1. Len(frames') # 0 /\ Len(frames') = n - 1
    BY <1>1, <1>3, EmptySeq
  <2>2. n > 1 /\ n \in DOMAIN frames /\ n # 1
    BY <1>2, <2>1
  <2>3. f.kind = "immediate"
    BY <1>3, <1>5, <2>2
  <2> QED
    BY <1>1, <1>3, <1>5, <2>1, <2>2, <2>3
<1>14. BottomOk(frames', Held', phase', cursor')
  <2> SUFFICES ASSUME frames' # <<>> PROVE BottomOk(frames', Held', phase', cursor')
    BY DEF BottomOk
  <2>1. cursor' = cursor
    BY <1>1, <1>13
  <2>2. BottomOk(frames, Held, phase, cursor)
    BY DEF Inv
  <2> QED
    BY <1>1, <1>8, <1>13, <2>1, <2>2 DEF BottomOk, n
<1>15. DoneOk(frames', Held', event')
  <2> SUFFICES ASSUME NEW x \in Held', event'[x].done
               PROVE  \E k \in DOMAIN frames' : frames'[k].event = x
    BY DEF DoneOk
  <2>1. x \in Held /\ x # e /\ event[x].done
    BY <1>8, <1>9
  <2>2. PICK k \in DOMAIN frames : frames[k].event = x
    BY <2>1 DEF Inv, DoneOk
  <2>3. k # 1
    BY <1>3, <2>1, <2>2
  <2> QED
    BY <1>1, <1>3, <2>2, <2>3
<1>16. Immediate(frames') = Immediate(frames) \ {e}
  <2>1. ASSUME NEW x \in Immediate(frames')
        PROVE  x \in Immediate(frames) \ {e}
    <3>1. PICK k \in DOMAIN frames' : frames'[k].kind = "immediate" /\ frames'[k].event = x
      BY DEF Immediate
    <3> QED
      BY <1>1, <1>11, <3>1 DEF Immediate
  <2>2. ASSUME NEW x \in Immediate(frames) \ {e}
        PROVE  x \in Immediate(frames')
    <3>1. PICK k \in DOMAIN frames : frames[k].kind = "immediate" /\ frames[k].event = x
      BY DEF Immediate
    <3>2. k # 1
      BY <1>3, <3>1
    <3> QED
      BY <1>1, <1>3, <3>1, <3>2 DEF Immediate
  <2> QED
    BY <2>1, <2>2
<1>17. Owned(Held', frames', free_events', created')
  BY <1>1, <1>4, <1>6, <1>8, <1>16 DEF Owned
<1>18. CursorOk(lists', phase', current', cursor')
  <2> SUFFICES ASSUME cursor' # NoEvent
               PROVE  phase = "iods" /\ current # NoIod /\ cursor' \in Members(lists) \ {e}
    BY <1>1, <1>8 DEF CursorOk
  <2>1. CASE f.kind = "loop"
    <3>1. n = 1
      BY <1>2, <1>3, <1>5, <2>1
    <3>2. phase = "iods" /\ e = cursor
      BY <1>1, <1>3, <2>1, <3>1 DEF Inv, BottomOk, n
    <3>3. current # NoIod /\ e \in Members(lists)
      BY <1>4, <3>2, NoEventIsNone DEF Inv, CursorOk
    <3> QED
      BY <1>1, <2>1, <3>2, <3>3, AfterIsListed
  <2>2. CASE f.kind # "loop"
    <3>1. cursor' = cursor /\ phase = "iods" /\ current # NoIod /\ cursor \in Members(lists)
      BY <1>1, <2>2 DEF Inv, CursorOk
    <3>2. f.kind = "immediate"
      <4> SUFFICES ASSUME f.kind # "immediate" PROVE FALSE
        OBVIOUS
      <4>1. n = 1
        BY <1>2, <1>3, <1>5
      <4> QED
        BY <1>1, <1>3, <2>2, <3>1, <4>1 DEF Inv, BottomOk, n
    <3>3. e \in Immediate(frames)
      BY <1>3, <3>2 DEF Immediate
    <3> QED
      BY <1>6, <1>9, <3>1, <3>3
  <2> QED
    BY <2>1, <2>2
<1>19. events_pending' = Cardinality(Pending')
  BY <1>1, <1>10 DEF Inv
<1>20. ASSUME NEW j \in Iods
       PROVE  IodExact(iod'[j], Pending', event', j)
  <2>1. IodExact(iod'[j], Pending, event, j)
    BY <1>1 DEF Inv
  <2>2. Mine(Pending', event', j) = Mine(Pending, event, j)
    BY <1>10 DEF Mine
  <2>3. \A x \in Mine(Pending, event, j) : event'[x].type = event[x].type
    BY <1>10 DEF Mine
  <2> QED
    BY <2>1, <2>2, <2>3, IodKept
<1>21. CallsOk(Pending', event')
  <2>1. \A x \in Events : event'[x].calls <= 1
    BY <1>7, <1>8 DEF Inv, CallsOk
  <2> QED
    BY <1>10, <2>1 DEF Inv, CallsOk
<1>22. TypeOK'
  <2>1. cursor' \in Events \cup {NoEvent}
    <3>1. cursor' # NoEvent => cursor' \in Members(lists')
      BY <1>18 DEF CursorOk
    <3> QED
      BY <1>8, <1>9, <3>1
  <2>2. expirables' \subseteq Events
    BY <1>8 DEF HeapOk
  <2>3. \A j \in Iods, t \in Types : lists'[j][t] \in Seq(Events)
    BY <1>8 DEF ListsOk
  <2>4. \A k \in DOMAIN frames' : frames'[k] \in Frame
    BY <1>12, ElementOfSeq, LenProperties DEF FramesOk
  <2>5. TypeOK
    BY DEF Inv
  <2> QED
    BY <1>1, <1>8, <2>1, <2>2, <2>3, <2>4, <2>5 DEF TypeOK, Frame
<1>23. created' <= requests'
  BY <1>1 DEF Inv
<1>24. Inv'
  BY <1>8, <1>12, <1>14, <1>15, <1>17, <1>18, <1>19, <1>20, <1>21, <1>22, <1>23 DEF Inv
<1> QED
  BY <1>24, <1>8, <1>9, <1>10 DEF Kept

\* An event that is passed over.
LEMMA PassOverInv ==
  ASSUME Inv, NEW need \in Nat, PassOver(need), frames = <<>>, cursor # NoEvent,
         event[cursor].type = "READ" => need > 0,
         UNCHANGED <<phase, batch, current, mask, list, quit, requests, arrived, closed>>,
         data' \in [Iods -> Nat], writable' \subseteq Iods
  PROVE  Inv'
<1>1. /\ event' = [event EXCEPT ![cursor].need = need] /\ cursor' = After(cursor)
      /\ UNCHANGED <<frames, lists, expirables, free_events, created, events_pending, iod, armed>>
  BY DEF PassOver
<1>2. cursor \in Members(lists) /\ phase = "iods" /\ current # NoIod
  BY DEF Inv, CursorOk
<1>3. cursor \in Events /\ Members(lists) \subseteq Events /\ Pending \subseteq Events
  BY <1>2, HeldFinite, HeldIs
<1>4. /\ event \in [Events -> Event] /\ event' \in [Events -> Event]
      /\ \A e \in Events : /\ event'[e].iod = event[e].iod /\ event'[e].type = event[e].type
                           /\ event'[e].done = event[e].done /\ event'[e].calls = event[e].calls
      /\ event'[cursor].need = need /\ \A e \in Events \ {cursor} : event'[e] = event[e]
  <2>1. event \in [Events -> Event]
    BY DEF Inv, TypeOK
  <2>2. event' = [event EXCEPT ![cursor] = [event[cursor] EXCEPT !.need = need]]
    BY <1>1, <1>3, <2>1
  <2> QED
    BY <1>3, <2>1, <2>2 DEF Event
<1>5. \A e \in Pending : event[e].type = "READ" => event'[e].need > 0
  BY <1>3, <1>4 DEF Inv, CallsOk
<1>6. CursorOk(lists, phase', current', cursor')
  BY <1>1, <1>2, AfterIsListed DEF CursorOk
<1>7. BottomOk(frames, Held, phase', cursor')
  BY DEF BottomOk
<1>8. TypeOK'
  <2>1. cursor' \in Events \cup {NoEvent}
    BY <1>3, <1>6 DEF CursorOk
  <2>2. TypeOK
    BY DEF Inv
  <2> QED
    BY <1>1, <1>4, <2>1, <2>2 DEF TypeOK
<1>9. requests <= requests' /\ requests' \in Nat
  BY HeldFinite
<1> QED
  BY <1>1, <1>4, <1>5, <1>6, <1>7, <1>8, <1>9, QuietInv

\* Calls of the callers keep the invariant.
LEMMA CallInv ==
  ASSUME Inv, Call
  PROVE  Inv'
<1>1. CASE nsock_timer_create
  <2>1. Request("TIMER", NoIod, 0, TRUE, FALSE)
    BY <1>1 DEF nsock_timer_create
  <2> QED
    BY <2>1, RequestWaits DEF Types
<1>2. CASE nsock_loop_quit
  <2>1. UNCHANGED <<loop, frames, pool, kernel, armed>> /\ requests < MaxRequests
        /\ requests' = requests + 1 /\ quit' = TRUE
    BY <1>2 DEF nsock_loop_quit
  <2>2. requests <= requests' /\ requests' \in 0 .. MaxRequests
    BY <2>1, HeldFinite
  <2>3. TypeOK'
    BY <2>1, <2>2 DEF Inv, TypeOK, loop, pool, kernel
  <2>4. BottomOk(frames, Held, phase', cursor') /\ CursorOk(lists, phase', current', cursor')
    BY <2>1 DEF Inv, loop
  <2> QED
    BY <2>1, <2>2, <2>3, <2>4, QuietStep DEF pool
<1>3. ASSUME NEW i \in Iods, NEW b \in BOOLEAN, NEW atOnce \in BOOLEAN, nsock_connect(i, b, atOnce)
      PROVE  Inv'
  <2>1. Request("CONNECT", i, 0, b, atOnce)
    BY <1>3 DEF nsock_connect
  <2>2. CASE atOnce = TRUE
    BY <2>1, <2>2, RequestAtOnce DEF Types
  <2>3. CASE atOnce = FALSE
    BY <2>1, <2>3, RequestWaits DEF Types
  <2> QED
    BY <2>2, <2>3
<1>4. ASSUME NEW i \in Iods, NEW b \in BOOLEAN, NEW n \in Needs, nsock_read(i, n, b)
      PROVE  Inv'
  <2>1. n \in Nat /\ n > 0
    BY ConstantsAssumption
  <2>2. iod[i].eof \in BOOLEAN
    BY DEF Inv, TypeOK, Iod
  <2>3. Request("READ", i, n, b, iod[i].eof)
    BY <1>4 DEF nsock_read
  <2>4. CASE iod[i].eof = TRUE
    <3>1. Request("READ", i, n, b, TRUE)
      BY <2>3, <2>4
    <3> QED
      BY <2>1, <3>1, RequestAtOnce DEF Types
  <2>5. CASE iod[i].eof = FALSE
    <3>1. Request("READ", i, n, b, FALSE)
      BY <2>3, <2>5
    <3> QED
      BY <2>1, <3>1, RequestWaits DEF Types
  <2> QED
    BY <2>2, <2>4, <2>5
<1>5. ASSUME NEW i \in Iods, NEW b \in BOOLEAN, nsock_write(i, b)
      PROVE  Inv'
  <2>1. Request("WRITE", i, 0, b, FALSE)
    BY <1>5 DEF nsock_write
  <2> QED
    BY <2>1, RequestWaits DEF Types
<1>6. ASSUME NEW i \in Iods, NEW b \in BOOLEAN, nsock_iod_delete(i, b)
      PROVE  Inv'
  BY <1>6, DeleteInv
<1>7. ASSUME NEW e \in Events, NEW notify \in BOOLEAN, nsock_event_cancel(e, notify)
      PROVE  Inv'
  BY <1>7, CancelInv
<1> QED
  BY <1>1, <1>2, <1>3, <1>4, <1>5, <1>6, <1>7 DEF Call

\* The kernel and the clock keep the invariant.
LEMMA EnvironmentInv ==
  ASSUME Inv, Kernel \/ Time
  PROVE  Inv'
<1>1. ASSUME NEW i \in Iods, Arrive(i) \/ PeerCloses(i) \/ Drains(i)
      PROVE  Inv'
  <2>1. /\ UNCHANGED <<loop, frames, pool, quit, requests>>
        /\ data' \in [Iods -> Nat] /\ arrived' \in [Iods -> 0 .. MaxData]
        /\ closed' \subseteq Iods /\ writable' \subseteq Iods /\ armed' \subseteq Iods
    <3>1. /\ data \in [Iods -> Nat] /\ arrived \in [Iods -> 0 .. MaxData]
          /\ closed \subseteq Iods /\ writable \subseteq Iods /\ armed \subseteq Iods
          /\ MaxData \in Nat
      BY ConstantsAssumption DEF Inv, TypeOK
    <3> QED
      BY <1>1, <3>1 DEF Arrive, PeerCloses, Drains
  <2>2. TypeOK'
    <3>1. TypeOK
      BY DEF Inv
    <3> QED
      BY <2>1, <3>1 DEF TypeOK, loop, pool
  <2>3. BottomOk(frames, Held, phase', cursor') /\ CursorOk(lists, phase', current', cursor')
    BY <2>1 DEF Inv, loop
  <2>4. requests <= requests' /\ requests' \in Nat
    BY <2>1, HeldFinite
  <2> QED
    BY <2>1, <2>2, <2>3, <2>4, QuietStep DEF pool
<1>2. ASSUME NEW e \in Events, BecomesDue(e)
      PROVE  Inv'
  <2>1. /\ event' = [event EXCEPT ![e].due = TRUE]
        /\ UNCHANGED <<loop, frames, lists, expirables, free_events, created, events_pending, iod,
                       quit, requests, kernel, armed>>
    BY <1>2 DEF BecomesDue
  <2>2. /\ event \in [Events -> Event] /\ event' \in [Events -> Event]
        /\ \A x \in Events : /\ event'[x].iod = event[x].iod /\ event'[x].type = event[x].type
                             /\ event'[x].done = event[x].done /\ event'[x].calls = event[x].calls
                             /\ event'[x].need = event[x].need
    <3>1. event \in [Events -> Event]
      BY DEF Inv, TypeOK
    <3>2. event' = [event EXCEPT ![e] = [event[e] EXCEPT !.due = TRUE]]
      BY <2>1, <3>1
    <3> QED
      BY <3>1, <3>2 DEF Event
  <2>3. \A x \in Pending : event[x].type = "READ" => event'[x].need > 0
    <3>1. Pending \subseteq Events
      BY HeldFinite
    <3> QED
      BY <2>2, <3>1 DEF Inv, CallsOk
  <2>4. TypeOK'
    <3>1. TypeOK
      BY DEF Inv
    <3> QED
      BY <2>1, <2>2, <3>1 DEF TypeOK, loop, kernel
  <2>5. BottomOk(frames, Held, phase', cursor') /\ CursorOk(lists, phase', current', cursor')
    BY <2>1 DEF Inv, loop
  <2>6. requests <= requests' /\ requests' \in Nat
    BY <2>1, HeldFinite
  <2> QED
    BY <2>1, <2>2, <2>3, <2>4, <2>5, <2>6, QuietInv
<1> QED
  BY <1>1, <1>2 DEF Kernel, Time

\* The steps of the loop that only move on keep the invariant.
LEMMA MoveOnInv ==
  ASSUME Inv, UNCHANGED pool, UNCHANGED frames, UNCHANGED requests, frames = <<>>,
         CursorOk(lists, phase', current', cursor'),
         phase' \in {"user", "first", "wait", "iods", "expired"},
         DOMAIN batch' \subseteq Iods, \A i \in DOMAIN batch' : batch'[i] \subseteq {"r", "w", "x"},
         current' \in Iods \cup {NoIod}, mask' \subseteq {"r", "w", "x"}, list' \in 1 .. 3,
         quit' \in BOOLEAN, UNCHANGED kernel, armed' \subseteq Iods
  PROVE  Inv'
<1>1. cursor' \in Events \cup {NoEvent}
  BY HeldFinite, HeldIs DEF CursorOk
<1>2. TypeOK'
  <2>1. TypeOK
    BY DEF Inv
  <2> QED
    BY <1>1, <2>1 DEF TypeOK, pool, kernel
<1>3. BottomOk(frames, Held, phase', cursor')
  BY DEF BottomOk
<1>4. requests <= requests' /\ requests' \in Nat
  BY HeldFinite
<1> QED
  BY <1>2, <1>3, <1>4, QuietStep

\* Every step of the loop keeps the invariant.
LEMMA LoopInv ==
  ASSUME Inv, LoopStep \/ LoopReturn(TRUE)
  PROVE  Inv'
<1>1. /\ phase \in {"user", "first", "wait", "iods", "expired"} /\ DOMAIN batch \subseteq Iods
      /\ \A i \in DOMAIN batch : batch[i] \subseteq {"r", "w", "x"}
      /\ current \in Iods \cup {NoIod} /\ mask \subseteq {"r", "w", "x"} /\ list \in 1 .. 3
      /\ quit \in BOOLEAN /\ armed \subseteq Iods /\ data \in [Iods -> Nat] /\ writable \subseteq Iods
  BY DEF Inv, TypeOK
<1>2. CursorOk(lists, phase, current, cursor)
  BY DEF Inv
<1>3. phase \in {"first", "wait"} => frames = <<>>
  BY DEF Inv, BottomOk
<1>4. CASE LoopStart
  <2>1. /\ phase = "user" /\ frames = <<>> /\ phase' \in {"user", "first"} /\ quit' \in BOOLEAN
        /\ UNCHANGED <<batch, current, mask, list, cursor, frames, pool, requests, kernel, armed>>
    BY <1>1, <1>4 DEF LoopStart
  <2>2. CursorOk(lists, phase', current', cursor')
    BY <1>2, <2>1 DEF CursorOk
  <2> QED
    BY <1>1, <2>1, <2>2, MoveOnInv
<1>5. ASSUME NEW timeout \in BOOLEAN, LoopReturn(timeout)
      PROVE  Inv'
  <2>1. /\ phase = "wait" /\ phase' = "user" /\ quit' = FALSE
        /\ UNCHANGED <<batch, current, mask, list, cursor, frames, pool, requests, kernel, armed>>
    BY <1>5 DEF LoopReturn
  <2>2. CursorOk(lists, phase', current', cursor')
    BY <1>2, <2>1 DEF CursorOk
  <2> QED
    BY <1>1, <1>3, <2>1, <2>2, MoveOnInv
<1>6. CASE EpollWait
  <2>1. /\ phase \in {"first", "wait"} /\ phase' = "iods" /\ armed' = {}
        /\ batch' = [i \in {j \in armed : Reported(j) # {}} |-> Reported(i)]
        /\ UNCHANGED <<current, mask, list, cursor, frames, pool, quit, requests, kernel>>
    BY <1>6 DEF EpollWait
  <2>2. \A i : Reported(i) \subseteq {"r", "w", "x"}
    BY DEF Reported, ReadyFor
  <2>3. DOMAIN batch' \subseteq Iods /\ \A i \in DOMAIN batch' : batch'[i] \subseteq {"r", "w", "x"}
    BY <1>1, <2>1, <2>2
  <2>4. CursorOk(lists, phase', current', cursor')
    BY <1>2, <2>1 DEF CursorOk
  <2> QED
    BY <1>1, <1>3, <2>1, <2>3, <2>4, MoveOnInv
<1>7. CASE NextList
  <2>1. /\ phase = "iods" /\ frames = <<>> /\ current # NoIod /\ list < 3
        /\ list' = list + 1 /\ cursor' = First(current, list + 1)
        /\ UNCHANGED <<phase, batch, current, mask, frames, pool, quit, requests, kernel, armed>>
    BY <1>7 DEF NextList, Running
  <2>2. list' \in 1 .. 3 /\ current \in Iods
    BY <1>1, <2>1
  <2>3. CursorOk(lists, phase', current', cursor')
    BY <2>1, <2>2, FirstIsListed DEF CursorOk
  <2> QED
    BY <1>1, <2>1, <2>2, <2>3, MoveOnInv
<1>8. CASE EndIod
  <2>1. /\ phase = "iods" /\ frames = <<>> /\ current # NoIod /\ cursor = NoEvent
        /\ iod' = [iod EXCEPT ![current].active = @ /\ iod[current].state # "DELETED"]
        /\ current' = NoIod /\ mask' = {} /\ list' = 1
        /\ UNCHANGED <<phase, batch, cursor, frames, event, lists, expirables, free_events,
                       created, events_pending, quit, requests, kernel, armed>>
    BY <1>8 DEF EndIod, Running
  <2>2. iod \in [Iods -> Iod] /\ current \in Iods
    BY <1>1, <2>1 DEF Inv, TypeOK
  <2>3. PICK a \in BOOLEAN : iod' = [iod EXCEPT ![current] = [iod[current] EXCEPT !.active = a]]
    <3>1. PICK a \in BOOLEAN : a = (iod[current].active /\ iod[current].state # "DELETED")
      OBVIOUS
    <3> QED
      BY <2>1, <2>2, <3>1
  <2>4. /\ iod' \in [Iods -> Iod]
        /\ \A i \in Iods : /\ iod'[i].events_pending = iod[i].events_pending
                           /\ iod'[i].readsd_count = iod[i].readsd_count
                           /\ iod'[i].writesd_count = iod[i].writesd_count
                           /\ iod'[i].watched = iod[i].watched
    BY <2>2, <2>3 DEF Iod
  <2>5. TypeOK'
    <3>1. TypeOK
      BY DEF Inv
    <3> QED
      BY <2>1, <2>4, <3>1 DEF TypeOK, kernel
  <2>6. BottomOk(frames, Held, phase', cursor') /\ CursorOk(lists, phase', current', cursor')
    BY <2>1 DEF BottomOk, CursorOk
  <2>7. requests <= requests' /\ requests' \in Nat
    BY <2>1, HeldFinite
  <2>8. \A e \in Pending : event[e].type = "READ" => event'[e].need > 0
    BY <2>1 DEF Inv, CallsOk
  <2> QED
    BY <2>1, <2>4, <2>5, <2>6, <2>7, <2>8, QuietInv
<1>9. CASE EndIods
  <2>1. /\ phase = "iods" /\ frames = <<>> /\ current = NoIod /\ phase' = "expired"
        /\ UNCHANGED <<batch, current, mask, list, cursor, frames, pool, quit, requests, kernel, armed>>
    BY <1>9 DEF EndIods, Running
  <2>2. CursorOk(lists, phase', current', cursor')
    BY <1>2, <2>1 DEF CursorOk
  <2> QED
    BY <1>1, <2>1, <2>2, MoveOnInv
<1>10. ASSUME NEW i \in Iods, NextIod(i)
       PROVE  Inv'
  <2>1. /\ phase = "iods" /\ frames = <<>> /\ i \in DOMAIN batch
        /\ current' = i /\ mask' = batch[i] /\ batch' = [j \in DOMAIN batch \ {i} |-> batch[j]]
        /\ list' = 1 /\ cursor' = First(i, 1)
        /\ UNCHANGED <<phase, frames, pool, quit, requests, kernel, armed>>
    BY <1>10 DEF NextIod, Running
  <2>2. CursorOk(lists, phase', current', cursor')
    BY <2>1, FirstIsListed, ConstantsAssumption DEF CursorOk
  <2> QED
    BY <1>1, <2>1, <2>2, MoveOnInv
<1>11. ASSUME NEW type, AtEvent(type)
       PROVE  /\ phase = "iods" /\ frames = <<>> /\ cursor # NoEvent /\ event[cursor].type = type
              /\ cursor \in Held /\ cursor \in Pending /\ cursor \in Events
              /\ UNCHANGED <<phase, batch, current, mask, list, quit, requests, arrived, closed>>
  <2>1. /\ phase = "iods" /\ frames = <<>> /\ cursor # NoEvent /\ event[cursor].type = type
        /\ UNCHANGED <<phase, batch, current, mask, list, quit, requests, arrived, closed>>
    BY <1>11 DEF AtEvent, Running
  <2>2. cursor \in Held
    BY <1>2, <2>1, HeldIs DEF CursorOk
  <2> QED
    BY <2>1, <2>2, HeldIsPending, HeldFinite
<1>12. CASE ProcessConnect
  <2>1. AtEvent("CONNECT") /\ Deliver(cursor, "loop", FALSE) /\ UNCHANGED <<data, writable>>
    BY <1>12 DEF ProcessConnect
  <2> QED
    BY <1>1, <1>11, <2>1, DeliverInv
<1>13. ASSUME NEW fails \in BOOLEAN, ProcessRead(fails)
       PROVE  Inv'
  <2> DEFINE tried == {"r", "x"} \cap mask # {}
             got == IF tried /\ data[current] > 0 THEN 1 ELSE 0
             need == event[cursor].need - got
             ended == tried /\ got = 0 /\ current \in closed
  <2>1. /\ AtEvent("READ") /\ data' = [data EXCEPT ![current] = @ - got]
        /\ \/ Deliver(cursor, "loop", ended)
           \/ need # 0 /\ PassOver(need)
        /\ UNCHANGED writable
    BY <1>13 DEF ProcessRead
  <2>2. /\ phase = "iods" /\ frames = <<>> /\ cursor # NoEvent /\ event[cursor].type = "READ"
        /\ cursor \in Held /\ cursor \in Pending /\ cursor \in Events
        /\ UNCHANGED <<phase, batch, current, mask, list, quit, requests, arrived, closed>>
    BY <1>11, <2>1
  <2>3. event[cursor].need \in Nat /\ event[cursor].need > 0
    BY <2>2, EventFields DEF Inv, CallsOk
  <2>4. got \in {0, 1} /\ need \in Nat /\ ended \in BOOLEAN /\ (got = 1 => data[current] > 0)
    BY <2>3
  <2>5. data' \in [Iods -> Nat]
    <3> HIDE DEF got
    <3>1. current \in Iods => data[current] - got \in Nat
      BY <1>1, <2>4
    <3> QED
      BY <1>1, <2>1, <3>1
  <2>6. writable' \subseteq Iods
    BY <1>1, <2>1
  <2> HIDE DEF ended, need, got, tried
  <2>7. CASE Deliver(cursor, "loop", ended)
    BY <2>2, <2>4, <2>5, <2>6, <2>7, DeliverInv
  <2>8. CASE need # 0 /\ PassOver(need)
    BY <2>2, <2>4, <2>5, <2>6, <2>8, PassOverInv
  <2> QED
    BY <2>1, <2>7, <2>8
<1>14. ASSUME NEW all \in BOOLEAN, ProcessWrite(all)
       PROVE  Inv'
  <2>1. /\ AtEvent("WRITE") /\ writable' \subseteq Iods
        /\ Deliver(cursor, "loop", FALSE) \/ PassOver(0)
        /\ UNCHANGED data
    BY <1>1, <1>14 DEF ProcessWrite
  <2>2. /\ phase = "iods" /\ frames = <<>> /\ cursor # NoEvent /\ event[cursor].type = "WRITE"
        /\ cursor \in Held /\ cursor \in Pending /\ cursor \in Events
        /\ UNCHANGED <<phase, batch, current, mask, list, quit, requests, arrived, closed>>
    BY <1>11, <2>1
  <2>3. data' \in [Iods -> Nat]
    BY <1>1, <2>1
  <2>4. CASE Deliver(cursor, "loop", FALSE)
    BY <2>1, <2>2, <2>3, <2>4, DeliverInv
  <2>5. CASE PassOver(0)
    BY <2>1, <2>2, <2>3, <2>5, PassOverInv
  <2> QED
    BY <2>1, <2>4, <2>5
<1>15. ASSUME NEW e \in Events, ProcessExpired(e)
       PROVE  Inv'
  <2>1. /\ phase = "expired" /\ frames = <<>> /\ e \in expirables /\ Deliver(e, "expired", FALSE)
        /\ UNCHANGED <<phase, batch, current, mask, list, quit, requests, kernel>>
    BY <1>15 DEF ProcessExpired, Running
  <2>2. e \in Held
    BY <2>1 DEF Held
  <2>3. UNCHANGED <<data, arrived, closed, writable>>
    BY <2>1 DEF kernel
  <2> QED
    BY <1>1, <2>1, <2>2, <2>3, DeliverInv
<1>16. CASE EndExpired
  <2>1. /\ phase = "expired" /\ frames = <<>> /\ phase' = "wait"
        /\ UNCHANGED <<batch, current, mask, list, cursor, frames, pool, quit, requests, kernel, armed>>
    BY <1>16 DEF EndExpired, Running
  <2>2. CursorOk(lists, phase', current', cursor')
    BY <1>2, <2>1 DEF CursorOk
  <2> QED
    BY <1>1, <2>1, <2>2, MoveOnInv
<1>17. CASE HandlerReturns
  BY <1>17, HandlerReturnsInv
<1> QED
  BY <1>4, <1>5, <1>6, <1>7, <1>8, <1>9, <1>10, <1>12, <1>13, <1>14, <1>15, <1>16, <1>17
     DEF LoopStep

-------------------------------------------------------------------------------
(* Wakeups.  For callers that have one read and one write on an iod at a time, a second
   invariant follows every direction in which a socket is ready and watched until the
   loop comes to the event that waits for it. *)

\* What is watched is registered with epoll.
WatchedRegistered == \A i \in Iods : iod[i].watched # {} => iod[i].registered

\* Between the rounds nothing of a batch is left.
RoundOver == phase # "iods" => DOMAIN batch = {} /\ current = NoIod

\* An iod that was not opened has no events and is unknown to epoll.
InitialIdle ==
  \A i \in Iods : iod[i].state = "INITIAL" =>
    /\ i \notin armed /\ i \notin DOMAIN batch /\ i # current
    /\ \A e \in Held : event[e].iod # i

\* An iod has one pending event of a type.
OneOfAType ==
  \A d, e \in Pending : event[d].iod \in Iods /\ event[d].iod = event[e].iod
                        /\ event[d].type = event[e].type => d = e

\* A read that is pending lacks one datagram.
OneDatagram == \A e \in Pending : event[e].type = "READ" => event[e].need = 1

\* The loop is at an event of the current iod and list.
CursorInList == cursor # NoEvent => event[cursor].iod = current /\ event[cursor].type = Order[list]

\* Once the loop has come to the connect of the current iod, or found none, there is none.
ConnectsOver ==
  current # NoIod /\ (list > 1 \/ cursor = NoEvent \/ Running) =>
    \A e \in Pending : event[e].iod = current => event[e].type # "CONNECT"

\* The list of the events that wait for w is ahead of the loop.
LastList(w) == IF w = "r" THEN 2 ELSE 3
Ahead(w) == \/ list < LastList(w)
            \/ list = LastList(w) /\ cursor # NoEvent /\ ~event[cursor].done

\* Socket i will be looked at for w: in this round or in the next one.
Covered(i, w) ==
  \/ i \in armed
  \/ i \in DOMAIN batch /\ w \in batch[i]
  \/ current = i /\ w \in mask /\ Ahead(w)
ReadyCovered == \A i \in Iods : \A w \in iod[i].watched : w \in ReadyFor(i) => Covered(i, w)

Wake ==
  /\ WatchedRegistered /\ RoundOver /\ InitialIdle /\ OneOfAType /\ OneDatagram
  /\ CursorInList /\ ConnectsOver /\ ReadyCovered

\* A pending event of an iod is on the list of its type, and what it waits for is watched.
LEMMA PendingOnList ==
  ASSUME Inv, NEW e \in Pending, event[e].iod \in Iods
  PROVE  /\ e \in ToSet(lists[event[e].iod][event[e].type]) /\ event[e].type \in Types \ {"TIMER"}
         /\ Wants(event[e].type) \subseteq iod[event[e].iod].watched
<1>1. e \in Held /\ e \in Events
  BY HeldFinite
<1>2. e \in Members(lists)
  BY <1>1, HeldIs DEF Inv, HeapOk
<1>3. PICK i \in Iods, t \in Types : e \in ToSet(lists[i][t])
  BY <1>2, MembersOf
<1>4. event[e].iod = i /\ event[e].type = t
  BY <1>3 DEF Inv, ListsOk
<1>5. t # "TIMER"
  <2>1. ToSet(<<>>) = {}
    <3>1. <<>> \in Seq(Events)
      BY EmptySeq
    <3> QED
      BY <3>1, EmptySets
  <2> QED
    BY <1>3, <2>1 DEF Inv, ListsOk
<1>6. ASSUME NEW w \in Wants(t)
      PROVE  w \in iod[i].watched
  <2>1. w \in {"r", "w"}
    BY <1>6 DEF Wants, Types
  <2>2. e \in Waiting(Pending, event, i, w)
    BY <1>4, <1>6 DEF Waiting, Mine
  <2> QED
    BY <2>1, <2>2 DEF Inv, IodExact
<1> QED
  BY <1>3, <1>4, <1>5, <1>6

\* What is watched is what a pending event waits for.
LEMMA WatchedIsWanted ==
  ASSUME Inv, NEW i \in Iods, NEW w \in iod[i].watched
  PROVE  /\ w \in {"r", "w"}
         /\ \E e \in Pending : /\ event[e].iod = i /\ w \in Wants(event[e].type)
                               /\ event[e].type \in {"CONNECT", Order[LastList(w)]}
<1>1. w \in {"r", "w"} /\ Waiting(Pending, event, i, w) # {}
  BY DEF Inv, IodExact
<1>2. PICK e \in Pending : event[e].iod = i /\ w \in Wants(event[e].type)
  BY <1>1 DEF Waiting, Mine
<1>3. event[e].type \in Types
  BY HeldFinite, EventFields
<1>4. event[e].type \in {"CONNECT", Order[LastList(w)]}
  BY <1>1, <1>2, <1>3 DEF Wants, Types, Order, LastList
<1> QED
  BY <1>1, <1>2, <1>4

\* The loop is at an event that is held; when a handler runs that event is done.
LEMMA CursorHeld ==
  ASSUME Inv, cursor # NoEvent
  PROVE  /\ cursor \in Held /\ cursor \in Events
         /\ frames # <<>> => event[cursor].done
<1>1. cursor \in Held /\ cursor \in Events /\ phase = "iods"
  BY HeldFinite, HeldIs DEF Inv, CursorOk
<1>2. ASSUME frames # <<>>
      PROVE  event[cursor].done
  <2>1. Len(frames) \in DOMAIN frames
    <3>1. frames \in Seq(Frame)
      BY DEF Inv, FramesOk
    <3> QED
      BY <1>2, <3>1, LenProperties, EmptySeq
  <2>2. frames[Len(frames)].event = cursor
    BY <1>1, <1>2 DEF Inv, BottomOk
  <2> QED
    BY <2>1, <2>2, FrameEvents
<1> QED
  BY <1>1, <1>2

\* Events that a step keeps or delivers: what is pending of a type stays at most one.
LEMMA FewerPending ==
  ASSUME Inv, Wake, Pending' \subseteq Pending,
         \A x \in Pending' : /\ event'[x].iod = event[x].iod /\ event'[x].type = event[x].type
                             /\ event'[x].need = event[x].need
  PROVE  OneOfAType' /\ OneDatagram'
<1>1. OneOfAType /\ OneDatagram
  BY DEF Wake
<1>2. OneOfAType'
  <2> SUFFICES ASSUME NEW d \in Pending', NEW e \in Pending', event'[d].iod \in Iods,
                      event'[d].iod = event'[e].iod, event'[d].type = event'[e].type
               PROVE  d = e
    BY DEF OneOfAType
  <2> QED
    BY <1>1 DEF OneOfAType
<1>3. OneDatagram'
  <2> SUFFICES ASSUME NEW e \in Pending', event'[e].type = "READ"
               PROVE  event'[e].need = 1
    BY DEF OneDatagram
  <2> QED
    BY <1>1 DEF OneDatagram
<1> QED
  BY <1>2, <1>3

\* A call of a caller: a direction that is watched now was watched before or the socket is
\* on the ready list.
LEMMA CallerWake ==
  ASSUME Inv, Inv', Wake, CallerRuns, UNCHANGED loop, UNCHANGED kernel,
         \A x \in Held' : x \in Held => event'[x] = event[x],
         \A i \in Iods : iod'[i].state = "INITIAL" =>
           /\ iod[i].state = "INITIAL" /\ (i \in armed' => i \in armed)
           /\ \A x \in Held' \ Held : event'[x].iod # i,
         \A x \in Pending' \ Pending : event'[x].type = "CONNECT" /\ event'[x].iod \in Iods
                                         => iod[event'[x].iod].state = "INITIAL",
         OneOfAType', OneDatagram', WatchedRegistered',
         \A i \in Iods : \A w \in iod'[i].watched : w \in ReadyFor(i) =>
           i \in armed' \/ (w \in iod[i].watched /\ (i \in armed => i \in armed'))
  PROVE  Wake'
<1>1. /\ UNCHANGED <<phase, batch, current, mask, list, cursor, data, arrived, closed, writable>>
  BY DEF loop, kernel
<1>2. RoundOver'
  BY <1>1 DEF Wake, RoundOver
<1>3. InitialIdle'
  BY <1>1 DEF Wake, InitialIdle
<1>4. cursor # NoEvent => cursor \in Held /\ cursor \in Held' /\ event'[cursor] = event[cursor]
  <2>1. cursor # NoEvent => cursor \in Held
    BY CursorHeld
  <2>2. cursor' # NoEvent => cursor' \in Held'
    <3>1. Held' = Members(lists') \cup expirables'
      BY DEF Held, Listed, Members
    <3> QED
      BY <3>1 DEF Inv, CursorOk
  <2> QED
    BY <1>1, <2>1, <2>2
<1>5. CursorInList'
  BY <1>1, <1>4 DEF Wake, CursorInList
<1>6. ConnectsOver'
  <2> SUFFICES ASSUME current # NoIod, NEW e \in Pending', event'[e].iod = current
               PROVE  event'[e].type # "CONNECT"
    BY <1>1 DEF ConnectsOver
  <2>1. Running
    BY DEF Wake, RoundOver, CallerRuns, Running
  <2>2. current \in Iods
    BY DEF Inv, TypeOK
  <2>3. CASE e \in Pending
    <3>1. e \in Held /\ e \in Held'
      BY <2>3 DEF Pending
    <3>2. event'[e] = event[e]
      BY <3>1
    <3> QED
      BY <2>1, <2>3, <3>2 DEF Wake, ConnectsOver
  <2>4. CASE e \notin Pending
    BY <2>2, <2>4 DEF Wake, InitialIdle
  <2> QED
    BY <2>3, <2>4
<1>7. ReadyCovered'
  <2> SUFFICES ASSUME NEW i \in Iods, NEW w \in iod'[i].watched, w \in ReadyFor(i)'
               PROVE  Covered(i, w)'
    BY DEF ReadyCovered
  <2>1. w \in ReadyFor(i)
    BY <1>1 DEF ReadyFor
  <2>2. CASE i \in armed'
    BY <2>2 DEF Covered
  <2>3. CASE w \in iod[i].watched /\ (i \in armed => i \in armed')
    <3>1. Covered(i, w)
      BY <2>1, <2>3 DEF Wake, ReadyCovered
    <3>2. Ahead(w) => Ahead(w)'
      BY <1>1, <1>4 DEF Ahead
    <3> QED
      BY <1>1, <2>3, <3>1, <3>2 DEF Covered
  <2> QED
    BY <2>1, <2>2, <2>3
<1> QED
  BY <1>2, <1>3, <1>5, <1>6, <1>7 DEF Wake

\* An event of iod i is done: fewer directions are watched, and no socket leaves the ready list.
Lessened(i) ==
  /\ \A j \in Iods : /\ iod'[j].state = iod[j].state /\ iod'[j].registered = iod[j].registered
                     /\ iod'[j].watched \subseteq iod[j].watched
  /\ armed \subseteq armed' /\ armed' \subseteq armed \cup {i}

\* What Uncounted() and the end of a read leave of an iod.
LEMMA SettledLess ==
  ASSUME NEW I \in Iod, NEW W, NEW b, NEW J, J = SettledIod(I, W, b)
  PROVE  J.state = I.state /\ J.registered = I.registered /\ J.watched \subseteq I.watched
<1>1. I = [state |-> I.state, active |-> I.active, registered |-> I.registered,
           watched |-> I.watched, readsd_count |-> I.readsd_count,
           writesd_count |-> I.writesd_count, events_pending |-> I.events_pending,
           eof |-> I.eof]
  BY DEF Iod
<1>2. J.state = I.state /\ J.registered = I.registered
  BY <1>1 DEF Uncounted, SettledIod
<1>3. J.watched = Uncounted(I, W).watched
  BY SettledFields
<1>4. Uncounted(I, W).watched \subseteq I.watched
  BY <1>1 DEF Uncounted
<1> QED
  BY <1>2, <1>3, <1>4

\* The iod and the ready list after the event e is done.
LEMMA SettleLessens ==
  ASSUME Inv, NEW e \in Events, event[e].iod = NoIod => UNCHANGED <<iod, armed>>,
         event[e].iod # NoIod => armed' = Rearmed(event[e].iod, Settled(iod[event[e].iod], e)),
         \E b \in BOOLEAN :
           event[e].iod # NoIod =>
             iod' = [iod EXCEPT ![event[e].iod] = [Settled(iod[event[e].iod], e) EXCEPT !.eof = b]]
  PROVE  Lessened(event[e].iod)
<1>1. event[e].iod \in Iods \cup {NoIod} /\ iod \in [Iods -> Iod]
  BY EventFields DEF Inv, TypeOK
<1>2. CASE event[e].iod = NoIod
  BY <1>2 DEF Lessened
<1>3. CASE event[e].iod # NoIod
  <2>1. PICK i \in Iods : i = event[e].iod
    BY <1>1, <1>3
  <2>2. PICK b \in BOOLEAN : iod' = [iod EXCEPT ![i] = [Settled(iod[i], e) EXCEPT !.eof = b]]
    BY <1>3, <2>1
  <2>3. PICK J : J = SettledIod(iod[i], Wants(event[e].type), b)
    OBVIOUS
  <2>4. iod' = [iod EXCEPT ![i] = J]
    BY <2>2, <2>3 DEF Settled, SettledIod
  <2>5. J.state = iod[i].state /\ J.registered = iod[i].registered /\ J.watched \subseteq iod[i].watched
    <3>1. iod[i] \in Iod
      BY <1>1
    <3> QED
      BY <2>3, <3>1, SettledLess
  <2>6. iod'[i] = J /\ \A j \in Iods \ {i} : iod'[j] = iod[j]
    BY <1>1, <2>4
  <2>7. armed \subseteq armed' /\ armed' \subseteq armed \cup {i}
    BY <1>3, <2>1 DEF Rearmed
  <2> QED
    BY <2>1, <2>5, <2>6, <2>7 DEF Lessened
<1> QED
  BY <1>2, <1>3

\* Cancelling an event.
LEMMA CancelWake ==
  ASSUME Inv, Wake, NEW e \in Events, NEW notify \in BOOLEAN, nsock_event_cancel(e, notify)
  PROVE  Wake'
<1>1. Inv' /\ Kept
  BY CancelInv
<1> DEFINE i == event[e].iod
           I == Settled(iod[i], e)
<1>2. /\ CallerRuns /\ e \in Pending /\ UNCHANGED loop /\ UNCHANGED kernel
      /\ i = NoIod => UNCHANGED <<iod, armed>>
      /\ i # NoIod => iod' = [iod EXCEPT ![i] = I] /\ armed' = Rearmed(i, I)
  BY DEF nsock_event_cancel
<1>3. \E b \in BOOLEAN : i # NoIod => iod' = [iod EXCEPT ![i] = [I EXCEPT !.eof = b]]
  <2>1. CASE i = NoIod
    BY <2>1
  <2>2. CASE i # NoIod
    <3>1. iod[i] \in Iod /\ iod[i].eof \in BOOLEAN
      BY <2>2, EventFields DEF Inv, TypeOK, Iod
    <3>2. I = [I EXCEPT !.eof = iod[i].eof]
      BY <3>1, SettledKeepsEof DEF Settled, SettledIod
    <3> HIDE DEF I
    <3> QED
      BY <1>2, <3>1, <3>2
  <2> QED
    BY <2>1, <2>2
<1>4. Lessened(i)
  BY <1>2, <1>3, SettleLessens
<1> HIDE DEF i, I
<1>5. OneOfAType' /\ OneDatagram'
  <2>1. \A x \in Pending' : x \in Held'
    BY DEF Pending
  <2> QED
    BY <1>1, <2>1, FewerPending DEF Kept
<1>6. WatchedRegistered'
  BY <1>4 DEF Wake, WatchedRegistered, Lessened
<1>7. \A j \in Iods : iod'[j].state = "INITIAL" =>
        /\ iod[j].state = "INITIAL" /\ (j \in armed' => j \in armed)
        /\ \A x \in Held' \ Held : event'[x].iod # j
  <2>1. e \in Held
    BY <1>2, HeldFinite
  <2> QED
    BY <1>1, <1>4, <2>1 DEF Wake, InitialIdle, Lessened, Kept, i
<1>8. \A j \in Iods : \A w \in iod'[j].watched : w \in ReadyFor(j) =>
        j \in armed' \/ (w \in iod[j].watched /\ (j \in armed => j \in armed'))
  BY <1>4 DEF Lessened
<1>9. /\ \A x \in Held' : x \in Held => event'[x] = event[x]
      /\ \A x \in Pending' \ Pending : event'[x].type = "CONNECT" /\ event'[x].iod \in Iods
                                         => iod[event'[x].iod].state = "INITIAL"
  BY <1>1 DEF Kept
<1> QED
  BY <1>1, <1>2, <1>5, <1>6, <1>7, <1>8, <1>9, CallerWake

\* Deleting an iod: it is watched for nothing.
LEMMA DeleteWake ==
  ASSUME Inv, Wake, NEW i \in Iods, NEW notify \in BOOLEAN, nsock_iod_delete(i, notify)
  PROVE  Wake'
<1>1. Inv' /\ Kept
  BY DeleteInv
<1>2. /\ CallerRuns /\ UNCHANGED loop /\ UNCHANGED kernel /\ armed' = armed \ {i}
      /\ iod' = [iod EXCEPT ![i] = DeletedIod(iod[i], Len(OnIod(i)))]
  BY DEF nsock_iod_delete, DeletedIod
<1>3. /\ \A j \in Iods \ {i} : iod'[j] = iod[j]
      /\ iod'[i].state = "DELETED" /\ iod'[i].watched = {}
  <2>1. iod \in [Iods -> Iod]
    BY DEF Inv, TypeOK
  <2>2. PICK n : n = iod[i].events_pending - Len(OnIod(i))
    OBVIOUS
  <2>3. DeletedIod(iod[i], Len(OnIod(i))) =
          [iod[i] EXCEPT !.events_pending = n, !.readsd_count = 0, !.writesd_count = 0,
                         !.watched = {}, !.registered = FALSE, !.state = "DELETED"]
    BY <2>2 DEF DeletedIod
  <2>4. PICK J : J = [iod[i] EXCEPT !.events_pending = n, !.readsd_count = 0, !.writesd_count = 0,
                                    !.watched = {}, !.registered = FALSE, !.state = "DELETED"]
    OBVIOUS
  <2>5. J.state = "DELETED" /\ J.watched = {}
    BY <2>1, <2>4 DEF Iod
  <2> QED
    BY <1>2, <2>1, <2>3, <2>4, <2>5
<1>4. OneOfAType' /\ OneDatagram'
  <2>1. \A x \in Pending' : x \in Held'
    BY DEF Pending
  <2> QED
    BY <1>1, <2>1, FewerPending DEF Kept
<1>5. WatchedRegistered'
  BY <1>3 DEF Wake, WatchedRegistered
<1>6. \A j \in Iods : iod'[j].state = "INITIAL" =>
        /\ iod[j].state = "INITIAL" /\ (j \in armed' => j \in armed)
        /\ \A x \in Held' \ Held : event'[x].iod # j
  BY <1>1, <1>2, <1>3 DEF Kept
<1>7. \A j \in Iods : \A w \in iod'[j].watched : w \in ReadyFor(j) =>
        j \in armed' \/ (w \in iod[j].watched /\ (j \in armed => j \in armed'))
  BY <1>2, <1>3
<1>8. /\ \A x \in Held' : x \in Held => event'[x] = event[x]
      /\ \A x \in Pending' \ Pending : event'[x].type = "CONNECT" /\ event'[x].iod \in Iods
                                         => iod[event'[x].iod].state = "INITIAL"
  BY <1>1 DEF Kept
<1> QED
  BY <1>1, <1>2, <1>4, <1>5, <1>6, <1>7, <1>8, CallerWake

\* A request that is answered at once changes nothing but the state of the iod.
LEMMA AtOnceWake ==
  ASSUME Inv, Wake, NEW type \in Types, NEW i \in Iods, NEW need \in Nat,
         NEW timeout \in BOOLEAN, Request(type, i, need, timeout, TRUE)
  PROVE  Wake'
<1>1. Inv' /\ Kept
  BY RequestAtOnce
<1>2. /\ CallerRuns /\ UNCHANGED loop /\ UNCHANGED kernel /\ armed' = armed
      /\ iod' = [iod EXCEPT ![i].state = "CONNECTED"]
  BY ConstantsAssumption DEF Request
<1>3. /\ \A j \in Iods : iod'[j].watched = iod[j].watched /\ iod'[j].registered = iod[j].registered
      /\ \A j \in Iods : iod'[j].state = "INITIAL" => iod[j].state = "INITIAL"
  <2>1. iod \in [Iods -> Iod]
    BY DEF Inv, TypeOK
  <2>2. iod' = [iod EXCEPT ![i] = [iod[i] EXCEPT !.state = "CONNECTED"]]
    BY <1>2, <2>1
  <2> QED
    BY <2>1, <2>2 DEF Iod
<1>4. OneOfAType' /\ OneDatagram'
  <2>1. \A x \in Pending' : x \in Held'
    BY DEF Pending
  <2> QED
    BY <1>1, <2>1, FewerPending DEF Kept
<1>5. WatchedRegistered'
  BY <1>3 DEF Wake, WatchedRegistered
<1>6. \A j \in Iods : iod'[j].state = "INITIAL" =>
        /\ iod[j].state = "INITIAL" /\ (j \in armed' => j \in armed)
        /\ \A x \in Held' \ Held : event'[x].iod # j
  BY <1>1, <1>2, <1>3 DEF Kept
<1>7. \A j \in Iods : \A w \in iod'[j].watched : w \in ReadyFor(j) =>
        j \in armed' \/ (w \in iod[j].watched /\ (j \in armed => j \in armed'))
  BY <1>2, <1>3
<1>8. /\ \A x \in Held' : x \in Held => event'[x] = event[x]
      /\ \A x \in Pending' \ Pending : event'[x].type = "CONNECT" /\ event'[x].iod \in Iods
                                         => iod[event'[x].iod].state = "INITIAL"
  BY <1>1 DEF Kept
<1> QED
  BY <1>1, <1>2, <1>4, <1>5, <1>6, <1>7, <1>8, CallerWake

\* A request that waits: the bits of its directions are set, which puts a socket that is
\* ready on the ready list.
LEMMA WaitsWake ==
  ASSUME Inv, Wake, NEW type \in Types, NEW i \in Iods \cup {NoIod}, NEW need \in Nat,
         NEW timeout \in BOOLEAN, Request(type, i, need, timeout, FALSE),
         type = "TIMER" => i = NoIod /\ timeout, type # "TIMER" => i \in Iods,
         type = "READ" => need = 1,
         type = "CONNECT" => iod[i].state = "INITIAL",
         type \in {"READ", "WRITE"} => Open(i) /\ PendingOn(i, type) = {}
  PROVE  Wake'
<1> DEFINE e == NewEvent
           I == Counted(iod[i], Wants(type))
<1>0. type = "READ" => need > 0
  OBVIOUS
<1>1. Inv' /\ Added(e, i, type)
  BY <1>0, RequestWaits
<1>2. /\ CallerRuns /\ UNCHANGED loop /\ UNCHANGED kernel
      /\ event' = [event EXCEPT ![e] =
                     [type |-> type, iod |-> i, done |-> FALSE, need |-> need,
                      timeout |-> timeout, due |-> FALSE, calls |-> 0]]
      /\ type = "TIMER" => UNCHANGED <<iod, armed>>
      /\ type # "TIMER" =>
           /\ iod' = [iod EXCEPT ![i] = [I EXCEPT !.events_pending = @ + 1, !.state = "CONNECTED"]]
           /\ armed' = Rearmed(i, I)
  BY DEF Request
<1> HIDE DEF e
<1>3. /\ e \in Events /\ e \notin Held /\ Held' = Held \cup {e} /\ Pending' = Pending \cup {e}
      /\ \A x \in Held : event'[x] = event[x]
      /\ event'[e].iod = i /\ event'[e].type = type
  BY <1>1 DEF Added
<1>4. event'[e].need = need
  <2>1. event \in [Events -> Event]
    BY DEF Inv, TypeOK
  <2> QED
    BY <1>2, <1>3, <2>1
<1>5. Pending \subseteq Held /\ NoIod \notin Iods /\ type \in {"CONNECT", "READ", "WRITE", "TIMER"}
  BY HeldFinite, ConstantsAssumption DEF Types
<1>6. type = "TIMER" \/ \A x \in Pending : event[x].iod = i => event[x].type # type
  <2>1. CASE type = "CONNECT"
    BY <1>5, <2>1 DEF Wake, InitialIdle
  <2>2. CASE type \in {"READ", "WRITE"}
    BY <2>2 DEF PendingOn
  <2> QED
    BY <1>5, <2>1, <2>2
<1>7. OneOfAType'
  <2> SUFFICES ASSUME NEW c \in Pending', NEW d \in Pending', event'[c].iod \in Iods,
                      event'[c].iod = event'[d].iod, event'[c].type = event'[d].type
               PROVE  c = d
    BY DEF OneOfAType
  <2>1. \A x \in Pending : event'[x] = event[x] /\ x # e
    BY <1>3, <1>5
  <2>2. CASE c \in Pending /\ d \in Pending
    BY <2>1, <2>2 DEF Wake, OneOfAType
  <2>3. CASE c = e /\ d \in Pending
    BY <1>3, <1>5, <1>6, <2>1, <2>3
  <2>4. CASE c \in Pending /\ d = e
    BY <1>3, <1>5, <1>6, <2>1, <2>4
  <2> QED
    BY <1>3, <2>2, <2>3, <2>4
<1>8. OneDatagram'
  <2> SUFFICES ASSUME NEW c \in Pending', event'[c].type = "READ"
               PROVE  event'[c].need = 1
    BY DEF OneDatagram
  <2>1. CASE c = e
    BY <1>3, <1>4, <2>1
  <2>2. CASE c \in Pending
    BY <1>3, <1>5, <2>2 DEF Wake, OneDatagram
  <2> QED
    BY <1>3, <2>1, <2>2
<1>9. /\ armed \subseteq armed'
      /\ \A j \in Iods : j # i => iod'[j] = iod[j] /\ (j \in armed' => j \in armed)
      /\ i \in Iods => /\ iod'[i].registered = TRUE /\ iod'[i].state = "CONNECTED"
                       /\ iod'[i].watched # iod[i].watched /\ ReadyFor(i) \cap iod'[i].watched # {}
                            => i \in armed'
  <2>1. CASE type = "TIMER"
    BY <1>2, <1>5, <2>1
  <2>2. CASE type # "TIMER"
    <3>1. iod \in [Iods -> Iod] /\ i \in Iods /\ iod[i] \in Iod
      BY <2>2 DEF Inv, TypeOK
    <3>2. PICK C : C = I
      OBVIOUS
    <3>3. C \in Iod /\ C.registered = TRUE
      <4>1. Wants(type) \in SUBSET {"r", "w"}
        BY DEF Wants
      <4>2. C \in Iod
        BY <3>1, <3>2, <4>1, CountedType
      <4>3. PICK r, s, t : /\ r = IF "r" \in Wants(type) THEN iod[i].readsd_count + 1 ELSE iod[i].readsd_count
                           /\ s = IF "w" \in Wants(type) THEN iod[i].writesd_count + 1 ELSE iod[i].writesd_count
                           /\ t = iod[i].watched \cup Wants(type)
        OBVIOUS
      <4>4. C = [iod[i] EXCEPT !.readsd_count = r, !.writesd_count = s, !.registered = TRUE,
                               !.watched = t]
        BY <3>2, <4>3 DEF Counted
      <4>5. C.registered = TRUE
        BY <3>1, <4>4 DEF Iod
      <4> QED
        BY <4>2, <4>5
    <3>4. PICK D : D = [C EXCEPT !.events_pending = @ + 1, !.state = "CONNECTED"]
      OBVIOUS
    <3>5. D.registered = TRUE /\ D.state = "CONNECTED" /\ D.watched = C.watched
      BY <3>3, <3>4 DEF Iod
    <3> HIDE DEF I
    <3>6. iod'[i] = D /\ \A j \in Iods : j # i => iod'[j] = iod[j]
      BY <1>2, <2>2, <3>1, <3>2, <3>4
    <3>7. armed' = IF C.watched # iod[i].watched /\ ReadyFor(i) \cap C.watched # {}
                   THEN armed \cup {i} ELSE armed
      BY <1>2, <2>2, <3>2 DEF Rearmed
    <3> QED
      BY <3>1, <3>5, <3>6, <3>7
  <2> QED
    BY <2>1, <2>2
<1>10. WatchedRegistered'
  BY <1>9 DEF Wake, WatchedRegistered
<1>11. \A j \in Iods : iod'[j].state = "INITIAL" =>
         /\ iod[j].state = "INITIAL" /\ (j \in armed' => j \in armed)
         /\ \A x \in Held' \ Held : event'[x].iod # j
  BY <1>3, <1>9
<1>12. \A j \in Iods : \A w \in iod'[j].watched : w \in ReadyFor(j) =>
         j \in armed' \/ (w \in iod[j].watched /\ (j \in armed => j \in armed'))
  BY <1>9
<1>13. /\ \A x \in Held' : x \in Held => event'[x] = event[x]
       /\ \A x \in Pending' \ Pending : event'[x].type = "CONNECT" /\ event'[x].iod \in Iods
                                          => iod[event'[x].iod].state = "INITIAL"
  BY <1>3
<1> QED
  BY <1>1, <1>2, <1>7, <1>8, <1>10, <1>11, <1>12, <1>13, CallerWake

\* A caller that has one at a time has none when it asks for another.
LEMMA NoneOnIod ==
  ASSUME Inv, OneAtATime, NEW i, NEW type, Cardinality(PendingOn(i, type)) < PerIod
  PROVE  PendingOn(i, type) = {}
<1>1. IsFiniteSet(PendingOn(i, type))
  <2>1. PendingOn(i, type) \subseteq Pending
    BY DEF PendingOn
  <2> QED
    BY <2>1, HeldFinite, FS_Subset
<1>2. Cardinality(PendingOn(i, type)) \in Nat
  BY <1>1, FS_CardinalityType
<1>3. Cardinality(PendingOn(i, type)) = 0
  BY <1>2 DEF OneAtATime
<1> QED
  BY <1>1, <1>3, FS_EmptySet

\* Calls of the callers lose no wakeup.
LEMMA CallWake ==
  ASSUME OneAtATime, Inv, Wake, Call
  PROVE  Wake'
<1>1. CASE nsock_timer_create
  <2>1. Request("TIMER", NoIod, 0, TRUE, FALSE)
    BY <1>1 DEF nsock_timer_create
  <2> QED
    BY <2>1, WaitsWake DEF Types
<1>2. CASE nsock_loop_quit
  <2>1. Inv'
    BY CallInv
  <2>2. CallerRuns /\ UNCHANGED <<loop, frames, pool, kernel, armed>>
    BY <1>2 DEF nsock_loop_quit
  <2>3. UNCHANGED <<event, iod, armed, Held, Pending>>
    BY <2>2 DEF pool, Held, Listed, Pending
  <2>4. OneOfAType' /\ OneDatagram' /\ WatchedRegistered'
    BY <2>3 DEF Wake, OneOfAType, OneDatagram, WatchedRegistered
  <2>5. UNCHANGED loop /\ UNCHANGED kernel
    BY <2>2
  <2> QED
    BY <2>1, <2>2, <2>3, <2>4, <2>5, CallerWake
<1>3. ASSUME NEW i \in Iods, NEW b \in BOOLEAN, NEW atOnce \in BOOLEAN, nsock_connect(i, b, atOnce)
      PROVE  Wake'
  <2>1. Request("CONNECT", i, 0, b, atOnce) /\ iod[i].state = "INITIAL"
    BY <1>3 DEF nsock_connect
  <2>2. CASE atOnce = TRUE
    BY <2>1, <2>2, AtOnceWake DEF Types
  <2>3. CASE atOnce = FALSE
    BY <2>1, <2>3, WaitsWake DEF Types
  <2> QED
    BY <2>2, <2>3
<1>4. ASSUME NEW i \in Iods, NEW b \in BOOLEAN, NEW n \in Needs, nsock_read(i, n, b)
      PROVE  Wake'
  <2>1. n \in Nat /\ n = 1
    BY DEF OneAtATime
  <2>2. iod[i].eof \in BOOLEAN
    BY DEF Inv, TypeOK, Iod
  <2>3. Request("READ", i, n, b, iod[i].eof) /\ Open(i) /\ PendingOn(i, "READ") = {}
    BY <1>4, NoneOnIod DEF nsock_read
  <2>4. CASE iod[i].eof = TRUE
    <3>1. Request("READ", i, n, b, TRUE)
      BY <2>3, <2>4
    <3> QED
      BY <2>1, <3>1, AtOnceWake DEF Types
  <2>5. CASE iod[i].eof = FALSE
    <3>1. Request("READ", i, n, b, FALSE)
      BY <2>3, <2>5
    <3> QED
      BY <2>1, <2>3, <3>1, WaitsWake DEF Types
  <2> QED
    BY <2>2, <2>4, <2>5
<1>5. ASSUME NEW i \in Iods, NEW b \in BOOLEAN, nsock_write(i, b)
      PROVE  Wake'
  <2>1. Request("WRITE", i, 0, b, FALSE) /\ Open(i) /\ PendingOn(i, "WRITE") = {}
    BY <1>5, NoneOnIod DEF nsock_write
  <2> QED
    BY <2>1, WaitsWake DEF Types
<1>6. ASSUME NEW i \in Iods, NEW b \in BOOLEAN, nsock_iod_delete(i, b)
      PROVE  Wake'
  BY <1>6, DeleteWake
<1>7. ASSUME NEW e \in Events, NEW notify \in BOOLEAN, nsock_event_cancel(e, notify)
      PROVE  Wake'
  BY <1>7, CancelWake
<1> QED
  BY <1>1, <1>2, <1>3, <1>4, <1>5, <1>6, <1>7 DEF Call

\* What the counters of an iod I say of the events P: what is watched is wanted.
LEMMA WantedBy ==
  ASSUME NEW I, NEW P, NEW ev, NEW i, IodExact(I, P, ev, i), NEW w \in I.watched,
         \A e \in P : ev[e].type \in Types
  PROVE  \E e \in P : ev[e].iod = i /\ ev[e].type \in {"CONNECT", Order[LastList(w)]}
<1>1. w \in {"r", "w"} /\ Waiting(P, ev, i, w) # {}
  BY DEF IodExact
<1>2. PICK e \in P : ev[e].iod = i /\ w \in Wants(ev[e].type)
  BY <1>1 DEF Waiting, Mine
<1>3. ev[e].type \in {"CONNECT", Order[LastList(w)]}
  BY <1>1, <1>2 DEF Wants, Types, Order, LastList
<1> QED
  BY <1>2, <1>3

\* The loop delivers an event: no other event of the iod waits in the same direction.
LEMMA DeliverWake ==
  ASSUME Inv, Wake, NEW e \in Held, NEW kind, NEW ended \in BOOLEAN, Deliver(e, kind, ended),
         frames = <<>>,
         \/ kind = "loop" /\ phase = "iods" /\ e = cursor
         \/ kind = "expired" /\ phase = "expired",
         UNCHANGED <<phase, batch, current, mask, list, quit, requests, arrived, closed>>,
         data' \in [Iods -> Nat], writable' \subseteq Iods,
         \A i \in Iods : ReadyFor(i)' \subseteq ReadyFor(i)
  PROVE  Wake'
<1> DEFINE i == event[e].iod
           I == Settled(iod[i], e)
<1>1. Inv' /\ Held' = Held /\ Pending' = Pending \ {e} /\ SameKind(Held, event, event')
  BY DeliverInv
<1>2. /\ event' = [event EXCEPT ![e] = [event[e] EXCEPT !.done = TRUE, !.calls = @ + 1]]
      /\ i = NoIod => UNCHANGED <<iod, armed>>
      /\ i # NoIod => iod' = [iod EXCEPT ![i] = [I EXCEPT !.eof = @ \/ ended]] /\ armed' = Rearmed(i, I)
      /\ UNCHANGED <<cursor, lists, expirables, free_events, created>>
  BY DEF Deliver
<1>3. e \in Pending /\ e \in Events /\ Held \subseteq Events /\ Pending \subseteq Held
  BY HeldIsPending, HeldFinite
<1>4. \A x \in Pending' : event'[x] = event[x] /\ x \in Pending /\ x # e
  <2>1. event \in [Events -> Event]
    BY DEF Inv, TypeOK
  <2> QED
    BY <1>1, <1>2, <1>3, <2>1
<1>5. Lessened(i)
  <2>1. \E b \in BOOLEAN : i # NoIod => iod' = [iod EXCEPT ![i] = [I EXCEPT !.eof = b]]
    <3>1. CASE i = NoIod
      BY <3>1
    <3>2. CASE i # NoIod
      <4>1. iod[i] \in Iod /\ iod[i].eof \in BOOLEAN
        BY <1>3, <3>2, EventFields DEF Inv, TypeOK, Iod
      <4>2. I.eof = iod[i].eof
        BY <4>1, SettledKeepsEof DEF Settled
      <4> HIDE DEF I
      <4>3. PICK b \in BOOLEAN : b = (I.eof \/ ended)
        BY <4>1, <4>2
      <4>4. iod' = [iod EXCEPT ![i] = [I EXCEPT !.eof = b]]
        BY <1>2, <3>2, <4>3
      <4> QED
        BY <3>2, <4>4
    <3> QED
      BY <3>1, <3>2
  <2> QED
    BY <1>2, <1>3, <2>1, SettleLessens
<1> HIDE DEF I
<1>6. OneOfAType' /\ OneDatagram'
  BY <1>1, <1>4, FewerPending
<1>7. WatchedRegistered'
  BY <1>5 DEF Wake, WatchedRegistered, Lessened
<1>8. RoundOver'
  BY DEF Wake, RoundOver
<1>9. InitialIdle'
  BY <1>1, <1>3, <1>5 DEF Wake, InitialIdle, Lessened, SameKind
<1>10. CursorInList'
  BY <1>1, <1>2, CursorHeld DEF Wake, CursorInList, SameKind
<1>11. ASSUME current # NoIod
       PROVE  /\ e = cursor /\ cursor # NoEvent /\ event[e].iod = current
              /\ event[e].type = Order[list] /\ current \in Iods /\ list \in 1 .. 3
  <2>1. phase = "iods" /\ e = cursor
    BY <1>11 DEF Wake, RoundOver
  <2>2. cursor # NoEvent
    BY <1>3, <2>1, NoEventIsNone
  <2> QED
    BY <1>11, <2>1, <2>2 DEF Inv, TypeOK, Wake, CursorInList
<1>12. ConnectsOver'
  <2> SUFFICES ASSUME current # NoIod, NEW x \in Pending', event'[x].iod = current
               PROVE  event'[x].type # "CONNECT"
    BY DEF ConnectsOver
  <2>1. event'[x] = event[x] /\ x \in Pending /\ x # e
    BY <1>4
  <2>2. CASE list > 1
    BY <2>1, <2>2 DEF Wake, ConnectsOver
  <2>3. CASE list = 1
    <3>1. event[e].type = "CONNECT"
      BY <1>11, <2>3 DEF Order
    <3> QED
      BY <1>3, <1>11, <2>1, <3>1 DEF Wake, OneOfAType
  <2> QED
    BY <1>11, <2>2, <2>3
<1>13. ReadyCovered'
  <2> SUFFICES ASSUME NEW j \in Iods, NEW w \in iod'[j].watched, w \in ReadyFor(j)'
               PROVE  Covered(j, w)'
    BY DEF ReadyCovered
  <2>1. w \in iod[j].watched /\ w \in ReadyFor(j)
    BY <1>5 DEF Lessened
  <2>2. Covered(j, w)
    BY <2>1 DEF Wake, ReadyCovered
  <2>3. CASE j \in armed
    BY <1>5, <2>3 DEF Lessened, Covered
  <2>4. CASE j \in DOMAIN batch /\ w \in batch[j]
    BY <2>4 DEF Covered
  <2>5. CASE current = j /\ w \in mask /\ Ahead(w)
    <3>1. j # NoIod
      BY ConstantsAssumption
    <3>2. list # LastList(w)
      <4> SUFFICES ASSUME list = LastList(w)
                   PROVE  FALSE
        OBVIOUS
      <4>1. list > 1
        BY DEF LastList
      <4>2. \A x \in Pending' : event'[x].type \in Types
        BY <1>3, <1>4, EventFields
      <4>3. IodExact(iod'[j], Pending', event', j)
        BY <1>1 DEF Inv
      <4>4. PICK x \in Pending' : event'[x].iod = j /\ event'[x].type \in {"CONNECT", Order[LastList(w)]}
        BY <4>2, <4>3, WantedBy
      <4>5. x \in Pending /\ x # e /\ event[x].iod = j /\ event[x].type \in {"CONNECT", Order[list]}
        BY <1>4, <4>4
      <4>6. event[x].type # "CONNECT"
        BY <2>5, <3>1, <4>1, <4>5 DEF Wake, ConnectsOver
      <4>7. event[e].iod = j /\ event[e].type = Order[list]
        BY <1>11, <2>5, <3>1
      <4> QED
        BY <1>3, <4>5, <4>6, <4>7 DEF Wake, OneOfAType
    <3>3. list < LastList(w)
      BY <2>5, <3>2 DEF Ahead
    <3> QED
      BY <2>5, <3>3 DEF Covered, Ahead, LastList
  <2> QED
    BY <2>2, <2>3, <2>4, <2>5 DEF Covered
<1> QED
  BY <1>6, <1>7, <1>8, <1>9, <1>10, <1>12, <1>13 DEF Wake

\* A handler returns: while it ran the loop stayed at the event that is recycled now.
LEMMA HandlerReturnsWake ==
  ASSUME Inv, Wake, HandlerReturns
  PROVE  Wake'
<1> DEFINE f == Head(frames)
<1>1. Inv' /\ Kept /\ Pending' = Pending
  BY HandlerReturnsInv
<1>2. /\ frames # <<>> /\ frames' = Tail(frames)
      /\ cursor' = IF f.kind = "loop" THEN After(f.event) ELSE cursor
      /\ UNCHANGED <<phase, batch, current, mask, list, iod, data, arrived, closed, writable, armed>>
  BY DEF HandlerReturns, Running, kernel
<1>3. \A x \in Held' : x \in Held /\ event'[x] = event[x]
  BY <1>1 DEF Kept
<1>4. \A x \in Pending' : event'[x] = event[x] /\ x \in Pending
  <2>1. \A x \in Pending' : x \in Held'
    BY DEF Pending
  <2> QED
    BY <1>1, <1>3, <2>1
<1>5. OneOfAType' /\ OneDatagram'
  BY <1>1, <1>4, FewerPending
<1>6. WatchedRegistered' /\ RoundOver'
  BY <1>2 DEF Wake, WatchedRegistered, RoundOver
<1>7. InitialIdle'
  BY <1>2, <1>3 DEF Wake, InitialIdle
<1>8. CursorInList'
  <2> SUFFICES ASSUME cursor' # NoEvent
               PROVE  event'[cursor'].iod = current /\ event'[cursor'].type = Order[list]
    BY <1>2 DEF CursorInList
  <2>1. cursor' \in Held'
    <3>1. Held' = Members(lists') \cup expirables'
      BY DEF Held, Listed, Members
    <3> QED
      BY <1>1, <3>1 DEF Inv, CursorOk
  <2>2. event'[cursor'] = event[cursor']
    BY <1>3, <2>1
  <2>3. CASE f.kind = "loop"
    <3>1. frames \in Seq(Frame) /\ DOMAIN frames = 1 .. Len(frames) /\ Len(frames) \in Nat /\ Len(frames) # 0
      BY <1>2, LenProperties, EmptySeq DEF Inv, FramesOk
    <3>2. f = frames[1]
      BY <1>2, <3>1
    <3>3. Len(frames) = 1
      BY <2>3, <3>1, <3>2 DEF Inv, FramesOk
    <3>4. f.event = cursor /\ phase = "iods" /\ f.event \in Held
      BY <1>2, <2>3, <3>2, <3>3 DEF Inv, BottomOk
    <3>5. cursor # NoEvent
      BY <3>4, HeldFinite, NoEventIsNone
    <3>6. cursor \in Members(lists)
      BY <3>5 DEF Inv, CursorOk
    <3>7. event[After(cursor)].iod = event[cursor].iod /\ event[After(cursor)].type = event[cursor].type
      BY <1>2, <2>3, <3>4, <3>6, AfterIsListed
    <3> QED
      BY <1>2, <2>2, <2>3, <3>4, <3>5, <3>7 DEF Wake, CursorInList
  <2>4. CASE f.kind # "loop"
    BY <1>2, <2>2, <2>4 DEF Wake, CursorInList
  <2> QED
    BY <2>3, <2>4
<1>9. ConnectsOver'
  BY <1>2, <1>4 DEF Wake, ConnectsOver, Running
<1>10. ReadyCovered'
  <2> SUFFICES ASSUME NEW j \in Iods, NEW w \in iod'[j].watched, w \in ReadyFor(j)'
               PROVE  Covered(j, w)'
    BY DEF ReadyCovered
  <2>1. w \in iod[j].watched /\ w \in ReadyFor(j)
    BY <1>2 DEF ReadyFor
  <2>2. Covered(j, w)
    BY <2>1 DEF Wake, ReadyCovered
  <2>3. Ahead(w) => list < LastList(w)
    BY <1>2, CursorHeld DEF Ahead
  <2> QED
    BY <1>2, <2>2, <2>3 DEF Covered, Ahead, LastList
<1> QED
  BY <1>5, <1>6, <1>7, <1>8, <1>9, <1>10 DEF Wake

\* The loop passes over an event: the socket was not ready for it.
LEMMA PassOverWake ==
  ASSUME Inv, Wake, NEW need \in Nat, PassOver(need), frames = <<>>, cursor # NoEvent,
         event[cursor].type # "CONNECT", event[cursor].type = "READ" => need = 1,
         UNCHANGED <<phase, batch, current, mask, list, quit, requests, arrived, closed>>,
         data' \in [Iods -> Nat], writable' \subseteq Iods,
         \A i \in Iods : ReadyFor(i)' \subseteq ReadyFor(i),
         \A w : list = LastList(w) /\ w \in mask => w \notin ReadyFor(current)'
  PROVE  Wake'
<1>1. /\ event' = [event EXCEPT ![cursor].need = need] /\ cursor' = After(cursor)
      /\ UNCHANGED <<frames, lists, expirables, free_events, created, events_pending, iod, armed>>
  BY DEF PassOver
<1>2. cursor \in Members(lists) /\ phase = "iods" /\ current # NoIod
  BY DEF Inv, CursorOk
<1>3. /\ cursor \in Events /\ Held \subseteq Events /\ Pending \subseteq Held
      /\ cursor \in Held /\ Members(lists) \subseteq Held
  BY <1>2, HeldFinite, HeldIs
<1>4. /\ \A e \in Events : /\ event'[e].iod = event[e].iod /\ event'[e].type = event[e].type
                           /\ event'[e].done = event[e].done
      /\ event'[cursor].need = need /\ \A e \in Events \ {cursor} : event'[e] = event[e]
  <2>1. event \in [Events -> Event]
    BY DEF Inv, TypeOK
  <2>2. event' = [event EXCEPT ![cursor] = [event[cursor] EXCEPT !.need = need]]
    BY <1>1, <1>3, <2>1
  <2> QED
    BY <1>3, <2>1, <2>2 DEF Event
<1>5. Held' = Held /\ Pending' = Pending
  <2>1. Held' = Held
    BY <1>1 DEF Held, Listed
  <2> QED
    BY <1>3, <1>4, <2>1 DEF Pending
<1>6. OneOfAType'
  BY <1>3, <1>4, <1>5 DEF Wake, OneOfAType
<1>7. OneDatagram'
  BY <1>3, <1>4, <1>5 DEF Wake, OneDatagram
<1>8. WatchedRegistered' /\ RoundOver'
  BY <1>1 DEF Wake, WatchedRegistered, RoundOver
<1>9. InitialIdle'
  BY <1>1, <1>3, <1>4, <1>5 DEF Wake, InitialIdle
<1>10. CursorInList'
  <2> SUFFICES ASSUME cursor' # NoEvent
               PROVE  event'[cursor'].iod = current /\ event'[cursor'].type = Order[list]
    BY DEF CursorInList
  <2>1. /\ After(cursor) \in Members(lists) /\ event[After(cursor)].iod = event[cursor].iod
        /\ event[After(cursor)].type = event[cursor].type
    BY <1>1, <1>2, AfterIsListed
  <2>2. After(cursor) \in Events
    BY <1>3, <2>1
  <2> QED
    BY <1>1, <1>4, <2>1, <2>2 DEF Wake, CursorInList
<1>11. list \in 1 .. 3 /\ list > 1
  <2>1. list \in 1 .. 3 /\ event[cursor].type = Order[list]
    BY DEF Inv, TypeOK, Wake, CursorInList
  <2> QED
    BY <2>1 DEF Order
<1>12. ConnectsOver'
  BY <1>3, <1>4, <1>5, <1>11 DEF Wake, ConnectsOver
<1>13. ReadyCovered'
  <2> SUFFICES ASSUME NEW j \in Iods, NEW w \in iod'[j].watched, w \in ReadyFor(j)'
               PROVE  Covered(j, w)'
    BY DEF ReadyCovered
  <2>1. w \in iod[j].watched /\ w \in ReadyFor(j)
    BY <1>1
  <2>2. Covered(j, w)
    BY <2>1 DEF Wake, ReadyCovered
  <2>3. current = j /\ w \in mask /\ Ahead(w) => list < LastList(w)
    BY DEF Ahead
  <2> QED
    BY <1>1, <2>2, <2>3 DEF Covered, Ahead, LastList
<1> QED
  BY <1>6, <1>7, <1>8, <1>9, <1>10, <1>12, <1>13 DEF Wake

\* A list that has no first event has no pending event.
LEMMA FirstIsNone ==
  ASSUME Inv, NEW i \in Iods, NEW k \in 1 .. 3, First(i, k) = NoEvent, NEW e \in Pending,
         event[e].iod = i
  PROVE  event[e].type # Order[k]
<1> SUFFICES ASSUME event[e].type = Order[k]
             PROVE  FALSE
  OBVIOUS
<1>1. e \in ToSet(lists[i][Order[k]]) /\ Order[k] \in Types
  BY PendingOnList
<1>2. lists[i][Order[k]] \in Seq(Events)
  BY <1>1 DEF Inv, ListsOk
<1>3. lists[i][Order[k]] # <<>>
  BY <1>1, <1>2, EmptySets
<1>4. Head(lists[i][Order[k]]) \in Events
  BY <1>2, <1>3, TailSets
<1> QED
  BY <1>3, <1>4, NoEventIsNone DEF First

\* The parts of Wake that a step keeps when it changes no event and nothing of an iod
\* but whether it is active.
Steady ==
  /\ UNCHANGED <<event, lists, expirables, frames>>
  /\ \A i \in Iods : /\ iod'[i].state = iod[i].state /\ iod'[i].registered = iod[i].registered
                     /\ iod'[i].watched = iod[i].watched

\* What a step that leaves sockets and events alone keeps.
LEMMA SteadyWake ==
  ASSUME Wake, Steady
  PROVE  /\ WatchedRegistered' /\ OneOfAType' /\ OneDatagram' /\ Held' = Held /\ Pending' = Pending
         /\ event' = event /\ frames' = frames
<1>1. Held' = Held
  BY DEF Steady, Held, Listed
<1>2. Pending' = Pending
  BY <1>1 DEF Steady, Pending
<1>3. WatchedRegistered' /\ OneOfAType' /\ OneDatagram'
  BY <1>2 DEF Wake, Steady, WatchedRegistered, OneOfAType, OneDatagram
<1> QED
  BY <1>1, <1>2, <1>3 DEF Steady

\* Steps of the loop that change the phase only.
LEMMA PhaseWake ==
  ASSUME Wake, UNCHANGED <<batch, current, mask, list, cursor, frames, pool, kernel, armed>>,
         RoundOver'
  PROVE  Wake'
<1>1. Steady
  BY DEF Steady, pool
<1>2. /\ WatchedRegistered' /\ OneOfAType' /\ OneDatagram' /\ Held' = Held /\ Pending' = Pending
      /\ event' = event /\ frames' = frames /\ iod' = iod
  BY <1>1, SteadyWake DEF pool
<1>3. InitialIdle' /\ CursorInList' /\ ConnectsOver'
  BY <1>2 DEF Wake, InitialIdle, CursorInList, ConnectsOver, Running
<1>4. ReadyCovered'
  BY <1>2 DEF Wake, ReadyCovered, ReadyFor, Covered, Ahead, kernel
<1> QED
  BY <1>2, <1>3, <1>4 DEF Wake

\* epoll_wait() reports the sockets of the ready list.
LEMMA EpollWaitWake ==
  ASSUME Inv, Wake, EpollWait
  PROVE  Wake'
<1>1. /\ phase \in {"first", "wait"} /\ phase' = "iods" /\ armed' = {}
      /\ batch' = [i \in {j \in armed : Reported(j) # {}} |-> Reported(i)]
      /\ UNCHANGED <<current, mask, list, cursor, frames, pool, kernel>>
  BY DEF EpollWait
<1>2. Steady /\ iod' = iod
  BY <1>1 DEF Steady, pool
<1>3. /\ WatchedRegistered' /\ OneOfAType' /\ OneDatagram' /\ Held' = Held /\ Pending' = Pending
      /\ event' = event /\ frames' = frames
  BY <1>2, SteadyWake
<1>4. DOMAIN batch = {} /\ current = NoIod /\ NoIod \notin Iods
  BY <1>1, ConstantsAssumption DEF Wake, RoundOver
<1>5. RoundOver' /\ CursorInList' /\ ConnectsOver'
  BY <1>1, <1>3, <1>4 DEF Wake, RoundOver, CursorInList, ConnectsOver
<1>6. InitialIdle'
  BY <1>1, <1>2, <1>3, <1>4 DEF Wake, InitialIdle
<1>7. ReadyCovered'
  <2> SUFFICES ASSUME NEW j \in Iods, NEW w \in iod'[j].watched, w \in ReadyFor(j)'
               PROVE  Covered(j, w)'
    BY DEF ReadyCovered
  <2>1. w \in iod[j].watched /\ w \in ReadyFor(j)
    BY <1>1, <1>2 DEF ReadyFor, kernel
  <2>2. j \in armed
    BY <1>4, <2>1 DEF Wake, ReadyCovered, Covered
  <2>3. w \in Reported(j)
    BY <2>1 DEF Reported
  <2>4. j \in DOMAIN batch' /\ w \in batch'[j]
    BY <1>1, <2>2, <2>3
  <2> QED
    BY <2>4 DEF Covered
<1> QED
  BY <1>3, <1>5, <1>6, <1>7 DEF Wake

\* The loop comes to an iod of the batch.
LEMMA NextIodWake ==
  ASSUME Inv, Wake, NEW i \in Iods, NextIod(i)
  PROVE  Wake'
<1>1. /\ phase = "iods" /\ frames = <<>> /\ current = NoIod /\ i \in DOMAIN batch
      /\ current' = i /\ mask' = batch[i] /\ batch' = [j \in DOMAIN batch \ {i} |-> batch[j]]
      /\ list' = 1 /\ cursor' = First(i, 1)
      /\ UNCHANGED <<phase, frames, pool, kernel, armed>>
  BY DEF NextIod, Running
<1>2. Steady /\ iod' = iod
  BY <1>1 DEF Steady, pool
<1>3. /\ WatchedRegistered' /\ OneOfAType' /\ OneDatagram' /\ Held' = Held /\ Pending' = Pending
      /\ event' = event /\ frames' = frames
  BY <1>2, SteadyWake
<1>4. RoundOver'
  BY <1>1 DEF RoundOver
<1>5. InitialIdle'
  BY <1>1, <1>2, <1>3 DEF Wake, InitialIdle
<1>6. CursorInList'
  BY <1>1, <1>3, FirstIsListed DEF CursorInList
<1>7. ConnectsOver'
  <2> SUFFICES ASSUME cursor' = NoEvent, NEW e \in Pending, event[e].iod = i
               PROVE  event[e].type # "CONNECT"
    BY <1>1, <1>3 DEF ConnectsOver, Running
  <2> QED
    BY <1>1, FirstIsNone DEF Order
<1>8. ReadyCovered'
  <2> SUFFICES ASSUME NEW j \in Iods, NEW w \in iod'[j].watched, w \in ReadyFor(j)'
               PROVE  Covered(j, w)'
    BY DEF ReadyCovered
  <2>1. w \in iod[j].watched /\ w \in ReadyFor(j)
    BY <1>1, <1>2 DEF ReadyFor, kernel
  <2>2. j \in armed \/ (j \in DOMAIN batch /\ w \in batch[j])
    BY <1>1, <2>1, ConstantsAssumption DEF Wake, ReadyCovered, Covered
  <2>3. 1 < LastList(w)
    BY DEF LastList
  <2>4. CASE j = i /\ w \in batch[j]
    <3>1. Ahead(w)'
      BY <1>1, <2>3 DEF Ahead, LastList
    <3> QED
      BY <1>1, <2>4, <3>1 DEF Covered
  <2> QED
    BY <1>1, <2>2, <2>4 DEF Covered
<1> QED
  BY <1>3, <1>4, <1>5, <1>6, <1>7, <1>8 DEF Wake

\* The loop comes to the next list of an iod.
LEMMA NextListWake ==
  ASSUME Inv, Wake, NextList
  PROVE  Wake'
<1>1. /\ phase = "iods" /\ frames = <<>> /\ current # NoIod /\ cursor = NoEvent /\ list < 3
      /\ list' = list + 1 /\ cursor' = First(current, list + 1)
      /\ UNCHANGED <<phase, batch, current, mask, frames, pool, kernel, armed>>
  BY DEF NextList, Running
<1>2. Steady /\ iod' = iod
  BY <1>1 DEF Steady, pool
<1>3. /\ WatchedRegistered' /\ OneOfAType' /\ OneDatagram' /\ Held' = Held /\ Pending' = Pending
      /\ event' = event /\ frames' = frames
  BY <1>2, SteadyWake
<1>4. list \in 1 .. 3 /\ list + 1 \in 1 .. 3 /\ current \in Iods
  BY <1>1 DEF Inv, TypeOK
<1>5. RoundOver' /\ InitialIdle'
  BY <1>1, <1>2, <1>3 DEF Wake, RoundOver, InitialIdle
<1>6. CursorInList'
  BY <1>1, <1>3, <1>4, FirstIsListed DEF CursorInList
<1>7. ConnectsOver'
  BY <1>1, <1>3 DEF Wake, ConnectsOver
<1>8. ReadyCovered'
  <2> SUFFICES ASSUME NEW j \in Iods, NEW w \in iod'[j].watched, w \in ReadyFor(j)'
               PROVE  Covered(j, w)'
    BY DEF ReadyCovered
  <2>1. w \in iod[j].watched /\ w \in ReadyFor(j)
    BY <1>1, <1>2 DEF ReadyFor, kernel
  <2>2. Covered(j, w)
    BY <2>1 DEF Wake, ReadyCovered
  <2>3. CASE current = j /\ w \in mask /\ Ahead(w)
    <3>1. list < LastList(w) /\ LastList(w) \in {2, 3}
      BY <1>1, <2>3 DEF Ahead, LastList
    <3>2. CASE list + 1 < LastList(w)
      <4>1. Ahead(w)'
        BY <1>1, <3>2 DEF Ahead, LastList
      <4> QED
        BY <1>1, <2>3, <4>1 DEF Covered
    <3>3. CASE list + 1 = LastList(w)
      <4>1. PICK e \in Pending : event[e].iod = j /\ event[e].type \in {"CONNECT", Order[list + 1]}
        BY <2>1, <3>3, WatchedIsWanted
      <4>2. event[e].type # "CONNECT"
        BY <1>1, <2>3, <4>1 DEF Wake, ConnectsOver
      <4>3. First(j, list + 1) # NoEvent
        BY <1>4, <4>1, <4>2, FirstIsNone
      <4>4. First(j, list + 1) \in Held
        BY <1>4, <4>3, FirstIsListed, HeldIs
      <4>5. ~event[First(j, list + 1)].done
        BY <1>1, <4>4, HeldIsPending DEF Pending
      <4>6. cursor' # NoEvent /\ ~event'[cursor'].done
        BY <1>1, <1>3, <2>3, <4>3, <4>5
      <4>7. Ahead(w)'
        BY <1>1, <3>3, <4>6 DEF Ahead, LastList
      <4> QED
        BY <1>1, <2>3, <4>7 DEF Covered
    <3> QED
      BY <1>4, <3>1, <3>2, <3>3
  <2> QED
    BY <1>1, <2>2, <2>3 DEF Covered
<1> QED
  BY <1>3, <1>5, <1>6, <1>7, <1>8 DEF Wake

\* The loop leaves an iod: nothing is ahead on it.
LEMMA EndIodWake ==
  ASSUME Inv, Wake, EndIod
  PROVE  Wake'
<1>1. /\ phase = "iods" /\ frames = <<>> /\ current # NoIod /\ cursor = NoEvent /\ list = 3
      /\ iod' = [iod EXCEPT ![current].active = @ /\ iod[current].state # "DELETED"]
      /\ current' = NoIod /\ mask' = {} /\ list' = 1
      /\ UNCHANGED <<phase, batch, cursor, frames, event, lists, expirables, kernel, armed>>
  BY DEF EndIod, Running
<1>2. Steady
  <2>1. iod \in [Iods -> Iod] /\ current \in Iods
    BY <1>1 DEF Inv, TypeOK
  <2>2. PICK a : iod' = [iod EXCEPT ![current] = [iod[current] EXCEPT !.active = a]]
    <3>1. PICK a : a = (iod[current].active /\ iod[current].state # "DELETED")
      OBVIOUS
    <3> QED
      BY <1>1, <2>1, <3>1
  <2> QED
    BY <1>1, <2>1, <2>2 DEF Steady, Iod
<1>3. /\ WatchedRegistered' /\ OneOfAType' /\ OneDatagram' /\ Held' = Held /\ Pending' = Pending
      /\ event' = event /\ frames' = frames
  BY <1>2, SteadyWake
<1>4. RoundOver' /\ CursorInList' /\ ConnectsOver'
  BY <1>1 DEF RoundOver, CursorInList, ConnectsOver
<1>5. InitialIdle'
  BY <1>1, <1>2, <1>3, ConstantsAssumption DEF Wake, InitialIdle, Steady
<1>6. ReadyCovered'
  <2> SUFFICES ASSUME NEW j \in Iods, NEW w \in iod'[j].watched, w \in ReadyFor(j)'
               PROVE  Covered(j, w)'
    BY DEF ReadyCovered
  <2>1. w \in iod[j].watched /\ w \in ReadyFor(j)
    BY <1>1, <1>2 DEF ReadyFor, kernel, Steady
  <2>2. ~Ahead(w)
    BY <1>1 DEF Ahead, LastList
  <2>3. j \in armed \/ (j \in DOMAIN batch /\ w \in batch[j])
    BY <2>1, <2>2 DEF Wake, ReadyCovered, Covered
  <2> QED
    BY <1>1, <2>3 DEF Covered
<1> QED
  BY <1>3, <1>4, <1>5, <1>6 DEF Wake

\* The kernel puts a socket on the ready list when something that is watched happens.
LEMMA KernelWake ==
  ASSUME Inv, Wake, NEW i \in Iods, Arrive(i) \/ PeerCloses(i) \/ Drains(i)
  PROVE  Wake'
<1>1. /\ UNCHANGED loop /\ UNCHANGED pool /\ UNCHANGED frames /\ Open(i)
      /\ armed \subseteq armed' /\ armed' \subseteq armed \cup {i}
  BY DEF Arrive, PeerCloses, Drains
<1>2. Steady /\ UNCHANGED <<iod, phase, batch, current, mask, list, cursor>>
  BY <1>1 DEF Steady, pool, loop
<1>3. /\ WatchedRegistered' /\ OneOfAType' /\ OneDatagram' /\ Held' = Held /\ Pending' = Pending
      /\ event' = event /\ frames' = frames
  BY <1>2, SteadyWake
<1>4. RoundOver' /\ CursorInList' /\ ConnectsOver'
  BY <1>2, <1>3 DEF Wake, RoundOver, CursorInList, ConnectsOver, Running
<1>5. InitialIdle'
  BY <1>1, <1>2, <1>3 DEF Wake, InitialIdle, Open
<1>6. ReadyCovered'
  <2> SUFFICES ASSUME NEW j \in Iods, NEW w \in iod'[j].watched, w \in ReadyFor(j)'
               PROVE  Covered(j, w)'
    BY DEF ReadyCovered
  <2>1. w \in iod[j].watched
    BY <1>2
  <2>2. CASE w \in ReadyFor(j)
    <3>1. Covered(j, w)
      BY <2>1, <2>2 DEF Wake, ReadyCovered
    <3> QED
      BY <1>1, <1>2, <1>3, <3>1 DEF Covered, Ahead
  <2>3. CASE w \notin ReadyFor(j)
    <3>1. data \in [Iods -> Nat]
      BY DEF Inv, TypeOK
    <3>2. CASE Arrive(i)
      BY <2>1, <2>3, <3>1, <3>2 DEF Arrive, ReadyFor, Covered
    <3>3. CASE PeerCloses(i)
      BY <2>1, <2>3, <3>3 DEF PeerCloses, ReadyFor, Covered, Wake, WatchedRegistered
    <3>4. CASE Drains(i)
      BY <2>1, <2>3, <3>4 DEF Drains, ReadyFor, Covered
    <3> QED
      BY <3>2, <3>3, <3>4
  <2> QED
    BY <2>2, <2>3
<1> QED
  BY <1>3, <1>4, <1>5, <1>6 DEF Wake

\* Time changes nothing of it.
LEMMA DueWake ==
  ASSUME Inv, Wake, NEW e \in Events, BecomesDue(e)
  PROVE  Wake'
<1>1. /\ event' = [event EXCEPT ![e].due = TRUE]
      /\ UNCHANGED <<phase, batch, current, mask, list, cursor, frames, lists, expirables, iod,
                     data, arrived, closed, writable, armed>>
  BY DEF BecomesDue, loop, kernel
<1>2. /\ \A x \in Events : /\ event'[x].iod = event[x].iod /\ event'[x].type = event[x].type
                           /\ event'[x].done = event[x].done /\ event'[x].need = event[x].need
  <2>1. event \in [Events -> Event]
    BY DEF Inv, TypeOK
  <2>2. event' = [event EXCEPT ![e] = [event[e] EXCEPT !.due = TRUE]]
    BY <1>1, <2>1
  <2> QED
    BY <2>1, <2>2 DEF Event
<1>3. Held \subseteq Events /\ Pending \subseteq Events
  BY HeldFinite
<1>4. Held' = Held /\ Pending' = Pending
  <2>1. Held' = Held
    BY <1>1 DEF Held, Listed
  <2> QED
    BY <1>2, <1>3, <2>1 DEF Pending
<1>5. OneOfAType' /\ OneDatagram'
  BY <1>2, <1>3, <1>4, FewerPending
<1>6. WatchedRegistered' /\ RoundOver'
  BY <1>1 DEF Wake, WatchedRegistered, RoundOver
<1>7. InitialIdle'
  BY <1>1, <1>2, <1>3, <1>4 DEF Wake, InitialIdle
<1>8. cursor # NoEvent => cursor \in Events
  BY CursorHeld
<1>9. CursorInList'
  BY <1>1, <1>2, <1>8 DEF Wake, CursorInList
<1>10. ConnectsOver'
  BY <1>1, <1>2, <1>3, <1>4 DEF Wake, ConnectsOver, Running
<1>11. ReadyCovered'
  BY <1>1, <1>2, <1>8 DEF Wake, ReadyCovered, ReadyFor, Covered, Ahead
<1> QED
  BY <1>5, <1>6, <1>7, <1>9, <1>10, <1>11 DEF Wake

\* Every step of the loop.
LEMMA LoopWake ==
  ASSUME Inv, Wake, LoopStep \/ LoopReturn(TRUE)
  PROVE  Wake'
<1>1. /\ current \in Iods \cup {NoIod} /\ list \in 1 .. 3 /\ data \in [Iods -> Nat]
      /\ writable \subseteq Iods /\ closed \subseteq Iods
  BY DEF Inv, TypeOK
<1>2. CASE LoopStart
  <2>1. phase = "user" /\ UNCHANGED <<batch, current, mask, list, cursor, frames, pool, kernel, armed>>
    BY <1>2 DEF LoopStart
  <2>2. RoundOver'
    BY <2>1 DEF Wake, RoundOver
  <2> QED
    BY <2>1, <2>2, PhaseWake
<1>3. ASSUME NEW timeout \in BOOLEAN, LoopReturn(timeout)
      PROVE  Wake'
  <2>1. phase = "wait" /\ UNCHANGED <<batch, current, mask, list, cursor, frames, pool, kernel, armed>>
    BY <1>3 DEF LoopReturn
  <2>2. RoundOver'
    BY <2>1 DEF Wake, RoundOver
  <2> QED
    BY <2>1, <2>2, PhaseWake
<1>4. CASE EndIods
  <2>1. /\ current = NoIod /\ DOMAIN batch = {}
        /\ UNCHANGED <<batch, current, mask, list, cursor, frames, pool, kernel, armed>>
    BY <1>4 DEF EndIods
  <2>2. RoundOver'
    BY <2>1 DEF RoundOver
  <2> QED
    BY <2>1, <2>2, PhaseWake
<1>5. CASE EndExpired
  <2>1. phase = "expired" /\ UNCHANGED <<batch, current, mask, list, cursor, frames, pool, kernel, armed>>
    BY <1>5 DEF EndExpired
  <2>2. RoundOver'
    BY <2>1 DEF Wake, RoundOver
  <2> QED
    BY <2>1, <2>2, PhaseWake
<1>6. ASSUME NEW type, AtEvent(type)
      PROVE  /\ phase = "iods" /\ frames = <<>> /\ cursor # NoEvent /\ event[cursor].type = type
             /\ cursor \in Held /\ cursor \in Pending /\ cursor \in Events
             /\ current \in Iods /\ type = Order[list]
             /\ UNCHANGED <<phase, batch, current, mask, list, quit, requests, arrived, closed>>
  <2>1. /\ phase = "iods" /\ frames = <<>> /\ cursor # NoEvent /\ event[cursor].type = type
        /\ UNCHANGED <<phase, batch, current, mask, list, quit, requests, arrived, closed>>
    BY <1>6 DEF AtEvent, Running
  <2>2. cursor \in Held /\ cursor \in Events
    BY <2>1, CursorHeld
  <2>3. current \in Iods /\ type = Order[list]
    BY <1>1, <2>1 DEF Inv, CursorOk, Wake, CursorInList
  <2> QED
    BY <2>1, <2>2, <2>3, HeldIsPending
<1>7. CASE ProcessConnect
  <2>1. AtEvent("CONNECT") /\ Deliver(cursor, "loop", FALSE) /\ UNCHANGED <<data, writable>>
    BY <1>7 DEF ProcessConnect
  <2>2. /\ phase = "iods" /\ frames = <<>> /\ cursor \in Held
        /\ UNCHANGED <<phase, batch, current, mask, list, quit, requests, arrived, closed>>
    BY <1>6, <2>1
  <2>3. \A i \in Iods : ReadyFor(i)' \subseteq ReadyFor(i)
    BY <2>1, <2>2 DEF ReadyFor
  <2> QED
    BY <1>1, <2>1, <2>2, <2>3, DeliverWake
<1>8. ASSUME NEW fails \in BOOLEAN, ProcessRead(fails)
      PROVE  Wake'
  <2> DEFINE tried == {"r", "x"} \cap mask # {}
             got == IF tried /\ data[current] > 0 THEN 1 ELSE 0
             need == event[cursor].need - got
             ended == tried /\ got = 0 /\ current \in closed
  <2>1. /\ AtEvent("READ") /\ data' = [data EXCEPT ![current] = @ - got]
        /\ \/ Deliver(cursor, "loop", ended)
           \/ need # 0 /\ ~ended /\ PassOver(need)
        /\ UNCHANGED writable
    BY <1>8 DEF ProcessRead
  <2>2. /\ phase = "iods" /\ frames = <<>> /\ cursor # NoEvent /\ event[cursor].type = "READ"
        /\ cursor \in Held /\ cursor \in Pending /\ cursor \in Events
        /\ current \in Iods /\ "READ" = Order[list]
        /\ UNCHANGED <<phase, batch, current, mask, list, quit, requests, arrived, closed>>
    BY <1>6, <2>1
  <2>3. event[cursor].need = 1
    BY <2>2 DEF Wake, OneDatagram
  <2>4. /\ got \in {0, 1} /\ need \in {0, 1} /\ ended \in BOOLEAN
        /\ data[current] - got \in Nat /\ data[current] - got <= data[current] /\ data[current] \in Nat
    BY <1>1, <2>2, <2>3
  <2>5. /\ data' \in [Iods -> Nat] /\ writable' \subseteq Iods
        /\ \A i \in Iods : data'[i] <= data[i]
    <3> HIDE DEF got
    <3> QED
      BY <1>1, <2>1, <2>2, <2>4
  <2>6. \A i \in Iods : ReadyFor(i)' \subseteq ReadyFor(i)
    BY <1>1, <2>1, <2>2, <2>5 DEF ReadyFor
  <2>7. CASE Deliver(cursor, "loop", ended)
    <3> HIDE DEF ended
    <3> QED
      BY <2>2, <2>4, <2>5, <2>6, <2>7, DeliverWake
  <2>8. CASE need # 0 /\ ~ended /\ PassOver(need)
    <3>1. need = 1 /\ got = 0
      BY <2>3, <2>4, <2>8
    <3>2. list = 2
      BY <1>1, <2>2 DEF Order
    <3>3. data'[current] = data[current]
      <4> HIDE DEF got
      <4> QED
        BY <1>1, <2>1, <2>2, <3>1
    <3>4. "r" \in mask => data[current] = 0 /\ current \notin closed
      BY <1>1, <2>2, <2>8, <3>1
    <3>5. \A w : list = LastList(w) /\ w \in mask => w \notin ReadyFor(current)'
      BY <2>2, <3>2, <3>3, <3>4 DEF LastList, ReadyFor
    <3>6. PassOver(1)
      BY <2>8, <3>1
    <3> QED
      BY <2>2, <2>5, <2>6, <3>5, <3>6, PassOverWake
  <2> QED
    BY <2>1, <2>7, <2>8
<1>9. ASSUME NEW all \in BOOLEAN, ProcessWrite(all)
      PROVE  Wake'
  <2> DEFINE tried == {"w", "x"} \cap mask # {}
  <2>1. /\ AtEvent("WRITE") /\ writable' = IF tried /\ ~all THEN writable \ {current} ELSE writable
        /\ Deliver(cursor, "loop", FALSE) \/ (~all /\ PassOver(0))
        /\ UNCHANGED data
    BY <1>9 DEF ProcessWrite
  <2>2. /\ phase = "iods" /\ frames = <<>> /\ cursor # NoEvent /\ event[cursor].type = "WRITE"
        /\ cursor \in Held /\ current \in Iods /\ "WRITE" = Order[list]
        /\ UNCHANGED <<phase, batch, current, mask, list, quit, requests, arrived, closed>>
    BY <1>6, <2>1
  <2>3. /\ data' \in [Iods -> Nat] /\ writable' \subseteq writable /\ writable' \subseteq Iods
    BY <1>1, <2>1
  <2>4. \A i \in Iods : ReadyFor(i)' \subseteq ReadyFor(i)
    BY <2>1, <2>2, <2>3 DEF ReadyFor
  <2>5. CASE Deliver(cursor, "loop", FALSE)
    BY <2>2, <2>3, <2>4, <2>5, DeliverWake
  <2>6. CASE ~all /\ PassOver(0)
    <3>1. list = 3
      BY <1>1, <2>2 DEF Order
    <3>2. "w" \in mask => current \notin writable'
      BY <2>1, <2>6
    <3>3. \A w : list = LastList(w) /\ w \in mask => w \notin ReadyFor(current)'
      BY <2>2, <3>1, <3>2 DEF LastList, ReadyFor
    <3> QED
      BY <2>2, <2>3, <2>4, <2>6, <3>3, PassOverWake
  <2> QED
    BY <2>1, <2>5, <2>6
<1>10. ASSUME NEW e \in Events, ProcessExpired(e)
       PROVE  Wake'
  <2>1. /\ phase = "expired" /\ frames = <<>> /\ e \in expirables /\ Deliver(e, "expired", FALSE)
        /\ UNCHANGED <<phase, batch, current, mask, list, quit, requests, kernel>>
    BY <1>10 DEF ProcessExpired, Running
  <2>2. e \in Held
    BY <2>1 DEF Held
  <2>3. UNCHANGED <<data, arrived, closed, writable>>
    BY <2>1 DEF kernel
  <2>4. \A i \in Iods : ReadyFor(i)' \subseteq ReadyFor(i)
    BY <2>3 DEF ReadyFor
  <2> QED
    BY <1>1, <2>1, <2>2, <2>3, <2>4, DeliverWake
<1> QED
  BY <1>2, <1>3, <1>4, <1>5, <1>7, <1>8, <1>9, <1>10, EpollWaitWake, NextIodWake, NextListWake,
     EndIodWake, HandlerReturnsWake
     DEF LoopStep

\* At the start no iod is open.
LEMMA WakeInit ==
  ASSUME Init
  PROVE  Wake
<1>1. /\ phase = "user" /\ DOMAIN batch = {} /\ current = NoIod /\ cursor = NoEvent
      /\ expirables = {} /\ armed = {} /\ iod = [i \in Iods |-> NewIod]
      /\ lists = [i \in Iods |-> [t \in Types |-> <<>>]]
  BY DEF Init
<1>2. \A i \in Iods : iod[i].watched = {}
  BY <1>1 DEF NewIod
<1>3. Held = {}
  <2>1. \A i \in Iods, t \in Types : ToSet(lists[i][t]) = {}
    BY <1>1 DEF ToSet
  <2> QED
    BY <1>1, <2>1 DEF Held, Listed
<1>4. Pending = {}
  BY <1>3 DEF Pending
<1>5. WatchedRegistered /\ ReadyCovered
  BY <1>2 DEF WatchedRegistered, ReadyCovered
<1>6. OneOfAType /\ OneDatagram
  BY <1>4 DEF OneOfAType, OneDatagram
<1>7. RoundOver /\ CursorInList /\ ConnectsOver
  BY <1>1 DEF RoundOver, CursorInList, ConnectsOver
<1>8. InitialIdle
  BY <1>1, <1>3, ConstantsAssumption DEF InitialIdle
<1> QED
  BY <1>5, <1>6, <1>7, <1>8 DEF Wake

\* Every step keeps it.
LEMMA WakeNext ==
  ASSUME OneAtATime, Inv, Wake, [Next]_vars
  PROVE  Wake'
<1>1. CASE UNCHANGED vars
  <2>1. UNCHANGED <<batch, current, mask, list, cursor, frames, pool, kernel, armed, phase>>
    BY <1>1 DEF vars, loop
  <2>2. RoundOver'
    BY <2>1 DEF Wake, RoundOver
  <2> QED
    BY <2>1, <2>2, PhaseWake
<1>2. CASE Kernel
  BY <1>2, KernelWake DEF Kernel
<1>3. CASE Time
  BY <1>3, DueWake DEF Time
<1> QED
  BY <1>1, <1>2, <1>3, CallWake, LoopWake DEF Next

\* While nsock waits, what is covered is on the ready list.
LEMMA WakeImplies ==
  ASSUME OneAtATime, Inv, Wake
  PROVE  NoLostWakeup
<1> SUFFICES ASSUME phase \in {"first", "wait"}, NEW e \in Pending, event[e].iod \in Iods \ armed,
                    NEW w \in ReadyFor(event[e].iod) \cap Wants(event[e].type)
             PROVE  FALSE
  BY DEF NoLostWakeup
<1>1. w \in iod[event[e].iod].watched
  BY PendingOnList
<1>2. Covered(event[e].iod, w)
  BY <1>1 DEF Wake, ReadyCovered
<1>3. DOMAIN batch = {} /\ current = NoIod
  BY DEF Wake, RoundOver
<1> QED
  BY <1>2, <1>3, ConstantsAssumption DEF Covered

-------------------------------------------------------------------------------
(* The theorems. *)

\* A pool that was just made satisfies the invariant.
LEMMA InvInit == Init => Inv
<1> SUFFICES ASSUME Init PROVE Inv
  OBVIOUS
<1>1. <<>> \in Seq(Events) /\ <<>> \in Seq(Frame) /\ DOMAIN <<>> = {} /\ IsInjective(<<>>)
      /\ ToSet(<<>>) = {}
  <2>1. <<>> \in Seq(Events) /\ <<>> \in Seq(Frame) /\ ToSet(<<>>) = {}
    BY EmptySeq, EmptySets
  <2>2. DOMAIN <<>> = {}
    BY EmptySeq, LenProperties
  <2> QED
    BY <2>1, <2>2 DEF IsInjective
<1>2. \A i \in Iods, t \in Types : lists[i][t] = <<>>
  BY DEF Init
<1>3. Members(lists) = {}
  BY <1>1, <1>2 DEF Members
<1>4. Held = {} /\ Pending = {}
  <2>1. Held = {}
    BY <1>3, HeldIs DEF Init
  <2> QED
    BY <2>1 DEF Pending
<1>5. \A e \in Events : event[e] = Blank
  BY DEF Init
<1>6. ListsOk(lists, event)
  <2>1. lists \in [Iods -> [Types -> Seq(Events)]]
    BY <1>1 DEF Init
  <2>2. \A i \in Iods : lists[i]["TIMER"] = <<>>
    BY <1>2 DEF Types
  <2> QED
    BY <1>1, <1>2, <2>1, <2>2 DEF ListsOk
<1>7. HeapOk(lists, expirables, event)
  BY DEF Init, HeapOk
<1>8. FramesOk(frames, event) /\ BottomOk(frames, Held, phase, cursor)
  BY <1>1 DEF Init, FramesOk, BottomOk
<1>9. DoneOk(frames, Held, event)
  BY <1>4 DEF DoneOk
<1>10. Owned(Held, frames, free_events, created)
  <2>1. Immediate(frames) = {} /\ free_events = <<>> /\ created = 0
    BY <1>1 DEF Init, Immediate
  <2> QED
    BY <1>1, <1>4, <2>1 DEF Owned
<1>11. CursorOk(lists, phase, current, cursor) /\ created <= requests
  BY DEF Init, CursorOk
<1>12. Cardinality({}) = 0
  BY FS_EmptySet
<1>13. events_pending = Cardinality(Pending)
  BY <1>4, <1>12 DEF Init
<1>14. ASSUME NEW i \in Iods
       PROVE  IodExact(iod[i], Pending, event, i)
  <2>1. Mine(Pending, event, i) = {} /\ \A w : Waiting(Pending, event, i, w) = {}
    BY <1>4 DEF Mine, Waiting
  <2>2. iod[i] = NewIod
    BY DEF Init
  <2> QED
    BY <1>12, <2>1, <2>2 DEF IodExact, NewIod
<1>15. CallsOk(Pending, event)
  BY <1>4, <1>5 DEF CallsOk, Blank
<1>16. TypeOK
  <2>1. event \in [Events -> Event]
    <3>1. Blank \in Event
      BY DEF Blank, Event, Types
    <3> QED
      BY <3>1 DEF Init
  <2>2. iod \in [Iods -> Iod]
    <3>1. NewIod \in Iod
      BY DEF NewIod, Iod
    <3> QED
      BY <3>1 DEF Init
  <2>3. MaxRequests \in Nat /\ MaxData \in Nat
    BY ConstantsAssumption
  <2>4. DOMAIN batch = {}
    BY DEF Init
  <2>5. data \in [Iods -> Nat] /\ arrived \in [Iods -> 0 .. MaxData]
    BY <2>3 DEF Init
  <2>6. created \in 0 .. MaxRequests /\ requests \in 0 .. MaxRequests
    BY <2>3 DEF Init
  <2>7. /\ DOMAIN frames = {} /\ free_events \in Seq(Events)
        /\ \A i \in Iods, t \in Types : lists[i][t] \in Seq(Events)
    BY <1>1, <1>2 DEF Init
  <2>8. /\ phase \in {"user", "first", "wait", "iods", "expired"}
        /\ current \in Iods \cup {NoIod} /\ mask \subseteq {"r", "w", "x"}
        /\ list \in 1 .. 3 /\ cursor \in Events \cup {NoEvent} /\ expirables \subseteq Events
        /\ events_pending \in Nat /\ quit \in BOOLEAN
        /\ closed \cup writable \cup armed \subseteq Iods
    <3>1. /\ phase = "user" /\ current = NoIod /\ mask = {} /\ list = 1 /\ cursor = NoEvent
          /\ expirables = {} /\ events_pending = 0 /\ quit = FALSE
          /\ closed = {} /\ writable = {} /\ armed = {}
      BY DEF Init
    <3>2. quit \in BOOLEAN
      BY <3>1, Zenon
    <3>3. phase \in {"user", "first", "wait", "iods", "expired"} /\ mask \subseteq {"r", "w", "x"}
      BY <3>1
    <3>4. current \in Iods \cup {NoIod} /\ cursor \in Events \cup {NoEvent}
      BY <3>1
    <3>5. expirables \subseteq Events /\ closed \cup writable \cup armed \subseteq Iods
      BY <3>1
    <3>6. events_pending \in Nat /\ list \in 1 .. 3
      BY <3>1
    <3> QED
      BY <3>2, <3>3, <3>4, <3>5, <3>6
  <2> QED
    BY <2>1, <2>2, <2>4, <2>5, <2>6, <2>7, <2>8 DEF TypeOK
<1> QED
  BY <1>6, <1>7, <1>8, <1>9, <1>10, <1>11, <1>13, <1>14, <1>15, <1>16 DEF Inv

\* Every step keeps it.
LEMMA InvNext == Inv /\ [Next]_vars => Inv'
<1> SUFFICES ASSUME Inv, [Next]_vars PROVE Inv'
  OBVIOUS
<1>1. CASE Next
  BY <1>1, CallInv, EnvironmentInv, LoopInv DEF Next
<1>2. CASE UNCHANGED vars
  <2>1. UNCHANGED <<loop, frames, pool, quit, requests, kernel, armed>>
    BY <1>2 DEF vars
  <2>2. TypeOK'
    BY <2>1 DEF Inv, TypeOK, loop, pool, kernel
  <2>3. BottomOk(frames, Held, phase', cursor') /\ CursorOk(lists, phase', current', cursor')
    BY <2>1 DEF Inv, loop
  <2>4. requests <= requests' /\ requests' \in Nat
    BY <2>1, HeldFinite
  <2> QED
    BY <2>1, <2>2, <2>3, <2>4, QuietStep DEF pool
<1> QED
  BY <1>1, <1>2

\* The invariant holds in every state of every behaviour.
LEMMA InvAlways == Spec => []Inv
<1> QED
  BY InvInit, InvNext, PTL DEF Spec

\* The invariant says what the counters count.
LEMMA InvCounts == Inv => CountsExact
<1> SUFFICES ASSUME Inv PROVE CountsExact
  OBVIOUS
<1>1. events_pending = Cardinality(Pending)
  BY DEF Inv
<1>2. ASSUME NEW i \in Iods
      PROVE  LET mine == {e \in Pending : event[e].iod = i}
                 readers == {e \in mine : "r" \in Wants(event[e].type)}
                 writers == {e \in mine : "w" \in Wants(event[e].type)}
             IN /\ iod[i].events_pending = Cardinality(mine)
                /\ iod[i].readsd_count = Cardinality(readers)
                /\ iod[i].writesd_count = Cardinality(writers)
                /\ iod[i].watched = {w \in {"r", "w"} : IF w = "r" THEN readers # {} ELSE writers # {}}
  <2> DEFINE M == Mine(Pending, event, i)
             R == Waiting(Pending, event, i, "r")
             W == Waiting(Pending, event, i, "w")
  <2>1. /\ iod[i].events_pending = Cardinality(M) /\ iod[i].readsd_count = Cardinality(R)
        /\ iod[i].writesd_count = Cardinality(W)
        /\ iod[i].watched = {w \in {"r", "w"} : Waiting(Pending, event, i, w) # {}}
    BY DEF Inv, IodExact
  <2>2. iod[i].watched = {w \in {"r", "w"} : IF w = "r" THEN R # {} ELSE W # {}}
    BY <2>1
  <2>3. /\ M = {e \in Pending : event[e].iod = i}
        /\ R = {e \in M : "r" \in Wants(event[e].type)}
        /\ W = {e \in M : "w" \in Wants(event[e].type)}
    BY DEF Mine, Waiting
  <2> HIDE DEF M, R, W
  <2> QED
    BY <2>1, <2>2, <2>3
<1> QED
  BY <1>1, <1>2 DEF CountsExact

\* And where the structures are.
LEMMA InvOwned == Inv => StructuresOwned
<1> SUFFICES ASSUME Inv PROVE StructuresOwned
  OBVIOUS
<1>1. Owned(Held, frames, free_events, created)
  BY DEF Inv
<1>2. cursor # NoEvent => cursor \in Listed
  BY HeldIs DEF Inv, CursorOk
<1> QED
  BY <1>1, <1>2 DEF StructuresOwned, Owned, Immediate

\* In every state of nsock the counters are natural numbers, as the assertions of
\* socket_count_*_dec() and event_dispatch_and_delete() say, and the structures have
\* their types.
THEOREM NsockTypes == Spec => []TypeOK
<1>1. Inv => TypeOK
  BY DEF Inv
<1> QED
  BY <1>1, InvAlways, PTL

\* For any number of iods and requests the counters of the pool and of every iod are the
\* numbers of their pending events, and epoll watches a descriptor for exactly what
\* some pending event waits for, whatever handlers request, cancel and delete.
THEOREM PendingEventsCounted == Spec => []CountsExact
BY InvAlways, InvCounts, PTL

\* Every structure that was allocated is on a list or in the heap, held by the call
\* that answers at once, or free, and in one of these places only; the event that the loop is
\* at stays on its list while its handler runs.
THEOREM EveryStructureOwned == Spec => []StructuresOwned
BY InvAlways, InvOwned, PTL

\* The handler of a request is called once: not again when it is cancelled, times
\* out or completes after that.
THEOREM HandlersCalledOnce == Spec => []AnsweredOnce
<1>1. Inv => AnsweredOnce
  BY DEF Inv, AnsweredOnce, CallsOk
<1> QED
  BY <1>1, InvAlways, PTL

\* No wakeup of the edge-triggered epoll is lost for callers that have one read and one
\* write on an iod at a time and ask for one datagram: whenever nsock waits, a socket
\* that has what a pending event waits for is on the ready list.
THEOREM NoWakeupLost == Spec => []NoLostWakeup
<1>1. CASE ~OneAtATime
  <2>1. NoLostWakeup
    BY <1>1 DEF NoLostWakeup
  <2> QED
    BY <2>1, PTL
<1>2. CASE OneAtATime
  <2>1. Init => Wake
    BY WakeInit
  <2>2. Inv /\ Wake /\ [Next]_vars => Wake'
    BY <1>2, WakeNext
  <2>3. Inv /\ Wake => NoLostWakeup
    BY <1>2, WakeImplies
  <2> QED
    BY <2>1, <2>2, <2>3, InvAlways, PTL DEF Spec
<1> QED
  BY <1>1, <1>2
================================================================================
