-------------------------- MODULE UltraScanProofs --------------------------
(***************************************************************************)
(* Theorems about the probe engine, for any number of hosts, ports, tries  *)
(* and window sizes, in three parts.  The first is about the phases, the   *)
(* lists of hosts and the group's counters, with the inductive invariant   *)
(* IInv.  The second is about the probe lists and the numbers kept beside  *)
(* them: a port has one pending attempt at most, and the counters of       *)
(* active and of waiting probes are exact.  The third shows that the       *)
(* engine implements ScanPromise: every step of ultra_scan() is a step     *)
(* that the promise allows or one that its callers do not see.             *)
(***************************************************************************)
EXTENDS UltraScanPromise, FiniteSetTheorems, TLAPS

-----------------------------------------------------------------------------
(* The order of incompleteHosts. *)

\* A set of hosts that is not empty has a first one.
LEMMA LeastHost ==
  ASSUME NEW S \in SUBSET Nat, S # {}
  PROVE  \E n \in S : \A m \in S : n <= m
<1>1. \E n \in S : \A m \in S : ~ (<<m, n>> \in OpToRel(<, Nat))
  BY WFMin, NatLessThanWellFounded, Zenon
<1>2. PICK n \in S : \A m \in S : ~ (<<m, n>> \in OpToRel(<, Nat))
  BY <1>1
<1>3. \A m \in S : ~ (m < n)
  BY <1>2, Zenon DEF OpToRel
<1> QED
  BY <1>3

\* The iterator moves to a later host of the list or to the end.
LEMMA FollowingType ==
  ASSUME NEW S \in SUBSET Hosts, NEW h \in Nat
  PROVE  /\ Following(h, S) \in S \cup {End}
         /\ Following(h, S) \in S =>
              /\ Following(h, S) > h
              /\ \A f \in S : f > h => Following(h, S) <= f
         /\ Following(h, S) = End => \A g \in S : g <= h
<1> DEFINE L == {g \in S : g > h}
<1>0. NumHosts \in Nat /\ S \subseteq Nat /\ \A g \in S : g # End
  BY ConstantsAssumption DEF Hosts, End
<1>1. CASE L = {}
  <2>1. \A g \in S : g <= h
    BY <1>0, <1>1
  <2>2. Following(h, S) = End
    BY <1>1, Zenon DEF Following
  <2> QED
    BY <1>0, <2>1, <2>2
<1>2. CASE L # {}
  <2>1. PICK g \in L : \A f \in L : g <= f
    BY <1>0, <1>2, LeastHost
  <2>2. /\ \E g1 \in S : g1 > h
        /\ \E g1 \in S : g1 > h /\ \A f \in S : f > h => g1 <= f
    BY <2>1
  <2>3. LET n == Following(h, S) IN
        n \in S /\ n > h /\ \A f \in S : f > h => n <= f
    BY <2>2 DEF Following
  <2> QED
    BY <2>3, <1>0
<1> QED
  BY <1>1, <1>2

\* nextIncompleteHost() stays among the hosts, and leaves the host it is at if
\* there is another one.
LEMMA AdvanceType ==
  ASSUME NEW S \in SUBSET Hosts, S # {}, NEW h \in S
  PROVE  /\ Advance(h, S) \in S
         /\ Advance(h, S) = h => S = {h}
<1>1. h \in Nat /\ NoHost \in Nat /\ \A g \in S : g \in Nat /\ g > NoHost /\ g # End
  BY ConstantsAssumption DEF Hosts, NoHost, End
<1>2. CASE Following(h, S) = End
  <2>1. First(S) \in S /\ \A f \in S : First(S) <= f
    BY <1>1, FollowingType DEF First
  <2>2. \A g \in S : g <= h
    BY <1>1, <1>2, FollowingType
  <2>3. Advance(h, S) = First(S)
    BY <1>2 DEF Advance
  <2>4. ASSUME First(S) = h PROVE S = {h}
    <3>1. \A g \in S : g = h
      BY <1>1, <2>1, <2>2, <2>4
    <3> QED
      BY <3>1
  <2> QED
    BY <2>1, <2>3, <2>4
<1>3. CASE Following(h, S) # End
  BY <1>1, <1>3, FollowingType DEF Advance
<1> QED
  BY <1>2, <1>3

-----------------------------------------------------------------------------
(* Types: what the effects do to them. *)

\* The try limit of a host is a sequence number of seven bits.
LEMMA TrynoTypes ==
  ASSUME TargetTypes, NEW h \in Hosts
  PROVE  /\ allowedTryno(h) \in Seqnum
         /\ uncapped_tryno(h) \in Nat
         /\ \A t \in Seqnum : NextSeqnum(t) \in Seqnum
         /\ \A t \in Seqnum : t < allowedTryno(h) =>
              NextSeqnum(t) = t + 1 /\ NextSeqnum(t) <= allowedTryno(h)
<1>1. max_successful_tryno[h] \in 0 .. 127 /\ TrynoCap \in 0 .. 127
  BY ConstantsAssumption DEF TargetTypes, Seqnum
<1>2. uncapped_tryno(h) \in Nat /\ allowedTryno(h) \in 0 .. 127
  BY <1>1 DEF uncapped_tryno, allowedTryno
<1>3. \A t \in 0 .. 127 : /\ NextSeqnum(t) \in 0 .. 127
                          /\ t < 127 => NextSeqnum(t) = t + 1
  BY DEF NextSeqnum
<1>4. \A t \in 0 .. 127 : t < allowedTryno(h) =>
        NextSeqnum(t) = t + 1 /\ NextSeqnum(t) <= allowedTryno(h)
  BY <1>2, <1>3
<1> QED
  BY <1>2, <1>3, <1>4, Zenon DEF Seqnum

\* The probes that the engine makes and marks are records of UltraProbe.
LEMMA ProbeRecords ==
  /\ \A port \in Ports, t \in Seqnum :
       /\ ScanProbe(port, t) \in UltraProbe
       /\ ScanProbe(port, t).port = port /\ ScanProbe(port, t).tryno = t
       /\ ~ScanProbe(port, t).isPing
  /\ \A n \in Nat : PingProbe(n) \in UltraProbe /\ PingProbe(n).isPing
                     /\ PingProbe(n).nth = n /\ PingProbe(n).port = PingPort
  /\ \A p \in UltraProbe :
       /\ [p EXCEPT !.timedout = TRUE] \in UltraProbe
       /\ [p EXCEPT !.timedout = TRUE].tryno = p.tryno
       /\ [p EXCEPT !.timedout = TRUE].isPing = p.isPing
       /\ [p EXCEPT !.retransmitted = TRUE] \in UltraProbe
       /\ [p EXCEPT !.retransmitted = TRUE].tryno = p.tryno
       /\ [p EXCEPT !.retransmitted = TRUE].isPing = p.isPing
<1>1. \A port \in Ports : port # PingPort
  BY ConstantsAssumption DEF Ports, PingPort
<1>2. ASSUME NEW port \in Ports, NEW t \in Seqnum
      PROVE  /\ ScanProbe(port, t) \in UltraProbe
             /\ ScanProbe(port, t).port = port /\ ScanProbe(port, t).tryno = t
             /\ ~ScanProbe(port, t).isPing
  BY <1>1 DEF UltraProbe, ScanProbe
<1>3. ASSUME NEW n \in Nat
      PROVE  /\ PingProbe(n) \in UltraProbe /\ PingProbe(n).isPing
             /\ PingProbe(n).nth = n /\ PingProbe(n).port = PingPort
  <2>1. n % 128 \in Seqnum
    BY DEF Seqnum
  <2> QED
    BY <2>1 DEF UltraProbe, PingProbe
<1>4. ASSUME NEW p \in UltraProbe
      PROVE  /\ [p EXCEPT !.timedout = TRUE] \in UltraProbe
             /\ [p EXCEPT !.timedout = TRUE].tryno = p.tryno
             /\ [p EXCEPT !.timedout = TRUE].isPing = p.isPing
             /\ [p EXCEPT !.retransmitted = TRUE] \in UltraProbe
             /\ [p EXCEPT !.retransmitted = TRUE].tryno = p.tryno
             /\ [p EXCEPT !.retransmitted = TRUE].isPing = p.isPing
  BY DEF UltraProbe
<1> QED
  BY <1>2, <1>3, <1>4, Zenon

\* A change of the probe list of a host keeps the types of lists and counters.
LEMMA SetProbesTypes ==
  ASSUME ProbeTypes, NEW h \in Hosts, NEW S \in SUBSET UltraProbe,
         IsFiniteSet(S), NEW da \in Int, NEW dw \in Int, SetProbes(h, S, da, dw)
  PROVE  /\ ProbeTypes'
         /\ probes_outstanding' = [probes_outstanding EXCEPT ![h] = S]
BY DEF ProbeTypes, SetProbes

\* The sizes of the sets of probes that the effects count.
LEMMA CountTypes ==
  ASSUME ProbeTypes, NEW h \in Hosts, NEW D \in SUBSET probes_outstanding[h]
  PROVE  /\ IsFiniteSet(D) /\ Cardinality(D) \in Nat
         /\ IsFiniteSet(probes_outstanding[h] \ D)
         /\ probes_outstanding[h] \subseteq UltraProbe
<1>1. IsFiniteSet(probes_outstanding[h]) /\ probes_outstanding[h] \subseteq UltraProbe
  BY DEF ProbeTypes
<1> QED
  BY <1>1, FS_Subset, FS_CardinalityType, Zenon

\* destroyOutstandingProbe() keeps the types of lists and counters.
LEMMA DestroyTypes ==
  ASSUME ProbeTypes, NEW h \in Hosts, NEW D \in SUBSET probes_outstanding[h],
         Destroy(h, D)
  PROVE  /\ ProbeTypes'
         /\ probes_outstanding' =
              [probes_outstanding EXCEPT ![h] = probes_outstanding[h] \ D]
<1>1. /\ IsFiniteSet(probes_outstanding[h] \ D)
      /\ probes_outstanding[h] \ D \in SUBSET UltraProbe
  BY CountTypes
<1>2. -Cardinality(D \cap Active(h)) \in Int
  <2>1. D \cap Active(h) \in SUBSET probes_outstanding[h]
    OBVIOUS
  <2>2. Cardinality(D \cap Active(h)) \in Nat
    BY <2>1, CountTypes, Zenon
  <2> QED
    BY <2>2
<1>3. -Cardinality(D \cap Waiting(h)) \in Int
  <2>1. D \cap Waiting(h) \in SUBSET probes_outstanding[h]
    OBVIOUS
  <2>2. Cardinality(D \cap Waiting(h)) \in Nat
    BY <2>1, CountTypes, Zenon
  <2> QED
    BY <2>2
<1> QED
  BY <1>1, <1>2, <1>3, SetProbesTypes DEF Destroy

\* markProbeTimedout() keeps the types of lists and counters.
LEMMA MarkTimedoutTypes ==
  ASSUME ProbeTypes, NEW h \in Hosts, NEW p \in probes_outstanding[h],
         MarkTimedout(h, p)
  PROVE  /\ ProbeTypes'
         /\ probes_outstanding' = [probes_outstanding EXCEPT ![h] =
              (probes_outstanding[h] \ {p}) \cup {[p EXCEPT !.timedout = TRUE]}]
<1> DEFINE q == [p EXCEPT !.timedout = TRUE]
           S == (probes_outstanding[h] \ {p}) \cup {q}
<1>1. p \in UltraProbe /\ probes_outstanding[h] \subseteq UltraProbe
      /\ IsFiniteSet(probes_outstanding[h])
  BY DEF ProbeTypes
<1>2. S \in SUBSET UltraProbe
  BY <1>1, ProbeRecords
<1>3. IsFiniteSet(S)
  BY <1>1, FS_RemoveElement, FS_AddElement, Zenon
<1>4. SetProbes(h, S, -1, IF p.isPing THEN 0 ELSE 1)
  BY DEF MarkTimedout
<1>5. (IF p.isPing THEN 0 ELSE 1) \in Int /\ -1 \in Int
  OBVIOUS
<1> HIDE DEF S
<1> QED
  BY <1>2, <1>3, <1>4, <1>5, SetProbesTypes DEF S

\* ultrascan_host_probe_update() keeps the types of what is known of a target.
LEMMA HostUpdateTypes ==
  ASSUME TargetTypes, NEW h \in Hosts, NEW port \in Ports \cup {PingPort},
         NEW newstate \in {"UP", "DOWN"}, HostUpdate(h, port, newstate)
  PROVE  TargetTypes' /\ max_successful_tryno' = max_successful_tryno
<1>1. flags' \in [Hosts -> {"UNKNOWN", "UP", "DOWN"}]
  BY DEF TargetTypes, HostUpdate, NewFlags
<1>2. pingprobe' \in [Hosts -> BOOLEAN]
  BY DEF TargetTypes, HostUpdate
<1>3. result' \in [Hosts -> [Ports -> {Failed, Unknown, Answered} \cup Seqnum]]
  BY DEF TargetTypes, HostUpdate
<1> QED
  BY <1>1, <1>2, <1>3 DEF TargetTypes, HostUpdate

\* ultrascan_port_probe_update() keeps the types of what is known of a target.
LEMMA PortUpdateTypes ==
  ASSUME TargetTypes, NEW h \in Hosts, NEW port \in Ports \cup {PingPort},
         NEW t \in Seqnum, NEW useful \in BOOLEAN, PortUpdate(h, port, t, useful)
  PROVE  /\ TargetTypes'
         /\ \A g \in Hosts : max_successful_tryno'[g] >= max_successful_tryno[g]
<1>1. max_successful_tryno' \in [Hosts -> Seqnum]
  BY DEF TargetTypes, PortUpdate
<1>2. pingprobe' \in [Hosts -> BOOLEAN]
  BY DEF TargetTypes, PortUpdate
<1>3. result' \in [Hosts -> [Ports -> {Failed, Unknown, Answered} \cup Seqnum]]
  BY DEF TargetTypes, PortUpdate
<1>4. ASSUME NEW g \in Hosts
      PROVE  max_successful_tryno'[g] >= max_successful_tryno[g]
  <2>1. max_successful_tryno[g] \in 0 .. 127 /\ t \in 0 .. 127
    BY DEF TargetTypes, Seqnum
  <2>2. max_successful_tryno'[g] =
          IF g = h /\ useful /\ t > max_successful_tryno[g] THEN t
          ELSE max_successful_tryno[g]
    BY DEF TargetTypes, PortUpdate
  <2> QED
    BY <2>1, <2>2
<1> QED
  BY <1>1, <1>2, <1>3, <1>4 DEF TargetTypes, PortUpdate

-----------------------------------------------------------------------------
(* What every step does to the probe lists: it keeps the types, and leaves *)
(* no probe of the scan beyond the limit there was before the step, which  *)
(* never goes down.                                                        *)

Within(h, S) == \A q \in S : ~q.isPing => q.tryno <= allowedTryno(h)
ProbesWithin == \A h \in Hosts : Within(h, probes_outstanding[h])
ListsWithin  == \A h \in Hosts : \A q \in probes_outstanding'[h] :
                  ~q.isPing => q.tryno <= allowedTryno(h)
TrynoGrows   == \A h \in Hosts :
                  max_successful_tryno'[h] >= max_successful_tryno[h]
Effect == ProbeTypes' /\ TargetTypes' /\ ListsWithin /\ TrynoGrows

\* A list whose probes are within the limit of its host may replace another.
LEMMA SetProbesWithin ==
  ASSUME ProbeTypes, ProbesWithin, NEW h \in Hosts,
         NEW S \in SUBSET UltraProbe, IsFiniteSet(S), Within(h, S),
         NEW da \in Int, NEW dw \in Int, SetProbes(h, S, da, dw)
  PROVE  ProbeTypes' /\ ListsWithin
<1>1. /\ ProbeTypes'
      /\ probes_outstanding' = [probes_outstanding EXCEPT ![h] = S]
  BY SetProbesTypes
<1>2. \A g \in Hosts : probes_outstanding'[g] =
                         IF g = h THEN S ELSE probes_outstanding[g]
  BY <1>1 DEF ProbeTypes
<1> QED
  BY <1>1, <1>2 DEF ProbesWithin, ListsWithin, Within

\* Lists that do not change stay within the limits of their hosts.
LEMMA UnchangedWithin ==
  ASSUME ProbeTypes, TargetTypes, ProbesWithin
  PROVE  /\ UNCHANGED probeVars => ProbeTypes' /\ ListsWithin
         /\ UNCHANGED targetVars => TargetTypes' /\ TrynoGrows
<1>1. ASSUME UNCHANGED probeVars PROVE ProbeTypes' /\ ListsWithin
  BY <1>1 DEF ProbeTypes, ListsWithin, ProbesWithin, Within, probeVars
<1>2. ASSUME UNCHANGED targetVars PROVE TargetTypes'
  BY <1>2 DEF TargetTypes, targetVars
<1>3. ASSUME UNCHANGED targetVars PROVE TrynoGrows
  <2>1. \A h \in Hosts : max_successful_tryno[h] \in 0 .. 127
    BY DEF TargetTypes, Seqnum
  <2> QED
    BY <1>3, <2>1 DEF TrynoGrows, targetVars
<1> QED
  BY <1>1, <1>2, <1>3

\* The probes that destroyOutstandingProbe() leaves are within the limit.
LEMMA DestroyWithin ==
  ASSUME ProbeTypes, ProbesWithin, NEW h \in Hosts,
         NEW D \in SUBSET probes_outstanding[h], Destroy(h, D)
  PROVE  ProbeTypes' /\ ListsWithin
<1>1. /\ ProbeTypes'
      /\ probes_outstanding' =
           [probes_outstanding EXCEPT ![h] = probes_outstanding[h] \ D]
  BY DestroyTypes
<1>2. \A g \in Hosts : probes_outstanding'[g] \subseteq probes_outstanding[g]
  BY <1>1 DEF ProbeTypes
<1> QED
  BY <1>1, <1>2 DEF ProbesWithin, ListsWithin, Within

\* Host discovery leaves max_successful_tryno alone.
LEMMA HostUpdateGrows ==
  ASSUME TargetTypes, NEW h \in Hosts, NEW port \in Ports \cup {PingPort},
         NEW newstate \in {"UP", "DOWN"}, HostUpdate(h, port, newstate)
  PROVE  TargetTypes' /\ TrynoGrows
<1>1. TargetTypes' /\ max_successful_tryno' = max_successful_tryno
  BY HostUpdateTypes
<1>2. \A g \in Hosts : max_successful_tryno[g] \in 0 .. 127
  BY DEF TargetTypes, Seqnum
<1> QED
  BY <1>1, <1>2 DEF TrynoGrows

\* What holds of the probe p a step is about to send or has an answer for.
Sendable(h, p) == p \in UltraProbe /\ Within(h, {p})

\* The result of a connect() that returns at once keeps types and limits.
LEMMA ConnectDoneEffect ==
  ASSUME ProbeTypes, TargetTypes, ProbesWithin, NEW h \in Hosts, NEW p,
         Sendable(h, p), NEW S \in SUBSET UltraProbe, IsFiniteSet(S),
         Within(h, S), NEW dw \in Int, ConnectDone(h, p, S, dw)
  PROVE  Effect
<1>1. /\ p \in UltraProbe
      /\ p.port \in Ports \cup {PingPort} /\ p.tryno \in Seqnum
  BY DEF Sendable, UltraProbe
<1>2. ASSUME SetProbes(h, S, 0, dw) PROVE ProbeTypes' /\ ListsWithin
  BY <1>2, SetProbesWithin
<1>3. CASE /\ \E useful \in BOOLEAN : PortUpdate(h, p.port, p.tryno, useful)
           /\ SetProbes(h, S, 0, dw)
  BY <1>1, <1>2, <1>3, PortUpdateTypes DEF Effect, TrynoGrows
<1>4. CASE UNCHANGED targetVars /\ SetProbes(h, S, 0, dw)
  BY <1>2, <1>4, UnchangedWithin DEF Effect
<1>5. CASE HostUpdate(h, p.port, "DOWN") /\ SetProbes(h, S, 0, dw)
  BY <1>1, <1>2, <1>5, HostUpdateGrows DEF Effect
<1>6. CASE /\ SetProbes(h, S \cup {[p EXCEPT !.timedout = TRUE]}, 0,
                        dw + IF p.isPing THEN 0 ELSE 1)
           /\ UNCHANGED targetVars
  <2> DEFINE q == [p EXCEPT !.timedout = TRUE]
             T == S \cup {q}
  <2>1. T \in SUBSET UltraProbe /\ q.tryno = p.tryno /\ q.isPing = p.isPing
    BY <1>1, ProbeRecords
  <2>2. IsFiniteSet(T)
    BY FS_AddElement, Zenon
  <2>3. Within(h, T)
    BY <2>1 DEF Within, Sendable
  <2>4. dw + (IF p.isPing THEN 0 ELSE 1) \in Int
    OBVIOUS
  <2> HIDE DEF T
  <2>5. ProbeTypes' /\ ListsWithin
    BY <1>6, <2>1, <2>2, <2>3, <2>4, SetProbesWithin DEF T
  <2> QED
    BY <1>6, <2>5, UnchangedWithin DEF Effect
<1>7. CASE /\ result' = [result EXCEPT ![h][p.port] =
                              IF @ = Unknown THEN Failed ELSE @]
           /\ SetProbes(h, S, 0, dw)
           /\ UNCHANGED <<max_successful_tryno, pingprobe, flags>>
  <2> DEFINE R == {Failed, Unknown, Answered} \cup Seqnum
             row == [result[h] EXCEPT ![p.port] = IF @ = Unknown THEN Failed ELSE @]
  <2>1. result[h] \in [Ports -> R]
    BY DEF TargetTypes
  <2>2. row \in [Ports -> R]
    BY <2>1
  <2>3. result' = [result EXCEPT ![h] = row]
    BY <1>7
  <2> HIDE DEF R, row
  <2>4. result' \in [Hosts -> [Ports -> R]]
    BY <2>2, <2>3 DEF TargetTypes, R
  <2>5. TargetTypes'
    BY <1>7, <2>4 DEF TargetTypes, R
  <2>6. \A g \in Hosts : max_successful_tryno[g] \in 0 .. 127
    BY DEF TargetTypes, Seqnum
  <2>7. TrynoGrows
    BY <1>7, <2>6 DEF TrynoGrows
  <2> QED
    BY <1>2, <1>7, <2>5, <2>7 DEF Effect
<1> QED
  BY <1>3, <1>4, <1>5, <1>6, <1>7 DEF ConnectDone

\* So does a connect() that finds the host up at once and destroys its probes.
LEMMA ConnectUpEffect ==
  ASSUME ProbeTypes, TargetTypes, ProbesWithin, NEW h \in Hosts, NEW p,
         Sendable(h, p), ConnectUp(h, p)
  PROVE  Effect
<1>1. p.port \in Ports \cup {PingPort}
  BY DEF Sendable, UltraProbe
<1>2. TargetTypes' /\ TrynoGrows
  BY <1>1, HostUpdateGrows DEF ConnectUp
<1>3. ProbeTypes' /\ ListsWithin
  BY DestroyWithin DEF ConnectUp
<1> QED
  BY <1>2, <1>3 DEF Effect

\* Sending a probe within the limit keeps types and limits.
LEMMA SendEffect ==
  ASSUME ProbeTypes, TargetTypes, ProbesWithin, NEW h \in Hosts, NEW p,
         Sendable(h, p), Send(h, p)
  PROVE  Effect
<1> DEFINE S == probes_outstanding[h]
<1>1. S \in SUBSET UltraProbe /\ IsFiniteSet(S) /\ Within(h, S)
  BY DEF ProbeTypes, ProbesWithin
<1>2. CASE SetProbes(h, S \cup {p}, 1, 0) /\ UNCHANGED targetVars
  <2>1. S \cup {p} \in SUBSET UltraProbe /\ Within(h, S \cup {p})
    BY <1>1 DEF Sendable, Within
  <2>2. IsFiniteSet(S \cup {p})
    BY <1>1, FS_AddElement, Zenon
  <2>3. ProbeTypes' /\ ListsWithin
    BY <1>2, <2>1, <2>2, SetProbesWithin
  <2> QED
    BY <1>2, <2>3, UnchangedWithin DEF Effect
<1>3. CASE ConnectDone(h, p, S, 0)
  BY <1>1, <1>3, ConnectDoneEffect
<1>4. CASE ConnectUp(h, p)
  BY <1>4, ConnectUpEffect
<1> QED
  BY <1>2, <1>3, <1>4 DEF Send

-----------------------------------------------------------------------------
(* The inductive invariant.  RetryStackSorted and AssertsHold need          *)
(* TrynoWithinLimit; that needs the types and the validity of iterators.    *)

IInv == TypeOK /\ IteratorsValid /\ TrynoWithinLimit /\ RetryStackSorted
        /\ AssertsHold

\* The parts of the invariant, for the steps below to cite.
LEMMA IInvParts ==
  ASSUME IInv
  PROVE  /\ LoopTypes /\ GroupTypes /\ ProbeTypes /\ BenchTypes
         /\ RldTypes /\ SentTypes /\ TargetTypes /\ ClockTypes
         /\ IteratorsValid /\ TrynoWithinLimit /\ RetryStackSorted /\ AssertsHold
         /\ ProbesWithin
<1>1. ProbesWithin
  BY DEF IInv, TrynoWithinLimit, ProbesWithin, Within
<1> QED
  BY <1>1 DEF IInv, TypeOK

\* What a step leaves alone keeps its part of the invariant.
LEMMA UnchangedParts ==
  ASSUME IInv
  PROVE  /\ UNCHANGED loopVars => LoopTypes' /\ AssertsHold'
         /\ UNCHANGED groupVars => GroupTypes'
         /\ UNCHANGED benchVars => BenchTypes' /\ RetryStackSorted'
         /\ UNCHANGED rldVars => RldTypes'
         /\ UNCHANGED sentVars => SentTypes'
         /\ UNCHANGED <<toclock, scantype>> => ClockTypes'
         /\ UNCHANGED <<loopVars, groupVars>> => IteratorsValid'
         /\ UNCHANGED <<probeVars, targetVars>> => Effect
<1> USE IInvParts
<1>1. UNCHANGED loopVars => LoopTypes' /\ AssertsHold'
  BY DEF loopVars, LoopTypes, AssertsHold
<1>2. UNCHANGED groupVars => GroupTypes'
  BY DEF groupVars, GroupTypes
<1>3. UNCHANGED benchVars => BenchTypes' /\ RetryStackSorted'
  BY DEF benchVars, BenchTypes, RetryStackSorted
<1>4. UNCHANGED rldVars => RldTypes'
  BY DEF rldVars, RldTypes
<1>5. UNCHANGED sentVars => SentTypes'
  BY DEF sentVars, SentTypes
<1>6. UNCHANGED <<toclock, scantype>> => ClockTypes'
  BY DEF ClockTypes
<1>7. UNCHANGED <<loopVars, groupVars>> => IteratorsValid'
  BY DEF loopVars, groupVars, IteratorsValid, Removing
<1>8. UNCHANGED <<probeVars, targetVars>> => Effect
  BY UnchangedWithin DEF Effect
<1> QED
  BY <1>1, <1>2, <1>3, <1>4, <1>5, <1>6, <1>7, <1>8

\* The limit does not go down, so what was within it stays so.
Limit(m) == IF m + 1 > TrynoCap THEN TrynoCap ELSE m + 1

\* The limit of allowedTryno() grows with max_successful_tryno.
LEMMA LimitMonotone ==
  ASSUME NEW x \in 0 .. 127, NEW y \in 0 .. 127, x <= y
  PROVE  Limit(x) \in 0 .. 127 /\ Limit(y) \in 0 .. 127 /\ Limit(x) <= Limit(y)
BY ConstantsAssumption DEF Limit

\* What is within a limit is within a higher one.
LEMMA WithinHigherLimit ==
  ASSUME NEW a \in 0 .. 127, NEW b \in 0 .. 127, NEW c \in 0 .. 127, b <= c
  PROVE  (a <= b => a <= c) /\ (a < b => a < c)
OBVIOUS

BenchWithin == \A h \in Hosts : probe_bench'[h] # {} =>
                 bench_tryno'[h] <= allowedTryno(h)
StackWithin == \A h \in Hosts : \A i \in DOMAIN retry_stack'[h] :
                 retry_stack'[h][i].tries < allowedTryno(h)

\* As the limit never goes down, lists, bench and stack that were filled within the
\* old limit are within the new one.
LEMMA LimitKept ==
  ASSUME TargetTypes, Effect, BenchTypes', BenchWithin, StackWithin
  PROVE  TrynoWithinLimit'
<1> SUFFICES ASSUME NEW h \in Hosts
             PROVE  /\ \A p \in probes_outstanding'[h] :
                         ~p.isPing => p.tryno <= allowedTryno(h)'
                    /\ probe_bench'[h] # {} => bench_tryno'[h] <= allowedTryno(h)'
                    /\ \A i \in DOMAIN retry_stack'[h] :
                         retry_stack'[h][i].tries < allowedTryno(h)'
  BY SMTT(30) DEF TrynoWithinLimit
<1> DEFINE new == Limit(max_successful_tryno'[h])
<1>1. /\ allowedTryno(h)' = new
      /\ allowedTryno(h) \in 0 .. 127 /\ new \in 0 .. 127
      /\ allowedTryno(h) <= new
  <2>1. /\ max_successful_tryno[h] \in 0 .. 127
        /\ max_successful_tryno'[h] \in 0 .. 127
        /\ max_successful_tryno[h] <= max_successful_tryno'[h]
    BY DEF Effect, TargetTypes, Seqnum, TrynoGrows
  <2>2. allowedTryno(h) = Limit(max_successful_tryno[h])
    BY DEF allowedTryno, uncapped_tryno, Limit
  <2>3. allowedTryno(h)' = new
    BY DEF allowedTryno, uncapped_tryno, Limit
  <2> QED
    BY <2>1, <2>2, <2>3, LimitMonotone
<1> HIDE DEF new
<1>2. \A p \in probes_outstanding'[h] : p.tryno \in 0 .. 127
  BY DEF Effect, ProbeTypes, UltraProbe, Seqnum
<1>3. bench_tryno'[h] \in 0 .. 127
  BY DEF BenchTypes, Seqnum
<1>4. \A i \in DOMAIN retry_stack'[h] : retry_stack'[h][i].tries \in 0 .. 127
  <2>1. retry_stack'[h] \in Seq(RetryBatch)
    BY DEF BenchTypes
  <2>2. \A i \in DOMAIN retry_stack'[h] : retry_stack'[h][i] \in RetryBatch
    BY <2>1
  <2> QED
    BY <2>2 DEF RetryBatch, Seqnum
<1>5. \A p \in probes_outstanding'[h] : ~p.isPing => p.tryno <= allowedTryno(h)
  BY DEF Effect, ListsWithin
<1>6. \A p \in probes_outstanding'[h] : ~p.isPing => p.tryno <= new
  BY <1>1, <1>2, <1>5, WithinHigherLimit, Zenon
<1>7. probe_bench'[h] # {} => bench_tryno'[h] <= new
  <2>1. probe_bench'[h] # {} => bench_tryno'[h] <= allowedTryno(h)
    BY DEF BenchWithin
  <2> QED
    BY <1>1, <1>3, <2>1, WithinHigherLimit, Zenon
<1>8. \A i \in DOMAIN retry_stack'[h] : retry_stack'[h][i].tries < new
  <2> SUFFICES ASSUME NEW i \in DOMAIN retry_stack'[h]
               PROVE  retry_stack'[h][i].tries < new
    OBVIOUS
  <2>1. retry_stack'[h][i].tries < allowedTryno(h)
    BY DEF StackWithin
  <2>2. retry_stack'[h][i].tries \in 0 .. 127
    BY <1>4
  <2> QED
    BY <1>1, <2>1, <2>2, WithinHigherLimit, Zenon
<1> QED
  BY <1>1, <1>6, <1>7, <1>8, ZenonT(60)

\* The same where bench and stack do not change.
LEMMA LimitKeptSimply ==
  ASSUME IInv, Effect, UNCHANGED benchVars
  PROVE  TrynoWithinLimit'
<1>1. BenchTypes' /\ TargetTypes /\ TrynoWithinLimit
  BY IInvParts, UnchangedParts
<1> QED
  BY <1>1, LimitKept DEF benchVars, TrynoWithinLimit, BenchWithin, StackWithin

\* The counters of probes since the last ping stay within the gaps.
LEMMA CountSentTypes ==
  ASSUME SentTypes, NEW h \in Hosts, CountSent(h)
  PROVE  /\ since_ping' \in [Hosts -> 0 .. HostPingGap]
         /\ group_since_ping' \in 0 .. GroupPingGap
<1>1. HostPingGap \in Nat /\ GroupPingGap \in Nat
  BY ConstantsAssumption
<1>2. group_since_ping' \in 0 .. GroupPingGap
  BY <1>1 DEF SentTypes, CountSent, Saturate
<1>3. Saturate(since_ping[h], HostPingGap) \in 0 .. HostPingGap
  BY <1>1 DEF SentTypes, Saturate
<1>4. since_ping' \in [Hosts -> 0 .. HostPingGap]
  BY <1>3 DEF SentTypes, CountSent
<1> QED
  BY <1>2, <1>4

-----------------------------------------------------------------------------
(* Each action keeps the invariant. *)

\* doAnyPings(): a ping of an incomplete host.
LEMMA HostPingKeeps ==
  ASSUME IInv, NEW h \in Hosts, HostPing(h)
  PROVE  IInv'
<1> USE IInvParts
<1>1. nxtpseq[h] + 1 \in Nat
  BY DEF SentTypes
<1>2. Sendable(h, PingProbe(nxtpseq[h] + 1))
  BY <1>1, ProbeRecords DEF Sendable, Within
<1>3. Effect
  BY <1>2, SendEffect DEF HostPing, SendPing
<1>4. SentTypes'
  <2>1. HostPingGap \in Nat /\ GroupPingGap \in Nat
    BY ConstantsAssumption
  <2>2. nxtpseq' \in [Hosts -> Nat]
    BY <1>1 DEF HostPing, SendPing, SentTypes
  <2>3. group_since_ping' \in 0 .. GroupPingGap
    BY <2>1 DEF HostPing, SentTypes, Saturate
  <2>4. since_ping' \in [Hosts -> 0 .. HostPingGap]
    BY <2>1 DEF HostPing, SentTypes
  <2> QED
    BY <2>2, <2>3, <2>4 DEF HostPing, SentTypes
<1>5. UNCHANGED <<loopVars, groupVars, benchVars, rldVars, toclock, scantype>>
  BY DEF HostPing
<1>6. TrynoWithinLimit'
  BY <1>3, <1>5, LimitKeptSimply
<1> QED
  BY <1>3, <1>4, <1>5, <1>6, UnchangedParts DEF IInv, TypeOK, Effect

\* doAnyPings(): the global ping.
LEMMA GlobalPingKeeps ==
  ASSUME IInv, GlobalPing
  PROVE  IInv'
<1> USE IInvParts
<1>0. pinghost \in Hosts
  BY DEF GlobalPing, GroupTypes
<1>1. nxtpseq[pinghost] + 1 \in Nat
  BY <1>0 DEF SentTypes
<1>2. Sendable(pinghost, PingProbe(nxtpseq[pinghost] + 1))
  BY <1>1, ProbeRecords DEF Sendable, Within
<1>3. Effect
  BY <1>0, <1>2, SendEffect DEF GlobalPing, SendPing
<1>4. SentTypes'
  <2>1. 0 \in 0 .. GroupPingGap
    BY ConstantsAssumption
  <2>2. nxtpseq' \in [Hosts -> Nat]
    BY <1>0, <1>1 DEF GlobalPing, SendPing, SentTypes
  <2> QED
    BY <2>1, <2>2 DEF GlobalPing, SentTypes
<1>5. UNCHANGED <<groupVars, benchVars, rldVars, toclock, scantype>>
  BY DEF GlobalPing
<1>6. TrynoWithinLimit'
  BY <1>3, <1>5, LimitKeptSimply
<1>7. LoopTypes' /\ AssertsHold'
  BY DEF GlobalPing, LoopTypes, AssertsHold, Phases
<1>8. IteratorsValid'
  BY <1>5 DEF GlobalPing, groupVars, IteratorsValid, Removing
<1> QED
  BY <1>3, <1>4, <1>5, <1>6, <1>7, <1>8, UnchangedParts DEF IInv, TypeOK, Effect

\* doAnyOutstandingRetransmits(): the first probe of a new tryno is held back.
LEMMA RateLimitWaitKeeps ==
  ASSUME IInv, NEW h \in Hosts, NEW p \in probes_outstanding[h],
         RateLimitWait(h, p)
  PROVE  IInv'
<1> USE IInvParts
<1>1. p.tryno \in 0 .. 127
  BY DEF ProbeTypes, UltraProbe, Seqnum
<1>2. p.tryno + 1 \in 0 .. 128
  BY <1>1
<1>3. RldTypes'
  BY <1>2 DEF RateLimitWait, RldTypes
<1>4. UNCHANGED <<loopVars, groupVars, probeVars, benchVars, sentVars,
                  targetVars, toclock, scantype>>
  BY DEF RateLimitWait
<1>5. Effect
  BY <1>4, UnchangedParts
<1>6. TrynoWithinLimit'
  BY <1>4, <1>5, LimitKeptSimply
<1> QED
  BY <1>3, <1>4, <1>5, <1>6, UnchangedParts DEF IInv, TypeOK, Effect

\* retransmitProbe().
LEMMA RetransmitKeeps ==
  ASSUME IInv, NEW h \in Hosts, NEW p \in probes_outstanding[h],
         Retransmit(h, p)
  PROVE  IInv'
<1> USE IInvParts
<1> DEFINE new == ScanProbe(p.port, NextSeqnum(p.tryno))
           old == [p EXCEPT !.retransmitted = TRUE]
           P == probes_outstanding[h]
           S == (P \ {p}) \cup {old}
<1>1. P \in SUBSET UltraProbe /\ IsFiniteSet(P) /\ Within(h, P) /\ p \in UltraProbe
  BY DEF ProbeTypes, ProbesWithin
<1>2. p.tryno \in Seqnum /\ p.port \in Ports \cup {PingPort}
  BY <1>1 DEF UltraProbe
<1>3. ~p.isPing /\ p.tryno < allowedTryno(h)
  <2>1. allowedTryno(h) \in 0 .. 127 /\ p.tryno \in 0 .. 127
    BY <1>2, TrynoTypes DEF Seqnum
  <2> QED
    BY <2>1 DEF Retransmit, MayRetransmit
<1>4. /\ new \in UltraProbe /\ ~new.isPing /\ new.tryno = NextSeqnum(p.tryno)
      /\ NextSeqnum(p.tryno) <= allowedTryno(h)
  <2>1. NextSeqnum(p.tryno) \in Seqnum /\ NextSeqnum(p.tryno) <= allowedTryno(h)
    BY <1>2, <1>3, TrynoTypes
  <2>2. p.port \in Ports
    BY <1>1, <1>3 DEF UltraProbe
  <2> QED
    BY <2>1, <2>2, ProbeRecords
<1>5. Sendable(h, new)
  BY <1>4 DEF Sendable, Within
<1>6. S \in SUBSET UltraProbe /\ Within(h, S)
  <2>1. old \in UltraProbe /\ old.tryno = p.tryno /\ old.isPing = p.isPing
    BY <1>1, ProbeRecords
  <2> QED
    BY <1>1, <2>1 DEF Within
<1>7. IsFiniteSet(S)
  BY <1>1, FS_AddElement, FS_RemoveElement, Zenon
<1>8. ASSUME SetProbes(h, S \cup {new}, 1, -1), UNCHANGED targetVars
      PROVE  Effect
  <2>1. S \cup {new} \in SUBSET UltraProbe /\ Within(h, S \cup {new})
    BY <1>5, <1>6 DEF Sendable, Within
  <2>2. IsFiniteSet(S \cup {new})
    BY <1>7, FS_AddElement, Zenon
  <2> HIDE DEF S, new
  <2>3. ProbeTypes' /\ ListsWithin
    BY <1>8, <2>1, <2>2, SetProbesWithin
  <2> QED
    BY <1>8, <2>3, UnchangedWithin DEF Effect
<1>9. ASSUME ConnectDone(h, new, S, -1) PROVE Effect
  <2> HIDE DEF S, new
  <2> QED
    BY <1>5, <1>6, <1>7, <1>9, ConnectDoneEffect
<1>10. Effect
  BY <1>8, <1>9 DEF Retransmit
<1>11. UNCHANGED <<loopVars, groupVars, benchVars, toclock, scantype>>
  BY DEF Retransmit
<1>12. RldTypes'
  BY DEF Retransmit, RldTypes
<1>13. SentTypes'
  <2>1. CountSent(h) /\ UNCHANGED <<next_portidx, nxtpseq>>
    BY DEF Retransmit
  <2> QED
    BY <2>1, CountSentTypes DEF SentTypes
<1>14. TrynoWithinLimit'
  BY <1>10, <1>11, LimitKeptSimply
<1> QED
  BY <1>10, <1>11, <1>12, <1>13, <1>14, UnchangedParts DEF IInv, TypeOK, Effect

\* retransmitProbe() when its connect() finds the host up.
LEMMA RetransmitFreedKeeps ==
  ASSUME IInv, NEW h \in Hosts, NEW p \in probes_outstanding[h],
         RetransmitFreed(h, p)
  PROVE  IInv'
<1> USE IInvParts
<1> DEFINE new == ScanProbe(p.port, NextSeqnum(p.tryno))
<1>1. new.port \in Ports \cup {PingPort}
  BY DEF ProbeTypes, UltraProbe, ScanProbe
<1> HIDE DEF new
<1>2. TargetTypes' /\ TrynoGrows
  BY <1>1, HostUpdateGrows DEF RetransmitFreed, ConnectUp, new
<1>3. ProbeTypes' /\ ListsWithin
  BY DestroyWithin DEF RetransmitFreed, ConnectUp
<1>4. Effect
  BY <1>2, <1>3 DEF Effect
<1>5. UNCHANGED <<groupVars, benchVars, sentVars, toclock, scantype>>
  BY DEF RetransmitFreed
<1>6. RldTypes'
  BY DEF RetransmitFreed, RldTypes
<1>7. LoopTypes' /\ AssertsHold'
  BY DEF RetransmitFreed, LoopTypes, AssertsHold, Phases
<1>8. IteratorsValid'
  BY <1>5 DEF RetransmitFreed, groupVars, IteratorsValid, Removing
<1>9. TrynoWithinLimit'
  BY <1>4, <1>5, LimitKeptSimply
<1> QED
  BY <1>4, <1>5, <1>6, <1>7, <1>8, <1>9, UnchangedParts DEF IInv, TypeOK, Effect

\* The end of doAnyPings().
LEMMA EndPingsKeeps ==
  ASSUME IInv, EndPings
  PROVE  IInv'
<1> USE IInvParts
<1>1. UNCHANGED <<groupVars, probeVars, benchVars, rldVars, sentVars, targetVars,
                  toclock, scantype>>
  BY DEF EndPings
<1>2. Effect
  BY <1>1, UnchangedParts
<1>3. LoopTypes' /\ AssertsHold'
  BY DEF EndPings, LoopTypes, AssertsHold, Phases
<1>4. IteratorsValid'
  BY <1>1 DEF EndPings, groupVars, IteratorsValid, Removing
<1>5. TrynoWithinLimit'
  BY <1>1, <1>2, LimitKeptSimply
<1> QED
  BY <1>1, <1>2, <1>3, <1>4, <1>5, UnchangedParts DEF IInv, TypeOK, Effect

\* nextIncompleteHost() gives a host of the list and moves the iterator on.
LEMMA NextHssTypes ==
  ASSUME IInv, pc \in {"pings", "retransmit", "retry", "new"}, NextHss,
         UNCHANGED <<incompleteHosts, completedHosts, pinghost, num_hosts_timedout>>
  PROVE  GroupTypes' /\ hss' \in incompleteHosts /\ nextI' \in incompleteHosts
<1> USE IInvParts
<1>1. incompleteHosts # {} /\ nextI \in incompleteHosts
  BY DEF IteratorsValid
<1>2. incompleteHosts \in SUBSET Hosts
  BY DEF GroupTypes
<1>3. nextI' \in incompleteHosts
  BY <1>1, <1>2, AdvanceType DEF NextHss
<1>4. hss' \in incompleteHosts
  BY <1>1 DEF NextHss
<1> QED
  BY <1>2, <1>3, <1>4 DEF GroupTypes

\* The parts of the invariant about loops, for a step of the rounds.
LEMMA RoundKeeps ==
  ASSUME IInv, pc \in {"retransmit", "retry", "new"}, pc' \in {"retry", "new"},
         NextHss, UNCHANGED <<hostI, timedout>>,
         unableToSend' \in Hosts \cup {NoHost},
         UNCHANGED <<incompleteHosts, completedHosts, pinghost, num_hosts_timedout>>
  PROVE  LoopTypes' /\ GroupTypes' /\ IteratorsValid' /\ AssertsHold'
<1> USE IInvParts
<1>1. GroupTypes' /\ hss' \in incompleteHosts /\ nextI' \in incompleteHosts
  BY NextHssTypes
<1>2. LoopTypes'
  BY <1>1 DEF LoopTypes, GroupTypes, Phases
<1>3. IteratorsValid'
  BY <1>1 DEF IteratorsValid, Removing
<1>4. AssertsHold'
  BY DEF AssertsHold
<1> QED
  BY <1>1, <1>2, <1>3, <1>4

\* The start of a round over the hosts.
LEMMA StartRoundKeeps ==
  ASSUME IInv, EndRetransmits \/ EndRetries
  PROVE  IInv'
<1> USE IInvParts
<1>1. UNCHANGED <<probeVars, benchVars, rldVars, sentVars, targetVars, toclock, scantype>>
  BY DEF EndRetransmits, EndRetries, StartRound
<1>2. Effect
  BY <1>1, UnchangedParts
<1>3. LoopTypes' /\ GroupTypes' /\ IteratorsValid' /\ AssertsHold'
  BY RoundKeeps DEF EndRetransmits, EndRetries, StartRound
<1>4. TrynoWithinLimit'
  BY <1>1, <1>2, LimitKeptSimply
<1> QED
  BY <1>1, <1>2, <1>3, <1>4, UnchangedParts DEF IInv, TypeOK, Effect

\* A host that is passed over in a round.
LEMMA SkipHostKeeps ==
  ASSUME IInv, NEW phase \in {"retry", "new"}, SkipHost(phase)
  PROVE  IInv'
<1> USE IInvParts
<1>1. UNCHANGED <<probeVars, benchVars, rldVars, sentVars, targetVars, toclock, scantype>>
  BY DEF SkipHost
<1>2. Effect
  BY <1>1, UnchangedParts
<1>3. unableToSend' \in Hosts \cup {NoHost}
  BY DEF SkipHost, LoopTypes
<1>4. LoopTypes' /\ GroupTypes' /\ IteratorsValid' /\ AssertsHold'
  BY <1>3, RoundKeeps DEF SkipHost, InRound
<1>5. TrynoWithinLimit'
  BY <1>1, <1>2, LimitKeptSimply
<1> QED
  BY <1>1, <1>2, <1>4, <1>5, UnchangedParts DEF IInv, TypeOK, Effect

\* Pushing a batch leaves the batches below it where they are.
LEMMA PushBatch ==
  ASSUME NEW s \in Seq(RetryBatch), NEW b \in RetryBatch
  PROVE  /\ Append(s, b) \in Seq(RetryBatch)
         /\ Len(s) \in Nat /\ DOMAIN s = 1 .. Len(s)
         /\ DOMAIN Append(s, b) = 1 .. (Len(s) + 1)
         /\ \A i \in 1 .. Len(s) : Append(s, b)[i] = s[i]
         /\ Append(s, b)[Len(s) + 1] = b
OBVIOUS

\* The stack without its top batch, and with a smaller one in its place.
Below(s) == SubSeq(s, 1, Len(s) - 1)

\* The stack below its top: the same batches in the same places.
LEMMA BelowBatch ==
  ASSUME NEW s \in Seq(RetryBatch), s # <<>>
  PROVE  /\ Len(s) \in Nat \ {0} /\ DOMAIN s = 1 .. Len(s)
         /\ Below(s) \in Seq(RetryBatch) /\ Len(Below(s)) = Len(s) - 1
         /\ DOMAIN Below(s) = 1 .. (Len(s) - 1)
         /\ \A i \in 1 .. (Len(s) - 1) : Below(s)[i] = s[i]
<1>1. Len(s) \in Nat \ {0} /\ DOMAIN s = 1 .. Len(s)
  OBVIOUS
<1>2. /\ Below(s) \in Seq(RetryBatch) /\ Len(Below(s)) = Len(s) - 1
      /\ \A i \in 1 .. (Len(s) - 1) : Below(s)[i] = s[i]
  BY <1>1 DEF Below
<1>3. DOMAIN Below(s) = 1 .. Len(Below(s))
  BY <1>2
<1> QED
  BY <1>1, <1>2, <1>3

\* Popping the top batch leaves the tries of the others as they are.
LEMMA PopBatch ==
  ASSUME NEW s \in Seq(RetryBatch), s # <<>>
  PROVE  \A i \in DOMAIN Below(s) : i \in DOMAIN s /\ Below(s)[i].tries = s[i].tries
<1>1. /\ Len(s) \in Nat \ {0} /\ DOMAIN s = 1 .. Len(s)
      /\ DOMAIN Below(s) = 1 .. (Len(s) - 1)
      /\ \A i \in 1 .. (Len(s) - 1) : Below(s)[i] = s[i]
  BY BelowBatch
<1>2. \A i \in 1 .. (Len(s) - 1) : i \in 1 .. Len(s)
  BY <1>1
<1> QED
  BY <1>1, <1>2

\* Replacing the top by a batch of the same tries leaves all tries as they are.
LEMMA ShrinkBatch ==
  ASSUME NEW s \in Seq(RetryBatch), s # <<>>, NEW b \in RetryBatch,
         b.tries = s[Len(s)].tries
  PROVE  /\ Append(Below(s), b) \in Seq(RetryBatch)
         /\ DOMAIN Append(Below(s), b) = DOMAIN s
         /\ \A i \in DOMAIN s : Append(Below(s), b)[i].tries = s[i].tries
<1> DEFINE r == Below(s)
           n == Len(s)
           s1 == Append(r, b)
<1>1. /\ n \in Nat \ {0} /\ DOMAIN s = 1 .. n
      /\ r \in Seq(RetryBatch) /\ Len(r) = n - 1
      /\ \A i \in 1 .. (n - 1) : r[i] = s[i]
  BY BelowBatch
<1> HIDE DEF r, n
<1>2. /\ s1 \in Seq(RetryBatch) /\ DOMAIN s1 = 1 .. (Len(r) + 1)
      /\ \A i \in 1 .. Len(r) : s1[i] = r[i]
      /\ s1[Len(r) + 1] = b
  BY <1>1, PushBatch
<1> HIDE DEF s1
<1>3. (n - 1) + 1 = n
  BY <1>1
<1>4. DOMAIN s1 = 1 .. n /\ s1[n] = b /\ \A i \in 1 .. (n - 1) : s1[i] = r[i]
  BY <1>1, <1>2, <1>3
<1>5. ASSUME NEW i \in 1 .. n PROVE s1[i].tries = s[i].tries
  <2>1. CASE i = n
    BY <1>4, <2>1 DEF n
  <2>2. CASE i # n
    <3>1. i \in 1 .. (n - 1)
      BY <1>1, <2>2
    <3> QED
      BY <1>1, <1>4, <3>1
  <2> QED
    BY <2>1, <2>2
<1> QED
  BY <1>1, <1>2, <1>4, <1>5 DEF s1, r

\* sendNextRetryStackProbe().
LEMMA RetryProbeKeeps ==
  ASSUME IInv, RetryProbe
  PROVE  IInv'
<1> USE IInvParts
<1> DEFINE s == retry_stack[hss]
           top == s[Len(s)]
           s1 == retry_stack'[hss]
<1>1. pc = "retry" /\ hss \in Hosts /\ s # <<>>
  BY DEF RetryProbe, InRound, IteratorsValid, GroupTypes
<1>2. s \in Seq(RetryBatch) /\ top \in RetryBatch /\ Len(s) \in DOMAIN s
  BY <1>1 DEF BenchTypes
<1>3. PICK port \in top.ports :
        /\ retry_stack' = [retry_stack EXCEPT ![hss] =
             IF top.ports = {port} THEN SubSeq(s, 1, Len(s) - 1)
             ELSE Append(SubSeq(s, 1, Len(s) - 1),
                         [top EXCEPT !.ports = top.ports \ {port}])]
        /\ Send(hss, ScanProbe(port, NextSeqnum(top.tries)))
  BY DEF RetryProbe
<1>4. /\ top.ports \in SUBSET Ports /\ top.tries \in Seqnum
      /\ port \in Ports /\ top.ports \ {port} \in SUBSET Ports
  BY <1>2, <1>3 DEF RetryBatch
<1>5. \A g \in Hosts : retry_stack'[g] = IF g = hss THEN s1 ELSE retry_stack[g]
  BY <1>1, <1>3 DEF BenchTypes
<1>6. s1 = Below(s) \/ s1 = Append(Below(s), [top EXCEPT !.ports = top.ports \ {port}])
  BY <1>1, <1>3 DEF BenchTypes, Below
<1>7. /\ s1 \in Seq(RetryBatch)
      /\ \A i \in DOMAIN s1 : i \in DOMAIN s /\ s1[i].tries = s[i].tries
  <2> DEFINE b == [top EXCEPT !.ports = top.ports \ {port}]
  <2>1. b \in RetryBatch /\ b.tries = s[Len(s)].tries
    BY <1>2, <1>4 DEF RetryBatch
  <2> HIDE DEF s1, s, b
  <2>2. CASE s1 = Below(s)
    BY <1>1, <1>2, <2>2, BelowBatch, PopBatch
  <2>3. CASE s1 = Append(Below(s), b)
    BY <1>1, <1>2, <2>1, <2>3, ShrinkBatch
  <2> QED
    BY <1>6, <2>2, <2>3 DEF b
<1>8. top.tries < allowedTryno(hss)
  BY <1>1, <1>2 DEF TrynoWithinLimit
<1>9. Sendable(hss, ScanProbe(port, NextSeqnum(top.tries)))
  <2>1. /\ NextSeqnum(top.tries) \in Seqnum
        /\ NextSeqnum(top.tries) <= allowedTryno(hss)
    BY <1>1, <1>4, <1>8, TrynoTypes
  <2> QED
    BY <1>4, <2>1, ProbeRecords DEF Sendable, Within
<1>10. Effect
  BY <1>1, <1>3, <1>9, SendEffect
<1>11. UNCHANGED <<probe_bench, bench_tryno, rldVars, toclock, scantype>>
  BY DEF RetryProbe
<1> HIDE DEF s1
<1>12. BenchTypes'
  <2>1. retry_stack' \in [Hosts -> Seq(RetryBatch)]
    BY <1>1, <1>3, <1>5, <1>7 DEF BenchTypes
  <2> QED
    BY <1>11, <2>1 DEF BenchTypes
<1>13. \A g \in Hosts : \A i \in DOMAIN retry_stack'[g] :
         i \in DOMAIN retry_stack[g]
         /\ retry_stack'[g][i].tries = retry_stack[g][i].tries
  BY <1>5, <1>7
<1>14. BenchWithin /\ StackWithin
  BY <1>11, <1>13 DEF BenchWithin, StackWithin, TrynoWithinLimit
<1>15. RetryStackSorted'
  BY <1>11, <1>13 DEF RetryStackSorted
<1>16. TrynoWithinLimit'
  BY <1>10, <1>12, <1>14, LimitKept
<1>17. SentTypes'
  <2>1. CountSent(hss) /\ UNCHANGED <<next_portidx, nxtpseq>>
    BY DEF RetryProbe
  <2> QED
    BY <1>1, <2>1, CountSentTypes DEF SentTypes
<1>18. LoopTypes' /\ GroupTypes' /\ IteratorsValid' /\ AssertsHold'
  BY <1>1, RoundKeeps DEF RetryProbe
<1> QED
  BY <1>10, <1>11, <1>12, <1>15, <1>16, <1>17, <1>18, UnchangedParts
     DEF IInv, TypeOK, Effect

\* sendNextScanProbe().
LEMMA NewProbeKeeps ==
  ASSUME IInv, NewProbe
  PROVE  IInv'
<1> USE IInvParts
<1> DEFINE port == next_portidx[hss] + 1
<1>1. pc = "new" /\ hss \in Hosts
  BY DEF NewProbe, InRound, IteratorsValid, GroupTypes
<1>2. port \in Ports
  <2>1. next_portidx[hss] \in 0 .. NumPorts /\ NumPorts \in Nat
    BY <1>1, ConstantsAssumption DEF SentTypes
  <2>2. next_portidx[hss] < NumPorts
    BY DEF NewProbe, freshPortsLeft
  <2> QED
    BY <2>1, <2>2 DEF Ports
<1>3. Sendable(hss, ScanProbe(port, 0))
  <2>1. allowedTryno(hss) \in 0 .. 127 /\ 0 \in Seqnum
    BY <1>1, TrynoTypes DEF Seqnum
  <2>2. 0 <= allowedTryno(hss)
    BY <2>1
  <2> QED
    BY <1>2, <2>1, <2>2, ProbeRecords DEF Sendable, Within
<1>4. Effect
  BY <1>1, <1>3, SendEffect DEF NewProbe
<1>5. UNCHANGED <<benchVars, rldVars>>
  BY DEF NewProbe
<1>6. SentTypes'
  <2>1. CountSent(hss) /\ UNCHANGED nxtpseq
    BY DEF NewProbe
  <2>2. next_portidx' = [next_portidx EXCEPT ![hss] = port]
    BY DEF NewProbe
  <2>3. port \in 0 .. NumPorts
    BY <1>2, ConstantsAssumption DEF Ports
  <2>4. next_portidx' \in [Hosts -> 0 .. NumPorts]
    BY <1>1, <2>2, <2>3 DEF SentTypes
  <2> QED
    BY <1>1, <2>1, <2>4, CountSentTypes DEF SentTypes
<1>7. ClockTypes'
  BY <1>1 DEF NewProbe, ClockTypes
<1>8. LoopTypes' /\ GroupTypes' /\ IteratorsValid' /\ AssertsHold'
  BY <1>1, RoundKeeps DEF NewProbe
<1>9. TrynoWithinLimit'
  BY <1>4, <1>5, LimitKeptSimply
<1> QED
  BY <1>4, <1>5, <1>6, <1>7, <1>8, <1>9, UnchangedParts DEF IInv, TypeOK, Effect

\* The steps that only go on to another phase.
LEMMA PhaseKeeps ==
  ASSUME IInv, EndNewProbes \/ EndWait \/ EndProcess
  PROVE  IInv'
<1> USE IInvParts
<1>1. UNCHANGED <<groupVars, probeVars, benchVars, rldVars, sentVars, targetVars,
                  toclock, scantype>>
  BY DEF EndNewProbes, EndWait, EndProcess
<1>2. Effect
  BY <1>1, UnchangedParts
<1>3. LoopTypes' /\ AssertsHold'
  BY DEF EndNewProbes, EndWait, EndProcess, LoopTypes, AssertsHold, Phases
<1>4. IteratorsValid'
  BY <1>1 DEF EndNewProbes, EndWait, EndProcess, groupVars, IteratorsValid, Removing
<1>5. TrynoWithinLimit'
  BY <1>1, <1>2, LimitKeptSimply
<1> QED
  BY <1>1, <1>2, <1>3, <1>4, <1>5, UnchangedParts DEF IInv, TypeOK, Effect

\* The steps that only let time pass.
LEMMA TimeKeeps ==
  ASSUME IInv, NEW h \in Hosts, RateLimitWaitOver(h) \/ ClockExpires(h)
  PROVE  IInv'
<1> USE IInvParts
<1>1. UNCHANGED <<loopVars, groupVars, probeVars, benchVars, sentVars, targetVars>>
  BY DEF RateLimitWaitOver, ClockExpires
<1>2. Effect
  BY <1>1, UnchangedParts
<1>3. RldTypes'
  BY DEF RateLimitWaitOver, ClockExpires, RldTypes, rldVars
<1>4. ClockTypes'
  BY DEF RateLimitWaitOver, ClockExpires, ClockTypes
<1>5. TrynoWithinLimit'
  BY <1>1, <1>2, LimitKeptSimply
<1> QED
  BY <1>1, <1>2, <1>3, <1>4, <1>5, UnchangedParts DEF IInv, TypeOK, Effect

\* An answer whose effect on the probes is known, in waitForResponses().
LEMMA AnswerKeeps ==
  ASSUME IInv, Effect, pc = "wait", AnswerLeaves
  PROVE  IInv'
<1> USE IInvParts
<1>1. UNCHANGED <<groupVars, benchVars, rldVars, sentVars, toclock, scantype>>
  BY DEF AnswerLeaves
<1>2. LoopTypes' /\ AssertsHold'
  BY DEF AnswerLeaves, LoopTypes, AssertsHold, Phases
<1>3. IteratorsValid'
  BY <1>1 DEF AnswerLeaves, groupVars, IteratorsValid, Removing
<1>4. TrynoWithinLimit'
  BY <1>1, LimitKeptSimply
<1> QED
  BY <1>1, <1>2, <1>3, <1>4, UnchangedParts DEF IInv, TypeOK, Effect

\* The answers of port scans and of the kinds of host discovery.
LEMMA ResultKeeps ==
  ASSUME IInv, NEW h \in Hosts, NEW p \in probes_outstanding[h],
         PortResult(h, p) \/ PingResult(h, p) \/ ArpResult(h, p)
           \/ ConnectTimedOut(h, p)
  PROVE  IInv'
<1> USE IInvParts
<1>0. pc = "wait" /\ AnswerLeaves
  BY DEF PortResult, PingResult, ArpResult, ConnectTimedOut, Answerable
<1>1. /\ p \in UltraProbe
      /\ p.port \in Ports \cup {PingPort} /\ p.tryno \in Seqnum
  BY DEF ProbeTypes, UltraProbe
<1>2. ASSUME NEW D \in SUBSET probes_outstanding[h], Destroy(h, D)
      PROVE  ProbeTypes' /\ ListsWithin
  BY <1>2, DestroyWithin
<1>3. {p} \in SUBSET probes_outstanding[h]
  OBVIOUS
<1>4. ASSUME PortResult(h, p) PROVE Effect
  <2>1. ProbeTypes' /\ ListsWithin
    BY <1>2, <1>3, <1>4 DEF PortResult
  <2>2. CASE UNCHANGED targetVars
    BY <2>1, <2>2, UnchangedWithin DEF Effect
  <2>3. CASE \E useful \in BOOLEAN : PortUpdate(h, p.port, p.tryno, useful)
    BY <1>1, <2>1, <2>3, PortUpdateTypes DEF Effect, TrynoGrows
  <2> QED
    BY <1>4, <2>2, <2>3 DEF PortResult
<1>5. ASSUME PingResult(h, p) PROVE Effect
  <2>1. CASE UNCHANGED targetVars /\ Destroy(h, {p})
    BY <1>2, <1>3, <2>1, UnchangedWithin DEF Effect
  <2>2. CASE HostUpdate(h, p.port, "UP") /\ Destroy(h, probes_outstanding[h])
    BY <1>1, <1>2, <2>2, HostUpdateGrows DEF Effect
  <2>3. CASE HostUpdate(h, p.port, "DOWN") /\ Destroy(h, {p})
    BY <1>1, <1>2, <1>3, <2>3, HostUpdateGrows DEF Effect
  <2>4. CASE UNCHANGED <<probeVars, targetVars>>
    BY <2>4, UnchangedParts
  <2> QED
    BY <1>5, <2>1, <2>2, <2>3, <2>4 DEF PingResult
<1>6. ASSUME ArpResult(h, p) PROVE Effect
  BY <1>1, <1>2, <1>3, <1>6, HostUpdateGrows DEF Effect, ArpResult
<1>7. ASSUME ConnectTimedOut(h, p) PROVE Effect
  <2> DEFINE q == [p EXCEPT !.timedout = TRUE]
             S == (probes_outstanding[h] \ {p}) \cup {q}
  <2>1. /\ ProbeTypes'
        /\ probes_outstanding' = [probes_outstanding EXCEPT ![h] = S]
    BY <1>7, MarkTimedoutTypes DEF ConnectTimedOut
  <2>2. q.tryno = p.tryno /\ q.isPing = p.isPing
    BY <1>1, ProbeRecords
  <2>3. Within(h, S) /\ \A g \in Hosts : Within(g, probes_outstanding[g])
    BY <2>2 DEF ProbesWithin, Within
  <2> HIDE DEF S
  <2>4. \A g \in Hosts : probes_outstanding'[g] =
                           IF g = h THEN S ELSE probes_outstanding[g]
    BY <2>1 DEF ProbeTypes
  <2>5. ListsWithin
    BY <2>3, <2>4 DEF ListsWithin, Within
  <2> QED
    BY <1>7, <2>1, <2>5, UnchangedWithin DEF ConnectTimedOut, Effect
<1> QED
  BY <1>0, <1>4, <1>5, <1>6, <1>7, AnswerKeeps

\* The same from a host that has no probe in its list.
LEMMA NoProbeKeeps ==
  ASSUME IInv, NEW h \in Hosts, ArpResultNoProbe(h)
  PROVE  IInv'
<1> USE IInvParts
<1>1. UNCHANGED <<loopVars, groupVars, probeVars, benchVars, rldVars, sentVars,
                  max_successful_tryno, pingprobe, result, toclock, scantype>>
  BY DEF ArpResultNoProbe
<1>2. TargetTypes'
  BY <1>1 DEF ArpResultNoProbe, TargetTypes
<1>3. TrynoGrows
  <2>1. \A g \in Hosts : max_successful_tryno[g] \in 0 .. 127
    BY DEF TargetTypes, Seqnum
  <2> QED
    BY <1>1, <2>1 DEF TrynoGrows
<1>4. Effect
  BY <1>1, <1>2, <1>3, UnchangedWithin DEF Effect
<1>5. TrynoWithinLimit'
  BY <1>1, <1>4, LimitKeptSimply
<1> QED
  BY <1>1, <1>4, <1>5, UnchangedParts DEF IInv, TypeOK, Effect

\* removeCompletedHosts(): a completed host is forgotten.
LEMMA PurgeKeeps ==
  ASSUME IInv, NEW h \in Hosts, Purge(h)
  PROVE  IInv'
<1> USE IInvParts
<1>1. UNCHANGED <<loopVars, benchVars, rldVars, sentVars, targetVars, toclock, scantype>>
  BY DEF Purge
<1>2. Effect
  BY <1>1, DestroyWithin, UnchangedWithin DEF Purge, Effect
<1>3. GroupTypes'
  BY DEF Purge, GroupTypes
<1>4. IteratorsValid'
  BY <1>1 DEF Purge, loopVars, IteratorsValid, Removing
<1>5. TrynoWithinLimit'
  BY <1>1, <1>2, LimitKeptSimply
<1> QED
  BY <1>1, <1>2, <1>3, <1>4, <1>5, UnchangedParts DEF IInv, TypeOK, Effect

\* removeCompletedHosts(): the loop over the incomplete hosts starts or ends.
LEMMA StartRemovingKeeps ==
  ASSUME IInv, StartRemoving \/ EndRemoving
  PROVE  IInv'
<1> USE IInvParts
<1>1. UNCHANGED <<groupVars, probeVars, benchVars, rldVars, sentVars, targetVars,
                  toclock, scantype>>
  BY DEF StartRemoving, EndRemoving
<1>2. Effect
  BY <1>1, UnchangedParts
<1>3. First(incompleteHosts) \in incompleteHosts \cup {End}
  <2>1. incompleteHosts \in SUBSET Hosts /\ NoHost \in Nat
    BY DEF GroupTypes, NoHost
  <2> QED
    BY <2>1, FollowingType DEF First
<1>4. hostI' \in incompleteHosts \cup {End}
  BY <1>3 DEF StartRemoving, EndRemoving
<1>5. pc' \in {"remove1", "remove2", "done", "process", "globalping"}
  BY DEF StartRemoving, EndRemoving, Purging, Removing
<1>6. timedout' = FALSE /\ UNCHANGED <<hss, unableToSend>>
  BY DEF StartRemoving, EndRemoving
<1>7. LoopTypes' /\ AssertsHold'
  BY <1>4, <1>5, <1>6 DEF LoopTypes, GroupTypes, AssertsHold, Phases
<1>8. IteratorsValid'
  BY <1>1, <1>4, <1>5 DEF groupVars, IteratorsValid, Removing
<1>9. TrynoWithinLimit'
  BY <1>1, <1>2, LimitKeptSimply
<1> QED
  BY <1>1, <1>2, <1>7, <1>8, <1>9, UnchangedParts DEF IInv, TypeOK, Effect

\* removeCompletedHosts() on one host: nextI moves on before its host is erased.
LEMMA RemoveIfDoneKeeps ==
  ASSUME IInv, RemoveIfDone
  PROVE  IInv'
<1> USE IInvParts
<1> DEFINE h == hostI
           I == incompleteHosts
<1>1. /\ h \in I /\ I \in SUBSET Hosts /\ h \in Hosts
      /\ pc \in {"remove1", "remove2"} /\ nextI \in I
  BY DEF RemoveIfDone, Removing, IteratorsValid, GroupTypes
<1>2. UNCHANGED <<pc, hss, unableToSend, probeVars, benchVars, rldVars, sentVars,
                  targetVars, scantype>>
  BY DEF RemoveIfDone
<1>3. Effect
  BY <1>2, UnchangedParts
<1>4. hostI' \in (I \ {h}) \cup {End}
  <2>1. h \in Nat
    BY <1>1 DEF Hosts
  <2>2. hostI' = Following(h, I)
    BY DEF RemoveIfDone
  <2>3. Following(h, I) \in I \cup {End} /\ (Following(h, I) \in I => Following(h, I) > h)
    BY <1>1, <2>1, FollowingType
  <2>4. Following(h, I) # h
    <3>1. h # End
      BY <1>1, ConstantsAssumption DEF Hosts, End
    <3>2. ~(h > h)
      BY <2>1
    <3> QED
      BY <1>1, <2>3, <3>1, <3>2
  <2> QED
    BY <2>2, <2>3, <2>4
<1>5. timedout' \in BOOLEAN
  BY DEF RemoveIfDone, LoopTypes, timedOut
<1>6. LoopTypes' /\ AssertsHold'
  BY <1>1, <1>2, <1>4, <1>5 DEF LoopTypes, AssertsHold
<1>7. TrynoWithinLimit'
  BY <1>2, <1>3, LimitKeptSimply
<1>8. ASSUME Retire(h) PROVE GroupTypes' /\ ClockTypes' /\ IteratorsValid'
  <2>1. NextIWithout(h) \in I /\ (I \ {h} # {} => NextIWithout(h) \in I \ {h})
    <3>1. CASE nextI = h /\ Cardinality(I) > 1
      <4>1. I # {h}
        <5>1. Cardinality({h}) = 1
          BY FS_Singleton, Zenon
        <5>2. ~(1 > 1)
          OBVIOUS
        <5> QED
          BY <3>1, <5>1, <5>2
      <4>2. Advance(h, I) \in I /\ Advance(h, I) # h
        BY <1>1, <4>1, AdvanceType
      <4> QED
        BY <3>1, <4>2 DEF NextIWithout
    <3>2. CASE nextI = h /\ ~(Cardinality(I) > 1)
      <4>1. IsFiniteSet(I)
        <5>1. IsFiniteSet(Hosts)
          BY FS_Interval, ConstantsAssumption DEF Hosts
        <5> QED
          BY <1>1, <5>1, FS_Subset, Zenon
      <4>2. Cardinality(I) \in Nat /\ Cardinality(I) # 0
        BY <1>1, <4>1, FS_CardinalityType, FS_EmptySet, Zenon
      <4>3. Cardinality(I) = 1
        BY <3>2, <4>2
      <4>4. PICK x : I = {x}
        BY <4>1, <4>3, FS_Singleton, Zenon
      <4>5. I \ {h} = {}
        BY <1>1, <4>4
      <4> QED
        BY <1>1, <3>2, <4>5 DEF NextIWithout
    <3>3. CASE nextI # h
      BY <1>1, <3>3 DEF NextIWithout
    <3> QED
      BY <3>1, <3>2, <3>3
  <2>2. incompleteHosts' = I \ {h} /\ completedHosts' = completedHosts \cup {h}
        /\ nextI' = NextIWithout(h) /\ pinghost' \in {h, pinghost}
    BY <1>8 DEF Retire
  <2>3. num_hosts_timedout' \in Nat
    BY <1>8 DEF Retire, GroupTypes
  <2>4. GroupTypes'
    BY <1>1, <2>1, <2>2, <2>3 DEF GroupTypes
  <2>5. ClockTypes'
    BY <1>2, <1>8 DEF Retire, ClockTypes
  <2>6. IteratorsValid'
    BY <1>1, <1>2, <1>4, <2>1, <2>2 DEF IteratorsValid, Removing
  <2> QED
    BY <2>4, <2>5, <2>6
<1>9. ASSUME UNCHANGED <<groupVars, toclock>>
      PROVE  GroupTypes' /\ ClockTypes' /\ IteratorsValid'
  BY <1>1, <1>2, <1>4, <1>9, UnchangedParts DEF groupVars, IteratorsValid, Removing
<1>10. GroupTypes' /\ ClockTypes' /\ IteratorsValid'
  BY <1>8, <1>9 DEF RemoveIfDone
<1> QED
  BY <1>2, <1>3, <1>6, <1>7, <1>10, UnchangedParts DEF IInv, TypeOK, Effect

\* processData() on the probe list: the probes that stay keep their tryno.
LEMMA ProcessProbesEffect ==
  ASSUME IInv, NEW h \in Hosts, NEW late \in SUBSET Active(h),
         NEW old \in SUBSET (probes_outstanding[h] \ late),
         ProcessProbes(h, late, old)
  PROVE  ProbeTypes' /\ ListsWithin
<1> USE IInvParts
<1> DEFINE P == probes_outstanding[h]
           gone == GiveUp(h) \cup ToBench(h, old) \cup Spent(h, late, old)
           f == [p \in late |-> [p EXCEPT !.timedout = TRUE]]
           T == {[p EXCEPT !.timedout = TRUE] : p \in late}
           S == (P \ (late \cup gone)) \cup T
           da == -Cardinality(late \cup (Spent(h, late, old) \cap Active(h)))
           dw == Cardinality({p \in late : ~p.isPing})
                   - Cardinality(GiveUp(h) \cup ToBench(h, old))
<1>1. P \in SUBSET UltraProbe /\ Within(h, P) /\ late \in SUBSET P
  BY DEF ProbeTypes, ProbesWithin, Active
<1>2. IsFiniteSet(T)
  <2>1. f \in Surjection(late, T)
    BY DEF Surjection
  <2>2. IsFiniteSet(late)
    BY <1>1, CountTypes
  <2> QED
    BY <2>1, <2>2, FS_Surjection, Zenon
<1>3. S \in SUBSET UltraProbe /\ Within(h, S)
  <2>1. \A p \in late : LET q == [p EXCEPT !.timedout = TRUE] IN
          q \in UltraProbe /\ q.tryno = p.tryno /\ q.isPing = p.isPing
    BY <1>1, ProbeRecords
  <2>2. \A p \in late : ~p.isPing => p.tryno <= allowedTryno(h)
    BY <1>1 DEF Within
  <2>3. T \in SUBSET UltraProbe /\ Within(h, T)
    BY <2>1, <2>2 DEF Within
  <2> HIDE DEF T
  <2> QED
    BY <1>1, <2>3 DEF Within
<1>4. IsFiniteSet(S)
  <2>1. P \ (late \cup gone) \in SUBSET P
    OBVIOUS
  <2>2. IsFiniteSet(P \ (late \cup gone))
    BY <2>1, CountTypes
  <2> QED
    BY <1>2, <2>2, FS_Union, Zenon
<1>5. da \in Int
  <2>1. late \cup (Spent(h, late, old) \cap Active(h)) \in SUBSET P
    BY <1>1 DEF Spent
  <2>2. Cardinality(late \cup (Spent(h, late, old) \cap Active(h))) \in Nat
    BY <2>1, CountTypes, Zenon
  <2> QED
    BY <2>2
<1>6. dw \in Int
  <2>1. {p \in late : ~p.isPing} \in SUBSET P
    BY <1>1
  <2>2. GiveUp(h) \cup ToBench(h, old) \in SUBSET P
    BY DEF GiveUp, ToBench, Waiting
  <2>3. Cardinality({p \in late : ~p.isPing}) \in Nat
    BY <2>1, CountTypes, Zenon
  <2>4. Cardinality(GiveUp(h) \cup ToBench(h, old)) \in Nat
    BY <2>2, CountTypes, Zenon
  <2> QED
    BY <2>3, <2>4
<1>7. SetProbes(h, S, da, dw)
  BY DEF ProcessProbes
<1> HIDE DEF S, da, dw
<1> QED
  BY <1>3, <1>4, <1>5, <1>6, <1>7, SetProbesWithin

\* The verdicts of processData() keep the types of results and host states.
LEMMA ProcessResultsTypes ==
  ASSUME IInv, NEW h \in Hosts, ProcessResults(h)
  PROVE  TargetTypes' /\ TrynoGrows
<1> USE IInvParts
<1> DEFINE R == {Failed, Unknown, Answered} \cup Seqnum
           row == [port \in Ports |->
                     IF result[h][port] = Unknown /\ GivenUp(h, port) # {}
                     THEN CHOOSE t \in GivenUp(h, port) : TRUE
                     ELSE result[h][port]]
<1>1. \A port \in Ports : GivenUp(h, port) \subseteq Seqnum
  BY DEF GivenUp, GiveUp, Waiting, ProbeTypes, UltraProbe, BenchTypes
<1>2. row \in [Ports -> R]
  <2>1. \A port \in Ports : result[h][port] \in R
    BY DEF TargetTypes
  <2>2. \A port \in Ports : GivenUp(h, port) # {} =>
          (CHOOSE t \in GivenUp(h, port) : TRUE) \in Seqnum
    BY <1>1
  <2> QED
    BY <2>1, <2>2
<1>3. result' = [result EXCEPT ![h] = row]
  BY DEF ProcessResults
<1> HIDE DEF row, R
<1>4. result' \in [Hosts -> [Ports -> R]]
  BY <1>2, <1>3 DEF TargetTypes, R
<1>5. flags' \in [Hosts -> {"UNKNOWN", "UP", "DOWN"}]
  BY DEF ProcessResults, TargetTypes, NewFlags
<1>6. UNCHANGED <<max_successful_tryno, pingprobe>>
  BY DEF ProcessResults
<1>7. TargetTypes'
  BY <1>4, <1>5, <1>6 DEF TargetTypes, R
<1>8. \A g \in Hosts : max_successful_tryno[g] \in 0 .. 127
  BY DEF TargetTypes, Seqnum
<1> QED
  BY <1>6, <1>7, <1>8 DEF TrynoGrows

\* The bench after processData(): it has been emptied, or it is at the limit.
LEMMA ProcessBenchKeeps ==
  ASSUME IInv, NEW h \in Hosts, NEW old, ProcessBench(h, old)
  PROVE  BenchTypes' /\ BenchWithin /\ StackWithin /\ RetryStackSorted'
<1> USE IInvParts
<1> DEFINE a == allowedTryno(h)
           B == LeftOnBench(h) \cup {p.port : p \in ToBench(h, old)}
           t == BenchTryno(h, old)
           s == retry_stack[h]
           b == [ports |-> probe_bench[h], tries |-> bench_tryno[h]]
           s1 == IF RetransmitBench(h) THEN Append(s, b) ELSE s
<1>1. a \in 0 .. 127 /\ bench_tryno[h] \in 0 .. 127 /\ s \in Seq(RetryBatch)
  BY TrynoTypes DEF BenchTypes, Seqnum
<1>2. b \in RetryBatch
  BY DEF BenchTypes, RetryBatch
<1>3. /\ \A g \in Hosts : probe_bench'[g] = IF g = h THEN B ELSE probe_bench[g]
      /\ \A g \in Hosts : bench_tryno'[g] = IF g = h THEN t ELSE bench_tryno[g]
      /\ \A g \in Hosts : retry_stack'[g] = IF g = h THEN s1 ELSE retry_stack[g]
  BY DEF ProcessBench, BenchTypes
<1>4. LeftOnBench(h) # {} =>
        /\ probe_bench[h] # {} /\ LeftOnBench(h) = probe_bench[h]
        /\ ~RetransmitBench(h) /\ t = bench_tryno[h]
  BY DEF LeftOnBench, BenchTryno
<1>5. LeftOnBench(h) = {} /\ B # {} => t = a
  BY DEF BenchTryno
<1>6. t \in Seqnum
  BY <1>1 DEF BenchTryno, Seqnum
<1>7. B \in SUBSET Ports
  <2>1. \A p \in ToBench(h, old) : p \in UltraProbe /\ ~p.isPing
    BY DEF ToBench, Waiting, ProbeTypes
  <2>2. \A p \in ToBench(h, old) : p.port \in Ports
    BY <2>1 DEF UltraProbe
  <2>3. LeftOnBench(h) \in SUBSET Ports
    BY DEF LeftOnBench, BenchTypes
  <2> QED
    BY <2>2, <2>3
<1>8. /\ s1 \in Seq(RetryBatch)
      /\ RetransmitBench(h) =>
           /\ s1[Len(s) + 1] = b /\ \A i \in 1 .. Len(s) : s1[i] = s[i]
           /\ DOMAIN s1 = 1 .. (Len(s) + 1)
      /\ ~RetransmitBench(h) => s1 = s
      /\ Len(s) \in Nat /\ DOMAIN s = 1 .. Len(s)
  BY <1>1, <1>2, PushBatch
<1>9. /\ probe_bench[h] # {} => bench_tryno[h] <= a
      /\ \A i \in DOMAIN s : s[i].tries < a
      /\ \A i, j \in DOMAIN s : i < j => s[i].tries < s[j].tries
      /\ probe_bench[h] # {} => \A i \in DOMAIN s : s[i].tries < bench_tryno[h]
  BY DEF TrynoWithinLimit, RetryStackSorted
<1>10. RetransmitBench(h) => probe_bench[h] # {} /\ bench_tryno[h] < a
  BY <1>1 DEF RetransmitBench
<1>11. b.tries = bench_tryno[h]
  OBVIOUS
<1>12. \A i \in DOMAIN s : s[i].tries \in 0 .. 127
  <2>1. \A i \in DOMAIN s : s[i] \in RetryBatch
    BY <1>1
  <2> QED
    BY <2>1 DEF RetryBatch, Seqnum
<1> HIDE DEF a, B, t, s, b, s1
<1>13. B # {} => t <= a
  BY <1>1, <1>4, <1>5, <1>9
<1>14. \A i \in DOMAIN s1 : s1[i].tries < a
  <2>1. CASE RetransmitBench(h)
    <3> SUFFICES ASSUME NEW i \in 1 .. (Len(s) + 1) PROVE s1[i].tries < a
      BY <1>8, <2>1
    <3>1. CASE i = Len(s) + 1
      BY <1>8, <1>10, <1>11, <2>1, <3>1
    <3>2. CASE i # Len(s) + 1
      <4>1. i \in 1 .. Len(s)
        BY <1>8, <3>2, SMTT(30)
      <4> QED
        BY <1>8, <1>9, <2>1, <4>1
    <3> QED
      BY <3>1, <3>2
  <2>2. CASE ~RetransmitBench(h)
    BY <1>8, <1>9, <2>2
  <2> QED
    BY <2>1, <2>2
<1>15. \A i, j \in DOMAIN s1 : i < j => s1[i].tries < s1[j].tries
  <2>1. CASE RetransmitBench(h)
    <3> SUFFICES ASSUME NEW i \in 1 .. (Len(s) + 1), NEW j \in 1 .. (Len(s) + 1),
                        i < j
                 PROVE  s1[i].tries < s1[j].tries
      BY <1>8, <2>1
    <3>1. i \in 1 .. Len(s) /\ s1[i] = s[i]
      BY <1>8, <2>1
    <3>2. CASE j = Len(s) + 1
      BY <1>8, <1>9, <1>10, <1>11, <2>1, <3>1, <3>2
    <3>3. CASE j # Len(s) + 1
      <4>1. j \in 1 .. Len(s) /\ s1[j] = s[j]
        BY <1>8, <2>1, <3>3
      <4> QED
        BY <1>8, <1>9, <3>1, <4>1, SMTT(30)
    <3> QED
      BY <3>2, <3>3
  <2>2. CASE ~RetransmitBench(h)
    BY <1>8, <1>9, <2>2
  <2> QED
    BY <2>1, <2>2
<1>16. B # {} => \A i \in DOMAIN s1 : s1[i].tries < t
  <2>1. CASE LeftOnBench(h) # {}
    BY <1>4, <1>8, <1>9, <2>1
  <2>2. CASE LeftOnBench(h) = {}
    BY <1>5, <1>14, <2>2
  <2> QED
    BY <2>1, <2>2
<1>17. BenchTypes'
  <2>1. probe_bench' = [probe_bench EXCEPT ![h] = B]
        /\ bench_tryno' = [bench_tryno EXCEPT ![h] = t]
        /\ retry_stack' = [retry_stack EXCEPT ![h] = s1]
    BY DEF ProcessBench, B, t, s1, s, b
  <2> QED
    BY <1>6, <1>7, <1>8, <2>1 DEF BenchTypes
<1>18. BenchWithin
  BY <1>3, <1>13 DEF BenchWithin, TrynoWithinLimit, a
<1>19. StackWithin
  BY <1>3, <1>14 DEF StackWithin, TrynoWithinLimit, a
<1>20. RetryStackSorted'
  BY <1>3, <1>15, <1>16 DEF RetryStackSorted
<1> QED
  BY <1>17, <1>18, <1>19, <1>20

\* The assertions of processData() and moveProbeToBench() hold: a probe that
\* goes to the bench is exactly at the limit, and so is what is still there.
LEMMA BenchAssertsHold ==
  ASSUME IInv, NEW h \in Hosts, NEW old
  PROVE  BenchAsserts(h, old)
<1> USE IInvParts
<1>1. allowedTryno(h) \in 0 .. 127 /\ bench_tryno[h] \in 0 .. 127
  BY TrynoTypes DEF BenchTypes, Seqnum
<1>2. LeftOnBench(h) # {} => bench_tryno[h] = allowedTryno(h)
  <2> SUFFICES ASSUME LeftOnBench(h) # {} PROVE bench_tryno[h] = allowedTryno(h)
    OBVIOUS
  <2>1. probe_bench[h] # {} /\ ~RetransmitBench(h)
    BY DEF LeftOnBench
  <2>2. ~(allowedTryno(h) > bench_tryno[h])
    BY <2>1 DEF RetransmitBench
  <2>3. bench_tryno[h] <= allowedTryno(h)
    BY <2>1 DEF TrynoWithinLimit
  <2> QED
    BY <1>1, <2>2, <2>3, SMTT(30)
<1>3. ASSUME NEW p \in ToBench(h, old) PROVE p.tryno = allowedTryno(h)
  <2>1. /\ p \in probes_outstanding[h] /\ p \in UltraProbe /\ ~p.isPing
        /\ p.tryno >= allowedTryno(h)
    BY DEF ToBench, Waiting, ProbeTypes
  <2>2. p.tryno \in 0 .. 127
    BY <2>1 DEF UltraProbe, Seqnum
  <2>3. p.tryno <= allowedTryno(h)
    BY <2>1 DEF TrynoWithinLimit
  <2> QED
    BY <1>1, <2>1, <2>2, <2>3, SMTT(30)
<1> QED
  BY <1>2, <1>3 DEF BenchAsserts

\* processData() on one host.
LEMMA ProcessHostKeeps ==
  ASSUME IInv, NEW late, NEW old, ProcessHost(late, old)
  PROVE  IInv'
<1> USE IInvParts
<1> DEFINE h == hostI
<1>1. /\ h \in incompleteHosts /\ h \in Hosts /\ incompleteHosts \in SUBSET Hosts
      /\ pc = "process"
  BY DEF ProcessHost, IteratorsValid, GroupTypes
<1>2. /\ late \in SUBSET Active(h)
      /\ old \in SUBSET (probes_outstanding[h] \ late)
  BY DEF ProcessHost
<1>3. UNCHANGED <<timedout, hss, unableToSend, groupVars, rldVars, sentVars, toclock, scantype>>
  BY DEF ProcessHost
<1>4. Effect
  <2>1. ProbeTypes' /\ ListsWithin
    BY <1>1, <1>2, ProcessProbesEffect DEF ProcessHost
  <2>2. TargetTypes' /\ TrynoGrows
    BY <1>1, ProcessResultsTypes DEF ProcessHost
  <2> QED
    BY <2>1, <2>2 DEF Effect
<1>5. BenchTypes' /\ BenchWithin /\ StackWithin /\ RetryStackSorted'
  BY <1>1, ProcessBenchKeeps DEF ProcessHost
<1>6. TrynoWithinLimit'
  BY <1>4, <1>5, LimitKept
<1>7. pc' = "process"
  BY <1>1, BenchAssertsHold DEF ProcessHost
<1>8. hostI' \in incompleteHosts \cup {End}
  <2>1. h \in Nat
    BY <1>1 DEF Hosts
  <2> QED
    BY <1>1, <2>1, FollowingType DEF ProcessHost
<1>9. LoopTypes' /\ AssertsHold'
  BY <1>1, <1>3, <1>7, <1>8 DEF LoopTypes, AssertsHold, Phases
<1>10. IteratorsValid'
  BY <1>3, <1>7, <1>8 DEF groupVars, IteratorsValid, Removing
<1> QED
  BY <1>3, <1>4, <1>5, <1>6, <1>9, <1>10, UnchangedParts DEF IInv, TypeOK, Effect

\* The end of processData().
LEMMA ExpireGlobalPingsKeeps ==
  ASSUME IInv, NEW late, ExpireGlobalPings(late)
  PROVE  IInv'
<1> USE IInvParts
<1>1. UNCHANGED <<hostI, timedout, hss, unableToSend, groupVars, benchVars, rldVars,
                  sentVars, targetVars, toclock, scantype>>
  BY DEF ExpireGlobalPings
<1>2. ProbeTypes' /\ ListsWithin
  <2>1. CASE pinghost = NoHost
    BY <2>1, UnchangedWithin DEF ExpireGlobalPings
  <2>2. CASE pinghost # NoHost
    <3>1. pinghost \in Hosts
      BY <2>2 DEF GroupTypes
    <3>2. late \in SUBSET probes_outstanding[pinghost] /\ Destroy(pinghost, late)
      BY <2>2 DEF ExpireGlobalPings
    <3> QED
      BY <3>1, <3>2, DestroyWithin
  <2> QED
    BY <2>1, <2>2
<1>3. Effect
  BY <1>1, <1>2, UnchangedWithin DEF Effect
<1>4. pc' \in {"done", "pings"} /\ (pc' = "pings" => incompleteHosts # {})
  BY DEF ExpireGlobalPings
<1>5. LoopTypes' /\ AssertsHold'
  BY <1>1, <1>4 DEF LoopTypes, AssertsHold, Phases
<1>6. IteratorsValid'
  BY <1>1, <1>4 DEF groupVars, IteratorsValid, Removing
<1>7. TrynoWithinLimit'
  BY <1>1, <1>3, LimitKeptSimply
<1> QED
  BY <1>1, <1>3, <1>5, <1>6, <1>7, UnchangedParts DEF IInv, TypeOK, Effect

\* Nothing changes.
LEMMA StutterKeeps ==
  ASSUME IInv, UNCHANGED vars
  PROVE  IInv'
<1>1. UNCHANGED <<loopVars, groupVars, probeVars, benchVars, rldVars, sentVars,
                  targetVars, toclock, scantype>>
  BY DEF vars
<1>2. Effect
  BY <1>1, UnchangedParts
<1>3. TrynoWithinLimit'
  BY <1>1, <1>2, LimitKeptSimply
<1> QED
  BY <1>1, <1>2, <1>3, UnchangedParts DEF IInv, TypeOK, Effect

-----------------------------------------------------------------------------
(* The theorems. *)

\* UltraScanInfo::Init() establishes the invariant.
LEMMA InitIInv ==
  ASSUME Init
  PROVE  IInv
<1> USE ConstantsAssumption
<1>1. incompleteHosts \in SUBSET Hosts /\ IsFiniteSet(Hosts)
  BY FS_Interval DEF Init, Hosts
<1>2. num_hosts_timedout \in Nat
  <2>1. Hosts \ incompleteHosts \in SUBSET Hosts
    OBVIOUS
  <2>2. Cardinality(Hosts \ incompleteHosts) \in Nat
    BY <1>1, <2>1, FS_Subset, FS_CardinalityType, Zenon
  <2> QED
    BY <2>2 DEF Init
<1>3. /\ nextI \in incompleteHosts \cup {End}
      /\ incompleteHosts # {} => nextI \in incompleteHosts
  <2>1. NoHost \in Nat /\ \A g \in incompleteHosts : ~(g <= NoHost)
    BY <1>1 DEF NoHost, Hosts
  <2>2. /\ First(incompleteHosts) \in incompleteHosts \cup {End}
        /\ First(incompleteHosts) = End => \A g \in incompleteHosts : g <= NoHost
    BY <1>1, <2>1, FollowingType DEF First
  <2> QED
    BY <2>1, <2>2 DEF Init
<1>4. GroupTypes
  BY <1>1, <1>2, <1>3 DEF Init, GroupTypes
<1>5. LoopTypes /\ AssertsHold
  BY DEF Init, LoopTypes, AssertsHold, Phases, End
<1>6. ProbeTypes
  BY FS_EmptySet DEF Init, ProbeTypes
<1>7. BenchTypes
  BY DEF Init, BenchTypes, Seqnum
<1>8. RldTypes
  BY DEF Init, RldTypes
<1>9. SentTypes
  BY DEF Init, SentTypes
<1>10. TargetTypes
  <2>1. pingprobe \in [Hosts -> BOOLEAN]
    BY DEF Init
  <2> QED
    BY <2>1 DEF Init, TargetTypes, Seqnum
<1>11. ClockTypes
  BY DEF Init, ClockTypes
<1>12. IteratorsValid
  BY <1>3 DEF Init, IteratorsValid, Removing
<1>13. TrynoWithinLimit /\ RetryStackSorted
  BY DEF Init, TrynoWithinLimit, RetryStackSorted
<1> QED
  BY <1>4, <1>5, <1>6, <1>7, <1>8, <1>9, <1>10, <1>11, <1>12, <1>13
     DEF IInv, TypeOK

\* Each step of the loop keeps the invariant.
LEMMA NextIInv ==
  ASSUME IInv, [Next]_vars
  PROVE  IInv'
<1>1. ASSUME NEW h \in Hosts, HostPing(h) PROVE IInv'
  BY <1>1, HostPingKeeps
<1>2. ASSUME NEW h \in Hosts, NEW p \in probes_outstanding[h],
             RateLimitWait(h, p) \/ Retransmit(h, p) \/ RetransmitFreed(h, p)
      PROVE  IInv'
  BY <1>2, RateLimitWaitKeeps, RetransmitKeeps, RetransmitFreedKeeps
<1>3. CASE SkipHost("retry") \/ SkipHost("new")
  BY <1>3, SkipHostKeeps
<1>4. ASSUME NEW h \in Hosts, NEW p \in probes_outstanding[h],
             PortResult(h, p) \/ PingResult(h, p) \/ ArpResult(h, p)
               \/ ConnectTimedOut(h, p)
      PROVE  IInv'
  BY <1>4, ResultKeeps
<1>5. ASSUME NEW h \in Hosts,
             RateLimitWaitOver(h) \/ ClockExpires(h) \/ Purge(h)
               \/ ArpResultNoProbe(h)
      PROVE  IInv'
  BY <1>5, TimeKeeps, PurgeKeeps, NoProbeKeeps
<1>6. CASE GlobalPing \/ EndPings \/ EndRetransmits \/ EndRetries
  BY <1>6, GlobalPingKeeps, EndPingsKeeps, StartRoundKeeps
<1>7. CASE RetryProbe \/ NewProbe \/ EndNewProbes \/ EndWait \/ EndProcess
  BY <1>7, RetryProbeKeeps, NewProbeKeeps, PhaseKeeps
<1>8. CASE StartRemoving \/ RemoveIfDone \/ EndRemoving
  BY <1>8, StartRemovingKeeps, RemoveIfDoneKeeps
<1>9. ASSUME NEW late, NEW old, ProcessHost(late, old) PROVE IInv'
  BY <1>9, ProcessHostKeeps
<1>10. ASSUME NEW late, ExpireGlobalPings(late) PROVE IInv'
  BY <1>10, ExpireGlobalPingsKeeps
<1>11. CASE Done \/ UNCHANGED vars
  BY <1>11, StutterKeeps DEF Done
<1> QED
  BY <1>1, <1>2, <1>3, <1>4, <1>5, <1>6, <1>7, <1>8, <1>9, <1>10, <1>11
     DEF Next

\* The invariant holds in every state of every run.
LEMMA Inductive == Spec => []IInv
<1>1. Init => IInv
  BY InitIInv
<1>2. IInv /\ [Next]_vars => IInv'
  BY NextIInv
<1> QED
  BY <1>1, <1>2, PTL DEF Spec

\* Every field of the engine keeps its type in every phase of ultra_scan().
THEOREM TypeCorrect == Spec => []TypeOK
<1>1. IInv => TypeOK
  BY DEF IInv
<1> QED
  BY <1>1, Inductive, PTL

\* No probe of the scan is ever sent beyond what allowedTryno() allows, so
\* --max-retries holds for retransmissions and for the retry stack alike.
THEOREM RetriesBounded == Spec => []TrynoWithinLimit
<1>1. IInv => TrynoWithinLimit
  BY DEF IInv
<1> QED
  BY <1>1, Inductive, PTL

\* The assertions of processData() and moveProbeToBench() never fail.
THEOREM NoAssertFails == Spec => []AssertsHold
<1>1. IInv => AssertsHold
  BY DEF IInv
<1> QED
  BY <1>1, Inductive, PTL

\* The retry stack is sorted, as its comment in scan_engine.h says.
THEOREM StackSorted == Spec => []RetryStackSorted
<1>1. IInv => RetryStackSorted
  BY DEF IInv
<1> QED
  BY <1>1, Inductive, PTL

\* No iterator over incompleteHosts dangles, whatever removeCompletedHosts()
\* erases.
THEOREM IteratorsNeverDangle == Spec => []IteratorsValid
<1>1. IInv => IteratorsValid
  BY DEF IInv
<1> QED
  BY <1>1, Inductive, PTL

-----------------------------------------------------------------------------
(* The inductive invariant, host by host.  O is the probe list of a host,  *)
(* n the number of its last ping, B its bench with tryno t, K its retry    *)
(* stack and i its next_portidx.                                           *)

Marked(p) == [p EXCEPT !.timedout = TRUE]
Resent(p) == [p EXCEPT !.retransmitted = TRUE]

\* No two probes of a list are the same try of a port or the same ping.  Only a
\* probe that timed out is retransmitted.
SameProbe(p, q) == p.port = q.port /\ p.tryno = q.tryno /\ p.nth = q.nth
ListInv(O, n) ==
  /\ \A p, q \in O : SameProbe(p, q) => p = q
  /\ \A p \in O : (p.retransmitted => p.timedout) /\ p.nth <= n

\* Once a port is probed again its earlier tries are marked as retransmitted.
TriesInv(O) ==
  \A p, q \in O : ~p.isPing /\ ~p.retransmitted /\ q.port = p.port =>
    q = p \/ (q.retransmitted /\ q.tryno < p.tryno)

\* All outstanding tries of the port have been followed by another one, and
\* are no later than try t.
Settled(O, port, t) ==
  \A q \in O : q.port = port => q.retransmitted /\ q.tryno <= t

\* The next try of a port on the bench or on the stack is a new one.
BenchInv(O, B, t) == \A port \in B : Settled(O, port, t)
StackInv(O, B, K) ==
  \A j \in DOMAIN K : \A port \in K[j].ports :
    /\ Settled(O, port, K[j].tries)
    /\ port \notin B
    /\ \A k \in DOMAIN K : port \in K[k].ports => k = j

\* Nothing is known of a port before its first probe.
FreshInv(O, B, K, i) ==
  \A port \in Ports : port > i =>
    /\ \A q \in O : q.port # port
    /\ port \notin B
    /\ \A j \in DOMAIN K : port \notin K[j].ports

LocalInv(O, n, B, t, K, i) ==
  ListInv(O, n) /\ TriesInv(O) /\ BenchInv(O, B, t) /\ StackInv(O, B, K)
    /\ FreshInv(O, B, K, i)

AttemptInv ==
  \A h \in Hosts : LocalInv(probes_outstanding[h], nxtpseq[h], probe_bench[h],
                            bench_tryno[h], retry_stack[h], next_portidx[h])

-----------------------------------------------------------------------------
(* Probe lists. *)

\* What a mark changes of a probe, and what it leaves alone.
LEMMA MarkFields ==
  ASSUME NEW p \in UltraProbe
  PROVE  /\ Marked(p) \in UltraProbe /\ SameProbe(Marked(p), p)
         /\ Marked(p).port = p.port /\ Marked(p).tryno = p.tryno
         /\ Marked(p).nth = p.nth /\ Marked(p).isPing = p.isPing
         /\ Marked(p).timedout /\ Marked(p).retransmitted = p.retransmitted
         /\ Resent(p) \in UltraProbe /\ SameProbe(Resent(p), p)
         /\ Resent(p).port = p.port /\ Resent(p).tryno = p.tryno
         /\ Resent(p).nth = p.nth /\ Resent(p).isPing = p.isPing
         /\ Resent(p).retransmitted /\ Resent(p).timedout = p.timedout
BY DEF UltraProbe, Marked, Resent, SameProbe

\* The fields of a probe, and what tells a ping from a probe of a port.
LEMMA ProbeFields ==
  ASSUME NEW p \in UltraProbe
  PROVE  /\ p.port \in Ports \cup {PingPort} /\ p.tryno \in 0 .. 127 /\ p.nth \in Nat
         /\ p.isPing \in BOOLEAN /\ p.timedout \in BOOLEAN
         /\ p.retransmitted \in BOOLEAN
         /\ p.isPing <=> p.port = PingPort
         /\ ~p.isPing => p.nth = 0 /\ p.port \in Ports
         /\ PingPort \notin Ports
BY ConstantsAssumption DEF UltraProbe, Seqnum, PingPort, Ports

\* A try before another one is before the one after it.
LEMMA TryBefore ==
  ASSUME NEW a \in 0 .. 127, NEW b \in 0 .. 127
  PROVE  (a < b => a < b + 1) /\ (a <= b => a < b + 1) /\ b < b + 1
OBVIOUS

\* A batch of the retry stack is made of ports.
LEMMA BatchPorts ==
  ASSUME NEW K \in Seq(RetryBatch)
  PROVE  \A j \in DOMAIN K : K[j].ports \in SUBSET Ports /\ K[j].tries \in 0 .. 127
<1>1. \A j \in DOMAIN K : K[j] \in RetryBatch
  OBVIOUS
<1> QED
  BY <1>1 DEF RetryBatch, Seqnum

\* Marking probes as timed out and destroying others keeps the invariant.
LEMMA RelabelKeeps ==
  ASSUME NEW O \in SUBSET UltraProbe, NEW n, NEW B, NEW t, NEW K, NEW i,
         LocalInv(O, n, B, t, K, i), NEW late, NEW S,
         \A s \in S : \E p \in O : s = IF p \in late THEN Marked(p) ELSE p
  PROVE  LocalInv(S, n, B, t, K, i)
<1>1. \A s \in S : \E p \in O :
        /\ s = IF p \in late THEN Marked(p) ELSE p
        /\ s.port = p.port /\ s.tryno = p.tryno /\ s.nth = p.nth
        /\ s.isPing = p.isPing /\ s.retransmitted = p.retransmitted
        /\ p.timedout => s.timedout
  BY MarkFields
<1>2. ListInv(S, n)
  <2>1. ASSUME NEW s1 \in S, NEW s2 \in S, SameProbe(s1, s2) PROVE s1 = s2
    <3>1. PICK p1 \in O : s1 = (IF p1 \in late THEN Marked(p1) ELSE p1)
                          /\ s1.port = p1.port /\ s1.tryno = p1.tryno /\ s1.nth = p1.nth
      BY <1>1
    <3>2. PICK p2 \in O : s2 = (IF p2 \in late THEN Marked(p2) ELSE p2)
                          /\ s2.port = p2.port /\ s2.tryno = p2.tryno /\ s2.nth = p2.nth
      BY <1>1
    <3>3. p1 = p2
      BY <2>1, <3>1, <3>2 DEF SameProbe, LocalInv, ListInv
    <3> QED
      BY <3>1, <3>2, <3>3
  <2>2. \A s \in S : (s.retransmitted => s.timedout) /\ s.nth <= n
    BY <1>1 DEF LocalInv, ListInv
  <2> QED
    BY <2>1, <2>2 DEF ListInv
<1>3. TriesInv(S)
  <2>1. SUFFICES ASSUME NEW s1 \in S, NEW s2 \in S, ~s1.isPing, ~s1.retransmitted,
                        s2.port = s1.port
                 PROVE  s2 = s1 \/ (s2.retransmitted /\ s2.tryno < s1.tryno)
    BY DEF TriesInv
  <2>2. PICK p1 \in O : /\ s1 = IF p1 \in late THEN Marked(p1) ELSE p1
                        /\ s1.port = p1.port /\ s1.tryno = p1.tryno
                        /\ s1.isPing = p1.isPing /\ s1.retransmitted = p1.retransmitted
    BY <1>1
  <2>3. PICK p2 \in O : /\ s2 = IF p2 \in late THEN Marked(p2) ELSE p2
                        /\ s2.port = p2.port /\ s2.tryno = p2.tryno
                        /\ s2.retransmitted = p2.retransmitted
    BY <1>1
  <2>4. p2 = p1 \/ (p2.retransmitted /\ p2.tryno < p1.tryno)
    BY <2>1, <2>2, <2>3 DEF LocalInv, TriesInv
  <2> QED
    BY <2>2, <2>3, <2>4
<1>4. ASSUME NEW port, NEW u, Settled(O, port, u) PROVE Settled(S, port, u)
  BY <1>1, <1>4 DEF Settled
<1>5. BenchInv(S, B, t) /\ StackInv(S, B, K)
  BY <1>4 DEF LocalInv, BenchInv, StackInv
<1>6. FreshInv(S, B, K, i)
  BY <1>1 DEF LocalInv, FreshInv
<1> QED
  BY <1>2, <1>3, <1>5, <1>6 DEF LocalInv

\* So does destroying probes.
LEMMA ShrinkKeeps ==
  ASSUME NEW O \in SUBSET UltraProbe, NEW n, NEW B, NEW t, NEW K, NEW i,
         LocalInv(O, n, B, t, K, i), NEW S \in SUBSET O
  PROVE  LocalInv(S, n, B, t, K, i)
<1> DEFINE late == {}
<1>1. \A s \in S : \E p \in O : s = IF p \in late THEN Marked(p) ELSE p
  OBVIOUS
<1> HIDE DEF late
<1> QED
  BY <1>1, RelabelKeeps, Zenon

\* A new ping has a number that no probe of the list has.
LEMMA AddPingKeeps ==
  ASSUME NEW O \in SUBSET UltraProbe, NEW n \in Nat, NEW B \in SUBSET Ports, NEW t,
         NEW K \in Seq(RetryBatch), NEW i,
         LocalInv(O, n, B, t, K, i), NEW p \in UltraProbe, p.isPing,
         p.nth = n + 1, ~p.retransmitted
  PROVE  /\ p \notin O
         /\ LocalInv(O \cup {p}, n + 1, B, t, K, i)
         /\ LocalInv(O, n + 1, B, t, K, i)
<1> USE ProbeFields
<1>1. \A q \in O : q.nth \in Nat /\ q.nth <= n
  BY DEF LocalInv, ListInv
<1>2. \A q \in O : q.nth # p.nth /\ q.nth <= n + 1
  BY <1>1
<1>3. p.nth <= n + 1
  OBVIOUS
<1>4. ListInv(O, n + 1) /\ ListInv(O \cup {p}, n + 1)
  BY <1>2, <1>3 DEF LocalInv, ListInv, SameProbe
<1>5. TriesInv(O \cup {p})
  BY DEF LocalInv, TriesInv
<1>6. p.port = PingPort /\ PingPort \notin Ports
  OBVIOUS
<1>7. ASSUME NEW port \in Ports, NEW u, Settled(O, port, u)
      PROVE  Settled(O \cup {p}, port, u)
  BY <1>6, <1>7 DEF Settled
<1>8. BenchInv(O \cup {p}, B, t)
  BY <1>7 DEF LocalInv, BenchInv
<1>9. StackInv(O \cup {p}, B, K)
  <2>1. \A j \in DOMAIN K : K[j].ports \subseteq Ports
    BY BatchPorts
  <2> QED
    BY <1>7, <2>1 DEF LocalInv, StackInv
<1>10. FreshInv(O \cup {p}, B, K, i)
  BY <1>6 DEF LocalInv, FreshInv
<1> QED
  BY <1>2, <1>4, <1>5, <1>8, <1>9, <1>10 DEF LocalInv

\* A port that is settled and neither on the bench nor on the stack may be
\* probed with a later try.
LEMMA AddTryKeeps ==
  ASSUME NEW O \in SUBSET UltraProbe, NEW n \in Nat, NEW B, NEW t, NEW K,
         NEW i \in Nat, LocalInv(O, n, B, t, K, i),
         NEW p \in UltraProbe, ~p.isPing, ~p.retransmitted,
         \A q \in O : q.port = p.port => q.retransmitted /\ q.tryno < p.tryno,
         p.port \notin B, \A j \in DOMAIN K : p.port \notin K[j].ports, p.port <= i
  PROVE  /\ p \notin O
         /\ LocalInv(O \cup {p}, n, B, t, K, i)
<1> USE ProbeFields
<1>1. \A q \in O : q.port = p.port => q.tryno # p.tryno
  OBVIOUS
<1>2. p.nth <= n
  OBVIOUS
<1>3. ListInv(O \cup {p}, n)
  BY <1>1, <1>2 DEF LocalInv, ListInv, SameProbe
<1>4. TriesInv(O \cup {p})
  <2>1. \A q \in O : ~q.isPing /\ ~q.retransmitted => p.port # q.port
    OBVIOUS
  <2> QED
    BY <2>1 DEF LocalInv, TriesInv
<1>5. ASSUME NEW port, NEW u, Settled(O, port, u), port # p.port
      PROVE  Settled(O \cup {p}, port, u)
  BY <1>5 DEF Settled
<1>6. BenchInv(O \cup {p}, B, t) /\ StackInv(O \cup {p}, B, K)
  BY <1>5 DEF LocalInv, BenchInv, StackInv
<1>7. FreshInv(O \cup {p}, B, K, i)
  <2>1. \A port \in Ports : port > i => p.port # port
    BY DEF Ports
  <2> QED
    BY <2>1 DEF LocalInv, FreshInv
<1> QED
  BY <1>1, <1>3, <1>4, <1>6, <1>7 DEF LocalInv

\* Once the probe that waits is marked as retransmitted its port is settled.
LEMMA ResendKeeps ==
  ASSUME NEW O \in SUBSET UltraProbe, NEW n \in Nat, NEW B, NEW t, NEW K,
         NEW i \in Nat, LocalInv(O, n, B, t, K, i),
         NEW p \in O, ~p.isPing, ~p.retransmitted, p.timedout
  PROVE  /\ Resent(p) \notin O
         /\ LocalInv((O \ {p}) \cup {Resent(p)}, n, B, t, K, i)
         /\ \A q \in (O \ {p}) \cup {Resent(p)} :
              q.port = p.port => q.retransmitted /\ q.tryno < p.tryno + 1
         /\ p.port \notin B /\ p.port <= i
         /\ \A j \in DOMAIN K : p.port \notin K[j].ports
<1> DEFINE r == Resent(p)
           S == (O \ {p}) \cup {r}
<1>1. /\ r \in UltraProbe /\ r.port = p.port /\ r.tryno = p.tryno /\ r.nth = p.nth
      /\ r.isPing = p.isPing /\ r.retransmitted /\ r.timedout = p.timedout
      /\ SameProbe(r, p)
  BY MarkFields
<1> HIDE DEF r
<1>2. p.port \in Ports /\ p.tryno \in 0 .. 127 /\ \A q \in O : q.tryno \in 0 .. 127
  BY ProbeFields
<1>3. r \notin O
  <2>1. r \in O => r = p
    BY <1>1 DEF LocalInv, ListInv
  <2> QED
    BY <1>1, <2>1
<1>4. \A q \in O \ {p} : q.port = p.port => q.retransmitted /\ q.tryno < p.tryno
  BY DEF LocalInv, TriesInv
<1>5. \A q \in O \ {p} : ~SameProbe(q, r) /\ ~SameProbe(r, q)
  BY <1>1 DEF LocalInv, ListInv, SameProbe
<1>6. ListInv(S, n)
  BY <1>1, <1>5 DEF LocalInv, ListInv, r
<1>7. TriesInv(S)
  <2>1. SUFFICES ASSUME NEW x \in S, NEW y \in S, ~x.isPing, ~x.retransmitted,
                        y.port = x.port
                 PROVE  y = x \/ (y.retransmitted /\ y.tryno < x.tryno)
    BY DEF TriesInv
  <2>2. x \in O \ {p}
    BY <1>1, <2>1 DEF r
  <2>3. CASE y \in O
    BY <2>1, <2>2, <2>3 DEF LocalInv, TriesInv
  <2>4. CASE y = r
    BY <1>1, <1>4, <2>1, <2>2, <2>4
  <2> QED
    BY <2>3, <2>4 DEF r
<1>8. ASSUME NEW port, NEW u, Settled(O, port, u) PROVE Settled(S, port, u)
  BY <1>1, <1>8 DEF Settled, r
<1>9. BenchInv(S, B, t) /\ StackInv(S, B, K)
  BY <1>8 DEF LocalInv, BenchInv, StackInv
<1>10. FreshInv(S, B, K, i)
  BY <1>1 DEF LocalInv, FreshInv, r
<1>11. \A q \in S : q.port = p.port => q.retransmitted /\ q.tryno < p.tryno + 1
  <2>1. ASSUME NEW q \in O \ {p}, q.port = p.port
        PROVE  q.retransmitted /\ q.tryno < p.tryno + 1
    <3>1. q.retransmitted /\ q.tryno < p.tryno
      BY <1>4, <2>1
    <3>2. q.tryno \in 0 .. 127 /\ p.tryno \in 0 .. 127
      BY <1>2
    <3>3. q.tryno < p.tryno + 1
      BY <3>1, <3>2, TryBefore, Zenon
    <3> QED
      BY <3>1, <3>3
  <2>2. r.retransmitted /\ r.tryno < p.tryno + 1
    BY <1>1, <1>2
  <2> QED
    BY <2>1, <2>2 DEF r
<1>12. p.port \notin B /\ \A j \in DOMAIN K : p.port \notin K[j].ports
  BY DEF LocalInv, BenchInv, StackInv, Settled
<1>13. p.port <= i
  <2>1. ~(p.port > i)
    BY <1>2 DEF LocalInv, FreshInv
  <2> QED
    BY <1>2, <2>1 DEF Ports
<1> QED
  BY <1>3, <1>6, <1>7, <1>9, <1>10, <1>11, <1>12, <1>13 DEF LocalInv, r

-----------------------------------------------------------------------------
(* Counting the active and the waiting probes of a list. *)

ActiveIn(O)  == {p \in O : ~p.timedout}
WaitingIn(O) == {p \in O : p.timedout /\ ~p.retransmitted /\ ~p.isPing}

\* The list S has da more active and dw more waiting probes than O.
Counted(O, S, da, dw) ==
  /\ Cardinality(ActiveIn(S)) = Cardinality(ActiveIn(O)) + da
  /\ Cardinality(WaitingIn(S)) = Cardinality(WaitingIn(O)) + dw

\* What is left when the elements of D are taken out of A.
LEMMA CountMinus ==
  ASSUME NEW A, IsFiniteSet(A), NEW D
  PROVE  /\ IsFiniteSet(A \ D)
         /\ Cardinality(A \ D) = Cardinality(A) - Cardinality(D \cap A)
         /\ Cardinality(A) \in Nat /\ Cardinality(D \cap A) \in Nat
<1>1. A \cap D = D \cap A /\ D \cap A \in SUBSET A /\ A \ D \in SUBSET A
  OBVIOUS
<1>2. IsFiniteSet(A \ D) /\ Cardinality(A) \in Nat
  BY <1>1, FS_Subset, FS_CardinalityType, Zenon
<1>3. IsFiniteSet(D \cap A) /\ Cardinality(D \cap A) \in Nat
  BY <1>1, FS_Subset, FS_CardinalityType, Zenon
<1>4. Cardinality(A \ D) = Cardinality(A) - Cardinality(A \cap D)
  BY FS_Difference, Zenon
<1> QED
  BY <1>1, <1>2, <1>3, <1>4

\* Disjoint sets add up.
LEMMA CountPlus ==
  ASSUME NEW A, IsFiniteSet(A), NEW D, IsFiniteSet(D), A \cap D = {}
  PROVE  Cardinality(A \cup D) = Cardinality(A) + Cardinality(D)
<1>1. Cardinality(A \cup D) = Cardinality(A) + Cardinality(D) - Cardinality(A \cap D)
  BY FS_Union, Zenon
<1>2. Cardinality(A \cap D) = 0
  BY FS_EmptySet
<1>3. Cardinality(A) \in Nat /\ Cardinality(D) \in Nat
  BY FS_CardinalityType, Zenon
<1> QED
  BY <1>1, <1>2, <1>3

\* The probes of a finite list can be counted.
LEMMA FiniteCounts ==
  ASSUME NEW O, IsFiniteSet(O)
  PROVE  /\ IsFiniteSet(ActiveIn(O)) /\ Cardinality(ActiveIn(O)) \in Nat
         /\ IsFiniteSet(WaitingIn(O)) /\ Cardinality(WaitingIn(O)) \in Nat
<1>1. ActiveIn(O) \in SUBSET O /\ WaitingIn(O) \in SUBSET O
  BY DEF ActiveIn, WaitingIn
<1> QED
  BY <1>1, FS_Subset, FS_CardinalityType, Zenon

\* A list that stays as it is.
LEMMA CountSame ==
  ASSUME NEW O, IsFiniteSet(O)
  PROVE  Counted(O, O, 0, 0)
<1>1. Cardinality(ActiveIn(O)) \in Nat /\ Cardinality(WaitingIn(O)) \in Nat
  BY FiniteCounts
<1> QED
  BY <1>1 DEF Counted

\* A new probe, which is active or has timed out at once.
LEMMA CountAdd ==
  ASSUME NEW O \in SUBSET UltraProbe, IsFiniteSet(O), NEW p \in UltraProbe,
         p \notin O, ~p.retransmitted
  PROVE  /\ ~p.timedout => Counted(O, O \cup {p}, 1, 0)
         /\ p.timedout => Counted(O, O \cup {p}, 0, IF p.isPing THEN 0 ELSE 1)
<1>1. /\ IsFiniteSet(ActiveIn(O)) /\ Cardinality(ActiveIn(O)) \in Nat
      /\ IsFiniteSet(WaitingIn(O)) /\ Cardinality(WaitingIn(O)) \in Nat
      /\ p \notin ActiveIn(O) /\ p \notin WaitingIn(O)
  BY FiniteCounts DEF ActiveIn, WaitingIn
<1>2. /\ Cardinality(ActiveIn(O) \cup {p}) = Cardinality(ActiveIn(O)) + 1
      /\ Cardinality(WaitingIn(O) \cup {p}) = Cardinality(WaitingIn(O)) + 1
  BY <1>1, FS_AddElement, Zenon
<1>3. CASE ~p.timedout
  <2>1. ActiveIn(O \cup {p}) = ActiveIn(O) \cup {p}
        /\ WaitingIn(O \cup {p}) = WaitingIn(O)
    BY <1>3 DEF ActiveIn, WaitingIn
  <2> QED
    BY <1>1, <1>2, <1>3, <2>1 DEF Counted
<1>4. CASE p.timedout
  <2>1. ActiveIn(O \cup {p}) = ActiveIn(O)
    BY <1>4 DEF ActiveIn
  <2>2. CASE p.isPing
    <3>1. WaitingIn(O \cup {p}) = WaitingIn(O)
      BY <2>2 DEF WaitingIn
    <3> QED
      BY <1>1, <1>4, <2>1, <2>2, <3>1 DEF Counted
  <2>3. CASE ~p.isPing
    <3>1. WaitingIn(O \cup {p}) = WaitingIn(O) \cup {p}
      BY <1>4, <2>3 DEF WaitingIn
    <3>2. Counted(O, O \cup {p}, 0, 1)
      BY <1>1, <1>2, <2>1, <3>1 DEF Counted
    <3> QED
      BY <1>4, <2>3, <3>2
  <2> QED
    BY <2>2, <2>3
<1> QED
  BY <1>3, <1>4

\* Probes are destroyed.
LEMMA CountRemove ==
  ASSUME NEW O, IsFiniteSet(O), NEW D
  PROVE  Counted(O, O \ D, -Cardinality(D \cap ActiveIn(O)),
                           -Cardinality(D \cap WaitingIn(O)))
<1>1. /\ IsFiniteSet(ActiveIn(O)) /\ Cardinality(ActiveIn(O)) \in Nat
      /\ IsFiniteSet(WaitingIn(O)) /\ Cardinality(WaitingIn(O)) \in Nat
  BY FiniteCounts
<1>2. /\ ActiveIn(O \ D) = ActiveIn(O) \ D
      /\ WaitingIn(O \ D) = WaitingIn(O) \ D
  BY DEF ActiveIn, WaitingIn
<1>3. /\ Cardinality(ActiveIn(O) \ D) =
           Cardinality(ActiveIn(O)) - Cardinality(D \cap ActiveIn(O))
      /\ Cardinality(D \cap ActiveIn(O)) \in Nat
      /\ Cardinality(WaitingIn(O) \ D) =
           Cardinality(WaitingIn(O)) - Cardinality(D \cap WaitingIn(O))
      /\ Cardinality(D \cap WaitingIn(O)) \in Nat
  BY <1>1, CountMinus
<1> QED
  BY <1>1, <1>2, <1>3 DEF Counted

\* A waiting probe is marked as retransmitted.
LEMMA CountResend ==
  ASSUME NEW O \in SUBSET UltraProbe, IsFiniteSet(O), NEW p \in WaitingIn(O),
         Resent(p) \notin O
  PROVE  Counted(O, (O \ {p}) \cup {Resent(p)}, 0, -1)
<1> DEFINE r == Resent(p)
<1>1. r.retransmitted /\ r.timedout
  BY MarkFields DEF WaitingIn
<1>2. ActiveIn((O \ {p}) \cup {r}) = ActiveIn(O)
  BY <1>1 DEF ActiveIn, WaitingIn
<1>3. WaitingIn((O \ {p}) \cup {r}) = WaitingIn(O) \ {p}
  BY <1>1 DEF WaitingIn
<1>4. /\ Cardinality(ActiveIn(O)) \in Nat /\ Cardinality(WaitingIn(O)) \in Nat
      /\ IsFiniteSet(WaitingIn(O))
  BY FiniteCounts
<1>5. Cardinality(WaitingIn(O) \ {p}) = Cardinality(WaitingIn(O)) - 1
  BY <1>4, FS_RemoveElement, Zenon
<1> QED
  BY <1>2, <1>3, <1>4, <1>5 DEF Counted

\* As many probes are marked as there were to mark.
LEMMA CountMarked ==
  ASSUME NEW L \in SUBSET UltraProbe, IsFiniteSet(L),
         \A p, q \in L : SameProbe(p, q) => p = q
  PROVE  /\ IsFiniteSet({Marked(p) : p \in L})
         /\ Cardinality({Marked(p) : p \in L}) = Cardinality(L)
<1> DEFINE T == {Marked(p) : p \in L}
           f == [p \in L |-> Marked(p)]
<1>1. f \in Surjection(L, T)
  BY DEF Surjection
<1>2. ASSUME NEW p \in L, NEW q \in L, f[p] = f[q] PROVE p = q
  <2>1. Marked(p) = Marked(q)
    BY <1>2
  <2>2. SameProbe(p, q)
    BY <2>1, MarkFields DEF SameProbe
  <2> QED
    BY <2>2
<1>3. f \in [L -> T] /\ DOMAIN f = L
  OBVIOUS
<1> HIDE DEF T, f
<1>4. f \in Injection(L, T)
  BY <1>2, <1>3, Zenon DEF Injection, IsInjective
<1>5. IsFiniteSet(T) /\ Cardinality(T) = Cardinality(L)
  BY <1>1, <1>4, FS_Surjection, Zenon
<1> QED
  BY <1>5 DEF T

\* Probes are marked as timed out while others, R, are destroyed.
LEMMA CountMark ==
  ASSUME NEW O \in SUBSET UltraProbe, IsFiniteSet(O), NEW n, ListInv(O, n),
         NEW late \in SUBSET ActiveIn(O), NEW R, R \cap late = {},
         NEW S, S = (O \ (late \cup R)) \cup {Marked(p) : p \in late}
  PROVE  Counted(O, S, -Cardinality(late \cup (R \cap ActiveIn(O))),
                 Cardinality({p \in late : ~p.isPing})
                   - Cardinality(R \cap WaitingIn(O)))
<1> DEFINE L == {p \in late : ~p.isPing}
           T == {Marked(p) : p \in L}
           A == ActiveIn(O)
           W == WaitingIn(O)
           G == late \cup (R \cap A)
<1>1. \A p \in late : /\ p \in O /\ ~p.timedout /\ ~p.retransmitted
                      /\ Marked(p).timedout /\ ~Marked(p).retransmitted
                      /\ Marked(p).isPing = p.isPing
                      /\ SameProbe(Marked(p), p)
  BY MarkFields DEF ActiveIn, ListInv
<1>2. ActiveIn(S) = A \ G
  BY <1>1 DEF ActiveIn
<1>3. WaitingIn(S) = (W \ R) \cup T
  BY <1>1 DEF WaitingIn
<1>4. (W \ R) \cap T = {}
  <2>1. \A p \in L : Marked(p) \notin W
    BY <1>1 DEF WaitingIn, ListInv
  <2> QED
    BY <2>1
<1>5. /\ IsFiniteSet(A) /\ Cardinality(A) \in Nat
      /\ IsFiniteSet(W) /\ Cardinality(W) \in Nat
  BY FiniteCounts
<1>6. IsFiniteSet(T) /\ Cardinality(T) = Cardinality(L)
      /\ IsFiniteSet(L) /\ Cardinality(L) \in Nat
  <2>1. L \in SUBSET UltraProbe /\ L \in SUBSET O
    BY <1>1
  <2>2. \A p, q \in L : SameProbe(p, q) => p = q
    BY <1>1 DEF ListInv
  <2>3. IsFiniteSet(L) /\ Cardinality(L) \in Nat
    BY <2>1, FS_Subset, FS_CardinalityType, Zenon
  <2> HIDE DEF L
  <2> QED
    BY <2>1, <2>2, <2>3, CountMarked
<1>7. G \in SUBSET A
  OBVIOUS
<1> HIDE DEF A, W, G, L, T
<1>8. Cardinality(A \ G) = Cardinality(A) - Cardinality(G) /\ Cardinality(G) \in Nat
  <2>1. G \cap A = G
    BY <1>7
  <2> QED
    BY <1>5, <2>1, CountMinus
<1>9. /\ Cardinality(W \ R) = Cardinality(W) - Cardinality(R \cap W)
      /\ IsFiniteSet(W \ R) /\ Cardinality(R \cap W) \in Nat
  BY <1>5, CountMinus
<1>10. Cardinality((W \ R) \cup T) = Cardinality(W \ R) + Cardinality(T)
  BY <1>4, <1>6, <1>9, CountPlus
<1>11. Cardinality(ActiveIn(S)) = Cardinality(A) + (-Cardinality(G))
  BY <1>2, <1>5, <1>8
<1>12. Cardinality(WaitingIn(S)) =
         Cardinality(W) + (Cardinality(L) - Cardinality(R \cap W))
  <2>1. Cardinality(WaitingIn(S)) = Cardinality(W \ R) + Cardinality(L)
    BY <1>3, <1>6, <1>10
  <2>2. Cardinality(W \ R) = Cardinality(W) - Cardinality(R \cap W)
    BY <1>9
  <2>3. /\ Cardinality(L) \in Nat /\ Cardinality(W) \in Nat
        /\ Cardinality(R \cap W) \in Nat
    BY <1>5, <1>6, <1>9
  <2> QED
    BY <2>1, <2>2, <2>3
<1> QED
  BY <1>11, <1>12 DEF Counted, A, W, G, L

-----------------------------------------------------------------------------
(* From the lists of the hosts to the counters of the group. *)

\* The active probes of the hosts of H, whose lists are L.
GroupActive(L, H) == UNION {{g} \X ActiveIn(L[g]) : g \in H}

\* The active probes of a host add up with those of the other hosts.
LEMMA GroupSplit ==
  ASSUME NEW L, \A g \in Hosts : IsFiniteSet(L[g]), NEW h \in Hosts
  PROVE  /\ Cardinality(GroupActive(L, Hosts)) =
              Cardinality(GroupActive(L, Hosts \ {h})) + Cardinality(ActiveIn(L[h]))
         /\ Cardinality(GroupActive(L, Hosts \ {h})) \in Nat
         /\ Cardinality(ActiveIn(L[h])) \in Nat
<1> DEFINE R == GroupActive(L, Hosts \ {h})
           A == {h} \X ActiveIn(L[h])
           F == {{g} \X ActiveIn(L[g]) : g \in Hosts \ {h}}
           f == [g \in Hosts \ {h} |-> {g} \X ActiveIn(L[g])]
<1>1. GroupActive(L, Hosts) = R \cup A
  BY DEF GroupActive
<1>2. R \cap A = {}
  BY DEF GroupActive
<1>3. ASSUME NEW g \in Hosts
      PROVE  /\ IsFiniteSet({g} \X ActiveIn(L[g]))
             /\ Cardinality({g} \X ActiveIn(L[g])) = Cardinality(ActiveIn(L[g]))
             /\ Cardinality(ActiveIn(L[g])) \in Nat
  <2>1. IsFiniteSet(ActiveIn(L[g])) /\ Cardinality(ActiveIn(L[g])) \in Nat
    BY FiniteCounts
  <2>2. IsFiniteSet({g}) /\ Cardinality({g}) = 1
    BY FS_Singleton, Zenon
  <2>3. /\ IsFiniteSet({g} \X ActiveIn(L[g]))
        /\ Cardinality({g} \X ActiveIn(L[g])) = 1 * Cardinality(ActiveIn(L[g]))
    BY <2>1, <2>2, FS_Product, Zenon
  <2> QED
    BY <2>1, <2>3
<1>4. IsFiniteSet(R)
  <2>1. IsFiniteSet(Hosts \ {h})
    <3>1. IsFiniteSet(Hosts)
      BY FS_Interval, ConstantsAssumption DEF Hosts
    <3> QED
      BY <3>1, FS_RemoveElement, Zenon
  <2>2. f \in Surjection(Hosts \ {h}, F)
    BY DEF Surjection
  <2>3. IsFiniteSet(F)
    BY <2>1, <2>2, FS_Surjection, Zenon
  <2>4. \A X \in F : IsFiniteSet(X)
    BY <1>3
  <2>5. IsFiniteSet(UNION F)
    BY <2>3, <2>4, FS_UNION, Zenon
  <2> QED
    BY <2>5 DEF GroupActive
<1> HIDE DEF R, A
<1>5. IsFiniteSet(A) /\ Cardinality(A) = Cardinality(ActiveIn(L[h]))
      /\ Cardinality(ActiveIn(L[h])) \in Nat
  BY <1>3 DEF A
<1>6. Cardinality(R \cup A) = Cardinality(R) + Cardinality(A)
  BY <1>2, <1>4, <1>5, CountPlus
<1>7. Cardinality(R) \in Nat
  BY <1>4, FS_CardinalityType, Zenon
<1>8. Cardinality(GroupActive(L, Hosts)) = Cardinality(R) + Cardinality(ActiveIn(L[h]))
  BY <1>1, <1>5, <1>6, <1>7
<1> QED
  BY <1>5, <1>7, <1>8 DEF R

\* A change of one list that is counted right keeps all counters right.
LEMMA SetProbesCounts ==
  ASSUME ProbeTypes, ProbeTypes', ProbeAccounting, NEW h \in Hosts, NEW S,
         NEW da \in Int, NEW dw \in Int, SetProbes(h, S, da, dw),
         Counted(probes_outstanding[h], S, da, dw)
  PROVE  ProbeAccounting'
<1> DEFINE L == probes_outstanding
           R == GroupActive(L, Hosts \ {h})
<1>1. /\ \A g \in Hosts \ {h} :
           /\ probes_outstanding'[g] = probes_outstanding[g]
           /\ num_probes_active'[g] = num_probes_active[g]
           /\ num_probes_waiting_retransmit'[g] = num_probes_waiting_retransmit[g]
      /\ probes_outstanding'[h] = S
      /\ num_probes_active'[h] = num_probes_active[h] + da
      /\ num_probes_waiting_retransmit'[h] = num_probes_waiting_retransmit[h] + dw
      /\ group_probes_active' = group_probes_active + da
  BY DEF ProbeTypes, SetProbes
<1>2. \A g \in Hosts : /\ Active(g) = ActiveIn(probes_outstanding[g])
                       /\ Waiting(g) = WaitingIn(probes_outstanding[g])
                       /\ Active(g)' = ActiveIn(probes_outstanding'[g])
                       /\ Waiting(g)' = WaitingIn(probes_outstanding'[g])
  BY DEF Active, Waiting, ActiveIn, WaitingIn
<1>3. /\ Cardinality(Active(h)') = Cardinality(Active(h)) + da
      /\ Cardinality(Waiting(h)') = Cardinality(Waiting(h)) + dw
      /\ \A g \in Hosts \ {h} : Active(g)' = Active(g) /\ Waiting(g)' = Waiting(g)
  BY <1>1, <1>2 DEF Counted
<1>4. HostAccounting'
  <2>1. ASSUME NEW g \in Hosts
        PROVE  /\ num_probes_active'[g] = Cardinality(Active(g)')
               /\ num_probes_waiting_retransmit'[g] = Cardinality(Waiting(g)')
    <3>1. /\ num_probes_active[g] = Cardinality(Active(g))
          /\ num_probes_waiting_retransmit[g] = Cardinality(Waiting(g))
      BY DEF ProbeAccounting, HostAccounting
    <3>2. CASE g = h
      BY <1>1, <1>3, <3>1, <3>2
    <3>3. CASE g # h
      BY <1>1, <1>3, <3>1, <3>3
    <3> QED
      BY <3>2, <3>3
  <2> QED
    BY <2>1 DEF HostAccounting
<1>5. GroupActive(L', Hosts \ {h}) = R
  BY <1>1 DEF GroupActive
<1>6. /\ Cardinality(GroupActive(L, Hosts)) = Cardinality(R) + Cardinality(Active(h))
      /\ Cardinality(R) \in Nat /\ Cardinality(Active(h)) \in Nat
  BY <1>2, GroupSplit DEF ProbeTypes
<1>7. Cardinality(GroupActive(L', Hosts)) = Cardinality(R) + Cardinality(Active(h)')
  <2>1. \A g \in Hosts : IsFiniteSet(L'[g])
    BY DEF ProbeTypes
  <2> QED
    BY <1>2, <1>5, <2>1, GroupSplit
<1>8. group_probes_active = Cardinality(GroupActive(L, Hosts))
  BY DEF ProbeAccounting, GroupAccounting, GroupActive, Active, ActiveIn
<1>9. group_probes_active' = Cardinality(GroupActive(L', Hosts))
  BY <1>1, <1>3, <1>6, <1>7, <1>8
<1>10. GroupAccounting'
  BY <1>9 DEF GroupAccounting, GroupActive, Active, ActiveIn
<1> QED
  BY <1>4, <1>10 DEF ProbeAccounting

-----------------------------------------------------------------------------
(* Each action keeps the invariant. *)

CInv == AttemptInv /\ ProbeAccounting

\* A step leaves bench, stack and numbers of all hosts but h alone; after it the
\* list X suits those of h.
Frame(h) == \A g \in Hosts \ {h} :
  /\ nxtpseq'[g] = nxtpseq[g] /\ next_portidx'[g] = next_portidx[g]
  /\ probe_bench'[g] = probe_bench[g] /\ bench_tryno'[g] = bench_tryno[g]
  /\ retry_stack'[g] = retry_stack[g]
Suits(h, X) == LocalInv(X, nxtpseq'[h], probe_bench'[h], bench_tryno'[h],
                        retry_stack'[h], next_portidx'[h])

\* What the invariant says of the host h.
LEMMA HostParts ==
  ASSUME IInv, CInv, NEW h \in Hosts
  PROVE  /\ probes_outstanding[h] \in SUBSET UltraProbe
         /\ IsFiniteSet(probes_outstanding[h])
         /\ nxtpseq[h] \in Nat /\ next_portidx[h] \in Nat
         /\ probe_bench[h] \in SUBSET Ports /\ bench_tryno[h] \in 0 .. 127
         /\ retry_stack[h] \in Seq(RetryBatch)
         /\ LocalInv(probes_outstanding[h], nxtpseq[h], probe_bench[h],
                     bench_tryno[h], retry_stack[h], next_portidx[h])
         /\ ListInv(probes_outstanding[h], nxtpseq[h])
<1>1. next_portidx[h] \in 0 .. NumPorts
  BY IInvParts DEF SentTypes
<1>2. next_portidx[h] \in Nat
  BY <1>1
<1>3. /\ LocalInv(probes_outstanding[h], nxtpseq[h], probe_bench[h],
                  bench_tryno[h], retry_stack[h], next_portidx[h])
      /\ ListInv(probes_outstanding[h], nxtpseq[h])
  BY DEF CInv, AttemptInv, LocalInv
<1> QED
  BY <1>2, <1>3, IInvParts DEF ProbeTypes, BenchTypes, SentTypes, Seqnum

\* A step that changes one list, counts the change and leaves it in order.
LEMMA OneListKeeps ==
  ASSUME IInv, IInv', CInv, NEW h \in Hosts, NEW S, NEW da \in Int, NEW dw \in Int,
         SetProbes(h, S, da, dw), Counted(probes_outstanding[h], S, da, dw),
         Frame(h), Suits(h, S)
  PROVE  CInv'
<1>1. ProbeTypes /\ ProbeTypes'
  BY DEF IInv, TypeOK
<1>2. ProbeAccounting'
  BY <1>1, SetProbesCounts DEF CInv
<1>3. /\ probes_outstanding'[h] = S
      /\ \A g \in Hosts \ {h} : probes_outstanding'[g] = probes_outstanding[g]
  BY <1>1 DEF SetProbes, ProbeTypes
<1>4. AttemptInv'
  <2>1. ASSUME NEW g \in Hosts
        PROVE  LocalInv(probes_outstanding'[g], nxtpseq'[g], probe_bench'[g],
                        bench_tryno'[g], retry_stack'[g], next_portidx'[g])
    <3>1. CASE g = h
      BY <1>3, <3>1 DEF Suits
    <3>2. CASE g # h
      <4>1. LocalInv(probes_outstanding[g], nxtpseq[g], probe_bench[g],
                     bench_tryno[g], retry_stack[g], next_portidx[g])
        BY DEF CInv, AttemptInv
      <4>2. g \in Hosts \ {h}
        BY <3>2
      <4> QED
        BY <1>3, <4>1, <4>2 DEF Frame
    <3> QED
      BY <3>1, <3>2
  <2> QED
    BY <2>1 DEF AttemptInv
<1> QED
  BY <1>2, <1>4 DEF CInv

\* A step that leaves lists, benches, stacks and numbers alone.
LEMMA QuietKeeps ==
  ASSUME CInv, UNCHANGED <<probeVars, benchVars, next_portidx, nxtpseq>>
  PROVE  CInv'
BY DEF CInv, AttemptInv, ProbeAccounting, HostAccounting, GroupAccounting, Active,
       Waiting, probeVars, benchVars

\* destroyOutstandingProbe() for the probes of D.
LEMMA DestroyKeeps ==
  ASSUME IInv, IInv', CInv, NEW h \in Hosts, NEW D \in SUBSET probes_outstanding[h],
         Destroy(h, D), Frame(h), Suits(h, probes_outstanding[h])
  PROVE  CInv'
<1> DEFINE O == probes_outstanding[h]
           da == -Cardinality(D \cap Active(h))
           dw == -Cardinality(D \cap Waiting(h))
<1>1. O \in SUBSET UltraProbe /\ IsFiniteSet(O)
  BY HostParts
<1>2. Active(h) = ActiveIn(O) /\ Waiting(h) = WaitingIn(O)
  BY DEF Active, Waiting, ActiveIn, WaitingIn
<1>3. Counted(O, O \ D, da, dw)
  BY <1>1, <1>2, CountRemove
<1>4. SetProbes(h, O \ D, da, dw)
  BY DEF Destroy
<1>5. da \in Int /\ dw \in Int
  <2>1. /\ Cardinality(D \cap ActiveIn(O)) \in Nat
        /\ Cardinality(D \cap WaitingIn(O)) \in Nat
    BY <1>1, FiniteCounts, CountMinus
  <2> QED
    BY <1>2, <2>1
<1>6. Suits(h, O \ D)
  <2>1. O \ D \in SUBSET O
    OBVIOUS
  <2> QED
    BY <1>1, <2>1, ShrinkKeeps DEF Suits
<1> HIDE DEF da, dw
<1> QED
  BY <1>3, <1>4, <1>5, <1>6, OneListKeeps

\* markProbeTimedout() for an active probe.
LEMMA MarkKeeps ==
  ASSUME IInv, IInv', CInv, NEW h \in Hosts, NEW p \in Active(h),
         MarkTimedout(h, p), Frame(h), Suits(h, probes_outstanding[h])
  PROVE  CInv'
<1> DEFINE O == probes_outstanding[h]
           late == {p}
           S == (O \ {p}) \cup {Marked(p)}
           dw == IF p.isPing THEN 0 ELSE 1
<1>1. /\ O \in SUBSET UltraProbe /\ IsFiniteSet(O) /\ ListInv(O, nxtpseq[h])
      /\ p \in O /\ late \in SUBSET ActiveIn(O)
  BY HostParts DEF Active, ActiveIn
<1>2. Counted(O, S, -1, dw)
  <2>1. /\ S = (O \ (late \cup {})) \cup {Marked(q) : q \in late}
        /\ {} \cap late = {}
        /\ late \cup ({} \cap ActiveIn(O)) = {p} /\ {} \cap WaitingIn(O) = {}
    OBVIOUS
  <2>2. Counted(O, S, -Cardinality(late \cup ({} \cap ActiveIn(O))),
                Cardinality({q \in late : ~q.isPing})
                  - Cardinality({} \cap WaitingIn(O)))
    <3> HIDE DEF S, late, O
    <3> QED
      BY <1>1, <2>1, CountMark
  <2>3. Cardinality({p}) = 1 /\ Cardinality({}) = 0
    BY FS_Singleton, FS_EmptySet
  <2>4. Cardinality({q \in late : ~q.isPing}) = dw
    <3>1. CASE p.isPing
      <4>1. {q \in late : ~q.isPing} = {}
        BY <3>1
      <4> QED
        BY <2>3, <3>1, <4>1
    <3>2. CASE ~p.isPing
      <4>1. {q \in late : ~q.isPing} = {p}
        BY <3>2
      <4> QED
        BY <2>3, <3>2, <4>1
    <3> QED
      BY <3>1, <3>2
  <2>5. dw - 0 = dw
    OBVIOUS
  <2> HIDE DEF S, O, dw
  <2> QED
    BY <2>1, <2>2, <2>3, <2>4, <2>5
<1>3. Suits(h, S)
  <2>1. \A s \in S : \E q \in O : s = IF q \in late THEN Marked(q) ELSE q
    BY <1>1
  <2> HIDE DEF S, late, O
  <2> QED
    BY <1>1, <2>1, RelabelKeeps DEF Suits, O
<1>4. SetProbes(h, S, -1, dw) /\ -1 \in Int /\ dw \in Int
  BY DEF MarkTimedout, Marked
<1> HIDE DEF S, dw
<1> QED
  BY <1>2, <1>3, <1>4, OneListKeeps

\* Two changes of a list, one after the other.
LEMMA CountTwice ==
  ASSUME NEW O, IsFiniteSet(O), NEW S, IsFiniteSet(S), NEW T,
         NEW a \in Int, NEW b \in Int, NEW c \in Int, NEW d \in Int,
         Counted(O, S, a, b), Counted(S, T, c, d)
  PROVE  Counted(O, T, a + c, b + d)
<1>1. /\ Cardinality(ActiveIn(O)) \in Nat /\ Cardinality(WaitingIn(O)) \in Nat
  BY FiniteCounts
<1> QED
  BY <1>1 DEF Counted

\* A probe p goes out once the list is S, or is answered or timed out at once.
LEMMA SentKeeps ==
  ASSUME IInv, IInv', CInv, NEW h \in Hosts, NEW S \in SUBSET UltraProbe,
         IsFiniteSet(S), NEW dw \in Int, Counted(probes_outstanding[h], S, 0, dw),
         NEW p \in UltraProbe, ~p.timedout, ~p.retransmitted,
         SetProbes(h, S \cup {p}, 1, dw) \/ ConnectDone(h, p, S, dw),
         Frame(h), Suits(h, S),
         p \notin S, Suits(h, S \cup {p}),
         Marked(p) \notin S, Suits(h, S \cup {Marked(p)})
  PROVE  CInv'
<1> DEFINE O == probes_outstanding[h]
           q == Marked(p)
           w == IF p.isPing THEN 0 ELSE 1
<1>1. IsFiniteSet(O)
  BY HostParts
<1>2. CASE SetProbes(h, S \cup {p}, 1, dw)
  <2>1. Counted(S, S \cup {p}, 1, 0)
    BY CountAdd
  <2>2. Counted(O, S \cup {p}, 0 + 1, dw + 0)
    BY <1>1, <2>1, CountTwice
  <2>3. 0 + 1 = 1 /\ dw + 0 = dw
    OBVIOUS
  <2> QED
    BY <1>2, <2>2, <2>3, OneListKeeps
<1>3. CASE SetProbes(h, S, 0, dw)
  BY <1>3, OneListKeeps
<1>4. CASE SetProbes(h, S \cup {q}, 0, dw + w)
  <2>1. q \in UltraProbe /\ q.timedout /\ ~q.retransmitted /\ q.isPing = p.isPing
    BY MarkFields
  <2>2. w \in Int /\ dw + w \in Int
    OBVIOUS
  <2> HIDE DEF q
  <2>3. Counted(S, S \cup {q}, 0, w)
    <3>1. Counted(S, S \cup {q}, 0, IF q.isPing THEN 0 ELSE 1)
      BY <2>1, CountAdd DEF q
    <3> QED
      BY <2>1, <3>1
  <2> HIDE DEF w
  <2>4. Counted(O, S \cup {q}, 0 + 0, dw + w)
    BY <1>1, <2>2, <2>3, CountTwice
  <2> QED
    BY <1>4, <2>2, <2>4, OneListKeeps DEF q
<1>5. ConnectDone(h, p, S, dw) => \/ SetProbes(h, S, 0, dw)
                                  \/ SetProbes(h, S \cup {q}, 0, dw + w)
  BY DEF ConnectDone, Marked
<1> QED
  BY <1>2, <1>3, <1>4, <1>5

\* Nothing but the probe list of h changes.
LEMMA SameFrame ==
  ASSUME IInv, CInv, NEW h \in Hosts,
         UNCHANGED <<benchVars, next_portidx, nxtpseq>>
  PROVE  Frame(h) /\ Suits(h, probes_outstanding[h])
<1>1. UNCHANGED <<probe_bench, bench_tryno, retry_stack, next_portidx, nxtpseq>>
  BY DEF benchVars
<1>2. Frame(h)
  BY <1>1 DEF Frame
<1>3. LocalInv(probes_outstanding[h], nxtpseq[h], probe_bench[h],
               bench_tryno[h], retry_stack[h], next_portidx[h])
  BY HostParts
<1> QED
  BY <1>1, <1>2, <1>3 DEF Suits

\* sendPingProbe().
LEMMA PingKeepsCounts ==
  ASSUME IInv, IInv', CInv, NEW h \in Hosts, SendPing(h),
         UNCHANGED <<benchVars, next_portidx>>
  PROVE  CInv'
<1> DEFINE O == probes_outstanding[h]
           n == nxtpseq[h]
           p == PingProbe(n + 1)
           q == Marked(p)
<1>1. /\ O \in SUBSET UltraProbe /\ IsFiniteSet(O) /\ n \in Nat
      /\ probe_bench[h] \in SUBSET Ports /\ retry_stack[h] \in Seq(RetryBatch)
      /\ LocalInv(O, n, probe_bench[h], bench_tryno[h], retry_stack[h],
                  next_portidx[h])
  BY HostParts
<1>2. /\ p \in UltraProbe /\ p.isPing /\ p.nth = n + 1
      /\ ~p.timedout /\ ~p.retransmitted
  BY <1>1, ProbeRecords DEF PingProbe
<1> HIDE DEF p
<1>3. q \in UltraProbe /\ q.isPing /\ q.nth = n + 1 /\ ~q.retransmitted
  BY <1>2, MarkFields
<1> HIDE DEF q
<1>4. /\ nxtpseq'[h] = n + 1
      /\ \A g \in Hosts \ {h} : nxtpseq'[g] = nxtpseq[g]
  BY IInvParts DEF SendPing, SentTypes
<1>5. Frame(h)
  BY <1>4 DEF Frame, benchVars
<1>6. /\ p \notin O /\ Suits(h, O \cup {p}) /\ Suits(h, O)
      /\ q \notin O /\ Suits(h, O \cup {q})
  <2>1. /\ UNCHANGED <<probe_bench, bench_tryno, retry_stack, next_portidx>>
    BY DEF benchVars
  <2>2. /\ p \notin O
        /\ LocalInv(O \cup {p}, n + 1, probe_bench[h], bench_tryno[h],
                    retry_stack[h], next_portidx[h])
        /\ LocalInv(O, n + 1, probe_bench[h], bench_tryno[h], retry_stack[h],
                    next_portidx[h])
    BY <1>1, <1>2, AddPingKeeps
  <2>3. /\ q \notin O
        /\ LocalInv(O \cup {q}, n + 1, probe_bench[h], bench_tryno[h],
                    retry_stack[h], next_portidx[h])
    BY <1>1, <1>3, AddPingKeeps
  <2> QED
    BY <1>4, <2>1, <2>2, <2>3 DEF Suits
<1>7. SetProbes(h, O \cup {p}, 1, 0) \/ ConnectDone(h, p, O, 0)
  BY <1>2 DEF SendPing, Send, ConnectUp, p
<1>8. Counted(O, O, 0, 0)
  BY <1>1, CountSame
<1> QED
  BY <1>1, <1>2, <1>5, <1>6, <1>7, <1>8, SentKeeps DEF q

\* A new try p of a port, sent once bench, stack and numbers suit the list.
LEMMA TryKeepsCounts ==
  ASSUME IInv, IInv', CInv, NEW h \in Hosts, NEW S \in SUBSET UltraProbe,
         IsFiniteSet(S), NEW dw \in Int, Counted(probes_outstanding[h], S, 0, dw),
         NEW port \in Ports, NEW t \in 0 .. 127,
         \A q \in S : q.port = port => q.retransmitted /\ q.tryno < t,
         port \notin probe_bench'[h], port <= next_portidx'[h],
         \A j \in DOMAIN retry_stack'[h] : port \notin retry_stack'[h][j].ports,
         SetProbes(h, S \cup {ScanProbe(port, t)}, 1, dw)
           \/ ConnectDone(h, ScanProbe(port, t), S, dw),
         Frame(h), Suits(h, S)
  PROVE  CInv'
<1> DEFINE p == ScanProbe(port, t)
           q == Marked(p)
<1>1. /\ p \in UltraProbe /\ ~p.isPing /\ p.port = port /\ p.tryno = t
      /\ ~p.timedout /\ ~p.retransmitted
  BY ProbeRecords DEF ScanProbe, Seqnum
<1> HIDE DEF p
<1>2. /\ q \in UltraProbe /\ ~q.isPing /\ q.port = port /\ q.tryno = t
      /\ ~q.retransmitted
  BY <1>1, MarkFields
<1> HIDE DEF q
<1>3. nxtpseq'[h] \in Nat /\ next_portidx'[h] \in Nat
  <2>1. SentTypes'
    BY DEF IInv, TypeOK
  <2>2. nxtpseq'[h] \in Nat /\ next_portidx'[h] \in 0 .. NumPorts
    BY <2>1 DEF SentTypes
  <2> QED
    BY <2>2
<1>4. p \notin S /\ Suits(h, S \cup {p})
  BY <1>1, <1>3, AddTryKeeps DEF Suits
<1>5. q \notin S /\ Suits(h, S \cup {q})
  BY <1>2, <1>3, AddTryKeeps, SMTT(30) DEF Suits
<1> QED
  BY <1>1, <1>4, <1>5, SentKeeps DEF p, q

\* retransmitProbe().
LEMMA RetransmitKeepsCounts ==
  ASSUME IInv, IInv', CInv, NEW h \in Hosts, NEW p \in probes_outstanding[h],
         Retransmit(h, p)
  PROVE  CInv'
<1> DEFINE O == probes_outstanding[h]
           S == (O \ {p}) \cup {Resent(p)}
           t == NextSeqnum(p.tryno)
<1>1. /\ O \in SUBSET UltraProbe /\ IsFiniteSet(O)
      /\ nxtpseq[h] \in Nat /\ next_portidx[h] \in Nat
      /\ LocalInv(O, nxtpseq[h], probe_bench[h], bench_tryno[h], retry_stack[h],
                  next_portidx[h])
  BY HostParts
<1>2. ~p.isPing /\ ~p.retransmitted /\ p.timedout /\ allowedTryno(h) > p.tryno
  BY DEF Retransmit, MayRetransmit
<1>3. t \in 0 .. 127 /\ t = p.tryno + 1 /\ p.port \in Ports
  <2>1. p.tryno \in 0 .. 127 /\ p.port \in Ports
    BY <1>1, <1>2, ProbeFields
  <2>2. allowedTryno(h) \in 0 .. 127
    BY IInvParts, TrynoTypes, SMTT(30) DEF Seqnum
  <2>3. p.tryno < allowedTryno(h)
    BY <1>2, <2>1, <2>2
  <2>4. t = p.tryno + 1
    BY <2>1, <2>3, IInvParts, TrynoTypes DEF Seqnum
  <2> QED
    BY <2>1, <2>2, <2>3, <2>4
<1>4. /\ Resent(p) \notin O
      /\ LocalInv(S, nxtpseq[h], probe_bench[h], bench_tryno[h], retry_stack[h],
                  next_portidx[h])
      /\ \A q \in S : q.port = p.port => q.retransmitted /\ q.tryno < t
      /\ p.port \notin probe_bench[h] /\ p.port <= next_portidx[h]
      /\ \A j \in DOMAIN retry_stack[h] : p.port \notin retry_stack[h][j].ports
  <2> DEFINE n == nxtpseq[h]
             B == probe_bench[h]
             u == bench_tryno[h]
             K == retry_stack[h]
             i == next_portidx[h]
  <2>0. /\ p \in O
        /\ LocalInv(O, n, B, u, K, i) /\ n \in Nat /\ i \in Nat
        /\ O \in SUBSET UltraProbe
    BY <1>1
  <2> HIDE DEF t, O, n, B, u, K, i
  <2>1. /\ Resent(p) \notin O
        /\ LocalInv(S, n, B, u, K, i)
        /\ \A q \in S : q.port = p.port => q.retransmitted /\ q.tryno < p.tryno + 1
        /\ p.port \notin B /\ p.port <= i
        /\ \A j \in DOMAIN K : p.port \notin K[j].ports
    BY <1>2, <2>0, ResendKeeps
  <2> QED
    BY <1>3, <2>1, Zenon DEF n, B, u, K, i
<1>5. S \in SUBSET UltraProbe /\ IsFiniteSet(S)
  <2>1. Resent(p) \in UltraProbe
    BY <1>1, MarkFields
  <2>2. IsFiniteSet(S)
    BY <1>1, FS_AddElement, FS_RemoveElement, Zenon
  <2> QED
    BY <1>1, <2>1, <2>2
<1>6. Counted(O, S, 0, -1)
  <2>1. p \in WaitingIn(O)
    BY <1>2 DEF WaitingIn
  <2> QED
    BY <1>1, <1>4, <2>1, CountResend
<1>7. UNCHANGED <<benchVars, next_portidx, nxtpseq>>
  BY DEF Retransmit
<1>8. Frame(h)
  BY <1>7, SameFrame
<1>9. SetProbes(h, S \cup {ScanProbe(p.port, t)}, 1, -1)
        \/ ConnectDone(h, ScanProbe(p.port, t), S, -1)
  BY DEF Retransmit, Resent
<1> HIDE DEF S, t
<1>10. /\ Suits(h, S)
       /\ p.port \notin probe_bench'[h] /\ p.port <= next_portidx'[h]
       /\ \A j \in DOMAIN retry_stack'[h] : p.port \notin retry_stack'[h][j].ports
  BY <1>4, <1>7 DEF Suits, benchVars
<1>11. -1 \in Int
  OBVIOUS
<1> QED
  BY <1>3, <1>4, <1>5, <1>6, <1>8, <1>9, <1>10, <1>11, TryKeepsCounts

\* retransmitProbe() when its connect() finds the host up.
LEMMA RetransmitFreedKeepsCounts ==
  ASSUME IInv, IInv', CInv, NEW h \in Hosts, NEW p \in probes_outstanding[h],
         RetransmitFreed(h, p)
  PROVE  CInv'
<1>1. UNCHANGED <<benchVars, next_portidx, nxtpseq>>
  BY DEF RetransmitFreed, sentVars
<1>2. Destroy(h, probes_outstanding[h])
  BY DEF RetransmitFreed, ConnectUp
<1> QED
  BY <1>1, <1>2, SameFrame, DestroyKeeps

\* K1 is the stack K without some of the ports in its batches.
Substack(K1, K) == \A j \in DOMAIN K1 :
  j \in DOMAIN K /\ K1[j].tries = K[j].tries /\ K1[j].ports \subseteq K[j].ports

\* Taking ports off the stack keeps the invariant.
LEMMA SubstackKeeps ==
  ASSUME NEW O, NEW n, NEW B, NEW t, NEW K, NEW i, LocalInv(O, n, B, t, K, i),
         NEW K1, Substack(K1, K)
  PROVE  LocalInv(O, n, B, t, K1, i)
<1>1. StackInv(O, B, K1)
  BY DEF LocalInv, StackInv, Substack
<1>2. FreshInv(O, B, K1, i)
  BY DEF LocalInv, FreshInv, Substack
<1> QED
  BY <1>1, <1>2 DEF LocalInv

\* So does going on to the next port.
LEMMA NextPortKeeps ==
  ASSUME NEW O, NEW n, NEW B, NEW t, NEW K, NEW i \in Nat,
         LocalInv(O, n, B, t, K, i)
  PROVE  LocalInv(O, n, B, t, K, i + 1)
<1>1. \A port \in Ports : port > i + 1 => port > i
  BY DEF Ports
<1>2. FreshInv(O, B, K, i + 1)
  BY <1>1 DEF LocalInv, FreshInv
<1> QED
  BY <1>2 DEF LocalInv

\* The stack once a port is taken off its top batch.
Popped(s, port) ==
  IF s[Len(s)].ports = {port} THEN Below(s)
  ELSE Append(Below(s), [s[Len(s)] EXCEPT !.ports = s[Len(s)].ports \ {port}])

\* The port is gone from the top, and nothing else has changed.
LEMMA PoppedStack ==
  ASSUME NEW s \in Seq(RetryBatch), s # <<>>, NEW port
  PROVE  /\ Substack(Popped(s, port), s)
         /\ \A j \in DOMAIN Popped(s, port) :
              j = Len(s) => port \notin Popped(s, port)[j].ports
<1> DEFINE top == s[Len(s)]
           b == [top EXCEPT !.ports = top.ports \ {port}]
           r == Below(s)
           n == Len(s)
<1>1. /\ n \in Nat \ {0} /\ DOMAIN s = 1 .. n
      /\ r \in Seq(RetryBatch) /\ Len(r) = n - 1 /\ DOMAIN r = 1 .. (n - 1)
      /\ \A i \in 1 .. (n - 1) : r[i] = s[i]
  BY BelowBatch
<1>2. top \in RetryBatch
  BY <1>1
<1>3. b \in RetryBatch /\ b.tries = top.tries /\ b.ports = top.ports \ {port}
  BY <1>2, SMTT(30) DEF RetryBatch
<1>4. CASE top.ports = {port}
  <2>1. Popped(s, port) = r
    BY <1>4 DEF Popped
  <2> HIDE DEF r, n
  <2>2. \A j \in 1 .. (n - 1) : j \in 1 .. n /\ j # n
    BY <1>1, SMTT(30)
  <2> QED
    BY <1>1, <2>1, <2>2 DEF Substack, n
<1>5. CASE top.ports # {port}
  <2> DEFINE s1 == Append(r, b)
  <2>1. Popped(s, port) = s1
    BY <1>5 DEF Popped
  <2> HIDE DEF r, n, b
  <2>2. /\ DOMAIN s1 = 1 .. (Len(r) + 1)
        /\ \A i \in 1 .. Len(r) : s1[i] = r[i]
        /\ s1[Len(r) + 1] = b
    BY <1>1, <1>3, PushBatch
  <2>3. Len(r) + 1 = n
    BY <1>1
  <2> HIDE DEF s1
  <2>4. ASSUME NEW j \in 1 .. n
        PROVE  /\ s1[j].tries = s[j].tries /\ s1[j].ports \subseteq s[j].ports
               /\ j = n => port \notin s1[j].ports
    <3>1. CASE j = n
      BY <1>3, <2>2, <2>3, <3>1 DEF n
    <3>2. CASE j # n
      <4>1. j \in 1 .. (n - 1) /\ j \in 1 .. Len(r)
        BY <1>1, <3>2
      <4> QED
        BY <1>1, <2>2, <3>2, <4>1
    <3> QED
      BY <3>1, <3>2
  <2> QED
    BY <1>1, <2>1, <2>2, <2>3, <2>4 DEF Substack, n
<1> QED
  BY <1>4, <1>5

\* sendNextRetryStackProbe().
LEMMA RetryProbeKeepsCounts ==
  ASSUME IInv, IInv', CInv, RetryProbe
  PROVE  CInv'
<1> DEFINE h == hss
           O == probes_outstanding[h]
           s == retry_stack[h]
           top == s[Len(s)]
           t == NextSeqnum(top.tries)
<1>1. h \in Hosts /\ s # <<>>
  BY IInvParts DEF RetryProbe, InRound, IteratorsValid, GroupTypes
<1>2. /\ O \in SUBSET UltraProbe /\ IsFiniteSet(O) /\ s \in Seq(RetryBatch)
      /\ LocalInv(O, nxtpseq[h], probe_bench[h], bench_tryno[h], s,
                  next_portidx[h])
      /\ next_portidx[h] \in Nat
  BY <1>1, HostParts
<1>3. PICK port \in top.ports :
        /\ retry_stack' = [retry_stack EXCEPT ![h] = Popped(s, port)]
        /\ Send(h, ScanProbe(port, t))
  BY DEF RetryProbe, Popped, Below
<1>4. UNCHANGED <<probe_bench, bench_tryno, next_portidx, nxtpseq>>
  BY DEF RetryProbe
<1>5. /\ retry_stack'[h] = Popped(s, port)
      /\ \A g \in Hosts \ {h} : retry_stack'[g] = retry_stack[g]
  BY <1>1, <1>3, IInvParts DEF BenchTypes
<1>6. Len(s) \in DOMAIN s /\ top.ports \in SUBSET Ports /\ top.tries \in 0 .. 127
  <2>1. Len(s) \in DOMAIN s
    BY <1>1, <1>2
  <2> QED
    BY <1>2, <2>1, BatchPorts
<1>7. t \in 0 .. 127 /\ t = top.tries + 1
  <2>1. top.tries < allowedTryno(h) /\ allowedTryno(h) \in 0 .. 127
    BY <1>1, <1>6, IInvParts, TrynoTypes DEF TrynoWithinLimit, Seqnum
  <2>2. t = top.tries + 1
    BY <1>1, <1>6, <2>1, IInvParts, TrynoTypes DEF Seqnum
  <2>3. t \in 0 .. 127
    BY <1>1, <1>6, IInvParts, TrynoTypes DEF Seqnum
  <2> QED
    BY <2>2, <2>3
<1>8. /\ Settled(O, port, top.tries) /\ port \notin probe_bench[h]
      /\ \A k \in DOMAIN s : port \in s[k].ports => k = Len(s)
  BY <1>2, <1>3, <1>6 DEF LocalInv, StackInv
<1>9. port \in Ports /\ port <= next_portidx[h]
  <2>1. port \in Ports
    BY <1>3, <1>6
  <2>2. ~(port > next_portidx[h])
    BY <1>2, <1>3, <1>6, <2>1 DEF LocalInv, FreshInv
  <2> QED
    BY <1>2, <2>1, <2>2 DEF Ports
<1>10. /\ Substack(Popped(s, port), s)
       /\ \A j \in DOMAIN Popped(s, port) :
            j = Len(s) => port \notin Popped(s, port)[j].ports
  BY <1>1, <1>2, PoppedStack
<1>11. \A j \in DOMAIN retry_stack'[h] : port \notin retry_stack'[h][j].ports
  BY <1>5, <1>8, <1>10 DEF Substack
<1>12. Frame(h)
  BY <1>4, <1>5 DEF Frame
<1>13. Suits(h, O)
  <2> HIDE DEF O, s
  <2>1. LocalInv(O, nxtpseq[h], probe_bench[h], bench_tryno[h], Popped(s, port),
                 next_portidx[h])
    BY <1>2, <1>10, SubstackKeeps
  <2> QED
    BY <1>4, <1>5, <2>1 DEF Suits
<1>14. \A q \in O : q.port = port => q.retransmitted /\ q.tryno < t
  <2>1. ASSUME NEW q \in O, q.port = port PROVE q.retransmitted /\ q.tryno < t
    <3>1. q.retransmitted /\ q.tryno <= top.tries
      BY <1>8, <2>1 DEF Settled
    <3>2. q.tryno \in 0 .. 127
      BY <1>2, ProbeFields
    <3>3. q.tryno < top.tries + 1
      BY <1>6, <3>1, <3>2, TryBefore, Zenon
    <3> QED
      BY <1>7, <3>1, <3>3
  <2> QED
    BY <2>1
<1>15. Counted(O, O, 0, 0) /\ 0 \in Int
  BY <1>2, CountSame
<1>16. port \notin probe_bench'[h] /\ port <= next_portidx'[h]
  BY <1>4, <1>8, <1>9, SMTT(30)
<1> HIDE DEF h, s, top, t
<1>17. CASE SetProbes(h, O \cup {ScanProbe(port, t)}, 1, 0)
              \/ ConnectDone(h, ScanProbe(port, t), O, 0)
  BY <1>1, <1>2, <1>7, <1>9, <1>11, <1>12, <1>13, <1>14, <1>15, <1>17, <1>16, ZenonT(60),
     TryKeepsCounts
<1>18. CASE ConnectUp(h, ScanProbe(port, t))
  BY <1>1, <1>12, <1>13, <1>18, DestroyKeeps DEF ConnectUp
<1> QED
  BY <1>3, <1>17, <1>18 DEF Send

\* sendNextScanProbe().
LEMMA NewProbeKeepsCounts ==
  ASSUME IInv, IInv', CInv, NewProbe
  PROVE  CInv'
<1> DEFINE h == hss
           O == probes_outstanding[h]
           i == next_portidx[h]
           port == i + 1
<1>1. h \in Hosts
  BY IInvParts DEF NewProbe, InRound, IteratorsValid, GroupTypes
<1>2. /\ O \in SUBSET UltraProbe /\ IsFiniteSet(O) /\ i \in Nat
      /\ LocalInv(O, nxtpseq[h], probe_bench[h], bench_tryno[h], retry_stack[h], i)
  BY <1>1, HostParts
<1>3. port \in Ports /\ port > i
  BY <1>2, ConstantsAssumption DEF NewProbe, freshPortsLeft, Ports
<1>4. UNCHANGED <<probe_bench, bench_tryno, retry_stack, nxtpseq>>
  BY DEF NewProbe, benchVars
<1>5. /\ next_portidx'[h] = port
      /\ \A g \in Hosts \ {h} : next_portidx'[g] = next_portidx[g]
  BY <1>1, IInvParts DEF NewProbe, SentTypes
<1>6. /\ \A q \in O : q.port # port
      /\ port \notin probe_bench[h]
      /\ \A j \in DOMAIN retry_stack[h] : port \notin retry_stack[h][j].ports
  BY <1>2, <1>3 DEF LocalInv, FreshInv
<1>7. Frame(h)
  BY <1>4, <1>5 DEF Frame
<1>8. Suits(h, O)
  <2>1. LocalInv(O, nxtpseq[h], probe_bench[h], bench_tryno[h], retry_stack[h],
                 i + 1)
    BY <1>2, NextPortKeeps
  <2> QED
    BY <1>4, <1>5, <2>1 DEF Suits
<1>9. Counted(O, O, 0, 0)
  BY <1>2, CountSame
<1>10. Send(h, ScanProbe(port, 0))
  BY DEF NewProbe
<1>11. port <= next_portidx'[h]
  BY <1>2, <1>5
<1> HIDE DEF h, port
<1>12. CASE SetProbes(h, O \cup {ScanProbe(port, 0)}, 1, 0)
              \/ ConnectDone(h, ScanProbe(port, 0), O, 0)
  <2>1. /\ 0 \in 0 .. 127 /\ 0 \in Int
        /\ \A q \in O : q.port = port => q.retransmitted /\ q.tryno < 0
    BY <1>6
  <2>2. /\ port \notin probe_bench'[h]
        /\ \A j \in DOMAIN retry_stack'[h] : port \notin retry_stack'[h][j].ports
    BY <1>4, <1>6
  <2> QED
    BY <1>1, <1>2, <1>3, <1>7, <1>8, <1>9, <1>11, <1>12, <2>1, <2>2,
       TryKeepsCounts
<1>13. CASE ConnectUp(h, ScanProbe(port, 0))
  BY <1>1, <1>7, <1>8, <1>13, DestroyKeeps DEF ConnectUp
<1> QED
  BY <1>10, <1>12, <1>13 DEF Send

\* The answers of port scans and of the kinds of host discovery.
LEMMA ResultKeepsCounts ==
  ASSUME IInv, IInv', CInv, NEW h \in Hosts, NEW p \in probes_outstanding[h],
         PortResult(h, p) \/ PingResult(h, p) \/ ArpResult(h, p)
           \/ ConnectTimedOut(h, p)
  PROVE  CInv'
<1>1. UNCHANGED <<benchVars, next_portidx, nxtpseq>>
  BY DEF PortResult, PingResult, ArpResult, ConnectTimedOut, AnswerLeaves, sentVars
<1>2. Frame(h) /\ Suits(h, probes_outstanding[h])
  BY <1>1, SameFrame
<1>3. CASE Destroy(h, {p}) \/ Destroy(h, probes_outstanding[h])
  BY <1>2, <1>3, DestroyKeeps
<1>4. CASE UNCHANGED probeVars
  BY <1>1, <1>4, QuietKeeps
<1>5. CASE ConnectTimedOut(h, p)
  <2>1. p \in Active(h) /\ MarkTimedout(h, p)
    BY <1>5 DEF ConnectTimedOut, Answerable, Active
  <2> QED
    BY <1>2, <2>1, MarkKeeps
<1> QED
  BY <1>3, <1>4, <1>5 DEF PortResult, PingResult, ArpResult

\* A completed host is forgotten, or late pings of the ping host are destroyed.
LEMMA ForgetKeepsCounts ==
  ASSUME IInv, IInv', CInv,
         (\E h \in Hosts : Purge(h)) \/ (\E late : ExpireGlobalPings(late))
  PROVE  CInv'
<1>1. ASSUME NEW h \in Hosts, Purge(h) PROVE CInv'
  <2>1. UNCHANGED <<benchVars, next_portidx, nxtpseq>>
    BY <1>1 DEF Purge, sentVars
  <2> QED
    BY <1>1, <2>1, SameFrame, DestroyKeeps DEF Purge
<1>2. ASSUME NEW late, ExpireGlobalPings(late) PROVE CInv'
  <2>1. UNCHANGED <<benchVars, next_portidx, nxtpseq>>
    BY <1>2 DEF ExpireGlobalPings, sentVars
  <2>2. CASE pinghost = NoHost
    BY <1>2, <2>1, <2>2, QuietKeeps DEF ExpireGlobalPings
  <2>3. CASE pinghost # NoHost
    <3>1. pinghost \in Hosts
      BY <2>3, IInvParts DEF GroupTypes
    <3>2. late \in SUBSET probes_outstanding[pinghost] /\ Destroy(pinghost, late)
      BY <1>2, <2>3 DEF ExpireGlobalPings
    <3> QED
      BY <2>1, <3>1, <3>2, SameFrame, DestroyKeeps
  <2> QED
    BY <2>2, <2>3
<1> QED
  BY <1>1, <1>2

\* The ports of N, whose last try u is over, go to the bench: to what is on it,
\* in place of it, or in place of what moves to the stack.
LEMMA BenchMoves ==
  ASSUME NEW S, NEW n, NEW B \in SUBSET Ports, NEW t \in 0 .. 127,
         NEW K \in Seq(RetryBatch), NEW i, LocalInv(S, n, B, t, K, i),
         NEW N \in SUBSET Ports, NEW u,
         \A port \in N : /\ Settled(S, port, u) /\ port \notin B /\ ~(port > i)
                        /\ \A j \in DOMAIN K : port \notin K[j].ports
  PROVE  /\ LocalInv(S, n, N, u, K, i)
         /\ LocalInv(S, n, N, u, Append(K, [ports |-> B, tries |-> t]), i)
         /\ u = t => LocalInv(S, n, B \cup N, u, K, i)
<1> DEFINE b == [ports |-> B, tries |-> t]
           K1 == Append(K, b)
<1>1. b \in RetryBatch /\ b.ports = B /\ b.tries = t
  BY DEF RetryBatch, Seqnum
<1> HIDE DEF b
<1>2. /\ Len(K) \in Nat /\ DOMAIN K = 1 .. Len(K)
      /\ DOMAIN K1 = 1 .. (Len(K) + 1)
      /\ \A j \in 1 .. Len(K) : K1[j] = K[j]
      /\ K1[Len(K) + 1] = b
  BY <1>1, PushBatch
<1> HIDE DEF K1
<1>3. \A j \in DOMAIN K1 : \/ j \in DOMAIN K /\ K1[j] = K[j]
                           \/ j = Len(K) + 1 /\ j \notin DOMAIN K /\ K1[j] = b
  BY <1>2
<1>4. LocalInv(S, n, N, u, K, i)
  <2>1. BenchInv(S, N, u)
    BY DEF BenchInv
  <2>2. StackInv(S, N, K)
    BY DEF LocalInv, StackInv
  <2>3. FreshInv(S, N, K, i)
    BY DEF LocalInv, FreshInv
  <2> QED
    BY <2>1, <2>2, <2>3 DEF LocalInv
<1>5. StackInv(S, N, K1)
  <2>1. SUFFICES ASSUME NEW j \in DOMAIN K1, NEW port \in K1[j].ports
                 PROVE  /\ Settled(S, port, K1[j].tries) /\ port \notin N
                        /\ \A k \in DOMAIN K1 : port \in K1[k].ports => k = j
    BY DEF StackInv
  <2>2. CASE j \in DOMAIN K /\ K1[j] = K[j]
    <3>1. /\ Settled(S, port, K[j].tries) /\ port \notin B
          /\ \A k \in DOMAIN K : port \in K[k].ports => k = j
      BY <2>1, <2>2 DEF LocalInv, StackInv
    <3> QED
      BY <1>1, <1>3, <2>1, <2>2, <3>1
  <2>3. CASE j = Len(K) + 1 /\ K1[j] = b
    <3>1. port \in B /\ Settled(S, port, t)
      BY <1>1, <2>1, <2>3 DEF LocalInv, BenchInv
    <3>2. \A k \in DOMAIN K : port \notin K[k].ports
      BY <3>1 DEF LocalInv, StackInv
    <3> QED
      BY <1>1, <1>3, <2>3, <3>1, <3>2
  <2> QED
    BY <1>3, <2>2, <2>3
<1>6. FreshInv(S, N, K1, i)
  BY <1>1, <1>3 DEF LocalInv, FreshInv
<1>7. ASSUME u = t PROVE LocalInv(S, n, B \cup N, u, K, i)
  <2>1. BenchInv(S, B \cup N, u)
    BY <1>7 DEF LocalInv, BenchInv
  <2>2. StackInv(S, B \cup N, K)
    BY DEF LocalInv, StackInv
  <2>3. FreshInv(S, B \cup N, K, i)
    BY DEF LocalInv, FreshInv
  <2> QED
    BY <2>1, <2>2, <2>3 DEF LocalInv
<1>8. LocalInv(S, n, N, u, K1, i)
  BY <1>4, <1>5, <1>6 DEF LocalInv
<1> QED
  BY <1>4, <1>7, <1>8 DEF K1, b

\* processData() on the probes of a host.
LEMMA ProcessHostKeepsCounts ==
  ASSUME IInv, IInv', CInv, NEW late, NEW old, ProcessHost(late, old)
  PROVE  CInv'
<1> DEFINE h == hostI
           O == probes_outstanding[h]
           R == GiveUp(h) \cup ToBench(h, old) \cup Spent(h, late, old)
           S == (O \ (late \cup R)) \cup {Marked(p) : p \in late}
           N == {p.port : p \in ToBench(h, old)}
           u == BenchTryno(h, old)
           B == probe_bench[h]
           t == bench_tryno[h]
           K == retry_stack[h]
           da == -Cardinality(late \cup (Spent(h, late, old) \cap Active(h)))
           dw == Cardinality({p \in late : ~p.isPing})
                   - Cardinality(GiveUp(h) \cup ToBench(h, old))
<1>1. h \in Hosts /\ late \in SUBSET Active(h)
      /\ ProcessProbes(h, late, old) /\ ProcessBench(h, old)
      /\ BenchAsserts(h, old)
  <2>1. h \in Hosts
    BY IInvParts DEF ProcessHost, LoopTypes
  <2>2. pc' # "aborted"
    BY DEF IInv, AssertsHold
  <2> QED
    BY <2>1, <2>2 DEF ProcessHost
<1>2. /\ O \in SUBSET UltraProbe /\ IsFiniteSet(O)
      /\ B \in SUBSET Ports /\ t \in 0 .. 127 /\ K \in Seq(RetryBatch)
      /\ next_portidx[h] \in Nat
      /\ LocalInv(O, nxtpseq[h], B, t, K, next_portidx[h])
      /\ ListInv(O, nxtpseq[h])
  BY <1>1, HostParts
<1>3. Active(h) = ActiveIn(O) /\ Waiting(h) = WaitingIn(O)
  BY DEF Active, Waiting, ActiveIn, WaitingIn
<1>4. Counted(O, S, da, dw) /\ da \in Int /\ dw \in Int
  <2>1. R \cap late = {}
    BY <1>1 DEF GiveUp, ToBench, Spent, Active, Waiting
  <2>2. R \cap Active(h) = Spent(h, late, old) \cap Active(h)
    BY DEF GiveUp, ToBench, Active, Waiting
  <2>3. R \cap Waiting(h) = GiveUp(h) \cup ToBench(h, old)
    BY DEF GiveUp, ToBench, Spent, Waiting
  <2>4. Counted(O, S, -Cardinality(late \cup (R \cap ActiveIn(O))),
                Cardinality({p \in late : ~p.isPing})
                  - Cardinality(R \cap WaitingIn(O)))
    <3>1. late \in SUBSET ActiveIn(O)
      BY <1>1, <1>3
    <3>2. S = (O \ (late \cup R)) \cup {Marked(p) : p \in late}
      OBVIOUS
    <3> HIDE DEF O, R, S
    <3> QED
      BY <1>2, <2>1, <3>1, <3>2, CountMark
  <2>5. Counted(O, S, da, dw)
    BY <1>3, <2>2, <2>3, <2>4
  <2>6. \A X \in SUBSET O : Cardinality(X) \in Nat
    BY <1>2, FS_Subset, FS_CardinalityType
  <2>7. /\ late \cup (Spent(h, late, old) \cap Active(h)) \in SUBSET O
        /\ {p \in late : ~p.isPing} \in SUBSET O
        /\ GiveUp(h) \cup ToBench(h, old) \in SUBSET O
    BY <1>1 DEF GiveUp, ToBench, Active, Waiting
  <2>8. da \in Int
    <3>1. Cardinality(late \cup (Spent(h, late, old) \cap Active(h))) \in Nat
      BY <2>6, <2>7
    <3> QED
      BY <3>1
  <2>9. dw \in Int
    <3>1. /\ Cardinality({p \in late : ~p.isPing}) \in Nat
          /\ Cardinality(GiveUp(h) \cup ToBench(h, old)) \in Nat
      BY <2>6, <2>7
    <3> QED
      BY <3>1
  <2> QED
    BY <2>5, <2>8, <2>9
<1>5. SetProbes(h, S, da, dw)
  BY <1>1 DEF ProcessProbes, Marked
<1>6. LocalInv(S, nxtpseq[h], B, t, K, next_portidx[h])
  <2>1. \A s \in S : \E p \in O : s = IF p \in late THEN Marked(p) ELSE p
    BY <1>1 DEF Active
  <2> HIDE DEF O, S
  <2> QED
    BY <1>2, <2>1, RelabelKeeps
<1>7. /\ \A g \in Hosts : probe_bench'[g] =
           IF g = h THEN LeftOnBench(h) \cup N ELSE probe_bench[g]
      /\ \A g \in Hosts : bench_tryno'[g] = IF g = h THEN u ELSE bench_tryno[g]
      /\ \A g \in Hosts : retry_stack'[g] =
           IF g = h THEN IF RetransmitBench(h)
                         THEN Append(K, [ports |-> B, tries |-> t]) ELSE K
           ELSE retry_stack[g]
      /\ UNCHANGED <<nxtpseq, next_portidx>>
  BY <1>1, IInvParts DEF ProcessHost, ProcessBench, BenchTypes, sentVars
<1>8. ASSUME NEW p \in ToBench(h, old)
      PROVE  /\ p \in O \ S /\ ~p.isPing /\ ~p.retransmitted /\ p.tryno = u
             /\ p.port \in Ports /\ p.tryno \in 0 .. 127
  <2>1. p \in O /\ p \in R /\ ~p.isPing /\ ~p.retransmitted /\ p.timedout
    BY DEF ToBench, Waiting
  <2>2. p \notin {Marked(q) : q \in late}
    <3>1. ASSUME NEW q \in late, p = Marked(q) PROVE FALSE
      <4>1. q \in O /\ SameProbe(p, q) /\ ~q.timedout
        BY <1>1, <1>2, <3>1, MarkFields DEF Active
      <4> QED
        BY <1>2, <2>1, <4>1 DEF ListInv
    <3> QED
      BY <3>1
  <2>3. p.tryno = u
    BY <1>1 DEF BenchAsserts, BenchTryno
  <2>4. p.port \in Ports /\ p.tryno \in 0 .. 127
    BY <1>2, <2>1, ProbeFields
  <2> QED
    BY <2>1, <2>2, <2>3, <2>4
<1>9. N \in SUBSET Ports
  BY <1>8
<1>10. \A port \in N : /\ Settled(S, port, u) /\ port \notin B
                       /\ ~(port > next_portidx[h])
                       /\ \A j \in DOMAIN K : port \notin K[j].ports
  <2>1. SUFFICES ASSUME NEW p \in ToBench(h, old)
                 PROVE  /\ Settled(S, p.port, u) /\ p.port \notin B
                        /\ ~(p.port > next_portidx[h])
                        /\ \A j \in DOMAIN K : p.port \notin K[j].ports
    OBVIOUS
  <2>2. /\ p \in O \ S /\ ~p.isPing /\ ~p.retransmitted /\ p.tryno = u
        /\ p.port \in Ports /\ p.tryno \in 0 .. 127
    BY <1>8
  <2>3. p.port \notin B /\ \A j \in DOMAIN K : p.port \notin K[j].ports
    BY <1>2, <2>2 DEF LocalInv, BenchInv, StackInv, Settled
  <2>4. ~(p.port > next_portidx[h])
    BY <1>2, <2>2 DEF LocalInv, FreshInv
  <2>5. ASSUME NEW s \in S, s.port = p.port PROVE s.retransmitted /\ s.tryno <= u
    <3>1. PICK q \in O : /\ s = q \/ (q \in late /\ s = Marked(q))
                         /\ s.port = q.port /\ s.tryno = q.tryno
                         /\ s.retransmitted = q.retransmitted
      BY <1>1, <1>2, MarkFields DEF Active
    <3>2. q # p
      <4>1. p \notin late
        BY <1>1 DEF ToBench, Active, Waiting
      <4> QED
        BY <2>2, <3>1, <4>1
    <3>3. q.retransmitted /\ q.tryno < p.tryno
      BY <1>2, <2>2, <2>5, <3>1, <3>2 DEF LocalInv, TriesInv
    <3>4. q.tryno \in 0 .. 127
      BY <1>2, ProbeFields
    <3> QED
      BY <2>2, <3>1, <3>3, <3>4, SMTT(30)
  <2> QED
    BY <2>3, <2>4, <2>5 DEF Settled
<1>11. Frame(h)
  BY <1>7 DEF Frame
<1>12. Suits(h, S)
  <2> HIDE DEF S, N, u
  <2>1. /\ LocalInv(S, nxtpseq[h], N, u, K, next_portidx[h])
        /\ LocalInv(S, nxtpseq[h], N, u, Append(K, [ports |-> B, tries |-> t]),
                    next_portidx[h])
        /\ u = t => LocalInv(S, nxtpseq[h], B \cup N, u, K, next_portidx[h])
    BY <1>2, <1>6, <1>9, <1>10, BenchMoves
  <2>2. LeftOnBench(h) # {} => LeftOnBench(h) = B /\ ~RetransmitBench(h) /\ u = t
    BY DEF LeftOnBench, BenchTryno, u
  <2>3. LeftOnBench(h) = {} => LeftOnBench(h) \cup N = N
    OBVIOUS
  <2> QED
    BY <1>1, <1>7, <2>1, <2>2, <2>3 DEF Suits
<1> HIDE DEF h, S, da, dw
<1> QED
  BY <1>1, <1>4, <1>5, <1>11, <1>12, OneListKeeps

-----------------------------------------------------------------------------
(* The theorems. *)

\* UltraScanInfo::Init() establishes the invariant: nothing has been sent.
LEMMA InitCInv ==
  ASSUME Init
  PROVE  CInv
<1>1. AttemptInv
  BY DEF Init, AttemptInv, LocalInv, ListInv, TriesInv, BenchInv, StackInv, FreshInv
<1>2. \A h \in Hosts : Active(h) = {} /\ Waiting(h) = {}
  BY DEF Init, Active, Waiting
<1>3. HostAccounting
  BY <1>2, FS_EmptySet DEF Init, HostAccounting
<1>4. UNION {{h} \X Active(h) : h \in Hosts} = {}
  BY <1>2
<1>5. GroupAccounting
  BY <1>4, FS_EmptySet DEF Init, GroupAccounting
<1> QED
  BY <1>1, <1>3, <1>5 DEF CInv, ProbeAccounting

\* Every step of the loop keeps the invariant.
LEMMA NextCInv ==
  ASSUME IInv, IInv', CInv, [Next]_vars
  PROVE  CInv'
<1>1. ASSUME NEW h \in Hosts, HostPing(h) PROVE CInv'
  BY <1>1, PingKeepsCounts DEF HostPing
<1>2. ASSUME GlobalPing PROVE CInv'
  <2>1. pinghost \in Hosts
    BY <1>2, IInvParts DEF GlobalPing, GroupTypes
  <2> QED
    BY <1>2, <2>1, PingKeepsCounts DEF GlobalPing
<1>3. ASSUME NEW h \in Hosts, NEW p \in probes_outstanding[h],
             RateLimitWait(h, p) \/ Retransmit(h, p) \/ RetransmitFreed(h, p)
      PROVE  CInv'
  <2>1. CASE RateLimitWait(h, p)
    BY <2>1, QuietKeeps DEF RateLimitWait, sentVars
  <2> QED
    BY <1>3, <2>1, RetransmitKeepsCounts, RetransmitFreedKeepsCounts
<1>4. ASSUME NEW h \in Hosts, NEW p \in probes_outstanding[h],
             PortResult(h, p) \/ PingResult(h, p) \/ ArpResult(h, p)
               \/ ConnectTimedOut(h, p)
      PROVE  CInv'
  BY <1>4, ResultKeepsCounts
<1>5. ASSUME NEW h \in Hosts,
             RateLimitWaitOver(h) \/ ClockExpires(h) \/ ArpResultNoProbe(h)
      PROVE  CInv'
  BY <1>5, QuietKeeps DEF RateLimitWaitOver, ClockExpires, ArpResultNoProbe, sentVars
<1>6. CASE EndPings \/ EndRetransmits \/ EndRetries \/ EndNewProbes \/ EndWait
             \/ EndProcess \/ SkipHost("retry") \/ SkipHost("new")
  <2>1. UNCHANGED <<probeVars, benchVars, sentVars>>
    BY <1>6 DEF EndPings, EndRetransmits, EndRetries, StartRound, EndNewProbes,
                EndWait, EndProcess, SkipHost
  <2> QED
    BY <2>1, QuietKeeps DEF sentVars
<1>7. CASE StartRemoving \/ RemoveIfDone \/ EndRemoving \/ Done \/ UNCHANGED vars
  <2>1. UNCHANGED <<probeVars, benchVars, sentVars>>
    BY <1>7 DEF StartRemoving, RemoveIfDone, EndRemoving, Done, vars
  <2> QED
    BY <2>1, QuietKeeps DEF sentVars
<1>8. CASE RetryProbe \/ NewProbe
  BY <1>8, RetryProbeKeepsCounts, NewProbeKeepsCounts
<1>9. ASSUME NEW h \in Hosts, Purge(h) PROVE CInv'
  BY <1>9, ForgetKeepsCounts
<1>10. ASSUME NEW late, ExpireGlobalPings(late) PROVE CInv'
  BY <1>10, ForgetKeepsCounts
<1>11. ASSUME NEW late, NEW old, ProcessHost(late, old) PROVE CInv'
  BY <1>11, ProcessHostKeepsCounts
<1> QED
  BY <1>1, <1>2, <1>3, <1>4, <1>5, <1>6, <1>7, <1>8, <1>9, <1>10, <1>11 DEF Next

\* Both parts of the invariant hold in every state of every run.
LEMMA CountInductive == Spec => [](IInv /\ CInv)
<1>1. Init => IInv /\ CInv
  BY InitIInv, InitCInv
<1>2. IInv /\ CInv /\ [Next]_vars => (IInv /\ CInv)'
  BY NextIInv, NextCInv
<1> QED
  BY <1>1, <1>2, PTL DEF Spec

\* The counters of active and waiting probes, of a host and of the group, are
\* what the probe lists say after every step of ultra_scan().
THEOREM CountersExact == Spec => []ProbeAccounting
<1>1. CInv => ProbeAccounting
  BY DEF CInv
<1> QED
  BY <1>1, CountInductive, PTL

\* What is pending for a port is one attempt: the invariant of the probe list,
\* the bench and the stack leaves no room for a second.
LEMMA PendingOnce ==
  ASSUME IInv, AttemptInv
  PROVE  OnePendingAttempt
<1>1. SUFFICES ASSUME NEW h \in Hosts, NEW port \in Ports
               PROVE  Cardinality(Pending(h, port)) <=
                        (IF port > next_portidx[h] THEN 0 ELSE 1)
  BY DEF OnePendingAttempt
<1> DEFINE O == probes_outstanding[h]
           B == probe_bench[h]
           K == retry_stack[h]
<1>2. /\ O \in SUBSET UltraProbe
      /\ LocalInv(O, nxtpseq[h], B, bench_tryno[h], K, next_portidx[h])
  BY IInvParts DEF AttemptInv, ProbeTypes
<1>3. \A p, q \in O : ~p.isPing /\ ~q.isPing /\ p.port = port /\ q.port = port
                        /\ ~p.retransmitted /\ ~q.retransmitted => p = q
  BY <1>2 DEF LocalInv, TriesInv
<1>4. ASSUME NEW p \in O, p.port = port, ~p.retransmitted
      PROVE  port \notin B /\ \A j \in DOMAIN K : port \notin K[j].ports
  BY <1>2, <1>4 DEF LocalInv, BenchInv, StackInv, Settled
<1>5. port \in B => \A j \in DOMAIN K : port \notin K[j].ports
  BY <1>2 DEF LocalInv, StackInv
<1>6. \A j, k \in DOMAIN K : port \in K[j].ports /\ port \in K[k].ports => j = k
  BY <1>2 DEF LocalInv, StackInv
<1>7. \A x, y \in Pending(h, port) : x = y
  BY <1>3, <1>4, <1>5, <1>6 DEF Pending
<1>8. CASE port > next_portidx[h]
  <2>1. Pending(h, port) = {}
    BY <1>2, <1>8 DEF LocalInv, FreshInv, Pending
  <2> QED
    BY <1>8, <2>1, FS_EmptySet
<1>9. CASE ~(port > next_portidx[h])
  <2>1. CASE Pending(h, port) = {}
    BY <1>9, <2>1, FS_EmptySet
  <2>2. CASE Pending(h, port) # {}
    <3>1. PICK x : Pending(h, port) = {x}
      BY <1>7, <2>2
    <3>2. Cardinality({x}) = 1
      BY FS_Singleton
    <3> QED
      BY <1>9, <3>1, <3>2
  <2> QED
    BY <2>1, <2>2
<1> QED
  BY <1>8, <1>9

\* However probes time out, are benched, moved to the retry stack, retried and
\* answered, a port is never tried twice at a time.
THEOREM OneAttempt == Spec => []OnePendingAttempt
<1>1. IInv /\ CInv => OnePendingAttempt
  BY PendingOnce DEF CInv
<1> QED
  BY <1>1, CountInductive, PTL

-----------------------------------------------------------------------------
(* Completed hosts.  That they are quiet needs to know that no host is      *)
(* both completed and incomplete, and that the ping host is completed.      *)

GroupInv == /\ incompleteHosts \cap completedHosts = {}
            /\ pinghost # NoHost => pinghost \in completedHosts
            /\ CompletedHostsQuiet

\* The active probes of the hosts when one list is replaced.
LEMMA ActiveAfter ==
  ASSUME IInv, NEW h \in Hosts, NEW S, NEW da, NEW dw, SetProbes(h, S, da, dw)
  PROVE  \A g \in Hosts : Active(g)' = IF g = h THEN ActiveIn(S) ELSE Active(g)
<1>1. \A g \in Hosts : probes_outstanding'[g] =
                         IF g = h THEN S ELSE probes_outstanding[g]
  BY IInvParts DEF SetProbes, ProbeTypes
<1> QED
  BY <1>1 DEF Active, ActiveIn

\* Completed hosts stay quiet when they get no active probe, or but a ping.
LEMMA StaysQuiet ==
  ASSUME IInv, IInv', CInv, CInv', GroupInv,
         UNCHANGED <<incompleteHosts, completedHosts, pinghost>>,
         \A g \in completedHosts :
           /\ toclock'[g] # "expired" => toclock[g] # "expired"
           /\ \/ Active(g)' \subseteq Active(g)
              \/ g = pinghost /\ \E p : p.isPing /\ Active(g)' \subseteq {p}
  PROVE  GroupInv'
<1>1. SUFFICES ASSUME NEW g \in completedHosts, toclock'[g] # "expired"
               PROVE  /\ num_probes_active'[g] <= (IF g = pinghost THEN 1 ELSE 0)
                      /\ \A p \in Active(g)' : p.isPing
  BY DEF GroupInv, CompletedHostsQuiet
<1>2. g \in Hosts
  BY IInvParts DEF GroupTypes
<1>3. /\ num_probes_active[g] <= (IF g = pinghost THEN 1 ELSE 0)
      /\ \A p \in Active(g) : p.isPing
  BY <1>1 DEF GroupInv, CompletedHostsQuiet
<1>4. /\ num_probes_active[g] = Cardinality(Active(g))
      /\ num_probes_active'[g] = Cardinality(Active(g)')
  BY <1>2 DEF CInv, ProbeAccounting, HostAccounting
<1>5. IsFiniteSet(Active(g)) /\ Cardinality(Active(g)) \in Nat
  <2>1. Active(g) \subseteq probes_outstanding[g] /\ IsFiniteSet(probes_outstanding[g])
    BY <1>2, IInvParts DEF Active, ProbeTypes
  <2> QED
    BY <2>1, FS_Subset, FS_CardinalityType, Zenon
<1>6. CASE Active(g)' \subseteq Active(g)
  <2>1. Cardinality(Active(g)') \in Nat /\ Cardinality(Active(g)') <= Cardinality(Active(g))
    BY <1>5, <1>6, FS_Subset, FS_CardinalityType
  <2> QED
    BY <1>3, <1>4, <1>5, <1>6, <2>1
<1>7. CASE g = pinghost /\ \E p : p.isPing /\ Active(g)' \subseteq {p}
  <2>1. PICK p : p.isPing /\ Active(g)' \subseteq {p}
    BY <1>7
  <2>2. IsFiniteSet({p}) /\ Cardinality({p}) = 1
    BY FS_Singleton
  <2>3. Cardinality(Active(g)') \in Nat /\ Cardinality(Active(g)') <= 1
    BY <2>1, <2>2, FS_Subset, FS_CardinalityType
  <2> QED
    BY <1>4, <1>7, <2>1, <2>3
<1> QED
  BY <1>1, <1>6, <1>7

\* A step that changes the list of an incomplete host, or no list at all,
\* concerns no completed host.
LEMMA QuietElsewhere ==
  ASSUME IInv, IInv', CInv, CInv', GroupInv,
         UNCHANGED <<incompleteHosts, completedHosts, pinghost>>,
         \A g \in completedHosts : toclock'[g] # "expired" => toclock[g] # "expired",
         \/ UNCHANGED probes_outstanding
         \/ \E h \in incompleteHosts : \E S, da, dw : SetProbes(h, S, da, dw)
  PROVE  GroupInv'
<1>1. completedHosts \subseteq Hosts /\ incompleteHosts \subseteq Hosts
  BY IInvParts DEF GroupTypes
<1>2. ASSUME UNCHANGED probes_outstanding, NEW g PROVE Active(g)' \subseteq Active(g)
  BY <1>2 DEF Active
<1>3. ASSUME NEW h \in incompleteHosts, NEW S, NEW da, NEW dw, SetProbes(h, S, da, dw),
             NEW g \in completedHosts
      PROVE  Active(g)' \subseteq Active(g)
  <2>1. g # h
    BY DEF GroupInv
  <2> QED
    BY <1>1, <1>3, <2>1, ActiveAfter
<1> QED
  BY <1>2, <1>3, StaysQuiet

\* A step that leaves a host with no more active probes than it had.
LEMMA QuietHere ==
  ASSUME IInv, IInv', CInv, CInv', GroupInv, UNCHANGED <<groupVars, toclock>>,
         NEW h \in Hosts, NEW S, NEW da, NEW dw, SetProbes(h, S, da, dw),
         ActiveIn(S) \subseteq Active(h)
  PROVE  GroupInv'
<1>1. \A g \in completedHosts : Active(g)' \subseteq Active(g)
  BY ActiveAfter, IInvParts DEF GroupTypes
<1> QED
  BY <1>1, StaysQuiet DEF groupVars

\* Every way of sending a probe replaces the list of the host.
LEMMA SendReplaces ==
  ASSUME NEW h, NEW p
  PROVE  /\ \A S, dw : ConnectDone(h, p, S, dw) =>
              \E T, da, d : /\ SetProbes(h, T, da, d)
                            /\ T \in {S, S \cup {Marked(p)}}
         /\ Send(h, p) => \E T, da, d : SetProbes(h, T, da, d)
<1>1. ASSUME NEW S, NEW dw, ConnectDone(h, p, S, dw)
      PROVE  \E T, da, d : SetProbes(h, T, da, d) /\ T \in {S, S \cup {Marked(p)}}
  <2>1. \/ SetProbes(h, S, 0, dw)
        \/ SetProbes(h, S \cup {Marked(p)}, 0, dw + IF p.isPing THEN 0 ELSE 1)
    BY <1>1 DEF ConnectDone, Marked
  <2> QED
    BY <2>1
<1>2. ASSUME Send(h, p) PROVE \E T, da, d : SetProbes(h, T, da, d)
  BY <1>1, <1>2 DEF Send, ConnectUp, Destroy
<1> QED
  BY <1>1, <1>2

\* doAnyPings(): a global ping is sent when the ping host awaits no answer.
LEMMA GlobalPingQuiet ==
  ASSUME IInv, IInv', CInv, CInv', GroupInv, GlobalPing
  PROVE  GroupInv'
<1>0. PICK h : h = pinghost
  OBVIOUS
<1> DEFINE p == PingProbe(nxtpseq[h] + 1)
           S == probes_outstanding[h]
<1>1. UNCHANGED <<groupVars, toclock>> /\ h \in Hosts
  BY <1>0, IInvParts DEF GlobalPing, GroupTypes
<1>2. Active(h) = {} /\ ActiveIn(S) = {}
  <2>1. Cardinality(Active(h)) = 0
    BY <1>0, <1>1 DEF GlobalPing, CInv, ProbeAccounting, HostAccounting
  <2>2. IsFiniteSet(Active(h))
    <3>1. Active(h) \subseteq S /\ IsFiniteSet(S)
      BY <1>1, IInvParts DEF Active, ProbeTypes
    <3> QED
      BY <3>1, FS_Subset, Zenon
  <2>3. Active(h) = {}
    BY <2>1, <2>2, FS_EmptySet
  <2> QED
    BY <2>3 DEF Active, ActiveIn
<1>3. p \in UltraProbe /\ p.isPing /\ Marked(p).timedout
  <2>1. nxtpseq[h] + 1 \in Nat
    BY <1>1, IInvParts DEF SentTypes
  <2>2. p \in UltraProbe
    BY <2>1, ProbeRecords
  <2> QED
    BY <2>2, MarkFields DEF PingProbe
<1>4. \E T, da, d : SetProbes(h, T, da, d) /\ T \subseteq S \cup {p, Marked(p)}
  <2>1. Send(h, p)
    BY <1>0 DEF GlobalPing, SendPing
  <2>2. CASE SetProbes(h, S \cup {p}, 1, 0)
    BY <2>2
  <2>3. CASE ConnectDone(h, p, S, 0)
    <3>1. PICK T, da, d : SetProbes(h, T, da, d) /\ T \in {S, S \cup {Marked(p)}}
      BY <2>3, SendReplaces
    <3> QED
      BY <3>1
  <2>4. CASE ConnectUp(h, p)
    BY <1>3, <2>4 DEF ConnectUp
  <2> QED
    BY <2>1, <2>2, <2>3, <2>4 DEF Send
<1>5. PICK T, da, d : SetProbes(h, T, da, d) /\ T \subseteq S \cup {p, Marked(p)}
  BY <1>4
<1>6. Active(h)' \subseteq {p}
      /\ \A g \in completedHosts : g # h => Active(g)' \subseteq Active(g)
  <2>1. ActiveIn(T) \subseteq {p}
    BY <1>2, <1>3, <1>5 DEF ActiveIn
  <2> HIDE DEF p
  <2> QED
    BY <1>1, <1>5, <2>1, ActiveAfter, IInvParts DEF GroupTypes
<1> HIDE DEF p
<1> QED
  BY <1>0, <1>1, <1>3, <1>6, StaysQuiet DEF groupVars

\* removeCompletedHosts(): a host that retires in time has no active probe, and
\* a ping host that awaits an answer is not replaced.
LEMMA RetireQuiet ==
  ASSUME IInv, IInv', CInv, CInv', GroupInv, RemoveIfDone
  PROVE  GroupInv'
<1>0. PICK h : h = hostI
  OBVIOUS
<1>1. h \in incompleteHosts /\ incompleteHosts \subseteq Hosts
      /\ completedHosts \subseteq Hosts /\ UNCHANGED probeVars
  BY <1>0, IInvParts DEF RemoveIfDone, Removing, IteratorsValid, GroupTypes
<1>2. \A g \in Hosts : Active(g)' = Active(g) /\ num_probes_active'[g] = num_probes_active[g]
  BY <1>1 DEF Active, probeVars
<1>3. CASE UNCHANGED <<groupVars, toclock>>
  BY <1>1, <1>3, QuietElsewhere DEF groupVars, probeVars
<1>4. CASE Retire(h) /\ (completed(h) \/ timedOut(h))
  <2>1. /\ incompleteHosts' = incompleteHosts \ {h}
        /\ completedHosts' = completedHosts \cup {h}
        /\ \/ pinghost' = h /\ (pinghost # NoHost => num_probes_active[pinghost] = 0)
           \/ pinghost' = pinghost
    BY <1>4 DEF Retire, MayBecomePinghost
  <2>2. \A g \in Hosts : g # h => toclock'[g] = toclock[g]
    BY <1>4, IInvParts DEF Retire, ClockTypes
  <2>3. h # NoHost /\ h # pinghost
    BY <1>1, ConstantsAssumption DEF Hosts, NoHost, GroupInv
  <2>4. ASSUME NEW g \in completedHosts, toclock'[g] # "expired"
        PROVE  /\ num_probes_active'[g] <= (IF g = pinghost' THEN 1 ELSE 0)
               /\ \A p \in Active(g)' : p.isPing
    <3>1. g # h /\ g \in Hosts
      BY <1>1 DEF GroupInv
    <3>2. /\ num_probes_active[g] <= (IF g = pinghost THEN 1 ELSE 0)
          /\ \A p \in Active(g) : p.isPing
      BY <2>2, <2>4, <3>1 DEF GroupInv, CompletedHostsQuiet
    <3>3. g # NoHost
      BY <3>1, ConstantsAssumption DEF Hosts, NoHost
    <3> QED
      BY <1>2, <2>1, <3>1, <3>2, <3>3
  <2>5. ASSUME toclock'[h] # "expired"
        PROVE  num_probes_active'[h] = 0 /\ Active(h)' = {}
    <3>1. completed(h)
      BY <1>1, <1>4, <2>5, IInvParts DEF Retire, timedOut, ClockTypes
    <3>2. num_probes_active[h] = 0 /\ Cardinality(Active(h)) = 0
      BY <1>1, <3>1 DEF completed, CInv, ProbeAccounting, HostAccounting
    <3>3. IsFiniteSet(Active(h))
      <4>1. Active(h) \subseteq probes_outstanding[h] /\ IsFiniteSet(probes_outstanding[h])
        BY <1>1, IInvParts DEF Active, ProbeTypes
      <4> QED
        BY <4>1, FS_Subset, Zenon
    <3>4. Active(h) = {}
      BY <3>2, <3>3, FS_EmptySet
    <3> QED
      BY <1>1, <1>2, <3>2, <3>4
  <2>6. CompletedHostsQuiet'
    <3>1. ASSUME NEW g \in completedHosts', toclock'[g] # "expired"
          PROVE  /\ num_probes_active'[g] <= (IF g = pinghost' THEN 1 ELSE 0)
                 /\ \A p \in Active(g)' : p.isPing
      BY <2>1, <2>4, <2>5, <3>1
    <3> QED
      BY <3>1 DEF CompletedHostsQuiet
  <2> QED
    BY <2>1, <2>6 DEF GroupInv
<1> QED
  BY <1>0, <1>3, <1>4 DEF RemoveIfDone

\* Every step of the loop keeps completed hosts quiet.
LEMMA NextGroupInv ==
  ASSUME IInv, IInv', CInv, CInv', GroupInv, [Next]_vars
  PROVE  GroupInv'
<1>1. ASSUME NEW h \in Hosts, HostPing(h) PROVE GroupInv'
  <2>1. UNCHANGED <<groupVars, toclock>> /\ h \in incompleteHosts
        /\ \E S, da, dw : SetProbes(h, S, da, dw)
    BY <1>1, SendReplaces DEF HostPing, SendPing
  <2> QED
    BY <2>1, QuietElsewhere DEF groupVars
<1>2. ASSUME NEW h \in Hosts, NEW p \in probes_outstanding[h],
             RateLimitWait(h, p) \/ Retransmit(h, p) \/ RetransmitFreed(h, p)
      PROVE  GroupInv'
  <2>1. UNCHANGED <<groupVars, toclock>> /\ h \in incompleteHosts
    BY <1>2 DEF RateLimitWait, Retransmit, RetransmitFreed, MayRetransmit
  <2>2. \/ UNCHANGED probes_outstanding
        \/ \E S, da, dw : SetProbes(h, S, da, dw)
    BY <1>2, SendReplaces DEF RateLimitWait, Retransmit, RetransmitFreed, probeVars,
                              ConnectUp, Destroy
  <2> QED
    BY <2>1, <2>2, QuietElsewhere DEF groupVars
<1>3. ASSUME NEW h \in Hosts, NEW p \in probes_outstanding[h],
             PortResult(h, p) \/ PingResult(h, p) \/ ArpResult(h, p)
               \/ ConnectTimedOut(h, p)
      PROVE  GroupInv'
  <2>1. UNCHANGED <<groupVars, toclock>>
    BY <1>3 DEF PortResult, PingResult, ArpResult, ConnectTimedOut, AnswerLeaves
  <2>2. p \in UltraProbe
    BY IInvParts DEF ProbeTypes
  <2>3. \/ UNCHANGED probes_outstanding
        \/ \E S, da, dw : SetProbes(h, S, da, dw) /\ ActiveIn(S) \subseteq Active(h)
    <3>1. ASSUME NEW D, Destroy(h, D)
          PROVE  \E S, da, dw : SetProbes(h, S, da, dw) /\ ActiveIn(S) \subseteq Active(h)
      <4>1. ActiveIn(probes_outstanding[h] \ D) \subseteq Active(h)
        BY DEF ActiveIn, Active
      <4> QED
        BY <3>1, <4>1 DEF Destroy
    <3>2. ASSUME MarkTimedout(h, p)
          PROVE  \E S, da, dw : SetProbes(h, S, da, dw) /\ ActiveIn(S) \subseteq Active(h)
      <4>1. ActiveIn((probes_outstanding[h] \ {p}) \cup {Marked(p)}) \subseteq Active(h)
        BY <2>2, MarkFields DEF ActiveIn, Active
      <4> QED
        BY <3>2, <4>1 DEF MarkTimedout, Marked
    <3> QED
      BY <1>3, <3>1, <3>2 DEF PortResult, PingResult, ArpResult, ConnectTimedOut, probeVars
  <2>4. CASE UNCHANGED probes_outstanding
    BY <2>1, <2>4, QuietElsewhere DEF groupVars
  <2> QED
    BY <2>1, <2>3, <2>4, QuietHere
<1>4. ASSUME NEW h \in Hosts,
             RateLimitWaitOver(h) \/ ClockExpires(h) \/ ArpResultNoProbe(h)
      PROVE  GroupInv'
  <2>1. UNCHANGED <<groupVars, probeVars>>
    BY <1>4 DEF RateLimitWaitOver, ClockExpires, ArpResultNoProbe
  <2>2. \A g \in completedHosts : toclock'[g] # "expired" => toclock[g] # "expired"
    BY <1>4, IInvParts DEF RateLimitWaitOver, ClockExpires, ArpResultNoProbe,
                           ClockTypes, GroupTypes
  <2> QED
    BY <2>1, <2>2, QuietElsewhere DEF groupVars, probeVars
<1>5. CASE EndPings \/ EndRetransmits \/ EndRetries \/ EndNewProbes \/ EndWait
             \/ EndProcess \/ SkipHost("retry") \/ SkipHost("new")
  <2>1. UNCHANGED <<probeVars, toclock, incompleteHosts, completedHosts, pinghost>>
    BY <1>5 DEF EndPings, EndRetransmits, EndRetries, StartRound, EndNewProbes,
                EndWait, EndProcess, SkipHost, groupVars
  <2> QED
    BY <2>1, QuietElsewhere DEF probeVars
<1>6. CASE StartRemoving \/ EndRemoving \/ Done \/ UNCHANGED vars
  <2>1. UNCHANGED <<probeVars, toclock, incompleteHosts, completedHosts, pinghost>>
    BY <1>6 DEF StartRemoving, EndRemoving, Done, groupVars, vars
  <2> QED
    BY <2>1, QuietElsewhere DEF probeVars
<1>7. CASE RetryProbe \/ NewProbe
  <2>1. hss \in incompleteHosts /\ hss \in Hosts
    BY <1>7, IInvParts DEF RetryProbe, NewProbe, InRound, IteratorsValid, GroupTypes
  <2>2. UNCHANGED <<incompleteHosts, completedHosts, pinghost>>
    BY <1>7 DEF RetryProbe, NewProbe
  <2>3. \A g \in completedHosts : toclock'[g] # "expired" => toclock[g] # "expired"
    BY <1>7, IInvParts DEF RetryProbe, NewProbe, ClockTypes, GroupTypes
  <2>4. \E S, da, dw : SetProbes(hss, S, da, dw)
    BY <1>7, SendReplaces DEF RetryProbe, NewProbe
  <2> QED
    BY <2>1, <2>2, <2>3, <2>4, QuietElsewhere
<1>8. ASSUME NEW h \in Hosts, Purge(h) PROVE GroupInv'
  <2>1. /\ h # pinghost /\ completedHosts' = completedHosts \ {h}
        /\ UNCHANGED <<incompleteHosts, pinghost, toclock>>
        /\ \E S, da, dw : SetProbes(h, S, da, dw)
    BY <1>8 DEF Purge, Destroy
  <2>2. \A g \in completedHosts' : /\ Active(g)' = Active(g)
                                   /\ num_probes_active'[g] = num_probes_active[g]
    <3>1. completedHosts \subseteq Hosts
      BY IInvParts DEF GroupTypes
    <3>2. \A g \in Hosts : g # h => num_probes_active'[g] = num_probes_active[g]
      BY <2>1, IInvParts DEF SetProbes, ProbeTypes
    <3> QED
      BY <2>1, <3>1, <3>2, ActiveAfter
  <2> QED
    BY <2>1, <2>2 DEF GroupInv, CompletedHostsQuiet
<1>9. ASSUME NEW late, ExpireGlobalPings(late) PROVE GroupInv'
  <2>1. UNCHANGED <<groupVars, toclock>>
    BY <1>9 DEF ExpireGlobalPings
  <2>2. CASE pinghost = NoHost
    BY <1>9, <2>1, <2>2, QuietElsewhere DEF ExpireGlobalPings, groupVars, probeVars
  <2>3. CASE pinghost # NoHost
    <3>1. pinghost \in Hosts /\ Destroy(pinghost, late)
      BY <1>9, <2>3, IInvParts DEF ExpireGlobalPings, GroupTypes
    <3>2. ActiveIn(probes_outstanding[pinghost] \ late) \subseteq Active(pinghost)
      BY DEF ActiveIn, Active
    <3> QED
      BY <2>1, <3>1, <3>2, QuietHere DEF Destroy
  <2> QED
    BY <2>2, <2>3
<1>10. ASSUME NEW late, NEW old, ProcessHost(late, old) PROVE GroupInv'
  <2>1. UNCHANGED <<groupVars, toclock>> /\ hostI \in incompleteHosts
    BY <1>10, IInvParts DEF ProcessHost, IteratorsValid
  <2>2. \E S, da, dw : SetProbes(hostI, S, da, dw)
    BY <1>10 DEF ProcessHost, ProcessProbes
  <2> QED
    BY <2>1, <2>2, QuietElsewhere DEF groupVars
<1> QED
  BY <1>1, <1>2, <1>3, <1>4, <1>5, <1>6, <1>7, <1>8, <1>9, <1>10,
     GlobalPingQuiet, RetireQuiet DEF Next

\* The whole invariant holds in every state of every run.
LEMMA GroupInductive == Spec => [](IInv /\ CInv /\ GroupInv)
<1>1. Init => IInv /\ CInv /\ GroupInv
  <2>1. Init => GroupInv
    BY DEF Init, GroupInv, CompletedHostsQuiet
  <2> QED
    BY <2>1, InitIInv, InitCInv
<1>2. IInv /\ CInv /\ GroupInv /\ [Next]_vars => (IInv /\ CInv /\ GroupInv)'
  BY NextIInv, NextCInv, NextGroupInv
<1> QED
  BY <1>1, <1>2, PTL DEF Spec

\* A host that was completed in time takes no room in the congestion window of
\* the group, but for one ping of the ping host.
THEOREM NoActiveProbeLeft == Spec => []CompletedHostsQuiet
<1>1. GroupInv => CompletedHostsQuiet
  BY DEF GroupInv
<1> QED
  BY <1>1, GroupInductive, PTL

-----------------------------------------------------------------------------
(* What the engine knows of a host, and how a step may change it.          *)

\* What an answer of h may change: a port that answered, the state of the host
\* in a discovery scan, and in a port scan the last try that was of use.
Heard(h) ==
  /\ \/ UNCHANGED result
     \/ \E port \in Ports : result' = [result EXCEPT ![h][port] = Answered]
  /\ \/ UNCHANGED flags
     \/ /\ ping_scan /\ flags[h] # "UP"
        /\ \E v \in {"UP", "DOWN"} : flags' = [flags EXCEPT ![h] = v]
  /\ \/ UNCHANGED max_successful_tryno
     \/ /\ ~ping_scan
        /\ \E t \in 0 .. 127 :
             /\ t > max_successful_tryno[h]
             /\ max_successful_tryno' = [max_successful_tryno EXCEPT ![h] = t]

\* connect() fails for a port of which nothing is known.
Untold(h, port) ==
  /\ result[h][port] = Unknown
  /\ result' = [result EXCEPT ![h][port] = Failed]
  /\ UNCHANGED <<flags, max_successful_tryno>>

\* No host retires or is forgotten, and only a host that is incomplete has its
\* clock changed.
SameStages ==
  /\ UNCHANGED <<scantype, incompleteHosts, completedHosts>>
  /\ \A g \in Hosts : g \notin incompleteHosts => toclock'[g] = toclock[g]

\* The stages of ScanPromise do not change then.
LEMMA StagesKept ==
  ASSUME SameStages
  PROVE  /\ ping_scan' = ping_scan
         /\ [g \in Hosts |-> Stage(g)]' = [g \in Hosts |-> Stage(g)]
<1>1. ping_scan' = ping_scan
  BY DEF SameStages, ping_scan
<1>2. ASSUME NEW g \in Hosts PROVE Stage(g)' = Stage(g)
  BY DEF SameStages, Stage
<1> QED
  BY <1>1, <1>2

\* An answer of a host that is not forgotten is one that ScanPromise hears.
LEMMA HearStep ==
  ASSUME SameStages, NEW h \in Hosts, h \in incompleteHosts \cup completedHosts,
         pc # "done", pc' # "done", Heard(h)
  PROVE  Promise!Next
<1>1. Stage(h) # "forgotten"
  BY DEF Stage
<1>2. Promise!Hear(h)
  BY <1>1, StagesKept DEF Promise!Hear, Heard, Answered, Promise!Answered
<1> QED
  BY <1>2 DEF Promise!Next

\* A step that finds out nothing is a step that callers do not see.
LEMMA UnseenStep ==
  ASSUME SameStages, (pc = "done") = (pc' = "done"),
         UNCHANGED <<result, flags, max_successful_tryno>>
  PROVE  UNCHANGED Promise!vars
BY StagesKept DEF Promise!vars

\* The stage of a host that is still scanned.
LEMMA Scanned ==
  ASSUME GroupInv, NEW h \in incompleteHosts
  PROVE  Stage(h) = "scanning"
<1>1. h \notin completedHosts
  BY DEF GroupInv
<1> QED
  BY <1>1 DEF Stage

\* A port of an incomplete host that cannot be asked.
LEMMA FailStep ==
  ASSUME GroupInv, SameStages, NEW h \in Hosts, h \in incompleteHosts,
         NEW port \in Ports, pc # "done", pc' # "done", Untold(h, port)
  PROVE  Promise!Next
<1>1. Stage(h) = "scanning"
  BY Scanned
<1>2. Promise!Fail(h, port)
  BY <1>1, StagesKept DEF Promise!Fail, Untold, Failed, Promise!Failed, Unknown,
                          Promise!Nothing
<1> QED
  BY <1>2 DEF Promise!Next

\* An answer in a port scan.
LEMMA PortUpdateHeard ==
  ASSUME TargetTypes, ~ping_scan, NEW h \in Hosts, NEW port \in Ports \cup {PingPort},
         NEW t \in 0 .. 127, NEW useful \in BOOLEAN, PortUpdate(h, port, t, useful)
  PROVE  Heard(h)
<1>1. max_successful_tryno \in [Hosts -> 0 .. 127]
  BY DEF TargetTypes, Seqnum
<1>2. CASE useful /\ t > max_successful_tryno[h]
  BY <1>1, <1>2, ConstantsAssumption DEF PortUpdate, Heard, PingPort, Ports
<1>3. CASE ~(useful /\ t > max_successful_tryno[h])
  <2>1. UNCHANGED max_successful_tryno
    BY <1>1, <1>3 DEF PortUpdate
  <2> QED
    BY <2>1, ConstantsAssumption DEF PortUpdate, Heard, PingPort, Ports
<1> QED
  BY <1>2, <1>3

\* An answer in host discovery.
LEMMA HostUpdateHeard ==
  ASSUME TargetTypes, ping_scan, NEW h \in Hosts, NEW port \in Ports \cup {PingPort},
         NEW newstate \in {"UP", "DOWN"}, HostUpdate(h, port, newstate)
  PROVE  Heard(h) /\ flags'[h] # "UNKNOWN"
<1>1. flags \in [Hosts -> {"UNKNOWN", "UP", "DOWN"}]
  BY DEF TargetTypes
<1>2. flags' = [flags EXCEPT ![h] = IF @ = "UP" THEN @ ELSE newstate]
  BY DEF HostUpdate, NewFlags
<1>3. flags'[h] # "UNKNOWN"
  BY <1>1, <1>2
<1>4. \/ UNCHANGED flags
      \/ flags[h] # "UP" /\ flags' = [flags EXCEPT ![h] = newstate]
  BY <1>1, <1>2
<1> QED
  BY <1>3, <1>4, ConstantsAssumption DEF HostUpdate, Heard, PingPort, Ports

-----------------------------------------------------------------------------
(* The invariant behind Finish: nothing is forgotten about a port.         *)

\* Some attempt at the port is under way, benched, or to be sent again.
Covered(O, B, K, port) ==
  \/ \E p \in O : p.port = port /\ ~p.retransmitted
  \/ port \in B
  \/ \E j \in DOMAIN K : port \in K[j].ports

\* As long as there is no verdict f on the host, a port that was probed has a
\* finding in r or an attempt; d tells whether this is host discovery, where
\* the only finding without a verdict is that connect() failed.
NoneLost(d, f, r, O, B, K, i) ==
  f = "UNKNOWN" => \A port \in Ports :
    /\ d => r[port] \in {Unknown, Failed}
    /\ port <= i /\ r[port] = Unknown => Covered(O, B, K, port)

CoverInv ==
  \A h \in incompleteHosts :
    NoneLost(ping_scan, flags[h], result[h], probes_outstanding[h],
             probe_bench[h], retry_stack[h], next_portidx[h])

\* Only port scans have a host timeout clock, which runs while the host is
\* incomplete; only host discovery has a verdict.
ClockInv ==
  /\ ping_scan => \A h \in Hosts : toclock[h] = "off"
  /\ ~ping_scan => \A h \in Hosts : flags[h] = "UNKNOWN"
  /\ \A h \in Hosts : toclock[h] = "running" => h \in incompleteHosts

PromInv == CoverInv /\ ClockInv

\* A step that changes one incomplete host, in a way that loses nothing.
LEMMA CoverKept ==
  ASSUME IInv, CoverInv, UNCHANGED scantype, NEW h,
         incompleteHosts' \subseteq incompleteHosts,
         \A g \in incompleteHosts' : g # h =>
           /\ flags'[g] = flags[g] /\ result'[g] = result[g]
           /\ probes_outstanding'[g] = probes_outstanding[g]
           /\ probe_bench'[g] = probe_bench[g] /\ retry_stack'[g] = retry_stack[g]
           /\ next_portidx'[g] = next_portidx[g],
         h \in incompleteHosts' =>
           NoneLost(ping_scan, flags'[h], result'[h], probes_outstanding'[h],
                    probe_bench'[h], retry_stack'[h], next_portidx'[h])
  PROVE  CoverInv'
<1>1. ping_scan' = ping_scan
  BY DEF ping_scan
<1>2. ASSUME NEW g \in incompleteHosts'
      PROVE  NoneLost(ping_scan, flags'[g], result'[g], probes_outstanding'[g],
                      probe_bench'[g], retry_stack'[g], next_portidx'[g])
  <2>1. CASE g = h
    BY <1>2, <2>1
  <2>2. CASE g # h
    <3>1. NoneLost(ping_scan, flags[g], result[g], probes_outstanding[g],
                   probe_bench[g], retry_stack[g], next_portidx[g])
      BY <1>2 DEF CoverInv
    <3> QED
      BY <1>2, <2>2, <3>1
  <2> QED
    BY <2>1, <2>2
<1> QED
  BY <1>1, <1>2 DEF CoverInv

\* A step that keeps all there is of the incomplete hosts.
LEMMA CoverSame ==
  ASSUME IInv, CoverInv, incompleteHosts' \subseteq incompleteHosts,
         UNCHANGED <<scantype, flags, result, probes_outstanding, probe_bench,
                     retry_stack, next_portidx>>
  PROVE  CoverInv'
<1>1. ping_scan' = ping_scan
  BY DEF ping_scan
<1> QED
  BY <1>1 DEF CoverInv

-----------------------------------------------------------------------------
(* Sending a probe. *)

\* Of the hosts but h nothing changes.
OnlyHost(h) ==
  \A g \in Hosts : g # h =>
    /\ flags'[g] = flags[g] /\ result'[g] = result[g]
    /\ probes_outstanding'[g] = probes_outstanding[g]

\* What becomes of a probe of the port that is sent when the list is S: there
\* is a verdict on the host, or else no other attempt is lost, and the port has
\* an attempt or a finding.
Asked(h, port, S) ==
  \/ flags'[h] # "UNKNOWN"
  \/ /\ flags'[h] = flags[h]
     /\ S \subseteq probes_outstanding'[h]
     /\ \A q \in Ports \ {port} : result'[h][q] = result[h][q]
     /\ port \in Ports =>
          \/ ~ping_scan /\ result'[h][port] = Answered
          \/ result'[h][port] = Failed
          \/ /\ result'[h][port] = result[h][port]
             /\ \/ result[h][port] # Unknown
                \/ \E s \in probes_outstanding'[h] : s.port = port /\ ~s.retransmitted

Learns(h, p) == Heard(h) \/ (~p.isPing /\ Untold(h, p.port))

\* Neither an answer nor a failure of h says anything of another host.
LEMMA OnlyOneHost ==
  ASSUME IInv, NEW h \in Hosts, NEW S, NEW da, NEW dw, SetProbes(h, S, da, dw),
         NEW p, Learns(h, p)
  PROVE  OnlyHost(h) /\ probes_outstanding'[h] = S
<1>1. \A g \in Hosts : probes_outstanding'[g] =
                         IF g = h THEN S ELSE probes_outstanding[g]
  BY IInvParts DEF SetProbes, ProbeTypes
<1>2. \A g \in Hosts : g # h => flags'[g] = flags[g] /\ result'[g] = result[g]
  BY IInvParts DEF Learns, Heard, Untold, TargetTypes
<1> QED
  BY <1>1, <1>2 DEF OnlyHost

\* The three ways of a probe: it is out, connect() has its result at once, or
\* connect() finds the host up.
LEMMA ConnectDoneAsks ==
  ASSUME IInv, NEW h \in Hosts, NEW p \in UltraProbe, ~p.retransmitted,
         NEW S, NEW dw, ConnectDone(h, p, S, dw)
  PROVE  Learns(h, p) /\ OnlyHost(h) /\ Asked(h, p.port, S)
<1>1. /\ p.port \in Ports \cup {PingPort} /\ p.tryno \in 0 .. 127
      /\ ~p.isPing => p.port \in Ports
      /\ p.isPing => p.port = PingPort
      /\ PingPort \notin Ports
  BY ProbeFields
<1>2. TargetTypes /\ result[h] \in [Ports -> {Failed, Unknown, Answered} \cup Seqnum]
  BY IInvParts DEF TargetTypes
<1>3. CASE /\ ~ping_scan /\ SetProbes(h, S, 0, dw)
           /\ \E useful \in BOOLEAN : PortUpdate(h, p.port, p.tryno, useful)
  <2>1. Heard(h)
    BY <1>1, <1>2, <1>3, PortUpdateHeard
  <2>2. OnlyHost(h) /\ probes_outstanding'[h] = S
    BY <1>3, <2>1, OnlyOneHost DEF Learns
  <2>3. flags'[h] = flags[h]
    BY <1>3 DEF PortUpdate
  <2>4. CASE p.isPing
    <3>1. result' = result
      BY <1>1, <1>3, <2>4 DEF PortUpdate
    <3>2. Asked(h, p.port, S)
      BY <1>1, <2>2, <2>3, <2>4, <3>1 DEF Asked
    <3> QED
      BY <2>1, <2>2, <3>2 DEF Learns
  <2>5. CASE ~p.isPing
    <3>1. result'[h] = [result[h] EXCEPT ![p.port] = Answered]
      BY <1>1, <1>2, <1>3, <2>5 DEF PortUpdate, TargetTypes
    <3>2. Asked(h, p.port, S)
      BY <1>1, <1>2, <1>3, <2>2, <2>3, <2>5, <3>1 DEF Asked
    <3> QED
      BY <2>1, <2>2, <3>2 DEF Learns
  <2> QED
    BY <2>4, <2>5
<1>4. CASE SetProbes(h, S, 0, dw) /\ p.isPing /\ UNCHANGED targetVars
  <2>1. UNCHANGED <<result, flags, max_successful_tryno>> /\ Heard(h)
    BY <1>4 DEF targetVars, Heard
  <2>2. OnlyHost(h) /\ probes_outstanding'[h] = S
    BY <1>4, <2>1, OnlyOneHost DEF Learns
  <2>3. Asked(h, p.port, S)
    BY <1>1, <1>4, <2>1, <2>2 DEF Asked
  <2> QED
    BY <2>1, <2>2, <2>3 DEF Learns
<1>5. CASE SetProbes(h, S, 0, dw) /\ ping_scan /\ HostUpdate(h, p.port, "DOWN")
  <2>1. Heard(h) /\ flags'[h] # "UNKNOWN"
    BY <1>1, <1>2, <1>5, HostUpdateHeard
  <2>2. OnlyHost(h)
    BY <1>5, <2>1, OnlyOneHost DEF Learns
  <2> QED
    BY <2>1, <2>2 DEF Learns, Asked
<1>6. CASE /\ SetProbes(h, S \cup {[p EXCEPT !.timedout = TRUE]}, 0,
                        dw + IF p.isPing THEN 0 ELSE 1)
           /\ UNCHANGED targetVars
  <2>1. UNCHANGED <<result, flags, max_successful_tryno>> /\ Heard(h)
    BY <1>6 DEF targetVars, Heard
  <2>2. OnlyHost(h) /\ probes_outstanding'[h] = S \cup {Marked(p)}
    BY <1>6, <2>1, OnlyOneHost DEF Learns, Marked
  <2>3. Marked(p).port = p.port /\ ~Marked(p).retransmitted
    BY MarkFields
  <2>4. Asked(h, p.port, S)
    BY <1>1, <2>1, <2>2, <2>3 DEF Asked
  <2> QED
    BY <2>1, <2>2, <2>4 DEF Learns
<1>7. CASE /\ ~p.isPing
           /\ result' = [result EXCEPT ![h][p.port] = IF @ = Unknown THEN Failed ELSE @]
           /\ SetProbes(h, S, 0, dw)
           /\ UNCHANGED <<max_successful_tryno, pingprobe, flags>>
  <2>1. CASE result[h][p.port] = Unknown
    <3>1. Untold(h, p.port)
      BY <1>1, <1>2, <1>7, <2>1 DEF Untold, TargetTypes
    <3>2. OnlyHost(h) /\ probes_outstanding'[h] = S
      BY <1>7, <3>1, OnlyOneHost DEF Learns
    <3>3. result'[h] = [result[h] EXCEPT ![p.port] = Failed]
      BY <1>1, <1>2, <3>1 DEF Untold, TargetTypes
    <3>4. Asked(h, p.port, S)
      BY <1>1, <1>2, <1>7, <3>2, <3>3 DEF Asked
    <3> QED
      BY <1>7, <3>1, <3>2, <3>4 DEF Learns
  <2>2. CASE result[h][p.port] # Unknown
    <3>1. result' = result
      BY <1>1, <1>2, <1>7, <2>2 DEF TargetTypes
    <3>2. Heard(h)
      BY <1>7, <3>1 DEF Heard
    <3>3. OnlyHost(h) /\ probes_outstanding'[h] = S
      BY <1>7, <3>2, OnlyOneHost DEF Learns
    <3>4. Asked(h, p.port, S)
      BY <1>1, <1>7, <2>2, <3>1, <3>3 DEF Asked
    <3> QED
      BY <3>2, <3>3, <3>4 DEF Learns
  <2> QED
    BY <2>1, <2>2
<1> QED
  BY <1>3, <1>4, <1>5, <1>6, <1>7 DEF ConnectDone

\* An answer that connect() gives at once is one to a probe that was sent.
LEMMA ConnectUpAsks ==
  ASSUME IInv, NEW h \in Hosts, NEW p \in UltraProbe, ConnectUp(h, p), NEW S
  PROVE  Learns(h, p) /\ OnlyHost(h) /\ Asked(h, p.port, S)
<1>1. p.port \in Ports \cup {PingPort}
  BY ProbeFields
<1>2. Heard(h) /\ flags'[h] # "UNKNOWN"
  BY <1>1, HostUpdateHeard, IInvParts DEF ConnectUp, ping_scan
<1>3. OnlyHost(h)
  BY <1>2, OnlyOneHost DEF Learns, ConnectUp, Destroy
<1> QED
  BY <1>2, <1>3 DEF Learns, Asked

\* Sending a probe asks for its port.
LEMMA SendAsks ==
  ASSUME IInv, NEW h \in Hosts, NEW p \in UltraProbe, ~p.retransmitted, Send(h, p)
  PROVE  Learns(h, p) /\ OnlyHost(h) /\ Asked(h, p.port, probes_outstanding[h])
<1>1. CASE /\ SetProbes(h, probes_outstanding[h] \cup {p}, 1, 0)
           /\ UNCHANGED targetVars
  <2>1. UNCHANGED <<result, flags, max_successful_tryno>> /\ Heard(h)
    BY <1>1 DEF targetVars, Heard
  <2>2. OnlyHost(h) /\ probes_outstanding'[h] = probes_outstanding[h] \cup {p}
    BY <1>1, <2>1, OnlyOneHost DEF Learns
  <2>3. Asked(h, p.port, probes_outstanding[h])
    BY <2>1, <2>2 DEF Asked
  <2> QED
    BY <2>1, <2>2, <2>3 DEF Learns
<1> QED
  BY <1>1, ConnectDoneAsks, ConnectUpAsks DEF Send

\* A step that ScanPromise allows or does not see.
Allowed == Promise!Next \/ UNCHANGED Promise!vars

\* What an incomplete host says, or fails to say, to a probe is allowed.
LEMMA AskAllowed ==
  ASSUME IInv, GroupInv, SameStages, NEW h \in incompleteHosts, h \in Hosts,
         NEW p \in UltraProbe, Learns(h, p), pc # "done", pc' # "done"
  PROVE  Allowed
<1>1. ~p.isPing => p.port \in Ports
  BY ProbeFields
<1> QED
  BY <1>1, HearStep, FailStep DEF Learns, Allowed

\* Only host discovery has verdicts.
LEMMA FlagsKept ==
  ASSUME IInv, ClockInv, UNCHANGED scantype, NEW h \in Hosts, NEW p, Learns(h, p)
  PROVE  ~ping_scan => \A g \in Hosts : flags'[g] = "UNKNOWN"
BY DEF ClockInv, Learns, Heard, Untold

\* The clock part of the invariant depends on little.
LEMMA ClockKept ==
  ASSUME ClockInv, UNCHANGED <<scantype, toclock, incompleteHosts>>,
         ~ping_scan => \A g \in Hosts : flags'[g] = "UNKNOWN"
  PROVE  ClockInv'
<1>1. ping_scan' = ping_scan
  BY DEF ping_scan
<1> QED
  BY <1>1 DEF ClockInv

\* Once a probe of a port is on its way, it is enough that the list S of the
\* others, the bench and the stack account for the other ports.
LEMMA AskCovers ==
  ASSUME IInv, CoverInv, UNCHANGED <<scantype, incompleteHosts>>, NEW h \in Hosts,
         NEW port, NEW S, OnlyHost(h), Asked(h, port, S),
         \A g \in Hosts : g # h =>
           /\ probe_bench'[g] = probe_bench[g] /\ retry_stack'[g] = retry_stack[g]
           /\ next_portidx'[g] = next_portidx[g],
         \A q \in Ports : q # port /\ q <= next_portidx'[h] =>
           /\ q <= next_portidx[h]
           /\ Covered(probes_outstanding[h], probe_bench[h], retry_stack[h], q) =>
                Covered(S, probe_bench'[h], retry_stack'[h], q)
  PROVE  CoverInv'
<1>1. incompleteHosts \subseteq Hosts
  BY IInvParts DEF GroupTypes
<1>2. ASSUME h \in incompleteHosts
      PROVE  NoneLost(ping_scan, flags'[h], result'[h], probes_outstanding'[h],
                      probe_bench'[h], retry_stack'[h], next_portidx'[h])
  <2>1. SUFFICES ASSUME flags'[h] = "UNKNOWN", NEW q \in Ports
                 PROVE  /\ ping_scan => result'[h][q] \in {Unknown, Failed}
                        /\ q <= next_portidx'[h] /\ result'[h][q] = Unknown =>
                             Covered(probes_outstanding'[h], probe_bench'[h],
                                     retry_stack'[h], q)
    BY DEF NoneLost
  <2>2. /\ flags[h] = "UNKNOWN" /\ S \subseteq probes_outstanding'[h]
        /\ ping_scan => result[h][q] \in {Unknown, Failed}
        /\ q <= next_portidx[h] /\ result[h][q] = Unknown =>
             Covered(probes_outstanding[h], probe_bench[h], retry_stack[h], q)
    BY <1>2, <2>1 DEF Asked, CoverInv, NoneLost
  <2>3. CASE q # port
    <3>1. result'[h][q] = result[h][q]
      BY <2>1, <2>3 DEF Asked
    <3>2. Covered(S, probe_bench'[h], retry_stack'[h], q) =>
            Covered(probes_outstanding'[h], probe_bench'[h], retry_stack'[h], q)
      BY <2>2 DEF Covered
    <3> QED
      BY <2>2, <2>3, <3>1, <3>2
  <2>4. CASE q = port
    <3>1. Answered # Unknown /\ Failed # Unknown
      BY DEF Answered, Unknown, Failed
    <3>2. \/ ~ping_scan /\ result'[h][q] = Answered
          \/ result'[h][q] = Failed
          \/ /\ result'[h][q] = result[h][q]
             /\ \/ result[h][q] # Unknown
                \/ \E s \in probes_outstanding'[h] : s.port = q /\ ~s.retransmitted
      BY <2>1, <2>4 DEF Asked
    <3> QED
      BY <2>2, <3>1, <3>2 DEF Covered
  <2> QED
    BY <2>3, <2>4
<1> QED
  BY <1>1, <1>2, CoverKept DEF OnlyHost

\* doAnyPings() and doAnyOutstandingRetransmits().
LEMMA HostPingPromise ==
  ASSUME IInv, GroupInv, PromInv, NEW h \in Hosts, HostPing(h)
  PROVE  PromInv' /\ Allowed
<1> DEFINE p == PingProbe(nxtpseq[h] + 1)
<1>1. p \in UltraProbe /\ ~p.retransmitted /\ p.port \notin Ports
  <2>1. nxtpseq[h] + 1 \in Nat
    BY IInvParts DEF SentTypes
  <2>2. p \in UltraProbe /\ p.port = PingPort
    BY <2>1, ProbeRecords
  <2> QED
    BY <2>2, ProbeFields DEF PingProbe
<1>2. Send(h, p) /\ h \in incompleteHosts /\ pc = "pings"
      /\ UNCHANGED <<pc, scantype, incompleteHosts, completedHosts, toclock,
                     probe_bench, retry_stack, next_portidx>>
  BY DEF HostPing, SendPing, loopVars, groupVars, benchVars
<1> HIDE DEF p
<1>3. Learns(h, p) /\ OnlyHost(h) /\ Asked(h, p.port, probes_outstanding[h])
  BY <1>1, <1>2, SendAsks
<1>4. CoverInv'
  BY <1>1, <1>2, <1>3, AskCovers DEF PromInv
<1>5. ClockInv'
  BY <1>2, <1>3, FlagsKept, ClockKept DEF PromInv
<1>6. Allowed
  BY <1>1, <1>2, <1>3, AskAllowed DEF SameStages
<1> QED
  BY <1>4, <1>5, <1>6 DEF PromInv

\* Sending a probe again keeps the promise.
LEMMA RetransmitPromise ==
  ASSUME IInv, GroupInv, PromInv, NEW h \in Hosts, NEW p \in probes_outstanding[h],
         Retransmit(h, p) \/ RetransmitFreed(h, p)
  PROVE  PromInv' /\ Allowed
<1> DEFINE O == probes_outstanding[h]
           new == ScanProbe(p.port, NextSeqnum(p.tryno))
           S == (O \ {p}) \cup {Resent(p)}
<1>1. p \in UltraProbe /\ ~p.isPing /\ p.port \in Ports /\ p.tryno \in 0 .. 127
  BY ProbeFields, IInvParts DEF ProbeTypes, Retransmit, RetransmitFreed, MayRetransmit
<1>2. new \in UltraProbe /\ ~new.retransmitted /\ new.port = p.port
  <2>1. NextSeqnum(p.tryno) \in Seqnum
    BY <1>1 DEF Seqnum, NextSeqnum
  <2>2. new \in UltraProbe /\ new.port = p.port
    BY <1>1, <2>1, ProbeRecords
  <2> QED
    BY <2>2 DEF ScanProbe
<1>3. /\ h \in incompleteHosts /\ pc = "retransmit" /\ pc' # "done"
      /\ UNCHANGED <<scantype, incompleteHosts, completedHosts, toclock,
                     probe_bench, retry_stack, next_portidx>>
  BY DEF Retransmit, RetransmitFreed, MayRetransmit, loopVars, groupVars, benchVars, sentVars
<1>4. Learns(h, new) /\ OnlyHost(h) /\ Asked(h, new.port, S)
  <2>1. CASE SetProbes(h, S \cup {new}, 1, -1) /\ UNCHANGED targetVars
    <3>1. UNCHANGED <<result, flags, max_successful_tryno>> /\ Heard(h)
      BY <2>1 DEF targetVars, Heard
    <3>2. OnlyHost(h) /\ probes_outstanding'[h] = S \cup {new}
      BY <2>1, <3>1, OnlyOneHost DEF Learns
    <3>3. Asked(h, new.port, S)
      BY <1>2, <3>1, <3>2 DEF Asked
    <3> QED
      BY <3>1, <3>2, <3>3 DEF Learns
  <2>2. CASE ConnectDone(h, new, S, -1)
    BY <1>2, <2>2, ConnectDoneAsks
  <2>3. CASE ConnectUp(h, new)
    BY <1>2, <2>3, ConnectUpAsks
  <2> QED
    BY <2>1, <2>2, <2>3 DEF Retransmit, RetransmitFreed, Resent
<1>5. \A q \in Ports : q # new.port /\ Covered(O, probe_bench[h], retry_stack[h], q) =>
                         Covered(S, probe_bench'[h], retry_stack'[h], q)
  BY <1>2, <1>3 DEF Covered
<1> HIDE DEF new, S
<1>6. CoverInv'
  BY <1>3, <1>4, <1>5, AskCovers DEF PromInv
<1>7. ClockInv'
  BY <1>3, <1>4, FlagsKept, ClockKept DEF PromInv
<1>8. Allowed
  BY <1>2, <1>3, <1>4, AskAllowed DEF SameStages
<1> QED
  BY <1>6, <1>7, <1>8 DEF PromInv

\* Ports but the one that is taken off stay on the retry stack.
LEMMA PoppedKeeps ==
  ASSUME NEW s \in Seq(RetryBatch), s # <<>>, NEW port, NEW q, q # port,
         NEW j \in DOMAIN s, q \in s[j].ports
  PROVE  \E k \in DOMAIN Popped(s, port) : q \in Popped(s, port)[k].ports
<1> DEFINE top == s[Len(s)]
           b == [top EXCEPT !.ports = top.ports \ {port}]
           r == Below(s)
           n == Len(s)
<1>1. /\ n \in Nat \ {0} /\ DOMAIN s = 1 .. n
      /\ r \in Seq(RetryBatch) /\ Len(r) = n - 1 /\ DOMAIN r = 1 .. (n - 1)
      /\ \A i \in 1 .. (n - 1) : r[i] = s[i]
  BY BelowBatch
<1>2. top \in RetryBatch
  BY <1>1
<1>3. b \in RetryBatch /\ b.ports = top.ports \ {port}
  BY <1>2 DEF RetryBatch
<1> HIDE DEF b, n, r
<1>4. j \in 1 .. (n - 1) \/ j = n
  BY <1>1
<1>5. CASE top.ports = {port}
  <2>1. Popped(s, port) = r
    BY <1>5 DEF Popped, r
  <2>2. j # n
    BY <1>5 DEF n
  <2> QED
    BY <1>1, <1>4, <2>1, <2>2
<1>6. CASE top.ports # {port}
  <2> DEFINE s1 == Append(r, b)
  <2>1. Popped(s, port) = s1
    BY <1>6 DEF Popped, r, b
  <2>2. /\ DOMAIN s1 = 1 .. (Len(r) + 1)
        /\ \A i \in 1 .. Len(r) : s1[i] = r[i]
        /\ s1[Len(r) + 1] = b
    BY <1>1, <1>3, PushBatch
  <2>3. Len(r) + 1 = n /\ Len(r) = n - 1
    BY <1>1
  <2> HIDE DEF s1
  <2>4. DOMAIN s1 = 1 .. n /\ s1[n] = b
    BY <2>2, <2>3
  <2>5. CASE j = n
    BY <1>1, <1>3, <2>1, <2>4, <2>5 DEF n
  <2>6. CASE j \in 1 .. (n - 1)
    <3>1. j \in 1 .. n /\ s1[j] = s[j]
      BY <1>1, <2>2, <2>3, <2>6
    <3> QED
      BY <2>1, <2>4, <3>1
  <2> QED
    BY <1>4, <2>5, <2>6
<1> QED
  BY <1>5, <1>6

\* doAnyRetryStackRetransmits().
LEMMA RetryProbePromise ==
  ASSUME IInv, GroupInv, PromInv, RetryProbe
  PROVE  PromInv' /\ Allowed
<1>1. PICK h : h = hss
  OBVIOUS
<1> DEFINE O == probes_outstanding[h]
           s == retry_stack[h]
           top == s[Len(s)]
<1>2. /\ h \in incompleteHosts /\ h \in Hosts /\ s # <<>> /\ pc = "retry"
      /\ UNCHANGED <<pc, scantype, incompleteHosts, completedHosts, toclock,
                     probe_bench, next_portidx>>
  BY <1>1, IInvParts DEF RetryProbe, InRound, IteratorsValid, GroupTypes
<1>3. s \in Seq(RetryBatch)
  BY <1>2, IInvParts DEF BenchTypes
<1>4. PICK port \in top.ports :
        /\ retry_stack' = [retry_stack EXCEPT ![h] = Popped(s, port)]
        /\ Send(h, ScanProbe(port, NextSeqnum(top.tries)))
  BY <1>1 DEF RetryProbe, Popped, Below
<1>5. /\ retry_stack'[h] = Popped(s, port)
      /\ \A g \in Hosts : g # h => retry_stack'[g] = retry_stack[g]
  BY <1>2, <1>4, IInvParts DEF BenchTypes
<1>6. port \in Ports /\ NextSeqnum(top.tries) \in Seqnum
  <2>1. Len(s) \in DOMAIN s
    BY <1>2, <1>3
  <2>2. top.ports \in SUBSET Ports /\ top.tries \in 0 .. 127
    BY <1>3, <2>1, BatchPorts
  <2>3. \A t \in 0 .. 127 : NextSeqnum(t) \in Seqnum
    BY DEF Seqnum, NextSeqnum
  <2> QED
    BY <1>4, <2>2, <2>3
<1> DEFINE p == ScanProbe(port, NextSeqnum(top.tries))
<1>7. p \in UltraProbe /\ ~p.retransmitted /\ p.port = port
  <2>1. p \in UltraProbe /\ p.port = port
    BY <1>6, ProbeRecords
  <2> QED
    BY <2>1 DEF ScanProbe
<1>8. Send(h, p)
  BY <1>4
<1> HIDE DEF p, s
<1>9. Learns(h, p) /\ OnlyHost(h) /\ Asked(h, port, O)
  BY <1>2, <1>7, <1>8, SendAsks
<1>10. \A q \in Ports : q # port /\ Covered(O, probe_bench[h], s, q) =>
                          Covered(O, probe_bench'[h], retry_stack'[h], q)
  BY <1>2, <1>3, <1>5, PoppedKeeps DEF Covered
<1>11. CoverInv'
  BY <1>2, <1>5, <1>9, <1>10, AskCovers DEF PromInv, s
<1>12. ClockInv'
  BY <1>2, <1>9, FlagsKept, ClockKept DEF PromInv
<1>13. Allowed
  BY <1>2, <1>7, <1>9, AskAllowed DEF SameStages
<1> QED
  BY <1>11, <1>12, <1>13 DEF PromInv

\* doAnyNewProbes().
LEMMA NewProbePromise ==
  ASSUME IInv, GroupInv, PromInv, NewProbe
  PROVE  PromInv' /\ Allowed
<1>1. PICK h : h = hss
  OBVIOUS
<1> DEFINE O == probes_outstanding[h]
           port == next_portidx[h] + 1
           p == ScanProbe(port, 0)
<1>2. /\ h \in incompleteHosts /\ h \in Hosts /\ pc = "new"
      /\ UNCHANGED <<pc, scantype, incompleteHosts, completedHosts, benchVars>>
      /\ next_portidx[h] < NumPorts /\ Send(h, p)
  BY <1>1, IInvParts
     DEF NewProbe, InRound, IteratorsValid, GroupTypes, freshPortsLeft
<1>3. /\ next_portidx[h] \in Nat /\ next_portidx'[h] = port
      /\ \A g \in Hosts : g # h => next_portidx'[g] = next_portidx[g]
  BY <1>1, <1>2, IInvParts DEF NewProbe, SentTypes
<1>4. port \in Ports
  BY <1>2, <1>3, ConstantsAssumption DEF Ports
<1>5. p \in UltraProbe /\ ~p.retransmitted /\ p.port = port
  <2>1. p \in UltraProbe /\ p.port = port
    BY <1>4, ProbeRecords DEF Seqnum
  <2> QED
    BY <2>1 DEF ScanProbe
<1> HIDE DEF p
<1>6. Learns(h, p) /\ OnlyHost(h) /\ Asked(h, port, O)
  BY <1>2, <1>5, SendAsks
<1>7. \A q \in Ports : q # port /\ q <= next_portidx'[h] => q <= next_portidx[h]
  BY <1>3 DEF Ports
<1>8. CoverInv'
  BY <1>2, <1>3, <1>6, <1>7, AskCovers DEF PromInv, benchVars
<1>9. /\ \A g \in Hosts : g # h => toclock'[g] = toclock[g]
      /\ toclock'[h] = IF ~ping_scan /\ toclock[h] = "off" THEN "running" ELSE toclock[h]
  BY <1>1, <1>2, IInvParts DEF NewProbe, ClockTypes
<1>10. ClockInv'
  <2>1. ping_scan' = ping_scan
    BY <1>2 DEF ping_scan
  <2>2. ~ping_scan => \A g \in Hosts : flags'[g] = "UNKNOWN"
    BY <1>2, <1>6, FlagsKept DEF PromInv
  <2> QED
    BY <1>2, <1>9, <2>1, <2>2 DEF ClockInv, PromInv
<1>11. Allowed
  BY <1>2, <1>5, <1>6, <1>9, AskAllowed DEF SameStages
<1> QED
  BY <1>8, <1>10, <1>11 DEF PromInv

\* Steps that only concern completed hosts and their pings.
LEMMA GlobalPingPromise ==
  ASSUME IInv, GroupInv, PromInv, GlobalPing
  PROVE  PromInv' /\ Allowed
<1>1. PICK h : h = pinghost
  OBVIOUS
<1> DEFINE p == PingProbe(nxtpseq[h] + 1)
<1>2. h \in Hosts /\ h \in completedHosts /\ h \notin incompleteHosts
  BY <1>1, IInvParts DEF GlobalPing, GroupTypes, GroupInv
<1>3. p \in UltraProbe /\ ~p.retransmitted /\ p.isPing
  <2>1. nxtpseq[h] + 1 \in Nat
    BY <1>2, IInvParts DEF SentTypes
  <2>2. p \in UltraProbe /\ p.isPing
    BY <2>1, ProbeRecords
  <2> QED
    BY <2>2 DEF PingProbe
<1>4. Send(h, p) /\ pc = "pings" /\ pc' = "retransmit"
      /\ UNCHANGED <<scantype, incompleteHosts, completedHosts, toclock,
                     probe_bench, retry_stack, next_portidx>>
  BY <1>1 DEF GlobalPing, SendPing, groupVars, benchVars
<1> HIDE DEF p
<1>5. Learns(h, p) /\ OnlyHost(h)
  BY <1>2, <1>3, <1>4, SendAsks
<1>6. CoverInv'
  BY <1>2, <1>4, <1>5, CoverKept, IInvParts DEF OnlyHost, GroupTypes, PromInv
<1>7. ClockInv'
  BY <1>2, <1>4, <1>5, FlagsKept, ClockKept DEF PromInv
<1>8. Allowed
  BY <1>2, <1>3, <1>4, <1>5, HearStep DEF SameStages, Learns, Allowed
<1> QED
  BY <1>6, <1>7, <1>8 DEF PromInv

-----------------------------------------------------------------------------
(* Answers, and the end of a host. *)

\* waitForResponses(): an answer may be lost on a port only if it says something
\* about the port.
LEMMA AnswerPromise ==
  ASSUME IInv, PromInv, NEW h \in Hosts, h \in incompleteHosts \cup completedHosts,
         pc = "wait", AnswerLeaves, Heard(h), NEW S, NEW da, NEW dw,
         SetProbes(h, S, da, dw), NEW port, Asked(h, port, S),
         \A q \in Ports \ {port} :
           Covered(probes_outstanding[h], probe_bench[h], retry_stack[h], q) =>
             Covered(S, probe_bench[h], retry_stack[h], q)
  PROVE  PromInv' /\ Allowed
<1>1. /\ pc' # "done"
      /\ UNCHANGED <<scantype, incompleteHosts, completedHosts, toclock,
                     probe_bench, retry_stack, next_portidx>>
  BY DEF AnswerLeaves, groupVars, benchVars, sentVars
<1>2. OnlyHost(h)
  BY OnlyOneHost DEF Learns
<1>3. CoverInv'
  BY <1>1, <1>2, AskCovers DEF PromInv
<1>4. ClockInv'
  BY <1>1, FlagsKept, ClockKept DEF PromInv, Learns
<1>5. Allowed
  BY <1>1, HearStep DEF SameStages, Allowed
<1> QED
  BY <1>3, <1>4, <1>5 DEF PromInv

\* The other ports keep their attempts when a probe is destroyed.
LEMMA DestroyCovers ==
  ASSUME NEW O, NEW p, NEW B, NEW K, NEW q, q # p.port, Covered(O, B, K, q)
  PROVE  Covered(O \ {p}, B, K, q)
BY DEF Covered

\* An answer to a port probe keeps the promise.
LEMMA PortResultPromise ==
  ASSUME IInv, PromInv, NEW h \in Hosts, NEW p \in probes_outstanding[h],
         PortResult(h, p)
  PROVE  PromInv' /\ Allowed
<1> DEFINE O == probes_outstanding[h]
           da == -Cardinality({p} \cap Active(h))
           dw == -Cardinality({p} \cap Waiting(h))
<1>1. /\ p \in UltraProbe /\ p.port \in Ports \cup {PingPort} /\ p.tryno \in 0 .. 127
      /\ ~p.isPing => p.port \in Ports
      /\ p.isPing => p.port = PingPort
      /\ PingPort \notin Ports
  BY ProbeFields, IInvParts DEF ProbeTypes
<1>2. /\ ~ping_scan /\ pc = "wait" /\ h \in incompleteHosts \cup completedHosts
      /\ AnswerLeaves /\ SetProbes(h, O \ {p}, da, dw)
  BY DEF PortResult, Answerable, Destroy
<1> HIDE DEF da, dw
<1>3. TargetTypes /\ result[h] \in [Ports -> {Failed, Unknown, Answered} \cup Seqnum]
  BY IInvParts DEF TargetTypes
<1>4. CASE p.isPing /\ UNCHANGED targetVars
  <2>1. UNCHANGED <<result, flags, max_successful_tryno>> /\ Heard(h)
    BY <1>4 DEF targetVars, Heard
  <2>2. probes_outstanding'[h] = O \ {p}
    BY <1>2, <2>1, OnlyOneHost DEF Learns
  <2>3. Asked(h, p.port, O \ {p})
    BY <1>1, <1>4, <2>1, <2>2 DEF Asked
  <2> QED
    BY <1>2, <2>1, <2>3, DestroyCovers, AnswerPromise
<1>5. CASE \E useful \in BOOLEAN : PortUpdate(h, p.port, p.tryno, useful)
  <2>1. Heard(h)
    BY <1>1, <1>2, <1>3, <1>5, PortUpdateHeard
  <2>2. probes_outstanding'[h] = O \ {p} /\ flags' = flags
    BY <1>2, <1>5, <2>1, OnlyOneHost DEF Learns, PortUpdate
  <2>3. IF p.isPing THEN result'[h] = result[h]
        ELSE result'[h] = [result[h] EXCEPT ![p.port] = Answered]
    BY <1>1, <1>3, <1>5 DEF PortUpdate, TargetTypes
  <2>4. Asked(h, p.port, O \ {p})
    BY <1>1, <1>2, <1>3, <2>2, <2>3 DEF Asked
  <2> QED
    BY <1>2, <2>1, <2>4, DestroyCovers, AnswerPromise
<1> QED
  BY <1>4, <1>5 DEF PortResult

\* An answer of host discovery keeps the promise.
LEMMA DiscoveryPromise ==
  ASSUME IInv, PromInv, NEW h \in Hosts, NEW p \in probes_outstanding[h],
         PingResult(h, p) \/ ArpResult(h, p)
  PROVE  PromInv' /\ Allowed
<1> DEFINE O == probes_outstanding[h]
<1>1. /\ p \in UltraProbe /\ p.port \in Ports \cup {PingPort}
      /\ p.isPing => p.port = PingPort
      /\ PingPort \notin Ports
  BY ProbeFields, IInvParts DEF ProbeTypes
<1>2. /\ ping_scan /\ pc = "wait" /\ h \in incompleteHosts \cup completedHosts
      /\ AnswerLeaves
  BY DEF PingResult, ArpResult, Answerable, ping_scan
<1>3. CASE p.isPing /\ UNCHANGED targetVars /\ Destroy(h, {p})
  <2>1. UNCHANGED <<result, flags, max_successful_tryno>> /\ Heard(h)
    BY <1>3 DEF targetVars, Heard
  <2>2. PICK da, dw : SetProbes(h, O \ {p}, da, dw)
    BY <1>3 DEF Destroy
  <2>3. probes_outstanding'[h] = O \ {p}
    BY <2>1, <2>2, OnlyOneHost DEF Learns
  <2>4. Asked(h, p.port, O \ {p})
    BY <1>1, <1>3, <2>1, <2>3 DEF Asked
  <2> QED
    BY <1>2, <2>1, <2>2, <2>4, DestroyCovers, AnswerPromise
<1>4. ASSUME NEW v \in {"UP", "DOWN"}, HostUpdate(h, p.port, v), NEW D, Destroy(h, D)
      PROVE  PromInv' /\ Allowed
  <2>1. Heard(h) /\ flags'[h] # "UNKNOWN"
    BY <1>1, <1>2, <1>4, HostUpdateHeard, IInvParts
  <2>2. OnlyHost(h)
    BY <1>4, <2>1, OnlyOneHost DEF Learns, Destroy
  <2>3. /\ pc' # "done"
        /\ UNCHANGED <<scantype, incompleteHosts, completedHosts, toclock,
                       probe_bench, retry_stack, next_portidx>>
    BY <1>2 DEF AnswerLeaves, groupVars, benchVars, sentVars
  <2>4. CoverInv'
    BY <2>1, <2>2, <2>3, CoverKept, IInvParts DEF PromInv, NoneLost, OnlyHost, GroupTypes
  <2>5. ClockInv'
    BY <2>1, <2>3, FlagsKept, ClockKept DEF PromInv, Learns
  <2>6. Allowed
    BY <1>2, <2>1, <2>3, HearStep DEF SameStages, Allowed
  <2> QED
    BY <2>4, <2>5, <2>6 DEF PromInv
<1>5. CASE UNCHANGED <<probeVars, targetVars>>
  <2>1. /\ pc' # "done"
        /\ UNCHANGED <<scantype, incompleteHosts, completedHosts, toclock, flags,
                       result, max_successful_tryno, probes_outstanding, probe_bench,
                       retry_stack, next_portidx>>
    BY <1>2, <1>5 DEF AnswerLeaves, groupVars, benchVars, sentVars, probeVars, targetVars
  <2>2. CoverInv'
    BY <2>1, CoverSame DEF PromInv
  <2>3. ClockInv'
    BY <2>1, ClockKept DEF PromInv, ClockInv
  <2>4. Allowed
    BY <1>2, <2>1, UnseenStep DEF SameStages, Allowed
  <2> QED
    BY <2>2, <2>3, <2>4 DEF PromInv
<1> QED
  BY <1>3, <1>4, <1>5 DEF PingResult, ArpResult

\* So does one of a host that has no probe in its list.
LEMMA NoProbePromise ==
  ASSUME IInv, PromInv, NEW h \in Hosts, ArpResultNoProbe(h)
  PROVE  PromInv' /\ Allowed
<1>1. /\ ping_scan /\ pc = "wait" /\ h \in incompleteHosts \cup completedHosts
      /\ flags' = [flags EXCEPT ![h] = "UP"]
      /\ UNCHANGED <<pc, scantype, incompleteHosts, completedHosts, toclock, result,
                     max_successful_tryno, probes_outstanding, probe_bench,
                     retry_stack, next_portidx>>
  BY DEF ArpResultNoProbe, ping_scan, loopVars, groupVars, probeVars, benchVars, sentVars
<1>2. flags \in [Hosts -> {"UNKNOWN", "UP", "DOWN"}]
  BY IInvParts DEF TargetTypes
<1>3. flags'[h] = "UP" /\ \A g \in Hosts : g # h => flags'[g] = flags[g]
  BY <1>1, <1>2
<1>4. \/ UNCHANGED flags
      \/ flags[h] # "UP" /\ flags' = [flags EXCEPT ![h] = "UP"]
  BY <1>1, <1>2
<1>5. Heard(h)
  BY <1>1, <1>4 DEF Heard
<1>6. CoverInv'
  BY <1>1, <1>3, CoverKept, IInvParts DEF PromInv, NoneLost, GroupTypes
<1>7. ClockInv'
  BY <1>1, ClockKept DEF PromInv
<1>8. Allowed
  BY <1>1, <1>5, HearStep DEF SameStages, Allowed
<1> QED
  BY <1>6, <1>7, <1>8 DEF PromInv

\* A connection that the kernel has given up keeps the promise.
LEMMA TimedOutPromise ==
  ASSUME IInv, PromInv, NEW h \in Hosts, NEW p \in probes_outstanding[h],
         ConnectTimedOut(h, p)
  PROVE  PromInv' /\ Allowed
<1> DEFINE O == probes_outstanding[h]
           S == (O \ {p}) \cup {Marked(p)}
<1>1. /\ p \in UltraProbe /\ PingPort \notin Ports
      /\ Marked(p).port = p.port /\ Marked(p).retransmitted = p.retransmitted
  BY ProbeFields, MarkFields, IInvParts DEF ProbeTypes
<1>2. /\ pc = "wait" /\ h \in incompleteHosts \cup completedHosts /\ AnswerLeaves
      /\ UNCHANGED <<result, flags, max_successful_tryno>>
  BY DEF ConnectTimedOut, Answerable, targetVars
<1>3. PICK da, dw : SetProbes(h, S, da, dw)
  BY DEF ConnectTimedOut, MarkTimedout, Marked
<1>4. Heard(h)
  BY <1>2 DEF Heard
<1>5. probes_outstanding'[h] = S
  BY <1>3, <1>4, OnlyOneHost DEF Learns
<1>6. Asked(h, PingPort, S)
  BY <1>1, <1>2, <1>5 DEF Asked
<1>7. \A q : Covered(O, probe_bench[h], retry_stack[h], q) =>
               Covered(S, probe_bench[h], retry_stack[h], q)
  BY <1>1 DEF Covered
<1> HIDE DEF S
<1> QED
  BY <1>2, <1>3, <1>4, <1>6, <1>7, AnswerPromise

\* completed(): with no active and no waiting probe, an empty bench and an empty
\* stack there is a verdict or a finding for every port.
LEMMA CompletedKnows ==
  ASSUME IInv, CInv, PromInv, NEW h \in incompleteHosts, completed(h)
  PROVE  IF ping_scan
         THEN flags[h] # "UNKNOWN" \/ \A port \in Ports : result[h][port] = Failed
         ELSE \A port \in Ports : result[h][port] # Unknown
<1> DEFINE O == probes_outstanding[h]
<1>1. h \in Hosts
  BY IInvParts DEF GroupTypes
<1>2. SUFFICES ASSUME flags[h] = "UNKNOWN", NEW port \in Ports
               PROVE  /\ result[h][port] # Unknown
                      /\ ping_scan => result[h][port] \in {Unknown, Failed}
  BY <1>1 DEF PromInv, ClockInv
<1>3. /\ num_probes_active[h] = 0 /\ num_probes_waiting_retransmit[h] = 0
      /\ probe_bench[h] = {} /\ retry_stack[h] = <<>> /\ ~freshPortsLeft(h)
  BY <1>2 DEF completed
<1>4. Active(h) = {} /\ Waiting(h) = {}
  <2>1. Cardinality(Active(h)) = 0 /\ Cardinality(Waiting(h)) = 0
    BY <1>1, <1>3 DEF CInv, ProbeAccounting, HostAccounting
  <2>2. IsFiniteSet(Active(h)) /\ IsFiniteSet(Waiting(h))
    <3>1. /\ Active(h) \subseteq O /\ Waiting(h) \subseteq O
          /\ IsFiniteSet(O)
      BY <1>1, IInvParts DEF Active, Waiting, ProbeTypes
    <3> QED
      BY <3>1, FS_Subset, Zenon
  <2> QED
    BY <2>1, <2>2, FS_EmptySet
<1>5. ~Covered(O, probe_bench[h], retry_stack[h], port)
  <2>1. DOMAIN retry_stack[h] = {}
    BY <1>3
  <2>2. \A p \in O : p.port = port => p.retransmitted
    <3>1. \A p \in O : p \in UltraProbe
      BY <1>1, IInvParts DEF ProbeTypes
    <3>2. \A p \in O : p.port = port => ~p.isPing
      BY <3>1, ProbeFields
    <3> QED
      BY <1>4, <3>2 DEF Active, Waiting
  <2> QED
    BY <1>3, <2>1, <2>2 DEF Covered
<1>6. port <= next_portidx[h]
  <2>1. next_portidx[h] \in 0 .. NumPorts
    BY <1>1, IInvParts DEF SentTypes
  <2> QED
    BY <1>3, <2>1, ConstantsAssumption DEF freshPortsLeft, Ports
<1> QED
  BY <1>2, <1>5, <1>6 DEF PromInv, CoverInv, NoneLost

\* removeCompletedHosts(): a host finishes or runs out of time.
LEMMA RetirePromise ==
  ASSUME IInv, CInv, GroupInv, PromInv, RemoveIfDone
  PROVE  PromInv' /\ Allowed
<1>1. PICK h : h = hostI
  OBVIOUS
<1>2. /\ h \in incompleteHosts /\ h \in Hosts /\ h \notin completedHosts
      /\ pc \in {"remove1", "remove2"}
      /\ UNCHANGED <<pc, scantype, flags, result, max_successful_tryno,
                     probes_outstanding, probe_bench, retry_stack, next_portidx>>
  BY <1>1, IInvParts DEF RemoveIfDone, Removing, IteratorsValid, GroupTypes, GroupInv,
                         probeVars, benchVars, sentVars, targetVars
<1>3. ping_scan' = ping_scan
  BY <1>2 DEF ping_scan
<1>4. CASE UNCHANGED <<groupVars, toclock>>
  <2>1. SameStages /\ UNCHANGED incompleteHosts
    BY <1>2, <1>4 DEF SameStages, groupVars
  <2>2. CoverInv'
    BY <1>2, <2>1, CoverSame DEF PromInv
  <2>3. ClockInv'
    BY <1>2, <1>4, <2>1, ClockKept DEF PromInv, ClockInv
  <2> QED
    BY <1>2, <2>1, <2>2, <2>3, UnseenStep DEF PromInv, Allowed
<1>5. CASE Retire(h) /\ (completed(h) \/ timedOut(h))
  <2>1. /\ incompleteHosts' = incompleteHosts \ {h}
        /\ completedHosts' = completedHosts \cup {h}
    BY <1>5 DEF Retire
  <2>2. /\ \A g \in Hosts : g # h => toclock'[g] = toclock[g]
        /\ toclock'[h] = IF toclock[h] = "running" THEN "off" ELSE toclock[h]
    BY <1>2, <1>5, IInvParts DEF Retire, ClockTypes
  <2>3. CoverInv'
    BY <1>2, <2>1, CoverSame DEF PromInv
  <2>4. ClockInv'
    BY <1>2, <1>3, <2>1, <2>2 DEF PromInv, ClockInv
  <2> DEFINE stage == [g \in Hosts |-> Stage(g)]
             end == IF toclock[h] = "expired" THEN "timedout" ELSE "finished"
  <2>5. stage[h] = "scanning" /\ stage' = [stage EXCEPT ![h] = end]
    <3>1. Stage(h) = "scanning"
      BY <1>2 DEF Stage
    <3>2. Stage(h)' = end
      BY <1>2, <2>1, <2>2 DEF Stage
    <3>3. \A g \in Hosts : g # h => Stage(g)' = Stage(g)
      BY <2>1, <2>2 DEF Stage
    <3> QED
      BY <1>2, <3>1, <3>2, <3>3
  <2>6. CASE toclock[h] = "expired"
    <3>1. ~ping_scan
      BY <1>2, <2>6 DEF PromInv, ClockInv
    <3>2. Promise!RunOut(h)
      BY <1>2, <1>3, <2>5, <2>6, <3>1 DEF Promise!RunOut
    <3> QED
      BY <1>2, <2>3, <2>4, <3>2 DEF Promise!Next, PromInv, Allowed
  <2>7. CASE toclock[h] # "expired"
    <3>1. completed(h)
      BY <1>5, <2>7 DEF timedOut
    <3>2. IF ping_scan
          THEN flags[h] # "UNKNOWN" \/ \A port \in Ports : result[h][port] = Failed
          ELSE \A port \in Ports : result[h][port] # Unknown
      BY <1>2, <3>1, CompletedKnows
    <3>3. Promise!Finish(h)
      BY <1>2, <1>3, <2>5, <2>7, <3>2
         DEF Promise!Finish, Promise!Nothing, Promise!Failed, Unknown, Failed
    <3> QED
      BY <1>2, <2>3, <2>4, <3>3 DEF Promise!Next, PromInv, Allowed
  <2> QED
    BY <2>6, <2>7
<1> QED
  BY <1>1, <1>4, <1>5 DEF RemoveIfDone

\* A completed host is forgotten.
LEMMA PurgePromise ==
  ASSUME IInv, GroupInv, PromInv, NEW h \in Hosts, Purge(h)
  PROVE  PromInv' /\ Allowed
<1>1. /\ h \in completedHosts /\ h \notin incompleteHosts
      /\ pc \in {"purge1", "purge2"}
      /\ completedHosts' = completedHosts \ {h}
      /\ UNCHANGED <<pc, scantype, incompleteHosts, toclock, flags, result,
                     max_successful_tryno, probe_bench, retry_stack, next_portidx>>
  BY DEF Purge, Purging, GroupInv, loopVars, benchVars, sentVars, targetVars
<1>2. ping_scan' = ping_scan
  BY <1>1 DEF ping_scan
<1>3. CoverInv'
  <2>1. \A g \in Hosts : g # h => probes_outstanding'[g] = probes_outstanding[g]
    BY IInvParts DEF Purge, Destroy, SetProbes, ProbeTypes
  <2> QED
    BY <1>1, <2>1, CoverKept, IInvParts DEF PromInv, GroupTypes
<1>4. ClockInv'
  BY <1>1, ClockKept DEF PromInv, ClockInv
<1> DEFINE stage == [g \in Hosts |-> Stage(g)]
<1>5. stage[h] \in {"finished", "timedout"} /\ stage' = [stage EXCEPT ![h] = "forgotten"]
  <2>1. Stage(h) \in {"finished", "timedout"}
    BY <1>1 DEF Stage
  <2>2. Stage(h)' = "forgotten"
    BY <1>1 DEF Stage
  <2>3. \A g \in Hosts : g # h => Stage(g)' = Stage(g)
    BY <1>1 DEF Stage
  <2> QED
    BY <2>1, <2>2, <2>3
<1>6. Promise!Forget(h)
  BY <1>1, <1>2, <1>5 DEF Promise!Forget
<1> QED
  BY <1>3, <1>4, <1>6 DEF Promise!Next, PromInv, Allowed

-----------------------------------------------------------------------------
(* processData() on a host. *)

\* A port that is given up has had as many tries as its host is allowed.
LEMMA GivenUpInTime ==
  ASSUME IInv, NEW h \in Hosts, NEW port, NEW t \in GivenUp(h, port)
  PROVE  t = allowedTryno(h)
<1>1. CASE DismissBench(h) /\ t = bench_tryno[h]
  BY <1>1 DEF DismissBench
<1>2. CASE \E p \in GiveUp(h) : t = p.tryno
  <2>1. PICK p \in GiveUp(h) : t = p.tryno
    BY <1>2
  <2>2. p \in probes_outstanding[h] /\ ~p.isPing /\ p.tryno >= allowedTryno(h)
    BY DEF GiveUp, Waiting
  <2>3. p.tryno <= allowedTryno(h) /\ p.tryno \in 0 .. 127
    BY <2>2, ProbeFields, IInvParts DEF TrynoWithinLimit, ProbeTypes
  <2>4. allowedTryno(h) \in 0 .. 127
    BY TrynoTypes, IInvParts DEF Seqnum
  <2> QED
    BY <2>1, <2>2, <2>3, <2>4, SMTT(30)
<1> QED
  BY <1>1, <1>2 DEF GivenUp

\* The ports given up by a step, and what is known of the host after it.
Silent(h) == {port \in Ports : result[h][port] = Unknown /\ GivenUp(h, port) # {}}

\* What processData() records for the ports of a host that did not answer.
LEMMA ProcessFinds ==
  ASSUME IInv, NEW h \in Hosts, ProcessResults(h)
  PROVE  /\ result' = [result EXCEPT ![h] = [port \in Ports |->
                         IF port \in Silent(h) THEN allowedTryno(h) ELSE result[h][port]]]
         /\ \A port \in Ports : result'[h][port] =
              IF port \in Silent(h) THEN allowedTryno(h) ELSE result[h][port]
         /\ flags' = [flags EXCEPT ![h] = IF HostGivenUp(h) /\ flags[h] # "UP"
                                          THEN "DOWN" ELSE flags[h]]
         /\ UNCHANGED max_successful_tryno
<1>1. ASSUME NEW port \in Ports
      PROVE  (IF result[h][port] = Unknown /\ GivenUp(h, port) # {}
              THEN CHOOSE t \in GivenUp(h, port) : TRUE ELSE result[h][port])
             = IF port \in Silent(h) THEN allowedTryno(h) ELSE result[h][port]
  BY GivenUpInTime DEF Silent
<1>2. result' = [result EXCEPT ![h] = [port \in Ports |->
                   IF port \in Silent(h) THEN allowedTryno(h) ELSE result[h][port]]]
  BY <1>1 DEF ProcessResults
<1>3. \A port \in Ports : result'[h][port] =
        IF port \in Silent(h) THEN allowedTryno(h) ELSE result[h][port]
  BY <1>2, IInvParts DEF TargetTypes
<1>4. flags' = [flags EXCEPT ![h] = IF HostGivenUp(h) /\ flags[h] # "UP"
                                    THEN "DOWN" ELSE flags[h]]
  BY DEF ProcessResults, NewFlags
<1> QED
  BY <1>2, <1>3, <1>4 DEF ProcessResults

\* Ports that are not given up keep their attempt: it stays where it is, goes
\* from the list to the bench, or from the bench to the retry stack.
LEMMA ProcessCovers ==
  ASSUME IInv, NEW h \in Hosts, NEW late, NEW old, late \subseteq Active(h),
         ProcessProbes(h, late, old), ProcessBench(h, old),
         NEW port \in Ports, GivenUp(h, port) = {},
         Covered(probes_outstanding[h], probe_bench[h], retry_stack[h], port)
  PROVE  Covered(probes_outstanding'[h], probe_bench'[h], retry_stack'[h], port)
<1> DEFINE O == probes_outstanding[h]
           R == GiveUp(h) \cup ToBench(h, old) \cup Spent(h, late, old)
           S == (O \ (late \cup R)) \cup {Marked(p) : p \in late}
           b == [ports |-> probe_bench[h], tries |-> bench_tryno[h]]
<1>1. probes_outstanding'[h] = S
  <2>1. PICK da, dw : SetProbes(h, S, da, dw)
    BY DEF ProcessProbes, Marked
  <2> QED
    BY <2>1, IInvParts DEF SetProbes, ProbeTypes
<1>2. /\ probe_bench'[h] = LeftOnBench(h) \cup {p.port : p \in ToBench(h, old)}
      /\ retry_stack'[h] = IF RetransmitBench(h) THEN Append(retry_stack[h], b)
                           ELSE retry_stack[h]
  BY IInvParts DEF ProcessBench, BenchTypes
<1>3. b \in RetryBatch /\ b.ports = probe_bench[h] /\ retry_stack[h] \in Seq(RetryBatch)
  BY IInvParts DEF BenchTypes, RetryBatch
<1>4. CASE \E p \in O : p.port = port /\ ~p.retransmitted
  <2>1. PICK p \in O : p.port = port /\ ~p.retransmitted
    BY <1>4
  <2>2. p \in UltraProbe /\ ~p.isPing
    BY <2>1, ProbeFields, IInvParts DEF ProbeTypes
  <2>3. p \notin GiveUp(h)
    BY <2>1 DEF GivenUp
  <2>4. p \notin Spent(h, late, old)
    BY <2>1, <2>2 DEF Spent
  <2>5. CASE p \in late
    <3>1. Marked(p) \in S /\ Marked(p).port = port /\ ~Marked(p).retransmitted
      BY <2>1, <2>2, <2>5, MarkFields
    <3> QED
      BY <1>1, <3>1 DEF Covered
  <2>6. CASE p \in ToBench(h, old)
    BY <1>2, <2>1, <2>6 DEF Covered
  <2>7. CASE p \notin late /\ p \notin ToBench(h, old)
    BY <1>1, <2>1, <2>3, <2>4, <2>7 DEF Covered
  <2> QED
    BY <2>5, <2>6, <2>7
<1>5. CASE port \in probe_bench[h]
  <2>1. ~DismissBench(h)
    BY <1>5 DEF GivenUp
  <2>2. CASE RetransmitBench(h)
    <3>1. /\ DOMAIN Append(retry_stack[h], b) = 1 .. (Len(retry_stack[h]) + 1)
          /\ Append(retry_stack[h], b)[Len(retry_stack[h]) + 1] = b
          /\ Len(retry_stack[h]) \in Nat
      BY <1>3, PushBatch
    <3>2. Len(retry_stack[h]) + 1 \in DOMAIN Append(retry_stack[h], b)
      BY <3>1
    <3> HIDE DEF b
    <3> QED
      BY <1>2, <1>3, <1>5, <2>2, <3>1, <3>2 DEF Covered
  <2>3. CASE ~RetransmitBench(h)
    BY <1>2, <1>5, <2>1, <2>3 DEF LeftOnBench, Covered
  <2> QED
    BY <2>2, <2>3
<1>6. CASE \E j \in DOMAIN retry_stack[h] : port \in retry_stack[h][j].ports
  <2>1. /\ DOMAIN Append(retry_stack[h], b) = 1 .. (Len(retry_stack[h]) + 1)
        /\ \A j \in DOMAIN retry_stack[h] : Append(retry_stack[h], b)[j] = retry_stack[h][j]
        /\ Len(retry_stack[h]) \in Nat /\ DOMAIN retry_stack[h] = 1 .. Len(retry_stack[h])
    BY <1>3, PushBatch
  <2>2. \A j \in DOMAIN retry_stack[h] : j \in DOMAIN Append(retry_stack[h], b)
    BY <2>1
  <2> HIDE DEF b
  <2> QED
    BY <1>2, <1>6, <2>1, <2>2 DEF Covered
<1> QED
  BY <1>4, <1>5, <1>6 DEF Covered

\* processData() for one host keeps the promise.
LEMMA ProcessHostPromise ==
  ASSUME IInv, GroupInv, PromInv, NEW late, NEW old, ProcessHost(late, old)
  PROVE  PromInv' /\ Allowed
<1>1. PICK h : h = hostI
  OBVIOUS
<1>2. /\ h \in incompleteHosts /\ h \in Hosts /\ pc = "process" /\ pc' # "done"
      /\ late \subseteq Active(h) /\ ProcessProbes(h, late, old)
      /\ ProcessBench(h, old) /\ ProcessResults(h)
      /\ UNCHANGED <<scantype, incompleteHosts, completedHosts, toclock, next_portidx>>
  BY <1>1, IInvParts DEF ProcessHost, IteratorsValid, GroupTypes, groupVars, sentVars
<1>3. /\ result' = [result EXCEPT ![h] = [port \in Ports |->
                      IF port \in Silent(h) THEN allowedTryno(h) ELSE result[h][port]]]
      /\ \A port \in Ports : result'[h][port] =
           IF port \in Silent(h) THEN allowedTryno(h) ELSE result[h][port]
      /\ flags' = [flags EXCEPT ![h] = IF HostGivenUp(h) /\ flags[h] # "UP"
                                       THEN "DOWN" ELSE flags[h]]
      /\ UNCHANGED max_successful_tryno
  BY <1>2, ProcessFinds
<1>4. /\ \A g \in Hosts : g # h => /\ flags'[g] = flags[g] /\ result'[g] = result[g]
      /\ flags'[h] = IF HostGivenUp(h) /\ flags[h] # "UP" THEN "DOWN" ELSE flags[h]
  BY <1>2, <1>3, IInvParts DEF TargetTypes
<1>5. ping_scan /\ ~HostGivenUp(h) => \A port : GivenUp(h, port) = {}
  BY DEF HostGivenUp, GivenUp
<1>6. CoverInv'
  <2>1. \A g \in Hosts : g # h =>
          /\ probes_outstanding'[g] = probes_outstanding[g]
          /\ probe_bench'[g] = probe_bench[g] /\ retry_stack'[g] = retry_stack[g]
    BY <1>2, IInvParts DEF ProcessProbes, SetProbes, ProcessBench, ProbeTypes, BenchTypes
  <2>2. NoneLost(ping_scan, flags'[h], result'[h], probes_outstanding'[h],
                 probe_bench'[h], retry_stack'[h], next_portidx'[h])
    <3>1. SUFFICES ASSUME flags'[h] = "UNKNOWN", NEW port \in Ports
                   PROVE  /\ ping_scan => result'[h][port] \in {Unknown, Failed}
                          /\ port <= next_portidx[h] /\ result'[h][port] = Unknown =>
                               Covered(probes_outstanding'[h], probe_bench'[h],
                                       retry_stack'[h], port)
      BY <1>2 DEF NoneLost
    <3>2. flags[h] = "UNKNOWN" /\ ~HostGivenUp(h)
      BY <1>4, <3>1
    <3>3. /\ ping_scan => result[h][port] \in {Unknown, Failed}
          /\ port <= next_portidx[h] /\ result[h][port] = Unknown =>
               Covered(probes_outstanding[h], probe_bench[h], retry_stack[h], port)
      BY <1>2, <3>2 DEF PromInv, CoverInv, NoneLost
    <3>4. ping_scan => port \notin Silent(h)
      BY <1>5, <3>2 DEF Silent
    <3>5. ASSUME port <= next_portidx[h], result'[h][port] = Unknown
          PROVE  Covered(probes_outstanding'[h], probe_bench'[h], retry_stack'[h], port)
      <4>1. allowedTryno(h) # Unknown
        <5>1. allowedTryno(h) \in 0 .. 127
          BY <1>2, TrynoTypes, IInvParts DEF Seqnum
        <5> QED
          BY <5>1 DEF Unknown
      <4>2. port \notin Silent(h) /\ result[h][port] = Unknown
        BY <1>3, <3>5, <4>1
      <4>3. GivenUp(h, port) = {}
        BY <4>2 DEF Silent
      <4> QED
        BY <1>2, <3>3, <3>5, <4>2, <4>3, ProcessCovers
    <3> QED
      BY <1>3, <3>3, <3>4, <3>5
  <2> QED
    BY <1>2, <1>4, <2>1, <2>2, CoverKept, IInvParts DEF PromInv, GroupTypes
<1>7. ClockInv'
  <2>1. ~ping_scan => ~HostGivenUp(h)
    BY DEF HostGivenUp
  <2> QED
    BY <1>2, <1>4, <2>1, ClockKept DEF PromInv, ClockInv
<1>8. SameStages /\ ping_scan' = ping_scan
  BY <1>2 DEF SameStages, ping_scan
<1>9. CASE ping_scan /\ ~HostGivenUp(h)
  <2>1. result' = result
    <3>1. Silent(h) = {}
      BY <1>5, <1>9 DEF Silent
    <3> QED
      BY <1>2, <1>3, <3>1, IInvParts DEF TargetTypes
  <2>2. flags' = flags
    BY <1>2, <1>3, <1>9, IInvParts DEF TargetTypes
  <2> QED
    BY <1>2, <1>3, <1>6, <1>7, <1>8, <2>1, <2>2, UnseenStep DEF PromInv, Allowed
<1>10. CASE ~ping_scan \/ HostGivenUp(h)
  <2>1. Promise!LastTry(h) = allowedTryno(h)
    BY DEF Promise!LastTry, allowedTryno, uncapped_tryno
  <2>2. Silent(h) \in SUBSET Ports /\ \A port \in Silent(h) : result[h][port] = Unknown
    BY DEF Silent
  <2>3. flags' = [flags EXCEPT ![h] = IF ping_scan /\ flags[h] # "UP"
                                      THEN "DOWN" ELSE flags[h]]
    BY <1>3, <1>10 DEF HostGivenUp
  <2>4. Stage(h) = "scanning"
    BY <1>2, Scanned
  <2>5. Promise!GiveUp(h, Silent(h))
    BY <1>2, <1>3, <1>8, <2>1, <2>2, <2>3, <2>4, StagesKept
       DEF Promise!GiveUp, Promise!Nothing, Unknown
  <2> QED
    BY <1>2, <1>6, <1>7, <2>2, <2>5 DEF Promise!Next, PromInv, Allowed
<1> QED
  BY <1>9, <1>10

-----------------------------------------------------------------------------
(* The other steps, and the theorem. *)

\* A step that keeps what is known and asked of the hosts is not seen.
LEMMA QuietPromise ==
  ASSUME IInv, PromInv, SameStages, (pc = "done") = (pc' = "done"),
         UNCHANGED <<toclock, targetVars, probes_outstanding, probe_bench,
                     retry_stack, next_portidx>>
  PROVE  PromInv' /\ Allowed
<1>1. UNCHANGED <<flags, result, max_successful_tryno, scantype, incompleteHosts>>
  BY DEF targetVars, SameStages
<1>2. CoverInv'
  BY <1>1, CoverSame DEF PromInv
<1>3. ClockInv'
  BY <1>1, ClockKept DEF PromInv, ClockInv
<1> QED
  BY <1>1, <1>2, <1>3, UnseenStep DEF PromInv, Allowed

\* ultra_scan() returns when no host is incomplete, and goes on otherwise.
LEMMA ReturnPromise ==
  ASSUME IInv, PromInv, SameStages, UNCHANGED <<toclock, targetVars>>,
         pc # "done", pc' = "done" <=> incompleteHosts = {}
  PROVE  Allowed
<1>1. UNCHANGED <<flags, result, max_successful_tryno>>
  BY DEF targetVars
<1>2. CASE incompleteHosts = {}
  <2>1. \A g \in Hosts : Stage(g) # "scanning"
    BY <1>2 DEF Stage
  <2>2. Promise!Return
    BY <1>1, <1>2, <2>1, StagesKept DEF Promise!Return
  <2> QED
    BY <2>2 DEF Promise!Next, Allowed
<1>3. CASE incompleteHosts # {}
  BY <1>1, <1>3, UnseenStep DEF Allowed
<1> QED
  BY <1>2, <1>3

\* The end of removeCompletedHosts() keeps the promise.
LEMMA EndRemovingPromise ==
  ASSUME IInv, PromInv, EndRemoving
  PROVE  PromInv' /\ Allowed
<1>1. /\ SameStages
      /\ UNCHANGED <<toclock, targetVars, flags, result, scantype, incompleteHosts,
                     probes_outstanding, probe_bench, retry_stack, next_portidx>>
  BY DEF EndRemoving, SameStages, groupVars, probeVars, benchVars, sentVars, targetVars
<1>2. CASE pc = "remove2"
  <2>1. pc' = "globalping"
    BY <1>2 DEF EndRemoving
  <2> QED
    BY <1>1, <1>2, <2>1, QuietPromise
<1>3. CASE pc = "remove1"
  <2>1. pc' = "done" <=> incompleteHosts = {}
    BY <1>3 DEF EndRemoving
  <2>2. Allowed
    BY <1>1, <1>3, <2>1, ReturnPromise
  <2>3. PromInv'
    BY <1>1, CoverSame, ClockKept DEF PromInv, ClockInv
  <2> QED
    BY <2>2, <2>3
<1> QED
  BY <1>2, <1>3 DEF EndRemoving, Removing

\* Expired pings of the ping host keep the promise.
LEMMA ExpirePromise ==
  ASSUME IInv, GroupInv, PromInv, NEW late, ExpireGlobalPings(late)
  PROVE  PromInv' /\ Allowed
<1>1. PICK h : h = pinghost
  OBVIOUS
<1>2. /\ SameStages /\ pc = "globalping"
      /\ pc' = IF incompleteHosts = {} THEN "done" ELSE "pings"
      /\ UNCHANGED <<toclock, targetVars, flags, result, scantype, incompleteHosts,
                     probe_bench, retry_stack, next_portidx>>
  BY DEF ExpireGlobalPings, SameStages, groupVars, benchVars, sentVars, targetVars
<1>3. h \notin incompleteHosts
  BY <1>1, IInvParts, ConstantsAssumption DEF GroupInv, GroupTypes, NoHost, Hosts
<1>4. \A g \in Hosts : g # h => probes_outstanding'[g] = probes_outstanding[g]
  BY <1>1, IInvParts DEF ExpireGlobalPings, Destroy, SetProbes, ProbeTypes, probeVars
<1>5. CoverInv'
  BY <1>2, <1>3, <1>4, CoverKept, IInvParts DEF PromInv, GroupTypes
<1>6. ClockInv'
  BY <1>2, ClockKept DEF PromInv, ClockInv
<1>7. Allowed
  BY <1>2, ReturnPromise
<1> QED
  BY <1>5, <1>6, <1>7 DEF PromInv

\* The time of a host runs out while it is incomplete.
LEMMA ClockExpiresPromise ==
  ASSUME IInv, PromInv, NEW h \in Hosts, ClockExpires(h)
  PROVE  PromInv' /\ Allowed
<1>1. h \in incompleteHosts /\ ~ping_scan
  BY DEF ClockExpires, PromInv, ClockInv
<1>2. /\ UNCHANGED <<pc, scantype, incompleteHosts, completedHosts, flags, result,
                     max_successful_tryno, probes_outstanding, probe_bench,
                     retry_stack, next_portidx>>
      /\ \A g \in Hosts : toclock'[g] = IF g = h THEN "expired" ELSE toclock[g]
  BY IInvParts DEF ClockExpires, ClockTypes, loopVars, groupVars, probeVars, benchVars,
                   sentVars, targetVars
<1>3. SameStages
  BY <1>1, <1>2 DEF SameStages
<1>4. ping_scan' = ping_scan
  BY <1>2 DEF ping_scan
<1>5. ClockInv'
  BY <1>1, <1>2, <1>4 DEF PromInv, ClockInv
<1>6. CoverInv'
  BY <1>2, CoverSame DEF PromInv
<1> QED
  BY <1>2, <1>3, <1>5, <1>6, UnseenStep DEF PromInv, Allowed

\* Every step of the loop keeps the invariant and is one the promise allows.
LEMMA NextPromise ==
  ASSUME IInv, CInv, GroupInv, PromInv, [Next]_vars
  PROVE  PromInv' /\ Allowed
<1>1. CASE \/ EndPings \/ EndRetransmits \/ EndRetries \/ EndNewProbes \/ EndWait
           \/ SkipHost("retry") \/ SkipHost("new") \/ StartRemoving \/ EndProcess
  <2>1. (pc = "done") = (pc' = "done")
    BY <1>1 DEF EndPings, EndRetransmits, EndRetries, StartRound, EndNewProbes, EndWait,
                SkipHost, InRound, StartRemoving, Purging, EndProcess
  <2>2. UNCHANGED <<scantype, incompleteHosts, completedHosts, toclock, probeVars,
                    benchVars, sentVars, targetVars>>
    BY <1>1 DEF EndPings, EndRetransmits, EndRetries, StartRound, EndNewProbes, EndWait,
                SkipHost, StartRemoving, EndProcess, groupVars
  <2> QED
    BY <2>1, <2>2, QuietPromise DEF SameStages, probeVars, benchVars, sentVars
<1>2. ASSUME NEW h \in Hosts, NEW p, RateLimitWait(h, p) \/ RateLimitWaitOver(h)
      PROVE  PromInv' /\ Allowed
  <2>1. UNCHANGED <<pc, scantype, incompleteHosts, completedHosts, toclock, probeVars,
                    benchVars, sentVars, targetVars>>
    BY <1>2 DEF RateLimitWait, RateLimitWaitOver, groupVars, loopVars
  <2> QED
    BY <2>1, QuietPromise DEF SameStages, probeVars, benchVars, sentVars
<1>3. CASE Done \/ UNCHANGED vars
  <2>1. UNCHANGED <<loopVars, groupVars, probeVars, benchVars, sentVars, targetVars,
                    toclock, scantype>>
    BY <1>3 DEF Done, vars
  <2> QED
    BY <2>1, QuietPromise DEF SameStages, loopVars, groupVars, probeVars, benchVars, sentVars
<1>4. ASSUME NEW h \in Hosts,
             HostPing(h) \/ ClockExpires(h) \/ Purge(h) \/ ArpResultNoProbe(h)
      PROVE  PromInv' /\ Allowed
  BY <1>4, HostPingPromise, ClockExpiresPromise, PurgePromise, NoProbePromise
<1>5. ASSUME NEW h \in Hosts, NEW p \in probes_outstanding[h],
             Retransmit(h, p) \/ RetransmitFreed(h, p)
      PROVE  PromInv' /\ Allowed
  BY <1>5, RetransmitPromise
<1>6. ASSUME NEW h \in Hosts, NEW p \in probes_outstanding[h],
             PortResult(h, p) \/ PingResult(h, p) \/ ArpResult(h, p)
               \/ ConnectTimedOut(h, p)
      PROVE  PromInv' /\ Allowed
  BY <1>6, PortResultPromise, DiscoveryPromise, TimedOutPromise
<1>7. CASE GlobalPing \/ RetryProbe \/ NewProbe \/ RemoveIfDone \/ EndRemoving
  BY <1>7, GlobalPingPromise, RetryProbePromise, NewProbePromise, RetirePromise,
     EndRemovingPromise
<1>8. ASSUME NEW late, NEW old, ProcessHost(late, old) PROVE PromInv' /\ Allowed
  BY <1>8, ProcessHostPromise
<1>9. ASSUME NEW late, ExpireGlobalPings(late) PROVE PromInv' /\ Allowed
  BY <1>9, ExpirePromise
<1> QED
  BY <1>1, <1>2, <1>3, <1>4, <1>5, <1>6, <1>7, <1>8, <1>9 DEF Next

\* The initial states of the engine are initial states of the promise.
LEMMA InitPromise ==
  ASSUME Init
  PROVE  PromInv /\ Promise!Init
<1>1. CoverInv
  <2>1. \A port \in Ports : ~(port <= 0)
    BY DEF Ports
  <2>2. incompleteHosts \subseteq Hosts
    BY DEF Init
  <2> QED
    BY <2>1, <2>2 DEF Init, CoverInv, NoneLost
<1>2. ClockInv
  BY DEF Init, ClockInv
<1>3. \A g \in Hosts : Stage(g) = IF g \in incompleteHosts THEN "scanning" ELSE "forgotten"
  BY DEF Init, Stage
<1>4. (pc = "done") = (incompleteHosts = {})
  BY DEF Init
<1>5. incompleteHosts \subseteq Hosts
  BY DEF Init
<1>6. ping_scan => \A g \in Hosts : g \in incompleteHosts
  BY DEF Init
<1>7. Promise!Init
  <2>1. ping_scan \in BOOLEAN
    BY DEF ping_scan
  <2>2. [g \in Hosts |-> Stage(g)] \in [Hosts -> {"scanning", "forgotten"}]
    BY <1>3
  <2>3. (pc = "done") = \A g \in Hosts : [f \in Hosts |-> Stage(f)][g] # "scanning"
    BY <1>3, <1>4, <1>5
  <2> QED
    BY <1>3, <1>6, <2>1, <2>2, <2>3
       DEF Init, Promise!Init, Promise!Nothing, Unknown
<1> QED
  BY <1>1, <1>2, <1>7 DEF PromInv

\* ultra_scan() keeps its promise: whatever the network and the clocks do, and
\* for any number of hosts, ports and tries, what its callers see is a run of
\* ScanPromise.
THEOREM PromiseKept == Spec => KeepsPromise
<1> DEFINE Inv == IInv /\ CInv /\ GroupInv /\ PromInv
<1>1. Init => PromInv /\ Promise!Init
  BY InitPromise
<1>2. Inv /\ [Next]_vars => PromInv' /\ [Promise!Next]_(Promise!vars)
  BY NextPromise DEF Allowed
<1> QED
  BY <1>1, <1>2, GroupInductive, PTL DEF Spec, KeepsPromise, Promise!Spec

=============================================================================
