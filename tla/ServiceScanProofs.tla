--------------------------- MODULE ServiceScanProofs ---------------------------
(***************************************************************************)
(* Theorems about version detection, for any group of services, any probes *)
(* and match lines, any intensity and any parallelism.                     *)
(***************************************************************************)
EXTENDS ServiceScan, FiniteSetTheorems, TLAPS

--------------------------------------------------------------------------------
(* Constants.                                                               *)

\* A set of natural numbers that is not empty has a least element.
LEMMA LeastNat ==
  ASSUME NEW S \in SUBSET Nat, S # {}
  PROVE  Least(S) \in S /\ \A m \in S : Least(S) <= m
<1>1. PICK n \in S : \A m \in S : ~ (<<m, n>> \in OpToRel(<, Nat))
  BY WFMin, NatLessThanWellFounded, Zenon
<1>2. \A m \in S : ~ (m < n)
  BY <1>1, Zenon DEF OpToRel
<1>3. \A m \in S : n <= m
  BY <1>2
<1> QED
  BY <1>3 DEF Least

\* The types of the constants.
LEMMA ConstantType ==
  /\ NumHosts \in Nat \ {0} /\ Intensity \in Nat /\ Parallelism \in Nat \ {0}
  /\ MaxResp \in Nat /\ 0 \in 0 .. MaxResp
  BY ConstantsAssumption

\* Services are numbers and belong to hosts.
LEMMA ServiceType ==
  /\ Services \subseteq Nat /\ 0 \notin Services
  /\ \A i \in Services : Service[i].host \in Hosts /\ Service[i].host \in Nat
                         /\ Service[i].host <= NumHosts /\ Service[i].open \in BOOLEAN
<1> DEFINE R == [host : Hosts, proto : {"tcp", "udp", "sctp"}, port : Nat, open : BOOLEAN]
<1>1. Service \in Seq(R)
  BY ServiceAssumption
<1>2. Services = 1 .. Len(Service) /\ Len(Service) \in Nat /\ \A i \in Services : Service[i] \in R
  <2> HIDE DEF R
  <2> QED
    BY <1>1 DEF Services
<1>3. \A i \in Services : Service[i].host \in Hosts /\ Service[i].open \in BOOLEAN
  BY <1>2
<1> HIDE DEF R
<1> QED
  BY <1>2, <1>3, ConstantsAssumption DEF Hosts

\* Probes are numbers and fall back on probes.
LEMMA ProbeType ==
  /\ ProbeNums \subseteq Nat /\ NullProbe \notin ProbeNums /\ NullProbe \in Nat
  /\ \A p \in ProbeNums : Probes[p].rarity \in Nat /\ Probes[p].fallback \subseteq ProbeNums
<1> DEFINE R == [proto : {"tcp", "udp"}, ports : SUBSET Nat, sslports : SUBSET Nat,
                 rarity : 1 .. 9, services : SUBSET STRING, fallback : SUBSET Nat,
                 notForPayload : BOOLEAN]
<1>1. Probes \in Seq(R) /\ \A p \in ProbeNums : Probes[p].fallback \subseteq ProbeNums
  BY ProbesAssumption
<1>2. ProbeNums = 1 .. Len(Probes) /\ Len(Probes) \in Nat /\ \A p \in ProbeNums : Probes[p] \in R
  <2> HIDE DEF R
  <2> QED
    BY <1>1 DEF ProbeNums
<1>3. \A p \in ProbeNums : Probes[p].rarity \in 1 .. 9
  BY <1>2
<1> HIDE DEF R
<1> QED
  BY <1>1, <1>2, <1>3 DEF NullProbe

\* A match names a service that the probes know.
LEMMA MatchType ==
  ASSUME NEW ps \in SUBSET (ProbeNums \cup {NullProbe}), NEW md \in Matches(ps) \cup {NoMatch}
  PROVE  md.name \in Names \cup {None} /\ md.isSoft \in BOOLEAN
<1>1. CASE md = NoMatch
  BY <1>1 DEF NoMatch
<1>2. CASE md \in Matches(ps)
  <2>1. /\ md.isSoft \in BOOLEAN
        /\ \E q \in ps : \E p \in fallbacks(q) : md.name \in detectedServices(p)
    BY <1>2 DEF Matches
  <2>2. PICK q \in ps : \E p \in fallbacks(q) : md.name \in detectedServices(p)
    BY <2>1
  <2>3. PICK p \in fallbacks(q) : md.name \in detectedServices(p)
    BY <2>2
  <2>4. p \in ProbeNums \cup {NullProbe}
    BY <2>3, ProbeType DEF fallbacks
  <2> QED
    BY <2>1, <2>3, <2>4 DEF detectedServices, Names
<1> QED
  BY <1>1, <1>2

--------------------------------------------------------------------------------
(* What the operations do to a ServiceNFO.                                  *)

\* A ServiceNFO with its connection.
NFO ==
  [state : {"INITIAL"} \cup Working \cup Verdicts, probe : ProbeNums \cup {NullProbe},
   ssl : BOOLEAN, soft : BOOLEAN, matched : Names \cup {None}, wrap : BOOLEAN,
   resp : 0 .. MaxResp, open : BOOLEAN, iod : BOOLEAN,
   pending : SUBSET {"connect", "read", "write"}, eof : BOOLEAN,
   tried : SUBSET (BOOLEAN \X (ProbeNums \cup {NullProbe}))]

\* Probe p may be sent to service i; it was begun in the tunnel r is in; it is one
\* that must be begun before the service is given up.
Suits(i, p) == Probes[p].proto = Service[i].proto
Probable(i, r, p) == portIsProbable(p, r.ssl, Service[i].port)
Begun(r, p) == <<r.ssl, p>> \in r.tried

\* How far r has come with the probes, as long as no soft match narrows them down.
Progress(i, r) ==
  /\ r.state = "NULLPROBE" => r.probe = NullProbe
  /\ r.state = "MATCHINGPROBES" /\ ~r.soft =>
       \A p \in ProbeNums : Suits(i, p) /\ Probable(i, r, p) /\ p <= r.probe => Begun(r, p)
  /\ r.state = "NONMATCHINGPROBES" /\ ~r.soft =>
       \A p \in ProbeNums : Suits(i, p) =>
         /\ Probable(i, r, p) => Begun(r, p)
         /\ Probes[p].rarity <= Intensity /\ p <= r.probe => Begun(r, p)
  /\ r.state = "NOMATCH" =>
       \A p \in ProbeNums : Suits(i, p) /\ (Probable(i, r, p) \/ Probes[p].rarity <= Intensity)
                              => Begun(r, p)

\* nextProbe() begins the next probe, or ends with every probe begun.
LEMMA NextProbeStep ==
  ASSUME NEW i \in Services, NEW r \in NFO, NEW newresp \in BOOLEAN, Progress(i, r),
         r.state \in {"INITIAL"} \cup Working
  PROVE  LET q == nextProbe(i, r, newresp) IN
         /\ q \in NFO /\ Progress(i, q)
         /\ q.pending = r.pending /\ q.eof = r.eof /\ q.ssl = r.ssl
         /\ q.state \in Working \cup {"SOFTMATCHED", "NOMATCH"}
         /\ q.state = "NULLPROBE" => r.state = "INITIAL"
<1> DEFINE possible(p) == Intensity >= 9 \/ r.matched \in Probes[p].services
           matching == {p \in ProbeNums :
             /\ Suits(i, p) /\ Probable(i, r, p)
             /\ ~r.soft \/ possible(p)
             /\ \/ r.state \in {"INITIAL", "NULLPROBE"}
                \/ r.state = "MATCHINGPROBES" /\ Ahead(p, r)}
           nonmatching == {p \in ProbeNums :
             /\ Suits(i, p) /\ ~Probable(i, r, p)
             /\ IF r.soft THEN possible(p) ELSE Probes[p].rarity <= Intensity
             /\ r.state = "NONMATCHINGPROBES" => Ahead(p, r)}
           resp == IF newresp THEN 0 ELSE r.resp
           begin(state, p) ==
             [r EXCEPT !.state = state, !.probe = p, !.resp = resp,
                       !.tried = r.tried \cup {<<r.ssl, p>>}]
           end == IF r.soft THEN "SOFTMATCHED" ELSE "NOMATCH"
           over == [r EXCEPT !.state = end, !.resp = resp]
           q == nextProbe(i, r, newresp)
<1> SUFFICES /\ q \in NFO /\ Progress(i, q)
             /\ q.pending = r.pending /\ q.eof = r.eof /\ q.ssl = r.ssl
             /\ q.state \in Working \cup {"SOFTMATCHED", "NOMATCH"}
             /\ q.state = "NULLPROBE" => r.state = "INITIAL"
  OBVIOUS
<1>0. resp \in 0 .. MaxResp /\ end \in Verdicts
  BY ConstantsAssumption DEF NFO, Verdicts
<1>1. q = IF r.state = "INITIAL" /\ Service[i].proto = "tcp" THEN begin("NULLPROBE", NullProbe)
          ELSE IF matching # {} THEN begin("MATCHINGPROBES", Least(matching))
          ELSE IF nonmatching # {} THEN begin("NONMATCHINGPROBES", Least(nonmatching))
          ELSE over
  BY DEF nextProbe, Suits, Probable
<1>2. ASSUME NEW state \in Working, NEW p \in ProbeNums \cup {NullProbe}
      PROVE  LET b == begin(state, p) IN
             /\ b \in NFO /\ b.pending = r.pending /\ b.state = state /\ b.probe = p
             /\ b.eof = r.eof
             /\ b.ssl = r.ssl /\ b.soft = r.soft /\ b.tried = r.tried \cup {<<r.ssl, p>>}
  <2> DEFINE t == r.tried \cup {<<r.ssl, p>>}
  <2>1. t \in SUBSET (BOOLEAN \X (ProbeNums \cup {NullProbe}))
    BY DEF NFO
  <2> HIDE DEF resp, t
  <2>2. LET b == [r EXCEPT !.state = state, !.probe = p, !.resp = resp, !.tried = t] IN
        /\ b \in NFO /\ b.pending = r.pending /\ b.state = state /\ b.probe = p
        /\ b.eof = r.eof
        /\ b.ssl = r.ssl /\ b.soft = r.soft /\ b.tried = t
    BY <1>0, <2>1 DEF NFO
  <2> QED
    BY <2>2 DEF t
<1>3. /\ over \in NFO /\ over.pending = r.pending /\ over.ssl = r.ssl /\ over.tried = r.tried
      /\ over.eof = r.eof
      /\ over.state = end
  <2> HIDE DEF resp, end
  <2> QED
    BY <1>0 DEF NFO
<1>4. /\ matching \in SUBSET Nat /\ nonmatching \in SUBSET Nat
      /\ matching \subseteq ProbeNums /\ nonmatching \subseteq ProbeNums /\ ProbeNums \subseteq Nat
      /\ r.probe \in Nat /\ Intensity \in Nat
      /\ \A p \in ProbeNums : Probes[p].rarity \in Nat
  <2>1. matching \subseteq ProbeNums /\ nonmatching \subseteq ProbeNums
    OBVIOUS
  <2> HIDE DEF matching, nonmatching
  <2>2. r.probe \in ProbeNums \cup {NullProbe}
    BY DEF NFO
  <2> QED
    BY <2>1, <2>2, ProbeType, ConstantType
<1>5. ASSUME ~(r.state = "INITIAL" /\ Service[i].proto = "tcp"), matching = {}, ~r.soft
      PROVE  \A p \in ProbeNums : Suits(i, p) /\ Probable(i, r, p) => Begun(r, p)
  <2> SUFFICES ASSUME NEW p \in ProbeNums, Suits(i, p), Probable(i, r, p) PROVE Begun(r, p)
    OBVIOUS
  <2>1. /\ r.state \notin {"INITIAL", "NULLPROBE"}
        /\ r.state = "MATCHINGPROBES" => ~ (p > r.probe)
    BY <1>5 DEF Ahead
  <2>2. CASE r.state = "MATCHINGPROBES"
    BY <1>4, <1>5, <2>1, <2>2 DEF Progress
  <2>3. CASE r.state = "NONMATCHINGPROBES"
    BY <1>5, <2>3 DEF Progress
  <2>4. r.state \in {"INITIAL", "NULLPROBE", "MATCHINGPROBES", "NONMATCHINGPROBES"}
    BY DEF Working
  <2>5. r.state = "MATCHINGPROBES" \/ r.state = "NONMATCHINGPROBES"
    BY <2>1, <2>4
  <2> QED
    BY <2>2, <2>3, <2>5
<1>6. CASE r.state = "INITIAL" /\ Service[i].proto = "tcp"
  <2>1. q = begin("NULLPROBE", NullProbe)
    BY <1>1, <1>6
  <2>2. NullProbe \in ProbeNums \cup {NullProbe} /\ "NULLPROBE" \in Working
    BY DEF Working
  <2> HIDE DEF q, begin
  <2> QED
    BY <1>2, <1>6, <2>1, <2>2 DEF Progress
<1>7. CASE ~(r.state = "INITIAL" /\ Service[i].proto = "tcp") /\ matching # {}
  <2> DEFINE n == Least(matching)
  <2>1. n \in matching /\ \A p \in matching : n <= p
    <3> HIDE DEF matching
    <3> QED
      BY <1>4, <1>7, LeastNat
  <2>2. q = begin("MATCHINGPROBES", n)
    BY <1>1, <1>7
  <2>3. /\ q \in NFO /\ q.pending = r.pending /\ q.state = "MATCHINGPROBES" /\ q.probe = n
        /\ q.eof = r.eof
        /\ q.ssl = r.ssl /\ q.soft = r.soft /\ q.tried = r.tried \cup {<<r.ssl, n>>}
    <3> HIDE DEF q, begin, n
    <3> QED
      BY <1>2, <1>4, <2>1, <2>2 DEF Working
  <2>4. ASSUME ~r.soft, NEW p \in ProbeNums, Suits(i, p), Probable(i, r, p), p <= n
        PROVE  p = n \/ Begun(r, p)
    <3>1. CASE p \in matching
      BY <1>4, <2>1, <2>4, <3>1
    <3>2. CASE p \notin matching
      <4>1. r.state = "MATCHINGPROBES" /\ ~ (p > r.probe)
        BY <2>1, <2>4, <3>2 DEF Ahead
      <4> QED
        BY <1>4, <2>4, <4>1 DEF Progress
    <3> QED
      BY <3>1, <3>2
  <2>5. Progress(i, q)
    <3> HIDE DEF q, n, matching
    <3> QED
      BY <2>3, <2>4 DEF Progress, Probable, Begun
  <2> HIDE DEF q
  <2> QED
    BY <2>3, <2>5 DEF Working
<1>8. CASE ~(r.state = "INITIAL" /\ Service[i].proto = "tcp") /\ matching = {} /\ nonmatching # {}
  <2> DEFINE n == Least(nonmatching)
  <2>1. n \in nonmatching /\ \A p \in nonmatching : n <= p
    <3> HIDE DEF nonmatching
    <3> QED
      BY <1>4, <1>8, LeastNat
  <2>2. q = begin("NONMATCHINGPROBES", n)
    BY <1>1, <1>8
  <2>3. /\ q \in NFO /\ q.pending = r.pending /\ q.state = "NONMATCHINGPROBES" /\ q.probe = n
        /\ q.eof = r.eof
        /\ q.ssl = r.ssl /\ q.soft = r.soft /\ q.tried = r.tried \cup {<<r.ssl, n>>}
    <3> HIDE DEF q, begin, n
    <3> QED
      BY <1>2, <1>4, <2>1, <2>2 DEF Working
  <2>4. ASSUME ~r.soft, NEW p \in ProbeNums, Suits(i, p), ~Probable(i, r, p),
               Probes[p].rarity <= Intensity, p <= n
        PROVE  p = n \/ Begun(r, p)
    <3>1. CASE p \in nonmatching
      BY <1>4, <2>1, <2>4, <3>1
    <3>2. CASE p \notin nonmatching
      <4>1. r.state = "NONMATCHINGPROBES" /\ ~ (p > r.probe)
        BY <2>4, <3>2 DEF Ahead
      <4> QED
        BY <1>4, <2>4, <4>1 DEF Progress
    <3> QED
      BY <3>1, <3>2
  <2>5. Progress(i, q)
    <3> HIDE DEF q, n, nonmatching, matching
    <3>1. ~r.soft => \A p \in ProbeNums : Suits(i, p) /\ Probable(i, r, p) => Begun(r, p)
      BY <1>5, <1>8
    <3> QED
      BY <2>3, <2>4, <3>1 DEF Progress, Probable, Begun
  <2> HIDE DEF q
  <2> QED
    BY <2>3, <2>5 DEF Working
<1>9. CASE ~(r.state = "INITIAL" /\ Service[i].proto = "tcp") /\ matching = {} /\ nonmatching = {}
  <2>1. q = over
    BY <1>1, <1>9
  <2>2. ASSUME ~r.soft, NEW p \in ProbeNums, Suits(i, p), ~Probable(i, r, p),
               Probes[p].rarity <= Intensity
        PROVE  Begun(r, p)
    <3>1. r.state = "NONMATCHINGPROBES" /\ ~ (p > r.probe)
      BY <1>9, <2>2 DEF Ahead
    <3> QED
      BY <1>4, <2>2, <3>1 DEF Progress
  <2>3. Progress(i, q)
    <3> HIDE DEF q, over, nonmatching, matching
    <3>1. ~r.soft => \A p \in ProbeNums : Suits(i, p) /\ Probable(i, r, p) => Begun(r, p)
      BY <1>5, <1>9
    <3> QED
      BY <1>3, <2>1, <2>2, <3>1 DEF Progress, Probable, Begun
  <2> HIDE DEF q, over
  <2> QED
    BY <1>3, <2>1, <2>3 DEF Working
<1> HIDE DEF q, matching, nonmatching
<1> QED
  BY <1>6, <1>7, <1>8, <1>9 DEF q

\* Progress depends on these fields only.
LEMMA SameProbes ==
  ASSUME NEW i \in Services, NEW r, NEW q, Progress(i, r),
         q.state = r.state, q.probe = r.probe, q.ssl = r.ssl, q.soft = r.soft,
         q.tried = r.tried
  PROVE  Progress(i, q)
  BY DEF Progress, Probable, Begun

\* A request is made, or taken off.
LEMMA RequestStep ==
  ASSUME NEW i \in Services, NEW r \in NFO, NEW P \in SUBSET {"connect", "read", "write"}
  PROVE  LET q == [r EXCEPT !.pending = P] IN
         /\ q \in NFO /\ q.pending = P /\ q.state = r.state /\ q.probe = r.probe
         /\ q.eof = r.eof /\ (Progress(i, r) => Progress(i, q))
<1> DEFINE q == [r EXCEPT !.pending = P]
<1>1. /\ q \in NFO /\ q.pending = P /\ q.state = r.state /\ q.probe = r.probe /\ q.eof = r.eof
      /\ q.ssl = r.ssl /\ q.soft = r.soft /\ q.tried = r.tried
  BY DEF NFO
<1> HIDE DEF q
<1>2. Progress(i, r) => Progress(i, q)
  BY <1>1, SameProbes
<1> QED
  BY <1>1, <1>2 DEF q

\* nsock_iod_delete() takes the requests away and nothing else that matters here.
LEMMA DeleteStep ==
  ASSUME NEW i \in Services, NEW r \in NFO
  PROVE  LET q == nsock_iod_delete(r) IN
         /\ q \in NFO /\ q.pending = {} /\ q.state = r.state
         /\ Progress(i, r) => Progress(i, q)
<1> DEFINE q == nsock_iod_delete(r)
<1>1. /\ q \in NFO /\ q.pending = {} /\ q.state = r.state /\ q.probe = r.probe
      /\ q.ssl = r.ssl /\ q.soft = r.soft /\ q.tried = r.tried
  BY DEF nsock_iod_delete, NFO
<1> HIDE DEF q
<1>2. Progress(i, r) => Progress(i, q)
  BY <1>1 DEF Progress, Probable, Begun
<1> QED
  BY <1>1, <1>2 DEF q

\* processMatch() keeps the probes; a soft match that replaces none only makes the
\* service one with a soft match.
LEMMA MatchStep ==
  ASSUME NEW i \in Services, NEW r \in NFO, NEW md, md.name \in Names \cup {None},
         md.isSoft \in BOOLEAN
  PROVE  LET q == processMatch(r, md) IN
         /\ q \in NFO /\ q.pending = r.pending /\ q.state = r.state /\ q.eof = r.eof
         /\ q.ssl = r.ssl
         /\ Progress(i, r) /\ ~IsHardMatch(md) => Progress(i, q)
<1> DEFINE q == processMatch(r, md)
<1>1. /\ q \in NFO /\ q.pending = r.pending /\ q.state = r.state /\ q.probe = r.probe
      /\ q.ssl = r.ssl /\ q.tried = r.tried /\ q.eof = r.eof
      /\ ~IsHardMatch(md) => q.soft = r.soft \/ q.soft
  <2>1. CASE md.name = None \/ (md.isSoft /\ r.matched # None)
    BY <2>1 DEF processMatch
  <2>2. CASE ~(md.name = None \/ (md.isSoft /\ r.matched # None))
    <3> PICK m \in Names \cup {None}, b \in BOOLEAN : m = md.name /\ b = md.isSoft
      OBVIOUS
    <3>1. q = [r EXCEPT !.matched = m, !.wrap = FALSE, !.soft = b]
      BY <2>2 DEF processMatch
    <3>2. ~IsHardMatch(md) => b
      BY <2>2 DEF IsHardMatch
    <3> HIDE DEF q
    <3> QED
      BY <3>1, <3>2 DEF NFO
  <2> QED
    BY <2>1, <2>2
<1> HIDE DEF q
<1>2. Progress(i, r) /\ ~IsHardMatch(md) => Progress(i, q)
  BY <1>1 DEF Progress, Probable, Begun, NFO
<1> QED
  BY <1>1, <1>2 DEF q

\* scanThroughTunnel() keeps the requests, and begins anew if it starts over.
LEMMA TunnelStep ==
  ASSUME NEW i \in Services, NEW r \in NFO
  PROVE  LET q == scanThroughTunnel(r) IN
         /\ q \in NFO /\ q.pending = r.pending
         /\ StartsOver(r) => q.state = "INITIAL" /\ Progress(i, q)
<1> DEFINE q == scanThroughTunnel(r)
<1>1. r.matched \in DOMAIN Inner => Inner[r.matched] \in Names
  <2>1. r.matched \in DOMAIN Inner => Inner[r.matched] \in {Inner[n] : n \in DOMAIN Inner}
    OBVIOUS
  <2>2. {Inner[n] : n \in DOMAIN Inner} \subseteq Names
    BY DEF Names
  <2> QED
    BY <2>1, <2>2
<1>2. /\ q \in NFO /\ q.pending = r.pending
      /\ StartsOver(r) => q.state = "INITIAL"
  <2>1. CASE r.matched \in DOMAIN Inner
    <3>1. q = [r EXCEPT !.ssl = TRUE, !.matched = Inner[r.matched]]
      BY <2>1 DEF scanThroughTunnel
    <3>2. ~StartsOver(r)
      BY <2>1 DEF StartsOver
    <3> PICK m \in Names : m = Inner[r.matched]
      BY <1>1, <2>1
    <3>3. q = [r EXCEPT !.ssl = TRUE, !.matched = m]
      BY <3>1
    <3> HIDE DEF q
    <3> QED
      BY <3>2, <3>3 DEF NFO
  <2>2. CASE r.matched \notin DOMAIN Inner /\ StartsOver(r)
    <3>1. q = [r EXCEPT !.ssl = TRUE, !.matched = None, !.soft = FALSE,
                        !.state = "INITIAL", !.resp = 0]
      BY <2>2 DEF scanThroughTunnel
    <3> HIDE DEF q
    <3> QED
      BY <3>1, ConstantType DEF NFO
  <2>3. CASE r.matched \notin DOMAIN Inner /\ ~StartsOver(r)
    BY <2>3 DEF scanThroughTunnel
  <2> QED
    BY <2>1, <2>2, <2>3
<1> HIDE DEF q
<1>3. q.state = "INITIAL" => Progress(i, q)
  BY DEF Progress
<1> QED
  BY <1>2, <1>3 DEF q

\* The verdict on a service that has ended.
LEMMA VerdictStep ==
  ASSUME NEW i \in Services, NEW r \in NFO, NEW verdict \in Verdicts,
         verdict = "NOMATCH" => r.state = "NOMATCH" /\ Progress(i, r)
  PROVE  LET q == [r EXCEPT !.state = IF r.wrap THEN "TCPWRAPPED" ELSE verdict] IN
         q \in NFO /\ Progress(i, q) /\ q.pending = r.pending
<1> DEFINE q == [r EXCEPT !.state = IF r.wrap THEN "TCPWRAPPED" ELSE verdict]
<1>1. /\ q \in NFO /\ q.pending = r.pending /\ q.ssl = r.ssl /\ q.tried = r.tried
      /\ q.state = IF r.wrap THEN "TCPWRAPPED" ELSE verdict
  BY DEF NFO, Verdicts
<1> HIDE DEF q
<1>2. q.state \notin {"NULLPROBE", "MATCHINGPROBES", "NONMATCHINGPROBES"}
  BY <1>1 DEF Verdicts
<1>3. Progress(i, q)
  BY <1>1, <1>2 DEF Progress, Probable, Begun
<1> QED
  BY <1>1, <1>3 DEF q

--------------------------------------------------------------------------------
(* The inductive invariant.                                                 *)

\* The types that the proofs need.
Types ==
  /\ phase \in {"construct", "launch", "loop", "done"}
  /\ targetno \in 0 .. NumHosts
  /\ sync \in Services \cup {0}
  /\ timedout \in [Hosts -> BOOLEAN]

\* The lists, the ServiceNFOs and the clocks: a service is on one list at most, one
\* that has not ended is at a probe, and none has lost its way among the probes.
ListTypes ==
  /\ remaining \subseteq Services /\ in_progress \subseteq Services /\ finished \subseteq Services
  /\ remaining \cap in_progress = {}
  /\ (remaining \cup in_progress) \cap finished = {}
  /\ svc \in [Services -> NFO]
  /\ clock \in [Hosts -> BOOLEAN]
ProbesInv ==
  \A i \in Services : /\ Progress(i, svc[i])
                      /\ i \notin finished => svc[i].state \in {"INITIAL"} \cup Working

\* A connect is the only request of its service, a write is never alone and never
\* one of the NULL probe, and of the services that remain only the one being launched
\* has a request.
RequestKinds(r) ==
  /\ "connect" \in r.pending => r.pending = {"connect"}
  /\ "write" \in r.pending => "read" \in r.pending /\ r.state # "NULLPROBE"
RequestsInv ==
  /\ RequestsMatchLists
  /\ \A i \in Services : RequestKinds(svc[i])
  /\ sync \in remaining => svc[sync].pending = {"connect"}

CoreInv == ListTypes /\ ProbesInv /\ RequestsInv /\ ClockCoversWork

\* What holds in the phases of the scan: the constructor starts no clock, a target
\* that has not timed out has its services on the lists, and the loop waits only while
\* no more can be launched, unless a host has timed out: the write handler then
\* returns without launching anything.
SomeTimedOut == \E h \in Hosts : timedout[h]
PhaseInv ==
  /\ phase # "launch" => sync = 0
  /\ phase = "construct" => in_progress = {} /\ \A h \in Hosts : ~clock[h]
  /\ phase # "construct" => targetno = NumHosts
  /\ \A i \in remaining \cup in_progress \cup finished : Service[i].host <= targetno
  /\ \A i \in Services : Service[i].host <= targetno /\ ~timedout[Service[i].host] =>
                            i \in remaining \cup in_progress \cup finished
  /\ phase = "loop" => \/ remaining = {} \/ Cardinality(in_progress) >= Parallelism
                       \/ SomeTimedOut
  /\ phase = "done" => in_progress = {} /\ (remaining = {} \/ SomeTimedOut)

ServiceInv == Types /\ CoreInv /\ PhaseInv

\* The invariant holds before the first target is added.
LEMMA InitService == Init => ServiceInv
<1> SUFFICES ASSUME Init PROVE ServiceInv
  OBVIOUS
<1>1. ASSUME NEW i \in Services
      PROVE  /\ ServiceNFO(i) \in NFO /\ ServiceNFO(i).pending = {}
             /\ ServiceNFO(i).state = "INITIAL"
  BY <1>1, ConstantType, ServiceType DEF ServiceNFO, NFO
<1>2. svc = [i \in Services |-> ServiceNFO(i)]
  BY DEF Init
<1>3. /\ svc \in [Services -> NFO]
      /\ \A i \in Services : svc[i].pending = {} /\ svc[i].state = "INITIAL"
  BY <1>1, <1>2
<1>4. ListTypes
  BY <1>3 DEF Init, ListTypes
<1>5. ProbesInv
  BY <1>3 DEF ProbesInv, Progress
<1>6. RequestsInv
  BY <1>3, ServiceType DEF Init, RequestsInv, RequestsMatchLists, RequestKinds
<1>7. ClockCoversWork
  BY DEF Init, ClockCoversWork
<1>8. Types
  <2>1. timedout \in [Hosts -> BOOLEAN]
    BY DEF Init
  <2> QED
    BY <2>1, ConstantType DEF Init, Types
<1>9. PhaseInv
  BY ServiceType DEF Init, PhaseInv, Hosts
<1> QED
  BY <1>4, <1>5, <1>6, <1>7, <1>8, <1>9 DEF ServiceInv, CoreInv

\* How a step moves the services: forward, and none is lost.
Moved ==
  /\ remaining' \subseteq remaining /\ in_progress' \subseteq in_progress
  /\ remaining' \cup in_progress' \cup finished' = remaining \cup in_progress \cup finished

\* end_svcprobe() of a service that remains or is in progress, while no handler of
\* another service is due.
LEMMA EndStep ==
  ASSUME CoreInv, NEW i \in remaining \cup in_progress, NEW r \in NFO, r.pending = {},
         NEW verdict \in Verdicts, verdict = "NOMATCH" => r.state = "NOMATCH" /\ Progress(i, r),
         NEW running \in [Hosts -> BOOLEAN],
         \A h \in Hosts : (clock[h] => running[h]) /\ (running[h] = clock[h] \/ h = Service[i].host),
         EndWith(i, r, verdict, running), sync \in {0, i}, sync' = 0
  PROVE  /\ CoreInv' /\ Moved
         /\ \A h \in Hosts : clock'[h] => running[h]
<1> DEFINE q == [r EXCEPT !.state = IF r.wrap THEN "TCPWRAPPED" ELSE verdict]
           h == Service[i].host
           found == \E j \in in_progress' \cup remaining' : Service[j].host = h
<1>1. i \in Services /\ h \in Hosts /\ 0 \notin Services
  BY ServiceType DEF CoreInv, ListTypes
<1>2. q \in NFO /\ Progress(i, q) /\ q.pending = {}
  BY <1>1, VerdictStep
<1>3. svc' = [svc EXCEPT ![i] = q]
  BY DEF EndWith
<1> HIDE DEF q
<1>4. /\ svc' \in [Services -> NFO] /\ svc'[i] = q
      /\ \A j \in Services : j # i => svc'[j] = svc[j]
  BY <1>1, <1>2, <1>3 DEF CoreInv, ListTypes
<1>5. /\ remaining' = remaining \ {i} /\ in_progress' = in_progress \ {i}
      /\ finished' = finished \cup {i}
  BY DEF EndWith, CoreInv, ListTypes
<1>6. clock' = IF found THEN running ELSE [running EXCEPT ![h] = FALSE]
  BY DEF EndWith, handleHostIfDone, HostDone
<1>7. ListTypes'
  BY <1>1, <1>4, <1>5, <1>6 DEF CoreInv, ListTypes
<1>8. ProbesInv'
  BY <1>2, <1>4, <1>5 DEF CoreInv, ProbesInv
<1>9. RequestsInv'
  <2>1. ASSUME NEW j \in Services
        PROVE  /\ svc'[j].pending # {} <=>
                    (j \in in_progress' \/ (j = sync' /\ j \in remaining'))
               /\ RequestKinds(svc'[j])
    <3>1. CASE j = i
      BY <1>1, <1>2, <1>4, <1>5, <3>1 DEF RequestKinds
    <3>2. CASE j # i
      BY <1>1, <1>4, <1>5, <3>2 DEF CoreInv, RequestsInv, RequestsMatchLists
    <3> QED
      BY <3>1, <3>2
  <2>2. sync' \notin remaining'
    BY <1>1, <1>5 DEF CoreInv, ListTypes
  <2> QED
    BY <2>1, <2>2 DEF RequestsInv, RequestsMatchLists
<1>10. ClockCoversWork'
  <2>1. ASSUME NEW j \in in_progress' PROVE clock'[Service[j].host]
    <3>1. j \in in_progress /\ j \in Services /\ clock[Service[j].host] /\ Service[j].host \in Hosts
      BY <1>5, ServiceType DEF CoreInv, ListTypes, ClockCoversWork
    <3>2. running[Service[j].host]
      BY <3>1
    <3>3. Service[j].host = h => found
      OBVIOUS
    <3> HIDE DEF found, h
    <3> QED
      BY <1>1, <1>6, <3>1, <3>2, <3>3
  <2>2. ASSUME NEW g \in Hosts, clock'[g] PROVE Unfinished(g)' # {}
    <3>1. CASE g = h
      <4>1. found
        BY <1>1, <1>6, <2>2, <3>1
      <4> QED
        BY <3>1, <4>1 DEF Unfinished
    <3>2. CASE g # h
      <4>1. clock[g]
        <5> HIDE DEF found, h
        <5>1. running[g]
          BY <1>1, <1>6, <2>2, <3>2
        <5> QED
          BY <3>2, <5>1 DEF h
      <4>2. Unfinished(g) # {}
        BY <4>1 DEF CoreInv, ClockCoversWork
      <4>3. Unfinished(g) \subseteq Unfinished(g)'
        BY <1>5, <3>2 DEF Unfinished
      <4> QED
        BY <4>2, <4>3
    <3> QED
      BY <3>1, <3>2
  <2> QED
    BY <2>1, <2>2 DEF ClockCoversWork
<1>11. Moved
  BY <1>5 DEF Moved
<1> QED
  BY <1>6, <1>7, <1>8, <1>9, <1>10, <1>11 DEF CoreInv

\* A service on the lists goes on, and no handler of another one is due.
LEMMA ProceedStep ==
  ASSUME CoreInv, NEW i \in remaining \cup in_progress, NEW r \in NFO, Progress(i, r),
         r.state \in {"INITIAL"} \cup Working, RequestKinds(r),
         r.pending # {} <=> i \in in_progress,
         Proceed(i, r), UNCHANGED lists, sync \in {0, i}, sync' \in {0, i},
         i \in remaining => sync' = 0
  PROVE  CoreInv' /\ Moved /\ clock' = clock
<1>1. i \in Services /\ 0 \notin Services
  BY ServiceType DEF CoreInv, ListTypes
<1>2. svc' = [svc EXCEPT ![i] = r] /\ clock' = clock
      /\ remaining' = remaining /\ in_progress' = in_progress /\ finished' = finished
  BY DEF Proceed, lists
<1>3. /\ svc' \in [Services -> NFO] /\ svc'[i] = r
      /\ \A j \in Services : j # i => svc'[j] = svc[j]
  BY <1>1, <1>2 DEF CoreInv, ListTypes
<1>4. ListTypes'
  BY <1>2, <1>3 DEF CoreInv, ListTypes
<1>5. ProbesInv'
  BY <1>2, <1>3 DEF CoreInv, ProbesInv
<1>6. RequestsInv'
  <2>1. ASSUME NEW j \in Services
        PROVE  /\ svc'[j].pending # {} <=>
                    (j \in in_progress' \/ (j = sync' /\ j \in remaining'))
               /\ RequestKinds(svc'[j])
    <3>1. CASE j = i
      BY <1>1, <1>2, <1>3, <3>1 DEF CoreInv, ListTypes
    <3>2. CASE j # i
      BY <1>1, <1>2, <1>3, <3>2 DEF CoreInv, RequestsInv, RequestsMatchLists
    <3> QED
      BY <3>1, <3>2
  <2>2. sync' \notin remaining'
    BY <1>1, <1>2 DEF CoreInv, ListTypes
  <2> QED
    BY <2>1, <2>2 DEF RequestsInv, RequestsMatchLists
<1>7. ClockCoversWork'
  <2>1. \A h \in Hosts : Unfinished(h)' = Unfinished(h)
    BY <1>2 DEF Unfinished
  <2> QED
    BY <1>2, <2>1 DEF CoreInv, ClockCoversWork
<1> QED
  BY <1>2, <1>4, <1>5, <1>6, <1>7 DEF CoreInv, Moved

\* startNextProbe() of a service in progress.
LEMMA NextProbeStarts ==
  ASSUME CoreInv, NEW i \in in_progress, NEW r \in NFO, NEW restart \in BOOLEAN, Progress(i, r),
         r.state \in {"INITIAL"} \cup Working,
         restart \/ r.state # "NULLPROBE" \/ r.pending = {},
         startNextProbe(i, r, restart), sync \in {0, i}
  PROVE  CoreInv' /\ Moved
<1> DEFINE reuse == ~restart /\ r.state = "NULLPROBE"
           d == nsock_iod_delete(r)
           q == IF reuse THEN nextProbe(i, r, FALSE) ELSE nextProbe(i, d, TRUE)
<1>1. i \in Services
  BY DEF CoreInv, ListTypes
<1>2. /\ d \in NFO /\ d.pending = {} /\ d.state = r.state /\ Progress(i, d)
  BY <1>1, DeleteStep
<1>3. /\ q \in NFO /\ Progress(i, q) /\ q.pending = {}
      /\ q.state \in Working \cup {"SOFTMATCHED", "NOMATCH"}
      /\ reuse => q.state # "NULLPROBE"
  <2> HIDE DEF d
  <2>1. CASE reuse
    <3>1. r.pending = {} /\ r.state # "INITIAL"
      BY <2>1
    <3> QED
      BY <1>1, <2>1, <3>1, NextProbeStep
  <2>2. CASE ~reuse
    BY <1>1, <1>2, <2>2, NextProbeStep
  <2> QED
    BY <2>1, <2>2
<1>4. IF q.state \notin Working
      THEN end_svcprobe(i, q, q.state) /\ sync' = 0
      ELSE /\ UNCHANGED lists
           /\ IF reuse
              THEN /\ Proceed(i, [q EXCEPT !.pending = q.pending \cup {"write", "read"}])
                   /\ ReadsAtOnce(i, q)
              ELSE /\ Proceed(i, [q EXCEPT !.iod = TRUE, !.pending = {"connect"}])
                   /\ sync' \in {0, i}
  BY DEF startNextProbe
<1> HIDE DEF q
<1>5. CASE q.state \notin Working
  <2> PICK verdict : verdict = q.state
    OBVIOUS
  <2>1. verdict \in Verdicts /\ EndWith(i, q, verdict, clock) /\ sync' = 0
    BY <1>3, <1>4, <1>5 DEF Verdicts, end_svcprobe
  <2>2. clock \in [Hosts -> BOOLEAN]
    BY DEF CoreInv, ListTypes
  <2> QED
    BY <1>3, <2>1, <2>2, EndStep
<1>6. CASE q.state \in Working /\ reuse
  <2> DEFINE t == [q EXCEPT !.pending = {"write", "read"}]
  <2>1. /\ t \in NFO /\ t.pending = {"write", "read"} /\ t.state = q.state /\ Progress(i, t)
    <3>1. {"write", "read"} \in SUBSET {"connect", "read", "write"}
      OBVIOUS
    <3> HIDE DEF t
    <3> QED
      BY <1>1, <1>3, <3>1, RequestStep DEF t
  <2>2. q.pending \cup {"write", "read"} = {"write", "read"}
    BY <1>3
  <2>3. Proceed(i, t) /\ UNCHANGED lists /\ ReadsAtOnce(i, q)
    BY <1>4, <1>6, <2>2
  <2>4. sync' \in {0, i}
    BY <2>3 DEF ReadsAtOnce
  <2> HIDE DEF t
  <2>5. t.pending # {} /\ RequestKinds(t) /\ t.state \in {"INITIAL"} \cup Working
    BY <1>3, <1>6, <2>1 DEF RequestKinds
  <2>6. i \notin remaining
    BY DEF CoreInv, ListTypes
  <2> QED
    BY <2>1, <2>3, <2>4, <2>5, <2>6, ProceedStep
<1>7. CASE q.state \in Working /\ ~reuse
  <2> DEFINE t == [q EXCEPT !.iod = TRUE, !.pending = {"connect"}]
  <2>1. /\ t \in NFO /\ t.pending = {"connect"} /\ t.state = q.state /\ Progress(i, t)
    <3>1. /\ t \in NFO /\ t.pending = {"connect"} /\ t.state = q.state /\ t.probe = q.probe
          /\ t.ssl = q.ssl /\ t.soft = q.soft /\ t.tried = q.tried
      BY <1>3 DEF NFO
    <3> HIDE DEF t
    <3> QED
      BY <1>1, <1>3, <3>1, SameProbes
  <2>2. Proceed(i, t) /\ UNCHANGED lists /\ sync' \in {0, i}
    BY <1>4, <1>7
  <2> HIDE DEF t
  <2>3. t.pending # {} /\ RequestKinds(t) /\ t.state \in {"INITIAL"} \cup Working
    BY <1>7, <2>1 DEF RequestKinds
  <2>4. i \notin remaining
    BY DEF CoreInv, ListTypes
  <2> QED
    BY <2>1, <2>2, <2>3, <2>4, ProceedStep
<1> QED
  BY <1>5, <1>6, <1>7

--------------------------------------------------------------------------------
(* The handlers.                                                            *)

\* What is known of service i when nsock calls a handler of it.
LEMMA CalledFacts ==
  ASSUME CoreInv, PhaseInv, NEW i \in Services, NEW type, Called(i, type)
  PROVE  /\ sync \in {0, i} /\ phase \in {"launch", "loop"}
         /\ type \in svc[i].pending /\ svc[i] \in NFO /\ Progress(i, svc[i])
         /\ svc[i].state \in {"INITIAL"} \cup Working /\ RequestKinds(svc[i])
         /\ i \in remaining \cup in_progress /\ clock \in [Hosts -> BOOLEAN]
         /\ sync = 0 \/ type # "connect" => i \in in_progress /\ i \notin remaining
<1>1. type \in svc[i].pending /\ 0 \notin Services /\ i # 0
  BY ServiceType DEF Called
<1>2. sync \in {0, i} /\ phase \in {"launch", "loop"}
  BY <1>1 DEF Called, PhaseInv
<1>3. i \in in_progress \/ (i = sync /\ i \in remaining)
  BY <1>1 DEF CoreInv, RequestsInv, RequestsMatchLists
<1>4. i \notin finished
  BY <1>3 DEF CoreInv, ListTypes
<1>5. /\ svc[i] \in NFO /\ Progress(i, svc[i])
      /\ svc[i].state \in {"INITIAL"} \cup Working /\ RequestKinds(svc[i])
  BY <1>4 DEF CoreInv, ListTypes, ProbesInv, RequestsInv
<1>6. sync = 0 \/ type # "connect" => i \in in_progress /\ i \notin remaining
  BY <1>1, <1>3 DEF CoreInv, ListTypes, RequestsInv
<1> QED
  BY <1>1, <1>2, <1>3, <1>5, <1>6 DEF CoreInv, ListTypes

\* A handler that launches more services ends in a state of the phase "launch".
LEMMA LaunchPhase ==
  ASSUME Types, CoreInv', PhaseInv, Moved, phase \in {"launch", "loop"}, phase' = "launch",
         targetno' = targetno, timedout' = timedout, sync' \in Services \cup {0}
  PROVE  Types' /\ PhaseInv'
<1>1. Types'
  BY DEF Types
<1>2. PhaseInv'
  BY DEF PhaseInv, Moved
<1> QED
  BY <1>1, <1>2

\* A service ends after its connection is closed.
LEMMA CloseAndEnd ==
  ASSUME CoreInv, NEW i \in remaining \cup in_progress, NEW r \in NFO,
         NEW verdict \in Verdicts, verdict # "NOMATCH",
         end_svcprobe(i, nsock_iod_delete(r), verdict), sync \in {0, i}, sync' = 0
  PROVE  /\ CoreInv' /\ Moved
<1>1. i \in Services /\ clock \in [Hosts -> BOOLEAN]
  BY DEF CoreInv, ListTypes
<1> DEFINE d == nsock_iod_delete(r)
<1>2. d \in NFO /\ d.pending = {}
  BY <1>1, DeleteStep
<1>3. EndWith(i, d, verdict, clock)
  BY DEF end_svcprobe
<1> HIDE DEF d
<1> QED
  BY <1>1, <1>2, <1>3, EndStep

\* servicescan_connect_handler() after an error.
LEMMA ConnectFailsStep ==
  ASSUME ServiceInv, NEW i \in Services, ConnectFails(i)
  PROVE  ServiceInv'
<1>1. Types /\ CoreInv /\ PhaseInv
  BY DEF ServiceInv
<1>2. Called(i, "connect") /\ sync' = 0 /\ phase' = "launch"
      /\ targetno' = targetno /\ timedout' = timedout
      /\ end_svcprobe(i, nsock_iod_delete(svc[i]), "INCOMPLETE")
  BY DEF ConnectFails, Frame
<1>3. /\ sync \in {0, i} /\ phase \in {"launch", "loop"} /\ svc[i] \in NFO
      /\ i \in remaining \cup in_progress
  BY <1>1, <1>2, CalledFacts
<1>4. PICK verdict \in Verdicts : verdict = "INCOMPLETE" /\ verdict # "NOMATCH"
  BY DEF Verdicts
<1>5. CoreInv' /\ Moved
  BY <1>1, <1>2, <1>3, <1>4, CloseAndEnd
<1> QED
  BY <1>1, <1>2, <1>3, <1>5, LaunchPhase DEF ServiceInv

\* servicescan_connect_handler() after success.
LEMMA ConnectedStep ==
  ASSUME ServiceInv, NEW i \in Services, Connected(i)
  PROVE  ServiceInv'
<1> DEFINE P == IF svc[i].probe = NullProbe THEN {"read"} ELSE {"write", "read"}
           o == svc[i].open \/ Service[i].proto = "tcp"
           q == [[svc[i] EXCEPT !.pending = svc[i].pending \ {"connect"}] EXCEPT !.open = o, !.pending = P]
<1>1. Types /\ CoreInv /\ PhaseInv
  BY DEF ServiceInv
<1>2. Called(i, "connect") /\ sync = 0 /\ phase' = "launch" /\ UNCHANGED lists
      /\ targetno' = targetno /\ timedout' = timedout
  BY DEF Connected, Frame
<1>3. /\ phase \in {"launch", "loop"} /\ svc[i] \in NFO /\ Progress(i, svc[i])
      /\ svc[i].state \in {"INITIAL"} \cup Working
      /\ i \in in_progress /\ i \notin remaining
  BY <1>1, <1>2, CalledFacts
<1>4. [svc[i] EXCEPT !.pending = svc[i].pending \ {"connect"}].probe = svc[i].probe
      /\ [svc[i] EXCEPT !.pending = svc[i].pending \ {"connect"}].open = svc[i].open
  BY <1>3 DEF NFO
<1>5. Proceed(i, q) /\ ReadsAtOnce(i, q)
  BY <1>4 DEF Connected, Taken
<1>6. /\ q \in NFO /\ q.pending = P /\ q.state = svc[i].state /\ q.probe = svc[i].probe
      /\ q.ssl = svc[i].ssl /\ q.soft = svc[i].soft /\ q.tried = svc[i].tried
  <2>1. o \in BOOLEAN /\ P \in SUBSET {"connect", "read", "write"}
    BY <1>3 DEF NFO
  <2>2. svc[i].pending \ {"connect"} \in SUBSET {"connect", "read", "write"}
    BY <1>3 DEF NFO
  <2> HIDE DEF o, P
  <2> QED
    BY <1>3, <2>1, <2>2 DEF NFO
<1>7. P # {} /\ sync' \in {0, i}
  BY <1>5 DEF ReadsAtOnce
<1>8. RequestKinds(q)
  <2>1. q.state = "NULLPROBE" => q.probe = NullProbe
    BY <1>3, <1>6 DEF Progress
  <2> HIDE DEF q
  <2> QED
    BY <1>6, <2>1 DEF RequestKinds
<1> HIDE DEF q
<1>9. Progress(i, q)
  BY <1>3, <1>6, SameProbes
<1>10. CoreInv' /\ Moved
  BY <1>1, <1>2, <1>3, <1>5, <1>6, <1>7, <1>8, <1>9, ProceedStep
<1> QED
  BY <1>1, <1>2, <1>3, <1>7, <1>10, LaunchPhase DEF ServiceInv

\* servicescan_write_handler() after success.
LEMMA WrittenStep ==
  ASSUME ServiceInv, NEW i \in Services, Written(i)
  PROVE  ServiceInv'
<1> DEFINE P == svc[i].pending \ {"write"}
           q == [svc[i] EXCEPT !.pending = P]
<1>1. Types /\ CoreInv /\ PhaseInv
  BY DEF ServiceInv
<1>2. Called(i, "write") /\ Proceed(i, q) /\ sync' = sync /\ phase' = phase /\ UNCHANGED lists
      /\ targetno' = targetno /\ timedout' = timedout
  BY DEF Written, Frame, Taken
<1>3. /\ sync \in {0, i} /\ "write" \in svc[i].pending /\ svc[i] \in NFO /\ Progress(i, svc[i])
      /\ svc[i].state \in {"INITIAL"} \cup Working /\ RequestKinds(svc[i])
      /\ i \in in_progress /\ i \notin remaining
  BY <1>1, <1>2, CalledFacts
<1>4. /\ P \in SUBSET {"connect", "read", "write"} /\ "read" \in P /\ "connect" \notin P
  BY <1>3 DEF NFO, RequestKinds
<1>5. q \in NFO /\ q.pending = P /\ q.state = svc[i].state /\ Progress(i, q)
  <2> HIDE DEF P, q
  <2> QED
    BY <1>3, <1>4, RequestStep DEF q
<1> HIDE DEF q
<1>6. RequestKinds(q) /\ q.pending # {}
  BY <1>4, <1>5 DEF RequestKinds
<1>7. CoreInv' /\ Moved /\ clock' = clock
  BY <1>1, <1>2, <1>3, <1>5, <1>6, ProceedStep
<1>8. Types' /\ PhaseInv'
  BY <1>1, <1>2, <1>7 DEF Types, PhaseInv, SomeTimedOut, lists
<1> QED
  BY <1>7, <1>8 DEF ServiceInv

\* servicescan_write_handler() for a host that has timed out.
LEMMA WriteTimedOutStep ==
  ASSUME ServiceInv, NEW i \in Services, WriteTimedOut(i)
  PROVE  ServiceInv'
<1>1. Types /\ CoreInv /\ PhaseInv
  BY DEF ServiceInv
<1>2. Called(i, "write") /\ sync' = sync /\ phase' = phase /\ timedout[Service[i].host]
      /\ targetno' = targetno /\ timedout' = timedout
      /\ end_svcprobe(i, nsock_iod_delete(svc[i]), "INCOMPLETE")
  BY DEF WriteTimedOut, Frame, HostTimedOut
<1>3. /\ phase \in {"launch", "loop"} /\ svc[i] \in NFO /\ i \in remaining \cup in_progress
      /\ sync = 0 /\ phase = "loop"
  <2>1. sync = 0 /\ phase = "loop"
    BY <1>2 DEF Called
  <2> QED
    BY <1>1, <1>2, <2>1, CalledFacts
<1>4. PICK verdict \in Verdicts : verdict = "INCOMPLETE" /\ verdict # "NOMATCH"
  BY DEF Verdicts
<1>5. CoreInv' /\ Moved
  BY <1>1, <1>2, <1>3, <1>4, CloseAndEnd
<1>6. SomeTimedOut'
  BY <1>2, ServiceType DEF SomeTimedOut
<1>7. Types' /\ PhaseInv'
  BY <1>1, <1>2, <1>3, <1>5, <1>6 DEF Types, PhaseInv, Moved
<1> QED
  BY <1>5, <1>7 DEF ServiceInv

\* servicescan_write_handler() after an error.
LEMMA WriteFailsStep ==
  ASSUME ServiceInv, NEW i \in Services, WriteFails(i)
  PROVE  ServiceInv'
<1>1. Types /\ CoreInv /\ PhaseInv
  BY DEF ServiceInv
<1>2. Called(i, "write") /\ sync' = sync /\ phase' = "launch"
      /\ targetno' = targetno /\ timedout' = timedout
      /\ end_svcprobe(i, nsock_iod_delete(svc[i]), "INCOMPLETE")
  BY DEF WriteFails, Frame
<1>3. /\ phase \in {"launch", "loop"} /\ svc[i] \in NFO /\ i \in remaining \cup in_progress
      /\ sync = 0
  <2>1. sync = 0
    BY <1>2 DEF Called
  <2> QED
    BY <1>1, <1>2, <2>1, CalledFacts
<1>4. PICK verdict \in Verdicts : verdict = "INCOMPLETE" /\ verdict # "NOMATCH"
  BY DEF Verdicts
<1>5. CoreInv' /\ Moved
  BY <1>1, <1>2, <1>3, <1>4, CloseAndEnd
<1> QED
  BY <1>1, <1>2, <1>3, <1>5, LaunchPhase DEF ServiceInv

\* servicescan_read_handler() for a host that has timed out, or a final error.
LEMMA ReadAbortsStep ==
  ASSUME ServiceInv, NEW i \in Services, ReadAborts(i)
  PROVE  ServiceInv'
<1> DEFINE r == [svc[i] EXCEPT !.wrap = FALSE]
<1>1. Types /\ CoreInv /\ PhaseInv
  BY DEF ServiceInv
<1>2. Called(i, "read") /\ sync' = 0 /\ phase' = "launch"
      /\ targetno' = targetno /\ timedout' = timedout
      /\ end_svcprobe(i, nsock_iod_delete(r), "INCOMPLETE")
  BY DEF ReadAborts, Frame
<1>3. /\ sync \in {0, i} /\ phase \in {"launch", "loop"} /\ svc[i] \in NFO
      /\ i \in remaining \cup in_progress
  BY <1>1, <1>2, CalledFacts
<1>4. PICK verdict \in Verdicts : verdict = "INCOMPLETE" /\ verdict # "NOMATCH"
  BY DEF Verdicts
<1>5. r \in NFO
  BY <1>3 DEF NFO
<1> HIDE DEF r
<1>6. CoreInv' /\ Moved
  BY <1>1, <1>2, <1>3, <1>4, <1>5, CloseAndEnd
<1> QED
  BY <1>1, <1>2, <1>3, <1>6, LaunchPhase DEF ServiceInv

\* The ServiceNFO of a service whose read is reported: no connect is pending, and with
\* the NULL probe nothing else.
LEMMA ReadTaken ==
  ASSUME NEW i \in Services, svc[i] \in NFO, Progress(i, svc[i]), RequestKinds(svc[i]),
         "read" \in svc[i].pending
  PROVE  LET q == Taken(i, "read") IN
         /\ q \in NFO /\ q.state = svc[i].state /\ Progress(i, q) /\ q.pending \subseteq {"write"}
         /\ q.state = "NULLPROBE" => q.pending = {}
<1> DEFINE P == svc[i].pending \ {"read"}
           q == Taken(i, "read")
<1>1. P \subseteq {"write"} /\ (svc[i].state = "NULLPROBE" => P = {})
  BY DEF NFO, RequestKinds
<1>2. q = [svc[i] EXCEPT !.pending = P] /\ P \in SUBSET {"connect", "read", "write"}
  BY <1>1 DEF Taken
<1> HIDE DEF P, q
<1>3. q \in NFO /\ q.pending = P /\ q.state = svc[i].state /\ Progress(i, q)
  BY <1>2, RequestStep
<1> QED
  BY <1>1, <1>3 DEF q

\* A handler that goes on to the next probe.
LEMMA GoesOn ==
  ASSUME ServiceInv, NEW i \in Services, Called(i, "read"), NEW r \in NFO, Progress(i, r),
         r.state \in {"INITIAL"} \cup Working, NEW restart \in BOOLEAN,
         restart \/ r.state # "NULLPROBE" \/ r.pending = {},
         startNextProbe(i, r, restart), phase' = "launch", Frame
  PROVE  ServiceInv'
<1>1. Types /\ CoreInv /\ PhaseInv
  BY DEF ServiceInv
<1>2. i \in in_progress /\ sync \in {0, i} /\ phase \in {"launch", "loop"}
  BY <1>1, CalledFacts
<1>3. CoreInv' /\ Moved
  BY <1>1, <1>2, NextProbeStarts
<1>4. sync' \in {0, i}
  BY DEF startNextProbe, ReadsAtOnce
<1>5. targetno' = targetno /\ timedout' = timedout
  BY DEF Frame
<1> QED
  BY <1>1, <1>2, <1>3, <1>4, <1>5, LaunchPhase DEF ServiceInv

\* servicescan_read_handler() after a timeout.
LEMMA ReadTimesOutStep ==
  ASSUME ServiceInv, NEW i \in Services, ReadTimesOut(i)
  PROVE  ServiceInv'
<1> DEFINE t == Taken(i, "read")
           r == [t EXCEPT !.wrap = FALSE]
<1>1. CoreInv /\ PhaseInv
  BY DEF ServiceInv
<1>2. Called(i, "read") /\ startNextProbe(i, r, FALSE) /\ phase' = "launch" /\ Frame
  BY DEF ReadTimesOut
<1>3. /\ svc[i] \in NFO /\ Progress(i, svc[i]) /\ RequestKinds(svc[i]) /\ "read" \in svc[i].pending
      /\ svc[i].state \in {"INITIAL"} \cup Working
  BY <1>1, <1>2, CalledFacts
<1>4. /\ t \in NFO /\ t.state = svc[i].state /\ Progress(i, t)
      /\ t.state = "NULLPROBE" => t.pending = {}
  BY <1>3, ReadTaken
<1> HIDE DEF t
<1>5. /\ r \in NFO /\ r.state = t.state /\ r.probe = t.probe /\ r.ssl = t.ssl /\ r.soft = t.soft
      /\ r.tried = t.tried /\ r.pending = t.pending
  BY <1>4 DEF NFO
<1> HIDE DEF r
<1>6. Progress(i, r)
  BY <1>4, <1>5, SameProbes
<1> QED
  BY <1>2, <1>3, <1>4, <1>5, <1>6, GoesOn

\* servicescan_read_handler() after an error.
LEMMA ReadErrorStep ==
  ASSUME ServiceInv, NEW i \in Services, ReadError(i)
  PROVE  ServiceInv'
<1> DEFINE t == Taken(i, "read")
<1>1. CoreInv /\ PhaseInv
  BY DEF ServiceInv
<1>2. Called(i, "read") /\ startNextProbe(i, t, TRUE) /\ phase' = "launch" /\ Frame
  BY DEF ReadError
<1>3. /\ svc[i] \in NFO /\ Progress(i, svc[i]) /\ RequestKinds(svc[i]) /\ "read" \in svc[i].pending
      /\ svc[i].state \in {"INITIAL"} \cup Working
  BY <1>1, <1>2, CalledFacts
<1>4. /\ t \in NFO /\ t.state = svc[i].state /\ Progress(i, t)
      /\ t.state = "NULLPROBE" => t.pending = {}
  BY <1>3, ReadTaken
<1> HIDE DEF t
<1> QED
  BY <1>2, <1>3, <1>4, GoesOn

\* servicescan_read_handler() at the end of the stream.
LEMMA PeerClosesStep ==
  ASSUME ServiceInv, NEW i \in Services, PeerCloses(i)
  PROVE  ServiceInv'
<1> DEFINE t == Taken(i, "read")
           w == t.wrap /\ svc[i].resp = 0
           r == [t EXCEPT !.wrap = w]
<1>1. Types /\ CoreInv /\ PhaseInv
  BY DEF ServiceInv
<1>2. Called(i, "read") /\ phase' = "launch" /\ Frame
  BY DEF PeerCloses
<1>3. /\ svc[i] \in NFO /\ Progress(i, svc[i]) /\ RequestKinds(svc[i]) /\ "read" \in svc[i].pending
      /\ svc[i].state \in {"INITIAL"} \cup Working
      /\ sync \in {0, i} /\ phase \in {"launch", "loop"} /\ i \in remaining \cup in_progress
  BY <1>1, <1>2, CalledFacts
<1>4. /\ t \in NFO /\ t.state = svc[i].state /\ Progress(i, t)
      /\ t.state = "NULLPROBE" => t.pending = {}
  BY <1>3, ReadTaken
<1>5. \/ end_svcprobe(i, nsock_iod_delete(r), "TCPWRAPPED") /\ sync' = 0
      \/ startNextProbe(i, r, TRUE)
  BY DEF PeerCloses
<1> HIDE DEF t
<1>6. /\ r \in NFO /\ r.state = t.state /\ r.probe = t.probe /\ r.ssl = t.ssl /\ r.soft = t.soft
      /\ r.tried = t.tried /\ r.pending = t.pending
  <2>1. w \in BOOLEAN
    BY <1>4 DEF NFO
  <2> HIDE DEF w
  <2> QED
    BY <1>4, <2>1 DEF NFO
<1> HIDE DEF r
<1>7. Progress(i, r)
  BY <1>4, <1>6, SameProbes
<1>8. CASE startNextProbe(i, r, TRUE)
  BY <1>2, <1>3, <1>4, <1>6, <1>7, <1>8, GoesOn
<1>9. CASE end_svcprobe(i, nsock_iod_delete(r), "TCPWRAPPED") /\ sync' = 0
  <2>1. PICK verdict \in Verdicts : verdict = "TCPWRAPPED" /\ verdict # "NOMATCH"
    BY DEF Verdicts
  <2>2. CoreInv' /\ Moved
    BY <1>1, <1>3, <1>6, <1>9, <2>1, CloseAndEnd
  <2> QED
    BY <1>1, <1>2, <1>3, <1>9, <2>2, LaunchPhase DEF ServiceInv, Frame
<1> QED
  BY <1>5, <1>8, <1>9

\* servicescan_read_handler() with data.
LEMMA DataReadStep ==
  ASSUME ServiceInv, NEW i \in Services, DataRead(i)
  PROVE  ServiceInv'
<1>1. Types /\ CoreInv /\ PhaseInv
  BY DEF ServiceInv
<1>2. Called(i, "read") /\ phase' = "launch" /\ Frame
  BY DEF DataRead
<1>3. /\ svc[i] \in NFO /\ Progress(i, svc[i]) /\ RequestKinds(svc[i]) /\ "read" \in svc[i].pending
      /\ svc[i].state \in {"INITIAL"} \cup Working
      /\ sync \in {0, i} /\ phase \in {"launch", "loop"}
      /\ i \in in_progress /\ i \notin remaining
  BY <1>1, <1>2, CalledFacts
<1>4. PICK eof \in BOOLEAN, md \in Matches({svc[i].probe}) \cup {NoMatch}, more \in BOOLEAN :
        LET q == processMatch(Received(i, eof), md)
        IN  IF IsHardMatch(md)
            THEN IF StartsOver(q)
                 THEN startNextProbe(i, scanThroughTunnel(q), TRUE)
                 ELSE /\ end_svcprobe(i, nsock_iod_delete(scanThroughTunnel(q)), "HARDMATCHED")
                      /\ sync' = 0
            ELSE IF more /\ q.resp < MaxResp
            THEN /\ Proceed(i, [q EXCEPT !.pending = q.pending \cup {"read"}])
                 /\ ReadsAtOnce(i, q)
                 /\ UNCHANGED lists
            ELSE startNextProbe(i, q, FALSE)
  <2>1. \A e \in (IF Service[i].proto = "tcp" \/ svc[i].ssl THEN BOOLEAN ELSE {FALSE}) : e \in BOOLEAN
    OBVIOUS
  <2> QED
    BY <2>1 DEF DataRead
<1> DEFINE t == Taken(i, "read")
           n == IF t.resp < MaxResp THEN t.resp + 1 ELSE t.resp
           r == [t EXCEPT !.wrap = FALSE, !.open = TRUE, !.eof = eof, !.resp = n]
           q == processMatch(r, md)
<1>5. /\ t \in NFO /\ t.state = svc[i].state /\ Progress(i, t) /\ t.pending \subseteq {"write"}
      /\ t.state = "NULLPROBE" => t.pending = {}
  BY <1>3, ReadTaken
<1>6. Received(i, eof) = r
  BY DEF Received
<1> HIDE DEF t
<1>7. /\ r \in NFO /\ r.state = t.state /\ r.probe = t.probe /\ r.ssl = t.ssl /\ r.soft = t.soft
      /\ r.tried = t.tried /\ r.pending = t.pending
  <2>1. t.resp \in 0 .. MaxResp
    BY <1>5 DEF NFO
  <2>2. n \in 0 .. MaxResp
    BY <2>1, ConstantType
  <2> HIDE DEF n
  <2> QED
    BY <1>5, <2>2 DEF NFO
<1> HIDE DEF r
<1>8. Progress(i, r)
  BY <1>5, <1>7, SameProbes
<1>9. md.name \in Names \cup {None} /\ md.isSoft \in BOOLEAN
  <2>1. PICK ps \in SUBSET (ProbeNums \cup {NullProbe}) : ps = {svc[i].probe}
    BY <1>3 DEF NFO
  <2> QED
    BY <1>4, <2>1, MatchType
<1>10. /\ q \in NFO /\ q.pending = r.pending /\ q.state = r.state
       /\ ~IsHardMatch(md) => Progress(i, q)
  BY <1>7, <1>8, <1>9, MatchStep
<1>11. IF IsHardMatch(md)
       THEN IF StartsOver(q)
            THEN startNextProbe(i, scanThroughTunnel(q), TRUE)
            ELSE /\ end_svcprobe(i, nsock_iod_delete(scanThroughTunnel(q)), "HARDMATCHED")
                 /\ sync' = 0
       ELSE IF more /\ q.resp < MaxResp
       THEN /\ Proceed(i, [q EXCEPT !.pending = q.pending \cup {"read"}])
            /\ ReadsAtOnce(i, q)
            /\ UNCHANGED lists
       ELSE startNextProbe(i, q, FALSE)
  BY <1>4, <1>6
<1> HIDE DEF q
<1> DEFINE s == scanThroughTunnel(q)
<1>12. s \in NFO /\ (StartsOver(q) => s.state = "INITIAL" /\ Progress(i, s))
  BY <1>10, TunnelStep
<1> HIDE DEF s
<1>13. CASE IsHardMatch(md) /\ StartsOver(q)
  <2>1. startNextProbe(i, s, TRUE)
    BY <1>11, <1>13 DEF s
  <2> QED
    BY <1>2, <1>12, <1>13, <2>1, GoesOn
<1>14. CASE IsHardMatch(md) /\ ~StartsOver(q)
  <2>1. end_svcprobe(i, nsock_iod_delete(s), "HARDMATCHED") /\ sync' = 0
    BY <1>11, <1>14 DEF s
  <2>2. PICK verdict \in Verdicts : verdict = "HARDMATCHED" /\ verdict # "NOMATCH"
    BY DEF Verdicts
  <2>3. CoreInv' /\ Moved
    BY <1>1, <1>3, <1>12, <2>1, <2>2, CloseAndEnd
  <2> QED
    BY <1>1, <1>2, <1>3, <2>1, <2>3, LaunchPhase DEF ServiceInv, Frame
<1>15. CASE ~IsHardMatch(md) /\ more /\ q.resp < MaxResp
  <2> DEFINE P == q.pending \cup {"read"}
             u == [q EXCEPT !.pending = P]
  <2>1. /\ P \in SUBSET {"connect", "read", "write"} /\ "read" \in P /\ "connect" \notin P
        /\ q.state = "NULLPROBE" => "write" \notin P
    BY <1>5, <1>7, <1>10
  <2>2. u \in NFO /\ u.pending = P /\ u.state = q.state /\ Progress(i, u)
    <3> HIDE DEF P, u
    <3> QED
      BY <1>10, <1>15, <2>1, RequestStep DEF u
  <2>3. Proceed(i, u) /\ ReadsAtOnce(i, q) /\ UNCHANGED lists
    BY <1>11, <1>15
  <2> HIDE DEF P, u
  <2>4. RequestKinds(u) /\ u.pending # {} /\ u.state \in {"INITIAL"} \cup Working
    BY <1>3, <1>5, <1>7, <1>10, <2>1, <2>2 DEF RequestKinds
  <2>5. sync' \in {0, i}
    BY <2>3 DEF ReadsAtOnce
  <2>6. CoreInv' /\ Moved
    BY <1>1, <1>3, <2>2, <2>3, <2>4, <2>5, ProceedStep
  <2> QED
    BY <1>1, <1>2, <1>3, <2>5, <2>6, LaunchPhase DEF ServiceInv, Frame
<1>16. CASE ~IsHardMatch(md) /\ ~ (more /\ q.resp < MaxResp)
  <2>1. startNextProbe(i, q, FALSE)
    BY <1>11, <1>16
  <2> QED
    BY <1>2, <1>3, <1>5, <1>7, <1>10, <1>16, <2>1, GoesOn
<1> QED
  BY <1>13, <1>14, <1>15, <1>16

--------------------------------------------------------------------------------
(* The other actions.                                                       *)

\* A target is added to the group.
LEMMA AddTargetStep ==
  ASSUME ServiceInv, AddTarget
  PROVE  ServiceInv'
<1>1. Types /\ ListTypes /\ ProbesInv /\ RequestsInv /\ ClockCoversWork /\ PhaseInv
  BY DEF ServiceInv, CoreInv
<1>2. /\ phase = "construct" /\ phase' = phase /\ targetno < NumHosts /\ targetno' = targetno + 1
      /\ in_progress' = in_progress /\ finished' = finished /\ svc' = svc /\ sync' = sync
      /\ timedout' = timedout /\ clock' = clock
      /\ \/ timedout[targetno'] /\ remaining' = remaining
         \/ /\ ~timedout[targetno']
            /\ remaining' = remaining \cup {i \in Services : Service[i].host = targetno'}
  BY DEF AddTarget
<1>3. targetno \in Nat /\ targetno' \in 0 .. NumHosts /\ NumHosts \in Nat
  BY <1>1, <1>2, ConstantType DEF Types
<1>4. sync = 0 /\ sync \notin Services /\ in_progress = {} /\ \A h \in Hosts : ~clock[h]
  BY <1>1, <1>2, ServiceType DEF PhaseInv
<1>5. \A i \in remaining \cup in_progress \cup finished : Service[i].host <= targetno
  BY <1>1 DEF PhaseInv
<1>6. ListTypes'
  BY <1>1, <1>2, <1>3, <1>5 DEF ListTypes
<1>7. ProbesInv'
  BY <1>1, <1>2 DEF ProbesInv
<1>8. RequestsInv'
  BY <1>1, <1>2, <1>4, <1>6 DEF RequestsInv, RequestsMatchLists, ListTypes
<1>9. ClockCoversWork'
  BY <1>2, <1>4 DEF ClockCoversWork
<1>10. Types'
  BY <1>1, <1>2, <1>3 DEF Types
<1>11. PhaseInv'
  <2>1. ASSUME NEW i \in remaining' \cup in_progress' \cup finished'
        PROVE  Service[i].host <= targetno'
    <3>1. i \in Services /\ Service[i].host \in Nat
      BY <1>6, ServiceType DEF ListTypes
    <3>2. Service[i].host <= targetno \/ Service[i].host = targetno'
      BY <1>2, <1>5
    <3> QED
      BY <1>2, <1>3, <3>1, <3>2
  <2>2. ASSUME NEW i \in Services, Service[i].host <= targetno', ~timedout'[Service[i].host]
        PROVE  i \in remaining' \cup in_progress' \cup finished'
    <3>1. Service[i].host <= targetno \/ Service[i].host = targetno'
      BY <1>2, <1>3, <2>2, ServiceType
    <3> QED
      BY <1>1, <1>2, <2>2, <3>1 DEF PhaseInv
  <2> QED
    BY <1>1, <1>2, <1>4, <2>1, <2>2 DEF PhaseInv
<1> QED
  BY <1>6, <1>7, <1>8, <1>9, <1>10, <1>11 DEF ServiceInv, CoreInv

\* A service that is known without a probe.
LEMMA EarlyMatchStep ==
  ASSUME ServiceInv, EarlyMatch
  PROVE  ServiceInv'
<1>1. Types /\ CoreInv /\ PhaseInv
  BY DEF ServiceInv
<1>2. /\ phase = "construct" /\ phase' = phase /\ targetno' = targetno /\ sync' = sync
      /\ timedout' = timedout
  BY DEF EarlyMatch
<1>3. sync = 0 /\ sync' = 0 /\ in_progress = {} /\ \A h \in Hosts : ~clock[h]
  BY <1>1, <1>2 DEF PhaseInv
<1>4. PICK port \in early : \E md \in payload_service_match(port) :
        LET found == {i \in remaining : Service[i].proto = "udp" /\ Service[i].port = port}
            i == Least(found)
            r == processMatch(svc[i], md)
        IN  IF md.name = None \/ found = {}
            THEN UNCHANGED <<lists, svc, clock, num_hosts_timedout>>
            ELSE IF IsHardMatch(md) /\ ~StartsOver(r)
            THEN end_svcprobe(i, scanThroughTunnel(r), "HARDMATCHED")
            ELSE /\ Proceed(i, IF IsHardMatch(md) THEN scanThroughTunnel(r) ELSE r)
                 /\ UNCHANGED lists
  BY DEF EarlyMatch
<1> DEFINE found == {i \in remaining : Service[i].proto = "udp" /\ Service[i].port = port}
<1>5. PICK md \in payload_service_match(port) :
        IF md.name = None \/ found = {}
        THEN UNCHANGED <<lists, svc, clock, num_hosts_timedout>>
        ELSE IF IsHardMatch(md) /\ ~StartsOver(processMatch(svc[Least(found)], md))
        THEN end_svcprobe(Least(found), scanThroughTunnel(processMatch(svc[Least(found)], md)),
                          "HARDMATCHED")
        ELSE /\ Proceed(Least(found),
                        IF IsHardMatch(md)
                        THEN scanThroughTunnel(processMatch(svc[Least(found)], md))
                        ELSE processMatch(svc[Least(found)], md))
             /\ UNCHANGED lists
  BY <1>4
<1>6. md.name \in Names \cup {None} /\ md.isSoft \in BOOLEAN
  <2>1. PayloadProbes(port) \in SUBSET (ProbeNums \cup {NullProbe})
    BY DEF PayloadProbes
  <2> QED
    BY <2>1, MatchType DEF payload_service_match
<1>7. SUFFICES CoreInv' /\ Moved /\ \A h \in Hosts : clock'[h] => clock[h]
  BY <1>1, <1>2, <1>3 DEF ServiceInv, Types, PhaseInv, Moved, SomeTimedOut
<1>8. CASE md.name = None \/ found = {}
  <2>1. /\ remaining' = remaining /\ in_progress' = in_progress /\ finished' = finished
        /\ svc' = svc /\ clock' = clock
    BY <1>5, <1>8 DEF lists
  <2>2. Moved
    BY <2>1 DEF Moved
  <2>3. CoreInv'
    BY <1>1, <1>2, <2>1 DEF CoreInv, ListTypes, ProbesInv, RequestsInv, RequestsMatchLists,
                            ClockCoversWork, Unfinished
  <2> QED
    BY <2>1, <2>2, <2>3
<1>9. CASE md.name # None /\ found # {}
  <2>1. remaining \subseteq Services /\ Services \subseteq Nat
    BY <1>1, ServiceType DEF CoreInv, ListTypes
  <2>2. PICK i \in remaining : i = Least(found)
    <3>1. found \in SUBSET Nat /\ found \subseteq remaining
      BY <2>1
    <3> HIDE DEF found
    <3> QED
      BY <1>9, <3>1, LeastNat
  <2> HIDE DEF found
  <2> DEFINE r == processMatch(svc[i], md)
             s == scanThroughTunnel(r)
  <2>3. i \in Services /\ i \notin in_progress /\ i \notin finished /\ i # 0
    BY <1>1, <2>1, ServiceType DEF CoreInv, ListTypes
  <2>4. /\ svc[i] \in NFO /\ Progress(i, svc[i]) /\ svc[i].state \in {"INITIAL"} \cup Working
        /\ svc[i].pending = {}
    BY <1>1, <1>3, <2>3 DEF CoreInv, ListTypes, ProbesInv, RequestsInv, RequestsMatchLists
  <2>5. /\ r \in NFO /\ r.pending = {} /\ r.state = svc[i].state
        /\ ~IsHardMatch(md) => Progress(i, r)
    BY <1>6, <2>3, <2>4, MatchStep
  <2> HIDE DEF r
  <2>6. s \in NFO /\ s.pending = {} /\ (StartsOver(r) => s.state = "INITIAL" /\ Progress(i, s))
    BY <2>3, <2>5, TunnelStep
  <2> HIDE DEF s
  <2>7. CASE IsHardMatch(md) /\ ~StartsOver(r)
    <3>1. PICK verdict \in Verdicts : verdict = "HARDMATCHED" /\ verdict # "NOMATCH"
      BY DEF Verdicts
    <3>2. EndWith(i, s, verdict, clock)
      BY <1>5, <1>9, <2>2, <2>7, <3>1 DEF end_svcprobe, r, s
    <3>3. clock \in [Hosts -> BOOLEAN]
      BY <1>1 DEF CoreInv, ListTypes
    <3> QED
      BY <1>1, <1>3, <2>6, <3>1, <3>2, <3>3, EndStep
  <2>8. CASE ~ (IsHardMatch(md) /\ ~StartsOver(r))
    <3> DEFINE u == IF IsHardMatch(md) THEN s ELSE r
    <3>1. Proceed(i, u) /\ UNCHANGED lists
      BY <1>5, <1>9, <2>2, <2>8 DEF r, s
    <3>2. /\ u \in NFO /\ u.pending = {} /\ u.state \in {"INITIAL"} \cup Working
          /\ Progress(i, u)
      BY <2>4, <2>5, <2>6, <2>8
    <3> HIDE DEF u
    <3>3. RequestKinds(u)
      BY <3>2 DEF RequestKinds
    <3> QED
      BY <1>1, <1>3, <2>3, <3>1, <3>2, <3>3, ProceedStep
  <2> QED
    BY <2>7, <2>8
<1> QED
  BY <1>8, <1>9

\* service_scan() starts.
LEMMA StartScanStep ==
  ASSUME ServiceInv, StartScan
  PROVE  ServiceInv'
<1> DEFINE excluded == {i \in remaining : <<Service[i].port, Service[i].proto>> \in Excluded}
<1>1. Types /\ ListTypes /\ ProbesInv /\ RequestsInv /\ ClockCoversWork /\ PhaseInv
  BY DEF ServiceInv, CoreInv
<1>2. /\ phase = "construct" /\ targetno = NumHosts /\ targetno' = targetno
      /\ remaining' = remaining \ excluded /\ finished' = finished \cup excluded
      /\ \/ phase' = "done" /\ remaining' = {}
         \/ phase' = "launch"
      /\ in_progress' = in_progress /\ svc' = svc /\ sync' = sync
      /\ timedout' = timedout /\ clock' = clock
  BY DEF StartScan
<1>3. excluded \subseteq remaining
  OBVIOUS
<1> HIDE DEF excluded
<1>4. sync = 0 /\ sync \notin Services /\ in_progress = {} /\ \A h \in Hosts : ~clock[h]
  BY <1>1, <1>2, ServiceType DEF PhaseInv
<1>5. ListTypes'
  BY <1>1, <1>2, <1>3 DEF ListTypes
<1>6. ProbesInv'
  BY <1>1, <1>2 DEF ProbesInv
<1>7. RequestsInv'
  BY <1>1, <1>2, <1>4, <1>5 DEF RequestsInv, RequestsMatchLists, ListTypes
<1>8. ClockCoversWork'
  BY <1>2, <1>4 DEF ClockCoversWork
<1>9. Types'
  BY <1>1, <1>2 DEF Types
<1>10. PhaseInv'
  BY <1>1, <1>2, <1>3, <1>4 DEF PhaseInv
<1> QED
  BY <1>5, <1>6, <1>7, <1>8, <1>9, <1>10 DEF ServiceInv, CoreInv

\* The front of services_remaining.
LEMMA Front ==
  ASSUME ServiceInv, remaining # {}, sync = 0
  PROVE  LET i == Least(remaining) IN
         /\ i \in remaining /\ i \in Services /\ i # 0 /\ Service[i].host \in Hosts
         /\ i \notin in_progress /\ i \notin finished
         /\ svc[i] \in NFO /\ Progress(i, svc[i]) /\ svc[i].pending = {}
         /\ svc[i].state \in {"INITIAL"} \cup Working
         /\ clock \in [Hosts -> BOOLEAN]
<1>1. PICK i \in remaining : i = Least(remaining)
  <2>1. remaining \in SUBSET Nat
    BY ServiceType DEF ServiceInv, CoreInv, ListTypes
  <2> QED
    BY <2>1, LeastNat
<1>2. /\ i \in Services /\ i # 0 /\ Service[i].host \in Hosts
      /\ i \notin in_progress /\ i \notin finished /\ svc[i] \in NFO /\ clock \in [Hosts -> BOOLEAN]
  BY ServiceType DEF ServiceInv, CoreInv, ListTypes
<1>3. /\ Progress(i, svc[i]) /\ svc[i].state \in {"INITIAL"} \cup Working
      /\ svc[i].pending = {}
  BY <1>2 DEF ServiceInv, CoreInv, ProbesInv, RequestsInv, RequestsMatchLists
<1> QED
  BY <1>1, <1>2, <1>3

\* launchSomeServiceProbes() drops a service of a host that has timed out.
LEMMA LaunchTimedOutStep ==
  ASSUME ServiceInv, LaunchTimedOut
  PROVE  ServiceInv'
<1>1. Types /\ CoreInv /\ PhaseInv
  BY DEF ServiceInv
<1>2. /\ phase = "launch" /\ phase' = "launch" /\ sync = 0 /\ sync' = 0 /\ remaining # {}
      /\ targetno' = targetno /\ timedout' = timedout
  BY DEF LaunchTimedOut, CanLaunch, MoreToLaunch
<1>3. PICK i : i = Least(remaining)
  OBVIOUS
<1>4. /\ i \in remaining /\ i \in Services /\ svc[i] \in NFO /\ svc[i].pending = {}
      /\ clock \in [Hosts -> BOOLEAN]
  BY <1>2, <1>3, Front
<1>5. PICK verdict \in Verdicts : verdict = "INCOMPLETE" /\ verdict # "NOMATCH"
  BY DEF Verdicts
<1>6. EndWith(i, svc[i], verdict, clock)
  BY <1>3, <1>5 DEF LaunchTimedOut, end_svcprobe
<1>7. PICK r \in NFO : r = svc[i]
  BY <1>4
<1>8. CoreInv' /\ Moved
  BY <1>1, <1>2, <1>4, <1>5, <1>6, <1>7, EndStep
<1> QED
  BY <1>1, <1>2, <1>8, LaunchPhase DEF ServiceInv

\* launchSomeServiceProbes() launches a service.
LEMMA LaunchStep ==
  ASSUME ServiceInv, Launch
  PROVE  ServiceInv'
<1>1. Types /\ CoreInv /\ PhaseInv
  BY DEF ServiceInv
<1>2. /\ phase = "launch" /\ phase' = "launch" /\ sync = 0 /\ remaining # {}
      /\ targetno' = targetno /\ timedout' = timedout
  BY DEF Launch, CanLaunch, MoreToLaunch
<1>3. PICK i : i = Least(remaining)
  OBVIOUS
<1>4. /\ i \in remaining /\ i \in Services /\ i # 0 /\ Service[i].host \in Hosts
      /\ i \notin in_progress /\ i \notin finished
      /\ svc[i] \in NFO /\ Progress(i, svc[i]) /\ svc[i].pending = {}
      /\ svc[i].state \in {"INITIAL"} \cup Working
      /\ clock \in [Hosts -> BOOLEAN]
  BY <1>2, <1>3, Front
<1> DEFINE h == Service[i].host
           q == nextProbe(i, svc[i], TRUE)
           running == [clock EXCEPT ![h] = TRUE]
           t == [q EXCEPT !.iod = TRUE, !.pending = {"connect"}]
<1>5. IF q.state \notin Working
      THEN EndWith(i, q, q.state, running) /\ sync' = sync
      ELSE /\ svc' = [svc EXCEPT ![i] = t]
           /\ clock' = running
           /\ finished' = finished
           /\ \/ /\ sync' = 0
                 /\ remaining' = remaining \ {i}
                 /\ in_progress' = in_progress \cup {i}
              \/ /\ sync' = i
                 /\ remaining' = remaining /\ in_progress' = in_progress
  BY <1>3 DEF Launch
<1>6. /\ q \in NFO /\ Progress(i, q) /\ q.pending = {}
      /\ q.state \in Working \cup {"SOFTMATCHED", "NOMATCH"}
  <2>1. PICK r \in NFO : r = svc[i]
    BY <1>4
  <2> QED
    BY <1>4, <2>1, NextProbeStep
<1>7. /\ running \in [Hosts -> BOOLEAN] /\ running[h]
      /\ \A g \in Hosts : (clock[g] => running[g]) /\ (running[g] = clock[g] \/ g = h)
  BY <1>4
<1> HIDE DEF q, running
<1>8. CASE q.state \notin Working
  <2>1. PICK verdict \in Verdicts : verdict = q.state
    BY <1>6, <1>8 DEF Verdicts
  <2>2. EndWith(i, q, verdict, running) /\ sync' = 0
    BY <1>2, <1>5, <1>8, <2>1
  <2>3. CoreInv' /\ Moved
    BY <1>1, <1>2, <1>4, <1>6, <1>7, <2>1, <2>2, EndStep
  <2> QED
    BY <1>1, <1>2, <2>2, <2>3, LaunchPhase DEF ServiceInv
<1>9. CASE q.state \in Working
  <2>1. /\ svc' = [svc EXCEPT ![i] = t] /\ clock' = running /\ finished' = finished
        /\ \/ /\ sync' = 0
              /\ remaining' = remaining \ {i}
              /\ in_progress' = in_progress \cup {i}
           \/ /\ sync' = i
              /\ remaining' = remaining /\ in_progress' = in_progress
    BY <1>5, <1>9
  <2>2. /\ t \in NFO /\ t.pending = {"connect"} /\ t.state = q.state /\ t.probe = q.probe
        /\ t.ssl = q.ssl /\ t.soft = q.soft /\ t.tried = q.tried
    BY <1>6 DEF NFO
  <2> HIDE DEF t
  <2>3. Progress(i, t) /\ RequestKinds(t)
    BY <1>4, <1>6, <2>2, SameProbes DEF RequestKinds
  <2>4. /\ svc' \in [Services -> NFO] /\ svc'[i] = t
        /\ \A j \in Services : j # i => svc'[j] = svc[j]
    BY <1>1, <1>4, <2>1, <2>2 DEF CoreInv, ListTypes
  <2>5. ListTypes'
    BY <1>1, <1>4, <1>7, <2>1, <2>4 DEF CoreInv, ListTypes
  <2>6. ProbesInv'
    BY <1>1, <1>9, <2>1, <2>2, <2>3, <2>4 DEF CoreInv, ProbesInv
  <2>7. RequestsInv'
    <3>1. ASSUME NEW j \in Services
          PROVE  /\ svc'[j].pending # {} <=>
                      (j \in in_progress' \/ (j = sync' /\ j \in remaining'))
                 /\ RequestKinds(svc'[j])
      <4>1. CASE j = i
        BY <1>4, <2>1, <2>2, <2>3, <2>4, <4>1
      <4>2. CASE j # i
        <5>1. j # 0
          BY ServiceType
        <5>2. /\ svc[j].pending # {} <=> j \in in_progress
              /\ RequestKinds(svc[j])
          BY <1>1, <1>2, <5>1 DEF CoreInv, RequestsInv, RequestsMatchLists
        <5> QED
          BY <2>1, <2>4, <4>2, <5>1, <5>2
      <4> QED
        BY <4>1, <4>2
    <3>2. sync' \in remaining' => svc'[sync'].pending = {"connect"}
      <4>1. 0 \notin remaining
        BY <1>1, ServiceType DEF CoreInv, ListTypes
      <4> QED
        BY <2>1, <2>2, <2>4, <4>1
    <3> QED
      BY <3>1, <3>2 DEF RequestsInv, RequestsMatchLists
  <2>8. ClockCoversWork'
    <3>1. \A g \in Hosts : Unfinished(g)' = Unfinished(g)
      BY <1>4, <2>1 DEF Unfinished
    <3>2. i \in Unfinished(h)
      BY <1>4 DEF Unfinished
    <3>3. ASSUME NEW g \in Hosts, clock'[g] PROVE Unfinished(g)' # {}
      BY <1>1, <1>7, <2>1, <3>1, <3>2, <3>3 DEF CoreInv, ClockCoversWork
    <3>4. ASSUME NEW j \in in_progress' PROVE clock'[Service[j].host]
      <4>1. j \in in_progress \/ j = i
        BY <2>1
      <4>2. in_progress \subseteq Services
        BY <1>1 DEF CoreInv, ListTypes
      <4>3. j \in in_progress => clock[Service[j].host] /\ Service[j].host \in Hosts
        BY <1>1, <4>2, ServiceType DEF CoreInv, ClockCoversWork
      <4> QED
        BY <1>7, <2>1, <4>1, <4>3
    <3> QED
      BY <3>3, <3>4 DEF ClockCoversWork
  <2>9. remaining' \cup in_progress' \cup finished' = remaining \cup in_progress \cup finished
    BY <1>4, <2>1
  <2>10. PhaseInv'
    BY <1>1, <1>2, <2>9 DEF PhaseInv
  <2>11. Types'
    BY <1>1, <1>2, <1>4, <2>1 DEF Types
  <2> QED
    BY <2>5, <2>6, <2>7, <2>8, <2>10, <2>11 DEF ServiceInv, CoreInv
<1> QED
  BY <1>8, <1>9

\* Steps that leave the lists, the services and the clocks alone.
LEMMA CoreUnchanged ==
  ASSUME CoreInv, UNCHANGED <<lists, svc, sync, clock>>
  PROVE  CoreInv'
  BY DEF CoreInv, ListTypes, ProbesInv, RequestsInv, RequestsMatchLists, ClockCoversWork,
         Unfinished, lists

\* launchSomeServiceProbes() returns.
LEMMA LaunchEndStep ==
  ASSUME ServiceInv, LaunchEnd
  PROVE  ServiceInv'
<1>1. CoreInv'
  BY CoreUnchanged DEF ServiceInv, LaunchEnd
<1>2. /\ phase = "launch" /\ phase' = "loop" /\ sync = 0
      /\ UNCHANGED <<targetno, lists, sync, timedout, clock>>
      /\ remaining = {} \/ ~ (Cardinality(in_progress) < Parallelism)
  BY DEF LaunchEnd, CanLaunch, MoreToLaunch
<1>3. Types'
  BY <1>2 DEF ServiceInv, Types
<1>4. remaining = {} \/ Cardinality(in_progress) >= Parallelism
  <2>1. IsFiniteSet(in_progress)
    <3>1. in_progress \subseteq 1 .. Len(Service) /\ Len(Service) \in Nat
      BY ServiceAssumption DEF ServiceInv, CoreInv, ListTypes, Services
    <3>2. PICK n \in Nat : n = Len(Service)
      BY <3>1
    <3>3. IsFiniteSet(1 .. n)
      BY FS_Interval
    <3> QED
      BY <3>1, <3>2, <3>3, FS_Subset
  <2>2. Cardinality(in_progress) \in Nat
    BY <2>1, FS_CardinalityType
  <2> QED
    BY <1>2, <2>2, ConstantType
<1>5. PhaseInv'
  BY <1>2, <1>4 DEF ServiceInv, PhaseInv, SomeTimedOut, lists
<1> QED
  BY <1>1, <1>3, <1>5 DEF ServiceInv

\* service_scan() ends.
LEMMA ScanEndStep ==
  ASSUME ServiceInv, ScanEnd
  PROVE  ServiceInv'
<1>1. CoreInv'
  BY CoreUnchanged DEF ServiceInv, ScanEnd
<1>2. /\ phase = "loop" /\ phase' = "done" /\ sync = 0
      /\ UNCHANGED <<targetno, lists, sync, timedout, clock>>
      /\ \A i \in Services : svc[i].pending = {}
  BY DEF ScanEnd
<1>3. Types'
  BY <1>2 DEF ServiceInv, Types
<1>4. in_progress = {}
  BY <1>2 DEF ServiceInv, CoreInv, ListTypes, RequestsInv, RequestsMatchLists
<1>5. ~ (Cardinality(in_progress) >= Parallelism)
  BY <1>4, FS_EmptySet, ConstantType
<1>6. PhaseInv'
  BY <1>2, <1>4, <1>5 DEF ServiceInv, PhaseInv, SomeTimedOut, lists
<1> QED
  BY <1>1, <1>3, <1>6 DEF ServiceInv

\* The clock of a host runs out.
LEMMA HostTimesOutStep ==
  ASSUME ServiceInv, NEW h \in Hosts, HostTimesOut(h)
  PROVE  ServiceInv'
<1>1. CoreInv'
  BY CoreUnchanged DEF ServiceInv, HostTimesOut
<1>2. /\ timedout' = [timedout EXCEPT ![h] = TRUE]
      /\ UNCHANGED <<phase, targetno, lists, sync, clock>>
  BY DEF HostTimesOut
<1>3. timedout \in [Hosts -> BOOLEAN]
  BY DEF ServiceInv, Types
<1>4. /\ timedout' \in [Hosts -> BOOLEAN] /\ timedout'[h]
      /\ \A g \in Hosts : timedout[g] => timedout'[g]
  BY <1>2, <1>3
<1>5. Types'
  BY <1>2, <1>4 DEF ServiceInv, Types
<1>6. SomeTimedOut' /\ \A i \in Services : Service[i].host \in Hosts
  BY <1>4, ServiceType DEF SomeTimedOut
<1>7. PhaseInv'
  BY <1>2, <1>4, <1>6 DEF ServiceInv, PhaseInv, lists
<1> QED
  BY <1>1, <1>5, <1>7 DEF ServiceInv

\* Every step keeps the invariant.
LEMMA NextService == ServiceInv /\ [Next]_vars => ServiceInv'
<1> SUFFICES ASSUME ServiceInv, [Next]_vars PROVE ServiceInv'
  OBVIOUS
<1>1. CASE UNCHANGED vars
  <2>1. CoreInv'
    BY <1>1, CoreUnchanged DEF vars, ServiceInv
  <2>2. Types' /\ PhaseInv'
    BY <1>1 DEF vars, lists, ServiceInv, Types, PhaseInv, SomeTimedOut
  <2> QED
    BY <2>1, <2>2 DEF ServiceInv
<1>2. ASSUME NEW i \in Services, Handler(i) PROVE ServiceInv'
  BY <1>2, ConnectFailsStep, ConnectedStep, WrittenStep, WriteTimedOutStep, WriteFailsStep,
     ReadAbortsStep, DataReadStep, ReadTimesOutStep, PeerClosesStep, ReadErrorStep DEF Handler
<1>3. CASE Step
  BY <1>2, <1>3, AddTargetStep, EarlyMatchStep, StartScanStep, LaunchTimedOutStep, LaunchStep,
     LaunchEndStep, ScanEndStep DEF Step
<1>4. ASSUME NEW h \in Hosts, HostTimesOut(h) PROVE ServiceInv'
  BY <1>4, HostTimesOutStep
<1>5. CASE Finished
  BY <1>1, <1>5 DEF Finished
<1> QED
  BY <1>1, <1>3, <1>4, <1>5 DEF Next

\* Every behaviour of version detection has the invariant.
LEMMA ServiceInductive == Spec => []ServiceInv
  BY InitService, NextService, PTL DEF Spec

--------------------------------------------------------------------------------
(* The theorems.                                                            *)

\* Every request that nsock will report belongs to a service that is being worked on,
\* and every such service waits for one: the assertion of end_svcprobe() cannot fail,
\* and no service holds its slot for ever for want of a request.
THEOREM RequestsAndLists == Spec => []RequestsMatchLists
<1>1. ServiceInv => RequestsMatchLists
  BY DEF ServiceInv, CoreInv, RequestsInv
<1> QED
  BY <1>1, ServiceInductive, PTL

\* handleHostIfDone() and launchSomeServiceProbes() run the clock of a host while one
\* of its services is in progress and never beyond the last one.
THEOREM ClocksCoverWork == Spec => []ClockCoversWork
<1>1. ServiceInv => ClockCoversWork
  BY DEF ServiceInv, CoreInv
<1> QED
  BY <1>1, ServiceInductive, PTL

\* nextProbe() gives a service up as unrecognised only after every probe for its port
\* and every other probe common enough was begun, whatever tunnel it was moved into.
THEOREM NoMatchAfterAllProbes == Spec => []NoMatchIsExhaustive
<1>1. ServiceInv => NoMatchIsExhaustive
  BY DEF ServiceInv, CoreInv, ListTypes, ProbesInv, Progress, Suits, Probable, Begun,
         NoMatchIsExhaustive
<1> QED
  BY <1>1, ServiceInductive, PTL

\* When no host timed out, service_scan() returns with every service on the list of
\* the finished ones, whatever the handlers were told and in which order.
THEOREM AllServicesFinish == Spec => []EveryServiceFinished
<1>1. ServiceInv => EveryServiceFinished
  <2> SUFFICES ASSUME ServiceInv, phase = "done", \A h \in Hosts : ~timedout[h]
               PROVE  finished = Services
    BY DEF EveryServiceFinished
  <2>1. in_progress = {} /\ remaining = {} /\ targetno = NumHosts /\ finished \subseteq Services
    BY DEF ServiceInv, PhaseInv, SomeTimedOut, CoreInv, ListTypes
  <2>2. \A i \in Services : i \in finished
    BY <2>1, ServiceType DEF ServiceInv, PhaseInv
  <2> QED
    BY <2>1, <2>2
<1> QED
  BY <1>1, ServiceInductive, PTL

================================================================================
