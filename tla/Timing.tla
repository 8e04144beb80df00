-------------------------------- MODULE Timing --------------------------------
(***************************************************************************)
(* How the probe engine paces itself (timing.cc and its callers in         *)
(* scan_engine.cc): the congestion windows of the hosts and of the group,  *)
(* the delay between the probes to a host, and the estimates of the        *)
(* round-trip time that decide when a probe times out.                     *)
(*                                                                         *)
(* Which probes are sent is UltraScan's matter: here a probe may be sent   *)
(* at any time, as the delay of rate limit detection and --min-rate let    *)
(* probes past the windows, with a tryno that is within the adaptive limit *)
(* and due because a probe of the tryno before it has timed out; and any   *)
(* outstanding probe may be answered, in time or late, time out, or        *)
(* expire.                                                                 *)
(*                                                                         *)
(* A window is a double in the code and a number of 1/Unit probes here,    *)
(* rounded down.  Round-trip times are microseconds, delays milliseconds.  *)
(* Variables of hosts and group are functions on Hosts \cup {Group}.       *)
(***************************************************************************)
EXTENDS Integers, FiniteSets

CONSTANTS
  NumHosts,        \* hosts 1..NumHosts of the group
  MaxProbes,       \* bound: outstanding probes of a host
  MaxSends,        \* bound: probes sent to a host
  MaxTryno,        \* bound: the highest tryno
  MaxTime,         \* bound: changes of USI->now
  Unit,            \* parts of a probe that windows are counted in
  MinParallelism, MaxParallelism,   \* o.min_parallelism, o.max_parallelism; 0: not given
  TimingLevel,     \* o.timing_level
  ScanDelay,       \* o.scan_delay
  MaxDelays,       \* what the options may leave sdn.maxdelay at
  FirstDelay,      \* the first delay of boostScanDelay(): 50 for UDP scans, 5 for others
  ManyDrops,       \* drops that a host may have before its delay is raised: 10
  FewProbes,       \* probes after which a host without ping probe uses the group's window: 80
  MinRtt, InitialRtt, MaxRtt,       \* o.minRttTimeout() and so on
  Deltas,          \* the round-trip times that may be measured
  ArpScan,         \* USI->ping_scan_arp
  PingScan         \* USI->ping_scan: answers go through ultrascan_host_probe_update()

Hosts == 1 .. NumHosts
Group == 0
Slots == 1 .. MaxProbes
NoProbe == [out |-> FALSE]

ASSUME BoundsAssumption ==
  /\ NumHosts \in Nat \ {0} /\ MaxProbes \in Nat \ {0} /\ MaxSends \in Nat
  /\ MaxTryno \in Nat /\ MaxTime \in Nat /\ Unit \in Nat \ {0}

\* NmapOps::ValidateOptions() refuses a minimum above the maximum, the setters of
\* the RTT timeouts keep them in order.
ASSUME OptionsAssumption ==
  /\ MinParallelism \in Nat /\ MaxParallelism \in Nat /\ TimingLevel \in 0 .. 5
  /\ MaxParallelism # 0 => MinParallelism <= MaxParallelism
  /\ ScanDelay \in Nat /\ MaxDelays \subseteq Nat /\ FirstDelay \in {5, 50}
  /\ ManyDrops \in Nat /\ FewProbes \in Nat
  /\ MinRtt \in Nat /\ InitialRtt \in Nat \ {0} /\ MaxRtt \in Nat \ {0}
  /\ MinRtt <= InitialRtt /\ InitialRtt <= MaxRtt
  /\ Deltas \subseteq Int
  /\ ArpScan \in BOOLEAN /\ PingScan \in BOOLEAN

\* srtt, rttvar and timeout are int in the code and numbers here.  Within these
\* samples, of up to four and a half minutes, nothing that adjust_timeouts2() computes
\* leaves 32 bits: an estimate lies within its samples and a deviation grows by at most
\* a quarter of their difference.
ASSUME SamplesAssumption == \A d \in Deltas : -268435456 <= d /\ d <= 268435456

VARIABLES
  now,                   \* USI->now, the time of the current step
  probes,                \* probes_outstanding of each host, by slot
  numprobes_sent,        \* of each host
  retries,               \* of each host: the highest tryno that is due
  pingprobe,             \* whether a host has a ping probe
  max_successful_tryno,  \* of each host
  timing,                \* the ultra_timing_vals of hosts and group
  sdn,                   \* the send_delay_nfo of each host
  to                     \* the timeout_info of hosts and group

vars == <<now, probes, numprobes_sent, retries, pingprobe, max_successful_tryno, timing,
          sdn, to>>

\* The records of the engine.  hit, lo and hi are history: the windows that were
\* reduced while a probe was outstanding, and the range of the samples that an
\* estimate was made of.
UltraProbe ==
  [out : {TRUE}, sent : Nat, ping : BOOLEAN, tryno : Nat, timedout : BOOLEAN,
   hit : SUBSET (Hosts \cup {Group})]
ultra_timing_vals ==
  [cwnd : Nat, ssthresh : Nat, expected : Nat, received : Nat, updates : Nat, last_drop : Nat]
send_delay_nfo == [delayms : Nat, good : Nat, bad : Nat, last_boost : Nat, maxdelay : Nat]
timeout_info == [srtt : Int, rttvar : Int, timeout : Int, lo : Int, hi : Int]

MaxOf(a, b) == IF a > b THEN a ELSE b
MinOf(a, b) == IF a < b THEN a ELSE b
Abs(a) == IF a >= 0 THEN a ELSE -a

box(bmin, bmax, bnum) ==
  IF bnum >= bmax THEN bmax ELSE IF bnum <= bmin THEN bmin ELSE bnum
-------------------------------------------------------------------------------
(* scan_performance_vars::init().                                           *)

low_cwnd == IF MinParallelism # 0 THEN MinParallelism ELSE 1
max_cwnd == MaxOf(low_cwnd, IF MaxParallelism # 0 THEN MaxParallelism ELSE 300)
initial_cwnd == box(low_cwnd, max_cwnd, 10)
ca_incr == IF TimingLevel < 4 THEN 1 ELSE 2
cc_scale_max == 50
initial_ssthresh == 75
ping_magnifier == 3

\* in_flight / ssthresh_divisor, without its fraction.
Reduced(in_flight) ==
  CASE TimingLevel <= 3 -> (in_flight * 2) \div 3
    [] TimingLevel = 4 -> (in_flight * 3) \div 4
    [] OTHER -> (in_flight * 4) \div 5
-------------------------------------------------------------------------------
(* The congestion window: ultra_timing_vals.                                *)

NewTiming(t) ==
  [cwnd |-> initial_cwnd * Unit, ssthresh |-> initial_ssthresh,
   expected |-> 0, received |-> 0, updates |-> 0, last_drop |-> t]

\* n parts of a probe times cc_scale().
cc_scale(v, n) ==
  IF v.expected > cc_scale_max * v.received THEN n * cc_scale_max
  ELSE (n * v.expected) \div v.received

\* Slow start up to the threshold, congestion avoidance above it.
ack(v, scale) ==
  LET r == [v EXCEPT !.received = @ + 1]
      grown == IF r.cwnd < r.ssthresh * Unit
               THEN MinOf(r.cwnd + cc_scale(r, Unit * scale), r.ssthresh * Unit)
               ELSE r.cwnd + cc_scale(r, ca_incr * Unit * Unit * scale) \div r.cwnd
  IN  [r EXCEPT !.cwnd = MinOf(grown, max_cwnd * Unit)]

drop(v, in_flight) ==
  [v EXCEPT !.cwnd = low_cwnd * Unit, !.ssthresh = MaxOf(Reduced(in_flight), 2),
            !.last_drop = now]

\* Mutant: the time of the drop is not kept.
DropGroupUntimed(v, in_flight) ==
  [v EXCEPT !.cwnd = MaxOf(low_cwnd * Unit, @ \div 2),
            !.ssthresh = MaxOf(Reduced(in_flight), 2)]

\* Mutant: the window is halved without a limit.
DropGroupUnlimited(v, in_flight) ==
  [v EXCEPT !.cwnd = @ \div 2, !.ssthresh = MaxOf(Reduced(in_flight), 2),
            !.last_drop = now]

drop_group(v, in_flight) ==
  [v EXCEPT !.cwnd = MaxOf(low_cwnd * Unit, @ \div 2),
            !.ssthresh = MaxOf(Reduced(in_flight), 2), !.last_drop = now]

\* getTiming(): the window that a host is held to.
getTiming(h) ==
  IF pingprobe[h] \/ numprobes_sent[h] < FewProbes THEN timing[h].cwnd
  ELSE IF timing[Group].updates > 1 THEN timing[Group].cwnd
  ELSE initial_cwnd * Unit
-------------------------------------------------------------------------------
(* The delay between probes: send_delay_nfo.                                *)

\* Mutant: the delay of --scan-delay is not looked at.
BoostFromScratch(s) ==
  [s EXCEPT !.delayms = MinOf(IF @ < 1000 THEN FirstDelay ELSE @, s.maxdelay),
            !.last_boost = now, !.bad = 0, !.good = 0]

boostScanDelay(s) ==
  LET more == IF s.delayms >= 1000 THEN s.delayms
              ELSE IF s.delayms = 0 THEN FirstDelay
              ELSE MinOf(s.delayms * 2, 1000)
  IN  [s EXCEPT !.delayms = MinOf(more, s.maxdelay), !.last_boost = now,
                !.bad = 0, !.good = 0]

\* More than 0.30 (-T4 and up: 0.40) of the answers show a drop.
TooManyDrops(s) ==
  /\ s.bad > ManyDrops
  /\ 10 * s.bad > (IF TimingLevel >= 4 THEN 4 ELSE 3) * (s.bad + s.good)
-------------------------------------------------------------------------------
(* The round-trip time: timeout_info.                                       *)

initialize_timeout_info ==
  [srtt |-> -1, rttvar |-> -1, timeout |-> InitialRtt * 1000, lo |-> 0, hi |-> 0]

\* Mutant: the average is taken without its sign.
SmoothedByTruncation(srtt, rttdelta) ==
  srtt + (IF rttdelta >= 0 THEN rttdelta \div 8 ELSE (-rttdelta) \div 8)

\* srtt += rttdelta >> 3.
Smoothed(srtt, rttdelta) == srtt + rttdelta \div 8

\* rttvar += (ABS(rttdelta) - rttvar) >> 2.
SmoothedVar(rttvar, rttdelta) == rttvar + (Abs(rttdelta) - rttvar) \div 4

\* Samples after the first that are too large to be true, or negative.
Ignored(t, delta) ==
  \/ delta >= 8000000 \/ delta < 0
  \/ delta - t.srtt > 1500000 /\ delta - t.srtt > 3 * t.srtt + 2 * t.rttvar

\* The limits of --min-rtt-timeout, --max-rtt-timeout and --scan-delay.
Limited(timeout) == MaxOf(box(MinRtt * 1000, MaxRtt * 1000, timeout), ScanDelay * 1000)

adjust_timeouts2(t, sample) ==
  LET delta == IF sample < 0 /\ sample > -50000 THEN 10000 ELSE sample
      first == t.srtt = -1 /\ t.rttvar = -1
      srtt == IF first THEN delta ELSE Smoothed(t.srtt, delta - t.srtt)
      rttvar == IF first THEN box(5000, 2000000, delta)
                ELSE SmoothedVar(t.rttvar, delta - t.srtt)
  IN  IF ~first /\ Ignored(t, delta) THEN t
      ELSE [srtt |-> srtt,
            rttvar |-> IF rttvar > 2300000 THEN 2000000 ELSE rttvar,
            timeout |-> Limited(srtt + 4 * rttvar),
            lo |-> IF first THEN delta ELSE MinOf(t.lo, delta),
            hi |-> IF first THEN delta ELSE MaxOf(t.hi, delta)]

\* probeTimeout(): the host's estimate, or the group's, or the host's default.
probeTimeout(h) ==
  IF to[h].srtt > 0 \/ to[Group].srtt <= 0 THEN to[h].timeout ELSE to[Group].timeout
-------------------------------------------------------------------------------
\* The estimate of a host may date from an earlier scan.  -T0, -T1 and
\* --max-scan-delay leave the delay above its maximum.
Init ==
  /\ now = 0
  /\ probes = [h \in Hosts |-> [s \in Slots |-> NoProbe]]
  /\ numprobes_sent = [h \in Hosts |-> 0] /\ retries = [h \in Hosts |-> 0]
  /\ pingprobe \in [Hosts -> BOOLEAN]
  /\ max_successful_tryno = [h \in Hosts |-> 0]
  /\ timing = [x \in Hosts \cup {Group} |-> NewTiming(0)]
  /\ \E max \in MaxDelays :
       sdn = [h \in Hosts |-> [delayms |-> ScanDelay, good |-> 0, bad |-> 0, last_boost |-> 0,
                               maxdelay |-> max]]
  /\ LET group == [initialize_timeout_info EXCEPT
                     !.timeout = IF ArpScan THEN box(MinRtt, InitialRtt, 200) * 1000 ELSE @]
         earlier == {initialize_timeout_info}
                      \cup {adjust_timeouts2(initialize_timeout_info, d) : d \in Deltas}
     IN  \E f \in [Hosts -> earlier] :
           to = [x \in Hosts \cup {Group} |-> IF x = Group THEN group ELSE f[x]]

Outstanding(h, s) == probes[h][s] # NoProbe
Active(h) == {s \in Slots : Outstanding(h, s) /\ ~probes[h][s].timedout}
num_probes_active(h) == Cardinality(Active(h))
group_probes_active == Cardinality({x \in Hosts \X Slots : x[2] \in Active(x[1])})

Send(h, ping, tryno) ==
  /\ numprobes_sent[h] < MaxSends
  /\ tryno <= retries[h] /\ tryno <= MaxOf(1, max_successful_tryno[h] + 1)
  /\ ping => pingprobe[h] /\ tryno = 0
  /\ \E s \in Slots :
       /\ ~Outstanding(h, s) /\ \A q \in 1 .. s - 1 : Outstanding(h, q)
       /\ probes' = [probes EXCEPT ![h][s] =
                       [out |-> TRUE, sent |-> now, ping |-> ping, tryno |-> tryno,
                        timedout |-> FALSE, hit |-> {}]]
  /\ numprobes_sent' = [numprobes_sent EXCEPT ![h] = @ + 1]
  /\ UNCHANGED <<now, retries, pingprobe, max_successful_tryno, timing, sdn, to>>

\* USI->now = gettimeofday().
Tick ==
  /\ now < MaxTime
  /\ now' = now + 1
  /\ UNCHANGED <<probes, numprobes_sent, retries, pingprobe, max_successful_tryno, timing,
                 sdn, to>>

\* ultrascan_adjust_timing() for a probe p that was answered or not.
is_drop(p, answered) == IF p.ping THEN ~answered ELSE p.tryno > 0 /\ answered

\* Drops come in batches: the window x is reduced once for each.
Reduces(x, p, answered) == is_drop(p, answered) /\ p.sent > timing[x].last_drop

\* The window x after it; in_flight are its active probes.
Adjusted(x, p, answered, in_flight) ==
  LET v == [timing[x] EXCEPT !.expected = @ + 1, !.updates = @ + 1]
      r == IF ~Reduces(x, p, answered) THEN v
           ELSE IF x = Group THEN drop_group(v, in_flight) ELSE drop(v, in_flight)
  IN  IF answered THEN ack(r, IF p.ping THEN ping_magnifier ELSE 1) ELSE r

\* The delay of host h after it.
Delayed(h, p, answered) ==
  LET s == IF is_drop(p, answered) /\ p.sent > sdn[h].last_boost
           THEN [sdn[h] EXCEPT !.bad = @ + 1]
           ELSE IF answered THEN [sdn[h] EXCEPT !.good = @ + 1]
           ELSE sdn[h]
  IN  IF TooManyDrops(s) THEN boostScanDelay(s) ELSE s

\* The windows of h and of the group, with n and m active probes.
AdjustTiming(h, p, answered, n, m) ==
  timing' = [timing EXCEPT ![h] = Adjusted(h, p, answered, n),
                           ![Group] = Adjusted(Group, p, answered, m)]

\* The probes, p the one in slot s of h, which becomes q.
ProbesAfter(h, s, q, reducing) ==
  probes' = [i \in Hosts |-> [j \in Slots |->
    IF i = h /\ j = s THEN q
    ELSE IF ~Outstanding(i, j) THEN NoProbe
    ELSE [probes[i][j] EXCEPT !.hit = @ \cup (reducing \cap {i, Group})]]]

Reducing(h, p, answered) == {x \in {h, Group} : Reduces(x, p, answered)}

\* markProbeTimedout(): an unanswered ping is a drop.
TimeOut(h, s) ==
  LET p == probes[h][s]
  IN  /\ Outstanding(h, s) /\ ~p.timedout
      /\ AdjustTiming(h, p, FALSE, num_probes_active(h) - 1, group_probes_active - 1)
      /\ sdn' = [sdn EXCEPT ![h] = Delayed(h, p, FALSE)]
      /\ ProbesAfter(h, s, [p EXCEPT !.timedout = TRUE, !.hit = @ \cup Reducing(h, p, FALSE)],
                     Reducing(h, p, FALSE))
      /\ retries' = IF p.ping THEN retries ELSE [retries EXCEPT ![h] = MaxOf(@, p.tryno + 1)]
      /\ UNCHANGED <<now, numprobes_sent, pingprobe, max_successful_tryno, to>>

\* A global ping that times out after processData() has gone through the hosts:
\* ultrascan_ping_update() without a time.
GlobalPingExpires(h, s) ==
  LET p == probes[h][s]
  IN  /\ Outstanding(h, s) /\ p.ping
      /\ AdjustTiming(h, p, FALSE, num_probes_active(h), group_probes_active)
      /\ sdn' = [sdn EXCEPT ![h] = Delayed(h, p, FALSE)]
      /\ ProbesAfter(h, s, NoProbe, Reducing(h, p, FALSE))
      /\ UNCHANGED <<now, numprobes_sent, retries, pingprobe, max_successful_tryno, to>>

\* A probe that was kept for a late answer is dropped from the list.
Expire(h, s) ==
  /\ Outstanding(h, s) /\ (probes[h][s].ping \/ probes[h][s].timedout)
  /\ probes' = [probes EXCEPT ![h][s] = NoProbe]
  /\ UNCHANGED <<now, numprobes_sent, retries, pingprobe, max_successful_tryno, timing,
                 sdn, to>>

\* ultrascan_adjust_timeouts(), for every answer.
AdjustTimeouts(h, sample) ==
  to' = [to EXCEPT ![h] = adjust_timeouts2(@, sample), ![Group] = adjust_timeouts2(@, sample)]

\* An answer that is no measure of the traffic (an ICMP error to a retransmission,
\* a limited rate that is to be defeated): only the time is used.
AnswerUncounted(h, s, sample) ==
  /\ Outstanding(h, s)
  /\ AdjustTimeouts(h, sample)
  /\ probes' = [probes EXCEPT ![h][s] = NoProbe]
  /\ UNCHANGED <<now, numprobes_sent, retries, pingprobe, max_successful_tryno, timing,
                 sdn>>

\* Any other answer, in ultrascan_ping_update(), ultrascan_host_probe_update() or
\* ultrascan_port_probe_update(); the last raises the try limit.  found: the probe
\* is a better ping probe than the host had.
Answer(h, s, sample, found) ==
  LET p == probes[h][s]
      raises == ~PingScan /\ p.tryno > max_successful_tryno[h]
      s1 == Delayed(h, p, TRUE)
  IN  /\ Outstanding(h, s) /\ (p.ping => ~found)
      /\ AdjustTimeouts(h, sample)
      /\ AdjustTiming(h, p, TRUE, num_probes_active(h), group_probes_active)
      /\ max_successful_tryno' = IF raises THEN [max_successful_tryno EXCEPT ![h] = p.tryno]
                                 ELSE max_successful_tryno
      /\ sdn' = [sdn EXCEPT ![h] =
                   IF raises /\ p.tryno > (IF TimingLevel >= 4 THEN 4 ELSE 3)
                   THEN boostScanDelay(s1) ELSE s1]
      /\ pingprobe' = [pingprobe EXCEPT ![h] = @ \/ found]
      /\ ProbesAfter(h, s, NoProbe, Reducing(h, p, TRUE))
      /\ UNCHANGED <<now, numprobes_sent, retries>>

\* The scan is over once nothing is outstanding.
ScanOver == (\A h \in Hosts, s \in Slots : ~Outstanding(h, s)) /\ UNCHANGED vars

Next ==
  \/ Tick
  \/ \E h \in Hosts, ping \in BOOLEAN, tryno \in 0 .. MaxTryno : Send(h, ping, tryno)
  \/ \E h \in Hosts, s \in Slots :
       \/ TimeOut(h, s) \/ GlobalPingExpires(h, s) \/ Expire(h, s)
       \/ \E sample \in Deltas :
            AnswerUncounted(h, s, sample) \/ \E found \in BOOLEAN : Answer(h, s, sample, found)
  \/ ScanOver

Spec == Init /\ [][Next]_vars
-------------------------------------------------------------------------------
(* Properties.                                                              *)

\* The fields of ultra_timing_vals, send_delay_nfo and timeout_info have their
\* types (timing.h:77-131, scan_engine.h:316-324).
TypeOK ==
  /\ now \in Nat
  /\ probes \in [Hosts -> [Slots -> UltraProbe \cup {NoProbe}]]
  /\ numprobes_sent \in [Hosts -> Nat] /\ retries \in [Hosts -> Nat]
  /\ pingprobe \in [Hosts -> BOOLEAN]
  /\ max_successful_tryno \in [Hosts -> Nat]
  /\ timing \in [Hosts \cup {Group} -> ultra_timing_vals]
  /\ sdn \in [Hosts -> send_delay_nfo]
  /\ to \in [Hosts \cup {Group} -> timeout_info]

\* The windows stay between low_cwnd and max_cwnd and the thresholds at two or
\* more, whatever the order of answers and drops: with nothing in flight
\* sendOK() always finds room for a probe, be it in the window of the host, in that
\* of the group that getTiming() may put in its place, or in the canned one.
WindowWithinLimits(v) ==
  /\ low_cwnd * Unit <= v.cwnd /\ v.cwnd <= max_cwnd * Unit
  /\ v.ssthresh >= 2

HasRoom(cwnd, active) == 2 * cwnd >= (2 * active + 1) * Unit

WindowsStayOpen ==
  /\ \A x \in Hosts \cup {Group} : WindowWithinLimits(timing[x])
  /\ \A h \in Hosts : HasRoom(getTiming(h), 0)

\* A batch of drops reduces a window once: the probe that makes it shrink was not
\* outstanding when it shrank before.
Handled(h, s) ==
  /\ Outstanding(h, s)
  /\ probes'[h][s] = NoProbe \/ probes'[h][s].timedout # probes[h][s].timedout

OneDecreasePerBatch ==
  [][\A x \in Hosts \cup {Group} : timing'[x].cwnd < timing[x].cwnd =>
       \E h \in Hosts, s \in Slots : Handled(h, s) /\ x \notin probes[h][s].hit]_vars

\* No more replies are counted than were expected, however often a probe times out,
\* expires or is answered late: cc_scale() never makes a step of a window smaller
\* than it is.
RepliesWithinExpected ==
  \A x \in Hosts \cup {Group} : timing[x].received <= timing[x].expected

\* scan_engine.cc:1902: "Boost the scan delay for this host".  The delay between the
\* probes to a host never goes down, with the one exception that the code makes: a delay
\* that the options left above its maximum (-T0, -T1, a --max-scan-delay below
\* --scan-delay) falls to the maximum with the first boost, and not below it.  Once
\* boosted it stays within the maximum.
GrowsToMax(s, t) ==
  /\ t.maxdelay = s.maxdelay
  /\ t.delayms # s.delayms => /\ MinOf(s.delayms, s.maxdelay) <= t.delayms
                              /\ t.delayms <= s.maxdelay

DelayGrowsToMax == [][\A h \in Hosts : GrowsToMax(sdn[h], sdn'[h])]_vars

\* The estimate lies within the samples it was made of, although each step rounds,
\* the deviation within 2.3 seconds, and a timeout within the limits the user set,
\* also before the first sample and when the group's estimate stands in.
EstimateWithinSamples ==
  /\ \A x \in Hosts \cup {Group} :
       \/ to[x].srtt = -1 /\ to[x].rttvar = -1
       \/ /\ to[x].lo <= to[x].srtt /\ to[x].srtt <= to[x].hi
          /\ 0 <= to[x].rttvar /\ to[x].rttvar <= 2300000
  /\ \A h \in Hosts : /\ MinRtt * 1000 <= probeTimeout(h)
                      /\ probeTimeout(h) <= MaxOf(MaxRtt, ScanDelay) * 1000
===============================================================================
