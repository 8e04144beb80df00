----------------------------- MODULE UltraScan -----------------------------
(***************************************************************************)
(* The probe engine of scan_engine.cc: the loop of ultra_scan(), which     *)
(* sends probes to a group of hosts in parallel, times them out,           *)
(* retransmits them, puts the exhausted ones on a bench, and retires the   *)
(* hosts that are finished.                                                *)
(*                                                                         *)
(* The engine is single-threaded.  What it does not control is the clock   *)
(* and the network, and these are the nondeterminism of the model: which   *)
(* probes are old enough to time out or to expire, whether a time-based    *)
(* limit (scan delay, --max-rate, RLD wait, ping interval) lets a send     *)
(* through, and which outstanding probe is answered, how and when.         *)
(*                                                                         *)
(* A host is its rank in the address order of incompleteHosts, a port is   *)
(* its rank in the port list.  probes_outstanding is a set: the order of   *)
(* the list only selects which of several eligible probes goes first.      *)
(*                                                                         *)
(* The operators marked "Mutant" are no part of the model.  Each is the    *)
(* definition below it with a plausible mistake, and is there to show that *)
(* the properties notice the mistake.                                      *)
(***************************************************************************)
EXTENDS Integers, Sequences, FiniteSets

CONSTANTS
  NumHosts,     \* targets given to ultra_scan()
  NumPorts,     \* USI->numProbesPerHost()
  TrynoCap,     \* perf.tryno_cap, the --max-retries option
  HostCwnd,     \* the largest congestion window a host may reach
  GroupCwnd,    \* the largest congestion window the group may reach
  Scans,        \* the kinds of scan to look at, see ScanTypes
  HostTimeout,  \* whether --host-timeout is given
  HostPingGap,  \* probes to a host between two of its pings (10)
  GroupPingGap, \* probes between two global pings (20)
  IgnoreRst     \* --discovery-ignore-rst

\* "raw" stands for the port scans that read answers with pcap, "ping" and
\* "arp" for raw host discovery, the two others for connect() probes.
ScanTypes == {"raw", "connect", "ping", "arp", "connect_ping"}

ASSUME ConstantsAssumption ==
  /\ NumHosts \in Nat \ {0}
  /\ NumPorts \in Nat \ {0}
  /\ TrynoCap \in 0 .. 127
  /\ HostCwnd \in Nat \ {0}
  /\ GroupCwnd \in Nat \ {0}
  /\ Scans \subseteq ScanTypes
  /\ HostTimeout \in BOOLEAN
  /\ HostPingGap \in Nat \ {0}
  /\ GroupPingGap \in Nat \ {0}
  /\ IgnoreRst \in BOOLEAN

Hosts == 1 .. NumHosts
Ports == 1 .. NumPorts
NoHost == 0
End == NumHosts + 1   \* the past-the-end iterator of incompleteHosts

\* tryno.fields.seqnum has 7 bits.
Seqnum == 0 .. 127
NextSeqnum(t) == (t + 1) % 128

\* An UltraProbe.  A timing ping goes to the target's ping probe rather than
\* to a port of the scan; its port is PingPort and its tryno the ping sequence,
\* which wraps around.  nth, the ordinal of a ping of its host and 0 for a probe
\* of a port, stands for the identity of the object: two pings are two probes,
\* whatever their sequence numbers are.
PingPort == 0
UltraProbe ==
  {p \in [port : Ports \cup {PingPort}, tryno : Seqnum, nth : Nat,
          isPing : BOOLEAN, timedout : BOOLEAN, retransmitted : BOOLEAN] :
     /\ p.isPing <=> p.port = PingPort
     /\ ~p.isPing => p.nth = 0}
ScanProbe(port, t) == [port |-> port, tryno |-> t, nth |-> 0, isPing |-> FALSE,
                       timedout |-> FALSE, retransmitted |-> FALSE]
PingProbe(n) == [port |-> PingPort, tryno |-> n % 128, nth |-> n, isPing |-> TRUE,
                 timedout |-> FALSE, retransmitted |-> FALSE]

\* What is known of a port: nothing yet, an answer, or the tryno of the last
\* of the attempts that were all given up without an answer.
\* (Failed: connect() failed at once, for a reason the engine has no state for.)
Failed == -3
Unknown == -2
Answered == -1

VARIABLES
  scantype,       \* USI->scantype, as a member of ScanTypes
  pc,             \* the phase of the loop of ultra_scan()
  hostI,          \* iterator over incompleteHosts in processData()
  timedout,       \* local variable of removeCompletedHosts()
  hss,            \* local variables of doAnyNewProbes() and
  unableToSend,   \*   doAnyRetryStackRetransmits()
  incompleteHosts, completedHosts, nextI,
  pinghost, group_probes_active, num_hosts_timedout, group_since_ping,
  next_portidx, probes_outstanding, num_probes_active,
  num_probes_waiting_retransmit, probe_bench, bench_tryno, retry_stack,
  max_successful_tryno, max_tryno_sent,
  rld_waiting,    \* rate limit detection: "no", or whether its delay is over
  nxtpseq, since_ping,
  pingprobe,      \* whether target->pingprobe.type # PS_NONE
  flags,          \* target->flags, the host state of a discovery scan
  toclock,        \* the host timeout clock of the target
  result          \* what the scan has found out about each port

loopVars   == <<pc, hostI, timedout, hss, unableToSend>>
groupVars  == <<incompleteHosts, completedHosts, nextI, pinghost,
                num_hosts_timedout>>
probeVars  == <<probes_outstanding, num_probes_active, group_probes_active,
                num_probes_waiting_retransmit>>
benchVars  == <<probe_bench, bench_tryno, retry_stack>>
rldVars    == <<max_tryno_sent, rld_waiting>>
sentVars   == <<next_portidx, nxtpseq, since_ping, group_since_ping>>
targetVars == <<max_successful_tryno, pingprobe, flags, result>>
vars == <<loopVars, groupVars, probeVars, benchVars, rldVars, sentVars,
          targetVars, toclock, scantype>>

-----------------------------------------------------------------------------
(* What a host's statistics say. *)

ping_scan == scantype \in {"ping", "arp", "connect_ping"}
connect_probes == scantype \in {"connect", "connect_ping"}

\* Mutant: off by one at the last port.
FreshPortsLeftPast(h) == next_portidx[h] <= NumPorts
freshPortsLeft(h) == next_portidx[h] < NumPorts

\* The probes the engine counts as active, and those it counts as waiting.
Active(h)  == {p \in probes_outstanding[h] : ~p.timedout}
Waiting(h) == {p \in probes_outstanding[h] :
                 p.timedout /\ ~p.retransmitted /\ ~p.isPing}

uncapped_tryno(h) == max_successful_tryno[h] + 1
allowedTryno(h) == IF uncapped_tryno(h) > TrynoCap THEN TrynoCap
                                                   ELSE uncapped_tryno(h)
mayincrease(h) ==
  /\ uncapped_tryno(h) <= TrynoCap
  /\ \/ num_probes_active[h] # 0
     \/ freshPortsLeft(h)
     \/ \E p \in probes_outstanding[h] :
          ~p.retransmitted /\ ~p.isPing /\ p.tryno < allowedTryno(h)

\* Mutant: the bench is forgotten.
CompletedDespiteBench(h) ==
  /\ num_probes_active[h] = 0
  /\ num_probes_waiting_retransmit[h] = 0
  /\ retry_stack[h] = <<>>
  /\ \/ ping_scan /\ flags[h] # "UNKNOWN"
     \/ ~freshPortsLeft(h)
completed(h) ==
  /\ num_probes_active[h] = 0
  /\ num_probes_waiting_retransmit[h] = 0
  /\ probe_bench[h] = {}
  /\ retry_stack[h] = <<>>
  /\ \/ ping_scan /\ flags[h] # "UNKNOWN"
     \/ ~freshPortsLeft(h)

\* Target::timedOut() and the test every phase makes of it.
timedOut(h) == ~ping_scan /\ toclock[h] = "expired"

\* The limits on sending that do not depend on the time.  A pending rate-limit
\* delay that has run out lets a probe through whatever the window is.
HostSendOK(h) ==
  /\ ~timedOut(h)
  /\ ~completed(h)
  /\ \/ rld_waiting[h] = "over"
     \/ /\ rld_waiting[h] = "no"
        /\ num_probes_active[h] < HostCwnd
        /\ \/ freshPortsLeft(h)
           \/ num_probes_waiting_retransmit[h] # 0
           \/ retry_stack[h] # <<>>
GroupSendOK == \/ Cardinality(incompleteHosts) < 2
               \/ group_probes_active < GroupCwnd

\* The successor of a host in the address order, End after the last one.
Following(h, S) == IF \E g \in S : g > h
                   THEN CHOOSE g \in S : g > h /\ \A f \in S : f > h => g <= f
                   ELSE End
First(S) == Following(NoHost, S)
\* The circular iterator nextI moved on by one.
Advance(h, S) == IF Following(h, S) = End THEN First(S) ELSE Following(h, S)

Saturate(n, bound) == IF n < bound THEN n + 1 ELSE bound

-----------------------------------------------------------------------------
(* UltraScanInfo::Init().  Ping probes persist from host discovery, and    *)
(* targets that have already used up their time are left out.              *)

Init ==
  /\ scantype \in Scans
  /\ toclock \in [Hosts -> IF HostTimeout /\ ~ping_scan THEN {"off", "expired"}
                           ELSE {"off"}]
  /\ incompleteHosts = {h \in Hosts : toclock[h] = "off"}
  /\ num_hosts_timedout = Cardinality(Hosts \ incompleteHosts)
  /\ pc = IF incompleteHosts = {} THEN "done" ELSE "pings"
  /\ completedHosts = {}
  /\ nextI = First(incompleteHosts)
  /\ hostI = End /\ timedout = FALSE
  /\ hss = NoHost /\ unableToSend = NoHost
  /\ pinghost = NoHost
  /\ group_probes_active = 0 /\ group_since_ping = 0
  /\ next_portidx = [h \in Hosts |-> 0]
  /\ probes_outstanding = [h \in Hosts |-> {}]
  /\ num_probes_active = [h \in Hosts |-> 0]
  /\ num_probes_waiting_retransmit = [h \in Hosts |-> 0]
  /\ probe_bench = [h \in Hosts |-> {}]
  /\ bench_tryno = [h \in Hosts |-> 0]
  /\ retry_stack = [h \in Hosts |-> <<>>]
  /\ max_successful_tryno = [h \in Hosts |-> 0]
  /\ max_tryno_sent = [h \in Hosts |-> 0]
  /\ rld_waiting = [h \in Hosts |-> "no"]
  /\ nxtpseq = [h \in Hosts |-> 1]
  /\ since_ping = [h \in Hosts |-> 0]
  /\ pingprobe \in [Hosts -> IF ping_scan THEN {FALSE} ELSE BOOLEAN]
  /\ flags = [h \in Hosts |-> "UNKNOWN"]
  /\ result = [h \in Hosts |-> [port \in Ports |-> Unknown]]

-----------------------------------------------------------------------------
(* The effects the actions are made of. *)

\* The probe list of h becomes S, with da more active probes in the host's and
\* the group's counters and dw more in the count of those that wait.
SetProbes(h, S, da, dw) ==
  /\ probes_outstanding' = [probes_outstanding EXCEPT ![h] = S]
  /\ num_probes_active' = [num_probes_active EXCEPT ![h] = @ + da]
  /\ group_probes_active' = group_probes_active + da
  /\ num_probes_waiting_retransmit' =
       [num_probes_waiting_retransmit EXCEPT ![h] = @ + dw]

\* destroyOutstandingProbe() for each probe of D, a subset of the list of h.
Destroy(h, D) ==
  SetProbes(h, probes_outstanding[h] \ D,
            -Cardinality(D \cap Active(h)), -Cardinality(D \cap Waiting(h)))

\* Mutant: the probe goes on counting as active.
MarkKeepsActive(h, p) ==
  SetProbes(h, (probes_outstanding[h] \ {p}) \cup {[p EXCEPT !.timedout = TRUE]},
            0, IF p.isPing THEN 0 ELSE 1)
\* markProbeTimedout() for an active probe p of h.
MarkTimedout(h, p) ==
  SetProbes(h, (probes_outstanding[h] \ {p}) \cup {[p EXCEPT !.timedout = TRUE]},
            -1, IF p.isPing THEN 0 ELSE 1)

\* ultrascan_port_probe_update() but for the destruction of the probe: an
\* answer to try t of the port.  An ICMP error is not useful: it raises neither
\* max_successful_tryno nor a candidate for the ping probe.
PortUpdate(h, port, t, useful) ==
  /\ result' = IF port = PingPort THEN result
               ELSE [result EXCEPT ![h][port] = Answered]
  /\ max_successful_tryno' =
       [max_successful_tryno EXCEPT ![h] = IF useful /\ t > @ THEN t ELSE @]
  /\ pingprobe' = [pingprobe EXCEPT ![h] = @ \/ useful]
  /\ UNCHANGED flags

\* ultrascan_host_pspec_update(): a host that is up stays up, and an unknown
\* state overrides nothing.
NewFlags(old, new) == IF old = "UP" \/ new = "UNKNOWN" THEN old ELSE new

\* ultrascan_host_probe_update() but for the destruction of the probe.
HostUpdate(h, port, newstate) ==
  /\ flags' = [flags EXCEPT ![h] = NewFlags(@, newstate)]
  /\ pingprobe' = [pingprobe EXCEPT ![h] = @ \/ newstate = "UP"]
  /\ result' = IF port = PingPort THEN result
               ELSE [result EXCEPT ![h][port] = Answered]
  /\ UNCHANGED max_successful_tryno

\* numprobes_sent and probes_sent go up by one probe of the scan.
CountSent(h) ==
  /\ since_ping' = [since_ping EXCEPT ![h] = Saturate(@, HostPingGap)]
  /\ group_since_ping' = Saturate(group_since_ping, GroupPingGap)

\* sendConnectScanProbe() when connect() has finished by the time it returns:
\* handleConnectResult() for the new probe p, S being the probe list without p
\* and dw what the caller changes in the count of waiting probes.
ConnectDone(h, p, S, dw) ==
  \/ \* an answer in a port scan, or a refused timing ping taken for one
     /\ ~ping_scan /\ (p.isPing => IgnoreRst)
     /\ \E useful \in BOOLEAN : PortUpdate(h, p.port, p.tryno, useful)
     /\ SetProbes(h, S, 0, dw)
  \/ \* a refused host in a discovery scan, or any answer to a timing ping
     /\ \/ p.isPing /\ UNCHANGED targetVars
        \/ ping_scan /\ ~p.isPing /\ HostUpdate(h, p.port, "DOWN")
     /\ SetProbes(h, S, 0, dw)
  \/ \* ETIMEDOUT, or a connection to itself: to be tried again
     /\ SetProbes(h, S \cup {[p EXCEPT !.timedout = TRUE]}, 0,
                  dw + IF p.isPing THEN 0 ELSE 1)
     /\ UNCHANGED targetVars
  \/ \* an error that says nothing: the probe is destroyed
     /\ ~p.isPing
     /\ result' = [result EXCEPT ![h][p.port] =
                     IF @ = Unknown THEN Failed ELSE @]
     /\ SetProbes(h, S, 0, dw)
     /\ UNCHANGED <<max_successful_tryno, pingprobe, flags>>

\* The same when it finds a host up: all its other probes are forgotten.
ConnectUp(h, p) ==
  /\ scantype = "connect_ping" /\ ~p.isPing
  /\ HostUpdate(h, p.port, "UP")
  /\ Destroy(h, probes_outstanding[h])

\* The probe p goes out to h, or has its answer at once.
Send(h, p) ==
  LET S == probes_outstanding[h] IN
    \/ SetProbes(h, S \cup {p}, 1, 0) /\ UNCHANGED targetVars
    \/ connect_probes /\ ConnectDone(h, p, S, 0)
    \/ ConnectUp(h, p)

-----------------------------------------------------------------------------
(* doAnyPings(): the pings of the hosts, then at most one global ping.     *)

\* sendPingProbe().  nxtpseq is not reduced here but in the probe.
SendPing(h) ==
  /\ nxtpseq' = [nxtpseq EXCEPT ![h] = @ + 1]
  /\ Send(h, PingProbe(nxtpseq[h] + 1))

HostPing(h) ==
  /\ pc = "pings"
  /\ h \in incompleteHosts
  /\ pingprobe[h] /\ rld_waiting[h] = "no"
  /\ since_ping[h] >= HostPingGap
  /\ GroupSendOK /\ HostSendOK(h)
  /\ SendPing(h)
  /\ since_ping' = [since_ping EXCEPT ![h] = 0]
  /\ group_since_ping' = Saturate(group_since_ping, GroupPingGap)
  /\ UNCHANGED <<loopVars, groupVars, benchVars, rldVars, next_portidx,
                 toclock, scantype>>

GlobalPing ==
  /\ pc = "pings"
  /\ pinghost # NoHost
  /\ pingprobe[pinghost]
  /\ num_probes_active[pinghost] = 0
  /\ group_since_ping >= GroupPingGap
  /\ GroupSendOK
  /\ SendPing(pinghost)
  /\ group_since_ping' = 0
  /\ pc' = "retransmit"
  /\ UNCHANGED <<hostI, timedout, hss, unableToSend, groupVars, benchVars,
                 rldVars, next_portidx, since_ping, toclock, scantype>>

EndPings ==
  /\ pc = "pings"
  /\ pc' = "retransmit"
  /\ UNCHANGED <<hostI, timedout, hss, unableToSend, groupVars, probeVars,
                 benchVars, rldVars, sentVars, targetVars, toclock, scantype>>

-----------------------------------------------------------------------------
(* doAnyOutstandingRetransmits(). *)

\* Mutant: off by one at the limit.
MayRetransmitAtLimit(h, p) ==
  /\ pc = "retransmit"
  /\ h \in incompleteHosts
  /\ GroupSendOK /\ HostSendOK(h)
  /\ p \in probes_outstanding[h]
  /\ ~p.retransmitted /\ ~p.isPing /\ p.timedout
  /\ allowedTryno(h) >= p.tryno
MayRetransmit(h, p) ==
  /\ pc = "retransmit"
  /\ h \in incompleteHosts
  /\ GroupSendOK /\ HostSendOK(h)
  /\ p \in probes_outstanding[h]
  /\ ~p.retransmitted /\ ~p.isPing /\ p.timedout
  /\ allowedTryno(h) > p.tryno

\* Rate limit detection: the first probe of a new tryno is held back.
HoldsBack(h, p) == /\ p.tryno + 1 > max_tryno_sent[h]
                   /\ NumPorts > 1 \/ scantype = "arp"

RateLimitWait(h, p) ==
  /\ MayRetransmit(h, p) /\ HoldsBack(h, p)
  /\ max_tryno_sent' = [max_tryno_sent EXCEPT ![h] = p.tryno + 1]
  /\ rld_waiting' = [rld_waiting EXCEPT ![h] = "waiting"]
  /\ UNCHANGED <<loopVars, groupVars, probeVars, benchVars, sentVars,
                 targetVars, toclock, scantype>>

\* retransmitProbe() sends the next try of p and then marks p.
Retransmit(h, p) ==
  LET new  == ScanProbe(p.port, NextSeqnum(p.tryno))
      S    == (probes_outstanding[h] \ {p})
                \cup {[p EXCEPT !.retransmitted = TRUE]}
  IN /\ MayRetransmit(h, p) /\ ~HoldsBack(h, p)
     /\ rld_waiting' = [rld_waiting EXCEPT ![h] = "no"]
     /\ \/ SetProbes(h, S \cup {new}, 1, -1) /\ UNCHANGED targetVars
        \/ connect_probes /\ ConnectDone(h, new, S, -1)
     /\ CountSent(h)
     /\ UNCHANGED <<loopVars, groupVars, benchVars, max_tryno_sent,
                    next_portidx, nxtpseq, toclock, scantype>>

\* A connect() that finds the host up destroys p too, before it is marked: the
\* assertion that some probe waits fails.
RetransmitFreed(h, p) ==
  /\ MayRetransmit(h, p) /\ ~HoldsBack(h, p)
  /\ ConnectUp(h, ScanProbe(p.port, NextSeqnum(p.tryno)))
  /\ rld_waiting' = [rld_waiting EXCEPT ![h] = "no"]
  /\ pc' = "freed"
  /\ UNCHANGED <<hostI, timedout, hss, unableToSend, groupVars, benchVars,
                 max_tryno_sent, sentVars, toclock, scantype>>

-----------------------------------------------------------------------------
(* doAnyRetryStackRetransmits() and doAnyNewProbes() go round the hosts    *)
(* until they come back to the first one they could not send to.           *)

\* nextIncompleteHost().
NextHss == /\ hss' = nextI
           /\ nextI' = Advance(nextI, incompleteHosts)

StartRound(from, to) ==
  /\ pc = from
  /\ pc' = to
  /\ NextHss
  /\ unableToSend' = NoHost
  /\ UNCHANGED <<hostI, timedout, incompleteHosts, completedHosts, pinghost,
                 num_hosts_timedout, probeVars, benchVars, rldVars, sentVars,
                 targetVars, toclock, scantype>>

EndRetransmits == StartRound("retransmit", "retry")
EndRetries     == StartRound("retry", "new")

InRound(phase) == pc = phase /\ hss # unableToSend /\ GroupSendOK

\* The host at hand has nothing to send, or a time-based limit holds it up.
SkipHost(phase) ==
  /\ InRound(phase)
  /\ unableToSend' = IF unableToSend = NoHost THEN hss ELSE unableToSend
  /\ NextHss
  /\ UNCHANGED <<pc, hostI, timedout, incompleteHosts, completedHosts, pinghost,
                 num_hosts_timedout, probeVars, benchVars, rldVars, sentVars,
                 targetVars, toclock, scantype>>

\* sendNextRetryStackProbe().  A batch of the stack is what retransmitBench()
\* moved at one time.
RetryProbe ==
  /\ InRound("retry")
  /\ retry_stack[hss] # <<>>
  /\ HostSendOK(hss)
  /\ LET stack == retry_stack[hss]
         top   == stack[Len(stack)]
         below == SubSeq(stack, 1, Len(stack) - 1)
     IN \E port \in top.ports :
          /\ retry_stack' = [retry_stack EXCEPT ![hss] =
               IF top.ports = {port} THEN below
               ELSE Append(below, [top EXCEPT !.ports = @ \ {port}])]
          /\ Send(hss, ScanProbe(port, NextSeqnum(top.tries)))
  /\ CountSent(hss)
  /\ unableToSend' = NoHost
  /\ NextHss
  /\ UNCHANGED <<pc, hostI, timedout, incompleteHosts, completedHosts, pinghost,
                 num_hosts_timedout, probe_bench, bench_tryno, rldVars,
                 next_portidx, nxtpseq, toclock, scantype>>

\* sendNextScanProbe().  The host's timeout clock starts with its first probe.
NewProbe ==
  /\ InRound("new")
  /\ freshPortsLeft(hss)
  /\ HostSendOK(hss)
  /\ next_portidx' = [next_portidx EXCEPT ![hss] = @ + 1]
  /\ Send(hss, ScanProbe(next_portidx[hss] + 1, 0))
  /\ toclock' = [toclock EXCEPT ![hss] =
                   IF ~ping_scan /\ @ = "off" THEN "running" ELSE @]
  /\ CountSent(hss)
  /\ unableToSend' = NoHost
  /\ NextHss
  /\ UNCHANGED <<pc, hostI, timedout, incompleteHosts, completedHosts, pinghost,
                 num_hosts_timedout, benchVars, rldVars, nxtpseq, scantype>>

EndNewProbes ==
  /\ pc = "new"
  /\ pc' = "wait"
  /\ hss' = NoHost /\ unableToSend' = NoHost
  /\ UNCHANGED <<hostI, timedout, groupVars, probeVars, benchVars, rldVars,
                 sentVars, targetVars, toclock, scantype>>

-----------------------------------------------------------------------------
(* waitForResponses(): as long as answers come in and probes are active.   *)
(* findHost() also finds the hosts that are completed.                     *)

AnswerLeaves == /\ UNCHANGED <<hostI, timedout, hss, unableToSend, groupVars,
                               benchVars, rldVars, sentVars, toclock, scantype>>
                /\ pc' = IF group_probes_active' > 0 THEN "wait" ELSE "purge1"

Answerable(h, p) ==
  /\ pc = "wait"
  /\ h \in incompleteHosts \cup completedHosts
  /\ p \in probes_outstanding[h]
  /\ connect_probes => ~p.timedout   \* the socket is closed at the timeout

\* get_pcap_result() and handleConnectResult() of a port scan.
PortResult(h, p) ==
  /\ ~ping_scan
  /\ Answerable(h, p)
  /\ \/ p.isPing /\ UNCHANGED targetVars
     \/ /\ p.isPing => scantype = "connect" /\ IgnoreRst
        /\ \E useful \in BOOLEAN : PortUpdate(h, p.port, p.tryno, useful)
  /\ Destroy(h, {p})
  /\ AnswerLeaves

\* get_ping_pcap_result() and handleConnectResult() of host discovery.
PingResult(h, p) ==
  /\ scantype \in {"ping", "connect_ping"}
  /\ Answerable(h, p)
  /\ \/ /\ p.isPing
        /\ UNCHANGED targetVars
        /\ Destroy(h, {p})
     \/ /\ ~p.isPing
        /\ HostUpdate(h, p.port, "UP")
        /\ Destroy(h, probes_outstanding[h])
     \/ /\ ~p.isPing
        /\ HostUpdate(h, p.port, "DOWN")
        /\ Destroy(h, {p})
     \/ UNCHANGED <<probeVars, targetVars>>   \* HOST_UNKNOWN
  /\ AnswerLeaves

\* get_arp_result() and get_ns_result().  The send times decide which of the
\* probes of the host is taken for the one that is answered; all of them go.
ArpResult(h, p) ==
  /\ scantype = "arp"
  /\ Answerable(h, p)
  /\ HostUpdate(h, p.port, "UP")
  /\ Destroy(h, probes_outstanding[h])
  /\ AnswerLeaves

\* The same for a host that has no probe in its list, be it because they were
\* given up or because none was sent: it is up, and the wait goes on.
ArpResultNoProbe(h) ==
  /\ scantype = "arp"
  /\ pc = "wait"
  /\ h \in incompleteHosts \cup completedHosts
  /\ probes_outstanding[h] = {}
  /\ flags' = [flags EXCEPT ![h] = "UP"]
  /\ UNCHANGED <<loopVars, groupVars, probeVars, benchVars, rldVars, sentVars,
                 max_successful_tryno, pingprobe, result, toclock, scantype>>

\* handleConnectResult() on ETIMEDOUT or on a connection to itself.
ConnectTimedOut(h, p) ==
  /\ connect_probes
  /\ Answerable(h, p)
  /\ MarkTimedout(h, p)
  /\ UNCHANGED targetVars
  /\ AnswerLeaves

EndWait ==
  /\ pc = "wait"
  /\ pc' = "purge1"
  /\ UNCHANGED <<hostI, timedout, hss, unableToSend, groupVars, probeVars,
                 benchVars, rldVars, sentVars, targetVars, toclock, scantype>>

\* The delay of rate limit detection, a second, passes in this phase.
RateLimitWaitOver(h) ==
  /\ pc = "wait"
  /\ rld_waiting[h] = "waiting"
  /\ rld_waiting' = [rld_waiting EXCEPT ![h] = "over"]
  /\ UNCHANGED <<loopVars, groupVars, probeVars, benchVars, max_tryno_sent,
                 sentVars, targetVars, toclock, scantype>>

\* The time of a host runs out.  The engine reads the clock in these phases.
ClockExpires(h) ==
  /\ HostTimeout
  /\ pc \in {"pings", "retransmit", "retry", "new", "wait"}
  /\ toclock[h] = "running"
  /\ toclock' = [toclock EXCEPT ![h] = "expired"]
  /\ UNCHANGED <<loopVars, groupVars, probeVars, benchVars, rldVars, sentVars,
                 targetVars, scantype>>

-----------------------------------------------------------------------------
(* removeCompletedHosts(), called twice by processData(). *)

Purging  == pc \in {"purge1", "purge2"}
Removing == pc \in {"remove1", "remove2"}

\* A completed host that has exceeded its lifetime is forgotten.
Purge(h) ==
  /\ Purging
  /\ h \in completedHosts /\ h # pinghost
  /\ Destroy(h, probes_outstanding[h])
  /\ completedHosts' = completedHosts \ {h}
  /\ UNCHANGED <<loopVars, incompleteHosts, nextI, pinghost, num_hosts_timedout,
                 benchVars, rldVars, sentVars, targetVars, toclock, scantype>>

StartRemoving ==
  /\ Purging
  /\ pc' = IF pc = "purge1" THEN "remove1" ELSE "remove2"
  /\ hostI' = First(incompleteHosts)
  /\ timedout' = FALSE
  /\ UNCHANGED <<hss, unableToSend, groupVars, probeVars, benchVars, rldVars,
                 sentVars, targetVars, toclock, scantype>>

\* Mutant: the old ping host is dropped whether or not it awaits an answer.
MayReplacePinghost(h) == pingprobe[h]
\* Whether h becomes the ping host when it retires.  Between two hosts that
\* have a ping probe pingprobe_score() decides.
MayBecomePinghost(h) ==
  /\ pingprobe[h]
  /\ pinghost # NoHost => num_probes_active[pinghost] = 0

\* Mutant: the iterator is left on the host that is erased.
NextIStays(h) == nextI
\* Where the circular iterator is once h is erased.
NextIWithout(h) == IF nextI = h /\ Cardinality(incompleteHosts) > 1
                   THEN Advance(h, incompleteHosts) ELSE nextI

Retire(h) ==
  /\ nextI' = NextIWithout(h)
  /\ incompleteHosts' = incompleteHosts \ {h}
  /\ completedHosts' = completedHosts \cup {h}
  /\ \/ pinghost' = h /\ MayBecomePinghost(h)
     \/ pinghost' = pinghost /\ ~(pinghost = NoHost /\ pingprobe[h])
  /\ num_hosts_timedout' = num_hosts_timedout + IF timedout' THEN 1 ELSE 0
  /\ toclock' = [toclock EXCEPT ![h] = IF @ = "running" THEN "off" ELSE @]

\* completed() is asked first; only if it is false is timedout assigned.
RemoveIfDone ==
  LET h == hostI IN
  /\ Removing
  /\ h # End
  /\ timedout' = IF completed(h) THEN timedout ELSE timedOut(h)
  /\ IF completed(h) \/ timedOut(h) THEN Retire(h)
                                    ELSE UNCHANGED <<groupVars, toclock>>
  /\ hostI' = Following(h, incompleteHosts)
  /\ UNCHANGED <<pc, hss, unableToSend, probeVars, benchVars, rldVars, sentVars,
                 targetVars, scantype>>

EndRemoving ==
  /\ Removing
  /\ hostI = End
  /\ hostI' = IF pc = "remove1" THEN First(incompleteHosts) ELSE End
  /\ pc' = CASE pc = "remove1" /\ incompleteHosts = {} -> "done"
             [] pc = "remove1" /\ incompleteHosts # {} -> "process"
             [] pc = "remove2" -> "globalping"
  /\ timedout' = FALSE
  /\ UNCHANGED <<hss, unableToSend, groupVars, probeVars, benchVars, rldVars,
                 sentVars, targetVars, toclock, scantype>>

-----------------------------------------------------------------------------
(* processData() on one host.  late are the active probes older than       *)
(* probeTimeout(), old the probes older than probeExpireTime().            *)

GiveUp(h) == {p \in Waiting(h) : ~mayincrease(h) /\ p.tryno >= allowedTryno(h)}
ToBench(h, old) ==
  {p \in Waiting(h) : p \in old /\ mayincrease(h) /\ p.tryno >= allowedTryno(h)}
Spent(h, late, old) ==
  {p \in probes_outstanding[h] \ late :
     p \in old /\ (p.isPing \/ (p.timedout /\ p.retransmitted))}

DismissBench(h) == /\ probe_bench[h] # {}
                   /\ allowedTryno(h) = bench_tryno[h]
                   /\ ~mayincrease(h)
RetransmitBench(h) == /\ probe_bench[h] # {}
                      /\ allowedTryno(h) > bench_tryno[h]
\* Mutant: retransmitBench() does not clear the bench.
LeftOnBenchCopied(h) == IF DismissBench(h) THEN {} ELSE probe_bench[h]
LeftOnBench(h) == IF DismissBench(h) \/ RetransmitBench(h) THEN {}
                  ELSE probe_bench[h]

\* The assertions of processData() and of moveProbeToBench().
BenchAsserts(h, old) ==
  \A p \in ToBench(h, old) :
    /\ p.tryno = allowedTryno(h)
    /\ LeftOnBench(h) # {} => bench_tryno[h] = p.tryno

ProcessProbes(h, late, old) ==
  LET gone == GiveUp(h) \cup ToBench(h, old) \cup Spent(h, late, old) IN
  SetProbes(h, (probes_outstanding[h] \ (late \cup gone))
                 \cup {[p EXCEPT !.timedout = TRUE] : p \in late},
            -Cardinality(late \cup (Spent(h, late, old) \cap Active(h))),
            Cardinality({p \in late : ~p.isPing})
              - Cardinality(GiveUp(h) \cup ToBench(h, old)))

\* Mutant: the tryno of the bench is not set.
BenchTrynoUnset(h, old) == bench_tryno[h]
BenchTryno(h, old) ==
  CASE LeftOnBench(h) # {} -> bench_tryno[h]
    [] LeftOnBench(h) = {} /\ ToBench(h, old) # {} -> allowedTryno(h)
    [] OTHER -> 0

ProcessBench(h, old) ==
  /\ probe_bench' = [probe_bench EXCEPT ![h] =
                       LeftOnBench(h) \cup {p.port : p \in ToBench(h, old)}]
  /\ bench_tryno' = [bench_tryno EXCEPT ![h] = BenchTryno(h, old)]
  /\ retry_stack' = [retry_stack EXCEPT ![h] =
                       IF RetransmitBench(h)
                       THEN Append(@, [ports |-> probe_bench[h],
                                       tries |-> bench_tryno[h]])
                       ELSE @]

\* The ports given up with this step, and the tryno each of them had.
GivenUp(h, port) == {p.tryno : p \in {q \in GiveUp(h) : q.port = port}}
  \cup IF DismissBench(h) /\ port \in probe_bench[h] THEN {bench_tryno[h]} ELSE {}

\* Mutant: only the bench is taken for an unanswered host.
HostGivenUpLate(h) == ping_scan /\ DismissBench(h)
HostGivenUp(h) == ping_scan /\ (GiveUp(h) # {} \/ DismissBench(h))

ProcessResults(h) ==
  /\ result' = [result EXCEPT ![h] = [port \in Ports |->
       IF @[port] = Unknown /\ GivenUp(h, port) # {}
       THEN CHOOSE t \in GivenUp(h, port) : TRUE ELSE @[port]]]
  /\ flags' = [flags EXCEPT ![h] =
       IF HostGivenUp(h) THEN NewFlags(@, "DOWN") ELSE @]
  /\ UNCHANGED <<max_successful_tryno, pingprobe>>

ProcessHost(late, old) ==
  LET h == hostI IN
  /\ pc = "process" /\ h # End
  /\ late \subseteq Active(h)
  /\ old \subseteq probes_outstanding[h] \ late
  /\ ProcessProbes(h, late, old)
  /\ ProcessBench(h, old)
  /\ ProcessResults(h)
  /\ pc' = IF BenchAsserts(h, old) THEN "process" ELSE "aborted"
  /\ hostI' = Following(h, incompleteHosts)
  /\ UNCHANGED <<timedout, hss, unableToSend, groupVars, rldVars, sentVars,
                 toclock, scantype>>

EndProcess ==
  /\ pc = "process" /\ hostI = End
  /\ pc' = "purge2"
  /\ UNCHANGED <<hostI, timedout, hss, unableToSend, groupVars, probeVars,
                 benchVars, rldVars, sentVars, targetVars, toclock, scantype>>

\* Mutant: late pings of the ping host are left to themselves.
KeepGlobalPings(late) ==
  /\ pc = "globalping"
  /\ late = {}
  /\ pc' = IF incompleteHosts = {} THEN "done" ELSE "pings"
  /\ UNCHANGED <<hostI, timedout, hss, unableToSend, groupVars, probeVars,
                 benchVars, rldVars, sentVars, targetVars, toclock, scantype>>
\* The end of processData(): late pings of the ping host are destroyed.  Then
\* the loop of ultra_scan() goes round again, unless all hosts are done.
ExpireGlobalPings(late) ==
  /\ pc = "globalping"
  /\ IF pinghost = NoHost THEN late = {} /\ UNCHANGED probeVars
     ELSE /\ late \subseteq {p \in probes_outstanding[pinghost] : p.isPing}
          /\ Destroy(pinghost, late)
  /\ pc' = IF incompleteHosts = {} THEN "done" ELSE "pings"
  /\ UNCHANGED <<hostI, timedout, hss, unableToSend, groupVars, benchVars,
                 rldVars, sentVars, targetVars, toclock, scantype>>

\* The loop has ended, or an assertion or a stray access has ended Nmap.
Done == pc \in {"done", "aborted", "freed"} /\ UNCHANGED vars

-----------------------------------------------------------------------------
Next ==
  \/ \E h \in Hosts : HostPing(h)
  \/ GlobalPing
  \/ EndPings
  \/ \E h \in Hosts : \E p \in probes_outstanding[h] :
       \/ RateLimitWait(h, p)
       \/ Retransmit(h, p)
       \/ RetransmitFreed(h, p)
  \/ EndRetransmits
  \/ RetryProbe
  \/ SkipHost("retry")
  \/ EndRetries
  \/ NewProbe
  \/ SkipHost("new")
  \/ EndNewProbes
  \/ \E h \in Hosts : \E p \in probes_outstanding[h] :
       \/ PortResult(h, p)
       \/ PingResult(h, p)
       \/ ArpResult(h, p)
       \/ ConnectTimedOut(h, p)
  \/ \E h \in Hosts : ArpResultNoProbe(h)
  \/ EndWait
  \/ \E h \in Hosts : RateLimitWaitOver(h)
  \/ \E h \in Hosts : ClockExpires(h)
  \/ \E h \in Hosts : Purge(h)
  \/ StartRemoving
  \/ RemoveIfDone
  \/ EndRemoving
  \/ \E late \in SUBSET (IF pc = "process" /\ hostI # End
                         THEN Active(hostI) ELSE {}) :
       \E old \in SUBSET (IF pc = "process" /\ hostI # End
                          THEN probes_outstanding[hostI] \ late ELSE {}) :
         ProcessHost(late, old)
  \/ EndProcess
  \/ \E late \in SUBSET (IF pc = "globalping" /\ pinghost # NoHost
                         THEN probes_outstanding[pinghost] ELSE {}) :
       ExpireGlobalPings(late)
  \/ Done

Spec == Init /\ [][Next]_vars

-----------------------------------------------------------------------------
(* Fairness.  The loop never blocks: select() and pcap are given a time    *)
(* limit, so a phase always ends.  A send that the state allows again and  *)
(* again is made, as the limits that depend on the time are only delays.   *)
(* A probe that stays in its list grows older than any timeout, and the    *)
(* other clocks run out as well: so does the lifetime of a completed host, *)
(* which the next removeCompletedHosts() then forgets.                     *)

Phase ==
  \/ EndPings \/ EndRetransmits \/ EndRetries \/ EndNewProbes \/ EndWait
  \/ StartRemoving \/ RemoveIfDone \/ EndRemoving \/ EndProcess
  \/ /\ pc = "process" /\ hostI # End
     /\ \E late \in SUBSET Active(hostI) :
          \E old \in SUBSET (probes_outstanding[hostI] \ late) :
            ProcessHost(late, old)
  \/ /\ pc = "globalping"
     /\ \E late \in SUBSET (IF pinghost = NoHost THEN {}
                            ELSE probes_outstanding[pinghost]) :
          ExpireGlobalPings(late)

SomeSend ==
  \/ NewProbe \/ RetryProbe
  \/ \E h \in Hosts : \E p \in probes_outstanding[h] :
       RateLimitWait(h, p) \/ Retransmit(h, p)

\* A probe is marked as timed out, sent to the bench or, if it is a global
\* ping, destroyed; or the delay of rate limit detection ends.
SomeTimeout ==
  \/ /\ pc = "process" /\ hostI # End
     /\ \E late \in SUBSET Active(hostI) :
          \E old \in SUBSET Waiting(hostI) :
            /\ late # {} \/ ToBench(hostI, old) # {}
            /\ ProcessHost(late, old)
  \/ /\ pc = "globalping" /\ pinghost # NoHost
     /\ \E late \in SUBSET probes_outstanding[pinghost] :
          late # {} /\ ExpireGlobalPings(late)
  \/ \E h \in Hosts : RateLimitWaitOver(h)

Fairness ==
  /\ WF_vars(Phase)
  /\ SF_vars(SomeSend)
  /\ SF_vars(SomeTimeout)
  /\ SF_vars(\E h \in Hosts : ClockExpires(h))
  /\ SF_vars(\E h \in Hosts : Purge(h))

FairSpec == Spec /\ Fairness

-----------------------------------------------------------------------------
(* Properties. *)

Phases == {"pings", "retransmit", "retry", "new", "wait", "purge1", "remove1",
           "process", "purge2", "remove2", "globalping", "done", "aborted",
           "freed"}
RetryBatch == [ports : SUBSET Ports, tries : Seqnum]

\* Every variable has the type of the field of HostScanStats, GroupScanStats
\* or UltraScanInfo it stands for.  That the counters are not below zero is part
\* of ProbeAccounting.
LoopTypes ==
  /\ pc \in Phases
  /\ hostI \in Hosts \cup {End} /\ timedout \in BOOLEAN
  /\ hss \in Hosts \cup {NoHost} /\ unableToSend \in Hosts \cup {NoHost}
GroupTypes ==
  /\ incompleteHosts \subseteq Hosts /\ completedHosts \subseteq Hosts
  /\ nextI \in Hosts \cup {End}
  /\ pinghost \in Hosts \cup {NoHost}
  /\ num_hosts_timedout \in Nat
ProbeTypes ==
  /\ probes_outstanding \in [Hosts -> SUBSET UltraProbe]
  /\ \A h \in Hosts : IsFiniteSet(probes_outstanding[h])
  /\ num_probes_active \in [Hosts -> Int]
  /\ num_probes_waiting_retransmit \in [Hosts -> Int]
  /\ group_probes_active \in Int
BenchTypes ==
  /\ probe_bench \in [Hosts -> SUBSET Ports]
  /\ bench_tryno \in [Hosts -> Seqnum]
  /\ retry_stack \in [Hosts -> Seq(RetryBatch)]
RldTypes ==
  /\ max_tryno_sent \in [Hosts -> 0 .. 128]
  /\ rld_waiting \in [Hosts -> {"no", "waiting", "over"}]
SentTypes ==
  /\ next_portidx \in [Hosts -> 0 .. NumPorts]
  /\ nxtpseq \in [Hosts -> Nat]
  /\ since_ping \in [Hosts -> 0 .. HostPingGap]
  /\ group_since_ping \in 0 .. GroupPingGap
TargetTypes ==
  /\ max_successful_tryno \in [Hosts -> Seqnum]
  /\ pingprobe \in [Hosts -> BOOLEAN]
  /\ flags \in [Hosts -> {"UNKNOWN", "UP", "DOWN"}]
  /\ result \in [Hosts -> [Ports -> {Failed, Unknown, Answered} \cup Seqnum]]
ClockTypes == /\ toclock \in [Hosts -> {"off", "running", "expired"}]
              /\ scantype \in Scans
TypeOK == /\ LoopTypes /\ GroupTypes /\ ProbeTypes /\ BenchTypes
          /\ RldTypes /\ SentTypes /\ TargetTypes /\ ClockTypes

\* The counters num_probes_active of the host and of the group and
\* num_probes_waiting_retransmit always agree with the probe lists, so that no
\* assert(... > 0) of destroyOutstandingProbe(), markProbeTimedout() or
\* retransmitProbe() can fail, and no slot of a congestion window is lost.
HostAccounting ==
  \A h \in Hosts :
    /\ num_probes_active[h] = Cardinality(Active(h))
    /\ num_probes_waiting_retransmit[h] = Cardinality(Waiting(h))
GroupAccounting ==
  group_probes_active =
    Cardinality(UNION {{h} \X Active(h) : h \in Hosts})
ProbeAccounting == HostAccounting /\ GroupAccounting

\* No assertion of processData() or moveProbeToBench() about the tryno of
\* benched probes fails.
AssertsHold == pc # "aborted"

\* The attempts at a port that may still be retried: the last outstanding one,
\* its place on the bench, or its place on the retry stack.
Pending(h, port) ==
  {<<"out", p.tryno>> : p \in {q \in probes_outstanding[h] :
                                ~q.isPing /\ q.port = port /\ ~q.retransmitted}}
  \cup {<<"bench", t>> : t \in IF port \in probe_bench[h]
                               THEN {bench_tryno[h]} ELSE {}}
  \cup {<<"stack", i>> : i \in {j \in DOMAIN retry_stack[h] :
                                  port \in retry_stack[h][j].ports}}

\* A port has at most one attempt that can still be retransmitted, and none
\* before its first probe: it is never probed twice for the same try.
OnePendingAttempt ==
  \A h \in Hosts, port \in Ports :
    Cardinality(Pending(h, port)) <= (IF port > next_portidx[h] THEN 0 ELSE 1)

\* "kept sorted such that probes with highest retry counts are on top"
RetryStackSorted ==
  \A h \in Hosts : \A i, j \in DOMAIN retry_stack[h] :
    /\ i < j => retry_stack[h][i].tries < retry_stack[h][j].tries
    /\ probe_bench[h] # {} => retry_stack[h][i].tries < bench_tryno[h]

\* The circular iterator never dangles: it and the host at hand are hosts that
\* are still incomplete, whatever removeCompletedHosts() has erased, and a round
\* never starts without a host.
IteratorsValid ==
  /\ incompleteHosts # {} => nextI \in incompleteHosts
  /\ pc \in {"pings", "retransmit", "retry", "new"} => incompleteHosts # {}
  /\ pc \in {"retry", "new"} => hss \in incompleteHosts
  /\ Removing \/ pc = "process" => hostI \in incompleteHosts \cup {End}

\* --max-retries and the adaptive limit below it hold for every probe, however
\* it came to be sent again: no try of a port is beyond what allowedTryno()
\* allows, and what waits on the bench or on the retry stack can be sent
\* without going beyond it.
TrynoWithinLimit ==
  \A h \in Hosts :
    /\ \A p \in probes_outstanding[h] : ~p.isPing => p.tryno <= allowedTryno(h)
    /\ probe_bench[h] # {} => bench_tryno[h] <= allowedTryno(h)
    /\ \A i \in DOMAIN retry_stack[h] : retry_stack[h][i].tries < allowedTryno(h)

\* "Any active probes in completed hosts count against our global cwnd": unless
\* it ran out of time, a completed host has no active probe, save for one ping
\* of the ping host.
CompletedHostsQuiet ==
  \A h \in completedHosts : toclock[h] # "expired" =>
    /\ num_probes_active[h] <= (IF h = pinghost THEN 1 ELSE 0)
    /\ \A p \in Active(h) : p.isPing

\* The scan comes to an end whatever the network does.
Termination == <>(pc = "done")
=============================================================================
