------------------------------ MODULE ServiceScan ------------------------------
(***************************************************************************)
(* Version detection (service_scan.cc): a ServiceGroup holds one           *)
(* ServiceNFO per open or open|filtered port of a group of hosts and       *)
(* drives up to ideal_parallelism of them at a time through their probes,  *)
(* each by callbacks of the nsock library.                                 *)
(*                                                                         *)
(* Everything runs in one thread: nsock_loop() calls one handler at a time *)
(* and a handler ends by launching more services, which is the phase       *)
(* "launch" of the model.  nsock calls a handler from within the request   *)
(* itself when the request completes at once (a connect() that fails, a    *)
(* read after end of file, decrypted data that is already there): sync     *)
(* names the service whose handler must run before anything else does.     *)
(*                                                                         *)
(* services_remaining is filled in the order of the targets and afterwards *)
(* only shrinks, so it is the set of the services in it, numbered in that  *)
(* order, and its front is the smallest number.  The order of the other    *)
(* two lists is never used.                                                *)
(***************************************************************************)
EXTENDS Integers, FiniteSets, Sequences

CONSTANTS
  NumHosts,      \* targets 1..NumHosts of the group, in the order of Targets
  Service,       \* its services: a sequence of [host, proto, port, open]
  Probes,        \* AllProbes::probes: a sequence of [proto, ports, sslports,
                 \*   rarity, services, fallback, notForPayload]
  NullServices,  \* the services that the match lines of the NULL probe name
  SslNames,      \* the service names "ssl" and "dtls"
  Inner,         \* what is left of the names that begin with "ssl/"
  Excluded,      \* the <<port, protocol>> pairs of the Exclude directive
  Intensity,     \* o.version_intensity
  Parallelism,   \* ServiceGroup::ideal_parallelism
  MaxResp,       \* reads that make a response reach 4096 bytes
  HostTimeout    \* --host-timeout given

Hosts == 1 .. NumHosts
Services == DOMAIN Service
ProbeNums == DOMAIN Probes
NullProbe == 0
None == "none"
Names == NullServices \cup (UNION {Probes[p].services : p \in ProbeNums})
           \cup SslNames \cup {Inner[n] : n \in DOMAIN Inner}

ASSUME ConstantsAssumption ==
  /\ NumHosts \in Nat \ {0} /\ Intensity \in 0 .. 9
  /\ Parallelism \in Nat \ {0} /\ MaxResp \in Nat \ {0} /\ HostTimeout \in BOOLEAN
  /\ None \notin Names

ASSUME ServiceAssumption ==
  /\ Service \in Seq([host : Hosts, proto : {"tcp", "udp", "sctp"}, port : Nat,
                      open : BOOLEAN])
  /\ \A i, j \in Services : i < j =>
       /\ Service[i].host <= Service[j].host
       /\ Service[i].host = Service[j].host /\ Service[j].open => Service[i].open

ASSUME ProbesAssumption ==
  /\ Probes \in Seq([proto : {"tcp", "udp"}, ports : SUBSET Nat, sslports : SUBSET Nat,
                     rarity : 1 .. 9, services : SUBSET STRING, fallback : SUBSET Nat,
                     notForPayload : BOOLEAN])
  /\ \A p \in ProbeNums : Probes[p].fallback \subseteq ProbeNums

VARIABLES
  phase,         \* "construct", "launch", "loop" or "done"
  targetno,      \* the target whose early responses the constructor looks at
  early,         \* the UDP ports whose early responses it has still to look at
  remaining, in_progress, finished,   \* the three lists of the ServiceGroup
  svc,           \* the ServiceNFO of each service, with its nsock_iod
  sync,          \* the service whose handler nsock calls at once, or 0
  timedout,      \* Target::timedOut()
  clock,         \* Target::timeOutClockRunning()
  num_hosts_timedout,
  result         \* probe state that setServiceProbeResults() was given last

lists == <<remaining, in_progress, finished>>
vars == <<phase, targetno, early, lists, svc, sync, timedout, clock,
          num_hosts_timedout, result>>

Working == {"NULLPROBE", "MATCHINGPROBES", "NONMATCHINGPROBES"}
Verdicts == {"HARDMATCHED", "SOFTMATCHED", "NOMATCH", "TCPWRAPPED", "INCOMPLETE"}

\* A new ServiceNFO.  wrap is tcpwrap_possible, soft is softMatchFound, matched
\* is probe_matched, resp the amount of response read for the current probe,
\* open the port's state; iod, pending and eof are the nsock_iod, the requests
\* made on it and IOD_EOF.  tried is history: the probes begun, by tunnel.
ServiceNFO(i) ==
  [state |-> "INITIAL", probe |-> NullProbe, ssl |-> FALSE, soft |-> FALSE,
   matched |-> None, wrap |-> TRUE, resp |-> 0, open |-> Service[i].open,
   iod |-> FALSE, pending |-> {}, eof |-> FALSE, tried |-> {}]
--------------------------------------------------------------------------------
(* The probes.                                                              *)

portIsProbable(p, ssl, port) ==
  port \in IF ssl THEN Probes[p].sslports ELSE Probes[p].ports

\* Which probe's match lines are tried on a response to probe p.
fallbacks(p) ==
  IF p = NullProbe THEN {NullProbe}
  ELSE {p} \cup Probes[p].fallback
         \cup (IF Probes[p].proto = "tcp" THEN {NullProbe} ELSE {})

detectedServices(p) == IF p = NullProbe THEN NullServices ELSE Probes[p].services

\* What testMatch() may find in a response: a soft or a hard match.
Matches(ps) ==
  [name : UNION {detectedServices(p) : p \in UNION {fallbacks(q) : q \in ps}},
   isSoft : BOOLEAN]

NoMatch == [name |-> None, isSoft |-> FALSE]

\* init_payloads(): the probes whose text the UDP scan sends to a port.
PayloadProbes(port) ==
  {p \in ProbeNums :
     Probes[p].proto = "udp" /\ ~Probes[p].notForPayload /\ port \in Probes[p].ports}

\* What the early response of a port may be found to match.
payload_service_match(port) == Matches(PayloadProbes(port)) \cup {NoMatch}

Least(S) == CHOOSE n \in S : \A m \in S : n <= m

\* Mutant: the iterator is not advanced.
AheadOrAt(p, r) == p >= r.probe

\* current_probe++: what is still ahead of the current probe.
Ahead(p, r) == p > r.probe

\* nextProbe(): the ServiceNFO r of service i moves on to its next probe.
nextProbe(i, r, newresp) ==
  LET possible(p) == Intensity >= 9 \/ r.matched \in Probes[p].services
      suits(p) == Probes[p].proto = Service[i].proto
      matching == {p \in ProbeNums :
        /\ suits(p) /\ portIsProbable(p, r.ssl, Service[i].port)
        /\ ~r.soft \/ possible(p)
        /\ \/ r.state \in {"INITIAL", "NULLPROBE"}
           \/ r.state = "MATCHINGPROBES" /\ Ahead(p, r)}
      nonmatching == {p \in ProbeNums :
        /\ suits(p) /\ ~portIsProbable(p, r.ssl, Service[i].port)
        /\ IF r.soft THEN possible(p) ELSE Probes[p].rarity <= Intensity
        /\ r.state = "NONMATCHINGPROBES" => Ahead(p, r)}
      begin(state, p) ==
        [r EXCEPT !.state = state, !.probe = p, !.resp = IF newresp THEN 0 ELSE @,
                  !.tried = @ \cup {<<r.ssl, p>>}]
  IN  CASE r.state = "INITIAL" /\ Service[i].proto = "tcp" -> begin("NULLPROBE", NullProbe)
        [] OTHER ->
             IF matching # {} THEN begin("MATCHINGPROBES", Least(matching))
             ELSE IF nonmatching # {} THEN begin("NONMATCHINGPROBES", Least(nonmatching))
             ELSE [r EXCEPT !.state = IF r.soft THEN "SOFTMATCHED" ELSE "NOMATCH",
                            !.resp = IF newresp THEN 0 ELSE @]

\* processMatch(): a soft match never replaces an earlier one.
IsHardMatch(md) == md.name # None /\ ~md.isSoft

processMatch(r, md) ==
  IF md.name = None \/ (md.isSoft /\ r.matched # None) THEN r
  ELSE [r EXCEPT !.matched = md.name, !.wrap = FALSE, !.soft = md.isSoft]

\* scanThroughTunnel(): whether the service starts over inside SSL ...
StartsOver(r) == r.matched \notin DOMAIN Inner /\ ~r.ssl /\ r.matched \in SslNames

\* Mutant: the probes are not reset.
TunnelKeepsProbes(r) ==
  IF r.matched \in DOMAIN Inner
  THEN [r EXCEPT !.ssl = TRUE, !.matched = Inner[r.matched]]
  ELSE IF StartsOver(r) THEN [r EXCEPT !.ssl = TRUE, !.matched = None, !.soft = FALSE]
  ELSE r

\* ... and what it does to the ServiceNFO in either case.
scanThroughTunnel(r) ==
  IF r.matched \in DOMAIN Inner
  THEN [r EXCEPT !.ssl = TRUE, !.matched = Inner[r.matched]]
  ELSE IF StartsOver(r)
  THEN [r EXCEPT !.ssl = TRUE, !.matched = None, !.soft = FALSE,
                 !.state = "INITIAL", !.resp = 0]
  ELSE r
--------------------------------------------------------------------------------
(* Ending a service and going on to its next probe.                         *)

nsock_iod_delete(r) == [r EXCEPT !.iod = FALSE, !.pending = {}, !.eof = FALSE]

\* What handleHostIfDone() does to host h when none of its services is found;
\* running are the clocks before.
HostDone(h, found, running) ==
  /\ clock' = IF found THEN running ELSE [running EXCEPT ![h] = FALSE]
  /\ num_hosts_timedout' = num_hosts_timedout +
       IF ~found /\ timedout[h] THEN 1 ELSE 0

\* Mutant: the services in progress are not looked at.
HostDoneIfNoneRemain(i, running) ==
  HostDone(Service[i].host, \E j \in remaining' : Service[j].host = Service[i].host, running)

\* handleHostIfDone() for the host of service i, once i is off the lists.
handleHostIfDone(i, running) ==
  HostDone(Service[i].host,
           \E j \in in_progress' \cup remaining' : Service[j].host = Service[i].host,
           running)

\* end_svcprobe(): r is the ServiceNFO of i, whose iod the caller disposed of.
EndWith(i, r, verdict, running) ==
  /\ svc' = [svc EXCEPT ![i] =
               [r EXCEPT !.state = IF r.wrap THEN "TCPWRAPPED" ELSE verdict]]
  /\ IF i \in in_progress
     THEN in_progress' = in_progress \ {i} /\ UNCHANGED remaining
     ELSE remaining' = remaining \ {i} /\ UNCHANGED in_progress
  /\ finished' = finished \cup {i}
  /\ handleHostIfDone(i, running)

end_svcprobe(i, r, verdict) == EndWith(i, r, verdict, clock)

\* Service i goes on as r; the lists and the clocks stay.
Proceed(i, r) ==
  /\ svc' = [svc EXCEPT ![i] = r]
  /\ UNCHANGED <<clock, num_hosts_timedout>>

\* nsock_read() completes at once after end of file, and may do so when SSL has
\* decrypted data already.
ReadsAtOnce(i, r) ==
  sync' \in IF r.eof THEN {i} ELSE IF r.ssl THEN {0, i} ELSE {0}

\* startNextProbe() without the move of the lists: the NULL probe's connection is
\* kept for the next probe unless restart, any other is closed.
startNextProbe(i, r, restart) ==
  LET reuse == ~restart /\ r.state = "NULLPROBE"
      q == IF reuse THEN nextProbe(i, r, FALSE)
           ELSE nextProbe(i, nsock_iod_delete(r), TRUE)
  IN  IF q.state \notin Working
      THEN end_svcprobe(i, q, q.state) /\ sync' = 0
      ELSE /\ UNCHANGED lists
           /\ IF reuse
              THEN /\ Proceed(i, [q EXCEPT !.pending = @ \cup {"write", "read"}])
                   /\ ReadsAtOnce(i, q)
              ELSE /\ Proceed(i, [q EXCEPT !.iod = TRUE, !.pending = {"connect"}])
                   /\ sync' \in {0, i}
--------------------------------------------------------------------------------
(* The constructor of ServiceGroup and the start of service_scan().         *)

Init ==
  /\ phase = "construct" /\ targetno = 0 /\ early = {}
  /\ remaining = {} /\ in_progress = {} /\ finished = {}
  /\ svc = [i \in Services |-> ServiceNFO(i)]
  /\ sync = 0
  /\ timedout \in [Hosts -> IF HostTimeout THEN BOOLEAN ELSE {FALSE}]
  /\ clock = [h \in Hosts |-> FALSE]
  /\ num_hosts_timedout = 0
  /\ result = [i \in Services |-> None]

\* The ports of host h with an answer that the UDP scan kept.
AnsweredPorts(h) ==
  {Service[i].port : i \in {j \in Services : /\ Service[j].host = h /\ Service[j].open
                                             /\ Service[j].proto = "udp"}}

AddTarget ==
  /\ phase = "construct" /\ early = {} /\ targetno < NumHosts
  /\ targetno' = targetno + 1
  /\ IF timedout[targetno']
     THEN /\ num_hosts_timedout' = num_hosts_timedout + 1
          /\ UNCHANGED <<remaining, early>>
     ELSE /\ remaining' = remaining \cup {i \in Services : Service[i].host = targetno'}
          /\ early' \in SUBSET AnsweredPorts(targetno')
          /\ UNCHANGED num_hosts_timedout
  /\ UNCHANGED <<phase, in_progress, finished, svc, sync, timedout, clock, result>>

EarlyMatch ==
  /\ phase = "construct"
  /\ \E port \in early : \E md \in payload_service_match(port) :
       LET found == {i \in remaining : Service[i].proto = "udp" /\ Service[i].port = port}
           i == Least(found)
           r == processMatch(svc[i], md)
       IN  /\ early' = early \ {port}
           /\ IF md.name = None \/ found = {}
              THEN UNCHANGED <<lists, svc, clock, num_hosts_timedout>>
              ELSE IF IsHardMatch(md) /\ ~StartsOver(r)
              THEN end_svcprobe(i, scanThroughTunnel(r), "HARDMATCHED")
              ELSE /\ Proceed(i, IF IsHardMatch(md) THEN scanThroughTunnel(r) ELSE r)
                   /\ UNCHANGED lists
  /\ UNCHANGED <<phase, targetno, sync, timedout, result>>

\* processResults(), on the services in S.
processResults(S) ==
  [i \in Services |-> IF i \in S THEN svc[i].state ELSE result[i]]

\* remove_excluded_ports(), then processResults() when no service is left.
StartScan ==
  LET excluded == {i \in remaining : <<Service[i].port, Service[i].proto>> \in Excluded}
  IN  /\ phase = "construct" /\ early = {} /\ targetno = NumHosts
      /\ remaining' = remaining \ excluded
      /\ finished' = finished \cup excluded
      /\ IF remaining' = {}
         THEN phase' = "done" /\ result' = processResults(finished')
         ELSE /\ phase' = "launch"
              /\ result' = [i \in Services |->
                              IF i \in excluded THEN "EXCLUDED" ELSE result[i]]
      /\ UNCHANGED <<targetno, early, in_progress, svc, sync, timedout, clock,
                     num_hosts_timedout>>
--------------------------------------------------------------------------------
(* launchSomeServiceProbes(): one turn of its loop for the front service.   *)

\* SG->busy, which would keep it from launching, is set around nsock_write() only,
\* and that never calls a handler.
CanLaunch == phase = "launch" /\ sync = 0
MoreToLaunch == remaining # {} /\ Cardinality(in_progress) < Parallelism

\* The host of the front service has timed out before its turn.
LaunchTimedOut ==
  /\ CanLaunch /\ MoreToLaunch
  /\ LET i == Least(remaining)
     IN  timedout[Service[i].host] /\ end_svcprobe(i, svc[i], "INCOMPLETE")
  /\ UNCHANGED <<phase, targetno, early, sync, timedout, result>>

\* It is begun.  A connect() that fails at once leaves it where it is for the
\* handler to end.
Launch ==
  /\ CanLaunch /\ MoreToLaunch
  /\ LET i == Least(remaining)
         h == Service[i].host
         q == nextProbe(i, svc[i], TRUE)
         running == [clock EXCEPT ![h] = TRUE]
     IN  /\ ~timedout[h]
         /\ IF q.state \notin Working
            THEN EndWith(i, q, q.state, running) /\ UNCHANGED sync
            ELSE /\ svc' = [svc EXCEPT ![i] = [q EXCEPT !.iod = TRUE,
                                                        !.pending = {"connect"}]]
                 /\ clock' = running
                 /\ UNCHANGED <<num_hosts_timedout, finished>>
                 /\ \/ /\ sync' = 0
                       /\ remaining' = remaining \ {i}
                       /\ in_progress' = in_progress \cup {i}
                    \/ /\ sync' = i
                       /\ UNCHANGED <<remaining, in_progress>>
  /\ UNCHANGED <<phase, targetno, early, timedout, result>>

LaunchEnd ==
  /\ CanLaunch /\ ~MoreToLaunch
  /\ phase' = "loop"
  /\ UNCHANGED <<targetno, early, lists, svc, sync, timedout, clock,
                 num_hosts_timedout, result>>
--------------------------------------------------------------------------------
(* The handlers.                                                            *)

\* nsock calls the handler of a request of service i: at once, or from its loop.
Called(i, type) ==
  /\ type \in svc[i].pending
  /\ \/ sync = 0 /\ phase = "loop"
     \/ sync = i /\ (type = "connect" \/ (type = "read" /\ "connect" \notin svc[i].pending))

\* The ServiceNFO of i without the request that is being reported.
Taken(i, type) == [svc[i] EXCEPT !.pending = @ \ {type}]

\* What every handler leaves alone.
Frame == UNCHANGED <<targetno, early, timedout, result>>

HostTimedOut(i) == timedout[Service[i].host]

\* servicescan_connect_handler(), host timed out or connection failed.
ConnectFails(i) ==
  /\ Called(i, "connect")
  /\ end_svcprobe(i, nsock_iod_delete(svc[i]), "INCOMPLETE")
  /\ sync' = 0 /\ phase' = "launch" /\ Frame

\* The same, connected: send_probe_text() and nsock_read().
Connected(i) ==
  /\ Called(i, "connect") /\ sync = 0 /\ ~HostTimedOut(i)
  /\ LET r == Taken(i, "connect")
         q == [r EXCEPT !.open = @ \/ Service[i].proto = "tcp",
                        !.pending = IF r.probe = NullProbe THEN {"read"}
                                    ELSE {"write", "read"}]
     IN  Proceed(i, q) /\ ReadsAtOnce(i, q)
  /\ phase' = "launch" /\ UNCHANGED lists /\ Frame

\* servicescan_write_handler(), the probe text sent.
Written(i) ==
  /\ Called(i, "write") /\ ~HostTimedOut(i)
  /\ Proceed(i, Taken(i, "write"))
  /\ UNCHANGED <<phase, lists, sync>> /\ Frame

\* The same, host timed out: it returns without launching anything.
WriteTimedOut(i) ==
  /\ Called(i, "write") /\ HostTimedOut(i)
  /\ end_svcprobe(i, nsock_iod_delete(svc[i]), "INCOMPLETE")
  /\ UNCHANGED <<phase, sync>> /\ Frame

\* Mutant: the connection is not closed.
WriteFailsKeepsIod(i) ==
  /\ Called(i, "write") /\ ~HostTimedOut(i)
  /\ end_svcprobe(i, Taken(i, "write"), "INCOMPLETE")
  /\ phase' = "launch" /\ UNCHANGED sync /\ Frame

\* Mutant: it returns without launching anything.
WriteFailsAndReturns(i) ==
  /\ Called(i, "write") /\ ~HostTimedOut(i)
  /\ end_svcprobe(i, nsock_iod_delete(svc[i]), "INCOMPLETE")
  /\ UNCHANGED <<phase, sync>> /\ Frame

\* The same, the write failed or took too long.
WriteFails(i) ==
  /\ Called(i, "write") /\ ~HostTimedOut(i)
  /\ end_svcprobe(i, nsock_iod_delete(svc[i]), "INCOMPLETE")
  /\ phase' = "launch" /\ UNCHANGED sync /\ Frame

\* servicescan_read_handler(), host timed out, or an error that ends the service.
ReadAborts(i) ==
  /\ Called(i, "read")
  /\ HostTimedOut(i) \/ ~svc[i].eof
  /\ end_svcprobe(i, nsock_iod_delete([svc[i] EXCEPT !.wrap = FALSE]), "INCOMPLETE")
  /\ sync' = 0 /\ phase' = "launch" /\ Frame

\* The data is added to the response, and the port is open.
Received(i, eof) ==
  [Taken(i, "read") EXCEPT !.wrap = FALSE, !.open = TRUE, !.eof = eof,
                           !.resp = IF @ < MaxResp THEN @ + 1 ELSE @]

\* The same, data arrived, of which end of file may be known already: a hard
\* match ends the service or starts it over in the tunnel, otherwise more is read
\* while there is time and room.
DataRead(i) ==
  /\ Called(i, "read") /\ ~HostTimedOut(i) /\ ~svc[i].eof
  /\ \E md \in Matches({svc[i].probe}) \cup {NoMatch}, more \in BOOLEAN,
        eof \in IF Service[i].proto = "tcp" \/ svc[i].ssl THEN BOOLEAN ELSE {FALSE} :
       LET q == processMatch(Received(i, eof), md)
       IN  IF IsHardMatch(md)
           THEN IF StartsOver(q)
                THEN startNextProbe(i, scanThroughTunnel(q), TRUE)
                ELSE /\ end_svcprobe(i, nsock_iod_delete(scanThroughTunnel(q)), "HARDMATCHED")
                     /\ sync' = 0
           ELSE IF more /\ q.resp < MaxResp
           THEN /\ Proceed(i, [q EXCEPT !.pending = @ \cup {"read"}])
                /\ ReadsAtOnce(i, q)
                /\ UNCHANGED lists
           ELSE startNextProbe(i, q, FALSE)
  /\ phase' = "launch" /\ Frame

\* The same, nothing more came in the time of the probe.
ReadTimesOut(i) ==
  /\ Called(i, "read") /\ ~HostTimedOut(i) /\ sync = 0
  /\ startNextProbe(i, [Taken(i, "read") EXCEPT !.wrap = FALSE], FALSE)
  /\ phase' = "launch" /\ Frame

\* The same, the peer closed (end of file or a reset); quick: within tcpwrappedms.
PeerCloses(i) ==
  /\ Called(i, "read") /\ ~HostTimedOut(i)
  /\ \E quick \in BOOLEAN :
       LET r == [Taken(i, "read") EXCEPT !.wrap = @ /\ svc[i].resp = 0]
       IN  IF r.wrap /\ r.state = "NULLPROBE" /\ quick
           THEN end_svcprobe(i, nsock_iod_delete(r), "TCPWRAPPED") /\ sync' = 0
           ELSE startNextProbe(i, r, TRUE)
  /\ phase' = "launch" /\ Frame

\* The same, an error of the packet or of SSL: on to the next probe.
ReadError(i) ==
  /\ Called(i, "read") /\ ~HostTimedOut(i) /\ ~svc[i].eof
  /\ startNextProbe(i, Taken(i, "read"), TRUE)
  /\ phase' = "launch" /\ Frame
--------------------------------------------------------------------------------
\* nsock_loop() returns when nothing is pending; then processResults().
ScanEnd ==
  /\ phase = "loop" /\ sync = 0
  /\ \A i \in Services : svc[i].pending = {}
  /\ phase' = "done"
  /\ result' = processResults(finished)
  /\ UNCHANGED <<targetno, early, lists, svc, sync, timedout, clock, num_hosts_timedout>>

\* Time passes: a host whose clock runs uses up its --host-timeout.
HostTimesOut(h) ==
  /\ HostTimeout /\ clock[h] /\ ~timedout[h]
  /\ timedout' = [timedout EXCEPT ![h] = TRUE]
  /\ UNCHANGED <<phase, targetno, early, lists, svc, sync, clock,
                 num_hosts_timedout, result>>

Handler(i) ==
  \/ ConnectFails(i) \/ Connected(i)
  \/ Written(i) \/ WriteTimedOut(i) \/ WriteFails(i)
  \/ ReadAborts(i) \/ DataRead(i) \/ ReadTimesOut(i) \/ PeerCloses(i) \/ ReadError(i)

Step ==
  \/ AddTarget \/ EarlyMatch \/ StartScan
  \/ LaunchTimedOut \/ Launch \/ LaunchEnd
  \/ \E i \in Services : Handler(i)
  \/ ScanEnd

Finished == phase = "done" /\ UNCHANGED vars

Next == Step \/ (\E h \in Hosts : HostTimesOut(h)) \/ Finished

Spec == Init /\ [][Next]_vars

\* The program runs on: nsock_loop() reports every request, at the latest when
\* its time is up.
FairSpec == Spec /\ WF_vars(Step)
--------------------------------------------------------------------------------
(* Properties.                                                              *)

\* The fields of the ServiceGroup, its ServiceNFOs and their requests have their
\* types (service_scan.cc:111-219).
TypeOK ==
  /\ phase \in {"construct", "launch", "loop", "done"}
  /\ targetno \in 0 .. NumHosts
  /\ early \subseteq {Service[i].port : i \in Services}
  /\ remaining \subseteq Services /\ in_progress \subseteq Services
  /\ finished \subseteq Services
  /\ svc \in [Services ->
       [state : {"INITIAL"} \cup Working \cup Verdicts, probe : ProbeNums \cup {NullProbe},
        ssl : BOOLEAN, soft : BOOLEAN, matched : Names \cup {None}, wrap : BOOLEAN,
        resp : 0 .. MaxResp, open : BOOLEAN, iod : BOOLEAN,
        pending : SUBSET {"connect", "read", "write"}, eof : BOOLEAN,
        tried : SUBSET (BOOLEAN \X (ProbeNums \cup {NullProbe}))]]
  /\ sync \in Services \cup {0}
  /\ timedout \in [Hosts -> BOOLEAN] /\ clock \in [Hosts -> BOOLEAN]
  /\ num_hosts_timedout \in 0 .. NumHosts
  /\ result \in [Services -> {None, "INITIAL", "EXCLUDED"} \cup Verdicts]

\* Every request that nsock will report is one of a service that is being worked
\* on, and every such service waits for a request.  A handler called for a
\* service that was ended would fail the assertion of end_svcprobe(), a service
\* in progress without a request would hold its slot for ever.
RequestsMatchLists ==
  \A i \in Services :
    svc[i].pending # {} <=> (i \in in_progress \/ (i = sync /\ i \in remaining))

\* The clock of a host runs while one of its services is in progress, and stops
\* at the latest when its last service has ended: the host is neither spared its
\* time nor charged for that of others (handleHostIfDone()).
Unfinished(h) == {i \in remaining \cup in_progress : Service[i].host = h}

ClockCoversWork ==
  /\ \A i \in in_progress : clock[Service[i].host]
  /\ \A h \in Hosts : clock[h] => Unfinished(h) # {}

\* A service is given up as unrecognised only after every probe for its port and
\* every other probe common enough was begun, inside the tunnel if there is one.
NoMatchIsExhaustive ==
  \A i \in finished : svc[i].state = "NOMATCH" =>
    \A p \in ProbeNums :
      /\ Probes[p].proto = Service[i].proto
      /\ \/ portIsProbable(p, svc[i].ssl, Service[i].port)
         \/ Probes[p].rarity <= Intensity
      => <<svc[i].ssl, p>> \in svc[i].tried

\* With no host timed out the scan ends with every service of the group finished.
EveryServiceFinished ==
  phase = "done" /\ (\A h \in Hosts : ~timedout[h]) => finished = Services

\* Version detection ends, whatever the peers do.
Termination == <>(phase = "done")
================================================================================
