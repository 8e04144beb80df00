# A TLA+ model of Nmap's core

This directory holds TLA+ models of the core of Nmap, the configurations with
which TLC checks them, and proofs that TLAPS checks. The modules are translated
from the C++ sources at the top of the repository; `PROJECT.json` maps every
definition to the lines it stands for.

## The system and its parts

Nmap discovers hosts, scans their ports, and then runs version detection, OS
detection, traceroute and scripts. `nmap_main()` (`nmap.cc`) goes through these
phases for one group of targets after the other; each phase is single-threaded.
What makes them hard is the network: probes are lost, answers come late, twice
or in another order than the probes, and everything is bounded by timeouts,
congestion windows and retry limits which adapt while the scan runs.

| part | state it keeps | operations | hard because |
|---|---|---|---|
| probe engine, `scan_engine.cc` | hosts still to be scanned and completed; per host the outstanding probes, bench, retry stack, try limit, counters; the group's window and ping host | send, retransmit, time out, bench, give up, retire a host, global pings | answers race timeouts; five places hold an attempt at a port; counters are kept by hand; hosts are erased under live iterators |
| raw answers, `scan_engine_raw.cc` | pcap handle, raw socket | match a packet with a probe, report a state | any outstanding probe of any host may be answered, also those given up long ago |
| connect() probes, `scan_engine_connect.cc` | sockets, `fd_set`s, a socket in reserve | connect, select, handle the result, close | results arrive inside the call that sends; descriptors are reused at once; reading `SO_ERROR` resets it |
| port table, `portlist.cc` | states, reasons, counts per state, default state | set, forget, iterate, sum up | contradicting answers; ports that exist only as a default; several scans write one table |
| host timeout clock, `Target.cc` | time used | start, stop, ask | runs out in any phase |
| timing, `timing.cc` | congestion windows, scan delay, round-trip estimates, rate meters | update on answers, drops and timeouts | integer arithmetic at its limits, drops noticed late and in batches, options that contradict each other |
| version detection, `service_scan.cc` | per service the current probe, what it matched, its connection; the lists of remaining, running and finished services; host clocks | launch, connect, write, read, match, start over in a tunnel, end | handlers called inside the request that causes them; the handlers are all that launches waiting services; hosts time out |
| OS detection, `osscan2.cc` | probes per host and round | send, match, rounds | timing, retries |
| traceroute, `traceroute.cc` | per host the TTLs sent, three lists of probes and a chain of hops; one tree and cache of hops for all hosts | send, time out, resend, link into a known chain, merge chains, hand the trace over | late answers, hosts that share hops and leave their traces to each other |
| DNS resolver, `libnetutil/massdns.cc` | requests on the list of new ones, waiting and in process at each server, and on record there; capacities; the count by which it ends | send, time out, move to the next server, drop, defer to the system's resolver, lose a server | late and repeated answers, requests on several lists, servers lost with everything they hold |
| script engine, `nse_main.lua`, `nse_nsock.cc` | coroutines, sockets | schedule, mutexes, callbacks | scheduling |
| nsock, `nsock/` | events on lists and in a heap, counts per descriptor and pool, what epoll watches | connect, read, write, timer, cancel, delete, loop, expire | handlers change the lists that the loop is in; edge-triggered wakeups |

They interact by calls and through `Target`: the engine of `ultra_scan()` calls
the raw and connect() senders, which may call back into the engine's update
functions at once; those update the target's `PortList`, its flags and its ping
probe, which a later scan uses. Version detection, the DNS resolver and the script
engine are handlers of nsock, called from `nsock_loop()` or inside the request
that they belong to. Scripts and version detection write to the same
port table afterwards. `PROJECT.json` lists all parts, with the ones that are
not modelled and why, and the hazards of the code, each at its line with the
properties that would show it.

## Modules

### UltraScan

The loop of `ultra_scan()`: `doAnyPings`, `doAnyOutstandingRetransmits`,
`doAnyRetryStackRetransmits`, `doAnyNewProbes`, `waitForResponses`,
`processData` with its two calls of `removeCompletedHosts`. `pc` is the phase of
the loop. Each variable has the name of the field it stands for:

* `incompleteHosts`, `completedHosts`, `nextI` of `UltraScanInfo`;
* `pinghost`, `group_probes_active`, `num_hosts_timedout` of `GroupScanStats`;
* `probes_outstanding`, `num_probes_active`, `num_probes_waiting_retransmit`,
  `probe_bench`, `bench_tryno`, `retry_stack`, `max_successful_tryno`,
  `next_portidx`, `max_tryno_sent` and `rld_waiting` of `HostScanStats`;
* `hostI`, `hss`, `unableToSend` and `timedout` are local variables that live
  across steps of a loop.

One step is one probe sent, one answer handled, one host of a loop, or the end
of a phase. The five kinds of scan (`ScanTypes`) differ in how probes are sent
and what answers do: raw port scans, connect() port scans, raw host discovery,
ARP and neighbor discovery, and connect() host discovery. A step of a connect()
kind may handle the result in the step that sends the probe, as
`sendConnectScanProbe()` does. An ARP or neighbor discovery answer destroys all
probes of its host; one that finds none in the list (`ArpResultNoProbe`) marks the
host as up, and the wait goes on.

Abstractions. The clock is nondeterminism: `processData` may find any set of
active probes late and any set of probes expired; a send allowed by the state
may still be held up (scan delay, `--max-rate`). The congestion windows are the
constants `HostCwnd` and `GroupCwnd`; a window below them is a send that is held
up. `--min-rate`, which overrides the windows, is left out. A probe list is a
set, since its order only selects who goes first. The port of a probe is its
rank in the port list, and `result` keeps of an answer only that there was one;
what the answer says is the subject of PortList. The number that a ping carries is
seven bits wide as in the code; `nth` of a probe, its ordinal among the pings of
its host, stands for the identity of the object, which no comparison of the engine
looks at. `completed()` of the code also looks at `weird_responses`
for a debug message only, which is left out.

`pc = "aborted"` stands for a failed assertion of `processData` or
`moveProbeToBench`, and `pc = "freed"` for the use of a probe after it was freed.

### ScanPromise, UltraScanPromise

ScanPromise says what a caller of `ultra_scan()` may rely on, for port scans and
host discovery alike, without probes, windows, bench, pings or clocks. Of each
port it is known nothing, an answer, that it cannot be asked, or the last of the
tries that it left without an answer. A port is given up after one try more than
what has worked for another port of its host, and no more than `--max-retries`;
an answer overrides silence as long as the host is remembered; a host seen up
stays up; a host is finished only with a finding for each port (port scans) or a
verdict (discovery) and only `--host-timeout` ends it before that; and the scan
returns when, and only when, it is through with every host.

UltraScanPromise gives the refinement mapping: the stage of a host is the set it
is in (a completed host whose clock has expired ran out of time), the findings
are `result`, the verdict is `flags`, `best` is `max_successful_tryno`, and the
scan is over when `pc = "done"`. `KeepsPromise`, the specification of ScanPromise
under this mapping, is a property of two runs. Nearly all of the engine is
invisible at this level: sending, retransmitting, benching and timing out are
stuttering steps, and what TLC shows is that none of them can make the engine
retire a host too early, give up a port at the wrong try, or lose an answer.

### UltraScanProofs

The theorems about UltraScan and its refinement of ScanPromise, see below.

### Timing, MCTiming

The records by which the engine paces itself: `ultra_timing_vals` of hosts and
group, `send_delay_nfo` of hosts, `timeout_info` of both, and what
`ultrascan_adjust_timing()`, `ultrascan_adjust_timeouts()` and
`boostScanDelay()` do to them. UltraScan decides which probes are sent and when;
here a probe may be sent at any time and any outstanding probe answered, timed
out or expired, so what holds here holds for every order that UltraScan allows.
The constraint that is kept is the one on trynos: a retransmission follows a
timeout and stays within the adaptive limit. A window is a double in the code
and a number of 1/`Unit` probes here, rounded down; round-trip times are integers
of microseconds as in the code, and `>>` is division that rounds down. They are 32
bits wide in the code: `SamplesAssumption` limits the samples to 2^28 microseconds, with
which nothing that is computed leaves that range. The scan delay and its maximum
(`MaxDelays`) are independent of each other, as their options are. `hit` of a
probe and `lo` and `hi` of an estimate are history. `ManyDrops` and `FewProbes`
are 10 and 80 in the code and small in the run, so that the delay is boosted and
the group's window stands in for a host's. `MCTiming` gives the samples.

### TimingProofs

The theorems about Timing, see below.

### ServiceScan, MCServiceScan

`ServiceGroup` and `ServiceNFO` of `service_scan.cc`: the constructor with the
early UDP responses of the port scan, `launchSomeServiceProbes()`, the connect,
write and read handlers with every status nsock gives them, `startNextProbe()`,
`scanThroughTunnel()`, `end_svcprobe()` and `handleHostIfDone()`. Of nsock, which
has a module of its own, only this is here: a request is in `pending` until its handler is called, from
`nsock_loop()` or, where nsock completes a request at once, inside the call that
makes it (`sync`). The service a pattern matches is any that the match lines of
the probe or of its fallbacks name. A response is the number of reads it took.
Left out: the file of probes and its parser, version templates, fingerprints, and
`busy` of `ServiceGroup`, which is set only around a `nsock_write()`; that calls no
handler, so nobody ever sees it set.
`tried` is history. MCServiceScan gives a file of three probes and a group of
four services. ServiceScanProofs has the theorems.

### PortList, MCPortList

`PortList` of `portlist.cc` as a record per protocol: the ports that were
created, the default state of the others, and the counts by state. Actions are
its writers: answers of a port scan through `ultrascan_port_pspec_update()` with
its rules about which state prevails, `bounce_scan()`, version detection
(`adjustPortStateIfNecessary`) and `nmap.set_port_state()` of scripts. `nextPort`,
`nextIgnoredState` and `nseU_getport` (the port a script names) are operators;
`isIgnoredState` depends on `-v` and `-d` (`Verbose`, `Debugging`). `answers` is a history
variable. MCPortList gives the ports and the sequences of scans. That a plan has
one TCP scan and one UDP scan at most, but perhaps both SCTP scans, is the
assumption `PlansAssumption`, which is what `NmapOps::ValidateOptions()` enforces.
PortListProofs has the theorems.

### ConnectScan, MCConnectScan

The sockets of `scan_engine_connect.cc`: `ConnectScanInfo` with its socket in
reserve, `fds_read` (the three `fd_set`s always agree, so one stands for all),
`numSDs` and `maxValidSD`, the probe list in its order, and `select()` with one
step for each result. The operating system is external: `socket()` gives out the
lowest free descriptor, `SO_ERROR` is reset when read, and a failed socket stays
ready. `reports` collects what the engine is told. `nextSD` is -1 when there is no
socket in reserve. Where getsockname() fails for a connection that was made at once
(`AsksForName`), the code leaves the probe in its list with a socket that is open and
not watched, and so does the model. MCConnectScan says that the ports may be exchanged for each
other. ConnectScanProofs has the theorems.

### Traceroute, MCTraceroute

`traceroute()` for a sequence of host groups: `send_new_probes()`,
`read_replies()`, `cull_timeouts()`, `remove_finished_hosts()` and
`transfer_hops()`. `host` is `HostState` of each target, with
`unanswered_probes`, `active_probes` and `pending_resends` (a host sends a TTL
once, so the TTL is the probe), `sent_ttls`, `current_ttl`, the direction and
`reached_target`. `hop` is all of `hop_cache` and `timedout_hops`: a hop is
known by its TTL and its address or, if it was made for a timeout, by the host
that made it. `insert_hop()`, `link_to()` and `merge_hops()` are operators on
this tree; a chain is a set of hops with different TTLs, so `merge_hops()` is a
union with a rule for TTLs that both chains have. An answer may come for every
unanswered probe, from any router that the constant `Answers` names, however
often the probe has timed out before. `distance_guess()` is any of `Guesses`.
`handed_over` is history. Left out: building and decoding packets. TracerouteProofs
has the theorems.

### MassDns, MCMassDns

`resolve_nsock()` of the resolver with its main loop and its handlers:
`deal_with_timedout_reads()`, `do_possible_writes()` with `server_send()`,
`handle_write()`, `handle_read()` with each kind of answer, `process_request()`,
`close_dns_servers()`. `server[s]` has `to_process`, `in_process`, `records`,
`reqs_on_wire`, `capacity` and `ssthresh`; `writes` and `asked` are what nsock and
the network hold. A request may be on several lists at once, and the model keeps
that. Timeouts are any choice, even before the write of the request completes,
as the time compared is then that of an earlier try. Left out: packet coding, the
host cache, and the system's resolver, which gives every request left to it a
result. MassDnsProofs has the theorems.

### Nsock

The event library with its epoll engine: requests (`nsock_connect`, `nsock_read`,
`nsock_write`, `nsock_timer_create`), `nsock_event_cancel`, `nsock_iod_delete`,
`nsock_loop_quit`, and the loop with `process_iod_events()`, which walks the event
lists of an iod with a cursor while the handlers it calls change them, and
`process_expired_events()`. `frames` is the stack of handlers that are running;
in each of them, and outside of the loop, callers may make any call. `event` is
the array of structures, which are recycled through `free_events`. The kernel is
external: unread datagrams, writability, the peer's end, and the ready list of
epoll, which a socket joins when something arrives that is watched for or when
what is watched changes, and leaves when it is reported. Left out: SSL, packet
capture, proxies, the other engines. Handlers called for a cancelled event make
no calls. NsockProofs has the theorems.

ServiceScan and MassDns use nsock through an interface of their own (a request
is pending until its handler is called, perhaps at once); `AnsweredOnce`,
`TimeoutsDelivered` and `CountsExact` are what that interface takes for granted.

Operators marked *Mutant* are no part of a model: each is a definition with one
plausible mistake, and `PROJECT.json` says which property notices it.

## Runs

TLC finishes each of them within three minutes, with two workers.

| run | bounds | distinct states | shows |
|---|---|---|---|
| UltraScan_ports | 1 host, 3 ports, 2 retries, windows of 2, pings, host timeout; raw, connect(), discovery by raw packets and ARP | 1 610 000 | the engine keeps ScanPromise (`KeepsPromise`); tries within the limit, assertions hold, one pending attempt per port, retry stack sorted, types |
| UltraScan_hosts | 2 hosts, 1 port, 1 retry, group window of 1, host timeout, global pings, `--discovery-ignore-rst`, all kinds | 723 000 | `KeepsPromise` while hosts are removed; counters agree with the lists (`ProbeAccounting`), iterators valid, completed hosts quiet |
| UltraScan_live | 3 hosts, 1 port, no retry, windows of 1, global pings, raw | 198 000 | the scan ends |
| PortList_states | 4 ports of 3 protocols, 6 sequences of scans | 126 000 | counts exact, order of answers irrelevant, no unexpected state, iteration complete, each ignored state summed once |
| ConnectScan_sockets | 3 ports (symmetric), 2 tries, 3 usable descriptors, 2 sockets allowed, both modes | 2 154 000 | one owner per socket, select() watches the sockets of probes and all of them save those that a failed getsockname() left, bounds hold |
| ServiceScan_group | 2 hosts, 4 services (TLS, two of UDP, an excluded one), 3 probes, 2 at a time, responses of up to 2 reads, host timeout | 237 000 | requests and lists agree, host clocks exact, unrecognised services exhausted, every service finished if no host times out, version detection ends |
| Timing_pace | 1 host and its group, 2 outstanding of 3 probes, pings and one retransmission, 3 times, 3 samples, a maximum above and one below the scan delay | 508 000 | windows open and within limits, one decrease for each batch, the delay grows or falls to its maximum, estimates within their samples |
| Traceroute_group | 2 remote targets three hops away and a direct one, one or three groups, 2 probes in flight, 1 resend, a cache of 3 hops | 487 000 | count and lists of probes agree, the hops stay a tree, merging loses nothing a host knew, a host that did not hand its trace over has every hop, every group ends |
| MassDns_batch | 2 requests (one of them for the AAAA record), 1 or 2 servers, 2 tries or 1, capacity of 1, one failed write, one lost server | 544 000 | no request without a result is off the lists and the count of them is exact, the batch ends unless all servers are lost or failed writes have filled one |
| Nsock_events | 1 iod, 4 requests, 1 datagram, with or without timeouts | 822 000 | counters and watches exact, structures owned and recycled once, one answer for a request, no wakeup lost, every request with a timeout answered |

Why the bounds are enough. A port needs two rivals before the bench holds ports
of which one is answered and raises the limit while another goes to the retry
stack: three ports and two retries reach every combination of list, bench and
stack. Two hosts are the least with which the group's window counts (it is not
looked at for one host) and with which `nextI` has somewhere to go; three are the
least with which the pings of a completed ping host can keep incomplete hosts
from the window, so the run about termination has three. The counts of probes since the last
ping saturate at the gaps, which are small so that pings do happen. In
ConnectScan both limits are reached: two watched sockets are all that is allowed,
and with a third left open by getsockname() the next descriptor is beyond the `fd_set`.
In ServiceScan the four services are one of each kind that the code treats
differently, both hosts have two so that a clock must outlive the first, and the
same UDP port on both is what early responses can confuse; two at a time leave
one waiting. In Timing three probes are the least with which a probe is
outstanding across a decrease and is itself a drop afterwards, and three times
the least with which a probe is sent after one decrease and before another; the
samples are a negative one that the code takes as the first only, one that it corrects
to a short round trip, and a long one that it ignores after a short one; as the first
estimate the long one drives the deviation over its limit. In Traceroute three hops are the least with which two hosts
share a router, differ in the next one and have a timed-out hop to merge, two
probes in flight the least with which answers overtake each other, and the cache
is cleared between groups in some behaviours and not in others. The run about
the claim has a hop more, since a hole needs two hops above it. In MassDns a request
can be on the lists of both servers at once, and with a capacity of one a single
failed write is enough to fill a server, while the other request waits for it.
`CapacityMin = CapacityMax` there, so growing and shrinking capacities are covered by
the proofs only. In Nsock four requests are enough for an event that is delivered while its handler
cancels, deletes or creates others and a recycled structure is used again; one
iod suffices, as iods share only the heap, the free list and the pool's count,
which timers share with it too. What is proved below holds for numbers of any size.
`CHECK_DEADLOCK FALSE` is set where the modelled part has nothing more to do at
the end (PortList after the scripts, ConnectScan after the last try).

`TypeOK` of each module documents the types of its variables; the run
UltraScan_ports checks that of UltraScan, and it is proved for UltraScan, Timing, Nsock,
ConnectScan, PortList, Traceroute and MassDns.

Fairness. In UltraScan (`FairSpec`): the loop never blocks, as select() and pcap
have a time limit: a phase always ends (weak fairness of `Phase`). Limits that
depend on the time are delays, so a send that is possible again and again is
made (strong fairness of `SomeSend`; the send may be disabled in between, when
the loop is in another phase). A probe that stays in its list grows older than
any timeout (strong fairness of `SomeTimeout`), clocks run out (strong fairness of
`ClockExpires`), and a completed host gets older than `completedHostLifetime` and is
purged, if it is not the ping host (strong fairness of `Purge`). Nothing is assumed of the network: no answer need ever come. connect() host discovery is
left out of these runs because of the freed probes among the observations below. In
ServiceScan the program runs on (weak fairness of `Step`): every request has a
time limit, so nsock reports each of them; which status it reports is left open,
and no host need ever time out. In Traceroute the loop goes on (weak fairness of
`NextPhase`), a host that may send again and again does so (strong fairness of
`SendProbe`: the scan delay may end a round early but not every round), and an
active probe gets older than its timeout (strong fairness of `CullSome`). In
MassDns the loop goes on (weak fairness of `LoopStep`), `nsock_loop()` returns at
its timeout although handlers may keep it busy (strong fairness of `EndLoop`),
and requests in process get old (strong fairness of `SomeTimeOut`). In Nsock the
loop and the handlers go on and callers call `nsock_loop()` again as long as
events are pending (weak fairness of `LoopStep`), and time passes (strong fairness
of `Time`). Nowhere is anything assumed of the network.

Runs that refute a statement of the repository:

| run | statement | what happens |
|---|---|---|
| UltraScan_claim_stall | active probes of completed hosts are removed "or we can run out of space" (`scan_engine.cc:1134`) | a host times out with an ordinary probe active and becomes the ping host, which the purge leaves alone; it keeps the probe for ever, and with a window of one the scan never ends |
| Traceroute_claim_holes | "If we have the tag for the last node, we take responsibility for finishing the trace" (`traceroute.cc:1042`) | two hosts whose probes of TTL 3 and 2 are answered crosswise find each other's tag at the end of the chain; both stop counting down and nobody probes TTL 1 |

Observations made while modelling, without a run of their own:

* `servicescan_write_handler()` returns without launching services when its host
  has timed out (`service_scan.cc:2442`); if nothing else is in progress version
  detection ends with services of other hosts waiting, which is why
  `EveryServiceFinished` is about runs in which no host times out;
* the early UDP response of a target is given to the service with the same port
  of an earlier target, if there is one (`service_scan.cc:2007`);
* with `-T0` and `-T1` the scan delay is above its maximum, and the first boost
  lowers it, from 15 seconds to one with `-T1` (`scan_engine.cc:1911`);
  `DelayGrowsToMax` states what is left, that it falls to the maximum and no lower;
* when getsockname() fails for a port that was found open, the probe keeps its
  socket, and if the connection was made at once the socket is never watched: the
  port is left to the probe's timeout (`scan_engine_connect.cc:365`);
* a connect() that succeeds at once in a retransmission of host discovery frees
  all probes of the host, the one at hand included, in a loop that says that
  "Nothing drops off list during this function" (`scan_engine.cc:2447`); the model
  ends such a behaviour in `pc = "freed"`;
* the local variable `timedout` of `removeCompletedHosts()` is stale for a host
  that is completed, which is then counted as timed out (`scan_engine.cc:1151`);
* `allowedTryno()` does not look at `retry_stack` when it decides `mayincrease`,
  so ports may be given up below a limit that is reached later;
* a probe held back by rate limit detection goes out whatever the congestion
  window is;
* with `--discovery-ignore-rst` the number of a refused timing ping becomes
  `max_successful_tryno`, and a refused socket of a connect() discovery stays
  watched, is reported again with error 0, and the host is up
  (`scan_engine_connect.cc:261`); the same happens after an error that
  `handleConnectResult()` does not know, and the port is reported open;
* `get_ping_pcap_result()` announces that it destroys the probe of an undecided
  destination unreachable message and does not (`scan_engine_raw.cc:622`, `829`);
* the reason of an answer whose state is ignored replaces the reason of the state
  that is kept (`scan_engine_raw.cc:2148`);
* `nextPort()` goes on to the other protocols after the last port of the one it was
  asked for (`portlist.cc:594`), so a script that names a port that was not scanned
  may be given that of another protocol;
* `probeExpireTime()` gives at most ten seconds, below the timeout that it should
  exceed "a bit" when `-T0` or `-T1` make that longer (`scan_engine.cc:532`);
* `end_svcprobe()` replaces every verdict by TCPWRAPPED as long as nothing was
  read and no read timed out, also for UDP, for a connection that failed and for
  a host that timed out (`service_scan.cc:2280`);
* excluded services are pushed to `services_finished` in their initial state, and
  `processResults()` overwrites the state EXCLUDED that the port was given;
* in the resolver, `assert(new_reqs.empty())` (`massdns.cc:765`) fails when the
  connect() of every server fails at once (`phase = "aborted"`); once every
  server is lost the main loop goes round for ever, as it does not look at what
  `nsock_loop()` returns; and `reqs_on_wire` is neither reset when a server is lost
  nor decremented when a write fails (`massdns.cc:949`). As many failed writes as the
  capacity fill a connected server for good, already in the first batch (`Clogged`):
  nothing is in process there, and the requests that wait for it are never sent; and
  a later batch can find a server full from the start. `FirstBatchEnds` is therefore
  about the first batch and excepts `AllLost` and `Clogged`; a late answer decrements the number a second time, so that it does not
  bound what is outstanding at a server (`massdns.cc:155`);
* an answer SERVFAIL without records is handled as NXDOMAIN, since the empty
  answer is tested first (`massdns.cc:1268`); a request that has its
  result and is still on a list of another server loses it in
  `close_dns_servers()`;
* a request of the resolver is dropped when `servers_tried` is exactly
  `SERVERS_TO_TRY` (`massdns.cc:1063`). One that is dropped while it is still in
  process at another server, after a write that failed, times out there too and is
  counted beyond the limit; it is then marked as done once more, which does no harm
  as it has its result (`TriedWithinLimit` below: no request that lacks one gets
  there);
* nsock loses wakeups with epoll for a caller that has two reads pending on an
  iod, or whose read needs more than the first datagram: the socket is not
  reported again as long as what is watched does not change and nothing arrives,
  and `do_actual_read()` stops after a short read. `NoLostWakeup` states what
  callers must keep to (`OneAtATime`);
* an iod that is deleted outside of the processing of its events stays on
  `active_iods`, with its structure, until the pool is deleted;
* "Hops 1-k are the same as for T" (`output.cc:2328`) may be untrue where traces
  of three hosts behind load balancing routers are merged, since merging replaces
  hops of one chain by those of the other;
* when the NULL probe is the last probe of a service its connection stays open
  until the pool is deleted (`--version-intensity 0`); `busy` of `ServiceGroup`,
  which is to prevent nested launches, is set only around `nsock_write()`
  (`service_scan.cc:2091`), during which nothing is launched.

## Proofs

UltraScanProofs proves for every number of hosts and ports, every `TrynoCap` up
to 127, all window sizes and ping gaps, and every kind of scan (the assumption
`ConstantsAssumption`):

* `TypeCorrect`: `Spec => []TypeOK`;
* `RetriesBounded`: `Spec => []TrynoWithinLimit`;
* `NoAssertFails`: `Spec => []AssertsHold`;
* `StackSorted`: `Spec => []RetryStackSorted`;
* `IteratorsNeverDangle`: `Spec => []IteratorsValid`.

The inductive invariant `IInv` is the conjunction of the five. They need each
other: the assertions about the bench hold because all of `probe_bench` has
`bench_tryno`, which no probe can exceed (`TrynoWithinLimit`) and below which the
whole retry stack lies (`RetryStackSorted`); a new batch keeps the stack sorted
because the bench was above it; and a retried probe is within the limit because
batches are strictly below it and the limit never goes down, as
`max_successful_tryno` only grows. Steps that go through hosts stay typed only
with `IteratorsValid`. The argument has one lemma for each action (`...Keeps`);
what an action does to the probe lists is reduced to `Effect`: types are kept,
the lists stay within the old limit, and `max_successful_tryno` does not go
down. `LimitKept` concludes `TrynoWithinLimit` from that.

On these build the theorems about the counters:

* `OneAttempt`: `Spec => []OnePendingAttempt`;
* `CountersExact`: `Spec => []ProbeAccounting`;
* `NoActiveProbeLeft`: `Spec => []CompletedHostsQuiet`.

A counter is exact only if a step takes one probe out of one count, so the
invariant, `CInv`, has to know the probes apart. `LocalInv` says it for one host: two
probes in the list differ in port, try or ordinal (`ListInv`), the tries of a port
in the list grow with retransmissions and only the last may be sent again
(`TriesInv`), a benched port has no such probe and is not on the stack (`BenchInv`,
`StackInv`), and a port that was not sent yet is nowhere (`FreshInv`). It is stated
as an operator of the fields of a host rather than of the variables, so that an
action is shown to keep it from what the action does to one host. The lemmas about
cardinalities (one added, one taken away, one that moves between two counts) are
stated once. `NoActiveProbeLeft` needs besides that no host is in both sets
(`GroupInv`).

The last part of the module is the refinement:

* `PromiseKept`: `Spec => KeepsPromise`.

Every action is shown to be a step of ScanPromise under the mapping or to leave it
unchanged, one lemma for each. What that takes beyond the above is `PromInv`: a port
that was sent and has no finding is outstanding, on the bench or on the retry stack
(`CoverInv`), which is why a host that is completed has a finding for each port; and
only an incomplete host's clock runs (`ClockInv`), which is why a completed host that
is "timedout" was so when it retired.

ConnectScanProofs proves for any number of ports and tries and any limits on
descriptors:

* `ConnectTypes`: `Spec => []TypeOK`;
* `SocketsHaveOwners`: `Spec => []SocketsOwned`;
* `SelectWatchesAll`: `Spec => []WatchesExactly`;
* `SocketsWithinLimits`: `Spec => []SocketsBounded`.

The three properties together with the types are nearly inductive; `ReserveInv` adds
that the socket in reserve is never the descriptor 0, which `sendOK()` would take for
none, and that the open sockets are finitely many. A probe whose socket is not
watched is one that was connected at once. `maxValidSD` only has to cover
the watched descriptors, as the code lowers it to the greatest that is left.

ServiceScanProofs proves for any services, probes, fallbacks and limits:

* `RequestsAndLists`: `Spec => []RequestsMatchLists`;
* `ClocksCoverWork`: `Spec => []ClockCoversWork`;
* `NoMatchAfterAllProbes`: `Spec => []NoMatchIsExhaustive`;
* `AllServicesFinish`: `Spec => []EveryServiceFinished`.

`ServiceInv` has three parts beyond the types. `ProbesInv` says how far a service has
come with the probes: all of those before the current one that apply to it were
tried, in the tunnel if there is one. `RequestsInv` says which requests a service can
have at a time: a connect is alone, a write never is, and none is made by the NULL
probe. `PhaseInv` says what holds in each phase of the group, above all that the loop
waits only when no waiting service could be launched or a host has timed out, which
is the exception of the write handler among the observations.

PortListProofs proves for any scanned ports and any plans that the options admit:

* `PortTypes`: `Spec => []TypeOK`;
* `CountsAreOfThePorts`: `Spec => []StateCountsExact`;
* `AnswerOrderIsIrrelevant`: `Spec => []StateIgnoresAnswerOrder`;
* `NoFatalState`: `Spec => []NoUnexpectedState`;
* `LoopsGiveEveryPort`: `Spec => []IterationComplete`;
* `EachIgnoredStateOnce`: `Spec => []IgnoredStatesSummedOnce`.

Each operation on the table of a protocol keeps the table's type and its counts
exact, by a lemma for each; all of them come down to `Recount`, that moving the size
of a set of ports from one count to another is right if these ports and no others
changed from the one state to the other. The invariant behind the order of answers,
`AnswersInv`, says of the ports of the current scan and of those to come that a port
is in the list if it has had answers, in the state that prevails among these: the
later scans are in it because the second SCTP scan finds what the first has left, and
`PlanInv` says that no other scan can. `Decided` is the rule itself: keeping or
replacing the state as `ultrascan_port_pspec_update()` does gives what prevails among
the answers with the new one.

The last two theorems are about loops, which the model writes as recursive
functions. They rest on a part that knows nothing of ports: where a function gives
the least of the elements of a finite set that come after a given one in a strict
total order, the sequence that begins with a start value and asks it again and again
gives all elements, in order, after as many turns as there are (`LoopComplete`).
Induction over the turns is replaced by the least number for which the claim would
fail (`LeastNat`), and the recursive function exists by `RecursionExists`, so that
its CHOOSE can be unfolded. `nextPort()` and `nextIgnoredState()` are then shown to
give the next element in their orders (`NextPortGivesNext`, `NextStateGivesNext`);
for the latter the order is by count and then by number, and its totality is what the
tie-breaking of the code is for.

TimingProofs proves for any number of hosts and probes, any times, any samples of
either sign and any options that `OptionsAssumption` admits, which is what the option
checks of `NmapOps` establish (the proofs do not use `SamplesAssumption`, which is
about the width of the code's integers only):

* `TimingTypeCorrect`: `Spec => []TypeOK`;
* `WindowsNeverClose`: `Spec => []WindowsStayOpen`;
* `RepliesCounted`: `Spec => []RepliesWithinExpected`;
* `EstimatesSound`: `Spec => []EstimateWithinSamples`;
* `BatchReducesOnce`: `Spec => OneDecreasePerBatch`;
* `DelayGrows`: `Spec => DelayGrowsToMax`, with the delays of `-T0` and `-T1`, which
  are above their maximum, included.

Its `IInv` says that each window and each estimate is in order (`GoodWindow`,
`GoodEstimate`; an operator of `timing.cc` keeps them so, by one lemma each) and
that the times agree (`GoodProbe`): no window was reduced in the future, and a
window that was reduced while a probe was outstanding was reduced at or after the
time the probe was sent. The last is what makes batches: the probe that reduces a
window was sent after `last_drop`, so the window is not in its `hit`.
`EstimateWithinSamples` rests on `SmoothedBetween`, that `srtt += rttdelta >> 3`
lands between the old estimate and the sample for either sign, as the shift
rounds down.

NsockProofs proves for any iods, any number of requests and of datagrams and any
callers:

* `NsockTypes`: `Spec => []TypeOK`, so no counter goes below zero;
* `PendingEventsCounted`: `Spec => []CountsExact`;
* `EveryStructureOwned`: `Spec => []StructuresOwned`;
* `HandlersCalledOnce`: `Spec => []AnsweredOnce`;
* `NoWakeupLost`: `Spec => []NoLostWakeup`.

None of the properties is inductive: a counter stays exact when an event is done only
because the event was pending and on the list of its iod, and an event is recycled
once only because of what the handlers on the stack belong to. `Inv` adds that a list
holds events of its iod and type, each one once (`ListsOk`), and that an event of the
heap is on its list (`HeapOk`); that the frames are of different events that are
done, all but the bottom one of requests that were answered at once (`FramesOk`), the
bottom one of the event that the loop is at (`BottomOk`); and that an event that is
done and still held is the event of a frame (`DoneOk`). The last is why
`nsock_iod_delete()`, which leaves events that are being delivered alone, takes off
as many as are pending. The parts are operators of the lists, the structures and the
frames, and each of `Request`, `Unref` and `Deliver` is dealt with once.

`NoWakeupLost` needs a second invariant, `Wake`, for callers as `OneAtATime` says. Its
core, `ReadyCovered`, follows every direction in which a socket is ready and watched:
the socket is on the ready list, or in the batch that `epoll_wait()` returned with
this direction, or is the one being processed and the list of the events that wait in
this direction is still ahead (`Covered`). The other parts say why the loop does not
pass such an event by: an iod has one pending event of a type (`OneOfAType`) and a
read lacks one datagram (`OneDatagram`), so that an event that is passed over has
found its socket not ready and one that is delivered was the last to wait; and once
the loop has come to the connect of an iod there is no other (`ConnectsOver`), which
is why the two lists after it are all there is to look at.

TracerouteProofs proves for any number of hosts and groups, any `MAX_TTL`, any
answers, guesses and limits:

* `TypeCorrect`: `Spec => []TypeOK`, with `next_sending_host` an active host;
* `ProbeAccounting`: `Spec => []ProbeListsAgree`;
* `HopsStayTree`: `Spec => []HopTreeSound`;
* `OwnTracesComplete`: `Spec => []OwnTraceComplete`;
* `AnswersAreKept`: `Spec => AnswersKept`.

The groups are disjoint (`GroupingsAssumption`): a host is a Target object, which is in
one group.
Chains, lists and sums are dealt with first and know nothing of the loop. The model
walks a chain with a recursive function; `ChainIs` shows that `MaxTTL` turns of it
give the least set of hops that has the head and the parent of each of its hops, by
the argument that each parent is nearer, and all later lemmas use that
characterisation only. What a host knows of its path is `Knows`, the set of the TTLs
of its chain and of those with an answer, and what `insert_hop()` and `link_to()`
promise is stated with it: the tree stays a tree, no hop of any host knows less than
it did (`KnowsMore`), and the host that links knows the new TTL (`InsertHop`,
`LinkTo`). The heart is `MergedTree`: `merge_hops()` gives every hop that it keeps
the next lower one as its parent, so a hop that is thrown out of the merged chain is
replaced there by one of the same TTL that knows no less, and whoever was linked to
a hop of the two chains still knows all that this hop did. `Carries` turns that into
a statement about whole chains.

The inductive invariant `Inv` says of each host that its lists are without
repetition, disjoint and of unanswered probes (`ListsOk`); that a TTL it has sent is on
a list, in its chain or beyond the target, and that all TTLs below the current one
were sent once it counts up (`Own`, for the hosts that did not hand over); that it is
finished and idle once it is no longer active; and that hosts of other groups have no
hops. Two parts were found when the first attempt failed. `StaleHop` is about
`<<t, -h>>`, the name of the hop that host h creates for a timeout: the code allocates
a new object each time, so the name stands for one object only if h never creates a
second hop for a TTL. It does not, because a hop of h that exists already has its TTL
in h's chain, where `insert_hop()` finds it; for the hosts of groups to come that holds
since they have created no hop. And a probe waits to be sent again only if it has a
resend left, without which the count of resends would pass its limit. From `Own`
follows `OwnTracesComplete`: a host that has ended counted up to its target or to
`MAX_TTL`, so each TTL was sent, and with empty lists each one has its hop. The steps
that send, cull and read are instances of `HostStep`, one host that changes itself and
the tree, with all the others unaffected (`OneHost`).

MassDnsProofs proves for any number of requests, servers, batches and errors:

* `TypeCorrect`: `Spec => []TypeOK`;
* `NothingLost`: `Spec => []NoRequestLost`;
* `TriedWithinLimit`: `Spec => []ServersBounded`.

`Inv` is `NoRequestLost` with three additions: a server that is lost has empty lists
(`EmptyIfLost`), which is what lets `StartBatch` connect it again; a request without a
result was with fewer than `SERVERS_TO_TRY` servers; and `resolve_nsock()` leaves its
loop only with no request left or, where no server could be connected, with all of
them new. A request may be on several lists and several times on one, so the lemmas
are about the sets of requests on a list: what `server_send()` takes from the two
queues is thrown away only if it has a result (`SendUpToIs`), and a list from which a
request is removed loses it and no other (`WithoutProperties`). `NextServerIs` says
that the server a timed-out request moves to is connected, or the one it is on. The
invariant is an operator of the lists, the requests and the count (`Requested`), shown
once for each handler.

Only model-checked: what is about something that must happen (`Termination`,
`FirstBatchEnds`, `TimeoutsDelivered`), since liveness under fairness is out of the
prover's reach. All safety invariants and action properties of the runs are proved.
Each inductive invariant was an invariant of a run of TLC before it was proved.

## Plan

1. (done) UltraScan with its runs and first proofs; PortList; ConnectScan;
   ServiceScan; Timing with its proofs.
2. (done) ScanPromise, the abstract specification of a scan, and the refinement;
   Traceroute, MassDns and Nsock.
3. (done) Proofs about the refinement and the counters of UltraScan, the sockets of
   ConnectScan, the requests of ServiceScan, the tables and loops of PortList, the
   events of Nsock, the hops and probes of Traceroute and the requests of MassDns.
4. Modules that would come next: the host loop of OS detection, the scheduler of
   the script engine, idle scan.

## Not modelled

Packet construction and the matching of headers; option parsing; output, XML
and JSON; OS fingerprint matching and the classifier; idle scan; the FTP
dialogue of the bounce scan; NSE's scheduler and libraries; SSL, packet capture,
proxies and the other engines of nsock; the host cache of the resolver; Ncat, Nping,
Ndiff and Zenmap; the bundled libraries. They are I/O, formatting, numeric
matching or third-party code, or are left for later modules as the plan says.
