------------------------------ MODULE Traceroute ------------------------------
(***************************************************************************)
(* Traceroute (traceroute.cc): the hosts of a group are traced at the same *)
(* time, each from its guessed distance down to TTL 1 and then up to the   *)
(* target, with at most MaxOutstanding probes in flight.  Hops are kept in *)
(* one tree for all hosts of all groups: an answer from an address that    *)
(* was seen at the same TTL before links the host into the chain of hops   *)
(* that is known, and the host leaves the rest of the trace to the host    *)
(* whose tag the chain carries.                                            *)
(*                                                                         *)
(* A host sends each TTL at most once (sent_ttls), so a probe is the host  *)
(* and the TTL.  A Hop is <<ttl, n>>: n is its address if it was created   *)
(* by an answer, which makes <<ttl, n>> its key in hop_cache, and -h if    *)
(* host h created it for a probe that timed out, which puts it into        *)
(* timedout_hops for good, whatever address it is given later.             *)
(*                                                                         *)
(* Which probes are old enough to time out is any choice that respects the *)
(* order in which a host sent them; the scan delay may end a round of      *)
(* sending anywhere.                                                       *)
(***************************************************************************)
EXTENDS Integers, FiniteSets, Sequences

CONSTANTS
  NumHosts,        \* targets 1..NumHosts, numbered by their addresses
  Groupings,       \* possible sequences of host groups (sets of targets)
  Ignored,         \* targets on a loopback device or timed out
  Direct,          \* directly connected targets
  Guesses,         \* Guesses[h]: values target->distance may have, -1 unknown
  Answers,         \* Answers[h][t]: addresses that may answer the probe
  Distances,       \* values of get_initial_ttl_guess(ttl) - ttl + 1
  InitialTTL,      \* initial_ttl before the first group
  MaxTTL,          \* MAX_TTL
  MaxOutstanding,  \* MAX_OUTSTANDING_PROBES
  MaxResends,      \* MIN(o.getMaxRetransmissions(), MAX_RESENDS)
  MaxCache         \* MAX_HOP_CACHE_SIZE

Hosts == 1 .. NumHosts
TTLs == 1 .. MaxTTL
Addresses == UNION {Answers[h][t] : h \in Hosts, t \in TTLs}
NoHost == 0     \* active_hosts.end()
NoAddress == 0  \* ss_family == 0
NoHop == <<0, 0>>
HopIds == TTLs \X (Addresses \cup {-h : h \in Hosts})

ASSUME ConstantsAssumption ==
  /\ NumHosts \in Nat \ {0} /\ MaxTTL \in Nat \ {0} /\ MaxOutstanding \in Nat \ {0}
  /\ InitialTTL \in Nat /\ MaxResends \in Nat /\ MaxCache \in Nat
  /\ Ignored \subseteq Hosts /\ Direct \subseteq Hosts
  /\ Answers \in [Hosts -> [TTLs -> SUBSET (Nat \ {0})]]
  /\ Distances \subseteq Int /\ Guesses \in [Hosts -> SUBSET (Nat \cup {-1})]

\* A target is in one group.
ASSUME GroupingsAssumption ==
  \A g \in Groupings : /\ g \in Seq(SUBSET Hosts)
                       /\ \A i, j \in DOMAIN g : i # j => g[i] \cap g[j] = {}

VARIABLES
  phase,              \* where traceroute_remote() is
  groups,             \* the groups to come
  host,               \* HostState of each target
  hop,                \* the hops of hop_cache and timedout_hops
  active_hosts,       \* in the order of the targets
  next_sending_host,
  failed_host,        \* local variable of send_new_probes()
  num_active_probes,
  culled,             \* the host that cull_timeouts() is at
  initial_ttl,
  trace,              \* Target::traceroute_hops
  handed_over         \* hosts that left their trace to another one (history)

vars == <<phase, groups, host, hop, active_hosts, next_sending_host, failed_host,
          num_active_probes, culled, initial_ttl, trace, handed_over>>

HostState ==
  [sent_ttls : SUBSET TTLs, current_ttl : 1 .. MaxTTL + 1,
   state : {"COUNTING_DOWN", "COUNTING_UP"}, reached_target : 0 .. MaxTTL,
   unanswered : SUBSET TTLs, active : Seq(TTLs), pending : Seq(TTLs),
   resends : [TTLs -> 0 .. MaxResends], hops : HopIds \cup {NoHop}]

Hop == [addr : Addresses \cup {NoAddress}, parent : HopIds \cup {NoHop}, tag : Hosts]

TracerouteHop == [ttl : TTLs, addr : Addresses \cup Hosts \cup {NoAddress}, tag : Hosts]

SeqRange(s) == {s[i] : i \in DOMAIN s}
Least(S) == CHOOSE x \in S : \A y \in S : x <= y
Greatest(S) == CHOOSE x \in S : \A y \in S : y <= x

-----------------------------------------------------------------------------
(* The tree of hops. *)

\* The hops of tree from hop i to the end of its chain.
Chain(tree, i) ==
  LET upto[n \in 0 .. MaxTTL] ==
        IF n = 0 THEN {i} \ {NoHop}
        ELSE (UNION {{j, tree[j].parent} : j \in upto[n - 1]}) \ {NoHop}
  IN upto[MaxTTL]

\* The first and the last hop of a set of hops of one chain.
First(S) == IF S = {} THEN NoHop ELSE CHOOSE i \in S : \A j \in S : j[1] <= i[1]
Last(S) == IF S = {} THEN NoHop ELSE CHOOSE i \in S : \A j \in S : i[1] <= j[1]

\* Mutant: a hop with the same TTL is taken for the child.
ChildAtOrAbove(tree, head, ttl) == Last({i \in Chain(tree, head) : i[1] >= ttl})
\* child_parent_ttl(): the last hop above ttl, and the hop after it.
child_ttl(tree, head, ttl) == Last({i \in Chain(tree, head) : i[1] > ttl})
parent_ttl(tree, head, ttl) == First({i \in Chain(tree, head) : i[1] <= ttl})

hop_cache_lookup(ttl, addr) == IF <<ttl, addr>> \in DOMAIN hop THEN <<ttl, addr>> ELSE NoHop

hop_cache_size == Cardinality(DOMAIN hop)

\* The tree and the head of a host's chain, with the child of a chain (or its
\* head, where there is no child) set to hop i.
Linked(tree, head, child, i) ==
  IF child = NoHop THEN [tree |-> tree, head |-> i]
  ELSE [tree |-> [tree EXCEPT ![child].parent = i], head |-> head]

\* HostState::insert_hop() of host h.
insert_hop(h, head, ttl, addr) ==
  LET p == parent_ttl(hop, head, ttl)
      child == child_ttl(hop, head, ttl)
      id == <<ttl, IF addr = NoAddress THEN -h ELSE addr>>
      new == [addr |-> addr, parent |-> p,
              tag |-> IF child = NoHop THEN h ELSE hop[child].tag]
      tree == [i \in DOMAIN hop \cup {id} |-> IF i = id THEN new ELSE hop[i]]
  IN IF p # NoHop /\ p[1] = ttl
     THEN [tree |-> IF hop[p].addr = NoAddress THEN [hop EXCEPT ![p].addr = addr] ELSE hop,
           head |-> head]
     ELSE Linked(tree, head, child, id)

\* Mutant: of two hops with one TTL that of A wins, even if it has timed out.
KeepFirst(A, B) ==
  A \cup {i \in B : \A j \in A : j[1] # i[1]}
\* The hops of the merged chain of A and B: one hop for each TTL, of two the one
\* that did not time out, or else that of A.
Kept(A, B) ==
  {i \in A : \A j \in B : j[1] = i[1] => hop[j].addr = NoAddress \/ hop[i].addr # NoAddress}
    \cup {i \in B : \A j \in A : j[1] = i[1] /\ j # i =>
                      hop[i].addr # NoAddress /\ hop[j].addr = NoAddress}

merge_hops(tag, a, b) ==
  LET M == Kept(Chain(hop, a), Chain(hop, b))
  IN [tree |-> [i \in DOMAIN hop |->
                  IF i \in M
                  THEN [hop[i] EXCEPT !.parent = First({j \in M : j[1] < i[1]}), !.tag = tag]
                  ELSE hop[i]],
      head |-> First(M)]

\* HostState::link_to() with the known hop i.
link_to(head, i) ==
  LET p == parent_ttl(hop, head, i[1])
      m == merge_hops(hop[i].tag, i, p)
  IN IF i = p THEN [tree |-> hop, head |-> head]
     ELSE Linked(m.tree, head, child_ttl(hop, head, i[1]), m.head)

-----------------------------------------------------------------------------
(* One host. *)

Box(t) == IF t < 1 THEN 1 ELSE IF t > MaxTTL THEN MaxTTL ELSE t

NewHostState(guess) ==
  [sent_ttls |-> {}, current_ttl |-> Box(IF guess # -1 THEN guess ELSE initial_ttl),
   state |-> "COUNTING_DOWN", reached_target |-> 0, unanswered |-> {}, active |-> <<>>,
   pending |-> <<>>, resends |-> [t \in TTLs |-> 0], hops |-> NoHop]

has_more_probes(H) ==
  ~ /\ H.state = "COUNTING_UP"
    /\ \/ H.reached_target > 0 /\ H.current_ttl >= H.reached_target
       \/ H.current_ttl > MaxTTL

is_finished(H) == ~has_more_probes(H) /\ H.active = <<>> /\ H.pending = <<>>

\* Mutant: the host counts up from where it is.
NextTtlUpOnly(H) ==
  [H EXCEPT !.state = "COUNTING_UP",
            !.current_ttl = Least({t \in @ .. MaxTTL + 1 : t \notin H.sent_ttls})]
next_ttl(H) ==
  LET down == IF H.state = "COUNTING_DOWN"
              THEN Greatest({t \in 1 .. H.current_ttl : t \notin H.sent_ttls} \cup {1})
              ELSE H.current_ttl
      state == IF down = 1 THEN "COUNTING_UP" ELSE H.state
      up == IF state = "COUNTING_UP"
            THEN Least({t \in down .. MaxTTL + 1 : t \notin H.sent_ttls})
            ELSE down
  IN [H EXCEPT !.state = state, !.current_ttl = up]

\* The list l without the probes of S, in the same order.
Without(l, S) ==
  LET kept == {k \in DOMAIN l : l[k] \notin S}
      nth(n) == CHOOSE k \in kept : Cardinality({j \in kept : j <= k}) = n
  IN [n \in 1 .. Cardinality(kept) |-> l[nth(n)]]

\* Mutant: a probe stays in the list of those to be sent again.
CancelKeepsPending(H, S) ==
  [H EXCEPT !.unanswered = @ \ S, !.active = Without(@, S),
            !.resends = [t \in TTLs |-> IF t \in S THEN 0 ELSE @[t]]]
\* cancel_probe() for the probes S.
Cancel(H, S) ==
  [H EXCEPT !.unanswered = @ \ S, !.active = Without(@, S), !.pending = Without(@, S),
            !.resends = [t \in TTLs |-> IF t \in S THEN 0 ELSE @[t]]]
\* What the calls of cancel_probe() return together.
CancelledActive(H, S) == Cardinality(S \cap SeqRange(H.active))
Below(H, t) == {u \in H.unanswered : u < t}
Above(H, t) == {u \in H.unanswered : u > t}

-----------------------------------------------------------------------------
(* The group. *)

\* next_active_host() from host h, skipping the hosts outside S.
next_active_host(h, S) ==
  LET after == {g \in S : g > h}
  IN IF after # {} THEN Least(after) ELSE IF S # {} THEN Least(S) ELSE NoHost

\* traceroute() and the constructor of TracerouteState: the next group.  Targets
\* that are directly connected get their only hop at once.
StartGroup ==
  /\ phase = "start" /\ groups # <<>>
  /\ LET targets == Head(groups) \ Ignored
         remote == targets \ Direct
     IN /\ trace' = [h \in Hosts |->
                       IF h \in targets \cap Direct THEN {[ttl |-> 1, addr |-> h, tag |-> h]}
                       ELSE trace[h]]
        /\ active_hosts' = remote
        /\ next_sending_host' = IF remote = {} THEN NoHost ELSE Least(remote)
        /\ phase' = IF remote = {} THEN "start" ELSE "send"
        /\ groups' = IF remote = {} THEN Tail(groups) ELSE groups
        /\ \E guess \in [remote -> UNION {Guesses[h] : h \in Hosts}] :
             /\ \A h \in remote : guess[h] \in Guesses[h]
             /\ host' = [h \in Hosts |->
                           IF h \in remote THEN NewHostState(guess[h]) ELSE host[h]]
  /\ num_active_probes' = 0
  /\ UNCHANGED <<hop, failed_host, culled, initial_ttl, handed_over>>

\* Mutant: a probe that is sent again is not counted.
ResentUncounted(H) ==
  [H EXCEPT !.pending = Tail(@), !.active = Append(@, Head(H.pending))]
\* HostState::send_next_probe(): the front of pending_resends, or the next TTL.
Resent(H) ==
  [H EXCEPT !.pending = Tail(@), !.active = Append(@, Head(H.pending)),
            !.resends = [t \in TTLs |-> IF t = Head(H.pending) THEN @[t] + 1 ELSE @[t]]]
Sent(H) ==
  [H EXCEPT !.unanswered = @ \cup {H.current_ttl}, !.active = Append(@, H.current_ttl),
            !.sent_ttls = @ \cup {H.current_ttl}]

\* One iteration of send_new_probes().
SendProbe ==
  LET h == next_sending_host
      H == next_ttl(host[h])
      sent == host[h].pending # <<>> \/ has_more_probes(H)
  IN /\ phase = "send"
     /\ h # failed_host /\ num_active_probes < MaxOutstanding
     /\ host' = [host EXCEPT ![h] = IF host[h].pending # <<>> THEN Resent(host[h])
                                    ELSE IF has_more_probes(H) THEN Sent(H) ELSE H]
     /\ num_active_probes' = num_active_probes + (IF sent THEN 1 ELSE 0)
     /\ failed_host' = IF sent THEN NoHost ELSE IF failed_host = NoHost THEN h ELSE failed_host
     /\ next_sending_host' = next_active_host(h, active_hosts)
     /\ UNCHANGED <<phase, groups, hop, active_hosts, culled, initial_ttl, trace, handed_over>>

\* Nothing to send, no room for it, or the scan delay has not passed.
EndSend ==
  /\ phase = "send"
  /\ phase' = "read" /\ failed_host' = NoHost
  /\ UNCHANGED <<groups, host, hop, active_hosts, next_sending_host, num_active_probes,
                 culled, initial_ttl, trace, handed_over>>

\* read_replies(): the target itself has answered the probe with this TTL; distance
\* is what the TTL of the answer says.
Reached(H, ttl, distance) ==
  [Cancel(H, Above(H, ttl)) EXCEPT
     !.reached_target = IF @ = 0 \/ ttl < @ THEN ttl ELSE @,
     !.current_ttl = IF /\ H.state = "COUNTING_DOWN"
                        /\ distance > 0 /\ distance < @
                     THEN Box(distance) ELSE @]

\* One iteration of read_replies(): address addr answers the probe of host h.
ReadReply(h, ttl, addr, distance) ==
  LET reached == addr = h
      H == IF reached THEN Reached(host[h], ttl, distance) ELSE host[h]
      known == hop_cache_lookup(ttl, addr)
      link == IF known = NoHop THEN insert_hop(h, H.hops, ttl, addr)
              ELSE link_to(H.hops, known)
      down == known # NoHop /\ H.state = "COUNTING_DOWN"
      chain == Chain(link.tree, known)
      up == down /\ link.tree[Last(chain)].tag # h
      merged == IF down THEN {i[1] : i \in chain \ {known}} ELSE {}
      below == IF up THEN Below(H, ttl) ELSE {}
      L == [Cancel(H, below) EXCEPT
              !.hops = link.head, !.sent_ttls = @ \cup merged,
              !.state = IF up THEN "COUNTING_UP" ELSE @]
  IN /\ phase = "read" /\ h \in active_hosts
     /\ ttl \in host[h].unanswered /\ addr \in Answers[h][ttl]
     /\ host' = [host EXCEPT ![h] = Cancel(L, {ttl})]
     /\ hop' = link.tree
     /\ num_active_probes' =
          num_active_probes
            - (IF reached THEN CancelledActive(host[h], Above(host[h], ttl)) ELSE 0)
            - CancelledActive(H, below) - CancelledActive(L, {ttl})
     /\ handed_over' = IF up THEN handed_over \cup {h} ELSE handed_over
     /\ UNCHANGED <<phase, groups, active_hosts, next_sending_host, failed_host, culled,
                    initial_ttl, trace>>

EndRead ==
  /\ phase = "read"
  /\ phase' = "cull" /\ culled' = NoHost
  /\ UNCHANGED <<groups, host, hop, active_hosts, next_sending_host, failed_host,
                 num_active_probes, initial_ttl, trace, handed_over>>

Culled(H) ==
  [H EXCEPT !.active = Tail(@),
            !.pending = IF H.resends[Head(H.active)] < MaxResends
                        THEN <<Head(H.active)>> \o @ ELSE @]

\* cull_timeouts(): the oldest active probe of host h has timed out; hosts are gone
\* through in their order.
CullProbe(h) ==
  LET ttl == Head(host[h].active)
      link == insert_hop(h, host[h].hops, ttl, NoAddress)
  IN /\ phase = "cull" /\ h \in active_hosts /\ culled <= h
     /\ host[h].active # <<>>
     /\ host' = [host EXCEPT ![h] = [Culled(host[h]) EXCEPT !.hops = link.head]]
     /\ hop' = link.tree
     /\ num_active_probes' = num_active_probes - 1
     /\ culled' = h
     /\ UNCHANGED <<phase, groups, active_hosts, next_sending_host, failed_host,
                    initial_ttl, trace, handed_over>>

\* remove_finished_hosts(): next_sending_host moves on from each host that is erased.
SendingHostAmong(S) ==
  IF next_sending_host \in S THEN next_sending_host ELSE next_active_host(next_sending_host, S)

\* No more probe has timed out; remove_finished_hosts() ends the round.
remove_finished_hosts ==
  LET left == {h \in active_hosts : ~is_finished(host[h])}
  IN /\ phase = "cull"
     /\ active_hosts' = left
     /\ next_sending_host' = SendingHostAmong(left)
     /\ phase' = IF left = {} THEN "transfer" ELSE "send"
     /\ culled' = NoHost
     /\ UNCHANGED <<groups, host, hop, failed_host, num_active_probes, initial_ttl, trace,
                    handed_over>>

\* transfer_hops(): the trace of a host, without the hops beyond the target.
Transferred(H) ==
  {[ttl |-> i[1], addr |-> hop[i].addr, tag |-> hop[i].tag] :
     i \in {j \in Chain(hop, H.hops) : H.reached_target = 0 \/ j[1] <= H.reached_target}}

\* The end of traceroute_remote(): the hops go to the targets, initial_ttl is the
\* length of the longest trace, and a cache that has grown too large is cleared.
EndGroup ==
  LET remote == (Head(groups) \ Ignored) \ Direct
      traces == [h \in Hosts |-> IF h \in remote THEN Transferred(host[h]) ELSE trace[h]]
  IN /\ phase = "transfer"
     /\ trace' = traces
     /\ initial_ttl' = Greatest({Cardinality(traces[h]) : h \in remote})
     /\ hop' = IF hop_cache_size > MaxCache THEN [i \in {} |-> hop[i]] ELSE hop
     /\ host' = [h \in Hosts |-> [host[h] EXCEPT !.hops = NoHop, !.unanswered = {},
                                                 !.resends = [t \in TTLs |-> 0]]]
     /\ groups' = Tail(groups) /\ phase' = "start"
     /\ UNCHANGED <<active_hosts, next_sending_host, failed_host, num_active_probes, culled,
                    handed_over>>

Init ==
  /\ phase = "start" /\ groups \in Groupings
  /\ initial_ttl = InitialTTL
  /\ host = [h \in Hosts |-> NewHostState(-1)]
  /\ hop = [i \in {} |-> NoHop]
  /\ active_hosts = {} /\ next_sending_host = NoHost /\ failed_host = NoHost
  /\ num_active_probes = 0 /\ culled = NoHost
  /\ trace = [h \in Hosts |-> {}] /\ handed_over = {}

AllDone == phase = "start" /\ groups = <<>>
Finished == AllDone /\ UNCHANGED vars

\* The loop of traceroute_remote() goes on to its next phase.
NextPhase == StartGroup \/ EndSend \/ EndRead \/ remove_finished_hosts \/ EndGroup

CullSome == \E h \in Hosts : CullProbe(h)

Next ==
  \/ NextPhase \/ SendProbe \/ CullSome
  \/ \E h \in Hosts, ttl \in TTLs, addr \in Addresses, d \in Distances :
       ReadReply(h, ttl, addr, d)
  \/ Finished

\* The phases end by themselves; the scan delay passes, and active probes get old.
Fairness == WF_vars(NextPhase) /\ SF_vars(SendProbe) /\ SF_vars(CullSome)

Spec == Init /\ [][Next]_vars /\ Fairness

-----------------------------------------------------------------------------
(* Properties. *)

\* Every variable has the type of the field it stands for, and next_sending_host
\* is a host that is still traced whenever send_new_probes() may follow it, whatever
\* remove_finished_hosts() has erased.
TypeOK ==
  /\ phase \in {"start", "send", "read", "cull", "transfer"}
  /\ groups \in Seq(SUBSET Hosts)
  /\ host \in [Hosts -> HostState]
  /\ DOMAIN hop \subseteq HopIds /\ hop \in [DOMAIN hop -> Hop]
  /\ active_hosts \subseteq Hosts
  /\ {next_sending_host, failed_host, culled} \subseteq Hosts \cup {NoHost}
  /\ active_hosts # {} => next_sending_host \in active_hosts
  /\ num_active_probes \in Nat /\ initial_ttl \in Nat
  /\ trace \in [Hosts -> SUBSET TracerouteHop]
  /\ handed_over \subseteq Hosts

ActiveProbes ==
  LET upto[h \in 0 .. NumHosts] ==
        IF h = 0 THEN 0 ELSE upto[h - 1] + Len(host[h].active)
  IN upto[NumHosts]

\* num_active_probes is the number of active probes of all hosts, whichever answers
\* and timeouts took probes away, so that no slot of MAX_OUTSTANDING_PROBES is lost;
\* and a probe is active, waits to be sent again, or neither, and unanswered in
\* either case, which ~HostState() relies on to delete each probe once.
ProbeListsAgree ==
  /\ num_active_probes = ActiveProbes
  /\ num_active_probes <= MaxOutstanding
  /\ \A h \in Hosts :
       LET lists == host[h].active \o host[h].pending
       IN /\ SeqRange(lists) \subseteq host[h].unanswered
          /\ Cardinality(SeqRange(lists)) = Len(lists)

\* Merging chains of several hosts leaves a tree: parents are nearer than their
\* children, so that no walk along a chain goes in a circle; no chain leads to a hop
\* that was deleted; and the cache finds hops under their own address.
HopTreeSound ==
  /\ \A i \in DOMAIN hop :
       /\ i[2] > 0 => hop[i].addr = i[2]
       /\ hop[i].parent # NoHop => hop[i].parent \in DOMAIN hop /\ hop[i].parent[1] < i[1]
  /\ \A h \in Hosts : host[h].hops \in DOMAIN hop \cup {NoHop}

HopTTLs(h) == {i[1] : i \in Chain(hop, host[h].hops)}
Complete(h) ==
  \A t \in 1 .. (IF host[h].reached_target > 0 THEN host[h].reached_target ELSE MaxTTL) :
    t \in HopTTLs(h)
Traced == IF phase = "transfer" THEN Head(groups) \ (Ignored \cup Direct) ELSE {}

\* A host that never left its trace to another one ends with a hop for every TTL up
\* to its target, answered or timed out, in whichever order the answers moved
\* current_ttl and reached_target (next_ttl(), cancel_probes_above()).
OwnTraceComplete == \A h \in Traced \ handed_over : Complete(h)

AnsweredTTLs(h) ==
  {i[1] : i \in {j \in Chain(hop, host[h].hops) : hop[j].addr # NoAddress}}

\* What a host knows of its path is never lost: merging the chains of other hosts
\* (merge_hops()) may replace its hops but takes no TTL out of its chain and puts no
\* timed-out hop in the place of an answer.
AnswersKept ==
  [][phase # "transfer" =>
       \A h \in Hosts : /\ HopTTLs(h) \subseteq HopTTLs(h)'
                        /\ AnsweredTTLs(h) \subseteq AnsweredTTLs(h)']_vars

\* Every group is traced to its end, whichever probes are lost.
Termination == <>AllDone

\* docs/refguide.xml:1025: "Nmap's traceroute starts with a high TTL and then
\* decrements the TTL until it reaches zero", and traceroute.cc:1042: "If we have
\* the tag for the last node, we take responsibility for finishing the trace": some
\* host finishes each trace, so that no host ends with TTLs that nobody has probed.
EveryTraceComplete == \A h \in Traced : Complete(h)
===============================================================================
