-------------------------------- MODULE MassDns --------------------------------
(***************************************************************************)
(* The parallel resolver (libnetutil/massdns.cc): the requests of a batch  *)
(* are sent to several DNS servers, as many at a time as the capacity of   *)
(* each server allows, sent again when they time out, handed to the next   *)
(* server, and dropped when they have been with enough servers.            *)
(*                                                                         *)
(* The main loop of resolve_nsock() goes through the phases "timeouts"     *)
(* (deal_with_timedout_reads()), "writes" (do_possible_writes()) and       *)
(* "events" (nsock_loop()); handlers run in the last one and may go back   *)
(* to one of the others, which then returns to them (after).  A request    *)
(* that is on a list twice is possible and kept.                           *)
(*                                                                         *)
(* Requests in process may time out at any moment: the time of a request   *)
(* is set when its write completes, so until then it is that of an earlier *)
(* try, or zero.  Servers may answer every query that was written to them, *)
(* late and more than once.  The writes of a server complete in any order.   *)
(***************************************************************************)
EXTENDS Integers, FiniteSets, Sequences, SequencesExt

CONSTANTS
  NumRequests,     \* requests 1..NumRequests of each batch
  Alt,             \* those made for the AAAA record of an ANY request
  MaxServers,      \* bound on the servers
  NumBatches,      \* bound on the calls of nmap_mass_dns()
  TriesPerServer,  \* for each number of servers the entries before the -1 of the row
                   \*   of default_read_timeouts; also stands for MAX_DNS_TRIES
  ServersToTry,    \* SERVERS_TO_TRY
  CapacityMin, CapacityMax, CapacityUpStep,
  MaxWriteErrors,  \* bound on the writes that fail in all
  MaxReadErrors    \* bound on the servers that are lost in all

Requests == 1 .. NumRequests
NoServer == 0

ASSUME ConstantsAssumption ==
  /\ NumRequests \in Nat \ {0} /\ MaxServers \in Nat \ {0} /\ NumBatches \in Nat
  /\ TriesPerServer \in [1 .. MaxServers -> Nat \ {0}] /\ ServersToTry \in Nat \ {0}
  /\ CapacityMin \in Nat \ {0} /\ CapacityMax \in Nat /\ CapacityMin <= CapacityMax
  /\ CapacityUpStep \in Nat \ {0} /\ MaxWriteErrors \in Nat /\ MaxReadErrors \in Nat
  /\ Alt \subseteq Requests

VARIABLES
  phase,
  after,         \* where a phase that a handler entered returns to
  at,            \* the server that the loop over servs is at
  pos,           \* the entry of in_process that deal_with_timedout_reads() is at
  adjust_timing, \* its argument, and its local variables for one server
  adjusted,
  may_increase,
  num_servers,   \* servs.size()
  batch,         \* batches so far
  new_reqs,
  deferred_reqs,
  total_reqs,
  request,       \* struct request of each request
  server,        \* struct dns_server of each server
  write_errors,  \* writes that have failed, servers that were lost
  read_errors

locals == <<at, pos, adjust_timing, adjusted, may_increase>>
vars == <<num_servers, phase, after, locals, batch, new_reqs, deferred_reqs, total_reqs, request,
          server, write_errors, read_errors>>

\* The servers in the order of servs, and the tries that read_timeouts allows on each.
Servers == 1 .. num_servers
Tries == TriesPerServer[num_servers]

Request ==
  [status : {"READY", "NORESULT", "DONE"}, tries : 0 .. Tries,
   servers_tried : Nat, first_server : Servers \cup {NoServer}]

\* writes: how many writes of a request nsock has not completed; asked: the requests that have
\* left for the server, which may answer them.
Server ==
  [status : {"DISCONNECTED", "CONNECTED"}, reqs_on_wire : Int,
   capacity : CapacityMin .. CapacityMax, ssthresh : CapacityMin .. CapacityMax,
   to_process : Seq(Requests), in_process : Seq(Requests), records : SUBSET Requests,
   writes : [Requests -> Nat], asked : SUBSET Requests]

NoWrites == [r \in Requests |-> 0]
Connected(s) == server[s].status = "CONNECTED"
Ready(r) == request[r].status = "READY"
ReadyOnes == {r \in Requests : Ready(r)}

\* The requests on the list of new ones or with a connected server.
Queued == ToSet(new_reqs) \cup
  UNION {ToSet(server[s].to_process \o server[s].in_process) : s \in {t \in Servers : Connected(t)}}

\* The list l without the requests of R, in the same order.
Without(l, R) ==
  LET kept == {k \in DOMAIN l : l[k] \notin R}
      nth(n) == CHOOSE k \in kept : Cardinality({j \in kept : j <= k}) = n
  IN [n \in 1 .. Cardinality(kept) |-> l[nth(n)]]

\* Every change of a server's capacity is put back between its bounds.
check_capacities(c) ==
  IF c < CapacityMin THEN CapacityMin ELSE IF c > CapacityMax THEN CapacityMax ELSE c

\* total_reqs counts a request until its first result.
mark_as_done(r, has_answer) ==
  /\ total_reqs' = IF Ready(r) THEN total_reqs - 1 ELSE total_reqs
  /\ request' = [request EXCEPT ![r] =
                   [request[r] EXCEPT !.status = IF has_answer THEN "DONE" ELSE "NORESULT"]]

-----------------------------------------------------------------------------
(* A batch begins. *)

\* The loop over servs starts, with the local variables of its first server.
StartLoop(adjust) ==
  /\ at' = 1 /\ pos' = 1 /\ adjust_timing' = adjust
  /\ adjusted' = ~adjust /\ may_increase' = adjust

\* Init(), add_request() and connect_dns_servers(): connect() of a datagram socket
\* succeeds or fails at once.  Where every server fails, nsock_loop() has no events
\* and the loop is not entered.  What a server has learned stays from batch to
\* batch, and so does reqs_on_wire.
StartBatch(up) ==
  /\ phase = "start" /\ batch < NumBatches
  /\ batch' = batch + 1
  /\ new_reqs' = [i \in Requests |-> i] /\ deferred_reqs' = {}
  /\ total_reqs' = NumRequests
  /\ request' = [r \in Requests |-> [status |-> "READY", tries |-> 0, servers_tried |-> 0,
                                     first_server |-> NoServer]]
  /\ server' = [s \in Servers |->
                  [server[s] EXCEPT !.status = IF s \in up THEN "CONNECTED" ELSE @]]
  /\ phase' = IF up = {} THEN "return" ELSE "timeouts"
  /\ after' = "writes" /\ StartLoop(FALSE)
  /\ UNCHANGED <<num_servers, write_errors, read_errors>>

-----------------------------------------------------------------------------
(* deal_with_timedout_reads(). *)

\* The server that a request goes to after server s.
NextServer(s) ==
  LET others == {t \in Servers \ {s} : Connected(t)}
      later == {t \in others : t > s}
  IN IF later # {} THEN Min(later) ELSE IF others # {} THEN Min(others) ELSE s

\* The capacity is scaled down once in a call, by 0.7 for a second try and by 0.4 for
\* another server.
ScaledDown(S, tenths) ==
  [S EXCEPT !.ssthresh = IF S.capacity < @ THEN S.capacity ELSE @,
            !.capacity = check_capacities((@ * tenths) \div 10)]

\* The request is no longer in process.
TakenOff(s, i) ==
  [server[s] EXCEPT !.in_process = RemoveAt(@, i), !.reqs_on_wire = @ - 1]

\* Mutant: a try is not counted.
TriesSame(r) == request[r].tries
\* The tries of a request that has timed out.
TriesNow(r) == request[r].tries + 1

\* The i-th request in process on server s has timed out and is tried again there.
TryAgain(s, i) ==
  LET r == server[s].in_process[i]
      tries == TriesNow(r)
      scale == ~adjusted /\ request[r].servers_tried = 0 /\ tries <= 1
      S == IF scale THEN ScaledDown(TakenOff(s, i), 7) ELSE TakenOff(s, i)
  IN /\ tries < Tries
     /\ request' = [request EXCEPT ![r] = [request[r] EXCEPT !.tries = tries]]
     /\ server' = [server EXCEPT ![s] = [S EXCEPT !.to_process = Append(@, r)]]
     /\ adjusted' = (adjusted \/ scale)
     /\ UNCHANGED total_reqs

\* A server S that is handed request r of another one.
Handed(S, r) == [S EXCEPT !.records = @ \cup {r}, !.to_process = Append(@, r)]

\* It was tried often enough there: it moves to the next server, or is dropped when
\* that is its first one or it was with SERVERS_TO_TRY servers.
MoveOn(s, i) ==
  LET r == server[s].in_process[i]
      tried == request[r].servers_tried + 1
      next == NextServer(s)
      drop == next = request[r].first_server \/ tried = ServersToTry
      scale == ~adjusted /\ request[r].servers_tried = 0
      S == [server EXCEPT ![s] = IF scale THEN ScaledDown(TakenOff(s, i), 4)
                                 ELSE TakenOff(s, i)]
  IN /\ TriesNow(r) >= Tries
     /\ request' = [request EXCEPT ![r] =
                      [request[r] EXCEPT !.tries = 0, !.servers_tried = tried,
                                         !.status = IF drop THEN "NORESULT" ELSE @]]
     /\ total_reqs' = IF drop /\ Ready(r) THEN total_reqs - 1 ELSE total_reqs
     /\ server' = IF drop THEN S ELSE [S EXCEPT ![next] = Handed(S[next], r)]
     /\ adjusted' = (adjusted \/ scale)

\* A request whose timeout is -1 has timed out in any case.
Overdue(s, i) == request[server[s].in_process[i]].tries >= Tries

TimeOut(i) ==
  /\ phase = "timeouts"
  /\ i \in pos .. Len(server[at].in_process)
  /\ \A j \in pos .. i - 1 : ~Overdue(at, j)
  /\ TryAgain(at, i) \/ MoveOn(at, i)
  /\ pos' = i /\ may_increase' = FALSE
  /\ UNCHANGED <<num_servers, phase, after, at, adjust_timing, batch, new_reqs, deferred_reqs,
                 write_errors, read_errors>>

\* The other requests of the server have time left; its capacity may be raised.  After
\* the last server deal_with_timedout_reads() returns.
NextTimeouts(increase) ==
  /\ phase = "timeouts"
  /\ \A j \in pos .. Len(server[at].in_process) : ~Overdue(at, j)
  /\ increase => /\ may_increase /\ server[at].in_process # <<>>
                 /\ server[at].reqs_on_wire > server[at].capacity - 2 * CapacityUpStep
  /\ server' = [server EXCEPT ![at] =
                  [server[at] EXCEPT !.capacity =
                     IF increase THEN check_capacities(@ + CapacityUpStep) ELSE @]]
  /\ IF at < num_servers
     THEN /\ at' = at + 1 /\ pos' = 1
          /\ adjusted' = ~adjust_timing /\ may_increase' = adjust_timing
          /\ UNCHANGED <<phase, after, adjust_timing>>
     ELSE phase' = after /\ after' = "writes" /\ StartLoop(FALSE)
  /\ UNCHANGED <<num_servers, batch, new_reqs, deferred_reqs, total_reqs, request, write_errors, read_errors>>

-----------------------------------------------------------------------------
(* Sending. *)

Occurrences(list, r) == Cardinality({k \in DOMAIN list : list[k] = r})

\* server_send(), called until n requests were sent or one call fails: requests are
\* taken from new_reqs and then from to_process of the server, and those that need no
\* sending are thrown away on the way.  S is the state of the servers before it.
SendUpTo(S, s, n) ==
  LET queue == new_reqs \o S[s].to_process
      enough == {k \in 0 .. Len(queue) : Cardinality({j \in 1 .. k : Ready(queue[j])}) = n}
      last == IF enough = {} THEN Len(queue) ELSE Min(enough)
      sent == Without(SubSeq(queue, 1, last), Requests \ ReadyOnes)
      fromNew == Min({last, Len(new_reqs)})
      popped == {new_reqs[k] : k \in 1 .. fromNew}
  IN /\ new_reqs' = SubSeq(new_reqs, fromNew + 1, Len(new_reqs))
     /\ request' = [r \in Requests |->
                      IF r \in popped THEN [request[r] EXCEPT !.first_server = s]
                      ELSE request[r]]
     /\ server' = [S EXCEPT ![s] =
                     [S[s] EXCEPT !.to_process = SubSeq(@, last - fromNew + 1, Len(@)),
                                  !.in_process = Reverse(sent) \o @,
                                  !.reqs_on_wire = @ + Len(sent),
                                  !.records = @ \cup ToSet(sent),
                                  !.writes = [r \in Requests |-> @[r] + Occurrences(sent, r)]]]

Room(s) == server[s].capacity - server[s].reqs_on_wire

\* do_possible_writes() for one server.  After the last one it is back in the main loop
\* or in handle_read(), which close the servers when all is done.
WriteServer ==
  /\ phase = "writes"
  /\ IF Connected(at) /\ Room(at) > 0 THEN SendUpTo(server, at, Room(at))
     ELSE UNCHANGED <<new_reqs, request, server>>
  /\ at' = IF at < num_servers THEN at + 1 ELSE 1
  /\ phase' = IF at < num_servers THEN "writes" ELSE IF total_reqs = 0 THEN "return" ELSE "events"
  /\ UNCHANGED <<num_servers, after, pos, adjust_timing, adjusted, may_increase, batch, deferred_reqs,
                 total_reqs, write_errors, read_errors>>

-----------------------------------------------------------------------------
(* The handlers that nsock_loop() calls. *)

\* A write of request r to server s has completed.
OneWriteLess(s, r) == [server[s].writes EXCEPT ![r] = @ - 1]

\* handle_write() after success: one more request is sent to the server.
WriteDone(s, r) ==
  /\ phase = "events" /\ Connected(s) /\ server[s].writes[r] > 0
  /\ LET S == [server EXCEPT ![s] = [server[s] EXCEPT !.writes = OneWriteLess(s, r),
                                                      !.asked = @ \cup {r}]]
     IN IF Room(s) > 0 THEN SendUpTo(S, s, 1)
        ELSE server' = S /\ UNCHANGED <<new_reqs, request>>
  /\ UNCHANGED <<num_servers, phase, after, locals, batch, deferred_reqs, total_reqs, write_errors,
                 read_errors>>

\* handle_write() after an error: the request is sent again, sooner than the others.
WriteFails(s, r) ==
  /\ phase = "events" /\ Connected(s) /\ server[s].writes[r] > 0
  /\ write_errors < MaxWriteErrors /\ write_errors' = write_errors + 1
  /\ server' = [server EXCEPT ![s] =
                  [server[s] EXCEPT !.writes = OneWriteLess(s, r),
                                    !.in_process = Without(@, {r}),
                                    !.to_process = <<r>> \o @]]
  /\ UNCHANGED <<num_servers, phase, after, locals, batch, new_reqs, deferred_reqs, total_reqs, request,
                 read_errors>>

\* Mutant: only the requests in process go back to the queue.
ReadFailsKeepsQueue(s) ==
  /\ phase = "events" /\ Connected(s)
  /\ read_errors < MaxReadErrors /\ read_errors' = read_errors + 1
  /\ new_reqs' = new_reqs \o server[s].in_process
  /\ server' = [server EXCEPT ![s] =
                  [server[s] EXCEPT !.status = "DISCONNECTED", !.in_process = <<>>,
                                    !.writes = NoWrites, !.asked = {}]]
  /\ UNCHANGED <<num_servers, phase, after, locals, batch, deferred_reqs, total_reqs, request, write_errors>>
\* handle_read() after an error: the server is lost until the next batch.
ReadFails(s) ==
  /\ phase = "events" /\ Connected(s)
  /\ read_errors < MaxReadErrors /\ read_errors' = read_errors + 1
  /\ new_reqs' = new_reqs \o server[s].in_process \o server[s].to_process
  /\ server' = [server EXCEPT ![s] =
                  [server[s] EXCEPT !.status = "DISCONNECTED", !.in_process = <<>>,
                                    !.to_process = <<>>, !.writes = NoWrites, !.asked = {}]]
  /\ UNCHANGED <<num_servers, phase, after, locals, batch, deferred_reqs, total_reqs, request, write_errors>>

\* process_request() for ACTION_FINISHED and ACTION_SYSTEM_RESOLVE.
process_request(s, r, finished) ==
  /\ server' = [server EXCEPT ![s] =
                  [server[s] EXCEPT
                     !.capacity = IF server[s].reqs_on_wire = @ /\ @ < server[s].ssthresh
                                  THEN check_capacities(@ + CapacityUpStep) ELSE @,
                     !.records = @ \ {r}, !.in_process = Without(@, {r}),
                     !.to_process = Without(@, {r}), !.reqs_on_wire = @ - 1]]
  /\ mark_as_done(r, finished)
  /\ deferred_reqs' = IF finished \/ r \in Alt THEN deferred_reqs ELSE deferred_reqs \cup {r}

\* An answer that matches a request on record.
Answers(s, r) ==
  /\ phase = "events" /\ Connected(s)
  /\ r \in server[s].asked \cap server[s].records /\ request[r].status # "DONE"

\* handle_read(), an answer with the record or one that needs the system's resolver
\* (truncated, or an alias): more requests may be sent.
Answered(s, r, finished) ==
  /\ Answers(s, r) /\ process_request(s, r, finished)
  /\ phase' = "writes" /\ at' = 1
  /\ UNCHANGED <<num_servers, after, pos, adjust_timing, adjusted, may_increase, batch, new_reqs,
                 write_errors, read_errors>>

\* No such name, which is final or, for a name that the system's resolver may know
\* better, not; handle_read() returns without sending.
NoSuchName(s, r, finished) ==
  /\ Answers(s, r) /\ process_request(s, r, finished)
  /\ UNCHANGED <<num_servers, phase, after, locals, batch, new_reqs, write_errors, read_errors>>

\* The server has failed: the request moves on as if it had timed out.
ServFail(s, r) ==
  /\ Answers(s, r)
  /\ request' = [request EXCEPT ![r] = [request[r] EXCEPT !.tries = Tries]]
  /\ phase' = "timeouts" /\ after' = "events" /\ StartLoop(FALSE)
  /\ UNCHANGED <<num_servers, batch, new_reqs, deferred_reqs, total_reqs, server, write_errors, read_errors>>

\* An answer without a usable record.
Unusable(s, r) ==
  /\ Answers(s, r)
  /\ phase' = "writes" /\ at' = 1
  /\ UNCHANGED <<num_servers, after, pos, adjust_timing, adjusted, may_increase, batch, new_reqs,
                 deferred_reqs, total_reqs, request, server, write_errors, read_errors>>

\* nsock_loop() returns; adjust says whether MIN_DNS_TIMEOUT has passed.
EndEvents(adjust) ==
  /\ phase = "events"
  /\ phase' = IF total_reqs > 0 THEN "timeouts" ELSE "return"
  /\ after' = "writes" /\ StartLoop(adjust)
  /\ UNCHANGED <<num_servers, batch, new_reqs, deferred_reqs, total_reqs, request, server, write_errors,
                 read_errors>>

\* The end of resolve_nsock(): its assertion, close_dns_servers(), and the requests
\* left to the system's resolver.
Return ==
  /\ phase = "return"
  /\ IF new_reqs # <<>> THEN phase' = "aborted" /\ UNCHANGED <<request, server, deferred_reqs>>
     ELSE /\ phase' = "start"
          /\ server' = [s \in Servers |->
                          IF Connected(s)
                          THEN [server[s] EXCEPT !.status = "DISCONNECTED", !.to_process = <<>>,
                                  !.in_process = <<>>, !.records = {}, !.writes = NoWrites,
                                  !.asked = {}]
                          ELSE server[s]]
          /\ request' = [r \in Requests |->
                           IF r \in deferred_reqs THEN [request[r] EXCEPT !.status = "DONE"]
                           ELSE IF r \in Queued THEN [request[r] EXCEPT !.status = "NORESULT"]
                           ELSE request[r]]
          /\ deferred_reqs' = {}
  /\ UNCHANGED <<num_servers, after, locals, batch, new_reqs, total_reqs, write_errors, read_errors>>

Init ==
  /\ phase = "start" /\ after = "writes" /\ at = 1 /\ pos = 1
  /\ adjust_timing = FALSE /\ adjusted = TRUE /\ may_increase = FALSE
  /\ num_servers \in 1 .. MaxServers
  /\ batch = 0 /\ new_reqs = <<>> /\ deferred_reqs = {} /\ total_reqs = 0
  /\ request = [r \in Requests |-> [status |-> "DONE", tries |-> 0, servers_tried |-> 0,
                                    first_server |-> NoServer]]
  /\ server = [s \in Servers |->
                 [status |-> "DISCONNECTED", reqs_on_wire |-> 0, capacity |-> CapacityMin,
                  ssthresh |-> (CapacityMax + CapacityMin) \div 2, to_process |-> <<>>,
                  in_process |-> <<>>, records |-> {}, writes |-> NoWrites, asked |-> {}]]
  /\ write_errors = 0 /\ read_errors = 0

AllDone == phase = "start" /\ batch = NumBatches
Finished == (AllDone \/ phase = "aborted") /\ UNCHANGED vars

EndLoop == \E adjust \in BOOLEAN : EndEvents(adjust)
SomeTimeOut == \E i \in 1 .. NumRequests + MaxWriteErrors : TimeOut(i)
LoopStep ==
  \/ \E up \in SUBSET Servers : StartBatch(up)
  \/ \E increase \in BOOLEAN : NextTimeouts(increase)
  \/ WriteServer \/ EndLoop \/ Return
Handler ==
  \E s \in Servers :
    \/ ReadFails(s)
    \/ \E r \in Requests, finished \in BOOLEAN :
         Answered(s, r, finished) \/ NoSuchName(s, r, finished)
    \/ \E r \in Requests : WriteDone(s, r) \/ WriteFails(s, r) \/ ServFail(s, r) \/ Unusable(s, r)

Next == SomeTimeOut \/ LoopStep \/ Handler \/ Finished

\* The main loop goes on, nsock_loop() returns at its timeout, and requests in process
\* get old.  Nothing is assumed of the servers.
Fairness == WF_vars(LoopStep) /\ SF_vars(EndLoop) /\ SF_vars(SomeTimeOut)

Spec == Init /\ [][Next]_vars /\ Fairness

-----------------------------------------------------------------------------
(* Properties. *)

\* The capacity of a server stays within its bounds, the tries of a request index
\* read_timeouts, and no request is counted off twice.
TypeOK ==
  /\ phase \in {"start", "timeouts", "writes", "events", "return", "aborted"}
  /\ after \in {"writes", "events"}
  /\ at \in Servers /\ pos \in Nat \ {0}
  /\ {adjust_timing, adjusted, may_increase} \subseteq BOOLEAN
  /\ num_servers \in 1 .. MaxServers /\ batch \in 0 .. NumBatches
  /\ new_reqs \in Seq(Requests) /\ deferred_reqs \subseteq Requests
  /\ total_reqs \in Nat
  /\ request \in [Requests -> Request] /\ server \in [Servers -> Server]
  /\ write_errors \in 0 .. MaxWriteErrors /\ read_errors \in 0 .. MaxReadErrors

\* resolve_nsock() loops until total_reqs is zero, so the count must be that of the
\* requests without a result, and each of them must be where a later pass finds it:
\* on the list of new requests, or in the queue or in process at a server that is
\* still connected.  Requests are moved between these lists by timeouts, failed
\* writes, lost servers and answers, and may be on several of them.
NoRequestLost == total_reqs = Cardinality(ReadyOnes) /\ ReadyOnes \subseteq Queued

\* A request that has no result has been with fewer than SERVERS_TO_TRY servers, so
\* that the test of deal_with_timedout_reads() for exactly that number drops it in
\* time.  One that was dropped while it was still in process elsewhere, after a write
\* that failed, is counted beyond it.
ServersBounded == \A r \in ReadyOnes : request[r].servers_tried < ServersToTry

AllLost == phase # "start" /\ \A s \in Servers : ~Connected(s)

\* A failed write takes its request out of process and leaves it in reqs_on_wire.  As
\* many of them as the capacity leave no room on the server, and nothing in process
\* whose timeout would make some: what waits for the server waits for ever.
Clogged(s) ==
  /\ Connected(s) /\ server[s].in_process = <<>> /\ Room(s) <= 0
  /\ write_errors >= server[s].capacity

\* Requests are dropped after their tries on SERVERS_TO_TRY servers, so the first batch
\* ends, whatever the servers answer, except in two cases.  When every server is lost the
\* main loop, which does not look at what nsock_loop() returns, goes round for ever.  And
\* a server may be left without room by failed writes (handle_write() does not take them
\* off reqs_on_wire); it takes as many of them as its capacity.  Nothing is said of later
\* batches: reqs_on_wire of a lost server is not reset between them.
FirstBatchEnds ==
  \/ <>((phase = "start" /\ batch = 1) \/ phase = "aborted" \/ AllLost)
  \/ <>[](\E s \in Servers : Clogged(s))
================================================================================
