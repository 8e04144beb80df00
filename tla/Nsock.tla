--------------------------------- MODULE Nsock ---------------------------------
(***************************************************************************)
(* The event library (nsock/src), with its epoll engine.  A caller asks    *)
(* for a connect, a read, a write or a timer, each with a handler; nsock   *)
(* waits for the kernel or for the timeout of the request, calls the       *)
(* handler once and recycles the structure of the event.  Handlers make    *)
(* new requests, cancel others and delete iods while nsock is in the       *)
(* middle of its lists.                                                    *)
(*                                                                         *)
(* The event lists of the pool are grouped by iod: here there is one list  *)
(* for each iod and type.  Time is abstracted: an event with a timeout     *)
(* becomes due at some moment.  Handlers that are called for a cancelled   *)
(* event make no calls themselves, as those of nse_nsock.cc and Ncat.      *)
(* SSL and packet capture are left out.  The kernel's side of a socket is  *)
(* its unread datagrams, whether it can be written to, and whether it is   *)
(* on the ready list of epoll, which is edge-triggered.                    *)
(***************************************************************************)
EXTENDS Integers, FiniteSets, Sequences, SequencesExt

CONSTANTS
  Iods,            \* the iods, connected or not
  Needs,           \* how many datagrams a read may ask for
  PerIod,          \* how many reads, or writes, callers have on an iod at a time
  MaxRequests,     \* bound on the requests of the callers, to quit included
  MaxData          \* bound on the datagrams that arrive at an iod

Events == 1 .. MaxRequests
Types == {"CONNECT", "READ", "WRITE", "TIMER"}
NoIod == "none"
NoEvent == 0

ASSUME ConstantsAssumption ==
  /\ NoIod \notin Iods /\ Needs \subseteq Nat \ {0} /\ PerIod \in Nat
  /\ MaxRequests \in Nat \ {0} /\ MaxData \in Nat

VARIABLES
  phase,           \* "user" outside of nsock_loop(); "first" (its first wait), "wait",
                   \*   "iods" and "expired" in it
  batch,           \* what epoll_wait() returned and was not processed yet: iod -> mask
  current,         \* the iod being processed, its mask, and the list and the event
  mask,            \*   that process_iod_events() is at
  list,
  cursor,
  frames,          \* the handlers that are running, the last one called first
  event,           \* struct nevent of each event
  lists,           \* the events of an iod and a type, in the order of the pool's lists
  expirables,      \* the heap of the events that have a timeout
  free_events,
  created,         \* structures that were allocated
  events_pending,  \* counter of the pool
  iod,             \* struct niod of each iod
  quit,
  requests,        \* requests so far
  data,            \* the kernel: unread datagrams of a socket,
  arrived,         \*   all that ever arrived,
  closed,          \*   sockets that the peer has closed,
  writable,        \*   sockets that can be written to, and
  armed            \*   sockets on the ready list of epoll

loop == <<phase, batch, current, mask, list, cursor>>
pool == <<event, lists, expirables, free_events, created, events_pending, iod>>
kernel == <<data, arrived, closed, writable>>
vars == <<loop, frames, pool, quit, requests, kernel, armed>>

\* need: the datagrams that a read still lacks; calls: how often the handler was called.
Event ==
  [type : Types, iod : Iods \cup {NoIod}, done : BOOLEAN, need : Nat, timeout : BOOLEAN,
   due : BOOLEAN, calls : Nat]

\* What event_new() starts from: the structures that are free are cleared.
Blank == [type |-> "TIMER", iod |-> NoIod, done |-> TRUE, need |-> 0, timeout |-> FALSE,
          due |-> FALSE, calls |-> 0]

\* What an event of a type is counted for in the socket counts of its iod.
Wants(type) == CASE type = "CONNECT" -> {"r", "w"} [] type = "READ" -> {"r"}
                 [] type = "WRITE" -> {"w"} [] OTHER -> {}

Iod ==
  [state : {"INITIAL", "CONNECTED", "DELETED"}, active : BOOLEAN, registered : BOOLEAN,
   watched : SUBSET {"r", "w"}, readsd_count : Nat, writesd_count : Nat, events_pending : Nat, eof : BOOLEAN]

Open(i) == iod[i].state = "CONNECTED"

\* The events that are on a list or in the heap.
Listed == UNION {ToSet(lists[i][t]) : i \in Iods, t \in Types}
Held == Listed \cup expirables
Pending == {e \in Held : ~event[e].done}
PendingOn(i, type) == {e \in Pending : event[e].iod = i /\ event[e].type = type}

-----------------------------------------------------------------------------
(* The kernel. *)

\* What epoll finds ready on a socket.
ReadyFor(i) == (IF data[i] > 0 \/ i \in closed THEN {"r"} ELSE {}) \cup
               (IF i \in writable THEN {"w"} ELSE {})

Arrive(i) ==
  /\ arrived[i] < MaxData /\ i \notin closed /\ Open(i)
  /\ data' = [data EXCEPT ![i] = @ + 1] /\ arrived' = [arrived EXCEPT ![i] = @ + 1]
  /\ armed' = IF "r" \in iod[i].watched THEN armed \cup {i} ELSE armed
  /\ UNCHANGED <<loop, frames, pool, quit, requests, closed, writable>>

\* The peer closes, which epoll reports whatever is watched.
PeerCloses(i) ==
  /\ i \notin closed /\ Open(i)
  /\ closed' = closed \cup {i}
  /\ armed' = IF iod[i].registered THEN armed \cup {i} ELSE armed
  /\ UNCHANGED <<loop, frames, pool, quit, requests, data, arrived, writable>>

Drains(i) ==
  /\ i \notin writable /\ Open(i)
  /\ writable' = writable \cup {i}
  /\ armed' = IF "w" \in iod[i].watched THEN armed \cup {i} ELSE armed
  /\ UNCHANGED <<loop, frames, pool, quit, requests, data, arrived, closed>>

\* epoll_iod_register() and epoll_iod_modify(): a change of what is watched puts a
\* socket that is ready on the list again.  I is the iod after the change.
Rearmed(i, I) ==
  IF I.watched # iod[i].watched /\ ReadyFor(i) \cap I.watched # {} THEN armed \cup {i} ELSE armed

-----------------------------------------------------------------------------
(* Socket counts and the events that epoll watches for. *)

\* socket_count_*_inc() and update_events(): the first event registers the iod.
Counted(I, wants) ==
  [I EXCEPT !.readsd_count = IF "r" \in wants THEN @ + 1 ELSE @,
            !.writesd_count = IF "w" \in wants THEN @ + 1 ELSE @,
            !.registered = TRUE, !.watched = @ \cup wants]

\* Mutant: an event that is done is watched for no more, whatever other events want.
UncountedAll(I, wants) ==
  [I EXCEPT !.readsd_count = IF "r" \in wants THEN @ - 1 ELSE @,
            !.writesd_count = IF "w" \in wants THEN @ - 1 ELSE @,
            !.watched = @ \ wants]
\* Mutant: a bit that was set is never cleared.
UncountedKeeps(I, wants) ==
  [I EXCEPT !.readsd_count = IF "r" \in wants THEN @ - 1 ELSE @,
            !.writesd_count = IF "w" \in wants THEN @ - 1 ELSE @]
\* socket_count_*_dec() and update_events(): what nobody waits for is not watched.
Uncounted(I, wants) ==
  LET J == [I EXCEPT !.readsd_count = IF "r" \in wants THEN @ - 1 ELSE @,
                     !.writesd_count = IF "w" \in wants THEN @ - 1 ELSE @]
  IN [J EXCEPT !.watched =
        @ \ {w \in wants : IF w = "r" THEN J.readsd_count = 0 ELSE J.writesd_count = 0}]

\* The iod I of an event that is done, without the counts of the event, and what
\* event_dispatch_and_delete() takes off.
Settled(I, e) == [Uncounted(I, Wants(event[e].type)) EXCEPT !.events_pending = @ - 1]

-----------------------------------------------------------------------------
(* Requests. *)

\* Callers run outside of nsock_loop() and in the handlers that it calls.
CallerRuns == frames # <<>> \/ phase = "user"

NewEvent == IF free_events # <<>> THEN Head(free_events) ELSE created + 1

\* event_new() and nsock_pool_add_event(): a read of an iod that has seen the end, and
\* a connect that fails or succeeds at once, are delivered before the call returns.
Request(type, i, need, timeout, atOnce) ==
  LET e == NewEvent
      I == Counted(iod[i], Wants(type))
  IN /\ CallerRuns /\ requests < MaxRequests
     /\ requests' = requests + 1
     /\ free_events' = IF free_events # <<>> THEN Tail(free_events) ELSE free_events
     /\ created' = IF free_events # <<>> THEN created ELSE created + 1
     /\ event' = [event EXCEPT ![e] =
                    [type |-> type, iod |-> i, done |-> atOnce, need |-> need,
                     timeout |-> timeout, due |-> FALSE, calls |-> IF atOnce THEN 1 ELSE 0]]
     /\ IF atOnce
        THEN /\ frames' = <<[kind |-> "immediate", event |-> e]>> \o frames
             /\ iod' = IF i = NoIod THEN iod ELSE [iod EXCEPT ![i].state = "CONNECTED"]
             /\ UNCHANGED <<lists, expirables, events_pending, armed>>
        ELSE /\ expirables' = IF timeout THEN expirables \cup {e} ELSE expirables
             /\ events_pending' = events_pending + 1
             /\ IF type = "TIMER" THEN UNCHANGED <<lists, iod, armed>>
                ELSE /\ lists' = [lists EXCEPT ![i][type] = <<e>> \o @]
                     /\ iod' = [iod EXCEPT ![i] = [I EXCEPT !.events_pending = @ + 1, !.state = "CONNECTED"]]
                     /\ armed' = Rearmed(i, I)
             /\ UNCHANGED frames
     /\ UNCHANGED <<loop, quit, kernel>>

\* The socket is made and the iod counts as connected as soon as it is asked for.
nsock_connect(i, timeout, atOnce) ==
  iod[i].state = "INITIAL" /\ Request("CONNECT", i, 0, timeout, atOnce)

nsock_read(i, need, timeout) ==
  /\ Open(i) /\ Cardinality(PendingOn(i, "READ")) < PerIod
  /\ Request("READ", i, need, timeout, iod[i].eof)

nsock_write(i, timeout) ==
  /\ Open(i) /\ Cardinality(PendingOn(i, "WRITE")) < PerIod
  /\ Request("WRITE", i, 0, timeout, FALSE)

nsock_timer_create == Request("TIMER", NoIod, 0, TRUE, FALSE)

-----------------------------------------------------------------------------
(* Cancelling. *)

\* The list l without the events of S, in the same order.
Without(l, S) ==
  LET kept == {k \in DOMAIN l : l[k] \notin S}
      nth(n) == CHOOSE k \in kept : Cardinality({j \in kept : j <= k}) = n
  IN [n \in 1 .. Cardinality(kept) |-> l[nth(n)]]

\* Mutant: the event stays in the heap.
UnrefNoHeap(es, told) ==
  /\ event' = [e \in Events |->
                 IF e \notin ToSet(es) THEN event[e]
                 ELSE [Blank EXCEPT !.calls = IF told /\ event[e].calls = 1 THEN 2 ELSE 0]]
  /\ lists' = [i \in Iods |-> [t \in Types |-> Without(lists[i][t], ToSet(es))]]
  /\ free_events' = free_events \o es /\ UNCHANGED expirables
\* nevent_unref() recycles the events of the sequence es; told says whether their
\* handlers are called now.  (That a handler is called again is remembered.)
Unref(es, told) ==
  /\ event' = [e \in Events |->
                 IF e \notin ToSet(es) THEN event[e]
                 ELSE [Blank EXCEPT !.calls = IF told /\ event[e].calls = 1 THEN 2 ELSE 0]]
  /\ lists' = [i \in Iods |-> [t \in Types |-> Without(lists[i][t], ToSet(es))]]
  /\ expirables' = expirables \ ToSet(es)
  /\ free_events' = free_events \o es

\* nsock_event_cancel() of an event that is not being delivered.
nsock_event_cancel(e, notify) ==
  LET i == event[e].iod
      I == Settled(iod[i], e)
  IN /\ CallerRuns /\ e \in Pending
     /\ Unref(<<e>>, notify)
     /\ events_pending' = events_pending - 1
     /\ IF i = NoIod THEN UNCHANGED <<iod, armed>>
        ELSE /\ iod' = [iod EXCEPT ![i] = I]
             /\ armed' = Rearmed(i, I)
     /\ UNCHANGED <<loop, frames, created, quit, requests, kernel>>

\* Mutant: an event that is being delivered is deleted too.
OnIodAll(i) == lists[i]["CONNECT"] \o lists[i]["READ"] \o lists[i]["WRITE"]
\* The events of an iod that nsock_iod_delete() cancels; nevent_delete() leaves those
\* that are being delivered alone.
OnIod(i) == Without(lists[i]["CONNECT"] \o lists[i]["READ"] \o lists[i]["WRITE"],
                    {e \in Events : event[e].done})

\* nsock_iod_delete(): the counts are zeroed and the socket is closed; the structure
\* is recycled by the loop, if it comes across it.
nsock_iod_delete(i, notify) ==
  LET es == OnIod(i)
  IN /\ CallerRuns /\ iod[i].state # "DELETED"
     /\ Unref(es, notify)
     /\ events_pending' = events_pending - Len(es)
     /\ iod' = [iod EXCEPT ![i] =
                  [iod[i] EXCEPT !.events_pending = @ - Len(es), !.readsd_count = 0,
                                 !.writesd_count = 0, !.watched = {}, !.registered = FALSE,
                                 !.state = "DELETED"]]
     /\ armed' = armed \ {i}
     /\ UNCHANGED <<loop, frames, created, quit, requests, kernel>>

nsock_loop_quit ==
  /\ CallerRuns /\ requests < MaxRequests /\ requests' = requests + 1
  /\ quit' = TRUE
  /\ UNCHANGED <<loop, frames, pool, kernel, armed>>

-----------------------------------------------------------------------------
(* The loop. *)

\* nsock_loop() is called.
LoopStart ==
  /\ phase = "user" /\ frames = <<>>
  /\ IF quit \/ events_pending = 0 THEN quit' = FALSE /\ UNCHANGED phase
     ELSE phase' = "first" /\ UNCHANGED quit
  /\ UNCHANGED <<batch, current, mask, list, cursor, frames, pool, requests, kernel, armed>>

\* After a round it returns when it was told to quit, when nothing is pending or when
\* its time is over.
LoopReturn(timeout) ==
  /\ phase = "wait" /\ (quit \/ events_pending = 0 \/ timeout)
  /\ phase' = "user" /\ quit' = FALSE
  /\ UNCHANGED <<batch, current, mask, list, cursor, frames, pool, requests, kernel, armed>>

\* What epoll_wait() reports of socket i.
Reported(i) == (ReadyFor(i) \cap iod[i].watched) \cup (IF i \in closed THEN {"x"} ELSE {})

\* epoll_loop(): every socket on the ready list is taken off it.
EpollWait ==
  /\ phase \in {"first", "wait"} /\ ~quit /\ events_pending > 0
  /\ batch' = [i \in {j \in armed : Reported(j) # {}} |-> Reported(i)]
  /\ armed' = {}
  /\ phase' = "iods"
  /\ UNCHANGED <<current, mask, list, cursor, frames, pool, quit, requests, kernel>>

Running == frames # <<>>
Order == <<"CONNECT", "READ", "WRITE">>
First(i, k) == IF lists[i][Order[k]] = <<>> THEN NoEvent ELSE Head(lists[i][Order[k]])

\* process_iod_events() begins with the next iod of the batch.
NextIod(i) ==
  /\ phase = "iods" /\ ~Running /\ current = NoIod /\ i \in DOMAIN batch
  /\ current' = i /\ mask' = batch[i]
  /\ batch' = [j \in DOMAIN batch \ {i} |-> batch[j]]
  /\ list' = 1 /\ cursor' = First(i, 1)
  /\ UNCHANGED <<phase, frames, pool, quit, requests, kernel, armed>>

\* The end of a list of the iod: the first event of the next list is looked up now.
NextList ==
  /\ phase = "iods" /\ ~Running /\ current # NoIod /\ cursor = NoEvent /\ list < 3
  /\ list' = list + 1 /\ cursor' = First(current, list + 1)
  /\ UNCHANGED <<phase, batch, current, mask, frames, pool, quit, requests, kernel, armed>>

\* The end of its last list: an iod that was deleted leaves the list of active iods.
EndIod ==
  /\ phase = "iods" /\ ~Running /\ current # NoIod /\ cursor = NoEvent /\ list = 3
  /\ iod' = [iod EXCEPT ![current].active = @ /\ iod[current].state # "DELETED"]
  /\ current' = NoIod /\ mask' = {} /\ list' = 1
  /\ UNCHANGED <<phase, batch, cursor, frames, event, lists, expirables, free_events,
                 created, events_pending, quit, requests, kernel, armed>>

EndIods ==
  /\ phase = "iods" /\ ~Running /\ current = NoIod /\ DOMAIN batch = {}
  /\ phase' = "expired"
  /\ UNCHANGED <<batch, current, mask, list, cursor, frames, pool, quit, requests, kernel, armed>>

\* The event after e in its list.
After(e) ==
  LET l == lists[event[e].iod][event[e].type]
      here == {n \in 1 .. Len(l) - 1 : l[n] = e}
  IN IF here = {} THEN NoEvent ELSE l[Min(here) + 1]

\* Event e is done: it is taken off the counts and its handler is called in a new frame.
\* ended says that a read has come to the end of the stream.
Deliver(e, kind, ended) ==
  LET i == event[e].iod
      I == Settled(iod[i], e)
  IN /\ events_pending' = events_pending - 1
     /\ event' = [event EXCEPT ![e] = [event[e] EXCEPT !.done = TRUE, !.calls = @ + 1]]
     /\ IF i = NoIod THEN UNCHANGED <<iod, armed>>
        ELSE /\ iod' = [iod EXCEPT ![i] = [I EXCEPT !.eof = @ \/ ended]]
             /\ armed' = Rearmed(i, I)
     /\ frames' = <<[kind |-> kind, event |-> e]>> \o frames
     /\ UNCHANGED <<cursor, lists, expirables, free_events, created>>

\* process_event() for an event that is not ready and not due: on to the next one.
PassOver(need) ==
  /\ event' = [event EXCEPT ![cursor].need = need]
  /\ cursor' = After(cursor)
  /\ UNCHANGED <<frames, lists, expirables, free_events, created, events_pending, iod, armed>>

AtEvent(type) ==
  /\ phase = "iods" /\ ~Running /\ cursor # NoEvent /\ event[cursor].type = type
  /\ UNCHANGED <<phase, batch, current, mask, list, quit, requests, arrived, closed>>

\* handle_connect_result(): whatever is reported ends a connect.
ProcessConnect ==
  /\ AtEvent("CONNECT") /\ Deliver(cursor, "loop", FALSE)
  /\ UNCHANGED <<data, writable>>

\* handle_read_result() and do_actual_read(): one datagram is read, which may not be
\* enough; without one it is the end of the stream, an error or nothing.
ProcessRead(fails) ==
  LET tried == {"r", "x"} \cap mask # {}
      got == IF tried /\ data[current] > 0 THEN 1 ELSE 0
      need == event[cursor].need - got
      ended == tried /\ got = 0 /\ current \in closed
  IN /\ AtEvent("READ") /\ (fails => tried /\ got = 0 /\ ~ended)
     /\ data' = [data EXCEPT ![current] = @ - got]
     /\ IF need = 0 \/ ended \/ fails \/ event[cursor].due THEN Deliver(cursor, "loop", ended)
        ELSE PassOver(need)
     /\ UNCHANGED writable

\* handle_write_result(): all is written, or an error ends it; or the socket takes no
\* more for now.
ProcessWrite(all) ==
  LET tried == {"w", "x"} \cap mask # {}
  IN /\ AtEvent("WRITE") /\ (all => tried)
     /\ writable' = IF tried /\ ~all THEN writable \ {current} ELSE writable
     /\ IF all \/ event[cursor].due THEN Deliver(cursor, "loop", FALSE) ELSE PassOver(0)
     /\ UNCHANGED data

\* nsock_tod is set while the loop waits and when an event is created: the timeout of
\* an event has passed.
BecomesDue(e) ==
  /\ phase \in {"first", "wait"} \/ Running
  /\ e \in expirables /\ ~event[e].due
  /\ event' = [event EXCEPT ![e].due = TRUE]
  /\ UNCHANGED <<loop, frames, lists, expirables, free_events, created, events_pending, iod,
                 quit, requests, kernel, armed>>

\* process_expired_events(): an event at the top of the heap that is due.
ProcessExpired(e) ==
  /\ phase = "expired" /\ ~Running /\ e \in expirables /\ event[e].due
  /\ Deliver(e, "expired", FALSE)
  /\ UNCHANGED <<phase, batch, current, mask, list, quit, requests, kernel>>

\* Mutant: events that are due may stay in the heap.
EndExpiredEarly ==
  /\ phase = "expired" /\ ~Running
  /\ phase' = "wait"
  /\ UNCHANGED <<batch, current, mask, list, cursor, frames, pool, quit, requests, kernel, armed>>
EndExpired ==
  /\ phase = "expired" /\ ~Running /\ \A e \in expirables : ~event[e].due
  /\ phase' = "wait"
  /\ UNCHANGED <<batch, current, mask, list, cursor, frames, pool, quit, requests, kernel, armed>>

\* The handler returns to process_iod_events(), which goes on with the next event, to
\* process_expired_events() or to nsock_pool_add_event(); the event is recycled.
HandlerReturns ==
  LET f == Head(frames)
  IN /\ Running
     /\ frames' = Tail(frames)
     /\ cursor' = IF f.kind = "loop" THEN After(f.event) ELSE cursor
     /\ Unref(<<f.event>>, FALSE)
     /\ UNCHANGED <<phase, batch, current, mask, list, created, events_pending, iod,
                    quit, requests, kernel, armed>>

-----------------------------------------------------------------------------
NewIod == [state |-> "INITIAL", active |-> TRUE, registered |-> FALSE, watched |-> {},
           readsd_count |-> 0, writesd_count |-> 0, events_pending |-> 0, eof |-> FALSE]

Init ==
  /\ phase = "user" /\ batch = [i \in {} |-> {}] /\ current = NoIod /\ mask = {}
  /\ list = 1 /\ cursor = NoEvent /\ frames = <<>>
  /\ event = [e \in Events |-> Blank]
  /\ lists = [i \in Iods |-> [t \in Types |-> <<>>]]
  /\ expirables = {} /\ free_events = <<>> /\ created = 0 /\ events_pending = 0
  /\ iod = [i \in Iods |-> NewIod]
  /\ quit = FALSE /\ requests = 0
  /\ data = [i \in Iods |-> 0] /\ arrived = [i \in Iods |-> 0]
  /\ closed = {} /\ writable = {} /\ armed = {}

Call ==
  \/ nsock_timer_create \/ nsock_loop_quit
  \/ \E i \in Iods, b \in BOOLEAN :
       \/ \E atOnce \in BOOLEAN : nsock_connect(i, b, atOnce)
       \/ \E n \in Needs : nsock_read(i, n, b)
       \/ nsock_write(i, b) \/ nsock_iod_delete(i, b)
  \/ \E e \in Events, notify \in BOOLEAN : nsock_event_cancel(e, notify)
Kernel == \E i \in Iods : Arrive(i) \/ PeerCloses(i) \/ Drains(i)
Time == \E e \in Events : BecomesDue(e)
LoopStep ==
  \/ LoopStart \/ LoopReturn(FALSE) \/ EpollWait \/ NextList \/ EndIod \/ EndIods
  \/ \E i \in Iods : NextIod(i)
  \/ ProcessConnect \/ \E b \in BOOLEAN : ProcessRead(b) \/ ProcessWrite(b)
  \/ \E e \in Events : ProcessExpired(e)
  \/ EndExpired \/ HandlerReturns

Next == Call \/ Kernel \/ Time \/ LoopStep \/ LoopReturn(TRUE)

\* Time passes, handlers return and callers call nsock_loop() again.
Fairness == WF_vars(LoopStep) /\ SF_vars(Time)

Spec == Init /\ [][Next]_vars /\ Fairness

-----------------------------------------------------------------------------
(* Properties. *)

\* The socket counts and the numbers of pending events stay natural numbers, as the
\* assertions of socket_count_*_dec() and event_dispatch_and_delete() say.
TypeOK ==
  /\ phase \in {"user", "first", "wait", "iods", "expired"}
  /\ DOMAIN batch \subseteq Iods /\ \A i \in DOMAIN batch : batch[i] \subseteq {"r", "w", "x"}
  /\ current \in Iods \cup {NoIod} /\ mask \subseteq {"r", "w", "x"}
  /\ list \in 1 .. 3 /\ cursor \in Events \cup {NoEvent}
  /\ \A k \in DOMAIN frames : frames[k] \in [kind : {"loop", "expired", "immediate"}, event : Events]
  /\ event \in [Events -> Event]
  /\ \A i \in Iods, t \in Types : lists[i][t] \in Seq(Events)
  /\ expirables \subseteq Events /\ free_events \in Seq(Events) /\ created \in 0 .. MaxRequests
  /\ events_pending \in Nat /\ iod \in [Iods -> Iod]
  /\ quit \in BOOLEAN /\ requests \in 0 .. MaxRequests
  /\ data \in [Iods -> Nat] /\ arrived \in [Iods -> 0 .. MaxData]
  /\ closed \cup writable \cup armed \subseteq Iods

\* Each counter is the number of events that are pending: nsock_loop() goes on
\* exactly as long as there are some, an iod is deleted without the fatal error about
\* purportedly pending events, and a descriptor is watched for what some pending event
\* waits for and for nothing else.
CountsExact ==
  /\ events_pending = Cardinality(Pending)
  /\ \A i \in Iods :
       LET mine == {e \in Pending : event[e].iod = i}
           readers == {e \in mine : "r" \in Wants(event[e].type)}
           writers == {e \in mine : "w" \in Wants(event[e].type)}
       IN /\ iod[i].events_pending = Cardinality(mine)
          /\ iod[i].readsd_count = Cardinality(readers)
          /\ iod[i].writesd_count = Cardinality(writers)
          /\ iod[i].watched = {w \in {"r", "w"} : IF w = "r" THEN readers # {} ELSE writers # {}}

\* A structure is in one place: on a list, in the heap, held by the call that
\* delivers it, or free; none leaks, and the one that the loop is at is not recycled
\* under it.
StructuresOwned ==
  LET immediate == {frames[k].event : k \in {n \in DOMAIN frames : frames[n].kind = "immediate"}}
  IN /\ Held \cup immediate \cup ToSet(free_events) = 1 .. created
     /\ IsInjective(free_events)
     /\ ToSet(free_events) \cap (Held \cup immediate) = {}
     /\ Held \cap immediate = {}
     /\ cursor # NoEvent => cursor \in Listed

\* A handler is called at most once for a request, and not while it is pending: a
\* request that times out, completes and is cancelled in the handlers of others is
\* answered by the first of these only.
AnsweredOnce == \A e \in Events : event[e].calls <= 1 /\ (e \in Pending => event[e].calls = 0)

\* Callers have one read and one write on an iod at a time, and one datagram is
\* enough for a read.
OneAtATime == PerIod = 1 /\ Needs = {1}

\* For such callers no wakeup of the edge-triggered epoll is lost: when nsock waits, a
\* socket that has what a pending event waits for is on the ready list, although
\* do_actual_read() stops before the socket is empty.  It rests on the bit of a
\* direction being cleared and set again between two requests; two reads at once, or a
\* read that goes on after its first datagram, do lose wakeups.
NoLostWakeup ==
  OneAtATime /\ phase \in {"first", "wait"} =>
    \A e \in Pending : event[e].iod \in Iods \ armed =>
                          ReadyFor(event[e].iod) \cap Wants(event[e].type) = {}

\* No request with a timeout stays pending: after the last request of the callers they
\* are all answered, at the latest when their time is over, or cancelled.
TimeoutsDelivered == <>[](\A e \in Pending : ~event[e].timeout)
================================================================================
