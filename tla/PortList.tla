------------------------------ MODULE PortList ------------------------------
(***************************************************************************)
(* The port table of a target: PortList of portlist.cc, and everything     *)
(* that writes to it.  Port scans report answers through                   *)
(* ultrascan_port_pspec_update() of scan_engine.cc, whose rules decide     *)
(* which of two contradicting answers prevails; the FTP bounce scan writes *)
(* directly; version detection and NSE scripts may change states later.    *)
(*                                                                         *)
(* A port that is not in list is a null pointer of port_list: it has the   *)
(* default state, to which unanswered ports are left to save memory.       *)
(***************************************************************************)
EXTENDS Integers, FiniteSets, Sequences

CONSTANTS
  Scanned,      \* the port numbers of each protocol, from initializePortMap()
  Plans,        \* the sequences of scans that the options may ask for
  MaxPerState,  \* the number of ports a state may have and still be listed, which
                \*   grows with the next two
  Verbose, Debugging,   \* o.verbose, o.debugging
  OpenOnly      \* the option --open

Protos == {"tcp", "udp", "sctp"}

\* The numbers matter, as they break ties in nextIgnoredState().
PORT_UNKNOWN == 0
PORT_CLOSED == 1
PORT_OPEN == 2
PORT_FILTERED == 3
PORT_TESTING == 4
PORT_FRESH == 5
PORT_UNFILTERED == 6
PORT_OPENFILTERED == 7
PORT_CLOSEDFILTERED == 8
States == 0 .. 8

\* Reasons.  That of an answer is told by the state the answer stands for.
ER_NORESPONSE == 0
ReasonOf(newstate) == newstate
ER_SCRIPT == 9
ER_SERVICE == 10
Reasons == 0 .. 10

ScanNames == {"syn", "ack", "window", "fin", "udp", "udp_ratelimit", "init",
              "cookie_echo", "bounce"}
ProtoOf(scan) == CASE scan \in {"udp", "udp_ratelimit"} -> "udp"
                   [] scan \in {"init", "cookie_echo"} -> "sctp"
                   [] OTHER -> "tcp"
noresp_open_scan(scan) == scan \in {"fin", "udp", "udp_ratelimit"}
\* The states that answers to the probes of a scan stand for.
Answers(scan) ==
  CASE scan = "ack" -> {PORT_UNFILTERED, PORT_FILTERED}
    [] scan \in {"fin", "cookie_echo"} -> {PORT_CLOSED, PORT_FILTERED}
    [] OTHER -> {PORT_OPEN, PORT_CLOSED, PORT_FILTERED}

ASSUME ConstantsAssumption ==
  /\ Scanned \in [Protos -> SUBSET Nat]
  /\ \A proto \in Protos : IsFiniteSet(Scanned[proto])
  /\ Plans \subseteq Seq(ScanNames)
  /\ MaxPerState \in Nat /\ Verbose \in Nat /\ Debugging \in Nat
  /\ OpenOnly \in BOOLEAN

\* ValidateOptions() refuses a second TCP scan and the UDP scan is one option; the
\* two SCTP scans may be asked for together.
ASSUME PlansAssumption ==
  \A plan \in Plans : \A j, k \in DOMAIN plan :
    j < k /\ ProtoOf(plan[j]) = ProtoOf(plan[k]) => ProtoOf(plan[j]) = "sctp"

VARIABLES
  ports,    \* target->ports, by protocol
  scan,     \* the scan that is going on, or "none"
  todo,     \* the scans still to be run
  stage,    \* what nmap_main() is at: "scan", "service", "script", or "fatal"
  answers   \* history: the answers each port has had in its scans

vars == <<ports, scan, todo, stage, answers>>

-----------------------------------------------------------------------------
(* The operations of PortList on the ports L of one protocol. *)

\* The states that setPortState() accepts; it refuses the others as illegal.
LegalStates == {PORT_OPEN, PORT_CLOSED, PORT_FILTERED, PORT_UNFILTERED,
                PORT_OPENFILTERED, PORT_CLOSEDFILTERED}
PortRecord == [state : LegalStates, reason : Reasons]

\* The PortList constructor.
NewPortList(proto) ==
  [list |-> [n \in {} |-> 0],
   default_port_state |-> PORT_UNKNOWN,
   counts |-> [s \in States |-> IF s = PORT_UNKNOWN
                                THEN Cardinality(Scanned[proto]) ELSE 0]]

Created(L, n) == n \in DOMAIN L.list
getPortState(L, n) == IF Created(L, n) THEN L.list[n].state
                      ELSE L.default_port_state

Put(L, n, port) ==
  [L EXCEPT !.list = [m \in DOMAIN L.list \cup {n} |->
                        IF m = n THEN port ELSE L.list[m]]]
Move(counts, from, to, k) ==
  [[counts EXCEPT ![from] = @ - k] EXCEPT ![to] = @ + k]

\* createPort().
createPort(L, n) ==
  IF Created(L, n) THEN L
  ELSE Put(L, n, [state |-> L.default_port_state, reason |-> ER_NORESPONSE])

setStateReason(L, n, reason) ==
  LET C == createPort(L, n) IN Put(C, n, [C.list[n] EXCEPT !.reason = reason])

\* Mutant: a new port is not taken from the count of the default state.
SetPortStateMiscounts(L, n, state) ==
  LET C == createPort(L, n) IN
  [Put(C, n, [C.list[n] EXCEPT !.state = state]) EXCEPT !.counts =
     IF Created(L, n) THEN Move(L.counts, C.list[n].state, state, 1)
     ELSE [L.counts EXCEPT ![state] = @ + 1]]
\* setPortState().  A new port is in the default state until then.
setPortState(L, n, state) ==
  LET C == createPort(L, n)
      port == C.list[n]
  IN [Put(C, n, [state |-> state,
                 reason |-> IF state \in {PORT_FILTERED, PORT_OPENFILTERED}
                            THEN ER_NORESPONSE ELSE port.reason])
        EXCEPT !.counts = Move(L.counts, port.state, state, 1)]

setDefaultPortState(proto, L, state) ==
  [L EXCEPT !.default_port_state = state,
            !.counts = Move(L.counts, L.default_port_state, state,
                            Cardinality(Scanned[proto] \ DOMAIN L.list))]

forgetPort(L, n) ==
  IF ~Created(L, n) THEN L
  ELSE [L EXCEPT !.list = [m \in DOMAIN L.list \ {n} |-> L.list[m]],
                 !.counts = Move(L.counts, L.list[n].state,
                                 L.default_port_state, 1)]

-----------------------------------------------------------------------------
(* Iteration.  A port is a pair of its protocol and its number. *)

NoPort == <<"none", 0>>

\* The first port of a protocol above a number that has the state, 0 being any.
Search(proto, above, allowed_state) ==
  LET match == {n \in Scanned[proto] :
                  /\ n > above
                  /\ allowed_state \in {0, getPortState(ports[proto], n)}}
  IN IF match = {} THEN NoPort
     ELSE <<proto, CHOOSE n \in match : \A m \in match : n <= m>>

\* nextPort() for allowed_protocol UDPANDSCTP and no port to start after.
FirstOfUdpAndSctp(allowed_state) ==
  LET udp == Search("udp", -1, allowed_state) IN
  IF udp # NoPort THEN udp ELSE Search("sctp", -1, allowed_state)

\* Mutant: UDP and SCTP ports are forgotten when there is no TCP port.
NextPortTcpOnly(cur, allowed_protocol, allowed_state) ==
  LET proto == IF cur # NoPort THEN cur[1]
               ELSE IF allowed_protocol = "all" THEN "tcp" ELSE allowed_protocol
      here == Search(proto, IF cur = NoPort THEN -1 ELSE cur[2], allowed_state)
  IN CASE here # NoPort -> here
       [] here = NoPort /\ cur # NoPort /\ proto = "tcp"
            -> FirstOfUdpAndSctp(allowed_state)
       [] here = NoPort /\ cur # NoPort /\ proto = "udp"
            -> Search("sctp", -1, allowed_state)
       [] OTHER -> NoPort
\* nextPort(), where allowed_protocol is "all" for TCPANDUDPANDSCTP.
nextPort(cur, allowed_protocol, allowed_state) ==
  LET proto == IF cur # NoPort THEN cur[1]
               ELSE IF allowed_protocol = "all" THEN "tcp" ELSE allowed_protocol
      here == Search(proto, IF cur = NoPort THEN -1 ELSE cur[2], allowed_state)
  IN CASE here # NoPort -> here
       [] here = NoPort /\ \/ cur = NoPort /\ allowed_protocol = "all"
                           \/ cur # NoPort /\ proto = "tcp"
            -> FirstOfUdpAndSctp(allowed_state)
       [] here = NoPort /\ cur # NoPort /\ proto = "udp"
            -> Search("sctp", -1, allowed_state)
       [] OTHER -> NoPort

numPorts == Cardinality(UNION {{proto} \X Scanned[proto] : proto \in Protos})

\* The ports that a loop over nextPort() goes through.
Visit(allowed_protocol, allowed_state) ==
  LET visit[k \in 0 .. numPorts] ==
        IF k = 0 THEN <<>>
        ELSE LET seen == visit[k - 1]
                 cur  == IF k = 1 THEN NoPort ELSE seen[Len(seen)]
                 next == nextPort(cur, allowed_protocol, allowed_state)
             IN IF Len(seen) < k - 1 \/ next = NoPort THEN seen
                ELSE Append(seen, next)
  IN visit[numPorts]

\* nseU_getport(): the loop stops at the first port with the number.
nseU_getport(proto, n) ==
  LET loop == Visit(proto, PORT_UNKNOWN)
      found == {k \in DOMAIN loop : loop[k][2] = n}
  IN IF found = {} THEN NoPort
     ELSE loop[CHOOSE k \in found : \A j \in found : k <= j]

-----------------------------------------------------------------------------
(* The states whose ports are summed up rather than listed in the output. *)

getStateCounts(state) ==
  ports["tcp"].counts[state] + ports["udp"].counts[state]
    + ports["sctp"].counts[state]

isIgnoredState(state) ==
  /\ Debugging <= 2
  /\ state \notin {PORT_OPEN, PORT_UNKNOWN, PORT_TESTING, PORT_FRESH}
  /\ state = PORT_OPENFILTERED => Verbose <= 2
  /\ \/ /\ OpenOnly
        /\ state \notin {PORT_OPENFILTERED, PORT_UNFILTERED}
        /\ getStateCounts(state) > 0
     \/ getStateCounts(state) > MaxPerState

\* Mutant: ties are not broken.
MayFollowStrictly(state, prevstate) ==
  getStateCounts(state) < getStateCounts(prevstate)
\* Whether nextIgnoredState() may give state after prevstate.
MayFollow(state, prevstate) ==
  \/ getStateCounts(state) < getStateCounts(prevstate)
  \/ getStateCounts(state) = getStateCounts(prevstate) /\ state > prevstate

nextIgnoredState(prevstate) ==
  LET left == {s \in States : isIgnoredState(s)
                 /\ (prevstate # PORT_UNKNOWN => MayFollow(s, prevstate))}
  IN IF left = {} THEN PORT_UNKNOWN
     ELSE CHOOSE s \in left : \A t \in left :
            \/ getStateCounts(s) > getStateCounts(t)
            \/ getStateCounts(s) = getStateCounts(t) /\ s <= t

-----------------------------------------------------------------------------
(* Writers. *)

Init ==
  /\ ports = [proto \in Protos |-> NewPortList(proto)]
  /\ scan = "none" /\ todo \in Plans /\ stage = "scan"
  /\ answers = [proto \in Protos |-> [n \in Scanned[proto] |-> {}]]

SetPorts(proto, L) == ports' = [ports EXCEPT ![proto] = L]

\* set_default_port_state().  The bounce scan does not call it.
DefaultState(s) ==
  CASE s \in {"fin", "udp", "cookie_echo"} -> PORT_OPENFILTERED
    [] s = "udp_ratelimit" -> PORT_CLOSEDFILTERED
    [] OTHER -> PORT_FILTERED

StartScan ==
  LET s == Head(todo) IN
  /\ stage = "scan" /\ todo # <<>>
  /\ scan' = s /\ todo' = Tail(todo)
  /\ IF s = "bounce" THEN UNCHANGED ports
     ELSE SetPorts(ProtoOf(s), setDefaultPortState(ProtoOf(s),
                                 ports[ProtoOf(s)], DefaultState(s)))
  /\ UNCHANGED <<stage, answers>>

\* Mutant: a filtered port may become open in any scan.
IgnoredForgetsFiltered(s, oldstate, newstate) ==
  CASE oldstate = PORT_OPEN -> ~noresp_open_scan(s)
    [] oldstate = PORT_CLOSED ->
         noresp_open_scan(s) \/ newstate = PORT_FILTERED
    [] oldstate = PORT_UNFILTERED -> newstate \notin {PORT_OPEN, PORT_CLOSED}
    [] OTHER -> FALSE
\* Whether ultrascan_port_pspec_update() goes back to oldstate, the state of a
\* port that is already in the list.
Ignored(s, oldstate, newstate) ==
  CASE oldstate = PORT_OPEN -> ~noresp_open_scan(s)
    [] oldstate = PORT_CLOSED ->
         noresp_open_scan(s) \/ newstate = PORT_FILTERED
    [] oldstate = PORT_FILTERED -> noresp_open_scan(s) /\ newstate = PORT_OPEN
    [] oldstate = PORT_UNFILTERED -> newstate \notin {PORT_OPEN, PORT_CLOSED}
    [] OTHER -> FALSE
\* Mutant: the states of an ACK scan are forgotten.
UnexpectedUnfiltered(oldstate) ==
  oldstate \notin {PORT_TESTING, PORT_OPEN, PORT_CLOSED, PORT_FILTERED,
                   PORT_OPENFILTERED}
\* The states of a port that ultrascan_port_pspec_update() gives up on.
Unexpected(oldstate) ==
  oldstate \notin {PORT_TESTING, PORT_OPEN, PORT_CLOSED, PORT_FILTERED,
                   PORT_UNFILTERED, PORT_OPENFILTERED}

\* The new state is set at once, and set back if it is to be ignored; the
\* caller records the reason either way.
ultrascan_port_pspec_update(L, s, n, newstate) ==
  LET oldstate == IF Created(L, n) THEN L.list[n].state ELSE PORT_TESTING
      new == setPortState(L, n, newstate)
  IN IF newstate # oldstate /\ Ignored(s, oldstate, newstate)
     THEN setPortState(new, n, oldstate) ELSE new

Answer(n, newstate) ==
  LET proto == ProtoOf(scan)
      L == ports[proto]
  IN /\ stage = "scan" /\ scan \notin {"none", "bounce"}
     /\ n \in Scanned[proto] /\ newstate \in Answers(scan)
     /\ SetPorts(proto, setStateReason(
          ultrascan_port_pspec_update(L, scan, n, newstate), n,
          ReasonOf(newstate)))
     /\ answers' = [answers EXCEPT ![proto][n] = @ \cup {newstate}]
     /\ stage' = IF Created(L, n) /\ newstate # L.list[n].state
                      /\ Unexpected(L.list[n].state)
                 THEN "fatal" ELSE stage
     /\ UNCHANGED <<scan, todo>>

\* bounce_scan().  After a 426 reply the port is forgotten, then closed.
BounceResult(n, newstate, forget) ==
  LET L == IF forget THEN forgetPort(ports["tcp"], n) ELSE ports["tcp"] IN
  /\ stage = "scan" /\ scan = "bounce"
  /\ n \in Scanned["tcp"] /\ newstate \in Answers(scan)
  /\ forget => newstate = PORT_CLOSED
  /\ SetPorts("tcp", setPortState(L, n, newstate))
  /\ UNCHANGED <<scan, todo, stage, answers>>

EndScans ==
  /\ stage = "scan" /\ todo = <<>>
  /\ stage' = "service" /\ scan' = "none"
  /\ UNCHANGED <<ports, todo, answers>>

\* adjustPortStateIfNecessary(): version detection connects to open ports, and
\* to open|filtered ones to find out.
ServiceAnswers(proto, n) ==
  LET L == ports[proto] IN
  /\ stage = "service"
  /\ n \in Scanned[proto] /\ getPortState(L, n) = PORT_OPENFILTERED
  /\ SetPorts(proto, setStateReason(setPortState(L, n, PORT_OPEN), n, ER_SERVICE))
  /\ UNCHANGED <<scan, todo, stage, answers>>

EndServices ==
  /\ stage = "service"
  /\ stage' = "script"
  /\ UNCHANGED <<ports, scan, todo, answers>>

\* nmap.set_port_state() of NSE, with a port table made by the script.
set_port_state(proto, n, state) ==
  LET p == nseU_getport(proto, n) IN
  /\ stage = "script"
  /\ p # NoPort
  /\ getPortState(ports[p[1]], p[2]) # state
  /\ SetPorts(p[1], setStateReason(setPortState(ports[p[1]], p[2], state),
                                   p[2], ER_SCRIPT))
  /\ UNCHANGED <<scan, todo, stage, answers>>

Numbers == UNION {Scanned[proto] : proto \in Protos}

Next ==
  \/ StartScan
  \/ \E n \in Numbers, s \in States : Answer(n, s)
  \/ \E n \in Numbers, s \in States, forget \in BOOLEAN :
       BounceResult(n, s, forget)
  \/ EndScans
  \/ \E proto \in Protos, n \in Numbers : ServiceAnswers(proto, n)
  \/ EndServices
  \/ \E proto \in Protos, n \in Numbers, s \in {PORT_OPEN, PORT_CLOSED} :
       set_port_state(proto, n, s)

Spec == Init /\ [][Next]_vars

-----------------------------------------------------------------------------
(* Properties. *)

\* Every port object is that of a scanned port and has a state and a reason.
TypeOK ==
  /\ DOMAIN ports = Protos
  /\ \A proto \in Protos :
       /\ DOMAIN ports[proto].list \subseteq Scanned[proto]
       /\ \A n \in DOMAIN ports[proto].list : ports[proto].list[n] \in PortRecord
       /\ ports[proto].default_port_state \in States
       /\ ports[proto].counts \in [States -> Int]
  /\ scan \in ScanNames \cup {"none"}
  /\ todo \in Seq(ScanNames)
  /\ stage \in {"scan", "service", "script", "fatal"}
  /\ \A proto \in Protos : answers[proto] \in [Scanned[proto] -> SUBSET States]

\* state_counts_proto, which every part of the output relies on, is exact: it
\* counts each scanned port in its state, be that stored or the default.
StateCountsExact ==
  \A proto \in Protos, s \in States :
    ports[proto].counts[s] =
      Cardinality({n \in Scanned[proto] : getPortState(ports[proto], n) = s})

\* The answers of a scan from the one that prevails to the one that yields.
Precedence(s) ==
  IF noresp_open_scan(s) THEN <<PORT_CLOSED, PORT_FILTERED, PORT_OPEN>>
  ELSE <<PORT_OPEN, PORT_CLOSED, PORT_UNFILTERED, PORT_FILTERED>>
Prevailing(s, A) ==
  LET order == Precedence(s)
      i == CHOOSE i \in DOMAIN order :
             order[i] \in A /\ \A j \in 1 .. i - 1 : order[j] \notin A
  IN order[i]

\* The state a scan leaves a port in depends on which answers came in for it and
\* not on their order, which retransmissions and the network make arbitrary.
StateIgnoresAnswerOrder ==
  stage = "scan" /\ scan \notin {"none", "bounce"} =>
    LET proto == ProtoOf(scan) IN
    \A n \in Scanned[proto] :
      getPortState(ports[proto], n) =
        IF answers[proto][n] = {} THEN ports[proto].default_port_state
        ELSE Prevailing(scan, answers[proto][n])

\* ultrascan_port_pspec_update() never meets a state it gives up on.
NoUnexpectedState == stage # "fatal"

\* A loop over nextPort() that asks for a state gives each port in that state
\* once, the TCP ports first and the SCTP ports last, in numeric order.
IterationComplete ==
  \A s \in States :
    LET loop == Visit("all", s)
        rank(p) == CASE p[1] = "tcp" -> 1 [] p[1] = "udp" -> 2
                     [] p[1] = "sctp" -> 3
    IN /\ {loop[k] : k \in DOMAIN loop} =
            UNION {{proto} \X {n \in Scanned[proto] :
                                 s \in {0, getPortState(ports[proto], n)}} :
                   proto \in Protos}
       /\ \A k \in 2 .. Len(loop) :
            \/ rank(loop[k - 1]) < rank(loop[k])
            \/ loop[k - 1][1] = loop[k][1] /\ loop[k - 1][2] < loop[k][2]

\* The states that nextIgnoredState() gives, one call after the other.
IgnoredCycle ==
  LET cycle[k \in 0 .. 9] ==
        IF k = 0 THEN <<>>
        ELSE LET seen == cycle[k - 1]
                 prev == IF k = 1 THEN PORT_UNKNOWN ELSE seen[Len(seen)]
                 next == nextIgnoredState(prev)
             IN IF Len(seen) < k - 1 \/ next = PORT_UNKNOWN THEN seen
                ELSE Append(seen, next)
  IN cycle[9]

\* The cycle ends, and by then it has given every ignored state exactly once:
\* no port is left out of the summary of the output or is summed up twice.
IgnoredStatesSummedOnce ==
  LET cycle == IgnoredCycle IN
  \A s \in States : Cardinality({k \in DOMAIN cycle : cycle[k] = s}) =
                      (IF isIgnoredState(s) THEN 1 ELSE 0)
=============================================================================
