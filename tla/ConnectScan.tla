---------------------------- MODULE ConnectScan ----------------------------
(***************************************************************************)
(* The sockets of a connect() scan or a connect() host discovery:          *)
(* scan_engine_connect.cc and the parts of scan_engine.cc that close       *)
(* sockets.  ConnectScanInfo keeps one socket in reserve, watches those    *)
(* that are connecting, and hands what select() finds to                   *)
(* handleConnectResult().                                                  *)
(*                                                                         *)
(* The operating system is external.  It gives out the lowest free         *)
(* descriptor, finishes connections when it likes, and keeps the error of  *)
(* a failed one until SO_ERROR is read, which resets it; a failed socket   *)
(* stays ready for select() all the same.                                  *)
(***************************************************************************)
EXTENDS Integers, Sequences, FiniteSets

CONSTANTS
  Ports,              \* the probes of the scan
  MaxTries,           \* tries of a port
  FD_SETSIZE,
  maxSocketsAllowed,
  StdFds,             \* descriptors the process has open from the start
  PingScans,          \* whether host discovery, port scans or both are looked at
  discovery_ignore_rst

ASSUME ConstantsAssumption ==
  /\ MaxTries \in Nat
  /\ FD_SETSIZE \in Nat \ {0}
  /\ maxSocketsAllowed \in Nat \ {0}
  /\ StdFds \subseteq Nat /\ 0 \in StdFds /\ IsFiniteSet(StdFds)
  /\ PingScans \subseteq BOOLEAN
  /\ discovery_ignore_rst \in BOOLEAN

\* The outcomes of connect() that handleConnectResult() tells apart, "none"
\* being an error number of 0.  A connection may turn out to be one to itself.
Errnos == {"none", "self", "ECONNREFUSED", "EHOSTUNREACH", "ETIMEDOUT",
           "ENETDOWN", "strange"}
Sockets == Errnos \cup {"connecting"}

VARIABLES
  ping_scan,   \* USI->ping_scan: host discovery rather than a port scan
  pc,          \* "send", "select" while results are handled, or "fatal"
  sockets,     \* external: the open sockets and what SO_ERROR would say
  nextSD, fds_read, numSDs, maxValidSD,
  probes,      \* probes_outstanding of the probes that have a socket
  ready,       \* the descriptors that the last select() found ready
  tries,       \* how often each port has been tried
  reports      \* the states reported for the ports, or for the host

vars == <<ping_scan, pc, sockets, nextSD, fds_read, numSDs, maxValidSD, probes,
          ready, tries, reports>>

Init ==
  /\ ping_scan \in PingScans
  /\ pc = "send"
  /\ sockets = [sd \in {} |-> "connecting"]
  /\ nextSD = -1 /\ fds_read = {} /\ numSDs = 0 /\ maxValidSD = -1
  /\ probes = <<>> /\ ready = {}
  /\ tries = [port \in Ports |-> 0]
  /\ reports = {}

-----------------------------------------------------------------------------
(* The operating system. *)

\* The sockets with those of S closed, or with sd in the given state.
Without(S) == [sd \in DOMAIN sockets \ S |-> sockets[sd]]
With(sd, state) == [d \in DOMAIN sockets \cup {sd} |->
                      IF d = sd THEN state ELSE sockets[d]]

\* socket() gives out the lowest descriptor that is free.
NewFd == CHOOSE sd \in 0 .. Cardinality(StdFds \cup DOMAIN sockets) :
           /\ sd \notin StdFds \cup DOMAIN sockets
           /\ \A d \in 0 .. sd - 1 : d \in StdFds \cup DOMAIN sockets

\* A connection that is under way is accepted or fails.
ConnectionDone(sd, result) ==
  /\ pc = "send"
  /\ sd \in fds_read
  /\ sockets[sd] = "connecting"
  /\ result \in Errnos
  /\ sockets' = With(sd, result)
  /\ UNCHANGED <<ping_scan, pc, nextSD, fds_read, numSDs, maxValidSD, probes,
                 ready, tries, reports>>

-----------------------------------------------------------------------------
(* ConnectScanInfo. *)

\* Mutant: the descriptor is not compared with FD_SETSIZE.
SendOKAnyFd ==
  /\ pc = "send"
  /\ numSDs < maxSocketsAllowed
  /\ nextSD <= 0
  /\ nextSD' = NewFd
  /\ sockets' = With(NewFd, "connecting")
  /\ UNCHANGED <<ping_scan, pc, fds_read, numSDs, maxValidSD, probes, ready,
                 tries, reports>>
\* sendOK(), which may have to open the socket that is kept in reserve.
sendOK ==
  /\ pc = "send"
  /\ numSDs < maxSocketsAllowed
  /\ nextSD <= 0
  /\ NewFd < FD_SETSIZE
  /\ nextSD' = NewFd
  /\ sockets' = With(NewFd, "connecting")
  /\ UNCHANGED <<ping_scan, pc, fds_read, numSDs, maxValidSD, probes, ready,
                 tries, reports>>

watchSD(sd) ==
  /\ fds_read' = fds_read \cup {sd}
  /\ numSDs' = numSDs + 1
  /\ maxValidSD' = IF sd > maxValidSD THEN sd ELSE maxValidSD

\* Mutant: the limit of select() goes down with each socket.
MaxAfterEach(S) == maxValidSD - Len(S)
\* maxValidSD after clearSD() of the sockets of probes S, in the order of S.
\* Those that are not watched change nothing.
MaxAfter(S) ==
  LET max[i \in 0 .. Len(S)] ==
        IF i = 0 THEN maxValidSD
        ELSE LET m == max[i - 1]
             IN IF S[i].sd = m /\ S[i].sd \in fds_read THEN m - 1 ELSE m
  IN max[Len(S)]

Sds(S) == {S[i].sd : i \in DOMAIN S}

clearSD(S) ==
  /\ fds_read' = fds_read \ Sds(S)
  /\ numSDs' = numSDs - Cardinality(Sds(S) \cap fds_read)
  /\ maxValidSD' = MaxAfter(S)

-----------------------------------------------------------------------------
(* Probes. *)

WithoutProbe(i) == SubSeq(probes, 1, i - 1) \o SubSeq(probes, i + 1, Len(probes))

\* destroyOutstandingProbe() and markProbeTimedout(): both close the socket of
\* the i-th probe.
CloseProbe(i) ==
  /\ clearSD(<<probes[i]>>)
  /\ sockets' = Without({probes[i].sd})
  /\ probes' = WithoutProbe(i)

\* Mutant: the first probe is forgotten.
CloseAllButFirst ==
  /\ clearSD(Tail(probes))
  /\ sockets' = Without(Sds(Tail(probes)))
  /\ probes' = <<>>
\* destroyAllOutstandingProbes().
CloseAll ==
  /\ clearSD(probes)
  /\ sockets' = Without(Sds(probes))
  /\ probes' = <<>>

newportstate(errno) ==
  CASE errno = "none" -> "open"
    [] errno = "ECONNREFUSED" -> "closed"
    [] errno = "EHOSTUNREACH" -> "filtered"
    [] OTHER -> "unknown"
newhoststate(errno) ==
  CASE errno \in {"none", "self"} -> "up"
    [] errno = "ECONNREFUSED" ->
         IF discovery_ignore_rst THEN "unknown" ELSE "up"
    [] errno = "EHOSTUNREACH" -> "down"
    [] OTHER -> "unknown"

\* What handleConnectResult() reports for an error number.
Report(port, errno) ==
  LET state == IF ping_scan THEN newhoststate(errno) ELSE newportstate(errno) IN
  reports' = IF state = "unknown" THEN reports
             ELSE reports \cup {<<port, state>>}

\* Whether it closes the socket: on a report, and on a probe that is to be
\* retried.  After an error it makes nothing of it leaves the probe alone.
Retry(errno) == errno = "ETIMEDOUT" \/ (~ping_scan /\ errno = "self")
Closes(errno) ==
  \/ Retry(errno)
  \/ IF ping_scan THEN newhoststate(errno) # "unknown"
     ELSE newportstate(errno) # "unknown"

\* An open port is told from a connection to itself by getsockname().  When that
\* fails nothing is done: the probe stays as it is, and so does its socket.
AsksForName(errno) == ~ping_scan /\ errno \in {"none", "self"}

\* sendConnectScanProbe() takes the socket in reserve.  connect() is in progress
\* then, or has its result at once, in which case the probe does not stay unless
\* getsockname() fails: then it is in the list, and its socket is not watched.
Send(port) ==
  /\ pc = "send"
  /\ numSDs < maxSocketsAllowed /\ nextSD > 0
  /\ tries[port] < MaxTries
  /\ tries' = [tries EXCEPT ![port] = @ + 1]
  /\ nextSD' = -1
  /\ UNCHANGED <<ping_scan, ready>>
  /\ \/ /\ watchSD(nextSD)
        /\ probes' = Append(probes, [port |-> port, sd |-> nextSD])
        /\ UNCHANGED <<pc, sockets, reports>>
     \/ \E errno \in Errnos \ {"ENETDOWN"} :
          /\ Report(port, errno)
          /\ IF ping_scan /\ newhoststate(errno) = "up"
             THEN /\ clearSD(probes)
                  /\ sockets' = Without(Sds(probes) \cup {nextSD})
                  /\ probes' = <<>>
             ELSE /\ sockets' = Without({nextSD})
                  /\ UNCHANGED <<fds_read, numSDs, maxValidSD, probes>>
          /\ UNCHANGED pc
     \/ \E errno \in Errnos :
          /\ AsksForName(errno)
          /\ sockets' = With(nextSD, errno)
          /\ probes' = Append(probes, [port |-> port, sd |-> nextSD])
          /\ UNCHANGED <<pc, fds_read, numSDs, maxValidSD, reports>>

\* processData() finds the probe too old.
TimeOut(i) ==
  /\ pc = "send"
  /\ CloseProbe(i)
  /\ UNCHANGED <<ping_scan, pc, nextSD, ready, tries, reports>>

-----------------------------------------------------------------------------
(* do_one_select_round(): select(), then one result after the other. *)

select ==
  /\ pc = "send"
  /\ numSDs > 0
  /\ ready' = {sd \in fds_read : sd <= maxValidSD /\ sockets[sd] # "connecting"}
  /\ ready' # {}
  /\ pc' = "select"
  /\ UNCHANGED <<ping_scan, sockets, nextSD, fds_read, numSDs, maxValidSD, probes,
                 tries, reports>>

\* getsockopt(SO_ERROR) and handleConnectResult() for the i-th probe.
HandleConnectResult(i) ==
  LET sd == probes[i].sd
      errno == sockets[sd]
  IN /\ pc = "select"
     /\ sd \in ready /\ \A j \in 1 .. i - 1 : probes[j].sd \notin ready
     /\ ready' = ready \ {sd}
     /\ pc' = IF errno = "ENETDOWN" THEN "fatal" ELSE pc
     /\ \/ /\ Report(probes[i].port, errno)
           /\ IF ping_scan /\ newhoststate(errno) = "up" THEN CloseAll
              ELSE IF Closes(errno) THEN CloseProbe(i)
              ELSE /\ sockets' = With(sd, "none")
                   /\ UNCHANGED <<fds_read, numSDs, maxValidSD, probes>>
        \/ /\ AsksForName(errno)
           /\ UNCHANGED <<sockets, fds_read, numSDs, maxValidSD, probes, reports>>
     /\ UNCHANGED <<ping_scan, nextSD, tries>>

EndSelect ==
  /\ pc = "select"
  /\ Sds(probes) \cap ready = {}
  /\ pc' = "send" /\ ready' = {}
  /\ UNCHANGED <<ping_scan, sockets, nextSD, fds_read, numSDs, maxValidSD, probes,
                 tries, reports>>

Next ==
  \/ \E sd \in fds_read, result \in Errnos : ConnectionDone(sd, result)
  \/ sendOK
  \/ \E port \in Ports : Send(port)
  \/ \E i \in DOMAIN probes : TimeOut(i) \/ HandleConnectResult(i)
  \/ select
  \/ EndSelect

Spec == Init /\ [][Next]_vars

-----------------------------------------------------------------------------
(* Properties. *)

\* The fields of ConnectScanInfo (scan_engine_connect.h) and the lists have their
\* types.
TypeOK ==
  /\ ping_scan \in PingScans
  /\ pc \in {"send", "select", "fatal"}
  /\ DOMAIN sockets \subseteq Nat
  /\ \A sd \in DOMAIN sockets : sockets[sd] \in Sockets
  /\ nextSD \in Nat \cup {-1}
  /\ fds_read \subseteq Nat /\ ready \subseteq Nat
  /\ numSDs \in Nat /\ maxValidSD \in Int
  /\ probes \in Seq([port : Ports, sd : Nat])
  /\ tries \in [Ports -> 0 .. MaxTries]
  /\ reports \subseteq Ports \X {"open", "closed", "filtered", "up", "down"}

\* Each open socket has one owner, a probe or the reserve, and each owner an
\* open socket: none is leaked, closed twice or used after it was given out again.
SocketsOwned ==
  /\ DOMAIN sockets = Sds(probes) \cup ({nextSD} \ {-1})
  /\ \A i, j \in DOMAIN probes : probes[i].sd = probes[j].sd => i = j
  /\ nextSD \notin Sds(probes)

\* select() is asked about sockets of probes only, and about all of them but
\* those that were connected at once and whose name getsockname() could not tell;
\* it looks at all it is asked about, and numSDs, which limits new sockets,
\* counts them.
WatchesExactly ==
  /\ fds_read \subseteq Sds(probes)
  /\ \A sd \in Sds(probes) \ fds_read : AsksForName(sockets[sd])
  /\ numSDs = Cardinality(fds_read)
  /\ \A sd \in fds_read : sd <= maxValidSD

\* No descriptor is out of the bounds of an fd_set, also with sockets open that
\* numSDs does not count, and no more sockets than allowed are watched.
SocketsBounded ==
  /\ \A sd \in DOMAIN sockets : sd < FD_SETSIZE
  /\ numSDs <= maxSocketsAllowed
=============================================================================
