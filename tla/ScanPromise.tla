---------------------------- MODULE ScanPromise ----------------------------
(***************************************************************************)
(* What ultra_scan() promises to its callers, port scans and host          *)
(* discovery alike, without a word about probes, windows, benches, pings   *)
(* or clocks: what may become known of a host and its ports and when, and  *)
(* when the engine may turn away from a host.  UltraScanPromise shows that *)
(* the engine keeps the promise.                                           *)
(***************************************************************************)
EXTENDS Integers

CONSTANTS
  Hosts, Ports,
  MaxRetries    \* --max-retries

\* What is known of a port: nothing, that it answered, that it cannot be asked,
\* or the number of the last of the tries that it left without an answer.
Failed   == -3
Nothing  == -2
Answered == -1

VARIABLES
  discovery,    \* whether this is host discovery rather than a port scan
  stage,        \* how far the scan is with a host
  finding,      \* what is known of each port
  verdict,      \* what host discovery says of a host
  best,         \* the last try to which a host has given a useful answer
  over

vars == <<discovery, stage, finding, verdict, best, over>>

Init ==
  /\ discovery \in BOOLEAN
  /\ stage \in [Hosts -> {"scanning", "forgotten"}]
  /\ discovery => \A h \in Hosts : stage[h] = "scanning"
  /\ finding = [h \in Hosts |-> [port \in Ports |-> Nothing]]
  /\ verdict = [h \in Hosts |-> "UNKNOWN"]
  /\ best = [h \in Hosts |-> 0]
  /\ over = \A h \in Hosts : stage[h] # "scanning"

\* An answer is heard as long as the host is remembered, also when it was
\* given up or finished before.  It overrides silence; a host once seen up
\* stays up.  Only a port scan learns from it how often ports have to be tried.
Hear(h) ==
  /\ ~over /\ stage[h] # "forgotten"
  /\ \/ UNCHANGED finding
     \/ \E port \in Ports : finding' = [finding EXCEPT ![h][port] = Answered]
  /\ \/ UNCHANGED verdict
     \/ /\ discovery /\ verdict[h] # "UP"
        /\ \E v \in {"UP", "DOWN"} : verdict' = [verdict EXCEPT ![h] = v]
  /\ \/ UNCHANGED best
     \/ /\ ~discovery
        /\ \E t \in 0 .. 127 : t > best[h] /\ best' = [best EXCEPT ![h] = t]
  /\ UNCHANGED <<discovery, stage, over>>

\* A port cannot be asked: connect() fails for a reason that is no answer.
Fail(h, port) ==
  /\ ~over /\ stage[h] = "scanning"
  /\ finding[h][port] = Nothing
  /\ finding' = [finding EXCEPT ![h][port] = Failed]
  /\ UNCHANGED <<discovery, stage, verdict, best, over>>

\* The last try a silent port is given: one more than what has worked for
\* another port of the host, but no more than the user allows.
LastTry(h) == IF best[h] + 1 > MaxRetries THEN MaxRetries ELSE best[h] + 1

\* Silent ports are given up, each after as many tries as the host deserves at
\* that time.  In host discovery silence means down, unless an answer came.
GiveUp(h, silent) ==
  /\ ~over /\ stage[h] = "scanning"
  /\ \A port \in silent : finding[h][port] = Nothing
  /\ finding' = [finding EXCEPT ![h] = [port \in Ports |->
                   IF port \in silent THEN LastTry(h) ELSE @[port]]]
  /\ verdict' = [verdict EXCEPT ![h] =
                   IF discovery /\ @ # "UP" THEN "DOWN" ELSE @]
  /\ UNCHANGED <<discovery, stage, best, over>>

\* A host is finished once there is a finding for each of its ports, or a
\* verdict, or no way to ask it.
Finish(h) ==
  /\ stage[h] = "scanning"
  /\ IF discovery
     THEN verdict[h] # "UNKNOWN" \/ \A port \in Ports : finding[h][port] = Failed
     ELSE \A port \in Ports : finding[h][port] # Nothing
  /\ stage' = [stage EXCEPT ![h] = "finished"]
  /\ UNCHANGED <<discovery, finding, verdict, best, over>>

\* --host-timeout, for port scans only.
RunOut(h) ==
  /\ ~discovery /\ stage[h] = "scanning"
  /\ stage' = [stage EXCEPT ![h] = "timedout"]
  /\ UNCHANGED <<discovery, finding, verdict, best, over>>

Forget(h) ==
  /\ stage[h] \in {"finished", "timedout"}
  /\ stage' = [stage EXCEPT ![h] = "forgotten"]
  /\ UNCHANGED <<discovery, finding, verdict, best, over>>

\* ultra_scan() returns when, and only when, it is through with every host.
Return ==
  /\ ~over /\ \A h \in Hosts : stage[h] # "scanning"
  /\ over' = TRUE
  /\ UNCHANGED <<discovery, stage, finding, verdict, best>>

Next ==
  \/ \E h \in Hosts :
       \/ Hear(h) \/ Finish(h) \/ RunOut(h) \/ Forget(h)
       \/ \E port \in Ports : Fail(h, port)
       \/ \E silent \in SUBSET Ports : GiveUp(h, silent)
  \/ Return

Spec == Init /\ [][Next]_vars
=============================================================================
