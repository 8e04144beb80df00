-------------------------- MODULE UltraScanPromise --------------------------
(***************************************************************************)
(* The probe engine keeps the promise of ultra_scan().                     *)
(***************************************************************************)
EXTENDS UltraScan

\* How far the engine is with a host, by the set the host is in.  A completed
\* host whose clock is at "expired" ran out of time.
Stage(h) == CASE h \in incompleteHosts -> "scanning"
              [] h \in completedHosts -> IF toclock[h] = "expired"
                                         THEN "timedout" ELSE "finished"
              [] OTHER -> "forgotten"

Promise == INSTANCE ScanPromise WITH
  MaxRetries <- TrynoCap,
  discovery  <- ping_scan,
  stage      <- [h \in Hosts |-> Stage(h)],
  finding    <- result,
  verdict    <- flags,
  best       <- max_successful_tryno,
  over       <- pc = "done"

\* Every run of the loop of ultra_scan(), with its retransmissions, bench, retry
\* stack, pings and late answers, is one that ScanPromise allows: no port is
\* left without a finding by a host that retires in time, none is given up
\* before its last try, no answer is lost to silence, discovery ends with a
\* verdict, and nothing is learned from a host that was forgotten.
KeepsPromise == Promise!Spec
=============================================================================
