------------------------------- MODULE MCMassDns -------------------------------
(* Instances of MassDns for TLC. *)
EXTENDS MassDns

\* A server that is alone is tried more often, as in default_read_timeouts.
MoreTriesAlone == [n \in 1 .. MaxServers |-> IF n = 1 THEN 2 ELSE 1]
================================================================================
