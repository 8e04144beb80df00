---------------------------- MODULE MCServiceScan ----------------------------
(***************************************************************************)
(* Constants for model checking ServiceScan: a small nmap-service-probes   *)
(* file and one group of services.                                        *)
(***************************************************************************)
EXTENDS ServiceScan

\* A common TCP probe, a rare one for the port of the TLS service that falls back
\* on it, and a UDP probe.
SomeProbes == <<
  [proto |-> "tcp", ports |-> {80}, sslports |-> {443}, rarity |-> 1,
   services |-> {"http"}, fallback |-> {}, notForPayload |-> FALSE],
  [proto |-> "tcp", ports |-> {443}, sslports |-> {}, rarity |-> 9,
   services |-> {"ssl", "ssl/http"}, fallback |-> {1}, notForPayload |-> FALSE],
  [proto |-> "udp", ports |-> {53}, sslports |-> {}, rarity |-> 1,
   services |-> {"domain"}, fallback |-> {}, notForPayload |-> FALSE] >>

InnerNames == [n \in {"ssl/http"} |-> "http"]

\* A TLS port and a silent UDP port of one host; a printer port, which is excluded,
\* and the same UDP port of another.
TwoHosts == <<
  [host |-> 1, proto |-> "tcp", port |-> 443, open |-> TRUE],
  [host |-> 1, proto |-> "udp", port |-> 53, open |-> FALSE],
  [host |-> 2, proto |-> "tcp", port |-> 9100, open |-> TRUE],
  [host |-> 2, proto |-> "udp", port |-> 53, open |-> TRUE] >>

\* The Exclude directive of nmap-service-probes.
PrinterPorts == {<<9100, "tcp">>}
================================================================================
