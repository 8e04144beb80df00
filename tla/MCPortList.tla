----------------------------- MODULE MCPortList -----------------------------
(***************************************************************************)
(* The instance of PortList for TLC.                                       *)
(***************************************************************************)
EXTENDS PortList

\* Two TCP ports, a UDP port, and an SCTP port with the number of a TCP port.
FourPorts == [proto \in Protos |-> CASE proto = "tcp" -> {22, 80}
                                     [] proto = "udp" -> {53}
                                     [] proto = "sctp" -> {22}]

\* Scans of one protocol after another, in the order of nmap_main().
SomeScans == {<<"syn", "udp">>, <<"ack", "udp_ratelimit">>, <<"window">>,
              <<"init", "cookie_echo">>, <<"fin", "init">>, <<"udp", "bounce">>}
=============================================================================
