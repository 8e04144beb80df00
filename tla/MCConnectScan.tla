---------------------------- MODULE MCConnectScan ----------------------------
(***************************************************************************)
(* Constants for model checking ConnectScan.                               *)
(***************************************************************************)
EXTENDS ConnectScan, TLC

\* Nothing in ConnectScan tells one port from another.
PortSymmetry == Permutations(Ports)
==============================================================================
