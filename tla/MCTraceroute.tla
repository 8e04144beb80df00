----------------------------- MODULE MCTraceroute -----------------------------
(***************************************************************************)
(* Constants for model checking Traceroute.                                *)
(***************************************************************************)
EXTENDS Traceroute

\* Two remote targets in one group, and one after the other with a group of a
\* directly connected target between them.
TwoGroupings == {<<{1, 2}>>, <<{1}, {3}, {2}>>}

\* OS detection has measured the distance of the second target, too large.
OneGuess == [h \in Hosts |-> IF h = 2 THEN {9} ELSE {-1}]

\* Both targets are three hops away, behind the same first router; the second one
\* behind either of two second routers.
SharedRoute ==
  [h \in Hosts |->
     [t \in TTLs |-> CASE t = 1 -> {11} [] t = 2 -> {12, 10 * h + 2} [] OTHER -> {h}]]

\* Two targets four hops away behind the same three routers.
OneGroup == {<<{1, 2}>>}
NoGuess == [h \in Hosts |-> {-1}]
OneRoute == [h \in Hosts |-> [t \in TTLs |-> IF t < 4 THEN {10 + t} ELSE {h}]]
===============================================================================
