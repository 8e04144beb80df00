------------------------------- MODULE MCTiming -------------------------------
(***************************************************************************)
(* Constants for model checking Timing.                                    *)
(***************************************************************************)
EXTENDS Timing

\* A clock that was set back by more than the code corrects, one that it corrects to a
\* short round trip, and a long round trip, which after a short one is taken for bogus.
Samples == {-60000, -20000, 7900000}
===============================================================================
