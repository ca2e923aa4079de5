----------------------------- MODULE MCPunchClock -----------------------------
(* PunchClock and its reports on a small instance. *)
EXTENDS ShiftReports, TLC

\* Accepted with and without accuracy, too inaccurate, too far.
MCLocation == {[distance |-> 1, accuracy |-> None], [distance |-> 3, accuracy |-> 2],
               [distance |-> 1, accuracy |-> 4], [distance |-> 3, accuracy |-> 1]}

Symmetry == Permutations(RecId) \cup Permutations(Req)
=============================================================================
