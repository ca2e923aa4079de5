----------------------------- MODULE MCCorrections -----------------------------
(* AttendanceCorrections and the reports on small instances: a member of staff *)
(* and a manager who leaves, or somebody promoted and demoted and an admin.     *)
EXTENDS ShiftRefinement, ShiftReports, TLC

CONSTANTS s1, m1

MCLocation == {[distance |-> 1, accuracy |-> None], [distance |-> 3, accuracy |-> 1]}

LeavingManager == [u \in User |-> IF u = s1 THEN {"Staff"} ELSE {"Manager", None}]
PromotedStaff == [u \in User |-> IF u = s1 THEN {"Staff", "Manager"} ELSE {"Tenant Admin"}]

Symmetry == Permutations(RecId) \cup Permutations(CorrId) \cup Permutations(CReq)
================================================================================
