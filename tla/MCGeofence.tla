------------------------------ MODULE MCGeofence ------------------------------
(* GeofenceRequests on small instances: an admin, and a manager who becomes  *)
(* one and is demoted again.                                                 *)
EXTENDS GeofenceRequests, TLC

CONSTANTS m1, a1

MCCareer == [u \in User |-> IF u = m1 THEN {"Manager", "Co Admin"} ELSE {"Tenant Admin"}]
MCProposable == {[center |-> "north", radius |-> 20]}
MCEditable == {[center |-> "office", radius |-> 20], [center |-> "office", radius |-> 30]}

Symmetry == Permutations(PropId) \cup Permutations(Server)
=============================================================================
