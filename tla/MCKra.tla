-------------------------------- MODULE MCKra --------------------------------
(* KraTasks on small instances: some clients are a day ahead of UTC. *)
EXTENDS KraTasks, TLC

MCSkew == {0, 1}
Symmetry == Permutations(Slot) \cup Permutations(AssignId)
=============================================================================
