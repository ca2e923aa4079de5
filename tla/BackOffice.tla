----------------------------- MODULE BackOffice ------------------------------
(***************************************************************************)
(* The back office: assigned KRA tasks, and the parts beside them that     *)
(* share no table with them or with each other.  A behaviour is one of one *)
(* part: the scene says of which.                                          *)
(***************************************************************************)
EXTENDS KraTasks, Documents, Subscriptions, Accounts, Invitations, Ranking, KraForms

CONSTANT Uploader  \* bound: who uploads the document where nothing happens to it

VARIABLE scene

\* The parts that a behaviour is not of stay as they are at first.
BInit ==
    /\ scene \in {"kra", "documents", "plans", "ranks", "forms", "access", "invites"}
    /\ KInit /\ (scene # "kra" => def.freq = "daily")
    /\ DInit /\ (scene # "documents" => doc.uploader = Uploader)
    /\ SInit /\ NInit
    /\ IF scene = "access" THEN AInit ELSE Registered /\ lobby = [k \in Desk |-> Vacant]
    /\ WInit /\ FInit

BNext ==
    /\ UNCHANGED scene
    /\ \/ scene = "kra" /\ KNext /\ UNCHANGED <<dvars, svars, wvars, fvars, avars, ivars>>
       \/ scene = "documents" /\ DNext /\ UNCHANGED <<kvars, svars, wvars, fvars, avars, ivars>>
       \/ scene = "plans" /\ SNext /\ UNCHANGED <<kvars, dvars, wvars, fvars, avars, ivars>>
       \/ scene = "ranks" /\ WNext /\ UNCHANGED <<kvars, dvars, svars, fvars, avars, ivars>>
       \/ scene = "forms" /\ FNext /\ UNCHANGED <<kvars, dvars, svars, wvars, avars, ivars>>
       \/ scene = "access" /\ ANext /\ UNCHANGED <<kvars, dvars, svars, wvars, fvars, ivars>>
       \/ scene = "invites" /\ NNext /\ UNCHANGED <<kvars, dvars, svars, wvars, fvars, avars>>

BSpec == BInit /\ [][BNext]_<<scene, kvars, dvars, svars, wvars, fvars, avars, ivars>>

\* Every part keeps its types.
TypesOK ==
    CASE scene = "kra" -> KTypeOK
      [] scene = "documents" -> DTypeOK
      [] scene = "plans" -> STypeOK
      [] scene = "ranks" -> WTypeOK
      [] scene = "forms" -> FTypeOK
      [] scene = "access" -> ATypeOK
      [] scene = "invites" -> NTypeOK
=============================================================================
