----------------------------- MODULE FrontOffice -----------------------------
(***************************************************************************)
(* The front office: rooms and bookings, and the parts beside them that    *)
(* share no table with them or with each other.  A behaviour is one of one *)
(* part: the scene says of which.                                          *)
(***************************************************************************)
EXTENDS RoomBookings, Inventory, WeekPlans, Complaints, SopTasks, GeofenceRequests, Reservations

VARIABLE scene

\* The parts that a behaviour is not of stay as they are at first.
FInit ==
    /\ scene \in {"rooms", "stock", "shifts", "weeks", "complaints", "training", "fence", "channel"}
    /\ RInit
    /\ IInit /\ (scene # "stock" => item.quantity = 0 /\ item.reorder = Null)
    /\ WInit /\ (scene # "weeks" => \A e \in Employee : week[e] = Null /\ \A m \in Moment : absence[e][m] = Null)
    /\ LInit /\ SInit /\ GInit
    /\ VInit /\ (scene # "channel" => provider = "mews" /\ \A x \in Ext : pms[x] = Null)

FNext ==
    /\ UNCHANGED scene
    /\ \/ scene = "rooms" /\ RNext /\ UNCHANGED <<ivars, wvars, lvars, sopvars, gvars, vvars>>
       \/ scene = "stock" /\ INext /\ UNCHANGED <<rvars, wvars, lvars, sopvars, gvars, vvars>>
       \/ scene = "shifts" /\ PNext /\ UNCHANGED <<rvars, ivars, planned, lvars, sopvars, gvars, vvars>>
       \/ /\ scene = "weeks" /\ WNext /\ UNCHANGED <<rvars, ivars, lvars, sopvars, gvars, vvars>>
          /\ \E k \in Desk : planner'[k] = Vacant   \* bound: one replacement request at a time
       \/ scene = "complaints" /\ LNext /\ UNCHANGED <<rvars, ivars, wvars, sopvars, gvars, vvars>>
       \/ scene = "training" /\ SNext /\ UNCHANGED <<rvars, ivars, wvars, lvars, gvars, vvars>>
       \/ scene = "fence" /\ GNext /\ UNCHANGED <<rvars, ivars, wvars, lvars, sopvars, vvars>>
       \/ scene = "channel" /\ VNext /\ UNCHANGED <<rvars, ivars, wvars, lvars, sopvars, gvars>>

FSpec == FInit /\ [][FNext]_<<scene, rvars, ivars, wvars, lvars, sopvars, gvars, vvars>>

\* Every part keeps its types.
TypesOK ==
    CASE scene = "rooms" -> RTypeOK
      [] scene = "stock" -> ITypeOK
      [] scene = "shifts" -> PTypeOK
      [] scene = "weeks" -> WTypeOK
      [] scene = "complaints" -> LTypeOK
      [] scene = "training" -> STypeOK
      [] scene = "fence" -> GTypeOK
      [] scene = "channel" -> VTypeOK
=============================================================================
