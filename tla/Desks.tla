--------------------------------- MODULE Desks ---------------------------------
(***************************************************************************)
(* The handlers of the smaller components.  A desk serves one request      *)
(* after another: its handler loads rows, decides on what it loaded, and   *)
(* commits in a later step.                                                *)
(***************************************************************************)
EXTENDS Rows

CONSTANT
    Desk   \* requests in progress at the same time

Vacant == [pc |-> "idle"]
=============================================================================
