---------------------------- MODULE Replacements -----------------------------
(***************************************************************************)
(* Shifts and the requests to replace somebody on them                     *)
(* (app/services/scheduling_service.py).  A request is accepted, rejected  *)
(* or assigned in any order: no handler looks at its status.  A handler    *)
(* loads the request and its shift in one step and commits in another; the *)
(* commit writes the columns that differ from what was loaded.             *)
(***************************************************************************)
EXTENDS FiniteSets, Desks

CONSTANTS
    Employee,
    Login,     \* employees with a login, who can be notified
    Shift,     \* rows of shift_assignments
    Request,   \* rows of replacement_requests
    Posted     \* bound: the statuses that shifts are posted with

ShiftStatus == {"scheduled", "off", "conflict", "covered"}

ASSUME ReplacementsAssumption == Null \notin Employee /\ Posted \subseteq ShiftStatus

VARIABLES
    shift,   \* the shift assignments
    rr,      \* the replacement requests
    notice,  \* for each request, who has an open "shift_reassigned" inbox item
    planner, \* the handlers in progress
    posted   \* history: the shifts that were posted as covered

pvars == <<shift, rr, notice, planner, posted>>

ShiftRow == [on : Employee \cup {Null}, status : {"none"} \cup ShiftStatus]
RequestRow == [of : Shift \cup {Null}, status : {"none", "pending", "accepted", "rejected", "assigned"},
               repl : Employee \cup {Null}]

Planner ==
    {Vacant}
    \cup [pc : {"accept", "reject", "assign"}, r : Request, who : Employee, loaded : RequestRow, slot : ShiftRow]

PTypeOK ==
    /\ shift \in [Shift -> ShiftRow]
    /\ rr \in [Request -> RequestRow]
    /\ notice \in [Request -> SUBSET Login]
    /\ planner \in [Desk -> Planner]
    /\ posted \subseteq Shift

PInit ==
    /\ shift = [s \in Shift |-> [on |-> Null, status |-> "none"]]
    /\ rr = [r \in Request |-> [of |-> Null, status |-> "none", repl |-> Null]]
    /\ notice = [r \in Request |-> {}]
    /\ planner = [k \in Desk |-> Vacant]
    /\ posted = {}

-----------------------------------------------------------------------------

\* create_shift_assignment, with whatever status the client gives.
CreateShift(s, e, status) ==
    /\ shift[s].status = "none"
    /\ shift' = [shift EXCEPT ![s] = [on |-> e, status |-> status]]
    /\ posted' = IF status = "covered" THEN posted \cup {s} ELSE posted
    /\ UNCHANGED <<rr, notice, planner>>

\* create_replacement_request, for any shift and with or without a candidate.
CreateRequest(r, s, candidate) ==
    /\ shift[s].status # "none" /\ rr[r].status = "none"
    /\ rr' = [rr EXCEPT ![r] = [of |-> s, status |-> "pending", repl |-> candidate]]
    /\ UNCHANGED <<shift, notice, planner, posted>>

\* Loads the request and its shift.
Loads(k, pc, r, e) ==
    /\ planner[k] = Vacant /\ rr[r].status # "none"
    /\ planner' = [planner EXCEPT ![k] = [pc |-> pc, r |-> r, who |-> e, loaded |-> rr[r],
                                    slot |-> shift[rr[r].of]]]
    /\ UNCHANGED <<shift, rr, notice, posted>>

AcceptLoads(k, r, e) == Loads(k, "accept", r, e)
RejectLoads(k, r, e) == Loads(k, "reject", r, e)
DirectAssignLoads(k, r, e) == Loads(k, "assign", r, e)

Saves(k, request, slot) ==
    LET d == planner[k]
    IN  /\ rr' = [rr EXCEPT ![d.r] = Written(@, d.loaded, request)]
        /\ shift' = [shift EXCEPT ![d.loaded.of] = Written(@, d.slot, slot)]
        /\ planner' = [planner EXCEPT ![k] = Vacant]
        /\ UNCHANGED posted

\* accept_replacement_request: the shift is covered, its employee stays.
AcceptSaves(k) ==
    LET d == planner[k]
    IN  /\ d.pc = "accept"
        /\ Saves(k, [d.loaded EXCEPT !.status = "accepted", !.repl = d.who],
                    [d.slot EXCEPT !.status = "covered"])
        /\ UNCHANGED notice

\* Mutant: a rejection also clears the candidate.
RejectClears(k) ==
    LET d == planner[k]
    IN  /\ d.pc = "reject"
        /\ Saves(k, [d.loaded EXCEPT !.status = "rejected", !.repl = Null], d.slot)
        /\ UNCHANGED notice

RejectSaves(k) ==
    LET d == planner[k]
    IN  /\ d.pc = "reject"
        /\ Saves(k, [d.loaded EXCEPT !.status = "rejected"], d.slot)
        /\ UNCHANGED notice

\* Who may have an open item about r after e was assigned: the item of a
\* previous replacement is closed, and a new one is made unless one is open or
\* the notification fails, which the assignment survives.
Notified(r, previous, e) ==
    LET kept == IF previous \notin {Null, e} THEN {} ELSE notice[r]
    IN  {kept} \cup {{f} : f \in IF kept = {} THEN {e} \cap Login ELSE {}}

\* direct_assign_replacement.
DirectAssignSaves(k) ==
    LET d == planner[k]
    IN  /\ d.pc = "assign"
        /\ Saves(k, [d.loaded EXCEPT !.status = "assigned", !.repl = d.who],
                    [on |-> d.who, status |-> "covered"])
        /\ \E items \in Notified(d.r, d.loaded.repl, d.who) : notice' = [notice EXCEPT ![d.r] = items]

\* The employee dismisses the item.
PDismiss(r) ==
    /\ notice[r] # {}
    /\ notice' = [notice EXCEPT ![r] = {}]
    /\ UNCHANGED <<shift, rr, planner, posted>>

PAbandon(k) ==
    /\ planner[k] # Vacant
    /\ planner' = [planner EXCEPT ![k] = Vacant]
    /\ UNCHANGED <<shift, rr, notice, posted>>

\* Everything that happens to shifts and requests once there is a shift.
PAfter ==
    \/ \E r \in Request, s \in Shift, e \in Employee \cup {Null} : CreateRequest(r, s, e)
    \/ \E k \in Desk, r \in Request, e \in Employee :
          AcceptLoads(k, r, e) \/ RejectLoads(k, r, e) \/ DirectAssignLoads(k, r, e)
    \/ \E k \in Desk : AcceptSaves(k) \/ RejectSaves(k) \/ DirectAssignSaves(k) \/ PAbandon(k)
    \/ \E r \in Request : PDismiss(r)

PNext == PAfter \/ \E s \in Shift, e \in Employee, status \in Posted : CreateShift(s, e, status)

PSpec == PInit /\ [][PNext]_pvars

-----------------------------------------------------------------------------
(* Properties. *)

\* Whatever was accepted, rejected and assigned in whatever order and overlap: a
\* shift that became covered, and was not posted so, has a request that names a
\* replacement; and a request that ends accepted or assigned names one, and has
\* its shift covered.
CoveredHasReplacement ==
    /\ \A s \in Shift : shift[s].status = "covered" =>
          s \in posted \/ \E r \in Request : rr[r].of = s /\ rr[r].repl # Null
    /\ \A r \in Request : rr[r].status \in {"accepted", "assigned"} =>
          rr[r].repl # Null /\ shift[rr[r].of].status = "covered"
=============================================================================
