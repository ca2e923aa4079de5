------------------------------ MODULE WeekPlans ------------------------------
(***************************************************************************)
(* The week that a property's manager plans (app/services/                 *)
(* scheduling_service.py): employees say when they are away, get a weekly  *)
(* schedule and shifts in it, and the manager sees who is planned while    *)
(* away and who could step in.  Composed with the replacements on those    *)
(* shifts.  There is one week, and no caller without a property, whom the  *)
(* tables' NOT NULL property_id refuses.                                   *)
(***************************************************************************)
EXTENDS Replacements, Integers

CONSTANTS
    Moment,      \* the days of the week, each at a time of day: 1, 2, ...
    Department,
    Works,       \* Works[e]: the department of an employee
    Match,       \* Match[e]: points for the position and the skills of an employee
    Suggested,   \* max_recommendations
    Opening,     \* bound: statuses that schedules are made with
    MaxEdits     \* bound: what happens besides shifts and replacements

VARIABLES
    staff,     \* employees, who are there from the start: is_active and deleted_at
    absence,   \* employee_availability: the status for an employee and a moment
    week,      \* weekly_schedules: the status of each employee's schedule
    roster,    \* each shift's schedule, named by its employee, and its moment
    edits

planned == <<staff, absence, week, roster, edits>>
wvars == <<shift, rr, notice, planner, posted, staff, absence, week, roster, edits>>

EmployeeRow == [is_active : BOOLEAN, deleted : BOOLEAN]
AvailabilityStatus == {"available", "off", "leave", "sick", "holiday"}
WeeklySchedule == {"draft", "assigned", "published", "completed"}
ShiftSlot == [of : Employee, at : Moment]

ASSUME WeekPlansAssumption ==
    /\ Null \notin AvailabilityStatus \cup WeeklySchedule \cup ShiftSlot
    /\ Opening \subseteq WeeklySchedule
    /\ MaxEdits \in Nat

WTypeOK ==
    /\ PTypeOK
    /\ staff \in [Employee -> EmployeeRow]
    /\ absence \in [Employee -> [Moment -> AvailabilityStatus \cup {Null}]]
    /\ week \in [Employee -> WeeklySchedule \cup {Null}]
    /\ roster \in [Shift -> ShiftSlot \cup {Null}]
    /\ \A s \in Shift : (roster[s] = Null) = (shift[s].status = "none")
    /\ edits \in 0 .. MaxEdits

\* A day off and some schedules may be there before the first shift.
WInit ==
    /\ PInit
    /\ staff = [e \in Employee |-> [is_active |-> TRUE, deleted |-> FALSE]]
    /\ absence \in [Employee -> [Moment -> {Null, "off"}]]
    /\ Cardinality({a \in Employee \X Moment : absence[a[1]][a[2]] # Null}) =< 1
    /\ week \in [Employee -> {Null} \cup Opening]
    /\ roster = [s \in Shift |-> Null]
    /\ edits = 0

-----------------------------------------------------------------------------
(* Employees. *)

Edit ==
    /\ edits < MaxEdits
    /\ edits' = edits + 1
    /\ UNCHANGED <<shift, rr, notice, planner, posted, roster>>

\* update_employee does not look at deleted_at, nor does delete_employee.
UpdateEmployee(e, active) ==
    /\ Edit
    /\ staff' = [staff EXCEPT ![e].is_active = active]
    /\ UNCHANGED <<absence, week>>

\* A deleted employee stays active.
DeleteEmployee(e) ==
    /\ Edit
    /\ staff' = [staff EXCEPT ![e].deleted = TRUE]
    /\ UNCHANGED <<absence, week>>

-----------------------------------------------------------------------------
(* Availability, which is made and never changed. *)

\* A row of the employee for each moment.
Recorded(e, S, status) ==
    [absence EXCEPT ![e] = [m \in Moment |-> IF m \in S THEN status ELSE @[m]]]

\* Mutant: the last row counts.
CreateAvailabilityAnew(e, m, status) ==
    /\ Edit
    /\ absence' = Recorded(e, {m}, status)
    /\ UNCHANGED <<staff, week>>

\* uq_employee_availability_date refuses a second row for the moment.
CreateAvailability(e, m, status) ==
    /\ Edit
    /\ absence[e][m] = Null
    /\ absence' = Recorded(e, {m}, status)
    /\ UNCHANGED <<staff, week>>

\* A row for every day, or none if one of them is refused.
BulkCreateAvailability(e, from, to, status) ==
    /\ Edit
    /\ \A m \in from .. to : absence[e][m] = Null
    /\ absence' = Recorded(e, from .. to, status)
    /\ UNCHANGED <<staff, week>>

Away(e, m) == absence[e][m] \in {"off", "leave", "sick", "holiday"}

-----------------------------------------------------------------------------
(* Schedules and shifts. *)

Scheduled(es, status) == [e \in Employee |-> IF e \in es THEN status ELSE week[e]]

\* uq_employee_weekly_schedule refuses a second schedule for the week.
CreateSchedule(e, status) ==
    /\ Edit
    /\ week[e] = Null
    /\ week' = Scheduled({e}, status)
    /\ UNCHANGED <<staff, absence>>

BulkCreateSchedules(es) ==
    /\ Edit
    /\ \A e \in es : week[e] = Null
    /\ week' = Scheduled(es, "draft")
    /\ UNCHANGED <<staff, absence>>

PublishSchedule(e) ==
    /\ Edit
    /\ week[e] # Null
    /\ week' = [week EXCEPT ![e] = "published"]
    /\ UNCHANGED <<staff, absence>>

\* A shift of any employee in any schedule.
PostShift(s, e, of, m, status) ==
    /\ week[of] # Null
    /\ CreateShift(s, e, status)
    /\ roster' = [roster EXCEPT ![s] = [of |-> of, at |-> m]]
    /\ UNCHANGED <<staff, absence, week, edits>>

Replaces == PAfter /\ UNCHANGED planned

WNext ==
    \/ Replaces
    \/ \E s \in Shift, e, of \in Employee, m \in Moment, status \in Posted : PostShift(s, e, of, m, status)
    \/ \E e \in Employee :
          \/ DeleteEmployee(e) \/ PublishSchedule(e)
          \/ \E active \in BOOLEAN : UpdateEmployee(e, active)
          \/ \E status \in Opening : CreateSchedule(e, status)
          \/ \E status \in {"available", "off"} :
                \/ \E m \in Moment : CreateAvailability(e, m, status)
                \/ \E from, to \in Moment : from < to /\ BulkCreateAvailability(e, from, to, status)
    \/ \E es \in SUBSET Employee : es # {} /\ BulkCreateSchedules(es)

WSpec == WInit /\ [][WNext]_wvars

-----------------------------------------------------------------------------
(* What the manager sees. *)

\* detect_schedule_conflicts: shifts of the schedule whose employee is away.
Conflicts(of) ==
    {s \in Shift : roster[s] # Null /\ roster[s].of = of /\ Away(shift[s].on, roster[s].at)}

\* The critical actions of the dashboard.
Critical == UNION {Conflicts(e) : e \in {e \in Employee : week[e] \in {"assigned", "published"}}}

\* get_available_employees looks at is_active only.
AvailableEmployees(m, department) ==
    {e \in Employee :
        /\ staff[e].is_active
        /\ department \in {Null, Works[e]}
        /\ absence[e][m] \in {Null, "available"}}

\* calculate_compatibility_score.
Compatibility(e, original) == 50 + Match[e] + (IF Works[e] = Works[original] THEN 20 ELSE 0)

\* get_ai_recommendations: the best, in any order among equals.
Recommended(original, m, department) ==
    LET candidates == AvailableEmployees(m, department) \ {original}
        above(e) == {f \in candidates : Compatibility(f, original) > Compatibility(e, original)}
    IN  {e \in candidates : Cardinality(above(e)) < Suggested}

-----------------------------------------------------------------------------

\* An alarm on the dashboard stays until the shift is given to somebody else,
\* and goes when that is one of those who were recommended for it.
Answers ==
    \A s \in Critical :
        /\ s \in Critical' \/ shift'[s].on # shift[s].on
        /\ \A d \in Department \cup {Null} :
              shift'[s].on \in Recommended(shift[s].on, roster[s].at, d) => s \notin Critical'

AlarmsAnswered == [][Answers]_wvars
=============================================================================
