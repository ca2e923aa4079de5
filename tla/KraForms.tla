------------------------------- MODULE KraForms -------------------------------
(***************************************************************************)
(* The daily, weekly, monthly and quarterly KRA forms that users fill in   *)
(* (app/services/kra_service.py, app/api/v1/endpoints/kra.py) and the      *)
(* compliance figure computed from the daily ones.  The four tables have   *)
(* the same life cycle and no unique index on the period of a form: a      *)
(* request that creates one checks first, and only its commit inserts.     *)
(***************************************************************************)
EXTENDS Integers, FiniteSets, Sequences, Desks

CONSTANTS
    Author,   \* users who fill in forms
    Manager,     \* those with a role in KRA_MANAGER_ROLES
    FormPeriod,   \* dates, weeks, months or quarters: consecutive integers
    MaxForms   \* bound: number of forms

VARIABLES
    form,     \* the rows of the four tables, in the order of their insertion
    filler    \* the handlers in progress

fvars == <<form, filler>>

Kind == {"daily", "weekly", "monthly", "quarterly"}
DailyKRA == [kind : {"daily"}, user : Author, period : FormPeriod, edited : BOOLEAN, deleted : BOOLEAN]
WeeklyKRA == [kind : {"weekly"}, user : Author, period : FormPeriod, edited : BOOLEAN, deleted : BOOLEAN]
MonthlyKRA == [kind : {"monthly"}, user : Author, period : FormPeriod, edited : BOOLEAN, deleted : BOOLEAN]
QuarterlyKRA == [kind : {"quarterly"}, user : Author, period : FormPeriod, edited : BOOLEAN, deleted : BOOLEAN]

ASSUME KraFormsAssumption == FormPeriod \subseteq Int /\ MaxForms \in Nat

FTypeOK ==
    /\ form \in Seq(DailyKRA \cup WeeklyKRA \cup MonthlyKRA \cup QuarterlyKRA) /\ Len(form) =< MaxForms
    /\ filler \in [Desk ->
          {Vacant}
          \cup [pc : {"create"}, kind : Kind, user : Author, period : FormPeriod]
          \cup [pc : {"update", "delete"}, row : 1 .. MaxForms]]

FInit == form = <<>> /\ filler = [k \in Desk |-> Vacant]

-----------------------------------------------------------------------------

Live(kind) == {i \in DOMAIN form : form[i].kind = kind /\ ~form[i].deleted}
Same(kind, u, p) == {i \in Live(kind) : form[i].user = u /\ form[i].period = p}

FGoto(k, t) == filler' = [filler EXCEPT ![k] = t]

\* A form of the period answers 409, and two of them make the query fail.
Checks(k, kind, u, p) ==
    /\ filler[k] = Vacant
    /\ Same(kind, u, p) = {}
    /\ FGoto(k, [pc |-> "create", kind |-> kind, user |-> u, period |-> p])
    /\ UNCHANGED form

CreateDaily(k, u, p) == Checks(k, "daily", u, p)
CreateWeekly(k, u, p) == Checks(k, "weekly", u, p)
CreateMonthly(k, u, p) == Checks(k, "monthly", u, p)
CreateQuarterly(k, u, p) == Checks(k, "quarterly", u, p)

Inserts(k, kind) ==
    LET t == filler[k]
    IN  /\ t.pc = "create" /\ t.kind = kind
        /\ Len(form) < MaxForms
        /\ form' = Append(form, [kind |-> kind, user |-> t.user, period |-> t.period,
                                 edited |-> FALSE, deleted |-> FALSE])
        /\ FGoto(k, Vacant)

DailyInserted(k) == Inserts(k, "daily")
WeeklyInserted(k) == Inserts(k, "weekly")
MonthlyInserted(k) == Inserts(k, "monthly")
QuarterlyInserted(k) == Inserts(k, "quarterly")

\* _require_owner_or_manager.
MayChange(u, i) == form[i].user = u \/ u \in Manager

Loads(k, kind, pc, u) ==
    /\ filler[k] = Vacant
    /\ \E i \in Live(kind) : MayChange(u, i) /\ FGoto(k, [pc |-> pc, row |-> i])
    /\ UNCHANGED form

UpdateDaily(k, u) == Loads(k, "daily", "update", u)
UpdateWeekly(k, u) == Loads(k, "weekly", "update", u)
UpdateMonthly(k, u) == Loads(k, "monthly", "update", u)
UpdateQuarterly(k, u) == Loads(k, "quarterly", "update", u)

DeleteDaily(k, u) == Loads(k, "daily", "delete", u)
DeleteWeekly(k, u) == Loads(k, "weekly", "delete", u)
DeleteMonthly(k, u) == Loads(k, "monthly", "delete", u)
DeleteQuarterly(k, u) == Loads(k, "quarterly", "delete", u)

\* Neither looks at the row again: a form deleted meanwhile is edited too.
FormUpdated(k) ==
    /\ filler[k].pc = "update"
    /\ form' = [form EXCEPT ![filler[k].row].edited = TRUE]
    /\ FGoto(k, Vacant)

FormDeleted(k) ==
    /\ filler[k].pc = "delete"
    /\ form' = [form EXCEPT ![filler[k].row].deleted = TRUE]
    /\ FGoto(k, Vacant)

FAbandon(k) == filler[k] # Vacant /\ FGoto(k, Vacant) /\ UNCHANGED form

FNext ==
    \E k \in Desk :
        \/ \E u \in Author :
              \/ \E p \in FormPeriod : CreateDaily(k, u, p) \/ CreateWeekly(k, u, p) \/ CreateMonthly(k, u, p) \/ CreateQuarterly(k, u, p)
              \/ UpdateDaily(k, u) \/ UpdateWeekly(k, u) \/ UpdateMonthly(k, u) \/ UpdateQuarterly(k, u)
              \/ DeleteDaily(k, u) \/ DeleteWeekly(k, u) \/ DeleteMonthly(k, u) \/ DeleteQuarterly(k, u)
        \/ DailyInserted(k) \/ WeeklyInserted(k) \/ MonthlyInserted(k) \/ QuarterlyInserted(k)
        \/ FormUpdated(k) \/ FormDeleted(k) \/ FAbandon(k)

FSpec == FInit /\ [][FNext]_fvars

-----------------------------------------------------------------------------

\* calculate_compliance over a range of dates: whom it covers, and what it
\* counts of them.
Daily(from, to) == {i \in Live("daily") : form[i].period \in from .. to}
Covered(from, to) == {form[i].user : i \in Daily(from, to)}
\* Mutant: forms are counted instead of the days they are about.
SubmissionsByRow(from, to, users) == Cardinality({j \in Daily(from, to) : form[j].user \in users})

Submissions(from, to, users) ==
    Cardinality({<<form[i].user, form[i].period>> : i \in {j \in Daily(from, to) : form[j].user \in users}})

\* Two requests that overlap file one day twice; over every range, for one
\* employee or for all who filed, compliance still stays within the days there are.
ComplianceWithinDays ==
    \A from, to \in FormPeriod :
        from =< to =>
            \A users \in {Covered(from, to)} \cup {{u} : u \in Author} :
                Submissions(from, to, users) =< (to - from + 1) * Cardinality(users)
=============================================================================
