----------------------------- MODULE ShiftReports -----------------------------
(***************************************************************************)
(* What the Punch page shows of the records of PunchClock: hours worked    *)
(* since the start of the day or week, and the shifts that need review     *)
(* (AttendanceService.get_user_totals).  Read-only.                        *)
(***************************************************************************)
EXTENDS PunchClock, FiniteSetsExt

CONSTANTS
    MAX_SHIFT_HOURS,     \* a running shift counts for no more than this
    MAX_PLAUSIBLE_HOURS  \* a completed shift above this is a data error

ASSUME ReportsAssumption == MAX_SHIFT_HOURS \in Nat /\ MAX_PLAUSIBLE_HOURS \in Nat

Since(u, start) == {r \in RecId : /\ records[r].status # "unused"
                                  /\ records[r].user = u
                                  /\ records[r].in >= start}

\* The countable hours of a record, or None.
HoursOf(r, now) ==
    LET rec == records[r] IN
    CASE rec.status = "completed" ->
            IF rec.hours = None \/ rec.hours > MAX_PLAUSIBLE_HOURS THEN None ELSE rec.hours
      [] rec.status = "active" /\ rec.out = None /\ ~IsStale(rec, now) ->
            Min({Max({now - rec.in, 0}), MAX_SHIFT_HOURS})
      [] OTHER -> None

\* The hours that count, each with its record, and how many they are.
Credited(u, start, now) ==
    UNION {{r} \X (1 .. HoursOf(r, now)) : r \in {x \in Since(u, start) : HoursOf(x, now) # None}}

Total(u, start, now) == Cardinality(Credited(u, start, now))

\* Mutant: only implausible hours are flagged.
NeedsReviewImplausible(r) ==
    /\ records[r].status = "completed"
    /\ records[r].hours # None
    /\ records[r].hours > MAX_PLAUSIBLE_HOURS

NeedsReview(r) ==
    \/ records[r].status = "auto_closed"
    \/ /\ records[r].status = "completed"
       /\ records[r].hours # None
       /\ records[r].hours > MAX_PLAUSIBLE_HOURS

\* Every closed shift is either paid or flagged for review, never both and
\* never neither (the docstring of get_user_totals: implausible and auto-closed
\* records "are counted in needs_review_this_week instead").
ClosedShiftPaidXorReviewed ==
    \A r \in RecId : Closed(r) => ((HoursOf(r, clock) # None) # NeedsReview(r))

\* With RequestsPerUser = 1: nobody is credited more hours since a moment than
\* have passed since that moment; this needs all the shifts of a user, the
\* running one included, to be disjoint.
TotalsWithinElapsed ==
    \A u \in User : \A start \in 0 .. clock : Total(u, start, clock) =< clock - start
=============================================================================
