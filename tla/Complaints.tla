------------------------------ MODULE Complaints ------------------------------
(***************************************************************************)
(* One complaint (app/services/complaint_service.py): it is assigned,      *)
(* escalated, commented on and resolved in any order, its status is never  *)
(* looked at.  An assignment or an escalation takes two transactions, with *)
(* the comment on it in the second or the first.  A handler loads the row  *)
(* and its commit writes the columns that differ from what was loaded.  A  *)
(* reassignment is an assignment, a bulk action one request after another, *)
(* and an update of the text touches no column that appears here.          *)
(***************************************************************************)
EXTENDS Integers, FiniteSets, Desks

CONSTANTS
    Staff,        \* users a complaint is assigned to
    MaxComments   \* bound: number of comments

ASSUME ComplaintsAssumption == MaxComments \in Nat

VARIABLES
    complaint,    \* the row of complaints
    assignments,  \* complaint_assignments: the users with a row
    comments,     \* number of rows in complaint_comments
    escalations,  \* number of its complaint_escalated inbox items that are unread or read
    officer       \* the handlers in progress

lvars == <<complaint, assignments, comments, escalations, officer>>

ComplaintAssignment == Staff
ComplaintStatus == {"open", "in_progress", "resolved", "escalated", "closed"}
Complaint == [status : ComplaintStatus, assigned_to : Staff \cup {Null}, comment_count : 0 .. MaxComments]

Officer ==
    {Vacant}
    \cup [pc : {"resolve"}, loaded : Complaint, status : ComplaintStatus, seen : Nat]
    \cup [pc : {"escalate", "comment"}, loaded : Complaint]
    \cup [pc : {"report", "refresh"}]
    \cup [pc : {"reported"}, new : BOOLEAN]
    \cup [pc : {"assign"}, loaded : Complaint, to : Staff, known : BOOLEAN]

LTypeOK ==
    /\ complaint \in Complaint
    /\ assignments \subseteq ComplaintAssignment
    /\ comments \in 0 .. MaxComments
    /\ escalations \in 0 .. Cardinality(Desk)
    /\ officer \in [Desk -> Officer]

\* create_complaint.
LInit ==
    /\ complaint = [status |-> "open", assigned_to |-> Null, comment_count |-> 0]
    /\ assignments = {}
    /\ comments = 0
    /\ escalations = 0
    /\ officer = [k \in Desk |-> Vacant]

-----------------------------------------------------------------------------

LTables == <<complaint, assignments, comments, escalations>>

LGoto(k, t) == officer' = [officer EXCEPT ![k] = t]
LLoad(k, t) == officer[k] = Vacant /\ LGoto(k, t) /\ UNCHANGED LTables

\* resolve_complaint takes any status, and marks the items it finds as actioned.
ResolveLoads(k, status) ==
    LLoad(k, [pc |-> "resolve", loaded |-> complaint, status |-> status, seen |-> escalations])

ResolveSaves(k) ==
    LET t == officer[k]
    IN  /\ t.pc = "resolve"
        /\ complaint' = Written(complaint, t.loaded, [t.loaded EXCEPT !.status = t.status])
        /\ escalations' = IF escalations < t.seen THEN 0 ELSE escalations - t.seen
        /\ LGoto(k, Vacant)
        /\ UNCHANGED <<assignments, comments>>

\* One more comment, counted on top of the count that was loaded.
Comments(loaded, new) ==
    /\ comments < MaxComments
    /\ comments' = comments + 1
    /\ complaint' = Written(complaint, loaded, [new EXCEPT !.comment_count = loaded.comment_count + 1])

CommentLoads(k) == LLoad(k, [pc |-> "comment", loaded |-> complaint])

CommentSaves(k) ==
    LET t == officer[k]
    IN  /\ t.pc = "comment"
        /\ Comments(t.loaded, t.loaded)
        /\ LGoto(k, Vacant)
        /\ UNCHANGED <<assignments, escalations>>

\* escalate_complaint: add_comment commits the new status with its comment.
EscalateLoads(k) == LLoad(k, [pc |-> "escalate", loaded |-> complaint])

EscalateSaves(k) ==
    LET t == officer[k]
    IN  /\ t.pc = "escalate"
        /\ Comments(t.loaded, [t.loaded EXCEPT !.status = "escalated"])
        /\ LGoto(k, [pc |-> "report"])
        /\ UNCHANGED <<assignments, escalations>>

\* create_inbox_item: nothing new when an item is open, an error when two are.
ReportChecks(k) ==
    /\ officer[k].pc = "report"
    /\ LGoto(k, IF escalations > 1 THEN Vacant ELSE [pc |-> "reported", new |-> escalations = 0])
    /\ UNCHANGED LTables

ReportSaves(k) ==
    /\ officer[k].pc = "reported"
    /\ escalations' = IF officer[k].new THEN escalations + 1 ELSE escalations
    /\ LGoto(k, Vacant)
    /\ UNCHANGED <<complaint, assignments, comments>>

\* Mutant: any row of the complaint will do.
KnownAny(u) == assignments # {}

\* assign_complaint looks for a row of the user.
Known(u) == u \in assignments

AssignLoads(k, u) == LLoad(k, [pc |-> "assign", loaded |-> complaint, to |-> u, known |-> Known(u)])

\* uq_complaint_assignment refuses a second row.
AssignSaves(k) ==
    LET t == officer[k]
        twice == ~t.known /\ t.to \in assignments
    IN  /\ t.pc = "assign"
        /\ IF twice THEN UNCHANGED <<complaint, assignments>>
           ELSE /\ complaint' = Written(complaint, t.loaded, [t.loaded EXCEPT !.status = "in_progress", !.assigned_to = t.to])
                /\ assignments' = IF t.known THEN assignments ELSE assignments \cup {t.to}
        /\ LGoto(k, IF twice THEN Vacant ELSE [pc |-> "refresh"])
        /\ UNCHANGED <<comments, escalations>>

\* The row is loaded again for the comment about the assignment.
Refreshes(k) ==
    /\ officer[k].pc = "refresh"
    /\ LGoto(k, [pc |-> "comment", loaded |-> complaint])
    /\ UNCHANGED LTables

LDismiss ==
    /\ escalations > 0
    /\ escalations' = escalations - 1
    /\ UNCHANGED <<complaint, assignments, comments, officer>>

\* The worker dies or the client goes away.
LAbandon(k) == officer[k] # Vacant /\ LGoto(k, Vacant) /\ UNCHANGED LTables

LNext ==
    \/ \E k \in Desk :
          \/ \E s \in ComplaintStatus : ResolveLoads(k, s)
          \/ \E u \in Staff : AssignLoads(k, u)
          \/ ResolveSaves(k) \/ CommentLoads(k) \/ CommentSaves(k)
          \/ EscalateLoads(k) \/ EscalateSaves(k) \/ ReportChecks(k) \/ ReportSaves(k)
          \/ AssignSaves(k) \/ Refreshes(k) \/ LAbandon(k)
    \/ LDismiss

LSpec == LInit /\ [][LNext]_lvars

-----------------------------------------------------------------------------
(* Properties. *)

\* However assignments overlap and fail, whoever the complaint is assigned to
\* has a row in the history that makes "re-assignments traceable".
AssigneeHasRow == complaint.assigned_to # Null => complaint.assigned_to \in assignments
=============================================================================
