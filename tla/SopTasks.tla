------------------------------- MODULE SopTasks -------------------------------
(***************************************************************************)
(* One standard operating procedure and the task it makes                  *)
(* (app/api/v1/endpoints/sop.py): a photo is submitted as proof of work, a *)
(* manager approves or rejects it.  Each handler loads the row of the      *)
(* task, the review also that of the procedure, and the commit writes the  *)
(* columns that differ from what was loaded.                               *)
(***************************************************************************)
EXTENDS Integers, FiniteSets, Desks

CONSTANTS
    Category,     \* names of categories
    StaffStatus,  \* bound: statuses that staff give the procedure themselves
    Assignee,     \* whom the task is for: nobody, a colleague, a stranger to the tenant
    MaxProofs,    \* bound: proofs taken between two rejections
    MaxVersions   \* bound: versions of the procedure

VARIABLES
    categories,   \* sop_categories: the names in use
    sop,          \* the row of sop_items
    execution,    \* its row of sop_executions
    versions,     \* number of rows in sop_versions
    notified,     \* is there an inbox item task_assigned about the execution
    proofs,       \* history: proofs taken since the last rejection
    trainer       \* the handlers in progress

sopvars == <<categories, sop, execution, versions, notified, proofs, trainer>>

Status == {"pending", "in_progress", "completed"}
SOPItem == [status : Status, deleted : BOOLEAN]
ExecutionStatus == {"pending", "proof_submitted", "approved", "rejected", "completed"}
\* proof stands for proof_submitted_at, a new time with every proof.
SOPExecution == [status : ExecutionStatus, proof : BOOLEAN, completed_at : BOOLEAN]

Trainer ==
    {Vacant}
    \cup [pc : {"submit", "complete", "approve", "reject"}, execution : SOPExecution]
    \cup [pc : {"approving", "rejecting"}, execution : SOPExecution, sop : SOPItem]
    \cup [pc : {"update"}, sop : SOPItem, status : Status]
    \cup [pc : {"delete"}]

ASSUME SopAssumption ==
    /\ StaffStatus \subseteq Status
    /\ IsFiniteSet(Desk) /\ Null \notin SOPItem \cup SOPExecution
    /\ MaxProofs \in Nat /\ MaxVersions \in Nat
    /\ Assignee \subseteq {"nobody", "colleague", "stranger"}

STypeOK ==
    /\ categories \subseteq Category
    /\ sop \in SOPItem \cup {Null}
    /\ execution \in SOPExecution \cup {Null}
    /\ versions \in 0 .. MaxVersions
    /\ notified \in BOOLEAN /\ notified => execution # Null
    /\ proofs \in 0 .. MaxProofs
    /\ trainer \in [Desk -> Trainer]

SInit ==
    /\ categories = {} /\ sop = Null /\ execution = Null
    /\ versions = 0 /\ notified = FALSE /\ proofs = 0
    /\ trainer = [k \in Desk |-> Vacant]

-----------------------------------------------------------------------------

STables == <<categories, sop, execution, versions, notified, proofs>>
SGoto(k, t) == trainer' = [trainer EXCEPT ![k] = t]
SLoad(k, t) == trainer[k] = Vacant /\ SGoto(k, t) /\ UNCHANGED STables

\* uq_sop_category refuses a name twice.
CreateCategory(c) ==
    /\ c \notin categories
    /\ categories' = categories \cup {c}
    /\ UNCHANGED <<sop, execution, versions, notified, proofs, trainer>>

\* An assignee makes a task, and is told of it if they belong to the tenant and
\* the notification does not fail.
CreateSop(status, assignee) ==
    /\ sop = Null /\ categories # {}
    /\ sop' = [status |-> status, deleted |-> FALSE]
    /\ execution' = IF assignee = "nobody" THEN Null
                    ELSE [status |-> "pending", proof |-> FALSE, completed_at |-> FALSE]
    /\ notified' \in {FALSE, assignee = "colleague"}
    /\ UNCHANGED <<categories, versions, proofs, trainer>>

\* Both take a procedure that is deleted already.
UpdateSopLoads(k, status) == sop # Null /\ SLoad(k, [pc |-> "update", sop |-> sop, status |-> status])
DeleteSopLoads(k) == sop # Null /\ SLoad(k, [pc |-> "delete"])

UpdateSopSaves(k) ==
    LET t == trainer[k]
    IN  /\ t.pc = "update"
        /\ sop' = Written(sop, t.sop, [t.sop EXCEPT !.status = t.status])
        /\ SGoto(k, Vacant)
        /\ UNCHANGED <<categories, execution, versions, notified, proofs>>

DeleteSopSaves(k) ==
    /\ trainer[k].pc = "delete"
    /\ sop' = [sop EXCEPT !.deleted = TRUE]
    /\ SGoto(k, Vacant)
    /\ UNCHANGED <<categories, execution, versions, notified, proofs>>

CreateVersion ==
    /\ sop # Null /\ versions < MaxVersions
    /\ versions' = versions + 1
    /\ UNCHANGED <<categories, sop, execution, notified, proofs, trainer>>

\* Mutant: a proof replaces the one under review.
AwaitedOrSubmitted(status) == status \in {"pending", "rejected", "proof_submitted"}

\* submit_proof: when a proof is taken.
Awaited(status) == status \in {"pending", "rejected"}

Reads(k, pc) == execution # Null /\ SLoad(k, [pc |-> pc, execution |-> execution])

SubmitLoads(k) == Reads(k, "submit") /\ Awaited(execution.status)
CompleteLoads(k) == Reads(k, "complete")
ApproveExecutionLoads(k) == Reads(k, "approve")
RejectExecutionLoads(k) == Reads(k, "reject")

SubmitSaves(k) ==
    /\ trainer[k].pc = "submit"
    /\ proofs < MaxProofs
    /\ execution' = [Written(execution, trainer[k].execution, [trainer[k].execution EXCEPT !.status = "proof_submitted"])
                        EXCEPT !.proof = TRUE]
    /\ proofs' = proofs + 1
    /\ SGoto(k, Vacant)
    /\ UNCHANGED <<categories, sop, versions, notified>>

\* complete_sop asks for no proof.
CompleteSaves(k) ==
    /\ trainer[k].pc = "complete"
    /\ execution' = [Written(execution, trainer[k].execution, [trainer[k].execution EXCEPT !.status = "completed"])
                        EXCEPT !.completed_at = TRUE]
    /\ SGoto(k, Vacant)
    /\ UNCHANGED <<categories, sop, versions, notified, proofs>>

\* The review reads the procedure after the task, and any status will do.
ReviewLoads(k, pc, next) ==
    /\ trainer[k].pc = pc
    /\ SGoto(k, [pc |-> next, execution |-> trainer[k].execution, sop |-> sop])
    /\ UNCHANGED STables

ApproveExecutionSaves(k) ==
    LET t == trainer[k]
    IN  /\ t.pc = "approving"
        /\ execution' = [Written(execution, t.execution, [t.execution EXCEPT !.status = "approved"])
                            EXCEPT !.completed_at = TRUE]
        /\ sop' = Written(sop, t.sop, [t.sop EXCEPT !.status = "completed"])
        /\ SGoto(k, Vacant)
        /\ UNCHANGED <<categories, versions, notified, proofs>>

RejectExecutionSaves(k) ==
    LET t == trainer[k]
    IN  /\ t.pc = "rejecting"
        /\ execution' = Written(execution, t.execution, [t.execution EXCEPT !.status = "rejected", !.proof = FALSE])
        /\ sop' = Written(sop, t.sop, [t.sop EXCEPT !.status = "pending"])
        /\ proofs' = 0
        /\ SGoto(k, Vacant)
        /\ UNCHANGED <<categories, versions, notified>>

SAbandon(k) == trainer[k] # Vacant /\ SGoto(k, Vacant) /\ UNCHANGED STables

SNext ==
    \/ \E c \in Category : CreateCategory(c)
    \/ \E s \in StaffStatus, a \in Assignee : CreateSop(s, a)
    \/ CreateVersion
    \/ \E k \in Desk :
          \/ \E s \in StaffStatus : UpdateSopLoads(k, s)
          \/ UpdateSopSaves(k) \/ DeleteSopLoads(k) \/ DeleteSopSaves(k)
          \/ SubmitLoads(k) \/ SubmitSaves(k) \/ CompleteLoads(k) \/ CompleteSaves(k)
          \/ ApproveExecutionLoads(k) \/ ReviewLoads(k, "approve", "approving") \/ ApproveExecutionSaves(k)
          \/ RejectExecutionLoads(k) \/ ReviewLoads(k, "reject", "rejecting") \/ RejectExecutionSaves(k)
          \/ SAbandon(k)

SSpec == SInit /\ [][SNext]_sopvars

-----------------------------------------------------------------------------

\* Staff submit proof until it is taken and again after a rejection: between
\* two rejections only requests that ran at once replace a photo, however
\* reviews, completions and stale saves are mixed.
ProofsPerReview == proofs =< Cardinality(Desk)
=============================================================================
