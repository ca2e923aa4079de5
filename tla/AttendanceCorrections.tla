------------------------- MODULE AttendanceCorrections -------------------------
(***************************************************************************)
(* Missed punch-out corrections                                            *)
(* (app/services/attendance_correction_service.py) on top of PunchClock:   *)
(* the owner of an auto-closed shift claims when they left, a reviewer     *)
(* approves or rejects.  Handlers lock the request row, and an approval    *)
(* the attendance record too, with SELECT ... FOR UPDATE until they        *)
(* commit; the punch clock itself takes no locks but its UPDATEs wait for  *)
(* them.                                                                   *)
(***************************************************************************)
EXTENDS PunchClock

CONSTANTS
    CorrId,      \* rows of attendance_correction_requests
    CReq,        \* slots for correction requests served at the same time
    Admin,       \* ADMIN_ROLES
    Career       \* bound: the stored roles each user may have in the course of time

ASSUME CorrectionsAssumption ==
    /\ None \notin CorrId
    /\ "Staff" \notin Admin /\ "Manager" \notin Admin
    /\ Career \in [User -> SUBSET (Admin \cup {"Staff", "Manager", None})]

VARIABLES
    correction,  \* the table attendance_correction_requests
    creq,        \* creq[k]: the handler serving correction request k
    role,        \* role stored for each user, None once deactivated
    token,       \* role in the access token each user holds
    inbox,       \* feed items: one per request, one per decision
    reader       \* users of the feed, see Inbox

corrVars == <<correction, creq, role, token, inbox, reader>>
allVars == <<clock, geofence, records, request, correction, creq, role, token, inbox, reader>>

Item == {"attendance_correction_request", "outcome"} \X CorrId
Feed == INSTANCE Inbox WITH Reader <- {}, Watched <- {}

RequestItem(c) == <<"attendance_correction_request", c>>
OutcomeItem(c) == <<"outcome", c>>

Role == Admin \cup {"Staff", "Manager"}
Decision == {"approved", "rejected", "cancelled"}

Correction == [status : {"unused", "pending"} \cup Decision,
               rec    : RecId \cup {None},
               by     : User \cup {None},
               role   : Role \cup {None},    \* requester_role
               claim  : Int \cup {None},     \* claimed_punch_out_time
               reviewer : User \cup {None}]

Handler == [pc    : {"idle", "create_role", "create_lock", "create_save", "decide_lock",
                     "decide_check", "decide_save", "cancel_lock", "cancel_save"},
            user  : User \cup {None},
            as    : Role \cup {None},        \* role in the token of this request
            ends  : Decision \cup {None},    \* what a decision makes of the request
            rec   : RecId \cup {None},
            claim : Int \cup {None},
            rows  : SUBSET CorrId]           \* request rows it wants or has locked

CorrTypeOK ==
    /\ correction \in [CorrId -> Correction]
    /\ creq \in [CReq -> Handler]
    /\ role \in [User -> Role \cup {None}]
    /\ token \in [User -> Role]
    /\ Feed!InboxTypeOK

NoCorrection == [status |-> "unused", rec |-> None, by |-> None, role |-> None,
                 claim |-> None, reviewer |-> None]
Free == [pc |-> "idle", user |-> None, as |-> None, ends |-> None, rec |-> None,
         claim |-> None, rows |-> {}]

CorrInit ==
    /\ correction = [c \in CorrId |-> NoCorrection]
    /\ creq = [k \in CReq |-> Free]
    /\ role \in {f \in [User -> Role] : \A u \in User : f[u] \in Career[u]}
    /\ token = role
    /\ Feed!InboxInit

-----------------------------------------------------------------------------
(* Locks and rules. *)

Pending(r) == {c \in CorrId : correction[c].rec = r /\ correction[c].status = "pending"}

\* Mutant: no FOR UPDATE.
NoLocks(k) == {}

LockedRows(k) == IF creq[k].pc \in {"create_save", "decide_check", "decide_save", "cancel_save"}
                 THEN creq[k].rows ELSE {}
LockedRecs(k) == IF creq[k].pc = "decide_save" /\ creq[k].ends = "approved"
                 THEN {creq[k].rec} ELSE {}

RowsFree(k, S) == \A j \in CReq \ {k} : LockedRows(j) \cap S = {}
RecFree(k, r)  == \A j \in CReq \ {k} : r \notin LockedRecs(j)

\* Mutant: the claim may be any time after the punch-in.
ClaimIsUnbounded(rec, claim) == claim > rec.in /\ claim =< clock

ClaimIsValid(rec, claim) ==
    /\ claim > rec.in
    /\ claim - rec.in =< STALE_SHIFT_HOURS
    /\ claim =< clock

\* Who may review by the token: admins everything (one property is modelled),
\* a manager the requests of staff.
InScope(as, c) == as \in Admin \/ (as = "Manager" /\ correction[c].role = "Staff")

\* ... and by the stored role, read again before deciding.
StillAllowed(stored, as, c) ==
    /\ stored \in Admin \cup (IF correction[c].role = "Staff" THEN {"Manager"} ELSE {})
    /\ as = "Manager" => stored = "Manager"

Step(k, pc) == creq' = [creq EXCEPT ![k].pc = pc]
Finish(k) == creq' = [creq EXCEPT ![k] = Free]

-----------------------------------------------------------------------------
(* POST /attendance/correction-requests *)

\* The record is read without a lock; a bad claim or record is refused here.
CreateReads(k, u, r, claim) ==
    /\ creq[k].pc = "idle"
    /\ records[r].user = u
    /\ records[r].status = "auto_closed"
    /\ ClaimIsValid(records[r], claim)
    /\ Cardinality({c \in CorrId : correction[c].status = "unused"}) >   \* bound on rows
       Cardinality({j \in CReq : creq[j].pc \in {"create_role", "create_lock", "create_save"}})
    /\ creq' = [creq EXCEPT ![k] = [Free EXCEPT !.pc = "create_role", !.user = u,
                                                !.rec = r, !.claim = claim]]
    /\ UNCHANGED <<vars, correction, role, token, inbox, reader>>

\* current_role, and the start of SELECT ... FOR UPDATE: the pending requests
\* in the statement's snapshot.
CreateFinds(k) ==
    /\ creq[k].pc = "create_role"
    /\ LET u == creq[k].user
       IN  creq' = [creq EXCEPT ![k].pc = "create_lock",
                                ![k].as = IF role[u] # None THEN role[u] ELSE token[u],
                                ![k].rows = Pending(creq[k].rec)]
    /\ UNCHANGED <<vars, correction, role, token, inbox, reader>>

\* Once the locks are granted, rows that are no longer pending are dropped.
CreateLocks(k) ==
    /\ creq[k].pc = "create_lock"
    /\ RowsFree(k, creq[k].rows)
    /\ creq' = [creq EXCEPT ![k].pc = "create_save",
                            ![k].rows = @ \cap Pending(creq[k].rec)]
    /\ UNCHANGED <<vars, correction, role, token, inbox, reader>>

\* Mutant: no partial unique index.
NoIndex(k) == TRUE

\* The partial unique index refuses the insert if there is a pending request
\* that this handler has not seen and cancelled.
IndexAllows(k) == Pending(creq[k].rec) \subseteq creq[k].rows

\* The pending requests are replaced by the new one.
CreateSaves(k) ==
    LET me == creq[k]
    IN  /\ me.pc = "create_save"
        /\ Finish(k)
        /\ \/ /\ IndexAllows(k)
              /\ \E new \in CorrId :
                    /\ correction[new].status = "unused"
                    /\ correction' = [c \in CorrId |->
                          IF c = new
                          THEN [status |-> "pending", rec |-> me.rec, by |-> me.user,
                                role |-> me.as, claim |-> me.claim, reviewer |-> None]
                          ELSE IF c \in me.rows
                          THEN [correction[c] EXCEPT !.status = "cancelled", !.reviewer = me.user]
                          ELSE correction[c]]
                    /\ inbox' = Feed!Created(RequestItem(new),
                                   Feed!Actioned({RequestItem(c) : c \in me.rows}, inbox))
           \/ /\ ~IndexAllows(k)
              /\ UNCHANGED <<correction, inbox>>
        /\ UNCHANGED <<vars, role, token, reader>>

-----------------------------------------------------------------------------
(* POST /attendance/correction-requests/{id}/approve, /reject, /cancel *)

DecideArrives(k, u, c, ends) ==
    /\ creq[k].pc = "idle"
    /\ correction[c].status # "unused"
    /\ creq' = [creq EXCEPT ![k] = [Free EXCEPT !.user = u, !.as = token[u], !.ends = ends,
                                      !.rows = {c}, !.rec = correction[c].rec,
                                      !.pc = IF ends = "cancelled" THEN "cancel_lock"
                                             ELSE "decide_lock"]]
    /\ UNCHANGED <<vars, correction, role, token, inbox, reader>>

\* Mutant: the author is not excluded.
MayReviewOwn(k, c) == InScope(creq[k].as, c) /\ correction[c].status = "pending"

MayReview(k, c) ==
    /\ correction[c].by # creq[k].user
    /\ InScope(creq[k].as, c)
    /\ correction[c].status = "pending"

\* Mutant: a refused handler tries again instead of answering.
DecideLocksRetrying(k) ==
    /\ creq[k].pc = "decide_lock"
    /\ RowsFree(k, creq[k].rows)
    /\ \E c \in creq[k].rows : MayReview(k, c)
    /\ Step(k, "decide_check")
    /\ UNCHANGED <<vars, correction, role, token, inbox, reader>>

\* _get_locked, then the part of _ensure_reviewer that reads nothing more.
DecideLocks(k) ==
    /\ creq[k].pc = "decide_lock"
    /\ RowsFree(k, creq[k].rows)
    /\ \E c \in creq[k].rows : IF MayReview(k, c) THEN Step(k, "decide_check") ELSE Finish(k)
    /\ UNCHANGED <<vars, correction, role, token, inbox, reader>>

\* Mutant: the record is completed again.
AnyRecord(k) == TRUE

\* An approval applies only to a shift that is still auto-closed.
RecordUnchanged(k) ==
    creq[k].ends = "approved" => records[creq[k].rec].status = "auto_closed"

\* The stored role, then for an approval the locked attendance record.
DecideChecks(k) ==
    LET me == creq[k]
    IN  /\ me.pc = "decide_check"
        /\ me.ends = "approved" => RecFree(k, me.rec)
        /\ \E c \in me.rows :
              IF StillAllowed(role[me.user], me.as, c) /\ RecordUnchanged(k)
              THEN Step(k, "decide_save")
              ELSE Finish(k)
        /\ UNCHANGED <<vars, correction, role, token, inbox, reader>>

Decided(k, c) == [correction EXCEPT ![c].status = creq[k].ends, ![c].reviewer = creq[k].user]

\* An approval completes the shift with the claimed punch-out time.
DecideSaves(k) ==
    LET me == creq[k]
    IN  /\ me.pc = "decide_save"
        /\ \E c \in me.rows :
              /\ correction' = Decided(k, c)
              /\ records' = IF me.ends = "approved"
                            THEN [records EXCEPT ![me.rec] = Complete(@, correction[c].claim)]
                            ELSE records
              /\ inbox' \in Feed!Notified(OutcomeItem(c), Feed!Actioned({RequestItem(c)}, inbox))
        /\ Finish(k)
        /\ UNCHANGED <<clock, geofence, request, role, token, reader>>

CancelLocks(k) ==
    /\ creq[k].pc = "cancel_lock"
    /\ RowsFree(k, creq[k].rows)
    /\ \E c \in creq[k].rows :
          IF correction[c].by = creq[k].user /\ correction[c].status = "pending"
          THEN Step(k, "cancel_save")
          ELSE Finish(k)
    /\ UNCHANGED <<vars, correction, role, token, inbox, reader>>

\* Mutant: the feed item is forgotten.
CancelSavesSilently(k) ==
    /\ creq[k].pc = "cancel_save"
    /\ \E c \in creq[k].rows : correction' = Decided(k, c)
    /\ Finish(k)
    /\ UNCHANGED <<vars, role, token, inbox, reader>>

CancelSaves(k) ==
    /\ creq[k].pc = "cancel_save"
    /\ \E c \in creq[k].rows :
          /\ correction' = Decided(k, c)
          /\ inbox' = Feed!Actioned({RequestItem(c)}, inbox)
    /\ Finish(k)
    /\ UNCHANGED <<vars, role, token, reader>>

-----------------------------------------------------------------------------
(* What happens around the handlers. *)

\* A worker dies: its transaction is rolled back and its locks are released.
CorrAbandon(k) ==
    /\ creq[k].pc # "idle"
    /\ Finish(k)
    /\ UNCHANGED <<vars, correction, role, token, inbox, reader>>

\* The user's role is changed or the account deactivated; the token stays.
ChangeRole(u) ==
    /\ \E new \in Career[u] : new # role[u] /\ role' = [role EXCEPT ![u] = new]
    /\ UNCHANGED <<vars, correction, creq, token, inbox, reader>>

LogIn(u) ==
    /\ role[u] # None
    /\ token' = [token EXCEPT ![u] = role[u]]
    /\ UNCHANGED <<vars, correction, creq, role, inbox, reader>>

\* A step of the punch clock, whose UPDATEs wait for the locks of approvals; the
\* geofence plays no part here and stays as it is.
PunchStep ==
    /\ Tick \/ \E q \in Req : Handle(q)
    /\ \A k \in CReq : \A r \in LockedRecs(k) : records'[r] = records[r]
    /\ UNCHANGED corrVars

CorrHandle(k) ==
    \/ CreateFinds(k)
    \/ CreateLocks(k)
    \/ CreateSaves(k)
    \/ DecideLocks(k)
    \/ DecideChecks(k)
    \/ DecideSaves(k)
    \/ CancelLocks(k)
    \/ CancelSaves(k)

CorrNext ==
    \/ PunchStep
    \/ \E k \in CReq :
          \/ CorrHandle(k)
          \/ CorrAbandon(k)
          \/ \E u \in User :
                \/ \E r \in RecId, claim \in Time : CreateReads(k, u, r, claim)
                \/ \E c \in CorrId, ends \in Decision : DecideArrives(k, u, c, ends)
    \/ \E u \in User : ChangeRole(u) \/ LogIn(u)

\* Handlers keep running, and a row lock goes to its waiters in turn, so a lock
\* that is free again and again is granted.
CorrFairness ==
    \A k \in CReq :
        /\ WF_allVars(CorrHandle(k))
        /\ SF_allVars(CreateLocks(k) \/ DecideLocks(k) \/ DecideChecks(k) \/ CancelLocks(k))

CorrSpec == Init /\ CorrInit /\ [][CorrNext]_allVars
FairCorrSpec == CorrSpec /\ CorrFairness

-----------------------------------------------------------------------------
(* Properties. *)

\* One pending request per shift, whatever the overlap of submissions and
\* decisions (module docstring: "a new one replaces the pending one").
OnePendingPerShift == \A r \in RecId : Cardinality(Pending(r)) =< 1

\* A decision is final: no handler that looked at the request before it was
\* decided overwrites the decision or its author (FOR UPDATE and the check on
\* status under the lock).
DecisionsAreFinal ==
    [][\A c \in CorrId : correction[c].status \in Decision => correction'[c] = correction[c]]_allVars

\* Needs RequestsPerUser = 1.  An approved claim is what the shift was paid by,
\* and no shift is paid by two claims, also when a request was submitted while
\* another one for the same shift was being approved (approve_correction:
\* "it can only be rejected").
ApprovedClaimIsPaid ==
    \A c \in CorrId : correction[c].status = "approved" =>
        LET rec == records[correction[c].rec] IN
        /\ rec.status = "completed"
        /\ rec.out = correction[c].claim
        /\ \A d \in CorrId \ {c} : correction[d].status = "approved" =>
              correction[d].rec # correction[c].rec

\* A request is decided by a reviewer other than its author, and one made by
\* somebody who was not Staff is never decided by somebody who has been at
\* most a Manager, however roles and tokens change meanwhile ("anyone else's
\* -> those admins only").
ReviewerEntitled ==
    \A c \in CorrId : correction[c].status \in {"approved", "rejected"} =>
        /\ correction[c].reviewer # correction[c].by
        /\ correction[c].role # "Staff" => Career[correction[c].reviewer] \cap Admin # {}

\* Shift r is over when s begins; a forgotten one may be claimed to have lasted
\* until it was stale.
Precedes(r, s) ==
    \/ records[r].status = "completed" /\ records[r].out =< records[s].in
    \/ /\ records[r].status = "auto_closed"
       /\ records[r].in + STALE_SHIFT_HOURS =< records[s].in

\* Needs RequestsPerUser = 1.  The shifts of a user never overlap, and no claim
\* that may still be approved makes them overlap: a record is auto-closed only
\* once it is older than any claim accepted for it (_validate_claim).
ShiftsDisjoint ==
    \A r, s \in RecId :
        /\ r # s
        /\ records[r].status # "unused" /\ records[s].status # "unused"
        /\ records[r].user = records[s].user
        => Precedes(r, s) \/ Precedes(s, r)

\* The feed item of a request that is no longer pending is resolved, and the
\* outcome is announced only for a decided request.
FeedFollowsRequests ==
    \A c \in CorrId :
        /\ Feed!IsOpen(RequestItem(c)) => correction[c].status = "pending"
        /\ Feed!IsOpen(OutcomeItem(c)) => correction[c].status \in {"approved", "rejected"}

\* No handler waits for ever: locks are taken in the order request row, then
\* attendance record, and every path gives them up.
EveryHandlerFinishes == \A k \in CReq : creq[k].pc # "idle" ~> creq[k].pc = "idle"
=============================================================================
