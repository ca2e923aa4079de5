------------------------------ MODULE Invitations ------------------------------
(***************************************************************************)
(* How the account of one email address comes to be: by registration, by   *)
(* an invitation of an administrator or of the superadmin, or by approval  *)
(* of a request for a co-admin (app/api/v1/endpoints/auth.py, users.py,    *)
(* superadmin.py, co_admin.py).  Each checks for a user of the email       *)
(* first, deleted or not, and then commits two to four times: a tenant of  *)
(* its own for an owner, the user, the first code, the decision.           *)
(***************************************************************************)
EXTENDS Integers, FiniteSets, Desks

CONSTANTS
    Property,     \* properties of the tenant
    MaxRequests,  \* bound: number of requests for a co-admin
    MaxTenants    \* bound: number of tenants made for the email

VARIABLES
    requests,     \* co_admin_requests of the email, in the order of insertion
    account,      \* the row of users: who made it, and for which request
    tenants,      \* number of tenants created for it
    inviter          \* the handlers in progress

ivars == <<requests, account, tenants, inviter>>

RequestId == 1 .. MaxRequests
Maker == {"register", "invite", "owner", "approve"}
CoAdminRequest == [property : Property \cup {Null}, status : {"none", "pending", "approved", "rejected"}, invited : BOOLEAN]
Account == [maker : Maker, of : RequestId \cup {Null}, code : BOOLEAN, deleted : BOOLEAN]

ASSUME InvitationsAssumption == MaxTenants \in Nat /\ Null \notin Account

Inviter ==
    {Vacant}
    \cup [pc : {"submit"}, property : Property]
    \cup [pc : {"tenant", "insert", "code"}, maker : Maker, of : RequestId \cup {Null}]
    \cup [pc : {"mark", "reject"}, of : RequestId]

NTypeOK ==
    /\ requests \in [RequestId -> CoAdminRequest]
    /\ account \in Account \cup {Null}
    /\ tenants \in 0 .. MaxTenants
    /\ inviter \in [Desk -> Inviter]

NInit ==
    /\ requests = [r \in RequestId |-> [property |-> Null, status |-> "none", invited |-> FALSE]]
    /\ account = Null /\ tenants = 0
    /\ inviter = [k \in Desk |-> Vacant]

-----------------------------------------------------------------------------

NGoto(k, t) == inviter' = [inviter EXCEPT ![k] = t]
NTables == <<requests, account, tenants>>
Starts(k, t) == inviter[k] = Vacant /\ NGoto(k, t) /\ UNCHANGED NTables

\* submit_co_admin_request: one pending request of the email and property
\* answers 409, and two of them make the query fail.
Pending(p) == {r \in RequestId : requests[r].status = "pending" /\ requests[r].property = p}
SubmitChecks(k, p) == Pending(p) = {} /\ Starts(k, [pc |-> "submit", property |-> p])

SubmitSaves(k) ==
    /\ inviter[k].pc = "submit"
    /\ \E r \in RequestId :
          /\ {s \in RequestId : requests[s].status = "none"} = r .. MaxRequests
          /\ requests' = [requests EXCEPT ![r] = [property |-> inviter[k].property, status |-> "pending", invited |-> FALSE]]
    /\ NGoto(k, Vacant)
    /\ UNCHANGED <<account, tenants>>

\* users.email is unique over all rows, the deleted ones included.
Taken == account # Null

Register(k) == ~Taken /\ Starts(k, [pc |-> "insert", maker |-> "register", of |-> Null])
InviteUser(k) == ~Taken /\ Starts(k, [pc |-> "insert", maker |-> "invite", of |-> Null])
InviteOwner(k) == ~Taken /\ Starts(k, [pc |-> "tenant", maker |-> "owner", of |-> Null])

Approve(k, r) ==
    /\ requests[r].status = "pending" /\ ~Taken
    /\ Starts(k, [pc |-> "insert", maker |-> "approve", of |-> r])

\* An owner's tenant is committed before the user is.
TenantSaves(k) ==
    /\ inviter[k].pc = "tenant"
    /\ tenants < MaxTenants
    /\ tenants' = tenants + 1
    /\ NGoto(k, [inviter[k] EXCEPT !.pc = "insert"])
    /\ UNCHANGED <<requests, account>>

\* Mutant: the row is overwritten.
RefusedNever == FALSE

\* The unique index refuses the second user, and the request fails.
Refused == account # Null

InsertSaves(k) ==
    LET t == inviter[k]
    IN  /\ t.pc = "insert"
        /\ account' = IF Refused THEN account ELSE [maker |-> t.maker, of |-> t.of, code |-> FALSE, deleted |-> FALSE]
        /\ NGoto(k, IF Refused THEN Vacant ELSE [t EXCEPT !.pc = "code"])
        /\ UNCHANGED <<requests, tenants>>

CodeSaves(k) ==
    LET t == inviter[k]
    IN  /\ t.pc = "code"
        /\ account' = [account EXCEPT !.code = TRUE]
        /\ NGoto(k, IF t.maker = "approve" THEN [pc |-> "mark", of |-> t.of] ELSE Vacant)
        /\ UNCHANGED <<requests, tenants>>

\* The request was pending when it was loaded; its status is not read again.
MarkSaves(k) ==
    /\ inviter[k].pc = "mark"
    /\ requests' = [requests EXCEPT ![inviter[k].of].status = "approved", ![inviter[k].of].invited = TRUE]
    /\ NGoto(k, Vacant)
    /\ UNCHANGED <<account, tenants>>

Reject(k, r) == requests[r].status = "pending" /\ Starts(k, [pc |-> "reject", of |-> r])

RejectSaves(k) ==
    /\ inviter[k].pc = "reject"
    /\ requests' = [requests EXCEPT ![inviter[k].of].status = "rejected"]
    /\ NGoto(k, Vacant)
    /\ UNCHANGED <<account, tenants>>

DeleteUser ==
    /\ account # Null /\ ~account.deleted
    /\ account' = [account EXCEPT !.deleted = TRUE]
    /\ UNCHANGED <<requests, tenants, inviter>>

NAbandon(k) == inviter[k] # Vacant /\ NGoto(k, Vacant) /\ UNCHANGED NTables

NNext ==
    \/ DeleteUser
    \/ \E k \in Desk :
          \/ \E p \in Property : SubmitChecks(k, p)
          \/ \E r \in RequestId : Approve(k, r) \/ Reject(k, r)
          \/ SubmitSaves(k) \/ Register(k) \/ InviteUser(k) \/ InviteOwner(k)
          \/ TenantSaves(k) \/ InsertSaves(k) \/ CodeSaves(k) \/ MarkSaves(k) \/ RejectSaves(k)
          \/ NAbandon(k)

NSpec == NInit /\ [][NNext]_ivars

-----------------------------------------------------------------------------

\* Requests for one email may be approved at once, while others register or
\* invite it, and any of them may stop half-way.  An approved request made the
\* one account of the email and sent its code, so at most one is approved.
ApprovedMadeTheAccount ==
    \A r \in RequestId :
        requests[r].status = "approved" =>
            account # Null /\ account.maker = "approve" /\ account.of = r /\ account.code
=============================================================================
