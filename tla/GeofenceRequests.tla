--------------------------- MODULE GeofenceRequests ---------------------------
(***************************************************************************)
(* The punch location of one property                                      *)
(* (app/services/geofence_request_service.py and the geofence endpoints):  *)
(* a manager proposes a change, an admin approves it, and admins also edit *)
(* the location directly.  Approvals lock the request row and then the     *)
(* geofence row; direct edits lock nothing and write back the columns they *)
(* changed.  Users look at the feed meanwhile (Inbox).                     *)
(***************************************************************************)
EXTENDS Integers, FiniteSets, Rows

CONSTANTS
    User,
    Admin,       \* GEOFENCE_ADMIN_ROLES
    Career,      \* bound: the stored roles each user may have in the course of time
    PropId,      \* rows of geofence_change_requests
    Server,      \* slots for requests served at the same time
    Reader,      \* slots for users marking a feed item as read
    Looking,     \* bound: whether users look at the items of requests
    Proposable,  \* bound: locations that are proposed, [center, radius]
    Editable     \* bound: locations admins enter directly

ASSUME GeofenceAssumption ==
    /\ Null \notin User /\ Null \notin Admin /\ Null \notin PropId
    /\ "Manager" \notin Admin /\ "Staff" \notin Admin
    /\ Career \in [User -> SUBSET (Admin \cup {"Staff", "Manager", Null})]
    /\ Looking \in BOOLEAN

VARIABLES
    live,       \* the property is not deleted
    geofence,   \* row of property_geofences, Null when there is none
    proposal,   \* the table geofence_change_requests
    server,     \* server[k]: the handler serving request k
    role,       \* role stored for each user, Null once deactivated
    token,      \* role in the access token each user holds
    inbox,      \* feed items: one per request, one per decision
    reader      \* users of the feed

gvars == <<live, geofence, proposal, server, role, token, inbox, reader>>

Item == {"geofence_change_request", "outcome"} \X PropId
RequestItem(c) == <<"geofence_change_request", c>>
OutcomeItem(c) == <<"outcome", c>>
Feed == INSTANCE Inbox WITH
    Watched <- IF Looking THEN {RequestItem(c) : c \in PropId} ELSE {}, None <- Null

Role == Admin \cup {"Staff", "Manager"}
Decision == {"approved", "rejected", "cancelled"}
Center == {loc.center : loc \in Proposable \cup Editable}
Radius == {loc.radius : loc \in Proposable \cup Editable}
Place == [center : Center, radius : Radius]

ASSUME PlaceAssumption == Proposable \cup Editable \subseteq Place /\ Null \notin Place

Proposal == [status   : {"unused", "pending"} \cup Decision,
             by       : User \cup {Null},
             place    : Place \cup {Null},
             reviewer : User \cup {Null}]

FenceHandler == [pc    : {"idle", "create_lock", "create_save", "decide_lock", "decide_check",
                     "fence_lock", "decide_save", "cancel_lock", "cancel_save", "edit_save"},
            user  : User \cup {Null},
            ends  : Decision \cup {Null},
            rows  : SUBSET PropId,          \* request rows it wants or has locked
            place : Place \cup {Null},      \* location it proposes or enters
            seen  : Place \cup {Null},      \* geofence row it loaded
            admin : BOOLEAN]                \* its user was an admin at some time since it began

GTypeOK ==
    /\ live \in BOOLEAN
    /\ geofence \in Place \cup {Null}
    /\ proposal \in [PropId -> Proposal]
    /\ server \in [Server -> FenceHandler]
    /\ role \in [User -> Role \cup {Null}]
    /\ token \in [User -> Role]
    /\ Feed!InboxTypeOK

NoProposal == [status |-> "unused", by |-> Null, place |-> Null, reviewer |-> Null]
FreeServer == [pc |-> "idle", user |-> Null, ends |-> Null, rows |-> {}, place |-> Null,
         seen |-> Null, admin |-> FALSE]

GInit ==
    /\ live = TRUE
    /\ geofence \in Editable \cup {Null}
    /\ proposal = [c \in PropId |-> NoProposal]
    /\ server = [k \in Server |-> FreeServer]
    /\ role \in {f \in [User -> Role] : \A u \in User : f[u] \in Career[u]}
    /\ token = role
    /\ Feed!InboxInit

-----------------------------------------------------------------------------
(* Locks. *)

Pending == {c \in PropId : proposal[c].status = "pending"}

\* Mutant: no FOR UPDATE on the request.
NoRowsLocked(k) == {}

LockedRows(k) ==
    IF server[k].pc \in {"create_save", "decide_check", "fence_lock", "decide_save", "cancel_save"}
    THEN server[k].rows ELSE {}
RowsFree(k) == \A j \in Server \ {k} : LockedRows(j) \cap server[k].rows = {}

\* An approval that found a geofence holds its row until it commits.
HoldsFence(k) == server[k].pc = "decide_save" /\ server[k].seen # Null
FenceFree(k) == \A j \in Server \ {k} : ~HoldsFence(j)

ServerStep(k, pc) == server' = [server EXCEPT ![k].pc = pc]
ServerEnds(k) == server' = [server EXCEPT ![k] = FreeServer]
ServerBegins(k, u, h) ==
    /\ server[k].pc = "idle"
    /\ server' = [server EXCEPT ![k] = [h EXCEPT !.user = u, !.admin = role[u] \in Admin]]

-----------------------------------------------------------------------------
(* POST /attendance/geofence-requests *)

\* property_in_scope and the snapshot of SELECT ... FOR UPDATE.
ProposalFinds(k, u, place) ==
    /\ token[u] \in Admin \cup {"Manager"}
    /\ live
    /\ Cardinality({c \in PropId : proposal[c].status = "unused"}) >   \* bound on rows
       Cardinality({j \in Server : server[j].pc \in {"create_lock", "create_save"}})
    /\ ServerBegins(k, u, [FreeServer EXCEPT !.pc = "create_lock", !.place = place, !.rows = Pending])
    /\ UNCHANGED <<live, geofence, proposal, role, token, inbox, reader>>

\* Once the locks are granted, rows that are no longer pending are dropped.
ProposalLocks(k) ==
    /\ server[k].pc = "create_lock"
    /\ RowsFree(k)
    /\ server' = [server EXCEPT ![k].pc = "create_save", ![k].rows = @ \cap Pending]
    /\ UNCHANGED <<live, geofence, proposal, role, token, inbox, reader>>

\* Mutant: no partial unique index.
NoIndex(k) == TRUE

\* uq_geofence_request_pending refuses the insert if there is a pending request
\* that this handler has not seen and cancelled.
IndexAllows(k) == Pending \subseteq server[k].rows

\* The pending request is replaced by the new one, or the commit is refused.
ProposalSaves(k) ==
    LET me == server[k]
    IN  /\ me.pc = "create_save"
        /\ ServerEnds(k)
        /\ \/ /\ IndexAllows(k)
              /\ \E new \in PropId :
                    /\ proposal[new].status = "unused"
                    /\ proposal' = [c \in PropId |->
                          IF c = new THEN [NoProposal EXCEPT !.status = "pending", !.by = me.user,
                                                             !.place = me.place]
                          ELSE IF c \in me.rows
                          THEN [proposal[c] EXCEPT !.status = "cancelled", !.reviewer = me.user]
                          ELSE proposal[c]]
                    /\ inbox' = Feed!Created(RequestItem(new),
                                   Feed!Actioned({RequestItem(c) : c \in me.rows}, inbox))
           \/ /\ ~IndexAllows(k)
              /\ UNCHANGED <<proposal, inbox>>
        /\ UNCHANGED <<live, geofence, role, token, reader>>

-----------------------------------------------------------------------------
(* POST /attendance/geofence-requests/{id}/approve, /reject, /cancel *)

DecideArrives(k, u, c, ends) ==
    /\ token[u] \in Admin \cup (IF ends = "cancelled" THEN {"Manager"} ELSE {})
    /\ proposal[c].status # "unused"
    /\ ServerBegins(k, u, [FreeServer EXCEPT !.ends = ends, !.rows = {c},
                      !.pc = IF ends = "cancelled" THEN "cancel_lock" ELSE "decide_lock"])
    /\ UNCHANGED <<live, geofence, proposal, role, token, inbox, reader>>

Reviewable(k, c) == proposal[c].status = "pending" /\ proposal[c].by # server[k].user

\* _get_for_update and _ensure_reviewable.
DecideLocks(k) ==
    /\ server[k].pc = "decide_lock"
    /\ RowsFree(k)
    /\ \E c \in server[k].rows : IF Reviewable(k, c) THEN ServerStep(k, "decide_check") ELSE ServerEnds(k)
    /\ UNCHANGED <<live, geofence, proposal, role, token, inbox, reader>>

\* Mutant: the role in the token is good enough.
TokenIsAdmin(u) == token[u] \in Admin

StillGeofenceAdmin(u) == role[u] \in Admin

\* The stored role, and for an approval the property, read again.
DecideChecks(k) ==
    /\ server[k].pc = "decide_check"
    /\ IF ~StillGeofenceAdmin(server[k].user) \/ (server[k].ends = "approved" /\ ~live)
       THEN ServerEnds(k)
       ELSE ServerStep(k, IF server[k].ends = "approved" THEN "fence_lock" ELSE "decide_save")
    /\ UNCHANGED <<live, geofence, proposal, role, token, inbox, reader>>

FenceLocks(k) ==
    /\ server[k].pc = "fence_lock"
    /\ FenceFree(k)
    /\ server' = [server EXCEPT ![k].pc = "decide_save", ![k].seen = geofence]
    /\ UNCHANGED <<live, geofence, proposal, role, token, inbox, reader>>

\* Mutant: a rejection applies the location too.
AppliesAlways(k) == TRUE

AppliesPlace(k) == server[k].ends = "approved"

\* Mutant: the feed item stays open.
DecidedFeedUntouched(c) == Feed!Notified(OutcomeItem(c), inbox)

DecidedFeed(c) == Feed!Notified(OutcomeItem(c), Feed!Actioned({RequestItem(c)}, inbox))

\* An approval writes the location (created if missing) with the decision; the
\* unique property_id refuses the commit when somebody created it meanwhile.
DecideSaves(k) ==
    LET me == server[k]
    IN  /\ me.pc = "decide_save"
        /\ ServerEnds(k)
        /\ IF AppliesPlace(k) /\ me.seen = Null /\ geofence # Null
           THEN UNCHANGED <<geofence, proposal, inbox>>
           ELSE \E c \in me.rows :
                  /\ proposal' = [proposal EXCEPT ![c].status = me.ends, ![c].reviewer = me.user]
                  /\ geofence' = IF AppliesPlace(k) THEN proposal[c].place ELSE geofence
                  /\ inbox' \in DecidedFeed(c)
        /\ UNCHANGED <<live, role, token, reader>>

CancelLocks(k) ==
    /\ server[k].pc = "cancel_lock"
    /\ RowsFree(k)
    /\ \E c \in server[k].rows :
          IF proposal[c].by = server[k].user /\ proposal[c].status = "pending"
          THEN ServerStep(k, "cancel_save") ELSE ServerEnds(k)
    /\ UNCHANGED <<live, geofence, proposal, role, token, inbox, reader>>

CancelSaves(k) ==
    /\ server[k].pc = "cancel_save"
    /\ \E c \in server[k].rows :
          /\ proposal' = [proposal EXCEPT ![c].status = "cancelled", ![c].reviewer = server[k].user]
          /\ inbox' = Feed!Actioned({RequestItem(c)}, inbox)
    /\ ServerEnds(k)
    /\ UNCHANGED <<live, geofence, role, token, reader>>

-----------------------------------------------------------------------------
(* /attendance/geofence: admins change the location directly. *)

MayEdit(u) == token[u] \in Admin /\ StillGeofenceAdmin(u)

AddFence(u, place) ==
    /\ MayEdit(u)
    /\ live
    /\ geofence = Null          \* otherwise refused, by the check or by the unique property_id
    /\ geofence' = place
    /\ UNCHANGED <<live, proposal, server, role, token, inbox, reader>>

FenceEditLoads(k, u, place) ==
    /\ MayEdit(u)
    /\ geofence # Null
    /\ ServerBegins(k, u, [FreeServer EXCEPT !.pc = "edit_save", !.place = place, !.seen = geofence])
    /\ UNCHANGED <<live, geofence, proposal, role, token, inbox, reader>>

\* Only columns that differ from what was loaded are written; seen is Null when
\* the loaded row was deleted, and then the UPDATE finds no row.
FenceEditSaves(k) ==
    LET seen == server[k].seen
        place == server[k].place
    IN  /\ server[k].pc = "edit_save"
        /\ FenceFree(k)
        /\ geofence' = IF seen = Null THEN geofence
                       ELSE [center |-> IF place.center # seen.center THEN place.center
                                        ELSE geofence.center,
                             radius |-> IF place.radius # seen.radius THEN place.radius
                                        ELSE geofence.radius]
        /\ ServerEnds(k)
        /\ UNCHANGED <<live, proposal, role, token, inbox, reader>>

\* The row is gone for every handler that has loaded it.
DeleteFence(u) ==
    /\ MayEdit(u)
    /\ geofence # Null
    /\ \A k \in Server : ~HoldsFence(k)
    /\ geofence' = Null
    /\ server' = [k \in Server |-> IF server[k].pc = "edit_save" THEN [server[k] EXCEPT !.seen = Null]
                               ELSE server[k]]
    /\ UNCHANGED <<live, proposal, role, token, inbox, reader>>

-----------------------------------------------------------------------------
(* What happens around the handlers. *)

ServerAbandons(k) ==
    /\ server[k].pc # "idle"
    /\ ServerEnds(k)
    /\ UNCHANGED <<live, geofence, proposal, role, token, inbox, reader>>

DeleteProperty ==
    /\ live
    /\ live' = FALSE
    /\ UNCHANGED <<geofence, proposal, server, role, token, inbox, reader>>

ChangeRole(u) ==
    \E new \in Career[u] :
        /\ new # role[u]
        /\ role' = [role EXCEPT ![u] = new]
        /\ server' = [k \in Server |-> IF server[k].user = u /\ new \in Admin
                                   THEN [server[k] EXCEPT !.admin = TRUE] ELSE server[k]]
        /\ UNCHANGED <<live, geofence, proposal, token, inbox, reader>>

LogIn(u) ==
    /\ role[u] # Null
    /\ token' = [token EXCEPT ![u] = role[u]]
    /\ UNCHANGED <<live, geofence, proposal, server, role, inbox, reader>>

LookAtFeed ==
    /\ Feed!InboxNext
    /\ UNCHANGED <<live, geofence, proposal, server, role, token>>

GNext ==
    \/ \E k \in Server :
          \/ ProposalLocks(k) \/ ProposalSaves(k)
          \/ DecideLocks(k) \/ DecideChecks(k) \/ FenceLocks(k) \/ DecideSaves(k)
          \/ CancelLocks(k) \/ CancelSaves(k)
          \/ FenceEditSaves(k)
          \/ ServerAbandons(k)
          \/ \E u \in User :
                \/ \E place \in Proposable : ProposalFinds(k, u, place)
                \/ \E c \in PropId, ends \in Decision : DecideArrives(k, u, c, ends)
                \/ \E place \in Editable : FenceEditLoads(k, u, place)
    \/ \E u \in User :
          \/ \E place \in Editable : AddFence(u, place)
          \/ DeleteFence(u)
          \/ ChangeRole(u)
          \/ LogIn(u)
    \/ DeleteProperty
    \/ LookAtFeed

GSpec == GInit /\ [][GNext]_gvars

-----------------------------------------------------------------------------
(* Properties. *)

\* One pending request, however submissions, decisions and cancellations
\* overlap ("a new request replaces the pending one"; "a concurrent second
\* submit hits the partial unique index").
OnePendingRequest == Cardinality(Pending) =< 1

\* A request that has been approved, rejected, cancelled or replaced is never
\* decided again ("Only pending requests can be reviewed or cancelled").
DecisionsAreFinal ==
    [][\A c \in PropId : proposal[c].status \in Decision => proposal'[c] = proposal[c]]_gvars

\* Whoever approves or rejects was an admin, by the stored role, at some time
\* since the request reached the server: an old token is not enough ("a
\* demoted or deactivated admin can't keep approving with an old token").
DecidedByAnAdmin ==
    [][\A c \in PropId :
          proposal[c].status = "pending" /\ proposal'[c].status \in {"approved", "rejected"}
          => /\ proposal'[c].reviewer # proposal[c].by
             /\ \E k \in Server : server[k].user = proposal'[c].reviewer /\ server[k].admin]_gvars

\* Every column of the live geofence was entered by an admin or approved, also
\* when direct edits and approvals overlap ("The live geofence is never
\* touched by a request until it is approved").
LiveGeofenceIsSanctioned ==
    LET places == Editable \cup {proposal[c].place : c \in {d \in PropId : proposal[d].status = "approved"}}
    IN  geofence # Null => /\ \E p \in places : geofence.center = p.center
                           /\ \E p \in places : geofence.radius = p.radius

\* The unread count never includes a request that has been decided, whatever
\* the users of the shared queue mark at the same time.
UnreadRequestsArePending ==
    \A c \in PropId : inbox[RequestItem(c)] = "unread" => proposal[c].status = "pending"
=============================================================================
