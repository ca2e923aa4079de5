---------------------------- MODULE GeofenceProofs ----------------------------
(***************************************************************************)
(* Geofence change requests and direct edits are safe for any number of    *)
(* users, requests, handlers and locations: one pending request, final     *)
(* decisions by admins, a live location of sanctioned values, and a feed   *)
(* without decided requests.                                               *)
(***************************************************************************)
EXTENDS GeofenceRequests, FiniteSetTheorems, TLAPS

\* The request rows a handler has locked, from its memory alone.
Holds(h) ==
    IF h.pc \in {"create_save", "decide_check", "fence_lock", "decide_save", "cancel_save"}
    THEN h.rows ELSE {}

Deciding == {"decide_check", "fence_lock", "decide_save"}
Cancelling == {"cancel_lock", "cancel_save"}

\* What a handler remembers is true of the tables, or true since it looked:
\* the rows it has locked are pending, a decision is of one row, not its own,
\* and by an admin, and a geofence row it has loaded exists.
HandlerOK(h) ==
    /\ h.pc # "idle" => h.user \in User
    /\ Holds(h) \subseteq Pending
    /\ h.pc \in Deciding \cup Cancelling \cup {"decide_lock"} => \A c, d \in h.rows : c = d
    /\ h.pc \in Deciding \cup {"decide_lock"} => h.ends \in {"approved", "rejected"}
    /\ h.pc \in Deciding => \A c \in h.rows : proposal[c].by # h.user
    /\ h.pc \in {"fence_lock", "decide_save"} => h.admin
    /\ h.user \in User /\ role[h.user] \in Admin => h.admin
    /\ h.pc \in {"create_lock", "create_save"} => h.place \in Place
    /\ h.pc = "edit_save" => h.place \in Editable
    /\ h.pc = "edit_save" /\ h.seen # Null => geofence # Null

\* No two handlers have locked the same row.
LocksExclude ==
    \A j, k \in Server : j # k => Holds(server[j]) \cap Holds(server[k]) = {}

Handlers == \A k \in Server : HandlerOK(server[k])

\* A request proposes a location, and at most one is pending.
Requests ==
    /\ \A c \in PropId : proposal[c].status # "unused" => proposal[c].place \in Place
    /\ \A c, d \in Pending : c = d

IInv ==
    /\ GTypeOK
    /\ LocksExclude
    /\ Handlers
    /\ Requests
    /\ LiveGeofenceIsSanctioned
    /\ UnreadRequestsArePending

-----------------------------------------------------------------------------
(* How the parts of the invariant survive a step. *)

\* An idle server remembers and holds nothing.
LEMMA FreeOK == FreeServer \in FenceHandler /\ HandlerOK(FreeServer) /\ Holds(FreeServer) = {}
<1>1. FreeServer \in FenceHandler
  BY DEF FreeServer, FenceHandler
<1>2. Holds(FreeServer) = {}
  BY DEF FreeServer, Holds
<1>3. FreeServer.user \notin User /\ FreeServer.pc = "idle"
  BY GeofenceAssumption DEF FreeServer
<1> QED
  BY <1>1, <1>2, <1>3 DEF HandlerOK, Deciding, Cancelling

\* What a handler remembers stays true while the rows it holds stay as they
\* are, the roles too, and the geofence is not deleted.
LEMMA StillOK ==
    ASSUME NEW h \in FenceHandler, HandlerOK(h), UNCHANGED role,
           geofence # Null => geofence' # Null,
           \A c \in Holds(h) : proposal'[c] = proposal[c]
    PROVE  HandlerOK(h)'
<1>1. Holds(h)' = Holds(h)
  BY DEF Holds
<1>2. Holds(h) \subseteq Pending'
  BY DEF HandlerOK, Pending
<1>3. ASSUME h.pc \in Deciding PROVE \A c \in h.rows : proposal'[c].by # h.user
  BY <1>3 DEF HandlerOK, Holds, Deciding
<1> QED
  BY <1>1, <1>2, <1>3 DEF HandlerOK, Deciding, Cancelling

\* A step that only changes what handler k remembers keeps the invariant if the
\* new memory is right and the rows it holds are held by nobody else.
LEMMA HandlerStep ==
    ASSUME IInv, NEW k \in Server, NEW h \in FenceHandler, HandlerOK(h),
           \A j \in Server \ {k} : Holds(server[j]) \cap Holds(h) = {},
           server' = [server EXCEPT ![k] = h],
           UNCHANGED <<live, geofence, proposal, role, token, inbox, reader>>
    PROVE  IInv'
<1>1. GTypeOK'
  BY DEF IInv, GTypeOK, Feed!InboxTypeOK
<1>2. \A j \in Server : server'[j] = IF j = k THEN h ELSE server[j]
  BY DEF IInv, GTypeOK
<1>3. LocksExclude'
  BY <1>2 DEF IInv, LocksExclude, Holds
<1>4. Handlers'
  <2>1. SUFFICES ASSUME NEW j \in Server PROVE HandlerOK(server[j])'
    BY DEF Handlers
  <2>2. CASE j = k
    BY <1>2, <2>2 DEF HandlerOK, Holds, Pending
  <2>3. CASE j # k
    BY <1>2, <2>3 DEF IInv, Handlers, HandlerOK, Holds, Pending
  <2> QED
    BY <2>2, <2>3
<1>5. Requests' /\ LiveGeofenceIsSanctioned' /\ UnreadRequestsArePending'
  BY DEF IInv, Requests, Pending, LiveGeofenceIsSanctioned, UnreadRequestsArePending
<1> QED
  BY <1>1, <1>3, <1>4, <1>5 DEF IInv

\* A commit of handler k keeps the invariant if it only changes rows k holds or
\* unused ones, and what it makes of the tables is in order.
LEMMA CommitStep ==
    ASSUME IInv, NEW k \in Server,
           server' = [server EXCEPT ![k] = FreeServer],
           UNCHANGED <<live, role, token, reader>>,
           geofence' \in Place \cup {Null},
           geofence # Null => geofence' # Null,
           proposal' \in [PropId -> Proposal],
           inbox' \in [Item -> Feed!Status],
           \A c \in PropId : \/ proposal'[c] = proposal[c]
                             \/ c \in Holds(server[k])
                             \/ proposal[c].status = "unused",
           Requests', LiveGeofenceIsSanctioned', UnreadRequestsArePending'
    PROVE  IInv'
<1>1. GTypeOK'
  BY FreeOK DEF IInv, GTypeOK, Feed!InboxTypeOK
<1>2. \A j \in Server : server'[j] = IF j = k THEN FreeServer ELSE server[j]
  BY DEF IInv, GTypeOK
<1>3. LocksExclude'
  BY <1>2, FreeOK DEF IInv, LocksExclude, Holds
<1>4. Handlers'
  <2>1. SUFFICES ASSUME NEW j \in Server PROVE HandlerOK(server[j])'
    BY DEF Handlers
  <2>2. CASE j = k
    <3>1. server'[j] = FreeServer
      BY <1>2, <2>2
    <3>2. FreeServer.user \notin User /\ FreeServer.pc = "idle"
      BY GeofenceAssumption DEF FreeServer
    <3> QED
      BY <3>1, <3>2 DEF HandlerOK, Holds, Deciding, Cancelling
  <2>3. CASE j # k
    <3>1. server'[j] = server[j] /\ server[j] \in FenceHandler /\ HandlerOK(server[j])
      BY <1>2, <2>3 DEF IInv, GTypeOK, Handlers
    <3>2. \A c \in Holds(server[j]) : c \in PropId /\ proposal'[c] = proposal[c]
      BY <2>3, <3>1 DEF IInv, LocksExclude, HandlerOK, Pending
    <3>3. \A h \in FenceHandler : h = server[j] => HandlerOK(h)'
      BY <3>1, <3>2, StillOK
    <3> QED
      BY <3>1, <3>3 DEF HandlerOK, Holds, Pending
  <2> QED
    BY <2>2, <2>3
<1> QED
  BY <1>1, <1>3, <1>4 DEF IInv

\* A step that leaves handlers, requests and roles alone keeps the invariant if
\* the feed and the geofence it leaves are in order.
LEMMA QuietStep ==
    ASSUME IInv, UNCHANGED <<proposal, server, role>>,
           live' \in BOOLEAN, geofence' \in Place \cup {Null},
           geofence # Null => geofence' # Null,
           token' \in [User -> Role],
           inbox' \in [Item -> Feed!Status], reader' \in [Reader -> Item \cup {Null}],
           LiveGeofenceIsSanctioned', UnreadRequestsArePending'
    PROVE  IInv'
<1>1. GTypeOK'
  BY DEF IInv, GTypeOK, Feed!InboxTypeOK
<1>2. LocksExclude' /\ Requests'
  BY DEF IInv, LocksExclude, Holds, Requests, Pending
<1>3. Handlers'
  BY DEF IInv, Handlers, HandlerOK, Holds, Pending
<1> QED
  BY <1>1, <1>2, <1>3 DEF IInv

-----------------------------------------------------------------------------
(* Handlers that begin, wait for locks and check. *)

\* The rows that count as locked are those the handlers hold.
LEMMA LocksAreHeld == \A k \in Server : LockedRows(k) = Holds(server[k])
BY DEF LockedRows, Holds

\* A handler that begins holds nothing yet.
LEMMA BeginStep ==
    ASSUME IInv, NEW k \in Server, NEW u \in User, NEW h \in FenceHandler, ServerBegins(k, u, h),
           h.pc \in {"create_lock", "decide_lock", "cancel_lock", "edit_save"},
           h.pc \in {"decide_lock", "cancel_lock"} => \A c, d \in h.rows : c = d,
           h.pc = "decide_lock" => h.ends \in {"approved", "rejected"},
           h.pc = "create_lock" => h.place \in Place,
           h.pc = "edit_save" => h.place \in Editable /\ geofence # Null,
           UNCHANGED <<live, geofence, proposal, role, token, inbox, reader>>
    PROVE  IInv'
<1>0. PICK b \in BOOLEAN : b = (role[u] \in Admin)
  <2>1. CASE role[u] \in Admin
    <3>1. TRUE = (role[u] \in Admin)
      BY <2>1
    <3> QED
      BY <3>1
  <2>2. CASE role[u] \notin Admin
    <3>1. FALSE = (role[u] \in Admin)
      BY <2>2
    <3> QED
      BY <3>1
  <2> QED
    BY <2>1, <2>2
<1> DEFINE s == [h EXCEPT !.user = u, !.admin = b]
<1>1. /\ s \in FenceHandler /\ s.pc = h.pc /\ s.user = u /\ s.rows = h.rows /\ s.ends = h.ends
      /\ s.place = h.place /\ s.seen = h.seen /\ s.admin = b
  BY DEF FenceHandler
<1>2. role[u] \in Admin => s.admin
  BY <1>0, <1>1
<1>3. server' = [server EXCEPT ![k] = s]
  BY <1>0 DEF ServerBegins
<1> HIDE DEF s
<1>4. Holds(s) = {}
  BY <1>1 DEF Holds
<1>5. HandlerOK(s)
  BY <1>1, <1>2, <1>4 DEF HandlerOK, Deciding, Cancelling
<1> QED
  BY <1>1, <1>3, <1>4, <1>5, HandlerStep

\* A handler that answers without having written anything.
LEMMA FinishStep ==
    ASSUME IInv, NEW k \in Server, ServerEnds(k),
           UNCHANGED <<live, geofence, proposal, role, token, inbox, reader>>
    PROVE  IInv'
BY FreeOK, HandlerStep DEF ServerEnds

LEMMA CreateFindsKeeps ==
    ASSUME IInv, NEW k \in Server, NEW u \in User, NEW place \in Proposable,
           ProposalFinds(k, u, place)
    PROVE  IInv'
<1> DEFINE h == [FreeServer EXCEPT !.pc = "create_lock", !.place = place, !.rows = Pending]
<1>1. place \in Place
  BY PlaceAssumption
<1>2. h \in FenceHandler /\ h.pc = "create_lock" /\ h.place = place
  BY <1>1, FreeOK DEF FreeServer, FenceHandler, Pending
<1>3. ServerBegins(k, u, h) /\ UNCHANGED <<live, geofence, proposal, role, token, inbox, reader>>
  BY DEF ProposalFinds
<1> HIDE DEF h
<1> QED
  BY <1>1, <1>2, <1>3, BeginStep

LEMMA DecideArrivesKeeps ==
    ASSUME IInv, NEW k \in Server, NEW u \in User, NEW c \in PropId, NEW ends \in Decision,
           DecideArrives(k, u, c, ends)
    PROVE  IInv'
<1> DEFINE h == [FreeServer EXCEPT !.ends = ends, !.rows = {c},
                             !.pc = IF ends = "cancelled" THEN "cancel_lock" ELSE "decide_lock"]
<1>1. h \in FenceHandler
  BY FreeOK DEF FreeServer, FenceHandler
<1>2. /\ h.pc \in {"cancel_lock", "decide_lock"} /\ h.rows = {c} /\ h.ends = ends
      /\ h.pc = "decide_lock" => ends \in {"approved", "rejected"}
  BY DEF FreeServer, Decision
<1>3. ServerBegins(k, u, h) /\ UNCHANGED <<live, geofence, proposal, role, token, inbox, reader>>
  BY DEF DecideArrives
<1> HIDE DEF h
<1> QED
  BY <1>1, <1>2, <1>3, BeginStep

LEMMA EditLoadsKeeps ==
    ASSUME IInv, NEW k \in Server, NEW u \in User, NEW place \in Editable, FenceEditLoads(k, u, place)
    PROVE  IInv'
<1> DEFINE h == [FreeServer EXCEPT !.pc = "edit_save", !.place = place, !.seen = geofence]
<1>1. h \in FenceHandler /\ h.pc = "edit_save" /\ h.place = place
  BY FreeOK, PlaceAssumption DEF FreeServer, FenceHandler, IInv, GTypeOK
<1>2. ServerBegins(k, u, h) /\ geofence # Null
      /\ UNCHANGED <<live, geofence, proposal, role, token, inbox, reader>>
  BY DEF FenceEditLoads
<1> HIDE DEF h
<1> QED
  BY <1>1, <1>2, BeginStep

\* The locks are granted when nobody else holds the rows.
LEMMA CreateLocksKeeps ==
    ASSUME IInv, NEW k \in Server, ProposalLocks(k)
    PROVE  IInv'
<1> DEFINE h == [server[k] EXCEPT !.pc = "create_save", !.rows = @ \cap Pending]
<1>1. server[k] \in FenceHandler /\ HandlerOK(server[k]) /\ server[k].pc = "create_lock"
  BY DEF IInv, GTypeOK, Handlers, ProposalLocks
<1>2. /\ h \in FenceHandler /\ h.pc = "create_save" /\ h.rows = server[k].rows \cap Pending
      /\ h.user = server[k].user /\ h.place = server[k].place /\ h.admin = server[k].admin
  BY <1>1 DEF FenceHandler
<1>3. server' = [server EXCEPT ![k] = h]
  BY DEF ProposalLocks, IInv, GTypeOK, FenceHandler
<1>4. \A j \in Server \ {k} : Holds(server[j]) \cap server[k].rows = {}
  BY LocksAreHeld DEF ProposalLocks, RowsFree
<1> HIDE DEF h
<1>5. Holds(h) = server[k].rows \cap Pending
  BY <1>2 DEF Holds
<1>6. HandlerOK(h)
  BY <1>1, <1>2, <1>5 DEF HandlerOK, Deciding, Cancelling
<1>7. \A j \in Server \ {k} : Holds(server[j]) \cap Holds(h) = {}
  BY <1>4, <1>5
<1>8. UNCHANGED <<live, geofence, proposal, role, token, inbox, reader>>
  BY DEF ProposalLocks
<1> QED
  BY <1>2, <1>3, <1>6, <1>7, <1>8, HandlerStep

\* A handler that goes on to its next step with the rows it has.
LEMMA StepOn ==
    ASSUME IInv, NEW k \in Server, NEW pc, ServerStep(k, pc),
           pc \in {"decide_check", "fence_lock", "decide_save", "cancel_save"},
           pc = "decide_check" => server[k].pc = "decide_lock",
           pc \in {"fence_lock", "decide_save"} =>
               server[k].pc \in Deciding /\ role[server[k].user] \in Admin,
           pc = "cancel_save" => server[k].pc = "cancel_lock",
           server[k].rows \subseteq Pending,
           \A j \in Server \ {k} : Holds(server[j]) \cap server[k].rows = {},
           pc = "decide_check" => \A c \in server[k].rows : proposal[c].by # server[k].user,
           UNCHANGED <<live, geofence, proposal, role, token, inbox, reader>>
    PROVE  IInv'
<1> DEFINE h == [server[k] EXCEPT !.pc = pc]
<1>1. server[k] \in FenceHandler /\ HandlerOK(server[k])
  BY DEF IInv, GTypeOK, Handlers
<1>2. /\ h \in FenceHandler /\ h.pc = pc /\ h.rows = server[k].rows /\ h.ends = server[k].ends
      /\ h.user = server[k].user /\ h.admin = server[k].admin
  BY <1>1 DEF FenceHandler
<1>3. server' = [server EXCEPT ![k] = h]
  BY DEF ServerStep, IInv, GTypeOK, FenceHandler
<1> HIDE DEF h
<1>4. Holds(h) = server[k].rows
  BY <1>2 DEF Holds
<1>5. server[k].user \in User
  BY <1>1 DEF HandlerOK, Deciding
<1>6. HandlerOK(h)
  BY <1>1, <1>2, <1>4, <1>5 DEF HandlerOK, Deciding, Cancelling
<1> QED
  BY <1>2, <1>3, <1>4, <1>6, HandlerStep

\* The handler decides one row; it goes on only if that row is pending and not
\* its own.
LEMMA DecideLocksKeeps ==
    ASSUME IInv, NEW k \in Server, DecideLocks(k)
    PROVE  IInv'
<1>1. PICK c \in server[k].rows : IF Reviewable(k, c) THEN ServerStep(k, "decide_check") ELSE ServerEnds(k)
  BY DEF DecideLocks
<1>2. server[k].pc = "decide_lock" /\ server[k].rows \subseteq PropId /\ HandlerOK(server[k])
  BY DEF DecideLocks, IInv, GTypeOK, Handlers, FenceHandler
<1>3. \A d \in server[k].rows : d = c
  BY <1>1, <1>2 DEF HandlerOK
<1>4. UNCHANGED <<live, geofence, proposal, role, token, inbox, reader>>
  BY DEF DecideLocks
<1>5. CASE ServerEnds(k)
  BY <1>4, <1>5, FinishStep
<1>6. CASE Reviewable(k, c) /\ ServerStep(k, "decide_check")
  <2>1. server[k].rows \subseteq Pending
    BY <1>2, <1>3, <1>6 DEF Reviewable, Pending
  <2>2. \A d \in server[k].rows : proposal[d].by # server[k].user
    BY <1>3, <1>6 DEF Reviewable
  <2>3. \A j \in Server \ {k} : Holds(server[j]) \cap server[k].rows = {}
    BY LocksAreHeld DEF DecideLocks, RowsFree
  <2> QED
    BY <1>2, <1>4, <1>6, <2>1, <2>2, <2>3, StepOn
<1> QED
  BY <1>1, <1>5, <1>6

LEMMA CancelLocksKeeps ==
    ASSUME IInv, NEW k \in Server, CancelLocks(k)
    PROVE  IInv'
<1>1. PICK c \in server[k].rows :
         IF proposal[c].by = server[k].user /\ proposal[c].status = "pending"
         THEN ServerStep(k, "cancel_save") ELSE ServerEnds(k)
  BY DEF CancelLocks
<1>2. server[k].pc = "cancel_lock" /\ server[k].rows \subseteq PropId /\ HandlerOK(server[k])
  BY DEF CancelLocks, IInv, GTypeOK, Handlers, FenceHandler
<1>3. \A d \in server[k].rows : d = c
  BY <1>1, <1>2 DEF HandlerOK, Cancelling
<1>4. UNCHANGED <<live, geofence, proposal, role, token, inbox, reader>>
  BY DEF CancelLocks
<1>5. CASE ServerEnds(k)
  BY <1>4, <1>5, FinishStep
<1>6. CASE proposal[c].status = "pending" /\ ServerStep(k, "cancel_save")
  <2>1. server[k].rows \subseteq Pending
    BY <1>2, <1>3, <1>6 DEF Pending
  <2>2. \A j \in Server \ {k} : Holds(server[j]) \cap server[k].rows = {}
    BY LocksAreHeld DEF CancelLocks, RowsFree
  <2> QED
    BY <1>2, <1>4, <1>6, <2>1, <2>2, StepOn
<1> QED
  BY <1>1, <1>5, <1>6

\* A handler that decides holds its rows already, and nobody else does.
LEMMA DecidingHolds ==
    ASSUME IInv, NEW k \in Server, server[k].pc \in Deciding \cup {"cancel_save"}
    PROVE  /\ server[k].rows = Holds(server[k])
           /\ server[k].rows \subseteq Pending
           /\ \A c, d \in server[k].rows : c = d
           /\ \A j \in Server \ {k} : Holds(server[j]) \cap server[k].rows = {}
<1>1. server[k].rows = Holds(server[k])
  BY DEF Holds, Deciding
<1>2. HandlerOK(server[k])
  BY DEF IInv, Handlers
<1> QED
  BY <1>1, <1>2 DEF HandlerOK, Cancelling, IInv, LocksExclude

\* A decision goes on only if its user is still an admin.
LEMMA DecideChecksKeeps ==
    ASSUME IInv, NEW k \in Server, DecideChecks(k)
    PROVE  IInv'
<1>1. server[k].pc = "decide_check" /\ UNCHANGED <<live, geofence, proposal, role, token, inbox, reader>>
  BY DEF DecideChecks
<1>2. CASE ServerEnds(k)
  BY <1>1, <1>2, FinishStep
<1>3. ASSUME NEW pc \in {"fence_lock", "decide_save"}, StillGeofenceAdmin(server[k].user), ServerStep(k, pc)
      PROVE  IInv'
  <2>1. role[server[k].user] \in Admin
    BY <1>3 DEF StillGeofenceAdmin
  <2> QED
    BY <1>1, <1>3, <2>1, DecidingHolds, StepOn DEF Deciding
<1> QED
  BY <1>2, <1>3 DEF DecideChecks

LEMMA FenceLocksKeeps ==
    ASSUME IInv, NEW k \in Server, FenceLocks(k)
    PROVE  IInv'
<1> DEFINE h == [server[k] EXCEPT !.pc = "decide_save", !.seen = geofence]
<1>1. server[k] \in FenceHandler /\ HandlerOK(server[k]) /\ server[k].pc = "fence_lock"
  BY DEF IInv, GTypeOK, Handlers, FenceLocks
<1>2. /\ h \in FenceHandler /\ h.pc = "decide_save" /\ h.rows = server[k].rows
      /\ h.ends = server[k].ends /\ h.user = server[k].user /\ h.admin = server[k].admin
  BY <1>1 DEF FenceHandler, IInv, GTypeOK
<1>3. server' = [server EXCEPT ![k] = h]
  BY DEF FenceLocks, IInv, GTypeOK, FenceHandler
<1> HIDE DEF h
<1>4. Holds(h) = server[k].rows
  BY <1>2 DEF Holds
<1>5. server[k].rows \subseteq Pending /\ \A j \in Server \ {k} : Holds(server[j]) \cap Holds(h) = {}
  BY <1>1, <1>4, DecidingHolds DEF Deciding
<1>6. HandlerOK(h)
  BY <1>1, <1>2, <1>4, <1>5 DEF HandlerOK, Deciding, Cancelling
<1> QED
  BY <1>2, <1>3, <1>5, <1>6, HandlerStep DEF FenceLocks

-----------------------------------------------------------------------------
(* The feed. *)

\* Items of requests and of outcomes are different items.
LEMMA ItemsDiffer ==
    ASSUME NEW c \in PropId, NEW d \in PropId
    PROVE  /\ RequestItem(c) \in Item /\ OutcomeItem(c) \in Item
           /\ RequestItem(c) = RequestItem(d) => c = d
           /\ RequestItem(c) # OutcomeItem(d)
BY DEF RequestItem, OutcomeItem, Item

\* Creating an item leaves the other items alone.
LEMMA CreatedEffect ==
    ASSUME NEW feed \in [Item -> Feed!Status], NEW i \in Item
    PROVE  /\ Feed!Created(i, feed) \in [Item -> Feed!Status]
           /\ \A j \in Item : j # i => Feed!Created(i, feed)[j] = feed[j]
BY DEF Feed!Created, Feed!Status

\* Resolving items leaves none of them unread and makes no other item unread.
LEMMA ActionedEffect ==
    ASSUME NEW feed \in [Item -> Feed!Status], NEW S
    PROVE  /\ Feed!Actioned(S, feed) \in [Item -> Feed!Status]
           /\ \A j \in Item : Feed!Actioned(S, feed)[j] = "unread" =>
                                 j \notin S /\ feed[j] = "unread"
BY DEF Feed!Actioned, Feed!Status

\* A decision leaves an unread item only for requests that had one and are
\* not decided.
LEMMA DecidedFeedEffect ==
    ASSUME inbox \in [Item -> Feed!Status], NEW c \in PropId, NEW feed \in DecidedFeed(c)
    PROVE  /\ feed \in [Item -> Feed!Status]
           /\ \A d \in PropId : feed[RequestItem(d)] = "unread" =>
                                   d # c /\ inbox[RequestItem(d)] = "unread"
<1> DEFINE actioned == Feed!Actioned({RequestItem(c)}, inbox)
<1>1. /\ actioned \in [Item -> Feed!Status]
      /\ \A j \in Item : actioned[j] = "unread" => j # RequestItem(c) /\ inbox[j] = "unread"
  BY ActionedEffect
<1>2. feed = actioned \/ feed = Feed!Created(OutcomeItem(c), actioned)
  BY DEF DecidedFeed, Feed!Notified
<1> HIDE DEF actioned
<1>3. /\ feed \in [Item -> Feed!Status]
      /\ \A d \in PropId : feed[RequestItem(d)] = actioned[RequestItem(d)]
  BY <1>1, <1>2, CreatedEffect, ItemsDiffer
<1> QED
  BY <1>1, <1>3, ItemsDiffer

\* Users looking at the feed never make an item unread.
LEMMA LookAtFeedKeeps ==
    ASSUME IInv, LookAtFeed
    PROVE  IInv'
<1>1. inbox \in [Item -> Feed!Status] /\ reader \in [Reader -> Item \cup {Null}]
  BY DEF IInv, GTypeOK, Feed!InboxTypeOK
<1>2. Feed!InboxNext /\ UNCHANGED <<live, geofence, proposal, server, role, token>>
  BY DEF LookAtFeed
<1> DEFINE Watched == IF Looking THEN {RequestItem(c) : c \in PropId} ELSE {}
<1>3. Watched \subseteq Item
  BY ItemsDiffer
<1>4. /\ inbox' \in [Item -> Feed!Status] /\ reader' \in [Reader -> Item \cup {Null}]
      /\ \A i \in Item : inbox'[i] = "unread" => inbox[i] = "unread"
  <2>1. ASSUME NEW k \in Reader, NEW i \in Watched, Feed!MarkReadLoads(k, i) PROVE <1>4
    BY <1>1, <1>3, <2>1 DEF Feed!MarkReadLoads
  <2>2. ASSUME NEW k \in Reader, Feed!MarkReadSaves(k) PROVE <1>4
    BY <1>1, <2>2 DEF Feed!MarkReadSaves, Feed!Status
  <2>3. ASSUME NEW i \in Watched, Feed!MarkItem(i) PROVE <1>4
    BY <1>1, <1>3, <2>3 DEF Feed!MarkItem, Feed!Status
  <2>4. ASSUME Feed!MarkAllRead(Watched) PROVE <1>4
    BY <1>1, <2>4 DEF Feed!MarkAllRead, Feed!Status
  <2> QED
    BY <1>2, <2>1, <2>2, <2>3, <2>4 DEF Feed!InboxNext
<1>5. UnreadRequestsArePending' /\ LiveGeofenceIsSanctioned'
  BY <1>2, <1>4, ItemsDiffer DEF IInv, UnreadRequestsArePending, LiveGeofenceIsSanctioned
<1> QED
  BY <1>2, <1>4, <1>5, QuietStep DEF IInv, GTypeOK

-----------------------------------------------------------------------------
(* Commits. *)

\* A sanctioned location stays sanctioned while approvals are kept.
LEMMA SanctionedStays ==
    ASSUME LiveGeofenceIsSanctioned, UNCHANGED geofence,
           \A c \in PropId : proposal[c].status = "approved" => proposal'[c] = proposal[c]
    PROVE  LiveGeofenceIsSanctioned'
BY DEF LiveGeofenceIsSanctioned

\* A submission replaces every request that is pending.
LEMMA CreateSavesKeeps ==
    ASSUME IInv, NEW k \in Server, ProposalSaves(k)
    PROVE  IInv'
<1> DEFINE me == server[k]
<1>1. /\ me \in FenceHandler /\ HandlerOK(me) /\ me.pc = "create_save"
      /\ inbox \in [Item -> Feed!Status] /\ proposal \in [PropId -> Proposal]
      /\ geofence \in Place \cup {Null}
  BY DEF IInv, GTypeOK, Feed!InboxTypeOK, Handlers, ProposalSaves
<1>2. /\ Holds(me) = me.rows /\ me.rows \subseteq Pending
      /\ me.place \in Place /\ me.user \in User
  BY <1>1 DEF Holds, HandlerOK
<1>3. CASE ~IndexAllows(k)
  BY <1>3, FinishStep DEF ProposalSaves
<1>4. CASE IndexAllows(k)
  <2>1. PICK new \in PropId :
          /\ proposal[new].status = "unused"
          /\ proposal' = [c \in PropId |->
                IF c = new THEN [NoProposal EXCEPT !.status = "pending", !.by = me.user,
                                                   !.place = me.place]
                ELSE IF c \in me.rows
                THEN [proposal[c] EXCEPT !.status = "cancelled", !.reviewer = me.user]
                ELSE proposal[c]]
          /\ inbox' = Feed!Created(RequestItem(new),
                         Feed!Actioned({RequestItem(c) : c \in me.rows}, inbox))
    BY <1>4 DEF ProposalSaves
  <2>2. UNCHANGED <<live, geofence, role, token, reader>> /\ server' = [server EXCEPT ![k] = FreeServer]
    BY DEF ProposalSaves, ServerEnds
  <2>3. Pending \subseteq me.rows
    BY <1>4 DEF IndexAllows
  <2>4. proposal'[new].status = "pending" /\ proposal'[new].place = me.place
        /\ proposal'[new] \in Proposal
    BY <1>2, <2>1 DEF NoProposal, Proposal
  <2>5. \A c \in me.rows : c # new => /\ proposal'[c].status = "cancelled"
                                      /\ proposal'[c].place = proposal[c].place
                                      /\ proposal'[c] \in Proposal
    BY <1>1, <1>2, <2>1 DEF Pending, Proposal, Decision
  <2>6. \A c \in PropId \ me.rows : c # new => proposal'[c] = proposal[c]
    BY <2>1
  <2>7. proposal' \in [PropId -> Proposal]
    <3>1. \A c \in PropId : proposal'[c] \in Proposal
      BY <1>1, <2>4, <2>5, <2>6
    <3> QED
      BY <2>1, <3>1
  <2>8. Pending' = {new}
    BY <2>3, <2>4, <2>5, <2>6 DEF Pending
  <2>9. Requests'
    BY <1>2, <2>4, <2>5, <2>6, <2>8 DEF IInv, Requests, Pending
  <2>10. LiveGeofenceIsSanctioned'
    BY <1>2, <2>1, <2>2, <2>6, SanctionedStays DEF IInv, Pending
  <2> DEFINE actioned == Feed!Actioned({RequestItem(c) : c \in me.rows}, inbox)
  <2>11. /\ actioned \in [Item -> Feed!Status]
         /\ \A j \in Item : actioned[j] = "unread" =>
               j \notin {RequestItem(c) : c \in me.rows} /\ inbox[j] = "unread"
    BY <1>1, ActionedEffect
  <2>12. inbox' = Feed!Created(RequestItem(new), actioned)
    BY <2>1
  <2> HIDE DEF actioned
  <2>13. inbox' \in [Item -> Feed!Status]
    BY <2>11, <2>12, CreatedEffect, ItemsDiffer
  <2>14. UnreadRequestsArePending'
    <3>1. SUFFICES ASSUME NEW c \in PropId, inbox'[RequestItem(c)] = "unread", c # new
                   PROVE  FALSE
      BY <2>4 DEF UnreadRequestsArePending
    <3>2. actioned[RequestItem(c)] = "unread"
      BY <2>11, <2>12, <3>1, CreatedEffect, ItemsDiffer
    <3>3. c \notin me.rows /\ inbox[RequestItem(c)] = "unread"
      BY <2>11, <3>2, ItemsDiffer
    <3> QED
      BY <2>3, <3>3 DEF IInv, UnreadRequestsArePending, Pending
  <2>15. \A c \in PropId : \/ proposal'[c] = proposal[c]
                           \/ c \in Holds(server[k])
                           \/ proposal[c].status = "unused"
    BY <1>2, <2>1, <2>6
  <2> QED
    BY <1>1, <2>2, <2>7, <2>9, <2>10, <2>13, <2>14, <2>15, CommitStep
<1> QED
  BY <1>3, <1>4

\* A decision of a row the handler holds, with or without its location.
LEMMA DecisionStep ==
    ASSUME IInv, NEW k \in Server, server[k].pc \in {"decide_save", "cancel_save"},
           NEW c \in server[k].rows, NEW ends \in Decision,
           proposal' = [proposal EXCEPT ![c].status = ends, ![c].reviewer = server[k].user],
           ServerEnds(k), UNCHANGED <<live, role, token, reader>>,
           inbox' \in [Item -> Feed!Status],
           \A d \in PropId : inbox'[RequestItem(d)] = "unread" =>
                                d # c /\ inbox[RequestItem(d)] = "unread",
           geofence' = geofence \/ (ends = "approved" /\ geofence' = proposal[c].place)
    PROVE  IInv'
<1>1. /\ server[k] \in FenceHandler /\ proposal \in [PropId -> Proposal]
      /\ geofence \in Place \cup {Null}
  BY DEF IInv, GTypeOK
<1>2. c \in Holds(server[k]) /\ c \in Pending /\ c \in PropId
  BY DecidingHolds DEF Deciding, Pending
<1>3. proposal[c].place \in Place /\ proposal[c].status = "pending"
  BY <1>2 DEF IInv, Requests, Pending
<1>4. /\ proposal' \in [PropId -> Proposal]
      /\ \A d \in PropId : d # c => proposal'[d] = proposal[d]
      /\ proposal'[c].status = ends /\ proposal'[c].place = proposal[c].place
  <2>1. server[k].user \in User \cup {Null}
    BY <1>1 DEF FenceHandler
  <2>2. [proposal[c] EXCEPT !.status = ends, !.reviewer = server[k].user] \in Proposal
    BY <1>1, <1>2, <2>1 DEF Proposal
  <2>3. proposal' = [proposal EXCEPT ![c] = [proposal[c] EXCEPT !.status = ends, !.reviewer = server[k].user]]
    BY <1>1, <1>2
  <2> QED
    BY <1>1, <1>2, <2>2, <2>3 DEF Proposal
<1>5. geofence' \in Place \cup {Null} /\ (geofence # Null => geofence' # Null)
  BY <1>1, <1>3, PlaceAssumption
<1>6. Pending' \subseteq Pending
  BY <1>4 DEF Pending, Decision
<1>7. Requests'
  BY <1>2, <1>3, <1>4, <1>6 DEF IInv, Requests
<1>8. LiveGeofenceIsSanctioned'
  <2>1. CASE geofence' = geofence
    BY <1>3, <1>4, <2>1, SanctionedStays DEF IInv
  <2>2. CASE ends = "approved" /\ geofence' = proposal[c].place
    BY <1>2, <1>4, <2>2 DEF LiveGeofenceIsSanctioned
  <2> QED
    BY <2>1, <2>2
<1>9. UnreadRequestsArePending'
  BY <1>4 DEF IInv, UnreadRequestsArePending
<1>10. server' = [server EXCEPT ![k] = FreeServer]
  BY DEF ServerEnds
<1>11. \A d \in PropId : \/ proposal'[d] = proposal[d]
                         \/ d \in Holds(server[k])
                         \/ proposal[d].status = "unused"
  BY <1>2, <1>4
<1> QED
  BY <1>4, <1>5, <1>7, <1>8, <1>9, <1>10, <1>11, CommitStep

LEMMA DecideSavesKeeps ==
    ASSUME IInv, NEW k \in Server, DecideSaves(k)
    PROVE  IInv'
<1> DEFINE me == server[k]
<1>1. me.pc = "decide_save" /\ ServerEnds(k) /\ UNCHANGED <<live, role, token, reader>>
  BY DEF DecideSaves
<1>2. me.ends \in {"approved", "rejected"} /\ inbox \in [Item -> Feed!Status] /\ me.rows \subseteq PropId
  BY <1>1 DEF IInv, GTypeOK, FenceHandler, Feed!InboxTypeOK, Handlers, HandlerOK, Deciding
<1>3. CASE UNCHANGED <<geofence, proposal, inbox>>
  BY <1>1, <1>3, FinishStep
<1>4. CASE \E c \in me.rows :
              /\ proposal' = [proposal EXCEPT ![c].status = me.ends, ![c].reviewer = me.user]
              /\ geofence' = IF AppliesPlace(k) THEN proposal[c].place ELSE geofence
              /\ inbox' \in DecidedFeed(c)
  <2>1. PICK c \in me.rows :
              /\ proposal' = [proposal EXCEPT ![c].status = me.ends, ![c].reviewer = me.user]
              /\ geofence' = IF AppliesPlace(k) THEN proposal[c].place ELSE geofence
              /\ inbox' \in DecidedFeed(c)
    BY <1>4
  <2>2. geofence' = geofence \/ (me.ends = "approved" /\ geofence' = proposal[c].place)
    BY <2>1 DEF AppliesPlace
  <2>3. /\ inbox' \in [Item -> Feed!Status]
        /\ \A d \in PropId : inbox'[RequestItem(d)] = "unread" =>
                                d # c /\ inbox[RequestItem(d)] = "unread"
    BY <1>2, <2>1, DecidedFeedEffect
  <2>4. me.ends \in Decision
    BY <1>2 DEF Decision
  <2> QED
    BY <1>1, <2>1, <2>2, <2>3, <2>4, DecisionStep
<1> QED
  BY <1>3, <1>4 DEF DecideSaves

LEMMA CancelSavesKeeps ==
    ASSUME IInv, NEW k \in Server, CancelSaves(k)
    PROVE  IInv'
<1>1. PICK c \in server[k].rows :
          /\ proposal' = [proposal EXCEPT ![c].status = "cancelled", ![c].reviewer = server[k].user]
          /\ inbox' = Feed!Actioned({RequestItem(c)}, inbox)
  BY DEF CancelSaves
<1>2. /\ server[k].pc = "cancel_save" /\ ServerEnds(k) /\ UNCHANGED <<live, role, token, reader, geofence>>
      /\ inbox \in [Item -> Feed!Status] /\ server[k].rows \subseteq PropId
  BY DEF CancelSaves, IInv, GTypeOK, Feed!InboxTypeOK, FenceHandler
<1>3. /\ inbox' \in [Item -> Feed!Status]
      /\ \A d \in PropId : inbox'[RequestItem(d)] = "unread" =>
                              d # c /\ inbox[RequestItem(d)] = "unread"
  BY <1>1, <1>2, ActionedEffect, ItemsDiffer
<1>4. "cancelled" \in Decision
  BY DEF Decision
<1> QED
  BY <1>1, <1>2, <1>3, <1>4, DecisionStep

-----------------------------------------------------------------------------
(* Direct edits, roles and what happens around the handlers. *)

LEMMA AddFenceKeeps ==
    ASSUME IInv, NEW u \in User, NEW place \in Editable, AddFence(u, place)
    PROVE  IInv'
<1>1. geofence = Null /\ geofence' = place /\ place \in Place
      /\ UNCHANGED <<live, proposal, server, role, token, inbox, reader>>
  BY PlaceAssumption DEF AddFence
<1>2. LiveGeofenceIsSanctioned' /\ UnreadRequestsArePending'
  BY <1>1 DEF IInv, LiveGeofenceIsSanctioned, UnreadRequestsArePending
<1> QED
  BY <1>1, <1>2, QuietStep DEF IInv, GTypeOK, Feed!InboxTypeOK

\* An edit writes columns an admin entered; the others stay.
LEMMA EditSavesKeeps ==
    ASSUME IInv, NEW k \in Server, FenceEditSaves(k)
    PROVE  IInv'
<1> DEFINE seen == server[k].seen
           place == server[k].place
<1>1. /\ server[k].pc = "edit_save" /\ HandlerOK(server[k]) /\ geofence \in Place \cup {Null}
      /\ proposal \in [PropId -> Proposal] /\ inbox \in [Item -> Feed!Status]
  BY DEF FenceEditSaves, IInv, Handlers, GTypeOK, Feed!InboxTypeOK
<1>2. place \in Editable /\ place \in Place /\ (seen # Null => geofence # Null)
  BY <1>1, PlaceAssumption DEF HandlerOK
<1>3. server' = [server EXCEPT ![k] = FreeServer] /\ UNCHANGED <<live, proposal, role, token, inbox, reader>>
  BY DEF FenceEditSaves, ServerEnds
<1>4. geofence' \in Place \cup {Null} /\ (geofence # Null => geofence' # Null)
      /\ LiveGeofenceIsSanctioned'
  <2>1. CASE seen = Null
    BY <1>1, <1>3, <2>1, SanctionedStays DEF FenceEditSaves, IInv
  <2>2. CASE seen # Null
    <3>1. PICK center, radius :
             /\ geofence' = [center |-> center, radius |-> radius]
             /\ center = place.center \/ center = geofence.center
             /\ radius = place.radius \/ radius = geofence.radius
      BY <2>2 DEF FenceEditSaves
    <3>2. geofence \in Place
      BY <1>1, <1>2, <2>2
    <3>3. geofence' \in Place
      BY <1>2, <3>1, <3>2 DEF Place
    <3>4. geofence'.center = center /\ geofence'.radius = radius
      BY <3>1
    <3>5. LiveGeofenceIsSanctioned'
      BY <1>2, <1>3, <2>2, <3>1, <3>4 DEF IInv, LiveGeofenceIsSanctioned
    <3> QED
      BY <3>3, <3>5, PlaceAssumption
  <2> QED
    BY <2>1, <2>2
<1>5. Requests' /\ UnreadRequestsArePending'
  BY <1>3 DEF IInv, Requests, Pending, UnreadRequestsArePending
<1> QED
  BY <1>1, <1>3, <1>4, <1>5, CommitStep

\* Deleting the geofence makes every loaded copy of it void.
LEMMA DeleteFenceKeeps ==
    ASSUME IInv, NEW u \in User, DeleteFence(u)
    PROVE  IInv'
<1>1. /\ geofence' = Null /\ server \in [Server -> FenceHandler]
      /\ server' = [k \in Server |-> IF server[k].pc = "edit_save" THEN [server[k] EXCEPT !.seen = Null]
                                 ELSE server[k]]
      /\ UNCHANGED <<live, proposal, role, token, inbox, reader>>
  BY DEF DeleteFence, IInv, GTypeOK
<1>2. ASSUME NEW k \in Server
      PROVE  /\ server'[k] \in FenceHandler /\ server'[k].pc = server[k].pc /\ server'[k].user = server[k].user
             /\ server'[k].ends = server[k].ends /\ server'[k].rows = server[k].rows
             /\ server'[k].place = server[k].place /\ server'[k].admin = server[k].admin
             /\ server'[k].pc = "edit_save" => server'[k].seen = Null
  BY <1>1 DEF FenceHandler
<1>3. GTypeOK'
  BY <1>1, <1>2 DEF IInv, GTypeOK, Feed!InboxTypeOK
<1>4. LocksExclude'
  BY <1>2 DEF IInv, LocksExclude, Holds
<1>5. Handlers'
  <2>1. SUFFICES ASSUME NEW k \in Server PROVE HandlerOK(server[k])'
    BY DEF Handlers
  <2>2. HandlerOK(server[k])
    BY DEF IInv, Handlers
  <2> QED
    BY <1>1, <1>2, <2>2 DEF HandlerOK, Holds, Pending
<1>6. Requests' /\ LiveGeofenceIsSanctioned' /\ UnreadRequestsArePending'
  BY <1>1 DEF IInv, Requests, Pending, LiveGeofenceIsSanctioned, UnreadRequestsArePending
<1> QED
  BY <1>3, <1>4, <1>5, <1>6 DEF IInv

\* A change of role is noted in the handlers of the user.
LEMMA ChangeRoleKeeps ==
    ASSUME IInv, NEW u \in User, ChangeRole(u)
    PROVE  IInv'
<1>1. PICK new \in Career[u] :
         /\ role' = [role EXCEPT ![u] = new]
         /\ server' = [k \in Server |-> IF server[k].user = u /\ new \in Admin
                                    THEN [server[k] EXCEPT !.admin = TRUE] ELSE server[k]]
  BY DEF ChangeRole
<1>2. UNCHANGED <<live, geofence, proposal, token, inbox, reader>> /\ server \in [Server -> FenceHandler]
      /\ role \in [User -> Role \cup {Null}] /\ new \in Role \cup {Null}
  BY GeofenceAssumption DEF ChangeRole, IInv, GTypeOK, Role
<1>3. ASSUME NEW k \in Server
      PROVE  /\ server'[k] \in FenceHandler /\ server'[k].pc = server[k].pc /\ server'[k].user = server[k].user
             /\ server'[k].ends = server[k].ends /\ server'[k].rows = server[k].rows
             /\ server'[k].place = server[k].place /\ server'[k].seen = server[k].seen
             /\ server[k].admin => server'[k].admin
             /\ server[k].user = u /\ new \in Admin => server'[k].admin
  BY <1>1, <1>2 DEF FenceHandler
<1>4. GTypeOK'
  BY <1>1, <1>2, <1>3 DEF IInv, GTypeOK, Feed!InboxTypeOK
<1>5. LocksExclude'
  BY <1>3 DEF IInv, LocksExclude, Holds
<1>6. Handlers'
  <2>1. SUFFICES ASSUME NEW k \in Server PROVE HandlerOK(server[k])'
    BY DEF Handlers
  <2>2. HandlerOK(server[k])
    BY DEF IInv, Handlers
  <2>3. server[k].user \in User /\ role'[server[k].user] \in Admin => server'[k].admin
    BY <1>1, <1>2, <1>3, <2>2 DEF HandlerOK
  <2> QED
    BY <1>2, <1>3, <2>2, <2>3 DEF HandlerOK, Holds, Pending
<1>7. Requests' /\ LiveGeofenceIsSanctioned' /\ UnreadRequestsArePending'
  BY <1>2 DEF IInv, Requests, Pending, LiveGeofenceIsSanctioned, UnreadRequestsArePending
<1> QED
  BY <1>4, <1>5, <1>6, <1>7 DEF IInv

\* Logging in and deleting the property touch nothing the invariant speaks of.
LEMMA LogInKeeps ==
    ASSUME IInv, DeleteProperty \/ \E u \in User : LogIn(u)
    PROVE  IInv'
<1>1. /\ UNCHANGED <<geofence, proposal, server, role, inbox, reader>>
      /\ live' \in BOOLEAN /\ token' \in [User -> Role]
  BY DEF DeleteProperty, LogIn, IInv, GTypeOK
<1>2. LiveGeofenceIsSanctioned' /\ UnreadRequestsArePending'
  BY <1>1 DEF IInv, LiveGeofenceIsSanctioned, UnreadRequestsArePending
<1> QED
  BY <1>1, <1>2, QuietStep DEF IInv, GTypeOK, Feed!InboxTypeOK

-----------------------------------------------------------------------------
(* The theorems. *)

\* The invariant holds initially.
LEMMA InitIInv == GInit => IInv
<1> SUFFICES ASSUME GInit PROVE IInv
  OBVIOUS
<1>1. GTypeOK
  <2>1. Feed!InboxTypeOK
    BY DEF GInit, Feed!InboxInit, Feed!InboxTypeOK, Feed!Status
  <2>2. NoProposal \in Proposal
    BY DEF NoProposal, Proposal
  <2> QED
    BY <2>1, <2>2, FreeOK, PlaceAssumption DEF GInit, GTypeOK
<1>2. Pending = {}
  BY DEF GInit, Pending, NoProposal
<1>3. LocksExclude /\ Handlers
  BY FreeOK DEF GInit, LocksExclude, Handlers
<1>4. Requests
  BY <1>2 DEF GInit, Requests, NoProposal
<1>5. LiveGeofenceIsSanctioned
  BY DEF GInit, LiveGeofenceIsSanctioned
<1>6. UnreadRequestsArePending
  BY ItemsDiffer DEF GInit, UnreadRequestsArePending, Feed!InboxInit
<1> QED
  BY <1>1, <1>3, <1>4, <1>5, <1>6 DEF IInv

\* Every step keeps the invariant.
LEMMA NextIInv == IInv /\ [GNext]_gvars => IInv'
<1> SUFFICES ASSUME IInv, [GNext]_gvars PROVE IInv'
  OBVIOUS
<1>1. ASSUME NEW k \in Server, ProposalLocks(k) \/ DecideLocks(k) \/ DecideChecks(k)
                             \/ FenceLocks(k) \/ CancelLocks(k)
      PROVE  IInv'
  BY <1>1, CreateLocksKeeps, DecideLocksKeeps, DecideChecksKeeps, FenceLocksKeeps, CancelLocksKeeps
<1>2. ASSUME NEW k \in Server, ProposalSaves(k) \/ DecideSaves(k) \/ CancelSaves(k) \/ FenceEditSaves(k)
      PROVE  IInv'
  BY <1>2, CreateSavesKeeps, DecideSavesKeeps, CancelSavesKeeps, EditSavesKeeps
<1>3. ASSUME NEW k \in Server, ServerAbandons(k) PROVE IInv'
  BY <1>3, FinishStep DEF ServerAbandons
<1>4. ASSUME NEW k \in Server, NEW u \in User,
             \/ \E place \in Proposable : ProposalFinds(k, u, place)
             \/ \E c \in PropId, ends \in Decision : DecideArrives(k, u, c, ends)
             \/ \E place \in Editable : FenceEditLoads(k, u, place)
      PROVE  IInv'
  BY <1>4, CreateFindsKeeps, DecideArrivesKeeps, EditLoadsKeeps
<1>5. ASSUME NEW u \in User,
             (\E place \in Editable : AddFence(u, place)) \/ DeleteFence(u) \/ ChangeRole(u)
      PROVE  IInv'
  BY <1>5, AddFenceKeeps, DeleteFenceKeeps, ChangeRoleKeeps
<1>6. CASE DeleteProperty \/ \E u \in User : LogIn(u)
  BY <1>6, LogInKeeps
<1>7. CASE LookAtFeed
  BY <1>7, LookAtFeedKeeps
<1>8. CASE UNCHANGED gvars
  BY <1>8 DEF gvars, IInv, GTypeOK, Feed!InboxTypeOK, LocksExclude, Holds, Handlers, HandlerOK,
              Pending, Requests, LiveGeofenceIsSanctioned, UnreadRequestsArePending
<1> QED
  BY <1>1, <1>2, <1>3, <1>4, <1>5, <1>6, <1>7, <1>8 DEF GNext

\* The strengthened invariant holds of every behaviour.
THEOREM Invariance == GSpec => []IInv
BY InitIInv, NextIInv, PTL DEF GSpec

\* The tables, the handlers' memories and the feed keep their types.
THEOREM TypeCorrect == GSpec => []GTypeOK
<1>1. IInv => GTypeOK
  BY DEF IInv
<1> QED
  BY <1>1, Invariance, PTL

\* However many submissions, decisions and cancellations overlap, at most one
\* request is pending.
THEOREM OnePending == GSpec => []OnePendingRequest
<1>1. IInv => OnePendingRequest
  <2>1. SUFFICES ASSUME IInv PROVE Cardinality(Pending) =< 1
    BY DEF OnePendingRequest
  <2>2. CASE Pending = {}
    BY <2>2, FS_EmptySet
  <2>3. CASE Pending # {}
    <3>1. PICK c : Pending = {c}
      BY <2>1, <2>3 DEF IInv, Requests
    <3> QED
      BY <3>1, FS_Singleton
  <2> QED
    BY <2>2, <2>3
<1> QED
  BY <1>1, Invariance, PTL

\* The live geofence has only values an admin entered or approved.
THEOREM LiveIsSanctioned == GSpec => []LiveGeofenceIsSanctioned
<1>1. IInv => LiveGeofenceIsSanctioned
  BY DEF IInv
<1> QED
  BY <1>1, Invariance, PTL

\* No decided request is unread, whatever the users of the feed do.
THEOREM UnreadArePending == GSpec => []UnreadRequestsArePending
<1>1. IInv => UnreadRequestsArePending
  BY DEF IInv
<1> QED
  BY <1>1, Invariance, PTL

\* Only three commits write requests.
LEMMA WhoWrites ==
    ASSUME [GNext]_gvars
    PROVE  \/ UNCHANGED proposal
           \/ \E k \in Server : ProposalSaves(k) \/ DecideSaves(k) \/ CancelSaves(k)
BY DEF GNext, gvars, ProposalFinds, ProposalLocks, DecideArrives, DecideLocks, DecideChecks, FenceLocks,
       CancelLocks, AddFence, FenceEditLoads, FenceEditSaves, DeleteFence, ServerAbandons, DeleteProperty,
       ChangeRole, LogIn, LookAtFeed

\* What a commit makes of a request that is pending or decided.
LEMMA WhatIsWritten ==
    ASSUME IInv, [GNext]_gvars, NEW c \in PropId, proposal'[c] # proposal[c]
    PROVE  /\ proposal[c].status \in {"unused", "pending"}
           /\ proposal[c].status = "pending" =>
                 \/ proposal'[c].status = "cancelled"
                 \/ \E k \in Server : /\ server[k].pc = "decide_save" /\ c \in server[k].rows
                                    /\ proposal'[c].reviewer = server[k].user
<1> DEFINE Result(k) == /\ proposal[c].status \in {"unused", "pending"}
                        /\ proposal[c].status = "pending" =>
                              \/ proposal'[c].status = "cancelled"
                              \/ /\ server[k].pc = "decide_save" /\ c \in server[k].rows
                                 /\ proposal'[c].reviewer = server[k].user
<1>1. proposal \in [PropId -> Proposal]
  BY DEF IInv, GTypeOK
<1>2. ASSUME NEW k \in Server, ProposalSaves(k) PROVE Result(k)
  <2>1. server[k].rows \subseteq Pending
    <3>1. HandlerOK(server[k]) /\ server[k].pc = "create_save"
      BY <1>2 DEF IInv, Handlers, ProposalSaves
    <3> QED
      BY <3>1 DEF HandlerOK, Holds
  <2>2. PICK new \in PropId :
          /\ proposal[new].status = "unused"
          /\ proposal' = [d \in PropId |->
                IF d = new THEN [NoProposal EXCEPT !.status = "pending", !.by = server[k].user,
                                                   !.place = server[k].place]
                ELSE IF d \in server[k].rows
                THEN [proposal[d] EXCEPT !.status = "cancelled", !.reviewer = server[k].user]
                ELSE proposal[d]]
    BY <1>2 DEF ProposalSaves
  <2>3. CASE c = new
    BY <2>2, <2>3
  <2>4. CASE c # new /\ c \in server[k].rows
    BY <1>1, <2>1, <2>2, <2>4 DEF Pending, Proposal
  <2> QED
    BY <2>2, <2>3, <2>4
<1>3. ASSUME NEW k \in Server, DecideSaves(k) PROVE Result(k)
  <2>1. server[k].pc = "decide_save" /\ server[k].rows \subseteq Pending
    BY <1>3, DecidingHolds DEF DecideSaves, Deciding
  <2>2. PICK d \in server[k].rows :
          proposal' = [proposal EXCEPT ![d].status = server[k].ends, ![d].reviewer = server[k].user]
    BY <1>3 DEF DecideSaves
  <2>3. c = d
    BY <1>1, <2>2
  <2> QED
    BY <1>1, <2>1, <2>2, <2>3 DEF Pending, Proposal
<1>4. ASSUME NEW k \in Server, CancelSaves(k) PROVE Result(k)
  <2>1. server[k].pc = "cancel_save" /\ server[k].rows \subseteq Pending
    BY <1>4, DecidingHolds DEF CancelSaves
  <2>2. PICK d \in server[k].rows :
          proposal' = [proposal EXCEPT ![d].status = "cancelled", ![d].reviewer = server[k].user]
    BY <1>4 DEF CancelSaves
  <2>3. c = d
    BY <1>1, <2>2
  <2> QED
    BY <1>1, <2>1, <2>2, <2>3 DEF Pending, Proposal
<1> QED
  BY <1>2, <1>3, <1>4, WhoWrites

\* A decision is never overwritten.
THEOREM DecisionsStand == GSpec => DecisionsAreFinal
<1>1. IInv /\ [GNext]_gvars =>
        [\A c \in PropId : proposal[c].status \in Decision => proposal'[c] = proposal[c]]_gvars
  BY WhatIsWritten DEF Decision
<1> QED
  BY <1>1, Invariance, PTL DEF GSpec, DecisionsAreFinal

\* Whoever approves or rejects is not the author, and was an admin by the
\* stored role while the request was served.
THEOREM AdminsDecide == GSpec => DecidedByAnAdmin
<1> DEFINE ByAnAdmin(c) ==
      proposal[c].status = "pending" /\ proposal'[c].status \in {"approved", "rejected"}
      => /\ proposal'[c].reviewer # proposal[c].by
         /\ \E k \in Server : server[k].user = proposal'[c].reviewer /\ server[k].admin
<1>1. ASSUME IInv, [GNext]_gvars, NEW c \in PropId PROVE ByAnAdmin(c)
  <2>1. SUFFICES ASSUME proposal[c].status = "pending",
                        proposal'[c].status \in {"approved", "rejected"}
                 PROVE  /\ proposal'[c].reviewer # proposal[c].by
                        /\ \E k \in Server : server[k].user = proposal'[c].reviewer /\ server[k].admin
    OBVIOUS
  <2>2. PICK k \in Server : /\ server[k].pc = "decide_save" /\ c \in server[k].rows
                          /\ proposal'[c].reviewer = server[k].user
    BY <1>1, <2>1, WhatIsWritten
  <2>3. HandlerOK(server[k])
    BY <1>1 DEF IInv, Handlers
  <2> QED
    BY <2>2, <2>3 DEF HandlerOK, Deciding
<1>2. IInv /\ [GNext]_gvars => [\A c \in PropId : ByAnAdmin(c)]_gvars
  BY <1>1
<1> QED
  BY <1>2, Invariance, PTL DEF GSpec, DecidedByAnAdmin
=============================================================================
