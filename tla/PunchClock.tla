------------------------------ MODULE PunchClock ------------------------------
(***************************************************************************)
(* Punch in, punch out and status text of the staff of one property        *)
(* (app/services/attendance_service.py and the handlers that call it).     *)
(*                                                                         *)
(* Every request runs in a database session of its own, at READ COMMITTED, *)
(* and is served by one of several workers.  A handler therefore reads the *)
(* open records in one step and writes them in a later one, and other      *)
(* requests may commit in between.  The ORM writes back only the columns   *)
(* it changed, by primary key and without a version check, so the last     *)
(* commit wins column by column.  request[q] is what the handler serving   *)
(* request q holds in memory between its steps.                            *)
(*                                                                         *)
(* Time is counted in hours.  Coordinates are abstracted to the distance   *)
(* from the geofence's centre and the reported accuracy.                   *)
(***************************************************************************)
EXTENDS Integers, FiniteSets

CONSTANTS
    User,                \* members of staff
    Req,                 \* slots for requests that are served at the same time
    RecId,               \* rows of attendance_records
    None,                \* SQL NULL
    StatusText,          \* values of the current_status column
    Radius,              \* radii a geofence may be given
    Location,            \* [distance, accuracy] a phone may report
    STALE_SHIFT_HOURS,   \* an open record older than this is a forgotten one
    MAX_ACCURACY,        \* a worse GPS accuracy is refused
    Horizon,             \* bound: the clock stops here
    RequestsPerUser      \* bound: requests of one user served at the same time

ASSUME NoneAssumption ==
    /\ None \notin Int
    /\ None \notin User
    /\ None \notin StatusText
    /\ None \notin RecId

ASSUME ConstantsAssumption ==
    /\ STALE_SHIFT_HOURS \in Nat
    /\ MAX_ACCURACY \in Nat
    /\ Horizon \in Nat
    /\ RequestsPerUser \in Nat
    /\ Radius \subseteq Nat
    /\ Location \subseteq [distance : Nat, accuracy : Nat \cup {None}]

VARIABLES
    clock,      \* datetime.now(timezone.utc), in hours
    geofence,   \* radius of the property's geofence, None when it has none
    records,    \* the table attendance_records; status "unused" is no row
    request     \* request[q]: the handler serving q

vars == <<clock, geofence, records, request>>

Time == 0 .. Horizon
Text == StatusText \cup {None}

\* The rows a query returned, each with the current_status it was loaded with.
Loaded == UNION {[S -> Text] : S \in SUBSET RecId}

Record == [status : {"unused", "active", "completed", "auto_closed"},
           user   : User \cup {None},
           in     : Time,
           out    : Int \cup {None},
           hours  : Int \cup {None},
           cur    : Text]

Session == [pc   : {"idle", "in_read", "in_check", "in_save",
                    "out_check", "out_save", "status_save"},
            user : User \cup {None},
            now  : Time,
            seen : Loaded,
            cur  : Text]

TypeOK ==
    /\ clock \in Time
    /\ geofence \in Radius \cup {None}
    /\ records \in [RecId -> Record]
    /\ request \in [Req -> Session]

Nothing == [r \in {} |-> None]
Idle == [pc |-> "idle", user |-> None, now |-> 0, seen |-> Nothing, cur |-> None]
NoRow == [status |-> "unused", user |-> None, in |-> 0, out |-> None,
          hours |-> None, cur |-> None]

Init ==
    /\ clock = 0
    /\ geofence \in Radius \cup {None}
    /\ records = [r \in RecId |-> NoRow]
    /\ request = [q \in Req |-> Idle]

-----------------------------------------------------------------------------
(* Helpers of the service. *)

IsStale(rec, now) == now - rec.in > STALE_SHIFT_HOURS

\* Mutant: auto_close invents a punch-out time.
AutoCloseStamping(rec, loadedCur) ==
    [rec EXCEPT !.status = "auto_closed", !.out = rec.in + STALE_SHIFT_HOURS]

\* auto_close: only columns whose value changes are written back, so a status
\* text that was NULL when loaded is not overwritten with NULL.
AutoClose(rec, loadedCur) ==
    [rec EXCEPT !.status = "auto_closed",
                !.cur = IF loadedCur = None THEN @ ELSE None]

\* The normal end of create_punch_out.
Complete(rec, now) ==
    [rec EXCEPT !.status = "completed", !.out = now, !.hours = now - rec.in]

OpenRecords(u) ==
    {r \in RecId : /\ records[r].user = u
                   /\ records[r].status = "active"
                   /\ records[r].out = None}

\* The first row of ORDER BY punch_in_time DESC; equal times come in any order.
IsNewest(r, S) == r \in S /\ \A s \in S : records[s].in =< records[r].in

Load(S) == [r \in S |-> records[r].cur]

IsInsideFence(loc, radius) ==
    loc.distance - (IF loc.accuracy = None THEN 0 ELSE loc.accuracy) =< radius

LocationAccepted(loc) ==
    /\ geofence # None
    /\ loc.accuracy # None => loc.accuracy =< MAX_ACCURACY
    /\ IsInsideFence(loc, geofence)

-----------------------------------------------------------------------------
(* Serving a request. *)

InFlight(u) == {q \in Req : request[q].user = u}
MayStart(q, u) ==
    /\ request[q].pc = "idle"
    /\ Cardinality(InFlight(u)) < RequestsPerUser

\* Rows still free once every punch-in in flight has inserted its own.
RowLeft ==
    Cardinality({r \in RecId : records[r].status = "unused"}) >
    Cardinality({q \in Req : request[q].pc \in {"in_read", "in_check", "in_save"}})

Goto(q, pc) == request' = [request EXCEPT ![q].pc = pc]
Answer(q) == request' = [request EXCEPT ![q] = Idle]

(* POST /attendance/punch-in *)

PunchInArrives(q, u) ==
    /\ MayStart(q, u)
    /\ RowLeft
    /\ request' = [request EXCEPT ![q] =
                     [Idle EXCEPT !.pc = "in_read", !.user = u, !.now = clock]]
    /\ UNCHANGED <<clock, geofence, records>>

\* Mutant: the refusal is missing.
PunchInReadsUnguarded(q) ==
    /\ request[q].pc = "in_read"
    /\ request' = [request EXCEPT ![q].pc = "in_check",
                                  ![q].seen = Load(OpenRecords(request[q].user))]
    /\ UNCHANGED <<clock, geofence, records>>

\* Refused while any open record is not stale.
PunchInReads(q) ==
    LET open == OpenRecords(request[q].user)
    IN  /\ request[q].pc = "in_read"
        /\ IF \E r \in open : ~IsStale(records[r], request[q].now)
           THEN Answer(q)
           ELSE request' = [request EXCEPT ![q].pc = "in_check", ![q].seen = Load(open)]
        /\ UNCHANGED <<clock, geofence, records>>

PunchInChecks(q) ==
    /\ request[q].pc = "in_check"
    /\ \E loc \in Location :
          IF LocationAccepted(loc) THEN Goto(q, "in_save") ELSE Answer(q)
    /\ UNCHANGED <<clock, geofence, records>>

\* Mutant: the forgotten shifts are left open.
PunchInSavesOnly(q) ==
    /\ request[q].pc = "in_save"
    /\ \E new \in RecId :
          /\ records[new].status = "unused"
          /\ records' = [records EXCEPT ![new] =
                           [NoRow EXCEPT !.status = "active", !.user = request[q].user,
                                         !.in = request[q].now]]
    /\ Answer(q)
    /\ UNCHANGED <<clock, geofence>>

\* The stale records it read are closed and the new one is inserted, in one commit.
PunchInSaves(q) ==
    LET seen == request[q].seen
        row  == [NoRow EXCEPT !.status = "active", !.user = request[q].user,
                              !.in = request[q].now]
    IN  /\ request[q].pc = "in_save"
        /\ \E new \in RecId :
              /\ records[new].status = "unused"
              /\ records' = [r \in RecId |->
                               IF r = new THEN row
                               ELSE IF r \in DOMAIN seen THEN AutoClose(records[r], seen[r])
                               ELSE records[r]]
        /\ Answer(q)
        /\ UNCHANGED <<clock, geofence>>

(* POST /attendance/punch-out *)

PunchOutReads(q, u) ==
    /\ MayStart(q, u)
    /\ OpenRecords(u) # {}      \* otherwise answered 400 at once
    /\ request' = [request EXCEPT ![q] =
                     [Idle EXCEPT !.pc = "out_check", !.user = u,
                                  !.seen = Load(OpenRecords(u))]]
    /\ UNCHANGED <<clock, geofence, records>>

\* The punch-out time is taken after the location check.
PunchOutChecks(q) ==
    /\ request[q].pc = "out_check"
    /\ \E loc \in Location :
          IF LocationAccepted(loc)
          THEN request' = [request EXCEPT ![q].pc = "out_save", ![q].now = clock]
          ELSE Answer(q)
    /\ UNCHANGED <<clock, geofence, records>>

\* Every record it read is closed; only the newest, unless stale, gets hours.
PunchOutSaves(q) ==
    LET seen == request[q].seen
        now  == request[q].now
    IN  /\ request[q].pc = "out_save"
        /\ \E newest \in DOMAIN seen :
              /\ IsNewest(newest, DOMAIN seen)
              /\ records' = [r \in RecId |->
                               IF r \notin DOMAIN seen THEN records[r]
                               ELSE IF r = newest /\ ~IsStale(records[r], now)
                                    THEN Complete(records[r], now)
                                    ELSE AutoClose(records[r], seen[r])]
        /\ Answer(q)
        /\ UNCHANGED <<clock, geofence>>

(* PATCH /attendance/current-status *)

StatusReads(q, u, text) ==
    /\ MayStart(q, u)
    /\ \E newest \in OpenRecords(u) :
          /\ IsNewest(newest, OpenRecords(u))
          /\ request' = [request EXCEPT ![q] =
                           [Idle EXCEPT !.pc = "status_save", !.user = u, !.cur = text,
                                        !.seen = Load({newest})]]
    /\ UNCHANGED <<clock, geofence, records>>

\* Mutant: the whole row is written back as it was read.
StatusSavesWholeRow(q) ==
    LET seen == request[q].seen
    IN  /\ request[q].pc = "status_save"
        /\ records' = [r \in RecId |->
                         IF r \in DOMAIN seen
                         THEN [records[r] EXCEPT !.cur = request[q].cur, !.status = "active"]
                         ELSE records[r]]
        /\ Answer(q)
        /\ UNCHANGED <<clock, geofence>>

\* Nothing is written when the text equals the one that was loaded.
StatusSaves(q) ==
    LET seen == request[q].seen
    IN  /\ request[q].pc = "status_save"
        /\ records' = [r \in RecId |->
                         IF r \in DOMAIN seen /\ seen[r] # request[q].cur
                         THEN [records[r] EXCEPT !.cur = request[q].cur]
                         ELSE records[r]]
        /\ Answer(q)
        /\ UNCHANGED <<clock, geofence>>

-----------------------------------------------------------------------------
(* What happens around the requests. *)

\* A worker dies, or the database refuses the commit: nothing was written.
Abandon(q) ==
    /\ request[q].pc # "idle"
    /\ Answer(q)
    /\ UNCHANGED <<clock, geofence, records>>

\* An administrator creates, updates or deletes the property's geofence.
CreateGeofence(radius) ==
    /\ geofence = None
    /\ geofence' = radius
    /\ UNCHANGED <<clock, records, request>>

UpdateGeofence(radius) ==
    /\ geofence # None
    /\ geofence' = radius
    /\ UNCHANGED <<clock, records, request>>

DeleteGeofence ==
    /\ geofence # None
    /\ geofence' = None
    /\ UNCHANGED <<clock, records, request>>

Tick ==
    /\ clock < Horizon
    /\ clock' = clock + 1
    /\ UNCHANGED <<geofence, records, request>>

Handle(q) ==
    \/ \E u \in User :
          \/ PunchInArrives(q, u)
          \/ PunchOutReads(q, u)
          \/ \E text \in Text : StatusReads(q, u, text)
    \/ PunchInReads(q)
    \/ PunchInChecks(q)
    \/ PunchInSaves(q)
    \/ PunchOutChecks(q)
    \/ PunchOutSaves(q)
    \/ StatusSaves(q)
    \/ Abandon(q)

Next ==
    \/ \E q \in Req : Handle(q)
    \/ \E radius \in Radius : CreateGeofence(radius) \/ UpdateGeofence(radius)
    \/ DeleteGeofence
    \/ Tick

Spec == Init /\ [][Next]_vars

-----------------------------------------------------------------------------
(* Properties that hold whatever the requests of a user overlap with. *)

Closed(r) == records[r].status \in {"completed", "auto_closed"}

\* Paid hours are exactly the time between the two punches, never negative and
\* never more than a plausible shift, and a shift that counts as worked has
\* them (attendance_service.py: hours_worked is computed from the times the
\* same commit writes, so overlapping punch-outs cannot mix two shifts).
HoursMatchPunches ==
    \A r \in RecId :
        LET rec == records[r] IN
        /\ rec.hours = None <=> rec.out = None
        /\ rec.out # None => /\ rec.hours = rec.out - rec.in
                             /\ rec.hours \in 0 .. STALE_SHIFT_HOURS
                             /\ rec.out =< clock
        /\ rec.status = "completed" => rec.out # None
        /\ rec.status \in {"unused", "active"} => rec.out = None

\* A closed shift never runs again, and keeps its owner and punch-in time,
\* even when a handler that read it while it was open commits afterwards
\* (writes go back column by column).
ClosedShiftsStayClosed ==
    [][\A r \in RecId : Closed(r) => /\ Closed(r)'
                                     /\ records'[r].user = records[r].user
                                     /\ records'[r].in = records[r].in]_vars

-----------------------------------------------------------------------------
(* Properties that need RequestsPerUser = 1. *)

\* A shift closed as auto_closed has no punch-out time and no hours (the
\* comment on STALE_SHIFT_HOURS).
AutoClosedHasNoHours ==
    \A r \in RecId : records[r].status = "auto_closed" =>
                        records[r].out = None /\ records[r].hours = None
=============================================================================
