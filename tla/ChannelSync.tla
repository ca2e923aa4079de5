----------------------------- MODULE ChannelSync -----------------------------
(***************************************************************************)
(* Importing a property's rooms from channel managers                      *)
(* (app/services/sync_service.py, app/api/v1/endpoints/integrations.py).   *)
(* A sync runs in the background with a session of its own: it opens a log *)
(* row, asks the provider for its rooms, plans what to do with them and    *)
(* commits the rooms, the integration's status and the log together.  The  *)
(* owner connects, disconnects and edits rooms meanwhile.                  *)
(***************************************************************************)
EXTENDS Integers, FiniteSets, Sequences, Functions

CONSTANTS
    Integration,  \* integrations of the property, one per provider
    RoomId,       \* rows of rooms
    Name,         \* room numbers as providers and users write them
    Norm,         \* Norm[n]: the number n trimmed and in lower case
    ExtId,        \* ids providers give to their rooms
    Fetch,        \* bound: answers of fetch_rooms, sequences of [ext, name]
    Run,          \* slots for syncs running at the same time
    LogId,        \* rows of sync_logs
    None          \* SQL NULL

ASSUME SyncAssumption ==
    /\ Norm \in [Name -> Name]
    /\ \A n \in Name : Norm[Norm[n]] = Norm[n]
    /\ None \notin Name \cup ExtId \cup Integration \cup RoomId \cup LogId
    /\ Fetch \subseteq Seq([ext : ExtId, name : Name])
    /\ \A fetched \in Fetch :                            \* adapters key rooms by their ids
          \A m, n \in DOMAIN fetched : fetched[m].ext = fetched[n].ext => m = n

VARIABLES
    status,  \* connection_status of each integration, "none" is no row
    rooms,   \* the table rooms; number None is no row
    logs,    \* the table sync_logs; status "none" is no row
    run,     \* the syncs in progress
    edit     \* the edit of a room that has been checked and not yet committed

svars == <<status, rooms, logs, run, edit>>

Room == [number : Name \cup {None}, deleted : BOOLEAN,
         owner : Integration \cup {None}, ext : ExtId \cup {None}]

\* What a sync does with a fetched room; row is None unless it exists.
Action == [do : {"insert", "adopt", "update", "conflict"}, row : RoomId \cup {None},
           name : Name, ext : ExtId]

\* Types, and a room has an owner exactly when it has an id of that owner.
CTypeOK ==
    /\ status \in [Integration -> {"none", "active", "error", "disconnected"}]
    /\ rooms \in [RoomId -> Room]
    /\ \A r \in RoomId : rooms[r].owner = None <=> rooms[r].ext = None
    /\ logs \in [LogId -> [status : {"none", "syncing", "success", "error"},
                           of : Integration \cup {None}]]
    /\ run \in [Run -> [pc : {"idle", "begin", "plan", "save"}, of : Integration \cup {None},
                        log : LogId \cup {None}, plan : Seq(Action)]]
    /\ edit \in {None} \cup [row : RoomId, name : Name \cup {None}]

NoRoom == [number |-> None, deleted |-> FALSE, owner |-> None, ext |-> None]
NoLog == [status |-> "none", of |-> None]
NoRun == [pc |-> "idle", of |-> None, log |-> None, plan |-> <<>>]

CInit ==
    /\ status = [i \in Integration |-> "none"]
    /\ rooms = [r \in RoomId |-> NoRoom]
    /\ logs = [l \in LogId |-> NoLog]
    /\ run = [k \in Run |-> NoRun]
    /\ edit = None

-----------------------------------------------------------------------------
(* plan_room_sync.  The table it works on is a set of rows; rows to be        *)
(* inserted have no id yet.                                                   *)

Connected(i) == status[i] \in {"active", "error"}

\* Mutant: an integration whose last sync failed does not protect its rooms.
HeldActive(r) == rooms[r].owner # None /\ status[rooms[r].owner] = "active"

\* owner_active: its integration exists and is not disconnected.
Held(r) == rooms[r].owner # None /\ Connected(rooms[r].owner)

\* known: the ids under which by_external finds the row.
Row(i, r) == [id |-> r, number |-> rooms[r].number, deleted |-> rooms[r].deleted,
              held |-> Held(r), known |-> IF rooms[r].owner = i THEN {rooms[r].ext} ELSE {}]

\* Mutant: the query leaves out soft-deleted rows.
LiveRows(i) == {Row(i, r) : r \in {x \in RoomId : rooms[x].number # None /\ ~rooms[x].deleted}}

\* Every row of the property, soft-deleted ones included.
Existing(i) == {Row(i, r) : r \in {x \in RoomId : rooms[x].number # None}}

\* Another live integration owns a room of the property.
OwnedElsewhere(i) == \E r \in RoomId : rooms[r].owner # i /\ Held(r)

Same(n, m) == Norm[n] = Norm[m]
Act(do, row, f) == [do |-> do, row |-> row, name |-> f.name, ext |-> f.ext]
Note(act, table) == [act |-> act, table |-> table]

\* A room imported earlier: refreshed, renamed if its new number is free.
Refresh(table, f, row) ==
    LET kept == [Act("update", row.id, f) EXCEPT !.name = row.number]
        others == table \ {row}
    IN  IF row.deleted THEN Note(Act("conflict", None, f), table)
        ELSE IF Same(row.number, f.name) THEN Note(kept, table)
        ELSE IF \E x \in others : Same(x.number, f.name) THEN Note(Act("conflict", None, f), table)
        ELSE Note(Act("update", row.id, f), others \cup {[row EXCEPT !.number = f.name]})

\* A room seen for the first time: inserted if no row has its number, adopted
\* if exactly one row has it and that row is live and not held.  Adopting does
\* not mark the row as held, so a second fetched room may adopt it again.
Import(table, f) ==
    LET matches == {x \in table : Same(x.number, f.name)}
        new == [id |-> None, number |-> f.name, deleted |-> FALSE, held |-> TRUE, known |-> {f.ext}]
        adoptable == {x \in matches : matches = {x} /\ ~x.deleted /\ ~x.held}
    IN  IF matches = {} THEN Note(Act("insert", None, f), table \cup {new})
        ELSE IF adoptable = {} THEN Note(Act("conflict", None, f), table)
        ELSE LET x == CHOOSE x \in adoptable : TRUE
             IN  Note([Act("adopt", x.id, f) EXCEPT !.name = x.number],
                      (table \ {x}) \cup {[x EXCEPT !.known = @ \cup {f.ext}]})

PlanOne(table, f) ==
    LET mine == {x \in table : f.ext \in x.known}
    IN  IF mine # {} THEN Refresh(table, f, CHOOSE x \in mine : TRUE) ELSE Import(table, f)

\* The table of the plan after each fetched room.
Planned(i, fetched) ==
    LET table[n \in 0 .. Len(fetched)] ==
            IF n = 0 THEN Existing(i) ELSE PlanOne(table[n - 1], fetched[n]).table
    IN  table

Plan(i, fetched) ==
    IF OwnedElsewhere(i) THEN <<>>
    ELSE LET table == Planned(i, fetched)
         IN  [n \in 1 .. Len(fetched) |-> PlanOne(table[n - 1], fetched[n]).act]

-----------------------------------------------------------------------------
(* sync_rooms: the statements of a plan, in order. *)

Refused(i, table, row, act) ==
    \E r \in RoomId \ {row} :
        table[r].number = act.name \/ (table[r].owner = i /\ table[r].ext = act.ext)

Target(act, free) == IF act.do = "insert" THEN free[act.ext] ELSE act.row

\* The table after one statement, if no unique index refuses it.  Each insert
\* takes its row from the rows given to it.
Execute(i, table, act, free) ==
    LET row == Target(act, free)
    IN  IF act.do = "conflict" THEN {table}
        ELSE IF Refused(i, table, row, act) THEN {}
        ELSE {[table EXCEPT ![row] = [number |-> act.name, deleted |-> @.deleted, owner |-> i, ext |-> act.ext]]}

\* The table after each statement of a plan.
Execution(i, plan, free) ==
    LET tables[n \in 0 .. Len(plan)] ==
            IF n = 0 THEN {rooms}
            ELSE UNION {Execute(i, table, plan[n], free) : table \in tables[n - 1]}
    IN  tables

Executed(i, plan, free) == Execution(i, plan, free)[Len(plan)]

Inserted(plan) == {plan[n].ext : n \in {m \in DOMAIN plan : plan[m].do = "insert"}}
Unused == {r \in RoomId : rooms[r].number = None}

\* The rooms after the savepoint: all of the plan, or nothing when a
\* statement fails or the rooms could not be fetched.
Imported(i, plan) ==
    {rooms} \cup UNION {Executed(i, plan, free) : free \in Injection(Inserted(plan), Unused)}

-----------------------------------------------------------------------------
(* A background sync. *)

Unfinished(i) == {l \in LogId : logs[l].of = i /\ logs[l].status = "syncing"}

\* create_sync_log: runs of the integration older than STALE_SYNC_MINUTES are
\* closed first; any unfinished one may be that old.  (Bound: the row of a
\* sync that is finished, or closed here, is reused.)
OpenLog(k) ==
    /\ run[k].pc = "begin"
    /\ \E l \in LogId, stale \in SUBSET Unfinished(run[k].of) :
          /\ logs[l].status = "syncing" => l \in stale
          /\ \A j \in Run : run[j].log # l
          /\ logs' = [m \in LogId |->
                IF m = l THEN [status |-> "syncing", of |-> run[k].of]
                ELSE IF m \in stale THEN [logs[m] EXCEPT !.status = "error"]
                ELSE logs[m]]
          /\ run' = [run EXCEPT ![k].pc = "plan", ![k].log = l]
    /\ UNCHANGED <<status, rooms, edit>>

\* The rooms are fetched and planned; an adapter may not support rooms.
PlanRooms(k) ==
    /\ run[k].pc = "plan"
    /\ \E fetched \in Fetch \cup {<<>>} :
          LET plan == Plan(run[k].of, fetched)
          IN  /\ Cardinality(Inserted(plan)) =< Cardinality(Unused)     \* bound on rows
              /\ run' = [run EXCEPT ![k].pc = "save", ![k].plan = plan]
    /\ UNCHANGED <<status, rooms, logs, edit>>

Ended(k, result) == logs' = [logs EXCEPT ![run[k].log].status = result]
Stop(k) == run' = [run EXCEPT ![k] = NoRun]

\* Rooms, reservations, status and log are committed together.
SyncSucceeds(k) ==
    /\ run[k].pc = "save"
    /\ rooms' \in Imported(run[k].of, run[k].plan)
    /\ status' = [status EXCEPT ![run[k].of] = "active"]
    /\ Ended(k, "success")
    /\ Stop(k)
    /\ UNCHANGED edit

\* Anything but the rooms fails: everything is rolled back, then the status
\* and the log say so.
SyncFails(k) ==
    /\ run[k].pc \in {"plan", "save"}
    /\ status' = [status EXCEPT ![run[k].of] = "error"]
    /\ Ended(k, "error")
    /\ Stop(k)
    /\ UNCHANGED <<rooms, edit>>

WorkerDies(k) ==
    /\ run[k].pc # "idle"
    /\ Stop(k)
    /\ UNCHANGED <<status, rooms, logs, edit>>

-----------------------------------------------------------------------------
(* The owner. *)

Start(i) ==
    \E k \in Run : run[k].pc = "idle" /\ run' = [run EXCEPT ![k] = [NoRun EXCEPT !.pc = "begin", !.of = i]]

\* POST /integrations, once the connection test has passed: upsert, then a sync.
Connect(i) ==
    /\ status' = [status EXCEPT ![i] = "active"]
    /\ Start(i)
    /\ UNCHANGED <<rooms, logs, edit>>

\* POST /integrations/{id}/sync
TriggerSync(i) ==
    /\ Connected(i)
    /\ Start(i)
    /\ UNCHANGED <<status, rooms, logs, edit>>

\* DELETE /integrations/{id}
Disconnect(i) ==
    /\ Connected(i)
    /\ status' = [status EXCEPT ![i] = "disconnected"]
    /\ UNCHANGED <<rooms, logs, run, edit>>

\* POST /rooms/{property}
CreateRoom(n) ==
    /\ \A r \in RoomId : rooms[r].number # n
    /\ \E r \in Unused : rooms' = [rooms EXCEPT ![r] = [NoRoom EXCEPT !.number = n]]
    /\ UNCHANGED <<status, logs, run, edit>>

\* PUT and DELETE /rooms/{id}: refused while a live integration manages the room.
EditChecks(r, name) ==
    /\ edit = None
    /\ rooms[r].number # None /\ ~rooms[r].deleted
    /\ ~Held(r)
    /\ edit' = [row |-> r, name |-> name]
    /\ UNCHANGED <<status, rooms, logs, run>>

\* A name of None stands for a deletion; a number in use is refused.
EditSaves ==
    /\ edit # None
    /\ edit' = None
    /\ rooms' = IF edit.name = None THEN [rooms EXCEPT ![edit.row].deleted = TRUE]
                ELSE IF \E r \in RoomId : rooms[r].number = edit.name THEN rooms
                ELSE [rooms EXCEPT ![edit.row].number = edit.name]
    /\ UNCHANGED <<status, logs, run>>

CNext ==
    \/ \E k \in Run :
          OpenLog(k) \/ PlanRooms(k) \/ SyncSucceeds(k) \/ SyncFails(k) \/ WorkerDies(k)
    \/ \E i \in Integration : Connect(i) \/ TriggerSync(i) \/ Disconnect(i)
    \/ \E n \in Name : CreateRoom(n)
    \/ \E r \in RoomId, name \in Name \cup {None} : EditChecks(r, name)
    \/ EditSaves

CSpec == CInit /\ [][CNext]_svars

-----------------------------------------------------------------------------
(* Properties. *)

\* A plan that is carried out at once is refused by no unique index, whatever
\* deletions, renamings and changes of provider the rooms have been through
\* ("every rooms row of the property, soft-deleted included: the uq_room_number
\* constraint ignores deleted_at").
PlansApplyCleanly ==
    \A i \in Integration, fetched \in Fetch :
        LET plan == Plan(i, fetched)
        IN  \A free \in Injection(Inserted(plan), Unused) : Executed(i, plan, free) # {}

\* Needs one sync at a time.  A sync takes a room from another integration only
\* while that one is disconnected ("one integration owns a property's rooms"),
\* and no sync brings a soft-deleted room back.
RoomsChangeHandsWhenReleased ==
    [][\A r \in RoomId :
          /\ rooms[r].owner # None /\ rooms'[r].owner # rooms[r].owner
             => ~Connected(rooms[r].owner)
          /\ rooms[r].deleted => rooms'[r].deleted]_svars

\* A plan links a row to one fetched room: a row that is "already linked to
\* this integration under another id" is a conflict (sync_service.py:174).
LinkedOnce ==
    \A i \in Integration, fetched \in Fetch :
        LET plan == Plan(i, fetched)
        IN  \A m, n \in DOMAIN plan :
              m # n /\ plan[m].row # None => plan[m].row # plan[n].row
=============================================================================
