------------------------------- MODULE KraTasks -------------------------------
(***************************************************************************)
(* Assigned KRA tasks (app/services/kra_task_service.py): a definition is  *)
(* assigned to users, and the occurrences of an assignment, one per        *)
(* period, are created on demand by whoever looks at them, at most         *)
(* MAX_PERIODS_PER_CALL at a time.  One definition; the others share no    *)
(* rows with it.                                                           *)
(*                                                                         *)
(* A handler reads in one step (XChecks, XReads) and commits in another    *)
(* (XSaves).  A handler that fails in between leaves nothing behind, as if *)
(* it had not been called; one that finds nothing to write is left out.    *)
(***************************************************************************)
EXTENDS Integers, FiniteSets, Functions

CONSTANTS
    User,        \* staff the task may be assigned to
    AssignId,    \* rows of kra_assignments
    Slot,        \* requests in progress at the same time
    LastDay,     \* bound: the days are 0 .. LastDay
    Skew,        \* bound: offsets of the clients' dates from the UTC date
    WeekLength,  \* days of a week; day 0 is a Monday
    Worked,      \* bound: the periods whose occurrences are delayed or completed
    MaxPeriods,  \* MAX_PERIODS_PER_CALL
    None         \* SQL NULL

ASSUME KraAssumption ==
    /\ LastDay \in Nat /\ WeekLength \in Nat \ {0} /\ MaxPeriods \in Nat \ {0}
    /\ Skew \subseteq -1 .. 1 /\ 0 \in Skew
    /\ Worked \subseteq Nat /\ None \notin User

VARIABLES
    today,   \* the UTC date
    def,     \* the definition: is_active and frequency
    live,    \* is_active of each user
    asg,     \* the table kra_assignments; who None is no row
    occ,     \* the table kra_occurrences by assignment and period_start
    told,    \* assignments whose assignee has an inbox item "kra_assigned"
    delays,  \* number of inbox items "kra_delayed" for each occurrence
    req,     \* the requests in progress
    worked,  \* history: the definition was active at some time today
    gap      \* history: the days an assignment had while the definition was inactive

kvars == <<today, def, live, asg, occ, told, delays, req, worked, gap>>

Day == 0 .. LastDay + 1
Frequency == {"daily", "weekly"}
Occurrence == [status : {"none", "pending", "delayed", "completed"}, was_delayed : BOOLEAN]
Rows == [AssignId -> SUBSET Day]
Idle == [pc |-> "idle"]

Request ==
    {Idle}
    \cup [pc : {"generate"}, rows : Rows]
    \cup [pc : {"assign"}, ids : UNION {[U -> AssignId] : U \in SUBSET User}, start : Day]
    \cup [pc : {"end"}, of : AssignId, rows : Rows]
    \cup [pc : {"update"}, active : BOOLEAN, freq : Frequency, old : [active : BOOLEAN, freq : Frequency],
          rows : Rows, restart : SUBSET AssignId]
    \cup [pc : {"delay", "complete"}, of : AssignId, period : Day]

\* Types, and uq_kra_assignment_active.
KTypeOK ==
    /\ today \in 0 .. LastDay
    /\ def \in [active : BOOLEAN, freq : Frequency]
    /\ live \in [User -> BOOLEAN]
    /\ asg \in [AssignId -> [who : User \cup {None}, start : Day, active : BOOLEAN]]
    /\ \A a, b \in AssignId : asg[a].active /\ asg[b].active /\ asg[a].who = asg[b].who => a = b
    /\ occ \in [AssignId -> [Day -> Occurrence]]
    /\ told \subseteq AssignId
    /\ delays \in [AssignId -> [Day -> Nat]]
    /\ req \in [Slot -> Request]
    /\ worked \in BOOLEAN /\ gap \in [AssignId -> SUBSET Day]

NoRow == [who |-> None, start |-> 0, active |-> FALSE]
NoOcc == [status |-> "none", was_delayed |-> FALSE]

\* create_definition.
KInit ==
    /\ today = 0
    /\ def \in [active : {TRUE}, freq : Frequency]
    /\ live = [u \in User |-> TRUE]
    /\ asg = [a \in AssignId |-> NoRow]
    /\ occ = [a \in AssignId |-> [p \in Day |-> NoOcc]]
    /\ told = {}
    /\ delays = [a \in AssignId |-> [p \in Day |-> 0]]
    /\ req = [s \in Slot |-> Idle]
    /\ worked = TRUE
    /\ gap = [a \in AssignId |-> {}]

-----------------------------------------------------------------------------
(* Periods and ensure_occurrences. *)

\* "weekly" stands for every frequency longer than a day.
PeriodStart(f, d) == IF f = "daily" THEN d ELSE d - (d % WeekLength)

Periods(f, first, last) == {PeriodStart(f, d) : d \in first .. last}

\* client_today, validated: at most a day from the UTC date.
Near == {d \in Day : d - today \in Skew}

\* Assignments for which occurrences are generated.
Generated(a) == asg[a].active /\ def.active /\ live[asg[a].who]

Exists(a, p) == occ[a][p].status # "none"

Newest(S) == {p \in S : Cardinality({q \in S : q > p}) < MaxPeriods}

\* Mutant: the search stops at the first period that exists.
MissingNewer(scope, upto) ==
    [a \in AssignId |->
        LET all == Periods(def.freq, asg[a].start, upto)
        IN  IF a \in scope /\ Generated(a)
            THEN Newest({p \in all : \A q \in all : q >= p => ~Exists(a, q)}) ELSE {}]

\* The rows a call creates: the newest missing periods.
Missing(scope, upto) ==
    [a \in AssignId |->
        IF a \in scope /\ Generated(a)
        THEN Newest({p \in Periods(def.freq, asg[a].start, upto) : ~Exists(a, p)}) ELSE {}]

NoRows == [a \in AssignId |-> {}]

\* ON CONFLICT DO NOTHING.
Inserted(rows) ==
    [a \in AssignId |-> [p \in Day |->
        IF p \in rows[a] /\ ~Exists(a, p) THEN [NoOcc EXCEPT !.status = "pending"] ELSE occ[a][p]]]

-----------------------------------------------------------------------------
(* Looking at occurrences: my_occurrences, list_occurrences, summarize. *)

Enter(s, r) == req[s] = Idle /\ req' = [req EXCEPT ![s] = r]
Leave(s) == req' = [req EXCEPT ![s] = Idle]

Reads(s, scope, upto) ==
    /\ Missing(scope, upto) # NoRows
    /\ Enter(s, [pc |-> "generate", rows |-> Missing(scope, upto)])
    /\ UNCHANGED <<today, def, live, asg, occ, told, delays, worked, gap>>

\* A user's own page, or a manager's view of all (_generate_up_to).
GenerateReads(s) ==
    \E upto \in Near :
        \/ \E u \in User : Reads(s, {a \in AssignId : asg[a].who = u}, upto)
        \/ Reads(s, AssignId, upto)

GenerateSaves(s) ==
    /\ req[s].pc = "generate"
    /\ occ' = Inserted(req[s].rows)
    /\ Leave(s)
    /\ UNCHANGED <<today, def, live, asg, told, delays, worked, gap>>

-----------------------------------------------------------------------------
(* Definitions and assignments. *)

Active(u) == {a \in AssignId : asg[a].active /\ asg[a].who = u}
Reserved == UNION {IF req[s].pc = "assign" THEN Range(req[s].ids) ELSE {} : s \in Slot}
Unused == {a \in AssignId : asg[a].who = None} \ Reserved

\* assign_users: rows for the users who have no active assignment.
AssignChecks(s) ==
    /\ def.active
    /\ \E wanted \in SUBSET User \ {{}}, start \in Near :
          /\ \A u \in wanted : live[u]
          /\ \E ids \in Injection({u \in wanted : Active(u) = {}}, Unused) :
                /\ ids # << >>
                /\ Enter(s, [pc |-> "assign", ids |-> ids, start |-> start])
    /\ UNCHANGED <<today, def, live, asg, occ, told, delays, worked, gap>>

\* Mutant: there is no index uq_kra_assignment_active.
NewAlways(ids) == DOMAIN ids

\* Rows refused by uq_kra_assignment_active are skipped.
New(ids) == {u \in DOMAIN ids : Active(u) = {}}

AssignTo(s, users) ==
    asg' = [a \in AssignId |->
              IF \E u \in users : req[s].ids[u] = a
              THEN [who |-> CHOOSE u \in users : req[s].ids[u] = a, start |-> req[s].start, active |-> TRUE]
              ELSE asg[a]]

\* notify writes each item in a savepoint of its own and swallows its failure:
\* of the items to make, any may be missing.
Reached(items) == {told \cup made : made \in SUBSET items}

\* Mutant: everyone the handler meant to assign is notified.
AssignSavesAll(s) ==
    /\ req[s].pc = "assign"
    /\ AssignTo(s, New(req[s].ids))
    /\ told' \in Reached(Range(req[s].ids))
    /\ Leave(s)
    /\ UNCHANGED <<today, def, live, occ, delays, worked, gap>>

\* Only new assignments notify; they are made whether or not they do.
AssignSaves(s) ==
    /\ req[s].pc = "assign"
    /\ AssignTo(s, New(req[s].ids))
    /\ told' \in Reached({req[s].ids[u] : u \in New(req[s].ids)})
    /\ Leave(s)
    /\ UNCHANGED <<today, def, live, occ, delays, worked, gap>>

\* end_assignment: periods up to now are created first.
EndChecks(s) ==
    /\ \E a \in AssignId :
          /\ asg[a].active
          /\ Enter(s, [pc |-> "end", of |-> a, rows |-> Missing({a}, today)])
    /\ UNCHANGED <<today, def, live, asg, occ, told, delays, worked, gap>>

EndSaves(s) ==
    /\ req[s].pc = "end"
    /\ occ' = Inserted(req[s].rows)
    /\ asg' = [asg EXCEPT ![req[s].of].active = FALSE]
    /\ Leave(s)
    /\ UNCHANGED <<today, def, live, told, delays, worked, gap>>

\* Mutant: reactivating a definition does not move the start of its assignments.
RestartedNone(active) == {}

\* The assignments that start again today when the definition is reactivated.
Restarted(active) == {a \in AssignId : active /\ ~def.active /\ asg[a].active}

\* update_definition: the frequency is fixed once assigned; before deactivation
\* the periods up to now are created.
UpdateChecks(s) ==
    /\ \E active \in BOOLEAN, freq \in Frequency :
          /\ [active |-> active, freq |-> freq] # def
          /\ freq # def.freq => \A a \in AssignId : asg[a].who = None
          /\ Enter(s, [pc |-> "update", active |-> active, freq |-> freq, old |-> def,
                       rows |-> IF def.active /\ ~active THEN Missing(AssignId, today) ELSE NoRows,
                       restart |-> Restarted(active)])
    /\ UNCHANGED <<today, def, live, asg, occ, told, delays, worked, gap>>

\* The columns that differ from those read.
Changed(old, new, stored) == IF new = old THEN stored ELSE new

UpdateSaves(s) ==
    /\ req[s].pc = "update"
    /\ def' = [active |-> Changed(req[s].old.active, req[s].active, def.active),
               freq |-> Changed(req[s].old.freq, req[s].freq, def.freq)]
    /\ occ' = Inserted(req[s].rows)
    /\ asg' = [a \in AssignId |-> IF a \in req[s].restart THEN [asg[a] EXCEPT !.start = today] ELSE asg[a]]
    /\ worked' = (worked \/ def'.active)
    /\ Leave(s)
    /\ UNCHANGED <<today, live, told, delays, gap>>

-----------------------------------------------------------------------------
(* Doing the work.  _own_occurrence locks the row until the commit.  *)

\* Mutant: the occurrence is read without FOR UPDATE.
FreeAlways(a, p) == TRUE

Free(a, p) ==
    \A s \in Slot : req[s].pc \in {"delay", "complete"} => req[s].of # a \/ req[s].period # p

WorkChecks(s) ==
    /\ \E a \in AssignId, p \in Day \cap Worked :
          /\ Free(a, p)
          /\ \/ /\ occ[a][p].status = "pending"
                /\ Enter(s, [pc |-> "delay", of |-> a, period |-> p])
             \/ /\ occ[a][p].status \in {"pending", "delayed"}
                /\ Enter(s, [pc |-> "complete", of |-> a, period |-> p])
    /\ UNCHANGED <<today, def, live, asg, occ, told, delays, worked, gap>>

CompleteSaves(s) ==
    /\ req[s].pc = "complete"
    /\ occ' = [occ EXCEPT ![req[s].of][req[s].period].status = "completed"]
    /\ Leave(s)
    /\ UNCHANGED <<today, def, live, asg, told, delays, worked, gap>>

\* The managers are notified, unless that fails: the delay is kept all the same.
DelaySaves(s) ==
    /\ req[s].pc = "delay"
    /\ occ' = [occ EXCEPT ![req[s].of][req[s].period] = [status |-> "delayed", was_delayed |-> TRUE]]
    /\ \E made \in {0, 1} : delays' = [delays EXCEPT ![req[s].of][req[s].period] = @ + made]
    /\ Leave(s)
    /\ UNCHANGED <<today, def, live, asg, told, worked, gap>>

-----------------------------------------------------------------------------

\* A user is deactivated or activated (users.py).
SetLive(u) ==
    /\ live' = [live EXCEPT ![u] = ~@]
    /\ UNCHANGED <<today, def, asg, occ, told, delays, req, worked, gap>>

\* Midnight UTC.  (Bound: no request spans it; LastDay is the last day.)
Midnight ==
    /\ today < LastDay /\ \A s \in Slot : req[s] = Idle
    /\ today' = today + 1
    /\ gap' = [a \in AssignId |->
                 IF asg[a].who # None /\ ~worked THEN gap[a] \cup {today} ELSE gap[a]]
    /\ worked' = def.active
    /\ UNCHANGED <<def, live, asg, occ, told, delays, req>>

Saves(s) ==
    \/ GenerateSaves(s) \/ AssignSaves(s) \/ EndSaves(s) \/ UpdateSaves(s)
    \/ DelaySaves(s) \/ CompleteSaves(s)

KNext ==
    \/ \E s \in Slot :
          \/ GenerateReads(s) \/ AssignChecks(s) \/ EndChecks(s) \/ UpdateChecks(s) \/ WorkChecks(s)
          \/ Saves(s)
    \/ \E u \in User : SetLive(u)
    \/ Midnight

\* A handler that has begun ends, and somebody goes on opening the list of the
\* property's occurrences: without a scheduler nothing else creates them.
Fairness ==
    /\ \A s \in Slot : WF_kvars(Saves(s))
    /\ SF_kvars(\E s \in Slot : Reads(s, AssignId, today))

KSpec == KInit /\ [][KNext]_kvars /\ Fairness

-----------------------------------------------------------------------------
(* Properties. *)

\* A notification may be lost, but none is false or sent twice: an assignee is
\* told only of an assignment that was really made, also when two managers
\* assign the task at once, and the managers have at most one notice of an
\* occurrence, and only if it was delayed, whatever became of it.
NoticesAreDeserved ==
    \A a \in AssignId :
        /\ a \in told => asg[a].who # None
        /\ \A p \in Day : delays[a][p] =< IF occ[a][p].was_delayed THEN 1 ELSE 0

\* An occurrence never goes back: generating it again, ending its assignment, or
\* two requests of its assignee at once neither reopen it, nor remove it, nor
\* forget that it was delayed.
Rank(o) == CASE o.status = "none" -> 0 [] o.status = "pending" -> 1
             [] o.status = "delayed" -> 2 [] o.status = "completed" -> 3

WorkNeverUndone ==
    [][\A a \in AssignId, p \in Day :
          /\ Rank(occ'[a][p]) >= Rank(occ[a][p])
          /\ occ[a][p].was_delayed => occ'[a][p].was_delayed]_kvars

\* Days an assignment spent with its definition inactive are not missed work
\* ("The inactive gap is not missed work"): no occurrence is created for a
\* period that lies in them.
GapIsNotMissedWork ==
    [][\A a \in AssignId, p \in Day :
          ~Exists(a, p) /\ occ'[a][p].status # "none"
          => \E d \in Day \ gap[a] : PeriodStart(def.freq, d) = PeriodStart(def.freq, p)]_kvars

\* A backlog longer than one call may create fills in by later calls, while its
\* assignment, definition and assignee stay active.
BacklogFills ==
    \A a \in AssignId, p \in Day :
        (Generated(a) /\ p \in Periods(def.freq, asg[a].start, today))
            ~> (Exists(a, p) \/ ~Generated(a) \/ p \notin Periods(def.freq, asg[a].start, today))
=============================================================================
