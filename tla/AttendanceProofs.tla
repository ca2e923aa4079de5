--------------------------- MODULE AttendanceProofs ---------------------------
(***************************************************************************)
(* The punch clock and its corrections for any number of users, requests,  *)
(* records, handlers and hours: paid hours are the time between punches,   *)
(* a closed shift is paid or reviewed and stays closed; a shift has one    *)
(* pending correction, decided once, by an entitled reviewer, and the feed *)
(* follows.                                                                *)
(***************************************************************************)
EXTENDS AttendanceCorrections, ShiftReports, FiniteSetTheorems, TLAPS

-----------------------------------------------------------------------------
(* The punch clock. *)

\* What a handler holds in memory is not younger than the clock, speaks of
\* rows that exist, and a punch-out time is not before the punch-ins it closes.
SessionsInOrder ==
    \A q \in Req :
        /\ request[q].now =< clock
        /\ \A r \in DOMAIN request[q].seen :
              /\ records[r].status # "unused"
              /\ request[q].pc = "out_save" => records[r].in =< request[q].now

PunchInsInPast == \A r \in RecId : records[r].in =< clock

IInv == TypeOK /\ SessionsInOrder /\ PunchInsInPast /\ HoursMatchPunches

-----------------------------------------------------------------------------
(* Lemmas about the helpers. *)

\* A query's result has the type of a handler's memory.
LEMMA LoadType ==
    ASSUME TypeOK, NEW S \in SUBSET RecId
    PROVE  Load(S) \in Loaded /\ DOMAIN Load(S) = S
<1>1. Load(S) \in [S -> Text]
  BY DEF TypeOK, Record, Load
<1> QED
  BY <1>1 DEF Loaded, Load

\* Rows in a handler's memory are rows of the table.
LEMMA SeenType ==
    ASSUME NEW seen \in Loaded
    PROVE  DOMAIN seen \subseteq RecId /\ \A r \in DOMAIN seen : seen[r] \in Text
BY DEF Loaded

\* An idle slot has the type of a session and remembers nothing.
LEMMA IdleType == Idle \in Session /\ DOMAIN Idle.seen = {} /\ Idle.now = 0
<1>1. Nothing \in Loaded
  <2>1. Nothing \in [{} -> Text]
    BY DEF Nothing
  <2> QED
    BY <2>1 DEF Loaded
<1>2. 0 \in Time
  BY ConstantsAssumption DEF Time
<1> QED
  BY <1>1, <1>2 DEF Idle, Session, Nothing, Text

\* auto_close changes no time, no hours and no owner.
LEMMA AutoCloseEffect ==
    ASSUME NEW rec \in Record, NEW cur
    PROVE  /\ AutoClose(rec, cur) \in Record
           /\ AutoClose(rec, cur).status = "auto_closed"
           /\ AutoClose(rec, cur).in = rec.in
           /\ AutoClose(rec, cur).out = rec.out
           /\ AutoClose(rec, cur).hours = rec.hours
           /\ AutoClose(rec, cur).user = rec.user
BY DEF AutoClose, Record, Text

\* A completed shift gets the hours between its punches.
LEMMA CompleteEffect ==
    ASSUME NEW rec \in Record, NEW now \in Int
    PROVE  /\ Complete(rec, now) \in Record
           /\ Complete(rec, now).status = "completed"
           /\ Complete(rec, now).in = rec.in
           /\ Complete(rec, now).out = now
           /\ Complete(rec, now).hours = now - rec.in
           /\ Complete(rec, now).user = rec.user
<1>1. rec.in \in Int /\ now - rec.in \in Int
  BY ConstantsAssumption DEF Record, Time
<1>2. PICK h \in Int : h = now - rec.in
  BY <1>1
<1>3. Complete(rec, now) = [rec EXCEPT !.status = "completed", !.out = now, !.hours = h]
  BY <1>2 DEF Complete
<1> QED
  BY <1>2, <1>3 DEF Record

-----------------------------------------------------------------------------
(* The invariant, one row and one session at a time. *)

\* HoursMatchPunches and PunchInsInPast for one row.
RowOK(rec) ==
    /\ rec.in =< clock
    /\ rec.hours = None <=> rec.out = None
    /\ rec.out # None => /\ rec.hours = rec.out - rec.in
                         /\ rec.hours \in 0 .. STALE_SHIFT_HOURS
                         /\ rec.out =< clock
    /\ rec.status = "completed" => rec.out # None
    /\ rec.status \in {"unused", "active"} => rec.out = None

\* SessionsInOrder for one session.
SessionOK(s) ==
    /\ s.now =< clock
    /\ \A r \in DOMAIN s.seen :
          /\ records[r].status # "unused"
          /\ s.pc = "out_save" => records[r].in =< s.now

LEMMA RowWise ==
    PunchInsInPast /\ HoursMatchPunches <=> \A r \in RecId : RowOK(records[r])
BY DEF PunchInsInPast, HoursMatchPunches, RowOK

LEMMA SessionWise ==
    SessionsInOrder <=> \A q \in Req : SessionOK(request[q])
BY DEF SessionsInOrder, SessionOK

\* A step that only changes what one handler remembers keeps the invariant if
\* the new memory is in order.
LEMMA SessionStep ==
    ASSUME IInv, NEW q \in Req, NEW s \in Session, SessionOK(s),
           request' = [request EXCEPT ![q] = s],
           UNCHANGED <<clock, geofence, records>>
    PROVE  IInv'
<1>1. TypeOK'
  BY DEF IInv, TypeOK
<1>2. \A p \in Req : SessionOK(request[p])'
  <2>1. \A p \in Req : SessionOK(request[p])
    BY SessionWise DEF IInv
  <2>2. \A p \in Req : request'[p] = IF p = q THEN s ELSE request[p]
    BY DEF IInv, TypeOK
  <2> QED
    BY <2>1, <2>2 DEF SessionOK
<1>3. SessionsInOrder'
  BY <1>2 DEF SessionsInOrder, SessionOK
<1>4. PunchInsInPast' /\ HoursMatchPunches'
  BY DEF IInv, PunchInsInPast, HoursMatchPunches
<1> QED
  BY <1>1, <1>3, <1>4 DEF IInv

\* A commit keeps the invariant if every row it leaves is in order and the rows
\* in use stay in use with their punch-in times.
LEMMA CommitStep ==
    ASSUME IInv, NEW q \in Req, NEW rows \in [RecId -> Record],
           records' = rows,
           \A r \in RecId : RowOK(rows[r]),
           \A r \in RecId : records[r].status # "unused" =>
                               rows[r].status # "unused" /\ rows[r].in = records[r].in,
           Answer(q),
           UNCHANGED <<clock, geofence>>
    PROVE  IInv'
<1>1. TypeOK'
  BY IdleType DEF IInv, TypeOK, Answer
<1>2. PunchInsInPast' /\ HoursMatchPunches'
  BY DEF RowOK, PunchInsInPast, HoursMatchPunches
<1>3. SessionsInOrder'
  <2>1. \A p \in Req : SessionOK(request[p])
    BY SessionWise DEF IInv
  <2>2. \A p \in Req : request'[p] = IF p = q THEN Idle ELSE request[p]
    BY DEF IInv, TypeOK, Answer
  <2>3. \A p \in Req : DOMAIN request[p].seen \subseteq RecId
    BY SeenType DEF IInv, TypeOK, Session
  <2>4. 0 =< clock
    BY ConstantsAssumption DEF IInv, TypeOK, Time
  <2>5. SUFFICES ASSUME NEW p \in Req
                 PROVE  /\ request'[p].now =< clock'
                        /\ \A r \in DOMAIN request'[p].seen :
                              /\ records'[r].status # "unused"
                              /\ request'[p].pc = "out_save" => records'[r].in =< request'[p].now
    BY DEF SessionsInOrder
  <2>6. CASE p = q
    BY <2>2, <2>4, <2>6, IdleType
  <2>7. CASE p # q
    BY <2>1, <2>2, <2>3, <2>7 DEF SessionOK
  <2> QED
    BY <2>6, <2>7
<1> QED
  BY <1>1, <1>2, <1>3 DEF IInv

\* Giving up a request keeps the invariant.
LEMMA AnswerStep ==
    ASSUME IInv, NEW q \in Req, Answer(q), UNCHANGED <<clock, geofence, records>>
    PROVE  IInv'
<1>1. SessionOK(Idle)
  BY IdleType, ConstantsAssumption DEF SessionOK, IInv, TypeOK, Time
<1> QED
  BY <1>1, IdleType, SessionStep DEF Answer

-----------------------------------------------------------------------------
(* Each action keeps the invariant. *)

\* An open row is a row of its owner, in use.
LEMMA OpenRecordsInUse ==
    ASSUME NEW u
    PROVE  OpenRecords(u) \in SUBSET RecId
           /\ \A r \in OpenRecords(u) : records[r].status = "active"
BY DEF OpenRecords

\* Closing a row that was read keeps it in order.
LEMMA AutoCloseOK ==
    ASSUME NEW rec \in Record, NEW cur, RowOK(rec), rec.status # "unused"
    PROVE  RowOK(AutoClose(rec, cur))
BY AutoCloseEffect DEF RowOK

\* Completing a shift that is not stale keeps it in order.
LEMMA CompleteOK ==
    ASSUME NEW rec \in Record, NEW now \in Int, RowOK(rec), clock \in Int,
           rec.in =< now, now =< clock, ~IsStale(rec, now)
    PROVE  RowOK(Complete(rec, now))
<1>1. rec.in \in Int
  BY ConstantsAssumption DEF Record, Time
<1>2. now # None /\ now - rec.in # None
  BY <1>1, NoneAssumption
<1>3. now - rec.in \in 0 .. STALE_SHIFT_HOURS
  BY <1>1, ConstantsAssumption DEF IsStale
<1> DEFINE c == Complete(rec, now)
<1>4. /\ c.status = "completed" /\ c.in = rec.in /\ c.out = now
      /\ c.hours = now - rec.in
  BY CompleteEffect
<1>5. rec.in =< clock
  BY DEF RowOK
<1> HIDE DEF c
<1>6. RowOK(c)
  BY <1>2, <1>3, <1>4, <1>5 DEF RowOK
<1> QED
  BY <1>6 DEF c

LEMMA PunchInArrivesKeeps ==
    ASSUME IInv, NEW q \in Req, NEW u \in User, PunchInArrives(q, u)
    PROVE  IInv'
<1> DEFINE s == [Idle EXCEPT !.pc = "in_read", !.user = u, !.now = clock]
<1>1. s \in Session
  BY IdleType DEF IInv, TypeOK, Session
<1>2. SessionOK(s)
  BY IdleType DEF SessionOK, Idle, IInv, TypeOK, Time
<1>3. /\ request' = [request EXCEPT ![q] = s]
      /\ UNCHANGED <<clock, geofence, records>>
  BY DEF PunchInArrives
<1> QED
  BY <1>1, <1>2, <1>3, SessionStep

LEMMA PunchInReadsKeeps ==
    ASSUME IInv, NEW q \in Req, PunchInReads(q)
    PROVE  IInv'
<1> DEFINE open == OpenRecords(request[q].user)
           s == [request[q] EXCEPT !.pc = "in_check", !.seen = Load(open)]
<1>0. open \in SUBSET RecId /\ \A r \in open : records[r].status = "active"
  BY OpenRecordsInUse
<1>1. UNCHANGED <<clock, geofence, records>>
  BY DEF PunchInReads
<1>2. CASE Answer(q)
  BY <1>1, <1>2, AnswerStep
<1>3. CASE request' = [request EXCEPT ![q].pc = "in_check", ![q].seen = Load(open)]
  <2>1. Load(open) \in Loaded /\ DOMAIN Load(open) = open
    BY <1>0, LoadType DEF IInv
  <2>2. s \in Session
    BY <2>1 DEF IInv, TypeOK, Session
  <2>3. SessionOK(request[q])
    BY SessionWise DEF IInv
  <2>4. s.now = request[q].now /\ s.seen = Load(open) /\ s.pc = "in_check"
    BY DEF IInv, TypeOK, Session
  <2>5. SessionOK(s)
    BY <1>0, <2>1, <2>3, <2>4 DEF SessionOK
  <2>6. request' = [request EXCEPT ![q] = s]
    BY <1>3 DEF IInv, TypeOK, Session
  <2> QED
    BY <1>1, <2>2, <2>5, <2>6, SessionStep
<1> QED
  BY <1>2, <1>3 DEF PunchInReads

LEMMA PunchInChecksKeeps ==
    ASSUME IInv, NEW q \in Req, PunchInChecks(q)
    PROVE  IInv'
<1> DEFINE s == [request[q] EXCEPT !.pc = "in_save"]
<1>1. UNCHANGED <<clock, geofence, records>>
  BY DEF PunchInChecks
<1>2. CASE Answer(q)
  BY <1>1, <1>2, AnswerStep
<1>3. CASE Goto(q, "in_save")
  <2>1. s \in Session
    BY DEF IInv, TypeOK, Session
  <2>2. SessionOK(request[q])
    BY SessionWise DEF IInv
  <2>3. s.now = request[q].now /\ s.seen = request[q].seen /\ s.pc = "in_save"
    BY DEF IInv, TypeOK, Session
  <2>4. SessionOK(s)
    BY <2>2, <2>3 DEF SessionOK
  <2>5. request' = [request EXCEPT ![q] = s]
    BY <1>3 DEF Goto, IInv, TypeOK, Session
  <2> QED
    BY <1>1, <2>1, <2>4, <2>5, SessionStep
<1> QED
  BY <1>2, <1>3 DEF PunchInChecks

LEMMA PunchOutReadsKeeps ==
    ASSUME IInv, NEW q \in Req, NEW u \in User, PunchOutReads(q, u)
    PROVE  IInv'
<1> DEFINE open == OpenRecords(u)
           s == [Idle EXCEPT !.pc = "out_check", !.user = u, !.seen = Load(open)]
<1>0. open \in SUBSET RecId /\ \A r \in open : records[r].status = "active"
  BY OpenRecordsInUse
<1>1. Load(open) \in Loaded /\ DOMAIN Load(open) = open
  BY <1>0, LoadType DEF IInv
<1>2. s \in Session
  BY <1>1, IdleType DEF Session
<1>3. s.now = 0 /\ s.seen = Load(open) /\ s.pc = "out_check"
  BY DEF Idle
<1>4. SessionOK(s)
  BY <1>0, <1>1, <1>3, ConstantsAssumption DEF SessionOK, IInv, TypeOK, Time
<1>5. request' = [request EXCEPT ![q] = s] /\ UNCHANGED <<clock, geofence, records>>
  BY DEF PunchOutReads
<1> QED
  BY <1>2, <1>4, <1>5, SessionStep

LEMMA PunchOutChecksKeeps ==
    ASSUME IInv, NEW q \in Req, PunchOutChecks(q)
    PROVE  IInv'
<1> DEFINE s == [request[q] EXCEPT !.pc = "out_save", !.now = clock]
<1>1. UNCHANGED <<clock, geofence, records>>
  BY DEF PunchOutChecks
<1>2. CASE Answer(q)
  BY <1>1, <1>2, AnswerStep
<1>3. CASE request' = [request EXCEPT ![q].pc = "out_save", ![q].now = clock]
  <2>1. s \in Session
    BY DEF IInv, TypeOK, Session
  <2>2. SessionOK(request[q])
    BY SessionWise DEF IInv
  <2>3. s.now = clock /\ s.seen = request[q].seen /\ DOMAIN s.seen \subseteq RecId
    BY SeenType DEF IInv, TypeOK, Session
  <2>4. clock =< clock
    BY DEF IInv, TypeOK, Time
  <2>5. SessionOK(s)
    BY <2>2, <2>3, <2>4 DEF SessionOK, IInv, PunchInsInPast
  <2>6. request' = [request EXCEPT ![q] = s]
    BY <1>3 DEF IInv, TypeOK, Session
  <2> QED
    BY <1>1, <2>1, <2>5, <2>6, SessionStep
<1> QED
  BY <1>2, <1>3 DEF PunchOutChecks

LEMMA StatusReadsKeeps ==
    ASSUME IInv, NEW q \in Req, NEW u \in User, NEW text \in Text, StatusReads(q, u, text)
    PROVE  IInv'
<1>1. PICK newest \in OpenRecords(u) :
         request' = [request EXCEPT ![q] =
                       [Idle EXCEPT !.pc = "status_save", !.user = u, !.cur = text,
                                    !.seen = Load({newest})]]
  BY DEF StatusReads
<1> DEFINE s == [Idle EXCEPT !.pc = "status_save", !.user = u, !.cur = text,
                             !.seen = Load({newest})]
<1>2. {newest} \in SUBSET RecId /\ records[newest].status = "active"
  BY OpenRecordsInUse
<1>3. Load({newest}) \in Loaded /\ DOMAIN Load({newest}) = {newest}
  BY <1>2, LoadType DEF IInv
<1>4. s \in Session
  BY <1>3, IdleType DEF Session
<1>5. s.now = 0 /\ s.seen = Load({newest}) /\ s.pc = "status_save"
  BY DEF Idle
<1>6. SessionOK(s)
  BY <1>2, <1>3, <1>5, ConstantsAssumption DEF SessionOK, IInv, TypeOK, Time
<1>7. UNCHANGED <<clock, geofence, records>>
  BY DEF StatusReads
<1> QED
  BY <1>1, <1>4, <1>6, <1>7, SessionStep

\* What the table looks like after a punch-in commits.
LEMMA PunchInSavesRows ==
    ASSUME IInv, NEW q \in Req, PunchInSaves(q)
    PROVE  /\ records' \in [RecId -> Record]
           /\ \A r \in RecId : RowOK(records'[r])
           /\ \A r \in RecId : records[r].status # "unused" =>
                 /\ records'[r].in = records[r].in
                 /\ records'[r].user = records[r].user
                 /\ records'[r].status \in {records[r].status, "auto_closed"}
<1> DEFINE seen == request[q].seen
           row == [NoRow EXCEPT !.status = "active", !.user = request[q].user,
                                !.in = request[q].now]
<1>1. PICK new \in RecId :
         /\ records[new].status = "unused"
         /\ records' = [r \in RecId |->
                          IF r = new THEN row
                          ELSE IF r \in DOMAIN seen THEN AutoClose(records[r], seen[r])
                          ELSE records[r]]
  BY DEF PunchInSaves
<1>2. request[q] \in Session /\ request[q].now =< clock
  BY DEF IInv, TypeOK, SessionsInOrder
<1>3. row \in Record /\ RowOK(row)
  BY <1>2, NoneAssumption DEF NoRow, Record, Session, Text, RowOK
<1>4. SUFFICES ASSUME NEW r \in RecId
               PROVE  /\ records'[r] \in Record
                      /\ RowOK(records'[r])
                      /\ records[r].status # "unused" =>
                           /\ records'[r].in = records[r].in
                           /\ records'[r].user = records[r].user
                           /\ records'[r].status \in {records[r].status, "auto_closed"}
  BY <1>1
<1>5. records[r] \in Record /\ RowOK(records[r])
  BY RowWise DEF IInv, TypeOK
<1>6. CASE r = new
  BY <1>1, <1>3, <1>6
<1>7. CASE r # new /\ r \in DOMAIN seen
  <2>1. records'[r] = AutoClose(records[r], seen[r])
    BY <1>1, <1>7
  <2>2. records[r].status # "unused"
    BY <1>7 DEF IInv, SessionsInOrder
  <2> QED
    BY <1>5, <2>1, <2>2, AutoCloseEffect, AutoCloseOK
<1>8. CASE r # new /\ r \notin DOMAIN seen
  BY <1>1, <1>5, <1>8
<1> QED
  BY <1>6, <1>7, <1>8

\* What the table looks like after a punch-out commits.
LEMMA PunchOutSavesRows ==
    ASSUME IInv, NEW q \in Req, PunchOutSaves(q)
    PROVE  /\ records' \in [RecId -> Record]
           /\ \A r \in RecId : RowOK(records'[r])
           /\ \A r \in RecId :
                 /\ records'[r].in = records[r].in
                 /\ records'[r].user = records[r].user
                 /\ records'[r].status \in {records[r].status, "auto_closed", "completed"}
<1> DEFINE seen == request[q].seen
           now == request[q].now
<1>1. PICK newest \in DOMAIN seen :
         records' = [r \in RecId |->
                       IF r \notin DOMAIN seen THEN records[r]
                       ELSE IF r = newest /\ ~IsStale(records[r], now)
                            THEN Complete(records[r], now)
                            ELSE AutoClose(records[r], seen[r])]
  BY DEF PunchOutSaves
<1>2. now \in Int /\ clock \in Int /\ now =< clock
  BY ConstantsAssumption DEF IInv, TypeOK, SessionsInOrder, Session, Time
<1>3. SUFFICES ASSUME NEW r \in RecId
               PROVE  /\ records'[r] \in Record
                      /\ RowOK(records'[r])
                      /\ records'[r].in = records[r].in
                      /\ records'[r].user = records[r].user
                      /\ records'[r].status \in {records[r].status, "auto_closed", "completed"}
  BY <1>1
<1>4. records[r] \in Record /\ RowOK(records[r])
  BY RowWise DEF IInv, TypeOK
<1>5. CASE r \notin DOMAIN seen
  BY <1>1, <1>4, <1>5
<1>6. CASE r \in DOMAIN seen
  <2>1. records[r].status # "unused" /\ records[r].in =< now
    BY <1>6 DEF IInv, SessionsInOrder, PunchOutSaves
  <2>2. CASE r = newest /\ ~IsStale(records[r], now)
    <3>1. records'[r] = Complete(records[r], now)
      BY <1>1, <1>6, <2>2
    <3>2. RowOK(Complete(records[r], now))
      BY <1>2, <1>4, <2>1, <2>2, CompleteOK
    <3> QED
      BY <1>2, <1>4, <3>1, <3>2, CompleteEffect
  <2>3. CASE ~(r = newest /\ ~IsStale(records[r], now))
    <3>1. records'[r] = AutoClose(records[r], seen[r])
      BY <1>1, <1>6, <2>3
    <3> QED
      BY <1>4, <2>1, <3>1, AutoCloseEffect, AutoCloseOK
  <2> QED
    BY <2>2, <2>3
<1> QED
  BY <1>5, <1>6

\* What the table looks like after a status text is saved.
LEMMA StatusSavesRows ==
    ASSUME IInv, NEW q \in Req, StatusSaves(q)
    PROVE  /\ records' \in [RecId -> Record]
           /\ \A r \in RecId : RowOK(records'[r])
           /\ \A r \in RecId :
                 /\ records'[r].in = records[r].in
                 /\ records'[r].user = records[r].user
                 /\ records'[r].status = records[r].status
<1> DEFINE seen == request[q].seen
<1>1. records' = [r \in RecId |->
                    IF r \in DOMAIN seen /\ seen[r] # request[q].cur
                    THEN [records[r] EXCEPT !.cur = request[q].cur]
                    ELSE records[r]]
  BY DEF StatusSaves
<1>2. request[q].cur \in Text
  BY DEF IInv, TypeOK, Session
<1>3. SUFFICES ASSUME NEW r \in RecId
               PROVE  /\ records'[r] \in Record
                      /\ RowOK(records'[r])
                      /\ records'[r].in = records[r].in
                      /\ records'[r].user = records[r].user
                      /\ records'[r].status = records[r].status
  BY <1>1
<1>4. records[r] \in Record /\ RowOK(records[r])
  BY RowWise DEF IInv, TypeOK
<1> DEFINE changed == [records[r] EXCEPT !.cur = request[q].cur]
<1>5. changed \in Record /\ RowOK(changed) /\ changed.in = records[r].in
      /\ changed.user = records[r].user /\ changed.status = records[r].status
  BY <1>2, <1>4 DEF Record, RowOK
<1>6. records'[r] = changed \/ records'[r] = records[r]
  BY <1>1
<1> QED
  BY <1>4, <1>5, <1>6

\* Every commit of a handler keeps the invariant.
LEMMA SavesKeep ==
    ASSUME IInv, NEW q \in Req, PunchInSaves(q) \/ PunchOutSaves(q) \/ StatusSaves(q)
    PROVE  IInv'
<1> DEFINE rows == records'
<1>1. /\ rows \in [RecId -> Record]
      /\ \A r \in RecId : RowOK(rows[r])
      /\ \A r \in RecId : records[r].status # "unused" =>
                             rows[r].status # "unused" /\ rows[r].in = records[r].in
  BY PunchInSavesRows, PunchOutSavesRows, StatusSavesRows
<1>2. Answer(q) /\ UNCHANGED <<clock, geofence>>
  BY DEF PunchInSaves, PunchOutSaves, StatusSaves
<1> QED
  BY <1>1, <1>2, CommitStep

\* An administrator's change of the geofence keeps the invariant.
LEMMA GeofenceKeeps ==
    ASSUME IInv,
           (\E radius \in Radius : CreateGeofence(radius) \/ UpdateGeofence(radius))
           \/ DeleteGeofence
    PROVE  IInv'
<1>1. geofence' \in Radius \cup {None} /\ UNCHANGED <<clock, records, request>>
  BY DEF CreateGeofence, UpdateGeofence, DeleteGeofence
<1> QED
  BY <1>1 DEF IInv, TypeOK, SessionsInOrder, PunchInsInPast, HoursMatchPunches

\* The passing of time keeps the invariant.
LEMMA TickKeeps ==
    ASSUME IInv, Tick
    PROVE  IInv'
<1>1. /\ clock \in Int /\ clock' \in Time /\ clock' \in Int /\ clock =< clock'
      /\ UNCHANGED <<geofence, records, request>>
  BY ConstantsAssumption DEF IInv, TypeOK, Time, Tick
<1>2. TypeOK'
  BY <1>1 DEF IInv, TypeOK
<1>3. ASSUME NEW r \in RecId PROVE records[r].in \in Int /\ records[r].out \in Int \cup {None}
  BY ConstantsAssumption DEF IInv, TypeOK, Record, Time
<1>4. ASSUME NEW q \in Req PROVE request[q].now \in Int
  BY ConstantsAssumption DEF IInv, TypeOK, Session, Time
<1>5. SessionsInOrder'
  BY <1>1, <1>4 DEF IInv, SessionsInOrder
<1>6. PunchInsInPast'
  BY <1>1, <1>3 DEF IInv, PunchInsInPast
<1>7. HoursMatchPunches'
  BY <1>1, <1>3 DEF IInv, HoursMatchPunches
<1> QED
  BY <1>2, <1>5, <1>6, <1>7 DEF IInv

-----------------------------------------------------------------------------
(* The theorems. *)

\* The invariant holds initially.
LEMMA InitIInv == Init => IInv
<1> SUFFICES ASSUME Init PROVE IInv
  OBVIOUS
<1>1. TypeOK
  BY IdleType, ConstantsAssumption DEF Init, TypeOK, NoRow, Record, Time, Text
<1>2. 0 =< clock
  BY DEF Init
<1>3. SessionsInOrder
  BY <1>2, IdleType DEF Init, SessionsInOrder
<1>4. PunchInsInPast /\ HoursMatchPunches
  BY <1>2 DEF Init, NoRow, PunchInsInPast, HoursMatchPunches
<1> QED
  BY <1>1, <1>3, <1>4 DEF IInv

\* Every step of the punch clock keeps the invariant.
LEMMA NextIInv == IInv /\ [Next]_vars => IInv'
<1> SUFFICES ASSUME IInv, [Next]_vars PROVE IInv'
  OBVIOUS
<1>1. ASSUME NEW q \in Req, Handle(q) PROVE IInv'
  <2>1. CASE \E u \in User : PunchInArrives(q, u)
    BY <2>1, PunchInArrivesKeeps
  <2>2. CASE PunchInReads(q)
    BY <2>2, PunchInReadsKeeps
  <2>3. CASE PunchInChecks(q)
    BY <2>3, PunchInChecksKeeps
  <2>4. CASE \E u \in User : PunchOutReads(q, u)
    BY <2>4, PunchOutReadsKeeps
  <2>5. CASE PunchOutChecks(q)
    BY <2>5, PunchOutChecksKeeps
  <2>6. CASE \E u \in User : \E text \in Text : StatusReads(q, u, text)
    BY <2>6, StatusReadsKeeps
  <2>7. CASE PunchInSaves(q) \/ PunchOutSaves(q) \/ StatusSaves(q)
    BY <2>7, SavesKeep
  <2>8. CASE Abandon(q)
    BY <2>8, AnswerStep DEF Abandon
  <2> QED
    BY <1>1, <2>1, <2>2, <2>3, <2>4, <2>5, <2>6, <2>7, <2>8 DEF Handle
<1>2. CASE \E radius \in Radius : CreateGeofence(radius) \/ UpdateGeofence(radius)
  BY <1>2, GeofenceKeeps
<1>3. CASE DeleteGeofence
  BY <1>3, GeofenceKeeps
<1>4. CASE Tick
  BY <1>4, TickKeeps
<1>5. CASE UNCHANGED vars
  BY <1>5 DEF vars, IInv, TypeOK, SessionsInOrder, PunchInsInPast, HoursMatchPunches
<1> QED
  BY <1>1, <1>2, <1>3, <1>4, <1>5 DEF Next

\* The strengthened invariant holds of every behaviour of the punch clock.
THEOREM Invariance == Spec => []IInv
BY InitIInv, NextIInv, PTL DEF Spec

\* The tables and the handlers' memories keep their types.
THEOREM TypeCorrect == Spec => []TypeOK
<1>1. IInv => TypeOK
  BY DEF IInv
<1> QED
  BY <1>1, Invariance, PTL

\* Paid hours are the hours between the two punches and at most a plausible
\* shift, whatever requests overlap.
THEOREM HoursCorrect == Spec => []HoursMatchPunches
<1>1. IInv => HoursMatchPunches
  BY DEF IInv
<1> QED
  BY <1>1, Invariance, PTL

\* A closed shift is paid or flagged for review, never both and never neither:
\* a completed one always has hours, and an auto-closed one is never countable.
THEOREM PaidOrReviewed == Spec => []ClosedShiftPaidXorReviewed
<1>1. ASSUME IInv, NEW r \in RecId, Closed(r)
      PROVE  (HoursOf(r, clock) # None) # NeedsReview(r)
  <2> DEFINE rec == records[r]
  <2>1. CASE rec.status = "auto_closed"
    <3>1. HoursOf(r, clock) = None /\ NeedsReview(r)
      BY <2>1 DEF HoursOf, NeedsReview
    <3> QED
      BY <3>1
  <2>2. CASE rec.status = "completed"
    <3>1. rec.hours # None
      BY <1>1, <2>2 DEF IInv, HoursMatchPunches
    <3>2. HoursOf(r, clock) = IF rec.hours > MAX_PLAUSIBLE_HOURS THEN None ELSE rec.hours
      BY <2>2, <3>1 DEF HoursOf
    <3>3. NeedsReview(r) <=> rec.hours > MAX_PLAUSIBLE_HOURS
      BY <2>2, <3>1 DEF NeedsReview
    <3>4. CASE rec.hours > MAX_PLAUSIBLE_HOURS
      BY <3>2, <3>3, <3>4
    <3>5. CASE ~(rec.hours > MAX_PLAUSIBLE_HOURS)
      BY <3>1, <3>2, <3>3, <3>5
    <3> QED
      BY <3>4, <3>5
  <2> QED
    BY <1>1, <2>1, <2>2 DEF Closed
<1>2. IInv => ClosedShiftPaidXorReviewed
  BY <1>1 DEF ClosedShiftPaidXorReviewed
<1> QED
  BY <1>2, Invariance, PTL

\* No step reopens a closed shift or changes whose it is and when it began.
LEMMA ClosedStaysClosed ==
    ASSUME IInv, [Next]_vars, NEW r \in RecId, Closed(r)
    PROVE  Closed(r)' /\ records'[r].user = records[r].user /\ records'[r].in = records[r].in
<1>1. CASE \E q \in Req : PunchInSaves(q)
  BY <1>1, PunchInSavesRows DEF Closed
<1>2. CASE \E q \in Req : PunchOutSaves(q)
  BY <1>2, PunchOutSavesRows DEF Closed
<1>3. CASE \E q \in Req : StatusSaves(q)
  BY <1>3, StatusSavesRows DEF Closed
<1>4. CASE UNCHANGED records
  BY <1>4 DEF Closed
<1>5. ASSUME NEW q \in Req, Handle(q)
      PROVE  PunchInSaves(q) \/ PunchOutSaves(q) \/ StatusSaves(q) \/ UNCHANGED records
  BY <1>5 DEF Handle, PunchInArrives, PunchInReads, PunchInChecks, PunchOutReads,
              PunchOutChecks, StatusReads, Abandon
<1>6. ASSUME ~\E q \in Req : Handle(q) PROVE UNCHANGED records
  BY <1>6 DEF Next, vars, CreateGeofence, UpdateGeofence, DeleteGeofence, Tick
<1> QED
  BY <1>1, <1>2, <1>3, <1>4, <1>5, <1>6

\* A shift that was closed stays closed, with its owner and punch-in time,
\* whatever requests overlap.
THEOREM ClosedForGood == Spec => ClosedShiftsStayClosed
<1>1. IInv /\ [Next]_vars =>
        [\A r \in RecId : Closed(r) => /\ Closed(r)'
                                       /\ records'[r].user = records[r].user
                                       /\ records'[r].in = records[r].in]_vars
  BY ClosedStaysClosed
<1> QED
  BY <1>1, Invariance, PTL DEF Spec, ClosedShiftsStayClosed

-----------------------------------------------------------------------------
(* Corrections. *)

\* The request rows a handler has locked, from its memory alone.
Holds(h) == IF h.pc \in {"create_save", "decide_check", "decide_save", "cancel_save"} THEN h.rows ELSE {}

Used(c) == correction[c].status # "unused"

\* What a handler remembers: of a submission, the pending requests of its shift;
\* of a decision, one used request, which once locked is pending and may be
\* reviewed by this user.
MemoryOK(h) ==
    /\ Holds(h) \subseteq {c \in CorrId : correction[c].status = "pending"}
    /\ h.pc # "idle" => h.user \in User
    /\ h.pc \in {"create_role", "create_lock", "create_save"} => h.rec \in RecId /\ h.claim \in Int
    /\ h.pc \in {"create_lock", "create_save"} => h.as \in Role
    /\ h.pc = "create_save" => h.rows \subseteq Pending(h.rec)
    /\ h.pc \in {"decide_lock", "decide_check", "decide_save", "cancel_lock", "cancel_save"} =>
          \E c \in CorrId : h.rows = {c} /\ Used(c) /\ h.rec = correction[c].rec
    /\ h.pc \in {"decide_lock", "decide_check", "decide_save"} => h.ends \in {"approved", "rejected"}
    /\ h.pc \in {"cancel_lock", "cancel_save"} => h.ends = "cancelled"
    /\ h.pc \in {"decide_check", "decide_save"} => \A c \in h.rows : correction[c].by # h.user
    /\ h.pc = "decide_save" =>
          \A c \in h.rows : correction[c].role # "Staff" => Career[h.user] \cap Admin # {}

\* No two handlers hold the same row.
LocksExclude == \A j, k \in CReq : j # k => Holds(creq[j]) \cap Holds(creq[k]) = {}

Handlers == \A k \in CReq : MemoryOK(creq[k])

\* A used request is of a shift and its owner; at most one of a shift is pending.
Requests ==
    /\ \A c \in CorrId : Used(c) => /\ correction[c].rec \in RecId /\ correction[c].by \in User
                                    /\ correction[c].claim \in Int
    /\ \A c, d \in CorrId : /\ correction[c].status = "pending" /\ correction[d].status = "pending"
                            /\ correction[c].rec = correction[d].rec
                            => c = d

Careers == \A u \in User : role[u] \in Career[u]

CInv == /\ CorrTypeOK /\ Careers /\ LocksExclude /\ Handlers /\ Requests
        /\ ReviewerEntitled /\ FeedFollowsRequests

-----------------------------------------------------------------------------
(* How the parts of the invariant survive a step. *)

\* An idle handler remembers and holds nothing.
LEMMA FreeOK == Free \in Handler /\ MemoryOK(Free) /\ Holds(Free) = {}
<1>1. Free \in Handler
  BY DEF Free, Handler
<1>2. Holds(Free) = {}
  BY DEF Free, Holds
<1>3. Free.pc = "idle"
  BY DEF Free
<1> QED
  BY <1>1, <1>2, <1>3 DEF MemoryOK

\* What a handler remembers stays true while the rows it holds stay as they are
\* and no request loses its row or shift or author.
LEMMA StillOK ==
    ASSUME NEW h \in Handler, MemoryOK(h),
           \A c \in Holds(h) : correction'[c] = correction[c],
           \A c \in CorrId : Used(c) => Used(c)' /\ correction'[c].rec = correction[c].rec
    PROVE  MemoryOK(h)'
<1>1. Holds(h)' = Holds(h)
  BY DEF Holds
<1>2. Holds(h) \subseteq {c \in CorrId : correction'[c].status = "pending"}
  BY DEF MemoryOK
<1>3. h.pc = "create_save" => h.rows \subseteq Pending(h.rec)'
  BY DEF MemoryOK, Holds, Pending
<1>4. h.pc \in {"decide_check", "decide_save"} => \A c \in h.rows : correction'[c] = correction[c]
  BY DEF Holds
<1> QED
  BY <1>1, <1>2, <1>3, <1>4 DEF MemoryOK

\* A step that only changes what handler k remembers.
LEMMA MemoryStep ==
    ASSUME CInv, NEW k \in CReq, NEW h \in Handler, MemoryOK(h),
           \A j \in CReq \ {k} : Holds(creq[j]) \cap Holds(h) = {},
           creq' = [creq EXCEPT ![k] = h],
           UNCHANGED <<correction, role, token, inbox, reader>>
    PROVE  CInv'
<1>1. CorrTypeOK'
  BY DEF CInv, CorrTypeOK, Feed!InboxTypeOK
<1>2. \A j \in CReq : creq'[j] = IF j = k THEN h ELSE creq[j]
  BY DEF CInv, CorrTypeOK
<1>3. LocksExclude'
  BY <1>2 DEF CInv, LocksExclude, Holds
<1>4. ASSUME NEW j \in CReq PROVE MemoryOK(creq[j])'
  <2>1. \A g \in Handler : MemoryOK(g) => MemoryOK(g)'
    BY StillOK DEF Used
  <2>2. MemoryOK(h)' /\ MemoryOK(creq[j])
    BY <2>1 DEF CInv, Handlers
  <2>3. MemoryOK(creq'[j])
    BY <1>2, <2>2
  <2> QED
    BY <2>3 DEF MemoryOK, Holds, Used, Pending
<1>5. Careers' /\ Requests' /\ ReviewerEntitled' /\ FeedFollowsRequests'
  BY DEF CInv, Careers, Requests, Used, ReviewerEntitled, FeedFollowsRequests, Feed!IsOpen
<1> QED
  BY <1>1, <1>3, <1>4, <1>5 DEF CInv, Handlers

\* A commit of handler k, which writes only rows it holds or that are unused.
LEMMA WriteStep ==
    ASSUME CInv, NEW k \in CReq,
           creq' = [creq EXCEPT ![k] = Free],
           UNCHANGED <<role, token, reader>>,
           correction' \in [CorrId -> Correction],
           inbox' \in [Item -> Feed!Status],
           \A c \in CorrId : \/ correction'[c] = correction[c]
                             \/ c \in Holds(creq[k])
                             \/ correction[c].status = "unused",
           \A c \in CorrId : Used(c) => Used(c)' /\ correction'[c].rec = correction[c].rec,
           Requests', ReviewerEntitled', FeedFollowsRequests'
    PROVE  CInv'
<1>1. CorrTypeOK' /\ Careers'
  BY FreeOK DEF CInv, CorrTypeOK, Careers, Feed!InboxTypeOK
<1>2. \A j \in CReq : creq'[j] = IF j = k THEN Free ELSE creq[j]
  BY DEF CInv, CorrTypeOK
<1>3. LocksExclude'
  BY <1>2, FreeOK DEF CInv, LocksExclude, Holds
<1>4. ASSUME NEW j \in CReq PROVE MemoryOK(creq[j])'
  <2>1. CASE j = k
    BY <1>2, <2>1 DEF MemoryOK, Free, Holds
  <2>2. CASE j # k
    <3>1. \A c \in Holds(creq[j]) : correction'[c] = correction[c]
      BY <2>2 DEF CInv, LocksExclude, Handlers, MemoryOK
    <3>2. MemoryOK(creq[j]) /\ creq[j] \in Handler /\ creq'[j] = creq[j]
      BY <1>2, <2>2 DEF CInv, Handlers, CorrTypeOK
    <3>3. \A g \in Handler : MemoryOK(g) /\ (\A c \in Holds(g) : correction'[c] = correction[c]) => MemoryOK(g)'
      BY StillOK
    <3> QED
      BY <3>1, <3>2, <3>3 DEF MemoryOK, Holds, Used, Pending
  <2> QED
    BY <2>1, <2>2
<1> QED
  BY <1>1, <1>3, <1>4 DEF CInv, Handlers

-----------------------------------------------------------------------------
(* Every step keeps the invariant. *)

\* A handler gives up or is refused.
LEMMA FinishStep ==
    ASSUME CInv, NEW k \in CReq, Finish(k), UNCHANGED <<correction, role, token, inbox, reader>>
    PROVE  CInv'
BY FreeOK, MemoryStep DEF Finish

\* The next step of a handler, when it has found what it looked for.
LEMMA StepStep ==
    ASSUME CInv, NEW k \in CReq, NEW pc \in {"decide_check", "decide_save", "cancel_save"}, Step(k, pc),
           MemoryOK([creq[k] EXCEPT !.pc = pc]), RowsFree(k, creq[k].rows),
           UNCHANGED <<correction, role, token, inbox, reader>>
    PROVE  CInv'
<1> DEFINE h == [creq[k] EXCEPT !.pc = pc]
<1>1. h \in Handler
  BY DEF CInv, CorrTypeOK, Handler
<1>2. creq' = [creq EXCEPT ![k] = h]
  BY DEF Step
<1>3. \A j \in CReq \ {k} : Holds(creq[j]) \cap Holds(h) = {}
  BY DEF RowsFree, LockedRows, Holds, CInv, CorrTypeOK, Handler
<1> QED
  BY <1>1, <1>2, <1>3, MemoryStep

LEMMA CreateReadsStep ==
    ASSUME CInv, NEW k \in CReq, NEW u \in User, NEW r \in RecId, NEW claim \in Time, CreateReads(k, u, r, claim)
    PROVE  CInv'
<1> DEFINE h == [Free EXCEPT !.pc = "create_role", !.user = u, !.rec = r, !.claim = claim]
<1>1. h \in Handler
  <2>1. claim \in Int /\ r \in RecId /\ u \in User
    BY DEF Time
  <2> QED
    BY <2>1, FreeOK DEF Handler
<1>2. h.pc = "create_role" /\ h.user = u /\ h.rec = r /\ h.claim \in Int
  BY DEF Free, Time
<1>3. creq' = [creq EXCEPT ![k] = h] /\ UNCHANGED <<correction, role, token, inbox, reader>>
  BY DEF CreateReads
<1> HIDE DEF h
<1>4. MemoryOK(h) /\ Holds(h) = {}
  BY <1>2 DEF MemoryOK, Holds
<1> QED
  BY <1>1, <1>3, <1>4, MemoryStep

LEMMA CreateFindsStep ==
    ASSUME CInv, NEW k \in CReq, CreateFinds(k) PROVE CInv'
<1> DEFINE u == creq[k].user
           a == IF role[u] # None THEN role[u] ELSE token[u]
           h == [creq[k] EXCEPT !.pc = "create_lock", !.as = a, !.rows = Pending(creq[k].rec)]
<1>1. creq[k] \in Handler /\ MemoryOK(creq[k]) /\ creq[k].pc = "create_role"
  BY DEF CInv, CorrTypeOK, Handlers, CreateFinds
<1>2. u \in User /\ creq[k].rec \in RecId /\ creq[k].claim \in Int
  BY <1>1 DEF MemoryOK
<1>3. a \in Role
  BY <1>2 DEF CInv, CorrTypeOK
<1>4. h \in Handler
  BY <1>1, <1>3 DEF Handler, Pending
<1>5. h.pc = "create_lock" /\ h.user = u /\ h.as = a /\ h.rec = creq[k].rec /\ h.claim = creq[k].claim
  BY <1>1 DEF Handler
<1>6. creq' = [creq EXCEPT ![k] = h]
  BY <1>1 DEF CreateFinds, CInv, CorrTypeOK, Handler
<1> HIDE DEF h, a
<1>7. MemoryOK(h) /\ Holds(h) = {}
  BY <1>2, <1>3, <1>5 DEF MemoryOK, Holds
<1> QED
  BY <1>4, <1>6, <1>7, MemoryStep DEF CreateFinds

LEMMA CreateLocksStep ==
    ASSUME CInv, NEW k \in CReq, CreateLocks(k) PROVE CInv'
<1> DEFINE h == [creq[k] EXCEPT !.pc = "create_save", !.rows = @ \cap Pending(creq[k].rec)]
<1>1. creq[k] \in Handler /\ MemoryOK(creq[k]) /\ creq[k].pc = "create_lock"
  BY DEF CInv, CorrTypeOK, Handlers, CreateLocks
<1>2. h \in Handler
  BY <1>1 DEF Handler
<1>3. MemoryOK(h)
  BY <1>1 DEF MemoryOK, Holds, Handler, Pending
<1>4. creq' = [creq EXCEPT ![k] = h]
  BY <1>1 DEF CreateLocks, Handler
<1>5. \A j \in CReq \ {k} : Holds(creq[j]) \cap Holds(h) = {}
  BY <1>1 DEF CreateLocks, RowsFree, LockedRows, Holds, Handler
<1> QED
  BY <1>2, <1>3, <1>4, <1>5, MemoryStep DEF CreateLocks

LEMMA DecideArrivesStep ==
    ASSUME CInv, NEW k \in CReq, NEW u \in User, NEW c \in CorrId, NEW ends \in Decision,
           DecideArrives(k, u, c, ends)
    PROVE  CInv'
<1> DEFINE h == [Free EXCEPT !.user = u, !.as = token[u], !.ends = ends, !.rows = {c}, !.rec = correction[c].rec,
                           !.pc = IF ends = "cancelled" THEN "cancel_lock" ELSE "decide_lock"]
<1>1. h \in Handler
  BY DEF Free, Handler, CInv, CorrTypeOK, Correction
<1>2. h.pc \in {"cancel_lock", "decide_lock"} /\ (h.pc = "cancel_lock" <=> ends = "cancelled")
  BY DEF Free
<1>3. h.user = u /\ h.rows = {c} /\ h.rec = correction[c].rec /\ h.ends = ends
  BY DEF Free
<1>4. Used(c) /\ ends \in {"approved", "rejected", "cancelled"}
  BY DEF Used, Decision, DecideArrives
<1>5. creq' = [creq EXCEPT ![k] = h] /\ UNCHANGED <<correction, role, token, inbox, reader>>
  BY DEF DecideArrives
<1> HIDE DEF h
<1>6. Holds(h) = {}
  BY <1>2 DEF Holds
<1>7. MemoryOK(h)
  BY <1>2, <1>3, <1>4, <1>6 DEF MemoryOK
<1> QED
  BY <1>1, <1>5, <1>6, <1>7, MemoryStep

LEMMA DecideLocksStep ==
    ASSUME CInv, NEW k \in CReq, DecideLocks(k) PROVE CInv'
<1>1. PICK c \in creq[k].rows : IF MayReview(k, c) THEN Step(k, "decide_check") ELSE Finish(k)
  BY DEF DecideLocks
<1>2. creq[k] \in Handler /\ MemoryOK(creq[k]) /\ creq[k].pc = "decide_lock"
  BY DEF CInv, CorrTypeOK, Handlers, DecideLocks
<1>3. creq[k].rows = {c} /\ c \in CorrId
  BY <1>1, <1>2 DEF MemoryOK
<1>4. CASE MayReview(k, c)
  <2>1. MemoryOK([creq[k] EXCEPT !.pc = "decide_check"])
    BY <1>2, <1>3, <1>4 DEF MemoryOK, MayReview, Holds, Handler
  <2> QED
    BY <1>1, <1>4, <2>1, StepStep DEF DecideLocks
<1>5. CASE ~MayReview(k, c)
  BY <1>1, <1>5, FinishStep DEF DecideLocks
<1> QED
  BY <1>4, <1>5

\* A row that is locked already is locked for the next step.
LEMMA StillLocked ==
    ASSUME CInv, NEW k \in CReq, Holds(creq[k]) = creq[k].rows
    PROVE  RowsFree(k, creq[k].rows)
BY DEF CInv, LocksExclude, RowsFree, LockedRows, Holds

LEMMA DecideChecksStep ==
    ASSUME CInv, NEW k \in CReq, DecideChecks(k) PROVE CInv'
<1>1. PICK c \in creq[k].rows :
         IF StillAllowed(role[creq[k].user], creq[k].as, c) /\ RecordUnchanged(k)
         THEN Step(k, "decide_save") ELSE Finish(k)
  BY DEF DecideChecks
<1>2. creq[k] \in Handler /\ MemoryOK(creq[k]) /\ creq[k].pc = "decide_check"
  BY DEF CInv, CorrTypeOK, Handlers, DecideChecks
<1>3. creq[k].rows = {c} /\ c \in CorrId /\ creq[k].user \in User
  BY <1>1, <1>2 DEF MemoryOK
<1>4. CASE StillAllowed(role[creq[k].user], creq[k].as, c) /\ RecordUnchanged(k)
  <2>1. correction[c].role # "Staff" => Career[creq[k].user] \cap Admin # {}
    BY <1>3, <1>4 DEF StillAllowed, CInv, Careers
  <2>2. MemoryOK([creq[k] EXCEPT !.pc = "decide_save"])
    BY <1>2, <1>3, <2>1 DEF MemoryOK, Holds, Handler
  <2>3. RowsFree(k, creq[k].rows)
    BY <1>2, StillLocked DEF Holds
  <2> QED
    BY <1>1, <1>4, <2>2, <2>3, StepStep DEF DecideChecks
<1>5. CASE ~(StillAllowed(role[creq[k].user], creq[k].as, c) /\ RecordUnchanged(k))
  BY <1>1, <1>5, FinishStep DEF DecideChecks
<1> QED
  BY <1>4, <1>5

LEMMA CancelLocksStep ==
    ASSUME CInv, NEW k \in CReq, CancelLocks(k) PROVE CInv'
<1> DEFINE ok(c) == correction[c].by = creq[k].user /\ correction[c].status = "pending"
<1>1. PICK c \in creq[k].rows : IF ok(c) THEN Step(k, "cancel_save") ELSE Finish(k)
  BY DEF CancelLocks
<1>2. creq[k] \in Handler /\ MemoryOK(creq[k]) /\ creq[k].pc = "cancel_lock"
  BY DEF CInv, CorrTypeOK, Handlers, CancelLocks
<1>3. creq[k].rows = {c} /\ c \in CorrId
  BY <1>1, <1>2 DEF MemoryOK
<1>4. CASE ok(c)
  <2>1. MemoryOK([creq[k] EXCEPT !.pc = "cancel_save"])
    BY <1>2, <1>3, <1>4 DEF MemoryOK, Holds, Handler
  <2> QED
    BY <1>1, <1>4, <2>1, StepStep DEF CancelLocks
<1>5. CASE ~ok(c)
  BY <1>1, <1>5, FinishStep DEF CancelLocks
<1> QED
  BY <1>4, <1>5
\* What the three commits make of the requests and of the feed.
Replaces(k, new) ==
    /\ correction[new].status = "unused" /\ IndexAllows(k)
    /\ correction' = [c \in CorrId |->
          IF c = new
          THEN [status |-> "pending", rec |-> creq[k].rec, by |-> creq[k].user,
                role |-> creq[k].as, claim |-> creq[k].claim, reviewer |-> None]
          ELSE IF c \in creq[k].rows
          THEN [correction[c] EXCEPT !.status = "cancelled", !.reviewer = creq[k].user]
          ELSE correction[c]]

\* The feed keeps its type, and only new items become open.
LEMMA FeedType ==
    ASSUME inbox \in [Item -> Feed!Status], NEW i \in Item, NEW S
    PROVE  /\ Feed!Actioned(S, inbox) \in [Item -> Feed!Status]
           /\ Feed!Created(i, Feed!Actioned(S, inbox)) \in [Item -> Feed!Status]
<1>1. Feed!Actioned(S, inbox) \in [Item -> Feed!Status]
  BY DEF Feed!Actioned, Feed!Status
<1> QED
  BY <1>1 DEF Feed!Created, Feed!Status

LEMMA CreateSavesStep ==
    ASSUME CInv, NEW k \in CReq, CreateSaves(k) PROVE CInv'
<1> DEFINE me == creq[k]
<1>1. me \in Handler /\ MemoryOK(me) /\ me.pc = "create_save" /\ Finish(k) /\ UNCHANGED <<role, token, reader>>
  BY DEF CInv, CorrTypeOK, Handlers, CreateSaves
<1>2. /\ me.user \in User /\ me.rec \in RecId /\ me.claim \in Int /\ me.as \in Role
      /\ me.rows \subseteq Pending(me.rec) /\ Holds(me) = me.rows
  BY <1>1 DEF MemoryOK, Holds
<1>3. CASE UNCHANGED <<correction, inbox>>
  BY <1>1, <1>3, FinishStep
<1>4. ASSUME NEW new \in CorrId, Replaces(k, new),
             inbox' = Feed!Created(RequestItem(new), Feed!Actioned({RequestItem(c) : c \in me.rows}, inbox))
      PROVE  CInv'
  <2>1. \A c \in CorrId : correction'[c] =
           IF c = new
           THEN [status |-> "pending", rec |-> me.rec, by |-> me.user,
                 role |-> me.as, claim |-> me.claim, reviewer |-> None]
           ELSE IF c \in me.rows
           THEN [correction[c] EXCEPT !.status = "cancelled", !.reviewer = me.user]
           ELSE correction[c]
    BY <1>4 DEF Replaces
  <2>2. \A c \in CorrId : correction[c] \in Correction
    BY DEF CInv, CorrTypeOK
  <2>3. /\ correction[new].status = "unused" /\ new \notin me.rows
        /\ \A c \in me.rows : correction[c].status = "pending" /\ correction[c].rec = me.rec
    BY <1>2, <1>4 DEF Replaces, Pending
  <2>4. /\ correction'[new].status = "pending" /\ correction'[new].rec = me.rec /\ correction'[new].by = me.user
        /\ correction'[new].claim = me.claim
        /\ \A c \in CorrId \ {new} : c \in me.rows =>
              /\ correction'[c].status = "cancelled" /\ correction'[c].rec = correction[c].rec
              /\ correction'[c].by = correction[c].by /\ correction'[c].claim = correction[c].claim
        /\ \A c \in CorrId \ {new} : c \notin me.rows => correction'[c] = correction[c]
    <3>1. correction'[new] = [status |-> "pending", rec |-> me.rec, by |-> me.user,
                              role |-> me.as, claim |-> me.claim, reviewer |-> None]
      BY <2>1
    <3>2. ASSUME NEW c \in CorrId \ {new}, c \in me.rows
          PROVE  correction'[c] = [correction[c] EXCEPT !.status = "cancelled", !.reviewer = me.user]
      BY <2>1, <3>2
    <3>3. ASSUME NEW c \in CorrId \ {new}, c \in me.rows
          PROVE  /\ correction'[c].status = "cancelled" /\ correction'[c].rec = correction[c].rec
                 /\ correction'[c].by = correction[c].by /\ correction'[c].claim = correction[c].claim
      BY <2>2, <3>2, <3>3 DEF Correction
    <3>4. \A c \in CorrId \ {new} : c \notin me.rows => correction'[c] = correction[c]
      BY <2>1
    <3>5. /\ correction'[new].status = "pending" /\ correction'[new].rec = me.rec
          /\ correction'[new].by = me.user /\ correction'[new].claim = me.claim
      BY <3>1
    <3> QED
      BY <3>3, <3>4, <3>5
  <2>5. \A c \in CorrId : correction'[c] \in Correction
    <3>1. [status |-> "pending", rec |-> me.rec, by |-> me.user, role |-> me.as, claim |-> me.claim,
           reviewer |-> None] \in Correction
      BY <1>2 DEF Correction
    <3>2. \A c \in CorrId : [correction[c] EXCEPT !.status = "cancelled", !.reviewer = me.user] \in Correction
      BY <1>2, <2>2 DEF Correction, Decision
    <3> QED
      BY <2>1, <2>2, <3>1, <3>2
  <2>6. correction' \in [CorrId -> Correction]
    BY <1>4, <2>5 DEF Replaces
  <2> HIDE DEF me
  <2>7. inbox' \in [Item -> Feed!Status]
    BY <1>4, FeedType DEF CInv, CorrTypeOK, Feed!InboxTypeOK, RequestItem, Item
  <2>8. Requests'
    <3>1. \A c \in CorrId : Used(c)' => /\ correction'[c].rec \in RecId /\ correction'[c].by \in User
                                        /\ correction'[c].claim \in Int
      BY <1>2, <2>3, <2>4 DEF CInv, Requests, Used
    <3>2. \A c \in CorrId : correction'[c].status = "pending" /\ correction'[c].rec = me.rec => c = new
      <4>1. Pending(me.rec) \subseteq me.rows
        BY <1>4 DEF Replaces, IndexAllows, me
      <4> QED
        BY <2>4, <4>1 DEF Pending
    <3>3. \A c \in CorrId \ {new} : correction'[c].status = "pending" => correction'[c] = correction[c]
      BY <2>4
    <3> QED
      BY <2>4, <3>1, <3>2, <3>3 DEF Requests, Used, CInv
  <2>9. ReviewerEntitled'
    <3>1. \A c \in CorrId : correction'[c].status \in {"approved", "rejected"} => correction'[c] = correction[c]
      BY <2>4
    <3> QED
      BY <3>1 DEF CInv, ReviewerEntitled
  <2>10. FeedFollowsRequests'
    <3>1. ASSUME NEW c \in CorrId, Feed!IsOpen(RequestItem(c))' PROVE correction'[c].status = "pending"
      <4>1. CASE c # new
        <5>1. inbox'[RequestItem(c)] = Feed!Actioned({RequestItem(d) : d \in me.rows}, inbox)[RequestItem(c)]
          BY <1>4, <4>1 DEF Feed!Created, Feed!Actioned, RequestItem, Item
        <5>2. c \notin me.rows /\ Feed!IsOpen(RequestItem(c))
          BY <3>1, <5>1 DEF Feed!IsOpen, Feed!Actioned, RequestItem, Item
        <5> QED
          BY <2>4, <4>1, <5>2 DEF CInv, FeedFollowsRequests
      <4> QED
        BY <2>4, <4>1
    <3>2. ASSUME NEW c \in CorrId, Feed!IsOpen(OutcomeItem(c))' PROVE correction'[c].status \in {"approved", "rejected"}
      <4>1. inbox'[OutcomeItem(c)] = inbox[OutcomeItem(c)]
        BY <1>4 DEF Feed!Created, Feed!Actioned, RequestItem, OutcomeItem, Item
      <4>2. correction[c].status \in {"approved", "rejected"}
        BY <3>2, <4>1 DEF CInv, FeedFollowsRequests, Feed!IsOpen
      <4> QED
        BY <2>3, <2>4, <4>2
    <3> QED
      BY <3>1, <3>2 DEF FeedFollowsRequests
  <2>11. /\ \A c \in CorrId : \/ correction'[c] = correction[c] \/ c \in Holds(creq[k])
                              \/ correction[c].status = "unused"
         /\ \A c \in CorrId : Used(c) => Used(c)' /\ correction'[c].rec = correction[c].rec
    BY <1>2, <2>3, <2>4 DEF Used, me
  <2> QED
    BY <1>1, <2>6, <2>7, <2>8, <2>9, <2>10, <2>11, WriteStep DEF Finish
<1> QED
  BY <1>3, <1>4 DEF CreateSaves, Replaces

\* A decision or a cancellation of the request that handler k holds.
LEMMA DecidedStep ==
    ASSUME CInv, NEW k \in CReq, NEW c \in CorrId, creq[k].pc \in {"decide_save", "cancel_save"},
           creq[k].rows = {c}, correction' = Decided(k, c), Finish(k), UNCHANGED <<role, token, reader>>,
           \/ inbox' = Feed!Actioned({RequestItem(c)}, inbox)
           \/ /\ creq[k].pc = "decide_save"
              /\ inbox' = Feed!Created(OutcomeItem(c), Feed!Actioned({RequestItem(c)}, inbox))
    PROVE  CInv'
<1> DEFINE me == creq[k]
<1>1. me \in Handler /\ MemoryOK(me) /\ Holds(me) = {c}
  BY DEF CInv, CorrTypeOK, Handlers, Holds
<1>2. /\ me.user \in User /\ me.ends \in Decision /\ correction[c].status = "pending" /\ Used(c)
      /\ me.pc = "decide_save" => me.ends \in {"approved", "rejected"}
      /\ me.ends # "cancelled" => /\ correction[c].by # me.user
                                  /\ correction[c].role # "Staff" => Career[me.user] \cap Admin # {}
  BY <1>1 DEF MemoryOK, Decision
<1>3. correction[c] \in Correction
  BY DEF CInv, CorrTypeOK
<1>4. /\ correction'[c].status = me.ends /\ correction'[c].reviewer = me.user
      /\ correction'[c].rec = correction[c].rec /\ correction'[c].by = correction[c].by
      /\ correction'[c].role = correction[c].role /\ correction'[c].claim = correction[c].claim
      /\ \A d \in CorrId \ {c} : correction'[d] = correction[d]
  BY <1>3 DEF Decided, CInv, CorrTypeOK, Correction
<1>5. correction' \in [CorrId -> Correction]
  <2>1. correction'[c] = [correction[c] EXCEPT !.status = me.ends, !.reviewer = me.user]
    BY DEF Decided, CInv, CorrTypeOK, Correction
  <2>2. correction'[c] \in Correction
    BY <1>2, <1>3, <2>1 DEF Correction
  <2> QED
    BY <1>4, <2>2 DEF Decided, CInv, CorrTypeOK
<1>6. inbox' \in [Item -> Feed!Status]
  BY FeedType DEF CInv, CorrTypeOK, Feed!InboxTypeOK, OutcomeItem, Item
<1> HIDE DEF me
<1>7. Requests'
  BY <1>2, <1>4 DEF CInv, Requests, Used, Decision
<1>8. ReviewerEntitled'
  BY <1>2, <1>4 DEF CInv, ReviewerEntitled, Decision
<1>9. FeedFollowsRequests'
  <2>1. ASSUME NEW d \in CorrId, Feed!IsOpen(RequestItem(d))' PROVE correction'[d].status = "pending"
    <3>1. d # c /\ Feed!IsOpen(RequestItem(d))
      BY <2>1 DEF Feed!IsOpen, Feed!Created, Feed!Actioned, RequestItem, OutcomeItem, Item
    <3> QED
      BY <1>4, <3>1 DEF CInv, FeedFollowsRequests
  <2>2. ASSUME NEW d \in CorrId, Feed!IsOpen(OutcomeItem(d))' PROVE correction'[d].status \in {"approved", "rejected"}
    <3>1. Feed!IsOpen(OutcomeItem(d)) \/ (d = c /\ me.pc = "decide_save")
      BY <2>2 DEF Feed!IsOpen, Feed!Created, Feed!Actioned, RequestItem, OutcomeItem, Item, me
    <3>2. Feed!IsOpen(OutcomeItem(d)) => d # c /\ correction[d].status \in {"approved", "rejected"}
      BY <1>2 DEF CInv, FeedFollowsRequests
    <3> QED
      BY <1>2, <1>4, <3>1, <3>2
  <2> QED
    BY <2>1, <2>2 DEF FeedFollowsRequests
<1>10. /\ \A d \in CorrId : correction'[d] = correction[d] \/ d \in Holds(creq[k])
       /\ \A d \in CorrId : Used(d) => Used(d)' /\ correction'[d].rec = correction[d].rec
  BY <1>1, <1>2, <1>4 DEF Used, Decision, me
<1> QED
  BY <1>5, <1>6, <1>7, <1>8, <1>9, <1>10, WriteStep DEF Finish

\* The row of a decision, a cancellation.
LEMMA OneRow ==
    ASSUME CInv, NEW k \in CReq, creq[k].pc \in {"decide_save", "cancel_save"}
    PROVE  \E c \in CorrId : creq[k].rows = {c}
BY DEF CInv, Handlers, MemoryOK

LEMMA DecideSavesStep ==
    ASSUME CInv, NEW k \in CReq, DecideSaves(k) PROVE CInv'
<1>1. PICK c \in creq[k].rows : /\ correction' = Decided(k, c)
                                /\ inbox' \in Feed!Notified(OutcomeItem(c), Feed!Actioned({RequestItem(c)}, inbox))
  BY DEF DecideSaves
<1>2. creq[k].pc = "decide_save" /\ Finish(k) /\ UNCHANGED <<role, token, reader>>
  BY DEF DecideSaves
<1>3. c \in CorrId /\ creq[k].rows = {c}
  BY <1>1, <1>2, OneRow
<1> QED
  BY <1>1, <1>2, <1>3, DecidedStep DEF Feed!Notified

LEMMA CancelSavesStep ==
    ASSUME CInv, NEW k \in CReq, CancelSaves(k) PROVE CInv'
<1>1. PICK c \in creq[k].rows : /\ correction' = Decided(k, c)
                                /\ inbox' = Feed!Actioned({RequestItem(c)}, inbox)
  BY DEF CancelSaves
<1>2. creq[k].pc = "cancel_save" /\ Finish(k) /\ UNCHANGED <<role, token, reader>>
  BY DEF CancelSaves
<1>3. c \in CorrId /\ creq[k].rows = {c}
  BY <1>1, <1>2, OneRow
<1> QED
  BY <1>1, <1>2, <1>3, DecidedStep
-----------------------------------------------------------------------------
(* The theorems. *)

LEMMA InitCInv == CorrInit => CInv
<1> SUFFICES ASSUME CorrInit PROVE CInv
  OBVIOUS
<1>1. \A c \in CorrId : correction[c] = NoCorrection
  BY DEF CorrInit
<1>2. NoCorrection.status = "unused"
  BY DEF NoCorrection
<1>3. \A k \in CReq : creq[k] = Free
  BY DEF CorrInit
<1>4. \A i \in Item : inbox[i] = "none"
  BY DEF CorrInit, Feed!InboxInit
<1>5. CorrTypeOK
  <2>1. NoCorrection \in Correction
    BY DEF NoCorrection, Correction
  <2>2. Feed!InboxTypeOK
    BY DEF CorrInit, Feed!InboxInit, Feed!InboxTypeOK, Feed!Status
  <2> QED
    BY <2>1, <2>2, FreeOK DEF CorrInit, CorrTypeOK
<1>6. Careers
  BY DEF CorrInit, Careers
<1>7. LocksExclude /\ Handlers
  BY <1>3, FreeOK DEF LocksExclude, Handlers
<1>8. Requests /\ ReviewerEntitled
  BY <1>1, <1>2 DEF Requests, Used, ReviewerEntitled
<1>9. FeedFollowsRequests
  BY <1>4 DEF FeedFollowsRequests, Feed!IsOpen, RequestItem, OutcomeItem, Item
<1> QED
  BY <1>5, <1>6, <1>7, <1>8, <1>9 DEF CInv

\* Steps that leave every request and handler alone.
LEMMA QuietStep ==
    ASSUME CInv, UNCHANGED <<correction, creq, inbox, reader>>,
           role' \in [User -> Role \cup {None}], token' \in [User -> Role], Careers'
    PROVE  CInv'
<1>1. CorrTypeOK'
  BY DEF CInv, CorrTypeOK, Feed!InboxTypeOK
<1>2. LocksExclude' /\ Handlers'
  BY DEF CInv, LocksExclude, Handlers, MemoryOK, Holds, Used, Pending
<1>3. Requests' /\ ReviewerEntitled' /\ FeedFollowsRequests'
  BY DEF CInv, Requests, Used, ReviewerEntitled, FeedFollowsRequests, Feed!IsOpen
<1> QED
  BY <1>1, <1>2, <1>3 DEF CInv

LEMMA ChangeRoleStep ==
    ASSUME CInv, NEW u \in User, ChangeRole(u) PROVE CInv'
<1>1. PICK new \in Career[u] : role' = [role EXCEPT ![u] = new]
  BY DEF ChangeRole
<1>2. new \in Role \cup {None}
  BY <1>1, CorrectionsAssumption DEF Role
<1>3. role' \in [User -> Role \cup {None}] /\ Careers'
  BY <1>1, <1>2 DEF CInv, CorrTypeOK, Careers
<1> QED
  BY <1>3, QuietStep DEF ChangeRole, CInv, CorrTypeOK

LEMMA LogInStep ==
    ASSUME CInv, NEW u \in User, LogIn(u) PROVE CInv'
<1>1. token' \in [User -> Role] /\ Careers'
  BY DEF LogIn, CInv, CorrTypeOK, Careers
<1> QED
  BY <1>1, QuietStep DEF LogIn, CInv, CorrTypeOK

LEMMA NextCInv ==
    ASSUME CInv, [CorrNext]_allVars PROVE CInv'
<1>1. CASE UNCHANGED corrVars
  BY <1>1, QuietStep DEF corrVars, CInv, CorrTypeOK, Careers
<1>2. ASSUME NEW k \in CReq, CorrHandle(k) PROVE CInv'
  BY <1>2, CreateFindsStep, CreateLocksStep, CreateSavesStep, DecideLocksStep, DecideChecksStep,
     DecideSavesStep, CancelLocksStep, CancelSavesStep DEF CorrHandle
<1>3. ASSUME NEW k \in CReq, CorrAbandon(k) PROVE CInv'
  BY <1>3, FinishStep DEF CorrAbandon
<1>4. ASSUME NEW k \in CReq, NEW u \in User, NEW r \in RecId, NEW claim \in Time, CreateReads(k, u, r, claim)
      PROVE  CInv'
  BY <1>4, CreateReadsStep
<1>5. ASSUME NEW k \in CReq, NEW u \in User, NEW c \in CorrId, NEW ends \in Decision, DecideArrives(k, u, c, ends)
      PROVE  CInv'
  BY <1>5, DecideArrivesStep
<1>6. ASSUME NEW u \in User, ChangeRole(u) \/ LogIn(u) PROVE CInv'
  BY <1>6, ChangeRoleStep, LogInStep
<1> QED
  BY <1>1, <1>2, <1>3, <1>4, <1>5, <1>6 DEF CorrNext, PunchStep, allVars, corrVars

\* The strengthened invariant holds of every behaviour.
THEOREM CorrInvariance == CorrSpec => []CInv
<1>1. CInv /\ [CorrNext]_allVars => CInv'
  BY NextCInv
<1> QED
  BY <1>1, InitCInv, PTL DEF CorrSpec

\* The tables, the handlers' memories and the feed keep their types.
THEOREM CorrTypeCorrect == CorrSpec => []CorrTypeOK
<1>1. CInv => CorrTypeOK
  BY DEF CInv
<1> QED
  BY <1>1, CorrInvariance, PTL

\* However submissions and decisions overlap, a shift has one pending request.
THEOREM OnePending == CorrSpec => []OnePendingPerShift
<1>1. CInv => OnePendingPerShift
  <2>1. SUFFICES ASSUME CInv, NEW r \in RecId PROVE Cardinality(Pending(r)) =< 1
    BY DEF OnePendingPerShift
  <2>2. CASE Pending(r) = {}
    BY <2>2, FS_EmptySet
  <2>3. CASE Pending(r) # {}
    <3>1. PICK c : Pending(r) = {c}
      BY <2>1, <2>3 DEF CInv, Requests, Pending
    <3>2. Cardinality({c}) = 1
      BY FS_Singleton
    <3> QED
      BY <3>1, <3>2
  <2> QED
    BY <2>2, <2>3
<1> QED
  BY <1>1, CorrInvariance, PTL

\* Requests are decided by somebody else than their author, and those of anyone
\* but staff by somebody who has been an admin.
THEOREM ReviewersAreEntitled == CorrSpec => []ReviewerEntitled
<1>1. CInv => ReviewerEntitled
  BY DEF CInv
<1> QED
  BY <1>1, CorrInvariance, PTL

\* No decided request is open in the feed, and only decisions are announced.
THEOREM FeedFollows == CorrSpec => []FeedFollowsRequests
<1>1. CInv => FeedFollowsRequests
  BY DEF CInv
<1> QED
  BY <1>1, CorrInvariance, PTL

\* A request that is decided, cancelled or replaced never changes again.
LEMMA DecidedStays ==
    ASSUME CInv, [CorrNext]_allVars, NEW c \in CorrId, correction[c].status \in Decision
    PROVE  correction'[c] = correction[c]
<1>1. CASE UNCHANGED correction
  BY <1>1
<1>2. ASSUME NEW k \in CReq, CreateSaves(k) PROVE correction'[c] = correction[c]
  <2>1. c \notin creq[k].rows
    BY <1>2 DEF CreateSaves, CInv, Handlers, MemoryOK, Pending, Decision
  <2>2. \A new \in CorrId : correction[new].status = "unused" => c # new
    BY DEF Decision
  <2> QED
    BY <1>2, <2>1, <2>2 DEF CreateSaves
<1>3. ASSUME NEW k \in CReq, NEW d \in creq[k].rows, creq[k].pc \in {"decide_save", "cancel_save"},
             correction' = Decided(k, d)
      PROVE  correction'[c] = correction[c]
  <2>1. d \in CorrId /\ correction[d].status = "pending"
    BY <1>3 DEF CInv, Handlers, MemoryOK, Holds
  <2> QED
    BY <1>3, <2>1 DEF Decided, CInv, CorrTypeOK, Decision
<1>4. ASSUME NEW k \in CReq, CorrHandle(k)
      PROVE  \/ UNCHANGED correction
             \/ CreateSaves(k)
             \/ \E d \in creq[k].rows : creq[k].pc \in {"decide_save", "cancel_save"} /\ correction' = Decided(k, d)
  BY <1>4 DEF CorrHandle, CreateFinds, CreateLocks, DecideLocks, DecideChecks, DecideSaves, CancelLocks, CancelSaves
<1>5. UNCHANGED correction \/ \E k \in CReq : CorrHandle(k)
  BY DEF CorrNext, PunchStep, corrVars, allVars, CorrAbandon, CreateReads, DecideArrives, ChangeRole, LogIn
<1> QED
  BY <1>1, <1>2, <1>3, <1>4, <1>5

\* Decisions are final.
THEOREM DecisionsStand == CorrSpec => DecisionsAreFinal
<1>1. CInv /\ [CorrNext]_allVars =>
        [\A c \in CorrId : correction[c].status \in Decision => correction'[c] = correction[c]]_allVars
  BY DecidedStays
<1> QED
  BY <1>1, CorrInvariance, PTL DEF CorrSpec, DecisionsAreFinal
=============================================================================
