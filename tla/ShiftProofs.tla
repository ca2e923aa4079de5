------------------------------ MODULE ShiftProofs ------------------------------
(***************************************************************************)
(* If every user waits for the answer to a punch before sending the next   *)
(* one, the punch clock and its corrections implement the ledger of        *)
(* shifts: the shifts of a user never overlap, and an approved claim is    *)
(* what its shift was paid by.  For any users, shifts, claims and hours,   *)
(* and any overlap of the requests of different users and of reviewers.    *)
(***************************************************************************)
EXTENDS ShiftRefinement, AttendanceProofs

OnePunchAtATime == RequestsPerUser = 1 /\ IsFiniteSet(Req)

\* Shift r no longer binds its owner at time t.
Over(r, t) == IF records[r].status = "completed"
              THEN records[r].out =< t
              ELSE t - records[r].in > STALE_SHIFT_HOURS

\* What a handler knows of the shifts of its user: those it has loaded are
\* running; a punch-in comes after all the others, and has loaded the forgotten
\* ones once it has looked.
PunchOK(s) ==
    /\ \A r \in DOMAIN s.seen :
          s.user \in User /\ records[r].user = s.user /\ records[r].status = "active"
    /\ s.pc \in {"in_read", "in_check", "in_save"} =>
          /\ s.user \in User
          /\ \A r \in RecId : records[r].user = s.user /\ Closed(r) => Over(r, s.now)
    /\ s.pc \in {"in_check", "in_save"} =>
          \A r \in RecId : records[r].user = s.user /\ records[r].status = "active"
                           => r \in DOMAIN s.seen /\ Over(r, s.now)

\* No user has two punches in flight.
PunchersApart ==
    \A p, q \in Req : request[p].user \in User /\ request[p].user = request[q].user => p = q

UnusedBlank == \A r \in RecId : records[r].status = "unused" => records[r] = NoRow

PastShiftsOver == \A r \in RecId : Closed(r) => Over(r, clock)

PInv == /\ IInv /\ UnusedBlank /\ PunchersApart /\ PastShiftsOver /\ ShiftsDisjoint
        /\ \A q \in Req : PunchOK(request[q])

-----------------------------------------------------------------------------
(* Punches, one at a time. *)

\* A user whose punch is accepted has no other in flight.
LEMMA Alone ==
    ASSUME OnePunchAtATime, NEW q \in Req, NEW u \in User, MayStart(q, u)
    PROVE  \A p \in Req : request[p].user # u
<1>1. IsFiniteSet(InFlight(u))
  BY FS_Subset DEF OnePunchAtATime, InFlight
<1>2. Cardinality(InFlight(u)) \in Nat /\ Cardinality(InFlight(u)) < 1
  BY <1>1, FS_CardinalityType DEF OnePunchAtATime, MayStart
<1>3. InFlight(u) = {}
  BY <1>1, <1>2, FS_EmptySet
<1> QED
  BY <1>3 DEF InFlight

\* A step that changes only what handler q remembers.
LEMMA RemembersStep ==
    ASSUME PInv, IInv', NEW q \in Req, NEW s \in Session, PunchOK(s),
           request' = [request EXCEPT ![q] = s],
           s.user \in User => \A p \in Req \ {q} : request[p].user # s.user,
           UNCHANGED <<clock, records>>
    PROVE  PInv'
<1>1. \A p \in Req : request'[p] = IF p = q THEN s ELSE request[p]
  BY DEF PInv, IInv, TypeOK
<1>2. PunchersApart'
  BY <1>1 DEF PInv, PunchersApart
<1>3. \A p \in Req : PunchOK(request[p])'
  BY <1>1 DEF PInv, PunchOK, Over, Closed
<1>4. UnusedBlank' /\ PastShiftsOver' /\ ShiftsDisjoint'
  BY DEF PInv, UnusedBlank, PastShiftsOver, ShiftsDisjoint, Over, Closed, Precedes
<1> QED
  BY <1>2, <1>3, <1>4 DEF PInv

\* A punch is answered without having written.
LEMMA AnsweredStep ==
    ASSUME PInv, IInv', NEW q \in Req, Answer(q), UNCHANGED <<clock, records>>
    PROVE  PInv'
<1>1. Idle.user \notin User /\ Idle.pc = "idle"
  BY NoneAssumption DEF Idle
<1>2. PunchOK(Idle)
  BY <1>1, IdleType DEF PunchOK
<1> QED
  BY <1>1, <1>2, IdleType, RemembersStep DEF Answer

\* A handler goes on, knowing no less.
LEMMA GoesOnStep ==
    ASSUME PInv, IInv', NEW q \in Req, NEW s \in Session, PunchOK(s), s.user = request[q].user,
           request' = [request EXCEPT ![q] = s], UNCHANGED <<clock, records>>
    PROVE  PInv'
<1>1. s.user \in User => \A p \in Req \ {q} : request[p].user # s.user
  BY DEF PInv, PunchersApart
<1> QED
  BY <1>1, RemembersStep

\* A commit of handler q, which writes rows of its user.
LEMMA PaysStep ==
    ASSUME PInv, IInv', NEW q \in Req, Answer(q), UNCHANGED clock, request[q].user \in User,
           \A r \in RecId : \/ records'[r] = records[r]
                            \/ /\ records'[r].user = request[q].user
                               /\ records[r].user = request[q].user \/ records[r].status = "unused",
           UnusedBlank', PastShiftsOver', ShiftsDisjoint'
    PROVE  PInv'
<1> DEFINE u == request[q].user
<1>1. \A p \in Req : request'[p] = IF p = q THEN Idle ELSE request[p]
  BY DEF PInv, IInv, TypeOK, Answer
<1>2. Idle.user \notin User /\ Idle.pc = "idle"
  BY NoneAssumption DEF Idle
<1>3. PunchersApart'
  BY <1>1, <1>2 DEF PInv, PunchersApart
<1>4. ASSUME NEW p \in Req PROVE PunchOK(request[p])'
  <2>1. CASE p = q
    BY <1>1, <1>2, <2>1, IdleType DEF PunchOK
  <2>2. CASE p # q /\ request[p].user \in User
    <3>1. request'[p] = request[p] /\ request[p].user # u
      BY <1>1, <2>2 DEF PInv, PunchersApart
    <3>2. DOMAIN request[p].seen \subseteq RecId
      BY SeenType DEF PInv, IInv, TypeOK, Session
    <3>3. PunchOK(request[p])
      BY DEF PInv
    <3>4. \A r \in RecId :
             (records[r].user = request[p].user /\ records[r].status # "unused")
             \/ records'[r].user = request[p].user
             => records'[r] = records[r]
      BY <3>1
    <3> QED
      BY <3>1, <3>2, <3>3, <3>4 DEF PunchOK, Over, Closed
  <2>3. CASE p # q /\ request[p].user \notin User
    BY <1>1, <2>3 DEF PInv, PunchOK
  <2> QED
    BY <2>1, <2>2, <2>3
<1> QED
  BY <1>3, <1>4 DEF PInv
LEMMA PunchInArrivesStep ==
    ASSUME OnePunchAtATime, PInv, IInv', NEW q \in Req, NEW u \in User, PunchInArrives(q, u) PROVE PInv'
<1> DEFINE s == [Idle EXCEPT !.pc = "in_read", !.user = u, !.now = clock]
<1>1. s \in Session
  BY IdleType DEF PInv, IInv, TypeOK, Session
<1>2. s.pc = "in_read" /\ s.user = u /\ s.now = clock /\ DOMAIN s.seen = {}
  BY IdleType DEF Idle
<1>3. request' = [request EXCEPT ![q] = s] /\ UNCHANGED <<clock, records>>
  BY DEF PunchInArrives
<1>4. \A p \in Req : request[p].user # u
  BY Alone DEF PunchInArrives
<1> HIDE DEF s
<1>5. PunchOK(s)
  BY <1>2 DEF PunchOK, PInv, PastShiftsOver
<1> QED
  BY <1>1, <1>2, <1>3, <1>4, <1>5, RemembersStep

LEMMA PunchInReadsStep ==
    ASSUME PInv, IInv', NEW q \in Req, PunchInReads(q) PROVE PInv'
<1> DEFINE u == request[q].user
           s == [request[q] EXCEPT !.pc = "in_check", !.seen = Load(OpenRecords(u))]
<1>1. request[q] \in Session /\ PunchOK(request[q]) /\ request[q].pc = "in_read" /\ UNCHANGED <<clock, records>>
  BY DEF PInv, IInv, TypeOK, PunchInReads
<1>2. CASE Answer(q)
  BY <1>1, <1>2, AnsweredStep
<1>3. CASE /\ request' = [request EXCEPT ![q].pc = "in_check", ![q].seen = Load(OpenRecords(u))]
           /\ \A r \in OpenRecords(u) : IsStale(records[r], request[q].now)
  <2>1. Load(OpenRecords(u)) \in Loaded /\ DOMAIN Load(OpenRecords(u)) = OpenRecords(u)
    BY OpenRecordsInUse, LoadType DEF PInv, IInv
  <2>2. s \in Session
    BY <1>1, <2>1 DEF Session
  <2>3. s.pc = "in_check" /\ s.user = u /\ s.now = request[q].now /\ s.seen = Load(OpenRecords(u))
    BY <1>1 DEF Session
  <2>4. request' = [request EXCEPT ![q] = s]
    BY <1>3 DEF PInv, IInv, TypeOK, Session
  <2> HIDE DEF s
  <2>5. \A r \in RecId : records[r].user = u /\ records[r].status = "active" => r \in OpenRecords(u)
    BY DEF OpenRecords, PInv, IInv, HoursMatchPunches
  <2>6. \A r \in OpenRecords(u) : records[r].user = u /\ records[r].status = "active" /\ Over(r, s.now)
    BY <1>3, <2>3 DEF OpenRecords, Over, IsStale
  <2>7. PunchOK(s)
    BY <1>1, <2>1, <2>3, <2>5, <2>6 DEF PunchOK
  <2> QED
    BY <1>1, <2>2, <2>3, <2>4, <2>7, GoesOnStep
<1> QED
  BY <1>2, <1>3 DEF PunchInReads

LEMMA PunchInChecksStep ==
    ASSUME PInv, IInv', NEW q \in Req, PunchInChecks(q) PROVE PInv'
<1> DEFINE s == [request[q] EXCEPT !.pc = "in_save"]
<1>1. request[q] \in Session /\ PunchOK(request[q]) /\ request[q].pc = "in_check" /\ UNCHANGED <<clock, records>>
  BY DEF PInv, IInv, TypeOK, PunchInChecks
<1>2. CASE Answer(q)
  BY <1>1, <1>2, AnsweredStep
<1>3. CASE Goto(q, "in_save")
  <2>1. s \in Session /\ request' = [request EXCEPT ![q] = s]
    BY <1>1, <1>3 DEF Session, Goto
  <2>2. s.pc = "in_save" /\ s.user = request[q].user /\ s.now = request[q].now /\ s.seen = request[q].seen
    BY <1>1 DEF Session
  <2> HIDE DEF s
  <2>3. PunchOK(s)
    BY <1>1, <2>2 DEF PunchOK
  <2> QED
    BY <1>1, <2>1, <2>2, <2>3, GoesOnStep
<1> QED
  BY <1>2, <1>3 DEF PunchInChecks

LEMMA PunchOutReadsStep ==
    ASSUME OnePunchAtATime, PInv, IInv', NEW q \in Req, NEW u \in User, PunchOutReads(q, u) PROVE PInv'
<1> DEFINE s == [Idle EXCEPT !.pc = "out_check", !.user = u, !.seen = Load(OpenRecords(u))]
<1>1. Load(OpenRecords(u)) \in Loaded /\ DOMAIN Load(OpenRecords(u)) = OpenRecords(u)
  BY OpenRecordsInUse, LoadType DEF PInv, IInv
<1>2. s \in Session
  BY <1>1, IdleType DEF Session
<1>3. s.pc = "out_check" /\ s.user = u /\ s.seen = Load(OpenRecords(u))
  BY DEF Idle
<1>4. request' = [request EXCEPT ![q] = s] /\ UNCHANGED <<clock, records>>
  BY DEF PunchOutReads
<1>5. \A p \in Req : request[p].user # u
  BY Alone DEF PunchOutReads
<1> HIDE DEF s
<1>6. PunchOK(s)
  BY <1>1, <1>3 DEF PunchOK, OpenRecords
<1> QED
  BY <1>2, <1>3, <1>4, <1>5, <1>6, RemembersStep

LEMMA PunchOutChecksStep ==
    ASSUME PInv, IInv', NEW q \in Req, PunchOutChecks(q) PROVE PInv'
<1> DEFINE s == [request[q] EXCEPT !.pc = "out_save", !.now = clock]
<1>1. request[q] \in Session /\ PunchOK(request[q]) /\ request[q].pc = "out_check" /\ UNCHANGED <<clock, records>>
  BY DEF PInv, IInv, TypeOK, PunchOutChecks
<1>2. CASE Answer(q)
  BY <1>1, <1>2, AnsweredStep
<1>3. CASE request' = [request EXCEPT ![q].pc = "out_save", ![q].now = clock]
  <2>1. s \in Session
    BY <1>1 DEF Session, PInv, IInv, TypeOK
  <2>2. request' = [request EXCEPT ![q] = s]
    BY <1>1, <1>3 DEF Session, PInv, IInv, TypeOK
  <2>3. s.pc = "out_save" /\ s.user = request[q].user /\ s.seen = request[q].seen
    BY <1>1 DEF Session
  <2> HIDE DEF s
  <2>4. PunchOK(s)
    BY <1>1, <2>3 DEF PunchOK
  <2> QED
    BY <1>1, <2>1, <2>2, <2>3, <2>4, GoesOnStep
<1> QED
  BY <1>2, <1>3 DEF PunchOutChecks

LEMMA StatusReadsStep ==
    ASSUME OnePunchAtATime, PInv, IInv', NEW q \in Req, NEW u \in User, NEW text \in Text, StatusReads(q, u, text)
    PROVE  PInv'
<1>1. PICK newest \in OpenRecords(u) :
         request' = [request EXCEPT ![q] = [Idle EXCEPT !.pc = "status_save", !.user = u, !.cur = text,
                                                        !.seen = Load({newest})]]
  BY DEF StatusReads
<1> DEFINE s == [Idle EXCEPT !.pc = "status_save", !.user = u, !.cur = text, !.seen = Load({newest})]
<1>2. Load({newest}) \in Loaded /\ DOMAIN Load({newest}) = {newest}
  BY OpenRecordsInUse, LoadType DEF PInv, IInv
<1>3. s \in Session
  BY <1>2, IdleType DEF Session
<1>4. s.pc = "status_save" /\ s.user = u /\ s.seen = Load({newest})
  BY DEF Idle
<1>5. request' = [request EXCEPT ![q] = s] /\ UNCHANGED <<clock, records>>
  BY <1>1 DEF StatusReads
<1>6. \A p \in Req : request[p].user # u
  BY Alone DEF StatusReads
<1> HIDE DEF s
<1>7. PunchOK(s)
  BY <1>2, <1>4 DEF PunchOK, OpenRecords
<1> QED
  BY <1>3, <1>4, <1>5, <1>6, <1>7, RemembersStep
-----------------------------------------------------------------------------
(* The three commits of the punch clock. *)

\* The numbers in a row.
LEMMA RowNumbers ==
    ASSUME PInv, NEW r \in RecId
    PROVE  /\ records[r] \in Record /\ records[r].in \in Int /\ clock \in Int /\ STALE_SHIFT_HOURS \in Nat
           /\ records[r].status = "completed" => records[r].out \in Int
           /\ records[r].status \in {"unused", "active"} => records[r].out = None
BY ConstantsAssumption DEF PInv, IInv, TypeOK, Record, Time, HoursMatchPunches

\* Nobody has two shifts running.
LEMMA OneRunning ==
    ASSUME PInv, NEW r \in RecId, NEW s \in RecId, records[r].user = records[s].user,
           records[r].status = "active", records[s].status = "active"
    PROVE  r = s
BY DEF PInv, ShiftsDisjoint, Precedes

\* A punch-in begins a shift and ends the forgotten one of its user, if any.
Begun(q, new) ==
    LET u == request[q].user
        now == request[q].now
    IN  /\ u \in User /\ now \in Int /\ 0 =< now /\ now =< clock
        /\ records[new].status = "unused"
        /\ records'[new].status = "active" /\ records'[new].user = u
        /\ records'[new].in = now /\ records'[new].out = None
        /\ \A r \in RecId \ {new} :
              IF records[r].user = u /\ records[r].status = "active"
              THEN /\ records'[r].status = "auto_closed" /\ records'[r].user = u
                   /\ records'[r].in = records[r].in /\ records'[r].out = records[r].out
              ELSE records'[r] = records[r]
        /\ \A r \in RecId : records[r].user = u /\ records[r].status # "unused" => Over(r, now)

LEMMA PunchInBegins ==
    ASSUME PInv, NEW q \in Req, PunchInSaves(q)
    PROVE  \E new \in RecId : Begun(q, new)
<1> DEFINE u == request[q].user
           now == request[q].now
           seen == request[q].seen
           row == [NoRow EXCEPT !.status = "active", !.user = u, !.in = now]
<1>1. request[q] \in Session /\ PunchOK(request[q]) /\ request[q].pc = "in_save" /\ now =< clock
  BY DEF PInv, IInv, TypeOK, SessionsInOrder, PunchInSaves
<1>2. PICK new \in RecId :
         /\ records[new].status = "unused"
         /\ records' = [r \in RecId |->
                          IF r = new THEN row
                          ELSE IF r \in DOMAIN seen THEN AutoClose(records[r], seen[r])
                          ELSE records[r]]
  BY DEF PunchInSaves
<1>3. u \in User /\ now \in Int /\ 0 =< now
  BY <1>1, ConstantsAssumption DEF PunchOK, Session, Time
<1>4. row.status = "active" /\ row.user = u /\ row.in = now /\ row.out = None
  BY DEF NoRow
<1>5. records'[new] = row
  BY <1>2
<1>6. \A r \in RecId : r \in DOMAIN seen <=> records[r].user = u /\ records[r].status = "active"
  BY <1>1 DEF PunchOK
<1>7. \A r \in RecId : records[r].user = u /\ records[r].status # "unused" => Over(r, now)
  <2>1. \A r \in RecId : records[r].status \in {"unused", "active", "completed", "auto_closed"}
    BY DEF PInv, IInv, TypeOK, Record
  <2> QED
    BY <1>1, <2>1 DEF PunchOK, Closed
<1>8. ASSUME NEW r \in RecId \ {new}
      PROVE  IF records[r].user = u /\ records[r].status = "active"
             THEN /\ records'[r].status = "auto_closed" /\ records'[r].user = u
                  /\ records'[r].in = records[r].in /\ records'[r].out = records[r].out
             ELSE records'[r] = records[r]
  <2>1. records[r] \in Record
    BY RowNumbers
  <2>2. records'[r] = IF r \in DOMAIN seen THEN AutoClose(records[r], seen[r]) ELSE records[r]
    BY <1>2
  <2> QED
    BY <1>6, <2>1, <2>2, AutoCloseEffect
<1> QED
  BY <1>1, <1>2, <1>3, <1>4, <1>5, <1>7, <1>8 DEF Begun

LEMMA PunchInSavesStep ==
    ASSUME PInv, IInv', NEW q \in Req, PunchInSaves(q) PROVE PInv'
<1>1. PICK new \in RecId : Begun(q, new)
  BY PunchInBegins
<1> DEFINE u == request[q].user
           now == request[q].now
           mine(r) == records[r].user = u /\ records[r].status = "active"
<1>2. /\ u \in User /\ now \in Int /\ now =< clock
      /\ records[new].status = "unused" /\ records'[new].status = "active"
      /\ records'[new].user = u /\ records'[new].in = now
      /\ \A r \in RecId \ {new} : mine(r) => /\ records'[r].status = "auto_closed" /\ records'[r].user = u
                                             /\ records'[r].in = records[r].in /\ records'[r].out = records[r].out
      /\ \A r \in RecId \ {new} : ~mine(r) => records'[r] = records[r]
      /\ \A r \in RecId : records[r].user = u /\ records[r].status # "unused" => Over(r, now)
  BY <1>1 DEF Begun
<1>3. Answer(q) /\ clock' = clock
  BY DEF PunchInSaves
<1>4. UnusedBlank'
  BY <1>2 DEF PInv, UnusedBlank
<1>5. PastShiftsOver'
  <2>1. SUFFICES ASSUME NEW r \in RecId, Closed(r)' PROVE Over(r, clock)'
    BY DEF PastShiftsOver
  <2>2. r # new
    BY <1>2, <2>1 DEF Closed
  <2>3. CASE mine(r)
    BY <1>2, <1>3, <2>2, <2>3, RowNumbers DEF Over
  <2>4. CASE ~mine(r)
    BY <1>2, <1>3, <2>1, <2>2, <2>4 DEF PInv, PastShiftsOver, Over, Closed
  <2> QED
    BY <2>3, <2>4
<1>6. ShiftsDisjoint'
  <2>1. SUFFICES ASSUME NEW r \in RecId, NEW s \in RecId, r # s,
                        records'[r].status # "unused", records'[s].status # "unused",
                        records'[r].user = records'[s].user
                 PROVE  Precedes(r, s)' \/ Precedes(s, r)'
    BY DEF ShiftsDisjoint
  <2>2. ASSUME NEW x \in RecId \ {new}, records'[x].user = u, records'[x].status # "unused" PROVE Precedes(x, new)'
    <3>1. Over(x, now)
      BY <1>2, <2>2
    <3>2. CASE mine(x)
      BY <1>2, <3>1, <3>2, RowNumbers DEF Precedes, Over
    <3>3. CASE ~mine(x)
      <4>1. records'[x] = records[x] /\ records[x].status \in {"completed", "auto_closed"}
        BY <1>2, <2>2, <3>3, RowNumbers DEF Record
      <4> QED
        BY <1>2, <3>1, <4>1, RowNumbers DEF Precedes, Over
    <3> QED
      BY <3>2, <3>3
  <2>3. CASE r = new \/ s = new
    BY <1>2, <2>1, <2>2, <2>3
  <2>4. CASE r # new /\ s # new
    <3>1. records[r].status # "unused" /\ records[s].status # "unused" /\ records[r].user = records[s].user
      BY <1>2, <2>1, <2>4
    <3>2. Precedes(r, s) \/ Precedes(s, r)
      BY <2>1, <3>1 DEF PInv, ShiftsDisjoint
    <3>3. ASSUME NEW x \in RecId \ {new}, NEW y \in RecId \ {new}, Precedes(x, y) PROVE Precedes(x, y)'
      BY <1>2, <3>3 DEF Precedes
    <3> QED
      BY <2>4, <3>2, <3>3
  <2> QED
    BY <2>3, <2>4
<1>7. \A r \in RecId : \/ records'[r] = records[r]
                       \/ /\ records'[r].user = u
                          /\ records[r].user = u \/ records[r].status = "unused"
  BY <1>2
<1> QED
  BY <1>2, <1>3, <1>4, <1>5, <1>6, <1>7, PaysStep

\* A punch-out ends the running shift of its user, or leaves it unresolved.
Ended(q, r) ==
    LET now == request[q].now
    IN  /\ request[q].user \in User /\ now \in Int /\ now =< clock /\ 0 =< now
        /\ records[r].status = "active" /\ records[r].user = request[q].user /\ records[r].in =< now
        /\ \A s \in RecId \ {r} : records'[s] = records[s]
        /\ records'[r].user = records[r].user /\ records'[r].in = records[r].in
        /\ IF now - records[r].in > STALE_SHIFT_HOURS
           THEN records'[r].status = "auto_closed" /\ records'[r].out = records[r].out
           ELSE records'[r].status = "completed" /\ records'[r].out = now

LEMMA PunchOutEnds ==
    ASSUME PInv, NEW q \in Req, PunchOutSaves(q)
    PROVE  \E r \in RecId : Ended(q, r)
<1> DEFINE u == request[q].user
           now == request[q].now
           seen == request[q].seen
<1>1. request[q] \in Session /\ PunchOK(request[q]) /\ request[q].pc = "out_save" /\ now =< clock
  BY DEF PInv, IInv, TypeOK, SessionsInOrder, PunchOutSaves
<1>2. PICK r \in DOMAIN seen :
         records' = [s \in RecId |->
                       IF s \notin DOMAIN seen THEN records[s]
                       ELSE IF s = r /\ ~IsStale(records[s], now)
                            THEN Complete(records[s], now)
                            ELSE AutoClose(records[s], seen[s])]
  BY DEF PunchOutSaves
<1>3. DOMAIN seen \subseteq RecId
  BY <1>1, SeenType DEF Session
<1>4. \A s \in DOMAIN seen : u \in User /\ records[s].user = u /\ records[s].status = "active" /\ records[s].in =< now
  BY <1>1 DEF PunchOK, PInv, IInv, SessionsInOrder
<1>5. \A s \in DOMAIN seen : s = r
  BY <1>3, <1>4, OneRunning
<1>6. \A s \in RecId \ {r} : records'[s] = records[s]
  BY <1>2, <1>5
<1>7. now \in Int /\ 0 =< now /\ records[r] \in Record
  BY <1>1, <1>3, RowNumbers, ConstantsAssumption DEF Session, Time
<1>8. records'[r] = IF ~IsStale(records[r], now) THEN Complete(records[r], now) ELSE AutoClose(records[r], seen[r])
  BY <1>2, <1>3
<1>9. CASE IsStale(records[r], now)
  <2>1. /\ records'[r].status = "auto_closed" /\ records'[r].out = records[r].out
        /\ records'[r].user = records[r].user /\ records'[r].in = records[r].in
    BY <1>7, <1>8, <1>9, AutoCloseEffect
  <2> QED
    BY <1>1, <1>3, <1>4, <1>6, <1>7, <1>9, <2>1 DEF Ended, IsStale
<1>10. CASE ~IsStale(records[r], now)
  <2>1. /\ records'[r].status = "completed" /\ records'[r].out = now
        /\ records'[r].user = records[r].user /\ records'[r].in = records[r].in
    BY <1>7, <1>8, <1>10, CompleteEffect
  <2> QED
    BY <1>1, <1>3, <1>4, <1>6, <1>7, <1>10, <2>1 DEF Ended, IsStale
<1> QED
  BY <1>9, <1>10

LEMMA PunchOutSavesStep ==
    ASSUME PInv, IInv', NEW q \in Req, PunchOutSaves(q) PROVE PInv'
<1>1. PICK r \in RecId : Ended(q, r)
  BY PunchOutEnds
<1>2. Answer(q) /\ clock' = clock
  BY DEF PunchOutSaves
<1>3. UnusedBlank'
  BY <1>1 DEF Ended, PInv, UnusedBlank
<1>4. PastShiftsOver'
  <2>1. SUFFICES ASSUME NEW s \in RecId, Closed(s)' PROVE Over(s, clock)'
    BY DEF PastShiftsOver
  <2>2. CASE s = r
    BY <1>1, <1>2, <2>2, RowNumbers DEF Ended, Over
  <2>3. CASE s # r
    BY <1>1, <1>2, <2>1, <2>3 DEF Ended, PInv, PastShiftsOver, Over, Closed
  <2> QED
    BY <2>2, <2>3
<1>5. ShiftsDisjoint'
  <2>1. SUFFICES ASSUME NEW s \in RecId, NEW x \in RecId, s # x,
                        records'[s].status # "unused", records'[x].status # "unused",
                        records'[s].user = records'[x].user
                 PROVE  Precedes(s, x)' \/ Precedes(x, s)'
    BY DEF ShiftsDisjoint
  <2>2. records[s].status # "unused" /\ records[x].status # "unused" /\ records[s].user = records[x].user
    BY <1>1, <2>1 DEF Ended
  <2>3. Precedes(s, x) \/ Precedes(x, s)
    BY <2>1, <2>2 DEF PInv, ShiftsDisjoint
  <2>4. ASSUME NEW a \in RecId, NEW b \in RecId, Precedes(a, b) PROVE Precedes(a, b)'
    <3>1. a # r /\ records'[a] = records[a] /\ records'[b].in = records[b].in
      BY <1>1, <2>4 DEF Ended, Precedes
    <3> QED
      BY <2>4, <3>1 DEF Precedes
  <2> QED
    BY <2>3, <2>4
<1> QED
  BY <1>1, <1>2, <1>3, <1>4, <1>5, PaysStep DEF Ended

\* A status text is no part of a shift.
LEMMA StatusKeepsShifts ==
    ASSUME PInv, NEW q \in Req, StatusSaves(q)
    PROVE  \A r \in RecId : /\ records'[r].status = records[r].status /\ records'[r].user = records[r].user
                            /\ records'[r].in = records[r].in /\ records'[r].out = records[r].out
                            /\ r \notin DOMAIN request[q].seen => records'[r] = records[r]
<1>1. SUFFICES ASSUME NEW r \in RecId
               PROVE  /\ records'[r].status = records[r].status /\ records'[r].user = records[r].user
                      /\ records'[r].in = records[r].in /\ records'[r].out = records[r].out
                      /\ r \notin DOMAIN request[q].seen => records'[r] = records[r]
  OBVIOUS
<1>2. records'[r] = IF r \in DOMAIN request[q].seen /\ request[q].seen[r] # request[q].cur
                    THEN [records[r] EXCEPT !.cur = request[q].cur] ELSE records[r]
  BY DEF StatusSaves
<1> QED
  BY <1>2, RowNumbers DEF Record

LEMMA StatusSavesStep ==
    ASSUME PInv, IInv', NEW q \in Req, StatusSaves(q) PROVE PInv'
<1>1. Answer(q) /\ clock' = clock
  BY DEF StatusSaves
<1>2. CASE DOMAIN request[q].seen = {}
  <2>1. \A r \in RecId : records'[r] = records[r]
    BY <1>2, StatusKeepsShifts
  <2>2. records' = records
    BY <2>1 DEF StatusSaves, PInv, IInv, TypeOK
  <2> QED
    BY <1>1, <2>2, AnsweredStep
<1>3. CASE DOMAIN request[q].seen # {}
  <2>1. \A r \in DOMAIN request[q].seen : /\ request[q].user \in User /\ records[r].user = request[q].user
                                          /\ records[r].status = "active"
    BY DEF PInv, PunchOK
  <2>2. UnusedBlank'
    BY <2>1, StatusKeepsShifts DEF PInv, UnusedBlank
  <2>3. PastShiftsOver' /\ ShiftsDisjoint'
    BY <1>1, StatusKeepsShifts DEF PInv, PastShiftsOver, ShiftsDisjoint, Over, Closed, Precedes
  <2>4. request[q].user \in User
    BY <1>3, <2>1
  <2> QED
    BY <1>1, <2>1, <2>2, <2>3, <2>4, StatusKeepsShifts, PaysStep
<1> QED
  BY <1>2, <1>3
LEMMA PunchKeeps ==
    ASSUME OnePunchAtATime, PInv, PunchStep PROVE PInv'
<1>1. IInv'
  BY NextIInv DEF PInv, PunchStep, Next
<1>2. CASE Tick
  <2>1. clock \in Int /\ clock' = clock + 1
    BY <1>2, ConstantsAssumption DEF Tick, PInv, IInv, TypeOK, Time
  <2>2. \A r \in RecId : Closed(r) => Over(r, clock')
    BY <2>1, RowNumbers DEF PInv, PastShiftsOver, Over, Closed
  <2> QED
    BY <1>1, <1>2, <2>2 DEF Tick, PInv, UnusedBlank, PunchersApart, PastShiftsOver, ShiftsDisjoint, PunchOK,
       Over, Closed, Precedes
<1>3. ASSUME NEW q \in Req, Handle(q) PROVE PInv'
  BY <1>1, <1>3, PunchInArrivesStep, PunchInReadsStep, PunchInChecksStep, PunchInSavesStep, PunchOutReadsStep,
     PunchOutChecksStep, PunchOutSavesStep, StatusReadsStep, StatusSavesStep, AnsweredStep DEF Handle, Abandon
<1> QED
  BY <1>2, <1>3 DEF PunchStep

-----------------------------------------------------------------------------
(* Corrections of the shifts. *)

\* The claim is a time at which the shift may have ended.
Fits(r, claim) ==
    /\ r \in RecId /\ Closed(r) /\ claim \in Int
    /\ claim > records[r].in /\ claim - records[r].in =< STALE_SHIFT_HOURS

\* The shift an approval is about to complete.
HeldRecs(h) == IF h.pc = "decide_save" /\ h.ends = "approved" THEN {h.rec} ELSE {}

\* A submission claims what fits; an approval holds a shift still unresolved.
HandlerFits(h) ==
    /\ h.pc \in {"create_role", "create_lock", "create_save"} => Fits(h.rec, h.claim)
    /\ \A r \in HeldRecs(h) : records[r].status = "auto_closed"

ClaimsFit ==
    /\ \A c \in CorrId : Used(c) => Fits(correction[c].rec, correction[c].claim)
    /\ \A k \in CReq : HandlerFits(creq[k])
    /\ \A j, k \in CReq : j # k => HeldRecs(creq[j]) \cap HeldRecs(creq[k]) = {}

SInv == CInv /\ PInv /\ ClaimsFit /\ ApprovedClaimIsPaid

\* A step of the punch clock leaves closed shifts as they are.
LEMMA ClosedShiftsStay ==
    ASSUME PInv, PunchStep, NEW r \in RecId, Closed(r)
    PROVE  /\ records'[r].status = records[r].status /\ records'[r].in = records[r].in
           /\ records'[r].out = records[r].out
<1>1. CASE UNCHANGED records
  BY <1>1
<1>2. ASSUME NEW q \in Req, PunchInSaves(q) PROVE records'[r] = records[r]
  BY <1>2, PunchInBegins DEF Begun, Closed
<1>3. ASSUME NEW q \in Req, PunchOutSaves(q) PROVE records'[r] = records[r]
  BY <1>3, PunchOutEnds DEF Ended, Closed
<1>4. ASSUME NEW q \in Req, Handle(q)
      PROVE  PunchInSaves(q) \/ PunchOutSaves(q) \/ StatusSaves(q) \/ UNCHANGED records
  BY <1>4 DEF Handle, PunchInArrives, PunchInReads, PunchInChecks, PunchOutReads, PunchOutChecks, StatusReads, Abandon
<1>5. PunchStep => UNCHANGED records \/ \E q \in Req : Handle(q)
  BY DEF PunchStep, Tick
<1> QED
  BY <1>1, <1>2, <1>3, <1>4, <1>5, StatusKeepsShifts

LEMMA PunchStepSafe ==
    ASSUME OnePunchAtATime, SInv, PunchStep PROVE SInv'
<1>1. CInv' /\ PInv'
  BY NextCInv, PunchKeeps DEF SInv, CorrNext
<1>2. UNCHANGED <<correction, creq>>
  BY DEF PunchStep, corrVars
<1>3. \A r \in RecId : Closed(r) => /\ records'[r].status = records[r].status
                                    /\ records'[r].in = records[r].in /\ records'[r].out = records[r].out
  BY ClosedShiftsStay DEF SInv
<1>4. \A r, claim : Fits(r, claim) => Fits(r, claim)'
  BY <1>3 DEF Fits, Closed
<1>5. \A r \in RecId : records[r].status = "auto_closed" => records'[r].status = "auto_closed"
  BY <1>3 DEF Closed
<1>6. \A k \in CReq : HeldRecs(creq[k]) \subseteq RecId
  BY DEF HeldRecs, SInv, CInv, Handlers, MemoryOK, Requests
<1>7. ClaimsFit'
  BY <1>2, <1>4, <1>5, <1>6 DEF SInv, ClaimsFit, HandlerFits, HeldRecs, Used
<1>8. ApprovedClaimIsPaid'
  BY <1>2, <1>3 DEF SInv, ApprovedClaimIsPaid, CInv, Requests, Used, Closed
<1> QED
  BY <1>1, <1>7, <1>8 DEF SInv

\* A step of the corrections that leaves the punch clock alone.
LEMMA PunchesRest ==
    ASSUME PInv, UNCHANGED vars PROVE PInv'
BY DEF vars, PInv, IInv, TypeOK, SessionsInOrder, PunchInsInPast, HoursMatchPunches, UnusedBlank, PunchersApart,
   PastShiftsOver, ShiftsDisjoint, PunchOK, Over, Closed, Precedes

LEMMA ClaimStep ==
    ASSUME SInv, CInv', UNCHANGED vars, NEW k \in CReq, NEW h, HandlerFits(h),
           creq' = [creq EXCEPT ![k] = h],
           \A j \in CReq \ {k} : HeldRecs(creq[j]) \cap HeldRecs(h) = {},
           \A c \in CorrId : Used(c)' => Fits(correction'[c].rec, correction'[c].claim),
           \A c \in CorrId : correction'[c].status = "approved" => correction'[c] = correction[c]
    PROVE  SInv'
<1>1. PInv'
  BY PunchesRest DEF SInv
<1>2. \A j \in CReq : creq'[j] = IF j = k THEN h ELSE creq[j]
  BY DEF SInv, CInv, CorrTypeOK
<1>3. \A j \in CReq : HandlerFits(creq'[j])
  BY <1>2 DEF SInv, ClaimsFit
<1>4. \A i, j \in CReq : i # j => HeldRecs(creq'[i]) \cap HeldRecs(creq'[j]) = {}
  BY <1>2 DEF SInv, ClaimsFit
<1>5. ClaimsFit'
  BY <1>3, <1>4 DEF ClaimsFit, HandlerFits, HeldRecs, Fits, Closed, Used, vars
<1>6. ApprovedClaimIsPaid'
  BY DEF SInv, ApprovedClaimIsPaid, vars
<1> QED
  BY <1>1, <1>5, <1>6 DEF SInv

\* The requests, when no handler writes them.
LEMMA RememberedClaims ==
    ASSUME SInv, UNCHANGED correction
    PROVE  /\ \A c \in CorrId : Used(c)' => Fits(correction'[c].rec, correction'[c].claim)
           /\ \A c \in CorrId : correction'[c].status = "approved" => correction'[c] = correction[c]
BY DEF SInv, ClaimsFit, Used

LEMMA FreeFits == HandlerFits(Free) /\ HeldRecs(Free) = {}
BY DEF HandlerFits, HeldRecs, Free

\* Steps that only change what handler k remembers, of claims and approvals.
LEMMA RemembersClaimStep ==
    ASSUME SInv, CInv', UNCHANGED <<vars, correction>>, NEW k \in CReq, NEW h, HandlerFits(h),
           creq' = [creq EXCEPT ![k] = h],
           \A j \in CReq \ {k} : HeldRecs(creq[j]) \cap HeldRecs(h) = {}
    PROVE  SInv'
BY RememberedClaims, ClaimStep

LEMMA GivesUpStep ==
    ASSUME SInv, CInv', UNCHANGED <<vars, correction>>, NEW k \in CReq, Finish(k)
    PROVE  SInv'
BY FreeFits, RemembersClaimStep DEF Finish
LEMMA CreateReadsSafe ==
    ASSUME SInv, CInv', NEW k \in CReq, NEW u \in User, NEW r \in RecId, NEW claim \in Time, CreateReads(k, u, r, claim)
    PROVE  SInv'
<1> DEFINE h == [Free EXCEPT !.pc = "create_role", !.user = u, !.rec = r, !.claim = claim]
<1>1. h.pc = "create_role" /\ h.rec = r /\ h.claim = claim /\ claim \in Int
  BY DEF Free, Time
<1>2. creq' = [creq EXCEPT ![k] = h] /\ UNCHANGED <<vars, correction>>
  BY DEF CreateReads
<1>3. Fits(r, claim)
  BY <1>1 DEF Fits, CreateReads, ClaimIsValid, Closed
<1> HIDE DEF h
<1>4. HandlerFits(h) /\ HeldRecs(h) = {}
  BY <1>1, <1>3 DEF HandlerFits, HeldRecs
<1> QED
  BY <1>2, <1>4, RemembersClaimStep

LEMMA CreateGoesOnSafe ==
    ASSUME SInv, CInv', NEW k \in CReq, CreateFinds(k) \/ CreateLocks(k) PROVE SInv'
<1> DEFINE h == creq'[k]
<1>1. creq[k] \in Handler /\ HandlerFits(creq[k]) /\ creq[k].pc \in {"create_role", "create_lock"}
  BY DEF SInv, CInv, CorrTypeOK, ClaimsFit, CreateFinds, CreateLocks
<1>2. h.pc \in {"create_lock", "create_save"} /\ h.rec = creq[k].rec /\ h.claim = creq[k].claim
  BY <1>1 DEF CreateFinds, CreateLocks, SInv, CInv, CorrTypeOK, Handler
<1>3. creq' = [creq EXCEPT ![k] = h] /\ UNCHANGED <<vars, correction>>
  BY DEF CreateFinds, CreateLocks, SInv, CInv, CorrTypeOK
<1> HIDE DEF h
<1>4. HandlerFits(h) /\ HeldRecs(h) = {}
  BY <1>1, <1>2 DEF HandlerFits, HeldRecs
<1> QED
  BY <1>3, <1>4, RemembersClaimStep

LEMMA CreateSavesSafe ==
    ASSUME SInv, CInv', NEW k \in CReq, CreateSaves(k) PROVE SInv'
<1> DEFINE me == creq[k]
<1>1. me.pc = "create_save" /\ Finish(k) /\ UNCHANGED vars
  BY DEF CreateSaves
<1>2. Fits(me.rec, me.claim)
  BY <1>1 DEF SInv, ClaimsFit, HandlerFits
<1>3. CASE UNCHANGED correction
  BY <1>1, <1>3, GivesUpStep
<1>4. ASSUME NEW new \in CorrId, Replaces(k, new) PROVE SInv'
  <2>1. correction'[new].rec = me.rec /\ correction'[new].claim = me.claim /\ correction'[new].status = "pending"
    BY <1>4 DEF Replaces
  <2>2. ASSUME NEW c \in CorrId \ {new}
        PROVE  \/ correction'[c] = correction[c]
               \/ /\ Used(c) /\ correction'[c].status = "cancelled"
                  /\ correction'[c].rec = correction[c].rec /\ correction'[c].claim = correction[c].claim
    <3>1. correction[c] \in Correction
      BY DEF SInv, CInv, CorrTypeOK
    <3>2. correction'[c] = IF c \in me.rows
                           THEN [correction[c] EXCEPT !.status = "cancelled", !.reviewer = me.user]
                           ELSE correction[c]
      BY <1>4 DEF Replaces
    <3>3. c \in me.rows => Used(c)
      BY <1>1 DEF SInv, CInv, Handlers, MemoryOK, Pending, Used
    <3> QED
      BY <3>1, <3>2, <3>3 DEF Correction
  <2>3. \A c \in CorrId : Used(c)' => Fits(correction'[c].rec, correction'[c].claim)
    BY <1>2, <2>1, <2>2 DEF SInv, ClaimsFit, Used
  <2>4. \A c \in CorrId : correction'[c].status = "approved" => correction'[c] = correction[c]
    BY <2>1, <2>2
  <2> QED
    BY <1>1, <2>3, <2>4, FreeFits, ClaimStep DEF Finish
<1> QED
  BY <1>3, <1>4 DEF CreateSaves, Replaces

LEMMA DecideArrivesSafe ==
    ASSUME SInv, CInv', NEW k \in CReq, NEW u \in User, NEW c \in CorrId, NEW ends \in Decision,
           DecideArrives(k, u, c, ends)
    PROVE  SInv'
<1> DEFINE h == [Free EXCEPT !.user = u, !.as = token[u], !.ends = ends, !.rows = {c}, !.rec = correction[c].rec,
                           !.pc = IF ends = "cancelled" THEN "cancel_lock" ELSE "decide_lock"]
<1>1. h.pc \in {"cancel_lock", "decide_lock"}
  BY DEF Free
<1>2. creq' = [creq EXCEPT ![k] = h] /\ UNCHANGED <<vars, correction>>
  BY DEF DecideArrives
<1> HIDE DEF h
<1>3. HandlerFits(h) /\ HeldRecs(h) = {}
  BY <1>1 DEF HandlerFits, HeldRecs
<1> QED
  BY <1>2, <1>3, RemembersClaimStep

LEMMA LocksSafe ==
    ASSUME SInv, CInv', NEW k \in CReq, DecideLocks(k) \/ CancelLocks(k) PROVE SInv'
<1>1. UNCHANGED <<vars, correction>> /\ (Finish(k) \/ Step(k, "decide_check") \/ Step(k, "cancel_save"))
  BY DEF DecideLocks, CancelLocks
<1>2. CASE Finish(k)
  BY <1>1, <1>2, GivesUpStep
<1>3. ASSUME NEW pc \in {"decide_check", "cancel_save"}, Step(k, pc) PROVE SInv'
  <2> DEFINE h == [creq[k] EXCEPT !.pc = pc]
  <2>1. h.pc = pc /\ creq' = [creq EXCEPT ![k] = h]
    BY <1>3 DEF Step, SInv, CInv, CorrTypeOK, Handler
  <2> HIDE DEF h
  <2>2. HandlerFits(h) /\ HeldRecs(h) = {}
    BY <2>1 DEF HandlerFits, HeldRecs
  <2> QED
    BY <1>1, <2>1, <2>2, RemembersClaimStep
<1> QED
  BY <1>1, <1>2, <1>3

LEMMA DecideChecksSafe ==
    ASSUME SInv, CInv', NEW k \in CReq, DecideChecks(k) PROVE SInv'
<1> DEFINE h == [creq[k] EXCEPT !.pc = "decide_save"]
<1>1. UNCHANGED <<vars, correction>> /\ (Finish(k) \/ (RecordUnchanged(k) /\ Step(k, "decide_save")))
  BY DEF DecideChecks
<1>2. CASE Finish(k)
  BY <1>1, <1>2, GivesUpStep
<1>3. CASE RecordUnchanged(k) /\ Step(k, "decide_save")
  <2>1. h.pc = "decide_save" /\ h.ends = creq[k].ends /\ h.rec = creq[k].rec /\ creq' = [creq EXCEPT ![k] = h]
    BY <1>3 DEF Step, SInv, CInv, CorrTypeOK, Handler
  <2>2. creq[k].ends = "approved" => RecFree(k, creq[k].rec)
    BY DEF DecideChecks
  <2> HIDE DEF h
  <2>3. HandlerFits(h)
    BY <1>3, <2>1 DEF HandlerFits, HeldRecs, RecordUnchanged
  <2>4. \A j \in CReq \ {k} : HeldRecs(creq[j]) \cap HeldRecs(h) = {}
    BY <2>1, <2>2 DEF HeldRecs, RecFree, LockedRecs
  <2> QED
    BY <1>1, <2>1, <2>3, <2>4, RemembersClaimStep
<1> QED
  BY <1>1, <1>2, <1>3

\* What a decision or a cancellation writes, of claims.
LEMMA DecidedClaims ==
    ASSUME SInv, NEW k \in CReq, NEW c \in CorrId, creq[k].rows = {c}, correction' = Decided(k, c)
    PROVE  /\ correction'[c].status = creq[k].ends /\ correction'[c].rec = correction[c].rec
           /\ correction'[c].claim = correction[c].claim
           /\ \A d \in CorrId \ {c} : correction'[d] = correction[d]
BY DEF Decided, SInv, CInv, CorrTypeOK, Correction

LEMMA RefusedSafe ==
    ASSUME SInv, CInv', NEW k \in CReq, UNCHANGED vars, creq[k].pc \in {"decide_save", "cancel_save"},
           creq[k].ends # "approved", Finish(k),
           \E c \in creq[k].rows : correction' = Decided(k, c)
    PROVE  SInv'
<1>1. PICK c \in creq[k].rows : correction' = Decided(k, c)
  OBVIOUS
<1>2. c \in CorrId /\ creq[k].rows = {c} /\ correction[c].status = "pending"
  BY <1>1, OneRow DEF SInv, CInv, Handlers, MemoryOK, Holds
<1>3. \A d \in CorrId : Used(d)' => Fits(correction'[d].rec, correction'[d].claim)
  BY <1>1, <1>2, DecidedClaims DEF SInv, ClaimsFit, Used
<1>4. \A d \in CorrId : correction'[d].status = "approved" => correction'[d] = correction[d]
  BY <1>1, <1>2, DecidedClaims
<1> QED
  BY <1>3, <1>4, FreeFits, ClaimStep DEF Finish
\* An approval completes an unresolved shift with a claim that fits.
Settled(c) ==
    LET r == correction[c].rec
    IN  /\ c \in CorrId /\ correction[c].status = "pending" /\ Fits(r, correction[c].claim)
        /\ records[r].status = "auto_closed"
        /\ records'[r] = Complete(records[r], correction[c].claim)
        /\ records' \in [RecId -> Record]
        /\ \A s \in RecId \ {r} : records'[s] = records[s]
        /\ correction'[c].status = "approved" /\ correction'[c].rec = r /\ correction'[c].claim = correction[c].claim
        /\ \A d \in CorrId \ {c} : correction'[d] = correction[d]

LEMMA ApprovalSettles ==
    ASSUME SInv, NEW k \in CReq, DecideSaves(k), creq[k].ends = "approved"
    PROVE  \E c \in CorrId : Settled(c) /\ creq[k].rec = correction[c].rec
<1>1. creq[k].pc = "decide_save" /\ MemoryOK(creq[k]) /\ HandlerFits(creq[k])
  BY DEF DecideSaves, SInv, CInv, Handlers, ClaimsFit
<1>2. PICK c \in creq[k].rows :
         /\ correction' = Decided(k, c)
         /\ records' = [records EXCEPT ![creq[k].rec] = Complete(@, correction[c].claim)]
  BY DEF DecideSaves
<1>3. c \in CorrId /\ creq[k].rows = {c} /\ Used(c) /\ creq[k].rec = correction[c].rec
  BY <1>1, <1>2 DEF MemoryOK
<1>4. correction[c].status = "pending"
  BY <1>1, <1>3 DEF MemoryOK, Holds
<1>5. Fits(correction[c].rec, correction[c].claim)
  BY <1>3 DEF SInv, ClaimsFit
<1>6. records[correction[c].rec].status = "auto_closed"
  BY <1>1, <1>3 DEF HandlerFits, HeldRecs
<1>7. records \in [RecId -> Record] /\ correction[c].rec \in RecId /\ correction[c].claim \in Int
  BY <1>5 DEF SInv, PInv, IInv, TypeOK, Fits
<1>8. Complete(records[correction[c].rec], correction[c].claim) \in Record
  BY <1>7, CompleteEffect
<1>9. /\ records'[correction[c].rec] = Complete(records[correction[c].rec], correction[c].claim)
      /\ records' \in [RecId -> Record]
      /\ \A s \in RecId \ {correction[c].rec} : records'[s] = records[s]
  BY <1>2, <1>3, <1>7, <1>8
<1> QED
  BY <1>2, <1>3, <1>4, <1>5, <1>6, <1>9, DecidedClaims DEF Settled

LEMMA SettledEffect ==
    ASSUME SInv, NEW c \in CorrId, Settled(c),
           NEW r, r = correction[c].rec, NEW claim, claim = correction[c].claim
    PROVE  /\ r \in RecId /\ claim \in Int /\ records[r].in < claim
           /\ claim - records[r].in =< STALE_SHIFT_HOURS /\ clock - records[r].in > STALE_SHIFT_HOURS
           /\ claim =< clock /\ records[r].status = "auto_closed"
           /\ records'[r].status = "completed" /\ records'[r].out = claim
           /\ records'[r].user = records[r].user /\ records'[r].in = records[r].in
<1>1. r \in RecId /\ claim \in Int /\ records[r].in < claim /\ claim - records[r].in =< STALE_SHIFT_HOURS
      /\ records[r].status = "auto_closed" /\ records'[r] = Complete(records[r], claim)
  BY RowNumbers DEF Settled, Fits, SInv
<1>2. clock - records[r].in > STALE_SHIFT_HOURS
  BY <1>1 DEF SInv, PInv, PastShiftsOver, Closed, Over
<1>3. records[r] \in Record /\ records[r].in \in Int /\ clock \in Int /\ STALE_SHIFT_HOURS \in Nat
  BY <1>1, RowNumbers DEF SInv
<1>4. claim =< clock
  BY <1>1, <1>2, <1>3
<1>5. /\ records'[r].status = "completed" /\ records'[r].out = claim
      /\ records'[r].user = records[r].user /\ records'[r].in = records[r].in
  BY <1>1, <1>3 DEF Complete, Record
<1> QED
  BY <1>1, <1>2, <1>4, <1>5

LEMMA ApprovalSafe ==
    ASSUME SInv, CInv', NEW k \in CReq, DecideSaves(k), creq[k].ends = "approved"
    PROVE  SInv'
<1>1. PICK c \in CorrId : Settled(c) /\ creq[k].rec = correction[c].rec
  BY ApprovalSettles
<1> DEFINE r == correction[c].rec
           claim == correction[c].claim
<1>2. /\ r \in RecId /\ claim \in Int /\ records[r].in < claim
      /\ claim - records[r].in =< STALE_SHIFT_HOURS /\ clock - records[r].in > STALE_SHIFT_HOURS
      /\ claim =< clock /\ records[r].status = "auto_closed"
      /\ records'[r].status = "completed" /\ records'[r].out = claim
      /\ records'[r].user = records[r].user /\ records'[r].in = records[r].in
  BY <1>1, SettledEffect
<1>3. /\ records'[r] = Complete(records[r], claim) /\ records' \in [RecId -> Record]
      /\ \A s \in RecId \ {r} : records'[s] = records[s]
      /\ correction[c].status = "pending"
      /\ correction'[c].status = "approved" /\ correction'[c].rec = r /\ correction'[c].claim = claim
      /\ \A d \in CorrId \ {c} : correction'[d] = correction[d]
  BY <1>1 DEF Settled
<1>4. UNCHANGED <<clock, geofence, request>> /\ Finish(k)
  BY DEF DecideSaves
<1>5. \A s \in RecId : /\ records'[s].in = records[s].in /\ records'[s].user = records[s].user
                       /\ records[s].status \in {"unused", "active"} => records'[s] = records[s]
                       /\ records'[s].status \in {"unused", "active"} => records'[s] = records[s]
                       /\ Closed(s) => Closed(s)'
  BY <1>2, <1>3 DEF Closed
<1>6. \A s \in RecId : records[s] \in Record /\ records[s].in \in Int
  BY RowNumbers DEF SInv
<1> HIDE DEF r, claim
<1>7. IInv'
  <2>1. RowOK(records'[r])
    <3>1. RowOK(records[r]) /\ records[r] \in Record /\ clock \in Int
      BY <1>2, RowWise, RowNumbers DEF SInv, PInv, IInv
    <3>2. ~IsStale(records[r], claim) /\ records[r].in =< claim
      BY <1>2, <3>1, <1>6, ConstantsAssumption DEF IsStale
    <3> QED
      BY <1>2, <1>3, <3>1, <3>2, CompleteOK
  <2>2. \A s \in RecId : RowOK(records'[s])
    BY <1>3, <2>1, RowWise DEF SInv, PInv, IInv
  <2>3. PunchInsInPast' /\ HoursMatchPunches'
    BY <1>4, <2>2 DEF RowOK, PunchInsInPast, HoursMatchPunches
  <2>4. SessionsInOrder'
    <3>1. \A q \in Req : DOMAIN request[q].seen \subseteq RecId
      BY SeenType DEF SInv, PInv, IInv, TypeOK, Session
    <3>2. \A s \in RecId : records[s].status # "unused" => records'[s].status # "unused"
      BY <1>5
    <3> QED
      BY <1>4, <1>5, <3>1, <3>2 DEF SInv, PInv, IInv, SessionsInOrder
  <2>5. TypeOK'
    BY <1>3, <1>4 DEF SInv, PInv, IInv, TypeOK
  <2> QED
    BY <2>3, <2>4, <2>5 DEF IInv
<1>8. ASSUME NEW s \in RecId, NEW t \in Int, records[s].status # "unused", Over(s, t) PROVE Over(s, t)'
  BY <1>2, <1>3, <1>6, <1>8, ConstantsAssumption DEF Over
<1>9. PInv'
  <2>1. UnusedBlank' /\ PunchersApart'
    BY <1>4, <1>5 DEF SInv, PInv, UnusedBlank, PunchersApart
  <2>2. PastShiftsOver'
    <3>1. clock \in Int
      BY <1>2, RowNumbers DEF SInv
    <3>2. \A s \in RecId : Closed(s)' => Closed(s)
      BY <1>2, <1>3 DEF Closed
    <3>3. \A s \in RecId : Closed(s) => Over(s, clock)'
      <4>1. \A s \in RecId : Over(s, clock) /\ Closed(s) => Over(s, clock)'
        BY <1>4, <3>1, <1>8 DEF Over, Closed
      <4> QED
        BY <4>1 DEF SInv, PInv, PastShiftsOver
    <3> QED
      BY <3>2, <3>3 DEF PastShiftsOver
  <2>3. ASSUME NEW q \in Req PROVE PunchOK(request[q])'
    <3>1. request[q] \in Session /\ PunchOK(request[q]) /\ request[q].now \in Int /\ DOMAIN request[q].seen \subseteq RecId
      BY SeenType, ConstantsAssumption DEF SInv, PInv, IInv, TypeOK, Session, Time
    <3>2. \A s \in RecId : Closed(s)' => Closed(s)
      BY <1>2, <1>3 DEF Closed
    <3>3. \A s \in RecId : records[s].status # "unused" /\ Over(s, request[q].now) => Over(s, request[q].now)'
      BY <1>4, <1>8, <3>1 DEF Over
    <3> QED
      BY <1>4, <1>5, <3>1, <3>2, <3>3 DEF PunchOK, Closed
  <2>4. ShiftsDisjoint'
    <3>1. ASSUME NEW a \in RecId, NEW b \in RecId, Precedes(a, b) PROVE Precedes(a, b)'
      <4>1. records'[b].in = records[b].in /\ records'[a].in = records[a].in
        BY <1>5
      <4>2. CASE a = r
        BY <1>2, <1>6, <3>1, <4>1, <4>2, ConstantsAssumption DEF Precedes
      <4>3. CASE a # r
        BY <1>3, <3>1, <4>1, <4>3 DEF Precedes
      <4> QED
        BY <4>2, <4>3
    <3>2. \A a \in RecId : records'[a].status # "unused" => records[a].status # "unused"
      BY <1>2, <1>3
    <3> QED
      BY <1>5, <3>1, <3>2 DEF SInv, PInv, ShiftsDisjoint
  <2> QED
    BY <1>7, <2>1, <2>2, <2>3, <2>4 DEF PInv
<1>10. \A s, t : Fits(s, t) => Fits(s, t)'
  BY <1>5 DEF Fits
<1>11. \A d \in CorrId : correction[d].status = "approved" => correction[d].rec # r /\ correction[d].rec \in RecId
  BY <1>2 DEF SInv, ApprovedClaimIsPaid, CInv, Requests, Used
<1>12. ApprovedClaimIsPaid'
  BY <1>2, <1>3, <1>11 DEF SInv, ApprovedClaimIsPaid
<1>13. ClaimsFit'
  <2>1. \A j \in CReq : creq'[j] = IF j = k THEN Free ELSE creq[j]
    BY <1>4 DEF Finish, SInv, CInv, CorrTypeOK
  <2>2. \A d \in CorrId : Used(d)' => Fits(correction[d].rec, correction[d].claim)'
    <3>1. \A d \in CorrId : Used(d)' => Fits(correction'[d].rec, correction'[d].claim)
      BY <1>1, <1>3 DEF SInv, ClaimsFit, Used, Settled, r, claim
    <3> QED
      BY <1>5, <3>1 DEF Fits
  <2>3. HeldRecs(creq[k]) = {r}
    BY <1>1 DEF HeldRecs, DecideSaves, r
  <2>4. \A j \in CReq \ {k} : r \notin HeldRecs(creq[j]) /\ HeldRecs(creq[j]) \subseteq RecId
    BY <2>3 DEF SInv, ClaimsFit, HeldRecs, CInv, Handlers, MemoryOK, Requests
  <2>5. ASSUME NEW j \in CReq PROVE HandlerFits(creq[j])'
    <3>1. CASE j = k
      BY <2>1, <3>1 DEF HandlerFits, HeldRecs, Free
    <3>2. CASE j # k
      BY <1>3, <1>10, <2>1, <2>4, <3>2 DEF SInv, ClaimsFit, HandlerFits, HeldRecs
    <3> QED
      BY <3>1, <3>2
  <2>6. \A i, j \in CReq : i # j => HeldRecs(creq'[i]) \cap HeldRecs(creq'[j]) = {}
    BY <2>1, FreeFits DEF SInv, ClaimsFit
  <2> QED
    BY <2>2, <2>5, <2>6 DEF ClaimsFit, HeldRecs
<1> QED
  BY <1>9, <1>12, <1>13 DEF SInv
-----------------------------------------------------------------------------
(* Every behaviour keeps the invariant. *)

LEMMA InitSInv == Init /\ CorrInit => SInv
<1> SUFFICES ASSUME Init, CorrInit PROVE SInv
  OBVIOUS
<1>1. CInv /\ IInv
  BY InitCInv, InitIInv
<1>2. \A r \in RecId : records[r] = NoRow
  BY DEF Init
<1>3. NoRow.status = "unused"
  BY DEF NoRow
<1>4. \A q \in Req : request[q] = Idle
  BY DEF Init
<1>5. Idle.pc = "idle" /\ Idle.user \notin User
  BY NoneAssumption DEF Idle
<1>6. PInv
  <2>1. UnusedBlank /\ PastShiftsOver /\ ShiftsDisjoint
    BY <1>2, <1>3 DEF UnusedBlank, PastShiftsOver, ShiftsDisjoint, Closed
  <2>2. PunchersApart /\ \A q \in Req : PunchOK(request[q])
    BY <1>4, <1>5, IdleType DEF PunchersApart, PunchOK
  <2> QED
    BY <1>1, <2>1, <2>2 DEF PInv
<1>7. \A c \in CorrId : correction[c].status = "unused"
  BY DEF CorrInit, NoCorrection
<1>8. \A k \in CReq : creq[k] = Free
  BY DEF CorrInit
<1>9. ClaimsFit /\ ApprovedClaimIsPaid
  BY <1>7, <1>8, FreeFits DEF ClaimsFit, Used, ApprovedClaimIsPaid
<1> QED
  BY <1>1, <1>6, <1>9 DEF SInv

LEMMA RolesSafe ==
    ASSUME SInv, CInv', UNCHANGED <<vars, correction, creq>> PROVE SInv'
<1>1. PInv'
  BY PunchesRest DEF SInv
<1>2. ClaimsFit' /\ ApprovedClaimIsPaid'
  BY DEF SInv, ClaimsFit, HandlerFits, HeldRecs, Fits, Closed, Used, ApprovedClaimIsPaid, vars
<1> QED
  BY <1>1, <1>2 DEF SInv

LEMMA DecideSavesSafe ==
    ASSUME SInv, CInv', NEW k \in CReq, DecideSaves(k) PROVE SInv'
<1>1. CASE creq[k].ends = "approved"
  BY <1>1, ApprovalSafe
<1>2. CASE creq[k].ends # "approved"
  <2>1. UNCHANGED vars
    BY <1>2 DEF DecideSaves, vars
  <2> QED
    BY <1>2, <2>1, RefusedSafe DEF DecideSaves
<1> QED
  BY <1>1, <1>2

LEMMA CancelSavesSafe ==
    ASSUME SInv, CInv', NEW k \in CReq, CancelSaves(k) PROVE SInv'
<1>1. creq[k].ends = "cancelled"
  BY DEF CancelSaves, SInv, CInv, Handlers, MemoryOK
<1> QED
  BY <1>1, RefusedSafe DEF CancelSaves

LEMMA NextSInv ==
    ASSUME OnePunchAtATime, SInv, [CorrNext]_allVars PROVE SInv'
<1>1. CInv'
  BY NextCInv DEF SInv
<1>2. CASE PunchStep
  BY <1>2, PunchStepSafe
<1>3. ASSUME NEW k \in CReq, CorrHandle(k) PROVE SInv'
  BY <1>1, <1>3, CreateGoesOnSafe, CreateSavesSafe, LocksSafe, DecideChecksSafe, DecideSavesSafe, CancelSavesSafe
     DEF CorrHandle
<1>4. ASSUME NEW k \in CReq, CorrAbandon(k) PROVE SInv'
  BY <1>1, <1>4, GivesUpStep DEF CorrAbandon
<1>5. ASSUME NEW k \in CReq, NEW u \in User, NEW r \in RecId, NEW claim \in Time, CreateReads(k, u, r, claim)
      PROVE  SInv'
  BY <1>1, <1>5, CreateReadsSafe
<1>6. ASSUME NEW k \in CReq, NEW u \in User, NEW c \in CorrId, NEW ends \in Decision, DecideArrives(k, u, c, ends)
      PROVE  SInv'
  BY <1>1, <1>6, DecideArrivesSafe
<1>7. ASSUME NEW u \in User, ChangeRole(u) \/ LogIn(u) PROVE SInv'
  BY <1>1, <1>7, RolesSafe DEF ChangeRole, LogIn
<1>8. CASE UNCHANGED allVars
  BY <1>1, <1>8, RolesSafe DEF allVars, vars
<1> QED
  BY <1>2, <1>3, <1>4, <1>5, <1>6, <1>7, <1>8 DEF CorrNext

\* Shifts stay apart, handlers know the shifts of their user, and claims fit.
THEOREM SerialInvariance == ASSUME OnePunchAtATime PROVE CorrSpec => []SInv
<1>1. SInv /\ [CorrNext]_allVars => SInv'
  BY NextSInv
<1> QED
  BY <1>1, InitSInv, PTL DEF CorrSpec

\* The shifts of a user never overlap, and no claim that may still be approved
\* makes them overlap.
THEOREM ShiftsAreDisjoint == ASSUME OnePunchAtATime PROVE CorrSpec => []ShiftsDisjoint
<1>1. SInv => ShiftsDisjoint
  BY DEF SInv, PInv
<1> QED
  BY <1>1, SerialInvariance, PTL

\* An approved claim is what its shift was paid by, and no other was.
THEOREM ClaimsArePaid == ASSUME OnePunchAtATime PROVE CorrSpec => []ApprovedClaimIsPaid
<1>1. SInv => ApprovedClaimIsPaid
  BY DEF SInv
<1> QED
  BY <1>1, SerialInvariance, PTL

-----------------------------------------------------------------------------
(* The hours credited. *)

\* A countable shift is running or completed; it has not been longer than the
\* time since its punch-in, and a completed one ends when its hours do.
LEMMA HoursFit ==
    ASSUME PInv, NEW r \in RecId, HoursOf(r, clock) # None
    PROVE  /\ HoursOf(r, clock) \in Nat /\ records[r].in \in Nat /\ clock \in Nat
           /\ records[r].in + HoursOf(r, clock) =< clock
           /\ records[r].status \in {"active", "completed"}
           /\ records[r].status = "completed" => records[r].in + HoursOf(r, clock) = records[r].out
<1> DEFINE rec == records[r]
<1>1. rec \in Record /\ clock \in Nat /\ rec.in \in Nat /\ rec.in =< clock
  BY ConstantsAssumption DEF PInv, IInv, TypeOK, Time, Record, PunchInsInPast
<1>2. CASE rec.status = "completed"
  <2>1. /\ rec.out # None /\ rec.hours = rec.out - rec.in
        /\ rec.hours \in 0 .. STALE_SHIFT_HOURS /\ rec.out =< clock
    BY <1>2 DEF PInv, IInv, HoursMatchPunches
  <2>2. HoursOf(r, clock) = rec.hours
    BY <1>2 DEF HoursOf
  <2>3. rec.out \in Int
    BY <1>1, <2>1 DEF Record
  <2> QED
    BY <1>1, <1>2, <2>1, <2>2, <2>3, ConstantsAssumption
<1>3. CASE rec.status = "active"
  <2> DEFINE since == clock - rec.in
             n == Min({Max({since, 0}), MAX_SHIFT_HOURS})
  <2>1. since \in Nat
    BY <1>1
  <2>2. Max({since, 0}) = since
    BY <2>1 DEF Max
  <2>3. n \in {since, MAX_SHIFT_HOURS} /\ n =< since
    BY <2>1, <2>2, ReportsAssumption DEF Min
  <2>4. HoursOf(r, clock) = n
    BY <1>3 DEF HoursOf
  <2>5. n \in Nat
    BY <2>1, <2>3, ReportsAssumption
  <2> HIDE DEF n
  <2> QED
    BY <1>1, <1>3, <2>3, <2>4, <2>5
<1>4. CASE rec.status \notin {"active", "completed"}
  BY <1>4 DEF HoursOf
<1> QED
  BY <1>2, <1>3, <1>4

\* Two countable shifts of a user share no hour.
LEMMA HoursApart ==
    ASSUME PInv, NEW r \in RecId, NEW s \in RecId, r # s, records[r].user = records[s].user,
           HoursOf(r, clock) # None, HoursOf(s, clock) # None
    PROVE  \/ records[r].in + HoursOf(r, clock) =< records[s].in
           \/ records[s].in + HoursOf(s, clock) =< records[r].in
<1>1. /\ records[r].status \in {"active", "completed"} /\ records[s].status \in {"active", "completed"}
      /\ records[r].status = "completed" => records[r].in + HoursOf(r, clock) = records[r].out
      /\ records[s].status = "completed" => records[s].in + HoursOf(s, clock) = records[s].out
  BY HoursFit
<1>2. Precedes(r, s) \/ Precedes(s, r)
  BY <1>1 DEF PInv, ShiftsDisjoint
<1> QED
  BY <1>1, <1>2 DEF Precedes

\* Nobody is credited more hours since a moment than have passed since then:
\* each hour of a shift is an hour of the clock, and no two are the same.
THEOREM TotalsAreWithinElapsed == ASSUME OnePunchAtATime PROVE CorrSpec => []TotalsWithinElapsed
<1>1. ASSUME SInv, NEW u \in User, NEW start \in 0 .. clock
      PROVE  Total(u, start, clock) =< clock - start
  <2> DEFINE S == Credited(u, start, clock)
             T == start .. (clock - 1)
             at(e) == records[e[1]].in + e[2] - 1
             f == [e \in S |-> at(e)]
  <2>1. PInv /\ clock \in Nat /\ start \in Nat /\ start =< clock
    BY <1>1, ConstantsAssumption DEF SInv, PInv, IInv, TypeOK, Time
  <2>2. ASSUME NEW e \in S
        PROVE  /\ e = <<e[1], e[2]>> /\ e[1] \in RecId /\ HoursOf(e[1], clock) # None
               /\ records[e[1]].user = u /\ records[e[1]].in >= start
               /\ e[2] \in 1 .. HoursOf(e[1], clock)
    BY <2>2 DEF Credited, Since
  <2>3. ASSUME NEW e \in S PROVE at(e) \in T
    BY <2>1, <2>2, <2>3, HoursFit
  <2>4. ASSUME NEW d \in S, NEW e \in S, at(d) = at(e) PROVE d = e
    <3>1. /\ records[d[1]].in \in Nat /\ records[e[1]].in \in Nat
          /\ HoursOf(d[1], clock) \in Nat /\ HoursOf(e[1], clock) \in Nat
      BY <2>1, <2>2, HoursFit
    <3>2. CASE d[1] # e[1]
      BY <2>1, <2>2, <2>4, <3>1, <3>2, HoursApart
    <3>3. CASE d[1] = e[1]
      <4>1. d[2] = e[2]
        BY <2>2, <2>4, <3>1, <3>3
      <4> QED
        BY <2>2, <3>3, <4>1
    <3> QED
      BY <3>2, <3>3
  <2>5. f \in Injection(S, T)
    <3>1. f \in [S -> T]
      BY <2>3
    <3>2. \A d, e \in S : f[d] = f[e] => d = e
      BY <2>4
    <3> HIDE DEF f
    <3> QED
      BY <3>1, <3>2 DEF Injection, IsInjective
  <2>6. IsFiniteSet(T) /\ Cardinality(T) = clock - start
    <3>1. clock - 1 \in Int /\ start \in Int
      BY <2>1
    <3>2. /\ IsFiniteSet(start .. (clock - 1))
          /\ Cardinality(start .. (clock - 1)) = IF start > clock - 1 THEN 0 ELSE clock - 1 - start + 1
      BY <3>1, FS_Interval
    <3> QED
      BY <2>1, <3>1, <3>2
  <2>7. Cardinality(S) =< Cardinality(T)
    BY <2>5, <2>6, FS_Injection
  <2> QED
    BY <2>6, <2>7 DEF Total
<1>2. SInv => TotalsWithinElapsed
  BY <1>1 DEF TotalsWithinElapsed
<1> QED
  BY <1>2, SerialInvariance, PTL

-----------------------------------------------------------------------------
(* The ledger. *)

\* The shift that record r is in the ledger.
Entry(r) == [state |-> LedgerState(records[r]), user |-> records[r].user,
             from |-> records[r].in, to |-> records[r].out]

Shifts == [r \in RecId |-> Entry(r)]

LEMMA States ==
    ASSUME NEW rec, rec.status \in {"unused", "active", "completed", "auto_closed"}
    PROVE  /\ rec.status = "unused" => LedgerState(rec) = "none"
           /\ rec.status = "active" => LedgerState(rec) = "running"
           /\ rec.status = "completed" => LedgerState(rec) = "worked"
           /\ rec.status = "auto_closed" => LedgerState(rec) = "unresolved"
BY DEF LedgerState

\* A punch-in begins a shift.
LEMMA LedgerBegins ==
    ASSUME SInv, SInv', NEW q \in Req, PunchInSaves(q) PROVE Ledger!Next
<1>1. PICK new \in RecId : Begun(q, new)
  BY PunchInBegins DEF SInv
<1>2. PICK u \in User, now \in 0 .. clock : u = request[q].user /\ now = request[q].now
  BY <1>1, RowNumbers DEF Begun, PunchInSaves, SInv
<1>3. clock' = clock
  BY <1>1 DEF Begun, PunchInSaves
<1>4. \A r \in RecId : /\ records[r].status \in {"unused", "active", "completed", "auto_closed"}
                       /\ records'[r].status \in {"unused", "active", "completed", "auto_closed"}
  BY DEF SInv, PInv, IInv, TypeOK, Record
<1>5. \A r \in Ledger!Mine(u) : Ledger!OverBy(r, now)
  <2>1. SUFFICES ASSUME NEW r \in RecId, records[r].user = u PROVE Ledger!OverBy(r, now)
    BY DEF Ledger!Mine
  <2>2. records[r].status # "unused"
    BY <1>2, <2>1, NoneAssumption DEF SInv, PInv, UnusedBlank, NoRow
  <2>3. Over(r, now)
    BY <1>2, <1>1, <2>1, <2>2 DEF Begun
  <2> QED
    BY <1>4, <2>2, <2>3, States DEF Over, Ledger!OverBy
<1>6. LedgerState(records[new]) = "none"
  BY <1>1, <1>4, States DEF Begun
<1>7. ASSUME NEW r \in RecId
      PROVE  Entry(r)' = IF r = new
                         THEN [state |-> "running", user |-> u, from |-> now, to |-> None]
                         ELSE IF r \in Ledger!Mine(u) /\ LedgerState(records[r]) = "running"
                         THEN [Entry(r) EXCEPT !.state = "unresolved"]
                         ELSE Entry(r)
  <2>1. CASE r = new
    <3>1. /\ LedgerState(records'[r]) = "running" /\ records'[r].user = u
          /\ records'[r].in = now /\ records'[r].out = None
      BY <1>2, <1>1, <1>4, <2>1, States DEF Begun
    <3> QED
      BY <2>1, <3>1 DEF Entry, LedgerState
  <2>2. CASE r # new /\ records[r].user = u /\ records[r].status = "active"
    <3>1. /\ LedgerState(records'[r]) = "unresolved" /\ LedgerState(records[r]) = "running"
          /\ records'[r].user = records[r].user
          /\ records'[r].in = records[r].in /\ records'[r].out = records[r].out
      BY <1>2, <1>1, <1>4, <2>2, States DEF Begun
    <3>2. r \in Ledger!Mine(u)
      BY <2>2 DEF Ledger!Mine
    <3>3. [Entry(r) EXCEPT !.state = "unresolved"] = [state |-> "unresolved", user |-> records[r].user,
                                                      from |-> records[r].in, to |-> records[r].out]
      BY DEF Entry
    <3> QED
      BY <2>2, <3>1, <3>2, <3>3 DEF Entry, LedgerState
  <2>3. CASE r # new /\ ~(records[r].user = u /\ records[r].status = "active")
    <3>1. records'[r] = records[r]
      BY <1>2, <1>1, <2>3 DEF Begun
    <3>2. ~(r \in Ledger!Mine(u) /\ LedgerState(records[r]) = "running")
      BY <1>4, <2>3, States DEF Ledger!Mine
    <3> QED
      BY <2>3, <3>1, <3>2 DEF Entry, LedgerState
  <2> QED
    BY <2>1, <2>2, <2>3
<1> DEFINE shift == [r \in RecId |-> Entry(r)]
<1>8. shift' = [r \in RecId |-> IF r = new
                                 THEN [state |-> "running", user |-> u, from |-> now, to |-> None]
                                 ELSE IF r \in Ledger!Mine(u) /\ shift[r].state = "running"
                                 THEN [shift[r] EXCEPT !.state = "unresolved"]
                                 ELSE shift[r]]
  <2>1. ASSUME NEW r \in RecId PROVE shift[r] = Entry(r) /\ shift[r].state = LedgerState(records[r])
    BY <2>1 DEF Entry
  <2>2. shift' = [r \in RecId |-> Entry(r)']
    OBVIOUS
  <2> HIDE DEF shift
  <2> QED
    BY <1>7, <2>1, <2>2
<1>9. shift[new].state = "none"
  BY <1>1, <1>6 DEF Entry, Begun
<1>10. Ledger!Begin(u, now)
  <2>1. new \in RecId
    BY <1>1
  <2> QED
    BY <1>3, <1>5, <1>8, <1>9, <2>1 DEF Ledger!Begin, Entry
<1> QED
  BY <1>10 DEF Ledger!Next

\* A step that changes the state of one shift, and perhaps its end.
LEMMA OneEntry ==
    ASSUME NEW r \in RecId, \A s \in RecId \ {r} : records'[s] = records[s],
           records'[r].user = records[r].user, records'[r].in = records[r].in,
           NEW state, LedgerState(records'[r]) = state
    PROVE  /\ records'[r].out = records[r].out => Shifts' = [Shifts EXCEPT ![r].state = state]
           /\ \A to : records'[r].out = to => Shifts' = [Shifts EXCEPT ![r].state = state, ![r].to = to]
<1>1. Shifts' = [s \in RecId |-> Entry(s)'] /\ Shifts = [s \in RecId |-> Entry(s)]
  BY DEF Shifts
<1>2. ASSUME NEW s \in RecId \ {r} PROVE Entry(s)' = Entry(s)
  BY <1>2 DEF Entry, LedgerState
<1>3. Entry(r)' = [state |-> state, user |-> records[r].user, from |-> records[r].in, to |-> records'[r].out]
  BY DEF Entry, LedgerState
<1>4. [Entry(r) EXCEPT !.state = state]
         = [state |-> state, user |-> records[r].user, from |-> records[r].in, to |-> records[r].out]
  BY DEF Entry
<1>5. ASSUME NEW to, records'[r].out = to
      PROVE  [[Entry(r) EXCEPT !.state = state] EXCEPT !.to = to] = Entry(r)'
  <2>1. PICK e, u, f, o : /\ e = [Entry(r) EXCEPT !.state = state] /\ u = records[r].user
                          /\ f = records[r].in /\ o = records[r].out
    OBVIOUS
  <2>2. e = [state |-> state, user |-> u, from |-> f, to |-> o]
    BY <1>4, <2>1
  <2>3. [e EXCEPT !.to = to] = [state |-> state, user |-> u, from |-> f, to |-> to]
    BY <2>2
  <2> QED
    BY <1>3, <1>5, <2>1, <2>3
<1>6. records'[r].out = records[r].out => Entry(r)' = [Entry(r) EXCEPT !.state = state]
  BY <1>3, <1>4
<1>7. records'[r].out = records[r].out => Shifts' = [Shifts EXCEPT ![r].state = state]
  BY <1>1, <1>2, <1>6
<1>8. ASSUME NEW to, records'[r].out = to
      PROVE  Shifts' = [Shifts EXCEPT ![r].state = state, ![r].to = to]
  <2>1. Shifts[r] = Entry(r) /\ r \in DOMAIN Shifts
    BY <1>1
  <2>2. [[Entry(r) EXCEPT !.state = state] EXCEPT !.to = to] = Entry(r)'
    BY <1>5, <1>8
  <2>3. [Shifts EXCEPT ![r].state = state, ![r].to = to]
           = [Shifts EXCEPT ![r] = [[Entry(r) EXCEPT !.state = state] EXCEPT !.to = to]]
    BY <2>1
  <2> QED
    BY <1>1, <1>2, <2>2, <2>3
<1> QED
  BY <1>7, <1>8

\* A punch-out ends a shift, unless it comes too late to say when.
LEMMA LedgerEnds ==
    ASSUME SInv, SInv', NEW q \in Req, PunchOutSaves(q) PROVE Ledger!Next
<1>1. PICK r \in RecId : Ended(q, r)
  BY PunchOutEnds DEF SInv
<1>2. PICK now \in 0 .. clock : now = request[q].now
  BY <1>1, RowNumbers DEF Ended, SInv
<1>3. clock' = clock /\ clock \in Int /\ records[r].in \in Int /\ STALE_SHIFT_HOURS \in Nat
  BY RowNumbers DEF PunchOutSaves, SInv
<1>4. /\ records[r].status = "active" /\ records[r].in =< now
      /\ \A s \in RecId \ {r} : records'[s] = records[s]
      /\ records'[r].user = records[r].user /\ records'[r].in = records[r].in
  BY <1>1, <1>2 DEF Ended
<1>5. Shifts[r].state = "running" /\ Shifts[r].from = records[r].in
  BY <1>4, States DEF Shifts, Entry
<1>6. CASE now - records[r].in > STALE_SHIFT_HOURS
  <2>1. LedgerState(records'[r]) = "unresolved" /\ records'[r].out = records[r].out
    BY <1>1, <1>2, <1>6, States DEF Ended
  <2>2. Shifts' = [Shifts EXCEPT ![r].state = "unresolved"]
    BY <1>4, <2>1, OneEntry
  <2>3. clock - Shifts[r].from > STALE_SHIFT_HOURS
    BY <1>2, <1>3, <1>5, <1>6
  <2>4. Ledger!Forget(r)
    BY <1>3, <1>5, <2>2, <2>3 DEF Ledger!Forget, Shifts, Entry
  <2> QED
    BY <2>4 DEF Ledger!Next
<1>7. CASE ~(now - records[r].in > STALE_SHIFT_HOURS)
  <2>1. LedgerState(records'[r]) = "worked" /\ records'[r].out = now
    BY <1>1, <1>2, <1>7, States DEF Ended
  <2>2. Shifts' = [Shifts EXCEPT ![r].state = "worked", ![r].to = now]
    BY <1>4, <2>1, OneEntry
  <2>3. now - Shifts[r].from \in 0 .. STALE_SHIFT_HOURS
    BY <1>2, <1>3, <1>4, <1>5, <1>7
  <2>4. Ledger!End(r, now)
    BY <1>3, <1>5, <2>2, <2>3 DEF Ledger!End, Shifts, Entry
  <2> QED
    BY <2>4 DEF Ledger!Next
<1> QED
  BY <1>6, <1>7

\* An approval settles a shift that was left unresolved.
LEMMA LedgerSettles ==
    ASSUME SInv, NEW k \in CReq, DecideSaves(k), creq[k].ends = "approved" PROVE Ledger!Next
<1>1. PICK c \in CorrId : Settled(c)
  BY ApprovalSettles
<1>2. PICK r, t : r = correction[c].rec /\ t = correction[c].claim
  OBVIOUS
<1>3. /\ r \in RecId /\ t \in Int /\ records[r].in < t
      /\ t - records[r].in =< STALE_SHIFT_HOURS /\ t =< clock
      /\ records[r].status = "auto_closed" /\ records'[r].status = "completed" /\ records'[r].out = t
      /\ records'[r].user = records[r].user /\ records'[r].in = records[r].in
  BY <1>1, <1>2, SettledEffect
<1>4. \A s \in RecId \ {r} : records'[s] = records[s]
  BY <1>1, <1>2 DEF Settled
<1>5. /\ records[r].in \in Int /\ 0 =< records[r].in /\ clock \in Int /\ STALE_SHIFT_HOURS \in Nat
  BY <1>3, RowNumbers, ConstantsAssumption DEF SInv, Record, Time
<1>6. LedgerState(records[r]) = "unresolved" /\ LedgerState(records'[r]) = "worked"
  BY <1>3, States
<1>7. Shifts' = [Shifts EXCEPT ![r].state = "worked", ![r].to = t]
  BY <1>3, <1>4, <1>6, OneEntry
<1>8. Shifts[r].state = "unresolved" /\ Shifts[r].from = records[r].in
  BY <1>3, <1>6 DEF Shifts, Entry
<1>9. t - Shifts[r].from \in 1 .. STALE_SHIFT_HOURS /\ t \in 0 .. clock
  BY <1>3, <1>5, <1>8
<1>10. clock' = clock
  BY DEF DecideSaves
<1>11. Ledger!Settle(r, t)
  BY <1>7, <1>8, <1>9, <1>10 DEF Ledger!Settle, Shifts, Entry
<1> QED
  BY <1>3, <1>9, <1>11 DEF Ledger!Next

\* Steps that keep every shift as it is.
LEMMA LedgerRests ==
    ASSUME UNCHANGED clock,
           \A r \in RecId : /\ records'[r].status = records[r].status /\ records'[r].user = records[r].user
                            /\ records'[r].in = records[r].in /\ records'[r].out = records[r].out
    PROVE  UNCHANGED Ledger!vars
<1>1. \A r \in RecId : Entry(r)' = Entry(r)
  BY DEF Entry, LedgerState
<1>2. Shifts' = Shifts
  BY <1>1 DEF Shifts
<1> QED
  BY <1>2 DEF Ledger!vars, Shifts, Entry

LEMMA LedgerStep ==
    ASSUME SInv, SInv', [CorrNext]_allVars PROVE [Ledger!Next]_(Ledger!vars)
<1>1. CASE UNCHANGED <<clock, records>>
  BY <1>1, LedgerRests
<1>2. CASE PunchStep /\ Tick
  <2>1. clock' = clock + 1 /\ records' = records
    BY <1>2 DEF Tick
  <2>2. Shifts' = Shifts
    BY <2>1 DEF Shifts, Entry, LedgerState
  <2>3. Ledger!Tick
    BY <2>1, <2>2 DEF Ledger!Tick, Shifts, Entry
  <2> QED
    BY <2>3 DEF Ledger!Next
<1>3. ASSUME NEW q \in Req, Handle(q) PROVE [Ledger!Next]_(Ledger!vars)
  <2>0. PunchInSaves(q) \/ PunchOutSaves(q) \/ StatusSaves(q) \/ UNCHANGED <<clock, records>>
    BY <1>3
       DEF Handle, PunchInArrives, PunchInReads, PunchInChecks, PunchOutReads, PunchOutChecks, StatusReads, Abandon
  <2>1. CASE PunchInSaves(q)
    BY <2>1, LedgerBegins
  <2>2. CASE PunchOutSaves(q)
    BY <2>2, LedgerEnds
  <2>3. CASE StatusSaves(q)
    BY <2>3, StatusKeepsShifts, LedgerRests DEF StatusSaves, SInv
  <2>4. CASE UNCHANGED <<clock, records>>
    BY <2>4, LedgerRests
  <2> QED
    BY <2>0, <2>1, <2>2, <2>3, <2>4
<1>4. ASSUME NEW k \in CReq, DecideSaves(k) PROVE [Ledger!Next]_(Ledger!vars)
  <2>1. CASE creq[k].ends = "approved"
    BY <1>4, <2>1, LedgerSettles
  <2>2. CASE creq[k].ends # "approved"
    BY <1>1, <1>4, <2>2 DEF DecideSaves
  <2> QED
    BY <2>1, <2>2
<1>5. ASSUME NEW k \in CReq, CorrHandle(k) PROVE DecideSaves(k) \/ UNCHANGED <<clock, records>>
  BY <1>5 DEF CorrHandle, CreateFinds, CreateLocks, CreateSaves, DecideLocks, DecideChecks, CancelLocks, CancelSaves, vars
<1>6. CorrNext => \/ PunchStep \/ \E k \in CReq : CorrHandle(k)
                  \/ UNCHANGED <<clock, records>>
  BY DEF CorrNext, CorrAbandon, CreateReads, DecideArrives, ChangeRole, LogIn, vars
<1>7. UNCHANGED allVars => UNCHANGED <<clock, records>>
  BY DEF allVars
<1> QED
  BY <1>1, <1>2, <1>3, <1>4, <1>5, <1>6, <1>7 DEF PunchStep

LEMMA LedgerInit == Init => Ledger!Init
<1> SUFFICES ASSUME Init PROVE Ledger!Init
  OBVIOUS
<1>1. \A r \in RecId : /\ records[r].status = "unused" /\ records[r].user = None
                       /\ records[r].in = 0 /\ records[r].out = None
  BY DEF Init, NoRow
<1>2. \A r \in RecId : LedgerState(records[r]) = "none"
  BY <1>1, States
<1> QED
  BY <1>1, <1>2 DEF Init, Ledger!Init, Ledger!NoShift

\* Every behaviour of the punch clock and its corrections is one of the ledger.
THEOREM LedgerImplemented == ASSUME OnePunchAtATime PROVE CorrSpec => ImplementsLedger
<1>1. SInv /\ SInv' /\ [CorrNext]_allVars => [Ledger!Next]_(Ledger!vars)
  BY LedgerStep
<1> QED
  BY <1>1, LedgerInit, SerialInvariance, PTL DEF CorrSpec, ImplementsLedger, Ledger!Spec
=============================================================================
