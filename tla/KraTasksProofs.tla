---------------------------- MODULE KraTasksProofs ----------------------------
(***************************************************************************)
(* Assigned KRA tasks are safe for any number of users, assignments, days  *)
(* and requests in progress: nobody is told of what was not assigned, or  *)
(* twice of a delay, no occurrence goes back, and none is created for      *)
(* inactive days.                                                          *)
(***************************************************************************)
EXTENDS KraTasks, TLAPS

\* What a handler remembers is still true: the rows it will assign are free,
\* and the occurrence it has locked is one it may delay or complete.
MemoryOK(r) ==
    /\ r.pc = "assign" =>
          /\ \A u, v \in DOMAIN r.ids : r.ids[u] = r.ids[v] => u = v
          /\ \A u \in DOMAIN r.ids : asg[r.ids[u]].who = None
    /\ r.pc = "delay" => occ[r.of][r.period].status = "pending"
    /\ r.pc = "complete" => occ[r.of][r.period].status \in {"pending", "delayed"}

\* Two handlers do not assign the same row or work on the same occurrence.
Apart(q, r) ==
    /\ q.pc = "assign" /\ r.pc = "assign" => Range(q.ids) \cap Range(r.ids) = {}
    /\ q.pc \in {"delay", "complete"} /\ r.pc \in {"delay", "complete"} => q.of # r.of \/ q.period # r.period

Handlers ==
    /\ \A s \in Slot : MemoryOK(req[s])
    /\ \A s, t \in Slot : s # t => Apart(req[s], req[t])

\* Only what came due and was delayed is marked so.
DelayedBefore ==
    \A a \in AssignId, p \in Day : occ[a][p].status \in {"none", "pending"} => ~occ[a][p].was_delayed

IInv == KTypeOK /\ Handlers /\ DelayedBefore /\ NoticesAreDeserved

-----------------------------------------------------------------------------
(* Periods. *)

LEMMA Remainder == \A d \in Nat, w \in Nat \ {0} : d - (d % w) \in 0 .. d
BY Z3

LEMMA PeriodInDays ==
    ASSUME NEW f \in Frequency, NEW d \in Day
    PROVE  PeriodStart(f, d) \in Day
BY Remainder, KraAssumption DEF PeriodStart, Day

LEMMA MissingInRows ==
    ASSUME KTypeOK, NEW scope, NEW upto \in Day
    PROVE  Missing(scope, upto) \in Rows
<1>1. ASSUME NEW a \in AssignId PROVE Periods(def.freq, asg[a].start, upto) \subseteq Day
  <2>1. def.freq \in Frequency /\ \A d \in asg[a].start .. upto : d \in Day
    BY KraAssumption DEF KTypeOK, Day
  <2> QED
    BY <2>1, PeriodInDays DEF Periods
<1>2. ASSUME NEW S \in SUBSET Day PROVE Newest(S) \subseteq Day
  BY DEF Newest
<1>3. ASSUME NEW a \in AssignId PROVE Missing(scope, upto)[a] \in SUBSET Day
  BY <1>1, <1>2 DEF Missing
<1> QED
  BY <1>3 DEF Missing, Rows

\* Rows that exist are not touched, the others become pending.
LEMMA InsertedRows ==
    ASSUME KTypeOK, NEW rows
    PROVE  /\ Inserted(rows) \in [AssignId -> [Day -> Occurrence]]
           /\ \A a \in AssignId, p \in Day :
                 \/ Inserted(rows)[a][p] = occ[a][p]
                 \/ ~Exists(a, p) /\ Inserted(rows)[a][p] = [status |-> "pending", was_delayed |-> FALSE]
BY DEF KTypeOK, Inserted, NoOcc, Occurrence

-----------------------------------------------------------------------------
(* How the invariant survives a step. *)

LEMMA IdleOK == Idle \in Request /\ MemoryOK(Idle) /\ \A r : Apart(Idle, r) /\ Apart(r, Idle)
BY DEF Idle, Request, MemoryOK, Apart

\* A request begins.
LEMMA EnterStep ==
    ASSUME IInv, NEW s \in Slot, NEW r \in Request, MemoryOK(r),
           \A t \in Slot \ {s} : Apart(req[t], r) /\ Apart(r, req[t]),
           Enter(s, r), UNCHANGED <<today, def, live, asg, occ, told, delays, worked, gap>>
    PROVE  IInv'
<1>1. KTypeOK'
  BY DEF IInv, KTypeOK, Enter, Active
<1>2. \A t \in Slot : req'[t] = IF t = s THEN r ELSE req[t]
  BY DEF IInv, KTypeOK, Enter
<1>3. ASSUME NEW m, MemoryOK(m) PROVE MemoryOK(m)'
  BY <1>3 DEF MemoryOK
<1>4. Handlers'
  <2>1. ASSUME NEW t \in Slot PROVE MemoryOK(req[t])'
    BY <1>2 DEF IInv, Handlers, MemoryOK
  <2>2. ASSUME NEW t \in Slot, NEW u \in Slot, t # u PROVE Apart(req'[t], req'[u])
    BY <1>2, <2>2 DEF IInv, Handlers
  <2> QED
    BY <2>1, <2>2 DEF Handlers, Apart
<1>5. DelayedBefore' /\ NoticesAreDeserved'
  BY DEF IInv, DelayedBefore, NoticesAreDeserved
<1> QED
  BY <1>1, <1>4, <1>5 DEF IInv

\* A request commits, and what the others remember stays true.
LEMMA CommitStep ==
    ASSUME IInv, NEW s \in Slot, Leave(s), KTypeOK', DelayedBefore', NoticesAreDeserved',
           \A t \in Slot \ {s} : MemoryOK(req[t]) => MemoryOK(req[t])'
    PROVE  IInv'
<1>1. \A t \in Slot : req'[t] = IF t = s THEN Idle ELSE req[t]
  BY DEF IInv, KTypeOK, Leave
<1>2. ASSUME NEW t \in Slot PROVE MemoryOK(req[t])'
  <2>1. CASE t = s
    BY <1>1, <2>1 DEF MemoryOK, Idle
  <2>2. CASE t # s
    BY <1>1, <2>2 DEF IInv, Handlers
  <2> QED
    BY <2>1, <2>2
<1>3. ASSUME NEW t \in Slot, NEW u \in Slot, t # u PROVE Apart(req'[t], req'[u])
  BY <1>1, <1>3, IdleOK DEF IInv, Handlers
<1>4. Handlers'
  BY <1>2, <1>3 DEF Handlers, Apart
<1> QED
  BY <1>4 DEF IInv

-----------------------------------------------------------------------------
(* Requests begin. *)

LEMMA GenerateBegins ==
    ASSUME IInv, NEW s \in Slot, GenerateReads(s)
    PROVE  IInv'
<1>1. PICK upto \in Near, scope \in SUBSET AssignId : Reads(s, scope, upto)
  BY DEF GenerateReads
<1> DEFINE r == [pc |-> "generate", rows |-> Missing(scope, upto)]
<1>2. Missing(scope, upto) \in Rows
  BY <1>1, MissingInRows DEF Near, IInv
<1>3. r \in Request /\ MemoryOK(r) /\ \A q : Apart(r, q) /\ Apart(q, r)
  BY <1>2 DEF Request, MemoryOK, Apart
<1> QED
  BY <1>1, <1>3, EnterStep DEF Reads

LEMMA AssignBegins ==
    ASSUME IInv, NEW s \in Slot, AssignChecks(s)
    PROVE  IInv'
<1>0. PICK wanted \in SUBSET User, start \in Near :
        \E ids \in Injection({u \in wanted : Active(u) = {}}, Unused) :
           Enter(s, [pc |-> "assign", ids |-> ids, start |-> start])
  BY DEF AssignChecks
<1>1. PICK ids \in Injection({u \in wanted : Active(u) = {}}, Unused) :
        Enter(s, [pc |-> "assign", ids |-> ids, start |-> start])
  BY <1>0
<1> DEFINE r == [pc |-> "assign", ids |-> ids, start |-> start]
           U == {u \in wanted : Active(u) = {}}
<1>2. ids \in [U -> Unused] /\ (\A u, v \in U : ids[u] = ids[v] => u = v) /\ U \in SUBSET User
  BY DEF Injection, IsInjective
<1>3. r \in Request
  <2>1. ids \in UNION {[S -> AssignId] : S \in SUBSET User}
    <3>1. ids \in [U -> AssignId] /\ U \in SUBSET User
      BY <1>2 DEF Unused
    <3> HIDE DEF U
    <3> QED
      BY <3>1
  <2> QED
    BY <2>1 DEF Request, Near
<1>4. MemoryOK(r)
  BY <1>2 DEF MemoryOK, Unused
<1>5. ASSUME NEW t \in Slot PROVE Apart(req[t], r) /\ Apart(r, req[t])
  <2>1. CASE req[t].pc = "assign"
    <3>1. Range(req[t].ids) \subseteq Reserved
      BY <2>1 DEF Reserved
    <3>2. Range(ids) \cap Reserved = {}
      BY <1>2 DEF Range, Unused
    <3> QED
      BY <2>1, <3>1, <3>2 DEF Apart
  <2>2. CASE req[t].pc # "assign"
    BY <2>2 DEF Apart
  <2> QED
    BY <2>1, <2>2
<1> QED
  BY <1>1, <1>3, <1>4, <1>5, EnterStep DEF AssignChecks

LEMMA EndBegins ==
    ASSUME IInv, NEW s \in Slot, EndChecks(s)
    PROVE  IInv'
<1>1. PICK a \in AssignId : Enter(s, [pc |-> "end", of |-> a, rows |-> Missing({a}, today)])
  BY DEF EndChecks
<1> DEFINE r == [pc |-> "end", of |-> a, rows |-> Missing({a}, today)]
<1>2. Missing({a}, today) \in Rows
  BY MissingInRows, KraAssumption DEF IInv, KTypeOK, Day
<1>3. r \in Request /\ MemoryOK(r) /\ \A q : Apart(r, q) /\ Apart(q, r)
  BY <1>2 DEF Request, MemoryOK, Apart
<1> QED
  BY <1>1, <1>3, EnterStep DEF EndChecks

LEMMA UpdateBegins ==
    ASSUME IInv, NEW s \in Slot, UpdateChecks(s)
    PROVE  IInv'
<1>1. PICK active \in BOOLEAN, freq \in Frequency :
        Enter(s, [pc |-> "update", active |-> active, freq |-> freq, old |-> def,
                  rows |-> IF def.active /\ ~active THEN Missing(AssignId, today) ELSE NoRows,
                  restart |-> Restarted(active)])
  BY DEF UpdateChecks
<1> DEFINE rows == IF def.active /\ ~active THEN Missing(AssignId, today) ELSE NoRows
           r == [pc |-> "update", active |-> active, freq |-> freq, old |-> def,
                 rows |-> rows, restart |-> Restarted(active)]
<1>2. rows \in Rows
  <2>1. Missing(AssignId, today) \in Rows
    BY MissingInRows, KraAssumption DEF IInv, KTypeOK, Day
  <2> QED
    BY <2>1 DEF NoRows, Rows
<1>3. r \in Request /\ MemoryOK(r) /\ \A q : Apart(r, q) /\ Apart(q, r)
  BY <1>2 DEF Request, Restarted, IInv, KTypeOK, MemoryOK, Apart
<1> QED
  BY <1>1, <1>3, EnterStep DEF UpdateChecks

LEMMA WorkBegins ==
    ASSUME IInv, NEW s \in Slot, WorkChecks(s)
    PROVE  IInv'
<1>1. PICK a \in AssignId, p \in Day, pc \in {"delay", "complete"} :
        /\ Free(a, p)
        /\ pc = "delay" => occ[a][p].status = "pending"
        /\ pc = "complete" => occ[a][p].status \in {"pending", "delayed"}
        /\ Enter(s, [pc |-> pc, of |-> a, period |-> p])
  BY DEF WorkChecks
<1> DEFINE r == [pc |-> pc, of |-> a, period |-> p]
<1>2. r \in Request /\ MemoryOK(r)
  BY <1>1 DEF Request, MemoryOK
<1>3. \A t \in Slot : Apart(req[t], r) /\ Apart(r, req[t])
  BY <1>1 DEF Free, Apart
<1> QED
  BY <1>1, <1>2, <1>3, EnterStep DEF WorkChecks

-----------------------------------------------------------------------------
(* Requests commit. *)

\* Whatever creates the rows that are missing leaves the rest alone.
LEMMA InsertStep ==
    ASSUME IInv, NEW s \in Slot, NEW rows, occ' = Inserted(rows), Leave(s),
           today' = today, def' \in [active : BOOLEAN, freq : Frequency], worked' \in BOOLEAN,
           asg' \in [AssignId -> [who : User \cup {None}, start : Day, active : BOOLEAN]],
           \A a \in AssignId : asg'[a].who = asg[a].who /\ (asg'[a].active => asg[a].active),
           UNCHANGED <<live, told, delays, gap>>
    PROVE  IInv'
<1>1. /\ occ' \in [AssignId -> [Day -> Occurrence]]
      /\ \A a \in AssignId, p \in Day :
            \/ occ'[a][p] = occ[a][p]
            \/ ~Exists(a, p) /\ occ'[a][p] = [status |-> "pending", was_delayed |-> FALSE]
  BY InsertedRows DEF IInv
<1>2. KTypeOK'
  <2>1. req' \in [Slot -> Request]
    BY IdleOK DEF Leave, IInv, KTypeOK
  <2>2. \A a, b \in AssignId : asg'[a].active /\ asg'[b].active /\ asg'[a].who = asg'[b].who => a = b
    BY DEF IInv, KTypeOK
  <2> QED
    BY <1>1, <2>1, <2>2 DEF IInv, KTypeOK
<1>3. DelayedBefore' /\ NoticesAreDeserved'
  <2>1. ASSUME NEW a \in AssignId, NEW p \in Day PROVE occ'[a][p].was_delayed = occ[a][p].was_delayed
    <3>1. ~Exists(a, p) => occ[a][p].was_delayed = FALSE
      <4>1. occ[a][p].was_delayed \in BOOLEAN
        BY DEF IInv, KTypeOK, Occurrence
      <4> QED
        BY <4>1 DEF IInv, DelayedBefore, Exists
    <3>2. CASE occ'[a][p] = occ[a][p]
      BY <3>2
    <3>3. CASE ~Exists(a, p) /\ occ'[a][p] = [status |-> "pending", was_delayed |-> FALSE]
      <4>1. occ'[a][p].was_delayed = FALSE
        BY <3>3
      <4> QED
        BY <3>1, <3>3, <4>1, Zenon
    <3> QED
      BY <1>1, <3>2, <3>3
  <2>2. DelayedBefore'
    BY <1>1 DEF IInv, DelayedBefore
  <2>3. NoticesAreDeserved'
    BY <2>1 DEF IInv, NoticesAreDeserved
  <2> QED
    BY <2>2, <2>3
<1>4. ASSUME NEW t \in Slot, t # s, MemoryOK(req[t]) PROVE MemoryOK(req[t])'
  <2>1. req'[t] = req[t] /\ req[t] \in Request
    BY <1>4 DEF Leave, IInv, KTypeOK
  <2>2. CASE req[t].pc = "assign"
    <3>1. \A u \in DOMAIN req[t].ids : req[t].ids[u] \in AssignId
      BY <2>1, <2>2 DEF Request, Idle
    <3> QED
      BY <1>4, <2>1, <2>2, <3>1 DEF MemoryOK
  <2>3. CASE req[t].pc \in {"delay", "complete"}
    <3>1. req[t].of \in AssignId /\ req[t].period \in Day
      BY <2>1, <2>3 DEF Request, Idle
    <3> QED
      BY <1>1, <1>4, <2>1, <2>3, <3>1 DEF MemoryOK, Exists
  <2>4. CASE req[t].pc \notin {"assign", "delay", "complete"}
    BY <2>1, <2>4 DEF MemoryOK
  <2> QED
    BY <2>2, <2>3, <2>4
<1> QED
  BY <1>2, <1>3, <1>4, CommitStep

LEMMA GenerateCommits ==
    ASSUME IInv, NEW s \in Slot, GenerateSaves(s)
    PROVE  IInv'
BY InsertStep DEF GenerateSaves, IInv, KTypeOK

LEMMA EndCommits ==
    ASSUME IInv, NEW s \in Slot, EndSaves(s)
    PROVE  IInv'
<1> DEFINE Assigned == [who : User \cup {None}, start : Day, active : BOOLEAN]
<1>1. asg \in [AssignId -> Assigned] /\ def \in [active : BOOLEAN, freq : Frequency] /\ worked \in BOOLEAN
  BY DEF IInv, KTypeOK
<1>2. asg' = [asg EXCEPT ![req[s].of].active = FALSE]
  BY DEF EndSaves
<1>3. asg' \in [AssignId -> Assigned]
  <2>1. \A row \in Assigned : [row EXCEPT !.active = FALSE] \in Assigned
    OBVIOUS
  <2>2. asg' = [a \in AssignId |-> IF a = req[s].of THEN [asg[a] EXCEPT !.active = FALSE] ELSE asg[a]]
    BY <1>1, <1>2
  <2> HIDE DEF Assigned
  <2> QED
    BY <1>1, <2>1, <2>2
<1>4. \A a \in AssignId : asg'[a].who = asg[a].who /\ (asg'[a].active => asg[a].active)
  BY <1>1, <1>2
<1> QED
  BY <1>1, <1>3, <1>4, InsertStep DEF EndSaves

LEMMA UpdateCommits ==
    ASSUME IInv, NEW s \in Slot, UpdateSaves(s)
    PROVE  IInv'
<1>1. req[s] \in Request /\ req[s].pc = "update"
  BY DEF UpdateSaves, IInv, KTypeOK
<1>2. /\ req[s].active \in BOOLEAN /\ req[s].freq \in Frequency
  BY <1>1 DEF Request, Idle
<1>3. /\ def \in [active : BOOLEAN, freq : Frequency] /\ worked \in BOOLEAN
      /\ asg \in [AssignId -> [who : User \cup {None}, start : Day, active : BOOLEAN]]
  BY DEF IInv, KTypeOK
<1>4. def' \in [active : BOOLEAN, freq : Frequency] /\ worked' \in BOOLEAN
  BY <1>2, <1>3 DEF UpdateSaves, Changed
<1>5. today \in Day
  BY KraAssumption DEF IInv, KTypeOK, Day
<1>6. asg' = [a \in AssignId |-> IF a \in req[s].restart THEN [asg[a] EXCEPT !.start = today] ELSE asg[a]]
  BY DEF UpdateSaves
<1>7. /\ asg' \in [AssignId -> [who : User \cup {None}, start : Day, active : BOOLEAN]]
      /\ \A a \in AssignId : asg'[a].who = asg[a].who /\ (asg'[a].active => asg[a].active)
  BY <1>3, <1>5, <1>6
<1> QED
  BY <1>4, <1>7, InsertStep DEF UpdateSaves

\* The rows of an assignment go to the users who are still without one.
LEMMA AssignedRows ==
    ASSUME IInv, NEW s \in Slot, AssignSaves(s)
    PROVE  LET ids == req[s].ids  N == New(ids)
           IN  /\ N \subseteq DOMAIN ids /\ N \subseteq User
               /\ \A u \in N : ids[u] \in AssignId /\ asg[ids[u]].who = None /\ Active(u) = {}
               /\ \A u \in N : asg'[ids[u]] = [who |-> u, start |-> req[s].start, active |-> TRUE]
               /\ \A a \in AssignId : (\E u \in N : ids[u] = a) \/ asg'[a] = asg[a]
<1> DEFINE ids == req[s].ids
           N == New(ids)
<1>1. req[s] \in Request /\ req[s].pc = "assign" /\ MemoryOK(req[s])
  BY DEF AssignSaves, IInv, KTypeOK, Handlers
<1>2. ids \in UNION {[S -> AssignId] : S \in SUBSET User} /\ req[s].start \in Day
  BY <1>1 DEF Request, Idle
<1>3. PICK S \in SUBSET User : ids \in [S -> AssignId]
  BY <1>2
<1>4. N \subseteq DOMAIN ids /\ N \subseteq User /\ \A u \in N : ids[u] \in AssignId
  BY <1>3 DEF New
<1>5. \A u \in N : asg[ids[u]].who = None /\ Active(u) = {}
  BY <1>1, <1>3 DEF New, MemoryOK
<1>6. ASSUME NEW u \in N PROVE (CHOOSE v \in N : ids[v] = ids[u]) = u
  BY <1>1, <1>3, <1>4 DEF MemoryOK
<1>7. asg' = [a \in AssignId |->
                IF \E u \in N : ids[u] = a
                THEN [who |-> CHOOSE u \in N : ids[u] = a, start |-> req[s].start, active |-> TRUE]
                ELSE asg[a]]
  BY DEF AssignSaves, AssignTo
<1> HIDE DEF N, ids
<1>8. \A u \in N : asg'[ids[u]] = [who |-> u, start |-> req[s].start, active |-> TRUE]
  BY <1>4, <1>6, <1>7
<1>9. \A a \in AssignId : (\E u \in N : ids[u] = a) \/ asg'[a] = asg[a]
  BY <1>7
<1> QED
  BY <1>4, <1>5, <1>8, <1>9 DEF N, ids

LEMMA AssignCommits ==
    ASSUME IInv, NEW s \in Slot, AssignSaves(s)
    PROVE  IInv'
<1> DEFINE ids == req[s].ids
           N == New(ids)
<1>1. /\ N \subseteq DOMAIN ids /\ N \subseteq User
      /\ \A u \in N : ids[u] \in AssignId /\ asg[ids[u]].who = None /\ Active(u) = {}
      /\ \A u \in N : asg'[ids[u]] = [who |-> u, start |-> req[s].start, active |-> TRUE]
      /\ \A a \in AssignId : (\E u \in N : ids[u] = a) \/ asg'[a] = asg[a]
  BY AssignedRows
<1>2. req[s] \in Request /\ req[s].pc = "assign"
  BY DEF AssignSaves, IInv, KTypeOK
<1>3. req[s].start \in Day
  BY <1>2 DEF Request, Idle
<1>4. told' \subseteq told \cup {ids[u] : u \in N} /\ Leave(s) /\ UNCHANGED <<today, def, live, occ, delays, worked, gap>>
  BY DEF AssignSaves, Reached
<1>5. DOMAIN asg' = AssignId
  BY DEF AssignSaves, AssignTo
<1>6. asg' = [a \in AssignId |-> asg'[a]]
  BY DEF AssignSaves, AssignTo
<1> HIDE DEF N, ids
<1>7. asg' \in [AssignId -> [who : User \cup {None}, start : Day, active : BOOLEAN]]
  <2>1. ASSUME NEW a \in AssignId PROVE asg'[a] \in [who : User \cup {None}, start : Day, active : BOOLEAN]
    <3>1. CASE asg'[a] = asg[a]
      BY <3>1 DEF IInv, KTypeOK
    <3>2. ASSUME NEW u \in N, ids[u] = a PROVE asg'[a] \in [who : User \cup {None}, start : Day, active : BOOLEAN]
      <4>1. u \in User /\ asg'[a] = [who |-> u, start |-> req[s].start, active |-> TRUE]
        BY <1>1, <3>2
      <4> QED
        BY <1>3, <4>1
    <3> QED
      BY <1>1, <3>1, <3>2
  <2> QED
    BY <1>6, <2>1
<1>8. \A a, b \in AssignId : asg'[a].active /\ asg'[b].active /\ asg'[a].who = asg'[b].who => a = b
  <2>1. SUFFICES ASSUME NEW a \in AssignId, NEW b \in AssignId, asg'[a].active, asg'[b].active,
                        asg'[a].who = asg'[b].who
                 PROVE  a = b
    OBVIOUS
  <2>2. ASSUME NEW u \in N, NEW c \in AssignId, ids[u] = c PROVE asg'[c].who = u
    <3>1. asg'[c] = [who |-> u, start |-> req[s].start, active |-> TRUE]
      BY <1>1, <2>2
    <3> QED
      BY <3>1
  <2>3. ASSUME NEW u \in N, NEW c \in AssignId, NEW d \in AssignId, ids[u] = c, asg'[d] = asg[d],
               asg'[d].active, asg'[c].who = asg'[d].who
        PROVE  FALSE
    <3>1. asg[d].active /\ asg[d].who = u
      BY <2>2, <2>3
    <3> QED
      BY <1>1, <3>1 DEF Active
  <2>4. CASE asg'[a] = asg[a] /\ asg'[b] = asg[b]
    BY <2>1, <2>4 DEF IInv, KTypeOK
  <2>5. ASSUME NEW u \in N, NEW v \in N, ids[u] = a, ids[v] = b PROVE a = b
    BY <2>1, <2>2, <2>5
  <2> QED
    BY <1>1, <2>1, <2>3, <2>4, <2>5
<1>9. told' \subseteq AssignId
  BY <1>1, <1>4 DEF IInv, KTypeOK
<1>10. KTypeOK'
  <2>1. req' \in [Slot -> Request]
    BY <1>4, IdleOK DEF Leave, IInv, KTypeOK
  <2> QED
    BY <1>4, <1>7, <1>8, <1>9, <2>1 DEF IInv, KTypeOK
<1>11. DelayedBefore'
  BY <1>4 DEF IInv, DelayedBefore
<1>12. NoticesAreDeserved'
  <2>1. ASSUME NEW a \in AssignId, a \in told' PROVE asg'[a].who # None
    <3>1. ASSUME NEW u \in N, ids[u] = a PROVE asg'[a].who # None
      <4>1. u \in User /\ asg'[a] = [who |-> u, start |-> req[s].start, active |-> TRUE]
        BY <1>1, <3>1
      <4> QED
        BY <4>1, KraAssumption
    <3>2. CASE ~ \E u \in N : ids[u] = a
      <4>1. a \in told /\ asg'[a] = asg[a]
        BY <1>1, <1>4, <2>1, <3>2
      <4> QED
        BY <4>1 DEF IInv, NoticesAreDeserved
    <3> QED
      BY <3>1, <3>2
  <2> QED
    BY <1>4, <2>1 DEF IInv, NoticesAreDeserved
<1>13. ASSUME NEW t \in Slot \ {s}, MemoryOK(req[t]) PROVE MemoryOK(req[t])'
  <2>1. req'[t] = req[t] /\ req[t] \in Request /\ Apart(req[s], req[t])
    BY <1>4 DEF Leave, IInv, KTypeOK, Handlers
  <2>2. CASE req[t].pc = "assign"
    <3>1. \A u \in DOMAIN req[t].ids : req[t].ids[u] \in AssignId
      BY <2>1, <2>2 DEF Request, Idle
    <3>2. ASSUME NEW u \in DOMAIN req[t].ids PROVE asg'[req[t].ids[u]].who = None
      <4>1. \A v \in N : ids[v] # req[t].ids[u]
        BY <1>1, <1>2, <2>1, <2>2, <3>2 DEF Apart, Range, ids
      <4> QED
        BY <1>1, <1>13, <2>2, <3>1, <3>2, <4>1 DEF MemoryOK
    <3> QED
      BY <1>13, <2>1, <2>2, <3>2 DEF MemoryOK
  <2>3. CASE req[t].pc # "assign"
    BY <1>4, <1>13, <2>1, <2>3 DEF MemoryOK
  <2> QED
    BY <2>2, <2>3
<1> QED
  BY <1>4, <1>10, <1>11, <1>12, <1>13, CommitStep

\* One occurrence moves on, which only this handler has locked.
LEMMA WorkStep ==
    ASSUME IInv, NEW s \in Slot, NEW o \in Occurrence, req[s].pc \in {"delay", "complete"},
           o.status \in {"delayed", "completed"}, Leave(s),
           occ' = [occ EXCEPT ![req[s].of][req[s].period] = o],
           UNCHANGED <<today, def, live, asg, told, worked, gap>>,
           delays' \in [AssignId -> [Day -> Nat]], NoticesAreDeserved'
    PROVE  IInv'
<1>1. req[s] \in Request
  BY DEF IInv, KTypeOK
<1>2. req[s].of \in AssignId /\ req[s].period \in Day
  BY <1>1 DEF Request, Idle
<1>3. \A a \in AssignId, p \in Day :
        occ'[a][p] = IF a = req[s].of /\ p = req[s].period THEN o ELSE occ[a][p]
  BY <1>2 DEF IInv, KTypeOK
<1>4. KTypeOK'
  <2>1. req' \in [Slot -> Request]
    BY IdleOK DEF Leave, IInv, KTypeOK
  <2>2. occ' \in [AssignId -> [Day -> Occurrence]]
    BY <1>2 DEF IInv, KTypeOK
  <2> QED
    BY <2>1, <2>2 DEF IInv, KTypeOK
<1>5. DelayedBefore'
  BY <1>3 DEF IInv, DelayedBefore
<1>6. ASSUME NEW t \in Slot \ {s}, MemoryOK(req[t]) PROVE MemoryOK(req[t])'
  <2>1. req'[t] = req[t] /\ req[t] \in Request /\ Apart(req[s], req[t])
    BY DEF Leave, IInv, KTypeOK, Handlers
  <2>2. CASE req[t].pc \in {"delay", "complete"}
    <3>1. req[t].of \in AssignId /\ req[t].period \in Day
      BY <2>1, <2>2 DEF Request, Idle
    <3>2. req[t].of # req[s].of \/ req[t].period # req[s].period
      BY <2>1, <2>2 DEF Apart
    <3>3. occ'[req[t].of][req[t].period] = occ[req[t].of][req[t].period]
      BY <1>3, <3>1, <3>2
    <3> QED
      BY <1>6, <2>1, <2>2, <3>3 DEF MemoryOK
  <2>3. CASE req[t].pc \notin {"delay", "complete"}
    BY <1>6, <2>1, <2>3 DEF MemoryOK
  <2> QED
    BY <2>2, <2>3
<1> QED
  BY <1>4, <1>5, <1>6, CommitStep

LEMMA Locked ==
    ASSUME IInv, NEW s \in Slot, req[s].pc \in {"delay", "complete"}
    PROVE  /\ req[s].of \in AssignId /\ req[s].period \in Day
           /\ occ[req[s].of][req[s].period] \in Occurrence
           /\ req[s].pc = "delay" => occ[req[s].of][req[s].period].status = "pending"
           /\ req[s].pc = "complete" => occ[req[s].of][req[s].period].status \in {"pending", "delayed"}
<1>1. req[s] \in Request /\ MemoryOK(req[s])
  BY DEF IInv, KTypeOK, Handlers
<1>2. req[s].of \in AssignId /\ req[s].period \in Day
  BY <1>1 DEF Request, Idle
<1> QED
  BY <1>1, <1>2 DEF MemoryOK, IInv, KTypeOK

LEMMA CompleteCommits ==
    ASSUME IInv, NEW s \in Slot, CompleteSaves(s)
    PROVE  IInv'
<1> DEFINE a == req[s].of
           p == req[s].period
           o == [occ[a][p] EXCEPT !.status = "completed"]
<1>1. a \in AssignId /\ p \in Day /\ occ[a][p] \in Occurrence /\ req[s].pc = "complete"
  BY Locked DEF CompleteSaves
<1>2. o \in Occurrence /\ o.status = "completed" /\ o.was_delayed = occ[a][p].was_delayed
  BY <1>1 DEF Occurrence
<1>3. occ' = [occ EXCEPT ![a][p] = o]
  BY <1>1 DEF CompleteSaves, IInv, KTypeOK
<1>4. NoticesAreDeserved'
  <2>1. \A b \in AssignId, q \in Day : occ'[b][q].was_delayed = occ[b][q].was_delayed
    BY <1>1, <1>2, <1>3 DEF IInv, KTypeOK
  <2>2. UNCHANGED <<asg, told, delays>> /\ NoticesAreDeserved
    BY DEF CompleteSaves, IInv
  <2>3. ASSUME NEW b \in AssignId, NEW q \in Day
        PROVE  delays'[b][q] =< IF occ'[b][q].was_delayed THEN 1 ELSE 0
    BY <2>1, <2>2 DEF NoticesAreDeserved
  <2> QED
    BY <2>2, <2>3 DEF NoticesAreDeserved
<1> QED
  BY <1>1, <1>2, <1>3, <1>4, WorkStep DEF CompleteSaves, IInv, KTypeOK

LEMMA DelayCommits ==
    ASSUME IInv, NEW s \in Slot, DelaySaves(s)
    PROVE  IInv'
<1> DEFINE a == req[s].of
           p == req[s].period
           o == [status |-> "delayed", was_delayed |-> TRUE]
<1>1. a \in AssignId /\ p \in Day /\ occ[a][p].status = "pending" /\ req[s].pc = "delay"
  BY Locked DEF DelaySaves
<1>2. ~occ[a][p].was_delayed
  BY <1>1 DEF IInv, DelayedBefore
<1>3. o \in Occurrence /\ o.status = "delayed" /\ o.was_delayed
  BY DEF Occurrence
<1>4. delays[a][p] = 0
  BY <1>1, <1>2 DEF IInv, KTypeOK, NoticesAreDeserved
<1>5. /\ \E made \in {0, 1} : delays' = [delays EXCEPT ![a][p] = delays[a][p] + made]
      /\ occ' = [occ EXCEPT ![a][p] = o]
  BY DEF DelaySaves
<1>6. /\ delays' \in [AssignId -> [Day -> Nat]]
      /\ \A b \in AssignId, q \in Day : IF b = a /\ q = p THEN delays'[b][q] =< 1 ELSE delays'[b][q] = delays[b][q]
  <2>1. PICK made \in {0, 1} : delays' = [delays EXCEPT ![a][p] = delays[a][p] + made]
    BY <1>5
  <2> QED
    BY <1>1, <1>4, <2>1 DEF IInv, KTypeOK
<1>7. \A b \in AssignId, q \in Day : occ'[b][q] = IF b = a /\ q = p THEN o ELSE occ[b][q]
  BY <1>1, <1>5 DEF IInv, KTypeOK
<1>8. NoticesAreDeserved'
  BY <1>3, <1>6, <1>7 DEF DelaySaves, IInv, NoticesAreDeserved
<1> QED
  BY <1>1, <1>3, <1>5, <1>6, <1>8, WorkStep DEF DelaySaves

-----------------------------------------------------------------------------
(* The invariant. *)

\* Users come and go, and midnight passes.
LEMMA QuietStep ==
    ASSUME IInv, KTypeOK', UNCHANGED <<asg, occ, told, delays, req>>
    PROVE  IInv'
BY DEF IInv, Handlers, MemoryOK, Apart, DelayedBefore, NoticesAreDeserved

LEMMA Step ==
    ASSUME IInv, [KNext]_kvars
    PROVE  IInv'
<1>1. ASSUME NEW s \in Slot, Saves(s) PROVE IInv'
  BY <1>1, GenerateCommits, AssignCommits, EndCommits, UpdateCommits, DelayCommits, CompleteCommits DEF Saves
<1>2. ASSUME NEW u \in User, SetLive(u) PROVE IInv'
  <2>1. live' \in [User -> BOOLEAN]
    BY <1>2 DEF SetLive, IInv, KTypeOK
  <2> QED
    BY <1>2, <2>1, QuietStep DEF SetLive, IInv, KTypeOK
<1>3. CASE Midnight
  <2>1. today' \in 0 .. LastDay /\ today \in Day
    BY <1>3, KraAssumption DEF Midnight, IInv, KTypeOK, Day
  <2>2. gap' \in [AssignId -> SUBSET Day] /\ worked' \in BOOLEAN
    BY <1>3, <2>1 DEF Midnight, IInv, KTypeOK
  <2> QED
    BY <1>3, <2>1, <2>2, QuietStep DEF Midnight, IInv, KTypeOK
<1>4. CASE UNCHANGED kvars
  BY <1>4, QuietStep DEF kvars, IInv, KTypeOK
<1> QED
  BY <1>1, <1>2, <1>3, <1>4, GenerateBegins, AssignBegins, EndBegins, UpdateBegins, WorkBegins DEF KNext

LEMMA Initially == KInit => IInv
<1> SUFFICES ASSUME KInit PROVE IInv
  OBVIOUS
<1>1. KTypeOK
  <2>1. /\ today \in 0 .. LastDay /\ told \subseteq AssignId
        /\ def \in [active : BOOLEAN, freq : Frequency]
    <3>1. today \in 0 .. LastDay /\ told \subseteq AssignId
      BY KraAssumption DEF KInit
    <3>2. \E f \in Frequency : def = [active |-> TRUE, freq |-> f]
      BY DEF KInit
    <3> QED
      BY <3>1, <3>2
  <2>2. live \in [User -> BOOLEAN] /\ worked \in BOOLEAN /\ gap \in [AssignId -> SUBSET Day]
    BY DEF KInit
  <2>3. NoRow \in [who : User \cup {None}, start : Day, active : BOOLEAN]
    BY KraAssumption DEF NoRow, Day
  <2>4. /\ asg \in [AssignId -> [who : User \cup {None}, start : Day, active : BOOLEAN]]
        /\ \A a \in AssignId : asg[a] = NoRow
    BY <2>3 DEF KInit
  <2>5. \A a \in AssignId : ~asg[a].active
    BY <2>4 DEF NoRow
  <2>6. NoOcc \in Occurrence
    BY DEF NoOcc, Occurrence
  <2>7. occ \in [AssignId -> [Day -> Occurrence]]
    BY <2>6 DEF KInit
  <2>8. delays \in [AssignId -> [Day -> Nat]]
    BY DEF KInit
  <2>9. req \in [Slot -> Request]
    BY IdleOK DEF KInit
  <2> QED
    BY <2>1, <2>2, <2>4, <2>5, <2>7, <2>8, <2>9 DEF KTypeOK
<1>2. Handlers
  BY IdleOK DEF KInit, Handlers
<1>3. DelayedBefore /\ NoticesAreDeserved
  BY DEF KInit, DelayedBefore, NoticesAreDeserved, NoRow, NoOcc
<1> QED
  BY <1>1, <1>2, <1>3 DEF IInv

\* What handlers remember stays true, and no notification is false.
THEOREM Invariance == KSpec => []IInv
<1>1. IInv /\ [KNext]_kvars => IInv'
  BY Step
<1> QED
  BY <1>1, Initially, PTL DEF KSpec

\* Types, and one active assignment of a user (uq_kra_assignment_active).
THEOREM TypeCorrect == KSpec => []KTypeOK
<1>1. IInv => KTypeOK
  BY DEF IInv
<1> QED
  BY <1>1, Invariance, PTL

\* Whichever notifications are lost, no user is told of an assignment that was
\* not made, and the managers never twice of a delay, nor of none.
THEOREM NoticesDeserved == KSpec => []NoticesAreDeserved
<1>1. IInv => NoticesAreDeserved
  BY DEF IInv
<1> QED
  BY <1>1, Invariance, PTL

\* What changes occurrences.
LEMMA WhoWrites ==
    ASSUME [KNext]_kvars
    PROVE  \/ UNCHANGED occ
           \/ \E s \in Slot : \/ occ' = Inserted(req[s].rows)
                             \/ CompleteSaves(s) \/ DelaySaves(s)
BY DEF KNext, kvars, Saves, GenerateReads, Reads, AssignChecks, EndChecks, UpdateChecks, WorkChecks,
       GenerateSaves, AssignSaves, EndSaves, UpdateSaves, SetLive, Midnight

LEMMA OccurrencesKept ==
    ASSUME IInv, [KNext]_kvars
    PROVE  \A a \in AssignId, p \in Day : /\ Rank(occ'[a][p]) >= Rank(occ[a][p])
                                          /\ occ[a][p].was_delayed => occ'[a][p].was_delayed
<1> DEFINE Kept(a, p) == /\ Rank(occ'[a][p]) >= Rank(occ[a][p])
                         /\ occ[a][p].was_delayed => occ'[a][p].was_delayed
<1>1. ASSUME NEW a \in AssignId, NEW p \in Day PROVE Kept(a, p)
  <2>1. occ[a][p] \in Occurrence
    BY <1>1 DEF IInv, KTypeOK
  <2>2. CASE occ'[a][p] = occ[a][p]
    BY <2>1, <2>2 DEF Rank, Occurrence
  <2>3. ASSUME NEW s \in Slot, occ' = Inserted(req[s].rows) PROVE Kept(a, p)
    <3>1. CASE ~Exists(a, p) /\ occ'[a][p] = [status |-> "pending", was_delayed |-> FALSE]
      <4>1. occ[a][p].status = "none" /\ ~occ[a][p].was_delayed
        BY <1>1, <3>1 DEF Exists, IInv, DelayedBefore
      <4> QED
        BY <3>1, <4>1 DEF Rank
    <3> QED
      BY <1>1, <2>2, <2>3, <3>1, InsertedRows DEF IInv
  <2>4. ASSUME NEW s \in Slot, CompleteSaves(s), occ'[a][p] # occ[a][p] PROVE Kept(a, p)
    <3>1. req[s].of = a /\ req[s].period = p
      BY <1>1, <2>4, Locked DEF CompleteSaves, IInv, KTypeOK
    <3>2. occ'[a][p] = [occ[a][p] EXCEPT !.status = "completed"]
      BY <1>1, <2>4, <3>1 DEF CompleteSaves, IInv, KTypeOK
    <3> QED
      BY <2>1, <3>2 DEF Rank, Occurrence
  <2>5. ASSUME NEW s \in Slot, DelaySaves(s), occ'[a][p] # occ[a][p] PROVE Kept(a, p)
    <3>1. req[s].of = a /\ req[s].period = p /\ occ[a][p].status = "pending"
      BY <1>1, <2>5, Locked DEF DelaySaves, IInv, KTypeOK
    <3>2. occ'[a][p] = [status |-> "delayed", was_delayed |-> TRUE]
      BY <1>1, <2>5, <3>1 DEF DelaySaves, IInv, KTypeOK
    <3> QED
      BY <3>1, <3>2 DEF Rank
  <2> QED
    BY <1>1, <2>2, <2>3, <2>4, <2>5, WhoWrites
<1> QED
  BY <1>1

\* An occurrence never goes back, however requests overlap.
THEOREM WorkStays == KSpec => WorkNeverUndone
<1>1. IInv /\ [KNext]_kvars =>
        [\A a \in AssignId, p \in Day : /\ Rank(occ'[a][p]) >= Rank(occ[a][p])
                                        /\ occ[a][p].was_delayed => occ'[a][p].was_delayed]_kvars
  BY OccurrencesKept
<1> QED
  BY <1>1, Invariance, PTL DEF KSpec, WorkNeverUndone

-----------------------------------------------------------------------------
(* Days a definition was inactive are not missed work. *)

\* A request that will reactivate the definition restarts every assignment with
\* such days, and one that will change the frequency began before any such day.
UpdateOK(r) ==
    r.pc = "update" =>
        /\ r.active /\ ~r.old.active =>
              \A a \in AssignId : asg[a].active /\ gap[a] # {} => a \in r.restart
        /\ r.freq # r.old.freq => \A a \in AssignId : gap[a] = {}

\* The period has a day on which the definition was not inactive.
Workable(a, p) == \E d \in Day \ gap[a] : PeriodStart(def.freq, d) = PeriodStart(def.freq, p)

RowsOK(r) ==
    r.pc \in {"generate", "end", "update"} => \A a \in AssignId : \A p \in r.rows[a] : Workable(a, p)

GapInv ==
    /\ def.active => worked
    /\ \A a \in AssignId :
          /\ \A d \in gap[a] : d < today
          /\ asg[a].who = None => gap[a] = {}
          /\ def.active /\ asg[a].active => \A d \in gap[a] : d < asg[a].start
    /\ \A s \in Slot : UpdateOK(req[s]) /\ RowsOK(req[s])

LEMMA Multiple == \A q \in Nat, w \in Nat \ {0} : (w * q) % w = 0
BY Z3

LEMMA RemainderOfPeriod == \A d \in Nat, w \in Nat \ {0} : (d - (d % w)) % w = 0
<1>1. \A d \in Nat, w \in Nat \ {0} : d - (d % w) = w * (d \div w) /\ d \div w \in Nat
  BY Z3
<1> QED
  BY <1>1, Multiple

LEMMA PeriodOfStart ==
    ASSUME NEW f \in Frequency, NEW d \in Day
    PROVE  PeriodStart(f, PeriodStart(f, d)) = PeriodStart(f, d)
<1>1. d \in Nat /\ WeekLength \in Nat \ {0} /\ d % WeekLength \in Nat
  BY KraAssumption DEF Day
<1>2. (d - (d % WeekLength)) % WeekLength = 0 /\ d - (d % WeekLength) \in Nat
  BY <1>1, Remainder, RemainderOfPeriod
<1> QED
  BY <1>1, <1>2 DEF PeriodStart

\* Rows are created only from the start of an active assignment on.
LEMMA MissingIsWorkable ==
    ASSUME IInv, GapInv, NEW scope, NEW upto \in Day, NEW a \in AssignId, NEW p \in Missing(scope, upto)[a]
    PROVE  Workable(a, p)
<1>1. Generated(a) /\ p \in Periods(def.freq, asg[a].start, upto)
  BY DEF Missing, Newest
<1>2. PICK d \in asg[a].start .. upto : p = PeriodStart(def.freq, d)
  BY <1>1 DEF Periods
<1>3. d \in Day /\ def.freq \in Frequency /\ asg[a].start \in Day
  BY KraAssumption DEF IInv, KTypeOK, Day
<1>4. d \notin gap[a]
  BY <1>1, <1>3 DEF GapInv, Generated, Day
<1> QED
  BY <1>2, <1>3, <1>4, PeriodOfStart DEF Workable

LEMMA GapEnterStep ==
    ASSUME IInv, GapInv, NEW s \in Slot, NEW r \in Request, UpdateOK(r), RowsOK(r),
           Enter(s, r), UNCHANGED <<today, def, live, asg, occ, told, delays, worked, gap>>
    PROVE  GapInv'
<1>1. \A t \in Slot : req'[t] = IF t = s THEN r ELSE req[t]
  BY DEF IInv, KTypeOK, Enter
<1>2. ASSUME NEW m, UpdateOK(m), RowsOK(m) PROVE UpdateOK(m)' /\ RowsOK(m)'
  BY <1>2 DEF UpdateOK, RowsOK, Workable
<1>3. \A t \in Slot : UpdateOK(req[t])' /\ RowsOK(req[t])'
  BY <1>1, <1>2 DEF GapInv, UpdateOK, RowsOK, Workable
<1> QED
  BY <1>3 DEF GapInv

LEMMA GapBegins ==
    ASSUME IInv, GapInv, NEW s \in Slot,
           GenerateReads(s) \/ AssignChecks(s) \/ EndChecks(s) \/ UpdateChecks(s) \/ WorkChecks(s)
    PROVE  GapInv'
<1>0. today \in Day /\ Near \subseteq Day
  BY KraAssumption DEF IInv, KTypeOK, Day, Near
<1>1. CASE GenerateReads(s)
  <2>1. PICK upto \in Near, scope \in SUBSET AssignId : Reads(s, scope, upto)
    BY <1>1 DEF GenerateReads
  <2> DEFINE r == [pc |-> "generate", rows |-> Missing(scope, upto)]
  <2>2. r \in Request /\ UpdateOK(r) /\ RowsOK(r)
    BY <1>0, MissingInRows, MissingIsWorkable DEF Request, UpdateOK, RowsOK, IInv
  <2> QED
    BY <2>1, <2>2, GapEnterStep DEF Reads
<1>2. CASE AssignChecks(s)
  <2>1. PICK ids, start : Enter(s, [pc |-> "assign", ids |-> ids, start |-> start])
    BY <1>2 DEF AssignChecks
  <2> DEFINE r == [pc |-> "assign", ids |-> ids, start |-> start]
  <2>2. req'[s] = r /\ \A t \in Slot : t # s => req'[t] = req[t]
    BY <2>1 DEF Enter, IInv, KTypeOK
  <2>3. UpdateOK(r)' /\ RowsOK(r)'
    BY DEF UpdateOK, RowsOK
  <2>4. ASSUME NEW m, UpdateOK(m), RowsOK(m) PROVE UpdateOK(m)' /\ RowsOK(m)'
    BY <1>2, <2>4 DEF AssignChecks, UpdateOK, RowsOK, Workable
  <2>5. ASSUME NEW t \in Slot PROVE UpdateOK(req[t])' /\ RowsOK(req[t])'
    BY <2>2, <2>3, <2>4 DEF GapInv, UpdateOK, RowsOK, Workable
  <2> QED
    BY <1>2, <2>5 DEF AssignChecks, GapInv
<1>3. CASE EndChecks(s)
  <2>1. PICK a \in AssignId : Enter(s, [pc |-> "end", of |-> a, rows |-> Missing({a}, today)])
    BY <1>3 DEF EndChecks
  <2> DEFINE r == [pc |-> "end", of |-> a, rows |-> Missing({a}, today)]
  <2>2. r \in Request /\ UpdateOK(r) /\ RowsOK(r)
    BY <1>0, MissingInRows, MissingIsWorkable DEF Request, UpdateOK, RowsOK, IInv
  <2> QED
    BY <1>3, <2>1, <2>2, GapEnterStep DEF EndChecks
<1>4. CASE UpdateChecks(s)
  <2> DEFINE rows(active) == IF def.active /\ ~active THEN Missing(AssignId, today) ELSE NoRows
             r(active, freq) == [pc |-> "update", active |-> active, freq |-> freq, old |-> def,
                                 rows |-> rows(active), restart |-> Restarted(active)]
  <2>1. PICK active \in BOOLEAN, freq \in Frequency :
          /\ freq # def.freq => \A a \in AssignId : asg[a].who = None
          /\ Enter(s, r(active, freq))
    BY <1>4 DEF UpdateChecks
  <2>2. rows(active) \in Rows /\ \A a \in AssignId : \A p \in rows(active)[a] : Workable(a, p)
    BY <1>0, MissingInRows, MissingIsWorkable DEF IInv, NoRows, Rows
  <2> HIDE DEF rows
  <2>3. r(active, freq) \in Request
    BY <2>2 DEF Request, Restarted, IInv, KTypeOK
  <2>4. UpdateOK(r(active, freq)) /\ RowsOK(r(active, freq))
    BY <2>1, <2>2 DEF UpdateOK, RowsOK, Restarted, GapInv
  <2> HIDE DEF r
  <2> QED
    BY <1>4, <2>1, <2>3, <2>4, GapEnterStep DEF UpdateChecks
<1>5. CASE WorkChecks(s)
  <2>1. PICK a \in AssignId, p \in Day, pc \in {"delay", "complete"} :
          Enter(s, [pc |-> pc, of |-> a, period |-> p])
    BY <1>5 DEF WorkChecks
  <2>2. [pc |-> pc, of |-> a, period |-> p] \in Request
    BY DEF Request
  <2>3. UpdateOK([pc |-> pc, of |-> a, period |-> p]) /\ RowsOK([pc |-> pc, of |-> a, period |-> p])
    BY DEF UpdateOK, RowsOK
  <2> QED
    BY <1>5, <2>1, <2>2, <2>3, GapEnterStep DEF WorkChecks
<1> QED
  BY <1>1, <1>2, <1>3, <1>4, <1>5

\* A request commits: the other requests stay right.
LEMMA GapCommitStep ==
    ASSUME IInv, GapInv, NEW s \in Slot, Leave(s), UNCHANGED <<today, gap>>, def'.active => worked',
           def'.freq = def.freq \/ \A a \in AssignId : gap[a] = {},
           \A a \in AssignId :
              gap[a] # {} => /\ asg'[a].who # None
                             /\ asg'[a].active => asg[a].active
                             /\ def'.active /\ asg'[a].active => \A d \in gap[a] : d < asg'[a].start
    PROVE  GapInv'
<1>1. \A t \in Slot : req'[t] = IF t = s THEN Idle ELSE req[t]
  BY DEF IInv, KTypeOK, Leave
<1>2. ASSUME NEW t \in Slot, t # s PROVE UpdateOK(req[t])' /\ RowsOK(req[t])'
  <2>1. req'[t] = req[t] /\ UpdateOK(req[t]) /\ RowsOK(req[t]) /\ req[t] \in Request
    BY <1>1, <1>2 DEF GapInv, IInv, KTypeOK
  <2>2. UpdateOK(req[t])'
    BY <2>1 DEF UpdateOK
  <2>3. CASE req[t].pc \in {"generate", "end", "update"}
    <3>1. req[t].rows \in Rows
      BY <2>1, <2>3 DEF Request, Idle
    <3>2. ASSUME NEW a \in AssignId, NEW p \in req[t].rows[a] PROVE Workable(a, p)'
      <4>1. Workable(a, p) /\ p \in Day
        BY <2>1, <2>3, <3>1 DEF RowsOK, Rows
      <4> QED
        BY <4>1 DEF Workable
    <3> QED
      BY <2>1, <2>2, <3>2 DEF RowsOK
  <2>4. CASE req[t].pc \notin {"generate", "end", "update"}
    BY <2>1, <2>2, <2>4 DEF RowsOK
  <2> QED
    BY <2>3, <2>4
<1>3. UpdateOK(req[s])' /\ RowsOK(req[s])'
  BY <1>1 DEF UpdateOK, RowsOK, Idle
<1> QED
  BY <1>2, <1>3 DEF GapInv

\* Whoever reactivates the definition restarts the assignments it found.
LEMMA GapUpdates ==
    ASSUME IInv, GapInv, NEW s \in Slot, UpdateSaves(s)
    PROVE  GapInv'
<1>1. req[s] \in Request /\ req[s].pc = "update" /\ UpdateOK(req[s])
  BY DEF UpdateSaves, IInv, KTypeOK, GapInv
<1>2. /\ req[s].active \in BOOLEAN /\ req[s].old.active \in BOOLEAN
  BY <1>1 DEF Request, Idle
<1>3. /\ def'.active = Changed(req[s].old.active, req[s].active, def.active)
      /\ def'.freq = Changed(req[s].old.freq, req[s].freq, def.freq)
      /\ def.active \in BOOLEAN
  BY DEF UpdateSaves, IInv, KTypeOK
<1>4. def'.freq = def.freq \/ \A a \in AssignId : gap[a] = {}
  BY <1>1, <1>3 DEF Changed, UpdateOK
<1>5. ASSUME NEW a \in AssignId, gap[a] # {}
      PROVE  /\ asg'[a].who = asg[a].who /\ asg'[a].active = asg[a].active
             /\ asg'[a].start = IF a \in req[s].restart THEN today ELSE asg[a].start
  BY DEF UpdateSaves, IInv, KTypeOK
<1>6. ASSUME NEW a \in AssignId, gap[a] # {}, def'.active, asg'[a].active, NEW d \in gap[a]
      PROVE  d < asg'[a].start
  <2>1. CASE a \in req[s].restart
    BY <1>5, <1>6, <2>1 DEF GapInv
  <2>2. CASE a \notin req[s].restart
    <3>1. req[s].old.active \/ ~req[s].active
      BY <1>1, <1>2, <1>5, <1>6, <2>2 DEF UpdateOK
    <3>2. def.active
      BY <1>2, <1>3, <1>6, <3>1 DEF Changed
    <3> QED
      BY <1>5, <1>6, <2>2, <3>2 DEF GapInv
  <2> QED
    BY <2>1, <2>2
<1>7. Leave(s) /\ UNCHANGED <<today, gap>> /\ (def'.active => worked')
  BY DEF UpdateSaves
<1> QED
  BY <1>4, <1>5, <1>6, <1>7, GapCommitStep DEF GapInv

LEMMA GapAssigns ==
    ASSUME IInv, GapInv, NEW s \in Slot, AssignSaves(s)
    PROVE  GapInv'
<1>1. \A a \in AssignId : gap[a] # {} => asg[a].who # None /\ asg'[a] = asg[a]
  BY AssignedRows DEF GapInv
<1> QED
  BY <1>1, GapCommitStep DEF AssignSaves, GapInv

LEMMA GapEnds ==
    ASSUME IInv, GapInv, NEW s \in Slot, EndSaves(s)
    PROVE  GapInv'
<1>1. \A a \in AssignId : /\ asg'[a].who = asg[a].who /\ asg'[a].start = asg[a].start
                          /\ asg'[a].active => asg[a].active
  BY DEF EndSaves, IInv, KTypeOK
<1> QED
  BY <1>1, GapCommitStep DEF EndSaves, GapInv

LEMMA GapMidnight ==
    ASSUME IInv, GapInv, Midnight
    PROVE  GapInv'
<1>1. ASSUME NEW s \in Slot PROVE UpdateOK(req[s])' /\ RowsOK(req[s])'
  BY DEF Midnight, UpdateOK, RowsOK, Idle
<1>2. today' = today + 1 /\ today \in Nat /\ \A a \in AssignId : asg'[a] = asg[a]
  BY KraAssumption DEF Midnight, IInv, KTypeOK
<1>3. ASSUME NEW a \in AssignId PROVE gap'[a] = gap[a] \/ (gap'[a] = gap[a] \cup {today} /\ asg[a].who # None /\ ~worked)
  BY DEF Midnight, IInv, KTypeOK
<1>4. (worked' = def.active) /\ UNCHANGED def
  BY DEF Midnight
<1>5. ASSUME NEW a \in AssignId
      PROVE  /\ \A d \in gap'[a] : d < today'
             /\ asg'[a].who = None => gap'[a] = {}
             /\ def'.active /\ asg'[a].active => \A d \in gap'[a] : d < asg'[a].start
  <2>1. /\ \A d \in gap[a] : d \in Nat /\ d < today
        /\ asg[a].who = None => gap[a] = {}
        /\ def.active /\ asg[a].active => \A d \in gap[a] : d < asg[a].start
        /\ def.active => worked
    BY DEF GapInv, IInv, KTypeOK, Day
  <2> QED
    BY <1>2, <1>3, <1>4, <2>1
<1> QED
  BY <1>1, <1>4, <1>5 DEF GapInv

LEMMA GapSteps ==
    ASSUME IInv, GapInv, [KNext]_kvars
    PROVE  GapInv'
<1>1. ASSUME NEW s \in Slot, GenerateSaves(s) \/ DelaySaves(s) \/ CompleteSaves(s) PROVE GapInv'
  BY <1>1, GapCommitStep DEF GenerateSaves, DelaySaves, CompleteSaves, GapInv
<1>2. ASSUME NEW s \in Slot, Saves(s) PROVE GapInv'
  BY <1>1, <1>2, GapUpdates, GapAssigns, GapEnds DEF Saves
<1>3. CASE UNCHANGED kvars \/ \E u \in User : SetLive(u)
  <2>1. UNCHANGED <<today, def, asg, req, worked, gap>>
    BY <1>3 DEF kvars, SetLive
  <2> QED
    BY <2>1 DEF GapInv, UpdateOK, RowsOK, Workable
<1> QED
  BY <1>2, <1>3, GapBegins, GapMidnight DEF KNext

LEMMA GapInitially == KInit => GapInv
BY DEF KInit, GapInv, UpdateOK, RowsOK, Idle

\* A change of the table at one place is a change there.
LEMMA OnlyThere ==
    ASSUME NEW f \in [AssignId -> [Day -> Occurrence]], NEW b, NEW q, NEW o,
           NEW g, g = [f EXCEPT ![b] = [f[b] EXCEPT ![q] = o]],
           NEW a \in AssignId, NEW p \in Day, g[a][p] # f[a][p]
    PROVE  b = a /\ q = p
<1>1. f[a] \in [Day -> Occurrence]
  OBVIOUS
<1>2. b = a
  <2>1. b # a => g[a] = f[a]
    OBVIOUS
  <2> QED
    BY <2>1
<1>3. g[a] = [f[a] EXCEPT ![q] = o]
  BY <1>2
<1> QED
  BY <1>1, <1>2, <1>3

\* No occurrence is ever created for a period that lies in days the definition
\* was inactive, however long, and whatever requests overlap the reactivation.
THEOREM GapNotMissed == KSpec => GapIsNotMissedWork
<1> DEFINE Due(a, p) == ~Exists(a, p) /\ occ'[a][p].status # "none"
                        => \E d \in Day \ gap[a] : PeriodStart(def.freq, d) = PeriodStart(def.freq, p)
<1>1. ASSUME IInv, GapInv, [KNext]_kvars, NEW a \in AssignId, NEW p \in Day PROVE Due(a, p)
  <2>1. SUFFICES ASSUME ~Exists(a, p), occ'[a][p].status # "none"
                 PROVE  Workable(a, p)
    BY DEF Workable
  <2>2. occ'[a][p] # occ[a][p]
    BY <2>1 DEF Exists
  <2>3. ASSUME NEW s \in Slot, GenerateSaves(s) \/ EndSaves(s) \/ UpdateSaves(s) PROVE Workable(a, p)
    <3>1. p \in req[s].rows[a]
      BY <2>2, <2>3 DEF GenerateSaves, EndSaves, UpdateSaves, Inserted
    <3>2. RowsOK(req[s]) /\ req[s].pc \in {"generate", "end", "update"}
      BY <1>1, <2>3 DEF GapInv, GenerateSaves, EndSaves, UpdateSaves
    <3> QED
      BY <3>1, <3>2 DEF RowsOK
  <2>4. ASSUME NEW s \in Slot, CompleteSaves(s) \/ DelaySaves(s) PROVE Workable(a, p)
    <3>1. req[s].of = a /\ req[s].period = p
      <4>1. occ \in [AssignId -> [Day -> Occurrence]]
        BY <1>1 DEF IInv, KTypeOK
      <4>2. PICK o : occ' = [occ EXCEPT ![req[s].of] = [occ[req[s].of] EXCEPT ![req[s].period] = o]]
        BY <2>4 DEF CompleteSaves, DelaySaves
      <4> QED
        BY <2>2, <4>1, <4>2, OnlyThere
    <3>2. occ[a][p].status \in {"pending", "delayed"}
      BY <1>1, <2>4, <3>1, Locked DEF CompleteSaves, DelaySaves
    <3> QED
      BY <2>1, <3>2 DEF Exists
  <2> QED
    BY <1>1, <2>2, <2>3, <2>4 DEF KNext, kvars, Saves, GenerateReads, Reads, AssignChecks, EndChecks,
       UpdateChecks, WorkChecks, AssignSaves, SetLive, Midnight
<1>2. IInv /\ GapInv /\ [KNext]_kvars => [\A a \in AssignId, p \in Day : Due(a, p)]_kvars
  BY <1>1
<1>3. IInv /\ GapInv /\ [KNext]_kvars => GapInv'
  BY GapSteps
<1> QED
  BY <1>2, <1>3, GapInitially, Invariance, PTL DEF KSpec, GapIsNotMissedWork
=============================================================================
