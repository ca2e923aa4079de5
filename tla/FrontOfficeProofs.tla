--------------------------- MODULE FrontOfficeProofs ---------------------------
(***************************************************************************)
(* The front office is safe for any number of requests in progress: stock  *)
(* is explained by its movements, a covered shift has a replacement, whom  *)
(* a complaint is assigned to is in its history, proofs of work are not    *)
(* piled up, alarms about the week are answered, syncs with a channel      *)
(* manager catch up with it, and all of them keep their types.             *)
(***************************************************************************)
EXTENDS FrontOffice, RoomBookingsProofs, GeofenceProofs

-----------------------------------------------------------------------------
(* Inventory. *)

\* A movement leads from the quantity it saw to the one it will write.
MoverOK(m) == m.pc \in {"alert", "save"} => m.becomes \in Effect(m.moves, m.seen)

InvInv == ITypeOK /\ (\A k \in Desk : MoverOK(mover[k])) /\ StockIsExplained

LEMMA VacantMover == Vacant \in Mover /\ MoverOK(Vacant) /\ Vacant.pc = "idle"
BY DEF Mover, MoverOK, Vacant

LEMMA MoverTypes ==
    ASSUME NEW m \in Mover
    PROVE  /\ m.pc \in {"alert", "save"} => m.seen \in Quantity /\ m.becomes \in Quantity /\ m.moves \in Movement
           /\ m.pc = "alert" => m.level \in Reorder
           /\ m.pc = "update" => m.reorder \in Reorder
BY DEF Mover, Vacant

LEMMA MoverBegins ==
    ASSUME InvInv, NEW k \in Desk, NEW m \in Mover, MoverOK(m), IBegin(k, m)
    PROVE  InvInv'
BY DEF InvInv, ITypeOK, MoverOK, StockIsExplained, IBegin

\* Whoever is done leaves the other requests as they were.
LEMMA MoverDone ==
    ASSUME InvInv, NEW k \in Desk, mover' = [mover EXCEPT ![k] = Vacant],
           item' \in InventoryItem, open' \in Nat, explained' \subseteq Quantity, overlapped' \in BOOLEAN,
           StockIsExplained'
    PROVE  InvInv'
BY VacantMover DEF InvInv, ITypeOK, MoverOK

LEMMA MovementBegins ==
    ASSUME InvInv, NEW k \in Desk,
           \/ \E q \in Amount : AddStock(k, q) \/ RemoveStock(k, q)
           \/ \E q \in Quantity : AdjustStock(k, q)
    PROVE  InvInv'
<1> DEFINE seen == item.quantity
<1>1. seen \in Quantity /\ item.reorder \in Reorder /\ Quantity \subseteq Nat /\ Amount \subseteq Nat
  BY InventoryAssumption DEF InvInv, ITypeOK, InventoryItem, Quantity
<1>2. ASSUME NEW type \in {"IN", "OUT", "ADJUST"}, NEW q \in Quantity, NEW new \in Effect([type |-> type, quantity |-> q], seen),
             Moves(k, type, q, new)
      PROVE  InvInv'
  <2> DEFINE m == [pc |-> "alert", seen |-> seen, becomes |-> new, level |-> item.reorder,
                   moves |-> [type |-> type, quantity |-> q]]
  <2>1. m \in Mover /\ MoverOK(m) /\ IBegin(k, m)
    BY <1>1, <1>2 DEF Moves, Mover, Movement, MoverOK
  <2> QED
    BY <2>1, MoverBegins
<1>3. ASSUME NEW q \in Amount, AddStock(k, q) PROVE InvInv'
  <2>1. q \in Quantity
    BY <1>1, <1>3, InventoryAssumption DEF AddStock, Moves, Quantity
  <2> QED
    BY <1>2, <1>3, <2>1 DEF AddStock, Effect
<1>4. ASSUME NEW q \in Amount, RemoveStock(k, q) PROVE InvInv'
  <2>1. q \in Quantity
    BY <1>1, <1>4, InventoryAssumption DEF RemoveStock, Moves, Quantity
  <2> QED
    BY <1>2, <1>4, <2>1 DEF RemoveStock, Effect
<1>5. ASSUME NEW q \in Quantity, AdjustStock(k, q) PROVE InvInv'
  <2>1. Gap(q, seen) \in Quantity /\ (q = seen + Gap(q, seen) \/ q = seen - Gap(q, seen))
    BY <1>1, InventoryAssumption DEF Gap, Quantity
  <2>2. q \in Effect([type |-> "ADJUST", quantity |-> Gap(q, seen)], seen)
    BY <2>1 DEF Effect
  <2> QED
    BY <1>2, <1>5, <2>1, <2>2 DEF AdjustStock
<1> QED
  BY <1>3, <1>4, <1>5

LEMMA MovementGoesOn ==
    ASSUME InvInv, NEW k \in Desk, MovementChecks(k)
    PROVE  InvInv'
<1> DEFINE m == mover[k]
           next == [pc |-> "save", seen |-> m.seen, moves |-> m.moves, becomes |-> m.becomes,
                    alerts |-> Low(m) /\ open = 0]
<1>1. m \in Mover /\ MoverOK(m) /\ m.pc = "alert"
  BY DEF MovementChecks, InvInv, ITypeOK
<1>2. next \in Mover /\ MoverOK(next)
  BY <1>1, MoverTypes DEF Mover, MoverOK
<1>3. PICK t \in {next, Vacant} : mover' = [mover EXCEPT ![k] = t]
  BY DEF MovementChecks
<1>4. t \in Mover /\ MoverOK(t)
  BY <1>2, <1>3, VacantMover
<1> HIDE DEF next
<1> QED
  BY <1>3, <1>4 DEF MovementChecks, InvInv, ITypeOK, StockIsExplained, MoverOK

\* The quantity a movement writes is explained by it, if nobody came between.
LEMMA MovementCommits ==
    ASSUME InvInv, NEW k \in Desk, MovementSaves(k)
    PROVE  InvInv'
<1> DEFINE m == mover[k]
<1>1. /\ m \in Mover /\ MoverOK(m) /\ m.pc = "save" /\ item \in InventoryItem /\ open \in Nat
      /\ m.seen \in Quantity /\ m.becomes \in Quantity
  BY MoverTypes DEF MovementSaves, InvInv, ITypeOK
<1>2. item'.quantity = IF m.becomes = m.seen THEN item.quantity ELSE m.becomes
  BY <1>1 DEF MovementSaves, InventoryItem
<1>3. item' \in InventoryItem /\ open' \in Nat /\ explained' \subseteq Quantity /\ overlapped' \in BOOLEAN
  BY <1>1 DEF MovementSaves, InventoryItem
<1>4. StockIsExplained'
  <2>1. SUFFICES ASSUME ~overlapped' PROVE item'.quantity \in explained'
    BY DEF StockIsExplained
  <2>2. ~overlapped /\ item.quantity = m.seen
    BY <2>1 DEF MovementSaves
  <2>3. m.seen \in explained /\ item'.quantity = m.becomes
    BY <1>2, <2>2 DEF InvInv, StockIsExplained
  <2>4. m.becomes \in Effect(m.moves, m.seen)
    BY <1>1 DEF MoverOK
  <2> QED
    BY <1>1, <2>3, <2>4 DEF MovementSaves
<1> QED
  BY <1>3, <1>4, MoverDone DEF MovementSaves

LEMMA InventoryStep ==
    ASSUME InvInv, [INext]_ivars
    PROVE  InvInv'
<1>1. ASSUME NEW k \in Desk, (\E level \in Reorder : UpdateItem(k, level)) \/ DeleteItem(k) PROVE InvInv'
  <2>1. PICK m \in Mover : MoverOK(m) /\ IBegin(k, m)
    BY <1>1 DEF UpdateItem, DeleteItem, Mover, MoverOK
  <2> QED
    BY <2>1, MoverBegins
<1>2. ASSUME NEW k \in Desk, EditSaves(k) PROVE InvInv'
  <2>1. item' \in InventoryItem /\ item'.quantity = item.quantity
    BY <1>2, MoverTypes DEF EditSaves, InvInv, ITypeOK, InventoryItem
  <2>2. StockIsExplained' /\ open' \in Nat /\ explained' \subseteq Quantity /\ overlapped' \in BOOLEAN
    BY <1>2, <2>1 DEF EditSaves, InvInv, ITypeOK, StockIsExplained
  <2> QED
    BY <1>2, <2>1, <2>2, MoverDone DEF EditSaves
<1>3. ASSUME NEW k \in Desk, IAbandon(k) PROVE InvInv'
  BY <1>3, MoverDone DEF IAbandon, InvInv, ITypeOK, StockIsExplained
<1>4. CASE IDismiss
  BY <1>4 DEF IDismiss, InvInv, ITypeOK, StockIsExplained, MoverOK
<1>5. CASE UNCHANGED ivars
  BY <1>5 DEF ivars, InvInv, ITypeOK, StockIsExplained, MoverOK
<1> QED
  BY <1>1, <1>2, <1>3, <1>4, <1>5, MovementBegins, MovementGoesOn, MovementCommits DEF INext

LEMMA InventoryInit == IInit => InvInv
<1> SUFFICES ASSUME IInit PROVE InvInv
  OBVIOUS
<1>1. item \in InventoryItem /\ explained \subseteq Quantity /\ overlapped \in BOOLEAN
  BY DEF IInit, InventoryItem
<1>2. item.quantity \in explained
  BY DEF IInit
<1> QED
  BY <1>1, <1>2, VacantMover DEF IInit, InvInv, ITypeOK, StockIsExplained

\* For any quantities and any number of movements at once: unless two movements
\* overlapped, the stock is what the recorded ones add up to.
THEOREM StockExplained == ISpec => []StockIsExplained
<1>1. InvInv => StockIsExplained
  BY DEF InvInv
<1> QED
  BY <1>1, InventoryInit, InventoryStep, PTL DEF ISpec

-----------------------------------------------------------------------------
(* Replacements. *)

\* What a planner loaded is a request that still is there, about the same
\* shift, and with a replacement if it had one; a shift stays covered.
PlannerOK(d) ==
    d.pc # "idle" =>
        /\ d.loaded.of = rr[d.r].of /\ d.loaded.of \in Shift /\ rr[d.r].status # "none"
        /\ d.loaded.repl # Null => rr[d.r].repl # Null
        /\ d.slot.status = "covered" => shift[d.loaded.of].status = "covered"

\* Every request that is there is about a shift, and others name nobody.
RequestsOfShifts ==
    \A r \in Request : IF rr[r].status # "none" THEN rr[r].of \in Shift ELSE rr[r].repl = Null

ReplInv == PTypeOK /\ RequestsOfShifts /\ (\A k \in Desk : PlannerOK(planner[k])) /\ CoveredHasReplacement

LEMMA VacantPlanner == Vacant \in Planner /\ PlannerOK(Vacant) /\ Vacant.pc = "idle"
BY DEF Planner, PlannerOK, Vacant

LEMMA PlannerTypes ==
    ASSUME NEW d \in Planner
    PROVE  d.pc # "idle" => d.r \in Request /\ d.who \in Employee /\ d.loaded \in RequestRow /\ d.slot \in ShiftRow
BY DEF Planner, Vacant

LEMMA WrittenRequest ==
    ASSUME NEW a \in RequestRow, NEW b \in RequestRow, NEW c \in RequestRow
    PROVE  LET w == Written(a, b, c)
           IN  /\ w \in RequestRow
               /\ w.of = IF c.of = b.of THEN a.of ELSE c.of
               /\ w.repl = IF c.repl = b.repl THEN a.repl ELSE c.repl
               /\ w.status = IF c.status = b.status THEN a.status ELSE c.status
BY DEF Written, RequestRow

LEMMA WrittenShift ==
    ASSUME NEW a \in ShiftRow, NEW b \in ShiftRow, NEW c \in ShiftRow
    PROVE  LET w == Written(a, b, c)
           IN  w \in ShiftRow /\ w.status = IF c.status = b.status THEN a.status ELSE c.status
BY DEF Written, ShiftRow

LEMMA PlannerLoads ==
    ASSUME ReplInv, NEW k \in Desk, NEW r \in Request, NEW e \in Employee,
           NEW pc \in {"accept", "reject", "assign"}, Loads(k, pc, r, e)
    PROVE  ReplInv'
<1> DEFINE d == [pc |-> pc, r |-> r, who |-> e, loaded |-> rr[r], slot |-> shift[rr[r].of]]
<1>1. rr[r] \in RequestRow /\ rr[r].of \in Shift /\ rr[r].status # "none"
  BY DEF ReplInv, PTypeOK, RequestsOfShifts, Loads
<1>2. d \in Planner /\ PlannerOK(d)
  BY <1>1 DEF ReplInv, PTypeOK, Planner, PlannerOK
<1>3. planner' = [planner EXCEPT ![k] = d] /\ UNCHANGED <<shift, rr, notice, posted>>
  BY DEF Loads
<1>4. \A j \in Desk : planner'[j] = IF j = k THEN d ELSE planner[j]
  BY <1>3 DEF ReplInv, PTypeOK
<1>5. PTypeOK'
  BY <1>2, <1>3 DEF ReplInv, PTypeOK
<1>6. ASSUME NEW j \in Desk PROVE PlannerOK(planner[j])'
  <2>1. CASE j = k
    BY <1>1, <1>3, <1>4, <2>1 DEF PlannerOK
  <2>2. CASE j # k
    BY <1>3, <1>4, <2>2 DEF PlannerOK, ReplInv
  <2> QED
    BY <2>1, <2>2
<1> QED
  BY <1>3, <1>5, <1>6 DEF ReplInv, RequestsOfShifts, CoveredHasReplacement

\* A planner is done; requests keep their shift, and their replacement if any.
LEMMA PlannerDone ==
    ASSUME ReplInv, NEW k \in Desk, planner' = [planner EXCEPT ![k] = Vacant], PTypeOK', CoveredHasReplacement',
           \A r \in Request : rr[r].status # "none" => rr'[r].status # "none" /\ rr'[r].of = rr[r].of,
           \A r \in Request : rr[r].repl # Null => rr'[r].repl # Null,
           \A r \in Request : rr[r].status = "none" => rr'[r] = rr[r],
           \A s \in Shift : shift[s].status = "covered" => shift'[s].status = "covered"
    PROVE  ReplInv'
<1>1. \A j \in Desk : planner'[j] = IF j = k THEN Vacant ELSE planner[j]
  BY DEF ReplInv, PTypeOK
<1>2. ASSUME NEW j \in Desk PROVE PlannerOK(planner[j])'
  <2>1. CASE j = k
    BY <1>1, <2>1, VacantPlanner DEF PlannerOK
  <2>2. CASE j # k
    <3>1. planner'[j] = planner[j] /\ PlannerOK(planner[j]) /\ planner[j] \in Planner
      BY <1>1, <2>2 DEF ReplInv, PTypeOK
    <3> QED
      BY <3>1, PlannerTypes DEF PlannerOK
  <2> QED
    BY <2>1, <2>2
<1> QED
  BY <1>2 DEF ReplInv, RequestsOfShifts

\* A commit covers a shift only when it also names who does.
LEMMA PlannerCommits ==
    ASSUME ReplInv, NEW k \in Desk, AcceptSaves(k) \/ RejectSaves(k) \/ DirectAssignSaves(k)
    PROVE  ReplInv'
<1> DEFINE d == planner[k]
<1>1. /\ d \in Planner /\ PlannerOK(d) /\ d.pc # "idle"
      /\ d.r \in Request /\ d.who \in Employee /\ d.loaded \in RequestRow /\ d.slot \in ShiftRow
  BY PlannerTypes DEF AcceptSaves, RejectSaves, DirectAssignSaves, ReplInv, PTypeOK
<1>2. PICK request \in RequestRow, duty \in ShiftRow :
         /\ Saves(k, request, duty)
         /\ request.of = d.loaded.of /\ request.status \in {"accepted", "rejected", "assigned"}
         /\ \/ request.repl = d.who /\ duty.status = "covered"
            \/ request.repl = d.loaded.repl /\ duty = d.slot /\ request.status = "rejected"
  <2>1. CASE AcceptSaves(k)
    <3> DEFINE request == [d.loaded EXCEPT !.status = "accepted", !.repl = d.who]
               duty == [d.slot EXCEPT !.status = "covered"]
    <3>1. request \in RequestRow /\ duty \in ShiftRow /\ Saves(k, request, duty)
      BY <1>1, <2>1 DEF AcceptSaves, RequestRow, ShiftRow, ShiftStatus
    <3>2. request.of = d.loaded.of /\ request.status = "accepted" /\ request.repl = d.who /\ duty.status = "covered"
      BY <1>1 DEF RequestRow, ShiftRow
    <3> QED
      BY <3>1, <3>2
  <2>2. CASE RejectSaves(k)
    BY <1>1, <2>2 DEF RejectSaves, RequestRow
  <2>3. CASE DirectAssignSaves(k)
    <3> DEFINE request == [d.loaded EXCEPT !.status = "assigned", !.repl = d.who]
               duty == [on |-> d.who, status |-> "covered"]
    <3>1. request \in RequestRow /\ duty \in ShiftRow /\ Saves(k, request, duty)
      BY <1>1, <2>3 DEF DirectAssignSaves, RequestRow, ShiftRow, ShiftStatus
    <3>2. request.of = d.loaded.of /\ request.status = "assigned" /\ request.repl = d.who
      BY <1>1 DEF RequestRow
    <3> QED
      BY <3>1, <3>2
  <2> QED
    BY <2>1, <2>2, <2>3
<1> DEFINE row == Written(rr[d.r], d.loaded, request)
           on == Written(shift[d.loaded.of], d.slot, duty)
<1>3. /\ rr' = [rr EXCEPT ![d.r] = row] /\ shift' = [shift EXCEPT ![d.loaded.of] = on]
      /\ planner' = [planner EXCEPT ![k] = Vacant] /\ posted' = posted
  BY <1>2 DEF Saves
<1>4. /\ row \in RequestRow /\ row.of = rr[d.r].of /\ row.status # "none" /\ rr[d.r].status # "none"
      /\ rr[d.r].repl # Null => row.repl # Null
      /\ request.repl = d.who => row.repl # Null
      /\ row.status \in {rr[d.r].status, request.status}
  BY <1>1, <1>2, WrittenRequest, ReplacementsAssumption DEF PlannerOK, ReplInv, PTypeOK
<1>5. /\ d.loaded.of \in Shift /\ d.loaded.of = rr[d.r].of /\ on \in ShiftRow
      /\ duty = d.slot => on.status = shift[d.loaded.of].status
      /\ duty.status = "covered" => on.status = "covered"
  BY <1>1, <1>2, WrittenShift DEF PlannerOK, ReplInv, PTypeOK
<1> HIDE DEF row, on
<1>6. notice' \in [Request -> SUBSET Login]
  <2>1. CASE DirectAssignSaves(k)
    <3>1. PICK items \in Notified(d.r, d.loaded.repl, d.who) : notice' = [notice EXCEPT ![d.r] = items]
      BY <2>1 DEF DirectAssignSaves
    <3>2. notice[d.r] \subseteq Login /\ notice \in [Request -> SUBSET Login]
      BY <1>1 DEF ReplInv, PTypeOK
    <3>3. items \subseteq Login
      BY <3>1, <3>2 DEF Notified
    <3> QED
      BY <3>1, <3>2, <3>3
  <2>2. CASE AcceptSaves(k) \/ RejectSaves(k)
    BY <2>2 DEF AcceptSaves, RejectSaves, ReplInv, PTypeOK
  <2> QED
    BY <2>1, <2>2
<1>7. PTypeOK'
  BY <1>3, <1>4, <1>5, <1>6, VacantPlanner DEF ReplInv, PTypeOK
<1>8. /\ \A r \in Request : rr'[r] = IF r = d.r THEN row ELSE rr[r]
      /\ \A s \in Shift : shift'[s] = IF s = d.loaded.of THEN on ELSE shift[s]
  BY <1>3 DEF ReplInv, PTypeOK
<1>9. \A s \in Shift : shift[s].status = "covered" => shift'[s].status = "covered"
  BY <1>2, <1>5, <1>8
<1>10. ASSUME NEW s \in Shift, shift'[s].status = "covered", s \notin posted'
       PROVE  \E r \in Request : rr'[r].of = s /\ rr'[r].repl # Null
  <2>1. CASE shift[s].status = "covered"
    <3>1. PICK r \in Request : rr[r].of = s /\ rr[r].repl # Null
      BY <1>3, <1>10, <2>1 DEF ReplInv, CoveredHasReplacement
    <3> QED
      BY <1>4, <1>8, <3>1
  <2>2. CASE shift[s].status # "covered"
    <3>1. s = d.loaded.of /\ duty # d.slot
      BY <1>5, <1>8, <1>10, <2>2
    <3> QED
      BY <1>1, <1>2, <1>4, <1>5, <1>8, <3>1
  <2> QED
    BY <2>1, <2>2
<1>11. ASSUME NEW r \in Request, rr'[r].status \in {"accepted", "assigned"}
       PROVE  rr'[r].repl # Null /\ shift'[rr'[r].of].status = "covered"
  <2>1. CASE rr[r].status \in {"accepted", "assigned"} /\ rr'[r].of = rr[r].of /\ (rr[r].repl # Null => rr'[r].repl # Null)
    <3>1. rr[r].repl # Null /\ shift[rr[r].of].status = "covered" /\ rr[r].of \in Shift
      BY <2>1 DEF ReplInv, CoveredHasReplacement, RequestsOfShifts
    <3> QED
      BY <1>9, <2>1, <3>1
  <2>2. CASE r = d.r /\ request.status \in {"accepted", "assigned"}
    BY <1>2, <1>4, <1>5, <1>8, <2>2
  <2> QED
    BY <1>2, <1>4, <1>8, <1>11, <2>1, <2>2
<1>12. CoveredHasReplacement'
  BY <1>10, <1>11 DEF CoveredHasReplacement
<1>13. ASSUME NEW r \in Request
       PROVE  /\ rr[r].status # "none" => rr'[r].status # "none" /\ rr'[r].of = rr[r].of
              /\ rr[r].repl # Null => rr'[r].repl # Null
              /\ rr[r].status = "none" => rr'[r] = rr[r]
  BY <1>4, <1>8
<1>14. planner' = [planner EXCEPT ![k] = Vacant]
  BY <1>3
<1> HIDE DEF d
<1> QED
  BY <1>7, <1>9, <1>12, <1>13, <1>14, PlannerDone

LEMMA ReplacementStep ==
    ASSUME ReplInv, [PNext]_pvars
    PROVE  ReplInv'
<1>1. ASSUME NEW r \in Request, NEW s \in Shift, NEW e \in Employee \cup {Null}, CreateRequest(r, s, e) PROVE ReplInv'
  <2> DEFINE new == [of |-> s, status |-> "pending", repl |-> e]
  <2>1. rr' = [rr EXCEPT ![r] = new] /\ rr[r].status = "none" /\ UNCHANGED <<shift, notice, planner, posted>>
    BY <1>1 DEF CreateRequest
  <2>2. \A q \in Request : rr'[q] = IF q = r THEN new ELSE rr[q]
    BY <2>1 DEF ReplInv, PTypeOK
  <2>3. PTypeOK' /\ RequestsOfShifts'
    BY <2>1, <2>2 DEF ReplInv, PTypeOK, RequestsOfShifts, RequestRow
  <2>4. ASSUME NEW j \in Desk PROVE PlannerOK(planner[j])'
    <3>1. PlannerOK(planner[j]) /\ planner[j] \in Planner
      BY DEF ReplInv, PTypeOK
    <3>2. planner[j].pc # "idle" => planner[j].r # r
      BY <2>1, <3>1 DEF PlannerOK
    <3> QED
      BY <2>1, <2>2, <3>1, <3>2, PlannerTypes DEF PlannerOK
  <2>5. CoveredHasReplacement'
    <3>1. ASSUME NEW t \in Shift, shift[t].status = "covered", t \notin posted
          PROVE  \E q \in Request : rr'[q].of = t /\ rr'[q].repl # Null
      <4>1. PICK q \in Request : rr[q].of = t /\ rr[q].repl # Null
        BY <3>1 DEF ReplInv, CoveredHasReplacement
      <4>2. q # r
        BY <2>1, <4>1 DEF ReplInv, RequestsOfShifts
      <4> QED
        BY <2>2, <4>1, <4>2
    <3>2. ASSUME NEW q \in Request, rr'[q].status \in {"accepted", "assigned"}
          PROVE  rr'[q].repl # Null /\ shift'[rr'[q].of].status = "covered"
      <4>1. q # r /\ rr'[q] = rr[q]
        BY <2>2, <3>2
      <4> QED
        BY <2>1, <3>2, <4>1 DEF ReplInv, CoveredHasReplacement
    <3> QED
      BY <2>1, <3>1, <3>2 DEF CoveredHasReplacement
  <2> QED
    BY <2>3, <2>4, <2>5 DEF ReplInv
<1>2. ASSUME NEW s \in Shift, NEW e \in Employee, NEW status \in Posted, CreateShift(s, e, status) PROVE ReplInv'
  <2>1. /\ shift[s].status = "none" /\ UNCHANGED <<rr, notice, planner>>
        /\ \A t \in Shift : shift'[t] = IF t = s THEN [on |-> e, status |-> status] ELSE shift[t]
        /\ posted' = IF status = "covered" THEN posted \cup {s} ELSE posted
    BY <1>2 DEF CreateShift, ReplInv, PTypeOK
  <2>2. PTypeOK'
    <3>1. [on |-> e, status |-> status] \in ShiftRow
      BY ReplacementsAssumption DEF ShiftRow
    <3> QED
      BY <1>2, <2>1, <3>1 DEF CreateShift, ReplInv, PTypeOK
  <2>3. \A t \in Shift : shift[t].status = "covered" => shift'[t].status = "covered"
    BY <2>1
  <2>4. \A t \in Shift : shift'[t].status = "covered" => shift[t].status = "covered" \/ t \in posted'
    BY <2>1
  <2>5. CoveredHasReplacement'
    BY <2>1, <2>3, <2>4 DEF ReplInv, CoveredHasReplacement, RequestsOfShifts
  <2>6. ASSUME NEW k \in Desk PROVE PlannerOK(planner[k])'
    BY <2>1, <2>3 DEF ReplInv, PlannerOK
  <2> QED
    BY <2>1, <2>2, <2>5, <2>6 DEF ReplInv, RequestsOfShifts
<1>3. ASSUME NEW k \in Desk, NEW r \in Request, NEW e \in Employee,
             AcceptLoads(k, r, e) \/ RejectLoads(k, r, e) \/ DirectAssignLoads(k, r, e)
      PROVE  ReplInv'
  BY <1>3, PlannerLoads DEF AcceptLoads, RejectLoads, DirectAssignLoads
<1>4. ASSUME NEW k \in Desk, PAbandon(k) PROVE ReplInv'
  <2>1. PTypeOK' /\ CoveredHasReplacement'
    BY <1>4, VacantPlanner DEF PAbandon, ReplInv, PTypeOK, CoveredHasReplacement
  <2> QED
    BY <1>4, <2>1, PlannerDone DEF PAbandon
<1>5. ASSUME NEW r \in Request, PDismiss(r) PROVE ReplInv'
  BY <1>5 DEF PDismiss, ReplInv, PTypeOK, RequestsOfShifts, PlannerOK, CoveredHasReplacement
<1>6. CASE UNCHANGED pvars
  BY <1>6 DEF pvars, ReplInv, PTypeOK, RequestsOfShifts, PlannerOK, CoveredHasReplacement
<1> QED
  BY <1>1, <1>2, <1>3, <1>4, <1>5, <1>6, PlannerCommits DEF PNext, PAfter

LEMMA ReplacementInit == PInit => ReplInv
BY VacantPlanner
   DEF PInit, ReplInv, PTypeOK, ShiftRow, RequestRow, RequestsOfShifts, CoveredHasReplacement

\* For any employees, shifts and requests, decided in any order and overlap: a
\* shift that became covered has a request that names a replacement, and a
\* request that ends accepted or assigned names one for a covered shift.
THEOREM CoveredByReplacement == PSpec => []CoveredHasReplacement
<1>1. ReplInv => CoveredHasReplacement
  BY DEF ReplInv
<1> QED
  BY <1>1, ReplacementInit, ReplacementStep, PTL DEF PSpec

-----------------------------------------------------------------------------
(* Complaints. *)

\* The columns of a complaint that count here.
ComplaintRow == [status : ComplaintStatus, assigned_to : Staff \cup {Null}, comment_count : Nat]

\* Whom a complaint is assigned to, as a handler loaded it, has a row, and so
\* has whom a handler found one of.
OfficerOK(t) ==
    /\ t.pc \in {"resolve", "escalate", "comment", "assign"} =>
          t.loaded \in ComplaintRow /\ t.loaded.assigned_to \in assignments \cup {Null}
    /\ t.pc = "resolve" => t.status \in ComplaintStatus
    /\ t.pc = "assign" => t.to \in Staff /\ (t.known => t.to \in assignments)

CompInv ==
    /\ complaint \in ComplaintRow
    /\ complaint.assigned_to \in assignments \cup {Null}
    /\ officer = [k \in Desk |-> officer[k]]
    /\ \A k \in Desk : OfficerOK(officer[k])

LEMMA WrittenComplaint ==
    ASSUME NEW a \in ComplaintRow, NEW b \in ComplaintRow, NEW c \in ComplaintRow
    PROVE  LET w == Written(a, b, c)
           IN  /\ w \in ComplaintRow
               /\ w.assigned_to = IF c.assigned_to = b.assigned_to THEN a.assigned_to ELSE c.assigned_to
BY DEF Written, ComplaintRow

\* Rows of assignments stay, so a handler's next step is all there is to check.
LEMMA OfficerMoves ==
    ASSUME CompInv, NEW k \in Desk, NEW t, LGoto(k, t), assignments \subseteq assignments', OfficerOK(t)',
           complaint' \in ComplaintRow, complaint'.assigned_to \in assignments' \cup {Null}
    PROVE  CompInv'
<1>1. officer' = [j \in Desk |-> IF j = k THEN t ELSE officer[j]]
  BY DEF CompInv, LGoto
<1>2. officer' = [j \in Desk |-> officer'[j]]
  BY <1>1
<1>3. ASSUME NEW j \in Desk PROVE OfficerOK(officer[j])'
  <2>1. officer'[j] = IF j = k THEN t ELSE officer[j]
    BY <1>1
  <2>2. OfficerOK(officer[j])
    BY DEF CompInv
  <2> QED
    BY <2>1, <2>2 DEF OfficerOK
<1> QED
  BY <1>2, <1>3 DEF CompInv

\* A handler loads the complaint, goes on without it, or gives up.
LEMMA OfficerGoesOn ==
    ASSUME CompInv, NEW k \in Desk,
           \/ \E s \in ComplaintStatus : ResolveLoads(k, s)
           \/ \E u \in Staff : AssignLoads(k, u)
           \/ CommentLoads(k) \/ EscalateLoads(k) \/ ReportChecks(k) \/ Refreshes(k) \/ LAbandon(k)
    PROVE  CompInv'
<1>1. complaint \in ComplaintRow /\ complaint.assigned_to \in assignments \cup {Null}
  BY DEF CompInv
<1>2. ASSUME NEW t, LGoto(k, t), UNCHANGED LTables, OfficerOK(t) PROVE CompInv'
  <2>1. OfficerOK(t)' /\ complaint' = complaint /\ assignments' = assignments
    BY <1>2 DEF OfficerOK, LTables
  <2> QED
    BY <1>1, <1>2, <2>1, OfficerMoves
<1>3. ASSUME NEW s \in ComplaintStatus, ResolveLoads(k, s) PROVE CompInv'
  BY <1>1, <1>2, <1>3 DEF ResolveLoads, LLoad, OfficerOK
<1>4. ASSUME NEW u \in Staff, AssignLoads(k, u) PROVE CompInv'
  BY <1>1, <1>2, <1>4 DEF AssignLoads, LLoad, Known, OfficerOK
<1>5. CASE CommentLoads(k) \/ EscalateLoads(k)
  BY <1>1, <1>2, <1>5 DEF CommentLoads, EscalateLoads, LLoad, OfficerOK
<1>6. CASE Refreshes(k)
  BY <1>1, <1>2, <1>6 DEF Refreshes, OfficerOK
<1>7. CASE ReportChecks(k)
  <2>1. PICK t \in {Vacant, [pc |-> "reported", new |-> escalations = 0]} : LGoto(k, t)
    BY <1>7 DEF ReportChecks
  <2> QED
    BY <1>2, <1>7, <2>1 DEF ReportChecks, OfficerOK, Vacant
<1>8. CASE LAbandon(k)
  BY <1>2, <1>8 DEF LAbandon, OfficerOK, Vacant
<1> QED
  BY <1>3, <1>4, <1>5, <1>6, <1>7, <1>8

\* The commits that assign nobody.
LEMMA OfficerCommits ==
    ASSUME CompInv, NEW k \in Desk, ResolveSaves(k) \/ CommentSaves(k) \/ EscalateSaves(k) \/ ReportSaves(k)
    PROVE  CompInv'
<1> DEFINE t == officer[k]
<1>1. complaint \in ComplaintRow /\ complaint.assigned_to \in assignments \cup {Null} /\ OfficerOK(t)
  BY DEF CompInv
<1>2. ASSUME NEW next \in {Vacant, [pc |-> "report"]}, LGoto(k, next), assignments' = assignments,
             complaint' \in ComplaintRow, complaint'.assigned_to = complaint.assigned_to
      PROVE  CompInv'
  <2>1. OfficerOK(next)'
    BY DEF OfficerOK, Vacant
  <2> QED
    BY <1>1, <1>2, <2>1, OfficerMoves
<1>3. ASSUME NEW new \in ComplaintRow, t.loaded \in ComplaintRow, new.assigned_to = t.loaded.assigned_to
      PROVE  /\ Written(complaint, t.loaded, new) \in ComplaintRow
             /\ Written(complaint, t.loaded, new).assigned_to = complaint.assigned_to
  BY <1>1, <1>3, WrittenComplaint
<1>4. CASE ResolveSaves(k)
  <2>1. t.loaded \in ComplaintRow /\ t.status \in ComplaintStatus
    BY <1>1, <1>4 DEF ResolveSaves, OfficerOK
  <2>2. [t.loaded EXCEPT !.status = t.status] \in ComplaintRow
        /\ [t.loaded EXCEPT !.status = t.status].assigned_to = t.loaded.assigned_to
    BY <2>1 DEF ComplaintRow
  <2> QED
    BY <1>2, <1>3, <1>4, <2>1, <2>2 DEF ResolveSaves
<1>5. ASSUME NEW new \in ComplaintRow, t.loaded \in ComplaintRow, new.assigned_to = t.loaded.assigned_to,
             Comments(t.loaded, new)
      PROVE  complaint' \in ComplaintRow /\ complaint'.assigned_to = complaint.assigned_to
  <2>1. [new EXCEPT !.comment_count = t.loaded.comment_count + 1] \in ComplaintRow
        /\ [new EXCEPT !.comment_count = t.loaded.comment_count + 1].assigned_to = t.loaded.assigned_to
    BY <1>5 DEF ComplaintRow
  <2> QED
    BY <1>3, <1>5, <2>1 DEF Comments
<1>6. CASE CommentSaves(k)
  <2>1. t.loaded \in ComplaintRow
    BY <1>1, <1>6 DEF CommentSaves, OfficerOK
  <2> QED
    BY <1>2, <1>5, <1>6, <2>1 DEF CommentSaves
<1>7. CASE EscalateSaves(k)
  <2>1. t.loaded \in ComplaintRow
    BY <1>1, <1>7 DEF EscalateSaves, OfficerOK
  <2>2. [t.loaded EXCEPT !.status = "escalated"] \in ComplaintRow
        /\ [t.loaded EXCEPT !.status = "escalated"].assigned_to = t.loaded.assigned_to
    BY <2>1 DEF ComplaintRow, ComplaintStatus
  <2> QED
    BY <1>2, <1>5, <1>7, <2>1, <2>2 DEF EscalateSaves
<1>8. CASE ReportSaves(k)
  BY <1>1, <1>2, <1>8 DEF ReportSaves
<1> QED
  BY <1>4, <1>6, <1>7, <1>8

\* An assignment that commits leaves a row of whom it assigned.
LEMMA AssignmentCommits ==
    ASSUME CompInv, NEW k \in Desk, AssignSaves(k)
    PROVE  CompInv'
<1> DEFINE t == officer[k]
           twice == ~t.known /\ t.to \in assignments
           new == [t.loaded EXCEPT !.status = "in_progress", !.assigned_to = t.to]
<1>1. /\ complaint \in ComplaintRow /\ complaint.assigned_to \in assignments \cup {Null}
      /\ t.loaded \in ComplaintRow /\ t.loaded.assigned_to \in assignments \cup {Null}
      /\ t.to \in Staff /\ (t.known => t.to \in assignments)
  BY DEF CompInv, OfficerOK, AssignSaves
<1>2. PICK next \in {Vacant, [pc |-> "refresh"]} : LGoto(k, next)
  BY DEF AssignSaves
<1>3. OfficerOK(next)'
  BY <1>2 DEF OfficerOK, Vacant
<1>4. CASE twice
  BY <1>1, <1>2, <1>3, <1>4, OfficerMoves DEF AssignSaves
<1>5. CASE ~twice
  <2>1. complaint' = Written(complaint, t.loaded, new) /\ assignments' = assignments \cup {t.to}
    BY <1>1, <1>5 DEF AssignSaves
  <2>2. new \in ComplaintRow /\ new.assigned_to = t.to
    BY <1>1 DEF ComplaintRow, ComplaintStatus
  <2> HIDE DEF new
  <2>3. complaint' \in ComplaintRow /\ complaint'.assigned_to \in {complaint.assigned_to, t.to}
    BY <1>1, <2>1, <2>2, WrittenComplaint
  <2> QED
    BY <1>1, <1>2, <1>3, <2>1, <2>3, OfficerMoves
<1> QED
  BY <1>4, <1>5

LEMMA ComplaintStep ==
    ASSUME CompInv, [LNext]_lvars
    PROVE  CompInv'
<1>1. CASE LDismiss
  BY <1>1 DEF LDismiss, CompInv, OfficerOK
<1>2. CASE UNCHANGED lvars
  BY <1>2 DEF lvars, CompInv, OfficerOK
<1> QED
  BY <1>1, <1>2, OfficerGoesOn, OfficerCommits, AssignmentCommits DEF LNext

LEMMA ComplaintInit == LInit => CompInv
<1> SUFFICES ASSUME LInit PROVE CompInv
  OBVIOUS
<1>1. complaint \in ComplaintRow /\ complaint.assigned_to = Null
  BY DEF LInit, ComplaintRow, ComplaintStatus
<1>2. \A k \in Desk : OfficerOK(officer[k])
  BY DEF LInit, OfficerOK, Vacant
<1> QED
  BY <1>1, <1>2 DEF LInit, CompInv

\* For any staff and any number of assignments at once: whoever a complaint is
\* assigned to has a row in its history.
THEOREM AssigneesAreTraced == LSpec => []AssigneeHasRow
<1>1. CompInv => AssigneeHasRow
  BY DEF CompInv, AssigneeHasRow
<1> QED
  BY <1>1, ComplaintInit, ComplaintStep, PTL DEF LSpec

-----------------------------------------------------------------------------
(* Standard operating procedures. *)

Submitting == {k \in Desk : trainer[k].pc = "submit"}

\* A handler that loaded the task loaded a row, and a proof was awaited when
\* somebody began to submit one.
TrainerOK(t) ==
    /\ t.pc \in {"submit", "complete", "approve", "reject", "approving", "rejecting"} =>
          t.execution \in SOPExecution /\ execution # Null
    /\ t.pc # "idle" => sop # Null
    /\ t.pc \in {"update", "approving", "rejecting"} => t.sop \in SOPItem
    /\ t.pc = "update" => t.status \in Status
    /\ t.pc = "submit" => Awaited(t.execution.status)

\* The proofs of a round are those that were being submitted when it began.
SopInv ==
    /\ execution \in SOPExecution \cup {Null}
    /\ sop = Null \/ sop \in SOPItem
    /\ sop = Null => execution = Null
    /\ execution = Null => proofs = 0
    /\ execution # Null /\ Awaited(execution.status) => proofs = 0
    /\ proofs \in Nat /\ proofs + Cardinality(Submitting) =< Cardinality(Desk)
    /\ trainer = [k \in Desk |-> trainer[k]]
    /\ \A k \in Desk : TrainerOK(trainer[k])

LEMMA WrittenTask ==
    ASSUME NEW a \in SOPExecution, NEW b \in SOPExecution, NEW c \in SOPExecution
    PROVE  LET w == Written(a, b, c)
           IN  /\ w \in SOPExecution
               /\ w.status = IF c.status = b.status THEN a.status ELSE c.status
BY DEF Written, SOPExecution

\* A proof less in the making leaves room for one that was taken.
LEMMA SubmittingCounts ==
    ASSUME NEW S \in SUBSET Desk, NEW k \in S
    PROVE  /\ Cardinality(S) \in Nat /\ Cardinality(S) =< Cardinality(Desk) /\ Cardinality(Desk) \in Nat
           /\ Cardinality(S \ {k}) = Cardinality(S) - 1
BY SopAssumption, FS_Subset, FS_RemoveElement, FS_CardinalityType

LEMMA CountsOrder ==
    ASSUME NEW S \in SUBSET Desk, NEW T \in SUBSET S
    PROVE  Cardinality(S) \in Nat /\ Cardinality(T) \in Nat /\ Cardinality(Desk) \in Nat
           /\ Cardinality(T) =< Cardinality(S) /\ Cardinality(S) =< Cardinality(Desk)
<1>1. IsFiniteSet(S)
  BY SopAssumption, FS_Subset
<1> QED
  BY <1>1, SopAssumption, FS_Subset, FS_CardinalityType

\* A handler moves on without a commit; only one that found a proof awaited
\* begins to submit.
LEMMA TrainerGoesOn ==
    ASSUME SopInv, NEW k \in Desk, NEW t, SGoto(k, t), TrainerOK(t), t.pc = "submit" => proofs = 0,
           UNCHANGED <<sop, execution, proofs>>
    PROVE  SopInv'
<1>1. trainer' = [j \in Desk |-> IF j = k THEN t ELSE trainer[j]]
  BY DEF SopInv, SGoto
<1>2. trainer' = [j \in Desk |-> trainer'[j]]
  BY <1>1
<1>3. ASSUME NEW j \in Desk PROVE TrainerOK(trainer[j])'
  BY <1>1 DEF SopInv, TrainerOK
<1>4. proofs + Cardinality(Submitting') =< Cardinality(Desk)
  <2>1. CASE t.pc = "submit"
    BY <2>1, CountsOrder DEF Submitting, SopInv
  <2>2. CASE t.pc # "submit"
    <3>1. Submitting' \subseteq Submitting /\ Submitting \subseteq Desk
      BY <1>1, <2>2 DEF Submitting
    <3>2. /\ Cardinality(Submitting') =< Cardinality(Submitting)
          /\ {Cardinality(Submitting'), Cardinality(Submitting), Cardinality(Desk)} \subseteq Nat
      BY <3>1, CountsOrder
    <3> QED
      BY <3>2 DEF SopInv
  <2> QED
    BY <2>1, <2>2
<1> QED
  BY <1>2, <1>3, <1>4 DEF SopInv

\* A commit keeps the task's row, and starts a round only by a rejection.
LEMMA TrainerCommits ==
    ASSUME SopInv, NEW k \in Desk, SGoto(k, Vacant), execution' \in SOPExecution \cup {Null},
           execution # Null => execution' # Null, sop' = Null \/ sop' \in SOPItem, sop # Null => sop' # Null,
           sop' = Null => execution' = Null, execution' = Null => proofs' = 0,
           execution' # Null /\ Awaited(execution'.status) => proofs' = 0,
           proofs' \in {0, proofs} \/ (trainer[k].pc = "submit" /\ proofs' = proofs + 1)
    PROVE  SopInv'
<1>1. trainer' = [j \in Desk |-> IF j = k THEN Vacant ELSE trainer[j]]
  BY DEF SopInv, SGoto
<1>2. trainer' = [j \in Desk |-> trainer'[j]]
  BY <1>1
<1>3. ASSUME NEW j \in Desk PROVE TrainerOK(trainer[j])'
  <2>1. TrainerOK(trainer[j])
    BY DEF SopInv
  <2> QED
    BY <1>1, <2>1 DEF TrainerOK, Vacant
<1>4. Submitting' = Submitting \ {k}
  BY <1>1 DEF Submitting, Vacant
<1>5. proofs' \in Nat /\ proofs' + Cardinality(Submitting') =< Cardinality(Desk)
  <2>1. CASE proofs' \in {0, proofs}
    <3>1. Submitting \in SUBSET Desk /\ Submitting' \in SUBSET Submitting
      BY <1>4 DEF Submitting
    <3>2. /\ Cardinality(Submitting) \in Nat /\ Cardinality(Submitting') \in Nat /\ Cardinality(Desk) \in Nat
          /\ Cardinality(Submitting') =< Cardinality(Submitting)
      BY <3>1, CountsOrder
    <3> QED
      BY <2>1, <3>2 DEF SopInv
  <2>2. CASE trainer[k].pc = "submit" /\ proofs' = proofs + 1
    <3>1. k \in Submitting /\ Submitting \in SUBSET Desk
      BY <2>2 DEF Submitting
    <3> QED
      BY <1>4, <2>2, <3>1, SubmittingCounts DEF SopInv
  <2> QED
    BY <2>1, <2>2
<1> QED
  BY <1>2, <1>3, <1>5 DEF SopInv

\* A handler loads rows, goes on to the review, or gives up.
LEMMA TrainerReads ==
    ASSUME SopInv, NEW k \in Desk,
           \/ \E s \in Status : UpdateSopLoads(k, s)
           \/ DeleteSopLoads(k) \/ SubmitLoads(k) \/ CompleteLoads(k) \/ SAbandon(k)
           \/ ApproveExecutionLoads(k) \/ ReviewLoads(k, "approve", "approving")
           \/ RejectExecutionLoads(k) \/ ReviewLoads(k, "reject", "rejecting")
    PROVE  SopInv'
<1>1. ASSUME NEW s \in Status, UpdateSopLoads(k, s) PROVE SopInv'
  <2>1. TrainerOK([pc |-> "update", sop |-> sop, status |-> s])
    BY <1>1 DEF UpdateSopLoads, TrainerOK, SopInv
  <2> QED
    BY <1>1, <2>1, TrainerGoesOn DEF UpdateSopLoads, SLoad, STables
<1>2. CASE DeleteSopLoads(k)
  <2>1. TrainerOK([pc |-> "delete"])
    BY <1>2 DEF DeleteSopLoads, TrainerOK
  <2> QED
    BY <1>2, <2>1, TrainerGoesOn DEF DeleteSopLoads, SLoad, STables
<1>3. ASSUME NEW pc \in {"submit", "complete", "approve", "reject"}, Reads(k, pc),
             pc = "submit" => Awaited(execution.status)
      PROVE  SopInv'
  <2>1. TrainerOK([pc |-> pc, execution |-> execution]) /\ (pc = "submit" => proofs = 0)
    BY <1>3 DEF Reads, TrainerOK, SopInv
  <2> QED
    BY <1>3, <2>1, TrainerGoesOn DEF Reads, SLoad, STables
<1>4. ASSUME NEW pc \in {"approve", "reject"}, NEW next \in {"approving", "rejecting"}, ReviewLoads(k, pc, next)
      PROVE  SopInv'
  <2> DEFINE t == [pc |-> next, execution |-> trainer[k].execution, sop |-> sop]
  <2>1. TrainerOK(t) /\ SGoto(k, t)
    BY <1>4 DEF ReviewLoads, TrainerOK, SopInv
  <2> QED
    BY <1>4, <2>1, TrainerGoesOn DEF ReviewLoads, STables
<1>5. CASE SAbandon(k)
  <2>1. TrainerOK(Vacant)
    BY DEF TrainerOK, Vacant
  <2> QED
    BY <1>5, <2>1, TrainerGoesOn DEF SAbandon, STables, Vacant
<1> QED
  BY <1>1, <1>2, <1>3, <1>4, <1>5 DEF SubmitLoads, CompleteLoads, ApproveExecutionLoads, RejectExecutionLoads

LEMMA WrittenProcedure ==
    ASSUME NEW a \in SOPItem, NEW b \in SOPItem, NEW s \in Status
    PROVE  Written(a, b, [b EXCEPT !.status = s]) \in SOPItem
BY DEF Written, SOPItem

LEMMA ProcedureCommits ==
    ASSUME SopInv, NEW k \in Desk, UpdateSopSaves(k) \/ DeleteSopSaves(k)
    PROVE  SopInv'
<1>1. TrainerOK(trainer[k]) /\ trainer[k].pc \in {"update", "delete"} /\ SGoto(k, Vacant)
      /\ UNCHANGED <<execution, proofs>>
  BY DEF UpdateSopSaves, DeleteSopSaves, SopInv
<1>2. sop # Null /\ sop \in SOPItem
  BY <1>1 DEF TrainerOK, SopInv
<1>3. sop' \in SOPItem
  <2>1. CASE UpdateSopSaves(k)
    BY <1>1, <1>2, <2>1, WrittenProcedure DEF UpdateSopSaves, TrainerOK
  <2>2. CASE DeleteSopSaves(k)
    BY <1>2, <2>2 DEF DeleteSopSaves, SOPItem
  <2> QED
    BY <2>1, <2>2
<1>4. sop' # Null
  BY <1>3, SopAssumption
<1> QED
  BY <1>1, <1>3, <1>4, TrainerCommits DEF SopInv

LEMMA TaskCommits ==
    ASSUME SopInv, NEW k \in Desk,
           SubmitSaves(k) \/ CompleteSaves(k) \/ ApproveExecutionSaves(k) \/ RejectExecutionSaves(k)
    PROVE  SopInv'
<1> DEFINE t == trainer[k]
<1>1. /\ TrainerOK(t) /\ t.pc \in {"submit", "complete", "approving", "rejecting"} /\ SGoto(k, Vacant)
      /\ t.execution \in SOPExecution /\ execution # Null /\ execution \in SOPExecution
      /\ sop # Null /\ sop \in SOPItem
  BY DEF SubmitSaves, CompleteSaves, ApproveExecutionSaves, RejectExecutionSaves, SopInv, TrainerOK
<1>2. sop' \in SOPItem /\ sop' # Null
  <2>1. t.pc \in {"approving", "rejecting"} => t.sop \in SOPItem
    BY <1>1 DEF TrainerOK
  <2>2. sop' \in SOPItem
    BY <1>1, <2>1, WrittenProcedure
       DEF SubmitSaves, CompleteSaves, ApproveExecutionSaves, RejectExecutionSaves, Status
  <2> QED
    BY <2>2, SopAssumption
<1>3. ASSUME NEW new \in SOPExecution, NEW row \in SOPExecution, row.status = Written(execution, t.execution, new).status,
             execution' = row,
             \/ proofs' = proofs /\ ~Awaited(new.status)
             \/ proofs' = 0
             \/ t.pc = "submit" /\ proofs' = proofs + 1 /\ ~Awaited(new.status)
      PROVE  SopInv'
  <2>1. execution' # Null /\ row.status = IF new.status = t.execution.status THEN execution.status ELSE new.status
    BY <1>1, <1>3, WrittenTask, SopAssumption
  <2>2. t.pc = "submit" => Awaited(t.execution.status)
    BY <1>1 DEF TrainerOK
  <2>3. Awaited(row.status) => proofs' = 0
    BY <1>1, <1>3, <2>1, <2>2 DEF SopInv
  <2> QED
    BY <1>1, <1>2, <1>3, <2>1, <2>3, TrainerCommits
<1>4. CASE SubmitSaves(k)
  <2> DEFINE new == [t.execution EXCEPT !.status = "proof_submitted"]
             w == Written(execution, t.execution, new)
             row == [w EXCEPT !.proof = TRUE]
  <2>1. new \in SOPExecution /\ ~Awaited(new.status)
    BY <1>1 DEF SOPExecution, ExecutionStatus, Awaited
  <2>2. w \in SOPExecution
    BY <1>1, <2>1, WrittenTask
  <2>3. row \in SOPExecution /\ row.status = w.status
    BY <2>2 DEF SOPExecution
  <2>4. execution' = row /\ t.pc = "submit" /\ proofs' = proofs + 1
    BY <1>4 DEF SubmitSaves
  <2> HIDE DEF new, row
  <2> QED
    BY <1>3, <2>1, <2>3, <2>4
<1>5. CASE CompleteSaves(k)
  <2> DEFINE new == [t.execution EXCEPT !.status = "completed"]
             w == Written(execution, t.execution, new)
             row == [w EXCEPT !.completed_at = TRUE]
  <2>1. new \in SOPExecution /\ ~Awaited(new.status)
    BY <1>1 DEF SOPExecution, ExecutionStatus, Awaited
  <2>2. w \in SOPExecution
    BY <1>1, <2>1, WrittenTask
  <2>3. row \in SOPExecution /\ row.status = w.status
    BY <2>2 DEF SOPExecution
  <2>4. execution' = row /\ proofs' = proofs
    BY <1>5 DEF CompleteSaves
  <2> HIDE DEF new, row
  <2> QED
    BY <1>3, <2>1, <2>3, <2>4
<1>6. CASE ApproveExecutionSaves(k)
  <2> DEFINE new == [t.execution EXCEPT !.status = "approved"]
             w == Written(execution, t.execution, new)
             row == [w EXCEPT !.completed_at = TRUE]
  <2>1. new \in SOPExecution /\ ~Awaited(new.status)
    BY <1>1 DEF SOPExecution, ExecutionStatus, Awaited
  <2>2. w \in SOPExecution
    BY <1>1, <2>1, WrittenTask
  <2>3. row \in SOPExecution /\ row.status = w.status
    BY <2>2 DEF SOPExecution
  <2>4. execution' = row /\ proofs' = proofs
    BY <1>6 DEF ApproveExecutionSaves
  <2> HIDE DEF new, row
  <2> QED
    BY <1>3, <2>1, <2>3, <2>4
<1>7. CASE RejectExecutionSaves(k)
  <2> DEFINE new == [t.execution EXCEPT !.status = "rejected", !.proof = FALSE]
             row == Written(execution, t.execution, new)
  <2>1. new \in SOPExecution
    BY <1>1 DEF SOPExecution, ExecutionStatus
  <2>2. row \in SOPExecution
    BY <1>1, <2>1, WrittenTask
  <2>3. execution' = row /\ proofs' = 0
    BY <1>7 DEF RejectExecutionSaves
  <2> HIDE DEF new
  <2> QED
    BY <1>3, <2>1, <2>2, <2>3
<1> QED
  BY <1>4, <1>5, <1>6, <1>7

LEMMA SopStep ==
    ASSUME SopInv, [SNext]_sopvars
    PROVE  SopInv'
<1>1. ASSUME NEW s \in Status, NEW a \in Assignee, CreateSop(s, a) PROVE SopInv'
  <2>1. sop = Null /\ execution = Null /\ proofs = 0 /\ UNCHANGED <<proofs, trainer>>
    BY <1>1 DEF CreateSop, SopInv
  <2>2. sop' \in SOPItem /\ sop' # Null /\ execution' \in SOPExecution \cup {Null}
    <3>1. sop' \in SOPItem
      BY <1>1 DEF CreateSop, SOPItem
    <3>2. execution' \in SOPExecution \cup {Null}
      BY <1>1 DEF CreateSop, SOPExecution, ExecutionStatus
    <3> QED
      BY <3>1, <3>2, SopAssumption
  <2>3. Submitting' = Submitting
    BY <2>1 DEF Submitting
  <2>4. ASSUME NEW k \in Desk PROVE TrainerOK(trainer[k])'
    BY <2>1, <2>2 DEF TrainerOK, SopInv
  <2> QED
    BY <2>1, <2>2, <2>3, <2>4 DEF SopInv
<1>2. CASE (\E c \in Category : CreateCategory(c)) \/ CreateVersion \/ UNCHANGED sopvars
  <2>1. UNCHANGED <<sop, execution, proofs, trainer>>
    BY <1>2 DEF CreateCategory, CreateVersion, sopvars
  <2> QED
    BY <2>1 DEF SopInv, TrainerOK, Submitting
<1>3. StaffStatus \subseteq Status
  BY SopAssumption
<1> QED
  BY <1>1, <1>2, <1>3, TrainerReads, ProcedureCommits, TaskCommits DEF SNext

LEMMA SopInit == SInit => SopInv
<1> SUFFICES ASSUME SInit PROVE SopInv
  OBVIOUS
<1>1. Submitting = {}
  BY DEF SInit, Submitting, Vacant
<1>2. Cardinality(Submitting) = 0 /\ Cardinality(Desk) \in Nat
  BY <1>1, SopAssumption, FS_EmptySet, FS_CardinalityType
<1>3. \A k \in Desk : TrainerOK(trainer[k])
  BY DEF SInit, TrainerOK, Vacant
<1> QED
  BY <1>2, <1>3 DEF SInit, SopInv

\* Proofs and submissions in progress together are at most the desks.
LEMMA SopProofs == SopInv => ProofsPerReview
<1> SUFFICES ASSUME SopInv PROVE proofs =< Cardinality(Desk)
  BY DEF ProofsPerReview
<1>1. Submitting \in SUBSET Desk
  BY DEF Submitting
<1> QED
  BY <1>1, CountsOrder DEF SopInv

\* For any number of requests at once: between two rejections there are no
\* more proofs than requests that ran together.
THEOREM ProofsAreReviewed == SSpec => []ProofsPerReview
BY SopProofs, SopInit, SopStep, PTL DEF SSpec

-----------------------------------------------------------------------------
(* The planned week. *)

\* A shift that is there has an employee; so has what a planner loaded of it.
Filled(row) == row.on \in Employee /\ row.status # "none"

StaffInv ==
    /\ ReplInv
    /\ \A s \in Shift : shift[s].status # "none" => Filled(shift[s])
    /\ \A r \in Request : rr[r].status # "none" => Filled(shift[rr[r].of])
    /\ \A k \in Desk : planner[k].pc # "idle" => Filled(planner[k].slot)

WeekInv == WTypeOK /\ StaffInv

\* What a decision writes.
LEMMA DecisionWrites ==
    ASSUME ReplInv, NEW k \in Desk, AcceptSaves(k) \/ RejectSaves(k) \/ DirectAssignSaves(k)
    PROVE  LET d == planner[k]
           IN  /\ d.pc # "idle" /\ d.r \in Request /\ d.slot \in ShiftRow /\ d.loaded.of \in Shift
               /\ d.loaded.of = rr[d.r].of /\ rr[d.r].status # "none"
               /\ \E row \in RequestRow : rr' = [rr EXCEPT ![d.r] = row] /\ row.of = rr[d.r].of
               /\ \E duty \in ShiftRow :
                     /\ shift' = [shift EXCEPT ![d.loaded.of] = Written(@, d.slot, duty)]
                     /\ duty.on \in {d.slot.on, d.who} /\ duty.status \in {d.slot.status, "covered"}
               /\ d.who \in Employee /\ planner' = [planner EXCEPT ![k] = Vacant]
<1> DEFINE d == planner[k]
<1>1. /\ d \in Planner /\ PlannerOK(d) /\ d.pc # "idle"
      /\ d.r \in Request /\ d.who \in Employee /\ d.loaded \in RequestRow /\ d.slot \in ShiftRow
  BY PlannerTypes DEF AcceptSaves, RejectSaves, DirectAssignSaves, ReplInv, PTypeOK
<1>2. d.loaded.of \in Shift /\ d.loaded.of = rr[d.r].of /\ rr[d.r].status # "none" /\ rr[d.r] \in RequestRow
  BY <1>1 DEF PlannerOK, ReplInv, PTypeOK
<1>3. PICK request \in RequestRow, duty \in ShiftRow :
         /\ Saves(k, request, duty) /\ request.of = d.loaded.of
         /\ duty.on \in {d.slot.on, d.who} /\ duty.status \in {d.slot.status, "covered"}
  <2>1. CASE AcceptSaves(k)
    <3> DEFINE request == [d.loaded EXCEPT !.status = "accepted", !.repl = d.who]
               duty == [d.slot EXCEPT !.status = "covered"]
    <3>1. request \in RequestRow /\ duty \in ShiftRow /\ Saves(k, request, duty)
      BY <1>1, <2>1 DEF AcceptSaves, RequestRow, ShiftRow, ShiftStatus
    <3>2. request.of = d.loaded.of /\ duty.on = d.slot.on /\ duty.status = "covered"
      BY <1>1 DEF RequestRow, ShiftRow
    <3> QED
      BY <3>1, <3>2
  <2>2. CASE RejectSaves(k)
    <3> DEFINE request == [d.loaded EXCEPT !.status = "rejected"]
    <3>1. request \in RequestRow /\ Saves(k, request, d.slot) /\ request.of = d.loaded.of
      BY <1>1, <2>2 DEF RejectSaves, RequestRow
    <3> QED
      BY <1>1, <3>1
  <2>3. CASE DirectAssignSaves(k)
    <3> DEFINE request == [d.loaded EXCEPT !.status = "assigned", !.repl = d.who]
               duty == [on |-> d.who, status |-> "covered"]
    <3>1. request \in RequestRow /\ duty \in ShiftRow /\ Saves(k, request, duty) /\ request.of = d.loaded.of
      BY <1>1, <2>3 DEF DirectAssignSaves, RequestRow, ShiftRow, ShiftStatus
    <3> QED
      BY <3>1
  <2> QED
    BY <2>1, <2>2, <2>3
<1> DEFINE row == Written(rr[d.r], d.loaded, request)
<1>4. row \in RequestRow /\ row.of = rr[d.r].of
  BY <1>1, <1>2, <1>3, WrittenRequest
<1>5. /\ rr' = [rr EXCEPT ![d.r] = row] /\ planner' = [planner EXCEPT ![k] = Vacant]
      /\ shift' = [shift EXCEPT ![d.loaded.of] = Written(@, d.slot, duty)]
  BY <1>3 DEF Saves
<1> HIDE DEF row
<1> QED
  BY <1>1, <1>2, <1>3, <1>4, <1>5

LEMMA WrittenFilled ==
    ASSUME NEW a \in ShiftRow, NEW b \in ShiftRow, NEW c \in ShiftRow, Filled(a), Filled(c)
    PROVE  Filled(Written(a, b, c))
BY DEF Filled, Written, ShiftRow

LEMMA ShiftMade ==
    ASSUME StaffInv, NEW s \in Shift, NEW e \in Employee, NEW status \in Posted, CreateShift(s, e, status)
    PROVE  StaffInv'
<1>1. \A t \in Shift : shift'[t] = IF t = s THEN [on |-> e, status |-> status] ELSE shift[t]
  BY DEF CreateShift, StaffInv, ReplInv, PTypeOK
<1>2. \A t \in Shift : Filled(shift[t]) => Filled(shift'[t])
  BY <1>1, ReplacementsAssumption DEF Filled, ShiftStatus
<1>3. \A r \in Request : rr[r].status # "none" => rr[r].of \in Shift
  BY DEF StaffInv, ReplInv, RequestsOfShifts
<1>4. ReplInv'
  BY ReplacementStep DEF PNext, StaffInv
<1> QED
  BY <1>1, <1>2, <1>3, <1>4 DEF CreateShift, StaffInv, Filled

\* Requests and decisions neither make nor remove a shift.
LEMMA ReplacementKeepsShifts ==
    ASSUME StaffInv, PAfter
    PROVE  StaffInv' /\ \A s \in Shift : (shift'[s].status = "none") = (shift[s].status = "none")
<1>1. ReplInv'
  BY ReplacementStep DEF PNext, StaffInv
<1>2. ASSUME NEW r \in Request, NEW s \in Shift, NEW e \in Employee \cup {Null}, CreateRequest(r, s, e)
      PROVE  StaffInv' /\ shift' = shift
  <2>1. \A q \in Request : rr'[q] = IF q = r THEN [of |-> s, status |-> "pending", repl |-> e] ELSE rr[q]
    BY <1>2 DEF CreateRequest, StaffInv, ReplInv, PTypeOK
  <2> QED
    BY <1>1, <1>2, <2>1 DEF CreateRequest, StaffInv, Filled
<1>3. ASSUME NEW k \in Desk, NEW r \in Request, NEW e \in Employee, NEW pc \in {"accept", "reject", "assign"},
             Loads(k, pc, r, e)
      PROVE  StaffInv' /\ shift' = shift
  <2>1. \A j \in Desk : planner'[j] = IF j = k THEN [pc |-> pc, r |-> r, who |-> e, loaded |-> rr[r],
                                                     slot |-> shift[rr[r].of]] ELSE planner[j]
    BY <1>3 DEF Loads, StaffInv, ReplInv, PTypeOK
  <2>2. \A j \in Desk : planner'[j].pc # "idle" => Filled(planner'[j].slot)
    BY <1>3, <2>1 DEF Loads, StaffInv
  <2> QED
    BY <1>1, <1>3, <2>2 DEF Loads, StaffInv
<1>4. ASSUME NEW k \in Desk, AcceptSaves(k) \/ RejectSaves(k) \/ DirectAssignSaves(k)
      PROVE  StaffInv' /\ \A s \in Shift : (shift'[s].status = "none") = (shift[s].status = "none")
  <2> DEFINE d == planner[k]
  <2>1. PICK row \in RequestRow, duty \in ShiftRow :
           /\ d.pc # "idle" /\ d.r \in Request /\ d.slot \in ShiftRow /\ d.loaded.of \in Shift
           /\ d.loaded.of = rr[d.r].of /\ rr[d.r].status # "none" /\ d.who \in Employee
           /\ rr' = [rr EXCEPT ![d.r] = row] /\ row.of = rr[d.r].of
           /\ shift' = [shift EXCEPT ![d.loaded.of] = Written(@, d.slot, duty)]
           /\ duty.on \in {d.slot.on, d.who} /\ duty.status \in {d.slot.status, "covered"}
           /\ planner' = [planner EXCEPT ![k] = Vacant]
    BY <1>4, DecisionWrites DEF StaffInv
  <2> DEFINE was == shift[d.loaded.of]
             becomes == Written(was, d.slot, duty)
  <2>2. Filled(d.slot) /\ Filled(was) /\ was \in ShiftRow
    BY <2>1 DEF StaffInv, ReplInv, PTypeOK
  <2>3. Filled(duty)
    BY <2>1, <2>2 DEF Filled
  <2>4. Filled(becomes)
    BY <2>1, <2>2, <2>3, WrittenFilled
  <2>5. \A s \in Shift : shift'[s] = IF s = d.loaded.of THEN becomes ELSE shift[s]
    BY <2>1 DEF StaffInv, ReplInv, PTypeOK
  <2> HIDE DEF becomes
  <2>6. \A r \in Request : rr'[r] = IF r = d.r THEN row ELSE rr[r]
    BY <2>1 DEF StaffInv, ReplInv, PTypeOK
  <2>7. \A s \in Shift : Filled(shift[s]) => Filled(shift'[s])
    BY <2>4, <2>5
  <2>8. \A s \in Shift : (shift'[s].status = "none") = (shift[s].status = "none")
    BY <2>2, <2>4, <2>5 DEF Filled
  <2>9. \A s \in Shift : shift'[s].status # "none" => Filled(shift'[s])
    BY <2>7, <2>8 DEF StaffInv
  <2>10. \A r \in Request : rr'[r].status # "none" => Filled(shift'[rr'[r].of])
    <3>1. \A r \in Request : rr[r].status # "none" => rr[r].of \in Shift
      BY DEF StaffInv, ReplInv, RequestsOfShifts
    <3> QED
      BY <2>1, <2>6, <2>7, <3>1 DEF StaffInv
  <2>11. \A j \in Desk : planner'[j] = IF j = k THEN Vacant ELSE planner[j]
    BY <2>1 DEF StaffInv, ReplInv, PTypeOK
  <2>12. \A j \in Desk : planner'[j].pc # "idle" => Filled(planner'[j].slot)
    BY <2>11, VacantPlanner DEF StaffInv
  <2> QED
    BY <1>1, <2>8, <2>9, <2>10, <2>12 DEF StaffInv
<1>5. ASSUME NEW k \in Desk, PAbandon(k) PROVE StaffInv' /\ shift' = shift
  <2>1. \A j \in Desk : planner'[j] = IF j = k THEN Vacant ELSE planner[j]
    BY <1>5 DEF PAbandon, StaffInv, ReplInv, PTypeOK
  <2>2. \A j \in Desk : planner'[j].pc # "idle" => Filled(planner'[j].slot)
    BY <2>1, VacantPlanner DEF StaffInv
  <2> QED
    BY <1>1, <1>5, <2>2 DEF PAbandon, StaffInv
<1>6. ASSUME NEW r \in Request, PDismiss(r) PROVE StaffInv' /\ shift' = shift
  BY <1>1, <1>6 DEF PDismiss, StaffInv
<1> QED
  BY <1>2, <1>3, <1>4, <1>5, <1>6 DEF PAfter, AcceptLoads, RejectLoads, DirectAssignLoads

\* What is planned changes by edits only: absences are recorded where there is
\* none, and a schedule that is assigned or published stays so.
LEMMA EditKeeps ==
    ASSUME WeekInv, UNCHANGED pvars, edits' \in 0 .. MaxEdits, UNCHANGED roster,
           staff' \in [Employee -> EmployeeRow],
           absence' \in [Employee -> [Moment -> AvailabilityStatus \cup {Null}]],
           week' \in [Employee -> WeeklySchedule \cup {Null}],
           \A e \in Employee, m \in Moment : absence[e][m] # Null => absence'[e][m] = absence[e][m],
           \A e \in Employee : week[e] \in {"assigned", "published"} => week'[e] \in {"assigned", "published"}
    PROVE  WeekInv' /\ Answers
<1>1. WeekInv'
  <2>1. StaffInv'
    <3>1. ReplInv'
      BY ReplacementStep DEF WeekInv, StaffInv
    <3> QED
      BY <3>1 DEF WeekInv, StaffInv, pvars
  <2>2. PTypeOK'
    BY <2>1 DEF StaffInv, ReplInv
  <2> QED
    BY <2>1, <2>2 DEF WeekInv, WTypeOK, pvars
<1>2. ASSUME NEW s \in Critical PROVE s \in Critical' /\ shift'[s].on = shift[s].on
  <2>1. PICK e \in Employee : week[e] \in {"assigned", "published"} /\ s \in Conflicts(e)
    BY <1>2 DEF Critical
  <2>2. s \in Shift /\ roster[s] # Null /\ roster[s].of = e /\ Away(shift[s].on, roster[s].at)
    BY <2>1 DEF Conflicts
  <2>3. roster[s] \in ShiftSlot /\ shift[s].on \in Employee
    BY <2>2 DEF WeekInv, WTypeOK, StaffInv, Filled
  <2>4. shift[s].on \in Employee /\ roster[s].at \in Moment
    BY <2>3 DEF ShiftSlot
  <2>5. absence[shift[s].on][roster[s].at] # Null
    BY <2>2, WeekPlansAssumption DEF Away, AvailabilityStatus
  <2>6. Away(shift[s].on, roster[s].at)'
    BY <2>2, <2>4, <2>5 DEF Away, pvars
  <2>7. s \in Conflicts(e)'
    BY <2>2, <2>6 DEF Conflicts, pvars
  <2>8. week'[e] \in {"assigned", "published"}
    BY <2>1
  <2> QED
    BY <2>7, <2>8 DEF Critical, pvars
<1>3. \A o, m, d : o \notin Recommended(o, m, d)
  BY DEF Recommended
<1> QED
  BY <1>1, <1>2, <1>3 DEF Answers

LEMMA EditsAnswer ==
    ASSUME WeekInv, Edit,
           \/ \E e \in Employee, active \in BOOLEAN : UpdateEmployee(e, active)
           \/ \E e \in Employee : DeleteEmployee(e) \/ PublishSchedule(e)
           \/ \E e \in Employee, status \in Opening : CreateSchedule(e, status)
           \/ \E es \in SUBSET Employee : BulkCreateSchedules(es)
    PROVE  WeekInv' /\ Answers
<1>1. UNCHANGED pvars /\ UNCHANGED roster /\ edits' \in 0 .. MaxEdits
  BY WeekPlansAssumption DEF Edit, pvars, WeekInv, WTypeOK
<1>2. /\ staff \in [Employee -> EmployeeRow] /\ week \in [Employee -> WeeklySchedule \cup {Null}]
      /\ absence \in [Employee -> [Moment -> AvailabilityStatus \cup {Null}]]
  BY DEF WeekInv, WTypeOK
<1>3. staff' \in [Employee -> EmployeeRow] /\ UNCHANGED absence
  BY <1>2 DEF UpdateEmployee, DeleteEmployee, PublishSchedule, CreateSchedule, BulkCreateSchedules, EmployeeRow
<1>4. /\ week' \in [Employee -> WeeklySchedule \cup {Null}]
      /\ \A f \in Employee : week[f] \in {"assigned", "published"} => week'[f] \in {"assigned", "published"}
  <2>1. ASSUME NEW e \in Employee, PublishSchedule(e) PROVE <1>4!1 /\ <1>4!2
    BY <1>2, <2>1 DEF PublishSchedule, WeeklySchedule
  <2>2. ASSUME NEW e \in Employee, NEW status \in Opening, CreateSchedule(e, status) PROVE <1>4!1 /\ <1>4!2
    BY <1>2, <2>2, WeekPlansAssumption DEF CreateSchedule, Scheduled, WeeklySchedule
  <2>3. ASSUME NEW es \in SUBSET Employee, BulkCreateSchedules(es) PROVE <1>4!1 /\ <1>4!2
    BY <1>2, <2>3, WeekPlansAssumption DEF BulkCreateSchedules, Scheduled, WeeklySchedule
  <2>4. CASE UNCHANGED week
    BY <1>2, <2>4
  <2> QED
    BY <2>1, <2>2, <2>3, <2>4 DEF UpdateEmployee, DeleteEmployee
<1> QED
  BY <1>1, <1>2, <1>3, <1>4, EditKeeps

LEMMA AvailabilityAnswers ==
    ASSUME WeekInv, Edit, NEW e \in Employee, NEW status \in {"available", "off"}, NEW S,
           \A m \in S \cap Moment : absence[e][m] = Null,
           absence' = Recorded(e, S, status), UNCHANGED <<staff, week>>
    PROVE  WeekInv' /\ Answers
<1>1. UNCHANGED pvars /\ UNCHANGED roster /\ edits' \in 0 .. MaxEdits
  BY WeekPlansAssumption DEF Edit, pvars, WeekInv, WTypeOK
<1>2. /\ staff \in [Employee -> EmployeeRow] /\ week \in [Employee -> WeeklySchedule \cup {Null}]
      /\ absence \in [Employee -> [Moment -> AvailabilityStatus \cup {Null}]]
  BY DEF WeekInv, WTypeOK
<1>3. absence' \in [Employee -> [Moment -> AvailabilityStatus \cup {Null}]]
  BY <1>2 DEF Recorded, AvailabilityStatus
<1>4. \A f \in Employee, m \in Moment : absence[f][m] # Null => absence'[f][m] = absence[f][m]
  BY <1>2 DEF Recorded
<1> QED
  BY <1>1, <1>2, <1>3, <1>4, EditKeeps

LEMMA ShiftPosted ==
    ASSUME WeekInv, NEW s \in Shift, NEW e \in Employee, NEW of \in Employee, NEW m \in Moment,
           NEW status \in Posted, PostShift(s, e, of, m, status)
    PROVE  WeekInv' /\ Answers
<1> DEFINE new == [of |-> of, at |-> m]
<1>1. CreateShift(s, e, status) /\ roster' = [roster EXCEPT ![s] = new] /\ UNCHANGED <<staff, absence, week, edits>>
  BY DEF PostShift
<1>2. StaffInv' /\ PTypeOK'
  BY <1>1, ShiftMade DEF WeekInv, StaffInv, ReplInv
<1>3. \A t \in Shift : shift'[t] = IF t = s THEN [on |-> e, status |-> status] ELSE shift[t]
  BY <1>1 DEF CreateShift, WeekInv, StaffInv, ReplInv, PTypeOK
<1>4. new \in ShiftSlot /\ new # Null
  BY WeekPlansAssumption DEF ShiftSlot
<1>5. \A t \in Shift : roster'[t] = IF t = s THEN new ELSE roster[t]
  BY <1>1 DEF WeekInv, WTypeOK
<1>6. roster' \in [Shift -> ShiftSlot \cup {Null}]
  BY <1>1, <1>4 DEF WeekInv, WTypeOK
<1>7. \A t \in Shift : (roster'[t] = Null) = (shift'[t].status = "none")
  BY <1>3, <1>4, <1>5, ReplacementsAssumption DEF WeekInv, WTypeOK, ShiftStatus
<1>8. WeekInv'
  BY <1>1, <1>2, <1>6, <1>7 DEF WeekInv, WTypeOK
<1>9. ASSUME NEW t \in Critical PROVE t \in Critical' /\ shift'[t].on = shift[t].on
  <2>1. PICK f \in Employee : week[f] \in {"assigned", "published"} /\ t \in Conflicts(f)
    BY <1>9 DEF Critical
  <2>2. t \in Shift /\ roster[t] # Null
    BY <2>1 DEF Conflicts
  <2>3. t # s
    BY <1>1, <2>2 DEF CreateShift, WeekInv, WTypeOK
  <2>4. shift'[t] = shift[t] /\ roster'[t] = roster[t]
    BY <1>3, <1>5, <2>2, <2>3
  <2>5. t \in Conflicts(f)'
    BY <1>1, <2>1, <2>4 DEF Conflicts, Away
  <2> QED
    BY <1>1, <2>1, <2>4, <2>5 DEF Critical
<1>10. \A o, n, d : o \notin Recommended(o, n, d)
  BY DEF Recommended
<1> QED
  BY <1>8, <1>9, <1>10 DEF Answers

\* A shift is given to somebody else, who is not away when recommended.
LEMMA ReplacementAnswers ==
    ASSUME WeekInv, Replaces
    PROVE  WeekInv' /\ Answers
<1>1. PAfter /\ UNCHANGED planned
  BY DEF Replaces
<1>2. StaffInv' /\ \A s \in Shift : (shift'[s].status = "none") = (shift[s].status = "none")
  BY <1>1, ReplacementKeepsShifts DEF WeekInv
<1>3. WeekInv'
  BY <1>1, <1>2 DEF WeekInv, WTypeOK, planned, StaffInv, ReplInv
<1>4. ASSUME NEW s \in Critical, shift'[s].on = shift[s].on PROVE s \in Critical'
  BY <1>1, <1>4 DEF Critical, Conflicts, Away, planned
<1>5. ASSUME NEW s \in Critical, NEW d, shift'[s].on \in Recommended(shift[s].on, roster[s].at, d)
      PROVE  s \notin Critical'
  <2>1. absence[shift'[s].on][roster[s].at] \in {Null, "available"}
    BY <1>5 DEF Recommended, AvailableEmployees
  <2>2. ~Away(shift'[s].on, roster[s].at)
    BY <2>1, WeekPlansAssumption DEF Away, AvailabilityStatus
  <2>3. ~Away(shift[s].on, roster[s].at)'
    BY <1>1, <2>2 DEF Away, planned
  <2> QED
    BY <2>3 DEF Critical, Conflicts
<1> QED
  BY <1>3, <1>4, <1>5 DEF Answers

LEMMA WeekStep ==
    ASSUME WeekInv, WNext
    PROVE  WeekInv' /\ Answers
<1>1. ASSUME \/ \E e \in Employee : DeleteEmployee(e) \/ PublishSchedule(e)
             \/ \E e \in Employee, active \in BOOLEAN : UpdateEmployee(e, active)
             \/ \E e \in Employee, status \in Opening : CreateSchedule(e, status)
             \/ \E es \in SUBSET Employee : BulkCreateSchedules(es)
      PROVE  WeekInv' /\ Answers
  <2>1. Edit
    BY <1>1 DEF DeleteEmployee, PublishSchedule, UpdateEmployee, CreateSchedule, BulkCreateSchedules
  <2> QED
    BY <1>1, <2>1, EditsAnswer
<1>2. ASSUME NEW e \in Employee, NEW status \in {"available", "off"}, NEW m \in Moment, CreateAvailability(e, m, status)
      PROVE  WeekInv' /\ Answers
  BY <1>2, AvailabilityAnswers DEF CreateAvailability
<1>3. ASSUME NEW e \in Employee, NEW status \in {"available", "off"}, NEW from \in Moment, NEW to \in Moment,
             BulkCreateAvailability(e, from, to, status)
      PROVE  WeekInv' /\ Answers
  <2> DEFINE days == from .. to
  <2>1. Edit /\ (\A m \in days \cap Moment : absence[e][m] = Null) /\ absence' = Recorded(e, days, status)
        /\ UNCHANGED <<staff, week>>
    BY <1>3 DEF BulkCreateAvailability
  <2> HIDE DEF days
  <2> QED
    BY <2>1, AvailabilityAnswers
<1> QED
  BY <1>1, <1>2, <1>3, ReplacementAnswers, ShiftPosted DEF WNext

LEMMA WeekInit == WInit => WeekInv
<1> SUFFICES ASSUME WInit PROVE WeekInv
  OBVIOUS
<1>1. ReplInv
  BY ReplacementInit DEF WInit
<1>2. StaffInv
  BY <1>1 DEF WInit, PInit, StaffInv, Vacant
<1>3. staff \in [Employee -> EmployeeRow] /\ edits \in 0 .. MaxEdits
  BY WeekPlansAssumption DEF WInit, EmployeeRow
<1>4. absence \in [Employee -> [Moment -> AvailabilityStatus \cup {Null}]]
  BY DEF WInit, AvailabilityStatus
<1>5. week \in [Employee -> WeeklySchedule \cup {Null}]
  BY WeekPlansAssumption DEF WInit
<1>6. /\ roster \in [Shift -> ShiftSlot \cup {Null}]
      /\ \A s \in Shift : (roster[s] = Null) = (shift[s].status = "none")
  BY DEF WInit, PInit
<1> QED
  BY <1>1, <1>2, <1>3, <1>4, <1>5, <1>6 DEF WeekInv, WTypeOK, ReplInv

LEMMA WeekKept == WeekInv /\ UNCHANGED wvars => WeekInv'
<1> SUFFICES ASSUME WeekInv, UNCHANGED wvars PROVE WeekInv'
  OBVIOUS
<1>1. ReplInv'
  BY ReplacementStep DEF WeekInv, StaffInv, wvars, pvars
<1> QED
  BY <1>1 DEF wvars, WeekInv, WTypeOK, StaffInv, ReplInv

\* For any week, employees and shifts: an alarm on the dashboard stays until
\* its shift is given to somebody else, and goes when that is one of those who
\* were recommended for it (detect_schedule_conflicts, get_ai_recommendations).
THEOREM AlarmsAreAnswered == WSpec => AlarmsAnswered
<1>1. WeekInv /\ [WNext]_wvars => WeekInv'
  BY WeekStep, WeekKept
<1>2. WeekInv /\ [WNext]_wvars => [Answers]_wvars
  BY WeekStep
<1> QED
  BY <1>1, <1>2, WeekInit, PTL DEF WSpec, AlarmsAnswered

-----------------------------------------------------------------------------
(* Syncs with the channel manager. *)

Syncing == {"fetch", "upsert", "availability", "finish"}

\* What the window of a sync asks for, and what it has asked for so far.
Window(t) ==
    IF provider = "mews" THEN Colliding(t.from, t.from + Ahead + 1) ELSE Arriving(t.from, t.from + Ahead)
Reached(t) ==
    CASE provider = "mews" -> IF t.step = 0 THEN {} ELSE Colliding(t.from, t.from + t.step * INTERVAL_DAYS)
      [] provider = "cloudbeds" -> {x \in Window(t) : Offset(x, Window(t)) < t.step * PAGE_SIZE}
      [] OTHER -> {}

\* What was fetched is up to date, and complete, unless it was touched since;
\* one touch may move all of Cloudbeds' pages.
UpToDate(t) ==
    /\ DOMAIN t.got \subseteq Ext
    /\ \A x \in DOMAIN t.got \ t.touched : t.got[x] = Unified(pms[x], StatusOf(pms[x].state))
Complete(t) ==
    (provider = "cloudbeds" => t.touched = {}) =>
        (IF t.pc = "fetch" THEN Reached(t) ELSE Window(t)) \ t.touched \subseteq DOMAIN t.got

SyncInv == VTypeOK /\ \A k \in Desk : desk[k].pc \in Syncing => UpToDate(desk[k]) /\ Complete(desk[k])

LEMMA VacantDesk == Vacant.pc = "idle" /\ Vacant.pc \notin Syncing
BY DEF Vacant, Syncing

LEMMA DeskTypes ==
    ASSUME VTypeOK, NEW k \in Desk
    PROVE  /\ desk[k].pc \in Syncing => desk[k] # Vacant /\ desk[k] \in Sync(desk[k].got) /\ Fetchable(desk[k].got)
           /\ desk[k].pc = "notice" => desk[k] # Vacant /\ Fetchable(desk[k].got)
           /\ desk[k] = Vacant \/ desk[k].pc \in Syncing \/ desk[k].pc = "notice"
BY VacantDesk DEF VTypeOK, Syncing, Sync, Notice

LEMMA StatusTypes ==
    ASSUME NEW s \in State
    PROVE  StatusOf(s) \in UnifiedStatus /\ Coarse(s) \in UnifiedStatus
BY DEF State, UnifiedStatus, StatusOf, Coarse, MewsStatus, CloudbedsStatus

LEMMA UnifiedTypes ==
    ASSUME NEW r \in Kept, NEW s \in UnifiedStatus
    PROVE  Unified(r, s) \in Reservation
BY DEF Kept, Unified, Reservation

LEMMA OverTypes ==
    ASSUME VTypeOK, NEW got, Fetchable(got)
    PROVE  Over(got, reservations) \in [Ext \cup Stamp -> {Null} \cup Reservation]
BY DEF VTypeOK, Fetchable, Over

\* One desk changes; the provider does not.
LEMMA DeskMoves ==
    ASSUME SyncInv, NEW k \in Desk, NEW t, Goto(k, t), UNCHANGED <<today, provider, pms, notices>>,
           connection' \in {"active", "error", "disconnected"},
           reservations' \in [Ext \cup Stamp -> {Null} \cup Reservation],
           t # Vacant => t \in Sync(t.got) \cup Notice(t.got) /\ Fetchable(t.got),
           t.pc \in Syncing => UpToDate(t) /\ Complete(t)
    PROVE  SyncInv'
<1>1. \A j \in Desk : desk'[j] = IF j = k THEN t ELSE desk[j]
  BY DEF Goto, SyncInv, VTypeOK
<1>2. desk' = [j \in Desk |-> desk'[j]]
  BY DEF Goto, SyncInv, VTypeOK
<1>3. VTypeOK'
  BY <1>1, <1>2 DEF SyncInv, VTypeOK, Sync, Notice, Fetchable
<1>4. ASSUME NEW j \in Desk, desk'[j].pc \in Syncing PROVE (UpToDate(desk[j]) /\ Complete(desk[j]))'
  <2>1. UpToDate(desk'[j]) /\ Complete(desk'[j])
    BY <1>1, <1>4 DEF SyncInv
  <2> QED
    BY <2>1 DEF UpToDate, Complete, Reached, Window, Arriving, Colliding, StatusOf
<1> QED
  BY <1>3, <1>4 DEF SyncInv

LEMMA DeskLeaves ==
    ASSUME SyncInv, NEW k \in Desk, Goto(k, Vacant), UNCHANGED <<today, provider, pms, notices>>,
           connection' \in {"active", "error", "disconnected"},
           reservations' \in [Ext \cup Stamp -> {Null} \cup Reservation]
    PROVE  SyncInv'
BY DeskMoves, VacantDesk

LEMMA SyncStarts ==
    ASSUME SyncInv, NEW k \in Desk, Goto(k, SyncBegins(k)), UNCHANGED <<today, provider, pms, notices, reservations>>,
           connection' \in {"active", "error", "disconnected"}
    PROVE  SyncInv'
<1> DEFINE t == SyncBegins(k)
<1>1. t.got = [x \in {} |-> Null] /\ t.pc = "fetch" /\ t.step = 0 /\ t.touched = {} /\ t.from = today
  BY DEF SyncBegins
<1>2. today \in Nat /\ reservations \in [Ext \cup Stamp -> {Null} \cup Reservation]
  BY ReservationsAssumption DEF SyncInv, VTypeOK
<1>3. t \in Sync(t.got) /\ Fetchable(t.got)
  BY <1>2 DEF SyncBegins, Sync, Fetchable
<1>4. UpToDate(t)
  BY <1>1 DEF UpToDate
<1>5. Reached(t) = {}
  <2>1. \A x : Offset(x, Window(t)) \in Nat
    <3>1. ASSUME NEW x PROVE Offset(x, Window(t)) \in Nat
      <4>1. {y \in Window(t) : Listing[y] < Listing[x]} \subseteq Ext
        BY DEF Window, Arriving, Colliding
      <4> QED
        BY <4>1, FS_Subset, FS_CardinalityType, ReservationsAssumption DEF Offset
    <3> QED
      BY <3>1
  <2> QED
    BY <1>1, <2>1, ReservationsAssumption DEF Reached
<1>6. Complete(t)
  BY <1>1, <1>5 DEF Complete
<1>7. Goto(k, t) /\ reservations' \in [Ext \cup Stamp -> {Null} \cup Reservation]
  BY <1>2
<1> HIDE DEF t
<1> QED
  BY <1>3, <1>4, <1>6, <1>7, DeskMoves

\* An answer of the provider.
LEMMA AnswerJoins ==
    ASSUME SyncInv, NEW k \in Desk, desk[k].pc = "fetch", NEW S \in SUBSET Ext, NEW part, NEW done \in BOOLEAN,
           part = [x \in S |-> Unified(pms[x], StatusOf(pms[x].state))],
           \A x \in S : pms[x] # Null,
           Fetched(k, part, done),
           (IF done THEN Window(desk[k]) ELSE Reached([desk[k] EXCEPT !.step = @ + 1]))
               \subseteq Reached(desk[k]) \cup S
    PROVE  SyncInv'
<1> DEFINE d == desk[k]
           got == Over(part, d.got)
           pc == IF done THEN "upsert" ELSE "fetch"
           t == [pc |-> pc, from |-> d.from, step |-> d.step + 1, got |-> got, touched |-> d.touched]
<1>1. d \in Sync(d.got) /\ Fetchable(d.got) /\ UpToDate(d) /\ Complete(d)
  BY DeskTypes DEF SyncInv, Syncing
<1>2. Goto(k, t)
  <2>1. Goto(k, [d EXCEPT !.got = got, !.step = d.step + 1, !.pc = pc])
    BY DEF Fetched
  <2>2. d = [pc |-> d.pc, from |-> d.from, step |-> d.step, got |-> d.got, touched |-> d.touched]
    BY <1>1 DEF Sync
  <2> DEFINE d1 == [pc |-> d.pc, from |-> d.from, step |-> d.step, got |-> got, touched |-> d.touched]
             d2 == [pc |-> d.pc, from |-> d.from, step |-> d.step + 1, got |-> got, touched |-> d.touched]
  <2> HIDE DEF got, pc, d
  <2>3. [d EXCEPT !.got = got, !.step = d.step + 1, !.pc = pc]
            = [[[d EXCEPT !.got = got] EXCEPT !.step = d.step + 1] EXCEPT !.pc = pc]
    BY <2>2
  <2>4. [d EXCEPT !.got = got] = d1
    BY <2>2
  <2>5. [d1 EXCEPT !.step = d.step + 1] = d2
    OBVIOUS
  <2>6. [d2 EXCEPT !.pc = pc] = t
    OBVIOUS
  <2>7. [d EXCEPT !.got = got, !.step = d.step + 1, !.pc = pc] = t
    <3> HIDE DEF d1, d2, t
    <3> QED
      BY <2>3, <2>4, <2>5, <2>6
  <2> QED
    BY <2>1, <2>7
<1>3. \A x \in S : part[x] \in Reservation
  BY StatusTypes, UnifiedTypes DEF SyncInv, VTypeOK, Kept
<1>4. DOMAIN got = S \cup DOMAIN d.got /\ \A x \in DOMAIN got : got[x] = IF x \in S THEN part[x] ELSE d.got[x]
  BY DEF Over
<1>5. Fetchable(got)
  BY <1>1, <1>3, <1>4 DEF Fetchable, Over
<1>6. t \in Sync(t.got) /\ t.pc \in Syncing
  BY <1>1 DEF Sync, Syncing
<1>7. UpToDate(t)
  BY <1>1, <1>4 DEF UpToDate
<1>8. Window(t) = Window(d) /\ Reached(t) = Reached([d EXCEPT !.step = @ + 1])
  BY <1>1 DEF Window, Reached, Sync
<1>9. Complete(t)
  <2>1. SUFFICES ASSUME provider = "cloudbeds" => t.touched = {}
                 PROVE  (IF done THEN Window(t) ELSE Reached(t)) \ d.touched \subseteq S \cup DOMAIN d.got
    BY <1>4 DEF Complete
  <2>2. Reached(d) \ d.touched \subseteq DOMAIN d.got
    BY <1>1, <2>1 DEF Complete
  <2> QED
    BY <1>8, <2>2
<1>10. t.got = got
  OBVIOUS
<1>11. connection' \in {"active", "error", "disconnected"} /\ reservations' \in [Ext \cup Stamp -> {Null} \cup Reservation]
       /\ UNCHANGED <<today, provider, pms, notices>>
  BY DEF Fetched, SyncInv, VTypeOK
<1> HIDE DEF t, got
<1> QED
  BY <1>2, <1>5, <1>6, <1>7, <1>9, <1>10, <1>11, DeskMoves

LEMMA AllAtOnce ==
    ASSUME SyncInv, NEW k \in Desk, FetchChannex(k) \/ FetchLittleHotelier(k) \/ FetchSiteMinder(k)
    PROVE  SyncInv'
<1> DEFINE S == Arriving(desk[k].from, Until(k))
<1>1. provider \notin {"mews", "cloudbeds"} /\ desk[k].pc = "fetch" /\ Fetched(k, AtOnce(k), TRUE)
  BY DEF FetchChannex, FetchLittleHotelier, FetchSiteMinder, Fetches
<1>2. AtOnce(k) = [x \in S |-> Unified(pms[x], StatusOf(pms[x].state))]
  BY <1>1 DEF AtOnce, StatusOf
<1>3. S \subseteq Ext /\ (\A x \in S : pms[x] # Null) /\ Window(desk[k]) = S
  BY <1>1 DEF Arriving, Window, Until
<1> HIDE DEF S
<1> QED
  BY <1>1, <1>2, <1>3, AnswerJoins

LEMMA PageFetched ==
    ASSUME SyncInv, NEW k \in Desk, FetchCloudbeds(k)
    PROVE  SyncInv'
<1> DEFINE d == desk[k]
           list == Listed(k)
           n == d.step * PAGE_SIZE
           done == (d.step + 1) * PAGE_SIZE >= Cardinality(list)
           part == [x \in Page(k) |-> Unified(pms[x], CloudbedsStatus(pms[x].state))]
<1>1. provider = "cloudbeds" /\ d.pc = "fetch" /\ Fetched(k, part, done)
  BY DEF FetchCloudbeds, Fetches
<1>2. d \in Sync(d.got)
  BY <1>1, DeskTypes DEF SyncInv, Syncing
<1>3. part = [x \in Page(k) |-> Unified(pms[x], StatusOf(pms[x].state))]
  BY <1>1 DEF StatusOf
<1>4. list \subseteq Ext /\ Window(d) = list /\ Page(k) \subseteq list /\ \A x \in list : pms[x] # Null
  BY <1>1 DEF Listed, Arriving, Window, Until, Page
<1>5. IsFiniteSet(list) /\ Cardinality(list) \in Nat
  BY <1>4, FS_Subset, FS_CardinalityType, ReservationsAssumption
<1>6. ASSUME NEW x \in list PROVE Offset(x, list) \in Nat /\ Offset(x, list) < Cardinality(list)
  <2> DEFINE before == {y \in list : Listing[y] < Listing[x]}
  <2>1. before \subseteq list \ {x}
    BY <1>4, ReservationsAssumption
  <2>2. Cardinality(list \ {x}) = Cardinality(list) - 1 /\ IsFiniteSet(list \ {x})
    BY <1>5, FS_RemoveElement
  <2>3. Cardinality(before) =< Cardinality(list \ {x}) /\ Cardinality(before) \in Nat
    BY <2>1, <2>2, FS_Subset, FS_CardinalityType
  <2> QED
    BY <1>5, <2>2, <2>3 DEF Offset
<1>7. n \in Nat /\ (d.step + 1) * PAGE_SIZE = n + PAGE_SIZE /\ PAGE_SIZE \in Nat
  BY <1>2, ReservationsAssumption DEF Sync
<1>8. Page(k) = {x \in list : n =< Offset(x, list) /\ Offset(x, list) < n + PAGE_SIZE}
  BY <1>6, <1>7 DEF Page
<1>9. Reached(d) = {x \in list : Offset(x, list) < n}
  BY <1>1, <1>4 DEF Reached
<1>10. Reached([d EXCEPT !.step = @ + 1]) = {x \in list : Offset(x, list) < n + PAGE_SIZE}
  BY <1>1, <1>2, <1>4, <1>7 DEF Reached, Window, Sync
<1>11. Reached([d EXCEPT !.step = @ + 1]) \subseteq Reached(d) \cup Page(k)
  BY <1>6, <1>7, <1>8, <1>9, <1>10
<1>12. done => Window(d) \subseteq Reached(d) \cup Page(k)
  BY <1>4, <1>5, <1>6, <1>7, <1>8, <1>9
<1>13. done \in BOOLEAN
  OBVIOUS
<1> HIDE DEF done, part, n
<1> QED
  BY <1>1, <1>3, <1>4, <1>11, <1>12, <1>13, AnswerJoins

LEMMA IntervalFetched ==
    ASSUME SyncInv, NEW k \in Desk, FetchMews(k)
    PROVE  SyncInv'
<1> DEFINE d == desk[k]
           start == d.from + d.step * INTERVAL_DAYS
           end == IF start + INTERVAL_DAYS < RangeEnd(k) THEN start + INTERVAL_DAYS ELSE RangeEnd(k)
           S == Colliding(start, end)
           part == [x \in S |-> Unified(pms[x], MewsStatus(pms[x].state))]
           done == (end = RangeEnd(k))
<1>1. provider = "mews" /\ d.pc = "fetch" /\ Fetched(k, part, done)
  BY DEF FetchMews, Fetches
<1>2. d \in Sync(d.got)
  BY <1>1, DeskTypes DEF SyncInv, Syncing
<1>3. part = [x \in S |-> Unified(pms[x], StatusOf(pms[x].state))]
  BY <1>1 DEF StatusOf
<1>4. S \subseteq Ext /\ \A x \in S : pms[x] # Null
  BY DEF Colliding
<1>5. d.step \in Nat /\ d.from \in Nat /\ Ahead \in Nat /\ INTERVAL_DAYS \in Nat /\ d.step * INTERVAL_DAYS \in Nat
      /\ (d.step + 1) * INTERVAL_DAYS = d.step * INTERVAL_DAYS + INTERVAL_DAYS /\ d.step + 1 # 0
  BY <1>2, ReservationsAssumption DEF Sync
<1>6. start \in Int /\ end \in Int /\ RangeEnd(k) = d.from + Ahead + 1
  BY <1>5 DEF RangeEnd, Until
<1>7. d.step = 0 => start = d.from
  BY <1>5, ReservationsAssumption
<1>8. Reached(d) = IF d.step = 0 THEN {} ELSE Colliding(d.from, start)
  BY <1>1 DEF Reached
<1>9. Colliding(d.from, end) \subseteq Reached(d) \cup S
  <2>1. SUFFICES ASSUME NEW x \in Colliding(d.from, end), x \notin Reached(d) PROVE x \in S
    OBVIOUS
  <2>2. x \in Ext /\ pms[x] # Null /\ pms[x] \in Kept /\ pms[x].in =< pms[x].out /\ pms[x].in < end /\ d.from =< pms[x].out
    BY <2>1 DEF Colliding, SyncInv, VTypeOK
  <2>3. pms[x].in \in Int /\ pms[x].out \in Int
    BY <2>2 DEF Kept
  <2>4. d.step = 0 \/ ~(pms[x].in < start)
    BY <1>8, <2>1, <2>2 DEF Colliding
  <2>5. start =< pms[x].out
    BY <1>6, <1>7, <2>2, <2>3, <2>4
  <2> QED
    BY <2>2, <2>5 DEF Colliding
<1>10. done => Window(d) \subseteq Reached(d) \cup S
  BY <1>1, <1>6, <1>9 DEF Window
<1>11. ~done => Reached([d EXCEPT !.step = @ + 1]) \subseteq Reached(d) \cup S
  <2>1. SUFFICES ASSUME ~done PROVE Reached([d EXCEPT !.step = @ + 1]) = Colliding(d.from, end)
    BY <1>9
  <2>2. end = d.from + (d.step + 1) * INTERVAL_DAYS
    BY <1>5, <2>1
  <2>3. [d EXCEPT !.step = @ + 1].step = d.step + 1 /\ [d EXCEPT !.step = @ + 1].from = d.from
    BY <1>2 DEF Sync
  <2> QED
    BY <1>1, <1>5, <2>2, <2>3 DEF Reached
<1>12. done \in BOOLEAN
  OBVIOUS
<1> HIDE DEF done, part, S
<1> QED
  BY <1>1, <1>3, <1>4, <1>10, <1>11, <1>12, AnswerJoins

\* Something happens at the provider, and the syncs that began before it.
LEMMA ProviderMoves ==
    ASSUME SyncInv, NEW x \in Ext, NEW r \in Kept, r.in =< r.out, Happens(x, r)
    PROVE  SyncInv'
<1> DEFINE touch(t) == [t EXCEPT !.touched = @ \cup {x}]
<1>1. UNCHANGED <<today, provider, connection, reservations>> /\ pms' = [pms EXCEPT ![x] = r]
  BY DEF Happens
<1>2. \A k \in Desk : desk'[k] = IF desk[k].pc \in Syncing THEN touch(desk[k]) ELSE desk[k]
  BY DeskTypes, VacantDesk DEF Happens, SyncInv, Syncing
<1>3. desk' = [k \in Desk |-> desk'[k]]
  BY DEF Happens
<1>4. \A y \in Ext : pms'[y] = IF y = x THEN r ELSE pms[y]
  BY <1>1 DEF SyncInv, VTypeOK
<1>5. pms' \in [Ext -> {Null} \cup Kept] /\ \A y \in Ext : pms'[y] # Null => pms'[y].in =< pms'[y].out
  BY <1>1, <1>4 DEF SyncInv, VTypeOK
<1>6. \A sent \in notices' : sent.id \in Ext \cup {Null} /\ sent.of \in Kept
  BY DEF Happens, SyncInv, VTypeOK
<1>7. ASSUME NEW k \in Desk, desk[k].pc \in Syncing
      PROVE  /\ desk'[k] \in Sync(desk'[k].got) /\ desk'[k].got = desk[k].got /\ desk'[k].pc = desk[k].pc
             /\ desk'[k].from = desk[k].from /\ desk'[k].step = desk[k].step
             /\ desk'[k].touched = desk[k].touched \cup {x}
             /\ desk[k].touched \subseteq Ext /\ desk'[k] # Vacant
  <2>1. desk[k] \in Sync(desk[k].got)
    BY <1>7, DeskTypes DEF SyncInv
  <2>2. desk'[k] = [pc |-> desk[k].pc, from |-> desk[k].from, step |-> desk[k].step, got |-> desk[k].got,
                    touched |-> desk[k].touched \cup {x}]
    BY <1>2, <1>7, <2>1 DEF Sync
  <2>3. desk[k].touched \in SUBSET Ext
    BY <2>1 DEF Sync
  <2>4. desk'[k].pc = desk[k].pc /\ desk'[k].pc # Vacant.pc
    BY <1>7, <2>2, VacantDesk
  <2> QED
    BY <2>1, <2>2, <2>3, <2>4 DEF Sync
<1>8. ASSUME NEW k \in Desk, desk'[k] # Vacant
      PROVE  desk'[k] \in Sync(desk'[k].got) \cup Notice(desk'[k].got) /\ Fetchable(desk'[k].got)
  <2>1. CASE desk[k].pc \in Syncing
    BY <1>7, <2>1, DeskTypes DEF SyncInv
  <2>2. CASE desk[k].pc \notin Syncing
    BY <1>2, <1>8, <2>2 DEF SyncInv, VTypeOK
  <2> QED
    BY <2>1, <2>2
<1>9. VTypeOK'
  BY <1>1, <1>3, <1>5, <1>6, <1>8 DEF SyncInv, VTypeOK, Sync, Notice, Fetchable
<1>10. ASSUME NEW k \in Desk, desk'[k].pc \in Syncing PROVE UpToDate(desk[k])' /\ Complete(desk[k])'
  <2> DEFINE d == desk[k]
  <2>1. d.pc \in Syncing
    BY <1>2, <1>10
  <2>2. UpToDate(d) /\ Complete(d)
    BY <2>1 DEF SyncInv
  <2>3. UpToDate(desk[k])'
    BY <1>1, <1>4, <1>7, <2>1, <2>2 DEF UpToDate, StatusOf
  <2>4. CASE provider = "cloudbeds"
    <3>1. provider' = "cloudbeds" /\ x \in desk'[k].touched
      BY <1>1, <1>7, <2>1, <2>4
    <3> QED
      BY <2>3, <3>1 DEF Complete
  <2>5. CASE provider # "cloudbeds"
    <3>1. /\ \A a, b : Arriving(a, b)' \ {x} \subseteq Arriving(a, b)
          /\ \A a, b : Colliding(a, b)' \ {x} \subseteq Colliding(a, b)
      BY <1>4 DEF Arriving, Colliding
    <3>2. Window(desk[k])' \ {x} \subseteq Window(d)
      BY <1>1, <1>7, <2>1, <3>1 DEF Window
    <3>3. Reached(desk[k])' \ {x} \subseteq Reached(d)
      BY <1>1, <1>7, <2>1, <2>5, <3>1 DEF Reached
    <3>4. (IF d.pc = "fetch" THEN Reached(d) ELSE Window(d)) \ d.touched \subseteq DOMAIN d.got
      BY <2>2, <2>5 DEF Complete
    <3>5. /\ desk'[k].pc = d.pc /\ desk'[k].got = d.got /\ desk'[k].touched = d.touched \cup {x}
      BY <1>7, <2>1
    <3>6. (IF d.pc = "fetch" THEN Reached(desk[k])' ELSE Window(desk[k])') \ desk'[k].touched \subseteq DOMAIN d.got
      BY <3>2, <3>3, <3>4, <3>5
    <3> QED
      BY <2>3, <3>5, <3>6 DEF Complete
  <2> QED
    BY <2>3, <2>4, <2>5
<1> QED
  BY <1>9, <1>10 DEF SyncInv

LEMMA ProviderStep ==
    ASSUME SyncInv, NEW x \in Ext, Books(x) \/ Proceeds(x) \/ Reschedules(x)
    PROVE  SyncInv'
<1>1. pms[x] # Null => pms[x] \in Kept /\ pms[x].in =< pms[x].out
  BY DEF SyncInv, VTypeOK
<1>2. CASE Books(x)
  <2>1. PICK s \in GuestStay, state \in {"requested", "confirmed"} :
           Happens(x, [state |-> state, in |-> s.in, out |-> s.out])
    BY <1>2 DEF Books
  <2> DEFINE r == [state |-> state, in |-> s.in, out |-> s.out]
  <2>2. r \in Kept /\ r.in =< r.out
    BY ReservationsAssumption DEF Kept, State
  <2> HIDE DEF r
  <2>3. Happens(x, r)
    BY <2>1 DEF r
  <2> QED
    BY <2>2, <2>3, ProviderMoves
<1>3. CASE Proceeds(x)
  <2>1. PICK s \in Becomes(pms[x].state) : Happens(x, [pms[x] EXCEPT !.state = s])
    BY <1>3 DEF Proceeds
  <2> DEFINE r == [pms[x] EXCEPT !.state = s]
  <2>2. s \in State
    BY <2>1 DEF Becomes, State
  <2>3. r \in Kept /\ r.in =< r.out
    BY <1>1, <1>3, <2>2 DEF Proceeds, Kept
  <2> HIDE DEF r
  <2>4. Happens(x, r)
    BY <2>1 DEF r
  <2> QED
    BY <2>3, <2>4, ProviderMoves
<1>4. CASE Reschedules(x)
  <2>1. PICK s \in GuestStay : Happens(x, [pms[x] EXCEPT !.in = s.in, !.out = s.out])
    BY <1>4 DEF Reschedules
  <2> DEFINE r == [pms[x] EXCEPT !.in = s.in, !.out = s.out]
  <2>2. r \in Kept /\ r.in =< r.out
    BY <1>1, <1>4, ReservationsAssumption DEF Reschedules, Kept
  <2> HIDE DEF r
  <2>3. Happens(x, r)
    BY <2>1 DEF r
  <2> QED
    BY <2>2, <2>3, ProviderMoves
<1> QED
  BY <1>2, <1>3, <1>4

LEMMA SyncGoesOn ==
    ASSUME SyncInv, NEW k \in Desk, Upsert(k) \/ FetchAvailability(k)
    PROVE  SyncInv'
<1> DEFINE d == desk[k]
<1>1. PICK pc \in {"availability", "finish"} : Goto(k, [d EXCEPT !.pc = pc])
  BY DEF Upsert, FetchAvailability
<1>2. d.pc \in {"upsert", "availability"} /\ UNCHANGED <<today, provider, connection, pms, notices, reservations>>
  BY DEF Upsert, FetchAvailability
<1>3. d \in Sync(d.got) /\ Fetchable(d.got) /\ UpToDate(d) /\ Complete(d)
  BY <1>2, DeskTypes DEF SyncInv, Syncing
<1> DEFINE t == [pc |-> pc, from |-> d.from, step |-> d.step, got |-> d.got, touched |-> d.touched]
<1>4. [d EXCEPT !.pc = pc] = t
  BY <1>3 DEF Sync
<1>5. t \in Sync(t.got) /\ Fetchable(t.got)
  BY <1>3 DEF Sync
<1>6. UpToDate(t) /\ Complete(t)
  BY <1>2, <1>3 DEF UpToDate, Complete, Window
<1>7. connection' \in {"active", "error", "disconnected"} /\ reservations' \in [Ext \cup Stamp -> {Null} \cup Reservation]
  BY <1>2 DEF SyncInv, VTypeOK
<1> HIDE DEF t
<1> QED
  BY <1>1, <1>2, <1>4, <1>5, <1>6, <1>7, DeskMoves

LEMMA RowsStored ==
    ASSUME SyncInv, NEW k \in Desk, SyncSucceeds(k) \/ NoticeStored(k)
    PROVE  SyncInv'
<1>1. Fetchable(desk[k].got)
  BY DeskTypes DEF SyncSucceeds, NoticeStored, Syncing, SyncInv
<1>2. reservations' \in [Ext \cup Stamp -> {Null} \cup Reservation]
  BY <1>1, OverTypes DEF SyncSucceeds, NoticeStored, SyncInv
<1>3. connection' \in {"active", "error", "disconnected"}
  BY DEF SyncSucceeds, NoticeStored, SyncInv, VTypeOK
<1> QED
  BY <1>2, <1>3, DeskLeaves DEF SyncSucceeds, NoticeStored

LEMMA DeskAbandons ==
    ASSUME SyncInv, NEW k \in Desk, SyncFails(k) \/ WorkerDies(k)
    PROVE  SyncInv'
<1>1. /\ connection' \in {"active", "error", "disconnected"}
      /\ reservations' \in [Ext \cup Stamp -> {Null} \cup Reservation]
  BY DEF SyncFails, WorkerDies, SyncInv, VTypeOK
<1> QED
  BY <1>1, DeskLeaves DEF SyncFails, WorkerDies

LEMMA NoticeComes ==
    ASSUME SyncInv, NEW k \in Desk, NEW sent \in notices, NoticeArrives(k, sent)
    PROVE  SyncInv'
<1>1. PICK x \in IdOf(sent) :
         Goto(k, [pc |-> "notice", got |-> [y \in {x} |-> Unified(sent.of, Coarse(sent.of.state))]])
  BY DEF NoticeArrives
<1> DEFINE got == [y \in {x} |-> Unified(sent.of, Coarse(sent.of.state))]
           t == [pc |-> "notice", got |-> got]
<1>2. sent.id \in Ext \cup {Null} /\ sent.of \in Kept
  BY DEF SyncInv, VTypeOK
<1>3. x \in Ext \cup Stamp
  BY <1>2 DEF IdOf
<1>4. Unified(sent.of, Coarse(sent.of.state)) \in Reservation
  BY <1>2, StatusTypes, UnifiedTypes DEF Kept
<1>5. t.got = got /\ t.pc = "notice"
  OBVIOUS
<1>6. Fetchable(got)
  BY <1>3, <1>4 DEF Fetchable
<1>7. t \in Notice(t.got) /\ t.pc \notin Syncing
  BY DEF Notice, Syncing
<1>8. UNCHANGED <<today, provider, connection, pms, notices, reservations>>
  BY DEF NoticeArrives
<1>9. connection' \in {"active", "error", "disconnected"} /\ reservations' \in [Ext \cup Stamp -> {Null} \cup Reservation]
  BY <1>8 DEF SyncInv, VTypeOK
<1> HIDE DEF t, got
<1>10. Goto(k, t)
  BY <1>1 DEF t, got
<1> QED
  BY <1>5, <1>6, <1>7, <1>8, <1>9, <1>10, DeskMoves

LEMMA ReservationStep ==
    ASSUME SyncInv, [VNext]_vvars
    PROVE  SyncInv'
<1>1. ASSUME Midnight \/ Disconnect \/ UNCHANGED vvars PROVE SyncInv'
  <2>1. UNCHANGED <<provider, pms, notices, reservations, desk>> /\ connection' \in {"active", "error", "disconnected"}
    BY <1>1 DEF Midnight, Disconnect, vvars, SyncInv, VTypeOK
  <2>2. today' \in 0 .. Horizon
    BY <1>1, ReservationsAssumption DEF Midnight, Disconnect, vvars, SyncInv, VTypeOK
  <2>3. VTypeOK'
    BY <2>1, <2>2 DEF SyncInv, VTypeOK, Sync, Notice, Fetchable
  <2>4. ASSUME NEW k \in Desk, desk'[k].pc \in Syncing PROVE (UpToDate(desk[k]) /\ Complete(desk[k]))'
    <3>1. UpToDate(desk[k]) /\ Complete(desk[k])
      BY <2>1, <2>4 DEF SyncInv
    <3> QED
      BY <2>1, <3>1 DEF UpToDate, Complete, Reached, Window, Arriving, Colliding, StatusOf
  <2> QED
    BY <2>3, <2>4 DEF SyncInv
<1>2. ASSUME NEW k \in Desk, Connect(k) \/ TriggerSync(k) PROVE SyncInv'
  BY <1>2, SyncStarts DEF Connect, TriggerSync, SyncInv, VTypeOK
<1> QED
  BY <1>1, <1>2, ProviderStep, AllAtOnce, PageFetched, IntervalFetched, SyncGoesOn, RowsStored, DeskAbandons, NoticeComes
     DEF VNext

LEMMA ReservationInit == VInit => SyncInv
<1> SUFFICES ASSUME VInit PROVE SyncInv
  OBVIOUS
<1>1. pms \in [Ext -> {Null} \cup Kept] /\ \A x \in Ext : pms[x] # Null => pms[x].in =< pms[x].out
  BY ReservationsAssumption DEF VInit, Kept, State
<1>2. VTypeOK
  BY <1>1, ReservationsAssumption DEF VInit, VTypeOK
<1> QED
  BY <1>2, VacantDesk DEF VInit, SyncInv

LEMMA SyncStoresWhatIsDue ==
    ASSUME SyncInv, NEW k \in Desk, SyncSucceeds(k), NEW x \in Due(k)
    PROVE  reservations'[x] = Unified(pms[x], StatusOf(pms[x].state))
<1> DEFINE d == desk[k]
<1>1. d.pc = "finish" /\ d \in Sync(d.got) /\ UpToDate(d) /\ Complete(d) /\ reservations' = Over(d.got, reservations)
  BY DeskTypes DEF SyncSucceeds, SyncInv, Syncing
<1>2. (provider = "cloudbeds" => d.touched = {}) /\ x \in Window(d) \ d.touched
  BY DEF Due, Window, Until
<1>3. x \in DOMAIN d.got
  BY <1>1, <1>2 DEF Complete
<1>4. d.got[x] = Unified(pms[x], StatusOf(pms[x].state))
  BY <1>1, <1>2, <1>3 DEF UpToDate
<1> QED
  BY <1>1, <1>3, <1>4 DEF Over

\* For any provider, windows, page size and number of syncs and notices at
\* once: a sync that succeeds has stored every reservation its window asks for
\* that was not touched since it began, as the provider has it.
THEOREM SyncsCatchUp == VSpec => SyncCatchesUp
<1>1. SyncInv => CatchesUp
  BY SyncStoresWhatIsDue DEF CatchesUp
<1> QED
  BY <1>1, ReservationInit, ReservationStep, PTL DEF VSpec, SyncCatchesUp

-----------------------------------------------------------------------------
(* Types of complaints.  The count of comments never exceeds the comments,    *)
(* and each item about an escalation was reported while none was open.        *)

Reporting == {k \in Desk : officer[k].pc = "reported" /\ officer[k].new}

CountOK(t) == t.pc \in {"resolve", "escalate", "comment", "assign"} => t.loaded.comment_count =< comments

CountsInv ==
    /\ LTypeOK
    /\ complaint.comment_count =< comments
    /\ \A k \in Desk : CountOK(officer[k])
    /\ escalations + Cardinality(Reporting) =< Cardinality(Desk)

LEMMA OfficerTypes ==
    ASSUME NEW t \in Officer
    PROVE  /\ t.pc \in {"resolve", "escalate", "comment", "assign"} => t.loaded \in Complaint
           /\ t.pc = "resolve" => t.status \in ComplaintStatus /\ t.seen \in Nat
           /\ t.pc = "assign" => t.to \in Staff /\ t.known \in BOOLEAN
           /\ t.pc = "reported" => t.new \in BOOLEAN
BY DEF Officer, Vacant

\* A handler goes on, and the reports still outnumber the items to come.
LEMMA CountsStep ==
    ASSUME CountsInv, NEW k \in Desk, NEW t \in Officer, LGoto(k, t),
           t.pc \in {"resolve", "escalate", "comment", "assign"} => t.loaded.comment_count =< comments',
           complaint' \in Complaint, assignments' \subseteq Staff,
           comments' \in {comments} \cup {comments + 1}, comments' \in 0 .. MaxComments,
           complaint'.comment_count =< comments', escalations' \in Nat,
           \/ escalations' =< escalations /\ ~(t.pc = "reported" /\ t.new)
           \/ escalations' = 0
           \/ k \in Reporting /\ t.pc # "reported" /\ escalations' = escalations + 1
    PROVE  CountsInv'
<1>1. officer \in [Desk -> Officer] /\ comments \in Nat /\ escalations \in Nat
  BY ComplaintsAssumption DEF CountsInv, LTypeOK
<1>2. officer' \in [Desk -> Officer] /\ \A j \in Desk : officer'[j] = IF j = k THEN t ELSE officer[j]
  BY <1>1 DEF LGoto
<1>3. ASSUME NEW j \in Desk PROVE CountOK(officer[j])'
  <2>1. CASE j = k
    BY <1>2, <2>1 DEF CountOK
  <2>2. CASE j # k
    <3>1. officer'[j] = officer[j] /\ CountOK(officer[j])
      BY <1>2, <2>2 DEF CountsInv
    <3>2. officer[j].pc \in {"resolve", "escalate", "comment", "assign"} => officer[j].loaded.comment_count \in 0 .. MaxComments
      BY <1>1, OfficerTypes DEF Complaint
    <3> QED
      BY <1>1, <3>1, <3>2, ComplaintsAssumption DEF CountOK
  <2> QED
    BY <2>1, <2>2
<1>4. /\ Reporting \in SUBSET Desk /\ Reporting' \in SUBSET Desk
      /\ Cardinality(Reporting') \in Nat /\ Cardinality(Reporting) \in Nat /\ Cardinality(Desk) \in Nat
      /\ Cardinality(Reporting') =< Cardinality(Desk)
  BY CountsOrder DEF Reporting
<1>5. escalations' + Cardinality(Reporting') =< Cardinality(Desk)
  <2>1. CASE escalations' =< escalations /\ ~(t.pc = "reported" /\ t.new)
    <3>1. Reporting' \subseteq Reporting
      BY <1>2, <2>1 DEF Reporting
    <3>2. Cardinality(Reporting') =< Cardinality(Reporting)
      BY <1>4, <3>1, CountsOrder
    <3> QED
      BY <1>1, <1>4, <2>1, <3>2 DEF CountsInv
  <2>2. CASE escalations' = 0
    BY <1>4, <2>2
  <2>3. CASE k \in Reporting /\ t.pc # "reported" /\ escalations' = escalations + 1
    <3>1. Reporting' = Reporting \ {k}
      BY <1>2, <2>3 DEF Reporting
    <3>2. Cardinality(Reporting') = Cardinality(Reporting) - 1
      BY <1>4, <2>3, <3>1, SubmittingCounts
    <3> QED
      BY <1>1, <1>4, <2>3, <3>2 DEF CountsInv
  <2> QED
    BY <2>1, <2>2, <2>3
<1>6. escalations' \in 0 .. Cardinality(Desk)
  BY <1>4, <1>5
<1> QED
  BY <1>2, <1>3, <1>5, <1>6 DEF CountsInv, LTypeOK, ComplaintAssignment

\* What a commit leaves in the row.
LEMMA WrittenCounts ==
    ASSUME NEW a \in Complaint, NEW b \in Complaint, NEW c \in Complaint
    PROVE  LET w == Written(a, b, c)
           IN  /\ w \in Complaint
               /\ w.comment_count = IF c.comment_count = b.comment_count THEN a.comment_count ELSE c.comment_count
BY DEF Written, Complaint

LEMMA CountsBegin == LInit => CountsInv
<1> SUFFICES ASSUME LInit PROVE CountsInv
  OBVIOUS
<1>1. complaint \in Complaint /\ complaint.comment_count = 0
  BY ComplaintsAssumption DEF LInit, Complaint, ComplaintStatus
<1>2. Reporting = {}
  BY DEF LInit, Reporting, Vacant
<1>3. Cardinality(Reporting) = 0 /\ Cardinality(Desk) \in Nat
  BY <1>2, SopAssumption, FS_EmptySet, FS_CardinalityType
<1>4. \A k \in Desk : CountOK(officer[k])
  BY DEF LInit, CountOK, Vacant
<1>5. Vacant \in Officer
  BY DEF Officer
<1> QED
  BY <1>1, <1>3, <1>4, <1>5, ComplaintsAssumption DEF LInit, CountsInv, LTypeOK

\* A handler that loads the row, saves nothing or leaves.
LEMMA CountsGoes ==
    ASSUME CountsInv, NEW k \in Desk, NEW t \in Officer, LGoto(k, t), UNCHANGED LTables,
           t.pc \in {"resolve", "escalate", "comment", "assign"} => t.loaded.comment_count =< comments,
           t.pc = "reported" /\ t.new => escalations = 0
    PROVE  CountsInv'
<1>1. /\ complaint' = complaint /\ assignments' = assignments /\ comments' = comments /\ escalations' = escalations
      /\ complaint \in Complaint /\ assignments \subseteq Staff /\ comments \in 0 .. MaxComments
      /\ complaint.comment_count =< comments /\ escalations \in Nat
  BY DEF CountsInv, LTypeOK, LTables, ComplaintAssignment
<1>2. \/ escalations' =< escalations /\ ~(t.pc = "reported" /\ t.new)
      \/ escalations' = 0
  BY <1>1
<1> QED
  BY <1>1, <1>2, CountsStep

\* A comment is counted on top of a count of comments that were there.
LEMMA CommentCounts ==
    ASSUME CountsInv, NEW old \in Complaint, old.comment_count =< comments,
           NEW new \in Complaint, Comments(old, new)
    PROVE  /\ complaint' \in Complaint /\ comments' \in 0 .. MaxComments /\ comments' = comments + 1
           /\ complaint'.comment_count =< comments'
<1> DEFINE next == [new EXCEPT !.comment_count = old.comment_count + 1]
<1>1. comments \in 0 .. MaxComments /\ complaint \in Complaint /\ complaint.comment_count =< comments
  BY DEF CountsInv, LTypeOK
<1>2. comments' = comments + 1 /\ comments' \in 0 .. MaxComments
  BY <1>1, ComplaintsAssumption DEF Comments
<1>3. old.comment_count + 1 \in 0 .. MaxComments
  BY <1>1, <1>2, ComplaintsAssumption DEF Complaint
<1>4. next \in Complaint /\ next.comment_count = old.comment_count + 1
  BY <1>3 DEF Complaint
<1>5. complaint' = Written(complaint, old, next)
  BY DEF Comments
<1>6. /\ complaint' \in Complaint
      /\ complaint'.comment_count = IF next.comment_count = old.comment_count THEN complaint.comment_count ELSE next.comment_count
  <2> HIDE DEF next
  <2> QED
    BY <1>1, <1>4, <1>5, WrittenCounts
<1>7. old.comment_count \in Int
  BY <1>1, ComplaintsAssumption DEF Complaint
<1> QED
  BY <1>1, <1>2, <1>4, <1>6, <1>7, ComplaintsAssumption

LEMMA CountsKept ==
    ASSUME CountsInv, [LNext]_lvars
    PROVE  CountsInv'
<1> USE DEF ComplaintAssignment
<1>1. /\ complaint \in Complaint /\ assignments \subseteq Staff /\ comments \in 0 .. MaxComments
      /\ complaint.comment_count =< comments /\ escalations \in Nat
      /\ \A k \in Desk : officer[k] \in Officer /\ CountOK(officer[k])
  BY DEF CountsInv, LTypeOK
<1>2. Vacant \in Officer
  BY DEF Officer
<1>3. ASSUME NEW k \in Desk, NEW s \in ComplaintStatus, ResolveLoads(k, s) PROVE CountsInv'
  <2> DEFINE t == [pc |-> "resolve", loaded |-> complaint, status |-> s, seen |-> escalations]
  <2>1. t \in Officer /\ t.pc = "resolve" /\ t.loaded = complaint
    BY <1>1 DEF Officer
  <2>2. LGoto(k, t) /\ UNCHANGED LTables
    BY <1>3 DEF ResolveLoads, LLoad
  <2> HIDE DEF t
  <2> QED
    BY <1>1, <2>1, <2>2, CountsGoes
<1>4. ASSUME NEW k \in Desk, NEW u \in Staff, AssignLoads(k, u) PROVE CountsInv'
  <2> DEFINE t == [pc |-> "assign", loaded |-> complaint, to |-> u, known |-> Known(u)]
  <2>1. t \in Officer /\ t.pc = "assign" /\ t.loaded = complaint
    BY <1>1 DEF Officer, Known
  <2>2. LGoto(k, t) /\ UNCHANGED LTables
    BY <1>4 DEF AssignLoads, LLoad
  <2> HIDE DEF t
  <2> QED
    BY <1>1, <2>1, <2>2, CountsGoes
<1>5. ASSUME NEW k \in Desk, CommentLoads(k) \/ EscalateLoads(k) \/ Refreshes(k) PROVE CountsInv'
  <2>1. PICK pc \in {"comment", "escalate"} : LGoto(k, [pc |-> pc, loaded |-> complaint])
    BY <1>5 DEF CommentLoads, EscalateLoads, Refreshes, LLoad
  <2> DEFINE t == [pc |-> pc, loaded |-> complaint]
  <2>2. t \in Officer /\ t.pc = pc /\ t.loaded = complaint
    BY <1>1 DEF Officer
  <2>3. LGoto(k, t) /\ UNCHANGED LTables
    BY <1>5, <2>1 DEF CommentLoads, EscalateLoads, Refreshes, LLoad
  <2> HIDE DEF t
  <2> QED
    BY <1>1, <2>2, <2>3, CountsGoes
<1>6. ASSUME NEW k \in Desk, ReportChecks(k) PROVE CountsInv'
  <2>1. CASE escalations > 1
    <3>1. LGoto(k, Vacant) /\ UNCHANGED LTables
      BY <1>6, <2>1 DEF ReportChecks
    <3> QED
      BY <1>2, <3>1, CountsGoes DEF Vacant
  <2>2. CASE ~(escalations > 1)
    <3> DEFINE t == [pc |-> "reported", new |-> escalations = 0]
    <3>1. t \in Officer /\ t.pc = "reported" /\ (t.new => escalations = 0)
      BY DEF Officer
    <3>2. LGoto(k, t) /\ UNCHANGED LTables
      BY <1>6, <2>2 DEF ReportChecks
    <3> HIDE DEF t
    <3> QED
      BY <3>1, <3>2, CountsGoes
  <2> QED
    BY <2>1, <2>2
<1>7. ASSUME NEW k \in Desk, LAbandon(k) PROVE CountsInv'
  <2>1. LGoto(k, Vacant) /\ UNCHANGED LTables
    BY <1>7 DEF LAbandon
  <2> QED
    BY <1>2, <2>1, CountsGoes DEF Vacant
<1>8. ASSUME NEW k \in Desk, ResolveSaves(k) PROVE CountsInv'
  <2> DEFINE t == officer[k]
             next == [t.loaded EXCEPT !.status = t.status]
  <2>1. t.pc = "resolve" /\ LGoto(k, Vacant) /\ complaint' = Written(complaint, t.loaded, next)
    BY <1>8 DEF ResolveSaves
  <2>2. t.loaded \in Complaint /\ t.status \in ComplaintStatus /\ t.seen \in Nat
    BY <1>1, <2>1, OfficerTypes
  <2>3. next \in Complaint /\ next.comment_count = t.loaded.comment_count
    BY <2>2 DEF Complaint
  <2>4. complaint' \in Complaint /\ complaint'.comment_count = complaint.comment_count
    <3> HIDE DEF next
    <3> QED
      BY <1>1, <2>1, <2>2, <2>3, WrittenCounts
  <2>5. escalations' = (IF escalations < t.seen THEN 0 ELSE escalations - t.seen) /\ comments' = comments /\ assignments' = assignments
    BY <1>8 DEF ResolveSaves
  <2>6. escalations' \in Nat /\ escalations' =< escalations
    BY <1>1, <2>2, <2>5
  <2>7. Vacant.pc \notin {"resolve", "escalate", "comment", "assign", "reported"}
    BY DEF Vacant
  <2> QED
    BY <1>1, <1>2, <2>1, <2>4, <2>5, <2>6, <2>7, CountsStep
<1>9. ASSUME NEW k \in Desk, CommentSaves(k) PROVE CountsInv'
  <2>1. /\ officer[k].pc = "comment" /\ Comments(officer[k].loaded, officer[k].loaded) /\ LGoto(k, Vacant)
        /\ assignments' = assignments /\ escalations' = escalations
    BY <1>9 DEF CommentSaves
  <2>2. officer[k].loaded \in Complaint /\ officer[k].loaded.comment_count =< comments
    BY <1>1, <2>1, OfficerTypes DEF CountOK
  <2>3. /\ complaint' \in Complaint /\ comments' \in 0 .. MaxComments /\ comments' = comments + 1
        /\ complaint'.comment_count =< comments'
    BY <2>1, <2>2, CommentCounts
  <2>4. Vacant.pc \notin {"resolve", "escalate", "comment", "assign", "reported"}
    BY DEF Vacant
  <2> QED
    BY <1>1, <1>2, <2>1, <2>3, <2>4, CountsStep
<1>10. ASSUME NEW k \in Desk, EscalateSaves(k) PROVE CountsInv'
  <2> DEFINE next == [officer[k].loaded EXCEPT !.status = "escalated"]
             t == [pc |-> "report"]
  <2>1. /\ officer[k].pc = "escalate" /\ Comments(officer[k].loaded, next) /\ LGoto(k, t)
        /\ assignments' = assignments /\ escalations' = escalations
    BY <1>10 DEF EscalateSaves
  <2>2. officer[k].loaded \in Complaint /\ officer[k].loaded.comment_count =< comments
    BY <1>1, <2>1, OfficerTypes DEF CountOK
  <2>3. next \in Complaint
    BY <2>2 DEF Complaint, ComplaintStatus
  <2>4. /\ complaint' \in Complaint /\ comments' \in 0 .. MaxComments /\ comments' = comments + 1
        /\ complaint'.comment_count =< comments'
    <3> HIDE DEF next
    <3> QED
      BY <2>1, <2>2, <2>3, CommentCounts
  <2>5. t \in Officer /\ t.pc = "report"
    BY DEF Officer
  <2> HIDE DEF t, next
  <2> QED
    BY <1>1, <2>1, <2>4, <2>5, CountsStep
<1>11. ASSUME NEW k \in Desk, ReportSaves(k) PROVE CountsInv'
  <2>1. /\ officer[k].pc = "reported" /\ LGoto(k, Vacant)
        /\ escalations' = (IF officer[k].new THEN escalations + 1 ELSE escalations)
        /\ complaint' = complaint /\ assignments' = assignments /\ comments' = comments
    BY <1>11 DEF ReportSaves
  <2>2. officer[k].new \in BOOLEAN
    BY <1>1, <2>1, OfficerTypes
  <2>3. Vacant.pc \notin {"resolve", "escalate", "comment", "assign", "reported"}
    BY DEF Vacant
  <2>4. \/ escalations' =< escalations
        \/ k \in Reporting /\ escalations' = escalations + 1
    BY <1>1, <2>1, <2>2 DEF Reporting
  <2>5. escalations' \in Nat
    BY <1>1, <2>1
  <2> QED
    BY <1>1, <1>2, <2>1, <2>3, <2>4, <2>5, CountsStep
<1>12. ASSUME NEW k \in Desk, AssignSaves(k) PROVE CountsInv'
  <2> DEFINE t == officer[k]
             next == [t.loaded EXCEPT !.status = "in_progress", !.assigned_to = t.to]
             rest == [pc |-> "refresh"]
  <2>1. t.pc = "assign" /\ comments' = comments /\ escalations' = escalations
    BY <1>12 DEF AssignSaves
  <2>2. t.loaded \in Complaint /\ t.to \in Staff
    BY <1>1, <2>1, OfficerTypes
  <2>3. next \in Complaint /\ next.comment_count = t.loaded.comment_count
    BY <2>2 DEF Complaint, ComplaintStatus
  <2>4. CASE complaint' = complaint /\ assignments' = assignments /\ LGoto(k, Vacant)
    <3>1. Vacant.pc \notin {"resolve", "escalate", "comment", "assign", "reported"}
      BY DEF Vacant
    <3> QED
      BY <1>1, <1>2, <2>1, <2>4, <3>1, CountsStep
  <2>5. CASE complaint' = Written(complaint, t.loaded, next) /\ assignments' \subseteq Staff /\ LGoto(k, rest)
    <3>1. complaint' \in Complaint /\ complaint'.comment_count = complaint.comment_count
      <4> HIDE DEF next
      <4> QED
        BY <1>1, <2>2, <2>3, <2>5, WrittenCounts
    <3>2. rest \in Officer /\ rest.pc = "refresh"
      BY DEF Officer
    <3> HIDE DEF rest
    <3> QED
      BY <1>1, <2>1, <2>5, <3>1, <3>2, CountsStep
  <2>6. \/ complaint' = complaint /\ assignments' = assignments /\ LGoto(k, Vacant)
        \/ complaint' = Written(complaint, t.loaded, next) /\ assignments' \subseteq Staff /\ LGoto(k, rest)
    BY <1>1, <1>12, <2>2 DEF AssignSaves
  <2> HIDE DEF next, rest
  <2> QED
    BY <2>4, <2>5, <2>6
<1>13. ASSUME LDismiss PROVE CountsInv'
  <2>1. /\ complaint' = complaint /\ assignments' = assignments /\ comments' = comments /\ officer' = officer
        /\ escalations > 0 /\ escalations' = escalations - 1
    BY <1>13 DEF LDismiss
  <2>2. Reporting' = Reporting /\ \A k \in Desk : CountOK(officer[k])'
    BY <2>1 DEF Reporting, CountOK, CountsInv
  <2>3. Cardinality(Reporting) \in Nat /\ Cardinality(Desk) \in Nat
    BY CountsOrder DEF Reporting
  <2> QED
    BY <1>1, <2>1, <2>2, <2>3 DEF CountsInv, LTypeOK
<1>14. ASSUME UNCHANGED lvars PROVE CountsInv'
  BY <1>14 DEF lvars, CountsInv, LTypeOK, CountOK, Reporting
<1> QED
  BY <1>3, <1>4, <1>5, <1>6, <1>7, <1>8, <1>9, <1>10, <1>11, <1>12, <1>13, <1>14 DEF LNext

-----------------------------------------------------------------------------
(* Types of procedures. *)

LEMMA TrainerTypes ==
    ASSUME NEW t \in Trainer
    PROVE  /\ t.pc \in {"submit", "complete", "approve", "reject", "approving", "rejecting"} => t.execution \in SOPExecution
           /\ t.pc \in {"approving", "rejecting", "update"} => t.sop \in SOPItem
           /\ t.pc = "update" => t.status \in Status
BY DEF Trainer, Vacant

\* A handler loads rows, goes on to the review, or gives up.
LEMMA TrainerTyped ==
    ASSUME STypeOK, NEW k \in Desk, NEW t \in Trainer, SGoto(k, t)
    PROVE  trainer' \in [Desk -> Trainer]
BY DEF STypeOK, SGoto

LEMMA TrainerReadsTypes ==
    ASSUME STypeOK, SopInv, NEW k \in Desk,
           \/ \E s \in Status : UpdateSopLoads(k, s)
           \/ DeleteSopLoads(k) \/ SubmitLoads(k) \/ CompleteLoads(k) \/ SAbandon(k)
           \/ ApproveExecutionLoads(k) \/ ReviewLoads(k, "approve", "approving")
           \/ RejectExecutionLoads(k) \/ ReviewLoads(k, "reject", "rejecting")
    PROVE  STypeOK'
<1>1. ASSUME trainer' \in [Desk -> Trainer], UNCHANGED STables PROVE STypeOK'
  BY <1>1 DEF STypeOK, STables
<1>2. ASSUME NEW s \in Status, UpdateSopLoads(k, s) PROVE STypeOK'
  <2>1. [pc |-> "update", sop |-> sop, status |-> s] \in Trainer
    BY <1>2 DEF UpdateSopLoads, STypeOK, Trainer
  <2> QED
    BY <1>1, <1>2, <2>1, TrainerTyped DEF UpdateSopLoads, SLoad
<1>3. CASE DeleteSopLoads(k)
  <2>1. [pc |-> "delete"] \in Trainer
    BY DEF Trainer
  <2> QED
    BY <1>1, <1>3, <2>1, TrainerTyped DEF DeleteSopLoads, SLoad
<1>4. ASSUME NEW pc \in {"submit", "complete", "approve", "reject"}, Reads(k, pc) PROVE STypeOK'
  <2>1. [pc |-> pc, execution |-> execution] \in Trainer
    BY <1>4 DEF Reads, STypeOK, Trainer
  <2> QED
    BY <1>1, <1>4, <2>1, TrainerTyped DEF Reads, SLoad
<1>5. ASSUME NEW pc \in {"approve", "reject"}, NEW next \in {"approving", "rejecting"}, ReviewLoads(k, pc, next)
      PROVE  STypeOK'
  <2>1. trainer[k].pc = pc /\ trainer[k] \in Trainer /\ TrainerOK(trainer[k])
    BY <1>5 DEF ReviewLoads, STypeOK, SopInv
  <2>2. trainer[k].execution \in SOPExecution /\ sop \in SOPItem
    BY <2>1, TrainerTypes DEF TrainerOK, SopInv
  <2>3. [pc |-> next, execution |-> trainer[k].execution, sop |-> sop] \in Trainer
    BY <2>2 DEF Trainer
  <2> QED
    BY <1>1, <1>5, <2>3, TrainerTyped DEF ReviewLoads
<1>6. CASE SAbandon(k)
  <2>1. Vacant \in Trainer
    BY DEF Trainer
  <2> QED
    BY <1>1, <1>6, <2>1, TrainerTyped DEF SAbandon
<1> QED
  BY <1>2, <1>3, <1>4, <1>5, <1>6 DEF SubmitLoads, CompleteLoads, ApproveExecutionLoads, RejectExecutionLoads

\* What is committed is a row again.
LEMMA TrainerCommitsTypes ==
    ASSUME STypeOK, SopInv, SopInv', NEW k \in Desk,
           \/ UpdateSopSaves(k) \/ DeleteSopSaves(k) \/ SubmitSaves(k) \/ CompleteSaves(k)
           \/ ApproveExecutionSaves(k) \/ RejectExecutionSaves(k)
    PROVE  STypeOK'
<1>1. SGoto(k, Vacant) /\ Vacant \in Trainer
  BY DEF UpdateSopSaves, DeleteSopSaves, SubmitSaves, CompleteSaves, ApproveExecutionSaves, RejectExecutionSaves, Trainer
<1>2. trainer' \in [Desk -> Trainer]
  BY <1>1, TrainerTyped
<1>3. UNCHANGED <<categories, versions, notified>>
  BY DEF UpdateSopSaves, DeleteSopSaves, SubmitSaves, CompleteSaves, ApproveExecutionSaves, RejectExecutionSaves
<1>4. sop' \in SOPItem \cup {Null} /\ execution' \in SOPExecution \cup {Null}
  BY DEF SopInv
<1>5. proofs' \in 0 .. MaxProofs
  BY SopAssumption
     DEF STypeOK, UpdateSopSaves, DeleteSopSaves, SubmitSaves, CompleteSaves, ApproveExecutionSaves, RejectExecutionSaves
<1>6. execution # Null => execution' # Null
  <2>1. trainer[k].pc # "idle" /\ TrainerOK(trainer[k])
    BY DEF UpdateSopSaves, DeleteSopSaves, SubmitSaves, CompleteSaves, ApproveExecutionSaves, RejectExecutionSaves, SopInv
  <2>2. CASE UpdateSopSaves(k) \/ DeleteSopSaves(k)
    BY <2>2 DEF UpdateSopSaves, DeleteSopSaves
  <2>3. CASE SubmitSaves(k) \/ CompleteSaves(k) \/ ApproveExecutionSaves(k) \/ RejectExecutionSaves(k)
    <3> DEFINE Written1(new) == Written(execution, trainer[k].execution, new)
    <3>1. trainer[k].execution \in SOPExecution
      BY <2>1, <2>3 DEF SubmitSaves, CompleteSaves, ApproveExecutionSaves, RejectExecutionSaves, TrainerOK
    <3>2. execution \in SOPExecution
      BY <2>1, <2>3 DEF SubmitSaves, CompleteSaves, ApproveExecutionSaves, RejectExecutionSaves, TrainerOK, SopInv
    <3>3. /\ [trainer[k].execution EXCEPT !.status = "proof_submitted"] \in SOPExecution
          /\ [trainer[k].execution EXCEPT !.status = "completed"] \in SOPExecution
          /\ [trainer[k].execution EXCEPT !.status = "approved"] \in SOPExecution
          /\ [trainer[k].execution EXCEPT !.status = "rejected", !.proof = FALSE] \in SOPExecution
      BY <3>1 DEF SOPExecution, ExecutionStatus
    <3>4. \A new \in SOPExecution : Written1(new) \in SOPExecution
      BY <3>1, <3>2, WrittenTask
    <3>5. \A w \in SOPExecution : /\ [w EXCEPT !.proof = TRUE] \in SOPExecution
                                  /\ [w EXCEPT !.completed_at = TRUE] \in SOPExecution
      BY DEF SOPExecution
    <3>6. execution' \in SOPExecution
      BY <2>3, <3>3, <3>4, <3>5 DEF SubmitSaves, CompleteSaves, ApproveExecutionSaves, RejectExecutionSaves
    <3> QED
      BY <3>6, SopAssumption
  <2> QED
    BY <2>2, <2>3
<1> QED
  BY <1>2, <1>3, <1>4, <1>5, <1>6 DEF STypeOK

LEMMA SopTypesStep ==
    ASSUME STypeOK, SopInv, SopInv', [SNext]_sopvars
    PROVE  STypeOK'
<1>1. CASE \E c \in Category : CreateCategory(c)
  BY <1>1 DEF CreateCategory, STypeOK
<1>2. ASSUME NEW s \in Status, NEW a \in Assignee, CreateSop(s, a) PROVE STypeOK'
  <2>1. sop' \in SOPItem \cup {Null} /\ execution' \in SOPExecution \cup {Null}
    BY DEF SopInv
  <2>2. a = "colleague" => execution' # Null
    <3>1. [status |-> "pending", proof |-> FALSE, completed_at |-> FALSE] \in SOPExecution
      BY DEF SOPExecution, ExecutionStatus
    <3> QED
      BY <1>2, <3>1, SopAssumption DEF CreateSop
  <2>3. notified' \in BOOLEAN /\ (notified' => execution' # Null)
    BY <1>2, <2>2 DEF CreateSop
  <2>4. UNCHANGED <<categories, versions, proofs, trainer>>
    BY <1>2 DEF CreateSop
  <2> QED
    BY <2>1, <2>3, <2>4 DEF STypeOK
<1>3. CASE CreateVersion
  BY <1>3, SopAssumption DEF CreateVersion, STypeOK
<1>4. CASE UNCHANGED sopvars
  BY <1>4 DEF sopvars, STypeOK
<1>5. StaffStatus \subseteq Status
  BY SopAssumption
<1> QED
  BY <1>1, <1>2, <1>3, <1>4, <1>5, TrainerReadsTypes, TrainerCommitsTypes DEF SNext

LEMMA SopTypesInit == SInit => STypeOK
BY SopAssumption DEF SInit, STypeOK, Trainer

-----------------------------------------------------------------------------
(* The parts together.  A replacement shows on the weekly shifts only where   *)
(* the behaviour is of the week.                                              *)

FrontInv ==
    /\ scene \in {"rooms", "stock", "shifts", "weeks", "complaints", "training", "fence", "channel"}
    /\ BInv
    /\ InvInv
    /\ ReplInv
    /\ scene # "shifts" => WeekInv
    /\ CompInv /\ CountsInv
    /\ STypeOK /\ SopInv
    /\ IInv
    /\ SyncInv

LEMMA FrontInit == FInit => FrontInv
<1> SUFFICES ASSUME FInit PROVE FrontInv
  OBVIOUS
<1>1. /\ scene \in {"rooms", "stock", "shifts", "weeks", "complaints", "training", "fence", "channel"}
      /\ RInit /\ IInit /\ WInit /\ LInit /\ SInit /\ GInit /\ VInit
  BY DEF FInit
<1>2. BInv /\ InvInv /\ WeekInv
  BY <1>1, Initially, InventoryInit, WeekInit
<1>3. ReplInv
  BY <1>1, ReplacementInit DEF WInit
<1>4. CompInv /\ CountsInv /\ SopInv /\ STypeOK
  BY <1>1, ComplaintInit, CountsBegin, SopInit, SopTypesInit
<1>5. IInv /\ SyncInv
  BY <1>1, InitIInv, ReservationInit
<1> QED
  BY <1>1, <1>2, <1>3, <1>4, <1>5 DEF FrontInv

LEMMA FrontStep ==
    ASSUME OneAtATime, FrontInv, [FNext]_<<scene, rvars, ivars, wvars, lvars, sopvars, gvars, vvars>>
    PROVE  FrontInv'
<1>1. /\ UNCHANGED scene
      /\ [RNext]_rvars /\ [INext]_ivars /\ [LNext]_lvars
      /\ [SNext]_sopvars /\ [GNext]_gvars /\ [VNext]_vvars
  BY DEF FNext
<1>2. IF scene = "shifts" THEN [PNext]_pvars ELSE [WNext]_wvars
  BY DEF FNext, wvars, pvars
<1>3. BInv'
  BY <1>1, Step DEF FrontInv
<1>4. InvInv'
  BY <1>1, InventoryStep DEF FrontInv
<1>5. ReplInv' /\ (scene # "shifts" => WeekInv')
  <2>1. CASE scene = "shifts"
    BY <1>2, <2>1, ReplacementStep DEF FrontInv
  <2>2. CASE scene # "shifts"
    <3>1. WeekInv'
      BY <1>2, <2>2, WeekStep, WeekKept DEF FrontInv
    <3> QED
      BY <3>1 DEF WeekInv, StaffInv
  <2> QED
    BY <2>1, <2>2
<1>6. CompInv' /\ CountsInv'
  BY <1>1, ComplaintStep, CountsKept DEF FrontInv
<1>7. SopInv'
  BY <1>1, SopStep DEF FrontInv
<1>8. STypeOK'
  BY <1>1, <1>7, SopTypesStep DEF FrontInv
<1>9. IInv'
  BY <1>1, NextIInv DEF FrontInv
<1>10. SyncInv'
  BY <1>1, ReservationStep DEF FrontInv
<1> QED
  BY <1>1, <1>3, <1>4, <1>5, <1>6, <1>7, <1>8, <1>9, <1>10 DEF FrontInv

\* Whatever the front office does, its tables and its handlers keep their
\* types, its counters never pass what they count.
THEOREM FrontTypes == ASSUME OneAtATime PROVE FSpec => []TypesOK
<1>1. FrontInv => TypesOK
  <2>1. FrontInv => /\ RTypeOK /\ ITypeOK /\ PTypeOK /\ LTypeOK /\ STypeOK /\ GTypeOK /\ VTypeOK
                    /\ scene # "shifts" => WTypeOK
    BY DEF FrontInv, BInv, InvInv, ReplInv, CountsInv, IInv, SyncInv, WeekInv
  <2> QED
    BY <2>1 DEF FrontInv, TypesOK
<1>2. FrontInv /\ [FNext]_<<scene, rvars, ivars, wvars, lvars, sopvars, gvars, vvars>> => FrontInv'
  BY FrontStep
<1> QED
  BY <1>1, <1>2, FrontInit, PTL DEF FSpec

\* Side by side, the parts keep what each of them promises by itself:
\* bookings, stock, covered shifts, assignees, proofs of work and the feed.
THEOREM FrontSafe ==
    ASSUME OneAtATime
    PROVE  FSpec => [](/\ NoDoubleBooking /\ StockIsExplained /\ CoveredHasReplacement
                       /\ AssigneeHasRow /\ ProofsPerReview /\ UnreadRequestsArePending)
<1> DEFINE Safe == /\ NoDoubleBooking /\ StockIsExplained /\ CoveredHasReplacement
                   /\ AssigneeHasRow /\ ProofsPerReview /\ UnreadRequestsArePending
<1>1. FrontInv => Safe
  <2>1. SopInv => ProofsPerReview
    BY SopProofs
  <2> QED
    BY <2>1 DEF FrontInv, BInv, InvInv, ReplInv, CompInv, AssigneeHasRow, IInv
<1>2. FrontInv /\ [FNext]_<<scene, rvars, ivars, wvars, lvars, sopvars, gvars, vvars>> => FrontInv'
  BY FrontStep
<1> HIDE DEF Safe
<1>3. FSpec => []Safe
  BY <1>1, <1>2, FrontInit, PTL DEF FSpec
<1> QED
  BY <1>3 DEF Safe

\* The composition implements the specification of each of its parts: every
\* step is a step of the part or leaves its variables alone.  Replacements run
\* under the week as well as by themselves.
THEOREM FrontParts ==
    FSpec => /\ RSpec /\ ISpec /\ PSpec /\ LSpec /\ SSpec /\ GSpec /\ VSpec
             /\ scene # "shifts" => WSpec
<1>1. FInit => RInit /\ IInit /\ WInit /\ PInit /\ LInit /\ SInit /\ GInit /\ VInit
  BY DEF FInit, WInit
<1>2. ASSUME [FNext]_<<scene, rvars, ivars, wvars, lvars, sopvars, gvars, vvars>>
      PROVE  /\ [RNext]_rvars /\ [INext]_ivars /\ [PNext]_pvars /\ [LNext]_lvars
             /\ [SNext]_sopvars /\ [GNext]_gvars /\ [VNext]_vvars
             /\ UNCHANGED scene /\ (scene # "shifts" => [WNext]_wvars)
  <2>1. /\ UNCHANGED scene
        /\ [RNext]_rvars /\ [INext]_ivars /\ [LNext]_lvars
        /\ [SNext]_sopvars /\ [GNext]_gvars /\ [VNext]_vvars
    BY <1>2 DEF FNext
  <2>2. IF scene = "shifts" THEN [PNext]_pvars ELSE [WNext]_wvars
    BY <1>2 DEF FNext, wvars, pvars
  <2>3. [WNext]_wvars => [PNext]_pvars
    BY DEF WNext, PNext, Replaces, PostShift, Edit, DeleteEmployee, PublishSchedule, UpdateEmployee, CreateSchedule,
           BulkCreateSchedules, CreateAvailability, BulkCreateAvailability, wvars, pvars
  <2> QED
    BY <2>1, <2>2, <2>3
<1>3. FSpec /\ scene # "shifts" => [](scene # "shifts")
  <2>1. scene # "shifts" /\ UNCHANGED scene => (scene # "shifts")'
    OBVIOUS
  <2> QED
    BY <1>2, <2>1, PTL DEF FSpec
<1> QED
  BY <1>1, <1>2, <1>3, PTL DEF FSpec, RSpec, ISpec, PSpec, LSpec, SSpec, GSpec, VSpec, WSpec

\* What no step of a part may do, no step of the front office does: bookings
\* keep the calendar, a finished one stays as it is, regenerating takes no room
\* from a guest, a sync that succeeds has stored what it asks for, an alarm
\* stays until it is answered.
THEOREM FrontActs ==
    ASSUME OneAtATime
    PROVE  FSpec => /\ ImplementsCalendar /\ FinishedStaysFinished /\ RegenerateSparesGuests
                    /\ SyncCatchesUp /\ AlarmsAnswered
<1> DEFINE Unplanned == scene = "shifts" /\ \A e \in Employee : week[e] = Null
<1>1. FInit /\ ~(scene # "shifts") => Unplanned
  BY DEF FInit
<1>2. Unplanned /\ [FNext]_<<scene, rvars, ivars, wvars, lvars, sopvars, gvars, vvars>> => Unplanned'
  BY DEF FNext, planned, wvars
<1>3. Unplanned => Answers
  <2>1. SUFFICES ASSUME Unplanned PROVE Critical = {}
    BY DEF Answers
  <2>2. \A e \in Employee : week[e] \notin {"assigned", "published"}
    BY <2>1, WeekPlansAssumption DEF WeeklySchedule
  <2> QED
    BY <2>2 DEF Critical
<1> HIDE DEF Unplanned
<1>4. FSpec /\ ~(scene # "shifts") => AlarmsAnswered
  BY <1>1, <1>2, <1>3, PTL DEF FSpec, AlarmsAnswered
<1> QED
  BY <1>4, FrontParts, CalendarImplemented, FinishedForGood, GuestsKeepTheirRooms, SyncsCatchUp, AlarmsAreAnswered
=============================================================================
