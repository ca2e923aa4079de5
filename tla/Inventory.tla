------------------------------ MODULE Inventory ------------------------------
(***************************************************************************)
(* The stock of one item (app/api/v1/endpoints/inventory.py): movements    *)
(* read the quantity, compute the new one and write it, and when it is low *)
(* put an item in the managers' inbox unless one is open                   *)
(* (create_inbox_item of inbox_service.py).  Nothing is locked.            *)
(***************************************************************************)
EXTENDS Integers, FiniteSets, Desks

CONSTANTS
    MaxStock,  \* bound: the largest quantity
    Amount,    \* bound: quantities that are added or removed
    Reorder    \* bound: reorder levels, Null is no level

ASSUME InventoryAssumption == MaxStock \in Nat /\ Amount \subseteq Nat

VARIABLES
    item,       \* the row of inventory_items
    open,       \* number of its low_stock inbox items that are unread or read
    mover,      \* the requests in progress
    explained,  \* history: the quantities that the movements recorded so far add up to
    overlapped  \* history: a movement was committed over a quantity it had not read

ivars == <<item, open, mover, explained, overlapped>>

Quantity == 0 .. MaxStock
InventoryItem == [quantity : Quantity, reorder : Reorder, deleted : BOOLEAN]
Movement == [type : {"IN", "OUT", "ADJUST"}, quantity : Quantity]

Mover ==
    {Vacant}
    \cup [pc : {"alert"}, seen : Quantity, moves : Movement, becomes : Quantity, level : Reorder]
    \cup [pc : {"save"}, seen : Quantity, moves : Movement, becomes : Quantity, alerts : BOOLEAN]
    \cup [pc : {"update"}, reorder : Reorder] \cup [pc : {"delete"}]

ITypeOK ==
    /\ item \in InventoryItem
    /\ open \in Nat
    /\ mover \in [Desk -> Mover]
    /\ explained \subseteq Quantity
    /\ overlapped \in BOOLEAN

\* create_item, with any quantity.
IInit ==
    /\ item \in [quantity : Quantity, reorder : Reorder, deleted : {FALSE}]
    /\ open = 0
    /\ mover = [k \in Desk |-> Vacant]
    /\ explained = {item.quantity}
    /\ overlapped = FALSE

-----------------------------------------------------------------------------

\* Every handler starts with _get_item.
IBegin(k, m) ==
    /\ mover[k] = Vacant /\ ~item.deleted
    /\ mover' = [mover EXCEPT ![k] = m]
    /\ UNCHANGED <<item, open, explained, overlapped>>

Moves(k, type, q, new) ==
    /\ new \in Quantity
    /\ IBegin(k, [pc |-> "alert", seen |-> item.quantity, becomes |-> new, level |-> item.reorder,
                 moves |-> [type |-> type, quantity |-> q]])

AddStock(k, q) == Moves(k, "IN", q, item.quantity + q)
RemoveStock(k, q) == Moves(k, "OUT", q, item.quantity - q)  \* refused when there is not enough
\* Mutant: the difference is taken after the quantity was set.
GapAfter(a, b) == 0

Gap(a, b) == IF a < b THEN b - a ELSE a - b
AdjustStock(k, new) == Moves(k, "ADJUST", Gap(new, item.quantity), new)

Low(m) == m.level # Null /\ m.level # 0 /\ m.becomes =< m.level

\* _record_movement: a low stock looks for an open inbox item first.  The
\* lookup fails with two of them, and the movement with it.
MovementChecks(k) ==
    LET m == mover[k]
    IN  /\ m.pc = "alert"
        /\ mover' = [mover EXCEPT ![k] =
              IF Low(m) /\ open > 1 THEN Vacant
              ELSE [pc |-> "save", seen |-> m.seen, moves |-> m.moves, becomes |-> m.becomes,
                    alerts |-> Low(m) /\ open = 0]]
        /\ UNCHANGED <<item, open, explained, overlapped>>

\* What a movement makes of a quantity; an adjustment records no direction.
Effect(move, q) ==
    CASE move.type = "IN" -> {q + move.quantity}
      [] move.type = "OUT" -> {q - move.quantity}
      [] move.type = "ADJUST" -> {q + move.quantity, q - move.quantity}

\* The commit; a quantity that equals the one read is not written.
MovementSaves(k) ==
    LET m == mover[k]
    IN  /\ m.pc = "save"
        /\ item' = [item EXCEPT !.quantity = IF m.becomes = m.seen THEN @ ELSE m.becomes]
        /\ open' = IF m.alerts THEN open + 1 ELSE open
        /\ mover' = [mover EXCEPT ![k] = Vacant]
        /\ explained' = (UNION {Effect(m.moves, q) : q \in explained}) \cap Quantity
        /\ overlapped' = (overlapped \/ item.quantity # m.seen)

UpdateItem(k, level) == IBegin(k, [pc |-> "update", reorder |-> level])
DeleteItem(k) == IBegin(k, [pc |-> "delete"])

EditSaves(k) ==
    /\ mover[k].pc \in {"update", "delete"}
    /\ item' = IF mover[k].pc = "delete" THEN [item EXCEPT !.deleted = TRUE]
               ELSE [item EXCEPT !.reorder = mover[k].reorder]
    /\ mover' = [mover EXCEPT ![k] = Vacant]
    /\ UNCHANGED <<open, explained, overlapped>>

\* A manager dismisses an inbox item; nothing else resolves it.
IDismiss ==
    /\ open > 0
    /\ open' = open - 1
    /\ UNCHANGED <<item, mover, explained, overlapped>>

IAbandon(k) ==
    /\ mover[k] # Vacant
    /\ mover' = [mover EXCEPT ![k] = Vacant]
    /\ UNCHANGED <<item, open, explained, overlapped>>

INext ==
    \/ \E k \in Desk :
          \/ \E q \in Amount : AddStock(k, q) \/ RemoveStock(k, q)
          \/ \E q \in Quantity : AdjustStock(k, q)
          \/ \E level \in Reorder : UpdateItem(k, level)
          \/ DeleteItem(k)
          \/ MovementChecks(k) \/ MovementSaves(k) \/ EditSaves(k) \/ IAbandon(k)
    \/ IDismiss

ISpec == IInit /\ [][INext]_ivars

-----------------------------------------------------------------------------
(* Properties. *)

\* No stock without a record: unless two movements overlapped, the quantity
\* is one that the recorded movements add up to.
StockIsExplained == ~overlapped => item.quantity \in explained
=============================================================================
