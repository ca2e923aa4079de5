---------------------------- MODULE ShiftRefinement ----------------------------
(* The punch clock and its corrections, seen as the ledger of shifts that they *)
(* promise.                                                                    *)
EXTENDS AttendanceCorrections

\* The shift a record stands for.
LedgerState(rec) ==
    CASE rec.status = "unused" -> "none"
      [] rec.status = "active" -> "running"
      [] rec.status = "completed" -> "worked"
      [] rec.status = "auto_closed" -> "unresolved"

Ledger == INSTANCE ShiftLedger WITH
    shift <- [r \in RecId |-> [state |-> LedgerState(records[r]), user |-> records[r].user,
                               from |-> records[r].in, to |-> records[r].out]]

\* Served one punch at a time, the punch clock and its corrections are the
\* ledger: what a handler read is still true when it commits, so every commit
\* is one ledger step.
ImplementsLedger == Ledger!Spec
=============================================================================
