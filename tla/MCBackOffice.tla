----------------------------- MODULE MCBackOffice -----------------------------
(* The back office on small instances. *)
EXTENDS BackOffice, TLC

CONSTANTS m1, m2

\* A free plan and a paid one.
PlanPrice == [p \in {"starter", "pro"} |-> IF p = "starter" THEN 0 ELSE 1]

\* All criteria weigh the same.
EvenWeight == [c \in Criterion |-> 1]

\* Bound: announcing the criteria changes no table, so nothing follows it.
AnnouncedLast == announced # TRUE

\* Bound: signatures share no column with the rest of a document, so they are
\* asked for and given while nothing else happens to it.
SignedApart ==
    \/ \A s \in Signer : signature[s] = "none"
    \/ clerk = [k \in Desk |-> Vacant] /\ assigned = {} /\ NextRow = {1} /\ \A r \in Reviewer : reviews[r] = "none"

Symmetry == Permutations(Slot) \cup Permutations(AssignId)
=============================================================================
