---------------------------- MODULE MCFrontOffice ----------------------------
(* The front office on small instances. *)
EXTENDS FrontOffice, BookingRefinement, TLC

CONSTANTS q1, a1, m1, c1

\* Two employees of one department, equally suited.
OneDepartment == [e \in Employee |-> c1]
NoMatch == [e \in Employee |-> 0]

\* An admin and a manager who stay what they are, and no direct edits:
\* decisions race with the feed.
FixedCareer == [u \in User |-> IF u = m1 THEN {"Manager"} ELSE {"Tenant Admin"}]
OnePlace == {[center |-> "north", radius |-> 20]}

\* A day use and a longer stay; two Mews windows and two pages of Cloudbeds.
TwoStays == {[in |-> 1, out |-> 1], [in |-> 2, out |-> 3]}
NoneOrBoth == {[x \in Ext |-> Null], [x \in Ext |-> [state |-> "confirmed", in |-> 2, out |-> 3]]}
Alphabetical == [x \in Ext |-> IF x = "x" THEN 1 ELSE 2]

\* Desks, numbers of rooms and properties are the same two values, so that one
\* permutation serves every part.
Symmetry == Permutations(Desk)
=============================================================================
