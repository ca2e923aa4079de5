------------------------------ MODULE ShiftLedger ------------------------------
(***************************************************************************)
(* What the punch clock promises a user whose requests are served one      *)
(* after the other: shifts begin and end in one step each, at most one is  *)
(* running, a shift that ran too long ends unresolved until a claim        *)
(* settles it, and a shift begins only after every earlier one is over.    *)
(***************************************************************************)
EXTENDS Integers

CONSTANTS User, RecId, None, STALE_SHIFT_HOURS

VARIABLES
    clock,
    shift     \* shift[r]: [state, user, from, to]

vars == <<clock, shift>>

NoShift == [state |-> "none", user |-> None, from |-> 0, to |-> None]

Init == clock = 0 /\ shift = [r \in RecId |-> NoShift]

Mine(u) == {r \in RecId : shift[r].user = u}

\* At time t shift r no longer binds its owner.
OverBy(r, t) == IF shift[r].state = "worked"
                THEN shift[r].to =< t
                ELSE t - shift[r].from > STALE_SHIFT_HOURS

Begin(u, t) ==
    /\ \A r \in Mine(u) : OverBy(r, t)
    /\ \E new \in RecId :
          /\ shift[new].state = "none"
          /\ shift' = [r \in RecId |->
                         IF r = new
                         THEN [state |-> "running", user |-> u, from |-> t, to |-> None]
                         ELSE IF r \in Mine(u) /\ shift[r].state = "running"
                              THEN [shift[r] EXCEPT !.state = "unresolved"]
                              ELSE shift[r]]
    /\ UNCHANGED clock

End(r, t) ==
    /\ shift[r].state = "running"
    /\ t - shift[r].from \in 0 .. STALE_SHIFT_HOURS
    /\ shift' = [shift EXCEPT ![r].state = "worked", ![r].to = t]
    /\ UNCHANGED clock

Forget(r) ==
    /\ shift[r].state = "running"
    /\ clock - shift[r].from > STALE_SHIFT_HOURS
    /\ shift' = [shift EXCEPT ![r].state = "unresolved"]
    /\ UNCHANGED clock

\* An unresolved shift is settled by an approved claim.
Settle(r, t) ==
    /\ shift[r].state = "unresolved"
    /\ t - shift[r].from \in 1 .. STALE_SHIFT_HOURS
    /\ shift' = [shift EXCEPT ![r].state = "worked", ![r].to = t]
    /\ UNCHANGED clock

Tick == clock' = clock + 1 /\ UNCHANGED shift

Next ==
    \/ \E u \in User, t \in 0 .. clock : Begin(u, t)
    \/ \E r \in RecId, t \in 0 .. clock : End(r, t) \/ Settle(r, t)
    \/ \E r \in RecId : Forget(r)
    \/ Tick

Spec == Init /\ [][Next]_vars
=============================================================================
