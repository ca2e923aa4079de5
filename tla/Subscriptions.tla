---------------------------- MODULE Subscriptions ----------------------------
(***************************************************************************)
(* The plan of one tenant (app/api/v1/endpoints/subscriptions.py and       *)
(* require_feature of dependencies.py).  A plan is activated by an admin,  *)
(* by the page a customer returns to after paying, by Stripe's webhook,    *)
(* and, when none is active, by whoever looks; it ends when Stripe says    *)
(* so.  Stripe delivers an event late, twice, or after later ones.         *)
(*                                                                         *)
(* Rows are numbered in the order of created_at, which is now() of the     *)
(* transaction: a handler takes its number when it begins, not when it     *)
(* commits.                                                                *)
(***************************************************************************)
EXTENDS Integers, FiniteSets, FiniteSetsExt, Desks

CONSTANTS
    Plan,      \* rows of subscription_plans
    Price,     \* price of each plan
    Checkout,  \* Stripe checkout sessions, each with its subscription
    LastRow    \* bound: number of requests that may insert a row

ASSUME SubscriptionsAssumption == LastRow \in Nat /\ Null \notin Checkout

VARIABLES
    sub,      \* tenant_subscriptions of the tenant, in the order of created_at
    stripe,   \* what Stripe knows of each checkout
    begun,    \* number of the last transaction that may insert
    task      \* the requests in progress

svars == <<sub, stripe, begun, task>>

Row == 1 .. LastRow
TenantSubscription ==
    [status : {"none", "active", "expired"}, plan : Plan \cup {Null}, checkout : Checkout \cup {Null}]

Task ==
    {Vacant}
    \cup [pc : {"starter"}, row : Row]
    \cup [pc : {"verify"}, row : Row, checkout : Checkout]
    \cup [pc : {"activate"}, row : Row, seen : SUBSET Row, plan : Plan, checkout : Checkout \cup {Null}]
    \cup [pc : {"expire"}, seen : SUBSET Row]

STypeOK ==
    /\ sub \in [Row -> TenantSubscription]
    /\ stripe \in [Checkout -> [state : {"none", "open", "paid", "lapsed"}, plan : Plan \cup {Null}]]
    /\ begun \in 0 .. LastRow
    /\ task \in [Desk -> Task]

SInit ==
    /\ sub = [r \in Row |-> [status |-> "none", plan |-> Null, checkout |-> Null]]
    /\ stripe = [c \in Checkout |-> [state |-> "none", plan |-> Null]]
    /\ begun = 0
    /\ task = [k \in Desk |-> Vacant]

ActiveRows == {r \in Row : sub[r].status = "active"}

\* The plan in effect: the newest active row.
Current == IF ActiveRows = {} THEN Null ELSE sub[Max(ActiveRows)].plan

Starters == {p \in Plan : \A q \in Plan : Price[p] =< Price[q]}

-----------------------------------------------------------------------------
(* Stripe. *)

\* A session for a paid plan; the tenant's Stripe customer is not modelled.
CreateCheckout(c, p) ==
    /\ stripe[c].state = "none"
    /\ Price[p] > 0
    /\ stripe' = [stripe EXCEPT ![c] = [state |-> "open", plan |-> p]]
    /\ UNCHANGED <<sub, begun, task>>

\* The customer pays, or later stops paying or cancels on the portal.
StripeMoves(c) ==
    /\ stripe[c].state \in {"open", "paid"}
    /\ stripe' = [stripe EXCEPT ![c].state = IF @ = "open" THEN "paid" ELSE "lapsed"]
    /\ UNCHANGED <<sub, begun, task>>

-----------------------------------------------------------------------------
(* Requests. *)

Begin(k, t) == task[k] = Vacant /\ task' = [task EXCEPT ![k] = t]

BeginInsert(k, t) ==
    /\ begun < LastRow
    /\ begun' = begun + 1
    /\ Begin(k, t)
    /\ UNCHANGED <<sub, stripe>>

Activation(row, p, c) ==
    [pc |-> "activate", row |-> row, seen |-> ActiveRows, plan |-> p, checkout |-> c]

\* get_my_plan and require_feature find no active plan.
NoPlanFound(k) ==
    /\ ActiveRows = {}
    /\ BeginInsert(k, [pc |-> "starter", row |-> begun + 1])

\* select_plan takes free plans only, assign_plan any.
SelectReads(k, p) == Price[p] = 0 /\ BeginInsert(k, Activation(begun + 1, p, Null))
AssignReads(k, p) == BeginInsert(k, Activation(begun + 1, p, Null))

\* verify_checkout_session: the session is paid, and its plan is not in effect.
VerifyChecks(k, c) ==
    /\ stripe[c].state \in {"paid", "lapsed"}
    /\ Current # stripe[c].plan
    /\ BeginInsert(k, [pc |-> "verify", row |-> begun + 1, checkout |-> c])

VerifyReads(k) ==
    /\ task[k].pc = "verify"
    /\ LET c == task[k].checkout
       IN  task' = [task EXCEPT ![k] = Activation(@.row, stripe[c].plan, c)]
    /\ UNCHANGED <<sub, stripe, begun>>

\* stripe_webhook, checkout.session.completed.
CompletedReads(k, c) ==
    /\ stripe[c].state \in {"paid", "lapsed"}
    /\ BeginInsert(k, Activation(begun + 1, stripe[c].plan, c))

\* Mutant: any update of a subscription ends it.
EndedOrNot(c) == stripe[c].state \in {"paid", "lapsed"}

\* stripe_webhook, customer.subscription.updated or deleted.
Ended(c) == stripe[c].state = "lapsed"

EndedReads(k, c) ==
    /\ Ended(c)
    /\ Begin(k, [pc |-> "expire", seen |-> {r \in ActiveRows : sub[r].checkout = c}])
    /\ UNCHANGED <<sub, stripe, begun>>

Finish(k) == task' = [task EXCEPT ![k] = Vacant] /\ UNCHANGED <<stripe, begun>>

NewRow(p, c) == [status |-> "active", plan |-> p, checkout |-> c]

\* _auto_assign_starter inserts the cheapest plan.
StarterSaves(k) ==
    /\ task[k].pc = "starter"
    /\ \E p \in Starters : sub' = [sub EXCEPT ![task[k].row] = NewRow(p, Null)]
    /\ Finish(k)

\* Sets the rows it loaded as active to expired.
Expired(seen) == [r \in Row |-> IF r \in seen THEN [sub[r] EXCEPT !.status = "expired"] ELSE sub[r]]

ActivateSaves(k) ==
    /\ task[k].pc = "activate"
    /\ sub' = [Expired(task[k].seen) EXCEPT ![task[k].row] = NewRow(task[k].plan, task[k].checkout)]
    /\ Finish(k)

EndedSaves(k) ==
    /\ task[k].pc = "expire"
    /\ sub' = Expired(task[k].seen)
    /\ Finish(k)

\* The worker dies, or the client goes away.
SAbandon(k) == task[k] # Vacant /\ Finish(k) /\ UNCHANGED sub

SNext ==
    \/ \E c \in Checkout, p \in Plan : CreateCheckout(c, p)
    \/ \E c \in Checkout : StripeMoves(c)
    \/ \E k \in Desk :
          \/ NoPlanFound(k) \/ VerifyReads(k)
          \/ \E p \in Plan : SelectReads(k, p) \/ AssignReads(k, p)
          \/ \E c \in Checkout : VerifyChecks(k, c) \/ CompletedReads(k, c) \/ EndedReads(k, c)
          \/ StarterSaves(k) \/ ActivateSaves(k) \/ EndedSaves(k) \/ SAbandon(k)

SSpec == SInit /\ [][SNext]_svars

-----------------------------------------------------------------------------
(* Properties. *)

\* A plan ends only in exchange for another, or when Stripe has ended its own
\* subscription.
PlanLostForCause ==
    [][\A r \in ActiveRows :
          sub'[r].status # "active"
          => \/ \E q \in Row \ ActiveRows : sub'[q].status = "active"
             \/ sub[r].checkout # Null /\ stripe[sub[r].checkout].state = "lapsed"]_svars
=============================================================================
