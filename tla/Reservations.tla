----------------------------- MODULE Reservations -----------------------------
(***************************************************************************)
(* The reservations of one property, mirrored from its channel manager:    *)
(* syncs that fetch a window of days through an adapter and upsert what    *)
(* they fetched (app/services/sync_service.py, app/services/adapters/),    *)
(* and the notices that Little Hotelier posts to a webhook                 *)
(* (app/api/v1/endpoints/webhooks.py).  Guests, amounts and room names do  *)
(* not appear, nor the credentials that only serve to try the product out. *)
(***************************************************************************)
EXTENDS Integers, FiniteSets, Desks

CONSTANTS
    Ext,            \* the external_ids of the provider
    Listing,        \* the places they have in its lists, 1, 2, ...
    Stamp,          \* external_ids made from the time, for notices without one
    Provider,       \* providers the property may be connected to
    GuestStay,      \* stays that guests book
    Early,          \* bound: what the provider may have at first
    Ahead,          \* days that a sync looks ahead (90)
    INTERVAL_DAYS,  \* longest interval a Mews request may ask for
    PAGE_SIZE,      \* reservations on a page of Cloudbeds
    Horizon,        \* bound: number of the last day
    MaxChanges      \* bound: what happens at the provider

ASSUME ReservationsAssumption ==
    /\ IsFiniteSet(Ext) /\ Listing \in [Ext -> Nat]
    /\ Null \notin Ext
    /\ \A s \in GuestStay : s.in \in Int /\ s.out \in Int /\ s.in =< s.out
    /\ Early \subseteq [Ext -> {Null} \cup {[state |-> "confirmed", in |-> s.in, out |-> s.out] : s \in GuestStay}]
    /\ Ahead \in Nat /\ Horizon \in Nat
    /\ INTERVAL_DAYS \in Nat \ {0} /\ PAGE_SIZE \in Nat \ {0}

VARIABLES
    today,
    provider,       \* the provider of the integration
    connection,     \* its connection_status
    pms,            \* the provider's own reservations
    changes,        \* how often they changed
    notices,        \* the notices the provider sent, and may send again
    reservations,   \* the table
    desk            \* the syncs and notices in progress

vvars == <<today, provider, connection, pms, changes, notices, reservations, desk>>

State == {"requested", "confirmed", "checked_in", "checked_out", "cancelled", "no_show"}
UnifiedStatus == State \ {"requested"}
Reservation == [status : UnifiedStatus, in : Int, out : Int]

\* What the provider keeps, and the handlers: got is what they fetched, by its
\* external_ids.
Kept == [state : State, in : Int, out : Int]
Fetchable(got) == DOMAIN got \subseteq Ext \cup Stamp /\ got \in [DOMAIN got -> Reservation]
Sync(got) == [pc : {"fetch", "upsert", "availability", "finish"}, from : Nat, step : Nat, got : {got},
              touched : SUBSET Ext]   \* history: what the provider changed meanwhile
Notice(got) == [pc : {"notice"}, got : {got}]

VTypeOK ==
    /\ today \in 0 .. Horizon
    /\ provider \in Provider
    /\ connection \in {"active", "error", "disconnected"}
    /\ pms \in [Ext -> {Null} \cup Kept]
    /\ \A x \in Ext : pms[x] # Null => pms[x].in =< pms[x].out
    /\ \A notice \in notices : notice.id \in Ext \cup {Null} /\ notice.of \in Kept
    /\ reservations \in [Ext \cup Stamp -> {Null} \cup Reservation]
    /\ desk = [k \in Desk |-> desk[k]]
    /\ \A k \in Desk : desk[k] # Vacant =>
          desk[k] \in Sync(desk[k].got) \cup Notice(desk[k].got) /\ Fetchable(desk[k].got)

VInit ==
    /\ today = 0 /\ provider \in Provider /\ connection = "active"
    /\ pms \in Early
    /\ changes = 0 /\ notices = {}
    /\ reservations = [x \in Ext \cup Stamp |-> Null]
    /\ desk = [k \in Desk |-> Vacant]

-----------------------------------------------------------------------------
(* The provider (external). *)

\* Where a stay goes from each state; only Little Hotelier sends notices.
Becomes(s) ==
    CASE s = "requested" -> {"confirmed", "cancelled"}
      [] s = "confirmed" -> {"confirmed", "checked_in", "cancelled", "no_show"}
      [] s = "checked_in" -> {"checked_out"}
      [] OTHER -> {}

Happens(x, r) ==
    /\ changes < MaxChanges
    /\ changes' = changes + 1
    /\ pms' = [pms EXCEPT ![x] = r]
    /\ notices' = IF provider = "little_hotelier"
                  THEN notices \cup {[id |-> id, of |-> r] : id \in {x, Null}} ELSE notices
    /\ desk' = [k \in Desk |-> IF desk[k] = Vacant \/ desk[k].pc = "notice" THEN desk[k]
                               ELSE [desk[k] EXCEPT !.touched = @ \cup {x}]]
    /\ UNCHANGED <<today, provider, connection, reservations>>

Books(x) ==
    /\ pms[x] = Null
    /\ \E s \in GuestStay, state \in {"requested", "confirmed"} :
          Happens(x, [state |-> state, in |-> s.in, out |-> s.out])

Proceeds(x) == pms[x] # Null /\ \E s \in Becomes(pms[x].state) : Happens(x, [pms[x] EXCEPT !.state = s])

Reschedules(x) ==
    /\ pms[x] # Null /\ pms[x].state \in {"requested", "confirmed", "checked_in"}
    /\ \E s \in GuestStay : Happens(x, [pms[x] EXCEPT !.in = s.in, !.out = s.out])

Midnight ==
    /\ today < Horizon
    /\ today' = today + 1
    /\ UNCHANGED <<provider, connection, pms, changes, notices, reservations, desk>>

-----------------------------------------------------------------------------
(* What the adapters make of it. *)

\* Three adapters know two states, two know them all.
Coarse(s) == IF s = "cancelled" THEN "cancelled" ELSE "confirmed"
CloudbedsStatus(s) == IF s = "requested" THEN "confirmed" ELSE s
MewsStatus(s) == IF s \in {"checked_in", "checked_out", "cancelled", "no_show"} THEN s ELSE "confirmed"

Unified(r, status) == [status |-> status, in |-> r.in, out |-> r.out]
StatusOf(s) ==
    CASE provider = "mews" -> MewsStatus(s)
      [] provider = "cloudbeds" -> CloudbedsStatus(s)
      [] OTHER -> Coarse(s)

\* Reservations with an arrival in from .. to; stays that touch from .. end - 1.
Arriving(from, to) == {x \in Ext : pms[x] # Null /\ pms[x].in \in from .. to}
Colliding(from, end) == {x \in Ext : pms[x] # Null /\ pms[x].in < end /\ from =< pms[x].out}

\* Rows written over those that are there.
Over(new, rows) == [x \in DOMAIN new \cup DOMAIN rows |-> IF x \in DOMAIN new THEN new[x] ELSE rows[x]]

Goto(k, t) == desk' = [desk EXCEPT ![k] = t]

\* One answer of the provider joins those before; a later one of the same
\* reservation counts.
Fetched(k, part, done) ==
    /\ Goto(k, [desk[k] EXCEPT !.got = Over(part, @), !.step = @ + 1, !.pc = IF done THEN "upsert" ELSE "fetch"])
    /\ UNCHANGED <<today, provider, connection, pms, changes, notices, reservations>>

Until(k) == desk[k].from + Ahead
Fetches(k, name) == desk[k].pc = "fetch" /\ provider = name
AtOnce(k) == [x \in Arriving(desk[k].from, Until(k)) |-> Unified(pms[x], Coarse(pms[x].state))]

FetchChannex(k) == Fetches(k, "channex") /\ Fetched(k, AtOnce(k), TRUE)
FetchLittleHotelier(k) == Fetches(k, "little_hotelier") /\ Fetched(k, AtOnce(k), TRUE)
FetchSiteMinder(k) == Fetches(k, "siteminder") /\ Fetched(k, AtOnce(k), TRUE)

\* Cloudbeds: pages of the list as it is now, up to its end (a short page is
\* at the end too).
Listed(k) == Arriving(desk[k].from, Until(k))
Offset(x, list) == Cardinality({y \in list : Listing[y] < Listing[x]})
Page(k) == {x \in Listed(k) :
               Offset(x, Listed(k)) \in desk[k].step * PAGE_SIZE .. (desk[k].step + 1) * PAGE_SIZE - 1}
FetchCloudbeds(k) ==
    /\ Fetches(k, "cloudbeds")
    /\ Fetched(k, [x \in Page(k) |-> Unified(pms[x], CloudbedsStatus(pms[x].state))],
               (desk[k].step + 1) * PAGE_SIZE >= Cardinality(Listed(k)))

\* Mutant: the exclusive end is the last day itself.
RangeEndShort(k) == Until(k)

\* Mews: windows of INTERVAL_DAYS, the last one up to the end of the last day.
RangeEnd(k) == Until(k) + 1
FetchMews(k) ==
    LET start == desk[k].from + desk[k].step * INTERVAL_DAYS
        end == IF start + INTERVAL_DAYS < RangeEnd(k) THEN start + INTERVAL_DAYS ELSE RangeEnd(k)
    IN  /\ Fetches(k, "mews")
        /\ Fetched(k, [x \in Colliding(start, end) |-> Unified(pms[x], MewsStatus(pms[x].state))],
                   end = RangeEnd(k))

-----------------------------------------------------------------------------
(* Syncs. *)

SyncBegins(k) == [pc |-> "fetch", from |-> today, step |-> 0, got |-> [x \in {} |-> Null], touched |-> {}]

\* What the provider must answer to a first request with the credentials: a
\* success, and of two providers the name of the hotel with it.
ChannexTests(answer) == answer \in {"named", "nameless"}
CloudbedsTests(answer) == answer = "named"
MewsTests(answer) == answer = "named"
Tests(answer) ==
    CASE provider = "cloudbeds" -> CloudbedsTests(answer)
      [] provider = "mews" -> MewsTests(answer)
      [] OTHER -> ChannexTests(answer)

\* Connecting again, with a sync at once; the integration exists from the start.
Connect(k) ==
    /\ desk[k] = Vacant
    /\ \E answer \in {"named", "nameless", "refused", "down"} : Tests(answer)
    /\ connection' = "active"
    /\ Goto(k, SyncBegins(k))
    /\ UNCHANGED <<today, provider, pms, changes, notices, reservations>>

TriggerSync(k) ==
    /\ desk[k] = Vacant /\ connection # "disconnected"
    /\ Goto(k, SyncBegins(k))
    /\ UNCHANGED <<today, provider, connection, pms, changes, notices, reservations>>

Disconnect ==
    /\ connection' = "disconnected"
    /\ UNCHANGED <<today, provider, pms, changes, notices, reservations, desk>>

\* A sync holds the rows it upserted until it commits.
Held(j) == IF desk[j] # Vacant /\ desk[j].pc \in {"availability", "finish"} THEN DOMAIN desk[j].got ELSE {}
Unlocked(k) == \A j \in Desk \ {k} : Held(j) \cap DOMAIN desk[k].got = {}

Upsert(k) ==
    /\ desk[k].pc = "upsert" /\ Unlocked(k)
    /\ Goto(k, [desk[k] EXCEPT !.pc = "availability"])
    /\ UNCHANGED <<today, provider, connection, pms, changes, notices, reservations>>

\* The availability is counted only; the sync goes on without it.
FetchAvailability(k) ==
    /\ desk[k].pc = "availability"
    /\ Goto(k, [desk[k] EXCEPT !.pc = "finish"])
    /\ UNCHANGED <<today, provider, connection, pms, changes, notices, reservations>>

SyncSucceeds(k) ==
    /\ desk[k].pc = "finish"
    /\ reservations' = Over(desk[k].got, reservations)
    /\ connection' = "active"
    /\ Goto(k, Vacant)
    /\ UNCHANGED <<today, provider, pms, changes, notices>>

\* An answer is missing or of another form, or a statement is refused, also to
\* end a deadlock of two syncs: nothing is stored.
SyncFails(k) ==
    /\ desk[k].pc \in {"fetch", "upsert"}
    /\ connection' = "error"
    /\ Goto(k, Vacant)
    /\ UNCHANGED <<today, provider, pms, changes, notices, reservations>>

WorkerDies(k) ==
    /\ desk[k] # Vacant
    /\ Goto(k, Vacant)
    /\ UNCHANGED <<today, provider, connection, pms, changes, notices, reservations>>

-----------------------------------------------------------------------------
(* The webhook. *)

IdOf(notice) == IF notice.id = Null THEN Stamp ELSE {notice.id}

NoticeArrives(k, notice) ==
    /\ desk[k] = Vacant
    /\ provider = "little_hotelier" /\ connection = "active"
    /\ \E x \in IdOf(notice) :
          Goto(k, [pc |-> "notice", got |-> [y \in {x} |-> Unified(notice.of, Coarse(notice.of.state))]])
    /\ UNCHANGED <<today, provider, connection, pms, changes, notices, reservations>>

NoticeStored(k) ==
    /\ desk[k].pc = "notice" /\ Unlocked(k)
    /\ reservations' = Over(desk[k].got, reservations)
    /\ Goto(k, Vacant)
    /\ UNCHANGED <<today, provider, connection, pms, changes, notices>>

VNext ==
    \/ Midnight \/ Disconnect
    \/ \E x \in Ext : Books(x) \/ Proceeds(x) \/ Reschedules(x)
    \/ \E k \in Desk :
          \/ Connect(k) \/ TriggerSync(k)
          \/ /\ desk[k] # Vacant
             /\ \/ FetchChannex(k) \/ FetchLittleHotelier(k) \/ FetchSiteMinder(k)
                \/ FetchCloudbeds(k) \/ FetchMews(k)
                \/ Upsert(k) \/ FetchAvailability(k) \/ SyncSucceeds(k) \/ SyncFails(k)
                \/ NoticeStored(k)
          \/ WorkerDies(k)
          \/ \E notice \in notices : NoticeArrives(k, notice)

VSpec == VInit /\ [][VNext]_vvars

-----------------------------------------------------------------------------

\* What a sync is bound to find: the reservations its window asks for that
\* stayed as they are since it began, and of Cloudbeds, whose pages shift when
\* any of them moves, only if none did.
Due(k) ==
    IF provider = "cloudbeds" /\ desk[k].touched # {} THEN {}
    ELSE (IF provider = "mews" THEN Colliding(desk[k].from, Until(k) + 1) ELSE Arriving(desk[k].from, Until(k)))
         \ desk[k].touched

\* A sync that succeeds has stored each of them as the provider has it now,
\* whatever answers it came in and whatever notice or other sync wrote the row.
CatchesUp == \A k \in Desk : desk[k] # Vacant /\ SyncSucceeds(k) =>
    \A x \in Due(k) : reservations'[x] = Unified(pms[x], StatusOf(pms[x].state))

SyncCatchesUp == [][CatchesUp]_vvars
=============================================================================
