# Verification of the SkiTech backend

TLA+ models, TLC runs and TLAPS proofs of this repository: a multi-tenant
hotel-operations API (FastAPI, async SQLAlchemy, PostgreSQL). Nothing in it is a
distributed algorithm; what is hard is that every endpoint reads, decides and
commits while others do the same, over state that many components write.

## How the code runs, and what follows for the models

- Every HTTP request is an asyncio task with a database session of its own
  (`app/core/database.py`, `get_db`), and `README.md` starts four uvicorn
  workers. There is no in-process state shared between requests worth
  modelling: everything that matters is in the database.
- PostgreSQL runs at its default isolation, READ COMMITTED. A handler reads with
  one or more SELECTs and writes with one commit; other requests commit in
  between. In the models a handler is a process: one step per read that later
  steps depend on, one step for the commit. A commit that inserts, updates and
  writes feed items is one step, because it is one transaction.
- Sessions have `autoflush=False` and `expire_on_commit=False`. The ORM writes
  back only the columns whose value differs from the one it loaded, by primary
  key and without a version check: the last commit wins, column by column
  (`Written` of `Rows`).
- `SELECT ... FOR UPDATE` waits for the lock, then sees the newest committed row
  and drops the rows that no longer satisfy its WHERE clause. Locks are held until
  the transaction ends. Unique indexes refuse the later of two commits.
- A worker can die and a client can go away at any time. The transaction is rolled
  back, so a crash is the action `Abandon` of each module (with the module's
  letter in front): the handler disappears and nothing more is written. What it
  committed in earlier transactions stays.

## Inventory

`PROJECT.json` ("components") lists every part with its files, "hazards" what is
hard to test in them, at its line and with the properties it would break. What
each part keeps, does and has to get right:

| Component | State | Operations | Hard because | Correct when |
| --- | --- | --- | --- | --- |
| punch clock | `attendance_records`, `property_geofences` | punch in, punch out, status text, status, totals | requests of one user overlap; shifts are forgotten; a decision read is acted on later | hours are the time between the punches; a shift is paid or reviewed; shifts of a user are disjoint |
| attendance corrections | `attendance_correction_requests`, the record, feed items | submit (replaces), approve, reject, cancel | row locks of two tables, old tokens, a partial unique index | one pending request a shift; decisions final and by an entitled reviewer; a claim is paid once |
| geofence change requests, direct edits | `geofence_change_requests`, the geofence, feed items | submit (replaces), approve, reject, cancel; create, update, delete | approvals and direct edits write the same row; demotions | every live value was sanctioned; one pending request |
| inbox | `inbox_items` | create, notify (in a savepoint), resolve; read, dismiss, read all | a queue shared by many, written by source module and readers | a decided request is not unread |
| rooms and bookings | `rooms`, `bookings`, how the property numbers its rooms | create, edit, check in, check out, cancel; room edits, regenerate | check then act, no locks | no room booked twice; finished bookings stay finished |
| channel sync, integrations | `property_integrations`, `sync_logs`, `rooms` | connect, disconnect, trigger; plan and import rooms; upsert reservations | background work next to edits; three unique indexes that ignore `deleted_at` | a plan is never refused; rooms change hands only when released |
| channel adapters, webhook | `channel_reservations` | windows and pages of a fetch, translation of a status; upsert of a notice | the provider moves on between the parts of a fetch; notices are lost, late or repeated | a sync that succeeds stored what its window asks for, as the provider has it |
| assigned KRA tasks | definitions, assignments, occurrences, feed items | define, assign, end, list, delay, complete | no scheduler: rows appear when somebody looks; clients in other time zones | no work invented or undone; no notification false or sent twice; backlogs fill |
| KRA forms | daily, weekly, monthly and quarterly rows | file, edit, delete, count compliance | check then insert, no index | compliance is no more than the days there are |
| authentication, OTP | users, one code column, tokens in clients | register, verify, resend, log in, reset, change password | one column for two purposes; codes expire; logins overlap with deactivation | a session belongs to a verified email |
| users and invitations | users, tenants, co-admin requests | invite, request, approve, reject, accept | an email is free when asked and taken when used | an approved request made the account of its email |
| superadmin and tenants | users, tenants | invite, activate, deactivate, delete; edits, reports | deactivation next to logins | sessions as above |
| subscriptions | `tenant_subscriptions`, Stripe's own | checkout, Stripe events, verification of a session, selection, automatic Starter | events late, twice or out of order | a plan is lost only for another or because it ended |
| documents | documents, reviews, approvals, shares, signatures | upload, assign, decide, share, revoke, sign | stale handlers; a decision is taken from a row of several | nobody approves what they uploaded |
| complaints | complaints, assignments, comments, feed items | raise, assign, comment, escalate, resolve | several commits of one request | whom it is assigned to has a row in the history |
| scheduling, workforce | schedules, shifts, availability, replacement requests, critical actions, employees | plan, publish, assign, recommend, accept, reject, replace | no check of a request's status; alarms and recommendations are matched by equal date-times | a shift that became covered has a replacement; an alarm stays until it is answered |
| inventory | items, movements, feed items | add, remove, adjust, update, delete | quantity read, changed and written | stock is what the movements add up to |
| performance ranking | criteria, scores, rankings | initialize, record scores and deductions, recalculate | savepoints: one employee fails, the others go on; points arrive meanwhile | ranks follow the scores of one calculation |
| SOPs | procedures, versions, executions | assign, submit proof, approve, reject, complete | as reviews elsewhere, without locks | a proof is replaced only after a rejection |
| governance, reports, activity log, shell, schemas | single rows, or none | edits, queries | - | - |

How they interact:

- **Feed.** Corrections, geofence requests, KRA tasks, inventory, complaints, SOPs
  and scheduling create feed items in their own transaction and resolve them by
  source module and id (`mark_inbox_items_actioned`), while any user of the shared
  queue marks them.
- **Shared rows.** Approved corrections write `attendance_records`, which punches
  write too. Approved geofence requests and direct edits write one geofence row,
  which the location check of punches reads. Syncs and the rooms page write `rooms`.
- **Derived data.** Critical actions are computed from shifts and availability when
  somebody looks, rankings from points and KRA occurrences when somebody asks, the
  Starter plan is inserted by whoever finds none: there is no scheduler.
- **Roles.** Every handler has the role of its token; some read the stored role
  again. Both are state in the two review modules.
- **Background.** `trigger_sync` and `connect` start a sync in a session of its own.

## Modules

`Rows` says what a commit writes: the columns that differ from what was loaded
(`Written`). `Desks` is what the smaller components share beside it: a desk serves one
request after another, and its handler remembers what it loaded. The larger modules
have handlers of their own shape.

| Module | Models | State and steps |
| --- | --- | --- |
| `PunchClock` | `AttendanceService`, `attendance.py` | `records` is the table, `request[q]` the memory of a handler. Each endpoint is read, check, save: `PunchInReads`, `PunchInChecks`, `PunchInSaves` and so on |
| `ShiftReports` | `get_user_totals` | operators over `records` |
| `AttendanceCorrections` | `attendance_correction_service.py` | extends `PunchClock` with `correction`, `creq` (handlers and the row locks they hold), `role`, `token` and the feed. `PunchStep` is any step of the punch clock that does not write a locked record |
| `ShiftLedger` | abstract | shifts that begin, end, are forgotten and are settled in one step each |
| `ShiftRefinement` | the mapping | `shift[r]` is the row `records[r]`, with `active`, `completed` and `auto_closed` read as running, worked and unresolved; `ImplementsLedger` |
| `Inbox` | `inbox_service.py`, `inbox.py` | items of any source and the readers that load and later write them; instanced by the two modules of reviewed requests |
| `GeofenceRequests` | `geofence_request_service.py`, `GeofenceService` | `proposal`, `geofence`, `server` (handlers), roles and tokens, the feed |
| `RoomBookings` | `rooms.py`, `properties.py` | `rooms`, `bookings`, `slot` (handlers; one that edits the property carries how its rooms are numbered) |
| `BookingCalendar` | abstract | entries of guests, each with a room and nights: `Book`, `Move`, `Close` |
| `BookingRefinement` | the mapping | an entry is a row of `bookings` with the days from check-in to check-out; one that is cancelled or checked out is closed; `ImplementsCalendar` |
| `ChannelSync` | `sync_service.py`, `integrations.py`, room edits of `rooms.py` | `status`, `rooms`, `logs`, `run` (syncs in progress), `edit`; `Planned` and `Execution` are the tables after each fetched room and after each statement, as recursive functions |
| `Reservations` | the five adapters, `webhooks.py`, the reservations of `sync_service.py` | `pms` is what the provider knows, `reservations` what we do; `desk` are syncs and notices in progress: a fetch window by window and page by page, then one upsert after the other; notices that are delayed, repeated or dropped |
| `KraTasks` | `kra_task_service.py` | `def`, `live`, `asg`, `occ`, `told`, `delays`, `req`; `gap` and `worked` only record the past for the properties |
| `KraForms` | `kra_service.py`, `kra.py` | `form` (rows of an author and a period), `filler` |
| `Inventory` | `inventory.py` | one item: `item`, `open` alerts, `mover`; `explained` and `overlapped` record the past |
| `Replacements` | `scheduling_service.py`: shifts and their replacement | `shift`, `rr` (requests), `notice`, `planner`; `posted` records the shifts that were posted as covered |
| `WeekPlans` | `scheduling_service.py`: the week, availability, critical actions, recommendations; employees of `workforce.py` | extends `Replacements` with `staff`, `absence`, `week`, `roster`, `edits` |
| `Complaints` | `complaint_service.py` | one complaint: its row, `assignments`, `comments`, `escalations`, `officer` |
| `SopTasks` | `sop.py` | one procedure and its execution; `proofs` counts the photos since the last rejection |
| `Documents` | `document_service.py` | one document: `doc`, `reviews`, `assigned`, `shares`, `signature`, `clerk`; `endorsed` records the past |
| `Subscriptions` | `subscriptions.py`, `require_feature` | `sub` (rows in the order of `created_at`), `stripe`, `begun`, `task` |
| `Ranking` | `ranking_service.py`, its repository | criteria, points, `ranking`, the recalculations in progress |
| `Accounts` | `auth.py`, activation in `users.py` and `superadmin.py` | one account: `user`, `codes` that were sent, `sessions`, `lobby` |
| `Invitations` | `superadmin.py`, `users.py`, `co_admin.py` | one email: `requests`, `account`, `tenants`, `inviter` |
| `FrontOffice`, `BackOffice` | compositions | see below |
| `MC*` | instances for TLC | sets of inputs and symmetry, no actions |
| `*Proofs` | theorems | see "What is proved" |

**The two offices.** `FrontOffice` puts together `RoomBookings`, `Inventory`,
`Replacements`, `WeekPlans`, `Complaints`, `SopTasks`, `GeofenceRequests` (with
readers of its feed) and `Reservations`; `BackOffice` puts together `KraTasks`,
`Documents`, `Subscriptions`, `Ranking`, `KraForms`, `Accounts` and `Invitations`.
Within each office the parts share no table and no handler, so a step of one enables
and disables nothing in another, and a property of one part holds in the product
exactly when it holds in that part. A behaviour therefore is one of one part: the
variable `scene` says of which, and the others stay in an initial state. This
gives up no interleaving that a property could see and keeps the state space a sum
instead of a product. The components that do interact, punches with corrections,
corrections and geofence requests with the feed, syncs with room edits, weeks with
replacements, are composed for real in their own modules.

Some modules hold variants of an operator marked `Mutant:`. They are plausible bugs of
the code, no part of the specification; `PROJECT.json` ("mutants") names the property
each of them breaks.

### Abstractions

- Time is in hours for punches and in days for bookings, reservations and tasks. A
  location is a distance and an accuracy; a geofence one of a few centres and radii.
- Rows are members of small sets, and a guard stops new requests when the rows left are
  promised to handlers in flight. These guards, and those on the constants whose comment
  says "bound", are the only ones without a line of code.
- `mark_inbox_items_actioned` loads the items and writes them in the same commit; the
  model merges the two, because a reader's stale write is modelled on the reader's side.
- `DecideChecks` of a correction reads the stored role and locks the record in one step:
  nothing is written between the two.
- `ensure_occurrences` reads the assignments and the existing periods in one step.
  Requests for occurrences that find nothing to write are left out. "weekly" stands for
  every frequency longer than a day. In `KraTasks` midnight comes between requests.
- `PunchStep` leaves the geofence as it was chosen at the start; `PunchClock` by itself
  also changes it.
- Stale logs that a trigger closes as interrupted are any set of the unfinished ones, so
  a slow sync can be closed and finish afterwards.
- Of the inbox items of scheduling only those about a reassignment are modelled; the one that tells an employee of a new
  shift is made once, with the shift, and nothing reads it.
- `Inventory`, `Complaints`, `SopTasks`, `Documents`, `Accounts` and `Invitations` have one
  item, complaint, procedure, document, account and email: their handlers touch no
  other. `Subscriptions` has one tenant.
- A code is known by its number and the purpose it was sent for; guessing one is not
  modelled. Scores are integers out of a hundred, and employees are ranked one recalculation after the other.
- Stripe's own life cycle of a session is open, paid, lapsed; an event about it can come
  at any time after and any number of times.

## What the runs show

Distinct states are those TLC reports.

| Run | Instance | What it shows |
| --- | --- | --- |
| `punch_interleaved` (1.4 M states) | one user, two requests at once, three records, clock to 3, stale after 1 | what survives any overlap: `HoursMatchPunches`, `ClosedShiftsStayClosed`, and each closed shift is paid or flagged, never both or neither (`ClosedShiftPaidXorReviewed`) |
| `shifts_serial` (117 k) | two users, one punch at a time each, two records, one correction, clock to 4, stale after 2 | disjoint shifts, no more hours than have passed (`TotalsWithinElapsed`), and the refinement of the ledger (`ImplementsLedger`) |
| `punch_auto_closed` (violation) | as the first | see findings |
| `corrections_review` (249 k) | staff who is promoted, an admin, one shift, two requests, two handlers | one pending request, final and entitled decisions, approved claims paid, the feed follows; every handler finishes |
| `geofence_review` (1.3 M) | a manager who is promoted and demoted, an admin, two requests, two handlers, direct edits | one pending request, final decisions by somebody who was an admin while the request was served, a live location of sanctioned values |
| `bookings_overlap` (violation) | one room, two requests at once | see findings |
| `room_sync` (287 k) | two integrations of a property, two rows, three numbers of which two are equal to a provider, one sync and one row of the log at a time | plans are refused by no index (`PlansApplyCleanly`); rooms change hands only when released |
| `room_linked_twice` (violation) | one integration | see findings |
| `kra_demand` (103 k) | one user and one assignment, clients of today and a day ahead, one request at a time, four days, two days a week, one period a call | no missed work in a gap; backlogs longer than a call fill in |
| `front_office` (1.2 M) | one of eight parts, see below | eleven properties of them |
| `back_office` (1.6 M) | one of seven parts, see below | nine properties of them |
| `criteria_announced` (violation) | as `back_office` | see findings |

The parts of `front_office`, two requests at a time unless said otherwise, and what is checked of each
beside its types (`TypesOK`):

| Scene | Instance | Properties |
| --- | --- | --- |
| rooms | two rooms, numbers and bookings, stays in three days, one request at a time | `NoDoubleBooking` by any sequence of edits, `ImplementsCalendar`: every commit is one step of a calendar, `RegenerateSparesGuests` |
| stock | quantities to 2, with and without a reorder level | `StockIsExplained`: unless two movements overlap, the stock is what the recorded ones add up to |
| shifts | two employees, one shift, posted as scheduled or as covered, one request | `CoveredHasReplacement`, whatever is accepted, rejected and assigned in whatever order: a shift that became covered names a replacement, and a request that ends accepted or assigned has one and has its shift covered |
| weeks | two employees, two moments, one edit besides, one request at a time | `AlarmsAnswered`: the alarm about a shift of somebody who is away stays until the shift is given to somebody else, and goes if that is one of those recommended for it |
| complaints | two members of staff, one comment | `AssigneeHasRow`, through the two commits of an assignment and the unique index |
| training | up to three proofs, one version; staff who set a status set `in_progress` | `ProofsPerReview`: between two rejections only requests that ran together replace a photo |
| fence | two users, one reader, no direct edits | `UnreadRequestsArePending`: the unread count has no decided request, whatever readers write back |
| channel | two reservations, five providers, two windows, pages of one, a day ahead, one change at the provider, which knows both reservations or neither to begin with | `SyncCatchesUp`: a sync that succeeds has stored every reservation its window asks for that stayed as it was since the sync began, whatever notice or other sync wrote the row |

The parts of `back_office`, two requests at a time:

| Scene | Instance | Properties |
| --- | --- | --- |
| kra | one user, two assignments, two days | `NoticesAreDeserved`: whatever notification is lost, none is false or sent twice, though two managers assign and two requests delay the same work; `WorkNeverUndone` |
| documents | two members, both may assign | `NoSelfApproval` |
| plans | a free and a paid plan, two checkouts, three requests that may insert | `PlanLostForCause`: a plan ends only for another or because Stripe ended it, in any order of events |
| ranks | two employees, a criterion computed from KRA tasks and one that is entered | `RanksFollowScores`, whoever fails in a savepoint, leaves or gets points meanwhile |
| forms | an employee and a manager, one period, two rows | `ComplianceWithinDays`, though a day may be filed twice |
| access | one account, three codes | `SessionsAreVerified`: no late commit takes back a verification |
| invites | two requests for one email, one tenant | `ApprovedMadeTheAccount`, whoever else registers or invites it |

### Why the bounds are enough

- **Two handlers** are every race of a reader with a writer and of two writers; the
  handlers keep nothing between requests, and the locks and indexes are pairwise. Where a
  theorem exists it holds for any number of them.
- **Punches.** Three records are a forgotten shift, the one after it and a third that two
  racing punch-ins may add. A horizon beyond twice the stale limit lets a forgotten
  shift, its successor and a claim happen in turn.
- **Corrections.** Two requests for one shift are the replaced and the replacing one; the
  shift is auto-closed by real steps of the punch clock, not in the initial state.
- **Bookings.** With days 0 to 2 two stays can be disjoint, adjacent, nested or overlap at
  either end. Two room rows let a number pass from a deleted room to a new one. `Manual` are the statuses that
  users of the rooms page choose: a booking needs a room that is available, so setting a taken room `available`
  is what lets the check of dates decide; the other two only refuse more.
- **Sync.** The fetched rooms include a renaming, a swap of numbers between two rooms and
  two rooms with the same number, which are the cases `plan_room_sync` distinguishes. A row of the
  log that is finished is used again for the next sync; with one sync at a time one row is enough.
- **Reservations.** Looking two days ahead in windows of two days makes two windows for Mews, a
  page of one makes two for Cloudbeds, and one change is a stay that moves or is cancelled
  between two of them.
- **KRA.** The cap `MAX_PERIODS_PER_CALL` is 1, and four days are a backlog of three or four calls. `Skew` has clients at
  and one day ahead of UTC in `kra_demand`, where the date decides what is created; `Worked` are the periods somebody
  delays or completes, which is independent of what is created; in `kra_demand` that is the first day only. That an assignment ends and another is made for the same user is in
  `back_office`, where all clients are at UTC.
- **Geofence.** One actor is promoted and demoted in any order, the other is an admin throughout, so that requests wait for a
  decision, are decided by somebody who has just become an admin, and are refused to somebody who no longer is.
- **Complaints and SOPs.** A comment is independent of assignments save for the count, so one is enough. Requests of the proof
  cycle set their own statuses; `StaffStatus` are those staff may give besides.
- **Shifts.** `Posted` are the statuses a client gives a new shift: of the four, `covered` is the one a request also sets, and
  `off` and `conflict` are, to every handler, what `scheduled` is.
- **Plans.** Three inserting requests are a plan, the one that replaces it and a late one.
- **Ranks.** Two employees can change places, tie and fail one after the other. `AnnouncedLast`
  cuts behaviours after criteria were announced: the announcement changes no
  table, so nothing follows from it. `Deducted` is 0 there: a deduction moves a score as any other entry does.
- **Documents, complaints, SOPs, accounts, invitations.** One row each and two handlers, so every
  stale load meets every commit. `SignedApart` has signatures asked for and given while nothing else happens to the
  document: they write no column that a decision reads.

Symmetry is used only where members of a set are interchangeable and no liveness is
checked: `corrections_review` and `kra_demand`, which check liveness, have none. The offices
permute only sets of desks, rows and numbers (in `front_office` these are the same two values, so that one permutation
serves every part; in `back_office` the requests and the rows of assignments, each by themselves), and their PROPERTIES are action properties and a refinement without fairness.

`AlarmsAnswered` and `SyncCatchesUp` are therefore safety: they say what a step may do, not that
somebody will act or that a sync will succeed.

### Preconditions

These are what the code needs and does not enforce. The properties are checked under
them, and what happens without them is stated here.

- **A user's punches are served one at a time** (`RequestsPerUser = 1`, `OnePunchAtATime` in the
  proofs) for `ShiftsDisjoint`, `TotalsWithinElapsed`, `ApprovedClaimIsPaid` and
  `ImplementsLedger`. A double tap may open two shifts, because the open records are read
  before the insert and no index forbids a second. The next punch-out closes both: the
  newest gets hours, the others are flagged for review.
- **One booking request at a time** (`Slot` has one member, `OneAtATime` in the proofs) for the properties of
  `RoomBookings`. With two, all the checks before a commit may be out of date.
- **One sync of a property at a time** (`Run` has one member) for `ChannelSync`. The code
  keeps one sync of one integration, not of one property: two syncs can both adopt a
  free room, or both insert it, and `RoomsChangeHandsWhenReleased` fails with two.
- **Recalculations of ranks do not overlap** for `RanksFollowScores`, and a planned week is edited one request
  at a time for `AlarmsAnswered`.

### Behaviour worth knowing

The models reach these, or the reading of the code for them did; no rule that the
repository states is broken by them, so no property forbids them.

- **Feed:** `mark_read` of an item loaded as unread writes `read` over an `actioned` that
  was committed in between. The item leaves the resolved state and shows up as read; it
  never becomes unread, which is what `UnreadRequestsArePending` checks.
- **Notifications:** `notify` writes its item in a savepoint and skips it when that fails; the assignment, the delay, the
  decision or the replacement is committed all the same, as `tests/test_inbox_notifications.py` (lines 144, 194 and
  486-529) requires, and nobody is told later. The models take both outcomes at every such call.
- **Geofence:** a direct edit writes only the columns that differ from what it loaded.
  With an approval in between, the live centre can come from one decision and the radius
  from the other. `LiveGeofenceIsSanctioned` is therefore stated column by column.
- **Rooms:** `uq_room_number` ignores `deleted_at`, so regenerating a property with numbers it
  ever had is always refused. Deleting a room ignores its bookings. Ending any booking
  of a room makes it available though another guest may be checked in.
- **Sync:** an integration that is disconnected, loses rooms to another one and is connected
  again leaves two owners, and both imports are skipped from then on. A sync that ends
  after a disconnection sets the status to active or error again.
- **Reservations:** an upsert never updates the guest or the number of nights. Adapters other than
  Mews filter by arrival, so a stay in progress is not refreshed any more. A failed sync leaves
  the status `error`, with which the webhook refuses notices. A notice without an id becomes
  a new row, and a sync that fetched earlier writes over a newer notice.
- **KRA:** when an assignment ends or its definition is deactivated with a backlog longer
  than one call creates, the older periods never appear. An assignee who is deactivated and
  activated again is charged with the periods of the absence: only reactivating a
  *definition* moves the start. A frequency can change while the first assignment is made.
- **Inventory:** of two removals that overlap the second overwrites the first, and both
  movements stay recorded (`overlapped`). Two open low-stock items make every further low
  movement fail until one is dismissed.
- **Replacements:** a client may post a shift as `covered` with nobody to cover it, `ShiftStatus` has that value and the
  status is stored as given; `CoveredHasReplacement` leaves such shifts out by `posted`. Accepting or rejecting after an assignment leaves the notice of whoever was assigned.
  A shift that is assigned to somebody else stays in the schedule of its first employee, where
  the dashboard still shows it. `get_my_schedule` lists the requests about the caller's own shifts only.
- **Weeks:** publishing a missing schedule answers "published"; a deleted employee stays `is_active`, is counted
  and recommended; a covered shift keeps its critical action, and the count of unscheduled employees can
  be negative. A response to a shift is answered and not stored.
- **Complaints:** `comment_count` is written from the loaded count, so that comments that overlap are counted once.
- **SOPs:** a review takes any status: a task can be approved that nobody submitted a proof for.
- **Documents:** overlapping decisions are written column by column and can leave a rejected document with
  an approved approval. `/templates` and `/stats` are declared after `/{document_id}` and never reached.
- **Subscriptions:** two requests that find no plan both insert the Starter plan; the newer is in effect. A subscription
  that was `past_due` is expired and not activated again when Stripe reports it active.
- **Ranking:** an employee whose calculation fails keeps the row of the time before, so that two can have one rank.
  Insights are flushed after the last commit and lost.
- **Accounts:** one of the two activations also takes deleted users, whom `get_current_user_obj`, which looks at
  `is_active` only, then lets in.
- **Invitations:** an owner's tenant is committed before the user, so that of two invitations that overlap one leaves a tenant
  without an owner.

### Fairness

- `corrections_review`: a handler that can take a step takes one (asyncio resumes it), and a
  row lock that is free again and again is granted: PostgreSQL queues the waiters of a row.
  Nothing forces a user to send a request or a worker to die.
- `kra_demand`: a handler that has begun ends, and the list of the property's occurrences is
  opened again and again when there is something to create. There is no scheduler in
  the code, so without somebody looking `BacklogFills` is false.
- All other runs check safety only and assume no fairness.

### Findings

| Run | Code | What happens |
| --- | --- | --- |
| `punch_auto_closed` | `attendance_service.py:206` | Of two overlapping punch-outs one completes the newest record, the other, whose time is past the stale limit, closes the same record as auto_closed; only its status column is written. The record is auto_closed with a punch-out time and hours, which the comment on `STALE_SHIFT_HOURS` (lines 20-22) excludes. |
| `bookings_overlap` | `rooms.py:561` | Two bookings of one room for the same dates both pass the check, "Overlaps are blocked on create" (line 355) notwithstanding. |
| `room_linked_twice` | `sync_service.py:162` | `plan_room_sync` adopts a row without noting that its owner is active now, so a second fetched room with the same number adopts it again; the docstring (lines 101-103) allows only rows that are unowned or owned by a disconnected integration. |
| `criteria_announced` | `ranking.py:193` | `POST /ranking/initialize` answers with the number of criteria it created; they are added and flushed, nothing commits, and `get_db` closes the session: no criterion exists. |

## What is proved

TLAPS checks every theorem for all values of the constants: any number of users, rows,
requests in progress, codes and days. In each module one invariant (`IInv`, `BInv`, `CInv`,
`SInv`, ...) is inductive, and the theorems follow from it. What the invariants add to the
properties has the same shape throughout, because the code has: **what a handler
remembers is still true enough when it commits**. Where rows are locked this follows from who
holds which lock, where nothing is locked from what the other commits leave alone.

| Module | Theorems | Strengthening |
| --- | --- | --- |
| `AttendanceProofs` | punches: `Invariance`, `TypeCorrect`, `HoursCorrect`, `PaidOrReviewed`, `ClosedForGood` | `SessionsInOrder`, `PunchInsInPast` |
| | corrections: `CorrInvariance`, `CorrTypeCorrect`, `OnePending`, `ReviewersAreEntitled`, `FeedFollows`, `DecisionsStand` | `LocksExclude`, `MemoryOK` of each handler, `Careers`, `Requests` |
| `ShiftProofs` | `SerialInvariance`, `ShiftsAreDisjoint`, `ClaimsArePaid`, `TotalsAreWithinElapsed`, `LedgerImplemented` | `PunchOK` of each handler, `PunchersApart`, `PastShiftsOver`, `ClaimsFit` |
| `GeofenceProofs` | `Invariance`, `TypeCorrect`, `OnePending`, `LiveIsSanctioned`, `UnreadArePending`, `DecisionsStand`, `AdminsDecide` | `LocksExclude`, `HandlerOK`, `Requests` |
| `RoomBookingsProofs` | `BookingInvariance`, `BookingTypeCorrect`, `BookedOnce`, `CalendarImplemented`, `FinishedForGood`, `GuestsKeepTheirRooms` | `BookingsInFull`, `CheckHolds` |
| `SyncProofs` | `TypeCorrect`, `PlansAreClean`, `RoomsAreReleased` | `TableOK` of the rooms; `PlanOK` and `Shown` of a plan, `PlansKept` with one sync at a time |
| `KraTasksProofs` | `Invariance`, `TypeCorrect`, `NoticesDeserved`, `WorkStays`, `GapNotMissed` | `MemoryOK`, `Apart`, `DelayedBefore`; `UpdateOK`, `RowsOK` |
| `BackOfficeProofs` | `ApprovedByOthers`, `PlansEndForCause`, `SessionsVerified`, `ApprovalsMadeTheAccount`, `RanksInOrder`, `ComplianceBounded`, `BackParts`, `BackTypes`, `BackSafe`, `BackActs` | `ClerkOK`, `TaskOK`, what is dirty in `lobby`, what an inviter goes on to do |
| `FrontOfficeProofs` | `StockExplained`, `CoveredByReplacement`, `AssigneesAreTraced`, `ProofsAreReviewed`, `AlarmsAreAnswered`, `SyncsCatchUp`, `FrontParts`, `FrontTypes`, `FrontSafe`, `FrontActs` | `MoverOK`, `PlannerOK`, `OfficerOK`, `TrainerOK`, `StaffInv`, `UpToDate` and `Complete` of each sync, `CountsInv` |

Every safety property that a passing run checks is stated by one of these theorems.

**Assumptions.** Each is named in the module that declares the constants and evaluated by TLC in a
run of it: NULL is no value of the types it stands beside (`NoneAssumption`, `PlaceAssumption`,
`ReplacementsAssumption`, parts of the others), limits and bounds are naturals
(`ConstantsAssumption`, `ReportsAssumption`, `AccountsAssumption`, `InventoryAssumption`, `ComplaintsAssumption`,
parts of `KraFormsAssumption`, `SopAssumption`, `WeekPlansAssumption`), tables that are counted or ranked are finite, and
what an admin, a day, a room, a weight or a window is (`CorrectionsAssumption`, `GeofenceAssumption`, `KraAssumption`,
`RoomsAssumption`, `RankingAssumption`, `ReservationsAssumption`, `InvitationsAssumption`, `SubscriptionsAssumption`).
`SyncAssumption` has that a number in normal form is its own normal form, as stripping and lower-casing are, and
that an answer names a provider's room once: the adapters build it from a mapping by that id. Preconditions are
hypotheses of the theorems that need them: `OnePunchAtATime` in `ShiftProofs`, and `OneAtATime` for the theorems about bookings (hence
for `FrontTypes`, `FrontSafe` and `FrontActs`, which have them as a part) and for `RoomsAreReleased`. `PlansAreClean` needs none.

**Punches.** `HoursMatchPunches` is not inductive. A punch-out writes `now - punch_in` with a `now` that
it took in an earlier step, and nothing in the property says that this `now` lies between
the punch-in and the clock. `IInv` adds what a handler's memory and the table have to do
with each other:

- `SessionsInOrder`: a handler's `now` is not after the clock, the rows it has loaded exist,
  and a punch-out that has passed its location check has a `now` no earlier than the
  punch-ins of its rows. The last part holds because the code takes the time *after* it has
  read the rows, and rows never change their punch-in time.
- `PunchInsInPast`: no record begins after the clock; this is what establishes the part above
  at the moment the time is taken.
- `TypeOK`: arithmetic needs the types.

The proof goes action by action (lemmas on `AutoClose`, `Complete`, `Load` and on the steps
that do not touch the table come first) and joins the steps in `Invariance`. `PaidOrReviewed` then
follows from how totals and flags read one row, whatever the plausible limit is.

**Totals of hours.** `TotalsWithinElapsed` compares a sum over shifts with the time that passed. The total is the size
of a set of pairs (shift, hour of it), and the proof maps each pair to the hour of the clock it was: two shifts of a user are
disjoint, so the map is one to one, and its values lie between the start and now. No induction over the sum is needed.

**Locks.** "A decision is final" is not inductive: a handler writes the row it loaded some steps
ago, so one has to know that nobody has decided it since. The invariants of corrections and of geofence
requests are the argument that the `SELECT ... FOR UPDATE` of the services gives: no two handlers
hold the same row (`LocksExclude`), the rows a handler holds are pending, a decision is of one row and
not of the handler's own request, and it gets past the role check only as an admin. A used request proposes
something, and at most one is pending: the unique index gives this at the insert, and a submission has first
marked the pending row it holds as replaced. One lemma, `StillOK`, says when a memory
stays right while another handler works.

**The ledger.** `LedgerImplemented` is the refinement of `ShiftRefinement`, which `shifts_serial` checks on an
instance: served one punch at a time, every commit of a punch or of a decision is one step of `ShiftLedger`, every
other step a stutter. The invariant says that the rows a punch has loaded are still the open ones when it
commits (`PunchOK`, nobody else punches for that user: `PunchersApart`), that all the other shifts of the user are over by the
punch-in of the newest (`PastShiftsOver`), and that a pending claim ends after its shift began and before the next
one (`ClaimsFit`): this is what keeps shifts disjoint when a claim is approved later.

**Rooms.** With one request at a time nothing changes between the checks and the commit (`CheckHolds`), so that
`_find_overlap` is a proof of `NoDoubleBooking` for the commit that follows. `bookings_overlap` shows that the hypothesis is
needed.

**The calendar.** `CalendarImplemented` says what all the endpoints about bookings come to: whatever is edited, checked in,
checked out, cancelled or ended, and in whatever order, every commit books a free entry, moves an open one or closes one, and
none of these ever has two open entries share a night of a room. Two facts carry it. A commit writes one row of `bookings`
or only rooms (`WriteCommits`, `BookingsChange`), so that it is one step of the calendar; and the days of two rows overlap by
the comparison in `_find_overlap` exactly when the entries share a night (`NightsShared`), also for a stay that begins on the day another ends. What is closed
in the calendar is closed for good, which is why no run checks `FinishedStaysFinished` beside it; that is a theorem of
its own (`FinishedForGood`, and in `FrontActs`). As `CheckHolds` does, it needs one request at a time.

**The import of rooms.** Three facts are about `plan_room_sync` and `sync_rooms` and no state. The table of a plan has each
number and each id at most once and marks what another live integration holds (`PlanOK`). Whatever the statements have made of the rooms so
far, the plan's table shows a row for it with the same number, and the id if it is this integration's (`Shown`), so that a
unique index could refuse a statement only where the plan had seen a conflict. And whatever happened to the rooms since
the plan was made, a statement writes a row that the plan adopts, updates or inserts, and nothing else changes hands (`Follows`).
Each is carried along the fetched rooms by an induction over their number. The library's induction theorems have an
operator parameter, so the induction is proved here from finite sets (`UpTo`: a set of numbers below `m` that could be shifted
into itself without its 0 would have as many members as before), and that a recursive function satisfies its equation
from the `CHOOSE` behind it (`Recursion`). Both fit any other module of this kind.

**KRA tasks.** Rows that handlers are about to insert are promised to one of them (`Apart`). `_own_occurrence` locks the row
until the commit, so that no two handlers work on one occurrence (`Apart`) and what one of them loaded is still so when it commits
(`MemoryOK`): it delays only what is pending, which nobody has delayed before (`DelayedBefore`). `NoticesDeserved` is a bound
and not an equation, because a notification may fail. For `GapNotMissed`, days of a gap lie before today and, while the definition
is active, before the start of every assignment that is; a request that will activate it again restarts every assignment with such
days (`UpdateOK`), and the periods a request is about to insert have a day on which the definition was not inactive (`RowsOK`).

**The offices.** The theorems are about each component's own specification, for any number of desks. A document's clerk remembers the uploader, who
never changes, and a choice that is never withdrawn. A request that will insert a row of subscriptions owns its number, and the rows it
will expire either make room for its own or were ended by Stripe, which does not go back. A handler of an account carries only the columns
it changes, so that none ever carries `is_verified = FALSE`. An inviter that goes on after its insert made the account itself. A
mover's new quantity follows from the one it saw; a planner's request keeps its shift and never loses its replacement, and a shift that is covered stays covered, however it came to be; an officer's assignee
has a row that is never deleted; a trainer submits only what was awaited, so that proofs and submissions in progress together never
exceed the desks (a count over `Cardinality`).

- `RanksInOrder`: the order by score, ties broken, is a bijection between the employees that were ranked and `1 .. n`, and a
  recalculation writes the ranks only of those it calculated.
- `ComplianceBounded`: the days that count are pairs of a covered user and a day of the range, whatever number of rows there is for one.
- `AlarmsAreAnswered`: nothing takes a shift off its schedule, a schedule off the dashboard or a recorded absence back, so that an alarm
  ends only with a change of who is on the shift; and whoever is recommended is not away at its moment. `StaffInv` has that shifts, their
  requests and the rows planners loaded name employees.
- `SyncsCatchUp`: what a sync got so far is what the provider has now, except of what was touched since (`UpToDate`), and it has asked for
  everything before the window or page it is at (`Complete`). Mews' windows have no gap between them, pages of the others are counted by rank,
  and what is due in the rest of the fetch follows from the two.
- `FrontParts` and `BackParts` are about the compositions: a behaviour of an office is one of every part's own specification, whatever the
  scene, with three limits: of the assigned tasks without their fairness; of the planned week unless the scene is the shifts, which are
  replaced without it; of the account only in its own scene. From this come `FrontActs` and `BackActs`, the calendar and the action properties. `FrontTypes` and
  `BackTypes` are the types, `FrontSafe` and `BackSafe` the invariants of the parts, so that every safety property the two runs check
  is a theorem of the specification they check. Every step is a step of one part and leaves the variables of the others,
  except that the planned week contains the replacements. The types need what they do not give by themselves: a count of comments that was loaded is
  at most the comments there are, and reports of an escalation are inserted by handlers that saw none (`CountsInv`).

**Only model-checked.** Liveness, `EveryHandlerFinishes` and `BacklogFills`, is out of the proof system's reach (it needs ENABLED and fairness)
and stays with TLC. The four violations are TLC's too. Every other property of a passing run is a theorem of the
specification that the run checks, for all values of the constants.

## Not modelled

- **Governance workflows:** one row, whose pending status is checked and overwritten. Of two decisions that
  overlap both are answered as made and the later one stands.
- **Reports, statistics, dashboards, listings:** pure reads, save those that create rows (KRA occurrences, the Starter plan) or
  whose answer a property is about (totals of hours, compliance, critical actions, recommendations).
- **Activity log:** appended to beside other operations, and nothing reads it back to decide.
- **Shell, schemas, seeds, migrations:** routing, configuration, validation of shapes and declarations. Their constraints (unique and partial
  indexes, checks, NOT NULL) are in the modules of the tables.
- **Tokens:** signatures and expiry. Roles that outlive a demotion in a token are in the two review modules.
- **Mail, push and HTTP:** an effect outside the database; a code that was mailed is one that somebody may enter.

## Plan

1. *Done:* all the components above with state that more than one step decides on, the two compositions, and a theorem
   for every safety property that is checked.
2. *Next to prove:* `ImplementsLedger` for requests of one user that overlap, as far as it holds: which steps of the ledger two
   racing punches come to, and what a calendar with double bookings still promises.
3. *Next to model:* an abstract review (pending, decided by one) that corrections, geofence requests and documents
   share, with a mapping from each; `ChannelSync` and `Reservations` in one composition, where the status `error` of one half
   silences the notices of the other.
