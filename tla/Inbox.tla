--------------------------------- MODULE Inbox ---------------------------------
(***************************************************************************)
(* The shared "needs your attention" feed (app/services/inbox_service.py,  *)
(* app/api/v1/endpoints/inbox.py).  Other services write items in their    *)
(* own transactions with the operators below; users mark them.  A role's   *)
(* queue is shared, so several users may act on one item at once.          *)
(***************************************************************************)
CONSTANTS
    Item,      \* one item per source record and item type
    Reader,    \* slots for requests of users looking at the feed
    Watched,   \* bound: the items users look at
    None       \* SQL NULL

VARIABLES
    inbox,     \* status of each item; "none" is no row
    reader     \* reader[k]: the item a PUT /{id}/read in progress has loaded

inboxVars == <<inbox, reader>>

Status == {"none", "unread", "read", "actioned", "dismissed"}
IsOpen(i) == inbox[i] \in {"unread", "read"}

InboxTypeOK ==
    /\ inbox \in [Item -> Status]
    /\ reader \in [Reader -> Item \cup {None}]

InboxInit ==
    /\ inbox = [i \in Item |-> "none"]
    /\ reader = [k \in Reader |-> None]

-----------------------------------------------------------------------------
(* Operators for the services that write items. *)

\* create_inbox_item: skipped while an open item for the same source exists.
Created(i, feed) ==
    [feed EXCEPT ![i] = IF @ \in {"unread", "read"} THEN @ ELSE "unread"]

\* mark_inbox_items_actioned: open items of these sources are resolved.
Actioned(S, feed) ==
    [i \in Item |-> IF i \in S /\ feed[i] \in {"unread", "read"} THEN "actioned" ELSE feed[i]]

\* notify: written in a savepoint, so it may fail without failing the caller.
Notified(i, feed) == {feed, Created(i, feed)}

-----------------------------------------------------------------------------
(* What the users do. *)

\* PUT /inbox/{id}/read loads the item; only an unread one will be written.
MarkReadLoads(k, i) ==
    /\ reader[k] = None
    /\ inbox[i] = "unread"
    /\ reader' = [reader EXCEPT ![k] = i]
    /\ UNCHANGED inbox

\* ... and writes "read" whatever the status is by then.
MarkReadSaves(k) ==
    /\ reader[k] # None
    /\ inbox' = [inbox EXCEPT ![reader[k]] = "read"]
    /\ reader' = [reader EXCEPT ![k] = None]

\* PUT /inbox/{id}/actioned and /dismiss write without looking at the status.
MarkItem(i) ==
    /\ inbox[i] # "none"
    /\ \E s \in {"actioned", "dismissed"} : inbox' = [inbox EXCEPT ![i] = s]
    /\ UNCHANGED reader

\* PUT /inbox/read-all is a single UPDATE ... WHERE status = 'unread'.
MarkAllRead(S) ==
    /\ inbox' = [i \in Item |-> IF i \in S /\ inbox[i] = "unread" THEN "read" ELSE inbox[i]]
    /\ UNCHANGED reader

InboxNext ==
    \/ \E k \in Reader :
          \/ \E i \in Watched : MarkReadLoads(k, i)
          \/ MarkReadSaves(k)
    \/ \E i \in Watched : MarkItem(i)
    \/ MarkAllRead(Watched)
=============================================================================
