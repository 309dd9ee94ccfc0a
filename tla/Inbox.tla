-------------------------------- MODULE Inbox --------------------------------
(***************************************************************************)
(* The admins' notifications.  Checkouts add them, with the time their     *)
(* transaction began; one admin pages through the list while others mark   *)
(* notifications as read.  A page is two statements, the total and then    *)
(* the rows, and the next page is asked for later.                         *)
(***************************************************************************)
EXTENDS Nothing, Integers, SequencesExt

CONSTANTS Ids,        \* notification ids: random, but ordered
          PageSize,
          Editors,    \* admins who mark one notification
          InboxTime     \* bound: the clock

NotificationRow == [at: Nat, read: BOOLEAN]

InboxAssumption ==
    /\ IsFiniteSet(Ids) /\ Ids \subseteq Nat /\ PageSize \in Nat \ {0} /\ InboxTime \in Nat
    /\ None \notin NotificationRow \cup Ids \cup BOOLEAN

VARIABLES
    rows,       \* notifications
    date,
    unread,     \* the reader's filter: is_read = FALSE, or none
    page,       \* the page he is on, 0 before the first
    total,      \* what its count returned, None before it
    items,      \* what its rows were, None before them
    editing,    \* the row each editor has loaded
    expected,   \* history: what the list held when he began
    listed,     \* history: what he has been shown
    disturbed   \* history: something was marked since

reader  == <<unread, page, total, items, expected, listed>>
inboxVars == <<rows, date, reader, editing, disturbed>>

Added == {n \in Ids : rows[n] # None}

InboxInit ==
    /\ rows \in {r \in [Ids -> [at: {0}, read: {FALSE}] \cup {None}] : \E n \in Ids : r[n] = None}
    /\ date = 0
    /\ unread \in BOOLEAN
    /\ page = 0 /\ total = None /\ items = None
    /\ editing = [e \in Editors |-> None]
    /\ expected = {} /\ listed = {} /\ disturbed = FALSE

Matching == {n \in Added : unread => ~rows[n].read}

\* Fault: ties are left to the database.
Newer_NoTieBreak(m, n) == rows[m].at > rows[n].at

\* ORDER BY created_at DESC, id.
Newer(m, n) == rows[m].at > rows[n].at \/ (rows[m].at = rows[n].at /\ m < n)

\* The orders in which the rows may come.
Listings ==
    {s \in SetToSeqs(Matching) : \A i, j \in DOMAIN s : i < j => ~Newer(s[j], s[i])}

----------------------------------------------------------------------------
(* list_notifications, page by page *)

Offset == (page - 1) * PageSize

Begin ==
    /\ page = 0
    /\ page' = 1
    /\ expected' = Matching
    /\ disturbed' = FALSE
    /\ UNCHANGED <<rows, date, unread, total, items, editing, listed>>

Count ==
    /\ page > 0 /\ total = None
    /\ total' = Cardinality(Matching)
    /\ UNCHANGED <<rows, date, unread, page, items, editing, expected, listed, disturbed>>

Fetch(listing) ==
    /\ total # None /\ items = None
    /\ items' = SubSeq(listing, Offset + 1, Min({Offset + PageSize, Len(listing)}))
    /\ listed' = listed \cup ToSet(items')
    /\ UNCHANGED <<rows, date, unread, page, total, editing, expected, disturbed>>

\* The reader goes on until a page is not full.
NextPage ==
    /\ items # None /\ Len(items) = PageSize
    /\ page' = page + 1
    /\ total' = None /\ items' = None
    /\ UNCHANGED <<rows, date, unread, editing, expected, listed, disturbed>>

Finished == items # None /\ Len(items) < PageSize

----------------------------------------------------------------------------
(* What others do *)

\* A checkout that began at `at` commits, and its notification with it.
QueueNotification(n, at) ==
    /\ rows[n] = None
    /\ rows' = [rows EXCEPT ![n] = [at |-> at, read |-> FALSE]]
    /\ UNCHANGED <<date, reader, editing, disturbed>>

\* get_notification.
LoadOne(e, n) ==
    /\ editing[e] = None /\ n \in Added
    /\ editing' = [editing EXCEPT ![e] = [id |-> n, read |-> rows[n].read]]
    /\ UNCHANGED <<rows, date, reader, disturbed>>

\* is_read is set; the commit writes it only if that changes the loaded row.
MarkOne(e) ==
    /\ editing[e] # None
    /\ rows' = IF editing[e].read THEN rows ELSE [rows EXCEPT ![editing[e].id].read = TRUE]
    /\ editing' = [editing EXCEPT ![e] = None]
    /\ disturbed' = (disturbed \/ rows' # rows)
    /\ UNCHANGED <<date, reader>>

Unread == {n \in Added : ~rows[n].read}

\* One UPDATE: a second one waits for the first, and sees what it has left.
MarkAll ==
    /\ rows' = [n \in Ids |-> IF n \in Unread THEN [rows[n] EXCEPT !.read = TRUE] ELSE rows[n]]
    /\ disturbed' = (disturbed \/ rows' # rows)
    /\ UNCHANGED <<date, reader, editing>>

InboxTick ==
    /\ date < InboxTime
    /\ date' = date + 1
    /\ UNCHANGED <<rows, reader, editing, disturbed>>

InboxNext ==
    \/ Begin \/ Count \/ NextPage
    \/ \E listing \in Listings : Fetch(listing)
    \/ \E n \in Ids, at \in 0 .. date : QueueNotification(n, at)
    \/ \E e \in Editors : MarkOne(e) \/ \E n \in Ids : LoadOne(e, n)
    \/ MarkAll
    \/ InboxTick

InboxSpec == InboxInit /\ [][InboxNext]_inboxVars

----------------------------------------------------------------------------
(* Properties *)

\* Whoever pages to the end of the list sees everything that was on it when he
\* began, and no page is shorter than the total counted before it promises,
\* whatever is added meanwhile at the head of the list or, from a transaction that
\* began earlier, further down; in the unread list, unless something is marked.
PagingSkipsNothing ==
    (unread => ~disturbed)
        => /\ Finished => expected \subseteq listed
           /\ items # None => Len(items) >= Min({PageSize, total - Offset})
=============================================================================
