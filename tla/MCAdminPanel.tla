---------------------------- MODULE MCAdminPanel ----------------------------
(* The instance that TLC checks of the four components behind the admin     *)
(* panel.  They share no row, so a behaviour is one component's at a time:  *)
(* `part` is whose, and the others stay as they are.                        *)
EXTENDS Accounts, Overview, Inbox, Reviews, TLC

CONSTANTS p1, p2,
          MaxEdits     \* bound: logins and edits in the part of the accounts

VARIABLE part

MCPrice == [p \in {p1, p2} |-> IF p = p1 THEN 1 ELSE 3]

ASSUME OverviewAssumption /\ InboxAssumption /\ ReviewsAssumption

\* A component whose turn it is not begins in one state; of the accounts, nothing
\* but who has which email is open then.  Slugs are interchangeable, so the plants
\* may begin with any.
InitAll ==
    /\ part \in {"accounts", "logins", "overview", "inbox", "reviews"}
    /\ Init
    /\ part # "accounts" =>
         access = [b \in Browsers |-> None] /\ \A a \in Admins : admins[a] # None /\ admins[a].active
    /\ OverviewInit
    /\ part # "overview" => orders = <<>> /\ \A p \in Plants : plants[p].active
    /\ InboxInit
    /\ part # "inbox" => rows = [n \in Ids |-> None] /\ ~unread
    /\ ReviewsInit
    /\ slug = CHOOSE s \in [Reviewed -> Slugs] : Distinct(s)

\* Nothing but attempts to log in that fail, to see what more of them than there are
\* edits do to the limit.
FailedLogins == tokenVars' = tokenVars /\ \A r \in Requests : job'[r] # None => job'[r].op = "login"

NextAll ==
    /\ UNCHANGED part
    /\ \/ part = "accounts" /\ Next /\ calls' <= MaxEdits /\ UNCHANGED <<overviewVars, inboxVars, reviewsVars>>
       \/ part = "logins"   /\ Next /\ FailedLogins /\ UNCHANGED <<overviewVars, inboxVars, reviewsVars>>
       \/ part = "overview" /\ OverviewNext /\ UNCHANGED <<vars, inboxVars, reviewsVars>>
       \/ part = "inbox"    /\ InboxNext    /\ UNCHANGED <<vars, overviewVars, reviewsVars>>
       \/ part = "reviews"  /\ ReviewsNext  /\ UNCHANGED <<vars, overviewVars, inboxVars>>

SpecAll == InitAll /\ [][NextAll]_<<part, vars, overviewVars, inboxVars, reviewsVars>>

Symmetry == Permutations(Admins) \cup Permutations(Emails) \cup Permutations(Browsers)
            \cup Permutations(Requests)

\* The components' rows are of the shapes the code gives them.
TypesOK == TypeOK /\ OverviewTypeOK /\ ReviewsTypeOK
=============================================================================
