------------------------------ MODULE Reviews ------------------------------
(***************************************************************************)
(* Reviews of the shop and of plants, and what the storefront's pages show *)
(* of them.  A moderation loads the review with its plant's slug, commits  *)
(* the new status and then tells the storefront the page of that slug.  A  *)
(* rename takes a slug, leaves the old one in the history, commits and     *)
(* then tells the pages of both.  A notice may be late or never arrive; a  *)
(* page that is asked for is filled by several statements meanwhile, under *)
(* a plant's own slug or under one it used to have.                        *)
(***************************************************************************)
EXTENDS Nothing, FiniteSets, Naturals

CONSTANTS Reviewers,   \* public requests, each of which submits one review
          Reviewed, Slugs,
          Moderators,      \* requests that moderate
          Renamers,    \* requests that rename a plant
          Fillers,     \* requests that fill a page of the storefront
          MaxRenames, MaxModerations, MaxFailures    \* bounds

ReviewStatuses == {"pending", "approved", "rejected"}
ReviewRow      == [plant: Reviewed \cup {None}, status: ReviewStatuses]
Shop     == "shop"     \* the page of the reviews that are about no plant
Pages    == Slugs \cup {Shop}

\* A moderation, a rename, a fill and a page as it is kept.
Moderation == [review: Reviewers, from: ReviewStatuses, to: ReviewStatuses, committed: BOOLEAN, page: Pages]
Renaming   == [plant: Reviewed, from: Slugs, to: Slugs, released: BOOLEAN, stage: {"check", "commit", "announce"}]
Fill == [page: Pages, about: Reviewed \cup {None}, items: {None} \cup SUBSET Reviewers]
Page == [items: SUBSET Reviewers, counted: SUBSET Reviewers]

ReviewsAssumption ==
    /\ {MaxRenames, MaxModerations, MaxFailures} \subseteq Nat
    /\ Shop \notin Slugs
    /\ None \notin Reviewed \cup Slugs \cup ReviewRow \cup Moderation \cup Renaming \cup Fill \cup Page
    /\ \A items \in SUBSET Reviewers : items # None

VARIABLES
    reviews,    \* reviews
    writing,    \* the plant a submission has resolved its slug to
    slug,       \* plants.slug, of active plants
    history,    \* plant_slug_history: the plant a slug belonged to (unique slug)
    moderation, \* moderations in progress, until their notice has arrived or is lost
    renaming,   \* renames in progress, until their notice has arrived or is lost
    fill,       \* fills in progress
    cache,      \* the storefront's pages, None when there is none
    bounds,     \* how much has happened
    missed      \* history variable: pages whose notice was lost or named another slug

reviewsVars == <<reviews, writing, slug, history, moderation, renaming, fill, cache, bounds, missed>>

Distinct(slugs) == \A p, q \in Reviewed : p # q => slugs[p] # slugs[q]

ReviewsInit ==
    /\ reviews = [r \in Reviewers |-> None]
    /\ writing = [r \in Reviewers |-> None]
    /\ slug \in {s \in [Reviewed -> Slugs] : Distinct(s)}
    /\ history = [s \in Slugs |-> None]
    /\ moderation = [a \in Moderators |-> None]
    /\ renaming = [e \in Renamers |-> None]
    /\ fill = [f \in Fillers |-> None]
    /\ cache = [page \in Pages |-> None]
    /\ bounds = [renames |-> 0, moderations |-> 0, failures |-> 0]
    /\ missed = {}

Approved(about) ==
    {r \in Reviewers : reviews[r] # None /\ reviews[r].status = "approved" /\ reviews[r].plant = about}

\* The plant that bears a slug.
Live(s) == {p \in Reviewed : slug[p] = s}

\* get_plant_by_slug: a live slug first, then one that a plant used to have.
GetPlantBySlug(s) == IF Live(s) # {} THEN Live(s) ELSE {history[s]} \ {None}

\* The storefront drops the pages that a notice names, and keeps none of them that
\* is being filled; or the notice does not arrive.
Deliver(pages) ==
    /\ cache' = [page \in Pages |-> IF page \in pages THEN None ELSE cache[page]]
    /\ fill' = [f \in Fillers |-> IF fill[f] # None /\ fill[f].page \in pages THEN None ELSE fill[f]]
    /\ missed' = missed \ pages
    /\ UNCHANGED bounds

Lose(pages) ==
    /\ bounds.failures < MaxFailures /\ bounds' = [bounds EXCEPT !.failures = @ + 1]
    /\ missed' = missed \cup pages
    /\ UNCHANGED <<cache, fill>>

----------------------------------------------------------------------------
(* Submissions *)

\* get_active_plant_or_404
Resolve(r, p) ==
    /\ reviews[r] = None /\ writing[r] = None
    /\ writing' = [writing EXCEPT ![r] = p]
    /\ UNCHANGED <<reviews, slug, history, moderation, renaming, fill, cache, bounds, missed>>

\* Fault: a review is published as it comes in.
FirstStatus_Approved == "approved"

FirstStatus == "pending"

CreateReview(r) ==
    /\ reviews[r] = None
    /\ reviews' = [reviews EXCEPT ![r] = [plant |-> writing[r], status |-> FirstStatus]]
    /\ UNCHANGED <<writing, slug, history, moderation, renaming, fill, cache, bounds, missed>>

----------------------------------------------------------------------------
(* set_review_status *)

LoadReview(a, r, status) ==
    /\ moderation[a] = None /\ reviews[r] # None
    /\ bounds.moderations < MaxModerations
    /\ bounds' = [bounds EXCEPT !.moderations = @ + 1]
    /\ moderation' = [moderation EXCEPT ![a] =
         [review |-> r, from |-> reviews[r].status, to |-> status, committed |-> FALSE,
          page |-> IF reviews[r].plant = None THEN Shop ELSE slug[reviews[r].plant]]]
    /\ UNCHANGED <<reviews, writing, slug, history, renaming, fill, cache, missed>>

\* Only a status that differs from the loaded one is written.  The notice will name
\* the slug that was loaded, so the page of a newer one misses it.
CommitReview(a) ==
    LET j == moderation[a]
        plant == reviews[j.review].plant
    IN /\ j # None /\ ~j.committed
       /\ moderation' = [moderation EXCEPT ![a].committed = TRUE]
       /\ IF j.to = j.from THEN UNCHANGED <<reviews, missed>>
          ELSE /\ reviews' = [reviews EXCEPT ![j.review].status = j.to]
               /\ missed' = IF plant = None \/ slug[plant] = j.page THEN missed
                            ELSE missed \cup {slug[plant]}
       /\ UNCHANGED <<writing, slug, history, renaming, fill, cache, bounds>>

\* The commit fails, and nothing is written.
FailReview(a) ==
    /\ moderation[a] # None /\ ~moderation[a].committed
    /\ moderation' = [moderation EXCEPT ![a] = None]
    /\ UNCHANGED <<reviews, writing, slug, history, renaming, fill, cache, bounds, missed>>

\* The notification names the entity, which drops the shop's reviews, and the slug.
Noticed(j) == {j.page, Shop}

\* The session still holds the row and the plant it has loaded, read again or not.
NotifyStorefront(a) ==
    /\ moderation[a] # None /\ moderation[a].committed
    /\ moderation' = [moderation EXCEPT ![a] = None]
    /\ Deliver(Noticed(moderation[a])) \/ Lose(Noticed(moderation[a]))
    /\ UNCHANGED <<reviews, writing, slug, history, renaming>>

----------------------------------------------------------------------------
(* update_plant with another slug *)

\* get_plant
LoadPlant(e, p, to) ==
    /\ renaming[e] = None /\ to # slug[p]
    /\ bounds.renames < MaxRenames
    /\ bounds' = [bounds EXCEPT !.renames = @ + 1]
    /\ renaming' = [renaming EXCEPT ![e] =
         [plant |-> p, from |-> slug[p], to |-> to, released |-> FALSE, stage |-> "check"]]
    /\ UNCHANGED <<reviews, writing, slug, history, moderation, fill, cache, missed>>

Reached(e, stage) == renaming[e] # None /\ renaming[e].stage = stage

\* Another request has deleted the slug's row of the history, and not committed yet.
Deleting(s, e) == \E d \in Renamers \ {e} : Reached(d, "commit") /\ renaming[d].released /\ renaming[d].to = s

\* _ensure_slug_available and _release_historical_slug, which waits for another
\* DELETE of the same row.
TakeSlug(e) ==
    LET j == renaming[e] IN
    /\ Reached(e, "check")
    /\ Live(j.to) \subseteq {j.plant}
    /\ ~Deleting(j.to, e)
    /\ renaming' = [renaming EXCEPT ![e].released = history[j.to] # None, ![e].stage = "commit"]
    /\ UNCHANGED <<reviews, writing, slug, history, moderation, fill, cache, bounds, missed>>

\* Slugs are unique, of live plants and in the history, where the slug goes that was
\* loaded.
CommitRename(e) ==
    LET j == renaming[e] IN
    /\ Reached(e, "commit")
    /\ ~Deleting(j.from, e)
    /\ Live(j.to) \subseteq {j.plant} /\ history[j.from] = None
    /\ slug' = [slug EXCEPT ![j.plant] = j.to]
    /\ history' = [s \in Slugs |-> IF s = j.to /\ j.released THEN None
                                   ELSE IF s = j.from THEN j.plant ELSE history[s]]
    /\ renaming' = [renaming EXCEPT ![e].stage = "announce"]
    /\ UNCHANGED <<reviews, writing, moderation, fill, cache, bounds, missed>>

\* A slug that is taken, an IntegrityError, or any failure before the commit.
FailRename(e) ==
    /\ renaming[e] # None /\ ~Reached(e, "announce")
    /\ renaming' = [renaming EXCEPT ![e] = None]
    /\ UNCHANGED <<reviews, writing, slug, history, moderation, fill, cache, bounds, missed>>

\* Fault: only the previous slug is told.
Renamed_PreviousOnly(j) == {j.from}

\* plant.slug and previous_slug, as the session knows them.
Renamed(j) == {j.from, j.to}

AnnounceRename(e) ==
    /\ Reached(e, "announce")
    /\ renaming' = [renaming EXCEPT ![e] = None]
    /\ Deliver(Renamed(renaming[e])) \/ Lose(Renamed(renaming[e]))
    /\ UNCHANGED <<reviews, writing, slug, history, moderation>>

----------------------------------------------------------------------------
(* The storefront *)

\* get_active_plant_or_404, or the shop's page.
StartFill(f, page) ==
    /\ fill[f] = None /\ cache[page] = None
    /\ \E p \in IF page = Shop THEN {None} ELSE GetPlantBySlug(page) :
         fill' = [fill EXCEPT ![f] = [page |-> page, about |-> p, items |-> None]]
    /\ UNCHANGED <<reviews, writing, slug, history, moderation, renaming, cache, bounds, missed>>

\* list_reviews
ListApproved(f) ==
    /\ fill[f] # None /\ fill[f].items = None
    /\ fill' = [fill EXCEPT ![f].items = Approved(fill[f].about)]
    /\ UNCHANGED <<reviews, writing, slug, history, moderation, renaming, cache, bounds, missed>>

\* get_review_summary, and the page is kept.
Summarise(f) ==
    /\ fill[f] # None /\ fill[f].items # None
    /\ cache' = [cache EXCEPT ![fill[f].page] =
         [items |-> fill[f].items, counted |-> Approved(fill[f].about)]]
    /\ fill' = [fill EXCEPT ![f] = None]
    /\ UNCHANGED <<reviews, writing, slug, history, moderation, renaming, bounds, missed>>

ReviewsNext ==
    \/ \E r \in Reviewers : CreateReview(r) \/ \E p \in Reviewed : Resolve(r, p)
    \/ \E a \in Moderators :
         \/ \E r \in Reviewers, status \in ReviewStatuses : LoadReview(a, r, status)
         \/ CommitReview(a) \/ FailReview(a) \/ NotifyStorefront(a)
    \/ \E e \in Renamers :
         \/ \E p \in Reviewed, to \in Slugs : LoadPlant(e, p, to)
         \/ TakeSlug(e) \/ CommitRename(e) \/ FailRename(e) \/ AnnounceRename(e)
    \/ \E f \in Fillers :
         \/ \E page \in Pages : StartFill(f, page)
         \/ ListApproved(f) \/ Summarise(f)

ReviewsSpec == ReviewsInit /\ [][ReviewsNext]_reviewsVars

----------------------------------------------------------------------------
(* Properties *)

\* A notice that names the page is still to come, of a change that is committed.
Due(page) ==
    \/ \E a \in Moderators : /\ moderation[a] # None /\ moderation[a].committed
                             /\ page \in Noticed(moderation[a])
    \/ \E e \in Renamers : Reached(e, "announce") /\ page \in Renamed(renaming[e])

\* The page that the storefront keeps of the shop, or of a plant under the slug it
\* has now, shows and counts the approved reviews: once every notice that names the
\* page has arrived, unless one was lost, or a status was committed by a moderation
\* that had loaded an earlier slug, and the page has not been dropped since.
PagesShowDecisions ==
    \A page \in Pages : \A p \in IF page = Shop THEN {None} ELSE Live(page) :
        cache[page] # None /\ ~Due(page) /\ page \notin missed =>
          cache[page] = [items |-> Approved(p), counted |-> Approved(p)]

\* Rows, requests and pages are of the shapes the code gives them.
ReviewsTypeOK ==
    /\ reviews \in [Reviewers -> ReviewRow \cup {None}]
    /\ writing \in [Reviewers -> Reviewed \cup {None}]
    /\ slug \in [Reviewed -> Slugs]
    /\ history \in [Slugs -> Reviewed \cup {None}]
    /\ moderation \in [Moderators -> Moderation \cup {None}]
    /\ renaming \in [Renamers -> Renaming \cup {None}]
    /\ fill \in [Fillers -> Fill \cup {None}]
    /\ cache \in [Pages -> Page \cup {None}]
    /\ bounds \in [renames: 0 .. MaxRenames, moderations: 0 .. MaxModerations, failures: 0 .. MaxFailures]
    /\ missed \subseteq Pages
=============================================================================
