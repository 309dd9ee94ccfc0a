----------------------------- MODULE Catalogue ------------------------------
(***************************************************************************)
(* The admin panel's edits of plants, their images and the categories:     *)
(* requests that read a row, check that a slug is free, drop the slug from *)
(* the history, commit, and then tell the storefront which pages changed.  *)
(* Nothing locks a row that is read, so requests work from stale copies.   *)
(***************************************************************************)
EXTENDS Nothing, Naturals

CONSTANTS Plants, Categories, Images,
          Slugs,      \* slugs of plants and of categories (two name spaces)
          Requests,   \* requests that may be in progress at once
          MaxEdits    \* bound: requests that are sent

Ops == {"create_plant", "update_plant", "set_plant_status", "add_image",
        "update_image", "delete_image", "create_category", "update_category", "set_category_status"}
Creates     == {"create_plant", "create_category"}
OfPlants    == {"create_plant", "update_plant", "set_plant_status"}
OfImages    == {"add_image", "update_image", "delete_image"}
OfCategories == Ops \ (OfPlants \cup OfImages)

Row  == [slug: Slugs, active: BOOLEAN]
\* The pages the storefront caches: one per plant slug, and the two listings.
Listings == {"plants", "categories"}
Pages == Slugs \cup Listings
Job  == [op: Ops, target: Plants \cup Categories, slug: Slugs \cup {None},
         active: BOOLEAN, image: Images \cup {None}, copy: Row \cup {None},
         released: Plants \cup {None},
         stage: {"load", "check", "release", "commit", "announce"}]

ASSUME CatalogueAssumption ==
    /\ None \notin Plants \cup Categories \cup Images \cup Slugs \cup Row
    /\ None \notin Job
    /\ Plants \cap Categories = {}
    /\ Slugs \cap Listings = {}
    /\ MaxEdits \in Nat

VARIABLES
    plants,      \* plants rows, None before they are created
    history,     \* plant_slug_history: the plant a slug belonged to (unique slug)
    images,      \* the images of each plant
    categories,  \* categories rows
    job,         \* requests in progress, None where there is none
    edits,       \* how many requests have been sent
    notices,     \* notifications under way, as the set of pages each one names
    dirty,       \* pages that changed since the storefront was last told so
    excused      \* history variable: pages whose notice was lost or misnamed

vars == <<plants, history, images, categories, job, edits, notices, dirty, excused>>

UniqueSlugs(rows) ==
    \A a, b \in DOMAIN rows : a # b /\ rows[a] # None /\ rows[b] # None => rows[a].slug # rows[b].slug

\* A shop with some plants, which have not been renamed yet, and no images.
Init ==
    /\ plants \in {rows \in [Plants -> Row \cup {None}] : UniqueSlugs(rows)}
    /\ history = [s \in Slugs |-> None]
    /\ images = [p \in Plants |-> {}]
    /\ categories = [c \in Categories |-> None]
    /\ job = [r \in Requests |-> None]
    /\ edits = 0
    /\ notices = {}
    /\ dirty = {}
    /\ excused = {}

----------------------------------------------------------------------------
(* Lookups *)

Busy(r) == job[r] # None
At(r, stage) == Busy(r) /\ job[r].stage = stage

Table(op) == IF op \in OfCategories THEN categories ELSE plants

PlantAt(s)    == {p \in Plants : plants[p] # None /\ plants[p].slug = s}
CategoryAt(s) == {c \in Categories : categories[c] # None /\ categories[c].slug = s}
RowsAt(op, s) == IF op \in OfCategories THEN CategoryAt(s) ELSE PlantAt(s)

\* A live slug first, then the history; the storefront skips inactive plants.
GetPlantBySlug(s, activeOnly) ==
    LET Shown(p) == activeOnly => plants[p].active
        live     == {p \in PlantAt(s) : Shown(p)}
    IN IF live # {} THEN CHOOSE p \in live : TRUE
       ELSE IF history[s] # None /\ Shown(history[s]) THEN history[s] ELSE None

----------------------------------------------------------------------------
(* A request up to its commit *)

\* The pages of the change and the pages its notice names.  An image notice
\* names no slug, which drops every page of the plants.
Changed(j) ==
    IF j.op \in OfCategories THEN {"categories"}
    ELSE IF j.op \in OfImages THEN {plants[j.target].slug, "plants"}
    ELSE {"plants"} \cup (IF j.op = "create_plant" THEN {j.slug}
                          ELSE {plants[j.target].slug, plants'[j.target].slug})

\* Fault: the previous slug is not named.
Named_NewOnly(j) ==
    IF j.op \in OfCategories THEN {"categories"}
    ELSE IF j.op \in OfImages THEN Slugs \cup {"plants"}
    ELSE {"plants", j.slug}

\* plant.slug and previous_slug, as this request's session knows them.
Named(j) ==
    IF j.op \in OfCategories THEN {"categories"}
    ELSE IF j.op \in OfImages THEN Slugs \cup {"plants"}
    ELSE {"plants", j.slug} \cup (IF j.copy = None THEN {} ELSE {j.copy.slug})

Renames(j) == j.copy # None /\ j.slug # j.copy.slug

Begin(r, op, target, slug, active, image) ==
    /\ job[r] = None
    /\ edits < MaxEdits
    /\ edits' = edits + 1
    /\ job' = [job EXCEPT ![r] =
         [op |-> op, target |-> target, slug |-> slug, active |-> active, image |-> image,
          copy |-> None, released |-> None, stage |-> IF op \in Creates THEN "check" ELSE "load"]]
    /\ UNCHANGED <<plants, history, images, categories, notices, dirty, excused>>

\* The rows a new one is made from, and what may be changed of an existing one.
SubmitNew(r, op, targets) ==
    \E t \in targets, x \in Slugs, on \in BOOLEAN :
        /\ Table(op)[t] = None
        /\ \A q \in Requests : Busy(q) => job[q].target # t
        /\ Begin(r, op, t, x, on, None)

SubmitChange(r, op, targets, slugs) ==
    \E t \in targets, x \in slugs, on \in BOOLEAN :
        /\ Table(op)[t] # None
        /\ Begin(r, op, t, x, on, None)

PostPlant(r)         == SubmitNew(r, "create_plant", Plants)
PatchPlant(r)        == SubmitChange(r, "update_plant", Plants, Slugs \cup {None})
PatchPlantStatus(r)  == SubmitChange(r, "set_plant_status", Plants, {None})

PostCategory(r)         == SubmitNew(r, "create_category", Categories)
PatchCategory(r)        == SubmitChange(r, "update_category", Categories, Slugs \cup {None})
PatchCategoryStatus(r)  == SubmitChange(r, "set_category_status", Categories, {None})

SubmitImage(r) ==
    \E op \in OfImages, p \in Plants, i \in Images :
        /\ plants[p] # None
        /\ op = "add_image" => \A q \in Plants : i \notin images[q]
        /\ Begin(r, op, p, None, TRUE, i)

Submit(r) ==
    \/ PostPlant(r) \/ PatchPlant(r) \/ PatchPlantStatus(r)
    \/ PostCategory(r) \/ PatchCategory(r) \/ PatchCategoryStatus(r)
    \/ SubmitImage(r)

End(r) == job' = [job EXCEPT ![r] = None]

\* `slug is not None and slug != plant.slug`, else the copy's own slug stays.
SlugGiven(j, row) == IF j.slug = None THEN row.slug ELSE j.slug

\* get_plant, get_category: the copy this session works from until it ends.  A
\* slug that was not given, or is the copy's own, is not checked and not written.
Load(r) ==
    /\ At(r, "load")
    /\ LET j == job[r]
           row == Table(j.op)[j.target]
           slug == SlugGiven(j, row)
       IN /\ j.op \notin OfImages
          /\ job' = [job EXCEPT ![r] = [j EXCEPT !.copy = row, !.slug = slug,
                                  !.stage = IF slug = row.slug THEN "commit" ELSE "check"]]
    /\ UNCHANGED <<plants, history, images, categories, edits, notices, dirty, excused>>

\* _ensure_plant_exists, and _get_plant_image unless the image is new.
LoadImage(r) ==
    /\ At(r, "load")
    /\ LET j == job[r]
       IN /\ j.op \in OfImages
          /\ IF j.op # "add_image" /\ j.image \notin images[j.target] THEN End(r)
             ELSE job' = [job EXCEPT ![r] = [j EXCEPT !.copy = plants[j.target],
                                      !.slug = plants[j.target].slug, !.stage = "commit"]]
    /\ UNCHANGED <<plants, history, images, categories, edits, notices, dirty, excused>>

\* _ensure_slug_available on what is committed; categories have no history.
EnsureSlugAvailable(r) ==
    /\ At(r, "check")
    /\ LET j == job[r]
       IN IF RowsAt(j.op, j.slug) \ (IF j.copy = None THEN {} ELSE {j.target}) # {}
          THEN End(r)
          ELSE job' = [job EXCEPT ![r].stage = IF j.op \in OfCategories THEN "commit" ELSE "release"]
    /\ UNCHANGED <<plants, history, images, categories, edits, notices, dirty, excused>>

\* A row of the history that another request has deleted and not yet committed.
Deleting(s, r) == \E q \in Requests \ {r} : At(q, "commit") /\ job[q].released # None /\ job[q].slug = s

\* _release_historical_slug: the DELETE waits for another one of the same row.
ReleaseHistoricalSlug(r) ==
    /\ At(r, "release")
    /\ ~Deleting(job[r].slug, r)
    /\ job' = [job EXCEPT ![r].released = history[job[r].slug], ![r].stage = "commit"]
    /\ UNCHANGED <<plants, history, images, categories, edits, notices, dirty, excused>>

----------------------------------------------------------------------------
(* The commit and the notification *)

\* Fault: a rename leaves nothing behind in the history.
HistoryAfter_Forgets(j) == [s \in Slugs |-> IF s = j.slug /\ j.released # None THEN None ELSE history[s]]

\* The history once `j` has committed: its slug released, its copy's added.
HistoryAfter(j) ==
    [s \in Slugs |-> IF s = j.slug /\ j.released # None THEN None
                     ELSE IF Renames(j) /\ j.op \in OfPlants /\ s = j.copy.slug THEN j.target
                     ELSE history[s]]

\* Unique slugs, of live rows and of the history.
Violates(j) ==
    /\ (j.copy = None \/ Renames(j))
    /\ \/ RowsAt(j.op, j.slug) \ {j.target} # {}
       \/ j.op \in OfPlants /\ Renames(j) /\ history[j.copy.slug] # None

\* The UPDATE names the columns in which the request differs from its copy.
RowAfter(j) ==
    LET row == Table(j.op)[j.target]
    IN [slug   |-> IF Renames(j) THEN j.slug ELSE row.slug,
        active |-> IF j.active # j.copy.active THEN j.active ELSE row.active]

\* The INSERT of a new row.
NewRow(j) == [slug |-> j.slug, active |-> j.active]

Written(j) == [Table(j.op) EXCEPT ![j.target] = IF j.copy = None THEN NewRow(j) ELSE RowAfter(j)]

Stale(j) == j.copy # None /\ j.copy # Table(j.op)[j.target]

\* What has changed is yet to be announced.
Committed(r) ==
    LET j == job[r] IN
    /\ job' = [job EXCEPT ![r].stage = "announce"]
    /\ dirty' = dirty \cup Changed(j)
    /\ excused' = IF Stale(j) THEN excused \cup (Changed(j) \ Named(j)) ELSE excused
    /\ UNCHANGED <<edits, notices>>

\* create_plant, update_plant, set_plant_status
CommitPlant(r) ==
    /\ At(r, "commit")
    /\ job[r].op \in OfPlants
    /\ Renames(job[r]) => ~Deleting(job[r].copy.slug, r)
    /\ ~Violates(job[r])
    /\ plants' = Written(job[r])
    /\ history' = HistoryAfter(job[r])
    /\ Committed(r)
    /\ UNCHANGED <<images, categories>>

\* create_category, update_category, set_category_status
CommitCategory(r) ==
    /\ At(r, "commit")
    /\ job[r].op \in OfCategories
    /\ ~Violates(job[r])
    /\ categories' = Written(job[r])
    /\ Committed(r)
    /\ UNCHANGED <<plants, history, images>>

\* add_plant_image, update_plant_image, delete_plant_image
CommitImage(r) ==
    /\ At(r, "commit")
    /\ LET j == job[r] IN
       /\ j.op \in OfImages
       /\ j.op = "update_image" => j.image \in images[j.target]
       /\ images' = CASE j.op = "add_image"    -> [images EXCEPT ![j.target] = @ \cup {j.image}]
                      [] j.op = "delete_image" -> [images EXCEPT ![j.target] = @ \ {j.image}]
                      [] OTHER                 -> images
    /\ Committed(r)
    /\ UNCHANGED <<plants, history, categories>>

\* An IntegrityError at the commit, an UPDATE of an image that is gone, or any
\* failure before the commit.
Fail(r) ==
    /\ Busy(r)
    /\ job[r].stage # "announce"
    /\ End(r)
    /\ UNCHANGED <<plants, history, images, categories, edits, notices, dirty, excused>>

\* notify_storefront, after the row has been read once more.
NotifyStorefront(r) ==
    /\ At(r, "announce")
    /\ notices' = notices \cup {Named(job[r])}
    /\ End(r)
    /\ UNCHANGED <<plants, history, images, categories, edits, dirty, excused>>

\* The row of a plant is read again before anything is told, and that may fail.
FailAfterCommit(r) ==
    /\ At(r, "announce")
    /\ job[r].op \in OfPlants
    /\ End(r)
    /\ excused' = excused \cup (dirty \cap Named(job[r]))
    /\ UNCHANGED <<plants, history, images, categories, edits, notices, dirty>>

----------------------------------------------------------------------------
(* Notifications under way, and the process that sends them *)

\* send_storefront_notification: one POST, whose failure is logged and swallowed.
Send(n) ==
    /\ n \in notices
    /\ notices' = notices \ {n}
    /\ \/ dirty' = dirty \ n /\ excused' = excused \ n
       \/ excused' = excused \cup (dirty \cap n) /\ UNCHANGED dirty
    /\ UNCHANGED <<plants, history, images, categories, job, edits>>

\* The process dies: requests in progress and pending tasks are gone.
Crash ==
    /\ \E r \in Requests : Busy(r)
    /\ job' = [r \in Requests |-> None]
    /\ notices' = {}
    /\ excused' = excused \cup dirty
    /\ UNCHANGED <<plants, history, images, categories, edits, dirty>>

Next ==
    \/ \E r \in Requests :
         \/ Submit(r) \/ Load(r) \/ LoadImage(r)
         \/ EnsureSlugAvailable(r) \/ ReleaseHistoricalSlug(r)
         \/ CommitPlant(r) \/ CommitCategory(r) \/ CommitImage(r) \/ Fail(r)
         \/ NotifyStorefront(r) \/ FailAfterCommit(r)
    \/ \E n \in notices : Send(n)
    \/ Crash

Spec == Init /\ [][Next]_vars

----------------------------------------------------------------------------
(* Properties *)

\* Every row, slug, image and request is one that the schema and the code allow.
TypeOK ==
    /\ plants \in [Plants -> Row \cup {None}]
    /\ history \in [Slugs -> Plants \cup {None}]
    /\ images \in [Plants -> SUBSET Images]
    /\ categories \in [Categories -> Row \cup {None}]
    /\ job \in [Requests -> Job \cup {None}]
    /\ edits \in 0 .. MaxEdits
    /\ notices \subseteq SUBSET Pages
    /\ dirty \subseteq Pages
    /\ excused \subseteq Pages

\* The URLs of a plant outlive its renames: a slug that found a plant finds it
\* after any step too, unless a plant now has that slug as its own, or the step
\* commits a rename by a request that had not seen the plant's current slug
\* (update_plant adds the slug it read, not the one it replaces).
UrlsStay ==
    [][\A s \in Slugs :
         LET before == GetPlantBySlug(s, FALSE) IN
         \/ before = None
         \/ GetPlantBySlug(s, FALSE)' \in {before} \cup PlantAt(s)'
         \/ \E r \in Requests : /\ At(r, "commit") /\ At(r, "announce")'
                                /\ Renames(job[r]) /\ Stale(job[r])]_vars

\* A page that changed is named by a notification still to be sent or under way;
\* otherwise the notification failed, the request or the process died before
\* sending it, or the edit was made on a stale copy whose slug it named instead.
ChangesAnnounced ==
    \A page \in dirty :
        \/ page \in excused
        \/ \E n \in notices : page \in n
        \/ \E r \in Requests : At(r, "announce") /\ page \in Named(job[r])

=============================================================================
