-------------------------- MODULE CatalogueProofs ---------------------------
(* Theorems about Catalogue, for any number of plants, slugs and requests.   *)
EXTENDS Catalogue, TLAPS

(***************************************************************************)
(* The inductive invariant.  ChangesAnnounced needs to know that a request *)
(* about to commit has the copy from which it will name the pages; UrlsStay *)
(* that a slug it releases is the one it writes, and that a new row        *)
(* replaces none.                                                          *)
(***************************************************************************)
Shape(j) ==
    /\ j.target \in IF j.op \in OfCategories THEN Categories ELSE Plants
    /\ j.op \in OfImages => j.image \in Images
    /\ j.op \in Creates =>
         /\ j.copy = None /\ j.slug \in Slugs /\ j.stage # "load"
         /\ j.stage # "announce" => Table(j.op)[j.target] = None
    /\ j.op \notin Creates =>
         /\ Table(j.op)[j.target] # None
         /\ j.stage # "load" => j.copy \in Row /\ j.slug \in Slugs
    /\ j.stage \in {"check", "release"} => j.copy = None \/ Renames(j)
    /\ j.released # None => j.stage # "load" /\ (j.copy = None \/ Renames(j))

Shapes == \A r \in Requests : Busy(r) => Shape(job[r])

\* Nobody else works on a row that is being created: its id is new.
CreatorsAlone ==
    \A r, q \in Requests :
        r # q /\ Busy(r) /\ Busy(q) /\ job[r].op \in Creates /\ job[r].stage # "announce"
            => job[q].target # job[r].target

IInv == TypeOK /\ Shapes /\ CreatorsAlone /\ ChangesAnnounced

----------------------------------------------------------------------------
\* A shop nobody has edited yet satisfies IInv.
LEMMA InitIInv == Init => IInv
  BY CatalogueAssumption
  DEF Init, IInv, TypeOK, Shapes, CreatorsAlone, ChangesAnnounced, Busy, At

\* A request that is sent finds its row there, or its id not yet taken.
LEMMA SubmitStep ==
    ASSUME IInv, NEW r \in Requests, Submit(r)
    PROVE  IInv'
<1> USE CatalogueAssumption
<1>1. ASSUME NEW op \in Ops, NEW t \in Plants \cup Categories, NEW s \in Slugs \cup {None},
             NEW on \in BOOLEAN, NEW i \in Images \cup {None},
             t \in IF op \in OfCategories THEN Categories ELSE Plants,
             op \in OfImages => i \in Images,
             IF op \in Creates
             THEN /\ s # None /\ Table(op)[t] = None
                  /\ \A q \in Requests : Busy(q) => job[q].target # t
             ELSE Table(op)[t] # None,
             Begin(r, op, t, s, on, i)
      PROVE  IInv'
  <2> DEFINE j == [op |-> op, target |-> t, slug |-> s, active |-> on, image |-> i,
                   copy |-> None, released |-> None, stage |-> IF op \in Creates THEN "check" ELSE "load"]
  <2>1. /\ job[r] = None /\ job' = [job EXCEPT ![r] = j] /\ edits < MaxEdits /\ edits' = edits + 1
        /\ UNCHANGED <<plants, history, images, categories, notices, dirty, excused>>
    BY <1>1 DEF Begin
  <2>2. j \in Job /\ j # None
    <3>1. j \in Job
      BY DEF Job
    <3> QED
      BY <3>1
  <2>3. /\ j.op = op /\ j.target = t /\ j.slug = s /\ j.image = i /\ j.copy = None /\ j.released = None
        /\ j.stage = IF op \in Creates THEN "check" ELSE "load"
    OBVIOUS
  <2>4. Shape(j)
    BY <1>1, <2>3 DEF Shape
  <2> HIDE DEF j
  <2>5. TypeOK'
    BY <2>1, <2>2 DEF IInv, TypeOK
  <2>6. /\ job'[r] = j /\ \A q \in Requests \ {r} : job'[q] = job[q]
        /\ \A op2 : Table(op2)' = Table(op2)
    BY <2>1 DEF IInv, TypeOK, Table
  <2>7. Shapes'
    BY <2>4, <2>6 DEF IInv, Shapes, Shape, Busy, Renames
  <2>8. CreatorsAlone'
    <3>1. ASSUME NEW q \in Requests \ {r}, Busy(q), job[q].op \in Creates, job[q].stage # "announce"
          PROVE  job[q].target # t
      BY <1>1, <3>1 DEF IInv, Shapes, Shape, Table, OfCategories, Creates
    <3> QED
      BY <1>1, <2>3, <2>6, <3>1 DEF IInv, CreatorsAlone, Busy
  <2>9. ChangesAnnounced'
    BY <2>1, <2>6 DEF IInv, ChangesAnnounced, At, Busy, Named
  <2> QED
    BY <2>5, <2>7, <2>8, <2>9 DEF IInv
<1>2. CASE PostPlant(r) \/ PostCategory(r)
  BY <1>1, <1>2
  DEF PostPlant, PostCategory, SubmitNew, Ops, OfCategories, OfPlants, OfImages, Creates
<1>3. CASE PatchPlant(r) \/ PatchPlantStatus(r) \/ PatchCategory(r) \/ PatchCategoryStatus(r)
  BY <1>1, <1>3
  DEF PatchPlant, PatchPlantStatus, PatchCategory, PatchCategoryStatus, SubmitChange,
      Ops, OfCategories, OfPlants, OfImages, Creates
<1>4. CASE SubmitImage(r)
  <2>1. PICK op \in OfImages, p \in Plants, i \in Images :
           plants[p] # None /\ Begin(r, op, p, None, TRUE, i)
    BY <1>4 DEF SubmitImage
  <2>2. op \in Ops /\ op \notin OfCategories /\ op \notin Creates
    BY DEF Ops, OfCategories, OfPlants, OfImages, Creates
  <2> QED
    BY <1>1, <2>1, <2>2 DEF Table
<1> QED
  BY <1>2, <1>3, <1>4 DEF Submit

----------------------------------------------------------------------------
(* Steps of a request that leave the tables as they are *)

\* It goes on, with the same row and operation, and has nothing to announce yet.
LEMMA WorkStep ==
    ASSUME IInv, NEW r \in Requests, Busy(r), NEW new \in Job, Shape(new),
           job[r].stage # "announce", new.stage # "announce",
           new.op = job[r].op, new.target = job[r].target,
           job' = [job EXCEPT ![r] = new],
           UNCHANGED <<plants, history, images, categories, edits, notices, dirty, excused>>
    PROVE  IInv'
<1> USE CatalogueAssumption
<1>1. TypeOK' /\ new # None
  BY DEF IInv, TypeOK
<1>2. /\ job'[r] = new /\ \A q \in Requests \ {r} : job'[q] = job[q]
      /\ \A op : Table(op)' = Table(op)
  BY DEF IInv, TypeOK, Table
<1>3. Shapes'
  BY <1>2 DEF IInv, Shapes, Shape, Busy, Renames
<1>4. CreatorsAlone'
  BY <1>1, <1>2 DEF IInv, CreatorsAlone, Busy
<1>5. ChangesAnnounced'
  BY <1>1, <1>2 DEF IInv, ChangesAnnounced, At, Busy, Named
<1> QED
  BY <1>1, <1>3, <1>4, <1>5 DEF IInv

\* It ends; what it would have announced is under way, excused or was nothing.
LEMMA EndStep ==
    ASSUME IInv, NEW r \in Requests, Busy(r), End(r),
           UNCHANGED <<plants, history, images, categories, edits, dirty>>,
           notices' \subseteq SUBSET Pages, notices \subseteq notices',
           excused' \subseteq Pages, excused \subseteq excused',
           \/ job[r].stage # "announce"
           \/ dirty \cap Named(job[r]) \subseteq excused'
           \/ Named(job[r]) \in notices'
    PROVE  IInv'
<1> USE CatalogueAssumption
<1>1. TypeOK'
  BY DEF IInv, TypeOK, End
<1>2. /\ job'[r] = None /\ \A q \in Requests \ {r} : job'[q] = job[q]
      /\ \A op : Table(op)' = Table(op)
  BY DEF IInv, TypeOK, Table, End
<1>3. Shapes'
  BY <1>2 DEF IInv, Shapes, Shape, Busy, Renames
<1>4. CreatorsAlone'
  BY <1>2 DEF IInv, CreatorsAlone, Busy
<1>5. ChangesAnnounced'
  <2>1. SUFFICES ASSUME NEW page \in dirty
                 PROVE  \/ page \in excused'
                        \/ \E n \in notices' : page \in n
                        \/ \E q \in Requests : At(q, "announce")' /\ page \in Named(job'[q])
    BY DEF ChangesAnnounced, Named
  <2>2. CASE page \in excused \/ \E n \in notices : page \in n
    BY <2>2
  <2>3. ASSUME NEW q \in Requests, At(q, "announce"), page \in Named(job[q])
        PROVE  \/ page \in excused'
               \/ \E n \in notices' : page \in n
               \/ \E q2 \in Requests : At(q2, "announce")' /\ page \in Named(job'[q2])
    <3>1. CASE q = r
      BY <2>3, <3>1 DEF At
    <3>2. CASE q # r
      BY <1>2, <2>3, <3>2 DEF At, Busy
    <3> QED
      BY <3>1, <3>2
  <2> QED
    BY <2>2, <2>3 DEF IInv, ChangesAnnounced
<1> QED
  BY <1>1, <1>3, <1>4, <1>5 DEF IInv

\* Before its commit a request reads, checks and releases, or fails.
LEMMA BeforeCommitStep ==
    ASSUME IInv, NEW r \in Requests,
           Load(r) \/ LoadImage(r) \/ EnsureSlugAvailable(r) \/ ReleaseHistoricalSlug(r) \/ Fail(r)
    PROVE  IInv'
<1> USE CatalogueAssumption
<1> DEFINE j == job[r]
<1>1. Busy(r) /\ j \in Job /\ Shape(j) /\ j.stage # "announce"
  BY DEF IInv, TypeOK, Shapes, Busy, At, Load, LoadImage, EnsureSlugAvailable, ReleaseHistoricalSlug, Fail
<1>2. UNCHANGED <<plants, history, images, categories, edits, notices, dirty, excused>>
  BY DEF Load, LoadImage, EnsureSlugAvailable, ReleaseHistoricalSlug, Fail
<1>3. ASSUME End(r) PROVE IInv'
  BY <1>1, <1>2, <1>3, EndStep DEF IInv, TypeOK
<1>4. ASSUME Load(r) PROVE IInv'
  <2> DEFINE row == Table(j.op)[j.target]
             slug == SlugGiven(j, row)
             new == [j EXCEPT !.copy = row, !.slug = slug,
                              !.stage = IF slug = row.slug THEN "commit" ELSE "check"]
  <2>1. j.stage = "load" /\ j.op \notin Creates
    BY <1>1, <1>4 DEF Load, At, Shape
  <2>2. row \in Row /\ row # None
    BY <1>1, <2>1 DEF IInv, TypeOK, Shape, Table
  <2>3. slug \in Slugs
    BY <1>1, <2>2 DEF SlugGiven, Row, Job
  <2>4. job' = [job EXCEPT ![r] = new]
    BY <1>4 DEF Load
  <2> HIDE DEF row, slug
  <2>5. /\ new \in Job /\ new.op = j.op /\ new.target = j.target /\ new.copy = row /\ new.slug = slug
        /\ new.released = j.released /\ new.image = j.image
        /\ new.stage = IF slug = row.slug THEN "commit" ELSE "check"
    BY <1>1, <2>2, <2>3 DEF Job
  <2> HIDE DEF new
  <2>6. Shape(new)
    BY <1>1, <2>1, <2>2, <2>3, <2>5 DEF Shape, Renames
  <2> QED
    BY <1>1, <1>2, <2>4, <2>5, <2>6, WorkStep
<1>5. ASSUME LoadImage(r) PROVE IInv'
  <2> DEFINE row == plants[j.target]
             new == [j EXCEPT !.copy = row, !.slug = row.slug, !.stage = "commit"]
  <2>1. j.stage = "load" /\ j.op \in OfImages /\ j.op \notin Creates /\ j.op \notin OfCategories
    BY <1>5 DEF LoadImage, At, OfImages, Creates, OfCategories
  <2>2. row \in Row /\ row # None
    BY <1>1, <2>1 DEF IInv, TypeOK, Shape, Table
  <2>3. CASE End(r)
    BY <1>3, <2>3
  <2>4. CASE job' = [job EXCEPT ![r] = new]
    <3> HIDE DEF row
    <3>1. /\ new \in Job /\ new.op = j.op /\ new.target = j.target /\ new.copy = row /\ new.slug \in Slugs
          /\ new.released = j.released /\ new.image = j.image /\ new.stage = "commit"
      BY <1>1, <2>2 DEF Job, Row
    <3> HIDE DEF new
    <3>2. Shape(new)
      BY <1>1, <2>1, <2>2, <3>1 DEF Shape
    <3> QED
      BY <1>1, <1>2, <2>4, <3>1, <3>2, WorkStep
  <2> QED
    BY <1>5, <2>3, <2>4 DEF LoadImage
<1>6. ASSUME EnsureSlugAvailable(r) PROVE IInv'
  <2>1. j.stage = "check"
    BY <1>6 DEF EnsureSlugAvailable, At
  <2>2. CASE End(r)
    BY <1>3, <2>2
  <2>3. ASSUME NEW stage \in {"commit", "release"}, job' = [job EXCEPT ![r].stage = stage]
        PROVE  IInv'
    <3> DEFINE new == [j EXCEPT !.stage = stage]
    <3>1. job' = [job EXCEPT ![r] = new]
      BY <2>3
    <3>2. /\ new \in Job /\ new.op = j.op /\ new.target = j.target /\ new.copy = j.copy
          /\ new.slug = j.slug /\ new.released = j.released /\ new.image = j.image /\ new.stage = stage
      BY <1>1 DEF Job
    <3> HIDE DEF new
    <3>3. Shape(new)
      BY <1>1, <2>1, <3>2 DEF Shape, Renames
    <3> QED
      BY <1>1, <1>2, <3>1, <3>2, <3>3, WorkStep
  <2> QED
    BY <1>6, <2>2, <2>3 DEF EnsureSlugAvailable
<1>7. ASSUME ReleaseHistoricalSlug(r) PROVE IInv'
  <2> DEFINE new == [j EXCEPT !.released = history[j.slug], !.stage = "commit"]
  <2>1. j.stage = "release" /\ j.slug \in Slugs
    BY <1>1, <1>7 DEF ReleaseHistoricalSlug, At, Shape
  <2>2. history[j.slug] \in Plants \cup {None}
    BY <2>1 DEF IInv, TypeOK
  <2>3. job' = [job EXCEPT ![r] = new]
    BY <1>7 DEF ReleaseHistoricalSlug
  <2>4. /\ new \in Job /\ new.op = j.op /\ new.target = j.target /\ new.copy = j.copy
        /\ new.slug = j.slug /\ new.image = j.image /\ new.stage = "commit"
    BY <1>1, <2>2 DEF Job
  <2> HIDE DEF new
  <2>5. Shape(new)
    BY <1>1, <2>1, <2>4 DEF Shape, Renames
  <2> QED
    BY <1>1, <1>2, <2>3, <2>4, <2>5, WorkStep
<1>8. CASE Fail(r)
  BY <1>3, <1>8 DEF Fail
<1> QED
  BY <1>4, <1>5, <1>6, <1>7, <1>8

----------------------------------------------------------------------------
(* Commits *)

\* What is written is a row, under the copy's slug or the request's own.
LEMMA WrittenIs ==
    ASSUME IInv, NEW r \in Requests, At(r, "commit"), job[r].op \notin OfImages
    PROVE  LET j == job[r]
               new == IF j.copy = None THEN NewRow(j) ELSE RowAfter(j) IN
           /\ new \in Row
           /\ Written(j) = [Table(j.op) EXCEPT ![j.target] = new]
           /\ j.copy = None \/ Renames(j) => new.slug = j.slug
           /\ j.copy # None /\ ~Renames(j) => new.slug = Table(j.op)[j.target].slug
<1> USE CatalogueAssumption
<1> DEFINE j == job[r]
<1>1. j \in Job /\ Shape(j) /\ j.stage = "commit"
  BY DEF IInv, TypeOK, Shapes, At, Busy
<1>2. CASE j.copy = None
  <2>1. j.slug \in Slugs
    BY <1>1, <1>2 DEF Shape
  <2> QED
    BY <1>1, <1>2, <2>1 DEF NewRow, Row, Written, Job
<1>3. CASE j.copy # None
  <2>1. j.copy \in Row /\ j.slug \in Slugs /\ Table(j.op)[j.target] # None
    BY <1>1, <1>3 DEF Shape
  <2>2. Table(j.op)[j.target] \in Row
    BY <1>1, <2>1 DEF IInv, TypeOK, Shape, Table
  <2> QED
    BY <1>1, <1>3, <2>1, <2>2 DEF RowAfter, Row, Written, Job
<1> QED
  BY <1>2, <1>3

\* The tables after a commit: one row has changed, or been added.
RowsAfter(j) ==
    /\ plants' \in [Plants -> Row \cup {None}] /\ history' \in [Slugs -> Plants \cup {None}]
    /\ images' \in [Plants -> SUBSET Images] /\ categories' \in [Categories -> Row \cup {None}]
    /\ \A p \in Plants :
         /\ plants[p] # None \/ (j.op \in OfPlants /\ p = j.target) => plants'[p] # None
         /\ plants'[p] # plants[p] => j.op \in OfPlants /\ p = j.target
    /\ \A c \in Categories :
         /\ categories[c] # None \/ (j.op \in OfCategories /\ c = j.target) => categories'[c] # None
         /\ categories'[c] # categories[c] => j.op \in OfCategories /\ c = j.target

\* A commit announces all that it changes, unless it worked on a stale copy.
LEMMA CommitStep ==
    ASSUME IInv, NEW r \in Requests, CommitPlant(r) \/ CommitCategory(r) \/ CommitImage(r)
    PROVE  IInv'
<1> USE CatalogueAssumption
<1> DEFINE j == job[r]
           changed == Changed(j)
           new == [j EXCEPT !.stage = "announce"]
<1>1. /\ Busy(r) /\ j \in Job /\ Shape(j) /\ j.stage = "commit" /\ j # None
      /\ job' = [job EXCEPT ![r] = new] /\ dirty' = dirty \cup changed
      /\ excused' = IF Stale(j) THEN excused \cup (changed \ Named(j)) ELSE excused
      /\ UNCHANGED <<edits, notices>>
  BY DEF IInv, TypeOK, Shapes, At, Busy, CommitPlant, CommitCategory, CommitImage, Committed
<1>2. /\ new \in Job /\ new.op = j.op /\ new.target = j.target /\ new.copy = j.copy /\ new.slug = j.slug
      /\ new.released = j.released /\ new.image = j.image /\ new.stage = "announce" /\ new # None
  <2>1. /\ new \in Job /\ new.op = j.op /\ new.target = j.target /\ new.copy = j.copy /\ new.slug = j.slug
        /\ new.released = j.released /\ new.image = j.image /\ new.stage = "announce"
    BY <1>1 DEF Job
  <2> QED
    BY <2>1
<1>3. RowsAfter(j)
  <2>1. ASSUME CommitPlant(r) PROVE RowsAfter(j)
    <3>1. j.op \in OfPlants /\ j.op \notin OfImages /\ j.op \notin OfCategories
      BY <2>1 DEF CommitPlant, OfPlants, OfImages, OfCategories
    <3>2. PICK row \in Row : plants' = [plants EXCEPT ![j.target] = row]
      BY <1>1, <2>1, <3>1, WrittenIs DEF CommitPlant, Table
    <3>3. UNCHANGED <<images, categories>> /\ history' = HistoryAfter(j)
      BY <2>1 DEF CommitPlant
    <3>4. j.target \in Plants
      BY <1>1, <3>1 DEF Shape
    <3>5. history' \in [Slugs -> Plants \cup {None}]
      BY <3>3, <3>4 DEF HistoryAfter, IInv, TypeOK
    <3> QED
      BY <3>1, <3>2, <3>3, <3>4, <3>5 DEF IInv, TypeOK, RowsAfter
  <2>2. ASSUME CommitCategory(r) PROVE RowsAfter(j)
    <3>1. j.op \in OfCategories /\ j.op \notin OfImages /\ j.op \notin OfPlants
      BY <2>2 DEF CommitCategory, OfCategories
    <3>2. PICK row \in Row : categories' = [categories EXCEPT ![j.target] = row]
      BY <1>1, <2>2, <3>1, WrittenIs DEF CommitCategory, Table
    <3>3. UNCHANGED <<plants, history, images>> /\ j.target \in Categories
      BY <1>1, <2>2, <3>1 DEF CommitCategory, Shape
    <3> QED
      BY <3>1, <3>2, <3>3 DEF IInv, TypeOK, RowsAfter
  <2>3. ASSUME CommitImage(r) PROVE RowsAfter(j)
    <3>1. j.op \in OfImages /\ j.op \notin OfPlants /\ j.op \notin OfCategories
      BY <2>3 DEF CommitImage, OfImages, OfPlants, OfCategories
    <3>2. j.target \in Plants /\ UNCHANGED <<plants, history, categories>>
      BY <1>1, <2>3, <3>1 DEF CommitImage, Shape
    <3>3. images' \in [Plants -> SUBSET Images]
      BY <1>1, <2>3, <3>1, <3>2 DEF CommitImage, IInv, TypeOK, Shape
    <3> QED
      BY <3>1, <3>2, <3>3 DEF IInv, TypeOK, RowsAfter
  <2> QED
    BY <2>1, <2>2, <2>3
<1>4. ~Stale(j) => changed \subseteq Named(j)
  <2>1. CASE j.op \in OfCategories
    BY <2>1 DEF Changed, Named
  <2>2. CASE j.op \in OfImages
    <3>1. j.op \notin OfCategories /\ j.op \notin OfPlants /\ j.op \notin Creates
      BY <2>2 DEF OfCategories, OfImages, OfPlants, Creates
    <3>2. plants[j.target] \in Row
      BY <1>1, <3>1 DEF Shape, Table, IInv, TypeOK
    <3> QED
      BY <2>2, <3>1, <3>2 DEF Changed, Named, Row
  <2>3. CASE j.op \in OfPlants
    <3>1. j.op \notin OfCategories /\ j.op \notin OfImages /\ j.target \in Plants
      BY <1>1, <2>3 DEF OfCategories, OfImages, OfPlants, Shape
    <3>2. PICK row \in Row :
             /\ plants' = [plants EXCEPT ![j.target] = row]
             /\ j.copy = None \/ Renames(j) => row.slug = j.slug
             /\ j.copy # None /\ ~Renames(j) => row.slug = plants[j.target].slug
      <4>1. CommitPlant(r)
        BY <2>3, <3>1 DEF CommitCategory, CommitImage
      <4> QED
        BY <1>1, <3>1, <4>1, WrittenIs DEF CommitPlant, Table
    <3>3. plants'[j.target].slug = row.slug
      BY <3>1, <3>2 DEF IInv, TypeOK
    <3>4. CASE j.op = "create_plant"
      BY <3>1, <3>4 DEF Changed, Named
    <3>5. CASE j.op # "create_plant"
      <4>1. j.copy \in Row
        BY <1>1, <2>3, <3>5 DEF Shape, OfPlants, Creates
      <4>2. Stale(j) \/ j.copy = plants[j.target]
        BY <3>1, <4>1 DEF Stale, Table
      <4> QED
        BY <3>1, <3>2, <3>3, <3>5, <4>1, <4>2 DEF Changed, Named, Renames
    <3> QED
      BY <3>4, <3>5
  <2> QED
    BY <1>1, <2>1, <2>2, <2>3 DEF Job, OfCategories
<1>5. changed \subseteq Pages
  <2>1. Slugs \subseteq Pages /\ "plants" \in Pages /\ "categories" \in Pages
    BY DEF Pages, Listings
  <2>2. CASE j.op \in OfCategories
    BY <2>1, <2>2 DEF Changed
  <2>3. CASE j.op \notin OfCategories
    <3>1. j.target \in Plants
      BY <1>1, <2>3 DEF Shape
    <3>2. CASE j.op = "create_plant"
      BY <1>1, <2>1, <2>3, <3>2 DEF Changed, Shape, OfImages, Creates
    <3>3. CASE j.op # "create_plant"
      <4>1. j.op \notin Creates
        BY <2>3, <3>3 DEF Creates, OfCategories, Ops, OfPlants, OfImages
      <4>2. plants[j.target] \in Row /\ plants'[j.target] \in Row
        BY <1>1, <1>3, <2>3, <3>1, <4>1 DEF Shape, Table, IInv, TypeOK, RowsAfter
      <4> QED
        BY <2>1, <2>3, <3>3, <4>2 DEF Changed, Row
    <3> QED
      BY <3>2, <3>3
  <2> QED
    BY <2>2, <2>3
<1> HIDE DEF new, changed
<1>6. TypeOK'
  BY <1>1, <1>2, <1>3, <1>5 DEF IInv, TypeOK, RowsAfter
<1>7. job'[r] = new /\ \A q \in Requests \ {r} : job'[q] = job[q]
  BY <1>1 DEF IInv, TypeOK
<1>8. Shapes'
  <2>1. \A q \in Requests : Busy(q)' => Busy(q)
    BY <1>1, <1>7 DEF Busy
  <2>2. ASSUME NEW q \in Requests \ {r}, Busy(q)
        PROVE  Shape(job[q])'
    <3>1. Shape(job[q]) /\ job'[q] = job[q]
      BY <1>7, <2>2 DEF IInv, Shapes
    <3>2. job[q].op \in Creates /\ job[q].stage # "announce" => job[q].target # j.target
      BY <1>1, <2>2 DEF IInv, CreatorsAlone
    <3> QED
      BY <1>3, <3>1, <3>2 DEF Shape, Table, Renames, RowsAfter
  <2>3. Shape(job[r])'
    <3>1. /\ job'[r].op = j.op /\ job'[r].target = j.target /\ job'[r].copy = j.copy
          /\ job'[r].slug = j.slug /\ job'[r].released = j.released /\ job'[r].image = j.image
          /\ job'[r].stage = "announce"
      BY <1>2, <1>7
    <3> DEFINE table == IF j.op \in OfCategories THEN categories' ELSE plants'
    <3>2. ASSUME j.op \notin Creates PROVE table[j.target] # None
      <4>1. CASE j.op \in OfCategories
        BY <1>1, <1>3, <3>2, <4>1 DEF Shape, Table, RowsAfter
      <4>2. CASE j.op \notin OfCategories
        BY <1>1, <1>3, <3>2, <4>2 DEF Shape, Table, RowsAfter
      <4> QED
        BY <4>1, <4>2
    <3>3. Table(job[r].op)' = table
      BY <3>1 DEF Table
    <3> HIDE DEF table
    <3> QED
      BY <1>1, <3>1, <3>2, <3>3 DEF Shape, Renames
  <2> QED
    BY <2>1, <2>2, <2>3 DEF Shapes
<1>9. CreatorsAlone'
  BY <1>1, <1>2, <1>7 DEF IInv, CreatorsAlone, Busy
<1>10. ChangesAnnounced'
  <2>1. SUFFICES ASSUME NEW page \in dirty'
                 PROVE  \/ page \in excused'
                        \/ \E n \in notices' : page \in n
                        \/ \E q \in Requests : At(q, "announce")' /\ page \in Named(job'[q])
    BY DEF ChangesAnnounced, Named
  <2>2. Named(new) = Named(j) /\ At(r, "announce")'
    BY <1>2, <1>7 DEF Named, At, Busy
  <2>3. CASE page \in changed
    BY <1>1, <1>4, <1>7, <2>2, <2>3
  <2>4. CASE page \in dirty
    <3>1. CASE page \in excused \/ \E n \in notices : page \in n
      BY <1>1, <3>1
    <3>2. ASSUME NEW q \in Requests, At(q, "announce"), page \in Named(job[q])
          PROVE  At(q, "announce")' /\ page \in Named(job'[q])
      BY <1>1, <1>7, <3>2 DEF At, Busy
    <3> QED
      BY <2>4, <3>1, <3>2 DEF IInv, ChangesAnnounced
  <2> QED
    BY <1>1, <2>3, <2>4
<1> QED
  BY <1>6, <1>8, <1>9, <1>10 DEF IInv

\* The pages a request names are pages.
LEMMA NamedArePages ==
    ASSUME IInv, NEW r \in Requests, At(r, "announce")
    PROVE  Named(job[r]) \subseteq Pages
<1>1. job[r].slug \in Slugs /\ (job[r].copy # None => job[r].copy.slug \in Slugs)
  BY CatalogueAssumption DEF IInv, TypeOK, Shapes, Shape, At, Busy, Row, Job
<1> QED
  BY <1>1 DEF Named, Pages, Listings

\* What happens to a change once it is committed.
LEMMA AfterCommitStep ==
    ASSUME IInv,
           \/ \E r \in Requests : NotifyStorefront(r) \/ FailAfterCommit(r)
           \/ \E n \in notices : Send(n)
           \/ Crash
    PROVE  IInv'
<1> USE CatalogueAssumption
<1>1. ASSUME NEW r \in Requests, NotifyStorefront(r) PROVE IInv'
  BY <1>1, EndStep, NamedArePages DEF NotifyStorefront, At, IInv, TypeOK
<1>2. ASSUME NEW r \in Requests, FailAfterCommit(r) PROVE IInv'
  BY <1>2, EndStep, NamedArePages DEF FailAfterCommit, At, IInv, TypeOK
<1>3. ASSUME NEW n \in notices, Send(n) PROVE IInv'
  <2>1. TypeOK' /\ Shapes' /\ CreatorsAlone'
    BY <1>3 DEF Send, IInv, TypeOK, Shapes, Shape, CreatorsAlone, Busy, Table, Renames
  <2>2. ChangesAnnounced'
    BY <1>3 DEF Send, IInv, ChangesAnnounced, At, Busy, Named
  <2> QED
    BY <2>1, <2>2 DEF IInv
<1>4. ASSUME Crash PROVE IInv'
  BY <1>4 DEF Crash, IInv, TypeOK, Shapes, CreatorsAlone, ChangesAnnounced, Busy
<1> QED
  BY <1>1, <1>2, <1>3, <1>4

\* Every step leaves IInv.
LEMMA NextIInv == IInv /\ [Next]_vars => IInv'
<1> SUFFICES ASSUME IInv, [Next]_vars PROVE IInv'
  OBVIOUS
<1>1. CASE UNCHANGED vars
  BY <1>1
  DEF vars, IInv, TypeOK, Shapes, Shape, CreatorsAlone, ChangesAnnounced, At, Busy, Named, Table, Renames
<1>2. CASE Next
  BY <1>2, SubmitStep, BeforeCommitStep, CommitStep, AfterCommitStep DEF Next
<1> QED
  BY <1>1, <1>2

\* IInv holds along every behaviour.
LEMMA Invariant == Spec => []IInv
  BY InitIInv, NextIInv, PTL DEF Spec

----------------------------------------------------------------------------
\* The tables, the requests and the notices keep their types.
THEOREM TypesHold == Spec => []TypeOK
<1>1. IInv => TypeOK
  BY DEF IInv
<1> QED
  BY <1>1, Invariant, PTL

\* Every page that changed is yet to be announced, or its notice is excused.
THEOREM EveryChangeAnnounced == Spec => []ChangesAnnounced
<1>1. IInv => ChangesAnnounced
  BY DEF IInv
<1> QED
  BY <1>1, Invariant, PTL

----------------------------------------------------------------------------
(* Action properties *)

\* Plants and their history change when a request on a plant commits, only then.
LEMMA OnlyCommitsWrite ==
    ASSUME IInv, [Next]_vars
    PROVE  UNCHANGED <<plants, history>> \/ \E r \in Requests : CommitPlant(r)
<1>1. CASE UNCHANGED vars
  BY <1>1 DEF vars
<1>2. ASSUME NEW r \in Requests,
             \/ Load(r) \/ LoadImage(r) \/ EnsureSlugAvailable(r) \/ ReleaseHistoricalSlug(r) \/ Fail(r)
             \/ NotifyStorefront(r) \/ FailAfterCommit(r) \/ CommitCategory(r) \/ CommitImage(r)
      PROVE  UNCHANGED <<plants, history>>
  BY <1>2 DEF Load, LoadImage, EnsureSlugAvailable, ReleaseHistoricalSlug, Fail,
              NotifyStorefront, FailAfterCommit, CommitCategory, CommitImage
<1>3. ASSUME NEW r \in Requests, Submit(r)
      PROVE  UNCHANGED <<plants, history>>
  BY <1>3 DEF Submit, PostPlant, PatchPlant, PatchPlantStatus, PostCategory, PatchCategory,
              PatchCategoryStatus, SubmitImage, SubmitNew, SubmitChange, Begin
<1>4. ASSUME Crash \/ \E n \in notices : Send(n)
      PROVE  UNCHANGED <<plants, history>>
  BY <1>4 DEF Crash, Send
<1> QED
  BY <1>1, <1>2, <1>3, <1>4 DEF Next

\* The commit of a request on a plant, in the terms of its copy.
LEMMA PlantCommitIs ==
    ASSUME IInv, NEW r \in Requests, CommitPlant(r)
    PROVE  LET j == job[r] IN
           /\ j.target \in Plants /\ Shape(j) /\ history' = HistoryAfter(j) /\ ~Violates(j)
           /\ j.op \in OfPlants /\ At(r, "commit") /\ At(r, "announce")'
           /\ \A p \in Plants \ {j.target} : plants'[p] = plants[p]
           /\ plants'[j.target] # None
           /\ plants'[j.target] = IF j.copy = None THEN NewRow(j) ELSE RowAfter(j)
           /\ j.copy = None \/ Renames(j) => plants'[j.target].slug = j.slug
           /\ j.copy # None /\ ~Renames(j) => plants'[j.target].slug = plants[j.target].slug
<1> USE CatalogueAssumption
<1> DEFINE j == job[r]
           row == IF j.copy = None THEN NewRow(j) ELSE RowAfter(j)
<1>1. /\ j \in Job /\ j.op \in OfPlants /\ j.op \notin OfImages /\ j.op \notin OfCategories
      /\ At(r, "commit") /\ Shape(j)
  BY DEF CommitPlant, OfPlants, OfImages, OfCategories, At, Busy, IInv, TypeOK, Shapes
<1>2. /\ row \in Row /\ plants' = [plants EXCEPT ![j.target] = row]
      /\ j.copy = None \/ Renames(j) => row.slug = j.slug
      /\ j.copy # None /\ ~Renames(j) => row.slug = plants[j.target].slug
  BY <1>1, WrittenIs DEF CommitPlant, Table
<1>3. j.target \in Plants
  BY <1>1 DEF Shape
<1> HIDE DEF row
<1>4. plants'[j.target] = row /\ row # None /\ \A p \in Plants \ {j.target} : plants'[p] = plants[p]
  BY <1>2, <1>3 DEF IInv, TypeOK
<1>5. At(r, "announce")'
  <2> DEFINE new == [j EXCEPT !.stage = "announce"]
  <2>1. new.stage = "announce" /\ new \in Job
    BY <1>1 DEF Job
  <2>2. new # None
    BY <2>1
  <2> HIDE DEF new
  <2>3. job' = [job EXCEPT ![r] = new]
    BY DEF CommitPlant, Committed, new
  <2> QED
    BY <2>1, <2>2, <2>3 DEF At, Busy, IInv, TypeOK
<1> QED
  BY <1>1, <1>2, <1>3, <1>4, <1>5 DEF CommitPlant, row

\* An old URL goes on finding its plant, unless a plant takes its slug, or the
\* plant is renamed by a request that had not seen its current slug.
THEOREM OldUrlsStay == Spec => UrlsStay
<1> USE CatalogueAssumption
<1> DEFINE Stays(s) ==
             LET before == GetPlantBySlug(s, FALSE) IN
             \/ before = None
             \/ GetPlantBySlug(s, FALSE)' \in {before} \cup PlantAt(s)'
             \/ \E r \in Requests : /\ At(r, "commit") /\ At(r, "announce")'
                                    /\ Renames(job[r]) /\ Stale(job[r])
<1>1. ASSUME IInv, NEW r \in Requests, CommitPlant(r), NEW s \in Slugs PROVE Stays(s)
  <2> DEFINE j == job[r]
  <2>1. /\ j.target \in Plants /\ Shape(j) /\ history' = HistoryAfter(j) /\ ~Violates(j)
        /\ j.op \in OfPlants /\ At(r, "commit") /\ At(r, "announce")'
        /\ \A p \in Plants \ {j.target} : plants'[p] = plants[p]
        /\ plants'[j.target] # None
        /\ j.copy = None \/ Renames(j) => plants'[j.target].slug = j.slug
        /\ j.copy # None /\ ~Renames(j) => plants'[j.target].slug = plants[j.target].slug
    BY <1>1, PlantCommitIs
  <2>2. CASE PlantAt(s)' # {}
    <3>1. GetPlantBySlug(s, FALSE)' \in PlantAt(s)'
      BY <2>2 DEF GetPlantBySlug
    <3> QED
      BY <3>1
  <2>3. CASE PlantAt(s)' = {} /\ PlantAt(s) # {} /\ ~(Renames(j) /\ Stale(j))
    <3>1. \A p \in PlantAt(s) : p = j.target
      BY <2>1, <2>3 DEF PlantAt
    <3>2. GetPlantBySlug(s, FALSE) = j.target /\ plants[j.target] # None /\ plants[j.target].slug = s
      <4>1. GetPlantBySlug(s, FALSE) \in PlantAt(s)
        BY <2>3 DEF GetPlantBySlug
      <4> QED
        BY <3>1, <4>1 DEF PlantAt
    <3>3. plants'[j.target].slug # s
      BY <2>1, <2>3 DEF PlantAt
    <3>4. j.op \notin OfCategories
      BY <2>1 DEF OfPlants, OfCategories
    <3>5. j.copy # None
      BY <2>1, <3>2, <3>4 DEF Shape, At, Table
    <3>6. Renames(j) /\ j.copy = plants[j.target] /\ j.slug # s
      BY <2>1, <2>3, <3>2, <3>3, <3>4, <3>5 DEF Stale, Table
    <3>7. history'[s] = j.target
      BY <2>1, <3>2, <3>6 DEF HistoryAfter
    <3>8. GetPlantBySlug(s, FALSE)' = j.target
      BY <2>1, <2>3, <3>7 DEF GetPlantBySlug
    <3> QED
      BY <3>2, <3>8
  <2>4. CASE PlantAt(s)' = {} /\ PlantAt(s) = {}
    <3>1. GetPlantBySlug(s, FALSE) = history[s]
      BY <2>4 DEF GetPlantBySlug
    <3>2. CASE history[s] = None
      BY <3>1, <3>2
    <3>3. CASE history[s] # None
      <4>1. j.copy = None \/ Renames(j) => j.slug # s
        BY <2>1, <2>4 DEF PlantAt
      <4>2. Renames(j) => j.copy.slug # s
        BY <2>1, <3>3 DEF Violates
      <4>3. history'[s] = history[s]
        BY <2>1, <4>1, <4>2 DEF HistoryAfter, Shape
      <4>4. GetPlantBySlug(s, FALSE)' = history[s]
        BY <2>4, <3>3, <4>3 DEF GetPlantBySlug
      <4> QED
        BY <3>1, <4>4
    <3> QED
      BY <3>2, <3>3
  <2>5. CASE Renames(j) /\ Stale(j)
    BY <2>1, <2>5
  <2> QED
    BY <2>2, <2>3, <2>4, <2>5
<1>2. ASSUME UNCHANGED <<plants, history>>, NEW s \in Slugs PROVE Stays(s)
  BY <1>2 DEF GetPlantBySlug, PlantAt
<1> HIDE DEF Stays
<1>3. IInv /\ [Next]_vars => [\A s \in Slugs : Stays(s)]_vars
  BY <1>1, <1>2, OnlyCommitsWrite
<1> QED
  BY <1>3, Invariant, PTL DEF Spec, UrlsStay, Stays

=============================================================================
