----------------------------- MODULE Knowledge ------------------------------
(***************************************************************************)
(* The knowledge index (two Weaviate collections) as a mirror of the       *)
(* plants and of the exported FAQs.  A write of a plant is committed and   *)
(* then mirrored by the API, which deletes the plant's objects and inserts *)
(* new ones while nothing else of the API runs; a reindex script, another  *)
(* process, does the same for every plant it read at its start.  Calls to  *)
(* the index may fail, between any two of them a process may die, and only *)
(* the log ever hears of it.                                               *)
(***************************************************************************)
EXTENDS Nothing, Naturals, Sequences, FiniteSetsExt

CONSTANTS Indexed,
          Docs,        \* the texts a plant may have
          Ids,         \* the ids of each text's chunks, in order (PlantText)
          Writers,     \* plant requests that may be in progress at once
          Snapshots,   \* the FAQ snapshots that are deployed: sets of <<faq, locale>>
          TopK,        \* FAQ_TOP_K
          MaxWrites, MaxScripts, MaxFailures    \* bounds

PlantRow == [doc: Docs, active: BOOLEAN]
Writing == [plant: Indexed, copy: PlantRow \cup {None}, view: PlantRow \cup {None},
        stage: {"load", "commit", "sync", "insert"}]

\* A plant as the reindex script has read it, and the script itself.
Item   == [plant: Indexed, row: PlantRow]
Script == [stage: {"none", "plants", "faqs"}, all: BOOLEAN, todo: SUBSET Item,
           now: Item \cup {None}, quiet: BOOLEAN]

Locales == {"en", "vi"}
Faq     == UNION {{[faq |-> f, of |-> s] : f \in s} : s \in Snapshots}

KnowledgeAssumption ==
    /\ None \notin Indexed \cup Docs \cup PlantRow \cup Writing \cup Item
    /\ \A d \in Docs : Len(Ids[d]) \in Nat
    /\ \A s \in Snapshots : IsFiniteSet(s) /\ \A f \in s : f \in {f[1]} \X Locales
    /\ {TopK, MaxWrites, MaxScripts, MaxFailures} \subseteq Nat
    /\ TopK > 0

VARIABLES
    rows,      \* plants rows as committed, None before they are created
    index,     \* PlantKnowledge: the objects of each plant
    writing,       \* plant requests in progress
    script,    \* the reindex script: the rows it read that are left to mirror
    faqIndex,  \* NgocNganKnowledge: the FAQ objects, with the snapshot they are of
    snapshot,  \* the deployed FAQ snapshot
    written, scripts, failures,   \* counters for the bounds
    unsure     \* history variable: plants of which the index may be wrong

indexVars == <<rows, index, writing, script, faqIndex, snapshot, written, scripts, failures, unsure>>

\* The script at rest, and between two calls.
Resting == [stage |-> "none", all |-> FALSE, todo |-> {}, now |-> None, quiet |-> FALSE]

\* An object is a chunk of a text, and known by its id.
Objects(doc) == {doc} \X DOMAIN Ids[doc]
Id(object)   == Ids[object[1]][object[2]]

\* What the index should hold of a row.
Mirror(row) == IF row = None \/ ~row.active THEN {} ELSE Objects(row.doc)

\* A shop of before the index, whose plants are yet to be reindexed; its FAQs may
\* have been, from this snapshot or from an older one.
IndexInit ==
    /\ rows \in [Indexed -> PlantRow \cup {None}]
    /\ index = [p \in Indexed |-> {}]
    /\ writing = [w \in Writers |-> None]
    /\ script = Resting
    /\ snapshot \in Snapshots
    /\ faqIndex \in {{}} \cup {{[faq |-> f, of |-> s] : f \in s} : s \in Snapshots}
    /\ written = 0 /\ scripts = 0 /\ failures = 0
    /\ unsure = {p \in Indexed : Mirror(rows[p]) # {}}

WriterAt(w, stage) == writing[w] # None /\ writing[w].stage = stage

\* The API is inside a sync, which does not give way to other requests.
Syncing == \E w \in Writers : WriterAt(w, "insert")

----------------------------------------------------------------------------
(* The two calls of index_plant *)

\* Fault: the new objects are put beside the old ones.
Cleared_NotFirst(p) == index[p]

\* delete_plant_knowledge_by_source, for inactive plants too.
Cleared(p) == {}

\* insert_many: an object replaces the one that has its id, of before or of the
\* same call.
Upserted(p, objects) ==
    {o \in objects : \A n \in objects : Id(n) = Id(o) => n[2] <= o[2]}
    \cup {o \in index[p] : \A n \in objects : Id(n) # Id(o)}

\* The delete, from a view of the row that may not be the committed one.
DeletePlant(p, view) ==
    /\ index' = [index EXCEPT ![p] = Cleared(p)]
    /\ unsure' = IF view = rows[p] THEN unsure \ {p} ELSE unsure \cup {p}

\* insert_many may store some objects, report errors for others and so raise.
InsertPlant(p, view, stored) ==
    /\ index' = [index EXCEPT ![p] = Upserted(p, stored)]
    /\ unsure' = IF view = rows[p] /\ stored = Mirror(view) THEN unsure ELSE unsure \cup {p}

MayFail == failures < MaxFailures
Failed  == MayFail /\ failures' = failures + 1
WellOrFailed(stored, all) ==
    IF stored = all THEN UNCHANGED failures ELSE Failed

----------------------------------------------------------------------------
(* Writes of plants: create_plant, update_plant, set_plant_status *)

SubmitWrite(w, p) ==
    /\ writing[w] = None
    /\ written < MaxWrites
    /\ written' = written + 1
    /\ \/ \* a new plant: its row is what the request says
          /\ rows[p] = None
          /\ \A v \in Writers : writing[v] # None => writing[v].plant # p
          /\ \E row \in PlantRow :
               writing' = [writing EXCEPT ![w] = [plant |-> p, copy |-> None, view |-> row, stage |-> "commit"]]
       \/ /\ rows[p] # None
          /\ writing' = [writing EXCEPT ![w] = [plant |-> p, copy |-> None, view |-> None, stage |-> "load"]]
    /\ UNCHANGED <<rows, index, script, faqIndex, snapshot, scripts, failures, unsure>>

\* get_plant, and the attributes the request sets on its copy.
LoadWrite(w) ==
    /\ WriterAt(w, "load")
    /\ ~Syncing
    /\ \E view \in PlantRow :
         writing' = [writing EXCEPT ![w].copy = rows[writing[w].plant], ![w].view = view, ![w].stage = "commit"]
    /\ UNCHANGED <<rows, index, script, faqIndex, snapshot, written, scripts, failures, unsure>>

\* The UPDATE writes what the request changed of its copy.
RowWritten(j) ==
    IF j.copy = None THEN j.view
    ELSE [doc    |-> IF j.view.doc # j.copy.doc THEN j.view.doc ELSE rows[j.plant].doc,
          active |-> IF j.view.active # j.copy.active THEN j.view.active ELSE rows[j.plant].active]

Commit(w) ==
    /\ WriterAt(w, "commit")
    /\ ~Syncing
    /\ rows' = [rows EXCEPT ![writing[w].plant] = RowWritten(writing[w])]
    /\ writing' = [writing EXCEPT ![w].stage = "sync"]
    /\ script' = [script EXCEPT !.quiet = FALSE]
    /\ UNCHANGED <<index, faqIndex, snapshot, written, scripts, failures, unsure>>

\* sync_plant_knowledge_safe with the session's own copy: the row is selected
\* again, but the identity map keeps the attributes it has.
SyncDelete(w) ==
    /\ WriterAt(w, "sync")
    /\ ~Syncing
    /\ DeletePlant(writing[w].plant, writing[w].view)
    /\ writing' = IF Mirror(writing[w].view) = {} THEN [writing EXCEPT ![w] = None]
              ELSE [writing EXCEPT ![w].stage = "insert"]
    /\ UNCHANGED <<rows, script, faqIndex, snapshot, written, scripts, failures>>

SyncInsert(w) ==
    /\ WriterAt(w, "insert")
    /\ \E stored \in SUBSET Mirror(writing[w].view) :
         /\ WellOrFailed(stored, Mirror(writing[w].view))
         /\ InsertPlant(writing[w].plant, writing[w].view, stored)
    /\ writing' = [writing EXCEPT ![w] = None]
    /\ UNCHANGED <<rows, script, faqIndex, snapshot, written, scripts>>

\* Rolled back before the commit; after it, the index is left as it is.
WriteFails(w) ==
    /\ writing[w] # None
    /\ Failed
    /\ writing' = [writing EXCEPT ![w] = None]
    /\ unsure' = IF writing[w].stage \in {"sync", "insert"} THEN unsure \cup {writing[w].plant} ELSE unsure
    /\ UNCHANGED <<rows, index, script, faqIndex, snapshot, written, scripts>>

----------------------------------------------------------------------------
(* scripts.reindex_knowledge: the plants, then the FAQs *)

Items(all) == {[plant |-> p, row |-> rows[p]] : p \in {q \in Indexed :
                 rows[q] # None /\ (all \/ rows[q].active)}}

ScriptStart(all) ==
    /\ script.stage = "none"
    /\ scripts < MaxScripts
    /\ scripts' = scripts + 1
    /\ script' = [stage |-> "plants", all |-> all, todo |-> Items(all), now |-> None,
                  quiet |-> \A w \in Writers : writing[w] = None]
    /\ UNCHANGED <<rows, index, writing, faqIndex, snapshot, written, failures, unsure>>

ScriptDelete(item) ==
    /\ script.stage = "plants" /\ script.now = None
    /\ item \in script.todo
    /\ DeletePlant(item.plant, item.row)
    /\ script' = [script EXCEPT !.todo = @ \ {item},
                                !.now = IF Mirror(item.row) = {} THEN None ELSE item]
    /\ UNCHANGED <<rows, writing, faqIndex, snapshot, written, scripts, failures>>

\* An error ends the whole script.
ScriptInsert ==
    /\ script.stage = "plants" /\ script.now # None
    /\ LET item == script.now IN
       \E stored \in SUBSET Mirror(item.row) :
         /\ WellOrFailed(stored, Mirror(item.row))
         /\ InsertPlant(item.plant, item.row, stored)
         /\ script' = IF stored = Mirror(item.row) THEN [script EXCEPT !.now = None] ELSE Resting
    /\ UNCHANGED <<rows, writing, faqIndex, snapshot, written, scripts>>

\* Fault: the FAQs are replaced one by one, as the plants are.
Wiped_BySource == {o \in faqIndex : \A f \in snapshot : f[1] # o.faq[1]}

\* delete_knowledge_by_source_type
Wiped == {}

ScriptWipeFaqs ==
    /\ script.stage = "plants" /\ script.now = None /\ script.todo = {}
    /\ faqIndex' = Wiped
    /\ script' = [script EXCEPT !.stage = "faqs"]
    /\ UNCHANGED <<rows, index, writing, snapshot, written, scripts, failures, unsure>>

ScriptInsertFaqs ==
    /\ script.stage = "faqs"
    /\ \E stored \in SUBSET snapshot :
         /\ WellOrFailed(stored, snapshot)
         /\ faqIndex' = {[faq |-> f, of |-> snapshot] : f \in stored}
                        \cup {o \in faqIndex : o.faq \notin stored}
    /\ script' = Resting
    /\ UNCHANGED <<rows, index, writing, snapshot, written, scripts, unsure>>

ScriptDies ==
    /\ script.stage # "none"
    /\ Failed
    /\ script' = Resting
    /\ unsure' = IF script.now = None THEN unsure ELSE unsure \cup {script.now.plant}
    /\ UNCHANGED <<rows, index, writing, faqIndex, snapshot, written, scripts>>

\* A new snapshot is deployed; the container, and a script in it, restarts.
Deploy ==
    /\ script.stage = "none"
    /\ \E s \in Snapshots \ {snapshot} : snapshot' = s
    /\ UNCHANGED <<rows, index, writing, script, faqIndex, written, scripts, failures, unsure>>

----------------------------------------------------------------------------
(* search_faq_knowledge *)

\* Fault: no more objects are asked for than are to be shown.
Fetched_TopK(matching) == IF Cardinality(matching) < TopK THEN {matching} ELSE kSubset(TopK, matching)

\* The index returns the best 2 * TopK objects, whichever they are.
Fetched(matching) ==
    IF Cardinality(matching) < 2 * TopK THEN {matching} ELSE kSubset(2 * TopK, matching)

Faqs(objects) == {o.faq[1] : o \in objects}

\* Without a locale an FAQ matches in both languages and is shown once.
Matching(locale) == {o \in faqIndex : locale = None \/ o.faq[2] = locale}
Shown(got) == Min({TopK, Cardinality(Faqs(got))})

IndexNext ==
    \/ \E w \in Writers :
         \/ \E p \in Indexed : SubmitWrite(w, p)
         \/ LoadWrite(w) \/ Commit(w) \/ SyncDelete(w) \/ SyncInsert(w) \/ WriteFails(w)
    \/ \E all \in BOOLEAN : ScriptStart(all)
    \/ \E item \in script.todo : ScriptDelete(item)
    \/ ScriptInsert \/ ScriptWipeFaqs \/ ScriptInsertFaqs \/ ScriptDies
    \/ Deploy

IndexSpec == IndexInit /\ [][IndexNext]_indexVars

----------------------------------------------------------------------------
(* Properties *)

\* Rows, objects and requests are of the shapes the code gives them.
IndexTypeOK ==
    /\ rows \in [Indexed -> PlantRow \cup {None}]
    /\ index \in [Indexed -> SUBSET UNION {Objects(d) : d \in Docs}]
    /\ writing \in [Writers -> Writing \cup {None}]
    /\ script \in Script
    /\ snapshot \in Snapshots
    /\ faqIndex \subseteq Faq
    /\ unsure \subseteq Indexed

\* Nothing is being done to a plant or its objects.
AtRest(p) ==
    /\ \A w \in Writers : writing[w] = None \/ writing[w].plant # p \/ writing[w].stage \in {"load", "commit"}
    /\ script.now = None \/ script.now.plant # p

\* When no work on a plant is left, the index holds every piece of its committed
\* text once, and nothing else, or nothing if it is inactive; except where a call
\* failed or was based on a row that was no longer the committed one.
MirrorExact ==
    \A p \in Indexed : AtRest(p) /\ p \notin unsure =>
        index[p] = Mirror(rows[p])

\* A reindex of all plants that completes while no plant is written leaves an
\* exact mirror, whatever the index held before; one of the active plants does so
\* for these only.
ReindexStep ==
    script.stage = "plants" /\ script'.stage = "faqs" /\ script.quiet =>
        \A p \in Indexed : rows[p] # None /\ (script.all \/ rows[p].active) =>
                             index[p] = Mirror(rows[p])

ReindexRepairs == [][ReindexStep]_indexVars

\* The chat never finds FAQs of two snapshots: removed or renamed questions do
\* not linger, also when a reindex fails halfway.
FaqsOfOneSnapshot == \A o, n \in faqIndex : o.of = n.of

\* A search that does not ask for a language shows as many FAQs as one could: it
\* fetches twice as many objects as it shows, since each FAQ has two.
FaqAnswerFull ==
    \A locale \in {o.faq[2] : o \in faqIndex} \cup {None} : \A got \in Fetched(Matching(locale)) :
        Shown(got) = Min({TopK, Cardinality(Faqs(Matching(locale)))})
=============================================================================
