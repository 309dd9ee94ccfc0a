-------------------------- MODULE KnowledgeProofs ---------------------------
(* Theorems about Knowledge, for any plants, texts, requests and snapshots,  *)
(* and about the ids that PlantText gives the chunks of a text.              *)
EXTENDS Knowledge, TLAPS, FiniteSetTheorems

CONSTANTS Headings, Keys, Key, Label, Hash
T == INSTANCE PlantText

----------------------------------------------------------------------------
(* The ids of a text's chunks *)

\* No two objects of a text have the same id: what the mirror relies on.
IdsDistinct ==
    \A d \in Docs : /\ DOMAIN Ids[d] \subseteq Nat
                    /\ \A i, k \in DOMAIN Ids[d] : Ids[d][i] = Ids[d][k] => i = k

\* A set that lacks an element of a finite superset is the smaller.
LEMMA StrictlySmaller ==
    ASSUME NEW B, IsFiniteSet(B), NEW A \in SUBSET B, NEW x \in B, x \notin A
    PROVE  /\ Cardinality(A) \in Nat /\ Cardinality(B) \in Nat
           /\ Cardinality(A) < Cardinality(B)
<1>1. IsFiniteSet(A) /\ Cardinality(A) <= Cardinality(B) /\ (Cardinality(A) = Cardinality(B) => A = B)
  BY FS_Subset
<1>2. Cardinality(A) \in Nat /\ Cardinality(B) \in Nat
  BY <1>1, FS_CardinalityType
<1> QED BY <1>1, <1>2

\* A chunk is counted higher than an earlier one with the same key.
LEMMA CountersGrow ==
    ASSUME NEW S, NEW chunks \in Seq(S), NEW i \in DOMAIN chunks, NEW k \in DOMAIN chunks, i < k,
           T!CounterKey(chunks[i]) = T!CounterKey(chunks[k])
    PROVE  T!ChunkIndex(chunks, i) # T!ChunkIndex(chunks, k)
<1> DEFINE Same(n) == {j \in 1 .. n - 1 : T!CounterKey(chunks[j]) = T!CounterKey(chunks[n])}
<1>1. i \in Nat /\ k \in Nat /\ i >= 1
  OBVIOUS
<1>2. IsFiniteSet(Same(k))
  <2>1. IsFiniteSet(1 .. k - 1)
    BY <1>1, FS_Interval
  <2>2. Same(k) \in SUBSET (1 .. k - 1)
    OBVIOUS
  <2> QED BY <2>1, <2>2, FS_Subset
<1>3. Same(i) \in SUBSET Same(k)
  BY <1>1
<1>4. i \in Same(k) /\ i \notin Same(i)
  BY <1>1
<1>5. Cardinality(Same(i)) # Cardinality(Same(k))
  <2> HIDE DEF Same
  <2> QED BY <1>2, <1>3, <1>4, StrictlySmaller
<1>6. Cardinality(Same(i)) = T!ChunkIndex(chunks, i) /\ Cardinality(Same(k)) = T!ChunkIndex(chunks, k)
  BY DEF T!ChunkIndex, T!Cardinality, Cardinality
<1> QED BY <1>5, <1>6

\* The ids of a plant's objects are distinct, whatever headings its texts have
\* and whatever keys these are given: chunks of one key are told apart by their
\* counter (plant_chunks_to_weaviate_objects).  That the chunks are a sequence is
\* the splitters' type.
THEOREM ObjectIdsDistinct ==
    ASSUME NEW doc, NEW S, T!PreparePlantChunks(doc) \in Seq(S)
    PROVE  /\ DOMAIN T!ObjectIds(doc) \subseteq Nat
           /\ \A i, k \in DOMAIN T!ObjectIds(doc) : T!ObjectIds(doc)[i] = T!ObjectIds(doc)[k] => i = k
<1> DEFINE chunks == T!PreparePlantChunks(doc)
           ids    == T!ObjectIds(doc)
<1>1. /\ DOMAIN ids = DOMAIN chunks
      /\ \A i \in DOMAIN chunks :
           ids[i] = <<chunks[i].locale, Key[chunks[i].section], T!ChunkIndex(chunks, i)>>
  BY DEF T!ObjectIds
<1>2. DOMAIN chunks \subseteq Nat
  OBVIOUS
<1>3. ASSUME NEW i \in DOMAIN chunks, NEW k \in DOMAIN chunks, i < k
      PROVE  ids[i] # ids[k]
  <2>1. SUFFICES ASSUME ids[i] = ids[k] PROVE FALSE
    OBVIOUS
  <2>2. chunks[i].locale = chunks[k].locale /\ Key[chunks[i].section] = Key[chunks[k].section]
        /\ T!ChunkIndex(chunks, i) = T!ChunkIndex(chunks, k)
    <3> HIDE DEF chunks, ids
    <3> QED BY <1>1, <2>1
  <2>3. T!CounterKey(chunks[i]) = T!CounterKey(chunks[k])
    BY <2>2 DEF T!CounterKey
  <2> HIDE DEF chunks, ids
  <2>4. chunks \in Seq(S)
    BY DEF chunks
  <2> QED BY <1>3, <2>2, <2>3, <2>4, CountersGrow
<1>4. \A i, k \in DOMAIN chunks : ids[i] = ids[k] => i = k
  <2> HIDE DEF chunks, ids
  <2> QED BY <1>2, <1>3
<1> QED BY <1>1, <1>2, <1>4

\* So the objects of texts whose ids are made that way are told apart.
LEMMA TextsHaveDistinctIds ==
    ASSUME NEW text, NEW S,
           \A d \in Docs : T!PreparePlantChunks(text[d]) \in Seq(S) /\ Ids[d] = T!ObjectIds(text[d])
    PROVE  IdsDistinct
BY ObjectIdsDistinct DEF IdsDistinct

----------------------------------------------------------------------------
(* Types *)

\* A row as an edit leaves it is a row.
LEMMA RowAfterType ==
    ASSUME IndexTypeOK, NEW j \in Writing, j.view \in PlantRow, j.copy # None => rows[j.plant] # None
    PROVE  RowWritten(j) \in PlantRow
<1>1. rows[j.plant] \in PlantRow \cup {None} /\ j.copy \in PlantRow \cup {None}
  BY DEF IndexTypeOK, Writing
<1>2. CASE j.copy = None
  BY <1>2 DEF RowWritten
<1>3. CASE j.copy # None
  <2>1. rows[j.plant] \in PlantRow /\ j.copy \in PlantRow
    BY <1>1, <1>3
  <2> QED BY <1>3, <2>1 DEF RowWritten, PlantRow
<1> QED BY <1>2, <1>3

\* What a job has read and what it will write.
JobShape ==
    \A w \in Writers : writing[w] # None =>
        /\ writing[w].stage # "load" => writing[w].view \in PlantRow
        /\ writing[w].copy # None => rows[writing[w].plant] # None
        /\ writing[w].stage = "load" => rows[writing[w].plant] # None

\* Only a script that is indexing plants has one in hand.
ScriptShape == script.stage # "plants" => script.now = None

Shape == IndexTypeOK /\ JobShape /\ ScriptShape

\* A mirror is made of objects of the texts.
LEMMA MirrorType ==
    ASSUME NEW row \in PlantRow \cup {None}
    PROVE  Mirror(row) \subseteq UNION {Objects(d) : d \in Docs}
BY DEF Mirror, PlantRow

\* Removing, adding or losing objects leaves an index of objects.
LEMMA IndexType ==
    ASSUME index \in [Indexed -> SUBSET UNION {Objects(d) : d \in Docs}],
           NEW p \in Indexed, NEW row \in PlantRow \cup {None}, NEW stored \in SUBSET Mirror(row)
    PROVE  /\ [index EXCEPT ![p] = Cleared(p)] \in [Indexed -> SUBSET UNION {Objects(d) : d \in Docs}]
           /\ [index EXCEPT ![p] = Upserted(p, stored)] \in [Indexed -> SUBSET UNION {Objects(d) : d \in Docs}]
<1> DEFINE All == UNION {Objects(d) : d \in Docs}
<1>1. stored \subseteq All
  BY MirrorType
<1>2. index[p] \subseteq All
  OBVIOUS
<1> HIDE DEF All
<1>3. Upserted(p, stored) \subseteq All
  BY <1>1, <1>2 DEF Upserted
<1>4. Cleared(p) \subseteq All
  BY DEF Cleared
<1>5. index \in [Indexed -> SUBSET All]
  BY DEF All
<1>6. /\ [index EXCEPT ![p] = Cleared(p)] \in [Indexed -> SUBSET All]
      /\ [index EXCEPT ![p] = Upserted(p, stored)] \in [Indexed -> SUBSET All]
  BY <1>3, <1>4, <1>5
<1> QED BY <1>6 DEF All

\* When the index starts, nothing is in progress.
LEMMA InitShape == ASSUME KnowledgeAssumption, IndexInit PROVE Shape
<1>1. Resting \in Script /\ Resting.stage # "plants" /\ Resting.now = None
  BY DEF Resting, Script
<1>2. IndexTypeOK
  <2>1. index \in [Indexed -> SUBSET UNION {Objects(d) : d \in Docs}]
    BY DEF IndexInit
  <2>2. faqIndex \subseteq Faq
    BY DEF IndexInit, Faq
  <2>3. writing \in [Writers -> Writing \cup {None}] /\ script \in Script
    BY <1>1 DEF IndexInit
  <2>4. rows \in [Indexed -> PlantRow \cup {None}] /\ snapshot \in Snapshots /\ unsure \subseteq Indexed
    BY DEF IndexInit
  <2> QED BY <2>1, <2>2, <2>3, <2>4 DEF IndexTypeOK
<1>3. JobShape
  BY DEF IndexInit, JobShape
<1>4. ScriptShape
  BY <1>1 DEF IndexInit, ScriptShape
<1> QED BY <1>2, <1>3, <1>4 DEF Shape

\* What a request that is somewhere is.
LEMMA AJob ==
    ASSUME KnowledgeAssumption, Shape, NEW w \in Writers, writing[w] # None
    PROVE  /\ writing[w] \in Writing
           /\ writing[w].plant \in Indexed
           /\ writing[w].view \in PlantRow \cup {None}
           /\ writing[w].copy \in PlantRow \cup {None}
           /\ writing[w].stage \in {"load", "commit", "sync", "insert"}
BY DEF Shape, IndexTypeOK, Writing

\* A new request, for an existing plant or a new one, is well formed.
LEMMA SubmitShape ==
    ASSUME KnowledgeAssumption, Shape, NEW w \in Writers, NEW p \in Indexed, SubmitWrite(w, p)
    PROVE  Shape'
<1> USE DEF Shape
<1>1. PICK j \in Writing : /\ writing' = [writing EXCEPT ![w] = j] /\ j # None
                           /\ j.stage # "load" => j.view \in PlantRow
                           /\ j.copy = None
                           /\ j.stage = "load" => rows[j.plant] # None
  <2>1. CASE rows[p] # None /\ writing' = [writing EXCEPT ![w] = [plant |-> p, copy |-> None, view |-> None, stage |-> "load"]]
    <3> DEFINE j == [plant |-> p, copy |-> None, view |-> None, stage |-> "load"]
    <3>1. j \in Writing
      BY DEF Writing
    <3>2. j # None
      BY <3>1 DEF KnowledgeAssumption
    <3> QED BY <2>1, <3>1, <3>2
  <2>2. ASSUME NEW row \in PlantRow,
               writing' = [writing EXCEPT ![w] = [plant |-> p, copy |-> None, view |-> row, stage |-> "commit"]]
        PROVE  \E j \in Writing : /\ writing' = [writing EXCEPT ![w] = j] /\ j # None
                                  /\ j.stage # "load" => j.view \in PlantRow
                                  /\ j.copy = None
                                  /\ j.stage = "load" => rows[j.plant] # None
    <3> DEFINE j == [plant |-> p, copy |-> None, view |-> row, stage |-> "commit"]
    <3>1. j \in Writing
      BY DEF Writing
    <3>2. j # None
      BY <3>1 DEF KnowledgeAssumption
    <3> QED BY <2>2, <3>1, <3>2
  <2> QED BY <2>1, <2>2 DEF SubmitWrite
<1>2. IndexTypeOK'
  <2>1. writing' \in [Writers -> Writing \cup {None}]
    BY <1>1 DEF IndexTypeOK
  <2> QED BY <2>1 DEF IndexTypeOK, SubmitWrite
<1>3. JobShape'
  BY <1>1 DEF JobShape, IndexTypeOK, SubmitWrite
<1>4. ScriptShape'
  BY DEF ScriptShape, SubmitWrite
<1> QED BY <1>2, <1>3, <1>4

\* update_plant reads a row as it is.
LEMMA LoadShape ==
    ASSUME KnowledgeAssumption, Shape, NEW w \in Writers, LoadWrite(w)
    PROVE  Shape'
<1> USE DEF Shape
<1>1. writing[w] # None /\ writing[w].stage = "load" /\ rows[writing[w].plant] # None
  BY DEF LoadWrite, WriterAt, JobShape
<1>2. PICK view \in PlantRow :
         writing' = [writing EXCEPT ![w].copy = rows[writing[w].plant], ![w].view = view, ![w].stage = "commit"]
  BY DEF LoadWrite
<1> DEFINE j == [writing[w] EXCEPT !.copy = rows[writing[w].plant], !.view = view, !.stage = "commit"]
<1>3. writing' = [writing EXCEPT ![w] = j]
  BY <1>2 DEF IndexTypeOK
<1>4. writing[w] \in Writing /\ rows[writing[w].plant] \in PlantRow \cup {None}
  BY <1>1, AJob DEF IndexTypeOK
<1>5. j \in Writing /\ j.plant = writing[w].plant /\ j.view = view /\ j.stage = "commit"
  BY <1>4 DEF Writing
<1> HIDE DEF j
<1>6. IndexTypeOK'
  <2>1. writing' \in [Writers -> Writing \cup {None}]
    BY <1>3, <1>5 DEF IndexTypeOK
  <2> QED BY <2>1 DEF IndexTypeOK, LoadWrite
<1>7. \A v \in Writers : writing'[v] = IF v = w THEN j ELSE writing[v]
  BY <1>3 DEF IndexTypeOK
<1>8. JobShape'
  <2>1. rows' = rows
    BY DEF LoadWrite
  <2> QED BY <1>1, <1>5, <1>7, <2>1 DEF JobShape
<1>9. ScriptShape'
  BY DEF ScriptShape, LoadWrite
<1> QED BY <1>6, <1>8, <1>9

\* A commit leaves rows and a request that has something to mirror.
LEMMA CommitShape ==
    ASSUME KnowledgeAssumption, Shape, NEW w \in Writers, Commit(w)
    PROVE  Shape'
<1> USE DEF Shape
<1> DEFINE j == [writing[w] EXCEPT !.stage = "sync"]
<1>1. writing[w] # None /\ writing[w].stage = "commit" /\ writing[w] \in Writing /\ writing[w].plant \in Indexed
  BY AJob DEF Commit, WriterAt
<1>2. writing' = [writing EXCEPT ![w] = j]
  BY DEF Commit, IndexTypeOK
<1>3. j \in Writing /\ j.plant = writing[w].plant /\ j.view = writing[w].view /\ j.stage = "sync" /\ j.copy = writing[w].copy
  BY <1>1 DEF Writing
<1> HIDE DEF j
<1>4. RowWritten(writing[w]) \in PlantRow
  <2>1. writing[w].view \in PlantRow /\ (writing[w].copy # None => rows[writing[w].plant] # None)
    BY <1>1 DEF JobShape
  <2> QED BY <1>1, <2>1, RowAfterType
<1>5. rows' \in [Indexed -> PlantRow \cup {None}]
  BY <1>1, <1>4 DEF Commit, IndexTypeOK
<1>6. \A p \in Indexed : rows[p] # None => rows'[p] # None
  BY <1>1, <1>4 DEF Commit, IndexTypeOK, KnowledgeAssumption
<1>7. rows'[writing[w].plant] # None
  BY <1>1, <1>4 DEF Commit, IndexTypeOK, KnowledgeAssumption
<1>8. IndexTypeOK'
  <2>1. writing' \in [Writers -> Writing \cup {None}]
    BY <1>2, <1>3 DEF IndexTypeOK
  <2>2. script' \in Script
    BY DEF Commit, IndexTypeOK, Script
  <2> QED BY <1>5, <2>1, <2>2 DEF IndexTypeOK, Commit
<1>9. \A v \in Writers : writing'[v] = IF v = w THEN j ELSE writing[v]
  BY <1>2 DEF IndexTypeOK
<1>10. JobShape'
  <2>1. \A v \in Writers : writing[v] # None => writing[v].plant \in Indexed
    BY AJob
  <2> QED BY <1>1, <1>3, <1>6, <1>7, <1>9, <2>1 DEF JobShape
<1>11. ScriptShape'
  BY DEF ScriptShape, Commit, IndexTypeOK, Script
<1> QED BY <1>8, <1>10, <1>11

\* Deleting a plant's objects, well or not, leaves an index.
LEMMA SyncDeleteShape ==
    ASSUME KnowledgeAssumption, Shape, NEW w \in Writers, SyncDelete(w)
    PROVE  Shape'
<1> USE DEF Shape
<1>1. writing[w] # None /\ writing[w].stage = "sync"
  BY DEF SyncDelete, WriterAt
<1>2. writing[w] \in Writing /\ writing[w].plant \in Indexed /\ writing[w].view \in PlantRow
  BY <1>1, AJob DEF JobShape
<1>3. index' = [index EXCEPT ![writing[w].plant] = Cleared(writing[w].plant)] /\ unsure' \subseteq Indexed
  BY <1>2 DEF SyncDelete, DeletePlant, IndexTypeOK
<1>4. index' \in [Indexed -> SUBSET UNION {Objects(d) : d \in Docs}]
  <2>1. {} \in SUBSET Mirror(writing[w].view)
    OBVIOUS
  <2> QED BY <1>2, <1>3, <2>1, IndexType DEF IndexTypeOK
<1>5. PICK j \in Writing \cup {None} : /\ writing' = [writing EXCEPT ![w] = j]
                                       /\ j # None => j = [writing[w] EXCEPT !.stage = "insert"]
  <2>1. [writing[w] EXCEPT !.stage = "insert"] \in Writing
    BY <1>2 DEF Writing
  <2>2. CASE writing' = [writing EXCEPT ![w] = None]
    BY <2>2
  <2>3. CASE writing' = [writing EXCEPT ![w].stage = "insert"]
    <3>1. writing' = [writing EXCEPT ![w] = [writing[w] EXCEPT !.stage = "insert"]]
      BY <2>3 DEF IndexTypeOK
    <3> QED BY <2>1, <3>1
  <2> QED BY <2>2, <2>3 DEF SyncDelete
<1>6. IndexTypeOK'
  <2>1. writing' \in [Writers -> Writing \cup {None}]
    BY <1>5 DEF IndexTypeOK
  <2> QED BY <1>3, <1>4, <2>1 DEF IndexTypeOK, SyncDelete
<1>7. JobShape'
  <2>1. \A v \in Writers : writing'[v] = IF v = w THEN j ELSE writing[v]
    BY <1>5 DEF IndexTypeOK
  <2>2. rows' = rows
    BY DEF SyncDelete
  <2>3. j # None => j.plant = writing[w].plant /\ j.view = writing[w].view /\ j.copy = writing[w].copy /\ j.stage = "insert"
    BY <1>2, <1>5 DEF Writing
  <2> QED BY <1>1, <1>2, <2>1, <2>2, <2>3 DEF JobShape
<1>8. ScriptShape'
  BY DEF ScriptShape, SyncDelete
<1> QED BY <1>6, <1>7, <1>8

\* So does inserting them.
LEMMA SyncInsertShape ==
    ASSUME KnowledgeAssumption, Shape, NEW w \in Writers, SyncInsert(w)
    PROVE  Shape'
<1> USE DEF Shape
<1>1. writing[w] # None /\ writing[w].plant \in Indexed /\ writing[w].view \in PlantRow
  BY AJob DEF SyncInsert, WriterAt, JobShape
<1>2. PICK stored \in SUBSET Mirror(writing[w].view) : InsertPlant(writing[w].plant, writing[w].view, stored)
  BY DEF SyncInsert
<1>3. index' \in [Indexed -> SUBSET UNION {Objects(d) : d \in Docs}] /\ unsure' \subseteq Indexed
  BY <1>1, <1>2, IndexType DEF IndexTypeOK, InsertPlant
<1>4. writing' = [writing EXCEPT ![w] = None] /\ rows' = rows
  BY DEF SyncInsert
<1>5. IndexTypeOK'
  BY <1>3, <1>4 DEF IndexTypeOK, SyncInsert
<1>6. JobShape'
  BY <1>4 DEF JobShape, IndexTypeOK
<1>7. ScriptShape'
  BY DEF ScriptShape, SyncInsert
<1> QED BY <1>5, <1>6, <1>7

\* A request that ends early leaves the types alone.
LEMMA FailShape ==
    ASSUME KnowledgeAssumption, Shape, NEW w \in Writers, WriteFails(w)
    PROVE  Shape'
<1> USE DEF Shape
<1>1. writing' = [writing EXCEPT ![w] = None] /\ rows' = rows
  BY DEF WriteFails
<1>2. unsure' \subseteq Indexed
  BY AJob DEF WriteFails, IndexTypeOK
<1>3. IndexTypeOK'
  BY <1>1, <1>2 DEF IndexTypeOK, WriteFails
<1>4. JobShape'
  BY <1>1 DEF JobShape, IndexTypeOK
<1>5. ScriptShape'
  BY DEF ScriptShape, WriteFails
<1> QED BY <1>3, <1>4, <1>5

\* What the script is about to mirror, and what it is mirroring, was a row.
LEMMA AnItem ==
    ASSUME KnowledgeAssumption, Shape
    PROVE  /\ \A item \in script.todo : item \in Item
           /\ script.now # None => script.now \in Item
           /\ \A item \in Item : item.plant \in Indexed /\ item.row \in PlantRow /\ item # None
BY DEF Shape, IndexTypeOK, Script, Item, KnowledgeAssumption

\* The script starts with the rows it has read.
LEMMA ScriptStartShape ==
    ASSUME KnowledgeAssumption, Shape, NEW all \in BOOLEAN, ScriptStart(all)
    PROVE  Shape'
<1> USE DEF Shape
<1>1. Items(all) \subseteq Item
  <2> SUFFICES ASSUME NEW p \in Indexed, rows[p] # None PROVE [plant |-> p, row |-> rows[p]] \in Item
    BY DEF Items
  <2>1. rows[p] \in PlantRow
    BY DEF IndexTypeOK
  <2> QED BY <2>1 DEF Item
<1>2. script' \in Script /\ (script')["stage"] = "plants"
  BY <1>1 DEF ScriptStart, Script
<1>3. IndexTypeOK'
  BY <1>2 DEF IndexTypeOK, ScriptStart
<1>4. JobShape' /\ ScriptShape'
  BY <1>2 DEF JobShape, ScriptShape, ScriptStart
<1> QED BY <1>3, <1>4

\* It takes one of them at a time and deletes.
LEMMA ScriptDeleteShape ==
    ASSUME KnowledgeAssumption, Shape, NEW item \in script.todo, ScriptDelete(item)
    PROVE  Shape'
<1> USE DEF Shape
<1>1. item \in Item /\ item.plant \in Indexed /\ item.row \in PlantRow
  BY AnItem
<1>2. index' \in [Indexed -> SUBSET UNION {Objects(d) : d \in Docs}] /\ unsure' \subseteq Indexed
  <2>1. {} \in SUBSET Mirror(item.row)
    OBVIOUS
  <2> QED BY <1>1, <2>1, IndexType DEF IndexTypeOK, ScriptDelete, DeletePlant
<1>3. script' \in Script /\ script'.stage = "plants"
  BY <1>1 DEF ScriptDelete, IndexTypeOK, Script
<1>4. IndexTypeOK'
  BY <1>2, <1>3 DEF IndexTypeOK, ScriptDelete
<1>5. JobShape' /\ ScriptShape'
  BY <1>3 DEF JobShape, ScriptShape, ScriptDelete
<1> QED BY <1>4, <1>5

\* It inserts what it took.
LEMMA ScriptInsertShape ==
    ASSUME KnowledgeAssumption, Shape, ScriptInsert
    PROVE  Shape'
<1> USE DEF Shape
<1> DEFINE item == script.now
<1>1. item \in Item /\ item.plant \in Indexed /\ item.row \in PlantRow
  BY AnItem DEF ScriptInsert
<1>2. PICK stored \in SUBSET Mirror(item.row) :
         /\ InsertPlant(item.plant, item.row, stored)
         /\ script' = IF stored = Mirror(item.row) THEN [script EXCEPT !.now = None] ELSE Resting
  BY DEF ScriptInsert
<1>3. index' \in [Indexed -> SUBSET UNION {Objects(d) : d \in Docs}] /\ unsure' \subseteq Indexed
  BY <1>1, <1>2, IndexType DEF IndexTypeOK, InsertPlant
<1>4. script' \in Script /\ script'.now = None
  BY <1>2 DEF IndexTypeOK, Script, Resting
<1>5. IndexTypeOK'
  BY <1>3, <1>4 DEF IndexTypeOK, ScriptInsert
<1>6. JobShape' /\ ScriptShape'
  BY <1>4 DEF JobShape, ScriptShape, ScriptInsert
<1> QED BY <1>5, <1>6

\* Its FAQ steps store questions of snapshots.
LEMMA ScriptFaqsShape ==
    ASSUME KnowledgeAssumption, Shape, ScriptWipeFaqs \/ ScriptInsertFaqs
    PROVE  Shape'
<1> USE DEF Shape
<1>1. script' \in Script /\ script'.now = None
  <2>1. CASE ScriptWipeFaqs
    BY <2>1 DEF IndexTypeOK, Script, ScriptWipeFaqs
  <2>2. CASE ScriptInsertFaqs
    BY <2>2 DEF Script, Resting, ScriptInsertFaqs
  <2> QED BY <2>1, <2>2
<1>2. faqIndex' \subseteq Faq
  <2>1. CASE ScriptWipeFaqs
    BY <2>1 DEF ScriptWipeFaqs, Wiped
  <2>2. CASE ScriptInsertFaqs
    <3>1. PICK stored \in SUBSET snapshot :
             faqIndex' = {[faq |-> f, of |-> snapshot] : f \in stored} \cup {o \in faqIndex : o.faq \notin stored}
      BY <2>2 DEF ScriptInsertFaqs
    <3>2. {[faq |-> f, of |-> snapshot] : f \in stored} \subseteq Faq
      BY DEF Faq, IndexTypeOK
    <3> QED BY <3>1, <3>2 DEF IndexTypeOK
  <2> QED BY <2>1, <2>2
<1>3. IndexTypeOK'
  BY <1>1, <1>2 DEF IndexTypeOK, ScriptWipeFaqs, ScriptInsertFaqs
<1>4. JobShape' /\ ScriptShape'
  BY <1>1 DEF JobShape, ScriptShape, ScriptWipeFaqs, ScriptInsertFaqs
<1> QED BY <1>3, <1>4

\* A script that dies leaves nothing of itself.
LEMMA ScriptDiesShape ==
    ASSUME KnowledgeAssumption, Shape, ScriptDies
    PROVE  Shape'
<1> USE DEF Shape
<1>1. script' \in Script /\ script'.now = None
  BY DEF Script, Resting, ScriptDies
<1>2. unsure' \subseteq Indexed
  BY AnItem DEF ScriptDies, IndexTypeOK
<1>3. IndexTypeOK'
  BY <1>1, <1>2 DEF IndexTypeOK, ScriptDies
<1>4. JobShape' /\ ScriptShape'
  BY <1>1 DEF JobShape, ScriptShape, ScriptDies
<1> QED BY <1>3, <1>4

\* A deployment brings another snapshot.
LEMMA DeployShape ==
    ASSUME KnowledgeAssumption, Shape, Deploy
    PROVE  Shape'
BY DEF Shape, IndexTypeOK, JobShape, ScriptShape, Deploy

\* Every step keeps the shapes.
LEMMA NextShape ==
    ASSUME KnowledgeAssumption, Shape, [IndexNext]_indexVars
    PROVE  Shape'
<1>1. CASE UNCHANGED indexVars
  BY <1>1 DEF indexVars, Shape, IndexTypeOK, JobShape, ScriptShape
<1>2. CASE IndexNext
  BY <1>2, SubmitShape, LoadShape, CommitShape, SyncDeleteShape, SyncInsertShape, FailShape,
     ScriptStartShape, ScriptDeleteShape, ScriptInsertShape, ScriptFaqsShape, ScriptDiesShape,
     DeployShape DEF IndexNext
<1> QED BY <1>1, <1>2

\* Every row, object and request is of the shape the code gives it.
THEOREM TypesHold == ASSUME KnowledgeAssumption PROVE IndexSpec => []IndexTypeOK
<1>1. IndexInit => Shape
  BY InitShape
<1>2. Shape /\ [IndexNext]_indexVars => Shape'
  BY NextShape
<1>3. Shape => IndexTypeOK
  BY DEF Shape
<1> QED BY <1>1, <1>2, <1>3, PTL DEF IndexSpec

----------------------------------------------------------------------------
(* The mirror of a plant *)

\* A write of the plant is committed and its mirroring has not begun.
SyncPending(p) == \E w \in Writers : WriterAt(w, "sync") /\ writing[w].plant = p

\* The plant's objects are deleted and are about to be inserted, from the
\* committed row.
InsertPending(p) ==
    \/ \E w \in Writers : WriterAt(w, "insert") /\ writing[w].plant = p /\ writing[w].view = rows[p]
    \/ script.now # None /\ script.now.plant = p /\ script.now.row = rows[p]

\* Of a plant whose index nothing has gone wrong with: what is there belongs
\* there, also when two processes mirror it at once, and what is missing is about
\* to be inserted.
Claim(p) ==
    p \notin unsure /\ ~SyncPending(p) =>
        /\ index[p] \subseteq Mirror(rows[p])
        /\ index[p] = Mirror(rows[p]) \/ InsertPending(p)

Claims == \A p \in Indexed : Claim(p)

\* Inserting all of a text's objects over some of them leaves each of them once.
LEMMA UpsertCompletes ==
    ASSUME IdsDistinct, NEW p \in Indexed, NEW row \in PlantRow \cup {None}, index[p] \subseteq Mirror(row)
    PROVE  Upserted(p, Mirror(row)) = Mirror(row)
<1>1. CASE Mirror(row) = {}
  BY <1>1 DEF Upserted
<1>2. CASE Mirror(row) # {}
  <2>1. row \in PlantRow /\ Mirror(row) = Objects(row.doc) /\ row.doc \in Docs
    BY <1>2 DEF Mirror, PlantRow
  <2> DEFINE d == row.doc
  <2>2. \A o \in Objects(d) : o = <<d, o[2]>> /\ o[2] \in DOMAIN Ids[d] /\ o[2] \in Nat /\ Id(o) = Ids[d][o[2]]
    BY <2>1 DEF Objects, Id, IdsDistinct
  <2>3. \A o, n \in Objects(d) : Id(n) = Id(o) => n = o
    BY <2>1, <2>2 DEF IdsDistinct
  <2>4. {o \in Objects(d) : \A n \in Objects(d) : Id(n) = Id(o) => n[2] <= o[2]} = Objects(d)
    BY <2>2, <2>3
  <2>5. {o \in index[p] : \A n \in Objects(d) : Id(n) # Id(o)} = {}
    BY <2>1
  <2> QED BY <2>1, <2>4, <2>5 DEF Upserted
<1> QED BY <1>1, <1>2

\* A step that touches neither the plant's row and objects, nor what is in
\* progress on them, keeps the claim.
LEMMA ClaimKept ==
    ASSUME NEW p \in Indexed, Claim(p), rows'[p] = rows[p], index'[p] = index[p],
           p \notin unsure' => p \notin unsure,
           p \notin unsure' /\ SyncPending(p) => SyncPending(p)',
           p \notin unsure' /\ InsertPending(p) => InsertPending(p)'
    PROVE  Claim(p)'
<1>1. Mirror(rows'[p]) = Mirror(rows[p])
  OBVIOUS
<1> QED BY <1>1 DEF Claim

\* At first there is nothing to mirror.
LEMMA InitClaims == ASSUME KnowledgeAssumption, IndexInit PROVE Claims
<1> SUFFICES ASSUME NEW p \in Indexed, p \notin unsure PROVE index[p] = Mirror(rows[p])
  BY DEF Claims, Claim
<1> QED BY DEF IndexInit

\* A step of another request leaves what is in progress on the plant.
LEMMA PendingKept ==
    ASSUME NEW p \in Indexed, NEW w \in Writers, \A v \in Writers : v # w => writing'[v] = writing[v],
           rows'[p] = rows[p], script'.now = script.now,
           WriterAt(w, "sync") \/ WriterAt(w, "insert") => writing[w].plant # p
    PROVE  /\ SyncPending(p) => SyncPending(p)'
           /\ InsertPending(p) => InsertPending(p)'
<1>1. ASSUME NEW v \in Writers, WriterAt(v, "sync") \/ WriterAt(v, "insert"), writing[v].plant = p
      PROVE  writing'[v] = writing[v]
  BY <1>1
<1>2. SyncPending(p) => SyncPending(p)'
  <2> SUFFICES ASSUME NEW v \in Writers, WriterAt(v, "sync"), writing[v].plant = p
               PROVE  WriterAt(v, "sync")' /\ (writing[v].plant = p)'
    BY DEF SyncPending
  <2> QED BY <1>1 DEF WriterAt
<1>3. InsertPending(p) => InsertPending(p)'
  <2>1. ASSUME NEW v \in Writers, WriterAt(v, "insert"), writing[v].plant = p, writing[v].view = rows[p]
        PROVE  WriterAt(v, "insert")' /\ (writing[v].plant = p)' /\ (writing[v].view = rows[p])'
    BY <1>1, <2>1 DEF WriterAt
  <2>2. ASSUME script.now # None, script.now.plant = p, script.now.row = rows[p]
        PROVE  InsertPending(p)'
    BY <2>2 DEF InsertPending
  <2> QED BY <2>1, <2>2 DEF InsertPending
<1> QED BY <1>2, <1>3

\* Beginnings and ends of requests that have committed nothing.
LEMMA EarlyClaims ==
    ASSUME KnowledgeAssumption, Shape, Claims, NEW w \in Writers,
           \A v \in Writers : v # w => writing'[v] = writing[v],
           ~WriterAt(w, "sync"), ~WriterAt(w, "insert"),
           UNCHANGED <<rows, index, script, unsure>>
    PROVE  Claims'
<1> SUFFICES ASSUME NEW p \in Indexed PROVE Claim(p)'
  BY DEF Claims
<1>1. Claim(p)
  BY DEF Claims
<1>2. /\ SyncPending(p) => SyncPending(p)'
      /\ InsertPending(p) => InsertPending(p)'
  BY PendingKept
<1> QED BY <1>1, <1>2, ClaimKept

\* A commit leaves the mirroring of its plant still to come.
LEMMA CommitClaims ==
    ASSUME KnowledgeAssumption, Shape, Claims, NEW w \in Writers, Commit(w)
    PROVE  Claims'
<1> SUFFICES ASSUME NEW p \in Indexed PROVE Claim(p)'
  BY DEF Claims
<1>1. writing[w] # None /\ writing[w].stage = "commit" /\ writing[w] \in Writing
  BY AJob DEF Commit, WriterAt
<1>2. writing' = [writing EXCEPT ![w].stage = "sync"]
  BY DEF Commit
<1>3. CASE writing[w].plant = p
  <2>1. (writing')[w] = [writing[w] EXCEPT !.stage = "sync"]
    BY <1>2 DEF Shape, IndexTypeOK
  <2>2. (writing')[w].stage = "sync" /\ (writing')[w].plant = p /\ (writing')[w] # None
    <3>1. [writing[w] EXCEPT !.stage = "sync"] \in Writing
      BY <1>1 DEF Writing
    <3> QED BY <1>1, <1>3, <2>1, <3>1 DEF Writing, KnowledgeAssumption
  <2>3. SyncPending(p)'
    BY <2>2 DEF SyncPending, WriterAt
  <2> QED BY <2>3 DEF Claim
<1>4. CASE writing[w].plant # p
  <2>1. rows'[p] = rows[p] /\ index' = index /\ unsure' = unsure
    BY <1>4 DEF Commit, Shape, IndexTypeOK
  <2>2. script'.now = script.now
    BY DEF Commit, Shape, IndexTypeOK, Script
  <2>3. \A v \in Writers : v # w => writing'[v] = writing[v]
    BY <1>2 DEF Shape, IndexTypeOK
  <2>4. /\ SyncPending(p) => SyncPending(p)'
        /\ InsertPending(p) => InsertPending(p)'
    BY <1>4, <2>1, <2>2, <2>3, PendingKept
  <2> QED BY <2>1, <2>4, ClaimKept DEF Claims
<1> QED BY <1>3, <1>4

\* A delete that succeeds leaves the insert to come; another puts the plant in doubt.
LEMMA SyncDeleteClaims ==
    ASSUME KnowledgeAssumption, Shape, Claims, NEW w \in Writers, SyncDelete(w)
    PROVE  Claims'
<1> SUFFICES ASSUME NEW p \in Indexed PROVE Claim(p)'
  BY DEF Claims
<1> DEFINE q == writing[w].plant
<1>1. writing[w] # None /\ writing[w].stage = "sync" /\ writing[w] \in Writing
  BY AJob DEF SyncDelete, WriterAt
<1>2. rows' = rows /\ script' = script
  BY DEF SyncDelete
<1>3. index' = [index EXCEPT ![q] = {}]
  BY DEF SyncDelete, DeletePlant, Cleared
<1>4. CASE q = p
  <2> SUFFICES ASSUME p \notin unsure' PROVE index'[p] = {} /\ ({} = Mirror(rows[p]) \/ InsertPending(p)')
    BY <1>2 DEF Claim
  <2>1. index'[p] = {} /\ writing[w].view = rows[p]
    BY <1>3, <1>4 DEF SyncDelete, DeletePlant, Shape, IndexTypeOK
  <2>2. ASSUME {} # Mirror(rows[p]) PROVE InsertPending(p)'
    <3>1. (writing')[w] = [writing[w] EXCEPT !.stage = "insert"]
      BY <2>1, <2>2 DEF SyncDelete, Shape, IndexTypeOK
    <3>2. [writing[w] EXCEPT !.stage = "insert"] \in Writing
      BY <1>1 DEF Writing
    <3>3. (writing')[w] # None /\ (writing')[w].stage = "insert" /\ (writing')[w].plant = p /\ (writing')[w].view = rows[p]
      BY <1>1, <1>4, <2>1, <3>1, <3>2 DEF Writing, KnowledgeAssumption
    <3> QED BY <1>2, <3>3 DEF InsertPending, WriterAt
  <2> QED BY <2>1, <2>2
<1>5. CASE q # p
  <2>1. index'[p] = index[p]
    BY <1>3, <1>5 DEF Shape, IndexTypeOK
  <2>2. p \notin unsure' => p \notin unsure
    BY <1>5 DEF SyncDelete, DeletePlant
  <2>3. \A v \in Writers : v # w => writing'[v] = writing[v]
    BY DEF SyncDelete, Shape, IndexTypeOK
  <2>4. /\ SyncPending(p) => SyncPending(p)'
        /\ InsertPending(p) => InsertPending(p)'
    BY <1>2, <1>5, <2>3, PendingKept
  <2> QED BY <1>2, <2>1, <2>2, <2>4, ClaimKept DEF Claims
<1> QED BY <1>4, <1>5

\* An insertion of all of a committed row's objects, over some or none of them.
LEMMA InsertClaims ==
    ASSUME IdsDistinct, Shape, NEW q \in Indexed, NEW view, NEW stored,
           Claim(q), InsertPlant(q, view, stored), rows' = rows,
           SyncPending(q) => SyncPending(q)'
    PROVE  Claim(q)'
<1> SUFFICES ASSUME q \notin unsure', ~SyncPending(q) PROVE index'[q] = Mirror(rows[q])
  BY DEF Claim
<1>1. q \notin unsure /\ view = rows[q] /\ stored = Mirror(rows[q])
  BY DEF InsertPlant
<1>2. index[q] \subseteq Mirror(rows[q])
  BY <1>1 DEF Claim
<1>3. index'[q] = Upserted(q, Mirror(rows[q]))
  BY <1>1 DEF InsertPlant, Shape, IndexTypeOK
<1> QED BY <1>2, <1>3, UpsertCompletes DEF Shape, IndexTypeOK

\* An insert makes the index match what its writer has, or the plant is in doubt.
LEMMA SyncInsertClaims ==
    ASSUME KnowledgeAssumption, IdsDistinct, Shape, Claims, NEW w \in Writers, SyncInsert(w)
    PROVE  Claims'
<1> SUFFICES ASSUME NEW p \in Indexed PROVE Claim(p)'
  BY DEF Claims
<1> DEFINE q == writing[w].plant
<1>1. writing[w] # None /\ writing[w].stage = "insert" /\ writing[w].plant \in Indexed
  BY AJob DEF SyncInsert, WriterAt
<1>2. rows' = rows /\ script' = script
  BY DEF SyncInsert
<1>3. PICK stored : InsertPlant(q, writing[w].view, stored)
  BY DEF SyncInsert
<1>4. \A v \in Writers : v # w => writing'[v] = writing[v]
  BY DEF SyncInsert, Shape, IndexTypeOK
<1>5. Claim(p)
  BY DEF Claims
<1>6. CASE q = p
  <2>1. SyncPending(p) => SyncPending(p)'
    <3> SUFFICES ASSUME NEW v \in Writers, WriterAt(v, "sync"), writing[v].plant = p
                 PROVE  WriterAt(v, "sync")' /\ (writing[v].plant = p)'
      BY DEF SyncPending
    <3>1. v # w
      BY <1>1 DEF WriterAt
    <3> QED BY <1>4, <3>1 DEF WriterAt
  <2> QED BY <1>2, <1>3, <1>5, <1>6, <2>1, InsertClaims
<1>7. CASE q # p
  <2>1. index'[p] = index[p] /\ (p \notin unsure' => p \notin unsure)
    BY <1>3, <1>7 DEF InsertPlant, Shape, IndexTypeOK
  <2>2. /\ SyncPending(p) => SyncPending(p)'
        /\ InsertPending(p) => InsertPending(p)'
    BY <1>2, <1>4, <1>7, PendingKept
  <2> QED BY <1>2, <1>5, <2>1, <2>2, ClaimKept
<1> QED BY <1>6, <1>7

\* A request that fails leaves its plant in doubt if it had committed.
LEMMA FailClaims ==
    ASSUME KnowledgeAssumption, Shape, Claims, NEW w \in Writers, WriteFails(w)
    PROVE  Claims'
<1> SUFFICES ASSUME NEW p \in Indexed PROVE Claim(p)'
  BY DEF Claims
<1>1. UNCHANGED <<rows, index, script>> /\ unsure \subseteq unsure'
  BY DEF WriteFails
<1>2. \A v \in Writers : v # w => writing'[v] = writing[v]
  BY DEF WriteFails, Shape, IndexTypeOK
<1>3. CASE (WriterAt(w, "sync") \/ WriterAt(w, "insert")) /\ writing[w].plant = p
  <2>1. p \in unsure'
    BY <1>3 DEF WriteFails, WriterAt
  <2> QED BY <2>1 DEF Claim
<1>4. CASE WriterAt(w, "sync") \/ WriterAt(w, "insert") => writing[w].plant # p
  <2>1. /\ SyncPending(p) => SyncPending(p)'
        /\ InsertPending(p) => InsertPending(p)'
    BY <1>1, <1>2, <1>4, PendingKept
  <2> QED BY <1>1, <2>1, ClaimKept DEF Claims
<1> QED BY <1>3, <1>4

\* A step of the script on another plant, or on none, leaves what is in progress
\* on this one.
LEMMA PendingKeptByScript ==
    ASSUME NEW p \in Indexed, UNCHANGED <<rows, writing>>,
           script.now # None /\ script.now.plant = p => script'.now = script.now
    PROVE  /\ SyncPending(p) <=> SyncPending(p)'
           /\ InsertPending(p) => InsertPending(p)'
<1>1. SyncPending(p) <=> SyncPending(p)'
  BY DEF SyncPending, WriterAt
<1>2. InsertPending(p) => InsertPending(p)'
  BY DEF InsertPending, WriterAt
<1> QED BY <1>1, <1>2

\* Steps of the script that touch no plant.
LEMMA IdleScriptClaims ==
    ASSUME Claims, UNCHANGED <<rows, index, writing, unsure>>,
           script.now # None => script'.now = script.now
    PROVE  Claims'
<1> SUFFICES ASSUME NEW p \in Indexed PROVE Claim(p)'
  BY DEF Claims
<1>1. /\ SyncPending(p) <=> SyncPending(p)'
      /\ InsertPending(p) => InsertPending(p)'
  BY PendingKeptByScript
<1> QED BY <1>1, ClaimKept DEF Claims

\* The script's delete leaves its insert to come.
LEMMA ScriptDeleteClaims ==
    ASSUME KnowledgeAssumption, Shape, Claims, NEW item \in script.todo, ScriptDelete(item)
    PROVE  Claims'
<1> SUFFICES ASSUME NEW p \in Indexed PROVE Claim(p)'
  BY DEF Claims
<1>1. script.now = None /\ UNCHANGED <<rows, writing>> /\ item # None
  BY AnItem DEF ScriptDelete
<1>2. index' = [index EXCEPT ![item.plant] = {}]
  BY DEF ScriptDelete, DeletePlant, Cleared
<1>3. CASE item.plant = p
  <2> SUFFICES ASSUME p \notin unsure' PROVE index'[p] = {} /\ ({} = Mirror(rows[p]) \/ InsertPending(p)')
    BY <1>1 DEF Claim
  <2>1. index'[p] = {} /\ item.row = rows[p]
    BY <1>2, <1>3 DEF ScriptDelete, DeletePlant, Shape, IndexTypeOK
  <2>2. ASSUME {} # Mirror(rows[p]) PROVE InsertPending(p)'
    <3>1. script'.now = item
      BY <2>1, <2>2 DEF ScriptDelete, Shape, IndexTypeOK, Script
    <3> QED BY <1>1, <1>3, <2>1, <3>1 DEF InsertPending
  <2> QED BY <2>1, <2>2
<1>4. CASE item.plant # p
  <2>1. index'[p] = index[p] /\ (p \notin unsure' => p \notin unsure)
    BY <1>2, <1>4 DEF ScriptDelete, DeletePlant, Shape, IndexTypeOK
  <2>2. /\ SyncPending(p) <=> SyncPending(p)'
        /\ InsertPending(p) => InsertPending(p)'
    BY <1>1, PendingKeptByScript
  <2> QED BY <1>1, <2>1, <2>2, ClaimKept DEF Claims
<1> QED BY <1>3, <1>4

\* The script's insert makes the index match the row it read, or the plant is in doubt.
LEMMA ScriptInsertClaims ==
    ASSUME KnowledgeAssumption, IdsDistinct, Shape, Claims, ScriptInsert
    PROVE  Claims'
<1> SUFFICES ASSUME NEW p \in Indexed PROVE Claim(p)'
  BY DEF Claims
<1> DEFINE q == script.now.plant
<1>1. UNCHANGED <<rows, writing>> /\ q \in Indexed
  BY AnItem DEF ScriptInsert
<1>2. PICK stored : InsertPlant(q, script.now.row, stored)
  BY DEF ScriptInsert
<1>3. Claim(p)
  BY DEF Claims
<1>4. SyncPending(p) <=> SyncPending(p)'
  BY <1>1 DEF SyncPending, WriterAt
<1>5. CASE q = p
  BY <1>1, <1>2, <1>3, <1>4, <1>5, InsertClaims
<1>6. CASE q # p
  <2>1. index'[p] = index[p] /\ (p \notin unsure' => p \notin unsure)
    BY <1>2, <1>6 DEF InsertPlant, Shape, IndexTypeOK
  <2>2. InsertPending(p) => InsertPending(p)'
    BY <1>1, <1>6, PendingKeptByScript
  <2> QED BY <1>1, <1>3, <1>4, <2>1, <2>2, ClaimKept
<1> QED BY <1>5, <1>6

\* A script that dies leaves the plant it was at in doubt.
LEMMA ScriptDiesClaims ==
    ASSUME Claims, ScriptDies
    PROVE  Claims'
<1> SUFFICES ASSUME NEW p \in Indexed PROVE Claim(p)'
  BY DEF Claims
<1>1. UNCHANGED <<rows, index, writing>> /\ unsure \subseteq unsure'
  BY DEF ScriptDies
<1>2. CASE script.now # None /\ script.now.plant = p
  BY <1>2 DEF ScriptDies, Claim
<1>3. CASE ~(script.now # None /\ script.now.plant = p)
  <2>1. /\ SyncPending(p) <=> SyncPending(p)'
        /\ InsertPending(p) => InsertPending(p)'
    BY <1>1, <1>3, PendingKeptByScript
  <2> QED BY <1>1, <2>1, ClaimKept DEF Claims
<1> QED BY <1>2, <1>3

\* Every step keeps the claims.
LEMMA NextClaims ==
    ASSUME KnowledgeAssumption, IdsDistinct, Shape, Claims, [IndexNext]_indexVars
    PROVE  Claims'
<1>1. CASE UNCHANGED indexVars
  BY <1>1, IdleScriptClaims DEF indexVars
<1>2. ASSUME NEW w \in Writers, NEW p \in Indexed, SubmitWrite(w, p) PROVE Claims'
  <2>1. \A v \in Writers : v # w => writing'[v] = writing[v]
    BY <1>2 DEF SubmitWrite, Shape, IndexTypeOK
  <2>2. ~WriterAt(w, "sync") /\ ~WriterAt(w, "insert") /\ UNCHANGED <<rows, index, script, unsure>>
    BY <1>2 DEF SubmitWrite, WriterAt
  <2> QED BY <2>1, <2>2, EarlyClaims
<1>3. ASSUME NEW w \in Writers, LoadWrite(w) PROVE Claims'
  <2>1. \A v \in Writers : v # w => writing'[v] = writing[v]
    BY <1>3 DEF LoadWrite, Shape, IndexTypeOK
  <2>2. ~WriterAt(w, "sync") /\ ~WriterAt(w, "insert") /\ UNCHANGED <<rows, index, script, unsure>>
    BY <1>3 DEF LoadWrite, WriterAt
  <2> QED BY <2>1, <2>2, EarlyClaims
<1>4. ASSUME NEW all \in BOOLEAN, ScriptStart(all) PROVE Claims'
  <2>1. script.now = None
    BY <1>4 DEF ScriptStart, Shape, ScriptShape
  <2> QED BY <1>4, <2>1, IdleScriptClaims DEF ScriptStart
<1>5. CASE ScriptWipeFaqs
  BY <1>5, IdleScriptClaims DEF ScriptWipeFaqs
<1>6. CASE ScriptInsertFaqs
  <2>1. script.now = None
    BY <1>6 DEF ScriptInsertFaqs, Shape, ScriptShape
  <2> QED BY <1>6, <2>1, IdleScriptClaims DEF ScriptInsertFaqs
<1>7. CASE Deploy
  BY <1>7, IdleScriptClaims DEF Deploy
<1> QED
  BY <1>1, <1>2, <1>3, <1>4, <1>5, <1>6, <1>7, CommitClaims, SyncDeleteClaims, SyncInsertClaims,
     FailClaims, ScriptDeleteClaims, ScriptInsertClaims, ScriptDiesClaims DEF IndexNext

\* When no work on a plant is left, the index holds every piece of its committed
\* text once and nothing else, also after the API and the script have mirrored the
\* plant at the same time; except where a call failed or was based on a row that
\* was no longer the committed one.
THEOREM MirrorIsExact == ASSUME KnowledgeAssumption, IdsDistinct PROVE IndexSpec => []MirrorExact
<1>1. IndexInit => Shape /\ Claims
  BY InitShape, InitClaims
<1>2. Shape /\ Claims /\ [IndexNext]_indexVars => Shape' /\ Claims'
  BY NextShape, NextClaims
<1>3. Shape /\ Claims => MirrorExact
  <2> SUFFICES ASSUME Shape, Claims, NEW p \in Indexed, AtRest(p), p \notin unsure
               PROVE  index[p] = Mirror(rows[p])
    BY DEF MirrorExact
  <2>1. ~SyncPending(p) /\ ~InsertPending(p)
    BY DEF SyncPending, InsertPending, WriterAt, AtRest
  <2> QED BY <2>1 DEF Claims, Claim
<1> QED BY <1>1, <1>2, <1>3, PTL DEF IndexSpec

----------------------------------------------------------------------------
(* A reindex *)

\* What the script has yet to mirror of a plant.
Queued(p) == \/ \E item \in script.todo : item.plant = p
             \/ script.now # None /\ script.now.plant = p

\* While the script indexes plants and none has been written since it began: no
\* request is past its commit, what the script has read is still so, and of each
\* plant it is to index the mirror is exact or is yet to come.
Reindexing ==
    script.stage = "plants" /\ script.quiet =>
        /\ \A w \in Writers : writing[w] # None => writing[w].stage \in {"load", "commit"}
        /\ \A item \in script.todo : item.row = rows[item.plant]
        /\ script.now # None => script.now.row = rows[script.now.plant] /\ index[script.now.plant] = {}
        /\ \A p \in Indexed : rows[p] # None /\ (script.all \/ rows[p].active) =>
                                Queued(p) \/ index[p] = Mirror(rows[p])

\* No reindex is running at first.
LEMMA InitReindexing == ASSUME IndexInit PROVE Reindexing
BY DEF IndexInit, Resting, Reindexing

\* What requests do before they commit is of no consequence.
LEMMA EarlyReindexing ==
    ASSUME Reindexing, UNCHANGED <<rows, index, script>>,
           script.stage = "plants" /\ script.quiet =>
             \A w \in Writers : writing'[w] # None => writing'[w].stage \in {"load", "commit"}
    PROVE  Reindexing'
BY DEF Reindexing, Queued

\* A reindex begins with what is committed: all plants, or the active ones.
LEMMA ScriptStartReindexing ==
    ASSUME Shape, NEW all \in BOOLEAN, ScriptStart(all)
    PROVE  Reindexing'
<1> SUFFICES ASSUME script'.stage = "plants", script'.quiet
             PROVE  /\ \A w \in Writers : writing[w] # None => writing[w].stage \in {"load", "commit"}
                    /\ \A item \in script'.todo : item.row = rows[item.plant]
                    /\ script'.now = None
                    /\ \A p \in Indexed : rows[p] # None /\ (script'.all \/ rows[p].active) => Queued(p)'
  BY DEF Reindexing, ScriptStart
<1>1. /\ script'.todo = Items(all) /\ script'.now = None /\ script'.all = all
      /\ \A w \in Writers : writing[w] = None
  BY DEF ScriptStart
<1>2. \A item \in script'.todo : item.row = rows[item.plant]
  BY <1>1 DEF Items
<1>3. ASSUME NEW p \in Indexed, rows[p] # None, script'.all \/ rows[p].active
      PROVE  Queued(p)'
  <2>1. [plant |-> p, row |-> rows[p]] \in script'.todo
    BY <1>1, <1>3 DEF Items
  <2> QED BY <2>1 DEF Queued
<1> QED BY <1>1, <1>2, <1>3

\* A delete takes a plant out of those still to be indexed.
LEMMA ScriptDeleteReindexing ==
    ASSUME KnowledgeAssumption, Shape, Reindexing, NEW item \in script.todo, ScriptDelete(item)
    PROVE  Reindexing'
<1>1. /\ script.stage = "plants" /\ script.now = None /\ UNCHANGED <<rows, writing>>
      /\ script'.stage = "plants" /\ script'.quiet = script.quiet /\ script'.all = script.all
      /\ script'.todo = script.todo \ {item}
      /\ script'.now = IF Mirror(item.row) = {} THEN None ELSE item
  BY DEF ScriptDelete, Shape, IndexTypeOK, Script
<1>2. index' = [index EXCEPT ![item.plant] = {}] /\ item \in Item /\ item.plant \in Indexed /\ item # None
  BY AnItem DEF ScriptDelete, DeletePlant, Cleared
<1>3. index'[item.plant] = {} /\ \A p \in Indexed : p # item.plant => index'[p] = index[p]
  BY <1>2 DEF Shape, IndexTypeOK
<1> SUFFICES ASSUME script.quiet
             PROVE  /\ \A w \in Writers : writing[w] # None => writing[w].stage \in {"load", "commit"}
                    /\ \A i \in script'.todo : i.row = rows[i.plant]
                    /\ script'.now # None =>
                         script'.now.row = rows[script'.now.plant] /\ index'[script'.now.plant] = {}
                    /\ \A p \in Indexed : rows[p] # None /\ (script.all \/ rows[p].active) =>
                                            Queued(p)' \/ index'[p] = Mirror(rows[p])
  BY <1>1 DEF Reindexing
<1>4. /\ \A w \in Writers : writing[w] # None => writing[w].stage \in {"load", "commit"}
      /\ \A i \in script.todo : i.row = rows[i.plant]
  BY <1>1 DEF Reindexing
<1>5. script'.now # None => script'.now = item
  BY <1>1
<1>6. ASSUME NEW p \in Indexed, rows[p] # None, script.all \/ rows[p].active
      PROVE  Queued(p)' \/ index'[p] = Mirror(rows[p])
  <2>1. Queued(p) \/ index[p] = Mirror(rows[p])
    BY <1>1, <1>6 DEF Reindexing
  <2>2. CASE p = item.plant
    <3>1. Mirror(item.row) = {} => index'[p] = Mirror(rows[p])
      BY <1>3, <1>4, <2>2
    <3>2. Mirror(item.row) # {} => script'.now = item
      BY <1>1
    <3> QED BY <1>2, <2>2, <3>1, <3>2 DEF Queued
  <2>3. CASE p # item.plant
    <3>1. Queued(p) => Queued(p)'
      BY <1>1, <2>3 DEF Queued
    <3> QED BY <1>3, <2>1, <2>3, <3>1
  <2> QED BY <2>2, <2>3
<1> QED BY <1>1, <1>3, <1>4, <1>5, <1>6

\* An insert makes its mirror exact.
LEMMA ScriptInsertReindexing ==
    ASSUME KnowledgeAssumption, IdsDistinct, Shape, Reindexing, ScriptInsert
    PROVE  Reindexing'
<1> DEFINE item == script.now
<1>1. item # None /\ item \in Item /\ item.plant \in Indexed /\ item.row \in PlantRow
      /\ script.stage = "plants" /\ UNCHANGED <<rows, writing>>
  BY AnItem DEF ScriptInsert
<1>2. PICK stored \in SUBSET Mirror(item.row) :
         /\ InsertPlant(item.plant, item.row, stored)
         /\ script' = IF stored = Mirror(item.row) THEN [script EXCEPT !.now = None] ELSE Resting
  BY DEF ScriptInsert
<1>3. CASE stored # Mirror(item.row)
  BY <1>2, <1>3 DEF Resting, Reindexing
<1>4. CASE stored = Mirror(item.row)
  <2>1. /\ script'.stage = "plants" /\ script'.quiet = script.quiet /\ script'.all = script.all
        /\ script'.todo = script.todo /\ script'.now = None
    BY <1>1, <1>2, <1>4 DEF Shape, IndexTypeOK, Script
  <2> SUFFICES ASSUME script.quiet, NEW p \in Indexed, rows[p] # None, script.all \/ rows[p].active
               PROVE  Queued(p)' \/ index'[p] = Mirror(rows[p])
    BY <1>1, <2>1 DEF Reindexing
  <2>2. /\ item.row = rows[item.plant] /\ index[item.plant] = {}
        /\ Queued(p) \/ index[p] = Mirror(rows[p])
    BY <1>1 DEF Reindexing
  <2>3. CASE p = item.plant
    <3>1. index'[p] = Upserted(p, Mirror(item.row))
      BY <1>2, <1>4, <2>3 DEF InsertPlant, Shape, IndexTypeOK
    <3>2. Upserted(p, Mirror(item.row)) = Mirror(item.row)
      BY <1>1, <2>2, <2>3, UpsertCompletes
    <3> QED BY <2>2, <2>3, <3>1, <3>2
  <2>4. CASE p # item.plant
    <3>1. Queued(p) => Queued(p)'
      BY <2>1, <2>4 DEF Queued
    <3>2. index'[p] = index[p]
      BY <1>2, <2>4 DEF InsertPlant, Shape, IndexTypeOK
    <3> QED BY <2>2, <3>1, <3>2
  <2> QED BY <2>3, <2>4
<1> QED BY <1>3, <1>4

\* Every step keeps what a reindex relies on.
LEMMA NextReindexing ==
    ASSUME KnowledgeAssumption, IdsDistinct, Shape, Reindexing, [IndexNext]_indexVars
    PROVE  Reindexing'
<1>1. CASE UNCHANGED indexVars
  BY <1>1 DEF indexVars, Reindexing, Queued
<1>2. ASSUME NEW w \in Writers, NEW p \in Indexed, SubmitWrite(w, p) PROVE Reindexing'
  <2>1. \A v \in Writers : writing'[v] # None => writing'[v] = writing[v] \/ writing'[v].stage \in {"load", "commit"}
    BY <1>2 DEF SubmitWrite, Shape, IndexTypeOK
  <2> QED BY <1>2, <2>1, EarlyReindexing DEF SubmitWrite, Reindexing
<1>3. ASSUME NEW w \in Writers, LoadWrite(w) PROVE Reindexing'
  <2>1. \A v \in Writers : writing'[v] = writing[v] \/ writing'[v].stage = "commit"
    <3>1. writing[w] \in Writing
      BY <1>3, AJob DEF LoadWrite, WriterAt
    <3> QED BY <1>3, <3>1 DEF LoadWrite, Shape, IndexTypeOK, Writing
  <2> QED BY <1>3, <2>1, EarlyReindexing DEF LoadWrite, Reindexing
<1>4. ASSUME NEW w \in Writers, Commit(w) PROVE Reindexing'
  <2>1. script'.quiet = FALSE
    BY <1>4 DEF Commit, Shape, IndexTypeOK, Script
  <2> QED BY <2>1 DEF Reindexing
<1>5. ASSUME NEW w \in Writers, SyncDelete(w) \/ SyncInsert(w) PROVE Reindexing'
  <2>1. script' = script /\ writing[w] # None /\ writing[w].stage \notin {"load", "commit"}
    BY <1>5 DEF SyncDelete, SyncInsert, WriterAt
  <2> QED BY <2>1 DEF Reindexing
<1>6. ASSUME NEW w \in Writers, WriteFails(w) PROVE Reindexing'
  <2>1. \A v \in Writers : writing'[v] # None => writing'[v] = writing[v]
    BY <1>6 DEF WriteFails, Shape, IndexTypeOK
  <2> QED BY <1>6, <2>1, EarlyReindexing DEF WriteFails, Reindexing
<1>7. CASE ScriptWipeFaqs \/ ScriptInsertFaqs \/ ScriptDies
  <2>1. script'.stage # "plants"
    BY <1>7 DEF ScriptWipeFaqs, ScriptInsertFaqs, ScriptDies, Resting, Shape, IndexTypeOK, Script
  <2> QED BY <2>1 DEF Reindexing
<1>8. CASE Deploy
  BY <1>8 DEF Deploy, Reindexing, Queued
<1> QED
  BY <1>1, <1>2, <1>3, <1>4, <1>5, <1>6, <1>7, <1>8, ScriptStartReindexing, ScriptDeleteReindexing,
     ScriptInsertReindexing DEF IndexNext

\* A reindex that comes to the FAQs while no plant has been written since it began
\* has left an exact mirror of all the plants it is for, whatever the index held.
THEOREM AReindexRepairs == ASSUME KnowledgeAssumption, IdsDistinct PROVE IndexSpec => ReindexRepairs
<1>1. IndexInit => Shape /\ Reindexing
  BY InitShape, InitReindexing
<1>2. Shape /\ Reindexing /\ [IndexNext]_indexVars => Shape' /\ Reindexing'
  BY NextShape, NextReindexing
<1>3. Shape /\ Reindexing /\ [IndexNext]_indexVars => [ReindexStep]_indexVars
  <2> SUFFICES ASSUME Shape, Reindexing, IndexNext, script.stage = "plants", script'.stage = "faqs", script.quiet,
                      NEW p \in Indexed, rows[p] # None, script.all \/ rows[p].active
               PROVE  index[p] = Mirror(rows[p])
    BY DEF ReindexStep
  <2>1. script.todo = {} /\ script.now = None
    <3>1. ASSUME NEW w \in Writers,
                 (\E q \in Indexed : SubmitWrite(w, q)) \/ LoadWrite(w) \/ Commit(w) \/ SyncDelete(w) \/ SyncInsert(w) \/ WriteFails(w)
          PROVE  script'.stage = script.stage
      BY <3>1 DEF SubmitWrite, LoadWrite, Commit, SyncDelete, SyncInsert, WriteFails, Shape, IndexTypeOK, Script
    <3>2. ASSUME NEW item \in script.todo, ScriptDelete(item) PROVE script'.stage = script.stage
      BY <3>2 DEF ScriptDelete, Shape, IndexTypeOK, Script
    <3>3. ASSUME ScriptInsert PROVE script'.stage # "faqs"
      <4>1. script' = [script EXCEPT !.now = None] \/ script' = Resting
        BY <3>3 DEF ScriptInsert
      <4> QED BY <4>1 DEF Resting, Shape, IndexTypeOK, Script
    <3>4. CASE ScriptWipeFaqs
      BY <3>4 DEF ScriptWipeFaqs
    <3>5. ASSUME (\E all \in BOOLEAN : ScriptStart(all)) \/ ScriptInsertFaqs \/ ScriptDies \/ Deploy
          PROVE  script'.stage # "faqs"
      BY <3>5 DEF ScriptStart, ScriptInsertFaqs, ScriptDies, Deploy, Resting
    <3> QED BY <3>1, <3>2, <3>3, <3>4, <3>5 DEF IndexNext
  <2> QED BY <2>1 DEF Reindexing, Queued
<1> QED BY <1>1, <1>2, <1>3, PTL DEF IndexSpec, ReindexRepairs

----------------------------------------------------------------------------
(* FAQs *)

\* The index is empty between the wipe and the insertion.
FaqsInv ==
    /\ FaqsOfOneSnapshot
    /\ script.stage = "faqs" => faqIndex = {}

\* Every step keeps the FAQs of one snapshot.
LEMMA NextFaqs ==
    ASSUME KnowledgeAssumption, Shape, FaqsInv, [IndexNext]_indexVars
    PROVE  FaqsInv'
<1>1. ASSUME UNCHANGED faqIndex, script'.stage = "faqs" => script.stage = "faqs"
      PROVE  FaqsInv'
  BY <1>1 DEF FaqsInv, FaqsOfOneSnapshot
<1>2. CASE UNCHANGED indexVars
  BY <1>1, <1>2 DEF indexVars
<1>3. ASSUME NEW w \in Writers,
             (\E p \in Indexed : SubmitWrite(w, p)) \/ LoadWrite(w) \/ Commit(w) \/ SyncDelete(w) \/ SyncInsert(w) \/ WriteFails(w)
      PROVE  FaqsInv'
  <2>1. UNCHANGED faqIndex /\ script'.stage = script.stage
    BY <1>3 DEF SubmitWrite, LoadWrite, Commit, SyncDelete, SyncInsert, WriteFails, Shape, IndexTypeOK, Script
  <2> QED BY <1>1, <2>1
<1>4. ASSUME (\E all \in BOOLEAN : ScriptStart(all)) \/ ScriptDies \/ Deploy
      PROVE  FaqsInv'
  BY <1>1, <1>4 DEF ScriptStart, ScriptDies, Deploy, Resting
<1>5. ASSUME NEW item \in script.todo, ScriptDelete(item) PROVE FaqsInv'
  <2>1. UNCHANGED faqIndex /\ script'.stage = script.stage
    BY <1>5 DEF ScriptDelete, Shape, IndexTypeOK, Script
  <2> QED BY <1>1, <2>1
<1>6. CASE ScriptInsert
  <2>1. UNCHANGED faqIndex /\ (script' = [script EXCEPT !.now = None] \/ script' = Resting)
    BY <1>6 DEF ScriptInsert
  <2> QED BY <1>1, <2>1 DEF Resting, Shape, IndexTypeOK, Script
<1>7. CASE ScriptWipeFaqs
  BY <1>7 DEF ScriptWipeFaqs, Wiped, FaqsInv, FaqsOfOneSnapshot
<1>8. CASE ScriptInsertFaqs
  <2>1. faqIndex = {} /\ script'.stage # "faqs"
    BY <1>8 DEF ScriptInsertFaqs, FaqsInv, Resting
  <2>2. \A o \in faqIndex' : o.of = snapshot
    BY <1>8, <2>1 DEF ScriptInsertFaqs
  <2> QED BY <2>1, <2>2 DEF FaqsInv, FaqsOfOneSnapshot
<1> QED BY <1>2, <1>3, <1>4, <1>5, <1>6, <1>7, <1>8 DEF IndexNext

\* The minimum of two numbers.
LEMMA MinOfTwo ==
    ASSUME NEW k \in Nat, NEW n \in Nat
    PROVE  Min({k, n}) = IF k <= n THEN k ELSE n
<1> DEFINE m == IF k <= n THEN k ELSE n
<1>1. m \in {k, n} /\ \A y \in {k, n} : m <= y
  OBVIOUS
<1>2. \A x \in {k, n} : (\A y \in {k, n} : x <= y) => x = m
  OBVIOUS
<1> QED BY <1>1, <1>2 DEF Min

\* Finitely many objects show finitely many FAQs, and no more than objects.
LEMMA FaqsAreFewer ==
    ASSUME NEW A, IsFiniteSet(A)
    PROVE  IsFiniteSet(Faqs(A)) /\ Cardinality(Faqs(A)) \in Nat
<1> DEFINE g == [o \in A |-> o.faq[1]]
<1>1. g \in Surjection(A, Faqs(A))
  BY DEF Surjection, Faqs
<1> HIDE DEF g
<1> QED BY <1>1, FS_Surjection, FS_CardinalityType

\* Objects of one snapshot show at least half as many FAQs: each has at most one
\* object per language.
LEMMA TwoPerFaq ==
    ASSUME KnowledgeAssumption, IndexTypeOK, FaqsOfOneSnapshot, NEW A \in SUBSET faqIndex, IsFiniteSet(A)
    PROVE  Cardinality(A) <= Cardinality(Faqs(A)) * 2
<1> DEFINE B == Faqs(A) \X Locales
           g == [o \in A |-> o.faq]
<1>1. \A o \in A : \E s \in Snapshots : \E f \in s : o = [faq |-> f, of |-> s]
  BY DEF IndexTypeOK, Faq
<1>2. \A o \in A : o.faq \in {o.faq[1]} \X Locales
  BY <1>1 DEF KnowledgeAssumption
<1>3. g \in [A -> B]
  <2> SUFFICES ASSUME NEW o \in A PROVE o.faq \in B
    OBVIOUS
  <2>1. o.faq[1] \in Faqs(A)
    BY DEF Faqs
  <2> QED BY <1>2, <2>1
<1>4. \A o, n \in A : o.faq = n.faq => o = n
  <2> SUFFICES ASSUME NEW o \in A, NEW n \in A, o.faq = n.faq PROVE o = n
    OBVIOUS
  <2>1. o.of = n.of
    BY DEF FaqsOfOneSnapshot
  <2> QED BY <1>1, <2>1
<1>5. g \in Injection(A, B)
  BY <1>3, <1>4 DEF Injection, IsInjective
<1>6. IsFiniteSet(Faqs(A)) /\ Cardinality(Faqs(A)) \in Nat
  BY FaqsAreFewer
<1>7. IsFiniteSet(Locales) /\ Cardinality(Locales) = 2
  <2>1. IsFiniteSet({"en"}) /\ Cardinality({"en"}) = 1 /\ "vi" \notin {"en"}
    BY FS_Singleton
  <2>2. IsFiniteSet({"en"} \cup {"vi"}) /\ Cardinality({"en"} \cup {"vi"}) = 2
    <3>1. \A S, x : IsFiniteSet(S) =>
             /\ IsFiniteSet(S \cup {x})
             /\ Cardinality(S \cup {x}) = IF x \in S THEN Cardinality(S) ELSE Cardinality(S) + 1
      BY FS_AddElement
    <3>2. IsFiniteSet({"en"} \cup {"vi"}) /\ Cardinality({"en"} \cup {"vi"}) = 1 + 1
      BY <2>1, <3>1, Zenon
    <3> QED BY <3>2
  <2>3. Locales = {"en"} \cup {"vi"}
    BY DEF Locales
  <2> QED BY <2>2, <2>3
<1>8. IsFiniteSet(B) /\ Cardinality(B) = Cardinality(Faqs(A)) * 2
  <2>1. PICK F, L : F = Faqs(A) /\ L = Locales
    OBVIOUS
  <2>2. IsFiniteSet(F \X L) /\ Cardinality(F \X L) = Cardinality(F) * Cardinality(L)
    BY <1>6, <1>7, <2>1, FS_Product
  <2> QED BY <1>7, <2>1, <2>2
<1> HIDE DEF g, B
<1> QED BY <1>5, <1>8, FS_Injection

\* There are finitely many FAQs in the index.
LEMMA FaqIndexFinite ==
    ASSUME KnowledgeAssumption, IndexTypeOK, FaqsOfOneSnapshot
    PROVE  IsFiniteSet(faqIndex)
<1>1. CASE faqIndex = {}
  BY <1>1, FS_EmptySet
<1>2. CASE faqIndex # {}
  <2>1. PICK n \in faqIndex : TRUE
    BY <1>2
  <2>2. \A o \in faqIndex : o.of \in Snapshots /\ o.faq \in o.of /\ o = [faq |-> o.faq, of |-> o.of]
    BY DEF IndexTypeOK, Faq
  <2> DEFINE s == n.of
             g == [o \in faqIndex |-> o.faq]
  <2>3. \A o \in faqIndex : o.of = s
    BY <2>1 DEF FaqsOfOneSnapshot
  <2>4. g \in Injection(faqIndex, s)
    <3>1. g \in [faqIndex -> s]
      BY <2>2, <2>3
    <3>2. \A o, m \in faqIndex : o.faq = m.faq => o = m
      BY <2>2, <2>3
    <3> QED BY <3>1, <3>2 DEF Injection, IsInjective
  <2>5. IsFiniteSet(s)
    BY <2>1, <2>2 DEF KnowledgeAssumption
  <2> HIDE DEF g, s
  <2> QED BY <2>4, <2>5, FS_Injection
<1> QED BY <1>1, <1>2

\* However the index ranks the objects, the 2 * TopK it returns hold TopK FAQs.
LEMMA EnoughIsFetched ==
    ASSUME KnowledgeAssumption, IndexTypeOK, FaqsOfOneSnapshot
    PROVE  FaqAnswerFull
<1> SUFFICES ASSUME NEW locale, NEW got \in Fetched(Matching(locale))
             PROVE  Shown(got) = Min({TopK, Cardinality(Faqs(Matching(locale)))})
  BY DEF FaqAnswerFull
<1> DEFINE all == Matching(locale)
<1>1. all \in SUBSET faqIndex /\ IsFiniteSet(all) /\ TopK \in Nat
  <2>1. all \in SUBSET faqIndex
    BY DEF Matching
  <2> HIDE DEF all
  <2> QED BY <2>1, FaqIndexFinite, FS_Subset DEF KnowledgeAssumption
<1> HIDE DEF all
<1>2. CASE Cardinality(all) < 2 * TopK
  <2>1. got = all
    BY <1>2 DEF Fetched, all
  <2> QED BY <2>1 DEF Shown, all
<1>3. CASE ~(Cardinality(all) < 2 * TopK)
  <2>1. got \in SUBSET all /\ Cardinality(got) = 2 * TopK
    BY <1>3 DEF Fetched, kSubset, all
  <2>2. IsFiniteSet(got) /\ got \in SUBSET faqIndex
    BY <1>1, <2>1, FS_Subset
  <2>3. 2 * TopK <= Cardinality(Faqs(got)) * 2
    BY <2>1, <2>2, TwoPerFaq
  <2>4. /\ Cardinality(Faqs(got)) \in Nat /\ Cardinality(Faqs(all)) \in Nat
        /\ IsFiniteSet(Faqs(all))
    BY <1>1, <2>2, FaqsAreFewer
  <2>5. Faqs(got) \in SUBSET Faqs(all)
    BY <2>1 DEF Faqs
  <2>6. Cardinality(Faqs(got)) <= Cardinality(Faqs(all))
    BY <2>4, <2>5, FS_Subset
  <2>7. TopK <= Cardinality(Faqs(got)) /\ TopK <= Cardinality(Faqs(all))
    BY <1>1, <2>3, <2>4, <2>6
  <2>8. Shown(got) = TopK /\ Min({TopK, Cardinality(Faqs(all))}) = TopK
    BY <1>1, <2>4, <2>7, MinOfTwo DEF Shown
  <2> QED BY <2>8 DEF all
<1> QED BY <1>2, <1>3

\* What holds of the FAQs after any behaviour.
LEMMA FaqsAlways == ASSUME KnowledgeAssumption PROVE IndexSpec => [](Shape /\ FaqsInv)
<1>1. IndexInit => Shape /\ FaqsInv
  <2>1. IndexInit => FaqsInv
    <3>1. ASSUME IndexInit PROVE FaqsInv
      BY <3>1 DEF IndexInit, FaqsInv, FaqsOfOneSnapshot, Resting
    <3> QED BY <3>1
  <2> QED BY <2>1, InitShape
<1>2. Shape /\ FaqsInv /\ [IndexNext]_indexVars => Shape' /\ FaqsInv'
  BY NextShape, NextFaqs
<1> QED BY <1>1, <1>2, PTL DEF IndexSpec

\* The FAQs found are of one snapshot: the old ones are wiped before any new one
\* is inserted, and a script that ends halfway leaves fewer of them.
THEOREM FaqsAreOfOneSnapshot == ASSUME KnowledgeAssumption PROVE IndexSpec => []FaqsOfOneSnapshot
<1>1. Shape /\ FaqsInv => FaqsOfOneSnapshot
  BY DEF FaqsInv
<1> QED BY <1>1, FaqsAlways, PTL

\* A search in both languages, which asks for twice as many objects as it shows
\* FAQs, shows as many as there are to show, whatever objects the index prefers.
THEOREM FaqAnswersAreFull == ASSUME KnowledgeAssumption PROVE IndexSpec => []FaqAnswerFull
<1>1. Shape /\ FaqsInv => FaqAnswerFull
  BY EnoughIsFetched DEF Shape, FaqsInv
<1> QED BY <1>1, FaqsAlways, PTL
=============================================================================
