----------------------------- MODULE PlantText ------------------------------
(***************************************************************************)
(* How the text of a plant becomes objects of the knowledge index          *)
(* (builder.py, plant_indexer.py): one Markdown document per language,     *)
(* split at its headings and then by size, each piece named by a key of    *)
(* its section and a counter.                                              *)
(*                                                                         *)
(* A field is a sequence of blocks: a heading (or None before the first    *)
(* heading) and the number of pieces its text is split into.  Hash heads a *)
(* block that starts with "#" and is no heading of level 1 to 3.           *)
(***************************************************************************)
EXTENDS Nothing, Naturals, Sequences, FiniteSets, SequencesExt

CONSTANTS Headings,   \* section labels, of the code and of the texts
          Keys,       \* what _section_chunk_key makes of them
          Key,        \* that function: not injective, it drops accents and case
          Label,      \* the heading a field is given in a language
          Hash

Locales == {"en", "vi"}
Fields  == <<"name", "description", "long_description", "care">>
Blocks  == [head: Headings \cup {None, Hash}, pieces: Nat]

PlantTextAssumption ==
    /\ Key \in [Headings \cup {None} -> Keys]
    /\ Label \in [Locales \X ToSet(Fields) -> Headings]
    /\ None \notin Headings /\ Hash \notin Headings \cup {None}

\* One field: empty fields vanish, and a text that starts with "#" is kept as it
\* is, every other one is put under the field's label.
FieldBlocks(text, locale, field) ==
    IF text = <<>> \/ Head(text).head # None THEN text
    ELSE <<[Head(text) EXCEPT !.head = Label[<<locale, field>>]]>> \o Tail(text)

\* _plant_content_sections joined: the fields of a language in order.
BuildPlantContent(doc, locale) ==
    FlattenSeq([i \in DOMAIN Fields |-> FieldBlocks(doc[<<locale, Fields[i]>>], locale, Fields[i])])

\* The heading a block stands under: its own, else the last one before it.
SectionOf(blocks, i) ==
    LET headed == {j \in 1 .. i : blocks[j].head # Hash}
    IN IF headed = {} THEN None ELSE blocks[CHOOSE j \in headed : \A k \in headed : k <= j].head

\* Both splitters: the pieces of a document in order, each with its section and
\* whether it continues one (and so repeats its heading).
Pieces(doc, locale) ==
    LET blocks == BuildPlantContent(doc, locale)
    IN FlattenSeq([i \in DOMAIN blocks |->
         [k \in 1 .. blocks[i].pieces |->
            [locale |-> locale, section |-> SectionOf(blocks, i), block |-> i, piece |-> k]]])

PreparePlantChunks(doc) == Pieces(doc, "en") \o Pieces(doc, "vi")

\* Fault: the counter runs per section label, not per key.
CounterKey_Label(chunk) == <<chunk.locale, chunk.section>>

CounterKey(chunk) == <<chunk.locale, Key[chunk.section]>>

\* plant_chunks_to_weaviate_objects: the id is the key and the count of it so far.
ChunkIndex(chunks, i) == Cardinality({j \in 1 .. i - 1 : CounterKey(chunks[j]) = CounterKey(chunks[i])})

\* The ids of a plant's objects, in the order of its chunks.
ObjectIds(doc) ==
    LET chunks == PreparePlantChunks(doc)
    IN [i \in DOMAIN chunks |-> <<chunks[i].locale, Key[chunks[i].section], ChunkIndex(chunks, i)>>]
=============================================================================
