---------------------------- MODULE MCCatalogue -----------------------------
(* The instance that TLC checks of the catalogue's edits and of the          *)
(* knowledge index that mirrors it.  A behaviour is one part's: edits of     *)
(* plants and images, edits of categories (no row is shared with plants), or *)
(* the index; `part` is which, and the others stay as they are.              *)
EXTENDS Catalogue, Knowledge, TLC

CONSTANTS p, f1, f2, f3, f4, Hash, Keys

VARIABLE part

Texts == {"en", "vi"} \X {"name", "description", "long_description", "care"}
Block(head, pieces) == [head |-> head, pieces |-> pieces]
Document(name, long, care) ==
    [t \in Texts |-> CASE t = <<"en", "name">> -> name
                       [] t = <<"en", "long_description">> -> long
                       [] t[2] = "care" -> care
                       [] OTHER -> <<>>]

\* Two headings of which only accents differ, and labels that share two fields.
T == INSTANCE PlantText WITH
       Headings <- {"Care", "Cáre", "Name", "Text"},
       Key <- ("Care" :> "care" @@ "Cáre" :> "care" @@ "Name" :> "name" @@ "Text" :> "text" @@ None :> "body"),
       Label <- [t \in Texts |-> CASE t[2] = "name" -> "Name" [] t[2] = "care" -> "Care" [] OTHER -> "Text"]

\* A name, and a text that starts with a hash tag; a text with a heading of its
\* own that shares its key with the care section.
ObjectIds == [d \in {1, 2} |-> T!ObjectIds(
                IF d = 1 THEN Document(<<Block(None, 1)>>, <<Block(Hash, 1)>>, <<>>)
                         ELSE Document(<<>>, <<Block("Cáre", 1)>>, <<Block(None, 1)>>))]

\* Through a definition of their own, which TLC evaluates once.
MCIds == ObjectIds

\* An FAQ is replaced by three; the last of them is not translated.
MCSnapshots == {{<<f1, "en">>}, ({f2, f3} \X {"en", "vi"}) \cup {<<f4, "en">>}}

ASSUME T!PlantTextAssumption /\ KnowledgeAssumption

\* A part whose turn it is not begins in one state.
InitAll ==
    /\ part \in {"plants", "categories", "knowledge"}
    /\ Init
    /\ part # "plants" => plants = [q \in Plants |-> None]
    /\ IndexInit
    /\ part # "knowledge" => rows = [q \in Indexed |-> None] /\ snapshot = {<<f1, "en">>} /\ faqIndex = {}

RequestsFor(ops) == \A r \in Requests : job'[r] # None => job'[r].op \in ops

NextAll ==
    /\ UNCHANGED part
    /\ \/ part = "plants"     /\ Next /\ RequestsFor(Ops \ OfCategories) /\ UNCHANGED indexVars
       \/ part = "categories" /\ Next /\ RequestsFor(OfCategories)       /\ UNCHANGED indexVars
       \/ part = "knowledge"  /\ IndexNext                               /\ UNCHANGED vars

SpecAll == InitAll /\ [][NextAll]_<<part, vars, indexVars>>

Symmetry == Permutations(Requests) \cup Permutations(Plants)  \cup Permutations(Slugs)
=============================================================================
