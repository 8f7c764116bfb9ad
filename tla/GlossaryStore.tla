---------------------------- MODULE GlossaryStore ----------------------------
(***************************************************************************)
(* The glossary tables and the row operations of services/glossary_rows.py *)
(* with the constraints storage/schema.sql puts on them.  Everything here  *)
(* is a pure operator on a glossary value                                  *)
(*                                                                         *)
(*   g.concepts  : concept id -> row of table concepts, or None            *)
(*   g.variants  : variant id -> row of table term_variants, or None       *)
(*   g.relations : rows of table concept_relations; the primary key is a   *)
(*                 hash of the whole triple, so a set of triples           *)
(*   g.tagLabels : tag id -> label of the row of table tags, or None       *)
(*   g.tagLinks  : concept id -> tag ids linked through concept_tags       *)
(*                                                                         *)
(* A concept row keeps [term, status, physical, tags, variants]: `variants'*)
(* is the list of variant ids stored as JSON in the concept's own row,     *)
(* `tags' the list of tags stored there.  Labels stand for normalized      *)
(* labels, physical names for their case-insensitive class.  Definition,   *)
(* term type, owner, scope note, source document and timestamps are left   *)
(* out: no guard reads them.                                               *)
(***************************************************************************)
EXTENDS Naturals

CONSTANTS
    None,       \* the absent row, and SQL null
    TagId       \* tag label -> its id: a slug, so two labels may share one

Tags == DOMAIN TagId

TagIds == {TagId[t] : t \in Tags}

\* A label that normalize_label refuses (nothing but white space).
Blank == ""

ConceptStatuses == {"active", "deprecated", "forbidden"}

VariantTypes == {"primary", "alias", "forbidden", "deprecated", "abbreviation"}

VariantStatuses == {"active", "deprecated", "forbidden"}

\* The rows and the tables over given sets of identifiers and labels.
ConceptRows(V, L, P) ==
    [term : L, status : ConceptStatuses, physical : P \cup {None},
     tags : SUBSET Tags, variants : SUBSET V]

VariantRows(C, L) ==
    [concept : C, label : L, type : VariantTypes, status : VariantStatuses]

Glossaries(C, V, L, P, R) ==
    [concepts  : [C -> ConceptRows(V, L, P) \cup {None}],
     variants  : [V -> VariantRows(C, L) \cup {None}],
     relations : SUBSET (C \X R \X C),
     tagLabels : [TagIds -> Tags \cup {None}],
     tagLinks  : [C -> SUBSET TagIds]]

-----------------------------------------------------------------------------
(***************************************************************************)
(* Reads.                                                                  *)
(***************************************************************************)
\* find_concept: an identifier the table has never seen is simply not found.
ConceptExists(g, c) == c \in DOMAIN g.concepts /\ g.concepts[c] # None

LiveVariants(g) == {v \in DOMAIN g.variants : g.variants[v] # None}

VariantsOf(g, c) == {v \in LiveVariants(g) : g.variants[v].concept = c}

\* ensure_label_available looks at term_variants only, never at the concepts'
\* own primary terms.
LabelTaken(g, label) == \E v \in LiveVariants(g) : g.variants[v].label = label

\* ensure_physical_name_available, and the unique index of schema version 5.
PhysicalNameTaken(g, name, exclude) ==
    \E c \in DOMAIN g.concepts \ {exclude} :
        ConceptExists(g, c) /\ g.concepts[c].physical = name

PrimaryVariantTaken(g, c) ==
    \E v \in VariantsOf(g, c) :
        g.variants[v].type = "primary" /\ g.variants[v].status = "active"

-----------------------------------------------------------------------------
(***************************************************************************)
(* Writes.                                                                 *)
(***************************************************************************)
\* delete from concepts: variants, tag links and relations go with the row
\* (on delete cascade).
DeleteConcept(g, c) ==
    [concepts  |-> [g.concepts EXCEPT ![c] = None],
     variants  |-> [v \in DOMAIN g.variants |->
                        IF v \in VariantsOf(g, c) THEN None ELSE g.variants[v]],
     relations |-> {r \in g.relations : r[1] # c /\ r[3] # c},
     tagLabels |-> g.tagLabels,
     tagLinks  |-> [g.tagLinks EXCEPT ![c] = {}]]

\* Mutant: `insert or replace', which deletes the old row first and cascades.
ReplaceConcept(g, c, row) == [DeleteConcept(g, c) EXCEPT !.concepts[c] = row]

UpsertConcept(g, c, row) == [g EXCEPT !.concepts[c] = row]

InsertVariant(g, v, row) == [g EXCEPT !.variants[v] = row]

\* Two labels with one id break the primary key of concept_tags.
TagsCollide(tags) == \E t, u \in tags : t # u /\ TagId[t] = TagId[u]

\* The links are rewritten; a tag row that is there keeps its label (insert or
\* ignore), whoever's label that was.
ReplaceConceptTags(g, c, tags) ==
    LET labelFor(i) == CHOOSE t \in tags : TagId[t] = i
        linked == {TagId[t] : t \in tags}
    IN  [g EXCEPT !.tagLinks[c] = linked,
                  !.tagLabels = [i \in TagIds |->
                      IF @[i] = None /\ i \in linked THEN labelFor(i) ELSE @[i]]]

InsertRelation(g, triple) == [g EXCEPT !.relations = @ \cup {triple}]

(***************************************************************************)
(* The statements GlossaryService issues inside one transaction.           *)
(***************************************************************************)
\* create_concept: the concept row, its primary variant and its tag links.
WriteNewConcept(g, c, v, term, physical, tags) ==
    LET row == [term |-> term, status |-> "active", physical |-> physical,
                tags |-> tags, variants |-> {v}]
        primary == [concept |-> c, label |-> term, type |-> "primary",
                    status |-> "active"]
    IN  ReplaceConceptTags(
            InsertVariant(UpsertConcept(g, c, row), v, primary), c, tags)

\* Mutant: the new id is not appended to the row's own list.
WriteUnlistedVariant(g, c, row, v, label, type, status) ==
    LET variant == [concept |-> c, label |-> label, type |-> type,
                    status |-> status]
    IN  UpsertConcept(InsertVariant(g, v, variant), c, row)

\* add_variant: the variant row, then the whole concept row as it was READ
\* (`row'), with the new variant's id appended.
WriteNewVariant(g, c, row, v, label, type, status) ==
    LET variant == [concept |-> c, label |-> label, type |-> type,
                    status |-> status]
    IN  UpsertConcept(InsertVariant(g, v, variant), c,
                      [row EXCEPT !.variants = @ \cup {v}])

-----------------------------------------------------------------------------
(***************************************************************************)
(* State predicates on a glossary, the vocabulary of the properties.       *)
(***************************************************************************)
\* No two variants carry the same normalized label.
UniqueLabels(g) ==
    \A v, w \in LiveVariants(g) :
        g.variants[v].label = g.variants[w].label => v = w

\* The variant ids a concept's row lists are exactly its rows in term_variants.
VariantListsAgree(g) ==
    \A c \in DOMAIN g.concepts :
        ConceptExists(g, c) => g.concepts[c].variants = VariantsOf(g, c)

\* The links of a concept are those of the tags its row lists.
TagLinksAgree(g) ==
    \A c \in DOMAIN g.concepts :
        ConceptExists(g, c) =>
            g.tagLinks[c] = {TagId[t] : t \in g.concepts[c].tags}

\* A concept that exists has one active primary variant.
OnePrimaryEach(g) ==
    \A c \in DOMAIN g.concepts :
        ConceptExists(g, c) =>
            \E v \in VariantsOf(g, c) :
                \A w \in VariantsOf(g, c) :
                    (g.variants[w].type = "primary"
                       /\ g.variants[w].status = "active") <=> w = v

\* No two concepts have the same physical name.
UniquePhysicalNames(g) ==
    \A c \in DOMAIN g.concepts :
        ConceptExists(g, c) /\ g.concepts[c].physical # None
        => ~PhysicalNameTaken(g, g.concepts[c].physical, c)

\* Every variant, tag link and relation belongs to concepts that exist.
NoOrphans(g) ==
    /\ \A v \in LiveVariants(g) : ConceptExists(g, g.variants[v].concept)
    /\ \A r \in g.relations : ConceptExists(g, r[1]) /\ ConceptExists(g, r[3])
    /\ \A c \in DOMAIN g.tagLinks : g.tagLinks[c] # {} => ConceptExists(g, c)
=============================================================================
