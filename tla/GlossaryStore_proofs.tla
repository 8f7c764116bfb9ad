------------------------- MODULE GlossaryStore_proofs -------------------------
(***************************************************************************)
(* Lemmas about the row operations of GlossaryStore: which of its          *)
(* predicates each write preserves, and under what condition.  They hold   *)
(* for any identifiers, labels, physical names and relation types.         *)
(***************************************************************************)
EXTENDS GlossaryStore, TLAPS

\* The type of tables whose concepts and variants share their identifiers.
Tables(I, L, P, R) == Glossaries(I, I, L, P, R)

\* An identifier that was never given to a row.
Unused(g, id) == g.concepts[id] = None /\ g.variants[id] = None

-----------------------------------------------------------------------------
(***************************************************************************)
(* delete from concepts.                                                   *)
(***************************************************************************)
\* What a deletion leaves: nothing of the concept, everything of the others.
LEMMA DeleteConceptShape ==
    ASSUME NEW I, NEW L, NEW P, NEW R, NEW g \in Tables(I, L, P, R), NEW c \in I
    PROVE  LET d == DeleteConcept(g, c)
           IN  /\ d \in Tables(I, L, P, R)
               /\ LiveVariants(d) = LiveVariants(g) \ VariantsOf(g, c)
               /\ \A v \in LiveVariants(d) : d.variants[v] = g.variants[v]
               /\ ~ConceptExists(d, c)
               /\ \A x \in I \ {c} :
                     /\ d.concepts[x] = g.concepts[x]
                     /\ ConceptExists(d, x) <=> ConceptExists(g, x)
                     /\ VariantsOf(d, x) = VariantsOf(g, x)
                     /\ d.tagLinks[x] = g.tagLinks[x]
               /\ d.tagLinks[c] = {}
               /\ d.relations = {r \in g.relations : r[1] # c /\ r[3] # c}
<1> DEFINE d == DeleteConcept(g, c)
<1>1. /\ d.concepts = [g.concepts EXCEPT ![c] = None]
      /\ d.variants = [v \in I |-> IF v \in VariantsOf(g, c) THEN None ELSE g.variants[v]]
      /\ d.relations = {r \in g.relations : r[1] # c /\ r[3] # c}
      /\ d.tagLabels = g.tagLabels
      /\ d.tagLinks = [g.tagLinks EXCEPT ![c] = {}]
  BY DEF DeleteConcept, Tables, Glossaries
<1>2. d.concepts \in [I -> ConceptRows(I, L, P) \cup {None}]
  BY <1>1 DEF Tables, Glossaries
<1>3. d.variants \in [I -> VariantRows(I, L) \cup {None}]
  BY <1>1 DEF Tables, Glossaries
<1>4. d \in Tables(I, L, P, R)
  BY <1>1, <1>2, <1>3 DEF Tables, Glossaries, DeleteConcept
<1>5. LiveVariants(d) = LiveVariants(g) \ VariantsOf(g, c)
  BY <1>1 DEF LiveVariants, VariantsOf, Tables, Glossaries
<1>6. \A v \in LiveVariants(d) : d.variants[v] = g.variants[v]
  BY <1>1 DEF LiveVariants
<1>7. ~ConceptExists(d, c)
  BY <1>1 DEF ConceptExists, Tables, Glossaries
<1>8. ASSUME NEW x \in I \ {c}
      PROVE  /\ d.concepts[x] = g.concepts[x]
             /\ ConceptExists(d, x) <=> ConceptExists(g, x)
             /\ d.tagLinks[x] = g.tagLinks[x]
  BY <1>1 DEF ConceptExists, Tables, Glossaries
<1>9. ASSUME NEW x \in I \ {c} PROVE VariantsOf(d, x) = VariantsOf(g, x)
  BY <1>5, <1>6 DEF VariantsOf
<1>10. d.tagLinks[c] = {}
  BY <1>1 DEF Tables, Glossaries
<1> HIDE DEF d
<1> QED BY <1>1, <1>4, <1>5, <1>6, <1>7, <1>8, <1>9, <1>10 DEF d

\* A deletion breaks none of the predicates on the tables.
LEMMA DeleteConceptSafe ==
    ASSUME NEW I, NEW L, NEW P, NEW R, NEW g \in Tables(I, L, P, R), NEW c \in I
    PROVE  LET d == DeleteConcept(g, c)
           IN  /\ d \in Tables(I, L, P, R)
               /\ LiveVariants(d) \subseteq LiveVariants(g)
               /\ d.relations \subseteq g.relations
               /\ \A x \in I : Unused(g, x) => Unused(d, x)
               /\ UniqueLabels(g) => UniqueLabels(d)
               /\ VariantListsAgree(g) => VariantListsAgree(d)
               /\ TagLinksAgree(g) => TagLinksAgree(d)
               /\ OnePrimaryEach(g) => OnePrimaryEach(d)
               /\ UniquePhysicalNames(g) => UniquePhysicalNames(d)
               /\ NoOrphans(g) => NoOrphans(d)
<1> DEFINE d == DeleteConcept(g, c)
<1>1. /\ d \in Tables(I, L, P, R)
      /\ LiveVariants(d) = LiveVariants(g) \ VariantsOf(g, c)
      /\ \A v \in LiveVariants(d) : d.variants[v] = g.variants[v]
      /\ ~ConceptExists(d, c)
      /\ \A x \in I \ {c} :
            /\ d.concepts[x] = g.concepts[x]
            /\ ConceptExists(d, x) <=> ConceptExists(g, x)
            /\ VariantsOf(d, x) = VariantsOf(g, x)
            /\ d.tagLinks[x] = g.tagLinks[x]
      /\ d.tagLinks[c] = {}
      /\ d.relations = {r \in g.relations : r[1] # c /\ r[3] # c}
  BY DeleteConceptShape
<1> HIDE DEF d
<1>2. /\ DOMAIN d.concepts = I /\ DOMAIN g.concepts = I
      /\ DOMAIN d.tagLinks = I /\ DOMAIN g.tagLinks = I
      /\ \A x : VariantsOf(d, x) \subseteq LiveVariants(d)
      /\ \A v \in LiveVariants(g) : g.variants[v].concept \in I \/ g.variants[v] = None
  BY <1>1 DEF Tables, Glossaries, VariantsOf, LiveVariants, VariantRows
<1>3. UniqueLabels(g) => UniqueLabels(d)
  BY <1>1 DEF UniqueLabels
<1>4. VariantListsAgree(g) => VariantListsAgree(d)
  BY <1>1, <1>2 DEF VariantListsAgree
<1>5. TagLinksAgree(g) => TagLinksAgree(d)
  BY <1>1, <1>2 DEF TagLinksAgree
<1>6. OnePrimaryEach(g) => OnePrimaryEach(d)
  <2> SUFFICES ASSUME OnePrimaryEach(g), NEW x \in I, ConceptExists(d, x)
               PROVE  \E v \in VariantsOf(d, x) :
                         \A w \in VariantsOf(d, x) :
                            (d.variants[w].type = "primary"
                               /\ d.variants[w].status = "active") <=> w = v
    BY <1>2 DEF OnePrimaryEach
  <2>1. x # c /\ ConceptExists(g, x) /\ VariantsOf(d, x) = VariantsOf(g, x)
    BY <1>1
  <2>2. \A w \in VariantsOf(d, x) : d.variants[w] = g.variants[w]
    BY <1>1, <1>2
  <2>3. PICK v \in VariantsOf(g, x) :
              \A w \in VariantsOf(g, x) :
                 (g.variants[w].type = "primary"
                    /\ g.variants[w].status = "active") <=> w = v
    BY <1>2, <2>1 DEF OnePrimaryEach
  <2> QED BY <2>1, <2>2, <2>3
<1>7. UniquePhysicalNames(g) => UniquePhysicalNames(d)
  BY <1>1, <1>2 DEF UniquePhysicalNames, PhysicalNameTaken
<1>8. NoOrphans(g) => NoOrphans(d)
  <2> SUFFICES ASSUME NoOrphans(g) PROVE NoOrphans(d)
    OBVIOUS
  <2>1. ASSUME NEW v \in LiveVariants(d) PROVE ConceptExists(d, d.variants[v].concept)
    <3>1. v \in LiveVariants(g) /\ v \notin VariantsOf(g, c)
      BY <1>1
    <3>2. ConceptExists(g, g.variants[v].concept) /\ g.variants[v].concept # c
      BY <3>1 DEF NoOrphans, VariantsOf
    <3>3. g.variants[v].concept \in I
      BY <1>2, <3>2 DEF ConceptExists
    <3> QED BY <1>1, <3>2, <3>3
  <2>2. ASSUME NEW r \in d.relations
        PROVE  ConceptExists(d, r[1]) /\ ConceptExists(d, r[3])
    <3>1. r \in g.relations /\ r[1] # c /\ r[3] # c
      BY <1>1
    <3>2. ConceptExists(g, r[1]) /\ ConceptExists(g, r[3])
      BY <3>1 DEF NoOrphans
    <3>3. r[1] \in I /\ r[3] \in I
      BY <1>2, <3>2 DEF ConceptExists
    <3> QED BY <1>1, <3>1, <3>2, <3>3
  <2>3. ASSUME NEW x \in I, d.tagLinks[x] # {} PROVE ConceptExists(d, x)
    BY <1>1, <1>2, <2>3 DEF NoOrphans
  <2> QED BY <1>2, <2>1, <2>2, <2>3 DEF NoOrphans
<1>9. \A x \in I : Unused(g, x) => Unused(d, x)
  BY DEF Unused, DeleteConcept, Tables, Glossaries, d
<1> QED BY <1>1, <1>3, <1>4, <1>5, <1>6, <1>7, <1>8, <1>9 DEF d

-----------------------------------------------------------------------------
(***************************************************************************)
(* Writing a concept's tags.                                               *)
(***************************************************************************)
\* Only the links of the concept change, and rows of table tags are added.
LEMMA ReplaceConceptTagsShape ==
    ASSUME NEW I, NEW L, NEW P, NEW R, NEW g \in Tables(I, L, P, R), NEW c \in I,
           NEW tags \in SUBSET Tags
    PROVE  LET h == ReplaceConceptTags(g, c, tags)
           IN  /\ h \in Tables(I, L, P, R)
               /\ h.concepts = g.concepts
               /\ h.variants = g.variants
               /\ h.relations = g.relations
               /\ h.tagLinks = [g.tagLinks EXCEPT ![c] = {TagId[t] : t \in tags}]
<1> DEFINE labelFor(i) == CHOOSE t \in tags : TagId[t] = i
           linked == {TagId[t] : t \in tags}
           labels == [i \in TagIds |-> IF g.tagLabels[i] = None /\ i \in linked
                                       THEN labelFor(i) ELSE g.tagLabels[i]]
           h == ReplaceConceptTags(g, c, tags)
<1>1. \A i \in linked : labelFor(i) \in Tags
  OBVIOUS
<1>2. labels \in [TagIds -> Tags \cup {None}]
  <2> HIDE DEF labelFor, linked
  <2> QED BY <1>1 DEF Tables, Glossaries
<1>3. linked \subseteq TagIds
  BY DEF TagIds
<1> DEFINE links == [g.tagLinks EXCEPT ![c] = linked]
           h1 == [g EXCEPT !.tagLinks = links, !.tagLabels = labels]
<1>4. h = h1
  BY DEF ReplaceConceptTags, Tables, Glossaries
<1>5. links \in [I -> SUBSET TagIds]
  <2> HIDE DEF linked
  <2> QED BY <1>3 DEF Tables, Glossaries
<1> HIDE DEF links, labels, h
<1>6. /\ h1 \in Tables(I, L, P, R)
      /\ h1.concepts = g.concepts /\ h1.variants = g.variants
      /\ h1.relations = g.relations /\ h1.tagLinks = links
  BY <1>2, <1>5 DEF Tables, Glossaries
<1> HIDE DEF h1
<1> QED BY <1>4, <1>6 DEF h, links

-----------------------------------------------------------------------------
(***************************************************************************)
(* create_concept.                                                         *)
(***************************************************************************)
\* The two rows create_concept writes.
NewConceptRow(id, term, physical, tags) ==
    [term |-> term, status |-> "active", physical |-> physical, tags |-> tags,
     variants |-> {id}]

NewPrimaryRow(id, term) ==
    [concept |-> id, label |-> term, type |-> "primary", status |-> "active"]

LinksOf(tags) == {TagId[t] : t \in tags}

LEMMA WriteNewConceptShape ==
    ASSUME NEW I, NEW L, NEW P, NEW R, NEW g \in Tables(I, L, P, R), NEW id \in I,
           NEW term \in L, NEW physical \in P \cup {None}, NEW tags \in SUBSET Tags
    PROVE  LET h == WriteNewConcept(g, id, id, term, physical, tags)
               row == NewConceptRow(id, term, physical, tags)
               primary == NewPrimaryRow(id, term)
           IN  /\ h \in Tables(I, L, P, R)
               /\ row \in ConceptRows(I, L, P)
               /\ primary \in VariantRows(I, L)
               /\ h.concepts = [g.concepts EXCEPT ![id] = row]
               /\ h.variants = [g.variants EXCEPT ![id] = primary]
               /\ h.relations = g.relations
               /\ h.tagLinks = [g.tagLinks EXCEPT ![id] = LinksOf(tags)]
<1> DEFINE row == NewConceptRow(id, term, physical, tags)
           primary == NewPrimaryRow(id, term)
           g1 == UpsertConcept(g, id, row)
           g2 == InsertVariant(g1, id, primary)
<1>1. row \in ConceptRows(I, L, P)
  BY DEF NewConceptRow, ConceptRows, ConceptStatuses
<1>2. primary \in VariantRows(I, L)
  BY DEF NewPrimaryRow, VariantRows, VariantTypes, VariantStatuses
<1> HIDE DEF row, primary
<1>3. /\ g1 \in Tables(I, L, P, R)
      /\ g1.concepts = [g.concepts EXCEPT ![id] = row]
      /\ g1.variants = g.variants /\ g1.relations = g.relations
      /\ g1.tagLinks = g.tagLinks
  BY <1>1 DEF UpsertConcept, Tables, Glossaries
<1> HIDE DEF g1
<1>4. /\ g2 \in Tables(I, L, P, R)
      /\ g2.concepts = g1.concepts
      /\ g2.variants = [g1.variants EXCEPT ![id] = primary]
      /\ g2.relations = g1.relations /\ g2.tagLinks = g1.tagLinks
  BY <1>2, <1>3 DEF InsertVariant, Tables, Glossaries
<1> HIDE DEF g2
<1>5. WriteNewConcept(g, id, id, term, physical, tags) = ReplaceConceptTags(g2, id, tags)
  BY DEF WriteNewConcept, row, primary, g1, g2, NewConceptRow, NewPrimaryRow
<1> QED
  BY <1>1, <1>2, <1>3, <1>4, <1>5, ReplaceConceptTagsShape DEF row, primary, LinksOf

\* A new concept under an identifier that was never used breaks none of the
\* predicates, if its label and its physical name are free.
LEMMA WriteNewConceptSafe ==
    ASSUME NEW I, NEW L, NEW P, NEW R, NEW g \in Tables(I, L, P, R), NEW id \in I,
           NEW term \in L, NEW physical \in P \cup {None}, NEW tags \in SUBSET Tags,
           Unused(g, id), NoOrphans(g),
           None \notin ConceptRows(I, L, P), None \notin VariantRows(I, L)
    PROVE  LET h == WriteNewConcept(g, id, id, term, physical, tags)
           IN  /\ h \in Tables(I, L, P, R)
               /\ \A x \in I : Unused(g, x) /\ x # id => Unused(h, x)
               /\ LiveVariants(h) = LiveVariants(g) \cup {id}
               /\ h.relations = g.relations
               /\ ConceptExists(h, id)
               /\ h.variants[id].concept = id /\ h.variants[id].label = term
               /\ NoOrphans(h)
               /\ UniqueLabels(g) /\ ~LabelTaken(g, term) => UniqueLabels(h)
               /\ VariantListsAgree(g) => VariantListsAgree(h)
               /\ TagLinksAgree(g) => TagLinksAgree(h)
               /\ OnePrimaryEach(g) => OnePrimaryEach(h)
               /\ UniquePhysicalNames(g)
                     /\ (physical # None => ~PhysicalNameTaken(g, physical, id))
                  => UniquePhysicalNames(h)
<1> DEFINE row == NewConceptRow(id, term, physical, tags)
           primary == NewPrimaryRow(id, term)
           links == LinksOf(tags)
           h == WriteNewConcept(g, id, id, term, physical, tags)
<1>0. /\ h \in Tables(I, L, P, R)
      /\ row \in ConceptRows(I, L, P) /\ primary \in VariantRows(I, L)
      /\ h.concepts = [g.concepts EXCEPT ![id] = row]
      /\ h.variants = [g.variants EXCEPT ![id] = primary]
      /\ h.relations = g.relations
      /\ h.tagLinks = [g.tagLinks EXCEPT ![id] = links]
  BY WriteNewConceptShape
<1>2. /\ row.physical = physical /\ row.variants = {id} /\ row.tags = tags
      /\ primary.concept = id /\ primary.label = term
      /\ primary.type = "primary" /\ primary.status = "active"
  BY DEF NewConceptRow, NewPrimaryRow
<1> HIDE DEF row, primary, h
<1>1. /\ row # None /\ primary # None
      /\ h.concepts = [g.concepts EXCEPT ![id] = row]
      /\ h.variants = [g.variants EXCEPT ![id] = primary]
      /\ h.relations = g.relations
      /\ h.tagLinks = [g.tagLinks EXCEPT ![id] = links]
  BY <1>0
<1>3. /\ DOMAIN h.concepts = I /\ DOMAIN g.concepts = I
      /\ DOMAIN h.variants = I /\ DOMAIN g.variants = I
      /\ DOMAIN h.tagLinks = I /\ DOMAIN g.tagLinks = I
  BY <1>0 DEF Tables, Glossaries
<1>4. /\ h.concepts[id] = row /\ ConceptExists(h, id)
      /\ h.variants[id] = primary /\ h.tagLinks[id] = links
      /\ ~ConceptExists(g, id) /\ id \notin LiveVariants(g)
  BY <1>1, <1>3 DEF ConceptExists, Unused, LiveVariants
<1>5. \A x \in I \ {id} :
         /\ h.concepts[x] = g.concepts[x] /\ h.tagLinks[x] = g.tagLinks[x]
         /\ ConceptExists(h, x) <=> ConceptExists(g, x)
  BY <1>1, <1>3 DEF ConceptExists
<1>6. LiveVariants(h) = LiveVariants(g) \cup {id}
  BY <1>1, <1>3, <1>4 DEF LiveVariants
<1>7. \A v \in LiveVariants(g) : v # id /\ h.variants[v] = g.variants[v]
  BY <1>1, <1>3, <1>4 DEF LiveVariants
<1>8. \A v \in LiveVariants(g) : g.variants[v].concept # id
  BY <1>4 DEF NoOrphans
<1>9. VariantsOf(h, id) = {id}
  BY <1>2, <1>4, <1>6, <1>7, <1>8 DEF VariantsOf
<1>10. \A x \in I \ {id} : VariantsOf(h, x) = VariantsOf(g, x)
  BY <1>2, <1>4, <1>6, <1>7 DEF VariantsOf
<1>11. NoOrphans(h)
  <2>1. \A x : ConceptExists(g, x) => ConceptExists(h, x)
    BY <1>3, <1>4, <1>5 DEF ConceptExists
  <2>2. \A v \in LiveVariants(h) : ConceptExists(h, h.variants[v].concept)
    BY <1>2, <1>4, <1>6, <1>7, <2>1 DEF NoOrphans
  <2>3. \A r \in h.relations : ConceptExists(h, r[1]) /\ ConceptExists(h, r[3])
    BY <1>1, <2>1 DEF NoOrphans
  <2>4. \A x \in I : h.tagLinks[x] # {} => ConceptExists(h, x)
    BY <1>3, <1>4, <1>5 DEF NoOrphans
  <2> QED BY <1>3, <2>2, <2>3, <2>4 DEF NoOrphans
<1>12. UniqueLabels(g) /\ ~LabelTaken(g, term) => UniqueLabels(h)
  BY <1>2, <1>4, <1>6, <1>7 DEF UniqueLabels, LabelTaken
<1>13. VariantListsAgree(g) => VariantListsAgree(h)
  BY <1>2, <1>3, <1>4, <1>5, <1>9, <1>10 DEF VariantListsAgree
<1>14. TagLinksAgree(g) => TagLinksAgree(h)
  BY <1>2, <1>3, <1>4, <1>5 DEF TagLinksAgree, LinksOf
<1>15. OnePrimaryEach(g) => OnePrimaryEach(h)
  <2> SUFFICES ASSUME OnePrimaryEach(g), NEW x \in I, ConceptExists(h, x)
               PROVE  \E v \in VariantsOf(h, x) :
                         \A w \in VariantsOf(h, x) :
                            (h.variants[w].type = "primary"
                               /\ h.variants[w].status = "active") <=> w = v
    BY <1>3 DEF OnePrimaryEach
  <2>1. CASE x = id
    BY <1>2, <1>4, <1>9, <2>1
  <2>2. CASE x # id
    <3>1. ConceptExists(g, x) /\ VariantsOf(h, x) = VariantsOf(g, x)
      BY <1>5, <1>10, <2>2
    <3>2. \A w \in VariantsOf(g, x) : h.variants[w] = g.variants[w]
      BY <1>7 DEF VariantsOf
    <3>3. PICK v \in VariantsOf(g, x) :
                \A w \in VariantsOf(g, x) :
                   (g.variants[w].type = "primary"
                      /\ g.variants[w].status = "active") <=> w = v
      BY <1>3, <3>1 DEF OnePrimaryEach
    <3> QED BY <3>1, <3>2, <3>3
  <2> QED BY <2>1, <2>2
<1>16. ASSUME UniquePhysicalNames(g),
              physical # None => ~PhysicalNameTaken(g, physical, id)
       PROVE  UniquePhysicalNames(h)
  <2> SUFFICES ASSUME NEW x \in I, ConceptExists(h, x), h.concepts[x].physical # None,
                      NEW y \in I \ {x}, ConceptExists(h, y),
                      h.concepts[y].physical = h.concepts[x].physical
               PROVE  FALSE
    BY <1>3 DEF UniquePhysicalNames, PhysicalNameTaken
  <2>1. CASE x = id
    BY <1>2, <1>3, <1>4, <1>5, <1>16, <2>1 DEF PhysicalNameTaken
  <2>2. CASE y = id
    BY <1>2, <1>3, <1>4, <1>5, <1>16, <2>2 DEF PhysicalNameTaken
  <2>3. CASE x # id /\ y # id
    BY <1>3, <1>5, <1>16, <2>3 DEF UniquePhysicalNames, PhysicalNameTaken
  <2> QED BY <2>1, <2>2, <2>3
<1>17. \A x \in I : Unused(g, x) /\ x # id => Unused(h, x)
  BY <1>1, <1>3 DEF Unused
<1> QED
  BY <1>0, <1>1, <1>2, <1>4, <1>6, <1>11, <1>12, <1>13, <1>14, <1>15, <1>16, <1>17
  DEF h

-----------------------------------------------------------------------------
(***************************************************************************)
(* add_variant.                                                            *)
(***************************************************************************)
\* A new variant of a concept that exists, under an identifier that was never
\* used.  The predicates that relate the concept's row to other tables survive
\* when the row written back is the one in the table.
LEMMA WriteNewVariantSafe ==
    ASSUME NEW I, NEW L, NEW P, NEW R, NEW g \in Tables(I, L, P, R), NEW v \in I,
           NEW c \in I, NEW row \in ConceptRows(I, L, P), NEW label \in L,
           NEW type \in VariantTypes, NEW status \in VariantStatuses,
           Unused(g, v), ConceptExists(g, c),
           None \notin ConceptRows(I, L, P), None \notin VariantRows(I, L)
    PROVE  LET h == WriteNewVariant(g, c, row, v, label, type, status)
           IN  /\ h \in Tables(I, L, P, R)
               /\ \A x \in I : Unused(g, x) /\ x # v => Unused(h, x)
               /\ LiveVariants(h) = LiveVariants(g) \cup {v}
               /\ h.relations = g.relations
               /\ h.variants[v].concept = c /\ h.variants[v].label = label
               /\ NoOrphans(g) => NoOrphans(h)
               /\ UniqueLabels(g) /\ ~LabelTaken(g, label) => UniqueLabels(h)
               /\ VariantListsAgree(g) /\ row = g.concepts[c] => VariantListsAgree(h)
               /\ TagLinksAgree(g) /\ row = g.concepts[c] => TagLinksAgree(h)
               /\ OnePrimaryEach(g) /\ type # "primary" => OnePrimaryEach(h)
               /\ UniquePhysicalNames(g)
                     /\ (row.physical # None => ~PhysicalNameTaken(g, row.physical, c))
                  => UniquePhysicalNames(h)
<1> DEFINE variant == [concept |-> c, label |-> label, type |-> type, status |-> status]
           new == [row EXCEPT !.variants = @ \cup {v}]
           g1 == InsertVariant(g, v, variant)
           h == WriteNewVariant(g, c, row, v, label, type, status)
<1>1. /\ variant \in VariantRows(I, L)
      /\ variant.concept = c /\ variant.label = label /\ variant.type = type
  BY DEF VariantRows
<1>2. /\ new \in ConceptRows(I, L, P)
      /\ new.variants = row.variants \cup {v}
      /\ new.tags = row.tags /\ new.physical = row.physical
  BY DEF ConceptRows
<1>3. h = UpsertConcept(g1, c, new)
  BY DEF WriteNewVariant
<1> HIDE DEF variant, new
<1>4. /\ g1 \in Tables(I, L, P, R)
      /\ g1.concepts = g.concepts /\ g1.variants = [g.variants EXCEPT ![v] = variant]
      /\ g1.relations = g.relations /\ g1.tagLinks = g.tagLinks
  BY <1>1 DEF InsertVariant, Tables, Glossaries
<1> HIDE DEF g1, h
<1>5. /\ h \in Tables(I, L, P, R)
      /\ h.concepts = [g.concepts EXCEPT ![c] = new]
      /\ h.variants = [g.variants EXCEPT ![v] = variant]
      /\ h.relations = g.relations /\ h.tagLinks = g.tagLinks
  BY <1>2, <1>3, <1>4 DEF UpsertConcept, Tables, Glossaries
<1>6. /\ DOMAIN h.concepts = I /\ DOMAIN g.concepts = I
      /\ DOMAIN h.variants = I /\ DOMAIN g.variants = I
      /\ DOMAIN h.tagLinks = I /\ DOMAIN g.tagLinks = I
  BY <1>5 DEF Tables, Glossaries
<1>7. /\ h.concepts[c] = new /\ h.variants[v] = variant
      /\ \A x \in I \ {c} : h.concepts[x] = g.concepts[x]
      /\ \A x \in I \ {v} : h.variants[x] = g.variants[x]
  BY <1>5, <1>6
<1>8. \A x : ConceptExists(h, x) <=> ConceptExists(g, x)
  BY <1>2, <1>6, <1>7 DEF ConceptExists
<1>9. v \notin LiveVariants(g) /\ LiveVariants(h) = LiveVariants(g) \cup {v}
  BY <1>1, <1>6, <1>7 DEF LiveVariants, Unused
<1>10. \A x \in LiveVariants(g) : h.variants[x] = g.variants[x]
  BY <1>6, <1>7, <1>9 DEF LiveVariants
<1>11. VariantsOf(h, c) = VariantsOf(g, c) \cup {v}
  BY <1>1, <1>7, <1>9, <1>10 DEF VariantsOf
<1>12. \A x \in I \ {c} : VariantsOf(h, x) = VariantsOf(g, x)
  BY <1>1, <1>7, <1>9, <1>10 DEF VariantsOf
<1>13. \A x \in I : Unused(g, x) /\ x # v => Unused(h, x)
  BY <1>6, <1>7 DEF Unused, ConceptExists
<1>14. NoOrphans(g) => NoOrphans(h)
  BY <1>1, <1>5, <1>7, <1>8, <1>9, <1>10 DEF NoOrphans
<1>15. UniqueLabels(g) /\ ~LabelTaken(g, label) => UniqueLabels(h)
  BY <1>1, <1>7, <1>9, <1>10 DEF UniqueLabels, LabelTaken
<1>16. VariantListsAgree(g) /\ row = g.concepts[c] => VariantListsAgree(h)
  BY <1>2, <1>6, <1>7, <1>8, <1>11, <1>12 DEF VariantListsAgree
<1>17. TagLinksAgree(g) /\ row = g.concepts[c] => TagLinksAgree(h)
  BY <1>2, <1>5, <1>6, <1>7, <1>8 DEF TagLinksAgree
<1>18. OnePrimaryEach(g) /\ type # "primary" => OnePrimaryEach(h)
  <2> SUFFICES ASSUME OnePrimaryEach(g), type # "primary",
                      NEW x \in I, ConceptExists(h, x)
               PROVE  \E u \in VariantsOf(h, x) :
                         \A w \in VariantsOf(h, x) :
                            (h.variants[w].type = "primary"
                               /\ h.variants[w].status = "active") <=> w = u
    BY <1>6 DEF OnePrimaryEach
  <2>1. PICK u \in VariantsOf(g, x) :
              \A w \in VariantsOf(g, x) :
                 (g.variants[w].type = "primary"
                    /\ g.variants[w].status = "active") <=> w = u
    BY <1>6, <1>8 DEF OnePrimaryEach
  <2>2. \A w \in VariantsOf(g, x) : w # v /\ h.variants[w] = g.variants[w]
    BY <1>9, <1>10 DEF VariantsOf
  <2>3. h.variants[v].type # "primary"
    BY <1>1, <1>7
  <2>4. VariantsOf(g, x) \subseteq VariantsOf(h, x)
        /\ VariantsOf(h, x) \subseteq VariantsOf(g, x) \cup {v}
    BY <1>11, <1>12
  <2> QED BY <2>1, <2>2, <2>3, <2>4
<1>19. ASSUME UniquePhysicalNames(g),
              row.physical # None => ~PhysicalNameTaken(g, row.physical, c)
       PROVE  UniquePhysicalNames(h)
  <2> SUFFICES ASSUME NEW x \in I, ConceptExists(h, x), h.concepts[x].physical # None,
                      NEW y \in I \ {x}, ConceptExists(h, y),
                      h.concepts[y].physical = h.concepts[x].physical
               PROVE  FALSE
    BY <1>6 DEF UniquePhysicalNames, PhysicalNameTaken
  <2>1. CASE x = c
    BY <1>2, <1>6, <1>7, <1>8, <1>19, <2>1 DEF PhysicalNameTaken
  <2>2. CASE y = c
    BY <1>2, <1>6, <1>7, <1>8, <1>19, <2>2 DEF PhysicalNameTaken
  <2>3. CASE x # c /\ y # c
    BY <1>6, <1>7, <1>8, <1>19, <2>3 DEF UniquePhysicalNames, PhysicalNameTaken
  <2> QED BY <2>1, <2>2, <2>3
<1>20. h.variants[v].concept = c /\ h.variants[v].label = label
  BY <1>1, <1>7
<1> QED
  BY <1>5, <1>9, <1>13, <1>14, <1>15, <1>16, <1>17, <1>18, <1>19, <1>20 DEF h

-----------------------------------------------------------------------------
(***************************************************************************)
(* update_concept and create_relation.                                     *)
(***************************************************************************)
\* A row written over a concept, with its tags, touches no variant and no
\* relation.
LEMMA UpdateConceptSafe ==
    ASSUME NEW I, NEW L, NEW P, NEW R, NEW g \in Tables(I, L, P, R), NEW c \in I,
           NEW new \in ConceptRows(I, L, P), None \notin ConceptRows(I, L, P)
    PROVE  LET h == ReplaceConceptTags(UpsertConcept(g, c, new), c, new.tags)
           IN  /\ h \in Tables(I, L, P, R)
               /\ h.variants = g.variants
               /\ \A x \in I \ {c} : Unused(g, x) => Unused(h, x)
               /\ NoOrphans(g) => NoOrphans(h)
               /\ UniqueLabels(g) => UniqueLabels(h)
               /\ VariantListsAgree(g) /\ ConceptExists(g, c)
                     /\ new.variants = g.concepts[c].variants
                  => VariantListsAgree(h)
               /\ TagLinksAgree(g) => TagLinksAgree(h)
               /\ OnePrimaryEach(g) /\ ConceptExists(g, c) => OnePrimaryEach(h)
               /\ UniquePhysicalNames(g)
                     /\ (new.physical # None => ~PhysicalNameTaken(g, new.physical, c))
                  => UniquePhysicalNames(h)
<1> DEFINE g1 == UpsertConcept(g, c, new)
           h == ReplaceConceptTags(g1, c, new.tags)
<1>1. /\ g1 \in Tables(I, L, P, R)
      /\ g1.concepts = [g.concepts EXCEPT ![c] = new] /\ g1.variants = g.variants
      /\ g1.relations = g.relations /\ g1.tagLinks = g.tagLinks
  BY DEF UpsertConcept, Tables, Glossaries
<1>2. new.tags \in SUBSET Tags
  BY DEF ConceptRows
<1> HIDE DEF g1
<1>3. /\ h \in Tables(I, L, P, R)
      /\ h.concepts = [g.concepts EXCEPT ![c] = new] /\ h.variants = g.variants
      /\ h.relations = g.relations
      /\ h.tagLinks = [g.tagLinks EXCEPT ![c] = {TagId[t] : t \in new.tags}]
  BY <1>1, <1>2, ReplaceConceptTagsShape
<1> HIDE DEF h
<1>4. /\ DOMAIN h.concepts = I /\ DOMAIN g.concepts = I
      /\ DOMAIN h.tagLinks = I /\ DOMAIN g.tagLinks = I
  BY <1>3 DEF Tables, Glossaries
<1>5. /\ h.concepts[c] = new /\ ConceptExists(h, c)
      /\ h.tagLinks[c] = {TagId[t] : t \in new.tags}
      /\ \A x \in I \ {c} :
            /\ h.concepts[x] = g.concepts[x] /\ h.tagLinks[x] = g.tagLinks[x]
            /\ ConceptExists(h, x) <=> ConceptExists(g, x)
  BY <1>3, <1>4 DEF ConceptExists
<1>6. LiveVariants(h) = LiveVariants(g) /\ \A x : VariantsOf(h, x) = VariantsOf(g, x)
  BY <1>3 DEF LiveVariants, VariantsOf
<1>7. \A x : ConceptExists(g, x) => ConceptExists(h, x)
  BY <1>4, <1>5 DEF ConceptExists
<1>8. \A x \in I \ {c} : Unused(g, x) => Unused(h, x)
  BY <1>3, <1>5 DEF Unused
<1>9. NoOrphans(g) => NoOrphans(h)
  BY <1>3, <1>4, <1>5, <1>6, <1>7 DEF NoOrphans
<1>10. UniqueLabels(g) => UniqueLabels(h)
  BY <1>3, <1>6 DEF UniqueLabels
<1>11. VariantListsAgree(g) /\ ConceptExists(g, c) /\ new.variants = g.concepts[c].variants
       => VariantListsAgree(h)
  BY <1>4, <1>5, <1>6 DEF VariantListsAgree
<1>12. TagLinksAgree(g) => TagLinksAgree(h)
  BY <1>4, <1>5 DEF TagLinksAgree
<1>13. OnePrimaryEach(g) /\ ConceptExists(g, c) => OnePrimaryEach(h)
  BY <1>3, <1>4, <1>5, <1>6 DEF OnePrimaryEach
<1>14. ASSUME UniquePhysicalNames(g),
              new.physical # None => ~PhysicalNameTaken(g, new.physical, c)
       PROVE  UniquePhysicalNames(h)
  <2> SUFFICES ASSUME NEW x \in I, ConceptExists(h, x), h.concepts[x].physical # None,
                      NEW y \in I \ {x}, ConceptExists(h, y),
                      h.concepts[y].physical = h.concepts[x].physical
               PROVE  FALSE
    BY <1>4 DEF UniquePhysicalNames, PhysicalNameTaken
  <2>1. CASE x = c
    BY <1>4, <1>5, <1>14, <2>1 DEF PhysicalNameTaken
  <2>2. CASE y = c
    BY <1>4, <1>5, <1>14, <2>2 DEF PhysicalNameTaken
  <2>3. CASE x # c /\ y # c
    BY <1>4, <1>5, <1>14, <2>3 DEF UniquePhysicalNames, PhysicalNameTaken
  <2> QED BY <2>1, <2>2, <2>3
<1> QED
  BY <1>3, <1>8, <1>9, <1>10, <1>11, <1>12, <1>13, <1>14 DEF h, g1

\* A relation between two concepts that exist.
LEMMA InsertRelationSafe ==
    ASSUME NEW I, NEW L, NEW P, NEW R, NEW g \in Tables(I, L, P, R),
           NEW from, NEW type \in R, NEW to,
           ConceptExists(g, from), ConceptExists(g, to)
    PROVE  LET h == InsertRelation(g, <<from, type, to>>)
           IN  /\ h \in Tables(I, L, P, R)
               /\ h.concepts = g.concepts /\ h.variants = g.variants
               /\ h.relations = g.relations \cup {<<from, type, to>>}
               /\ NoOrphans(g) => NoOrphans(h)
               /\ UniqueLabels(g) => UniqueLabels(h)
               /\ VariantListsAgree(g) => VariantListsAgree(h)
               /\ TagLinksAgree(g) => TagLinksAgree(h)
               /\ OnePrimaryEach(g) => OnePrimaryEach(h)
               /\ UniquePhysicalNames(g) => UniquePhysicalNames(h)
<1> DEFINE triple == <<from, type, to>>
           h == InsertRelation(g, triple)
<1>1. from \in I /\ to \in I
  BY DEF ConceptExists, Tables, Glossaries
<1>2. /\ triple \in I \X R \X I
      /\ triple[1] = from /\ triple[3] = to
  BY <1>1
<1> HIDE DEF triple
<1>3. /\ h \in Tables(I, L, P, R)
      /\ h.concepts = g.concepts /\ h.variants = g.variants
      /\ h.relations = g.relations \cup {triple} /\ h.tagLinks = g.tagLinks
  BY <1>2 DEF InsertRelation, Tables, Glossaries
<1> HIDE DEF h
<1>4. /\ LiveVariants(h) = LiveVariants(g)
      /\ \A x : VariantsOf(h, x) = VariantsOf(g, x)
      /\ \A x : ConceptExists(h, x) <=> ConceptExists(g, x)
  BY <1>3 DEF LiveVariants, VariantsOf, ConceptExists
<1>5. NoOrphans(g) => NoOrphans(h)
  BY <1>2, <1>3, <1>4 DEF NoOrphans
<1>6. /\ UniqueLabels(g) => UniqueLabels(h)
      /\ VariantListsAgree(g) => VariantListsAgree(h)
      /\ TagLinksAgree(g) => TagLinksAgree(h)
  BY <1>3, <1>4 DEF UniqueLabels, VariantListsAgree, TagLinksAgree
<1>7. OnePrimaryEach(g) => OnePrimaryEach(h)
  BY <1>3, <1>4 DEF OnePrimaryEach
<1>8. UniquePhysicalNames(g) => UniquePhysicalNames(h)
  BY <1>3, <1>4 DEF UniquePhysicalNames, PhysicalNameTaken
<1> QED BY <1>3, <1>5, <1>6, <1>7, <1>8 DEF h, triple
=============================================================================
