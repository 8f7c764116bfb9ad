---------------------------- MODULE Glossary_proofs ----------------------------
(***************************************************************************)
(* Proofs about Glossary: whatever the requests and however they overlap,  *)
(* the tables keep their types, no row refers to a concept that is gone,   *)
(* no two concepts share a physical name, and a variant only goes with its *)
(* concept; and as long as requests never overlap, the concept rows and    *)
(* the tables beside them stay in step.                                    *)
(***************************************************************************)
EXTENDS Glossary, GlossaryStore_proofs

InFlight(e) == pc[e] # "idle"

\* Ids no row has yet: those of requests in flight, and those not given out.
PendingIds ==
    {ticket[e] : e \in {f \in Editors : InFlight(f)}} \cup (requests + 1 .. MaxRequests)

-----------------------------------------------------------------------------
(***************************************************************************)
(* The inductive invariant.                                                *)
(***************************************************************************)
\* A request in flight has a command and a number of its own.
RequestsWellFormed ==
    \A e \in Editors : InFlight(e) =>
        /\ cmd[e] \in Commands
        /\ ticket[e] \in 1 .. requests
        /\ \A f \in Editors \ {e} : InFlight(f) => ticket[f] # ticket[e]

\* A request that starts with a read has found its concept, once it is past
\* it: the concept may be gone again, but its id is no id still to be used.
PastItsRead ==
    \A e \in Editors :
        /\ pc[e] \in {"label", "place", "write"}
              /\ cmd[e].op \in {"update", "variant"}
           => row[e] \in ConceptRows(RowIds, Labels, PhysicalNames)
        /\ pc[e] \in {"label", "place", "write"}
              /\ cmd[e].op \in {"update", "variant", "delete"}
           => cmd[e].concept \in RowIds \ PendingIds
        /\ pc[e] \in {"label", "place"} => cmd[e].op \in {"create", "update", "variant"}

\* The label a request is about to write is not blank.
PastItsLabel ==
    \A e \in Editors :
        pc[e] \in {"place", "write"} /\ cmd[e].op \in {"create", "update", "variant"}
        => LabelToCheck(cmd[e], row[e]) # Blank

PendingIdsUnused == \A id \in PendingIds : Unused(glossary, id)

\* The tables, whatever the interleaving.
TablesSound == UniquePhysicalNames(glossary) /\ NoOrphans(glossary)

IInv ==
    /\ TypeOK
    /\ RequestsWellFormed
    /\ PastItsRead
    /\ PastItsLabel
    /\ PendingIdsUnused
    /\ TablesSound

\* While requests have not overlapped, what a request has read is still so.
ReadsStillTrue ==
    \A e \in Editors :
        /\ \A f \in Editors : InFlight(e) /\ InFlight(f) => e = f
        /\ pc[e] \in {"label", "place", "write"}
              /\ cmd[e].op \in {"update", "variant"}
           => /\ ConceptExists(glossary, cmd[e].concept)
              /\ row[e] = glossary.concepts[cmd[e].concept]
        /\ pc[e] \in {"place", "write"} /\ cmd[e].op \in {"create", "variant"}
           => ~LabelTaken(glossary, LabelToCheck(cmd[e], row[e]))
        /\ pc[e] = "write" /\ cmd[e].op = "variant" /\ cmd[e].type = "primary"
           => ~PrimaryVariantTaken(glossary, cmd[e].concept)

InStep(g) ==
    VariantListsAgree(g) /\ TagLinksAgree(g) /\ OnePrimaryEach(g) /\ UniqueLabels(g)

SerialInv == serial => ReadsStillTrue /\ InStep(glossary)

-----------------------------------------------------------------------------
(***************************************************************************)
(* What a transaction writes.                                              *)
(***************************************************************************)
\* Everything the rest of the proof needs to know of the tables `h' a write
\* leaves, when the request of number `id' writes over the tables `g'.
GoodWrite(g, h, id) ==
    /\ h \in GlossaryType
    /\ NoOrphans(h)
    /\ UniquePhysicalNames(h)
    /\ \A x \in PendingIds \ {id} : Unused(h, x)
    /\ \A v \in LiveVariants(g) \ LiveVariants(h) :
          ~ConceptExists(h, g.variants[v].concept)

LEMMA PendingIdsAreRowIds ==
    ASSUME TypeOK, RequestsWellFormed
    PROVE  PendingIds \subseteq 1 .. MaxRequests /\ 1 .. MaxRequests \subseteq RowIds
  BY MaxRequestsAssumption DEF PendingIds, TypeOK, RequestsWellFormed, RowIds

LEMMA CreateIsGood ==
    ASSUME IInv, NEW e \in Editors, pc[e] = "write", cmd[e].op = "create",
           ~ConstraintError(glossary, cmd[e], row[e], ticket[e])
    PROVE  LET h == Written(glossary, cmd[e], row[e], ticket[e])
           IN  /\ GoodWrite(glossary, h, ticket[e])
               /\ serial /\ SerialInv => InStep(h)
<1> DEFINE term == cmd[e].term
           physical == CleanOptional(cmd[e].physical)
           tags == cmd[e].tags
           id == ticket[e]
           h == WriteNewConcept(glossary, id, id, term, physical, tags)
<1>1. /\ term \in Labels \cup {Blank} /\ tags \in SUBSET Tags
      /\ cmd[e].physical \in PhysicalNames \cup {Blank, None}
  BY CommandsAssumption DEF IInv, RequestsWellFormed, InFlight
<1>2. physical \in PhysicalNames \cup {None}
  BY <1>1 DEF CleanOptional
<1>3. LabelToCheck(cmd[e], row[e]) = term
  BY DEF LabelToCheck
<1>4. term \in Labels /\ term # None
  BY <1>1, <1>3, RowAssumption DEF IInv, PastItsLabel
<1>5. id \in PendingIds /\ id \in RowIds /\ Unused(glossary, id)
  BY PendingIdsAreRowIds DEF IInv, PendingIds, InFlight, PendingIdsUnused
<1>6. physical # None => ~PhysicalNameTaken(glossary, physical, id)
  BY DEF ConstraintError
<1>7. Written(glossary, cmd[e], row[e], id) = h
  BY DEF Written
<1>8. glossary \in Tables(RowIds, Labels, PhysicalNames, RelationTypes)
      /\ NoOrphans(glossary) /\ UniquePhysicalNames(glossary)
  BY DEF IInv, TypeOK, GlossaryType, Tables, TablesSound
<1> HIDE DEF term, physical, tags, id, h
<1>9. /\ h \in Tables(RowIds, Labels, PhysicalNames, RelationTypes)
      /\ \A x \in RowIds : Unused(glossary, x) /\ x # id => Unused(h, x)
      /\ LiveVariants(h) = LiveVariants(glossary) \cup {id}
      /\ NoOrphans(h)
      /\ UniqueLabels(glossary) /\ ~LabelTaken(glossary, term) => UniqueLabels(h)
      /\ VariantListsAgree(glossary) => VariantListsAgree(h)
      /\ TagLinksAgree(glossary) => TagLinksAgree(h)
      /\ OnePrimaryEach(glossary) => OnePrimaryEach(h)
      /\ UniquePhysicalNames(h)
  BY <1>1, <1>2, <1>4, <1>5, <1>6, <1>8, RowAssumption, WriteNewConceptSafe DEF h
<1>10. GoodWrite(glossary, h, id)
  BY <1>9, PendingIdsAreRowIds
  DEF GoodWrite, GlossaryType, Tables, IInv, PendingIdsUnused
<1>11. serial /\ SerialInv => ~LabelTaken(glossary, term)
  BY <1>3 DEF SerialInv, ReadsStillTrue, term
<1> QED
  BY <1>7, <1>9, <1>10, <1>11 DEF SerialInv, InStep, id

\* The row an update writes: the one it read, with the fields of the patch.
LEMMA PatchedRow ==
    ASSUME NEW command \in Commands, command.op = "update",
           NEW old \in ConceptRows(RowIds, Labels, PhysicalNames),
           LabelToCheck(command, old) # Blank
    PROVE  LET new == Patched(old, command.patch)
           IN  /\ new \in ConceptRows(RowIds, Labels, PhysicalNames)
               /\ new.variants = old.variants
<1> DEFINE patch == command.patch
           new == Patched(old, patch)
           term == IF "term" \in DOMAIN patch THEN patch["term"] ELSE old.term
           status == IF "status" \in DOMAIN patch THEN patch["status"] ELSE old.status
           physical == IF "physical" \in DOMAIN patch
                       THEN CleanOptional(patch["physical"]) ELSE old.physical
           tags == IF "tags" \in DOMAIN patch THEN patch["tags"] ELSE old.tags
<1>1. /\ "term" \in DOMAIN patch => patch["term"] \in Labels \cup {Blank}
      /\ "status" \in DOMAIN patch => patch["status"] \in ConceptStatuses
      /\ "physical" \in DOMAIN patch => patch["physical"] \in PhysicalNames \cup {Blank, None}
      /\ "tags" \in DOMAIN patch => patch["tags"] \in SUBSET Tags
  BY CommandsAssumption
<1>2. /\ old.term \in Labels /\ old.status \in ConceptStatuses
      /\ old.physical \in PhysicalNames \cup {None} /\ old.tags \in SUBSET Tags
  BY DEF ConceptRows
<1>3. new = [old EXCEPT !.term = term, !.status = status, !.physical = physical,
                        !.tags = tags]
  BY DEF Patched
<1>4. term \in Labels \cup {Blank} /\ status \in ConceptStatuses /\ tags \in SUBSET Tags
  BY <1>1, <1>2
<1>5. physical \in PhysicalNames \cup {None}
  BY <1>1, <1>2 DEF CleanOptional
<1> HIDE DEF term, status, physical, tags, patch
<1>6. new.term = term
  BY <1>3 DEF ConceptRows
<1>7. LabelToCheck(command, old) = IF new.term = old.term THEN None ELSE new.term
  BY DEF LabelToCheck, patch
<1>8. term \in Labels
  BY <1>2, <1>4, <1>6, <1>7, RowAssumption
<1>9. /\ new \in ConceptRows(RowIds, Labels, PhysicalNames)
      /\ new.variants = old.variants
  BY <1>3, <1>4, <1>5, <1>8 DEF ConceptRows
<1> QED BY <1>9 DEF patch

LEMMA UpdateIsGood ==
    ASSUME IInv, NEW e \in Editors, pc[e] = "write", cmd[e].op = "update",
           ~ConstraintError(glossary, cmd[e], row[e], ticket[e])
    PROVE  LET h == Written(glossary, cmd[e], row[e], ticket[e])
           IN  /\ GoodWrite(glossary, h, ticket[e])
               /\ serial /\ SerialInv => InStep(h)
<1> DEFINE c == cmd[e].concept
           new == Patched(row[e], cmd[e].patch)
           h == ReplaceConceptTags(UpsertConcept(glossary, c, new), c, new.tags)
<1>1. cmd[e] \in Commands /\ row[e] \in ConceptRows(RowIds, Labels, PhysicalNames)
  BY DEF IInv, RequestsWellFormed, InFlight, PastItsRead
<1>2. LabelToCheck(cmd[e], row[e]) # Blank
  BY DEF IInv, PastItsLabel
<1>3. new \in ConceptRows(RowIds, Labels, PhysicalNames) /\ new.variants = row[e].variants
  BY <1>1, <1>2, PatchedRow
<1>4. c \in RowIds \ PendingIds
  BY DEF IInv, PastItsRead
<1>5. new.physical # None => ~PhysicalNameTaken(glossary, new.physical, c)
  BY DEF ConstraintError
<1>6. Written(glossary, cmd[e], row[e], ticket[e]) = h
  BY DEF Written
<1>7. glossary \in Tables(RowIds, Labels, PhysicalNames, RelationTypes)
      /\ NoOrphans(glossary) /\ UniquePhysicalNames(glossary)
  BY DEF IInv, TypeOK, GlossaryType, Tables, TablesSound
<1> HIDE DEF c, new, h
<1>8. /\ h \in Tables(RowIds, Labels, PhysicalNames, RelationTypes)
      /\ h.variants = glossary.variants
      /\ \A x \in RowIds \ {c} : Unused(glossary, x) => Unused(h, x)
      /\ NoOrphans(h)
      /\ UniqueLabels(glossary) => UniqueLabels(h)
      /\ VariantListsAgree(glossary) /\ ConceptExists(glossary, c)
            /\ new.variants = glossary.concepts[c].variants
         => VariantListsAgree(h)
      /\ TagLinksAgree(glossary) => TagLinksAgree(h)
      /\ OnePrimaryEach(glossary) /\ ConceptExists(glossary, c) => OnePrimaryEach(h)
      /\ UniquePhysicalNames(h)
  BY <1>3, <1>4, <1>5, <1>7, RowAssumption, UpdateConceptSafe DEF h
<1>9. GoodWrite(glossary, h, ticket[e])
  BY <1>4, <1>8, PendingIdsAreRowIds
  DEF GoodWrite, GlossaryType, Tables, IInv, PendingIdsUnused, LiveVariants
<1>10. serial /\ SerialInv =>
         ConceptExists(glossary, c) /\ row[e] = glossary.concepts[c]
  BY DEF SerialInv, ReadsStillTrue, c
<1> QED
  BY <1>3, <1>6, <1>8, <1>9, <1>10 DEF SerialInv, InStep

LEMMA VariantIsGood ==
    ASSUME IInv, NEW e \in Editors, pc[e] = "write", cmd[e].op = "variant",
           ~ConstraintError(glossary, cmd[e], row[e], ticket[e])
    PROVE  LET h == Written(glossary, cmd[e], row[e], ticket[e])
           IN  /\ GoodWrite(glossary, h, ticket[e])
               /\ serial /\ SerialInv => InStep(h)
<1> DEFINE c == cmd[e].concept
           label == cmd[e].label
           type == cmd[e].type
           id == ticket[e]
           old == row[e]
           h == WriteNewVariant(glossary, c, old, id, label, type, "active")
<1>1. label \in Labels \cup {Blank} /\ type \in VariantTypes
  BY CommandsAssumption DEF IInv, RequestsWellFormed, InFlight
<1>2. LabelToCheck(cmd[e], old) = label
  BY DEF LabelToCheck
<1>3. label \in Labels
  BY <1>1, <1>2 DEF IInv, PastItsLabel
<1>4. old \in ConceptRows(RowIds, Labels, PhysicalNames) /\ c \in RowIds \ PendingIds
  BY DEF IInv, PastItsRead
<1>5. /\ ConceptExists(glossary, c)
      /\ old.physical # None => ~PhysicalNameTaken(glossary, old.physical, c)
  BY DEF ConstraintError
<1>6. id \in PendingIds /\ id \in RowIds /\ Unused(glossary, id)
  BY PendingIdsAreRowIds DEF IInv, PendingIds, InFlight, PendingIdsUnused
<1>7. Written(glossary, cmd[e], row[e], id) = h
  BY DEF Written
<1>8. glossary \in Tables(RowIds, Labels, PhysicalNames, RelationTypes)
      /\ NoOrphans(glossary) /\ UniquePhysicalNames(glossary)
  BY DEF IInv, TypeOK, GlossaryType, Tables, TablesSound
<1> HIDE DEF c, label, type, id, old, h
<1>9. /\ h \in Tables(RowIds, Labels, PhysicalNames, RelationTypes)
      /\ \A x \in RowIds : Unused(glossary, x) /\ x # id => Unused(h, x)
      /\ LiveVariants(h) = LiveVariants(glossary) \cup {id}
      /\ NoOrphans(h)
      /\ UniqueLabels(glossary) /\ ~LabelTaken(glossary, label) => UniqueLabels(h)
      /\ VariantListsAgree(glossary) /\ old = glossary.concepts[c] => VariantListsAgree(h)
      /\ TagLinksAgree(glossary) /\ old = glossary.concepts[c] => TagLinksAgree(h)
      /\ OnePrimaryEach(glossary) /\ type # "primary" => OnePrimaryEach(h)
      /\ UniquePhysicalNames(h)
  <2>1. "active" \in VariantStatuses
    BY DEF VariantStatuses
  <2> QED
    BY <1>1, <1>3, <1>4, <1>5, <1>6, <1>8, <2>1, RowAssumption, WriteNewVariantSafe DEF h
<1>10. GoodWrite(glossary, h, id)
  BY <1>9, PendingIdsAreRowIds
  DEF GoodWrite, GlossaryType, Tables, IInv, PendingIdsUnused
<1>11. ASSUME serial, SerialInv PROVE InStep(h)
  <2>1. ReadsStillTrue /\ InStep(glossary)
    BY <1>11 DEF SerialInv
  <2>2. old = glossary.concepts[c] /\ ~LabelTaken(glossary, label)
    BY <1>2, <2>1 DEF ReadsStillTrue, old, c
  <2>3. type # "primary"
    <3>1. PrimaryVariantTaken(glossary, c)
      BY <1>5, <2>1 DEF InStep, OnePrimaryEach, PrimaryVariantTaken, ConceptExists
    <3>2. type = "primary" => ~PrimaryVariantTaken(glossary, c)
      BY <2>1 DEF ReadsStillTrue, type, c
    <3> QED BY <3>1, <3>2
  <2> QED BY <1>9, <2>1, <2>2, <2>3 DEF InStep
<1> QED BY <1>7, <1>10, <1>11 DEF id

LEMMA RelationIsGood ==
    ASSUME IInv, NEW e \in Editors, pc[e] = "write", cmd[e].op = "relation",
           ~ConstraintError(glossary, cmd[e], row[e], ticket[e])
    PROVE  LET h == Written(glossary, cmd[e], row[e], ticket[e])
           IN  /\ GoodWrite(glossary, h, ticket[e])
               /\ serial /\ SerialInv => InStep(h)
<1> DEFINE from == cmd[e].source
           to == cmd[e].target
           type == cmd[e].type
           h == InsertRelation(glossary, <<from, type, to>>)
<1>1. type \in RelationTypes
  BY CommandsAssumption DEF IInv, RequestsWellFormed, InFlight
<1>2. ConceptExists(glossary, from) /\ ConceptExists(glossary, to)
  BY DEF ConstraintError
<1>3. Written(glossary, cmd[e], row[e], ticket[e]) = h
  BY DEF Written
<1>4. glossary \in Tables(RowIds, Labels, PhysicalNames, RelationTypes)
      /\ NoOrphans(glossary) /\ UniquePhysicalNames(glossary)
  BY DEF IInv, TypeOK, GlossaryType, Tables, TablesSound
<1> HIDE DEF from, to, type, h
<1>5. /\ h \in Tables(RowIds, Labels, PhysicalNames, RelationTypes)
      /\ h.concepts = glossary.concepts /\ h.variants = glossary.variants
      /\ NoOrphans(h) /\ UniquePhysicalNames(h)
      /\ InStep(glossary) => InStep(h)
  BY <1>1, <1>2, <1>4, InsertRelationSafe DEF h, InStep
<1>6. GoodWrite(glossary, h, ticket[e])
  BY <1>5, PendingIdsAreRowIds
  DEF GoodWrite, GlossaryType, Tables, IInv, PendingIdsUnused, Unused, LiveVariants
<1> QED BY <1>3, <1>5, <1>6 DEF SerialInv

LEMMA DeleteIsGood ==
    ASSUME IInv, NEW e \in Editors, pc[e] = "write", cmd[e].op = "delete"
    PROVE  LET h == Written(glossary, cmd[e], row[e], ticket[e])
           IN  /\ GoodWrite(glossary, h, ticket[e])
               /\ serial /\ SerialInv => InStep(h)
<1> DEFINE c == cmd[e].concept
           h == DeleteConcept(glossary, c)
<1>1. c \in RowIds
  BY DEF IInv, PastItsRead
<1>2. Written(glossary, cmd[e], row[e], ticket[e]) = h
  BY DEF Written
<1>3. glossary \in Tables(RowIds, Labels, PhysicalNames, RelationTypes)
      /\ NoOrphans(glossary) /\ UniquePhysicalNames(glossary)
  BY DEF IInv, TypeOK, GlossaryType, Tables, TablesSound
<1> HIDE DEF c, h
<1>4. /\ h \in Tables(RowIds, Labels, PhysicalNames, RelationTypes)
      /\ \A x \in RowIds : Unused(glossary, x) => Unused(h, x)
      /\ NoOrphans(h) /\ UniquePhysicalNames(h)
      /\ InStep(glossary) => InStep(h)
  BY <1>1, <1>3, DeleteConceptSafe DEF h, InStep
<1>5. /\ LiveVariants(h) = LiveVariants(glossary) \ VariantsOf(glossary, c)
      /\ ~ConceptExists(h, c)
  BY <1>1, <1>3, DeleteConceptShape DEF h
<1>6. GoodWrite(glossary, h, ticket[e])
  BY <1>4, <1>5, PendingIdsAreRowIds
  DEF GoodWrite, GlossaryType, Tables, IInv, PendingIdsUnused, VariantsOf
<1> QED BY <1>2, <1>4, <1>6 DEF SerialInv

\* Whatever the operation, a write that the constraints let through is good.
LEMMA WriteIsGood ==
    ASSUME IInv, NEW e \in Editors, pc[e] = "write",
           ~ConstraintError(glossary, cmd[e], row[e], ticket[e])
    PROVE  LET h == Written(glossary, cmd[e], row[e], ticket[e])
           IN  /\ GoodWrite(glossary, h, ticket[e])
               /\ serial /\ SerialInv => InStep(h)
<1>1. cmd[e].op \in {"create", "update", "variant", "relation", "delete"}
  BY CommandsAssumption DEF IInv, RequestsWellFormed, InFlight
<1> QED
  BY <1>1, CreateIsGood, UpdateIsGood, VariantIsGood, RelationIsGood, DeleteIsGood

-----------------------------------------------------------------------------
(***************************************************************************)
(* The three ways a request moves: it starts, goes on, or ends.            *)
(***************************************************************************)
\* The rest of the requests: what a step of e leaves alone.
OthersStay(e) ==
    \A f \in Editors \ {e} : pc'[f] = pc[f] /\ row'[f] = row[f] /\ cmd'[f] = cmd[f]

LEMMA SendKeeps ==
    ASSUME IInv, SerialInv, NEW e \in Editors, Send(e)
    PROVE  IInv' /\ SerialInv'
<1>1. PICK command \in Commands :
           /\ cmd' = [cmd EXCEPT ![e] = command]
           /\ pc' = [pc EXCEPT ![e] = FirstStage(command)]
  BY DEF Send
<1>2. FirstStage(command) = IF command.op = "create" THEN "label" ELSE "read"
  BY DEF FirstStage
<1>3. /\ pc[e] = "idle" /\ requests < MaxRequests
      /\ ticket' = [ticket EXCEPT ![e] = requests + 1]
      /\ requests' = requests + 1
      /\ serial' = (serial /\ Idle = Editors)
      /\ UNCHANGED <<glossary, row, reply>>
  BY DEF Send
<1>4. TypeOK
  BY DEF IInv
<1>5. /\ cmd'[e] = command /\ pc'[e] \in {"label", "read"} /\ ticket'[e] = requests + 1
      /\ pc'[e] = "label" <=> command.op = "create"
      /\ \A f \in Editors \ {e} :
            cmd'[f] = cmd[f] /\ pc'[f] = pc[f] /\ ticket'[f] = ticket[f]
  BY <1>1, <1>2, <1>3, <1>4 DEF TypeOK
<1>6. requests \in Nat /\ requests + 1 \in 1 .. MaxRequests
  BY <1>3, <1>4, MaxRequestsAssumption DEF TypeOK
<1>7. TypeOK'
  <2>1. pc' \in [Editors -> Stages]
    BY <1>1, <1>2, <1>4 DEF TypeOK, Stages
  <2>2. cmd' \in [Editors -> Commands \cup {None}]
    BY <1>1, <1>4 DEF TypeOK
  <2>3. ticket' \in [Editors -> 0 .. MaxRequests] /\ requests' \in 0 .. MaxRequests
    BY <1>3, <1>4, <1>6, MaxRequestsAssumption DEF TypeOK
  <2>4. serial' \in BOOLEAN
    BY <1>3
  <2> QED BY <1>3, <1>4, <2>1, <2>2, <2>3, <2>4 DEF TypeOK
<1>8. \A f \in Editors \ {e} : InFlight(f)' <=> InFlight(f)
  BY <1>5 DEF InFlight
<1>9. RequestsWellFormed'
  <2> SUFFICES ASSUME NEW f \in Editors, InFlight(f)'
               PROVE  /\ cmd'[f] \in Commands
                      /\ ticket'[f] \in 1 .. requests'
                      /\ \A k \in Editors \ {f} : InFlight(k)' => ticket'[k] # ticket'[f]
    BY DEF RequestsWellFormed
  <2>1. \A k \in Editors \ {e} : InFlight(k)' =>
           cmd'[k] \in Commands /\ ticket'[k] = ticket[k] /\ ticket[k] \in 1 .. requests
    BY <1>5, <1>8 DEF IInv, RequestsWellFormed
  <2>2. CASE f = e
    BY <1>3, <1>5, <1>6, <2>1, <2>2
  <2>3. CASE f # e
    BY <1>3, <1>5, <1>6, <1>8, <2>1, <2>3 DEF IInv, RequestsWellFormed
  <2> QED BY <2>2, <2>3
<1>10. PendingIds' \subseteq PendingIds
  BY <1>3, <1>5, <1>6, <1>8 DEF PendingIds
<1>11. PastItsRead'
  <2> SUFFICES ASSUME NEW f \in Editors
               PROVE  /\ pc'[f] \in {"label", "place", "write"}
                            /\ cmd'[f].op \in {"update", "variant"}
                         => row'[f] \in ConceptRows(RowIds, Labels, PhysicalNames)
                      /\ pc'[f] \in {"label", "place", "write"}
                            /\ cmd'[f].op \in {"update", "variant", "delete"}
                         => cmd'[f].concept \in RowIds \ PendingIds'
                      /\ pc'[f] \in {"label", "place"} =>
                            cmd'[f].op \in {"create", "update", "variant"}
    BY DEF PastItsRead
  <2>1. CASE f = e
    BY <1>5, <2>1
  <2>2. CASE f # e
    BY <1>3, <1>5, <1>10, <2>2 DEF IInv, PastItsRead
  <2> QED BY <2>1, <2>2
<1>12. PastItsLabel'
  BY <1>3, <1>5 DEF IInv, PastItsLabel
<1>13. PendingIdsUnused' /\ TablesSound'
  BY <1>3, <1>10 DEF IInv, PendingIdsUnused, TablesSound
<1>14. SerialInv'
  <2> SUFFICES ASSUME serial' PROVE ReadsStillTrue' /\ InStep(glossary)'
    BY DEF SerialInv
  <2>1. serial /\ \A f \in Editors : pc[f] = "idle"
    BY <1>3 DEF Idle
  <2>2. \A f \in Editors : f # e => pc'[f] = "idle"
    BY <1>5, <2>1
  <2>3. ReadsStillTrue'
    BY <1>5, <2>2 DEF ReadsStillTrue, InFlight
  <2>4. InStep(glossary)'
    BY <1>3, <2>1 DEF SerialInv, InStep
  <2> QED BY <2>3, <2>4
<1> QED BY <1>7, <1>9, <1>11, <1>12, <1>13, <1>14 DEF IInv

\* A request ends, with tables that are as they were or those of a good write.
LEMMA AnswerKeeps ==
    ASSUME IInv, SerialInv, NEW e \in Editors, InFlight(e),
           NEW answer \in Replies, Answer(e, answer),
           UNCHANGED <<cmd, ticket, requests, serial>>,
           GoodWrite(glossary, glossary', ticket[e]),
           serial => InStep(glossary')
    PROVE  IInv' /\ SerialInv'
<1>1. /\ pc' = [pc EXCEPT ![e] = "idle"] /\ row' = [row EXCEPT ![e] = None]
      /\ reply' = [reply EXCEPT ![e] = answer]
  BY DEF Answer
<1>2. TypeOK
  BY DEF IInv
<1>3. TypeOK'
  <2>1. pc' \in [Editors -> Stages]
    BY <1>1, <1>2 DEF TypeOK, Stages
  <2>2. row' \in [Editors -> ConceptRows(RowIds, Labels, PhysicalNames) \cup {None}]
    BY <1>1, <1>2 DEF TypeOK
  <2>3. reply' \in [Editors -> Replies \cup {None}]
    BY <1>1, <1>2 DEF TypeOK
  <2> QED BY <1>2, <2>1, <2>2, <2>3 DEF TypeOK, GoodWrite
<1>4. /\ pc'[e] = "idle"
      /\ \A f \in Editors \ {e} : pc'[f] = pc[f] /\ row'[f] = row[f]
      /\ \A f \in Editors : InFlight(f)' <=> InFlight(f) /\ f # e
  BY <1>1, <1>2 DEF TypeOK, InFlight
<1>5. RequestsWellFormed'
  BY <1>4 DEF IInv, RequestsWellFormed
<1>6. PendingIds' \subseteq PendingIds \ {ticket[e]}
  <2>1. ticket[e] \in 1 .. requests /\ requests \in Nat
    BY <1>2 DEF IInv, RequestsWellFormed, TypeOK
  <2>2. \A f \in Editors : InFlight(f)' => InFlight(f) /\ ticket[f] # ticket[e]
    BY <1>4 DEF IInv, RequestsWellFormed
  <2> QED BY <2>1, <2>2 DEF PendingIds
<1>7. PastItsRead'
  BY <1>4, <1>6 DEF IInv, PastItsRead
<1>8. PastItsLabel'
  BY <1>4 DEF IInv, PastItsLabel
<1>9. PendingIdsUnused' /\ TablesSound'
  BY <1>6 DEF GoodWrite, PendingIdsUnused, TablesSound
<1>10. SerialInv'
  <2> SUFFICES ASSUME serial PROVE ReadsStillTrue' /\ InStep(glossary)'
    BY DEF SerialInv
  <2>1. \A f \in Editors : InFlight(f) => f = e
    BY DEF SerialInv, ReadsStillTrue
  <2>2. \A f \in Editors : pc'[f] = "idle"
    BY <1>4, <2>1 DEF InFlight
  <2>3. ReadsStillTrue'
    BY <2>2 DEF ReadsStillTrue, InFlight
  <2> QED BY <2>3 DEF InStep
<1> QED BY <1>3, <1>5, <1>7, <1>8, <1>9, <1>10 DEF IInv

\* A request ends and has written nothing.
LEMMA RefusalKeeps ==
    ASSUME IInv, SerialInv, NEW e \in Editors, InFlight(e),
           NEW answer \in Replies, Answer(e, answer),
           UNCHANGED <<glossary, cmd, ticket, requests, serial>>
    PROVE  IInv' /\ SerialInv'
<1>1. GoodWrite(glossary, glossary', ticket[e])
  BY DEF GoodWrite, IInv, TypeOK, TablesSound, PendingIdsUnused
<1>2. serial => InStep(glossary')
  BY DEF SerialInv
<1> QED BY <1>1, <1>2, AnswerKeeps

\* A request goes on to its next stage.
LEMMA AdvanceKeeps ==
    ASSUME IInv, SerialInv, NEW e \in Editors, InFlight(e),
           NEW next \in {"label", "place", "write"},
           NEW seen \in ConceptRows(RowIds, Labels, PhysicalNames) \cup {None},
           pc' = [pc EXCEPT ![e] = next], row' = [row EXCEPT ![e] = seen],
           UNCHANGED <<glossary, cmd, ticket, requests, serial, reply>>,
           cmd[e].op \in {"update", "variant"} =>
              seen \in ConceptRows(RowIds, Labels, PhysicalNames),
           cmd[e].op \in {"update", "variant", "delete"} =>
              cmd[e].concept \in RowIds \ PendingIds,
           next \in {"label", "place"} => cmd[e].op \in {"create", "update", "variant"},
           next \in {"place", "write"} /\ cmd[e].op \in {"create", "update", "variant"}
              => LabelToCheck(cmd[e], seen) # Blank,
           serial =>
              /\ cmd[e].op \in {"update", "variant"}
                 => /\ ConceptExists(glossary, cmd[e].concept)
                    /\ seen = glossary.concepts[cmd[e].concept]
              /\ next \in {"place", "write"} /\ cmd[e].op \in {"create", "variant"}
                 => ~LabelTaken(glossary, LabelToCheck(cmd[e], seen))
              /\ next = "write" /\ cmd[e].op = "variant" /\ cmd[e].type = "primary"
                 => ~PrimaryVariantTaken(glossary, cmd[e].concept)
    PROVE  IInv' /\ SerialInv'
<1>1. TypeOK
  BY DEF IInv
<1>2. TypeOK'
  <2>1. pc' \in [Editors -> Stages]
    BY <1>1 DEF TypeOK, Stages
  <2>2. row' \in [Editors -> ConceptRows(RowIds, Labels, PhysicalNames) \cup {None}]
    BY <1>1 DEF TypeOK
  <2> QED BY <1>1, <2>1, <2>2 DEF TypeOK
<1>3. /\ pc'[e] = next /\ row'[e] = seen
      /\ \A f \in Editors \ {e} : pc'[f] = pc[f] /\ row'[f] = row[f]
      /\ \A f \in Editors : InFlight(f)' <=> InFlight(f)
  BY <1>1 DEF TypeOK, InFlight
<1>4. RequestsWellFormed'
  BY <1>3 DEF IInv, RequestsWellFormed
<1>5. PendingIds' = PendingIds
  BY <1>3 DEF PendingIds
<1>6. PastItsRead'
  BY <1>3, <1>5 DEF IInv, PastItsRead
<1>7. PastItsLabel'
  BY <1>3 DEF IInv, PastItsLabel
<1>8. PendingIdsUnused' /\ TablesSound'
  BY <1>5 DEF IInv, PendingIdsUnused, TablesSound
<1>9. SerialInv'
  <2> SUFFICES ASSUME serial PROVE ReadsStillTrue' /\ InStep(glossary)'
    BY DEF SerialInv
  <2>1. ReadsStillTrue /\ InStep(glossary)
    BY DEF SerialInv
  <2>2. ReadsStillTrue'
    BY <1>3, <2>1 DEF ReadsStillTrue
  <2> QED BY <2>1, <2>2 DEF InStep
<1> QED BY <1>2, <1>4, <1>6, <1>7, <1>8, <1>9 DEF IInv

-----------------------------------------------------------------------------
(***************************************************************************)
(* Every action preserves the invariants.                                  *)
(***************************************************************************)
LEMMA ReadKeeps ==
    ASSUME IInv, SerialInv, NEW e \in Editors, Read(e)
    PROVE  IInv' /\ SerialInv'
<1> DEFINE error == ReadError(glossary, cmd[e])
<1>1. /\ InFlight(e)
      /\ UNCHANGED <<glossary, cmd, ticket, requests, serial>>
  BY DEF Read, InFlight, ReadStep
<1>2. CASE error # "none"
  <2>1. Answer(e, error)
    BY <1>2 DEF Read, ReadStep
  <2>2. error \in Replies
    BY <1>2 DEF ReadError, Replies
  <2> QED BY <1>1, <2>1, <2>2, RefusalKeeps
<1>3. CASE error = "none" /\ cmd[e].op \in {"relation", "delete"}
  <2>1. /\ pc' = [pc EXCEPT ![e] = "write"] /\ row' = [row EXCEPT ![e] = None]
        /\ UNCHANGED reply
    BY <1>3 DEF Read, ReadStep
  <2>2. cmd[e].op = "delete" => ConceptExists(glossary, cmd[e].concept)
    BY <1>3 DEF ReadError
  <2>3. cmd[e].op = "delete" => cmd[e].concept \in RowIds \ PendingIds
    BY <2>2 DEF ConceptExists, IInv, PendingIdsUnused, Unused, TypeOK, GlossaryType,
                Glossaries
  <2> QED BY <1>1, <1>3, <2>1, <2>3, AdvanceKeeps
<1>4. CASE error = "none" /\ cmd[e].op \notin {"relation", "delete"}
  <2> DEFINE seen == glossary.concepts[cmd[e].concept]
  <2>1. /\ pc' = [pc EXCEPT ![e] = "label"] /\ row' = [row EXCEPT ![e] = seen]
        /\ UNCHANGED reply
    BY <1>4 DEF Read, ReadStep
  <2>2. ConceptExists(glossary, cmd[e].concept)
    BY <1>4 DEF ReadError
  <2>3. cmd[e].concept \in RowIds \ PendingIds
    BY <2>2 DEF ConceptExists, IInv, PendingIdsUnused, Unused, TypeOK, GlossaryType,
                Glossaries
  <2>4. seen \in ConceptRows(RowIds, Labels, PhysicalNames)
    BY <2>2, <2>3 DEF ConceptExists, IInv, TypeOK, GlossaryType, Glossaries
  <2>5. cmd[e].op \in {"create", "update", "variant"}
    BY <1>1, <1>4, CommandsAssumption DEF IInv, RequestsWellFormed
  <2> HIDE DEF seen
  <2>6. seen = glossary.concepts[cmd[e].concept]
    BY DEF seen
  <2> QED BY <1>1, <2>1, <2>2, <2>3, <2>4, <2>5, <2>6, AdvanceKeeps
<1> QED BY <1>2, <1>3, <1>4

\* A request at one of its two look-ups has read its concept.
LEMMA AtALookup ==
    ASSUME IInv, NEW e \in Editors, pc[e] \in {"label", "place"}
    PROVE  /\ cmd[e].op \in {"create", "update", "variant"}
           /\ row[e] \in ConceptRows(RowIds, Labels, PhysicalNames) \cup {None}
           /\ cmd[e].op \in {"update", "variant"} =>
                 /\ row[e] \in ConceptRows(RowIds, Labels, PhysicalNames)
                 /\ cmd[e].concept \in RowIds \ PendingIds
  BY DEF IInv, TypeOK, PastItsRead

LEMMA CheckLabelKeeps ==
    ASSUME IInv, SerialInv, NEW e \in Editors, CheckLabel(e)
    PROVE  IInv' /\ SerialInv'
<1> DEFINE error == LabelError(glossary, cmd[e], row[e])
<1>1. /\ InFlight(e) /\ pc[e] = "label"
      /\ UNCHANGED <<glossary, cmd, ticket, requests, serial>>
  BY DEF CheckLabel, InFlight, ReadStep
<1>2. CASE error # "none"
  <2>1. Answer(e, error)
    BY <1>2 DEF CheckLabel, ReadStep
  <2>2. error \in Replies
    BY <1>2 DEF LabelError, Replies
  <2> QED BY <1>1, <2>1, <2>2, RefusalKeeps
<1>3. CASE error = "none"
  <2>1. /\ pc' = [pc EXCEPT ![e] = "place"] /\ row' = [row EXCEPT ![e] = row[e]]
        /\ UNCHANGED reply
    BY <1>3 DEF CheckLabel, ReadStep
  <2>2. LabelToCheck(cmd[e], row[e]) # Blank
    BY <1>3 DEF LabelError
  <2>3. cmd[e].op \in {"create", "variant"} =>
           ~LabelTaken(glossary, LabelToCheck(cmd[e], row[e]))
    <3>1. cmd[e].op \in {"create", "variant"} => LabelToCheck(cmd[e], row[e]) # None
      BY <1>1, CommandsAssumption, RowAssumption
      DEF LabelToCheck, IInv, RequestsWellFormed
    <3> QED BY <1>3, <3>1 DEF LabelError
  <2>4. serial => ReadsStillTrue
    BY DEF SerialInv
  <2>5. serial /\ cmd[e].op \in {"update", "variant"} =>
           /\ ConceptExists(glossary, cmd[e].concept)
           /\ row[e] = glossary.concepts[cmd[e].concept]
    BY <1>1, <2>4 DEF ReadsStillTrue
  <2> QED BY <1>1, <2>1, <2>2, <2>3, <2>5, AtALookup, AdvanceKeeps
<1> QED BY <1>2, <1>3

LEMMA CheckPlaceKeeps ==
    ASSUME IInv, SerialInv, NEW e \in Editors, CheckPlace(e)
    PROVE  IInv' /\ SerialInv'
<1> DEFINE error == PlaceError(glossary, cmd[e], row[e])
<1>1. /\ InFlight(e) /\ pc[e] = "place"
      /\ UNCHANGED <<glossary, cmd, ticket, requests, serial>>
  BY DEF CheckPlace, InFlight, ReadStep
<1>2. CASE error # "none"
  <2>1. Answer(e, error)
    BY <1>2 DEF CheckPlace, ReadStep
  <2>2. error \in Replies
    BY <1>2 DEF PlaceError, Replies
  <2> QED BY <1>1, <2>1, <2>2, RefusalKeeps
<1>3. CASE error = "none"
  <2>1. /\ pc' = [pc EXCEPT ![e] = "write"] /\ row' = [row EXCEPT ![e] = row[e]]
        /\ UNCHANGED reply
    BY <1>3 DEF CheckPlace, ReadStep
  <2>2. cmd[e].op = "variant" /\ cmd[e].type = "primary" =>
           ~PrimaryVariantTaken(glossary, cmd[e].concept)
    BY <1>3 DEF PlaceError
  <2>3. LabelToCheck(cmd[e], row[e]) # Blank
    BY <1>1, AtALookup DEF IInv, PastItsLabel
  <2>4. serial => ReadsStillTrue
    BY DEF SerialInv
  <2>5. serial =>
           /\ cmd[e].op \in {"update", "variant"} =>
                /\ ConceptExists(glossary, cmd[e].concept)
                /\ row[e] = glossary.concepts[cmd[e].concept]
           /\ cmd[e].op \in {"create", "variant"} =>
                ~LabelTaken(glossary, LabelToCheck(cmd[e], row[e]))
    BY <1>1, <2>4 DEF ReadsStillTrue
  <2> QED BY <1>1, <2>1, <2>2, <2>3, <2>5, AtALookup, AdvanceKeeps
<1> QED BY <1>2, <1>3

LEMMA WriteKeeps ==
    ASSUME IInv, SerialInv, NEW e \in Editors, Write(e)
    PROVE  IInv' /\ SerialInv'
<1>1. /\ InFlight(e) /\ pc[e] = "write"
      /\ UNCHANGED <<cmd, ticket, requests, serial>>
  BY DEF Write, InFlight
<1>2. CASE ConstraintError(glossary, cmd[e], row[e], ticket[e])
  <2>1. "integrity_error" \in Replies
    BY DEF Replies
  <2> QED BY <1>1, <1>2, <2>1, RefusalKeeps DEF Write
<1>3. CASE ~ConstraintError(glossary, cmd[e], row[e], ticket[e])
  <2>1. glossary' = Written(glossary, cmd[e], row[e], ticket[e])
    BY <1>3 DEF Write
  <2>2. PICK answer \in {"done", "no_answer"} : Answer(e, answer)
    BY <1>3 DEF Write
  <2>3. answer \in Replies
    BY DEF Replies
  <2>4. GoodWrite(glossary, glossary', ticket[e]) /\ (serial => InStep(glossary'))
    BY <1>1, <1>3, <2>1, WriteIsGood
  <2> QED BY <1>1, <2>2, <2>3, <2>4, AnswerKeeps
<1> QED BY <1>2, <1>3

\* The write lock was not to be had, or the process died.
LEMMA NoWriteKeeps ==
    ASSUME IInv, SerialInv, NEW e \in Editors, Busy(e) \/ Crash(e)
    PROVE  IInv' /\ SerialInv'
<1>1. {"database_locked", "no_answer"} \subseteq Replies
  BY DEF Replies
<1>2. /\ InFlight(e) /\ UNCHANGED <<glossary, cmd, ticket, requests, serial>>
      /\ \E answer \in {"database_locked", "no_answer"} : Answer(e, answer)
  BY DEF Busy, Crash, InFlight
<1> QED BY <1>1, <1>2, RefusalKeeps

-----------------------------------------------------------------------------
(***************************************************************************)
(* The theorems.                                                           *)
(***************************************************************************)
LEMMA InitEstablishes == Init => IInv /\ SerialInv
<1> SUFFICES ASSUME Init PROVE IInv /\ SerialInv
  OBVIOUS
<1> DEFINE seeds == DOMAIN SeedLabels
<1>1. seeds \subseteq RowIds
  BY DEF RowIds
<1>2. /\ glossary.concepts = [c \in RowIds |-> IF c \in seeds THEN SeedConcept(c) ELSE None]
      /\ glossary.variants = [v \in RowIds |-> IF v \in seeds THEN SeedVariant(v) ELSE None]
      /\ glossary.relations = {}
      /\ glossary.tagLabels = [i \in TagIds |-> None]
      /\ glossary.tagLinks = [c \in RowIds |-> {}]
      /\ DOMAIN glossary = {"concepts", "variants", "relations", "tagLabels", "tagLinks"}
  BY DEF Init
<1>3. \A c \in seeds :
         /\ SeedConcept(c) \in ConceptRows(RowIds, Labels, PhysicalNames)
         /\ SeedConcept(c).physical = None /\ SeedConcept(c).tags = {}
         /\ SeedConcept(c).variants = {c}
  BY <1>1, SeedAssumption DEF SeedConcept, ConceptRows, ConceptStatuses
<1>4. \A v \in seeds :
         /\ SeedVariant(v) \in VariantRows(RowIds, Labels)
         /\ SeedVariant(v).concept = v /\ SeedVariant(v).label = SeedLabels[v]
         /\ SeedVariant(v).type = "primary" /\ SeedVariant(v).status = "active"
  BY <1>1, SeedAssumption DEF SeedVariant, VariantRows, VariantTypes, VariantStatuses
<1>5. glossary \in GlossaryType
  <2>1. glossary = [concepts  |-> [c \in RowIds |-> IF c \in seeds THEN SeedConcept(c) ELSE None],
                    variants  |-> [v \in RowIds |-> IF v \in seeds THEN SeedVariant(v) ELSE None],
                    relations |-> {},
                    tagLabels |-> [i \in TagIds |-> None],
                    tagLinks  |-> [c \in RowIds |-> {}]]
    BY DEF Init
  <2> HIDE DEF seeds
  <2> QED BY <1>3, <1>4, <2>1 DEF GlossaryType, Glossaries
<1> HIDE DEF seeds
<1>6. \A c : ConceptExists(glossary, c) <=> c \in seeds
  BY <1>1, <1>2, <1>3, RowAssumption DEF ConceptExists
<1>7. LiveVariants(glossary) = seeds
  <2>1. \A v \in seeds : SeedVariant(v) # None
    BY <1>4, RowAssumption
  <2>2. \A v \in RowIds :
           glossary.variants[v] = IF v \in seeds THEN SeedVariant(v) ELSE None
    BY <1>2
  <2>3. DOMAIN glossary.variants = RowIds
    BY <1>2
  <2> QED BY <1>1, <2>1, <2>2, <2>3 DEF LiveVariants
<1>8. \A c \in seeds : /\ glossary.concepts[c] = SeedConcept(c)
                        /\ glossary.variants[c] = SeedVariant(c)
                        /\ glossary.tagLinks[c] = {}
  BY <1>1, <1>2
<1>9. \A c \in seeds : VariantsOf(glossary, c) = {c}
  BY <1>4, <1>7, <1>8 DEF VariantsOf
<1>10. /\ DOMAIN glossary.concepts = RowIds /\ DOMAIN glossary.tagLinks = RowIds
       /\ \A c \in RowIds : glossary.tagLinks[c] = {}
  BY <1>2
<1>11. TablesSound
  <2>1. UniquePhysicalNames(glossary)
    BY <1>3, <1>6, <1>8 DEF UniquePhysicalNames
  <2>2. NoOrphans(glossary)
    <3>1. \A v \in seeds : glossary.variants[v].concept = v
      BY <1>4, <1>8
    <3>2. glossary.relations = {}
      BY <1>2
    <3> QED BY <1>6, <1>7, <1>10, <3>1, <3>2 DEF NoOrphans
  <2> QED BY <2>1, <2>2 DEF TablesSound
<1>12. InStep(glossary)
  <2>1. VariantListsAgree(glossary)
    BY <1>3, <1>6, <1>8, <1>9 DEF VariantListsAgree
  <2>2. TagLinksAgree(glossary)
    BY <1>3, <1>6, <1>8 DEF TagLinksAgree
  <2>3. OnePrimaryEach(glossary)
    BY <1>4, <1>6, <1>8, <1>9 DEF OnePrimaryEach
  <2>4. UniqueLabels(glossary)
    BY <1>4, <1>7, <1>8, SeedAssumption DEF UniqueLabels, seeds
  <2> QED BY <2>1, <2>2, <2>3, <2>4 DEF InStep
<1>13. /\ \A e \in Editors : pc[e] = "idle"
       /\ requests = 0 /\ serial = TRUE
  BY DEF Init
<1>14. PendingIds = 1 .. MaxRequests
  BY <1>13 DEF PendingIds, InFlight
<1>15. PendingIdsUnused
  <2>1. \A id \in 1 .. MaxRequests : id \in RowIds /\ id \notin seeds
    BY SeedAssumption DEF RowIds, seeds
  <2> QED BY <1>2, <1>14, <2>1 DEF PendingIdsUnused, Unused
<1>16. TypeOK
  BY <1>5, <1>13, MaxRequestsAssumption DEF Init, TypeOK, Stages
<1>17. RequestsWellFormed /\ PastItsRead /\ PastItsLabel
  BY <1>13 DEF RequestsWellFormed, PastItsRead, PastItsLabel, InFlight
<1>18. ReadsStillTrue
  BY <1>13 DEF ReadsStillTrue, InFlight
<1> QED BY <1>11, <1>12, <1>15, <1>16, <1>17, <1>18 DEF IInv, SerialInv

LEMMA NextKeeps == IInv /\ SerialInv /\ [Next]_vars => IInv' /\ SerialInv'
<1> SUFFICES ASSUME IInv, SerialInv, [Next]_vars PROVE IInv' /\ SerialInv'
  OBVIOUS
<1>1. CASE Next
  <2> PICK e \in Editors :
        Send(e) \/ Read(e) \/ CheckLabel(e) \/ CheckPlace(e) \/ Write(e)
        \/ Busy(e) \/ Crash(e)
    BY <1>1 DEF Next
  <2>1. CASE Send(e)
    BY <2>1, SendKeeps
  <2>2. CASE Read(e)
    BY <2>2, ReadKeeps
  <2>3. CASE CheckLabel(e)
    BY <2>3, CheckLabelKeeps
  <2>4. CASE CheckPlace(e)
    BY <2>4, CheckPlaceKeeps
  <2>5. CASE Write(e)
    BY <2>5, WriteKeeps
  <2>6. CASE Busy(e) \/ Crash(e)
    BY <2>6, NoWriteKeeps
  <2> QED BY <2>1, <2>2, <2>3, <2>4, <2>5, <2>6
<1>2. CASE UNCHANGED vars
  BY <1>2 DEF vars, IInv, SerialInv, TypeOK, RequestsWellFormed, PastItsRead,
              PastItsLabel, PendingIdsUnused, TablesSound, ReadsStillTrue, InStep,
              InFlight, PendingIds
<1> QED BY <1>1, <1>2

\* Invariants of every behaviour.
THEOREM GlossaryInvariant == Spec => [](IInv /\ SerialInv)
  BY InitEstablishes, NextKeeps, PTL DEF Spec

\* Every variable keeps its type: no interleaving of glossary requests makes
\* a row that the schema's columns could not hold.
THEOREM GlossaryTypeCorrect == Spec => []TypeOK
<1>1. IInv => TypeOK
  BY DEF IInv
<1> QED BY <1>1, GlossaryInvariant, PTL

\* However deletions race with updates, new variants and new relations, no
\* variant, relation or tag link refers to a concept that is gone.
THEOREM GlossaryHasNoOrphans == Spec => []NoOrphanRows
<1>1. IInv => NoOrphanRows
  BY DEF IInv, TablesSound, NoOrphanRows
<1> QED BY <1>1, GlossaryInvariant, PTL

\* However their look-ups race, two concepts never share a physical name.
THEOREM PhysicalNamesUnique == Spec => []PhysicalNamesStayUnique
<1>1. IInv => PhysicalNamesStayUnique
  BY DEF IInv, TablesSound, PhysicalNamesStayUnique
<1> QED BY <1>1, GlossaryInvariant, PTL

\* Requests that never overlap keep each concept's row in step with its
\* variants, its tags and its labels.
THEOREM SerialEditsStayInStep == Spec => []SerialEditsKeepRowsInStep
<1>1. SerialInv => SerialEditsKeepRowsInStep
  BY DEF SerialInv, InStep, SerialEditsKeepRowsInStep
<1> QED BY <1>1, GlossaryInvariant, PTL

\* A variant's row goes only when its concept goes: no stale row written back
\* by another editor takes a variant away.
THEOREM VariantsGoWithConcepts == Spec => VariantsGoOnlyWithTheirConcept
<1> DEFINE Kept ==
      \A v \in LiveVariants(glossary) \ LiveVariants(glossary') :
         ~ConceptExists(glossary', glossary.variants[v].concept)
<1>1. ASSUME IInv, SerialInv, Next PROVE Kept
  <2> PICK e \in Editors :
        Send(e) \/ Read(e) \/ CheckLabel(e) \/ CheckPlace(e) \/ Write(e)
        \/ Busy(e) \/ Crash(e)
    BY <1>1 DEF Next
  <2>1. CASE ~Write(e)
    <3>1. glossary' = glossary
      BY <2>1 DEF Send, Read, CheckLabel, CheckPlace, ReadStep, Busy, Crash
    <3> QED BY <3>1
  <2>2. CASE Write(e) /\ ConstraintError(glossary, cmd[e], row[e], ticket[e])
    BY <2>2 DEF Write
  <2>3. CASE Write(e) /\ ~ConstraintError(glossary, cmd[e], row[e], ticket[e])
    <3>1. glossary' = Written(glossary, cmd[e], row[e], ticket[e]) /\ pc[e] = "write"
      BY <2>3 DEF Write
    <3>2. GoodWrite(glossary, glossary', ticket[e])
      BY <1>1, <2>3, <3>1, WriteIsGood
    <3> QED BY <3>2 DEF GoodWrite
  <2> QED BY <2>1, <2>2, <2>3
<1>2. IInv /\ SerialInv /\ [Next]_vars => [Kept]_vars
  BY <1>1
<1> QED BY <1>2, GlossaryInvariant, PTL DEF Spec, VariantsGoOnlyWithTheirConcept
=============================================================================
