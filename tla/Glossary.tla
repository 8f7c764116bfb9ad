------------------------------- MODULE Glossary -------------------------------
(***************************************************************************)
(* GlossaryService as editors use it: CLI commands, API requests and MCP   *)
(* tools, each on its own connection to one SQLite file.                   *)
(*                                                                         *)
(* `with self._transaction():' begins nothing by itself; a transaction     *)
(* starts at the first insert, update or delete.  Every method therefore   *)
(* makes its reads in autocommit, one after the other,                     *)
(*   the concept or the relation's two ends                   (Read),      *)
(*   is the label free                                        (CheckLabel),*)
(*   is the physical name, or the place of primary variant, free           *)
(*                                                            (CheckPlace),*)
(* and only then writes, in one transaction                   (Write),     *)
(* what it had worked out from those reads.  The constraints of the schema *)
(* are looked at once more by the database, during the write.              *)
(***************************************************************************)
EXTENDS GlossaryStore, FiniteSets

CONSTANTS
    Editors,        \* clients, each with one request at a time
    Commands,       \* the commands editors may send
    SeedLabels,     \* concepts there at the start: concept id -> its label
    Labels,         \* the non-blank labels in use
    PhysicalNames,
    RelationTypes,
    MaxRequests     \* bound: requests in a behaviour

\* Fresh uuids: here, the number of the request that makes the row.
RowIds == (DOMAIN SeedLabels) \cup (1 .. MaxRequests)

GlossaryType == Glossaries(RowIds, RowIds, Labels, PhysicalNames, RelationTypes)

ASSUME MaxRequestsAssumption == MaxRequests \in Nat

ASSUME RowAssumption ==
    /\ None \notin ConceptRows(RowIds, Labels, PhysicalNames)
    /\ None \notin VariantRows(RowIds, Labels)
    /\ None \notin PhysicalNames /\ None \notin Labels \cup {Blank}
    /\ Blank \notin Labels

\* The seeds were made by the service: ids of their own, one label each.
ASSUME SeedAssumption ==
    /\ (DOMAIN SeedLabels) \cap (1 .. MaxRequests) = {}
    /\ \A c \in DOMAIN SeedLabels : SeedLabels[c] \in Labels
    /\ \A c, d \in DOMAIN SeedLabels : SeedLabels[c] = SeedLabels[d] => c = d

\* The request models' types.  A concept id may be anything; a label or a
\* physical name may be blank.
ASSUME CommandsAssumption ==
    \A command \in Commands :
        \/ /\ command.op = "create"
           /\ command.term \in Labels \cup {Blank}
           /\ command.physical \in PhysicalNames \cup {Blank, None}
           /\ command.tags \in SUBSET Tags
        \/ /\ command.op = "update"
           /\ LET patch == command.patch
              IN  /\ "term" \in DOMAIN patch => patch["term"] \in Labels \cup {Blank}
                  /\ "status" \in DOMAIN patch => patch["status"] \in ConceptStatuses
                  /\ "physical" \in DOMAIN patch =>
                        patch["physical"] \in PhysicalNames \cup {Blank, None}
                  /\ "tags" \in DOMAIN patch => patch["tags"] \in SUBSET Tags
        \/ /\ command.op = "variant"
           /\ command.label \in Labels \cup {Blank}
           /\ command.type \in VariantTypes
        \/ command.op = "relation" /\ command.type \in RelationTypes
        \/ command.op = "delete"

VARIABLES
    glossary,   \* the committed glossary tables
    pc,         \* where each editor's request is
    cmd,        \* its command, or None
    ticket,     \* its number, the id of any row it makes
    row,        \* the concept row it has read, or None
    reply,      \* the last answer each editor got, or None
    requests,   \* requests sent so far
    serial      \* history: no two requests have ever overlapped

vars == <<glossary, pc, cmd, ticket, row, reply, requests, serial>>

Stages == {"idle", "read", "label", "place", "write"}

Replies ==
    {"done", "no_answer", "database_locked", "concept_not_found",
     "invalid_relation", "duplicate_term", "empty_label", "integrity_error"}

-----------------------------------------------------------------------------
SeedConcept(c) ==
    [term |-> SeedLabels[c], status |-> "active", physical |-> None,
     tags |-> {}, variants |-> {c}]

SeedVariant(c) ==
    [concept |-> c, label |-> SeedLabels[c], type |-> "primary",
     status |-> "active"]

Init ==
    /\ glossary =
         LET seeds == DOMAIN SeedLabels
         IN  [concepts  |-> [c \in RowIds |-> IF c \in seeds THEN SeedConcept(c) ELSE None],
              variants  |-> [v \in RowIds |-> IF v \in seeds THEN SeedVariant(v) ELSE None],
              relations |-> {},
              tagLabels |-> [i \in TagIds |-> None],
              tagLinks  |-> [c \in RowIds |-> {}]]
    /\ pc = [e \in Editors |-> "idle"]
    /\ cmd = [e \in Editors |-> None]
    /\ ticket = [e \in Editors |-> 0]
    /\ row = [e \in Editors |-> None]
    /\ reply = [e \in Editors |-> None]
    /\ requests = 0
    /\ serial = TRUE

-----------------------------------------------------------------------------
(***************************************************************************)
(* What a request computes from its command and the row it read.           *)
(***************************************************************************)
\* Mutant: an empty text is stored as it is.
KeepText(text) == text

CleanOptional(text) == IF text = Blank THEN None ELSE text

\* update_concept's copy of the row: a field that is not in the patch keeps
\* the value READ, and so do the variants.
Patched(old, patch) ==
    [old EXCEPT
        !.term     = IF "term" \in DOMAIN patch THEN patch["term"] ELSE @,
        !.status   = IF "status" \in DOMAIN patch THEN patch["status"] ELSE @,
        !.physical = IF "physical" \in DOMAIN patch
                     THEN CleanOptional(patch["physical"]) ELSE @,
        !.tags     = IF "tags" \in DOMAIN patch THEN patch["tags"] ELSE @]

\* The label that must not be in use yet, or None when nothing is looked up.
LabelToCheck(command, old) ==
    CASE command.op = "create"  -> command.term
      [] command.op = "variant" -> command.label
      [] command.op = "update"  ->
            LET term == Patched(old, command.patch).term
            IN  IF term = old.term THEN None ELSE term

\* The physical name that must not be in use yet, or None.
PhysicalToCheck(command, old) ==
    CASE command.op = "create" -> CleanOptional(command.physical)
      [] command.op = "update" ->
            LET name == Patched(old, command.patch).physical
            IN  IF name = old.physical THEN None ELSE name
      [] OTHER -> None

\* What may refuse the command at each of its reads ("none" if nothing does).
ReadError(g, command) ==
    IF command.op = "relation"
    THEN IF \/ command.source = command.target
            \/ ~ConceptExists(g, command.source)
            \/ ~ConceptExists(g, command.target)
         THEN "invalid_relation" ELSE "none"
    ELSE IF ~ConceptExists(g, command.concept) THEN "concept_not_found" ELSE "none"

LabelError(g, command, old) ==
    LET label == LabelToCheck(command, old)
    IN  IF label = Blank THEN "empty_label"
        ELSE IF label # None /\ LabelTaken(g, label) THEN "duplicate_term"
        ELSE "none"

\* Mutant: a second primary variant is let through.
PlaceErrorPhysicalOnly(g, command, old) ==
    IF PhysicalToCheck(command, old) # None
       /\ PhysicalNameTaken(g, PhysicalToCheck(command, old), None)
    THEN "duplicate_term" ELSE "none"

PlaceError(g, command, old) ==
    LET name == PhysicalToCheck(command, old)
        self == IF command.op = "update" THEN command.concept ELSE None
    IN  IF \/ name # None /\ PhysicalNameTaken(g, name, self)
           \/ command.op = "variant" /\ command.type = "primary"
                /\ PrimaryVariantTaken(g, command.concept)
        THEN "duplicate_term" ELSE "none"

\* Mutant: the schema has no unique index on the physical name.
ConstraintErrorWithoutIndex(g, command, old, id) ==
    CASE command.op = "create" -> TagsCollide(command.tags)
      [] command.op = "update" -> TagsCollide(Patched(old, command.patch).tags)
      [] command.op = "variant" -> ~ConceptExists(g, command.concept)
      [] command.op = "relation" ->
            \/ ~ConceptExists(g, command.source)
            \/ ~ConceptExists(g, command.target)
            \/ <<command.source, command.type, command.target>> \in g.relations
      [] OTHER -> FALSE

\* Mutant: foreign keys are not enforced (pragma foreign_keys is off).
ConstraintErrorWithoutForeignKeys(g, command, old, id) ==
    CASE command.op = "create" -> TagsCollide(command.tags)
      [] command.op = "update" -> TagsCollide(Patched(old, command.patch).tags)
      [] command.op = "relation" ->
            <<command.source, command.type, command.target>> \in g.relations
      [] OTHER -> FALSE

\* The constraints of the schema, as the statements of the write meet them:
\* the partial unique index on physical names, the primary keys of
\* concept_tags and concept_relations, and the foreign keys.
ConstraintError(g, command, old, id) ==
    LET indexed(name, self) == name # None /\ PhysicalNameTaken(g, name, self)
    IN  CASE command.op = "create" ->
                \/ indexed(CleanOptional(command.physical), id)
                \/ TagsCollide(command.tags)
          [] command.op = "update" ->
                LET new == Patched(old, command.patch)
                IN  indexed(new.physical, command.concept) \/ TagsCollide(new.tags)
          [] command.op = "variant" ->
                \/ ~ConceptExists(g, command.concept)
                \/ indexed(old.physical, command.concept)
          [] command.op = "relation" ->
                \/ ~ConceptExists(g, command.source)
                \/ ~ConceptExists(g, command.target)
                \/ <<command.source, command.type, command.target>> \in g.relations
          [] OTHER -> FALSE

\* What the transaction leaves behind.
Written(g, command, old, id) ==
    CASE command.op = "create" ->
            WriteNewConcept(g, id, id, command.term,
                            CleanOptional(command.physical), command.tags)
      [] command.op = "update" ->
            LET new == Patched(old, command.patch)
            IN  ReplaceConceptTags(UpsertConcept(g, command.concept, new),
                                   command.concept, new.tags)
      [] command.op = "variant" ->
            WriteNewVariant(g, command.concept, old, id, command.label,
                            command.type, "active")
      [] command.op = "relation" ->
            InsertRelation(g, <<command.source, command.type, command.target>>)
      [] OTHER -> DeleteConcept(g, command.concept)

-----------------------------------------------------------------------------
Idle == {e \in Editors : pc[e] = "idle"}

FirstStage(command) == IF command.op = "create" THEN "label" ELSE "read"

Send(e) ==
    /\ pc[e] = "idle"
    /\ requests < MaxRequests
    /\ \E command \in Commands :
          /\ cmd' = [cmd EXCEPT ![e] = command]
          /\ pc' = [pc EXCEPT ![e] = FirstStage(command)]
    /\ ticket' = [ticket EXCEPT ![e] = requests + 1]
    /\ requests' = requests + 1
    /\ serial' = (serial /\ Idle = Editors)
    /\ UNCHANGED <<glossary, row, reply>>

\* The request is over; what it had not committed is rolled back.
Answer(e, answer) ==
    /\ pc' = [pc EXCEPT ![e] = "idle"]
    /\ row' = [row EXCEPT ![e] = None]
    /\ reply' = [reply EXCEPT ![e] = answer]

\* A read: the request goes on to its next stage, or ends with the error.
ReadStep(e, error, next, seen) ==
    /\ IF error = "none"
       THEN /\ pc' = [pc EXCEPT ![e] = next]
            /\ row' = [row EXCEPT ![e] = seen]
            /\ UNCHANGED reply
       ELSE Answer(e, error)
    /\ UNCHANGED <<glossary, cmd, ticket, requests, serial>>

\* get_concept, or _ensure_relation_targets.
Read(e) ==
    /\ pc[e] = "read"
    /\ LET command == cmd[e]
       IN  CASE command.op = "relation" ->
                    ReadStep(e, ReadError(glossary, command), "write", None)
             [] command.op = "delete" ->
                    ReadStep(e, ReadError(glossary, command), "write", None)
             [] OTHER ->
                    ReadStep(e, ReadError(glossary, command), "label",
                             glossary.concepts[command.concept])

\* normalize_label and ensure_label_available.
CheckLabel(e) ==
    /\ pc[e] = "label"
    /\ ReadStep(e, LabelError(glossary, cmd[e], row[e]), "place", row[e])

\* ensure_physical_name_available, ensure_primary_variant_available.
CheckPlace(e) ==
    /\ pc[e] = "place"
    /\ ReadStep(e, PlaceError(glossary, cmd[e], row[e]), "write", row[e])

\* The transaction: it waits for other writers, so it runs alone.  The answer
\* to what was committed may be lost.
Write(e) ==
    /\ pc[e] = "write"
    /\ IF ConstraintError(glossary, cmd[e], row[e], ticket[e])
       THEN Answer(e, "integrity_error") /\ UNCHANGED glossary
       ELSE /\ glossary' = Written(glossary, cmd[e], row[e], ticket[e])
            /\ \E answer \in {"done", "no_answer"} : Answer(e, answer)
    /\ UNCHANGED <<cmd, ticket, requests, serial>>

\* Another process held the write lock for longer than the busy timeout.
Busy(e) ==
    /\ pc[e] = "write"
    /\ Answer(e, "database_locked")
    /\ UNCHANGED <<glossary, cmd, ticket, requests, serial>>

\* The process dies before its commit.
Crash(e) ==
    /\ pc[e] # "idle"
    /\ Answer(e, "no_answer")
    /\ UNCHANGED <<glossary, cmd, ticket, requests, serial>>

Next ==
    \E e \in Editors :
        Send(e) \/ Read(e) \/ CheckLabel(e) \/ CheckPlace(e) \/ Write(e)
        \/ Busy(e) \/ Crash(e)

Spec == Init /\ [][Next]_vars

-----------------------------------------------------------------------------
(***************************************************************************)
(* Properties.                                                             *)
(***************************************************************************)
\* Every variable has its type.
TypeOK ==
    /\ glossary \in GlossaryType
    /\ pc \in [Editors -> Stages]
    /\ cmd \in [Editors -> Commands \cup {None}]
    /\ ticket \in [Editors -> 0 .. MaxRequests]
    /\ row \in [Editors -> ConceptRows(RowIds, Labels, PhysicalNames) \cup {None}]
    /\ reply \in [Editors -> Replies \cup {None}]
    /\ requests \in 0 .. MaxRequests
    /\ serial \in BOOLEAN

\* As long as requests never overlap, a sequence of edits keeps the concept
\* rows and the tables beside them in step: the variant ids in a row are its
\* variants, its tags are its links, each concept has one active primary
\* variant, and no normalized label is attached twice.
SerialEditsKeepRowsInStep ==
    serial =>
        /\ VariantListsAgree(glossary)
        /\ TagLinksAgree(glossary)
        /\ OnePrimaryEach(glossary)
        /\ UniqueLabels(glossary)

\* Two concepts never share a physical name, however their look-ups race: the
\* unique index repeats the test inside the write.
PhysicalNamesStayUnique == UniquePhysicalNames(glossary)

\* No interleaving leaves a variant, a relation or a tag link of a concept
\* that is gone.
NoOrphanRows == NoOrphans(glossary)

\* A variant disappears only together with its concept: an editor who writes
\* back a stale row loses other fields, never a row of term_variants.
VariantsGoOnlyWithTheirConcept ==
    [][\A v \in LiveVariants(glossary) \ LiveVariants(glossary') :
          ~ConceptExists(glossary', glossary.variants[v].concept)]_vars
=============================================================================
