------------------------------- MODULE Workspace -------------------------------
(***************************************************************************)
(* What the jobs that read the whole glossary share: the glossary tables   *)
(* (see GlossaryStore), the review issues, the search rows and the ids of  *)
(* the concepts that have embeddings, with the editors who change them     *)
(* while a job runs.                                                       *)
(*                                                                         *)
(* A job makes its reads in autocommit, one select after the other, so an  *)
(* edit may fall between any two of them.  How a request of the glossary   *)
(* or of the review is carried out is the subject of other modules: here   *)
(* each is one committed transaction.                                      *)
(***************************************************************************)
EXTENDS GlossaryStore, Sequences, FiniteSets, SequencesExt, FiniteSetsExt

CONSTANTS
    Concepts,       \* concept ids, a sequence in the order of the ids
    AliasIds,       \* ids for variants added later
    Labels,         \* normalized labels
    Seeds,          \* the glossaries to start from: each id -> [term, tags]
    RelationTypes,  \* relation types a relation may be stored with
    Edits,          \* kinds of edit that happen
    MaxEdits,       \* bound: edits
    Agendas         \* bound: the kinds of the jobs of a behaviour, in their order

ConceptIds == Range(Concepts)

VariantIds == ConceptIds \cup AliasIds

ASSUME IdsAssumption ==
    /\ Concepts \in Seq(ConceptIds) /\ IsInjective(Concepts) /\ IsFiniteSet(AliasIds)
    /\ ConceptIds \cap AliasIds = {}

\* The tags of the glossaries to start from have ids of their own.
ASSUME SeedsAssumption ==
    \A seeds \in Seeds :
        /\ DOMAIN seeds \subseteq ConceptIds
        /\ seeds \in [DOMAIN seeds -> [term : Labels, tags : SUBSET Tags]]
        /\ ~ TagsCollide(UNION {seeds[c].tags : c \in DOMAIN seeds})

\* The jobs: a graph or its export, a context, suggested tags, an analysis.
JobKinds == {"graph", "explore", "tags", "analysis"}

ASSUME BoundsAssumption == MaxEdits \in Nat /\ Agendas \subseteq Seq(JobKinds)

ASSUME NoneAssumption ==
    /\ None \notin ConceptIds \cup Labels \cup Tags
    /\ None \notin ConceptRows(VariantIds, Labels, {})
    /\ None \notin VariantRows(ConceptIds, Labels)

VARIABLES
    glossary,   \* the glossary tables
    gone,       \* ids that were deleted: uuid4 makes none of them again
    issues,     \* table term_issues: issue id -> row
    search,     \* the search rows as of the last rebuild
    embedded,   \* concepts that embeddings name as their owner
    snapshots,  \* table graph_snapshots, whose ids are hashes of the graphs
    exports,    \* export directory -> the files in it
    job,        \* the job that runs
    jobs,       \* kinds of the jobs to come
    edits       \* edits so far

vars == <<glossary, gone, issues, search, embedded, snapshots, exports, job, jobs, edits>>

Tables == <<glossary, gone, issues, search, embedded, snapshots, exports>>

\* No job: the last one ended with this reply.
Ended(reply) == [kind |-> "none", alone |-> TRUE, stage |-> reply]

Running == job.kind # "none"

-----------------------------------------------------------------------------
\* The glossary after `create_concept' of these concepts, each with its primary
\* variant.
Created(seeds) ==
    LET tags == UNION {seeds[c].tags : c \in DOMAIN seeds}
    IN  [concepts  |-> [c \in ConceptIds |->
                           IF c \in DOMAIN seeds
                           THEN [term |-> seeds[c].term, status |-> "active", physical |-> None,
                                 tags |-> seeds[c].tags, variants |-> {c}]
                           ELSE None],
         variants  |-> [v \in VariantIds |->
                           IF v \in DOMAIN seeds
                           THEN [concept |-> v, label |-> seeds[v].term, type |-> "primary",
                                 status |-> "active"]
                           ELSE None],
         relations |-> {},
         tagLabels |-> [i \in TagIds |->
                           IF \E t \in tags : TagId[t] = i
                           THEN CHOOSE t \in tags : TagId[t] = i
                           ELSE None],
         tagLinks  |-> [c \in ConceptIds |->
                           IF c \in DOMAIN seeds THEN {TagId[t] : t \in seeds[c].tags} ELSE {}]]

\* Nothing is indexed before the first rebuild.
NoSearchRows == [concepts |-> [c \in ConceptIds |-> None], issues |-> <<>>]

Init ==
    /\ glossary \in {Created(seeds) : seeds \in Seeds}
    /\ gone = {}
    /\ issues = <<>>
    /\ search = NoSearchRows
    /\ embedded = {}
    /\ snapshots = {}
    /\ exports = <<>>
    /\ job = Ended("none")
    /\ jobs \in Agendas
    /\ edits = 0

Live == {c \in ConceptIds : ConceptExists(glossary, c)}

Active == {c \in Live : glossary.concepts[c].status = "active"}

\* Of some concepts, the one whose id sorts first, and the one that sorts last.
Position(c) == CHOOSE k \in DOMAIN Concepts : Concepts[k] = c

FirstOfIds(ids) == CHOOSE c \in ids : \A d \in ids : Position(c) <= Position(d)

LastOfIds(ids) == CHOOSE c \in ids : \A d \in ids : Position(d) <= Position(c)

\* A table with this row written: inserted, or in the place of the old one.
Put(table, key, row) ==
    [k \in DOMAIN table \cup {key} |-> IF k = key THEN row ELSE table[k]]

\* The next job begins.
Begin(newJob) ==
    /\ ~ Running
    /\ jobs # <<>> /\ newJob.kind = Head(jobs)
    /\ jobs' = Tail(jobs)
    /\ job' = newJob

\* It goes on.
Advance(newJob) == job' = newJob /\ UNCHANGED <<jobs, edits>>

\* The labels of a concept, as the concept search row lists them.
SearchLabels(c) ==
    {glossary.concepts[c].term} \cup {glossary.variants[v].label : v \in VariantsOf(glossary, c)}

\* Bound: rebuilds that no job would notice are left out; only `explore' reads
\* the search rows.
SearchIsRead == job.kind = "explore" \/ "explore" \in Range(jobs)

\* SearchIndexRepository.rebuild, by a reconcile: one transaction.
RebuildSearch ==
    /\ SearchIsRead
    /\ search' = [concepts |-> [c \in ConceptIds |-> IF c \in Live THEN SearchLabels(c) ELSE None],
                  issues   |-> [i \in DOMAIN issues |-> issues[i].surface]]
    /\ search' # search
    /\ UNCHANGED <<glossary, gone, issues, embedded, snapshots, exports, job, jobs, edits>>

-----------------------------------------------------------------------------
(***************************************************************************)
(* The editors.                                                            *)
(***************************************************************************)
\* A job that is running is no longer undisturbed.
Edit(kind) ==
    /\ kind \in Edits
    /\ edits < MaxEdits
    /\ edits' = edits + 1
    /\ job' = [job EXCEPT !.alone = ~ Running]
    /\ UNCHANGED <<search, embedded, snapshots, exports, jobs>>

EditGlossary(kind, newGlossary) ==
    /\ Edit(kind)
    /\ glossary' = newGlossary
    /\ UNCHANGED <<gone, issues>>

CreateConcept ==
    \E c \in ConceptIds \ (Live \cup gone), label \in Labels, tags \in SUBSET Tags :
        /\ ~ LabelTaken(glossary, label) /\ ~ TagsCollide(tags)
        /\ EditGlossary("create", WriteNewConcept(glossary, c, c, label, None, tags))

\* update_concept: a new status, other tags, or another primary term.  The
\* primary variant keeps the old label.
UpdateConcept ==
    \E c \in Live :
        LET row == glossary.concepts[c]
            Update(kind, new) ==
                EditGlossary(kind, ReplaceConceptTags(UpsertConcept(glossary, c, new),
                                                      c, new.tags))
        IN  \/ \E status \in ConceptStatuses \ {row.status} :
                  Update("status", [row EXCEPT !.status = status])
            \/ \E tags \in (SUBSET Tags) \ {row.tags} :
                  /\ ~ TagsCollide(tags)
                  /\ Update("retag", [row EXCEPT !.tags = tags])
            \/ \E label \in Labels \ {row.term} :
                  /\ ~ LabelTaken(glossary, label)
                  /\ Update("rename", [row EXCEPT !.term = label])

\* add_variant, by a review: the variant's status is active or forbidden.
AddVariant ==
    \E c \in Live, v \in AliasIds \ (LiveVariants(glossary) \cup gone), label \in Labels :
        \E type \in {"alias", "forbidden"} :
            /\ ~ LabelTaken(glossary, label)
            /\ EditGlossary("alias",
                   WriteNewVariant(glossary, c, glossary.concepts[c], v, label, type,
                                   IF type = "alias" THEN "active" ELSE "forbidden"))

\* add_relation: stored as approved.
AddRelation ==
    \E c, d \in Live, type \in RelationTypes :
        /\ c # d
        /\ <<c, type, d>> \notin glossary.relations
        /\ EditGlossary("relate", InsertRelation(glossary, <<c, type, d>>))

Without(id, c) == IF id = c THEN None ELSE id

\* delete_concept: issues stay, without their concept (on delete set null).
DeleteAConcept ==
    \E c \in Live :
        /\ Edit("delete")
        /\ glossary' = DeleteConcept(glossary, c)
        /\ gone' = gone \cup {c} \cup VariantsOf(glossary, c)
        /\ issues' = [i \in DOMAIN issues |->
                         [issues[i] EXCEPT !.candidate = Without(@, c),
                                           !.target = Without(@, c)]]

\* A review closes an issue.
CloseIssue ==
    \E i \in DOMAIN issues :
        /\ issues[i].status = "open"
        /\ Edit("review")
        /\ issues' = [issues EXCEPT ![i].status = "rejected"]
        /\ UNCHANGED <<glossary, gone>>

Editor ==
    \/ CreateConcept \/ UpdateConcept \/ AddVariant \/ AddRelation
    \/ DeleteAConcept \/ CloseIssue
=============================================================================
