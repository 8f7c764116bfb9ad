---------------------------- MODULE Workbench_proofs ----------------------------
(***************************************************************************)
(* Proofs about Workbench, for any glossaries to start from, any answers   *)
(* of a model and any bounds: its type invariant, that an export leaves    *)
(* files of one export in a directory and all of them, that issues name    *)
(* concepts that are there, what an analysis says and does not say, that   *)
(* the scores of tags are the sums they are meant to be, and that a        *)
(* context nobody disturbs shows what is there.                            *)
(***************************************************************************)
EXTENDS Workbench, TLAPS, WellFoundedInduction, SequenceTheorems, FiniteSetTheorems

Typed == Glossaries(ConceptIds, VariantIds, Labels, {}, RelationTypes)

-----------------------------------------------------------------------------
(***************************************************************************)
(* The inductive invariant.                                                *)
(***************************************************************************)
StoresOK ==
    /\ glossary \in Typed
    /\ gone \subseteq VariantIds
    /\ search.concepts \in [ConceptIds -> (SUBSET Labels) \cup {None}]
    /\ embedded \subseteq ConceptIds
    /\ \A s \in snapshots : DOMAIN s.nodes \subseteq ConceptIds

IssuesOK ==
    /\ \A i \in DOMAIN issues : issues[i] \in IssueRows
    /\ IssuesNameLiveConcepts

CountersOK == jobs \in Seq(JobKinds) /\ edits \in 0 .. MaxEdits

\* A file in an export directory belongs to the export the directory is named
\* by: its name does, and its content when it was written to its end.
Belongs(f, dir) ==
    /\ f.name \in Range(FileNames) \cup DOMAIN dir.documents
    /\ f.whole =>
          /\ f.name \in {"app_graph", "extraction"} => f.content = dir.graph
          /\ f.name = "projection" => f.content = dir
          /\ f.name \in ConceptIds =>
                f.name \in DOMAIN dir.documents /\ f.content = dir.documents[f.name]

DirsOK == \A dir \in DOMAIN exports : \A f \in exports[dir] : Belongs(f, dir)

GraphFields ==
    {"kind", "alone", "stage", "export", "nodes", "edges", "variants", "documents", "written"}

GraphStages ==
    {"nodes", "variants", "relations", "issues", "persist", "document variants",
     "documents", "extract", "write"}

AllNames == Range(FileNames) \cup DOMAIN job.documents

Names(files) == {f.name : f \in files}

NamesIn(dir) == Names(FilesIn(dir))

Torn(files) == {f \in files : ~ f.whole}

TornIn(dir) == Names(Torn(FilesIn(dir)))

\* What was written is there and whole, and something is left to be written.  As long as
\* nobody edits, nodes and documents are those of the active concepts.
GraphOK ==
    job.kind = "graph" =>
        /\ DOMAIN job = GraphFields
        /\ job.stage \in GraphStages
        /\ DOMAIN job.nodes \subseteq ConceptIds
        /\ DOMAIN job.documents \subseteq ConceptIds
        /\ job.stage # "write" => job.written = {}
        /\ job.stage = "write" =>
              /\ job.written \subseteq NamesIn(SnapshotDir) \ TornIn(SnapshotDir)
              /\ ~ (AllNames \subseteq job.written)
        /\ job.alone /\ job.stage # "nodes" => DOMAIN job.nodes = Active
        /\ job.alone /\ job.stage \in {"extract", "write"} => DOMAIN job.documents = Active

AnalysisFields ==
    {"kind", "alone", "stage", "write", "check", "owners", "outcomes", "attempts", "failure",
     "candidates", "near", "terms", "active", "found"}

AnalysisStages ==
    {"store", "extract", "extracted", "index", "query", "terms", "active", "classify",
     "classified"}

WellTyped(S) == \A f \in S : f.row \in IssueRows

IsFindings(s) == \E S : s \in Seq(S) /\ WellTyped(S)

Candidates == [surface : Labels, tags : SUBSET Tags, sure : BOOLEAN, quoted : BOOLEAN]

TermsOK(terms) == \A t \in terms : t.concept \in ConceptIds /\ t.label \in Labels

AnalysisOK ==
    job.kind = "analysis" =>
        \/ /\ job.stage = "write"
           /\ DOMAIN job = {"kind", "alone", "stage", "todo"}
           /\ IsFindings(job.todo)
        \/ /\ job.stage \in AnalysisStages
           /\ DOMAIN job = AnalysisFields
           /\ IsFindings(job.check) /\ IsFindings(job.found)
           /\ job.candidates \in Seq(Candidates)
           /\ TermsOK(job.terms)
           /\ DOMAIN job.active \subseteq ConceptIds
           /\ job.stage \in {"store", "extract"} =>
                 /\ job.outcomes \in Seq({"invalid"})
                 /\ Len(job.outcomes) < Attempts
                 /\ job.failure = None

JobOK ==
    /\ {"kind", "alone", "stage"} \subseteq DOMAIN job
    /\ job.kind \in {"none", "graph", "explore", "tags", "analysis"}
    /\ job.kind = "none" => job.stage \in Replies
    /\ GraphOK
    /\ AnalysisOK
    /\ AttemptsAgree
    /\ KnownTermsRaiseNothing

IInv == StoresOK /\ IssuesOK /\ CountersOK /\ DirsOK /\ JobOK

LEMMA InvariantImplies ==
    IInv => /\ TypeOK /\ ExportDirsAreOfOnePiece /\ AttemptsAgree
            /\ KnownTermsRaiseNothing /\ IssuesNameLiveConcepts
<1> SUFFICES ASSUME IInv
             PROVE  TypeOK /\ ExportDirsAreOfOnePiece
  BY DEF IInv, JobOK, IssuesOK
<1>1. TypeOK
  BY DEF IInv, JobOK, IssuesOK, StoresOK, CountersOK, TypeOK, JobKinds, Running, Typed
<1>2. ExportDirsAreOfOnePiece
  BY DEF IInv, DirsOK, Belongs, ExportDirsAreOfOnePiece, Whole
<1> QED BY <1>1, <1>2

-----------------------------------------------------------------------------
(***************************************************************************)
(* Ids and their order.                                                    *)
(***************************************************************************)
LEMMA LeastNatural ==
    ASSUME NEW S, S \subseteq Nat, S # {}
    PROVE  \E x \in S : \A y \in S : x <= y
<1>1. PICK x \in S : \A y \in S : ~(<<y, x>> \in OpToRel(<, Nat))
  BY NatLessThanWellFounded, WFMin
<1>2. \A y \in S : ~(y < x)
  <2> SUFFICES ASSUME NEW y \in S, y < x PROVE FALSE
    OBVIOUS
  <2>1. <<y, x>> \in Nat \X Nat /\ <<y, x>>[1] < <<y, x>>[2]
    OBVIOUS
  <2>2. <<y, x>> \in OpToRel(<, Nat)
    BY <2>1 DEF OpToRel
  <2> QED BY <1>1, <2>2
<1> QED BY <1>2

LEMMA IdsAreFinite == IsFiniteSet(ConceptIds) /\ IsFiniteSet(VariantIds)
<1> DEFINE n == Len(Concepts)
<1>1. n \in Nat /\ DOMAIN Concepts = 1 .. n
  BY IdsAssumption, LenProperties
<1>2. ConceptIds = {Concepts[k] : k \in 1 .. n}
  BY <1>1 DEF ConceptIds, Range
<1>3. Concepts \in [1 .. n -> ConceptIds]
  BY IdsAssumption, LenProperties
<1>4. Concepts \in Surjection(1 .. n, ConceptIds)
  <2> HIDE DEF n
  <2> QED BY <1>2, <1>3 DEF Surjection
<1>5. IsFiniteSet(1 .. n)
  BY <1>1, FS_Interval
<1>6. IsFiniteSet(ConceptIds)
  BY <1>4, <1>5, FS_Surjection
<1> QED BY <1>6, IdsAssumption, FS_Union DEF VariantIds

\* Among some concepts one is first and one is last.
LEMMA EndsOfIds ==
    ASSUME NEW ids \in SUBSET ConceptIds, ids # {}
    PROVE  FirstOfIds(ids) \in ids /\ LastOfIds(ids) \in ids
<1> DEFINE n == Len(Concepts)
<1>1. n \in Nat /\ DOMAIN Concepts = 1 .. n
  BY IdsAssumption, LenProperties
<1>2. \A c \in ids : Position(c) \in 1 .. n
  <2> SUFFICES ASSUME NEW c \in ids PROVE Position(c) \in 1 .. n
    OBVIOUS
  <2>1. \E k \in DOMAIN Concepts : Concepts[k] = c
    BY DEF ConceptIds, Range
  <2> QED BY <1>1, <2>1 DEF Position
<1> HIDE DEF n
<1>3. \E c \in ids : \A d \in ids : Position(c) <= Position(d)
  <2> DEFINE S == {Position(c) : c \in ids}
  <2>1. S \subseteq Nat /\ S # {}
    BY <1>1, <1>2
  <2>2. PICK x \in S : \A y \in S : x <= y
    <3> HIDE DEF S
    <3> QED BY <2>1, LeastNatural
  <2> QED BY <2>2
<1>4. \E c \in ids : \A d \in ids : Position(d) <= Position(c)
  <2> DEFINE S == {n - Position(c) : c \in ids}
  <2>1. S \subseteq Nat /\ S # {}
    <3>1. \A c \in ids : n - Position(c) \in Nat
      BY <1>1, <1>2
    <3> QED BY <3>1
  <2>2. PICK x \in S : \A y \in S : x <= y
    <3> HIDE DEF S
    <3> QED BY <2>1, LeastNatural
  <2>3. PICK c \in ids : x = n - Position(c)
    BY <2>2
  <2>4. ASSUME NEW d \in ids PROVE Position(d) <= Position(c)
    <3>1. x <= n - Position(d)
      BY <2>2
    <3> QED BY <1>1, <1>2, <2>3, <3>1
  <2> QED BY <2>4
<1> QED BY <1>3, <1>4 DEF FirstOfIds, LastOfIds

-----------------------------------------------------------------------------
(***************************************************************************)
(* What the editors write.                                                 *)
(***************************************************************************)
\* A row that is written has the type of the rows, and no other row changes.
LEMMA UpsertTyped ==
    ASSUME NEW g \in Typed, NEW c \in ConceptIds,
           NEW row \in ConceptRows(VariantIds, Labels, {})
    PROVE  /\ UpsertConcept(g, c, row) \in Typed
           /\ UpsertConcept(g, c, row).concepts = [g.concepts EXCEPT ![c] = row]
BY DEF UpsertConcept, Typed, Glossaries

LEMMA InsertVariantTyped ==
    ASSUME NEW g \in Typed, NEW v \in VariantIds,
           NEW row \in VariantRows(ConceptIds, Labels)
    PROVE  /\ InsertVariant(g, v, row) \in Typed
           /\ InsertVariant(g, v, row).concepts = g.concepts
BY DEF InsertVariant, Typed, Glossaries

LEMMA ReplaceTagsTyped ==
    ASSUME NEW g \in Typed, NEW c \in ConceptIds, NEW tags \in SUBSET Tags
    PROVE  /\ ReplaceConceptTags(g, c, tags) \in Typed
           /\ ReplaceConceptTags(g, c, tags).concepts = g.concepts
<1> DEFINE labelFor(i) == CHOOSE t \in tags : TagId[t] = i
           linked == {TagId[t] : t \in tags}
           labels == [i \in TagIds |-> IF g.tagLabels[i] = None /\ i \in linked
                                       THEN labelFor(i) ELSE g.tagLabels[i]]
           links == [g.tagLinks EXCEPT ![c] = linked]
           h == [g EXCEPT !.tagLinks = links, !.tagLabels = labels]
<1>1. \A i \in linked : labelFor(i) \in Tags
  OBVIOUS
<1>2. labels \in [TagIds -> Tags \cup {None}]
  <2> HIDE DEF labelFor, linked
  <2> QED BY <1>1 DEF Typed, Glossaries
<1>3. linked \subseteq TagIds
  BY DEF TagIds
<1>4. ReplaceConceptTags(g, c, tags) = h
  BY DEF ReplaceConceptTags, Typed, Glossaries
<1>5. links \in [ConceptIds -> SUBSET TagIds]
  <2> HIDE DEF linked
  <2> QED BY <1>3 DEF Typed, Glossaries
<1> HIDE DEF links, labels
<1>6. h \in Typed /\ h.concepts = g.concepts
  BY <1>2, <1>5 DEF Typed, Glossaries
<1> QED BY <1>4, <1>6

LEMMA NewConceptTyped ==
    ASSUME NEW g \in Typed, NEW c \in ConceptIds, NEW label \in Labels,
           NEW tags \in SUBSET Tags
    PROVE  LET h == WriteNewConcept(g, c, c, label, None, tags)
           IN  /\ h \in Typed
               /\ \A d \in ConceptIds \ {c} : h.concepts[d] = g.concepts[d]
<1> DEFINE row == [term |-> label, status |-> "active", physical |-> None,
                   tags |-> tags, variants |-> {c}]
           primary == [concept |-> c, label |-> label, type |-> "primary",
                       status |-> "active"]
           g1 == UpsertConcept(g, c, row)
           g2 == InsertVariant(g1, c, primary)
<1>1. row \in ConceptRows(VariantIds, Labels, {}) /\ c \in VariantIds
  BY DEF ConceptRows, ConceptStatuses, VariantIds
<1>2. primary \in VariantRows(ConceptIds, Labels)
  BY DEF VariantRows, VariantTypes, VariantStatuses
<1> HIDE DEF row, primary
<1>3. g1 \in Typed /\ g1.concepts = [g.concepts EXCEPT ![c] = row]
  BY <1>1, UpsertTyped
<1> HIDE DEF g1
<1>4. g2 \in Typed /\ g2.concepts = g1.concepts
  BY <1>1, <1>2, <1>3, InsertVariantTyped
<1> HIDE DEF g2
<1>5. WriteNewConcept(g, c, c, label, None, tags) = ReplaceConceptTags(g2, c, tags)
  BY DEF WriteNewConcept, row, primary, g1, g2
<1>6. /\ ReplaceConceptTags(g2, c, tags) \in Typed
      /\ ReplaceConceptTags(g2, c, tags).concepts = g2.concepts
  BY <1>4, ReplaceTagsTyped
<1>7. \A d \in ConceptIds \ {c} : g1.concepts[d] = g.concepts[d]
  BY <1>3 DEF Typed, Glossaries
<1> QED BY <1>4, <1>5, <1>6, <1>7

LEMMA NewVariantTyped ==
    ASSUME NEW g \in Typed, NEW c \in ConceptIds, ConceptExists(g, c),
           NEW v \in AliasIds, NEW label \in Labels,
           NEW type \in {"alias", "forbidden"}, NEW status \in {"active", "forbidden"}
    PROVE  LET h == WriteNewVariant(g, c, g.concepts[c], v, label, type, status)
           IN  /\ h \in Typed
               /\ \A d \in ConceptIds : ConceptExists(g, d) => ConceptExists(h, d)
<1> DEFINE row == [g.concepts[c] EXCEPT !.variants = @ \cup {v}]
           variant == [concept |-> c, label |-> label, type |-> type, status |-> status]
           g1 == InsertVariant(g, v, variant)
<1>1. variant \in VariantRows(ConceptIds, Labels) /\ v \in VariantIds
  BY DEF VariantRows, VariantTypes, VariantStatuses, VariantIds
<1>2. row \in ConceptRows(VariantIds, Labels, {})
  <2>1. g.concepts[c] \in ConceptRows(VariantIds, Labels, {})
    BY DEF ConceptExists, Typed, Glossaries
  <2> QED BY <1>1, <2>1 DEF ConceptRows
<1> HIDE DEF row, variant
<1>3. g1 \in Typed /\ g1.concepts = g.concepts
  BY <1>1, InsertVariantTyped
<1> HIDE DEF g1
<1> DEFINE h == UpsertConcept(g1, c, row)
<1>4. h \in Typed /\ h.concepts = [g1.concepts EXCEPT ![c] = row]
  BY <1>2, <1>3, UpsertTyped
<1>5. WriteNewVariant(g, c, g.concepts[c], v, label, type, status) = h
  BY DEF WriteNewVariant, row, variant, g1, h
<1> HIDE DEF h
<1>6. \A d \in ConceptIds : ConceptExists(g, d) => ConceptExists(h, d)
  BY <1>2, <1>3, <1>4, NoneAssumption DEF ConceptExists, Typed, Glossaries
<1> QED BY <1>4, <1>5, <1>6

LEMMA DeleteTyped ==
    ASSUME NEW g \in Typed, NEW c \in ConceptIds
    PROVE  LET d == DeleteConcept(g, c)
           IN  /\ d \in Typed
               /\ \A x \in ConceptIds \ {c} : ConceptExists(g, x) => ConceptExists(d, x)
<1> DEFINE d == DeleteConcept(g, c)
<1>1. /\ d.concepts = [g.concepts EXCEPT ![c] = None]
      /\ d.variants = [v \in VariantIds |->
                          IF v \in VariantsOf(g, c) THEN None ELSE g.variants[v]]
      /\ d.relations = {r \in g.relations : r[1] # c /\ r[3] # c}
      /\ d.tagLabels = g.tagLabels
      /\ d.tagLinks = [g.tagLinks EXCEPT ![c] = {}]
  BY DEF DeleteConcept, Typed, Glossaries
<1>2. d.concepts \in [ConceptIds -> ConceptRows(VariantIds, Labels, {}) \cup {None}]
  BY <1>1 DEF Typed, Glossaries
<1>3. d.variants \in [VariantIds -> VariantRows(ConceptIds, Labels) \cup {None}]
  BY <1>1 DEF Typed, Glossaries
<1>4. d \in Typed
  BY <1>1, <1>2, <1>3 DEF Typed, Glossaries, DeleteConcept
<1>5. \A x \in ConceptIds \ {c} : ConceptExists(g, x) => ConceptExists(d, x)
  BY <1>1 DEF ConceptExists, Typed, Glossaries
<1> HIDE DEF d
<1> QED BY <1>4, <1>5 DEF d

LEMMA CreatedTyped ==
    ASSUME NEW seeds \in Seeds
    PROVE  Created(seeds) \in Typed
<1> DEFINE g == Created(seeds)
           tags == UNION {seeds[c].tags : c \in DOMAIN seeds}
<1>1. /\ DOMAIN seeds \subseteq ConceptIds
      /\ \A c \in DOMAIN seeds : seeds[c].term \in Labels /\ seeds[c].tags \subseteq Tags
  BY SeedsAssumption
<1>2. tags \subseteq Tags
  BY <1>1
<1>3. g.concepts \in [ConceptIds -> ConceptRows(VariantIds, Labels, {}) \cup {None}]
  <2>1. ASSUME NEW c \in DOMAIN seeds
        PROVE  [term |-> seeds[c].term, status |-> "active", physical |-> None,
                tags |-> seeds[c].tags, variants |-> {c}] \in ConceptRows(VariantIds, Labels, {})
    BY <1>1 DEF ConceptRows, ConceptStatuses, VariantIds
  <2> QED BY <2>1 DEF Created
<1>4. g.variants \in [VariantIds -> VariantRows(ConceptIds, Labels) \cup {None}]
  <2>1. ASSUME NEW v \in DOMAIN seeds
        PROVE  [concept |-> v, label |-> seeds[v].term, type |-> "primary",
                status |-> "active"] \in VariantRows(ConceptIds, Labels)
    BY <1>1 DEF VariantRows, VariantTypes, VariantStatuses
  <2> QED BY <2>1 DEF Created
<1>5. g.relations \in SUBSET (ConceptIds \X RelationTypes \X ConceptIds)
  BY DEF Created
<1>6. g.tagLabels \in [TagIds -> Tags \cup {None}]
  <2>1. g.tagLabels = [i \in TagIds |->
                         IF \E t \in tags : TagId[t] = i
                         THEN CHOOSE t \in tags : TagId[t] = i
                         ELSE None]
    BY DEF Created
  <2> HIDE DEF tags, g
  <2>2. ASSUME NEW i \in TagIds, \E t \in tags : TagId[t] = i
        PROVE  (CHOOSE t \in tags : TagId[t] = i) \in Tags
    BY <1>2, <2>2
  <2> QED BY <2>1, <2>2
<1>7. g.tagLinks \in [ConceptIds -> SUBSET TagIds]
  <2>1. ASSUME NEW c \in DOMAIN seeds PROVE {TagId[t] : t \in seeds[c].tags} \in SUBSET TagIds
    BY <1>1 DEF TagIds
  <2> QED BY <2>1 DEF Created
<1>8. g = [concepts |-> g.concepts, variants |-> g.variants, relations |-> g.relations,
           tagLabels |-> g.tagLabels, tagLinks |-> g.tagLinks]
  BY DEF Created
<1> HIDE DEF g
<1> QED BY <1>3, <1>4, <1>5, <1>6, <1>7, <1>8 DEF Typed, Glossaries, g

-----------------------------------------------------------------------------
(***************************************************************************)
(* Jobs.                                                                   *)
(***************************************************************************)
\* No job is neither an export nor an analysis.
LEMMA NoJobSafe ==
    ASSUME NEW reply \in Replies, job' = Ended(reply)
    PROVE  JobOK' /\ ~ Running'
BY DEF Ended, JobOK, GraphOK, AnalysisOK, AttemptsAgree, KnownTermsRaiseNothing, AnalysisJob,
       Running

\* A context or a list of tags that goes on.
LEMMA OtherJobSafe ==
    ASSUME {"kind", "alone", "stage"} \subseteq DOMAIN job', job'.kind \in {"explore", "tags"}
    PROVE  JobOK'
BY DEF JobOK, GraphOK, AnalysisOK, AttemptsAgree, KnownTermsRaiseNothing, AnalysisJob

\* A step of a job that writes nothing.
LEMMA ReadingSafe ==
    ASSUME IInv, UNCHANGED Tables, UNCHANGED <<jobs, edits>>, JobOK'
    PROVE  IInv'
<1>1. StoresOK' /\ CountersOK' /\ DirsOK'
  BY DEF IInv, Tables, StoresOK, CountersOK, DirsOK, Belongs
<1>2. IssuesOK'
  BY DEF IInv, Tables, IssuesOK, IssuesNameLiveConcepts, Live
<1> QED BY <1>1, <1>2 DEF IInv

LEMMA NewJobSafe ==
    ASSUME IInv, NEW new, Begin(new), UNCHANGED <<Tables, edits>>, JobOK'
    PROVE  IInv'
<1>1. StoresOK' /\ DirsOK'
  BY DEF IInv, Tables, StoresOK, DirsOK, Belongs
<1>2. IssuesOK'
  BY DEF IInv, Tables, IssuesOK, IssuesNameLiveConcepts, Live
<1>3. CountersOK'
  BY BoundsAssumption DEF IInv, CountersOK, Begin
<1> QED BY <1>1, <1>2, <1>3 DEF IInv

LEMMA InitSafe == Init => IInv
<1> SUFFICES ASSUME Init PROVE IInv
  OBVIOUS
<1>1. glossary \in Typed
  BY CreatedTyped DEF Init
<1>2. StoresOK
  BY <1>1 DEF Init, StoresOK, NoSearchRows
<1>3. IssuesOK /\ CountersOK /\ DirsOK
  BY BoundsAssumption DEF Init, IssuesOK, IssuesNameLiveConcepts, CountersOK, DirsOK
<1>4. JobOK
  BY DEF Init, Ended, JobOK, GraphOK, AnalysisOK, AttemptsAgree, KnownTermsRaiseNothing,
         AnalysisJob, Replies
<1> QED BY <1>2, <1>3, <1>4 DEF IInv

-----------------------------------------------------------------------------
(***************************************************************************)
(* The editors, and rebuilds.                                              *)
(***************************************************************************)
\* The job that is running is the same, but it is not alone.
LEMMA EditedJobSafe ==
    ASSUME IInv, NEW kind, Edit(kind)
    PROVE  JobOK'
<1>1. /\ job' = [job EXCEPT !.alone = ~ Running]
      /\ exports' = exports
      /\ {"kind", "alone", "stage"} \subseteq DOMAIN job
  BY DEF Edit, IInv, JobOK
<1>2. /\ DOMAIN job' = DOMAIN job /\ job'.kind = job.kind /\ job'.stage = job.stage
      /\ job'.alone = (~ Running)
      /\ \A f \in (DOMAIN job) \ {"alone"} : job'[f] = job[f]
  BY <1>1
<1>3. GraphOK'
  <2> SUFFICES ASSUME job.kind = "graph" PROVE GraphOK'
    BY <1>2 DEF GraphOK
  <2>1. /\ DOMAIN job = GraphFields /\ ~ job'.alone
    BY <1>2 DEF IInv, JobOK, GraphOK, Running
  <2>2. /\ job'.nodes = job.nodes /\ job'.documents = job.documents
        /\ job'.edges = job.edges /\ job'.written = job.written
    BY <1>2, <2>1 DEF GraphFields
  <2>3. /\ AllNames' = AllNames /\ NamesIn(SnapshotDir)' = NamesIn(SnapshotDir)
        /\ TornIn(SnapshotDir)' = TornIn(SnapshotDir)
    BY <1>1, <2>2 DEF AllNames, NamesIn, TornIn, FilesIn, SnapshotDir, Projection, Graph
  <2> QED BY <1>2, <2>1, <2>2, <2>3 DEF IInv, JobOK, GraphOK
<1>4. CASE job.kind # "analysis"
  BY <1>2, <1>3, <1>4 DEF IInv, JobOK, AnalysisOK, AttemptsAgree, KnownTermsRaiseNothing,
                          AnalysisJob
<1>5. CASE job.kind = "analysis" /\ job.stage = "write"
  <2>1. DOMAIN job = {"kind", "alone", "stage", "todo"} /\ IsFindings(job.todo)
    BY <1>5 DEF IInv, JobOK, AnalysisOK, AnalysisStages
  <2>2. job'.todo = job.todo
    BY <1>2, <2>1
  <2> QED BY <1>2, <1>3, <1>5, <2>1, <2>2
        DEF IInv, JobOK, AnalysisOK, AttemptsAgree, KnownTermsRaiseNothing, AnalysisJob,
            IsFindings
<1>6. CASE job.kind = "analysis" /\ job.stage # "write"
  <2>1. DOMAIN job = AnalysisFields
    BY <1>6 DEF IInv, JobOK, AnalysisOK
  <2>2. /\ job'.check = job.check /\ job'.found = job.found
        /\ job'.candidates = job.candidates /\ job'.terms = job.terms
        /\ job'.active = job.active /\ job'.outcomes = job.outcomes
        /\ job'.attempts = job.attempts /\ job'.failure = job.failure
    BY <1>2, <2>1 DEF AnalysisFields
  <2>3. AnalysisOK'
    BY <1>2, <1>6, <2>1, <2>2 DEF IInv, JobOK, AnalysisOK, IsFindings, TermsOK
  <2>4. AttemptsAgree'
    BY <1>2, <2>2 DEF IInv, JobOK, AttemptsAgree, AnalysisJob, Running
  <2>5. KnownTermsRaiseNothing'
    BY <1>2, <2>2 DEF IInv, JobOK, KnownTermsRaiseNothing, SpeaksOf, Quoted, AnalysisJob, Running
  <2> QED BY <1>2, <1>3, <2>3, <2>4, <2>5 DEF IInv, JobOK
<1> QED BY <1>4, <1>5, <1>6

LEMMA EditSafe ==
    ASSUME IInv, NEW kind, Edit(kind), glossary' \in Typed, gone' \subseteq VariantIds, IssuesOK'
    PROVE  IInv'
<1>1. JobOK'
  BY EditedJobSafe
<1>2. StoresOK' /\ CountersOK' /\ DirsOK'
  BY BoundsAssumption DEF IInv, StoresOK, CountersOK, DirsOK, Belongs, Edit
<1> QED BY <1>1, <1>2 DEF IInv

\* Issues keep to concepts that exist, when those stay.
LEMMA GlossaryEditSafe ==
    ASSUME IInv, NEW kind, NEW new \in Typed, EditGlossary(kind, new),
           \A d \in ConceptIds : ConceptExists(glossary, d) => ConceptExists(new, d)
    PROVE  IInv'
<1>1. /\ Edit(kind) /\ glossary' = new /\ gone' = gone /\ issues' = issues
  BY DEF EditGlossary
<1>2. Live \subseteq Live'
  BY <1>1 DEF Live
<1>3. IssuesOK'
  BY <1>1, <1>2 DEF IInv, IssuesOK, IssuesNameLiveConcepts
<1> QED BY <1>1, <1>3, EditSafe DEF IInv, StoresOK

LEMMA CreateConceptSafe == IInv /\ CreateConcept => IInv'
<1> SUFFICES ASSUME IInv, CreateConcept PROVE IInv'
  OBVIOUS
<1>1. PICK c \in ConceptIds \ (Live \cup gone), label \in Labels, tags \in SUBSET Tags :
         EditGlossary("create", WriteNewConcept(glossary, c, c, label, None, tags))
  BY DEF CreateConcept
<1> DEFINE h == WriteNewConcept(glossary, c, c, label, None, tags)
<1>2. glossary \in Typed
  BY DEF IInv, StoresOK
<1>3. h \in Typed /\ \A d \in ConceptIds \ {c} : h.concepts[d] = glossary.concepts[d]
  BY <1>2, NewConceptTyped
<1>4. ~ ConceptExists(glossary, c)
  BY DEF Live
<1> HIDE DEF h
<1>5. \A d \in ConceptIds : ConceptExists(glossary, d) => ConceptExists(h, d)
  BY <1>2, <1>3, <1>4 DEF ConceptExists, Typed, Glossaries
<1>6. EditGlossary("create", h)
  BY <1>1 DEF h
<1> QED BY <1>3, <1>5, <1>6, GlossaryEditSafe

LEMMA UpdateConceptSafe == IInv /\ UpdateConcept => IInv'
<1> SUFFICES ASSUME IInv, UpdateConcept PROVE IInv'
  OBVIOUS
<1>1. PICK c \in Live, kind \in Edits, new \in ConceptRows(VariantIds, Labels, {}) :
         EditGlossary(kind, ReplaceConceptTags(UpsertConcept(glossary, c, new), c, new.tags))
  <2>1. PICK c \in Live : c \in ConceptIds /\ glossary.concepts[c] # None /\
           \/ \E status \in ConceptStatuses :
                 EditGlossary("status", ReplaceConceptTags(
                     UpsertConcept(glossary, c, [glossary.concepts[c] EXCEPT !.status = status]),
                     c, [glossary.concepts[c] EXCEPT !.status = status].tags))
           \/ \E tags \in SUBSET Tags :
                 EditGlossary("retag", ReplaceConceptTags(
                     UpsertConcept(glossary, c, [glossary.concepts[c] EXCEPT !.tags = tags]),
                     c, [glossary.concepts[c] EXCEPT !.tags = tags].tags))
           \/ \E label \in Labels :
                 EditGlossary("rename", ReplaceConceptTags(
                     UpsertConcept(glossary, c, [glossary.concepts[c] EXCEPT !.term = label]),
                     c, [glossary.concepts[c] EXCEPT !.term = label].tags))
    BY DEF UpdateConcept, Live, ConceptExists
  <2> DEFINE row == glossary.concepts[c]
  <2>2. row \in ConceptRows(VariantIds, Labels, {})
    BY <2>1 DEF IInv, StoresOK, Typed, Glossaries
  <2>3. /\ \A status \in ConceptStatuses :
              [row EXCEPT !.status = status] \in ConceptRows(VariantIds, Labels, {})
        /\ \A tags \in SUBSET Tags :
              [row EXCEPT !.tags = tags] \in ConceptRows(VariantIds, Labels, {})
        /\ \A label \in Labels :
              [row EXCEPT !.term = label] \in ConceptRows(VariantIds, Labels, {})
    <3> HIDE DEF row
    <3> QED BY <2>2 DEF ConceptRows
  <2>4. \A kind, new : EditGlossary(kind, new) => kind \in Edits
    BY DEF EditGlossary, Edit
  <2> QED BY <2>1, <2>3, <2>4
<1> DEFINE g1 == UpsertConcept(glossary, c, new)
           h == ReplaceConceptTags(g1, c, new.tags)
<1>2. glossary \in Typed /\ c \in ConceptIds /\ new.tags \in SUBSET Tags
  BY DEF IInv, StoresOK, Live, ConceptRows
<1>3. g1 \in Typed /\ g1.concepts = [glossary.concepts EXCEPT ![c] = new]
  BY <1>2, UpsertTyped
<1> HIDE DEF g1
<1>4. h \in Typed /\ h.concepts = g1.concepts
  BY <1>2, <1>3, ReplaceTagsTyped
<1>5. EditGlossary(kind, h)
  BY <1>1 DEF g1
<1> HIDE DEF h
<1>6. \A d \in ConceptIds : ConceptExists(glossary, d) => ConceptExists(h, d)
  BY <1>2, <1>3, <1>4, NoneAssumption DEF ConceptExists, Typed, Glossaries
<1> QED BY <1>4, <1>5, <1>6, GlossaryEditSafe

LEMMA AddVariantSafe == IInv /\ AddVariant => IInv'
<1> SUFFICES ASSUME IInv, AddVariant PROVE IInv'
  OBVIOUS
<1>1. PICK c \in Live, v \in AliasIds, label \in Labels, type \in {"alias", "forbidden"} :
         EditGlossary("alias",
             WriteNewVariant(glossary, c, glossary.concepts[c], v, label, type,
                             IF type = "alias" THEN "active" ELSE "forbidden"))
  BY DEF AddVariant
<1> DEFINE status == IF type = "alias" THEN "active" ELSE "forbidden"
           h == WriteNewVariant(glossary, c, glossary.concepts[c], v, label, type, status)
<1>2. glossary \in Typed /\ c \in ConceptIds /\ ConceptExists(glossary, c)
  BY DEF IInv, StoresOK, Live
<1>3. status \in {"active", "forbidden"}
  OBVIOUS
<1> HIDE DEF status
<1>4. h \in Typed /\ \A d \in ConceptIds : ConceptExists(glossary, d) => ConceptExists(h, d)
  BY <1>2, <1>3, NewVariantTyped
<1>5. EditGlossary("alias", h)
  BY <1>1 DEF status
<1> HIDE DEF h
<1> QED BY <1>4, <1>5, GlossaryEditSafe

LEMMA AddRelationSafe == IInv /\ AddRelation => IInv'
<1> SUFFICES ASSUME IInv, AddRelation PROVE IInv'
  OBVIOUS
<1>1. PICK c \in Live, d \in Live, type \in RelationTypes :
         EditGlossary("relate", InsertRelation(glossary, <<c, type, d>>))
  BY DEF AddRelation
<1> DEFINE h == InsertRelation(glossary, <<c, type, d>>)
<1>2. glossary \in Typed /\ <<c, type, d>> \in ConceptIds \X RelationTypes \X ConceptIds
  BY DEF IInv, StoresOK, Live
<1>3. h \in Typed /\ h.concepts = glossary.concepts
  BY <1>2 DEF Typed, Glossaries, InsertRelation
<1>4. EditGlossary("relate", h)
  BY <1>1
<1> HIDE DEF h
<1>5. \A x \in ConceptIds : ConceptExists(glossary, x) => ConceptExists(h, x)
  BY <1>3 DEF ConceptExists
<1> QED BY <1>3, <1>4, <1>5, GlossaryEditSafe

\* The issues that named the concept name none.
LEMMA DeleteAConceptSafe == IInv /\ DeleteAConcept => IInv'
<1> SUFFICES ASSUME IInv, DeleteAConcept PROVE IInv'
  OBVIOUS
<1>1. PICK c \in Live :
         /\ Edit("delete")
         /\ glossary' = DeleteConcept(glossary, c)
         /\ gone' = gone \cup {c} \cup VariantsOf(glossary, c)
         /\ issues' = [i \in DOMAIN issues |->
                          [issues[i] EXCEPT !.candidate = Without(issues[i].candidate, c),
                                            !.target = Without(issues[i].target, c)]]
  BY DEF DeleteAConcept
<1>2. glossary \in Typed /\ c \in ConceptIds
  BY DEF IInv, StoresOK, Live
<1>3. /\ glossary' \in Typed
      /\ \A x \in ConceptIds \ {c} : ConceptExists(glossary, x) => ConceptExists(glossary', x)
  BY <1>1, <1>2, DeleteTyped
<1>4. gone' \subseteq VariantIds
  BY <1>1, <1>2 DEF IInv, StoresOK, VariantsOf, LiveVariants, Typed, Glossaries, VariantIds
<1>5. ASSUME NEW i \in DOMAIN issues
      PROVE  /\ issues'[i] \in IssueRows
             /\ {issues'[i].candidate, issues'[i].target} \subseteq Live' \cup {None}
  <2>1. /\ issues[i] \in IssueRows
        /\ {issues[i].candidate, issues[i].target} \subseteq Live \cup {None}
    BY DEF IInv, IssuesOK, IssuesNameLiveConcepts
  <2>2. issues'[i] = [issues[i] EXCEPT !.candidate = Without(issues[i].candidate, c),
                                       !.target = Without(issues[i].target, c)]
    BY <1>1
  <2>3. \A x \in Live \cup {None} : Without(x, c) \in Live' \cup {None}
    BY <1>3 DEF Without, Live
  <2>4. \A x \in ConceptIds \cup {None} : Without(x, c) \in ConceptIds \cup {None}
    BY DEF Without
  <2>5. /\ issues'[i].candidate = Without(issues[i].candidate, c)
        /\ issues'[i].target = Without(issues[i].target, c)
    BY <2>1, <2>2 DEF IssueRows
  <2>6. issues'[i] \in IssueRows
    BY <2>1, <2>2, <2>4 DEF IssueRows
  <2> QED BY <2>1, <2>3, <2>5, <2>6
<1>6. IssuesOK'
  <2>1. DOMAIN issues' = DOMAIN issues
    BY <1>1
  <2>2. (\A i \in DOMAIN issues : issues[i] \in IssueRows)'
    BY <1>5, <2>1 DEF IssueRows
  <2> QED BY <1>5, <2>1, <2>2 DEF IssuesOK, IssuesNameLiveConcepts
<1> QED BY <1>1, <1>3, <1>4, <1>6, EditSafe

LEMMA CloseIssueSafe == IInv /\ CloseIssue => IInv'
<1> SUFFICES ASSUME IInv, CloseIssue PROVE IInv'
  OBVIOUS
<1>1. PICK i \in DOMAIN issues :
         /\ Edit("review")
         /\ issues' = [issues EXCEPT ![i].status = "rejected"]
         /\ glossary' = glossary /\ gone' = gone
  BY DEF CloseIssue
<1>2. \A j \in DOMAIN issues : issues[j] \in IssueRows
  BY DEF IInv, IssuesOK
<1>3. /\ DOMAIN issues' = DOMAIN issues
      /\ \A j \in DOMAIN issues :
            /\ issues'[j] \in IssueRows
            /\ issues'[j].candidate = issues[j].candidate
            /\ issues'[j].target = issues[j].target
  <2>1. DOMAIN issues' = DOMAIN issues
    BY <1>1
  <2>2. ASSUME NEW j \in DOMAIN issues, j # i PROVE issues'[j] = issues[j]
    BY <1>1, <2>2
  <2>3. issues'[i] = [issues[i] EXCEPT !.status = "rejected"]
    BY <1>1
  <2>4. /\ issues'[i] \in IssueRows
        /\ issues'[i].candidate = issues[i].candidate
        /\ issues'[i].target = issues[i].target
    BY <1>2, <2>3 DEF IssueRows
  <2> QED BY <1>2, <2>1, <2>2, <2>4
<1>4. Live' = Live
  BY <1>1 DEF Live
<1>5. IssuesOK'
  <2>1. (\A j \in DOMAIN issues : issues[j] \in IssueRows)'
    BY <1>3 DEF IssueRows
  <2> QED BY <1>3, <1>4, <2>1 DEF IInv, IssuesOK, IssuesNameLiveConcepts
<1> QED BY <1>1, <1>5, EditSafe DEF IInv, StoresOK

LEMMA EditorSafe == IInv /\ Editor => IInv'
BY CreateConceptSafe, UpdateConceptSafe, AddVariantSafe, AddRelationSafe, DeleteAConceptSafe,
   CloseIssueSafe DEF Editor

LEMMA RebuildSearchSafe == IInv /\ RebuildSearch => IInv'
<1> SUFFICES ASSUME IInv, RebuildSearch PROVE IInv'
  OBVIOUS
<1>1. UNCHANGED <<glossary, gone, issues, embedded, snapshots, exports, job, jobs, edits>>
  BY DEF RebuildSearch
<1>2. ASSUME NEW c \in Live PROVE SearchLabels(c) \subseteq Labels
  BY DEF IInv, StoresOK, SearchLabels, VariantsOf, LiveVariants, Live, ConceptExists, Typed,
         Glossaries, ConceptRows, VariantRows
<1>3. search'.concepts \in [ConceptIds -> (SUBSET Labels) \cup {None}]
  BY <1>2 DEF RebuildSearch
<1>4. StoresOK'
  BY <1>1, <1>3 DEF IInv, StoresOK
<1>5. IssuesOK' /\ CountersOK' /\ DirsOK'
  BY <1>1 DEF IInv, IssuesOK, IssuesNameLiveConcepts, Live, CountersOK, DirsOK, Belongs
<1>6. /\ Active' = Active /\ NamesIn(SnapshotDir)' = NamesIn(SnapshotDir)
      /\ TornIn(SnapshotDir)' = TornIn(SnapshotDir)
  BY <1>1 DEF Active, Live, NamesIn, TornIn, FilesIn, SnapshotDir, Projection, Graph
<1>7. JobOK'
  BY <1>1, <1>6 DEF IInv, JobOK, GraphOK, AllNames, AnalysisOK, AttemptsAgree,
                    KnownTermsRaiseNothing, AnalysisJob, Running, SpeaksOf, Quoted
<1> QED BY <1>4, <1>5, <1>7 DEF IInv

-----------------------------------------------------------------------------
(***************************************************************************)
(* The export.                                                             *)
(***************************************************************************)
LEMMA ActiveIds == Active \subseteq ConceptIds
BY DEF Active, Live

LEMMA GraphJobSafe ==
    ASSUME job'.kind = "graph", DOMAIN job' = GraphFields, GraphOK'
    PROVE  JobOK'
BY DEF GraphFields, JobOK, AnalysisOK, AttemptsAgree, KnownTermsRaiseNothing, AnalysisJob

LEMMA StartGraphSafe == IInv /\ StartGraph => IInv'
<1> SUFFICES ASSUME IInv, StartGraph PROVE IInv'
  OBVIOUS
<1> DEFINE new(export) ==
             [kind |-> "graph", alone |-> TRUE, stage |-> "nodes", export |-> export,
              nodes |-> <<>>, edges |-> {}, variants |-> <<>>, documents |-> <<>>,
              written |-> {}]
<1>1. PICK export \in BOOLEAN : Begin(new(export)) /\ UNCHANGED <<Tables, edits>>
  BY DEF StartGraph
<1>2. job' = new(export)
  BY <1>1 DEF Begin
<1>3. /\ DOMAIN job' = GraphFields /\ job'.kind = "graph" /\ job'.stage = "nodes"
      /\ DOMAIN job'.nodes = {} /\ DOMAIN job'.documents = {} /\ job'.written = {}
  BY <1>2 DEF GraphFields
<1>4. JobOK'
  BY <1>3, GraphJobSafe DEF GraphOK, GraphStages
<1> QED BY <1>1, <1>4, NewJobSafe

\* The edges are read, or the snapshot is written: what was read stays.
LEMMA EdgeReadingSafe ==
    ASSUME IInv, job.kind = "graph", glossary' = glossary,
           job.stage \in {"variants", "relations", "issues", "persist", "document variants"},
           DOMAIN job' = DOMAIN job,
           job'.stage \in {"relations", "issues", "persist", "document variants", "documents"},
           \A f \in {"kind", "alone", "nodes", "documents", "written"} : job'[f] = job[f]
    PROVE  JobOK'
<1>1. /\ job'.kind = "graph" /\ job'.alone = job.alone /\ job'.nodes = job.nodes
      /\ job'.documents = job.documents /\ job'.written = job.written
  OBVIOUS
<1>2. Active' = Active
  BY DEF Active, Live
<1>3. DOMAIN job' = GraphFields /\ GraphOK'
  BY <1>1, <1>2 DEF IInv, JobOK, GraphOK, GraphStages
<1> QED BY <1>1, <1>3, GraphJobSafe

LEMMA ReadNodesSafe == IInv /\ ReadNodes => IInv'
<1> SUFFICES ASSUME IInv, ReadNodes PROVE IInv'
  OBVIOUS
<1> DEFINE nodes == [c \in Active |-> glossary.concepts[c].term]
<1>1. /\ job.kind = "graph" /\ job.stage = "nodes" /\ DOMAIN job = GraphFields
      /\ DOMAIN job.documents \subseteq ConceptIds /\ job.written = {}
  BY DEF ReadNodes, GraphJob, IInv, JobOK, GraphOK
<1>2. /\ job' = [At("variants") EXCEPT !.nodes = nodes]
      /\ UNCHANGED Tables /\ UNCHANGED <<jobs, edits>>
  BY DEF ReadNodes, Advance
<1>3. DOMAIN nodes = Active
  OBVIOUS
<1> HIDE DEF nodes
<1>4. /\ DOMAIN job' = GraphFields /\ job'.kind = "graph" /\ job'.stage = "variants"
      /\ job'.nodes = nodes /\ job'.documents = job.documents /\ job'.written = job.written
  BY <1>1, <1>2 DEF At, GraphFields
<1>5. Active' = Active
  BY <1>2 DEF Active, Live, Tables
<1>6. JobOK'
  BY <1>1, <1>3, <1>4, <1>5, ActiveIds, GraphJobSafe DEF GraphOK, GraphStages
<1> QED BY <1>2, <1>6, ReadingSafe

LEMMA ReadVariantEdgesSafe == IInv /\ ReadVariantEdges => IInv'
<1> SUFFICES ASSUME IInv, ReadVariantEdges PROVE IInv'
  OBVIOUS
<1>1. job.kind = "graph" /\ job.stage = "variants" /\ DOMAIN job = GraphFields
  BY DEF ReadVariantEdges, GraphJob, IInv, JobOK, GraphOK
<1>2. /\ job' = [At("relations") EXCEPT !.edges = VariantEdges]
      /\ UNCHANGED Tables /\ UNCHANGED <<jobs, edits>>
  BY DEF ReadVariantEdges, Advance
<1>3. /\ DOMAIN job' = DOMAIN job /\ job'.stage = "relations"
      /\ \A f \in {"kind", "alone", "nodes", "documents", "written"} : job'[f] = job[f]
  BY <1>1, <1>2 DEF At, GraphFields
<1>4. JobOK'
  BY <1>1, <1>2, <1>3, EdgeReadingSafe DEF Tables
<1> QED BY <1>2, <1>4, ReadingSafe

LEMMA ReadRelationEdgesSafe == IInv /\ ReadRelationEdges => IInv'
<1> SUFFICES ASSUME IInv, ReadRelationEdges PROVE IInv'
  OBVIOUS
<1>1. job.kind = "graph" /\ job.stage = "relations" /\ DOMAIN job = GraphFields
  BY DEF ReadRelationEdges, GraphJob, IInv, JobOK, GraphOK
<1>2. /\ \/ job' = Ended("invalid_graph_relation")
         \/ job' = [At("issues") EXCEPT !.edges = job.edges \cup RelationEdges]
      /\ UNCHANGED Tables /\ UNCHANGED <<jobs, edits>>
  BY <1>1 DEF ReadRelationEdges, Advance, At, GraphFields
<1>3. CASE job' = Ended("invalid_graph_relation")
  BY <1>2, <1>3, NoJobSafe, ReadingSafe DEF Replies
<1>4. CASE job' = [At("issues") EXCEPT !.edges = job.edges \cup RelationEdges]
  <2>1. /\ DOMAIN job' = DOMAIN job /\ job'.stage = "issues"
        /\ \A f \in {"kind", "alone", "nodes", "documents", "written"} : job'[f] = job[f]
    BY <1>1, <1>4 DEF At, GraphFields
  <2>2. JobOK'
    BY <1>1, <1>2, <2>1, EdgeReadingSafe DEF Tables
  <2> QED BY <1>2, <2>2, ReadingSafe
<1> QED BY <1>2, <1>3, <1>4

LEMMA ReadIssueEdgesSafe == IInv /\ ReadIssueEdges => IInv'
<1> SUFFICES ASSUME IInv, ReadIssueEdges PROVE IInv'
  OBVIOUS
<1>1. job.kind = "graph" /\ job.stage = "issues" /\ DOMAIN job = GraphFields
  BY DEF ReadIssueEdges, GraphJob, IInv, JobOK, GraphOK
<1>2. /\ job' = [At("persist") EXCEPT !.edges = job.edges \cup IssueEdges]
      /\ UNCHANGED Tables /\ UNCHANGED <<jobs, edits>>
  BY <1>1 DEF ReadIssueEdges, Advance, At, GraphFields
<1>3. /\ DOMAIN job' = DOMAIN job /\ job'.stage = "persist"
      /\ \A f \in {"kind", "alone", "nodes", "documents", "written"} : job'[f] = job[f]
  BY <1>1, <1>2 DEF At, GraphFields
<1>4. JobOK'
  BY <1>1, <1>2, <1>3, EdgeReadingSafe DEF Tables
<1> QED BY <1>2, <1>4, ReadingSafe

LEMMA PersistSnapshotSafe == IInv /\ PersistSnapshot => IInv'
<1> SUFFICES ASSUME IInv, PersistSnapshot PROVE IInv'
  OBVIOUS
<1>1. /\ job.kind = "graph" /\ job.stage = "persist" /\ DOMAIN job = GraphFields
      /\ DOMAIN job.nodes \subseteq ConceptIds
  BY DEF PersistSnapshot, GraphJob, IInv, JobOK, GraphOK
<1>2. /\ snapshots' = snapshots \cup {Graph}
      /\ job' = At("document variants") \/ job' = Ended("graph")
      /\ UNCHANGED <<glossary, gone, issues, search, embedded, exports, jobs, edits>>
  BY DEF PersistSnapshot, Advance
<1>3. JobOK'
  <2>1. CASE job' = Ended("graph")
    BY <2>1, NoJobSafe DEF Replies
  <2>2. CASE job' = At("document variants")
    <3>1. /\ DOMAIN job' = DOMAIN job /\ job'.stage = "document variants"
          /\ \A f \in {"kind", "alone", "nodes", "documents", "written"} : job'[f] = job[f]
      BY <1>1, <2>2 DEF At, GraphFields
    <3> QED BY <1>1, <1>2, <3>1, EdgeReadingSafe
  <2> QED BY <1>2, <2>1, <2>2
<1>4. StoresOK'
  <2>1. DOMAIN Graph.nodes \subseteq ConceptIds
    BY <1>1 DEF Graph
  <2>2. \A s \in snapshots' : DOMAIN s.nodes \subseteq ConceptIds
    BY <1>2, <2>1 DEF IInv, StoresOK
  <2> QED BY <1>2, <2>2 DEF IInv, StoresOK
<1>5. IssuesOK'
  BY <1>2 DEF IInv, IssuesOK, IssuesNameLiveConcepts, Live
<1>6. CountersOK' /\ DirsOK'
  BY <1>2 DEF IInv, CountersOK, DirsOK, Belongs
<1> QED BY <1>3, <1>4, <1>5, <1>6 DEF IInv

LEMMA ReadDocumentVariantsSafe == IInv /\ ReadDocumentVariants => IInv'
<1> SUFFICES ASSUME IInv, ReadDocumentVariants PROVE IInv'
  OBVIOUS
<1>1. job.kind = "graph" /\ job.stage = "document variants" /\ DOMAIN job = GraphFields
  BY DEF ReadDocumentVariants, GraphJob, IInv, JobOK, GraphOK
<1>2. /\ job' = [At("documents") EXCEPT !.variants = glossary.variants]
      /\ UNCHANGED Tables /\ UNCHANGED <<jobs, edits>>
  BY DEF ReadDocumentVariants, Advance
<1>3. /\ DOMAIN job' = DOMAIN job /\ job'.stage = "documents"
      /\ \A f \in {"kind", "alone", "nodes", "documents", "written"} : job'[f] = job[f]
  BY <1>1, <1>2 DEF At, GraphFields
<1>4. JobOK'
  BY <1>1, <1>2, <1>3, EdgeReadingSafe DEF Tables
<1> QED BY <1>2, <1>4, ReadingSafe

LEMMA ReadDocumentsSafe == IInv /\ ReadDocuments => IInv'
<1> SUFFICES ASSUME IInv, ReadDocuments PROVE IInv'
  OBVIOUS
<1> DEFINE documents == [c \in Active |-> Document(c, job.variants)]
<1>1. /\ job.kind = "graph" /\ job.stage = "documents" /\ DOMAIN job = GraphFields
      /\ DOMAIN job.nodes \subseteq ConceptIds /\ job.written = {}
      /\ job.alone => DOMAIN job.nodes = Active
  BY DEF ReadDocuments, GraphJob, IInv, JobOK, GraphOK
<1>2. /\ job' = [At("extract") EXCEPT !.documents = documents]
      /\ UNCHANGED Tables /\ UNCHANGED <<jobs, edits>>
  BY DEF ReadDocuments, Advance
<1>3. DOMAIN documents = Active
  OBVIOUS
<1> HIDE DEF documents
<1>4. /\ DOMAIN job' = GraphFields /\ job'.kind = "graph" /\ job'.stage = "extract"
      /\ job'.nodes = job.nodes /\ job'.documents = documents /\ job'.written = job.written
      /\ job'.alone = job.alone
  BY <1>1, <1>2 DEF At, GraphFields
<1>5. Active' = Active
  BY <1>2 DEF Active, Live, Tables
<1>6. JobOK'
  BY <1>1, <1>3, <1>4, <1>5, ActiveIds, GraphJobSafe DEF GraphOK, GraphStages
<1> QED BY <1>2, <1>6, ReadingSafe

LEMMA ExtractSafe == IInv /\ Extract => IInv'
<1> SUFFICES ASSUME IInv, Extract PROVE IInv'
  OBVIOUS
<1>1. /\ job.kind = "graph" /\ job.stage = "extract" /\ DOMAIN job = GraphFields
      /\ DOMAIN job.nodes \subseteq ConceptIds /\ job.written = {}
      /\ DOMAIN job.documents \subseteq ConceptIds
      /\ job.alone => DOMAIN job.nodes = Active /\ DOMAIN job.documents = Active
  BY DEF Extract, GraphJob, IInv, JobOK, GraphOK
<1>2. /\ job' = At("write") \/ job' = Ended("key_error")
      /\ UNCHANGED Tables /\ UNCHANGED <<jobs, edits>>
  BY DEF Extract, Advance
<1>3. CASE job' = Ended("key_error")
  BY <1>2, <1>3, NoJobSafe, ReadingSafe DEF Replies
<1>4. CASE job' = At("write")
  <2>1. /\ DOMAIN job' = GraphFields /\ job'.kind = "graph" /\ job'.stage = "write"
        /\ job'.nodes = job.nodes /\ job'.documents = job.documents /\ job'.written = job.written
        /\ job'.alone = job.alone
    BY <1>1, <1>4 DEF At, GraphFields
  <2>2. "app_graph" \in AllNames'
    BY DEF AllNames, FileNames, Range
  <2>3. Active' = Active
    BY <1>2 DEF Active, Live, Tables
  <2>4. JobOK'
    BY <1>1, <2>1, <2>2, <2>3, GraphJobSafe DEF GraphOK, GraphStages
  <2> QED BY <1>2, <2>4, ReadingSafe
<1> QED BY <1>2, <1>3, <1>4

\* The next file is one that is not yet written.
LEMMA NextFileIsNext ==
    ASSUME DOMAIN job.documents \subseteq ConceptIds, ToWrite # {}
    PROVE  NextFile \in ToWrite
<1>1. CASE \E k \in DOMAIN FileNames : FileNames[k] \in ToWrite
  <2> DEFINE waiting == {k \in DOMAIN FileNames : FileNames[k] \in ToWrite}
  <2>1. waiting \subseteq Nat /\ waiting # {}
    BY <1>1 DEF FileNames
  <2>2. \E k \in waiting : \A m \in waiting : k <= m
    <3> HIDE DEF waiting
    <3> QED BY <2>1, LeastNatural
  <2>3. (CHOOSE k \in waiting : \A m \in waiting : k <= m) \in waiting
    BY <2>2
  <2> QED BY <1>1, <2>3 DEF NextFile
<1>2. CASE ~ \E k \in DOMAIN FileNames : FileNames[k] \in ToWrite
  <2>1. ToWrite \subseteq DOMAIN job.documents
    BY <1>2 DEF ToWrite, Contents, Range
  <2> QED BY <1>2, <2>1, EndsOfIds DEF NextFile
<1> QED BY <1>1, <1>2

\* A file is written into the directory of its own export, to its end or not.
LEMMA WithFileShape ==
    ASSUME IInv, GraphJob("write"), NEW file, exports' = WithFile(file),
           file.name = NextFile, file.whole => file.content = Contents[NextFile]
    PROVE  /\ DirsOK'
           /\ SnapshotDir \in DOMAIN exports'
           /\ Names(exports'[SnapshotDir]) = NamesIn(SnapshotDir) \cup {NextFile}
           /\ file.whole =>
                 Names(Torn(exports'[SnapshotDir])) \subseteq TornIn(SnapshotDir) \ {NextFile}
           /\ NextFile \in ToWrite
           /\ ToWrite = AllNames \ job.written
<1> DEFINE dir == SnapshotDir
           next == NextFile
           kept == {f \in FilesIn(dir) : f.name # next}
<1>1. /\ job.kind = "graph" /\ job.stage = "write"
      /\ DOMAIN job.documents \subseteq ConceptIds
      /\ ~ (AllNames \subseteq job.written)
  BY DEF GraphJob, IInv, JobOK, GraphOK
<1>2. ToWrite = AllNames \ job.written
  BY DEF ToWrite, Contents, AllNames
<1>3. next \in ToWrite
  BY <1>1, <1>2, NextFileIsNext
<1>4. exports' = Put(exports, dir, kept \cup {file})
  BY DEF WithFile
<1>5. Belongs(file, dir)
  <2>1. next \in AllNames
    BY <1>2, <1>3
  <2>2. dir.graph = Graph /\ dir.documents = job.documents /\ dir = Projection
    BY DEF SnapshotDir, Projection
  <2>3. Range(FileNames) = {"app_graph", "projection", "extraction", "runtime_status"}
    BY DEF FileNames, Range
  <2> HIDE DEF next
  <2>4. next \in Range(FileNames) => next \notin DOMAIN job.documents
    BY <1>1, FileNamesAssumption
  <2>5. next \in {"app_graph", "extraction"} => Contents[next] = Graph
    BY <2>1, <2>3, <2>4 DEF Contents, AllNames
  <2>6. next = "projection" => Contents[next] = Projection
    BY <2>1, <2>3, <2>4 DEF Contents, AllNames
  <2>7. next \in ConceptIds =>
           next \in DOMAIN job.documents /\ Contents[next] = job.documents[next]
    <3> SUFFICES ASSUME next \in ConceptIds
                 PROVE  next \in DOMAIN job.documents /\ Contents[next] = job.documents[next]
      OBVIOUS
    <3>1. next \notin Range(FileNames)
      BY FileNamesAssumption
    <3>2. next \in DOMAIN job.documents
      BY <2>1, <3>1 DEF AllNames
    <3> QED BY <2>3, <3>1, <3>2 DEF Contents
  <2>8. file.name = next /\ (file.whole => file.content = Contents[next])
    BY DEF next
  <2> HIDE DEF dir
  <2> QED BY <2>1, <2>2, <2>5, <2>6, <2>7, <2>8 DEF Belongs, AllNames
<1>6. file.name = next
  OBVIOUS
<1> HIDE DEF dir, next
<1>7. \A f \in FilesIn(dir) : Belongs(f, dir)
  BY DEF IInv, DirsOK, FilesIn
<1>8. /\ DOMAIN exports' = (DOMAIN exports) \cup {dir}
      /\ exports'[dir] = kept \cup {file}
      /\ \A d \in DOMAIN exports : d # dir => exports'[d] = exports[d]
  <2> HIDE DEF kept
  <2> QED BY <1>4 DEF Put
<1>9. DirsOK'
  <2>1. \A d \in DOMAIN exports' : \A f \in exports'[d] : Belongs(f, d)
    BY <1>5, <1>7, <1>8 DEF IInv, DirsOK
  <2> QED BY <2>1 DEF DirsOK, Belongs
<1>10. Names(exports'[dir]) = NamesIn(dir) \cup {next}
  BY <1>6, <1>8 DEF NamesIn, Names
<1>11. file.whole => Names(Torn(exports'[dir])) \subseteq TornIn(dir) \ {next}
  BY <1>8 DEF TornIn, Torn, Names
<1> QED BY <1>2, <1>3, <1>8, <1>9, <1>10, <1>11 DEF dir, next

LEMMA WriteFileShape ==
    ASSUME IInv, WriteFile
    PROVE  /\ DirsOK'
           /\ SnapshotDir \in DOMAIN exports'
           /\ Names(exports'[SnapshotDir]) = NamesIn(SnapshotDir) \cup {NextFile}
           /\ Names(Torn(exports'[SnapshotDir])) \subseteq TornIn(SnapshotDir) \ {NextFile}
           /\ NextFile \in ToWrite
           /\ ToWrite = AllNames \ job.written
<1> DEFINE file == [name |-> NextFile, content |-> Contents[NextFile], whole |-> TRUE]
<1>1. GraphJob("write") /\ exports' = WithFile(file)
  BY DEF WriteFile
<1>2. file.name = NextFile /\ file.content = Contents[NextFile] /\ file.whole
  OBVIOUS
<1> HIDE DEF file
<1> QED BY <1>1, <1>2, WithFileShape

LEMMA WriteFileSafe == IInv /\ WriteFile => IInv'
<1> SUFFICES ASSUME IInv, WriteFile PROVE IInv'
  OBVIOUS
<1>1. /\ job.kind = "graph" /\ job.stage = "write" /\ DOMAIN job = GraphFields
      /\ DOMAIN job.nodes \subseteq ConceptIds /\ DOMAIN job.documents \subseteq ConceptIds
      /\ job.written \subseteq NamesIn(SnapshotDir) \ TornIn(SnapshotDir)
      /\ job.alone => DOMAIN job.nodes = Active /\ DOMAIN job.documents = Active
  BY DEF WriteFile, GraphJob, IInv, JobOK, GraphOK
<1>2. /\ \/ job' = Ended("exported")
         \/ /\ ToWrite # {NextFile}
            /\ job' = [job EXCEPT !.written = job.written \cup {NextFile}]
      /\ UNCHANGED <<glossary, gone, issues, search, embedded, snapshots, jobs, edits>>
  BY DEF WriteFile, Advance
<1>3. StoresOK' /\ CountersOK'
  BY <1>2 DEF IInv, StoresOK, CountersOK
<1>4. IssuesOK'
  BY <1>2 DEF IInv, IssuesOK, IssuesNameLiveConcepts, Live
<1>5. JobOK'
  <2>1. CASE job' = Ended("exported")
    BY <2>1, NoJobSafe DEF Replies
  <2>2. CASE /\ ToWrite # {NextFile}
             /\ job' = [job EXCEPT !.written = job.written \cup {NextFile}]
    <3>1. /\ DOMAIN job' = GraphFields /\ job'.kind = "graph" /\ job'.stage = "write"
          /\ job'.nodes = job.nodes /\ job'.documents = job.documents /\ job'.edges = job.edges
          /\ job'.alone = job.alone /\ job'.written = job.written \cup {NextFile}
      BY <1>1, <2>2 DEF GraphFields
    <3>2. AllNames' = AllNames /\ SnapshotDir' = SnapshotDir /\ Active' = Active
      BY <1>2, <3>1 DEF AllNames, SnapshotDir, Projection, Graph, Active, Live
    <3>3. /\ NamesIn(SnapshotDir)' = NamesIn(SnapshotDir) \cup {NextFile}
          /\ TornIn(SnapshotDir)' \subseteq TornIn(SnapshotDir) \ {NextFile}
      <4>1. FilesIn(SnapshotDir)' = exports'[SnapshotDir]
        BY <3>2, WriteFileShape DEF FilesIn
      <4>2. /\ NamesIn(SnapshotDir)' = Names(exports'[SnapshotDir])
            /\ TornIn(SnapshotDir)' = Names(Torn(exports'[SnapshotDir]))
        BY <4>1 DEF NamesIn, TornIn, Names, Torn
      <4> QED BY <4>2, WriteFileShape
    <3>4. ~ (AllNames \subseteq job'.written)
      BY <2>2, <3>1, WriteFileShape
    <3> QED BY <1>1, <3>1, <3>2, <3>3, <3>4, GraphJobSafe DEF GraphOK, GraphStages
  <2> QED BY <1>2, <2>1, <2>2
<1> QED BY <1>3, <1>4, <1>5, WriteFileShape DEF IInv

\* What a file has that the process died in does not matter, since it is not whole.
LEMMA TearFileSafe == IInv /\ TearFile => IInv'
<1> SUFFICES ASSUME IInv, TearFile PROVE IInv'
  OBVIOUS
<1> DEFINE file == [name |-> NextFile, content |-> None, whole |-> FALSE]
<1>1. /\ GraphJob("write") /\ exports' = WithFile(file) /\ job' = Ended("crashed")
      /\ UNCHANGED <<glossary, gone, issues, search, embedded, snapshots, jobs, edits>>
  BY DEF TearFile, Advance
<1>2. file.name = NextFile /\ ~ file.whole
  OBVIOUS
<1> HIDE DEF file
<1>3. DirsOK'
  BY <1>1, <1>2, WithFileShape
<1>4. StoresOK' /\ CountersOK'
  BY <1>1 DEF IInv, StoresOK, CountersOK
<1>5. IssuesOK'
  BY <1>1 DEF IInv, IssuesOK, IssuesNameLiveConcepts, Live
<1>6. JobOK'
  BY <1>1, NoJobSafe DEF Replies
<1> QED BY <1>3, <1>4, <1>5, <1>6 DEF IInv

LEMMA GraphStepSafe == IInv /\ GraphStep => IInv'
BY ReadNodesSafe, ReadVariantEdgesSafe, ReadRelationEdgesSafe, ReadIssueEdgesSafe,
   PersistSnapshotSafe, ReadDocumentVariantsSafe, ReadDocumentsSafe, ExtractSafe, WriteFileSafe
   DEF GraphStep

-----------------------------------------------------------------------------
(***************************************************************************)
(* Contexts and tags, and jobs that die.                                   *)
(***************************************************************************)
LEMMA StartLookupSafe == IInv /\ (StartExplore \/ StartTags) => IInv'
<1> SUFFICES ASSUME IInv, StartExplore \/ StartTags PROVE IInv'
  OBVIOUS
<1>1. CASE StartExplore
  <2> DEFINE new(query) ==
               [kind |-> "explore", alone |-> TRUE, stage |-> "concepts",
                searches |-> Searches(query), concepts |-> <<>>, issues |-> <<>>,
                cards |-> <<>>, issueCards |-> <<>>]
  <2>1. PICK query \in Queries : Begin(new(query)) /\ UNCHANGED <<Tables, edits>>
    BY <1>1 DEF StartExplore
  <2>2. job' = new(query)
    BY <2>1 DEF Begin
  <2>3. {"kind", "alone", "stage"} \subseteq DOMAIN job' /\ job'.kind = "explore"
    BY <2>2
  <2> QED BY <2>1, <2>3, OtherJobSafe, NewJobSafe
<1>2. CASE StartTags
  <2> DEFINE new(query) ==
               [kind |-> "tags", alone |-> TRUE, stage |-> "index", tokens |-> Range(query),
                listed |-> [c \in Live |-> glossary.concepts[c]],
                near |-> <<>>, scores |-> NoScores]
  <2>1. PICK query \in Queries : Begin(new(query)) /\ UNCHANGED <<Tables, edits>>
    BY <1>2 DEF StartTags
  <2>2. job' = new(query)
    BY <2>1 DEF Begin
  <2>3. {"kind", "alone", "stage"} \subseteq DOMAIN job' /\ job'.kind = "tags"
    BY <2>2
  <2> QED BY <2>1, <2>3, OtherJobSafe, NewJobSafe
<1> QED BY <1>1, <1>2

\* What a step of a context or of a list of tags leaves of its job.
LEMMA LookupSteps ==
    ASSUME IInv, ExploreStep
    PROVE  /\ \/ job' = Ended("row_missing") \/ job' = Ended("context") \/ job' = Ended("tags")
              \/ /\ {"kind", "alone", "stage"} \subseteq DOMAIN job'
                 /\ job'.kind \in {"explore", "tags"}
           /\ UNCHANGED <<glossary, gone, issues, search, snapshots, exports, jobs, edits>>
           /\ embedded' \in {embedded, embedded \cup Active}
<1>0. {"kind", "alone", "stage"} \subseteq DOMAIN job
  BY DEF IInv, JobOK
<1>1. CASE SearchConcepts
  BY <1>0, <1>1 DEF SearchConcepts, ExploreJob, Advance, Tables
<1>2. CASE SearchIssues
  BY <1>0, <1>2 DEF SearchIssues, ExploreJob, Advance, Tables
<1>3. CASE LoadConcept
  BY <1>0, <1>3 DEF LoadConcept, ExploreJob, Advance, Tables
<1>4. CASE LoadVariants
  BY <1>0, <1>4 DEF LoadVariants, ExploreJob, Advance, Tables
<1>5. CASE LoadIssue
  BY <1>0, <1>5 DEF LoadIssue, ExploreJob, Advance, Tables
<1>6. CASE RenderContext
  BY <1>6 DEF RenderContext, Advance, Tables
<1>7. CASE IndexForTags
  BY <1>0, <1>7 DEF IndexForTags, TagsJob, Advance
<1>8. CASE QueryForTags
  BY <1>0, <1>8 DEF QueryForTags, TagsJob, Advance, Tables
<1>9. CASE SuggestTags
  BY <1>0, <1>9 DEF SuggestTags, TagsJob, Advance, Tables
<1>10. CASE RenderTags
  BY <1>10 DEF RenderTags, Advance, Tables
<1> QED BY <1>1, <1>2, <1>3, <1>4, <1>5, <1>6, <1>7, <1>8, <1>9, <1>10 DEF ExploreStep

LEMMA ExploreStepSafe == IInv /\ ExploreStep => IInv'
<1> SUFFICES ASSUME IInv, ExploreStep PROVE IInv'
  OBVIOUS
<1>1. JobOK'
  BY LookupSteps, NoJobSafe, OtherJobSafe DEF Replies
<1>2. StoresOK'
  BY LookupSteps, ActiveIds DEF IInv, StoresOK
<1>3. IssuesOK' /\ CountersOK' /\ DirsOK'
  BY LookupSteps DEF IInv, IssuesOK, IssuesNameLiveConcepts, Live, CountersOK, DirsOK, Belongs
<1> QED BY <1>1, <1>2, <1>3 DEF IInv

LEMMA CrashSafe == IInv /\ Crash => IInv'
BY NoJobSafe, ReadingSafe DEF Crash, Advance, Replies

-----------------------------------------------------------------------------
(***************************************************************************)
(* Findings: what an analysis is going to write.                           *)
(***************************************************************************)
LEMMA ImageIsFinite ==
    ASSUME NEW S, IsFiniteSet(S), NEW f, DOMAIN f = S
    PROVE  IsFiniteSet({f[x] : x \in S})
<1> DEFINE T == {f[x] : x \in S}
           g == [x \in S |-> f[x]]
<1>1. g \in Surjection(S, T)
  BY DEF Surjection
<1> QED BY <1>1, FS_Surjection

\* Any order of a finite set has its elements.
LEMMA SetToSeqElements ==
    ASSUME NEW S, IsFiniteSet(S)
    PROVE  SetToSeq(S) \in Seq(S)
<1>1. Cardinality(S) \in Nat /\ ExistsBijection(1 .. Cardinality(S), S)
  BY FS_CardinalityType
<1>2. PICK f \in [1 .. Cardinality(S) -> S] : IsInjective(f)
  BY <1>1 DEF ExistsBijection, Bijection, Injection
<1>3. SetToSeq(S) \in [1 .. Cardinality(S) -> S]
  BY <1>2 DEF SetToSeq
<1> QED BY <1>1, <1>3, SeqDef

LEMMA NoFindings == IsFindings(<<>>)
<1>1. <<>> \in Seq({}) /\ WellTyped({})
  BY DEF WellTyped
<1> QED BY <1>1 DEF IsFindings

LEMMA FindingsOfSet ==
    ASSUME NEW S, IsFiniteSet(S), WellTyped(S)
    PROVE  IsFindings(SetToSeq(S))
BY SetToSeqElements DEF IsFindings

LEMMA FindingsConcat ==
    ASSUME NEW s, NEW t, IsFindings(s), IsFindings(t)
    PROVE  IsFindings(s \o t)
<1>1. PICK S : s \in Seq(S) /\ WellTyped(S)
  BY DEF IsFindings
<1>2. PICK T : t \in Seq(T) /\ WellTyped(T)
  BY DEF IsFindings
<1>3. s \in Seq(S \cup T) /\ t \in Seq(S \cup T)
  <2>1. \A u \in Seq(S) : u \in Seq(S \cup T)
    BY SeqDef
  <2>2. \A u \in Seq(T) : u \in Seq(S \cup T)
    BY SeqDef
  <2> QED BY <1>1, <1>2, <2>1, <2>2
<1>4. s \o t \in Seq(S \cup T)
  BY <1>3, ConcatProperties
<1>5. WellTyped(S \cup T)
  BY <1>1, <1>2 DEF WellTyped
<1> QED BY <1>4, <1>5 DEF IsFindings

LEMMA FindingsSplit ==
    ASSUME NEW s, IsFindings(s), s # <<>>
    PROVE  Head(s).row \in IssueRows /\ IsFindings(Tail(s))
<1>1. PICK S : s \in Seq(S) /\ WellTyped(S)
  BY DEF IsFindings
<1>2. Head(s) \in S /\ Tail(s) \in Seq(S)
  BY <1>1, HeadTailProperties
<1> QED BY <1>1, <1>2 DEF WellTyped, IsFindings

LEMMA FindingTyped ==
    ASSUME NEW id, NEW type \in (DOMAIN IssueRelation) \cup {"forbidden_term"},
           NEW surface \in Labels,
           NEW candidate \in ConceptIds \cup {None}, NEW target \in ConceptIds \cup {None}
    PROVE  /\ Finding(id, type, surface, candidate, target).row \in IssueRows
           /\ Finding(id, type, surface, candidate, target).row.surface = surface
BY DEF Finding, IssueRows

LEMMA IssueTypes ==
    /\ {"forbidden_term", "alias_candidate", "same_term_different_meaning",
        "same_meaning_different_term", "ambiguous_usage"}
          \subseteq (DOMAIN IssueRelation) \cup {"forbidden_term"}
    /\ {"same_term_different_meaning", "same_meaning_different_term", "ambiguous_usage"}
          \subseteq DOMAIN IssueRelation
BY DEF IssueRelation

LEMMA GlossaryTermsTyped ==
    ASSUME glossary \in Typed
    PROVE  IsFiniteSet(GlossaryTerms) /\ TermsOK(GlossaryTerms)
<1> DEFINE live == LiveVariants(glossary)
           term == [v \in live |->
                      [concept |-> glossary.variants[v].concept,
                       owner   |-> glossary.concepts[glossary.variants[v].concept].status,
                       label   |-> glossary.variants[v].label,
                       type    |-> glossary.variants[v].type,
                       status  |-> glossary.variants[v].status]]
<1>1. live \subseteq VariantIds
  BY DEF LiveVariants, Typed, Glossaries
<1>2. IsFiniteSet(live)
  BY <1>1, IdsAreFinite, FS_Subset
<1>3. GlossaryTerms = {term[v] : v \in live}
  BY DEF GlossaryTerms
<1>4. \A v \in live : term[v].concept \in ConceptIds /\ term[v].label \in Labels
  <2>1. \A v \in live : glossary.variants[v] \in VariantRows(ConceptIds, Labels)
    BY DEF LiveVariants, Typed, Glossaries
  <2> QED BY <2>1 DEF VariantRows
<1>5. IsFiniteSet(GlossaryTerms)
  <2>1. DOMAIN term = live
    OBVIOUS
  <2> HIDE DEF live, term
  <2> QED BY <1>2, <1>3, <2>1, ImageIsFinite
<1> HIDE DEF term
<1> QED BY <1>3, <1>4, <1>5 DEF TermsOK

LEMMA LifecycleIssuesTyped ==
    ASSUME NEW terms, IsFiniteSet(terms), TermsOK(terms)
    PROVE  IsFindings(SetToSeq(LifecycleIssues(terms)))
<1> DEFINE D == {d \in Detections(terms) : LifecycleIssueType(d) # None}
           finding == [t \in D |->
                         Finding(<<"lifecycle", LifecycleIssueType(t), t.concept, t.label>>,
                                 LifecycleIssueType(t), t.label, t.concept, t.concept)]
<1>1. D \subseteq terms
  BY DEF Detections
<1>2. IsFiniteSet(D)
  BY <1>1, FS_Subset
<1>3. LifecycleIssues(terms) = {finding[t] : t \in D}
  BY DEF LifecycleIssues
<1>4. IsFiniteSet({finding[t] : t \in D})
  <2>1. DOMAIN finding = D
    OBVIOUS
  <2> HIDE DEF D, finding
  <2> QED BY <1>2, <2>1, ImageIsFinite
<1>5. ASSUME NEW t \in D PROVE finding[t].row \in IssueRows
  <2>1. t.concept \in ConceptIds /\ t.label \in Labels
    BY <1>1 DEF TermsOK
  <2>2. LifecycleIssueType(t) \in (DOMAIN IssueRelation) \cup {"forbidden_term"}
    <3>1. LifecycleIssueType(t) \in {"forbidden_term", "alias_candidate"}
      BY DEF LifecycleIssueType
    <3> QED BY <3>1, IssueTypes
  <2> QED BY <2>1, <2>2, FindingTyped
<1>6. WellTyped({finding[t] : t \in D})
  <2> HIDE DEF D, finding
  <2> QED BY <1>5 DEF WellTyped
<1> QED BY <1>3, <1>4, <1>6, FindingsOfSet

LEMMA SameTermIssuesTyped ==
    ASSUME NEW terms, IsFiniteSet(terms), TermsOK(terms)
    PROVE  IsFindings(SetToSeq(SameTermIssues(terms)))
<1> DEFINE active == {t \in terms : TermIsActive(t)}
           concepts(label) == {t.concept : t \in {d \in active : d.label = label}}
           labels == {d.label : d \in Detections(active)}
           shared == {l \in labels : Cardinality(concepts(l)) > 1}
           finding == [l \in shared |->
                         Finding(<<"same-term", l>>, "same_term_different_meaning", l,
                                 FirstOfIds(concepts(l)), LastOfIds(concepts(l)))]
<1>1. SameTermIssues(terms) = {finding[l] : l \in shared}
  BY DEF SameTermIssues
<1>2. IsFiniteSet(shared)
  <2> DEFINE labelOf == [d \in Detections(active) |-> d.label]
  <2>1. Detections(active) \subseteq terms
    BY DEF Detections
  <2>2. IsFiniteSet(Detections(active))
    BY <2>1, FS_Subset
  <2>3. labels = {labelOf[d] : d \in Detections(active)} /\ DOMAIN labelOf = Detections(active)
    OBVIOUS
  <2>4. IsFiniteSet(labels)
    <3> HIDE DEF labels, labelOf, active
    <3> QED BY <2>2, <2>3, ImageIsFinite
  <2> QED BY <2>4, FS_Subset
<1>3. ASSUME NEW l \in shared PROVE finding[l].row \in IssueRows
  <2>1. l \in Labels
    BY DEF TermsOK, Detections
  <2>2. concepts(l) \in SUBSET ConceptIds
    BY DEF TermsOK
  <2>3. concepts(l) # {}
    <3>1. Cardinality(concepts(l)) > 1
      OBVIOUS
    <3> HIDE DEF concepts
    <3>2. Cardinality({}) = 0
      BY FS_EmptySet
    <3> QED BY <3>1, <3>2
  <2>4. FirstOfIds(concepts(l)) \in ConceptIds /\ LastOfIds(concepts(l)) \in ConceptIds
    <3> HIDE DEF concepts
    <3> QED BY <2>2, <2>3, EndsOfIds
  <2>5. finding[l] = Finding(<<"same-term", l>>, "same_term_different_meaning", l,
                             FirstOfIds(concepts(l)), LastOfIds(concepts(l)))
    OBVIOUS
  <2> HIDE DEF concepts, finding, shared
  <2> QED BY <2>1, <2>4, <2>5, FindingTyped, IssueTypes
<1>4. IsFiniteSet({finding[l] : l \in shared})
  <2>1. DOMAIN finding = shared
    OBVIOUS
  <2> HIDE DEF shared, finding
  <2> QED BY <1>2, <2>1, ImageIsFinite
<1>5. WellTyped({finding[l] : l \in shared})
  <2> HIDE DEF shared, finding
  <2> QED BY <1>3 DEF WellTyped
<1> QED BY <1>1, <1>4, <1>5, FindingsOfSet

LEMMA SameMeaningIssuesTyped ==
    ASSUME NEW terms, IsFiniteSet(terms), TermsOK(terms)
    PROVE  IsFindings(SetToSeq(SameMeaningIssues(terms)))
<1> DEFINE aliases == {t \in Detections(terms) : TermIsActive(t) /\ t.type = "alias"}
           surface(c) == CHOOSE l \in Mentioned : \E t \in aliases : t.concept = c /\ t.label = l
           owners == {t.concept : t \in aliases}
           finding == [c \in owners |->
                         Finding(<<"same-meaning", c>>, "same_meaning_different_term",
                                 surface(c), c, c)]
<1>1. SameMeaningIssues(terms) = {finding[c] : c \in owners}
  BY DEF SameMeaningIssues
<1>2. aliases \subseteq terms /\ \A t \in aliases : t.label \in Mentioned
  BY DEF Detections
<1>3. IsFiniteSet(owners)
  <2>1. owners \subseteq ConceptIds
    BY <1>2 DEF TermsOK
  <2> QED BY <2>1, IdsAreFinite, FS_Subset
<1>4. ASSUME NEW c \in owners PROVE finding[c].row \in IssueRows
  <2>1. c \in ConceptIds
    BY <1>2 DEF TermsOK
  <2>2. surface(c) \in Labels
    <3>1. \E l \in Mentioned : \E u \in aliases : u.concept = c /\ u.label = l
      BY <1>2
    <3>2. \E u \in aliases : u.concept = c /\ u.label = surface(c)
      BY <3>1
    <3> QED BY <1>2, <3>2 DEF TermsOK
  <2>3. finding[c] = Finding(<<"same-meaning", c>>, "same_meaning_different_term",
                             surface(c), c, c)
    OBVIOUS
  <2> HIDE DEF surface, finding, owners
  <2> QED BY <2>1, <2>2, <2>3, FindingTyped, IssueTypes
<1>5. IsFiniteSet({finding[c] : c \in owners})
  <2>1. DOMAIN finding = owners
    OBVIOUS
  <2> HIDE DEF owners, finding
  <2> QED BY <1>3, <2>1, ImageIsFinite
<1>6. WellTyped({finding[c] : c \in owners})
  <2> HIDE DEF owners, finding
  <2> QED BY <1>4 DEF WellTyped
<1> QED BY <1>1, <1>5, <1>6, FindingsOfSet

LEMMA DetectIssuesTyped ==
    ASSUME glossary \in Typed
    PROVE  IsFindings(DetectIssues(GlossaryTerms))
<1>1. IsFindings(SetToSeq(LifecycleIssues(GlossaryTerms)))
  BY GlossaryTermsTyped, LifecycleIssuesTyped
<1>2. IsFindings(SetToSeq(SameTermIssues(GlossaryTerms)))
  BY GlossaryTermsTyped, SameTermIssuesTyped
<1>3. IsFindings(SetToSeq(SameMeaningIssues(GlossaryTerms)))
  BY GlossaryTermsTyped, SameMeaningIssuesTyped
<1> QED BY <1>1, <1>2, <1>3, FindingsConcat DEF DetectIssues

-----------------------------------------------------------------------------
(***************************************************************************)
(* The analysis.                                                           *)
(***************************************************************************)
LEMMA AttemptsTyped == Attempts \in Nat /\ Attempts >= 1
<1>1. \E x \in {1, MaxAttempts} : \A y \in {1, MaxAttempts} : x >= y
  BY AttemptsAssumption
<1>2. Attempts \in {1, MaxAttempts} /\ \A y \in {1, MaxAttempts} : Attempts >= y
  BY <1>1 DEF Attempts, Max
<1> QED BY <1>2, AttemptsAssumption

\* What is known of an analysis before it writes.
LEMMA AnalysisShape ==
    ASSUME IInv, job.kind = "analysis", job.stage # "write"
    PROVE  /\ DOMAIN job = AnalysisFields /\ job.stage \in AnalysisStages
           /\ IsFindings(job.check) /\ IsFindings(job.found)
           /\ job.candidates \in Seq(Candidates)
           /\ TermsOK(job.terms)
           /\ DOMAIN job.active \subseteq ConceptIds
           /\ job.stage \in {"store", "extract"} =>
                 /\ job.outcomes \in Seq({"invalid"})
                 /\ Len(job.outcomes) < Attempts
                 /\ job.failure = None
BY DEF IInv, JobOK, AnalysisOK

LEMMA AnalysisJobSafe ==
    ASSUME job'.kind = "analysis", {"kind", "alone", "stage"} \subseteq DOMAIN job',
           AnalysisOK', AttemptsAgree', KnownTermsRaiseNothing'
    PROVE  JobOK'
BY DEF JobOK, GraphOK

LEMMA WritingSafe ==
    ASSUME job'.kind = "analysis", job'.stage = "write",
           DOMAIN job' = {"kind", "alone", "stage", "todo"}, IsFindings(job'.todo)
    PROVE  JobOK'
<1>1. AnalysisOK'
  BY DEF AnalysisOK, IsFindings, WellTyped, IssueRows
<1>2. AttemptsAgree' /\ KnownTermsRaiseNothing'
  BY DEF AttemptsAgree, KnownTermsRaiseNothing, AnalysisJob
<1> QED BY <1>1, <1>2, AnalysisJobSafe

\* An analysis between its extraction and its classification.
LEMMA AnalysisGoesOn ==
    ASSUME IInv, job.kind = "analysis", job.stage # "write",
           DOMAIN job' = DOMAIN job, job'.kind = "analysis",
           job'.stage \in {"index", "query", "terms", "active", "classify"},
           job'.check = job.check, job'.found = job.found, job'.candidates = job.candidates,
           TermsOK(job'.terms), DOMAIN job'.active \subseteq ConceptIds
    PROVE  JobOK'
<1>1. AnalysisOK'
  BY AnalysisShape DEF AnalysisOK, AnalysisStages, IsFindings, WellTyped, IssueRows, TermsOK
<1>2. AttemptsAgree' /\ KnownTermsRaiseNothing'
  BY DEF AttemptsAgree, KnownTermsRaiseNothing, AnalysisJob
<1> QED BY <1>1, <1>2, AnalysisShape, AnalysisJobSafe DEF AnalysisFields

LEMMA StartAnalysisSafe == IInv /\ StartAnalysis => IInv'
<1> SUFFICES ASSUME IInv, StartAnalysis PROVE IInv'
  OBVIOUS
<1> DEFINE check == DetectIssues(GlossaryTerms)
           owners == {t.concept : t \in Detections(GlossaryTerms)}
           new(writeIssues) ==
             [kind |-> "analysis", alone |-> TRUE, stage |-> "store", write |-> writeIssues,
              check |-> check, owners |-> owners,
              outcomes |-> <<>>, attempts |-> 0, failure |-> None,
              candidates |-> <<>>, near |-> <<>>, terms |-> {}, active |-> <<>>,
              found |-> <<>>]
<1>1. PICK writeIssues \in BOOLEAN : Begin(new(writeIssues)) /\ UNCHANGED <<Tables, edits>>
  BY DEF StartAnalysis
<1>2. IsFindings(check)
  BY DetectIssuesTyped DEF IInv, StoresOK
<1> HIDE DEF check, owners
<1>3. job' = new(writeIssues)
  BY <1>1 DEF Begin
<1>4. /\ DOMAIN job' = AnalysisFields /\ job'.kind = "analysis" /\ job'.stage = "store"
      /\ job'.check = check /\ job'.outcomes = <<>> /\ job'.failure = None
      /\ job'.candidates = <<>> /\ job'.terms = {} /\ DOMAIN job'.active = {}
      /\ job'.found = <<>>
  BY <1>3 DEF AnalysisFields
<1>5. <<>> \in Seq(Candidates) /\ <<>> \in Seq({"invalid"}) /\ Len(<<>>) = 0
  OBVIOUS
<1>6. AnalysisOK'
  <2>1. IsFindings(job'.check) /\ IsFindings(job'.found) /\ TermsOK(job'.terms)
    BY <1>2, <1>4, NoFindings DEF TermsOK
  <2> QED BY <1>4, <1>5, <2>1, AttemptsTyped
        DEF AnalysisOK, AnalysisStages, IsFindings, WellTyped, IssueRows, TermsOK
<1>7. AttemptsAgree' /\ KnownTermsRaiseNothing'
  BY <1>4 DEF AttemptsAgree, KnownTermsRaiseNothing, AnalysisJob
<1>8. JobOK'
  BY <1>4, <1>6, <1>7, AnalysisJobSafe DEF AnalysisFields
<1> QED BY <1>1, <1>8, NewJobSafe

\* The check, or another attempt of the extraction.
LEMMA ExtractingSafe ==
    ASSUME IInv, job.kind = "analysis", job.stage \in {"store", "extract"},
           DOMAIN job' = DOMAIN job, job'.kind = "analysis", job'.stage = "extract",
           job'.check = job.check, job'.found = job.found, job'.candidates = job.candidates,
           job'.terms = job.terms, job'.active = job.active, job'.failure = job.failure,
           job'.outcomes \in Seq({"invalid"}), Len(job'.outcomes) < Attempts
    PROVE  JobOK'
<1>1. AnalysisOK'
  BY AnalysisShape
     DEF AnalysisOK, AnalysisStages, IsFindings, WellTyped, IssueRows, TermsOK
<1>2. AttemptsAgree' /\ KnownTermsRaiseNothing'
  BY DEF AttemptsAgree, KnownTermsRaiseNothing, AnalysisJob
<1> QED BY <1>1, <1>2, AnalysisShape, AnalysisJobSafe DEF AnalysisFields

\* The last attempt.
LEMMA ExtractedSafe ==
    ASSUME IInv, job.kind = "analysis", job.stage = "extract",
           NEW outcome, NEW failure, NEW candidates \in Seq(Candidates),
           DOMAIN job' = DOMAIN job, job'.kind = "analysis", job'.stage = "extracted",
           job'.check = job.check, job'.found = job.found, job'.candidates = candidates,
           job'.terms = job.terms, job'.active = job.active,
           job'.outcomes = Append(job.outcomes, outcome),
           job'.attempts = Len(job.outcomes) + 1,
           job'.failure = failure,
           failure = "invalid_json" <=> outcome = "invalid",
           failure = None <=> outcome = "valid",
           outcome = "invalid" => Len(job.outcomes) + 1 = Attempts
    PROVE  JobOK'
<1> DEFINE n == Len(job.outcomes)
           made == Append(job.outcomes, outcome)
<1>1. job.outcomes \in Seq({"invalid"}) /\ n < Attempts
  BY AnalysisShape
<1>2. n \in Nat /\ \A k \in 1 .. n : job.outcomes[k] = "invalid"
  <2>1. n \in Nat
    BY <1>1, LenProperties
  <2>2. \A k \in 1 .. n : job.outcomes[k] \in {"invalid"}
    BY <1>1, ElementOfSeq
  <2> QED BY <2>1, <2>2
<1>3. job.outcomes \in Seq({"invalid", outcome})
  BY <1>1, SeqDef
<1>4. Len(made) = n + 1 /\ made[n + 1] = outcome /\ \A k \in 1 .. n : made[k] = job.outcomes[k]
  BY <1>3, AppendProperties
<1> HIDE DEF n, made
<1>5. AttemptsAgree'
  <2>1. job'.outcomes = made /\ job'.attempts = n + 1
    BY DEF n, made
  <2>2. Last(made) = outcome
    BY <1>4 DEF Last
  <2>3. n + 1 <= Attempts
    BY <1>1, <1>2, AttemptsTyped DEF n
  <2>4. \A k \in 1 .. (n + 1) - 1 : made[k] = "invalid"
    BY <1>2, <1>4
  <2>5. outcome = "invalid" => n + 1 = Attempts
    BY DEF n
  <2>6. Attempts' = Attempts
    BY DEF Attempts
  <2> QED BY <1>4, <2>1, <2>2, <2>3, <2>4, <2>5, <2>6 DEF AttemptsAgree
<1>6. AnalysisOK'
  BY AnalysisShape DEF AnalysisOK, AnalysisStages, IsFindings, WellTyped, IssueRows, TermsOK
<1>7. KnownTermsRaiseNothing'
  BY DEF KnownTermsRaiseNothing, AnalysisJob
<1> QED BY <1>5, <1>6, <1>7, AnalysisShape, AnalysisJobSafe DEF AnalysisFields

LEMMA StoreCheckSafe == IInv /\ StoreCheck => IInv'
<1> SUFFICES ASSUME IInv, StoreCheck PROVE IInv'
  OBVIOUS
<1>1. /\ job.kind = "analysis" /\ job.stage = "store"
      /\ job' = [job EXCEPT !.stage = "extract"] \/ job' = Ended("constraint")
      /\ UNCHANGED Tables /\ UNCHANGED <<jobs, edits>>
  BY DEF StoreCheck, AnalysisJob, Advance
<1>2. CASE job' = Ended("constraint")
  BY <1>1, <1>2, NoJobSafe, ReadingSafe DEF Replies
<1>3. CASE job' = [job EXCEPT !.stage = "extract"]
  <2>1. DOMAIN job = AnalysisFields
    BY <1>1, AnalysisShape
  <2>2. /\ DOMAIN job' = DOMAIN job /\ job'.kind = "analysis" /\ job'.stage = "extract"
        /\ job'.check = job.check /\ job'.found = job.found
        /\ job'.candidates = job.candidates /\ job'.terms = job.terms
        /\ job'.active = job.active /\ job'.failure = job.failure
        /\ job'.outcomes = job.outcomes
    BY <1>1, <1>3, <2>1 DEF AnalysisFields
  <2>3. job.outcomes \in Seq({"invalid"}) /\ Len(job.outcomes) < Attempts
    BY <1>1, AnalysisShape
  <2>4. JobOK'
    BY <1>1, <2>2, <2>3, ExtractingSafe
  <2> QED BY <1>1, <2>4, ReadingSafe
<1> QED BY <1>1, <1>2, <1>3

LEMMA ProviderAnswersSafe == IInv /\ ProviderAnswers => IInv'
<1> SUFFICES ASSUME IInv, ProviderAnswers PROVE IInv'
  OBVIOUS
<1>1. PICK candidates \in Answers :
         job' = [Attempted("valid") EXCEPT !.stage = "extracted", !.attempts = Attempt,
                                           !.candidates = candidates]
  BY DEF ProviderAnswers, Advance
<1>2. /\ job.kind = "analysis" /\ job.stage = "extract"
      /\ UNCHANGED Tables /\ UNCHANGED <<jobs, edits>>
  BY DEF ProviderAnswers, AnalysisJob, Advance
<1>3. DOMAIN job = AnalysisFields /\ job.failure = None
  BY <1>2, AnalysisShape
<1>4. /\ DOMAIN job' = DOMAIN job /\ job'.kind = "analysis" /\ job'.stage = "extracted"
      /\ job'.check = job.check /\ job'.found = job.found /\ job'.candidates = candidates
      /\ job'.terms = job.terms /\ job'.active = job.active
      /\ job'.outcomes = Append(job.outcomes, "valid") /\ job'.failure = None
      /\ job'.attempts = Len(job.outcomes) + 1
  BY <1>1, <1>2, <1>3 DEF AnalysisFields, Attempted, Attempt
<1>5. candidates \in Seq(Candidates)
  BY AnswersAssumption DEF Candidates
<1>6. None # "invalid_json"
  BY FailuresAssumption
<1>7. JobOK'
  BY <1>2, <1>4, <1>5, <1>6, ExtractedSafe
<1> QED BY <1>2, <1>7, ReadingSafe

LEMMA ProviderFailsSafe == IInv /\ ProviderFails => IInv'
<1> SUFFICES ASSUME IInv, ProviderFails PROVE IInv'
  OBVIOUS
<1>1. PICK code \in {"provider_disabled", "provider_error"} :
         job' = ExtractionFails(Attempted(code), code, Attempt)
  BY DEF ProviderFails, Advance
<1>2. /\ job.kind = "analysis" /\ job.stage = "extract"
      /\ UNCHANGED Tables /\ UNCHANGED <<jobs, edits>>
  BY DEF ProviderFails, AnalysisJob, Advance
<1>3. DOMAIN job = AnalysisFields /\ job.candidates \in Seq(Candidates)
  BY <1>2, AnalysisShape
<1>4. /\ DOMAIN job' = DOMAIN job /\ job'.kind = "analysis" /\ job'.stage = "extracted"
      /\ job'.check = job.check /\ job'.found = job.found
      /\ job'.candidates = job.candidates
      /\ job'.terms = job.terms /\ job'.active = job.active
      /\ job'.outcomes = Append(job.outcomes, code) /\ job'.failure = code
      /\ job'.attempts = Len(job.outcomes) + 1
  BY <1>1, <1>2, <1>3 DEF AnalysisFields, Attempted, Attempt, ExtractionFails
<1>5. /\ code # None /\ code # "valid" /\ code # "invalid_json" /\ code # "invalid"
  BY FailuresAssumption
<1>6. JobOK'
  BY <1>2, <1>3, <1>4, <1>5, ExtractedSafe
<1> QED BY <1>2, <1>6, ReadingSafe

LEMMA ProviderAnswersInvalidSafe == IInv /\ ProviderAnswersInvalid => IInv'
<1> SUFFICES ASSUME IInv, ProviderAnswersInvalid PROVE IInv'
  OBVIOUS
<1>1. /\ job.kind = "analysis" /\ job.stage = "extract"
      /\ UNCHANGED Tables /\ UNCHANGED <<jobs, edits>>
      /\ job' = IF Attempt < Attempts
                THEN Attempted("invalid")
                ELSE ExtractionFails(Attempted("invalid"), "invalid_json", Attempts)
  BY DEF ProviderAnswersInvalid, AnalysisJob, Advance
<1>2. /\ DOMAIN job = AnalysisFields /\ job.candidates \in Seq(Candidates)
      /\ job.outcomes \in Seq({"invalid"}) /\ Len(job.outcomes) < Attempts
      /\ Len(job.outcomes) \in Nat
  BY <1>1, AnalysisShape, LenProperties
<1>3. CASE Attempt < Attempts
  <2>1. job' = Attempted("invalid")
    BY <1>1, <1>3
  <2>2. /\ DOMAIN job' = DOMAIN job /\ job'.kind = "analysis" /\ job'.stage = "extract"
        /\ job'.check = job.check /\ job'.found = job.found
        /\ job'.candidates = job.candidates /\ job'.terms = job.terms
        /\ job'.active = job.active /\ job'.failure = job.failure
        /\ job'.outcomes = Append(job.outcomes, "invalid")
    BY <1>1, <1>2, <2>1 DEF AnalysisFields, Attempted
  <2>3. job'.outcomes \in Seq({"invalid"}) /\ Len(job'.outcomes) = Len(job.outcomes) + 1
    BY <1>2, <2>2, AppendProperties
  <2>4. Len(job'.outcomes) < Attempts
    BY <1>3, <2>3 DEF Attempt
  <2>5. JobOK'
    BY <1>1, <2>2, <2>3, <2>4, ExtractingSafe
  <2> QED BY <1>1, <2>5, ReadingSafe
<1>4. CASE ~ (Attempt < Attempts)
  <2>1. job' = ExtractionFails(Attempted("invalid"), "invalid_json", Attempts)
    BY <1>1, <1>4
  <2>2. Len(job.outcomes) + 1 = Attempts
    BY <1>2, <1>4, AttemptsTyped DEF Attempt
  <2>3. /\ DOMAIN job' = DOMAIN job /\ job'.kind = "analysis" /\ job'.stage = "extracted"
        /\ job'.check = job.check /\ job'.found = job.found
        /\ job'.candidates = job.candidates
        /\ job'.terms = job.terms /\ job'.active = job.active
        /\ job'.outcomes = Append(job.outcomes, "invalid") /\ job'.failure = "invalid_json"
        /\ job'.attempts = Attempts
    BY <1>1, <1>2, <2>1 DEF AnalysisFields, Attempted, ExtractionFails
  <2>4. None # "invalid_json"
    BY FailuresAssumption
  <2>5. JobOK'
    BY <1>1, <1>2, <2>2, <2>3, <2>4, ExtractedSafe
  <2> QED BY <1>1, <2>5, ReadingSafe
<1> QED BY <1>3, <1>4

LEMMA PersistingShape ==
    ASSUME NEW found
    PROVE  /\ Persisting(found).kind = "analysis" /\ Persisting(found).stage = "write"
           /\ DOMAIN Persisting(found) = {"kind", "alone", "stage", "todo"}
           /\ Persisting(found).todo = IF job.write THEN job.check \o found ELSE <<>>
BY DEF Persisting

\* Not before the writing, the findings of both parts are put together.
LEMMA PersistingSafe ==
    ASSUME IInv, job.kind = "analysis", job.stage # "write", NEW found, IsFindings(found),
           job' = Persisting(found)
    PROVE  JobOK'
<1>1. IsFindings(job.check \o found)
  BY AnalysisShape, FindingsConcat
<1>2. IsFindings(IF job.write THEN job.check \o found ELSE <<>>)
  BY <1>1, NoFindings
<1> QED BY <1>2, PersistingShape, WritingSafe

LEMMA UseExtractionSafe == IInv /\ UseExtraction => IInv'
<1> SUFFICES ASSUME IInv, UseExtraction PROVE IInv'
  OBVIOUS
<1>1. /\ job.kind = "analysis" /\ job.stage = "extracted"
      /\ UNCHANGED Tables /\ UNCHANGED <<jobs, edits>>
      /\ \/ job' = Persisting(<<>>)
         \/ job' = [job EXCEPT !.stage = IF Quoted # {} THEN "index" ELSE "terms",
                               !.outcomes = <<>>, !.attempts = 0]
  BY DEF UseExtraction, AnalysisJob, Advance
<1>2. CASE job' = Persisting(<<>>)
  BY <1>1, <1>2, NoFindings, PersistingSafe, ReadingSafe
<1>3. CASE job' = [job EXCEPT !.stage = IF Quoted # {} THEN "index" ELSE "terms",
                              !.outcomes = <<>>, !.attempts = 0]
  <2>1. /\ DOMAIN job = AnalysisFields
        /\ TermsOK(job.terms) /\ DOMAIN job.active \subseteq ConceptIds
    BY <1>1, AnalysisShape
  <2>2. /\ DOMAIN job' = DOMAIN job /\ job'.kind = "analysis"
        /\ job'.stage \in {"index", "terms"}
        /\ job'.check = job.check /\ job'.found = job.found
        /\ job'.candidates = job.candidates /\ job'.terms = job.terms
        /\ job'.active = job.active
    BY <1>1, <1>3, <2>1 DEF AnalysisFields
  <2>3. JobOK'
    BY <1>1, <2>1, <2>2, AnalysisGoesOn
  <2> QED BY <1>1, <2>3, ReadingSafe
<1> QED BY <1>1, <1>2, <1>3

LEMMA IndexForAnalysisSafe == IInv /\ IndexForAnalysis => IInv'
<1> SUFFICES ASSUME IInv, IndexForAnalysis PROVE IInv'
  OBVIOUS
<1>1. /\ job.kind = "analysis" /\ job.stage = "index"
      /\ UNCHANGED <<glossary, gone, issues, search, snapshots, exports, jobs, edits>>
      /\ embedded' \in {embedded, embedded \cup Active}
      /\ \/ job' = [job EXCEPT !.stage = "query"]
         \/ job' = [job EXCEPT !.stage = "terms", !.near = NoMatches]
  BY DEF IndexForAnalysis, AnalysisJob, Advance
<1>2. /\ DOMAIN job = AnalysisFields
      /\ TermsOK(job.terms) /\ DOMAIN job.active \subseteq ConceptIds
  BY <1>1, AnalysisShape
<1>3. /\ DOMAIN job' = DOMAIN job /\ job'.kind = "analysis"
      /\ job'.stage \in {"query", "terms"}
      /\ job'.check = job.check /\ job'.found = job.found
      /\ job'.candidates = job.candidates /\ job'.terms = job.terms
      /\ job'.active = job.active
  BY <1>1, <1>2 DEF AnalysisFields
<1>4. JobOK'
  BY <1>1, <1>2, <1>3, AnalysisGoesOn
<1>5. StoresOK'
  BY <1>1, ActiveIds DEF IInv, StoresOK
<1>6. IssuesOK' /\ CountersOK' /\ DirsOK'
  BY <1>1 DEF IInv, IssuesOK, IssuesNameLiveConcepts, Live, CountersOK, DirsOK, Belongs
<1> QED BY <1>4, <1>5, <1>6 DEF IInv

LEMMA QueryForAnalysisSafe == IInv /\ QueryForAnalysis => IInv'
<1> SUFFICES ASSUME IInv, QueryForAnalysis PROVE IInv'
  OBVIOUS
<1>1. PICK near : job' = [job EXCEPT !.stage = "terms", !.near = near]
  BY DEF QueryForAnalysis, Advance
<1>2. /\ job.kind = "analysis" /\ job.stage = "query"
      /\ UNCHANGED Tables /\ UNCHANGED <<jobs, edits>>
  BY DEF QueryForAnalysis, AnalysisJob, Advance
<1>3. /\ DOMAIN job = AnalysisFields
      /\ TermsOK(job.terms) /\ DOMAIN job.active \subseteq ConceptIds
  BY <1>2, AnalysisShape
<1>4. /\ DOMAIN job' = DOMAIN job /\ job'.kind = "analysis" /\ job'.stage = "terms"
      /\ job'.check = job.check /\ job'.found = job.found
      /\ job'.candidates = job.candidates /\ job'.terms = job.terms
      /\ job'.active = job.active
  BY <1>1, <1>2, <1>3 DEF AnalysisFields
<1>5. JobOK'
  BY <1>2, <1>3, <1>4, AnalysisGoesOn
<1> QED BY <1>2, <1>5, ReadingSafe

LEMMA ReadTermsSafe == IInv /\ ReadTerms => IInv'
<1> SUFFICES ASSUME IInv, ReadTerms PROVE IInv'
  OBVIOUS
<1>1. /\ job.kind = "analysis" /\ job.stage = "terms"
      /\ job' = [job EXCEPT !.stage = "active", !.terms = GlossaryTerms]
      /\ UNCHANGED Tables /\ UNCHANGED <<jobs, edits>>
  BY DEF ReadTerms, AnalysisJob, Advance
<1>2. DOMAIN job = AnalysisFields /\ DOMAIN job.active \subseteq ConceptIds
  BY <1>1, AnalysisShape
<1>3. TermsOK(GlossaryTerms)
  BY GlossaryTermsTyped DEF IInv, StoresOK
<1>4. /\ DOMAIN job' = DOMAIN job /\ job'.kind = "analysis" /\ job'.stage = "active"
      /\ job'.check = job.check /\ job'.found = job.found
      /\ job'.candidates = job.candidates /\ job'.terms = GlossaryTerms
      /\ job'.active = job.active
  BY <1>1, <1>2 DEF AnalysisFields
<1>5. JobOK'
  BY <1>1, <1>2, <1>3, <1>4, AnalysisGoesOn
<1> QED BY <1>1, <1>5, ReadingSafe

LEMMA ReadActiveConceptsSafe == IInv /\ ReadActiveConcepts => IInv'
<1> SUFFICES ASSUME IInv, ReadActiveConcepts PROVE IInv'
  OBVIOUS
<1> DEFINE active == [c \in Active |-> glossary.concepts[c]]
<1>1. /\ job.kind = "analysis" /\ job.stage = "active"
      /\ job' = [job EXCEPT !.stage = "classify", !.active = active]
      /\ UNCHANGED Tables /\ UNCHANGED <<jobs, edits>>
  BY DEF ReadActiveConcepts, AnalysisJob, Advance
<1>2. DOMAIN job = AnalysisFields /\ TermsOK(job.terms)
  BY <1>1, AnalysisShape
<1>3. DOMAIN active \subseteq ConceptIds
  BY ActiveIds
<1> HIDE DEF active
<1>4. /\ DOMAIN job' = DOMAIN job /\ job'.kind = "analysis" /\ job'.stage = "classify"
      /\ job'.check = job.check /\ job'.found = job.found
      /\ job'.candidates = job.candidates /\ job'.terms = job.terms
      /\ job'.active = active
  BY <1>1, <1>2 DEF AnalysisFields
<1>5. JobOK'
  BY <1>1, <1>2, <1>3, <1>4, AnalysisGoesOn
<1> QED BY <1>1, <1>5, ReadingSafe

\* The concept a candidate is related to is an active one, if there is one.
LEMMA RelatedConceptTyped ==
    ASSUME NEW k, DOMAIN job.active \subseteq ConceptIds
    PROVE  /\ RelatedConcept(k) \in (DOMAIN job.active) \cup {None}
           /\ ByTags(job.candidates[k]) # None =>
                 /\ ByTags(job.candidates[k]) \in DOMAIN job.active
                 /\ job.candidates[k].tags
                       \cap job.active[ByTags(job.candidates[k])].tags # {}
<1> DEFINE tags == job.candidates[k].tags
           sharing == {c \in DOMAIN job.active : tags \cap job.active[c].tags # {}}
<1>1. ByTags(job.candidates[k]) = IF sharing = {} THEN None ELSE FirstOfIds(sharing)
  BY DEF ByTags
<1>2. sharing # {} => FirstOfIds(sharing) \in sharing
  <2>1. sharing \in SUBSET ConceptIds
    OBVIOUS
  <2> HIDE DEF sharing
  <2> QED BY <2>1, EndsOfIds
<1>3. ByTags(job.candidates[k]) # None =>
         /\ ByTags(job.candidates[k]) \in DOMAIN job.active
         /\ tags \cap job.active[ByTags(job.candidates[k])].tags # {}
  BY <1>1, <1>2
<1>4. RelatedConcept(k) \in (DOMAIN job.active) \cup {None}
  <2>1. \/ RelatedConcept(k) \in DOMAIN job.active
        \/ RelatedConcept(k) = ByTags(job.candidates[k])
    BY DEF RelatedConcept
  <2> QED BY <1>3, <2>1
<1> QED BY <1>3, <1>4

LEMMA CandidateIssueTyped ==
    ASSUME job.candidates \in Seq(Candidates), TermsOK(job.terms),
           DOMAIN job.active \subseteq ConceptIds,
           NEW k \in Quoted, CandidateIssueType(k) # None
    PROVE  /\ CandidateIssue(k).row \in IssueRows
           /\ CandidateIssue(k).row.surface = job.candidates[k].surface
<1> DEFINE surface == job.candidates[k].surface
           matched == MatchedConcepts(job.candidates[k])
           candidate == IF matched = {} THEN RelatedConcept(k) ELSE FirstOfIds(matched)
           target == IF Cardinality(matched) > 1 THEN LastOfIds(matched) ELSE candidate
           type == CandidateIssueType(k)
<1>1. surface \in Labels
  <2>1. k \in 1 .. Len(job.candidates)
    BY LenProperties DEF Quoted
  <2>2. job.candidates[k] \in Candidates
    BY <2>1, ElementOfSeq
  <2> QED BY <2>2 DEF Candidates
<1>2. matched \in SUBSET ConceptIds
  BY DEF MatchedConcepts, MatchingTerms, TermsOK
<1>3. type \in {"ambiguous_usage", "same_term_different_meaning",
                "same_meaning_different_term"}
  BY DEF CandidateIssueType
<1>4. RelatedConcept(k) \in ConceptIds \cup {None}
  BY RelatedConceptTyped
<1>5. CandidateIssue(k) = Finding(<<"llm", type, surface, candidate, target>>,
                                  type, surface, candidate, target)
  BY DEF CandidateIssue
<1>6. Cardinality({}) = 0
  BY FS_EmptySet
<1> HIDE DEF matched
<1>7. matched # {} => FirstOfIds(matched) \in ConceptIds /\ LastOfIds(matched) \in ConceptIds
  BY <1>2, EndsOfIds
<1>8. candidate \in ConceptIds \cup {None}
  BY <1>4, <1>7
<1> HIDE DEF candidate
<1>9. target \in ConceptIds \cup {None}
  <2>1. Cardinality(matched) > 1 => matched # {}
    <3>1. ~ (0 > 1)
      OBVIOUS
    <3> QED BY <1>6, <3>1
  <2> QED BY <1>7, <1>8, <2>1
<1> HIDE DEF target, type, surface
<1>10. type \in (DOMAIN IssueRelation) \cup {"forbidden_term"}
  BY <1>3, IssueTypes
<1>11. CandidateIssue(k).row \in IssueRows /\ CandidateIssue(k).row.surface = surface
  BY <1>1, <1>5, <1>8, <1>9, <1>10, FindingTyped
<1> QED BY <1>11 DEF surface

\* A term that is known, and of which the model speaks as sure, is no issue.
LEMMA KnownTermHasNoIssue ==
    ASSUME DOMAIN job.active \subseteq ConceptIds,
           NEW k \in Quoted, NEW c \in DOMAIN job.active, NEW t \in job.terms,
           job.candidates[k].surface = job.active[c].term,
           SpeaksOf(job.active[c].term, c),
           t.concept = c, {d \in job.terms : d.label = job.active[c].term} = {t}
    PROVE  CandidateIssueType(k) = None
<1>1. MatchingTerms(job.candidates[k]) = {t}
  BY DEF MatchingTerms
<1>2. MatchedConcepts(job.candidates[k]) = {c}
  BY <1>1 DEF MatchedConcepts
<1>3. /\ Cardinality(MatchingTerms(job.candidates[k])) = 1
      /\ Cardinality(MatchedConcepts(job.candidates[k])) = 1
  BY <1>1, <1>2, FS_Singleton
<1>4. /\ job.candidates[k].sure
      /\ \A d \in (DOMAIN job.active) \ {c} :
            job.active[d].tags \cap job.candidates[k].tags = {}
  BY DEF SpeaksOf
<1>5. RelatedConcept(k) = ByTags(job.candidates[k])
  BY <1>1 DEF RelatedConcept
<1>6. RelatedConcept(k) \in {None, c}
  BY <1>4, <1>5, RelatedConceptTyped
<1>7. ~ HasSameMeaningDifferentTerms(k)
  BY <1>3, <1>6 DEF HasSameMeaningDifferentTerms
<1> QED BY <1>3, <1>4, <1>7 DEF CandidateIssueType

LEMMA ClassifyCandidatesSafe == IInv /\ ClassifyCandidates => IInv'
<1> SUFFICES ASSUME IInv, ClassifyCandidates PROVE IInv'
  OBVIOUS
<1> DEFINE found == SetToSeq(CandidateIssues)
           K == {q \in Quoted : CandidateIssueType(q) # None}
           finding == [k \in K |-> CandidateIssue(k)]
<1>1. /\ job.kind = "analysis" /\ job.stage = "classify"
      /\ job' = [job EXCEPT !.stage = "classified", !.found = found]
      /\ UNCHANGED Tables /\ UNCHANGED <<jobs, edits>>
  BY DEF ClassifyCandidates, AnalysisJob, Advance
<1>2. /\ DOMAIN job = AnalysisFields /\ IsFindings(job.check)
      /\ job.candidates \in Seq(Candidates)
      /\ TermsOK(job.terms) /\ DOMAIN job.active \subseteq ConceptIds
  BY <1>1, AnalysisShape
<1>3. IsFiniteSet(K)
  <2>1. Len(job.candidates) \in Nat /\ DOMAIN job.candidates = 1 .. Len(job.candidates)
    BY <1>2, LenProperties
  <2>2. IsFiniteSet(1 .. Len(job.candidates))
    BY <2>1, FS_Interval
  <2>3. K \subseteq 1 .. Len(job.candidates)
    BY <2>1 DEF Quoted
  <2> QED BY <2>2, <2>3, FS_Subset
<1>4. CandidateIssues = {finding[k] : k \in K} /\ DOMAIN finding = K
  BY DEF CandidateIssues
<1>5. IsFiniteSet(CandidateIssues)
  <2> HIDE DEF K, finding
  <2> QED BY <1>3, <1>4, ImageIsFinite
<1>6. ASSUME NEW k \in K
      PROVE  /\ CandidateIssue(k).row \in IssueRows
             /\ CandidateIssue(k).row.surface = job.candidates[k].surface
  BY <1>2, CandidateIssueTyped
<1>7. WellTyped(CandidateIssues)
  BY <1>4, <1>6 DEF WellTyped
<1>8. IsFindings(found)
  BY <1>5, <1>7, FindingsOfSet
<1>9. \A j \in DOMAIN found : \E k \in K : found[j] = CandidateIssue(k)
  <2>1. found \in Seq(CandidateIssues)
    BY <1>5, SetToSeqElements
  <2> HIDE DEF found
  <2>2. \A j \in DOMAIN found : found[j] \in CandidateIssues
    BY <2>1, LenProperties, ElementOfSeq
  <2> QED BY <1>4, <2>2
<1> HIDE DEF found
<1>10. /\ DOMAIN job' = AnalysisFields /\ job'.kind = "analysis" /\ job'.stage = "classified"
       /\ job'.check = job.check /\ job'.found = found
       /\ job'.candidates = job.candidates /\ job'.terms = job.terms
       /\ job'.active = job.active
  BY <1>1, <1>2 DEF AnalysisFields
<1>11. AnalysisOK'
  BY <1>2, <1>8, <1>10
     DEF AnalysisOK, AnalysisStages, IsFindings, WellTyped, IssueRows, TermsOK
<1>12. AttemptsAgree'
  BY <1>10 DEF AttemptsAgree, AnalysisJob
<1>13. KnownTermsRaiseNothing'
  <2>1. ASSUME NEW c \in DOMAIN job.active, SpeaksOf(job.active[c].term, c),
               NEW t \in job.terms, t.concept = c,
               {d \in job.terms : d.label = job.active[c].term} = {t},
               NEW j \in DOMAIN found, found[j].row.surface = job.active[c].term
        PROVE  FALSE
    <3>1. PICK k \in K : found[j] = CandidateIssue(k)
      BY <1>9
    <3>2. job.candidates[k].surface = job.active[c].term
      BY <1>6, <2>1, <3>1
    <3>3. CandidateIssueType(k) = None
      BY <1>2, <2>1, <3>2, KnownTermHasNoIssue
    <3> QED BY <3>3
  <2>2. \A surface, c : SpeaksOf(surface, c)' <=> SpeaksOf(surface, c)
    BY <1>10 DEF SpeaksOf, Quoted
  <2> QED BY <1>10, <2>1, <2>2 DEF KnownTermsRaiseNothing
<1>14. JobOK'
  BY <1>10, <1>11, <1>12, <1>13, AnalysisJobSafe DEF AnalysisFields
<1> QED BY <1>1, <1>14, ReadingSafe

LEMMA UseClassificationSafe == IInv /\ UseClassification => IInv'
<1> SUFFICES ASSUME IInv, UseClassification PROVE IInv'
  OBVIOUS
<1>1. /\ job.kind = "analysis" /\ job.stage = "classified"
      /\ UNCHANGED Tables /\ UNCHANGED <<jobs, edits>>
      /\ job' = Persisting(job.found)
  BY DEF UseClassification, AnalysisJob, Advance
<1>2. IsFindings(job.found)
  BY <1>1, AnalysisShape
<1>3. JobOK'
  BY <1>1, <1>2, PersistingSafe
<1> QED BY <1>1, <1>3, ReadingSafe

\* An issue that is written names concepts that are there.
LEMMA StoreIssueSafe == IInv /\ StoreIssue => IInv'
<1> SUFFICES ASSUME IInv, StoreIssue PROVE IInv'
  OBVIOUS
<1> DEFINE id == Head(job.todo).id
           row == Head(job.todo).row
<1>1. /\ job.kind = "analysis" /\ job.stage = "write" /\ job.todo # <<>>
      /\ UNCHANGED <<glossary, gone, search, embedded, snapshots, exports, jobs, edits>>
      /\ \/ /\ {row.candidate, row.target} \subseteq Live \cup {None}
            /\ issues' = Put(issues, id, row)
            /\ job' = [job EXCEPT !.todo = Tail(job.todo)]
         \/ job' = Ended("constraint") /\ issues' = issues
  BY DEF StoreIssue, AnalysisJob, Advance
<1>2. DOMAIN job = {"kind", "alone", "stage", "todo"} /\ IsFindings(job.todo)
  BY <1>1 DEF IInv, JobOK, AnalysisOK, AnalysisStages
<1>3. row \in IssueRows /\ IsFindings(Tail(job.todo))
  BY <1>1, <1>2, FindingsSplit
<1> HIDE DEF id, row
<1>4. StoresOK' /\ CountersOK' /\ DirsOK'
  BY <1>1 DEF IInv, StoresOK, CountersOK, DirsOK, Belongs
<1>5. Live' = Live
  BY <1>1 DEF Live
<1>6. CASE job' = Ended("constraint") /\ issues' = issues
  <2>1. IssuesOK'
    BY <1>5, <1>6 DEF IInv, IssuesOK, IssuesNameLiveConcepts
  <2>2. JobOK'
    BY <1>6, NoJobSafe DEF Replies
  <2> QED BY <1>4, <2>1, <2>2 DEF IInv
<1>7. CASE /\ {row.candidate, row.target} \subseteq Live \cup {None}
           /\ issues' = Put(issues, id, row)
           /\ job' = [job EXCEPT !.todo = Tail(job.todo)]
  <2>1. /\ DOMAIN issues' = (DOMAIN issues) \cup {id}
        /\ \A i \in DOMAIN issues' : issues'[i] = IF i = id THEN row ELSE issues[i]
    BY <1>7 DEF Put
  <2>2. ASSUME NEW i \in DOMAIN issues'
        PROVE  /\ issues'[i] \in IssueRows
               /\ {issues'[i].candidate, issues'[i].target} \subseteq Live \cup {None}
    BY <1>3, <1>7, <2>1 DEF IInv, IssuesOK, IssuesNameLiveConcepts
  <2>3. (\A i \in DOMAIN issues : issues[i] \in IssueRows)'
    BY <2>2 DEF IssueRows
  <2>4. IssuesOK'
    BY <1>5, <2>2, <2>3 DEF IssuesOK, IssuesNameLiveConcepts
  <2>5. /\ DOMAIN job' = {"kind", "alone", "stage", "todo"}
        /\ job'.kind = "analysis" /\ job'.stage = "write" /\ job'.todo = Tail(job.todo)
    BY <1>1, <1>2, <1>7
  <2>6. JobOK'
    BY <1>3, <2>5, WritingSafe
  <2> QED BY <1>4, <2>4, <2>6 DEF IInv
<1> QED BY <1>1, <1>6, <1>7

LEMMA FinishAnalysisSafe == IInv /\ FinishAnalysis => IInv'
BY NoJobSafe, ReadingSafe DEF FinishAnalysis, Advance, Replies

LEMMA AnalysisStepSafe == IInv /\ AnalysisStep => IInv'
BY StoreCheckSafe, ProviderAnswersSafe, ProviderFailsSafe, ProviderAnswersInvalidSafe,
   UseExtractionSafe, IndexForAnalysisSafe, QueryForAnalysisSafe, ReadTermsSafe,
   ReadActiveConceptsSafe, ClassifyCandidatesSafe, UseClassificationSafe, StoreIssueSafe,
   FinishAnalysisSafe DEF AnalysisStep

-----------------------------------------------------------------------------
(***************************************************************************)
(* The induction.                                                          *)
(***************************************************************************)
LEMMA NextSafe == IInv /\ [Next]_vars => IInv'
<1> SUFFICES ASSUME IInv, [Next]_vars PROVE IInv'
  OBVIOUS
<1>1. CASE Start
  BY <1>1, StartGraphSafe, StartLookupSafe, StartAnalysisSafe DEF Start
<1>2. CASE JobStep
  BY <1>2, GraphStepSafe, ExploreStepSafe, AnalysisStepSafe DEF JobStep
<1>3. CASE UNCHANGED vars
  <2>1. UNCHANGED Tables /\ UNCHANGED <<jobs, edits>> /\ job' = job
    BY <1>3 DEF vars, Tables
  <2>2. /\ Active' = Active /\ NamesIn(SnapshotDir)' = NamesIn(SnapshotDir)
        /\ TornIn(SnapshotDir)' = TornIn(SnapshotDir)
    BY <2>1 DEF Tables, Active, Live, NamesIn, TornIn, FilesIn, SnapshotDir, Projection, Graph
  <2>3. JobOK'
    BY <2>1, <2>2 DEF IInv, JobOK, GraphOK, AllNames, AnalysisOK, AttemptsAgree,
                      KnownTermsRaiseNothing, AnalysisJob, Running, SpeaksOf, Quoted
  <2> QED BY <2>1, <2>3, ReadingSafe
<1> QED BY <1>1, <1>2, <1>3, CrashSafe, TearFileSafe, EditorSafe, RebuildSearchSafe DEF Next

\* In every reachable state the jobs are as described above.
THEOREM WorkbenchInvariant == Spec => []IInv
<1>1. Init => IInv
  BY InitSafe
<1>2. IInv /\ [Next]_vars => IInv'
  BY NextSafe
<1> QED BY <1>1, <1>2, PTL DEF Spec

\* The tables, search rows, snapshots and the job have their types, whatever
\* edits and crashes come between the reads of the jobs.
THEOREM WorkbenchTypeCorrect == Spec => []TypeOK
BY WorkbenchInvariant, InvariantImplies, PTL

\* No export directory ever holds files of two exports.
THEOREM DirectoriesAreOfOnePiece == Spec => []ExportDirsAreOfOnePiece
BY WorkbenchInvariant, InvariantImplies, PTL

\* The attempts an analysis reports are the requests that were made.
THEOREM AttemptsAreReported == Spec => []AttemptsAgree
BY WorkbenchInvariant, InvariantImplies, PTL

\* A term the glossary knows and the model is sure of raises no issue.
THEOREM KnownTermsAreNoIssues == Spec => []KnownTermsRaiseNothing
BY WorkbenchInvariant, InvariantImplies, PTL

\* No issue ever names a concept that is gone.
THEOREM IssuesKeepToConcepts == Spec => []IssuesNameLiveConcepts
BY WorkbenchInvariant, InvariantImplies, PTL

-----------------------------------------------------------------------------
(***************************************************************************)
(* The export that nobody disturbs.                                        *)
(***************************************************************************)
\* Only the last file ends a job as an export.
LEMMA ExportEnds ==
    ASSUME IInv, [Next]_vars, job.kind = "graph", job'.stage = "exported"
    PROVE  WriteFile /\ ToWrite = {NextFile}
<1>1. /\ {"kind", "alone", "stage"} \subseteq DOMAIN job
      /\ job.stage \in GraphStages /\ DOMAIN job = GraphFields
  BY DEF IInv, JobOK, GraphOK
<1>2. job.stage # "exported"
  BY <1>1 DEF GraphStages
<1>3. CASE Start
  BY <1>3 DEF Start, StartGraph, StartExplore, StartTags, StartAnalysis, Begin, Running
<1>4. CASE Editor
  <2>1. PICK kind : Edit(kind)
    BY <1>4 DEF Editor, CreateConcept, UpdateConcept, AddVariant, AddRelation, DeleteAConcept,
                CloseIssue, EditGlossary
  <2>2. job'.stage = job.stage
    BY <1>1, <2>1 DEF Edit
  <2> QED BY <1>2, <2>2
<1>5. CASE RebuildSearch \/ UNCHANGED vars
  BY <1>2, <1>5 DEF RebuildSearch, vars
<1>6. CASE Crash \/ TearFile
  BY <1>6 DEF Crash, TearFile, Advance, Ended
<1>7. CASE ExploreStep
  BY <1>7 DEF ExploreStep, SearchConcepts, SearchIssues, LoadConcept, LoadVariants, LoadIssue,
              RenderContext, IndexForTags, QueryForTags, SuggestTags, RenderTags, ExploreJob,
              TagsJob
<1>8. CASE AnalysisStep
  BY <1>8 DEF AnalysisStep, StoreCheck, ProviderAnswers, ProviderFails, ProviderAnswersInvalid,
              UseExtraction, IndexForAnalysis, QueryForAnalysis, ReadTerms, ReadActiveConcepts,
              ClassifyCandidates, UseClassification, StoreIssue, FinishAnalysis, AnalysisJob
<1>9. CASE GraphStep
  <2>1. CASE ReadNodes
    BY <1>1, <2>1 DEF ReadNodes, Advance, At, GraphFields
  <2>2. CASE ReadVariantEdges
    BY <1>1, <2>2 DEF ReadVariantEdges, Advance, At, GraphFields
  <2>3. CASE ReadRelationEdges
    <3>1. \/ job' = Ended("invalid_graph_relation")
          \/ job' = [At("issues") EXCEPT !.edges = At("issues").edges \cup RelationEdges]
      BY <2>3 DEF ReadRelationEdges, Advance
    <3>2. CASE job' = Ended("invalid_graph_relation")
      BY <3>2 DEF Ended
    <3>3. CASE job' = [At("issues") EXCEPT !.edges = At("issues").edges \cup RelationEdges]
      <4>1. job'.stage = At("issues").stage /\ At("issues").stage = "issues"
        BY <1>1, <3>3 DEF At, GraphFields
      <4> QED BY <4>1
    <3> QED BY <3>1, <3>2, <3>3
  <2>4. CASE ReadIssueEdges
    BY <1>1, <2>4 DEF ReadIssueEdges, Advance, At, GraphFields
  <2>5. CASE PersistSnapshot
    BY <1>1, <2>5 DEF PersistSnapshot, Advance, At, Ended, GraphFields
  <2>6. CASE ReadDocumentVariants
    BY <1>1, <2>6 DEF ReadDocumentVariants, Advance, At, GraphFields
  <2>7. CASE ReadDocuments
    BY <1>1, <2>7 DEF ReadDocuments, Advance, At, GraphFields
  <2>8. CASE Extract
    BY <1>1, <2>8 DEF Extract, Advance, At, Ended, GraphFields
  <2>9. CASE WriteFile
    <3>1. CASE ToWrite = {NextFile}
      BY <2>9, <3>1
    <3>2. CASE ToWrite # {NextFile}
      <4>1. job' = [job EXCEPT !.written = job.written \cup {NextFile}]
        BY <2>9, <3>2 DEF WriteFile, Advance
      <4>2. job'.stage = job.stage
        BY <1>1, <4>1 DEF GraphFields
      <4> QED BY <1>2, <4>2
    <3> QED BY <3>1, <3>2
  <2> QED BY <1>9, <2>1, <2>2, <2>3, <2>4, <2>5, <2>6, <2>7, <2>8, <2>9 DEF GraphStep
<1> QED BY <1>3, <1>4, <1>5, <1>6, <1>7, <1>8, <1>9 DEF Next, JobStep

\* When it ends, its directory has all of its files, whole, and no others.
LEMMA QuietExportStep ==
    ASSUME IInv, [Next]_vars, job.kind = "graph", job.alone, job'.stage = "exported"
    PROVE  /\ {f.name : f \in exports'[SnapshotDir]} = Range(FileNames) \cup DOMAIN job.nodes
           /\ \A f \in exports'[SnapshotDir] : f.whole
<1>1. WriteFile /\ ToWrite = {NextFile}
  BY ExportEnds
<1>2. /\ job.stage = "write"
      /\ job.written \subseteq NamesIn(SnapshotDir) \ TornIn(SnapshotDir)
      /\ DOMAIN job.nodes = DOMAIN job.documents
  BY <1>1 DEF WriteFile, GraphJob, IInv, JobOK, GraphOK
<1>3. AllNames = Range(FileNames) \cup DOMAIN job.nodes
  BY <1>2 DEF AllNames
<1>4. NamesIn(SnapshotDir) \subseteq AllNames
  <2>1. \A f \in FilesIn(SnapshotDir) : Belongs(f, SnapshotDir)
    BY DEF IInv, DirsOK, FilesIn
  <2>2. SnapshotDir.documents = job.documents
    BY DEF SnapshotDir, Projection
  <2> QED BY <2>1, <2>2 DEF NamesIn, Names, Belongs, AllNames
<1>5. /\ Names(exports'[SnapshotDir]) = NamesIn(SnapshotDir) \cup {NextFile}
      /\ Names(Torn(exports'[SnapshotDir])) \subseteq TornIn(SnapshotDir) \ {NextFile}
      /\ ToWrite = AllNames \ job.written
  BY <1>1, WriteFileShape
<1>6. AllNames \subseteq job.written \cup {NextFile}
  BY <1>1, <1>5
<1>7. Names(exports'[SnapshotDir]) = AllNames
  BY <1>1, <1>2, <1>4, <1>5, <1>6
<1>8. Names(Torn(exports'[SnapshotDir])) = {}
  <2>1. TornIn(SnapshotDir) \subseteq NamesIn(SnapshotDir)
    BY DEF TornIn, NamesIn, Names, Torn
  <2> QED BY <1>2, <1>4, <1>5, <1>6, <2>1
<1> QED BY <1>3, <1>7, <1>8 DEF Names, Torn

\* An export that is not disturbed by an edit leaves a complete directory, also
\* over the remains of one that died.
THEOREM QuietExportsAreComplete == Spec => QuietExportIsComplete
<1>1. IInv /\ [Next]_vars =>
         [Running /\ job.kind = "graph" /\ job.alone /\ job'.stage = "exported"
          => /\ {f.name : f \in exports'[SnapshotDir]}
                   = Range(FileNames) \cup DOMAIN job.nodes
             /\ \A f \in exports'[SnapshotDir] : f.whole]_vars
  BY QuietExportStep
<1> QED BY <1>1, WorkbenchInvariant, PTL DEF Spec, QuietExportIsComplete

-----------------------------------------------------------------------------
(***************************************************************************)
(* Loops and sums.                                                         *)
(***************************************************************************)
\* Induction up to a bound.
LEMMA Upwards ==
    ASSUME NEW N \in Nat, NEW T, 0 \in T, \A n \in 1 .. N : n - 1 \in T => n \in T
    PROVE  0 .. N \subseteq T
<1> SUFFICES ASSUME (0 .. N) \ T # {} PROVE FALSE
  OBVIOUS
<1>1. PICK k \in (0 .. N) \ T : \A y \in (0 .. N) \ T : k <= y
  <2> DEFINE K == (0 .. N) \ T
  <2>1. K \subseteq Nat /\ K # {}
    OBVIOUS
  <2> HIDE DEF K
  <2>2. \E x \in K : \A y \in K : x <= y
    BY <2>1, LeastNatural
  <2> QED BY <2>2 DEF K
<1>2. k # 0 /\ k \in 1 .. N /\ k - 1 \in 0 .. N /\ ~(k <= k - 1)
  OBVIOUS
<1> QED BY <1>1, <1>2

\* What a loop has in hand after each of its rounds.
Runs(g, k, X, base, round) ==
    /\ g \in [0 .. k -> X]
    /\ g[0] = base
    /\ \A n \in 1 .. k : g[n] = round[n][g[n - 1]]

LEMMA LoopRuns ==
    ASSUME NEW N \in Nat, NEW X, NEW base \in X, NEW round \in [1 .. N -> [X -> X]]
    PROVE  \E g : Runs(g, N, X, base, round)
<1>1. \A k \in 0 .. N : \E g : Runs(g, k, X, base, round)
  <2> SUFFICES ASSUME {k \in 0 .. N : ~ \E g : Runs(g, k, X, base, round)} # {} PROVE FALSE
    OBVIOUS
  <2>1. PICK k \in 0 .. N :
           /\ ~ \E g : Runs(g, k, X, base, round)
           /\ \A j \in 0 .. N : (~ \E g : Runs(g, j, X, base, round)) => k <= j
    <3> DEFINE K == {x \in 0 .. N : ~ \E g : Runs(g, x, X, base, round)}
    <3>1. K \subseteq Nat /\ K # {}
      OBVIOUS
    <3>2. PICK k \in K : \A y \in K : k <= y
      <4> HIDE DEF K
      <4> QED BY <3>1, LeastNatural
    <3> QED BY <3>2
  <2>2. k # 0
    <3>1. Runs([n \in 0 .. 0 |-> base], 0, X, base, round)
      BY DEF Runs
    <3> QED BY <2>1, <3>1, ZenonT(30)
  <2>3. k - 1 \in 0 .. N /\ k \in 1 .. N
    BY <2>1, <2>2
  <2>4. PICK g : Runs(g, k - 1, X, base, round)
    BY <2>1, <2>3
  <2> DEFINE h == [n \in 0 .. k |-> IF n = k THEN round[k][g[k - 1]] ELSE g[n]]
  <2>5. Runs(h, k, X, base, round)
    <3>1. g[k - 1] \in X /\ k \in 1 .. N
      BY <2>3, <2>4 DEF Runs
    <3>2. round[k][g[k - 1]] \in X
      BY <3>1
    <3>3. h \in [0 .. k -> X]
      <4>1. \A n \in 0 .. k : n # k => n \in 0 .. k - 1
        BY <2>3
      <4> QED BY <2>4, <3>2, <4>1 DEF Runs
    <3>4. h[0] = base
      BY <2>3, <2>4 DEF Runs
    <3>5. ASSUME NEW n \in 1 .. k PROVE h[n] = round[n][h[n - 1]]
      <4>1. n - 1 \in 0 .. k /\ n - 1 # k /\ h[n - 1] = g[n - 1]
        BY <2>3
      <4>2. CASE n = k
        BY <4>1, <4>2
      <4>3. CASE n # k
        <5>1. n \in 1 .. k - 1 /\ h[n] = g[n]
          BY <2>3, <4>3
        <5> QED BY <2>4, <4>1, <5>1 DEF Runs
      <4> QED BY <4>2, <4>3
    <3> QED BY <3>3, <3>4, <3>5 DEF Runs
  <2> QED BY <2>1, <2>5, ZenonT(30)
<1> QED BY <1>1

\* The hits of one more search: no row is found twice.
LEMMA MergeKeeps ==
    ASSUME NEW A, NEW found \in Seq(A), NEW hits \in Seq(A), IsInjective(found)
    PROVE  Merge(found, hits) \in Seq(A) /\ IsInjective(Merge(found, hits))
<1> DEFINE N == Len(hits)
           X == {s \in Seq(A) : IsInjective(s)}
           Round(n, s) == IF hits[n] \in Range(s) THEN s ELSE Append(s, hits[n])
           round == [n \in 1 .. N |-> [s \in X |-> Round(n, s)]]
<1>1. N \in Nat /\ \A n \in 1 .. N : hits[n] \in A
  BY LenProperties, ElementOfSeq
<1>2. ASSUME NEW n \in 1 .. N, NEW s \in X PROVE Round(n, s) \in X
  <2>1. CASE hits[n] \in Range(s)
    BY <2>1
  <2>2. CASE hits[n] \notin Range(s)
    <3> PICK t \in {Append(s, hits[n])} : TRUE
      OBVIOUS
    <3>1. s \in Seq(A) /\ IsInjective(s) /\ DOMAIN s = 1 .. Len(s) /\ Len(s) \in Nat
      BY LenProperties
    <3>2. /\ t \in Seq(A) /\ Len(t) = Len(s) + 1
          /\ \A i \in 1 .. Len(s) : t[i] = s[i]
          /\ t[Len(s) + 1] = hits[n]
      <4>1. hits[n] \in A
        BY <1>1
      <4>2. t = Append(s, hits[n])
        OBVIOUS
      <4> HIDE DEF X
      <4> QED BY <3>1, <4>1, <4>2, AppendProperties
    <3>3. DOMAIN t = 1 .. Len(s) + 1
      BY <3>2, LenProperties
    <3>4. \A i \in 1 .. Len(s) : s[i] # hits[n]
      BY <2>2, <3>1 DEF Range
    <3>5. \A i, j \in 1 .. Len(s) : s[i] = s[j] => i = j
      BY <3>1 DEF IsInjective
    <3>6. \A i \in 1 .. Len(s) + 1 : i \in 1 .. Len(s) \/ i = Len(s) + 1
      BY <3>1
    <3>7. IsInjective(t)
      BY <3>2, <3>3, <3>4, <3>5, <3>6 DEF IsInjective
    <3> QED BY <2>2, <3>2, <3>7
  <2> QED BY <2>1, <2>2
<1>3. found \in X /\ round \in [1 .. N -> [X -> X]]
  <2> HIDE DEF X, Round
  <2>1. found \in X
    BY DEF X
  <2> QED BY <1>2, <2>1
<1>a. PICK g : Runs(g, N, X, found, round)
  <2> HIDE DEF N, X, Round, round
  <2>1. N \in Nat
    BY <1>1
  <2>2. found \in X
    BY <1>3
  <2>3. round \in [1 .. N -> [X -> X]]
    BY <1>3
  <2> QED BY <2>1, <2>2, <2>3, LoopRuns
<1>4. /\ g \in [0 .. N -> X] /\ g[0] = found
      /\ \A n \in 1 .. N : g[n] = round[n][g[n - 1]]
  <2> HIDE DEF N, X, round
  <2> QED BY <1>a DEF Runs
<1> DEFINE Next1(h, n) == IF n = 0 THEN found ELSE Round(n, h[n - 1])
           Solves(h) == h = [n \in 0 .. N |-> Next1(h, n)]
<1>5. Solves(g)
  <2>1. \A n \in 0 .. N : g[n] = Next1(g, n)
    <3> TAKE n \in 0 .. N
    <3>1. CASE n = 0
      BY <1>4, <3>1
    <3>2. CASE n # 0
      <4>1. n \in 1 .. N /\ n - 1 \in 0 .. N
        BY <1>1, <3>2
      <4>2. g[n - 1] \in X
        <5> HIDE DEF X
        <5> QED BY <1>4, <4>1
      <4>3. g[n] = round[n][g[n - 1]] /\ round[n][g[n - 1]] = Round(n, g[n - 1])
        <5> HIDE DEF X, Round
        <5> QED BY <1>4, <4>1, <4>2
      <4> QED BY <3>2, <4>3
    <3> QED BY <3>1, <3>2
  <2> HIDE DEF Next1, X
  <2> QED BY <1>4, <2>1
<1> DEFINE merged == CHOOSE h : Solves(h)
<1>6. Merge(found, hits) = merged[N]
  BY DEF Merge
<1>7. Solves(merged)
  BY <1>5
<1>8. \A n \in 0 .. N : merged[n] = Next1(merged, n)
  <2> HIDE DEF merged, Next1
  <2> QED BY <1>7
<1> HIDE DEF merged
<1> DEFINE T == {n \in 0 .. N : merged[n] \in X}
<1>9. 0 .. N \subseteq T
  <2>1. 0 \in T
    BY <1>1, <1>3, <1>8
  <2>2. ASSUME NEW n \in 1 .. N, n - 1 \in T PROVE n \in T
    <3>1. merged[n] = Round(n, merged[n - 1]) /\ n \in 0 .. N
      BY <1>1, <1>8
    <3> HIDE DEF X, Round
    <3> QED BY <1>2, <2>2, <3>1
  <2> HIDE DEF T
  <2> QED BY <1>1, <2>1, <2>2, Upwards
<1>10. merged[N] \in X
  BY <1>1, <1>9
<1> QED BY <1>6, <1>10

\* An element of a set, and the sums over the subsets of a set: what
\* SumFunctionOnSet takes out first, and computes.
Picked(s) == CHOOSE x \in s : TRUE

\* The sums over the subsets of a set, as SumFunctionOnSet computes them.
Sums(f, S) ==
    CHOOSE g : g = [s \in SUBSET S |->
                       IF s = {} THEN 0 ELSE f[Picked(s)] + g[s \ {Picked(s)}]]

\* What is left of a finite set when an element is taken out.
LEMMA TakenOut ==
    ASSUME NEW S, IsFiniteSet(S), NEW s \in SUBSET S, NEW x \in s
    PROVE  /\ IsFiniteSet(s) /\ Cardinality(s) \in Nat /\ Cardinality(s) # 0
           /\ s \ {x} \in SUBSET S /\ Cardinality(s \ {x}) = Cardinality(s) - 1
<1>1. IsFiniteSet(s)
  BY FS_Subset
<1>2. Cardinality(s) \in Nat
  BY <1>1, FS_CardinalityType
<1>3. Cardinality(s \ {x}) = Cardinality(s) - 1
  BY <1>1, FS_RemoveElement
<1>4. Cardinality(s) # 0
  BY <1>1, FS_EmptySet
<1> QED BY <1>1, <1>2, <1>3, <1>4

\* A sum over a set takes out one element after the other.
LEMMA SumEquation ==
    ASSUME NEW f, NEW S, IsFiniteSet(S)
    PROVE  /\ SumFunctionOnSet(f, S) = Sums(f, S)[S]
           /\ Sums(f, S)[{}] = 0
           /\ \A s \in SUBSET S : s # {} =>
                 /\ Picked(s) \in s
                 /\ Sums(f, S)[s] = f[Picked(s)] + Sums(f, S)[s \ {Picked(s)}]
<1> DEFINE Small(k) == {s \in SUBSET S : Cardinality(s) <= k}
           Next1(g, s) == IF s = {} THEN 0 ELSE f[Picked(s)] + g[s \ {Picked(s)}]
           Solves(g, D) == g = [s \in D |-> Next1(g, s)]
           Solved(k) == \E g : Solves(g, Small(k))
<1>1. \A k \in Nat : Solved(k)
  <2> SUFFICES ASSUME {k \in Nat : ~ Solved(k)} # {} PROVE FALSE
    OBVIOUS
  <2>1. PICK k \in Nat : ~ Solved(k) /\ \A j \in Nat : ~ Solved(j) => k <= j
    <3> DEFINE K == {x \in Nat : ~ Solved(x)}
    <3>1. K \subseteq Nat /\ K # {}
      <4> HIDE DEF Solved
      <4> QED OBVIOUS
    <3>2. PICK k \in K : \A y \in K : k <= y
      <4> HIDE DEF K
      <4> QED BY <3>1, LeastNatural
    <3> QED BY <3>2
  <2>2. \A s \in SUBSET S : s # {} =>
           /\ Picked(s) \in s /\ Cardinality(s) \in Nat \ {0}
           /\ s \ {Picked(s)} \in SUBSET S
           /\ Cardinality(s \ {Picked(s)}) = Cardinality(s) - 1
    <3> SUFFICES ASSUME NEW s \in SUBSET S, s # {}
                 PROVE  /\ Picked(s) \in s /\ Cardinality(s) \in Nat \ {0}
                        /\ s \ {Picked(s)} \in SUBSET S
                        /\ Cardinality(s \ {Picked(s)}) = Cardinality(s) - 1
      OBVIOUS
    <3>1. Picked(s) \in s
      BY DEF Picked
    <3> QED BY <3>1, TakenOut
  <2>3. k # 0
    <3> DEFINE zero == [s \in Small(0) |-> 0]
    <3>1. \A s \in Small(0) : s = {}
      <4> SUFFICES ASSUME NEW s \in SUBSET S, Cardinality(s) <= 0, s # {} PROVE FALSE
        OBVIOUS
      <4>1. Cardinality(s) \in Nat \ {0}
        BY <2>2
      <4> QED BY <4>1
    <3>2. Solves(zero, Small(0))
      <4> HIDE DEF Small
      <4> QED BY <3>1
    <3> HIDE DEF Solves
    <3> QED BY <2>1, <3>2
  <2>4. PICK g : Solves(g, Small(k - 1))
    <3>1. k - 1 \in Nat
      BY <2>3
    <3>2. Solved(k - 1)
      <4> HIDE DEF Solved
      <4> QED BY <2>1, <3>1
    <3> QED BY <3>2
  <2> DEFINE h == [s \in Small(k) |-> Next1(g, s)]
  <2>5. \A s \in Small(k) : s # {} =>
            /\ s \ {Picked(s)} \in Small(k - 1) /\ s \ {Picked(s)} \in Small(k)
            /\ h[s \ {Picked(s)}] = g[s \ {Picked(s)}]
    <3> TAKE s \in Small(k)
    <3> HAVE s # {}
    <3> DEFINE t == s \ {Picked(s)}
    <3>1. t \in Small(k - 1) /\ t \in Small(k)
      BY <2>2
    <3>2. g[t] = Next1(g, t)
      <4> HIDE DEF Next1, Small, t
      <4> QED BY <2>4, <3>1
    <3>3. h[t] = Next1(g, t)
      <4> HIDE DEF Next1, Small, t
      <4> QED BY <3>1
    <3> QED BY <3>1, <3>2, <3>3
  <2>6. \A s \in Small(k) : h[s] = Next1(h, s)
    <3> TAKE s \in Small(k)
    <3>1. h[s] = Next1(g, s)
      <4> HIDE DEF Next1, Small
      <4> QED OBVIOUS
    <3> HIDE DEF h, Small
    <3> QED BY <2>5, <3>1
  <2>7. Solves(h, Small(k))
    <3> HIDE DEF Next1, Small
    <3> QED BY <2>6
  <2> HIDE DEF Solves
  <2> QED BY <2>1, <2>7
<1>2. Cardinality(S) \in Nat /\ Small(Cardinality(S)) = SUBSET S
  <2>1. Cardinality(S) \in Nat
    BY FS_CardinalityType
  <2>2. \A s \in SUBSET S : Cardinality(s) <= Cardinality(S)
    BY FS_Subset
  <2> QED BY <2>1, <2>2
<1>3. \E g : Solves(g, SUBSET S)
  <2> HIDE DEF Solves, Small
  <2> QED BY <1>1, <1>2
<1> DEFINE sum == Sums(f, S)
<1>4. SumFunctionOnSet(f, S) = sum[S]
  BY DEF SumFunctionOnSet, FoldFunctionOnSet, MapThenFoldSet, Sums, Picked
<1>5. Solves(sum, SUBSET S)
  BY <1>3 DEF Sums
<1>6. \A s \in SUBSET S : sum[s] = Next1(sum, s)
  <2> HIDE DEF sum, Next1
  <2> QED BY <1>5
<1>7. \A s \in SUBSET S : s # {} => Picked(s) \in s
  BY DEF Picked
<1> HIDE DEF sum
<1>8. sum[{}] = 0
  BY <1>6
<1>9. \A s \in SUBSET S : s # {} => sum[s] = f[Picked(s)] + sum[s \ {Picked(s)}]
  BY <1>6
<1> QED BY <1>4, <1>7, <1>8, <1>9 DEF sum

\* Whatever element is added, the sum grows by its value.
LEMMA SumGrows ==
    ASSUME NEW f, NEW S, IsFiniteSet(S), \A x \in S : f[x] \in Nat
    PROVE  /\ SumFunctionOnSet(f, S) = Sums(f, S)[S]
           /\ Sums(f, S)[{}] = 0
           /\ \A s \in SUBSET S : Sums(f, S)[s] \in Nat
           /\ \A s \in SUBSET S : \A y \in S \ s :
                 Sums(f, S)[s \cup {y}] = Sums(f, S)[s] + f[y]
<1> DEFINE sum == Sums(f, S)
<1>1. SumFunctionOnSet(f, S) = sum[S]
  BY SumEquation
<1>2. sum[{}] = 0
  BY SumEquation
<1>3. \A s \in SUBSET S :
         s # {} => Picked(s) \in s /\ sum[s] = f[Picked(s)] + sum[s \ {Picked(s)}]
  BY SumEquation
<1> HIDE DEF sum
<1> DEFINE Right(s) == /\ sum[s] \in Nat
                       /\ \A x \in s : sum[s] = f[x] + sum[s \ {x}]
<1>4. \A k \in Nat : \A s \in SUBSET S : Cardinality(s) = k => Right(s)
  <2> SUFFICES ASSUME {k \in Nat : \E s \in SUBSET S : Cardinality(s) = k /\ ~ Right(s)} # {}
               PROVE  FALSE
    OBVIOUS
  <2>1. PICK k \in Nat :
           /\ \E s \in SUBSET S : Cardinality(s) = k /\ ~ Right(s)
           /\ \A j \in Nat : (\E s \in SUBSET S : Cardinality(s) = j /\ ~ Right(s)) => k <= j
    <3> DEFINE K == {x \in Nat : \E s \in SUBSET S : Cardinality(s) = x /\ ~ Right(s)}
    <3>1. K \subseteq Nat /\ K # {}
      <4> HIDE DEF Right
      <4> QED OBVIOUS
    <3>2. PICK k \in K : \A y \in K : k <= y
      <4> HIDE DEF K
      <4> QED BY <3>1, LeastNatural
    <3> HIDE DEF Right
    <3> QED BY <3>2
  <2>2. PICK s \in SUBSET S : Cardinality(s) = k /\ ~ Right(s)
    BY <2>1
  <2>3. \A t \in SUBSET S : Cardinality(t) \in Nat /\ (Cardinality(t) < k => Right(t))
    <3> SUFFICES ASSUME NEW t \in SUBSET S
                 PROVE  Cardinality(t) \in Nat /\ (Cardinality(t) < k => Right(t))
      OBVIOUS
    <3>1. Cardinality(t) \in Nat
      BY FS_Subset, FS_CardinalityType
    <3> HIDE DEF Right
    <3> QED BY <2>1, <3>1
  <2>4. \A x \in s : s \ {x} \in SUBSET S /\ Right(s \ {x})
    <3> SUFFICES ASSUME NEW x \in s PROVE s \ {x} \in SUBSET S /\ Right(s \ {x})
      OBVIOUS
    <3>1. s \ {x} \in SUBSET S /\ Cardinality(s \ {x}) = Cardinality(s) - 1
      BY TakenOut
    <3> HIDE DEF Right
    <3> QED BY <2>2, <2>3, <3>1
  <2>5. CASE s = {}
    BY <1>2, <2>2, <2>5
  <2>6. CASE s # {}
    <3> PICK p \in {Picked(s)} : TRUE
      OBVIOUS
    <3>1. p \in s /\ sum[s] = f[p] + sum[s \ {p}]
      BY <1>3, <2>6
    <3>2. sum[s] \in Nat
      <4>1. sum[s \ {p}] \in Nat
        BY <2>4, <3>1
      <4> QED BY <3>1, <4>1
    <3>3. ASSUME NEW x \in s PROVE sum[s] = f[x] + sum[s \ {x}]
      <4>1. CASE x = p
        BY <3>1, <4>1
      <4>2. CASE x # p
        <5>1. x \in s \ {p} /\ p \in s \ {x}
          BY <3>1, <4>2
        <5>2. sum[s \ {p}] = f[x] + sum[(s \ {p}) \ {x}]
          BY <2>4, <3>1, <5>1
        <5>3. sum[s \ {x}] = f[p] + sum[(s \ {x}) \ {p}]
          BY <2>4, <5>1
        <5>4. (s \ {p}) \ {x} = (s \ {x}) \ {p}
          OBVIOUS
        <5>5. sum[(s \ {p}) \ {x}] \in Nat
          <6>1. (s \ {p}) \ {x} \in SUBSET S /\ Cardinality((s \ {p}) \ {x}) < k
            <7>1. Cardinality(s \ {p}) = k - 1 /\ s \ {p} \in SUBSET S
              BY <2>2, <3>1, TakenOut
            <7>2. Cardinality((s \ {p}) \ {x}) = Cardinality(s \ {p}) - 1
              BY <5>1, <7>1, TakenOut
            <7> QED BY <7>1, <7>2
          <6> QED BY <2>3, <6>1
        <5>6. f[x] \in Nat /\ f[p] \in Nat
          BY <3>1
        <5>7. PICK rest : rest \in Nat /\ sum[s \ {p}] = f[x] + rest /\ sum[s \ {x}] = f[p] + rest
          BY <5>2, <5>3, <5>4, <5>5, Zenon
        <5>8. f[p] + (f[x] + rest) = f[x] + (f[p] + rest)
          BY <5>6, <5>7
        <5> QED BY <3>1, <5>7, <5>8, Zenon
      <4> QED BY <4>1, <4>2
    <3> QED BY <2>2, <3>2, <3>3
  <2> QED BY <2>5, <2>6
<1>5. \A s \in SUBSET S : Right(s)
  <2> SUFFICES ASSUME NEW s \in SUBSET S PROVE Right(s)
    OBVIOUS
  <2>1. Cardinality(s) \in Nat
    BY FS_Subset, FS_CardinalityType
  <2> HIDE DEF Right
  <2> QED BY <1>4, <2>1
<1>6. ASSUME NEW s \in SUBSET S, NEW y \in S \ s PROVE sum[s \cup {y}] = sum[s] + f[y]
  <2>1. s \cup {y} \in SUBSET S /\ (s \cup {y}) \ {y} = s
    OBVIOUS
  <2>2. sum[s \cup {y}] = f[y] + sum[(s \cup {y}) \ {y}]
    BY <1>5, <2>1
  <2>3. sum[s] \in Nat /\ f[y] \in Nat
    BY <1>5
  <2>4. sum[s \cup {y}] = f[y] + sum[s]
    BY <2>1, <2>2, Zenon
  <2>5. f[y] + sum[s] = sum[s] + f[y]
    BY <2>3
  <2> QED BY <2>4, <2>5, Zenon
<1> QED BY <1>1, <1>2, <1>5, <1>6 DEF sum

-----------------------------------------------------------------------------
(***************************************************************************)
(* The scores of tags.                                                     *)
(***************************************************************************)
Scored == [Tags -> [score : Nat, sources : Seq(Labels)]]

\* A tag has these points, and sources, all of them from a set, if it has any.
HasPoints(known, points, terms) ==
    /\ known.score = points
    /\ Range(known.sources) \subseteq terms
    /\ (known.sources # <<>>) <=> (known.score > 0)

\* A term that was seen is appended once.
LEMMA EvidenceShape ==
    ASSUME NEW known \in [score : Nat, sources : Seq(Labels)], NEW points \in Nat, points > 0,
           NEW term \in Labels
    PROVE  /\ WithEvidence(known, points, term) \in [score : Nat, sources : Seq(Labels)]
           /\ \A terms, total : term \in terms /\ HasPoints(known, total, terms) =>
                 HasPoints(WithEvidence(known, points, term), total + points, terms)
<1> DEFINE old == known.sources
           new == IF term \in Range(old) THEN old ELSE Append(old, term)
<1>1. known.score \in Nat /\ old \in Seq(Labels)
  OBVIOUS
<1>2. new \in Seq(Labels) /\ new # <<>> /\ Range(new) = Range(old) \cup {term}
  <2>1. CASE term \in Range(old)
    <3>1. DOMAIN old # {}
      BY <2>1 DEF Range
    <3>2. old # <<>>
      BY <3>1, EmptySeq
    <3> QED BY <1>1, <2>1, <3>2
  <2>2. CASE term \notin Range(old)
    <3> HIDE DEF old
    <3>1. /\ Append(old, term) \in Seq(Labels) /\ Append(old, term) # <<>>
          /\ Range(Append(old, term)) = Range(old) \cup {term}
      <4> PICK t \in {Append(old, term)} : TRUE
        OBVIOUS
      <4>1. /\ Len(old) \in Nat /\ DOMAIN old = 1 .. Len(old)
            /\ t \in Seq(Labels) /\ Len(t) = Len(old) + 1
            /\ \A k \in 1 .. Len(old) : t[k] = old[k]
            /\ t[Len(old) + 1] = term
        <5>1. t = Append(old, term)
          OBVIOUS
        <5> QED BY <1>1, <5>1, AppendProperties, LenProperties
      <4>2. DOMAIN t = 1 .. Len(old) + 1
        BY <4>1, LenProperties
      <4>3. \A k \in DOMAIN t : k \in 1 .. Len(old) \/ k = Len(old) + 1
        BY <4>1, <4>2
      <4>4. 1 .. Len(old) \subseteq DOMAIN t /\ Len(old) + 1 \in DOMAIN t
        BY <4>1, <4>2
      <4>5. Range(t) = Range(old) \cup {term}
        BY <4>1, <4>3, <4>4 DEF Range
      <4>6. t # <<>>
        BY <4>4, EmptySeq
      <4> QED BY <4>1, <4>5, <4>6
    <3> QED BY <2>2, <3>1
  <2> QED BY <2>1, <2>2
<1>3. WithEvidence(known, points, term) = [score |-> known.score + points, sources |-> new]
  BY DEF WithEvidence
<1> HIDE DEF new, old
<1>4. known.score + points \in Nat /\ known.score + points > 0
  BY <1>1
<1> QED BY <1>1, <1>2, <1>3, <1>4 DEF HasPoints, old

\* What one concept gives its tags.
LEMMA ScoreConceptShape ==
    ASSUME NEW scored \in Scored, NEW row, row.term \in Labels, NEW score \in [Tags -> Nat]
    PROVE  /\ ScoreConcept(scored, row, score) \in Scored
           /\ \A tag \in Tags, total \in Nat : \A terms :
                 HasPoints(scored[tag], total, terms) =>
                     /\ tag \in row.tags /\ row.term \in terms =>
                           HasPoints(ScoreConcept(scored, row, score)[tag], total + score[tag], terms)
                     /\ tag \notin row.tags =>
                           HasPoints(ScoreConcept(scored, row, score)[tag], total, terms)
<1> DEFINE new(tag) == ScoreConcept(scored, row, score)[tag]
           given(tag) == tag \in row.tags /\ score[tag] > 0
<1>1. /\ \A tag \in Tags : new(tag) = IF given(tag) THEN WithEvidence(scored[tag], score[tag], row.term)
                                      ELSE scored[tag]
      /\ DOMAIN ScoreConcept(scored, row, score) = Tags
  BY DEF ScoreConcept
<1>2. \A tag \in Tags : score[tag] \in Nat /\ scored[tag] \in [score : Nat, sources : Seq(Labels)]
  BY DEF Scored
<1>3. ASSUME NEW tag \in Tags PROVE new(tag) \in [score : Nat, sources : Seq(Labels)]
  BY <1>1, <1>2, EvidenceShape
<1>4. ScoreConcept(scored, row, score) \in Scored
  BY <1>3 DEF Scored, ScoreConcept
<1>5. ASSUME NEW tag \in Tags, NEW terms, NEW total \in Nat, HasPoints(scored[tag], total, terms),
             tag \in row.tags, row.term \in terms
      PROVE  HasPoints(new(tag), total + score[tag], terms)
  <2>1. CASE score[tag] > 0
    <3>1. new(tag) = WithEvidence(scored[tag], score[tag], row.term)
      BY <1>1, <1>5, <2>1
    <3> HIDE DEF new
    <3>2. HasPoints(WithEvidence(scored[tag], score[tag], row.term), total + score[tag], terms)
      BY <1>2, <1>5, <2>1, EvidenceShape
    <3> QED BY <3>1, <3>2
  <2>2. CASE ~(score[tag] > 0)
    <3>1. total + score[tag] = total /\ new(tag) = scored[tag]
      BY <1>1, <1>2, <2>2
    <3> QED BY <1>5, <3>1
  <2> QED BY <2>1, <2>2
<1>6. ASSUME NEW tag \in Tags, NEW terms, NEW total \in Nat, HasPoints(scored[tag], total, terms),
             tag \notin row.tags
      PROVE  HasPoints(new(tag), total, terms)
  BY <1>1, <1>6
<1> HIDE DEF new
<1> QED BY <1>4, <1>5, <1>6 DEF new

\* The concepts a job has listed, and the terms of those that carry a tag.
Listing(listed) ==
    DOMAIN listed \subseteq ConceptIds /\ \A c \in DOMAIN listed : listed[c].term \in Labels

Terms(listed, tag) ==
    {listed[c].term : c \in {d \in DOMAIN listed : tag \in listed[d].tags}}

\* Both loops over scores: the n-th round is about the concept ids[n].
Scoring(g, N, base, listed, ids, points) ==
    /\ g = [n \in 0 .. N |-> g[n]]
    /\ g[0] = base
    /\ \A n \in 1 .. N :
          g[n] = IF ids[n] \in DOMAIN listed
                 THEN ScoreConcept(g[n - 1], listed[ids[n]], points[n])
                 ELSE g[n - 1]

LEMMA ScoringRuns ==
    ASSUME NEW N \in Nat, NEW base \in Scored, NEW listed, Listing(listed), NEW ids, NEW points,
           \A n \in 1 .. N : ids[n] \in DOMAIN listed => points[n] \in [Tags -> Nat]
    PROVE  \E g : Scoring(g, N, base, listed, ids, points)
<1> DEFINE Round(n, s) ==
             IF ids[n] \in DOMAIN listed THEN ScoreConcept(s, listed[ids[n]], points[n]) ELSE s
           round == [n \in 1 .. N |-> [s \in Scored |-> Round(n, s)]]
<1>1. ASSUME NEW n \in 1 .. N, NEW s \in Scored PROVE Round(n, s) \in Scored
  BY ScoreConceptShape DEF Listing
<1>2. round \in [1 .. N -> [Scored -> Scored]]
  <2> HIDE DEF Round
  <2> QED BY <1>1
<1>3. PICK g : Runs(g, N, Scored, base, round)
  <2> HIDE DEF round
  <2> QED BY <1>2, LoopRuns
<1>4. /\ g \in [0 .. N -> Scored] /\ g[0] = base
      /\ \A n \in 1 .. N : g[n] = round[n][g[n - 1]]
  <2> HIDE DEF round
  <2> QED BY <1>3 DEF Runs
<1>5. ASSUME NEW n \in 1 .. N PROVE g[n] = Round(n, g[n - 1])
  <2>1. g[n - 1] \in Scored
    BY <1>4
  <2>2. round[n][g[n - 1]] = Round(n, g[n - 1])
    <3> HIDE DEF Round
    <3> QED BY <2>1
  <2> HIDE DEF Round, round
  <2> QED BY <1>4, <2>2
<1>6. g = [n \in 0 .. N |-> g[n]]
  BY <1>4
<1> QED BY <1>4, <1>5, <1>6 DEF Scoring

LEMMA ScoringStays ==
    ASSUME NEW N \in Nat, NEW base \in Scored, NEW listed, Listing(listed), NEW ids, NEW points,
           \A n \in 1 .. N : ids[n] \in DOMAIN listed => points[n] \in [Tags -> Nat],
           NEW g, Scoring(g, N, base, listed, ids, points)
    PROVE  g[N] \in Scored
<1> DEFINE T == {n \in 0 .. N : g[n] \in Scored}
<1>1. 0 \in T
  BY DEF Scoring
<1>2. ASSUME NEW n \in 1 .. N, n - 1 \in T PROVE n \in T
  <2>1. g[n - 1] \in Scored /\ n \in 0 .. N
    BY <1>2
  <2>2. g[n] = IF ids[n] \in DOMAIN listed
               THEN ScoreConcept(g[n - 1], listed[ids[n]], points[n])
               ELSE g[n - 1]
    BY DEF Scoring
  <2>3. CASE ids[n] \in DOMAIN listed
    <3>1. points[n] \in [Tags -> Nat] /\ listed[ids[n]].term \in Labels
      BY <2>3 DEF Listing
    <3>2. g[n] = ScoreConcept(g[n - 1], listed[ids[n]], points[n])
      BY <2>2, <2>3
    <3>3. ScoreConcept(g[n - 1], listed[ids[n]], points[n]) \in Scored
      BY <2>1, <3>1, ScoreConceptShape
    <3> QED BY <2>1, <3>2, <3>3
  <2>4. CASE ids[n] \notin DOMAIN listed
    BY <2>1, <2>2, <2>4
  <2> QED BY <2>3, <2>4
<1>3. 0 .. N \subseteq T
  <2> HIDE DEF T
  <2> QED BY <1>1, <1>2, Upwards
<1> QED BY <1>3

\* The rounds that are about a carrier of a tag have keys in S that tell them
\* apart, and give the tag the points f has for the key.
Keyed(keys, S, f, N, listed, ids, points, tag) ==
    /\ \A n \in 1 .. N :
          keys[n] \in S <=> ids[n] \in DOMAIN listed /\ tag \in listed[ids[n]].tags
    /\ \A n \in 1 .. N : keys[n] \in S => points[n][tag] = f[keys[n]]
    /\ \A m, n \in 1 .. N : keys[m] = keys[n] => m = n
    /\ \A x \in S : \E n \in 1 .. N : keys[n] = x

\* Then what they give it is the sum of f.
LEMMA ScoringAddsUp ==
    ASSUME NEW N \in Nat, NEW base \in Scored, NEW listed, Listing(listed), NEW ids, NEW points,
           \A n \in 1 .. N : ids[n] \in DOMAIN listed => points[n] \in [Tags -> Nat],
           NEW g, Scoring(g, N, base, listed, ids, points),
           NEW tag \in Tags, NEW total \in Nat, HasPoints(base[tag], total, Terms(listed, tag)),
           NEW keys, NEW S, IsFiniteSet(S), NEW f, \A x \in S : f[x] \in Nat,
           Keyed(keys, S, f, N, listed, ids, points, tag)
    PROVE  /\ g[N] \in Scored
           /\ HasPoints(g[N][tag], total + SumFunctionOnSet(f, S), Terms(listed, tag))
<1> DEFINE Before(n) == {x \in S : \E m \in 1 .. n : keys[m] = x}
           terms == Terms(listed, tag)
           Sum(n) == Sums(f, S)[Before(n)]
           T == {n \in 0 .. N : g[n] \in Scored /\ HasPoints(g[n][tag], total + Sum(n), terms)}
<1>0. /\ \A n \in 1 .. N :
            keys[n] \in S <=> ids[n] \in DOMAIN listed /\ tag \in listed[ids[n]].tags
      /\ \A n \in 1 .. N : keys[n] \in S => points[n][tag] = f[keys[n]]
      /\ \A m, n \in 1 .. N : keys[m] = keys[n] => m = n
      /\ \A x \in S : \E n \in 1 .. N : keys[n] = x
  BY DEF Keyed
<1>1. /\ SumFunctionOnSet(f, S) = Sums(f, S)[S] /\ Sums(f, S)[{}] = 0
      /\ \A s \in SUBSET S : Sums(f, S)[s] \in Nat
      /\ \A s \in SUBSET S : \A y \in S \ s :
            Sums(f, S)[s \cup {y}] = Sums(f, S)[s] + f[y]
  BY SumGrows
<1>2. \A n \in 0 .. N : Before(n) \in SUBSET S /\ Sum(n) \in Nat
  BY <1>1
<1>3. g[0] = base /\ \A n \in 1 .. N :
         g[n] = IF ids[n] \in DOMAIN listed
                THEN ScoreConcept(g[n - 1], listed[ids[n]], points[n])
                ELSE g[n - 1]
  BY DEF Scoring
<1>4. 0 \in T
  <2>1. Before(0) = {}
    OBVIOUS
  <2>2. Sum(0) = 0
    <3> HIDE DEF Before
    <3> QED BY <1>1, <2>1, Zenon
  <2> HIDE DEF Sum
  <2>3. total + Sum(0) = total
    BY <2>2
  <2> QED BY <1>3, <2>3
<1>5. ASSUME NEW n \in 1 .. N, n - 1 \in T PROVE n \in T
  <2>1. n - 1 \in 0 .. N /\ n \in 0 .. N
    OBVIOUS
  <2>2. g[n - 1] \in Scored /\ HasPoints(g[n - 1][tag], total + Sum(n - 1), terms)
    BY <1>5
  <2>3. total + Sum(n - 1) \in Nat
    <3>1. Sum(n - 1) \in Nat
      BY <1>2, <2>1
    <3> QED BY <3>1
  <2>4. CASE keys[n] \in S
    <3>1. /\ ids[n] \in DOMAIN listed /\ tag \in listed[ids[n]].tags
          /\ listed[ids[n]].term \in Labels /\ listed[ids[n]].term \in terms
      BY <1>0, <2>4 DEF Listing, Terms
    <3>2. g[n] = ScoreConcept(g[n - 1], listed[ids[n]], points[n])
      BY <1>3, <3>1
    <3>3. /\ g[n] \in Scored
          /\ HasPoints(g[n][tag], (total + Sum(n - 1)) + points[n][tag], terms)
      <4>1. points[n] \in [Tags -> Nat]
        BY <3>1
      <4> DEFINE row == listed[ids[n]]
      <4> HIDE DEF Sum, terms, row
      <4>2. /\ ScoreConcept(g[n - 1], row, points[n]) \in Scored
            /\ HasPoints(ScoreConcept(g[n - 1], row, points[n])[tag],
                         (total + Sum(n - 1)) + points[n][tag], terms)
        BY <2>2, <2>3, <3>1, <4>1, ScoreConceptShape DEF row
      <4> QED BY <3>2, <4>2 DEF row
    <3>4. Before(n) = Before(n - 1) \cup {keys[n]} /\ keys[n] \notin Before(n - 1)
      <4>1. \A m \in 1 .. n : m \in 1 .. n - 1 \/ m = n
        OBVIOUS
      <4>2. 1 .. n - 1 \subseteq 1 .. n /\ n \in 1 .. n /\ n \notin 1 .. n - 1
        OBVIOUS
      <4>3. keys[n] \notin Before(n - 1)
        BY <1>0, <4>2
      <4> QED BY <2>4, <4>1, <4>2, <4>3
    <3>5. Sum(n) = Sum(n - 1) + f[keys[n]]
      <4>1. Before(n - 1) \in SUBSET S /\ keys[n] \in S \ Before(n - 1)
        BY <1>2, <2>1, <2>4, <3>4
      <4> HIDE DEF Before
      <4>2. Sums(f, S)[Before(n - 1) \cup {keys[n]}] = Sums(f, S)[Before(n - 1)] + f[keys[n]]
        BY <1>1, <4>1
      <4> QED BY <3>4, <4>2, Zenon
    <3>6. (total + Sum(n - 1)) + points[n][tag] = total + Sum(n)
      <4>1. Sum(n - 1) \in Nat /\ f[keys[n]] \in Nat /\ points[n][tag] = f[keys[n]]
        BY <1>0, <1>2, <2>1, <2>4
      <4> HIDE DEF Sum
      <4> QED BY <3>5, <4>1
    <3> HIDE DEF Sum
    <3> QED BY <2>1, <3>3, <3>6
  <2>5. CASE keys[n] \notin S
    <3>1. g[n] \in Scored /\ HasPoints(g[n][tag], total + Sum(n - 1), terms)
      <4>1. CASE ids[n] \in DOMAIN listed
        <5>1. /\ g[n] = ScoreConcept(g[n - 1], listed[ids[n]], points[n])
              /\ tag \notin listed[ids[n]].tags /\ listed[ids[n]].term \in Labels
          BY <1>0, <1>3, <2>5, <4>1 DEF Listing
        <5>2. points[n] \in [Tags -> Nat]
          BY <4>1
        <5> DEFINE row == listed[ids[n]]
        <5>3. row.term \in Labels /\ tag \notin row.tags
          BY <5>1
        <5> HIDE DEF Sum, terms, row
        <5>4. /\ ScoreConcept(g[n - 1], row, points[n]) \in Scored
              /\ HasPoints(ScoreConcept(g[n - 1], row, points[n])[tag],
                           total + Sum(n - 1), terms)
          <6> PICK sum \in {total + Sum(n - 1)} : TRUE
            OBVIOUS
          <6>1. sum \in Nat /\ HasPoints(g[n - 1][tag], sum, terms)
            BY <2>2, <2>3
          <6>2. /\ ScoreConcept(g[n - 1], row, points[n]) \in Scored
                /\ HasPoints(ScoreConcept(g[n - 1], row, points[n])[tag], sum, terms)
            BY <2>2, <5>2, <5>3, <6>1, ScoreConceptShape, ZenonT(30)
          <6> QED BY <6>2
        <5> QED BY <5>1, <5>4 DEF row
      <4>2. CASE ids[n] \notin DOMAIN listed
        <5>1. g[n] = g[n - 1]
          BY <1>3, <4>2
        <5> HIDE DEF Sum, terms
        <5> QED BY <2>2, <5>1
      <4> QED BY <4>1, <4>2
    <3>2. Before(n) = Before(n - 1)
      <4>1. \A m \in 1 .. n : m \in 1 .. n - 1 \/ m = n
        OBVIOUS
      <4>2. 1 .. n - 1 \subseteq 1 .. n
        OBVIOUS
      <4> QED BY <2>5, <4>1, <4>2
    <3>3. Sum(n) = Sum(n - 1)
      <4> HIDE DEF Before
      <4> QED BY <3>2
    <3> HIDE DEF Sum, terms
    <3> QED BY <2>1, <3>1, <3>3
  <2> QED BY <2>4, <2>5
<1>6. N \in T
  <2> HIDE DEF T
  <2>1. 0 .. N \subseteq T
    BY <1>4, <1>5, Upwards
  <2> QED BY <2>1
<1>7. Before(N) = S
  BY <1>0
<1>8. Sum(N) = SumFunctionOnSet(f, S)
  <2> HIDE DEF Before
  <2> QED BY <1>1, <1>7
<1> HIDE DEF Sum, terms
<1> QED BY <1>6, <1>8 DEF terms

\* The concepts that carry a tag, and what the query gives it for each.
Carriers(listed, tag) == {c \in DOMAIN listed : tag \in listed[c].tags}

LexicalPoints(tokens, listed, tag) ==
    [c \in Carriers(listed, tag) |-> ConceptScore(tokens, listed[c]) + TagScore(tokens, tag)]

SemanticPoints(listed, near, tag) ==
    [k \in {j \in DOMAIN near : near[j].concept \in Carriers(listed, tag)} |-> near[k].score]

LEMMA PointsAreNatural ==
    ASSUME NEW tokens, IsFiniteSet(tokens), NEW row, NEW tag
    PROVE  ConceptScore(tokens, row) + TagScore(tokens, tag) \in Nat
<1>1. IsFiniteSet(tokens \cap ({row.term} \cup row.tags))
  BY FS_Intersection
<1>2. Cardinality(tokens \cap ({row.term} \cup row.tags)) \in Nat
  BY <1>1, FS_CardinalityType
<1>3. ConceptScore(tokens, row) \in Nat
  BY <1>2 DEF ConceptScore
<1>4. TagScore(tokens, tag) \in Nat
  BY DEF TagScore
<1> QED BY <1>3, <1>4

LEMMA NothingScored ==
    NoScores \in Scored /\ \A tag \in Tags : \A terms : HasPoints(NoScores[tag], 0, terms)
<1>1. <<>> \in Seq(Labels) /\ Range(<<>>) = {}
  BY EmptySeq DEF Range
<1> QED BY <1>1 DEF NoScores, Scored, HasPoints

\* The loop over all concepts gives a tag the points of its carriers.
LEMMA LexicalScoresAddUp ==
    ASSUME NEW tokens, IsFiniteSet(tokens), NEW listed, Listing(listed)
    PROVE  /\ LexicalScores(tokens, listed) \in Scored
           /\ \A tag \in Tags :
                 HasPoints(LexicalScores(tokens, listed)[tag],
                           SumFunction(LexicalPoints(tokens, listed, tag)), Terms(listed, tag))
<1> DEFINE N == Len(Concepts)
           Score(row) == [tag \in Tags |-> ConceptScore(tokens, row) + TagScore(tokens, tag)]
           points == [n \in 1 .. N |-> Score(listed[Concepts[n]])]
           Round(h, n) == IF n = 0 THEN NoScores
                          ELSE IF Concepts[n] \in DOMAIN listed
                               THEN ScoreConcept(h[n - 1], listed[Concepts[n]],
                                                 Score(listed[Concepts[n]]))
                               ELSE h[n - 1]
           Solves(h) == h = [n \in 0 .. N |-> Round(h, n)]
           scored == CHOOSE h : Solves(h)
<1>1. /\ N \in Nat /\ DOMAIN Concepts = 1 .. N
      /\ \A n \in 1 .. N : Concepts[n] \in ConceptIds
      /\ \A c \in ConceptIds : \E n \in 1 .. N : Concepts[n] = c
      /\ \A m, n \in 1 .. N : Concepts[m] = Concepts[n] => m = n
  <2>1. Concepts \in Seq(ConceptIds) /\ IsInjective(Concepts)
    BY IdsAssumption
  <2>2. N \in Nat /\ DOMAIN Concepts = 1 .. N
    BY <2>1, LenProperties
  <2> HIDE DEF N
  <2> QED BY <2>1, <2>2 DEF ConceptIds, Range, IsInjective
<1>2. \A n \in 1 .. N : points[n] = Score(listed[Concepts[n]]) /\ points[n] \in [Tags -> Nat]
  <2> SUFFICES ASSUME NEW n \in 1 .. N PROVE Score(listed[Concepts[n]]) \in [Tags -> Nat]
    <3> HIDE DEF Score
    <3> QED OBVIOUS
  <2> QED BY PointsAreNatural
<1>3. Solves(scored) /\ LexicalScores(tokens, listed) = scored[N]
  <2>1. PICK g : Scoring(g, N, NoScores, listed, Concepts, points)
    <3> HIDE DEF N, points
    <3> QED BY <1>1, <1>2, NothingScored, ScoringRuns
  <2>2. \A n \in 0 .. N : g[n] = Round(g, n)
    <3> TAKE n \in 0 .. N
    <3>1. CASE n = 0
      BY <2>1, <3>1 DEF Scoring
    <3>2. CASE n # 0
      <4>1. n \in 1 .. N
        BY <1>1, <3>2
      <4>2. g[n] = IF Concepts[n] \in DOMAIN listed
                   THEN ScoreConcept(g[n - 1], listed[Concepts[n]], points[n])
                   ELSE g[n - 1]
        <5> HIDE DEF N, points
        <5> QED BY <2>1, <4>1 DEF Scoring
      <4>3. points[n] = Score(listed[Concepts[n]])
        BY <1>2, <4>1
      <4> HIDE DEF points, Score
      <4> QED BY <3>2, <4>2, <4>3
    <3> QED BY <3>1, <3>2
  <2>3. g = [n \in 0 .. N |-> g[n]]
    BY <2>1 DEF Scoring
  <2>4. Solves(g)
    <3> HIDE DEF Round, N
    <3> QED BY <2>2, <2>3
  <2>5. Solves(scored)
    <3> HIDE DEF Solves
    <3> QED BY <2>4
  <2>6. LexicalScores(tokens, listed) = scored[N]
    BY DEF LexicalScores
  <2> QED BY <2>5, <2>6
<1>4. Scoring(scored, N, NoScores, listed, Concepts, points)
  <2> HIDE DEF scored
  <2>1. \A n \in 0 .. N : scored[n] = Round(scored, n)
    <3> HIDE DEF Round, N
    <3> QED BY <1>3
  <2>2. scored = [n \in 0 .. N |-> scored[n]]
    <3>1. scored = [n \in 0 .. N |-> Round(scored, n)]
      BY <1>3
    <3> HIDE DEF Round, N
    <3> QED BY <3>1
  <2>3. scored[0] = NoScores
    <3>1. 0 \in 0 .. N /\ Round(scored, 0) = NoScores
      BY <1>1
    <3> HIDE DEF Round, N
    <3> QED BY <2>1, <3>1
  <2>4. ASSUME NEW n \in 1 .. N
        PROVE  scored[n] = IF Concepts[n] \in DOMAIN listed
                           THEN ScoreConcept(scored[n - 1], listed[Concepts[n]], points[n])
                           ELSE scored[n - 1]
    <3>1. scored[n] = Round(scored, n) /\ n # 0
      BY <1>1, <2>1
    <3>2. points[n] = Score(listed[Concepts[n]])
      BY <1>2
    <3> HIDE DEF points, Score
    <3> QED BY <3>1, <3>2
  <2> HIDE DEF N, points
  <2> QED BY <2>2, <2>3, <2>4 DEF Scoring
<1>5. ASSUME NEW tag \in Tags
      PROVE  /\ scored[N] \in Scored
             /\ HasPoints(scored[N][tag], SumFunction(LexicalPoints(tokens, listed, tag)),
                          Terms(listed, tag))
  <2> DEFINE S == Carriers(listed, tag)
             f == LexicalPoints(tokens, listed, tag)
  <2>1. IsFiniteSet(S)
    <3>1. S \subseteq ConceptIds
      BY DEF Listing, Carriers
    <3> QED BY <3>1, IdsAreFinite, FS_Subset
  <2>2. DOMAIN f = S /\ \A c \in S : f[c] = ConceptScore(tokens, listed[c]) + TagScore(tokens, tag)
                                     /\ f[c] \in Nat
    BY PointsAreNatural DEF LexicalPoints
  <2>3. \A n \in 1 .. N : Concepts[n] \in S
                          <=> Concepts[n] \in DOMAIN listed /\ tag \in listed[Concepts[n]].tags
    BY DEF Carriers
  <2>4. \A n \in 1 .. N : Concepts[n] \in S => points[n][tag] = f[Concepts[n]]
    <3> SUFFICES ASSUME NEW n \in 1 .. N, Concepts[n] \in S
                 PROVE  points[n][tag] = f[Concepts[n]]
      OBVIOUS
    <3>1. points[n] = Score(listed[Concepts[n]])
      BY <1>2
    <3> HIDE DEF points
    <3> QED BY <2>2, <3>1
  <2>5. \A x \in S : \E n \in 1 .. N : Concepts[n] = x
    BY <1>1 DEF Listing, Carriers
  <2>6. HasPoints(NoScores[tag], 0, Terms(listed, tag)) /\ NoScores \in Scored
    BY NothingScored
  <2>7. \A n \in 1 .. N : Concepts[n] \in DOMAIN listed => points[n] \in [Tags -> Nat]
    <3> HIDE DEF points
    <3> QED BY <1>2
  <2>8. \A m, n \in 1 .. N : Concepts[m] = Concepts[n] => m = n
    BY <1>1
  <2>9. N \in Nat
    BY <1>1
  <2>10. \A c \in S : f[c] \in Nat
    BY <2>2
  <2> HIDE DEF N, points, scored, S, f
  <2>0. Keyed(Concepts, S, f, N, listed, Concepts, points, tag)
    BY <2>3, <2>4, <2>5, <2>8 DEF Keyed
  <2>11. /\ scored[N] \in Scored
         /\ HasPoints(scored[N][tag], 0 + SumFunctionOnSet(f, S), Terms(listed, tag))
    <3>1. 0 \in Nat
      OBVIOUS
    <3> QED BY <1>4, <2>0, <2>1, <2>6, <2>7, <2>9, <2>10, <3>1, ScoringAddsUp
  <2>12. 0 + SumFunctionOnSet(f, S) = SumFunction(f)
    <3>1. SumFunctionOnSet(f, S) \in Nat
      <4>1. SumFunctionOnSet(f, S) = Sums(f, S)[S]
        BY <2>1, <2>10, SumGrows
      <4>2. Sums(f, S)[S] \in Nat
        BY <2>1, <2>10, SumGrows
      <4> QED BY <4>1, <4>2
    <3>2. SumFunction(f) = SumFunctionOnSet(f, S)
      BY <2>2 DEF SumFunction
    <3> QED BY <3>1, <3>2
  <2> QED BY <2>11, <2>12 DEF f
<1>6. scored[N] \in Scored
  <2> HIDE DEF scored, N, points
  <2> QED BY <1>1, <1>2, <1>4, NothingScored, ScoringStays
<1> HIDE DEF scored, N
<1> QED BY <1>3, <1>5, <1>6

\* The sum of a function with points is a natural number.
LEMMA SumIsNatural ==
    ASSUME NEW f, IsFiniteSet(DOMAIN f), \A x \in DOMAIN f : f[x] \in Nat
    PROVE  SumFunction(f) \in Nat
<1> DEFINE S == DOMAIN f
<1>1. SumFunction(f) = SumFunctionOnSet(f, S)
  BY DEF SumFunction
<1>2. SumFunctionOnSet(f, S) = Sums(f, S)[S] /\ Sums(f, S)[S] \in Nat
  BY SumGrows
<1> QED BY <1>1, <1>2

\* The loop over the nearest embeddings adds the scores of those that are about
\* a carrier.
LEMMA ScoresAddUp ==
    ASSUME NEW tokens, IsFiniteSet(tokens), NEW listed, Listing(listed),
           NEW near \in Seq([concept : ConceptIds, score : NearScores])
    PROVE  /\ Scores(tokens, listed, near) \in Scored
           /\ \A tag \in Tags :
                 HasPoints(Scores(tokens, listed, near)[tag],
                           SumFunction(LexicalPoints(tokens, listed, tag))
                              + SumFunction(SemanticPoints(listed, near, tag)),
                           Terms(listed, tag))
<1> DEFINE N == Len(near)
           base == LexicalScores(tokens, listed)
           ids == [n \in 1 .. N |-> near[n].concept]
           keys == [n \in 1 .. N |-> n]
           points == [n \in 1 .. N |-> [tag \in Tags |-> near[n].score]]
           Round(h, n) == IF n = 0 THEN base
                          ELSE IF near[n].concept \in DOMAIN listed
                               THEN ScoreConcept(h[n - 1], listed[near[n].concept],
                                                 [tag \in Tags |-> near[n].score])
                               ELSE h[n - 1]
           Solves(h) == h = [n \in 0 .. N |-> Round(h, n)]
           scored == CHOOSE h : Solves(h)
<1>1. /\ N \in Nat /\ DOMAIN near = 1 .. N
      /\ \A n \in 1 .. N : near[n].score \in Nat
  <2>1. N \in Nat /\ DOMAIN near = 1 .. N
    BY LenProperties
  <2>2. \A n \in 1 .. N : near[n] \in [concept : ConceptIds, score : NearScores]
    BY ElementOfSeq
  <2>3. NearScores \subseteq Nat
    BY NearScoresAssumption
  <2> HIDE DEF N
  <2> QED BY <2>1, <2>2, <2>3
<1>2. \A n \in 1 .. N : /\ points[n] = [tag \in Tags |-> near[n].score]
                        /\ points[n] \in [Tags -> Nat]
                        /\ ids[n] = near[n].concept /\ keys[n] = n
  <2> HIDE DEF N
  <2> QED BY <1>1
<1>3. base \in Scored
  BY LexicalScoresAddUp
<1>4. Solves(scored) /\ Scores(tokens, listed, near) = scored[N]
  <2>1. PICK g : Scoring(g, N, base, listed, ids, points)
    <3> HIDE DEF N, points, ids, base
    <3> QED BY <1>1, <1>2, <1>3, ScoringRuns
  <2>2. \A n \in 0 .. N : g[n] = Round(g, n)
    <3> TAKE n \in 0 .. N
    <3>1. CASE n = 0
      <4> HIDE DEF base
      <4> QED BY <2>1, <3>1 DEF Scoring
    <3>2. CASE n # 0
      <4>1. n \in 1 .. N
        BY <1>1, <3>2
      <4>2. g[n] = IF ids[n] \in DOMAIN listed
                   THEN ScoreConcept(g[n - 1], listed[ids[n]], points[n])
                   ELSE g[n - 1]
        <5> HIDE DEF N, points, ids, base
        <5> QED BY <2>1, <4>1 DEF Scoring
      <4>3. points[n] = [tag \in Tags |-> near[n].score] /\ ids[n] = near[n].concept
        BY <1>2, <4>1
      <4> HIDE DEF points, ids, base
      <4> QED BY <3>2, <4>2, <4>3
    <3> QED BY <3>1, <3>2
  <2>3. g = [n \in 0 .. N |-> g[n]]
    BY <2>1 DEF Scoring
  <2>4. Solves(g)
    <3> HIDE DEF Round, N
    <3> QED BY <2>2, <2>3
  <2>5. Solves(scored)
    <3> HIDE DEF Solves
    <3> QED BY <2>4
  <2>6. Scores(tokens, listed, near) = scored[N]
    BY DEF Scores
  <2> QED BY <2>5, <2>6
<1>5. Scoring(scored, N, base, listed, ids, points)
  <2> HIDE DEF scored
  <2>1. \A n \in 0 .. N : scored[n] = Round(scored, n)
    <3> HIDE DEF Round, N
    <3> QED BY <1>4
  <2>2. scored = [n \in 0 .. N |-> scored[n]]
    <3>1. scored = [n \in 0 .. N |-> Round(scored, n)]
      BY <1>4
    <3> HIDE DEF Round, N
    <3> QED BY <3>1
  <2>3. scored[0] = base
    <3>1. 0 \in 0 .. N /\ Round(scored, 0) = base
      <4> HIDE DEF base
      <4> QED BY <1>1
    <3> HIDE DEF Round, N, base
    <3> QED BY <2>1, <3>1
  <2>4. ASSUME NEW n \in 1 .. N
        PROVE  scored[n] = IF ids[n] \in DOMAIN listed
                           THEN ScoreConcept(scored[n - 1], listed[ids[n]], points[n])
                           ELSE scored[n - 1]
    <3>1. scored[n] = Round(scored, n) /\ n # 0
      <4> HIDE DEF Round
      <4> QED BY <1>1, <2>1
    <3>2. points[n] = [tag \in Tags |-> near[n].score] /\ ids[n] = near[n].concept
      BY <1>2
    <3> HIDE DEF points, ids, base
    <3> QED BY <3>1, <3>2
  <2> HIDE DEF N, points, ids, base
  <2> QED BY <2>2, <2>3, <2>4 DEF Scoring
<1>6. ASSUME NEW tag \in Tags
      PROVE  HasPoints(scored[N][tag],
                       SumFunction(LexicalPoints(tokens, listed, tag))
                          + SumFunction(SemanticPoints(listed, near, tag)),
                       Terms(listed, tag))
  <2> DEFINE S == {k \in DOMAIN near : near[k].concept \in Carriers(listed, tag)}
             f == SemanticPoints(listed, near, tag)
             total == SumFunction(LexicalPoints(tokens, listed, tag))
  <2>1. IsFiniteSet(S)
    <3>1. S \subseteq 1 .. N
      BY <1>1
    <3>2. IsFiniteSet(1 .. N)
      BY <1>1, FS_Interval
    <3> QED BY <3>1, <3>2, FS_Subset
  <2>2. DOMAIN f = S /\ \A k \in S : f[k] = near[k].score
    BY DEF SemanticPoints
  <2>3. \A k \in S : f[k] \in Nat
    BY <1>1, <2>2
  <2>4. Keyed(keys, S, f, N, listed, ids, points, tag)
    <3>1. \A n \in 1 .. N :
             keys[n] \in S <=> ids[n] \in DOMAIN listed /\ tag \in listed[ids[n]].tags
      BY <1>1 DEF Carriers
    <3>2. \A n \in 1 .. N : keys[n] \in S => points[n][tag] = f[keys[n]]
      <4> SUFFICES ASSUME NEW n \in 1 .. N, keys[n] \in S
                   PROVE  points[n][tag] = f[keys[n]]
        OBVIOUS
      <4>1. points[n] = [t \in Tags |-> near[n].score] /\ keys[n] = n
        BY <1>2
      <4> HIDE DEF points, keys, f
      <4> QED BY <2>2, <4>1
    <3>3. \A x \in S : \E n \in 1 .. N : keys[n] = x
      BY <1>1
    <3>4. \A m, n \in 1 .. N : keys[m] = keys[n] => m = n
      BY <1>2
    <3> HIDE DEF keys, S, f, N, ids, points
    <3> QED BY <3>1, <3>2, <3>3, <3>4 DEF Keyed
  <2>5. HasPoints(base[tag], total, Terms(listed, tag))
    BY LexicalScoresAddUp
  <2>6. total \in Nat
    <3> DEFINE lexical == LexicalPoints(tokens, listed, tag)
    <3>1. DOMAIN lexical = Carriers(listed, tag) /\ \A c \in DOMAIN lexical : lexical[c] \in Nat
      BY PointsAreNatural DEF LexicalPoints
    <3>2. Carriers(listed, tag) \subseteq ConceptIds
      BY DEF Listing, Carriers
    <3>3. IsFiniteSet(DOMAIN lexical)
      BY <3>1, <3>2, IdsAreFinite, FS_Subset
    <3> HIDE DEF lexical
    <3>4. SumFunction(lexical) \in Nat
      BY <3>1, <3>3, SumIsNatural
    <3> QED BY <3>4 DEF lexical
  <2>7. \A n \in 1 .. N : ids[n] \in DOMAIN listed => points[n] \in [Tags -> Nat]
    <3> HIDE DEF points, ids
    <3> QED BY <1>2
  <2>8. N \in Nat
    BY <1>1
  <2> HIDE DEF N, points, ids, keys, scored, base, S, f, total
  <2>9. HasPoints(scored[N][tag], total + SumFunctionOnSet(f, S), Terms(listed, tag))
    BY <1>3, <1>5, <2>1, <2>3, <2>4, <2>5, <2>6, <2>7, <2>8, ScoringAddsUp
  <2>10. SumFunction(f) = SumFunctionOnSet(f, S)
    BY <2>2 DEF SumFunction
  <2>11. HasPoints(scored[N][tag], total + SumFunction(f), Terms(listed, tag))
    BY <2>9, <2>10, Zenon
  <2> QED BY <2>11 DEF f, total
<1>7. scored[N] \in Scored
  <2> HIDE DEF scored, N, points, ids, base
  <2> QED BY <1>1, <1>2, <1>3, <1>5, ScoringStays
<1> HIDE DEF scored, N
<1> QED BY <1>4, <1>6, <1>7

-----------------------------------------------------------------------------
(***************************************************************************)
(* Tag suggestions.                                                        *)
(***************************************************************************)
TagsFields == {"kind", "alone", "stage", "tokens", "listed", "near", "scores"}

\* The sums that are meant.
TagsAddUp ==
    \A tag \in Tags :
        HasPoints(job.scores[tag],
                  SumFunction(LexicalPoints(job.tokens, job.listed, tag))
                     + SumFunction(SemanticPoints(job.listed, job.near, tag)),
                  Terms(job.listed, tag))

\* What a suggestion of tags has read, and what came out.
TagsOK ==
    job.kind = "tags" =>
        /\ DOMAIN job = TagsFields
        /\ job.stage \in {"index", "near", "score", "suggested"}
        /\ IsFiniteSet(job.tokens)
        /\ Listing(job.listed)
        /\ job.near \in Seq([concept : ConceptIds, score : NearScores])
        /\ job.stage = "suggested" => TagsAddUp

\* A job stays of its kind until it ends.
LEMMA OtherJobsGoOn ==
    ASSUME {"kind", "alone", "stage"} \subseteq DOMAIN job, GraphStep \/ AnalysisStep
    PROVE  job'.kind \in {"graph", "analysis", "none"}
<1>1. CASE GraphStep
  <2>1. CASE ReadNodes
    BY <2>1 DEF ReadNodes, Advance, At, GraphJob
  <2>2. CASE ReadVariantEdges
    BY <2>2 DEF ReadVariantEdges, Advance, At, GraphJob
  <2>3. CASE ReadRelationEdges
    <3>1. \/ job' = Ended("invalid_graph_relation")
          \/ job' = [At("issues") EXCEPT !.edges = At("issues").edges \cup RelationEdges]
      BY <2>3 DEF ReadRelationEdges, Advance
    <3>2. At("issues").kind = "graph" /\ "kind" \in DOMAIN At("issues")
      BY <2>3 DEF ReadRelationEdges, At, GraphJob
    <3> QED BY <3>1, <3>2 DEF Ended
  <2>4. CASE ReadIssueEdges
    BY <2>4 DEF ReadIssueEdges, Advance, At, GraphJob
  <2>5. CASE PersistSnapshot
    BY <2>5 DEF PersistSnapshot, Advance, At, GraphJob, Ended
  <2>6. CASE ReadDocumentVariants
    BY <2>6 DEF ReadDocumentVariants, Advance, At, GraphJob
  <2>7. CASE ReadDocuments
    BY <2>7 DEF ReadDocuments, Advance, At, GraphJob
  <2>8. CASE Extract
    BY <2>8 DEF Extract, Advance, At, GraphJob, Ended
  <2>9. CASE WriteFile
    BY <2>9 DEF WriteFile, Advance, GraphJob, Ended
  <2> QED BY <1>1, <2>1, <2>2, <2>3, <2>4, <2>5, <2>6, <2>7, <2>8, <2>9 DEF GraphStep
<1>2. CASE AnalysisStep
  <2>1. CASE StoreCheck
    BY <2>1 DEF StoreCheck, Advance, AnalysisJob, Ended
  <2>2. CASE ProviderAnswers
    BY <2>2 DEF ProviderAnswers, Advance, AnalysisJob, Attempted
  <2>3. CASE ProviderFails
    BY <2>3 DEF ProviderFails, Advance, AnalysisJob, Attempted, ExtractionFails
  <2>4. CASE ProviderAnswersInvalid
    BY <2>4 DEF ProviderAnswersInvalid, Advance, AnalysisJob, Attempted, ExtractionFails
  <2>5. CASE UseExtraction
    BY <2>5 DEF UseExtraction, Advance, AnalysisJob, Persisting
  <2>6. CASE IndexForAnalysis
    BY <2>6 DEF IndexForAnalysis, Advance, AnalysisJob
  <2>7. CASE QueryForAnalysis
    BY <2>7 DEF QueryForAnalysis, Advance, AnalysisJob
  <2>8. CASE ReadTerms \/ ReadActiveConcepts
    BY <2>8 DEF ReadTerms, ReadActiveConcepts, Advance, AnalysisJob
  <2>9. CASE ClassifyCandidates
    BY <2>9 DEF ClassifyCandidates, Advance, AnalysisJob
  <2>10. CASE UseClassification
    BY <2>10 DEF UseClassification, Advance, AnalysisJob, Persisting
  <2>11. CASE StoreIssue \/ FinishAnalysis
    BY <2>11 DEF StoreIssue, FinishAnalysis, Advance, AnalysisJob, Ended
  <2> QED BY <1>2, <2>1, <2>2, <2>3, <2>4, <2>5, <2>6, <2>7, <2>8, <2>9, <2>10, <2>11
          DEF AnalysisStep
<1> QED BY <1>1, <1>2

ContextStep ==
    SearchConcepts \/ SearchIssues \/ LoadConcept \/ LoadVariants \/ LoadIssue \/ RenderContext

LEMMA ContextGoesOn ==
    ASSUME {"kind", "alone", "stage"} \subseteq DOMAIN job, ContextStep
    PROVE  job'.kind \in {"explore", "none"}
<1>1. CASE SearchConcepts
  BY <1>1 DEF SearchConcepts, ExploreJob, Advance
<1>2. CASE SearchIssues
  BY <1>2 DEF SearchIssues, ExploreJob, Advance
<1>3. CASE LoadConcept
  BY <1>3 DEF LoadConcept, ExploreJob, Advance, Ended
<1>4. CASE LoadVariants
  BY <1>4 DEF LoadVariants, ExploreJob, Advance
<1>5. CASE LoadIssue
  BY <1>5 DEF LoadIssue, ExploreJob, Advance, Ended
<1>6. CASE RenderContext
  BY <1>6 DEF RenderContext, Advance, Ended
<1> QED BY <1>1, <1>2, <1>3, <1>4, <1>5, <1>6 DEF ContextStep

\* Jobs of other kinds suggest no tags.
LEMMA OtherTagsSafe == ASSUME job'.kind # "tags" PROVE TagsOK'
BY DEF TagsOK

LEMMA SameTagsSafe ==
    ASSUME TagsOK, \A f \in DOMAIN job \ {"alone"} : job'[f] = job[f],
           DOMAIN job' = DOMAIN job, {"kind", "stage"} \subseteq DOMAIN job
    PROVE  TagsOK'
<1> SUFFICES ASSUME job'.kind = "tags" PROVE TagsOK'
  BY OtherTagsSafe
<1>1. job.kind = "tags" /\ job'.kind = job.kind /\ job'.stage = job.stage /\ DOMAIN job = TagsFields
  BY DEF TagsOK
<1>2. /\ job'.tokens = job.tokens /\ job'.listed = job.listed /\ job'.near = job.near
      /\ job'.scores = job.scores
  BY <1>1 DEF TagsFields
<1>3. TagsAddUp' = TagsAddUp
  BY <1>2 DEF TagsAddUp
<1> QED BY <1>1, <1>2, <1>3 DEF TagsOK

\* All concepts are listed, with their terms.
LEMMA StartTagsSafe ==
    ASSUME IInv, NEW query \in Queries,
           job' = [kind |-> "tags", alone |-> TRUE, stage |-> "index", tokens |-> Range(query),
                   listed |-> [c \in Live |-> glossary.concepts[c]],
                   near |-> <<>>, scores |-> NoScores]
    PROVE  TagsOK'
<1>1. /\ DOMAIN job' = TagsFields /\ job'.stage = "index" /\ job'.tokens = Range(query)
      /\ job'.listed = [c \in Live |-> glossary.concepts[c]] /\ job'.near = <<>>
  BY DEF TagsFields
<1>2. IsFiniteSet(Range(query))
  <2>1. query \in Seq(Labels)
    BY QueriesAssumption
  <2>2. IsFiniteSet(1 .. Len(query)) /\ DOMAIN query = 1 .. Len(query)
    BY <2>1, LenProperties, FS_Interval
  <2>3. Range(query) = {query[k] : k \in 1 .. Len(query)}
    BY <2>2 DEF Range
  <2> QED BY <2>2, <2>3, ImageIsFinite
<1>3. Listing(job'.listed)
  <2>1. \A c \in Live : c \in ConceptIds /\ glossary.concepts[c].term \in Labels
    BY DEF IInv, StoresOK, Typed, Glossaries, ConceptRows, Live, ConceptExists
  <2>2. DOMAIN job'.listed = Live /\ \A c \in Live : job'.listed[c] = glossary.concepts[c]
    BY <1>1
  <2> QED BY <2>1, <2>2 DEF Listing
<1>4. <<>> \in Seq([concept : ConceptIds, score : NearScores])
  BY EmptySeq
<1> QED BY <1>1, <1>2, <1>3, <1>4 DEF TagsOK

LEMMA TagsStepSafe ==
    ASSUME IInv, TagsOK, IndexForTags \/ QueryForTags \/ SuggestTags \/ RenderTags
    PROVE  TagsOK'
<1>1. CASE IndexForTags
  <2>1. job.kind = "tags" /\ DOMAIN job = TagsFields
    BY <1>1 DEF IndexForTags, TagsJob, TagsOK
  <2>2. PICK stage \in {"near", "score"} : job' = [job EXCEPT !.stage = stage]
    BY <1>1 DEF IndexForTags, Advance
  <2>3. /\ DOMAIN job' = TagsFields /\ job'.stage = stage /\ job'.tokens = job.tokens
        /\ job'.listed = job.listed /\ job'.near = job.near
    BY <2>1, <2>2 DEF TagsFields
  <2> QED BY <2>1, <2>3 DEF TagsOK
<1>2. CASE QueryForTags
  <2>1. job.kind = "tags" /\ DOMAIN job = TagsFields
    BY <1>2 DEF QueryForTags, TagsJob, TagsOK
  <2>2. PICK near \in SeqOf([concept : embedded, score : NearScores], MaxNear) :
           job' = [job EXCEPT !.stage = "score", !.near = near]
    BY <1>2 DEF QueryForTags, Advance
  <2>3. /\ DOMAIN job' = TagsFields /\ job'.stage = "score" /\ job'.tokens = job.tokens
        /\ job'.listed = job.listed /\ job'.near = near
    BY <2>1, <2>2 DEF TagsFields
  <2>4. near \in Seq([concept : ConceptIds, score : NearScores])
    <3>1. embedded \subseteq ConceptIds
      BY DEF IInv, StoresOK
    <3>2. PICK n \in 0 .. MaxNear : near \in [1 .. n -> [concept : embedded, score : NearScores]]
      BY <2>2 DEF SeqOf
    <3>3. near \in [1 .. n -> [concept : ConceptIds, score : NearScores]] /\ n \in Nat
      BY <3>1, <3>2
    <3> DEFINE R == [concept : ConceptIds, score : NearScores]
    <3>4. n \in Nat /\ near \in [1 .. n -> R]
      BY <3>3
    <3> HIDE DEF R
    <3>5. near \in UNION {[1 .. m -> R] : m \in Nat}
      BY <3>4, Zenon
    <3>6. near \in Seq(R)
      BY <3>5, SeqDef, Zenon
    <3> QED BY <3>6 DEF R
  <2> QED BY <2>1, <2>3, <2>4 DEF TagsOK
<1>3. CASE SuggestTags
  <2>1. job.kind = "tags" /\ DOMAIN job = TagsFields /\ TagsOK
    BY <1>3 DEF SuggestTags, TagsJob, TagsOK
  <2>2. job' = [job EXCEPT !.stage = "suggested",
                           !.scores = Scores(job.tokens, job.listed, job.near)]
    BY <1>3 DEF SuggestTags, Advance
  <2>3. /\ DOMAIN job' = TagsFields /\ job'.stage = "suggested" /\ job'.kind = "tags"
        /\ job'.tokens = job.tokens /\ job'.listed = job.listed /\ job'.near = job.near
        /\ job'.scores = Scores(job.tokens, job.listed, job.near)
    BY <2>1, <2>2 DEF TagsFields
  <2>4. TagsAddUp'
    <3>1. /\ IsFiniteSet(job.tokens) /\ Listing(job.listed)
          /\ job.near \in Seq([concept : ConceptIds, score : NearScores])
      BY <2>1 DEF TagsOK
    <3> QED BY <2>3, <3>1, ScoresAddUp DEF TagsAddUp
  <2> QED BY <2>1, <2>3, <2>4 DEF TagsOK
<1>4. CASE RenderTags
  BY <1>4, OtherTagsSafe DEF RenderTags, Advance, Ended
<1> QED BY <1>1, <1>2, <1>3, <1>4

LEMMA TagsNextSafe == IInv /\ TagsOK /\ [Next]_vars => TagsOK'
<1> SUFFICES ASSUME IInv, TagsOK, [Next]_vars PROVE TagsOK'
  OBVIOUS
<1>0. {"kind", "alone", "stage"} \subseteq DOMAIN job
  BY DEF IInv, JobOK
<1>1. CASE StartGraph \/ StartExplore \/ StartAnalysis
  BY <1>1, OtherTagsSafe DEF StartGraph, StartExplore, StartAnalysis, Begin
<1>2. CASE StartTags
  BY <1>2, StartTagsSafe DEF StartTags, Begin
<1>3. CASE Crash \/ TearFile
  BY <1>3, OtherTagsSafe DEF Crash, TearFile, Advance, Ended
<1>4. CASE Editor
  <2>1. PICK kind : Edit(kind)
    BY <1>4 DEF Editor, CreateConcept, UpdateConcept, AddVariant, AddRelation, DeleteAConcept,
                CloseIssue, EditGlossary
  <2>2. job' = [job EXCEPT !.alone = ~ Running]
    BY <2>1 DEF Edit
  <2>3. DOMAIN job' = DOMAIN job /\ \A f \in DOMAIN job \ {"alone"} : job'[f] = job[f]
    BY <2>2
  <2> QED BY <1>0, <2>3, SameTagsSafe
<1>5. CASE RebuildSearch \/ UNCHANGED vars
  <2>1. job' = job
    BY <1>5 DEF RebuildSearch, vars
  <2> QED BY <1>0, <2>1, SameTagsSafe
<1>6. CASE GraphStep \/ AnalysisStep
  <2>1. job'.kind # "tags"
    BY <1>0, <1>6, OtherJobsGoOn
  <2> QED BY <2>1, OtherTagsSafe
<1>7. CASE ContextStep
  <2>1. job'.kind # "tags"
    BY <1>0, <1>7, ContextGoesOn
  <2> QED BY <2>1, OtherTagsSafe
<1>8. CASE IndexForTags \/ QueryForTags \/ SuggestTags \/ RenderTags
  BY <1>8, TagsStepSafe
<1> QED BY <1>1, <1>2, <1>3, <1>4, <1>5, <1>6, <1>7, <1>8 DEF Next, Start, JobStep, ExploreStep, ContextStep

\* The score of a tag is the sum over the concepts that carry it, and over the
\* nearest embeddings of such concepts, for any glossary, query and distances.
THEOREM TagScoresAreSums == Spec => []TagScoresAddUp
<1>1. Init => TagsOK
  BY DEF Init, Ended, TagsOK
<1>2. IInv /\ TagsOK /\ [Next]_vars => TagsOK'
  BY TagsNextSafe
<1>3. TagsOK => TagScoresAddUp
  BY DEF TagsOK, TagsAddUp, TagScoresAddUp, TagsJob, HasPoints, LexicalPoints, SemanticPoints,
         Terms, Carriers
<1> QED BY <1>1, <1>2, <1>3, WorkbenchInvariant, PTL DEF Spec

-----------------------------------------------------------------------------
(***************************************************************************)
(* Contexts.                                                               *)
(***************************************************************************)
LEMMA LimitsTyped == {SearchLimit, MaxConceptCards, MaxIssueCards} \subseteq Nat
<1> DEFINE limits == {MaxConceptCards, MaxIssueCards, 1}
<1>1. limits \subseteq Nat
  BY CardsAssumption
<1>2. \E x \in limits : \A y \in limits : x >= y
  BY <1>1
<1>3. SearchLimit \in limits
  BY <1>2 DEF SearchLimit, Max
<1> QED BY <1>1, <1>3

\* What a search finds is a sequence of different rows.
LEMMA RankedHits ==
    ASSUME NEW S, NEW hits \in Ranked(S)
    PROVE  hits \in Seq(S) /\ IsInjective(hits)
<1>1. hits \in SeqOf(S, SearchLimit) /\ IsInjective(hits)
  BY DEF Ranked
<1>2. PICK m \in 0 .. SearchLimit : hits \in [1 .. m -> S]
  BY <1>1 DEF SeqOf
<1>3. m \in Nat
  BY LimitsTyped
<1>4. hits \in UNION {[1 .. k -> S] : k \in Nat}
  BY <1>2, <1>3, Zenon
<1>5. hits \in Seq(S)
  BY <1>4, SeqDef, Zenon
<1> QED BY <1>1, <1>5

LEMMA FirstOfHits ==
    ASSUME NEW A, NEW s \in Seq(A), IsInjective(s), NEW n \in Nat
    PROVE  FirstOf(s, n) \in Seq(A) /\ IsInjective(FirstOf(s, n)) /\ Len(FirstOf(s, n)) <= n
<1>1. Len(s) \in Nat /\ DOMAIN s = 1 .. Len(s) /\ \A i \in 1 .. Len(s) : s[i] \in A
  BY LenProperties, ElementOfSeq
<1> DEFINE m == Min({n, Len(s)})
<1>2. m \in Nat /\ m <= n /\ m <= Len(s)
  <2>1. \E x \in {n, Len(s)} : \A y \in {n, Len(s)} : x <= y
    BY <1>1
  <2>2. m \in {n, Len(s)} /\ \A y \in {n, Len(s)} : m <= y
    BY <2>1 DEF Min
  <2> QED BY <1>1, <2>2
<1> HIDE DEF m
<1> PICK t \in {SubSeq(s, 1, m)} : TRUE
  OBVIOUS
<1>3. t \in Seq(A) /\ Len(t) = m /\ \A i \in 1 .. m : t[i] = s[i]
  <2>1. 1 \in Int /\ m \in Int /\ \A i \in 1 .. m : s[i] \in A
    BY <1>1, <1>2
  <2>2. /\ SubSeq(s, 1, m) \in Seq(A)
        /\ Len(SubSeq(s, 1, m)) = IF 1 <= m THEN m - 1 + 1 ELSE 0
        /\ \A i \in 1 .. m - 1 + 1 : SubSeq(s, 1, m)[i] = s[1 + i - 1]
    BY <2>1, SubSeqProperties
  <2>3. m - 1 + 1 = m /\ \A i \in 1 .. m : 1 + i - 1 = i
    BY <1>2
  <2> QED BY <1>2, <2>2, <2>3
<1>4. DOMAIN t = 1 .. m
  BY <1>3, LenProperties
<1>5. IsInjective(t)
  BY <1>1, <1>2, <1>3, <1>4 DEF IsInjective
<1> QED BY <1>2, <1>3, <1>5 DEF FirstOf, m

\* What is left of a sequence from a place on.
LEMMA RestOf ==
    ASSUME NEW A, NEW s \in Seq(A), NEW n \in 1 .. Len(s) + 1
    PROVE  /\ SubSeq(s, n, Len(s)) = <<>> <=> n = Len(s) + 1
           /\ n # Len(s) + 1 =>
                 /\ n \in 1 .. Len(s)
                 /\ Head(SubSeq(s, n, Len(s))) = s[n]
                 /\ Tail(SubSeq(s, n, Len(s))) = SubSeq(s, n + 1, Len(s))
<1>1. Len(s) \in Nat /\ \A i \in 1 .. Len(s) : s[i] \in A
  BY LenProperties, ElementOfSeq
<1>2. CASE n = Len(s) + 1
  <2>1. SubSeq(s, n, Len(s)) = <<>>
    BY <1>1, <1>2, SubSeqEmpty
  <2> QED BY <1>2, <2>1
<1>3. CASE n # Len(s) + 1
  <2>1. n \in 1 .. Len(s) /\ Len(s) \in n .. Len(s)
    BY <1>1, <1>3
  <2>2. Len(SubSeq(s, n, Len(s))) # 0
    <3>1. \A i \in n .. Len(s) : s[i] \in A
      BY <1>1, <2>1
    <3>2. Len(SubSeq(s, n, Len(s))) = IF n <= Len(s) THEN Len(s) - n + 1 ELSE 0
      BY <1>1, <2>1, <3>1, SubSeqProperties
    <3> QED BY <1>1, <2>1, <3>2
  <2>3. Len(<<>>) = 0
    BY EmptySeq
  <2>4. /\ Head(SubSeq(s, n, Len(s))) = s[n]
        /\ Tail(SubSeq(s, n, Len(s))) = SubSeq(s, n + 1, Len(s))
    BY <2>1, HeadTailOfSubSeq
  <2>5. SubSeq(s, n, Len(s)) # <<>>
    BY <2>2, <2>3
  <2> QED BY <1>3, <2>1, <2>4, <2>5
<1> QED BY <1>2, <1>3

LEMMA AppendToList ==
    ASSUME NEW n \in Nat, NEW s, s = [k \in 1 .. n |-> s[k]], NEW x
    PROVE  /\ Len(s) = n
           /\ Append(s, x) = [k \in 1 .. n + 1 |-> IF k = n + 1 THEN x ELSE s[k]]
<1> DEFINE A == {s[k] : k \in 1 .. n} \cup {x}
<1>1. s \in [1 .. n -> A] /\ x \in A
  OBVIOUS
<1> HIDE DEF A
<1>2. s \in UNION {[1 .. k -> A] : k \in Nat}
  BY <1>1, Zenon
<1>3. s \in Seq(A)
  BY <1>2, SeqDef, Zenon
<1>4. Len(s) = n
  <2>1. Len(s) \in Nat /\ DOMAIN s = 1 .. Len(s)
    BY <1>3, LenProperties
  <2>2. DOMAIN s = 1 .. n
    BY <1>1
  <2> QED BY <2>1, <2>2
<1>5. /\ Append(s, x) \in Seq(A) /\ Len(Append(s, x)) = Len(s) + 1
      /\ \A k \in 1 .. Len(s) : Append(s, x)[k] = s[k]
      /\ Append(s, x)[Len(s) + 1] = x
  BY <1>1, <1>3, AppendProperties
<1>6. DOMAIN Append(s, x) = 1 .. n + 1
  BY <1>4, <1>5, LenProperties
<1>7. Append(s, x) = [k \in 1 .. n + 1 |-> Append(s, x)[k]]
  BY <1>5, <1>6, LenProperties
<1>8. \A k \in 1 .. n + 1 : Append(s, x)[k] = IF k = n + 1 THEN x ELSE s[k]
  BY <1>4, <1>5
<1> QED BY <1>4, <1>7, <1>8

\* Whatever the type and the status of a variant, it is in a group.
LEMMA GroupsShowAll ==
    ASSUME glossary \in Typed, NEW c
    PROVE  {g[2] : g \in VariantGroups(c)}
              = {glossary.variants[v].label : v \in VariantsOf(glossary, c)}
<1>1. ASSUME NEW v \in VariantsOf(glossary, c) PROVE Group(glossary.variants[v]) # "none"
  <2>1. glossary.variants[v] \in VariantRows(ConceptIds, Labels)
    BY DEF VariantsOf, LiveVariants, Typed, Glossaries
  <2>2. /\ glossary.variants[v].type \in VariantTypes
        /\ glossary.variants[v].status \in VariantStatuses
    BY <2>1 DEF VariantRows
  <2> QED BY <2>2 DEF Group, VariantTypes, VariantStatuses
<1>2. VariantGroups(c) = {<<Group(glossary.variants[v]), glossary.variants[v].label>> :
                             v \in VariantsOf(glossary, c)}
  BY <1>1 DEF VariantGroups
<1> DEFINE label(v) == glossary.variants[v].label
           pair(v) == <<Group(glossary.variants[v]), label(v)>>
<1>3. \A v : pair(v)[2] = label(v)
  OBVIOUS
<1>4. VariantGroups(c) = {pair(v) : v \in VariantsOf(glossary, c)}
  BY <1>2
<1> HIDE DEF pair, label
<1>5. {g[2] : g \in VariantGroups(c)} = {label(v) : v \in VariantsOf(glossary, c)}
  BY <1>3, <1>4
<1> QED BY <1>5 DEF label

\* The cards of the first n hits; the last one may lack its variants.
ConceptCards(hits, n, open) ==
    [k \in 1 .. n |->
        [id |-> hits[k], row |-> glossary.concepts[hits[k]],
         groups |-> IF open /\ k = n THEN {} ELSE VariantGroups(hits[k])]]

IssueCards(hits, n) == [k \in 1 .. n |-> [id |-> hits[k], row |-> issues[hits[k]]]]

\* How far the cards have come.
ConceptsAt(hits, n, open) ==
    /\ hits \in Seq(Live) /\ IsInjective(hits) /\ Len(hits) <= MaxConceptCards
    /\ n \in 0 .. Len(hits) /\ (open => n # 0)
    /\ job.cards = ConceptCards(hits, n, open)
    /\ job.concepts = SubSeq(hits, IF open THEN n ELSE n + 1, Len(hits))

IssuesAt(hits, n) ==
    /\ hits \in Seq(DOMAIN issues) /\ IsInjective(hits) /\ Len(hits) <= MaxIssueCards
    /\ n \in 0 .. Len(hits)
    /\ job.issueCards = IssueCards(hits, n)
    /\ job.issues = SubSeq(hits, n + 1, Len(hits))

ContextFields ==
    {"kind", "alone", "stage", "searches", "concepts", "issues", "cards", "issueCards"}

\* What is found is there, as long as nobody edits, and what is shown is so.
Found ==
    /\ job.concepts \in Seq(Live) /\ IsInjective(job.concepts)
    /\ job.issues \in Seq(DOMAIN issues) /\ IsInjective(job.issues)
    /\ job.cards = <<>> /\ job.issueCards = <<>>

Shown ==
    /\ \E hits, n : ConceptsAt(hits, n, job.stage = "groups")
    /\ \E hits, n : IssuesAt(hits, n)

ContextOK ==
    job.kind = "explore" =>
        /\ DOMAIN job = ContextFields
        /\ job.stage \in {"concepts", "issues", "card", "groups"}
        /\ job.alone /\ job.stage \in {"concepts", "issues"} => Found
        /\ job.alone /\ job.stage \in {"card", "groups"} => Shown

LEMMA OtherContextSafe == ASSUME job'.kind # "explore" PROVE ContextOK'
BY DEF ContextOK

LEMMA SameRows ==
    ASSUME glossary' = glossary, issues' = issues
    PROVE  /\ Live' = Live
           /\ \A hits, n, open : ConceptCards(hits, n, open)' = ConceptCards(hits, n, open)
           /\ \A hits, n : IssueCards(hits, n)' = IssueCards(hits, n)
BY DEF Live, ConceptCards, IssueCards, VariantGroups

\* Nothing is found yet.
LEMMA StartContextSafe ==
    ASSUME NEW query,
           job' = [kind |-> "explore", alone |-> TRUE, stage |-> "concepts",
                   searches |-> Searches(query), concepts |-> <<>>, issues |-> <<>>,
                   cards |-> <<>>, issueCards |-> <<>>]
    PROVE  ContextOK'
<1>1. /\ DOMAIN job' = ContextFields /\ job'.stage = "concepts"
      /\ job'.concepts = <<>> /\ job'.issues = <<>> /\ job'.cards = <<>> /\ job'.issueCards = <<>>
  BY DEF ContextFields
<1>2. <<>> \in Seq(Live') /\ <<>> \in Seq(DOMAIN issues') /\ IsInjective(<<>>)
  BY EmptySeq DEF IsInjective
<1>3. Found'
  BY <1>1, <1>2 DEF Found
<1> QED BY <1>1, <1>3 DEF ContextOK

LEMMA SearchSafe ==
    ASSUME IInv, ContextOK, SearchConcepts \/ SearchIssues
    PROVE  ContextOK'
<1>1. CASE SearchConcepts
  <2>1. job.kind = "explore" /\ job.stage = "concepts" /\ DOMAIN job = ContextFields
    BY <1>1 DEF SearchConcepts, ExploreJob, ContextOK
  <2>2. PICK hits \in Ranked(ConceptHits(Head(job.searches))) :
           job' = [job EXCEPT !.stage = "issues", !.concepts = Merge(job.concepts, hits)]
    BY <1>1 DEF SearchConcepts, Advance
  <2>3. glossary' = glossary /\ issues' = issues
    BY <1>1 DEF SearchConcepts, Tables
  <2> PICK found \in {Merge(job.concepts, hits)} : TRUE
    OBVIOUS
  <2>4. /\ DOMAIN job' = ContextFields /\ job'.stage = "issues" /\ job'.alone = job.alone
        /\ job'.concepts = found /\ job'.issues = job.issues
        /\ job'.cards = job.cards /\ job'.issueCards = job.issueCards
    BY <2>1, <2>2 DEF ContextFields
  <2>5. ASSUME job.alone PROVE Found'
    <3>1. Found
      BY <2>1, <2>5 DEF ContextOK
    <3>2. hits \in Seq(ConceptHits(Head(job.searches)))
      BY <2>2, RankedHits
    <3>3. hits \in Seq(Live)
      BY <3>2, SeqMonotonic DEF ConceptHits
    <3>4. found \in Seq(Live) /\ IsInjective(found)
      BY <3>1, <3>3, MergeKeeps DEF Found
    <3> QED BY <2>3, <2>4, <3>1, <3>4, SameRows DEF Found
  <2> QED BY <2>1, <2>4, <2>5 DEF ContextOK
<1>2. CASE SearchIssues
  <2>1. job.kind = "explore" /\ job.stage = "issues" /\ DOMAIN job = ContextFields
    BY <1>2 DEF SearchIssues, ExploreJob, ContextOK
  <2>2. PICK hits \in Ranked(IssueHits(Head(job.searches))) :
           LET merged == [job EXCEPT !.issues = Merge(@, hits), !.searches = Tail(@)]
           IN  job' = IF merged.searches # <<>>
                      THEN [merged EXCEPT !.stage = "concepts"]
                      ELSE [merged EXCEPT !.stage = "card",
                                          !.concepts = FirstOf(@, MaxConceptCards),
                                          !.issues = FirstOf(@, MaxIssueCards)]
    BY <1>2 DEF SearchIssues, Advance
  <2>3. glossary' = glossary /\ issues' = issues
    BY <1>2 DEF SearchIssues, Tables
  <2> PICK found \in {Merge(job.issues, hits)} : TRUE
    OBVIOUS
  <2>4. /\ DOMAIN job' = ContextFields /\ job'.alone = job.alone
        /\ job'.cards = job.cards /\ job'.issueCards = job.issueCards
        /\ \/ /\ job'.stage = "concepts" /\ job'.concepts = job.concepts /\ job'.issues = found
           \/ /\ job'.stage = "card" /\ job'.concepts = FirstOf(job.concepts, MaxConceptCards)
              /\ job'.issues = FirstOf(found, MaxIssueCards)
    BY <2>1, <2>2 DEF ContextFields
  <2>5. ASSUME job.alone
        PROVE  /\ Found /\ found \in Seq(DOMAIN issues) /\ IsInjective(found)
    <3>1. Found
      BY <2>1, <2>5 DEF ContextOK
    <3>2. hits \in Seq(IssueHits(Head(job.searches)))
      BY <2>2, RankedHits
    <3>3. hits \in Seq(DOMAIN issues)
      BY <3>2, SeqMonotonic DEF IssueHits
    <3>4. found \in Seq(DOMAIN issues) /\ IsInjective(found)
      BY <3>1, <3>3, MergeKeeps DEF Found
    <3> QED BY <3>1, <3>4
  <2>6. CASE job'.stage = "concepts"
    <3>1. ASSUME job.alone PROVE Found'
      BY <2>3, <2>4, <2>5, <2>6, <3>1, SameRows DEF Found
    <3> QED BY <2>1, <2>4, <2>6, <3>1 DEF ContextOK
  <2>7. CASE job'.stage = "card"
    <3>1. ASSUME job.alone PROVE Shown'
      <4> PICK chits \in {FirstOf(job.concepts, MaxConceptCards)} : TRUE
        OBVIOUS
      <4> PICK ihits \in {FirstOf(found, MaxIssueCards)} : TRUE
        OBVIOUS
      <4>1. chits \in Seq(Live) /\ IsInjective(chits) /\ Len(chits) <= MaxConceptCards
        BY <2>5, <3>1, FirstOfHits, LimitsTyped DEF Found
      <4>2. ihits \in Seq(DOMAIN issues) /\ IsInjective(ihits) /\ Len(ihits) <= MaxIssueCards
        BY <2>5, <3>1, FirstOfHits, LimitsTyped
      <4>3. /\ job'.stage = "card" /\ job'.cards = <<>> /\ job'.issueCards = <<>>
            /\ job'.concepts = chits /\ job'.issues = ihits
        BY <2>4, <2>5, <2>7, <3>1 DEF Found
      <4>4. ConceptsAt(chits, 0, FALSE)'
        <5>1. ConceptCards(chits, 0, FALSE) = <<>>
          BY DEF ConceptCards
        <5>2. SubSeq(chits, 1, Len(chits)) = chits /\ Len(chits) \in Nat
          BY <4>1, SubSeqFull, LenProperties
        <5>3. 0 \in 0 .. Len(chits) /\ 0 + 1 = 1
          BY <5>2
        <5> QED BY <2>3, <4>1, <4>3, <5>1, <5>2, <5>3, SameRows DEF ConceptsAt
      <4>5. IssuesAt(ihits, 0)'
        <5>1. IssueCards(ihits, 0) = <<>>
          BY DEF IssueCards
        <5>2. SubSeq(ihits, 1, Len(ihits)) = ihits /\ Len(ihits) \in Nat
          BY <4>2, SubSeqFull, LenProperties
        <5>3. 0 \in 0 .. Len(ihits) /\ 0 + 1 = 1
          BY <5>2
        <5> QED BY <2>3, <4>2, <4>3, <5>1, <5>2, <5>3, SameRows DEF IssuesAt
      <4>6. (job'.stage = "groups") = FALSE
        BY <4>3
      <4> QED BY <4>4, <4>5, <4>6 DEF Shown
    <3> QED BY <2>1, <2>4, <2>7, <3>1 DEF ContextOK
  <2> QED BY <2>4, <2>6, <2>7
<1> QED BY <1>1, <1>2

\* The place where the cards are.
LEMMA WhereCardsAre ==
    ASSUME ContextOK, job.kind = "explore", job.alone, job.stage \in {"card", "groups"}
    PROVE  /\ DOMAIN job = ContextFields
           /\ \E hits, n : ConceptsAt(hits, n, job.stage = "groups")
           /\ \E hits, n : IssuesAt(hits, n)
BY DEF ContextOK, Shown

\* The row of the next hit is there, and is shown.
LEMMA LoadConceptSafe ==
    ASSUME ContextOK, LoadConcept
    PROVE  /\ ContextOK'
           /\ job.alone => job'.kind # "none"
<1>1. /\ job.kind = "explore" /\ job.stage = "card" /\ job.concepts # <<>>
      /\ glossary' = glossary /\ issues' = issues
      /\ job' = IF Head(job.concepts) \in Live
                THEN [job EXCEPT !.stage = "groups",
                                 !.cards = Append(job.cards,
                                              [id |-> Head(job.concepts),
                                               row |-> glossary.concepts[Head(job.concepts)],
                                               groups |-> {}])]
                ELSE Ended("row_missing")
  BY DEF LoadConcept, ExploreJob, Advance, Tables
<1>2. DOMAIN job = ContextFields
  BY <1>1 DEF ContextOK
<1> DEFINE card == [id |-> Head(job.concepts), row |-> glossary.concepts[Head(job.concepts)],
                    groups |-> {}]
<1>3. CASE ~ job.alone
  <2>1. CASE job' = Ended("row_missing")
    BY <1>3, <2>1, OtherContextSafe DEF Ended
  <2>2. CASE job' # Ended("row_missing")
    <3>1. /\ DOMAIN job' = ContextFields /\ job'.stage = "groups" /\ job'.alone = job.alone
      BY <1>1, <1>2, <2>2 DEF ContextFields
    <3> QED BY <1>3, <3>1 DEF ContextOK
  <2> QED BY <1>3, <2>1, <2>2
<1>4. CASE job.alone
  <2>1. PICK hits, n : ConceptsAt(hits, n, FALSE)
    BY <1>1, <1>4, WhereCardsAre
  <2>2. PICK ihits, m : IssuesAt(ihits, m)
    BY <1>1, <1>4, WhereCardsAre
  <2>3. /\ hits \in Seq(Live) /\ Len(hits) \in Nat /\ n \in 0 .. Len(hits)
        /\ job.cards = ConceptCards(hits, n, FALSE)
        /\ job.concepts = SubSeq(hits, n + 1, Len(hits))
    BY <2>1, LenProperties DEF ConceptsAt
  <2>4. /\ n + 1 \in 1 .. Len(hits) + 1
        /\ n + 1 # Len(hits) + 1
    BY <1>1, <2>3, RestOf
  <2>5. n + 1 \in 1 .. Len(hits) /\ Head(job.concepts) = hits[n + 1]
    BY <2>3, <2>4, RestOf
  <2>6. Head(job.concepts) \in Live
    BY <2>3, <2>5, ElementOfSeq
  <2>7. /\ DOMAIN job' = ContextFields /\ job'.stage = "groups" /\ job'.alone = job.alone
        /\ job'.kind = "explore"
        /\ job'.cards = Append(job.cards, card) /\ job'.concepts = job.concepts
        /\ job'.issueCards = job.issueCards /\ job'.issues = job.issues
    BY <1>1, <1>2, <2>6 DEF ContextFields
  <2>8. Append(job.cards, card) = ConceptCards(hits, n + 1, TRUE)
    <3> DEFINE s == ConceptCards(hits, n, FALSE)
    <3>1. s = [k \in 1 .. n |-> s[k]]
      BY DEF ConceptCards
    <3>2. n \in Nat
      BY <2>3
    <3> HIDE DEF card
    <3>3. Append(s, card) = [k \in 1 .. n + 1 |-> IF k = n + 1 THEN card ELSE s[k]]
      <4> HIDE DEF s
      <4> QED BY <3>1, <3>2, AppendToList
    <3>4. \A k \in 1 .. n + 1 :
             (IF k = n + 1 THEN card ELSE s[k])
                = [id |-> hits[k], row |-> glossary.concepts[hits[k]],
                   groups |-> IF k = n + 1 THEN {} ELSE VariantGroups(hits[k])]
      <4> TAKE k \in 1 .. n + 1
      <4>1. CASE k = n + 1
        BY <2>5, <4>1 DEF card
      <4>2. CASE k # n + 1
        <5>1. k \in 1 .. n
          BY <3>2, <4>2
        <5> QED BY <4>2, <5>1 DEF ConceptCards
      <4> QED BY <4>1, <4>2
    <3>5. Append(s, card) = ConceptCards(hits, n + 1, TRUE)
      <4> HIDE DEF s
      <4> QED BY <3>3, <3>4 DEF ConceptCards
    <3> QED BY <2>3, <3>5
  <2>9. ConceptsAt(hits, n + 1, TRUE)'
    <3>1. n + 1 \in 0 .. Len(hits) /\ n + 1 # 0
      BY <2>3, <2>5
    <3> HIDE DEF card
    <3> QED BY <1>1, <2>1, <2>3, <2>7, <2>8, <3>1, SameRows DEF ConceptsAt
  <2>10. IssuesAt(ihits, m)'
    BY <1>1, <2>2, <2>7, SameRows DEF IssuesAt
  <2>11. (job'.stage = "groups") = TRUE
    BY <2>7
  <2>12. Shown'
    BY <2>9, <2>10, <2>11 DEF Shown
  <2> QED BY <2>7, <2>12 DEF ContextOK
<1> QED BY <1>3, <1>4

\* Its variants are filled in, and the next hit comes.
LEMMA LoadVariantsSafe ==
    ASSUME ContextOK, LoadVariants
    PROVE  ContextOK'
<1>1. /\ job.kind = "explore" /\ job.stage = "groups"
      /\ glossary' = glossary /\ issues' = issues
      /\ job' = [job EXCEPT !.stage = "card",
                            !.concepts = Tail(job.concepts),
                            !.cards = [job.cards EXCEPT ![Len(job.cards)] =
                                         [job.cards[Len(job.cards)] EXCEPT
                                            !.groups = VariantGroups(Head(job.concepts))]]]
  BY DEF LoadVariants, ExploreJob, Advance, Tables
<1>2. DOMAIN job = ContextFields
  BY <1>1 DEF ContextOK
<1> DEFINE last == Len(job.cards)
           filled == [job.cards EXCEPT ![last] =
                        [job.cards[last] EXCEPT !.groups = VariantGroups(Head(job.concepts))]]
<1>3. /\ DOMAIN job' = ContextFields /\ job'.kind = "explore" /\ job'.stage = "card"
      /\ job'.alone = job.alone
      /\ job'.cards = filled /\ job'.concepts = Tail(job.concepts)
      /\ job'.issueCards = job.issueCards /\ job'.issues = job.issues
  BY <1>1, <1>2 DEF ContextFields
<1> HIDE DEF filled
<1>4. ASSUME job.alone PROVE Shown'
  <2>1. PICK hits, n : ConceptsAt(hits, n, TRUE)
    BY <1>1, <1>4, WhereCardsAre
  <2>2. PICK ihits, m : IssuesAt(ihits, m)
    BY <1>1, <1>4, WhereCardsAre
  <2>3. /\ hits \in Seq(Live) /\ Len(hits) \in Nat /\ n \in 1 .. Len(hits)
        /\ job.cards = ConceptCards(hits, n, TRUE)
        /\ job.concepts = SubSeq(hits, n, Len(hits))
    BY <2>1, LenProperties DEF ConceptsAt
  <2>4. n \in 1 .. Len(hits) + 1 /\ n # Len(hits) + 1
    BY <2>3
  <2>5. Head(job.concepts) = hits[n] /\ Tail(job.concepts) = SubSeq(hits, n + 1, Len(hits))
    BY <2>3, <2>4, RestOf
  <2>6. last = n
    <3> DEFINE s == ConceptCards(hits, n, TRUE)
    <3>1. s = [k \in 1 .. n |-> s[k]] /\ n \in Nat
      BY <2>3 DEF ConceptCards
    <3>2. Len(s) = n
      <4> HIDE DEF s
      <4> QED BY <3>1, AppendToList
    <3> QED BY <2>3, <3>2
  <2>7. filled = ConceptCards(hits, n, FALSE)
    <3> DEFINE s == ConceptCards(hits, n, TRUE)
               card(k) == [id |-> hits[k], row |-> glossary.concepts[hits[k]],
                           groups |-> VariantGroups(hits[k])]
    <3>1. filled = [s EXCEPT ![n] = [s[n] EXCEPT !.groups = VariantGroups(hits[n])]]
      BY <2>3, <2>5, <2>6 DEF filled
    <3>2. DOMAIN s = 1 .. n /\ n \in 1 .. n
      BY <2>3 DEF ConceptCards
    <3>3. \A k \in 1 .. n : s[k] = IF k = n THEN [id |-> hits[n], row |-> glossary.concepts[hits[n]],
                                                  groups |-> {}]
                                   ELSE card(k)
      BY DEF ConceptCards
    <3>4. [s[n] EXCEPT !.groups = VariantGroups(hits[n])] = card(n)
      <4>1. s[n] = [id |-> hits[n], row |-> glossary.concepts[hits[n]], groups |-> {}]
        <5> HIDE DEF s
        <5> QED BY <3>2, <3>3
      <4> HIDE DEF s
      <4> QED BY <4>1
    <3>5. filled = [k \in 1 .. n |-> card(k)]
      <4>1. filled = [k \in 1 .. n |-> IF k = n THEN card(n) ELSE s[k]]
        <5> HIDE DEF card, s
        <5> QED BY <3>1, <3>2, <3>4
      <4>2. \A k \in 1 .. n : (IF k = n THEN card(n) ELSE s[k]) = card(k)
        <5> HIDE DEF card, s
        <5> QED BY <3>3
      <4> HIDE DEF card, s
      <4> QED BY <4>1, <4>2
    <3>6. ConceptCards(hits, n, FALSE) = [k \in 1 .. n |-> card(k)]
      BY DEF ConceptCards
    <3> QED BY <3>5, <3>6
  <2>8. ConceptsAt(hits, n, FALSE)'
    <3>1. n \in 0 .. Len(hits)
      BY <2>3
    <3> QED BY <1>1, <1>3, <2>1, <2>5, <2>7, <3>1, SameRows DEF ConceptsAt
  <2>9. IssuesAt(ihits, m)'
    BY <1>1, <1>3, <2>2, SameRows DEF IssuesAt
  <2>10. (job'.stage = "groups") = FALSE
    BY <1>3
  <2> QED BY <2>8, <2>9, <2>10 DEF Shown
<1> QED BY <1>3, <1>4 DEF ContextOK

LEMMA LoadIssueSafe ==
    ASSUME ContextOK, LoadIssue
    PROVE  /\ ContextOK'
           /\ job.alone => job'.kind # "none"
<1>1. /\ job.kind = "explore" /\ job.stage = "card" /\ job.issues # <<>>
      /\ glossary' = glossary /\ issues' = issues
      /\ job' = IF Head(job.issues) \in DOMAIN issues
                THEN [job EXCEPT !.issues = Tail(job.issues),
                                 !.issueCards = Append(job.issueCards,
                                                  [id |-> Head(job.issues),
                                                   row |-> issues[Head(job.issues)]])]
                ELSE Ended("row_missing")
  BY DEF LoadIssue, ExploreJob, Advance, Tables
<1>2. DOMAIN job = ContextFields
  BY <1>1 DEF ContextOK
<1> DEFINE card == [id |-> Head(job.issues), row |-> issues[Head(job.issues)]]
<1>3. CASE ~ job.alone
  <2>1. CASE job' = Ended("row_missing")
    BY <1>3, <2>1, OtherContextSafe DEF Ended
  <2>2. CASE job' # Ended("row_missing")
    <3>1. /\ DOMAIN job' = ContextFields /\ job'.stage = "card" /\ job'.alone = job.alone
      BY <1>1, <1>2, <2>2 DEF ContextFields
    <3> QED BY <1>3, <3>1 DEF ContextOK
  <2> QED BY <1>3, <2>1, <2>2
<1>4. CASE job.alone
  <2>1. PICK hits, n : ConceptsAt(hits, n, FALSE)
    BY <1>1, <1>4, WhereCardsAre
  <2>2. PICK ihits, m : IssuesAt(ihits, m)
    BY <1>1, <1>4, WhereCardsAre
  <2>3. /\ ihits \in Seq(DOMAIN issues) /\ Len(ihits) \in Nat /\ m \in 0 .. Len(ihits)
        /\ job.issueCards = IssueCards(ihits, m)
        /\ job.issues = SubSeq(ihits, m + 1, Len(ihits))
    BY <2>2, LenProperties DEF IssuesAt
  <2>4. m + 1 \in 1 .. Len(ihits) + 1 /\ m + 1 # Len(ihits) + 1
    BY <1>1, <2>3, RestOf
  <2>5. /\ m + 1 \in 1 .. Len(ihits) /\ Head(job.issues) = ihits[m + 1]
        /\ Tail(job.issues) = SubSeq(ihits, (m + 1) + 1, Len(ihits))
    BY <2>3, <2>4, RestOf
  <2>6. Head(job.issues) \in DOMAIN issues
    BY <2>3, <2>5, ElementOfSeq
  <2>7. /\ DOMAIN job' = ContextFields /\ job'.stage = "card" /\ job'.alone = job.alone
        /\ job'.kind = "explore"
        /\ job'.issueCards = Append(job.issueCards, card) /\ job'.issues = Tail(job.issues)
        /\ job'.cards = job.cards /\ job'.concepts = job.concepts
    BY <1>1, <1>2, <2>6 DEF ContextFields
  <2>8. Append(job.issueCards, card) = IssueCards(ihits, m + 1)
    <3> DEFINE s == IssueCards(ihits, m)
    <3>1. s = [k \in 1 .. m |-> s[k]] /\ m \in Nat
      BY <2>3 DEF IssueCards
    <3> HIDE DEF card
    <3>2. Append(s, card) = [k \in 1 .. m + 1 |-> IF k = m + 1 THEN card ELSE s[k]]
      <4> HIDE DEF s
      <4> QED BY <3>1, AppendToList
    <3>3. \A k \in 1 .. m + 1 :
             (IF k = m + 1 THEN card ELSE s[k]) = [id |-> ihits[k], row |-> issues[ihits[k]]]
      <4> TAKE k \in 1 .. m + 1
      <4>1. CASE k = m + 1
        BY <2>5, <4>1 DEF card
      <4>2. CASE k # m + 1
        <5>1. k \in 1 .. m
          BY <3>1, <4>2
        <5> QED BY <4>2, <5>1 DEF IssueCards
      <4> QED BY <4>1, <4>2
    <3>4. Append(s, card) = IssueCards(ihits, m + 1)
      <4> HIDE DEF s
      <4> QED BY <3>2, <3>3 DEF IssueCards
    <3> QED BY <2>3, <3>4
  <2>9. IssuesAt(ihits, m + 1)'
    <3>1. m + 1 \in 0 .. Len(ihits)
      BY <2>3, <2>5
    <3> HIDE DEF card
    <3> QED BY <1>1, <2>2, <2>5, <2>7, <2>8, <3>1, SameRows DEF IssuesAt
  <2>10. ConceptsAt(hits, n, FALSE)'
    BY <1>1, <2>1, <2>7, SameRows DEF ConceptsAt
  <2>11. (job'.stage = "groups") = FALSE
    BY <2>7
  <2>12. Shown'
    BY <2>9, <2>10, <2>11 DEF Shown
  <2> QED BY <2>7, <2>12 DEF ContextOK
<1> QED BY <1>3, <1>4

\* Every hit has its card when nothing is left.
LEMMA ContextIsGiven ==
    ASSUME IInv, ContextOK, RenderContext, job.alone
    PROVE  /\ OfDifferentRows(job.cards) /\ Len(job.cards) <= MaxConceptCards
           /\ OfDifferentRows(job.issueCards) /\ Len(job.issueCards) <= MaxIssueCards
           /\ \A card \in Range(job.cards) :
                 /\ card.row = glossary.concepts[card.id]
                 /\ {g[2] : g \in card.groups}
                       = {glossary.variants[v].label : v \in VariantsOf(glossary, card.id)}
           /\ \A card \in Range(job.issueCards) : card.row = issues[card.id]
<1>1. job.kind = "explore" /\ job.stage = "card" /\ job.concepts = <<>> /\ job.issues = <<>>
  BY DEF RenderContext, ExploreJob
<1>2. PICK hits, n : ConceptsAt(hits, n, FALSE)
  BY <1>1, WhereCardsAre
<1>3. PICK ihits, m : IssuesAt(ihits, m)
  BY <1>1, WhereCardsAre
<1>4. /\ hits \in Seq(Live) /\ Len(hits) \in Nat /\ n = Len(hits) /\ DOMAIN hits = 1 .. n
      /\ job.cards = ConceptCards(hits, n, FALSE) /\ IsInjective(hits) /\ n <= MaxConceptCards
  <2>1. /\ hits \in Seq(Live) /\ Len(hits) \in Nat /\ n \in 0 .. Len(hits)
        /\ DOMAIN hits = 1 .. Len(hits) /\ job.concepts = SubSeq(hits, n + 1, Len(hits))
    BY <1>2, LenProperties DEF ConceptsAt
  <2>2. n + 1 \in 1 .. Len(hits) + 1
    BY <2>1
  <2>3. n + 1 = Len(hits) + 1
    BY <1>1, <2>1, <2>2, RestOf
  <2>4. n = Len(hits)
    <3>1. n \in Int /\ Len(hits) \in Int
      BY <2>1
    <3> QED BY <2>3, <3>1
  <2> QED BY <1>2, <2>1, <2>4 DEF ConceptsAt
<1>5. /\ ihits \in Seq(DOMAIN issues) /\ Len(ihits) \in Nat /\ m = Len(ihits)
      /\ DOMAIN ihits = 1 .. m
      /\ job.issueCards = IssueCards(ihits, m) /\ IsInjective(ihits) /\ m <= MaxIssueCards
  <2>1. /\ ihits \in Seq(DOMAIN issues) /\ Len(ihits) \in Nat /\ m \in 0 .. Len(ihits)
        /\ DOMAIN ihits = 1 .. Len(ihits) /\ job.issues = SubSeq(ihits, m + 1, Len(ihits))
    BY <1>3, LenProperties DEF IssuesAt
  <2>2. m + 1 \in 1 .. Len(ihits) + 1
    BY <2>1
  <2>3. m + 1 = Len(ihits) + 1
    BY <1>1, <2>1, <2>2, RestOf
  <2>4. m = Len(ihits)
    <3>1. m \in Int /\ Len(ihits) \in Int
      BY <2>1
    <3> QED BY <2>3, <3>1
  <2> QED BY <1>3, <2>1, <2>4 DEF IssuesAt
<1>6. /\ DOMAIN job.cards = 1 .. n
      /\ \A k \in 1 .. n : /\ job.cards[k].id = hits[k]
                           /\ job.cards[k].row = glossary.concepts[hits[k]]
                           /\ job.cards[k].groups = VariantGroups(hits[k])
  BY <1>4 DEF ConceptCards
<1>7. /\ DOMAIN job.issueCards = 1 .. m
      /\ \A k \in 1 .. m : job.issueCards[k].id = ihits[k] /\ job.issueCards[k].row = issues[ihits[k]]
  BY <1>5 DEF IssueCards
<1>8. OfDifferentRows(job.cards)
  <2>1. \A k, l \in 1 .. n : hits[k] = hits[l] => k = l
    BY <1>4 DEF IsInjective
  <2>2. [k \in DOMAIN job.cards |-> job.cards[k].id] = [k \in 1 .. n |-> hits[k]]
    BY <1>6
  <2>3. IsInjective([k \in 1 .. n |-> hits[k]])
    BY <2>1 DEF IsInjective
  <2> QED BY <2>2, <2>3 DEF OfDifferentRows
<1>9. OfDifferentRows(job.issueCards)
  <2>1. \A k, l \in 1 .. m : ihits[k] = ihits[l] => k = l
    BY <1>5 DEF IsInjective
  <2>2. [k \in DOMAIN job.issueCards |-> job.issueCards[k].id] = [k \in 1 .. m |-> ihits[k]]
    BY <1>7
  <2>3. IsInjective([k \in 1 .. m |-> ihits[k]])
    BY <2>1 DEF IsInjective
  <2> QED BY <2>2, <2>3 DEF OfDifferentRows
<1>10. Len(job.cards) = n
  <2>1. job.cards = [k \in 1 .. n |-> job.cards[k]]
    BY <1>4 DEF ConceptCards
  <2> QED BY <1>4, <2>1, AppendToList
<1>11. Len(job.issueCards) = m
  <2>1. job.issueCards = [k \in 1 .. m |-> job.issueCards[k]]
    BY <1>5 DEF IssueCards
  <2> QED BY <1>5, <2>1, AppendToList
<1>12. ASSUME NEW card \in Range(job.cards)
       PROVE  /\ card.row = glossary.concepts[card.id]
              /\ {g[2] : g \in card.groups}
                    = {glossary.variants[v].label : v \in VariantsOf(glossary, card.id)}
  <2>1. PICK k \in 1 .. n : card = job.cards[k]
    BY <1>6 DEF Range
  <2>2. card.id = hits[k] /\ card.row = glossary.concepts[hits[k]]
        /\ card.groups = VariantGroups(hits[k])
    BY <1>6, <2>1
  <2>3. {g[2] : g \in VariantGroups(hits[k])}
           = {glossary.variants[v].label : v \in VariantsOf(glossary, hits[k])}
    BY GroupsShowAll DEF IInv, StoresOK
  <2> QED BY <2>2, <2>3
<1>13. \A card \in Range(job.issueCards) : card.row = issues[card.id]
  BY <1>7 DEF Range
<1> QED BY <1>4, <1>5, <1>8, <1>9, <1>10, <1>11, <1>12, <1>13

LEMMA ContextStepSafe == IInv /\ ContextOK /\ ContextStep => ContextOK'
<1> SUFFICES ASSUME IInv, ContextOK, ContextStep PROVE ContextOK'
  OBVIOUS
<1>1. CASE RenderContext
  BY <1>1, OtherContextSafe DEF RenderContext, Advance, Ended
<1> QED BY <1>1, SearchSafe, LoadConceptSafe, LoadVariantsSafe, LoadIssueSafe DEF ContextStep

\* Only its own steps, its death and edits concern a context.
LEMMA ContextNextSafe == IInv /\ ContextOK /\ [Next]_vars => ContextOK'
<1> SUFFICES ASSUME IInv, ContextOK, [Next]_vars PROVE ContextOK'
  OBVIOUS
<1>0. {"kind", "alone", "stage"} \subseteq DOMAIN job
  BY DEF IInv, JobOK
<1>1. CASE StartGraph \/ StartTags \/ StartAnalysis
  BY <1>1, OtherContextSafe DEF StartGraph, StartTags, StartAnalysis, Begin
<1>2. CASE StartExplore
  BY <1>2, StartContextSafe DEF StartExplore, Begin
<1>3. CASE Crash \/ TearFile
  BY <1>3, OtherContextSafe DEF Crash, TearFile, Advance, Ended
<1>4. CASE Editor
  <2>1. PICK kind : Edit(kind)
    BY <1>4 DEF Editor, CreateConcept, UpdateConcept, AddVariant, AddRelation, DeleteAConcept,
                CloseIssue, EditGlossary
  <2>2. job' = [job EXCEPT !.alone = ~ Running]
    BY <2>1 DEF Edit
  <2>3. /\ DOMAIN job' = DOMAIN job /\ job'.kind = job.kind /\ job'.stage = job.stage
        /\ job'.alone = (~ Running)
    BY <1>0, <2>2
  <2> QED BY <2>3 DEF ContextOK, Running
<1>5. CASE RebuildSearch \/ UNCHANGED vars
  <2>1. job' = job /\ glossary' = glossary /\ issues' = issues
    BY <1>5 DEF RebuildSearch, vars
  <2>2. Found' = Found
    BY <2>1, SameRows DEF Found
  <2>3. /\ \A hits, n, open : ConceptsAt(hits, n, open)' = ConceptsAt(hits, n, open)
        /\ \A hits, n : IssuesAt(hits, n)' = IssuesAt(hits, n)
    BY <2>1, SameRows DEF ConceptsAt, IssuesAt
  <2>4. Shown' = Shown
    BY <2>1, <2>3 DEF Shown
  <2> QED BY <2>1, <2>2, <2>4 DEF ContextOK
<1>6. CASE GraphStep \/ AnalysisStep
  <2>1. job'.kind # "explore"
    BY <1>0, <1>6, OtherJobsGoOn
  <2> QED BY <2>1, OtherContextSafe
<1>7. CASE ContextStep
  BY <1>7, ContextStepSafe
<1>8. CASE IndexForTags \/ QueryForTags \/ SuggestTags \/ RenderTags
  <2>1. job'.kind # "explore"
    <3>1. CASE IndexForTags
      BY <1>0, <3>1 DEF IndexForTags, TagsJob, Advance
    <3>2. CASE QueryForTags
      BY <1>0, <3>2 DEF QueryForTags, TagsJob, Advance
    <3>3. CASE SuggestTags
      BY <1>0, <3>3 DEF SuggestTags, TagsJob, Advance
    <3>4. CASE RenderTags
      BY <3>4 DEF RenderTags, Advance, Ended
    <3> QED BY <1>8, <3>1, <3>2, <3>3, <3>4
  <2> QED BY <2>1, OtherContextSafe
<1> QED BY <1>1, <1>2, <1>3, <1>4, <1>5, <1>6, <1>7, <1>8
        DEF Next, Start, JobStep, ExploreStep, ContextStep

\* How a context nobody disturbs ends.
LEMMA ContextEnds ==
    ASSUME IInv, ContextOK, [Next]_vars, job.kind = "explore", job.alone, job'.kind = "none"
    PROVE  job'.stage = "crashed" \/ (job'.stage = "context" /\ RenderContext)
<1>0. {"kind", "alone", "stage"} \subseteq DOMAIN job
  BY DEF IInv, JobOK
<1>1. CASE Start
  BY <1>1 DEF Start, StartGraph, StartExplore, StartTags, StartAnalysis, Begin, Running
<1>2. CASE Crash \/ TearFile
  BY <1>2 DEF Crash, TearFile, Advance, Ended
<1>3. CASE Editor
  <2>1. PICK kind : Edit(kind)
    BY <1>3 DEF Editor, CreateConcept, UpdateConcept, AddVariant, AddRelation, DeleteAConcept,
                CloseIssue, EditGlossary
  <2>2. job'.kind = job.kind
    BY <1>0, <2>1 DEF Edit
  <2> QED BY <2>2
<1>4. CASE RebuildSearch \/ UNCHANGED vars
  BY <1>4 DEF RebuildSearch, vars
<1>5. CASE GraphStep
  BY <1>5 DEF GraphStep, ReadNodes, ReadVariantEdges, ReadRelationEdges, ReadIssueEdges,
              PersistSnapshot, ReadDocumentVariants, ReadDocuments, Extract, WriteFile, GraphJob
<1>6. CASE AnalysisStep
  BY <1>6 DEF AnalysisStep, StoreCheck, ProviderAnswers, ProviderFails, ProviderAnswersInvalid,
              UseExtraction, IndexForAnalysis, QueryForAnalysis, ReadTerms, ReadActiveConcepts,
              ClassifyCandidates, UseClassification, StoreIssue, FinishAnalysis, AnalysisJob
<1>7. CASE SearchConcepts \/ SearchIssues
  BY <1>0, <1>7 DEF SearchConcepts, SearchIssues, ExploreJob, Advance
<1>8. CASE LoadVariants
  BY <1>0, <1>8 DEF LoadVariants, ExploreJob, Advance
<1>9. CASE LoadConcept \/ LoadIssue
  BY <1>9, LoadConceptSafe, LoadIssueSafe
<1>10. CASE RenderContext
  BY <1>10 DEF RenderContext, Advance, Ended
<1>11. CASE IndexForTags \/ QueryForTags \/ SuggestTags \/ RenderTags
  BY <1>11 DEF IndexForTags, QueryForTags, SuggestTags, RenderTags, TagsJob
<1> QED BY <1>1, <1>2, <1>3, <1>4, <1>5, <1>6, <1>7, <1>8, <1>9, <1>10, <1>11
        DEF Next, JobStep, ExploreStep

\* A context that no edit disturbs is given, however old the search rows are:
\* with different rows, no more than the limits, each as it is now.
THEOREM QuietContextsAreCurrent == Spec => QuietContextIsCurrent
<1>1. Init => ContextOK
  BY DEF Init, Ended, ContextOK
<1>2. IInv /\ ContextOK /\ [Next]_vars => ContextOK'
  BY ContextNextSafe
<1>3. Spec => []ContextOK
  BY <1>1, <1>2, WorkbenchInvariant, PTL DEF Spec
<1>4. IInv /\ ContextOK /\ [Next]_vars =>
         [Running /\ job.kind = "explore" /\ job.alone /\ job'.kind = "none"
          => \/ job'.stage = "crashed"
             \/ /\ job'.stage = "context"
                /\ OfDifferentRows(job.cards) /\ Len(job.cards) <= MaxConceptCards
                /\ OfDifferentRows(job.issueCards) /\ Len(job.issueCards) <= MaxIssueCards
                /\ \A card \in Range(job.cards) :
                      /\ card.row = glossary.concepts[card.id]
                      /\ {g[2] : g \in card.groups}
                            = {glossary.variants[v].label :
                                  v \in VariantsOf(glossary, card.id)}
                /\ \A card \in Range(job.issueCards) : card.row = issues[card.id]]_vars
  <2>1. SUFFICES ASSUME IInv, ContextOK, [Next]_vars, job.kind = "explore", job.alone,
                        job'.kind = "none", ~ (job'.stage = "crashed")
                 PROVE  /\ job'.stage = "context"
                        /\ OfDifferentRows(job.cards) /\ Len(job.cards) <= MaxConceptCards
                        /\ OfDifferentRows(job.issueCards) /\ Len(job.issueCards) <= MaxIssueCards
                        /\ \A card \in Range(job.cards) :
                              /\ card.row = glossary.concepts[card.id]
                              /\ {g[2] : g \in card.groups}
                                    = {glossary.variants[v].label :
                                          v \in VariantsOf(glossary, card.id)}
                        /\ \A card \in Range(job.issueCards) : card.row = issues[card.id]
    OBVIOUS
  <2>2. RenderContext /\ job'.stage = "context"
    BY <2>1, ContextEnds
  <2> QED BY <2>1, <2>2, ContextIsGiven
<1> QED BY <1>3, <1>4, WorkbenchInvariant, PTL DEF Spec, QuietContextIsCurrent
=============================================================================
