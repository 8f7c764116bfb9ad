------------------------------- MODULE Workbench -------------------------------
(***************************************************************************)
(* The jobs that read the whole glossary, one after the other, with the    *)
(* editors who change it meanwhile, rebuilds of the search rows, and jobs  *)
(* that die.                                                               *)
(***************************************************************************)
EXTENDS GraphExport, Explore, TermAnalysis

\* What the last job did.
Replies ==
    {"none", "crashed", "graph", "exported", "invalid_graph_relation", "key_error",
     "context", "row_missing", "tags", "analysis", "constraint"}

\* The process dies, or a statement finds the database busy.
Crash ==
    /\ Running
    /\ Advance(Ended("crashed"))
    /\ UNCHANGED Tables

JobStep == GraphStep \/ ExploreStep \/ AnalysisStep

Start == StartGraph \/ StartExplore \/ StartTags \/ StartAnalysis

Next == Start \/ JobStep \/ Crash \/ TearFile \/ Editor \/ RebuildSearch

Spec == Init /\ [][Next]_vars

\* A job that runs goes on: nothing it does waits for another.
FairSpec == Spec /\ WF_vars(JobStep)

-----------------------------------------------------------------------------
IssueRows ==
    [type : (DOMAIN IssueRelation) \cup {"forbidden_term"}, surface : Labels,
     candidate : ConceptIds \cup {None}, target : ConceptIds \cup {None},
     status : {"open", "rejected"}]

TypeOK ==
    /\ glossary \in Glossaries(ConceptIds, VariantIds, Labels, {}, RelationTypes)
    /\ gone \subseteq VariantIds
    /\ \A i \in DOMAIN issues : issues[i] \in IssueRows
    /\ search.concepts \in [ConceptIds -> (SUBSET Labels) \cup {None}]
    /\ embedded \subseteq ConceptIds
    /\ \A s \in snapshots : DOMAIN s.nodes \subseteq ConceptIds
    /\ job.kind \in {"none"} \cup JobKinds
    /\ ~ Running => job.stage \in Replies
    /\ jobs \in Seq(JobKinds) /\ edits \in 0 .. MaxEdits

\* A job ends: it asks a model no more often than it may, searches for a finite
\* number of terms, and works off what it has found.
JobsEnd == Running ~> ~ Running
=============================================================================
