------------------------------ MODULE GraphExport ------------------------------
(***************************************************************************)
(* The graph of the glossary and its export for graphify.                  *)
(*                                                                         *)
(* GraphProjectionService reads nodes and three kinds of edges in four     *)
(* selects and persists the graph as a snapshot.  The export then reads    *)
(* the glossary twice more for its documents, derives the native           *)
(* extraction from the graph, and writes its files one after the other     *)
(* into a directory named by a hash of what it writes.                     *)
(*                                                                         *)
(* Files are modelled by their content.  The hash of a content is the      *)
(* content; order inside a file follows from the content.                  *)
(***************************************************************************)
EXTENDS Workspace

\* The files of an export beside its documents, in the order of their writing.
FileNames == <<"app_graph", "projection", "extraction", "runtime_status">>

\* A document's file has the name of its concept, in a directory of its own.
ASSUME FileNamesAssumption == ConceptIds \cap Range(FileNames) = {}

\* GraphRelation, as far as relations and issues are stored with one.
GraphRelations ==
    {"alias_of", "variant_of", "contradicts", "related_to", "depends_on",
     "part_of", "derives_from", "value_of"}

\* _issue_relation, of the issue types that have one.
IssueRelation ==
    [alias_candidate             |-> "alias_of",
     same_meaning_different_term |-> "alias_of",
     conflicting_definition      |-> "contradicts",
     same_term_different_meaning |-> "contradicts",
     ambiguous_usage             |-> "contradicts",
     graph_relation_candidate    |-> "related_to"]

EdgeTo(source, relation, target, reason) ==
    [source |-> source, relation |-> relation, target |-> target, reason |-> reason]

\* Active aliases and abbreviations, of whatever concept.
VariantEdges ==
    {EdgeTo(glossary.variants[v].concept, "alias_of", glossary.variants[v].concept, v) :
        v \in {w \in LiveVariants(glossary) :
                  /\ glossary.variants[w].status = "active"
                  /\ glossary.variants[w].type \in {"alias", "abbreviation"}}}

RelationEdges == {EdgeTo(r[1], r[2], r[3], r) : r \in glossary.relations}

\* Open issues that name two concepts, of a type that is an edge.
IssueEdges ==
    {EdgeTo(issues[i].candidate, IssueRelation[issues[i].type], issues[i].target, i) :
        i \in {j \in DOMAIN issues :
                  /\ issues[j].status = "open"
                  /\ None \notin {issues[j].candidate, issues[j].target}
                  /\ issues[j].type \in DOMAIN IssueRelation}}

\* One document of the corpus: what _concept_markdown renders.
Document(c, variants) ==
    [term   |-> glossary.concepts[c].term,
     tags   |-> glossary.concepts[c].tags,
     labels |-> {<<variants[v].label, variants[v].type>> :
                    v \in {w \in DOMAIN variants : variants[w] # None /\ variants[w].concept = c}}]

GraphJob(stage) == Running /\ job.kind = "graph" /\ job.stage = stage

At(stage) == [job EXCEPT !.stage = stage]

-----------------------------------------------------------------------------
(***************************************************************************)
(* The projection.                                                         *)
(***************************************************************************)
\* GET current and POST rebuild, or an export.
StartGraph ==
    \E export \in BOOLEAN :
        /\ Begin([kind |-> "graph", alone |-> TRUE, stage |-> "nodes", export |-> export,
                  nodes |-> <<>>, edges |-> {}, variants |-> <<>>, documents |-> <<>>,
                  written |-> {}])
        /\ UNCHANGED <<Tables, edits>>

ReadNodes ==
    /\ GraphJob("nodes")
    /\ Advance([At("variants") EXCEPT
                   !.nodes = [c \in Active |-> glossary.concepts[c].term]])
    /\ UNCHANGED Tables

ReadVariantEdges ==
    /\ GraphJob("variants")
    /\ Advance([At("relations") EXCEPT !.edges = VariantEdges])
    /\ UNCHANGED Tables

\* A relation of a type the graph does not know refuses the whole graph.
ReadRelationEdges ==
    /\ GraphJob("relations")
    /\ IF \E edge \in RelationEdges : edge.relation \notin GraphRelations
       THEN Advance(Ended("invalid_graph_relation"))
       ELSE Advance([At("issues") EXCEPT !.edges = @ \cup RelationEdges])
    /\ UNCHANGED Tables

ReadIssueEdges ==
    /\ GraphJob("issues")
    /\ Advance([At("persist") EXCEPT !.edges = @ \cup IssueEdges])
    /\ UNCHANGED Tables

Graph == [nodes |-> job.nodes, edges |-> job.edges]

PersistSnapshot ==
    /\ GraphJob("persist")
    /\ snapshots' = snapshots \cup {Graph}
    /\ Advance(IF job.export THEN At("document variants") ELSE Ended("graph"))
    /\ UNCHANGED <<glossary, gone, issues, search, embedded, exports>>

-----------------------------------------------------------------------------
(***************************************************************************)
(* The export.                                                             *)
(***************************************************************************)
ReadDocumentVariants ==
    /\ GraphJob("document variants")
    /\ Advance([At("documents") EXCEPT !.variants = glossary.variants])
    /\ UNCHANGED Tables

ReadDocuments ==
    /\ GraphJob("documents")
    /\ Advance([At("extract") EXCEPT
                   !.documents = [c \in Active |-> Document(c, job.variants)]])
    /\ UNCHANGED Tables

\* extraction_for_graph looks up the source file of the node an edge starts
\* from: a KeyError when the graph has no such node.
Extract ==
    /\ GraphJob("extract")
    /\ IF \A edge \in job.edges : edge.source \in DOMAIN job.nodes
       THEN Advance(At("write"))
       ELSE Advance(Ended("key_error"))
    /\ UNCHANGED Tables

Projection == [graph |-> Graph, documents |-> job.documents]

\* Mutant: the directory is named by the graph alone.
GraphDir == Graph

SnapshotDir == Projection

\* The files: name -> content.
Contents ==
    [name \in Range(FileNames) \cup DOMAIN job.documents |->
        CASE name \in {"app_graph", "extraction"} -> Graph
          [] name = "projection" -> Projection
          [] name = "runtime_status" -> None
          [] name \in DOMAIN job.documents -> job.documents[name]]

\* The next file to be written: the documents come last, in the order of the
\* concepts' ids.
ToWrite == (DOMAIN Contents) \ job.written

NextFile ==
    IF \E k \in DOMAIN FileNames : FileNames[k] \in ToWrite
    THEN LET waiting == {k \in DOMAIN FileNames : FileNames[k] \in ToWrite}
         IN  FileNames[CHOOSE k \in waiting : \A m \in waiting : k <= m]
    ELSE FirstOfIds(ToWrite)

FilesIn(dir) == IF dir \in DOMAIN exports THEN exports[dir] ELSE {}

\* Mutant: a file that is there is not written again, since the directory is
\* named by what is in it.
WithFileIfNew(file) ==
    IF \E f \in FilesIn(SnapshotDir) : f.name = file.name THEN exports
    ELSE Put(exports, SnapshotDir, FilesIn(SnapshotDir) \cup {file})

\* The export directory with a file in the place of one of that name.
WithFile(file) ==
    Put(exports, SnapshotDir, {f \in FilesIn(SnapshotDir) : f.name # file.name} \cup {file})

\* write_text, to its end.
WriteFile ==
    /\ GraphJob("write")
    /\ exports' = WithFile([name |-> NextFile, content |-> Contents[NextFile], whole |-> TRUE])
    /\ Advance(IF ToWrite = {NextFile}
               THEN Ended("exported")
               ELSE [job EXCEPT !.written = @ \cup {NextFile}])
    /\ UNCHANGED <<glossary, gone, issues, search, embedded, snapshots>>

\* The process dies or the disk is full in the middle of write_text: the file
\* was emptied when it was opened, and has some of its content.
TearFile ==
    /\ GraphJob("write")
    /\ exports' = WithFile([name |-> NextFile, content |-> None, whole |-> FALSE])
    /\ Advance(Ended("crashed"))
    /\ UNCHANGED <<glossary, gone, issues, search, embedded, snapshots>>

GraphStep ==
    \/ ReadNodes \/ ReadVariantEdges \/ ReadRelationEdges \/ ReadIssueEdges
    \/ PersistSnapshot \/ ReadDocumentVariants \/ ReadDocuments \/ Extract \/ WriteFile

-----------------------------------------------------------------------------
(***************************************************************************)
(* Properties.                                                             *)
(***************************************************************************)
\* "`doc2dic graph export --format graphify` still writes the deterministic
\* projection": an export that is not disturbed does not break off.
ExportsSucceed ==
    [][Running /\ job.kind = "graph" /\ job.alone => job'.stage # "key_error"]_vars

Whole(dir) == {f \in exports[dir] : f.whole}

\* Exports that die half way, are repeated, or follow an edit never leave a
\* directory with files of two exports: its graph, its projection and its
\* documents belong to each other, but for the file an export died in.
ExportDirsAreOfOnePiece ==
    \A dir \in DOMAIN exports :
        \A p \in {f \in Whole(dir) : f.name = "projection"} :
            \A f \in Whole(dir) :
                /\ f.name \in {"app_graph", "extraction"} => f.content = p.content.graph
                /\ f.name \in ConceptIds =>
                      /\ f.name \in DOMAIN p.content.documents
                      /\ f.content = p.content.documents[f.name]

\* An export that was not disturbed is complete, also over the remains of one
\* that died: every node of its graph has the document its extraction names as
\* the source file, no other document is there, and no file is torn.
QuietExportIsComplete ==
    [][Running /\ job.kind = "graph" /\ job.alone /\ job'.stage = "exported"
       => /\ {f.name : f \in exports'[SnapshotDir]}
                = Range(FileNames) \cup DOMAIN job.nodes
          /\ \A f \in exports'[SnapshotDir] : f.whole]_vars
=============================================================================
