---------------------------- MODULE DocumentIndex ----------------------------
(***************************************************************************)
(* What Doc2Dic derives from the files of a project: documents, chunks,    *)
(* occurrences, the evidence of detected issues, and the search rows.      *)
(*                                                                         *)
(* Two kinds of run write them, on connections of their own:               *)
(*   a check       (check_document; with its issues written,               *)
(*                  analyze_document) of one file,                         *)
(*   a reconcile   (reconcile_project) of all files.                       *)
(* A run first reads its files, then the database, and from these works    *)
(* out everything it is going to write: its list of things to do.  Each    *)
(* write is a transaction of its own.  The `with connection' block around  *)
(* those of a check begins nothing, and each repository method leaves one  *)
(* of its own, which commits.  A run that dies, finds the database busy or *)
(* breaks a foreign key leaves what it has written so far.                 *)
(*                                                                         *)
(* A content hash is the text it is made of.  The id of a document is the  *)
(* file it was made for (a digest of the absolute path), the id of a chunk *)
(* a digest of document, ordinal and text: here, those three.              *)
(***************************************************************************)
EXTENDS Naturals, Sequences, FiniteSets, SequencesExt

CONSTANTS
    None,
    Files,          \* the supported files of the project, a sequence in the scanner's order
    Texts,          \* what a file may say
    ChunksOf,       \* text -> the texts of its chunks, in order
    Concepts,
    Mentions,       \* text of a chunk -> the concepts whose labels occur in it
    RelPath,        \* file -> its path below the project root
    AbsPath,        \* file -> its absolute path
    Spellings,      \* file -> the ways a user may name it
    Workers,
    MaxEvidence,    \* MAX_EVIDENCE_ITEMS
    MaxRuns,        \* bound: runs in a behaviour
    MaxChanges      \* bound: edits of files and concepts in a behaviour

FileSet == Range(Files)

ChunkTexts == UNION {Range(ChunksOf[t]) : t \in Texts}

Paths == UNION {Spellings[f] \cup {RelPath[f], AbsPath[f]} : f \in FileSet}

ASSUME ChunksAssumption ==
    /\ Files \in Seq(FileSet) /\ IsFiniteSet(Workers) /\ IsFiniteSet(Concepts)
    /\ \A t \in Texts : ChunksOf[t] \in Seq(ChunkTexts) /\ ChunksOf[t] # <<>>

ASSUME MentionsAssumption == \A c \in ChunkTexts : Mentions[c] \subseteq Concepts

ASSUME BoundsAssumption ==
    MaxEvidence \in Nat \ {0} /\ {MaxRuns, MaxChanges} \subseteq Nat

DocumentRows == [path : Paths, text : Texts]

ASSUME NoneAssumption ==
    None \notin Texts \cup {"plain", "flagged"} /\ None \notin DocumentRows

VARIABLES
    files,          \* file -> its text, or None
    concepts,       \* concept -> "plain", "flagged" (its labels raise issues), or None
    documents,      \* table documents: id -> [path, text], or None
    chunks,         \* table document_chunks: the ids of its rows
    occurrences,    \* table term_occurrences: [chunk, concept it was made for]
    evidence,       \* <<document, concept>> -> the chunks its issue quotes, or None
    search,         \* document_search_fts: [document, chunk]
    run,            \* what each worker is doing, or Idle
    runs,           \* runs started so far
    changes,        \* edits so far
    failed          \* history: some run ended before its list did

vars == <<files, concepts, documents, chunks, occurrences, evidence, search,
          run, runs, changes, failed>>

Chunks == [document : FileSet, ordinal : Nat, text : ChunkTexts]

Issues == FileSet \X Concepts

\* chunk_document: the chunks of a text, in order.
ChunkSeq(d, text) ==
    [k \in DOMAIN ChunksOf[text] |->
        [document |-> d, ordinal |-> k, text |-> ChunksOf[text][k]]]

ChunkSet(d, text) == Range(ChunkSeq(d, text))

Idle == [stage |-> "idle", kind |-> None, sources |-> <<>>, writes |-> FALSE,
         seen |-> None, todo |-> <<>>, alone |-> FALSE]

Init ==
    /\ files \in [FileSet -> Texts]
    /\ concepts \in [Concepts -> {"plain", "flagged"}]
    /\ documents = [d \in FileSet |-> None]
    /\ chunks = {}
    /\ occurrences = {}
    /\ evidence = [i \in Issues |-> None]
    /\ search = {}
    /\ run = [w \in Workers |-> Idle]
    /\ runs = 0
    /\ changes = 0
    /\ failed = FALSE

Environment == <<files, concepts, runs, changes>>

Rows == <<documents, chunks, occurrences, evidence, search>>

-----------------------------------------------------------------------------
(***************************************************************************)
(* Paths.  A document remembers the path it was stored under: a reconcile  *)
(* stores the path below the root, a check whatever the user typed, which  *)
(* is relative to a directory of the user's choice.                        *)
(***************************************************************************)
DisplayPath(path) ==
    IF \E f \in FileSet : AbsPath[f] = path
    THEN RelPath[CHOOSE f \in FileSet : AbsPath[f] = path]
    ELSE path

\* The documents indexed under a file's relative path.
IndexedAs(f) ==
    {d \in FileSet : /\ documents[d] # None
                     /\ RelPath[f] \in {documents[d].path, DisplayPath(documents[d].path)}}

\* _document_id_for: of several matches, whichever row was read last.
DocumentIdsFor(f) == IF IndexedAs(f) = {} THEN {f} ELSE IndexedAs(f)

\* freshness_report.
PendingFiles == {f \in FileSet : files[f] # None /\ IndexedAs(f) = {}}

StaleFiles ==
    {f \in FileSet : /\ files[f] # None
                     /\ \E d \in IndexedAs(f) : documents[d].text # files[f]}

MissingDocuments ==
    {d \in FileSet : /\ documents[d] # None
                     /\ \A f \in FileSet : files[f] # None => d \notin IndexedAs(f)}

-----------------------------------------------------------------------------
(***************************************************************************)
(* What a run is going to write.                                           *)
(***************************************************************************)
ChunkWrites(d, text) ==
    [k \in DOMAIN ChunksOf[text] |-> [op |-> "chunk", chunk |-> ChunkSeq(d, text)[k]]]

DocumentWrite(d, path, text) ==
    [op |-> "document", document |-> d, path |-> path, text |-> text]

\* The concepts among `known' whose labels occur in the chunk.
Detected(chunk, known) == Mentions[chunk.text] \cap known

OccurrenceWrites(d, text, known) ==
    FlattenSeq([k \in DOMAIN ChunksOf[text] |->
        LET chunk == ChunkSeq(d, text)[k]
        IN  SetToSeq({[op |-> "occurrence", chunk |-> chunk, concept |-> c] :
                         c \in Detected(chunk, known)})])

\* _issue: the first mentions of the concept, and no more.  A chunk mentions it
\* once here, so that mentions are chunks.
Quoted(d, text, c) ==
    LET mentioning == {x \in ChunkSet(d, text) : c \in Mentions[x.text]}
        earlier(x) == {y \in mentioning : y.ordinal < x.ordinal}
    IN  {x \in mentioning : Cardinality(earlier(x)) < MaxEvidence}

\* None is no set of quotes.
ASSUME QuotesAssumption ==
    \A d \in FileSet, text \in Texts, c \in Concepts : Quoted(d, text, c) # None

\* One issue per flagged concept that is mentioned.
IssueWrites(d, text, flagged) ==
    SetToSeq({[op |-> "issue", issue |-> <<d, c>>, chunks |-> Quoted(d, text, c)] :
                 c \in {x \in flagged : Quoted(d, text, x) # {}}})

Flagged(seen) == {c \in Concepts : seen[c] = "flagged"}

Known(seen) == {c \in Concepts : seen[c] # None}

\* A file is read as [file, path, text], without a text if it is not there.
\* Mutant: nothing is written for a file whose stored hash is the same.
CheckPlanSkipsFresh(source, seen, writes) ==
    IF documents[source.file] # None /\ documents[source.file].text = source.text
    THEN <<>>
    ELSE <<DocumentWrite(source.file, source.path, source.text)>>
         \o ChunkWrites(source.file, source.text)
         \o OccurrenceWrites(source.file, source.text, Known(seen))
         \o (IF writes THEN IssueWrites(source.file, source.text, Flagged(seen))
             ELSE <<>>)

\* _persist_check_result, and the issues of the check and of the analysis.
CheckPlan(source, seen, writes) ==
    <<DocumentWrite(source.file, source.path, source.text)>>
    \o ChunkWrites(source.file, source.text)
    \o OccurrenceWrites(source.file, source.text, Known(seen))
    \o (IF writes THEN IssueWrites(source.file, source.text, Flagged(seen)) ELSE <<>>)

\* Mutant: the rows of the last reconcile are not deleted first.
SourcePlanKeepsRows(source, d) ==
    <<DocumentWrite(d, RelPath[source.file], source.text)>> \o ChunkWrites(d, source.text)

\* Mutant: the rows are deleted after the document was written.
SourcePlanDeletesSecond(source, d) ==
    <<DocumentWrite(d, RelPath[source.file], source.text),
      [op |-> "delete", document |-> d]>>
    \o ChunkWrites(d, source.text)

\* reconcile_project, one source.
SourcePlan(source, d) ==
    <<[op |-> "delete", document |-> d],
      DocumentWrite(d, RelPath[source.file], source.text)>>
    \o ChunkWrites(d, source.text)

\* reconcile_project, all that are there; `ids' is the document id of each file.
ReconcilePlan(sources, ids) ==
    FlattenSeq([k \in DOMAIN sources |->
        IF sources[k].text = None THEN <<>>
        ELSE SourcePlan(sources[k], ids[sources[k].file])])
    \o <<[op |-> "rebuild"]>>

-----------------------------------------------------------------------------
(***************************************************************************)
(* A run begins: it reads its files, then the database.                    *)
(***************************************************************************)
Start(w, kind, sources, writes) ==
    /\ run[w] = Idle
    /\ runs < MaxRuns
    /\ runs' = runs + 1
    /\ LET others == {v \in Workers : run[v] # Idle}
       IN  run' = [v \in Workers |->
                     IF v = w
                     THEN [Idle EXCEPT !.stage = "read", !.kind = kind,
                                       !.sources = sources, !.writes = writes,
                                       !.alone = (others = {})]
                     ELSE [run[v] EXCEPT !.alone = FALSE]]
    /\ UNCHANGED <<files, concepts, changes, Rows, failed>>

\* parse_document: a file that is not there ends a check before it began.
StartCheck(w) ==
    \E f \in FileSet, writes \in BOOLEAN :
        /\ files[f] # None
        /\ \E path \in Spellings[f] :
              Start(w, "check", <<[file |-> f, path |-> path, text |-> files[f]]>>, writes)

\* scan_project.
StartReconcile(w) ==
    Start(w, "reconcile",
          [k \in DOMAIN Files |-> [file |-> Files[k], path |-> RelPath[Files[k]],
                                   text |-> files[Files[k]]]],
          FALSE)

\* catch_up_pending_files reconciles only when all that is wrong is new files.
CatchUp(w) ==
    /\ PendingFiles # {} /\ StaleFiles = {} /\ MissingDocuments = {}
    /\ StartReconcile(w)

Goto(w, todo, seen) ==
    run' = [run EXCEPT ![w].stage = "write", ![w].todo = todo, ![w].seen = seen]

\* load_glossary_terms, or _stored_documents.
ReadDatabase(w) ==
    /\ run[w].stage = "read"
    /\ IF run[w].kind = "check"
       THEN Goto(w, CheckPlan(run[w].sources[1], concepts, run[w].writes), concepts)
       ELSE \E ids \in [FileSet -> FileSet] :
               /\ \A f \in FileSet : ids[f] \in DocumentIdsFor(f)
               /\ Goto(w, ReconcilePlan(run[w].sources, ids), None)
    /\ UNCHANGED <<Environment, Rows, failed>>

-----------------------------------------------------------------------------
(***************************************************************************)
(* The writes.                                                             *)
(***************************************************************************)
Does(w, op) == run[w].todo # <<>> /\ Head(run[w].todo).op = op

Done(w) == run' = [run EXCEPT ![w].todo = Tail(@)] /\ UNCHANGED failed

\* The run ends before its list does.
Abort(w) == run' = [run EXCEPT ![w] = Idle] /\ failed' = TRUE

\* Mutant: the file is read once more for the hash.
WriteDocumentRereads(w) ==
    /\ Does(w, "document")
    /\ LET write == Head(run[w].todo)
       IN  documents' = [documents EXCEPT ![write.document] =
                            [path |-> write.path, text |-> files[write.document]]]
    /\ Done(w)
    /\ UNCHANGED <<Environment, chunks, occurrences, evidence, search>>

WriteDocument(w) ==
    /\ Does(w, "document")
    /\ LET write == Head(run[w].todo)
       IN  documents' = [documents EXCEPT ![write.document] =
                            [path |-> write.path, text |-> write.text]]
    /\ Done(w)
    /\ UNCHANGED <<Environment, chunks, occurrences, evidence, search>>

\* The document is there: no row of documents is ever deleted.
WriteChunk(w) ==
    /\ Does(w, "chunk")
    /\ chunks' = chunks \cup {Head(run[w].todo).chunk}
    /\ Done(w)
    /\ UNCHANGED <<Environment, documents, occurrences, evidence, search>>

\* Its chunk and its concept are foreign keys.
WriteOccurrence(w) ==
    /\ Does(w, "occurrence")
    /\ LET write == Head(run[w].todo)
       IN  IF write.chunk \in chunks /\ concepts[write.concept] # None
           THEN /\ occurrences' = occurrences
                       \cup {[chunk |-> write.chunk, concept |-> write.concept]}
                /\ Done(w)
           ELSE Abort(w) /\ UNCHANGED occurrences
    /\ UNCHANGED <<Environment, documents, chunks, evidence, search>>

\* Mutant: evidence is written without looking at its chunk.
WriteIssueUnchecked(w) ==
    /\ Does(w, "issue")
    /\ LET write == Head(run[w].todo)
       IN  IF concepts[write.issue[2]] # None
           THEN evidence' = [evidence EXCEPT ![write.issue] = write.chunks] /\ Done(w)
           ELSE Abort(w) /\ UNCHANGED evidence
    /\ UNCHANGED <<Environment, documents, chunks, occurrences, search>>

\* upsert_issue: the row and all of its evidence in one transaction.
WriteIssue(w) ==
    /\ Does(w, "issue")
    /\ LET write == Head(run[w].todo)
       IN  IF concepts[write.issue[2]] # None /\ write.chunks \subseteq chunks
           THEN evidence' = [evidence EXCEPT ![write.issue] = write.chunks] /\ Done(w)
           ELSE Abort(w) /\ UNCHANGED evidence
    /\ UNCHANGED <<Environment, documents, chunks, occurrences, search>>

\* _replace_document_chunks.  Evidence stays, without its chunk (set null).
DeleteRows(w) ==
    /\ Does(w, "delete")
    /\ LET gone == {c \in chunks : c.document = Head(run[w].todo).document}
       IN  /\ chunks' = chunks \ gone
           /\ occurrences' = {o \in occurrences : o.chunk \notin gone}
           /\ evidence' = [i \in Issues |->
                             IF evidence[i] = None THEN None ELSE evidence[i] \ gone]
    /\ Done(w)
    /\ UNCHANGED <<Environment, documents, search>>

\* SearchIndexRepository.rebuild, its document rows: one per chunk, and one per
\* document that has none.
RebuildSearch(w) ==
    /\ Does(w, "rebuild")
    /\ LET empty == {d \in FileSet : documents[d] # None
                                     /\ \A c \in chunks : c.document # d}
       IN  search' = {[document |-> c.document, chunk |-> c] : c \in chunks}
                     \cup {[document |-> d, chunk |-> None] : d \in empty}
    /\ Done(w)
    /\ UNCHANGED <<Environment, documents, chunks, occurrences, evidence>>

Finish(w) ==
    /\ run[w].stage = "write"
    /\ run[w].todo = <<>>
    /\ run' = [run EXCEPT ![w] = Idle]
    /\ UNCHANGED <<Environment, Rows, failed>>

\* The process dies, or finds the database busy.
Crash(w) ==
    /\ run[w] # Idle
    /\ Abort(w)
    /\ UNCHANGED <<Environment, Rows>>

-----------------------------------------------------------------------------
(***************************************************************************)
(* The others.                                                             *)
(***************************************************************************)
Disturb == run' = [w \in Workers |-> [run[w] EXCEPT !.alone = FALSE]]

\* Somebody writes, adds or deletes a file.
EditFile(f) ==
    /\ changes < MaxChanges
    /\ changes' = changes + 1
    /\ \E text \in Texts \cup {None} : files' = [files EXCEPT ![f] = text]
    /\ Disturb
    /\ UNCHANGED <<concepts, runs, Rows, failed>>

\* A concept's labels become forbidden or allowed, or the concept is deleted
\* and its issues lose it (set null).
EditConcept(c) ==
    /\ changes < MaxChanges
    /\ changes' = changes + 1
    /\ concepts[c] # None
    /\ \E status \in {"plain", "flagged", None} :
          concepts' = [concepts EXCEPT ![c] = status]
    /\ Disturb
    /\ UNCHANGED <<files, runs, Rows, failed>>

Write(w) ==
    \/ WriteDocument(w) \/ WriteChunk(w) \/ WriteOccurrence(w) \/ WriteIssue(w)
    \/ DeleteRows(w) \/ RebuildSearch(w)

Next ==
    \/ \E w \in Workers :
          \/ StartCheck(w) \/ StartReconcile(w) \/ CatchUp(w)
          \/ ReadDatabase(w) \/ Write(w) \/ Finish(w) \/ Crash(w)
    \/ \E f \in FileSet : EditFile(f)
    \/ \E c \in Concepts : EditConcept(c)

Spec == Init /\ [][Next]_vars

-----------------------------------------------------------------------------
(***************************************************************************)
(* Properties.                                                             *)
(***************************************************************************)
Sources == [file : FileSet, path : Paths, text : Texts \cup {None}]

Writes ==
    [op : {"document"}, document : FileSet, path : Paths, text : Texts]
    \cup [op : {"chunk"}, chunk : Chunks]
    \cup [op : {"occurrence"}, chunk : Chunks, concept : Concepts]
    \cup [op : {"issue"}, issue : Issues, chunks : SUBSET Chunks]
    \cup [op : {"delete"}, document : FileSet]
    \cup [op : {"rebuild"}]

Glossaries == [Concepts -> {"plain", "flagged", None}]

Runs == [stage : {"idle", "read", "write"}, kind : {"check", "reconcile", None},
         sources : Seq(Sources), writes : BOOLEAN, seen : Glossaries \cup {None},
         todo : Seq(Writes), alone : BOOLEAN]

\* Every variable has its type.
TypeOK ==
    /\ files \in [FileSet -> Texts \cup {None}]
    /\ concepts \in Glossaries
    /\ documents \in [FileSet -> DocumentRows \cup {None}]
    /\ chunks \subseteq Chunks
    /\ occurrences \subseteq [chunk : Chunks, concept : Concepts]
    /\ evidence \in [Issues -> (SUBSET Chunks) \cup {None}]
    /\ search \subseteq [document : FileSet, chunk : Chunks \cup {None}]
    /\ run \in [Workers -> Runs]
    /\ runs \in 0 .. MaxRuns
    /\ changes \in 0 .. MaxChanges
    /\ failed \in BOOLEAN

\* Nothing refers to a row that is gone, although a reconcile deletes chunks
\* while a check that has written them goes on to its occurrences and issues.
RowsPointToRows ==
    /\ \A c \in chunks : documents[c.document] # None
    /\ \A o \in occurrences : o.chunk \in chunks
    /\ \A i \in Issues : evidence[i] # None => evidence[i] \subseteq chunks

\* However runs overlap, when all have ended and none was cut short, every
\* document has all the chunks of the text its hash is of: whoever wrote the
\* document last wrote its chunks after that, and nobody deleted them since.
QuietIndexComplete ==
    (\A w \in Workers : run[w] = Idle) /\ ~failed
    => \A d \in FileSet :
          documents[d] # None => ChunkSet(d, documents[d].text) \subseteq chunks

\* The run of w ends now, with everything written and undisturbed throughout.
EndsUndisturbed(w, kind) ==
    /\ run[w].stage = "write" /\ run[w].kind = kind
    /\ run[w].todo = <<>> /\ run'[w] = Idle
    /\ run[w].alone

\* A reconcile that was not disturbed has repaired whatever earlier runs left,
\* those that died included: every file's document and chunks are those of its
\* text, the search rows are the chunks, and no file is reported as new or
\* changed.
ReconcileRepairs ==
    [][\A w \in Workers : EndsUndisturbed(w, "reconcile") =>
          /\ PendingFiles' = {} /\ StaleFiles' = {}
          /\ \A f \in FileSet : files[f] # None =>
                LET stored == ChunkSet(f, files[f])
                IN  /\ {c \in chunks' : c.document = f} = stored
                    /\ {s.chunk : s \in {x \in search' : x.document = f}} = stored]_vars

\* A check that was not disturbed has left the document, every chunk, an
\* occurrence for every mention, and, if asked for, an issue for every flagged
\* concept that is mentioned, with as much evidence as there is room for: also
\* when an earlier run had died half way.
CheckCovers ==
    [][\A w \in Workers : EndsUndisturbed(w, "check") =>
          LET source == run[w].sources[1]
              stored == ChunkSet(source.file, source.text)
          IN  /\ documents'[source.file] = [path |-> source.path, text |-> source.text]
              /\ stored \subseteq chunks'
              /\ \A x \in Known(run[w].seen) :
                    LET mentioning == {c \in stored : x \in Mentions[c.text]}
                        quoted == evidence'[<<source.file, x>>]
                    IN  /\ \A c \in mentioning :
                              [chunk |-> c, concept |-> x] \in occurrences'
                        /\ run[w].writes /\ x \in Flagged(run[w].seen) /\ mentioning # {}
                              => /\ quoted # None /\ quoted \subseteq mentioning
                                 /\ Cardinality(quoted)
                                       = Min({MaxEvidence, Cardinality(mentioning)})]_vars
=============================================================================
