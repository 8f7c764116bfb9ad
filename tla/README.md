# Doc2Dic: verification project

Doc2Dic keeps a glossary beside a set of documents. It detects terms in the
documents that are unknown, ambiguous or forbidden, queues an *issue* for each,
lets people decide the issues, and only then changes the glossary. It is a
Python program: a Typer CLI (one process per command), a FastAPI server (one
worker thread per request) and an MCP server, all on one SQLite file.

These modules model the parts of it in which state is shared and can go wrong.
Everything is translated from the code in `src/doc2dic/`; `PROJECT.json` maps
each definition to the lines it stands for. Paths below are relative to
`src/doc2dic/`.

```
tlc -workers 2 -config MCReviewQueue_race.cfg MCReviewQueue     # one run
tlapm ReviewQueue_proofs.tla                                    # proofs of a module
```

## 1. How SQLite is used

All components stand on the same facts, which decide what can interleave
(`storage/connection.py`, Python's `sqlite3` with its default isolation level):

* every request and every command opens a connection of its own, sets
  `foreign_keys = on`, `journal_mode = wal` and `busy_timeout = 1000`, and runs
  the migrations;
* `with connection:` opens nothing. A transaction begins by itself before the
  first `insert`, `update` or `delete`; until then every `select` is a
  transaction of its own. Leaving the block commits, an exception rolls back;
* there is one write lock for the whole file. Who finds it taken waits a second
  and then gets `OperationalError: database is locked`;
* nobody sees what another connection has not committed; a process that dies
  loses what it had not committed;
* data definition statements (`create table`, `drop table`, `alter table`)
  outside a transaction commit one by one.

So a method of the form `with connection:` *read, test, write* makes its reads
and tests on a state that may be gone when it writes, unless its first
statement is a write.

## 2. Inventory

| Component | State | Operations | Interacts with | Hard behaviour | What makes it correct |
|---|---|---|---|---|---|
| **Review queue** `services/review_*.py`, `storage/repositories/issues.py`, `server/routes_issues.py`, `commands/review.py` | `term_issues` (status, version, key of the deciding request), evidence | eight review actions through `plan_review_action` and `apply_action`; `upsert_issue` | glossary (effects in the same transaction), document check (writes issues), clients that retry | read before lock, lost answers, replays, crashes, document checks over decided issues | a decision and its effect are one step; only open issues change; a replay is recognised; terminal states stay; the lock is given back |
| **Glossary** `services/glossary_*.py`, `server/routes_concepts.py`, `commands/concept.py`, `commands/variant.py` | `concepts`, `term_variants`, `tags`, `concept_tags`, `concept_relations` | create, update, deprecate, delete, `add_variant`, `add_relation` | review queue, MCP tools, embedding index (after a creation through the API) | look-ups before the transaction, read-modify-write of a whole row, two copies of the variant list and of the tags | labels and physical names unique; list columns in step with the tables; no orphans |
| **Embedding index, vector store** `services/embedding_index*.py`, `storage/vector_*.py`, `storage/repositories/embeddings.py` | `embeddings`, `embedding_vectors`, two settings | indexing pass, nearest-neighbour query | glossary, provider, document check, tag suggestions | many commits per pass, table dropped and created by itself, ids from `max(id) + 1`, edits while the provider answers | a vector belongs to its metadata row; one dimension; a finished pass covers all |
| **Embedding providers, configuration** `services/embedding_service.py`, `embedding_config.py`, `auth_store.py`, `commands/config*.py` | project settings, environment, auth file | resolve provider, model and key; embed texts; save configuration | embedding index | three sources of truth, provider failures | the vector count is the text count; the project's setting wins over the auth file |
| **Document check** `services/document_*.py`, `commands/check.py` | `documents`, `document_chunks`, `term_occurrences`, issues | parse, chunk, find occurrences, detect issues, persist | glossary (reads), review queue (writes issues) | the repositories' own `with connection:` blocks commit in between; overlaps with reconciles, checks and edits | no row refers to one that is gone; a later check completes what an earlier one left; offsets fit the text; ids are deterministic |
| **Conflict detection** `services/conflict_*.py`, `commands/analyze.py` | none of its own | match candidates, classify, write issues | embedding index, LLM extraction, review queue | stale vectors of deleted concepts; the glossary is read several times with edits in between | known terms raise nothing; written issues name live concepts |
| **LLM extraction** `services/llm_service.py` | none | ask, validate, ask again | provider | retry of invalid answers, error taxonomy | bounded attempts; the reported attempts are those made |
| **Storage, migrations** `storage/*.py`, `*.sql` | `schema_migrations`, `settings`, the schema | `open_database`, `migrate_database` | everything | DDL commits before the version row; two processes migrate at once | an interrupted migration can be repeated; versions are recorded once |
| **Project sync** `sync/*.py`, `storage/repositories/documents.py` | `documents`, `document_chunks` | scan, reconcile, banner, watch | document check | a commit per chunk, the hash committed before the chunks | rows described as fresh agree with the file |
| **Lexical search** `storage/repositories/search*.py` | FTS tables | rebuild, search | glossary, documents | rebuilt at its own times | a hit names something that exists |
| **Graph projection, export** `services/graph*.py`, `storage/repositories/graphs.py` | `graph_snapshots` | project, save, export | glossary, issues | edges to nodes that are left out; one relation of an unknown type refuses all; a file at a time | an export succeeds and is complete; its files are of one graph |
| **Context, tag suggestions** `context/*.py` | none | read, rank, render | search rows, glossary, embedding index | rows deleted between the search and the read of their cards | cards are current, bounded and of different rows; scores add up |
| **MCP server** `mcp/*.py` | none | tools over the services | glossary, context | concurrent tools | as the glossary |
| **HTTP API** `server/*.py` | none | routes, error mapping | services | one connection per request | lock errors are answered with 503 and may be retried |
| **Serve supervisor** `commands/serve.py` | two child processes | start, wait for the first exit, stop both | - | second start fails, child that ignores `terminate` | no child outlives the supervisor |
| **CLI shell, project state, installer, web frontend** | files | print, discover, edit one configuration file | services | - | - |

The places where these behaviours bite are listed, line by line, under
`hazards` in `PROJECT.json`, with the properties that watch them.

## 3. Modules

| Module | What it is | Code |
|---|---|---|
| `ReviewStateMachine` | pure: actions, their required fields and target states, and `PlanReviewAction` with its order of tests | `services/review_state_machine.py` |
| `GlossaryStore` | pure: the glossary tables as one record of total functions (`None` where there is no row), and every write the services make to them, cascades included | `storage/schema.sql`, `services/glossary_rows.py`, write halves of `services/glossary_service.py` |
| `ReviewQueue` | state machine: `apply_action`, its clients and the other writers; extends the two above | `services/review_service.py`, `services/review_effects.py`, `server/routes_issues.py`, `server/errors.py`, `storage/repositories/issues.py` |
| `ReviewContract` | the abstract specification of the review queue | what a reviewer may rely on; it has no lines of its own |
| `Glossary` | state machine: `GlossaryService` used by editors that overlap; extends `GlossaryStore` | `services/glossary_service.py`, `server/routes_concepts.py` |
| `EmbeddingIndex` | state machine: indexing passes and the JSON vector store | `services/embedding_index.py`, `storage/vector_store.py`, `storage/vector_backend.py`, `storage/repositories/embeddings.py` |
| `DocumentIndex` | state machine: checks and reconciles of the files of a project, and the rows they write | `services/document_*.py`, `sync/*.py`, `storage/repositories/documents.py`, `storage/repositories/search*.py` |
| `Migrations` | state machine: `migrate_database`, statement by statement, by any number of processes | `storage/migrations.py`, `storage/connection.py` |
| `Serve` | state machine: `serve web` with its two children, one of which is a process of `Migrations`; extends it | `commands/serve.py`, `server/app.py`, `server/dependencies.py` |
| `Workspace` | what the jobs below share: tables, search rows, editors, rebuilds; extends `GlossaryStore` | `mcp/tools.py`, `storage/repositories/search*.py` |
| `GraphExport` | a job: the graph, its snapshot and its export | `services/graph_projection_service.py`, `services/graphify_*.py` |
| `Explore` | jobs: the context for a query, and tag suggestions | `context/*.py`, queries of `storage/repositories/search.py` |
| `TermAnalysis` | a job: `analyze_document` with the check's detection, the extraction and the classification | `services/conflict_*.py`, `services/llm_service.py`, `services/document_issue_detection.py` |
| `Workbench` | composition of the three: jobs one after the other, editors in between | `server/routes_graphs.py`, `mcp/tools.py` |
| `GlossaryStore_proofs`, `ReviewQueue_proofs`, `Glossary_proofs`, `EmbeddingIndex_proofs`, `DocumentIndex_proofs`, `Migrations_proofs`, `Serve_proofs`, `Workbench_proofs` | theorems, section 6 | - |
| `MCReviewQueue`, `MCGlossary`, `MCEmbeddingIndex`, `MCDocumentIndex`, `MCMigrations`, `MCServe`, `MCWorkbench` | constants for TLC | - |

### ReviewQueue

A request goes through `pc`: `read`, `begin`, `effect`, `mark`, and back to
`idle` with a `reply`.

| Action | Code |
|---|---|
| `Submit`, `Retry` | a client sends a command; after 503 or no answer it sends the same one again, with the same key |
| `ReadAndPlan` | `get_issue` and `plan_review_action`, in autocommit; a refusal or a replay is answered here |
| `BeginWrite`, `BusyTimeout` | `update term_issues set version = version`: opens the transaction, takes the lock, or fails after a second |
| `ApplyEffect` | `apply_review_effect` on the private copy `tx`; any exception rolls back |
| `MarkAndCommit` | `_mark_issue_applied` with the row of the *snapshot*, then the commit; the answer may be lost |
| `Crash` | the process dies; its transaction is discarded |
| `CheckWritesIssue` | `upsert_issue` by a document check or an analysis: insert, or overwrite on conflict |
| `EditorDeletesConcept` | `delete_concept` with its cascades |

`RowIds` stands for fresh UUIDs: the requesting reviewer and the attempt. A
payload is a function from field names to values, so that a missing field is a
name outside its domain. A blank label is the value `Blank`. Definitions,
reasons and timestamps are left out: no property tells them apart. Actions of an
issue that a deleted concept is referred to from (`on delete set null`) are left
out too, because `apply_action` never reads those columns.

`ReviewContract` has no lock, no transaction and no snapshot: a request is
pending, and at one instant it either decides an issue together with its effect
(`Decide`), is recognised (`Replay`), is refused (`Refuse`) or comes to nothing
(`GiveUp`). The refinement mapping is at the end of `ReviewQueue`.

### Glossary

`read` (the concept, or the ends of a relation), `label` (is it free),
`place` (physical name, primary variant), `write`. A `create` starts at
`label`, a `delete` or a relation goes from `read` to `write`. `Write` repeats
what the *schema* tests (primary keys, foreign keys, the unique index on
physical names) and is one transaction; the values it writes come from the
row read earlier (`row`). `serial` is a history variable: it is true as long as
no two requests have overlapped. Without it the properties of sequential use
could not be told from those of concurrent use.

### EmbeddingIndex

A content hash is the pair of model and text, and a vector is the content it was
computed from, so that "this vector is of that text" can be said. `meta` and
`vectors` are the two tables, `vectors = None` while the table is dropped. Each
commit of `index_active_concept_embeddings` is an action. A pass reads the concepts
`order by id`; here they are numbers, and `First` takes them from a set in that order.
When the table fits,
`ensure_capability` leaves its write of a setting uncommitted, so the first
metadata row is written in that transaction (`FirstEmbedding`), and the later
ones with a gap between reading the id and using it (`AllocateId`,
`UpsertEmbedding`).

Which provider and which model a pass uses is `ResolvedProvider` and
`ResolvedModel`: the environment's override, the project's settings, the auth
file, the default. `ConfigureEmbedding` is the command that saves a provider; it
writes the provider, then the model, then the auth file (`SaveStep`), and
`SaveFails` ends it after any of them. `mixed` is a history variable: some pass
found a model name in the settings that belongs to another provider than the one
it used. Rows are reused by model name alone, so nothing about success can be
said after that, and two properties except it.

### DocumentIndex

A check or a reconcile is a `run`: it reads its files (`StartCheck`,
`StartReconcile`), reads the glossary or the stored documents and works out all
it is going to write (`ReadDatabase`, with `CheckPlan` or `ReconcilePlan`), and
then writes it, one commit per action. The outer `with connection:` of
`_persist_check_result` does not make one transaction of them, because every
repository method leaves a block of its own and with it commits. A write that
finds a chunk or a concept gone breaks a foreign key and ends the run, as a
crash does. An issue quotes the first chunks that mention its concept,
`MaxEvidence` at most, and is written only when there is one (`Quoted`); files that
are not there are skipped.

A content hash is the text it is of. The id of a document is the file it was
made for, the id of a chunk is document, ordinal and text. `Mentions` says which
concepts occur in a chunk, and a concept is `"flagged"` when its labels raise an
issue. Paths are kept, because the freshness report compares them: a check
stores what the user typed, a reconcile the path below the root. `alone` and
`failed` are history variables: a run nobody disturbed, and whether any run was
cut short.

`reconcile_project` and `catch_up_pending_files` are functions of the library
that no shipped command calls, only the tests do. `freshness_report` is called
for the banner of the context.

### Migrations and Serve

`Migrations` gives every data definition statement a commit of its own
(`Execute`), and the version row with what goes with it another (`Record`).
`HasVersion` reads in autocommit, so two processes may apply one version.
Databases start missing, at every version, at a version of a later release, and
in the legacy form that has tables and no history; one of the recorded versions may
have been made by another script, whose checksum then differs (`altered`) and which left
other objects. `Refused` names the three databases that migrations leave alone. An object
of the model stands for statements that are all `if not exists`, or for one column.

`Serve` adds the supervisor (`StartApi`, `StartWeb`, `Poll`, `Stop`) and the two
children. The API server is a process of `Migrations`: it migrates while it
boots and again for every request, and when it is killed the migration it is in is
cut short. `KeyboardInterrupt` may come at any step; `escaped` is a history
variable for exceptions outside the try block of `run_web_server`, after which
children do stay behind.

### Workspace and the jobs

A job (`job`) reads the whole glossary in several autocommit selects, each an
action, and the editors of `Workspace` may act between any two. `alone` is a
history variable: no edit has fallen into the job. `jobs` lists the kinds of the jobs
to come, from one of the `Agendas`, which bound a behaviour; the theorems hold for any
set of agendas. How a request of the glossary is
carried out is the subject of `Glossary`; here it is one committed transaction.
`gone` remembers deleted ids, because a `uuid4` never returns; an edit whose tags
would collide is refused, as the schema refuses it.

* `GraphExport`: nodes are the active concepts; edges come from variants,
  relations and open issues, whatever the status of their concepts. An export
  reads variants and concepts again for its documents, and writes file after file
  into a directory that is named by a hash of graph and documents (the hash is
  its content). `Contents` says what each file holds and `NextFile` which comes next:
  the named files in order, then a document for each concept. A process may die
  between two files (`Crash`) or in the middle of one (`TearFile`, which leaves a file
  that is not `whole`); the next export into the directory writes over both.
* `Explore`: concepts and issues are searched with limits, hits are merged, cards
  are read row by row. The order of a search is a choice, so every ranking is
  covered. Tag suggestions loop over the concepts and then over the nearest
  embeddings, which may name concepts that are gone (`LexicalScores` and `Scores` are
  the two loops, as recursive functions).
* `TermAnalysis`: the check (`StoreCheck`), the extraction with its attempts
  (`ProviderAnswers`, `ProviderFails`, `ProviderAnswersInvalid`), the indexing pass,
  the nearest concept of every candidate, the reads of terms and concepts, the
  classification and the issues, written one by one. A text is the set of labels it
  mentions; an issue's id is a function of what it is about, as in the code. The
  provider's answers come from a small set; a distance is a choice.
* `Workbench`: the jobs one after the other, crashes of jobs, rebuilds of the
  search rows, and fairness.

## 4. Runs

| Run | Instance | Shows |
|---|---|---|
| `review_race` | two reviewers, one issue, six kinds of decision under two keys, two attempts each, one check; up to two requests in flight on the issue | what the write lock does protect: one writer, label uniqueness, list and table in step, a decision atomic with its effect; and the lock is always given back |
| `review_contract` | two issues, eleven commands that meet every refusal, at most one request in flight per issue | type correctness, and that the queue implements `ReviewContract` |
| `review_lostupdate` | one issue, two reviewers | **violated**: two decisions on one issue are both applied |
| `review_reopen` | one issue, one check | **violated**: a check reopens a dismissed issue |
| `glossary_edits` | two editors, three requests, fifteen commands | what the schema saves in every interleaving, and what sequential use keeps |
| `embedding_serial` | two concepts, two texts, two providers of different dimension in settings, auth file and environment, three passes one at a time, two changes | crashes anywhere are repaired by the next pass; after success a search works, whatever part of a configuration was saved |
| `documents_runs` | two files, two texts, one concept, two runs that may overlap, one edit of a file or the concept | no dangling rows in any interleaving; complete chunks when all is quiet; what a check covers and what a reconcile repairs, after crashes too |
| `embedding_race` | one model, two passes that overlap, one change | **violated**: the vector of one content under the metadata of another, for good |
| `serve_web` | the server and a command on one database of any age, one interruption, two Ctrl+C | history and schema agree, connections are given out on complete schemas only, refused databases are untouched and stop `serve web`, no child is left behind, racing migrations come to an end |
| `migrations_interrupted` | one process, one interruption | **violated**: the migration fails for ever after `alter table` |
| `workbench` | two concepts, one further variant, seven agendas of two jobs, one edit, three answers of the model, two attempts | what exports, contexts, tag scores and analyses hold to with edits and crashes between their reads; and that jobs end |
| `graph_export` | one export, two edits | **violated**: a deprecated concept with an edge ends the export with a `KeyError` |

Bounds. Every unbounded thing has a bound in a constant: attempts, checks,
requests, passes, changes. Two attempts are enough for a lost answer and its
replay, two reviewers for every pairwise race (the write lock admits one writer
at a time, so a third only repeats what a second can do), one check to reopen an
issue. Three glossary requests are enough for one that reads, one that changes
what it read, and one that meets the result. Three passes are enough for one that
dies, one that finds what it left in another model, and one that comes back. Two
runs over documents are enough for every overlap of two plans, and for one that
dies and one that mends; the two texts share their first chunk, so that rows are
both reused and left over, and one has more mentions than evidence has room for
(`MaxEvidence` is 1 in the run, 4 in the code).
Two processes show every race of migrations, as the second already meets each
commit of the first; one interruption leaves each possible remainder, which is met
by the next run. Two jobs are enough for one that leaves something (a snapshot, an
export that died, issues, embeddings) and one that meets it. `MCAgendas` lists the
pairs in which this happens: a graph or an export writes what only another one
reads, an analysis writes issues and embeddings, tags write embeddings, a context
writes nothing. In the pairs left out the second job meets tables it does not read,
and runs as it would alone; each kind of job also runs after one that died before
its first write. Search rows are rebuilt, at any moment and as often as they are
stale, while a context runs or is to come (`SearchIsRead`): no other job reads them.
One edit between any two reads makes each read stale. The seeds of `MCWorkbench` hold what a race of two
editors can leave (two concepts with one term), so ambiguity is reached without
more edits. The limits of cards, 5 in the code, are 1 there, so that they bind.
Deadlock is not checked: when all bounds are used up the system rests, as
the program does when nobody calls it.

Every property of a passing run has a mutant: a small wrong change of one
mapped definition under which the run fails.

Fairness. `WriteLockFreed` uses weak fairness of `RequestStep(r)`: a thread that
runs is scheduled, and who waits for the lock is told so within the busy timeout.
`JobsEnd` uses weak fairness of `JobStep`: a job waits for nobody, and the answer of
a provider comes or its client gives up. `Serve` has weak fairness of the
supervisor (it polls or waits with a timeout), of a server that boots or
answers, and of other processes that migrate and open the database again
(commands keep being given; only `EventuallyLatest` needs it). No child has to exit
or obey, and crashes, retries, edits, interrupts and other writers are never forced.

## 5. Findings

1. `review_lostupdate`: `apply_action` plans before it takes the lock and does not
   look again. Both requests answer "applied", the second overwrites the first
   decision, and both effects stay in the glossary. `ImplementsContract` shows the
   other half: as long as requests on one issue do not overlap, versions and keys
   do what they are for.
2. `review_reopen`: ids of detected issues are deterministic and `upsert_issue`
   overwrites status, version and key, so the terminal states are not final.
3. `embedding_race`: `max(id) + 1` is read outside the transaction that uses it, and
   the insert overwrites on conflict.
4. `migrations_interrupted`: each statement of a migration is committed alone, and
   `alter table add column` cannot be repeated; a process that dies before the version
   row leaves a database no later open gets past. Two processes that race, without an
   interruption, do come through (`EventuallyLatest`).
5. `graph_export`: edges are read of all concepts and nodes of the active ones, and the
   extraction looks up the node of every edge.

Known limits of the code that the models meet, and that are no findings because the
repository promises nothing else, or not in so many words:

* Two editors that race attach one label twice: the test runs before the transaction
  and `normalized_label` has no unique index. Reviewers do not
  (`LabelsStayUnique`, proved), since they hold the lock at that point.
* `update_concept` leaves the primary variant under the old label, which is where the
  test for duplicates looks, so a second concept can take a renamed concept's term.
* A check never deletes the chunks and occurrences of the document's earlier text; a
  reconcile does (`ReconcileRepairs`).
* After a run that died between the document row and its chunks the freshness report
  calls the document fresh (`QuietIndexComplete` excepts runs that were cut short; a
  reconcile mends it).
* A check started below the root can store a path that is another file's relative
  path, after which a reconcile writes both files under one id (add such a spelling to
  `MCSpellings` and `ReconcileRepairs` fails).
* With the environment's provider over a project that names another provider's model
  (`mixed`), a pass can report success for vectors that went with the table, and
  vectors of one provider are reused for another.
* The nearest match of a candidate is the first that is a concept's: an embedding of a
  concept that is gone hides a live one further away.
* A relation of a type outside `GraphRelation` (the glossary takes any text) answers
  every request for the graph with 422 until it is removed.
* `related_concept` falls back to tags: a term the glossary knows exactly raises
  `same_meaning_different_term` when its candidate has a tag of another active
  concept. `KnownTermsRaiseNothing` excepts it, and terms that several variants have:
  it speaks of a surface that is the primary term of an active concept and no other
  term.
* A row deleted between the search and its card raises `LookupError`, which
  `run_doc2dic_explore` does not catch; `QuietContextIsCurrent` says that without an edit in
  between it cannot happen.
* `serve web` leaves children behind when an exception is raised outside its try block
  (second `Popen`, Ctrl+C before the wait or during the stop).

## 6. Proofs

Each theorem holds for every value of the constants that the named assumptions of
its modules admit: any finite sets of reviewers, editors, concepts, files or workers,
any labels, commands and seeds, any bounds. The assumptions say what the code takes
for granted: bounds are naturals, `None` is no value of a table, ids are fresh, seeds
satisfy the schema, commands are ones the entry points let through. TLC evaluates all
of them on every run. Three groups have one more hypothesis, stated in the theorems:
`MaxPerIssue = 1` (requests on one issue do not overlap), `MaxRunning = 1` (passes
run one at a time) and `PathsApart` (below). They are not for convenience: the runs
`review_lostupdate` and `embedding_race`, and section 5, show what happens without them.

Hardly any property below is inductive alone. Each module defines an `IInv` from named parts,
proves that `Init` establishes it and that each action keeps it (one lemma per action),
and takes the properties from it.

**The tables** (`GlossaryStore_proofs`, lemmas only). What each write of the services
does to rows and leaves of them (`...Shape`), and that it keeps types, references and
unique names (`DeleteConceptSafe`, `WriteNewConceptSafe`, `WriteNewVariantSafe`,
`UpdateConceptSafe`, `InsertRelationSafe`). The next two modules rest on them.

**The review queue** (`ReviewQueue_proofs`).

| Theorem | Statement |
|---|---|
| `TypeCorrect` | `Spec => []TypeOK` |
| `LockDiscipline` | `Spec => []LockMatchesTransaction` |
| `VersionsAreFlags` | `Spec => []VersionIsClosedFlag` |
| `DecisionsKeepLabelsUnique` | `Spec => []LabelsStayUnique` |
| `DecisionsKeepListsInStep` | `Spec => []VariantListsStayInStep` |
| `DecisionsAreAtomic` | `Spec => DecisionIsAtomic` |
| `LoneRequestsImplementContract` | `Spec => ImplementsContract`, if `MaxPerIssue = 1` |

`RequestsWellFormed`: a request past its read has a complete payload and the snapshot
of an issue that was *open*, so at version 0; without it the version written at the
commit is unknown. `FutureIdsUnused`: nobody has used the ids of attempts to come.
`StagedEffect`: the holder of the lock works on the committed tables, and what it has
staged is the effect of its command on *them*; without it the commit could publish
anything. `TablesSound` is what effects keep true. The step everything hangs on is
`ApplyEffectSafe`: the label is looked up in the very tables the row is then written to.
In `Glossary` it is not, and there two racing editors do attach one label twice
(section 5). For the refinement `AloneInv` adds that the issue of a request in flight is
still open as it was read; then reads, locks and effects are stuttering steps of
`ReviewContract`, an answer without effect is `Refuse` or `Replay`, a commit is `Decide`.

**The glossary** (`Glossary_proofs`).

| Theorem | Statement |
|---|---|
| `GlossaryTypeCorrect` | `Spec => []TypeOK` |
| `GlossaryHasNoOrphans` | `Spec => []NoOrphanRows` |
| `PhysicalNamesUnique` | `Spec => []PhysicalNamesStayUnique` |
| `SerialEditsStayInStep` | `Spec => []SerialEditsKeepRowsInStep` |
| `VariantsGoWithConcepts` | `Spec => VariantsGoOnlyWithTheirConcept` |

`IInv` holds in every interleaving: ids of requests in flight are of their own and
unused, a concept that was read may be gone but its id does not come back
(`PastItsRead`), a label to be written is not blank. `SerialInv` is about requests that
do not overlap: what a request has read is still so (`ReadsStillTrue`), and rows and
tables agree. `GoodWrite` states once what a write may do, one lemma per operation
shows it, and `WriteKeeps` uses only that.

**The embedding index** (`EmbeddingIndex_proofs`), if `MaxRunning = 1`.

| Theorem | Statement |
|---|---|
| `EmbeddingTypeCorrect` | `Spec => []TypeOK` |
| `VectorsBelongToTheirRows` | `Spec => []VectorsMatchMetadata` |
| `StoredVectorsFit` | `Spec => []StoredDimensionsAgree` |
| `SuccessCoversAll` | `Spec => FinishedPassCoversAll` |
| `SuccessIsSearchable` | `Spec => FinishedPassIsSearchable` |

`WorkConsistent` ties the lists of a pass to what it read and to the rows it means to
reuse; `StageHolds` says what each commit has established for the next;
`NothingForgotten` is the argument for success: every document read is still in the
queue, is to be embedded, or has its vector, and a pass that still drops the table counts
no vector. `IdsSuffice` is needed for the type alone: the ids that `max(id) + 1` gives
out stay within one per pass and concept, so no id of the model ever runs out.

**The document index** (`DocumentIndex_proofs`), with runs that overlap.

| Theorem | Statement |
|---|---|
| `DocumentIndexTypeCorrect` | `Spec => []TypeOK` |
| `RowsKeepTheirRows` | `Spec => []RowsPointToRows` |
| `QuietIndexIsComplete` | `Spec => []QuietIndexComplete` |
| `UndisturbedCheckCovers` | `Spec => CheckCovers` |
| `UndisturbedReconcileRepairs` | `Spec => ReconcileRepairs`, if `PathsApart` |

`ChunksComing` is the invariant behind the third: as long as no run was cut short, what a
document lacks is still in some run's list. It is kept because every list is `Ordered` (a
document that is deleted is written later, its chunks come after it), which the proof
establishes for the lists that `CheckPlan` and `ReconcilePlan` work out, and of which
every rest of a list is again one. Facts about `FlattenSeq` are had from a least
counterexample, since induction is not available.

The last two say what a run has done that was `alone`, whatever earlier runs died of
or left. `OthersIdle` and `AloneActs` reduce their steps to the run's own.
`CheckOnCourse` is the invariant of a check: of all that follows from the text and the
glossary it read (`CheckWrites`, a *set*, against which the order of the plan and its
nested loops are proved), each write is in its list or in force (`Holds`). A write can only
undo another if both are for one row, and then they say the same
(`CheckWritesAgree`). For a reconcile, which deletes, `FileOnCourse` says of each file
that its old rows are still to be deleted or its rows are those of its text but for what is
on the list, and `SearchIsCurrent` that the search rows follow. It finds each file under
its own id only if no way to name a file is the relative path of another below the root:
`PathsApart`, which the instance of the run satisfies and without which the property is
false (section 5). `PathsKept` carries that to the paths stored.

**Migrations** (`Migrations_proofs`), any number of processes and interruptions.

| Theorem | Statement |
|---|---|
| `HistoryStaysTrue` | `Spec => []HistoryIsTrue` |
| `OpenMeansLatest` | `Spec => []OpenedAtLatest` |
| `RefusalTouchesNothing` | `Spec => RefusedIsUntouched` |

A process records a version long after it has executed its script. `RunsAreSound`
says what it relies on meanwhile (the history was verified, the versions behind it
are recorded, its earlier statements are in force), which others cannot take back,
because objects and versions only grow and no row's checksum changes. `RefusedFirst` says
that nobody is past the first test on a database without a history. `GotoSafe` is the one lemma for all
steps that leave the schema alone, and states what a process is `Entitled` to know at
each place.

**Serve** (`Serve_proofs`).

| Theorem | Statement |
|---|---|
| `ServeTypeCorrect` | `ServeSpec => []ServeTypeOK` |
| `ServeKeepsHistory` | `ServeSpec => []HistoryIsTrue` |
| `ServeOpensAtLatest` | `ServeSpec => []OpenedAtLatest` |
| `ChildrenAreStopped` | `ServeSpec => []NoChildLeftBehind` |

The invariant of `Migrations` carries over to a server that dies with its supervisor in
the middle of a migration. `ChildrenAreStopped` rests on `PlaceTellsChildren`: nothing
runs before the first start, and the server is gone when the supervisor turns to the
frontend.

**The jobs** (`Workbench_proofs`), which composes `Workspace`, `GraphExport`, `Explore`
and `TermAnalysis`, so that each theorem is about all jobs, editors and crashes together.

| Theorem | Statement |
|---|---|
| `WorkbenchTypeCorrect` | `Spec => []TypeOK` |
| `DirectoriesAreOfOnePiece` | `Spec => []ExportDirsAreOfOnePiece` |
| `QuietExportsAreComplete` | `Spec => QuietExportIsComplete` |
| `IssuesKeepToConcepts` | `Spec => []IssuesNameLiveConcepts` |
| `AttemptsAreReported` | `Spec => []AttemptsAgree` |
| `KnownTermsAreNoIssues` | `Spec => []KnownTermsRaiseNothing` |
| `TagScoresAreSums` | `Spec => []TagScoresAddUp` |
| `QuietContextsAreCurrent` | `Spec => QuietContextIsCurrent` |

`DirsOK` strengthens the first property of exports: *every file belongs to the export its
directory is named by, and what is whole among the remains of a dead export is what
repeating it writes*. `WithFileShape` is about a file that is written into its directory,
to its end or not. `GraphOK` says of an export at work that what it counts as
written is there and whole and something is left, and, while it is `alone`, that nodes and documents
are those of the active concepts; so its last file completes the directory. `AnalysisOK`
says that findings are rows of the right type (which needs `IssuesOK` through every
classifying operator, from `LifecycleIssuesTyped` to `CandidateIssueTyped`) and that before
the end of the extraction all outcomes are `"invalid"` and fewer than the attempts
allowed.
`KnownTermHasNoIssue` is the lemma about the classification itself.

`TagScoresAreSums` says that the two loops over concepts and embeddings compute the sums
that are meant, for any number of either. `LoopRuns` shows that such a loop has its values at all,
`Upwards` carries a fact from round to round, and `SumGrows` says that taking one more
element into a sum adds its value, in whatever order `SumFunction` takes them. `ScoringAddsUp`
is then one lemma for both loops: each round about a carrier of the tag has a key of its
own (the concept; for embeddings the position, since several may name one concept), and
what a tag has after `n` rounds is the sum over the keys met so far. `TagsOK` adds to
`IInv` what a suggestion has read: terms and scores of the right type, and a listing of
concepts.

`QuietContextsAreCurrent` needs to know where a context is. `ContextOK` says, of one that is
still `alone`, that while it searches its hits are different rows that are there
(`MergeKeeps`, from the same `LoopRuns`; the join with the tables is what makes it true, the
search rows may be of any age), and that while it loads there is one sequence of hits of
which the cards show the first `n`, each as its row is now, and of which the rest is left
(`ConceptsAt`, `IssuesAt`). So no card's row is missing, and when nothing is left every hit
has its card. That the groups hold all labels is `GroupsShowAll`, by cases over the types
and statuses of variants.

### Only model-checked

* Liveness: `WriteLockFreed`, `JobsEnd`, `EventuallyLatest`, `FirstExitStopsBoth`,
  `RefusedStopsServe`. Fairness and `ENABLED` are beyond the prover.

Sequences and numbers are handled without induction throughout: a least counterexample
(`LeastNatural`, from the well-foundedness of the naturals) takes its place.

## 7. What is not modelled

Not at all: the installer (one read and one write of another program's file), the
CLI shell and project discovery (printing and paths), and the frontend (a client of
the API, whose requests the reviewers of `ReviewQueue` and the editors of `Glossary`
send).

In part: where a label occurs in a text, parsing, normalisation and chunking (a text is
a set of labels or a sequence of chunks); ranking and distances (choices); search over
documents and evidence, and their cards; the watcher, which only polls; the detection
of an installed graphify runtime and the reading of stored snapshots, which change
nothing; the sqlite-vec backend, which the default construction never selects. Network
protocols, rendering and prompts are I/O and stay out.

## 8. Plan

Proofs still worth adding.

* `EmbeddingIndex` without `MaxRunning = 1`: what overlapping passes still keep (types, and
  dimensions as long as all passes resolve one provider).

Models still worth adding: `ReviewGlossary`, reviewers and editors on one store; two
overlapping passes on models of different dimension; occurrences and their
overlaps as a pure operator over bounded texts.
