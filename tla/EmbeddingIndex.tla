---------------------------- MODULE EmbeddingIndex ----------------------------
(***************************************************************************)
(* The index of concept embeddings: index_active_concept_embeddings with   *)
(* the metadata table `embeddings' and the JSON vector store behind it.    *)
(*                                                                         *)
(* A pass is run after every concept created through the API, by every     *)
(* document analysis and by every tag suggestion, each on its own          *)
(* connection.  It is not one transaction.  It                             *)
(*   reads the active concepts                         (Start),            *)
(*   looks each one up among the rows there are        (Lookup),           *)
(*   has the provider embed the others, off-line       (EmbedTexts),       *)
(*   makes the vector table fit the dimension, in      (EnsureCapability,  *)
(*   three steps if it does not: data definition        DropTable,         *)
(*   statements commit by themselves                    CreateTable,       *)
(*                                                      Configure),        *)
(*   and for each text reads the next free id          (AllocateId),       *)
(*   commits the metadata row                          (UpsertEmbedding),  *)
(*   looks at the capability                           (CheckCapability)   *)
(*   and commits the vector                            (UpsertVector).     *)
(* A pass that dies or finds the database busy leaves what it committed.   *)
(*                                                                         *)
(* A pass resolves the provider and the model first, from the environment, *)
(* the project's settings and the user's auth file, which                  *)
(* `doc2dic config embedding' saves one after the other.                   *)
(*                                                                         *)
(* A content hash stands for the model and the text it is made of, and a   *)
(* vector for the content it was computed from and the provider who did.   *)
(* A provider has one model here, its default, and one dimension.          *)
(***************************************************************************)
EXTENDS Naturals, FiniteSets, FiniteSetsExt, Functions

CONSTANTS
    None,
    NumConcepts,    \* concept ids are numbers here: they come `order by id'
    Texts,          \* what the document of a concept may say
    Dimension,      \* provider -> the dimension of its vectors
    DefaultModel,   \* provider -> the name of its model
    Mock,           \* the provider without any configuration
    Overrides,      \* what DOC2DIC_EMBEDDING_PROVIDER may say, None if it is not set
    Indexers,       \* connections that may run a pass
    MaxRunning,     \* bound: passes that overlap
    MaxPasses,      \* bound: passes in a behaviour
    MaxChanges      \* bound: edits of concepts and commands to configure

Providers == DOMAIN Dimension

Models == Range(DefaultModel)

Contents == [model : Models, text : Texts]

Concepts == 1 .. NumConcepts

ASSUME ProvidersAssumption ==
    /\ DOMAIN DefaultModel = Providers /\ Mock \in Providers
    /\ Overrides \subseteq Providers \cup {None}
    /\ \A p \in Providers : Dimension[p] \in Nat \ {0}

\* No two providers of different dimensions have one default model.
ASSUME ModelsAssumption ==
    \A p, q \in Providers :
        DefaultModel[p] = DefaultModel[q] => Dimension[p] = Dimension[q]

ASSUME BoundsAssumption ==
    /\ {NumConcepts, MaxRunning, MaxPasses, MaxChanges} \subseteq Nat
    /\ IsFiniteSet(Indexers)

\* Every pass makes at most one row per concept.
Ids == 1 .. MaxPasses * NumConcepts

\* No row yet, where the code has a Python None.
NoId == 0

EmbeddingRows == [owner : Concepts, content : Contents]

VectorRows == [content : Contents, provider : Providers]

NoVectors == [id \in Ids |-> None]

ASSUME NoneAssumption ==
    /\ None \notin Texts \cup Providers /\ None \notin Models /\ None \notin Range(Dimension)
    /\ None \notin EmbeddingRows /\ None \notin VectorRows
    /\ None \notin [Ids -> VectorRows \cup {None}]

VARIABLES
    docs,       \* concept -> the text of its document, or None if not active
    settings,   \* settings embedding.provider and embedding.model
    auth,       \* provider and model in the user's auth file
    saving,     \* the command that is saving a provider, and what comes next
    mixed,      \* history: a pass used one provider under the name of another's model
    meta,       \* table embeddings: id -> [owner, content], or None
    vectors,    \* table embedding_vectors: id -> [content, provider] or None;
                \* None if dropped
    dimension,  \* setting embedding_vectors_dimension, or None
    enabled,    \* setting embedding_vectors_enabled is "true"
    pc,         \* where each pass is
    work,       \* what it has in its hands
    reply,      \* how the last pass of each indexer ended
    passes,     \* passes started so far
    changes     \* edits and switches so far

config == <<settings, auth, saving>>

vars == <<docs, config, mixed, meta, vectors, dimension, enabled, pc, work, reply,
          passes, changes>>

Stages ==
    {"idle", "lookup", "clear", "embed", "ensure", "drop", "create",
     "configure", "first", "allocate", "upsert", "check", "store"}

Document == [concept : Concepts, text : Texts]

\* A pending document and the id of the row it already has, if any.
Pending == [concept : Concepts, text : Texts, existing : Ids \cup {NoId}]

\* What a pass has in its hands: the documents it has read, those it has still
\* to look up, those it has to embed, and the id it is working on.
Work == [provider : Providers \cup {None}, model : Models \cup {None},
         seen : SUBSET Document, queue : SUBSET Document, pending : SUBSET Pending,
         id : Ids \cup {NoId}]

NoWork == [provider |-> None, model |-> None, seen |-> {}, queue |-> {},
           pending |-> {}, id |-> NoId]

Environment == <<docs, config, mixed, passes, changes>>

Tables == <<meta, vectors, dimension, enabled>>

\* A provider with its own model: what is saved, and the defaults of the auth
\* file.
ModelOf(provider) == [provider |-> provider, model |-> DefaultModel[provider]]

NotSaving == [provider |-> None, next |-> "none"]

Init ==
    /\ docs \in [Concepts -> Texts \cup {None}]
    /\ settings = [provider |-> None, model |-> None]
    /\ auth = ModelOf(Mock)
    /\ saving = NotSaving
    /\ mixed = FALSE
    /\ meta = [id \in Ids |-> None]
    /\ vectors = NoVectors
    /\ dimension = None
    /\ enabled = FALSE
    /\ pc = [i \in Indexers |-> "idle"]
    /\ work = [i \in Indexers |-> NoWork]
    /\ reply = [i \in Indexers |-> None]
    /\ passes = 0
    /\ changes = 0

-----------------------------------------------------------------------------
(***************************************************************************)
(* The configuration: services/embedding_config.py.                        *)
(***************************************************************************)
\* The first that is set; the auth file always names a provider.
ResolvedProvider(override) ==
    IF override # None THEN override
    ELSE IF settings.provider # None THEN settings.provider
    ELSE auth.provider

\* Mutant: the model of the auth file is taken, whoever's it is.
ResolvedModelOfAuthFile(provider) ==
    IF settings.model # None THEN settings.model ELSE auth.model

\* The project's model goes first, whatever the provider is.
ResolvedModel(provider) ==
    IF settings.model # None THEN settings.model
    ELSE IF auth.provider = provider THEN auth.model
    ELSE DefaultModel[provider]

\* The project's settings name another provider's model: the environment
\* overrides them, or they are half saved.
ForeignModelConfigured(override) ==
    settings.model \notin {None, DefaultModel[ResolvedProvider(override)]}

\* `doc2dic config embedding use', and the wizard: three commits.
ConfigureEmbedding ==
    /\ changes < MaxChanges
    /\ changes' = changes + 1
    /\ saving = NotSaving
    /\ \E p \in Providers : saving' = [provider |-> p, next |-> "provider"]
    /\ UNCHANGED <<docs, settings, auth, mixed, passes, pc, work, reply, Tables>>

SaveStep(this, next) ==
    /\ saving.next = this
    /\ saving' = IF next = "none" THEN NotSaving ELSE [saving EXCEPT !.next = next]
    /\ UNCHANGED <<docs, mixed, passes, changes, pc, work, reply, Tables>>

SaveProvider ==
    /\ SaveStep("provider", "model")
    /\ settings' = [settings EXCEPT !.provider = saving.provider]
    /\ UNCHANGED auth

SaveModel ==
    /\ SaveStep("model", "auth")
    /\ settings' = [settings EXCEPT !.model = DefaultModel[saving.provider]]
    /\ UNCHANGED auth

SaveAuthFile ==
    /\ SaveStep("auth", "none")
    /\ auth' = ModelOf(saving.provider)
    /\ UNCHANGED settings

\* The command dies, or finds the database busy or the file read-only.
SaveFails ==
    /\ saving # NotSaving
    /\ saving' = NotSaving
    /\ UNCHANGED <<docs, settings, auth, mixed, passes, changes, pc, work, reply, Tables>>

-----------------------------------------------------------------------------
\* Concepts that are not active have no text.
ActiveDocuments == {document \in Document : docs[document.concept] = document.text}

\* Documents are taken in the order of their concepts' ids.
First(documents) ==
    CHOOSE d \in documents : \A e \in documents : d.concept <= e.concept

Row(document, m) ==
    [owner |-> document.concept, content |-> [model |-> m, text |-> document.text]]

\* find_existing_embedding: the newest row of this owner, model and hash.
FindExisting(document, m) ==
    LET rows == {id \in Ids : meta[id] = Row(document, m)}
    IN  IF rows = {} THEN NoId ELSE Max(rows)

\* Mutant: coalesce(max(id), 0), without the addition.
LargestId == Max({id \in Ids : meta[id] # None} \cup {0})

\* Mutant: coalesce(max(id), 1), so the newest row's id is handed out again.
NewestIdAgain == Max({id \in Ids : meta[id] # None} \cup {1})

NextEmbeddingId == Max({id \in Ids : meta[id] # None} \cup {0}) + 1

\* The pending document whose turn it is.
Current(i) == First(work[i].pending)

Finish(i, answer) ==
    /\ pc' = [pc EXCEPT ![i] = "idle"]
    /\ work' = [work EXCEPT ![i] = NoWork]
    /\ reply' = [reply EXCEPT ![i] = answer]

Goto(i, stage, newWork) ==
    /\ pc' = [pc EXCEPT ![i] = stage]
    /\ work' = [work EXCEPT ![i] = newWork]
    /\ UNCHANGED reply

-----------------------------------------------------------------------------
(***************************************************************************)
(* One pass.                                                               *)
(***************************************************************************)
Start(i) ==
    /\ pc[i] = "idle"
    /\ passes < MaxPasses
    /\ Cardinality({j \in Indexers : pc[j] # "idle"}) < MaxRunning
    /\ passes' = passes + 1
    /\ \E override \in Overrides :
          LET provider == ResolvedProvider(override)
          IN  /\ mixed' = (mixed \/ ForeignModelConfigured(override))
              /\ IF ActiveDocuments = {}
                 THEN Finish(i, "indexed")
                 ELSE Goto(i, "lookup", [NoWork EXCEPT !.provider = provider,
                                                       !.model = ResolvedModel(provider),
                                                       !.seen  = ActiveDocuments,
                                                       !.queue = ActiveDocuments])
    /\ UNCHANGED <<docs, config, changes, Tables>>

\* The next document is looked up, or the pass goes on to embed what is left.
Proceed(i, newWork) ==
    IF newWork.queue # {} THEN Goto(i, "lookup", newWork)
    ELSE IF newWork.pending = {} THEN Finish(i, "indexed")
    ELSE Goto(i, "embed", newWork)

Entry(document, existing) ==
    [concept |-> document.concept, text |-> document.text, existing |-> existing]

\* The document that is looked up is to be embedded, or its embedding is reused.
NextLookup(i) == First(work[i].queue)

Dequeued(i, existing) ==
    [work[i] EXCEPT !.queue = @ \ {NextLookup(i)},
                    !.pending = @ \cup {Entry(NextLookup(i), existing)}]

Reused(i) == [work[i] EXCEPT !.queue = @ \ {NextLookup(i)}]

\* Mutant: a row of metadata is taken for an embedding.
LookupTrustsMetadata(i) ==
    /\ pc[i] = "lookup"
    /\ LET existing == FindExisting(NextLookup(i), work[i].model)
       IN  IF existing = NoId
           THEN Proceed(i, Dequeued(i, NoId))
           ELSE Proceed(i, Reused(i))
    /\ UNCHANGED <<Environment, Tables>>

\* _partition_reusable, one document.
Lookup(i) ==
    /\ pc[i] = "lookup"
    /\ LET existing == FindExisting(NextLookup(i), work[i].model)
       IN  IF existing = NoId
           THEN Proceed(i, Dequeued(i, NoId))
           ELSE IF vectors = None
           THEN Goto(i, "clear", [work[i] EXCEPT !.id = existing])
           ELSE IF vectors[existing] = None
           THEN Proceed(i, Dequeued(i, existing))
           ELSE Proceed(i, Reused(i))
    /\ UNCHANGED <<Environment, Tables>>

\* _clear_vector_capability_settings, once the table was seen to be missing.
ClearSettings(i) ==
    /\ pc[i] = "clear"
    /\ dimension' = None
    /\ enabled' = FALSE
    /\ Proceed(i, Dequeued(i, work[i].id))
    /\ UNCHANGED <<Environment, meta, vectors>>

\* The provider answers, or fails, or returns another number of vectors.
EmbedTexts(i) ==
    /\ pc[i] = "embed"
    /\ \/ Goto(i, "ensure", work[i])
       \/ Finish(i, "disabled")
    /\ UNCHANGED <<Environment, Tables>>

\* Mutant: a table that is there is kept, whatever its dimension.
EnsureCapabilityKeepsTable(i) ==
    /\ pc[i] = "ensure"
    /\ IF vectors = None
       THEN Goto(i, "drop", work[i])
       ELSE Goto(i, "configure", work[i])
    /\ UNCHANGED <<Environment, Tables>>

EnsureCapability(i) ==
    /\ pc[i] = "ensure"
    /\ IF dimension # Dimension[work[i].provider] \/ vectors = None
       THEN Goto(i, "drop", work[i])
       ELSE Goto(i, "first", work[i])
    /\ UNCHANGED <<Environment, Tables>>

DropTable(i) ==
    /\ pc[i] = "drop"
    /\ vectors' = None
    /\ Goto(i, "create", work[i])
    /\ UNCHANGED <<Environment, meta, dimension, enabled>>

\* Another pass may have created the table in between: an error.
CreateTable(i) ==
    /\ pc[i] = "create"
    /\ IF vectors = None
       THEN vectors' = NoVectors /\ Goto(i, "configure", work[i])
       ELSE Finish(i, "failed") /\ UNCHANGED vectors
    /\ UNCHANGED <<Environment, meta, dimension, enabled>>

Configure(i) ==
    /\ pc[i] = "configure"
    /\ dimension' = Dimension[work[i].provider]
    /\ enabled' = TRUE
    /\ Goto(i, "allocate", work[i])
    /\ UNCHANGED <<Environment, meta, vectors>>

IdFor(i) ==
    IF Current(i).existing = NoId THEN NextEmbeddingId ELSE Current(i).existing

\* When the table fitted, the setting is written without a commit: the first
\* id is then read, and the first metadata row written, in one transaction.
FirstEmbedding(i) ==
    /\ pc[i] = "first"
    /\ enabled' = TRUE
    /\ meta' = [meta EXCEPT ![IdFor(i)] = Row(Current(i), work[i].model)]
    /\ Goto(i, "check", [work[i] EXCEPT !.id = IdFor(i)])
    /\ UNCHANGED <<Environment, vectors, dimension>>

\* next_embedding_id, in autocommit.
AllocateId(i) ==
    /\ pc[i] = "allocate"
    /\ Goto(i, "upsert", [work[i] EXCEPT !.id = IdFor(i)])
    /\ UNCHANGED <<Environment, Tables>>

\* insert ... on conflict(id) do update: the row that is there is overwritten.
UpsertEmbedding(i) ==
    /\ pc[i] = "upsert"
    /\ meta' = [meta EXCEPT ![work[i].id] = Row(Current(i), work[i].model)]
    /\ Goto(i, "check", work[i])
    /\ UNCHANGED <<Environment, vectors, dimension, enabled>>

\* The next pending document, or the end of the pass.
NextDocument(i) ==
    IF work[i].pending = {Current(i)}
    THEN Finish(i, "indexed")
    ELSE Goto(i, "allocate", [work[i] EXCEPT !.pending = @ \ {Current(i)}])

\* VectorStore.upsert_vector up to its write: a vector that does not fit is
\* passed over in silence, and the pass goes on.
CheckCapability(i) ==
    /\ pc[i] = "check"
    /\ IF enabled /\ dimension = Dimension[work[i].provider]
       THEN Goto(i, "store", work[i])
       ELSE NextDocument(i)
    /\ UNCHANGED <<Environment, Tables>>

UpsertVector(i) ==
    /\ pc[i] = "store"
    /\ IF vectors = None
       THEN Finish(i, "failed") /\ UNCHANGED vectors
       ELSE /\ vectors' = [vectors EXCEPT ![work[i].id] =
                              [content  |-> Row(Current(i), work[i].model).content,
                               provider |-> work[i].provider]]
            /\ NextDocument(i)
    /\ UNCHANGED <<Environment, meta, dimension, enabled>>

\* The process dies, or a write finds the database busy.
Crash(i) ==
    /\ pc[i] # "idle"
    /\ Finish(i, "failed")
    /\ UNCHANGED <<Environment, Tables>>

-----------------------------------------------------------------------------
\* A concept is created, rewritten, deprecated or deleted.  Its embeddings stay:
\* nothing refers from them to the concept.
EditConcept(c) ==
    /\ changes < MaxChanges
    /\ changes' = changes + 1
    /\ \E text \in Texts \cup {None} : docs' = [docs EXCEPT ![c] = text]
    /\ UNCHANGED <<config, mixed, passes, pc, work, reply, Tables>>

Step(i) ==
    \/ Start(i) \/ Lookup(i) \/ ClearSettings(i) \/ EmbedTexts(i)
    \/ EnsureCapability(i) \/ DropTable(i) \/ CreateTable(i) \/ Configure(i)
    \/ FirstEmbedding(i) \/ AllocateId(i) \/ UpsertEmbedding(i)
    \/ CheckCapability(i) \/ UpsertVector(i) \/ Crash(i)

Next ==
    \/ \E i \in Indexers : Step(i)
    \/ \E c \in Concepts : EditConcept(c)
    \/ ConfigureEmbedding \/ SaveProvider \/ SaveModel \/ SaveAuthFile \/ SaveFails

Spec == Init /\ [][Next]_vars

-----------------------------------------------------------------------------
(***************************************************************************)
(* Properties.                                                             *)
(***************************************************************************)
\* Every variable has its type.
TypeOK ==
    /\ docs \in [Concepts -> Texts \cup {None}]
    /\ settings \in [provider : Providers \cup {None}, model : Models \cup {None}]
    /\ auth \in [provider : Providers, model : Models]
    /\ saving \in [provider : Providers, next : {"provider", "model", "auth"}] \cup {NotSaving}
    /\ mixed \in BOOLEAN
    /\ meta \in [Ids -> EmbeddingRows \cup {None}]
    /\ vectors \in [Ids -> VectorRows \cup {None}] \cup {None}
    /\ dimension \in Range(Dimension) \cup {None}
    /\ enabled \in BOOLEAN
    /\ pc \in [Indexers -> Stages]
    /\ work \in [Indexers -> Work]
    /\ \A i \in Indexers : pc[i] \in {"upsert", "check", "store"} => work[i].id \in Ids
    /\ reply \in [Indexers -> {"indexed", "disabled", "failed", None}]
    /\ passes \in 0 .. MaxPasses
    /\ changes \in 0 .. MaxChanges

HasVector(id) == vectors # None /\ vectors[id] # None

\* "Vector payload aligned to an embedding metadata row.": the vector stored
\* under an id was computed from the content its metadata row names, so a
\* search hit leads to the right concept.
VectorsMatchMetadata ==
    \A id \in Ids :
        HasVector(id) => meta[id] # None /\ vectors[id].content = meta[id].content

\* The same, asked only when every pass is over and has reported success: what
\* is wrong then is wrong for good, because later passes reuse what they find.
SuccessfulPassesAgree ==
    (\A i \in Indexers : pc[i] = "idle" /\ reply[i] = "indexed")
    => VectorsMatchMetadata

\* Whatever passes died where, the stored vectors all have the configured
\* dimension: one that had not would make every search raise.
StoredDimensionsAgree ==
    \A id \in Ids :
        HasVector(id) => enabled /\ dimension = Dimension[vectors[id].provider]

\* The document has a row and a vector of its own.
Indexed(document, m) ==
    \E id \in Ids : meta'[id] = Row(document, m)
                    /\ vectors' # None /\ vectors'[id] # None
                    /\ vectors'[id].content = Row(document, m).content

\* A pass that reports success has covered every concept it had read as
\* active, those it counts as reused included: also after passes that died
\* between a metadata row and its vector, or between two statements of the
\* table's definition.  It takes that no pass found another provider's model in
\* the project's settings: rows are reused by the model's name, and the table is
\* then rebuilt for the others, without those it has reused.
FinishedPassCoversAll ==
    [][\A i \in Indexers :
          pc[i] # "idle" /\ pc'[i] = "idle" /\ reply'[i] = "indexed" /\ ~ mixed
          => \A document \in work[i].seen : Indexed(document, work[i].model)]_vars

\* After a pass that reports success a search works: the table has the
\* dimension of the provider that will embed the query, also when all was
\* reused, whichever providers were used before, and whatever of a
\* configuration was saved, with the same exception.
FinishedPassIsSearchable ==
    [][\A i \in Indexers :
          pc[i] # "idle" /\ pc'[i] = "idle" /\ reply'[i] = "indexed" /\ ~ mixed
          => enabled' /\ dimension' = Dimension[work[i].provider]]_vars
=============================================================================
