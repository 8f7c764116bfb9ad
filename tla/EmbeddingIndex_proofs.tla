------------------------- MODULE EmbeddingIndex_proofs -------------------------
(***************************************************************************)
(* Proofs about EmbeddingIndex when passes run one at a time (MaxRunning = *)
(* 1, as in one process without background jobs): whatever crashes, edits  *)
(* and configurations come between, vectors belong to their metadata rows  *)
(* and have the configured dimension; and a pass that reports success has  *)
(* covered what it read and left an index that can be searched, unless     *)
(* some pass took one provider's model for another's.                      *)
(***************************************************************************)
EXTENDS EmbeddingIndex, TLAPS, WellFoundedInduction, FiniteSetTheorems

Running(i) == pc[i] # "idle"

\* The ids in use are at most n.
RowsUpTo(n) == \A id \in Ids : meta[id] # None => id <= n

\* Ids that the passes before this one may have used.
Before == (passes - 1) * NumConcepts

Entered(document, pending) ==
    \E entry \in pending :
        entry.concept = document.concept /\ entry.text = document.text

\* The document has a row and its vector.
Stored(document, m) ==
    \E id \in Ids : meta[id] = Row(document, m) /\ HasVector(id)

\* The table is there and fits the provider.
Fits(w) == vectors # None /\ dimension = Dimension[w.provider]

-----------------------------------------------------------------------------
(***************************************************************************)
(* The inductive invariant: of the tables, and of the pass that runs.      *)
(***************************************************************************)
\* What a pass has in its hands is consistent with itself and with the rows.
WorkConsistent(stage, w) ==
    /\ w.provider \in Providers /\ w.model \in Models
    /\ w.seen # {} /\ w.queue \subseteq w.seen
    /\ \A d, e \in w.seen : d.concept = e.concept => d = e
    /\ \A p, q \in w.pending : p.concept = q.concept => p = q
    /\ \A p \in w.pending :
          /\ \E d \in w.seen \ w.queue : d.concept = p.concept /\ d.text = p.text
          /\ p.existing # NoId => meta[p.existing] = Row(p, w.model)
    /\ IF stage \in {"lookup", "clear"} THEN w.queue # {}
       ELSE w.queue = {} /\ w.pending # {}

\* What holds between two steps of a pass: no other pass runs.
StageHolds(stage, w) ==
    /\ stage = "clear" => vectors = None /\ w.id \in Ids
                          /\ meta[w.id] = Row(First(w.queue), w.model)
    /\ stage = "create" => vectors = None
    /\ stage = "configure" => vectors = NoVectors
    /\ stage = "first" => Fits(w)
    /\ stage \in {"allocate", "upsert", "check", "store"} => Fits(w) /\ enabled
    /\ stage = "upsert" => meta[w.id] \in {None, Row(First(w.pending), w.model)}
    /\ stage \in {"check", "store"} => meta[w.id] = Row(First(w.pending), w.model)

\* Each pass uses at most one new id per concept, in the order of the concepts.
IdsSuffice(stage, w) ==
    /\ passes >= 1
    /\ stage \in {"lookup", "clear", "embed", "ensure", "drop", "create", "configure", "first"}
       => RowsUpTo(Before)
    /\ stage \in {"allocate", "upsert"} => RowsUpTo(Before + First(w.pending).concept - 1)
    /\ stage = "upsert" => w.id <= Before + First(w.pending).concept
    /\ stage \in {"check", "store"} => RowsUpTo(Before + First(w.pending).concept)

\* Every document the pass has read is still to be looked up, is to be
\* embedded, or has its vector; and if one has, the table is not rebuilt.
NothingForgotten(stage, w) ==
    ~mixed =>
        /\ w.model = DefaultModel[w.provider]
        /\ \A d \in w.seen :
              \/ d \in w.queue
              \/ Entered(d, w.pending)
              \/ Stored(d, w.model) /\ stage \notin {"drop", "create", "configure"}

PassOK(stage, w) ==
    /\ WorkConsistent(stage, w)
    /\ StageHolds(stage, w)
    /\ IdsSuffice(stage, w)
    /\ NothingForgotten(stage, w)

OnePass == \A i, j \in Indexers : Running(i) /\ Running(j) => i = j

\* The auth file names a provider with its own model, and so does each vector
\* unless a pass has used a foreign model.
ModelsAreOwn ==
    /\ auth.model = DefaultModel[auth.provider]
    /\ ~mixed => \A id \in Ids :
          HasVector(id) => vectors[id].content.model = DefaultModel[vectors[id].provider]

TablesAgree == VectorsMatchMetadata /\ StoredDimensionsAgree /\ ModelsAreOwn

IInv ==
    /\ TypeOK
    /\ OnePass
    /\ TablesAgree
    /\ (\A i \in Indexers : ~Running(i)) => RowsUpTo(passes * NumConcepts)
    /\ \A i \in Indexers : Running(i) => PassOK(pc[i], work[i])

-----------------------------------------------------------------------------
(***************************************************************************)
(* Least and largest elements.                                             *)
(***************************************************************************)
LEMMA LeastNatural ==
    ASSUME NEW S, S \subseteq Nat, S # {}
    PROVE  \E x \in S : \A y \in S : x <= y
<1>1. PICK x \in S : \A y \in S : ~(<<y, x>> \in OpToRel(<, Nat))
  BY NatLessThanWellFounded, WFMin
<1>2. \A y \in S : ~(y < x)
  <2> SUFFICES ASSUME NEW y \in S, y < x PROVE FALSE
    OBVIOUS
  <2>1. <<y, x>> \in Nat \X Nat /\ <<y, x>>[1] < <<y, x>>[2]
    OBVIOUS
  <2>2. <<y, x>> \in OpToRel(<, Nat)
    BY <2>1 DEF OpToRel
  <2> QED BY <1>1, <2>2
<1> QED BY <1>2

LEMMA LargestNatural ==
    ASSUME NEW n \in Nat, NEW S, S \subseteq 0 .. n, S # {}
    PROVE  Max(S) \in S /\ \A y \in S : Max(S) >= y
<1> DEFINE T == {n - x : x \in S}
<1>1. T \subseteq Nat /\ T # {}
  <2>1. \A x \in S : n - x \in Nat
    OBVIOUS
  <2> QED BY <2>1
<1>2. PICK t \in T : \A u \in T : t <= u
  BY <1>1, LeastNatural
<1>3. PICK x \in S : t = n - x
  BY <1>2
<1>4. \A y \in S : x >= y
  <2> TAKE y \in S
  <2>1. n - y \in T
    OBVIOUS
  <2>2. n - x <= n - y
    BY <1>2, <1>3, <2>1
  <2> QED BY <2>2
<1> QED BY <1>4 DEF Max

\* The document whose turn it is, among documents with their concepts.
LEMMA FirstIsLeast ==
    ASSUME NEW S, S # {}, \A d \in S : d.concept \in Concepts
    PROVE  First(S) \in S /\ \A d \in S : First(S).concept <= d.concept
<1> DEFINE T == {d.concept : d \in S}
<1>1. T \subseteq Nat /\ T # {}
  BY BoundsAssumption DEF Concepts
<1>2. PICK t \in T : \A u \in T : t <= u
  BY <1>1, LeastNatural
<1>3. PICK d \in S : t = d.concept
  BY <1>2
<1>4. \A e \in S : d.concept <= e.concept
  BY <1>2, <1>3
<1> QED BY <1>4 DEF First

LEMMA IdsAreNatural == MaxPasses * NumConcepts \in Nat /\ Ids \subseteq Nat \ {NoId}
  BY BoundsAssumption DEF Ids, NoId

\* A row that is found is a row of the document, under an id of its own.
LEMMA FoundRow ==
    ASSUME NEW document, NEW m, FindExisting(document, m) # NoId
    PROVE  /\ FindExisting(document, m) \in Ids
           /\ meta[FindExisting(document, m)] = Row(document, m)
<1> DEFINE rows == {id \in Ids : meta[id] = Row(document, m)}
<1>1. rows # {} /\ FindExisting(document, m) = Max(rows)
  BY DEF FindExisting
<1>2. rows \subseteq 0 .. MaxPasses * NumConcepts
  BY IdsAreNatural DEF Ids
<1>3. Max(rows) \in rows
  BY <1>1, <1>2, IdsAreNatural, LargestNatural
<1> QED BY <1>1, <1>3

\* A new id is in use by no row, and next to the last one that is.
LEMMA NewIdIsNew ==
    ASSUME NEW n \in Nat, RowsUpTo(n)
    PROVE  /\ NextEmbeddingId \in 1 .. n + 1
           /\ NextEmbeddingId \in Ids => meta[NextEmbeddingId] = None
<1> DEFINE used == {id \in Ids : meta[id] # None} \cup {0}
<1>1. used \subseteq 0 .. MaxPasses * NumConcepts /\ used # {}
  BY IdsAreNatural DEF Ids
<1>2. Max(used) \in used /\ \A y \in used : Max(used) >= y
  BY <1>1, IdsAreNatural, LargestNatural
<1>3. NextEmbeddingId = Max(used) + 1
  BY DEF NextEmbeddingId
<1> HIDE DEF used
<1>4. Max(used) \in Nat /\ Max(used) <= n
  BY <1>1, <1>2, IdsAreNatural DEF used, RowsUpTo
<1>5. NextEmbeddingId \in Ids => NextEmbeddingId \notin used
  BY <1>2, <1>3, <1>4
<1> QED BY <1>3, <1>4, <1>5 DEF used

\* The ids of this pass are ids of the model.
LEMMA IdsOfThisPass ==
    ASSUME passes \in 1 .. MaxPasses
    PROVE  /\ Before \in Nat
           /\ Before + NumConcepts = passes * NumConcepts
           /\ \A k \in 0 .. Before + NumConcepts : k \in Ids \cup {NoId}
<1>1. NumConcepts \in Nat /\ MaxPasses \in Nat /\ passes - 1 \in Nat
  BY BoundsAssumption
<1>2. Before \in Nat /\ Before + NumConcepts = passes * NumConcepts
  BY <1>1 DEF Before
<1>3. passes * NumConcepts <= MaxPasses * NumConcepts
  BY <1>1
<1> QED BY <1>1, <1>2, <1>3, IdsAreNatural DEF Ids, NoId

-----------------------------------------------------------------------------
(***************************************************************************)
(* How a step of one pass changes the state.                               *)
(***************************************************************************)
\* The two ways in which a step ends, pass by pass.
LEMMA GotoShape ==
    ASSUME TypeOK, NEW i \in Indexers, NEW stage \in Stages, NEW w \in Work,
           Goto(i, stage, w)
    PROVE  /\ pc'[i] = stage /\ work'[i] = w
           /\ \A j \in Indexers \ {i} : pc'[j] = pc[j] /\ work'[j] = work[j]
           /\ pc' \in [Indexers -> Stages] /\ work' \in [Indexers -> Work]
           /\ reply' \in [Indexers -> {"indexed", "disabled", "failed", None}]
  BY DEF Goto, TypeOK

LEMMA FinishShape ==
    ASSUME TypeOK, NEW i \in Indexers, NEW answer \in {"indexed", "disabled", "failed"},
           Finish(i, answer)
    PROVE  /\ pc'[i] = "idle" /\ reply'[i] = answer
           /\ \A j \in Indexers \ {i} : pc'[j] = pc[j] /\ work'[j] = work[j]
           /\ pc' \in [Indexers -> Stages] /\ work' \in [Indexers -> Work]
           /\ reply' \in [Indexers -> {"indexed", "disabled", "failed", None}]
<1>1. NoWork \in Work
  BY DEF NoWork, Work
<1> QED BY <1>1 DEF Finish, TypeOK, Stages

\* What is known of the pass that runs, at the start of a step.
LEMMA TheRunningPass ==
    ASSUME IInv, NEW i \in Indexers, Running(i)
    PROVE  /\ PassOK(pc[i], work[i])
           /\ work[i] \in Work
           /\ \A j \in Indexers \ {i} : ~Running(j)
           /\ passes \in 1 .. MaxPasses
  BY BoundsAssumption DEF IInv, TypeOK, OnePass, PassOK, IdsSuffice

LEMMA FirstPending ==
    ASSUME IInv, NEW i \in Indexers, Running(i), work[i].pending # {}
    PROVE  /\ Current(i) \in work[i].pending /\ Current(i) \in Pending
           /\ \A p \in work[i].pending : Current(i).concept <= p.concept
           /\ Current(i).concept \in 1 .. NumConcepts
           /\ Row(Current(i), work[i].model) \in EmbeddingRows
<1>1. work[i].pending \subseteq Pending /\ work[i].model \in Models
  BY TheRunningPass DEF Work, PassOK, WorkConsistent
<1>2. \A p \in work[i].pending : p.concept \in Concepts /\ p.text \in Texts
  BY <1>1 DEF Pending
<1>3. Current(i) \in work[i].pending
      /\ \A p \in work[i].pending : Current(i).concept <= p.concept
  BY <1>2, FirstIsLeast DEF Current
<1> QED BY <1>1, <1>2, <1>3 DEF Row, EmbeddingRows, Contents, Concepts

\* A step of the pass that runs, after which it still runs.
LEMMA StillRunning ==
    ASSUME IInv, NEW i \in Indexers, Running(i),
           \A j \in Indexers \ {i} : pc'[j] = pc[j] /\ work'[j] = work[j],
           pc'[i] # "idle", TypeOK', TablesAgree', PassOK(pc[i], work[i])'
    PROVE  IInv'
<1>1. \A j \in Indexers : Running(j)' => j = i
  BY TheRunningPass DEF Running
<1> QED BY <1>1 DEF IInv, OnePass, Running

\* A step after which no pass runs.
LEMMA NoLongerRunning ==
    ASSUME IInv, NEW i \in Indexers, Running(i), UNCHANGED <<meta, passes>>,
           \A j \in Indexers \ {i} : pc'[j] = pc[j] /\ work'[j] = work[j],
           pc'[i] = "idle", TypeOK', TablesAgree'
    PROVE  IInv'
<1>1. \A j \in Indexers : ~Running(j)'
  BY TheRunningPass DEF Running
<1>2. PassOK(pc[i], work[i]) /\ work[i] \in Work /\ passes \in 1 .. MaxPasses
  BY TheRunningPass
<1>3. RowsUpTo(passes * NumConcepts)
  <2>1. /\ Before \in Nat /\ Before + NumConcepts = passes * NumConcepts
        /\ NumConcepts \in Nat
    BY <1>2, IdsOfThisPass, BoundsAssumption
  <2>2. ASSUME NEW n \in Nat, RowsUpTo(n), n <= Before + NumConcepts
        PROVE  RowsUpTo(passes * NumConcepts)
    BY <2>1, <2>2, IdsAreNatural DEF RowsUpTo
  <2>3. CASE pc[i] \in {"lookup", "clear", "embed", "ensure", "drop", "create",
                        "configure", "first"}
    BY <1>2, <2>1, <2>2, <2>3 DEF PassOK, IdsSuffice
  <2>4. CASE pc[i] \in {"allocate", "upsert", "check", "store"}
    <3>1. First(work[i].pending).concept \in 1 .. NumConcepts
      BY <1>2, <2>4, FirstPending DEF PassOK, WorkConsistent, Current
    <3>2. RowsUpTo(Before + First(work[i].pending).concept - 1)
          \/ RowsUpTo(Before + First(work[i].pending).concept)
      BY <1>2, <2>4 DEF PassOK, IdsSuffice
    <3> QED BY <2>1, <2>2, <3>1, <3>2
  <2> QED BY <2>3, <2>4 DEF IInv, TypeOK, Stages, Running
<1>4. RowsUpTo(passes * NumConcepts)'
  BY <1>3 DEF RowsUpTo
<1> QED BY <1>1, <1>4 DEF IInv, OnePass

\* Steps that leave the tables alone leave them in agreement.
LEMMA SameTables ==
    ASSUME TablesAgree, UNCHANGED <<auth, mixed, Tables>>
    PROVE  TablesAgree'
  BY DEF TablesAgree, VectorsMatchMetadata, StoredDimensionsAgree, ModelsAreOwn, HasVector,
         Tables

-----------------------------------------------------------------------------
(***************************************************************************)
(* Looking the documents up.                                               *)
(***************************************************************************)
LEMMA NextLookupIsQueued ==
    ASSUME IInv, NEW i \in Indexers, pc[i] \in {"lookup", "clear"}
    PROVE  /\ Running(i) /\ NextLookup(i) \in work[i].queue
           /\ NextLookup(i) \in Document /\ NextLookup(i) \in work[i].seen
           /\ NextLookup(i) = First(work[i].queue)
<1>1. Running(i) /\ work[i].queue \subseteq Document
      /\ work[i].queue \subseteq work[i].seen /\ work[i].queue # {}
  BY TheRunningPass DEF Running, Work, PassOK, WorkConsistent
<1>2. \A d \in work[i].queue : d.concept \in Concepts
  BY <1>1 DEF Document
<1>3. First(work[i].queue) \in work[i].queue
  BY <1>1, <1>2, FirstIsLeast
<1> QED BY <1>1, <1>3 DEF NextLookup

\* The document is put among those to be embedded, with the row it has.
LEMMA DequeueKeeps ==
    ASSUME IInv, NEW i \in Indexers, pc[i] \in {"lookup", "clear"},
           NEW existing \in Ids \cup {NoId},
           existing # NoId => meta[existing] = Row(NextLookup(i), work[i].model),
           Proceed(i, Dequeued(i, existing)),
           UNCHANGED <<Environment, meta, vectors>>,
           dimension' \in Range(Dimension) \cup {None}, enabled' \in BOOLEAN,
           TablesAgree'
    PROVE  IInv' /\ pc'[i] # "idle"
<1> DEFINE w == work[i]
           d == NextLookup(i)
           entry == Entry(d, existing)
<1> PICK new \in {Dequeued(i, existing)} : TRUE
  OBVIOUS
<1>1. /\ Running(i) /\ d \in w.queue /\ d \in Document /\ d \in w.seen
  BY NextLookupIsQueued
<1>2. /\ w \in Work /\ PassOK(pc[i], w) /\ passes \in 1 .. MaxPasses /\ TypeOK
  BY <1>1, TheRunningPass DEF IInv
<1>3. /\ entry \in Pending
      /\ entry.concept = d.concept /\ entry.text = d.text /\ entry.existing = existing
  BY <1>1 DEF Entry, Pending, Document
<1>4. new = [w EXCEPT !.queue = @ \ {d}, !.pending = @ \cup {entry}]
  BY DEF Dequeued
<1> HIDE DEF w, d, entry
<1>5. /\ new \in Work
      /\ new.provider = w.provider /\ new.model = w.model /\ new.seen = w.seen
      /\ new.queue = w.queue \ {d} /\ new.pending = w.pending \cup {entry}
      /\ new.id = w.id
  BY <1>2, <1>3, <1>4 DEF Work
<1>6. PICK stage \in {"lookup", "embed"} :
         /\ Goto(i, stage, new)
         /\ stage = "lookup" <=> new.queue # {}
  BY <1>3, <1>5 DEF Proceed
<1>7. /\ pc'[i] = stage /\ work'[i] = new
      /\ \A j \in Indexers \ {i} : pc'[j] = pc[j] /\ work'[j] = work[j]
      /\ pc' \in [Indexers -> Stages] /\ work' \in [Indexers -> Work]
      /\ reply' \in [Indexers -> {"indexed", "disabled", "failed", None}]
  <2>1. stage \in Stages
    BY DEF Stages
  <2> QED BY <1>2, <1>5, <1>6, <2>1, GotoShape
<1>8. TypeOK'
  BY <1>2, <1>7 DEF TypeOK, Environment, config
<1>9. WorkConsistent(pc[i], work[i])'
  <2>1. WorkConsistent(pc[i], w)
    BY <1>2 DEF PassOK
  <2>2. \A p, q \in new.pending : p.concept = q.concept => p = q
    <3>1. \A p \in w.pending : p.concept # entry.concept
      BY <1>1, <1>3, <2>1 DEF WorkConsistent
    <3> QED BY <1>5, <2>1, <3>1 DEF WorkConsistent
  <2>3. \A p \in new.pending :
           /\ \E x \in new.seen \ new.queue : x.concept = p.concept /\ x.text = p.text
           /\ p.existing # NoId => meta[p.existing] = Row(p, new.model)
    <3>1. Row(entry, w.model) = Row(d, w.model)
      BY <1>3 DEF Row
    <3>2. d \in new.seen \ new.queue
      BY <1>1, <1>5
    <3> QED BY <1>3, <1>5, <2>1, <3>1, <3>2 DEF WorkConsistent, w, d
  <2>4. IF stage \in {"lookup", "clear"} THEN new.queue # {}
        ELSE new.queue = {} /\ new.pending # {}
    BY <1>5, <1>6
  <2> QED BY <1>5, <1>7, <2>1, <2>2, <2>3, <2>4 DEF WorkConsistent
<1>10. StageHolds(pc[i], work[i])'
  BY <1>7 DEF StageHolds
<1>11. IdsSuffice(pc[i], work[i])'
  <2>1. passes' = passes /\ meta' = meta
    BY DEF Environment
  <2>2. RowsUpTo(Before)
    BY <1>2 DEF PassOK, IdsSuffice
  <2> QED BY <1>2, <1>7, <2>1, <2>2 DEF IdsSuffice, RowsUpTo, Before
<1>12. NothingForgotten(pc[i], work[i])'
  <2>1. ASSUME ~mixed, NEW x \in w.seen
        PROVE  x \in new.queue \/ Entered(x, new.pending) \/ Stored(x, w.model)
    <3>1. x \in w.queue \/ Entered(x, w.pending) \/ Stored(x, w.model)
      BY <1>2, <2>1 DEF PassOK, NothingForgotten
    <3>2. x = d => Entered(x, new.pending)
      BY <1>3, <1>5 DEF Entered
    <3>3. Entered(x, w.pending) => Entered(x, new.pending)
      BY <1>5 DEF Entered
    <3> QED BY <1>5, <3>1, <3>2, <3>3
  <2>2. ~mixed => w.model = DefaultModel[w.provider]
    BY <1>2 DEF PassOK, NothingForgotten
  <2>3. UNCHANGED <<meta, vectors, mixed>>
    BY DEF Environment
  <2>4. stage \notin {"drop", "create", "configure"}
    OBVIOUS
  <2>5. \A x : Stored(x, w.model) =>
           \E id \in Ids : meta'[id] = Row(x, w.model) /\ vectors' # None /\ vectors'[id] # None
    BY <2>3 DEF Stored, HasVector
  <2>6. ~mixed' =>
           /\ new.model = DefaultModel[new.provider]
           /\ \A x \in new.seen :
                 \/ x \in new.queue
                 \/ Entered(x, new.pending)
                 \/ \E id \in Ids : /\ meta'[id] = Row(x, new.model)
                                    /\ vectors' # None /\ vectors'[id] # None
    BY <1>5, <2>1, <2>2, <2>3, <2>5
  <2> QED BY <1>7, <2>4, <2>6 DEF NothingForgotten, Stored, HasVector
<1>13. IInv'
  BY <1>1, <1>7, <1>8, <1>9, <1>10, <1>11, <1>12, StillRunning DEF PassOK
<1> QED BY <1>7, <1>13

\* The document's embedding is reused.
LEMMA ReuseKeeps ==
    ASSUME IInv, NEW i \in Indexers, pc[i] = "lookup",
           Stored(NextLookup(i), work[i].model),
           Proceed(i, Reused(i)),
           UNCHANGED <<Environment, Tables>>
    PROVE  /\ IInv'
           /\ pc'[i] = "idle" /\ ~mixed =>
                 \A d \in work[i].seen : Stored(d, work[i].model)
<1> DEFINE w == work[i]
           d == NextLookup(i)
<1> PICK new \in {Reused(i)} : TRUE
  OBVIOUS
<1>1. /\ Running(i) /\ d \in w.queue /\ d \in w.seen
  BY NextLookupIsQueued
<1>2. /\ w \in Work /\ PassOK(pc[i], w) /\ passes \in 1 .. MaxPasses /\ TypeOK
      /\ TablesAgree
  BY <1>1, TheRunningPass DEF IInv
<1>3. new = [w EXCEPT !.queue = @ \ {d}]
  BY DEF Reused
<1> HIDE DEF w, d
<1>4. /\ new \in Work
      /\ new.provider = w.provider /\ new.model = w.model /\ new.seen = w.seen
      /\ new.queue = w.queue \ {d} /\ new.pending = w.pending /\ new.id = w.id
  BY <1>2, <1>3 DEF Work
<1>5. WorkConsistent(pc[i], w)
  BY <1>2 DEF PassOK
<1>6. ~mixed => /\ w.model = DefaultModel[w.provider]
                /\ \A x \in w.seen :
                      \/ x \in new.queue
                      \/ Entered(x, new.pending)
                      \/ Stored(x, w.model)
  BY <1>2, <1>4 DEF PassOK, NothingForgotten, w, d
<1>7. TablesAgree'
  BY <1>2, SameTables DEF Environment, config
<1>8. UNCHANGED <<meta, vectors, passes, mixed>>
  BY DEF Environment, Tables
<1>9. CASE new.queue = {} /\ new.pending = {}
  <2>1. Finish(i, "indexed")
    BY <1>9 DEF Proceed
  <2>2. /\ pc'[i] = "idle"
        /\ \A j \in Indexers \ {i} : pc'[j] = pc[j] /\ work'[j] = work[j]
        /\ pc' \in [Indexers -> Stages] /\ work' \in [Indexers -> Work]
        /\ reply' \in [Indexers -> {"indexed", "disabled", "failed", None}]
    BY <1>2, <2>1, FinishShape
  <2>3. TypeOK'
    BY <1>2, <2>2 DEF TypeOK, Environment, config, Tables
  <2>4. IInv'
    BY <1>1, <1>7, <1>8, <2>2, <2>3, NoLongerRunning
  <2> QED BY <1>6, <1>9, <2>4 DEF w, Entered
<1>10. CASE ~(new.queue = {} /\ new.pending = {})
  <2>1. PICK stage \in {"lookup", "embed"} :
           /\ Goto(i, stage, new)
           /\ stage = "lookup" <=> new.queue # {}
    BY <1>10 DEF Proceed
  <2>2. /\ pc'[i] = stage /\ work'[i] = new
        /\ \A j \in Indexers \ {i} : pc'[j] = pc[j] /\ work'[j] = work[j]
        /\ pc' \in [Indexers -> Stages] /\ work' \in [Indexers -> Work]
        /\ reply' \in [Indexers -> {"indexed", "disabled", "failed", None}]
    <3>1. stage \in Stages
      BY DEF Stages
    <3> QED BY <1>2, <1>4, <2>1, <3>1, GotoShape
  <2>3. TypeOK'
    BY <1>2, <2>2 DEF TypeOK, Environment, config, Tables
  <2>4. WorkConsistent(pc[i], work[i])'
    BY <1>4, <1>5, <1>8, <1>10, <2>1, <2>2 DEF WorkConsistent
  <2>5. StageHolds(pc[i], work[i])'
    BY <2>2 DEF StageHolds
  <2>6. IdsSuffice(pc[i], work[i])'
    <3>1. RowsUpTo(Before)
      BY <1>2 DEF PassOK, IdsSuffice
    <3> QED BY <1>2, <1>8, <2>2, <3>1 DEF IdsSuffice, RowsUpTo, Before
  <2>7. NothingForgotten(pc[i], work[i])'
    BY <1>4, <1>6, <1>8, <2>2 DEF NothingForgotten, Stored, HasVector
  <2>8. IInv'
    BY <1>1, <1>7, <2>2, <2>3, <2>4, <2>5, <2>6, <2>7, StillRunning DEF PassOK
  <2> QED BY <2>2, <2>8
<1> QED BY <1>9, <1>10

LEMMA LookupKeeps ==
    ASSUME IInv, NEW i \in Indexers, Lookup(i)
    PROVE  /\ IInv'
           /\ pc'[i] = "idle" /\ ~mixed =>
                 \A d \in work[i].seen : Stored(d, work[i].model)
<1> DEFINE existing == FindExisting(NextLookup(i), work[i].model)
<1>1. pc[i] = "lookup" /\ UNCHANGED <<Environment, Tables>>
  BY DEF Lookup
<1>2. TypeOK /\ TablesAgree
  BY DEF IInv
<1>3. UNCHANGED <<Environment, meta, vectors, dimension, enabled>>
  BY <1>1 DEF Tables
<1>4. TablesAgree'
  BY <1>1, <1>2, SameTables DEF Environment, config
<1>5. dimension' \in Range(Dimension) \cup {None} /\ enabled' \in BOOLEAN
  BY <1>2, <1>3 DEF TypeOK
<1>6. existing # NoId => existing \in Ids /\ meta[existing] = Row(NextLookup(i), work[i].model)
  BY FoundRow
<1> HIDE DEF existing
<1>7. CASE existing = NoId \/ (existing # NoId /\ vectors # None /\ vectors[existing] = None)
  <2>1. Proceed(i, Dequeued(i, existing))
    BY <1>7 DEF Lookup, existing
  <2> QED BY <1>1, <1>3, <1>4, <1>5, <1>6, <2>1, DequeueKeeps
<1>8. CASE existing # NoId /\ vectors # None /\ vectors[existing] # None
  <2>1. Proceed(i, Reused(i))
    BY <1>8 DEF Lookup, existing
  <2>2. Stored(NextLookup(i), work[i].model)
    BY <1>6, <1>8 DEF Stored, HasVector
  <2> QED BY <1>1, <2>1, <2>2, ReuseKeeps
<1>9. CASE existing # NoId /\ vectors = None
  <2> PICK new \in {[work[i] EXCEPT !.id = existing]} : TRUE
    OBVIOUS
  <2> DEFINE w == work[i]
  <2>1. Goto(i, "clear", new)
    BY <1>9 DEF Lookup, existing
  <2>2. /\ w \in Work /\ PassOK(pc[i], w) /\ Running(i) /\ passes \in 1 .. MaxPasses
        /\ NextLookup(i) = First(w.queue)
    BY <1>1, NextLookupIsQueued, TheRunningPass
  <2> HIDE DEF w
  <2>3. /\ new \in Work /\ new.id = existing
        /\ new.provider = w.provider /\ new.model = w.model /\ new.seen = w.seen
        /\ new.queue = w.queue /\ new.pending = w.pending
    BY <1>6, <1>9, <2>2 DEF Work, w
  <2>4. /\ pc'[i] = "clear" /\ work'[i] = new
        /\ \A j \in Indexers \ {i} : pc'[j] = pc[j] /\ work'[j] = work[j]
        /\ pc' \in [Indexers -> Stages] /\ work' \in [Indexers -> Work]
        /\ reply' \in [Indexers -> {"indexed", "disabled", "failed", None}]
    <3>1. "clear" \in Stages
      BY DEF Stages
    <3> QED BY <1>2, <2>1, <2>3, <3>1, GotoShape
  <2>5. TypeOK'
    BY <1>2, <1>3, <2>4 DEF TypeOK, Environment, config
  <2>6. WorkConsistent(pc[i], work[i])'
    BY <1>1, <1>3, <2>2, <2>3, <2>4 DEF PassOK, WorkConsistent
  <2>7. StageHolds(pc[i], work[i])'
    BY <1>3, <1>6, <1>9, <2>2, <2>3, <2>4 DEF StageHolds, w
  <2>8. IdsSuffice(pc[i], work[i])'
    BY <1>1, <1>3, <2>2, <2>4 DEF PassOK, IdsSuffice, RowsUpTo, Before, Environment
  <2>9. NothingForgotten(pc[i], work[i])'
    BY <1>1, <1>3, <2>2, <2>3, <2>4
    DEF PassOK, NothingForgotten, Stored, HasVector, Environment
  <2>10. IInv'
    BY <1>4, <2>2, <2>4, <2>5, <2>6, <2>7, <2>8, <2>9, StillRunning DEF PassOK
  <2> QED BY <2>4, <2>10
<1> QED BY <1>7, <1>8, <1>9

LEMMA ClearSettingsKeeps ==
    ASSUME IInv, NEW i \in Indexers, ClearSettings(i)
    PROVE  IInv' /\ pc'[i] # "idle"
<1>1. /\ pc[i] = "clear" /\ dimension' = None /\ enabled' = FALSE
      /\ Proceed(i, Dequeued(i, work[i].id))
      /\ UNCHANGED <<Environment, meta, vectors>>
  BY DEF ClearSettings
<1>2. Running(i) /\ NextLookup(i) = First(work[i].queue)
  BY <1>1, NextLookupIsQueued
<1>3. /\ vectors = None /\ work[i].id \in Ids
      /\ meta[work[i].id] = Row(NextLookup(i), work[i].model)
  BY <1>1, <1>2, TheRunningPass DEF PassOK, StageHolds
<1>4. TablesAgree'
  BY <1>1, <1>3
  DEF IInv, TablesAgree, VectorsMatchMetadata, StoredDimensionsAgree, ModelsAreOwn,
      HasVector, Environment, config
<1> QED BY <1>1, <1>3, <1>4, DequeueKeeps

-----------------------------------------------------------------------------
(***************************************************************************)
(* Making the table fit.                                                   *)
(***************************************************************************)
\* A step between the look-ups and the first row: the work stays the same.
LEMMA SameWorkKeeps ==
    ASSUME IInv, NEW i \in Indexers,
           pc[i] \in {"embed", "ensure", "drop", "create", "configure"},
           NEW stage \in {"ensure", "drop", "create", "configure", "first", "allocate"},
           Goto(i, stage, work[i]), UNCHANGED <<Environment, meta>>,
           vectors' \in [Ids -> VectorRows \cup {None}] \cup {None},
           dimension' \in Range(Dimension) \cup {None}, enabled' \in BOOLEAN,
           TablesAgree', StageHolds(pc[i], work[i])', NothingForgotten(pc[i], work[i])'
    PROVE  IInv'
<1>1. Running(i)
  BY DEF Running
<1>2. /\ work[i] \in Work /\ PassOK(pc[i], work[i]) /\ passes \in 1 .. MaxPasses /\ TypeOK
  BY <1>1, TheRunningPass DEF IInv
<1>3. /\ pc'[i] = stage /\ work'[i] = work[i]
      /\ \A j \in Indexers \ {i} : pc'[j] = pc[j] /\ work'[j] = work[j]
      /\ pc' \in [Indexers -> Stages] /\ work' \in [Indexers -> Work]
      /\ reply' \in [Indexers -> {"indexed", "disabled", "failed", None}]
  <2>1. stage \in Stages
    BY DEF Stages
  <2> QED BY <1>2, <2>1, GotoShape
<1>4. TypeOK'
  BY <1>2, <1>3 DEF TypeOK, Environment, config
<1>5. WorkConsistent(pc[i], work[i])'
  BY <1>2, <1>3 DEF PassOK, WorkConsistent
<1>6. First(work[i].pending).concept \in 1 .. NumConcepts
  BY <1>1, <1>2, FirstPending DEF PassOK, WorkConsistent, Current
<1>7. IdsSuffice(pc[i], work[i])'
  <2>1. RowsUpTo(Before) /\ Before \in Nat
    BY <1>2, IdsOfThisPass DEF PassOK, IdsSuffice
  <2>2. RowsUpTo(Before + First(work[i].pending).concept - 1)
    BY <1>6, <2>1, IdsAreNatural DEF RowsUpTo
  <2>3. UNCHANGED <<meta, passes>>
    BY DEF Environment
  <2> QED BY <1>2, <1>3, <2>1, <2>2, <2>3 DEF IdsSuffice, RowsUpTo, Before
<1> QED BY <1>1, <1>3, <1>4, <1>5, <1>7, StillRunning DEF PassOK

\* The pass ends without success, and the tables are as they were.
LEMMA GivingUpKeeps ==
    ASSUME IInv, NEW i \in Indexers, Running(i),
           NEW answer \in {"disabled", "failed", "indexed"}, Finish(i, answer),
           UNCHANGED <<Environment, Tables>>
    PROVE  IInv' /\ reply'[i] = answer
<1>1. TypeOK /\ TablesAgree
  BY DEF IInv
<1>2. /\ pc'[i] = "idle" /\ reply'[i] = answer
      /\ \A j \in Indexers \ {i} : pc'[j] = pc[j] /\ work'[j] = work[j]
      /\ pc' \in [Indexers -> Stages] /\ work' \in [Indexers -> Work]
      /\ reply' \in [Indexers -> {"indexed", "disabled", "failed", None}]
  BY <1>1, FinishShape
<1>3. TypeOK'
  BY <1>1, <1>2 DEF TypeOK, Environment, config, Tables
<1>4. TablesAgree'
  BY <1>1, SameTables DEF Environment, config
<1>5. UNCHANGED <<meta, passes>>
  BY DEF Environment, Tables
<1> QED BY <1>2, <1>3, <1>4, <1>5, NoLongerRunning

LEMMA EmbedTextsKeeps ==
    ASSUME IInv, NEW i \in Indexers, EmbedTexts(i)
    PROVE  IInv' /\ (pc'[i] = "idle" => reply'[i] # "indexed")
<1>1. pc[i] = "embed" /\ Running(i) /\ UNCHANGED <<Environment, Tables>>
  BY DEF EmbedTexts, Running
<1>2. TypeOK /\ TablesAgree /\ PassOK(pc[i], work[i]) /\ work[i] \in Work
  BY <1>1, TheRunningPass DEF IInv
<1>3. CASE Finish(i, "disabled")
  BY <1>1, <1>3, GivingUpKeeps
<1>4. CASE Goto(i, "ensure", work[i])
  <2>1. pc'[i] = "ensure" /\ work'[i] = work[i]
    BY <1>2, <1>4, GotoShape DEF Stages
  <2>2. TablesAgree'
    BY <1>1, <1>2, SameTables DEF Environment, config
  <2>3. StageHolds(pc[i], work[i])'
    BY <2>1 DEF StageHolds
  <2>4. NothingForgotten(pc[i], work[i])'
    BY <1>1, <1>2, <2>1
    DEF PassOK, NothingForgotten, Environment, Tables, Stored, HasVector
  <2>5. IInv'
    BY <1>1, <1>2, <1>4, <2>2, <2>3, <2>4, SameWorkKeeps DEF TypeOK, Tables
  <2> QED BY <2>1, <2>5
<1> QED BY <1>3, <1>4 DEF EmbedTexts

\* When a document's embedding is reused, the table fits the provider.
LEMMA ReusedMeansFits ==
    ASSUME IInv, NEW i \in Indexers, Running(i), ~mixed,
           NEW d, Stored(d, work[i].model)
    PROVE  Fits(work[i]) /\ enabled
<1>1. /\ work[i].provider \in Providers /\ TypeOK /\ TablesAgree
      /\ work[i].model = DefaultModel[work[i].provider]
  BY TheRunningPass DEF IInv, PassOK, WorkConsistent, NothingForgotten
<1>2. PICK id \in Ids : meta[id] = Row(d, work[i].model) /\ HasVector(id)
  BY DEF Stored
<1>3. /\ vectors[id].content = meta[id].content
      /\ enabled /\ dimension = Dimension[vectors[id].provider]
      /\ vectors[id].content.model = DefaultModel[vectors[id].provider]
      /\ vectors # None /\ vectors[id].provider \in Providers
  <2>1. vectors # None /\ vectors[id] # None /\ vectors \in [Ids -> VectorRows \cup {None}]
    BY <1>1, <1>2 DEF HasVector, TypeOK
  <2>2. vectors[id].provider \in Providers
    BY <2>1 DEF VectorRows
  <2> QED
    BY <1>1, <1>2, <2>1, <2>2
    DEF TablesAgree, VectorsMatchMetadata, StoredDimensionsAgree, ModelsAreOwn
<1>4. DefaultModel[vectors[id].provider] = DefaultModel[work[i].provider]
  BY <1>1, <1>2, <1>3 DEF Row
<1>5. Dimension[vectors[id].provider] = Dimension[work[i].provider]
  BY <1>1, <1>3, <1>4, ModelsAssumption
<1> QED BY <1>3, <1>5 DEF Fits

LEMMA EnsureCapabilityKeeps ==
    ASSUME IInv, NEW i \in Indexers, EnsureCapability(i)
    PROVE  IInv' /\ pc'[i] # "idle"
<1>1. pc[i] = "ensure" /\ Running(i) /\ UNCHANGED <<Environment, Tables>>
  BY DEF EnsureCapability, Running
<1>2. TypeOK /\ TablesAgree /\ PassOK(pc[i], work[i]) /\ work[i] \in Work
  BY <1>1, TheRunningPass DEF IInv
<1>3. UNCHANGED <<meta, vectors, dimension, enabled, mixed>>
  BY <1>1 DEF Environment, Tables
<1>4. PICK stage \in {"drop", "first"} :
         /\ Goto(i, stage, work[i])
         /\ stage = "first" <=> Fits(work[i])
  BY DEF EnsureCapability, Fits
<1>5. pc'[i] = stage /\ work'[i] = work[i]
  BY <1>2, <1>4, GotoShape DEF Stages
<1>6. TablesAgree'
  BY <1>1, <1>2, SameTables DEF Environment, config
<1>7. StageHolds(pc[i], work[i])'
  BY <1>3, <1>4, <1>5 DEF StageHolds, Fits
<1>8. NothingForgotten(pc[i], work[i])'
  <2>1. ASSUME ~mixed, stage = "drop", NEW d PROVE ~Stored(d, work[i].model)
    BY <1>1, <1>4, <2>1, ReusedMeansFits
  <2>2. ~mixed => /\ work[i].model = DefaultModel[work[i].provider]
                  /\ \A d \in work[i].seen :
                        \/ d \in work[i].queue
                        \/ Entered(d, work[i].pending)
                        \/ Stored(d, work[i].model) /\ stage # "drop"
    BY <1>2, <2>1 DEF PassOK, NothingForgotten
  <2> QED BY <1>3, <1>4, <1>5, <2>2 DEF NothingForgotten, Stored, HasVector
<1>9. IInv'
  BY <1>1, <1>2, <1>3, <1>4, <1>6, <1>7, <1>8, SameWorkKeeps DEF TypeOK
<1> QED BY <1>5, <1>9

\* Between the decision to rebuild the table and its configuration, every
\* document of the pass is one to be embedded.
LEMMA NothingReusedWhileRebuilding ==
    ASSUME IInv, NEW i \in Indexers, pc[i] \in {"drop", "create", "configure"},
           pc'[i] \in Stages, work'[i] = work[i], mixed' = mixed
    PROVE  NothingForgotten(pc[i], work[i])'
<1>1. PassOK(pc[i], work[i])
  BY TheRunningPass DEF Running
<1>2. ~mixed => /\ work[i].model = DefaultModel[work[i].provider]
                /\ \A d \in work[i].seen :
                      d \in work[i].queue \/ Entered(d, work[i].pending)
  BY <1>1 DEF PassOK, NothingForgotten
<1> QED BY <1>2 DEF NothingForgotten

LEMMA DropTableKeeps ==
    ASSUME IInv, NEW i \in Indexers, DropTable(i)
    PROVE  IInv' /\ pc'[i] # "idle"
<1>1. /\ pc[i] = "drop" /\ vectors' = None /\ Goto(i, "create", work[i])
      /\ UNCHANGED <<Environment, meta, dimension, enabled>>
  BY DEF DropTable
<1>2. TypeOK /\ TablesAgree /\ work[i] \in Work
  BY <1>1, TheRunningPass DEF IInv, Running
<1>3. pc'[i] = "create" /\ work'[i] = work[i]
  BY <1>1, <1>2, GotoShape DEF Stages
<1>4. TablesAgree'
  BY <1>1, <1>2
  DEF TablesAgree, VectorsMatchMetadata, StoredDimensionsAgree, ModelsAreOwn, HasVector,
      Environment, config
<1>5. StageHolds(pc[i], work[i])'
  BY <1>1, <1>3 DEF StageHolds
<1>6. NothingForgotten(pc[i], work[i])'
  BY <1>1, <1>3, NothingReusedWhileRebuilding DEF Environment, Stages
<1>7. IInv'
  BY <1>1, <1>2, <1>4, <1>5, <1>6, SameWorkKeeps DEF TypeOK
<1> QED BY <1>3, <1>7

LEMMA CreateTableKeeps ==
    ASSUME IInv, NEW i \in Indexers, CreateTable(i)
    PROVE  IInv' /\ pc'[i] # "idle"
<1>1. /\ pc[i] = "create" /\ Running(i)
      /\ UNCHANGED <<Environment, meta, dimension, enabled>>
  BY DEF CreateTable, Running
<1>2. TypeOK /\ TablesAgree /\ work[i] \in Work /\ PassOK(pc[i], work[i])
  BY <1>1, TheRunningPass DEF IInv
<1>3. vectors = None
  BY <1>1, <1>2 DEF PassOK, StageHolds
<1>4. vectors' = NoVectors /\ Goto(i, "configure", work[i])
  BY <1>3 DEF CreateTable
<1>5. pc'[i] = "configure" /\ work'[i] = work[i]
  BY <1>2, <1>4, GotoShape DEF Stages
<1>6. TablesAgree'
  BY <1>1, <1>2, <1>4
  DEF TablesAgree, VectorsMatchMetadata, StoredDimensionsAgree, ModelsAreOwn, HasVector,
      Environment, config, NoVectors
<1>7. StageHolds(pc[i], work[i])'
  BY <1>4, <1>5 DEF StageHolds, NoVectors
<1>8. NothingForgotten(pc[i], work[i])'
  BY <1>1, <1>5, NothingReusedWhileRebuilding DEF Environment, Stages
<1>9. IInv'
  BY <1>1, <1>2, <1>4, <1>6, <1>7, <1>8, SameWorkKeeps DEF TypeOK, NoVectors
<1> QED BY <1>5, <1>9

LEMMA ConfigureKeeps ==
    ASSUME IInv, NEW i \in Indexers, Configure(i)
    PROVE  IInv' /\ pc'[i] # "idle"
<1>1. /\ pc[i] = "configure" /\ Running(i)
      /\ dimension' = Dimension[work[i].provider] /\ enabled' = TRUE
      /\ Goto(i, "allocate", work[i])
      /\ UNCHANGED <<Environment, meta, vectors>>
  BY DEF Configure, Running
<1>2. TypeOK /\ TablesAgree /\ work[i] \in Work /\ PassOK(pc[i], work[i])
  BY <1>1, TheRunningPass DEF IInv
<1>3. vectors = NoVectors /\ work[i].provider \in Providers
  BY <1>1, <1>2 DEF PassOK, StageHolds, WorkConsistent
<1>4. dimension' \in Range(Dimension)
  BY <1>1, <1>3 DEF Range, Providers
<1>5. pc'[i] = "allocate" /\ work'[i] = work[i]
  BY <1>1, <1>2, GotoShape DEF Stages
<1>6. TablesAgree'
  BY <1>1, <1>2, <1>3
  DEF TablesAgree, VectorsMatchMetadata, StoredDimensionsAgree, ModelsAreOwn, HasVector,
      Environment, config, NoVectors
<1>7. vectors # None
  BY <1>3, NoneAssumption DEF NoVectors
<1>8. StageHolds(pc[i], work[i])'
  BY <1>1, <1>5, <1>7 DEF StageHolds, Fits
<1>9. NothingForgotten(pc[i], work[i])'
  BY <1>1, <1>5, NothingReusedWhileRebuilding DEF Environment, Stages
<1>10. IInv'
  BY <1>1, <1>2, <1>4, <1>6, <1>8, <1>9, SameWorkKeeps DEF TypeOK
<1> QED BY <1>5, <1>10

-----------------------------------------------------------------------------
(***************************************************************************)
(* Writing rows and vectors.                                               *)
(***************************************************************************)
\* The id a pass takes is the document's own, or a new one.
LEMMA IdForIsGood ==
    ASSUME IInv, NEW i \in Indexers, pc[i] \in {"first", "allocate"}
    PROVE  /\ IdFor(i) \in Ids
           /\ meta[IdFor(i)] \in {None, Row(Current(i), work[i].model)}
           /\ IdFor(i) <= Before + Current(i).concept
           /\ RowsUpTo(Before + Current(i).concept - 1)
<1> DEFINE c == Current(i).concept
<1>1. /\ Running(i) /\ work[i].pending # {} /\ PassOK(pc[i], work[i])
      /\ passes \in 1 .. MaxPasses
  BY TheRunningPass DEF Running, PassOK, WorkConsistent
<1>2. /\ Current(i) \in work[i].pending /\ Current(i) \in Pending /\ c \in 1 .. NumConcepts
      /\ Row(Current(i), work[i].model) \in EmbeddingRows
  BY <1>1, FirstPending
<1>3. /\ Before \in Nat /\ NumConcepts \in Nat
      /\ \A k \in 0 .. Before + NumConcepts : k \in Ids \cup {NoId}
  BY <1>1, IdsOfThisPass, BoundsAssumption
<1> HIDE DEF c
<1>4. RowsUpTo(Before + c - 1)
  <2>1. RowsUpTo(Before) \/ RowsUpTo(Before + c - 1)
    BY <1>1 DEF PassOK, IdsSuffice, Current, c
  <2> QED BY <1>2, <1>3, <2>1, IdsAreNatural DEF RowsUpTo
<1>5. CASE Current(i).existing = NoId
  <2>1. IdFor(i) = NextEmbeddingId
    BY <1>5 DEF IdFor
  <2>2. Before + c - 1 \in Nat
    BY <1>2, <1>3
  <2>3. /\ NextEmbeddingId \in 1 .. (Before + c - 1) + 1
        /\ NextEmbeddingId \in Ids => meta[NextEmbeddingId] = None
    BY <1>4, <2>2, NewIdIsNew
  <2>4. NextEmbeddingId \in Ids
    BY <1>2, <1>3, <2>3 DEF NoId
  <2> QED BY <1>2, <1>3, <1>4, <2>1, <2>3, <2>4 DEF c
<1>6. CASE Current(i).existing # NoId
  <2>1. /\ IdFor(i) = Current(i).existing /\ IdFor(i) \in Ids
    BY <1>2, <1>6 DEF IdFor, Pending
  <2>2. meta[IdFor(i)] = Row(Current(i), work[i].model)
    BY <1>1, <1>2, <1>6, <2>1 DEF PassOK, WorkConsistent
  <2>3. IdFor(i) <= Before + c - 1
    BY <1>2, <1>4, <2>1, <2>2, NoneAssumption DEF RowsUpTo
  <2>4. IdFor(i) <= Before + c
    <3>1. IdFor(i) \in Nat
      BY <2>1, IdsAreNatural
    <3>2. c \in Nat
      BY <1>2, <1>3
    <3> HIDE DEF IdFor
    <3> QED BY <1>3, <2>3, <3>1, <3>2
  <2> QED BY <1>4, <2>1, <2>2, <2>4 DEF c
<1> QED BY <1>5, <1>6

\* The row of the document whose turn it is is written, under an id that is
\* new or its own.
LEMMA WriteRowKeeps ==
    ASSUME IInv, NEW i \in Indexers, pc[i] \in {"first", "upsert"},
           NEW w \in Work, w.id \in Ids, w.provider = work[i].provider,
           w.model = work[i].model, w.seen = work[i].seen, w.queue = work[i].queue,
           w.pending = work[i].pending,
           meta[w.id] \in {None, Row(Current(i), work[i].model)},
           w.id <= Before + Current(i).concept,
           RowsUpTo(Before + Current(i).concept - 1),
           meta' = [meta EXCEPT ![w.id] = Row(Current(i), work[i].model)],
           Goto(i, "check", w), UNCHANGED <<Environment, vectors, dimension>>,
           enabled' = TRUE
    PROVE  IInv' /\ pc'[i] # "idle"
<1> DEFINE c == Current(i).concept
           row == Row(Current(i), work[i].model)
<1>1. /\ Running(i) /\ work[i].pending # {} /\ PassOK(pc[i], work[i])
      /\ passes \in 1 .. MaxPasses /\ TypeOK /\ TablesAgree /\ Fits(work[i])
  BY TheRunningPass DEF Running, PassOK, WorkConsistent, StageHolds, IInv
<1>2. c \in 1 .. NumConcepts /\ row \in EmbeddingRows /\ row # None
  BY <1>1, FirstPending, NoneAssumption
<1> HIDE DEF c, row
<1>3. /\ meta' \in [Ids -> EmbeddingRows \cup {None}]
      /\ meta'[w.id] = row
      /\ \A id \in Ids : meta[id] # None => meta'[id] = meta[id]
      /\ \A id \in Ids \ {w.id} : meta'[id] = meta[id]
  BY <1>1, <1>2 DEF TypeOK, row
<1>4. /\ pc'[i] = "check" /\ work'[i] = w
      /\ \A j \in Indexers \ {i} : pc'[j] = pc[j] /\ work'[j] = work[j]
      /\ pc' \in [Indexers -> Stages] /\ work' \in [Indexers -> Work]
      /\ reply' \in [Indexers -> {"indexed", "disabled", "failed", None}]
  BY <1>1, GotoShape DEF Stages
<1>5. TypeOK'
  <2>1. \A j \in Indexers \ {i} : pc'[j] = "idle"
    BY <1>1, <1>4, TheRunningPass DEF Running
  <2> QED BY <1>1, <1>3, <1>4, <2>1 DEF TypeOK, Environment, config
<1>6. TablesAgree'
  <2>1. VectorsMatchMetadata'
    BY <1>1, <1>3 DEF TablesAgree, VectorsMatchMetadata, HasVector
  <2>2. StoredDimensionsAgree' /\ ModelsAreOwn'
    BY <1>1 DEF TablesAgree, StoredDimensionsAgree, ModelsAreOwn, HasVector, Environment,
                config
  <2> QED BY <2>1, <2>2 DEF TablesAgree
<1>7. WorkConsistent(pc[i], work[i])'
  <2>1. WorkConsistent(pc[i], w)
    BY <1>1 DEF PassOK, WorkConsistent
  <2>2. \A p \in w.pending : p.existing # NoId => meta'[p.existing] = Row(p, w.model)
    <3> SUFFICES ASSUME NEW p \in w.pending, p.existing # NoId
                 PROVE  meta'[p.existing] = Row(p, w.model)
      OBVIOUS
    <3>1. p \in Pending /\ p.existing \in Ids /\ p.concept \in Concepts /\ p.text \in Texts
      BY DEF Work, Pending
    <3>2. meta[p.existing] = Row(p, w.model)
      BY <2>1 DEF WorkConsistent
    <3>3. Row(p, w.model) \in EmbeddingRows
      BY <2>1, <3>1 DEF Row, EmbeddingRows, Contents, WorkConsistent
    <3> QED BY <1>3, <3>1, <3>2, <3>3, NoneAssumption
  <2> QED BY <1>1, <1>4, <2>1, <2>2 DEF WorkConsistent
<1>8. StageHolds(pc[i], work[i])'
  BY <1>1, <1>3, <1>4 DEF StageHolds, Fits, Current, row
<1>9. IdsSuffice(pc[i], work[i])'
  <2>1. Before \in Nat /\ Before' = Before /\ passes' = passes
    BY <1>1, IdsOfThisPass DEF Before, Environment
  <2>2. RowsUpTo(Before + c - 1) /\ w.id <= Before + c
    BY DEF c
  <2>3. \A id \in Ids : meta'[id] # None => id <= Before + c
    <3>1. \A id \in Ids \ {w.id} : meta[id] # None => id <= Before + c
      BY <1>2, <2>1, <2>2, IdsAreNatural DEF RowsUpTo
    <3> QED BY <1>3, <2>2, <3>1
  <2>4. First(w.pending).concept = c
    BY DEF Current, c
  <2> QED BY <1>1, <1>4, <2>1, <2>3, <2>4 DEF IdsSuffice, RowsUpTo
<1>10. NothingForgotten(pc[i], work[i])'
  <2>1. ASSUME NEW d \in w.seen, Stored(d, w.model) PROVE Stored(d, w.model)'
    <3>1. PICK id \in Ids : meta[id] = Row(d, w.model) /\ HasVector(id)
      BY <2>1 DEF Stored
    <3>2. meta[id] # None
      BY <1>1, <3>1 DEF TablesAgree, VectorsMatchMetadata
    <3>3. meta'[id] = Row(d, w.model) /\ HasVector(id)'
      BY <1>3, <3>1, <3>2 DEF HasVector
    <3> QED BY <3>3 DEF Stored
  <2>2. ~mixed => /\ w.model = DefaultModel[w.provider]
                  /\ \A d \in w.seen :
                        d \in w.queue \/ Entered(d, w.pending) \/ Stored(d, w.model)
    BY <1>1 DEF PassOK, NothingForgotten
  <2>3. mixed' = mixed
    BY DEF Environment
  <2> QED BY <1>4, <2>1, <2>2, <2>3 DEF NothingForgotten
<1>11. IInv'
  BY <1>1, <1>4, <1>5, <1>6, <1>7, <1>8, <1>9, <1>10, StillRunning DEF PassOK
<1> QED BY <1>4, <1>11

LEMMA FirstEmbeddingKeeps ==
    ASSUME IInv, NEW i \in Indexers, FirstEmbedding(i)
    PROVE  IInv' /\ pc'[i] # "idle"
<1>1. /\ pc[i] = "first" /\ Running(i) /\ enabled' = TRUE
      /\ meta' = [meta EXCEPT ![IdFor(i)] = Row(Current(i), work[i].model)]
      /\ Goto(i, "check", [work[i] EXCEPT !.id = IdFor(i)])
      /\ UNCHANGED <<Environment, vectors, dimension>>
  BY DEF FirstEmbedding, Running
<1>2. work[i] \in Work
  BY <1>1, TheRunningPass
<1>3. /\ IdFor(i) \in Ids
      /\ meta[IdFor(i)] \in {None, Row(Current(i), work[i].model)}
      /\ IdFor(i) <= Before + Current(i).concept
      /\ RowsUpTo(Before + Current(i).concept - 1)
  BY <1>1, IdForIsGood
<1> PICK w \in {[work[i] EXCEPT !.id = IdFor(i)]} : TRUE
  OBVIOUS
<1>4. /\ w \in Work /\ w.id = IdFor(i) /\ w.provider = work[i].provider
      /\ w.model = work[i].model /\ w.seen = work[i].seen /\ w.queue = work[i].queue
      /\ w.pending = work[i].pending
  BY <1>2, <1>3 DEF Work
<1> QED BY <1>1, <1>3, <1>4, WriteRowKeeps

LEMMA AllocateIdKeeps ==
    ASSUME IInv, NEW i \in Indexers, AllocateId(i)
    PROVE  IInv' /\ pc'[i] # "idle"
<1>1. /\ pc[i] = "allocate" /\ Running(i)
      /\ Goto(i, "upsert", [work[i] EXCEPT !.id = IdFor(i)])
      /\ UNCHANGED <<Environment, Tables>>
  BY DEF AllocateId, Running
<1>2. /\ work[i] \in Work /\ PassOK(pc[i], work[i]) /\ TypeOK /\ TablesAgree
      /\ passes \in 1 .. MaxPasses
  BY <1>1, TheRunningPass DEF IInv
<1>3. /\ IdFor(i) \in Ids
      /\ meta[IdFor(i)] \in {None, Row(Current(i), work[i].model)}
      /\ IdFor(i) <= Before + Current(i).concept
      /\ RowsUpTo(Before + Current(i).concept - 1)
  BY <1>1, IdForIsGood
<1> PICK w \in {[work[i] EXCEPT !.id = IdFor(i)]} : TRUE
  OBVIOUS
<1>4. /\ w \in Work /\ w.id = IdFor(i) /\ w.provider = work[i].provider
      /\ w.model = work[i].model /\ w.seen = work[i].seen /\ w.queue = work[i].queue
      /\ w.pending = work[i].pending
  BY <1>2, <1>3 DEF Work
<1>5. UNCHANGED <<meta, vectors, dimension, enabled, mixed, passes>>
  BY <1>1 DEF Environment, Tables
<1>6. /\ pc'[i] = "upsert" /\ work'[i] = w
      /\ \A j \in Indexers \ {i} : pc'[j] = pc[j] /\ work'[j] = work[j]
      /\ pc' \in [Indexers -> Stages] /\ work' \in [Indexers -> Work]
      /\ reply' \in [Indexers -> {"indexed", "disabled", "failed", None}]
  BY <1>1, <1>2, <1>4, GotoShape DEF Stages
<1>7. TypeOK'
  <2>1. \A j \in Indexers \ {i} : pc'[j] = "idle"
    BY <1>1, <1>6, TheRunningPass DEF Running
  <2> QED BY <1>1, <1>2, <1>3, <1>4, <1>6, <2>1 DEF TypeOK, Environment, config, Tables
<1>8. TablesAgree'
  BY <1>1, <1>2, SameTables DEF Environment, config
<1>9. WorkConsistent(pc[i], work[i])'
  BY <1>1, <1>2, <1>4, <1>5, <1>6 DEF PassOK, WorkConsistent
<1>10. StageHolds(pc[i], work[i])'
  BY <1>1, <1>2, <1>3, <1>4, <1>5, <1>6 DEF PassOK, StageHolds, Fits, Current
<1>11. IdsSuffice(pc[i], work[i])'
  BY <1>1, <1>2, <1>3, <1>4, <1>5, <1>6 DEF PassOK, IdsSuffice, RowsUpTo, Before, Current
<1>12. NothingForgotten(pc[i], work[i])'
  BY <1>1, <1>2, <1>4, <1>5, <1>6 DEF PassOK, NothingForgotten, Stored, HasVector
<1>13. IInv'
  BY <1>1, <1>6, <1>7, <1>8, <1>9, <1>10, <1>11, <1>12, StillRunning DEF PassOK
<1> QED BY <1>6, <1>13

LEMMA UpsertEmbeddingKeeps ==
    ASSUME IInv, NEW i \in Indexers, UpsertEmbedding(i)
    PROVE  IInv' /\ pc'[i] # "idle"
<1>1. /\ pc[i] = "upsert" /\ Running(i)
      /\ meta' = [meta EXCEPT ![work[i].id] = Row(Current(i), work[i].model)]
      /\ Goto(i, "check", work[i])
      /\ UNCHANGED <<Environment, vectors, dimension, enabled>>
  BY DEF UpsertEmbedding, Running
<1>2. /\ work[i] \in Work /\ PassOK(pc[i], work[i]) /\ work[i].id \in Ids
      /\ enabled \in BOOLEAN
  BY <1>1, TheRunningPass DEF IInv, TypeOK
<1>3. /\ meta[work[i].id] \in {None, Row(Current(i), work[i].model)}
      /\ work[i].id <= Before + Current(i).concept
      /\ RowsUpTo(Before + Current(i).concept - 1)
      /\ enabled' = TRUE
  BY <1>1, <1>2 DEF PassOK, StageHolds, IdsSuffice, Current
<1> PICK w \in {work[i]} : TRUE
  OBVIOUS
<1> QED BY <1>1, <1>2, <1>3, WriteRowKeeps

LEMMA CheckCapabilityKeeps ==
    ASSUME IInv, NEW i \in Indexers, CheckCapability(i)
    PROVE  IInv' /\ pc'[i] # "idle"
<1>1. pc[i] = "check" /\ Running(i) /\ UNCHANGED <<Environment, Tables>>
  BY DEF CheckCapability, Running
<1>2. /\ work[i] \in Work /\ PassOK(pc[i], work[i]) /\ TypeOK /\ TablesAgree
      /\ work[i].id \in Ids
  BY <1>1, TheRunningPass DEF IInv, TypeOK
<1>3. enabled /\ Fits(work[i])
  BY <1>1, <1>2 DEF PassOK, StageHolds
<1>4. Goto(i, "store", work[i])
  BY <1>3 DEF CheckCapability, Fits
<1>5. UNCHANGED <<meta, vectors, dimension, enabled, mixed, passes>>
  BY <1>1 DEF Environment, Tables
<1>6. /\ pc'[i] = "store" /\ work'[i] = work[i]
      /\ \A j \in Indexers \ {i} : pc'[j] = pc[j] /\ work'[j] = work[j]
      /\ pc' \in [Indexers -> Stages] /\ work' \in [Indexers -> Work]
      /\ reply' \in [Indexers -> {"indexed", "disabled", "failed", None}]
  BY <1>2, <1>4, GotoShape DEF Stages
<1>7. TypeOK'
  <2>1. \A j \in Indexers \ {i} : pc'[j] = "idle"
    BY <1>1, <1>6, TheRunningPass DEF Running
  <2> QED BY <1>1, <1>2, <1>6, <2>1 DEF TypeOK, Environment, config, Tables
<1>8. TablesAgree'
  BY <1>1, <1>2, SameTables DEF Environment, config
<1>9. WorkConsistent(pc[i], work[i])'
  BY <1>1, <1>2, <1>5, <1>6 DEF PassOK, WorkConsistent
<1>10. StageHolds(pc[i], work[i])'
  BY <1>1, <1>2, <1>5, <1>6 DEF PassOK, StageHolds, Fits
<1>11. IdsSuffice(pc[i], work[i])'
  BY <1>1, <1>2, <1>5, <1>6 DEF PassOK, IdsSuffice, RowsUpTo, Before
<1>12. NothingForgotten(pc[i], work[i])'
  BY <1>1, <1>2, <1>5, <1>6 DEF PassOK, NothingForgotten, Stored, HasVector
<1>13. IInv'
  BY <1>1, <1>6, <1>7, <1>8, <1>9, <1>10, <1>11, <1>12, StillRunning DEF PassOK
<1> QED BY <1>6, <1>13

\* The vector is written: the document is indexed, and the next one is taken.
LEMMA UpsertVectorKeeps ==
    ASSUME IInv, NEW i \in Indexers, UpsertVector(i)
    PROVE  /\ IInv' /\ mixed' = mixed
           /\ pc'[i] = "idle" => enabled' /\ dimension' = Dimension[work[i].provider]
           /\ pc'[i] = "idle" /\ ~mixed =>
                 \A d \in work[i].seen : Indexed(d, work[i].model)
<1> PICK w \in {work[i]} : TRUE
  OBVIOUS
<1> PICK p \in {Current(i)} : TRUE
  OBVIOUS
<1> DEFINE vector == [content |-> Row(p, w.model).content, provider |-> w.provider]
<1> PICK left \in {[w EXCEPT !.pending = @ \ {p}]} : TRUE
  OBVIOUS
<1>1. /\ pc[i] = "store" /\ Running(i)
      /\ UNCHANGED <<Environment, meta, dimension, enabled>>
  BY DEF UpsertVector, Running
<1>2. UNCHANGED <<mixed, passes, meta, dimension, enabled>>
  BY <1>1 DEF Environment
<1>3. /\ w \in Work /\ PassOK(pc[i], w) /\ passes \in 1 .. MaxPasses
      /\ TypeOK /\ TablesAgree
  BY <1>1, TheRunningPass DEF IInv
<1>4. /\ w.id \in Ids /\ enabled /\ vectors # None
      /\ dimension = Dimension[w.provider] /\ meta[w.id] = Row(p, w.model)
      /\ WorkConsistent(pc[i], w) /\ w.provider \in Providers /\ w.pending # {}
      /\ RowsUpTo(Before + p.concept)
  BY <1>1, <1>3 DEF TypeOK, PassOK, StageHolds, IdsSuffice, WorkConsistent, Fits, Current
<1>5. /\ p \in w.pending /\ p \in Pending /\ p.concept \in 1 .. NumConcepts
      /\ \A q \in w.pending : p.concept <= q.concept
      /\ Row(p, w.model) \in EmbeddingRows
  BY <1>1, <1>4, FirstPending
<1>6. /\ vectors' = [vectors EXCEPT ![w.id] = vector] /\ NextDocument(i)
  BY <1>4 DEF UpsertVector
<1>7. Row(p, w.model) # None /\ vector \in VectorRows /\ vector # None
  <2>1. Row(p, w.model).content \in Contents
    BY <1>5 DEF EmbeddingRows
  <2> QED BY <1>4, <1>5, <2>1, NoneAssumption DEF VectorRows
<1>8. vector.content = Row(p, w.model).content /\ vector.provider = w.provider
  OBVIOUS
<1> HIDE DEF vector
<1>9. /\ vectors \in [Ids -> VectorRows \cup {None}]
      /\ vectors' \in [Ids -> VectorRows \cup {None}] /\ vectors' # None
      /\ vectors'[w.id] = vector
      /\ \A id \in Ids \ {w.id} : vectors'[id] = vectors[id]
  <2>1. vectors \in [Ids -> VectorRows \cup {None}]
    BY <1>3, <1>4 DEF TypeOK
  <2>2. /\ vectors' \in [Ids -> VectorRows \cup {None}] /\ vectors'[w.id] = vector
        /\ \A id \in Ids \ {w.id} : vectors'[id] = vectors[id]
    BY <1>4, <1>6, <1>7, <2>1
  <2>3. vectors' # None
    BY <1>4, <1>7, <2>2, NoneAssumption
  <2> QED BY <2>1, <2>2, <2>3
<1>10. TablesAgree'
  <2>1. VectorsMatchMetadata'
    BY <1>2, <1>3, <1>4, <1>7, <1>8, <1>9 DEF TablesAgree, VectorsMatchMetadata, HasVector
  <2>2. StoredDimensionsAgree'
    BY <1>2, <1>3, <1>4, <1>8, <1>9 DEF TablesAgree, StoredDimensionsAgree, HasVector
  <2>3. ModelsAreOwn'
    <3>1. Row(p, w.model).content.model = w.model
      BY DEF Row
    <3>2. ~mixed => vector.content.model = DefaultModel[vector.provider]
      BY <1>3, <1>8, <3>1 DEF PassOK, NothingForgotten
    <3>3. auth' = auth
      BY <1>1 DEF Environment, config
    <3> QED BY <1>2, <1>3, <1>4, <1>9, <3>2, <3>3 DEF TablesAgree, ModelsAreOwn, HasVector
  <2> QED BY <2>1, <2>2, <2>3 DEF TablesAgree
<1>11. /\ left \in Work
       /\ left.provider = w.provider /\ left.model = w.model /\ left.seen = w.seen
       /\ left.queue = w.queue /\ left.pending = w.pending \ {p} /\ left.id = w.id
  BY <1>3 DEF Work
<1>12. ~mixed => /\ w.model = DefaultModel[w.provider]
                 /\ \A d \in w.seen :
                       Entered(d, left.pending) \/ Stored(d, w.model)'
  <2> SUFFICES ASSUME ~mixed, NEW d \in w.seen
               PROVE  Entered(d, left.pending) \/ Stored(d, w.model)'
    BY <1>3 DEF PassOK, NothingForgotten
  <2>1. Entered(d, w.pending) \/ Stored(d, w.model)
    BY <1>1, <1>3, <1>4 DEF PassOK, NothingForgotten, WorkConsistent
  <2>2. CASE Stored(d, w.model)
    <3>1. PICK id \in Ids : meta[id] = Row(d, w.model) /\ HasVector(id)
      BY <2>2 DEF Stored
    <3>2. HasVector(id)'
      BY <1>7, <1>9, <3>1 DEF HasVector
    <3> QED BY <1>2, <3>1, <3>2 DEF Stored
  <2>3. CASE Entered(d, w.pending)
    <3>1. PICK q \in w.pending : q.concept = d.concept /\ q.text = d.text
      BY <2>3 DEF Entered
    <3>2. CASE q = p
      <4>1. meta'[w.id] = Row(d, w.model)
        BY <1>2, <1>4, <3>1, <3>2 DEF Row
      <4>2. HasVector(w.id)'
        BY <1>7, <1>9 DEF HasVector
      <4> QED BY <1>4, <4>1, <4>2 DEF Stored
    <3>3. CASE q # p
      BY <1>11, <3>1, <3>3 DEF Entered
    <3> QED BY <3>2, <3>3
  <2> QED BY <2>1, <2>2, <2>3
<1>13. ASSUME NEW d, Stored(d, w.model)' PROVE Indexed(d, w.model)
  <2>1. PICK id \in Ids : meta'[id] = Row(d, w.model) /\ HasVector(id)'
    BY <1>13 DEF Stored
  <2>2. vectors'[id].content = meta'[id].content
    BY <1>10, <2>1 DEF TablesAgree, VectorsMatchMetadata
  <2> QED BY <2>1, <2>2 DEF Indexed, HasVector
<1>14. CASE left.pending = {}
  <2>1. Finish(i, "indexed")
    BY <1>5, <1>6, <1>11, <1>14 DEF NextDocument
  <2>2. /\ pc'[i] = "idle"
        /\ \A j \in Indexers \ {i} : pc'[j] = pc[j] /\ work'[j] = work[j]
        /\ pc' \in [Indexers -> Stages] /\ work' \in [Indexers -> Work]
        /\ reply' \in [Indexers -> {"indexed", "disabled", "failed", None}]
    BY <1>3, <2>1, FinishShape
  <2>3. TypeOK'
    <3>1. \A j \in Indexers : pc'[j] = "idle"
      BY <1>1, <2>2, TheRunningPass DEF Running
    <3> QED BY <1>1, <1>3, <1>9, <2>2, <3>1 DEF TypeOK, Environment, config
  <2>4. IInv'
    BY <1>1, <1>2, <1>10, <2>2, <2>3, NoLongerRunning
  <2>5. ~mixed => \A d \in w.seen : Indexed(d, w.model)
    BY <1>12, <1>13, <1>14 DEF Entered
  <2> QED BY <1>2, <1>4, <2>4, <2>5
<1>15. CASE left.pending # {}
  <2>1. Goto(i, "allocate", left)
    BY <1>6, <1>11, <1>15 DEF NextDocument
  <2>2. /\ pc'[i] = "allocate" /\ work'[i] = left
        /\ \A j \in Indexers \ {i} : pc'[j] = pc[j] /\ work'[j] = work[j]
        /\ pc' \in [Indexers -> Stages] /\ work' \in [Indexers -> Work]
        /\ reply' \in [Indexers -> {"indexed", "disabled", "failed", None}]
    BY <1>3, <1>11, <2>1, GotoShape DEF Stages
  <2>3. TypeOK'
    <3>1. \A j \in Indexers \ {i} : pc'[j] = "idle"
      BY <1>1, <2>2, TheRunningPass DEF Running
    <3> QED BY <1>1, <1>3, <1>9, <2>2, <3>1 DEF TypeOK, Environment, config
  <2>4. WorkConsistent(pc[i], work[i])'
    BY <1>1, <1>2, <1>4, <1>11, <1>15, <2>2 DEF WorkConsistent
  <2>5. StageHolds(pc[i], work[i])'
    BY <1>2, <1>4, <1>9, <1>11, <2>2 DEF StageHolds, Fits
  <2>6. IdsSuffice(pc[i], work[i])'
    <3>1. Before \in Nat /\ NumConcepts \in Nat
      BY <1>3, IdsOfThisPass, BoundsAssumption
    <3>2. \A q \in left.pending :
             q.concept \in Concepts /\ p.concept <= q.concept /\ q.concept # p.concept
      <4>1. \A q \in w.pending : q.concept \in Concepts
        BY <1>3 DEF Work, Pending
      <4> QED BY <1>4, <1>5, <1>11, <4>1 DEF WorkConsistent
    <3>3. First(left.pending) \in left.pending
      BY <1>15, <3>2, FirstIsLeast
    <3>4. RowsUpTo(Before + First(left.pending).concept - 1)
      <4> DEFINE f == First(left.pending).concept
      <4>1. f \in 1 .. NumConcepts /\ p.concept <= f /\ f # p.concept
        BY <3>2, <3>3 DEF Concepts
      <4> HIDE DEF f
      <4>2. p.concept + 1 <= f /\ p.concept \in Nat /\ f \in Nat
        BY <1>5, <3>1, <4>1
      <4>3. \A id \in Ids : id <= Before + p.concept => id <= Before + f - 1
        BY <3>1, <4>2, IdsAreNatural
      <4> QED BY <1>4, <4>3 DEF RowsUpTo, f
    <3> QED BY <1>2, <1>3, <2>2, <3>4 DEF IdsSuffice, RowsUpTo, Before
  <2>7. NothingForgotten(pc[i], work[i])'
    BY <1>2, <1>11, <1>12, <2>2 DEF NothingForgotten
  <2>8. IInv'
    BY <1>1, <1>10, <2>2, <2>3, <2>4, <2>5, <2>6, <2>7, StillRunning DEF PassOK
  <2> QED BY <1>2, <2>2, <2>8
<1> QED BY <1>14, <1>15

LEMMA CrashKeeps ==
    ASSUME IInv, NEW i \in Indexers, Crash(i)
    PROVE  IInv' /\ reply'[i] # "indexed"
  BY GivingUpKeeps DEF Crash, Running

-----------------------------------------------------------------------------
(***************************************************************************)
(* A pass starts.                                                          *)
(***************************************************************************)
\* When passes run one at a time, no pass runs where one may start.
LEMMA NobodyRuns ==
    ASSUME MaxRunning = 1, NEW i \in Indexers, Start(i)
    PROVE  \A j \in Indexers : ~Running(j)
<1> DEFINE running == {j \in Indexers : pc[j] # "idle"}
<1>1. IsFiniteSet(running)
  BY BoundsAssumption, FS_Subset
<1>2. Cardinality(running) < 1
  BY DEF Start
<1>3. Cardinality(running) \in Nat /\ (Cardinality(running) = 0 <=> running = {})
  BY <1>1, FS_CardinalityType, FS_EmptySet
<1>4. running = {}
  <2> HIDE DEF running
  <2> QED BY <1>2, <1>3
<1> QED BY <1>4 DEF Running

\* The provider that is resolved is known, and the model is its own unless the
\* project's settings name another's.
LEMMA ResolvedConfiguration ==
    ASSUME TypeOK, ModelsAreOwn, NEW override \in Overrides,
           NEW provider, provider = ResolvedProvider(override)
    PROVE  /\ provider \in Providers /\ ResolvedModel(provider) \in Models
           /\ ~ForeignModelConfigured(override)
              => ResolvedModel(provider) = DefaultModel[provider]
<1>1. provider \in Providers
  BY ProvidersAssumption DEF ResolvedProvider, TypeOK
<1>2. DefaultModel[provider] \in Models
  BY <1>1, ProvidersAssumption DEF Models, Range
<1>3. ResolvedModel(provider) \in Models
  BY <1>2 DEF ResolvedModel, TypeOK
<1>4. ~ForeignModelConfigured(override) => settings.model \in {None, DefaultModel[provider]}
  BY DEF ForeignModelConfigured
<1>5. auth.model = DefaultModel[auth.provider]
  BY DEF ModelsAreOwn
<1> QED BY <1>1, <1>3, <1>4, <1>5 DEF ResolvedModel

LEMMA StartKeeps ==
    ASSUME MaxRunning = 1, IInv, NEW i \in Indexers, Start(i)
    PROVE  IInv'
<1>1. /\ \A j \in Indexers : ~Running(j)
      /\ TypeOK /\ TablesAgree /\ RowsUpTo(passes * NumConcepts)
  BY NobodyRuns DEF IInv
<1>2. /\ passes' = passes + 1 /\ passes' \in 1 .. MaxPasses /\ passes \in Nat
      /\ UNCHANGED <<docs, config, changes, Tables>>
  BY <1>1, BoundsAssumption DEF Start, TypeOK
<1> PICK override \in Overrides :
       /\ mixed' = (mixed \/ ForeignModelConfigured(override))
       /\ IF ActiveDocuments = {}
          THEN Finish(i, "indexed")
          ELSE Goto(i, "lookup",
                    [NoWork EXCEPT !.provider = ResolvedProvider(override),
                                   !.model = ResolvedModel(ResolvedProvider(override)),
                                   !.seen = ActiveDocuments,
                                   !.queue = ActiveDocuments])
  BY Zenon DEF Start
<1> PICK provider \in {ResolvedProvider(override)} : TRUE
  OBVIOUS
<1> PICK model \in {ResolvedModel(provider)} : TRUE
  OBVIOUS
<1> PICK new \in {[NoWork EXCEPT !.provider = provider, !.model = model,
                                 !.seen = ActiveDocuments, !.queue = ActiveDocuments]} : TRUE
  OBVIOUS
<1>3. /\ provider \in Providers /\ model \in Models
      /\ ~mixed' => model = DefaultModel[provider]
  BY <1>1, ResolvedConfiguration DEF TablesAgree
<1>4. /\ ActiveDocuments \subseteq Document
      /\ \A d, e \in ActiveDocuments : d.concept = e.concept => d = e
  <2>1. ActiveDocuments \subseteq Document
    BY DEF ActiveDocuments
  <2>2. \A d, e \in Document : d.concept = e.concept /\ d.text = e.text => d = e
    BY DEF Document
  <2>3. \A d \in ActiveDocuments : docs[d.concept] = d.text
    BY DEF ActiveDocuments
  <2> QED BY <2>1, <2>2, <2>3
<1>5. /\ new \in Work
      /\ new.provider = provider /\ new.model = model /\ new.pending = {}
      /\ new.seen = ActiveDocuments /\ new.queue = ActiveDocuments
  <2> HIDE DEF ActiveDocuments
  <2> QED BY <1>3, <1>4 DEF NoWork, Work
<1>6. TablesAgree'
  <2>1. mixed' \in BOOLEAN /\ (~mixed' => ~mixed)
    BY <1>1 DEF TypeOK, ForeignModelConfigured
  <2> QED BY <1>1, <1>2, <2>1
          DEF TablesAgree, VectorsMatchMetadata, StoredDimensionsAgree, ModelsAreOwn,
              HasVector, Tables, config
<1>7. RowsUpTo(passes * NumConcepts)' /\ RowsUpTo(Before)'
  <2>1. NumConcepts \in Nat
    BY BoundsAssumption
  <2>2. Before' = passes * NumConcepts
    <3>1. (passes + 1) - 1 = passes
      BY <1>2
    <3> QED BY <1>2, <3>1 DEF Before
  <2>3. passes * NumConcepts \in Nat /\ (passes + 1) * NumConcepts \in Nat
        /\ passes * NumConcepts <= (passes + 1) * NumConcepts
    <3>1. (passes + 1) * NumConcepts = passes * NumConcepts + NumConcepts
      BY <1>2, <2>1
    <3>2. passes * NumConcepts \in Nat
      BY <1>2, <2>1
    <3> QED BY <2>1, <3>1, <3>2
  <2>4. meta' = meta /\ passes' = passes + 1
    BY <1>2 DEF Tables
  <2>5. RowsUpTo((passes + 1) * NumConcepts)
    BY <1>1, <2>3, IdsAreNatural DEF RowsUpTo
  <2> QED BY <1>1, <2>2, <2>4, <2>5 DEF RowsUpTo
<1>8. mixed' \in BOOLEAN
  BY <1>1 DEF TypeOK, ForeignModelConfigured
<1>9. CASE ActiveDocuments = {}
  <2>1. /\ pc'[i] = "idle"
        /\ \A j \in Indexers \ {i} : pc'[j] = pc[j] /\ work'[j] = work[j]
        /\ pc' \in [Indexers -> Stages] /\ work' \in [Indexers -> Work]
        /\ reply' \in [Indexers -> {"indexed", "disabled", "failed", None}]
    BY <1>1, <1>9, FinishShape
  <2>2. \A j \in Indexers : pc'[j] = "idle"
    BY <1>1, <2>1 DEF Running
  <2>3. TypeOK'
    BY <1>1, <1>2, <1>8, <2>1, <2>2 DEF TypeOK, config, Tables
  <2> QED BY <1>6, <1>7, <2>2, <2>3 DEF IInv, OnePass, Running
<1>10. CASE ActiveDocuments # {}
  <2>1. /\ pc'[i] = "lookup" /\ work'[i] = new
        /\ \A j \in Indexers \ {i} : pc'[j] = pc[j] /\ work'[j] = work[j]
        /\ pc' \in [Indexers -> Stages] /\ work' \in [Indexers -> Work]
        /\ reply' \in [Indexers -> {"indexed", "disabled", "failed", None}]
    BY <1>1, <1>5, <1>10, GotoShape DEF Stages
  <2>2. \A j \in Indexers \ {i} : pc'[j] = "idle"
    BY <1>1, <2>1 DEF Running
  <2>3. TypeOK'
    BY <1>1, <1>2, <1>8, <2>1, <2>2 DEF TypeOK, config, Tables
  <2>4. WorkConsistent(pc[i], work[i])'
    BY <1>3, <1>4, <1>5, <1>10, <2>1 DEF WorkConsistent
  <2>5. StageHolds(pc[i], work[i])'
    BY <2>1 DEF StageHolds
  <2>6. IdsSuffice(pc[i], work[i])'
    BY <1>2, <1>7, <2>1 DEF IdsSuffice
  <2>7. NothingForgotten(pc[i], work[i])'
    BY <1>3, <1>5, <2>1 DEF NothingForgotten
  <2> QED BY <1>6, <2>1, <2>2, <2>3, <2>4, <2>5, <2>6, <2>7
          DEF IInv, OnePass, Running, PassOK
<1> QED BY <1>9, <1>10

-----------------------------------------------------------------------------
(***************************************************************************)
(* What happens between the steps of a pass.                               *)
(***************************************************************************)
LEMMA EnvironmentKeeps ==
    ASSUME IInv, TypeOK', UNCHANGED <<mixed, passes, pc, work, Tables>>,
           auth'.model = DefaultModel[auth'.provider]
    PROVE  IInv'
<1>1. UNCHANGED <<meta, vectors, dimension, enabled>>
  BY DEF Tables
<1>2. TablesAgree'
  BY <1>1 DEF IInv, TablesAgree, VectorsMatchMetadata, StoredDimensionsAgree, ModelsAreOwn,
              HasVector
<1>3. \A i \in Indexers : Running(i)' <=> Running(i)
  BY DEF Running
<1>4. RowsUpTo(passes * NumConcepts) => RowsUpTo(passes * NumConcepts)'
  BY <1>1 DEF RowsUpTo
<1>5. \A i \in Indexers : PassOK(pc[i], work[i]) => PassOK(pc[i], work[i])'
  <2> TAKE i \in Indexers
  <2>1. WorkConsistent(pc[i], work[i]) => WorkConsistent(pc[i], work[i])'
    BY <1>1 DEF WorkConsistent
  <2>2. StageHolds(pc[i], work[i]) => StageHolds(pc[i], work[i])'
    BY <1>1 DEF StageHolds, Fits
  <2>3. IdsSuffice(pc[i], work[i]) => IdsSuffice(pc[i], work[i])'
    BY <1>1 DEF IdsSuffice, RowsUpTo, Before
  <2>4. NothingForgotten(pc[i], work[i]) => NothingForgotten(pc[i], work[i])'
    BY <1>1 DEF NothingForgotten, Stored, HasVector
  <2> QED BY <2>1, <2>2, <2>3, <2>4 DEF PassOK
<1>6. OnePass'
  BY <1>3 DEF IInv, OnePass
<1>7. (\A i \in Indexers : ~Running(i)') => RowsUpTo(passes * NumConcepts)'
  BY <1>3, <1>4 DEF IInv
<1>8. \A i \in Indexers : Running(i)' => PassOK(pc[i], work[i])'
  BY <1>3, <1>5 DEF IInv
<1> QED BY <1>2, <1>6, <1>7, <1>8 DEF IInv

LEMMA EditConceptKeeps ==
    ASSUME IInv, NEW c \in Concepts, EditConcept(c)
    PROVE  IInv'
<1>1. TypeOK /\ auth.model = DefaultModel[auth.provider]
  BY DEF IInv, TablesAgree, ModelsAreOwn
<1>2. TypeOK'
  BY <1>1, BoundsAssumption DEF EditConcept, TypeOK, config, Tables
<1> QED BY <1>1, <1>2, EnvironmentKeeps DEF EditConcept, config

LEMMA ConfiguringKeeps ==
    ASSUME IInv,
           ConfigureEmbedding \/ SaveProvider \/ SaveModel \/ SaveAuthFile \/ SaveFails
    PROVE  IInv'
<1>1. TypeOK /\ auth.model = DefaultModel[auth.provider]
  BY DEF IInv, TablesAgree, ModelsAreOwn
<1>2. saving.next \in {"provider", "model", "auth"} =>
         /\ saving.provider \in Providers /\ DefaultModel[saving.provider] \in Models
         /\ saving \in [provider : Providers, next : {"provider", "model", "auth"}]
  <2>1. saving.next \in {"provider", "model", "auth"} => saving # NotSaving
    BY DEF NotSaving
  <2> QED BY <1>1, <2>1, ProvidersAssumption DEF TypeOK, Models, Range
<1>3. CASE ConfigureEmbedding
  BY <1>1, <1>3, EnvironmentKeeps, BoundsAssumption DEF ConfigureEmbedding, TypeOK, Tables
<1>4. CASE SaveProvider
  <2>1. TypeOK'
    BY <1>1, <1>2, <1>4 DEF SaveProvider, SaveStep, TypeOK, Tables
  <2> QED BY <1>1, <1>4, <2>1, EnvironmentKeeps DEF SaveProvider, SaveStep
<1>5. CASE SaveModel
  <2>1. TypeOK'
    BY <1>1, <1>2, <1>5 DEF SaveModel, SaveStep, TypeOK, Tables
  <2> QED BY <1>1, <1>5, <2>1, EnvironmentKeeps DEF SaveModel, SaveStep
<1>6. CASE SaveAuthFile
  <2>1. auth' = [provider |-> saving.provider, model |-> DefaultModel[saving.provider]]
    BY <1>6 DEF SaveAuthFile, ModelOf
  <2>2. TypeOK'
    BY <1>1, <1>2, <1>6, <2>1 DEF SaveAuthFile, SaveStep, TypeOK, Tables
  <2> QED BY <1>6, <2>1, <2>2, EnvironmentKeeps DEF SaveAuthFile, SaveStep
<1>7. CASE SaveFails
  BY <1>1, <1>7, EnvironmentKeeps DEF SaveFails, TypeOK, Tables
<1> QED BY <1>3, <1>4, <1>5, <1>6, <1>7

-----------------------------------------------------------------------------
(***************************************************************************)
(* The invariant, and what it gives.                                       *)
(***************************************************************************)
LEMMA InitEstablishes ==
    ASSUME Init
    PROVE  IInv
<1>1. NoWork \in Work /\ NoVectors \in [Ids -> VectorRows \cup {None}]
  BY DEF NoWork, Work, NoVectors
<1>2. Mock \in Providers /\ DefaultModel[Mock] \in Models
  BY ProvidersAssumption DEF Models, Range
<1>3. auth = [provider |-> Mock, model |-> DefaultModel[Mock]]
  BY DEF Init, ModelOf
<1>4. TypeOK
  <2>1. auth \in [provider : Providers, model : Models]
    BY <1>2, <1>3
  <2>2. pc \in [Indexers -> Stages]
        /\ \A i \in Indexers : pc[i] \notin {"upsert", "check", "store"}
    BY DEF Init, Stages
  <2>3. passes \in 0 .. MaxPasses /\ changes \in 0 .. MaxChanges
    BY BoundsAssumption DEF Init
  <2> QED BY <1>1, <2>1, <2>2, <2>3 DEF Init, TypeOK
<1>5. \A i \in Indexers : ~Running(i)
  BY DEF Init, Running
<1>6. \A id \in Ids : ~HasVector(id)
  BY DEF Init, HasVector, NoVectors
<1>7. TablesAgree
  BY <1>3, <1>6 DEF TablesAgree, VectorsMatchMetadata, StoredDimensionsAgree, ModelsAreOwn
<1>8. RowsUpTo(passes * NumConcepts)
  BY DEF Init, RowsUpTo
<1> QED BY <1>4, <1>5, <1>7, <1>8 DEF IInv, OnePass

LEMMA NextKeeps ==
    ASSUME MaxRunning = 1, IInv, [Next]_vars
    PROVE  IInv'
<1>1. ASSUME NEW i \in Indexers, Step(i) PROVE IInv'
  BY <1>1, StartKeeps, LookupKeeps, ClearSettingsKeeps, EmbedTextsKeeps, EnsureCapabilityKeeps,
     DropTableKeeps, CreateTableKeeps, ConfigureKeeps, FirstEmbeddingKeeps, AllocateIdKeeps,
     UpsertEmbeddingKeeps, CheckCapabilityKeeps, UpsertVectorKeeps, CrashKeeps
  DEF Step
<1>2. CASE UNCHANGED vars
  <2>1. TypeOK'
    BY <1>2 DEF IInv, vars, config, TypeOK
  <2> QED BY <1>2, <2>1, EnvironmentKeeps DEF IInv, TablesAgree, ModelsAreOwn, vars, config, Tables
<1> QED BY <1>1, <1>2, EditConceptKeeps, ConfiguringKeeps DEF Next

LEMMA EmbeddingInvariant ==
    ASSUME MaxRunning = 1
    PROVE  Spec => []IInv
<1>1. Init => IInv
  BY InitEstablishes
<1>2. IInv /\ [Next]_vars => IInv'
  BY NextKeeps
<1> QED BY <1>1, <1>2, PTL DEF Spec

\* A pass that has just reported success has a row and a vector for all it read,
\* in a table that fits its provider.
LEMMA SuccessMeansIndexed ==
    ASSUME MaxRunning = 1, IInv, [Next]_vars, NEW i \in Indexers,
           pc[i] # "idle", pc'[i] = "idle", reply'[i] = "indexed", ~mixed
    PROVE  /\ \A d \in work[i].seen : Indexed(d, work[i].model)
           /\ enabled' /\ dimension' = Dimension[work[i].provider]
<1>1. PICK j \in Indexers : Step(j)
  <2>1. pc' # pc
    OBVIOUS
  <2> QED BY <2>1
          DEF Next, EditConcept, ConfigureEmbedding, SaveProvider, SaveModel, SaveAuthFile,
              SaveFails, SaveStep, vars
<1>2. ~Start(j)
  BY NobodyRuns DEF Running
<1>3. j = i
  <2>1. Running(j)
    BY <1>1, <1>2
    DEF Step, Lookup, ClearSettings, EmbedTexts, EnsureCapability, DropTable, CreateTable,
        Configure, FirstEmbedding, AllocateId, UpsertEmbedding, CheckCapability, UpsertVector,
        Crash, Running
  <2> QED BY <2>1 DEF IInv, OnePass, Running
<1>4. CASE Lookup(i)
  <2>1. \A d \in work[i].seen : Stored(d, work[i].model)
    BY <1>4, LookupKeeps
  <2>2. UNCHANGED <<meta, vectors, dimension, enabled>>
    BY <1>4 DEF Lookup, Tables
  <2>3. TablesAgree /\ work[i].seen # {}
    BY TheRunningPass DEF IInv, PassOK, WorkConsistent, Running
  <2>4. Fits(work[i]) /\ enabled
    BY <2>1, <2>3, ReusedMeansFits DEF Running
  <2>5. \A d \in work[i].seen : Indexed(d, work[i].model)
    BY <2>1, <2>2, <2>3
    DEF Stored, Indexed, HasVector, TablesAgree, VectorsMatchMetadata
  <2> QED BY <2>2, <2>4, <2>5 DEF Fits
<1>5. CASE UpsertVector(i)
  BY <1>5, UpsertVectorKeeps
<1>6. CASE EmbedTexts(i) \/ Crash(i)
  BY <1>6, EmbedTextsKeeps, CrashKeeps
<1>7. CASE \/ ClearSettings(i) \/ EnsureCapability(i) \/ DropTable(i) \/ CreateTable(i)
           \/ Configure(i) \/ FirstEmbedding(i) \/ AllocateId(i) \/ UpsertEmbedding(i)
           \/ CheckCapability(i)
  BY <1>7, ClearSettingsKeeps, EnsureCapabilityKeeps, DropTableKeeps, CreateTableKeeps,
     ConfigureKeeps, FirstEmbeddingKeeps, AllocateIdKeeps, UpsertEmbeddingKeeps,
     CheckCapabilityKeeps
<1> QED BY <1>1, <1>2, <1>3, <1>4, <1>5, <1>6, <1>7 DEF Step

\* Every variable has its type: ids do not run out, whatever passes died where.
THEOREM EmbeddingTypeCorrect ==
    ASSUME MaxRunning = 1
    PROVE  Spec => []TypeOK
<1>1. IInv => TypeOK
  BY DEF IInv
<1> QED BY <1>1, EmbeddingInvariant, PTL

\* The vector stored under an id was computed from the content its metadata row
\* names (VectorStore.upsert_vector), when passes do not overlap.
THEOREM VectorsBelongToTheirRows ==
    ASSUME MaxRunning = 1
    PROVE  Spec => []VectorsMatchMetadata
<1>1. IInv => VectorsMatchMetadata
  BY DEF IInv, TablesAgree
<1> QED BY <1>1, EmbeddingInvariant, PTL

\* All stored vectors have the configured dimension (ensure_capability rebuilds
\* the table for another one), when passes do not overlap.
THEOREM StoredVectorsFit ==
    ASSUME MaxRunning = 1
    PROVE  Spec => []StoredDimensionsAgree
<1>1. IInv => StoredDimensionsAgree
  BY DEF IInv, TablesAgree
<1> QED BY <1>1, EmbeddingInvariant, PTL

\* A pass that reports success has a row and a vector for every concept it read
\* (index_active_concept_embeddings), whatever died before it, unless a foreign
\* model was configured.
THEOREM SuccessCoversAll ==
    ASSUME MaxRunning = 1
    PROVE  Spec => FinishedPassCoversAll
<1>1. IInv /\ [Next]_vars =>
         [\A i \in Indexers :
             pc[i] # "idle" /\ pc'[i] = "idle" /\ reply'[i] = "indexed" /\ ~ mixed
             => \A document \in work[i].seen : Indexed(document, work[i].model)]_vars
  BY SuccessMeansIndexed
<1> QED BY <1>1, EmbeddingInvariant, PTL DEF Spec, FinishedPassCoversAll

\* After a pass that reports success the table has the dimension of its
\* provider, also when all was reused, so that searching works.
THEOREM SuccessIsSearchable ==
    ASSUME MaxRunning = 1
    PROVE  Spec => FinishedPassIsSearchable
<1>1. IInv /\ [Next]_vars =>
         [\A i \in Indexers :
             pc[i] # "idle" /\ pc'[i] = "idle" /\ reply'[i] = "indexed" /\ ~ mixed
             => enabled' /\ dimension' = Dimension[work[i].provider]]_vars
  BY SuccessMeansIndexed
<1> QED BY <1>1, EmbeddingInvariant, PTL DEF Spec, FinishedPassIsSearchable
=============================================================================
