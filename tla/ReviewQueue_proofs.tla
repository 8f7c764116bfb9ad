-------------------------- MODULE ReviewQueue_proofs --------------------------
(***************************************************************************)
(* Proofs about ReviewQueue, for any reviewers, issues, commands, labels   *)
(* and bounds: its type invariant, the discipline of the write lock, that  *)
(* the version is a closed flag, that labels stay unique and the lists of  *)
(* variants in step, and that a decision and its effect appear together;   *)
(* and, as long as requests on one issue do not overlap, that it           *)
(* implements ReviewContract.                                              *)
(***************************************************************************)
EXTENDS ReviewQueue, GlossaryStore_proofs, FiniteSetTheorems

\* Part of the inductive invariant: what a request knows.  One that was sent
\* has a command; past its read it holds the snapshot of an open issue, from
\* which the command was planned.
RequestsWellFormed ==
    \A r \in Reviewers :
        /\ pc[r] # "idle" \/ reply[r] \in Replies =>
              cmd[r] \in Commands /\ attempt[r] \in 1 .. MaxAttempts
        /\ pc[r] \in {"begin", "effect", "mark"} =>
              /\ cmd[r].issue \in Issues
              /\ snapshot[r] = DetectedIssue
              /\ PlanReviewAction(DetectedIssue, cmd[r]) = "planned"

\* Part of the inductive invariant: nobody has used the identifiers of the
\* attempts to come, nor those of the attempts in flight before their commit.
FutureIdsUnused ==
    \A r \in Reviewers, k \in 1 .. MaxAttempts :
        k > attempt[r] \/ (k = attempt[r] /\ pc[r] # "idle")
        => Unused(glossary, <<r, k>>)

\* Part of the inductive invariant: the holder of the lock works on the
\* committed tables, and what it has staged is the effect of its command on
\* them.
StagedEffect ==
    \A r \in Reviewers :
        /\ pc[r] = "effect" => tx = glossary
        /\ pc[r] = "mark" =>
              /\ EffectError(glossary, cmd[r]) = "none"
              /\ tx = EffectResult(glossary, cmd[r], NewId(r))

\* What decisions keep true of the tables.
TablesSound ==
    UniqueLabels(glossary) /\ VariantListsAgree(glossary) /\ NoOrphans(glossary)

IInv ==
    /\ TypeOK
    /\ LockMatchesTransaction
    /\ RequestsWellFormed
    /\ VersionIsClosedFlag
    /\ FutureIdsUnused
    /\ StagedEffect
    /\ TablesSound

-----------------------------------------------------------------------------
(***************************************************************************)
(* The glossary operations.                                                *)
(***************************************************************************)
LEMMA TablesType == GlossaryType = Tables(RowIds, Labels, {}, RelationTypes)
  BY DEF GlossaryType, Tables

\* A planned command carries all that its action needs.
LEMMA PlannedIsComplete ==
    ASSUME NEW command, PlanReviewAction(DetectedIssue, command) = "planned"
    PROVE  /\ RequiredFields(command.action) \subseteq DOMAIN command.payload
           /\ command.key # None
           /\ command.expected = 0
  BY DEF PlanReviewAction, DetectedIssue

\* An effect the service lets through, under an identifier that was never
\* used: each label it attaches was looked up in the same tables, the row it
\* writes back is the one in the tables, and its result is there to be seen.
LEMMA EffectSafe ==
    ASSUME NEW g \in GlossaryType, NEW command \in Commands, NEW id \in RowIds,
           RequiredFields(command.action) \subseteq DOMAIN command.payload,
           EffectError(g, command) = "none",
           UniqueLabels(g), VariantListsAgree(g), NoOrphans(g), Unused(g, id)
    PROVE  LET h == EffectResult(g, command, id)
           IN  /\ h \in GlossaryType
               /\ UniqueLabels(h) /\ VariantListsAgree(h) /\ NoOrphans(h)
               /\ \A x \in RowIds \ {id} : Unused(g, x) => Unused(h, x)
               /\ EffectVisible(h, command)
<1> DEFINE p == command.payload
           h == EffectResult(g, command, id)
           action == command.action
<1>0. g \in Tables(RowIds, Labels, {}, RelationTypes)
  BY TablesType
<1>1. CASE action = "resolve_as_new_concept"
  <2>1. h = WriteNewConcept(g, id, id, p["term"], None, {})
    BY <1>1 DEF EffectResult, VariantActions
  <2>2. LabelError(g, p["term"]) = "none"
    BY <1>1 DEF EffectError, VariantActions
  <2>3. "term" \in DOMAIN p
    BY <1>1 DEF RequiredFields, VariantActions
  <2>4. p["term"] \in Labels /\ ~LabelTaken(g, p["term"])
    BY <2>2, <2>3, CommandsAssumption DEF LabelError
  <2>5. None \in {} \cup {None} /\ {} \in SUBSET Tags
    OBVIOUS
  <2> HIDE DEF h, p
  <2>6. /\ h \in Tables(RowIds, Labels, {}, RelationTypes)
        /\ UniqueLabels(h) /\ VariantListsAgree(h) /\ NoOrphans(h)
        /\ \A x \in RowIds : Unused(g, x) /\ x # id => Unused(h, x)
        /\ LiveVariants(h) = LiveVariants(g) \cup {id}
        /\ ConceptExists(h, id)
        /\ h.variants[id].concept = id /\ h.variants[id].label = p["term"]
    BY <1>0, <2>1, <2>4, <2>5, WriteNewConceptSafe, NoneAssumption
  <2>7. EffectVisible(h, command)
    BY <1>1, <2>6 DEF EffectVisible, VariantsOf, VariantActions, p
  <2> QED BY <2>6, <2>7, TablesType DEF h
<1>2. CASE action \in VariantActions
  <2> DEFINE c == p["concept_id"]
             type == VariantTypeOf(action)
             status == VariantStatusOf(type)
  <2>1. h = WriteNewVariant(g, c, g.concepts[c], id, p["variant"], type, status)
    BY <1>2 DEF EffectResult, VariantActions
  <2>2. VariantError(g, p) = "none"
    BY <1>2 DEF EffectError, VariantActions
  <2>3. ConceptExists(g, c) /\ LabelError(g, p["variant"]) = "none"
    BY <2>2 DEF VariantError
  <2>4. "variant" \in DOMAIN p
    BY <1>2 DEF RequiredFields, VariantActions
  <2>5. p["variant"] \in Labels /\ ~LabelTaken(g, p["variant"])
    BY <2>3, <2>4, CommandsAssumption DEF LabelError
  <2>6. c \in RowIds /\ g.concepts[c] \in ConceptRows(RowIds, Labels, {})
    BY <1>0, <2>3 DEF ConceptExists, Tables, Glossaries
  <2>7. type \in VariantTypes /\ status \in VariantStatuses
    BY <1>2 DEF VariantTypes, VariantStatuses, VariantTypeOf, VariantStatusOf,
                VariantActions
  <2> HIDE DEF h, c, type, status
  <2>8. /\ h \in Tables(RowIds, Labels, {}, RelationTypes)
        /\ UniqueLabels(h) /\ VariantListsAgree(h) /\ NoOrphans(h)
        /\ \A x \in RowIds : Unused(g, x) /\ x # id => Unused(h, x)
        /\ LiveVariants(h) = LiveVariants(g) \cup {id}
        /\ h.variants[id].concept = c /\ h.variants[id].label = p["variant"]
    BY <1>0, <2>1, <2>3, <2>5, <2>6, <2>7, WriteNewVariantSafe, NoneAssumption
  <2>9. EffectVisible(h, command)
    BY <1>2, <2>8 DEF EffectVisible, VariantsOf, VariantActions, c
  <2> QED BY <2>8, <2>9, TablesType DEF h
<1>3. CASE action = "resolve_as_relation"
  <2>1. h = InsertRelation(g, Triple(p))
    BY <1>3 DEF EffectResult, VariantActions
  <2>2. RelationError(g, p) = "none"
    BY <1>3 DEF EffectError, VariantActions
  <2>3. /\ ConceptExists(g, p["source_concept_id"])
        /\ ConceptExists(g, p["target_concept_id"])
    BY <2>2 DEF RelationError
  <2>4. p["relation_type"] \in RelationTypes
    BY <1>3, CommandsAssumption DEF RequiredFields, VariantActions
  <2> HIDE DEF h
  <2>5. /\ h \in Tables(RowIds, Labels, {}, RelationTypes)
        /\ h.concepts = g.concepts /\ h.variants = g.variants
        /\ h.relations = g.relations \cup {Triple(p)}
        /\ UniqueLabels(h) /\ VariantListsAgree(h) /\ NoOrphans(h)
    BY <1>0, <2>1, <2>3, <2>4, InsertRelationSafe DEF Triple
  <2>6. EffectVisible(h, command)
    BY <1>3, <2>5 DEF EffectVisible, VariantActions
  <2> QED BY <2>5, <2>6, TablesType DEF h, Unused
<1>4. CASE /\ action # "resolve_as_new_concept"
           /\ action \notin VariantActions
           /\ action # "resolve_as_relation"
  <2>1. h = g
    BY <1>4 DEF EffectResult
  <2>2. EffectVisible(g, command)
    BY <1>4 DEF EffectVisible, EffectError, ExistingError
  <2> QED BY <2>1, <2>2
<1> QED BY <1>1, <1>2, <1>3, <1>4

-----------------------------------------------------------------------------
(***************************************************************************)
(* The inductive invariant.                                                *)
(***************************************************************************)
\* The seeded glossary is well-typed and sound, and uses the seeds' identifiers.
LEMMA SeedGlossarySafe ==
    /\ SeedGlossary \in GlossaryType
    /\ UniqueLabels(SeedGlossary)
    /\ VariantListsAgree(SeedGlossary)
    /\ NoOrphans(SeedGlossary)
    /\ \A x \in RowIds \ DOMAIN SeedLabels : Unused(SeedGlossary, x)
<1> DEFINE seeds == DOMAIN SeedLabels
           g == SeedGlossary
<1>1. \A c \in seeds : SeedConcept(c) \in ConceptRows(RowIds, Labels, {})
  BY SeedAssumption DEF SeedConcept, ConceptRows, ConceptStatuses, RowIds
<1>2. \A c \in seeds : SeedVariant(c) \in VariantRows(RowIds, Labels)
  BY SeedAssumption
  DEF SeedVariant, VariantRows, VariantTypes, VariantStatuses, RowIds
<1>3. g \in GlossaryType
  BY <1>1, <1>2 DEF SeedGlossary, GlossaryType, Glossaries
<1>4. /\ g.concepts = [c \in RowIds |-> IF c \in seeds THEN SeedConcept(c) ELSE None]
      /\ g.variants = [v \in RowIds |-> IF v \in seeds THEN SeedVariant(v) ELSE None]
      /\ g.relations = {} /\ g.tagLinks = [c \in RowIds |-> {}]
  BY DEF SeedGlossary
<1>5. \A c \in seeds : SeedConcept(c).variants = {c}
  BY DEF SeedConcept
<1>6. \A v \in seeds : SeedVariant(v).concept = v /\ SeedVariant(v).label = SeedLabels[v]
  BY DEF SeedVariant
<1> HIDE DEF g
<1>7. \A c \in seeds : SeedConcept(c) # None /\ SeedVariant(c) # None
  BY <1>1, <1>2, NoneAssumption
<1>8. /\ LiveVariants(g) = seeds
      /\ \A c : ConceptExists(g, c) <=> c \in seeds
  <2>1. \A x \in RowIds : /\ g.variants[x] # None <=> x \in seeds
                          /\ g.concepts[x] # None <=> x \in seeds
    BY <1>4, <1>7
  <2>2. DOMAIN g.variants = RowIds /\ DOMAIN g.concepts = RowIds
        /\ seeds \subseteq RowIds
    BY <1>4 DEF RowIds
  <2> QED BY <2>1, <2>2 DEF LiveVariants, ConceptExists
<1>9. \A c \in seeds : /\ g.variants[c] = SeedVariant(c)
                       /\ g.concepts[c] = SeedConcept(c)
                       /\ VariantsOf(g, c) = {c}
  BY <1>4, <1>6, <1>8 DEF VariantsOf, RowIds
<1>10. UniqueLabels(g)
  BY <1>6, <1>8, <1>9, SeedAssumption DEF UniqueLabels
<1>11. VariantListsAgree(g)
  BY <1>5, <1>8, <1>9 DEF VariantListsAgree
<1>12. NoOrphans(g)
  <2>1. \A v \in LiveVariants(g) : ConceptExists(g, g.variants[v].concept)
    BY <1>6, <1>8, <1>9
  <2>2. g.relations = {} /\ \A c \in DOMAIN g.tagLinks : g.tagLinks[c] = {}
    BY <1>4
  <2> QED BY <2>1, <2>2 DEF NoOrphans
<1>13. \A x \in RowIds \ seeds : Unused(g, x)
  BY <1>4 DEF Unused
<1> QED BY <1>3, <1>10, <1>11, <1>12, <1>13 DEF g

\* The inductive invariant holds at the start.
LEMMA InitIInv == Init => IInv
<1> SUFFICES ASSUME Init PROVE IInv
  OBVIOUS
<1>1. TypeOK
  BY SeedGlossarySafe, BoundsAssumption
  DEF Init, TypeOK, IssueRows, IssueStatuses, DetectedIssue, Stages
<1>2. LockMatchesTransaction
  BY NoneAssumption DEF Init, LockMatchesTransaction
<1>3. RequestsWellFormed
  BY NoneAssumption DEF Init, RequestsWellFormed
<1>4. VersionIsClosedFlag
  BY DEF Init, VersionIsClosedFlag, DetectedIssue
<1>5. FutureIdsUnused
  <2>1. \A r \in Reviewers, k \in 1 .. MaxAttempts :
           <<r, k>> \in RowIds \ DOMAIN SeedLabels
    BY FreshIdsAssumption DEF RowIds
  <2> QED BY <2>1, SeedGlossarySafe DEF Init, FutureIdsUnused
<1>6. StagedEffect /\ TablesSound
  BY SeedGlossarySafe DEF Init, StagedEffect, TablesSound
<1> QED BY <1>1, <1>2, <1>3, <1>4, <1>5, <1>6 DEF IInv

\* Every step that leaves the tables and the issues alone, and ends one
\* request, keeps the invariant.
LEMMA AnswerSafe ==
    ASSUME IInv, NEW r \in Reviewers, pc[r] # "idle", NEW answer \in Replies,
           Answer(r, answer), UNCHANGED <<issues, glossary, cmd, attempt, checks>>,
           \/ UNCHANGED <<lock, tx>> /\ lock # r
           \/ lock = r /\ lock' = None /\ tx' = None
    PROVE  IInv'
<1>1. TypeOK'
  BY DEF IInv, TypeOK, Answer, Stages
<1>2. LockMatchesTransaction'
  BY NoneAssumption DEF IInv, TypeOK, LockMatchesTransaction, Answer
<1>3. RequestsWellFormed'
  BY DEF IInv, TypeOK, RequestsWellFormed, Answer
<1>4. VersionIsClosedFlag' /\ TablesSound'
  BY DEF IInv, VersionIsClosedFlag, TablesSound
<1>5. FutureIdsUnused'
  BY DEF IInv, TypeOK, FutureIdsUnused, Answer
<1>6. StagedEffect'
  BY DEF IInv, TypeOK, LockMatchesTransaction, StagedEffect, Answer, NewId
<1> QED BY <1>1, <1>2, <1>3, <1>4, <1>5, <1>6 DEF IInv

\* Sending a command, for the first time or again, keeps the invariant.
LEMMA SendSafe ==
    ASSUME IInv, NEW r \in Reviewers, NEW command \in Commands, Send(r, command)
    PROVE  IInv'
<1>1. TypeOK'
  BY BoundsAssumption DEF IInv, TypeOK, Send, Stages
<1>2. LockMatchesTransaction'
  BY DEF IInv, TypeOK, LockMatchesTransaction, Send
<1>3. RequestsWellFormed'
  BY BoundsAssumption DEF IInv, TypeOK, RequestsWellFormed, Send
<1>4. VersionIsClosedFlag' /\ TablesSound'
  BY DEF IInv, Send, VersionIsClosedFlag, TablesSound
<1>5. FutureIdsUnused'
  BY BoundsAssumption DEF IInv, TypeOK, FutureIdsUnused, Send
<1>6. StagedEffect'
  BY DEF IInv, TypeOK, StagedEffect, Send, NewId
<1> QED BY <1>1, <1>2, <1>3, <1>4, <1>5, <1>6 DEF IInv

\* The read before the transaction keeps the invariant: what goes on to the
\* transaction is a well-formed request with a snapshot of an open row.
LEMMA ReadAndPlanSafe ==
    ASSUME IInv, NEW r \in Reviewers, ReadAndPlan(r)
    PROVE  IInv'
<1> DEFINE i == cmd[r].issue
           verdict == PlanReviewAction(issues[i], cmd[r])
<1>1. pc[r] = "read" /\ lock # r
  BY DEF ReadAndPlan, IInv, LockMatchesTransaction
<1>2. CASE i \notin Issues \/ issues[i] = None
  <2>1. Answer(r, "issue_not_found")
    BY <1>2 DEF ReadAndPlan
  <2> QED BY <1>1, <2>1, AnswerSafe DEF ReadAndPlan, Replies, Refusals
<1>3. CASE ~(i \notin Issues \/ issues[i] = None) /\ verdict # "planned"
  <2>1. Answer(r, verdict)
    BY <1>3 DEF ReadAndPlan
  <2>2. verdict \in Replies
    BY <1>3 DEF PlanReviewAction, Replies, Refusals
  <2> QED BY <1>1, <2>1, <2>2, AnswerSafe DEF ReadAndPlan
<1>4. CASE ~(i \notin Issues \/ issues[i] = None) /\ verdict = "planned"
  <2>1. /\ pc' = [pc EXCEPT ![r] = "begin"]
        /\ snapshot' = [snapshot EXCEPT ![r] = issues[i]]
        /\ UNCHANGED <<reply, issues, glossary, lock, tx, cmd, attempt, checks>>
    BY <1>4 DEF ReadAndPlan
  <2>2. issues[i] \in IssueRows /\ issues[i].status = "open"
    BY <1>4 DEF PlanReviewAction, IInv, TypeOK
  <2>3. issues[i].version = 0 /\ issues[i].key = None
    BY <1>4, <2>2 DEF IInv, VersionIsClosedFlag
  <2>4. issues[i] = DetectedIssue
    BY <2>2, <2>3 DEF IssueRows, DetectedIssue
  <2>5. TypeOK'
    BY <2>1, <2>2 DEF IInv, TypeOK, Stages
  <2>6. LockMatchesTransaction'
    BY <1>1, <2>1 DEF IInv, TypeOK, LockMatchesTransaction
  <2>7. RequestsWellFormed'
    <3> SUFFICES ASSUME NEW q \in Reviewers
                 PROVE  RequestsWellFormed!(q)'
      BY DEF RequestsWellFormed
    <3>1. CASE q = r
      BY <1>1, <1>4, <2>1, <2>4, <3>1 DEF IInv, TypeOK, RequestsWellFormed
    <3>2. CASE q # r
      BY <2>1, <3>2 DEF IInv, TypeOK, RequestsWellFormed
    <3> QED BY <3>1, <3>2
  <2>8. VersionIsClosedFlag' /\ TablesSound'
    BY <2>1 DEF IInv, VersionIsClosedFlag, TablesSound
  <2>9. FutureIdsUnused'
    BY <1>1, <2>1 DEF IInv, TypeOK, FutureIdsUnused
  <2>10. StagedEffect'
    BY <2>1 DEF IInv, TypeOK, StagedEffect, NewId
  <2> QED BY <2>5, <2>6, <2>7, <2>8, <2>9, <2>10 DEF IInv
<1> QED BY <1>2, <1>3, <1>4

\* The transaction starts from the committed tables.
LEMMA BeginWriteSafe ==
    ASSUME IInv, NEW r \in Reviewers, BeginWrite(r)
    PROVE  IInv'
<1>1. TypeOK'
  BY DEF IInv, TypeOK, BeginWrite, Stages
<1>2. LockMatchesTransaction'
  BY NoneAssumption DEF IInv, TypeOK, LockMatchesTransaction, BeginWrite
<1>3. RequestsWellFormed'
  BY DEF IInv, TypeOK, RequestsWellFormed, BeginWrite
<1>4. VersionIsClosedFlag' /\ TablesSound'
  BY DEF IInv, VersionIsClosedFlag, TablesSound, BeginWrite
<1>5. FutureIdsUnused'
  BY DEF IInv, TypeOK, FutureIdsUnused, BeginWrite
<1>6. StagedEffect'
  BY NoneAssumption
  DEF IInv, TypeOK, LockMatchesTransaction, StagedEffect, BeginWrite
<1> QED BY <1>1, <1>2, <1>3, <1>4, <1>5, <1>6 DEF IInv

\* A request inside its transaction: what it needs to have its effect.
LEMMA InTransaction ==
    ASSUME IInv, NEW r \in Reviewers, pc[r] \in {"effect", "mark"}
    PROVE  /\ lock = r /\ tx # None /\ lock # None
           /\ cmd[r] \in Commands /\ cmd[r].issue \in Issues
           /\ snapshot[r] = DetectedIssue
           /\ PlanReviewAction(DetectedIssue, cmd[r]) = "planned"
           /\ NewId(r) \in RowIds /\ Unused(glossary, NewId(r))
           /\ glossary \in GlossaryType /\ TablesSound
<1>1. lock = r /\ tx # None /\ lock # None
  BY NoneAssumption DEF IInv, LockMatchesTransaction
<1>2. /\ cmd[r] \in Commands /\ cmd[r].issue \in Issues
      /\ attempt[r] \in 1 .. MaxAttempts
      /\ snapshot[r] = DetectedIssue
      /\ PlanReviewAction(DetectedIssue, cmd[r]) = "planned"
  BY DEF IInv, RequestsWellFormed
<1>3. NewId(r) \in RowIds /\ Unused(glossary, NewId(r))
  BY <1>2 DEF IInv, FutureIdsUnused, NewId, RowIds
<1> QED BY <1>1, <1>2, <1>3 DEF IInv, TypeOK

\* What an allowed effect would leave in the committed tables.
LEMMA EffectOnTables ==
    ASSUME IInv, NEW r \in Reviewers, pc[r] \in {"effect", "mark"},
           EffectError(glossary, cmd[r]) = "none"
    PROVE  LET h == EffectResult(glossary, cmd[r], NewId(r))
           IN  /\ h \in GlossaryType
               /\ UniqueLabels(h) /\ VariantListsAgree(h) /\ NoOrphans(h)
               /\ \A x \in RowIds \ {NewId(r)} : Unused(glossary, x) => Unused(h, x)
               /\ EffectVisible(h, cmd[r])
  BY InTransaction, PlannedIsComplete, EffectSafe DEF TablesSound

\* The heart of the matter: the effect is worked out from the very tables it
\* is written to, those of the transaction.
LEMMA ApplyEffectSafe ==
    ASSUME IInv, NEW r \in Reviewers, ApplyEffect(r)
    PROVE  IInv'
<1> DEFINE error == EffectError(tx, cmd[r])
<1>1. pc[r] = "effect" /\ lock = r /\ tx # None /\ tx = glossary
  BY InTransaction DEF ApplyEffect, IInv, StagedEffect
<1>2. CASE error = "none"
  <2>1. /\ tx' = EffectResult(glossary, cmd[r], NewId(r))
        /\ EffectError(glossary, cmd[r]) = "none"
        /\ pc' = [pc EXCEPT ![r] = "mark"]
        /\ UNCHANGED <<issues, glossary, lock, snapshot, reply, cmd, attempt, checks>>
    BY <1>1, <1>2 DEF ApplyEffect
  <2>2. tx' \in GlossaryType
    BY <1>1, <2>1, EffectOnTables
  <2>3. TypeOK'
    BY <2>1, <2>2 DEF IInv, TypeOK, Stages
  <2>4. LockMatchesTransaction'
    BY <1>1, <2>1, <2>2, NoneAssumption DEF IInv, TypeOK, LockMatchesTransaction
  <2>5. RequestsWellFormed'
    BY <1>1, <2>1 DEF IInv, TypeOK, RequestsWellFormed
  <2>6. VersionIsClosedFlag' /\ TablesSound'
    BY <2>1 DEF IInv, VersionIsClosedFlag, TablesSound
  <2>7. FutureIdsUnused'
    BY <1>1, <2>1 DEF IInv, TypeOK, FutureIdsUnused
  <2>8. StagedEffect'
    BY <1>1, <2>1 DEF IInv, TypeOK, LockMatchesTransaction, StagedEffect, NewId
  <2> QED BY <2>3, <2>4, <2>5, <2>6, <2>7, <2>8 DEF IInv
<1>3. CASE error # "none"
  <2>1. Answer(r, error) /\ RollBack(r)
    BY <1>3 DEF ApplyEffect
  <2>2. error \in Replies
    BY <1>3 DEF EffectError, LabelError, VariantError, RelationError,
                ExistingError, Replies, Refusals
  <2> QED BY <1>1, <2>1, <2>2, AnswerSafe DEF ApplyEffect, RollBack
<1> QED BY <1>2, <1>3

\* The commit publishes the staged tables and closes the issue at version 1,
\* because the row the snapshot holds was at version 0.
LEMMA MarkAndCommitSafe ==
    ASSUME IInv, NEW r \in Reviewers, MarkAndCommit(r)
    PROVE  IInv' /\ EffectVisible(glossary', cmd[r])
<1> DEFINE i == cmd[r].issue
           row == [status  |-> NextStatus(cmd[r].action),
                   version |-> snapshot[r].version + 1,
                   key     |-> cmd[r].key]
<1>1. pc[r] = "mark"
  BY DEF MarkAndCommit
<1>2. /\ lock = r /\ lock # None /\ cmd[r] \in Commands /\ i \in Issues
      /\ snapshot[r] = DetectedIssue
      /\ NewId(r) \in RowIds
  BY <1>1, InTransaction
<1>3. issues' = [issues EXCEPT ![i] = row] /\ glossary' = tx
  BY DEF MarkAndCommit
<1>4. row.version = 1 /\ row.status \in ClosedStatuses /\ row.key \in Keys
  BY <1>2 DEF DetectedIssue, NextStatus, ClosedStatuses, IssueStatuses, Keys
<1>5. row \in IssueRows
  BY <1>4 DEF IssueRows, ClosedStatuses
<1>6. /\ EffectError(glossary, cmd[r]) = "none"
      /\ glossary' = EffectResult(glossary, cmd[r], NewId(r))
  BY <1>1, <1>3 DEF IInv, StagedEffect
<1>7. /\ glossary' \in GlossaryType
      /\ UniqueLabels(glossary') /\ VariantListsAgree(glossary')
      /\ NoOrphans(glossary')
      /\ \A x \in RowIds \ {NewId(r)} : Unused(glossary, x) => Unused(glossary', x)
      /\ EffectVisible(glossary', cmd[r])
  BY <1>1, <1>6, EffectOnTables
<1>8. PICK answer \in {"applied", "no_answer"} : Answer(r, answer)
  BY DEF MarkAndCommit
<1>9. /\ lock' = None /\ tx' = None
      /\ UNCHANGED <<cmd, attempt, checks>>
  BY DEF MarkAndCommit
<1> HIDE DEF row
<1>10. TypeOK'
  BY <1>3, <1>5, <1>7, <1>8, <1>9
  DEF IInv, TypeOK, Answer, Stages, Replies, Retriable
<1>11. LockMatchesTransaction'
  BY <1>2, <1>8, <1>9, NoneAssumption
  DEF IInv, TypeOK, LockMatchesTransaction, Answer
<1>12. RequestsWellFormed'
  BY <1>1, <1>8, <1>9 DEF IInv, TypeOK, RequestsWellFormed, Answer
<1>13. VersionIsClosedFlag'
  BY <1>2, <1>3, <1>4, NoneAssumption
  DEF IInv, TypeOK, VersionIsClosedFlag, ClosedStatuses
<1>14. FutureIdsUnused'
  <2> SUFFICES ASSUME NEW q \in Reviewers, NEW k \in 1 .. MaxAttempts,
                      k > attempt'[q] \/ (k = attempt'[q] /\ pc'[q] # "idle")
               PROVE  Unused(glossary', <<q, k>>)
    BY DEF FutureIdsUnused
  <2>1. k > attempt[q] \/ (k = attempt[q] /\ pc[q] # "idle" /\ q # r)
    BY <1>8, <1>9 DEF IInv, TypeOK, Answer
  <2>2. Unused(glossary, <<q, k>>)
    BY <2>1 DEF IInv, FutureIdsUnused
  <2>3. <<q, k>> # <<r, attempt[r]>>
    BY <2>1 DEF IInv, TypeOK
  <2>4. <<q, k>> \in RowIds \ {NewId(r)}
    BY <2>3 DEF RowIds, NewId
  <2> QED BY <1>7, <2>2, <2>4
<1>15. StagedEffect'
  BY <1>2, <1>8, <1>9 DEF IInv, TypeOK, LockMatchesTransaction, StagedEffect, Answer
<1>16. TablesSound'
  BY <1>7 DEF TablesSound
<1> QED
  BY <1>7, <1>10, <1>11, <1>12, <1>13, <1>14, <1>15, <1>16 DEF IInv

\* A document check writes an open row at version 0 without a key.
LEMMA CheckWritesIssueSafe ==
    ASSUME IInv, NEW i \in Issues, CheckWritesIssue(i)
    PROVE  IInv'
<1>1. DetectedIssue \in IssueRows
  BY DEF DetectedIssue, IssueRows, IssueStatuses
<1>2. TypeOK'
  BY <1>1, BoundsAssumption DEF IInv, TypeOK, CheckWritesIssue
<1>3. VersionIsClosedFlag'
  BY DEF IInv, TypeOK, VersionIsClosedFlag, CheckWritesIssue, DetectedIssue
<1>4. LockMatchesTransaction' /\ RequestsWellFormed'
  BY DEF IInv, LockMatchesTransaction, RequestsWellFormed, CheckWritesIssue
<1>5. FutureIdsUnused' /\ StagedEffect' /\ TablesSound'
  BY DEF IInv, FutureIdsUnused, StagedEffect, TablesSound, CheckWritesIssue, NewId
<1> QED BY <1>2, <1>3, <1>4, <1>5 DEF IInv

\* A deletion runs while nobody holds the lock, so no staged copy goes stale.
LEMMA EditorDeletesConceptSafe ==
    ASSUME IInv, NEW c \in RowIds, EditorDeletesConcept(c)
    PROVE  IInv'
<1>1. glossary \in Tables(RowIds, Labels, {}, RelationTypes)
      /\ glossary' = DeleteConcept(glossary, c)
      /\ UniqueLabels(glossary) /\ VariantListsAgree(glossary) /\ NoOrphans(glossary)
  BY TablesType DEF IInv, TypeOK, TablesSound, EditorDeletesConcept
<1>2. /\ glossary' \in GlossaryType
      /\ UniqueLabels(glossary') /\ VariantListsAgree(glossary')
      /\ NoOrphans(glossary')
      /\ \A x \in RowIds : Unused(glossary, x) => Unused(glossary', x)
  BY <1>1, DeleteConceptSafe, TablesType
<1>3. lock = None /\ UNCHANGED <<issues, lock, tx, pc, cmd, attempt, snapshot, reply, checks>>
  BY DEF EditorDeletesConcept
<1>4. TypeOK'
  BY <1>2, <1>3 DEF IInv, TypeOK
<1>5. VersionIsClosedFlag'
  BY <1>3 DEF IInv, VersionIsClosedFlag
<1>6. LockMatchesTransaction' /\ RequestsWellFormed'
  BY <1>3 DEF IInv, LockMatchesTransaction, RequestsWellFormed
<1>7. FutureIdsUnused'
  BY <1>2, <1>3 DEF IInv, FutureIdsUnused, RowIds
<1>8. StagedEffect'
  BY <1>3, NoneAssumption DEF IInv, LockMatchesTransaction, StagedEffect
<1>9. TablesSound'
  BY <1>2 DEF TablesSound
<1> QED BY <1>4, <1>5, <1>6, <1>7, <1>8, <1>9 DEF IInv

\* The inductive step, one action at a time.
LEMMA NextIInv == IInv /\ [Next]_vars => IInv'
<1> SUFFICES ASSUME IInv, [Next]_vars PROVE IInv'
  OBVIOUS
<1>1. ASSUME NEW r \in Reviewers, Submit(r) PROVE IInv'
  BY <1>1, SendSafe DEF Submit
<1>2. ASSUME NEW r \in Reviewers, Retry(r) PROVE IInv'
  <2>1. cmd[r] \in Commands /\ Send(r, cmd[r])
    BY <1>2 DEF Retry, IInv, RequestsWellFormed, Replies
  <2> QED BY <2>1, SendSafe
<1>3. ASSUME NEW r \in Reviewers, ReadAndPlan(r) PROVE IInv'
  BY <1>3, ReadAndPlanSafe
<1>4. ASSUME NEW r \in Reviewers, BeginWrite(r) PROVE IInv'
  BY <1>4, BeginWriteSafe
<1>5. ASSUME NEW r \in Reviewers, BusyTimeout(r) PROVE IInv'
  <2>1. lock # r
    BY <1>5 DEF BusyTimeout, IInv, LockMatchesTransaction
  <2> QED BY <1>5, <2>1, AnswerSafe DEF BusyTimeout, Replies, Retriable
<1>6. ASSUME NEW r \in Reviewers, ApplyEffect(r) PROVE IInv'
  BY <1>6, ApplyEffectSafe
<1>7. ASSUME NEW r \in Reviewers, MarkAndCommit(r) PROVE IInv'
  BY <1>7, MarkAndCommitSafe
<1>8. ASSUME NEW r \in Reviewers, Crash(r) PROVE IInv'
  <2>1. CASE lock = r
    BY <1>8, <2>1, AnswerSafe DEF Crash, RollBack, Replies, Retriable
  <2>2. CASE lock # r
    BY <1>8, <2>2, AnswerSafe DEF Crash, Replies, Retriable
  <2> QED BY <2>1, <2>2
<1>9. ASSUME NEW i \in Issues, CheckWritesIssue(i) PROVE IInv'
  BY <1>9, CheckWritesIssueSafe
<1>10. ASSUME NEW c \in RowIds, EditorDeletesConcept(c) PROVE IInv'
  BY <1>10, EditorDeletesConceptSafe
<1>11. CASE UNCHANGED vars
  BY <1>11 DEF vars, IInv, TypeOK, LockMatchesTransaction, RequestsWellFormed,
               VersionIsClosedFlag, FutureIdsUnused, StagedEffect, TablesSound, NewId
<1> QED
  BY <1>1, <1>2, <1>3, <1>4, <1>5, <1>6, <1>7, <1>8, <1>9, <1>10, <1>11
  DEF Next, RequestStep

-----------------------------------------------------------------------------
\* The inductive invariant holds in every reachable state.
LEMMA InductiveInvariant == Spec => []IInv
  BY InitIInv, NextIInv, PTL DEF Spec

\* Every variable keeps its type, whatever reviewers, crashes, document checks
\* and editors do.
THEOREM TypeCorrect == Spec => []TypeOK
<1>1. IInv => TypeOK
  BY DEF IInv
<1> QED BY <1>1, InductiveInvariant, PTL

\* apply_action is inside its transaction exactly while its connection holds
\* the write lock.
THEOREM LockDiscipline == Spec => []LockMatchesTransaction
<1>1. IInv => LockMatchesTransaction
  BY DEF IInv
<1> QED BY <1>1, InductiveInvariant, PTL

\* The version of an issue is 0 while it is open and 1 once it is decided, and
\* never tells more.
THEOREM VersionsAreFlags == Spec => []VersionIsClosedFlag
<1>1. IInv => VersionIsClosedFlag
  BY DEF IInv
<1> QED BY <1>1, InductiveInvariant, PTL

\* No number of reviewers racing through apply_action attaches a label twice.
THEOREM DecisionsKeepLabelsUnique == Spec => []LabelsStayUnique
<1>1. IInv => LabelsStayUnique
  BY DEF IInv, TablesSound, LabelsStayUnique
<1> QED BY <1>1, InductiveInvariant, PTL

\* No interleaving of decisions and deletions makes a concept's own list lose
\* or invent a variant.
THEOREM DecisionsKeepListsInStep == Spec => []VariantListsStayInStep
<1>1. IInv => VariantListsStayInStep
  BY DEF IInv, TablesSound, VariantListsStayInStep
<1> QED BY <1>1, InductiveInvariant, PTL

-----------------------------------------------------------------------------
(***************************************************************************)
(* A decision and its effect appear together.                              *)
(***************************************************************************)
RowsAppear ==
    \/ LiveVariants(glossary') \ LiveVariants(glossary) # {}
    \/ glossary'.relations \ glossary.relations # {}

ClosesIssue(i) == issues'[i] # issues[i] /\ issues'[i].status \in ClosedStatuses

\* The commit of a request is the decision of its issue.
LEMMA CommitDecides ==
    ASSUME IInv, NEW r \in Reviewers, MarkAndCommit(r)
    PROVE  /\ Decides(r)
           /\ \A i \in Issues : issues'[i] # issues[i] => cmd[r].issue = i
           /\ EffectVisible(glossary', cmd[r])
<1>1. pc[r] = "mark" /\ pc'[r] = "idle"
  BY DEF MarkAndCommit, Answer, IInv, TypeOK
<1>2. cmd[r].issue \in Issues
  BY <1>1, InTransaction
<1>3. /\ issues'[cmd[r].issue].status = NextStatus(cmd[r].action)
      /\ issues'[cmd[r].issue].key = cmd[r].key
      /\ \A i \in Issues : issues'[i] # issues[i] => cmd[r].issue = i
  BY <1>2 DEF MarkAndCommit, IInv, TypeOK
<1> QED BY <1>1, <1>3, MarkAndCommitSafe DEF Decides

\* No other step adds a row to the glossary or closes an issue.
LEMMA OnlyCommitsDecide ==
    ASSUME IInv, [Next]_vars, ~ \E r \in Reviewers : MarkAndCommit(r)
    PROVE  ~RowsAppear /\ \A i \in Issues : ~ClosesIssue(i)
<1>1. ASSUME NEW i \in Issues, CheckWritesIssue(i)
      PROVE  ~RowsAppear /\ \A j \in Issues : ~ClosesIssue(j)
  <2>1. ~RowsAppear
    BY <1>1 DEF CheckWritesIssue, RowsAppear
  <2>2. \A j \in Issues : issues'[j] # issues[j] => issues'[j] = DetectedIssue
    BY <1>1 DEF CheckWritesIssue, IInv, TypeOK
  <2>3. DetectedIssue.status \notin ClosedStatuses
    BY DEF DetectedIssue, ClosedStatuses
  <2> QED BY <2>1, <2>2, <2>3 DEF ClosesIssue
<1>2. ASSUME NEW c \in RowIds, EditorDeletesConcept(c)
      PROVE  ~RowsAppear /\ \A j \in Issues : ~ClosesIssue(j)
  <2>1. /\ LiveVariants(glossary') \subseteq LiveVariants(glossary)
        /\ glossary'.relations \subseteq glossary.relations
    BY <1>2, TablesType, DeleteConceptSafe DEF EditorDeletesConcept, IInv, TypeOK
  <2> QED BY <1>2, <2>1 DEF EditorDeletesConcept, RowsAppear, ClosesIssue
<1>3. CASE UNCHANGED <<glossary, issues>>
  BY <1>3 DEF RowsAppear, ClosesIssue
<1> QED
  BY <1>1, <1>2, <1>3
  DEF Next, RequestStep, Submit, Retry, Send, ReadAndPlan, BeginWrite, BusyTimeout,
      ApplyEffect, RollBack, Crash, vars

\* A decision and its effect become visible in one step: no reader ever sees a
\* variant or a relation whose issue is still open, nor a closed issue whose
\* effect is not in the glossary.
THEOREM DecisionsAreAtomic == Spec => DecisionIsAtomic
<1> DEFINE Atomic ==
             /\ RowsAppear => \E r \in Reviewers : Decides(r)
             /\ \A i \in Issues :
                   ClosesIssue(i) => \E r \in Reviewers :
                                        /\ Decides(r) /\ cmd[r].issue = i
                                        /\ EffectVisible(glossary', cmd[r])
<1>1. IInv /\ [Next]_vars => Atomic
  <2> SUFFICES ASSUME IInv, [Next]_vars PROVE Atomic
    OBVIOUS
  <2>1. CASE \E r \in Reviewers : MarkAndCommit(r)
    <3>1. PICK r \in Reviewers : MarkAndCommit(r)
      BY <2>1
    <3> QED BY <3>1, CommitDecides DEF ClosesIssue
  <2>2. CASE ~ \E r \in Reviewers : MarkAndCommit(r)
    BY <2>2, OnlyCommitsDecide
  <2> QED BY <2>1, <2>2
<1>2. IInv /\ [Next]_vars =>
      [/\ (\/ LiveVariants(glossary') \ LiveVariants(glossary) # {}
           \/ glossary'.relations \ glossary.relations # {})
             => \E r \in Reviewers : Decides(r)
       /\ \A i \in Issues :
             issues'[i] # issues[i] /\ issues'[i].status \in ClosedStatuses
             => \E r \in Reviewers : Decides(r) /\ cmd[r].issue = i
                                    /\ EffectVisible(glossary', cmd[r])]_vars
  BY <1>1 DEF RowsAppear, ClosesIssue
<1> QED BY <1>2, InductiveInvariant, PTL DEF Spec, DecisionIsAtomic

-----------------------------------------------------------------------------
(***************************************************************************)
(* Requests on one issue that do not overlap implement the contract.       *)
(***************************************************************************)
OneRequestPerIssue ==
    \A q, r \in Reviewers :
        pc[q] # "idle" /\ pc[r] # "idle" /\ cmd[q].issue = cmd[r].issue => q = r

\* Part of the inductive invariant: the row a request has planned from is still
\* what it was.  This is what two requests that overlap destroy.
PlannedIssueStaysOpen ==
    \A r \in Reviewers :
        pc[r] \in {"begin", "effect", "mark"} => issues[cmd[r].issue] = DetectedIssue

AloneInv == OneRequestPerIssue /\ PlannedIssueStaysOpen

\* Nobody is in flight on the issue of a request that is admitted.
LEMMA AdmittedAlone ==
    ASSUME MaxPerIssue = 1, IInv, NEW r \in Reviewers, NEW command, Send(r, command)
    PROVE  \A q \in Reviewers : pc[q] # "idle" => cmd[q].issue # command.issue
<1>1. InFlight(command.issue) \subseteq Reviewers
  BY DEF InFlight
<1>2. IsFiniteSet(InFlight(command.issue))
  BY <1>1, ReviewersAssumption, FS_Subset
<1>3. Cardinality(InFlight(command.issue)) \in Nat
  BY <1>2, FS_CardinalityType
<1>4. Cardinality(InFlight(command.issue)) = 0
  BY <1>3 DEF Send
<1>5. InFlight(command.issue) = {}
  BY <1>2, <1>4, FS_EmptySet
<1> QED BY <1>5 DEF InFlight

LEMMA AloneInit == Init => AloneInv
  BY DEF Init, AloneInv, OneRequestPerIssue, PlannedIssueStaysOpen

LEMMA SendAlone ==
    ASSUME MaxPerIssue = 1, IInv, AloneInv,
           NEW r \in Reviewers, NEW command \in Commands, Send(r, command)
    PROVE  AloneInv'
<1>1. \A q \in Reviewers : pc[q] # "idle" => cmd[q].issue # command.issue
  BY AdmittedAlone
<1>2. OneRequestPerIssue'
  BY <1>1 DEF AloneInv, OneRequestPerIssue, Send, IInv, TypeOK
<1>3. PlannedIssueStaysOpen'
  BY DEF AloneInv, PlannedIssueStaysOpen, Send, IInv, TypeOK
<1> QED BY <1>2, <1>3 DEF AloneInv

\* A step that starts no request and leaves the issues alone: only a read can
\* bring a request past its planning.
LEMMA NoIssueWritten ==
    ASSUME IInv, IInv', AloneInv, UNCHANGED <<issues, cmd>>,
           \A q \in Reviewers : pc[q] = "idle" => pc'[q] = "idle",
           \A q \in Reviewers :
              pc'[q] \in {"begin", "effect", "mark"} =>
                 \/ pc[q] \in {"begin", "effect", "mark"}
                 \/ issues[cmd[q].issue] = snapshot'[q]
    PROVE  AloneInv'
<1>1. OneRequestPerIssue'
  BY DEF AloneInv, OneRequestPerIssue
<1>2. PlannedIssueStaysOpen'
  BY DEF AloneInv, PlannedIssueStaysOpen, IInv, RequestsWellFormed
<1> QED BY <1>1, <1>2 DEF AloneInv

LEMMA CommitAlone ==
    ASSUME IInv, AloneInv, NEW r \in Reviewers, MarkAndCommit(r)
    PROVE  AloneInv'
<1>1. pc[r] = "mark"
  BY DEF MarkAndCommit
<1>2. \A q \in Reviewers : pc'[q] # "idle" => q # r /\ pc'[q] = pc[q]
  BY DEF MarkAndCommit, Answer, IInv, TypeOK
<1>3. UNCHANGED cmd
  BY DEF MarkAndCommit
<1>4. \A q \in Reviewers : pc'[q] # "idle" => cmd[q].issue # cmd[r].issue
  BY <1>1, <1>2 DEF AloneInv, OneRequestPerIssue
<1>5. OneRequestPerIssue'
  BY <1>2, <1>3 DEF AloneInv, OneRequestPerIssue
<1>6. PlannedIssueStaysOpen'
  <2> SUFFICES ASSUME NEW q \in Reviewers, pc'[q] \in {"begin", "effect", "mark"}
               PROVE  issues'[cmd[q].issue] = DetectedIssue
    BY <1>3 DEF PlannedIssueStaysOpen
  <2>1. pc[q] \in {"begin", "effect", "mark"} /\ cmd[q].issue # cmd[r].issue
    BY <1>2, <1>4
  <2>2. issues[cmd[q].issue] = DetectedIssue /\ cmd[q].issue \in Issues
    BY <2>1 DEF AloneInv, PlannedIssueStaysOpen, IInv, RequestsWellFormed
  <2> QED BY <2>1, <2>2 DEF MarkAndCommit, IInv, TypeOK
<1> QED BY <1>5, <1>6 DEF AloneInv

LEMMA AloneNext ==
    ASSUME MaxPerIssue = 1
    PROVE  IInv /\ IInv' /\ AloneInv /\ [Next]_vars => AloneInv'
<1> SUFFICES ASSUME IInv, IInv', AloneInv, [Next]_vars PROVE AloneInv'
  OBVIOUS
<1>1. ASSUME NEW r \in Reviewers, Submit(r) PROVE AloneInv'
  BY <1>1, SendAlone DEF Submit
<1>2. ASSUME NEW r \in Reviewers, Retry(r) PROVE AloneInv'
  BY <1>2, SendAlone DEF Retry, IInv, RequestsWellFormed, Replies
<1>3. ASSUME NEW r \in Reviewers, ReadAndPlan(r) PROVE AloneInv'
  BY <1>3, NoIssueWritten DEF ReadAndPlan, Answer, IInv, TypeOK
<1>4. ASSUME NEW r \in Reviewers, BeginWrite(r) \/ BusyTimeout(r) PROVE AloneInv'
  BY <1>4, NoIssueWritten DEF BeginWrite, BusyTimeout, Answer, IInv, TypeOK
<1>5. ASSUME NEW r \in Reviewers, ApplyEffect(r) PROVE AloneInv'
  BY <1>5, NoIssueWritten DEF ApplyEffect, RollBack, Answer, IInv, TypeOK
<1>6. ASSUME NEW r \in Reviewers, MarkAndCommit(r) PROVE AloneInv'
  BY <1>6, CommitAlone
<1>7. ASSUME NEW r \in Reviewers, Crash(r) PROVE AloneInv'
  BY <1>7, NoIssueWritten DEF Crash, RollBack, Answer, IInv, TypeOK
<1>8. ASSUME NEW i \in Issues, CheckWritesIssue(i) PROVE AloneInv'
  <2>1. OneRequestPerIssue'
    BY <1>8 DEF CheckWritesIssue, AloneInv, OneRequestPerIssue
  <2>2. PlannedIssueStaysOpen'
    BY <1>8 DEF CheckWritesIssue, AloneInv, PlannedIssueStaysOpen, IInv, TypeOK
  <2> QED BY <2>1, <2>2 DEF AloneInv
<1>9. ASSUME NEW c \in RowIds, EditorDeletesConcept(c) PROVE AloneInv'
  BY <1>9 DEF EditorDeletesConcept, AloneInv, OneRequestPerIssue, PlannedIssueStaysOpen
<1>10. CASE UNCHANGED vars
  BY <1>10 DEF vars, AloneInv, OneRequestPerIssue, PlannedIssueStaysOpen
<1> QED
  BY <1>1, <1>2, <1>3, <1>4, <1>5, <1>6, <1>7, <1>8, <1>9, <1>10 DEF Next, RequestStep

-----------------------------------------------------------------------------
\* The refinement mapping, and what it says of one reviewer.
Pending == [r \in Reviewers |-> IF pc[r] = "idle" THEN None ELSE cmd[r]]

Answers == [r \in Reviewers |-> AnswerOf(reply[r])]

\* A request that ends is answered in the contract.
LEMMA AnswerMaps ==
    ASSUME IInv, NEW r \in Reviewers, pc[r] # "idle", NEW answer,
           Answer(r, answer), UNCHANGED cmd, NEW a, a = AnswerOf(answer)
    PROVE  Contract!AnswerWith(r, a)
<1>1. cmd[r] # None
  BY NoneAssumption DEF IInv, RequestsWellFormed
<1>2. Pending[r] # None
  BY <1>1 DEF Pending
<1>3. Pending' = [Pending EXCEPT ![r] = None]
  BY DEF Pending, Answer, IInv, TypeOK
<1>4. Answers' = [Answers EXCEPT ![r] = a]
  BY DEF Answers, Answer, IInv, TypeOK
<1> QED BY <1>2, <1>3, <1>4 DEF Contract!AnswerWith, Pending, Answers

\* A step inside a request is invisible in the contract.
LEMMA InnerStepStutters ==
    ASSUME IInv, NEW r \in Reviewers, pc[r] # "idle", NEW stage, stage # "idle",
           pc' = [pc EXCEPT ![r] = stage], UNCHANGED <<issues, glossary, cmd, reply>>
    PROVE  UNCHANGED Contract!vars
<1>1. UNCHANGED Pending
  BY DEF Pending, IInv, TypeOK
<1>2. UNCHANGED Answers
  BY DEF Answers
<1> QED BY <1>1, <1>2 DEF Contract!vars, Pending, Answers

\* The contract speaks of the same tables and the same state machine.
LEMMA SameTables ==
    /\ \A g, c : Contract!ConceptExists(g, c) <=> ConceptExists(g, c)
    /\ \A g, label : Contract!LabelTaken(g, label) <=> LabelTaken(g, label)
    /\ \A g : Contract!LiveVariants(g) = LiveVariants(g)
    /\ \A g, c, v, term : Contract!WriteNewConcept(g, c, v, term, None, {})
                           = WriteNewConcept(g, c, v, term, None, {})
    /\ \A g, c, row, v, label, type, status :
          Contract!WriteNewVariant(g, c, row, v, label, type, status)
          = WriteNewVariant(g, c, row, v, label, type, status)
    /\ \A g, triple : Contract!InsertRelation(g, triple) = InsertRelation(g, triple)
    /\ \A g, c : Contract!DeleteConcept(g, c) = DeleteConcept(g, c)
    /\ Contract!Blank = Blank
<1>1. \A g : Contract!LiveVariants(g) = LiveVariants(g)
  BY DEF Contract!LiveVariants, LiveVariants
<1>2. \A g, c : Contract!VariantsOf(g, c) = VariantsOf(g, c)
  BY <1>1 DEF Contract!VariantsOf, VariantsOf
<1>3. \A g, c : Contract!DeleteConcept(g, c) = DeleteConcept(g, c)
  BY <1>2 DEF Contract!DeleteConcept, DeleteConcept
<1>4. \A g, label : Contract!LabelTaken(g, label) <=> LabelTaken(g, label)
  BY <1>1 DEF Contract!LabelTaken, LabelTaken
<1>5. \A g, c, v, term : Contract!WriteNewConcept(g, c, v, term, None, {})
                         = WriteNewConcept(g, c, v, term, None, {})
  BY DEF Contract!WriteNewConcept, WriteNewConcept, Contract!ReplaceConceptTags,
         ReplaceConceptTags, Contract!InsertVariant, InsertVariant,
         Contract!UpsertConcept, UpsertConcept, Contract!TagIds, TagIds,
         Contract!Tags, Tags
<1>6. \A g, c, row, v, label, type, status :
         Contract!WriteNewVariant(g, c, row, v, label, type, status)
         = WriteNewVariant(g, c, row, v, label, type, status)
  BY DEF Contract!WriteNewVariant, WriteNewVariant, Contract!InsertVariant,
         InsertVariant, Contract!UpsertConcept, UpsertConcept
<1>7. \A g, triple : Contract!InsertRelation(g, triple) = InsertRelation(g, triple)
  BY DEF Contract!InsertRelation, InsertRelation
<1>8. \A g, c : Contract!ConceptExists(g, c) <=> ConceptExists(g, c)
  BY DEF Contract!ConceptExists, ConceptExists
<1> QED
  BY <1>1, <1>3, <1>4, <1>5, <1>6, <1>7, <1>8 DEF Contract!Blank, Blank

LEMMA SameMachine ==
    /\ Contract!VariantActions = VariantActions
    /\ \A action : Contract!NextStatus(action) = NextStatus(action)
    /\ \A action : Contract!RequiredFields(action) = RequiredFields(action)
  BY DEF Contract!VariantActions, VariantActions, Contract!NextStatus, NextStatus,
         Contract!RequiredFields, RequiredFields

\* The service refuses the effects that the contract calls impossible.
LEMMA PossibleMaps ==
    ASSUME NEW command, command.action \in ReviewActions
    PROVE  Contract!Possible(command) <=> EffectError(glossary, command) = "none"
<1> DEFINE p == command.payload
           action == command.action
<1>1. CASE action = "resolve_as_new_concept"
  BY <1>1, SameTables, SameMachine
  DEF Contract!Possible, Contract!FreeLabel, EffectError, LabelError, VariantActions
<1>2. CASE action \in VariantActions
  BY <1>2, SameTables, SameMachine
  DEF Contract!Possible, Contract!FreeLabel, EffectError, VariantError, LabelError,
      VariantActions
<1>3. CASE action = "resolve_as_relation"
  <2>1. (\A t \in glossary.relations :
           t # <<p["source_concept_id"], p["relation_type"], p["target_concept_id"]>>)
        <=> Triple(p) \notin glossary.relations
    BY DEF Triple
  <2> QED BY <1>3, <2>1, SameTables, SameMachine
          DEF Contract!Possible, EffectError, RelationError, VariantActions
<1>4. CASE action \in {"resolve_as_existing_concept", "dismiss", "mark_failed"}
  BY <1>4, SameTables, SameMachine
  DEF Contract!Possible, EffectError, ExistingError, VariantActions
<1> QED BY <1>1, <1>2, <1>3, <1>4 DEF ReviewActions

\* The effect the service has is one the contract allows: the new rows get an
\* identifier that is not in use.
LEMMA EffectMaps ==
    ASSUME IInv, NEW r \in Reviewers, pc[r] = "mark",
           glossary' = EffectResult(glossary, cmd[r], NewId(r))
    PROVE  Contract!Effect(cmd[r])
<1> DEFINE id == NewId(r)
           p == cmd[r].payload
           action == cmd[r].action
<1>1. id \in DOMAIN glossary.variants \ LiveVariants(glossary)
  BY InTransaction DEF GlossaryType, Glossaries, LiveVariants, Unused
<1>2. action \in ReviewActions
  BY InTransaction, CommandsAssumption
<1> HIDE DEF id
<1>3. CASE action = "resolve_as_new_concept"
  BY <1>1, <1>3, SameTables, SameMachine
  DEF Contract!Effect, EffectResult, VariantActions, id
<1>4. CASE action \in VariantActions
  <2>1. /\ VariantTypeOf(action) = Contract!AttachedAs[action][1]
        /\ VariantStatusOf(VariantTypeOf(action)) = Contract!AttachedAs[action][2]
    BY <1>4 DEF VariantTypeOf, VariantStatusOf, VariantActions, Contract!AttachedAs
  <2>2. glossary' = WriteNewVariant(glossary, p["concept_id"],
                        glossary.concepts[p["concept_id"]], id, p["variant"],
                        Contract!AttachedAs[action][1], Contract!AttachedAs[action][2])
    BY <1>4, <2>1 DEF EffectResult, VariantActions, id
  <2> QED BY <1>1, <1>4, <2>2, SameTables, SameMachine
          DEF Contract!Effect, VariantActions
<1>5. CASE action = "resolve_as_relation"
  BY <1>5, SameTables, SameMachine
  DEF Contract!Effect, EffectResult, VariantActions, Triple
<1>6. CASE action \in {"resolve_as_existing_concept", "dismiss", "mark_failed"}
  BY <1>6, SameMachine DEF Contract!Effect, EffectResult, VariantActions
<1> QED BY <1>2, <1>3, <1>4, <1>5, <1>6 DEF ReviewActions

\* What the contract calls current and not yet decided is what plans.
LEMMA PlannedMaps ==
    ASSUME NEW command, command.issue \in Issues, issues[command.issue] # None
    PROVE  (Contract!Current(command) /\ ~Contract!Decided(command))
           <=> PlanReviewAction(issues[command.issue], command) = "planned"
  BY SameMachine DEF Contract!Current, Contract!Decided, Contract!KnownIssue, PlanReviewAction

\* How a refusal shows in the contract.
LEMMA RefuseMaps ==
    ASSUME NEW r \in Reviewers, Pending[r] = cmd[r],
           Contract!AnswerWith(r, "refused"), ~Contract!Decided(cmd[r]),
           ~Contract!Current(cmd[r]) \/ ~Contract!Possible(cmd[r]),
           UNCHANGED <<issues, glossary>>
    PROVE  Contract!Next
<1>1. Contract!Refuse(r)
  BY DEF Contract!Refuse, Pending
<1> QED BY <1>1 DEF Contract!Next

\* Every answer that says the decision was refused is a refusal of the contract.
LEMMA RefusalsMap ==
    ASSUME NEW code \in Refusals
    PROVE  AnswerOf(code) = "refused"
<1>1. code \notin Retriable
  BY DEF Refusals, Retriable
<1> QED BY <1>1 DEF AnswerOf

LEMMA ReadAndPlanMaps ==
    ASSUME IInv, NEW r \in Reviewers, ReadAndPlan(r)
    PROVE  [Contract!Next]_(Contract!vars)
<1> DEFINE i == cmd[r].issue
           verdict == PlanReviewAction(issues[i], cmd[r])
<1>1. pc[r] = "read" /\ UNCHANGED <<issues, glossary, cmd>> /\ Pending[r] = cmd[r]
  BY DEF ReadAndPlan, Pending
<1>2. CASE i \notin Issues \/ issues[i] = None
  <2>1. Contract!AnswerWith(r, "refused")
    <3>1. Answer(r, "issue_not_found") /\ AnswerOf("issue_not_found") = "refused"
      <4>1. "issue_not_found" \in Refusals
        BY DEF Refusals
      <4>2. Answer(r, "issue_not_found")
        BY <1>2 DEF ReadAndPlan
      <4> QED BY <4>1, <4>2, RefusalsMap
    <3> QED BY <1>1, <3>1, AnswerMaps
  <2>2. ~Contract!KnownIssue(cmd[r])
    BY <1>2 DEF Contract!KnownIssue
  <2>3. ~Contract!Current(cmd[r]) /\ ~Contract!Decided(cmd[r])
    BY <2>2 DEF Contract!Current, Contract!Decided
  <2> QED BY <1>1, <2>1, <2>3, RefuseMaps
<1>3. CASE ~(i \notin Issues \/ issues[i] = None) /\ verdict = "already_applied"
  <2>1. Contract!AnswerWith(r, "already_applied")
    BY <1>1, <1>3, AnswerMaps DEF ReadAndPlan, AnswerOf, Refusals, Retriable
  <2>2. Contract!Decided(cmd[r])
    BY <1>3 DEF Contract!Decided, Contract!KnownIssue, PlanReviewAction
  <2>3. Contract!Replay(r)
    BY <1>1, <2>1, <2>2 DEF Contract!Replay, Pending
  <2> QED BY <2>3 DEF Contract!Next
<1>4. CASE ~(i \notin Issues \/ issues[i] = None)
           /\ verdict \notin {"already_applied", "planned"}
  <2>1. verdict \in Refusals
    BY <1>4 DEF PlanReviewAction, Refusals
  <2>2. Contract!AnswerWith(r, "refused")
    <3>1. Answer(r, verdict) /\ AnswerOf(verdict) = "refused"
      BY <1>4, <2>1, RefusalsMap DEF ReadAndPlan
    <3> QED BY <1>1, <3>1, AnswerMaps
  <2>3. ~Contract!Decided(cmd[r])
    BY <1>4 DEF Contract!Decided, PlanReviewAction
  <2>4. ~Contract!Current(cmd[r])
    BY <1>4, <2>3, PlannedMaps
  <2> QED BY <1>1, <2>2, <2>3, <2>4, RefuseMaps
<1>5. CASE ~(i \notin Issues \/ issues[i] = None) /\ verdict = "planned"
  <2>1. pc' = [pc EXCEPT ![r] = "begin"] /\ UNCHANGED reply
    BY <1>5 DEF ReadAndPlan
  <2>2. UNCHANGED Contract!vars
    BY <1>1, <2>1, InnerStepStutters
  <2> QED BY <2>2
<1> QED BY <1>2, <1>3, <1>4, <1>5

\* The effect is refused exactly when the contract refuses: nobody else has
\* decided the issue or touched the tables since the plan.
LEMMA ApplyEffectMaps ==
    ASSUME IInv, AloneInv, NEW r \in Reviewers, ApplyEffect(r)
    PROVE  [Contract!Next]_(Contract!vars)
<1> DEFINE error == EffectError(glossary, cmd[r])
<1>1. pc[r] = "effect" /\ tx = glossary /\ UNCHANGED cmd
  BY DEF ApplyEffect, IInv, StagedEffect
<1>2. CASE error = "none"
  <2>1. /\ pc' = [pc EXCEPT ![r] = "mark"]
        /\ UNCHANGED <<issues, glossary, cmd, reply>>
    BY <1>1, <1>2 DEF ApplyEffect
  <2> QED BY <1>1, <2>1, InnerStepStutters
<1>3. CASE error # "none"
  <2>1. Answer(r, error) /\ UNCHANGED <<issues, glossary>>
    BY <1>1, <1>3 DEF ApplyEffect, RollBack
  <2>2. error \in Refusals
    BY <1>3 DEF EffectError, LabelError, VariantError, RelationError,
                ExistingError, Refusals
  <2>3. Contract!AnswerWith(r, "refused")
    <3>1. AnswerOf(error) = "refused"
      BY <2>2, RefusalsMap
    <3> QED BY <1>1, <2>1, <3>1, AnswerMaps
  <2>4. Pending[r] = cmd[r]
    BY <1>1 DEF Pending
  <2>5. cmd[r].action \in ReviewActions
    BY <1>1, InTransaction, CommandsAssumption
  <2>6. ~Contract!Possible(cmd[r])
    BY <1>3, <2>5, PossibleMaps
  <2>7. ~Contract!Decided(cmd[r])
    <3>1. issues[cmd[r].issue].key = None
      BY <1>1 DEF AloneInv, PlannedIssueStaysOpen, DetectedIssue
    <3>2. cmd[r].key # None
      BY <1>1, InTransaction, PlannedIsComplete
    <3> QED BY <3>1, <3>2 DEF Contract!Decided
  <2> QED BY <2>1, <2>3, <2>4, <2>6, <2>7, RefuseMaps
<1> QED BY <1>2, <1>3

\* The commit is the instant at which the contract decides.
LEMMA MarkAndCommitMaps ==
    ASSUME IInv, AloneInv, NEW r \in Reviewers, MarkAndCommit(r)
    PROVE  Contract!Next
<1> DEFINE i == cmd[r].issue
<1>1. pc[r] = "mark" /\ UNCHANGED cmd /\ Pending[r] = cmd[r]
  BY DEF MarkAndCommit, Pending
<1>2. PICK answer \in {"applied", "no_answer"} : Answer(r, answer)
  BY DEF MarkAndCommit
<1>3. \E a \in {"applied", "unknown"} : Contract!AnswerWith(r, a)
  <2>1. AnswerOf(answer) \in {"applied", "unknown"}
    BY DEF AnswerOf, Refusals, Retriable
  <2> QED BY <1>1, <1>2, <2>1, AnswerMaps
<1>4. /\ i \in Issues /\ issues[i] = DetectedIssue /\ snapshot[r] = DetectedIssue
      /\ PlanReviewAction(DetectedIssue, cmd[r]) = "planned"
      /\ cmd[r].action \in ReviewActions
  BY <1>1, InTransaction, CommandsAssumption DEF AloneInv, PlannedIssueStaysOpen
<1>5. issues[i] # None
  BY <1>4, NoneAssumption DEF IssueRows, DetectedIssue, IssueStatuses
<1>6. Contract!Current(cmd[r]) /\ ~Contract!Decided(cmd[r])
  BY <1>4, <1>5, PlannedMaps
<1>7. EffectError(glossary, cmd[r]) = "none"
      /\ glossary' = EffectResult(glossary, cmd[r], NewId(r))
  BY <1>1 DEF IInv, StagedEffect, MarkAndCommit
<1>8. Contract!Possible(cmd[r])
  BY <1>4, <1>7, PossibleMaps
<1>9. Contract!Effect(cmd[r])
  BY <1>1, <1>7, EffectMaps
<1>10. issues' = [issues EXCEPT ![i] = [status  |-> Contract!NextStatus(cmd[r].action),
                                        version |-> issues[i].version + 1,
                                        key     |-> cmd[r].key]]
  BY <1>4, SameMachine DEF MarkAndCommit
<1>11. Contract!Decide(r)
  BY <1>1, <1>3, <1>6, <1>8, <1>9, <1>10 DEF Contract!Decide, Pending
<1> QED BY <1>11 DEF Contract!Next

\* A command that is sent, for the first time or again, is a request.
LEMMA SendMaps ==
    ASSUME IInv, NEW r \in Reviewers, NEW command \in Commands, Send(r, command)
    PROVE  Contract!Next
<1>1. Pending[r] = None
  BY DEF Send, Pending
<1>2. Pending' = [Pending EXCEPT ![r] = command]
  BY DEF Send, Pending, IInv, TypeOK
<1>3. UNCHANGED <<issues, glossary, Answers>>
  BY DEF Send, Answers
<1>4. Contract!Request(r)
  BY <1>1, <1>2, <1>3 DEF Contract!Request, Pending, Answers
<1> QED BY <1>4 DEF Contract!Next

\* A busy database, and a process that dies, leave everything as it was.
LEMMA GiveUpMaps ==
    ASSUME IInv, NEW r \in Reviewers, BusyTimeout(r) \/ Crash(r)
    PROVE  Contract!Next
<1>1. PICK answer \in Retriable : Answer(r, answer)
  BY DEF BusyTimeout, Crash, Retriable
<1>2. pc[r] # "idle" /\ UNCHANGED <<issues, glossary, cmd>>
  BY DEF BusyTimeout, Crash, RollBack
<1>3. AnswerOf(answer) = "unknown"
  BY DEF AnswerOf, Retriable, Refusals
<1>4. Contract!AnswerWith(r, "unknown")
  BY <1>1, <1>2, <1>3, AnswerMaps
<1>5. Contract!GiveUp(r)
  BY <1>2, <1>4 DEF Contract!GiveUp
<1> QED BY <1>5 DEF Contract!Next

\* Document checks and deletions are the same in both.
LEMMA OthersMap ==
    ASSUME IInv,
           \/ \E i \in Issues : CheckWritesIssue(i)
           \/ \E c \in RowIds : EditorDeletesConcept(c)
    PROVE  Contract!Next
<1>1. ASSUME NEW i \in Issues, CheckWritesIssue(i) PROVE Contract!DocumentCheck(i)
  BY <1>1 DEF CheckWritesIssue, Contract!DocumentCheck, Contract!OpenIssue, DetectedIssue
<1>2. ASSUME NEW c \in RowIds, EditorDeletesConcept(c)
      PROVE  Contract!Remove(c) /\ c \in DOMAIN glossary.concepts
  BY <1>2, SameTables
  DEF EditorDeletesConcept, Contract!Remove, ConceptExists
<1> QED BY <1>1, <1>2 DEF Contract!Next

LEMMA ContractInit == Init => Contract!Init
<1> SUFFICES ASSUME Init PROVE Contract!Init
  OBVIOUS
<1>1. AnswerOf(None) = None
  BY NoneAssumption DEF AnswerOf, Replies, Refusals, Retriable
<1>2. /\ Pending = [r \in Reviewers |-> None]
      /\ Answers = [r \in Reviewers |-> None]
  BY <1>1 DEF Init, Pending, Answers
<1> QED
  BY <1>2 DEF Init, Contract!Init, Contract!OpenIssue, DetectedIssue, Pending, Answers

\* Every step is a step of the contract, or invisible in it.
LEMMA ContractNext == IInv /\ AloneInv /\ [Next]_vars => [Contract!Next]_(Contract!vars)
<1> SUFFICES ASSUME IInv, AloneInv, [Next]_vars
             PROVE  [Contract!Next]_(Contract!vars)
  OBVIOUS
<1>1. ASSUME NEW r \in Reviewers, Submit(r) \/ Retry(r)
      PROVE  [Contract!Next]_(Contract!vars)
  <2>1. \E command \in Commands : Send(r, command)
    BY <1>1 DEF Submit, Retry, IInv, RequestsWellFormed, Replies
  <2> QED BY <2>1, SendMaps
<1>2. ASSUME NEW r \in Reviewers, ReadAndPlan(r)
      PROVE  [Contract!Next]_(Contract!vars)
  BY <1>2, ReadAndPlanMaps
<1>3. ASSUME NEW r \in Reviewers, BeginWrite(r)
      PROVE  [Contract!Next]_(Contract!vars)
  <2>1. /\ pc[r] # "idle" /\ pc' = [pc EXCEPT ![r] = "effect"]
        /\ UNCHANGED <<issues, glossary, cmd, reply>>
    BY <1>3 DEF BeginWrite
  <2> QED BY <2>1, InnerStepStutters
<1>4. ASSUME NEW r \in Reviewers, BusyTimeout(r) \/ Crash(r)
      PROVE  [Contract!Next]_(Contract!vars)
  BY <1>4, GiveUpMaps
<1>5. ASSUME NEW r \in Reviewers, ApplyEffect(r)
      PROVE  [Contract!Next]_(Contract!vars)
  BY <1>5, ApplyEffectMaps
<1>6. ASSUME NEW r \in Reviewers, MarkAndCommit(r)
      PROVE  [Contract!Next]_(Contract!vars)
  BY <1>6, MarkAndCommitMaps
<1>7. CASE \/ \E i \in Issues : CheckWritesIssue(i)
           \/ \E c \in RowIds : EditorDeletesConcept(c)
  BY <1>7, OthersMap
<1>8. CASE UNCHANGED vars
  BY <1>8 DEF vars, Contract!vars
<1> QED
  BY <1>1, <1>2, <1>3, <1>4, <1>5, <1>6, <1>7, <1>8 DEF Next, RequestStep

\* As long as no two requests on one issue are in flight together, the review
\* queue implements its contract: every request is answered as if it had run
\* alone, through crashes, lost answers, retries, document checks and deleted
\* concepts.
THEOREM LoneRequestsImplementContract ==
    ASSUME MaxPerIssue = 1
    PROVE  Spec => ImplementsContract
<1>1. IInv /\ IInv' /\ AloneInv /\ [Next]_vars => AloneInv'
  BY AloneNext
<1> QED
  BY <1>1, InductiveInvariant, AloneInit, ContractInit, ContractNext, PTL
  DEF Spec, ImplementsContract, Contract!Spec
=============================================================================
