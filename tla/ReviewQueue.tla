----------------------------- MODULE ReviewQueue -----------------------------
(***************************************************************************)
(* ReviewService.apply_action as it runs in one process per CLI command    *)
(* and one worker thread per API request, all on one SQLite file.          *)
(*                                                                         *)
(* What the driver does decides what can interleave.  `with connection:'   *)
(* opens no transaction; the connection is in autocommit until its first   *)
(* write.  So apply_action                                                 *)
(*   1. reads the issue and plans in autocommit        (ReadAndPlan),      *)
(*   2. issues `update term_issues set version = version', which opens the *)
(*      transaction and takes the database's single write lock, or fails   *)
(*      after the busy timeout                  (BeginWrite, BusyTimeout), *)
(*   3. applies the glossary effect inside it   (ApplyEffect),             *)
(*   4. writes the issue row FROM THE SNAPSHOT OF STEP 1 and commits       *)
(*                                              (MarkAndCommit).           *)
(* Until the commit nobody else sees what the holder of the lock wrote:    *)
(* `tx' is its private copy of the tables.                                 *)
(*                                                                         *)
(* Around it: `doc2dic check --write-issues' and `analyze' write detected  *)
(* issues over the queue (CheckWritesIssue), an editor deletes concepts    *)
(* (EditorDeletesConcept), a process dies (Crash), an answer is lost on    *)
(* the way back, and the reviewer sends the same command again (Retry).    *)
(***************************************************************************)
EXTENDS ReviewStateMachine, GlossaryStore, FiniteSets

CONSTANTS
    Reviewers,      \* people or clients, each with one command to get through
    Issues,         \* identifiers of review issues
    Commands,       \* the commands reviewers may send
    SeedLabels,     \* concepts there at the start: concept id -> its label
    Labels,         \* the non-blank labels in use
    RelationTypes,
    MaxAttempts,    \* bound: how often one reviewer sends its command
    MaxChecks,      \* bound: how many issue rows document checks write
    MaxPerIssue     \* bound: requests in flight on one issue

\* Every insert gets a fresh uuid: here, the reviewer and the attempt.
RowIds == (DOMAIN SeedLabels) \cup (Reviewers \X (1 .. MaxAttempts))

Keys == {cmd.key : cmd \in Commands}

IssueRows == [status : IssueStatuses, version : Nat, key : Keys \cup {None}]

GlossaryType == Glossaries(RowIds, RowIds, Labels, {}, RelationTypes)

(***************************************************************************)
(* Answers.  "database_locked" is the 503 that asks for a retry,           *)
(* "no_answer" a request whose process died or whose answer was lost,      *)
(* "unhandled" an exception no boundary translates: a blank label          *)
(* (ValueError) or a second row with the same relation id                  *)
(* (sqlite3.IntegrityError).                                               *)
(***************************************************************************)
Refusals ==
    {"issue_not_found", "issue_closed", "stale_version", "invalid_payload",
     "duplicate_term", "concept_not_found", "invalid_relation", "unhandled"}

Retriable == {"database_locked", "no_answer"}

Replies == Refusals \cup Retriable \cup {"applied", "already_applied"}

ASSUME BoundsAssumption ==
    MaxAttempts \in Nat /\ MaxChecks \in Nat /\ MaxPerIssue \in Nat

ASSUME NoneAssumption ==
    /\ None \notin Reviewers \cup Replies
    /\ None \notin Keys
    /\ None \notin Commands
    /\ None \notin IssueRows
    /\ None \notin ConceptRows(RowIds, Labels, {})
    /\ None \notin VariantRows(RowIds, Labels)
    /\ None \notin GlossaryType

ASSUME SeedAssumption ==
    /\ \A c \in DOMAIN SeedLabels : SeedLabels[c] \in Labels
    /\ \A c, d \in DOMAIN SeedLabels : SeedLabels[c] = SeedLabels[d] => c = d

\* A fresh uuid is the identifier of no concept that was there before.
ASSUME FreshIdsAssumption ==
    (DOMAIN SeedLabels) \cap (Reviewers \X (1 .. MaxAttempts)) = {}

ASSUME ReviewersAssumption == IsFiniteSet(Reviewers)

\* A label or a relation type the reviewer typed is a known one or blank; a
\* concept id is any value at all.
ASSUME CommandsAssumption ==
    \A cmd \in Commands :
        /\ cmd.action \in ReviewActions
        /\ cmd.expected \in Nat
        /\ "variant" \in DOMAIN cmd.payload =>
               cmd.payload["variant"] \in Labels \cup {Blank}
        /\ "term" \in DOMAIN cmd.payload =>
               cmd.payload["term"] \in Labels \cup {Blank}
        /\ "relation_type" \in DOMAIN cmd.payload =>
               cmd.payload["relation_type"] \in RelationTypes

ASSUME LabelsAssumption == Blank \notin Labels

VARIABLES
    issues,     \* committed table term_issues: issue id -> row, or None
    glossary,   \* committed glossary tables
    lock,       \* the reviewer whose connection holds the write lock, or None
    tx,         \* the glossary as the holder of the lock sees it, or None
    pc,         \* where each reviewer's request is in apply_action
    cmd,        \* the command each reviewer sends, or None
    attempt,    \* how many times it has been sent
    snapshot,   \* the issue row read in step 1, or None
    reply,      \* the last answer the reviewer got, or None
    checks      \* issue rows written by document checks so far

vars == <<issues, glossary, lock, tx, pc, cmd, attempt, snapshot, reply, checks>>

-----------------------------------------------------------------------------
Stages == {"idle", "read", "begin", "effect", "mark"}

NewId(r) == <<r, attempt[r]>>

InFlight(i) == {r \in Reviewers : pc[r] # "idle" /\ cmd[r].issue = i}

-----------------------------------------------------------------------------
(***************************************************************************)
(* apply_review_effect: why an effect is refused ("none" if it is not),    *)
(* and what it leaves in the tables.                                       *)
(***************************************************************************)
VariantTypeOf(action) ==
    CASE action = "resolve_as_forbidden"  -> "forbidden"
      [] action = "resolve_as_deprecated" -> "deprecated"
      [] OTHER                            -> "alias"

VariantStatusOf(type) == IF type = "alias" THEN "active" ELSE type

Triple(p) == <<p["source_concept_id"], p["relation_type"], p["target_concept_id"]>>

\* Mutant: a label of nothing but white space is accepted.
LabelErrorAcceptsBlank(g, label) ==
    IF LabelTaken(g, label) THEN "duplicate_term" ELSE "none"

LabelError(g, label) ==
    IF label = Blank THEN "unhandled"
    ELSE IF LabelTaken(g, label) THEN "duplicate_term"
    ELSE "none"

VariantError(g, p) ==
    IF ~ConceptExists(g, p["concept_id"]) THEN "concept_not_found"
    ELSE LabelError(g, p["variant"])

RelationError(g, p) ==
    IF \/ p["source_concept_id"] = p["target_concept_id"]
       \/ ~ConceptExists(g, p["source_concept_id"])
       \/ ~ConceptExists(g, p["target_concept_id"])
    THEN "invalid_relation"
    ELSE IF Triple(p) \in g.relations THEN "unhandled"
    ELSE "none"

ExistingError(g, p) ==
    IF ConceptExists(g, p["concept_id"]) THEN "none" ELSE "concept_not_found"

\* Mutant: duplicates among variant labels are not looked for.
EffectErrorWithoutLabelCheck(g, command) ==
    LET p == command.payload
    IN  CASE command.action = "resolve_as_relation" -> RelationError(g, p)
          [] command.action \in VariantActions      -> ExistingError(g, p)
          [] OTHER                                  -> "none"

EffectError(g, command) ==
    LET p == command.payload
    IN  CASE command.action = "resolve_as_new_concept" -> LabelError(g, p["term"])
          [] command.action \in VariantActions         -> VariantError(g, p)
          [] command.action = "resolve_as_relation"    -> RelationError(g, p)
          [] command.action = "resolve_as_existing_concept" -> ExistingError(g, p)
          [] OTHER                                     -> "none"

EffectResult(g, command, id) ==
    LET p == command.payload
        type == VariantTypeOf(command.action)
    IN  CASE command.action = "resolve_as_new_concept" ->
                 WriteNewConcept(g, id, id, p["term"], None, {})
          [] command.action \in VariantActions ->
                 WriteNewVariant(g, p["concept_id"], g.concepts[p["concept_id"]],
                                 id, p["variant"], type, VariantStatusOf(type))
          [] command.action = "resolve_as_relation" ->
                 InsertRelation(g, Triple(p))
          [] OTHER -> g

-----------------------------------------------------------------------------
SeedConcept(c) ==
    [term |-> SeedLabels[c], status |-> "active", physical |-> None,
     tags |-> {}, variants |-> {c}]

SeedVariant(c) ==
    [concept |-> c, label |-> SeedLabels[c], type |-> "primary",
     status |-> "active"]

SeedGlossary ==
    LET seeds == DOMAIN SeedLabels
    IN  [concepts  |-> [c \in RowIds |-> IF c \in seeds THEN SeedConcept(c) ELSE None],
         variants  |-> [v \in RowIds |-> IF v \in seeds THEN SeedVariant(v) ELSE None],
         relations |-> {},
         tagLabels |-> [i \in TagIds |-> None],
         tagLinks  |-> [c \in RowIds |-> {}]]

\* Every detector builds its issues with this status and the model's defaults.
DetectedIssue == [status |-> "open", version |-> 0, key |-> None]

Init ==
    /\ issues \in [Issues -> {DetectedIssue, None}]
    /\ glossary = SeedGlossary
    /\ lock = None
    /\ tx = None
    /\ pc = [r \in Reviewers |-> "idle"]
    /\ cmd = [r \in Reviewers |-> None]
    /\ attempt = [r \in Reviewers |-> 0]
    /\ snapshot = [r \in Reviewers |-> None]
    /\ reply = [r \in Reviewers |-> None]
    /\ checks = 0

-----------------------------------------------------------------------------
(***************************************************************************)
(* The reviewer's side.                                                    *)
(***************************************************************************)
Send(r, command) ==
    /\ pc[r] = "idle"
    /\ attempt[r] < MaxAttempts
    /\ Cardinality(InFlight(command.issue)) < MaxPerIssue
    /\ cmd' = [cmd EXCEPT ![r] = command]
    /\ attempt' = [attempt EXCEPT ![r] = @ + 1]
    /\ pc' = [pc EXCEPT ![r] = "read"]
    /\ UNCHANGED <<issues, glossary, lock, tx, snapshot, reply, checks>>

Submit(r) ==
    /\ cmd[r] = None
    /\ \E command \in Commands : Send(r, command)

\* The same command with the same idempotency key, after no usable answer.
Retry(r) ==
    /\ reply[r] \in Retriable
    /\ Send(r, cmd[r])

-----------------------------------------------------------------------------
(***************************************************************************)
(* The request's side.                                                     *)
(***************************************************************************)
Answer(r, answer) ==
    /\ pc' = [pc EXCEPT ![r] = "idle"]
    /\ snapshot' = [snapshot EXCEPT ![r] = None]
    /\ reply' = [reply EXCEPT ![r] = answer]

\* The end of the `with connection' block that raised: nothing is written.
RollBack(r) ==
    /\ lock' = None
    /\ tx' = None
    /\ UNCHANGED <<issues, glossary>>

\* get_issue and plan_review_action, before any transaction exists.
ReadAndPlan(r) ==
    /\ pc[r] = "read"
    /\ LET i == cmd[r].issue
           verdict == PlanReviewAction(issues[i], cmd[r])
       IN  IF i \notin Issues \/ issues[i] = None
           THEN Answer(r, "issue_not_found")
           ELSE IF verdict = "planned"
           THEN /\ pc' = [pc EXCEPT ![r] = "begin"]
                /\ snapshot' = [snapshot EXCEPT ![r] = issues[i]]
                /\ UNCHANGED reply
           ELSE Answer(r, verdict)
    /\ UNCHANGED <<issues, glossary, lock, tx, cmd, attempt, checks>>

\* The update that touches the issue row: it changes nothing and takes the
\* write lock, whatever the row's version has become.
BeginWrite(r) ==
    /\ pc[r] = "begin"
    /\ lock = None
    /\ lock' = r
    /\ tx' = glossary
    /\ pc' = [pc EXCEPT ![r] = "effect"]
    /\ UNCHANGED <<issues, glossary, cmd, attempt, snapshot, reply, checks>>

\* pragma busy_timeout = 1000 ran out: OperationalError, answered with 503.
BusyTimeout(r) ==
    /\ pc[r] = "begin"
    /\ lock # None
    /\ Answer(r, "database_locked")
    /\ UNCHANGED <<issues, glossary, lock, tx, cmd, attempt, checks>>

\* Mutant: the glossary service commits its own block although a transaction
\* is open (`with connection' nested instead of nullcontext).
ApplyEffectCommitsEarly(r) ==
    /\ pc[r] = "effect"
    /\ LET error == EffectError(tx, cmd[r])
       IN  IF error = "none"
           THEN /\ tx' = EffectResult(tx, cmd[r], NewId(r))
                /\ glossary' = tx'
                /\ pc' = [pc EXCEPT ![r] = "mark"]
                /\ UNCHANGED <<issues, lock, snapshot, reply>>
           ELSE Answer(r, error) /\ RollBack(r)
    /\ UNCHANGED <<cmd, attempt, checks>>

\* Mutant: a refused effect is answered without leaving the transaction.
ApplyEffectKeepsLock(r) ==
    /\ pc[r] = "effect"
    /\ LET error == EffectError(tx, cmd[r])
       IN  IF error = "none"
           THEN /\ tx' = EffectResult(tx, cmd[r], NewId(r))
                /\ pc' = [pc EXCEPT ![r] = "mark"]
                /\ UNCHANGED <<issues, glossary, lock, snapshot, reply>>
           ELSE Answer(r, error) /\ UNCHANGED <<issues, glossary, lock, tx>>
    /\ UNCHANGED <<cmd, attempt, checks>>

ApplyEffect(r) ==
    /\ pc[r] = "effect"
    /\ LET error == EffectError(tx, cmd[r])
       IN  IF error = "none"
           THEN /\ tx' = EffectResult(tx, cmd[r], NewId(r))
                /\ pc' = [pc EXCEPT ![r] = "mark"]
                /\ UNCHANGED <<issues, glossary, lock, snapshot, reply>>
           ELSE Answer(r, error) /\ RollBack(r)
    /\ UNCHANGED <<cmd, attempt, checks>>

\* _mark_issue_applied writes the row read in step 1 with the planned status,
\* the version after the one READ, and the key; leaving the block commits.
MarkAndCommit(r) ==
    /\ pc[r] = "mark"
    /\ issues' = [issues EXCEPT ![cmd[r].issue] =
                     [status  |-> NextStatus(cmd[r].action),
                      version |-> snapshot[r].version + 1,
                      key     |-> cmd[r].key]]
    /\ glossary' = tx
    /\ lock' = None
    /\ tx' = None
    /\ \E answer \in {"applied", "no_answer"} : Answer(r, answer)
    /\ UNCHANGED <<cmd, attempt, checks>>

\* The process or the connection dies; SQLite discards what was not committed.
Crash(r) ==
    /\ pc[r] # "idle"
    /\ Answer(r, "no_answer")
    /\ IF lock = r THEN RollBack(r) ELSE UNCHANGED <<issues, glossary, lock, tx>>
    /\ UNCHANGED <<cmd, attempt, checks>>

-----------------------------------------------------------------------------
(***************************************************************************)
(* The other writers.  Each is one short transaction of its own.           *)
(***************************************************************************)
\* Mutant: the check keeps the version and the key of a row it reopens.
CheckKeepsVersion(i) ==
    /\ lock = None
    /\ checks < MaxChecks
    /\ checks' = checks + 1
    /\ issues' = [issues EXCEPT ![i] = IF @ = None THEN DetectedIssue
                                       ELSE [@ EXCEPT !.status = "open"]]
    /\ UNCHANGED <<glossary, lock, tx, pc, cmd, attempt, snapshot, reply>>

\* upsert_issue: a detected issue has a deterministic id, so a second check of
\* the same document writes over the row, decided or not.
CheckWritesIssue(i) ==
    /\ lock = None
    /\ checks < MaxChecks
    /\ checks' = checks + 1
    /\ issues' = [issues EXCEPT ![i] = DetectedIssue]
    /\ UNCHANGED <<glossary, lock, tx, pc, cmd, attempt, snapshot, reply>>

EditorDeletesConcept(c) ==
    /\ lock = None
    /\ ConceptExists(glossary, c)
    /\ glossary' = DeleteConcept(glossary, c)
    /\ UNCHANGED <<issues, lock, tx, pc, cmd, attempt, snapshot, reply, checks>>

-----------------------------------------------------------------------------
RequestStep(r) ==
    \/ ReadAndPlan(r)
    \/ BeginWrite(r)
    \/ BusyTimeout(r)
    \/ ApplyEffect(r)
    \/ MarkAndCommit(r)

Next ==
    \/ \E r \in Reviewers : Submit(r) \/ Retry(r) \/ RequestStep(r) \/ Crash(r)
    \/ \E i \in Issues : CheckWritesIssue(i)
    \/ \E c \in RowIds : EditorDeletesConcept(c)

Spec == Init /\ [][Next]_vars

\* A request that runs goes on running: its thread is scheduled, and the busy
\* handler gives up after a second.
FairSpec == Spec /\ \A r \in Reviewers : WF_vars(RequestStep(r))

-----------------------------------------------------------------------------
(***************************************************************************)
(* Properties.                                                             *)
(***************************************************************************)
\* Every variable has its type.
TypeOK ==
    /\ issues \in [Issues -> IssueRows \cup {None}]
    /\ glossary \in GlossaryType
    /\ lock \in Reviewers \cup {None}
    /\ tx \in GlossaryType \cup {None}
    /\ pc \in [Reviewers -> Stages]
    /\ cmd \in [Reviewers -> Commands \cup {None}]
    /\ attempt \in [Reviewers -> 0 .. MaxAttempts]
    /\ snapshot \in [Reviewers -> IssueRows \cup {None}]
    /\ reply \in [Reviewers -> Replies \cup {None}]
    /\ checks \in 0 .. MaxChecks

\* There is one writer: a request is inside its transaction exactly while its
\* connection holds the write lock, whatever made the previous writer leave.
LockMatchesTransaction ==
    /\ \A r \in Reviewers : lock = r <=> pc[r] \in {"effect", "mark"}
    /\ lock = None <=> tx = None

\* The version counts nothing: an open issue is at version 0 without a key, a
\* decided one at version 1 with the key that decided it.  apply_action always
\* closes what it versions and upsert_issue always starts again at 0, so the
\* expected version a reviewer sends cannot tell an issue that was decided and
\* reopened by a document check from one nobody touched.
VersionIsClosedFlag ==
    \A i \in Issues :
        issues[i] # None =>
            /\ issues[i].version = IF issues[i].status = "open" THEN 0 ELSE 1
            /\ issues[i].key = None <=> issues[i].status = "open"

\* However many reviewers race, two decisions never attach the same label
\* twice: inside apply_action the duplicate test runs under the write lock.
LabelsStayUnique == UniqueLabels(glossary)

\* The list of variants in a concept's row never loses or invents a variant,
\* whatever decisions and deletions interleave.
VariantListsStayInStep == VariantListsAgree(glossary)

\* The result of a command is in the glossary.
EffectVisible(g, command) ==
    LET p == command.payload
        carries(c, label) ==
            \E v \in VariantsOf(g, c) : g.variants[v].label = label
    IN  CASE command.action \in VariantActions -> carries(p["concept_id"], p["variant"])
          [] command.action = "resolve_as_new_concept" ->
                 \E c \in RowIds : ConceptExists(g, c) /\ carries(c, p["term"])
          [] command.action = "resolve_as_relation" -> Triple(p) \in g.relations
          [] command.action = "resolve_as_existing_concept" ->
                 ConceptExists(g, p["concept_id"])
          [] OTHER -> TRUE

\* The step decides issue cmd[r].issue as reviewer r asked.
Decides(r) ==
    /\ pc[r] = "mark"
    /\ pc'[r] = "idle"
    /\ LET i == cmd[r].issue
       IN  /\ issues'[i].status = NextStatus(cmd[r].action)
           /\ issues'[i].key = cmd[r].key

\* A decision and its effect become visible in the same step: rows appear in
\* the glossary only with the decision that asked for them, and an issue is
\* never closed without its effect (README: review actions are processed as a
\* transaction; nothing enters the glossary unapproved).
DecisionIsAtomic ==
    [][/\ (\/ LiveVariants(glossary') \ LiveVariants(glossary) # {}
           \/ glossary'.relations \ glossary.relations # {})
             => \E r \in Reviewers : Decides(r)
       /\ \A i \in Issues :
             issues'[i] # issues[i] /\ issues'[i].status \in ClosedStatuses
             => \E r \in Reviewers : Decides(r) /\ cmd[r].issue = i
                                    /\ EffectVisible(glossary', cmd[r])]_vars

\* "Only open review issues can be changed.": a decision finds its issue open.
OnlyOpenIssuesChange ==
    [][\A r \in Reviewers : Decides(r) /\ issues' # issues
          => issues[cmd[r].issue].status = "open"]_vars

\* "dismissed and failed are terminal applied states."
TerminalStatesAreFinal ==
    [][\A i \in Issues :
          issues[i] # None /\ issues[i].status \in {"dismissed", "failed"}
          => issues'[i].status = issues[i].status]_vars

\* The write lock is always given back, so no crash, refusal or lost answer
\* locks the glossary for good.
WriteLockFreed == lock # None ~> lock = None

-----------------------------------------------------------------------------
(***************************************************************************)
(* The refinement: a request is pending while it is in flight, and an      *)
(* answer is the class of the reply.                                       *)
(***************************************************************************)
AnswerOf(code) ==
    CASE code \in Refusals  -> "refused"
      [] code \in Retriable -> "unknown"
      [] OTHER              -> code

Contract == INSTANCE ReviewContract WITH
    FirstGlossary <- SeedGlossary,
    pending       <- [r \in Reviewers |-> IF pc[r] = "idle" THEN None ELSE cmd[r]],
    answer        <- [r \in Reviewers |-> AnswerOf(reply[r])]

\* Requests on one issue that do not overlap behave as if each ran alone: the
\* expected version and the idempotency key then do what they are for, through
\* crashes, lost answers, retries, document checks and deleted concepts.
ImplementsContract == Contract!Spec
=============================================================================
