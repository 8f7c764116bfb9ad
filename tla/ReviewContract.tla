---------------------------- MODULE ReviewContract ----------------------------
(***************************************************************************)
(* What the review queue promises its users, said without connections,     *)
(* transactions or locks: every request is answered as if it had run alone *)
(* at one instant between its sending and its answer.  It then either      *)
(* decided an open issue the reviewer had seen in its current version, and *)
(* had its effect on the glossary, or it changed nothing.                  *)
(*                                                                         *)
(* ReviewQueue is shown to implement this specification as long as two     *)
(* requests on the same issue are never in flight together.                *)
(***************************************************************************)
EXTENDS ReviewStateMachine, GlossaryStore

CONSTANTS Reviewers, Issues, Commands, FirstGlossary

VARIABLES
    issues,     \* issue id -> [status, version, key], or None
    glossary,
    pending,    \* the command each reviewer waits for, or None
    answer      \* the last answer each reviewer got, or None

vars == <<issues, glossary, pending, answer>>

OpenIssue == [status |-> "open", version |-> 0, key |-> None]

Init ==
    /\ issues \in [Issues -> {OpenIssue, None}]
    /\ glossary = FirstGlossary
    /\ pending = [r \in Reviewers |-> None]
    /\ answer = [r \in Reviewers |-> None]

-----------------------------------------------------------------------------
KnownIssue(command) == command.issue \in Issues /\ issues[command.issue] # None

\* The issue was decided by this very request.
Decided(command) ==
    KnownIssue(command) /\ issues[command.issue].key = command.key

\* The reviewer looked at the issue as it is now, and said all that is needed.
Current(command) ==
    /\ KnownIssue(command)
    /\ issues[command.issue].status = "open"
    /\ issues[command.issue].version = command.expected
    /\ RequiredFields(command.action) \subseteq DOMAIN command.payload

FreeLabel(label) == label # Blank /\ ~LabelTaken(glossary, label)

\* The glossary can take the effect.
Possible(command) ==
    LET p == command.payload
        known(field) == ConceptExists(glossary, p[field])
    IN  CASE command.action = "resolve_as_new_concept" -> FreeLabel(p["term"])
          [] command.action \in VariantActions ->
                 known("concept_id") /\ FreeLabel(p["variant"])
          [] command.action = "resolve_as_existing_concept" -> known("concept_id")
          [] command.action = "resolve_as_relation" ->
                 /\ p["source_concept_id"] # p["target_concept_id"]
                 /\ known("source_concept_id") /\ known("target_concept_id")
                 /\ \A t \in glossary.relations :
                       t # <<p["source_concept_id"], p["relation_type"],
                             p["target_concept_id"]>>
          [] OTHER -> TRUE

\* How a surface form is attached: the variant's type and status.
AttachedAs ==
    [resolve_as_alias      |-> <<"alias", "active">>,
     resolve_as_forbidden  |-> <<"forbidden", "forbidden">>,
     resolve_as_deprecated |-> <<"deprecated", "deprecated">>]

\* The glossary after the effect; new rows get identifiers not in use.
Effect(command) ==
    LET p == command.payload
        ids == DOMAIN glossary.variants \ LiveVariants(glossary)
    IN  CASE command.action = "resolve_as_new_concept" ->
                 \E c, v \in ids :
                     glossary' = WriteNewConcept(glossary, c, v, p["term"], None, {})
          [] command.action \in VariantActions ->
                 \E v \in ids :
                     glossary' = WriteNewVariant(glossary, p["concept_id"],
                                     glossary.concepts[p["concept_id"]], v,
                                     p["variant"], AttachedAs[command.action][1],
                                     AttachedAs[command.action][2])
          [] command.action = "resolve_as_relation" ->
                 glossary' = InsertRelation(glossary,
                                 <<p["source_concept_id"], p["relation_type"],
                                   p["target_concept_id"]>>)
          [] OTHER -> UNCHANGED glossary

-----------------------------------------------------------------------------
Request(r) ==
    /\ pending[r] = None
    /\ \E command \in Commands : pending' = [pending EXCEPT ![r] = command]
    /\ UNCHANGED <<issues, glossary, answer>>

AnswerWith(r, a) ==
    /\ pending[r] # None
    /\ pending' = [pending EXCEPT ![r] = None]
    /\ answer' = [answer EXCEPT ![r] = a]

Decide(r) ==
    LET command == pending[r]
    IN  /\ \E a \in {"applied", "unknown"} : AnswerWith(r, a)
        /\ Current(command) /\ ~Decided(command) /\ Possible(command)
        /\ issues' = [issues EXCEPT ![command.issue] =
                         [status  |-> NextStatus(command.action),
                          version |-> @.version + 1,
                          key     |-> command.key]]
        /\ Effect(command)

Replay(r) ==
    /\ AnswerWith(r, "already_applied")
    /\ Decided(pending[r])
    /\ UNCHANGED <<issues, glossary>>

Refuse(r) ==
    /\ AnswerWith(r, "refused")
    /\ ~Decided(pending[r])
    /\ ~(Current(pending[r]) /\ Possible(pending[r]))
    /\ UNCHANGED <<issues, glossary>>

\* Too busy, or nobody left to answer: nothing was done.
GiveUp(r) ==
    /\ AnswerWith(r, "unknown")
    /\ UNCHANGED <<issues, glossary>>

DocumentCheck(i) ==
    /\ issues' = [issues EXCEPT ![i] = OpenIssue]
    /\ UNCHANGED <<glossary, pending, answer>>

Remove(c) ==
    /\ ConceptExists(glossary, c)
    /\ glossary' = DeleteConcept(glossary, c)
    /\ UNCHANGED <<issues, pending, answer>>

Next ==
    \/ \E r \in Reviewers :
          Request(r) \/ Decide(r) \/ Replay(r) \/ Refuse(r) \/ GiveUp(r)
    \/ \E i \in Issues : DocumentCheck(i)
    \/ \E c \in DOMAIN glossary.concepts : Remove(c)

Spec == Init /\ [][Next]_vars
=============================================================================
