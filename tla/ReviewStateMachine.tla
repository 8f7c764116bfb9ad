------------------------- MODULE ReviewStateMachine -------------------------
(***************************************************************************)
(* The pure review state machine of services/review_state_machine.py: what *)
(* one human review action may do to one issue, decided from a snapshot of *)
(* the issue and the request alone.  No storage is touched here; the       *)
(* transactional caller is module ReviewQueue.                             *)
(*                                                                         *)
(* An issue snapshot is a record [status, version, key]; a request is a    *)
(* record that has at least the fields [action, expected, key, payload],   *)
(* where payload is a function from field names to values, defined on the  *)
(* fields the reviewer supplied.                                           *)
(***************************************************************************)
EXTENDS Naturals

IssueStatuses == {"open", "resolved", "dismissed", "failed"}

ClosedStatuses == IssueStatuses \ {"open"}

\* The actions that attach a surface form to an existing concept.
VariantActions ==
    {"resolve_as_alias", "resolve_as_forbidden", "resolve_as_deprecated"}

ReviewActions ==
    VariantActions \cup
    {"resolve_as_existing_concept", "resolve_as_new_concept",
     "resolve_as_relation", "dismiss", "mark_failed"}

\* The status an applied action leaves the issue in.
NextStatus(action) ==
    CASE action = "dismiss"     -> "dismissed"
      [] action = "mark_failed" -> "failed"
      [] OTHER                  -> "resolved"

\* The payload fields without which an action is refused.
RequiredFields(action) ==
    CASE action = "resolve_as_existing_concept" -> {"concept_id"}
      [] action \in VariantActions              -> {"concept_id", "variant"}
      [] action = "resolve_as_new_concept"      -> {"term", "definition"}
      [] action = "resolve_as_relation"         ->
            {"source_concept_id", "target_concept_id", "relation_type"}
      [] OTHER                                  -> {"reason"}

-----------------------------------------------------------------------------
(***************************************************************************)
(* plan_review_action.  The order of the tests is the code's: a replayed   *)
(* key is recognised before the issue's status is looked at, the status    *)
(* before the version, and the payload last.                               *)
(***************************************************************************)
PlanVerdicts ==
    {"planned", "already_applied", "issue_closed", "stale_version",
     "invalid_payload"}

\* Mutant: the closed test comes before the replay test.
PlanClosedFirst(issue, request) ==
    IF issue.status # "open" THEN "issue_closed"
    ELSE IF issue.key = request.key THEN "already_applied"
    ELSE IF issue.version # request.expected THEN "stale_version"
    ELSE IF ~(RequiredFields(request.action) \subseteq DOMAIN request.payload)
         THEN "invalid_payload"
    ELSE "planned"

PlanReviewAction(issue, request) ==
    IF issue.key = request.key THEN "already_applied"
    ELSE IF issue.status # "open" THEN "issue_closed"
    ELSE IF issue.version # request.expected THEN "stale_version"
    ELSE IF ~(RequiredFields(request.action) \subseteq DOMAIN request.payload)
         THEN "invalid_payload"
    ELSE "planned"
=============================================================================
