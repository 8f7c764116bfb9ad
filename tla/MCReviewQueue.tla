---------------------------- MODULE MCReviewQueue ----------------------------
(***************************************************************************)
(* Instances of ReviewQueue for TLC.  Two reviewers, one or two issues, a  *)
(* glossary of two concepts, and commands chosen so that every kind of     *)
(* effect succeeds somewhere and every refusal is met somewhere.           *)
(***************************************************************************)
EXTENDS ReviewQueue, TLC

CONSTANTS alice, bob, i1, i2, gone, hp, mp, k1, k2

MCReviewers == {alice, bob}

MCSeedLabels == (hp :> "health") @@ (mp :> "mana")

MCLabels == {"health", "mana", "life"}

MCRelationTypes == {"related_to"}

\* No decision of a reviewer tags a concept.
MCTagId == <<>>

Command(issue, action, expected, key, payload) ==
    [issue |-> issue, action |-> action, expected |-> expected, key |-> key,
     payload |-> payload]

Alias(i, k, label) ==
    Command(i, "resolve_as_alias", 0, k, [concept_id |-> hp, variant |-> label])

NewLife(i, k) ==
    Command(i, "resolve_as_new_concept", 0, k,
            [term |-> "life", definition |-> "d"])

Relate(i, k, from, to) ==
    Command(i, "resolve_as_relation", 0, k,
            [source_concept_id |-> from, target_concept_id |-> to,
             relation_type |-> "related_to"])

Dismiss(i, k) == Command(i, "dismiss", 0, k, [reason |-> "noise"])

\* One command per kind of effect on one issue, under two keys where a replay
\* and a competing decision differ.
RaceCommands ==
    {Alias(i1, k1, "life"), NewLife(i1, k2), Relate(i1, k1, hp, mp),
     Dismiss(i1, k1),
     Command(i1, "resolve_as_forbidden", 0, k2, [concept_id |-> mp, variant |-> "life"]),
     Command(i1, "resolve_as_existing_concept", 0, k2, [concept_id |-> hp])}

\* For the contract, on two issues: a replayed key, a decision that loses, and
\* each refusal of the state machine, of the service and of the glossary.
ContractCommands ==
    {Alias(i1, k1, "life"), NewLife(i2, k2), Relate(i1, k2, hp, mp),
     Relate(i2, k1, hp, hp), Relate(i2, k2, hp, mp),
     Dismiss(i2, k1), Dismiss(gone, k1), Alias(i1, k2, ""),
     Command(i1, "dismiss", 1, k1, [reason |-> "noise"]),
     Command(i2, "mark_failed", 0, k2, [variant |-> "life"]),
     Command(i1, "resolve_as_existing_concept", 0, k1, [concept_id |-> gone])}
=============================================================================
