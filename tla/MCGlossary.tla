------------------------------ MODULE MCGlossary ------------------------------
(***************************************************************************)
(* Instances of Glossary for TLC: two editors and two seeded concepts.     *)
(***************************************************************************)
EXTENDS Glossary, TLC

CONSTANTS ann, ben, hp, mp, gone

MCEditors == {ann, ben}

MCSeedLabels == (hp :> "health") @@ (mp :> "mana")

MCLabels == {"health", "mana", "life"}

MCPhysicalNames == {"hp"}

MCRelationTypes == {"related_to"}

\* "c" and "c++" have the same slug.
MCTagId == ("c" :> "tag_c") @@ ("c++" :> "tag_c") @@ ("ui" :> "tag_ui")

Create(label, name, tags) ==
    [op |-> "create", term |-> label, physical |-> name, tags |-> tags]

Update(c, patch) == [op |-> "update", concept |-> c, patch |-> patch]

Variant(c, label, type) ==
    [op |-> "variant", concept |-> c, label |-> label, type |-> type]

Relate(from, to) ==
    [op |-> "relation", source |-> from, type |-> "related_to", target |-> to]

\* Each method where it succeeds, where a read refuses it, and where only the
\* schema does.
MCCommands ==
    {Create("life", "hp", {"c"}), Create("life", "", {"c", "c++"}),
     Create("", "", {}),
     Update(hp, [term |-> "life", tags |-> {"c++"}]),
     Update(hp, [status |-> "deprecated"]),
     Update(mp, [physical |-> "hp", tags |-> {"c", "c++"}]),
     Update(mp, [physical |-> "hp"]), Update(mp, [physical |-> ""]),
     [op |-> "delete", concept |-> hp], [op |-> "delete", concept |-> gone],
     Variant(hp, "life", "alias"), Variant(hp, "life", "primary"),
     Variant(mp, "life", "forbidden"),
     Relate(hp, mp), Relate(hp, hp)}
=============================================================================
