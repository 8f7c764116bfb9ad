------------------------------ MODULE MCWorkbench ------------------------------
(***************************************************************************)
(* Instances of Workbench for TLC: two concepts, one of which may be made  *)
(* later, and a variant.                                                   *)
(***************************************************************************)
EXTENDS Workbench

CONSTANTS c1, c2, a1

MCConcepts == <<c1, c2>>

MCTagId == "fee" :> "fee"

\* The tag is named like a term.  The last glossary is what two
\* requests that overlap may leave: two concepts of one primary term.
MCSeeds ==
    {c1 :> [term |-> "fee", tags |-> {"fee"}],
     c1 :> [term |-> "fee", tags |-> {"fee"}] @@ c2 :> [term |-> "fee", tags |-> {}]}

MCQueries == {<<"fee">>}

\* A term the glossary knows, one it does not know with a tag it knows, and two
\* the model is not sure of or the document does not define.
Candidate(surface, tags, sure, quoted) ==
    [surface |-> surface, tags |-> tags, sure |-> sure, quoted |-> quoted]

MCAnswers ==
    {<<Candidate("fee", {"fee"}, TRUE, TRUE)>>,
     <<Candidate("rent", {"fee"}, TRUE, TRUE), Candidate("fee", {}, TRUE, FALSE)>>,
     <<Candidate("rent", {}, FALSE, TRUE)>>}

\* The pairs of jobs whose second one reads or overwrites what the first one has
\* written: files of an export, issues, embeddings.  The first may have died
\* before it wrote anything, so each kind of job also runs as if alone.
MCAgendas ==
    {<<"graph", "graph">>, <<"analysis", "graph">>, <<"analysis", "explore">>,
     <<"analysis", "analysis">>, <<"analysis", "tags">>, <<"tags", "analysis">>,
     <<"tags", "tags">>}

MCExports == {<<"graph">>}
=============================================================================
