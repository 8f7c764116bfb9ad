-------------------------------- MODULE Explore --------------------------------
(***************************************************************************)
(* What agents and users look up: the terminology context of a query       *)
(* (doc2dic_explore) and the tags suggested for one (doc2dic_suggest_tags).*)
(*                                                                         *)
(* A context searches for the whole query, then for each of its terms; a   *)
(* search is one select per group of rows.  Search rows are as old as the  *)
(* last rebuild, and are joined with the rows of the tables.  The cards    *)
(* are then loaded one row at a time: a row that was found and is gone is  *)
(* an error.                                                               *)
(*                                                                         *)
(* A query is a set of labels.  How hits are ranked is left open.  Groups  *)
(* of documents and of evidence are left out: no operation deletes a       *)
(* document, and evidence is treated as issues are.                        *)
(***************************************************************************)
EXTENDS Workspace

CONSTANTS
    Queries,            \* what is asked for: sequences of labels
    MaxConceptCards,    \* ExploreContextLimits.max_concepts
    MaxIssueCards,      \* ExploreContextLimits.max_issues
    NearScores,         \* what _semantic_score makes of the distances
    MaxNear             \* VECTOR_CANDIDATE_LIMIT

ASSUME QueriesAssumption == Queries \subseteq Seq(Labels)

ASSUME CardsAssumption == {MaxConceptCards, MaxIssueCards, MaxNear} \subseteq Nat

\* max(1, round(10 / (1 + distance)))
ASSUME NearScoresAssumption == NearScores \subseteq 1 .. 10

SearchLimit == Max({MaxConceptCards, MaxIssueCards, 1})

ExploreJob(stage) == Running /\ job.kind = "explore" /\ job.stage = stage

\* Mutant: the search rows are trusted, without the join.
ConceptHitsWithoutJoin(terms) ==
    {c \in ConceptIds : search.concepts[c] # None /\ terms \subseteq search.concepts[c]}

\* _search_concepts: rows with every term, of concepts that are still there.
ConceptHits(terms) ==
    {c \in Live : search.concepts[c] # None /\ terms \subseteq search.concepts[c]}

\* _search_issues: the surface is the label that matches.
IssueHits(terms) ==
    {i \in (DOMAIN issues) \cap (DOMAIN search.issues) : terms \subseteq {search.issues[i]}}

\* The first SearchLimit of the hits, in an order of the search's choice.
Ranked(hits) ==
    {s \in SeqOf(hits, SearchLimit) :
        IsInjective(s) /\ (Len(s) < SearchLimit => Range(s) = hits)}

\* _merge_results: the first mention of a row counts.
Merge(found, hits) ==
    LET merged[n \in 0 .. Len(hits)] ==
            IF n = 0 THEN found
            ELSE IF hits[n] \in Range(merged[n - 1]) THEN merged[n - 1]
            ELSE Append(merged[n - 1], hits[n])
    IN  merged[Len(hits)]

FirstOf(s, n) == SubSeq(s, 1, Min({n, Len(s)}))

-----------------------------------------------------------------------------
(***************************************************************************)
(* The context of a query.                                                 *)
(***************************************************************************)
\* The searches to make: the whole query, then its terms.
Searches(query) == <<Range(query)>> \o [k \in DOMAIN query |-> {query[k]}]

StartExplore ==
    \E query \in Queries :
        /\ Begin([kind |-> "explore", alone |-> TRUE, stage |-> "concepts",
                  searches |-> Searches(query), concepts |-> <<>>, issues |-> <<>>,
                  cards |-> <<>>, issueCards |-> <<>>])
        /\ UNCHANGED <<Tables, edits>>

SearchConcepts ==
    /\ ExploreJob("concepts")
    /\ \E hits \in Ranked(ConceptHits(Head(job.searches))) :
          Advance([job EXCEPT !.stage = "issues", !.concepts = Merge(@, hits)])
    /\ UNCHANGED Tables

\* Mutant: the search that was made is not taken off the list.
SearchIssuesAgain ==
    /\ ExploreJob("issues")
    /\ \E hits \in Ranked(IssueHits(Head(job.searches))) :
          Advance([job EXCEPT !.stage = "concepts", !.issues = Merge(@, hits)])
    /\ UNCHANGED Tables

\* After the last search the results are cut, and the cards are loaded.
SearchIssues ==
    /\ ExploreJob("issues")
    /\ \E hits \in Ranked(IssueHits(Head(job.searches))) :
          LET merged == [job EXCEPT !.issues = Merge(@, hits), !.searches = Tail(@)]
          IN  Advance(
                  IF merged.searches # <<>>
                  THEN [merged EXCEPT !.stage = "concepts"]
                  ELSE [merged EXCEPT !.stage = "card",
                                      !.concepts = FirstOf(@, MaxConceptCards),
                                      !.issues = FirstOf(@, MaxIssueCards)])
    /\ UNCHANGED Tables

\* MutableVariantGroups.append: which group a variant's label is listed in.
Group(row) ==
    CASE row.type = "primary" /\ row.status = "active" -> "primary"
      [] row.type \in {"alias", "abbreviation"} /\ row.status = "active" -> "alias"
      [] row.type = "deprecated" \/ row.status = "deprecated" -> "deprecated"
      [] row.type = "forbidden" \/ row.status = "forbidden" -> "forbidden"
      [] OTHER -> "none"

\* A variant that is in no group is not shown.
VariantGroups(c) ==
    LET shown == {v \in VariantsOf(glossary, c) : Group(glossary.variants[v]) # "none"}
    IN  {<<Group(glossary.variants[v]), glossary.variants[v].label>> : v \in shown}

\* The concept's row; the select of its variants follows.
LoadConcept ==
    /\ ExploreJob("card")
    /\ job.concepts # <<>>
    /\ LET c == Head(job.concepts)
       IN  Advance(
               IF c \in Live
               THEN [job EXCEPT !.stage = "groups",
                                !.cards = Append(@, [id |-> c,
                                                     row |-> glossary.concepts[c],
                                                     groups |-> {}])]
               ELSE Ended("row_missing"))
    /\ UNCHANGED Tables

LoadVariants ==
    /\ ExploreJob("groups")
    /\ Advance([job EXCEPT !.stage = "card",
                           !.concepts = Tail(@),
                           !.cards[Len(job.cards)].groups = VariantGroups(Head(job.concepts))])
    /\ UNCHANGED Tables

LoadIssue ==
    /\ ExploreJob("card")
    /\ job.concepts = <<>> /\ job.issues # <<>>
    /\ LET i == Head(job.issues)
       IN  Advance(
               IF i \in DOMAIN issues
               THEN [job EXCEPT !.issues = Tail(@),
                                !.issueCards = Append(@, [id |-> i, row |-> issues[i]])]
               ELSE Ended("row_missing"))
    /\ UNCHANGED Tables

RenderContext ==
    /\ ExploreJob("card")
    /\ job.concepts = <<>> /\ job.issues = <<>>
    /\ Advance(Ended("context"))
    /\ UNCHANGED Tables

-----------------------------------------------------------------------------
(***************************************************************************)
(* Tag suggestions.                                                        *)
(***************************************************************************)
\* _concept_score and _tag_score: a label or a tag is one token, and the query
\* has none of the words of definitions.
ConceptScore(tokens, row) == 2 * Cardinality(tokens \cap ({row.term} \cup row.tags))

TagScore(tokens, tag) == IF tag \in tokens THEN 3 ELSE 0

\* What is known of a tag so far: its score, and the terms it was seen with.
NoScores == [tag \in Tags |-> [score |-> 0, sources |-> <<>>]]

\* Mutant: the last concept's score counts.
WithLastEvidence(known, score, term) ==
    [score   |-> score,
     sources |-> IF term \in Range(known.sources) THEN known.sources
                 ELSE Append(known.sources, term)]

WithEvidence(known, score, term) ==
    [score   |-> known.score + score,
     sources |-> IF term \in Range(known.sources) THEN known.sources
                 ELSE Append(known.sources, term)]

\* The tags of one concept are given their scores; a score of zero is skipped.
ScoreConcept(scored, row, score) ==
    [tag \in Tags |-> IF tag \in row.tags /\ score[tag] > 0
                      THEN WithEvidence(scored[tag], score[tag], row.term)
                      ELSE scored[tag]]

\* _suggestions, before the sort: the lexical scores of all concepts ...
LexicalScores(tokens, listed) ==
    LET Score(row) == [tag \in Tags |-> ConceptScore(tokens, row) + TagScore(tokens, tag)]
        scored[n \in 0 .. Len(Concepts)] ==
            IF n = 0 THEN NoScores
            ELSE IF Concepts[n] \in DOMAIN listed
                 THEN ScoreConcept(scored[n - 1], listed[Concepts[n]],
                                   Score(listed[Concepts[n]]))
                 ELSE scored[n - 1]
    IN  scored[Len(Concepts)]

\* ... then what the nearest embeddings add to the tags of those concepts that
\* were listed.
Scores(tokens, listed, near) ==
    LET scored[n \in 0 .. Len(near)] ==
            IF n = 0 THEN LexicalScores(tokens, listed)
            ELSE IF near[n].concept \in DOMAIN listed
                 THEN ScoreConcept(scored[n - 1], listed[near[n].concept],
                                   [tag \in Tags |-> near[n].score])
                 ELSE scored[n - 1]
    IN  scored[Len(near)]

\* list_concepts: all of them, whatever their status.
StartTags ==
    \E query \in Queries :
        /\ Begin([kind |-> "tags", alone |-> TRUE, stage |-> "index",
                  tokens |-> Range(query),
                  listed |-> [c \in Live |-> glossary.concepts[c]],
                  near |-> <<>>, scores |-> NoScores])
        /\ UNCHANGED <<Tables, edits>>

TagsJob(stage) == Running /\ job.kind = "tags" /\ job.stage = stage

\* The pass gives every active concept an embedding, or fails.
IndexForTags ==
    /\ TagsJob("index")
    /\ \/ /\ embedded' = embedded \cup Active
          /\ Advance([job EXCEPT !.stage = "near"])
       \/ /\ Advance([job EXCEPT !.stage = "score"])
          /\ UNCHANGED embedded
    /\ UNCHANGED <<glossary, gone, issues, search, snapshots, exports>>

\* The nearest embeddings, of deleted and rewritten concepts too; a concept
\* may be named by several.
QueryForTags ==
    /\ TagsJob("near")
    /\ \E near \in SeqOf([concept : embedded, score : NearScores], MaxNear) :
          Advance([job EXCEPT !.stage = "score", !.near = near])
    /\ UNCHANGED Tables

SuggestTags ==
    /\ TagsJob("score")
    /\ Advance([job EXCEPT !.stage = "suggested",
                           !.scores = Scores(job.tokens, job.listed, job.near)])
    /\ UNCHANGED Tables

RenderTags ==
    /\ TagsJob("suggested")
    /\ Advance(Ended("tags"))
    /\ UNCHANGED Tables

ExploreStep ==
    \/ SearchConcepts \/ SearchIssues \/ LoadConcept \/ LoadVariants \/ LoadIssue
    \/ RenderContext \/ IndexForTags \/ QueryForTags \/ SuggestTags \/ RenderTags

-----------------------------------------------------------------------------
(***************************************************************************)
(* Properties.                                                             *)
(***************************************************************************)
OfDifferentRows(cards) == IsInjective([k \in DOMAIN cards |-> cards[k].id])

\* A context that is not disturbed is given, however old the search rows are:
\* a concept deleted since the last rebuild does not break it off.  Its cards
\* are of different rows, no more than the limits, and each shows its row as
\* it is now, a concept with all of its labels.
QuietContextIsCurrent ==
    [][Running /\ job.kind = "explore" /\ job.alone /\ job'.kind = "none"
       => \/ job'.stage = "crashed"
          \/ /\ job'.stage = "context"
             /\ OfDifferentRows(job.cards) /\ Len(job.cards) <= MaxConceptCards
             /\ OfDifferentRows(job.issueCards) /\ Len(job.issueCards) <= MaxIssueCards
             /\ \A card \in Range(job.cards) :
                   /\ card.row = glossary.concepts[card.id]
                   /\ {g[2] : g \in card.groups}
                         = {glossary.variants[v].label : v \in VariantsOf(glossary, card.id)}
             /\ \A card \in Range(job.issueCards) : card.row = issues[card.id]]_vars

\* The loop over concepts and tags computes what is meant: the score of a tag
\* is the sum over the concepts that carry it, and over the nearest embeddings
\* of such concepts, while a concept deleted since counts for nothing.
TagScoresAddUp ==
    TagsJob("suggested") =>
        \A tag \in Tags :
            LET carriers == {c \in DOMAIN job.listed : tag \in job.listed[c].tags}
                hits == {k \in DOMAIN job.near : job.near[k].concept \in carriers}
                lexical == [c \in carriers |-> ConceptScore(job.tokens, job.listed[c])
                                               + TagScore(job.tokens, tag)]
                semantic == [k \in hits |-> job.near[k].score]
            IN  /\ job.scores[tag].score = SumFunction(lexical) + SumFunction(semantic)
                /\ Range(job.scores[tag].sources)
                      \subseteq {job.listed[c].term : c \in carriers}
                /\ (job.scores[tag].sources # <<>>) <=> (job.scores[tag].score > 0)
=============================================================================
