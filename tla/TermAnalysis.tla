----------------------------- MODULE TermAnalysis -----------------------------
(***************************************************************************)
(* The analysis of a document: analyze_document.                           *)
(*                                                                         *)
(* An analysis checks the document against the glossary, asks a language   *)
(* model for the terms the document defines, looks up the concepts that    *)
(* are nearest to them in the embeddings, classifies the terms against the *)
(* glossary as it is by then, and writes the issues of both parts one by   *)
(* one.                                                                    *)
(*                                                                         *)
(* There is one document, known by the labels it mentions.  What a model   *)
(* answers is open; a candidate is                                         *)
(*   [surface, tags, sure, quoted]                                         *)
(* where `sure' says that its confidence reaches MIN_CONFLICT_CONFIDENCE   *)
(* and `quoted' that one of its quotes occurs in the document.  How the    *)
(* check writes its document, chunks and occurrences is the subject of     *)
(* DocumentIndex: here that is one step.                                   *)
(***************************************************************************)
EXTENDS Workspace

CONSTANTS
    Mentioned,      \* the labels that occur in the document
    Answers,        \* valid answers of the model: sequences of candidates
    MaxAttempts     \* LLMServiceConfig.max_attempts

ASSUME AttemptsAssumption == MaxAttempts \in Int

\* What a model answers names some label, known to the glossary or not.
ASSUME AnswersAssumption ==
    Answers \subseteq Seq([surface : Labels, tags : SUBSET Tags,
                           sure : BOOLEAN, quoted : BOOLEAN])

\* AnalysisFailure: None where there is no failure.
ASSUME FailuresAssumption == None \notin {"provider_disabled", "provider_error", "invalid_json"}

AnalysisJob(stage) == Running /\ job.kind = "analysis" /\ job.stage = stage

Finding(id, type, surface, candidate, target) ==
    [id |-> id,
     row |-> [type |-> type, surface |-> surface, candidate |-> candidate,
              target |-> target, status |-> "open"]]

\* load_glossary_terms: one select over concepts and variants.
GlossaryTerms ==
    {[concept |-> glossary.variants[v].concept,
      owner   |-> glossary.concepts[glossary.variants[v].concept].status,
      label   |-> glossary.variants[v].label,
      type    |-> glossary.variants[v].type,
      status  |-> glossary.variants[v].status] : v \in LiveVariants(glossary)}

TermIsActive(term) == term.owner = "active" /\ term.status = "active"

-----------------------------------------------------------------------------
(***************************************************************************)
(* The check.                                                              *)
(***************************************************************************)
Detections(terms) == {t \in terms : t.label \in Mentioned}

\* Mutant: the type of the issue is the status that calls for it.
LifecycleStatus(term) ==
    IF term.owner # "active" THEN term.owner
    ELSE IF term.status # "active" THEN term.status
    ELSE None

LifecycleIssueType(term) ==
    IF "forbidden" \in {term.owner, term.status} THEN "forbidden_term"
    ELSE IF "deprecated" \in {term.owner, term.status} THEN "alias_candidate"
    ELSE None

LifecycleIssues(terms) ==
    {Finding(<<"lifecycle", LifecycleIssueType(t), t.concept, t.label>>,
             LifecycleIssueType(t), t.label, t.concept, t.concept) :
        t \in {d \in Detections(terms) : LifecycleIssueType(d) # None}}

\* Labels that active terms of several concepts share.
SameTermIssues(terms) ==
    LET active == {t \in terms : TermIsActive(t)}
        concepts(label) == {t.concept : t \in {d \in active : d.label = label}}
    IN  {Finding(<<"same-term", label>>, "same_term_different_meaning", label,
                 FirstOfIds(concepts(label)), LastOfIds(concepts(label))) :
            label \in {l \in {d.label : d \in Detections(active)} : Cardinality(concepts(l)) > 1}}

\* Concepts mentioned by an alias.  Its surface is the alias detected first;
\* here, one of them.
SameMeaningIssues(terms) ==
    LET aliases == {t \in Detections(terms) : TermIsActive(t) /\ t.type = "alias"}
        surface(c) == CHOOSE l \in Mentioned : \E t \in aliases : t.concept = c /\ t.label = l
    IN  {Finding(<<"same-meaning", c>>, "same_meaning_different_term", surface(c), c, c) :
            c \in {t.concept : t \in aliases}}

DetectIssues(terms) ==
    SetToSeq(LifecycleIssues(terms)) \o SetToSeq(SameTermIssues(terms))
    \o SetToSeq(SameMeaningIssues(terms))

\* `doc2dic analyze' and POST analyze-path.
StartAnalysis ==
    \E writeIssues \in BOOLEAN :
        /\ Begin([kind |-> "analysis", alone |-> TRUE, stage |-> "store", write |-> writeIssues,
                  check |-> DetectIssues(GlossaryTerms),
                  owners |-> {t.concept : t \in Detections(GlossaryTerms)},
                  outcomes |-> <<>>, attempts |-> 0, failure |-> None,
                  candidates |-> <<>>, near |-> <<>>, terms |-> {}, active |-> <<>>,
                  found |-> <<>>])
        /\ UNCHANGED <<Tables, edits>>

\* The occurrences name the concepts that were read.
StoreCheck ==
    /\ AnalysisJob("store")
    /\ Advance(IF job.owners \subseteq Live THEN [job EXCEPT !.stage = "extract"]
               ELSE Ended("constraint"))
    /\ UNCHANGED Tables

-----------------------------------------------------------------------------
(***************************************************************************)
(* The extraction: LLMTermExtractionService.extract_terms.                 *)
(***************************************************************************)
Attempts == Max({1, MaxAttempts})

Attempt == Len(job.outcomes) + 1

Attempted(outcome) == [job EXCEPT !.outcomes = Append(@, outcome)]

ExtractionFails(attempted, code, attempts) ==
    [attempted EXCEPT !.stage = "extracted", !.failure = code, !.attempts = attempts]

ProviderAnswers ==
    /\ AnalysisJob("extract")
    /\ \E candidates \in Answers :
          Advance([Attempted("valid") EXCEPT !.stage = "extracted",
                                             !.attempts = Attempt,
                                             !.candidates = candidates])
    /\ UNCHANGED Tables

\* Mutant: a provider that fails is asked again, too.
ProviderFailsRetried ==
    /\ AnalysisJob("extract")
    /\ \E code \in {"provider_disabled", "provider_error"} :
          Advance(IF Attempt < Attempts
                  THEN Attempted(code)
                  ELSE ExtractionFails(Attempted(code), code, Attempt))
    /\ UNCHANGED Tables

ProviderFails ==
    /\ AnalysisJob("extract")
    /\ \E code \in {"provider_disabled", "provider_error"} :
          Advance(ExtractionFails(Attempted(code), code, Attempt))
    /\ UNCHANGED Tables

\* An answer that is not of the schema is asked for again, while attempts last.
ProviderAnswersInvalid ==
    /\ AnalysisJob("extract")
    /\ Advance(IF Attempt < Attempts
               THEN Attempted("invalid")
               ELSE ExtractionFails(Attempted("invalid"), "invalid_json", Attempts))
    /\ UNCHANGED Tables

-----------------------------------------------------------------------------
(***************************************************************************)
(* What to do with the extraction: the match of analyze_document.          *)
(***************************************************************************)
Quoted == {k \in DOMAIN job.candidates : job.candidates[k].quoted}

\* What is left of a job when its issues are written.
Persisting(found) ==
    [kind |-> "analysis", alone |-> job.alone, stage |-> "write",
     todo |-> IF job.write THEN job.check \o found ELSE <<>>]

\* Without an extraction the issues of the check are all there are; without a
\* quoted candidate there is nothing to look up.  How the extraction went is
\* forgotten.
UseExtraction ==
    /\ AnalysisJob("extracted")
    /\ Advance(IF job.failure # None THEN Persisting(<<>>)
               ELSE [job EXCEPT !.stage = IF Quoted # {} THEN "index" ELSE "terms",
                                !.outcomes = <<>>, !.attempts = 0])
    /\ UNCHANGED Tables

-----------------------------------------------------------------------------
(***************************************************************************)
(* The nearest concepts: query_conflict_vector_candidates.                 *)
(***************************************************************************)
NoMatches == [k \in Quoted |-> None]

\* The pass gives every active concept an embedding, or vectors are disabled.
IndexForAnalysis ==
    /\ AnalysisJob("index")
    /\ \/ /\ embedded' = embedded \cup Active
          /\ Advance([job EXCEPT !.stage = "query"])
       \/ /\ Advance([job EXCEPT !.stage = "terms", !.near = NoMatches])
          /\ UNCHANGED embedded
    /\ UNCHANGED <<glossary, gone, issues, search, snapshots, exports>>

\* Which embedding is nearest is open: embeddings of deleted, deprecated and
\* rewritten concepts are among them.
QueryForAnalysis ==
    /\ AnalysisJob("query")
    /\ \E near \in [Quoted -> embedded \cup {None}] :
          Advance([job EXCEPT !.stage = "terms", !.near = near])
    /\ UNCHANGED Tables

-----------------------------------------------------------------------------
(***************************************************************************)
(* The classification: _classify_candidates.                               *)
(***************************************************************************)
ReadTerms ==
    /\ AnalysisJob("terms")
    /\ Advance([job EXCEPT !.stage = "active", !.terms = GlossaryTerms])
    /\ UNCHANGED Tables

\* load_active_concepts
ReadActiveConcepts ==
    /\ AnalysisJob("active")
    /\ Advance([job EXCEPT !.stage = "classify",
                           !.active = [c \in Active |-> glossary.concepts[c]]])
    /\ UNCHANGED Tables

\* matching_terms: whatever their status.
MatchingTerms(candidate) == {t \in job.terms : t.label = candidate.surface}

ByTags(candidate) ==
    LET sharing == {c \in DOMAIN job.active : candidate.tags \cap job.active[c].tags # {}}
    IN  IF sharing = {} THEN None ELSE FirstOfIds(sharing)

\* Mutant: the nearest concept goes first.
NearestConcept(k) ==
    IF job.near[k] \in DOMAIN job.active THEN job.near[k] ELSE ByTags(job.candidates[k])

\* related_concept: the nearest one counts only if no term matches.
RelatedConcept(k) ==
    IF MatchingTerms(job.candidates[k]) = {} /\ job.near[k] \in DOMAIN job.active
    THEN job.near[k]
    ELSE ByTags(job.candidates[k])

MatchedConcepts(candidate) == {t.concept : t \in MatchingTerms(candidate)}

HasSameMeaningDifferentTerms(k) ==
    /\ RelatedConcept(k) # None
    /\ \/ job.candidates[k].surface # job.active[RelatedConcept(k)].term
       \/ Cardinality(MatchingTerms(job.candidates[k])) > 1

CandidateIssueType(k) ==
    IF ~ job.candidates[k].sure THEN "ambiguous_usage"
    ELSE IF Cardinality(MatchedConcepts(job.candidates[k])) > 1 THEN "same_term_different_meaning"
    ELSE IF HasSameMeaningDifferentTerms(k) THEN "same_meaning_different_term"
    ELSE None

\* _issue: its id names surface, type and concepts.
CandidateIssue(k) ==
    LET surface   == job.candidates[k].surface
        matched   == MatchedConcepts(job.candidates[k])
        candidate == IF matched = {} THEN RelatedConcept(k) ELSE FirstOfIds(matched)
        target    == IF Cardinality(matched) > 1 THEN LastOfIds(matched) ELSE candidate
        type      == CandidateIssueType(k)
    IN  Finding(<<"llm", type, surface, candidate, target>>, type, surface, candidate, target)

\* Candidates without a quote from the document are rejected.
CandidateIssues ==
    {CandidateIssue(k) : k \in {q \in Quoted : CandidateIssueType(q) # None}}

ClassifyCandidates ==
    /\ AnalysisJob("classify")
    /\ Advance([job EXCEPT !.stage = "classified", !.found = SetToSeq(CandidateIssues)])
    /\ UNCHANGED Tables

UseClassification ==
    /\ AnalysisJob("classified")
    /\ Advance(Persisting(job.found))
    /\ UNCHANGED Tables

-----------------------------------------------------------------------------
(***************************************************************************)
(* The issues: _persist_issues.                                            *)
(***************************************************************************)
\* Mutant: nothing ties an issue to the concepts it names.
StoreIssueUntied ==
    /\ AnalysisJob("write") /\ job.todo # <<>>
    /\ issues' = Put(issues, Head(job.todo).id, Head(job.todo).row)
    /\ Advance([job EXCEPT !.todo = Tail(@)])
    /\ UNCHANGED <<glossary, gone, search, embedded, snapshots, exports>>

\* upsert_issue: an issue of this id is overwritten, one that names a concept
\* that is gone is a broken foreign key.
StoreIssue ==
    /\ AnalysisJob("write") /\ job.todo # <<>>
    /\ LET row == Head(job.todo).row
       IN  IF {row.candidate, row.target} \subseteq Live \cup {None}
           THEN /\ issues' = Put(issues, Head(job.todo).id, row)
                /\ Advance([job EXCEPT !.todo = Tail(@)])
           ELSE /\ Advance(Ended("constraint"))
                /\ UNCHANGED issues
    /\ UNCHANGED <<glossary, gone, search, embedded, snapshots, exports>>

FinishAnalysis ==
    /\ AnalysisJob("write") /\ job.todo = <<>>
    /\ Advance(Ended("analysis"))
    /\ UNCHANGED Tables

AnalysisStep ==
    \/ StoreCheck \/ ProviderAnswers \/ ProviderFails \/ ProviderAnswersInvalid
    \/ UseExtraction \/ IndexForAnalysis \/ QueryForAnalysis \/ ReadTerms \/ ReadActiveConcepts
    \/ ClassifyCandidates \/ UseClassification \/ StoreIssue \/ FinishAnalysis

-----------------------------------------------------------------------------
(***************************************************************************)
(* Properties.                                                             *)
(***************************************************************************)
\* What an analysis reports of the extraction is what happened: only answers
\* of another schema are asked for again, the attempts reported are the
\* requests made, and giving up means that every attempt there is was used.
AttemptsAgree ==
    AnalysisJob("extracted") =>
        LET last == Last(job.outcomes)
        IN  /\ job.attempts = Len(job.outcomes)
            /\ job.attempts <= Attempts
            /\ \A k \in 1 .. job.attempts - 1 : job.outcomes[k] = "invalid"
            /\ job.failure = "invalid_json" <=> last = "invalid"
            /\ last = "invalid" => job.attempts = Attempts
            /\ job.failure = None <=> last = "valid"

\* Everything the model says of a surface is sure, and no tag it gives it is
\* one of an active concept other than c.
SpeaksOf(surface, c) ==
    \A k \in Quoted :
        job.candidates[k].surface = surface =>
            /\ job.candidates[k].sure
            /\ \A d \in (DOMAIN job.active) \ {c} :
                  job.active[d].tags \cap job.candidates[k].tags = {}

\* A surface the model is sure of, which is the primary term of an active
\* concept and no other term, raises no issue, whichever concept's embedding is
\* nearest, unless it is given a tag of another active concept.
KnownTermsRaiseNothing ==
    AnalysisJob("classified") =>
        \A c \in DOMAIN job.active :
            LET surface == job.active[c].term
            IN  /\ SpeaksOf(surface, c)
                /\ \E t \in job.terms :
                      t.concept = c /\ {d \in job.terms : d.label = surface} = {t}
                => \A j \in DOMAIN job.found : job.found[j].row.surface # surface

\* Issues never name a concept that is gone, although an analysis writes what
\* it found some reads ago and a deletion may come before or after.
IssuesNameLiveConcepts ==
    \A i \in DOMAIN issues : {issues[i].candidate, issues[i].target} \subseteq Live \cup {None}
=============================================================================
