---------------------------- MODULE CatalogAnalysis ----------------------------
(***************************************************************************)
(* The engines of the catalog workflow one after the other, on the results *)
(* that each hands to the next: extraction, normalization, conflict        *)
(* detection, completeness, validation, selection, the human review,       *)
(* materialization and the score.  The jobs that run the engines, their    *)
(* failures and their storage are the business of StageExecution.          *)
(*                                                                         *)
(* An item of evidence is one line of one source, so (source, location) is *)
(* its identity.  The aggregator lists the sources in whatever order the   *)
(* index gives them: OrderIrrelevant is about that order, every other      *)
(* property is checked for one order of each set of lines.                 *)
(***************************************************************************)
EXTENDS ProductIntelligence

CONSTANTS
    Pool,          \* the lines the sources may hold, a sequence
    MaxEvidence,   \* bound: at most this many lines
    Typed,         \* what reviewers type: [attribute, raw, unit]
    Enrichments    \* catalog enrichments to score with, or None

ASSUME PoolAssumption ==
    /\ Pool \in Seq(EvidenceItem)
    /\ \A i, j \in DOMAIN Pool : i # j => <<Pool[i].source, Pool[i].location>>
                                            # <<Pool[j].source, Pool[j].location>>
    /\ MaxEvidence \in Nat
    /\ \A t \in Typed : t.attribute \in AttributeSet /\ t.raw \in RawValue

\* An enrichment comes with its grounding_score_bp and fact_coverage_bp.
ASSUME EnrichmentAssumption ==
    Enrichments \subseteq [grounding : BasisPoints, coverage : BasisPoints] \cup {None}

VARIABLES
    phase,       \* the last engine that has run, or how the analysis ended
    evidence, extraction, normalized, consensus, states, validation, selection,
    decisions,   \* attribute -> its current decision
    final,       \* the FinalReviewedAttributeSet: attribute -> value
    raw_scores   \* the component scores

vars == <<phase, evidence, extraction, normalized, consensus, states, validation, selection,
          decisions, final, raw_scores>>

analysed == <<evidence, extraction, normalized, consensus, states, validation, selection>>

\* The lines in the order in which the pool has them.
Chosen(lines) ==
    [i \in 1 .. Cardinality(lines) |->
        Pool[CHOOSE n \in lines : Cardinality({m \in lines : m < n}) = i - 1]]

Init ==
    /\ phase = "collected"
    /\ \E n \in 0 .. MaxEvidence : \E lines \in kSubset(n, DOMAIN Pool) : evidence = Chosen(lines)
    /\ extraction = Nothing
    /\ normalized = <<>>
    /\ consensus = <<>>
    /\ states = <<>>
    /\ validation = <<>>
    /\ selection = <<>>
    /\ decisions = <<>>
    /\ final = <<>>
    /\ raw_scores = <<>>

(* ------------------------------- engines ------------------------------- *)

Extract ==
    /\ phase = "collected"
    /\ extraction' = extract(evidence)
    /\ phase' = IF extraction'.error = None THEN "extracted" ELSE "extraction_failed"
    /\ UNCHANGED <<evidence, normalized, consensus, states, validation, selection, decisions,
                   final, raw_scores>>

Normalize ==
    /\ phase = "extracted"
    /\ normalized' = normalize(extraction.found)
    /\ phase' = "normalized"
    /\ UNCHANGED <<evidence, extraction, consensus, states, validation, selection, decisions,
                   final, raw_scores>>

DetectConflicts ==
    /\ phase = "normalized"
    /\ consensus' = detect(normalized)
    /\ phase' = "compared"
    /\ UNCHANGED <<evidence, extraction, normalized, states, validation, selection, decisions,
                   final, raw_scores>>

EvaluateCompleteness ==
    /\ phase = "compared"
    /\ states' = evaluate(consensus)
    /\ phase' = "evaluated"
    /\ UNCHANGED <<evidence, extraction, normalized, consensus, validation, selection, decisions,
                   final, raw_scores>>

Validate ==
    /\ phase = "evaluated"
    /\ validation' = validate(normalized)
    /\ phase' = "validated"
    /\ UNCHANGED <<evidence, extraction, normalized, consensus, states, selection, decisions,
                   final, raw_scores>>

Select ==
    /\ phase = "validated"
    /\ selection' = select(normalized, validation, consensus, states)
    /\ phase' = "selected"
    /\ UNCHANGED <<evidence, extraction, normalized, consensus, states, validation, decisions,
                   final, raw_scores>>

(* -------------------------------- review ------------------------------- *)

Decision(type, candidate, value, unit) ==
    [type |-> type, candidate |-> candidate, value |-> value, unit |-> unit]

Approval(type, i) == Decision(type, i, normalized[i].value, normalized[i].unit)

\* Mutant: the candidate's assessment is not looked at.
Offered_unassessed(attribute) == selection[attribute].supporting \cup selection[attribute].review

\* The candidates submit_decision lets a reviewer approve.
Offered(attribute) ==
    {i \in selection[attribute].supporting \cup selection[attribute].review :
        validation[i] \in Approvable}

\* The decisions submit_decision accepts for an attribute.
Accepted(attribute) ==
    LET proposed == selection[attribute].primary
        outcomes == {Override(attribute, t.raw, t.unit) :
                        t \in {u \in Typed : u.attribute = attribute}}
    IN  (IF proposed = None THEN {} ELSE {Approval("APPROVE_PROPOSED", proposed)})
        \cup {Approval("APPROVE_CANDIDATE", i) : i \in Offered(attribute)}
        \cup {Decision("MANUAL_OVERRIDE", None, o.value, o.unit) :
                 o \in {p \in outcomes : p.accepted}}
        \cup {Decision("REJECT_ALL", None, None, None)}

\* What a reviewer without an opinion does: the proposal, else a candidate,
\* else an override where the attribute is required.
Usual(attribute) ==
    LET OfType(type) == {d \in Accepted(attribute) : d.type = type}
        preferred == IF OfType("APPROVE_PROPOSED") # {} THEN OfType("APPROVE_PROPOSED")
                     ELSE IF OfType("APPROVE_CANDIDATE") # {} THEN OfType("APPROVE_CANDIDATE")
                     ELSE IF Definition[attribute].required /\ OfType("MANUAL_OVERRIDE") # {}
                     THEN OfType("MANUAL_OVERRIDE")
                     ELSE OfType("REJECT_ALL")
    IN  CHOOSE d \in preferred : TRUE

Resolving == {"APPROVE_PROPOSED", "APPROVE_CANDIDATE", "MANUAL_OVERRIDE"}

\* The review is completed: as usual but for one attribute, the bound on what
\* a reviewer decides.  complete_review wants every required one resolved.
CompleteReview ==
    /\ phase = "selected"
    /\ \E attribute \in AttributeSet : \E decision \in Accepted(attribute) :
          decisions' = [a \in AttributeSet |-> IF a = attribute THEN decision ELSE Usual(a)]
    /\ \A a \in RequiredAttributes : decisions'[a].type \in Resolving
    /\ phase' = "reviewed"
    /\ UNCHANGED <<analysed, final, raw_scores>>

(* ----------------------- materialization and score --------------------- *)

Origin == [ APPROVE_PROPOSED  |-> "APPROVED_PROPOSED",
            APPROVE_CANDIDATE |-> "APPROVED_CANDIDATE",
            MANUAL_OVERRIDE   |-> "HUMAN_OVERRIDE" ]

Decided == {a \in AttributeSet : decisions[a].type \in Resolving}

\* materialize refuses a candidate that only supports the proposal.
MaterializationRefused ==
    \E a \in Decided : /\ decisions[a].type = "APPROVE_CANDIDATE"
                       /\ decisions[a].candidate \notin selection[a].review

Materialize ==
    /\ phase = "reviewed"
    /\ IF MaterializationRefused
       THEN phase' = "materialization_failed" /\ UNCHANGED final
       ELSE /\ phase' = "materialized"
            /\ final' = [a \in Decided |->
                  [ origin |-> Origin[decisions[a].type], candidate |-> decisions[a].candidate,
                    value |-> decisions[a].value, unit |-> decisions[a].unit ]]
    /\ UNCHANGED <<analysed, decisions, raw_scores>>

Score ==
    /\ phase = "materialized"
    /\ IF ScoreRefused(final, validation, consensus)
       THEN phase' = "score_failed" /\ UNCHANGED raw_scores
       ELSE /\ phase' = "scored"
            /\ \E enrichment \in Enrichments :
                  raw_scores' = RawScores(final, states, validation, consensus, enrichment)
    /\ UNCHANGED <<analysed, decisions, final>>

Next ==
    \/ Extract
    \/ Normalize
    \/ DetectConflicts
    \/ EvaluateCompleteness
    \/ Validate
    \/ Select
    \/ CompleteReview
    \/ Materialize
    \/ Score

Spec == Init /\ [][Next]_vars

(* ------------------------------ properties ----------------------------- *)

\* The lines that name an attribute, and so must become candidates.
Naming(attribute) ==
    {i \in DOMAIN evidence : Match(evidence[i]).attribute = attribute}

FromLine(candidate, item) ==
    candidate.source = item.source /\ candidate.location = item.location

\* extract's result is the same whatever the order in which the aggregator
\* lists the lines: the numbers of the candidates included, by which every
\* later result names them.
OrderIrrelevant ==
    phase = "extracted" =>
        \A order \in Bijection(DOMAIN evidence, DOMAIN evidence) :
            LET other == extract([i \in DOMAIN evidence |-> evidence[order[i]]])
            IN  other.error = None /\ other.found = extraction.found

\* From the extraction to the review nothing is lost: every line that names an
\* attribute is a candidate of it, and the selection shows that candidate to
\* the reviewer, either behind the proposal or for review.
NoEvidenceIsLost ==
    phase = "selected" =>
        \A attribute \in AttributeSet : \A i \in Naming(attribute) :
            \E c \in selection[attribute].supporting \cup selection[attribute].review :
                /\ normalized[c].attribute = attribute
                /\ FromLine(normalized[c], evidence[i])

\* A consensus holds among any two of those it is among: the tolerance is not
\* transitive, so agreement with one candidate is not enough.
AgreementIsMutual ==
    phase = "compared" =>
        \A attribute \in DOMAIN consensus :
            consensus[attribute].status \in {"AGREEMENT", "AGREEMENT_WITH_TOLERANCE"} =>
                \A i, j \in consensus[attribute].comparable :
                    i # j => CompareAll(normalized, attribute, {i, j}).status
                                 \in {"AGREEMENT", "AGREEMENT_WITH_TOLERANCE"}

\* Nothing is selected for the reviewer against any line of the sources: every
\* line that names the attribute is behind the proposal, with a value the
\* schema admits and the proposed unit.
AutoSelectedIsUncontested ==
    phase = "selected" =>
        \A attribute \in AttributeSet :
            selection[attribute].status = "AUTO_SELECTED" =>
                \A i \in Naming(attribute) :
                    \E c \in selection[attribute].supporting :
                        /\ FromLine(normalized[c], evidence[i])
                        /\ normalized[c].unit = normalized[selection[attribute].primary].unit
                        /\ ~ BreaksRules(Definition[attribute], normalized[c].value)

\* READY_FOR_AUTO_APPROVAL, of the selection, is never said of a product that
\* the completeness engine, from the consensus alone, calls less than COMPLETE.
ReadyIsComplete ==
    phase = "selected" /\ overall_status(selection) = "READY_FOR_AUTO_APPROVAL" =>
        completeness_status(states) = "COMPLETE"

\* READY_FOR_AUTO_APPROVAL is never said of less than complete evidence: every
\* required attribute is verified and stands in two sources.
ReadyMeansComplete ==
    /\ ReadyIsComplete
    /\ phase = "selected" /\ overall_status(selection) = "READY_FOR_AUTO_APPROVAL" =>
          \A a \in RequiredAttributes :
              Cardinality({evidence[i].source : i \in Naming(a)}) >= MinSources

\* What is materialized obeys the schema, whether it comes from a source or was
\* typed by a reviewer.  The one leniency is a candidate without a unit.
FinalValuesObeyTheSchema ==
    phase = "materialized" =>
        \A a \in DOMAIN final :
            /\ ~ BreaksRules(Definition[a], final[a].value)
            /\ Definition[a].allowed_units # {} =>
                  \/ final[a].unit \in Definition[a].allowed_units
                  \/ /\ final[a].unit = None
                     /\ final[a].origin = "APPROVED_CANDIDATE"
                     /\ validation[final[a].candidate] = "VALID_WITH_WARNINGS"

\* The score refuses no product for what the review took from its sources:
\* only a value that a reviewer typed can be without a consensus.
OnlyOverridesAreRefused ==
    phase = "score_failed" => \E a \in DOMAIN final : IsOverride(final[a])

\* The weights of the evaluated components are 10000 together, whether or not
\* there is an enrichment, and the overall score is a mean of the components,
\* short of it by less than one point per component.
ScoreIsAMean ==
    phase = "scored" =>
        LET Weight(i) == NormalizedWeight(raw_scores, i)
            evaluated == {raw_scores[i] : i \in Evaluated(raw_scores)}
        IN  /\ MapThenSumSet(Weight, DOMAIN raw_scores) = 10000
            /\ \E s \in evaluated : OverallScore(raw_scores) <= s
            /\ \E s \in evaluated : OverallScore(raw_scores) > s - Cardinality(Evaluated(raw_scores))
================================================================================
