-------------------------- MODULE ProductIntelligence --------------------------
(***************************************************************************)
(* ProductIntelligenceEngine: the score of a product whose reviewed        *)
(* attributes are "final", a function from the attributes that have a      *)
(* final value to [origin, candidate, value, unit], in basis points.  The  *)
(* grade, strengths, improvements and metrics are left out.                *)
(***************************************************************************)
EXTENDS AttributeSelection

\* A component is its place in the enumeration ProductIntelligenceComponent:
\* completeness, validation quality, source corroboration, conflict health,
\* review quality and AI grounding quality.
BASE_WEIGHTS == <<2500, 2000, 2000, 1500, 1000, 1000>>

BasisPoints == 0 .. 10000

NotEvaluated == -1

Importance(attribute) == IF Definition[attribute].required THEN 2 ELSE 1

TotalImportance(attributes) == MapThenSumSet(Importance, attributes)

\* weighted_mean of the points of each final attribute.
weighted_mean(points) ==
    LET Weighted(attribute) == points[attribute] * Importance(attribute)
    IN  MapThenSumSet(Weighted, DOMAIN points) \div TotalImportance(DOMAIN points)

IsOverride(attribute) == attribute.origin = "HUMAN_OVERRIDE"

\* ProductIntelligenceCompletenessScorer
CompletenessScore(states) ==
    LET resolved == ResolvedAttributes(states)
        Share(attributes) == percentage_basis_points(Cardinality(resolved \cap attributes),
                                                     Cardinality(attributes))
    IN  IF OptionalAttributes = {} THEN Share(RequiredAttributes)
        ELSE (Share(RequiredAttributes) * 85 + Share(OptionalAttributes) * 15) \div 100

\* ProductIntelligenceValidationScorer
ValidationScore(final, validation) ==
    weighted_mean([a \in DOMAIN final |->
        IF IsOverride(final[a]) THEN 8500
        ELSE IF validation[final[a].candidate] = "VALID" THEN 10000 ELSE 8000])

ValidationRefuses(final, validation) ==
    \E a \in DOMAIN final :
        ~ IsOverride(final[a]) /\ validation[final[a].candidate] \notin Approvable

\* ProductIntelligenceCorroborationScorer: distinct_source_count is that of the
\* selection, which is the consensus'.
CorroborationScore(final, consensus) ==
    LET count(a) == IF IsOverride(final[a]) THEN 0 ELSE Cardinality(consensus[a].sources)
    IN  weighted_mean([a \in DOMAIN final |->
            CASE count(a) = 0 -> 5000
              [] count(a) = 1 -> 6000
              [] count(a) = 2 -> 9000
              [] OTHER -> 10000])

\* ProductIntelligenceConflictScorer raises without usable consensus.
ConflictRefuses(final, consensus) ==
    \E a \in DOMAIN final :
        a \notin DOMAIN consensus \/ consensus[a].status = "NO_VALID_CANDIDATES"

ConflictPoints(attribute, verdict) ==
    CASE verdict.status = "CONFLICT" -> IF IsOverride(attribute) THEN 6000 ELSE 7000
      [] verdict.status = "INDETERMINATE" -> 6500
      [] verdict.status = "AGREEMENT" -> 10000
      [] verdict.status = "AGREEMENT_WITH_TOLERANCE" -> 9500
      [] verdict.status = "SINGLE_CANDIDATE" -> 8000

ConflictScore(final, consensus) ==
    weighted_mean([a \in DOMAIN final |-> ConflictPoints(final[a], consensus[a])])

\* ProductIntelligenceReviewScorer
OriginPoints == [APPROVED_PROPOSED |-> 10000, APPROVED_CANDIDATE |-> 8500, HUMAN_OVERRIDE |-> 7000]

ReviewScore(final) == weighted_mean([a \in DOMAIN final |-> OriginPoints[final[a].origin]])

\* ProductIntelligenceAiScorer
AiScore(enrichment) ==
    IF enrichment = None THEN NotEvaluated
    ELSE (enrichment.grounding * 8 + enrichment.coverage * 2) \div 10

\* ProductIntelligenceScoreCalculator.calculate.  The components are in the
\* order of their priority already: by weight, then by the enumeration.
Evaluated(raw) == {i \in DOMAIN raw : raw[i] # NotEvaluated}

BaseWeight(i) == BASE_WEIGHTS[i]

FloorWeight(raw, i) ==
    (BASE_WEIGHTS[i] * 10000) \div MapThenSumSet(BaseWeight, Evaluated(raw))

\* Mutant: what the divisions leave over is dropped.
NormalizedWeight_floor(raw, i) == IF i \in Evaluated(raw) THEN FloorWeight(raw, i) ELSE 0

NormalizedWeight(raw, i) ==
    LET Floor(j) == FloorWeight(raw, j)
        remainder == 10000 - MapThenSumSet(Floor, Evaluated(raw))
        priority == Cardinality({j \in Evaluated(raw) : j < i})
    IN  IF i \notin Evaluated(raw) THEN 0
        ELSE FloorWeight(raw, i) + (IF priority < remainder THEN 1 ELSE 0)

Contribution(raw, i) ==
    IF i \in Evaluated(raw) THEN (raw[i] * NormalizedWeight(raw, i)) \div 10000 ELSE 0

Total(raw) == LET Part(i) == Contribution(raw, i) IN MapThenSumSet(Part, DOMAIN raw)

OverallScore(raw) == LET total == Total(raw) IN IF total > 10000 THEN 10000 ELSE total

\* evaluate refuses: a component raises, or there is nothing to weigh.
ScoreRefused(final, validation, consensus) ==
    \/ ValidationRefuses(final, validation)
    \/ ConflictRefuses(final, consensus)
    \/ DOMAIN final = {}

RawScores(final, states, validation, consensus, enrichment) ==
    << CompletenessScore(states), ValidationScore(final, validation),
       CorroborationScore(final, consensus), ConflictScore(final, consensus),
       ReviewScore(final), AiScore(enrichment) >>
================================================================================
