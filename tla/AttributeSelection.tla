-------------------------- MODULE AttributeSelection --------------------------
(***************************************************************************)
(* What a product's candidates amount to: AttributeValidationEngine,       *)
(* AttributeCompletenessEngine and AttributeSelectionEngine with           *)
(* AttributeCandidateRanker.  A consensus is the function that detect      *)
(* returns; the results below are functions of the attribute or of the     *)
(* candidate's number.                                                     *)
(***************************************************************************)
EXTENDS AttributeConflicts

CONSTANTS
    MinConfidence,   \* auto_select_min_confidence_bp, 9000 in the code
    MinSources       \* min_distinct_sources, 2 in the code

ASSUME SelectionAssumption == MinConfidence \in 0 .. 10000 /\ MinSources \in Nat \ {0}

(* ----------------------------- validation ------------------------------ *)

\* _type_and_rules: an unsupported unit has left no value.
BreaksRules(definition, value) ==
    \/ value = None
    \/ ~ Permitted(definition, value)
    \/ definition.data_type # "TEXT" /\ ~ InRange(definition, value.value)

\* AttributeUnitValidator.validate finds an error.
BreaksUnit(definition, candidate) ==
    \/ candidate.status = "UNSUPPORTED_UNIT"
    \/ /\ candidate.status \in Direct
       /\ definition.allowed_units # {}
       /\ candidate.unit \notin definition.allowed_units

\* AttributeValidationEngine._assess: the status of a candidate.
ValidationStatus(candidate) ==
    LET definition == Definition[candidate.attribute]
    IN  IF candidate.status = "INVALID_VALUE" THEN "NOT_VALIDATABLE"
        ELSE IF BreaksRules(definition, candidate.value) \/ BreaksUnit(definition, candidate)
        THEN "INVALID"
        ELSE IF candidate.status = "UNIT_MISSING" THEN "VALID_WITH_WARNINGS"
        ELSE "VALID"

validate(normalized) == [i \in DOMAIN normalized |-> ValidationStatus(normalized[i])]

Approvable == {"VALID", "VALID_WITH_WARNINGS"}

(* ---------------------------- completeness ----------------------------- *)

\* _STATE_BY_CONSENSUS
StateByConsensus ==
    [ AGREEMENT                |-> "PRESENT",
      AGREEMENT_WITH_TOLERANCE |-> "PRESENT_WITH_TOLERANCE",
      SINGLE_CANDIDATE         |-> "PRESENT_SINGLE_SOURCE",
      CONFLICT                 |-> "CONFLICTED",
      INDETERMINATE            |-> "INDETERMINATE",
      NO_VALID_CANDIDATES      |-> "INVALID_ONLY" ]

\* AttributeCompletenessEngine._assess: the state of each attribute.
evaluate(consensus) ==
    [attribute \in AttributeSet |->
        IF attribute \in DOMAIN consensus THEN StateByConsensus[consensus[attribute].status]
        ELSE "MISSING"]

\* state_flags
IsAvailable(state) == state \notin {"INVALID_ONLY", "MISSING"}

IsResolved(state) == state \in {"PRESENT", "PRESENT_WITH_TOLERANCE", "PRESENT_SINGLE_SOURCE"}

RequiredAttributes == {a \in AttributeSet : Definition[a].required}

OptionalAttributes == AttributeSet \ RequiredAttributes

ResolvedAttributes(states) == {a \in AttributeSet : IsResolved(states[a])}

\* percentage_basis_points
percentage_basis_points(count, total) == IF total = 0 THEN 10000 ELSE (count * 10000) \div total

\* completeness_status
completeness_status(states) ==
    LET required == {states[a] : a \in RequiredAttributes}
    IN  IF \A a \in AttributeSet : ~ IsAvailable(states[a]) THEN "NO_USABLE_ATTRIBUTES"
        ELSE IF "CONFLICTED" \in required THEN "CONFLICTED"
        ELSE IF required \cap {"MISSING", "INVALID_ONLY"} # {} THEN "INCOMPLETE"
        ELSE IF "INDETERMINATE" \in required THEN "INDETERMINATE"
        ELSE IF "PRESENT_SINGLE_SOURCE" \in required THEN "COMPLETE_WITH_SINGLE_SOURCE"
        ELSE "COMPLETE"

(* ------------------------------ selection ------------------------------ *)

\* AttributeCandidateRanker: the first of equally valid candidates.
RanksBefore(normalized, i, j) ==
    LET c == normalized[i]
        d == normalized[j]
    IN  \/ c.extraction_confidence > d.extraction_confidence
        \/ /\ c.extraction_confidence = d.extraction_confidence
           /\ \/ c.confidence > d.confidence
              \/ c.confidence = d.confidence /\ i <= j

Primary(normalized, ids) == CHOOSE i \in ids : \A j \in ids : RanksBefore(normalized, i, j)

Proposal(status, review_required, primary, supporting, review, reason, confidence) ==
    [ status |-> status, review_required |-> review_required, primary |-> primary,
      supporting |-> supporting, review |-> review, reason |-> reason, confidence |-> confidence ]

\* _review
Review(ids, confidence, reason) ==
    Proposal("REVIEW_REQUIRED", TRUE, None, {}, ids, reason, confidence)

Unresolved(status, attribute, ids, reason) ==
    Proposal(status, Definition[attribute].required, None, {}, ids, reason, 0)

\* Mutant: the sources of the agreement are not counted.
TooFewSources_never(normalized, ids) == FALSE

TooFewSources(normalized, ids) == Cardinality(Sources(normalized, ids)) < MinSources

\* Mutant: a candidate that is not VALID does not stand in the way.
HasNonValid_never(validation, ids) == FALSE

\* has_nonvalid
HasNonValid(validation, ids) == \E i \in ids : validation[i] # "VALID"

\* eligible
Eligible(validation, ids) == {i \in ids : validation[i] = "VALID"}

\* _select_attribute, after the attribute was found to have usable candidates.
SelectAmong(normalized, validation, verdict) ==
    LET ids == verdict.candidates
        eligible == Eligible(validation, ids)
        exact == verdict.status = "AGREEMENT"
        confidence == IF exact THEN 10000 ELSE 9000
        units == {normalized[i].unit : i \in eligible}
        values == {normalized[i].value : i \in eligible}
    IN  IF eligible = {}
        THEN Unresolved("NO_VALID_CANDIDATE", verdict.attribute, ids, "NO_VALID_CANDIDATE")
        ELSE IF verdict.status = "CONFLICT" THEN Review(ids, 0, "VALUE_CONFLICT")
        ELSE IF verdict.status = "INDETERMINATE" THEN Review(ids, 0, "UNIT_INDETERMINATE")
        ELSE IF verdict.status = "SINGLE_CANDIDATE" THEN Review(ids, 6000, "SINGLE_SOURCE_ONLY")
        ELSE IF HasNonValid(validation, ids) THEN Review(ids, 0, "VALIDATION_WARNING")
        ELSE IF TooFewSources(normalized, ids) THEN Review(ids, 7000, "INSUFFICIENT_CORROBORATION")
        ELSE IF \/ Cardinality(units) # 1
                \/ exact /\ Cardinality(values) # 1
                \/ confidence < MinConfidence
        THEN Review(ids, confidence, "INSUFFICIENT_CORROBORATION")
        ELSE Proposal("AUTO_SELECTED", FALSE, Primary(normalized, eligible), eligible, {},
                      IF exact THEN "MULTI_SOURCE_EXACT_AGREEMENT"
                               ELSE "MULTI_SOURCE_TOLERANCE_AGREEMENT", confidence)

\* _select_attribute
SelectAttribute(normalized, validation, consensus, states, attribute) ==
    CASE states[attribute] = "MISSING" ->
            Unresolved("NO_CANDIDATE", attribute, {},
                       IF Definition[attribute].required THEN "MISSING_ATTRIBUTE"
                       ELSE "OPTIONAL_ATTRIBUTE_UNRESOLVED")
      [] states[attribute] = "INVALID_ONLY" ->
            Unresolved("NO_VALID_CANDIDATE", attribute, consensus[attribute].candidates,
                       "NO_VALID_CANDIDATE")
      [] OTHER -> SelectAmong(normalized, validation, consensus[attribute])

select(normalized, validation, consensus, states) ==
    [attribute \in AttributeSet |->
        SelectAttribute(normalized, validation, consensus, states, attribute)]

\* build_review_summary: the overall status of the selection.
overall_status(selection) ==
    LET required == {selection[a] : a \in RequiredAttributes}
    IN  IF \E p \in required : p.status \in {"NO_CANDIDATE", "NO_VALID_CANDIDATE"}
        THEN "INSUFFICIENT_DATA"
        ELSE IF \E p \in required : p.review_required THEN "REVIEW_REQUIRED"
        ELSE "READY_FOR_AUTO_APPROVAL"
================================================================================
