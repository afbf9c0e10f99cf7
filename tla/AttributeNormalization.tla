------------------------ MODULE AttributeNormalization ------------------------
(***************************************************************************)
(* AttributeNormalizationEngine, with NumericNormalizer and UnitNormalizer,*)
(* and ReviewManualOverride, which applies the same conversions to what a  *)
(* reviewer types.  A normalized value is [value, spelling]; the spelling  *)
(* of a number is 0, as its canonical form is unique.                      *)
(***************************************************************************)
EXTENDS AttributeExtraction

CONSTANT
    UnitRules   \* UNIT_RULES: a set of [dimension, source_unit, canonical_unit,
                \* aliases, divisor, converts]; the factor is 1 \div divisor

\* A schema that allows a unit allows the one it is converted to, as each of
\* the built-in schemas does.
ASSUME UnitAssumption ==
    \A rule \in UnitRules :
        /\ rule.divisor \in Nat \ {0}
        /\ \A a \in AttributeSet :
              rule.dimension = Definition[a].dimension
              /\ rule.source_unit \in Definition[a].allowed_units
                  => rule.canonical_unit \in Definition[a].allowed_units

Thousand == 1000

\* NumericNormalizer.parse succeeds.
IsDecimal(raw_value) == raw_value.form # "text" /\ raw_value.unit = None

IsIntegral(value) == value % Thousand = 0

\* round_conversion: ROUND_HALF_UP, at three places here and six in the code.
RoundHalfUp(value, divisor) ==
    IF value >= 0 THEN (2 * value + divisor) \div (2 * divisor)
                  ELSE - ((2 * (- value) + divisor) \div (2 * divisor))

Canonical(value) == [value |-> value, spelling |-> 0]

ASSUME ValueAssumption == None \notin [value : Int, spelling : Int]

\* UnitNormalizer.normalize: the rule it applies, or none.
MatchingRules(definition, unit) ==
    {rule \in UnitRules : /\ rule.dimension = definition.dimension
                          /\ unit \in rule.aliases
                          /\ rule.source_unit \in definition.allowed_units}

Converted(rule, value) == RoundHalfUp(value, rule.divisor)

Outcome(value, unit, status, confidence) ==
    [value |-> value, unit |-> unit, status |-> status, confidence |-> confidence]

Invalid == Outcome(None, None, "INVALID_VALUE", 0)

NumberOutcome(definition, raw_value, raw_unit) ==
    LET rules == MatchingRules(definition, raw_unit)
        rule == CHOOSE r \in rules : TRUE
        value == Converted(rule, raw_value.value)
        integer == definition.data_type = "INTEGER"
    IN  IF ~ IsDecimal(raw_value) \/ (integer /\ ~ IsIntegral(raw_value.value)) THEN Invalid
        ELSE IF definition.allowed_units = {}
             THEN Outcome(Canonical(raw_value.value), None, "NORMALIZED", 10000)
        ELSE IF raw_unit = None
             THEN Outcome(Canonical(raw_value.value), None, "UNIT_MISSING", 5000)
        ELSE IF rules = {} THEN Outcome(None, None, "UNSUPPORTED_UNIT", 0)
        ELSE IF integer /\ ~ IsIntegral(value) THEN Invalid
        ELSE Outcome(Canonical(value), rule.canonical_unit,
                     IF rule.converts THEN "NORMALIZED_WITH_CONVERSION" ELSE "NORMALIZED", 10000)

\* _canonical_text
CanonicalText(definition, raw_value) ==
    [value |-> raw_value.value,
     spelling |-> IF definition.canonical_text THEN 0 ELSE raw_value.spelling]

\* _normalize_candidate
NormalizeCandidate(candidate) ==
    LET definition == Definition[candidate.attribute]
        raw_value == candidate.raw_value
        outcome == IF raw_value = None THEN Invalid
                   ELSE IF definition.data_type = "TEXT"
                   THEN Outcome(CanonicalText(definition, raw_value), None, "NORMALIZED", 10000)
                   ELSE NumberOutcome(definition, raw_value, candidate.raw_unit)
    IN  [ attribute |-> candidate.attribute, value |-> outcome.value, unit |-> outcome.unit,
          status |-> outcome.status, source |-> candidate.source, location |-> candidate.location,
          extraction_confidence |-> candidate.confidence, confidence |-> outcome.confidence ]

\* The normalized candidates keep the order, and so the numbers, of the raw ones.
normalize(candidates) == [i \in DOMAIN candidates |-> NormalizeCandidate(candidates[i])]

(* --------------------------- schema rules ------------------------------ *)

InRange(definition, value) ==
    /\ definition.min_value # None => value >= definition.min_value
    /\ definition.max_value # None => value <= definition.max_value

\* allowed_values, and the pattern: the canonical spellings it matches.
Permitted(definition, normalized) ==
    definition.permitted # None =>
        normalized.value \in definition.permitted /\ normalized.spelling = 0

(* -------------------------- manual overrides --------------------------- *)

Refused == [accepted |-> FALSE, value |-> None, unit |-> None]

Approved(value, unit) == [accepted |-> TRUE, value |-> value, unit |-> unit]

\* Mutant: min_value and max_value are for extracted candidates only.
RulesAdmit_unbounded(definition, value) == Permitted(definition, Canonical(value))

\* ReviewManualOverride._validate_rules: the converted number.
RulesAdmit(definition, value) == InRange(definition, value) /\ Permitted(definition, Canonical(value))

\* ReviewManualOverride.normalize_and_validate
Override(attribute, typed, raw_unit) ==
    LET definition == Definition[attribute]
        rules == MatchingRules(definition, raw_unit)
        rule == CHOOSE r \in rules : TRUE
        plain == definition.allowed_units = {}
        value == IF plain THEN typed.value ELSE Converted(rule, typed.value)
        unit == IF plain THEN None ELSE rule.canonical_unit
    IN  IF definition.data_type = "TEXT"
        THEN IF raw_unit = None /\ Permitted(definition, typed)
             THEN Approved([value |-> typed.value, spelling |-> typed.spelling], None)
             ELSE Refused
        ELSE IF /\ IsDecimal(typed)
                /\ definition.data_type = "INTEGER" => IsIntegral(typed.value)
                /\ IF plain THEN raw_unit = None ELSE rules # {}
                /\ RulesAdmit(definition, value)
             THEN Approved(Canonical(value), unit)
             ELSE Refused
================================================================================
