-------------------------- MODULE AttributeConflicts --------------------------
(***************************************************************************)
(* AttributeConflictDetectionEngine: do the normalized candidates of an    *)
(* attribute agree?  A candidate is known by its number in the sequence of *)
(* normalized candidates, which is its normalized_candidate_id.            *)
(***************************************************************************)
EXTENDS AttributeNormalization

CONSTANT
    RelativeTolerance   \* relative_tolerance_bp, 50 in the code

ASSUME ToleranceAssumption == RelativeTolerance \in 0 .. 10000

Direct == {"NORMALIZED", "NORMALIZED_WITH_CONVERSION"}

Excluded == {"UNSUPPORTED_UNIT", "INVALID_VALUE"}

\* The candidates of an attribute, by number.
Of(normalized, attribute) == {i \in DOMAIN normalized : normalized[i].attribute = attribute}

WithStatus(normalized, ids, statuses) == {i \in ids : normalized[i].status \in statuses}

Sources(normalized, ids) == {normalized[i].source : i \in ids}

Distance(x, y) == IF x > y THEN x - y ELSE y - x

Magnitude(x) == IF x < 0 THEN - x ELSE x

Larger(x, y) == IF x > y THEN x ELSE y

\* AttributeNumericComparator.compare.  The absolute tolerance of 0.000001 is
\* below the thousandths in which the model counts.
Compare(x, y, integer) ==
    IF x = y THEN "EXACT"
    ELSE IF integer THEN "DIFFERENT"
    ELSE IF Distance(x, y) * 10000 <= RelativeTolerance * Larger(Magnitude(x), Magnitude(y))
         THEN "TOLERANCE" ELSE "DIFFERENT"

Verdict(status, confidence, conflict_type) ==
    [status |-> status, confidence |-> confidence, conflict_type |-> conflict_type]

Corroborated(normalized, ids, several, one) ==
    IF Cardinality(Sources(normalized, ids)) >= 2 THEN several ELSE one

\* Mutant: every value is compared with the first one only.
Pairs_with_first(ids) ==
    {p \in ids \X ids : p[1] < p[2] /\ \A i \in ids : p[1] <= i}

\* Every value is compared with every other: the tolerance is not transitive.
Pairs(ids) == {p \in ids \X ids : p[1] < p[2]}

NumberVerdict(normalized, ids, integer) ==
    LET results == {Compare(normalized[p[1]].value.value, normalized[p[2]].value.value, integer) :
                        p \in Pairs(ids)}
    IN  IF Cardinality({normalized[i].unit : i \in ids}) # 1
        THEN Verdict("INDETERMINATE", 5000, "UNIT_INDETERMINATE")
        ELSE IF results = {"EXACT"}
        THEN Verdict("AGREEMENT", Corroborated(normalized, ids, 10000, 8500), None)
        ELSE IF results \subseteq {"EXACT", "TOLERANCE"}
        THEN Verdict("AGREEMENT_WITH_TOLERANCE", Corroborated(normalized, ids, 9000, 8000), None)
        ELSE Verdict("CONFLICT", 10000, "VALUE_CONFLICT")

\* text_comparison_form drops the spelling.
TextVerdict(normalized, ids) ==
    IF Cardinality({normalized[i].value.value : i \in ids}) = 1
    THEN Verdict("AGREEMENT", Corroborated(normalized, ids, 10000, 8500), None)
    ELSE Verdict("CONFLICT", 10000, "VALUE_CONFLICT")

\* _compare
CompareAll(normalized, attribute, ids) ==
    LET data_type == Definition[attribute].data_type
    IN  IF ids = {} THEN Verdict("NO_VALID_CANDIDATES", 10000, None)
        ELSE IF Cardinality(ids) = 1 THEN Verdict("SINGLE_CANDIDATE", 6000, None)
        ELSE IF data_type = "TEXT" THEN TextVerdict(normalized, ids)
        ELSE NumberVerdict(normalized, ids, data_type = "INTEGER")

\* _groups: the candidates with one normalized value and unit.
Groups(normalized, ids) ==
    {{j \in ids : normalized[j].value = normalized[i].value /\ normalized[j].unit = normalized[i].unit} :
        i \in ids}

\* _assess
AssessConsensus(normalized, attribute) ==
    LET ids == Of(normalized, attribute)
        direct == WithStatus(normalized, ids, Direct)
        missing == WithStatus(normalized, ids, {"UNIT_MISSING"})
        excluded == WithStatus(normalized, ids, Excluded)
        mixed == direct # {} /\ missing # {}
        comparable == IF mixed THEN direct \cup missing
                      ELSE IF direct # {} THEN direct ELSE missing
        verdict == IF mixed THEN Verdict("INDETERMINATE", 5000, "UNIT_INDETERMINATE")
                   ELSE CompareAll(normalized, attribute, comparable)
    IN  [ attribute |-> attribute, status |-> verdict.status,
          conflict_type |-> verdict.conflict_type, confidence |-> verdict.confidence,
          candidates |-> ids, comparable |-> comparable, sources |-> Sources(normalized, ids),
          groups |-> Groups(normalized, comparable),
          warnings |-> (IF excluded # {} THEN {"MIXED_VALIDITY"} ELSE {})
                          \cup (IF mixed THEN {"UNIT_INDETERMINATE"} ELSE {}) ]

\* detect: an attribute without a candidate has no consensus.
detect(normalized) ==
    [attribute \in {normalized[i].attribute : i \in DOMAIN normalized} |->
        AssessConsensus(normalized, attribute)]
================================================================================
