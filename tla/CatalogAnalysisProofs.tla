------------------------- MODULE CatalogAnalysisProofs -------------------------
(***************************************************************************)
(* What the analysis promises for every schema, every set of lines and     *)
(* every tolerance.  The loop of extract is followed line by line: what it *)
(* has taken is a function of the set of lines it has read, and the sort   *)
(* after it has only one result.  The later engines then work on a known   *)
(* sequence of candidates, and the score sums over what they decided.      *)
(***************************************************************************)
EXTENDS CatalogAnalysis, FiniteSetTheorems, TLAPS

Agreement == {"AGREEMENT", "AGREEMENT_WITH_TOLERANCE"}

(* ------------------------------ numbers -------------------------------- *)

\* A set of numbers has a least one: what cannot fail first, at 0 or after all
\* smaller ones, does not fail.
LEMMA LeastNatural ==
    ASSUME NEW S \in SUBSET Nat, S # {}
    PROVE  \E m \in S : \A n \in S : m <= n
<1>1. PICK m \in S : \A n \in S : <<n, m>> \notin OpToRel(<, Nat)
  BY WFMin, NatLessThanWellFounded, Zenon
<1>2. \A n \in S : ~ (n < m)
  BY <1>1, Zenon DEF OpToRel
<1> QED
  BY <1>2

\* In a finite set in total order, the numbers of the elements before each are
\* different and are all the numbers below the size of the set: there is one
\* first element, one second, and so on.  Before[x] are the elements before x.
LEMMA RanksAreDistinct ==
    ASSUME NEW S, IsFiniteSet(S), NEW Before,
           \A x \in S : Before[x] \in SUBSET S /\ x \notin Before[x],
           \A x, y \in S : y \in Before[x] => Before[y] \in SUBSET Before[x],
           \A x, y \in S : x # y => x \in Before[y] \/ y \in Before[x]
    PROVE  /\ \A x \in S : Cardinality(Before[x]) \in 0 .. Cardinality(S) - 1
           /\ \A x, z \in S : Cardinality(Before[x]) = Cardinality(Before[z]) => x = z
           /\ \A n \in 1 .. Cardinality(S) : \E x \in S : Cardinality(Before[x]) = n - 1
<1> DEFINE places == 0 .. Cardinality(S) - 1
           rank == [x \in S |-> Cardinality(Before[x])]
<1>1. Cardinality(S) \in Nat
  BY FS_CardinalityType
<1>3. \A x \in S : IsFiniteSet(Before[x]) /\ Cardinality(Before[x]) \in Nat
  BY FS_Subset, FS_CardinalityType
<1>4. \A x \in S : Cardinality(Before[x]) \in places
  <2> TAKE x \in S
  <2>1. /\ Cardinality(Before[x]) <= Cardinality(S)
        /\ Cardinality(S) = Cardinality(Before[x]) => S = Before[x]
    BY FS_Subset
  <2> QED
    BY <1>1, <1>3, <2>1
<1>5. ASSUME NEW x \in S, NEW z \in S, x \in Before[z]
      PROVE  Cardinality(Before[x]) < Cardinality(Before[z])
  <2>1. Before[x] \in SUBSET Before[z] /\ x \notin Before[x]
    BY <1>5
  <2>2. /\ Cardinality(Before[x]) <= Cardinality(Before[z])
        /\ Cardinality(Before[z]) = Cardinality(Before[x]) => Before[z] = Before[x]
    BY <1>3, <2>1, FS_Subset
  <2> QED
    BY <1>3, <1>5, <2>1, <2>2
<1>6. \A x, z \in S : Cardinality(Before[x]) = Cardinality(Before[z]) => x = z
  <2> SUFFICES ASSUME NEW x \in S, NEW z \in S, x # z
               PROVE  Cardinality(Before[x]) # Cardinality(Before[z])
    OBVIOUS
  <2>1. CASE x \in Before[z]
    BY <1>3, <1>5, <2>1
  <2>2. CASE z \in Before[x]
    BY <1>3, <1>5, <2>2
  <2> QED
    BY <2>1, <2>2
<1>7. IsFiniteSet(places) /\ Cardinality(places) = Cardinality(S)
  <2>1. Cardinality(S) - 1 \in Int /\ 0 \in Int
    BY <1>1
  <2>2. /\ IsFiniteSet(places)
        /\ Cardinality(places) = IF 0 > Cardinality(S) - 1 THEN 0
                                ELSE (Cardinality(S) - 1) - 0 + 1
    BY <2>1, FS_Interval, Zenon
  <2> QED
    BY <1>1, <2>2
<1>8. rank \in Injection(S, places)
  <2> HIDE DEF places
  <2> QED
    BY <1>4, <1>6 DEF Injection, IsInjective
<1>9. rank \in Surjection(S, places)
  <2> HIDE DEF rank, places
  <2> QED
    BY <1>7, <1>8, FS_Injection
<1>10. ASSUME NEW n \in 1 .. Cardinality(S)
       PROVE  \E x \in S : Cardinality(Before[x]) = n - 1
  <2>1. n - 1 \in places
    BY <1>1
  <2> HIDE DEF places
  <2> QED
    BY <1>9, <2>1 DEF Surjection
<1> QED
  BY <1>4, <1>6, <1>10

\* A function without repetition meets each of the elements once.
LEMMA InjectiveCount ==
    ASSUME NEW f, IsFiniteSet(DOMAIN f), IsInjective(f), NEW from \in SUBSET DOMAIN f,
           NEW to, \A v : v \in to <=> \E i \in from : v = f[i]
    PROVE  IsFiniteSet(from) /\ IsFiniteSet(to) /\ Cardinality(from) = Cardinality(to)
<1> DEFINE g == [i \in from |-> f[i]]
<1>4. IsFiniteSet(from)
  BY FS_Subset
<1>5. g \in Bijection(from, to)
  BY DEF Bijection, Injection, Surjection, IsInjective
<1>6. ExistsBijection(from, to)
  BY <1>5 DEF ExistsBijection
<1>7. Cardinality(to) = Cardinality(from)
  BY <1>4, <1>6, FS_Bijection
<1> QED
  BY <1>4, <1>6, <1>7, FS_Bijection

(* ------------------------- agreement is mutual ------------------------- *)

\* What is collected of finitely many candidates is finite.
LEMMA FiniteImage ==
    ASSUME NEW ids, IsFiniteSet(ids), NEW f
    PROVE  IsFiniteSet({f[i] : i \in ids})
<1> DEFINE image == {f[i] : i \in ids}
           g == [i \in ids |-> f[i]]
<1>1. g \in Surjection(ids, image)
  BY DEF Surjection
<1> QED
  BY <1>1, FS_Surjection, Zenon

\* Two members of a set of one are the same.
LEMMA OneElement ==
    ASSUME NEW S, IsFiniteSet(S), Cardinality(S) = 1, NEW x \in S, NEW y \in S
    PROVE  x = y
BY FS_Singleton

\* If _compare finds the comparable candidates of an attribute in agreement,
\* it finds any two of them in agreement: there is no pair of values between
\* which the tolerance was reached over a third one.
THEOREM AgreementIsPairwise ==
    ASSUME NEW candidates, NEW attribute, NEW ids, IsFiniteSet(ids),
           CompareAll(candidates, attribute, ids).status \in Agreement,
           NEW i \in ids, NEW j \in ids, i # j
    PROVE  CompareAll(candidates, attribute, {i, j}).status \in Agreement
<1> DEFINE data_type == Definition[attribute].data_type
           integer == data_type = "INTEGER"
           pair == {i, j}
<1>1. IsFiniteSet(pair) /\ Cardinality(pair) = 2 /\ pair # {}
  <2>1. IsFiniteSet({i}) /\ Cardinality({i}) = 1
    BY FS_Singleton
  <2>2. pair = {i} \cup {j} /\ j \notin {i}
    OBVIOUS
  <2>3. IsFiniteSet({i} \cup {j}) /\ Cardinality({i} \cup {j}) = Cardinality({i}) + 1
    BY <2>1, <2>2, FS_AddElement, Zenon
  <2> QED
    BY <2>1, <2>2, <2>3
<1>2. ids # {} /\ Cardinality(ids) # 1
  <2> pair \in SUBSET ids
    OBVIOUS
  <2>1. Cardinality(pair) <= Cardinality(ids)
    <3> HIDE DEF pair
    <3> QED
      BY FS_Subset
  <2>2. Cardinality(ids) \in Nat
    BY FS_CardinalityType
  <2> QED
    BY <1>1, <2>1, <2>2
<1>3. CASE data_type = "TEXT"
  <2> DEFINE Values(s) == {candidates[k].value.value : k \in s}
             value == [k \in ids |-> candidates[k].value.value]
  <2>1. Cardinality(Values(ids)) = 1
    BY <1>2, <1>3 DEF CompareAll, TextVerdict, Verdict, Agreement
  <2>2. Values(ids) = {value[k] : k \in ids}
    OBVIOUS
  <2>3. IsFiniteSet(Values(ids))
    <3> HIDE DEF value
    <3>1. IsFiniteSet({value[k] : k \in ids})
      BY FiniteImage
    <3> QED
      BY <2>2, <3>1
  <2>4. candidates[i].value.value = candidates[j].value.value
    BY <2>1, <2>3, OneElement
  <2>5. Values(pair) = {candidates[i].value.value}
    BY <2>4
  <2>6. Cardinality(Values(pair)) = 1
    BY <2>5, FS_Singleton
  <2> QED
    BY <1>1, <1>3, <2>6 DEF CompareAll, TextVerdict, Verdict, Agreement
<1>4. CASE data_type # "TEXT"
  <2> DEFINE Units(s) == {candidates[k].unit : k \in s}
             unit == [k \in ids |-> candidates[k].unit]
             Results(s) == {Compare(candidates[p[1]].value.value, candidates[p[2]].value.value,
                                    integer) : p \in Pairs(s)}
  <2>1. NumberVerdict(candidates, ids, integer).status \in Agreement
    BY <1>2, <1>4 DEF CompareAll
  <2>2. Cardinality(Units(ids)) = 1 /\ Results(ids) \subseteq {"EXACT", "TOLERANCE"}
    BY <2>1 DEF NumberVerdict, Verdict, Agreement
  <2>3. Units(ids) = {unit[k] : k \in ids}
    OBVIOUS
  <2>4. IsFiniteSet(Units(ids))
    <3> HIDE DEF unit
    <3>1. IsFiniteSet({unit[k] : k \in ids})
      BY FiniteImage
    <3> QED
      BY <2>3, <3>1
  <2>5. candidates[i].unit = candidates[j].unit
    <3> HIDE DEF Results
    <3> QED
      BY <2>2, <2>4, OneElement
  <2>6. Units(pair) = {candidates[i].unit}
    BY <2>5
  <2>7. Cardinality(Units(pair)) = 1
    BY <2>6, FS_Singleton
  <2>8. Pairs(pair) \subseteq Pairs(ids)
    BY DEF Pairs
  <2>9. Results(pair) \subseteq {"EXACT", "TOLERANCE"}
    BY <2>2, <2>8
  <2>10. NumberVerdict(candidates, pair, integer).status \in Agreement
    BY <2>7, <2>9 DEF NumberVerdict, Verdict, Agreement
  <2> QED
    BY <1>1, <1>4, <2>10 DEF CompareAll
<1> QED
  BY <1>3, <1>4

(* ----------------------- results are derived --------------------------- *)

Statuses == {"AGREEMENT", "AGREEMENT_WITH_TOLERANCE", "SINGLE_CANDIDATE", "CONFLICT",
             "INDETERMINATE", "NO_VALID_CANDIDATES"}

\* The phases from each engine on.
FromReviewed == {"reviewed", "materialized", "materialization_failed", "scored", "score_failed"}
FromSelected == FromReviewed \cup {"selected"}
FromValidated == FromSelected \cup {"validated"}
FromEvaluated == FromValidated \cup {"evaluated"}
FromCompared == FromEvaluated \cup {"compared"}
FromNormalized == FromCompared \cup {"normalized"}
FromExtracted == FromNormalized \cup {"extracted"}

\* Every result is what its engine makes of the results before it, which have
\* not changed since: no engine works on anything else.
ResultsFollow ==
    /\ phase \in FromExtracted \cup {"collected", "extraction_failed"}
    /\ \E lines \in SUBSET DOMAIN Pool : evidence = Chosen(lines)
    /\ phase # "collected" =>
          extraction = extract(evidence) /\ (phase \in FromExtracted <=> extraction.error = None)
    /\ phase \in FromNormalized => normalized = normalize(extraction.found)
    /\ phase \in FromCompared => consensus = detect(normalized)
    /\ phase \in FromEvaluated => states = evaluate(consensus)
    /\ phase \in FromValidated => validation = validate(normalized)
    /\ phase \in FromSelected => selection = select(normalized, validation, consensus, states)

\* So it is with the review, the reviewed attributes and a refused score.
ReviewFollows ==
    /\ phase \in FromReviewed =>
          /\ DOMAIN decisions = AttributeSet
          /\ \A a \in AttributeSet : decisions[a] \in Accepted(a)
          /\ \A a \in RequiredAttributes : decisions[a].type \in Resolving
    /\ phase \in {"materialized", "scored", "score_failed"} =>
          final = [a \in Decided |->
                     [ origin |-> Origin[decisions[a].type], candidate |-> decisions[a].candidate,
                       value |-> decisions[a].value, unit |-> decisions[a].unit ]]
    /\ phase = "score_failed" => ScoreRefused(final, validation, consensus)

DerivedResults == ResultsFollow /\ ReviewFollows

\* What a reviewer without an opinion does is something submit_decision takes.
LEMMA UsualIsAccepted ==
    ASSUME NEW a
    PROVE  Usual(a) \in Accepted(a)
<1> DEFINE OfType(type) == {d \in Accepted(a) : d.type = type}
           preferred == IF OfType("APPROVE_PROPOSED") # {} THEN OfType("APPROVE_PROPOSED")
                        ELSE IF OfType("APPROVE_CANDIDATE") # {} THEN OfType("APPROVE_CANDIDATE")
                        ELSE IF Definition[a].required /\ OfType("MANUAL_OVERRIDE") # {}
                        THEN OfType("MANUAL_OVERRIDE")
                        ELSE OfType("REJECT_ALL")
<1>1. Decision("REJECT_ALL", None, None, None) \in OfType("REJECT_ALL")
  BY DEF Accepted, Decision
<1>2. preferred # {} /\ \A d \in preferred : d \in Accepted(a)
  BY <1>1
<1>3. Usual(a) = CHOOSE d \in preferred : TRUE
  BY DEF Usual
<1> HIDE DEF preferred
<1> QED
  BY <1>2, <1>3

\* What a reviewer may decide depends on these results only.
LEMMA AcceptedFrame ==
    ASSUME UNCHANGED <<normalized, validation, selection>>
    PROVE  \A a : Accepted(a)' = Accepted(a)
BY DEF Accepted, Approval, Offered

\* The engines, one after the other.
LEMMA ResultsStep == ResultsFollow /\ [Next]_vars => ResultsFollow'
<1> SUFFICES ASSUME ResultsFollow, [Next]_vars PROVE ResultsFollow'
  OBVIOUS
<1> USE DEF FromExtracted, FromNormalized, FromCompared, FromEvaluated, FromValidated,
            FromSelected, FromReviewed
<1>1. CASE Extract
  BY <1>1 DEF Extract, ResultsFollow
<1>2. CASE Normalize
  BY <1>2 DEF Normalize, ResultsFollow
<1>3. CASE DetectConflicts
  BY <1>3 DEF DetectConflicts, ResultsFollow
<1>4. CASE EvaluateCompleteness
  BY <1>4 DEF EvaluateCompleteness, ResultsFollow
<1>5. CASE Validate
  BY <1>5 DEF Validate, ResultsFollow
<1>6. CASE Select
  BY <1>6 DEF Select, ResultsFollow
<1>7. CASE CompleteReview
  BY <1>7 DEF CompleteReview, ResultsFollow, analysed
<1>8. CASE Materialize
  BY <1>8 DEF Materialize, ResultsFollow, analysed
<1>9. CASE Score
  BY <1>9 DEF Score, ResultsFollow, analysed
<1>10. CASE UNCHANGED vars
  BY <1>10 DEF vars, ResultsFollow
<1> QED
  BY <1>1, <1>2, <1>3, <1>4, <1>5, <1>6, <1>7, <1>8, <1>9, <1>10 DEF Next

\* The review and what is made of it.
LEMMA ReviewStep == ResultsFollow /\ ReviewFollows /\ [Next]_vars => ReviewFollows'
<1> SUFFICES ASSUME ResultsFollow, ReviewFollows, [Next]_vars PROVE ReviewFollows'
  OBVIOUS
<1>1. CASE Extract \/ Normalize \/ DetectConflicts \/ EvaluateCompleteness \/ Validate \/ Select
  <2>1. phase' \in {"extracted", "extraction_failed", "normalized", "compared", "evaluated",
                    "validated", "selected"}
    BY <1>1 DEF Extract, Normalize, DetectConflicts, EvaluateCompleteness, Validate, Select
  <2> QED
    BY <2>1 DEF ReviewFollows, FromReviewed
<1>2. CASE CompleteReview
  <2>1. /\ phase' = "reviewed" /\ UNCHANGED <<normalized, validation, selection>>
        /\ \A a \in RequiredAttributes : decisions'[a].type \in Resolving
    BY <1>2 DEF CompleteReview, analysed
  <2>2. PICK attribute \in AttributeSet : \E decision \in Accepted(attribute) :
            decisions' = [a \in AttributeSet |-> IF a = attribute THEN decision ELSE Usual(a)]
    BY <1>2 DEF CompleteReview
  <2>3. DOMAIN decisions' = AttributeSet /\ \A a \in AttributeSet : decisions'[a] \in Accepted(a)
    BY <2>2, UsualIsAccepted
  <2>4. \A a \in AttributeSet : decisions'[a] \in Accepted(a)'
    BY <2>1, <2>3, AcceptedFrame
  <2> QED
    BY <2>1, <2>3, <2>4 DEF ReviewFollows, FromReviewed
<1>3. ASSUME Materialize \/ Score \/ UNCHANGED vars
      PROVE  ReviewFollows'
  <2>1. UNCHANGED <<normalized, validation, consensus, selection, decisions>>
    BY <1>3 DEF Materialize, Score, vars, analysed
  <2>2. (phase' \in FromReviewed => phase \in FromReviewed)
    BY <1>3 DEF Materialize, Score, vars, FromReviewed
  <2>3. phase' \in FromReviewed =>
          /\ DOMAIN decisions' = AttributeSet
          /\ \A a \in AttributeSet : decisions'[a] \in Accepted(a)'
          /\ \A a \in RequiredAttributes : decisions'[a].type \in Resolving
    BY <2>1, <2>2, AcceptedFrame DEF ReviewFollows
  <2>4. Decided' = Decided
    BY <2>1 DEF Decided
  <2>5. CASE Materialize
    BY <2>1, <2>3, <2>4, <2>5 DEF Materialize, ReviewFollows, FromReviewed
  <2>6. CASE Score
    <3>1. final' = final /\ phase = "materialized" /\ phase' \in {"scored", "score_failed"}
      BY <2>6 DEF Score
    <3>2. phase' = "score_failed" => ScoreRefused(final, validation, consensus)
      BY <2>6 DEF Score
    <3>3. ScoreRefused(final, validation, consensus)' = ScoreRefused(final, validation, consensus)
      BY <2>1, <3>1
    <3> QED
      BY <2>1, <2>3, <2>4, <3>1, <3>2, <3>3 DEF ReviewFollows
  <2>7. CASE UNCHANGED vars
    <3>1. ScoreRefused(final, validation, consensus)' = ScoreRefused(final, validation, consensus)
      BY <2>7 DEF vars
    <3> QED
      BY <2>1, <2>3, <2>4, <2>7, <3>1 DEF vars, ReviewFollows
  <2> QED
    BY <1>3, <2>5, <2>6, <2>7
<1> QED
  BY <1>1, <1>2, <1>3 DEF Next

\* Each engine of the analysis reads results of one and the same derivation,
\* and the review decides on it.
THEOREM ResultsAreDerived == Spec => []DerivedResults
<1>1. Init => DerivedResults
  <2> SUFFICES ASSUME Init PROVE DerivedResults
    OBVIOUS
  <2>1. phase = "collected"
    BY DEF Init
  <2>2. \E lines \in SUBSET DOMAIN Pool : evidence = Chosen(lines)
    BY DEF Init, kSubset
  <2> QED
    BY <2>1, <2>2 DEF DerivedResults, ResultsFollow, ReviewFollows, FromExtracted, FromNormalized,
                      FromCompared, FromEvaluated, FromValidated, FromSelected, FromReviewed
<1>2. DerivedResults /\ [Next]_vars => DerivedResults'
  BY ResultsStep, ReviewStep DEF DerivedResults
<1> QED
  BY <1>1, <1>2, PTL DEF Spec

\* The results that the properties of each phase are about.
LEMMA Derived ==
    ASSUME DerivedResults
    PROVE  /\ phase = "extracted" => extraction = extract(evidence) /\ extraction.error = None
           /\ phase \in {"compared", "selected", "materialized", "score_failed"} =>
                 /\ extraction = extract(evidence) /\ extraction.error = None
                 /\ normalized = normalize(extraction.found)
                 /\ consensus = detect(normalized)
           /\ phase \in {"selected", "materialized", "score_failed"} =>
                 /\ states = evaluate(consensus)
                 /\ validation = validate(normalized)
                 /\ selection = select(normalized, validation, consensus, states)
BY DEF DerivedResults, ResultsFollow, FromExtracted, FromNormalized, FromCompared, FromEvaluated,
       FromValidated, FromSelected, FromReviewed

(* ------------------------ agreement in every state --------------------- *)

\* The candidates that are compared are among those of the product.
LEMMA ComparableAreCandidates ==
    ASSUME NEW candidates, NEW attribute
    PROVE  AssessConsensus(candidates, attribute).comparable \subseteq DOMAIN candidates
BY DEF AssessConsensus, WithStatus, Of

\* A consensus in agreement is what _compare says of the comparable candidates:
\* the short cut for a missing unit beside a known one is no agreement.
LEMMA AgreementIsCompared ==
    ASSUME NEW candidates, NEW attribute,
           AssessConsensus(candidates, attribute).status \in Agreement
    PROVE  CompareAll(candidates, attribute,
                      AssessConsensus(candidates, attribute).comparable).status \in Agreement
BY DEF AssessConsensus, Verdict, Agreement

(* ---------------------- the consensus and the states ------------------- *)

\* _compare and _assess know six statuses, those that _STATE_BY_CONSENSUS has
\* a state for: the lookup never fails.
LEMMA ConsensusStatus ==
    ASSUME NEW candidates, NEW attribute
    PROVE  /\ AssessConsensus(candidates, attribute).status \in Statuses
           /\ Statuses = DOMAIN StateByConsensus
<1> DEFINE integer == Definition[attribute].data_type = "INTEGER"
<1>1. \A ids : NumberVerdict(candidates, ids, integer).status \in Statuses
  BY DEF NumberVerdict, Verdict, Statuses
<1>2. \A ids : TextVerdict(candidates, ids).status \in Statuses
  BY DEF TextVerdict, Verdict, Statuses
<1>3. \A ids : CompareAll(candidates, attribute, ids).status \in Statuses
  <2> TAKE ids
  <2> QED
    BY <1>1, <1>2 DEF CompareAll, Verdict, Statuses
<1>4. AssessConsensus(candidates, attribute).status \in Statuses
  BY <1>3 DEF AssessConsensus, Verdict, Statuses
<1>5. Statuses = DOMAIN StateByConsensus
  BY DEF Statuses, StateByConsensus
<1> QED
  BY <1>4, <1>5

\* What AUTO_SELECTED says of the evidence it rests on: the candidates are in
\* agreement, the completeness engine has called the attribute present on the
\* same grounds, and no candidate was left aside.
LEMMA AutoSelection ==
    ASSUME NEW candidates, NEW attribute \in AttributeSet, NEW validity,
           NEW agreed, agreed = detect(candidates),
           NEW present, present = evaluate(agreed),
           NEW chosen, chosen = SelectAttribute(candidates, validity, agreed, present, attribute),
           chosen.status = "AUTO_SELECTED"
    PROVE  /\ attribute \in DOMAIN agreed
           /\ agreed[attribute].status \in Agreement
           /\ present[attribute] \in {"PRESENT", "PRESENT_WITH_TOLERANCE"}
           /\ \A i \in Of(candidates, attribute) : validity[i] = "VALID"
           /\ chosen.supporting = Of(candidates, attribute)
           /\ ~ TooFewSources(candidates, Of(candidates, attribute))
<1> DEFINE verdict == AssessConsensus(candidates, attribute)
           ids == Of(candidates, attribute)
<1>1. present[attribute] \notin {"MISSING", "INVALID_ONLY"}
  BY DEF SelectAttribute, Unresolved, Proposal
<1>2. chosen = SelectAmong(candidates, validity, agreed[attribute])
  BY <1>1 DEF SelectAttribute
<1>3. attribute \in DOMAIN agreed
  BY <1>1 DEF evaluate
<1>4. agreed[attribute] = verdict
  BY <1>3 DEF detect
<1>5. present[attribute] = StateByConsensus[verdict.status]
  BY <1>3, <1>4 DEF evaluate
<1>6. verdict.status \in Statuses \ {"NO_VALID_CANDIDATES"}
  <2>1. verdict.status \in Statuses
    BY ConsensusStatus
  <2> HIDE DEF verdict
  <2>2. verdict.status # "NO_VALID_CANDIDATES"
    BY <1>1, <1>5 DEF StateByConsensus
  <2> QED
    BY <2>1, <2>2
<1>7. verdict.candidates = ids
  BY DEF AssessConsensus
<1>8. verdict.status \notin {"CONFLICT", "INDETERMINATE", "SINGLE_CANDIDATE"}
  <2> HIDE DEF verdict
  <2> QED
    BY <1>2, <1>4 DEF SelectAmong, Unresolved, Review, Proposal
<1>9. ~ HasNonValid(validity, ids) /\ ~ TooFewSources(candidates, ids)
  <2> HIDE DEF verdict, ids
  <2> QED
    BY <1>2, <1>4, <1>7 DEF SelectAmong, Unresolved, Review, Proposal
<1>10. \A i \in ids : validity[i] = "VALID"
  BY <1>9 DEF HasNonValid
<1>11. chosen.supporting = ids
  <2> HIDE DEF verdict, ids
  <2>1. chosen.supporting = Eligible(validity, verdict.candidates)
    BY <1>2, <1>4 DEF SelectAmong, Unresolved, Review, Proposal
  <2> QED
    BY <2>1, <1>7, <1>10 DEF Eligible
<1>12. verdict.status \in Agreement
  <2> HIDE DEF verdict
  <2> QED
    BY <1>6, <1>8 DEF Statuses, Agreement
<1>13. present[attribute] \in {"PRESENT", "PRESENT_WITH_TOLERANCE"}
  <2> HIDE DEF verdict
  <2> QED
    BY <1>5, <1>12 DEF Agreement, StateByConsensus
<1> QED
  BY <1>3, <1>4, <1>9, <1>10, <1>11, <1>12, <1>13

\* Nothing is selected for the reviewer but on the whole of the evidence: all
\* candidates of the attribute are valid, compared in agreement, and stand
\* behind the proposal, from enough sources.
AutoSelectedIsAgreed ==
    phase = "selected" =>
        \A attribute \in AttributeSet :
            selection[attribute].status = "AUTO_SELECTED" =>
                /\ consensus[attribute].status \in Agreement
                /\ \A i \in Of(normalized, attribute) : validation[i] = "VALID"
                /\ selection[attribute].supporting = Of(normalized, attribute)
                /\ ~ TooFewSources(normalized, Of(normalized, attribute))

\* The selection engine, whatever the schema, thresholds and candidates, never
\* selects over a candidate that disagrees, is invalid or carries a warning.
THEOREM AutoSelectionIsAgreed == Spec => []AutoSelectedIsAgreed
<1>1. DerivedResults => AutoSelectedIsAgreed
  <2> SUFFICES ASSUME DerivedResults, phase = "selected", NEW attribute \in AttributeSet,
                      selection[attribute].status = "AUTO_SELECTED"
               PROVE  /\ consensus[attribute].status \in Agreement
                      /\ \A i \in Of(normalized, attribute) : validation[i] = "VALID"
                      /\ selection[attribute].supporting = Of(normalized, attribute)
                      /\ ~ TooFewSources(normalized, Of(normalized, attribute))
    BY DEF AutoSelectedIsAgreed
  <2>1. selection[attribute]
          = SelectAttribute(normalized, validation, consensus, states, attribute)
    BY Derived DEF select
  <2> QED
    BY <2>1, Derived, AutoSelection
<1> QED
  BY <1>1, ResultsAreDerived, PTL

\* A product is ready when every required attribute was selected for the
\* reviewer, not merely when none is missing.
LEMMA ReadyIsSelected ==
    ASSUME DerivedResults, phase = "selected",
           overall_status(selection) = "READY_FOR_AUTO_APPROVAL", NEW a \in RequiredAttributes
    PROVE  /\ a \in AttributeSet
           /\ selection[a] = SelectAttribute(normalized, validation, consensus, states, a)
           /\ selection[a].status = "AUTO_SELECTED"
<1>1. a \in AttributeSet /\ Definition[a].required
  BY DEF RequiredAttributes
<1>2. selection[a] = SelectAttribute(normalized, validation, consensus, states, a)
  BY <1>1, Derived DEF select
<1>3. /\ selection[a].status \notin {"NO_CANDIDATE", "NO_VALID_CANDIDATE"}
      /\ ~ selection[a].review_required
  BY DEF overall_status
<1>4. selection[a].status = "AUTO_SELECTED"
  BY <1>2, <1>3 DEF SelectAttribute, SelectAmong, Unresolved, Review, Proposal
<1> QED
  BY <1>1, <1>2, <1>4

\* The two engines that judge the whole product agree: what the selection calls
\* READY_FOR_AUTO_APPROVAL the completeness engine calls COMPLETE.  A schema
\* without a required attribute is ready whatever its evidence.
THEOREM ReadinessIsCompleteness ==
    ASSUME RequiredAttributes # {}
    PROVE  Spec => []ReadyIsComplete
<1>1. DerivedResults => ReadyIsComplete
  <2> SUFFICES ASSUME DerivedResults, phase = "selected",
                      overall_status(selection) = "READY_FOR_AUTO_APPROVAL"
               PROVE  completeness_status(states) = "COMPLETE"
    BY DEF ReadyIsComplete
  <2>1. ASSUME NEW a \in RequiredAttributes
        PROVE  states[a] \in {"PRESENT", "PRESENT_WITH_TOLERANCE"}
    BY ReadyIsSelected, Derived, AutoSelection
  <2>2. PICK a \in RequiredAttributes : TRUE
    OBVIOUS
  <2>3. a \in AttributeSet /\ IsAvailable(states[a])
    BY <2>1 DEF RequiredAttributes, IsAvailable
  <2> QED
    BY <2>1, <2>3 DEF completeness_status
<1> QED
  BY <1>1, ResultsAreDerived, PTL

(* ------------------------- lines and candidates ------------------------ *)

\* The candidate that a line naming an attribute becomes.
CandidateOf(item) ==
    Candidate(item, Match(item).attribute, Parse(Definition[Match(item).attribute], item.raw),
              Match(item).quality)

CandidatesOf(lines) == {CandidateOf(x) : x \in {y \in lines : Match(y).attribute # None}}

Raises(item) ==
    \/ MatchRaises(item)
    \/ Match(item).attribute # None /\ ParseRaises(Definition[Match(item).attribute], item.raw)

\* The extraction of these lines succeeds, whatever their order.
Clean(lines) ==
    /\ \A x \in lines : ~ Raises(x)
    /\ \A a \in AttributeSet :
          Cardinality({c \in CandidatesOf(lines) : c.attribute = a}) <= MaxPerAttribute

\* Lines are known apart by where they stand.
Apart(lines) ==
    \A x, y \in lines : x.source = y.source /\ x.location = y.location => x = y

\* A line names an attribute of the schema or none.
LEMMA MatchType ==
    ASSUME NEW item \in EvidenceItem
    PROVE  /\ Match(item).attribute \in AttributeSet \cup {None}
           /\ Match(item).quality \in {80, 85, 90}
<1>1. Labels[item.label].attribute \in AttributeSet \cup {None}
  BY SchemaAssumption DEF EvidenceItem
<1>2. item.place \in {"hint", "separated", "prefix"}
  BY DEF EvidenceItem
<1>3. CASE item.place = "hint"
  BY <1>1, <1>3 DEF Match
<1>4. CASE item.place = "separated"
  BY <1>1, <1>4 DEF Match
<1>5. CASE item.place = "prefix"
  BY <1>1, <1>5 DEF Match
<1> QED
  BY <1>2, <1>3, <1>4, <1>5

\* A candidate keeps the place of its line, and its confidence is a number.
LEMMA CandidateFields ==
    ASSUME NEW item \in EvidenceItem, Match(item).attribute # None
    PROVE  /\ CandidateOf(item).attribute = Match(item).attribute
           /\ CandidateOf(item).attribute \in AttributeSet
           /\ CandidateOf(item).source = item.source /\ item.source \in Int
           /\ CandidateOf(item).location = item.location /\ item.location \in Int
           /\ CandidateOf(item).confidence \in Int
<1> DEFINE attribute == Match(item).attribute
           parsed == Parse(Definition[attribute], item.raw)
<1>1. item.source \in Int /\ item.location \in Int /\ item.quality \in Int
  BY DEF EvidenceItem
<1>2. parsed.parse_quality \in {70, 85, 90, 100}
  BY DEF Parse, Parsed
<1>3. Match(item).quality \in {80, 85, 90} /\ attribute \in AttributeSet
  BY MatchType
<1>4. Match(item).quality * item.quality \in Int
  BY <1>1, <1>3
<1>5. Match(item).quality * item.quality * parsed.parse_quality \in Int
  <2> HIDE DEF parsed
  <2> DEFINE product == Match(item).quality * item.quality
  <2>1. product \in Int
    BY <1>4
  <2> HIDE DEF product
  <2>2. product * parsed.parse_quality \in Int
    BY <2>1, <1>2
  <2> QED
    BY <2>2 DEF product
<1>6. CandidateOf(item).confidence
        = (Match(item).quality * item.quality * parsed.parse_quality) \div 100
  BY DEF CandidateOf, Candidate
<1>7. CandidateOf(item).confidence \in Int
  <2> DEFINE product == Match(item).quality * item.quality * parsed.parse_quality
  <2>1. product \in Int /\ CandidateOf(item).confidence = product \div 100
    BY <1>5, <1>6
  <2> HIDE DEF product
  <2> QED
    BY <2>1
<1> QED
  BY <1>1, <1>3, <1>7 DEF CandidateOf, Candidate

\* Finitely many lines have finitely many candidates.
LEMMA CandidatesAreFinite ==
    ASSUME NEW lines, IsFiniteSet(lines)
    PROVE  /\ IsFiniteSet(CandidatesOf(lines))
           /\ \A a : /\ IsFiniteSet({c \in CandidatesOf(lines) : c.attribute = a})
                     /\ Cardinality({c \in CandidatesOf(lines) : c.attribute = a}) \in Nat
<1> DEFINE named == {y \in lines : Match(y).attribute # None}
           of == [x \in named |-> CandidateOf(x)]
<1>1. named \in SUBSET lines
  OBVIOUS
<1>2. IsFiniteSet(named)
  <2> HIDE DEF named
  <2> QED
    BY <1>1, FS_Subset
<1>3. IsFiniteSet({of[x] : x \in named})
  <2> HIDE DEF of, named
  <2> QED
    BY <1>2, FiniteImage
<1>4. CandidatesOf(lines) = {of[x] : x \in named}
  BY DEF CandidatesOf
<1>5. IsFiniteSet(CandidatesOf(lines))
  BY <1>3, <1>4
<1> QED
  <2> SUFFICES ASSUME NEW a
               PROVE  /\ IsFiniteSet({c \in CandidatesOf(lines) : c.attribute = a})
                      /\ Cardinality({c \in CandidatesOf(lines) : c.attribute = a}) \in Nat
    BY <1>5
  <2> DEFINE some == {c \in CandidatesOf(lines) : c.attribute = a}
  <2>1. some \in SUBSET CandidatesOf(lines)
    OBVIOUS
  <2> HIDE DEF some
  <2>2. IsFiniteSet(some) /\ Cardinality(some) \in Nat
    BY <1>5, <2>1, FS_Subset, FS_CardinalityType
  <2> QED
    BY <2>2 DEF some

\* What fails for some lines fails for more.
LEMMA CleanIsMonotonic ==
    ASSUME NEW more, IsFiniteSet(more), NEW lines, lines \subseteq more, Clean(more)
    PROVE  Clean(lines)
<1>1. \A x \in lines : ~ Raises(x)
  BY DEF Clean
<1>2. ASSUME NEW a \in AttributeSet
      PROVE  Cardinality({c \in CandidatesOf(lines) : c.attribute = a}) <= MaxPerAttribute
  <2> DEFINE few == {c \in CandidatesOf(lines) : c.attribute = a}
             many == {c \in CandidatesOf(more) : c.attribute = a}
  <2>1. few \in SUBSET many
    BY DEF CandidatesOf
  <2>2. IsFiniteSet(many) /\ Cardinality(many) \in Nat
    BY CandidatesAreFinite
  <2>3. Cardinality(many) <= MaxPerAttribute
    BY DEF Clean
  <2> HIDE DEF few, many
  <2>4. IsFiniteSet(few) /\ Cardinality(few) <= Cardinality(many) /\ Cardinality(few) \in Nat
    BY <2>1, <2>2, FS_Subset, FS_CardinalityType
  <2>5. Cardinality(few) <= MaxPerAttribute
    BY <2>2, <2>3, <2>4, SchemaAssumption
  <2> QED
    BY <2>5 DEF few
<1> QED
  BY <1>1, <1>2 DEF Clean

(* ------------------------------ extraction ----------------------------- *)

Accumulator ==
    [ found : Seq(CandidatesOf(EvidenceItem)), duplicates : Nat, warned : BOOLEAN,
      error : {None, "ALIAS", "LIMIT"} ]

\* What extract's loop knows after these lines: it has failed if they cannot be
\* extracted, else it holds the candidate of each, once.
Represents(acc, lines) ==
    /\ acc \in Accumulator
    /\ acc.error = None <=> Clean(lines)
    /\ acc.error = None => IsInjective(acc.found) /\ ToSet(acc.found) = CandidatesOf(lines)

\* A sequence without repetition holds as many candidates of an attribute as
\* the set of its elements.
LEMMA CountOfAttribute ==
    ASSUME NEW found \in Seq(CandidatesOf(EvidenceItem)), IsInjective(found), NEW a
    PROVE  Cardinality(OfAttribute(found, a)) = Cardinality({c \in ToSet(found) : c.attribute = a})
<1> DEFINE A == {c \in ToSet(found) : c.attribute = a}
<1>1. IsFiniteSet(DOMAIN found)
  <2>1. DOMAIN found = 1 .. Len(found) /\ Len(found) \in Nat
    OBVIOUS
  <2> QED
    BY <2>1, FS_Interval
<1>2. OfAttribute(found, a) \in SUBSET DOMAIN found
  BY DEF OfAttribute
<1>3. \A v : v \in A <=> \E i \in OfAttribute(found, a) : v = found[i]
  BY DEF OfAttribute, ToSet
<1>4. PICK from, to : from = OfAttribute(found, a) /\ to = A
  OBVIOUS
<1>5. from \in SUBSET DOMAIN found /\ \A v : v \in to <=> \E i \in from : v = found[i]
  BY <1>2, <1>3, <1>4
<1> HIDE DEF A
<1>6. Cardinality(from) = Cardinality(to)
  BY <1>1, <1>5, InjectiveCount, Zenon
<1> QED
  BY <1>4, <1>6 DEF A

\* One more line: it is refused, passed over, or becomes one more candidate.
LEMMA TakeOne ==
    ASSUME NEW lines \in SUBSET EvidenceItem, IsFiniteSet(lines), NEW item \in EvidenceItem,
           item \notin lines, Apart(lines \cup {item}), NEW acc, Represents(acc, lines)
    PROVE  Represents(Take(acc, item), lines \cup {item})
<1> DEFINE more == lines \cup {item}
           attribute == Match(item).attribute
           candidate == CandidateOf(item)
           missing == candidate.parse_status = "MISSING_VALUE"
           warned == [acc EXCEPT !.warned = @ \/ missing]
<1>1. IsFiniteSet(more) /\ lines \subseteq more
  BY FS_AddElement
<1>2. acc \in Accumulator
  BY DEF Represents
<1>3. None \notin {"ALIAS", "LIMIT"}
  BY SchemaAssumption
<1>4. CASE acc.error # None
  <2>1. Take(acc, item) = acc
    BY <1>4 DEF Take
  <2>2. ~ Clean(more)
    BY <1>1, <1>4, CleanIsMonotonic DEF Represents
  <2> QED
    BY <1>2, <1>4, <2>1, <2>2 DEF Represents
<1>5. CASE acc.error = None /\ Raises(item)
  <2>1. Take(acc, item) = [acc EXCEPT !.error = "ALIAS"]
    BY <1>5 DEF Take, Raises
  <2>2. Take(acc, item) \in Accumulator /\ Take(acc, item).error = "ALIAS"
    BY <1>2, <2>1 DEF Accumulator
  <2>3. ~ Clean(more)
    BY <1>5 DEF Clean
  <2> QED
    BY <1>3, <2>2, <2>3 DEF Represents
<1>6. CASE acc.error = None /\ ~ Raises(item) /\ attribute = None
  <2>1. Take(acc, item) = acc
    BY <1>6 DEF Take, Raises
  <2>2. CandidatesOf(more) = CandidatesOf(lines)
    BY <1>6 DEF CandidatesOf
  <2>3. Clean(more)
    BY <1>6, <2>2 DEF Clean, Represents
  <2> QED
    BY <1>6, <2>1, <2>2, <2>3 DEF Represents
<1>7. CASE acc.error = None /\ ~ Raises(item) /\ attribute # None
  <2>1. /\ IsInjective(acc.found) /\ ToSet(acc.found) = CandidatesOf(lines) /\ Clean(lines)
        /\ acc.found \in Seq(CandidatesOf(EvidenceItem))
    BY <1>2, <1>7 DEF Represents, Accumulator
  <2>2. /\ candidate.attribute = attribute /\ attribute \in AttributeSet
        /\ candidate.source = item.source /\ candidate.location = item.location
    BY <1>7, CandidateFields
  <2>3. \A c \in CandidatesOf(lines) : c.source # candidate.source \/ c.location # candidate.location
    <3> SUFFICES ASSUME NEW x \in lines, Match(x).attribute # None
                 PROVE  \/ CandidateOf(x).source # candidate.source
                        \/ CandidateOf(x).location # candidate.location
      BY DEF CandidatesOf
    <3>1. CandidateOf(x).source = x.source /\ CandidateOf(x).location = x.location
      BY CandidateFields
    <3> QED
      BY <2>2, <3>1 DEF Apart
  <2>4. ~ \E c \in ToSet(acc.found) : SameEvidence(c, candidate)
    BY <2>1, <2>3 DEF SameEvidence
  <2>5. candidate \notin CandidatesOf(lines) /\ CandidatesOf(more) = CandidatesOf(lines) \cup {candidate}
    BY <1>7, <2>3 DEF CandidatesOf
  <2>6. Cardinality(OfAttribute(acc.found, attribute))
          = Cardinality({c \in CandidatesOf(lines) : c.attribute = attribute})
    BY <2>1, CountOfAttribute
  <2> DEFINE count == Cardinality({c \in CandidatesOf(lines) : c.attribute = attribute})
  <2>7. count \in Nat /\ count <= MaxPerAttribute /\ MaxPerAttribute \in Nat
    <3>1. count \in Nat
      BY CandidatesAreFinite
    <3>2. count <= MaxPerAttribute
      BY <2>1, <2>2 DEF Clean
    <3>3. MaxPerAttribute \in Nat
      BY SchemaAssumption
    <3> QED
      BY <3>1, <3>2, <3>3
  <2>8. Cardinality({c \in CandidatesOf(more) : c.attribute = attribute}) = count + 1
    <3> DEFINE old == {c \in CandidatesOf(lines) : c.attribute = attribute}
    <3>1. {c \in CandidatesOf(more) : c.attribute = attribute} = old \cup {candidate}
      BY <2>2, <2>5
    <3>2. candidate \notin old /\ IsFiniteSet(old)
      BY <2>5, CandidatesAreFinite
    <3>3. Cardinality(old \cup {candidate}) = Cardinality(old) + 1
      <4> HIDE DEF old, candidate
      <4> QED
        BY <3>2, FS_AddElement
    <3> QED
      BY <3>1, <3>3
  <2>9. Take(acc, item) = IF Cardinality(OfAttribute(acc.found, attribute)) = MaxPerAttribute
                          THEN [warned EXCEPT !.error = "LIMIT"]
                          ELSE [warned EXCEPT !.found = Append(@, candidate)]
    <3>1. /\ ~ MatchRaises(item) /\ ~ ParseRaises(Definition[attribute], item.raw)
          /\ attribute # None /\ acc.error = None
      BY <1>7 DEF Raises
    <3>2. candidate = Candidate(item, attribute, Parse(Definition[attribute], item.raw),
                                Match(item).quality)
      BY DEF CandidateOf
    <3> HIDE DEF candidate
    <3> QED
      BY <2>4, <3>1, <3>2 DEF Take
  <2>10. /\ warned \in Accumulator /\ warned.found = acc.found /\ warned.error = None
    <3>1. missing \in BOOLEAN
      OBVIOUS
    <3> HIDE DEF missing
    <3> QED
      BY <1>2, <1>7, <3>1 DEF Accumulator
  <2>11. CASE count = MaxPerAttribute
    <3>1. Take(acc, item) = [warned EXCEPT !.error = "LIMIT"]
      BY <2>6, <2>9, <2>11
    <3>2. Take(acc, item) \in Accumulator /\ Take(acc, item).error = "LIMIT"
      <4> HIDE DEF warned
      <4> QED
        BY <2>10, <3>1 DEF Accumulator
    <3>3. ~ Clean(more)
      <4>1. ~ (count + 1 <= MaxPerAttribute)
        <5> HIDE DEF count
        <5> QED
          BY <2>7, <2>11
      <4> QED
        BY <2>2, <2>8, <4>1 DEF Clean
    <3> QED
      BY <1>3, <3>2, <3>3 DEF Represents
  <2>12. CASE count # MaxPerAttribute
    <3> DEFINE longer == Append(acc.found, candidate)
    <3>1. Take(acc, item) = [warned EXCEPT !.found = Append(@, candidate)]
      BY <2>6, <2>9, <2>12
    <3>2. candidate \in CandidatesOf(EvidenceItem)
      BY <1>7 DEF CandidatesOf
    <3>3. /\ longer \in Seq(CandidatesOf(EvidenceItem)) /\ Len(longer) = Len(acc.found) + 1
          /\ Len(acc.found) \in Nat
          /\ \A i \in 1 .. Len(acc.found) : longer[i] = acc.found[i]
          /\ longer[Len(acc.found) + 1] = candidate
          /\ DOMAIN longer = 1 .. Len(acc.found) + 1 /\ DOMAIN acc.found = 1 .. Len(acc.found)
      <4> HIDE DEF candidate
      <4> QED
        BY <2>1, <3>2
    <3> HIDE DEF longer
    <3>4. Take(acc, item) \in Accumulator /\ Take(acc, item).found = longer
          /\ Take(acc, item).error = None
      <4> HIDE DEF warned, candidate
      <4>1. Take(acc, item) = [warned EXCEPT !.found = longer]
        BY <2>10, <3>1 DEF longer
      <4> QED
        BY <2>10, <3>3, <4>1 DEF Accumulator
    <3>5. \A i \in 1 .. Len(acc.found) : acc.found[i] \in CandidatesOf(lines)
      BY <2>1, <3>3 DEF ToSet
    <3>6. IsInjective(longer)
      <4> SUFFICES ASSUME NEW i \in DOMAIN longer, NEW j \in DOMAIN longer, longer[i] = longer[j]
                   PROVE  i = j
        BY DEF IsInjective
      <4> HIDE DEF candidate
      <4>1. CASE i \in 1 .. Len(acc.found) /\ j \in 1 .. Len(acc.found)
        BY <2>1, <3>3, <4>1 DEF IsInjective
      <4>2. CASE i = Len(acc.found) + 1 /\ j \in 1 .. Len(acc.found)
        BY <2>5, <3>3, <3>5, <4>2
      <4>3. CASE j = Len(acc.found) + 1 /\ i \in 1 .. Len(acc.found)
        BY <2>5, <3>3, <3>5, <4>3
      <4>4. CASE i = Len(acc.found) + 1 /\ j = Len(acc.found) + 1
        BY <4>4
      <4> QED
        BY <3>3, <4>1, <4>2, <4>3, <4>4
    <3>7. ToSet(longer) = CandidatesOf(more)
      <4> HIDE DEF candidate
      <4>1. ASSUME NEW c \in ToSet(longer) PROVE c \in CandidatesOf(lines) \cup {candidate}
        BY <3>3, <3>5, <4>1 DEF ToSet
      <4>2. ASSUME NEW c \in CandidatesOf(lines) PROVE c \in ToSet(longer)
        <5>1. PICK i \in DOMAIN acc.found : c = acc.found[i]
          BY <2>1, <4>2 DEF ToSet
        <5> QED
          BY <3>3, <5>1 DEF ToSet
      <4>3. candidate \in ToSet(longer)
        BY <3>3 DEF ToSet
      <4> QED
        BY <2>5, <4>1, <4>2, <4>3
    <3>8. Clean(more)
      <4>1. \A x \in more : ~ Raises(x)
        BY <1>7, <2>1 DEF Clean
      <4>2. ASSUME NEW a \in AttributeSet
            PROVE  Cardinality({c \in CandidatesOf(more) : c.attribute = a}) <= MaxPerAttribute
        <5>1. CASE a = attribute
          <6>1. count + 1 <= MaxPerAttribute
            <7> HIDE DEF count
            <7> QED
              BY <2>7, <2>12
          <6> QED
            BY <2>8, <5>1, <6>1
        <5>2. CASE a # attribute
          <6>1. {c \in CandidatesOf(more) : c.attribute = a}
                  = {c \in CandidatesOf(lines) : c.attribute = a}
            BY <2>2, <2>5, <5>2
          <6> QED
            BY <2>1, <6>1 DEF Clean
        <5> QED
          BY <5>1, <5>2
      <4> QED
        BY <4>1, <4>2 DEF Clean
    <3> QED
      BY <3>4, <3>6, <3>7, <3>8 DEF Represents
  <2> QED
    BY <2>11, <2>12
<1> QED
  BY <1>4, <1>5, <1>6, <1>7

\* The accumulations of the loop exist: each is what Take makes of the one
\* before it and of the next line.
LEMMA TakenIsDefined ==
    ASSUME NEW E, Len(E) \in Nat
    PROVE  /\ Taken(E)[0] = Nothing
           /\ \A n \in 1 .. Len(E) : Taken(E)[n] = Take(Taken(E)[n - 1], E[n])
<1> DEFINE Loop(g, m) == g = [n \in 0 .. m |-> IF n = 0 THEN Nothing ELSE Take(g[n - 1], E[n])]
           bad == {m \in 0 .. Len(E) : ~ \E g : Loop(g, m)}
<1>1. bad = {}
  <2> SUFFICES ASSUME bad # {} PROVE FALSE
    OBVIOUS
  <2>1. bad \in SUBSET Nat
    OBVIOUS
  <2>2. PICK m \in bad : \A n \in bad : m <= n
    <3> HIDE DEF bad
    <3> QED
      BY <2>1, LeastNatural
  <2>3. m \in 0 .. Len(E)
    OBVIOUS
  <2>4. CASE m = 0
    <3> DEFINE h == [n \in 0 .. 0 |-> Nothing]
    <3>1. Loop(h, 0)
      BY SMT
    <3> QED
      BY <2>4, <3>1
  <2>5. CASE m # 0
    <3>1. m - 1 \in 0 .. Len(E) /\ m - 1 \notin bad
      <4> HIDE DEF bad
      <4> QED
        BY <2>2, <2>3, <2>5
    <3>2. PICK g : Loop(g, m - 1)
      BY <3>1
    <3> DEFINE h == [n \in 0 .. m |-> IF n = m THEN Take(g[m - 1], E[m]) ELSE g[n]]
    <3>3. \A n \in 0 .. m - 1 : g[n] = IF n = 0 THEN Nothing ELSE Take(g[n - 1], E[n])
      <4> DEFINE new == [n \in 0 .. m - 1 |-> IF n = 0 THEN Nothing ELSE Take(g[n - 1], E[n])]
      <4>1. g = new
        BY <3>2
      <4>2. \A n \in 0 .. m - 1 : new[n] = IF n = 0 THEN Nothing ELSE Take(g[n - 1], E[n])
        OBVIOUS
      <4> HIDE DEF new
      <4> QED
        BY <4>1, <4>2
    <3>4. ASSUME NEW n \in 0 .. m
          PROVE  h[n] = IF n = 0 THEN Nothing ELSE Take(h[n - 1], E[n])
      <4>1. CASE n = m
        <5>1. h[n] = Take(g[m - 1], E[m]) /\ n # 0
          BY <2>5, <4>1
        <5>2. h[n - 1] = g[m - 1]
          BY <2>3, <2>5, <4>1
        <5> QED
          BY <4>1, <5>1, <5>2
      <4>2. CASE n # m
        <5>1. n \in 0 .. m - 1 /\ h[n] = g[n]
          BY <2>3, <4>2
        <5>2. n # 0 => h[n - 1] = g[n - 1]
          BY <2>3, <4>2
        <5> HIDE DEF h
        <5> QED
          BY <3>3, <5>1, <5>2
      <4> QED
        BY <4>1, <4>2
    <3>5. Loop(h, m)
      <4>1. h = [n \in 0 .. m |-> h[n]]
        OBVIOUS
      <4> HIDE DEF h
      <4>2. h = [n \in 0 .. m |-> IF n = 0 THEN Nothing ELSE Take(h[n - 1], E[n])]
        BY <3>4, <4>1
      <4> QED
        BY <4>2
    <3> QED
      BY <3>5
  <2> QED
    BY <2>4, <2>5
<1>2. \E g : Loop(g, Len(E))
  <2>1. Len(E) \in 0 .. Len(E)
    OBVIOUS
  <2> QED
    BY <1>1, <2>1
<1>3. Taken(E) = CHOOSE g : Loop(g, Len(E))
  BY DEF Taken
<1>4. Loop(Taken(E), Len(E))
  <2> HIDE DEF Loop
  <2> QED
    BY <1>2, <1>3
<1> DEFINE new == [n \in 0 .. Len(E) |-> IF n = 0 THEN Nothing ELSE Take(Taken(E)[n - 1], E[n])]
<1>5. Taken(E) = new
  BY <1>4
<1>6. \A n \in 0 .. Len(E) : new[n] = IF n = 0 THEN Nothing ELSE Take(Taken(E)[n - 1], E[n])
  OBVIOUS
<1> HIDE DEF new, Loop
<1>7. \A n \in 0 .. Len(E) : Taken(E)[n] = IF n = 0 THEN Nothing ELSE Take(Taken(E)[n - 1], E[n])
  BY <1>5, <1>6
<1> QED
  BY <1>7

\* After all the lines of a sequence without repetition, the loop holds what
\* their set says, and so nothing of their order but that of the candidates.
LEMMA TakenIsOfTheSet ==
    ASSUME NEW E \in Seq(EvidenceItem), IsInjective(E), Apart(ToSet(E))
    PROVE  /\ Represents(Taken(E)[Len(E)], ToSet(E))
           /\ IsFiniteSet(ToSet(E)) /\ ToSet(E) \subseteq EvidenceItem
<1> DEFINE first(m) == {E[i] : i \in 1 .. m}
           bad == {m \in 0 .. Len(E) : ~ Represents(Taken(E)[m], first(m))}
<1>0. Len(E) \in Nat /\ DOMAIN E = 1 .. Len(E) /\ \A i \in 1 .. Len(E) : E[i] \in EvidenceItem
  OBVIOUS
<1>1. \A m \in 0 .. Len(E) : IsFiniteSet(first(m)) /\ first(m) \in SUBSET EvidenceItem
  <2> TAKE m \in 0 .. Len(E)
  <2>1. IsFiniteSet(1 .. m)
    BY FS_Interval
  <2>2. IsFiniteSet({E[i] : i \in 1 .. m})
    BY <2>1, FiniteImage
  <2> QED
    BY <1>0, <2>2
<1>2. Represents(Nothing, {})
  <2>1. CandidatesOf({}) = {}
    BY DEF CandidatesOf
  <2>2. Clean({})
    <3>1. \A a : Cardinality({c \in CandidatesOf({}) : c.attribute = a}) = 0
      <4> TAKE a
      <4>1. {c \in CandidatesOf({}) : c.attribute = a} = {}
        BY <2>1
      <4> QED
        BY <4>1, FS_EmptySet
    <3>2. 0 <= MaxPerAttribute
      BY SchemaAssumption
    <3> QED
      BY <3>1, <3>2 DEF Clean
  <2>3. Nothing.found = <<>> /\ Nothing.error = None
    BY DEF Nothing
  <2>4. Nothing \in Accumulator
    BY DEF Nothing, Accumulator
  <2>5. IsInjective(<<>>) /\ ToSet(<<>>) = {}
    BY DEF IsInjective, ToSet
  <2> QED
    BY <2>1, <2>2, <2>3, <2>4, <2>5 DEF Represents
<1>3. bad = {}
  <2> SUFFICES ASSUME bad # {} PROVE FALSE
    OBVIOUS
  <2>1. bad \in SUBSET Nat
    OBVIOUS
  <2>2. PICK m \in bad : \A n \in bad : m <= n
    <3> HIDE DEF bad
    <3> QED
      BY <2>1, LeastNatural
  <2>3. m \in 0 .. Len(E) /\ ~ Represents(Taken(E)[m], first(m))
    OBVIOUS
  <2>4. CASE m = 0
    <3>1. first(m) = {}
      BY <2>4
    <3> QED
      BY <1>0, <1>2, <2>3, <2>4, <3>1, TakenIsDefined
  <2>5. CASE m # 0
    <3>1. m - 1 \in 0 .. Len(E) /\ m - 1 \notin bad /\ m \in 1 .. Len(E)
      <4> HIDE DEF bad
      <4> QED
        BY <1>0, <2>2, <2>3, <2>5
    <3>2. Represents(Taken(E)[m - 1], first(m - 1))
      BY <3>1
    <3>3. Taken(E)[m] = Take(Taken(E)[m - 1], E[m])
      BY <1>0, <3>1, TakenIsDefined
    <3>4. first(m) = first(m - 1) \cup {E[m]}
      BY <1>0, <3>1
    <3>5. E[m] \notin first(m - 1) /\ E[m] \in EvidenceItem
      BY <1>0, <3>1 DEF IsInjective
    <3>6. Apart(first(m))
      <4>1. first(m) \subseteq ToSet(E)
        BY <1>0, <3>1 DEF ToSet
      <4> HIDE DEF first
      <4> QED
        BY <4>1 DEF Apart
    <3>7. IsFiniteSet(first(m - 1)) /\ first(m - 1) \in SUBSET EvidenceItem
      BY <1>1, <3>1
    <3> HIDE DEF first, bad
    <3>8. PICK before, lines : before = Taken(E)[m - 1] /\ lines = first(m - 1)
      OBVIOUS
    <3>9. Represents(Take(before, E[m]), lines \cup {E[m]})
      BY <3>2, <3>4, <3>5, <3>6, <3>7, <3>8, TakeOne
    <3> QED
      BY <2>3, <3>3, <3>4, <3>8, <3>9
  <2> QED
    BY <2>4, <2>5
<1>4. first(Len(E)) = ToSet(E)
  BY <1>0 DEF ToSet
<1>5. Len(E) \in 0 .. Len(E)
  BY <1>0
<1>6. Represents(Taken(E)[Len(E)], first(Len(E)))
  BY <1>3, <1>5
<1> QED
  <2>1. IsFiniteSet(first(Len(E))) /\ first(Len(E)) \in SUBSET EvidenceItem
    BY <1>1, <1>5
  <2> HIDE DEF first
  <2> QED
    BY <1>4, <1>6, <2>1

(* ------------------------------- sorting ------------------------------- *)

Preceding(all, c) == {d \in all : Precedes(d, c)}

\* The candidates in the order of their keys.
SortedOf(all) ==
    [n \in 1 .. Cardinality(all) |-> CHOOSE c \in all : Cardinality(Preceding(all, c)) = n - 1]

\* Two attributes have not the same display order.
LEMMA DisplayOrderIsKey ==
    /\ \A a \in AttributeSet : DisplayOrder(a) \in Int
    /\ \A a, b \in AttributeSet : DisplayOrder(a) = DisplayOrder(b) => a = b
<1>1. DOMAIN Attributes \subseteq Int
  BY SchemaAssumption
<1>2. \A a \in AttributeSet : \E i \in DOMAIN Attributes : Attributes[i] = a
  BY DEF AttributeSet, ToSet
<1>3. \A a \in AttributeSet : DisplayOrder(a) \in DOMAIN Attributes /\ Attributes[DisplayOrder(a)] = a
  BY <1>2 DEF DisplayOrder
<1> QED
  BY <1>1, <1>3

\* The sort key tells any two candidates apart: it ends with the place where
\* the line stands, and no two lines stand at one place.
LEMMA PrecedesIsTotal ==
    ASSUME NEW lines \in SUBSET EvidenceItem, Apart(lines),
           NEW all, all = CandidatesOf(lines)
    PROVE  /\ \A c \in all : ~ Precedes(c, c)
           /\ \A c, d, e \in all : Precedes(c, d) /\ Precedes(d, e) => Precedes(c, e)
           /\ \A c, d \in all : c # d => Precedes(c, d) \/ Precedes(d, c)
<1>1. \A c \in all : /\ c.attribute \in AttributeSet /\ c.confidence \in Int
                     /\ c.source \in Int /\ c.location \in Int
  BY CandidateFields DEF CandidatesOf
<1>2. ASSUME NEW c \in all, NEW d \in all, c.source = d.source, c.location = d.location
      PROVE  c = d
  <2>1. PICK x \in lines : Match(x).attribute # None /\ c = CandidateOf(x)
    BY DEF CandidatesOf
  <2>2. PICK y \in lines : Match(y).attribute # None /\ d = CandidateOf(y)
    BY DEF CandidatesOf
  <2>3. x.source = y.source /\ x.location = y.location
    BY <1>2, <2>1, <2>2, CandidateFields
  <2> QED
    BY <2>1, <2>2, <2>3 DEF Apart
<1>3. \A c \in all : DisplayOrder(c.attribute) \in Int
  BY <1>1, DisplayOrderIsKey
<1>4. \A c, d \in all : DisplayOrder(c.attribute) = DisplayOrder(d.attribute)
                            => c.attribute = d.attribute
  BY <1>1, DisplayOrderIsKey
<1>5. \A c \in all : ~ Precedes(c, c)
  BY <1>1, <1>3 DEF Precedes
<1>6. ASSUME NEW c \in all, NEW d \in all, NEW e \in all, Precedes(c, d), Precedes(d, e)
      PROVE  Precedes(c, e)
  BY <1>1, <1>3, <1>4, <1>6 DEF Precedes
<1>7. ASSUME NEW c \in all, NEW d \in all, c # d
      PROVE  Precedes(c, d) \/ Precedes(d, c)
  <2>1. c.source # d.source \/ c.location # d.location
    BY <1>2, <1>7
  <2> QED
    BY <1>1, <1>3, <1>4, <2>1 DEF Precedes
<1> QED
  BY <1>5, <1>6, <1>7

\* Each candidate has its own number of candidates before it, and every number
\* is that of one.
LEMMA CandidateRanks ==
    ASSUME NEW lines \in SUBSET EvidenceItem, Apart(lines), IsFiniteSet(lines),
           NEW all, all = CandidatesOf(lines)
    PROVE  /\ Cardinality(all) \in Nat
           /\ \A c \in all : Cardinality(Preceding(all, c)) \in 0 .. Cardinality(all) - 1
           /\ \A c, d \in all :
                 Cardinality(Preceding(all, c)) = Cardinality(Preceding(all, d)) => c = d
           /\ \A n \in 1 .. Cardinality(all) : \E c \in all : Cardinality(Preceding(all, c)) = n - 1
<1>1. IsFiniteSet(all) /\ Cardinality(all) \in Nat
  BY CandidatesAreFinite, FS_CardinalityType
<1>2. PICK before : before = [c \in all |-> Preceding(all, c)]
  OBVIOUS
<1>3. \A c \in all : before[c] = Preceding(all, c)
  BY <1>2
<1>4. /\ \A c \in all : ~ Precedes(c, c)
      /\ \A c, d, e \in all : Precedes(c, d) /\ Precedes(d, e) => Precedes(c, e)
      /\ \A c, d \in all : c # d => Precedes(c, d) \/ Precedes(d, c)
  BY PrecedesIsTotal
<1>5. /\ \A c \in all : before[c] \in SUBSET all /\ c \notin before[c]
      /\ \A c, d \in all : d \in before[c] => before[d] \in SUBSET before[c]
      /\ \A c, d \in all : c # d => c \in before[d] \/ d \in before[c]
  BY <1>3, <1>4 DEF Preceding
<1>6. /\ \A c \in all : Cardinality(before[c]) \in 0 .. Cardinality(all) - 1
      /\ \A c, d \in all : Cardinality(before[c]) = Cardinality(before[d]) => c = d
      /\ \A n \in 1 .. Cardinality(all) : \E c \in all : Cardinality(before[c]) = n - 1
  <2>1. \A x \in all : before[x] \in SUBSET all /\ x \notin before[x]
    BY <1>5
  <2>2. \A x, y \in all : y \in before[x] => before[y] \in SUBSET before[x]
    BY <1>5
  <2>3. \A x, y \in all : x # y => x \in before[y] \/ y \in before[x]
    BY <1>5
  <2>4. IsFiniteSet(all)
    BY <1>1
  <2> QED
    BY ONLY <2>1, <2>2, <2>3, <2>4, RanksAreDistinct, Zenon
<1> QED
  BY <1>1, <1>3, <1>6

\* Sorting keeps every candidate and adds none.
LEMMA SortedMembers ==
    ASSUME NEW lines \in SUBSET EvidenceItem, Apart(lines), IsFiniteSet(lines),
           NEW all, all = CandidatesOf(lines)
    PROVE  /\ Cardinality(all) \in Nat
           /\ \A n \in 1 .. Cardinality(all) : SortedOf(all)[n] \in all
           /\ \A c \in all : \E n \in 1 .. Cardinality(all) : SortedOf(all)[n] = c
<1>1. /\ Cardinality(all) \in Nat
      /\ \A c \in all : Cardinality(Preceding(all, c)) \in 0 .. Cardinality(all) - 1
      /\ \A c, d \in all :
            Cardinality(Preceding(all, c)) = Cardinality(Preceding(all, d)) => c = d
      /\ \A n \in 1 .. Cardinality(all) : \E c \in all : Cardinality(Preceding(all, c)) = n - 1
  BY CandidateRanks
<1>2. ASSUME NEW n \in 1 .. Cardinality(all)
      PROVE  /\ SortedOf(all)[n] \in all
             /\ Cardinality(Preceding(all, SortedOf(all)[n])) = n - 1
  <2>1. SortedOf(all)[n] = CHOOSE c \in all : Cardinality(Preceding(all, c)) = n - 1
    BY DEF SortedOf
  <2> QED
    BY <1>1, <2>1
<1>3. ASSUME NEW c \in all
      PROVE  \E n \in 1 .. Cardinality(all) : SortedOf(all)[n] = c
  <2>1. PICK n \in 1 .. Cardinality(all) : Cardinality(Preceding(all, c)) = n - 1
    <3>1. Cardinality(Preceding(all, c)) + 1 \in 1 .. Cardinality(all)
      BY <1>1
    <3>2. Cardinality(Preceding(all, c)) = (Cardinality(Preceding(all, c)) + 1) - 1
      BY <1>1
    <3> QED
      BY <3>1, <3>2
  <2> QED
    BY <1>1, <1>2, <2>1
<1> QED
  BY <1>1, <1>2, <1>3

\* The sort of the code, which is stable, has no use for it: whatever the order
\* in which the candidates were found, they end in the order of their keys.
LEMMA OrderedIsSorted ==
    ASSUME NEW lines \in SUBSET EvidenceItem, Apart(lines), IsFiniteSet(lines),
           NEW all, all = CandidatesOf(lines),
           NEW found, found \in Seq(all), IsInjective(found), ToSet(found) = all
    PROVE  Ordered(found) = SortedOf(all)
<1> DEFINE S == DOMAIN found
           before(j) == {i \in S : \/ Precedes(found[i], found[j])
                                   \/ ~ Precedes(found[j], found[i]) /\ i < j}
<1>1. S = 1 .. Len(found) /\ Len(found) \in Nat /\ IsFiniteSet(S) /\ Cardinality(S) = Len(found)
  <2>1. S = 1 .. Len(found) /\ Len(found) \in Nat
    OBVIOUS
  <2>2. IsFiniteSet(1 .. Len(found)) /\ Cardinality(1 .. Len(found)) = Len(found)
    BY <2>1, FS_Interval
  <2> QED
    BY <2>1, <2>2
<1>0. IsFiniteSet(DOMAIN found)
  BY <1>1
<1>2. /\ \A i \in S : found[i] \in all
      /\ \A c \in all : \E i \in S : found[i] = c
      /\ \A i, j \in S : found[i] = found[j] => i = j
  BY DEF ToSet, IsInjective
<1>3. /\ \A c \in all : ~ Precedes(c, c)
      /\ \A c, d, e \in all : Precedes(c, d) /\ Precedes(d, e) => Precedes(c, e)
      /\ \A c, d \in all : c # d => Precedes(c, d) \/ Precedes(d, c)
  BY PrecedesIsTotal
<1>4. \A j \in S : before(j) = {i \in S : Precedes(found[i], found[j])}
  <2> SUFFICES ASSUME NEW j \in S, NEW i \in S
               PROVE  (\/ Precedes(found[i], found[j])
                       \/ ~ Precedes(found[j], found[i]) /\ i < j) <=> Precedes(found[i], found[j])
    OBVIOUS
  <2>1. found[i] \in all /\ found[j] \in all /\ (i # j => found[i] # found[j])
    BY <1>2
  <2>2. i \in Int /\ j \in Int
    BY <1>1
  <2>3. CASE i = j
    BY <2>2, <2>3
  <2>4. CASE i # j
    BY <1>3, <2>1, <2>4
  <2> QED
    BY <2>3, <2>4
<1>5. ASSUME NEW j \in S
      PROVE  Cardinality(before(j)) = Cardinality(Preceding(all, found[j]))
  <2>1. PICK from, to : from = before(j) /\ to = Preceding(all, found[j])
    OBVIOUS
  <2>2. from \in SUBSET DOMAIN found
    BY <2>1
  <2>3. \A v : v \in to <=> \E i \in from : v = found[i]
    <3>1. from = {i \in S : Precedes(found[i], found[j])}
      BY <1>4, <2>1
    <3> QED
      BY <1>2, <2>1, <3>1 DEF Preceding
  <2> HIDE DEF before
  <2>4. Cardinality(from) = Cardinality(to)
    BY <1>0, <2>2, <2>3, InjectiveCount, Zenon
  <2> QED
    BY <2>1, <2>4
<1>6. Cardinality(all) = Len(found)
  <2>1. PICK from, to : from = DOMAIN found /\ to = all
    OBVIOUS
  <2>2. from \in SUBSET DOMAIN found /\ \A v : v \in to <=> \E i \in from : v = found[i]
    BY <1>2, <2>1
  <2>3. Cardinality(from) = Cardinality(to)
    BY <1>0, <2>2, InjectiveCount, Zenon
  <2> QED
    BY <1>1, <2>1, <2>3
<1>7. /\ \A c, d \in all :
            Cardinality(Preceding(all, c)) = Cardinality(Preceding(all, d)) => c = d
      /\ \A n \in 1 .. Cardinality(all) : \E c \in all : Cardinality(Preceding(all, c)) = n - 1
  BY CandidateRanks
<1>8. Ordered(found) = [n \in S |-> found[CHOOSE j \in S : Cardinality(before(j)) = n - 1]]
  BY DEF Ordered
<1> HIDE DEF before
<1>9. ASSUME NEW n \in S
      PROVE  found[CHOOSE j \in S : Cardinality(before(j)) = n - 1]
               = CHOOSE c \in all : Cardinality(Preceding(all, c)) = n - 1
  <2>1. PICK d \in all : Cardinality(Preceding(all, d)) = n - 1
    BY <1>1, <1>6, <1>7
  <2>2. PICK k \in S : found[k] = d
    BY <1>2
  <2>3. Cardinality(before(k)) = n - 1
    BY <1>5, <2>1, <2>2
  <2>4. PICK j \in S : /\ j = (CHOOSE i \in S : Cardinality(before(i)) = n - 1)
                       /\ Cardinality(before(j)) = n - 1
    BY <2>3
  <2>5. found[j] \in all /\ Cardinality(Preceding(all, found[j])) = n - 1
    BY <1>2, <1>5, <2>4
  <2>6. PICK c \in all : /\ c = (CHOOSE e \in all : Cardinality(Preceding(all, e)) = n - 1)
                         /\ Cardinality(Preceding(all, c)) = n - 1
    BY <2>1
  <2>7. c = found[j]
    BY <1>7, <2>5, <2>6
  <2> QED
    BY <2>4, <2>6, <2>7
<1>10. SortedOf(all) = [n \in 1 .. Cardinality(all) |->
                           CHOOSE c \in all : Cardinality(Preceding(all, c)) = n - 1]
  BY DEF SortedOf
<1>11. S = 1 .. Cardinality(all)
  BY <1>1, <1>6
<1> QED
  BY <1>8, <1>9, <1>10, <1>11

\* What extract returns depends on the set of the lines only: an error if they
\* cannot be extracted, else the candidates of the lines in the order of their
\* keys, one of each.
LEMMA ExtractOfTheSet ==
    ASSUME NEW E \in Seq(EvidenceItem), IsInjective(E), Apart(ToSet(E))
    PROVE  /\ extract(E).error = None <=> Clean(ToSet(E))
           /\ extract(E).error = None => extract(E).found = SortedOf(CandidatesOf(ToSet(E)))
           /\ IsFiniteSet(ToSet(E)) /\ ToSet(E) \in SUBSET EvidenceItem
<1>1. /\ Represents(Taken(E)[Len(E)], ToSet(E))
      /\ IsFiniteSet(ToSet(E)) /\ ToSet(E) \in SUBSET EvidenceItem
  BY TakenIsOfTheSet
<1>2. PICK acc : acc = Taken(E)[Len(E)]
  OBVIOUS
<1>3. acc \in Accumulator
  BY <1>1, <1>2 DEF Represents
<1>4. extract(E).error = acc.error /\ extract(E).found = Ordered(acc.found)
  BY <1>2, <1>3 DEF extract, Accumulator
<1>5. ASSUME acc.error = None
      PROVE  Ordered(acc.found) = SortedOf(CandidatesOf(ToSet(E)))
  <2>1. /\ IsInjective(acc.found) /\ ToSet(acc.found) = CandidatesOf(ToSet(E))
        /\ acc.found \in Seq(CandidatesOf(EvidenceItem))
    BY <1>1, <1>2, <1>3, <1>5 DEF Represents, Accumulator
  <2>2. PICK lines, all, found : /\ lines = ToSet(E) /\ all = CandidatesOf(lines)
                                 /\ found = acc.found
    OBVIOUS
  <2>3. found \in Seq(all)
    <3>1. \A i \in 1 .. Len(found) : found[i] \in all
      BY <2>1, <2>2 DEF ToSet
    <3> QED
      BY <2>1, <2>2, <3>1
  <2>4. Ordered(found) = SortedOf(all)
    BY <1>1, <2>1, <2>2, <2>3, OrderedIsSorted
  <2> QED
    BY <2>2, <2>4
<1> QED
  BY <1>1, <1>2, <1>4, <1>5 DEF Represents

(* ------------------------ the order is irrelevant ---------------------- *)

\* The lines of an analysis are distinct lines of the pool, each where no other
\* stands.
LEMMA ChosenLines ==
    ASSUME NEW lines \in SUBSET DOMAIN Pool
    PROVE  /\ Chosen(lines) \in Seq(EvidenceItem)
           /\ IsInjective(Chosen(lines))
           /\ Apart(ToSet(Chosen(lines)))
<1>1. /\ \A n \in DOMAIN Pool : n \in Int /\ Pool[n] \in EvidenceItem
      /\ \A n, m \in DOMAIN Pool :
            Pool[n].source = Pool[m].source /\ Pool[n].location = Pool[m].location => n = m
  BY PoolAssumption
<1>2. IsFiniteSet(lines) /\ Cardinality(lines) \in Nat
  <2>1. DOMAIN Pool = 1 .. Len(Pool) /\ Len(Pool) \in Nat
    BY PoolAssumption
  <2>2. IsFiniteSet(1 .. Len(Pool))
    BY <2>1, FS_Interval
  <2>3. IsFiniteSet(DOMAIN Pool)
    BY <2>1, <2>2
  <2> QED
    BY <2>3, FS_Subset, FS_CardinalityType
<1>3. PICK before : before = [n \in lines |-> {m \in lines : m < n}]
  OBVIOUS
<1>4. \A n \in lines : before[n] = {m \in lines : m < n} /\ n \in Int
  BY <1>1, <1>3
<1>5. \A n \in 1 .. Cardinality(lines) : \E x \in lines : Cardinality(before[x]) = n - 1
  <2>1. \A x \in lines : before[x] \in SUBSET lines /\ x \notin before[x]
    BY <1>4
  <2>2. \A x, y \in lines : y \in before[x] => before[y] \in SUBSET before[x]
    BY <1>4
  <2>3. \A x, y \in lines : x # y => x \in before[y] \/ y \in before[x]
    BY <1>4
  <2>4. IsFiniteSet(lines)
    BY <1>2
  <2> QED
    BY ONLY <2>1, <2>2, <2>3, <2>4, RanksAreDistinct, Zenon
<1> DEFINE places == 1 .. Cardinality(lines)
           line(i) == CHOOSE n \in lines : Cardinality({m \in lines : m < n}) = i - 1
<1>6. \A i \in places : line(i) \in lines /\ Cardinality(before[line(i)]) = i - 1
  <2> TAKE i \in places
  <2>1. \E n \in lines : Cardinality({m \in lines : m < n}) = i - 1
    BY <1>4, <1>5
  <2>2. line(i) \in lines /\ Cardinality({m \in lines : m < line(i)}) = i - 1
    BY <2>1
  <2> HIDE DEF line
  <2> QED
    BY <1>4, <2>2
<1>7. Chosen(lines) = [i \in places |-> Pool[line(i)]]
  BY DEF Chosen
<1>8. \A i, j \in places : line(i) = line(j) => i = j
  <2> HIDE DEF line
  <2>1. \A i \in places : i \in Int
    OBVIOUS
  <2>2. \A i, j \in places : i - 1 = j - 1 => i = j
    BY <2>1
  <2> HIDE DEF places
  <2> QED
    BY <1>6, <2>2
<1> HIDE DEF line
<1>9. \A i \in places : line(i) \in DOMAIN Pool
  BY <1>6
<1>10. Chosen(lines) \in Seq(EvidenceItem)
  BY <1>1, <1>2, <1>7, <1>9
<1>11. IsInjective(Chosen(lines))
  <2> HIDE DEF places
  <2> QED
    BY <1>1, <1>7, <1>8, <1>9 DEF IsInjective
<1>12. Apart(ToSet(Chosen(lines)))
  <2> HIDE DEF places
  <2> QED
    BY <1>1, <1>7, <1>9 DEF Apart, ToSet
<1> QED
  BY <1>10, <1>11, <1>12

\* The evidence of every state.
LEMMA EvidenceLines ==
    ASSUME DerivedResults
    PROVE  /\ evidence \in Seq(EvidenceItem)
           /\ IsInjective(evidence)
           /\ Apart(ToSet(evidence))
BY ChosenLines DEF DerivedResults, ResultsFollow

\* For every schema and every lines of the sources, within the limit of the
\* candidates, extract returns one and the same sequence of candidates in
\* whatever order the lines are read.
THEOREM OrderIsIrrelevant == Spec => []OrderIrrelevant
<1>1. DerivedResults => OrderIrrelevant
  <2> SUFFICES ASSUME DerivedResults, phase = "extracted",
                      NEW order \in Bijection(DOMAIN evidence, DOMAIN evidence),
                      NEW other, other = [i \in DOMAIN evidence |-> evidence[order[i]]]
               PROVE  extract(other).error = None /\ extract(other).found = extraction.found
    BY DEF OrderIrrelevant
  <2>1. /\ evidence \in Seq(EvidenceItem) /\ IsInjective(evidence) /\ Apart(ToSet(evidence))
        /\ extraction = extract(evidence) /\ extraction.error = None
    BY EvidenceLines, Derived
  <2>2. /\ \A i \in DOMAIN evidence : order[i] \in DOMAIN evidence
        /\ \A i, j \in DOMAIN evidence : order[i] = order[j] => i = j
        /\ \A k \in DOMAIN evidence : \E i \in DOMAIN evidence : order[i] = k
    BY DEF Bijection, Injection, Surjection, IsInjective
  <2>3. /\ other \in Seq(EvidenceItem) /\ IsInjective(other)
        /\ ToSet(other) = ToSet(evidence)
    <3>1. PICK E, D : E = evidence /\ D = DOMAIN evidence
      OBVIOUS
    <3>2. \A i \in D : order[i] \in D
      BY <2>2, <3>1
    <3>3. \A i, j \in D : order[i] = order[j] => i = j
      BY <2>2, <3>1
    <3>4. \A k \in D : \E i \in D : order[i] = k
      BY <2>2, <3>1
    <3>5. \A i, j \in D : E[i] = E[j] => i = j
      BY <2>1, <3>1 DEF IsInjective
    <3>6. DOMAIN other = D /\ \A i \in D : other[i] = E[order[i]]
      BY <3>1
    <3>7. \A i \in D : other[i] = E[order[i]]
      BY <3>6
    <3>8. /\ \A i, j \in D : other[i] = other[j] => i = j
          /\ \A i \in D : \E k \in D : other[i] = E[k]
          /\ \A k \in D : \E i \in D : other[i] = E[k]
      <4>1. ASSUME NEW i \in D, NEW j \in D, other[i] = other[j]
            PROVE  i = j
        <5>1. PICK p \in D, q \in D : p = order[i] /\ q = order[j]
          BY <3>2, Zenon
        <5>2. E[p] = E[q]
          BY <3>7, <4>1, <5>1, Zenon
        <5>3. p = q
          BY <3>5, <5>2, Zenon
        <5> QED
          BY <3>3, <5>1, <5>3, Zenon
      <4>2. ASSUME NEW i \in D
            PROVE  \E k \in D : other[i] = E[k]
        <5>1. PICK k \in D : k = order[i]
          BY <3>2, Zenon
        <5>2. other[i] = E[k]
          BY <3>7, <5>1, Zenon
        <5> QED
          BY <5>2, Zenon
      <4>3. ASSUME NEW k \in D
            PROVE  \E i \in D : other[i] = E[k]
        <5>1. PICK i \in D : order[i] = k
          BY <3>4, Zenon
        <5>2. other[i] = E[k]
          BY <3>7, <5>1, Zenon
        <5> QED
          BY <5>2, Zenon
      <4> QED
        BY <4>1, <4>2, <4>3
    <3>9. IsInjective(other) /\ ToSet(other) = ToSet(E)
      <4>1. IsInjective(other)
        BY ONLY <3>6, <3>8 DEF IsInjective
      <4>2. \A v : v \in ToSet(other) <=> \E i \in D : v = other[i]
        BY ONLY <3>6 DEF ToSet
      <4>3. \A v : v \in ToSet(E) <=> \E i \in D : v = E[i]
        BY ONLY <3>1 DEF ToSet
      <4>4. \A v : v \in ToSet(other) <=> v \in ToSet(E)
        BY ONLY <3>8, <4>2, <4>3
      <4> QED
        BY ONLY <4>1, <4>4
    <3>10. other \in Seq(EvidenceItem)
      <4>1. D = 1 .. Len(E) /\ Len(E) \in Nat /\ \A i \in D : E[i] \in EvidenceItem
        BY <2>1, <3>1
      <4>2. other \in [1 .. Len(E) -> EvidenceItem]
        BY <3>1, <3>2, <4>1
      <4> QED
        BY <4>1, <4>2
    <3> QED
      BY <3>1, <3>9, <3>10
  <2>4. PICK lines : lines = ToSet(evidence)
    OBVIOUS
  <2>5. /\ extract(evidence).error = None <=> Clean(lines)
        /\ extract(evidence).error = None => extract(evidence).found = SortedOf(CandidatesOf(lines))
    BY <2>1, <2>4, ExtractOfTheSet
  <2>6. /\ extract(other).error = None <=> Clean(lines)
        /\ extract(other).error = None => extract(other).found = SortedOf(CandidatesOf(lines))
    <3>1. Apart(ToSet(other))
      BY <2>1, <2>3
    <3> QED
      BY <2>3, <2>4, <3>1, ExtractOfTheSet
  <2> QED
    BY <2>1, <2>5, <2>6
<1> QED
  BY <1>1, ResultsAreDerived, PTL

(* ------------------------- no evidence is lost ------------------------- *)

\* What normalization takes from a candidate, and what it makes of it.
LEMMA NormalizedFields ==
    ASSUME NEW c
    PROVE  /\ NormalizeCandidate(c).attribute = c.attribute
           /\ NormalizeCandidate(c).source = c.source
           /\ NormalizeCandidate(c).location = c.location
           /\ NormalizeCandidate(c).extraction_confidence = c.confidence
           /\ NormalizeCandidate(c).confidence \in Int
           /\ NormalizeCandidate(c).status \in Direct \cup {"UNIT_MISSING"} \cup Excluded
<1>1. /\ NumberOutcome(Definition[c.attribute], c.raw_value, c.raw_unit).confidence \in Int
      /\ NumberOutcome(Definition[c.attribute], c.raw_value, c.raw_unit).status
            \in Direct \cup {"UNIT_MISSING"} \cup Excluded
  BY DEF NumberOutcome, Outcome, Invalid, Direct, Excluded
<1> QED
  BY <1>1 DEF NormalizeCandidate, Outcome, Invalid, Direct, Excluded

\* The candidates that are compared are those of the lines that name an attribute.
LEMMA CandidatesOfLines ==
    ASSUME DerivedResults, phase \in {"compared", "selected", "materialized", "score_failed"}
    PROVE  /\ IsFiniteSet(DOMAIN normalized) /\ DOMAIN normalized \subseteq Int
           /\ \A i \in DOMAIN normalized : \E x \in ToSet(evidence) :
                 /\ x \in EvidenceItem /\ Match(x).attribute # None
                 /\ normalized[i] = NormalizeCandidate(CandidateOf(x))
           /\ \A x \in ToSet(evidence) : Match(x).attribute # None =>
                 \E i \in DOMAIN normalized : normalized[i] = NormalizeCandidate(CandidateOf(x))
<1>1. PICK lines, all : lines = ToSet(evidence) /\ all = CandidatesOf(lines)
  OBVIOUS
<1>2. /\ evidence \in Seq(EvidenceItem) /\ IsInjective(evidence) /\ Apart(ToSet(evidence))
      /\ extraction = extract(evidence) /\ extraction.error = None
      /\ normalized = normalize(extraction.found)
  BY EvidenceLines, Derived
<1>3. /\ lines \in SUBSET EvidenceItem /\ IsFiniteSet(lines) /\ Apart(lines)
      /\ extraction.found = SortedOf(all)
  BY <1>1, <1>2, ExtractOfTheSet
<1>4. /\ Cardinality(all) \in Nat
      /\ \A n \in 1 .. Cardinality(all) : SortedOf(all)[n] \in all
      /\ \A c \in all : \E n \in 1 .. Cardinality(all) : SortedOf(all)[n] = c
  <2>1. all = CandidatesOf(lines)
    BY <1>1
  <2>2. lines \in SUBSET EvidenceItem
    BY <1>3
  <2>3. IsFiniteSet(lines)
    BY <1>3
  <2>4. Apart(lines)
    BY <1>3
  <2> QED
    BY <2>1, <2>2, <2>3, <2>4, SortedMembers
<1>5. DOMAIN SortedOf(all) = 1 .. Cardinality(all)
  BY DEF SortedOf
<1>6. /\ DOMAIN normalized = 1 .. Cardinality(all)
      /\ \A i \in 1 .. Cardinality(all) : normalized[i] = NormalizeCandidate(SortedOf(all)[i])
  BY <1>2, <1>3, <1>5 DEF normalize
<1>7. IsFiniteSet(DOMAIN normalized) /\ DOMAIN normalized \subseteq Int
  <2>1. PICK size \in Nat : size = Cardinality(all)
    BY <1>4
  <2>2. IsFiniteSet(1 .. size)
    BY <2>1, FS_Interval
  <2>3. DOMAIN normalized = 1 .. size
    BY <1>6, <2>1
  <2> QED
    BY <2>2, <2>3
<1>8. ASSUME NEW i \in DOMAIN normalized
      PROVE  \E x \in ToSet(evidence) :
                 /\ x \in EvidenceItem /\ Match(x).attribute # None
                 /\ normalized[i] = NormalizeCandidate(CandidateOf(x))
  <2>1. SortedOf(all)[i] \in all /\ normalized[i] = NormalizeCandidate(SortedOf(all)[i])
    BY <1>4, <1>6
  <2>2. PICK x \in lines : Match(x).attribute # None /\ SortedOf(all)[i] = CandidateOf(x)
    BY <1>1, <2>1 DEF CandidatesOf
  <2> QED
    BY <1>1, <1>3, <2>1, <2>2
<1>9. ASSUME NEW x \in ToSet(evidence), Match(x).attribute # None
      PROVE  \E i \in DOMAIN normalized : normalized[i] = NormalizeCandidate(CandidateOf(x))
  <2>1. CandidateOf(x) \in all
    BY <1>1, <1>9 DEF CandidatesOf
  <2>2. PICK i \in 1 .. Cardinality(all) : SortedOf(all)[i] = CandidateOf(x)
    BY <1>4, <2>1
  <2> QED
    BY <1>6, <2>2
<1> QED
  BY <1>7, <1>8, <1>9

\* In every state in which the conflicts have been detected, an agreement holds
\* between any two candidates that were compared.
THEOREM AgreementHoldsMutually == Spec => []AgreementIsMutual
<1>1. DerivedResults => AgreementIsMutual
  <2> SUFFICES ASSUME DerivedResults, phase = "compared",
                      NEW attribute \in DOMAIN consensus,
                      consensus[attribute].status \in Agreement,
                      NEW i \in consensus[attribute].comparable,
                      NEW j \in consensus[attribute].comparable, i # j
               PROVE  CompareAll(normalized, attribute, {i, j}).status \in Agreement
    BY DEF AgreementIsMutual, Agreement
  <2> DEFINE assessed == AssessConsensus(normalized, attribute)
             ids == assessed.comparable
  <2>1. consensus[attribute] = assessed
    BY Derived DEF detect
  <2>2. CompareAll(normalized, attribute, ids).status \in Agreement
    BY <2>1, AgreementIsCompared
  <2>3. IsFiniteSet(ids)
    <3>1. ids \subseteq DOMAIN normalized
      BY ComparableAreCandidates
    <3> QED
      BY <3>1, CandidatesOfLines, FS_Subset
  <2>4. i \in ids /\ j \in ids
    BY <2>1
  <2> QED
    <3> HIDE DEF ids
    <3> QED
      BY <2>2, <2>3, <2>4, AgreementIsPairwise
<1> QED
  BY <1>1, ResultsAreDerived, PTL

\* Whatever the selection says of an attribute, it shows every candidate of it.
LEMMA SelectionIsExhaustive ==
    ASSUME NEW candidates, NEW attribute \in AttributeSet, NEW validity,
           NEW agreed, agreed = detect(candidates),
           NEW present, present = evaluate(agreed),
           NEW chosen, chosen = SelectAttribute(candidates, validity, agreed, present, attribute),
           NEW i \in Of(candidates, attribute)
    PROVE  i \in chosen.supporting \cup chosen.review
<1> DEFINE verdict == AssessConsensus(candidates, attribute)
           ids == Of(candidates, attribute)
<1>1. attribute \in DOMAIN agreed /\ agreed[attribute] = verdict
  BY DEF detect, Of
<1>2. verdict.candidates = ids
  BY DEF AssessConsensus
<1>3. present[attribute] = StateByConsensus[verdict.status]
  BY <1>1 DEF evaluate
<1>4. verdict.status \in Statuses
  BY ConsensusStatus
<1> HIDE DEF verdict, ids
<1>5. present[attribute] # "MISSING"
  BY <1>3, <1>4 DEF StateByConsensus, Statuses
<1>6. CASE present[attribute] = "INVALID_ONLY"
  <2>1. chosen.review = ids
    BY <1>1, <1>2, <1>6 DEF SelectAttribute, Unresolved, Proposal
  <2> QED
    BY <2>1 DEF ids
<1>7. CASE present[attribute] # "INVALID_ONLY"
  <2>1. chosen = SelectAmong(candidates, validity, verdict)
    BY <1>1, <1>5, <1>7 DEF SelectAttribute
  <2>2. \/ chosen.review = ids
        \/ ~ HasNonValid(validity, ids) /\ chosen.supporting = Eligible(validity, ids)
    BY <1>2, <2>1 DEF SelectAmong, Unresolved, Review, Proposal
  <2>3. ~ HasNonValid(validity, ids) => Eligible(validity, ids) = ids
    BY DEF HasNonValid, Eligible
  <2> QED
    BY <2>2, <2>3 DEF ids
<1> QED
  BY <1>6, <1>7

\* The candidate of a line, by its number.
LEMMA CandidateOfLine ==
    ASSUME DerivedResults, phase = "selected", NEW attribute \in AttributeSet,
           NEW i \in Naming(attribute)
    PROVE  \E c \in Of(normalized, attribute) : FromLine(normalized[c], evidence[i])
<1>1. /\ evidence[i] \in ToSet(evidence) /\ evidence[i] \in EvidenceItem
      /\ Match(evidence[i]).attribute = attribute /\ attribute # None
  BY EvidenceLines, SchemaAssumption DEF Naming, ToSet
<1>2. PICK c \in DOMAIN normalized : normalized[c] = NormalizeCandidate(CandidateOf(evidence[i]))
  BY <1>1, CandidatesOfLines
<1>3. /\ normalized[c].attribute = attribute
      /\ FromLine(normalized[c], evidence[i])
  BY <1>1, <1>2, CandidateFields, NormalizedFields DEF FromLine
<1> QED
  BY <1>3 DEF Of

\* Every line that names an attribute reaches the reviewer as a candidate of
\* it: no engine on the way drops one, whatever it finds wrong with it.
THEOREM EvidenceReachesTheReview == Spec => []NoEvidenceIsLost
<1>1. DerivedResults => NoEvidenceIsLost
  <2> SUFFICES ASSUME DerivedResults, phase = "selected",
                      NEW attribute \in AttributeSet, NEW i \in Naming(attribute)
               PROVE  \E c \in selection[attribute].supporting \cup selection[attribute].review :
                          /\ normalized[c].attribute = attribute
                          /\ FromLine(normalized[c], evidence[i])
    BY DEF NoEvidenceIsLost
  <2>1. PICK c \in Of(normalized, attribute) : FromLine(normalized[c], evidence[i])
    BY CandidateOfLine
  <2>2. selection[attribute]
          = SelectAttribute(normalized, validation, consensus, states, attribute)
    BY Derived DEF select
  <2>3. c \in selection[attribute].supporting \cup selection[attribute].review
    BY <2>2, Derived, SelectionIsExhaustive
  <2> QED
    BY <2>1, <2>3 DEF Of
<1> QED
  BY <1>1, ResultsAreDerived, PTL

(* ------------------- what was selected is uncontested ------------------ *)

\* Among finitely many candidates there is one that ranks before all others.
LEMMA PrimaryExists ==
    ASSUME NEW candidates, NEW ids, IsFiniteSet(ids), ids # {},
           \A i \in ids : /\ i \in Int /\ candidates[i].confidence \in Int
                          /\ candidates[i].extraction_confidence \in Int
    PROVE  Primary(candidates, ids) \in ids
<1>1. PICK before : before = [i \in ids |-> {j \in ids : j # i /\ RanksBefore(candidates, j, i)}]
  OBVIOUS
<1>2. \A i \in ids : \A j : j \in before[i] <=> j \in ids /\ j # i /\ RanksBefore(candidates, j, i)
  BY <1>1
<1>3. \A i, j \in ids : RanksBefore(candidates, i, j) \/ RanksBefore(candidates, j, i)
  BY DEF RanksBefore
<1>4. \A i, j \in ids : RanksBefore(candidates, i, j) /\ RanksBefore(candidates, j, i) => i = j
  BY DEF RanksBefore
<1>5. \A i, j, k \in ids : RanksBefore(candidates, i, j) /\ RanksBefore(candidates, j, k)
                              => RanksBefore(candidates, i, k)
  BY DEF RanksBefore
<1>6. \A n \in 1 .. Cardinality(ids) : \E x \in ids : Cardinality(before[x]) = n - 1
  <2>1. \A x \in ids : before[x] \in SUBSET ids /\ x \notin before[x]
    BY <1>2
  <2>2. \A x, y \in ids : y \in before[x] => before[y] \in SUBSET before[x]
    BY <1>2, <1>4, <1>5
  <2>3. \A x, y \in ids : x # y => x \in before[y] \/ y \in before[x]
    BY <1>2, <1>3
  <2>4. IsFiniteSet(ids)
    OBVIOUS
  <2> QED
    BY ONLY <2>1, <2>2, <2>3, <2>4, RanksAreDistinct, Zenon
<1>7. 1 \in 1 .. Cardinality(ids)
  <2>1. Cardinality(ids) \in Nat /\ Cardinality(ids) # 0
    BY FS_CardinalityType, FS_EmptySet
  <2> QED
    BY <2>1
<1>8. PICK first \in ids : Cardinality(before[first]) = 0
  <2>1. 1 - 1 = 0
    OBVIOUS
  <2> QED
    BY <1>6, <1>7, <2>1
<1>9. before[first] = {}
  <2>1. before[first] \in SUBSET ids
    BY <1>2
  <2>2. IsFiniteSet(before[first])
    BY <2>1, FS_Subset
  <2> QED
    BY <1>8, <2>2, FS_EmptySet
<1>10. \A j \in ids : RanksBefore(candidates, first, j)
  BY <1>2, <1>3, <1>9
<1> QED
  BY <1>10 DEF Primary

\* The proposal is the first of all the candidates, which have one unit.
LEMMA AutoSelectedPrimary ==
    ASSUME NEW candidates, NEW attribute \in AttributeSet, NEW validity,
           NEW agreed, agreed = detect(candidates),
           NEW present, present = evaluate(agreed),
           NEW chosen, chosen = SelectAttribute(candidates, validity, agreed, present, attribute),
           chosen.status = "AUTO_SELECTED",
           IsFiniteSet(Of(candidates, attribute))
    PROVE  /\ chosen.primary = Primary(candidates, Of(candidates, attribute))
           /\ Of(candidates, attribute) # {}
           /\ \A i, j \in Of(candidates, attribute) : candidates[i].unit = candidates[j].unit
<1> DEFINE ids == Of(candidates, attribute)
           verdict == agreed[attribute]
<1>1. /\ attribute \in DOMAIN agreed
      /\ \A i \in ids : validity[i] = "VALID"
  BY AutoSelection
<1>2. verdict.candidates = ids
  BY <1>1 DEF detect, AssessConsensus
<1>3. present[attribute] \notin {"MISSING", "INVALID_ONLY"}
  BY DEF SelectAttribute, Unresolved, Proposal
<1> HIDE DEF ids, verdict
<1>4. chosen = SelectAmong(candidates, validity, verdict)
  BY <1>3 DEF SelectAttribute, verdict
<1>5. Eligible(validity, ids) = ids
  BY <1>1 DEF Eligible
<1>6. /\ chosen.primary = Primary(candidates, Eligible(validity, ids))
      /\ Eligible(validity, ids) # {}
      /\ Cardinality({candidates[i].unit : i \in Eligible(validity, ids)}) = 1
  BY <1>2, <1>4 DEF SelectAmong, Unresolved, Review, Proposal
<1>7. ASSUME NEW i \in ids, NEW j \in ids
      PROVE  candidates[i].unit = candidates[j].unit
  <2> DEFINE unit == [k \in ids |-> candidates[k].unit]
             units == {unit[k] : k \in ids}
  <2>1. units = {candidates[k].unit : k \in Eligible(validity, ids)}
    BY <1>5
  <2>2. unit[i] \in units /\ unit[j] \in units
    OBVIOUS
  <2>3. IsFiniteSet(units)
    <3> HIDE DEF unit
    <3> QED
      BY FiniteImage DEF ids
  <2>4. Cardinality(units) = 1
    BY <1>6, <2>1
  <2>5. unit[i] = unit[j]
    <3> HIDE DEF units, unit
    <3> QED
      BY <2>2, <2>3, <2>4, OneElement
  <2> QED
    BY <2>5
<1> QED
  BY <1>5, <1>6, <1>7 DEF ids

\* The candidates of an attribute are ranked by numbers.
LEMMA RankedCandidates ==
    ASSUME DerivedResults, phase \in {"selected", "materialized", "score_failed"}, NEW attribute
    PROVE  /\ IsFiniteSet(Of(normalized, attribute))
           /\ \A i \in Of(normalized, attribute) :
                 /\ i \in Int /\ normalized[i].confidence \in Int
                 /\ normalized[i].extraction_confidence \in Int
<1>1. Of(normalized, attribute) \in SUBSET DOMAIN normalized
  BY DEF Of
<1>2. IsFiniteSet(DOMAIN normalized) /\ DOMAIN normalized \subseteq Int
  BY CandidatesOfLines
<1>3. ASSUME NEW i \in DOMAIN normalized
      PROVE  normalized[i].confidence \in Int /\ normalized[i].extraction_confidence \in Int
  <2>1. PICK x : /\ x \in EvidenceItem /\ Match(x).attribute # None
                 /\ normalized[i] = NormalizeCandidate(CandidateOf(x))
    BY CandidatesOfLines
  <2> QED
    BY <2>1, CandidateFields, NormalizedFields
<1>4. IsFiniteSet(Of(normalized, attribute))
  BY <1>1, <1>2, FS_Subset
<1> QED
  BY <1>1, <1>2, <1>3, <1>4

\* What is selected for the reviewer is contradicted by no line of the sources:
\* each line that names the attribute stands behind the proposal, with a value
\* the schema admits and the proposed unit.
THEOREM AutoSelectionIsUncontested == Spec => []AutoSelectedIsUncontested
<1>1. DerivedResults => AutoSelectedIsUncontested
  <2> SUFFICES ASSUME DerivedResults, phase = "selected", NEW attribute \in AttributeSet,
                      selection[attribute].status = "AUTO_SELECTED",
                      NEW i \in Naming(attribute)
               PROVE  \E c \in selection[attribute].supporting :
                          /\ FromLine(normalized[c], evidence[i])
                          /\ normalized[c].unit = normalized[selection[attribute].primary].unit
                          /\ ~ BreaksRules(Definition[attribute], normalized[c].value)
    BY DEF AutoSelectedIsUncontested
  <2> DEFINE ids == Of(normalized, attribute)
  <2>1. selection[attribute]
          = SelectAttribute(normalized, validation, consensus, states, attribute)
    BY Derived DEF select
  <2>2. /\ \A c \in ids : validation[c] = "VALID"
        /\ selection[attribute].supporting = ids
    BY <2>1, Derived, AutoSelection
  <2>3. /\ selection[attribute].primary = Primary(normalized, ids)
        /\ ids # {}
        /\ \A c, d \in ids : normalized[c].unit = normalized[d].unit
    BY <2>1, Derived, RankedCandidates, AutoSelectedPrimary
  <2>4. Primary(normalized, ids) \in ids
    <3>1. IsFiniteSet(ids)
      BY RankedCandidates
    <3>2. \A c \in ids : /\ c \in Int /\ normalized[c].confidence \in Int
                         /\ normalized[c].extraction_confidence \in Int
      BY RankedCandidates
    <3> HIDE DEF ids
    <3> QED
      BY <2>3, <3>1, <3>2, PrimaryExists
  <2>5. PICK c \in ids : FromLine(normalized[c], evidence[i])
    BY CandidateOfLine
  <2>6. normalized[c].unit = normalized[Primary(normalized, ids)].unit
    BY <2>3, <2>4
  <2>7. ~ BreaksRules(Definition[attribute], normalized[c].value)
    <3>1. c \in DOMAIN normalized /\ normalized[c].attribute = attribute
      BY DEF Of
    <3>2. validation[c] = ValidationStatus(normalized[c])
      BY <3>1, Derived DEF validate
    <3> QED
      BY <2>2, <3>1, <3>2 DEF ValidationStatus
  <2> QED
    BY <2>2, <2>3, <2>5, <2>6, <2>7
<1> QED
  BY <1>1, ResultsAreDerived, PTL

\* What is called ready for approval is complete: the completeness engine says
\* so too, and every required attribute stands in as many sources as are asked.
THEOREM ReadinessIsCorroborated ==
    ASSUME RequiredAttributes # {}
    PROVE  Spec => []ReadyMeansComplete
<1>1. DerivedResults /\ ReadyIsComplete => ReadyMeansComplete
  <2> SUFFICES ASSUME DerivedResults, phase = "selected",
                      overall_status(selection) = "READY_FOR_AUTO_APPROVAL",
                      NEW a \in RequiredAttributes
               PROVE  Cardinality({evidence[i].source : i \in Naming(a)}) >= MinSources
    BY DEF ReadyMeansComplete
  <2> DEFINE stated == {evidence[i].source : i \in Naming(a)}
             counted == Sources(normalized, Of(normalized, a))
  <2>1. ~ TooFewSources(normalized, Of(normalized, a))
    BY ReadyIsSelected, Derived, AutoSelection
  <2>2. IsFiniteSet(stated)
    <3> DEFINE source == [i \in Naming(a) |-> evidence[i].source]
    <3>1. IsFiniteSet(Naming(a))
      <4>1. DOMAIN evidence = 1 .. Len(evidence) /\ Len(evidence) \in Nat
        BY EvidenceLines
      <4>2. IsFiniteSet(1 .. Len(evidence))
        BY <4>1, FS_Interval
      <4>3. Naming(a) \in SUBSET DOMAIN evidence
        BY DEF Naming
      <4> QED
        BY <4>1, <4>2, <4>3, FS_Subset
    <3>2. stated = {source[i] : i \in Naming(a)}
      OBVIOUS
    <3> HIDE DEF source
    <3> QED
      BY <3>1, <3>2, FiniteImage
  <2>3. counted \in SUBSET stated
    <3> SUFFICES ASSUME NEW c \in Of(normalized, a)
                 PROVE  normalized[c].source \in stated
      BY DEF Sources
    <3>1. c \in DOMAIN normalized /\ normalized[c].attribute = a
      BY DEF Of
    <3>2. PICK x \in ToSet(evidence) : /\ x \in EvidenceItem /\ Match(x).attribute # None
                                       /\ normalized[c] = NormalizeCandidate(CandidateOf(x))
      BY <3>1, CandidatesOfLines
    <3>3. Match(x).attribute = a /\ normalized[c].source = x.source
      BY <3>1, <3>2, CandidateFields, NormalizedFields
    <3>4. PICK i \in DOMAIN evidence : x = evidence[i]
      BY <3>2 DEF ToSet
    <3> QED
      BY <3>3, <3>4 DEF Naming
  <2>4. Cardinality(counted) >= MinSources /\ Cardinality(counted) \in Nat /\ MinSources \in Nat
    <3>1. IsFiniteSet(counted)
      <4> HIDE DEF counted, stated
      <4> QED
        BY <2>2, <2>3, FS_Subset
    <3>2. Cardinality(counted) \in Nat
      <4> HIDE DEF counted
      <4> QED
        BY <3>1, FS_CardinalityType
    <3> QED
      BY <2>1, <3>2, SelectionAssumption DEF TooFewSources
  <2> HIDE DEF counted, stated
  <2>5. Cardinality(counted) <= Cardinality(stated) /\ Cardinality(stated) \in Nat
    BY <2>2, <2>3, FS_Subset, FS_CardinalityType
  <2>6. Cardinality(stated) >= MinSources
    BY <2>4, <2>5
  <2> QED
    BY <2>6 DEF stated
<1> QED
  BY <1>1, ResultsAreDerived, ReadinessIsCompleteness, PTL

(* -------------------------- the reviewed values ------------------------ *)

\* The attribute's final value is that of a candidate, which is valid if it was
\* the proposal and at least approvable.
FromCandidate(a) ==
    /\ ~ IsOverride(final[a])
    /\ \E c \in Of(normalized, a) :
          /\ final[a].candidate = c /\ validation[c] \in Approvable
          /\ final[a].value = normalized[c].value /\ final[a].unit = normalized[c].unit
          /\ \/ validation[c] = "VALID"
             \/ final[a].origin = "APPROVED_CANDIDATE"

\* The attribute's final value is what was made of a text that a reviewer typed.
FromReviewer(a) ==
    /\ IsOverride(final[a])
    /\ \E t \in Typed :
          LET outcome == Override(a, t.raw, t.unit)
          IN  /\ t.attribute = a /\ outcome.accepted
              /\ final[a].value = outcome.value /\ final[a].unit = outcome.unit

\* The proposal, when there is one, is a valid candidate of the attribute.
LEMMA ProposalIsValid ==
    ASSUME DerivedResults, phase \in {"selected", "materialized", "score_failed"},
           NEW a \in AttributeSet, selection[a].primary # None
    PROVE  /\ selection[a].primary \in Of(normalized, a)
           /\ validation[selection[a].primary] = "VALID"
<1> DEFINE ids == Of(normalized, a)
<1>1. selection[a] = SelectAttribute(normalized, validation, consensus, states, a)
  BY Derived DEF select
<1>2. selection[a].status = "AUTO_SELECTED"
  BY <1>1 DEF SelectAttribute, SelectAmong, Unresolved, Review, Proposal
<1>3. \A c \in ids : validation[c] = "VALID"
  BY <1>1, <1>2, Derived, AutoSelection
<1>4. selection[a].primary = Primary(normalized, ids) /\ ids # {}
  BY <1>1, <1>2, Derived, RankedCandidates, AutoSelectedPrimary
<1>5. Primary(normalized, ids) \in ids
  <2>1. IsFiniteSet(ids)
    BY RankedCandidates
  <2>2. \A c \in ids : /\ c \in Int /\ normalized[c].confidence \in Int
                       /\ normalized[c].extraction_confidence \in Int
    BY RankedCandidates
  <2> HIDE DEF ids
  <2> QED
    BY <1>4, <2>1, <2>2, PrimaryExists
<1> QED
  BY <1>3, <1>4, <1>5

\* What is shown of an attribute are candidates of it.
LEMMA ShownAreCandidates ==
    ASSUME DerivedResults, phase \in {"selected", "materialized", "score_failed"},
           NEW a \in AttributeSet
    PROVE  selection[a].supporting \cup selection[a].review \subseteq Of(normalized, a)
<1>1. selection[a] = SelectAttribute(normalized, validation, consensus, states, a)
  BY Derived DEF select
<1>2. a \in DOMAIN consensus => consensus[a].candidates = Of(normalized, a)
  <2>1. a \in DOMAIN consensus => consensus[a] = AssessConsensus(normalized, a)
    BY Derived DEF detect
  <2>2. AssessConsensus(normalized, a).candidates = Of(normalized, a)
    BY DEF AssessConsensus
  <2> QED
    BY <2>1, <2>2
<1>3. states[a] # "MISSING" => a \in DOMAIN consensus
  BY Derived DEF evaluate
<1>4. CASE states[a] = "MISSING"
  BY <1>1, <1>4 DEF SelectAttribute, Unresolved, Proposal
<1>5. CASE states[a] = "INVALID_ONLY"
  BY <1>1, <1>2, <1>3, <1>5 DEF SelectAttribute, Unresolved, Proposal
<1>6. CASE states[a] \notin {"MISSING", "INVALID_ONLY"}
  <2>1. selection[a] = SelectAmong(normalized, validation, consensus[a])
    BY <1>1, <1>6 DEF SelectAttribute
  <2> QED
    BY <1>2, <1>3, <1>6, <2>1 DEF SelectAmong, Eligible, Unresolved, Review, Proposal
<1> QED
  BY <1>4, <1>5, <1>6

\* A final value is one or the other.
LEMMA FinalValues ==
    ASSUME DerivedResults, phase \in {"materialized", "score_failed"}, NEW a \in DOMAIN final
    PROVE  a \in AttributeSet /\ (FromCandidate(a) \/ FromReviewer(a))
<1>1. /\ final = [b \in Decided |->
                     [ origin |-> Origin[decisions[b].type], candidate |-> decisions[b].candidate,
                       value |-> decisions[b].value, unit |-> decisions[b].unit ]]
      /\ \A b \in AttributeSet : decisions[b] \in Accepted(b)
  BY DEF DerivedResults, ReviewFollows, FromReviewed
<1>2. /\ a \in AttributeSet /\ decisions[a].type \in Resolving /\ decisions[a] \in Accepted(a)
      /\ final[a].origin = Origin[decisions[a].type] /\ final[a].candidate = decisions[a].candidate
      /\ final[a].value = decisions[a].value /\ final[a].unit = decisions[a].unit
  BY <1>1 DEF Decided
<1>3. CASE selection[a].primary # None
           /\ decisions[a] = Approval("APPROVE_PROPOSED", selection[a].primary)
  <2>1. /\ selection[a].primary \in Of(normalized, a)
        /\ validation[selection[a].primary] = "VALID"
    BY <1>2, <1>3, ProposalIsValid
  <2>2. final[a].origin = "APPROVED_PROPOSED"
    BY <1>2, <1>3 DEF Approval, Decision, Origin
  <2>3. FromCandidate(a)
    BY <1>2, <1>3, <2>1, <2>2 DEF FromCandidate, IsOverride, Approvable, Approval, Decision
  <2> QED
    BY <1>2, <2>3
<1>4. ASSUME NEW i \in Offered(a), decisions[a] = Approval("APPROVE_CANDIDATE", i)
      PROVE  FromCandidate(a)
  <2>1. i \in Of(normalized, a) /\ validation[i] \in Approvable
    BY <1>2, ShownAreCandidates DEF Offered
  <2>2. final[a].origin = "APPROVED_CANDIDATE"
    BY <1>2, <1>4 DEF Approval, Decision, Origin
  <2> QED
    BY <1>2, <1>4, <2>1, <2>2 DEF FromCandidate, IsOverride, Approval, Decision
<1>5. ASSUME NEW t \in Typed, t.attribute = a, Override(a, t.raw, t.unit).accepted,
             decisions[a] = Decision("MANUAL_OVERRIDE", None, Override(a, t.raw, t.unit).value,
                                     Override(a, t.raw, t.unit).unit)
      PROVE  FromReviewer(a)
  <2>1. final[a].origin = "HUMAN_OVERRIDE"
    BY <1>2, <1>5 DEF Decision, Origin
  <2>2. /\ final[a].value = Override(a, t.raw, t.unit).value
        /\ final[a].unit = Override(a, t.raw, t.unit).unit
    BY <1>2, <1>5 DEF Decision
  <2> QED
    BY <1>5, <2>1, <2>2 DEF FromReviewer, IsOverride
<1>6. decisions[a] # Decision("REJECT_ALL", None, None, None)
  BY <1>2 DEF Decision, Resolving
<1>7. \/ selection[a].primary # None
         /\ decisions[a] = Approval("APPROVE_PROPOSED", selection[a].primary)
      \/ \E i \in Offered(a) : decisions[a] = Approval("APPROVE_CANDIDATE", i)
      \/ \E t \in Typed :
            /\ t.attribute = a /\ Override(a, t.raw, t.unit).accepted
            /\ decisions[a] = Decision("MANUAL_OVERRIDE", None, Override(a, t.raw, t.unit).value,
                                       Override(a, t.raw, t.unit).unit)
  BY <1>2, <1>6 DEF Accepted
<1> QED
  BY <1>2, <1>3, <1>4, <1>5, <1>7

\* What the validation engine vouches for: the schema's rules, and its units
\* unless there is none.
LEMMA ApprovableObeysTheSchema ==
    ASSUME DerivedResults, phase \in {"materialized", "score_failed"},
           NEW a \in AttributeSet, NEW c \in Of(normalized, a), validation[c] \in Approvable
    PROVE  /\ ~ BreaksRules(Definition[a], normalized[c].value)
           /\ normalized[c].status \in Direct \cup {"UNIT_MISSING"}
           /\ \/ /\ validation[c] = "VALID"
                 /\ Definition[a].allowed_units # {} =>
                       normalized[c].unit \in Definition[a].allowed_units
              \/ validation[c] = "VALID_WITH_WARNINGS" /\ normalized[c].unit = None
<1>1. c \in DOMAIN normalized /\ normalized[c].attribute = a
  BY DEF Of
<1>2. validation[c] = ValidationStatus(normalized[c])
  BY <1>1, Derived DEF validate
<1>3. PICK x : normalized[c] = NormalizeCandidate(x)
  BY <1>1, CandidatesOfLines
<1>4. normalized[c].status \in Direct \cup {"UNIT_MISSING"} \cup Excluded
  BY <1>3, NormalizedFields
<1>5. normalized[c].status = "UNIT_MISSING" => normalized[c].unit = None
  <2>1. LET outcome == NumberOutcome(Definition[x.attribute], x.raw_value, x.raw_unit)
        IN  outcome.status = "UNIT_MISSING" => outcome.unit = None
    BY DEF NumberOutcome, Outcome, Invalid
  <2> QED
    BY <1>3, <2>1 DEF NormalizeCandidate, Outcome, Invalid
<1>6. /\ normalized[c].status # "INVALID_VALUE"
      /\ ~ BreaksRules(Definition[a], normalized[c].value)
      /\ ~ BreaksUnit(Definition[a], normalized[c])
      /\ validation[c] = IF normalized[c].status = "UNIT_MISSING" THEN "VALID_WITH_WARNINGS"
                         ELSE "VALID"
  BY <1>1, <1>2 DEF ValidationStatus, Approvable
<1>7. normalized[c].status # "UNSUPPORTED_UNIT"
  BY <1>6 DEF BreaksUnit
<1>8. normalized[c].status \in Direct \cup {"UNIT_MISSING"}
  BY <1>4, <1>6, <1>7 DEF Excluded
<1>9. CASE normalized[c].status = "UNIT_MISSING"
  BY <1>5, <1>6, <1>8, <1>9
<1>10. CASE normalized[c].status \in Direct /\ normalized[c].status # "UNIT_MISSING"
  BY <1>6, <1>8, <1>10 DEF BreaksUnit
<1> QED
  BY <1>8, <1>9, <1>10

\* A conversion by a whole factor gives a number.
LEMMA ConversionType ==
    ASSUME NEW value \in Int, NEW divisor \in Nat \ {0}
    PROVE  RoundHalfUp(value, divisor) \in Int
<1>1. ASSUME NEW n \in Int, NEW m \in Nat \ {0} PROVE n \div m \in Int
  OBVIOUS
<1>2. /\ 2 * value + divisor \in Int /\ 2 * (- value) + divisor \in Int
      /\ 2 * divisor \in Nat \ {0}
  OBVIOUS
<1>3. /\ (2 * value + divisor) \div (2 * divisor) \in Int
      /\ (2 * (- value) + divisor) \div (2 * divisor) \in Int
  BY <1>1, <1>2
<1> QED
  BY <1>3 DEF RoundHalfUp

\* What an override is accepted with obeys the schema like a valid candidate:
\* the same rules, and a unit wherever the schema has units.
LEMMA OverrideObeysTheSchema ==
    ASSUME NEW t \in Typed, Override(t.attribute, t.raw, t.unit).accepted,
           NEW outcome, outcome = Override(t.attribute, t.raw, t.unit),
           NEW definition, definition = Definition[t.attribute]
    PROVE  /\ ~ BreaksRules(definition, outcome.value)
           /\ definition.allowed_units # {} => outcome.unit \in definition.allowed_units
<1> DEFINE rules == MatchingRules(definition, t.unit)
           rule == CHOOSE r \in rules : TRUE
           plain == definition.allowed_units = {}
           value == IF plain THEN t.raw.value ELSE Converted(rule, t.raw.value)
           unit == IF plain THEN None ELSE rule.canonical_unit
<1>1. /\ t.attribute \in AttributeSet /\ t.raw.value \in Int /\ t.raw.spelling \in Int
  BY PoolAssumption DEF RawValue
<1>2. CASE definition.data_type = "TEXT"
  <2>1. definition.allowed_units = {}
    BY <1>1, <1>2, SchemaAssumption
  <2>2. /\ Permitted(definition, t.raw)
        /\ outcome.value = [value |-> t.raw.value, spelling |-> t.raw.spelling]
    BY <1>2 DEF Override, Refused, Approved
  <2>3. outcome.value # None
    BY <1>1, <2>2, ValueAssumption
  <2>4. Permitted(definition, outcome.value)
    BY <2>2 DEF Permitted
  <2> QED
    BY <1>2, <2>1, <2>3, <2>4 DEF BreaksRules
<1>3. CASE definition.data_type # "TEXT"
  <2>1. /\ IF plain THEN TRUE ELSE rules # {}
        /\ RulesAdmit(definition, value)
        /\ outcome = Approved(Canonical(value), unit)
    BY <1>3 DEF Override, Refused, Approved
  <2>2. ~ plain => rule \in rules
    BY <2>1
  <2>3. ~ plain => /\ rule \in UnitRules /\ rule.dimension = definition.dimension
                   /\ rule.source_unit \in definition.allowed_units
    BY <2>2 DEF MatchingRules
  <2> HIDE DEF rule, plain, rules
  <2>4. ~ plain => rule.divisor \in Nat \ {0} /\ rule.canonical_unit \in definition.allowed_units
    BY <1>1, <2>3, UnitAssumption
  <2>5. value \in Int
    BY <1>1, <2>4, ConversionType DEF Converted
  <2> HIDE DEF value
  <2>6. outcome.value = [value |-> value, spelling |-> 0] /\ outcome.unit = unit
    BY <2>1 DEF Approved, Canonical
  <2>7. outcome.value # None
    BY <2>5, <2>6, ValueAssumption
  <2>8. Permitted(definition, outcome.value) /\ InRange(definition, outcome.value.value)
    BY <2>1, <2>6 DEF RulesAdmit, Canonical
  <2>9. definition.allowed_units # {} => outcome.unit \in definition.allowed_units
    BY <2>4, <2>6 DEF plain
  <2> QED
    BY <2>7, <2>8, <2>9 DEF BreaksRules
<1> QED
  BY <1>2, <1>3

\* Whatever is materialized obeys the rules and the units of the schema, from
\* a source or from a reviewer, but for a candidate without a unit that the
\* reviewer approved in spite of the warning.
THEOREM MaterializedValuesObeyTheSchema == Spec => []FinalValuesObeyTheSchema
<1>1. DerivedResults => FinalValuesObeyTheSchema
  <2> SUFFICES ASSUME DerivedResults, phase = "materialized", NEW a \in DOMAIN final
               PROVE  /\ ~ BreaksRules(Definition[a], final[a].value)
                      /\ Definition[a].allowed_units # {} =>
                            \/ final[a].unit \in Definition[a].allowed_units
                            \/ /\ final[a].unit = None
                               /\ final[a].origin = "APPROVED_CANDIDATE"
                               /\ validation[final[a].candidate] = "VALID_WITH_WARNINGS"
    BY DEF FinalValuesObeyTheSchema
  <2>1. a \in AttributeSet /\ (FromCandidate(a) \/ FromReviewer(a))
    BY FinalValues
  <2>2. CASE FromCandidate(a)
    <3>1. PICK c \in Of(normalized, a) :
              /\ final[a].candidate = c /\ validation[c] \in Approvable
              /\ final[a].value = normalized[c].value /\ final[a].unit = normalized[c].unit
              /\ validation[c] = "VALID" \/ final[a].origin = "APPROVED_CANDIDATE"
      BY <2>2 DEF FromCandidate
    <3>2. /\ ~ BreaksRules(Definition[a], normalized[c].value)
          /\ \/ /\ validation[c] = "VALID"
                /\ Definition[a].allowed_units # {} =>
                      normalized[c].unit \in Definition[a].allowed_units
             \/ validation[c] = "VALID_WITH_WARNINGS" /\ normalized[c].unit = None
      BY <2>1, <3>1, ApprovableObeysTheSchema
    <3> QED
      BY <3>1, <3>2
  <2>3. CASE FromReviewer(a)
    <3>1. PICK t \in Typed : /\ t.attribute = a /\ Override(a, t.raw, t.unit).accepted
                             /\ final[a].value = Override(a, t.raw, t.unit).value
                             /\ final[a].unit = Override(a, t.raw, t.unit).unit
      BY <2>3 DEF FromReviewer
    <3> QED
      BY <3>1, OverrideObeysTheSchema
  <2> QED
    BY <2>1, <2>2, <2>3
<1> QED
  BY <1>1, ResultsAreDerived, PTL

(* --------------------------- the refused score ------------------------- *)

\* A consensus that has something to compare is not without valid candidates.
LEMMA ApprovableIsComparable ==
    ASSUME NEW candidates, NEW attribute, NEW i \in Of(candidates, attribute),
           candidates[i].status \in Direct \cup {"UNIT_MISSING"}
    PROVE  AssessConsensus(candidates, attribute).status # "NO_VALID_CANDIDATES"
<1> DEFINE ids == Of(candidates, attribute)
           direct == WithStatus(candidates, ids, Direct)
           missing == WithStatus(candidates, ids, {"UNIT_MISSING"})
<1>1. direct # {} \/ missing # {}
  BY DEF WithStatus
<1>2. \A s : s # {} => CompareAll(candidates, attribute, s).status # "NO_VALID_CANDIDATES"
  BY DEF CompareAll, TextVerdict, NumberVerdict, Verdict
<1>3. AssessConsensus(candidates, attribute).status
        = IF direct # {} /\ missing # {} THEN "INDETERMINATE"
          ELSE CompareAll(candidates, attribute,
                          IF direct # {} THEN direct ELSE missing).status
  BY DEF AssessConsensus, Verdict
<1> HIDE DEF direct, missing
<1> QED
  BY <1>1, <1>2, <1>3

\* The score engine refuses no product for what its sources say: there is at
\* least one value that a reviewer typed.  A schema without a required attribute
\* is refused when the reviewer has rejected everything.
THEOREM RefusalsAreOverrides ==
    ASSUME RequiredAttributes # {}
    PROVE  Spec => []OnlyOverridesAreRefused
<1>1. DerivedResults => OnlyOverridesAreRefused
  <2> SUFFICES ASSUME DerivedResults, phase = "score_failed",
                      \A a \in DOMAIN final : ~ IsOverride(final[a])
               PROVE  FALSE
    BY DEF OnlyOverridesAreRefused
  <2>1. ASSUME NEW a \in DOMAIN final
        PROVE  /\ validation[final[a].candidate] \in Approvable
               /\ a \in DOMAIN consensus /\ consensus[a].status # "NO_VALID_CANDIDATES"
    <3>1. a \in AttributeSet /\ FromCandidate(a)
      BY FinalValues DEF FromReviewer
    <3>2. PICK c \in Of(normalized, a) : final[a].candidate = c /\ validation[c] \in Approvable
      BY <3>1 DEF FromCandidate
    <3>3. normalized[c].status \in Direct \cup {"UNIT_MISSING"}
      BY <3>1, <3>2, ApprovableObeysTheSchema
    <3>4. AssessConsensus(normalized, a).status # "NO_VALID_CANDIDATES"
      BY <3>2, <3>3, ApprovableIsComparable
    <3>5. a \in DOMAIN consensus /\ consensus[a] = AssessConsensus(normalized, a)
      BY <3>2, Derived DEF detect, Of
    <3> QED
      BY <3>2, <3>4, <3>5
  <2>2. ScoreRefused(final, validation, consensus)
    BY DEF DerivedResults, ReviewFollows
  <2>3. ~ ValidationRefuses(final, validation) /\ ~ ConflictRefuses(final, consensus)
    BY <2>1 DEF ValidationRefuses, ConflictRefuses
  <2>4. DOMAIN final # {}
    <3>1. PICK a \in RequiredAttributes : TRUE
      OBVIOUS
    <3>2. /\ final = [b \in Decided |->
                     [ origin |-> Origin[decisions[b].type], candidate |-> decisions[b].candidate,
                       value |-> decisions[b].value, unit |-> decisions[b].unit ]]
          /\ \A b \in RequiredAttributes : decisions[b].type \in Resolving
      BY DEF DerivedResults, ReviewFollows, FromReviewed
    <3>3. a \in Decided
      BY <3>1, <3>2 DEF Decided, RequiredAttributes
    <3> QED
      BY <3>2, <3>3
  <2> QED
    BY <2>2, <2>3, <2>4 DEF ScoreRefused
<1> QED
  BY <1>1, ResultsAreDerived, PTL

(* ------------------------------- sums ---------------------------------- *)

\* g sums f over every subset of S, as the folds of the library do: element by
\* element, in the order in which CHOOSE takes them.
IsSum(g, f, S) ==
    g = [s \in SUBSET S |->
            IF s = {} THEN 0 ELSE f[CHOOSE x \in s : TRUE] + g[s \ {CHOOSE x \in s : TRUE}]]

\* What holds of a set when it holds of its proper subsets holds of every
\* subset of a finite set.
LEMMA SubsetInduction ==
    ASSUME NEW S, IsFiniteSet(S), NEW good,
           \A T \in SUBSET S : (\A U \in SUBSET T : U # T => U \in good) => T \in good
    PROVE  SUBSET S \subseteq good
<1> DEFINE bad == {T \in SUBSET S : T \notin good}
           sizes == {Cardinality(T) : T \in bad}
<1>1. \A T \in SUBSET S : IsFiniteSet(T) /\ Cardinality(T) \in Nat
  BY FS_Subset, FS_CardinalityType
<1>2. ASSUME bad # {} PROVE FALSE
  <2>1. sizes \in SUBSET Nat /\ sizes # {}
    BY <1>1, <1>2
  <2>2. PICK m \in sizes : \A n \in sizes : m <= n
    <3> HIDE DEF sizes
    <3> QED BY <2>1, LeastNatural
  <2>3. PICK T \in bad : Cardinality(T) = m
    BY <2>2
  <2>4. \A U \in SUBSET T : U # T => U \in good
    <3> TAKE U \in SUBSET T
    <3> HAVE U # T
    <3>1. Cardinality(U) <= Cardinality(T) /\ Cardinality(U) # Cardinality(T)
      BY <1>1, <2>3, FS_Subset
    <3>2. Cardinality(U) \in Nat /\ Cardinality(T) \in Nat /\ U \in SUBSET S
      BY <1>1, <2>3
    <3>3. U \notin bad
      BY <2>2, <2>3, <3>1, <3>2
    <3> QED BY <3>2, <3>3
  <2> QED BY <2>3, <2>4
<1> QED BY <1>2

\* There is such a sum.
LEMMA SumExists ==
    ASSUME NEW S, IsFiniteSet(S), NEW f
    PROVE  \E g : IsSum(g, f, S)
<1> DEFINE first(s) == CHOOSE x \in s : TRUE
           level(m) == {s \in SUBSET S : Cardinality(s) <= m}
           Step(g, s) == IF s = {} THEN 0 ELSE f[first(s)] + g[s \ {first(s)}]
           Loop(g, m) == DOMAIN g = level(m) /\ \A s \in level(m) : g[s] = Step(g, s)
           bad == {m \in Nat : ~ \E g : Loop(g, m)}
<1>1. \A s \in SUBSET S : IsFiniteSet(s) /\ Cardinality(s) \in 0 .. Cardinality(S)
  BY FS_Subset, FS_CardinalityType
<1>2. \A s \in SUBSET S : s # {} =>
          /\ s \ {first(s)} \in SUBSET S
          /\ Cardinality(s \ {first(s)}) = Cardinality(s) - 1
          /\ Cardinality(s) > 0
  <2> TAKE s \in SUBSET S
  <2> HAVE s # {}
  <2>1. first(s) \in s
    OBVIOUS
  <2> HIDE DEF first
  <2>2. Cardinality(s \ {first(s)}) = Cardinality(s) - 1
    BY <1>1, <2>1, FS_RemoveElement
  <2>3. Cardinality(s) # 0
    BY <1>1, FS_EmptySet
  <2> QED BY <1>1, <2>2, <2>3
<1> HIDE DEF first
<1>3. ASSUME bad # {} PROVE FALSE
  <2>1. PICK m \in bad : \A n \in bad : m <= n
    <3>1. bad \in SUBSET Nat
      OBVIOUS
    <3> HIDE DEF bad
    <3> QED BY <1>3, <3>1, LeastNatural
  <2>2. m \in Nat /\ ~ \E g : Loop(g, m)
    BY <2>1
  <2>3. CASE m = 0
    <3> DEFINE h == [s \in level(0) |-> 0]
    <3>1. \A s \in level(0) : s = {}
      BY <1>1, FS_EmptySet
    <3>2. Loop(h, 0)
      BY <3>1
    <3> HIDE DEF h, Loop
    <3> QED BY <2>2, <2>3, <3>2
  <2>4. CASE m # 0
    <3>1. m - 1 \in Nat /\ m - 1 \notin bad
      <4>1. m - 1 \in Nat /\ ~ (m <= m - 1)
        BY <2>2, <2>4
      <4> HIDE DEF bad
      <4> QED BY <2>1, <4>1
    <3>2. PICK g : Loop(g, m - 1)
      BY <3>1
    <3> DEFINE h == [s \in level(m) |-> Step(g, s)]
    <3>3. ASSUME NEW s \in level(m) PROVE h[s] = Step(h, s)
      <4>1. h[s] = Step(g, s)
        OBVIOUS
      <4>2. CASE s # {}
        <5>1. s \ {first(s)} \in level(m - 1) /\ s \ {first(s)} \in level(m)
          BY <1>1, <1>2, <2>2, <4>2
        <5>2. h[s \ {first(s)}] = Step(g, s \ {first(s)})
          BY <5>1
        <5>3. g[s \ {first(s)}] = Step(g, s \ {first(s)})
          BY <3>2, <5>1
        <5> HIDE DEF h
        <5> QED BY <4>1, <4>2, <5>2, <5>3
      <4> QED BY <4>1, <4>2
    <3>4. Loop(h, m)
      BY <3>3
    <3> HIDE DEF h, Loop
    <3> QED BY <2>2, <3>4
  <2> QED BY <2>3, <2>4
<1>4. PICK g : Loop(g, Cardinality(S))
  <2>1. Cardinality(S) \in Nat
    BY FS_CardinalityType
  <2> QED BY <1>3, <2>1
<1> DEFINE h == [s \in SUBSET S |-> g[s]]
<1>5. level(Cardinality(S)) = SUBSET S
  BY <1>1
<1>6. \A s \in SUBSET S : h[s] = Step(h, s)
  BY <1>2, <1>4, <1>5
<1>7. h = [s \in SUBSET S |-> Step(h, s)]
  <2>1. h = [s \in SUBSET S |-> h[s]]
    OBVIOUS
  <2> HIDE DEF h
  <2> QED BY <1>6, <2>1
<1>8. IsSum(h, f, S)
  <2> HIDE DEF h
  <2> QED BY <1>7 DEF IsSum, first
<1> QED BY <1>8

\* g adds x to what it says of the others.
Splits(g, f, T, x) == g[T] = f[x] + g[T \ {x}] /\ g[T \ {x}] \in Nat

\* g sums f, whichever element is taken first.
Adds(g, f, S) ==
    /\ g[{}] = 0
    /\ \A T \in SUBSET S : g[T] \in Nat
    /\ \A T \in SUBSET S : \A x \in T : Splits(g, f, T, x)

\* Any element may be taken first.
LEMMA SumStep ==
    ASSUME NEW S, IsFiniteSet(S), NEW f \in [S -> Nat], NEW g, IsSum(g, f, S)
    PROVE  Adds(g, f, S)
<1> DEFINE first(s) == CHOOSE x \in s : TRUE
           sum == [s \in SUBSET S |-> IF s = {} THEN 0 ELSE f[first(s)] + g[s \ {first(s)}]]
           good == {T \in SUBSET S : g[T] \in Nat /\ \A x \in T : g[T] = f[x] + g[T \ {x}]}
<1>1. /\ g[{}] = 0
      /\ \A T \in SUBSET S : T # {} => first(T) \in T /\ g[T] = f[first(T)] + g[T \ {first(T)}]
  <2>1. g = sum
    BY DEF IsSum
  <2>2. sum[{}] = 0 /\ \A T \in SUBSET S : T # {} => sum[T] = f[first(T)] + g[T \ {first(T)}]
    OBVIOUS
  <2>3. \A T : T # {} => first(T) \in T
    OBVIOUS
  <2> HIDE DEF sum, first
  <2> QED BY <2>1, <2>2, <2>3
<1> HIDE DEF first
<1>2. ASSUME NEW T \in SUBSET S, \A U \in SUBSET T : U # T => U \in good
      PROVE  T \in good
  <2>1. CASE T = {}
    BY <1>1, <2>1
  <2>2. CASE T # {}
    <3> DEFINE y == first(T)
    <3>1. y \in T /\ g[T] = f[y] + g[T \ {y}] /\ f[y] \in Nat
      BY <1>1, <2>2
    <3> HIDE DEF y
    <3>2. g[T \ {y}] \in Nat /\ \A x \in T \ {y} : g[T \ {y}] = f[x] + g[(T \ {y}) \ {x}]
      <4>1. T \ {y} \in good
        BY <1>2, <3>1
      <4> QED BY <4>1
    <3>3. ASSUME NEW x \in T PROVE g[T] = f[x] + g[T \ {x}]
      <4>1. CASE x = y
        BY <3>1, <4>1
      <4>2. CASE x # y
        <5>1. T \ {x} \in good /\ y \in T \ {x}
          BY <1>2, <3>1, <4>2
        <5>2. g[T \ {x}] = f[y] + g[(T \ {x}) \ {y}]
          BY <5>1
        <5>3. g[T \ {y}] = f[x] + g[(T \ {y}) \ {x}]
          BY <3>2, <4>2
        <5>4. (T \ {x}) \ {y} = (T \ {y}) \ {x}
          OBVIOUS
        <5> DEFINE rest == g[(T \ {y}) \ {x}]
        <5>5. rest \in Nat
          <6>1. (T \ {y}) \ {x} \in good
            BY <1>2, <3>1
          <6> QED BY <6>1
        <5>6. f[x] \in Nat
          OBVIOUS
        <5>7. g[T \ {x}] = f[y] + rest /\ g[T \ {y}] = f[x] + rest
          BY <5>2, <5>3, <5>4
        <5> HIDE DEF rest
        <5> QED BY <3>1, <5>5, <5>6, <5>7
      <4> QED BY <4>1, <4>2
    <3>4. g[T] \in Nat
      BY <3>1, <3>2
    <3> QED BY <3>3, <3>4
  <2> QED BY <2>1, <2>2
<1>3. SUBSET S \subseteq good
  <2> HIDE DEF good
  <2> QED BY <1>2, SubsetInduction
<1>4. ASSUME NEW T \in SUBSET S, NEW x \in T
      PROVE  Splits(g, f, T, x)
  <2>1. T \in good /\ T \ {x} \in good
    BY <1>3
  <2> QED BY <2>1 DEF Splits
<1> QED BY <1>1, <1>3, <1>4 DEF Adds

\* A sum of points is at most that of its weights times the points at most.
LEMMA SumBound ==
    ASSUME NEW S, IsFiniteSet(S), NEW f \in [S -> Nat], NEW w \in [S -> Nat],
           \A x \in S : w[x] > 0 /\ f[x] <= 10000 * w[x],
           NEW g, IsSum(g, f, S), NEW h, IsSum(h, w, S)
    PROVE  /\ g[S] \in Nat /\ h[S] \in Nat
           /\ g[S] <= 10000 * h[S]
           /\ S # {} => h[S] > 0
<1> DEFINE good == {T \in SUBSET S : g[T] <= 10000 * h[T]}
<1>1. Adds(g, f, S) /\ Adds(h, w, S)
  BY SumStep
<1>2. ASSUME NEW T \in SUBSET S, \A U \in SUBSET T : U # T => U \in good
      PROVE  T \in good
  <2>1. CASE T = {}
    BY <1>1, <2>1 DEF Adds
  <2>2. CASE T # {}
    <3>1. PICK x \in T : TRUE
      BY <2>2
    <3>2. g[T \ {x}] <= 10000 * h[T \ {x}]
      BY <1>2, <3>1
    <3>3. /\ g[T \ {x}] \in Nat /\ h[T \ {x}] \in Nat
          /\ g[T] = f[x] + g[T \ {x}] /\ h[T] = w[x] + h[T \ {x}]
      <4>1. Splits(g, f, T, x) /\ Splits(h, w, T, x)
        BY <1>1 DEF Adds
      <4> QED BY <4>1 DEF Splits
    <3>4. f[x] \in Nat /\ w[x] \in Nat /\ f[x] <= 10000 * w[x]
      OBVIOUS
    <3>5. g[T] <= 10000 * h[T]
      BY <3>2, <3>3, <3>4
    <3> QED BY <3>5
  <2> QED BY <2>1, <2>2
<1>3. SUBSET S \subseteq good
  <2> HIDE DEF good
  <2> QED BY <1>2, SubsetInduction
<1>4. ASSUME S # {} PROVE h[S] > 0
  <2>1. PICK x \in S : TRUE
    BY <1>4
  <2>2. h[S] = w[x] + h[S \ {x}] /\ h[S \ {x}] \in Nat /\ w[x] \in Nat /\ w[x] > 0
    <3>1. Splits(h, w, S, x)
      BY <1>1 DEF Adds
    <3> QED BY <3>1 DEF Splits
  <2> QED BY <2>2
<1>5. S \in good
  BY <1>3
<1> QED BY <1>1, <1>4, <1>5 DEF Adds
\* The sum over five or six components.
LEMMA SumOfComponents ==
    ASSUME NEW n \in {5, 6}, NEW f \in [1 .. n -> Nat], NEW g, IsSum(g, f, 1 .. n)
    PROVE  g[1 .. n] = f[1] + f[2] + f[3] + f[4] + f[5] + (IF n = 6 THEN f[6] ELSE 0)
<1> DEFINE first == [k \in 0 .. n |-> g[1 .. k]]
<1>1. Adds(g, f, 1 .. n)
  <2>1. IsFiniteSet(1 .. n)
    BY FS_Interval
  <2> QED BY <2>1, SumStep
<1>2. ASSUME NEW k \in 1 .. n
      PROVE  first[k] = f[k] + first[k - 1]
  <2>1. 1 .. k \in SUBSET (1 .. n) /\ k \in 1 .. k /\ (1 .. k) \ {k} = 1 .. (k - 1)
    OBVIOUS
  <2>2. g[1 .. k] = f[k] + g[(1 .. k) \ {k}]
    BY <1>1, <2>1 DEF Adds, Splits
  <2>3. k \in 0 .. n /\ k - 1 \in 0 .. n
    OBVIOUS
  <2> QED BY <2>1, <2>2, <2>3
<1>3. first[0] = 0 /\ first[n] = g[1 .. n]
  <2>1. 1 .. 0 = {}
    OBVIOUS
  <2> QED BY <1>1, <2>1 DEF Adds
<1>4. \A k \in 1 .. n : f[k] \in Nat
  OBVIOUS
<1> HIDE DEF first
<1>5. CASE n = 5
  BY <1>2, <1>3, <1>4, <1>5
<1>6. CASE n = 6
  BY <1>2, <1>3, <1>4, <1>6
<1> QED BY <1>5, <1>6

\* The number of those before a component.
LEMMA Priority ==
    ASSUME NEW n \in {5, 6}, NEW i \in 1 .. n
    PROVE  Cardinality({j \in 1 .. n : j < i}) = i - 1
<1>1. {j \in 1 .. n : j < i} = 1 .. (i - 1)
  OBVIOUS
<1>2. Cardinality(1 .. (i - 1)) = i - 1
  <2>1. 1 \in Int /\ i - 1 \in Int /\ (IF 1 > i - 1 THEN 0 ELSE (i - 1) - 1 + 1) = i - 1
    OBVIOUS
  <2>2. Cardinality(1 .. (i - 1)) = IF 1 > i - 1 THEN 0 ELSE (i - 1) - 1 + 1
    BY <2>1, FS_Interval
  <2> QED BY <2>1, <2>2
<1> QED BY <1>1, <1>2


IsShare(a, b) == a \in Nat /\ b \in Nat /\ b > 0 /\ a <= 10000 * b

\* A share of at most the whole is at most all points.
LEMMA ShareBound ==
    ASSUME NEW a, NEW b, IsShare(a, b)
    PROVE  a \div b \in BasisPoints
<1> USE DEF IsShare, BasisPoints
<1>1. a \div b \in Nat
  BY SMT
<1>2. (a \div b) * b <= a
  BY SMT
<1> DEFINE q == a \div b
<1> HIDE DEF q
<1>3. q \in Nat /\ q * b <= 10000 * b
  BY <1>1, <1>2 DEF q
<1>4. q <= 10000
  <2> SUFFICES ASSUME q >= 10001 PROVE FALSE
    BY <1>3
  <2>1. q * b >= 10001 * b
    BY <1>3, SMT
  <2> QED BY <1>3, <2>1
<1> QED BY <1>3, <1>4 DEF q

(* --------------------------- the components ---------------------------- *)

\* The total importance is such a sum: the fold is what a function that IsSum
\* describes says of the whole set.
LEMMA ImportanceIsSummed ==
    ASSUME NEW S, IsFiniteSet(S)
    PROVE  \E g : IsSum(g, [i \in S |-> Importance(i)], S) /\ TotalImportance(S) = g[S]
<1> DEFINE f == [i \in S |-> Importance(i)]
           body(g) == [s \in SUBSET S |->
                        IF s = {} THEN 0
                        ELSE Importance(CHOOSE x \in s : TRUE) + g[s \ {CHOOSE x \in s : TRUE}]]
<1>1. TotalImportance(S) = (CHOOSE g : g = body(g))[S]
  BY DEF TotalImportance, MapThenSumSet, MapThenFoldSet
<1>2. \A g : IsSum(g, f, S) <=> g = body(g)
  BY DEF IsSum
<1> HIDE DEF body, f
<1> QED BY <1>1, <1>2, SumExists DEF f

\* weighted_mean divides one such sum by another.
LEMMA MeanIsSummed ==
    ASSUME NEW points, IsFiniteSet(DOMAIN points)
    PROVE  \E g : /\ IsSum(g, [a \in DOMAIN points |-> points[a] * Importance(a)], DOMAIN points)
                  /\ weighted_mean(points) = g[DOMAIN points] \div TotalImportance(DOMAIN points)
<1> DEFINE S == DOMAIN points
           f == [a \in S |-> points[a] * Importance(a)]
           body(g) == [s \in SUBSET S |->
                        IF s = {} THEN 0
                        ELSE (points[CHOOSE x \in s : TRUE] * Importance(CHOOSE x \in s : TRUE))
                             + g[s \ {CHOOSE x \in s : TRUE}]]
<1>1. weighted_mean(points) = (CHOOSE g : g = body(g))[S] \div TotalImportance(S)
  BY DEF weighted_mean, MapThenSumSet, MapThenFoldSet
<1>2. \A g : IsSum(g, f, S) <=> g = body(g)
  BY DEF IsSum
<1> HIDE DEF body, f
<1> QED BY <1>1, <1>2, SumExists DEF f

\* A schema has finitely many attributes.
LEMMA AttributesAreFinite == IsFiniteSet(AttributeSet)
<1>1. AttributeSet = {Attributes[i] : i \in 1 .. Len(Attributes)}
  BY SchemaAssumption DEF AttributeSet, ToSet
<1>2. IsFiniteSet(1 .. Len(Attributes))
  BY SchemaAssumption, FS_Interval
<1> QED BY <1>1, <1>2, FiniteImage

\* A weighted mean of points is a number of points.
LEMMA MeanOfPoints ==
    ASSUME NEW S \in SUBSET AttributeSet, S # {}, NEW points \in [S -> BasisPoints]
    PROVE  weighted_mean(points) \in BasisPoints
<1> DEFINE f == [a \in S |-> points[a] * Importance(a)]
           w == [a \in S |-> Importance(a)]
<1>1. IsFiniteSet(S) /\ DOMAIN points = S
  BY AttributesAreFinite, FS_Subset
<1>2. PICK g : IsSum(g, f, S) /\ weighted_mean(points) = g[S] \div TotalImportance(S)
  BY <1>1, MeanIsSummed
<1>3. PICK h : IsSum(h, w, S) /\ TotalImportance(S) = h[S]
  BY <1>1, ImportanceIsSummed
<1>4. ASSUME NEW a \in S
      PROVE  /\ f[a] = points[a] * Importance(a) /\ w[a] = Importance(a)
             /\ f[a] \in Nat /\ w[a] \in Nat /\ w[a] > 0 /\ f[a] <= 10000 * w[a]
  <2>2. points[a] \in BasisPoints /\ Importance(a) \in {1, 2}
    BY DEF Importance
  <2>3. f[a] = points[a] * Importance(a) /\ w[a] = Importance(a)
    OBVIOUS
  <2>4. /\ points[a] * Importance(a) \in Nat /\ Importance(a) \in Nat /\ Importance(a) > 0
        /\ points[a] * Importance(a) <= 10000 * Importance(a)
    <3>1. PICK p \in BasisPoints, k \in {1, 2} : points[a] = p /\ Importance(a) = k
      BY <2>2
    <3>2. p * k \in Nat /\ k \in Nat /\ k > 0 /\ p * k <= 10000 * k
      BY DEF BasisPoints
    <3> QED BY <3>1, <3>2
  <2> HIDE DEF f, w
  <2> QED BY <2>3, <2>4
<1>5. f \in [S -> Nat] /\ w \in [S -> Nat]
  BY <1>4
<1> HIDE DEF f, w
<1>6. IsShare(g[S], h[S])
  BY <1>1, <1>2, <1>3, <1>4, <1>5, SumBound DEF IsShare
<1> QED BY <1>2, <1>3, <1>6, ShareBound

\* The completeness component is a number of basis points, of any states.
LEMMA CompletenessBound ==
    ASSUME NEW s
    PROVE  CompletenessScore(s) \in BasisPoints
<1> DEFINE resolved == ResolvedAttributes(s)
           Share(attributes) == percentage_basis_points(Cardinality(resolved \cap attributes),
                                                        Cardinality(attributes))
<1>1. ASSUME NEW S \in SUBSET AttributeSet
      PROVE  Share(S) \in BasisPoints
  <2> DEFINE count == Cardinality(resolved \cap S)
             total == Cardinality(S)
  <2>1. count \in Nat /\ total \in Nat /\ count <= total
    <3>1. IsFiniteSet(S)
      BY AttributesAreFinite, FS_Subset
    <3> QED BY <3>1, FS_Subset, FS_CardinalityType
  <2> HIDE DEF count, total
  <2>2. percentage_basis_points(count, total) \in BasisPoints
    <3>1. CASE total = 0
      BY <3>1 DEF percentage_basis_points, BasisPoints
    <3>2. CASE total # 0
      <4>1. IsShare(count * 10000, total)
        BY <2>1, <3>2 DEF IsShare
      <4>2. (count * 10000) \div total \in BasisPoints
        BY <4>1, ShareBound
      <4>3. percentage_basis_points(count, total) = (count * 10000) \div total
        BY <3>2 DEF percentage_basis_points
      <4> QED BY <4>2, <4>3
    <3> QED BY <3>1, <3>2
  <2> QED BY <2>2 DEF count, total
<1>2. /\ OptionalAttributes = {} => CompletenessScore(s) = Share(RequiredAttributes)
      /\ OptionalAttributes # {} => CompletenessScore(s)
           = (Share(RequiredAttributes) * 85 + Share(OptionalAttributes) * 15) \div 100
  BY DEF CompletenessScore
<1>3. Share(RequiredAttributes) \in BasisPoints /\ Share(OptionalAttributes) \in BasisPoints
  <2>1. RequiredAttributes \in SUBSET AttributeSet /\ OptionalAttributes \in SUBSET AttributeSet
    BY DEF RequiredAttributes, OptionalAttributes
  <2> HIDE DEF Share
  <2> QED BY <1>1, <2>1
<1> HIDE DEF Share
<1>4. \A x, y \in BasisPoints : (x * 85 + y * 15) \div 100 \in BasisPoints
  BY DEF BasisPoints
<1> QED BY <1>2, <1>3, <1>4

\* So are the means of the points that each scorer gives a final value: of its
\* validation,
LEMMA ValidationBound ==
    ASSUME NEW F, DOMAIN F \in SUBSET AttributeSet, DOMAIN F # {}, NEW v
    PROVE  ValidationScore(F, v) \in BasisPoints
<1> DEFINE points == [a \in DOMAIN F |-> IF IsOverride(F[a]) THEN 8500
                        ELSE IF v[F[a].candidate] = "VALID" THEN 10000 ELSE 8000]
<1>1. points \in [DOMAIN F -> BasisPoints]
  BY DEF BasisPoints
<1>2. ValidationScore(F, v) = weighted_mean(points)
  BY DEF ValidationScore
<1> HIDE DEF points
<1> QED BY <1>1, <1>2, MeanOfPoints

\* of the number of its sources,
LEMMA CorroborationBound ==
    ASSUME NEW F, DOMAIN F \in SUBSET AttributeSet, DOMAIN F # {}, NEW c
    PROVE  CorroborationScore(F, c) \in BasisPoints
<1> DEFINE count(a) == IF IsOverride(F[a]) THEN 0 ELSE Cardinality(c[a].sources)
           value(n) == CASE n = 0 -> 5000 [] n = 1 -> 6000 [] n = 2 -> 9000 [] OTHER -> 10000
           points == [a \in DOMAIN F |-> value(count(a))]
<1>1. \A n : value(n) \in BasisPoints
  BY DEF BasisPoints
<1>2. CorroborationScore(F, c) = weighted_mean(points)
  BY DEF CorroborationScore
<1> HIDE DEF value
<1>3. points \in [DOMAIN F -> BasisPoints]
  BY <1>1
<1> HIDE DEF points
<1> QED BY <1>2, <1>3, MeanOfPoints

\* of its consensus, once the scorer has refused the values without one,
LEMMA ConflictBound ==
    ASSUME NEW F, DOMAIN F \in SUBSET AttributeSet, DOMAIN F # {}, NEW c,
           \A a \in DOMAIN F : c[a].status \in Statuses \ {"NO_VALID_CANDIDATES"}
    PROVE  ConflictScore(F, c) \in BasisPoints
<1> DEFINE points == [a \in DOMAIN F |-> ConflictPoints(F[a], c[a])]
<1>1. ASSUME NEW a \in DOMAIN F
      PROVE  ConflictPoints(F[a], c[a]) \in BasisPoints
  <2>1. c[a].status \in Statuses \ {"NO_VALID_CANDIDATES"}
    OBVIOUS
  <2> QED BY <2>1 DEF ConflictPoints, BasisPoints, Statuses
<1>2. points \in [DOMAIN F -> BasisPoints]
  BY <1>1
<1>3. ConflictScore(F, c) = weighted_mean(points)
  BY DEF ConflictScore
<1> HIDE DEF points
<1> QED BY <1>2, <1>3, MeanOfPoints

\* of its origin,
LEMMA ReviewBound ==
    ASSUME NEW F, DOMAIN F \in SUBSET AttributeSet, DOMAIN F # {},
           \A a \in DOMAIN F : F[a].origin \in DOMAIN OriginPoints
    PROVE  ReviewScore(F) \in BasisPoints
<1> DEFINE points == [a \in DOMAIN F |-> OriginPoints[F[a].origin]]
<1>1. \A o \in DOMAIN OriginPoints : OriginPoints[o] \in BasisPoints
  BY DEF OriginPoints, BasisPoints
<1>2. points \in [DOMAIN F -> BasisPoints]
  BY <1>1
<1>3. ReviewScore(F) = weighted_mean(points)
  BY DEF ReviewScore
<1> HIDE DEF points
<1> QED BY <1>2, <1>3, MeanOfPoints

\* and of the enrichment, if there is one.
LEMMA AiBound ==
    ASSUME NEW e \in Enrichments
    PROVE  AiScore(e) \in BasisPoints \cup {NotEvaluated}
<1>1. CASE e = None
  BY <1>1 DEF AiScore
<1>2. CASE e # None
  <2>1. e.grounding \in BasisPoints /\ e.coverage \in BasisPoints
    BY <1>2, EnrichmentAssumption
  <2>2. \A x, y \in BasisPoints : (x * 8 + y * 2) \div 10 \in BasisPoints
    BY DEF BasisPoints
  <2> QED BY <1>2, <2>1, <2>2 DEF AiScore
<1> QED BY <1>1, <1>2

(* ------------------------- weights and the total ----------------------- *)

\* What the score engine makes of the components: five points at least, the
\* sixth with an enrichment only.
IsRaw(raw) ==
    /\ DOMAIN raw = 1 .. 6
    /\ \A i \in 1 .. 5 : raw[i] \in BasisPoints
    /\ raw[6] \in BasisPoints \cup {NotEvaluated}

EvaluatedCount(raw) == IF raw[6] = NotEvaluated THEN 5 ELSE 6

\* These are the components that are evaluated.
LEMMA EvaluatedAre ==
    ASSUME NEW raw, IsRaw(raw)
    PROVE  EvaluatedCount(raw) \in {5, 6} /\ Evaluated(raw) = 1 .. EvaluatedCount(raw)
<1>1. ASSUME NEW i \in 1 .. 5 PROVE raw[i] # NotEvaluated
  <2>1. raw[i] \in BasisPoints
    BY DEF IsRaw
  <2>2. NotEvaluated \notin BasisPoints
    BY DEF BasisPoints, NotEvaluated
  <2> QED BY <2>1, <2>2
<1>2. DOMAIN raw = 1 .. 6
  BY DEF IsRaw
<1> QED BY <1>1, <1>2 DEF Evaluated, EvaluatedCount

\* The weights with an enrichment and without one.
WeightsOf(n) == IF n = 6 THEN <<2500, 2000, 2000, 1500, 1000, 1000>>
                ELSE <<2778, 2223, 2222, 1666, 1111, 0>>

\* Without the sixth component, 9000 of the 10000 points are left to divide.
LEMMA FloorWeights ==
    ASSUME NEW raw, IsRaw(raw)
    PROVE  \A i \in 1 .. 6 : FloorWeight(raw, i)
              = (BASE_WEIGHTS[i] * 10000) \div (IF EvaluatedCount(raw) = 6 THEN 10000 ELSE 9000)
<1> DEFINE n == EvaluatedCount(raw)
           S == 1 .. n
           f == [i \in S |-> BaseWeight(i)]
           body(g) == [s \in SUBSET S |->
                        IF s = {} THEN 0
                        ELSE BaseWeight(CHOOSE x \in s : TRUE) + g[s \ {CHOOSE x \in s : TRUE}]]
<1>1. n \in {5, 6} /\ Evaluated(raw) = S /\ IsFiniteSet(S)
  BY EvaluatedAre, FS_Interval
<1>2. MapThenSumSet(BaseWeight, S) = (CHOOSE g : g = body(g))[S]
  BY DEF MapThenSumSet, MapThenFoldSet
<1>3. \A g : IsSum(g, f, S) <=> g = body(g)
  BY DEF IsSum
<1>4. PICK g : IsSum(g, f, S) /\ MapThenSumSet(BaseWeight, S) = g[S]
  <2> HIDE DEF body, f
  <2> QED BY <1>1, <1>2, <1>3, SumExists
<1>5. f \in [S -> Nat] /\ \A i \in S : f[i] = BASE_WEIGHTS[i]
  BY <1>1 DEF BaseWeight, BASE_WEIGHTS
<1>6. g[S] = f[1] + f[2] + f[3] + f[4] + f[5] + (IF n = 6 THEN f[6] ELSE 0)
  <2> HIDE DEF f, n
  <2> QED BY <1>1, <1>4, <1>5, SumOfComponents
<1>7. g[S] = IF n = 6 THEN 10000 ELSE 9000
  <2> HIDE DEF f
  <2> QED BY <1>1, <1>5, <1>6 DEF BASE_WEIGHTS
<1> QED BY <1>1, <1>4, <1>7 DEF FloorWeight

\* What the divisions leave over goes to the components of the highest priority.
LEMMA NormalizedWeights ==
    ASSUME NEW raw, IsRaw(raw)
    PROVE  \A i \in 1 .. 6 : NormalizedWeight(raw, i) = WeightsOf(EvaluatedCount(raw))[i]
<1> DEFINE n == EvaluatedCount(raw)
           S == 1 .. n
           weight(i) == (BASE_WEIGHTS[i] * 10000) \div (IF n = 6 THEN 10000 ELSE 9000)
           f == [i \in S |-> FloorWeight(raw, i)]
           body(g) == [s \in SUBSET S |->
                        IF s = {} THEN 0
                        ELSE FloorWeight(raw, CHOOSE x \in s : TRUE)
                             + g[s \ {CHOOSE x \in s : TRUE}]]
           Floor(i) == FloorWeight(raw, i)
           floors == MapThenSumSet(Floor, S)
<1>1. n \in {5, 6} /\ Evaluated(raw) = S /\ IsFiniteSet(S) /\ S \in SUBSET (1 .. 6)
  <2>1. n \in {5, 6} /\ Evaluated(raw) = S
    BY EvaluatedAre
  <2> HIDE DEF n
  <2>2. IsFiniteSet(S)
    BY <2>1, FS_Interval
  <2>3. S \in SUBSET (1 .. 6)
    BY <2>1
  <2> QED BY <2>1, <2>2, <2>3
<1>2. floors = (CHOOSE g : g = body(g))[S]
  BY DEF MapThenSumSet, MapThenFoldSet
<1>3. \A g : IsSum(g, f, S) <=> g = body(g)
  BY DEF IsSum
<1>4. PICK g : IsSum(g, f, S) /\ floors = g[S]
  <2> HIDE DEF body, f, floors
  <2> QED BY <1>1, <1>2, <1>3, SumExists
<1>5. /\ n = 6 => /\ weight(1) = 2500 /\ weight(2) = 2000 /\ weight(3) = 2000
                  /\ weight(4) = 1500 /\ weight(5) = 1000 /\ weight(6) = 1000
      /\ n # 6 => /\ weight(1) = 2777 /\ weight(2) = 2222 /\ weight(3) = 2222
                  /\ weight(4) = 1666 /\ weight(5) = 1111
  BY DEF BASE_WEIGHTS
<1>6. \A i \in 1 .. 6 : FloorWeight(raw, i) = weight(i)
  BY FloorWeights
<1> HIDE DEF weight, n
<1>7. f \in [S -> Nat] /\ \A i \in S : f[i] = weight(i)
  <2>1. \A i \in S : f[i] = weight(i)
    BY <1>1, <1>6
  <2>2. \A i \in S : weight(i) \in Nat
    BY <1>1, <1>5
  <2>3. f = [i \in S |-> f[i]]
    OBVIOUS
  <2> HIDE DEF f
  <2> QED BY <2>1, <2>2, <2>3
<1>8. floors = f[1] + f[2] + f[3] + f[4] + f[5] + (IF n = 6 THEN f[6] ELSE 0)
  <2> HIDE DEF f
  <2> QED BY <1>1, <1>4, <1>7, SumOfComponents
<1> HIDE DEF f
<1>9. floors = IF n = 6 THEN 10000 ELSE 9998
  <2>1. CASE n = 6
    BY <1>5, <1>7, <1>8, <2>1
  <2>2. CASE n = 5
    BY <1>5, <1>7, <1>8, <2>2
  <2> QED BY <1>1, <2>1, <2>2
<1>10. ASSUME NEW i \in S
       PROVE  NormalizedWeight(raw, i)
                = weight(i) + (IF i - 1 < 10000 - floors THEN 1 ELSE 0)
  <2>1. Cardinality({j \in S : j < i}) = i - 1
    BY <1>1, Priority
  <2> QED BY <1>1, <1>6, <2>1 DEF NormalizedWeight
<1> HIDE DEF floors
<1>11. CASE n = 6
  BY <1>5, <1>9, <1>10, <1>11 DEF WeightsOf, n
<1>12. CASE n = 5
  <2>1. NormalizedWeight(raw, 6) = 0
    BY <1>1, <1>12 DEF NormalizedWeight
  <2>2. \A i \in 1 .. 5 : NormalizedWeight(raw, i) = WeightsOf(5)[i]
    BY <1>5, <1>9, <1>10, <1>12 DEF WeightsOf
  <2> QED BY <1>12, <2>1, <2>2 DEF WeightsOf, n
<1> QED BY <1>1, <1>11, <1>12

\* What the components contribute to the total.
LEMMA TotalOfContributions ==
    ASSUME NEW raw, IsRaw(raw)
    PROVE  LET w == WeightsOf(EvaluatedCount(raw))
           IN  Total(raw) = ((raw[1] * w[1]) \div 10000) + ((raw[2] * w[2]) \div 10000)
                          + ((raw[3] * w[3]) \div 10000) + ((raw[4] * w[4]) \div 10000)
                          + ((raw[5] * w[5]) \div 10000)
                          + (IF EvaluatedCount(raw) = 6 THEN (raw[6] * w[6]) \div 10000 ELSE 0)
<1> DEFINE n == EvaluatedCount(raw)
           S == 1 .. 6
           w == WeightsOf(n)
           part(i) == IF i \in 1 .. n THEN (raw[i] * w[i]) \div 10000 ELSE 0
           f == [i \in S |-> Contribution(raw, i)]
           body(g) == [s \in SUBSET S |->
                        IF s = {} THEN 0
                        ELSE Contribution(raw, CHOOSE x \in s : TRUE)
                             + g[s \ {CHOOSE x \in s : TRUE}]]
<1>1. n \in {5, 6} /\ Evaluated(raw) = 1 .. n /\ DOMAIN raw = S
  BY EvaluatedAre DEF IsRaw
<1>2. Total(raw) = (CHOOSE g : g = body(g))[S]
  BY <1>1 DEF Total, MapThenSumSet, MapThenFoldSet
<1>3. \A g : IsSum(g, f, S) <=> g = body(g)
  BY DEF IsSum
<1>4. PICK g : IsSum(g, f, S) /\ Total(raw) = g[S]
  <2>1. \A m \in Nat : IsFiniteSet(1 .. m)
    BY FS_Interval
  <2>2. IsFiniteSet(S)
    BY <2>1
  <2> HIDE DEF body, f
  <2> QED BY <1>2, <1>3, <2>2, SumExists
<1>5. ASSUME NEW i \in S PROVE Contribution(raw, i) = part(i) /\ part(i) \in Nat
  <2>1. NormalizedWeight(raw, i) = w[i] /\ w[i] \in Nat
    BY <1>1, NormalizedWeights DEF WeightsOf
  <2>2. i \in 1 .. n => raw[i] \in BasisPoints
    BY <1>1 DEF IsRaw, EvaluatedCount
  <2>3. ASSUME NEW p \in BasisPoints, NEW k \in Nat PROVE (p * k) \div 10000 \in Nat
    <3>1. p * k \in Nat
      BY DEF BasisPoints
    <3>2. \A m \in Nat : m \div 10000 \in Nat
      OBVIOUS
    <3> QED BY <3>1, <3>2
  <2> HIDE DEF w
  <2>4. i \in 1 .. n => (raw[i] * w[i]) \div 10000 \in Nat
    BY <2>1, <2>2, <2>3
  <2> QED BY <1>1, <2>1, <2>4 DEF Contribution
<1> HIDE DEF part
<1>6. f \in [S -> Nat] /\ \A i \in S : f[i] = part(i)
  BY <1>5
<1> HIDE DEF f
<1>7. g[S] = f[1] + f[2] + f[3] + f[4] + f[5] + f[6]
  <2>1. 6 \in {5, 6}
    OBVIOUS
  <2>2. g[1 .. 6] = f[1] + f[2] + f[3] + f[4] + f[5] + (IF 6 = 6 THEN f[6] ELSE 0)
    BY <1>4, <1>6, <2>1, SumOfComponents
  <2> QED BY <2>2
<1>8. g[S] = part(1) + part(2) + part(3) + part(4) + part(5) + part(6)
  BY <1>6, <1>7
<1> HIDE DEF w
<1>9. /\ part(1) = (raw[1] * w[1]) \div 10000 /\ part(2) = (raw[2] * w[2]) \div 10000
      /\ part(3) = (raw[3] * w[3]) \div 10000 /\ part(4) = (raw[4] * w[4]) \div 10000
      /\ part(5) = (raw[5] * w[5]) \div 10000
      /\ part(6) = IF n = 6 THEN (raw[6] * w[6]) \div 10000 ELSE 0
  BY <1>1 DEF part
<1> QED BY <1>4, <1>8, <1>9 DEF w

\* Components between two bounds have a mean between them, but for less than
\* one point for each that is lost in its division.
LEMMA MeanOfComponents ==
    ASSUME NEW n \in {5, 6}, NEW r, \A i \in 1 .. n : r[i] \in BasisPoints,
           NEW low \in BasisPoints, NEW high \in BasisPoints,
           \A i \in 1 .. n : low <= r[i] /\ r[i] <= high
    PROVE  LET w == WeightsOf(n)
               total == ((r[1] * w[1]) \div 10000) + ((r[2] * w[2]) \div 10000)
                      + ((r[3] * w[3]) \div 10000) + ((r[4] * w[4]) \div 10000)
                      + ((r[5] * w[5]) \div 10000)
                      + (IF n = 6 THEN (r[6] * w[6]) \div 10000 ELSE 0)
           IN  total \in Nat /\ total <= high /\ total > low - n
<1> DEFINE w == WeightsOf(n)
           c(i) == (r[i] * w[i]) \div 10000
<1>1. ASSUME NEW i \in 1 .. n
      PROVE  /\ w[i] \in Nat /\ c(i) \in Nat
             /\ 10000 * c(i) <= w[i] * high
             /\ w[i] * low < 10000 * c(i) + 10000
  <2>1. w[i] \in Nat
    BY DEF WeightsOf
  <2> HIDE DEF w
  <2>2. r[i] * w[i] \in Nat /\ r[i] * w[i] <= w[i] * high /\ w[i] * low <= r[i] * w[i]
        /\ w[i] * low \in Nat /\ w[i] * high \in Nat
    <3>1. r[i] \in Nat /\ low \in Nat /\ high \in Nat /\ low <= r[i] /\ r[i] <= high
      <4>1. r[i] \in BasisPoints /\ low <= r[i] /\ r[i] <= high
        OBVIOUS
      <4>2. \A p \in BasisPoints : p \in Nat
        BY DEF BasisPoints
      <4> QED BY <4>1, <4>2
    <3>2. \A x, y, z \in Nat :
             x <= y => x * z <= z * y /\ z * x <= y * z /\ x * z \in Nat /\ z * y \in Nat
      BY SMT
    <3> QED BY <2>1, <3>1, <3>2
  <2>3. \A k \in Nat : /\ k \div 10000 \in Nat /\ 10000 * (k \div 10000) <= k
                       /\ k < 10000 * (k \div 10000) + 10000
    OBVIOUS
  <2> DEFINE x == r[i] * w[i]
             q == x \div 10000
  <2>4. q \in Nat /\ 10000 * q <= x /\ x < 10000 * q + 10000
    <3>1. x \in Nat
      BY <2>2
    <3> HIDE DEF x
    <3> QED BY <2>3, <3>1
  <2>5. x \in Nat /\ x <= w[i] * high /\ w[i] * low <= x
    BY <2>2
  <2> HIDE DEF x
  <2>6. q \in Nat /\ 10000 * q <= w[i] * high /\ w[i] * low < 10000 * q + 10000
    BY <2>2, <2>4, <2>5
  <2> QED BY <2>1, <2>6 DEF x
<1> DEFINE total == c(1) + c(2) + c(3) + c(4) + c(5) + (IF n = 6 THEN c(6) ELSE 0)
<1>2. low \in Nat /\ high \in Nat
  BY DEF BasisPoints
<1> HIDE DEF c
<1>3. CASE n = 6
  <2>1. /\ w[1] = 2500 /\ w[2] = 2000 /\ w[3] = 2000 /\ w[4] = 1500 /\ w[5] = 1000 /\ w[6] = 1000
    BY <1>3 DEF WeightsOf
  <2>2. \A i \in 1 .. 6 : /\ c(i) \in Nat
                          /\ 10000 * c(i) <= w[i] * high /\ w[i] * low < 10000 * c(i) + 10000
    BY <1>1, <1>3
  <2> HIDE DEF w
  <2> QED BY <1>2, <1>3, <2>1, <2>2 DEF w, c
<1>4. CASE n = 5
  <2>1. w[1] = 2778 /\ w[2] = 2223 /\ w[3] = 2222 /\ w[4] = 1666 /\ w[5] = 1111
    BY <1>4 DEF WeightsOf
  <2>2. \A i \in 1 .. 5 : /\ c(i) \in Nat
                          /\ 10000 * c(i) <= w[i] * high /\ w[i] * low < 10000 * c(i) + 10000
    BY <1>1, <1>4
  <2> HIDE DEF w
  <2> QED BY <1>2, <1>4, <2>1, <2>2 DEF w, c
<1> QED BY <1>3, <1>4

\* Nothing of the weights is lost.
LEMMA WeightsAddUp ==
    ASSUME IsRaw(raw_scores)
    PROVE  LET Weight(i) == NormalizedWeight(raw_scores, i)
           IN  MapThenSumSet(Weight, DOMAIN raw_scores) = 10000
<1> DEFINE S == 1 .. 6
           w == WeightsOf(EvaluatedCount(raw_scores))
           f == [i \in S |-> NormalizedWeight(raw_scores, i)]
           body(g) == [s \in SUBSET S |->
                        IF s = {} THEN 0
                        ELSE NormalizedWeight(raw_scores, CHOOSE x \in s : TRUE)
                             + g[s \ {CHOOSE x \in s : TRUE}]]
           Weight(i) == NormalizedWeight(raw_scores, i)
           sum == MapThenSumSet(Weight, S)
<1>1. sum = (CHOOSE g : g = body(g))[S]
  BY DEF MapThenSumSet, MapThenFoldSet
<1>2. \A g : IsSum(g, f, S) <=> g = body(g)
  BY DEF IsSum
<1>3. PICK g : IsSum(g, f, S) /\ sum = g[S]
  <2>1. \A m \in Nat : IsFiniteSet(1 .. m)
    BY FS_Interval
  <2>2. IsFiniteSet(S)
    BY <2>1
  <2> HIDE DEF body, f, sum
  <2> QED BY <1>1, <1>2, <2>2, SumExists
<1>4. \A i \in S : f[i] = w[i] /\ w[i] \in Nat
  BY NormalizedWeights DEF WeightsOf
<1>5. f \in [S -> Nat]
  <2>1. f = [i \in S |-> f[i]]
    OBVIOUS
  <2> HIDE DEF f, w
  <2> QED BY <1>4, <2>1
<1> HIDE DEF f
<1>6. g[S] = f[1] + f[2] + f[3] + f[4] + f[5] + f[6]
  <2>1. 6 \in {5, 6}
    OBVIOUS
  <2>2. g[1 .. 6] = f[1] + f[2] + f[3] + f[4] + f[5] + (IF 6 = 6 THEN f[6] ELSE 0)
    BY <1>3, <1>5, <2>1, SumOfComponents
  <2> QED BY <2>2
<1>7. w[1] + w[2] + w[3] + w[4] + w[5] + w[6] = 10000
  BY DEF WeightsOf
<1> HIDE DEF w
<1>8. sum = 10000
  <2> HIDE DEF sum
  <2> QED BY <1>3, <1>4, <1>6, <1>7
<1>9. DOMAIN raw_scores = S
  BY DEF IsRaw
<1> QED BY <1>8, <1>9

\* Of finitely many points one is the least and one is the greatest.
LEMMA Extremes ==
    ASSUME NEW S, S # {}, NEW r, \A i \in S : r[i] \in BasisPoints
    PROVE  \E i, k \in S : \A j \in S : r[i] <= r[j] /\ r[j] <= r[k]
<1> DEFINE values == {r[i] : i \in S}
           gaps == {10000 - r[i] : i \in S}
<1>1. \A p \in BasisPoints : p \in Nat /\ 10000 - p \in Nat
  BY DEF BasisPoints
<1>2. PICK m \in values : \A v \in values : m <= v
  <2>1. values \in SUBSET Nat /\ values # {}
    BY <1>1
  <2> HIDE DEF values
  <2> QED BY <2>1, LeastNatural
<1>3. PICK n \in gaps : \A v \in gaps : n <= v
  <2>1. gaps \in SUBSET Nat /\ gaps # {}
    BY <1>1
  <2> HIDE DEF gaps
  <2> QED BY <2>1, LeastNatural
<1>4. PICK i \in S : r[i] = m
  BY <1>2
<1>5. PICK k \in S : 10000 - r[k] = n
  BY <1>3
<1>6. ASSUME NEW j \in S PROVE r[i] <= r[j] /\ r[j] <= r[k]
  <2>1. r[j] \in values /\ 10000 - r[j] \in gaps
    OBVIOUS
  <2>2. r[j] \in Nat /\ r[k] \in Nat
    BY <1>1
  <2> HIDE DEF values, gaps
  <2>3. r[i] <= r[j] /\ 10000 - r[k] <= 10000 - r[j]
    BY <1>2, <1>3, <1>4, <1>5, <2>1
  <2> QED BY <2>2, <2>3
<1> QED BY <1>6

\* The score of such components is a mean of those evaluated.
LEMMA RawScoreIsAMean ==
    ASSUME NEW raw, IsRaw(raw)
    PROVE  /\ \E s \in {raw[i] : i \in Evaluated(raw)} : OverallScore(raw) <= s
           /\ \E s \in {raw[i] : i \in Evaluated(raw)} :
                 OverallScore(raw) > s - Cardinality(Evaluated(raw))
<1> DEFINE n == EvaluatedCount(raw)
           S == 1 .. n
           total == Total(raw)
<1>1. n \in {5, 6} /\ Evaluated(raw) = S
  BY EvaluatedAre
<1>2. \A i \in S : raw[i] \in BasisPoints
  BY <1>1 DEF IsRaw, EvaluatedCount
<1>3. total = LET w == WeightsOf(n)
              IN  ((raw[1] * w[1]) \div 10000) + ((raw[2] * w[2]) \div 10000)
                + ((raw[3] * w[3]) \div 10000) + ((raw[4] * w[4]) \div 10000)
                + ((raw[5] * w[5]) \div 10000)
                + (IF n = 6 THEN (raw[6] * w[6]) \div 10000 ELSE 0)
  BY TotalOfContributions
<1>4. OverallScore(raw) = IF total > 10000 THEN 10000 ELSE total
  BY DEF OverallScore
<1> HIDE DEF n, total
<1>5. PICK i \in S, k \in S : \A j \in S : raw[i] <= raw[j] /\ raw[j] <= raw[k]
  <2>1. S # {}
    BY <1>1
  <2> HIDE DEF S
  <2> QED BY <1>2, <2>1, Extremes
<1>6. raw[i] \in BasisPoints /\ raw[k] \in BasisPoints
  BY <1>2
<1>7. total \in Nat /\ total <= raw[k] /\ total > raw[i] - n
  BY <1>1, <1>2, <1>3, <1>5, <1>6, MeanOfComponents
<1>8. Cardinality(S) = n
  BY <1>1, FS_Interval
<1>9. \A p \in BasisPoints : p \in Nat /\ p <= 10000
  BY DEF BasisPoints
<1>10. OverallScore(raw) <= raw[k] /\ OverallScore(raw) > raw[i] - n
  BY <1>1, <1>4, <1>6, <1>7, <1>9
<1> QED BY <1>1, <1>8, <1>10

(* ------------------------- the score is a mean ------------------------- *)

\* A score that was not refused is that of the results held, with one of the
\* enrichments.
ScoreFollows ==
    phase = "scored" =>
        /\ ~ ScoreRefused(final, validation, consensus)
        /\ \E e \in Enrichments :
              raw_scores = RawScores(final, states, validation, consensus, e)

\* Only the score engine takes scores, after its checks of final and consensus,
\* and no step after it changes what it scored.
LEMMA ScoreStep == ScoreFollows /\ [Next]_vars => ScoreFollows'
<1> SUFFICES ASSUME ScoreFollows, [Next]_vars, phase' = "scored" PROVE ScoreFollows'
  BY DEF ScoreFollows
<1>1. CASE Score
  <2>1. UNCHANGED <<final, states, validation, consensus>>
    BY <1>1 DEF Score, analysed
  <2>2. /\ ~ ScoreRefused(final, validation, consensus)
        /\ \E e \in Enrichments :
              raw_scores' = RawScores(final, states, validation, consensus, e)
    BY <1>1 DEF Score
  <2> QED
    BY <2>1, <2>2 DEF ScoreFollows
<1>2. CASE UNCHANGED vars
  <2>1. /\ phase = "scored"
        /\ UNCHANGED <<final, states, validation, consensus, raw_scores>>
    BY <1>2 DEF vars
  <2>2. /\ ~ ScoreRefused(final, validation, consensus)
        /\ \E e \in Enrichments :
              raw_scores = RawScores(final, states, validation, consensus, e)
    BY <2>1 DEF ScoreFollows
  <2> QED
    BY <2>1, <2>2 DEF ScoreFollows
<1>3. ~ (Extract \/ Normalize \/ DetectConflicts \/ EvaluateCompleteness \/ Validate \/ Select
         \/ CompleteReview \/ Materialize)
  BY DEF Extract, Normalize, DetectConflicts, EvaluateCompleteness, Validate, Select,
         CompleteReview, Materialize
<1> QED
  BY <1>1, <1>2, <1>3 DEF Next

\* The components of a score that was not refused are points: the review
\* leaves no origin, and the conflict scorer no consensus, without points.
LEMMA ScoresAreRaw ==
    ASSUME DerivedResults, ScoreFollows, phase = "scored"
    PROVE  IsRaw(raw_scores)
<1>1. PICK e \in Enrichments :
         raw_scores = RawScores(final, states, validation, consensus, e)
  BY DEF ScoreFollows
<1>2. /\ DOMAIN final # {}
      /\ \A a \in DOMAIN final :
            a \in DOMAIN consensus /\ consensus[a].status # "NO_VALID_CANDIDATES"
  BY DEF ScoreFollows, ScoreRefused, ConflictRefuses
<1>3. consensus = detect(normalized)
  BY DEF DerivedResults, ResultsFollow, FromCompared, FromEvaluated, FromValidated, FromSelected,
         FromReviewed
<1>4. ASSUME NEW a \in DOMAIN final
      PROVE  consensus[a].status \in Statuses \ {"NO_VALID_CANDIDATES"}
  <2>1. consensus[a] = AssessConsensus(normalized, a)
    BY <1>2, <1>3 DEF detect
  <2> QED
    BY <1>2, <2>1, ConsensusStatus
<1>5. final = [a \in Decided |->
                 [ origin |-> Origin[decisions[a].type], candidate |-> decisions[a].candidate,
                   value |-> decisions[a].value, unit |-> decisions[a].unit ]]
  BY DEF DerivedResults, ReviewFollows
<1>6. /\ DOMAIN final \in SUBSET AttributeSet
      /\ \A a \in DOMAIN final : final[a].origin \in DOMAIN OriginPoints
  BY <1>5 DEF Decided, Resolving, Origin, OriginPoints
<1>7. /\ CompletenessScore(states) \in BasisPoints
      /\ ValidationScore(final, validation) \in BasisPoints
      /\ CorroborationScore(final, consensus) \in BasisPoints
      /\ ConflictScore(final, consensus) \in BasisPoints
      /\ ReviewScore(final) \in BasisPoints
      /\ AiScore(e) \in BasisPoints \cup {NotEvaluated}
  BY <1>2, <1>4, <1>6, CompletenessBound, ValidationBound, CorroborationBound, ConflictBound,
     ReviewBound, AiBound
<1> QED
  BY <1>1, <1>7 DEF RawScores, IsRaw

\* Whatever was reviewed, the weights of the evaluated components are 10000
\* together and the score is their mean, short of it by less than a point for
\* each component.
THEOREM ScoresAreMeans == Spec => []ScoreIsAMean
<1>1. Init => ScoreFollows
  BY DEF Init, ScoreFollows
<1>2. ScoreFollows /\ [Next]_vars => ScoreFollows'
  BY ScoreStep
<1>3. DerivedResults /\ ScoreFollows => ScoreIsAMean
  <2> SUFFICES ASSUME DerivedResults, ScoreFollows, phase = "scored"
               PROVE  ScoreIsAMean
    BY DEF ScoreIsAMean
  <2>1. IsRaw(raw_scores)
    BY ScoresAreRaw
  <2>2. LET Weight(i) == NormalizedWeight(raw_scores, i)
        IN  MapThenSumSet(Weight, DOMAIN raw_scores) = 10000
    BY <2>1, WeightsAddUp
  <2> QED
    BY <2>1, <2>2, RawScoreIsAMean DEF ScoreIsAMean
<1> QED
  BY <1>1, <1>2, <1>3, ResultsAreDerived, PTL DEF Spec
================================================================================
