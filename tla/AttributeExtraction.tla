-------------------------- MODULE AttributeExtraction --------------------------
(***************************************************************************)
(* StructuredAttributeExtractionEngine: the lines of a product's sources   *)
(* become raw candidates for the attributes of its category's schema.      *)
(*                                                                         *)
(* A text is known by what the engines tell apart.  A raw value is a       *)
(* record: "value" is the number the text begins with, in thousandths, or  *)
(* the code of a text; "spelling" tells apart texts that only differ in    *)
(* case or spacing; "unit" is what follows the number; "form" says whether *)
(* the text begins with an integer, with a number that has a point, or     *)
(* with neither.  BOOLEAN and ENUM attributes are left out: the built-in   *)
(* schemas have none.                                                      *)
(***************************************************************************)
EXTENDS Integers, Sequences, SequencesExt

CONSTANTS
    Attributes,       \* the schema's attributes in display order, a sequence
    Definition,       \* attribute -> AttributeDefinition
    Labels,           \* label -> [attribute |-> the one it names or None,
                      \*           exact |-> it is spelled as in the schema]
    SchemaUnit,       \* unit as spelled in a text -> symbol with its alias form
    Wordless,         \* labels and units without a letter or a digit
    MaxPerAttribute,  \* max_candidates_per_attribute, 100 in the code
    None

AttributeSet == ToSet(Attributes)

\* required: BOOLEAN; allowed_units: symbols, which are canonical units too in
\* the built-in schemas; min_value, max_value and
\* permitted (allowed_values) are None when the schema has no such rule;
\* dimension is the entry in ATTRIBUTE_DIMENSIONS; canonical_text says whether
\* _canonical_text unifies the spellings of the attribute.
AttributeDefinition ==
    [ data_type : {"NUMBER", "INTEGER", "TEXT"}, required : BOOLEAN, allowed_units : SUBSET STRING,
      dimension : STRING \cup {None}, min_value : Int \cup {None}, max_value : Int \cup {None},
      permitted : SUBSET Int \cup {None}, canonical_text : BOOLEAN ]

ASSUME SchemaAssumption ==
    /\ Definition \in [AttributeSet -> AttributeDefinition]
    /\ \A a \in AttributeSet : Definition[a].data_type = "TEXT" => Definition[a].allowed_units = {}
    /\ Attributes \in Seq(AttributeSet) /\ IsInjective(Attributes)
    /\ \A label \in DOMAIN Labels : Labels[label].attribute \in AttributeSet \cup {None}
    /\ None \notin AttributeSet \cup {"ALIAS", "LIMIT"}
    /\ MaxPerAttribute \in Nat \ {0}

RawValue ==
    [ value : Int, spelling : Int, unit : DOMAIN SchemaUnit \cup Wordless \cup {None},
      form : {"integer", "decimal", "text"} ]

\* An item of evidence: place is where its label was found.
EvidenceItem ==
    [ source : Int, location : Int, quality : Int, place : {"hint", "separated", "prefix"},
      label : DOMAIN Labels, raw : RawValue \cup {None} ]

\* Is there no alias form of this text?  normalize_alias raises then.
HasNoAlias(text) == text \in Wordless

(* ------------------------------- parsing ------------------------------- *)

\* The text begins with a number the attribute admits.
ReadsAsNumber(definition, raw) ==
    /\ raw.form # "text"
    /\ ~ (definition.data_type = "INTEGER" /\ raw.form = "decimal")

\* _parse compares alias forms: those of the schema's own units first.
ParseRaises(definition, raw) ==
    /\ raw # None
    /\ definition.data_type # "TEXT"
    /\ ReadsAsNumber(definition, raw)
    /\ \/ \E symbol \in definition.allowed_units : HasNoAlias(symbol)
       \/ raw.unit # None /\ HasNoAlias(raw.unit)

UnitAllowed(definition, raw) ==
    raw.unit # None => SchemaUnit[raw.unit] \in definition.allowed_units

Parsed(value, unit, status, quality) ==
    [raw_value |-> value, raw_unit |-> unit, parse_status |-> status, parse_quality |-> quality]

\* _parse; the qualities are in hundredths of the code's basis points.
Parse(definition, raw) ==
    IF raw = None THEN Parsed(None, None, "MISSING_VALUE", 70)
    ELSE IF definition.data_type = "TEXT" THEN Parsed(raw, None, "RAW_TEXT", 90)
    ELSE IF ReadsAsNumber(definition, raw) /\ UnitAllowed(definition, raw)
         THEN Parsed([raw EXCEPT !.unit = None], raw.unit, "PARSED",
                     IF raw.unit # None \/ definition.allowed_units = {} THEN 100 ELSE 85)
         ELSE Parsed(raw, None, "RAW_TEXT", 70)

(* ------------------------------- matching ------------------------------ *)

\* _match: the label is a hint (a table's first cell, a CSV header), what
\* stands before a separator, or an alias the line begins with.
MatchRaises(item) == item.place \in {"hint", "separated"} /\ HasNoAlias(item.label)

Match(item) ==
    LET label == Labels[item.label]
    IN  CASE item.place = "hint" -> [attribute |-> label.attribute, quality |-> 85]
          [] item.place = "separated" ->
                [attribute |-> label.attribute, quality |-> IF label.exact THEN 90 ELSE 80]
          [] item.place = "prefix" ->
                [attribute |-> IF label.exact THEN label.attribute ELSE None, quality |-> 90]

(* ------------------------------ extraction ----------------------------- *)

Nothing == [found |-> <<>>, duplicates |-> 0, warned |-> FALSE, error |-> None]

Candidate(item, attribute, parsed, label_quality) ==
    [ attribute |-> attribute, raw_value |-> parsed.raw_value, raw_unit |-> parsed.raw_unit,
      parse_status |-> parsed.parse_status, source |-> item.source, location |-> item.location,
      confidence |-> (label_quality * item.quality * parsed.parse_quality) \div 100 ]

\* Mutant: a value is known by its source, wherever it stands there.
SameEvidence_anywhere(c, d) ==
    /\ c.attribute = d.attribute
    /\ c.raw_value = d.raw_value /\ c.raw_unit = d.raw_unit
    /\ c.source = d.source

\* The key under which a candidate is seen only once.
SameEvidence(c, d) ==
    /\ c.attribute = d.attribute
    /\ c.raw_value = d.raw_value /\ c.raw_unit = d.raw_unit
    /\ c.source = d.source /\ c.location = d.location

OfAttribute(candidates, attribute) == {i \in DOMAIN candidates : candidates[i].attribute = attribute}

\* One round of extract's loop.
Take(acc, item) ==
    LET matched == Match(item)
        attribute == matched.attribute
        definition == Definition[attribute]
        candidate == Candidate(item, attribute, Parse(definition, item.raw), matched.quality)
    IN  IF acc.error # None THEN acc
        ELSE IF MatchRaises(item) THEN [acc EXCEPT !.error = "ALIAS"]
        ELSE IF attribute = None THEN acc
        ELSE IF ParseRaises(definition, item.raw) THEN [acc EXCEPT !.error = "ALIAS"]
        ELSE LET warned == [acc EXCEPT !.warned = @ \/ candidate.parse_status = "MISSING_VALUE"]
             IN  IF \E c \in ToSet(acc.found) : SameEvidence(c, candidate)
                 THEN [warned EXCEPT !.duplicates = @ + 1]
                 ELSE IF Cardinality(OfAttribute(acc.found, attribute)) = MaxPerAttribute
                 THEN [warned EXCEPT !.error = "LIMIT"]
                 ELSE [warned EXCEPT !.found = Append(@, candidate)]

DisplayOrder(attribute) == CHOOSE i \in DOMAIN Attributes : Attributes[i] = attribute

\* The code's sort key; (source, location) is last but the raw value, which
\* only differs between two texts at one place.
Precedes(c, d) ==
    \/ DisplayOrder(c.attribute) < DisplayOrder(d.attribute)
    \/ /\ c.attribute = d.attribute
       /\ \/ c.confidence > d.confidence
          \/ /\ c.confidence = d.confidence
             /\ \/ c.source < d.source
                \/ c.source = d.source /\ c.location < d.location

\* Mutant: the candidates stay in the order in which they were found.
Ordered_as_found(found) == found

\* The code's sort is stable: candidates with one key stay in their order.
Ordered(found) ==
    LET Before(i, j) == \/ Precedes(found[i], found[j])
                        \/ ~ Precedes(found[j], found[i]) /\ i < j
        Rank(j) == Cardinality({i \in DOMAIN found : Before(i, j)})
    IN  [n \in DOMAIN found |-> found[CHOOSE j \in DOMAIN found : Rank(j) = n - 1]]

\* What has been taken after each number of lines.
Taken(evidence) ==
    LET acc[n \in 0 .. Len(evidence)] ==
            IF n = 0 THEN Nothing ELSE Take(acc[n - 1], evidence[n])
    IN  acc

\* extract: a candidate's id is its place in the result.
extract(evidence) == [Taken(evidence)[Len(evidence)] EXCEPT !.found = Ordered(@)]
================================================================================
