--------------------------- MODULE MCCatalogAnalysis ---------------------------
(***************************************************************************)
(* A schema with an attribute of each kind the engines treat differently,  *)
(* and lines of three sources that agree, disagree, nearly agree or cannot *)
(* be read.  The third source is read by OCR.                              *)
(***************************************************************************)
EXTENDS CatalogAnalysis

Plain == [ data_type |-> "NUMBER", required |-> FALSE, allowed_units |-> {}, dimension |-> None,
           min_value |-> None, max_value |-> None, permitted |-> None, canonical_text |-> FALSE ]

MCAttributes == <<"ratedPower", "phase", "current", "efficiency", "powerFactor", "mountingType">>

MCDefinition ==
    [ ratedPower   |-> [Plain EXCEPT !.required = TRUE, !.allowed_units = {"kW", "W"},
                                     !.dimension = "POWER"],
      phase        |-> [Plain EXCEPT !.data_type = "INTEGER", !.permitted = {1000, 3000}],
      current      |-> [Plain EXCEPT !.allowed_units = {"A"}, !.dimension = "CURRENT"],
      efficiency   |-> [Plain EXCEPT !.allowed_units = {"%"}, !.dimension = "PERCENT",
                                     !.min_value = 0, !.max_value = 100000],
      powerFactor  |-> [Plain EXCEPT !.min_value = 0, !.max_value = 1000],
      mountingType |-> [Plain EXCEPT !.data_type = "TEXT"] ]

Names(attribute, exact) == [attribute |-> attribute, exact |-> exact]

MCLabels ==
    [ power       |-> Names("ratedPower", TRUE),
      ratedPower  |-> Names("ratedPower", FALSE),
      phases      |-> Names("phase", TRUE),
      current     |-> Names("current", TRUE),
      efficiency  |-> Names("efficiency", TRUE),
      cosPhi      |-> Names("powerFactor", TRUE),
      mounting    |-> Names("mountingType", TRUE),
      colour      |-> Names(None, FALSE),
      rule        |-> Names(None, FALSE) ]

\* "rule" stands for a line of dashes; "kW." for a unit whose punctuation the
\* alias form drops and the unit registry does not know.
MCWordless == {"rule", "%"}

MCSchemaUnit == [ kW |-> "kW", W |-> "W", kWdot |-> "kW", A |-> "A", percent |-> "percent" ]

Rule(dimension, source, canonical, aliases, divisor) ==
    [ dimension |-> dimension, source_unit |-> source, canonical_unit |-> canonical,
      aliases |-> aliases, divisor |-> divisor, converts |-> divisor # 1 ]

MCUnitRules ==
    { Rule("POWER", "kW", "kW", {"kW"}, 1),
      Rule("POWER", "W", "kW", {"W"}, 1000),
      Rule("CURRENT", "A", "A", {"A"}, 1),
      Rule("PERCENT", "%", "%", {"%", "percent"}, 1) }

Number(value, unit) == [value |-> value, spelling |-> 0, unit |-> unit, form |-> "decimal"]

Whole(value, unit) == [Number(value, unit) EXCEPT !.form = "integer"]

Text(code, spelling) == [value |-> code, spelling |-> spelling, unit |-> None, form |-> "text"]

Quality == <<95, 90, 87>>

Line(source, location, place, label, raw) ==
    [ source |-> source, location |-> location, quality |-> Quality[source], place |-> place,
      label |-> label, raw |-> raw ]

MCPool ==
    << Line(1, 1, "hint", "power", Number(5520, "kW")),
       Line(1, 2, "hint", "power", Number(5520, "kW")),
       Line(1, 3, "hint", "power", Number(5500, None)),
       Line(2, 1, "separated", "power", Number(5499600, "W")),
       Line(2, 2, "separated", "ratedPower", Number(5540, "kW")),
       Line(2, 3, "separated", "power", Number(5500, "kWdot")),
       Line(3, 1, "prefix", "power", Number(5500, "kW")),
       Line(3, 2, "separated", "power", Text(1, 0)),
       Line(3, 3, "separated", "ratedPower", None),
       Line(1, 4, "hint", "phases", Whole(3000, None)),
       Line(2, 4, "separated", "phases", Whole(2000, None)),
       Line(3, 4, "prefix", "phases", Number(3000, None)),
       Line(1, 8, "hint", "current", Number(10800, None)),
       Line(1, 5, "hint", "efficiency", Number(91200, "%")),
       Line(2, 5, "separated", "efficiency", Text(2, 0)),
       Line(1, 6, "hint", "cosPhi", Number(860, None)),
       Line(2, 6, "separated", "cosPhi", Number(1200, None)),
       Line(1, 7, "hint", "mounting", Text(7, 0)),
       Line(2, 7, "separated", "mounting", Text(7, 1)),
       Line(3, 7, "prefix", "mounting", Text(8, 0)),
       Line(2, 8, "separated", "colour", Text(9, 0)),
       Line(3, 8, "separated", "rule", Text(9, 0)) >>

Types(attribute, raw, unit) == [attribute |-> attribute, raw |-> raw, unit |-> unit]

MCTyped ==
    { Types("ratedPower", Number(5500000, None), "W"),
      Types("ratedPower", Number(5500, None), None),
      Types("efficiency", Number(91200, None), "percent"),
      Types("efficiency", Number(191200, None), "%"),
      Types("phase", Number(1500, None), None),
      Types("phase", Whole(3000, None), None),
      Types("powerFactor", Number(1500, None), None),
      Types("mountingType", Text(8, 1), None) }

MCEnrichments == {None, [grounding |-> 10000, coverage |-> 3333]}
================================================================================
