--------------------------- MODULE MCProductReview ---------------------------
(***************************************************************************)
(* A selection of two attributes: a required one that was AUTO_SELECTED    *)
(* from two sources, and an optional one whose review candidates are one   *)
(* with a warning and one that is invalid.                                 *)
(***************************************************************************)
EXTENDS ProductReview, TLC

CONSTANTS voltage, colour, primary, supporting, warned, invalid

AutoSelected == voltage :> primary @@ colour :> None

Supporting == voltage :> {primary, supporting} @@ colour :> {}

ForReview == voltage :> {} @@ colour :> {warned, invalid}

Symmetry == Permutations(ReviewIds) \cup Permutations(Handlers)

===============================================================================
