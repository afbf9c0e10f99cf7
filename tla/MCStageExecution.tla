--------------------------- MODULE MCStageExecution ---------------------------
(***************************************************************************)
(* Instances of StageExecution: a pipeline of four positions, and the      *)
(* whole pipeline with two child jobs.                                     *)
(***************************************************************************)
EXTENDS StageExecution

\* classification, review of it, projection, readiness
TinyLineage == [s \in 1 .. 4 |->
    CASE s = 3 -> {2}
      [] OTHER -> {}]

\* two child jobs, classification 3, extraction 4, normalization 5, conflict
\* detection 6, completeness 7, validation 8, selection 9, review 10,
\* materialization 11, projection 12, readiness 13, export 14, enrichment 15,
\* score 16
FullLineage == [s \in 1 .. 16 |->
    CASE s = 4  -> {3}
      [] s = 5  -> {4}
      [] s = 6  -> {5}
      [] s = 7  -> {6}
      [] s = 8  -> {5}
      [] s = 9  -> {5, 6, 7, 8}
      [] s = 11 -> {10}
      [] s = 12 -> {11}
      [] s = 14 -> {12}
      [] s = 15 -> {12}
      [] s = 16 -> {12, 15}
      [] OTHER  -> {}]

\* The bound on what happens in one behaviour: a fault, or more than one
\* change of the product, but not both.
FaultOrChanges == faults = 0 \/ product.version <= 2

===============================================================================
