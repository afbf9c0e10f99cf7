--------------------------- MODULE MCCatalogWorkflow ---------------------------
(***************************************************************************)
(* Small instances of CatalogWorkflow: a pipeline of four stages with one  *)
(* of each kind (selection, review, readiness, optional).                  *)
(***************************************************************************)
EXTENDS CatalogWorkflow, TLC

Symmetry == Permutations(Handlers) \cup Permutations(WorkflowIds)

===============================================================================
