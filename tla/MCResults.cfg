\* Two creates of one lineage in every repository, pages of two records, two failures.
CONSTANTS
  r1 = r1
  r2 = r2
  Result = {r1, r2}
  Nobody = Nobody
  PageSize = 2
  MaxFaults = 2
SPECIFICATION Spec
SYMMETRY Symmetry
INVARIANTS
  ReadIsWhole
  CompletedResultReadsBack
  ExportIsAllOrNothing
CHECK_DEADLOCK FALSE
