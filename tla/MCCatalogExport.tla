--------------------------- MODULE MCCatalogExport ---------------------------
EXTENDS CatalogExport, TLC

Symmetry == Permutations(Result)
=============================================================================
