-------------------------- MODULE MCProductSources --------------------------
EXTENDS ProductSources, TLC

MCProductChange == {[status |-> "REVIEW_REQUIRED"], [category |-> "CENTRIFUGAL_PUMP"]}
MCSourceChange == {[status |-> "FAILED", error_message |-> "unreadable"], [status |-> "READY"],
                   [display_name |-> "sheet"]}
MCUpload == {[extension |-> ".pdf", mime |-> "application/pdf", content |-> "pdf"],
             [extension |-> ".csv", mime |-> "text/csv", content |-> "pdf"]}
Symmetry == Permutations(Client)
=============================================================================
