SPECIFICATION EnrichmentSpec

CONSTANTS
  MaxAttempts = 2
  MaxBullets = 9
  MaxKeywords = 20
  MaxReferences = 500

INVARIANTS
  CauseIsNamed
  EndedRunIsRecorded
  LastAttemptDecides
  StoredContentIsGrounded

\* A run of a service ends.
CHECK_DEADLOCK FALSE
