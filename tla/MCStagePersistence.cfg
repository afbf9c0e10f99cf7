SPECIFICATION Persistent
CONSTANTS
    Length = 16
    CHILD_JOBS = {1, 2}
    Lineage <- FullLineage
    UNIQUE = {11, 12, 14, 15, 16}
    TRANSACTED = {16}
    OPTIONAL_STAGES = {14, 15, 16}
    PRODUCT_CLASSIFICATION = 3
    ATTRIBUTE_SELECTION = 9
    HUMAN_REVIEW = 10
    CATALOG_PROJECTION = 12
    PUBLISHING_READINESS = 13
    SkipIfBlocked = {13, 14, 15}
    ProjectionStatuses = {"READY"}
    ClearEvidence = 0
    PatchStatuses = {"DRAFT"}
    MaxEvidence = 0
    MaxVersion = 1
    MaxJobs = 32
    MaxFaults = 0
    PatientClient = TRUE
INVARIANTS
    SameLineage
PROPERTIES
    PersistenceCompletes
