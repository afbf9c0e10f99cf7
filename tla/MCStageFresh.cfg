SPECIFICATION Spec
CONSTANTS
    Length = 4
    CHILD_JOBS = {}
    Lineage <- TinyLineage
    UNIQUE = {3}
    TRANSACTED = {}
    OPTIONAL_STAGES = {}
    PRODUCT_CLASSIFICATION = 1
    ATTRIBUTE_SELECTION = 1
    HUMAN_REVIEW = 2
    CATALOG_PROJECTION = 3
    PUBLISHING_READINESS = 4
    SkipIfBlocked = {4}
    ProjectionStatuses = {"READY"}
    ClearEvidence = 0
    PatchStatuses = {"DRAFT"}
    MaxEvidence = 0
    MaxVersion = 1
    MaxJobs = 8
    MaxFaults = 0
    PatientClient = TRUE
INVARIANTS
    FreshStageCompletes
