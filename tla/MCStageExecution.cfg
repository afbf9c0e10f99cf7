SPECIFICATION Spec
CONSTANTS
    Length = 4
    CHILD_JOBS = {}
    Lineage <- TinyLineage
    UNIQUE = {3}
    TRANSACTED = {}
    OPTIONAL_STAGES = {}
    PRODUCT_CLASSIFICATION = 1
    ATTRIBUTE_SELECTION = 1
    HUMAN_REVIEW = 2
    CATALOG_PROJECTION = 3
    PUBLISHING_READINESS = 4
    SkipIfBlocked = {4}
    ProjectionStatuses = {"READY"}
    ClearEvidence = 1
    PatchStatuses = {"DRAFT"}
    MaxEvidence = 1
    MaxVersion = 3
    MaxJobs = 4
    MaxFaults = 1
    PatientClient = FALSE
CONSTRAINT FaultOrChanges
INVARIANTS
    HeldResultsAreWhole
    OneUsableResultPerLineage
PROPERTIES
    ImplementsLifecycle
    ReadyOnlyAsProjected
CHECK_DEADLOCK FALSE
