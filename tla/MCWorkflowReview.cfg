SPECIFICATION FairSpec
CONSTANTS
    StageCount = 4
    ATTRIBUTE_SELECTION = 1
    HUMAN_REVIEW = 2
    PUBLISHING_READINESS = 3
    OPTIONAL_STAGES = {4}
    MayBeSkipped = {4}
    Products = {p1}
    Selections = {s1, s2}
    SourceIds = {src1}
    NoSelection = NoSelection
    WorkflowIds = {w1}
    Handlers = {h1, h2}
    MAX_SOURCES = 50
    PatchStatuses = {"DRAFT"}
    MaxProductVersion = 2
    MaxFaults = 0
    None = None
INVARIANTS
    NoReviewBypass
PROPERTIES
    ResumedAfterReview
    WorkflowSettles
