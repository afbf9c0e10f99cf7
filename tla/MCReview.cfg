SPECIFICATION Spec
CONSTANTS
    None = None
    voltage = voltage
    colour = colour
    primary = primary
    supporting = supporting
    warned = warned
    invalid = invalid
    Attributes = {voltage, colour}
    RequiredAttributes = {voltage}
    Candidates = {primary, supporting, warned, invalid}
    Approvable = {primary, supporting, warned}
    PrimaryCandidate <- AutoSelected
    SupportingCandidates <- Supporting
    ReviewCandidates <- ForReview
    ReviewIds = {r1, r2}
    Handlers = {h1, h2}
    Jobs = {j1, j2}
    MaxDecisions = 3
SYMMETRY Symmetry
INVARIANTS
    ReviewRecordsAgree
    CompletedIsResolved
    MaterializedAsDecided
PROPERTIES
    ImplementsReview
CHECK_DEADLOCK FALSE
