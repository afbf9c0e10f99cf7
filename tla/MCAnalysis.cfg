\* Every set of at most four lines, through all the engines.
SPECIFICATION Spec
CONSTANTS
    None = None
    Attributes <- MCAttributes
    Definition <- MCDefinition
    Labels <- MCLabels
    SchemaUnit <- MCSchemaUnit
    Wordless <- MCWordless
    UnitRules <- MCUnitRules
    Pool <- MCPool
    Typed <- MCTyped
    Enrichments <- MCEnrichments
    MaxPerAttribute = 3
    RelativeTolerance = 50
    MinConfidence = 9000
    MinSources = 2
    MaxEvidence = 4
INVARIANTS
    OrderIrrelevant
    NoEvidenceIsLost
    AgreementIsMutual
    AutoSelectedIsUncontested
    ReadyMeansComplete
    FinalValuesObeyTheSchema
    OnlyOverridesAreRefused
    ScoreIsAMean
\* The analysis ends: scored, refused or never reviewed.
CHECK_DEADLOCK FALSE
