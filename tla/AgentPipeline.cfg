SPECIFICATION Spec
CONSTANTS
    Pipelines = {sandbox, inspected}
    DiagnosisOnly = {inspected}
    MaxFixAttempts = 1
    MaxAttempts = 4
CHECK_DEADLOCK FALSE
INVARIANTS
    ApprovableIsVerified
    InspectedOnlyDiagnosed
    GivesUpWhenSpent
PROPERTIES
    PipelineEnds
    ImplementsConclusion
