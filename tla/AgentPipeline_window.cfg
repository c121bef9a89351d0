SPECIFICATION Spec
CONSTANTS
    Pipelines = {sandbox, inspected}
    DiagnosisOnly = {}
    MaxFixAttempts = 1
    MaxAttempts = 2
CHECK_DEADLOCK FALSE
INVARIANTS
    LeftoverLimitHasWindow
