SPECIFICATION FairSpec
CONSTANTS
    first = first
    second = second
    old = old
    i1 = i1
    i2 = i2
    i3 = i3
    Issues = {old, i1, i2}
    RepoOrder <- OneRepo
    RepoOf <- MCRepoOf1
    Baseline = {old}
    Injects = {v1}
    Refreshes = {q1}
    Nothing = nothing
    MayRestart = FALSE
    DbMayFail = FALSE
INVARIANTS
    LoopNeverBlocked
    DetectedIssueHasTask
PROPERTIES
    OpenIssueStored
    DetectedIssueRuns
    TriggerServed
