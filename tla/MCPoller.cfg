SPECIFICATION Spec
CONSTANTS
    first = first
    second = second
    old = old
    i1 = i1
    i2 = i2
    i3 = i3
    Issues = {old, i1, i2, i3}
    RepoOrder <- TwoRepos
    RepoOf <- MCRepoOf2
    Baseline = {old}
    Injects = {v1}
    Refreshes = {q1}
    Nothing = nothing
    MayRestart = TRUE
    DbMayFail = TRUE
INVARIANTS
    TypeOK
    AutoRunOnce
    OneInsertPerIssue
PROPERTIES
    ImplementsIntake
