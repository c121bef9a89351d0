SPECIFICATION Spec
CONSTANTS
    buggy = buggy
    watched = watched
    r1 = r1
    r2 = r2
    r3 = r3
    a1 = a1
    a2 = a2
    Issues = {buggy, watched}
    SandboxIssues = {buggy}
    Runs = {r1, r2, r3}
    IssueOf <- MCIssueOf
    NoRun = nobody
    Approvals <- MCApprovals
    Rejections = {j1}
    DailyRunCap = 2
SYMMETRY MCSymmetry
INVARIANTS
    TypeOK
    WritesPassTheGate
    PrCarriesPatch
    ClosedIssueExplained
    PublishedRunBacked
    SingleFinisher
    LatestRunVisible
    RequestsBacked
PROPERTIES
    StrandedForGood
    ImplementsGate
