SPECIFICATION FairSpec
CONSTANTS
  busy = busy
  quiet = quiet
  Repos = {busy, quiet}
  Items <- MCItems
  Pulls <- MCPulls
  PageSize = 2
  Connects = {c1, c2}
  Refreshes = {f1}
  Nothing = Nothing
INVARIANTS
  BaselineNeverDetected
  NoOrphanIssues
  ListedIsSandbox
  BlockedByItself
PROPERTIES
  StartsAndConnectsEnd
  ImplementsWriteAccess
