SPECIFICATION FairSpec
CONSTANTS
  run = run
  injection = injection
  lookup = lookup
  approval = approval
  connect = connect
  refresh = refresh
  cycle = cycle
  Runs = {run, injection}
  Injections = {injection}
  Lookups = {lookup}
  Approvals = {approval}
  Connects = {connect}
  Refreshes = {refresh}
  Polls = {cycle}
  Readers = {v1, v2, t}
  AdHoc = {t}
  Together <- MCTogether
  Size = 2
  ServerThreads = 1
  Bodies <- MCBodies
  Calls <- MCCalls
  GeminiCalls = 2
  Nothing = Nothing
INVARIANTS
  NoLeak
  ExhaustedMeansCrowded
  HonestOutcome
PROPERTIES
  JobsEnd
