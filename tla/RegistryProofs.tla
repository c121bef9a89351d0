--------------------------- MODULE RegistryProofs ---------------------------
(***************************************************************************)
(* What RepoRegistry guarantees for any repositories, any pages and any    *)
(* number of requests: that its broken-off transactions leave nothing      *)
(* behind, what a baseline protects, and the promise of WriteAccess.       *)
(***************************************************************************)
EXTENDS RepoRegistry, TLAPS

\* What is under way where: nothing of a seeding outlives it, nothing of a
\* request exists before the server is up, and whoever holds a row in an open
\* transaction holds one that is not committed.
Phases ==
    /\ server # "starting" => todo = {} /\ seeding = Nothing /\ flushed = {}
    /\ server # "up" => ~blocked /\ \A q \in Connects : connect[q] = Nothing
    /\ \A q \in Connects : connect[q] = Nothing <=> awaits[q] = "nothing"
    /\ \A q \in Connects : awaits[q] = "list" => type[connect[q]] = "none"
    /\ \A q \in Refreshes : refresh[q] # Nothing => type[refresh[q]] # "none"

Seedings ==
    /\ seeding # Nothing =>
          seeding \in flushed /\ \A n \in Numbers : origin[seeding][n] = "none"
    /\ todo \cap flushed = {}
    /\ \A r \in todo \cup flushed : r \in config /\ type[r] = "none"

\* The seeding loses sight of no repository of the list.
ListedFound ==
    server # "down" => \A r \in config : type[r] # "none" \/ r \in todo \cup skipped \cup flushed

\* A listed repository can only be an inspected one if a visitor had connected
\* it before the start, or GitHub refused it during the start.
VisitorsFirst ==
    server # "down" => \A r \in config : type[r] = "inspected" => r \in visited \cup skipped

\* A repository that has been imported.
Imported(r) == type[r] # "none" \/ (r \in flushed /\ r # seeding)

\* The baseline of an imported repository stays what it was, if it was complete.
BaselineKept ==
    \A r \in Repos, n \in Numbers :
        /\ origin[r][n] = "poller_detected" => type[r] = "sandbox"
        /\ Imported(r) /\ ~crowded[r] /\ n \in before[r] =>
              origin[r][n] \notin {"none", "poller_detected"}

RegistryInv ==
    /\ TypeOK
    /\ NoOrphanIssues
    /\ Phases
    /\ Seedings
    /\ ListedFound
    /\ VisitorsFirst
    /\ BlockedByItself
    /\ BaselineKept

Origins == {"none", "baseline", "manual_refresh", "poller_detected"}

-----------------------------------------------------------------------------
\* What the pieces of the actions do.

LEMMA NumbersNat == Numbers \subseteq Nat
BY RegistryAssumption DEF Numbers

\* An import adds rows for issues that have none and touches nothing else.
LEMMA SyncAdds ==
  ASSUME TypeOK, NEW r \in Repos, NEW as \in Origins, SyncIssues(r, as)
  PROVE  /\ origin' \in [Repos -> [Numbers -> Origins]]
         /\ \A s \in Repos : s # r => origin'[s] = origin[s]
         /\ \A n \in Numbers : origin'[r][n] =
                IF n \in Unknown(r) THEN as ELSE origin[r][n]
         /\ \A n \in Numbers : n \in Unknown(r) => origin[r][n] = "none"
<1>1. origin \in [Repos -> [Numbers -> Origins]]
  BY DEF TypeOK, Origins
<1>2. origin' = [origin EXCEPT ![r] = [n \in Numbers |->
                     IF n \in Unknown(r) THEN as ELSE origin[r][n]]]
  BY <1>1 DEF SyncIssues
<1>3. \A n \in Numbers : n \in Unknown(r) => origin[r][n] = "none"
  BY DEF Unknown
<1> QED
  BY <1>1, <1>2, <1>3

\* A complete page leaves no open issue of a fresh repository without a row.
LEMMA BaselineComplete ==
  ASSUME TypeOK, NEW r \in Repos, IngestBaseline(r),
         \A n \in Numbers : origin[r][n] = "none"
  PROVE  /\ before' \in [Repos -> SUBSET Numbers] /\ crowded' \in [Repos -> BOOLEAN]
         /\ \A s \in Repos : s # r => before'[s] = before[s] /\ crowded'[s] = crowded[s]
         /\ \A n \in Numbers : origin'[r][n] \in {"none", "baseline"}
         /\ ~crowded'[r] => \A n \in before'[r] : origin'[r][n] = "baseline"
<1>1. SyncIssues(r, "baseline")
  BY DEF IngestBaseline
<1>2. /\ before' = [before EXCEPT ![r] = open[r] \ Pulls[r]]
      /\ crowded' = [crowded EXCEPT ![r] = Page(r) # open[r]]
  BY DEF IngestBaseline
<1>3. \A n \in Numbers : origin'[r][n] = IF n \in Unknown(r) THEN "baseline" ELSE origin[r][n]
  BY <1>1, SyncAdds DEF Origins
<1>4. /\ before' \in [Repos -> SUBSET Numbers] /\ crowded' \in [Repos -> BOOLEAN]
      /\ before'[r] = open[r] \ Pulls[r] /\ crowded'[r] = (Page(r) # open[r])
      /\ open[r] \subseteq Numbers
  BY <1>2 DEF TypeOK
<1>5. ASSUME ~crowded'[r], NEW n \in before'[r] PROVE n \in Unknown(r) /\ n \in Numbers
  BY <1>4, <1>5 DEF Unknown, ListOpenIssues
<1> QED
  BY <1>2, <1>3, <1>4, <1>5 DEF TypeOK

LEMMA RollbackClears ==
  ASSUME TypeOK, origin' = Unflushed(flushed)
  PROVE  /\ origin' \in [Repos -> [Numbers -> Origins]]
         /\ \A r \in Repos, n \in Numbers :
               origin'[r][n] = IF r \in flushed THEN "none" ELSE origin[r][n]
BY DEF TypeOK, Unflushed, Origins

LEMMA GotoKeepsTypes ==
  ASSUME TypeOK, NEW q \in Connects, NEW r \in Repos \cup {Nothing},
         NEW a \in {"nothing", "repo", "list"}, Goto(q, r, a)
  PROVE  /\ connect' \in [Connects -> Repos \cup {Nothing}]
         /\ awaits' \in [Connects -> {"nothing", "repo", "list"}]
         /\ connect'[q] = r /\ awaits'[q] = a
         /\ \A p \in Connects : p # q => connect'[p] = connect[p] /\ awaits'[p] = awaits[p]
BY DEF TypeOK, Goto

-----------------------------------------------------------------------------
\* One lemma per action.

LEMMA RegistryInit == Init => RegistryInv
<1> SUFFICES ASSUME Init PROVE RegistryInv
  OBVIOUS
<1>1. created \in [Repos -> Nat] /\ \A r \in Repos : created[r] <= Items[r]
  <2>1. \A r \in Repos : created[r] \in Numbers \cup {0} /\ created[r] <= Items[r]
    BY DEF Init
  <2>2. created = [r \in Repos |-> created[r]]
    BY DEF Init
  <2> QED
    BY <2>1, <2>2, NumbersNat
<1>2. \A r \in Repos : 1 .. created[r] \subseteq Numbers
  BY <1>1, RegistryAssumption DEF Numbers
<1>3. TypeOK
  BY <1>1, <1>2 DEF Init, TypeOK
<1>4. NoOrphanIssues
  BY DEF Init, NoOrphanIssues
<1>5. Phases /\ Seedings /\ ListedFound /\ VisitorsFirst
  BY DEF Init, Phases, Seedings, ListedFound, VisitorsFirst
<1>6. BlockedByItself
  BY RegistryAssumption DEF Init, BlockedByItself, Holders
<1>7. BaselineKept
  BY DEF Init, BaselineKept, Imported
<1> QED
  BY <1>3, <1>4, <1>5, <1>6, <1>7 DEF RegistryInv

LEMMA GithubStep ==
  ASSUME RegistryInv, NEW r \in Repos, Open(r) \/ \E n \in Numbers : Toggle(r, n)
  PROVE  RegistryInv'
<1>1. UNCHANGED <<config, server, seedVars, type, origin, requests, blocked, history>>
  BY DEF Open, Toggle
<1>2. /\ created' \in [Repos -> Nat] /\ \A s \in Repos : created'[s] <= Items[s]
      /\ open' \in [Repos -> SUBSET Numbers]
  <2>1. CASE Open(r)
    <3>1. created[r] \in Nat /\ created[r] < Items[r] /\ Items[r] \in Nat
      BY <2>1, RegistryAssumption DEF Open, RegistryInv, TypeOK
    <3>2. /\ created' = [created EXCEPT ![r] = created[r] + 1] /\ created'[r] = created[r] + 1
          /\ open' = [open EXCEPT ![r] = open[r] \cup {created'[r]}]
      BY <2>1 DEF Open, RegistryInv, TypeOK
    <3>3. created[r] + 1 \in Numbers
      BY <3>1 DEF Numbers
    <3> QED
      BY <3>1, <3>2, <3>3 DEF RegistryInv, TypeOK
  <2>2. CASE \E n \in Numbers : Toggle(r, n)
    BY <2>2 DEF Toggle, RegistryInv, TypeOK
  <2> QED
    BY <2>1, <2>2
<1>3. TypeOK'
  BY <1>1, <1>2 DEF RegistryInv, TypeOK, seedVars, requests, history, imports
<1> QED
  BY <1>1, <1>3 DEF RegistryInv, NoOrphanIssues, Phases, Seedings, ListedFound, VisitorsFirst, BlockedByItself,
                    BaselineKept, Imported, Holders, seedVars, requests, history, imports

LEMMA StartStep == ASSUME RegistryInv, Start PROVE RegistryInv'
<1>1. /\ server = "down" /\ server' = "starting"
      /\ todo' = {r \in config : type[r] = "none"} /\ skipped' = {}
      /\ UNCHANGED <<github, config, seeding, flushed, type, origin, requests, blocked, imports>>
      /\ visited' = {r \in config : type[r] = "inspected"}
  BY DEF Start
<1>2. TypeOK'
  BY <1>1 DEF RegistryInv, TypeOK, github, requests, history, imports
<1>3. flushed = {} /\ seeding = Nothing
  BY <1>1 DEF RegistryInv, Phases
<1>4. Seedings' /\ ListedFound' /\ VisitorsFirst' /\ Phases'
  BY <1>1, <1>3 DEF RegistryInv, Seedings, ListedFound, VisitorsFirst, Phases, requests
<1> QED
  BY <1>1, <1>2, <1>4 DEF RegistryInv, NoOrphanIssues, BlockedByItself, BaselineKept, Imported,
                          Holders, requests, history, imports

LEMMA SeedRepoStep == ASSUME RegistryInv, NEW r \in Repos, SeedRepo(r) PROVE RegistryInv'
<1>1. /\ server = "starting" /\ seeding = Nothing /\ r \in todo /\ todo' = todo \ {r}
      /\ \/ seeding' = r /\ flushed' = flushed \cup {r} /\ skipped' = skipped
         \/ skipped' = skipped \cup {r} /\ seeding' = seeding /\ flushed' = flushed
      /\ UNCHANGED <<github, config, server, type, origin, requests, blocked, history>>
  BY DEF SeedRepo
<1>2. TypeOK'
  BY <1>1 DEF RegistryInv, TypeOK, github, requests, history, imports
<1>3. type[r] = "none" /\ r \in config /\ r \notin flushed /\ r # Nothing
  BY <1>1, RegistryAssumption DEF RegistryInv, Seedings
<1>4. \A n \in Numbers : origin[r][n] = "none"
  BY <1>3 DEF RegistryInv, NoOrphanIssues
<1>5. \A q \in Connects : connect[q] = Nothing /\ awaits[q] = "nothing"
  BY <1>1 DEF RegistryInv, Phases
<1>6. NoOrphanIssues'
  BY <1>1, <1>3, <1>5 DEF RegistryInv, NoOrphanIssues, Holders, requests
<1>7. Phases' /\ Seedings' /\ ListedFound' /\ VisitorsFirst'
  BY <1>1, <1>3, <1>4 DEF RegistryInv, Phases, Seedings, ListedFound, VisitorsFirst, requests, history
<1>8. BlockedByItself'
  BY <1>1 DEF RegistryInv, BlockedByItself, Holders, requests
<1>9. BaselineKept'
  <2>1. \A s \in Repos : Imported(s)' => Imported(s)
    BY <1>1, <1>3, RegistryAssumption DEF Imported
  <2> QED
    BY <1>1, <2>1 DEF RegistryInv, BaselineKept, history, imports
<1> QED
  BY <1>2, <1>6, <1>7, <1>8, <1>9 DEF RegistryInv

LEMMA SeedIssuesStep == ASSUME RegistryInv, SeedIssues PROVE RegistryInv'
<1>1. /\ server = "starting" /\ seeding # Nothing /\ seeding' = Nothing
      /\ IngestBaseline(seeding)
      /\ UNCHANGED <<github, config, server, todo, skipped, flushed, type, requests, blocked, visited>>
  BY DEF SeedIssues, IngestBaseline
<1>2. seeding \in Repos /\ seeding \in flushed /\ type[seeding] = "none"
      /\ \A n \in Numbers : origin[seeding][n] = "none"
  BY <1>1 DEF RegistryInv, TypeOK, Seedings
<1>3. /\ origin' \in [Repos -> [Numbers -> Origins]]
      /\ \A s \in Repos : s # seeding => origin'[s] = origin[s]
  BY <1>1, <1>2, SyncAdds DEF RegistryInv, IngestBaseline, Origins
<1>4. /\ before' \in [Repos -> SUBSET Numbers] /\ crowded' \in [Repos -> BOOLEAN]
      /\ \A s \in Repos : s # seeding => before'[s] = before[s] /\ crowded'[s] = crowded[s]
      /\ \A n \in Numbers : origin'[seeding][n] \in {"none", "baseline"}
      /\ ~crowded'[seeding] => \A n \in before'[seeding] : origin'[seeding][n] = "baseline"
  BY <1>1, <1>2, BaselineComplete DEF RegistryInv
<1>5. TypeOK'
  BY <1>1, <1>3, <1>4 DEF RegistryInv, TypeOK, github, requests, Origins
<1>6. NoOrphanIssues'
  BY <1>1, <1>2, <1>3 DEF RegistryInv, NoOrphanIssues, Holders, requests
<1>7. Phases' /\ Seedings' /\ ListedFound' /\ VisitorsFirst' /\ BlockedByItself'
  BY <1>1 DEF RegistryInv, Phases, Seedings, ListedFound, VisitorsFirst, BlockedByItself, Holders, requests
<1>8. BaselineKept'
  BY <1>1, <1>2, <1>3, <1>4 DEF RegistryInv, BaselineKept, Imported
<1> QED
  BY <1>5, <1>6, <1>7, <1>8 DEF RegistryInv

\* A rollback of the seeding, whether it failed or the process ends.
LEMMA RollbackStep ==
  ASSUME RegistryInv, server' = "down", config' \in SUBSET Repos,
         todo' = {}, seeding' = Nothing, skipped' = {}, flushed' = {},
         origin' = Unflushed(flushed), UNCHANGED <<github, type, imports>>,
         visited' \in SUBSET Repos,
         connect' = [q \in Connects |-> Nothing], awaits' = [q \in Connects |-> "nothing"],
         refresh' \in [Refreshes -> Repos \cup {Nothing}],
         \A q \in Refreshes : refresh'[q] \in {refresh[q], Nothing}, blocked' = FALSE
  PROVE  RegistryInv'
<1>1. /\ origin' \in [Repos -> [Numbers -> Origins]]
      /\ \A r \in Repos, n \in Numbers :
            origin'[r][n] = IF r \in flushed THEN "none" ELSE origin[r][n]
  BY RollbackClears DEF RegistryInv
<1>2. TypeOK'
  BY <1>1 DEF RegistryInv, TypeOK, github, history, imports, Origins
<1>3. NoOrphanIssues'
  BY <1>1 DEF RegistryInv, NoOrphanIssues
<1>4. Phases' /\ Seedings' /\ ListedFound' /\ VisitorsFirst'
  BY DEF RegistryInv, Phases, Seedings, ListedFound, VisitorsFirst
<1>5. BlockedByItself'
  BY DEF BlockedByItself, Holders
<1>6. \A r \in flushed : r \in Repos /\ type[r] = "none"
  BY DEF RegistryInv, TypeOK, Seedings
<1>7. BaselineKept'
  BY <1>1, <1>6 DEF RegistryInv, BaselineKept, Imported, history, imports
<1> QED
  BY <1>2, <1>3, <1>4, <1>5, <1>7 DEF RegistryInv

LEMMA SeedFailsStep == ASSUME RegistryInv, SeedFails PROVE RegistryInv'
<1>1. /\ connect = [q \in Connects |-> Nothing] /\ awaits = [q \in Connects |-> "nothing"]
      /\ blocked = FALSE
  <2>1. server = "starting"
    BY DEF SeedFails
  <2> QED
    BY <2>1 DEF RegistryInv, TypeOK, Phases
<1>2. /\ server' = "down" /\ todo' = {} /\ seeding' = Nothing /\ skipped' = {} /\ flushed' = {}
      /\ origin' = Unflushed(flushed) /\ config' \in SUBSET Repos
      /\ visited' \in SUBSET Repos
      /\ UNCHANGED <<github, type, requests, blocked, imports>>
  BY DEF SeedFails, RegistryInv, TypeOK, history
<1>3. connect' = connect /\ awaits' = awaits /\ refresh' = refresh
  BY <1>2 DEF requests
<1>4. refresh' \in [Refreshes -> Repos \cup {Nothing}]
  BY <1>3 DEF RegistryInv, TypeOK
<1> QED
  BY <1>1, <1>2, <1>3, <1>4, RollbackStep

LEMMA StopStep == ASSUME RegistryInv, Stop PROVE RegistryInv'
BY RollbackStep DEF Stop

LEMMA SeedCommitStep == ASSUME RegistryInv, SeedCommit PROVE RegistryInv'
<1>1. /\ server = "starting" /\ seeding = Nothing /\ todo = {} /\ server' = "up"
      /\ type' = [r \in Repos |-> IF r \in flushed THEN "sandbox" ELSE type[r]]
      /\ flushed' = {}
      /\ UNCHANGED <<github, config, todo, seeding, skipped, origin, requests, blocked, history>>
  BY DEF SeedCommit
<1>2. TypeOK'
  BY <1>1 DEF RegistryInv, TypeOK, github, requests, history, imports
<1>3. \A q \in Connects : connect[q] = Nothing /\ awaits[q] = "nothing"
  BY <1>1 DEF RegistryInv, Phases
<1>4. NoOrphanIssues'
  BY <1>1 DEF RegistryInv, NoOrphanIssues
<1>5. \A q \in Refreshes : refresh[q] \in Repos \cup {Nothing}
  BY DEF RegistryInv, TypeOK
<1>6. Phases' /\ Seedings' /\ ListedFound' /\ VisitorsFirst'
  BY <1>1, <1>3, <1>5 DEF RegistryInv, Phases, Seedings, ListedFound, VisitorsFirst, requests, history, TypeOK
<1>7. BlockedByItself'
  BY <1>1, <1>3 DEF RegistryInv, BlockedByItself, Holders, requests
<1>8. BaselineKept'
  <2>1. \A s \in Repos : /\ Imported(s)' => Imported(s)
                         /\ type[s] = "sandbox" => type'[s] = "sandbox"
    BY <1>1, RegistryAssumption DEF Imported
  <2> QED
    BY <1>1, <2>1 DEF RegistryInv, BaselineKept, history, imports
<1> QED
  BY <1>2, <1>4, <1>6, <1>7, <1>8 DEF RegistryInv

\* While the server serves, nothing of a seeding is left.
LEMMA ServingIsUp ==
  ASSUME RegistryInv, Serving
  PROVE  server = "up" /\ ~blocked /\ todo = {} /\ seeding = Nothing /\ flushed = {}
BY DEF Serving, RegistryInv, Phases

LEMMA AskConnectStep ==
  ASSUME RegistryInv, NEW q \in Connects, NEW r \in Repos, AskConnect(q, r)
  PROVE  RegistryInv'
<1>1. /\ connect'[q] = r /\ awaits'[q] = "repo"
      /\ \A p \in Connects : p # q => connect'[p] = connect[p] /\ awaits'[p] = awaits[p]
      /\ connect' \in [Connects -> Repos \cup {Nothing}]
      /\ awaits' \in [Connects -> {"nothing", "repo", "list"}]
  BY GotoKeepsTypes DEF AskConnect, RegistryInv
<1>2. UNCHANGED <<github, config, server, seedVars, type, origin, refresh, blocked, history>>
  BY DEF AskConnect
<1>3. server = "up" /\ ~blocked /\ connect[q] = Nothing /\ r # Nothing
  BY ServingIsUp, RegistryAssumption DEF AskConnect
<1>4. TypeOK'
  BY <1>1, <1>2 DEF RegistryInv, TypeOK, github, seedVars, history, imports
<1>5. \A s \in Repos : Holders(s)' \subseteq Holders(s)
  BY <1>1 DEF Holders
<1> QED
  BY <1>1, <1>2, <1>3, <1>4, <1>5 DEF RegistryInv, NoOrphanIssues, Phases, Seedings, ListedFound, VisitorsFirst,
     BlockedByItself, BaselineKept, Imported, seedVars, history, imports

LEMMA LeaveStep ==
  ASSUME RegistryInv, NEW q \in Connects, Serving, Goto(q, Nothing, "nothing"),
         UNCHANGED <<github, config, server, seedVars, type, origin, refresh, blocked, history>>
  PROVE  RegistryInv'
<1>1. /\ connect'[q] = Nothing /\ awaits'[q] = "nothing"
      /\ \A p \in Connects : p # q => connect'[p] = connect[p] /\ awaits'[p] = awaits[p]
      /\ connect' \in [Connects -> Repos \cup {Nothing}]
      /\ awaits' \in [Connects -> {"nothing", "repo", "list"}]
  BY GotoKeepsTypes DEF RegistryInv
<1>3. server = "up" /\ ~blocked
  BY ServingIsUp
<1>4. TypeOK'
  BY <1>1 DEF RegistryInv, TypeOK, github, seedVars, history, imports
<1>5. \A s \in Repos : Holders(s)' \subseteq Holders(s)
  BY <1>1 DEF Holders
<1> QED
  BY <1>1, <1>3, <1>4, <1>5 DEF RegistryInv, NoOrphanIssues, Phases, Seedings, ListedFound, VisitorsFirst,
     BlockedByItself, BaselineKept, Imported, seedVars, history, imports

LEMMA InsertRepoStep == ASSUME RegistryInv, NEW q \in Connects, InsertRepo(q) PROVE RegistryInv'
<1>0. PICK r : r = connect[q]
  OBVIOUS
<1>1. /\ Serving /\ awaits[q] = "repo"
      /\ UNCHANGED <<github, config, server, seedVars, type, origin, refresh, history>>
  BY DEF InsertRepo
<1>2. server = "up" /\ ~blocked /\ flushed = {}
  BY <1>1, ServingIsUp
<1>3. r \in Repos /\ r # Nothing
  BY <1>0, <1>1, RegistryAssumption DEF RegistryInv, TypeOK, Phases
<1>4. CASE type[r] # "none"
  <2>1. Goto(q, Nothing, "nothing") /\ UNCHANGED blocked
    BY <1>0, <1>4 DEF InsertRepo
  <2> QED
    BY <1>1, <2>1, LeaveStep
<1>5. CASE type[r] = "none" /\ Holders(r) # {}
  <2>1. blocked' = TRUE /\ connect' = connect /\ awaits' = awaits
    BY <1>0, <1>5 DEF InsertRepo
  <2>2. PICK p \in Holders(r) : TRUE
    BY <1>5
  <2>3. p \in Connects /\ p # q
    BY <1>1, <2>2 DEF Holders
  <2>4. TypeOK'
    BY <1>1, <2>1 DEF RegistryInv, TypeOK, github, seedVars, history, imports
  <2>5. BlockedByItself'
    <3>1. \A s : Holders(s)' = Holders(s)
      BY <2>1 DEF Holders
    <3>2. awaits'[q] = "repo" /\ p \in Holders(connect[q])' /\ connect'[q] = connect[q]
      BY <1>0, <1>1, <2>1, <2>2, <3>1
    <3>3. \E a, b \in Connects : a # b /\ awaits'[a] = "repo" /\ b \in Holders(connect[a])'
      BY <2>3, <3>2
    <3> QED
      BY <2>1, <3>1, <3>3 DEF RegistryInv, BlockedByItself
  <2> QED
    BY <1>1, <1>2, <2>1, <2>4, <2>5 DEF RegistryInv, NoOrphanIssues, Phases, Seedings, ListedFound, VisitorsFirst,
       BaselineKept, Imported, Holders, seedVars, history, imports
<1>6. CASE type[r] = "none" /\ Holders(r) = {}
  <2>0. Goto(q, r, "list") /\ UNCHANGED blocked
    BY <1>0, <1>6 DEF InsertRepo
  <2>1. /\ connect'[q] = r /\ awaits'[q] = "list"
        /\ \A p \in Connects : p # q => connect'[p] = connect[p] /\ awaits'[p] = awaits[p]
        /\ connect' \in [Connects -> Repos \cup {Nothing}]
        /\ awaits' \in [Connects -> {"nothing", "repo", "list"}]
    BY <1>3, <2>0, GotoKeepsTypes DEF RegistryInv
  <2>2. Holders(r)' \subseteq {q} /\ \A s \in Repos : s # r => Holders(s)' \subseteq Holders(s)
    BY <1>6, <2>1 DEF Holders
  <2>3. TypeOK'
    BY <1>1, <2>0, <2>1 DEF RegistryInv, TypeOK, github, seedVars, history, imports
  <2>4. NoOrphanIssues'
    BY <1>1, <1>2 DEF RegistryInv, NoOrphanIssues, seedVars
  <2>5. Phases'
    BY <1>1, <1>2, <1>3, <1>6, <2>0, <2>1 DEF RegistryInv, Phases, seedVars
  <2>6. BlockedByItself'
    <3>1. \A s \in Repos : \A a, b \in Holders(s)' : a = b
      BY <2>2 DEF RegistryInv, BlockedByItself
    <3> QED
      BY <1>2, <2>0, <3>1 DEF BlockedByItself
  <2> QED
    BY <1>1, <2>3, <2>4, <2>5, <2>6 DEF RegistryInv, Seedings, ListedFound, VisitorsFirst, BaselineKept,
       Imported, seedVars, history, imports
<1> QED
  BY <1>4, <1>5, <1>6

LEMMA StoreRepoStep == ASSUME RegistryInv, NEW q \in Connects, StoreRepo(q) PROVE RegistryInv'
<1>0. PICK r : r = connect[q]
  OBVIOUS
<1>1. /\ Serving /\ awaits[q] = "list" /\ IngestBaseline(r) /\ Goto(q, Nothing, "nothing")
      /\ type' = [type EXCEPT ![r] = "inspected"]
      /\ UNCHANGED <<github, config, server, seedVars, refresh, blocked, visited>>
  BY <1>0 DEF StoreRepo, IngestBaseline
<1>2. server = "up" /\ ~blocked /\ flushed = {} /\ seeding = Nothing /\ todo = {}
  BY <1>1, ServingIsUp
<1>3. r \in Repos /\ r # Nothing /\ type[r] = "none"
  BY <1>0, <1>1, RegistryAssumption DEF RegistryInv, TypeOK, Phases
<1>4. \A n \in Numbers : origin[r][n] = "none"
  BY <1>2, <1>3 DEF RegistryInv, NoOrphanIssues
<1>5. /\ connect'[q] = Nothing /\ awaits'[q] = "nothing"
      /\ \A p \in Connects : p # q => connect'[p] = connect[p] /\ awaits'[p] = awaits[p]
      /\ connect' \in [Connects -> Repos \cup {Nothing}]
      /\ awaits' \in [Connects -> {"nothing", "repo", "list"}]
  BY <1>1, GotoKeepsTypes DEF RegistryInv
<1>6. /\ origin' \in [Repos -> [Numbers -> Origins]]
      /\ \A s \in Repos : s # r => origin'[s] = origin[s]
  BY <1>1, <1>3, SyncAdds DEF RegistryInv, IngestBaseline, Origins
<1>7. /\ before' \in [Repos -> SUBSET Numbers] /\ crowded' \in [Repos -> BOOLEAN]
      /\ \A s \in Repos : s # r => before'[s] = before[s] /\ crowded'[s] = crowded[s]
      /\ \A n \in Numbers : origin'[r][n] \in {"none", "baseline"}
      /\ ~crowded'[r] => \A n \in before'[r] : origin'[r][n] = "baseline"
  BY <1>1, <1>3, <1>4, BaselineComplete DEF RegistryInv
<1>8. type' \in [Repos -> {"none", "inspected", "sandbox"}] /\ type'[r] = "inspected"
      /\ \A s \in Repos : s # r => type'[s] = type[s]
  BY <1>1, <1>3 DEF RegistryInv, TypeOK
<1>9. Holders(r)' = {} /\ \A s \in Repos : Holders(s)' \subseteq Holders(s)
  <2>1. q \in Holders(r) /\ \A p \in Holders(r) : p = q
    BY <1>0, <1>1, <1>3 DEF RegistryInv, BlockedByItself, Holders
  <2> QED
    BY <1>3, <1>5, <2>1 DEF Holders
<1>10. TypeOK'
  BY <1>1, <1>5, <1>6, <1>7, <1>8 DEF RegistryInv, TypeOK, github, seedVars, Origins
<1>11. NoOrphanIssues'
  BY <1>1, <1>2, <1>6, <1>8 DEF RegistryInv, NoOrphanIssues, seedVars
<1>12. Phases'
  <2>1. \A p \in Connects : awaits'[p] = "list" => type'[connect'[p]] = "none"
    <3> SUFFICES ASSUME NEW p \in Connects, awaits'[p] = "list" PROVE type'[connect'[p]] = "none"
      OBVIOUS
    <3>1. p # q /\ connect'[p] = connect[p] /\ awaits[p] = "list"
      BY <1>5
    <3>2. connect[p] \in Repos /\ type[connect[p]] = "none"
      BY <3>1 DEF RegistryInv, TypeOK, Phases
    <3>3. connect[p] # r
      BY <1>9, <3>1, <1>5 DEF Holders
    <3> QED
      BY <1>8, <3>1, <3>2, <3>3
  <2>2. \A p \in Refreshes : refresh'[p] # Nothing => type'[refresh'[p]] # "none"
    BY <1>1, <1>8 DEF RegistryInv, TypeOK, Phases
  <2> QED
    BY <1>1, <1>2, <1>5, <2>1, <2>2 DEF RegistryInv, Phases, seedVars
<1>13. Seedings' /\ ListedFound' /\ VisitorsFirst'
  <2>1. r \in config => r \in skipped
    BY <1>2, <1>3 DEF RegistryInv, ListedFound
  <2> QED
    BY <1>1, <1>2, <1>8, <2>1 DEF RegistryInv, TypeOK, Seedings, ListedFound, VisitorsFirst, seedVars
<1>14. BlockedByItself'
  BY <1>1, <1>2, <1>9 DEF RegistryInv, BlockedByItself
<1>15. BaselineKept'
  BY <1>1, <1>2, <1>6, <1>7, <1>8 DEF RegistryInv, BaselineKept, Imported, seedVars
<1> QED
  BY <1>10, <1>11, <1>12, <1>13, <1>14, <1>15 DEF RegistryInv

\* A refresh or a poll of a repository that has a row.
LEMMA SyncStep ==
  ASSUME RegistryInv, Serving, NEW r \in Repos, type[r] # "none",
         NEW as \in {"manual_refresh", "poller_detected"},
         as = "poller_detected" => type[r] = "sandbox",
         SyncIssues(r, as) \/ UNCHANGED origin,
         UNCHANGED <<github, config, server, seedVars, type, connect, awaits, blocked, history>>,
         refresh' \in [Refreshes -> Repos \cup {Nothing}],
         \A q \in Refreshes : refresh'[q] \in {refresh[q], Nothing}
  PROVE  RegistryInv'
<1>1. /\ origin' \in [Repos -> [Numbers -> Origins]]
      /\ \A s \in Repos, n \in Numbers :
            \/ origin'[s][n] = origin[s][n]
            \/ s = r /\ origin'[s][n] = as /\ origin[s][n] = "none"
  <2>1. CASE SyncIssues(r, as)
    BY <2>1, SyncAdds DEF RegistryInv, Origins
  <2>2. CASE UNCHANGED origin
    BY <2>2 DEF RegistryInv, TypeOK, Origins
  <2> QED
    BY <2>1, <2>2
<1>2. flushed = {} /\ seeding = Nothing /\ server = "up"
  BY ServingIsUp
<1>3. TypeOK'
  BY <1>1 DEF RegistryInv, TypeOK, github, seedVars, history, imports, Origins
<1>4. NoOrphanIssues'
  <2>1. flushed' = {} /\ type' = type
    BY <1>2 DEF seedVars
  <2>2. ASSUME NEW s \in Repos, NEW n \in Numbers, origin'[s][n] # "none" PROVE type'[s] # "none"
    <3>1. origin'[s][n] = origin[s][n] \/ s = r
      BY <1>1
    <3>2. origin[s][n] # "none" => type[s] # "none"
      BY <1>2 DEF RegistryInv, NoOrphanIssues
    <3> QED
      BY <2>1, <2>2, <3>1, <3>2
  <2> QED
    BY <2>1, <2>2 DEF NoOrphanIssues
<1>5. Phases' /\ Seedings' /\ ListedFound' /\ VisitorsFirst' /\ BlockedByItself'
  BY <1>2 DEF RegistryInv, Phases, Seedings, ListedFound, VisitorsFirst, BlockedByItself, Holders, seedVars, history
<1>6. BaselineKept'
  <2> SUFFICES ASSUME NEW s \in Repos, NEW n \in Numbers
               PROVE  /\ origin'[s][n] = "poller_detected" => type'[s] = "sandbox"
                      /\ Imported(s)' /\ ~crowded'[s] /\ n \in before'[s] =>
                            origin'[s][n] \notin {"none", "poller_detected"}
    BY DEF BaselineKept
  <2>1. type' = type /\ crowded' = crowded /\ before' = before /\ (Imported(s)' <=> Imported(s))
    BY DEF Imported, seedVars, history, imports
  <2> QED
    BY <1>1, <2>1 DEF RegistryInv, BaselineKept
<1> QED
  BY <1>3, <1>4, <1>5, <1>6 DEF RegistryInv

LEMMA AskRefreshStep ==
  ASSUME RegistryInv, NEW q \in Refreshes, NEW r \in Repos, AskRefresh(q, r)
  PROVE  RegistryInv'
<1>1. /\ type[r] # "none" /\ refresh' = [refresh EXCEPT ![q] = r]
      /\ UNCHANGED <<github, config, server, seedVars, type, origin, connect, awaits, blocked, history>>
  BY DEF AskRefresh
<1>2. TypeOK'
  BY <1>1 DEF RegistryInv, TypeOK, github, seedVars, history, imports
<1>3. Phases'
  BY <1>1 DEF RegistryInv, TypeOK, Phases, seedVars
<1> QED
  BY <1>1, <1>2, <1>3 DEF RegistryInv, NoOrphanIssues, Seedings, ListedFound, VisitorsFirst, BlockedByItself,
     BaselineKept, Imported, Holders, seedVars, history, imports

LEMMA EndRefreshStep == ASSUME RegistryInv, NEW q \in Refreshes, EndRefresh(q) PROVE RegistryInv'
<1>1. /\ Serving /\ refresh[q] # Nothing /\ refresh' = [refresh EXCEPT ![q] = Nothing]
      /\ SyncIssues(refresh[q], "manual_refresh") \/ UNCHANGED origin
      /\ UNCHANGED <<github, config, server, seedVars, type, connect, awaits, blocked, history>>
  BY DEF EndRefresh
<1>2. refresh[q] \in Repos /\ type[refresh[q]] # "none"
  BY <1>1 DEF RegistryInv, TypeOK, Phases
<1>3. /\ refresh' \in [Refreshes -> Repos \cup {Nothing}]
      /\ \A p \in Refreshes : refresh'[p] \in {refresh[p], Nothing}
  BY <1>1 DEF RegistryInv, TypeOK
<1> QED
  BY <1>1, <1>2, <1>3, SyncStep

LEMMA PollStep == ASSUME RegistryInv, NEW r \in Repos, Poll(r) PROVE RegistryInv'
<1>1. /\ Serving /\ type[r] = "sandbox" /\ SyncIssues(r, "poller_detected")
      /\ UNCHANGED <<github, config, server, seedVars, type, requests, blocked, history>>
  BY DEF Poll
<1>2. /\ refresh' \in [Refreshes -> Repos \cup {Nothing}]
      /\ \A p \in Refreshes : refresh'[p] \in {refresh[p], Nothing}
      /\ UNCHANGED <<connect, awaits>>
  BY <1>1 DEF RegistryInv, TypeOK, requests
<1> QED
  BY <1>1, <1>2, SyncStep

LEMMA RegistryStep == RegistryInv /\ [Next]_vars => RegistryInv'
<1> SUFFICES ASSUME RegistryInv, [Next]_vars PROVE RegistryInv'
  OBVIOUS
<1>1. CASE Start
  BY <1>1, StartStep
<1>2. CASE SeedNext
  BY <1>2, SeedRepoStep, SeedIssuesStep, SeedFailsStep, SeedCommitStep DEF SeedNext
<1>3. CASE Stop
  BY <1>3, StopStep
<1>4. ASSUME NEW q \in Connects, ConnectNext(q) PROVE RegistryInv'
  <2>1. CASE FailConnect(q)
    BY <2>1, LeaveStep DEF FailConnect
  <2> QED
    BY <1>4, <2>1, InsertRepoStep, StoreRepoStep DEF ConnectNext
<1>5. ASSUME NEW q \in Connects, NEW r \in Repos, AskConnect(q, r) PROVE RegistryInv'
  BY <1>5, AskConnectStep
<1>6. ASSUME NEW q \in Refreshes, EndRefresh(q) \/ \E r \in Repos : AskRefresh(q, r)
      PROVE  RegistryInv'
  BY <1>6, EndRefreshStep, AskRefreshStep
<1>7. ASSUME NEW r \in Repos, Poll(r) \/ Open(r) \/ \E n \in Numbers : Toggle(r, n)
      PROVE  RegistryInv'
  BY <1>7, PollStep, GithubStep
<1>8. CASE UNCHANGED vars
  BY <1>8 DEF vars, github, seedVars, requests, history, imports, RegistryInv, TypeOK, NoOrphanIssues,
     Phases, Seedings, ListedFound, VisitorsFirst, BlockedByItself, BaselineKept, Imported, Holders
<1> QED
  BY <1>1, <1>2, <1>3, <1>4, <1>5, <1>6, <1>7, <1>8 DEF Next

LEMMA RegistryAlways == Spec => []RegistryInv
BY RegistryInit, RegistryStep, PTL DEF Spec

-----------------------------------------------------------------------------
\* Every variable of the registry keeps its type.
THEOREM RegistryTypeCorrect == Spec => []TypeOK
<1>1. RegistryInv => TypeOK
  BY DEF RegistryInv
<1> QED
  BY <1>1, RegistryAlways, PTL

\* Starts and connects that break off leave no issue and no half repository.
THEOREM NothingLeftBehind == Spec => []NoOrphanIssues
<1>1. RegistryInv => NoOrphanIssues
  BY DEF RegistryInv
<1> QED
  BY <1>1, RegistryAlways, PTL

\* A server that is up has every repository of its list as a sandbox, unless
\* GitHub refused it or a visitor had connected it before.
THEOREM ListIsGranted == Spec => []ListedIsSandbox
<1>1. ASSUME RegistryInv PROVE ListedIsSandbox
  <2>1. ASSUME server = "up", NEW r \in config
        PROVE  type[r] = "sandbox" \/ r \in skipped \/ r \in visited
    <3>1. type[r] \in {"none", "inspected", "sandbox"} /\ todo = {} /\ flushed = {}
      BY <1>1, <2>1 DEF RegistryInv, TypeOK, Phases
    <3>2. CASE type[r] = "none"
      BY <1>1, <2>1, <3>1, <3>2 DEF RegistryInv, ListedFound
    <3>3. CASE type[r] = "inspected"
      BY <1>1, <2>1, <3>3 DEF RegistryInv, VisitorsFirst
    <3> QED
      BY <3>1, <3>2, <3>3
  <2> QED
    BY <2>1 DEF ListedIsSandbox
<1> QED
  BY <1>1, RegistryAlways, PTL

\* The only wait of the loop is one it would have to end itself.
THEOREM WaitsForItself == Spec => []BlockedByItself
<1>1. RegistryInv => BlockedByItself
  BY DEF RegistryInv
<1> QED
  BY <1>1, RegistryAlways, PTL

\* A baseline that fitted on its page is never taken for new.
THEOREM BaselineProtected == Spec => []BaselineNeverDetected
<1>1. RegistryInv => BaselineNeverDetected
  BY DEF RegistryInv, BaselineKept, BaselineNeverDetected, Imported
<1> QED
  BY <1>1, RegistryAlways, PTL

\* The registry implements WriteAccess: its transactions are the grants and
\* inspections of the promise.
THEOREM WriteAccessImplemented == Spec => ImplementsWriteAccess
<1>1. Init => WA!Init
  BY DEF Init, WA!Init
<1>2. ASSUME RegistryInv, [Next]_vars PROVE [WA!Next]_<<config, type>>
  <2>1. CASE UNCHANGED <<config, type>>
    BY <2>1
  <2>2. CASE Stop
    <3>1. WA!Reconfigure
      BY <2>2 DEF Stop, WA!Reconfigure
    <3> QED
      BY <3>1 DEF WA!Next
  <2>3. CASE SeedCommit
    <3>1. flushed \subseteq {r \in config : type[r] = "none"} /\ flushed \in SUBSET Repos
      BY <1>2 DEF RegistryInv, TypeOK, Seedings
    <3>2. WA!Grant(flushed)
      BY <2>3, <3>1 DEF SeedCommit, WA!Grant
    <3> QED
      BY <3>1, <3>2 DEF WA!Next
  <2>4. ASSUME NEW q \in Connects, StoreRepo(q) PROVE WA!Next
    <3>1. connect[q] \in Repos /\ type[connect[q]] = "none"
      BY <1>2, <2>4, RegistryAssumption DEF StoreRepo, RegistryInv, TypeOK, Phases
    <3>2. WA!Inspect(connect[q])
      BY <2>4, <3>1 DEF StoreRepo, WA!Inspect
    <3> QED
      BY <3>1, <3>2 DEF WA!Next
  <2>5. \/ UNCHANGED <<config, type>> \/ Stop \/ SeedCommit \/ \E q \in Connects : StoreRepo(q)
    BY <1>2 DEF Next, vars, Start, SeedNext, SeedRepo, SeedIssues, SeedFails, ConnectNext, InsertRepo,
       FailConnect, AskConnect, AskRefresh, EndRefresh, Poll, Open, Toggle
  <2> QED
    BY <2>1, <2>2, <2>3, <2>4, <2>5
<1> QED
  BY <1>1, <1>2, RegistryAlways, PTL DEF Spec, ImplementsWriteAccess, WA!Spec, WA!vars

=============================================================================
