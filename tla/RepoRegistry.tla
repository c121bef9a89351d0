---------------------------- MODULE RepoRegistry ----------------------------
(***************************************************************************)
(* Which repositories the platform knows, what it may do with them, and    *)
(* the first import of their issues: seed_sandbox_repos in the lifespan of *)
(* the application, the routes connect and refresh-issues, and one page of *)
(* the issue list (repo_service.py, routes_repos.py, main.py).             *)
(*                                                                         *)
(* A step is the code from one await to the next.  The seeding holds ONE   *)
(* transaction over all its awaits, and no request is served before it has *)
(* committed.  A connect holds its own from the insert of the row to the   *)
(* end of the baseline import; another insert of the same name waits for   *)
(* it, on the event loop that has to carry it on.  A poll is one step      *)
(* here: Poller models how its transaction meets the others.               *)
(***************************************************************************)
EXTENDS Naturals, FiniteSets

CONSTANTS
    Repos,          \* repositories on GitHub
    Items,          \* Items[r]: how many issues and pull requests r may get
    Pulls,          \* Pulls[r]: the numbers among them that are pull requests
    PageSize,       \* list_open_issues reads one page of open items, newest first
    Connects,       \* connect requests that may be in flight together
    Refreshes,      \* refresh-issues requests that may be in flight together
    Nothing         \* no repository

Numbers == UNION {1 .. Items[r] : r \in Repos}

ASSUME RegistryAssumption ==
    /\ Items \in [Repos -> Nat]
    /\ Pulls \in [Repos -> SUBSET Nat]
    /\ PageSize \in Nat \ {0}
    /\ Nothing \notin Repos

VARIABLES
    created,    \* created[r]: the items of r so far are numbered 1 .. created[r]
    open,       \* open[r]: the ones that are open
    config,     \* settings.sandbox_repo_list
    server,     \* "down", "starting" or "up"
    todo,       \* repositories of the list the seeding has not come to
    seeding,    \* the repository whose issue list the seeding awaits
    skipped,    \* repositories whose get_repo failed in this start
    flushed,    \* rows in the open transaction of the seeding
    type,       \* type[r]: repo_type of the committed row
    origin,     \* origin[r][n]: of a committed issue row, or of a flushed one
    connect,    \* connect[q]: the repository q is connecting
    awaits,     \* awaits[q]: the answer q awaits
    refresh,    \* refresh[q]: the repository whose list q awaits
    blocked,    \* the event loop sits in a database wait
    before,     \* history: before[r], the open issues when r was imported
    crowded,    \* history: crowded[r], not all open items were on the page then
    visited     \* history: repositories of the list that visitors had connected
                \* before this start

github   == <<created, open>>
seedVars == <<todo, seeding, skipped, flushed>>
requests == <<connect, awaits, refresh>>
imports  == <<before, crowded>>
history  == <<imports, visited>>
vars == <<github, config, server, seedVars, type, origin, requests, blocked, history>>

-----------------------------------------------------------------------------
\* GitHub.

\* One page of open items, issues and pull requests alike, newest first ...
Page(r) == {n \in open[r] : Cardinality({k \in open[r] : k > n}) < PageSize}

\* ... from which list_open_issues then drops the pull requests.
ListOpenIssues(r) == Page(r) \ Pulls[r]

Open(r) ==
    /\ created[r] < Items[r]
    /\ created' = [created EXCEPT ![r] = @ + 1]
    /\ open' = [open EXCEPT ![r] = @ \cup {created'[r]}]
    /\ UNCHANGED <<config, server, seedVars, type, origin, requests, blocked, history>>

\* Closed, merged or reopened.
Toggle(r, n) ==
    /\ n \in 1 .. created[r]
    /\ open' = [open EXCEPT ![r] = IF n \in @ THEN @ \ {n} ELSE @ \cup {n}]
    /\ UNCHANGED <<created, config, server, seedVars, type, origin, requests, blocked, history>>

-----------------------------------------------------------------------------
\* _sync_issues.

Unknown(r) == {n \in ListOpenIssues(r) : origin[r][n] = "none"}

\* Insert the listed issues that have no row.
SyncIssues(r, as) ==
    origin' = [origin EXCEPT ![r] = [n \in Numbers |-> IF n \in Unknown(r) THEN as ELSE @[n]]]

\* Slip: the import is left to the first refresh.
IngestLater(r) ==
    /\ UNCHANGED <<origin, visited>>
    /\ before' = [before EXCEPT ![r] = open[r] \ Pulls[r]]
    /\ crowded' = [crowded EXCEPT ![r] = Page(r) # open[r]]

\* ingest_baseline_issues.
IngestBaseline(r) ==
    /\ SyncIssues(r, "baseline")
    /\ before' = [before EXCEPT ![r] = open[r] \ Pulls[r]]
    /\ crowded' = [crowded EXCEPT ![r] = Page(r) # open[r]]
    /\ UNCHANGED visited

-----------------------------------------------------------------------------
\* lifespan, seed_sandbox_repos.

\* Slip: the issues are inserted in a transaction of their own.
StillFlushed(S) == origin

\* A rollback takes the rows of the transaction and their issues along.
Unflushed(S) == [r \in Repos |-> IF r \in S THEN [n \in Numbers |-> "none"] ELSE origin[r]]

\* Slip: a repository of the list is seeded whether or not it has a row.
StartAll ==
    /\ server = "down"
    /\ server' = "starting"
    /\ todo' = config
    /\ skipped' = {}
    /\ visited' = {r \in config : type[r] = "inspected"}
    /\ UNCHANGED <<github, config, seeding, flushed, type, origin, requests, blocked, imports>>

\* Nobody else writes until the seeding ends, so the look-ups in its loop all
\* find what is there when it begins.
Start ==
    /\ server = "down"
    /\ server' = "starting"
    /\ todo' = {r \in config : type[r] = "none"}
    /\ skipped' = {}
    /\ visited' = {r \in config : type[r] = "inspected"}
    /\ UNCHANGED <<github, config, seeding, flushed, type, origin, requests, blocked, imports>>

\* get_repo: an error skips the repository.
SeedRepo(r) ==
    /\ server = "starting" /\ seeding = Nothing
    /\ r \in todo
    /\ todo' = todo \ {r}
    /\ \/ /\ seeding' = r
          /\ flushed' = flushed \cup {r}
          /\ UNCHANGED skipped
       \/ /\ skipped' = skipped \cup {r}
          /\ UNCHANGED <<seeding, flushed>>
    /\ UNCHANGED <<github, config, server, type, origin, requests, blocked, history>>

SeedIssues ==
    /\ server = "starting" /\ seeding # Nothing
    /\ IngestBaseline(seeding)
    /\ seeding' = Nothing
    /\ UNCHANGED <<github, config, server, todo, skipped, flushed, type, requests, blocked>>

\* Slip: the error is logged and the server comes up.
SeedFailsQuietly ==
    /\ server = "starting" /\ seeding # Nothing
    /\ server' = "up"
    /\ todo' = {} /\ seeding' = Nothing /\ skipped' = {} /\ flushed' = {}
    /\ origin' = Unflushed(flushed)
    /\ UNCHANGED <<github, config, type, requests, blocked, history>>

\* An error of the issue list is not caught: the session is rolled back and the
\* server does not come up.
SeedFails ==
    /\ server = "starting" /\ seeding # Nothing
    /\ server' = "down"
    /\ todo' = {} /\ seeding' = Nothing /\ skipped' = {} /\ flushed' = {}
    /\ origin' = Unflushed(flushed)
    /\ UNCHANGED <<github, config, type, requests, blocked, history>>

\* The commit, seed_admin_subscriber, and the server takes requests.
SeedCommit ==
    /\ server = "starting" /\ seeding = Nothing /\ todo = {}
    /\ server' = "up"
    /\ type' = [r \in Repos |-> IF r \in flushed THEN "sandbox" ELSE type[r]]
    /\ flushed' = {}
    /\ UNCHANGED <<github, config, todo, seeding, skipped, origin, requests, blocked, history>>

\* The process ends at any point, and the list may be another one when it
\* starts again.
Stop ==
    /\ server' = "down"
    /\ config' \in SUBSET Repos
    /\ todo' = {} /\ seeding' = Nothing /\ skipped' = {} /\ flushed' = {}
    /\ origin' = Unflushed(flushed)
    /\ connect' = [q \in Connects |-> Nothing]
    /\ awaits' = [q \in Connects |-> "nothing"]
    /\ refresh' = [q \in Refreshes |-> Nothing]
    /\ blocked' = FALSE
    /\ visited' = {}
    /\ UNCHANGED <<github, type, imports>>

-----------------------------------------------------------------------------
\* The routes.

Serving == server = "up" /\ ~blocked

Goto(q, r, a) ==
    /\ connect' = [connect EXCEPT ![q] = r]
    /\ awaits' = [awaits EXCEPT ![q] = a]

\* connect_repo: a repository that has a row is returned as it is.
AskConnect(q, r) ==
    /\ Serving
    /\ connect[q] = Nothing
    /\ type[r] = "none"
    /\ Goto(q, r, "repo")
    /\ UNCHANGED <<github, config, server, seedVars, type, origin, refresh, blocked, history>>

\* Connects that have flushed the row of r.
Holders(r) == {p \in Connects : connect[p] = r /\ awaits[p] = "list"}

\* Slip: no unique constraint on full_name.
InsertAnyRepo(q) ==
    /\ Serving
    /\ awaits[q] = "repo"
    /\ Goto(q, connect[q], "list")
    /\ UNCHANGED <<github, config, server, seedVars, type, origin, refresh, blocked, history>>

\* The answer to get_repo: the row is flushed.  The name may be taken by a
\* committed row, which is an error, or by a flushed one, for which it waits.
InsertRepo(q) ==
    /\ Serving
    /\ awaits[q] = "repo"
    /\ IF type[connect[q]] # "none"
         THEN Goto(q, Nothing, "nothing") /\ UNCHANGED blocked
         ELSE IF Holders(connect[q]) # {}
           THEN blocked' = TRUE /\ UNCHANGED <<connect, awaits>>
           ELSE Goto(q, connect[q], "list") /\ UNCHANGED blocked
    /\ UNCHANGED <<github, config, server, seedVars, type, origin, refresh, history>>

\* The answer to the issue list: the baseline is imported and committed.
StoreRepo(q) ==
    /\ Serving
    /\ awaits[q] = "list"
    /\ IngestBaseline(connect[q])
    /\ type' = [type EXCEPT ![connect[q]] = "inspected"]
    /\ Goto(q, Nothing, "nothing")
    /\ UNCHANGED <<github, config, server, seedVars, refresh, blocked>>

\* Slip: an error makes the request begin again.
RetryConnect(q) ==
    /\ Serving
    /\ connect[q] # Nothing
    /\ Goto(q, connect[q], "repo")
    /\ UNCHANGED <<github, config, server, seedVars, type, origin, refresh, blocked, history>>

\* Not found, private or another error: get_db closes the session.
FailConnect(q) ==
    /\ Serving
    /\ connect[q] # Nothing
    /\ Goto(q, Nothing, "nothing")
    /\ UNCHANGED <<github, config, server, seedVars, type, origin, refresh, blocked, history>>

\* refresh_issues, of any repository that has a row.
AskRefresh(q, r) ==
    /\ Serving
    /\ refresh[q] = Nothing
    /\ type[r] # "none"
    /\ refresh' = [refresh EXCEPT ![q] = r]
    /\ UNCHANGED <<github, config, server, seedVars, type, origin, connect, awaits, blocked, history>>

\* The answer, or an error.
EndRefresh(q) ==
    /\ Serving
    /\ refresh[q] # Nothing
    /\ SyncIssues(refresh[q], "manual_refresh") \/ UNCHANGED origin
    /\ refresh' = [refresh EXCEPT ![q] = Nothing]
    /\ UNCHANGED <<github, config, server, seedVars, type, connect, awaits, blocked, history>>

\* run_poll_cycle, for one of the sandbox repositories.
Poll(r) ==
    /\ Serving
    /\ type[r] = "sandbox"
    /\ SyncIssues(r, "poller_detected")
    /\ UNCHANGED <<github, config, server, seedVars, type, requests, blocked, history>>

-----------------------------------------------------------------------------
Init ==
    /\ created \in [Repos -> Numbers \cup {0}]
    /\ \A r \in Repos : created[r] <= Items[r]
    /\ open = [r \in Repos |-> 1 .. created[r]]
    /\ config \in SUBSET Repos
    /\ server = "down"
    /\ todo = {} /\ seeding = Nothing /\ skipped = {} /\ flushed = {}
    /\ type = [r \in Repos |-> "none"]
    /\ origin = [r \in Repos |-> [n \in Numbers |-> "none"]]
    /\ connect = [q \in Connects |-> Nothing]
    /\ awaits = [q \in Connects |-> "nothing"]
    /\ refresh = [q \in Refreshes |-> Nothing]
    /\ blocked = FALSE
    /\ before = [r \in Repos |-> {}]
    /\ crowded = [r \in Repos |-> FALSE]
    /\ visited = {}

SeedNext == (\E r \in Repos : SeedRepo(r)) \/ SeedIssues \/ SeedFails \/ SeedCommit
ConnectNext(q) == InsertRepo(q) \/ StoreRepo(q) \/ FailConnect(q)

Next ==
    \/ Start \/ SeedNext \/ Stop
    \/ \E q \in Connects : ConnectNext(q) \/ \E r \in Repos : AskConnect(q, r)
    \/ \E q \in Refreshes : EndRefresh(q) \/ \E r \in Repos : AskRefresh(q, r)
    \/ \E r \in Repos : Poll(r) \/ Open(r) \/ \E n \in Numbers : Toggle(r, n)

Spec == Init /\ [][Next]_vars

\* Answers and errors of GitHub come within the client's timeout.
FairSpec ==
    /\ Spec
    /\ WF_vars(SeedNext)
    /\ \A q \in Connects : WF_vars(ConnectNext(q))

-----------------------------------------------------------------------------
\* What is checked.

\* Type correctness of every variable.
TypeOK ==
    /\ created \in [Repos -> Nat] /\ \A r \in Repos : created[r] <= Items[r]
    /\ open \in [Repos -> SUBSET Numbers]
    /\ config \subseteq Repos
    /\ server \in {"down", "starting", "up"}
    /\ todo \subseteq Repos
    /\ seeding \in Repos \cup {Nothing}
    /\ skipped \subseteq Repos
    /\ flushed \subseteq Repos
    /\ type \in [Repos -> {"none", "inspected", "sandbox"}]
    /\ origin \in [Repos -> [Numbers -> {"none", "baseline", "manual_refresh", "poller_detected"}]]
    /\ connect \in [Connects -> Repos \cup {Nothing}]
    /\ awaits \in [Connects -> {"nothing", "repo", "list"}]
    /\ refresh \in [Refreshes -> Repos \cup {Nothing}]
    /\ blocked \in BOOLEAN
    /\ before \in [Repos -> SUBSET Numbers]
    /\ crowded \in [Repos -> BOOLEAN]
    /\ visited \subseteq Repos

\* backend/README.md: issues open when a repository is connected are a baseline
\* "never remediated in bulk".  True as far as one page goes: unless the open
\* items did not fit on it, the poller never takes an issue for a new one that
\* was open when its repository was imported, and it detects none at all in a
\* repository visitors connected.
BaselineNeverDetected ==
    \A r \in Repos, n \in Numbers :
        origin[r][n] = "poller_detected" =>
            /\ type[r] = "sandbox"
            /\ ~crowded[r] => n \notin before[r]

\* An issue row belongs to a row of its repository, committed or of the same
\* transaction, and no other transaction has flushed that repository: what a
\* start or a connect breaks off leaves nothing behind.
NoOrphanIssues ==
    \A r \in Repos :
        /\ (\E n \in Numbers : origin[r][n] # "none") => type[r] # "none" \/ r \in flushed
        /\ r \in flushed => type[r] = "none" /\ Holders(r) = {}

\* Once the server is up, every listed repository is a sandbox, unless GitHub
\* refused it during this start or a visitor had connected it before: an error in
\* its import does not pass unnoticed, and no connect takes it away from then on.
ListedIsSandbox ==
    server = "up" =>
        \A r \in config : type[r] = "sandbox" \/ r \in skipped \/ r \in visited

\* Two connects never import one repository together, and the loop only ever
\* waits for a connect that it would itself have to carry on: such a wait is
\* a deadlock and lasts until the process is stopped.
BlockedByItself ==
    /\ \A r \in Repos : \A p, q \in Holders(r) : p = q
    /\ blocked => \E p, q \in Connects :
                    p # q /\ awaits[p] = "repo" /\ q \in Holders(connect[p])

\* A start ends, up or down, and a connect ends, unless the loop waits for itself.
StartsAndConnectsEnd ==
    /\ server = "starting" ~> server # "starting"
    /\ \A q \in Connects : connect[q] # Nothing ~> connect[q] = Nothing \/ blocked

WA == INSTANCE WriteAccess

\* RepoRegistry implements WriteAccess: connect never makes a repository
\* writable, only the list does, and only for one nobody has connected before.
ImplementsWriteAccess == WA!Spec

=============================================================================
