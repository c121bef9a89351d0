# Sentinel SRE: a TLA+ model of the platform

The repository is a platform that watches GitHub repositories, diagnoses new
issues with an agent graph, verifies a generated fix in a sandbox and, after a
human has approved it, opens a pull request. This directory specifies the part
of it where order, concurrency and failure decide whether it is correct, checks
it with TLC and proves its safety properties with TLAPS.

## 1. The system

| component | state it keeps | operations | hard because |
|---|---|---|---|
| remediation runs (`remediation_service.py`, `routes_remediation.py`) | `remediation_runs`, `issues.latest_remediation_run_id` | start, approve, reject | approve is ten awaits long with one check at its start; reject runs in a thread; a running row is only flushed |
| GitHub client (`github_client.py`) | none of its own; branches, files, pull requests, issues on GitHub | one method per call | answers get lost, 422 is ambiguous, files are guarded by shas, every response is also recorded in the database |
| agent pipeline (`agent_engine.py`) | `PipelineState`, per run | diagnose, fix, test_gen, verify, the edges | retries inside nodes inside a fix loop |
| rate-limit records (`rate_limit_service.py`) | one row per provider | record a success, a 429, a response; read | read-modify-write from many threads, partial UPDATEs, double insert |
| sandbox runner (`sandbox_runner.py`) | a temporary directory | run pytest | timeouts and crashes are verdicts, failures before pytest are exceptions |
| poller (`poller_service.py`, `routes_poll.py`) | `issues`, `poll_runs`, the trigger event, background tasks | a cycle, a task, a trigger | one transaction stays open across awaits; tasks start before it commits |
| demo injection (`routes_demo.py`) | an issue on GitHub and its row | inject | races the poller for the row |
| repository registry (`repo_service.py`, `routes_repos.py`) | `repos`, baseline issues | connect, seed, refresh | check-then-insert across an await, one page of issues, types fixed at first sight |
| subscribers and alerts (`notification_service.py`, `email_service.py`) | `email_subscribers` | subscribe, unsubscribe, notify | check-then-insert without a constraint; mail after the commit, on the event loop |
| visitor limits (`limits.py`) | a dictionary of time windows | one check per request | runs in threads, cleans up while others insert |
| source context (`source_context_service.py`, `context_resolver.py`) | none | resolve | a pure two-tier search |
| database sessions (`db/session.py`) | the connection pool | get_db | a session is held over every call its route or task awaits, and by a plain route until its response is sent |
| dashboard (`frontend/`) | React state | polling, review, decisions | late answers for an earlier selection |

How they meet: routes and the poller call the service; the service calls the
pipeline in a thread and GitHub on the event loop; every GitHub response and
every Gemini answer is recorded through a session of its own; poller, inject and
refresh all insert into `issues`. There is one process, one event loop and one
pool of threads. The database driver is synchronous, so a handler that waits for
a lock keeps the loop.

What makes each part correct: nothing is written to GitHub that did not pass the
gate, and what is published is complete and was verified (runs, client,
pipeline); the fix loop ends and gives up exactly when its attempts are spent
(pipeline); a limit is never kept without an end (records); an issue is stored
and remediated once, and if it stays open, at all (poller, inject, refresh); no
visitor's repository becomes writable (registry); every address is mailed once
and can leave (subscribers); a window admits more than its limit only by the
requests that overlapped (limits); waiting for a connection never hangs a job,
leaks a connection or passes for success (sessions); what is shown and decided belongs
to what is selected (dashboard). `PROJECT.json` lists the hazards at their lines.

## 2. The modules

| module | models | its actions |
|---|---|---|
| `ApprovalGate` | what the platform promises about a run, seen from outside | Conclude, Decide, BreakOff, Write, OpenPr, Publish, Discard |
| `Remediation` | the service, the requests in flight and the GitHub calls they make | RefuseRun, BeginRun, FinishRun, DropRun; Admit, ReadBase, CreateBranch, ReadFile, PutFile, CreatePr, Comment, CloseIssue, Record, FailApproval; ReadForReject, StoreReject, FailReject; Restart |
| `IssueIntake` | what the platform promises about the issues it knows and the runs it starts unasked | Import, Remediate |
| `AgentPipeline` | the graph, its retry policy, the gemini row | Start, Call, ReadRow, StoreRow, StoreRowTwice, Verify, VerifyRaises, WindowEnds |
| `Poller` | the poll loop, its tasks, refresh, inject, the trigger | Wake, Poll, PollFails, PollerDies, StartTask, EndTask, TriggerNow, CreateIssue, StoreInjected, LoseInjected, AskRefresh, StoreRefreshed, FailRefresh, OpenIssue, CloseIssue, Restart |
| `WriteAccess` | what the platform promises about the repositories it knows | Reconfigure, Grant, Inspect |
| `RepoRegistry` | the startup, connect, the baseline and refresh, over pages of GitHub's issue list | Start, SeedRepo, SeedIssues, SeedFails, SeedCommit, Stop; AskConnect, InsertRepo, StoreRepo, FailConnect; AskRefresh, EndRefresh; Poll; Open, Toggle |
| `SessionPool` | the connections, and the jobs, recordings, plain and ad hoc routes that share them; the search for the source context | Open, LoopGets, RefuseRun, AnswerAtOnce, LoopTimesOut; Record, Answer, SearchRefused, GithubFails; StartPipeline, RecordGemini, NextGemini, EndPipeline; Save, Store, CommitFails, Close; Read, Take, Release, Again, Leave, Send, TimeOut |
| `VisitorLimits` | a limiter, one call on its shared dictionary or on a deque at a time | Arrive, Lookup, Test, ReadFirst, PopFirst, Check, Refuse, Count; Scan, ScanFails, ReadLast, ScanEnds, Delete, DeleteEnds; Tick |
| `Subscribers` | who is alerted | Ask, Find, Insert, Revive, Unsubscribe; Alert, Send; Restart |
| `MCRemediation`, `MCPoller`, `MCRepoRegistry`, `MCSessionPool`, `MCVisitorLimits`, `MCSubscribers` | instances for TLC | |
| `RemediationProofs`, `RemediationRefinement`, `AgentPipelineProofs`, `PollerProofs`, `RegistryProofs`, `PoolProofs`, `SubscribersProofs`, `LimitsProofs` | proofs | |

**Steps.** A step is the code from one await to the next. `reject_run` is a
plain `def` route: its read and its commit are separate steps. The database is
modelled by what is committed; `status[r] = "none"` stands for a row that does
not exist or is only flushed. In `Poller` the flushed rows of the open
transaction are `unsaved`, because they already hold their unique key.

**GitHub.** A call is answered, is carried out with its answer lost, or fails
without effect. A branch is named after its run, so runs never share one.
`content[r]` is what the two files look like on it; a blob's sha is a name for
its content, which is what GitHub compares. A second open pull request for a
branch is refused. Pull requests are not closed or merged by people in a
behaviour of `Remediation`: one that were would make room for a second.

**The registry.** The seeding of a start is one transaction over all its awaits,
and nothing is served before it has committed; its rows are `flushed`. A connect
holds its row from the insert to the end of the import: `Holders` are the connects
that do. The insert of a second one waits on the event loop, which is `blocked`
from then on: only a stop ends that. `Poll` is one step here, because `Poller`
models the cycle's transaction.

**The pool.** A job is whatever keeps a session over a call it awaits: a run (the
routes triage and inject-bug, the poller's task), the injection before it, a look-up of
the context, an approval, a connect, a refresh and a poll cycle. `held` are those whose
session has a connection, `Calls` the GitHub calls they make besides a search. A job
asks for a connection with the synchronous driver, so while it waits (`loop`) no other
coroutine moves. It asks at its first statement, and again after a commit that expires
what the response, the alert or the run that follows an injection reads. What needs no
call is answered at once (`AnswerAtOnce`): a row that is not there, a repository that is
known, a status or a cap in the way. An issue body is what its candidates lead to, so a
run or a look-up walks through `resolve_source_context` call by call.

`thread[x]` is the thread that records an answer for job `x`, or serves the plain route
`x`. A plain route whose function has returned keeps its connection until the event loop
has sent the response, for which the rows are read in a thread of the server once more
(`Send`). A route without a response model, or one that ends with an error, needs no
thread there; the model takes the longer way for all. The ad hoc routes of `main.py` have
no session of the framework, nor has `rate_limit_status`: `read_root`, the latter and the
pipeline of `triage_issue` open their own, in the thread they occupy, and `verify_patch` occupies its thread only. A pipeline
takes a thread of the same server. A recording of a GitHub answer takes one of another
pool of threads, and one that queues there, holding nothing, is `"wanting"` like one that
waits for its connection.

The pool gives up on a waiter only if nothing but a timeout or the end of a call can free
a connection (`Exhausted`): statements are short against its timeout, calls are not.
Statements that wait for a lock of another session are in `Poller` and `RepoRegistry`.
The seeding at the start keeps one session over its calls too, but before anything is
served, and so alone.

**The limiter.** A window is an object of its own and outlives its entry in the
dictionary; `mine[t]` is the one a request has looked up. The interpreter may
switch threads between any two calls on a deque or on the dictionary, so each is a
step. An item of the clean-up's iteration that fails, because the dictionary has
another size or an entry is gone, is an `error`, as in the code. A window holds the
requests whose times are in it (`now` has the times); `lostTo[u]` remembers which
request took the time of `u` out of its window although it had not expired for that
request, which happens when the window has changed between the test of its first
entry and `popleft`.

**The subscribers.** Nothing in the table keeps an address from having two rows
for one repository. `met` remembers which subscriptions were under way together,
`word` whether an address was last subscribed or unsubscribed, in the order of the
reads and commits.

**Definitions called `...Unchecked`, `...Late` and the like** follow the comment
`Slip:` and are not part of the specification. Each is a definition changed the
way a bug would change it, kept to show that the property it is listed with in
`PROJECT.json` notices.

## 3. The runs

| run | instance | shows |
|---|---|---|
| `remediation` | two runs of one sandbox issue, one of an inspected issue, two interchangeable approvals, one rejection, cap 2; 968,751 states | the safety of the gate below, its inductive invariant, the fate of stranded runs, and that `Remediation` implements `ApprovalGate` |
| `remediation_reject` | one approval, one rejection | `OnlyAwaitingIsApproved` fails: a rejected run becomes `pr_opened` |
| `remediation_cap` | cap 1 | `PipelineRunsWithinCap` fails: two runs at once |
| `pipeline` | a sandbox and an inspected pipeline, four attempts per node as in `LLM_RETRY_POLICY`, one extra fix as in the default configuration; 497,833 states | outcomes are justified by verdicts, the loop is exact, pipelines end; `AgentPipeline` implements the automatic part of `ApprovalGate` |
| `pipeline_window` | two sandbox pipelines, two attempts | `LeftoverLimitHasWindow` fails: limited without an end |
| `poller` | two repositories, an old and three new issues, one inject and one refresh at a time, restarts, database failures; 556,544 states | no double insert, no double remediation; `Poller` implements `IssueIntake` |
| `poller_single` | one repository, no restart, no database failure; 12,288 states | detection, remediation and triggers are live; the loop is never blocked |
| `registry` | a repository with up to three items, one of them a pull request, and one with a single issue, pages of two, two connects, one refresh, any list at each start; 551,969 states | connect never gives write access, a baseline that fits on the page stays one, broken-off transactions leave nothing, the list grants what it says unless GitHub refuses or a visitor came first, the loop hangs only on its own connect; `RepoRegistry` implements `WriteAccess` |
| `session_pool` | one job of each kind, of which two or three come together, two plain routes and an ad hoc one, on two connections and one server thread, three kinds of issue bodies; 677,183 states | every job ends, none leaks a connection, exhaustion needs a crowd, what is stored is true |
| `visitor_limits` | three requests of one visitor, or of two, limit 1, each request cleans up; 656,030 states | errors and hits over the limit come only from overlapping requests, and every request leaves |
| `subscribers` | three subscriptions of one address, one of the owner's, two starts, two critical runs; 1,793,740 states up to symmetry | errors and double mails come only from overlapping subscriptions, restarts add none, the last word counts |
| `poller_lost` | two repositories, no restart | `DetectedIssueHasTask` fails: the task gives up before the commit |

The properties of `remediation`: `WritesPassTheGate` (a branch exists only for a
sandbox run that reached `awaiting_approval`), `PrCarriesPatch` (an open pull
request has fix and test), `ClosedIssueExplained`, `PublishedRunBacked` (a row in
`pr_opened` tells the truth), `SingleFinisher` (one approval of a run at most
gets past the pull request), `LatestRunVisible`, `StrandedForGood` (a run whose
approval broke off after its pull request can never be recorded: the code has no
way to resume it), `ImplementsGate`. The promise of `ApprovalGate` is
deliberately weaker than "a decision is final", because the code does not keep
that one: `remediation_reject` shows it.

**Bounds.** Two approvals, because every conflict between requests is between
two (they share a branch, a sha or a row); two runs of one issue, because
`latest`, `closed` and the cap relate runs of an issue; one rejection, because a
second does what the first does. Two repositories, because a cycle holds its
transaction across an await exactly when another repository follows. A behaviour
of `Remediation` is shorter than 24 hours, so no row leaves the count of the cap.
One page of the issue list holds all open issues in `Poller`. Approvals are
interchangeable, so `MCRemediation.cfg` uses symmetry; it checks no liveness.

`registry`: a page of two and a repository of three items is the smallest in which
an old issue can leave the page and come back; two connects are one that holds a
row and one that waits for it. `session_pool`: with two connections two jobs can exhaust the pool, and a third waits for
them. All seven kinds of job at once are beyond TLC, so `Together` names who comes in one
behaviour: three savers, two runs of which one is first injected, and pairs that bring a
search, an injection or a connect together with another kind. One server thread and two
plain routes are the least with which one that has returned is kept from its response by
one that waits, and the ad hoc route can take the thread from both. Each job runs once, a
plain route comes again and again, and a pipeline makes two records. `visitor_limits`: three requests are
one that cleans up, one it disturbs and one that is counted before; with
`MaxTracked = 0` every counted request cleans up, and a window is one value of the
clock, so that it can expire. What `LimitKept` says of requests that do overlap
needs more of them than TLC can take (section 4): here it is the part about
requests that do not that can fail. `subscribers`: two subscriptions that both
insert and a third that finds both rows; two starts, to seed twice; its three
subscriptions of one address are interchangeable, and it checks invariants only.

**Types.** `TypeOK` of `AgentPipeline`, `RepoRegistry`, `SessionPool`, `VisitorLimits`
and `Subscribers` is proved for every instance and therefore not listed in their runs.

**Deadlock** is checked everywhere but in `pipeline`, `pipeline_window`,
`visitor_limits` and `subscribers`, where every pipeline or request ends and nothing
is left to do.

**Fairness.** `AgentPipeline`: each pipeline runs in a thread of its own, and a
call to Gemini or to pytest ends (the sandbox has a timeout, the client raises).
`Poller!FairSpec`: the event loop runs what is ready, which gives weak fairness
of a task and of the poller's next step; that a list request succeeds at some
point if tried for ever is strong fairness of `Poll`, without which nothing could
be promised. `RepoRegistry!FairSpec`: an answer or an error of GitHub comes within
the client's timeout, so a start and each connect go on. `SessionPool!FairSpec`:
the loop runs what is ready and calls end (weak fairness of the jobs, of each plain route;
strong fairness of the end of an ad hoc call, whose pipeline makes finitely many records);
the pool and the threads of the server serve their waiters first come, first served, so
plain routes that come again and again do not keep the loop, the pipelines and the
recordings from them for ever (strong fairness). `JobsEnd` then says that again and again
no job is under way, which is the end of all of them, since each comes once.
`VisitorLimits!FairSpec`: the operating system
runs every thread. Nothing is fair about the arrival of requests, restarts or the
people on GitHub, and `Subscribers` assumes no fairness at all.

**Disagreements with the documentation.** The four runs that end in a violation
are the findings of `PROJECT.json`: a rejection overtaken by an approval, the
daily cap passed by overlapping runs, a Gemini limit without an end, and the lost
remediation with two sandbox repositories. With two repositories
`LoopNeverBlocked` fails as well: an injected issue that the poller has flushed
but not committed makes the insert of `inject_demo_bug` wait on the event loop
for a commit only that loop can reach.

Other statements of the documentation hold with a limit the properties name, or
not at all, without a run of their own:

- `limits.py:42` and `backend/.env.example:22` speak of a limit per visitor. `LimitKept`
  allows two requests more for each one that overlapped others: itself, which was
  checked before the others were counted, and one whose time it took out too early.
- `backend/README.md` says a baseline is "never remediated in bulk":
  `BaselineNeverDetected` excepts a repository whose open items did not fit on the
  one page, and without that exception it fails.
- "Only repos listed in `SANDBOX_REPOS` are writable" (`README.md:14`): a repository taken off the
  list stays a sandbox (`Reconfigure` changes no type), and one that a visitor connected
  before it was listed stays inspected, which `ListedIsSandbox` excepts.
- The platform owner is "always alerted" (`README.md:122`): an owner who has
  unsubscribed stays so over every restart, because `Restart` finds the row.
- "One-click unsubscribe (linked from alerts)" (`backend/README.md:207`): the message
  `email_service.py` builds has no such link, and the token is in no answer of the
  server. `Unsubscribe` is in the model because the route exists.

## 4. The proofs

`RemediationProofs` and `RemediationRefinement` hold for any sets of issues,
runs, approvals and rejections and any cap, from `RemediationAssumption` alone.

- `TypeCorrect`: `[]TypeOK`.
- `SafeAlways`: the inductive invariant `Safe`, from which `GateGuardsWrites`,
  `PrComplete`, `NoSilentClose`, `PublishedIsTrue`, `FinishedOnce` and
  `RequestsStayBacked` follow.
- `LatestRunAlwaysVisible`, `StrandedStaysStranded`: the pointer to the latest
  run, and the action property of stranded runs.
- `GateImplemented`: `Spec => ImplementsGate`.
- `OverrunBounded`: as long as no more than `K` pipelines run together, the cap is
  overrun by fewer than `K` runs, for every `K`; `CapHoldsOneByOne`: with one at a
  time it holds as documented.
- `ApprovedFromAwaiting`: a run becomes `pr_opened` straight from
  `awaiting_approval` as long as no approval and rejection of it are in flight
  together.

The last two have as a premise exactly what the runs `remediation_cap` and
`remediation_reject` break: together they say that the overlap is the only cause of
these two findings. The premises are about what is under way together; a platform
that takes its runs, or the decisions on one run, one after the other meets them. The
invariant of the first is that the runs counted at the start of a pipeline, with
those that have joined since, stay under cap and overlap (`CapOverrun`); that of the
second, that what an approval read when it was admitted is still in the row
(`ApprovalsCurrent`).

The safety properties are not inductive alone: that a recorded run has its pull
request depends on what the request that records it has done, ten steps and any
number of other requests' steps ago. `RequestsBacked` states what a request in
flight relies on: its run is past the gate, and the files, the pull request, the
comment and the closed issue that its position in the handler implies exist. It
also states that a coroutine that has not ended has no committed row. The
argument that it is inductive rests on `Grows`: no step takes a branch, a patched
file, a pull request, a comment, a closed issue or the passing of the gate away.
So whatever one request relies on survives the steps of all others
(`OthersBacked`), and only the request that moves has to be looked at
(`MoverBacked`). The refinement maps a request in flight to a pending decision;
its steps are steps of the gate because admitting adds a decision to one run only
and every other step adds none (`NoneAdmitted`).

`AgentPipelineProofs` holds for any pipelines, any retry policy and any number of
extra attempts (`PipelineAssumption`): `PipelineTypeCorrect`,
`ApprovableVerified`, `InspectedStopsEarly`, `GivesUpExactly`. Its invariant
`PipelineInv` says what is known of a pipeline at each place of the graph: that
the test in hand was written for the last fix when verification starts is what
makes the final verdict one about the last fix. A step of one pipeline leaves
what is known of the others alone (`OthersKnown`), for the row they share decides
only whether and when they go on. `ConclusionImplemented`: seen from `ApprovalGate`,
a pipeline concludes its run once, with a result its repository allows, which is
what `Remediation` assumes of it in `Outcomes`. `LimitHasWindow`: the row is never
left limited without an end as long as no two pipelines are between reading and
storing it (`RowKnown`), the one way in which `pipeline_window` gets there.

`PollerProofs` holds for any issues, repositories in any order and any number of
requests (`PollerAssumption`): `PollerTypeCorrect`, `InsertedOnce`,
`AutoRunsOnce`. What has to be added is `ScheduledIsFirst`: a task that has not
looked up its issue is the first for that issue, and its issue is the poller's, be
it committed or only flushed. `RollbackStep` shows why a rollback cannot break
this: no task is waiting to start when the poller dies at an await, and a restart
takes the tasks along. With one sandbox repository nothing is ever flushed at the
end of a step, from which follow `OneRepoNeverBlocks` and, as long as the process
lives, `OneRepoLosesNoTask`; `poller_lost` shows that the latter needs the premise.
`IntakeImplemented`: `Spec => ImplementsIntake`, for any number of repositories. The
abstract state has the committed rows only. A flush is a stutter, the commit of a
cycle an import of all it has found (`CommitImports`, which needs that nothing else
was flushed, `FlushedIsFound`), and a rollback a stutter, since it forgets only
origins that never showed.

`RegistryProofs` holds for any repositories, issues, page size and number of
requests (`RegistryAssumption`): `RegistryTypeCorrect`, `NothingLeftBehind`,
`ListIsGranted`, `WaitsForItself`, `BaselineProtected` and `WriteAccessImplemented`.
Its invariant adds `Phases` (nothing of a seeding outlives it, and nothing of a
request exists before the server is up), `Seedings` (the repository whose list is
awaited is flushed and has no issue), `ListedFound` (the seeding loses sight of no
listed repository), `VisitorsFirst` (a listed repository is inspected only if a visitor
had connected it before the start, or GitHub refused it in this start: connects are
served when the list has been seeded, so they come too late) and `BaselineKept` (an issue of a complete baseline has a row
that the poller did not insert). `BaselineComplete` is the heart: a page that holds
all open items leaves no open issue of a fresh repository without a row.

`PoolProofs` holds for any jobs, plain and ad hoc routes, bodies and numbers of
connections and threads (`PoolAssumption`): `PoolTypeCorrect`, `NothingLeaks`,
`CrowdFirst`, `HonestlyStored`. The invariant is about one job at a time, because a step
moves one job at most (`OneMoves`): `Placed` (where it can be, and that the loop waits
with the job that asks), `Connected` (what it holds there), `Saved` (when it is stored,
and that nothing in trouble is) and `Informed` (what its search has led to so far: the
candidates before the current one were all without content). `Capacity` counts the
connections, which only `Take` and the loop's turn have to look at.

`CrowdFirst` needs no more than that. If the pool is exhausted, all connections are held
by jobs or by plain routes that have returned (`Crowd`), which together are under way; if
the loop or a plain route waits, the one that waits is one more (`OneMore`). If no job
waits on the loop, and the plain requests and the runs are no more than the server has
threads, there is a thread left for any that has returned (`ThreadLeft`), so none has, and
the jobs alone hold everything. The recordings, however many, never count.

`SubscribersProofs` holds for any addresses, requests and starts
(`SubscribersAssumption`): `SubscribersTypeCorrect`, `FailsWhenDoubled`,
`MailedOnce`, `LastWord`. `Meetings` says that subscriptions under way together
have met; `Requested`, that a subscription about to insert has met whoever was
quicker; hence `OneRow`, that an address has two rows only after a meeting.
`OneSeed` gives the owner one row more, and `Mailed` counts what has been written
together with what is still to be written.

`LimitsProofs` holds for any visitors, requests, limit, window and size of the
dictionary (`LimitsAssumption`): `LimitsTypeCorrect`, `FailsOnlyWithOverlap`,
`LimitHolds`. A request is *alone* if it has overlapped no other one, and the
invariant `LimitsInv` (`LimitsAlways`) is about those, because nothing can be said
of the others but that they were marked. `Windows` keeps a request alone and any
other one in the order of their times, though two that overlapped may stand in the
wrong order; `Undisturbed` says that a request alone finds at each step what its
last step left, so it fails nowhere; `CleanUp`, that what a clean-up takes for stale
holds no live time of a request alone; hence `Kept`: such a time leaves its window
only by expiring or by a `popleft` that `lostTo` records. `LostOnce` is the heart: a
request that has taken a live time out finds no expired one in front of a live one
of a request alone again, in this window or in a later one, so it takes out no
second. Counting then gives the limit: when a request is counted, its window has
room, and what was counted but is no longer in the window was lost to distinct
requests that overlapped (`FewLost`, `CountedAlone`).

The first attempt at this proof refuted what `LimitKept` said before, one request
over the limit for each that overlapped. The limit can be passed by two for each:
with a limit of two, two overlapping requests of a visitor, helped by the clean-up
of somebody else's request, forget two live times, and five of the visitor's requests
get through within one window; it takes seven requests in all. A run of three requests
cannot show that, nor is one of seven within TLC's reach unless its steps are
scripted, which is how the counterexample was confirmed. `LimitKept` now has the
bound that the proof establishes.

Only model-checked: liveness under fairness (`PipelineEnds`, `OpenIssueStored`,
`DetectedIssueRuns`, `TriggerServed`, `StartsAndConnectsEnd`, `JobsEnd`,
`LimiterEnds`), which is out of the prover's reach. The properties the violation
runs refute are not theorems of every instance; each of them is one under the
premise its run breaks.

## 5. Not modelled

- **Dashboard** (`frontend/`): a client that stores nothing. What it decides is
  checked again by the routes, which are modelled; that it may show a late answer
  for an earlier selection is listed as a hazard no property covers.
- **Prompts and generated text**, layout, the text of a message, and the regular
  expressions that extract candidates from an issue: data nothing here depends on.
- **Process isolation and resource limits** in the sandbox, and SMTP: behaviour of
  the operating system and of other services. That SMTP blocks the event loop for as
  long as a server takes to answer is a matter of time, which no model here has.
- **Configuration, schemas, the migration and the read-only routes**: declarations
  and plain reads.
- **The 24 hours of the cap** passing, and the numbers of the `github` rate-limit
  row: nothing decides on the latter, and a behaviour of `Remediation` is shorter
  than the former.
- **Poll runs**: a log nobody decides on, except `trigger_type`, which is `kind`.
