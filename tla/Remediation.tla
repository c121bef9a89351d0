---------------------------- MODULE Remediation ----------------------------
(***************************************************************************)
(* The remediation service of the backend (remediation_service.py) with    *)
(* the routes that call it and the GitHub client calls it makes:           *)
(*                                                                         *)
(*   start_remediation_run    BeginRun, RefuseRun, FinishRun, DropRun      *)
(*   approve_remediation_run  Admit, then one action per GitHub call,      *)
(*                            then Record                                  *)
(*   reject_remediation_run   ReadForReject, StoreReject, FailReject       *)
(*                                                                         *)
(* Async handlers share one event loop: between two awaits a handler is    *)
(* alone in the loop, so a step of this module is the code from one await  *)
(* to the next.  reject_run is a plain "def" route and runs in a thread of *)
(* the pool, so its read and its commit are two steps.  A row that is only *)
(* flushed is invisible to every other session: status[r] is the COMMITTED *)
(* status, "none" while no committed row exists.                           *)
(*                                                                         *)
(* A GitHub call has three outcomes: answered; carried out with the answer *)
(* lost (a timeout, or the rate-limit bookkeeping failing after it); and   *)
(* failed without effect.  The last two raise out of the handler.          *)
(*                                                                         *)
(* A behaviour spans less than 24 hours, the window of the daily cap: no   *)
(* row drops out of the count.                                             *)
(***************************************************************************)
EXTENDS Naturals, FiniteSets

CONSTANTS
    Issues,         \* rows of the issues table
    SandboxIssues,  \* those whose repo has repo_type "sandbox"
    Runs,           \* pipeline requests, each with the run id it gets
    IssueOf,        \* IssueOf[r]: the issue a run is about
    NoRun,          \* latest_remediation_run_id = NULL
    Approvals,      \* approve requests that may be in flight together
    Rejections,     \* reject requests that may be in flight together
    DailyRunCap     \* settings.DAILY_RUN_CAP

ASSUME RemediationAssumption ==
    /\ SandboxIssues \subseteq Issues
    /\ IssueOf \in [Runs -> Issues]
    /\ NoRun \notin Runs
    /\ DailyRunCap \in Nat

VARIABLES
    \* the database
    status,     \* status[r]: RemediationRun.status once committed, or "none"
    latest,     \* latest[i]: Issue.latest_remediation_run_id
    refused,    \* runs whose error_message is DAILY_CAP_MESSAGE
    \* the process
    worker,     \* worker[r]: the coroutine of start_remediation_run
    approval,   \* approval[a]: the state of an approve request
    rejection,  \* rejection[j]: the state of a reject request
    \* GitHub
    branches,   \* runs whose branch fix/issue-..-run-.. exists
    content,    \* content[r]: the two files of the run on that branch
    prs,        \* runs whose pull request is open
    comments,   \* runs announced in a comment on their issue
    closed      \* issues closed by the platform

dbVars      == <<status, latest, refused>>
requestVars == <<approval, rejection>>
githubVars  == <<branches, content, prs, comments, closed>>
vars        == <<dbVars, worker, requestVars, githubVars>>

-----------------------------------------------------------------------------
\* The values.

Statuses == {"none", "diagnosed", "verify_failed", "awaiting_approval",
             "rejected", "pr_opened", "failed"}

Files    == {"fix", "test"}
Contents == {"absent", "original", "patched"}

\* The file to fix is on the default branch, the generated test is not.
OnBase == [f \in Files |-> IF f = "fix" THEN "original" ELSE "absent"]

\* A blob's sha names its content; a file that is not there has none.
Shas   == {"nosha", "original", "patched"}
Sha(c) == IF c = "absent" THEN "nosha" ELSE c

\* approve_remediation_run, by the GitHub call it awaits.
Calls == {"base", "branch", "get", "put", "pr", "comment", "close", "record"}

NotApproving == [pc |-> "idle"]
ApproveState ==
    {NotApproving} \cup
    [pc : Calls, run : Runs, file : Files, sha : Shas]

NotRejecting == [pc |-> "idle"]
RejectState  == {NotRejecting} \cup [pc : {"read"}, run : Runs]

Sandboxed(r) == IssueOf[r] \in SandboxIssues

-----------------------------------------------------------------------------
\* start_remediation_run.

\* The count sees committed rows only, the refused ones among them.
Committed == {r \in Runs : status[r] # "none"}
DailyRunCapReached ==
    /\ DailyRunCap > 0
    /\ Cardinality(Committed) >= DailyRunCap

\* Slip: the row keeps the status it was created with.
OutcomesLeftRunning(r) == {"failed", "running"}

\* What the pipeline leaves on the row: an exception anywhere makes it failed;
\* an inspected repo stops after the diagnosis; a sandbox repo always ends
\* with a verification.
Outcomes(r) ==
    {"failed"} \cup (IF Sandboxed(r)
                     THEN {"awaiting_approval", "verify_failed"}
                     ELSE {"diagnosed"})

\* Slip: the issue is not pointed at its new run.
StoreRunUnlinked(r, s) ==
    /\ status' = [status EXCEPT ![r] = s]
    /\ worker' = [worker EXCEPT ![r] = "ended"]
    /\ UNCHANGED latest

\* Commit a run's row, make it the latest of its issue, and end the coroutine.
StoreRun(r, s) ==
    /\ status' = [status EXCEPT ![r] = s]
    /\ latest' = [latest EXCEPT ![IssueOf[r]] = r]
    /\ worker' = [worker EXCEPT ![r] = "ended"]

RefuseRun(r) ==
    /\ worker[r] = "idle"
    /\ DailyRunCapReached
    /\ StoreRun(r, "failed")
    /\ refused' = refused \cup {r}
    /\ UNCHANGED <<requestVars, githubVars>>

\* The row is flushed as running, which nobody else can see, and the coroutine
\* awaits the source context and then the pipeline.
BeginRun(r) ==
    /\ worker[r] = "idle"
    /\ ~DailyRunCapReached
    /\ worker' = [worker EXCEPT ![r] = "running"]
    /\ UNCHANGED <<dbVars, requestVars, githubVars>>

FinishRun(r) ==
    /\ worker[r] = "running"
    /\ \E s \in Outcomes(r) : StoreRun(r, s)
    /\ UNCHANGED <<refused, requestVars, githubVars>>

\* The flush or the commit fails (a lost connection, a value too long for its
\* column): the exception leaves the coroutine and the row is rolled back.
DropRun(r) ==
    /\ worker[r] = "running"
    /\ worker' = [worker EXCEPT ![r] = "ended"]
    /\ UNCHANGED <<dbVars, requestVars, githubVars>>

-----------------------------------------------------------------------------
\* approve_remediation_run.

\* The request goes on with its next call.
Goto(a, pc) == approval' = [approval EXCEPT ![a].pc = pc]

\* The call raised: the handler ends and its session is rolled back.
Leave(a) == approval' = [approval EXCEPT ![a] = NotApproving]

\* The answer of a call that took effect arrives, or is lost.
Answered(a, pc) == Goto(a, pc) \/ Leave(a)

\* Slip: approve does not look at the status.
AdmitUnchecked(a, r) ==
    /\ approval[a].pc = "idle"
    /\ status[r] # "none"
    /\ approval' = [approval EXCEPT ![a] =
                      [pc |-> "base", run |-> r, file |-> "fix", sha |-> "nosha"]]
    /\ UNCHANGED <<dbVars, worker, rejection, githubVars>>

\* The only place the handler looks at the status; a run in any other status
\* is answered 409 and nothing changes.
Admit(a, r) ==
    /\ approval[a].pc = "idle"
    /\ status[r] = "awaiting_approval"
    /\ approval' = [approval EXCEPT ![a] =
                      [pc |-> "base", run |-> r, file |-> "fix", sha |-> "nosha"]]
    /\ UNCHANGED <<dbVars, worker, rejection, githubVars>>

\* get_default_branch_sha: two reads.
ReadBase(a) ==
    /\ approval[a].pc = "base"
    /\ Goto(a, "branch")
    /\ UNCHANGED <<dbVars, worker, rejection, githubVars>>

\* create_branch takes every 422 for "the branch already exists".
CreateBranch(a) ==
    /\ approval[a].pc = "branch"
    /\ \/ branches' = branches \cup {approval[a].run} /\ Answered(a, "get")
       \/ branches' = branches /\ Goto(a, "get")
    /\ UNCHANGED <<dbVars, worker, rejection, content, prs, comments, closed>>

\* create_or_update_file first asks for the sha of what is there; any answer
\* but 200 leaves it without one.
ReadFile(a) ==
    LET r == approval[a].run
        f == approval[a].file
    IN  /\ approval[a].pc = "get"
        /\ \E sha \in {"nosha"} \cup (IF r \in branches THEN {Sha(content[r][f])} ELSE {}) :
              approval' = [approval EXCEPT ![a].pc = "put", ![a].sha = sha]
        /\ UNCHANGED <<dbVars, worker, rejection, githubVars>>

\* The fix is committed first, then the test, then the pull request is opened.
AfterPut(q) ==
    IF q.file = "fix" THEN [q EXCEPT !.pc = "get", !.file = "test", !.sha = "nosha"]
                      ELSE [q EXCEPT !.pc = "pr", !.sha = "nosha"]

\* Slip: no raise_for_status after the PUT.
PutFileUnchecked(a) ==
    /\ approval[a].pc = "put"
    /\ approval' = [approval EXCEPT ![a] = AfterPut(@)]
    /\ UNCHANGED <<dbVars, worker, rejection, githubVars>>

\* ... then commits, which GitHub accepts if the branch exists and the sha is
\* that of the file it replaces.
PutFile(a) ==
    LET r == approval[a].run
        f == approval[a].file
    IN  /\ approval[a].pc = "put"
        /\ r \in branches
        /\ approval[a].sha = Sha(content[r][f])
        /\ content' = [content EXCEPT ![r][f] = "patched"]
        /\ \/ approval' = [approval EXCEPT ![a] = AfterPut(@)]
           \/ Leave(a)
        /\ UNCHANGED <<dbVars, worker, rejection, branches, prs, comments, closed>>

\* Slip: a 422 is taken for "the pull request is open", as in create_branch.
CreatePrAnyway(a) ==
    /\ approval[a].pc = "pr"
    /\ prs' = prs \cup {approval[a].run}
    /\ Goto(a, "comment")
    /\ UNCHANGED <<dbVars, worker, rejection, branches, content, comments, closed>>

\* GitHub refuses a second open pull request for the same head branch.
CreatePr(a) ==
    /\ approval[a].pc = "pr"
    /\ approval[a].run \notin prs
    /\ prs' = prs \cup {approval[a].run}
    /\ Answered(a, "comment")
    /\ UNCHANGED <<dbVars, worker, rejection, branches, content, comments, closed>>

\* Slip: no raise_for_status after the comment.
CommentUnchecked(a) ==
    /\ approval[a].pc = "comment"
    /\ Goto(a, "close")
    /\ UNCHANGED <<dbVars, worker, rejection, githubVars>>

\* close_issue: the comment with the link, then the close itself.
Comment(a) ==
    /\ approval[a].pc = "comment"
    /\ comments' = comments \cup {approval[a].run}
    /\ Answered(a, "close")
    /\ UNCHANGED <<dbVars, worker, rejection, branches, content, prs, closed>>

\* Slip: no raise_for_status after the PATCH.
CloseIssueUnchecked(a) ==
    /\ approval[a].pc = "close"
    /\ Goto(a, "record")
    /\ UNCHANGED <<dbVars, worker, rejection, githubVars>>

CloseIssue(a) ==
    /\ approval[a].pc = "close"
    /\ closed' = closed \cup {IssueOf[approval[a].run]}
    /\ Answered(a, "record")
    /\ UNCHANGED <<dbVars, worker, rejection, branches, content, prs, comments>>

\* The row is written without looking at its status again.
Record(a) ==
    /\ approval[a].pc = "record"
    /\ status' = [status EXCEPT ![approval[a].run] = "pr_opened"]
    /\ Leave(a)
    /\ UNCHANGED <<latest, refused, worker, rejection, githubVars>>

\* A call is refused or never gets through, or the final commit fails.
FailApproval(a) ==
    /\ approval[a].pc # "idle"
    /\ Leave(a)
    /\ UNCHANGED <<dbVars, worker, rejection, githubVars>>

-----------------------------------------------------------------------------
\* reject_remediation_run, in a thread.

\* Slip: reject does not look at the status.
ReadForRejectUnchecked(j, r) ==
    /\ rejection[j].pc = "idle"
    /\ status[r] # "none"
    /\ rejection' = [rejection EXCEPT ![j] = [pc |-> "read", run |-> r]]
    /\ UNCHANGED <<dbVars, worker, approval, githubVars>>

ReadForReject(j, r) ==
    /\ rejection[j].pc = "idle"
    /\ status[r] = "awaiting_approval"
    /\ rejection' = [rejection EXCEPT ![j] = [pc |-> "read", run |-> r]]
    /\ UNCHANGED <<dbVars, worker, approval, githubVars>>

StoreReject(j) ==
    /\ rejection[j].pc = "read"
    /\ status' = [status EXCEPT ![rejection[j].run] = "rejected"]
    /\ rejection' = [rejection EXCEPT ![j] = NotRejecting]
    /\ UNCHANGED <<latest, refused, worker, approval, githubVars>>

\* The commit fails.
FailReject(j) ==
    /\ rejection[j].pc = "read"
    /\ rejection' = [rejection EXCEPT ![j] = NotRejecting]
    /\ UNCHANGED <<dbVars, worker, approval, githubVars>>

-----------------------------------------------------------------------------

\* The process dies and comes back: every request is gone, and so is every run
\* whose row was only flushed.
Restart ==
    /\ worker' = [r \in Runs |-> IF worker[r] = "running" THEN "ended" ELSE worker[r]]
    /\ approval' = [a \in Approvals |-> NotApproving]
    /\ rejection' = [j \in Rejections |-> NotRejecting]
    /\ UNCHANGED <<dbVars, githubVars>>

Init ==
    /\ status = [r \in Runs |-> "none"]
    /\ latest = [i \in Issues |-> NoRun]
    /\ refused = {}
    /\ worker = [r \in Runs |-> "idle"]
    /\ approval = [a \in Approvals |-> NotApproving]
    /\ rejection = [j \in Rejections |-> NotRejecting]
    /\ branches = {}
    /\ content = [r \in Runs |-> OnBase]
    /\ prs = {}
    /\ comments = {}
    /\ closed = {}

StartNext(r) == RefuseRun(r) \/ BeginRun(r) \/ FinishRun(r) \/ DropRun(r)

ApproveNext(a) ==
    \/ \E r \in Runs : Admit(a, r)
    \/ ReadBase(a) \/ CreateBranch(a) \/ ReadFile(a) \/ PutFile(a)
    \/ CreatePr(a) \/ Comment(a) \/ CloseIssue(a) \/ Record(a)
    \/ FailApproval(a)

RejectNext(j) ==
    \/ \E r \in Runs : ReadForReject(j, r)
    \/ StoreReject(j) \/ FailReject(j)

Next ==
    \/ \E r \in Runs : StartNext(r)
    \/ \E a \in Approvals : ApproveNext(a)
    \/ \E j \in Rejections : RejectNext(j)
    \/ Restart

Spec == Init /\ [][Next]_vars

-----------------------------------------------------------------------------
\* What is checked.

\* Type correctness of every variable.
TypeOK ==
    /\ status \in [Runs -> Statuses]
    /\ latest \in [Issues -> Runs \cup {NoRun}]
    /\ refused \subseteq Runs
    /\ worker \in [Runs -> {"idle", "running", "ended"}]
    /\ approval \in [Approvals -> ApproveState]
    /\ rejection \in [Rejections -> RejectState]
    /\ branches \subseteq Runs
    /\ content \in [Runs -> [Files -> Contents]]
    /\ prs \subseteq Runs
    /\ comments \subseteq Runs
    /\ closed \subseteq Issues

\* Only a run that got as far as awaiting approval, on a sandbox repo, ever
\* leaves a trace on GitHub: a failed, refused or lost run never does, nor one
\* on an inspected repo (models.py: repo_type is "the enforcement point").
WritesPassTheGate ==
    \A r \in branches :
        /\ Sandboxed(r)
        /\ status[r] \in {"awaiting_approval", "rejected", "pr_opened"}

\* An open pull request carries the fix AND its test, however often approvals
\* of the run were interrupted, retried or run against each other.
PrCarriesPatch ==
    \A r \in prs : r \in branches /\ \A f \in Files : content[r][f] = "patched"

\* The platform never closes an issue silently: some run of that issue has an
\* open pull request and was announced on the issue (close_issue).
ClosedIssueExplained ==
    \A i \in closed : \E r \in prs \cap comments : IssueOf[r] = i

\* A row that says pr_opened has its pull request and its issue closed, also
\* when a rejection raced the approval.
PublishedRunBacked ==
    \A r \in Runs : status[r] = "pr_opened" => r \in prs /\ IssueOf[r] \in closed

\* Of several approvals of one run, at most one ever gets past the creation of
\* the pull request, so the issue is commented on and closed once.
Finishing(a) == approval[a].pc \in {"comment", "close", "record"}
SingleFinisher ==
    \A a, b \in Approvals :
        Finishing(a) /\ Finishing(b) /\ approval[a].run = approval[b].run => a = b

\* Issue.latest_remediation_run_id always leads to a committed run of that very
\* issue, and is NULL only while the issue has none.
LatestRunVisible ==
    \A i \in Issues :
        LET rows == {r \in Committed : IssueOf[r] = i}
        IN  IF rows = {} THEN latest[i] = NoRun ELSE latest[i] \in rows

\* A run whose approval broke off after its pull request was opened is stranded:
\* every later approval is refused by GitHub before it can record anything.
Stranded(r) ==
    /\ r \in prs
    /\ status[r] # "pr_opened"
    /\ \A a \in Approvals : Finishing(a) => approval[a].run # r
StrandedForGood == [][\A r \in Runs : Stranded(r) => Stranded(r)']_vars

\* The inductive strengthening of the invariants above: a coroutine that has not
\* ended has no committed row, and what a request in flight relies on without
\* looking again still holds, whatever happened since it was admitted.
PastGate(r) ==
    /\ Sandboxed(r)
    /\ status[r] \in {"awaiting_approval", "rejected", "pr_opened"}

FixCommitted(a) ==
    \/ approval[a].pc \in {"get", "put"} /\ approval[a].file = "test"
    \/ approval[a].pc = "pr"
    \/ Finishing(a)
TestCommitted(a) == approval[a].pc = "pr" \/ Finishing(a)

ApprovalBacked(a) ==
    LET r == approval[a].run
    IN  approval[a].pc # "idle" =>
          /\ PastGate(r)
          /\ approval[a].pc \in {"base", "branch"} => approval[a].file = "fix"
          /\ FixCommitted(a) => r \in branches /\ content[r]["fix"] = "patched"
          /\ TestCommitted(a) => content[r]["test"] = "patched"
          /\ Finishing(a) => r \in prs
          /\ approval[a].pc \in {"close", "record"} => r \in comments
          /\ approval[a].pc = "record" => IssueOf[r] \in closed

RowsFresh == \A r \in Runs : worker[r] # "ended" => status[r] = "none"
ApprovalsBacked == \A a \in Approvals : ApprovalBacked(a)
RejectionsBacked ==
    \A j \in Rejections : rejection[j].pc # "idle" => PastGate(rejection[j].run)
AwaitingIsSandboxed == \A r \in Runs : status[r] = "awaiting_approval" => Sandboxed(r)

RequestsBacked ==
    /\ RowsFresh
    /\ AwaitingIsSandboxed
    /\ ApprovalsBacked
    /\ RejectionsBacked

\* remediation_service.py: "only a run sitting at 'awaiting_approval' can be
\* approved".  A run becomes pr_opened straight from awaiting_approval.
OnlyAwaitingIsApproved ==
    [][\A r \in Runs :
          status[r] # "pr_opened" /\ status'[r] = "pr_opened"
             => status[r] = "awaiting_approval"]_vars

\* backend/README.md: "DAILY_RUN_CAP bounds total pipeline runs per rolling 24h
\* from any source".  Runs in progress count from their start.
PipelineRuns == {r \in Runs : worker[r] = "running"} \cup (Committed \ refused)
PipelineRunsWithinCap ==
    DailyRunCap > 0 => Cardinality(PipelineRuns) <= DailyRunCap

\* The decisions on a run that some request in flight is carrying out.
Pending(r) ==
    {d \in {"approve", "reject"} :
        \/ d = "approve" /\ \E a \in Approvals :
               approval[a].pc # "idle" /\ approval[a].run = r
        \/ d = "reject" /\ \E j \in Rejections :
               rejection[j].pc # "idle" /\ rejection[j].run = r}

\* The rows, the requests and GitHub together implement the gate.
Gate == INSTANCE ApprovalGate WITH
            Writable <- {r \in Runs : Sandboxed(r)},
            pending  <- [r \in Runs |-> Pending(r)],
            written  <- branches

ImplementsGate == Gate!Spec

=============================================================================
