------------------------------- MODULE Poller -------------------------------
(***************************************************************************)
(* How issues get into the database and which of them are remediated       *)
(* without being asked for: the poll loop (poller_service.py) and the      *)
(* background tasks it fires, beside the two routes that insert issues     *)
(* too, refresh-issues and demo/inject-bug.                                *)
(*                                                                         *)
(* All of it runs on one event loop, so a step is the code from one await  *)
(* to the next.  A poll cycle keeps ONE transaction open across its awaits *)
(* and commits at the end: until then the issues it has flushed are seen   *)
(* by no other session, yet hold their key in the unique index, and a      *)
(* session that inserts the same key waits for the poller's commit.  The   *)
(* database driver is synchronous: whoever waits keeps the loop.           *)
(*                                                                         *)
(* Every open issue of a repo fits on the one page list_open_issues reads. *)
(***************************************************************************)
EXTENDS Naturals, Sequences

CONSTANTS
    Issues,         \* issues that exist or may be opened on GitHub
    RepoOrder,      \* the active sandbox repos, in the order a cycle takes them
    RepoOf,         \* RepoOf[i]: the repo of an issue
    Baseline,       \* issues imported when their repo was connected
    Injects,        \* inject-bug requests that may be in flight together
    Refreshes,      \* refresh-issues requests that may be in flight together
    Nothing,        \* no request in flight
    MayRestart,     \* TRUE if the process may be restarted
    DbMayFail       \* TRUE if a statement of the poller may fail

Repos == {RepoOrder[k] : k \in DOMAIN RepoOrder}

ASSUME PollerAssumption ==
    /\ RepoOrder \in Seq(Repos) /\ RepoOrder # <<>>
    /\ RepoOf \in [Issues -> Repos]
    /\ Baseline \subseteq Issues
    /\ Nothing \notin Issues \cup Repos
    /\ MayRestart \in BOOLEAN /\ DbMayFail \in BOOLEAN

VARIABLES
    open,       \* issues open on GitHub
    rows,       \* issues with a committed row
    origin,     \* origin[i]: Issue.origin, of a row or of a flushed one
    unsaved,    \* issues flushed in the poller's open transaction
    poller,     \* where poll_loop is
    repoNo,     \* the position in RepoOrder of the repo being polled
    kind,       \* trigger_type of the latest cycle
    trigger,    \* poll_trigger_event
    task,       \* task[i]: the background task of i
    autoRuns,   \* autoRuns[i]: remediation runs started by the poller's tasks
    inject,     \* inject[q]: the issue whose creation q awaits
    refresh,    \* refresh[q]: the repo whose issue list q awaits
    blocked     \* the event loop sits in a database wait

requests == <<inject, refresh>>
pollVars == <<poller, repoNo, kind, trigger>>
vars == <<open, rows, origin, unsaved, pollVars, task, autoRuns, requests, blocked>>

Origins   == {"none", "baseline", "poller_detected", "demo_injected", "manual_refresh"}
TaskState == {"none", "scheduled", "running", "done"}

-----------------------------------------------------------------------------
\* poll_loop and run_poll_cycle.

\* An answer from the network that the poller asks for after creating a task
\* takes longer than the start of that task, which is ready at once.
TasksStarted == \A i \in Issues : task[i] # "scheduled"

\* The timeout or the event ends the wait; the next cycle begins and awaits the
\* issue list of the first repo.
Wake ==
    /\ ~blocked
    /\ poller = "asleep"
    /\ poller' = "listing"
    /\ repoNo' = 1
    /\ kind' = IF trigger THEN "manual" ELSE "interval"
    /\ trigger' = FALSE
    /\ UNCHANGED <<open, rows, origin, unsaved, task, autoRuns, requests, blocked>>

\* Slip: the commit is forgotten.
CommitForgotten(found) ==
    /\ unsaved' = {}
    /\ poller' = "asleep"
    /\ UNCHANGED <<rows, repoNo, kind, trigger>>

\* Slip: what a cycle finds is committed at the end of the next one.
CommitLate(found) ==
    /\ rows' = rows \cup unsaved
    /\ unsaved' = found
    /\ poller' = "asleep"
    /\ UNCHANGED <<repoNo, kind, trigger>>

\* Slip: the event is cleared after the cycle as well.
CommitThenClear(found) ==
    /\ rows' = rows \cup unsaved \cup found
    /\ unsaved' = {}
    /\ poller' = "asleep"
    /\ trigger' = FALSE
    /\ UNCHANGED <<repoNo, kind>>

\* The end of a cycle: commit whatever was flushed, and wait.
Commit(found) ==
    /\ rows' = rows \cup unsaved \cup found
    /\ unsaved' = {}
    /\ poller' = "asleep"
    /\ UNCHANGED <<repoNo, kind, trigger>>

\* Slip: an issue the poller found counts as known only after its run.
UnknownUntilRun ==
    {i \in open : /\ RepoOf[i] = RepoOrder[repoNo]
                  /\ i \in rows \cup unsaved =>
                        origin[i] = "poller_detected" /\ task[i] # "done"}

\* The listed issues without a row; the poller's session sees its own flushes.
Unknown ==
    {i \in open : RepoOf[i] = RepoOrder[repoNo] /\ i \notin rows \cup unsaved}

Poll ==
    /\ ~blocked
    /\ TasksStarted
    /\ poller = "listing"
    /\ origin' = [i \in Issues |-> IF i \in Unknown THEN "poller_detected" ELSE origin[i]]
    /\ task' = [i \in Issues |-> IF i \in Unknown THEN "scheduled" ELSE task[i]]
    /\ IF repoNo < Len(RepoOrder)
         THEN /\ unsaved' = unsaved \cup Unknown
              /\ repoNo' = repoNo + 1
              /\ UNCHANGED <<rows, poller, kind, trigger>>
         ELSE Commit(Unknown)
    /\ UNCHANGED <<open, autoRuns, requests, blocked>>

\* GitHub answers with an error: the cycle is over, the commit is not skipped.
PollFails ==
    /\ ~blocked
    /\ TasksStarted
    /\ poller = "listing"
    /\ Commit({})
    /\ UNCHANGED <<open, origin, task, autoRuns, requests, blocked>>

\* A statement of the poller fails: inside the try the commit of the finally
\* clause raises in turn, outside it there is no handler, and nothing in
\* poll_loop catches either.
PollerDies ==
    /\ DbMayFail
    /\ ~blocked
    /\ TasksStarted
    /\ poller # "dead"
    /\ poller' = "dead"
    /\ unsaved' = {}
    /\ origin' = [i \in Issues |-> IF i \in unsaved THEN "none" ELSE origin[i]]
    /\ UNCHANGED <<open, rows, repoNo, kind, trigger, task, autoRuns, requests, blocked>>

\* trigger_poll_now.
TriggerNow ==
    /\ ~blocked
    /\ trigger' = TRUE
    /\ UNCHANGED <<open, rows, origin, unsaved, poller, repoNo, kind, task, autoRuns,
                   requests, blocked>>

-----------------------------------------------------------------------------
\* _remediate_in_new_session.

\* The task's own session looks the issue up; it returns without a word if the
\* row is not there.
StartTask(i) ==
    /\ ~blocked
    /\ task[i] = "scheduled"
    /\ IF i \in rows
         THEN /\ task' = [task EXCEPT ![i] = "running"]
              /\ autoRuns' = [autoRuns EXCEPT ![i] = @ + 1]
         ELSE /\ task' = [task EXCEPT ![i] = "none"]
              /\ UNCHANGED autoRuns
    /\ UNCHANGED <<open, rows, origin, unsaved, pollVars, requests, blocked>>

EndTask(i) ==
    /\ ~blocked
    /\ task[i] = "running"
    /\ task' = [task EXCEPT ![i] = "done"]
    /\ UNCHANGED <<open, rows, origin, unsaved, pollVars, autoRuns, requests, blocked>>

-----------------------------------------------------------------------------
\* The routes.

\* Slip: no unique constraint on the issues table.
InsertUnguarded(new, as) ==
    /\ rows' = rows \cup new
    /\ origin' = [i \in Issues |-> IF i \in new THEN as ELSE origin[i]]
    /\ UNCHANGED blocked

\* Insert rows for a set of issues and commit, unless one of them is being
\* inserted by the poller's open transaction.
Insert(new, as) ==
    IF new \cap unsaved # {}
      THEN /\ blocked' = TRUE
           /\ UNCHANGED <<rows, origin>>
      ELSE /\ rows' = rows \cup new
           /\ origin' = [i \in Issues |-> IF i \in new THEN as ELSE origin[i]]
           /\ UNCHANGED blocked

\* inject_demo_bug: the issue is created on GitHub ...
CreateIssue(q, i) ==
    /\ ~blocked
    /\ inject[q] = Nothing
    /\ i \notin open \cup rows \cup unsaved
    /\ \A p \in Injects : inject[p] # i
    /\ open' = open \cup {i}
    /\ inject' = [inject EXCEPT ![q] = i]
    /\ UNCHANGED <<rows, origin, unsaved, pollVars, task, autoRuns, refresh, blocked>>

\* ... and when the answer is there, inserted, for a run of its own.  An issue
\* the poller has stored meanwhile violates the unique constraint.
StoreInjected(q) ==
    /\ ~blocked
    /\ inject[q] # Nothing
    /\ IF inject[q] \in rows THEN UNCHANGED <<rows, origin, blocked>>
                             ELSE Insert({inject[q]}, "demo_injected")
    /\ inject' = [inject EXCEPT ![q] = Nothing]
    /\ UNCHANGED <<open, unsaved, pollVars, task, autoRuns, refresh>>

\* The answer to the creation is lost.
LoseInjected(q) ==
    /\ ~blocked
    /\ inject[q] # Nothing
    /\ inject' = [inject EXCEPT ![q] = Nothing]
    /\ UNCHANGED <<open, rows, origin, unsaved, pollVars, task, autoRuns, refresh, blocked>>

\* refresh_issues: list, then insert what has no row.
AskRefresh(q, r) ==
    /\ ~blocked
    /\ refresh[q] = Nothing
    /\ refresh' = [refresh EXCEPT ![q] = r]
    /\ UNCHANGED <<open, rows, origin, unsaved, pollVars, task, autoRuns, inject, blocked>>

StoreRefreshed(q) ==
    /\ ~blocked
    /\ refresh[q] # Nothing
    /\ Insert({i \in open : RepoOf[i] = refresh[q] /\ i \notin rows}, "manual_refresh")
    /\ refresh' = [refresh EXCEPT ![q] = Nothing]
    /\ UNCHANGED <<open, unsaved, pollVars, task, autoRuns, inject>>

FailRefresh(q) ==
    /\ ~blocked
    /\ refresh[q] # Nothing
    /\ refresh' = [refresh EXCEPT ![q] = Nothing]
    /\ UNCHANGED <<open, rows, origin, unsaved, pollVars, task, autoRuns, inject, blocked>>

-----------------------------------------------------------------------------
\* The world.

\* Anyone opens an issue.
OpenIssue(i) ==
    /\ i \notin open
    /\ open' = open \cup {i}
    /\ UNCHANGED <<rows, origin, unsaved, pollVars, task, autoRuns, requests, blocked>>

\* An issue is closed on GitHub; its row stays as it is.
CloseIssue(i) ==
    /\ i \in open
    /\ open' = open \ {i}
    /\ UNCHANGED <<rows, origin, unsaved, pollVars, task, autoRuns, requests, blocked>>

\* The process is restarted: the open transaction is rolled back and tasks,
\* requests and the event are gone.
Restart ==
    /\ MayRestart
    /\ unsaved' = {}
    /\ origin' = [i \in Issues |-> IF i \in unsaved THEN "none" ELSE origin[i]]
    /\ poller' = "asleep"
    /\ trigger' = FALSE
    /\ task' = [i \in Issues |-> IF task[i] = "done" THEN "done" ELSE "none"]
    /\ inject' = [q \in Injects |-> Nothing]
    /\ refresh' = [q \in Refreshes |-> Nothing]
    /\ blocked' = FALSE
    /\ UNCHANGED <<open, rows, repoNo, kind, autoRuns>>

Init ==
    /\ open = Baseline
    /\ rows = Baseline
    /\ origin = [i \in Issues |-> IF i \in Baseline THEN "baseline" ELSE "none"]
    /\ unsaved = {}
    /\ poller = "asleep"        \* poll_loop starts with a cycle
    /\ repoNo = 1
    /\ kind = "interval"
    /\ trigger = FALSE
    /\ task = [i \in Issues |-> "none"]
    /\ autoRuns = [i \in Issues |-> 0]
    /\ inject = [q \in Injects |-> Nothing]
    /\ refresh = [q \in Refreshes |-> Nothing]
    /\ blocked = FALSE

PollNext == Wake \/ Poll \/ PollFails
TaskNext(i) == StartTask(i) \/ EndTask(i)
RouteNext ==
    \/ TriggerNow
    \/ \E q \in Injects : StoreInjected(q) \/ LoseInjected(q) \/ \E i \in Issues : CreateIssue(q, i)
    \/ \E q \in Refreshes : StoreRefreshed(q) \/ FailRefresh(q) \/ \E r \in Repos : AskRefresh(q, r)

Next ==
    \/ PollNext
    \/ PollerDies
    \/ \E i \in Issues : TaskNext(i)
    \/ RouteNext
    \/ \E i \in Issues : OpenIssue(i) \/ CloseIssue(i)
    \/ Restart

Spec == Init /\ [][Next]_vars

\* The event loop serves whatever is ready; the interval and GitHub's answer
\* are bounded by timeouts; a poll is answered again and again.
FairSpec ==
    /\ Spec
    /\ WF_vars(PollNext)
    /\ SF_vars(Poll)
    /\ \A i \in Issues : WF_vars(TaskNext(i))

-----------------------------------------------------------------------------
\* What is checked.

\* Type correctness of every variable.
TypeOK ==
    /\ open \subseteq Issues
    /\ rows \subseteq Issues
    /\ origin \in [Issues -> Origins]
    /\ unsaved \subseteq Issues
    /\ poller \in {"asleep", "listing", "dead"}
    /\ repoNo \in DOMAIN RepoOrder
    /\ kind \in {"interval", "manual"}
    /\ trigger \in BOOLEAN
    /\ task \in [Issues -> TaskState]
    /\ autoRuns \in [Issues -> 0..1]
    /\ inject \in [Injects -> Issues \cup {Nothing}]
    /\ refresh \in [Refreshes -> Repos \cup {Nothing}]
    /\ blocked \in BOOLEAN

\* The poller remediates an issue at most once, whatever restarts, refreshes
\* and injections happen in between, and only issues a poll found first: never
\* the baseline, nor what a visitor imported or injected.
AutoRunOnce ==
    \A i \in Issues :
        /\ autoRuns[i] <= 1
        /\ autoRuns[i] = 1 => i \in rows /\ origin[i] = "poller_detected"

\* An issue has a row or is being inserted, never both, and has the origin of
\* the one way it came in; flushed rows wait only while a cycle is under way.
OneInsertPerIssue ==
    /\ rows \cap unsaved = {}
    /\ \A i \in Issues : i \in rows \cup unsaved <=> origin[i] # "none"
    /\ unsaved # {} => poller = "listing" /\ repoNo > 1

\* The loop never waits for a lock, whose holder it would have to run.
LoopNeverBlocked == ~blocked

\* backend/README.md: "Background poller ... detects it - poller state lives in
\* Postgres, so it survives restarts", and the detected issue goes through the
\* agent graph.  A stored issue the poller found has its task, until it is done.
DetectedIssueHasTask ==
    \A i \in rows : origin[i] = "poller_detected" => task[i] # "none"

\* Every issue that stays open gets a row.
OpenIssueStored == \A i \in Issues : i \in open ~> (i \in rows \/ i \notin open)

\* Every issue a poll found gets its run.
DetectedIssueRuns ==
    \A i \in Issues : origin[i] = "poller_detected" ~> autoRuns[i] = 1

\* A trigger is never lost, also when it arrives during a cycle: a cycle that
\* begins later runs as "manual" (trigger_poll_now).
TriggerServed == trigger ~> (poller = "listing" /\ kind = "manual" /\ ~trigger)

\* The committed rows and the tasks together implement the intake: what the open
\* transaction holds is nowhere until it is committed, all of it at once.
Stored == [i \in Issues |-> IF i \in rows THEN origin[i] ELSE "none"]
Intake == INSTANCE IssueIntake WITH stored <- Stored, runs <- autoRuns
ImplementsIntake == Intake!Spec

=============================================================================
