---------------------------- MODULE PollerProofs ----------------------------
(***************************************************************************)
(* What Poller guarantees for any issues, any repos in any order, and any  *)
(* number of requests: who inserts an issue, and how often its run is      *)
(* started.                                                                *)
(***************************************************************************)
EXTENDS Poller, TLAPS

\* A started run belongs to a committed row that a poll found.
RunsBacked ==
    \A i \in Issues : autoRuns[i] = 1 => i \in rows /\ origin[i] = "poller_detected"

\* A task that has not looked up its issue yet is the first for that issue, and
\* nobody else has inserted the issue.
ScheduledIsFirst ==
    \A i \in Issues : task[i] = "scheduled" =>
        autoRuns[i] = 0 /\ i \in rows \cup unsaved /\ origin[i] = "poller_detected"

PollerInv == TypeOK /\ OneInsertPerIssue /\ RunsBacked /\ ScheduledIsFirst

-----------------------------------------------------------------------------

LEMMA FirstRepo == 1 \in DOMAIN RepoOrder /\ Len(RepoOrder) \in Nat
                   /\ DOMAIN RepoOrder = 1..Len(RepoOrder)
BY PollerAssumption

LEMMA PollerInit == Init => PollerInv
<1> SUFFICES ASSUME Init PROVE PollerInv
  OBVIOUS
<1>1. TypeOK
  <2>1. /\ open \subseteq Issues /\ rows \subseteq Issues /\ unsaved \subseteq Issues
        /\ poller \in {"asleep", "listing", "dead"} /\ repoNo \in DOMAIN RepoOrder
        /\ kind \in {"interval", "manual"} /\ trigger \in BOOLEAN /\ blocked \in BOOLEAN
    BY FirstRepo, PollerAssumption DEF Init
  <2>2. /\ origin \in [Issues -> Origins] /\ task \in [Issues -> TaskState]
        /\ autoRuns \in [Issues -> 0..1]
    BY DEF Init, Origins, TaskState
  <2>3. /\ inject \in [Injects -> Issues \cup {Nothing}]
        /\ refresh \in [Refreshes -> Repos \cup {Nothing}]
    BY DEF Init
  <2> QED
    BY <2>1, <2>2, <2>3 DEF TypeOK
<1>2. OneInsertPerIssue /\ RunsBacked /\ ScheduledIsFirst
  BY PollerAssumption DEF Init, OneInsertPerIssue, RunsBacked, ScheduledIsFirst
<1> QED
  BY <1>1, <1>2 DEF PollerInv

\* The end of a cycle, whatever the last repo added.
LEMMA CommitKeeps ==
  ASSUME PollerInv, NEW found \in SUBSET Issues, Commit(found), poller = "listing"
  PROVE  /\ rows' \subseteq Issues /\ unsaved' = {} /\ poller' = "asleep"
         /\ rows' = rows \cup unsaved \cup found
         /\ UNCHANGED <<repoNo, kind, trigger>>
BY DEF Commit, PollerInv, TypeOK

\* Poll inserts and schedules exactly the issues that nobody has inserted.
LEMMA PollStep == ASSUME PollerInv, Poll PROVE PollerInv'
<1> DEFINE New == Unknown
<1>1. /\ New \in SUBSET Issues
      /\ \A i \in New : i \in Issues /\ i \notin rows \cup unsaved
      /\ \A i \in New : origin[i] = "none" /\ autoRuns[i] = 0
  BY DEF Unknown, PollerInv, TypeOK, OneInsertPerIssue, RunsBacked
<1>2. /\ origin' = [i \in Issues |-> IF i \in New THEN "poller_detected" ELSE origin[i]]
      /\ task' = [i \in Issues |-> IF i \in New THEN "scheduled" ELSE task[i]]
      /\ UNCHANGED <<open, autoRuns, requests, blocked>>
      /\ poller = "listing" /\ TasksStarted
  BY DEF Poll
<1>3. /\ rows' \cup unsaved' = rows \cup unsaved \cup New
      /\ rows' \cap unsaved' = {}
      /\ rows' \subseteq Issues /\ unsaved' \subseteq Issues
      /\ rows \subseteq rows'
      /\ unsaved' # {} => poller' = "listing" /\ repoNo' > 1
      /\ repoNo' \in DOMAIN RepoOrder
      /\ poller' \in {"asleep", "listing", "dead"}
      /\ UNCHANGED <<kind, trigger>>
  <2>1. CASE repoNo < Len(RepoOrder)
    <3>1. /\ unsaved' = unsaved \cup New /\ repoNo' = repoNo + 1
          /\ UNCHANGED <<rows, poller, kind, trigger>>
      BY <2>1 DEF Poll
    <3>2. repoNo + 1 \in DOMAIN RepoOrder /\ repoNo + 1 > 1
      BY <2>1, FirstRepo DEF PollerInv, TypeOK
    <3> QED
      BY <1>1, <1>2, <3>1, <3>2 DEF PollerInv, TypeOK, OneInsertPerIssue
  <2>2. CASE ~(repoNo < Len(RepoOrder))
    <3>1. Commit(New)
      BY <2>2 DEF Poll
    <3> QED
      BY <1>1, <1>2, <3>1, CommitKeeps DEF PollerInv, TypeOK
  <2> QED
    BY <2>1, <2>2
<1> HIDE DEF New
<1>4. TypeOK'
  BY <1>2, <1>3 DEF PollerInv, TypeOK, Origins, TaskState, requests
<1>5. OneInsertPerIssue'
  BY <1>1, <1>2, <1>3 DEF PollerInv, TypeOK, OneInsertPerIssue
<1>6. RunsBacked'
  BY <1>1, <1>2, <1>3 DEF PollerInv, TypeOK, RunsBacked
<1>7. ScheduledIsFirst'
  BY <1>1, <1>2, <1>3 DEF PollerInv, TypeOK, ScheduledIsFirst, TasksStarted
<1> QED
  BY <1>4, <1>5, <1>6, <1>7 DEF PollerInv

\* A route inserts only what has no row and is not being inserted.
LEMMA InsertStep ==
  ASSUME PollerInv, NEW new \in SUBSET Issues, new \cap rows = {},
         NEW as \in Origins \ {"none", "poller_detected"}, Insert(new, as),
         UNCHANGED <<open, unsaved, pollVars, task, autoRuns>>,
         inject' \in [Injects -> Issues \cup {Nothing}],
         refresh' \in [Refreshes -> Repos \cup {Nothing}]
  PROVE  PollerInv'
<1>1. CASE new \cap unsaved # {}
  <2>1. blocked' = TRUE /\ UNCHANGED <<rows, origin>>
    BY <1>1 DEF Insert
  <2> QED
    BY <2>1 DEF PollerInv, TypeOK, OneInsertPerIssue, RunsBacked, ScheduledIsFirst, pollVars
<1>2. CASE new \cap unsaved = {}
  <2>1. /\ rows' = rows \cup new
        /\ origin' = [i \in Issues |-> IF i \in new THEN as ELSE origin[i]]
        /\ UNCHANGED blocked
    BY <1>2 DEF Insert
  <2>2. \A i \in new : i \notin rows \cup unsaved /\ autoRuns[i] # 1 /\ task[i] # "scheduled"
    BY <1>2 DEF PollerInv, RunsBacked, ScheduledIsFirst
  <2>3. TypeOK'
    BY <2>1 DEF PollerInv, TypeOK, pollVars
  <2>4. OneInsertPerIssue'
    BY <1>2, <2>1, <2>2 DEF PollerInv, TypeOK, OneInsertPerIssue, pollVars
  <2>5. RunsBacked' /\ ScheduledIsFirst'
    BY <2>1, <2>2 DEF PollerInv, TypeOK, RunsBacked, ScheduledIsFirst
  <2> QED
    BY <2>3, <2>4, <2>5 DEF PollerInv
<1> QED
  BY <1>1, <1>2

\* The poller dies, or the process: what was flushed has no trace but in the
\* rows, and no task was waiting for it.
LEMMA RollbackStep == ASSUME PollerInv, PollerDies \/ Restart PROVE PollerInv'
<1> USE DEF PollerInv
<1>1. /\ unsaved' = {} /\ UNCHANGED <<open, rows, repoNo, kind, autoRuns>>
      /\ origin' = [i \in Issues |-> IF i \in unsaved THEN "none" ELSE origin[i]]
      /\ \A i \in Issues : task'[i] # "scheduled"
  BY DEF PollerDies, Restart, TasksStarted
<1>2. TypeOK'
  <2>1. CASE PollerDies
    BY <2>1 DEF PollerDies, TypeOK, Origins, requests
  <2>2. CASE Restart
    BY <2>2 DEF Restart, TypeOK, Origins, TaskState
  <2> QED
    BY <2>1, <2>2
<1>3. OneInsertPerIssue' /\ RunsBacked' /\ ScheduledIsFirst'
  BY <1>1 DEF TypeOK, OneInsertPerIssue, RunsBacked, ScheduledIsFirst
<1> QED
  BY <1>2, <1>3

\* Of the other steps only StartTask touches anything the invariant relates.
LEMMA PollerStep == PollerInv /\ [Next]_vars => PollerInv'
<1> SUFFICES ASSUME PollerInv, [Next]_vars PROVE PollerInv'
  OBVIOUS
<1>1. CASE Wake
  BY <1>1, FirstRepo
     DEF PollerInv, Wake, TypeOK, OneInsertPerIssue, RunsBacked, ScheduledIsFirst, requests
<1>2. CASE Poll
  BY <1>2, PollStep
<1>3. CASE PollFails
  <2>1. Commit({}) /\ poller = "listing"
        /\ UNCHANGED <<open, origin, task, autoRuns, requests, blocked>>
    BY <1>3 DEF PollFails
  <2>2. /\ rows' = rows \cup unsaved /\ unsaved' = {} /\ poller' = "asleep"
        /\ UNCHANGED <<repoNo, kind, trigger>>
    BY <2>1 DEF Commit
  <2>3. TypeOK'
    BY <2>1, <2>2 DEF PollerInv, TypeOK, requests
  <2> QED
    BY <2>1, <2>2, <2>3 DEF PollerInv, TypeOK, OneInsertPerIssue, RunsBacked, ScheduledIsFirst
<1>4. CASE PollerDies \/ Restart
  BY <1>4, RollbackStep
<1>5. ASSUME NEW i \in Issues, StartTask(i) PROVE PollerInv'
  <2>1. CASE i \in rows
    <3>1. /\ task' = [task EXCEPT ![i] = "running"]
          /\ autoRuns' = [autoRuns EXCEPT ![i] = autoRuns[i] + 1]
          /\ task[i] = "scheduled"
          /\ UNCHANGED <<open, rows, origin, unsaved, pollVars, requests, blocked>>
      BY <1>5, <2>1 DEF StartTask
    <3>2. autoRuns[i] = 0 /\ origin[i] = "poller_detected"
      BY <3>1 DEF PollerInv, ScheduledIsFirst
    <3>3. TypeOK'
      BY <3>1, <3>2 DEF PollerInv, TypeOK, TaskState, pollVars, requests
    <3> QED
      BY <2>1, <3>1, <3>2, <3>3
         DEF PollerInv, TypeOK, OneInsertPerIssue, RunsBacked, ScheduledIsFirst, pollVars
  <2>2. CASE i \notin rows
    BY <1>5, <2>2 DEF PollerInv, StartTask, TypeOK, TaskState, OneInsertPerIssue, RunsBacked,
                      ScheduledIsFirst, pollVars, requests
  <2> QED
    BY <2>1, <2>2
<1>6. ASSUME NEW i \in Issues, EndTask(i) PROVE PollerInv'
  BY <1>6 DEF PollerInv, EndTask, TypeOK, TaskState, OneInsertPerIssue, RunsBacked,
              ScheduledIsFirst, pollVars, requests
<1>7. CASE TriggerNow
  BY <1>7 DEF PollerInv, TriggerNow, TypeOK, OneInsertPerIssue, RunsBacked,
              ScheduledIsFirst, requests
<1>8. ASSUME NEW q \in Injects, StoreInjected(q) PROVE PollerInv'
  <2>1. /\ inject[q] \in Issues
        /\ inject' \in [Injects -> Issues \cup {Nothing}]
        /\ refresh' \in [Refreshes -> Repos \cup {Nothing}]
        /\ UNCHANGED <<open, unsaved, pollVars, task, autoRuns>>
    BY <1>8 DEF PollerInv, StoreInjected, TypeOK
  <2>2. CASE inject[q] \in rows
    BY <1>8, <2>1, <2>2 DEF PollerInv, StoreInjected, TypeOK, OneInsertPerIssue, RunsBacked,
                            ScheduledIsFirst, pollVars
  <2>3. CASE inject[q] \notin rows
    <3>1. Insert({inject[q]}, "demo_injected")
      BY <1>8, <2>3 DEF PollerInv, StoreInjected
    <3>2. {inject[q]} \in SUBSET Issues /\ {inject[q]} \cap rows = {}
      BY <2>1, <2>3
    <3>3. "demo_injected" \in Origins \ {"none", "poller_detected"}
      BY DEF Origins
    <3> QED
      BY <2>1, <3>1, <3>2, <3>3, InsertStep
  <2> QED
    BY <2>2, <2>3
<1>9. ASSUME NEW q \in Refreshes, StoreRefreshed(q) PROVE PollerInv'
  <2> DEFINE new == {i \in open : RepoOf[i] = refresh[q] /\ i \notin rows}
  <2>1. new \in SUBSET Issues /\ new \cap rows = {}
    BY DEF PollerInv, TypeOK
  <2>2. /\ Insert(new, "manual_refresh")
        /\ UNCHANGED <<open, unsaved, pollVars, task, autoRuns>>
    BY <1>9 DEF PollerInv, StoreRefreshed
  <2>3. /\ inject' \in [Injects -> Issues \cup {Nothing}]
        /\ refresh' \in [Refreshes -> Repos \cup {Nothing}]
    BY <1>9 DEF PollerInv, StoreRefreshed, TypeOK
  <2>4. "manual_refresh" \in Origins \ {"none", "poller_detected"}
    BY DEF Origins
  <2> QED
    BY <2>1, <2>2, <2>3, <2>4, InsertStep
<1>10. ASSUME NEW q \in Injects, LoseInjected(q) \/ \E i \in Issues : CreateIssue(q, i)
       PROVE  PollerInv'
  BY <1>10 DEF PollerInv, LoseInjected, CreateIssue, TypeOK, OneInsertPerIssue, RunsBacked,
               ScheduledIsFirst, pollVars
<1>11. ASSUME NEW q \in Refreshes, FailRefresh(q) \/ \E r \in Repos : AskRefresh(q, r)
       PROVE  PollerInv'
  BY <1>11 DEF PollerInv, FailRefresh, AskRefresh, TypeOK, OneInsertPerIssue, RunsBacked,
               ScheduledIsFirst, pollVars
<1>12. ASSUME NEW i \in Issues, OpenIssue(i) \/ CloseIssue(i) PROVE PollerInv'
  BY <1>12 DEF PollerInv, OpenIssue, CloseIssue, TypeOK, OneInsertPerIssue, RunsBacked,
               ScheduledIsFirst, pollVars, requests
<1>13. CASE UNCHANGED vars
  BY <1>13 DEF PollerInv, vars, TypeOK, OneInsertPerIssue, RunsBacked, ScheduledIsFirst,
               pollVars, requests
<1>14. CASE RouteNext
  <2>1. ASSUME NEW q \in Injects,
               StoreInjected(q) \/ LoseInjected(q) \/ \E i \in Issues : CreateIssue(q, i)
        PROVE  PollerInv'
    BY <1>8, <1>10, <2>1
  <2>2. ASSUME NEW q \in Refreshes,
               StoreRefreshed(q) \/ FailRefresh(q) \/ \E r \in Repos : AskRefresh(q, r)
        PROVE  PollerInv'
    BY <1>9, <1>11, <2>2
  <2> QED
    BY <1>7, <1>14, <2>1, <2>2 DEF RouteNext
<1>15. CASE Next
  BY <1>1, <1>2, <1>3, <1>4, <1>5, <1>6, <1>12, <1>14, <1>15 DEF Next, PollNext, TaskNext
<1> QED
  BY <1>13, <1>15

\* Every reachable state keeps who inserted what, and which run that started.
THEOREM PollerInvAlways == Spec => []PollerInv
BY PollerInit, PollerStep, PTL DEF Spec

-----------------------------------------------------------------------------
\* The properties the runs check.

\* Every variable has its type.
THEOREM PollerTypeCorrect == Spec => []TypeOK
<1>1. PollerInv => TypeOK
  BY DEF PollerInv
<1> QED
  BY <1>1, PollerInvAlways, PTL

\* An issue enters the database one way only, whoever else tries.
THEOREM InsertedOnce == Spec => []OneInsertPerIssue
<1>1. PollerInv => OneInsertPerIssue
  BY DEF PollerInv
<1> QED
  BY <1>1, PollerInvAlways, PTL

\* The poller starts one run for an issue at most, and only for one it found.
THEOREM AutoRunsOnce == Spec => []AutoRunOnce
<1>1. PollerInv => AutoRunOnce
  <2> SUFFICES ASSUME PollerInv, NEW i \in Issues
               PROVE  /\ autoRuns[i] <= 1
                      /\ autoRuns[i] = 1 => i \in rows /\ origin[i] = "poller_detected"
    BY DEF AutoRunOnce
  <2>1. autoRuns[i] \in 0..1
    BY DEF PollerInv, TypeOK
  <2>2. autoRuns[i] <= 1
    BY <2>1
  <2> QED
    BY <2>2 DEF PollerInv, RunsBacked
<1> QED
  BY <1>1, PollerInvAlways, PTL

-----------------------------------------------------------------------------
\* A single sandbox repo: a cycle then holds nothing across an await.

LEMMA NothingFlushed ==
  ASSUME Len(RepoOrder) = 1, PollerInv
  PROVE  unsaved = {}
BY FirstRepo DEF PollerInv, TypeOK, OneInsertPerIssue

\* An insert waits only for what is flushed.
LEMMA LoopFreeStep ==
  ASSUME Len(RepoOrder) = 1, PollerInv, LoopNeverBlocked, [Next]_vars
  PROVE  LoopNeverBlocked'
<1>1. unsaved = {}
  BY NothingFlushed
<1>2. ASSUME NEW q \in Injects, StoreInjected(q) PROVE LoopNeverBlocked'
  BY <1>1, <1>2 DEF StoreInjected, Insert, LoopNeverBlocked
<1>3. ASSUME NEW q \in Refreshes, StoreRefreshed(q) PROVE LoopNeverBlocked'
  BY <1>1, <1>3 DEF StoreRefreshed, Insert, LoopNeverBlocked
<1>4. RouteNext => LoopNeverBlocked'
  BY <1>2, <1>3
     DEF RouteNext, TriggerNow, LoseInjected, CreateIssue, FailRefresh, AskRefresh, LoopNeverBlocked
<1>5. PollNext \/ PollerDies \/ Restart \/ UNCHANGED vars => LoopNeverBlocked'
  BY DEF PollNext, Wake, Poll, PollFails, PollerDies, Restart, vars, LoopNeverBlocked
<1>6. ASSUME NEW i \in Issues, TaskNext(i) \/ OpenIssue(i) \/ CloseIssue(i) PROVE LoopNeverBlocked'
  BY <1>6 DEF TaskNext, StartTask, EndTask, OpenIssue, CloseIssue, LoopNeverBlocked
<1> QED
  BY <1>4, <1>5, <1>6 DEF Next

\* A task that starts finds its row.
LEMMA HasTaskStep ==
  ASSUME Len(RepoOrder) = 1, ~MayRestart, PollerInv, DetectedIssueHasTask, [Next]_vars
  PROVE  DetectedIssueHasTask'
<1> USE DEF DetectedIssueHasTask
<1>1. unsaved = {}
  BY NothingFlushed
<1>2. task \in [Issues -> TaskState] /\ origin \in [Issues -> Origins] /\ rows \subseteq Issues
  BY DEF PollerInv, TypeOK
<1>3. ASSUME UNCHANGED <<rows, origin, task>> PROVE DetectedIssueHasTask'
  BY <1>3
<1>4. CASE Poll
  <2>1. /\ \A i \in Issues : i \in Unknown => task'[i] = "scheduled"
        /\ \A i \in Issues : i \notin Unknown => task'[i] = task[i] /\ origin'[i] = origin[i]
    BY <1>4 DEF Poll
  <2>2. rows' \subseteq rows \cup Unknown /\ Unknown \subseteq Issues
    BY <1>1, <1>4 DEF Poll, Commit, Unknown, PollerInv, TypeOK
  <2> QED
    BY <1>2, <2>1, <2>2
<1>5. CASE PollFails \/ PollerDies
  BY <1>1, <1>2, <1>5 DEF PollFails, PollerDies, Commit
<1>6. ASSUME NEW i \in Issues, TaskNext(i) PROVE DetectedIssueHasTask'
  <2>1. StartTask(i) => i \in rows
    BY <1>1 DEF StartTask, PollerInv, ScheduledIsFirst
  <2> QED
    BY <1>2, <1>6, <2>1 DEF TaskNext, StartTask, EndTask
<1>7. ASSUME NEW new \in SUBSET Issues, NEW as \in {"demo_injected", "manual_refresh"},
             Insert(new, as), UNCHANGED task
      PROVE  DetectedIssueHasTask'
  BY <1>1, <1>2, <1>7 DEF Insert
<1>8. ASSUME NEW q \in Injects, StoreInjected(q) PROVE DetectedIssueHasTask'
  <2>1. {inject[q]} \in SUBSET Issues
    BY <1>8 DEF StoreInjected, PollerInv, TypeOK
  <2> QED
    BY <1>3, <1>7, <1>8, <2>1 DEF StoreInjected
<1>9. ASSUME NEW q \in Refreshes, StoreRefreshed(q) PROVE DetectedIssueHasTask'
  <2>1. {i \in open : RepoOf[i] = refresh[q] /\ i \notin rows} \in SUBSET Issues
    BY DEF PollerInv, TypeOK
  <2> QED
    BY <1>7, <1>9, <2>1 DEF StoreRefreshed
<1>10. RouteNext => DetectedIssueHasTask'
  BY <1>3, <1>8, <1>9 DEF RouteNext, TriggerNow, LoseInjected, CreateIssue, FailRefresh, AskRefresh
<1>11. Wake \/ UNCHANGED vars => DetectedIssueHasTask'
  BY <1>3 DEF Wake, vars
<1>12. ASSUME NEW i \in Issues, OpenIssue(i) \/ CloseIssue(i) PROVE DetectedIssueHasTask'
  BY <1>3, <1>12 DEF OpenIssue, CloseIssue
<1>13. ~Restart
  BY DEF Restart
<1> QED
  BY <1>4, <1>5, <1>6, <1>10, <1>11, <1>12, <1>13 DEF Next, PollNext

\* With one sandbox repo nothing the routes insert waits for the poller, for any
\* issues and requests and whatever fails or restarts.
THEOREM OneRepoNeverBlocks ==
  ASSUME Len(RepoOrder) = 1
  PROVE  Spec => []LoopNeverBlocked
<1>1. Init => LoopNeverBlocked
  BY DEF Init, LoopNeverBlocked
<1>2. PollerInv /\ LoopNeverBlocked /\ [Next]_vars => LoopNeverBlocked'
  BY LoopFreeStep
<1> QED
  BY <1>1, <1>2, PollerInvAlways, PTL DEF Spec

\* With one sandbox repo an issue the poller stored has its task as long as the
\* process lives, also if the database fails.
THEOREM OneRepoLosesNoTask ==
  ASSUME Len(RepoOrder) = 1, ~MayRestart
  PROVE  Spec => []DetectedIssueHasTask
<1>1. Init => DetectedIssueHasTask
  BY PollerAssumption DEF Init, DetectedIssueHasTask
<1>2. PollerInv /\ DetectedIssueHasTask /\ [Next]_vars => DetectedIssueHasTask'
  BY HasTaskStep
<1> QED
  BY <1>1, <1>2, PollerInvAlways, PTL DEF Spec

-----------------------------------------------------------------------------
\* The refinement of IssueIntake.

\* A commit of the poller shows what it had flushed and what it found last.
LEMMA CommitImports ==
  ASSUME PollerInv, NEW found \in SUBSET Issues, found \cap (rows \cup unsaved) = {},
         Commit(found), UNCHANGED autoRuns,
         origin' = [i \in Issues |-> IF i \in found THEN "poller_detected" ELSE origin[i]],
         \A i \in unsaved : origin[i] = "poller_detected"
  PROVE  Intake!Next
<1> DEFINE new == unsaved \cup found
<1>1. /\ new \in SUBSET Issues /\ new \cap rows = {} /\ rows' = rows \cup new
      /\ rows \subseteq Issues
  BY DEF Commit, PollerInv, TypeOK, OneInsertPerIssue
<1>2. \A i \in Issues : /\ i \in new => origin'[i] = "poller_detected"
                        /\ i \notin new => origin'[i] = origin[i]
  OBVIOUS
<1> HIDE DEF new
<1>3. Intake!Import(new, "poller_detected")
  BY <1>1, <1>2 DEF Intake!Import, Stored
<1>4. "poller_detected" \in Intake!Ways
  BY DEF Intake!Ways
<1> QED
  BY <1>1, <1>3, <1>4 DEF Intake!Next

\* What a route inserts shows at once, or not at all.
LEMMA InsertImports ==
  ASSUME PollerInv, NEW new \in SUBSET Issues, new \cap rows = {},
         NEW as \in Intake!Ways, Insert(new, as), UNCHANGED autoRuns
  PROVE  Intake!Next \/ UNCHANGED <<Stored, autoRuns>>
<1>1. CASE new \cap unsaved # {}
  BY <1>1 DEF Insert, Stored
<1>2. CASE new \cap unsaved = {}
  <2>1. /\ rows' = rows \cup new /\ rows \subseteq Issues
        /\ origin' = [i \in Issues |-> IF i \in new THEN as ELSE origin[i]]
    BY <1>2 DEF Insert, PollerInv, TypeOK
  <2>2. Intake!Import(new, as)
    BY <2>1 DEF Intake!Import, Stored
  <2> QED
    BY <2>2 DEF Intake!Next
<1> QED
  BY <1>1, <1>2

\* What is flushed was found by the poll that is under way.
FlushedIsFound == \A i \in unsaved : origin[i] = "poller_detected"

LEMMA FlushedStep ==
  ASSUME PollerInv, FlushedIsFound, [Next]_vars
  PROVE  FlushedIsFound'
<1>1. unsaved \subseteq Issues /\ Unknown \subseteq Issues /\ origin \in [Issues -> Origins]
  BY DEF PollerInv, TypeOK, Unknown
<1>2. CASE Poll
  BY <1>1, <1>2 DEF Poll, Commit, FlushedIsFound
<1>3. CASE PollFails \/ PollerDies \/ Restart
  BY <1>3 DEF PollFails, PollerDies, Restart, Commit, FlushedIsFound
<1>4. ASSUME UNCHANGED <<unsaved, origin>> PROVE FlushedIsFound'
  BY <1>4 DEF FlushedIsFound
<1>5. ASSUME NEW new, NEW as, Insert(new, as), unsaved' = unsaved PROVE FlushedIsFound'
  BY <1>1, <1>5 DEF Insert, FlushedIsFound
<1>6. ASSUME NEW q \in Injects, StoreInjected(q) PROVE FlushedIsFound'
  BY <1>4, <1>5, <1>6 DEF StoreInjected
<1>7. ASSUME NEW q \in Refreshes, StoreRefreshed(q) PROVE FlushedIsFound'
  BY <1>5, <1>7 DEF StoreRefreshed
<1>8. RouteNext => FlushedIsFound'
  BY <1>4, <1>6, <1>7
     DEF RouteNext, TriggerNow, LoseInjected, CreateIssue, FailRefresh, AskRefresh
<1>9. Wake \/ UNCHANGED vars => FlushedIsFound'
  BY <1>4 DEF Wake, vars
<1>10. ASSUME NEW i \in Issues, TaskNext(i) \/ OpenIssue(i) \/ CloseIssue(i)
       PROVE  FlushedIsFound'
  BY <1>4, <1>10 DEF TaskNext, StartTask, EndTask, OpenIssue, CloseIssue
<1> QED
  BY <1>2, <1>3, <1>8, <1>9, <1>10 DEF Next, PollNext

LEMMA IntakeStep ==
  ASSUME PollerInv, FlushedIsFound, [Next]_vars
  PROVE  Intake!Next \/ UNCHANGED <<Stored, autoRuns>>
<1>1. TypeOK /\ rows \cap unsaved = {} /\ rows \subseteq Issues
  BY DEF PollerInv, TypeOK, OneInsertPerIssue
<1>2. ASSUME UNCHANGED <<rows, autoRuns>>,
             \A i \in rows : origin'[i] = origin[i]
      PROVE  UNCHANGED <<Stored, autoRuns>>
  BY <1>2 DEF Stored
<1>3. CASE Poll
  <2>1. /\ Unknown \in SUBSET Issues /\ Unknown \cap (rows \cup unsaved) = {}
        /\ UNCHANGED autoRuns
        /\ origin' = [i \in Issues |-> IF i \in Unknown THEN "poller_detected" ELSE origin[i]]
    BY <1>1, <1>3 DEF Poll, Unknown, TypeOK
  <2>2. CASE repoNo < Len(RepoOrder)
    BY <1>1, <1>2, <1>3, <2>1, <2>2 DEF Poll
  <2>3. CASE ~(repoNo < Len(RepoOrder))
    <3>1. Commit(Unknown)
      BY <1>3, <2>3 DEF Poll
    <3> QED
      BY <2>1, <3>1, CommitImports DEF FlushedIsFound
  <2> QED
    BY <2>2, <2>3
<1>4. CASE PollFails
  <2>1. /\ Commit({}) /\ UNCHANGED autoRuns
        /\ origin' = [i \in Issues |-> IF i \in {} THEN "poller_detected" ELSE origin[i]]
    BY <1>1, <1>4 DEF PollFails, TypeOK
  <2> QED
    BY <2>1, CommitImports DEF FlushedIsFound
<1>5. CASE PollerDies \/ Restart
  <2>1. UNCHANGED <<rows, autoRuns>> /\ \A i \in rows : origin'[i] = origin[i]
    BY <1>1, <1>5 DEF PollerDies, Restart
  <2> QED
    BY <1>2, <2>1
<1>6. ASSUME NEW i \in Issues, TaskNext(i) PROVE Intake!Next \/ UNCHANGED <<Stored, autoRuns>>
  <2>1. CASE StartTask(i) /\ i \in rows
    <3>1. /\ autoRuns[i] = 0 /\ origin[i] = "poller_detected"
          /\ autoRuns' = [autoRuns EXCEPT ![i] = 1] /\ UNCHANGED <<rows, origin>>
      BY <2>1 DEF StartTask, PollerInv, ScheduledIsFirst
    <3>2. Intake!Remediate(i)
      BY <2>1, <3>1 DEF Intake!Remediate, Stored
    <3> QED
      BY <3>2 DEF Intake!Next
  <2>2. CASE ~(StartTask(i) /\ i \in rows)
    BY <1>2, <1>6, <2>2 DEF TaskNext, StartTask, EndTask
  <2> QED
    BY <2>1, <2>2
<1>7. ASSUME NEW q \in Injects, StoreInjected(q)
      PROVE  Intake!Next \/ UNCHANGED <<Stored, autoRuns>>
  <2>1. CASE inject[q] \in rows
    BY <1>2, <1>7, <2>1 DEF StoreInjected
  <2>2. CASE inject[q] \notin rows
    <3>1. /\ Insert({inject[q]}, "demo_injected") /\ UNCHANGED autoRuns
          /\ {inject[q]} \in SUBSET Issues /\ {inject[q]} \cap rows = {}
      BY <1>1, <1>7, <2>2 DEF StoreInjected, TypeOK
    <3>2. "demo_injected" \in Intake!Ways
      BY DEF Intake!Ways
    <3> QED
      BY <3>1, <3>2, InsertImports
  <2> QED
    BY <2>1, <2>2
<1>8. ASSUME NEW q \in Refreshes, StoreRefreshed(q)
      PROVE  Intake!Next \/ UNCHANGED <<Stored, autoRuns>>
  <2> DEFINE new == {i \in open : RepoOf[i] = refresh[q] /\ i \notin rows}
  <2>1. /\ Insert(new, "manual_refresh") /\ UNCHANGED autoRuns
        /\ new \in SUBSET Issues /\ new \cap rows = {}
    BY <1>1, <1>8 DEF StoreRefreshed, TypeOK
  <2>2. "manual_refresh" \in Intake!Ways
    BY DEF Intake!Ways
  <2> QED
    BY <2>1, <2>2, InsertImports
<1>9. ASSUME RouteNext PROVE Intake!Next \/ UNCHANGED <<Stored, autoRuns>>
  <2>1. CASE TriggerNow
    BY <1>2, <2>1 DEF TriggerNow
  <2>2. ASSUME NEW q \in Injects, LoseInjected(q) \/ \E i \in Issues : CreateIssue(q, i)
        PROVE  UNCHANGED <<Stored, autoRuns>>
    BY <1>2, <2>2 DEF LoseInjected, CreateIssue
  <2>3. ASSUME NEW q \in Refreshes, FailRefresh(q) \/ \E r \in Repos : AskRefresh(q, r)
        PROVE  UNCHANGED <<Stored, autoRuns>>
    BY <1>2, <2>3 DEF FailRefresh, AskRefresh
  <2> QED
    BY <1>7, <1>8, <1>9, <2>1, <2>2, <2>3 DEF RouteNext
<1>10. CASE Wake \/ UNCHANGED vars
  BY <1>2, <1>10 DEF Wake, vars
<1>11. ASSUME NEW i \in Issues, OpenIssue(i) \/ CloseIssue(i)
       PROVE  UNCHANGED <<Stored, autoRuns>>
  BY <1>2, <1>11 DEF OpenIssue, CloseIssue
<1> QED
  BY <1>3, <1>4, <1>5, <1>6, <1>9, <1>10, <1>11 DEF Next, PollNext

\* The poller and the routes implement IssueIntake: an issue comes in one way for
\* good, and the platform runs on it unasked once at most.
THEOREM IntakeImplemented == Spec => ImplementsIntake
<1>1. Init => Intake!Init /\ FlushedIsFound
  BY PollerAssumption DEF Init, Intake!Init, Stored, FlushedIsFound
<1>2. PollerInv /\ FlushedIsFound /\ [Next]_vars => FlushedIsFound'
  BY FlushedStep
<1>3. PollerInv /\ FlushedIsFound /\ [Next]_vars => [Intake!Next]_<<Stored, autoRuns>>
  BY IntakeStep
<1> QED
  BY <1>1, <1>2, <1>3, PollerInvAlways, PTL DEF Spec, ImplementsIntake, Intake!Spec,
     Intake!intakeVars

=============================================================================
