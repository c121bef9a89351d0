----------------------------- MODULE SessionPool -----------------------------
(***************************************************************************)
(* The connections to the database (db/session.py) and those who share     *)
(* them.  Every coroutine that has a session keeps its connection over all *)
(* the calls it awaits, and each of these calls is recorded through        *)
(* another connection, taken by a thread (rate_limit_service.py).  Plain   *)
(* routes take one in a thread of the server.  They keep it when their     *)
(* function has returned, until the event loop has sent the response.      *)
(* A coroutine that has to wait for a connection waits on the event loop:  *)
(* nothing else goes on there until it gets one or the pool gives up.      *)
(*                                                                         *)
(* Statements are short against the timeout of the pool, calls to GitHub   *)
(* and Gemini are not: the pool gives up on a waiter only while no         *)
(* connection is with a thread that uses it, nor with a plain route that   *)
(* can go on.  What statements wait for one another is in Poller and       *)
(* RepoRegistry.                                                           *)
(***************************************************************************)
EXTENDS Naturals, Sequences, FiniteSets

CONSTANTS
    Runs,           \* start_remediation_run, of the routes triage and inject-bug and of the
                    \* poller's task
    Injections,     \* the ones among them that inject_demo_bug first makes the issue of
    Lookups,        \* get_issue_context
    Approvals,      \* approve_remediation_run
    Connects,       \* connect_repo
    Refreshes,      \* refresh_issues
    Polls,          \* run_poll_cycle
    Readers,        \* plain routes
    AdHoc,          \* the ones among them that have no session of the framework: triage_issue,
                    \* verify_patch, read_root and rate_limit_status
    Together,       \* sets of jobs that come together in one behaviour
    Size,           \* pool_size + max_overflow
    ServerThreads,  \* threads of the server, for plain routes and pipelines
    Bodies,         \* issue bodies, by what their candidates lead to: paths to a "hit" or
                    \* a "miss", function names to a "hit", an "empty" file or "none"
    Calls,          \* Calls[j]: the GitHub calls of a job but for those of a search for context
    GeminiCalls,    \* records a pipeline makes at most, the first look at the limit included
    Nothing         \* nobody

Savers  == Approvals \cup Connects \cup Refreshes
Seekers == Runs \cup Lookups
Jobs    == Seekers \cup Savers \cup Polls
Callers == Injections \cup Lookups \cup Savers \cup Polls
Threads == Jobs \cup Readers

ASSUME PoolAssumption ==
    /\ IsFiniteSet(Jobs) /\ IsFiniteSet(Readers)
    /\ Injections \subseteq Runs
    /\ Runs \cap Lookups = {} /\ Savers \cap Seekers = {} /\ Polls \cap (Seekers \cup Savers) = {}
    /\ Readers \cap Jobs = {} /\ AdHoc \subseteq Readers
    /\ Size \in Nat \ {0} /\ ServerThreads \in Nat \ {0} /\ GeminiCalls \in Nat \ {0}
    /\ Bodies # {}
    /\ \A b \in Bodies : b \in [paths : Seq({"hit", "miss"}), names : Seq({"hit", "empty", "none"})]
    /\ Calls \in [Callers -> Nat \ {0}]
    /\ Nothing \notin Jobs

VARIABLES
    body,       \* body[j]: the body of the issue of a run or of a look-up
    work,       \* work[j]: where a job is
    place,      \* place[j]: the kind of call it makes there
    nth,        \* nth[j]: the number of the candidate or of the call
    held,       \* jobs whose session has a connection
    thread,     \* thread[x]: the thread that records a call of x, or x as a plain route
    loop,       \* the job the event loop waits with, for a connection
    context,    \* context[j]: the candidate whose file j took, as <<tier, n>>
    troubled,   \* troubled[j]: j was turned down, or a call failed or could not be recorded
    stored      \* stored[j]: the outcome of j is committed

progress == <<body, place, nth, context, troubled>>
vars == <<work, progress, held, thread, loop, stored>>

Ended   == {"idle", "done", "failed"}
Keeping == {"github", "queued", "gemini", "save", "store", "answering"}
NoFile  == <<"none", 0>>

Live    == {j \in Jobs : work[j] \notin Ended}
Visits  == {x \in Readers : thread[x] # "none"}

Holding  == {x \in Threads : thread[x] = "holding"}
Returned == {x \in Readers : thread[x] = "returned"}
Free     == Size - Cardinality(held) - Cardinality(Holding) - Cardinality(Returned)

\* The threads of the server.  Recordings have a pool of threads of their own.
InThread   == {x \in Readers : thread[x] \in {"wanting", "holding", "calling"}}
                \cup {j \in Runs : work[j] = "gemini"}
ThreadFree == Cardinality(InThread) < ServerThreads

\* A plain route that has returned goes on.
CanReturn == Returned # {} /\ loop = Nothing /\ ThreadFree

\* Nothing but a timeout or the end of a call frees a connection.
Exhausted == Free = 0 /\ Holding = {} /\ ~CanReturn

-----------------------------------------------------------------------------
\* resolve_source_context.

\* The search is over: the pipeline is to be started, or the context is the answer.
Sought(j) == IF j \in Lookups THEN <<"answering", "call", 1>> ELSE <<"queued", "gemini", 1>>

\* The first candidate from tier t, number n on.
Seek(j, t, n) ==
    CASE t = "path" /\ n <= Len(body[j].paths) -> <<"github", "path", n>>
      [] t = "path" /\ n > Len(body[j].paths) /\ body[j].names # <<>> -> <<"github", "search", 1>>
      [] t = "search" /\ n <= Len(body[j].names) -> <<"github", "search", n>>
      [] OTHER -> Sought(j)

\* A job that has its connection starts a run now.
StartsRun(j) == (j \in Runs \ Injections) \/ work[j] = "created"

\* Where a job goes when it has its connection.
First(j) == IF StartsRun(j) THEN Seek(j, "path", 1) ELSE <<"github", "call", 1>>

\* After the last call that is not part of a search.
AfterCalls(j) ==
    CASE j \in Lookups    -> Seek(j, "path", 1)
      [] j \in Injections -> <<"save", "call", nth[j]>>
      [] OTHER            -> <<"store", "call", nth[j]>>

\* After a recorded answer of GitHub.
AfterAnswer(j) ==
    CASE place[j] = "call" /\ nth[j] < Calls[j] -> <<"github", "call", nth[j] + 1>>
      [] place[j] = "call" /\ nth[j] >= Calls[j] -> AfterCalls(j)
      [] place[j] = "path" /\ body[j].paths[nth[j]] = "miss" -> Seek(j, "path", nth[j] + 1)
      [] place[j] = "search" /\ body[j].names[nth[j]] = "none" -> Seek(j, "search", nth[j] + 1)
      [] place[j] = "search" /\ body[j].names[nth[j]] # "none" -> <<"github", "file", nth[j]>>
      [] place[j] = "file" /\ body[j].names[nth[j]] # "hit" -> Seek(j, "search", nth[j] + 1)
      [] OTHER -> Sought(j)

\* The answer is a file with content.
IsHit(j) ==
    \/ place[j] = "path" /\ body[j].paths[nth[j]] = "hit"
    \/ place[j] = "file" /\ body[j].names[nth[j]] = "hit"

Goto(j, to) ==
    /\ work' = [work EXCEPT ![j] = to[1]]
    /\ place' = [place EXCEPT ![j] = to[2]]
    /\ nth' = [nth EXCEPT ![j] = to[3]]

-----------------------------------------------------------------------------
\* The sessions of the jobs.

\* The first statement of a request or a task asks for a connection.
Open(j) ==
    /\ loop = Nothing
    /\ work[j] = "idle"
    /\ \E c \in Together : {k \in Jobs : work[k] # "idle"} \cup {j} \subseteq c
    /\ work' = [work EXCEPT ![j] = "opening"]
    /\ loop' = j
    /\ IF j \in Seekers THEN \E b \in Bodies : body' = [body EXCEPT ![j] = b] ELSE UNCHANGED body
    /\ UNCHANGED <<place, nth, context, troubled, held, thread, stored>>

\* The event loop gets its connection and goes on.
LoopGets ==
    /\ loop # Nothing
    /\ Free > 0
    /\ held' = held \cup {loop}
    /\ IF work[loop] = "reopening"
         THEN work' = [work EXCEPT ![loop] = "answering"] /\ UNCHANGED <<place, nth>>
         ELSE Goto(loop, First(loop))
    /\ loop' = Nothing
    /\ UNCHANGED <<body, thread, context, troubled, stored>>

\* A run the daily cap refuses is committed at once; the route then reads it.
RefuseRun ==
    /\ loop # Nothing
    /\ work[loop] \in {"opening", "created"} /\ StartsRun(loop)
    /\ Free > 0
    /\ work' = [work EXCEPT ![loop] = "reopening"]
    /\ stored' = [stored EXCEPT ![loop] = TRUE]
    /\ troubled' = [troubled EXCEPT ![loop] = TRUE]
    /\ UNCHANGED <<body, place, nth, held, thread, loop, context>>

\* A row that is not there, a repository that is known already, a status or a
\* cap in the way: the answer needs no call.
AnswerAtOnce ==
    /\ loop # Nothing
    /\ work[loop] = "opening" /\ loop \notin Polls
    /\ Free > 0
    /\ held' = held \cup {loop}
    /\ work' = [work EXCEPT ![loop] = "answering"]
    /\ troubled' = [troubled EXCEPT ![loop] = TRUE]
    /\ loop' = Nothing
    /\ UNCHANGED <<body, place, nth, thread, context, stored>>

\* The pool gives up: the request is answered with an error, the task dies.
LoopTimesOut ==
    /\ loop # Nothing
    /\ Exhausted
    /\ work' = [work EXCEPT ![loop] = "failed"]
    /\ loop' = Nothing
    /\ UNCHANGED <<progress, held, thread, stored>>

\* GitHub has answered, asyncio.to_thread starts the recording.
Record(j) ==
    /\ loop = Nothing
    /\ work[j] = "github"
    /\ thread[j] = "none"
    /\ thread' = [thread EXCEPT ![j] = "wanting"]
    /\ UNCHANGED <<work, progress, held, loop, stored>>

\* The recording is done and the coroutine goes on with the answer.
Answer(j) ==
    /\ loop = Nothing
    /\ work[j] = "github"
    /\ thread[j] = "recorded"
    /\ Goto(j, AfterAnswer(j))
    /\ context' = [context EXCEPT ![j] = IF IsHit(j) THEN <<place[j], nth[j]>> ELSE @]
    /\ thread' = [thread EXCEPT ![j] = "none"]
    /\ UNCHANGED <<body, held, loop, troubled, stored>>

\* A search GitHub refuses is one without results.
SearchRefused(j) ==
    /\ loop = Nothing
    /\ work[j] = "github" /\ place[j] = "search"
    /\ thread[j] = "recorded"
    /\ Goto(j, Seek(j, "search", nth[j] + 1))
    /\ troubled' = [troubled EXCEPT ![j] = TRUE]
    /\ thread' = [thread EXCEPT ![j] = "none"]
    /\ UNCHANGED <<body, held, loop, context, stored>>

\* No answer, an error status, or a recording that failed.
CallRaises(j) ==
    /\ loop = Nothing
    /\ work[j] = "github"
    /\ thread[j] \in {"none", "failed"} \/ (thread[j] = "recorded" /\ place[j] # "search")
    /\ thread' = [thread EXCEPT ![j] = "none"]
    /\ troubled' = [troubled EXCEPT ![j] = TRUE]

\* Slip: what cannot be recorded is logged, and the request goes on.
GithubFailsQuietly(j) ==
    /\ CallRaises(j)
    /\ Goto(j, AfterAnswer(j))
    /\ UNCHANGED <<body, held, loop, context, stored>>

\* Slip: the session of a failed request is not closed.
GithubFailsUnclosed(j) ==
    /\ CallRaises(j)
    /\ Goto(j, <<"failed", "call", nth[j]>>)
    /\ UNCHANGED <<body, held, loop, context, stored>>

\* A run goes on without context, a poll cycle ends and commits, any other
\* request ends with an error.
GithubFails(j) ==
    /\ CallRaises(j)
    /\ CASE j \in Runs /\ place[j] # "call" -> Goto(j, <<"queued", "gemini", 1>>)
         [] j \in Polls -> Goto(j, <<"store", "call", nth[j]>>)
         [] OTHER       -> Goto(j, <<"answering", "call", nth[j]>>)
    /\ UNCHANGED <<body, held, loop, context, stored>>

\* The commit of the injected issue gives the connection back; db.refresh asks
\* for another one.
Save(j) ==
    /\ loop = Nothing
    /\ work[j] = "save"
    /\ held' = held \ {j}
    /\ work' = [work EXCEPT ![j] = "created"]
    /\ loop' = j
    /\ UNCHANGED <<progress, thread, stored>>

\* run_in_threadpool has a thread for the pipeline.
StartPipeline(j) ==
    /\ loop = Nothing
    /\ work[j] = "queued"
    /\ ThreadFree
    /\ work' = [work EXCEPT ![j] = "gemini"]
    /\ UNCHANGED <<progress, held, thread, loop, stored>>

\* In this thread it looks at the limit or records an answer.
RecordGemini(j) ==
    /\ work[j] = "gemini"
    /\ thread[j] = "none"
    /\ thread' = [thread EXCEPT ![j] = "wanting"]
    /\ UNCHANGED <<work, progress, held, loop, stored>>

\* It calls Gemini again.
NextGemini(j) ==
    /\ work[j] = "gemini"
    /\ thread[j] = "recorded"
    /\ nth[j] < GeminiCalls
    /\ nth' = [nth EXCEPT ![j] = @ + 1]
    /\ thread' = [thread EXCEPT ![j] = "none"]
    /\ UNCHANGED <<body, work, place, held, loop, context, troubled, stored>>

\* The pipeline has ended, with a result or with an exception, and the
\* coroutine goes on.
EndPipeline(j) ==
    /\ loop = Nothing
    /\ work[j] = "gemini"
    /\ thread[j] \in {"recorded", "failed"}
    /\ work' = [work EXCEPT ![j] = "store"]
    /\ troubled' = [troubled EXCEPT ![j] = @ \/ thread[j] = "failed"]
    /\ thread' = [thread EXCEPT ![j] = "none"]
    /\ UNCHANGED <<body, place, nth, held, loop, context, stored>>

\* The commit gives the connection back.  The attributes of a run or of a
\* connected repository, which the alert and the response read, are expired, and
\* loading them takes another one.
Store(j) ==
    /\ loop = Nothing
    /\ work[j] = "store"
    /\ stored' = [stored EXCEPT ![j] = TRUE]
    /\ held' = held \ {j}
    /\ IF j \in Polls \cup Refreshes
         THEN work' = [work EXCEPT ![j] = "done"] /\ UNCHANGED loop
         ELSE work' = [work EXCEPT ![j] = "reopening"] /\ loop' = j
    /\ UNCHANGED <<progress, thread>>

\* The commit fails, for example because another request has stored the row.
CommitFails(j) ==
    /\ loop = Nothing
    /\ work[j] \in {"save", "store"}
    /\ work' = [work EXCEPT ![j] = "answering"]
    /\ troubled' = [troubled EXCEPT ![j] = TRUE]
    /\ UNCHANGED <<body, place, nth, held, thread, loop, context, stored>>

\* The response is sent, or the task ends, and the session is closed.
Close(j) ==
    /\ loop = Nothing
    /\ work[j] = "answering"
    /\ work' = [work EXCEPT ![j] = "done"]
    /\ held' = held \ {j}
    /\ UNCHANGED <<progress, thread, loop, stored>>

-----------------------------------------------------------------------------
\* The threads.

\* A plain route is called.  verify_patch wants no connection.
Read(x) ==
    /\ x \in Readers
    /\ loop = Nothing
    /\ thread[x] = "none"
    /\ ThreadFree
    /\ \E u \in IF x \in AdHoc THEN {"wanting", "calling"} ELSE {"wanting"} :
          thread' = [thread EXCEPT ![x] = u]
    /\ UNCHANGED <<work, progress, held, loop, stored>>

Take(x) ==
    /\ thread[x] = "wanting"
    /\ Free > 0
    /\ thread' = [thread EXCEPT ![x] = "holding"]
    /\ UNCHANGED <<work, progress, held, loop, stored>>

\* What a thread that has done with its connection does next.
AfterUse(x) == CASE x \in AdHoc            -> "calling"
                 [] x \in Readers \ AdHoc -> "returned"
                 [] OTHER                  -> "recorded"

\* A recording closes its session, a plain route leaves it to the framework.
Release(x) ==
    /\ thread[x] = "holding"
    /\ thread' = [thread EXCEPT ![x] = AfterUse(x)]
    /\ UNCHANGED <<work, progress, held, loop, stored>>

\* The pipeline of triage_issue has another answer of Gemini to record.
Again(x) ==
    /\ x \in AdHoc
    /\ thread[x] = "calling"
    /\ thread' = [thread EXCEPT ![x] = "wanting"]
    /\ UNCHANGED <<work, progress, held, loop, stored>>

\* It ends, or the sandbox does.
Leave(x) ==
    /\ x \in AdHoc
    /\ thread[x] = "calling"
    /\ thread' = [thread EXCEPT ![x] = "none"]
    /\ UNCHANGED <<work, progress, held, loop, stored>>

\* The rows are read into the response, in a thread again, and the session is
\* closed.
Send(x) ==
    /\ x \in Readers
    /\ thread[x] = "returned"
    /\ CanReturn
    /\ thread' = [thread EXCEPT ![x] = "none"]
    /\ UNCHANGED <<work, progress, held, loop, stored>>

\* Slip: a recording waits without a timeout.
ReaderTimesOut(x) ==
    /\ thread[x] = "wanting"
    /\ x \in Readers
    /\ Exhausted
    /\ thread' = [thread EXCEPT ![x] = "none"]
    /\ UNCHANGED <<work, progress, held, loop, stored>>

\* The pool gives up on the thread.
TimeOut(x) ==
    /\ thread[x] = "wanting"
    /\ Exhausted
    /\ thread' = [thread EXCEPT ![x] = IF x \in Readers THEN "none" ELSE "failed"]
    /\ UNCHANGED <<work, progress, held, loop, stored>>

-----------------------------------------------------------------------------
Init ==
    /\ body \in [Seekers -> {CHOOSE b \in Bodies : TRUE}]
    /\ work = [j \in Jobs |-> "idle"]
    /\ place = [j \in Jobs |-> "call"]
    /\ nth = [j \in Jobs |-> 1]
    /\ held = {}
    /\ thread = [x \in Threads |-> "none"]
    /\ loop = Nothing
    /\ context = [j \in Jobs |-> NoFile]
    /\ troubled = [j \in Jobs |-> FALSE]
    /\ stored = [j \in Jobs |-> FALSE]

LoopNext == LoopGets \/ RefuseRun \/ AnswerAtOnce \/ LoopTimesOut
CallNext(j) == Record(j) \/ Answer(j) \/ SearchRefused(j) \/ GithubFails(j)
PipelineNext(j) == StartPipeline(j) \/ RecordGemini(j) \/ NextGemini(j) \/ EndPipeline(j)
EndNext(j) == Save(j) \/ Store(j) \/ CommitFails(j) \/ Close(j)
JobNext(j) == CallNext(j) \/ PipelineNext(j) \/ EndNext(j)
ThreadNext(x) == Take(x) \/ Release(x) \/ Again(x) \/ Leave(x) \/ Send(x) \/ TimeOut(x)

Next ==
    \/ LoopNext
    \/ \E j \in Jobs : Open(j) \/ JobNext(j)
    \/ \E x \in Threads : Read(x) \/ ThreadNext(x)

Spec == Init /\ [][Next]_vars

\* The loop takes ready coroutines in turn, the pool and the threads of the
\* server are given to whoever has waited longest, and a call to GitHub or Gemini
\* ends, as does a pipeline of triage_issue, which makes finitely many.  As each job comes once, it is enough that of those that can go on some
\* job does: that plain routes, which come again and again, cannot keep all jobs
\* from the connections and the threads is strong fairness.
FairSpec ==
    /\ Spec
    /\ SF_vars(LoopNext)
    /\ SF_vars(\E j \in Runs : StartPipeline(j))
    /\ SF_vars(\E j \in Jobs : ThreadNext(j))
    /\ WF_vars(\E j \in Jobs : JobNext(j))
    /\ \A x \in Readers : WF_vars(ThreadNext(x))
    /\ \A x \in AdHoc : SF_vars(Leave(x))

-----------------------------------------------------------------------------
\* What is checked.

\* Type correctness of every variable.
TypeOK ==
    /\ body \in [Seekers -> Bodies]
    /\ work \in [Jobs -> Ended \cup Keeping \cup {"opening", "created", "reopening"}]
    /\ place \in [Jobs -> {"call", "path", "search", "file", "gemini"}]
    /\ nth \in [Jobs -> Nat]
    /\ held \subseteq Jobs
    /\ thread \in [Threads -> {"none", "wanting", "holding", "calling", "returned", "recorded",
                              "failed"}]
    /\ loop \in Jobs \cup {Nothing}
    /\ context \in [Jobs -> {"none", "path", "file"} \X Nat]
    /\ troubled \in [Jobs -> BOOLEAN]
    /\ stored \in [Jobs -> BOOLEAN]

\* No path through a job, however its calls and recordings fail, leaks a
\* connection or leaves a recording behind, and no more connections are out
\* than there are.
NoLeak ==
    /\ \A j \in Jobs :
        /\ j \in held <=> work[j] \in Keeping
        /\ thread[j] # "none" => work[j] \in {"github", "gemini"}
    /\ Cardinality(held) + Cardinality(Holding) + Cardinality(Returned) <= Size

\* A wait for a connection can be in vain only in a crowd.  Recordings alone
\* never use the pool up: it takes as many jobs and plain requests under way as
\* there are connections, and one more where the event loop waits or a plain
\* request does.  Unless the event loop waits, or the plain requests and the
\* runs are more than the server has threads, the jobs alone are that many.
ExhaustedMeansCrowded ==
    Exhausted =>
        /\ Cardinality(Live) + Cardinality(Visits) >= Size
        /\ loop # Nothing \/ (\E x \in Readers : thread[x] = "wanting") =>
              Cardinality(Live) + Cardinality(Visits) > Size
        /\ loop = Nothing /\ Cardinality(Visits) + Cardinality(Live \cap Runs) <= ServerThreads =>
              Cardinality(Live) >= Size

\* c is the first candidate with content, paths before names, or there is none.
IsFirstHit(b, c) ==
    LET missed(n)  == \A m \in 1 .. n : b.paths[m] = "miss"
        useless(n) == \A m \in 1 .. n : b.names[m] # "hit"
    IN  \/ c = NoFile /\ missed(Len(b.paths)) /\ useless(Len(b.names))
        \/ \E n \in 1 .. Len(b.paths) :
              c = <<"path", n>> /\ b.paths[n] = "hit" /\ missed(n - 1)
        \/ \E n \in 1 .. Len(b.names) :
              /\ c = <<"file", n>> /\ b.names[n] = "hit"
              /\ missed(Len(b.paths)) /\ useless(n - 1)

\* What GitHub or the pool failed to deliver never shows as success: an approval,
\* a connected repository or a refresh is committed only if each of its calls was
\* answered and recorded, and a run or a look-up that nothing happened to has the
\* context its issue leads to.
HonestOutcome ==
    /\ \A j \in Savers : stored[j] => ~troubled[j]
    /\ \A j \in Seekers :
          /\ ~troubled[j]
          /\ stored[j] \/ (j \in Lookups /\ work[j] \in {"answering", "done"})
          => IsFirstHit(body[j], context[j])

\* Every request, task and cycle ends, and with it each wait of the event loop,
\* also when the connections or the threads have run out: each comes once, and
\* none stays under way.
JobsEnd == []<>(Live = {})

=============================================================================
