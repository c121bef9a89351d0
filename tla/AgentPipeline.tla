--------------------------- MODULE AgentPipeline ---------------------------
(***************************************************************************)
(* The agent graph (agent_engine.py), the sandbox verdict it loops on, and *)
(* the one database row through which pipelines tell each other that       *)
(* Gemini is rate-limited (rate_limit_service.py).                         *)
(*                                                                         *)
(*    diagnose --> fix --> test_gen --> verify --> end                     *)
(*        \          ^------ retry --------/                               *)
(*         `--> end, for an inspected repo                                 *)
(*                                                                         *)
(* Pipelines run in threads of a pool, so the steps of different pipelines *)
(* interleave; the row is read and written by separate statements, and the *)
(* ORM's UPDATE names only the columns whose value differs from what was   *)
(* read.                                                                   *)
(***************************************************************************)
EXTENDS Naturals

CONSTANTS
    Pipelines,          \* calls of run_sre_pipeline
    DiagnosisOnly,      \* those called with stop_after_diagnosis
    MaxFixAttempts,     \* settings.AGENT_MAX_FIX_RETRIES
    MaxAttempts         \* LLM_RETRY_POLICY.max_attempts

ASSUME PipelineAssumption ==
    /\ DiagnosisOnly \subseteq Pipelines
    /\ MaxFixAttempts \in Nat
    /\ MaxAttempts \in Nat \ {0}

VARIABLES
    pc,         \* pc[p]: where pipeline p is
    node,       \* node[p]: the LLM node it is in
    tries,      \* tries[p]: calls made in this visit of the node
    answer,     \* answer[p]: what Gemini answered to the last call
    seen,       \* seen[p]: the row as read for the answer being recorded
    fixAttempt, \* fixAttempt[p]: PipelineState.fix_attempt, which also numbers the fix
    tested,     \* tested[p]: the number of the fix the current test was written for
    verdict,    \* verdict[p]: PipelineState.verification, and what was verified
    row         \* RateLimitState of provider "gemini"

pipeVars == <<pc, node, tries, answer, seen, fixAttempt, tested, verdict>>
vars     == <<pipeVars, row>>

-----------------------------------------------------------------------------

Places  == {"start", "call", "record", "store", "verify", "done", "failed"}
Nodes   == {"diagnose", "fix", "test_gen"}

\* A valid answer, one that fails the schema, a 429, any other error.
Answers == {"ok", "invalid", "limited", "error"}

\* limited_until: NULL, in the future, or in the past.
Rows == [exists : BOOLEAN, limited : BOOLEAN, until : {"null", "ahead", "over"}]
NoRow == [exists |-> FALSE, limited |-> FALSE, until |-> "null"]
ClearRow == [exists |-> TRUE, limited |-> FALSE, until |-> "null"]

\* No verification yet.
NoVerdict == [fix |-> 0, test |-> 0, passed |-> FALSE]

\* A limit without an end counts as a limit.
IsGeminiLimited == row.limited /\ row.until # "over"

-----------------------------------------------------------------------------
\* run_sre_pipeline and the nodes.

Enter(p, n) ==
    /\ pc' = [pc EXCEPT ![p] = "call"]
    /\ node' = [node EXCEPT ![p] = n]
    /\ tries' = [tries EXCEPT ![p] = 1]

End(p, how) ==
    /\ pc' = [pc EXCEPT ![p] = how]
    /\ UNCHANGED <<node, tries>>

\* The known-limited check is made once, before the graph is entered.
Start(p) ==
    /\ pc[p] = "start"
    /\ IF IsGeminiLimited THEN End(p, "failed") ELSE Enter(p, "diagnose")
    /\ UNCHANGED <<answer, seen, fixAttempt, tested, verdict, row>>

\* generate_content returns.  An error other than a 429 is neither recorded
\* nor retried.
Call(p) ==
    /\ pc[p] = "call"
    /\ \E a \in Answers :
          /\ answer' = [answer EXCEPT ![p] = a]
          /\ End(p, IF a = "error" THEN "failed" ELSE "record")
    /\ UNCHANGED <<seen, fixAttempt, tested, verdict, row>>

\* record_gemini_success or record_gemini_rate_limit reads the row ...
ReadRow(p) ==
    /\ pc[p] = "record"
    /\ seen' = [seen EXCEPT ![p] = row]
    /\ End(p, "store")
    /\ UNCHANGED <<answer, fixAttempt, tested, verdict, row>>

\* ... sets is_limited and limited_until on what it read, and the UPDATE
\* changes the columns that differ from it.  A new limited_until always does.
Stored(old, limited, until) ==
    [exists  |-> TRUE,
     limited |-> IF limited = old.limited THEN row.limited ELSE limited,
     until   |-> IF until = "null" /\ old.until = "null" THEN row.until ELSE until]

RecordAnswer(p) ==
    row' = IF answer[p] = "limited" THEN Stored(seen[p], TRUE, "ahead")
                                    ELSE Stored(seen[p], FALSE, "null")

\* A ValidationError and a 429 are retried in the same node.
RetryOrFail(p) ==
    /\ IF tries[p] < MaxAttempts
         THEN /\ pc' = [pc EXCEPT ![p] = "call"]
              /\ tries' = [tries EXCEPT ![p] = @ + 1]
              /\ node' = node
         ELSE End(p, "failed")
    /\ UNCHANGED <<fixAttempt, tested>>

\* Slip: stop_after_diagnosis is not looked at.
AfterDiagnoseNoStop(p) ==
    /\ Enter(p, "fix")
    /\ UNCHANGED <<fixAttempt, tested>>

AfterDiagnose(p) ==
    /\ IF p \in DiagnosisOnly THEN End(p, "done") ELSE Enter(p, "fix")
    /\ UNCHANGED <<fixAttempt, tested>>

\* Slip: a second fix is verified against the first one's test.
AfterFixOldTest(p) ==
    /\ fixAttempt' = [fixAttempt EXCEPT ![p] = @ + 1]
    /\ IF tested[p] > 0 THEN End(p, "verify") ELSE Enter(p, "test_gen")
    /\ UNCHANGED tested

\* Slip: fix_node does not return the new fix_attempt.
AfterFixNotCounted(p) ==
    /\ Enter(p, "test_gen")
    /\ UNCHANGED <<fixAttempt, tested>>

AfterFix(p) ==
    /\ fixAttempt' = [fixAttempt EXCEPT ![p] = @ + 1]
    /\ Enter(p, "test_gen")
    /\ UNCHANGED tested

AfterTestGen(p) ==
    /\ tested' = [tested EXCEPT ![p] = fixAttempt[p]]
    /\ End(p, "verify")
    /\ UNCHANGED fixAttempt

\* What the node returns, and the edge out of it.
AfterNode(p) ==
    \/ node[p] = "diagnose" /\ AfterDiagnose(p)
    \/ node[p] = "fix"      /\ AfterFix(p)
    \/ node[p] = "test_gen" /\ AfterTestGen(p)

\* The row is committed; then a valid answer ends the node.
StoreRow(p) ==
    /\ pc[p] = "store"
    /\ seen[p].exists \/ ~row.exists
    /\ RecordAnswer(p)
    /\ IF answer[p] = "ok" THEN AfterNode(p) ELSE RetryOrFail(p)
    /\ UNCHANGED <<answer, seen, verdict>>

\* Two pipelines insert the row: the second gets an IntegrityError, which no
\* policy retries.
StoreRowTwice(p) ==
    /\ pc[p] = "store"
    /\ ~seen[p].exists /\ row.exists
    /\ End(p, "failed")
    /\ UNCHANGED <<answer, seen, fixAttempt, tested, verdict, row>>

\* Slip: the comparison of _after_verify without the equality.
RetriesLeftStrict(p) == fixAttempt[p] < MaxFixAttempts

\* Slip: one more extra attempt than asked for.
RetriesLeftExtra(p) == fixAttempt[p] <= MaxFixAttempts + 1

\* fix_attempt counts the fixes made, max_fix_attempts the extra ones allowed.
RetriesLeft(p) == fixAttempt[p] <= MaxFixAttempts

\* The sandbox runs the generated test against the fix; a timeout or a crash
\* of pytest is a verdict too.
Verify(p) ==
    /\ pc[p] = "verify"
    /\ \E passed \in BOOLEAN :
          /\ verdict' = [verdict EXCEPT ![p] =
                [fix |-> fixAttempt[p], test |-> tested[p], passed |-> passed]]
          /\ IF ~passed /\ RetriesLeft(p) THEN Enter(p, "fix") ELSE End(p, "done")
    /\ UNCHANGED <<answer, seen, fixAttempt, tested, row>>

\* Writing the files fails before pytest is started: the verify node has no
\* retry policy.
VerifyRaises(p) ==
    /\ pc[p] = "verify"
    /\ End(p, "failed")
    /\ UNCHANGED <<answer, seen, fixAttempt, tested, verdict, row>>

\* limited_until passes.
WindowEnds ==
    /\ row.until = "ahead"
    /\ row' = [row EXCEPT !.until = "over"]
    /\ UNCHANGED pipeVars

-----------------------------------------------------------------------------

Init ==
    /\ pc = [p \in Pipelines |-> "start"]
    /\ node = [p \in Pipelines |-> "diagnose"]
    /\ tries = [p \in Pipelines |-> 0]
    /\ answer = [p \in Pipelines |-> "ok"]
    /\ seen = [p \in Pipelines |-> NoRow]
    /\ fixAttempt = [p \in Pipelines |-> 0]
    /\ tested = [p \in Pipelines |-> 0]
    /\ verdict = [p \in Pipelines |-> NoVerdict]
    /\ row \in {NoRow, ClearRow}

PipelineNext(p) ==
    \/ Start(p) \/ Call(p) \/ ReadRow(p) \/ StoreRow(p) \/ StoreRowTwice(p)
    \/ Verify(p) \/ VerifyRaises(p)

Next == WindowEnds \/ \E p \in Pipelines : PipelineNext(p)

\* A thread of the pool keeps running, and Gemini answers or errors.
Spec == Init /\ [][Next]_vars /\ \A p \in Pipelines : WF_vars(PipelineNext(p))

-----------------------------------------------------------------------------
\* What is checked.

\* Type correctness of every variable.
TypeOK ==
    /\ pc \in [Pipelines -> Places]
    /\ node \in [Pipelines -> Nodes]
    /\ tries \in [Pipelines -> 0..MaxAttempts]
    /\ answer \in [Pipelines -> Answers]
    /\ seen \in [Pipelines -> Rows]
    /\ fixAttempt \in [Pipelines -> 0..(MaxFixAttempts + 1)]
    /\ tested \in [Pipelines -> 0..(MaxFixAttempts + 1)]
    /\ verdict \in [Pipelines -> [fix : 0..(MaxFixAttempts + 1),
                                  test : 0..(MaxFixAttempts + 1), passed : BOOLEAN]]
    /\ row \in Rows

\* Slip: the status follows each verification, while the fix loop goes on.
OutcomeStatusEarly(p) ==
    CASE pc[p] = "failed"                             -> "failed"
      [] pc[p] = "done" /\ p \in DiagnosisOnly        -> "diagnosed"
      [] pc[p] # "failed" /\ verdict[p] # NoVerdict   ->
            IF verdict[p].passed THEN "awaiting_approval" ELSE "verify_failed"
      [] OTHER                                        -> "running"

\* The status start_remediation_run stores for a pipeline that has ended.
OutcomeStatus(p) ==
    CASE pc[p] = "failed"                                     -> "failed"
      [] pc[p] = "done" /\ p \in DiagnosisOnly                -> "diagnosed"
      [] pc[p] = "done" /\ p \notin DiagnosisOnly /\ verdict[p] = NoVerdict -> "failed"
      [] pc[p] = "done" /\ p \notin DiagnosisOnly /\ verdict[p] # NoVerdict ->
            IF verdict[p].passed THEN "awaiting_approval" ELSE "verify_failed"
      [] OTHER                                                -> "running"

\* A fix is put up for approval only if its very last version passed a test
\* written for that version, whatever the retries in between.
ApprovableIsVerified ==
    \A p \in Pipelines :
        OutcomeStatus(p) = "awaiting_approval" =>
            verdict[p] = [fix |-> fixAttempt[p], test |-> fixAttempt[p], passed |-> TRUE]

\* A pipeline for an inspected repo never gets a fix, and only such a pipeline
\* ends as diagnosed: the outcomes are those Remediation!Outcomes assumes.
InspectedOnlyDiagnosed ==
    \A p \in Pipelines :
        /\ p \in DiagnosisOnly => fixAttempt[p] = 0 /\ OutcomeStatus(p) \in
                                      {"running", "failed", "diagnosed"}
        /\ p \notin DiagnosisOnly /\ pc[p] = "done" => verdict[p] # NoVerdict

\* The pipeline gives up on a fix only after the first attempt and all
\* max_fix_attempts extra ones have failed verification.
GivesUpWhenSpent ==
    \A p \in Pipelines :
        OutcomeStatus(p) = "verify_failed" => fixAttempt[p] = MaxFixAttempts + 1

\* Every pipeline ends, whatever Gemini answers and the sandbox finds.
PipelineEnds == \A p \in Pipelines : <>(pc[p] \in {"done", "failed"})

\* backend/README.md: "a 429 marks Gemini as limited (with a default 30s window
\* if no Retry-After is given)".  A limit that outlives the pipelines that met
\* it has an end; without one every later run is refused at Start, and no
\* answer of Gemini is left to clear it.
LeftoverLimitHasWindow ==
    (\A p \in Pipelines : pc[p] \in {"done", "failed"}) =>
        ~(row.limited /\ row.until = "null")

\* Seen from the gate, a pipeline is the automatic part of a run: it concludes
\* once, with a status the gate allows for its repository, and nothing in the
\* retries and the fix loop before that shows.
Shown == [p \in Pipelines |-> IF OutcomeStatus(p) = "running" THEN "none" ELSE OutcomeStatus(p)]
Gate == INSTANCE ApprovalGate WITH
            Runs     <- Pipelines,
            Writable <- Pipelines \ DiagnosisOnly,
            status   <- Shown,
            pending  <- [p \in Pipelines |-> {}],
            written  <- {},
            prs      <- {}

ImplementsConclusion == Gate!Spec

=============================================================================
