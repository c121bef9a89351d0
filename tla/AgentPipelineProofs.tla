------------------------ MODULE AgentPipelineProofs ------------------------
(***************************************************************************)
(* What AgentPipeline guarantees for any number of pipelines, any retry    *)
(* policy and any number of extra fix attempts.                            *)
(***************************************************************************)
EXTENDS AgentPipeline, TLAPS

-----------------------------------------------------------------------------
\* What is known of a pipeline at each place of the graph.

InNode(p, n) == pc[p] \in {"call", "record", "store"} /\ node[p] = n

\* Nothing has been made or verified yet.
Untouched(p) == fixAttempt[p] = 0 /\ tested[p] = 0 /\ verdict[p] = NoVerdict

PlaceKnown(p) ==
    /\ pc[p] = "start" \/ InNode(p, "diagnose") => Untouched(p)
    /\ InNode(p, "fix") => fixAttempt[p] <= MaxFixAttempts
    /\ InNode(p, "test_gen") => fixAttempt[p] > 0
    /\ pc[p] = "verify" => fixAttempt[p] > 0 /\ tested[p] = fixAttempt[p]
    /\ pc[p] = "done" /\ p \notin DiagnosisOnly =>
          /\ fixAttempt[p] > 0
          /\ verdict[p].fix = fixAttempt[p] /\ verdict[p].test = fixAttempt[p]
          /\ verdict[p].passed \/ fixAttempt[p] = MaxFixAttempts + 1

\* A pipeline of an inspected repo never leaves the first node.
InspectedKnown(p) ==
    p \in DiagnosisOnly =>
        /\ fixAttempt[p] = 0
        /\ node[p] = "diagnose"
        /\ pc[p] # "verify"

Known(p) == PlaceKnown(p) /\ InspectedKnown(p)
PipelineInv == TypeOK /\ \A p \in Pipelines : Known(p)

LEMMA PipelineInit == Init => PipelineInv
<1> SUFFICES ASSUME Init PROVE PipelineInv
  OBVIOUS
<1> USE PipelineAssumption
<1>1. pc \in [Pipelines -> Places] /\ node \in [Pipelines -> Nodes]
  BY DEF Init, Places, Nodes
<1>2. tries \in [Pipelines -> 0..MaxAttempts] /\ answer \in [Pipelines -> Answers]
  BY DEF Init, Answers
<1>3. NoRow \in Rows /\ ClearRow \in Rows
  BY DEF NoRow, ClearRow, Rows
<1>4. seen \in [Pipelines -> Rows] /\ row \in Rows
  BY <1>3 DEF Init
<1>5. 0 \in 0..(MaxFixAttempts + 1)
  OBVIOUS
<1>6. /\ fixAttempt \in [Pipelines -> 0..(MaxFixAttempts + 1)]
      /\ tested \in [Pipelines -> 0..(MaxFixAttempts + 1)]
  BY <1>5 DEF Init
<1>7. NoVerdict \in [fix : 0..(MaxFixAttempts + 1), test : 0..(MaxFixAttempts + 1),
                     passed : BOOLEAN]
  BY <1>5 DEF NoVerdict
<1>8. verdict \in [Pipelines -> [fix : 0..(MaxFixAttempts + 1),
                                 test : 0..(MaxFixAttempts + 1), passed : BOOLEAN]]
  BY <1>7 DEF Init
<1>9. ASSUME NEW p \in Pipelines PROVE Known(p)
  BY DEF Init, Known, PlaceKnown, InspectedKnown, InNode, Untouched
<1> QED
  BY <1>1, <1>2, <1>4, <1>6, <1>8, <1>9 DEF PipelineInv, TypeOK

\* The row keeps its type whatever a pipeline read before it writes.
LEMMA StoredType ==
  ASSUME TypeOK, NEW old \in Rows, NEW limited \in BOOLEAN,
         NEW until \in {"null", "ahead", "over"}
  PROVE  Stored(old, limited, until) \in Rows
BY DEF Stored, TypeOK, Rows

LEMMA RecordAnswerType ==
  ASSUME TypeOK, NEW p \in Pipelines, RecordAnswer(p)
  PROVE  row' \in Rows
BY StoredType DEF RecordAnswer, TypeOK

\* A step of one pipeline leaves the state of every other one alone ...
LEMMA OthersUntouched ==
  ASSUME PipelineInv, NEW p \in Pipelines, PipelineNext(p),
         NEW q \in Pipelines, q # p
  PROVE  /\ pc'[q] = pc[q] /\ node'[q] = node[q]
         /\ fixAttempt'[q] = fixAttempt[q] /\ tested'[q] = tested[q]
         /\ verdict'[q] = verdict[q]
<1> USE DEF PipelineInv, TypeOK, Enter, End
<1>1. CASE Start(p)
  BY <1>1 DEF Start
<1>2. CASE Call(p)
  BY <1>2 DEF Call
<1>3. CASE ReadRow(p)
  BY <1>3 DEF ReadRow
<1>4. CASE StoreRow(p)
  BY <1>4 DEF StoreRow, AfterNode, AfterDiagnose, AfterFix, AfterTestGen, RetryOrFail
<1>5. CASE StoreRowTwice(p)
  BY <1>5 DEF StoreRowTwice
<1>6. CASE Verify(p)
  BY <1>6 DEF Verify
<1>7. CASE VerifyRaises(p)
  BY <1>7 DEF VerifyRaises
<1> QED
  BY <1>1, <1>2, <1>3, <1>4, <1>5, <1>6, <1>7 DEF PipelineNext

\* ... and with it what is known of that one.
LEMMA OthersKnown ==
  ASSUME PipelineInv, NEW p \in Pipelines, PipelineNext(p),
         NEW q \in Pipelines, q # p
  PROVE  Known(q)'
BY OthersUntouched DEF PipelineInv, Known, PlaceKnown, InspectedKnown, InNode, Untouched

\* The step of a pipeline keeps the types and what is known of the pipeline.
LEMMA MoverKnown ==
  ASSUME PipelineInv, NEW p \in Pipelines, PipelineNext(p)
  PROVE  TypeOK' /\ Known(p)'
<1> USE PipelineAssumption
<1> USE DEF PipelineInv, TypeOK, Enter, End, Known, PlaceKnown, InspectedKnown, InNode,
            Untouched, Places, Nodes
<1>0. 1 \in 0..MaxAttempts /\ "failed" \in Places /\ "call" \in Places /\ "diagnose" \in Nodes
  OBVIOUS
<1>1. CASE Start(p)
  <2>1. CASE IsGeminiLimited
    BY <1>1, <2>1 DEF Start
  <2>2. CASE ~IsGeminiLimited
    <3>1. /\ pc' = [pc EXCEPT ![p] = "call"]
          /\ node' = [node EXCEPT ![p] = "diagnose"]
          /\ tries' = [tries EXCEPT ![p] = 1]
          /\ pc[p] = "start"
          /\ UNCHANGED <<answer, seen, fixAttempt, tested, verdict, row>>
      BY <1>1, <2>2 DEF Start
    <3>2. TypeOK'
      BY <1>0, <3>1
    <3>3. Known(p)'
      BY <3>1
    <3> QED
      BY <3>2, <3>3
  <2> QED
    BY <2>1, <2>2
<1>2. CASE Call(p)
  BY <1>2 DEF Call, Answers
<1>3. CASE ReadRow(p)
  BY <1>3 DEF ReadRow
<1>4. CASE StoreRow(p)
  <2>1. row' \in Rows
    BY <1>4, RecordAnswerType DEF StoreRow
  <2>2. CASE answer[p] # "ok"
    <3>1. pc[p] = "store" /\ UNCHANGED <<answer, seen, verdict, fixAttempt, tested>>
      BY <1>4, <2>2 DEF StoreRow, RetryOrFail
    <3>2. CASE tries[p] < MaxAttempts
      <4>1. /\ pc' = [pc EXCEPT ![p] = "call"]
            /\ tries' = [tries EXCEPT ![p] = tries[p] + 1]
            /\ node' = node
        BY <1>4, <2>2, <3>2 DEF StoreRow, RetryOrFail
      <4>2. tries[p] + 1 \in 0..MaxAttempts
        BY <3>2
      <4>3. TypeOK'
        BY <1>0, <2>1, <3>1, <4>1, <4>2
      <4>4. Known(p)'
        BY <3>1, <4>1
      <4> QED
        BY <4>3, <4>4
    <3>3. CASE ~(tries[p] < MaxAttempts)
      BY <1>4, <2>1, <2>2, <3>3 DEF StoreRow, RetryOrFail
    <3> QED
      BY <3>2, <3>3
  <2>3. CASE answer[p] = "ok" /\ node[p] = "diagnose"
    <3>1. /\ pc[p] = "store"
          /\ UNCHANGED <<answer, seen, verdict, fixAttempt, tested>>
          /\ IF p \in DiagnosisOnly THEN End(p, "done") ELSE Enter(p, "fix")
      BY <1>4, <2>3 DEF StoreRow, AfterNode, AfterDiagnose
    <3>2. CASE p \in DiagnosisOnly
      BY <2>1, <2>3, <3>1, <3>2
    <3>3. CASE p \notin DiagnosisOnly
      <4>1. /\ pc' = [pc EXCEPT ![p] = "call"]
            /\ node' = [node EXCEPT ![p] = "fix"]
            /\ tries' = [tries EXCEPT ![p] = 1]
        BY <3>1, <3>3
      <4>2. TypeOK'
        BY <1>0, <2>1, <3>1, <4>1
      <4>3. Known(p)'
        BY <2>3, <3>1, <3>3, <4>1
      <4> QED
        BY <4>2, <4>3
    <3> QED
      BY <3>2, <3>3
  <2>4. CASE answer[p] = "ok" /\ node[p] = "fix"
    <3>1. /\ pc[p] = "store"
          /\ UNCHANGED <<answer, seen, verdict, tested>>
          /\ fixAttempt' = [fixAttempt EXCEPT ![p] = fixAttempt[p] + 1]
          /\ Enter(p, "test_gen")
      BY <1>4, <2>4 DEF StoreRow, AfterNode, AfterFix
    <3>2. /\ pc' = [pc EXCEPT ![p] = "call"]
          /\ node' = [node EXCEPT ![p] = "test_gen"]
          /\ tries' = [tries EXCEPT ![p] = 1]
      BY <3>1
    <3>3. /\ fixAttempt[p] \in 0..MaxFixAttempts
          /\ fixAttempt[p] + 1 \in 0..(MaxFixAttempts + 1)
          /\ p \notin DiagnosisOnly
      BY <2>4, <3>1
    <3>4. TypeOK'
      BY <1>0, <2>1, <3>1, <3>2, <3>3
    <3>5. Known(p)'
      BY <3>1, <3>2, <3>3
    <3> QED
      BY <3>4, <3>5
  <2>5. CASE answer[p] = "ok" /\ node[p] = "test_gen"
    <3>1. /\ pc[p] = "store"
          /\ pc' = [pc EXCEPT ![p] = "verify"]
          /\ tested' = [tested EXCEPT ![p] = fixAttempt[p]]
          /\ UNCHANGED <<node, tries, answer, seen, verdict, fixAttempt>>
      BY <1>4, <2>5 DEF StoreRow, AfterNode, AfterTestGen
    <3>2. "verify" \in Places /\ fixAttempt[p] > 0 /\ p \notin DiagnosisOnly
      BY <2>5, <3>1
    <3>3. TypeOK'
      BY <2>1, <3>1, <3>2
    <3>4. Known(p)'
      BY <3>1, <3>2
    <3> QED
      BY <3>3, <3>4
  <2> QED
    BY <2>2, <2>3, <2>4, <2>5
<1>5. CASE StoreRowTwice(p)
  BY <1>5 DEF StoreRowTwice
<1>6. CASE Verify(p)
  <2>1. PICK passed \in BOOLEAN :
          /\ verdict' = [verdict EXCEPT ![p] =
                [fix |-> fixAttempt[p], test |-> tested[p], passed |-> passed]]
          /\ IF ~passed /\ RetriesLeft(p) THEN Enter(p, "fix") ELSE End(p, "done")
    BY <1>6 DEF Verify
  <2>2. fixAttempt[p] > 0 /\ tested[p] = fixAttempt[p] /\ p \notin DiagnosisOnly
    BY <1>6 DEF Verify
  <2>3. UNCHANGED <<answer, seen, fixAttempt, tested, row>>
    BY <1>6 DEF Verify
  <2>4. /\ verdict'[p].fix = fixAttempt[p]
        /\ verdict'[p].test = fixAttempt[p]
        /\ verdict'[p].passed = passed
        /\ verdict' \in [Pipelines -> [fix : 0..(MaxFixAttempts + 1),
                                       test : 0..(MaxFixAttempts + 1), passed : BOOLEAN]]
    BY <2>1, <2>2
  <2>5. CASE ~passed /\ RetriesLeft(p)
    <3>1. /\ pc' = [pc EXCEPT ![p] = "call"]
          /\ node' = [node EXCEPT ![p] = "fix"]
          /\ tries' = [tries EXCEPT ![p] = 1]
      BY <2>1, <2>5
    <3>2. fixAttempt[p] <= MaxFixAttempts
      BY <2>5 DEF RetriesLeft
    <3>3. TypeOK'
      BY <1>0, <2>3, <2>4, <3>1
    <3>4. Known(p)'
      BY <2>2, <2>3, <3>1, <3>2
    <3> QED
      BY <3>3, <3>4
  <2>6. CASE ~(~passed /\ RetriesLeft(p))
    <3>1. pc' = [pc EXCEPT ![p] = "done"] /\ UNCHANGED <<node, tries>>
      BY <2>1, <2>6
    <3>2. passed \/ fixAttempt[p] = MaxFixAttempts + 1
      BY <2>6 DEF RetriesLeft
    <3>3. TypeOK'
      <4>1. "done" \in Places
        OBVIOUS
      <4> QED
        BY <2>3, <2>4, <3>1, <4>1
    <3>4. Known(p)'
      BY <2>2, <2>3, <2>4, <3>1, <3>2
    <3> QED
      BY <3>3, <3>4
  <2> QED
    BY <2>5, <2>6
<1>7. CASE VerifyRaises(p)
  BY <1>7 DEF VerifyRaises
<1> QED
  BY <1>1, <1>2, <1>3, <1>4, <1>5, <1>6, <1>7 DEF PipelineNext

LEMMA PipelineStep == PipelineInv /\ [Next]_vars => PipelineInv'
<1> SUFFICES ASSUME PipelineInv, [Next]_vars PROVE PipelineInv'
  OBVIOUS
<1>1. ASSUME NEW p \in Pipelines, PipelineNext(p) PROVE PipelineInv'
  BY <1>1, OthersKnown, MoverKnown DEF PipelineInv
<1>2. CASE WindowEnds
  BY <1>2 DEF WindowEnds, pipeVars, PipelineInv, TypeOK, Rows, Known, PlaceKnown,
              InspectedKnown, InNode, Untouched
<1>3. CASE UNCHANGED vars
  BY <1>3 DEF vars, pipeVars, PipelineInv, TypeOK, Known, PlaceKnown, InspectedKnown,
              InNode, Untouched
<1> QED
  BY <1>1, <1>2, <1>3 DEF Next

\* Whatever place a pipeline is at, it is there for a good reason.
THEOREM PipelineInvAlways == Spec => []PipelineInv
BY PipelineInit, PipelineStep, PTL DEF Spec

-----------------------------------------------------------------------------
\* The properties the runs check.

\* Every variable has its type.
THEOREM PipelineTypeCorrect == Spec => []TypeOK
<1>1. PipelineInv => TypeOK
  BY DEF PipelineInv
<1> QED
  BY <1>1, PipelineInvAlways, PTL

\* A fix awaits approval only if its last version passed the test written for it.
THEOREM ApprovableVerified == Spec => []ApprovableIsVerified
<1>1. PipelineInv => ApprovableIsVerified
  <2> SUFFICES ASSUME PipelineInv, NEW p \in Pipelines,
                      OutcomeStatus(p) = "awaiting_approval"
               PROVE  verdict[p] = [fix |-> fixAttempt[p], test |-> fixAttempt[p], passed |-> TRUE]
    BY DEF ApprovableIsVerified
  <2>1. pc[p] = "done" /\ p \notin DiagnosisOnly /\ verdict[p].passed
    BY DEF OutcomeStatus
  <2> QED
    BY <2>1 DEF PipelineInv, TypeOK, Known, PlaceKnown
<1> QED
  BY <1>1, PipelineInvAlways, PTL

\* An inspected repo never gets a fix; a sandbox pipeline never ends unverified.
THEOREM InspectedStopsEarly == Spec => []InspectedOnlyDiagnosed
<1>1. PipelineInv => InspectedOnlyDiagnosed
  <2> SUFFICES ASSUME PipelineInv, NEW p \in Pipelines
               PROVE  /\ p \in DiagnosisOnly => fixAttempt[p] = 0 /\ OutcomeStatus(p) \in
                                                    {"running", "failed", "diagnosed"}
                      /\ p \notin DiagnosisOnly /\ pc[p] = "done" => verdict[p] # NoVerdict
    BY DEF InspectedOnlyDiagnosed
  <2>1. p \in DiagnosisOnly => fixAttempt[p] = 0 /\ OutcomeStatus(p) \in
                                  {"running", "failed", "diagnosed"}
    BY DEF PipelineInv, Known, InspectedKnown, OutcomeStatus
  <2>2. p \notin DiagnosisOnly /\ pc[p] = "done" => verdict[p] # NoVerdict
    BY PipelineAssumption DEF PipelineInv, TypeOK, Known, PlaceKnown, NoVerdict
  <2> QED
    BY <2>1, <2>2
<1> QED
  BY <1>1, PipelineInvAlways, PTL

\* A fix is given up only when the first attempt and every extra one are spent.
THEOREM GivesUpExactly == Spec => []GivesUpWhenSpent
<1>1. PipelineInv => GivesUpWhenSpent
  <2> SUFFICES ASSUME PipelineInv, NEW p \in Pipelines, OutcomeStatus(p) = "verify_failed"
               PROVE  fixAttempt[p] = MaxFixAttempts + 1
    BY DEF GivesUpWhenSpent
  <2>1. pc[p] = "done" /\ p \notin DiagnosisOnly /\ ~verdict[p].passed
    BY DEF OutcomeStatus
  <2> QED
    BY <2>1 DEF PipelineInv, Known, PlaceKnown
<1> QED
  BY <1>1, PipelineInvAlways, PTL

-----------------------------------------------------------------------------
\* The row that says Gemini is limited.

\* No two pipelines are between reading the row and storing what they make of it.
RecordsApart ==
    \A p, q \in Pipelines : pc[p] = "store" /\ pc[q] = "store" => p = q

\* As long as that is so, a limit has an end, and what a pipeline has read is
\* what its UPDATE meets, but for a window that has passed in between.
RowKnown ==
    /\ row.limited => row.until # "null"
    /\ \A p \in Pipelines : pc[p] = "store" =>
          /\ seen[p].limited = row.limited
          /\ seen[p].until = "null" <=> row.until = "null"

LEMMA RowStep ==
  ASSUME TypeOK, RecordsApart, RowKnown, [Next]_vars
  PROVE  RowKnown'
<1>1. ASSUME NEW p \in Pipelines, PipelineNext(p) PROVE RowKnown'
  <2>1. ASSUME row' = row, seen' = seen,
               \A q \in Pipelines : pc'[q] = "store" => pc[q] = "store"
        PROVE  RowKnown'
    BY <2>1 DEF RowKnown
  <2>2. CASE Start(p) \/ Call(p) \/ StoreRowTwice(p) \/ Verify(p) \/ VerifyRaises(p)
    BY <2>1, <2>2 DEF Start, Call, StoreRowTwice, Verify, VerifyRaises, Enter, End, TypeOK
  <2>3. CASE ReadRow(p)
    BY <2>3 DEF ReadRow, End, RowKnown, TypeOK
  <2>4. CASE StoreRow(p)
    <3>1. pc[p] = "store" /\ seen' = seen /\ RecordAnswer(p)
      BY <2>4 DEF StoreRow
    <3>2. \A q \in Pipelines : pc'[q] # "store"
      <4>1. \A q \in Pipelines : q # p => pc'[q] = pc[q]
        BY <2>4 DEF StoreRow, AfterNode, AfterDiagnose, AfterFix, AfterTestGen, RetryOrFail,
                    Enter, End, TypeOK
      <4>2. pc'[p] # "store"
        BY <2>4 DEF StoreRow, AfterNode, AfterDiagnose, AfterFix, AfterTestGen, RetryOrFail,
                    Enter, End, TypeOK
      <4> QED
        BY <3>1, <4>1, <4>2 DEF RecordsApart
    <3>3. row'.limited => row'.until # "null"
      <4>1. seen[p].limited = row.limited /\ (seen[p].until = "null" <=> row.until = "null")
        BY <3>1 DEF RowKnown
      <4>2. CASE answer[p] = "limited"
        BY <3>1, <4>2 DEF RecordAnswer, Stored
      <4>3. CASE answer[p] # "limited"
        BY <3>1, <4>1, <4>3 DEF RecordAnswer, Stored
      <4> QED
        BY <4>2, <4>3
    <3> QED
      BY <3>2, <3>3 DEF RowKnown
  <2> QED
    BY <1>1, <2>2, <2>3, <2>4 DEF PipelineNext
<1>2. CASE WindowEnds
  BY <1>2 DEF WindowEnds, pipeVars, RowKnown, TypeOK, Rows
<1>3. CASE UNCHANGED vars
  BY <1>3 DEF vars, pipeVars, RowKnown
<1> QED
  BY <1>1, <1>2, <1>3 DEF Next

\* A limit that outlives the pipelines has an end, as the README says, unless two
\* pipelines record their answers at the same time.
THEOREM LimitHasWindow == Spec /\ []RecordsApart => []LeftoverLimitHasWindow
<1>1. Init => RowKnown
  BY DEF Init, RowKnown, NoRow, ClearRow
<1>2. TypeOK /\ RecordsApart /\ RowKnown /\ [Next]_vars => RowKnown'
  BY RowStep
<1>3. RowKnown => LeftoverLimitHasWindow
  BY DEF RowKnown, LeftoverLimitHasWindow
<1> QED
  BY <1>1, <1>2, <1>3, PipelineTypeCorrect, PTL DEF Spec

-----------------------------------------------------------------------------
\* The pipelines as the automatic part of ApprovalGate.

\* A pipeline that has ended shows one of the results of its repository.
ResultsShown ==
    \A p \in Pipelines : OutcomeStatus(p) # "running" => OutcomeStatus(p) \in Gate!Results(p)

LEMMA EndsWithResult == PipelineInv => ResultsShown
<1> SUFFICES ASSUME PipelineInv, NEW p \in Pipelines, OutcomeStatus(p) # "running"
             PROVE  OutcomeStatus(p) \in Gate!Results(p)
  BY DEF ResultsShown
<1>1. Known(p)
  BY DEF PipelineInv
<1>2. pc[p] = "done" /\ p \notin DiagnosisOnly => verdict[p] # NoVerdict
  BY <1>1, PipelineAssumption DEF PipelineInv, TypeOK, Known, PlaceKnown, NoVerdict
<1> QED
  BY <1>2 DEF OutcomeStatus, Gate!Results

\* A step of a pipeline ends it, or nobody outside notices.
LEMMA ConcludeStep ==
  ASSUME PipelineInv, ResultsShown', NEW p \in Pipelines, PipelineNext(p)
  PROVE  (\E q \in Pipelines : Gate!Conclude(q)) \/ Shown' = Shown
<1>1. pc[p] \notin {"done", "failed"}
  BY DEF PipelineNext, Start, Call, ReadRow, StoreRow, StoreRowTwice, Verify, VerifyRaises
<1>2. Shown[p] = "none"
  BY <1>1 DEF Shown, OutcomeStatus
<1>3. ASSUME NEW q \in Pipelines, q # p PROVE Shown'[q] = Shown[q]
  <2>1. pc'[q] = pc[q] /\ verdict'[q] = verdict[q]
    BY <1>3, OthersUntouched
  <2> QED
    BY <2>1 DEF Shown, OutcomeStatus
<1>4. CASE OutcomeStatus(p)' = "running"
  <2>1. Shown'[p] = Shown[p]
    BY <1>2, <1>4 DEF Shown
  <2>2. \A q \in Pipelines : Shown'[q] = Shown[q]
    BY <1>3, <2>1
  <2> QED
    BY <2>2 DEF Shown
<1>5. CASE OutcomeStatus(p)' # "running"
  <2> DEFINE s == Shown'[p]
  <2>1. s \in Gate!Results(p)
    <3>1. OutcomeStatus(p)' \in Gate!Results(p)
      BY <1>5 DEF ResultsShown
    <3> QED
      BY <1>5, <3>1 DEF Shown
  <2>2. Shown' = [Shown EXCEPT ![p] = s]
    <3>1. \A q \in Pipelines : Shown'[q] = [Shown EXCEPT ![p] = s][q]
      BY <1>3 DEF Shown
    <3> HIDE DEF s
    <3> QED
      BY <3>1 DEF Shown
  <2> HIDE DEF s
  <2>3. Gate!Conclude(p)
    BY <1>2, <2>1, <2>2 DEF Gate!Conclude
  <2> QED
    BY <2>3
<1> QED
  BY <1>4, <1>5

\* However they retry and loop, pipelines conclude runs as the gate allows: once,
\* and for an inspected repository never with anything to approve.
THEOREM ConclusionImplemented == Spec => ImplementsConclusion
<1>1. Init => Gate!Init
  BY DEF Init, Gate!Init, Shown, OutcomeStatus
<1>2. PipelineInv /\ ResultsShown' /\ [Next]_vars => [Gate!Next]_Gate!gateVars
  <2> SUFFICES ASSUME PipelineInv, ResultsShown', [Next]_vars
               PROVE  Gate!Next \/ UNCHANGED Gate!gateVars
    OBVIOUS
  <2>1. ASSUME NEW p \in Pipelines, PipelineNext(p)
        PROVE  Gate!Next \/ UNCHANGED Gate!gateVars
    BY <2>1, ConcludeStep DEF Gate!Next, Gate!gateVars
  <2>2. CASE WindowEnds \/ UNCHANGED vars
    BY <2>2 DEF WindowEnds, vars, pipeVars, Shown, OutcomeStatus, Gate!gateVars
  <2> QED
    BY <2>1, <2>2 DEF Next
<1> QED
  BY <1>1, <1>2, EndsWithResult, PipelineInvAlways, PTL DEF Spec, ImplementsConclusion, Gate!Spec

=============================================================================
