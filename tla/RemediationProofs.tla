------------------------- MODULE RemediationProofs -------------------------
(***************************************************************************)
(* What Remediation guarantees for any number of issues, runs and          *)
(* concurrent requests: its type correctness and the safety of the         *)
(* approval gate.                                                          *)
(***************************************************************************)
EXTENDS Remediation, FiniteSetTheorems, TLAPS

-----------------------------------------------------------------------------
\* Type correctness.

LEMMA TypeInit == Init => TypeOK
<1> USE RemediationAssumption
<1> SUFFICES ASSUME Init PROVE TypeOK
  OBVIOUS
<1>1. OnBase \in [Files -> Contents]
  BY DEF OnBase, Files, Contents
<1> QED
  BY <1>1 DEF Init, TypeOK, Statuses, ApproveState, RejectState

\* A request in flight carries the run it was admitted for.
LEMMA InFlight ==
  ASSUME approval \in [Approvals -> ApproveState],
         NEW a \in Approvals, approval[a].pc # "idle"
  PROVE  approval[a] \in [pc : Calls, run : Runs, file : Files, sha : Shas]
BY DEF ApproveState, NotApproving

\* What a call that answers, or whose answer is lost, does to the requests.
LEMMA AnsweredEffect ==
  ASSUME approval \in [Approvals -> ApproveState],
         NEW a \in Approvals, approval[a].pc # "idle",
         NEW pc \in Calls, Answered(a, pc)
  PROVE  /\ approval' \in [Approvals -> ApproveState]
         /\ \A b \in Approvals : b # a => approval'[b] = approval[b]
         /\ \/ approval'[a].pc = "idle"
            \/ /\ approval'[a].pc = pc
               /\ approval'[a].run = approval[a].run
               /\ approval'[a].file = approval[a].file
<1>1. approval[a] \in [pc : Calls, run : Runs, file : Files, sha : Shas]
  BY InFlight
<1>2. NotApproving \in ApproveState /\ NotApproving.pc = "idle"
  BY DEF ApproveState, NotApproving
<1>3. CASE Goto(a, pc)
  <2> DEFINE q == [approval[a] EXCEPT !.pc = pc]
  <2>1. approval' = [approval EXCEPT ![a] = q]
    BY <1>3 DEF Goto
  <2>2. q \in [pc : Calls, run : Runs, file : Files, sha : Shas]
    BY <1>1
  <2>3. q \in ApproveState
    BY <2>2 DEF ApproveState
  <2>4. q.pc = pc /\ q.run = approval[a].run /\ q.file = approval[a].file
    BY <1>1
  <2> HIDE DEF q
  <2> QED
    BY <2>1, <2>3, <2>4
<1>4. CASE Leave(a)
  BY <1>2, <1>4 DEF Leave
<1> QED
  BY <1>3, <1>4 DEF Answered

LEMMA TypeStep == TypeOK /\ [Next]_vars => TypeOK'
<1> USE RemediationAssumption
<1> SUFFICES ASSUME TypeOK, [Next]_vars PROVE TypeOK'
  OBVIOUS
<1> USE DEF TypeOK, dbVars, requestVars, githubVars
<1>1. ASSUME NEW r \in Runs, StartNext(r) PROVE TypeOK'
  <2>1. CASE RefuseRun(r)
    BY <2>1 DEF RefuseRun, StoreRun, Statuses
  <2>2. CASE BeginRun(r)
    BY <2>2 DEF BeginRun
  <2>3. CASE FinishRun(r)
    <3>1. Outcomes(r) \subseteq Statuses
      BY DEF Outcomes, Statuses
    <3> QED
      BY <2>3, <3>1 DEF FinishRun, StoreRun
  <2>4. CASE DropRun(r)
    BY <2>4 DEF DropRun
  <2> QED
    BY <1>1, <2>1, <2>2, <2>3, <2>4 DEF StartNext
<1>2. ASSUME NEW a \in Approvals, ApproveNext(a) PROVE TypeOK'
  <2>1. CASE \E r \in Runs : Admit(a, r)
    BY <2>1 DEF Admit, ApproveState, Calls, Files, Shas
  <2> DEFINE q == approval[a]
  <2>2. ASSUME q.pc # "idle"
        PROVE  q \in [pc : Calls, run : Runs, file : Files, sha : Shas]
    BY <2>2 DEF ApproveState, NotApproving
  <2>3. NotApproving \in ApproveState
    BY DEF ApproveState
  <2>4. CASE ReadBase(a)
    BY <2>4, AnsweredEffect DEF ReadBase, Answered, Calls
  <2>5. CASE CreateBranch(a)
    <3>1. approval[a].pc # "idle" /\ Answered(a, "get") /\ "get" \in Calls
      BY <2>5 DEF CreateBranch, Answered, Calls
    <3>2. approval' \in [Approvals -> ApproveState]
      BY <3>1, AnsweredEffect
    <3> QED
      BY <2>2, <2>5, <3>2 DEF CreateBranch
  <2>6. CASE ReadFile(a)
    <3>1. q.run \in Runs /\ q.file \in Files /\ q.pc = "get"
      BY <2>2, <2>6 DEF ReadFile
    <3>2. Sha(content[q.run][q.file]) \in Shas
      BY <3>1 DEF Sha, Shas, Contents
    <3>3. PICK sha \in Shas : approval' = [approval EXCEPT ![a].pc = "put", ![a].sha = sha]
      BY <2>6, <3>2 DEF ReadFile, Shas
    <3>4. approval' \in [Approvals -> ApproveState]
      BY <2>2, <3>1, <3>3 DEF ApproveState, Calls
    <3> QED
      BY <2>6, <3>4 DEF ReadFile
  <2>7. CASE PutFile(a)
    <3>1. q.run \in Runs /\ q.file \in Files /\ q.pc = "put"
      BY <2>2, <2>7 DEF PutFile
    <3>2. AfterPut(q) \in ApproveState
      BY <2>2, <3>1 DEF AfterPut, ApproveState, Calls, Files, Shas
    <3>3. approval' \in [Approvals -> ApproveState]
      BY <2>3, <2>7, <3>2 DEF PutFile, Leave
    <3>4. content' \in [Runs -> [Files -> Contents]]
      BY <2>7, <3>1 DEF PutFile, Contents
    <3> QED
      BY <2>7, <3>3, <3>4 DEF PutFile
  <2>8. CASE CreatePr(a)
    <3>1. approval[a].pc # "idle" /\ Answered(a, "comment") /\ "comment" \in Calls
      BY <2>8 DEF CreatePr, Calls
    <3>2. approval' \in [Approvals -> ApproveState]
      BY <3>1, AnsweredEffect
    <3> QED
      BY <2>2, <2>8, <3>2 DEF CreatePr
  <2>9. CASE Comment(a)
    <3>1. approval[a].pc # "idle" /\ Answered(a, "close") /\ "close" \in Calls
      BY <2>9 DEF Comment, Calls
    <3>2. approval' \in [Approvals -> ApproveState]
      BY <3>1, AnsweredEffect
    <3> QED
      BY <2>2, <2>9, <3>2 DEF Comment
  <2>10. CASE CloseIssue(a)
    <3>1. approval[a].pc # "idle" /\ Answered(a, "record") /\ "record" \in Calls
      BY <2>10 DEF CloseIssue, Calls
    <3>2. approval' \in [Approvals -> ApproveState]
      BY <3>1, AnsweredEffect
    <3> QED
      BY <2>2, <2>10, <3>2 DEF CloseIssue
  <2>11. CASE Record(a)
    BY <2>2, <2>3, <2>11 DEF Record, Leave, Statuses
  <2>12. CASE FailApproval(a)
    BY <2>3, <2>12 DEF FailApproval, Leave
  <2> QED
    BY <1>2, <2>1, <2>4, <2>5, <2>6, <2>7, <2>8, <2>9, <2>10, <2>11, <2>12 DEF ApproveNext
<1>3. ASSUME NEW j \in Rejections, RejectNext(j) PROVE TypeOK'
  <2>1. CASE \E r \in Runs : ReadForReject(j, r)
    BY <2>1 DEF ReadForReject, RejectState
  <2>2. CASE StoreReject(j)
    <3>1. rejection[j] \in [pc : {"read"}, run : Runs]
      BY <2>2 DEF StoreReject, RejectState, NotRejecting
    <3> QED
      BY <2>2, <3>1 DEF StoreReject, RejectState, Statuses
  <2>3. CASE FailReject(j)
    BY <2>3 DEF FailReject, RejectState
  <2> QED
    BY <1>3, <2>1, <2>2, <2>3 DEF RejectNext
<1>4. CASE Restart
  BY <1>4 DEF Restart, ApproveState, RejectState
<1>5. CASE UNCHANGED vars
  BY <1>5 DEF vars
<1> QED
  BY <1>1, <1>2, <1>3, <1>4, <1>5 DEF Next

\* The rows, the requests and GitHub always have their types.
THEOREM TypeCorrect == Spec => []TypeOK
BY TypeInit, TypeStep, PTL DEF Spec

-----------------------------------------------------------------------------
\* The approval gate.  Requests interleave freely; what makes them safe is that
\* no step takes back what another request relies on (Grows), so only the
\* request that moves has to be looked at.

Safe ==
    /\ TypeOK
    /\ RequestsBacked
    /\ WritesPassTheGate
    /\ PrCarriesPatch
    /\ ClosedIssueExplained
    /\ PublishedRunBacked
    /\ SingleFinisher

\* What one step keeps.
Grows ==
    /\ branches \subseteq branches'
    /\ prs \subseteq prs'
    /\ comments \subseteq comments'
    /\ closed \subseteq closed'
    /\ \A r \in Runs : \A f \in Files :
          content[r][f] = "patched" => content'[r][f] = "patched"
    /\ \A r \in Runs : PastGate(r) => PastGate(r)'

LEMMA SafeInit == Init => Safe
<1> SUFFICES ASSUME Init PROVE Safe
  OBVIOUS
<1>1. \A a \in Approvals : approval[a].pc = "idle"
  BY DEF Init, NotApproving
<1>2. \A j \in Rejections : rejection[j].pc = "idle"
  BY DEF Init, NotRejecting
<1>3. RequestsBacked
  BY <1>1, <1>2 DEF Init, RequestsBacked, RowsFresh, AwaitingIsSandboxed,
                    ApprovalsBacked, ApprovalBacked, RejectionsBacked
<1>4. SingleFinisher
  BY <1>1 DEF SingleFinisher, Finishing
<1>5. TypeOK
  BY TypeInit
<1> QED
  BY <1>3, <1>4, <1>5 DEF Init, Safe, WritesPassTheGate, PrCarriesPatch,
                          ClosedIssueExplained, PublishedRunBacked

\* The status of a run past the gate changes only to another one past it.
LEMMA StatusGrows ==
  ASSUME TypeOK, RequestsBacked, [Next]_vars, NEW r \in Runs, PastGate(r)
  PROVE  PastGate(r)'
<1> USE DEF TypeOK, RequestsBacked, PastGate, Sandboxed
<1>1. ASSUME NEW s \in Runs, StartNext(s) PROVE PastGate(r)'
  <2>1. worker[r] = "ended"
    BY DEF RowsFresh
  <2>2. CASE RefuseRun(s)
    BY <2>1, <2>2 DEF RefuseRun, StoreRun
  <2>3. CASE BeginRun(s)
    BY <2>3 DEF BeginRun, dbVars
  <2>4. CASE FinishRun(s)
    BY <2>1, <2>4 DEF FinishRun, StoreRun
  <2>5. CASE DropRun(s)
    BY <2>5 DEF DropRun, dbVars
  <2> QED
    BY <1>1, <2>2, <2>3, <2>4, <2>5 DEF StartNext
<1>2. ASSUME NEW a \in Approvals, ApproveNext(a) PROVE PastGate(r)'
  <2>1. CASE Record(a)
    BY <2>1 DEF Record
  <2>2. CASE ~Record(a)
    BY <1>2, <2>2 DEF ApproveNext, Admit, ReadBase, CreateBranch, ReadFile, PutFile,
                      CreatePr, Comment, CloseIssue, FailApproval, dbVars
  <2> QED
    BY <2>1, <2>2
<1>3. ASSUME NEW j \in Rejections, RejectNext(j) PROVE PastGate(r)'
  BY <1>3 DEF RejectNext, ReadForReject, StoreReject, FailReject, dbVars
<1>4. CASE Restart
  BY <1>4 DEF Restart, dbVars
<1>5. CASE UNCHANGED vars
  BY <1>5 DEF vars, dbVars
<1> QED
  BY <1>1, <1>2, <1>3, <1>4, <1>5 DEF Next

LEMMA StepGrows ==
  ASSUME TypeOK, RequestsBacked, [Next]_vars
  PROVE  Grows
<1>1. \A r \in Runs : PastGate(r) => PastGate(r)'
  BY StatusGrows
<1>2. SUFFICES /\ branches \subseteq branches'
               /\ prs \subseteq prs'
               /\ comments \subseteq comments'
               /\ closed \subseteq closed'
               /\ \A r \in Runs : \A f \in Files :
                     content[r][f] = "patched" => content'[r][f] = "patched"
  BY <1>1 DEF Grows
<1>3. CASE UNCHANGED githubVars
  BY <1>3 DEF githubVars
<1>5. ASSUME NEW a \in Approvals, PutFile(a)
      PROVE  \A r \in Runs : \A f \in Files :
                content[r][f] = "patched" => content'[r][f] = "patched"
  BY <1>5 DEF PutFile, TypeOK
<1>6. ASSUME NEW a \in Approvals,
             CreateBranch(a) \/ PutFile(a) \/ CreatePr(a) \/ Comment(a) \/ CloseIssue(a)
      PROVE  /\ branches \subseteq branches'
             /\ prs \subseteq prs'
             /\ comments \subseteq comments'
             /\ closed \subseteq closed'
             /\ \A r \in Runs : \A f \in Files :
                   content[r][f] = "patched" => content'[r][f] = "patched"
  <2>1. CASE CreateBranch(a)
    BY <2>1 DEF CreateBranch
  <2>2. CASE PutFile(a)
    BY <2>2, <1>5 DEF PutFile
  <2>3. CASE CreatePr(a)
    BY <2>3 DEF CreatePr
  <2>4. CASE Comment(a)
    BY <2>4 DEF Comment
  <2>5. CASE CloseIssue(a)
    BY <2>5 DEF CloseIssue
  <2> QED
    BY <1>6, <2>1, <2>2, <2>3, <2>4, <2>5
<1>7. \/ UNCHANGED githubVars
      \/ \E a \in Approvals :
            CreateBranch(a) \/ PutFile(a) \/ CreatePr(a) \/ Comment(a) \/ CloseIssue(a)
  BY DEF Next, vars, StartNext, RefuseRun, BeginRun, FinishRun, DropRun,
         ApproveNext, Admit, ReadBase, ReadFile, Record, FailApproval,
         RejectNext, ReadForReject, StoreReject, FailReject, Restart
<1> QED
  BY <1>3, <1>6, <1>7

\* A request the step leaves alone keeps what it relies on.
LEMMA OthersBacked ==
  ASSUME TypeOK, Grows, NEW b \in Approvals, ApprovalBacked(b), approval'[b] = approval[b]
  PROVE  ApprovalBacked(b)'
<1> SUFFICES ASSUME approval[b].pc # "idle" PROVE ApprovalBacked(b)'
  BY DEF ApprovalBacked
<1>1. approval[b].run \in Runs
  BY InFlight DEF TypeOK
<1> QED
  BY <1>1 DEF ApprovalBacked, Grows, FixCommitted, TestCommitted, Finishing, Files

LEMMA RejectionsKept ==
  ASSUME TypeOK, Grows, RejectionsBacked, rejection' = rejection
  PROVE  RejectionsBacked'
<1> SUFFICES ASSUME NEW j \in Rejections, rejection[j].pc # "idle"
             PROVE  PastGate(rejection[j].run)'
  BY DEF RejectionsBacked
<1>1. rejection[j].run \in Runs
  BY DEF TypeOK, RejectState, NotRejecting
<1> QED
  BY <1>1 DEF RejectionsBacked, Grows

\* The moving request: the call it made has brought it to pc, or it has left.
LEMMA ApprovalsKept ==
  ASSUME TypeOK, Grows, ApprovalsBacked, NEW a \in Approvals,
         \A b \in Approvals : b # a => approval'[b] = approval[b],
         ApprovalBacked(a)'
  PROVE  ApprovalsBacked'
BY OthersBacked DEF ApprovalsBacked

LEMMA StartSafe ==
  ASSUME Safe, TypeOK', Grows, NEW r \in Runs, StartNext(r)
  PROVE  Safe'
<1> USE DEF Safe, RequestsBacked
<1>1. /\ UNCHANGED <<requestVars, githubVars>>
      /\ worker[r] # "ended" /\ status[r] = "none"
      /\ \A s \in Runs \ {r} : status'[s] = status[s] /\ worker'[s] = worker[s]
  BY DEF StartNext, RefuseRun, BeginRun, FinishRun, DropRun, StoreRun, RowsFresh,
         TypeOK, dbVars
<1>2. /\ status'[r] = "none" \/ worker'[r] = "ended"
      /\ status'[r] \in {"none"} \cup {"failed"} \cup Outcomes(r)
  BY <1>1 DEF StartNext, RefuseRun, BeginRun, FinishRun, DropRun, StoreRun, TypeOK, dbVars
<1>3. RowsFresh'
  BY <1>1, <1>2 DEF RowsFresh
<1>4. AwaitingIsSandboxed'
  BY <1>1, <1>2 DEF AwaitingIsSandboxed, Outcomes, Sandboxed
<1>5. ApprovalsBacked'
  BY <1>1, OthersBacked DEF ApprovalsBacked, requestVars
<1>6. RejectionsBacked'
  BY <1>1, RejectionsKept DEF requestVars
<1>7. WritesPassTheGate'
  BY <1>1 DEF WritesPassTheGate, Grows, PastGate, githubVars, TypeOK
<1>8. PrCarriesPatch' /\ ClosedIssueExplained' /\ SingleFinisher'
  BY <1>1 DEF PrCarriesPatch, ClosedIssueExplained, SingleFinisher, Finishing,
              requestVars, githubVars
<1>9. PublishedRunBacked'
  BY <1>1, <1>2 DEF PublishedRunBacked, Outcomes, githubVars
<1> QED
  BY <1>3, <1>4, <1>5, <1>6, <1>7, <1>8, <1>9

\* What a step of an approve request does to the requests, whatever the step.
LEMMA ApproveMoves ==
  ASSUME TypeOK, NEW a \in Approvals, ApproveNext(a)
  PROVE  /\ UNCHANGED <<worker, rejection>>
         /\ \A b \in Approvals : b # a => approval'[b] = approval[b]
<1>1. CASE \E r \in Runs : Admit(a, r)
  BY <1>1 DEF Admit, TypeOK, ApproveState
<1>2. ASSUME NEW pc \in Calls, Answered(a, pc)
      PROVE  \A b \in Approvals : b # a => approval'[b] = approval[b]
  BY <1>2 DEF Answered, Goto, Leave, TypeOK
<1>3. CASE ReadBase(a) \/ CreateBranch(a) \/ CreatePr(a) \/ Comment(a) \/ CloseIssue(a)
  BY <1>2, <1>3 DEF ReadBase, CreateBranch, CreatePr, Comment, CloseIssue, Answered, Calls
<1>4. CASE ReadFile(a)
  BY <1>4 DEF ReadFile, TypeOK
<1>5. CASE PutFile(a)
  BY <1>5 DEF PutFile, Leave, TypeOK
<1>6. CASE Record(a) \/ FailApproval(a)
  BY <1>6 DEF Record, FailApproval, Leave, TypeOK
<1> QED
  BY <1>1, <1>3, <1>4, <1>5, <1>6
     DEF ApproveNext, Admit, ReadBase, CreateBranch, ReadFile, PutFile, CreatePr,
         Comment, CloseIssue, Record, FailApproval

\* After its step the request relies on nothing that is not there.
LEMMA MoverBacked ==
  ASSUME Safe, Grows, NEW a \in Approvals, ApproveNext(a)
  PROVE  ApprovalBacked(a)'
<1>1. TypeOK /\ approval \in [Approvals -> ApproveState]
  BY DEF Safe, TypeOK
<1>2. ApprovalBacked(a)
  BY DEF Safe, RequestsBacked, ApprovalsBacked
<1>3. approval[a].pc # "idle" =>
        approval[a] \in [pc : Calls, run : Runs, file : Files, sha : Shas]
  BY <1>1, InFlight
<1>4. CASE Leave(a)
  BY <1>1, <1>4 DEF Leave, NotApproving, ApprovalBacked
<1>5. ASSUME NEW r \in Runs, Admit(a, r) PROVE ApprovalBacked(a)'
  <2>1. approval'[a] = [pc |-> "base", run |-> r, file |-> "fix", sha |-> "nosha"]
    BY <1>1, <1>5 DEF Admit
  <2>2. PastGate(r)
    BY <1>5 DEF Admit, PastGate, Safe, RequestsBacked, AwaitingIsSandboxed
  <2>3. PastGate(r)'
    BY <2>2 DEF Grows
  <2> QED
    BY <2>1, <2>3 DEF ApprovalBacked, FixCommitted, TestCommitted, Finishing
<1>6. ASSUME approval[a].pc # "idle", ~Leave(a),
             \A r \in Runs : ~Admit(a, r)
      PROVE  ApprovalBacked(a)'
  <2>1. PICK r \in Runs : approval[a].run = r
    BY <1>3, <1>6
  <2>2. PastGate(r)'
    BY <1>2, <1>6, <2>1 DEF ApprovalBacked, Grows
  <2>3. ASSUME NEW pc, Goto(a, pc)
        PROVE  approval'[a].pc = pc /\ approval'[a].run = r /\ approval'[a].file = approval[a].file
    <3>1. approval'[a] = [approval[a] EXCEPT !.pc = pc]
      BY <1>1, <2>3 DEF Goto
    <3> QED
      BY <1>3, <1>6, <2>1, <3>1
  <2> USE DEF ApprovalBacked, FixCommitted, TestCommitted, Finishing
  <2>4. CASE ReadBase(a)
    BY <1>2, <2>2, <2>3, <2>4 DEF ReadBase
  <2>5. CASE CreateBranch(a)
    BY <1>2, <1>6, <2>2, <2>3, <2>5 DEF CreateBranch, Answered
  <2>6. CASE ReadFile(a)
    <3>1. PICK sha : approval' = [approval EXCEPT ![a].pc = "put", ![a].sha = sha]
      BY <2>6 DEF ReadFile
    <3>2. approval'[a].pc = "put" /\ approval'[a].run = r /\ approval'[a].file = approval[a].file
      BY <1>1, <1>3, <1>6, <2>1, <3>1
    <3> QED
      BY <1>2, <2>1, <2>2, <2>6, <3>2 DEF ReadFile, Grows, Files
  <2>7. CASE PutFile(a)
    <3>1. approval[a].pc = "put" /\ r \in branches' /\ approval[a].file \in Files
      BY <1>3, <2>1, <2>7 DEF PutFile, Grows
    <3>2. approval'[a] = AfterPut(approval[a])
      BY <1>1, <1>6, <2>7 DEF PutFile
    <3>3. content'[r][approval[a].file] = "patched"
      BY <1>1, <2>1, <2>7, <3>1 DEF PutFile, TypeOK
    <3>4. CASE approval[a].file = "fix"
      <4>1. approval'[a].pc = "get" /\ approval'[a].run = r /\ approval'[a].file = "test"
        BY <1>3, <2>1, <3>1, <3>2, <3>4 DEF AfterPut
      <4> QED
        BY <2>2, <3>1, <3>3, <3>4, <4>1
    <3>5. CASE approval[a].file = "test"
      <4>1. approval'[a].pc = "pr" /\ approval'[a].run = r
        BY <1>3, <2>1, <3>1, <3>2, <3>5 DEF AfterPut
      <4>2. content'[r]["fix"] = "patched"
        BY <1>2, <2>1, <3>1, <3>5 DEF Grows, Files
      <4> QED
        BY <2>2, <3>1, <3>3, <3>5, <4>1, <4>2
    <3> QED
      BY <3>1, <3>4, <3>5 DEF Files
  <2>8. CASE CreatePr(a)
    BY <1>2, <1>6, <2>1, <2>2, <2>3, <2>8 DEF CreatePr, Answered, Grows, Files
  <2>9. CASE Comment(a)
    BY <1>2, <1>6, <2>1, <2>2, <2>3, <2>9 DEF Comment, Answered, Grows, Files
  <2>10. CASE CloseIssue(a)
    BY <1>2, <1>6, <2>1, <2>2, <2>3, <2>10 DEF CloseIssue, Answered, Grows, Files
  <2> QED
    BY <1>6, <2>4, <2>5, <2>6, <2>7, <2>8, <2>9, <2>10
       DEF ApproveNext, Record, FailApproval
<1>7. CASE approval[a].pc = "idle" /\ \A r \in Runs : ~Admit(a, r)
  BY <1>7 DEF ApproveNext, ReadBase, CreateBranch, ReadFile, PutFile, CreatePr,
              Comment, CloseIssue, Record, FailApproval
<1> QED
  BY <1>4, <1>5, <1>6, <1>7

\* The only way into the steps after the pull request is to open it.
LEMMA FinisherMoves ==
  ASSUME TypeOK, NEW a \in Approvals, ApproveNext(a), Finishing(a)'
  PROVE  /\ approval'[a].run = approval[a].run
         /\ Finishing(a) \/ CreatePr(a)
<1>1. approval \in [Approvals -> ApproveState]
  BY DEF TypeOK
<1>2. ~Leave(a) /\ \A r \in Runs : ~Admit(a, r)
  BY <1>1 DEF Leave, Admit, NotApproving, Finishing
<1>3. approval[a].pc # "idle"
  BY <1>2 DEF ApproveNext, ReadBase, CreateBranch, ReadFile, PutFile, CreatePr,
              Comment, CloseIssue, Record, FailApproval
<1>4. approval[a] \in [pc : Calls, run : Runs, file : Files, sha : Shas]
  BY <1>1, <1>3, InFlight
<1>5. ASSUME NEW pc \in Calls, Answered(a, pc)
      PROVE  approval'[a].pc = pc /\ approval'[a].run = approval[a].run
  BY <1>1, <1>3, <1>5, AnsweredEffect DEF Finishing
<1>6. ~ReadBase(a) /\ ~CreateBranch(a)
  BY <1>5 DEF ReadBase, CreateBranch, Answered, Calls, Finishing
<1>7. ~ReadFile(a)
  <2>1. SUFFICES ASSUME NEW sha, approval' = [approval EXCEPT ![a].pc = "put", ![a].sha = sha]
                 PROVE  FALSE
    BY DEF ReadFile
  <2>2. approval'[a].pc = "put"
    BY <1>1, <1>4, <2>1
  <2> QED
    BY <2>2 DEF Finishing
<1>8. ~PutFile(a)
  <2>1. SUFFICES ASSUME approval'[a] = AfterPut(approval[a]) PROVE FALSE
    BY <1>1, <1>2 DEF PutFile
  <2>2. approval'[a].pc \in {"get", "pr"}
    BY <1>4, <2>1 DEF AfterPut
  <2> QED
    BY <2>2 DEF Finishing
<1>9. CASE CreatePr(a) \/ Comment(a) \/ CloseIssue(a)
  BY <1>5, <1>9 DEF CreatePr, Comment, CloseIssue, Calls, Finishing
<1> QED
  BY <1>2, <1>6, <1>7, <1>8, <1>9 DEF ApproveNext, Record, FailApproval

LEMMA ApproveSafe ==
  ASSUME Safe, TypeOK', Grows, NEW a \in Approvals, ApproveNext(a)
  PROVE  Safe'
<1> USE DEF Safe, RequestsBacked
<1>1. /\ UNCHANGED <<worker, rejection>>
      /\ \A b \in Approvals : b # a => approval'[b] = approval[b]
  BY ApproveMoves
<1>2. approval[a].pc # "idle" => approval[a].run \in Runs
  BY InFlight DEF TypeOK
<1>3. approval[a].pc # "idle" => PastGate(approval[a].run)
  BY DEF ApprovalsBacked, ApprovalBacked
<1>4. RowsFresh' /\ AwaitingIsSandboxed'
  <2>1. CASE Record(a)
    BY <1>1, <1>2, <1>3, <2>1
       DEF Record, RowsFresh, AwaitingIsSandboxed, PastGate, Sandboxed, TypeOK
  <2>2. CASE ~Record(a)
    <3>1. status' = status
      BY <2>2 DEF ApproveNext, Admit, ReadBase, CreateBranch, ReadFile, PutFile,
                  CreatePr, Comment, CloseIssue, FailApproval, dbVars
    <3> QED
      BY <1>1, <3>1 DEF RowsFresh, AwaitingIsSandboxed, Sandboxed
  <2> QED
    BY <2>1, <2>2
<1>5. ApprovalsBacked'
  BY <1>1, MoverBacked, ApprovalsKept
<1>6. RejectionsBacked'
  BY <1>1, RejectionsKept
<1>7. WritesPassTheGate'
  <2>1. \A r \in branches' : PastGate(r)
    <3>1. CASE CreateBranch(a)
      BY <1>3, <3>1 DEF CreateBranch, WritesPassTheGate, PastGate
    <3>2. CASE ~CreateBranch(a)
      BY <3>2 DEF ApproveNext, Admit, ReadBase, ReadFile, PutFile, CreatePr, Comment,
                  CloseIssue, Record, FailApproval, githubVars, WritesPassTheGate, PastGate
    <3> QED
      BY <3>1, <3>2
  <2> QED
    BY <2>1 DEF Grows, TypeOK, WritesPassTheGate, PastGate, Sandboxed
<1>8. PrCarriesPatch'
  <2>1. CASE CreatePr(a)
    BY <1>2, <2>1 DEF CreatePr, PrCarriesPatch, ApprovalsBacked, ApprovalBacked,
                      FixCommitted, TestCommitted, Files
  <2>2. CASE ~CreatePr(a)
    <3>1. prs' = prs
      BY <2>2 DEF ApproveNext, Admit, ReadBase, CreateBranch, ReadFile, PutFile,
                  Comment, CloseIssue, Record, FailApproval, githubVars
    <3> QED
      BY <3>1 DEF PrCarriesPatch, Grows, TypeOK
  <2> QED
    BY <2>1, <2>2
<1>9. ClosedIssueExplained'
  <2>1. CASE CloseIssue(a)
    BY <1>2, <2>1 DEF CloseIssue, ClosedIssueExplained, ApprovalsBacked, ApprovalBacked,
                      Finishing
  <2>2. CASE ~CloseIssue(a)
    <3>1. closed' = closed
      BY <2>2 DEF ApproveNext, Admit, ReadBase, CreateBranch, ReadFile, PutFile,
                  CreatePr, Comment, Record, FailApproval, githubVars
    <3> QED
      BY <3>1 DEF ClosedIssueExplained, Grows
  <2> QED
    BY <2>1, <2>2
<1>10. PublishedRunBacked'
  <2>1. CASE Record(a)
    BY <1>2, <2>1 DEF Record, PublishedRunBacked, ApprovalsBacked, ApprovalBacked,
                      Finishing, githubVars, TypeOK
  <2>2. CASE ~Record(a)
    <3>1. status' = status
      BY <2>2 DEF ApproveNext, Admit, ReadBase, CreateBranch, ReadFile, PutFile,
                  CreatePr, Comment, CloseIssue, FailApproval, dbVars
    <3> QED
      BY <3>1 DEF PublishedRunBacked, Grows
  <2> QED
    BY <2>1, <2>2
<1>11. SingleFinisher'
  <2>1. SUFFICES ASSUME NEW b \in Approvals, b # a,
                        Finishing(a)', Finishing(b), approval'[a].run = approval[b].run
                 PROVE  FALSE
    BY <1>1 DEF SingleFinisher, Finishing
  <2>2. approval[a].run = approval[b].run /\ (Finishing(a) \/ CreatePr(a))
    BY <2>1, FinisherMoves
  <2>3. approval[b].run \in prs
    BY <2>1 DEF ApprovalsBacked, ApprovalBacked, Finishing
  <2> QED
    BY <2>1, <2>2, <2>3 DEF SingleFinisher, CreatePr
<1> QED
  BY <1>4, <1>5, <1>6, <1>7, <1>8, <1>9, <1>10, <1>11

LEMMA RejectSafe ==
  ASSUME Safe, TypeOK', Grows, NEW j \in Rejections, RejectNext(j)
  PROVE  Safe'
<1> USE DEF Safe, RequestsBacked
<1>1. UNCHANGED <<worker, approval, githubVars>>
  BY DEF RejectNext, ReadForReject, StoreReject, FailReject
<1>2. rejection[j].pc # "idle" => rejection[j].run \in Runs /\ PastGate(rejection[j].run)
  BY DEF TypeOK, RejectState, NotRejecting, RejectionsBacked
<1>3. status' = status \/ StoreReject(j)
  BY DEF RejectNext, ReadForReject, FailReject, dbVars
<1>4. \A r \in Runs : status'[r] = status[r] \/ (status'[r] = "rejected" /\ PastGate(r))
  BY <1>2, <1>3 DEF StoreReject, TypeOK
<1>5. RowsFresh' /\ AwaitingIsSandboxed' /\ PublishedRunBacked'
  BY <1>1, <1>4 DEF RowsFresh, AwaitingIsSandboxed, PublishedRunBacked, PastGate,
                    Sandboxed, githubVars
<1>6. ApprovalsBacked'
  BY <1>1, OthersBacked DEF ApprovalsBacked
<1>7. RejectionsBacked'
  <2> SUFFICES ASSUME NEW k \in Rejections, rejection'[k].pc # "idle"
               PROVE  PastGate(rejection[k].run)'
    BY DEF RejectionsBacked
  <2>1. PICK r \in Runs : rejection'[k].run = r
    BY DEF TypeOK, RejectState, NotRejecting
  <2>2. PastGate(r)
    <3>1. CASE rejection'[k] = rejection[k]
      BY <2>1, <3>1 DEF RejectionsBacked
    <3>2. CASE rejection'[k] # rejection[k]
      <4>1. PICK s \in Runs : ReadForReject(j, s)
        BY <3>2 DEF RejectNext, StoreReject, FailReject, NotRejecting, TypeOK
      <4>2. r = s
        BY <2>1, <3>2, <4>1 DEF ReadForReject, TypeOK
      <4> QED
        BY <4>1, <4>2 DEF ReadForReject, AwaitingIsSandboxed, PastGate
    <3> QED
      BY <3>1, <3>2
  <2> QED
    BY <2>1, <2>2 DEF Grows
<1>8. WritesPassTheGate'
  BY <1>1 DEF WritesPassTheGate, Grows, PastGate, githubVars, TypeOK
<1>9. PrCarriesPatch' /\ ClosedIssueExplained' /\ SingleFinisher'
  BY <1>1 DEF PrCarriesPatch, ClosedIssueExplained, SingleFinisher, Finishing, githubVars
<1> QED
  BY <1>5, <1>6, <1>7, <1>8, <1>9

LEMMA RestartSafe ==
  ASSUME Safe, TypeOK', Restart
  PROVE  Safe'
<1> USE DEF Safe, RequestsBacked
<1>1. UNCHANGED <<dbVars, githubVars>>
  BY DEF Restart
<1>2. /\ \A a \in Approvals : approval'[a].pc = "idle"
      /\ \A j \in Rejections : rejection'[j].pc = "idle"
  BY DEF Restart, NotApproving, NotRejecting
<1>3. RowsFresh' /\ AwaitingIsSandboxed'
  BY <1>1 DEF Restart, RowsFresh, AwaitingIsSandboxed, Sandboxed, dbVars, TypeOK
<1>4. ApprovalsBacked' /\ RejectionsBacked' /\ SingleFinisher'
  BY <1>2 DEF ApprovalsBacked, ApprovalBacked, RejectionsBacked, SingleFinisher, Finishing
<1>5. WritesPassTheGate' /\ PrCarriesPatch' /\ ClosedIssueExplained' /\ PublishedRunBacked'
  BY <1>1 DEF WritesPassTheGate, PrCarriesPatch, ClosedIssueExplained, PublishedRunBacked,
              Sandboxed, dbVars, githubVars
<1> QED
  BY <1>3, <1>4, <1>5

LEMMA SafeStep == Safe /\ [Next]_vars => Safe'
<1> SUFFICES ASSUME Safe, [Next]_vars PROVE Safe'
  OBVIOUS
<1>1. TypeOK' /\ Grows
  BY TypeStep, StepGrows DEF Safe
<1>2. CASE UNCHANGED vars
  BY <1>1, <1>2
     DEF vars, dbVars, requestVars, githubVars, Safe, RequestsBacked, RowsFresh,
         AwaitingIsSandboxed, ApprovalsBacked, ApprovalBacked, FixCommitted,
         TestCommitted, Finishing, RejectionsBacked, PastGate, Sandboxed,
         WritesPassTheGate, PrCarriesPatch, ClosedIssueExplained, PublishedRunBacked,
         SingleFinisher
<1> QED
  BY <1>1, <1>2, StartSafe, ApproveSafe, RejectSafe, RestartSafe DEF Next

\* All of it holds in every state of every behaviour.
THEOREM SafeAlways == Spec => []Safe
BY SafeInit, SafeStep, PTL DEF Spec

\* What a request in flight relies on still holds, however long ago it was admitted.
THEOREM RequestsStayBacked == Spec => []RequestsBacked
<1>1. Safe => RequestsBacked
  BY DEF Safe
<1> QED
  BY <1>1, SafeAlways, PTL

\* Only a sandbox run that reached awaiting_approval leaves a trace on GitHub.
THEOREM GateGuardsWrites == Spec => []WritesPassTheGate
<1>1. Safe => WritesPassTheGate
  BY DEF Safe
<1> QED
  BY <1>1, SafeAlways, PTL

\* An open pull request carries both files of the patch.
THEOREM PrComplete == Spec => []PrCarriesPatch
<1>1. Safe => PrCarriesPatch
  BY DEF Safe
<1> QED
  BY <1>1, SafeAlways, PTL

\* An issue closed by the platform has an announced pull request.
THEOREM NoSilentClose == Spec => []ClosedIssueExplained
<1>1. Safe => ClosedIssueExplained
  BY DEF Safe
<1> QED
  BY <1>1, SafeAlways, PTL

\* A row in pr_opened tells the truth about GitHub.
THEOREM PublishedIsTrue == Spec => []PublishedRunBacked
<1>1. Safe => PublishedRunBacked
  BY DEF Safe
<1> QED
  BY <1>1, SafeAlways, PTL

\* No two approvals of a run ever get past the pull request.
THEOREM FinishedOnce == Spec => []SingleFinisher
<1>1. Safe => SingleFinisher
  BY DEF Safe
<1> QED
  BY <1>1, SafeAlways, PTL

-----------------------------------------------------------------------------
\* The runs that are committed.

\* The runs that are with their pipeline.
Running == {r \in Runs : worker[r] = "running"}

\* Only storing a run commits a row; a decision is about a row that is there.
LEMMA CommittedMoves ==
  ASSUME Safe, [Next]_vars
  PROVE  \/ \E r \in Runs : StartNext(r)
         \/ /\ Committed' = Committed
            /\ UNCHANGED <<latest, refused>>
            /\ Running' \subseteq Running
<1>1. TypeOK /\ TypeOK'
  BY TypeStep DEF Safe
<1>2. ASSUME NEW a \in Approvals, ApproveNext(a)
      PROVE  Committed' = Committed /\ UNCHANGED <<latest, refused, worker>>
  <2>1. CASE Record(a)
    <3>1. approval[a].run \in Runs /\ status[approval[a].run] # "none"
      BY <1>1, <2>1, InFlight DEF Record, Safe, RequestsBacked, ApprovalsBacked,
                                  ApprovalBacked, PastGate, TypeOK
    <3> QED
      BY <1>1, <2>1, <3>1 DEF Record, Committed, TypeOK
  <2>2. CASE ~Record(a)
    BY <1>2, <2>2
       DEF ApproveNext, Admit, ReadBase, CreateBranch, ReadFile, PutFile, CreatePr,
           Comment, CloseIssue, FailApproval, dbVars, Committed
  <2> QED
    BY <2>1, <2>2
<1>3. ASSUME NEW j \in Rejections, RejectNext(j)
      PROVE  Committed' = Committed /\ UNCHANGED <<latest, refused, worker>>
  <2>1. CASE StoreReject(j)
    <3>1. rejection[j].run \in Runs /\ status[rejection[j].run] # "none"
      BY <1>1, <2>1 DEF StoreReject, Safe, RequestsBacked, RejectionsBacked, PastGate,
                        TypeOK, RejectState, NotRejecting
    <3> QED
      BY <1>1, <2>1, <3>1 DEF StoreReject, Committed, TypeOK
  <2>2. CASE ~StoreReject(j)
    BY <1>3, <2>2 DEF RejectNext, ReadForReject, FailReject, dbVars, Committed
  <2> QED
    BY <2>1, <2>2
<1>4. CASE Restart
  BY <1>4 DEF Restart, dbVars, Committed, Running
<1>5. CASE UNCHANGED vars
  BY <1>5 DEF vars, dbVars, Committed, Running
<1> QED
  BY <1>2, <1>3, <1>4, <1>5 DEF Next, Running

-----------------------------------------------------------------------------
\* The run an issue points at.

LEMMA LatestInit == Init => LatestRunVisible
BY DEF Init, LatestRunVisible, Committed

\* Storing a run is the only step that commits a row, and it moves the pointer
\* with it; every other change of a status is to a row already committed.
LEMMA LatestStep ==
  ASSUME Safe, LatestRunVisible, [Next]_vars
  PROVE  LatestRunVisible'
<1> USE RemediationAssumption
<1>1. TypeOK /\ TypeOK'
  BY TypeStep DEF Safe
<1>2. ASSUME NEW r \in Runs, NEW s \in Statuses \ {"none"}, StoreRun(r, s)
      PROVE  LatestRunVisible'
  <2>1. Committed' = Committed \cup {r}
    BY <1>1, <1>2 DEF StoreRun, Committed, TypeOK
  <2> SUFFICES ASSUME NEW i \in Issues
               PROVE  LET rows == {t \in Committed' : IssueOf[t] = i}
                      IN  IF rows = {} THEN latest'[i] = NoRun ELSE latest'[i] \in rows
    BY DEF LatestRunVisible
  <2>2. CASE i = IssueOf[r]
    BY <1>1, <1>2, <2>1, <2>2 DEF StoreRun, TypeOK
  <2>3. CASE i # IssueOf[r]
    <3>1. {t \in Committed' : IssueOf[t] = i} = {t \in Committed : IssueOf[t] = i}
      BY <2>1, <2>3
    <3>2. latest'[i] = latest[i]
      BY <1>1, <1>2, <2>3 DEF StoreRun, TypeOK
    <3> QED
      BY <3>1, <3>2 DEF LatestRunVisible
  <2> QED
    BY <2>2, <2>3
<1>3. ASSUME latest' = latest, Committed' = Committed PROVE LatestRunVisible'
  BY <1>3 DEF LatestRunVisible
<1>4. ASSUME NEW r \in Runs, StartNext(r) PROVE LatestRunVisible'
  <2>1. Outcomes(r) \subseteq Statuses \ {"none"} /\ "failed" \in Statuses \ {"none"}
    BY DEF Outcomes, Statuses
  <2>2. CASE RefuseRun(r)
    BY <1>2, <2>1, <2>2 DEF RefuseRun
  <2>3. CASE FinishRun(r)
    BY <1>2, <2>1, <2>3 DEF FinishRun
  <2>4. CASE BeginRun(r) \/ DropRun(r)
    BY <1>3, <2>4 DEF BeginRun, DropRun, dbVars, Committed
  <2> QED
    BY <1>4, <2>2, <2>3, <2>4 DEF StartNext
<1> QED
  BY <1>3, <1>4, CommittedMoves

\* An issue with committed runs points at one of them, one without at none.
THEOREM LatestRunAlwaysVisible == Spec => []LatestRunVisible
<1>1. Safe /\ LatestRunVisible /\ [Next]_vars => LatestRunVisible'
  BY LatestStep
<1> QED
  BY <1>1, LatestInit, SafeAlways, PTL DEF Spec

-----------------------------------------------------------------------------
\* Stranded runs.

LEMMA StrandedStep ==
  ASSUME Safe, [Next]_vars, NEW r \in Runs, Stranded(r)
  PROVE  Stranded(r)'
<1>1. TypeOK /\ Grows /\ r \in prs /\ r \in prs'
  BY StepGrows DEF Safe, Stranded, Grows
<1>2. PastGate(r) /\ PastGate(r)'
  BY <1>1 DEF Safe, WritesPassTheGate, PrCarriesPatch, PastGate, Grows
<1>3. status'[r] # "pr_opened"
  <2>1. ASSUME NEW a \in Approvals, Record(a) PROVE status'[r] = status[r]
    BY <1>1, <2>1 DEF Record, Stranded, Finishing, TypeOK
  <2>2. ASSUME NEW a \in Approvals, ApproveNext(a) PROVE status'[r] = status[r]
    BY <2>1, <2>2
       DEF ApproveNext, Admit, ReadBase, CreateBranch, ReadFile, PutFile, CreatePr,
           Comment, CloseIssue, FailApproval, dbVars
  <2>3. ASSUME NEW j \in Rejections, RejectNext(j)
        PROVE  status'[r] \in {status[r], "rejected"}
    BY <1>1, <2>3 DEF RejectNext, ReadForReject, StoreReject, FailReject, dbVars, TypeOK
  <2>4. ASSUME NEW s \in Runs, StartNext(s) PROVE status'[r] = status[r]
    <3>1. worker[r] = "ended"
      BY <1>2 DEF Safe, RequestsBacked, RowsFresh, PastGate
    <3> QED
      BY <1>1, <2>4, <3>1
         DEF StartNext, RefuseRun, BeginRun, FinishRun, DropRun, StoreRun, dbVars, TypeOK
  <2>5. CASE Restart \/ UNCHANGED vars
    BY <2>5 DEF Restart, Stranded, vars, dbVars
  <2> QED
    BY <2>2, <2>3, <2>4, <2>5 DEF Next, Stranded
<1>4. ASSUME NEW b \in Approvals, Finishing(b)' PROVE approval'[b].run # r
  <2>1. ASSUME approval'[b] = approval[b] PROVE approval'[b].run # r
    BY <1>4, <2>1 DEF Stranded, Finishing
  <2>2. ASSUME ApproveNext(b) PROVE approval'[b].run # r
    <3>1. approval'[b].run = approval[b].run /\ (Finishing(b) \/ CreatePr(b))
      BY <1>1, <1>4, <2>2, FinisherMoves
    <3> QED
      BY <1>1, <3>1 DEF Stranded, CreatePr
  <2>3. ~Restart
    BY <1>4 DEF Restart, NotApproving, Finishing
  <2>4. ASSUME NEW a \in Approvals, ApproveNext(a), a # b PROVE approval'[b] = approval[b]
    BY <1>1, <2>4, ApproveMoves
  <2>5. ASSUME \A a \in Approvals : ~ApproveNext(a) PROVE approval'[b] = approval[b]
    BY <2>3, <2>5
       DEF Next, StartNext, RefuseRun, BeginRun, FinishRun, DropRun, RejectNext,
           ReadForReject, StoreReject, FailReject, vars, requestVars
  <2> QED
    BY <2>1, <2>2, <2>4, <2>5
<1> QED
  BY <1>1, <1>3, <1>4 DEF Stranded

\* A run whose approval broke off after the pull request never gets recorded.
THEOREM StrandedStaysStranded == Spec => StrandedForGood
<1>1. Safe /\ [Next]_vars => [\A r \in Runs : Stranded(r) => Stranded(r)']_vars
  BY StrandedStep
<1> QED
  BY <1>1, SafeAlways, PTL DEF Spec, StrandedForGood

-----------------------------------------------------------------------------
\* The daily cap.  It is checked against committed rows, so what it bounds
\* depends on how many pipelines are running while their rows are not committed.

\* The cap is overrun by fewer than K runs: what a step keeps as long as at most
\* K pipelines are running together.
CapOverrun(K) ==
    /\ IsFiniteSet(Committed)
    /\ IsFiniteSet(Running)
    /\ DailyRunCap > 0 => Cardinality(PipelineRuns) < DailyRunCap + K

LEMMA CapInit ==
  ASSUME Init, NEW K \in Nat
  PROVE  CapOverrun(K)
<1>1. Committed = {} /\ Running = {} /\ PipelineRuns = {}
  BY DEF Init, Committed, Running, PipelineRuns
<1> QED
  BY <1>1, FS_EmptySet, RemediationAssumption DEF CapOverrun

LEMMA CapStep ==
  ASSUME Safe, [Next]_vars, NEW K \in Nat, CapOverrun(K), Cardinality(Running') <= K
  PROVE  CapOverrun(K)'
<1> USE RemediationAssumption
<1>1. TypeOK /\ PipelineRuns = Running \cup (Committed \ refused)
  BY DEF Safe, Running, PipelineRuns
<1>2. PipelineRuns' = Running' \cup (Committed' \ refused')
  BY DEF Running, PipelineRuns
<1>3. IsFiniteSet(PipelineRuns)
  <2>1. IsFiniteSet(Committed \ refused)
    BY FS_Subset DEF CapOverrun
  <2> QED
    BY <1>1, <2>1, FS_Union DEF CapOverrun
<1>4. ASSUME IsFiniteSet(Committed'), Running' \subseteq Running,
             PipelineRuns' \subseteq PipelineRuns
      PROVE  CapOverrun(K)'
  <2>1. IsFiniteSet(Running')
    BY <1>4, FS_Subset DEF CapOverrun
  <2>2. /\ Cardinality(PipelineRuns') <= Cardinality(PipelineRuns)
        /\ Cardinality(PipelineRuns') \in Nat /\ Cardinality(PipelineRuns) \in Nat
    BY <1>3, <1>4, FS_Subset, FS_CardinalityType
  <2> QED
    BY <1>4, <2>1, <2>2 DEF CapOverrun
<1>5. ASSUME NEW r \in Runs, StartNext(r) PROVE CapOverrun(K)'
  <2>1. CASE RefuseRun(r)
    <3>1. Running' = Running /\ Committed' = Committed \cup {r} /\ refused' = refused \cup {r}
      BY <1>1, <2>1 DEF RefuseRun, StoreRun, Running, Committed, TypeOK
    <3>2. IsFiniteSet(Committed')
      BY <3>1, FS_AddElement DEF CapOverrun
    <3> QED
      BY <1>1, <1>2, <1>4, <3>1, <3>2
  <2>2. CASE FinishRun(r)
    <3>1. "none" \notin Outcomes(r)
      BY DEF Outcomes
    <3>2. /\ Running' = Running \ {r} /\ r \in Running
          /\ Committed' = Committed \cup {r} /\ refused' = refused
      BY <1>1, <2>2, <3>1 DEF FinishRun, StoreRun, Running, Committed, TypeOK
    <3>3. IsFiniteSet(Committed')
      BY <3>2, FS_AddElement DEF CapOverrun
    <3> QED
      BY <1>1, <1>2, <1>4, <3>2, <3>3
  <2>3. CASE DropRun(r)
    <3>1. Running' \subseteq Running /\ Committed' = Committed /\ refused' = refused
      BY <1>1, <2>3 DEF DropRun, Running, Committed, TypeOK, dbVars
    <3> QED
      BY <1>1, <1>2, <1>4, <3>1 DEF CapOverrun
  <2>4. CASE BeginRun(r)
    <3>1. /\ Running' = Running \cup {r}
          /\ Committed' = Committed /\ refused' = refused
      BY <1>1, <2>4 DEF BeginRun, Running, Committed, TypeOK, dbVars
    <3>2. IsFiniteSet(Running') /\ IsFiniteSet(Committed')
      BY <3>1, FS_AddElement DEF CapOverrun
    <3>3. DailyRunCap > 0 => Cardinality(Committed) < DailyRunCap
      BY <2>4, FS_CardinalityType DEF BeginRun, DailyRunCapReached, CapOverrun
    <3>4. /\ IsFiniteSet(Running' \cup Committed)
          /\ Cardinality(Running' \cup Committed) \in Nat
          /\ Cardinality(Running' \cup Committed) <= K + Cardinality(Committed)
      <4>1. /\ IsFiniteSet(Running' \cup Committed)
            /\ Cardinality(Running' \cup Committed) =
                 Cardinality(Running') + Cardinality(Committed)
                   - Cardinality(Running' \cap Committed)
        BY <3>1, <3>2, FS_Union
      <4>2. IsFiniteSet(Running' \cap Committed)
        BY <3>2, FS_Subset
      <4>3. /\ Cardinality(Running') \in Nat /\ Cardinality(Committed) \in Nat
            /\ Cardinality(Running' \cap Committed) \in Nat
        BY <3>1, <3>2, <4>2, FS_CardinalityType
      <4>4. Cardinality(Running' \cup Committed) \in Nat
        BY <4>1, FS_CardinalityType
      <4> QED
        BY <4>1, <4>3, <4>4
    <3>5. /\ Cardinality(PipelineRuns') \in Nat
          /\ Cardinality(PipelineRuns') <= Cardinality(Running' \cup Committed)
      <4>1. PipelineRuns' \subseteq Running' \cup Committed
        BY <1>2, <3>1
      <4> QED
        BY <3>4, <4>1, FS_Subset, FS_CardinalityType
    <3>6. Cardinality(Committed) \in Nat
      BY FS_CardinalityType DEF CapOverrun
    <3> QED
      BY <3>2, <3>3, <3>4, <3>5, <3>6 DEF CapOverrun
  <2> QED
    BY <1>5, <2>1, <2>2, <2>3, <2>4 DEF StartNext
<1>6. ASSUME Committed' = Committed, refused' = refused, Running' \subseteq Running
      PROVE  CapOverrun(K)'
  BY <1>1, <1>2, <1>4, <1>6 DEF CapOverrun
<1> QED
  BY <1>5, <1>6, CommittedMoves

\* However many pipelines run together: as long as it is never more than K of
\* them, the cap is overrun by fewer than K runs.
THEOREM OverrunBounded ==
  ASSUME NEW K \in Nat
  PROVE  Spec /\ [](Cardinality(Running) <= K)
           => [](DailyRunCap > 0 => Cardinality(PipelineRuns) < DailyRunCap + K)
<1>1. Init => CapOverrun(K)
  BY CapInit
<1>2. Safe /\ CapOverrun(K) /\ [Next]_vars /\ (Cardinality(Running) <= K)' => CapOverrun(K)'
  BY CapStep
<1>3. CapOverrun(K) => (DailyRunCap > 0 => Cardinality(PipelineRuns) < DailyRunCap + K)
  BY DEF CapOverrun
<1> QED
  BY <1>1, <1>2, <1>3, SafeAlways, PTL DEF Spec

\* The cap holds exactly as documented when pipelines run one at a time: it is
\* only the runs that overlap that exceed it.
THEOREM CapHoldsOneByOne ==
  Spec /\ [](Cardinality(Running) <= 1) => []PipelineRunsWithinCap
<1>1. Spec /\ [](Cardinality(Running) <= 1) => []CapOverrun(1)
  <2>1. Init => CapOverrun(1)
    BY CapInit
  <2>2. Safe /\ CapOverrun(1) /\ [Next]_vars /\ (Cardinality(Running) <= 1)' => CapOverrun(1)'
    BY CapStep
  <2> QED
    BY <2>1, <2>2, SafeAlways, PTL DEF Spec
<1>2. CapOverrun(1) => PipelineRunsWithinCap
  <2> SUFFICES ASSUME CapOverrun(1), DailyRunCap > 0
               PROVE  Cardinality(PipelineRuns) <= DailyRunCap
    BY DEF PipelineRunsWithinCap
  <2>1. IsFiniteSet(Committed \ refused)
    BY FS_Subset DEF CapOverrun
  <2>2. IsFiniteSet(PipelineRuns)
    BY <2>1, FS_Union DEF CapOverrun, Running, PipelineRuns
  <2> QED
    BY <2>2, FS_CardinalityType, RemediationAssumption DEF CapOverrun
<1> QED
  BY <1>1, <1>2, PTL

-----------------------------------------------------------------------------
\* Approvals and rejections of one run.

\* No approval and rejection of one run are in flight together.
DecidedApart ==
    \A a \in Approvals, j \in Rejections :
        approval[a].pc # "idle" /\ rejection[j].pc # "idle"
            => approval[a].run # rejection[j].run

\* As long as that is so, what an approval read when it was admitted stays true
\* until an approval has recorded the run.
ApprovalsCurrent ==
    \A a \in Approvals : approval[a].pc # "idle" =>
        status[approval[a].run] \in {"awaiting_approval", "pr_opened"}

\* A step of a request that was under way is about the run it was admitted for.
LEMMA MoverKeepsRun ==
  ASSUME TypeOK, NEW a \in Approvals, ApproveNext(a), ~(\E r \in Runs : Admit(a, r))
  PROVE  \/ approval'[a].pc = "idle"
         \/ approval[a].pc # "idle" /\ approval'[a].run = approval[a].run
<1>1. approval[a].pc # "idle"
  BY DEF ApproveNext, ReadBase, CreateBranch, ReadFile, PutFile, CreatePr, Comment,
         CloseIssue, Record, FailApproval
<1>2. approval[a] \in [pc : Calls, run : Runs, file : Files, sha : Shas]
  BY <1>1, InFlight DEF TypeOK
<1>3. NotApproving.pc = "idle"
  BY DEF NotApproving
<1>4. ASSUME NEW pc \in Calls, Answered(a, pc)
      PROVE  \/ approval'[a].pc = "idle"
             \/ approval'[a].run = approval[a].run
  BY <1>1, <1>4, AnsweredEffect DEF TypeOK
<1>5. CASE ReadBase(a) \/ CreateBranch(a) \/ CreatePr(a) \/ Comment(a) \/ CloseIssue(a)
  BY <1>1, <1>4, <1>5 DEF ReadBase, CreateBranch, CreatePr, Comment, CloseIssue, Answered, Calls
<1>6. CASE ReadFile(a)
  BY <1>1, <1>2, <1>6 DEF ReadFile, TypeOK
<1>7. CASE PutFile(a)
  <2>1. approval'[a] = AfterPut(approval[a]) \/ approval'[a] = NotApproving
    BY <1>7 DEF PutFile, Leave, TypeOK
  <2> QED
    BY <1>1, <1>2, <1>3, <2>1 DEF AfterPut
<1>8. CASE Record(a) \/ FailApproval(a)
  BY <1>3, <1>8 DEF Record, FailApproval, Leave, TypeOK
<1> QED
  BY <1>5, <1>6, <1>7, <1>8 DEF ApproveNext

LEMMA CurrentStep ==
  ASSUME Safe, DecidedApart, ApprovalsCurrent, [Next]_vars
  PROVE  /\ ApprovalsCurrent'
         /\ \A r \in Runs : status[r] # "pr_opened" /\ status'[r] = "pr_opened"
                             => status[r] = "awaiting_approval"
<1> DEFINE Straight == \A r \in Runs : status[r] # "pr_opened" /\ status'[r] = "pr_opened"
                                         => status[r] = "awaiting_approval"
<1>1. TypeOK
  BY DEF Safe
<1>2. \A a \in Approvals : approval[a].pc # "idle" => approval[a].run \in Runs
  BY <1>1, InFlight DEF TypeOK
<1>3. ASSUME approval' = approval,
             \A r \in Runs : /\ status'[r] # status[r] => status'[r] # "pr_opened"
                             /\ \A a \in Approvals :
                                  approval[a].pc # "idle" /\ approval[a].run = r
                                    => status'[r] = status[r]
      PROVE  ApprovalsCurrent' /\ Straight
  BY <1>2, <1>3 DEF ApprovalsCurrent
<1>4. ASSUME NEW r \in Runs, StartNext(r) PROVE ApprovalsCurrent' /\ Straight
  <2>1. status[r] = "none" /\ approval' = approval
    BY <1>4 DEF StartNext, RefuseRun, BeginRun, FinishRun, DropRun, Safe, RequestsBacked,
                RowsFresh, requestVars
  <2>2. \A s \in Runs : status'[s] = status[s] \/ (s = r /\ status'[s] # "pr_opened")
    BY <1>1, <1>4 DEF StartNext, RefuseRun, BeginRun, FinishRun, DropRun, StoreRun,
                      Outcomes, TypeOK, dbVars
  <2> QED
    BY <1>3, <2>1, <2>2 DEF ApprovalsCurrent
<1>5. ASSUME NEW a \in Approvals, ApproveNext(a) PROVE ApprovalsCurrent' /\ Straight
  <2>1. \A b \in Approvals : b # a => approval'[b] = approval[b]
    BY <1>1, <1>5, ApproveMoves
  <2>2. CASE Record(a)
    <3>1. PICK r \in Runs : r = approval[a].run
      BY <1>2, <2>2 DEF Record
    <3>2. /\ status' = [status EXCEPT ![r] = "pr_opened"]
          /\ approval'[a].pc = "idle"
          /\ status[r] \in {"awaiting_approval", "pr_opened"}
      BY <1>1, <2>2, <3>1 DEF Record, Leave, NotApproving, ApprovalsCurrent, TypeOK
    <3>3. \A s \in Runs : status'[s] = IF s = r THEN "pr_opened" ELSE status[s]
      BY <1>1, <3>2 DEF TypeOK
    <3>4. ApprovalsCurrent'
      BY <1>2, <2>1, <3>2, <3>3 DEF ApprovalsCurrent
    <3> QED
      BY <3>2, <3>3, <3>4
  <2>3. CASE \E r \in Runs : Admit(a, r)
    <3>1. PICK r \in Runs : Admit(a, r)
      BY <2>3
    <3>2. status' = status /\ approval'[a].run = r /\ status[r] = "awaiting_approval"
      BY <1>1, <3>1 DEF Admit, dbVars, TypeOK
    <3> QED
      BY <2>1, <3>2 DEF ApprovalsCurrent
  <2>4. CASE ~Record(a) /\ ~(\E r \in Runs : Admit(a, r))
    <3>1. status' = status
      BY <1>5, <2>4 DEF ApproveNext, ReadBase, CreateBranch, ReadFile, PutFile, CreatePr,
                        Comment, CloseIssue, FailApproval, dbVars
    <3>2. \/ approval'[a].pc = "idle"
          \/ approval[a].pc # "idle" /\ approval'[a].run = approval[a].run
      BY <1>1, <1>5, <2>4, MoverKeepsRun
    <3> QED
      BY <2>1, <3>1, <3>2 DEF ApprovalsCurrent
  <2> QED
    BY <2>2, <2>3, <2>4
<1>6. ASSUME NEW j \in Rejections, RejectNext(j) PROVE ApprovalsCurrent' /\ Straight
  <2>1. approval' = approval
    BY <1>6 DEF RejectNext, ReadForReject, StoreReject, FailReject
  <2>2. CASE StoreReject(j)
    <3>1. PICK r \in Runs : r = rejection[j].run
      BY <1>1, <2>2 DEF StoreReject, TypeOK, RejectState, NotRejecting
    <3>2. /\ status' = [status EXCEPT ![r] = "rejected"]
          /\ \A a \in Approvals : approval[a].pc # "idle" => approval[a].run # r
      BY <2>2, <3>1 DEF StoreReject, DecidedApart
    <3> QED
      BY <1>1, <1>3, <2>1, <3>2 DEF TypeOK
  <2>3. CASE ~StoreReject(j)
    BY <1>3, <1>6, <2>1, <2>3 DEF RejectNext, ReadForReject, FailReject, dbVars
  <2> QED
    BY <2>2, <2>3
<1>7. CASE Restart
  BY <1>7 DEF Restart, dbVars, ApprovalsCurrent, NotApproving
<1>8. CASE UNCHANGED vars
  BY <1>8 DEF vars, dbVars, requestVars, ApprovalsCurrent
<1> QED
  BY <1>4, <1>5, <1>6, <1>7, <1>8 DEF Next

\* A run becomes pr_opened straight from awaiting_approval, as the service says,
\* unless an approval and a rejection of it are in flight together.
THEOREM ApprovedFromAwaiting == Spec /\ []DecidedApart => OnlyAwaitingIsApproved
<1>1. Init => ApprovalsCurrent
  BY DEF Init, ApprovalsCurrent, NotApproving
<1>2. Safe /\ DecidedApart /\ ApprovalsCurrent /\ [Next]_vars => ApprovalsCurrent'
  BY CurrentStep
<1>3. Safe /\ DecidedApart /\ ApprovalsCurrent /\ [Next]_vars
        => [\A r \in Runs : status[r] # "pr_opened" /\ status'[r] = "pr_opened"
                            => status[r] = "awaiting_approval"]_vars
  BY CurrentStep
<1> QED
  BY <1>1, <1>2, <1>3, SafeAlways, PTL DEF Spec, OnlyAwaitingIsApproved

=============================================================================
