----------------------- MODULE RemediationRefinement -----------------------
(***************************************************************************)
(* The remediation service implements ApprovalGate, for any number of      *)
(* issues, runs and concurrent requests: its initial states are initial    *)
(* states of the gate, and each of its steps is a step of the gate or      *)
(* changes nothing the gate shows.                                         *)
(***************************************************************************)
EXTENDS RemediationProofs

\* No request has been admitted: those in flight went on with their run, or ended.
NoneAdmitted ==
    /\ \A a \in Approvals :
          \/ approval'[a].pc = "idle"
          \/ approval[a].pc # "idle" /\ approval'[a].run = approval[a].run
    /\ \A j \in Rejections :
          \/ rejection'[j].pc = "idle"
          \/ rejection[j].pc # "idle" /\ rejection'[j].run = rejection[j].run

LEMMA NoneAdmittedBreakOff == NoneAdmitted => Gate!SomeBreakOff
BY DEF NoneAdmitted, Gate!SomeBreakOff, Pending

\* A step of an approve request that is not its admission admits nobody.
LEMMA ApproveAdmitsNobody ==
  ASSUME TypeOK, NEW a \in Approvals, ApproveNext(a),
         \A r \in Runs : ~Admit(a, r)
  PROVE  approval[a].pc # "idle" /\ NoneAdmitted
<1>1. approval \in [Approvals -> ApproveState]
  BY DEF TypeOK
<1>2. approval[a].pc # "idle"
  BY DEF ApproveNext, ReadBase, CreateBranch, ReadFile, PutFile, CreatePr,
         Comment, CloseIssue, Record, FailApproval
<1>3. approval[a] \in [pc : Calls, run : Runs, file : Files, sha : Shas]
  BY <1>1, <1>2, InFlight
<1>4. approval'[a].pc = "idle" \/ approval'[a].run = approval[a].run
  <2>1. CASE Leave(a)
    BY <1>1, <2>1 DEF Leave, NotApproving
  <2>2. ASSUME NEW pc \in Calls, Answered(a, pc)
        PROVE  approval'[a].pc = "idle" \/ approval'[a].run = approval[a].run
    BY <1>1, <1>2, <2>2, AnsweredEffect
  <2>3. CASE ReadBase(a) \/ CreateBranch(a) \/ CreatePr(a) \/ Comment(a) \/ CloseIssue(a)
    BY <2>2, <2>3
       DEF ReadBase, CreateBranch, CreatePr, Comment, CloseIssue, Answered, Calls
  <2>4. CASE ReadFile(a)
    BY <1>1, <1>3, <2>4 DEF ReadFile
  <2>5. CASE PutFile(a) /\ ~Leave(a)
    <3>1. approval'[a] = AfterPut(approval[a])
      BY <1>1, <2>5 DEF PutFile
    <3> QED
      BY <1>3, <3>1 DEF AfterPut
  <2> QED
    BY <2>1, <2>3, <2>4, <2>5 DEF ApproveNext, Record, FailApproval
<1> QED
  BY <1>2, <1>4, ApproveMoves DEF NoneAdmitted

\* Admitting a request adds its decision to the run it is about, and to no other.
LEMMA AdmitDecides ==
  ASSUME TypeOK, NEW a \in Approvals, NEW r \in Runs, Admit(a, r)
  PROVE  Gate!Decide(r, "approve")
<1>1. /\ approval[a].pc = "idle" /\ rejection' = rejection
      /\ approval'[a].pc = "base" /\ approval'[a].run = r
      /\ \A b \in Approvals \ {a} : approval'[b] = approval[b]
  BY DEF Admit, TypeOK
<1>2. ASSUME NEW s \in Runs
      PROVE  Pending(s)' = IF s = r THEN Pending(s) \cup {"approve"} ELSE Pending(s)
  <2>1. (\E b \in Approvals : approval'[b].pc # "idle" /\ approval'[b].run = s)
        <=> (s = r \/ \E b \in Approvals : approval[b].pc # "idle" /\ approval[b].run = s)
    BY <1>1
  <2> QED
    BY <1>1, <2>1 DEF Pending
<1>3. [s \in Runs |-> Pending(s)']
        = [[s \in Runs |-> Pending(s)] EXCEPT ![r] = @ \cup {"approve"}]
  BY <1>2
<1>4. status[r] = "awaiting_approval" /\ UNCHANGED <<status, branches, prs>>
  BY DEF Admit, dbVars, githubVars
<1> QED
  BY <1>3, <1>4 DEF Gate!Decide

LEMMA ReadForRejectDecides ==
  ASSUME TypeOK, NEW j \in Rejections, NEW r \in Runs, ReadForReject(j, r)
  PROVE  Gate!Decide(r, "reject")
<1>1. /\ rejection[j].pc = "idle" /\ approval' = approval
      /\ rejection'[j].pc = "read" /\ rejection'[j].run = r
      /\ \A k \in Rejections \ {j} : rejection'[k] = rejection[k]
  BY DEF ReadForReject, TypeOK
<1>2. ASSUME NEW s \in Runs
      PROVE  Pending(s)' = IF s = r THEN Pending(s) \cup {"reject"} ELSE Pending(s)
  <2>1. (\E k \in Rejections : rejection'[k].pc # "idle" /\ rejection'[k].run = s)
        <=> (s = r \/ \E k \in Rejections : rejection[k].pc # "idle" /\ rejection[k].run = s)
    BY <1>1
  <2> QED
    BY <1>1, <2>1 DEF Pending
<1>3. [s \in Runs |-> Pending(s)']
        = [[s \in Runs |-> Pending(s)] EXCEPT ![r] = @ \cup {"reject"}]
  BY <1>2
<1>4. status[r] = "awaiting_approval" /\ UNCHANGED <<status, branches, prs>>
  BY DEF ReadForReject, dbVars, githubVars
<1> QED
  BY <1>3, <1>4 DEF Gate!Decide

LEMMA GateInit == Init => Gate!Init
BY DEF Init, Gate!Init, Pending, NotApproving, NotRejecting

LEMMA StartRefines ==
  ASSUME Safe, NEW r \in Runs, StartNext(r)
  PROVE  [Gate!Next]_(Gate!gateVars)
<1>1. /\ UNCHANGED <<approval, rejection, branches, prs>>
      /\ status[r] = "none"
  BY DEF StartNext, RefuseRun, BeginRun, FinishRun, DropRun, requestVars, githubVars,
         Safe, RequestsBacked, RowsFresh
<1>2. [s \in Runs |-> Pending(s)]' = [s \in Runs |-> Pending(s)]
  BY <1>1 DEF Pending
<1>3. CASE RefuseRun(r) \/ FinishRun(r)
  <2>1. \E s \in Gate!Results(r) : status' = [status EXCEPT ![r] = s]
    BY <1>3 DEF RefuseRun, FinishRun, StoreRun, Outcomes, Gate!Results
  <2> QED
    BY <1>1, <1>2, <2>1 DEF Gate!Next, Gate!Conclude
<1>4. CASE BeginRun(r) \/ DropRun(r)
  BY <1>1, <1>2, <1>4 DEF BeginRun, DropRun, dbVars, Gate!gateVars
<1> QED
  BY <1>3, <1>4 DEF StartNext

LEMMA ApproveRefines ==
  ASSUME Safe, NEW a \in Approvals, ApproveNext(a)
  PROVE  [Gate!Next]_(Gate!gateVars)
<1>1. TypeOK /\ ApprovalBacked(a)
  BY DEF Safe, RequestsBacked, ApprovalsBacked
<1>2. ASSUME NEW r \in Runs, Admit(a, r) PROVE Gate!Next
  BY <1>1, <1>2, AdmitDecides DEF Gate!Next, Gate!Decisions
<1>3. ASSUME \A r \in Runs : ~Admit(a, r) PROVE Gate!Next
  <2>1. approval[a].pc # "idle" /\ Gate!SomeBreakOff
    BY <1>1, <1>3, ApproveAdmitsNobody, NoneAdmittedBreakOff
  <2>2. PICK r \in Runs : approval[a].run = r
    BY <1>1, <2>1, InFlight DEF TypeOK
  <2>3. "approve" \in [s \in Runs |-> Pending(s)][r]
    BY <2>1, <2>2 DEF Pending
  <2>4. CASE CreateBranch(a)
    <3>1. UNCHANGED <<status, prs>>
      BY <2>4 DEF CreateBranch, dbVars
    <3>2. branches' = branches \cup {r} \/ branches' = branches
      BY <2>2, <2>4 DEF CreateBranch
    <3> QED
      BY <2>1, <2>3, <3>1, <3>2 DEF Gate!Next, Gate!Write, Gate!BreakOff
  <2>5. CASE CreatePr(a)
    <3>1. r \in branches /\ prs' = prs \cup {r} /\ UNCHANGED <<status, branches>>
      BY <1>1, <2>2, <2>5 DEF CreatePr, dbVars, ApprovalBacked, FixCommitted
    <3> QED
      BY <2>1, <2>3, <3>1 DEF Gate!Next, Gate!OpenPr
  <2>6. CASE Record(a)
    <3>1. /\ r \in prs /\ status' = [status EXCEPT ![r] = "pr_opened"]
          /\ UNCHANGED <<branches, prs>>
      BY <1>1, <2>2, <2>6 DEF Record, githubVars, ApprovalBacked, Finishing
    <3> QED
      BY <2>1, <2>3, <3>1 DEF Gate!Next, Gate!Publish
  <2>7. CASE ~(CreateBranch(a) \/ CreatePr(a) \/ Record(a))
    <3>1. UNCHANGED <<status, branches, prs>>
      BY <1>3, <2>7 DEF ApproveNext, ReadBase, ReadFile, PutFile, Comment, CloseIssue,
                        FailApproval, dbVars, githubVars
    <3> QED
      BY <2>1, <3>1 DEF Gate!Next, Gate!BreakOff
  <2> QED
    BY <2>4, <2>5, <2>6, <2>7
<1> QED
  BY <1>2, <1>3

LEMMA RejectRefines ==
  ASSUME Safe, NEW j \in Rejections, RejectNext(j)
  PROVE  [Gate!Next]_(Gate!gateVars)
<1>1. TypeOK
  BY DEF Safe
<1>2. ASSUME NEW r \in Runs, ReadForReject(j, r) PROVE Gate!Next
  BY <1>1, <1>2, ReadForRejectDecides DEF Gate!Next, Gate!Decisions
<1>3. CASE StoreReject(j) \/ FailReject(j)
  <2>1. rejection[j].pc # "idle" /\ approval' = approval
        /\ \A k \in Rejections : rejection'[k].pc = "idle" \/ rejection'[k] = rejection[k]
    BY <1>1, <1>3 DEF StoreReject, FailReject, NotRejecting, TypeOK
  <2>2. NoneAdmitted
    BY <2>1 DEF NoneAdmitted
  <2>3. Gate!SomeBreakOff
    BY <2>2, NoneAdmittedBreakOff
  <2>4. UNCHANGED <<branches, prs>>
    BY <1>3 DEF StoreReject, FailReject, githubVars
  <2>5. PICK r \in Runs : rejection[j].run = r
    BY <1>1, <2>1 DEF TypeOK, RejectState, NotRejecting
  <2>6. "reject" \in [s \in Runs |-> Pending(s)][r]
    BY <2>1, <2>5 DEF Pending
  <2>7. CASE StoreReject(j)
    <3>1. status' = [status EXCEPT ![r] = "rejected"]
      BY <2>5, <2>7 DEF StoreReject
    <3> QED
      BY <2>3, <2>4, <2>6, <3>1 DEF Gate!Next, Gate!Discard
  <2>8. CASE FailReject(j)
    BY <2>3, <2>4, <2>8 DEF FailReject, dbVars, Gate!Next, Gate!BreakOff
  <2> QED
    BY <1>3, <2>7, <2>8
<1> QED
  BY <1>2, <1>3 DEF RejectNext

LEMMA GateStep ==
  ASSUME Safe, [Next]_vars
  PROVE  [Gate!Next]_(Gate!gateVars)
<1>1. CASE Restart
  <2>1. NoneAdmitted
    BY <1>1 DEF Restart, NoneAdmitted, NotApproving, NotRejecting
  <2>2. Gate!SomeBreakOff
    BY <2>1, NoneAdmittedBreakOff
  <2> QED
    BY <1>1, <2>2 DEF Restart, dbVars, githubVars, Gate!Next, Gate!BreakOff
<1>2. CASE UNCHANGED vars
  BY <1>2 DEF vars, dbVars, requestVars, githubVars, Gate!gateVars, Pending
<1> QED
  BY <1>1, <1>2, StartRefines, ApproveRefines, RejectRefines DEF Next

\* The rows, the requests and GitHub together behave as the gate promises.
THEOREM GateImplemented == Spec => ImplementsGate
<1>1. Safe /\ [Next]_vars => [Gate!Next]_(Gate!gateVars)
  BY GateStep
<1> QED
  BY <1>1, GateInit, SafeAlways, PTL DEF Spec, ImplementsGate, Gate!Spec

=============================================================================
