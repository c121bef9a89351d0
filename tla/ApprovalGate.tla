---------------------------- MODULE ApprovalGate ----------------------------
(***************************************************************************)
(* What the platform promises about a remediation run, seen from outside:  *)
(* the status its database row shows, the human decisions being carried    *)
(* out on it, and what exists on GitHub because of it.  How the backend    *)
(* gets there (requests, GitHub calls, failures, restarts) is in module    *)
(* Remediation, which is shown to implement this one.                      *)
(*                                                                         *)
(* The promise is weaker than "a decision is final": a decision is taken   *)
(* on an awaiting run and carried out later, so two decisions on one run   *)
(* can both be carried out, and the row shows the one stored last.         *)
(***************************************************************************)
CONSTANTS
    Runs,       \* remediation runs
    Writable    \* those on an issue of a sandbox repo

VARIABLES
    status,     \* status[r]: what the row of r shows, "none" while there is no row
    pending,    \* pending[r]: the decisions on r that are being carried out
    written,    \* runs that have written to GitHub
    prs         \* runs whose pull request is open on GitHub

gateVars == <<status, pending, written, prs>>

Decisions == {"approve", "reject"}

\* The statuses the automatic part of a run can end with.
Results(r) ==
    {"failed"} \cup (IF r \in Writable
                     THEN {"awaiting_approval", "verify_failed"}
                     ELSE {"diagnosed"})

Init ==
    /\ status = [r \in Runs |-> "none"]
    /\ pending = [r \in Runs |-> {}]
    /\ written = {}
    /\ prs = {}

\* Carrying out a decision may break off at any point, that of any number of
\* them at once if the process dies, and ends with its last effect.
SomeBreakOff ==
    \A r \in Runs : pending'[r] \subseteq pending[r]

\* The automatic part ends, and only it creates the row.
Conclude(r) ==
    /\ status[r] = "none"
    /\ \E s \in Results(r) : status' = [status EXCEPT ![r] = s]
    /\ UNCHANGED <<pending, written, prs>>

\* A human decides on a run that shows as awaiting the decision.
Decide(r, d) ==
    /\ status[r] = "awaiting_approval"
    /\ pending' = [pending EXCEPT ![r] = @ \cup {d}]
    /\ UNCHANGED <<status, written, prs>>

BreakOff ==
    /\ SomeBreakOff
    /\ UNCHANGED <<status, written, prs>>

\* GitHub is written to only to carry out an approval.
Write(r) ==
    /\ "approve" \in pending[r]
    /\ written' = written \cup {r}
    /\ SomeBreakOff
    /\ UNCHANGED <<status, prs>>

OpenPr(r) ==
    /\ "approve" \in pending[r]
    /\ r \in written
    /\ prs' = prs \cup {r}
    /\ SomeBreakOff
    /\ UNCHANGED <<status, written>>

\* The row says pr_opened only of a pull request that exists.
Publish(r) ==
    /\ "approve" \in pending[r]
    /\ r \in prs
    /\ status' = [status EXCEPT ![r] = "pr_opened"]
    /\ SomeBreakOff
    /\ UNCHANGED <<written, prs>>

Discard(r) ==
    /\ "reject" \in pending[r]
    /\ status' = [status EXCEPT ![r] = "rejected"]
    /\ SomeBreakOff
    /\ UNCHANGED <<written, prs>>

Next ==
    \/ \E r \in Runs :
          \/ Conclude(r)
          \/ \E d \in Decisions : Decide(r, d)
          \/ Write(r)
          \/ OpenPr(r)
          \/ Publish(r)
          \/ Discard(r)
    \/ BreakOff

Spec == Init /\ [][Next]_gateVars

=============================================================================
