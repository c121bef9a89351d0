----------------------------- MODULE IssueIntake -----------------------------
(***************************************************************************)
(* What the platform promises about the issues it knows, as the issues     *)
(* table and the remediation runs show it: an issue comes in one way,      *)
(* which the row tells for good, and the platform starts a run of its own  *)
(* accord only for an issue it detected itself, and only once.  How issues *)
(* get there (the open transaction, the tasks, the routes, restarts) is in *)
(* module Poller, which is shown to implement this one.                    *)
(***************************************************************************)
EXTENDS Naturals

CONSTANTS
    Issues,
    Baseline    \* issues stored when their repository was connected

VARIABLES
    stored,     \* stored[i]: how the committed row of i says it came in, or "none"
    runs        \* runs[i]: the runs started for i unasked

intakeVars == <<stored, runs>>

Ways == {"poller_detected", "demo_injected", "manual_refresh"}

Init ==
    /\ stored = [i \in Issues |-> IF i \in Baseline THEN "baseline" ELSE "none"]
    /\ runs = [i \in Issues |-> 0]

\* A commit brings in issues that are not stored yet, all of them the same way.
Import(new, way) ==
    /\ \A i \in new : stored[i] = "none"
    /\ stored' = [i \in Issues |-> IF i \in new THEN way ELSE stored[i]]
    /\ UNCHANGED runs

Remediate(i) ==
    /\ stored[i] = "poller_detected"
    /\ runs[i] = 0
    /\ runs' = [runs EXCEPT ![i] = 1]
    /\ UNCHANGED stored

Next ==
    \/ \E new \in SUBSET Issues, way \in Ways : Import(new, way)
    \/ \E i \in Issues : Remediate(i)

Spec == Init /\ [][Next]_intakeVars

=============================================================================
