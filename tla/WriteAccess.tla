----------------------------- MODULE WriteAccess -----------------------------
(***************************************************************************)
(* What the platform promises about the repositories it knows: a visitor   *)
(* can only ever make a repository readable, only the operator's list can  *)
(* make one writable, and neither changes what the platform decided when   *)
(* it first saw the repository.                                            *)
(***************************************************************************)
CONSTANTS Repos

VARIABLES
    config,     \* repositories the operator lists as sandboxes
    type        \* type[r]: what the platform decided for r

vars == <<config, type>>

Types == {"none", "inspected", "sandbox"}

Init == config \in SUBSET Repos /\ type = [r \in Repos |-> "none"]

\* The operator edits the list, for the next start of the server.
Reconfigure == config' \in SUBSET Repos /\ UNCHANGED type

\* The repositories of the list nobody has connected before become writable,
\* as far as they can be reached.
Grant(S) ==
    /\ S \subseteq {r \in config : type[r] = "none"}
    /\ type' = [r \in Repos |-> IF r \in S THEN "sandbox" ELSE type[r]]
    /\ UNCHANGED config

Inspect(r) ==
    /\ type[r] = "none"
    /\ type' = [type EXCEPT ![r] = "inspected"]
    /\ UNCHANGED config

Next ==
    \/ Reconfigure
    \/ \E S \in SUBSET Repos : Grant(S)
    \/ \E r \in Repos : Inspect(r)

Spec == Init /\ [][Next]_vars

=============================================================================
