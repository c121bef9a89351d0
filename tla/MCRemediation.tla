--------------------------- MODULE MCRemediation ---------------------------
(***************************************************************************)
(* An instance of Remediation for TLC: two runs of one sandbox issue and   *)
(* one run of an inspected issue, so that two runs of an issue can both be *)
(* approved, and one run by two requests at once.                          *)
(***************************************************************************)
EXTENDS Remediation, TLC

CONSTANTS buggy, watched, r1, r2, r3, a1, a2

MCIssueOf   == (r1 :> buggy) @@ (r2 :> buggy) @@ (r3 :> watched)
MCApprovals == {a1, a2}

\* Approve requests are told apart by nothing but what they do; the properties
\* checked with this set are invariants and action properties.
MCSymmetry  == Permutations(MCApprovals)

=============================================================================
