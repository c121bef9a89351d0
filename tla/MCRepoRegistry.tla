--------------------------- MODULE MCRepoRegistry ---------------------------
(***************************************************************************)
(* An instance of RepoRegistry for TLC: one repository that may get more   *)
(* items than fit on a page, one of them a pull request, and one that has  *)
(* a single issue.                                                         *)
(***************************************************************************)
EXTENDS RepoRegistry, TLC

CONSTANTS busy, quiet

MCItems == (busy :> 3) @@ (quiet :> 1)
MCPulls == (busy :> {2}) @@ (quiet :> {})

=============================================================================
