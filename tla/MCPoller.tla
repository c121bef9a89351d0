------------------------------ MODULE MCPoller ------------------------------
(***************************************************************************)
(* Instances of Poller for TLC: one sandbox repo, and two polled one after *)
(* the other.                                                              *)
(***************************************************************************)
EXTENDS Poller, TLC

CONSTANTS first, second, old, i1, i2, i3

OneRepo  == <<first>>
TwoRepos == <<first, second>>

MCRepoOf1 == (old :> first) @@ (i1 :> first) @@ (i2 :> first)
MCRepoOf2 == (old :> first) @@ (i1 :> first) @@ (i2 :> first) @@ (i3 :> second)

=============================================================================
