---------------------------- MODULE MCSubscribers ----------------------------
(***************************************************************************)
(* An instance of Subscribers for TLC: three subscriptions of one address  *)
(* and one of the owner's, two starts of the server and two critical runs. *)
(***************************************************************************)
EXTENDS Subscribers, TLC

CONSTANTS t1, t2, t3, t4, visitor, owner

MCAddressOf == (t1 :> visitor) @@ (t2 :> visitor) @@ (t3 :> visitor) @@ (t4 :> owner)
MCSymmetry  == Permutations({t1, t2, t3})

=============================================================================
