--------------------------- MODULE MCVisitorLimits ---------------------------
(***************************************************************************)
(* An instance of VisitorLimits for TLC: three requests of one visitor, or *)
(* two of one and one of another, each of which cleans up after itself.    *)
(***************************************************************************)
EXTENDS VisitorLimits, TLC

CONSTANTS t1, t2, t3, v1, v2

MCSenders == {(t1 :> v1) @@ (t2 :> v1) @@ (t3 :> v1), (t1 :> v1) @@ (t2 :> v1) @@ (t3 :> v2)}

=============================================================================
