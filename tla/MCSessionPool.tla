---------------------------- MODULE MCSessionPool ----------------------------
(***************************************************************************)
(* An instance of SessionPool for TLC: two connections, one thread of the  *)
(* server, two plain routes, an ad hoc one and one job of each kind, of    *)
(* which two or three come together.  The bodies lead to their context by  *)
(* a path, by a function name, or not at all.                              *)
(***************************************************************************)
EXTENDS SessionPool, TLC

CONSTANTS run, injection, lookup, approval, connect, refresh, cycle

MCBodies == {[paths |-> <<"miss", "hit">>, names |-> <<"hit">>],
             [paths |-> <<"miss">>, names |-> <<"none", "empty", "hit">>],
             [paths |-> <<>>, names |-> <<"empty">>]}
MCCalls == (injection :> 1) @@ (lookup :> 1) @@ (approval :> 2) @@ (connect :> 2)
           @@ (refresh :> 1) @@ (cycle :> 1)
MCTogether == {{approval, refresh, cycle}, {run, approval}, {injection, run}, {injection, refresh},
               {lookup, run}, {lookup, connect}}

=============================================================================
