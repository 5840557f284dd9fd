-------------------------- MODULE MCServerLifecycle --------------------------
(* ServerLifecycle with two servers on one address. *)
EXTENDS ServerLifecycle, TLC

CONSTANTS addr, s1, s2

MCAddr == s1 :> addr @@ s2 :> addr
MCRuns == s1 :> 2 @@ s2 :> 1
=============================================================================
