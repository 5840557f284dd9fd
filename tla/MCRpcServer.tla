----------------------------- MODULE MCRpcServer -----------------------------
(* RpcServer with two registered routes, one whose service has GuardedLen     *)
(* handlers and one whose service has PlainLen.                              *)
EXTENDS RpcServer, TLC

CONSTANTS plain, guarded, PlainLen, GuardedLen

MCRoutes   == {plain, guarded}
MCChainLen == plain :> PlainLen @@ guarded :> GuardedLen
MCSymmetry == Permutations(Requests) \cup Permutations(Contexts)
=============================================================================
