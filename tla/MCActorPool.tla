----------------------------- MODULE MCActorPool -----------------------------
(***************************************************************************)
(* Three tasks, one of them scheduled, on a provider with one slot and one *)
(* with two: more tasks than slots on both sides of the boundary.          *)
(***************************************************************************)
EXTENDS ActorPool, TLC

CONSTANTS single, double

SlotsOfProviders == (single :> 1) @@ (double :> 2)
=============================================================================
