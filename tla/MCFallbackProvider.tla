------------------------- MODULE MCFallbackProvider -------------------------
(***************************************************************************)
(* Three concurrent callers of a provider whose circuit opens at the       *)
(* second failure: enough for a probe, a straggler and a third call.       *)
(***************************************************************************)
EXTENDS FallbackProvider
=============================================================================
