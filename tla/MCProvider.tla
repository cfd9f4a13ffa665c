----------------------------- MODULE MCProvider -----------------------------
(***************************************************************************)
(* Small instances of ProviderCalls.                                       *)
(***************************************************************************)
EXTENDS ProviderCalls
=============================================================================
