-------------------------- MODULE MC_TokenRegistry --------------------------
(* Instances of TokenRegistry for TLC.  Tokens never meet in an action, so one *)
(* token is enough. *)
EXTENDS TokenRegistry
=============================================================================
