-------------------------- MODULE MCThreadRegistry --------------------------
(* TLC instances of ThreadRegistry. *)
EXTENDS ThreadRegistry
=============================================================================
