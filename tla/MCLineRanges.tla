---------------------------- MODULE MCLineRanges ----------------------------
(* TLC instances of LineRanges. *)
EXTENDS LineRanges

=============================================================================
