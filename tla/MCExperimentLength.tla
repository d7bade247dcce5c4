------------------------- MODULE MCExperimentLength -------------------------
(* TLC instances of ExperimentLength. *)
EXTENDS ExperimentLength

=============================================================================
