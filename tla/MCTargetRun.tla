---------------------------- MODULE MCTargetRun ----------------------------
(* An instance of TargetRun: an ordinary target or a mosaic panel. *)
EXTENDS TargetRun

CONSTANTS L, R, B

MCFilters == {L, R, B}
=============================================================================
