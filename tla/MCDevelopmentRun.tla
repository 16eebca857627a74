------------------------- MODULE MCDevelopmentRun -------------------------
(* Instances of DevelopmentRun: runs that share directories or do not, one *)
(* directory they may not write to, and edits of the configuration and of  *)
(* the protocol, whose second version is approved: a run refuses that one. *)
EXTENDS DevelopmentRun

MCRefused == {<<"protocol", 2>>}
MCEditedInputs == {"config", "protocol"}
=============================================================================
