------------------------- MODULE MCLockedExecution -------------------------
(* Instances of LockedExecution for TLC.                                   *)
EXTENDS LockedExecution, TLC

\* One document per way of being read: the approval (loaded, noted, recorded),
\* an input the context compares and the analysis reads, a record of the guard
\* payload, one the context hashes without comparing, and the role.
MCVolatile == {"approval", "config", "amendment", "calibration_result",
               "locked_role"}

MCInputsAndApproval == {"approval", "config"}

MCSymmetry == Permutations(Proc)
=============================================================================
