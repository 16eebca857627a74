-------------------------- MODULE MCLockedReview --------------------------
(* Instances of LockedReview: two blocks, two candidate rules of different *)
(* signatures, two policy orders that differ, a budget the longest search  *)
(* of both blocks exceeds.                                                 *)
EXTENDS LockedReview

MCSignature == [c \in 0 .. 1 |-> c]
MCFixedOrder == <<1, 0>>
MCDevelopmentOrder == <<0, 1>>
MCDerivedFiles == <<"LOCKED_ENDPOINT_SUMMARY", "RECOMPUTATION_ISSUES">>
MCAllSubjects == Endpoints

=============================================================================
