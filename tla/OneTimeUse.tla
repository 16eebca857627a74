----------------------------- MODULE OneTimeUse -----------------------------
(***************************************************************************)
(* What the locked audit promises about one execution approval: it is      *)
(* consumed by at most one run, that run evaluates the held-out role at    *)
(* most once, and the approval ends with at most one recorded outcome,     *)
(* sealed by at most one receipt.  The detailed specification,             *)
(* LockedExecution, is shown to implement this one.                        *)
(***************************************************************************)
CONSTANT Proc           \* the invocations of the audit command

VARIABLES
  holder,               \* the run that consumed the approval, as a set
  analysts,             \* the runs that evaluated the held-out role
  outcome,              \* what is recorded of it
  sealed                \* a receipt covers the recorded outcome

oneTimeVars == <<holder, analysts, outcome, sealed>>

OneTimeTypeOK ==
  /\ holder \subseteq Proc
  /\ analysts \subseteq Proc
  /\ outcome \in {"none", "result", "failure"}
  /\ sealed \in BOOLEAN

OneTimeInit ==
  /\ holder = {}
  /\ analysts = {}
  /\ outcome = "none"
  /\ sealed = FALSE

Consume(p) ==
  /\ holder = {}
  /\ holder' = {p}
  /\ UNCHANGED <<analysts, outcome, sealed>>

Analyse(p) ==
  /\ holder = {p}
  /\ analysts = {}
  /\ outcome = "none"
  /\ analysts' = {p}
  /\ UNCHANGED <<holder, outcome, sealed>>

RecordOutcome(o) ==
  /\ holder # {}
  /\ outcome = "none"
  /\ o = "result" => analysts = holder
  /\ outcome' = o
  /\ UNCHANGED <<holder, analysts, sealed>>

Seal ==
  /\ outcome # "none"
  /\ ~sealed
  /\ sealed' = TRUE
  /\ UNCHANGED <<holder, analysts, outcome>>

OneTimeNext ==
  \/ \E p \in Proc : Consume(p) \/ Analyse(p)
  \/ \E o \in {"result", "failure"} : RecordOutcome(o)
  \/ Seal

OneTimeSpec == OneTimeInit /\ [][OneTimeNext]_oneTimeVars
=============================================================================
