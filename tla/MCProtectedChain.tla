-------------------------- MODULE MCProtectedChain --------------------------
(* Instances of ProtectedChain for TLC.                                    *)
EXTENDS ProtectedChain, TLC

CONSTANTS Low, Mid, High

\* Every kind once: one straight chain, with every record its people may bind.
MCOneChain == [k \in Kinds |-> 1]

\* Two freezes, and two of what binds them, up to the locked role.
MCTwoFreezes ==
  [k \in Kinds |-> CASE k \in {"candidate", "author", "freeze"} -> 2
                     [] k \in {"locked_execution", "audited"} -> 0
                     [] OTHER -> 1]

\* Two calibrations of which one is certified.
MCTwoCalibrations ==
  [k \in Kinds |-> IF k \in {"calibration_execution", "result", "certificate"}
                  THEN 2 ELSE 1]

MCSymmetry == Permutations(Path) \cup Permutations(Call)

\* Low is the value whose role is judged worst.
MCJudge(values, r) ==
  IF Low \in values THEN "withheld" ELSE IF Mid \in values THEN "k1" ELSE "k0"

MCOutcome == {"k0", "k1", "withheld"}

MCGranting == {"k0", "k1"}
=============================================================================
