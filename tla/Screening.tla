----------------------------- MODULE Screening -----------------------------
(***************************************************************************)
(* The screening of candidates in development: the error budget a screen   *)
(* spends (bounds/statistics.py AlphaLedger), the class decision that must *)
(* rest on it (inference/inadequacy.py), and the two numerical checks next *)
(* to it: the propagated bound of benchmark C (coarse_graining/formal.py)  *)
(* and the fidelity assessment of the runner (fidelity/ledger.py).         *)
(*                                                                         *)
(* One allocation is 6 alpha / (candidates gates pi^2 look^2).  The global *)
(* alpha is counted in Units of 6 / pi^2 parts: an allocation is Units     *)
(* divided by candidates, gates and look^2, and the budget is the integer  *)
(* part of Units pi^2 / 6, which no sum of integers can tell from it.      *)
(***************************************************************************)
EXTENDS Integers, Sequences, FiniteSets, Functions

CONSTANTS
  Candidates,     \* the candidates of a screen, each a class of its own
  Gates,          \* the gates each of them passes
  MaxLook,        \* bound: the looks at one gate
  Declarations,   \* the <<candidates, gates>> a caller may declare
  Units,          \* divisible by every candidates * gates * look^2
  Budget,         \* the integer part of Units * pi^2 / 6
  Multipliers,    \* bound: the integers benchmark C is tried with
  MaxSteps,       \* bound: the steps of C
  Values          \* bound: the observables of the fidelity fixture

ASSUME CountsAssumption ==
  /\ IsFiniteSet(Candidates) /\ Candidates # {}
  /\ IsFiniteSet(Gates) /\ Gates # {}
  /\ MaxLook \in Nat /\ MaxSteps \in Nat
ASSUME UnitsAssumption ==
  /\ Units \in Nat /\ Budget \in Nat
  /\ Declarations \subseteq (Nat \ {0}) \X (Nat \ {0})
  /\ \A d \in Declarations : \A look \in 1 .. MaxLook :
       Units % (d[1] * d[2] * look * look) = 0
\* 1.644934 < pi^2 / 6 < 1.644935
ASSUME BudgetAssumption ==
  /\ 1644934 * Units < 1000000 * (Budget + 1)
  /\ 1000000 * Budget < 1644935 * Units
ASSUME ValuesAssumption ==
  Multipliers \subseteq Int /\ Values \subseteq Nat

VARIABLES
  screen,       \* what is screened: nothing, a class, or one of the checks
  declared,     \* the numbers of candidates and gates the caller declares
  allocations,  \* the ledger: what each <<candidate, gate, look>> got
  refused,      \* whether an allocation was refused for the budget
  bounds,       \* the lower bounds: None, 0 (at most the threshold) or 1
  failures,     \* the candidates whose execution failed
  decision,     \* the class decision, or the fidelity action
  scalar        \* C: the two trajectories, the bound and the steps done

screeningVars == <<screen, declared, allocations, refused, bounds, failures,
                   decision, scalar>>

None == -1
Keys == Candidates \X Gates \X (1 .. MaxLook)

-----------------------------------------------------------------------------
(* The ledger and the class decision.                                      *)

\* Mutant: the looks are not squared.
AlphaPerLook(look) == Units \div (declared[1] * declared[2] * look)

Alpha(look) == Units \div (declared[1] * declared[2] * look * look)

\* The parts given out.  No allocation exceeds the Units: they are counted
\* one by one.
Total(ledger) ==
  Cardinality({u \in (DOMAIN ledger) \X (1 .. Units) : u[2] <= ledger[u[1]]})

\* is_complete, for the keys the caller expects: one look at each gate.
Expected == Candidates \X Gates \X (1 .. 1)

\* Mutant: the keys are compared, the total is not.
CompleteByKeys == DOMAIN allocations = Expected

Complete ==
  /\ DOMAIN allocations = Expected
  /\ Total(allocations) <= Budget

\* allocate: the allocation is recorded, and refused afterwards.
Allocate ==
  /\ screen = "class"
  /\ decision = "none"
  /\ \E k \in Keys \ DOMAIN allocations :
       LET ledger == [j \in DOMAIN allocations \cup {k} |->
                        IF j = k THEN Alpha(k[3]) ELSE allocations[j]]
       IN /\ allocations' = ledger
          /\ refused' = (refused \/ Total(ledger) > Budget)
  /\ UNCHANGED <<screen, declared, bounds, failures, decision, scalar>>

\* one_sided_lower_loss of a candidate whose execution did not fail.
Bound ==
  /\ screen = "class"
  /\ decision = "none"
  /\ \E c \in Candidates \ failures : \E b \in 0 .. 1 :
       /\ bounds[c] = None
       /\ bounds' = [bounds EXCEPT ![c] = b]
  /\ UNCHANGED <<screen, declared, allocations, refused, failures, decision, scalar>>

Fail ==
  /\ screen = "class"
  /\ decision = "none"
  /\ \E c \in Candidates \ failures :
       /\ bounds[c] = None
       /\ failures' = failures \cup {c}
  /\ UNCHANGED <<screen, declared, allocations, refused, bounds, decision, scalar>>

\* decide_class_inadequacy over singleton classes.
ClassDecision(representatives, exact) ==
  IF \/ failures # {}
     \/ ~Complete
     \/ ~(representatives \subseteq exact)
     \/ \E c \in Candidates : bounds[c] = None
  THEN "INDETERMINATE"
  ELSE IF \A c \in Candidates : bounds[c] > 0
  THEN "MODEL_CLASS_INADEQUATE" ELSE "RETAIN_CLASS"

Decide ==
  /\ screen = "class"
  /\ decision = "none"
  /\ \E representatives, exact \in {{}, Candidates} :
       decision' = ClassDecision(representatives, exact)
  /\ UNCHANGED <<screen, declared, allocations, refused, bounds, failures, scalar>>

-----------------------------------------------------------------------------
(* Benchmark C: a bound carried along two scalar trajectories.             *)

Magnitude(n) == IF n < 0 THEN -n ELSE n

NoScalar == [reference |-> 0, candidate |-> 0, multipliers |-> <<0, 0>>,
             bound |-> 0, steps |-> 0]

\* Mutant: the factor keeps its sign.
PropagateSigned ==
  /\ screen = "scalar"
  /\ scalar.steps < MaxSteps
  /\ LET a == scalar.multipliers[1]
         b == scalar.multipliers[2]
     IN scalar' = [scalar EXCEPT
          !.reference = a * @,
          !.candidate = b * @,
          !.bound = a * @ + Magnitude(a * scalar.candidate - b * scalar.candidate),
          !.steps = @ + 1]
  /\ UNCHANGED <<screen, declared, allocations, refused, bounds, failures, decision>>

\* path_error_bound, one factor and one local error at a time.
Propagate ==
  /\ screen = "scalar"
  /\ scalar.steps < MaxSteps
  /\ LET a == scalar.multipliers[1]
         b == scalar.multipliers[2]
     IN scalar' = [scalar EXCEPT
          !.reference = a * @,
          !.candidate = b * @,
          !.bound = Magnitude(a) * @ + Magnitude(a * scalar.candidate - b * scalar.candidate),
          !.steps = @ + 1]
  /\ UNCHANGED <<screen, declared, allocations, refused, bounds, failures, decision>>

-----------------------------------------------------------------------------
(* The fidelity fixture of the runner: the interval is the refined value.  *)

Above(value, threshold) == value >= threshold

\* Mutant: an interval that only touches the threshold does not count.
AssessRefinementTouching(fast, refined, threshold, tolerance) ==
  IF \/ Magnitude(refined - fast) > tolerance
     \/ refined - tolerance < threshold /\ threshold < refined + tolerance
     \/ Above(fast, threshold) # Above(refined, threshold)
  THEN "REFINE" ELSE "FAST_TIER_STABLE"

AssessRefinement(fast, refined, threshold, tolerance) ==
  IF \/ Magnitude(refined - fast) > tolerance
     \/ refined - tolerance <= threshold /\ threshold <= refined + tolerance
     \/ Above(fast, threshold) # Above(refined, threshold)
  THEN "REFINE" ELSE "FAST_TIER_STABLE"

Assess ==
  /\ screen = "fidelity"
  /\ decision = "none"
  /\ decision' = AssessRefinement(declared[1], declared[2], declared[3], declared[4])
  /\ UNCHANGED <<screen, declared, allocations, refused, bounds, failures, scalar>>

-----------------------------------------------------------------------------
NoScreen ==
  /\ allocations = [k \in {} |-> 0]
  /\ refused = FALSE
  /\ bounds = [c \in Candidates |-> None]
  /\ failures = {}
  /\ decision = "none"

ScreeningInit ==
  /\ NoScreen
  /\ \/ /\ screen = "class"
        /\ declared \in Declarations
        /\ scalar = NoScalar
     \/ /\ screen = "scalar"
        /\ declared = <<>>
        /\ \E a, b, x, y \in Multipliers :
             scalar = [reference |-> x, candidate |-> y, multipliers |-> <<a, b>>,
                       bound |-> Magnitude(x - y), steps |-> 0]
     \/ /\ screen = "fidelity"
        /\ declared \in Values \X Values \X Values \X Values
        /\ scalar = NoScalar

ScreeningNext == Allocate \/ Bound \/ Fail \/ Decide \/ Propagate \/ Assess

ScreeningSpec == ScreeningInit /\ [][ScreeningNext]_screeningVars

-----------------------------------------------------------------------------
(* Properties.                                                             *)

\* A ledger that was overdrawn never carries a decision: the allocation that
\* was refused stays in it, so it is never complete again.
OverdrawnNeverDecides ==
  refused => decision \notin {"MODEL_CLASS_INADEQUATE", "RETAIN_CLASS"}

\* A caller that declares all its candidates and gates is never refused, in
\* whatever order it looks and however often: the sum over all looks stays
\* below the global alpha.
HonestCallersAreNeverRefused ==
  screen = "class" /\ declared = <<Cardinality(Candidates), Cardinality(Gates)>> =>
    ~refused

\* The propagated bound covers the distance of the two trajectories at every
\* step, whatever the signs and sizes of the factors.
BoundCoversDistance ==
  Magnitude(scalar.reference - scalar.candidate) <= scalar.bound

\* When the fast tier is called stable, every value within the tolerance of
\* the refined one leads to the same decision.
StableMeansRobust ==
  screen = "fidelity" /\ decision = "FAST_TIER_STABLE" =>
    LET refined == declared[2]
        threshold == declared[3]
        tolerance == declared[4]
    IN \A v \in refined - tolerance .. refined + tolerance :
         Above(v, threshold) = Above(declared[1], threshold)

=============================================================================
