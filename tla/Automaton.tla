----------------------------- MODULE Automaton -----------------------------
(***************************************************************************)
(* Elementary cellular automata (eca/core.py, eca/inference.py) and the    *)
(* two development benchmarks about them (benchmarks/a.py): A0 runs two    *)
(* simulators that share no code side by side, A1 recovers the rule that   *)
(* generated a set of transitions without being told which one it was.     *)
(*                                                                         *)
(* A row of w cells is a function on 0 .. w - 1.                           *)
(***************************************************************************)
EXTENDS Integers, Sequences, FiniteSets

CONSTANTS
  Widths,       \* the numbers of cells a row may have in A0
  Horizon       \* the steps A0 simulates

ASSUME WidthsAssumption == Widths \subseteq Nat \ {0}
ASSUME HorizonAssumption == Horizon \in Nat

Bit == 0 .. 1
Rules == 0 .. 255
Boundaries == {"periodic", "fixed_zero", "fixed_one", "reflect"}
Rows(w) == [0 .. w - 1 -> Bit]

-----------------------------------------------------------------------------
(* The reference simulator: cell by cell, by a table of neighbourhoods.    *)

ReferenceNeighbor(row, w, i, edge) ==
  CASE i \in 0 .. w - 1 -> row[i]
    [] i \notin 0 .. w - 1 /\ edge = "periodic" -> row[i % w]
    [] i \notin 0 .. w - 1 /\ edge = "fixed_zero" -> 0
    [] i \notin 0 .. w - 1 /\ edge = "fixed_one" -> 1
    [] i \notin 0 .. w - 1 /\ edge = "reflect" ->
         IF i < 0 THEN row[0] ELSE row[w - 1]

\* The binary digits of a rule number, the most significant one first.
OutputBits(k) ==
  <<(k \div 128) % 2, (k \div 64) % 2, (k \div 32) % 2,
    (k \div 16) % 2, (k \div 8) % 2, (k \div 4) % 2,
    (k \div 2) % 2, k % 2>>

WolframOrder == <<<<1, 1, 1>>, <<1, 1, 0>>, <<1, 0, 1>>, <<1, 0, 0>>,
                  <<0, 1, 1>>, <<0, 1, 0>>, <<0, 0, 1>>, <<0, 0, 0>>>>

ReferenceOutput(k, left, center, right) ==
  OutputBits(k)[CHOOSE p \in 1 .. 8 : WolframOrder[p] = <<left, center, right>>]

StepReference(k, row, w, edge) ==
  [i \in 0 .. w - 1 |->
     ReferenceOutput(k, ReferenceNeighbor(row, w, i - 1, edge), row[i],
                     ReferenceNeighbor(row, w, i + 1, edge))]

-----------------------------------------------------------------------------
(* The production simulator: whole shifted rows, by the bits of the rule.  *)

\* Mutant: the reflection repeats the other end of the row.
VectorizedLeftReflected(row, w, edge) ==
  [i \in 0 .. w - 1 |->
     IF i > 0 THEN row[i - 1]
     ELSE CASE edge \in {"periodic", "reflect"} -> row[w - 1]
            [] edge = "fixed_zero" -> 0
            [] edge = "fixed_one" -> 1]

VectorizedLeft(row, w, edge) ==
  [i \in 0 .. w - 1 |->
     IF i > 0 THEN row[i - 1]
     ELSE CASE edge = "periodic" -> row[w - 1]
            [] edge = "fixed_zero" -> 0
            [] edge = "fixed_one" -> 1
            [] edge = "reflect" -> row[0]]

VectorizedRight(row, w, edge) ==
  [i \in 0 .. w - 1 |->
     IF i < w - 1 THEN row[i + 1]
     ELSE CASE edge = "periodic" -> row[0]
            [] edge = "fixed_zero" -> 0
            [] edge = "fixed_one" -> 1
            [] edge = "reflect" -> row[w - 1]]

PowerOfTwo == [n \in 0 .. 8 |->
  CASE n = 0 -> 1 [] n = 1 -> 2 [] n = 2 -> 4 [] n = 3 -> 8 [] n = 4 -> 16
    [] n = 5 -> 32 [] n = 6 -> 64 [] n = 7 -> 128 [] n = 8 -> 256]

RuleBit(k, n) == (k \div PowerOfTwo[n]) % 2

RuleOutput(k, left, center, right) == RuleBit(k, 4 * left + 2 * center + right)

StepVectorized(k, row, w, edge) ==
  LET left == VectorizedLeft(row, w, edge)
      right == VectorizedRight(row, w, edge)
  IN [i \in 0 .. w - 1 |-> RuleOutput(k, left[i], row[i], right[i])]

-----------------------------------------------------------------------------
(* Recovery of the rule from transitions.                                  *)

\* The neighbour is looked up by code of its own, the same way.
NeighborhoodOf(row, w, i, edge) ==
  <<ReferenceNeighbor(row, w, i - 1, edge), row[i],
    ReferenceNeighbor(row, w, i + 1, edge)>>

\* Mutant: the last cell of a row is not compared.
RuleMatchesButLast(k, shown, w, edge) ==
  \A o \in shown : \A i \in 0 .. w - 2 :
    LET n == NeighborhoodOf(o.previous, w, i, edge)
    IN RuleOutput(k, n[1], n[2], n[3]) = o.following[i]

RuleMatches(k, shown, w, edge) ==
  \A o \in shown : \A i \in 0 .. w - 1 :
    LET n == NeighborhoodOf(o.previous, w, i, edge)
    IN RuleOutput(k, n[1], n[2], n[3]) = o.following[i]

RecoverConsistentRules(shown, w, edge) ==
  {k \in Rules : RuleMatches(k, shown, w, edge)}

\* The eight rows A1 observes: a neighbourhood between two dead borders.
A1Width == 5
A1Row(n) == [i \in 0 .. A1Width - 1 |->
  CASE i = 1 -> (n \div 4) % 2 [] i = 2 -> (n \div 2) % 2 [] i = 3 -> n % 2
    [] OTHER -> 0]

-----------------------------------------------------------------------------
VARIABLES
  task,         \* the benchmark that runs
  rule,         \* the generating rule
  boundary,
  width,        \* the cells of a row
  reference,    \* the rows the two simulators have reached
  vectorized,
  time,         \* the steps done
  observed,     \* A1: the transitions shown to the inference so far
  recovered     \* A1: what the inference makes of them

automatonVars == <<task, rule, boundary, width, reference, vectorized, time,
                   observed, recovered>>

NoTask ==
  /\ task = "none"
  /\ rule = 0 /\ boundary = "periodic" /\ width = A1Width /\ time = 0
  /\ reference = A1Row(0) /\ vectorized = A1Row(0)
  /\ observed = {} /\ recovered = {}

AutomatonInit ==
  \/ /\ task = "A0"
     /\ rule \in Rules /\ boundary \in Boundaries
     /\ width \in Widths
     /\ reference \in Rows(width) /\ vectorized = reference
     /\ time = 0 /\ observed = {} /\ recovered = {}
  \/ /\ task = "A1"
     /\ rule \in Rules /\ boundary = "fixed_zero"
     /\ width = A1Width
     /\ reference = A1Row(0) /\ vectorized = A1Row(0)
     /\ time = 0 /\ observed = {} /\ recovered = Rules

\* simulate_reference and simulate_vectorized, one step of each.
Simulate ==
  /\ task = "A0"
  /\ time < Horizon
  /\ reference' = StepReference(rule, reference, width, boundary)
  /\ vectorized' = StepVectorized(rule, vectorized, width, boundary)
  /\ time' = time + 1
  /\ UNCHANGED <<task, rule, boundary, width, observed, recovered>>

\* One more row is shown, with its successor, and the rules are recovered from
\* all of them.
Observe ==
  /\ task = "A1"
  /\ time < 8
  /\ observed' = observed \cup
       {[previous |-> A1Row(time),
         following |-> StepVectorized(rule, A1Row(time), width, boundary)]}
  /\ recovered' = RecoverConsistentRules(observed', width, boundary)
  /\ time' = time + 1
  /\ UNCHANGED <<task, rule, boundary, width, reference, vectorized>>

AutomatonNext == Simulate \/ Observe

AutomatonSpec == AutomatonInit /\ [][AutomatonNext]_automatonVars

-----------------------------------------------------------------------------
(* Properties.                                                             *)

\* The two simulators, one by a table and cell by cell, one by shifted rows
\* and the bits of the rule number, never part: any rule, boundary, row and
\* width, the one-cell row that is its own neighbour included.
SimulatorsAgree == task = "A0" => reference = vectorized

NeighborhoodsSeen ==
  {NeighborhoodOf(o.previous, width, i, boundary) :
     o \in observed, i \in 0 .. width - 1}

\* What the inference keeps is exactly what the evidence allows: the rule that
\* generated it, and one alternative for each choice of outputs of the
\* neighbourhoods that were not seen.  When all were seen the rule is alone.
RecoveryIsExact ==
  task = "A1" /\ time > 0 =>
    /\ rule \in recovered
    /\ Cardinality(recovered) = PowerOfTwo[8 - Cardinality(NeighborhoodsSeen)]
    /\ time = 8 => recovered = {rule}

=============================================================================
