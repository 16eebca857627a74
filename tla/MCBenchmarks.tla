--------------------------- MODULE MCBenchmarks ---------------------------
(* The benchmarks of a development run, one at a time: they share no state *)
(* and a run calls them one after another.                                 *)
EXTENDS Automaton, Screening

Init ==
  \/ AutomatonInit /\ NoScreen /\ screen = "none" /\ declared = <<>> /\ scalar = NoScalar
  \/ ScreeningInit /\ NoTask

Next ==
  \/ AutomatonNext /\ UNCHANGED screeningVars
  \/ ScreeningNext /\ UNCHANGED automatonVars

Spec == Init /\ [][Next]_<<automatonVars, screeningVars>>

MCDeclarations == {<<2, 1>>, <<1, 1>>}
MCMultipliers == -2 .. 2
MCWidths == 1 .. 4
MCValues == 0 .. 4
=============================================================================
