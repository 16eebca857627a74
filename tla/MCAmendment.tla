---------------------------- MODULE MCAmendment ----------------------------
(* An instance of Amendment for TLC: a tree of seven files.                *)
EXTENDS Amendment

CONSTANTS Engine, Probe, Plumbing, Tool, Protocol, Paper, Role, Original, Changed

\* Probe would be a new file of the scientific engine, Tool is one that only
\* the amended runtime has.
MCBase ==
  [f \in File |-> IF f \in {Probe, Tool} THEN Absent ELSE Original]

MCBaseAllowlist == {{Engine, Probe}, {Plumbing}}

MCAllowlists ==
  {MCBaseAllowlist, MCBaseAllowlist \cup {{Tool}}, {{Engine, Probe}, {Tool}}}

MCV22Allowed == {Plumbing}

MCScience == {{Engine, Probe}, {Protocol}, {Paper}}

MCReviewed == [f \in {Paper, Role} |-> Original]
=============================================================================
