--------------------------- MODULE SharedGrammar ---------------------------
(***************************************************************************)
(* What a series of development runs promises to whoever reads its         *)
(* directories: a directory is sealed once, by one run, and every sealed   *)
(* directory of the series was produced from one basis, the sources and    *)
(* the configuration that the shared grammar manifest names.               *)
(***************************************************************************)
CONSTANTS Directories, Runs, NoRun, Bases, NoBasis

VARIABLES basis, sealed

vars == <<basis, sealed>>

Init ==
  /\ basis = NoBasis
  /\ sealed = [d \in Directories |-> NoRun]

\* The first directory that is sealed chooses the basis of all others.
Seal(d, r) ==
  /\ sealed[d] = NoRun
  /\ sealed' = [sealed EXCEPT ![d] = r]
  /\ basis' \in IF basis = NoBasis THEN Bases ELSE {basis}

Next == \E d \in Directories, r \in Runs : Seal(d, r)

Spec == Init /\ [][Next]_vars

=============================================================================
