--------------------------- MODULE DevelopmentRun ---------------------------
(***************************************************************************)
(* The development runner (benchmarks/runner.py run_development_all) and   *)
(* the two helpers it writes its files with (provenance/io.py).            *)
(*                                                                         *)
(* A run reads its configuration, its seeds, the proposed protocol and the *)
(* sources, computes its benchmarks, and writes a grammar manifest, which  *)
(* all runs share, a ledger, summaries, an error ledger, a preflight       *)
(* report and, last, its own manifest.  A file is claimed by an exclusive  *)
(* creation and filled afterwards.  Runs are concurrent, share directories *)
(* or do not, die anywhere, and their inputs are edited under them.        *)
(***************************************************************************)
EXTENDS Naturals, Sequences, FiniteSets

CONSTANTS
  Runs,           \* invocations of the runner
  NoRun,          \* the owner of a file nobody claimed
  Directories,    \* the directories a run may be told to write to
  Protected,      \* those below a calibration or locked directory
  Refused,        \* the <<input, version>> pairs a run refuses
  EditedInputs,   \* bound: the inputs somebody edits
  MaxVersion      \* bound: the versions of an input

Inputs == {"config", "seeds", "protocol", "source"}

ASSUME NoRunAssumption == NoRun \notin Runs
ASSUME ProtectedAssumption == Protected \subseteq Directories
ASSUME VersionsAssumption ==
  /\ MaxVersion \in Nat \ {0}
  /\ EditedInputs \subseteq Inputs
  /\ Refused \subseteq Inputs \X (1 .. MaxVersion)

VARIABLES
  input,      \* input[i]: the present version of an input
  run,        \* run[r]: where a run is, its arguments and what it has read
  files       \* files[d][f]: who claimed a file, and whether it is filled

vars == <<input, run, files>>

-----------------------------------------------------------------------------
(* Files.  A file is absent, torn (claimed and not filled) or whole.       *)

\* What a run reads, in this order, and what it hashes again at its end.
ReadOrder == <<"config", "seeds", "protocol", "source">>
HashedAgain == <<"config", "seeds", "protocol">>

\* Mutant: the manifest before the preflight report.
WriteOrderManifestEarly == <<"candidate_ledger", "benchmark_summaries",
                "error_fidelity_ledger", "run_manifest", "resource_preflight">>

\* What a run writes after the grammar manifest, in this order.
WriteOrder == <<"candidate_ledger", "benchmark_summaries",
                "error_fidelity_ledger", "resource_preflight", "run_manifest">>

Names == {WriteOrder[k] : k \in DOMAIN WriteOrder}

Absent == [owner |-> NoRun, whole |-> FALSE]

\* The grammar manifest lies beside the directories of the runs.
Shelf == "grammar"

Places == Directories \cup {Shelf}

GrammarManifest == files[Shelf]["grammar_manifest"]

\* The preflight report goes to a directory of its own.
Place(r, f) ==
  CASE f = "grammar_manifest" -> Shelf
    [] f = "resource_preflight" -> run[r].preflight
    [] OTHER -> run[r].output

File(r, f) == files[Place(r, f)][f]

\* The sources and the configuration a run has read.
BasisOf(r) == <<run[r].read["source"], run[r].read["config"]>>

At(r, pc) == run[r].pc = pc

Goto(r, pc) == run' = [run EXCEPT ![r].pc = pc]

\* Mutant: an existing file is opened for writing.
ClaimOverwriting(r, f, next) ==
  /\ files' = [files EXCEPT ![Place(r, f)][f] = [owner |-> r, whole |-> FALSE]]
  /\ Goto(r, next)

\* Mutant: a run waits until the file is gone.
ClaimWaiting(r, f, next) ==
  /\ File(r, f) = Absent
  /\ files' = [files EXCEPT ![Place(r, f)][f].owner = r]
  /\ Goto(r, next)

\* _claim_new_path: an exclusive creation.
Claim(r, f, next) ==
  IF File(r, f) # Absent
  THEN Goto(r, "failed") /\ UNCHANGED files
  ELSE /\ files' = [files EXCEPT ![Place(r, f)][f].owner = r]
       /\ Goto(r, next)

\* write_text and the loop over the rows: the claimed file gets its content.
Fill(r, f) == files' = [files EXCEPT ![Place(r, f)][f].whole = TRUE]

-----------------------------------------------------------------------------
(* A run.                                                                  *)

\* The path guard; the inputs are read afterwards.
Start(r) ==
  /\ At(r, "idle")
  /\ Goto(r, IF {run[r].output, run[r].preflight} \cap Protected # {}
             THEN "failed" ELSE "read")
  /\ UNCHANGED <<input, files>>

\* One input is read, and refused when its content is not what a run takes:
\* another mode or label, a protected role, too few seeds, an approved
\* protocol or one with seed values.
Read(r) ==
  /\ At(r, "read")
  /\ LET i == ReadOrder[run[r].step]
     IN IF <<i, input[i]>> \in Refused
        THEN Goto(r, "failed")
        ELSE run' = [run EXCEPT
               ![r].read[i] = input[i],
               ![r].step = IF @ = Len(ReadOrder) THEN 1 ELSE @ + 1,
               ![r].pc = IF run[r].step = Len(ReadOrder) THEN "grammar" ELSE @]
  /\ UNCHANGED <<input, files>>

\* Mutant: an existing grammar manifest is taken as it is.
CompareGrammarExisting(r) ==
  /\ At(r, "grammar")
  /\ Goto(r, IF GrammarManifest = Absent THEN "claim_grammar"
             ELSE IF GrammarManifest.whole THEN "claim" ELSE "failed")
  /\ UNCHANGED <<input, files>>

\* The benchmarks have run.  An existing grammar manifest must be readable
\* and must name what this run has read.
CompareGrammar(r) ==
  /\ At(r, "grammar")
  /\ IF GrammarManifest = Absent
     THEN Goto(r, "claim_grammar")
     ELSE Goto(r, IF /\ GrammarManifest.whole
                     /\ BasisOf(GrammarManifest.owner) = BasisOf(r)
                  THEN "claim" ELSE "failed")
  /\ UNCHANGED <<input, files>>

ClaimGrammar(r) ==
  /\ At(r, "claim_grammar")
  /\ Claim(r, "grammar_manifest", "fill_grammar")
  /\ UNCHANGED input

FillGrammar(r) ==
  /\ At(r, "fill_grammar")
  /\ Fill(r, "grammar_manifest")
  /\ Goto(r, "claim")
  /\ UNCHANGED input

NextName(r) == WriteOrder[run[r].step]

ClaimOutput(r) ==
  /\ At(r, "claim")
  /\ Claim(r, NextName(r), "fill")
  /\ UNCHANGED input

\* After the preflight report the inputs are hashed again, and the manifest
\* is the last file.
FillOutput(r) ==
  /\ At(r, "fill")
  /\ Fill(r, NextName(r))
  /\ run' = [run EXCEPT
       ![r].pc = CASE NextName(r) = "resource_preflight" -> "hash"
                   [] NextName(r) = "run_manifest" -> "done"
                   [] OTHER -> "claim",
       ![r].step = IF @ = Len(WriteOrder) THEN @ ELSE @ + 1]
  /\ UNCHANGED input

\* sha256_file of the input files for the manifest, one after the other.
HashAgain(r) ==
  /\ At(r, "hash")
  /\ LET k == Cardinality({j \in DOMAIN HashedAgain : run[r].hashed[HashedAgain[j]] # 0}) + 1
         i == HashedAgain[k]
     IN run' = [run EXCEPT
          ![r].hashed[i] = input[i],
          ![r].pc = IF k = Len(HashedAgain) THEN "claim" ELSE @]
  /\ UNCHANGED <<input, files>>

Running == {"read", "grammar", "claim_grammar", "fill_grammar", "claim", "fill",
            "hash"}

\* The process dies, or a benchmark raises.
Die(r) ==
  /\ run[r].pc \in Running
  /\ Goto(r, "failed")
  /\ UNCHANGED <<input, files>>

\* Somebody edits an input.
Edit(i) ==
  /\ input[i] < MaxVersion
  /\ input' = [input EXCEPT ![i] = @ + 1]
  /\ UNCHANGED <<run, files>>

-----------------------------------------------------------------------------
NewRun(output, preflight) ==
  [pc |-> "idle", step |-> 1, output |-> output, preflight |-> preflight,
   read |-> [i \in Inputs |-> 0], hashed |-> [i \in Inputs |-> 0]]

Init ==
  /\ input = [i \in Inputs |-> 1]
  /\ \E output, preflight \in [Runs -> Directories] :
       run = [r \in Runs |-> NewRun(output[r], preflight[r])]
  /\ files = [d \in Places |-> [f \in Names \cup {"grammar_manifest"} |-> Absent]]

RunStep(r) ==
  \/ Start(r)
  \/ Read(r)
  \/ CompareGrammar(r)
  \/ ClaimGrammar(r)
  \/ FillGrammar(r)
  \/ ClaimOutput(r)
  \/ FillOutput(r)
  \/ HashAgain(r)

Next ==
  \/ \E r \in Runs : RunStep(r) \/ Die(r)
  \/ \E i \in EditedInputs : Edit(i)

\* A started run is a running process; it waits for nobody.
Fairness == \A r \in Runs : WF_run(~At(r, "idle") /\ RunStep(r))

Spec == Init /\ [][Next]_vars /\ Fairness

-----------------------------------------------------------------------------
(* Properties.                                                             *)

FileType == [owner : Runs \cup {NoRun}, whole : BOOLEAN]

\* Inputs, runs and files keep their types.
TypeOK ==
  /\ input \in [Inputs -> 1 .. MaxVersion]
  /\ run \in [Runs -> [pc : Running \cup {"idle", "failed", "done"},
                       step : 1 .. Len(WriteOrder),
                       output : Directories, preflight : Directories,
                       read : [Inputs -> 0 .. MaxVersion],
                       hashed : [Inputs -> 0 .. MaxVersion]]]
  /\ files \in [Places -> [Names \cup {"grammar_manifest"} -> FileType]]

Whole(r, f) == File(r, f) = [owner |-> r, whole |-> TRUE]

SealedBy(d) ==
  IF files[d]["run_manifest"].whole THEN files[d]["run_manifest"].owner ELSE NoRun

\* A directory with a run manifest is complete: every file of that run is
\* whole and its own, wherever its preflight report went, and the grammar
\* manifest names what it was computed from.  The manifest is the only sign of
\* completeness there is, for a run may die between any two of its files.
ManifestMeansComplete ==
  \A d \in Directories : SealedBy(d) # NoRun =>
    LET r == SealedBy(d)
    IN /\ run[r].output = d
       /\ \A f \in Names : Whole(r, f)
       /\ GrammarManifest.whole
       /\ BasisOf(GrammarManifest.owner) = BasisOf(r)

\* What a manifest records of its inputs is what the run was computed from.
\* The code does not keep it: an input edited between the two is recorded as
\* if it had been read.
RecordedHashesAreOfWhatWasRead ==
  \A r \in Runs : At(r, "done") =>
    \A k \in DOMAIN HashedAgain :
      run[r].hashed[HashedAgain[k]] = run[r].read[HashedAgain[k]]

\* No file changes hands, and none is changed once it is whole, whoever
\* writes to the same directory: a rerun never replaces what a dead run left.
FilesAreNeverReplaced ==
  [][\A d \in Places : \A f \in Names \cup {"grammar_manifest"} :
       /\ files[d][f].owner # NoRun => files'[d][f].owner = files[d][f].owner
       /\ files[d][f].whole => files'[d][f].whole]_files

\* Every started run ends, whatever the others leave in its way.
EveryRunEnds == \A r \in Runs : run[r].pc \in Running ~> run[r].pc \in {"failed", "done"}

\* The runs keep what a series of runs promises.
SealedBasis ==
  LET sealers == {SealedBy(d) : d \in Directories} \ {NoRun}
  IN IF sealers = {} THEN <<0, 0>> ELSE BasisOf(CHOOSE r \in sealers : TRUE)

Series == INSTANCE SharedGrammar WITH
  Bases <- (1 .. MaxVersion) \X (1 .. MaxVersion),
  NoBasis <- <<0, 0>>,
  basis <- SealedBasis,
  sealed <- [d \in Directories |-> SealedBy(d)]

SeriesSpec == Series!Spec

=============================================================================
