--------------------------- MODULE LockedReview ---------------------------
(***************************************************************************)
(* A locked result from its computation to its review: the analysis of     *)
(* pipelines/protected.py computes and validates the eleven endpoints and  *)
(* leaves a result or a failure record, and invocations of the read-only   *)
(* audit tool (tools/recompute_locked_result_readonly_v2_4.py) read that   *)
(* file twice, judge it and seal an output directory with a manifest.      *)
(* Invocations may share the output directory, the file may be altered or  *)
(* replaced before, between and after their reads, and they may die.       *)
(***************************************************************************)
EXTENDS Recomputation, Sequences

CONSTANTS
  Tools,        \* invocations of the audit tool
  NoTool,       \* the owner of a file nobody created
  DerivedFiles, \* the derived files, in the order they are written
  Subjects,     \* the endpoints whose evaluators may disagree
  RaceSubject,  \* bound: the endpoint whose clean result is fought over
  MaxEdits      \* bound: the edits of the source file

ASSUME NoToolAssumption == NoTool \notin Tools
ASSUME DerivedFilesAssumption ==
  /\ DerivedFiles \in Seq(STRING)
  /\ \A k \in DOMAIN DerivedFiles : DerivedFiles[k] # "manifest"
ASSUME SubjectsAssumption == Subjects \subseteq Endpoints
ASSUME MaxEditsAssumption == MaxEdits \in Nat

VARIABLES
  subject,      \* the endpoint under test and what its evaluators return
  source,       \* the result or failure file: its kind, bytes and inode
  contents,     \* contents[v]: what version v of the file holds, and its judgement
  edits,        \* how many times somebody changed the file
  tool,         \* tool[t]: where invocation t is and what it holds
  files         \* files[f]: who created a file of the output directory

vars == <<subject, source, contents, edits, tool, files>>

-----------------------------------------------------------------------------
(* The locked analysis.                                                    *)

\* Evaluators that agree and give what the endpoint hopes for; the two states
\* of the rule 90 witness lead to four live cells and to none.
Clean(e, w) ==
  LET r == Run(e, w)
  IN /\ r.numerator = 0
     /\ \A i \in DOMAIN r.fidelity_records : r.fidelity_records[i].status = "PASS"
     /\ e = "D1" => w.registered = <<4, 0>>

\* The protocol can be met: every endpoint has evaluators that please it.
ASSUME CleanAssumption == \A e \in Endpoints : \E w \in Worlds(e) : Clean(e, w)

CleanWorlds == [e \in Endpoints |-> CHOOSE w \in Worlds(e) : Clean(e, w)]

CleanResults ==
  [e \in Endpoints |-> BindSnapshots(Run(e, CleanWorlds[e]))]

\* _run_locked_endpoint_set: one endpoint is under test, the others are clean.
ResultsWith(result) == [CleanResults EXCEPT ![subject.endpoint] = result]

LockedEndpointSet ==
  ResultsWith(BindSnapshots(Run(subject.endpoint, subject.world)))

\* Identity and provenance fields are whole or not, endpoints in order or not;
\* a synthetic fixture is labelled and says that it is no evidence; the
\* endpoint under test may be missing.
Bundle(result, synthetic) ==
  [label |-> IF synthetic THEN "TEST_ONLY_SYNTHETIC" ELSE "PROTECTED_RESULT",
   evidence |-> ~synthetic, identified |-> TRUE, ordered |-> TRUE,
   complete |-> TRUE, result |-> result]

ResultsIn(b) ==
  IF b.complete THEN ResultsWith(b.result)
  ELSE [f \in Endpoints \ {subject.endpoint} |-> CleanResults[f]]

\* Bound: one difficulty at a time.  Crashes, concurrent invocations and edits
\* under an invocation happen to one clean result, where only whole-file
\* alterations matter; every other result gets one invocation, and any
\* alteration before it when one block, at most, is not clean.
Racing == subject.raced

SoleTool == CHOOSE t \in Tools : TRUE

Alterable ==
  LET w == subject.world
      clean == CleanWorlds[subject.endpoint]
  IN CASE subject.endpoint \in {"D1", "D2-MEM"} -> TRUE
       [] subject.endpoint = "C" ->
            Cardinality({k \in Cases : w.paths[k] # clean.paths[k]}) <= 1
       [] OTHER -> Cardinality({i \in DOMAIN w : w[i] # clean[i]}) <= 1

\* _audit_result over a bundle.
Acceptable(b) ==
  /\ b.identified
  /\ b.evidence = (b.label # "TEST_ONLY_SYNTHETIC")
  /\ b.ordered
  /\ AuditPasses(ResultsIn(b))

\* The judgement is a function of the bytes an invocation reads, and is kept
\* beside them.
Version(b) == [bundle |-> b, acceptable |-> Acceptable(b)]

Source(kind) == [kind |-> kind, version |-> 1, inode |-> 1]

Reportable(results) == ValidResults(results) /\ Serialisable(results)

\* The validated result, or the record that there is none.
Analyse ==
  /\ source.kind = "none"
  /\ LET results == LockedEndpointSet
     IN IF Reportable(results)
        THEN /\ source' = Source("result")
             /\ \E synthetic \in {FALSE} \cup {u \in {TRUE} : Racing} :
                  contents' = <<Version(Bundle(results[subject.endpoint], synthetic))>>
        ELSE /\ source' = Source("failure")
             /\ UNCHANGED contents
  /\ UNCHANGED <<subject, edits, tool, files>>

\* The process dies while it writes the result.
DieWriting ==
  /\ Racing
  /\ source.kind = "none"
  /\ source' = Source("torn")
  /\ UNCHANGED <<subject, contents, edits, tool, files>>

-----------------------------------------------------------------------------
(* Edits of the source: a single field, a row, an endpoint, or the file.   *)

RowValues(e) ==
  CASE e = "A0" -> {<<"rule_id", Candidates>>, <<"canonical_signature", 0 .. 2>>,
                    <<"failure_code", FailureCodes>>}
    [] e = "A1" -> {<<"candidate_losses", Losses>>, <<"truth_rule", Candidates>>,
                    <<"retained_candidates", SUBSET Candidates>>,
                    <<"truth_candidate_retained", BOOLEAN>>,
                    <<"truth_class_retained", BOOLEAN>>,
                    <<"failure_event", BOOLEAN>>,
                    <<"failure_code", FailureCodes \cup {None}>>}
    [] e \in {"B0", "B1"} ->
                   {<<"candidate_exact_lower_bounds", Losses>>,
                    <<"class_lower_bounds", Losses>>,
                    <<"decision", {"MODEL_CLASS_INADEQUATE", "RETAIN_CLASS"}>>,
                    <<"failure_event", BOOLEAN>>,
                    <<"failure_code", FailureCodes \cup {None}>>}
    [] e = "C" -> {<<"domain_exit", BOOLEAN>>, <<"clipping_applied", {TRUE}>>,
                   <<"path", {CCase(path).path : path \in Paths}>>}
    [] e = "D0" -> {<<"full_microstate_identity", BOOLEAN>>,
                    <<"failure_code", FailureCodes \cup {None}>>}
    [] e = "D1" -> {<<"next_density", CellCounts>>}
    [] e = "D2-CERT" -> {<<"maximum_density_discrepancy", 0 .. 2>>,
                         <<"violation", BOOLEAN>>,
                         <<"failure_code", FailureCodes \cup {None}>>}
    [] e = "D2-MEM" -> {<<"coarse_sequence", {<<0, 0, 0, 0>>, <<0, 1, 1, 0>>}>>}
    [] e = "E" -> {<<"policy_results",
                     {[p \in Policies |-> PolicyRow(p, w)] : w \in EBlockWorld}>>,
                   <<"all_policies_match_exhaustive", BOOLEAN>>,
                   <<"hidden_cost_detected", {TRUE}>>,
                   <<"failure_code", FailureCodes \cup {None}>>}
    [] e = "F0" -> {<<"detected_template", {"expected", "another", None}>>,
                    <<"similar", BOOLEAN>>, <<"template_conformance", BOOLEAN>>,
                    <<"failure_code", FailureCodes \cup {None}>>}

FidelityValues ==
  {<<"status", {"PASS", "FIDELITY_INDETERMINATE"}>>,
   <<"observable_changed", BOOLEAN>>, <<"decision_changed", BOOLEAN>>,
   <<"frozen_contract_snapshot", {None}>>}

\* Rows of one endpoint are judged alike: altering one of them is enough.
SomeRow(rows) == CHOOSE i \in DOMAIN rows : TRUE

RowWith(rows, i, change) ==
  {[rows EXCEPT ![i] = [@ EXCEPT ![change[1]] = v]] : v \in change[2]}

RowChanges(rows, changes) ==
  (UNION {RowWith(rows, SomeRow(rows), change) : change \in changes})
    \cup {[i \in DOMAIN rows \ {SomeRow(rows)} |-> rows[i]]}

ResultChanges(e, r) ==
  {[r EXCEPT !.block_records = rows] : rows \in RowChanges(r.block_records, RowValues(e))}
    \cup {[r EXCEPT !.fidelity_records = rows] :
            rows \in RowChanges(r.fidelity_records, FidelityValues)}
    \cup {[r EXCEPT !.status = v] : v \in {"PASS", "FAIL"}}
    \cup {[r EXCEPT !.numerator = v] : v \in 0 .. r.denominator}
    \cup {[r EXCEPT !.denominator = v] : v \in 0 .. r.denominator}

BundleChanges(b, e) ==
  IF Racing
  THEN {[b EXCEPT !.label = "TEST_ONLY_SYNTHETIC", !.evidence = FALSE],
        [b EXCEPT !.result.numerator = @ + 1]}
  ELSE {[b EXCEPT !.evidence = ~@],
        [b EXCEPT !.identified = FALSE], [b EXCEPT !.ordered = FALSE],
        [b EXCEPT !.complete = FALSE]}
         \cup {[b EXCEPT !.result = r] : r \in ResultChanges(e, b.result)}

Idle == \A t \in Tools : tool[t].pc = "idle"

\* Somebody rewrites a part of the file in place.
Alter ==
  /\ source.kind = "result"
  /\ edits < MaxEdits
  /\ Len(contents) = 1
  /\ Idle \/ Racing
  /\ Alterable
  /\ \E b \in BundleChanges(contents[1].bundle, subject.endpoint) \ {contents[1].bundle} :
       contents' = Append(contents, Version(b))
  /\ source' = [source EXCEPT !.version = 2]
  /\ edits' = edits + 1
  /\ UNCHANGED <<subject, tool, files>>

\* Somebody puts a copy in its place, or the first version back.
Replace ==
  /\ source.kind \in {"result", "failure"}
  /\ edits < MaxEdits
  /\ Racing
  /\ \E v \in {1, source.version} :
       source' = [source EXCEPT !.version = v, !.inode = @ + 1]
  /\ edits' = edits + 1
  /\ UNCHANGED <<subject, contents, tool, files>>

-----------------------------------------------------------------------------
(* The audit tool.                                                         *)

Outputs == {"directory", "manifest", "NOT_APPLICABLE_NO_RESULT"}
             \cup {DerivedFiles[k] : k \in DOMAIN DerivedFiles}

Missing == [owner |-> NoTool, whole |-> FALSE]

\* What an invocation writes before its manifest.
ToWrite(t) ==
  IF tool[t].kind = "failure" THEN <<"NOT_APPLICABLE_NO_RESULT">> ELSE DerivedFiles

NewTool == [pc |-> "idle", kind |-> "none", synthetic |-> FALSE,
            expected |-> "any", first |-> <<0, 0>>, blocking |-> FALSE,
            written |-> 0, status |-> "none", exit |-> 0]

\* Mutant: an exception is reported like a blocking verdict.
RaisedAsBlocking(t) == tool' = [tool EXCEPT ![t].pc = "done", ![t].exit = 2]

\* main: any exception ends the invocation with exit code 3.
Raised(t) == tool' = [tool EXCEPT ![t].pc = "done", ![t].exit = 3]

At(t, pc) == tool[t].pc = pc

\* The output directory must be new; its creation comes much later.
Open(t) ==
  /\ At(t, "idle")
  /\ source.kind # "none"
  /\ Racing \/ t = SoleTool
  /\ IF files["directory"] # Missing
     THEN Raised(t)
     ELSE \E synthetic \in BOOLEAN, expected \in {"any", "original"} :
            /\ Racing \/ (~synthetic /\ expected = "any")
            /\ tool' = [tool EXCEPT ![t].pc = "read", ![t].synthetic = synthetic,
                                    ![t].expected = expected]
  /\ UNCHANGED <<subject, source, contents, edits, files>>

LabelOf(v) == IF source.kind = "result" THEN contents[v].bundle.label ELSE None

\* The first read; an unreadable file or the wrong mode is an exception.
ReadSource(t) ==
  /\ At(t, "read")
  /\ IF \/ source.kind = "torn"
        \/ tool[t].synthetic # (LabelOf(source.version) = "TEST_ONLY_SYNTHETIC")
     THEN Raised(t)
     ELSE tool' = [tool EXCEPT
            ![t].pc = "reread",
            ![t].kind = source.kind,
            ![t].first = <<source.version, source.inode>>,
            ![t].blocking =
              \/ tool[t].expected = "original" /\ source.version # 1
              \/ source.kind = "result" /\ ~contents[source.version].acceptable]
  /\ UNCHANGED <<subject, source, contents, edits, files>>

\* The second read: other bytes or another inode block.
ReadAgain(t) ==
  /\ At(t, "reread")
  /\ tool' = [tool EXCEPT ![t].pc = "mkdir",
                ![t].blocking = @ \/ tool[t].first # <<source.version, source.inode>>]
  /\ UNCHANGED <<subject, source, contents, edits, files>>

\* os.mkdir and O_EXCL: a name is created once.
CreateExclusively(t, f) ==
  files' = [files EXCEPT ![f] = [owner |-> t, whole |-> TRUE]]

\* Mutant: an invocation waits until the directory is gone.
MakeDirectoryWaiting(t) ==
  /\ At(t, "mkdir")
  /\ files["directory"] = Missing
  /\ CreateExclusively(t, "directory")
  /\ tool' = [tool EXCEPT ![t].pc = "write"]
  /\ UNCHANGED <<subject, source, contents, edits>>

MakeDirectory(t) ==
  /\ At(t, "mkdir")
  /\ IF files["directory"] # Missing
     THEN Raised(t) /\ UNCHANGED files
     ELSE /\ CreateExclusively(t, "directory")
          /\ tool' = [tool EXCEPT ![t].pc = "write"]
  /\ UNCHANGED <<subject, source, contents, edits>>

\* Mutant: the manifest is written before the files it lists.
NextFileManifestFirst(t) ==
  IF files["manifest"] = Missing THEN "manifest" ELSE ToWrite(t)[tool[t].written + 1]

NextFile(t) ==
  IF tool[t].written < Len(ToWrite(t)) THEN ToWrite(t)[tool[t].written + 1]
                                       ELSE "manifest"

WriteOutput(t) ==
  /\ At(t, "write")
  /\ NextFile(t) # "manifest"
  /\ IF files[NextFile(t)] # Missing
     THEN Raised(t) /\ UNCHANGED files
     ELSE /\ CreateExclusively(t, NextFile(t))
          /\ tool' = [tool EXCEPT ![t].written = @ + 1]
  /\ UNCHANGED <<subject, source, contents, edits>>

OverallStatus(t) ==
  CASE tool[t].blocking -> "BLOCKING_RESULT_INCONSISTENCY"
    [] ~tool[t].blocking /\ tool[t].kind = "failure" -> "NOT_APPLICABLE_NO_RESULT"
    [] ~tool[t].blocking /\ tool[t].kind = "result" ->
         IF tool[t].synthetic THEN "PASS_TEST_ONLY_COMPATIBILITY" ELSE "PASS"

\* The manifest comes last, and the exit code tells its status.
WriteManifest(t) ==
  /\ At(t, "write")
  /\ NextFile(t) = "manifest"
  /\ IF files["manifest"] # Missing
     THEN Raised(t) /\ UNCHANGED files
     ELSE /\ CreateExclusively(t, "manifest")
          /\ tool' = [tool EXCEPT ![t].pc = "done", ![t].status = OverallStatus(t),
                                  ![t].exit = IF tool[t].blocking THEN 2 ELSE 0]
  /\ UNCHANGED <<subject, source, contents, edits>>

Running == {"read", "reread", "mkdir", "write"}

\* An invocation dies; the file it was writing may be left torn.
Die(t) ==
  /\ Racing
  /\ tool[t].pc \in Running
  /\ tool' = [tool EXCEPT ![t].pc = "dead"]
  /\ \/ UNCHANGED files
     \/ /\ At(t, "write")
        /\ files[NextFile(t)] = Missing
        /\ files' = [files EXCEPT ![NextFile(t)].owner = t]
  /\ UNCHANGED <<subject, source, contents, edits>>

-----------------------------------------------------------------------------
Init ==
  /\ \E e \in Subjects : \E w \in Worlds(e) : \E raced \in BOOLEAN :
       /\ raced => e = RaceSubject /\ w = CleanWorlds[e]
       /\ subject = [endpoint |-> e, world |-> w, raced |-> raced]
  /\ source = [kind |-> "none", version |-> 0, inode |-> 0]
  /\ contents = <<>>
  /\ edits = 0
  /\ tool = [t \in Tools |-> NewTool]
  /\ files = [f \in Outputs |-> Missing]

ToolStep(t) ==
  \/ Open(t)
  \/ ReadSource(t)
  \/ ReadAgain(t)
  \/ MakeDirectory(t)
  \/ WriteOutput(t)
  \/ WriteManifest(t)

Next ==
  \/ Analyse
  \/ DieWriting
  \/ Alter
  \/ Replace
  \/ \E t \in Tools : ToolStep(t) \/ Die(t)

\* A launched invocation is a running process; nobody has to launch one.
Fairness ==
  \A t \in Tools :
    WF_tool(ReadSource(t) \/ ReadAgain(t) \/ MakeDirectory(t) \/ WriteOutput(t)
              \/ WriteManifest(t))

Spec == Init /\ [][Next]_vars /\ Fairness

-----------------------------------------------------------------------------
(* Properties.                                                             *)

\* Files, invocations and the source keep their types.
TypeOK ==
  /\ subject.endpoint \in Subjects
  /\ source \in [kind : {"none", "result", "failure", "torn"}, version : 0 .. 2,
                 inode : 0 .. MaxEdits + 1]
  /\ edits \in 0 .. MaxEdits
  /\ tool \in [Tools ->
       [pc : Running \cup {"idle", "done", "dead"}, kind : {"none", "result", "failure"},
        synthetic : BOOLEAN, expected : {"any", "original"},
        first : (0 .. 2) \X (0 .. MaxEdits + 1), blocking : BOOLEAN,
        written : Nat,
        status : {"none", "PASS", "PASS_TEST_ONLY_COMPATIBILITY",
                  "NOT_APPLICABLE_NO_RESULT", "BLOCKING_RESULT_INCONSISTENCY"},
        exit : {0, 2, 3}]]
  /\ files \in [Outputs -> [owner : Tools \cup {NoTool}, whole : BOOLEAN]]

\* A directory with a manifest is complete: the manifest and every file it
\* lists are whole and of one invocation, which judged what it read.  It is
\* what makes the order of the writes and the exclusive creations matter.
ManifestSeals ==
  files["manifest"].whole =>
    LET t == files["manifest"].owner
    IN /\ t \in Tools
       /\ \A k \in DOMAIN ToWrite(t) :
            files[ToWrite(t)[k]] = [owner |-> t, whole |-> TRUE]
       /\ files["directory"].owner = t

\* The exit code agrees with the directory: 0 and 2 are the two verdicts of a
\* sealed directory, and 3 leaves no manifest of that invocation.
ExitTellsManifest ==
  \A t \in Tools : tool[t].pc = "done" =>
    /\ tool[t].exit \in {0, 2} =>
         /\ files["manifest"] = [owner |-> t, whole |-> TRUE]
         /\ (tool[t].exit = 2) = (tool[t].status = "BLOCKING_RESULT_INCONSISTENCY")
    /\ tool[t].exit = 3 => files["manifest"].owner # t

\* The adverse blocks, the count and the conclusion of an endpoint.
Verdict(r) ==
  [status |-> r.status, numerator |-> r.numerator,
   adverse |-> Failing(r.block_records)]

Passed(t) == tool[t].status \in {"PASS", "PASS_TEST_ONLY_COMPATIBILITY"}

\* What passes the review has the verdicts the analysis computed: no single
\* alteration of a result file, wherever it is made, changes a conclusion, an
\* adverse count or an adverse block unnoticed.
PassedVerdictsAreTheOriginals ==
  \A t \in Tools : Passed(t) =>
    LET read == contents[tool[t].first[1]].bundle
    IN read.complete /\ Verdict(read.result) = Verdict(contents[1].bundle.result)

\* The rule 90 fixture is the one place where the audit expects more than a
\* result states: two wrong densities that differ are still a witness there.
MisstepsOnWitness ==
  /\ subject.endpoint = "D1"
  /\ subject.world.registered # <<4, 0>>
  /\ subject.world.registered[1] # subject.world.registered[2]

\* Two programs that share no code agree: a result that was computed and
\* validated, negative and indeterminate ones included, passes its review
\* unless somebody changed the file.
UntouchedResultsPass ==
  \A t \in Tools :
    /\ tool[t].status = "BLOCKING_RESULT_INCONSISTENCY"
    /\ edits = 0
    => MisstepsOnWitness

\* The blocks whose two evaluators differ in what the endpoint protects.
Disagreements(e, w) ==
  CASE e \in {"A1", "B0", "B1", "D0", "D2-CERT", "F0"} ->
         {i \in Blocks : w[i].registered # w[i].reference}
    [] e = "A0" -> {c \in Candidates : w[c].table + w[c].simulator > 0}
    [] e = "C" -> {k \in {1} : [violations |-> ViolationsOf(w.paths),
                                exits |-> ExitsOf(w.paths)] # w.reference}
    [] e = "D1" -> {k \in {1} : w.registered # w.reference}
    [] e = "D2-MEM" -> {}
    [] e = "E" -> {i \in Blocks : \E p \in Policies :
                     LET c == Accepted(p, w[i])
                     IN c = None \/ w[i].reference[c] # w[i].loss[c]}

Successes == {"PASS", "NOT_CONTRADICTED_BY_LOCKED_AUDIT"}

\* A disagreement of the evaluators is never reported as a success: the result
\* counts at least one adverse block for each block they disagree on.
DisagreementIsAdverse ==
  source.kind = "result" =>
    LET r == contents[1].bundle.result
        disagreements == Disagreements(subject.endpoint, subject.world)
    IN disagreements # {} =>
         /\ r.status \notin Successes
         /\ r.numerator >= Cardinality(disagreements)

\* Whatever the evaluators return becomes a result that can be reviewed.
EveryOutcomeIsReported == source.kind # "failure"

\* A sealed directory is never changed again.
SealedDirectoriesAreFinal ==
  [][files["manifest"].whole => UNCHANGED files]_files

\* Every launched invocation ends, whatever happens to its source.
EveryAuditEnds ==
  \A t \in Tools : tool[t].pc \in Running ~> tool[t].pc \in {"done", "dead"}

=============================================================================
