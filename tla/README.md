# A TLA+ model of the APHFS protected audit

APHFS is a Python program that enumerates small rule systems, evaluates them on
registered benchmarks, and carries one *locked* (held-out) audit of the finished
pipeline.  Most of its code is there to make one claim credible: the locked
role was evaluated once, by approved code, on approved documents, and its first
outcome is the recorded one.  This directory specifies that code in TLA+,
model-checks it with TLC and proves the central invariants with TLAPS.

Paths below are relative to `src/aphfs/` unless they say otherwise.

## 1. Inventory

| part | source | state it keeps | operations | what makes it correct |
|---|---|---|---|---|
| locked execution | `pipelines/locked_execution.py`, `pipelines/protected.py` | five write-once files (intent, guard, result, failure, receipt) and some twenty documents it hashes | `run_locked_audit_once`: preflight, intent, guard, recheck, context, analysis, result or failure, receipt | the held-out role is evaluated once; one owner of all outputs; one outcome, never replaced; a result rests on approved documents; how a run ended tells what it left |
| calibration analysis | `pipelines/protected.py` (`run_protected_shaped_analysis`) | none; its caller writes the bundle | gate on approvals, endpoints, bundle | a result comes from a role drawn under the same freeze and approval |
| role materialization | `roles/protected_materialization.py`, `roles/workflow.py` | one role file per role | gate, draw 64 values, collision checks, new-write, chmod | no role outside an approved freeze; calibration and locked values disjoint; a role is final |
| approvals and certificates | `roles/approvals.py`, `roles/certificates.py` | approval records, the calibration certificate | validate, promote a reviewed candidate, grant, verify the chain | what is frozen was reviewed; what is executed was granted |
| runtime freeze | `provenance/runtime_freeze.py` | allowlist, inventory, freeze record | expand, inventory, build, verify | the runtime that executes is the frozen one |
| amendments | `provenance/amendment.py` | amendment, scope approval, carryforward | verify v1 and cumulative v2 | the difference to the freeze is declared, complete and not scientific |
| new-write helpers | `provenance/io.py`, `_atomic_write_new` | a path of a directory | claim then write; exclusive create, fsync, readback | one writer per path; a claimed file may stay torn |
| development runner | `benchmarks/runner.py`, `cli/main.py` | a directory of write-once outputs, a grammar manifest shared by a series of runs | `run_development_all` | a run manifest means a complete directory; the runs of a series have one basis; a rerun replaces nothing |
| splits and hashing | `provenance/splits.py`, `provenance/hashing.py` | seed manifests | build, check disjointness, freeze a configuration | splits do not share seeds |
| statistics | `bounds/statistics.py` | `AlphaLedger` | allocate, interval bounds | an overdrawn ledger carries no decision; a caller that declares truthfully is not refused |
| inadequacy decision | `inference/inadequacy.py` | none | decide a class | no decision without a complete ledger, exact representatives and all bounds |
| fidelity | `fidelity/ledger.py`, `fidelity/contracts.py` | error components | record, assess a refinement | a tier that is called stable decides as every value within the tolerance would |
| grammar registry | `grammar/registry.py` | candidate ledger | enumerate, validate exhaustiveness | every rule once, none silently dropped |
| cellular automata | `eca/core.py`, `eca/inference.py` | none | two simulators, rule recovery | the simulators agree; recovery returns exactly the consistent rules |
| signatures, coarse graining | `signatures/canonical.py`, `coarse_graining/*.py` | none | quantize, propagate a bound | the bound covers the distance of two trajectories |
| confirmatory benchmarks | `benchmarks/final_freeze.py` | records per block, a cost meter | endpoints A0 to F0, each with two evaluators | a disagreement of the evaluators is adverse; every outcome can be reported |
| result validation | `schema/benchmark_results.py` | none | validate results, bind contract snapshots | counts, statuses and fidelity records of a result fit each other |
| read-only recomputation | `tools/recompute_locked_result_readonly_v2_4.py` (repository root) | a source read twice, a new output directory | audit a result or a failure record, seal a manifest | agrees with the analysis; no altered verdict passes; a manifest seals a complete directory |
| release validation, figures | `tools/validate_public_repository_v1.py`, `scripts/`, `tests/` (root) | none | check a release tree, draw | stateless |

**How they interact.**  The parts share no memory; they meet on disk.  Every
record names the records it rests on by SHA-256, and every operation starts
with a gate that recomputes those hashes.  A runtime is inventoried and frozen
as a candidate, reviewed and promoted (approvals); the freeze gates the drawing
of the calibration role, the calibration analysis, its certificate and review,
and then the drawing of the locked role (materialization).  If the execution
code changes after that, an amendment records the difference to the freeze.
The locked execution verifies all of it in its preflight, consumes its approval
by creating two files exclusively, and calls the analysis, which reads the role
for the first time.  The analysis leaves a result or a failure record, which a
separate program, sharing no code with it, recomputes without writing to it.
Development runs stand apart: they meet only each other, in the grammar
manifest of their series, and whoever edits their inputs.

**What is hard.**

- *Interleaving.*  Several invocations, or people editing files, act on one
  directory.  There is no lock; `O_EXCL` is the only arbiter.
- *Check then use.*  Every document is hashed by a gate and read again later,
  some of them three times; promotion inventories the runtime twice; an
  amendment is verified in four passes over the tree.
- *Crashes and failed writes.*  A process may die, or a write may fail half-way,
  between any two of the intent, the guard, the outcome and the receipt, and
  nothing is rolled back: what is on disk is the truth.
- *Power loss.*  Files are fsynced, the directory that names them is not.
- *Two programs that must agree.*  Eleven endpoints each have two evaluators;
  their disagreements become adverse blocks, the validation counts them, and the
  audit tool counts them again from the primitive rows.
- *Records that callers pair up.*  Approvals, freezes, reviews and certificates
  are separate files chosen by the caller.

`PROJECT.json` lists each of these at its line, with the properties that watch
it; each of the others says why no property watches it.

## 2. Modules

| module | what it is |
|---|---|
| `LockedExecution` | the locked execution, step by step, for any number of invocations |
| `OneTimeUse` | what it promises about one approval; `LockedExecution` implements it |
| `ProtectedChain` | freeze, promotion, roles, calibration, certificate, up to the acceptance of a locked execution |
| `Amendment` | the amended runtime: registration, the two ledgers, the passes of the verification |
| `LockedResults` | what the eleven locked endpoints report of the values of their evaluators, and the validation of it |
| `Recomputation` | the audit of a bundle by the read-only tool |
| `LockedReview` | extends both: the locked analysis, its result file, people who change it, and invocations of the tool |
| `DevelopmentRun` | the development runner, step by step, for any number of runs |
| `SharedGrammar` | what a series of development runs promises; `DevelopmentRun` implements it |
| `Automaton` | the two simulators and the recovery of rules (benchmarks A0, A1) |
| `Screening` | the alpha ledger, the class decision, the bound of benchmark C, the fidelity assessment |
| `MC…` | instances for TLC |
| `…Proofs` | theorems and their proofs |

### LockedExecution

`pc[p]` is the line invocation `p` has reached; each action is the code between
two points where another process, an edit or a failure can be observed.
`Launch`, `LoadAuthorization`, `VerifyBindings` and `PreexistingOutputCheck` are
the preflight; `BuildIntent`, `BuildGuard` build the payloads; `OpenNew`,
`FillNew`, `OpenExisting` and `WriteError` are `_atomic_write_new`, one set of
actions for its six uses, which differ in what follows (`AfterWrite`) and in
whether an error is inside the `try` block (`ConsumingStages`); `Recheck` and
`BuildContext` repeat the checks after the guard; `RunnerGate`, `ReadInputs`,
`ReadRole`, `RunEndpoints` are the analysis in `protected.py`; `BuildFailure` is
the exception handler.  `Drift`, `Crash`, `FlushDirectory` and `PowerLoss` are
the environment.

A document is abstracted to *approved*, *other* (well-formed, different bytes)
or *missing*.  A file is absent, partial or whole, and has an owner.  The
endpoints are one step with one of two ends.  Files only the preflight reads are
part of its single step.  The `allow_test_only_synthetic` variants are left out.

### OneTimeUse

Four variables: who consumed the approval, who analysed, what is recorded, and
whether it is sealed.  `LockedExecution` maps the owner of the intent to the
consumer, a whole result or failure to the outcome, a whole receipt to the seal.

### ProtectedChain

`issued[k]` holds the records of kind `k`.  Records are written under new names
and never change, so a hash is modelled by the record it hashes, and a record
contains the records it names.  `runtime` is what an inventory would hash now;
protocol, configuration, fidelity contracts and environment are part of it.
People issue any approval that names existing records, and callers pass any
record that exists: only the gates restrict what follows.

Operations with an observable middle are several actions of a call `c`:
promotion (`StartPromotion`, `FinishPromotion`: the runtime is inventoried
twice), materialization (`Open`, `Draw`, `Claim`, `Fill`, `Chmod`) and the
calibration analysis (`StartCalibration`, `FinishCalibration`: the configuration
is read after the gate).  A call may crash at any of them.  `WriteCertificate`
and `Audit` (the record checks of the locked preflight) are one step each.
`Judge` stands for the D2-CERT computation: any function of values and runtime.

### Amendment

`disk` is the project tree, a file its bytes.  `Base` is the tree the freeze was
approved with.  `Register` draws an amendment up from the tree: its rows and its
scientific files are those of the tree at that time, while its base ledger may
be the frozen one or be taken from the tree (an amendment of an amendment), and
its list of changes may miss some or name what is no change.  `Start` makes the
checks on records; `CheckInventory`, `CheckScience`, `CheckConfig` and
`CheckCarryforward` are the passes over the tree, with edits possible between
them.  Scheme `v1` replays the changes on the base and compares; `v2` compares
the exact difference.  Nothing in the source writes an amendment, so `Register`
is a reading of what the verifier accepts: that its rows and its scientific
files come from one state of the tree is an assumption on the author's tool.
`v1` has no caller left in the source; `v2` is called by the locked preflight.

### LockedResults, Recomputation, LockedReview

The numerical evaluators are inputs: a *world* of an endpoint says what its two
evaluators return (losses of the candidates, hashes of trajectories, densities,
paths, costs), with the two free to differ.  `RunA0` … `RunF0` translate what
`final_freeze.py` makes of them, row by row: the fidelity record, the failure
code, the decision, the events counted as adverse, the status.  Losses are 0 or
1 where the code asks whether a loss vanishes, with one more value where it
compares them.  Benchmark E is its search: the four policies, their orders, the
running best, where the adaptive one stops, what each charges the meter.
`ValidResults` is the validation and `Serialisable` the one thing writing may
still refuse (`allow_nan=False`).  Wordings, hashes of rows and the tables of
the tool are left out; `identified`, `ordered` and `complete` stand for the
identity and provenance fields of a bundle, for the order of its endpoints and
for the presence of all eleven, each a check of the tool of its own.

`Recomputation` translates the tool's own recomputation of each endpoint.  It
shares the type of a row with `LockedResults` and no definition of what a row
means, for that independence is the point of the tool.  `Consistent` is the
verdict per endpoint and `AuditPasses` of all.

`LockedReview` puts the two around a file.  `Analyse` runs the endpoints and
writes the result, or the failure record when validation or serialisation
refuses.  One endpoint is the subject, with any pair of evaluations; the other
ten are clean, which every endpoint can be (`CleanAssumption`).  `Alter` changes one field, row or endpoint of the file, `Replace` puts
another file in its place.  An invocation of the tool opens, reads and judges
(`ReadSource`), reads again and compares bytes and inode (`ReadAgain`), makes
its directory, writes the derived files and last the manifest.  Every creation
is exclusive and any exception ends the invocation with exit code 3.

What the tool cannot see is visible in the model: a block that is already
adverse may change its fidelity status, the failure ledgers of C, E and D2-MEM
are not compared with anything, and another truth rule of the same class passes.
None of these is a verdict, which is why the property is about verdicts
(`Verdict`: status, count, adverse blocks).  The tool expects the exact
densities of the rule 90 fixture, which a result does not state; that is the
exception `MisstepsOnWitness`.

### DevelopmentRun and SharedGrammar

`Start` is the path guard; `Read` reads the four kinds of input one after the
other and refuses what the code refuses; `CompareGrammar` compares an existing
grammar manifest with what was read, and otherwise the run claims and fills it;
five outputs follow in the order of the code, each claimed exclusively and
filled in a second step; the inputs are hashed again before the run manifest,
the last file.  Inputs are edited at any time and a run dies at any step.  A
file is absent, torn or whole and has an owner.  The computation of the
benchmarks has no effect outside the run and is in the two modules below.

`SharedGrammar` has two variables: which run sealed a directory, and the basis
(sources and configuration) of the series, chosen by the first seal.
`DevelopmentRun` maps a whole run manifest to a seal.

### Automaton and Screening

`Automaton` keeps two rows that advance together under the reference and the
vectorized simulator, and a rule to be recovered with the transitions seen so
far.  `Screening` is the ledger with the class decision that rests on it, the
bound carried along two trajectories and the fidelity assessment.  Alpha is
counted in units that make every allocation an integer, so that no rounding
enters: the code's tolerance of 1e-12 is not modelled.  `Total` counts the units
given out, one by one, which is the sum of the allocations.  `MCBenchmarks` composes
them: a run calls one benchmark after the other and they share no state.

## 3. What the runs check

Passing runs:

| run | instance | shows |
|---|---|---|
| `locked_races` | 2 invocations, up to 2 edits of 5 documents, crashes, failed writes, failing analyses (143k states) | one analysis, one owner, exclusive outcomes, receipts that cover a whole outcome, results on approved documents, ends that tell the records, final outputs, and the refinement `ImplementsOneTimeUse` |
| `locked_liveness` | 2 invocations, 1 edit, crashes and power losses, fair processes (79k) | every launched run ends; some run completes unless one dies or a document is edited; a durable intent or guard is a permanent consumption; no spurious failure |
| `chain_freezes` | 2 runtimes, 2 candidates, author's records and freezes (217k) | no role, result or execution rests on a freeze that was not reviewed; roles and results rest on approvals of their own freeze |
| `chain_calibrations` | 2 calibrations of which one may be withheld, 3 paths (111k) | the locked role follows a certified calibration and avoids the role it names; an accepted execution rests on a grant and on a role file whose mode was restricted |
| `chain_races` | 2 concurrent calls, roles of 2 of 4 values, 2 paths (72k) | each call carries only what its gate accepted, one writer per path, roles are final, a path abandoned by a dead writer is never revived |
| `locked_review` | 2 blocks, 2 candidates, every pair of evaluations of every endpoint, one alteration, 2 invocations (153k) | disagreements are adverse; the tool agrees with the analysis on every untouched result; an altered verdict never passes; the manifest seals; exit codes tell it; every invocation ends |
| `development` | 2 runs, 3 directories of which one is protected, edits of configuration and protocol (262k) | a manifest means a complete directory; the refinement `SeriesSpec`; every run ends |
| `benchmarks` | 256 rules, 4 boundaries, rows of 1 to 4 cells; 2 candidates, 3 looks; multipliers and values of either side of zero and of a threshold (89k) | the simulators agree, recovery is exact, the ledger, the bound and the assessment keep their promises |
| `amendment` | 7 files, 2 amendments, 2 edits, both schemes (570k) | the accepted difference is declared, complete and not scientific; the two ledgers agree |

Runs that refute what the source says, each listed as a finding:

| run | the source says | the code does |
|---|---|---|
| `locked_inputs_recorded` | "cross-object equality before result new-write" | the inputs are read again after the context hashed them, and the bundle's own hashes are overwritten by the context's: an edit in between is used under the approved hash |
| `locked_power_repeat` | the guard is permanent | the directory entry is never fsynced: a power loss can drop intent and guard, and a second run analyses again |
| `review_indeterminate` | a technical incident is preserved as observed; E has `COUNT_ADVERSE_AND_PRESERVE_TRACE` | when the evaluators disagree on a candidate the adaptive policy tries, the row holds an infinite loss, which no result file can: the run ends in a failure record and the role is consumed |

Seven more statements were refuted with the same modules and stay in them as
definitions without a run.  In `ProtectedChain`: `FreezesAreReviewed` (promotion
builds the approved record from a second inventory; an edit in between is frozen
unreviewed, and by `FreezesInUseAreReviewed` never usable),
`ApprovalsAreUsedOnce` (a second output path accepts a `…_ONCE` approval),
`LockedAvoidsCertifiedRole` (the locked role avoids the calibration role its
approval names, which need not be the one the certificate rests on),
`CertificatesNameTheirFreeze` (the certificate takes the freeze from a file the
caller names) and `ResultsAreJudgedByTheFrozenRuntime` (`protected.py:336` reads
the configuration after the gate).  In `LockedExecution`:
`RecordedApprovalWasValidated` (`locked_execution.py:705` hashes the approval
again after the preflight validated it at line 677).  In `DevelopmentRun`:
`RecordedHashesAreOfWhatWasRead` (the run manifest hashes inputs again that were
read at the start).

**Bounds.**  Two invocations suffice for every race here: each pairwise conflict
is over one file, a third contender meets a file that exists just as the second
does, and the proofs cover any number.  `MaxDrift` (edits of documents) is 2 so
that a document can be changed and restored around a check; the documents that
may change are one representative of each class that the steps read differently
(`MCVolatile`).  `MaxIssued` bounds the records of each kind: two where
two can be confused (two freezes, two calibrations), one elsewhere.  Role values
are 1 or 2 of 3 or 4, enough to collide within a role and across roles.
`MaxEdits` of 2 in `amendment` lets a file change and come back during one
verification, or change between two amendments; 3 was checked once as well
(5.4 million states, without the manuscript file).
Model values of invocations, paths and calls are symmetric.

In `locked_review` two blocks are enough for one adverse block next to a clean
one, two candidates for a loss that vanishes and one that does not, two policy
orders that differ for a search that stops early.  The cost budget lies between
one and two exhaustive searches.  Difficulties come one at a time: crashes,
racing invocations and edits during an invocation happen to one clean result of
`RaceSubject`, where whole-file changes are all that matters, and every other
result has one invocation and at most one alteration before it, made where at
most one block is not clean (`Alterable`).  The two evaluators still differ in
all blocks at once.  In `development` two versions of an input and three
directories let two runs share a directory, a preflight directory, both or
neither, with equal or different bases.  In `benchmarks` four cells are the
smallest row on which a cell, its neighbours and theirs are distinct;
`AutomatonProofs` covers every length.  An understated declaration overdraws the
budget with exactly the keys a caller expects, the case the total is compared
for.

**Deadlock** is not checked: runs end, and nobody is obliged to start another.

**Fairness.**  Weak fairness of each launched process's own steps.  The code is
straight-line, takes no lock and waits for nothing, so an operating system that
schedules the process is all that is needed.  Launches, edits, crashes, write
errors and power losses are never fair.  `DevelopmentRun` and `LockedReview`
assume the same of a started run and a launched invocation: neither waits for
another, a path that is taken is an error and not a wait.  Starting them, edits,
replacements and deaths are never fair.

## 4. What is proved

All theorems hold for every number of invocations, calls, paths, runtimes,
values, files, records, blocks and candidates, from the assumptions on the
constants alone.  One has a hypothesis besides: `HonestCallersHaveTheirShare`
speaks of at most ten thousand looks.  Every invariant and every action property
that a passing run checks is stated by a theorem, and so are both refinements.

*LockedExecutionProofs.*  `TypeCorrect` and `DurableConsumptionsArePermanent` hold
under every fault, power losses included; the other theorems assume that no power
is lost.  The safety properties are not inductive: that a run about to write a
result is the only one that may has to come from what it created earlier.
`ConsumptionInv` therefore adds `StageOwnership`, which says of each program point
which files the run there owns, and in which state.  Exclusive creation makes it
inductive: the intent has one owner, everything else belongs to that owner, and
where the owner is determines which outputs exist.  `ConsumptionIsInvariant`
gives `AnalysisIsSingleUse`, `EndingsAreAccountedFor`, `OutputsHaveOneOwner`,
`OutcomesAreExclusive`, `ReceiptsCoverOutcomes` and `ResultsRestOnApprovals`.  Two
theorems need that what nobody created is not whole (`AbsentIsEmpty`):
`OutputsStayAsWritten`, and `ExecutionIsOneTime`, the refinement of `OneTimeUse`,
where each write and the parsing of the role is mapped to its abstract step or to
none.  `NothingFailsByItself` adds what the rechecks compare while every document
is still the approved one (`CalmRun`).  Under power loss ownership survives only
for runs at work (`AtWork`), which a power loss ends; with `DurableIsPresent` that
is enough for durable consumptions.

*ProtectedChainProofs.*  `ChainInv` adds to the properties what each call in
progress has checked (`CallAuthorized`) and that a claimed path has one writer
(`OneWriter`).  Records only grow, so what a record names stays true; each gate
establishes the call's part, and each final step hands it to the record.  That a
freeze *in use* was reviewed needs the gate's comparison of the runtime with the
frozen inventory, not the promotion.  The theorems: `ChainTypeCorrect`,
`RolesRestOnReviewedFreezes`, `LockedRolesFollow`,
`UsedFreezesAreReviewed`, `CalibrationsRestOnTheirRole`, `CallsStayAuthorized`,
`AcceptedExecutionsRestOnAGrant`, `RolesNeverChange`.  The last says two things of
`RolesAreFinal`: a written role stays (`RolesKept`), and a path abandoned between
claim and `chmod` stays as its dead writer left it (`AbandonedKept`), because a
claim needs a free path and only its writer fills or restricts it.

*AmendmentProofs.*  `AmendmentInv` adds what each pass has found.
`DifferencesAreDeclared` rests on the comparison of the base ledger with the
freeze and, for either ledger, on `LedgerDeclares`; `ScienceIsFrozen` combines
the exact difference of one pass with the disjointness of a later one, and needs
that an amendment lists the scientific files among its own rows.
`TheLedgersAgree` is an equivalence of the two algorithms (`LedgersAgreeOn`).

*DevelopmentRunProofs.*  `DevelopmentInv` says of each run what its program point
implies: what it has read (`ReadsInOrder`), that after the comparison it shares
the basis of the grammar manifest (`SharesBasis`), and that the outputs before
its current one are whole and its own (`WritesInOrder`); and of the files that
what nobody owns is not whole, and that a whole run manifest belongs to a run
that is done (`FilesInv`).  Every step of a run claims
one file, fills its own or touches none (`Moves`), from which both
`AManifestMeansComplete` and `FilesStayAsWritten` follow, deaths and edits
included.  `RunsFormASeries` is the refinement of `SharedGrammar`: the step that
fills a run manifest is the seal, and every other step stutters.

*LockedReviewProofs.*  `ReviewInv` says which files an invocation owns at each of
its program points (`ToolInv`), and that a whole manifest belongs to an
invocation that ended with it (`FilesInv`).  `AManifestSeals`,
`ExitsTellManifests` and `SealsAreFinal` follow for any list of derived files that
does not contain the manifest, any number of invocations and any edits of the
source; what the file says and how it is judged plays no part in them.

The other three are about that.  `JudgeInv` says what the versions of the file
hold (`ContentsInv`: the first is what the analysis computed, and any version
the tool would accept has its verdict) and what an invocation has judged
(`JudgedBy`: it blocks unless what it read first is acceptable, and while nobody
edits the file for no other reason).  The work is in showing that an alteration
keeps `ContentsInv`, one case per kind of change.  A status or a count changed
alone contradicts what is recomputed from the records
(`AlteredConclusionsAreRefused`).  A changed row may not change which blocks are
adverse (`AlteredRowsKeepVerdict`): the ledger of failures repeats them, in E the
failure code and the policies determine each other, and the rows of C, D1 and
D2-MEM have no failure code in the source.  A field changed next to the results is
found by the check of its own.  `PassedVerdictsAreOriginal` and
`UntouchedResultsAreAccepted` follow, with `ComputedBundlesPassTheirAudit` for the
file as it was written; `DisagreementsAreAdverse` adds what each endpoint makes of
evaluators that differ (`DisagreementsAreCounted`).

*RecomputationProofs.*  `ComputedBundlesPassTheirAudit`: whatever the evaluators of
the eleven endpoints return, what `LockedResults` makes of it passes the audit of
`Recomputation`, for any number of blocks, cases and candidates, any signatures,
cost budget and withdrawal count.  The exception (`Misstep`) is a rule 90 fixture
whose two densities are wrong and differ, which the tool knows and a result does
not state.  It is proved endpoint by endpoint (`A0Passes` … `F0Passes`) from what
validation does to the fidelity rows (`BoundRowFields`, `RowsAreIndexed`)
and from the equality of two counts, the one over the blocks the analysis marked
and the one over the blocks the tool finds adverse.  `EvidenceDeterminesConclusion`
is the converse direction: two results the audit finds consistent, with the same
records, have the same status and the same count.  `LedgerKeepsAdverse` and
`ECodesKeepAdverse` say the same of the adverse blocks, where the ledger or the
failure codes repeat them.

*AutomatonProofs.*  `TheSimulatorsAgree`: the two simulators hold the same row after
any number of steps (`AgreementInv`), since each output bit and each neighbour of
the one equals that of the other, for every width, rule and boundary.
`TheRecoveryIsExact` is about the 256 rules and the 5-cell rows that A1 observes:
`RecoveryInv` makes the rules consistent with what was observed exactly those that
agree with the generating rule on the neighbourhoods seen so far (`Alike`).
Flipping the output of one unseen neighbourhood pairs the rules that agree on the
seen ones, so every neighbourhood seen for the first time halves their number, and
after the last only the generating rule is left.

*ScreeningProofs.*  The screens do not meet, and each has an invariant of its own.
`OverdrawnScreensNeverDecide` rests on `LedgerInv`: allocations only grow, so a
total above the budget stays there, and `Decide` reads it.
`HonestCallersHaveTheirShare` rests on `HonestInv`: all that was allocated are the
shares of different looks, whose sum is bounded by the sum of 1/k² over the looks.
The bound is by induction on the number of looks, with a telescoping term after
the first ten, and must stay below the six digits of π²/6 that
`BudgetAssumption` gives: hence the ten thousand.  `TheBoundCoversTheDistance`
(`ScalarInv`) is the triangle inequality at each step, for integer multipliers of
either sign and any number of steps.  `StableTiersAreRobust` (`FidelityInv`) shows
that the three comparisons of the assessment leave no value within the tolerance
on the other side of the threshold.

`ConsumptionInv`, `AmendmentInv`, `ChainInv` and `JudgeInv` were checked by TLC
before they were proved and are not in the configurations any more;
`FilesAreNeverReplaced`, `SealedDirectoriesAreFinal` and the type invariant of
`DevelopmentRun` are proved without a run of their own.

Only model-checked: liveness, which is out of the prover's reach (`EveryRunEnds`
of `LockedExecution` and of `DevelopmentRun`, `SomeRunIsCompleted`,
`EveryAuditEnds`).

## 5. What is not modelled, and the plan

Not modelled on purpose: cryptographic hashing (a hash is what it hashes),
schema validation of single records, the environment fingerprint, file modes but
for the one a gate reads, the test-only synthetic variants of the locked
execution and the injected failures of the benchmarks, floating-point
statistics, timings, figures, the manuscript.

Left out of parts that are modelled:

- `final_freeze.py`: what the numerical evaluators compute, and the branch of
  D2-CERT without a certificate.
- The audit tool: an I/O error of its own writes appears only as the death of
  the invocation.
- `LockedReview`: one difficulty at a time, as section 3 says.
- The development benchmarks other than A0, A1, B0 and C are fixed examples,
  computed once; the validation of the candidate registry is one pass over a
  ledger that the same function has just built.
- `fidelity/ledger.py`: the additive `ErrorLedger`, which the development runner
  writes out with every component at zero.

Observed while modelling, promised by nobody and therefore no finding: the path
guard of the development runner does not test the path of the grammar manifest;
a torn grammar manifest blocks every later run of its series until somebody
removes it; and the summary of the tool says that there is no result when a
failure record is judged inconsistent, while its manifest and exit code say
that it blocks.

Planned:

1. Composition: the record checks of the locked preflight as `LockedExecution`
   has them (`VerifyBindings`), refined by `ProtectedChain!Audit` and the passes
   of `Amendment`.
2. D2-CERT without a certificate, with its refinements and the cost meter as a
   state machine over indeterminate outcomes.
3. Theorems about the compositions of 1 and the state machine of 2.
