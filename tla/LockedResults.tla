--------------------------- MODULE LockedResults ---------------------------
(***************************************************************************)
(* The eleven endpoints of a locked audit (benchmarks/final_freeze.py) and *)
(* the semantic validation that decides whether their results may be       *)
(* written (schema/benchmark_results.py).                                  *)
(*                                                                         *)
(* Every endpoint computes its blocks twice, with a registered and with a  *)
(* reference evaluator.  What the two evaluators return is the input here, *)
(* one "world" for each endpoint: the operators Run* are what the code     *)
(* makes of it.  Numbers are abstracted to what the judgements tell apart: *)
(* a loss or a bound to its side of the threshold, a density to a code, a  *)
(* binomial interval to the event count it is computed from.               *)
(***************************************************************************)
EXTENDS Naturals, FiniteSets, FiniteSetsExt

CONSTANTS
  BlockCount,         \* the blocks of a role-derived endpoint (64)
  CandidateCount,     \* the candidate rules (256)
  Signature,          \* Signature[c]: the signature class of a candidate
  FixedOrder,         \* the frozen orders in which policies try candidates
  DevelopmentOrder,
  CostBudget,         \* the cost units a policy may spend (300000)
  WithdrawalCount,    \* the violations whose lower bound exceeds delta (7)
  CaseCount,          \* the propagation cases of C (9)
  None                \* an absent failure code, candidate or template

Blocks == 1 .. BlockCount
Candidates == 0 .. CandidateCount - 1
Cases == 1 .. CaseCount

Orders == {o \in [1 .. CandidateCount -> Candidates] :
             \A i, j \in 1 .. CandidateCount : o[i] = o[j] => i = j}

ASSUME BlockCountAssumption == BlockCount \in Nat \ {0}
ASSUME CandidateCountAssumption == CandidateCount \in Nat \ {0}
ASSUME CountsAssumption ==
  /\ CaseCount \in Nat \ {0}
  /\ CostBudget \in Nat
  /\ WithdrawalCount \in Nat \ {0}
ASSUME SignatureAssumption == Signature \in [Candidates -> Nat]
ASSUME OrdersAssumption == {FixedOrder, DevelopmentOrder} \subseteq Orders
ASSUME NoneAssumption ==
  /\ None \notin {"FIDELITY_INDETERMINATE", "ADVERSE", "UNBILLED_LOSS_ACCESS"}
  /\ None \notin {"A0", "A1", "B0", "B1", "C", "D0", "D1", "D2-CERT", "D2-MEM",
                  "E", "F0"}
  /\ None \notin {"expected", "another"}
  /\ None \notin Candidates

Endpoints == {"A0", "A1", "B0", "B1", "C", "D0", "D1", "D2-CERT", "D2-MEM",
              "E", "F0"}

\* The endpoints that report an exact binomial interval.
IntervalEndpoints == {"A1", "B0", "B1", "E", "F0"}

RoleDerived == IntervalEndpoints \cup {"D2-CERT"}

Policies == {"exhaustive", "fixed_order", "development_frozen_order",
             "adaptive_fidelity"}

FailureCodes == {"FIDELITY_INDETERMINATE", "ADVERSE"}

-----------------------------------------------------------------------------
(* What the two evaluators of an endpoint may return.                      *)

\* 0 is a loss or a lower bound within the threshold, 1 one above it.
Losses == [Candidates -> 0 .. 1]

A0World == [Candidates -> [table : 0 .. 1, simulator : 0 .. 2]]
A1World == [Blocks -> [truth : Candidates, registered : Losses,
                       reference : Losses]]
BWorld == [Blocks -> [registered : Losses, reference : Losses]]

Trajectories == {"identity", "drift", "other"}
D0World == [Blocks -> [registered : Trajectories, reference : Trajectories]]

\* The live cells that follow the two states of the witness.
CellCounts == {0, 2, 4} \X {0, 2, 4}
D1World == [registered : CellCounts, reference : CellCounts]

D2World == [Blocks -> [registered : 0 .. 2, reference : 0 .. 2]]

\* A loss of 1 is on rows the cheap probe does not look at; the truth has 0.
\* The reference evaluator may see a mismatch where there is none, or none.
EBlockWorld ==
  {w \in [loss : [Candidates -> 0 .. 2], reference : [Candidates -> 0 .. 2]] :
     /\ 0 \in {w.loss[c] : c \in Candidates}
     /\ \A c \in Candidates :
          w.reference[c] \in {w.loss[c], IF w.loss[c] = 0 THEN 2 ELSE 0}}
EWorld == [Blocks -> EBlockWorld]

Detections == {"expected", "another", "below"}
F0World ==
  [Blocks -> {w \in [case : {"registered_translation", "single_cell_perturbation",
                             "negative_control"},
                     registered : Detections, reference : Detections] :
                w.case = "negative_control" =>
                  "expected" \notin {w.registered, w.reference}}]

\* A path of C stops at its first exit from the domain.
Points == [beyond : BOOLEAN, exit : BOOLEAN]
Paths == {<<p>> : p \in {q \in Points : q.exit}}
           \cup {<<p, q>> : p \in {r \in Points : ~r.exit}, q \in Points}
CWorld == [paths : [Cases -> Paths],
           reference : [violations : 0 .. 2, exits : 0 .. 2]]

Worlds(e) ==
  CASE e = "A0" -> A0World
    [] e = "A1" -> A1World
    [] e \in {"B0", "B1"} -> BWorld
    [] e = "C" -> CWorld
    [] e = "D0" -> D0World
    [] e = "D1" -> D1World
    [] e = "D2-CERT" -> D2World
    [] e = "D2-MEM" -> {None}
    [] e = "E" -> EWorld
    [] e = "F0" -> F0World

-----------------------------------------------------------------------------
(* The records every endpoint is reported in.                              *)

\* Mutant: only a difference of the decisions counts.
FidelityRecordOfDecisions(id, observableChanged, decisionChanged) ==
  [block_id |-> id,
   observable_changed |-> observableChanged,
   decision_changed |-> decisionChanged,
   further_refinement_required |-> decisionChanged,
   frozen_contract_snapshot |-> None,
   status |-> IF decisionChanged THEN "FIDELITY_INDETERMINATE" ELSE "PASS"]

\* Any difference between the tiers is a change: the code takes a tolerance
\* and never compares with it.
FidelityRecord(id, observableChanged, decisionChanged) ==
  LET stable == ~observableChanged /\ ~decisionChanged
  IN [block_id |-> id,
      observable_changed |-> observableChanged,
      decision_changed |-> decisionChanged,
      further_refinement_required |-> ~stable,
      frozen_contract_snapshot |-> None,
      status |-> IF stable THEN "PASS" ELSE "FIDELITY_INDETERMINATE"]

Failing(blocks) == {i \in DOMAIN blocks : blocks[i].failure_code # None}

\* A failure ledger is kept as the code it gives to each block it lists.
Result(endpoint, blocks, fidelities, summary) ==
  LET failing == Failing(blocks)
  IN [sub_id |-> endpoint,
      status |-> IF failing = {} THEN "PASS" ELSE "FAIL",
      numerator |-> Cardinality(failing),
      denominator |-> BlockCount,
      interval |-> Cardinality(failing),
      block_records |-> blocks,
      fidelity_records |-> fidelities,
      failure_ledger |-> [i \in failing |-> blocks[i].failure_code],
      summary |-> summary]

\* The deterministic endpoints list at most one failure for all their blocks.
Conformance(endpoint, status, numerator, denominator, blocks, fidelity, summary) ==
  [sub_id |-> endpoint,
   status |-> status,
   numerator |-> numerator,
   denominator |-> denominator,
   interval |-> None,
   block_records |-> blocks,
   fidelity_records |-> [i \in 1 .. 1 |-> fidelity],
   failure_ledger |-> IF status = "PASS" THEN {} ELSE {status},
   summary |-> summary]

-----------------------------------------------------------------------------
(* Recovery of the generating rule, and the two class decisions.           *)

\* Mutant: the fidelity of a block is left to its record.
CodeOfUnverified(fidelity, adverse) == IF adverse THEN "ADVERSE" ELSE None

\* The code of a block whose fidelity comes before what the endpoint tests.
CodeOf(fidelity, adverse) ==
  IF fidelity.status # "PASS" THEN "FIDELITY_INDETERMINATE"
  ELSE IF adverse THEN "ADVERSE" ELSE None

Retained(losses) == {c \in DOMAIN losses : losses[c] = 0}

Classes(candidates) == {Signature[c] : c \in candidates}

A1Fidelity(i, w) ==
  FidelityRecord(i, w.registered # w.reference,
                 Retained(w.registered) # Retained(w.reference))

A1Block(i, w) ==
  LET retained == Retained(w.registered)
      code == CodeOf(A1Fidelity(i, w),
                     \/ w.truth \notin retained
                     \/ Signature[w.truth] \notin Classes(retained))
  IN [block_id |-> i,
      candidate_losses |-> w.registered,
      retained_candidates |-> retained,
      truth_rule |-> w.truth,
      truth_candidate_retained |-> w.truth \in retained,
      truth_signature_class |-> Signature[w.truth],
      retained_signature_classes |-> Classes(retained),
      truth_class_retained |-> Signature[w.truth] \in Classes(retained),
      failure_code |-> code,
      failure_event |-> code # None]

RunA1(world) ==
  Result("A1", [i \in Blocks |-> A1Block(i, world[i])],
         [i \in Blocks |-> A1Fidelity(i, world[i])], None)

\* decide_class_inadequacy over a complete ledger of singleton classes.
ClassDecision(bounds) ==
  IF \A c \in DOMAIN bounds : bounds[c] > 0
  THEN "MODEL_CLASS_INADEQUATE" ELSE "RETAIN_CLASS"

\* An in-class control must be retained, a radius-two member rejected.
Undesired(endpoint, decision) ==
  IF endpoint = "B0" THEN decision = "MODEL_CLASS_INADEQUATE"
                     ELSE decision # "MODEL_CLASS_INADEQUATE"

BFidelity(i, w) ==
  FidelityRecord(i, w.registered # w.reference,
                 ClassDecision(w.registered) # ClassDecision(w.reference))

BBlock(endpoint, i, w) ==
  LET decision == ClassDecision(w.registered)
      code == CodeOf(BFidelity(i, w), Undesired(endpoint, decision))
  IN [block_id |-> i,
      candidate_exact_lower_bounds |-> w.registered,
      class_lower_bounds |-> w.registered,
      decision |-> decision,
      failure_code |-> code,
      failure_event |-> code # None]

RunB(endpoint, world) ==
  Result(endpoint, [i \in Blocks |-> BBlock(endpoint, i, world[i])],
         [i \in Blocks |-> BFidelity(i, world[i])], None)

-----------------------------------------------------------------------------
(* Conformance of simulators, propagated bounds and coarse grainings.      *)

\* A rule that contradicts its table (0), each boundary and probe on which
\* the two simulators part, is a mismatch of its own.
Mismatches(world) ==
  Cardinality({m \in Candidates \X (0 .. 2) :
                 IF m[2] = 0 THEN world[m[1]].table = 1
                             ELSE m[2] <= world[m[1]].simulator})

RunA0(world) ==
  LET mismatches == Mismatches(world)
      matched == mismatches = 0
  IN [sub_id |-> "A0",
      status |-> IF matched THEN "PASS" ELSE "FAIL",
      numerator |-> mismatches,
      denominator |-> CandidateCount,
      interval |-> None,
      block_records |->
        [c \in Candidates |-> [rule_id |-> c, truth_table |-> c,
                               canonical_signature |-> Signature[c],
                               failure_code |-> None]],
      fidelity_records |-> [i \in 1 .. 1 |-> FidelityRecord(0, ~matched, FALSE)],
      failure_ledger |-> mismatches,
      summary |-> [reference_production_match |-> matched,
                   signature_count |-> Cardinality(Classes(Candidates))]]

ViolationsOf(paths) ==
  Cardinality({kt \in Cases \X (1 .. 2) :
                 /\ kt[2] \in DOMAIN paths[kt[1]]
                 /\ paths[kt[1]][kt[2]].beyond})

ExitsOf(paths) ==
  Cardinality({k \in Cases : \E t \in DOMAIN paths[k] : paths[k][t].exit})

CStatus(tier) ==
  IF tier.exits > 0 THEN "DOMAIN_EXIT_WITHDRAWAL"
  ELSE IF tier.violations > 0 THEN "FAIL" ELSE "PASS"

CCase(path) ==
  [path |-> [t \in DOMAIN path |->
               [beyond |-> path[t].beyond, exit |-> path[t].exit,
                violation |-> path[t].beyond, domain_exit |-> path[t].exit]],
   domain_exit |-> \E t \in DOMAIN path : path[t].exit,
   clipping_applied |-> FALSE,
   failure_code |-> None]

RunC(world) ==
  LET registered == [violations |-> ViolationsOf(world.paths),
                     exits |-> ExitsOf(world.paths)]
      fidelity == FidelityRecord(0, registered # world.reference,
                                 CStatus(registered) # CStatus(world.reference))
      adverse == {k \in Cases : \E t \in DOMAIN world.paths[k] :
                    world.paths[k][t].exit \/ world.paths[k][t].beyond}
      stable == fidelity.status = "PASS"
  IN Conformance("C",
       IF stable THEN CStatus(registered) ELSE "FIDELITY_INDETERMINATE",
       IF stable THEN Cardinality(adverse) ELSE CaseCount, CaseCount,
       [k \in Cases |-> CCase(world.paths[k])], fidelity,
       [violations |-> registered.violations, exits |-> registered.exits])

D0Fidelity(i, w) ==
  FidelityRecord(i, w.registered # w.reference,
                 (w.registered = "identity") # (w.reference = "identity"))

D0Block(i, w) ==
  [block_id |-> i,
   full_microstate_identity |-> w.registered = "identity",
   failure_code |-> IF /\ w.registered = "identity"
                       /\ D0Fidelity(i, w).status = "PASS"
                    THEN None ELSE "ADVERSE"]

RunD0(world) ==
  Result("D0", [i \in Blocks |-> D0Block(i, world[i])],
         [i \in Blocks |-> D0Fidelity(i, world[i])], None)

WitnessPair == <<<<1, 1, 0, 0>>, <<1, 0, 1, 0>>>>

\* The two states of the rule 90 witness have one density and two successors.
RunD1(world) ==
  LET witness == world.registered[1] # world.registered[2]
      agreed == world.registered = world.reference
      fidelity == FidelityRecord(0, ~agreed, witness # agreed)
      passed == witness /\ fidelity.status = "PASS"
  IN Conformance("D1", IF passed THEN "PASS" ELSE "FAIL", IF passed THEN 0 ELSE 1,
       1, [i \in 1 .. 1 |-> [microstate_pair |-> WitnessPair,
                             next_density |-> world.registered,
                             failure_code |-> None]],
       fidelity, [nonclosure_witness |-> witness])

D2Fidelity(i, w) ==
  FidelityRecord(i, w.registered # w.reference,
                 (w.registered > 0) # (w.reference > 0))

D2Block(i, w) ==
  [block_id |-> i,
   maximum_density_discrepancy |-> w.registered,
   violation |-> w.registered > 0,
   failure_code |-> CodeOf(D2Fidelity(i, w), w.registered > 0)]

\* The audit under a verified certificate; it withdraws, it never grants.
RunD2Cert(world) ==
  LET violations == Cardinality({i \in Blocks : world[i].registered > 0})
      stable == \A i \in Blocks : D2Fidelity(i, world[i]).status = "PASS"
  IN [Result("D2-CERT", [i \in Blocks |-> D2Block(i, world[i])],
             [i \in Blocks |-> D2Fidelity(i, world[i])],
             [violation_count |-> violations, certificate_granted |-> FALSE])
      EXCEPT !.interval = violations,
             !.status = IF ~stable THEN "FIDELITY_INDETERMINATE"
                        ELSE IF violations >= WithdrawalCount
                        THEN "LOCKED_AUDIT_WITHDRAWAL_TRIGGERED"
                        ELSE "NOT_CONTRADICTED_BY_LOCKED_AUDIT"]

\* The two-bit swap: the coarse bit repeats with period two.
SwapBlocks ==
  [s \in (0 .. 1) \X (0 .. 1) |->
     [initial_microstate |-> s, coarse_sequence |-> <<s[1], s[2], s[1], s[2]>>,
      failure_code |-> None]]

Ambiguous(blocks) ==
  \E a, b \in DOMAIN blocks :
    /\ blocks[a].coarse_sequence[1] = blocks[b].coarse_sequence[1]
    /\ blocks[a].coarse_sequence[2] # blocks[b].coarse_sequence[2]

Repaired(blocks) ==
  \A a \in DOMAIN blocks :
    blocks[a].coarse_sequence[3] = blocks[a].coarse_sequence[1]

RunD2Mem ==
  LET passed == Ambiguous(SwapBlocks) /\ Repaired(SwapBlocks)
      fidelity == FidelityRecord(0, ~passed, ~passed)
  IN Conformance("D2-MEM", IF passed THEN "PASS" ELSE "FAIL",
       IF passed THEN 0 ELSE 1, 4, SwapBlocks, fidelity,
       [lag0_fails |-> Ambiguous(SwapBlocks),
        lag1_exact_repair |-> Repaired(SwapBlocks)])

-----------------------------------------------------------------------------
(* The comparison of search policies and the template audit.               *)

NumericOrder == [k \in 1 .. CandidateCount |-> k - 1]

\* Half of the rows, at most: a loss of 1 is invisible to them.
CheapScore(loss, c) == loss[c] \div 2

AdaptiveOrder(loss) ==
  CHOOSE o \in Orders : \A j, k \in 1 .. CandidateCount : j < k =>
    \/ CheapScore(loss, o[j]) < CheapScore(loss, o[k])
    \/ CheapScore(loss, o[j]) = CheapScore(loss, o[k]) /\ o[j] < o[k]

OrderOf(policy, loss) ==
  CASE policy = "exhaustive" -> NumericOrder
    [] policy = "fixed_order" -> FixedOrder
    [] policy = "development_frozen_order" -> DevelopmentOrder
    [] policy = "adaptive_fidelity" -> AdaptiveOrder(loss)

\* The adaptive policy gives up where the evaluators part; every policy but
\* the exhaustive one accepts the first candidate without a mismatch.
Parts(policy, w, c) ==
  policy = "adaptive_fidelity" /\ w.reference[c] # w.loss[c]

StopsAt(policy, w, order) ==
  Min({k \in 1 .. CandidateCount :
         \/ k = CandidateCount
         \/ Parts(policy, w, order[k])
         \/ policy # "exhaustive" /\ w.loss[order[k]] = 0})

BestOf(loss) ==
  Min({c \in Candidates : \A d \in Candidates : loss[c] <= loss[d]})

AcceptedAt(policy, w, last) ==
  IF policy = "exhaustive" THEN BestOf(w.loss)
  ELSE IF Parts(policy, w, last) \/ w.loss[last] # 0 THEN None ELSE last

SearchIn(policy, w, order, tried) ==
  [tried |-> tried,
   parted |-> Parts(policy, w, order[tried]),
   accepted |-> AcceptedAt(policy, w, order[tried])]

Search(policy, w, order) ==
  SearchIn(policy, w, order, StopsAt(policy, w, order))

Accepted(policy, w) == Search(policy, w, OrderOf(policy, w.loss)).accepted

Spent(policy, search) ==
  LET adaptive == policy = "adaptive_fidelity"
  IN [ordering_units |-> IF policy = "exhaustive" THEN 0 ELSE CandidateCount,
      probe_steps |-> 8,
      candidate_block_steps |->
        8 * search.tried + IF adaptive THEN 4 * CandidateCount ELSE 0,
      reference_refinement_steps |->
        (IF adaptive THEN 8 * search.tried ELSE 0)
          + IF search.accepted = None THEN 0 ELSE 8,
      retry_steps |-> IF search.parted THEN 8 ELSE 0]

TotalCost(ledger) ==
  ledger.ordering_units + ledger.probe_steps + ledger.candidate_block_steps
    + ledger.reference_refinement_steps + ledger.retry_steps

Sound(w, accepted) ==
  accepted # None /\ w.loss[accepted] = 0 /\ w.reference[accepted] = 0

\* Without an accepted candidate the reference loss is reported as infinite.
RowOf(w, accepted, ledger) ==
  [decision |-> IF Sound(w, accepted) THEN "ACCEPT_BEST_CANDIDATE"
                                      ELSE "INDETERMINATE",
   best_candidate |-> accepted,
   finite_reference_loss |-> accepted # None,
   cost_ledger |-> ledger,
   total_cost_units |-> TotalCost(ledger),
   unbilled_loss_accesses |-> 0,
   hidden_precomputation_detected |-> FALSE,
   fidelity_status |-> IF Sound(w, accepted) THEN "PASS"
                                             ELSE "FIDELITY_INDETERMINATE"]

PolicyRow(policy, w) ==
  LET search == Search(policy, w, OrderOf(policy, w.loss))
  IN RowOf(w, search.accepted, Spent(policy, search))

Follows(row, exhaustive) ==
  /\ row.decision = exhaustive.decision
  /\ row.best_candidate = exhaustive.best_candidate

EFidelity(i, w) ==
  LET row == PolicyRow("exhaustive", w)
  IN FidelityRecord(i, FALSE,
       (row.decision = "ACCEPT_BEST_CANDIDATE") # (w.reference[row.best_candidate] = 0))

Common(rows) ==
  \A p \in Policies : /\ Follows(rows[p], rows["exhaustive"])
                      /\ rows[p].fidelity_status = "PASS"

Hidden(rows) == \E p \in Policies : rows[p].hidden_precomputation_detected

EBlockOf(i, rows) ==
  [block_id |-> i,
   policy_results |-> rows,
   all_policies_match_exhaustive |-> Common(rows),
   hidden_cost_detected |-> Hidden(rows),
   failure_code |-> IF Hidden(rows) THEN "UNBILLED_LOSS_ACCESS"
                    ELSE IF ~Common(rows) THEN "ADVERSE" ELSE None]

EBlock(i, w) == EBlockOf(i, [p \in Policies |-> PolicyRow(p, w)])

SumOf(units) == MapThenSumSet(LAMBDA i : units[i], DOMAIN units)

PolicyTotals(blocks) ==
  [p \in Policies |->
     LET total == SumOf([i \in DOMAIN blocks |->
                           blocks[i].policy_results[p].total_cost_units])
     IN [total_cost_units |-> total,
         block_failures |->
           Cardinality({i \in DOMAIN blocks :
             ~Follows(blocks[i].policy_results[p],
                      blocks[i].policy_results["exhaustive"])}),
         budget_exceeded |-> total > CostBudget]]

\* A policy over its budget makes every block adverse.
Budgeted(result) ==
  IF \E p \in Policies : result.summary[p].budget_exceeded
  THEN [result EXCEPT !.status = "FAIL", !.numerator = BlockCount,
                      !.interval = BlockCount]
  ELSE result

EResult(blocks, fidelities) ==
  Budgeted(Result("E", blocks, fidelities, PolicyTotals(blocks)))

RunE(world) == EResult([i \in Blocks |-> EBlock(i, world[i])],
                       [i \in Blocks |-> EFidelity(i, world[i])])

F0Fidelity(i, w) ==
  FidelityRecord(i, w.registered # w.reference, w.registered # w.reference)

F0Block(i, w) ==
  LET negative == w.case = "negative_control"
      conformance == w.registered = IF negative THEN "below" ELSE "expected"
  IN [block_id |-> i,
      case_type |-> w.case,
      expected_template |-> IF negative THEN None ELSE "expected",
      detected_template |-> IF w.registered = "below" THEN None ELSE w.registered,
      similar |-> w.registered # "below",
      template_conformance |-> conformance,
      failure_code |-> CodeOf(F0Fidelity(i, w), ~conformance)]

StrataCounts(blocks) ==
  [t \in {"registered_translation", "single_cell_perturbation",
          "negative_control"} |->
     Cardinality({i \in DOMAIN blocks : blocks[i].case_type = t})]

RunF0(world) ==
  LET blocks == [i \in Blocks |-> F0Block(i, world[i])]
  IN Result("F0", blocks, [i \in Blocks |-> F0Fidelity(i, world[i])],
            StrataCounts(blocks))

-----------------------------------------------------------------------------
(* The bundle, and what may be written.                                    *)

Run(e, world) ==
  CASE e = "A0" -> RunA0(world)
    [] e = "A1" -> RunA1(world)
    [] e \in {"B0", "B1"} -> RunB(e, world)
    [] e = "C" -> RunC(world)
    [] e = "D0" -> RunD0(world)
    [] e = "D1" -> RunD1(world)
    [] e = "D2-CERT" -> RunD2Cert(world)
    [] e = "D2-MEM" -> RunD2Mem
    [] e = "E" -> RunE(world)
    [] e = "F0" -> RunF0(world)

\* The contract of an endpoint is represented by the endpoint's name.
BindSnapshots(result) ==
  [result EXCEPT !.fidelity_records =
     [i \in DOMAIN @ |-> [@[i] EXCEPT !.frozen_contract_snapshot = result.sub_id]]]

\* E is adverse in every block where one of its policies is over budget.
AdverseBlockCount(result) ==
  IF result.sub_id = "E" /\ \E p \in Policies : result.summary[p].budget_exceeded
  THEN Cardinality(DOMAIN result.block_records)
  ELSE Cardinality(Failing(result.block_records))

BlockIds(rows) == [i \in DOMAIN rows |-> rows[i].block_id]

ValidResult(result) ==
  LET blocks == result.block_records
      fidelities == result.fidelity_records
  IN /\ result.denominator = Cardinality(DOMAIN blocks)
     /\ result.numerator \in 0 .. result.denominator
     /\ result.sub_id \in RoleDerived =>
          /\ result.numerator = AdverseBlockCount(result)
          /\ result.denominator = BlockCount
          /\ Cardinality({blocks[i].block_id : i \in DOMAIN blocks})
               = Cardinality(DOMAIN blocks)
          /\ BlockIds(fidelities) = BlockIds(blocks)
     /\ (\E i \in DOMAIN fidelities :
           fidelities[i].status = "FIDELITY_INDETERMINATE")
          => result.numerator # 0
     /\ \A i \in DOMAIN fidelities :
          fidelities[i].frozen_contract_snapshot = result.sub_id

ValidResults(results) ==
  /\ DOMAIN results = Endpoints
  /\ \A e \in Endpoints : ValidResult(results[e])

\* JSON without NaN and infinities: an infinite loss cannot be serialised.
Serialisable(results) ==
  \A i \in DOMAIN results["E"].block_records : \A p \in Policies :
    results["E"].block_records[i].policy_results[p].finite_reference_loss

=============================================================================
