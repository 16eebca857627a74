--------------------------- MODULE Recomputation ---------------------------
(***************************************************************************)
(* The read-only audit of a locked result bundle                           *)
(* (tools/recompute_locked_result_readonly_v2_4.py): it shares no code     *)
(* with the program that wrote the bundle and recomputes every verdict     *)
(* from the primitive evidence of the block records.                       *)
(*                                                                         *)
(* The audit collects coded issues and blocks when there is one.  The      *)
(* codes and the rows they name are abstracted: an operator Consistent*    *)
(* holds when the audit of an endpoint finds no issue.                     *)
(***************************************************************************)
EXTENDS LockedResults

-----------------------------------------------------------------------------
(* What every endpoint's audit begins with.                                *)

RecordDomain(e) ==
  CASE e = "A0" -> Candidates
    [] e = "C" -> Cases
    [] e = "D1" -> 1 .. 1
    [] e = "D2-MEM" -> (0 .. 1) \X (0 .. 1)
    [] OTHER -> Blocks

BlockIdEndpoints == RoleDerived \cup {"D0"}

FidelityDomain(e) == IF e \in BlockIdEndpoints THEN Blocks ELSE 1 .. 1

BaseEndpointCheck(e, r) ==
  /\ r.sub_id = e
  /\ DOMAIN r.block_records = RecordDomain(e)
  /\ DOMAIN r.fidelity_records = FidelityDomain(e)
  /\ r.denominator = Cardinality(RecordDomain(e))

FidelityComplete(e, row) ==
  /\ row.frozen_contract_snapshot # None
  /\ row.status = "PASS" /\ e # "A0" =>
       /\ ~row.observable_changed
       /\ ~row.decision_changed
       /\ ~row.further_refinement_required

FidelityIndex(e, r) ==
  LET rows == r.fidelity_records
  IN /\ \A i \in DOMAIN rows : FidelityComplete(e, rows[i])
     /\ e \in BlockIdEndpoints => \A i \in DOMAIN rows : rows[i].block_id = i

Stable(r) == \A i \in DOMAIN r.fidelity_records : r.fidelity_records[i].status = "PASS"

StableAt(r, i) == r.fidelity_records[i].status = "PASS"

\* The failure rows are those of the blocks that carry a code, in order.
LedgerCrosscheck(r) ==
  LET blocks == r.block_records
  IN /\ r.failure_ledger
          = [i \in Failing(blocks) |-> blocks[i].failure_code]
     /\ \A i \in Failing(blocks) : blocks[i].block_id = i

\* Mutant: the reported count is not compared.
CommonResultStatusOnly(r, numerator, status) == r.status = status

CommonResult(r, numerator, status) ==
  /\ r.numerator = numerator
  /\ r.status = status

PassOrFail(numerator) == IF numerator = 0 THEN "PASS" ELSE "FAIL"

-----------------------------------------------------------------------------
(* A0, A1, B0 and B1.                                                      *)

ConsistentA0(r) ==
  LET blocks == r.block_records
      failures == r.failure_ledger
      matched == failures = 0
  IN /\ BaseEndpointCheck("A0", r)
     /\ FidelityIndex("A0", r)
     /\ \A c \in DOMAIN blocks : /\ blocks[c].rule_id = c
                                 /\ blocks[c].truth_table = blocks[c].rule_id
                                 /\ blocks[c].failure_code = None
     /\ r.summary.signature_count
          = Cardinality({blocks[c].canonical_signature : c \in DOMAIN blocks})
     /\ r.summary.reference_production_match = matched
     /\ Stable(r) = matched
     /\ CommonResult(r, failures, PassOrFail(failures))

\* The signatures A1 is judged by are the ones A0 reports.
A0Signatures(results) ==
  [c \in Candidates |-> results["A0"].block_records[c].canonical_signature]

A1Structure(r, i, signatures) ==
  LET b == r.block_records[i]
      retained == {c \in DOMAIN b.candidate_losses : b.candidate_losses[c] <= 0}
      classes == {signatures[c] : c \in retained}
  IN /\ b.block_id = i
     /\ DOMAIN b.candidate_losses = Candidates
     /\ b.retained_candidates = retained
     /\ b.truth_candidate_retained = (b.truth_rule \in retained)
     /\ b.truth_signature_class = signatures[b.truth_rule]
     /\ b.retained_signature_classes = classes
     /\ b.truth_class_retained = (signatures[b.truth_rule] \in classes)

A1Event(r, i, signatures) ==
  LET b == r.block_records[i]
  IN \/ ~A1Structure(r, i, signatures)
     \/ ~b.truth_candidate_retained
     \/ ~b.truth_class_retained
     \/ ~StableAt(r, i)
     \/ b.failure_code # None

ConsistentA1(r, signatures) ==
  LET adverse == {i \in Blocks : A1Event(r, i, signatures)}
  IN /\ BaseEndpointCheck("A1", r)
     /\ FidelityIndex("A1", r)
     /\ \A i \in Blocks : A1Structure(r, i, signatures)
     /\ \A i \in Blocks : r.block_records[i].failure_event = (i \in adverse)
     /\ LedgerCrosscheck(r)
     /\ CommonResult(r, Cardinality(adverse), PassOrFail(Cardinality(adverse)))
     /\ r.interval = Cardinality(adverse)

BEvent(e, r, i) ==
  LET b == r.block_records[i]
      decision == ClassDecision(b.candidate_exact_lower_bounds)
  IN \/ b.block_id # i
     \/ IF e = "B0" THEN decision = "MODEL_CLASS_INADEQUATE"
                    ELSE decision # "MODEL_CLASS_INADEQUATE"
     \/ ~StableAt(r, i)
     \/ b.failure_code # None

ConsistentB(e, r) ==
  LET adverse == {i \in Blocks : BEvent(e, r, i)}
  IN /\ BaseEndpointCheck(e, r)
     /\ FidelityIndex(e, r)
     /\ \A i \in Blocks :
          LET b == r.block_records[i]
          IN /\ b.class_lower_bounds = b.candidate_exact_lower_bounds
             /\ b.decision = ClassDecision(b.candidate_exact_lower_bounds)
             /\ b.failure_event = (i \in adverse)
     /\ LedgerCrosscheck(r)
     /\ CommonResult(r, Cardinality(adverse), PassOrFail(Cardinality(adverse)))
     /\ r.interval = Cardinality(adverse)

-----------------------------------------------------------------------------
(* C, D0, D1 and the two D2.                                               *)

CStructure(b) ==
  /\ ~b.clipping_applied
  /\ \A t \in DOMAIN b.path : /\ b.path[t].violation = b.path[t].beyond
                              /\ b.path[t].domain_exit = b.path[t].exit
  /\ b.domain_exit = \E t \in DOMAIN b.path : b.path[t].exit

ConsistentC(r) ==
  LET blocks == r.block_records
      paths == [k \in DOMAIN blocks |-> blocks[k].path]
      adverse == {k \in DOMAIN blocks :
                    \/ \E t \in DOMAIN paths[k] : paths[k][t].beyond \/ paths[k][t].exit
                    \/ ~Stable(r)
                    \/ ~CStructure(blocks[k])}
  IN /\ BaseEndpointCheck("C", r)
     /\ FidelityIndex("C", r)
     /\ \A k \in DOMAIN blocks : CStructure(blocks[k])
     /\ r.summary.exits = ExitsOf(paths)
     /\ r.summary.violations = ViolationsOf(paths)
     /\ IF Stable(r)
        THEN CommonResult(r, Cardinality(adverse),
               IF ExitsOf(paths) > 0 THEN "DOMAIN_EXIT_WITHDRAWAL"
                                     ELSE PassOrFail(Cardinality(adverse)))
        ELSE CommonResult(r, CaseCount, "FIDELITY_INDETERMINATE")

D0Event(r, i) ==
  LET b == r.block_records[i]
  IN \/ ~b.full_microstate_identity
     \/ ~StableAt(r, i)
     \/ b.failure_code # None
     \/ b.block_id # i

ConsistentD0(r) ==
  LET adverse == {i \in Blocks : D0Event(r, i)}
  IN /\ BaseEndpointCheck("D0", r)
     /\ FidelityIndex("D0", r)
     /\ LedgerCrosscheck(r)
     /\ CommonResult(r, Cardinality(adverse), PassOrFail(Cardinality(adverse)))

\* Rule 90 is the exclusive or of the two neighbours on a ring of four cells.
Rule90Ones(s) ==
  Cardinality({i \in 1 .. 4 : s[IF i = 1 THEN 4 ELSE i - 1]
                              # s[IF i = 4 THEN 1 ELSE i + 1]})

ConsistentD1(r) ==
  LET b == r.block_records[1]
      recomputed == <<Rule90Ones(b.microstate_pair[1]),
                      Rule90Ones(b.microstate_pair[2])>>
      structure == /\ b.microstate_pair = WitnessPair
                   /\ b.next_density = recomputed
      witness == structure /\ recomputed[1] # recomputed[2]
      event == ~witness \/ ~Stable(r)
      status == IF event THEN "FAIL" ELSE "PASS"
  IN /\ BaseEndpointCheck("D1", r)
     /\ FidelityIndex("D1", r)
     /\ r.summary.nonclosure_witness = witness
     /\ r.failure_ledger = IF event THEN {"FAIL"} ELSE {}
     /\ CommonResult(r, IF event THEN 1 ELSE 0, status)

D2Violation(b, i) == b.block_id = i /\ b.maximum_density_discrepancy > 0

D2Adverse(r, i) ==
  LET b == r.block_records[i]
  IN \/ b.block_id # i
     \/ D2Violation(b, i)
     \/ ~StableAt(r, i)
     \/ b.failure_code # None

ConsistentD2Cert(r) ==
  LET blocks == r.block_records
      violations == Cardinality({i \in Blocks : D2Violation(blocks[i], i)})
      adverse == {i \in Blocks : D2Adverse(r, i)}
  IN /\ BaseEndpointCheck("D2-CERT", r)
     /\ FidelityIndex("D2-CERT", r)
     /\ \A i \in Blocks : blocks[i].violation = D2Violation(blocks[i], i)
     /\ LedgerCrosscheck(r)
     /\ r.summary.violation_count = violations
     /\ r.interval = violations
     /\ ~r.summary.certificate_granted
     /\ CommonResult(r, Cardinality(adverse),
          IF ~Stable(r) THEN "FIDELITY_INDETERMINATE"
          ELSE IF violations >= WithdrawalCount
          THEN "LOCKED_AUDIT_WITHDRAWAL_TRIGGERED"
          ELSE "NOT_CONTRADICTED_BY_LOCKED_AUDIT")

ConsistentD2Mem(r) ==
  LET blocks == r.block_records
      complete == {blocks[s].initial_microstate : s \in DOMAIN blocks}
                    = (0 .. 1) \X (0 .. 1)
      passed == complete /\ Ambiguous(blocks) /\ Repaired(blocks) /\ Stable(r)
  IN /\ BaseEndpointCheck("D2-MEM", r)
     /\ FidelityIndex("D2-MEM", r)
     /\ r.summary.lag0_fails = Ambiguous(blocks)
     /\ r.summary.lag1_exact_repair = Repaired(blocks)
     /\ CommonResult(r, IF passed THEN 0 ELSE 1, IF passed THEN "PASS" ELSE "FAIL")

-----------------------------------------------------------------------------
(* E and F0.                                                               *)

EMatches(b) ==
  \A p \in Policies : /\ Follows(b.policy_results[p], b.policy_results["exhaustive"])
                      /\ b.policy_results[p].fidelity_status = "PASS"

EHidden(b) == \E p \in Policies : b.policy_results[p].unbilled_loss_accesses > 0

ECode(b) ==
  IF EHidden(b) THEN "UNBILLED_LOSS_ACCESS"
  ELSE IF ~EMatches(b) THEN "ADVERSE" ELSE None

EStructure(r, i) ==
  LET b == r.block_records[i]
  IN /\ b.block_id = i
     /\ \A p \in Policies :
          LET row == b.policy_results[p]
          IN /\ row.total_cost_units = TotalCost(row.cost_ledger)
             /\ row.hidden_precomputation_detected = (row.unbilled_loss_accesses > 0)
     /\ b.all_policies_match_exhaustive = EMatches(b)
     /\ b.hidden_cost_detected = EHidden(b)
     /\ b.failure_code = ECode(b)

EEvent(r, i) ==
  LET b == r.block_records[i]
  IN \/ ~EStructure(r, i)
     \/ EHidden(b)
     \/ ~EMatches(b)
     \/ ~StableAt(r, i)
     \/ b.failure_code # None

\* The totals are summed from the components, not from the reported totals.
AuditedTotals(blocks) ==
  [p \in Policies |->
     LET total == SumOf([i \in DOMAIN blocks |->
                           TotalCost(blocks[i].policy_results[p].cost_ledger)])
     IN [total_cost_units |-> total,
         block_failures |->
           Cardinality({i \in DOMAIN blocks :
             ~Follows(blocks[i].policy_results[p],
                      blocks[i].policy_results["exhaustive"])}),
         budget_exceeded |-> total > CostBudget]]

ConsistentE(r) ==
  LET blocks == r.block_records
      totals == AuditedTotals(blocks)
      adverse == {i \in Blocks : EEvent(r, i)}
      numerator == IF \E p \in Policies : totals[p].budget_exceeded
                   THEN BlockCount ELSE Cardinality(adverse)
  IN /\ BaseEndpointCheck("E", r)
     /\ FidelityIndex("E", r)
     /\ \A i \in Blocks : blocks[i].failure_code = ECode(blocks[i])
     /\ r.summary = totals
     /\ CommonResult(r, numerator, PassOrFail(numerator))
     /\ r.interval = numerator

F0Conforms(b) ==
  IF b.case_type = "negative_control"
  THEN ~b.similar /\ b.detected_template = None
  ELSE b.similar /\ b.detected_template = b.expected_template

F0Event(r, i) ==
  LET b == r.block_records[i]
  IN \/ b.block_id # i
     \/ ~F0Conforms(b)
     \/ b.template_conformance # F0Conforms(b)
     \/ ~StableAt(r, i)
     \/ b.failure_code # None

ConsistentF0(r) ==
  LET blocks == r.block_records
      adverse == {i \in Blocks : F0Event(r, i)}
  IN /\ BaseEndpointCheck("F0", r)
     /\ FidelityIndex("F0", r)
     /\ \A i \in Blocks : blocks[i].template_conformance = F0Conforms(blocks[i])
     /\ LedgerCrosscheck(r)
     /\ r.summary = StrataCounts(blocks)
     /\ CommonResult(r, Cardinality(adverse), PassOrFail(Cardinality(adverse)))
     /\ r.interval = Cardinality(adverse)

-----------------------------------------------------------------------------
Consistent(e, results) ==
  CASE e = "A0" -> ConsistentA0(results["A0"])
    [] e = "A1" -> ConsistentA1(results["A1"], A0Signatures(results))
    [] e \in {"B0", "B1"} -> ConsistentB(e, results[e])
    [] e = "C" -> ConsistentC(results["C"])
    [] e = "D0" -> ConsistentD0(results["D0"])
    [] e = "D1" -> ConsistentD1(results["D1"])
    [] e = "D2-CERT" -> ConsistentD2Cert(results["D2-CERT"])
    [] e = "D2-MEM" -> ConsistentD2Mem(results["D2-MEM"])
    [] e = "E" -> ConsistentE(results["E"])
    [] e = "F0" -> ConsistentF0(results["F0"])

\* A missing endpoint is an issue; so is an A0 that gives no signature map,
\* which the count of its blocks covers here.
AuditPasses(results) ==
  /\ DOMAIN results = Endpoints
  /\ DOMAIN results["A0"].block_records = Candidates
  /\ \A e \in Endpoints : Consistent(e, results)

=============================================================================
