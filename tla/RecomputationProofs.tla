------------------------ MODULE RecomputationProofs ------------------------
(***************************************************************************)
(* The two programs that judge a locked result agree, for any evaluators,  *)
(* counts, orders and budget: whatever the endpoints of LockedResults make *)
(* of their evaluators, the audit of Recomputation finds consistent; and   *)
(* what the audit recomputes leaves no choice of a conclusion.             *)
(***************************************************************************)
EXTENDS Recomputation, FiniteSetTheorems, TLAPS

-----------------------------------------------------------------------------
(* How many rows there are, and which of them fail.                        *)

LEMMA Counts ==
  /\ IsFiniteSet(Blocks) /\ Cardinality(Blocks) = BlockCount
  /\ IsFiniteSet(Candidates) /\ Cardinality(Candidates) = CandidateCount
  /\ IsFiniteSet(Cases) /\ Cardinality(Cases) = CaseCount
  /\ IsFiniteSet((0 .. 1) \X (0 .. 1)) /\ Cardinality((0 .. 1) \X (0 .. 1)) = 4
  /\ Cardinality(1 .. 1) = 1
<1>1. IsFiniteSet(Blocks) /\ Cardinality(Blocks) = BlockCount
  <2>1. 1 \in Int /\ BlockCount \in Int /\ ~(1 > BlockCount)
    BY BlockCountAssumption
  <2>2. IsFiniteSet(1 .. BlockCount) /\ Cardinality(1 .. BlockCount) = BlockCount - 1 + 1
    BY <2>1, FS_Interval
  <2>3. QED BY <2>1, <2>2 DEF Blocks
<1>2. IsFiniteSet(Candidates) /\ Cardinality(Candidates) = CandidateCount
  <2>1. 0 \in Int /\ CandidateCount - 1 \in Int /\ ~(0 > CandidateCount - 1)
    BY CandidateCountAssumption
  <2>2. /\ IsFiniteSet(0 .. CandidateCount - 1)
        /\ Cardinality(0 .. CandidateCount - 1) = (CandidateCount - 1) - 0 + 1
    BY <2>1, FS_Interval
  <2>3. QED BY <2>1, <2>2, CandidateCountAssumption DEF Candidates
<1>3. IsFiniteSet(Cases) /\ Cardinality(Cases) = CaseCount
  <2>1. 1 \in Int /\ CaseCount \in Int /\ ~(1 > CaseCount)
    BY CountsAssumption
  <2>2. IsFiniteSet(1 .. CaseCount) /\ Cardinality(1 .. CaseCount) = CaseCount - 1 + 1
    BY <2>1, FS_Interval
  <2>3. QED BY <2>1, <2>2 DEF Cases
<1>4. IsFiniteSet((0 .. 1) \X (0 .. 1)) /\ Cardinality((0 .. 1) \X (0 .. 1)) = 4
  <2>1. 0 \in Int /\ 1 \in Int /\ ~(0 > 1) /\ 1 - 0 + 1 = 2 /\ 2 * 2 = 4
    OBVIOUS
  <2>2. IsFiniteSet(0 .. 1) /\ Cardinality(0 .. 1) = 2
    BY <2>1, FS_Interval
  <2>3. QED BY <2>1, <2>2, FS_Product
<1>5. Cardinality(1 .. 1) = 1
  <2>1. 1 .. 1 = {1}
    OBVIOUS
  <2>2. QED BY <2>1, FS_Singleton
<1>6. QED BY <1>1, <1>2, <1>3, <1>4, <1>5

LEMMA FailingIsCounted ==
  ASSUME NEW blocks, NEW S, DOMAIN blocks = S, IsFiniteSet(S)
  PROVE  /\ Failing(blocks) \subseteq S /\ IsFiniteSet(Failing(blocks))
         /\ Cardinality(Failing(blocks)) \in Nat
         /\ Cardinality(Failing(blocks)) = 0 <=> Failing(blocks) = {}
<1>1. Failing(blocks) \in SUBSET S
  BY DEF Failing
<1>2. IsFiniteSet(Failing(blocks))
  BY <1>1, FS_Subset
<1>3. QED BY <1>1, <1>2, FS_CardinalityType, FS_EmptySet

\* A fidelity row, bound to the contract of its endpoint.
BoundRow(id, o, d, e) ==
  [FidelityRecord(id, o, d) EXCEPT !.frozen_contract_snapshot = e]

\* The fidelity rows of an endpoint, and the same rows once they are bound:
\* observables change at the blocks of O, decisions at those of D.
FidelitiesOf(O, D) == [i \in Blocks |-> FidelityRecord(i, O[i], D[i])]

BoundRows(O, D, e) == [i \in Blocks |-> BoundRow(i, O[i], D[i], e)]

LEMMA BoundRowFields ==
  ASSUME NEW id, NEW o \in BOOLEAN, NEW d \in BOOLEAN, NEW e \in Endpoints
  PROVE  LET row == BoundRow(id, o, d, e)
         IN /\ row.block_id = id
            /\ row.frozen_contract_snapshot = e
            /\ row.status = FidelityRecord(id, o, d).status
            /\ row.status = "PASS" <=> ~o /\ ~d
            /\ row.status # "PASS" <=> row.status = "FIDELITY_INDETERMINATE"
            /\ FidelityComplete(e, row)
BY NoneAssumption DEF BoundRow, FidelityRecord, FidelityComplete, Endpoints

LEMMA RowsAreIndexed ==
  ASSUME NEW e \in BlockIdEndpoints, NEW O \in [Blocks -> BOOLEAN],
         NEW D \in [Blocks -> BOOLEAN], NEW r,
         r.sub_id = e, DOMAIN r.block_records = Blocks, r.denominator = BlockCount,
         r.fidelity_records = BoundRows(O, D, e)
  PROVE  /\ BaseEndpointCheck(e, r) /\ FidelityIndex(e, r)
         /\ \A i \in Blocks : StableAt(r, i) <=> ~O[i] /\ ~D[i]
<1>1. e \in Endpoints /\ RecordDomain(e) = Blocks /\ FidelityDomain(e) = Blocks
  BY DEF BlockIdEndpoints, RoleDerived, IntervalEndpoints, Endpoints, RecordDomain, FidelityDomain
<1>2. DOMAIN r.fidelity_records = Blocks
  BY DEF BoundRows
<1>3. BaseEndpointCheck(e, r)
  BY <1>1, <1>2, Counts DEF BaseEndpointCheck
<1>4. \A i \in Blocks : /\ FidelityComplete(e, r.fidelity_records[i])
                        /\ r.fidelity_records[i].block_id = i
                        /\ StableAt(r, i) <=> ~O[i] /\ ~D[i]
  <2> TAKE i \in Blocks
  <2>1. r.fidelity_records[i] = BoundRow(i, O[i], D[i], e) /\ O[i] \in BOOLEAN /\ D[i] \in BOOLEAN
    BY DEF BoundRows
  <2>2. QED BY <1>1, <2>1, BoundRowFields DEF StableAt
<1>5. QED BY <1>2, <1>3, <1>4 DEF FidelityIndex

\* What the blocks of a role-derived endpoint or of D0 owe to Result.
Ledgered(e, r, blocks, fids, summary) ==
  /\ BaseEndpointCheck(e, r) /\ FidelityIndex(e, r) /\ LedgerCrosscheck(r)
  /\ \A i \in Blocks : StableAt(r, i) <=> fids[i].status = "PASS"
  /\ r.block_records = blocks /\ r.summary = summary
  /\ r.interval = Cardinality(Failing(blocks))
  /\ CommonResult(r, Cardinality(Failing(blocks)),
                  PassOrFail(Cardinality(Failing(blocks))))

LEMMA LedgerEndpoint ==
  ASSUME NEW e \in IntervalEndpoints \cup {"D0"}, NEW blocks, NEW summary,
         NEW O \in [Blocks -> BOOLEAN], NEW D \in [Blocks -> BOOLEAN],
         NEW fids, fids = FidelitiesOf(O, D),
         DOMAIN blocks = Blocks, \A i \in Blocks : blocks[i].block_id = i,
         NEW r, r = BindSnapshots(Result(e, blocks, fids, summary))
  PROVE  Ledgered(e, r, blocks, fids, summary)
<1>1. e \in IntervalEndpoints \cup {"D0", "D2-CERT"} /\ e \in BlockIdEndpoints
  BY DEF BlockIdEndpoints, RoleDerived
<1>2. /\ r.sub_id = e /\ r.block_records = blocks /\ r.summary = summary
      /\ r.status = IF Failing(blocks) = {} THEN "PASS" ELSE "FAIL"
      /\ r.numerator = Cardinality(Failing(blocks))
      /\ r.interval = Cardinality(Failing(blocks))
      /\ r.denominator = BlockCount
      /\ r.failure_ledger = [i \in Failing(blocks) |-> blocks[i].failure_code]
      /\ r.fidelity_records = BoundRows(O, D, e)
  <2> DEFINE q == Result(e, blocks, fids, summary)
             rows == [i \in DOMAIN q.fidelity_records |->
                        [q.fidelity_records[i] EXCEPT !.frozen_contract_snapshot = q.sub_id]]
  <2>1. r = [q EXCEPT !.fidelity_records = rows]
    BY DEF BindSnapshots
  <2>2. q.sub_id = e /\ q.fidelity_records = fids
    BY DEF Result
  <2>3. rows = BoundRows(O, D, e)
    BY <2>2 DEF BoundRow, BoundRows, FidelitiesOf
  <2> HIDE DEF rows
  <2>4. QED BY <1>1, <2>1, <2>3 DEF Result
<1>3. /\ BaseEndpointCheck(e, r) /\ FidelityIndex(e, r)
      /\ \A i \in Blocks : StableAt(r, i) <=> ~O[i] /\ ~D[i]
  <2>1. /\ r.sub_id = e /\ DOMAIN r.block_records = Blocks
        /\ r.denominator = BlockCount /\ r.fidelity_records = BoundRows(O, D, e)
    BY <1>2
  <2>2. QED BY <1>1, <2>1, RowsAreIndexed
<1>4. \A i \in Blocks : fids[i].status = "PASS" <=> ~O[i] /\ ~D[i]
  BY DEF FidelityRecord, FidelitiesOf
<1>5. LedgerCrosscheck(r)
  BY <1>2 DEF LedgerCrosscheck, Failing
<1>6. CommonResult(r, Cardinality(Failing(blocks)),
                   PassOrFail(Cardinality(Failing(blocks))))
  BY <1>2, Counts, FailingIsCounted DEF CommonResult, PassOrFail
<1>7. QED BY <1>2, <1>3, <1>4, <1>5, <1>6 DEF Ledgered

-----------------------------------------------------------------------------
(* A1, B0, B1, D0 and F0.                                                  *)

LEMMA A1Passes ==
  ASSUME NEW world \in A1World
  PROVE  ConsistentA1(BindSnapshots(RunA1(world)), Signature)
<1> DEFINE O == [i \in Blocks |-> world[i].registered # world[i].reference]
           D == [i \in Blocks |-> Retained(world[i].registered) # Retained(world[i].reference)]
           blocks == [i \in Blocks |-> A1Block(i, world[i])]
           fids == [i \in Blocks |-> A1Fidelity(i, world[i])]
           r == BindSnapshots(RunA1(world))
<1>1. O \in [Blocks -> BOOLEAN] /\ D \in [Blocks -> BOOLEAN] /\ DOMAIN blocks = Blocks
  OBVIOUS
<1>2. fids = FidelitiesOf(O, D)
  BY DEF A1Fidelity, FidelitiesOf
<1>3. \A i \in Blocks : blocks[i].block_id = i
  BY DEF A1Block
<1>4. r = BindSnapshots(Result("A1", blocks, fids, None))
  BY DEF RunA1
<1>5. \A i \in Blocks : blocks[i] = A1Block(i, world[i]) /\ fids[i] = A1Fidelity(i, world[i])
  OBVIOUS
<1> HIDE DEF O, D, fids, blocks, r
<1>6. Ledgered("A1", r, blocks, fids, None)
  BY <1>1, <1>2, <1>3, <1>4, LedgerEndpoint DEF IntervalEndpoints
<1>7. ASSUME NEW i \in Blocks
      PROVE  /\ A1Structure(r, i, Signature)
             /\ A1Event(r, i, Signature) <=> blocks[i].failure_code # None
             /\ blocks[i].failure_event = (blocks[i].failure_code # None)
  <2> DEFINE w == world[i]
             b == A1Block(i, w)
             code == CodeOf(A1Fidelity(i, w),
                            \/ w.truth \notin Retained(w.registered)
                            \/ Signature[w.truth] \notin Classes(Retained(w.registered)))
  <2>1. w \in [truth : Candidates, registered : Losses, reference : Losses]
    BY DEF A1World
  <2>2. r.block_records[i] = b /\ blocks[i] = b
    BY <1>5, <1>6 DEF Ledgered
  <2>3. DOMAIN w.registered = Candidates /\ w.truth \in Candidates
    BY <2>1 DEF Losses
  <2>4. Retained(w.registered) = {c \in DOMAIN w.registered : w.registered[c] <= 0}
    BY <2>1 DEF Losses, Retained
  <2> HIDE DEF w
  <2>5. A1Structure(r, i, Signature)
    BY <1>3, <2>2, <2>3, <2>4 DEF A1Structure, A1Block, Classes
  <2>6. /\ b.failure_code = code /\ b.failure_event = (code # None)
        /\ ~b.truth_candidate_retained \/ ~b.truth_class_retained
             <=> \/ w.truth \notin Retained(w.registered)
                 \/ Signature[w.truth] \notin Classes(Retained(w.registered))
    BY DEF A1Block
  <2> HIDE DEF b
  <2>7. code # None <=> \/ ~StableAt(r, i)
                        \/ ~b.truth_candidate_retained \/ ~b.truth_class_retained
    BY <1>5, <1>6, <2>6, NoneAssumption DEF CodeOf, w, Ledgered
  <2>8. QED BY <2>2, <2>5, <2>6, <2>7 DEF A1Event
<1>8. {i \in Blocks : A1Event(r, i, Signature)} = Failing(blocks)
  BY <1>1, <1>7 DEF Failing
<1>9. \A i \in Blocks : r.block_records[i].failure_event = (i \in Failing(blocks))
  BY <1>1, <1>6, <1>7 DEF Failing, Ledgered
<1>10. QED BY <1>6, <1>7, <1>8, <1>9 DEF ConsistentA1, r, Ledgered

LEMMA BPasses ==
  ASSUME NEW e \in {"B0", "B1"}, NEW world \in BWorld
  PROVE  ConsistentB(e, BindSnapshots(RunB(e, world)))
<1> DEFINE O == [i \in Blocks |-> world[i].registered # world[i].reference]
           D == [i \in Blocks |->
                   ClassDecision(world[i].registered) # ClassDecision(world[i].reference)]
           blocks == [i \in Blocks |-> BBlock(e, i, world[i])]
           fids == [i \in Blocks |-> BFidelity(i, world[i])]
           r == BindSnapshots(RunB(e, world))
<1>1. O \in [Blocks -> BOOLEAN] /\ D \in [Blocks -> BOOLEAN] /\ DOMAIN blocks = Blocks
  OBVIOUS
<1>2. fids = FidelitiesOf(O, D)
  BY DEF BFidelity, FidelitiesOf
<1>3. \A i \in Blocks : blocks[i].block_id = i
  BY DEF BBlock
<1>4. r = BindSnapshots(Result(e, blocks, fids, None))
  BY DEF RunB
<1>5. \A i \in Blocks : blocks[i] = BBlock(e, i, world[i]) /\ fids[i] = BFidelity(i, world[i])
  OBVIOUS
<1> HIDE DEF O, D, fids, blocks, r
<1>6. Ledgered(e, r, blocks, fids, None)
  BY <1>1, <1>2, <1>3, <1>4, LedgerEndpoint DEF IntervalEndpoints
<1>7. ASSUME NEW i \in Blocks
      PROVE  /\ blocks[i].class_lower_bounds = blocks[i].candidate_exact_lower_bounds
             /\ blocks[i].decision = ClassDecision(blocks[i].candidate_exact_lower_bounds)
             /\ BEvent(e, r, i) <=> blocks[i].failure_code # None
             /\ blocks[i].failure_event = (blocks[i].failure_code # None)
  <2> DEFINE w == world[i]
             b == BBlock(e, i, w)
             code == CodeOf(BFidelity(i, w), Undesired(e, ClassDecision(w.registered)))
  <2>1. r.block_records[i] = b /\ blocks[i] = b
    BY <1>5, <1>6 DEF Ledgered
  <2> HIDE DEF w
  <2>2. /\ b.failure_code = code /\ b.failure_event = (code # None)
        /\ b.candidate_exact_lower_bounds = w.registered
        /\ b.class_lower_bounds = w.registered
        /\ b.decision = ClassDecision(w.registered)
    BY DEF BBlock
  <2> HIDE DEF b
  <2>3. code # None <=> ~StableAt(r, i) \/ Undesired(e, ClassDecision(w.registered))
    BY <1>5, <1>6, NoneAssumption DEF CodeOf, w, Ledgered
  <2>4. BEvent(e, r, i) <=> \/ Undesired(e, ClassDecision(w.registered))
                            \/ ~StableAt(r, i) \/ code # None
    BY <1>3, <2>1, <2>2 DEF BEvent, Undesired
  <2>5. QED BY <2>1, <2>2, <2>3, <2>4
<1>8. {i \in Blocks : BEvent(e, r, i)} = Failing(blocks)
  BY <1>1, <1>7 DEF Failing
<1>9. \A i \in Blocks : r.block_records[i].failure_event = (i \in Failing(blocks))
  BY <1>1, <1>6, <1>7 DEF Failing, Ledgered
<1>10. QED BY <1>6, <1>7, <1>8, <1>9 DEF ConsistentB, r, Ledgered

LEMMA D0Passes ==
  ASSUME NEW world \in D0World
  PROVE  ConsistentD0(BindSnapshots(RunD0(world)))
<1> DEFINE O == [i \in Blocks |-> world[i].registered # world[i].reference]
           D == [i \in Blocks |->
                   (world[i].registered = "identity") # (world[i].reference = "identity")]
           blocks == [i \in Blocks |-> D0Block(i, world[i])]
           fids == [i \in Blocks |-> D0Fidelity(i, world[i])]
           r == BindSnapshots(RunD0(world))
<1>1. O \in [Blocks -> BOOLEAN] /\ D \in [Blocks -> BOOLEAN] /\ DOMAIN blocks = Blocks
  OBVIOUS
<1>2. fids = FidelitiesOf(O, D)
  BY DEF D0Fidelity, FidelitiesOf
<1>3. \A i \in Blocks : blocks[i].block_id = i
  BY DEF D0Block
<1>4. r = BindSnapshots(Result("D0", blocks, fids, None))
  BY DEF RunD0
<1>5. \A i \in Blocks : blocks[i] = D0Block(i, world[i]) /\ fids[i] = D0Fidelity(i, world[i])
  OBVIOUS
<1> HIDE DEF O, D, fids, blocks, r
<1>6. Ledgered("D0", r, blocks, fids, None)
  BY <1>1, <1>2, <1>3, <1>4, LedgerEndpoint
<1>7. ASSUME NEW i \in Blocks
      PROVE  D0Event(r, i) <=> blocks[i].failure_code # None
  <2> DEFINE b == D0Block(i, world[i])
  <2>1. r.block_records[i] = b /\ blocks[i] = b
    BY <1>5, <1>6 DEF Ledgered
  <2>2. StableAt(r, i) <=> D0Fidelity(i, world[i]).status = "PASS"
    BY <1>5, <1>6 DEF Ledgered
  <2>3. b.failure_code # None <=> ~b.full_microstate_identity \/ ~StableAt(r, i)
    BY <2>2, NoneAssumption DEF D0Block
  <2> HIDE DEF b
  <2>4. QED BY <1>3, <2>1, <2>3 DEF D0Event
<1>8. {i \in Blocks : D0Event(r, i)} = Failing(blocks)
  BY <1>1, <1>7 DEF Failing
<1>9. QED BY <1>6, <1>8 DEF ConsistentD0, r, Ledgered

LEMMA F0Passes ==
  ASSUME NEW world \in F0World
  PROVE  ConsistentF0(BindSnapshots(RunF0(world)))
<1> DEFINE O == [i \in Blocks |-> world[i].registered # world[i].reference]
           blocks == [i \in Blocks |-> F0Block(i, world[i])]
           fids == [i \in Blocks |-> F0Fidelity(i, world[i])]
           r == BindSnapshots(RunF0(world))
<1>1. O \in [Blocks -> BOOLEAN] /\ DOMAIN blocks = Blocks
  OBVIOUS
<1>2. fids = FidelitiesOf(O, O)
  BY DEF F0Fidelity, FidelitiesOf
<1>3. \A i \in Blocks : blocks[i].block_id = i
  BY DEF F0Block
<1>4. r = BindSnapshots(Result("F0", blocks, fids, StrataCounts(blocks)))
  BY DEF RunF0
<1>5. \A i \in Blocks : blocks[i] = F0Block(i, world[i]) /\ fids[i] = F0Fidelity(i, world[i])
  OBVIOUS
<1> HIDE DEF O, fids, blocks, r
<1>6. Ledgered("F0", r, blocks, fids, StrataCounts(blocks))
  BY <1>1, <1>2, <1>3, <1>4, LedgerEndpoint DEF IntervalEndpoints
<1>7. ASSUME NEW i \in Blocks
      PROVE  /\ blocks[i].template_conformance = F0Conforms(blocks[i])
             /\ F0Event(r, i) <=> blocks[i].failure_code # None
  <2> DEFINE w == world[i]
             b == F0Block(i, w)
             conformance == w.registered = IF w.case = "negative_control"
                                           THEN "below" ELSE "expected"
             code == CodeOf(F0Fidelity(i, w), ~conformance)
  <2>1. r.block_records[i] = b /\ blocks[i] = b
    BY <1>5, <1>6 DEF Ledgered
  <2>2. w.registered \in Detections
    BY DEF F0World
  <2> HIDE DEF w
  <2>3. b.failure_code = code /\ b.template_conformance = conformance
    BY DEF F0Block
  <2>4. F0Conforms(b) = conformance
    BY <2>2, NoneAssumption DEF F0Block, F0Conforms, Detections
  <2> HIDE DEF b, conformance
  <2>5. code # None <=> ~StableAt(r, i) \/ ~conformance
    BY <1>5, <1>6, NoneAssumption DEF CodeOf, w, Ledgered
  <2>6. QED BY <1>3, <2>1, <2>3, <2>4, <2>5 DEF F0Event
<1>8. {i \in Blocks : F0Event(r, i)} = Failing(blocks)
  BY <1>1, <1>7 DEF Failing
<1>9. QED BY <1>6, <1>7, <1>8 DEF ConsistentF0, r, Ledgered

-----------------------------------------------------------------------------
(* C and the two D2.                                                       *)

LEMMA D2CertPasses ==
  ASSUME NEW world \in D2World
  PROVE  ConsistentD2Cert(BindSnapshots(RunD2Cert(world)))
<1> DEFINE O == [i \in Blocks |-> world[i].registered # world[i].reference]
           D == [i \in Blocks |-> (world[i].registered > 0) # (world[i].reference > 0)]
           blocks == [i \in Blocks |-> D2Block(i, world[i])]
           fids == [i \in Blocks |-> D2Fidelity(i, world[i])]
           violations == Cardinality({i \in Blocks : world[i].registered > 0})
           stable == \A i \in Blocks : D2Fidelity(i, world[i]).status = "PASS"
           status == IF ~stable THEN "FIDELITY_INDETERMINATE"
                     ELSE IF violations >= WithdrawalCount
                     THEN "LOCKED_AUDIT_WITHDRAWAL_TRIGGERED"
                     ELSE "NOT_CONTRADICTED_BY_LOCKED_AUDIT"
           summary == [violation_count |-> violations, certificate_granted |-> FALSE]
           q == Result("D2-CERT", blocks, fids, summary)
           r == BindSnapshots(RunD2Cert(world))
<1>1. O \in [Blocks -> BOOLEAN] /\ D \in [Blocks -> BOOLEAN] /\ DOMAIN blocks = Blocks
  OBVIOUS
<1>2. fids = FidelitiesOf(O, D)
  BY DEF D2Fidelity, FidelitiesOf
<1>3. \A i \in Blocks : blocks[i].block_id = i
  BY DEF D2Block
<1>4. \A i \in Blocks : blocks[i] = D2Block(i, world[i]) /\ fids[i] = D2Fidelity(i, world[i])
  OBVIOUS
<1>5. RunD2Cert(world) = [q EXCEPT !.interval = violations, !.status = status]
  BY DEF RunD2Cert
<1>6. summary.violation_count = violations /\ ~summary.certificate_granted
  OBVIOUS
<1> HIDE DEF O, D, fids, blocks, violations, status, summary
<1>7. \A i \in Blocks : fids[i].status = "PASS" <=> ~O[i] /\ ~D[i]
  BY <1>1, <1>2 DEF FidelityRecord, FidelitiesOf
<1>8. /\ r.sub_id = "D2-CERT" /\ r.status = status
      /\ r.numerator = Cardinality(Failing(blocks)) /\ r.interval = violations
      /\ r.denominator = BlockCount /\ r.block_records = blocks
      /\ r.failure_ledger = [i \in Failing(blocks) |-> blocks[i].failure_code]
      /\ r.summary = summary
      /\ r.fidelity_records = BoundRows(O, D, "D2-CERT")
  <2> DEFINE p == RunD2Cert(world)
             rows == [i \in DOMAIN p.fidelity_records |->
                       [p.fidelity_records[i] EXCEPT !.frozen_contract_snapshot = p.sub_id]]
  <2>1. r = [p EXCEPT !.fidelity_records = rows]
    BY DEF BindSnapshots
  <2>2. p.sub_id = "D2-CERT" /\ p.fidelity_records = fids
    BY <1>5 DEF Result
  <2>3. rows = BoundRows(O, D, "D2-CERT")
    BY <1>2, <2>2 DEF BoundRow, BoundRows, FidelitiesOf
  <2> HIDE DEF rows, r
  <2>4. QED BY <1>5, <2>1, <2>3 DEF Result
<1> HIDE DEF q, r
<1>9. /\ BaseEndpointCheck("D2-CERT", r) /\ FidelityIndex("D2-CERT", r)
      /\ \A i \in Blocks : StableAt(r, i) <=> ~O[i] /\ ~D[i]
  <2>1. "D2-CERT" \in BlockIdEndpoints
    BY DEF BlockIdEndpoints, RoleDerived
  <2>2. QED BY <1>1, <1>8, <2>1, RowsAreIndexed
<1>10. LedgerCrosscheck(r)
  BY <1>1, <1>3, <1>8 DEF LedgerCrosscheck, Failing
<1>11. ASSUME NEW i \in Blocks
       PROVE  /\ D2Violation(blocks[i], i) <=> world[i].registered > 0
              /\ blocks[i].violation = (world[i].registered > 0)
              /\ D2Adverse(r, i) <=> blocks[i].failure_code # None
  <2> DEFINE b == D2Block(i, world[i])
             code == CodeOf(D2Fidelity(i, world[i]), world[i].registered > 0)
  <2>1. r.block_records[i] = b /\ blocks[i] = b
    BY <1>4, <1>8
  <2>2. /\ b.failure_code = code /\ b.violation = (world[i].registered > 0)
        /\ b.block_id = i /\ b.maximum_density_discrepancy = world[i].registered
    BY DEF D2Block
  <2> HIDE DEF b
  <2>3. D2Violation(b, i) <=> world[i].registered > 0
    BY <2>2 DEF D2Violation
  <2>4. StableAt(r, i) <=> D2Fidelity(i, world[i]).status = "PASS"
    BY <1>4, <1>7, <1>9
  <2>5. code # None <=> ~StableAt(r, i) \/ world[i].registered > 0
    BY <2>4, NoneAssumption DEF CodeOf
  <2> HIDE DEF code
  <2>6. D2Adverse(r, i) <=> code # None
    BY <2>1, <2>2, <2>3, <2>5 DEF D2Adverse
  <2>7. QED BY <2>1, <2>2, <2>3, <2>6
<1>12. {i \in Blocks : D2Adverse(r, i)} = Failing(blocks)
  BY <1>1, <1>11 DEF Failing
<1>13. {i \in Blocks : D2Violation(blocks[i], i)} = {i \in Blocks : world[i].registered > 0}
  BY <1>11
<1>14. Cardinality({i \in Blocks : D2Violation(blocks[i], i)}) = violations
  BY <1>13 DEF violations
<1>15. stable <=> Stable(r)
  <2>1. DOMAIN r.fidelity_records = Blocks
    BY <1>8 DEF BoundRows
  <2>2. Stable(r) <=> \A i \in Blocks : StableAt(r, i)
    BY <2>1 DEF Stable, StableAt
  <2>3. QED BY <1>4, <1>7, <1>9, <2>2
<1>16. CommonResult(r, Cardinality(Failing(blocks)),
          IF ~Stable(r) THEN "FIDELITY_INDETERMINATE"
          ELSE IF violations >= WithdrawalCount
          THEN "LOCKED_AUDIT_WITHDRAWAL_TRIGGERED"
          ELSE "NOT_CONTRADICTED_BY_LOCKED_AUDIT")
  BY <1>8, <1>15 DEF CommonResult, status
<1>17. \A i \in Blocks : blocks[i].violation = D2Violation(blocks[i], i)
  <2> TAKE i \in Blocks
  <2>1. D2Violation(blocks[i], i) \in BOOLEAN
    BY DEF D2Violation
  <2>2. QED BY <1>11, <2>1
<1>18. QED
  BY <1>6, <1>8, <1>9, <1>10, <1>12, <1>14, <1>16, <1>17 DEF ConsistentD2Cert, r

-----------------------------------------------------------------------------
(* The endpoints with one fidelity row: A0, C, D1 and D2-MEM.              *)

SingleRow == {"A0", "C", "D1", "D2-MEM"}

OneRow(o, d, e) == [i \in 1 .. 1 |-> BoundRow(0, o, d, e)]

LEMMA OneRowIsComplete ==
  ASSUME NEW e \in SingleRow, NEW o \in BOOLEAN, NEW d \in BOOLEAN, NEW r,
         r.sub_id = e, DOMAIN r.block_records = RecordDomain(e),
         r.denominator = Cardinality(RecordDomain(e)),
         r.fidelity_records = OneRow(o, d, e)
  PROVE  /\ BaseEndpointCheck(e, r) /\ FidelityIndex(e, r)
         /\ Stable(r) <=> ~o /\ ~d
<1>1. e \in Endpoints /\ e \notin BlockIdEndpoints /\ FidelityDomain(e) = 1 .. 1
  BY DEF SingleRow, BlockIdEndpoints, RoleDerived, IntervalEndpoints, Endpoints,
         FidelityDomain
<1>2. /\ DOMAIN r.fidelity_records = 1 .. 1
      /\ \A i \in 1 .. 1 : r.fidelity_records[i] = BoundRow(0, o, d, e)
      /\ 1 \in 1 .. 1
  BY DEF OneRow
<1>3. /\ BoundRow(0, o, d, e).status = "PASS" <=> ~o /\ ~d
      /\ FidelityComplete(e, BoundRow(0, o, d, e))
  BY <1>1, BoundRowFields
<1>4. BaseEndpointCheck(e, r)
  BY <1>1, <1>2 DEF BaseEndpointCheck
<1>5. FidelityIndex(e, r)
  BY <1>1, <1>2, <1>3 DEF FidelityIndex
<1>6. Stable(r) <=> ~o /\ ~d
  BY <1>2, <1>3 DEF Stable
<1>7. QED BY <1>4, <1>5, <1>6

Conforming(r, e, status, numerator, denominator, blocks, o, d, summary) ==
  /\ r.sub_id = e /\ r.status = status /\ r.numerator = numerator
  /\ r.denominator = denominator /\ r.block_records = blocks
  /\ r.fidelity_records = OneRow(o, d, e) /\ r.summary = summary
  /\ r.failure_ledger = IF status = "PASS" THEN {} ELSE {status}

LEMMA ConformanceFields ==
  ASSUME NEW e, NEW status, NEW numerator, NEW denominator, NEW blocks, NEW summary,
         NEW o \in BOOLEAN, NEW d \in BOOLEAN, NEW r,
         r = BindSnapshots(Conformance(e, status, numerator, denominator, blocks,
                                       FidelityRecord(0, o, d), summary))
  PROVE  Conforming(r, e, status, numerator, denominator, blocks, o, d, summary)
<1> DEFINE q == Conformance(e, status, numerator, denominator, blocks,
                            FidelityRecord(0, o, d), summary)
           rows == [i \in DOMAIN q.fidelity_records |->
                      [q.fidelity_records[i] EXCEPT !.frozen_contract_snapshot = q.sub_id]]
<1>1. r = [q EXCEPT !.fidelity_records = rows]
  BY DEF BindSnapshots
<1>2. q.sub_id = e /\ q.fidelity_records = [i \in 1 .. 1 |-> FidelityRecord(0, o, d)]
  BY DEF Conformance
<1>3. rows = OneRow(o, d, e)
  BY <1>2 DEF BoundRow, OneRow
<1> HIDE DEF rows
<1>4. QED BY <1>1, <1>3 DEF Conformance, Conforming

LEMMA A0Passes ==
  ASSUME NEW world \in A0World
  PROVE  /\ ConsistentA0(BindSnapshots(RunA0(world)))
         /\ \A c \in Candidates :
              BindSnapshots(RunA0(world)).block_records[c].canonical_signature = Signature[c]
<1> DEFINE mismatches == Mismatches(world)
           matched == mismatches = 0
           q == RunA0(world)
           r == BindSnapshots(q)
           blocks == [c \in Candidates |-> [rule_id |-> c, truth_table |-> c,
                                           canonical_signature |-> Signature[c],
                                           failure_code |-> None]]
           summary == [reference_production_match |-> matched,
                       signature_count |-> Cardinality(Classes(Candidates))]
<1>1. /\ r.sub_id = "A0" /\ r.block_records = blocks /\ r.denominator = CandidateCount
      /\ r.status = (IF matched THEN "PASS" ELSE "FAIL") /\ r.numerator = mismatches
      /\ r.failure_ledger = mismatches /\ r.summary = summary
      /\ r.fidelity_records = OneRow(~matched, FALSE, "A0")
  <2> DEFINE rows == [i \in DOMAIN q.fidelity_records |->
                       [q.fidelity_records[i] EXCEPT !.frozen_contract_snapshot = q.sub_id]]
  <2>1. r = [q EXCEPT !.fidelity_records = rows]
    BY DEF BindSnapshots
  <2>2. /\ q.sub_id = "A0"
        /\ q.fidelity_records = [i \in 1 .. 1 |-> FidelityRecord(0, ~matched, FALSE)]
    BY DEF RunA0
  <2>3. rows = OneRow(~matched, FALSE, "A0")
    BY <2>2 DEF BoundRow, OneRow
  <2> HIDE DEF rows, r
  <2>4. QED BY <2>1, <2>3 DEF RunA0
<1> HIDE DEF q, r
<1>2. DOMAIN blocks = Candidates /\ RecordDomain("A0") = Candidates
  BY DEF RecordDomain
<1>3. /\ BaseEndpointCheck("A0", r) /\ FidelityIndex("A0", r) /\ Stable(r) = matched
  <2> DEFINE o == ~matched
  <2>1. o \in BOOLEAN /\ FALSE \in BOOLEAN /\ "A0" \in SingleRow
    BY DEF SingleRow
  <2>2. r.fidelity_records = OneRow(o, FALSE, "A0")
    BY <1>1
  <2> HIDE DEF o, blocks
  <2>3. /\ BaseEndpointCheck("A0", r) /\ FidelityIndex("A0", r)
        /\ Stable(r) <=> ~o /\ ~FALSE
    BY <1>1, <1>2, <2>1, <2>2, Counts, OneRowIsComplete
  <2>4. Stable(r) \in BOOLEAN
    BY DEF Stable
  <2>5. QED BY <2>3, <2>4 DEF o
<1>4. \A c \in Candidates : /\ blocks[c].rule_id = c /\ blocks[c].truth_table = c
                            /\ blocks[c].failure_code = None
                            /\ blocks[c].canonical_signature = Signature[c]
  OBVIOUS
<1>5. {blocks[c].canonical_signature : c \in DOMAIN blocks} = Classes(Candidates)
  BY <1>2, <1>4 DEF Classes
<1>6. summary.reference_production_match = matched
      /\ summary.signature_count = Cardinality(Classes(Candidates))
  OBVIOUS
<1> HIDE DEF blocks, summary
<1>7. CommonResult(r, mismatches, PassOrFail(mismatches))
  BY <1>1 DEF CommonResult, PassOrFail
<1>8. ConsistentA0(r)
  <2>1. \A c \in DOMAIN r.block_records :
           /\ r.block_records[c].rule_id = c
           /\ r.block_records[c].truth_table = r.block_records[c].rule_id
           /\ r.block_records[c].failure_code = None
    BY <1>1, <1>2, <1>4
  <2>2. r.summary.signature_count
          = Cardinality({r.block_records[c].canonical_signature :
                           c \in DOMAIN r.block_records})
    BY <1>1, <1>5, <1>6
  <2>3. /\ r.summary.reference_production_match = (r.failure_ledger = 0)
        /\ Stable(r) = (r.failure_ledger = 0)
    BY <1>1, <1>3, <1>6
  <2>4. CommonResult(r, r.failure_ledger, PassOrFail(r.failure_ledger))
    BY <1>1, <1>7
  <2>5. QED BY <1>3, <2>1, <2>2, <2>3, <2>4 DEF ConsistentA0
<1>9. QED BY <1>1, <1>4, <1>8 DEF r, q

\* The audit reads from the block records the counts the result reports.
LEMMA PathCounts ==
  ASSUME NEW paths \in [Cases -> Paths], NEW read,
         read = [k \in Cases |-> CCase(paths[k]).path]
  PROVE  /\ ExitsOf(read) = ExitsOf(paths) /\ ViolationsOf(read) = ViolationsOf(paths)
         /\ \A k \in Cases : DOMAIN read[k] = DOMAIN paths[k]
         /\ \A k \in Cases : \A t \in DOMAIN paths[k] :
              read[k][t].exit = paths[k][t].exit /\ read[k][t].beyond = paths[k][t].beyond
<1>1. \A k \in Cases : /\ DOMAIN read[k] = DOMAIN paths[k]
                       /\ \A t \in DOMAIN paths[k] :
                            /\ read[k][t].exit = paths[k][t].exit
                            /\ read[k][t].beyond = paths[k][t].beyond
  BY DEF CCase
<1>2. {k \in Cases : \E t \in DOMAIN read[k] : read[k][t].exit}
        = {k \in Cases : \E t \in DOMAIN paths[k] : paths[k][t].exit}
  BY <1>1
<1>3. {kt \in Cases \X (1 .. 2) : /\ kt[2] \in DOMAIN read[kt[1]]
                                 /\ read[kt[1]][kt[2]].beyond}
        = {kt \in Cases \X (1 .. 2) : /\ kt[2] \in DOMAIN paths[kt[1]]
                                     /\ paths[kt[1]][kt[2]].beyond}
  BY <1>1
<1>4. QED BY <1>1, <1>2, <1>3 DEF ExitsOf, ViolationsOf

\* An exit is counted when there is one, and without any the violations are
\* counted when a case is adverse.
LEMMA CountsTell ==
  ASSUME NEW paths \in [Cases -> Paths], NEW adverse,
         adverse = {k \in Cases : \E t \in DOMAIN paths[k] :
                                   paths[k][t].exit \/ paths[k][t].beyond}
  PROVE  /\ ExitsOf(paths) \in Nat /\ ViolationsOf(paths) \in Nat
         /\ ExitsOf(paths) = 0 => (ViolationsOf(paths) = 0 <=> Cardinality(adverse) = 0)
<1> DEFINE exits == {k \in Cases : \E t \in DOMAIN paths[k] : paths[k][t].exit}
           violations == {kt \in Cases \X (1 .. 2) : /\ kt[2] \in DOMAIN paths[kt[1]]
                                                    /\ paths[kt[1]][kt[2]].beyond}
<1>1. IsFiniteSet(exits) /\ IsFiniteSet(adverse)
  <2>1. exits \in SUBSET Cases /\ adverse \in SUBSET Cases
    OBVIOUS
  <2> HIDE DEF exits
  <2>2. QED BY <2>1, Counts, FS_Subset
<1>2. IsFiniteSet(violations)
  <2>1. IsFiniteSet(1 .. 2)
    <3>1. 1 \in Int /\ 2 \in Int
      OBVIOUS
    <3>2. QED BY <3>1, FS_Interval
  <2>2. IsFiniteSet(Cases \X (1 .. 2))
    BY <2>1, Counts, FS_Product
  <2>3. violations \in SUBSET (Cases \X (1 .. 2))
    OBVIOUS
  <2> HIDE DEF violations
  <2>4. QED BY <2>2, <2>3, FS_Subset
<1>3. exits = {} => (violations = {} <=> adverse = {})
  <2> SUFFICES ASSUME exits = {} PROVE violations = {} <=> adverse = {}
    OBVIOUS
  <2>1. \A k \in Cases : DOMAIN paths[k] \subseteq 1 .. 2
    BY DEF Paths
  <2>2. ASSUME NEW k \in adverse PROVE violations # {}
    <3>1. PICK t \in DOMAIN paths[k] : paths[k][t].exit \/ paths[k][t].beyond
      OBVIOUS
    <3>2. k \in Cases /\ paths[k][t].beyond /\ t \in 1 .. 2
      BY <2>1, <3>1
    <3>3. <<k, t>> \in violations
      BY <3>1, <3>2
    <3>4. QED BY <3>3
  <2>3. ASSUME NEW kt \in violations PROVE kt[1] \in adverse
    OBVIOUS
  <2>4. QED BY <2>2, <2>3
<1>4. ExitsOf(paths) = Cardinality(exits) /\ ViolationsOf(paths) = Cardinality(violations)
  BY DEF ExitsOf, ViolationsOf
<1> HIDE DEF exits, violations
<1>5. QED BY <1>1, <1>2, <1>3, <1>4, FS_CardinalityType, FS_EmptySet

LEMMA CPasses ==
  ASSUME NEW world \in CWorld
  PROVE  ConsistentC(BindSnapshots(RunC(world)))
<1> DEFINE paths == world.paths
           registered == [violations |-> ViolationsOf(paths), exits |-> ExitsOf(paths)]
           o == registered # world.reference
           d == CStatus(registered) # CStatus(world.reference)
           fidelity == FidelityRecord(0, o, d)
           stable == fidelity.status = "PASS"
           adverse == {k \in Cases : \E t \in DOMAIN paths[k] :
                         paths[k][t].exit \/ paths[k][t].beyond}
           status == IF stable THEN CStatus(registered) ELSE "FIDELITY_INDETERMINATE"
           numerator == IF stable THEN Cardinality(adverse) ELSE CaseCount
           blocks == [k \in Cases |-> CCase(paths[k])]
           read == [k \in Cases |-> CCase(paths[k]).path]
           summary == [violations |-> registered.violations, exits |-> registered.exits]
           r == BindSnapshots(RunC(world))
<1>1. paths \in [Cases -> Paths]
  BY DEF CWorld
<1>2. r = BindSnapshots(Conformance("C", status, numerator, CaseCount, blocks,
                                    FidelityRecord(0, o, d), summary))
  BY DEF RunC
<1>3. /\ stable <=> ~o /\ ~d
      /\ o \in BOOLEAN /\ d \in BOOLEAN /\ DOMAIN blocks = Cases
      /\ \A k \in Cases : blocks[k] = CCase(paths[k])
      /\ summary.exits = ExitsOf(paths) /\ summary.violations = ViolationsOf(paths)
  BY DEF FidelityRecord
<1>4. /\ CStatus(registered) = IF ExitsOf(paths) > 0 THEN "DOMAIN_EXIT_WITHDRAWAL"
                               ELSE IF ViolationsOf(paths) > 0 THEN "FAIL" ELSE "PASS"
  BY DEF CStatus
<1>5. read = [k \in DOMAIN blocks |-> blocks[k].path]
  OBVIOUS
<1> HIDE DEF paths, o, d, blocks, summary, registered, r
<1>6. /\ r.sub_id = "C" /\ r.status = status /\ r.numerator = numerator
      /\ r.denominator = CaseCount /\ r.block_records = blocks
      /\ r.fidelity_records = OneRow(o, d, "C") /\ r.summary = summary
  <2> HIDE DEF status, numerator, stable, fidelity
  <2>1. Conforming(r, "C", status, numerator, CaseCount, blocks, o, d, summary)
    BY <1>2, <1>3, ConformanceFields
  <2>2. QED BY <2>1 DEF Conforming
<1>7. /\ BaseEndpointCheck("C", r) /\ FidelityIndex("C", r)
      /\ Stable(r) <=> ~o /\ ~d
  <2>1. "C" \in SingleRow /\ RecordDomain("C") = Cases
    BY DEF SingleRow, RecordDomain
  <2>2. QED BY <1>3, <1>6, <2>1, Counts, OneRowIsComplete
<1>8. /\ ExitsOf(read) = ExitsOf(paths) /\ ViolationsOf(read) = ViolationsOf(paths)
      /\ \A k \in Cases : DOMAIN read[k] = DOMAIN paths[k]
      /\ \A k \in Cases : \A t \in DOMAIN paths[k] :
           read[k][t].exit = paths[k][t].exit /\ read[k][t].beyond = paths[k][t].beyond
  BY <1>1, PathCounts
<1>9. \A k \in Cases : CStructure(CCase(paths[k]))
  <2> SUFFICES ASSUME NEW path PROVE CStructure(CCase(path))
    OBVIOUS
  <2>1. ~CCase(path).clipping_applied /\ DOMAIN CCase(path).path = DOMAIN path
    BY DEF CCase
  <2>2. \A t \in DOMAIN path :
          /\ CCase(path).path[t].violation = CCase(path).path[t].beyond
          /\ CCase(path).path[t].domain_exit = CCase(path).path[t].exit
          /\ CCase(path).path[t].exit = path[t].exit
    BY DEF CCase
  <2>3. CCase(path).domain_exit = \E t \in DOMAIN path : path[t].exit
    BY DEF CCase
  <2>4. QED BY <2>1, <2>2, <2>3 DEF CStructure
<1>10. /\ DOMAIN r.block_records = Cases
       /\ read = [k \in DOMAIN r.block_records |-> r.block_records[k].path]
       /\ \A k \in DOMAIN r.block_records : CStructure(r.block_records[k])
       /\ Stable(r) => {k \in DOMAIN r.block_records :
                         \/ \E t \in DOMAIN read[k] : read[k][t].beyond \/ read[k][t].exit
                         \/ ~Stable(r)
                         \/ ~CStructure(r.block_records[k])} = adverse
  <2>1. /\ DOMAIN r.block_records = Cases
        /\ \A k \in Cases : r.block_records[k] = CCase(paths[k])
    BY <1>3, <1>6
  <2>2. read = [k \in DOMAIN r.block_records |-> r.block_records[k].path]
    BY <1>5, <1>6
  <2>3. \A k \in DOMAIN r.block_records : CStructure(r.block_records[k])
    BY <1>9, <2>1
  <2> HIDE DEF read
  <2>4. ASSUME NEW k \in Cases
        PROVE  (\E t \in DOMAIN read[k] : read[k][t].beyond \/ read[k][t].exit)
                 <=> \E t \in DOMAIN paths[k] : paths[k][t].exit \/ paths[k][t].beyond
    BY <1>8
  <2>5. QED BY <2>1, <2>2, <2>3, <2>4
<1>11. /\ ExitsOf(paths) \in Nat /\ ViolationsOf(paths) \in Nat
       /\ ExitsOf(paths) = 0 => (ViolationsOf(paths) = 0 <=> Cardinality(adverse) = 0)
  BY <1>1, CountsTell
<1> HIDE DEF read, adverse, fidelity, stable
<1>12. CASE Stable(r)
  <2>1. r.numerator = Cardinality(adverse) /\ r.status = CStatus(registered)
    BY <1>3, <1>6, <1>7, <1>12
  <2>2. CStatus(registered) = IF ExitsOf(paths) > 0 THEN "DOMAIN_EXIT_WITHDRAWAL"
                              ELSE PassOrFail(Cardinality(adverse))
    BY <1>4, <1>11 DEF PassOrFail
  <2>3. CommonResult(r, Cardinality(adverse),
                     IF ExitsOf(paths) > 0 THEN "DOMAIN_EXIT_WITHDRAWAL"
                     ELSE PassOrFail(Cardinality(adverse)))
    BY <2>1, <2>2 DEF CommonResult
  <2>4. QED BY <1>3, <1>6, <1>7, <1>8, <1>10, <1>12, <2>3 DEF ConsistentC, r
<1>13. CASE ~Stable(r)
  <2>1. CommonResult(r, CaseCount, "FIDELITY_INDETERMINATE")
    BY <1>3, <1>6, <1>7, <1>13 DEF CommonResult
  <2>2. QED BY <1>3, <1>6, <1>7, <1>8, <1>10, <1>13, <2>1 DEF ConsistentC, r
<1>14. QED BY <1>12, <1>13

\* Four live cells follow the first state of the witness and none the second.
LEMMA WitnessDensities ==
  Rule90Ones(WitnessPair[1]) = 4 /\ Rule90Ones(WitnessPair[2]) = 0
<1> DEFINE first == <<1, 1, 0, 0>>
           second == <<1, 0, 1, 0>>
           Alive(s) == {i \in 1 .. 4 : s[IF i = 1 THEN 4 ELSE i - 1]
                                       # s[IF i = 4 THEN 1 ELSE i + 1]}
<1>1. WitnessPair[1] = first /\ WitnessPair[2] = second
  BY DEF WitnessPair
<1>2. Alive(first) = 1 .. 4
  OBVIOUS
<1>3. Alive(second) = {}
  OBVIOUS
<1>4. Cardinality(1 .. 4) = 4
  <2>1. 1 \in Int /\ 4 \in Int /\ ~(1 > 4) /\ 4 - 1 + 1 = 4
    OBVIOUS
  <2>2. QED BY <2>1, FS_Interval
<1>5. Rule90Ones(first) = Cardinality(Alive(first))
      /\ Rule90Ones(second) = Cardinality(Alive(second))
  BY DEF Rule90Ones
<1> HIDE DEF Alive, first, second
<1>6. QED BY <1>1, <1>2, <1>3, <1>4, <1>5, FS_EmptySet

\* The two states do not lead to the densities of the rule, but to two that differ.
Misstep(world) ==
  world.registered # <<4, 0>> /\ world.registered[1] # world.registered[2]

LEMMA D1Passes ==
  ASSUME NEW world \in D1World, ~Misstep(world)
  PROVE  ConsistentD1(BindSnapshots(RunD1(world)))
<1> DEFINE witness == world.registered[1] # world.registered[2]
           agreed == world.registered = world.reference
           o == ~agreed
           d == witness # agreed
           fidelity == FidelityRecord(0, o, d)
           passed == witness /\ fidelity.status = "PASS"
           status == IF passed THEN "PASS" ELSE "FAIL"
           numerator == IF passed THEN 0 ELSE 1
           blocks == [i \in 1 .. 1 |-> [microstate_pair |-> WitnessPair,
                                       next_density |-> world.registered,
                                       failure_code |-> None]]
           summary == [nonclosure_witness |-> witness]
           r == BindSnapshots(RunD1(world))
<1>1. r = BindSnapshots(Conformance("D1", status, numerator, 1, blocks,
                                    FidelityRecord(0, o, d), summary))
  BY DEF RunD1
<1>2. /\ o \in BOOLEAN /\ d \in BOOLEAN /\ DOMAIN blocks = 1 .. 1
      /\ fidelity.status = "PASS" <=> ~o /\ ~d
      /\ blocks[1].microstate_pair = WitnessPair
      /\ blocks[1].next_density = world.registered
      /\ summary.nonclosure_witness = witness /\ witness \in BOOLEAN
  BY DEF FidelityRecord
<1>3. witness <=> world.registered = <<4, 0>>
  <2>1. <<4, 0>>[1] # <<4, 0>>[2]
    OBVIOUS
  <2>2. QED BY <2>1 DEF Misstep
<1> HIDE DEF o, d, witness, agreed, blocks, summary, fidelity, r
<1>4. /\ r.sub_id = "D1" /\ r.status = status /\ r.numerator = numerator
      /\ r.denominator = 1 /\ r.block_records = blocks
      /\ r.fidelity_records = OneRow(o, d, "D1") /\ r.summary = summary
      /\ r.failure_ledger = IF status = "PASS" THEN {} ELSE {status}
  <2> HIDE DEF status, numerator
  <2>1. Conforming(r, "D1", status, numerator, 1, blocks, o, d, summary)
    BY <1>1, <1>2, ConformanceFields
  <2>2. QED BY <2>1 DEF Conforming
<1>5. /\ BaseEndpointCheck("D1", r) /\ FidelityIndex("D1", r)
      /\ Stable(r) <=> ~o /\ ~d
  <2>1. "D1" \in SingleRow /\ RecordDomain("D1") = 1 .. 1
    BY DEF SingleRow, RecordDomain
  <2>2. QED BY <1>2, <1>4, <2>1, Counts, OneRowIsComplete
<1> DEFINE b == r.block_records[1]
           recomputed == <<Rule90Ones(b.microstate_pair[1]),
                           Rule90Ones(b.microstate_pair[2])>>
           structure == /\ b.microstate_pair = WitnessPair
                        /\ b.next_density = recomputed
           seen == structure /\ recomputed[1] # recomputed[2]
           event == ~seen \/ ~Stable(r)
<1>6. recomputed = <<4, 0>>
  BY <1>2, <1>4, WitnessDensities
<1>7. seen = witness
  <2>1. recomputed[1] # recomputed[2]
    BY <1>6
  <2>2. structure <=> world.registered = <<4, 0>>
    BY <1>2, <1>4, <1>6
  <2>3. seen \in BOOLEAN
    OBVIOUS
  <2> HIDE DEF structure, recomputed
  <2>4. seen <=> structure
    BY <2>1
  <2> HIDE DEF seen
  <2>5. QED BY <1>2, <1>3, <2>2, <2>3, <2>4
<1> HIDE DEF b, recomputed, structure
<1>8. event <=> ~passed
  BY <1>2, <1>5, <1>7
<1>9. /\ r.summary.nonclosure_witness = seen
      /\ r.failure_ledger = IF event THEN {"FAIL"} ELSE {}
      /\ CommonResult(r, IF event THEN 1 ELSE 0, IF event THEN "FAIL" ELSE "PASS")
  <2>1. r.summary.nonclosure_witness = seen
    BY <1>2, <1>4, <1>7
  <2> HIDE DEF event, passed, seen
  <2>2. QED BY <1>4, <1>8, <2>1 DEF CommonResult
<1>10. QED BY <1>5, <1>9 DEF ConsistentD1, b, recomputed, structure, r

LEMMA D2MemPasses == ConsistentD2Mem(BindSnapshots(RunD2Mem))
<1> DEFINE held == Ambiguous(SwapBlocks) /\ Repaired(SwapBlocks)
           o == ~held
           status == IF held THEN "PASS" ELSE "FAIL"
           numerator == IF held THEN 0 ELSE 1
           summary == [lag0_fails |-> Ambiguous(SwapBlocks),
                       lag1_exact_repair |-> Repaired(SwapBlocks)]
           r == BindSnapshots(RunD2Mem)
<1>1. r = BindSnapshots(Conformance("D2-MEM", status, numerator, 4, SwapBlocks,
                                    FidelityRecord(0, o, o), summary))
  BY DEF RunD2Mem
<1>2. /\ o \in BOOLEAN
      /\ summary.lag0_fails = Ambiguous(SwapBlocks)
      /\ summary.lag1_exact_repair = Repaired(SwapBlocks)
  OBVIOUS
<1>3. /\ DOMAIN SwapBlocks = (0 .. 1) \X (0 .. 1)
      /\ \A s \in (0 .. 1) \X (0 .. 1) : SwapBlocks[s].initial_microstate = s
  BY DEF SwapBlocks
<1>4. {SwapBlocks[s].initial_microstate : s \in DOMAIN SwapBlocks} = (0 .. 1) \X (0 .. 1)
  BY <1>3
<1> HIDE DEF summary, r, o
<1>5. /\ r.sub_id = "D2-MEM" /\ r.status = status /\ r.numerator = numerator
      /\ r.denominator = 4 /\ r.block_records = SwapBlocks
      /\ r.fidelity_records = OneRow(o, o, "D2-MEM") /\ r.summary = summary
  <2> HIDE DEF status, numerator
  <2>1. Conforming(r, "D2-MEM", status, numerator, 4, SwapBlocks, o, o, summary)
    BY <1>1, <1>2, ConformanceFields
  <2>2. QED BY <2>1 DEF Conforming
<1>6. /\ BaseEndpointCheck("D2-MEM", r) /\ FidelityIndex("D2-MEM", r)
      /\ Stable(r) <=> held
  <2>1. "D2-MEM" \in SingleRow /\ RecordDomain("D2-MEM") = (0 .. 1) \X (0 .. 1)
    BY DEF SingleRow, RecordDomain
  <2>2. /\ BaseEndpointCheck("D2-MEM", r) /\ FidelityIndex("D2-MEM", r)
        /\ Stable(r) <=> ~o /\ ~o
    BY <1>2, <1>3, <1>5, <2>1, Counts, OneRowIsComplete
  <2>3. QED BY <2>2 DEF o
<1>7. CommonResult(r, IF held THEN 0 ELSE 1, IF held THEN "PASS" ELSE "FAIL")
  BY <1>5 DEF CommonResult
<1>8. QED BY <1>2, <1>4, <1>5, <1>6, <1>7 DEF ConsistentD2Mem, r

-----------------------------------------------------------------------------
(* E.                                                                      *)

LEMMA PolicyRowFields ==
  ASSUME NEW p, NEW w
  PROVE  LET row == PolicyRow(p, w)
         IN /\ row.total_cost_units = TotalCost(row.cost_ledger)
            /\ row.unbilled_loss_accesses = 0
            /\ ~row.hidden_precomputation_detected
            /\ row.best_candidate = Accepted(p, w)
            /\ row.decision = "ACCEPT_BEST_CANDIDATE" <=> Sound(w, Accepted(p, w))
            /\ row.fidelity_status = "PASS" <=> Sound(w, Accepted(p, w))
            /\ row.finite_reference_loss = (Accepted(p, w) # None)
<1> DEFINE search == Search(p, w, OrderOf(p, w.loss))
           ledger == Spent(p, search)
<1>1. PolicyRow(p, w) = RowOf(w, search.accepted, ledger)
  BY DEF PolicyRow
<1>2. Accepted(p, w) = search.accepted
  BY DEF Accepted
<1> HIDE DEF search, ledger
<1>3. QED BY <1>1, <1>2 DEF RowOf

\* The rows of a block, one for every policy.
EBlockFacts(b) ==
  \A p \in Policies : /\ b.policy_results[p].total_cost_units
                           = TotalCost(b.policy_results[p].cost_ledger)
                      /\ b.policy_results[p].unbilled_loss_accesses = 0
                      /\ ~b.policy_results[p].hidden_precomputation_detected

EBlockMade(b, i, w) ==
  /\ b.block_id = i /\ EBlockFacts(b)
  /\ \A p \in Policies : b.policy_results[p] = PolicyRow(p, w)
  /\ ~EHidden(b)
  /\ b.all_policies_match_exhaustive = EMatches(b)
  /\ b.hidden_cost_detected = EHidden(b)
  /\ b.failure_code = ECode(b)
  /\ b.failure_code = IF EMatches(b) THEN None ELSE "ADVERSE"

LEMMA EBlockFields == ASSUME NEW i, NEW w PROVE EBlockMade(EBlock(i, w), i, w)
<1> DEFINE rows == [p \in Policies |-> PolicyRow(p, w)]
           b == EBlockOf(i, rows)
<1>1. EBlock(i, w) = b
  BY DEF EBlock
<1>2. \A p \in Policies : /\ rows[p].total_cost_units = TotalCost(rows[p].cost_ledger)
                          /\ rows[p].unbilled_loss_accesses = 0
                          /\ ~rows[p].hidden_precomputation_detected
  BY PolicyRowFields
<1>3. \A p \in Policies : rows[p] = PolicyRow(p, w)
  OBVIOUS
<1> HIDE DEF rows
<1>4. /\ b.block_id = i /\ b.policy_results = rows
      /\ b.all_policies_match_exhaustive = Common(rows)
      /\ b.hidden_cost_detected = Hidden(rows)
      /\ b.failure_code = IF Hidden(rows) THEN "UNBILLED_LOSS_ACCESS"
                          ELSE IF ~Common(rows) THEN "ADVERSE" ELSE None
  BY DEF EBlockOf
<1> HIDE DEF b
<1>5. ~Hidden(rows) /\ ~EHidden(b) /\ Hidden(rows) = FALSE /\ EHidden(b) = FALSE
  BY <1>2, <1>4 DEF Hidden, EHidden
<1>6. EMatches(b) = Common(rows)
  BY <1>4 DEF EMatches, Common
<1>7. b.failure_code = ECode(b)
  BY <1>4, <1>5, <1>6 DEF ECode
<1>8. EBlockFacts(b)
  BY <1>2, <1>4 DEF EBlockFacts
<1>9. QED BY <1>1, <1>3, <1>4, <1>5, <1>6, <1>7, <1>8 DEF EBlockMade

\* Where the tiers decide differently no common conclusion is reported.
LEMMA EFidelityFields ==
  ASSUME NEW i, NEW w
  PROVE  \E d \in BOOLEAN : /\ EFidelity(i, w) = FidelityRecord(i, FALSE, d)
                            /\ d => ~EMatches(EBlock(i, w))
<1> DEFINE row == PolicyRow("exhaustive", w)
           d == (row.decision = "ACCEPT_BEST_CANDIDATE")
                  # (w.reference[row.best_candidate] = 0)
<1>1. EFidelity(i, w) = FidelityRecord(i, FALSE, d) /\ d \in BOOLEAN
  BY DEF EFidelity
<1>2. ASSUME d PROVE ~EMatches(EBlock(i, w))
  <2>1. ~Sound(w, Accepted("exhaustive", w))
    BY <1>2, PolicyRowFields DEF Sound
  <2>2. row.fidelity_status # "PASS"
    BY <2>1, PolicyRowFields
  <2>3. "exhaustive" \in Policies
    BY DEF Policies
  <2> HIDE DEF row
  <2>4. EBlock(i, w).policy_results["exhaustive"] = row
    BY <2>3, EBlockFields DEF EBlockMade, row
  <2>5. QED BY <2>2, <2>3, <2>4 DEF EMatches
<1> HIDE DEF d
<1>3. QED BY <1>1, <1>2

LEMMA TotalsAgree ==
  ASSUME NEW blocks, \A i \in DOMAIN blocks : EBlockFacts(blocks[i])
  PROVE  AuditedTotals(blocks) = PolicyTotals(blocks)
<1>1. ASSUME NEW p \in Policies
      PROVE  [i \in DOMAIN blocks |-> TotalCost(blocks[i].policy_results[p].cost_ledger)]
               = [i \in DOMAIN blocks |-> blocks[i].policy_results[p].total_cost_units]
  BY DEF EBlockFacts
<1>2. QED BY <1>1 DEF AuditedTotals, PolicyTotals

LEMMA EPasses ==
  ASSUME NEW world \in EWorld
  PROVE  ConsistentE(BindSnapshots(RunE(world)))
<1> DEFINE blocks == [i \in Blocks |-> EBlock(i, world[i])]
           fids == [i \in Blocks |-> EFidelity(i, world[i])]
           totals == PolicyTotals(blocks)
           q == Result("E", blocks, fids, totals)
           exceeded == \E p \in Policies : totals[p].budget_exceeded
           r == BindSnapshots(RunE(world))
<1>1. DOMAIN blocks = Blocks /\ DOMAIN fids = Blocks
      /\ \A i \in Blocks : blocks[i] = EBlock(i, world[i]) /\ fids[i] = EFidelity(i, world[i])
  OBVIOUS
<1> DEFINE O == [i \in Blocks |-> FALSE]
           D == [i \in Blocks |-> ~fids[i].status = "PASS"]
<1>2. O \in [Blocks -> BOOLEAN] /\ D \in [Blocks -> BOOLEAN]
  OBVIOUS
<1>3. ASSUME NEW i \in Blocks
      PROVE  /\ fids[i] = FidelityRecord(i, O[i], D[i])
             /\ D[i] => ~EMatches(blocks[i])
             /\ fids[i].status = "PASS" <=> ~O[i] /\ ~D[i]
  <2>1. PICK d \in BOOLEAN : /\ fids[i] = FidelityRecord(i, FALSE, d)
                             /\ d => ~EMatches(blocks[i])
    BY <1>1, EFidelityFields
  <2> HIDE DEF fids, blocks
  <2>2. d = D[i] /\ O[i] = FALSE
    BY <2>1 DEF FidelityRecord
  <2>3. QED BY <2>1, <2>2
<1>4. RunE(world) = Budgeted(q)
  BY DEF RunE, EResult
<1>5. fids = FidelitiesOf(O, D)
  BY <1>3 DEF FidelitiesOf
<1> HIDE DEF O, D, fids, blocks, totals, r
<1> DEFINE ran == RunE(world)
<1>6. /\ ran.sub_id = "E" /\ ran.denominator = BlockCount /\ ran.block_records = blocks
      /\ ran.fidelity_records = fids /\ ran.summary = totals
      /\ ran.status = IF exceeded \/ Failing(blocks) # {} THEN "FAIL" ELSE "PASS"
      /\ ran.numerator = IF exceeded THEN BlockCount ELSE Cardinality(Failing(blocks))
      /\ ran.interval = ran.numerator
      /\ ran = [ran EXCEPT !.fidelity_records = @]
  <2>1. /\ q.sub_id = "E" /\ q.denominator = BlockCount /\ q.block_records = blocks
        /\ q.fidelity_records = fids /\ q.summary = totals
        /\ q.status = IF Failing(blocks) = {} THEN "PASS" ELSE "FAIL"
        /\ q.numerator = Cardinality(Failing(blocks))
        /\ q.interval = Cardinality(Failing(blocks))
    BY DEF Result
  <2> DEFINE whole(x) == x = [x EXCEPT !.fidelity_records = @]
  <2>2. whole(q)
    BY DEF Result
  <2> HIDE DEF whole
  <2>3. CASE exceeded
    <3>1. ran = [q EXCEPT !.status = "FAIL", !.numerator = BlockCount,
                        !.interval = BlockCount]
      BY <1>4, <2>1, <2>3 DEF Budgeted
    <3>2. whole(ran)
      BY <3>1 DEF Result, whole
    <3>3. {"sub_id", "denominator", "block_records", "fidelity_records", "summary",
           "status", "numerator", "interval"} \subseteq DOMAIN q
      BY DEF Result
    <3> HIDE DEF q
    <3>4. /\ ran.sub_id = "E" /\ ran.denominator = BlockCount /\ ran.block_records = blocks
          /\ ran.fidelity_records = fids /\ ran.summary = totals
          /\ ran.status = "FAIL" /\ ran.numerator = BlockCount /\ ran.interval = BlockCount
      BY <2>1, <3>1, <3>3
    <3>5. QED BY <2>3, <3>2, <3>4 DEF whole
  <2>4. CASE ~exceeded
    <3>1. ran = q
      BY <1>4, <2>1, <2>4 DEF Budgeted
    <3> HIDE DEF q, ran
    <3>2. whole(ran)
      BY <2>2, <3>1
    <3>3. QED BY <2>1, <2>4, <3>1, <3>2 DEF whole
  <2>5. QED BY <2>3, <2>4
<1>7. /\ r.sub_id = "E" /\ r.denominator = BlockCount /\ r.block_records = blocks
      /\ r.fidelity_records = BoundRows(O, D, "E") /\ r.summary = totals
      /\ r.status = IF exceeded \/ Failing(blocks) # {} THEN "FAIL" ELSE "PASS"
      /\ r.numerator = IF exceeded THEN BlockCount ELSE Cardinality(Failing(blocks))
      /\ r.interval = r.numerator
  <2> DEFINE rows == [i \in DOMAIN ran.fidelity_records |->
                       [ran.fidelity_records[i] EXCEPT !.frozen_contract_snapshot = ran.sub_id]]
  <2>1. r = [ran EXCEPT !.fidelity_records = rows]
    BY DEF BindSnapshots, r
  <2>2. rows = BoundRows(O, D, "E")
    BY <1>5, <1>6 DEF BoundRow, BoundRows, FidelitiesOf
  <2> HIDE DEF rows, ran
  <2>3. QED BY <1>6, <2>1, <2>2
<1> HIDE DEF q, ran
<1>8. /\ BaseEndpointCheck("E", r) /\ FidelityIndex("E", r)
      /\ \A i \in Blocks : StableAt(r, i) <=> ~O[i] /\ ~D[i]
  <2>1. "E" \in BlockIdEndpoints
    BY DEF BlockIdEndpoints, RoleDerived, IntervalEndpoints
  <2>2. QED BY <1>1, <1>2, <1>7, <2>1, RowsAreIndexed
<1>9. ASSUME NEW i \in Blocks
      PROVE  /\ blocks[i].failure_code = ECode(blocks[i])
             /\ EBlockFacts(blocks[i])
             /\ EEvent(r, i) <=> blocks[i].failure_code # None
  <2> DEFINE b == blocks[i]
  <2>1. EBlockMade(b, i, world[i])
    BY <1>1, EBlockFields
  <2>2. r.block_records[i] = b
    BY <1>7
  <2>3. ~StableAt(r, i) => ~EMatches(b)
    <3>1. StableAt(r, i) <=> ~O[i] /\ ~D[i]
      BY <1>8
    <3>2. D[i] => ~EMatches(b)
      BY <1>3
    <3>3. ~O[i]
      BY DEF O
    <3>4. QED BY <3>1, <3>2, <3>3
  <2> HIDE DEF b
  <2>4. EStructure(r, i)
    <3>1. \A p \in Policies :
            /\ b.policy_results[p].total_cost_units
                 = TotalCost(b.policy_results[p].cost_ledger)
            /\ b.policy_results[p].hidden_precomputation_detected = FALSE
            /\ (b.policy_results[p].unbilled_loss_accesses > 0) = FALSE
      BY <2>1 DEF EBlockMade, EBlockFacts
    <3>2. QED BY <2>1, <2>2, <3>1 DEF EStructure, EBlockMade
  <2>5. EEvent(r, i) <=> b.failure_code # None
    BY <2>1, <2>2, <2>3, <2>4, NoneAssumption DEF EEvent, EBlockMade
  <2>6. QED BY <2>1, <2>5 DEF EBlockMade, b
<1>10. {i \in Blocks : EEvent(r, i)} = Failing(blocks)
  BY <1>1, <1>9 DEF Failing
<1>11. AuditedTotals(blocks) = totals
  BY <1>1, <1>9, TotalsAgree DEF totals
<1> DEFINE numerator == IF exceeded THEN BlockCount ELSE Cardinality(Failing(blocks))
<1>12. CommonResult(r, numerator, PassOrFail(numerator))
  <2>1. numerator = 0 <=> ~(exceeded \/ Failing(blocks) # {})
    BY <1>1, Counts, FailingIsCounted, BlockCountAssumption
  <2> HIDE DEF numerator
  <2>2. r.numerator = numerator
    BY <1>7 DEF numerator
  <2>3. QED BY <1>7, <2>1, <2>2 DEF CommonResult, PassOrFail
<1>13. r.interval = numerator
  BY <1>7
<1> HIDE DEF numerator
<1>14. numerator = IF \E pp \in Policies : totals[pp].budget_exceeded
                   THEN BlockCount ELSE Cardinality(Failing(blocks))
  BY DEF numerator
<1>15. QED BY <1>1, <1>7, <1>8, <1>9, <1>10, <1>11, <1>12, <1>13, <1>14 DEF ConsistentE, r

-----------------------------------------------------------------------------
(* The bundle.                                                             *)

ResultsOf(worlds) == [e \in Endpoints |-> BindSnapshots(Run(e, worlds[e]))]

LEMMA ComputedEndpointsPass ==
  ASSUME NEW worlds, \A e \in Endpoints : worlds[e] \in Worlds(e),
         NEW e \in Endpoints, e = "D1" => ~Misstep(worlds[e])
  PROVE  Consistent(e, ResultsOf(worlds))
<1> DEFINE results == ResultsOf(worlds)
           w == worlds[e]
<1>1. w \in Worlds(e) /\ \A f \in Endpoints : results[f] = BindSnapshots(Run(f, worlds[f]))
  BY DEF ResultsOf
<1> HIDE DEF results
<1>2. CASE e = "A0"
  <2>1. w \in A0World /\ results["A0"] = BindSnapshots(RunA0(w))
    BY <1>1, <1>2 DEF Worlds, Run
  <2>2. QED BY <1>2, <2>1, A0Passes DEF Consistent, results
<1>3. CASE e = "A1"
  <2>1. "A0" \in Endpoints
    BY DEF Endpoints
  <2>2. worlds["A0"] \in A0World /\ results["A0"] = BindSnapshots(RunA0(worlds["A0"]))
    BY <1>1, <2>1 DEF Worlds, Run
  <2>3. A0Signatures(results) = Signature
    BY <2>2, A0Passes, SignatureAssumption DEF A0Signatures
  <2>4. w \in A1World /\ results["A1"] = BindSnapshots(RunA1(w))
    BY <1>1, <1>3 DEF Worlds, Run
  <2>5. QED BY <1>3, <2>3, <2>4, A1Passes DEF Consistent, results
<1>4. CASE e \in {"B0", "B1"}
  <2>1. w \in BWorld /\ results[e] = BindSnapshots(RunB(e, w))
    BY <1>1, <1>4 DEF Worlds, Run
  <2>2. QED BY <1>4, <2>1, BPasses DEF Consistent, results
<1>5. CASE e = "C"
  <2>1. w \in CWorld /\ results["C"] = BindSnapshots(RunC(w))
    BY <1>1, <1>5 DEF Worlds, Run
  <2>2. QED BY <1>5, <2>1, CPasses DEF Consistent, results
<1>6. CASE e = "D0"
  <2>1. w \in D0World /\ results["D0"] = BindSnapshots(RunD0(w))
    BY <1>1, <1>6 DEF Worlds, Run
  <2>2. QED BY <1>6, <2>1, D0Passes DEF Consistent, results
<1>7. CASE e = "D1"
  <2>1. w \in D1World /\ results["D1"] = BindSnapshots(RunD1(w))
    BY <1>1, <1>7 DEF Worlds, Run
  <2>2. QED BY <1>7, <2>1, D1Passes DEF Consistent, results
<1>8. CASE e = "D2-CERT"
  <2>1. w \in D2World /\ results["D2-CERT"] = BindSnapshots(RunD2Cert(w))
    BY <1>1, <1>8 DEF Worlds, Run
  <2>2. QED BY <1>8, <2>1, D2CertPasses DEF Consistent, results
<1>9. CASE e = "D2-MEM"
  <2>1. results["D2-MEM"] = BindSnapshots(RunD2Mem)
    BY <1>1, <1>9 DEF Run
  <2>2. QED BY <1>9, <2>1, D2MemPasses DEF Consistent, results
<1>10. CASE e = "E"
  <2>1. w \in EWorld /\ results["E"] = BindSnapshots(RunE(w))
    BY <1>1, <1>10 DEF Worlds, Run
  <2>2. QED BY <1>10, <2>1, EPasses DEF Consistent, results
<1>11. CASE e = "F0"
  <2>1. w \in F0World /\ results["F0"] = BindSnapshots(RunF0(w))
    BY <1>1, <1>11 DEF Worlds, Run
  <2>2. QED BY <1>11, <2>1, F0Passes DEF Consistent, results
<1>12. QED
  BY <1>2, <1>3, <1>4, <1>5, <1>6, <1>7, <1>8, <1>9, <1>10, <1>11 DEF Endpoints

\* Whatever the evaluators of the eleven endpoints return, the bundle the
\* analysis makes of it passes the read-only audit, which recomputes every
\* verdict from the block records and shares no code with the analysis.  The
\* one exception is a D1 whose two densities are wrong and differ.
THEOREM ComputedBundlesPassTheirAudit ==
  ASSUME NEW worlds, \A e \in Endpoints : worlds[e] \in Worlds(e),
         ~Misstep(worlds["D1"])
  PROVE  AuditPasses(ResultsOf(worlds))
<1>1. \A e \in Endpoints : Consistent(e, ResultsOf(worlds))
  BY ComputedEndpointsPass
<1>2. "A0" \in Endpoints
  BY DEF Endpoints
<1>3. ConsistentA0(ResultsOf(worlds)["A0"])
  BY <1>1, <1>2 DEF Consistent
<1>4. DOMAIN ResultsOf(worlds)["A0"].block_records = Candidates
  BY <1>3 DEF ConsistentA0, BaseEndpointCheck, RecordDomain
<1>5. DOMAIN ResultsOf(worlds) = Endpoints
  BY DEF ResultsOf
<1>6. QED BY <1>1, <1>4, <1>5 DEF AuditPasses

-----------------------------------------------------------------------------
(* What the audit recomputes cannot be misreported.                        *)

\* Two bundles that differ, in one endpoint, in what the audit recomputes at most.
SameEvidence(e, results, others) ==
  /\ others[e].block_records = results[e].block_records
  /\ others[e].fidelity_records = results[e].fidelity_records
  /\ others[e].failure_ledger = results[e].failure_ledger
  /\ others[e].summary = results[e].summary
  /\ e = "A1" => A0Signatures(others) = A0Signatures(results)

SameConclusion(e, results, others) ==
  /\ others[e].status = results[e].status
  /\ others[e].numerator = results[e].numerator

LEMMA EvidenceDeterminesConclusion ==
  ASSUME NEW e \in Endpoints, NEW results, NEW others,
         SameEvidence(e, results, others), Consistent(e, results), Consistent(e, others)
  PROVE  SameConclusion(e, results, others)
<1> DEFINE r == results[e]
           s == others[e]
<1>1. /\ s.block_records = r.block_records /\ s.fidelity_records = r.fidelity_records
      /\ s.failure_ledger = r.failure_ledger
      /\ Stable(s) <=> Stable(r)
      /\ \A i : StableAt(s, i) <=> StableAt(r, i)
  BY DEF SameEvidence, Stable, StableAt
<1>2. ASSUME NEW n, NEW c, CommonResult(r, n, c), CommonResult(s, n, c)
      PROVE  SameConclusion(e, results, others)
  BY <1>2 DEF CommonResult, SameConclusion
<1>3. CASE e = "A0"
  <2>1. CommonResult(r, r.failure_ledger, PassOrFail(r.failure_ledger))
    BY <1>3 DEF Consistent, ConsistentA0
  <2>2. CommonResult(s, s.failure_ledger, PassOrFail(s.failure_ledger))
    BY <1>3 DEF Consistent, ConsistentA0
  <2>3. QED BY <1>1, <1>2, <2>1, <2>2
<1>4. CASE e = "A1"
  <2> DEFINE n(x, y) == Cardinality({i \in Blocks : A1Event(x, i, y)})
             signatures == A0Signatures(results)
  <2>1. A0Signatures(others) = signatures
    BY <1>4 DEF SameEvidence
  <2>2. CommonResult(r, n(r, signatures), PassOrFail(n(r, signatures)))
    BY <1>4 DEF Consistent, ConsistentA1
  <2>3. CommonResult(s, n(s, signatures), PassOrFail(n(s, signatures)))
    BY <1>4, <2>1 DEF Consistent, ConsistentA1
  <2>4. \A i : A1Event(s, i, signatures) <=> A1Event(r, i, signatures)
    <3> HIDE DEF r, s, signatures
    <3>1. \A i : A1Structure(s, i, signatures) <=> A1Structure(r, i, signatures)
      BY <1>1 DEF A1Structure
    <3>2. QED BY <1>1, <3>1 DEF A1Event
  <2>5. n(s, signatures) = n(r, signatures)
    <3> HIDE DEF r, s, signatures
    <3>1. {i \in Blocks : A1Event(s, i, signatures)} = {i \in Blocks : A1Event(r, i, signatures)}
      BY <2>4
    <3>2. QED BY <3>1
  <2> HIDE DEF n, r, s, signatures
  <2>6. QED BY <1>2, <2>2, <2>3, <2>5
<1>5. CASE e \in {"B0", "B1"}
  <2> DEFINE n(x) == Cardinality({i \in Blocks : BEvent(e, x, i)})
  <2>1. CommonResult(r, n(r), PassOrFail(n(r))) /\ CommonResult(s, n(s), PassOrFail(n(s)))
    BY <1>5 DEF Consistent, ConsistentB
  <2>2. n(s) = n(r)
    <3> HIDE DEF r, s
    <3>1. \A i : BEvent(e, s, i) <=> BEvent(e, r, i)
      BY <1>1 DEF BEvent
    <3>2. {i \in Blocks : BEvent(e, s, i)} = {i \in Blocks : BEvent(e, r, i)}
      BY <3>1
    <3>3. QED BY <3>2
  <2> HIDE DEF n, r, s
  <2>3. QED BY <1>2, <2>1, <2>2
<1>6. CASE e = "C"
  <2> DEFINE blocks == r.block_records
             paths == [k \in DOMAIN blocks |-> blocks[k].path]
             adverse(x) == {k \in DOMAIN blocks :
                              \/ \E t \in DOMAIN paths[k] : paths[k][t].beyond \/ paths[k][t].exit
                              \/ ~Stable(x)
                              \/ ~CStructure(blocks[k])}
             code(x) == IF ExitsOf(paths) > 0 THEN "DOMAIN_EXIT_WITHDRAWAL"
                        ELSE PassOrFail(Cardinality(adverse(x)))
  <2>1. IF Stable(r) THEN CommonResult(r, Cardinality(adverse(r)), code(r))
        ELSE CommonResult(r, CaseCount, "FIDELITY_INDETERMINATE")
    BY <1>6 DEF Consistent, ConsistentC
  <2>2. IF Stable(s) THEN CommonResult(s, Cardinality(adverse(s)), code(s))
        ELSE CommonResult(s, CaseCount, "FIDELITY_INDETERMINATE")
    <3>1. ConsistentC(s)
      BY <1>6 DEF Consistent
    <3> HIDE DEF r, s
    <3>2. s.block_records = blocks
      BY <1>1
    <3> HIDE DEF blocks
    <3>3. QED BY <3>1, <3>2 DEF ConsistentC
  <2>3. adverse(s) = adverse(r) /\ code(s) = code(r)
    <3> HIDE DEF r, s, blocks, paths
    <3>1. adverse(s) = adverse(r)
      BY <1>1
    <3>2. QED BY <3>1
  <2> HIDE DEF r, s, adverse, code
  <2>4. QED BY <1>1, <1>2, <2>1, <2>2, <2>3
<1>7. CASE e = "D0"
  <2> DEFINE n(x) == Cardinality({i \in Blocks : D0Event(x, i)})
  <2>1. CommonResult(r, n(r), PassOrFail(n(r))) /\ CommonResult(s, n(s), PassOrFail(n(s)))
    BY <1>7 DEF Consistent, ConsistentD0
  <2>2. n(s) = n(r)
    <3> HIDE DEF r, s
    <3>1. \A i : D0Event(s, i) <=> D0Event(r, i)
      BY <1>1 DEF D0Event
    <3>2. {i \in Blocks : D0Event(s, i)} = {i \in Blocks : D0Event(r, i)}
      BY <3>1
    <3>3. QED BY <3>2
  <2> HIDE DEF n, r, s
  <2>3. QED BY <1>2, <2>1, <2>2
<1>8. CASE e = "D1"
  <2> DEFINE b(x) == x.block_records[1]
             recomputed(x) == <<Rule90Ones(b(x).microstate_pair[1]),
                                Rule90Ones(b(x).microstate_pair[2])>>
             structure(x) == /\ b(x).microstate_pair = WitnessPair
                             /\ b(x).next_density = recomputed(x)
             witness(x) == structure(x) /\ recomputed(x)[1] # recomputed(x)[2]
             event(x) == ~witness(x) \/ ~Stable(x)
  <2>1. CommonResult(r, IF event(r) THEN 1 ELSE 0, IF event(r) THEN "FAIL" ELSE "PASS")
    BY <1>8 DEF Consistent, ConsistentD1
  <2>2. CommonResult(s, IF event(s) THEN 1 ELSE 0, IF event(s) THEN "FAIL" ELSE "PASS")
    BY <1>8 DEF Consistent, ConsistentD1
  <2>3. event(s) <=> event(r)
    <3> HIDE DEF r, s
    <3>1. b(s) = b(r)
      BY <1>1
    <3>2. QED BY <1>1, <3>1
  <2> HIDE DEF event, r, s
  <2>4. QED BY <1>2, <2>1, <2>2, <2>3
<1>9. CASE e = "D2-CERT"
  <2> DEFINE violations(x) == Cardinality({i \in Blocks : D2Violation(x.block_records[i], i)})
             n(x) == Cardinality({i \in Blocks : D2Adverse(x, i)})
             code(x) == IF ~Stable(x) THEN "FIDELITY_INDETERMINATE"
                        ELSE IF violations(x) >= WithdrawalCount
                        THEN "LOCKED_AUDIT_WITHDRAWAL_TRIGGERED"
                        ELSE "NOT_CONTRADICTED_BY_LOCKED_AUDIT"
  <2>1. CommonResult(r, n(r), code(r)) /\ CommonResult(s, n(s), code(s))
    BY <1>9 DEF Consistent, ConsistentD2Cert
  <2>2. n(s) = n(r) /\ code(s) = code(r)
    <3> HIDE DEF r, s
    <3>1. \A i : D2Adverse(s, i) <=> D2Adverse(r, i)
      BY <1>1 DEF D2Adverse
    <3>2. {i \in Blocks : D2Adverse(s, i)} = {i \in Blocks : D2Adverse(r, i)}
      BY <3>1
    <3>3. QED BY <1>1, <3>2
  <2> HIDE DEF n, code, r, s
  <2>3. QED BY <1>2, <2>1, <2>2
<1>10. CASE e = "D2-MEM"
  <2> DEFINE repaired(blocks) == /\ {blocks[t].initial_microstate : t \in DOMAIN blocks}
                                      = (0 .. 1) \X (0 .. 1)
                                 /\ Ambiguous(blocks) /\ Repaired(blocks)
             n(x) == IF repaired(x.block_records) /\ Stable(x) THEN 0 ELSE 1
             code(x) == IF repaired(x.block_records) /\ Stable(x) THEN "PASS" ELSE "FAIL"
  <2>1. ASSUME NEW x, ConsistentD2Mem(x) PROVE CommonResult(x, n(x), code(x))
    BY <2>1 DEF ConsistentD2Mem
  <2>2. ConsistentD2Mem(r) /\ ConsistentD2Mem(s)
    BY <1>10 DEF Consistent
  <2>3. n(s) = n(r) /\ code(s) = code(r)
    <3> HIDE DEF repaired, r, s
    <3>1. QED BY <1>1
  <2> HIDE DEF n, code, r, s
  <2>4. QED BY <1>2, <2>1, <2>2, <2>3
<1>11. CASE e = "E"
  <2> DEFINE totals(x) == AuditedTotals(x.block_records)
             n(x) == IF \E p \in Policies : totals(x)[p].budget_exceeded
                     THEN BlockCount ELSE Cardinality({i \in Blocks : EEvent(x, i)})
  <2>1. CommonResult(r, n(r), PassOrFail(n(r))) /\ CommonResult(s, n(s), PassOrFail(n(s)))
    BY <1>11 DEF Consistent, ConsistentE
  <2>2. n(s) = n(r)
    <3> HIDE DEF r, s
    <3>1. totals(s) = totals(r)
      BY <1>1
    <3>2. \A i : EEvent(s, i) <=> EEvent(r, i)
      <4>1. \A i : EStructure(s, i) <=> EStructure(r, i)
        BY <1>1 DEF EStructure
      <4>2. QED BY <1>1, <4>1 DEF EEvent
    <3>3. {i \in Blocks : EEvent(s, i)} = {i \in Blocks : EEvent(r, i)}
      BY <3>2
    <3> HIDE DEF totals
    <3>4. QED BY <3>1, <3>3
  <2> HIDE DEF n, r, s
  <2>3. QED BY <1>2, <2>1, <2>2
<1>12. CASE e = "F0"
  <2> DEFINE n(x) == Cardinality({i \in Blocks : F0Event(x, i)})
  <2>1. CommonResult(r, n(r), PassOrFail(n(r))) /\ CommonResult(s, n(s), PassOrFail(n(s)))
    BY <1>12 DEF Consistent, ConsistentF0
  <2>2. n(s) = n(r)
    <3> HIDE DEF r, s
    <3>1. \A i : F0Event(s, i) <=> F0Event(r, i)
      BY <1>1 DEF F0Event
    <3>2. {i \in Blocks : F0Event(s, i)} = {i \in Blocks : F0Event(r, i)}
      BY <3>1
    <3>3. QED BY <3>2
  <2> HIDE DEF n, r, s
  <2>3. QED BY <1>2, <2>1, <2>2
<1>13. QED
  BY <1>3, <1>4, <1>5, <1>6, <1>7, <1>8, <1>9, <1>10, <1>11, <1>12 DEF Endpoints

\* Nor can an adverse block be hidden where a ledger lists it.
LEMMA LedgerKeepsAdverse ==
  ASSUME NEW e \in Endpoints \ {"C", "D1", "D2-MEM", "E"}, NEW results, NEW others,
         others[e].failure_ledger = results[e].failure_ledger,
         Consistent(e, results), Consistent(e, others)
  PROVE  Failing(others[e].block_records) = Failing(results[e].block_records)
<1> DEFINE r == results[e]
           s == others[e]
<1>1. CASE e = "A0"
  <2>1. \A c \in DOMAIN r.block_records : r.block_records[c].failure_code = None
    BY <1>1 DEF Consistent, ConsistentA0
  <2>2. \A c \in DOMAIN s.block_records : s.block_records[c].failure_code = None
    BY <1>1 DEF Consistent, ConsistentA0
  <2>3. QED BY <2>1, <2>2 DEF Failing
<1>2. CASE e # "A0"
  <2>1. LedgerCrosscheck(r) /\ LedgerCrosscheck(s)
    BY <1>2 DEF Endpoints, Consistent, ConsistentA1, ConsistentB, ConsistentD0,
                ConsistentD2Cert, ConsistentF0
  <2>2. DOMAIN r.failure_ledger = Failing(r.block_records)
        /\ DOMAIN s.failure_ledger = Failing(s.block_records)
    BY <2>1 DEF LedgerCrosscheck
  <2>3. QED BY <2>2
<1>3. QED BY <1>1, <1>2

\* E has no ledger: its codes are recomputed from what the policies report.
LEMMA ECodesKeepAdverse ==
  ASSUME NEW results, NEW others, Consistent("E", results), Consistent("E", others),
         \A i \in Blocks :
           LET b == results["E"].block_records[i]
               c == others["E"].block_records[i]
           IN c.policy_results = b.policy_results \/ c.failure_code = b.failure_code
  PROVE  Failing(others["E"].block_records) = Failing(results["E"].block_records)
<1> DEFINE blocks == results["E"].block_records
           altered == others["E"].block_records
<1>1. /\ DOMAIN blocks = Blocks /\ DOMAIN altered = Blocks
      /\ \A i \in Blocks : /\ blocks[i].failure_code = ECode(blocks[i])
                           /\ altered[i].failure_code = ECode(altered[i])
  BY DEF Consistent, ConsistentE, BaseEndpointCheck, RecordDomain
<1>2. ASSUME NEW i \in Blocks
      PROVE  altered[i].failure_code = blocks[i].failure_code
  <2> DEFINE b == blocks[i]
             c == altered[i]
  <2>1. c.policy_results = b.policy_results \/ c.failure_code = b.failure_code
    OBVIOUS
  <2>2. b.failure_code = ECode(b) /\ c.failure_code = ECode(c)
    BY <1>1
  <2> HIDE DEF b, c
  <2>3. c.policy_results = b.policy_results => ECode(c) = ECode(b)
    BY DEF ECode, EHidden, EMatches
  <2>4. c.failure_code = b.failure_code
    BY <2>1, <2>2, <2>3
  <2>5. QED BY <2>4 DEF b, c
<1> HIDE DEF blocks, altered
<1>3. Failing(altered) = Failing(blocks)
  BY <1>1, <1>2 DEF Failing
<1>4. QED BY <1>3 DEF blocks, altered

=============================================================================
