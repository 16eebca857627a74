------------------------ MODULE ProtectedChainProofs ------------------------
(* Proofs about ProtectedChain: its type invariant, and what approved       *)
(* freezes, roles, results and accepted executions rest on.                *)
EXTENDS ProtectedChain, TLAPS

-----------------------------------------------------------------------------
(* Records are never withdrawn, so what a record rests on stays.           *)

Grows ==
  /\ \A k \in Kinds : issued[k] \subseteq issued'[k]
  /\ Written \subseteq Written'
  /\ Restricted \subseteq Restricted'

\* The records a well-formed record names still exist after a step.
LEMMA WellFormedGrows ==
  ASSUME NEW k \in Kinds, NEW d, WellFormed(k, d), Grows
  PROVE  WellFormed(k, d)'
<1>1. /\ issued["candidate"] \subseteq issued'["candidate"]
      /\ issued["author"] \subseteq issued'["author"]
      /\ issued["freeze"] \subseteq issued'["freeze"]
  BY DEF Grows, Kinds
<1>2. /\ issued["calibration_materialization"]
           \subseteq issued'["calibration_materialization"]
      /\ issued["calibration_execution"]
           \subseteq issued'["calibration_execution"]
      /\ issued["result"] \subseteq issued'["result"]
      /\ issued["certificate"] \subseteq issued'["certificate"]
  BY DEF Grows, Kinds
<1>3. /\ issued["review"] \subseteq issued'["review"]
      /\ issued["locked_materialization"]
           \subseteq issued'["locked_materialization"]
      /\ issued["locked_execution"] \subseteq issued'["locked_execution"]
  BY DEF Grows, Kinds
<1>4. Written \subseteq Written'
  BY DEF Grows
<1> QED BY <1>1, <1>2, <1>3, <1>4 DEF WellFormed

LEMMA JobsGrow ==
  ASSUME Grows
  PROVE  /\ RoleJob \subseteq RoleJob' /\ RoleManifest \subseteq RoleManifest'
         /\ AnalysisJob \subseteq AnalysisJob'
         /\ PromotionJob \subseteq PromotionJob'
<1>1. /\ issued["candidate"] \subseteq issued'["candidate"]
      /\ issued["author"] \subseteq issued'["author"]
      /\ issued["freeze"] \subseteq issued'["freeze"]
      /\ issued["calibration_materialization"]
           \subseteq issued'["calibration_materialization"]
      /\ issued["calibration_execution"]
           \subseteq issued'["calibration_execution"]
      /\ issued["locked_materialization"]
           \subseteq issued'["locked_materialization"]
      /\ Written \subseteq Written'
  BY DEF Grows, Kinds
<1> QED BY <1>1 DEF RoleJob, RoleManifest, AnalysisJob, PromotionJob

\* What authorizes a role, and the calibration behind it, stays as well.
LEMMA AuthorizationGrows ==
  ASSUME Grows, NEW job
  PROVE  /\ JobAuthorized(job) => JobAuthorized(job)'
         /\ JobFollowsCalibration(job) => JobFollowsCalibration(job)'
         /\ RoleAuthorized(job) => RoleAuthorized(job)'
         /\ RoleFollowsCalibration(job) => RoleFollowsCalibration(job)'
         /\ RestsOnItsRole(job) => RestsOnItsRole(job)'
         /\ RestsOnAGrant(job) => RestsOnAGrant(job)'
<1>1. /\ issued["freeze"] \subseteq issued'["freeze"]
      /\ issued["calibration_materialization"]
           \subseteq issued'["calibration_materialization"]
      /\ issued["locked_materialization"]
           \subseteq issued'["locked_materialization"]
  BY DEF Grows, Kinds
<1>2. \A role : RolesOf(role) \subseteq RolesOf(role)'
  BY DEF Grows, RolesOf
<1>3. JobAuthorized(job) => JobAuthorized(job)'
  BY <1>1 DEF JobAuthorized
<1>4. JobFollowsCalibration(job) => JobFollowsCalibration(job)'
  BY <1>2 DEF JobFollowsCalibration
<1>5. RestsOnItsRole(job) => RestsOnItsRole(job)'
  BY <1>2 DEF RestsOnItsRole
<1>6. RestsOnAGrant(job) => RestsOnAGrant(job)'
  BY <1>2 DEF RestsOnAGrant, Grows
<1> QED
  BY <1>3, <1>4, <1>5, <1>6 DEF RoleAuthorized, RoleFollowsCalibration

-----------------------------------------------------------------------------
(* The records, and then the invocations, of a step.                       *)

RecordsInv ==
  /\ RecordsOK
  /\ FreezesAreApproved
  /\ RolesAreAuthorized
  /\ LockedFollowsCalibration
  /\ ResultsRestOnTheirRole
  /\ AuditsRestOnAGrant

\* A step that only adds records keeps what holds of the others.
LEMMA RecordsStep ==
  ASSUME RecordsInv, Grows,
         \A k \in Kinds : \A d \in issued'[k] \ issued[k] : WellFormed(k, d)',
         \A d \in issued'["freeze"] \ issued["freeze"] : Approved(d),
         \A d \in issued'["result"] \ issued["result"] : RestsOnItsRole(d)',
         \A d \in issued'["audited"] \ issued["audited"] : RestsOnAGrant(d)',
         \A m \in Written' \ Written :
           m \in RoleManifest' /\ RoleAuthorized(m)' /\ RoleFollowsCalibration(m)'
  PROVE  RecordsInv'
<1>1. RecordsOK'
  <2>1. ASSUME NEW k \in Kinds, NEW d \in issued'[k]
        PROVE  WellFormed(k, d)'
    BY <2>1, WellFormedGrows DEF RecordsInv, RecordsOK
  <2>2. Written' \subseteq RoleManifest'
    BY JobsGrow DEF RecordsInv, RecordsOK
  <2> QED BY <2>1, <2>2 DEF RecordsOK
<1>2. FreezesAreApproved'
  BY DEF RecordsInv, FreezesAreApproved, Approved
<1>3. \A m \in Written' : RoleAuthorized(m)' /\ RoleFollowsCalibration(m)'
  BY AuthorizationGrows
     DEF RecordsInv, RolesAreAuthorized, LockedFollowsCalibration
<1>4. \A d \in issued'["result"] : RestsOnItsRole(d)'
  BY AuthorizationGrows DEF RecordsInv, ResultsRestOnTheirRole
<1>5. \A d \in issued'["audited"] : RestsOnAGrant(d)'
  BY AuthorizationGrows DEF RecordsInv, AuditsRestOnAGrant
<1> QED
  BY <1>1, <1>2, <1>3, <1>4, <1>5
     DEF RecordsInv, RolesAreAuthorized, LockedFollowsCalibration,
         ResultsRestOnTheirRole, AuditsRestOnAGrant

\* An invocation that a step leaves alone, or ends, is as authorized as before.
LEMMA CallKept ==
  ASSUME NEW c \in Call, CallOK(c), CallAuthorized(c), Grows,
         call'[c] \in {call[c], Idle}
  PROVE  CallOK(c)' /\ CallAuthorized(c)'
<1>1. CASE call'[c] = Idle
  BY <1>1 DEF CallOK, CallAuthorized, Idle, Stages
<1>2. CASE call'[c] = call[c]
  <2>1. PICK job : job = call[c].job
    OBVIOUS
  <2>2. /\ JobAuthorized(job) => JobAuthorized(job)'
        /\ JobFollowsCalibration(job) => JobFollowsCalibration(job)'
        /\ RoleAuthorized(job) => RoleAuthorized(job)'
        /\ RoleFollowsCalibration(job) => RoleFollowsCalibration(job)'
    BY AuthorizationGrows
  <2>3. CallOK(c)'
    BY <1>2, JobsGrow DEF CallOK
  <2>4. /\ call[c].stage = "promote" =>
             /\ job \in PromotionJob /\ job.author.candidate = job.candidate
             /\ job.author.inventory = job.candidate.inventory
        /\ call[c].stage = "draw" =>
             job \in RoleJob /\ JobAuthorized(job) /\ JobFollowsCalibration(job)
        /\ call[c].stage \in {"claim", "fill"} =>
             /\ job \in RoleManifest
             /\ RoleAuthorized(job) /\ RoleFollowsCalibration(job)
        /\ call[c].stage = "analyse" =>
             /\ job \in AnalysisJob /\ job.author = job.freeze.author
             /\ job.approval.freeze = job.freeze
             /\ job.approval.author = job.author
    BY <2>1 DEF CallAuthorized
  <2>5. /\ call[c].stage = "promote" =>
             /\ job \in PromotionJob' /\ job.author.candidate = job.candidate
             /\ job.author.inventory = job.candidate.inventory
        /\ call[c].stage = "draw" =>
             /\ job \in RoleJob'
             /\ JobAuthorized(job)' /\ JobFollowsCalibration(job)'
        /\ call[c].stage \in {"claim", "fill"} =>
             /\ job \in RoleManifest'
             /\ RoleAuthorized(job)' /\ RoleFollowsCalibration(job)'
        /\ call[c].stage = "analyse" =>
             /\ job \in AnalysisJob' /\ job.author = job.freeze.author
             /\ job.approval.freeze = job.freeze
             /\ job.approval.author = job.author
    BY <2>2, <2>4, JobsGrow
  <2>6. job = call'[c].job /\ call[c].stage = call'[c].stage
    BY <1>2, <2>1
  <2>7. CallAuthorized(c)'
    BY <2>5, <2>6 DEF CallAuthorized
  <2> QED BY <2>3, <2>7
<1> QED BY <1>1, <1>2

-----------------------------------------------------------------------------
(* The steps.                                                              *)

\* A step that neither issues a record nor writes a role leaves Grows to hold.
LEMMA Unwritten ==
  ASSUME UNCHANGED issued, UNCHANGED roleFile, private \subseteq private'
  PROVE  Grows /\ (RecordsInv => RecordsInv') /\ RoleManifest' = RoleManifest
         /\ RoleJob' = RoleJob /\ AnalysisJob' = AnalysisJob
         /\ PromotionJob' = PromotionJob
         /\ Written' = Written
<1>1. Written' = Written
  BY DEF Written
<1>2. Grows
  BY <1>1 DEF Grows, Restricted
<1>3. /\ RoleManifest' = RoleManifest /\ RoleJob' = RoleJob
      /\ AnalysisJob' = AnalysisJob /\ PromotionJob' = PromotionJob
  BY <1>1 DEF RoleManifest, RoleJob, AnalysisJob, PromotionJob
<1>4. RecordsInv => RecordsInv'
  <2> SUFFICES ASSUME RecordsInv PROVE RecordsInv'
    OBVIOUS
  <2>1. \A k \in Kinds : \A d \in issued[k] : WellFormed(k, d)'
    BY <1>2, WellFormedGrows DEF RecordsInv, RecordsOK
  <2> QED BY <1>1, <1>2, RecordsStep
<1> QED BY <1>1, <1>2, <1>3, <1>4

\* The single writer of a path stays single when nobody starts to fill.
LEMMA OneWriterKept ==
  ASSUME \A c \in Call : OneWriter(c), UNCHANGED roleFile,
         NEW c \in Call, call'[c] \in {call[c], Idle},
         \A d \in Call : call'[d].stage = "fill" => call'[d] = call[d]
  PROVE  OneWriter(c)'
  BY DEF OneWriter, Idle

\* Issuing a record, by people or by a call that returns.
LEMMA IssueMove ==
  ASSUME ChainInv, NEW k \in Kinds, NEW d, IssueAll(k, d), WellFormed(k, d),
         k = "freeze" => Approved(d),
         k = "result" => RestsOnItsRole(d),
         k = "audited" => RestsOnAGrant(d),
         UNCHANGED <<runtime, roleFile, private>>, DOMAIN call' = Call,
         \A c \in Call : call'[c] \in {call[c], Idle}
  PROVE  ChainInv'
<1>1. Grows /\ DOMAIN issued' = Kinds
  BY DEF Grows, IssueAll, ChainInv, TypeOK, Written, Restricted
<1>2. RecordsInv'
  <2>1. RecordsInv
    BY DEF ChainInv, TypeOK, RecordsInv
  <2>2. \A j \in Kinds : \A e \in issued'[j] \ issued[j] : j = k /\ e = d
    BY DEF IssueAll, ChainInv, TypeOK
  <2>3. WellFormed(k, d)'
    BY <1>1, WellFormedGrows
  <2>4. /\ k = "result" => RestsOnItsRole(d)'
        /\ k = "audited" => RestsOnAGrant(d)'
    BY <1>1, AuthorizationGrows
  <2>5. Written' = Written
    BY DEF Written
  <2>6. {"freeze", "result", "audited"} \subseteq Kinds
    BY DEF Kinds
  <2>7. /\ \A e \in issued'["freeze"] \ issued["freeze"] : Approved(e)
        /\ \A e \in issued'["result"] \ issued["result"] : RestsOnItsRole(e)'
        /\ \A e \in issued'["audited"] \ issued["audited"] : RestsOnAGrant(e)'
    BY <2>2, <2>4, <2>6
  <2>8. \A j \in Kinds : \A e \in issued'[j] \ issued[j] : WellFormed(j, e)'
    BY <2>2, <2>3
  <2> QED BY <1>1, <2>1, <2>5, <2>7, <2>8, RecordsStep
<1>3. \A c \in Call : CallOK(c)' /\ CallAuthorized(c)'
  BY <1>1, CallKept DEF ChainInv, TypeOK, CallsAreAuthorized
<1>4. \A c \in Call : OneWriter(c)'
  BY OneWriterKept DEF ChainInv, CallsAreAuthorized, Idle
<1> QED
  BY <1>1, <1>2, <1>3, <1>4
     DEF ChainInv, TypeOK, RecordsInv, CallsAreAuthorized

\* A step of one invocation that writes nothing: it moves on with a job it may
\* hold, or returns.
LEMMA CallMove ==
  ASSUME ChainInv, NEW c \in Call, UNCHANGED <<issued, roleFile>>,
         runtime' \in Runtime, private \subseteq private', private' \subseteq Path,
         DOMAIN call' = Call,
         \A d \in Call \ {c} : call'[d] = call[d],
         CallOK(c)', CallAuthorized(c)', call'[c].stage # "fill"
  PROVE  ChainInv'
<1>1. Grows /\ RecordsInv'
  BY Unwritten DEF ChainInv, TypeOK, RecordsInv
<1>2. \A d \in Call \ {c} : CallOK(d)' /\ CallAuthorized(d)'
  BY <1>1, CallKept DEF ChainInv, TypeOK, CallsAreAuthorized
<1>3. \A d \in Call : OneWriter(d)'
  BY DEF ChainInv, CallsAreAuthorized, OneWriter
<1> QED
  BY <1>1, <1>2, <1>3 DEF ChainInv, TypeOK, RecordsInv, CallsAreAuthorized

LEMMA EditMove ==
  ASSUME ChainInv, NEW r \in Runtime, EditRuntime(r)
  PROVE  ChainInv'
<1>1. Grows /\ RecordsInv'
  BY Unwritten DEF EditRuntime, ChainInv, TypeOK, RecordsInv
<1>2. \A d \in Call : CallOK(d)' /\ CallAuthorized(d)'
  BY <1>1, CallKept DEF EditRuntime, ChainInv, TypeOK, CallsAreAuthorized
<1>3. \A d \in Call : OneWriter(d)'
  BY DEF EditRuntime, ChainInv, CallsAreAuthorized, OneWriter
<1> QED
  BY <1>1, <1>2, <1>3
     DEF EditRuntime, ChainInv, TypeOK, RecordsInv, CallsAreAuthorized

LEMMA PeopleMove ==
  ASSUME ChainInv, People
  PROVE  ChainInv'
<1>0. TypeOK
  BY DEF ChainInv
<1>1. ASSUME NEW r \in Runtime, EditRuntime(r)
      PROVE  ChainInv'
  BY <1>1, EditMove
<1>2. CASE FreezeCandidate
  <2>1. WellFormed("candidate", CandidateOf(runtime))
    BY <1>0 DEF WellFormed, CandidateOf, TypeOK
  <2> QED
    BY <1>0, <1>2, <2>1, IssueMove DEF FreezeCandidate, Issue, Kinds, TypeOK
<1>3. ASSUME NEW candidate \in issued["candidate"], NEW r \in Runtime,
             ApproveCandidate(candidate, r)
      PROVE  ChainInv'
  <2> DEFINE d == [candidate |-> candidate, inventory |-> r]
  <2>1. WellFormed("author", d)
    BY DEF WellFormed
  <2>2. IssueAll("author", d) /\ UNCHANGED <<runtime, roleFile, private, call>>
    BY <1>3 DEF ApproveCandidate, Issue
  <2> HIDE DEF d
  <2> QED BY <1>0, <2>1, <2>2, IssueMove DEF Kinds, TypeOK
<1>4. ASSUME NEW freeze \in issued["freeze"], NEW author \in issued["author"],
             NEW r \in Runtime,
             ApproveCalibrationMaterialization(freeze, r, author)
      PROVE  ChainInv'
  <2> DEFINE d == [freeze |-> freeze, inventory |-> r, author |-> author]
  <2>1. WellFormed("calibration_materialization", d)
    BY DEF WellFormed
  <2>2. /\ IssueAll("calibration_materialization", d)
        /\ UNCHANGED <<runtime, roleFile, private, call>>
    BY <1>4 DEF ApproveCalibrationMaterialization, Issue
  <2> HIDE DEF d
  <2> QED BY <1>0, <2>1, <2>2, IssueMove DEF Kinds, TypeOK
<1>5. \A freeze \in issued["freeze"] : freeze.inventory \in Runtime
  BY <1>0 DEF TypeOK, RecordsOK, WellFormed, Kinds
<1>6. ASSUME NEW freeze \in issued["freeze"], NEW author \in issued["author"],
             NEW manifest \in Written,
             NEW materialization \in issued["calibration_materialization"],
             ApproveCalibrationExecution(freeze, author, manifest,
                                         materialization)
      PROVE  ChainInv'
  <2> DEFINE d == [freeze |-> freeze, inventory |-> freeze.inventory,
                   author |-> author, manifest |-> manifest,
                   materialization |-> materialization]
  <2>1. WellFormed("calibration_execution", d)
    BY <1>5 DEF WellFormed
  <2>2. /\ IssueAll("calibration_execution", d)
        /\ UNCHANGED <<runtime, roleFile, private, call>>
    BY <1>6 DEF ApproveCalibrationExecution, Issue
  <2> HIDE DEF d
  <2> QED BY <1>0, <2>1, <2>2, IssueMove DEF Kinds, TypeOK
<1>7. \A review \in issued["review"] : /\ review.result \in issued["result"]
                                     /\ review.certificate \in issued["certificate"]
  BY <1>0 DEF TypeOK, RecordsOK, WellFormed, Kinds
<1>8. ASSUME NEW freeze \in issued["freeze"], NEW author \in issued["author"],
             NEW review \in issued["review"], NEW calibration \in Written,
             ApproveLockedMaterialization(freeze, author, review, calibration)
      PROVE  ChainInv'
  <2> DEFINE d ==
        [freeze |-> freeze, inventory |-> freeze.inventory,
         author |-> author, review |-> review, result |-> review.result,
         certificate |-> review.certificate, calibration |-> calibration]
  <2>1. WellFormed("locked_materialization", d)
    BY <1>5, <1>7 DEF WellFormed
  <2>2. /\ IssueAll("locked_materialization", d)
        /\ UNCHANGED <<runtime, roleFile, private, call>>
    BY <1>8 DEF ApproveLockedMaterialization, Issue
  <2> HIDE DEF d
  <2> QED BY <1>0, <2>1, <2>2, IssueMove DEF Kinds, TypeOK
<1>9. ASSUME NEW freeze \in issued["freeze"], NEW author \in issued["author"],
             NEW review \in issued["review"], NEW manifest \in Written,
             NEW materialization \in issued["locked_materialization"],
             ApproveLockedExecution(freeze, author, materialization, review,
                                    manifest)
      PROVE  ChainInv'
  <2> DEFINE d ==
        [freeze |-> freeze, inventory |-> freeze.inventory,
         author |-> author, materialization |-> materialization,
         review |-> review, result |-> review.result,
         certificate |-> review.certificate, manifest |-> manifest]
  <2>1. WellFormed("locked_execution", d)
    BY <1>5, <1>7 DEF WellFormed
  <2>2. /\ IssueAll("locked_execution", d)
        /\ UNCHANGED <<runtime, roleFile, private, call>>
    BY <1>9 DEF ApproveLockedExecution, Issue
  <2> HIDE DEF d
  <2> QED BY <1>0, <2>1, <2>2, IssueMove DEF Kinds, TypeOK
<1>10. ASSUME NEW freeze \in issued["freeze"], NEW result \in issued["result"],
              NEW certificate \in issued["certificate"],
              ReviewCalibration(freeze, result, certificate)
       PROVE  ChainInv'
  <2> DEFINE d == [freeze |-> freeze, inventory |-> freeze.inventory,
                   result |-> result, certificate |-> certificate]
  <2>1. WellFormed("review", d)
    BY <1>5 DEF WellFormed
  <2>2. IssueAll("review", d) /\ UNCHANGED <<runtime, roleFile, private, call>>
    BY <1>10 DEF ReviewCalibration, Issue
  <2> HIDE DEF d
  <2> QED BY <1>0, <2>1, <2>2, IssueMove DEF Kinds, TypeOK
<1> QED
  BY <1>1, <1>2, <1>3, <1>4, <1>6, <1>8, <1>9, <1>10 DEF People

LEMMA StartPromotionMove ==
  ASSUME ChainInv, NEW c \in Call, NEW candidate \in issued["candidate"],
         NEW author \in issued["author"], StartPromotion(c, candidate, author)
  PROVE  ChainInv'
<1> DEFINE job == [candidate |-> candidate, author |-> author]
<1>1. /\ job \in PromotionJob /\ job.author.candidate = job.candidate
      /\ job.author.inventory = job.candidate.inventory
  BY DEF PromotionJob, StartPromotion
<1>2. /\ call' = [call EXCEPT ![c] = [stage |-> "promote", path |-> None, job |-> job]]
      /\ UNCHANGED <<runtime, issued, roleFile, private>>
  BY DEF StartPromotion
<1> HIDE DEF job
<1>3. call'[c] = [stage |-> "promote", path |-> None, job |-> job]
  BY <1>2 DEF ChainInv, TypeOK
<1>4. PromotionJob' = PromotionJob
  BY <1>2, Unwritten
<1>5. CallOK(c)'
  BY <1>1, <1>3, <1>4 DEF CallOK, Stages
<1>6. CallAuthorized(c)'
  BY <1>1, <1>3, <1>4 DEF CallAuthorized
<1> QED BY <1>2, <1>3, <1>5, <1>6, CallMove DEF ChainInv, TypeOK

\* Whatever the runtime has become, the freeze names an approved candidate.
LEMMA FinishPromotionMove ==
  ASSUME ChainInv, NEW c \in Call, FinishPromotion(c)
  PROVE  ChainInv'
<1> DEFINE job == call[c].job
           d == [inventory |-> runtime, candidate |-> job.candidate,
                 author |-> job.author]
<1>1. /\ call[c].stage = "promote" /\ IssueAll("freeze", d) /\ Return(c)
      /\ UNCHANGED <<runtime, roleFile, private>>
  BY DEF FinishPromotion, Issue
<1>2. /\ job \in PromotionJob /\ job.author.candidate = job.candidate
      /\ job.author.inventory = job.candidate.inventory
  BY <1>1 DEF ChainInv, CallsAreAuthorized, CallAuthorized
<1>3. WellFormed("freeze", d)
  BY <1>2 DEF WellFormed, PromotionJob, ChainInv, TypeOK
<1>4. Approved(d)
  BY <1>2 DEF Approved
<1>5. DOMAIN call' = Call /\ \A e \in Call : call'[e] \in {call[e], Idle}
  BY <1>1 DEF Return, ChainInv, TypeOK
<1> HIDE DEF d
<1> QED BY <1>1, <1>3, <1>4, <1>5, IssueMove DEF Kinds

\* A gate passed on existing records authorizes the job it opens.
LEMMA OpenMove ==
  ASSUME ChainInv, NEW c \in Call, NEW path \in Path,
         NEW role \in {"calibration", "locked"},
         NEW freeze \in issued["freeze"], NEW author \in issued["author"],
         NEW approval, NEW calibration \in Written \cup {None},
         role = "calibration" =>
           approval \in issued["calibration_materialization"],
         role = "locked" =>
           /\ approval \in issued["locked_materialization"]
           /\ approval.review.freeze = freeze
           /\ approval.review.result = approval.result
           /\ approval.review.certificate = approval.certificate
           /\ approval.certificate.freeze = freeze
           /\ approval.certificate.result = approval.result
           /\ approval.certificate.outcome \in Granting
           /\ calibration = approval.calibration
           /\ calibration \in RolesOf("calibration"),
         Open(c, path, role, freeze, author, approval, calibration)
  PROVE  ChainInv'
<1> DEFINE job == [role |-> role, freeze |-> freeze, author |-> author,
                   approval |-> approval, calibration |-> calibration]
<1>1. job \in RoleJob
  BY DEF RoleJob
<1>2. JobAuthorized(job)
  <2>1. Approved(freeze)
    BY DEF ChainInv, FreezesAreApproved
  <2>2. /\ author.candidate = freeze.candidate /\ freeze.author = author
        /\ author.inventory = freeze.inventory
    BY DEF Open, Authorized, AuthorApproves
  <2>3. Reviewed(freeze)
    BY <2>1, <2>2 DEF Approved, Reviewed
  <2> QED
    BY <2>2, <2>3 DEF Open, Authorized, Approves, JobAuthorized
<1>3. JobFollowsCalibration(job)
  BY DEF JobFollowsCalibration
<1>4. /\ call' = [call EXCEPT ![c] = [stage |-> "draw", path |-> path, job |-> job]]
      /\ UNCHANGED <<runtime, issued, roleFile, private>>
  BY DEF Open
<1> HIDE DEF job
<1>5. Grows /\ RoleJob' = RoleJob
  BY <1>4, Unwritten
<1>6. JobAuthorized(job)' /\ JobFollowsCalibration(job)'
  BY <1>2, <1>3, <1>5, AuthorizationGrows
<1>7. call'[c] = [stage |-> "draw", path |-> path, job |-> job]
  BY <1>4 DEF ChainInv, TypeOK
<1>8. CallOK(c)'
  BY <1>1, <1>5, <1>7 DEF CallOK, Stages
<1>9. CallAuthorized(c)'
  BY <1>1, <1>5, <1>6, <1>7 DEF CallAuthorized
<1> QED BY <1>4, <1>7, <1>8, <1>9, CallMove DEF ChainInv, TypeOK

LEMMA MaterializeCalibrationMove ==
  ASSUME ChainInv, NEW c \in Call, NEW path \in Path,
         NEW freeze \in issued["freeze"], NEW author \in issued["author"],
         NEW approval \in issued["calibration_materialization"],
         MaterializeCalibration(c, path, freeze, author, approval)
  PROVE  ChainInv'
BY OpenMove DEF MaterializeCalibration

LEMMA MaterializeLockedMove ==
  ASSUME ChainInv, NEW c \in Call, NEW path \in Path,
         NEW freeze \in issued["freeze"], NEW author \in issued["author"],
         NEW approval \in issued["locked_materialization"],
         MaterializeLocked(c, path, freeze, author, approval)
  PROVE  ChainInv'
<1>1. PICK review \in issued["review"], result \in issued["result"],
           certificate \in issued["certificate"], calibration \in Written :
        /\ CalibrationChain(approval, freeze, review, result, certificate,
                            calibration)
        /\ Open(c, path, "locked", freeze, author, approval, calibration)
  BY DEF MaterializeLocked
<1>2. certificate.outcome \in Granting
  BY DEF ChainInv, TypeOK, RecordsOK, WellFormed, Kinds
<1>3. /\ approval.review.freeze = freeze
      /\ approval.review.result = approval.result
      /\ approval.review.certificate = approval.certificate
      /\ approval.certificate.freeze = freeze
      /\ approval.certificate.result = approval.result
      /\ approval.certificate.outcome \in Granting
      /\ calibration = approval.calibration
      /\ calibration \in RolesOf("calibration")
  BY <1>1, <1>2 DEF CalibrationChain, Approves, RolesOf
<1> QED BY <1>1, <1>3, OpenMove

LEMMA DrawMove ==
  ASSUME ChainInv, NEW c \in Call, Draw(c)
  PROVE  ChainInv'
<1>1. PICK drawn \in [1 .. Count -> Value] :
        LET values == {drawn[i] : i \in 1 .. Count} IN
          IF Cardinality(values) = Count /\ values \cap Prior(call[c].job) = {}
          THEN Proceed(c, "claim", Manifest(call[c].job, values))
          ELSE Return(c)
  BY DEF Draw
<1> DEFINE values == {drawn[i] : i \in 1 .. Count}
<1>2. values \in SUBSET Value
  OBVIOUS
<1>3. UNCHANGED <<runtime, issued, roleFile, private>> /\ call[c].stage = "draw"
  BY DEF Draw
<1>4. /\ \/ /\ Cardinality(values) = Count
            /\ values \cap Prior(call[c].job) = {}
            /\ Proceed(c, "claim", Manifest(call[c].job, values))
         \/ Return(c)
  BY <1>1
<1> HIDE DEF values
<1>5. CASE Return(c)
  <2>1. call'[c] = Idle /\ DOMAIN call' = Call
    BY <1>5 DEF Return, ChainInv, TypeOK
  <2>2. CallOK(c)' /\ CallAuthorized(c)'
    BY <2>1 DEF CallOK, CallAuthorized, Idle, Stages
  <2> QED
    BY <1>3, <1>5, <2>1, <2>2, CallMove DEF Return, ChainInv, TypeOK, Idle
<1>6. CASE /\ Cardinality(values) = Count
           /\ values \cap Prior(call[c].job) = {}
           /\ Proceed(c, "claim", Manifest(call[c].job, values))
  <2>1. PICK job : job = call[c].job
    OBVIOUS
  <2>2. /\ job \in RoleJob /\ JobAuthorized(job) /\ JobFollowsCalibration(job)
        /\ call[c].path \in Path
    BY <1>3, <2>1 DEF ChainInv, CallsAreAuthorized, CallAuthorized, TypeOK, CallOK
  <2>3. /\ job.freeze.inventory \in Runtime
        /\ job.freeze.inventory = job.freeze.candidate.inventory
    BY <2>2 DEF JobAuthorized, ChainInv, TypeOK, RecordsOK, WellFormed, Kinds,
                Reviewed
  <2> DEFINE m == Manifest(job, values)
  <2>4. m \in RoleManifest
    BY <1>2, <2>2, <2>3 DEF RoleJob, RoleManifest, Manifest
  <2>5. RoleAuthorized(m)
    BY <1>6, <2>2, <2>3 DEF RoleAuthorized, JobAuthorized, Manifest
  <2>6. RoleFollowsCalibration(m)
    <3>1. job.role = "locked" => job.calibration # None
      BY <2>2 DEF JobFollowsCalibration, RolesOf, Written
    <3>2. job.role = "locked" => values \cap job.calibration.values = {}
      BY <1>6, <2>1, <3>1 DEF Prior
    <3>3. JobFollowsCalibration(m)
      BY <2>2 DEF JobFollowsCalibration, Manifest
    <3> QED BY <3>2, <3>3 DEF RoleFollowsCalibration, Manifest
  <2>7. /\ DOMAIN call' = Call /\ \A d \in Call \ {c} : call'[d] = call[d]
        /\ call'[c].stage = "claim" /\ call'[c].job = m
        /\ call'[c] = [stage |-> "claim", path |-> call[c].path, job |-> m]
    BY <1>6, <2>1 DEF Proceed, ChainInv, TypeOK, CallOK
  <2> HIDE DEF m
  <2>8. /\ Grows /\ RoleManifest' = RoleManifest
        /\ RoleAuthorized(m)' /\ RoleFollowsCalibration(m)'
    BY <1>3, <2>5, <2>6, Unwritten, AuthorizationGrows
  <2>9. CallOK(c)'
    BY <2>2, <2>4, <2>7, <2>8 DEF CallOK, Stages
  <2>10. CallAuthorized(c)'
    BY <2>4, <2>7, <2>8 DEF CallAuthorized
  <2> QED BY <1>3, <2>7, <2>9, <2>10, CallMove DEF ChainInv, TypeOK
<1> QED BY <1>4, <1>5, <1>6

LEMMA ReturnMove ==
  ASSUME ChainInv, NEW c \in Call, Return(c), UNCHANGED <<issued, roleFile>>,
         UNCHANGED runtime, private \subseteq private', private' \subseteq Path
  PROVE  ChainInv'
<1>1. call'[c] = Idle /\ DOMAIN call' = Call
  BY DEF Return, ChainInv, TypeOK
<1>2. CallOK(c)' /\ CallAuthorized(c)'
  BY <1>1 DEF CallOK, CallAuthorized, Idle, Stages
<1> QED BY <1>1, <1>2, CallMove DEF Return, ChainInv, TypeOK, Idle

LEMMA ClaimMove ==
  ASSUME ChainInv, NEW c \in Call, Claim(c)
  PROVE  ChainInv'
<1> DEFINE path == call[c].path
<1>1. call[c].stage = "claim" /\ path \in Path /\ UNCHANGED <<runtime, issued, private>>
  BY DEF Claim, ChainInv, TypeOK, CallOK
<1>2. CASE Return(c) /\ UNCHANGED roleFile
  BY <1>1, <1>2, ReturnMove DEF ChainInv, TypeOK
<1>3. CASE /\ roleFile[path] = None
           /\ roleFile' = [roleFile EXCEPT ![path] = Empty]
           /\ Proceed(c, "fill", call[c].job)
  <2>1. Written' = Written /\ DOMAIN roleFile' = Path
    BY <1>1, <1>3 DEF Written, ChainInv, TypeOK
  <2>2. Grows
    <3>1. \A p \in private : roleFile[p] \in Written => roleFile'[p] = roleFile[p]
      BY <1>1, <1>3 DEF Written, ChainInv, TypeOK
    <3> QED BY <1>1, <2>1, <3>1 DEF Grows, Restricted
  <2>3. RecordsInv'
    BY <1>1, <2>1, <2>2, RecordsStep DEF RecordsInv, ChainInv, TypeOK
  <2>4. /\ call'[c] = [call[c] EXCEPT !.stage = "fill"]
        /\ DOMAIN call' = Call /\ \A d \in Call \ {c} : call'[d] = call[d]
    BY <1>3 DEF Proceed, ChainInv, TypeOK, CallOK
  <2>5. \A d \in Call \ {c} : CallOK(d)' /\ CallAuthorized(d)'
    BY <2>2, <2>4, CallKept DEF ChainInv, TypeOK, CallsAreAuthorized
  <2>6. PICK job : job = call[c].job
    OBVIOUS
  <2>7. job \in RoleManifest /\ RoleAuthorized(job) /\ RoleFollowsCalibration(job)
    BY <1>1, <2>6 DEF ChainInv, CallsAreAuthorized, CallAuthorized
  <2>8. /\ job \in RoleManifest'
        /\ RoleAuthorized(job)' /\ RoleFollowsCalibration(job)'
    BY <2>2, <2>7, JobsGrow, AuthorizationGrows
  <2>9. /\ call'[c].stage = "fill" /\ call'[c].job = job /\ call'[c].path = path
        /\ call'[c] = [stage |-> "fill", path |-> path, job |-> job]
    BY <2>4, <2>6 DEF ChainInv, TypeOK, CallOK
  <2>10. CallOK(c)'
    BY <1>1, <2>8, <2>9 DEF CallOK, Stages
  <2>11. CallAuthorized(c)'
    BY <2>8, <2>9 DEF CallAuthorized
  <2>12. \A d \in Call : OneWriter(d)'
    <3>1. ASSUME NEW d \in Call \ {c}, call[d].stage = "fill"
          PROVE  roleFile[call[d].path] = Empty /\ call[d].path # path
      BY <1>3, <3>1, EmptyAssumption DEF ChainInv, CallsAreAuthorized, OneWriter
    <3>2. roleFile'[path] = Empty
      BY <1>1, <1>3 DEF ChainInv, TypeOK
    <3>3. ASSUME NEW d \in Call \ {c}
          PROVE  OneWriter(d)'
      <4>1. CASE call[d].stage = "fill"
        <5>1. roleFile'[call[d].path] = Empty
          BY <1>3, <3>1, <4>1
        <5>2. ASSUME NEW e \in Call \ {d}, call'[e].stage = "fill"
              PROVE  call'[e].path # call[d].path
          BY <2>4, <2>9, <3>1, <4>1, <5>2 DEF ChainInv, CallsAreAuthorized, OneWriter
        <5> QED BY <2>4, <5>1, <5>2 DEF OneWriter
      <4> QED BY <2>4, <4>1 DEF OneWriter
    <3>4. OneWriter(c)'
      BY <2>4, <2>9, <3>1, <3>2 DEF OneWriter
    <3> QED BY <3>3, <3>4
  <2> QED
    BY <1>1, <2>1, <2>3, <2>4, <2>5, <2>10, <2>11, <2>12
       DEF ChainInv, TypeOK, RecordsInv, CallsAreAuthorized
<1> QED BY <1>2, <1>3 DEF Claim

LEMMA FillMove ==
  ASSUME ChainInv, NEW c \in Call, Fill(c)
  PROVE  ChainInv'
<1> DEFINE path == call[c].path
<1>1. /\ call[c].stage = "fill" /\ path \in Path
      /\ UNCHANGED <<runtime, issued, private>>
      /\ roleFile' = [roleFile EXCEPT ![path] = call[c].job]
      /\ Proceed(c, "chmod", None)
  BY DEF Fill, ChainInv, TypeOK, CallOK
<1>2. PICK job : job = call[c].job
  OBVIOUS
<1>3. /\ roleFile[path] = Empty /\ DOMAIN roleFile' = Path
      /\ \A p \in Path \ {path} : roleFile'[p] = roleFile[p]
      /\ roleFile'[path] = job
  BY <1>1, <1>2 DEF ChainInv, TypeOK, CallsAreAuthorized, OneWriter
<1>4. Written \subseteq Written' /\ Written' \subseteq Written \cup {job}
  BY <1>3 DEF Written
<1>5. Grows
  <2>1. \A p \in private : roleFile[p] \in Written => roleFile'[p] = roleFile[p]
    BY <1>3 DEF Written, ChainInv, TypeOK
  <2> QED BY <1>1, <1>4, <2>1 DEF Grows, Restricted
<1>6. job \in RoleManifest /\ RoleAuthorized(job) /\ RoleFollowsCalibration(job)
  BY <1>1, <1>2 DEF ChainInv, CallsAreAuthorized, CallAuthorized
<1>7. /\ job \in RoleManifest'
      /\ RoleAuthorized(job)' /\ RoleFollowsCalibration(job)'
  BY <1>5, <1>6, JobsGrow, AuthorizationGrows
<1>8. RecordsInv'
  BY <1>1, <1>4, <1>5, <1>7, RecordsStep DEF RecordsInv, ChainInv, TypeOK
<1>9. /\ call'[c] = [stage |-> "chmod", path |-> path, job |-> None]
      /\ DOMAIN call' = Call /\ \A d \in Call \ {c} : call'[d] = call[d]
  BY <1>1 DEF Proceed, ChainInv, TypeOK, CallOK
<1>10. \A d \in Call \ {c} : CallOK(d)' /\ CallAuthorized(d)'
  BY <1>5, <1>9, CallKept DEF ChainInv, TypeOK, CallsAreAuthorized
<1>11. CallOK(c)' /\ CallAuthorized(c)'
  BY <1>1, <1>9 DEF CallOK, CallAuthorized, Stages
<1>12. \A d \in Call : OneWriter(d)'
  BY <1>1, <1>3, <1>9 DEF ChainInv, CallsAreAuthorized, OneWriter, TypeOK, CallOK
<1> QED
  BY <1>1, <1>3, <1>8, <1>9, <1>10, <1>11, <1>12
     DEF ChainInv, TypeOK, RecordsInv, CallsAreAuthorized

LEMMA ChmodMove ==
  ASSUME ChainInv, NEW c \in Call, Chmod(c)
  PROVE  ChainInv'
<1>1. private \subseteq private' /\ private' \subseteq Path
  BY DEF Chmod, ChainInv, TypeOK, CallOK
<1> QED BY <1>1, ReturnMove DEF Chmod

LEMMA CrashMove ==
  ASSUME ChainInv, NEW c \in Call, Crash(c)
  PROVE  ChainInv'
BY ReturnMove DEF Crash, ChainInv, TypeOK

LEMMA StartMove ==
  ASSUME ChainInv, NEW c \in Call, NEW freeze \in issued["freeze"],
         NEW author \in issued["author"],
         NEW approval \in issued["calibration_execution"],
         StartCalibration(c, freeze, author, approval)
  PROVE  ChainInv'
<1> DEFINE job == [freeze |-> freeze, author |-> author, approval |-> approval]
<1>1. /\ job \in AnalysisJob /\ job.author = job.freeze.author
      /\ job.approval.freeze = job.freeze /\ job.approval.author = job.author
  BY DEF AnalysisJob, StartCalibration, Authorized, AuthorApproves, Approves
<1>2. /\ call' = [call EXCEPT ![c] = [stage |-> "analyse", path |-> None, job |-> job]]
      /\ UNCHANGED <<runtime, issued, roleFile, private>>
  BY DEF StartCalibration
<1> HIDE DEF job
<1>3. call'[c] = [stage |-> "analyse", path |-> None, job |-> job]
  BY <1>2 DEF ChainInv, TypeOK
<1>4. AnalysisJob' = AnalysisJob
  BY <1>2, Unwritten
<1>5. CallOK(c)'
  BY <1>1, <1>3, <1>4 DEF CallOK, Stages
<1>6. CallAuthorized(c)'
  BY <1>1, <1>3, <1>4 DEF CallAuthorized
<1> QED BY <1>2, <1>3, <1>5, <1>6, CallMove DEF ChainInv, TypeOK

LEMMA FinishMove ==
  ASSUME ChainInv, NEW c \in Call, NEW manifest \in Written,
         FinishCalibration(c, manifest)
  PROVE  ChainInv'
<1> DEFINE job == call[c].job
           d == [freeze |-> job.freeze, inventory |-> job.freeze.inventory,
                 author |-> job.author, approval |-> job.approval,
                 role |-> manifest, inputs |-> runtime,
                 outcome |-> Judge(manifest.values, runtime)]
<1>1. /\ call[c].stage = "analyse"
      /\ RoleVerified("calibration", job.approval, manifest)
      /\ IssueAll("result", d) /\ Return(c)
      /\ UNCHANGED <<runtime, roleFile, private>>
  BY DEF FinishCalibration, Issue
<1>2. /\ job \in AnalysisJob /\ job.author = job.freeze.author
      /\ job.approval.freeze = job.freeze
      /\ job.approval.author = job.author
  BY <1>1 DEF ChainInv, CallsAreAuthorized, CallAuthorized
<1>3. job.freeze.inventory \in Runtime
  BY <1>2 DEF AnalysisJob, ChainInv, TypeOK, RecordsOK, WellFormed, Kinds
<1>4. manifest.values \in SUBSET Value /\ runtime \in Runtime
  BY DEF ChainInv, TypeOK, RecordsOK, RoleManifest
<1>5. WellFormed("result", d)
  <2>1. d.outcome \in Outcome
    BY <1>4, JudgeAssumption
  <2> QED BY <1>2, <1>3, <1>4, <2>1 DEF WellFormed, AnalysisJob
<1>6. RestsOnItsRole(d)
  BY <1>1, <1>2 DEF RestsOnItsRole, RoleVerified, RolesOf
<1>7. DOMAIN call' = Call /\ \A e \in Call : call'[e] \in {call[e], Idle}
  BY <1>1 DEF Return, ChainInv, TypeOK
<1> HIDE DEF d
<1> QED BY <1>1, <1>5, <1>6, <1>7, IssueMove DEF Kinds

LEMMA CertificateMove ==
  ASSUME ChainInv, NEW bundle \in issued["result"],
         NEW result \in issued["result"], NEW freeze \in issued["freeze"],
         WriteCertificate(bundle, result, freeze)
  PROVE  ChainInv'
<1> DEFINE d == [freeze |-> freeze, inventory |-> freeze.inventory,
                 role |-> bundle.role, outcome |-> bundle.outcome,
                 result |-> result]
<1>1. freeze.inventory \in Runtime /\ bundle.role \in Written
  BY DEF ChainInv, TypeOK, RecordsOK, WellFormed, Kinds
<1>2. WellFormed("certificate", d)
  BY <1>1 DEF WellFormed, WriteCertificate
<1>3. /\ IssueAll("certificate", d)
      /\ UNCHANGED <<runtime, roleFile, private, call>>
  BY DEF WriteCertificate, Issue
<1> HIDE DEF d
<1> QED BY <1>2, <1>3, IssueMove DEF ChainInv, Kinds, TypeOK

LEMMA AuditMove ==
  ASSUME ChainInv, NEW freeze \in issued["freeze"],
         NEW author \in issued["author"],
         NEW approval \in issued["locked_execution"], NEW path \in Path,
         Audit(freeze, author, approval, path)
  PROVE  ChainInv'
<1>1. WellFormed("audited", approval)
  BY DEF WellFormed
<1>2. RestsOnAGrant(approval)
  BY DEF RestsOnAGrant, Audit, ChainVerified, RoleVerified, Approves,
         AuthorApproves, RolesOf, Restricted
<1>3. /\ IssueAll("audited", approval)
      /\ UNCHANGED <<runtime, roleFile, private, call>>
  BY DEF Audit, Issue
<1> QED BY <1>1, <1>2, <1>3, IssueMove DEF ChainInv, Kinds, TypeOK

-----------------------------------------------------------------------------
LEMMA ChainInit == Init => ChainInv
<1> SUFFICES ASSUME Init PROVE ChainInv
  OBVIOUS
<1>1. Written = {} /\ \A k \in Kinds : issued[k] = {}
  BY DEF Init, Written
<1>2. \A c \in Call : call[c] = Idle
  BY DEF Init
<1>3. TypeOK
  BY <1>1, <1>2 DEF Init, TypeOK, RecordsOK, CallOK, Idle, Stages
<1>4. CallsAreAuthorized
  BY <1>2 DEF CallsAreAuthorized, CallAuthorized, OneWriter, Idle
<1> QED
  BY <1>1, <1>3, <1>4
     DEF ChainInv, FreezesAreApproved, RolesAreAuthorized, Kinds,
         LockedFollowsCalibration, ResultsRestOnTheirRole, AuditsRestOnAGrant

LEMMA ChainStep == ChainInv /\ [Next]_vars => ChainInv'
<1> SUFFICES ASSUME ChainInv, [Next]_vars PROVE ChainInv'
  OBVIOUS
<1>1. CASE People
  BY <1>1, PeopleMove
<1>2. CASE Calls
  BY <1>2, StartPromotionMove, FinishPromotionMove, MaterializeCalibrationMove, MaterializeLockedMove,
     StartMove, DrawMove, ClaimMove, FillMove, ChmodMove, CrashMove, FinishMove,
     CertificateMove, AuditMove DEF Calls
<1>3. CASE UNCHANGED vars
  <2>1. UNCHANGED issued /\ UNCHANGED roleFile /\ UNCHANGED runtime
        /\ UNCHANGED private /\ UNCHANGED call
    BY <1>3 DEF vars
  <2>2. Grows /\ RecordsInv'
    BY <2>1, Unwritten DEF ChainInv, TypeOK, RecordsInv
  <2>3. \A d \in Call : CallOK(d)' /\ CallAuthorized(d)'
    BY <2>1, <2>2, CallKept DEF ChainInv, TypeOK, CallsAreAuthorized
  <2>4. \A d \in Call : OneWriter(d)'
    BY <2>1 DEF ChainInv, CallsAreAuthorized, OneWriter
  <2> QED
    BY <2>1, <2>2, <2>3, <2>4
       DEF ChainInv, TypeOK, RecordsInv, CallsAreAuthorized
<1> QED BY <1>1, <1>2, <1>3 DEF Next

\* The state of the chain stays well-formed: every record names records that
\* exist, and no call carries anything but records that exist.
THEOREM ChainTypeCorrect == Spec => []TypeOK
<1>1. ChainInv => TypeOK
  BY DEF ChainInv
<1> QED BY <1>1, ChainInit, ChainStep, PTL DEF Spec

\* What is in use was reviewed: a result and an accepted execution name the
\* freeze of a role, and a role was opened under a freeze that its author's
\* record approves with the very inventory it freezes.
LEMMA UseIsReviewed == ChainInv => FreezesInUseAreReviewed
<1> SUFFICES ASSUME ChainInv PROVE FreezesInUseAreReviewed
  OBVIOUS
<1>1. \A m \in Written : Reviewed(m.freeze)
  BY DEF ChainInv, RolesAreAuthorized, RoleAuthorized, JobAuthorized
<1>2. \A d \in issued["result"] : Reviewed(d.freeze)
  BY <1>1 DEF ChainInv, ResultsRestOnTheirRole, RestsOnItsRole, RolesOf
<1>3. \A d \in issued["audited"] : Reviewed(d.freeze)
  BY <1>1 DEF ChainInv, AuditsRestOnAGrant, RestsOnAGrant, RolesOf
<1> QED BY <1>1, <1>2, <1>3 DEF FreezesInUseAreReviewed, FreezesInUse

\* Whatever people approve and callers pass, and whenever the runtime is
\* edited, no role, result or accepted execution rests on anything but an
\* approved freeze of the reviewed candidate, with an approval of its kind
\* issued for that freeze.
THEOREM RolesRestOnReviewedFreezes ==
  Spec => [](FreezesInUseAreReviewed /\ RolesAreAuthorized)
<1>1. ChainInv => FreezesInUseAreReviewed /\ RolesAreAuthorized
  BY UseIsReviewed DEF ChainInv
<1> QED BY <1>1, ChainInit, ChainStep, PTL DEF Spec

\* Roles, results and accepted executions rest on reviewed freezes alone.
THEOREM UsedFreezesAreReviewed == Spec => []FreezesInUseAreReviewed
<1> QED BY UseIsReviewed, ChainInit, ChainStep, PTL DEF Spec

\* A calibration result rests on the role drawn for the freeze it names.
THEOREM CalibrationsRestOnTheirRole == Spec => []ResultsRestOnTheirRole
<1>1. ChainInv => ResultsRestOnTheirRole
  BY DEF ChainInv
<1> QED BY <1>1, ChainInit, ChainStep, PTL DEF Spec

\* Every call under way carries what authorizes it, and a claimed role path has
\* one writer.
THEOREM CallsStayAuthorized == Spec => []CallsAreAuthorized
<1>1. ChainInv => CallsAreAuthorized
  BY DEF ChainInv
<1> QED BY <1>1, ChainInit, ChainStep, PTL DEF Spec

\* A locked role exists only after a certified, reviewed calibration under its
\* freeze, and avoids every value of the calibration role it names.
THEOREM LockedRolesFollow == Spec => []LockedFollowsCalibration
<1>1. ChainInv => LockedFollowsCalibration
  BY DEF ChainInv
<1> QED BY <1>1, ChainInit, ChainStep, PTL DEF Spec

\* What the locked execution accepts rests on a granted result of the
\* calibration, stated by its certificate, and on the role drawn for it.
THEOREM AcceptedExecutionsRestOnAGrant ==
  Spec => [](ResultsRestOnTheirRole /\ AuditsRestOnAGrant)
<1>1. ChainInv => ResultsRestOnTheirRole /\ AuditsRestOnAGrant
  BY DEF ChainInv
<1> QED BY <1>1, ChainInit, ChainStep, PTL DEF Spec

-----------------------------------------------------------------------------
\* No step writes over a role: a claim needs a free path, and what is filled is
\* claimed by the one invocation that fills it.
LEMMA RolesKept ==
  ASSUME ChainInv, [Next]_vars, NEW p \in Path, roleFile[p] \in Written
  PROVE  roleFile'[p] = roleFile[p]
<1>1. roleFile[p] \notin {None, Empty}
  BY DEF Written
<1>2. ASSUME NEW c \in Call, Claim(c)
      PROVE  roleFile'[p] = roleFile[p]
  BY <1>1, <1>2 DEF Claim, ChainInv, TypeOK
<1>3. ASSUME NEW c \in Call, Fill(c)
      PROVE  roleFile'[p] = roleFile[p]
  <2>1. roleFile[call[c].path] = Empty
    BY <1>3 DEF Fill, ChainInv, CallsAreAuthorized, OneWriter
  <2> QED BY <1>1, <1>3, <2>1 DEF Fill, ChainInv, TypeOK
<1>4. ASSUME NEW c \in Call, \/ Draw(c) \/ Chmod(c) \/ Crash(c) \/ FinishPromotion(c)
      PROVE  roleFile' = roleFile
  BY <1>4 DEF Draw, Chmod, Crash, FinishPromotion
<1>5. People \/ UNCHANGED vars => roleFile' = roleFile
  BY DEF People, vars, EditRuntime, FreezeCandidate, ApproveCandidate,
         ApproveCalibrationMaterialization, ApproveCalibrationExecution,
         ReviewCalibration, ApproveLockedMaterialization, ApproveLockedExecution
<1>6. ASSUME NEW c \in Call, NEW path, NEW role, NEW freeze, NEW author,
             NEW approval, NEW calibration,
             Open(c, path, role, freeze, author, approval, calibration)
      PROVE  roleFile' = roleFile
  BY <1>6 DEF Open
<1>7. ASSUME NEW c \in Call, NEW freeze, NEW author, NEW approval,
             StartCalibration(c, freeze, author, approval)
      PROVE  roleFile' = roleFile
  BY <1>7 DEF StartCalibration
<1>8. ASSUME NEW c \in Call, NEW manifest, FinishCalibration(c, manifest)
      PROVE  roleFile' = roleFile
  BY <1>8 DEF FinishCalibration
<1>9. Calls => \/ roleFile' = roleFile
              \/ \E c \in Call : Claim(c) \/ Fill(c)
  <2> USE DEF Calls
  <2>1. ASSUME NEW c \in Call, NEW path, NEW freeze, NEW author, NEW approval,
               \/ MaterializeCalibration(c, path, freeze, author, approval)
               \/ MaterializeLocked(c, path, freeze, author, approval)
        PROVE  roleFile' = roleFile
    BY <1>6, <2>1 DEF MaterializeCalibration, MaterializeLocked
  <2>2. ASSUME NEW candidate, NEW author, NEW c \in Call,
               StartPromotion(c, candidate, author)
        PROVE  roleFile' = roleFile
    BY <2>2 DEF StartPromotion
  <2>3. ASSUME NEW bundle, NEW result, NEW freeze,
               WriteCertificate(bundle, result, freeze)
        PROVE  roleFile' = roleFile
    BY <2>3 DEF WriteCertificate
  <2>4. ASSUME NEW freeze, NEW author, NEW approval, NEW path,
               Audit(freeze, author, approval, path)
        PROVE  roleFile' = roleFile
    BY <2>4 DEF Audit
  <2> QED BY <1>4, <1>7, <1>8, <2>1, <2>2, <2>3, <2>4
<1> QED BY <1>2, <1>3, <1>5, <1>9 DEF Next

-----------------------------------------------------------------------------
\* A step that lets nobody start to fill a path, or go on after filling one.
Idles ==
  /\ UNCHANGED <<roleFile, private>>
  /\ \A c \in Call : call'[c].stage \in {"fill", "chmod"} => call'[c] = call[c]

LEMMA Idling ==
  ASSUME ChainInv, [Next]_vars,
         \A c \in Call : ~Claim(c) /\ ~Fill(c) /\ ~Chmod(c)
  PROVE  Idles
<1>1. DOMAIN call = Call
  BY DEF ChainInv, TypeOK
<1>2. CASE People \/ UNCHANGED vars
  BY <1>2 DEF People, vars, EditRuntime, FreezeCandidate, ApproveCandidate,
              ApproveCalibrationMaterialization, ApproveCalibrationExecution,
              ReviewCalibration, ApproveLockedMaterialization,
              ApproveLockedExecution, Idles
<1>3. CASE Calls
  <2>1. ASSUME NEW c \in Call, UNCHANGED <<roleFile, private>>,
               \A d \in Call \ {c} : call'[d] = call[d],
               call'[c].stage \notin {"fill", "chmod"}
        PROVE  Idles
    BY <2>1 DEF Idles
  <2>2. ASSUME NEW c \in Call, UNCHANGED <<roleFile, private>>, Return(c)
        PROVE  Idles
    <3>1. call'[c].stage = "idle" /\ \A d \in Call \ {c} : call'[d] = call[d]
      BY <1>1, <2>2 DEF Return, Idle
    <3> QED BY <2>1, <2>2, <3>1
  <2>3. ASSUME NEW c \in Call, NEW path, NEW freeze, NEW author, NEW approval,
               \/ MaterializeCalibration(c, path, freeze, author, approval)
               \/ MaterializeLocked(c, path, freeze, author, approval)
        PROVE  Idles
    <3>1. PICK role, calibration : Open(c, path, role, freeze, author, approval, calibration)
      BY <2>3 DEF MaterializeCalibration, MaterializeLocked
    <3>2. call'[c].stage = "draw" /\ \A d \in Call \ {c} : call'[d] = call[d]
      BY <1>1, <3>1 DEF Open
    <3>3. UNCHANGED <<roleFile, private>>
      BY <3>1 DEF Open
    <3> QED BY <2>1, <3>2, <3>3
  <2>4. ASSUME NEW candidate, NEW author, NEW c \in Call,
               StartPromotion(c, candidate, author)
        PROVE  Idles
    <3>1. call'[c].stage = "promote" /\ \A d \in Call \ {c} : call'[d] = call[d]
      BY <1>1, <2>4 DEF StartPromotion
    <3>2. UNCHANGED <<roleFile, private>>
      BY <2>4 DEF StartPromotion
    <3> QED BY <2>1, <3>1, <3>2
  <2>5. ASSUME NEW c \in Call, NEW freeze, NEW author, NEW approval,
               StartCalibration(c, freeze, author, approval)
        PROVE  Idles
    <3>1. call'[c].stage = "analyse" /\ \A d \in Call \ {c} : call'[d] = call[d]
      BY <1>1, <2>5 DEF StartCalibration
    <3>2. UNCHANGED <<roleFile, private>>
      BY <2>5 DEF StartCalibration
    <3> QED BY <2>1, <3>1, <3>2
  <2>6. ASSUME NEW c \in Call, Draw(c)
        PROVE  Idles
    <3>1. UNCHANGED <<roleFile, private>>
      BY <2>6 DEF Draw
    <3>2. \/ Return(c)
          \/ \E m : Proceed(c, "claim", m)
      BY <2>6 DEF Draw
    <3>3. ASSUME NEW m, Proceed(c, "claim", m)
          PROVE  Idles
      <4>1. /\ \A d \in Call \ {c} : call'[d] = call[d]
            /\ call'[c].stage = "claim"
        BY <1>1, <3>3 DEF Proceed, ChainInv, TypeOK, CallOK
      <4> QED BY <2>1, <3>1, <4>1
    <3> QED BY <2>2, <3>1, <3>2, <3>3
  <2>7. ASSUME NEW c \in Call, Crash(c) \/ FinishPromotion(c)
        PROVE  Idles
    BY <2>2, <2>7 DEF Crash, FinishPromotion
  <2>8. ASSUME NEW c \in Call, NEW manifest, FinishCalibration(c, manifest)
        PROVE  Idles
    BY <2>2, <2>8 DEF FinishCalibration
  <2>9. ASSUME NEW bundle, NEW result, NEW freeze,
               WriteCertificate(bundle, result, freeze)
        PROVE  Idles
    BY <2>9 DEF WriteCertificate, Idles
  <2>10. ASSUME NEW freeze, NEW author, NEW approval, NEW path,
                Audit(freeze, author, approval, path)
         PROVE  Idles
    BY <2>10 DEF Audit, Idles
  <2> QED
    BY <1>3, <2>3, <2>4, <2>5, <2>6, <2>7, <2>8, <2>9, <2>10 DEF Calls
<1> QED BY <1>2, <1>3 DEF Next

LEMMA AbandonedKept ==
  ASSUME ChainInv, [Next]_vars, NEW p \in Path, Abandoned(p)
  PROVE  Abandoned(p)' /\ roleFile'[p] = roleFile[p]
<1>1. /\ roleFile[p] # None /\ p \notin private
      /\ \A c \in Call : call[c].stage \in {"fill", "chmod"} => call[c].path # p
  BY DEF Abandoned
<1>2. CASE Idles
  BY <1>1, <1>2 DEF Abandoned, Idles
<1>3. ASSUME NEW c \in Call, Return(c), UNCHANGED roleFile, p \notin private'
      PROVE  Abandoned(p)' /\ roleFile'[p] = roleFile[p]
  <2>1. call'[c].stage = "idle" /\ \A d \in Call \ {c} : call'[d] = call[d]
    BY <1>3 DEF Return, Idle, ChainInv, TypeOK
  <2> QED BY <1>1, <1>3, <2>1 DEF Abandoned
<1>4. ASSUME NEW c \in Call, NEW stage, NEW job, Proceed(c, stage, job),
             call[c].path \in Path \ {p}, UNCHANGED private, roleFile'[p] = roleFile[p]
      PROVE  Abandoned(p)' /\ roleFile'[p] = roleFile[p]
  <2>1. call'[c].path # p /\ \A d \in Call \ {c} : call'[d] = call[d]
    BY <1>4 DEF Proceed, ChainInv, TypeOK, CallOK
  <2> QED BY <1>1, <1>4, <2>1 DEF Abandoned
<1>5. ASSUME NEW c \in Call, Claim(c)
      PROVE  Abandoned(p)' /\ roleFile'[p] = roleFile[p]
  <2>1. call[c].path \in Path /\ UNCHANGED private
    BY <1>5 DEF Claim, ChainInv, TypeOK, CallOK
  <2>2. CASE Return(c) /\ UNCHANGED roleFile
    BY <1>1, <1>3, <2>1, <2>2
  <2>3. CASE /\ roleFile[call[c].path] = None
             /\ roleFile' = [roleFile EXCEPT ![call[c].path] = Empty]
             /\ Proceed(c, "fill", call[c].job)
    <3>1. call[c].path # p /\ roleFile'[p] = roleFile[p]
      BY <1>1, <2>1, <2>3 DEF ChainInv, TypeOK
    <3> QED BY <1>4, <2>1, <2>3, <3>1
  <2> QED BY <1>5, <2>2, <2>3 DEF Claim
<1>6. ASSUME NEW c \in Call, Fill(c)
      PROVE  Abandoned(p)' /\ roleFile'[p] = roleFile[p]
  <2>1. call[c].path \in Path \ {p}
    BY <1>1, <1>6 DEF Fill, ChainInv, TypeOK, CallOK
  <2>2. roleFile'[p] = roleFile[p] /\ UNCHANGED private /\ Proceed(c, "chmod", None)
    BY <1>6, <2>1 DEF Fill, ChainInv, TypeOK
  <2> QED BY <1>4, <2>1, <2>2
<1>7. ASSUME NEW c \in Call, Chmod(c)
      PROVE  Abandoned(p)' /\ roleFile'[p] = roleFile[p]
  BY <1>1, <1>3, <1>7 DEF Chmod
<1> QED BY <1>2, <1>5, <1>6, <1>7, Idling

\* A role manifest is never written again, and a materialization that died after
\* its claim leaves its path unusable for good, whoever claims a path and
\* whenever another writer dies.
THEOREM RolesNeverChange == Spec => RolesAreFinal
<1>1. ChainInv /\ [Next]_vars =>
        [\A p \in Path :
           /\ roleFile[p] \in Written => roleFile'[p] = roleFile[p]
           /\ Abandoned(p) => Abandoned(p)' /\ roleFile'[p] = roleFile[p]]_vars
  BY RolesKept, AbandonedKept
<1> QED BY <1>1, ChainInit, ChainStep, PTL DEF Spec, RolesAreFinal
=============================================================================
