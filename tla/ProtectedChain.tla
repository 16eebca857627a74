--------------------------- MODULE ProtectedChain ---------------------------
(***************************************************************************)
(* The chain of records that leads to a locked execution: a candidate      *)
(* freeze of the runtime, its review and promotion, the calibration role,  *)
(* the calibration analysis, its certificate and review, and the locked    *)
(* role.  Every record names the records it rests on by their hashes; the  *)
(* code's gates decide which records may follow which.                     *)
(*                                                                         *)
(* Records are written under new names and never change, so a hash is the  *)
(* record itself.  What does change under a running call is the runtime:   *)
(* sources, configuration and environment, which the freeze inventory      *)
(* hashes.  People issue the approvals, and may bind in them whichever     *)
(* existing records they like; a caller may pass whichever records it      *)
(* likes.  A call whose gate fails raises and writes nothing.              *)
(***************************************************************************)
EXTENDS Naturals, FiniteSets

CONSTANTS
  Runtime,        \* the runtimes that may be checked out and installed
  Value,          \* what the generator may draw
  Count,          \* PROTECTED_ROLE_COUNT
  Outcome,        \* what D2-CERT may report of a role: K, m, U_CP and the status
  Granting,       \* the outcomes whose status grants the certificate
  Judge(_, _),    \* the outcome of the D2-CERT analysis of values by a runtime
  Path,           \* where role manifests may be written
  Call,           \* invocations in progress
  None,           \* no record
  Empty,          \* a file that is claimed and not yet written
  MaxIssued       \* bound: how many records of each kind are issued

ASSUME CountAssumption == Count \in Nat \ {0}
ASSUME EmptyAssumption == Empty # None
ASSUME GrantingAssumption == Granting \subseteq Outcome
ASSUME JudgeAssumption ==
  \A values \in SUBSET Value, r \in Runtime : Judge(values, r) \in Outcome

VARIABLES
  runtime,        \* the runtime on disk
  issued,         \* issued[k]: the records of kind k that exist
  roleFile,       \* roleFile[p]: the role manifest written at p
  private,        \* the role files whose mode is 0600
  call            \* call[c]: what invocation c is about to do, and for whom

vars == <<runtime, issued, roleFile, private, call>>

-----------------------------------------------------------------------------
(* Records.                                                                *)

Kinds == {"candidate", "author", "freeze", "calibration_materialization",
          "calibration_execution", "result", "certificate", "review",
          "locked_materialization", "locked_execution", "audited"}

\* build_freeze_record, for the candidate that is reviewed.
CandidateOf(r) == [inventory |-> r]

Written == {roleFile[p] : p \in Path} \ {None, Empty}

\* The roles whose file was restricted, which is what the locked side accepts.
Restricted == {roleFile[p] : p \in private} \cap Written

RolesOf(role) == {m \in Written : m.role = role}

IssueAll(k, d) == issued' = [issued EXCEPT ![k] = @ \cup {d}]

\* A record is new-written once; the bound is on the number of its kind.
Issue(k, d) ==
  /\ Cardinality(issued[k]) < MaxIssued[k]
  /\ d \notin issued[k]
  /\ IssueAll(k, d)

Idle == [stage |-> "idle", path |-> None, job |-> None]

Proceed(c, stage, job) ==
  call' = [call EXCEPT ![c].stage = stage, ![c].job = job]

Return(c) == call' = [call EXCEPT ![c] = Idle]

Stages == {"idle", "promote", "draw", "claim", "fill", "chmod", "analyse"}

RoleManifest ==
  [role : {"calibration", "locked"}, values : SUBSET Value,
   freeze : issued["freeze"], inventory : Runtime, author : issued["author"],
   approval : issued["calibration_materialization"]
                \cup issued["locked_materialization"],
   calibration : Written \cup {None}]

\* What a promotion, a materialization and an analysis carry past their gate.
PromotionJob == [candidate : issued["candidate"], author : issued["author"]]

RoleJob ==
  [role : {"calibration", "locked"}, freeze : issued["freeze"],
   author : issued["author"],
   approval : issued["calibration_materialization"]
                \cup issued["locked_materialization"],
   calibration : Written \cup {None}]

AnalysisJob ==
  [freeze : issued["freeze"], author : issued["author"],
   approval : issued["calibration_execution"]]

\* A record of kind k names only records that exist.
WellFormed(k, d) ==
  /\ k = "candidate" => d \in [inventory : Runtime]
  /\ k = "author" =>
       d \in [candidate : issued["candidate"], inventory : Runtime]
  /\ k = "freeze" =>
       d \in [inventory : Runtime, candidate : issued["candidate"],
              author : issued["author"]]
  /\ k = "calibration_materialization" =>
       d \in [freeze : issued["freeze"], inventory : Runtime,
              author : issued["author"]]
  /\ k = "calibration_execution" =>
       d \in [freeze : issued["freeze"], inventory : Runtime,
              author : issued["author"], manifest : Written,
              materialization : issued["calibration_materialization"]]
  /\ k = "result" =>
       d \in [freeze : issued["freeze"], inventory : Runtime,
              author : issued["author"],
              approval : issued["calibration_execution"],
              role : Written, inputs : Runtime, outcome : Outcome]
  /\ k = "certificate" =>
       d \in [freeze : issued["freeze"], inventory : Runtime, role : Written,
              outcome : Granting, result : issued["result"]]
  /\ k = "review" =>
       d \in [freeze : issued["freeze"], inventory : Runtime,
              result : issued["result"], certificate : issued["certificate"]]
  /\ k = "locked_materialization" =>
       d \in [freeze : issued["freeze"], inventory : Runtime,
              author : issued["author"], review : issued["review"],
              result : issued["result"], certificate : issued["certificate"],
              calibration : Written]
  /\ k = "locked_execution" =>
       d \in [freeze : issued["freeze"], inventory : Runtime,
              author : issued["author"],
              materialization : issued["locked_materialization"],
              review : issued["review"], result : issued["result"],
              certificate : issued["certificate"], manifest : Written]
  /\ k = "audited" => d \in issued["locked_execution"]

RecordsOK ==
  /\ \A k \in Kinds : \A d \in issued[k] : WellFormed(k, d)
  /\ Written \subseteq RoleManifest

CallOK(c) ==
  /\ call[c] \in
       [stage : Stages, path : Path \cup {None},
        job : PromotionJob \cup RoleJob \cup RoleManifest \cup AnalysisJob
                \cup {None}]
  /\ call[c].stage \in {"draw", "claim", "fill", "chmod"} =>
       call[c].path \in Path

TypeOK ==
  /\ runtime \in Runtime
  /\ DOMAIN issued = Kinds
  /\ RecordsOK
  /\ DOMAIN roleFile = Path /\ DOMAIN call = Call
  /\ private \subseteq Path
  /\ \A c \in Call : CallOK(c)

Init ==
  /\ runtime \in Runtime
  /\ issued = [k \in Kinds |-> {}]
  /\ roleFile = [p \in Path |-> None]
  /\ private = {}
  /\ call = [c \in Call |-> Idle]

-----------------------------------------------------------------------------
(* People: they edit the runtime and issue the records that authorize.     *)

EditRuntime(r) ==
  /\ r # runtime
  /\ runtime' = r
  /\ UNCHANGED <<issued, roleFile, private, call>>

FreezeCandidate ==
  /\ Issue("candidate", CandidateOf(runtime))
  /\ UNCHANGED <<runtime, roleFile, private, call>>

ApproveCandidate(candidate, inventory) ==
  /\ Issue("author", [candidate |-> candidate, inventory |-> inventory])
  /\ UNCHANGED <<runtime, roleFile, private, call>>

ApproveCalibrationMaterialization(freeze, inventory, author) ==
  /\ Issue("calibration_materialization",
           [freeze |-> freeze, inventory |-> inventory, author |-> author])
  /\ UNCHANGED <<runtime, roleFile, private, call>>

ApproveCalibrationExecution(freeze, author, manifest, materialization) ==
  /\ Issue("calibration_execution",
           [freeze |-> freeze, inventory |-> freeze.inventory,
            author |-> author, manifest |-> manifest,
            materialization |-> materialization])
  /\ UNCHANGED <<runtime, roleFile, private, call>>

ReviewCalibration(freeze, result, certificate) ==
  /\ Issue("review", [freeze |-> freeze, inventory |-> freeze.inventory,
                      result |-> result, certificate |-> certificate])
  /\ UNCHANGED <<runtime, roleFile, private, call>>

ApproveLockedMaterialization(freeze, author, review, calibration) ==
  /\ Issue("locked_materialization",
           [freeze |-> freeze, inventory |-> freeze.inventory,
            author |-> author, review |-> review, result |-> review.result,
            certificate |-> review.certificate, calibration |-> calibration])
  /\ UNCHANGED <<runtime, roleFile, private, call>>

ApproveLockedExecution(freeze, author, materialization, review, manifest) ==
  /\ Issue("locked_execution",
           [freeze |-> freeze, inventory |-> freeze.inventory,
            author |-> author, materialization |-> materialization,
            review |-> review, result |-> review.result,
            certificate |-> review.certificate, manifest |-> manifest])
  /\ UNCHANGED <<runtime, roleFile, private, call>>

-----------------------------------------------------------------------------
(* Gates shared by the protected calls.                                    *)

\* Mutant: the inventory the author approved is not compared.
AuthorApprovesAnyInventory(author, freeze) ==
  /\ author.candidate = freeze.candidate
  /\ freeze.author = author

\* validate_approval_record for the author's record: it binds the candidate the
\* freeze was promoted from, and the freeze binds it.
AuthorApproves(author, freeze) ==
  /\ author.candidate = freeze.candidate
  /\ freeze.author = author
  /\ author.inventory = freeze.inventory

\* Mutant: the freeze an approval binds is not compared.
ApprovesAnyFreeze(approval, freeze) == approval.inventory = freeze.inventory

\* validate_approval_record for every other record.
Approves(approval, freeze) ==
  /\ approval.freeze = freeze
  /\ approval.inventory = freeze.inventory

\* verify_runtime_freeze: the inventory computed now is the frozen one.
RuntimeVerified(freeze) == runtime = freeze.inventory

\* What materialization and calibration check of their two approvals.
Authorized(author, approval, freeze) ==
  /\ AuthorApproves(author, freeze)
  /\ Approves(approval, freeze)
  /\ approval.author = author
  /\ RuntimeVerified(freeze)

-----------------------------------------------------------------------------
(* promote_reviewed_freeze_candidate, and its caller's write.  The candidate *)
(* is rebuilt and compared first; the approved record is then built from    *)
(* what the runtime is by that time.                                        *)

StartPromotion(c, candidate, author) ==
  /\ call[c] = Idle
  /\ author.candidate = candidate
  /\ author.inventory = candidate.inventory
  /\ candidate = CandidateOf(runtime)
  /\ call' = [call EXCEPT ![c] =
       [stage |-> "promote", path |-> None,
        job |-> [candidate |-> candidate, author |-> author]]]
  /\ UNCHANGED <<runtime, issued, roleFile, private>>

FinishPromotion(c) ==
  LET job == call[c].job IN
    /\ call[c].stage = "promote"
    /\ Issue("freeze", [inventory |-> runtime, candidate |-> job.candidate,
                        author |-> job.author])
    /\ Return(c)
    /\ UNCHANGED <<runtime, roleFile, private>>

-----------------------------------------------------------------------------
(* materialize_protected_role.                                             *)

\* What the locked role needs beyond its approvals: the reviewed calibration.
CalibrationChain(approval, freeze, review, result, certificate, calibration) ==
  /\ Approves(review, freeze)
  /\ review.result = result /\ review.certificate = certificate
  /\ approval.review = review
  /\ approval.result = result /\ approval.certificate = certificate
  /\ certificate.freeze = freeze
  /\ certificate.inventory = freeze.inventory
  /\ certificate.result = result
  /\ approval.calibration = calibration
  /\ calibration.role = "calibration"

Open(c, path, role, freeze, author, approval, calibration) ==
  /\ call[c] = Idle
  /\ Authorized(author, approval, freeze)
  /\ roleFile[path] = None
  /\ call' = [call EXCEPT ![c] =
       [stage |-> "draw", path |-> path,
        job |-> [role |-> role, freeze |-> freeze, author |-> author,
                 approval |-> approval, calibration |-> calibration]]]
  /\ UNCHANGED <<runtime, issued, roleFile, private>>

MaterializeCalibration(c, path, freeze, author, approval) ==
  Open(c, path, "calibration", freeze, author, approval, None)

MaterializeLocked(c, path, freeze, author, approval) ==
  \E review \in issued["review"], result \in issued["result"],
     certificate \in issued["certificate"], calibration \in Written :
    /\ CalibrationChain(approval, freeze, review, result, certificate,
                        calibration)
    /\ Open(c, path, "locked", freeze, author, approval, calibration)

Prior(job) == IF job.calibration = None THEN {} ELSE job.calibration.values

Manifest(job, values) ==
  [role |-> job.role, values |-> values, freeze |-> job.freeze,
   inventory |-> job.freeze.inventory, author |-> job.author,
   approval |-> job.approval, calibration |-> job.calibration]

\* Mutant: only a collision within the role aborts.
DrawOverlapping(c) ==
  /\ call[c].stage = "draw"
  /\ \E drawn \in [1 .. Count -> Value] :
       LET values == {drawn[i] : i \in 1 .. Count} IN
         IF Cardinality(values) = Count
         THEN Proceed(c, "claim", Manifest(call[c].job, values))
         ELSE Return(c)
  /\ UNCHANGED <<runtime, issued, roleFile, private>>

\* Mutant: a collision within the role is not noticed.
DrawRepeating(c) ==
  /\ call[c].stage = "draw"
  /\ \E drawn \in [1 .. Count -> Value] :
       LET values == {drawn[i] : i \in 1 .. Count} IN
         IF values \cap Prior(call[c].job) = {}
         THEN Proceed(c, "claim", Manifest(call[c].job, values))
         ELSE Return(c)
  /\ UNCHANGED <<runtime, issued, roleFile, private>>

\* A collision within the role, or with the calibration role, aborts.
Draw(c) ==
  /\ call[c].stage = "draw"
  /\ \E drawn \in [1 .. Count -> Value] :
       LET values == {drawn[i] : i \in 1 .. Count} IN
         IF Cardinality(values) = Count /\ values \cap Prior(call[c].job) = {}
         THEN Proceed(c, "claim", Manifest(call[c].job, values))
         ELSE Return(c)
  /\ UNCHANGED <<runtime, issued, roleFile, private>>

\* Mutant: the path is opened whether or not it exists.
ClaimAny(c) ==
  /\ call[c].stage = "claim"
  /\ roleFile' = [roleFile EXCEPT ![call[c].path] = Empty]
  /\ Proceed(c, "fill", call[c].job)
  /\ UNCHANGED <<runtime, issued, private>>

\* Mutant: a file that is still empty counts as free.
ClaimTorn(c) ==
  /\ call[c].stage = "claim"
  /\ \/ /\ roleFile[call[c].path] \in {None, Empty}
        /\ roleFile' = [roleFile EXCEPT ![call[c].path] = Empty]
        /\ Proceed(c, "fill", call[c].job)
     \/ /\ roleFile[call[c].path] \in Written
        /\ Return(c)
        /\ UNCHANGED roleFile
  /\ UNCHANGED <<runtime, issued, private>>

\* _claim_new_path: exclusive creation, or OutputExistsError.
Claim(c) ==
  /\ call[c].stage = "claim"
  /\ \/ /\ roleFile[call[c].path] = None
        /\ roleFile' = [roleFile EXCEPT ![call[c].path] = Empty]
        /\ Proceed(c, "fill", call[c].job)
     \/ /\ roleFile[call[c].path] # None
        /\ Return(c)
        /\ UNCHANGED roleFile
  /\ UNCHANGED <<runtime, issued, private>>

Fill(c) ==
  /\ call[c].stage = "fill"
  /\ roleFile' = [roleFile EXCEPT ![call[c].path] = call[c].job]
  /\ Proceed(c, "chmod", None)
  /\ UNCHANGED <<runtime, issued, private>>

Chmod(c) ==
  /\ call[c].stage = "chmod"
  /\ private' = private \cup {call[c].path}
  /\ Return(c)
  /\ UNCHANGED <<runtime, issued, roleFile>>

\* An invocation may die anywhere; what it wrote stays.
Crash(c) ==
  /\ call[c] # Idle
  /\ Return(c)
  /\ UNCHANGED <<runtime, issued, roleFile, private>>

-----------------------------------------------------------------------------
(* The calibration analysis and its certificate.                           *)

\* Mutant: the manifest need not have been drawn under the approvals and the
\* freeze of the authorization.
RoleUnverified(role, approval, manifest) ==
  /\ approval.manifest = manifest
  /\ manifest.role = role

\* _verify_actual_role_manifest.
RoleVerified(role, approval, manifest) ==
  /\ approval.manifest = manifest
  /\ manifest.role = role
  /\ manifest.freeze = approval.freeze
  /\ manifest.inventory = approval.inventory
  /\ manifest.author = approval.author
  /\ manifest.approval = approval.materialization
  /\ Cardinality(manifest.values) = Count

\* run_protected_shaped_analysis up to the verified runtime.
StartCalibration(c, freeze, author, approval) ==
  /\ call[c] = Idle
  /\ Authorized(author, approval, freeze)
  /\ call' = [call EXCEPT ![c] =
       [stage |-> "analyse", path |-> None,
        job |-> [freeze |-> freeze, author |-> author, approval |-> approval]]]
  /\ UNCHANGED <<runtime, issued, roleFile, private>>

\* The configuration, the protocol, the fidelity contracts and the role are
\* read after that; the caller new-writes the bundle that is returned.
FinishCalibration(c, manifest) ==
  LET job == call[c].job IN
    /\ call[c].stage = "analyse"
    /\ RoleVerified("calibration", job.approval, manifest)
    /\ Issue("result",
         [freeze |-> job.freeze, inventory |-> job.freeze.inventory,
          author |-> job.author, approval |-> job.approval,
          role |-> manifest, inputs |-> runtime,
          outcome |-> Judge(manifest.values, runtime)])
    /\ Return(c)
    /\ UNCHANGED <<runtime, roleFile, private>>

\* Mutant: the status of the bundle is not looked at.
WriteAnyCertificate(bundle, result, freeze) ==
  /\ Issue("certificate",
       [freeze |-> freeze, inventory |-> freeze.inventory,
        role |-> bundle.role, outcome |-> bundle.outcome, result |-> result])
  /\ UNCHANGED <<runtime, roleFile, private, call>>

\* write_granted_calibration_certificate: the figures come from the bundle in
\* memory, the result's hash and the freeze from files the caller names.
WriteCertificate(bundle, result, freeze) ==
  /\ bundle.outcome \in Granting
  /\ Issue("certificate",
       [freeze |-> freeze, inventory |-> freeze.inventory,
        role |-> bundle.role, outcome |-> bundle.outcome, result |-> result])
  /\ UNCHANGED <<runtime, roleFile, private, call>>

-----------------------------------------------------------------------------
(* The locked side, of which LockedExecution has the steps: the approvals, *)
(* the calibration records and the role as its preflight and its analysis  *)
(* check them.                                                             *)

\* Mutant: the certificate's figures and the result's status are not compared.
ChainUnverified(approval, freeze) ==
  /\ Approves(approval.review, freeze)
  /\ approval.review.result = approval.result
  /\ approval.review.certificate = approval.certificate
  /\ approval.certificate.freeze = freeze
  /\ approval.certificate.result = approval.result
  /\ approval.certificate.inventory = freeze.inventory

\* verify_locked_certificate_chain.
ChainVerified(approval, freeze) ==
  /\ Approves(approval.review, freeze)
  /\ approval.review.result = approval.result
  /\ approval.review.certificate = approval.certificate
  /\ approval.certificate.freeze = freeze
  /\ approval.certificate.result = approval.result
  /\ approval.certificate.inventory = freeze.inventory
  /\ approval.result.outcome \in Granting
  /\ approval.certificate.outcome = approval.result.outcome

Audit(freeze, author, approval, path) ==
  /\ Approves(approval, freeze)
  /\ approval.author = author /\ AuthorApproves(author, freeze)
  /\ ChainVerified(approval, freeze)
  /\ path \in private /\ roleFile[path] \in Written
  /\ RoleVerified("locked", approval, roleFile[path])
  /\ Issue("audited", approval)
  /\ UNCHANGED <<runtime, roleFile, private, call>>

-----------------------------------------------------------------------------
People ==
  \/ \E r \in Runtime : EditRuntime(r)
  \/ FreezeCandidate
  \/ \E candidate \in issued["candidate"], r \in Runtime :
       ApproveCandidate(candidate, r)
  \/ \E freeze \in issued["freeze"], author \in issued["author"] :
       \/ \E r \in Runtime :
            ApproveCalibrationMaterialization(freeze, r, author)
       \/ \E manifest \in Written,
             materialization \in issued["calibration_materialization"] :
            ApproveCalibrationExecution(freeze, author, manifest,
                                        materialization)
       \/ \E review \in issued["review"] :
            \/ \E calibration \in Written :
                 ApproveLockedMaterialization(freeze, author, review,
                                              calibration)
            \/ \E manifest \in Written,
                  materialization \in issued["locked_materialization"] :
                 ApproveLockedExecution(freeze, author, materialization,
                                        review, manifest)
  \/ \E freeze \in issued["freeze"], result \in issued["result"],
        certificate \in issued["certificate"] :
       ReviewCalibration(freeze, result, certificate)

Calls ==
  \/ \E c \in Call, candidate \in issued["candidate"],
        author \in issued["author"] :
       StartPromotion(c, candidate, author)
  \/ \E c \in Call, freeze \in issued["freeze"], author \in issued["author"] :
       \/ \E path \in Path :
            \/ \E approval \in issued["calibration_materialization"] :
                 MaterializeCalibration(c, path, freeze, author, approval)
            \/ \E approval \in issued["locked_materialization"] :
                 MaterializeLocked(c, path, freeze, author, approval)
       \/ \E approval \in issued["calibration_execution"] :
            StartCalibration(c, freeze, author, approval)
  \/ \E c \in Call :
       \/ FinishPromotion(c) \/ Draw(c) \/ Claim(c) \/ Fill(c) \/ Chmod(c)
       \/ Crash(c)
  \/ \E c \in Call, manifest \in Written : FinishCalibration(c, manifest)
  \/ \E bundle \in issued["result"], result \in issued["result"],
        freeze \in issued["freeze"] :
       WriteCertificate(bundle, result, freeze)
  \/ \E freeze \in issued["freeze"], author \in issued["author"],
        approval \in issued["locked_execution"], path \in Path :
       Audit(freeze, author, approval, path)

Next == People \/ Calls

Spec == Init /\ [][Next]_vars

-----------------------------------------------------------------------------
(* Safety.                                                                 *)

Approved(freeze) ==
  /\ freeze.author.candidate = freeze.candidate
  /\ freeze.author.inventory = freeze.candidate.inventory

Reviewed(freeze) ==
  Approved(freeze) /\ freeze.inventory = freeze.candidate.inventory

\* A freeze is promoted from the candidate its author's record approves.
FreezesAreApproved == \A freeze \in issued["freeze"] : Approved(freeze)

FreezesInUse ==
  {m.freeze : m \in Written}
    \cup {d.freeze : d \in issued["result"] \cup issued["audited"]}

\* Every freeze that a role, a calibration result or an accepted execution
\* rests on freezes the very runtime the author reviewed: a runtime edited while
\* its candidate is promoted may be frozen unreviewed, and no gate accepts it.
FreezesInUseAreReviewed == \A freeze \in FreezesInUse : Reviewed(freeze)

\* The authorization of a role, drawn or about to be: an approval of its kind,
\* issued for its freeze, with the author's record that freeze was promoted by.
JobAuthorized(job) ==
  /\ job.freeze \in issued["freeze"] /\ job.author = job.freeze.author
  /\ Reviewed(job.freeze)
  /\ job.role = "calibration" =>
       job.approval \in issued["calibration_materialization"]
  /\ job.role = "locked" => job.approval \in issued["locked_materialization"]
  /\ job.approval.freeze = job.freeze /\ job.approval.author = job.author
  /\ job.approval.inventory = job.freeze.inventory

\* The calibration behind a locked role: certified and reviewed under its
\* freeze, with a role that exists.
JobFollowsCalibration(job) ==
  job.role = "locked" =>
    LET a == job.approval IN
      /\ a.review.freeze = job.freeze
      /\ a.review.result = a.result /\ a.review.certificate = a.certificate
      /\ a.certificate.freeze = job.freeze
      /\ a.certificate.result = a.result
      /\ a.certificate.outcome \in Granting
      /\ job.calibration = a.calibration
      /\ job.calibration \in RolesOf("calibration")

RoleAuthorized(m) ==
  /\ JobAuthorized(m)
  /\ m.inventory = m.freeze.candidate.inventory
  /\ Cardinality(m.values) = Count

RoleFollowsCalibration(m) ==
  /\ JobFollowsCalibration(m)
  /\ m.role = "locked" => m.values \cap m.calibration.values = {}

\* No role is drawn outside an approved freeze: whoever passes whichever
\* records, the manifest names an approval that exists, was issued for the
\* freeze the manifest names, and goes back to the one author's record that
\* freeze was promoted with; and it has its full number of distinct values.
RolesAreAuthorized == \A m \in Written : RoleAuthorized(m)

\* The locked role comes after a certified and reviewed calibration under its
\* own freeze, and overlaps with no value of the calibration role it names.
LockedFollowsCalibration == \A m \in Written : RoleFollowsCalibration(m)

RestsOnItsRole(r) ==
  /\ r.role \in RolesOf("calibration")
  /\ r.author = r.freeze.author
  /\ r.role.freeze = r.freeze /\ r.role.author = r.author
  /\ r.role.approval = r.approval.materialization

\* A calibration result was computed from a role drawn under the same freeze
\* and the same author's record, with the materialization approval that its
\* execution approval names.
ResultsRestOnTheirRole == \A r \in issued["result"] : RestsOnItsRole(r)

RestsOnAGrant(a) ==
  /\ a.result.outcome \in Granting
  /\ a.certificate.result = a.result
  /\ a.certificate.outcome = a.result.outcome
  /\ a.certificate.freeze = a.freeze
  /\ a.manifest \in RolesOf("locked") \cap Restricted
  /\ a.manifest.freeze = a.freeze /\ a.manifest.author = a.freeze.author
  /\ a.manifest.approval = a.materialization

\* What the locked execution accepts rests on a result that was granted, and
\* on a certificate that states that result; its role was drawn from the same
\* freeze and author's record, under the approval the execution names, and by a
\* materialization that lived to restrict the mode of its file.
AuditsRestOnAGrant == \A a \in issued["audited"] : RestsOnAGrant(a)

\* Why they hold: what an invocation in progress has already checked, and that
\* a claimed path has one writer.
CallAuthorized(c) ==
  LET job == call[c].job IN
    /\ call[c].stage = "promote" =>
         /\ job \in PromotionJob
         /\ job.author.candidate = job.candidate
         /\ job.author.inventory = job.candidate.inventory
    /\ call[c].stage = "draw" =>
         /\ job \in RoleJob
         /\ JobAuthorized(job) /\ JobFollowsCalibration(job)
    /\ call[c].stage \in {"claim", "fill"} =>
         /\ job \in RoleManifest
         /\ RoleAuthorized(job) /\ RoleFollowsCalibration(job)
    /\ call[c].stage = "analyse" =>
         /\ job \in AnalysisJob
         /\ job.author = job.freeze.author
         /\ job.approval.freeze = job.freeze
         /\ job.approval.author = job.author

OneWriter(c) ==
  call[c].stage = "fill" =>
    /\ roleFile[call[c].path] = Empty
    /\ \A d \in Call \ {c} :
         call[d].stage = "fill" => call[d].path # call[c].path

CallsAreAuthorized == \A c \in Call : CallAuthorized(c) /\ OneWriter(c)

ChainInv ==
  /\ TypeOK
  /\ FreezesAreApproved
  /\ RolesAreAuthorized
  /\ LockedFollowsCalibration
  /\ ResultsRestOnTheirRole
  /\ AuditsRestOnAGrant
  /\ CallsAreAuthorized

\* A path whose materialization died between claiming it and restricting its
\* mode: an empty file, or a role that the locked preflight refuses.
Abandoned(p) ==
  /\ roleFile[p] # None /\ p \notin private
  /\ \A c \in Call : call[c].stage \in {"fill", "chmod"} => call[c].path # p

\* A role manifest, once written, is never written again, and nothing revives a
\* path whose writer died: no later materialization, of either role, takes it
\* over, completes its file or restricts its mode.
RolesAreFinal ==
  [][\A p \in Path :
       /\ roleFile[p] \in Written => roleFile'[p] = roleFile[p]
       /\ Abandoned(p) => Abandoned(p)' /\ roleFile'[p] = roleFile[p]]_vars

-----------------------------------------------------------------------------
(* What the source says and the code does not do.                          *)

\* "an approved record from a reviewed candidate": what is promoted is frozen as
\* it was reviewed.
FreezesAreReviewed == \A freeze \in issued["freeze"] : Reviewed(freeze)

\* A materialization approval is for one action: "MATERIALIZE_..._ROLE_ONCE".
ApprovalsAreUsedOnce ==
  \A p, q \in Path :
    p # q /\ {roleFile[p], roleFile[q]} \subseteq Written =>
      roleFile[p].approval # roleFile[q].approval

\* "calibration-locked nonintersection": the locked role avoids the role that
\* the certified calibration was computed from.
LockedAvoidsCertifiedRole ==
  \A m \in RolesOf("locked") :
    m.values \cap m.approval.result.role.values = {}

\* A certificate binds the approved freeze the calibration ran under.
CertificatesNameTheirFreeze ==
  \A d \in issued["certificate"] : d.freeze = d.result.freeze

\* "runtime-enforced freeze gates": a result is judged by the frozen runtime.
ResultsAreJudgedByTheFrozenRuntime ==
  \A r \in issued["result"] : r.inputs = r.inventory
=============================================================================
