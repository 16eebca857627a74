-------------------------- MODULE LockedExecution --------------------------
(***************************************************************************)
(* run_locked_audit_once and the analysis it calls, as the steps of any    *)
(* number of concurrent invocations over one project directory: preflight, *)
(* the exclusive creation of the intent and of the permanent guard, the    *)
(* checks repeated after the guard, the analysis, and the records of its   *)
(* outcome.  Invocations interleave with each other and with edits of the  *)
(* documents they read; a write may fail, a process may die at any step,   *)
(* and the machine may lose power.                                         *)
(*                                                                         *)
(* A document is abstracted to whether its bytes are the ones the approval *)
(* binds.  Files that only the preflight reads (allowlists, superseded     *)
(* amendment records, schemas) are folded into its single step.            *)
(***************************************************************************)
EXTENDS Naturals, FiniteSets

CONSTANTS
  Proc,         \* invocations of the audit command; each one runs once
  NoProc,       \* the owner of a file nobody created
  NoContext,    \* the provenance context before it is built
  Volatile,     \* the documents that may be edited while a run reads them
  MaxDrift,     \* bound: how many such edits
  Faults        \* which faults may happen

FaultKinds == {"crash", "io", "analysis", "power"}

ASSUME NoProcAssumption == NoProc \notin Proc
ASSUME FaultsAssumption == Faults \subseteq FaultKinds
ASSUME MaxDriftAssumption == MaxDrift \in Nat

-----------------------------------------------------------------------------
(* The documents of LOCKED_PATHS that are read after the preflight, by the *)
(* step that reads them.                                                   *)

InputDocs == {"protocol", "config", "fidelity"}

GuardDocs == {"approval", "amendment", "carryforward",
              "amendment_review_approval"}

IntentDocs == GuardDocs \cup {"base_freeze", "runtime_environment",
                              "amended_verification"}

ContextDocs == IntentDocs \cup InputDocs \cup
  {"author_approval", "locked_materialization_approval", "calibration_result",
   "calibration_certificate", "calibration_review_approval"}

Docs == ContextDocs \cup {"locked_role"}

\* The documents the context compares once more with the authorization.
ComparedDocs == InputDocs \cup
  {"amendment", "carryforward", "amendment_review_approval",
   "amended_verification", "runtime_environment"}

\* "other" is a well-formed document of the same kind with different bytes.
Content == {"approved", "other", "missing"}

ASSUME VolatileAssumption == Volatile \subseteq Docs
ASSUME NoContextAssumption == NoContext \notin [ContextDocs -> Content]

-----------------------------------------------------------------------------
Files == {"intent", "guard", "result", "failure", "receipt"}

FileState == [owner : Proc \cup {NoProc}, whole : BOOLEAN]

Absent == [owner |-> NoProc, whole |-> FALSE]

WholeBy(p) == [owner |-> p, whole |-> TRUE]

\* The program points that write a file, the file, and the point that follows.
WriteTarget ==
  [write_intent          |-> "intent",
   write_guard           |-> "guard",
   write_result          |-> "result",
   write_receipt         |-> "receipt",
   write_failure         |-> "failure",
   write_failure_receipt |-> "receipt"]

AfterWrite ==
  [write_intent          |-> "build_guard",
   write_guard           |-> "recheck",
   write_result          |-> "write_receipt",
   write_receipt         |-> "completed",
   write_failure         |-> "write_failure_receipt",
   write_failure_receipt |-> "failed"]

WriteStages == {"write_intent", "write_guard", "write_result", "write_receipt",
                "write_failure", "write_failure_receipt"}

\* Writes made outside the try block of the orchestrator.
ConsumingStages == {"write_intent", "write_guard"}

BeforeIntent == {"load", "verify", "preexisting", "build_intent"}

Analysing == {"runner_gate", "read_inputs", "read_role", "endpoints"}

AfterGuard ==
  {"recheck", "build_context", "build_failure"} \cup Analysing
    \cup (WriteStages \ ConsumingStages)

Running ==
  BeforeIntent \cup ConsumingStages \cup {"build_guard"} \cup AfterGuard

\* How an invocation ends: refused and consumed before it wrote anything of
\* its own; raised between the intent and the guard; completed and failed with
\* both records; torn inside a terminal write; escaped from the construction
\* of the failure record; crashed.
Ended == {"refused", "consumed", "raised", "completed", "failed", "torn",
          "escaped", "crashed"}

VARIABLES
  pc,           \* pc[p]: where invocation p is
  docs,         \* docs[d]: the bytes of document d now
  drifts,       \* how many edits were made
  fs,           \* fs[f]: who created output f, and whether it is whole
  durable,      \* the outputs whose directory entry survives a power loss
  auth,         \* auth[p]: the bytes of the approval p loaded
  noted,        \* noted[p]: the bytes of the approval p hashed into its intent
  ctx,          \* ctx[p]: the document hashes of p's provenance context
  used,         \* used[p]: the inputs p's analysis read
  parsed        \* the invocations that parsed the held-out role

procVars == <<auth, noted, ctx, used, parsed>>
envVars == <<docs, drifts>>
fileVars == <<fs, durable>>
vars == <<pc, docs, drifts, fs, durable, auth, noted, ctx, used, parsed>>

TypeOK ==
  /\ pc \in [Proc -> Running \cup Ended \cup {"idle"}]
  /\ docs \in [Docs -> Content]
  /\ drifts \in 0 .. MaxDrift
  /\ fs \in [Files -> FileState]
  /\ durable \subseteq Files
  /\ auth \in [Proc -> Content]
  /\ noted \in [Proc -> Content]
  /\ ctx \in [Proc -> [ContextDocs -> Content] \cup {NoContext}]
  /\ used \in [Proc -> [InputDocs -> Content]]
  /\ parsed \subseteq Proc

Init ==
  /\ pc = [p \in Proc |-> "idle"]
  /\ docs = [d \in Docs |-> "approved"]
  /\ drifts = 0
  /\ fs = [f \in Files |-> Absent]
  /\ durable = {}
  /\ auth = [p \in Proc |-> "missing"]
  /\ noted = [p \in Proc |-> "missing"]
  /\ ctx = [p \in Proc |-> NoContext]
  /\ used = [p \in Proc |-> [d \in InputDocs |-> "missing"]]
  /\ parsed = {}

Goto(p, from, to) ==
  /\ pc[p] = from
  /\ pc' = [pc EXCEPT ![p] = to]

\* A check: on to yes when it holds, to no when it raises.
Check(p, from, holds, yes, no) ==
  Goto(p, from, IF holds THEN yes ELSE no)

Present(f) == fs[f].owner # NoProc

Readable(D) == \A d \in D : docs[d] # "missing"

-----------------------------------------------------------------------------
(* Before the intent: nothing is written.                                  *)

\* The fixed command and the bootstrap provenance are checked first.
Launch(p) ==
  /\ \E next \in {"load", "refused"} : Goto(p, "idle", next)
  /\ UNCHANGED <<envVars, fileVars, procVars>>

\* The approval is read and validated; every later check of the run uses this
\* copy.  A reissued approval that binds the same documents is as valid.
LoadAuthorization(p) ==
  /\ \/ /\ docs["approval"] # "missing"
        /\ Goto(p, "load", "verify")
        /\ auth' = [auth EXCEPT ![p] = docs["approval"]]
     \/ /\ docs["approval"] = "missing"
        /\ Goto(p, "load", "refused")
        /\ UNCHANGED auth
  /\ UNCHANGED <<envVars, fileVars, noted, ctx, used, parsed>>

\* Every other document must be the one the authorization binds, the role file
\* included, of which only the raw hash is read.
Bound(D) == \A d \in D : docs[d] = "approved"

VerifyBindings(p) ==
  /\ Check(p, "verify", Bound(Docs \ {"approval"}), "preexisting", "refused")
  /\ UNCHANGED <<envVars, fileVars, procVars>>

PreexistingOutputCheck(p) ==
  /\ \/ /\ Present("intent") \/ Present("guard")
        /\ Goto(p, "preexisting", "consumed")
     \/ /\ ~Present("intent") /\ ~Present("guard")
        /\ \E f \in {"result", "failure", "receipt"} : Present(f)
        /\ Goto(p, "preexisting", "refused")
     \/ /\ \A f \in Files : ~Present(f)
        /\ Goto(p, "preexisting", "build_intent")
  /\ UNCHANGED <<envVars, fileVars, procVars>>

\* The intent hashes the documents as they are now, without comparing them
\* with what the preflight saw.
BuildIntent(p) ==
  /\ \/ /\ Readable(IntentDocs)
        /\ Goto(p, "build_intent", "write_intent")
        /\ noted' = [noted EXCEPT ![p] = docs["approval"]]
     \/ /\ ~Readable(IntentDocs)
        /\ Goto(p, "build_intent", "refused")
        /\ UNCHANGED noted
  /\ UNCHANGED <<envVars, fileVars, auth, ctx, used, parsed>>

-----------------------------------------------------------------------------
(* _atomic_write_new, for each of the six writes of a run.                 *)

\* Mutant: open with O_CREAT | O_TRUNC.
OpenNewTruncating(p) ==
  /\ pc[p] \in WriteStages
  /\ fs[WriteTarget[pc[p]]] # [owner |-> p, whole |-> FALSE]
  /\ fs' = [fs EXCEPT ![WriteTarget[pc[p]]] = [owner |-> p, whole |-> FALSE]]
  /\ UNCHANGED <<pc, envVars, durable, procVars>>

\* open with O_CREAT | O_EXCL.
OpenNew(p) ==
  /\ pc[p] \in WriteStages
  /\ ~Present(WriteTarget[pc[p]])
  /\ fs' = [fs EXCEPT ![WriteTarget[pc[p]]] = [owner |-> p, whole |-> FALSE]]
  /\ UNCHANGED <<pc, envVars, durable, procVars>>

\* The bytes are written, fsynced, closed and read back.
FillNew(p) ==
  /\ pc[p] \in WriteStages
  /\ fs[WriteTarget[pc[p]]] = [owner |-> p, whole |-> FALSE]
  /\ fs' = [fs EXCEPT ![WriteTarget[pc[p]]] = WholeBy(p)]
  /\ pc' = [pc EXCEPT ![p] = AfterWrite[pc[p]]]
  /\ UNCHANGED <<envVars, durable, procVars>>

\* Mutant: an existing file is taken for this run's own and the run resumes.
OpenExistingResuming(p) ==
  /\ pc[p] \in WriteStages
  /\ Present(WriteTarget[pc[p]])
  /\ fs[WriteTarget[pc[p]]].owner # p
  /\ pc' = [pc EXCEPT ![p] = AfterWrite[pc[p]]]
  /\ UNCHANGED <<envVars, fileVars, procVars>>

\* Mutant: an existing file is waited for to disappear.
OpenExistingWaiting(p) ==
  /\ pc[p] \in WriteStages
  /\ Present(WriteTarget[pc[p]])
  /\ fs[WriteTarget[pc[p]]].owner # p
  /\ UNCHANGED vars

\* FileExistsError: the approval is consumed, or the terminal write is torn.
OpenExisting(p) ==
  /\ pc[p] \in WriteStages
  /\ Present(WriteTarget[pc[p]])
  /\ fs[WriteTarget[pc[p]]].owner # p
  /\ pc' = [pc EXCEPT ![p] = IF pc[p] \in ConsumingStages
                             THEN "consumed" ELSE "torn"]
  /\ UNCHANGED <<envVars, fileVars, procVars>>

\* Mutant: a terminal write that fails is followed by the failure record, as
\* without terminal_write_started.
WriteErrorRecorded(p) ==
  /\ "io" \in Faults
  /\ pc[p] \in WriteStages
  /\ UNCHANGED fs
  /\ pc' = [pc EXCEPT ![p] = IF pc[p] \in ConsumingStages
                             THEN "raised" ELSE "build_failure"]
  /\ UNCHANGED <<envVars, durable, procVars>>

\* Mutant: a failed outcome write is ignored and the receipt is written.
WriteErrorIgnored(p) ==
  /\ "io" \in Faults
  /\ pc[p] \in {"write_result", "write_failure"}
  /\ UNCHANGED fs
  /\ pc' = [pc EXCEPT ![p] = AfterWrite[pc[p]]]
  /\ UNCHANGED <<envVars, durable, procVars>>

\* Mutant: every OSError of the intent and guard writes, not FileExistsError
\* alone, is reported as consumed.
WriteErrorConsumed(p) ==
  /\ "io" \in Faults
  /\ pc[p] \in WriteStages
  /\ UNCHANGED fs
  /\ pc' = [pc EXCEPT ![p] = IF pc[p] \in ConsumingStages
                             THEN "consumed" ELSE "torn"]
  /\ UNCHANGED <<envVars, durable, procVars>>

\* Any other OSError, before the file exists, while it is partial, or from the
\* readback of a file whose bytes are all there.  Nothing is removed.
WriteError(p) ==
  /\ "io" \in Faults
  /\ pc[p] \in WriteStages
  /\ \/ UNCHANGED fs
     \/ /\ fs[WriteTarget[pc[p]]].owner = p
        /\ fs' = [fs EXCEPT ![WriteTarget[pc[p]]] = WholeBy(p)]
  /\ pc' = [pc EXCEPT ![p] = IF pc[p] \in ConsumingStages
                             THEN "raised" ELSE "torn"]
  /\ UNCHANGED <<envVars, durable, procVars>>

\* The guard payload hashes the approval and the amendment records again; an
\* unreadable one ends the run with the intent alone.
BuildGuard(p) ==
  /\ Check(p, "build_guard", Readable(GuardDocs), "write_guard", "raised")
  /\ UNCHANGED <<envVars, fileVars, procVars>>

-----------------------------------------------------------------------------
(* After the guard: an exception leads to the failure record.              *)

\* The command and the bootstrap provenance are checked again, which an edited
\* environment manifest may fail, and the approval against the intent.
Recheck(p) ==
  /\ \/ /\ docs["approval"] = noted[p]
        /\ docs["runtime_environment"] # "missing"
        /\ Goto(p, "recheck", "build_context")
     \/ /\ \/ docs["approval"] # noted[p]
           \/ docs["runtime_environment"] # "approved"
        /\ Goto(p, "recheck", "build_failure")
  /\ UNCHANGED <<envVars, fileVars, procVars>>

\* Mutant: the context is not compared with the authorization.
BuildContextUnchecked(p) ==
  /\ Readable(ContextDocs)
  /\ Goto(p, "build_context", "runner_gate")
  /\ ctx' = [ctx EXCEPT ![p] = [d \in ContextDocs |-> docs[d]]]
  /\ UNCHANGED <<envVars, fileVars, auth, noted, used, parsed>>

\* Mutant: the context lacks the calibration records.
BuildContextIncomplete(p) ==
  /\ Readable(ContextDocs)
  /\ Bound(ComparedDocs)
  /\ Goto(p, "build_context", "runner_gate")
  /\ ctx' = [ctx EXCEPT ![p] = [d \in IntentDocs \cup InputDocs |-> docs[d]]]
  /\ UNCHANGED <<envVars, fileVars, auth, noted, used, parsed>>

BuildContext(p) ==
  /\ \/ /\ Readable(ContextDocs)
        /\ Bound(ComparedDocs)
        /\ Goto(p, "build_context", "runner_gate")
        /\ ctx' = [ctx EXCEPT ![p] = [d \in ContextDocs |-> docs[d]]]
     \/ /\ ~(Readable(ContextDocs) /\ Bound(ComparedDocs))
        /\ Goto(p, "build_context", "build_failure")
        /\ UNCHANGED ctx
  /\ UNCHANGED <<envVars, fileVars, auth, noted, used, parsed>>

\* Mutant: the analysis refuses to start when any output exists.
GateHoldsNothingPresent(p) == \A f \in Files : ~Present(f)

\* The analysis first refuses a context it cannot match with the files.
GateHolds(p) ==
  /\ \A f \in {"result", "failure", "receipt"} : ~Present(f)
  /\ fs["intent"] = WholeBy(p) /\ fs["guard"] = WholeBy(p)
  /\ docs["approval"] = ctx[p]["approval"]

RunnerGate(p) ==
  /\ Check(p, "runner_gate", GateHolds(p), "read_inputs", "build_failure")
  /\ UNCHANGED <<envVars, fileVars, procVars>>

ReadInputs(p) ==
  /\ \/ /\ Readable(InputDocs)
        /\ Goto(p, "read_inputs", "read_role")
        /\ used' = [used EXCEPT ![p] = [d \in InputDocs |-> docs[d]]]
     \/ /\ ~Readable(InputDocs)
        /\ Goto(p, "read_inputs", "build_failure")
        /\ UNCHANGED used
  /\ UNCHANGED <<envVars, fileVars, auth, noted, ctx, parsed>>

\* The role is parsed only once its raw hash matches the authorization.
ReadRole(p) ==
  /\ \/ /\ docs["locked_role"] = "approved"
        /\ Goto(p, "read_role", "endpoints")
        /\ parsed' = parsed \cup {p}
     \/ /\ docs["locked_role"] # "approved"
        /\ Goto(p, "read_role", "build_failure")
        /\ UNCHANGED parsed
  /\ UNCHANGED <<envVars, fileVars, auth, noted, ctx, used>>

\* The documents whose hashes the analysis puts in its own bundle, read again
\* after the endpoints ran.
BundleDocs == InputDocs \cup {"base_freeze", "author_approval", "approval"}

\* The endpoints run and are validated, the bundle is built, overwritten with
\* the context and validated, and the receipt is built in memory.
RunEndpoints(p) ==
  /\ \/ Readable(BundleDocs) /\ Goto(p, "endpoints", "write_result")
     \/ /\ "analysis" \in Faults \/ ~Readable(BundleDocs)
        /\ Goto(p, "endpoints", "build_failure")
  /\ UNCHANGED <<envVars, fileVars, procVars>>

\* What a result says of the documents it rests on: the context overwrites the
\* hashes the analysis itself put in the bundle, and the comparison that
\* follows is between the context and that copy of it.
RecordedDocs(p) == ctx[p]

\* What the failure record and its receipt hash: all the context documents
\* when the run has no context, the approval alone when it has one.
FailureDocs(p) == IF ctx[p] = NoContext THEN ContextDocs ELSE {"approval"}

BuildFailure(p) ==
  /\ Check(p, "build_failure", Readable(FailureDocs(p)),
           "write_failure", "escaped")
  /\ UNCHANGED <<envVars, fileVars, procVars>>

-----------------------------------------------------------------------------
(* The environment.                                                        *)

Crash(p) ==
  /\ "crash" \in Faults
  /\ pc[p] \in Running
  /\ pc' = [pc EXCEPT ![p] = "crashed"]
  /\ UNCHANGED <<envVars, fileVars, procVars>>

Drift(d, c) ==
  /\ drifts < MaxDrift
  /\ docs[d] # c
  /\ docs' = [docs EXCEPT ![d] = c]
  /\ drifts' = drifts + 1
  /\ UNCHANGED <<pc, fileVars, procVars>>

\* The kernel writes the directory back at a time of its own choosing: the
\* code fsyncs each file and never the directory that names it.
FlushDirectory ==
  /\ "power" \in Faults
  /\ durable' = {f \in Files : Present(f)}
  /\ UNCHANGED <<pc, envVars, fs, procVars>>

PowerLoss ==
  /\ "power" \in Faults
  /\ \E lost \in SUBSET (Files \ durable) :
       fs' = [f \in Files |-> IF f \in lost THEN Absent ELSE fs[f]]
  /\ pc' = [p \in Proc |-> IF pc[p] \in Running THEN "crashed" ELSE pc[p]]
  /\ UNCHANGED <<envVars, durable, procVars>>

-----------------------------------------------------------------------------
Advance(p) ==
  \/ LoadAuthorization(p) \/ VerifyBindings(p) \/ PreexistingOutputCheck(p)
  \/ BuildIntent(p) \/ OpenNew(p) \/ FillNew(p) \/ OpenExisting(p)
  \/ BuildGuard(p) \/ Recheck(p) \/ BuildContext(p) \/ RunnerGate(p)
  \/ ReadInputs(p) \/ ReadRole(p) \/ RunEndpoints(p) \/ BuildFailure(p)

Environment ==
  \/ \E d \in Volatile, c \in Content : Drift(d, c)
  \/ FlushDirectory
  \/ PowerLoss

Next ==
  \/ \E p \in Proc : Launch(p) \/ Advance(p) \/ WriteError(p) \/ Crash(p)
  \/ Environment

Spec == Init /\ [][Next]_vars

\* The run is straight-line code with no lock and no wait: a launched process
\* that is not killed keeps executing.  Nothing obliges anybody to launch one,
\* to edit a document or to pull the plug.
Fairness == \A p \in Proc : WF_vars(Advance(p))

FairSpec == Spec /\ Fairness
-----------------------------------------------------------------------------
(* Safety.                                                                 *)

\* The held-out role is parsed, and the endpoints run on it, by at most one
\* invocation, whatever the interleaving, the failed writes and the crashes.
AnalysedAtMostOnce == \A p, q \in parsed : p = q

\* Every output belongs to the run whose intent consumed the approval: a late
\* invocation never adds a record to a run it does not own, and the intent and
\* the guard are both whole before anything else is created.
OutputsBelongToTheConsumer ==
  \A f \in Files : Present(f) =>
    /\ fs["intent"].owner = fs[f].owner
    /\ f # "intent" => fs["intent"] = WholeBy(fs[f].owner)
    /\ f \notin {"intent", "guard"} => fs["guard"] = WholeBy(fs[f].owner)

\* A result and a failure record never coexist, not even as fragments of a
\* write that broke off, so the first outcome cannot be contradicted.
OutcomesExclude == ~(Present("result") /\ Present("failure"))

\* A receipt, from its first byte on, covers a whole outcome of the same run.
ReceiptCoversAnOutcome ==
  Present("receipt") =>
    \E f \in {"result", "failure"} : fs[f] = WholeBy(fs["receipt"].owner)

\* A recorded result was computed from the approved role, and every document
\* the context compares with the authorization was, after the guard, still the
\* approved one: an edit between preflight and guard never reaches a result.
ResultRestsOnApprovedDocuments ==
  Present("result") =>
    LET p == fs["result"].owner IN
      /\ p \in parsed
      /\ ctx[p] # NoContext
      /\ \A d \in ComparedDocs : RecordedDocs(p)[d] = "approved"

\* How a run ended tells what it left: a completed run a result and a receipt,
\* a failed run a failure record and a receipt, a consumed or refused run
\* nothing at all, a run that escaped the failure path only the intent and the
\* guard.
EndTellsRecords ==
  \A p \in Proc :
    /\ pc[p] = "completed" =>
         fs["result"] = WholeBy(p) /\ fs["receipt"] = WholeBy(p)
    /\ pc[p] = "failed" =>
         fs["failure"] = WholeBy(p) /\ fs["receipt"] = WholeBy(p)
    /\ pc[p] \in {"refused", "consumed"} => \A f \in Files : fs[f].owner # p
    /\ pc[p] = "escaped" => \A f \in Files :
         fs[f] = WholeBy(p) <=> f \in {"intent", "guard"}

\* Without an edit, a failed write or a failing analysis, no run that won the
\* guard fails: the checks repeated after the guard never reject what the
\* preflight accepted.
NoSpuriousFailure ==
  drifts = 0 /\ Faults \cap {"io", "analysis"} = {} =>
    \A p \in Proc : pc[p] \notin {"build_failure", "failed", "torn", "escaped"}

-----------------------------------------------------------------------------
(* Why the safety invariants hold: what a run at each point has created.   *)

Outcomes == {"result", "failure", "receipt"}

ContextApproved(p) ==
  ctx[p] # NoContext /\ \A d \in ComparedDocs : RecordedDocs(p)[d] = "approved"

\* The files of a run at each of its program points, and the context and the
\* role values it holds there.
StageOwnership(p) ==
  /\ pc[p] \in {"idle", "refused", "consumed"} \cup BeforeIntent =>
       \A f \in Files : fs[f].owner # p
  /\ pc[p] = "write_intent" =>
       fs["intent"] # WholeBy(p) /\ \A f \in Files \ {"intent"} : fs[f].owner # p
  /\ pc[p] \in {"build_guard", "write_guard", "completed", "failed", "escaped"}
               \cup AfterGuard => fs["intent"] = WholeBy(p)
  /\ pc[p] \in {"completed", "failed", "escaped"} \cup AfterGuard =>
       fs["guard"] = WholeBy(p)
  /\ pc[p] \in {"build_guard", "write_guard", "recheck", "build_context",
                "build_failure", "escaped"} \cup Analysing =>
       \A f \in Outcomes : fs[f].owner # p
  /\ pc[p] = "build_guard" => fs["guard"].owner # p
  /\ pc[p] = "write_result" => \A f \in {"failure", "receipt"} : fs[f].owner # p
  /\ pc[p] = "write_failure" => \A f \in {"result", "receipt"} : fs[f].owner # p
  /\ pc[p] = "write_receipt" => fs["result"] = WholeBy(p)
  /\ pc[p] = "write_failure_receipt" => fs["failure"] = WholeBy(p)
  /\ pc[p] = "completed" =>
       fs["result"] = WholeBy(p) /\ fs["receipt"] = WholeBy(p)
  /\ pc[p] = "failed" =>
       fs["failure"] = WholeBy(p) /\ fs["receipt"] = WholeBy(p)
  /\ pc[p] \in {"write_result", "write_receipt", "completed"} \cup Analysing =>
       ContextApproved(p)
  /\ pc[p] \in {"endpoints", "write_result", "write_receipt", "completed"} =>
       p \in parsed

ParsedUnderGuard == \A p \in parsed : fs["guard"] = WholeBy(p)

\* The inductive invariant behind the safety invariants, while no power is
\* lost: every output lies with the one run that holds the guard, and where
\* that run is determines which outputs exist.
ConsumptionInv ==
  /\ \A p \in Proc : StageOwnership(p)
  /\ ParsedUnderGuard
  /\ OutputsBelongToTheConsumer
  /\ OutcomesExclude
  /\ ReceiptCoversAnOutcome
  /\ ResultRestsOnApprovedDocuments

-----------------------------------------------------------------------------
(* Action properties.                                                      *)

\* An output that was created is never replaced, and a whole one is final.
\* Neither a retry nor another invocation changes what a reader saw.
OutputsAreFinal ==
  [][\A f \in Files :
       /\ Present(f) => fs'[f].owner = fs[f].owner
       /\ fs[f].whole => fs'[f] = fs[f]]_fs

\* A consumption whose directory entry is durable is permanent: the intent or
\* guard stays its owner's through every power loss, and from then on nobody
\* but that owner parses the role.
DurableConsumptionIsPermanent ==
  [][\A f \in durable \cap {"intent", "guard"} :
       /\ fs'[f].owner = fs[f].owner
       /\ parsed' \ parsed \subseteq {fs[f].owner}]_<<fs, parsed, durable>>

-----------------------------------------------------------------------------
(* Liveness.                                                               *)

\* Every launched invocation ends: no sequence of failures, edits and races
\* leaves one waiting.
EveryRunEnds == \A p \in Proc : (pc[p] = "load") ~> (pc[p] \in Ended)

\* The race between invocations has a winner that goes all the way: a launch is
\* followed by a completed run, whichever it is, unless a run dies or a document
\* is edited.
SomeRunIsCompleted ==
  (\E p \in Proc : pc[p] = "load")
    ~> \/ \E p \in Proc : pc[p] \in {"completed", "crashed"}
       \/ drifts > 0

-----------------------------------------------------------------------------
(* LockedExecution implements OneTimeUse: the intent's creation consumes the *)
(* approval, a whole result or failure record is the outcome, and a whole    *)
(* receipt seals it.                                                         *)

OneTime == INSTANCE OneTimeUse WITH
  holder <- {fs["intent"].owner} \ {NoProc},
  analysts <- parsed,
  outcome <- CASE fs["result"].whole -> "result"
               [] fs["failure"].whole -> "failure"
               [] OTHER -> "none",
  sealed <- fs["receipt"].whole

\* What a reader of the protocol relies on: one approval, one consumption, one
\* analysis, one outcome, one receipt.
ImplementsOneTimeUse == OneTime!OneTimeSpec

-----------------------------------------------------------------------------
(* What the source says and the code does not do.                          *)

\* The config, protocol and fidelity hashes a result records are those of the
\* documents its analysis read ("cross-object equality before result
\* new-write").
RecordedInputsWereUsed ==
  Present("result") =>
    LET p == fs["result"].owner IN
      \A d \in InputDocs : RecordedDocs(p)[d] = used[p][d]

\* The approval whose hash a result records is the approval that was validated
\* ("consume one exact approval once").
RecordedApprovalWasValidated ==
  Present("result") =>
    LET p == fs["result"].owner IN RecordedDocs(p)["approval"] = auth[p]
=============================================================================
