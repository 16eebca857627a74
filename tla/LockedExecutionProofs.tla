----------------------- MODULE LockedExecutionProofs -----------------------
(***************************************************************************)
(* Machine-checked proofs about LockedExecution, for any number of         *)
(* invocations, any bound on edits and any set of faults; the safety       *)
(* theorems assume that no power is lost, and the run locked_power_repeat  *)
(* shows that they need to.                                                *)
(***************************************************************************)
EXTENDS LockedExecution, TLAPS

-----------------------------------------------------------------------------
(* Type correctness.                                                       *)

\* Every write stage has a target file and a point that follows it.
LEMMA WriteTables ==
  ASSUME NEW s \in WriteStages
  PROVE  /\ WriteTarget[s] \in Files
         /\ AfterWrite[s] \in Running \cup Ended
BY DEF WriteStages, WriteTarget, AfterWrite, Files, Running, Ended, AfterGuard,
       BeforeIntent, ConsumingStages, Analysing

\* Types are preserved by every step: the type invariant of the runs, for
\* every instance.
LEMMA TypeStep == TypeOK /\ [Next]_vars => TypeOK'
<1> SUFFICES ASSUME TypeOK, [Next]_vars
             PROVE  TypeOK'
  OBVIOUS
<1>a. WriteStages \subseteq Running
  BY DEF WriteStages, Running, AfterGuard, ConsumingStages
<1>1. ASSUME NEW p \in Proc, Launch(p)
      PROVE  TypeOK'
  BY <1>1 DEF TypeOK, Launch, Goto, envVars, fileVars, procVars, Running, Ended,
              BeforeIntent
<1>2. ASSUME NEW p \in Proc, LoadAuthorization(p)
      PROVE  TypeOK'
  BY <1>2 DEF TypeOK, LoadAuthorization, Goto, envVars, fileVars, Running,
              Ended, BeforeIntent, Docs, ContextDocs, IntentDocs, GuardDocs
<1>3. ASSUME NEW p \in Proc, VerifyBindings(p)
      PROVE  TypeOK'
  BY <1>3 DEF TypeOK, VerifyBindings, Check, Goto, envVars, fileVars, procVars,
              Running, Ended, BeforeIntent
<1>4. ASSUME NEW p \in Proc, PreexistingOutputCheck(p)
      PROVE  TypeOK'
  BY <1>4 DEF TypeOK, PreexistingOutputCheck, Goto, envVars, fileVars, procVars,
              Running, Ended, BeforeIntent
<1>5. ASSUME NEW p \in Proc, BuildIntent(p)
      PROVE  TypeOK'
  BY <1>5 DEF TypeOK, BuildIntent, Goto, envVars, fileVars, Running, Ended,
              ConsumingStages, Docs, ContextDocs, IntentDocs, GuardDocs
<1>6. ASSUME NEW p \in Proc, OpenNew(p)
      PROVE  TypeOK'
  BY <1>6, WriteTables DEF TypeOK, OpenNew, FileState, envVars, procVars
<1>7. ASSUME NEW p \in Proc, FillNew(p)
      PROVE  TypeOK'
  BY <1>7, WriteTables
  DEF TypeOK, FillNew, FileState, WholeBy, envVars, procVars
<1>8. ASSUME NEW p \in Proc, OpenExisting(p)
      PROVE  TypeOK'
  BY <1>8 DEF TypeOK, OpenExisting, envVars, fileVars, procVars, Ended
<1>9. ASSUME NEW p \in Proc, WriteError(p)
      PROVE  TypeOK'
  <2>1. fs' \in [Files -> FileState]
    <3>1. CASE UNCHANGED fs
      BY <3>1 DEF TypeOK
    <3>2. CASE fs' = [fs EXCEPT ![WriteTarget[pc[p]]] = WholeBy(p)]
      <4>1. WholeBy(p) \in FileState
        BY DEF WholeBy, FileState
      <4>2. QED
        BY <3>2, <4>1 DEF TypeOK
    <3>3. QED
      BY <1>9, <3>1, <3>2 DEF WriteError
  <2>2. pc' \in [Proc -> Running \cup Ended \cup {"idle"}]
    BY <1>9 DEF TypeOK, WriteError, Ended
  <2>3. QED
    BY <1>9, <2>1, <2>2 DEF TypeOK, WriteError, envVars, procVars
<1>10. ASSUME NEW p \in Proc, BuildGuard(p)
       PROVE  TypeOK'
  BY <1>10 DEF TypeOK, BuildGuard, Check, Goto, envVars, fileVars, procVars,
               Running, Ended, ConsumingStages
<1>11. ASSUME NEW p \in Proc, Recheck(p)
       PROVE  TypeOK'
  BY <1>11 DEF TypeOK, Recheck, Goto, envVars, fileVars, procVars, Running,
               AfterGuard
<1>12. ASSUME NEW p \in Proc, BuildContext(p)
       PROVE  TypeOK'
  <2>1. [d \in ContextDocs |-> docs[d]] \in [ContextDocs -> Content]
    BY DEF TypeOK, Docs
  <2>2. QED
    BY <1>12, <2>1 DEF TypeOK, BuildContext, Goto, envVars, fileVars, Running,
               AfterGuard, Analysing
<1>13. ASSUME NEW p \in Proc, RunnerGate(p)
       PROVE  TypeOK'
  BY <1>13 DEF TypeOK, RunnerGate, Check, Goto, envVars, fileVars, procVars,
               Running, AfterGuard, Analysing
<1>14. ASSUME NEW p \in Proc, ReadInputs(p)
       PROVE  TypeOK'
  <2>1. [d \in InputDocs |-> docs[d]] \in [InputDocs -> Content]
    BY DEF TypeOK, Docs, ContextDocs
  <2>2. QED
    BY <1>14, <2>1 DEF TypeOK, ReadInputs, Goto, envVars, fileVars, Running,
               AfterGuard, Analysing
<1>15. ASSUME NEW p \in Proc, ReadRole(p)
       PROVE  TypeOK'
  BY <1>15 DEF TypeOK, ReadRole, Goto, envVars, fileVars, Running, AfterGuard,
               Analysing
<1>16. ASSUME NEW p \in Proc, RunEndpoints(p)
       PROVE  TypeOK'
  BY <1>16 DEF TypeOK, RunEndpoints, Goto, envVars, fileVars, procVars,
               Running, AfterGuard, WriteStages, ConsumingStages
<1>17. ASSUME NEW p \in Proc, BuildFailure(p)
       PROVE  TypeOK'
  BY <1>17 DEF TypeOK, BuildFailure, Check, Goto, envVars, fileVars, procVars,
               Running, AfterGuard, WriteStages, ConsumingStages, Ended
<1>18. ASSUME NEW p \in Proc, Crash(p)
       PROVE  TypeOK'
  BY <1>18 DEF TypeOK, Crash, envVars, fileVars, procVars, Ended
<1>19. ASSUME NEW d \in Volatile, NEW c \in Content, Drift(d, c)
       PROVE  TypeOK'
  BY <1>19, MaxDriftAssumption, VolatileAssumption
  DEF TypeOK, Drift, fileVars, procVars
<1>20. CASE FlushDirectory
  BY <1>20 DEF TypeOK, FlushDirectory, envVars, procVars
<1>21. CASE PowerLoss
  BY <1>21 DEF TypeOK, PowerLoss, envVars, procVars, FileState, Absent, Ended
<1>22. CASE UNCHANGED vars
  BY <1>22 DEF TypeOK, vars
<1>23. QED
  BY <1>1, <1>2, <1>3, <1>4, <1>5, <1>6, <1>7, <1>8, <1>9, <1>10, <1>11,
     <1>12, <1>13, <1>14, <1>15, <1>16, <1>17, <1>18, <1>19, <1>20, <1>21,
     <1>22
  DEF Next, Advance, Environment

\* The state of the program always has its type, power losses included.
THEOREM TypeCorrect == Spec => []TypeOK
<1>1. Init => TypeOK
  BY MaxDriftAssumption
  DEF Init, TypeOK, Content, FileState, Absent, Files, Running, Ended
<1>2. QED
  BY <1>1, TypeStep, PTL DEF Spec
-----------------------------------------------------------------------------
(* The safety of the consumption, while no power is lost.                  *)

\* The parts of the inductive invariant that do not depend on where a run is.
RecordsInv ==
  /\ ParsedUnderGuard
  /\ OutputsBelongToTheConsumer
  /\ OutcomesExclude
  /\ ReceiptCoversAnOutcome
  /\ ResultRestsOnApprovedDocuments

\* A run that does not move keeps its stage invariant when the outputs, its
\* context and its own parsing are left alone.
LEMMA FrameStage ==
  ASSUME NEW q \in Proc, StageOwnership(q), fs' = fs,
         pc'[q] = pc[q], ctx'[q] = ctx[q], q \in parsed => q \in parsed'
  PROVE  StageOwnership(q)'
BY DEF StageOwnership, ContextApproved, RecordedDocs

\* A move of one run that touches no output, context or role value preserves
\* the invariant as soon as the run's own stage invariant holds afterwards.
LEMMA PureMove ==
  ASSUME TypeOK, ConsumptionInv, NEW p \in Proc, NEW s,
         UNCHANGED <<fs, ctx, parsed>>, pc' = [pc EXCEPT ![p] = s],
         StageOwnership(p)'
  PROVE  ConsumptionInv'
<1>1. ASSUME NEW q \in Proc PROVE StageOwnership(q)'
  <2>1. CASE q = p
    BY <2>1
  <2>2. CASE q # p
    <3>1. pc'[q] = pc[q]
      BY <2>2 DEF TypeOK
    <3>2. QED
      BY <3>1, FrameStage DEF ConsumptionInv
  <2>3. QED
    BY <2>1, <2>2
<1>2. RecordsInv'
  <2>1. RecordsInv
    BY DEF ConsumptionInv, RecordsInv
  <2>2. QED
    BY <2>1 DEF RecordsInv, ParsedUnderGuard, OutputsBelongToTheConsumer,
                OutcomesExclude, ReceiptCoversAnOutcome, Present,
                ResultRestsOnApprovedDocuments, RecordedDocs
<1>3. QED
  BY <1>1, <1>2 DEF ConsumptionInv, RecordsInv

\* Before the intent a run owns no output, and it cannot come to own one
\* without creating it.
LEMMA EarlyMoves ==
  ASSUME TypeOK, ConsumptionInv, NEW p \in Proc,
         \/ Launch(p) \/ LoadAuthorization(p) \/ VerifyBindings(p)
         \/ PreexistingOutputCheck(p) \/ BuildIntent(p)
  PROVE  ConsumptionInv'
<1>1. PICK s \in {"load", "verify", "preexisting", "build_intent",
                  "write_intent", "refused", "consumed"} :
        pc' = [pc EXCEPT ![p] = s]
  BY DEF Launch, LoadAuthorization, VerifyBindings, PreexistingOutputCheck,
         BuildIntent, Check, Goto
<1>2. UNCHANGED <<fs, ctx, parsed>>
  BY DEF Launch, LoadAuthorization, VerifyBindings, PreexistingOutputCheck,
         BuildIntent, fileVars, procVars
<1>3. pc[p] \in {"idle"} \cup BeforeIntent
  BY DEF Launch, LoadAuthorization, VerifyBindings, PreexistingOutputCheck,
         BuildIntent, Check, Goto, BeforeIntent
<1>4. \A f \in Files : fs[f].owner # p
  BY <1>3 DEF ConsumptionInv, StageOwnership
<1>5. pc'[p] = s
  BY <1>1 DEF TypeOK
<1>6. StageOwnership(p)'
  BY <1>2, <1>4, <1>5
  DEF StageOwnership, BeforeIntent, AfterGuard, Analysing, WriteStages,
      ConsumingStages, Files, WholeBy
<1>7. QED
  BY <1>1, <1>2, <1>6, PureMove
\* Between the intent and the outcome a run that only checks keeps what it has.
LEMMA CheckMoves ==
  ASSUME TypeOK, ConsumptionInv, NEW p \in Proc,
         \/ BuildGuard(p) \/ Recheck(p) \/ RunnerGate(p) \/ ReadInputs(p)
         \/ RunEndpoints(p) \/ BuildFailure(p)
  PROVE  ConsumptionInv'
<1> USE DEF StageOwnership, ContextApproved, RecordedDocs, AfterGuard,
            Analysing, WriteStages, ConsumingStages, BeforeIntent, Outcomes
<1>1. StageOwnership(p)
  BY DEF ConsumptionInv
<1>2. CASE BuildGuard(p)
  <2>1. PICK s \in {"write_guard", "raised"} : pc' = [pc EXCEPT ![p] = s]
    BY <1>2 DEF BuildGuard, Check, Goto
  <2>2. pc[p] = "build_guard" /\ pc'[p] = s
    BY <1>2, <2>1 DEF BuildGuard, Check, Goto, TypeOK
  <2>3. UNCHANGED <<fs, ctx, parsed>>
    BY <1>2 DEF BuildGuard, fileVars, procVars
  <2>4. StageOwnership(p)'
    BY <1>1, <2>2, <2>3
  <2>5. QED
    BY <2>1, <2>3, <2>4, PureMove
<1>3. CASE Recheck(p)
  <2>1. PICK s \in {"build_context", "build_failure"} :
          pc' = [pc EXCEPT ![p] = s]
    BY <1>3 DEF Recheck, Goto
  <2>2. pc[p] = "recheck" /\ pc'[p] = s
    BY <1>3, <2>1 DEF Recheck, Goto, TypeOK
  <2>3. UNCHANGED <<fs, ctx, parsed>>
    BY <1>3 DEF Recheck, fileVars, procVars
  <2>4. StageOwnership(p)'
    BY <1>1, <2>2, <2>3
  <2>5. QED
    BY <2>1, <2>3, <2>4, PureMove
<1>4. CASE RunnerGate(p)
  <2>1. PICK s \in {"read_inputs", "build_failure"} :
          pc' = [pc EXCEPT ![p] = s]
    BY <1>4 DEF RunnerGate, Check, Goto
  <2>2. pc[p] = "runner_gate" /\ pc'[p] = s
    BY <1>4, <2>1 DEF RunnerGate, Check, Goto, TypeOK
  <2>3. UNCHANGED <<fs, ctx, parsed>>
    BY <1>4 DEF RunnerGate, fileVars, procVars
  <2>4. StageOwnership(p)'
    BY <1>1, <2>2, <2>3
  <2>5. QED
    BY <2>1, <2>3, <2>4, PureMove
<1>5. CASE ReadInputs(p)
  <2>1. PICK s \in {"read_role", "build_failure"} : pc' = [pc EXCEPT ![p] = s]
    BY <1>5 DEF ReadInputs, Goto
  <2>2. pc[p] = "read_inputs" /\ pc'[p] = s
    BY <1>5, <2>1 DEF ReadInputs, Goto, TypeOK
  <2>3. UNCHANGED <<fs, ctx, parsed>>
    BY <1>5 DEF ReadInputs, fileVars
  <2>4. StageOwnership(p)'
    BY <1>1, <2>2, <2>3
  <2>5. QED
    BY <2>1, <2>3, <2>4, PureMove
<1>6. CASE RunEndpoints(p)
  <2>1. PICK s \in {"write_result", "build_failure"} :
          pc' = [pc EXCEPT ![p] = s]
    BY <1>6 DEF RunEndpoints, Goto
  <2>2. pc[p] = "endpoints" /\ pc'[p] = s
    BY <1>6, <2>1 DEF RunEndpoints, Goto, TypeOK
  <2>3. UNCHANGED <<fs, ctx, parsed>>
    BY <1>6 DEF RunEndpoints, fileVars, procVars
  <2>4. StageOwnership(p)'
    BY <1>1, <2>2, <2>3
  <2>5. QED
    BY <2>1, <2>3, <2>4, PureMove
<1>7. CASE BuildFailure(p)
  <2>1. PICK s \in {"write_failure", "escaped"} : pc' = [pc EXCEPT ![p] = s]
    BY <1>7 DEF BuildFailure, Check, Goto
  <2>2. pc[p] = "build_failure" /\ pc'[p] = s
    BY <1>7, <2>1 DEF BuildFailure, Check, Goto, TypeOK
  <2>3. UNCHANGED <<fs, ctx, parsed>>
    BY <1>7 DEF BuildFailure, fileVars, procVars
  <2>4. StageOwnership(p)'
    BY <1>1, <2>2, <2>3
  <2>5. QED
    BY <2>1, <2>3, <2>4, PureMove
<1>8. QED
  BY <1>2, <1>3, <1>4, <1>5, <1>6, <1>7

\* A crash leaves every output as it is.
LEMMA CrashMove ==
  ASSUME TypeOK, ConsumptionInv, NEW p \in Proc, Crash(p)
  PROVE  ConsumptionInv'
<1>1. pc' = [pc EXCEPT ![p] = "crashed"] /\ UNCHANGED <<fs, ctx, parsed>>
  BY DEF Crash, fileVars, procVars
<1>2. pc'[p] = "crashed"
  BY <1>1 DEF TypeOK
<1>3. StageOwnership(p)'
  BY <1>2 DEF StageOwnership, BeforeIntent, AfterGuard, Analysing, WriteStages,
              ConsumingStages
<1>4. QED
  BY <1>1, <1>3, PureMove

\* A run that finds its target taken owns nothing when the target is the
\* intent, and cannot find the guard taken: the guard's owner would hold the
\* intent that this run holds.
LEMMA OpenExistingMove ==
  ASSUME TypeOK, ConsumptionInv, NEW p \in Proc, OpenExisting(p)
  PROVE  ConsumptionInv'
<1>1. PICK s \in {"consumed", "torn"} :
        /\ pc' = [pc EXCEPT ![p] = s]
        /\ s = "consumed" <=> pc[p] \in ConsumingStages
  BY DEF OpenExisting
<1>2. UNCHANGED <<fs, ctx, parsed>> /\ pc'[p] = s
  BY <1>1 DEF OpenExisting, fileVars, procVars, TypeOK
<1>3. ASSUME s = "consumed"
      PROVE  \A f \in Files : fs[f].owner # p
  <2>1. CASE pc[p] = "write_intent"
    <3>1. fs["intent"].owner # p
      BY <2>1 DEF OpenExisting, WriteTarget
    <3>2. QED
      BY <2>1, <3>1 DEF ConsumptionInv, StageOwnership
  <2>2. CASE pc[p] = "write_guard"
    <3>1. fs["intent"] = WholeBy(p)
      BY <2>2 DEF ConsumptionInv, StageOwnership
    <3>2. Present("guard") /\ fs["guard"].owner # p
      BY <2>2 DEF OpenExisting, WriteTarget
    <3>3. fs["intent"].owner = fs["guard"].owner
      BY <3>2 DEF ConsumptionInv, OutputsBelongToTheConsumer, Files
    <3>4. QED
      BY <3>1, <3>2, <3>3 DEF WholeBy
  <2>3. QED
    BY <1>1, <1>3, <2>1, <2>2 DEF ConsumingStages
<1>4. StageOwnership(p)'
  BY <1>1, <1>2, <1>3 DEF StageOwnership, BeforeIntent, AfterGuard, Analysing,
                          WriteStages, ConsumingStages
<1>5. QED
  BY <1>1, <1>2, <1>4, PureMove
\* Building the context gives the run a context all of whose compared documents
\* are approved; the run has no result yet that could rest on another one.
LEMMA BuildContextMove ==
  ASSUME TypeOK, ConsumptionInv, NEW p \in Proc, BuildContext(p)
  PROVE  ConsumptionInv'
<1> USE DEF BeforeIntent, AfterGuard, Analysing, WriteStages, ConsumingStages,
            Outcomes
<1>0. StageOwnership(p) /\ pc[p] = "build_context"
  BY DEF ConsumptionInv, BuildContext, Goto
<1>1. CASE Goto(p, "build_context", "build_failure") /\ UNCHANGED ctx
  <2>1. pc' = [pc EXCEPT ![p] = "build_failure"] /\ pc'[p] = "build_failure"
    BY <1>1 DEF Goto, TypeOK
  <2>2. UNCHANGED <<fs, ctx, parsed>>
    BY <1>1 DEF BuildContext, fileVars
  <2>3. StageOwnership(p)'
    BY <1>0, <2>1, <2>2 DEF StageOwnership
  <2>4. QED
    BY <2>1, <2>2, <2>3, PureMove
<1>2. CASE /\ Goto(p, "build_context", "runner_gate")
           /\ Bound(ComparedDocs)
           /\ ctx' = [ctx EXCEPT ![p] = [d \in ContextDocs |-> docs[d]]]
  <2>1. pc' = [pc EXCEPT ![p] = "runner_gate"] /\ pc'[p] = "runner_gate"
    BY <1>2 DEF Goto, TypeOK
  <2>2. UNCHANGED <<fs, parsed>>
    BY DEF BuildContext, fileVars
  <2>3. ctx'[p] = [d \in ContextDocs |-> docs[d]]
    BY <1>2 DEF TypeOK
  <2>4. ContextApproved(p)'
    <3>1. [d \in ContextDocs |-> docs[d]] \in [ContextDocs -> Content]
      BY DEF TypeOK, Docs
    <3>2. ctx'[p] # NoContext
      BY <2>3, <3>1, NoContextAssumption
    <3>3. ASSUME NEW d \in ComparedDocs PROVE ctx'[p][d] = "approved"
      <4>1. d \in ContextDocs
        BY DEF ComparedDocs, ContextDocs, IntentDocs, GuardDocs
      <4>2. docs[d] = "approved"
        BY <1>2 DEF Bound
      <4>3. QED
        BY <2>3, <4>1, <4>2
    <3>4. QED
      BY <3>2, <3>3 DEF ContextApproved, RecordedDocs
  <2>5. ASSUME NEW q \in Proc PROVE StageOwnership(q)'
    <3>1. CASE q = p
      BY <1>0, <2>1, <2>2, <2>4, <3>1 DEF StageOwnership
    <3>2. CASE q # p
      <4>1. pc'[q] = pc[q] /\ ctx'[q] = ctx[q]
        BY <1>2, <2>1, <3>2 DEF TypeOK
      <4>2. QED
        BY <2>2, <4>1, FrameStage DEF ConsumptionInv
    <3>3. QED
      BY <3>1, <3>2
  <2>6. ResultRestsOnApprovedDocuments'
    <3>1. SUFFICES ASSUME Present("result")
                   PROVE  ResultRestsOnApprovedDocuments'
      BY <2>2 DEF ResultRestsOnApprovedDocuments, Present
    <3>2. fs["result"].owner # p
      BY <1>0 DEF StageOwnership
    <3>3. fs["result"].owner \in Proc
      BY <3>1 DEF Present, TypeOK, Files, FileState
    <3>4. ctx'[fs["result"].owner] = ctx[fs["result"].owner]
      BY <1>2, <3>2, <3>3 DEF TypeOK
    <3>5. QED
      BY <2>2, <3>1, <3>4
      DEF ConsumptionInv, ResultRestsOnApprovedDocuments, RecordedDocs, Present
  <2>7. QED
    BY <2>2, <2>5, <2>6
    DEF ConsumptionInv, ParsedUnderGuard, OutputsBelongToTheConsumer,
        OutcomesExclude, ReceiptCoversAnOutcome, Present
<1>3. QED
  BY <1>1, <1>2 DEF BuildContext

\* The role is parsed by a run that holds the guard.
LEMMA ReadRoleMove ==
  ASSUME TypeOK, ConsumptionInv, NEW p \in Proc, ReadRole(p)
  PROVE  ConsumptionInv'
<1> USE DEF BeforeIntent, AfterGuard, Analysing, WriteStages, ConsumingStages,
            Outcomes
<1>0. StageOwnership(p) /\ pc[p] = "read_role" /\ UNCHANGED <<fs, ctx>>
  BY DEF ConsumptionInv, ReadRole, Goto, fileVars
<1>1. CASE Goto(p, "read_role", "build_failure") /\ UNCHANGED parsed
  <2>1. pc' = [pc EXCEPT ![p] = "build_failure"] /\ pc'[p] = "build_failure"
    BY <1>1 DEF Goto, TypeOK
  <2>2. StageOwnership(p)'
    BY <1>0, <1>1, <2>1 DEF StageOwnership
  <2>3. QED
    BY <1>0, <1>1, <2>1, <2>2, PureMove
<1>2. CASE Goto(p, "read_role", "endpoints") /\ parsed' = parsed \cup {p}
  <2>1. pc' = [pc EXCEPT ![p] = "endpoints"] /\ pc'[p] = "endpoints"
    BY <1>2 DEF Goto, TypeOK
  <2>2. ASSUME NEW q \in Proc PROVE StageOwnership(q)'
    <3>1. CASE q = p
      BY <1>0, <1>2, <2>1, <3>1
      DEF StageOwnership, ContextApproved, RecordedDocs
    <3>2. CASE q # p
      <4>1. pc'[q] = pc[q]
        BY <2>1, <3>2 DEF TypeOK
      <4>2. QED
        BY <1>0, <1>2, <4>1, FrameStage DEF ConsumptionInv
    <3>3. QED
      BY <3>1, <3>2
  <2>3. ParsedUnderGuard'
    BY <1>0, <1>2 DEF StageOwnership, ConsumptionInv, ParsedUnderGuard
  <2>4. QED
    BY <1>0, <1>2, <2>2, <2>3
    DEF ConsumptionInv, OutputsBelongToTheConsumer, OutcomesExclude,
        ReceiptCoversAnOutcome, ResultRestsOnApprovedDocuments, RecordedDocs,
        Present
<1>3. QED
  BY <1>1, <1>2 DEF ReadRole

\* A write to an output that is free or the writer's own leaves every other
\* run's stage invariant alone.
LEMMA WriteFrame ==
  ASSUME TypeOK, NEW p \in Proc, NEW q \in Proc, q # p, NEW t \in Files,
         NEW w \in BOOLEAN, fs[t].owner \in {NoProc, p},
         fs' = [fs EXCEPT ![t] = [owner |-> p, whole |-> w]],
         StageOwnership(q), pc'[q] = pc[q], UNCHANGED <<ctx, parsed>>
  PROVE  StageOwnership(q)'
<1>1. \A f \in Files : f # t => fs'[f] = fs[f]
  BY DEF TypeOK
<1>2. fs'[t] = [owner |-> p, whole |-> w] /\ fs'[t].owner = p
  BY DEF TypeOK
<1>3. \A f \in Files : fs[f].owner # q => fs'[f].owner # q
  BY <1>1, <1>2
<1>4. \A f \in Files : fs[f] = WholeBy(q) => fs'[f] = WholeBy(q)
  BY <1>1, NoProcAssumption DEF WholeBy
<1>5. fs'["intent"] = WholeBy(q) => fs["intent"] = WholeBy(q)
  BY <1>1, <1>2 DEF WholeBy, Files
<1>6. QED
  BY <1>3, <1>4, <1>5
  DEF StageOwnership, ContextApproved, RecordedDocs, Files, Outcomes
\* What each write does to the records: the intent's author is alone, the
\* guard's author holds the intent, and every later output is the work of the
\* run that holds both.
LEMMA WriteRecords ==
  ASSUME TypeOK, RecordsInv, NEW p \in Proc, StageOwnership(p),
         pc[p] \in WriteStages, NEW w \in BOOLEAN,
         LET t == WriteTarget[pc[p]] IN
           /\ fs[t].owner = NoProc \/ (fs[t].owner = p /\ w)
           /\ fs' = [fs EXCEPT ![t] = [owner |-> p, whole |-> w]],
         UNCHANGED <<ctx, parsed>>
  PROVE  RecordsInv'
<1> DEFINE t == WriteTarget[pc[p]]
<1>1. t \in Files
  BY WriteTables
<1>2. \A f \in Files : f # t => fs'[f] = fs[f]
  BY <1>1 DEF TypeOK
<1>3. fs'[t] = [owner |-> p, whole |-> w] /\ fs'[t].owner = p
  BY <1>1 DEF TypeOK
<1>4. p # NoProc
  BY NoProcAssumption
<1>5. \A f \in Files : Present(f) =>
        /\ f # "intent" => fs["intent"] = WholeBy(fs[f].owner)
        /\ f \notin {"intent", "guard"} => fs["guard"] = WholeBy(fs[f].owner)
  BY DEF RecordsInv, OutputsBelongToTheConsumer
<1> USE DEF Present, Files, WholeBy
<1>6. CASE pc[p] = "write_intent"
  <2>1. t = "intent" /\ fs["intent"] # WholeBy(p)
    BY <1>6 DEF WriteTarget, StageOwnership
  <2>2. \A f \in Files \ {"intent"} : fs[f].owner = NoProc
    <3> SUFFICES ASSUME NEW f \in Files \ {"intent"}, fs[f].owner # NoProc
                 PROVE  FALSE
      OBVIOUS
    <3>1. fs["intent"] = WholeBy(fs[f].owner)
      BY <1>5
    <3>2. fs["intent"].owner = fs[f].owner
      BY <3>1
    <3>3. fs["intent"].owner = p
      BY <2>1, <3>2
    <3>4. QED
      BY <2>1, <3>1, <3>2, <3>3
  <2>3. \A f \in Files \ {"intent"} : fs'[f].owner = NoProc
    BY <1>2, <2>1, <2>2
  <2>4. parsed = {}
    <3> SUFFICES ASSUME NEW q \in parsed
                 PROVE  FALSE
      OBVIOUS
    <3>1. fs["guard"] = WholeBy(q) /\ q \in Proc
      BY DEF RecordsInv, ParsedUnderGuard, TypeOK
    <3>2. fs["guard"].owner = q
      BY <3>1
    <3>3. QED
      BY <2>2, <3>1, <3>2, NoProcAssumption
  <2>5. QED
    BY <1>3, <1>4, <2>1, <2>3, <2>4
    DEF RecordsInv, ParsedUnderGuard, OutputsBelongToTheConsumer,
        OutcomesExclude, ReceiptCoversAnOutcome, ResultRestsOnApprovedDocuments
<1>7. CASE pc[p] = "write_guard"
  <2>1. t = "guard" /\ fs["intent"] = WholeBy(p)
    BY <1>7 DEF WriteTarget, StageOwnership
  <2>2. \A f \in Outcomes : fs[f].owner = NoProc
    <3> SUFFICES ASSUME NEW f \in Outcomes, fs[f].owner # NoProc
                 PROVE  FALSE
      OBVIOUS
    <3>1. fs["intent"] = WholeBy(fs[f].owner)
      BY <1>5 DEF Outcomes
    <3>2. fs[f].owner = p
      BY <2>1, <3>1
    <3>3. fs[f].owner # p
      BY <1>7 DEF StageOwnership
    <3>4. QED
      BY <3>2, <3>3
  <2>3. \A f \in Outcomes : fs'[f].owner = NoProc
    BY <1>2, <2>1, <2>2 DEF Outcomes
  <2>4. fs'["intent"] = WholeBy(p)
    BY <1>2, <2>1
  <2>5. ParsedUnderGuard'
    <3>1. ASSUME NEW q \in parsed PROVE fs'["guard"] = WholeBy(q)
      <4>1. fs["guard"] = WholeBy(q) /\ q \in Proc
        BY DEF RecordsInv, ParsedUnderGuard, TypeOK
      <4>2. fs["guard"].owner = q
        BY <4>1
      <4>3. q = p /\ w
        BY <2>1, <4>1, <4>2, NoProcAssumption
      <4>4. QED
        BY <1>3, <2>1, <4>3
    <3>2. QED
      BY <3>1 DEF ParsedUnderGuard
  <2>6. OutputsBelongToTheConsumer'
    <3>1. \A f \in Files : fs'[f].owner # NoProc =>
            fs'[f].owner = p /\ f \in {"intent", "guard"}
      BY <1>3, <2>1, <2>3, <2>4 DEF Outcomes
    <3>2. fs'["intent"].owner = p
      BY <2>4
    <3>3. QED
      BY <2>4, <3>1, <3>2 DEF OutputsBelongToTheConsumer
  <2>7. OutcomesExclude' /\ ReceiptCoversAnOutcome'
                         /\ ResultRestsOnApprovedDocuments'
    BY <2>3 DEF Outcomes, OutcomesExclude, ReceiptCoversAnOutcome,
                ResultRestsOnApprovedDocuments
  <2>8. QED
    BY <2>5, <2>6, <2>7 DEF RecordsInv
<1>8. CASE pc[p] \in WriteStages \ ConsumingStages
  <2>1. fs["intent"] = WholeBy(p) /\ fs["guard"] = WholeBy(p)
    BY <1>8 DEF StageOwnership, AfterGuard
  <2>2. t \in Outcomes
    BY <1>8 DEF WriteTarget, WriteStages, ConsumingStages, Outcomes
  <2>3. fs'["intent"] = WholeBy(p) /\ fs'["guard"] = WholeBy(p)
    BY <1>2, <2>1, <2>2 DEF Outcomes
  <2>4. \A f \in Outcomes : fs[f].owner # NoProc => fs[f].owner = p
    <3> SUFFICES ASSUME NEW f \in Outcomes, fs[f].owner # NoProc
                 PROVE  fs[f].owner = p
      OBVIOUS
    <3>1. fs["guard"] = WholeBy(fs[f].owner)
      BY <1>5 DEF Outcomes
    <3>2. QED
      BY <2>1, <3>1
  <2>5. OutputsBelongToTheConsumer'
    <3>1. \A f \in Outcomes : fs'[f].owner # NoProc => fs'[f].owner = p
      BY <1>2, <1>3, <2>4 DEF Outcomes
    <3>2. fs'["intent"].owner = p /\ fs'["guard"].owner = p
      BY <2>3
    <3>3. \A f \in Files : fs'[f].owner # NoProc => fs'[f].owner = p
      BY <3>1, <3>2 DEF Outcomes
    <3>4. QED
      BY <2>3, <3>2, <3>3 DEF OutputsBelongToTheConsumer
  <2>6. ParsedUnderGuard'
    BY <2>1, <2>3 DEF RecordsInv, ParsedUnderGuard
  <2>7. CASE pc[p] = "write_result"
    <3>1. t = "result" /\ fs["failure"].owner = NoProc
                       /\ fs["receipt"].owner = NoProc
      BY <2>4, <2>7 DEF WriteTarget, StageOwnership, Outcomes
    <3>2. fs'["failure"].owner = NoProc /\ fs'["receipt"].owner = NoProc
      BY <1>2, <3>1
    <3>3. fs'["result"].owner = p
      BY <1>3, <3>1
    <3>4. p \in parsed /\ ContextApproved(p)
      BY <2>7 DEF StageOwnership
    <3>5. ResultRestsOnApprovedDocuments'
      BY <3>3, <3>4
      DEF ResultRestsOnApprovedDocuments, ContextApproved, RecordedDocs
    <3>6. QED
      BY <2>5, <2>6, <3>2, <3>5
      DEF RecordsInv, OutcomesExclude, ReceiptCoversAnOutcome
  <2>8. CASE pc[p] = "write_failure"
    <3>1. t = "failure" /\ fs["result"].owner = NoProc
                        /\ fs["receipt"].owner = NoProc
      BY <2>4, <2>8 DEF WriteTarget, StageOwnership, Outcomes
    <3>2. fs'["result"].owner = NoProc /\ fs'["receipt"].owner = NoProc
      BY <1>2, <3>1
    <3>3. QED
      BY <2>5, <2>6, <3>2
      DEF RecordsInv, OutcomesExclude, ReceiptCoversAnOutcome,
          ResultRestsOnApprovedDocuments
  <2>9. CASE pc[p] \in {"write_receipt", "write_failure_receipt"}
    <3>1. t = "receipt"
      BY <2>9 DEF WriteTarget
    <3>2. fs'["result"] = fs["result"] /\ fs'["failure"] = fs["failure"]
      BY <1>2, <3>1
    <3>3. fs'["receipt"].owner = p
      BY <1>3, <3>1
    <3>4. fs["result"] = WholeBy(p) \/ fs["failure"] = WholeBy(p)
      BY <2>9 DEF StageOwnership
    <3>5. ReceiptCoversAnOutcome'
      BY <3>2, <3>3, <3>4 DEF ReceiptCoversAnOutcome
    <3>6. OutcomesExclude' /\ ResultRestsOnApprovedDocuments'
      BY <3>2
      DEF RecordsInv, OutcomesExclude, ResultRestsOnApprovedDocuments,
          RecordedDocs
    <3>7. QED
      BY <2>5, <2>6, <3>5, <3>6 DEF RecordsInv
  <2>10. QED
    BY <1>8, <2>7, <2>8, <2>9 DEF WriteStages, ConsumingStages
<1>9. QED
  BY <1>6, <1>7, <1>8 DEF WriteStages, ConsumingStages
\* A write that also moves its author preserves the invariant as soon as the
\* author's stage invariant holds afterwards.
LEMMA WriteMove ==
  ASSUME TypeOK, ConsumptionInv, NEW p \in Proc, NEW s,
         pc[p] \in WriteStages, NEW w \in BOOLEAN,
         LET t == WriteTarget[pc[p]] IN
           /\ fs[t].owner = NoProc \/ (fs[t].owner = p /\ w)
           /\ fs' = [fs EXCEPT ![t] = [owner |-> p, whole |-> w]],
         UNCHANGED <<ctx, parsed>>, pc' = [pc EXCEPT ![p] = s],
         StageOwnership(p)'
  PROVE  ConsumptionInv'
<1>1. WriteTarget[pc[p]] \in Files
  BY WriteTables
<1>2. ASSUME NEW q \in Proc PROVE StageOwnership(q)'
  <2>1. CASE q = p
    BY <2>1
  <2>2. CASE q # p
    <3>1. pc'[q] = pc[q]
      BY <2>2 DEF TypeOK
    <3>2. QED
      BY <1>1, <2>2, <3>1, WriteFrame DEF ConsumptionInv
  <2>3. QED
    BY <2>1, <2>2
<1>3. RecordsInv /\ StageOwnership(p)
  BY DEF ConsumptionInv, RecordsInv
<1>4. RecordsInv'
  BY <1>3, WriteRecords
<1>5. QED
  BY <1>2, <1>4 DEF ConsumptionInv, RecordsInv

\* Creating a file: the author does not move.
LEMMA OpenNewMove ==
  ASSUME TypeOK, ConsumptionInv, NEW p \in Proc, OpenNew(p)
  PROVE  ConsumptionInv'
<1> DEFINE t == WriteTarget[pc[p]]
<1>1. t \in Files /\ pc[p] \in WriteStages /\ fs[t].owner = NoProc
  BY WriteTables DEF OpenNew, Present
<1>2. fs' = [fs EXCEPT ![t] = [owner |-> p, whole |-> FALSE]]
  BY DEF OpenNew
<1>3. UNCHANGED <<pc, ctx, parsed>>
  BY DEF OpenNew, procVars
<1>4. pc' = [pc EXCEPT ![p] = pc[p]]
  BY <1>3 DEF TypeOK
<1>5. \A f \in Files : f # t => fs'[f] = fs[f]
  BY <1>1, <1>2 DEF TypeOK
<1>6. fs'[t] = [owner |-> p, whole |-> FALSE]
  BY <1>1, <1>2 DEF TypeOK
<1>7. StageOwnership(p)
  BY DEF ConsumptionInv
<1>8. StageOwnership(p)'
  <2> USE DEF StageOwnership, BeforeIntent, AfterGuard, Analysing, WriteStages,
              ConsumingStages, Files, Outcomes, ContextApproved, RecordedDocs
  <2>1. CASE pc[p] = "write_intent"
    BY <1>3, <1>5, <1>6, <1>7, <2>1 DEF WriteTarget, WholeBy
  <2>2. CASE pc[p] = "write_guard"
    BY <1>3, <1>5, <1>6, <1>7, <2>2 DEF WriteTarget
  <2>3. CASE pc[p] = "write_result"
    BY <1>3, <1>5, <1>6, <1>7, <2>3 DEF WriteTarget
  <2>4. CASE pc[p] = "write_receipt"
    BY <1>3, <1>5, <1>6, <1>7, <2>4 DEF WriteTarget
  <2>5. CASE pc[p] = "write_failure"
    BY <1>3, <1>5, <1>6, <1>7, <2>5 DEF WriteTarget
  <2>6. CASE pc[p] = "write_failure_receipt"
    BY <1>3, <1>5, <1>6, <1>7, <2>6 DEF WriteTarget
  <2>7. QED
    BY <1>1, <2>1, <2>2, <2>3, <2>4, <2>5, <2>6
<1>9. QED
  BY <1>1, <1>2, <1>3, <1>4, <1>8, WriteMove

\* Completing a file: the author moves on.
LEMMA FillNewMove ==
  ASSUME TypeOK, ConsumptionInv, NEW p \in Proc, FillNew(p)
  PROVE  ConsumptionInv'
<1> DEFINE t == WriteTarget[pc[p]]
<1> DEFINE s == AfterWrite[pc[p]]
<1>1. t \in Files /\ pc[p] \in WriteStages /\ fs[t].owner = p
  BY WriteTables DEF FillNew
<1>2. fs' = [fs EXCEPT ![t] = [owner |-> p, whole |-> TRUE]]
  BY DEF FillNew, WholeBy
<1>3. pc' = [pc EXCEPT ![p] = s] /\ UNCHANGED <<ctx, parsed>>
  BY DEF FillNew, procVars
<1>4. pc'[p] = s
  BY <1>3 DEF TypeOK
<1>5. \A f \in Files : f # t => fs'[f] = fs[f]
  BY <1>1, <1>2 DEF TypeOK
<1>6. fs'[t] = WholeBy(p)
  BY <1>1, <1>2 DEF TypeOK, WholeBy
<1>7. StageOwnership(p)
  BY DEF ConsumptionInv
<1>8. StageOwnership(p)'
  <2> USE DEF StageOwnership, BeforeIntent, AfterGuard, Analysing, WriteStages,
              ConsumingStages, Files, Outcomes, ContextApproved, RecordedDocs,
              WriteTarget, AfterWrite
  <2>1. CASE pc[p] = "write_intent"
    BY <1>3, <1>4, <1>5, <1>6, <1>7, <2>1
  <2>2. CASE pc[p] = "write_guard"
    BY <1>3, <1>4, <1>5, <1>6, <1>7, <2>2
  <2>3. CASE pc[p] = "write_result"
    BY <1>3, <1>4, <1>5, <1>6, <1>7, <2>3
  <2>4. CASE pc[p] = "write_receipt"
    BY <1>3, <1>4, <1>5, <1>6, <1>7, <2>4
  <2>5. CASE pc[p] = "write_failure"
    BY <1>3, <1>4, <1>5, <1>6, <1>7, <2>5
  <2>6. CASE pc[p] = "write_failure_receipt"
    BY <1>3, <1>4, <1>5, <1>6, <1>7, <2>6
  <2>7. QED
    BY <1>1, <2>1, <2>2, <2>3, <2>4, <2>5, <2>6
<1>9. QED
  BY <1>1, <1>2, <1>3, <1>8, WriteMove

\* A failed write: whatever it left on disk, its author ends.
LEMMA WriteErrorMove ==
  ASSUME TypeOK, ConsumptionInv, NEW p \in Proc, WriteError(p)
  PROVE  ConsumptionInv'
<1> DEFINE t == WriteTarget[pc[p]]
<1>1. PICK s \in {"raised", "torn"} : pc' = [pc EXCEPT ![p] = s]
  BY DEF WriteError
<1>2. pc'[p] = s /\ pc[p] \in WriteStages /\ UNCHANGED <<ctx, parsed>>
  BY <1>1 DEF WriteError, TypeOK, procVars
<1>3. StageOwnership(p)'
  BY <1>2 DEF StageOwnership, BeforeIntent, AfterGuard, Analysing, WriteStages,
              ConsumingStages
<1>4. CASE UNCHANGED fs
  BY <1>1, <1>2, <1>3, <1>4, PureMove
<1>5. CASE fs[t].owner = p /\ fs' = [fs EXCEPT ![t] = WholeBy(p)]
  BY <1>1, <1>2, <1>3, <1>5, WriteMove DEF WholeBy
<1>6. QED
  BY <1>4, <1>5 DEF WriteError

\* The inductive invariant is preserved by every step but a power loss.
LEMMA ConsumptionStep ==
  ASSUME "power" \notin Faults
  PROVE  TypeOK /\ ConsumptionInv /\ [Next]_vars => ConsumptionInv'
<1> SUFFICES ASSUME TypeOK, ConsumptionInv, [Next]_vars
             PROVE  ConsumptionInv'
  OBVIOUS
<1> USE DEF ConsumptionInv, StageOwnership, ParsedUnderGuard,
            OutputsBelongToTheConsumer, OutcomesExclude, ReceiptCoversAnOutcome,
            ResultRestsOnApprovedDocuments, Present, ContextApproved,
            RecordedDocs
<1>1. ASSUME NEW d \in Volatile, NEW c \in Content, Drift(d, c)
      PROVE  ConsumptionInv'
  BY <1>1 DEF Drift, fileVars, procVars
<1>2. CASE UNCHANGED vars
  BY <1>2 DEF vars
<1>3. ASSUME NEW p \in Proc, Launch(p) \/ Advance(p) \/ WriteError(p) \/ Crash(p)
      PROVE  ConsumptionInv'
  BY <1>3, EarlyMoves, CheckMoves, CrashMove, OpenExistingMove,
     BuildContextMove, ReadRoleMove, OpenNewMove, FillNewMove, WriteErrorMove
  DEF Advance
<1>4. QED
  BY <1>1, <1>2, <1>3 DEF Next, Environment, FlushDirectory, PowerLoss

LEMMA ConsumptionInit == Init => ConsumptionInv
<1> SUFFICES ASSUME Init PROVE ConsumptionInv
  OBVIOUS
<1>1. \A f \in Files : fs[f].owner = NoProc
  BY DEF Init, Absent
<1>2. \A p \in Proc : pc[p] = "idle" /\ p # NoProc
  BY NoProcAssumption DEF Init
<1>3. parsed = {}
  BY DEF Init
<1>4. QED
  BY <1>1, <1>2, <1>3
  DEF ConsumptionInv, StageOwnership, ParsedUnderGuard,
      OutputsBelongToTheConsumer, OutcomesExclude, ReceiptCoversAnOutcome,
      ResultRestsOnApprovedDocuments, Present, Files, BeforeIntent, AfterGuard,
      Analysing, WriteStages, ConsumingStages

-----------------------------------------------------------------------------
(* The theorems.                                                           *)

\* While no power is lost, the inductive invariant holds in every state: it
\* contains the ownership of the outputs, the exclusion of outcomes, what a
\* receipt covers and what a result rests on.
THEOREM ConsumptionIsInvariant ==
  ASSUME "power" \notin Faults
  PROVE  Spec => []ConsumptionInv
BY TypeCorrect, ConsumptionInit, ConsumptionStep, PTL DEF Spec

\* The held-out role is evaluated at most once, by any number of concurrent,
\* crashing and restarted invocations.
THEOREM AnalysisIsSingleUse ==
  ASSUME "power" \notin Faults
  PROVE  Spec => []AnalysedAtMostOnce
<1>1. ConsumptionInv => AnalysedAtMostOnce
  <2> SUFFICES ASSUME ConsumptionInv, NEW p \in parsed, NEW q \in parsed
               PROVE  p = q
    BY DEF AnalysedAtMostOnce
  <2>1. fs["guard"] = WholeBy(p) /\ fs["guard"] = WholeBy(q)
    BY DEF ConsumptionInv, ParsedUnderGuard
  <2>2. QED
    BY <2>1 DEF WholeBy
<1>2. QED
  BY <1>1, ConsumptionIsInvariant, PTL

\* Every output belongs to the invocation whose intent consumed the approval.
THEOREM OutputsHaveOneOwner ==
  ASSUME "power" \notin Faults
  PROVE  Spec => []OutputsBelongToTheConsumer
<1>1. ConsumptionInv => OutputsBelongToTheConsumer
  BY DEF ConsumptionInv
<1>2. QED
  BY <1>1, ConsumptionIsInvariant, PTL

\* A result and a failure record never coexist.
THEOREM OutcomesAreExclusive ==
  ASSUME "power" \notin Faults
  PROVE  Spec => []OutcomesExclude
<1>1. ConsumptionInv => OutcomesExclude
  BY DEF ConsumptionInv
<1>2. QED
  BY <1>1, ConsumptionIsInvariant, PTL

\* A receipt covers a whole outcome of its own run.
THEOREM ReceiptsCoverOutcomes ==
  ASSUME "power" \notin Faults
  PROVE  Spec => []ReceiptCoversAnOutcome
<1>1. ConsumptionInv => ReceiptCoversAnOutcome
  BY DEF ConsumptionInv
<1>2. QED
  BY <1>1, ConsumptionIsInvariant, PTL

\* A result rests on the role and on the documents that were approved.
THEOREM ResultsRestOnApprovals ==
  ASSUME "power" \notin Faults
  PROVE  Spec => []ResultRestsOnApprovedDocuments
<1>1. ConsumptionInv => ResultRestsOnApprovedDocuments
  BY DEF ConsumptionInv
<1>2. QED
  BY <1>1, ConsumptionIsInvariant, PTL

\* How a run ended tells which records it left, and a run that was refused or
\* found the approval consumed left none.
THEOREM EndingsAreAccountedFor ==
  ASSUME "power" \notin Faults
  PROVE  Spec => []EndTellsRecords
<1>1. ConsumptionInv => EndTellsRecords
  <2> SUFFICES ASSUME ConsumptionInv, NEW p \in Proc
               PROVE  /\ pc[p] = "completed" =>
                           fs["result"] = WholeBy(p) /\ fs["receipt"] = WholeBy(p)
                      /\ pc[p] = "failed" =>
                           fs["failure"] = WholeBy(p) /\ fs["receipt"] = WholeBy(p)
                      /\ pc[p] \in {"refused", "consumed"} =>
                           \A f \in Files : fs[f].owner # p
                      /\ pc[p] = "escaped" => \A f \in Files :
                           fs[f] = WholeBy(p) <=> f \in {"intent", "guard"}
    BY DEF EndTellsRecords
  <2>1. StageOwnership(p)
    BY DEF ConsumptionInv
  <2>2. CASE pc[p] = "escaped"
    <3>1. fs["intent"] = WholeBy(p) /\ fs["guard"] = WholeBy(p)
      BY <2>1, <2>2 DEF StageOwnership
    <3>2. \A f \in Outcomes : fs[f] # WholeBy(p)
      BY <2>1, <2>2 DEF StageOwnership, WholeBy
    <3>3. QED
      BY <2>2, <3>1, <3>2 DEF Files, Outcomes
  <2>3. CASE pc[p] # "escaped"
    BY <2>1, <2>3 DEF StageOwnership
  <2>4. QED
    BY <2>2, <2>3
<1>2. QED
  BY <1>1, ConsumptionIsInvariant, PTL

-----------------------------------------------------------------------------
(* Outputs are final, while no power is lost.                              *)

AbsentIsEmpty == \A f \in Files : Present(f) \/ ~fs[f].whole

Keeps(f) ==
  /\ Present(f) => fs'[f].owner = fs[f].owner
  /\ fs[f].whole => fs'[f] = fs[f]

Writes(p, g) ==
  \E whole \in BOOLEAN :
    /\ fs' = [fs EXCEPT ![g] = [owner |-> p, whole |-> whole]]
    /\ \/ ~Present(g)
       \/ fs[g].owner = p /\ whole = TRUE

\* The one file a write touches was not there, or was the writer's own.
LEMMA WriteKeeps ==
  ASSUME TypeOK, AbsentIsEmpty, NEW p \in Proc, NEW g \in Files, Writes(p, g)
  PROVE  AbsentIsEmpty' /\ \A f \in Files : Keeps(f)
<1>1. fs \in [Files -> FileState]
  BY DEF TypeOK
<1>2. PICK whole \in BOOLEAN :
        /\ fs' = [fs EXCEPT ![g] = [owner |-> p, whole |-> whole]]
        /\ \/ ~Present(g)
           \/ fs[g].owner = p /\ whole = TRUE
  BY DEF Writes
<1>3. \A f \in Files : f # g => fs'[f] = fs[f]
  BY <1>1, <1>2
<1>4. fs'[g] = [owner |-> p, whole |-> whole]
  BY <1>1, <1>2
<1>5. p # NoProc
  BY NoProcAssumption
<1>6. Present(g) => fs'[g].owner = fs[g].owner
  BY <1>2, <1>4
<1>7. fs[g].whole => fs'[g] = fs[g]
  <2>1. SUFFICES ASSUME fs[g].whole PROVE fs'[g] = fs[g]
    OBVIOUS
  <2>2. fs[g].owner = p /\ whole = TRUE
    BY <1>2, <2>1 DEF AbsentIsEmpty
  <2>3. fs[g] = [owner |-> fs[g].owner, whole |-> fs[g].whole]
    BY <1>1 DEF FileState
  <2>4. fs[g].whole = TRUE
    BY <1>1, <2>1 DEF FileState
  <2>5. QED BY <1>4, <2>2, <2>3, <2>4
<1>8. AbsentIsEmpty'
  BY <1>3, <1>4, <1>5 DEF AbsentIsEmpty, Present
<1>9. QED BY <1>3, <1>6, <1>7, <1>8 DEF Keeps

\* A step writes one file or none.
LEMMA StepsWriteOnce ==
  ASSUME "power" \notin Faults, TypeOK, Next
  PROVE  UNCHANGED fs \/ \E p \in Proc, g \in Files : Writes(p, g)
<1>1. ASSUME NEW p \in Proc, OpenNew(p) \/ FillNew(p) \/ WriteError(p)
      PROVE  UNCHANGED fs \/ \E g \in Files : Writes(p, g)
  <2> DEFINE g == WriteTarget[pc[p]]
  <2>1. g \in Files
    BY <1>1, WriteTables DEF OpenNew, FillNew, WriteError
  <2> HIDE DEF g
  <2>2. CASE OpenNew(p)
    <3>1. fs' = [fs EXCEPT ![g] = [owner |-> p, whole |-> FALSE]] /\ ~Present(g)
      BY <2>2 DEF OpenNew, g
    <3>2. Writes(p, g)
      BY <3>1 DEF Writes
    <3>3. QED BY <2>1, <3>2
  <2>3. CASE UNCHANGED fs
    BY <2>3
  <2>4. CASE (FillNew(p) \/ WriteError(p)) /\ fs' # fs
    <3>1. fs' = [fs EXCEPT ![g] = [owner |-> p, whole |-> TRUE]] /\ fs[g].owner = p
      BY <2>4 DEF FillNew, WriteError, WholeBy, g
    <3>2. Writes(p, g)
      BY <3>1 DEF Writes
    <3>3. QED BY <2>1, <3>2
  <2>5. QED BY <1>1, <2>2, <2>3, <2>4
<1>2. ASSUME NEW p \in Proc,
             Launch(p) \/ Crash(p) \/ (Advance(p) /\ ~OpenNew(p) /\ ~FillNew(p))
      PROVE  UNCHANGED fs
  BY <1>2 DEF Launch, Crash, Advance, LoadAuthorization, VerifyBindings,
     PreexistingOutputCheck, BuildIntent, OpenExisting, BuildGuard, Recheck,
     BuildContext, RunnerGate, ReadInputs, ReadRole, RunEndpoints, BuildFailure, fileVars
<1>3. Environment => UNCHANGED fs
  BY DEF Environment, Drift, FlushDirectory, PowerLoss, fileVars
<1>4. QED BY <1>1, <1>2, <1>3 DEF Next

LEMMA AbsentStaysEmpty ==
  ASSUME "power" \notin Faults
  PROVE  TypeOK /\ AbsentIsEmpty /\ [Next]_vars =>
           AbsentIsEmpty' /\ [\A f \in Files : Keeps(f)]_fs
<1> SUFFICES ASSUME TypeOK, AbsentIsEmpty, [Next]_vars
             PROVE  AbsentIsEmpty' /\ [\A f \in Files : Keeps(f)]_fs
  OBVIOUS
<1>1. CASE UNCHANGED fs
  BY <1>1 DEF AbsentIsEmpty, Present
<1>2. CASE \E p \in Proc, g \in Files : Writes(p, g)
  BY <1>2, WriteKeeps
<1>3. QED BY <1>1, <1>2, StepsWriteOnce DEF vars

LEMMA CreatedOrEmpty ==
  ASSUME "power" \notin Faults
  PROVE  Spec => []AbsentIsEmpty
<1>1. Init => AbsentIsEmpty
  BY DEF Init, AbsentIsEmpty, Absent
<1>2. QED BY <1>1, AbsentStaysEmpty, TypeCorrect, PTL DEF Spec

\* An output that was created is never replaced, and a whole one is final, by
\* any number of concurrent, failing and crashing invocations.
THEOREM OutputsStayAsWritten ==
  ASSUME "power" \notin Faults
  PROVE  Spec => OutputsAreFinal
<1>1. TypeOK /\ AbsentIsEmpty /\ [Next]_vars =>
        [\A f \in Files :
           /\ Present(f) => fs'[f].owner = fs[f].owner
           /\ fs[f].whole => fs'[f] = fs[f]]_fs
  BY AbsentStaysEmpty DEF Keeps
<1>2. QED BY <1>1, TypeCorrect, CreatedOrEmpty, PTL DEF Spec, OutputsAreFinal

-----------------------------------------------------------------------------
(* The detailed specification implements the abstract one.                 *)

Holder == {fs["intent"].owner} \ {NoProc}

Recorded == CASE fs["result"].whole -> "result"
              [] fs["failure"].whole -> "failure"
              [] OTHER -> "none"

Sealed == fs["receipt"].whole

Abstract == <<Holder, parsed, Recorded, Sealed>>

\* A whole intent has one owner, and every whole file is its owner's.
LEMMA HolderOwnsAll ==
  ASSUME TypeOK, ConsumptionInv, AbsentIsEmpty, NEW p \in Proc, fs["intent"] = WholeBy(p)
  PROVE  /\ Holder = {p} /\ parsed \subseteq {p}
         /\ \A f \in Files : fs[f].whole => fs[f].owner = p
<1>1. fs["intent"].owner = p /\ p # NoProc
  BY NoProcAssumption DEF WholeBy
<1>2. \A f \in Files : Present(f) => fs[f].owner = p
  BY <1>1 DEF ConsumptionInv, OutputsBelongToTheConsumer
<1>3. \A f \in Files : fs[f].whole => fs[f].owner = p
  BY <1>2 DEF AbsentIsEmpty
<1>4. parsed \subseteq {p}
  <2>1. SUFFICES ASSUME NEW q \in parsed PROVE q = p
    OBVIOUS
  <2>2. fs["guard"].owner = q /\ fs["guard"].whole
    <3>1. fs["guard"] = WholeBy(q)
      BY DEF ConsumptionInv, ParsedUnderGuard
    <3>2. QED BY <3>1 DEF WholeBy
  <2>3. QED BY <1>3, <2>2 DEF Files
<1>5. QED BY <1>1, <1>3, <1>4 DEF Holder

LEMMA ReadRoleImplements ==
  ASSUME TypeOK, ConsumptionInv, AbsentIsEmpty, NEW p \in Proc, ReadRole(p)
  PROVE  UNCHANGED Abstract \/ OneTime!Analyse(p)
<1>1. /\ pc[p] = "read_role" /\ UNCHANGED fs
      /\ parsed' = parsed \/ parsed' = parsed \cup {p}
  BY DEF ReadRole, Goto, fileVars
<1>2. fs["intent"] = WholeBy(p) /\ \A f \in Outcomes : fs[f].owner # p
  BY <1>1 DEF ConsumptionInv, StageOwnership, AfterGuard, Analysing
<1>3. /\ Holder = {p} /\ parsed \subseteq {p}
      /\ ~fs["result"].whole /\ ~fs["failure"].whole
  BY <1>2, HolderOwnsAll DEF Files, Outcomes
<1>4. Holder' = Holder /\ Recorded' = Recorded /\ Sealed' = Sealed
  BY <1>1 DEF Holder, Recorded, Sealed
<1>5. Recorded = "none"
  BY <1>3 DEF Recorded
<1>6. CASE parsed' = parsed
  BY <1>4, <1>6 DEF Abstract
<1>7. CASE parsed' # parsed
  <2>1. parsed = {} /\ parsed' = {p}
    BY <1>1, <1>3, <1>7
  <2>2. QED BY <1>3, <1>4, <1>5, <2>1
        DEF OneTime!Analyse, Holder, Recorded, Sealed
<1>8. QED BY <1>6, <1>7

LEMMA OpenImplements ==
  ASSUME TypeOK, ConsumptionInv, AbsentIsEmpty, NEW p \in Proc, OpenNew(p)
  PROVE  UNCHANGED Abstract \/ OneTime!Consume(p)
<1> DEFINE g == WriteTarget[pc[p]]
<1>1. g \in Files /\ pc[p] \in WriteStages
  BY WriteTables DEF OpenNew
<1>2. /\ fs' = [fs EXCEPT ![g] = [owner |-> p, whole |-> FALSE]] /\ fs[g].owner = NoProc
      /\ UNCHANGED parsed
  BY DEF OpenNew, Present, procVars
<1> HIDE DEF g
<1>3. /\ \A f \in Files : f # g => fs'[f] = fs[f]
      /\ fs'[g].owner = p /\ fs'[g].whole = fs[g].whole
  <2>1. /\ \A f \in Files : f # g => fs'[f] = fs[f]
        /\ fs'[g] = [owner |-> p, whole |-> FALSE]
    BY <1>1, <1>2 DEF TypeOK
  <2>2. fs[g].whole \in BOOLEAN
    BY <1>1 DEF TypeOK, FileState
  <2>3. ~fs[g].whole
    BY <1>1, <1>2 DEF AbsentIsEmpty, Present
  <2>4. fs[g].whole = FALSE
    BY <2>2, <2>3
  <2>5. fs'[g].owner = p /\ fs'[g].whole = FALSE
    BY <2>1
  <2>6. QED BY <2>1, <2>4, <2>5
<1>4. Recorded' = Recorded /\ Sealed' = Sealed
  <2>1. \A f \in Files : fs'[f].whole = fs[f].whole
    BY <1>3
  <2>2. QED BY <2>1 DEF Recorded, Sealed, Files
<1>5. CASE g = "intent"
  <2>1. Holder = {} /\ Holder' = {p}
    BY <1>2, <1>3, <1>5, NoProcAssumption DEF Holder
  <2>2. QED BY <1>2, <1>4, <2>1 DEF OneTime!Consume, Holder, Recorded, Sealed
<1>6. CASE g # "intent"
  BY <1>2, <1>3, <1>4, <1>6 DEF Abstract, Holder, Files
<1>7. QED BY <1>5, <1>6

LEMMA FillImplements ==
  ASSUME TypeOK, ConsumptionInv, AbsentIsEmpty, NEW p \in Proc, FillNew(p) \/ WriteError(p)
  PROVE  \/ UNCHANGED Abstract
         \/ \E o \in {"result", "failure"} : OneTime!RecordOutcome(o)
         \/ OneTime!Seal
<1> DEFINE g == WriteTarget[pc[p]]
<1>1. g \in Files /\ pc[p] \in WriteStages /\ UNCHANGED parsed /\ StageOwnership(p)
  BY WriteTables DEF FillNew, WriteError, procVars, ConsumptionInv
<1>2. CASE UNCHANGED fs
  BY <1>1, <1>2 DEF Abstract, Holder, Recorded, Sealed
<1>3. CASE fs' # fs
  <2>1. fs' = [fs EXCEPT ![g] = WholeBy(p)] /\ fs[g].owner = p
    BY <1>3 DEF FillNew, WriteError
  <2>2. /\ \A f \in Files : f # g => fs'[f] = fs[f]
        /\ fs'[g].owner = p /\ fs'[g].whole = TRUE
    BY <1>1, <2>1 DEF TypeOK, WholeBy
  <2>3. fs[g].whole = FALSE
    <3>1. fs[g] \in FileState
      BY <1>1 DEF TypeOK
    <3>2. CASE fs[g].whole
      <4>1. fs[g].whole = TRUE
        BY <3>1, <3>2 DEF FileState
      <4>2. fs[g] = [owner |-> fs[g].owner, whole |-> fs[g].whole]
        BY <3>1 DEF FileState
      <4>3. fs[g] = WholeBy(p)
        BY <2>1, <4>1, <4>2 DEF WholeBy
      <4>4. fs' = fs
        BY <1>1, <2>1, <4>3 DEF TypeOK
      <4>5. QED BY <1>3, <4>4
    <3>3. QED BY <3>1, <3>2 DEF FileState
  <2>4. Holder' = Holder
    BY <2>1, <2>2 DEF Holder, Files
  <2>5. CASE g \in {"intent", "guard"}
    BY <1>1, <2>2, <2>4, <2>5 DEF Abstract, Recorded, Sealed, Files
  <2>6. CASE g \notin {"intent", "guard"}
    <3>1. pc[p] \in {"write_result", "write_failure", "write_receipt",
                     "write_failure_receipt"}
      BY <1>1, <2>6 DEF WriteStages, WriteTarget
    <3>2. fs["intent"] = WholeBy(p)
      BY <1>1, <3>1 DEF StageOwnership, AfterGuard, WriteStages, ConsumingStages
    <3>3. Holder = {p} /\ parsed \subseteq {p}
      BY <3>2, HolderOwnsAll
    <3>4. g \in {"result", "failure", "receipt"}
      BY <1>1, <2>6 DEF Files
    <3>5. CASE g = "result"
      <4>1. ~fs["failure"].whole
        BY <2>1, <3>5, NoProcAssumption
        DEF AbsentIsEmpty, ConsumptionInv, OutcomesExclude, Present, Files
      <4>2. Recorded = "none" /\ Recorded' = "result" /\ Sealed' = Sealed
        BY <2>2, <2>3, <3>5, <4>1 DEF Recorded, Sealed, Files
      <4>3. p \in parsed
        BY <1>1, <3>1, <3>5 DEF StageOwnership, WriteTarget
      <4>4. OneTime!RecordOutcome("result")
        BY <1>1, <2>4, <3>3, <4>2, <4>3 DEF OneTime!RecordOutcome, Holder, Recorded, Sealed
      <4>5. QED BY <4>4
    <3>6. CASE g = "failure"
      <4>1. ~fs["result"].whole
        BY <2>1, <3>6, NoProcAssumption
        DEF AbsentIsEmpty, ConsumptionInv, OutcomesExclude, Present, Files
      <4>2. ~fs'["result"].whole
        BY <2>2, <3>6, <4>1 DEF Files
      <4>3. Recorded = "none" /\ Recorded' = "failure" /\ Sealed' = Sealed
        BY <2>2, <2>3, <3>6, <4>1, <4>2 DEF Recorded, Sealed, Files
      <4>4. OneTime!RecordOutcome("failure")
        BY <1>1, <2>4, <3>3, <4>3 DEF OneTime!RecordOutcome, Holder, Recorded, Sealed
      <4>5. QED BY <4>4
    <3>7. CASE g = "receipt"
      <4>1. Present("receipt")
        BY <2>1, <3>7, NoProcAssumption DEF Present
      <4>2. PICK f \in {"result", "failure"} : fs[f] = WholeBy(fs["receipt"].owner)
        BY <4>1 DEF ConsumptionInv, ReceiptCoversAnOutcome
      <4>3. fs[f].whole
        BY <4>2 DEF WholeBy
      <4>4. Recorded # "none"
        BY <4>2, <4>3 DEF Recorded
      <4>5. Recorded' = Recorded /\ Sealed = FALSE /\ Sealed' = TRUE
        BY <2>2, <2>3, <3>7 DEF Recorded, Sealed, Files
      <4>6. OneTime!Seal
        BY <1>1, <2>4, <4>4, <4>5 DEF OneTime!Seal, Holder, Recorded, Sealed
      <4>7. QED BY <4>6
    <3>8. QED BY <3>4, <3>5, <3>6, <3>7
  <2>7. QED BY <2>5, <2>6
<1>4. QED BY <1>2, <1>3

LEMMA StepImplements ==
  ASSUME "power" \notin Faults, TypeOK, ConsumptionInv, AbsentIsEmpty, [Next]_vars
  PROVE  OneTime!OneTimeNext \/ UNCHANGED Abstract
<1>1. CASE UNCHANGED <<fs, parsed>>
  BY <1>1 DEF Abstract, Holder, Recorded, Sealed
<1>2. ASSUME NEW p \in Proc,
             OpenNew(p) \/ FillNew(p) \/ WriteError(p) \/ ReadRole(p)
      PROVE  OneTime!OneTimeNext \/ UNCHANGED Abstract
  BY <1>2, OpenImplements, FillImplements, ReadRoleImplements DEF OneTime!OneTimeNext
<1>3. ASSUME NEW p \in Proc,
             \/ Launch(p) \/ Crash(p)
             \/ Advance(p) /\ ~OpenNew(p) /\ ~FillNew(p) /\ ~ReadRole(p)
      PROVE  UNCHANGED <<fs, parsed>>
  BY <1>3 DEF Launch, Crash, Advance, LoadAuthorization, VerifyBindings,
     PreexistingOutputCheck, BuildIntent, OpenExisting, BuildGuard, Recheck,
     BuildContext, RunnerGate, ReadInputs, RunEndpoints, BuildFailure, fileVars, procVars
<1>4. Environment \/ UNCHANGED vars => UNCHANGED <<fs, parsed>>
  BY DEF Environment, Drift, FlushDirectory, PowerLoss, fileVars, procVars, vars
<1>5. QED BY <1>1, <1>2, <1>3, <1>4 DEF Next

\* While no power is lost, one approval is consumed once, its role is evaluated
\* once, and it ends with one outcome under one receipt, whatever the number of
\* invocations and however they fail.
THEOREM ExecutionIsOneTime ==
  ASSUME "power" \notin Faults
  PROVE  Spec => ImplementsOneTimeUse
<1>1. Init => OneTime!OneTimeInit
  BY DEF Init, Absent, OneTime!OneTimeInit, Files
<1>2. TypeOK /\ ConsumptionInv /\ AbsentIsEmpty /\ [Next]_vars =>
        [OneTime!OneTimeNext]_(OneTime!oneTimeVars)
  BY StepImplements DEF OneTime!oneTimeVars, Abstract, Holder, Recorded, Sealed
<1>3. QED BY <1>1, <1>2, TypeCorrect, ConsumptionIsInvariant, CreatedOrEmpty, PTL
      DEF Spec, ImplementsOneTimeUse, OneTime!OneTimeSpec

-----------------------------------------------------------------------------
(* Nothing fails by itself.                                                *)

Undisturbed == drifts = 0 /\ Faults \cap {"io", "analysis"} = {}

\* What the rechecks of a run compare, while nobody disturbs it.
CalmRun(p) ==
  /\ pc[p] \notin {"build_failure", "write_failure", "write_failure_receipt",
                   "failed", "torn", "escaped"}
  /\ pc[p] \in {"write_intent", "build_guard", "write_guard", "recheck"} =>
       noted[p] = "approved"
  /\ pc[p] = "runner_gate" => ctx[p]["approval"] = "approved"

Calm ==
  Undisturbed => /\ \A d \in Docs : docs[d] = "approved"
                 /\ \A p \in Proc : CalmRun(p)

\* A step of one run leaves the others calm.
LEMMA OthersStayCalm ==
  ASSUME TypeOK, NEW p \in Proc, NEW q \in Proc, q # p, CalmRun(q),
         Launch(p) \/ Advance(p) \/ WriteError(p) \/ Crash(p)
  PROVE  CalmRun(q)'
<1>1. pc'[q] = pc[q] /\ noted'[q] = noted[q] /\ ctx'[q] = ctx[q]
  BY DEF TypeOK, Launch, Crash, Advance, WriteError, OpenNew, FillNew, LoadAuthorization,
     VerifyBindings, PreexistingOutputCheck, BuildIntent, OpenExisting, BuildGuard, Recheck,
     BuildContext, RunnerGate, ReadInputs, ReadRole, RunEndpoints, BuildFailure,
     Goto, Check, fileVars, procVars
<1>2. QED BY <1>1 DEF CalmRun

\* Until a run writes an outcome there is none.
LEMMA NoOutcomeYet ==
  ASSUME ConsumptionInv, NEW p \in Proc, StageOwnership(p), fs["intent"] = WholeBy(p),
         NEW f \in Files, fs[f].owner # p
  PROVE  ~Present(f)
<1>1. fs["intent"].owner = p
  BY DEF WholeBy
<1>2. QED BY <1>1 DEF ConsumptionInv, OutputsBelongToTheConsumer

LEMMA ARunStaysCalm ==
  ASSUME TypeOK, ConsumptionInv, Undisturbed, \A d \in Docs : docs[d] = "approved",
         NEW p \in Proc, CalmRun(p),
         Launch(p) \/ Advance(p) \/ WriteError(p) \/ Crash(p)
  PROVE  CalmRun(p)'
<1> USE DEF CalmRun
<1>a. StageOwnership(p)
  BY DEF ConsumptionInv
<1>b. \A d \in IntentDocs \cup GuardDocs \cup ContextDocs \cup InputDocs \cup ComparedDocs
                \cup BundleDocs : d \in Docs /\ docs[d] # "missing" /\ docs[d] = "approved"
  BY DEF Docs, ContextDocs, IntentDocs, GuardDocs, InputDocs, ComparedDocs, BundleDocs
<1>c. {"approval", "runtime_environment", "locked_role"} \subseteq Docs /\ "approval" \in ContextDocs
  BY DEF Docs, ContextDocs, IntentDocs, GuardDocs
<1>1. CASE Launch(p) \/ Crash(p)
  BY <1>1 DEF TypeOK, Launch, Crash, Goto
<1>2. CASE LoadAuthorization(p) \/ VerifyBindings(p) \/ PreexistingOutputCheck(p)
  BY <1>2 DEF TypeOK, LoadAuthorization, VerifyBindings, PreexistingOutputCheck, Check, Goto
<1>3. CASE BuildIntent(p)
  BY <1>3, <1>c DEF TypeOK, BuildIntent, Goto
<1>4. CASE OpenNew(p)
  BY <1>4 DEF OpenNew, procVars
<1>5. CASE FillNew(p)
  <2>1. pc[p] \in {"write_intent", "write_guard", "write_result", "write_receipt"}
    BY <1>5 DEF FillNew, WriteStages
  <2>2. pc'[p] = AfterWrite[pc[p]] /\ noted' = noted
    BY <1>5 DEF FillNew, TypeOK, procVars
  <2>3. pc'[p] \in {"build_guard", "recheck", "write_receipt", "completed"}
        /\ (pc'[p] \in {"build_guard", "recheck"} => pc[p] \in {"write_intent", "write_guard"})
    BY <2>1, <2>2 DEF AfterWrite
  <2>4. QED BY <2>2, <2>3
<1>6. CASE OpenExisting(p)
  <2>1. pc[p] \in {"write_intent", "write_guard", "write_result", "write_receipt"}
    BY <1>6 DEF OpenExisting, WriteStages
  <2>2. CASE pc[p] \in {"write_result", "write_receipt"}
    <3>1. fs["intent"] = WholeBy(p)
      BY <1>a, <2>2 DEF StageOwnership, AfterGuard, WriteStages, ConsumingStages
    <3>2. QED BY <1>6, <1>a, <2>2, <3>1, NoOutcomeYet, WriteTables DEF OpenExisting
  <2>3. CASE pc[p] \in {"write_intent", "write_guard"}
    BY <1>6, <2>3 DEF OpenExisting, ConsumingStages, TypeOK
  <2>4. QED BY <2>1, <2>2, <2>3
<1>7. CASE WriteError(p)
  BY <1>7 DEF WriteError, Undisturbed
<1>8. CASE BuildGuard(p)
  BY <1>8, <1>b DEF TypeOK, BuildGuard, Check, Goto, Readable, procVars
<1>9. CASE Recheck(p)
  BY <1>9, <1>c DEF TypeOK, Recheck, Goto, procVars
<1>10. CASE BuildContext(p)
  <2>1. Readable(ContextDocs) /\ Bound(ComparedDocs)
    BY <1>b DEF Readable, Bound
  <2>2. /\ pc'[p] = "runner_gate" /\ ctx'[p] = [d \in ContextDocs |-> docs[d]]
    BY <1>10, <2>1 DEF TypeOK, BuildContext, Goto
  <2>3. QED BY <1>c, <2>2
<1>11. CASE RunnerGate(p)
  <2>1. pc[p] = "runner_gate"
    BY <1>11 DEF RunnerGate, Check, Goto
  <2>2. /\ fs["intent"] = WholeBy(p) /\ fs["guard"] = WholeBy(p)
        /\ \A f \in Outcomes : fs[f].owner # p
    BY <1>a, <2>1 DEF StageOwnership, AfterGuard, Analysing
  <2>3. \A f \in Outcomes : ~Present(f)
    BY <1>a, <2>2, NoOutcomeYet DEF Outcomes, Files
  <2>4. GateHolds(p)
    BY <1>c, <2>1, <2>2, <2>3 DEF GateHolds, Outcomes
  <2>5. pc'[p] = "read_inputs"
    BY <1>11, <2>4 DEF TypeOK, RunnerGate, Check, Goto
  <2>6. QED BY <2>5
<1>12. CASE ReadInputs(p) \/ ReadRole(p)
  BY <1>12, <1>b, <1>c DEF TypeOK, ReadInputs, ReadRole, Goto, Readable
<1>13. CASE RunEndpoints(p)
  BY <1>13, <1>b DEF TypeOK, RunEndpoints, Goto, Readable, Undisturbed
<1>14. CASE BuildFailure(p)
  BY <1>14 DEF BuildFailure, Check, Goto
<1>15. QED BY <1>1, <1>2, <1>3, <1>4, <1>5, <1>6, <1>7, <1>8, <1>9, <1>10, <1>11, <1>12,
          <1>13, <1>14 DEF Advance

\* Without an edit, a failed write or a failing analysis, no run that won the
\* guard fails: no recheck rejects what the preflight accepted.
THEOREM NothingFailsByItself ==
  ASSUME "power" \notin Faults
  PROVE  Spec => []NoSpuriousFailure
<1>1. Init => Calm
  BY DEF Init, Calm, CalmRun
<1>2. TypeOK /\ ConsumptionInv /\ Calm /\ [Next]_vars => Calm'
  <2> SUFFICES ASSUME TypeOK, ConsumptionInv, Calm, [Next]_vars, Undisturbed'
               PROVE  /\ \A d \in Docs : docs'[d] = "approved"
                      /\ \A p \in Proc : CalmRun(p)'
    BY DEF Calm
  <2>1. Undisturbed /\ UNCHANGED docs
    <3>1. ASSUME NEW d \in Volatile, NEW c \in Content, Drift(d, c) PROVE FALSE
      BY <3>1, MaxDriftAssumption DEF Drift, Undisturbed, TypeOK
    <3>2. ASSUME NEW p \in Proc, Launch(p) \/ Advance(p) \/ WriteError(p) \/ Crash(p)
          PROVE  UNCHANGED envVars
      BY <3>2 DEF Launch, Crash, Advance, WriteError, OpenNew, FillNew, LoadAuthorization,
         VerifyBindings, PreexistingOutputCheck, BuildIntent, OpenExisting, BuildGuard,
         Recheck, BuildContext, RunnerGate, ReadInputs, ReadRole, RunEndpoints, BuildFailure
    <3>3. FlushDirectory \/ PowerLoss \/ UNCHANGED vars => UNCHANGED envVars
      BY DEF FlushDirectory, PowerLoss, envVars, vars
    <3>4. UNCHANGED envVars
      BY <3>1, <3>2, <3>3 DEF Next, Environment
    <3>5. QED BY <3>4 DEF Undisturbed, envVars
  <2>2. CASE UNCHANGED <<pc, noted, ctx>>
    BY <2>1, <2>2 DEF Calm, CalmRun
  <2>3. ASSUME NEW p \in Proc, Launch(p) \/ Advance(p) \/ WriteError(p) \/ Crash(p)
        PROVE  \A q \in Proc : CalmRun(q)'
    BY <2>1, <2>3, OthersStayCalm, ARunStaysCalm DEF Calm
  <2>4. Environment \/ UNCHANGED vars => UNCHANGED <<pc, noted, ctx>>
    BY DEF Environment, Drift, FlushDirectory, PowerLoss, fileVars, procVars, vars
  <2>5. QED BY <2>1, <2>2, <2>3, <2>4 DEF Next, Calm
<1>3. Calm => NoSpuriousFailure
  BY DEF Calm, CalmRun, Undisturbed, NoSpuriousFailure
<1>4. QED BY <1>1, <1>2, <1>3, TypeCorrect, ConsumptionIsInvariant, PTL DEF Spec

-----------------------------------------------------------------------------
(* Power losses included: a run at work owns its intent and its guard.     *)

AtWork(p) ==
  /\ pc[p] \in {"build_guard", "write_guard"} \cup AfterGuard => fs["intent"] = WholeBy(p)
  /\ pc[p] \in AfterGuard => fs["guard"] = WholeBy(p)

\* Nobody else writes a file that has an owner.
LEMMA OthersStayAtWork ==
  ASSUME TypeOK, NEW p \in Proc, NEW q \in Proc, q # p, AtWork(q),
         Launch(p) \/ Advance(p) \/ WriteError(p) \/ Crash(p)
  PROVE  AtWork(q)'
<1>1. pc'[q] = pc[q]
  BY DEF TypeOK, Launch, Crash, Advance, WriteError, OpenNew, FillNew, LoadAuthorization,
     VerifyBindings, PreexistingOutputCheck, BuildIntent, OpenExisting, BuildGuard, Recheck,
     BuildContext, RunnerGate, ReadInputs, ReadRole, RunEndpoints, BuildFailure, Goto, Check
<1>2. ASSUME NEW f \in Files, fs[f] = WholeBy(q) PROVE fs'[f] = fs[f]
  <2>1. fs[f].owner = q /\ q # NoProc
    BY <1>2, NoProcAssumption DEF WholeBy
  <2>2. CASE OpenNew(p) \/ FillNew(p) \/ WriteError(p)
    BY <2>1, <2>2, WriteTables DEF OpenNew, FillNew, WriteError, Present, TypeOK, WholeBy
  <2>3. CASE ~(OpenNew(p) \/ FillNew(p) \/ WriteError(p))
    BY <2>3 DEF Launch, Crash, Advance, LoadAuthorization, VerifyBindings,
       PreexistingOutputCheck, BuildIntent, OpenExisting, BuildGuard, Recheck,
       BuildContext, RunnerGate, ReadInputs, ReadRole, RunEndpoints, BuildFailure, fileVars
  <2>4. QED BY <2>2, <2>3
<1>3. QED BY <1>1, <1>2 DEF AtWork, Files

LEMMA ARunStaysAtWork ==
  ASSUME TypeOK, NEW p \in Proc, AtWork(p),
         Launch(p) \/ Advance(p) \/ WriteError(p) \/ Crash(p)
  PROVE  AtWork(p)'
<1> USE DEF AtWork, AfterGuard, Analysing, WriteStages, ConsumingStages
<1>1. CASE \/ Launch(p) \/ Crash(p) \/ LoadAuthorization(p) \/ VerifyBindings(p)
           \/ PreexistingOutputCheck(p) \/ BuildIntent(p) \/ OpenExisting(p) \/ WriteError(p)
  <2>1. pc'[p] \in {"load", "verify", "preexisting", "build_intent", "write_intent",
                    "refused", "consumed", "torn", "raised", "crashed"}
    BY <1>1 DEF TypeOK, Launch, Crash, LoadAuthorization, VerifyBindings,
       PreexistingOutputCheck, BuildIntent, OpenExisting, WriteError, Goto, Check
  <2>2. QED BY <2>1
<1>2. CASE OpenNew(p)
  <2>1. UNCHANGED pc /\ ~Present(WriteTarget[pc[p]]) /\ WriteTarget[pc[p]] \in Files
        /\ fs' = [fs EXCEPT ![WriteTarget[pc[p]]] = [owner |-> p, whole |-> FALSE]]
    BY <1>2, WriteTables DEF OpenNew
  <2>2. \A f \in Files : Present(f) => fs'[f] = fs[f]
    BY <2>1 DEF TypeOK
  <2>3. \A f \in Files : fs[f] = WholeBy(p) => Present(f)
    BY NoProcAssumption DEF WholeBy, Present
  <2>4. QED BY <2>1, <2>2, <2>3 DEF Files
<1>3. CASE FillNew(p)
  <2>1. /\ pc[p] \in WriteStages /\ pc'[p] = AfterWrite[pc[p]]
        /\ fs'[WriteTarget[pc[p]]] = WholeBy(p)
        /\ \A f \in Files : f # WriteTarget[pc[p]] => fs'[f] = fs[f]
    BY <1>3, WriteTables DEF FillNew, TypeOK
  <2>2. CASE pc[p] = "write_intent"
    BY <2>1, <2>2 DEF AfterWrite, WriteTarget
  <2>3. CASE pc[p] = "write_guard"
    BY <2>1, <2>3 DEF AfterWrite, WriteTarget, Files
  <2>4. CASE pc[p] \notin ConsumingStages
    BY <2>1, <2>4 DEF AfterWrite, WriteTarget, Files
  <2>5. QED BY <2>2, <2>3, <2>4
<1>4. CASE BuildGuard(p)
  BY <1>4 DEF TypeOK, BuildGuard, Check, Goto, fileVars
<1>5. CASE \/ Recheck(p) \/ BuildContext(p) \/ RunnerGate(p) \/ ReadInputs(p) \/ ReadRole(p)
           \/ RunEndpoints(p) \/ BuildFailure(p)
  BY <1>5 DEF TypeOK, Recheck, BuildContext, RunnerGate, ReadInputs, ReadRole, RunEndpoints,
     BuildFailure, Check, Goto, fileVars
<1>6. QED BY <1>1, <1>2, <1>3, <1>4, <1>5 DEF Advance

LEMMA RunsAtWork == Spec => [](\A p \in Proc : AtWork(p))
<1>1. Init => \A p \in Proc : AtWork(p)
  BY DEF Init, AtWork, AfterGuard, Analysing, WriteStages, ConsumingStages
<1>2. TypeOK /\ (\A p \in Proc : AtWork(p)) /\ [Next]_vars => (\A p \in Proc : AtWork(p))'
  <2> SUFFICES ASSUME TypeOK, \A p \in Proc : AtWork(p), [Next]_vars, NEW q \in Proc
               PROVE  AtWork(q)'
    OBVIOUS
  <2>1. CASE UNCHANGED <<pc, fs>>
    BY <2>1 DEF AtWork
  <2>2. ASSUME NEW p \in Proc, Launch(p) \/ Advance(p) \/ WriteError(p) \/ Crash(p)
        PROVE  AtWork(q)'
    BY <2>2, OthersStayAtWork, ARunStaysAtWork
  <2>3. CASE PowerLoss
    <3>1. pc'[q] = IF pc[q] \in Running THEN "crashed" ELSE pc[q]
      BY <2>3 DEF PowerLoss
    <3>2. pc'[q] \notin {"build_guard", "write_guard"} \cup AfterGuard
      BY <3>1 DEF Running, AfterGuard, Analysing, WriteStages, ConsumingStages
    <3>3. QED BY <3>2 DEF AtWork
  <2>4. (\E d \in Volatile, c \in Content : Drift(d, c)) \/ FlushDirectory \/ UNCHANGED vars
          => UNCHANGED <<pc, fs>>
    BY DEF Drift, FlushDirectory, fileVars, vars
  <2>5. QED BY <2>1, <2>2, <2>3, <2>4 DEF Next, Environment
<1>3. QED BY <1>1, <1>2, TypeCorrect, PTL DEF Spec

\* What is durable is there, and no step takes it from its owner.
DurableIsPresent == \A f \in durable : f \in Files /\ Present(f)

LEMMA DurableStays ==
  ASSUME TypeOK, DurableIsPresent, [Next]_vars
  PROVE  DurableIsPresent' /\ \A f \in durable : fs'[f].owner = fs[f].owner
<1>1. ASSUME NEW p \in Proc, Launch(p) \/ Advance(p) \/ WriteError(p) \/ Crash(p)
      PROVE  durable' = durable /\ \A f \in Files : Present(f) => fs'[f].owner = fs[f].owner
  <2>1. durable' = durable
    BY <1>1 DEF Launch, Crash, Advance, WriteError, OpenNew, FillNew, LoadAuthorization,
       VerifyBindings, PreexistingOutputCheck, BuildIntent, OpenExisting, BuildGuard, Recheck,
       BuildContext, RunnerGate, ReadInputs, ReadRole, RunEndpoints, BuildFailure, fileVars
  <2>2. CASE OpenNew(p) \/ FillNew(p) \/ WriteError(p)
    BY <2>2, WriteTables DEF OpenNew, FillNew, WriteError, Present, TypeOK, WholeBy
  <2>3. CASE ~(OpenNew(p) \/ FillNew(p) \/ WriteError(p))
    BY <1>1, <2>3 DEF Launch, Crash, Advance, LoadAuthorization, VerifyBindings,
       PreexistingOutputCheck, BuildIntent, OpenExisting, BuildGuard, Recheck,
       BuildContext, RunnerGate, ReadInputs, ReadRole, RunEndpoints, BuildFailure, fileVars
  <2>4. QED BY <2>1, <2>2, <2>3
<1>2. CASE PowerLoss
  <2>1. durable' = durable /\ \A f \in durable \cap Files : fs'[f] = fs[f]
    BY <1>2 DEF PowerLoss
  <2>2. QED BY <2>1 DEF DurableIsPresent, Present
<1>3. CASE FlushDirectory
  BY <1>3 DEF FlushDirectory, DurableIsPresent, Present
<1>4. CASE (\E d \in Volatile, c \in Content : Drift(d, c)) \/ UNCHANGED vars
  BY <1>4 DEF Drift, fileVars, vars, DurableIsPresent, Present
<1>5. CASE \E p \in Proc : Launch(p) \/ Advance(p) \/ WriteError(p) \/ Crash(p)
  <2>1. /\ durable' = durable
        /\ \A f \in Files : Present(f) => fs'[f].owner = fs[f].owner
    BY <1>1, <1>5
  <2>2. QED BY <2>1 DEF DurableIsPresent, Present
<1>6. QED BY <1>2, <1>3, <1>4, <1>5 DEF Next, Environment

\* A consumption whose directory entry is durable is permanent: the intent or
\* guard stays its owner's, who alone may parse the role, power losses included.
THEOREM DurableConsumptionsArePermanent == Spec => DurableConsumptionIsPermanent
<1>1. Init => DurableIsPresent
  BY DEF Init, DurableIsPresent
<1>2. TypeOK /\ DurableIsPresent /\ [Next]_vars => DurableIsPresent'
  BY DurableStays
<1>3. TypeOK /\ DurableIsPresent /\ (\A p \in Proc : AtWork(p)) /\ [Next]_vars =>
        [\A f \in durable \cap {"intent", "guard"} :
           /\ fs'[f].owner = fs[f].owner
           /\ parsed' \ parsed \subseteq {fs[f].owner}]_<<fs, parsed, durable>>
  <2> SUFFICES ASSUME TypeOK, DurableIsPresent, \A p \in Proc : AtWork(p), [Next]_vars,
                      NEW f \in durable \cap {"intent", "guard"}
               PROVE  /\ fs'[f].owner = fs[f].owner
                      /\ \A q \in parsed' \ parsed : q = fs[f].owner
    OBVIOUS
  <2>1. fs'[f].owner = fs[f].owner
    BY DurableStays
  <2>2. ASSUME NEW q \in parsed' \ parsed PROVE q = fs[f].owner
    <3>1. ASSUME NEW p \in Proc, Launch(p) \/ Advance(p) \/ WriteError(p) \/ Crash(p)
          PROVE  q = p /\ ReadRole(p)
      BY <3>1 DEF Launch, Crash, Advance, WriteError, OpenNew, FillNew, LoadAuthorization,
         VerifyBindings, PreexistingOutputCheck, BuildIntent, OpenExisting, BuildGuard, Recheck,
         BuildContext, RunnerGate, ReadInputs, ReadRole, RunEndpoints, BuildFailure, procVars
    <3>2. Environment \/ UNCHANGED vars => parsed' = parsed
      BY DEF Environment, Drift, FlushDirectory, PowerLoss, procVars, vars
    <3>3. PICK p \in Proc : q = p /\ ReadRole(p)
      BY <3>1, <3>2 DEF Next
    <3>4. fs["intent"] = WholeBy(q) /\ fs["guard"] = WholeBy(q)
      BY <3>3 DEF ReadRole, Goto, AtWork, AfterGuard, Analysing
    <3>5. QED BY <3>4 DEF WholeBy
  <2>3. QED BY <2>1, <2>2
<1>4. QED BY <1>1, <1>2, <1>3, RunsAtWork, TypeCorrect, PTL
      DEF Spec, DurableConsumptionIsPermanent

=============================================================================
