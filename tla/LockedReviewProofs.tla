------------------------- MODULE LockedReviewProofs -------------------------
(***************************************************************************)
(* Theorems about LockedReview, for any number of invocations of the audit *)
(* tool and edits of its source: a manifest seals a complete directory of  *)
(* one invocation, exit codes tell it, and it is final; what passes has    *)
(* the verdicts the analysis computed, what nobody changed passes, and a   *)
(* disagreement of the evaluators is adverse.                              *)
(***************************************************************************)
EXTENDS LockedReview, RecomputationProofs

Phases == Running \cup {"idle", "done", "dead"}

Statuses == {"none", "PASS", "PASS_TEST_ONLY_COMPATIBILITY",
             "NOT_APPLICABLE_NO_RESULT", "BLOCKING_RESULT_INCONSISTENCY"}

Firsts == (0 .. 2) \X (0 .. MaxEdits + 1)

ToolTypes ==
  [pc : Phases, kind : {"none", "result", "failure"},
   synthetic : BOOLEAN, expected : {"any", "original"},
   first : Firsts, blocking : BOOLEAN,
   written : Nat, status : Statuses, exit : {0, 2, 3}]

EntryTypes == [owner : Tools \cup {NoTool}, whole : BOOLEAN]

-----------------------------------------------------------------------------
(* The inductive invariant.                                                *)

SourceInv ==
  /\ subject.endpoint \in Subjects
  /\ source \in [kind : {"none", "result", "failure", "torn"}, version : 0 .. 2,
                 inode : 0 .. MaxEdits + 1]
  /\ edits \in 0 .. MaxEdits /\ source.inode <= edits + 1

Own(t) == [owner |-> t, whole |-> TRUE]

\* Every file of t's directory that its manifest will list up to now.
WrittenBy(t, n) == \A k \in 1 .. n : files[ToWrite(t)[k]] = Own(t)

\* Where an invocation is tells what it owns.
ToolInv(t) ==
  /\ ~At(t, "idle") => source.kind # "none"
  /\ tool[t].pc \in {"reread", "mkdir", "write"} => tool[t].kind \in {"result", "failure"}
  /\ tool[t].pc \in {"idle", "read", "reread", "mkdir"} =>
       /\ tool[t].written = 0
       /\ \A f \in Outputs : files[f].owner # t
  /\ At(t, "write") =>
       /\ files["directory"] = Own(t)
       /\ tool[t].written <= Len(ToWrite(t))
       /\ WrittenBy(t, tool[t].written)
       /\ files["manifest"].owner # t
  /\ At(t, "done") /\ tool[t].exit = 3 => files["manifest"].owner # t
  /\ At(t, "done") /\ tool[t].exit # 3 =>
       /\ files["manifest"] = Own(t)
       /\ (tool[t].exit = 2) = (tool[t].status = "BLOCKING_RESULT_INCONSISTENCY")
       /\ files["directory"] = Own(t)
       /\ WrittenBy(t, Len(ToWrite(t)))

FilesInv ==
  /\ \A f \in Outputs : files[f].owner = NoTool => ~files[f].whole
  /\ files["manifest"].whole =>
       At(files["manifest"].owner, "done") /\ tool[files["manifest"].owner].exit # 3

Types ==
  /\ tool \in [Tools -> ToolTypes]
  /\ files \in [Outputs -> EntryTypes]

ReviewInv == Types /\ SourceInv /\ FilesInv /\ \A t \in Tools : ToolInv(t)

\* What a step of an invocation may do: move it on and create one file.
Moves(t) ==
  /\ \A u \in Tools \ {t} : tool'[u] = tool[u]
  /\ ~At(t, "done")
  /\ \A f \in Outputs :
       \/ files'[f] = files[f]
       \/ files[f] = Missing /\ files'[f] \in {Own(t), [owner |-> t, whole |-> FALSE]}

-----------------------------------------------------------------------------
LEMMA OutputNames ==
  /\ "directory" \in Outputs /\ "manifest" \in Outputs
  /\ \A t \in Tools : \A k \in 1 .. Len(ToWrite(t)) :
       ToWrite(t)[k] \in Outputs /\ ToWrite(t)[k] # "manifest"
  /\ \A t \in Tools : Len(ToWrite(t)) \in Nat
<1>1. ASSUME NEW t \in Tools, tool[t].kind = "failure"
      PROVE  Len(ToWrite(t)) = 1 /\ ToWrite(t)[1] = "NOT_APPLICABLE_NO_RESULT"
  BY <1>1 DEF ToWrite
<1>2. ASSUME NEW t \in Tools, tool[t].kind # "failure"
      PROVE  ToWrite(t) = DerivedFiles
  BY <1>2 DEF ToWrite
<1>3. Len(DerivedFiles) \in Nat /\ DOMAIN DerivedFiles = 1 .. Len(DerivedFiles)
  BY DerivedFilesAssumption
<1>4. QED BY <1>1, <1>2, <1>3, DerivedFilesAssumption DEF Outputs

\* A created file keeps its owner and its content.
LEMMA OwnedStays ==
  ASSUME ReviewInv, NEW t \in Tools, Moves(t), NEW f \in Outputs, NEW u \in Tools
  PROVE  /\ files[f] = Own(u) => files'[f] = Own(u)
         /\ u # t /\ files[f].owner # u => files'[f].owner # u
<1> DEFINE g == files[f]
           h == files'[f]
<1>1. h = g \/ (g.owner = NoTool /\ h.owner = t)
  BY DEF Moves, Missing, Own
<1> HIDE DEF g, h
<1>2. g = Own(u) => h = Own(u)
  BY <1>1, NoToolAssumption DEF Own
<1>3. u # t /\ g.owner # u => h.owner # u
  BY <1>1
<1>4. QED BY <1>2, <1>3 DEF g, h

LEMMA OthersKeep ==
  ASSUME ReviewInv, NEW t \in Tools, Moves(t), UNCHANGED source,
         NEW u \in Tools, u # t
  PROVE  ToolInv(u)'
<1>1. tool'[u] = tool[u] /\ ToolInv(u) /\ tool[u] \in ToolTypes
  BY DEF Moves, ReviewInv, Types
<1>2. ToWrite(u)' = ToWrite(u)
  BY <1>1 DEF ToWrite
<1>3. ASSUME NEW n \in 0 .. Len(ToWrite(u)), WrittenBy(u, n)
      PROVE  \A k \in 1 .. n : files'[ToWrite(u)[k]] = Own(u)
  <2> TAKE k \in 1 .. n
  <2>1. k \in 1 .. Len(ToWrite(u)) /\ files[ToWrite(u)[k]] = Own(u)
    BY <1>3, OutputNames DEF WrittenBy
  <2>2. ToWrite(u)[k] \in Outputs
    BY <2>1, OutputNames
  <2>3. QED BY <2>1, <2>2, OwnedStays
<1>4. \A f \in Outputs : files[f].owner # u => files'[f].owner # u
  BY OwnedStays
<1>5. \A f \in Outputs : files[f] = Own(u) => files'[f] = Own(u)
  BY OwnedStays
<1>6. ASSUME At(u, "write")
      PROVE  /\ files'["directory"] = Own(u)
             /\ tool[u].written <= Len(ToWrite(u))
             /\ \A k \in 1 .. tool[u].written : files'[ToWrite(u)[k]] = Own(u)
             /\ files'["manifest"].owner # u
  <2>1. /\ files["directory"] = Own(u) /\ files["manifest"].owner # u
        /\ tool[u].written \in 0 .. Len(ToWrite(u)) /\ WrittenBy(u, tool[u].written)
    BY <1>1, <1>6, OutputNames DEF ToolInv, ToolTypes
  <2>2. QED BY <1>3, <1>4, <1>5, <2>1, OutputNames
<1>7. ASSUME At(u, "done"), tool[u].exit # 3
      PROVE  /\ files'["manifest"] = Own(u)
             /\ files'["directory"] = Own(u)
             /\ \A k \in 1 .. Len(ToWrite(u)) : files'[ToWrite(u)[k]] = Own(u)
  <2>1. /\ files["directory"] = Own(u) /\ files["manifest"] = Own(u)
        /\ WrittenBy(u, Len(ToWrite(u))) /\ Len(ToWrite(u)) \in 0 .. Len(ToWrite(u))
    BY <1>1, <1>7, OutputNames DEF ToolInv
  <2>2. QED BY <1>3, <1>5, <2>1, OutputNames
<1>8. QED BY <1>1, <1>2, <1>4, <1>6, <1>7, OutputNames DEF ToolInv, At, WrittenBy

LEMMA FilesKeep ==
  ASSUME ReviewInv, NEW t \in Tools, Moves(t), UNCHANGED source,
         files'["manifest"] # files["manifest"] /\ files'["manifest"].whole =>
           tool'[t].pc = "done" /\ tool'[t].exit # 3
  PROVE  FilesInv'
<1>1. ASSUME NEW f \in Outputs, files'[f].owner = NoTool
      PROVE  ~files'[f].whole
  <2>1. files'[f] = files[f]
    BY <1>1, NoToolAssumption DEF Moves, Own
  <2>2. QED BY <1>1, <2>1 DEF ReviewInv, FilesInv
<1>2. ASSUME files'["manifest"].whole
      PROVE  LET u == files'["manifest"].owner
             IN tool'[u].pc = "done" /\ tool'[u].exit # 3
  <2> DEFINE g == files["manifest"]
             h == files'["manifest"]
  <2>1. h = g \/ h = Own(t) \/ h = [owner |-> t, whole |-> FALSE]
    BY OutputNames DEF Moves
  <2>2. g.whole => tool[g.owner].pc = "done" /\ tool[g.owner].exit # 3
    BY DEF ReviewInv, FilesInv, At
  <2>3. g \in EntryTypes /\ (g.owner = NoTool => ~g.whole)
    BY OutputNames DEF ReviewInv, Types, FilesInv
  <2>4. h # g /\ h.whole => tool'[t].pc = "done" /\ tool'[t].exit # 3
    OBVIOUS
  <2>5. h.whole
    BY <1>2
  <2> HIDE DEF g, h
  <2>6. CASE h = g
    <3>1. g.owner \in Tools /\ tool[g.owner].pc = "done" /\ tool[g.owner].exit # 3
      BY <2>2, <2>3, <2>5, <2>6 DEF EntryTypes
    <3>2. g.owner # t
      BY <3>1 DEF Moves, At
    <3>3. tool'[g.owner] = tool[g.owner]
      BY <3>1, <3>2 DEF Moves
    <3>4. QED BY <2>6, <3>1, <3>3 DEF h
  <2>7. CASE h # g
    <3>1. h.owner = t
      BY <2>1, <2>7 DEF Own
    <3>2. QED BY <2>4, <2>5, <2>7, <3>1 DEF h
  <2>8. QED BY <2>6, <2>7
<1>3. QED BY <1>1, <1>2 DEF FilesInv, At

\* A step that moves one invocation and keeps its part keeps the invariant.
LEMMA MoveKeepsInvariant ==
  ASSUME ReviewInv, Types', NEW t \in Tools, Moves(t), ToolInv(t)',
         UNCHANGED <<subject, source, edits>>,
         files'["manifest"] # files["manifest"] /\ files'["manifest"].whole =>
           tool'[t].pc = "done" /\ tool'[t].exit # 3
  PROVE  ReviewInv'
<1>1. \A u \in Tools : ToolInv(u)'
  BY OthersKeep
<1>2. FilesInv'
  BY FilesKeep
<1>3. SourceInv'
  BY DEF ReviewInv, SourceInv
<1>4. QED BY <1>1, <1>2, <1>3 DEF ReviewInv

\* The files an invocation lists do not depend on where it is.
LEMMA ToWriteStays ==
  ASSUME NEW t \in Tools, tool'[t].kind = tool[t].kind
  PROVE  ToWrite(t)' = ToWrite(t)
BY DEF ToWrite

LEMMA CreatingMoves ==
  ASSUME Types, NEW t \in Tools, NEW f \in Outputs, files[f] = Missing,
         CreateExclusively(t, f)
  PROVE  /\ files' \in [Outputs -> EntryTypes]
         /\ files'[f] = Own(t)
         /\ \A g \in Outputs \ {f} : files'[g] = files[g]
BY DEF Types, CreateExclusively, EntryTypes, Own

-----------------------------------------------------------------------------
(* One step of one invocation.                                             *)

\* An invocation changes the fields of its own record.
LEMMA RowMoves ==
  ASSUME Types, NEW t \in Tools, NEW row \in ToolTypes,
         tool' = [tool EXCEPT ![t] = row]
  PROVE  /\ tool' \in [Tools -> ToolTypes]
         /\ \A u \in Tools \ {t} : tool'[u] = tool[u]
         /\ tool'[t] = row
BY DEF Types

LEMMA RaisingKeeps ==
  ASSUME ReviewInv, NEW t \in Tools, tool[t].pc \notin {"done", "dead"},
         source.kind # "none", Raised(t), UNCHANGED files,
         UNCHANGED <<subject, source, edits>>
  PROVE  Moves(t) /\ ReviewInv'
<1>1. /\ tool' \in [Tools -> ToolTypes]
      /\ \A u \in Tools \ {t} : tool'[u] = tool[u]
      /\ tool'[t].pc = "done" /\ tool'[t].exit = 3
  <2> DEFINE new == [tool[t] EXCEPT !.pc = "done", !.exit = 3]
  <2>1. Types /\ tool[t] \in ToolTypes
    BY DEF ReviewInv, Types
  <2>2. new \in ToolTypes /\ new.pc = "done" /\ new.exit = 3
    BY <2>1 DEF ToolTypes, Phases
  <2>3. tool' = [tool EXCEPT ![t] = new]
    BY <2>1 DEF Raised, Types
  <2> HIDE DEF new
  <2>4. PICK row \in ToolTypes : row = new
    BY <2>2
  <2>5. QED BY <2>1, <2>2, <2>3, <2>4, RowMoves
<1>2. Types' /\ Moves(t)
  BY <1>1 DEF ReviewInv, Types, Moves, At
<1>3. ToolInv(t) /\ tool[t].pc \in {"idle", "read", "reread", "mkdir", "write"}
  BY DEF ReviewInv, Types, ToolTypes, Phases, Running
<1>4. files["manifest"].owner # t
  BY <1>3, OutputNames DEF ToolInv, At
<1>5. ToolInv(t)'
  BY <1>1, <1>4 DEF ToolInv, At
<1>6. QED BY <1>2, <1>5, MoveKeepsInvariant

LEMMA OpenKeeps ==
  ASSUME ReviewInv, NEW t \in Tools, Open(t)
  PROVE  Moves(t) /\ ReviewInv'
<1>1. /\ tool[t].pc = "idle" /\ source.kind # "none" /\ UNCHANGED files
      /\ UNCHANGED <<subject, source, edits>> /\ ToolInv(t)
  BY DEF Open, At, ReviewInv
<1>2. CASE Raised(t)
  BY <1>1, <1>2, RaisingKeeps
<1>3. ASSUME NEW synthetic \in BOOLEAN, NEW expected \in {"any", "original"},
             tool' = [tool EXCEPT ![t].pc = "read", ![t].synthetic = synthetic,
                                  ![t].expected = expected]
      PROVE  Moves(t) /\ ReviewInv'
  <2>1. /\ tool' \in [Tools -> ToolTypes]
        /\ \A u \in Tools \ {t} : tool'[u] = tool[u]
        /\ tool'[t].pc = "read" /\ tool'[t].written = tool[t].written
    <3> DEFINE new == [tool[t] EXCEPT !.pc = "read", !.synthetic = synthetic,
                                      !.expected = expected]
    <3>1. Types /\ tool[t] \in ToolTypes
      BY DEF ReviewInv, Types
    <3>2. new \in ToolTypes /\ new.pc = "read" /\ new.written = tool[t].written
      BY <3>1 DEF ToolTypes, Phases, Running
    <3>3. tool' = [tool EXCEPT ![t] = new]
      BY <1>3, <3>1 DEF Types
    <3> HIDE DEF new
    <3>4. PICK row \in ToolTypes : row = new
      BY <3>2
    <3>5. QED BY <3>1, <3>2, <3>3, <3>4, RowMoves
  <2>2. Types' /\ Moves(t)
    BY <1>1, <2>1 DEF ReviewInv, Types, Moves, At
  <2>3. ToolInv(t)'
    BY <1>1, <2>1 DEF ToolInv, At
  <2>4. QED BY <1>1, <2>2, <2>3, MoveKeepsInvariant
<1>4. QED BY <1>2, <1>3 DEF Open

LEMMA ReadSourceKeeps ==
  ASSUME ReviewInv, NEW t \in Tools, ReadSource(t)
  PROVE  Moves(t) /\ ReviewInv'
<1>1. /\ tool[t].pc = "read" /\ UNCHANGED files
      /\ UNCHANGED <<subject, source, edits>> /\ ToolInv(t)
  BY DEF ReadSource, At, ReviewInv
<1>2. source.kind # "none"
  BY <1>1 DEF ToolInv, At
<1>3. CASE Raised(t)
  BY <1>1, <1>2, <1>3, RaisingKeeps
<1>4. CASE ~Raised(t)
  <2> DEFINE blocking == \/ tool[t].expected = "original" /\ source.version # 1
                         \/ source.kind = "result" /\ ~contents[source.version].acceptable
  <2>1. /\ source.kind # "torn"
        /\ tool' = [tool EXCEPT ![t].pc = "reread", ![t].kind = source.kind,
                                ![t].first = <<source.version, source.inode>>,
                                ![t].blocking = blocking]
    BY <1>4 DEF ReadSource
  <2>2. blocking \in BOOLEAN
    OBVIOUS
  <2>3. /\ source.kind \in {"result", "failure"}
        /\ <<source.version, source.inode>> \in (0 .. 2) \X (0 .. MaxEdits + 1)
    BY <1>2, <2>1 DEF ReviewInv, SourceInv
  <2> HIDE DEF blocking
  <2>4. /\ tool' \in [Tools -> ToolTypes]
        /\ \A u \in Tools \ {t} : tool'[u] = tool[u]
        /\ tool'[t].pc = "reread" /\ tool'[t].written = tool[t].written
        /\ tool'[t].kind = source.kind
    <3> DEFINE first == <<source.version, source.inode>>
               new == [tool[t] EXCEPT !.pc = "reread", !.kind = source.kind,
                                      !.first = first, !.blocking = blocking]
    <3>1. Types /\ tool[t] \in ToolTypes
      BY DEF ReviewInv, Types
    <3>2. tool' = [tool EXCEPT ![t] = new]
      BY <2>1, <3>1 DEF Types
    <3>3. first \in Firsts
      BY <2>3 DEF Firsts
    <3> HIDE DEF first
    <3>4. /\ new \in ToolTypes /\ new.pc = "reread" /\ new.written = tool[t].written
          /\ new.kind = source.kind
      BY <2>2, <2>3, <3>1, <3>3 DEF ToolTypes, Phases, Running
    <3> HIDE DEF new
    <3>5. PICK row \in ToolTypes : row = new
      BY <3>4
    <3>6. QED BY <3>1, <3>2, <3>4, <3>5, RowMoves
  <2>5. Types' /\ Moves(t)
    BY <1>1, <2>4 DEF ReviewInv, Types, Moves, At
  <2>6. ToolInv(t)'
    BY <1>1, <1>2, <2>3, <2>4 DEF ToolInv, At
  <2>7. QED BY <1>1, <2>5, <2>6, MoveKeepsInvariant
<1>5. QED BY <1>3, <1>4

LEMMA ReadAgainKeeps ==
  ASSUME ReviewInv, NEW t \in Tools, ReadAgain(t)
  PROVE  Moves(t) /\ ReviewInv'
<1>1. /\ tool[t].pc = "reread" /\ UNCHANGED files
      /\ UNCHANGED <<subject, source, edits>> /\ ToolInv(t)
  BY DEF ReadAgain, At, ReviewInv
<1> DEFINE blocking == \/ tool[t].blocking
                       \/ tool[t].first # <<source.version, source.inode>>
<1>2. tool' = [tool EXCEPT ![t].pc = "mkdir", ![t].blocking = blocking]
  BY DEF ReadAgain, ReviewInv, Types
<1>3. blocking \in BOOLEAN
  OBVIOUS
<1> HIDE DEF blocking
<1>4. /\ tool' \in [Tools -> ToolTypes]
      /\ \A u \in Tools \ {t} : tool'[u] = tool[u]
      /\ tool'[t].pc = "mkdir" /\ tool'[t].written = tool[t].written
      /\ tool'[t].kind = tool[t].kind
  <2> DEFINE new == [tool[t] EXCEPT !.pc = "mkdir", !.blocking = blocking]
  <2>1. Types /\ tool[t] \in ToolTypes
    BY DEF ReviewInv, Types
  <2>2. /\ new \in ToolTypes /\ new.pc = "mkdir" /\ new.written = tool[t].written
        /\ new.kind = tool[t].kind
    BY <1>3, <2>1 DEF ToolTypes, Phases, Running
  <2>3. tool' = [tool EXCEPT ![t] = new]
    BY <1>2, <2>1 DEF Types
  <2> HIDE DEF new
  <2>4. PICK row \in ToolTypes : row = new
    BY <2>2
  <2>5. QED BY <2>1, <2>2, <2>3, <2>4, RowMoves
<1>5. Types' /\ Moves(t)
  BY <1>1, <1>4 DEF ReviewInv, Types, Moves, At
<1>6. ToolInv(t)'
  BY <1>1, <1>4 DEF ToolInv, At
<1>7. QED BY <1>1, <1>5, <1>6, MoveKeepsInvariant

\* The next file to write exists as a name.
LEMMA NextFileIsAnOutput ==
  ASSUME Types, NEW t \in Tools
  PROVE  /\ NextFile(t) \in Outputs
         /\ NextFile(t) # "manifest" =>
              /\ tool[t].written < Len(ToWrite(t))
              /\ NextFile(t) = ToWrite(t)[tool[t].written + 1]
         /\ NextFile(t) = "manifest" => tool[t].written >= Len(ToWrite(t))
<1>1. tool[t].written \in Nat /\ Len(ToWrite(t)) \in Nat
  BY OutputNames DEF Types, ToolTypes
<1>2. CASE tool[t].written < Len(ToWrite(t))
  <2>1. tool[t].written + 1 \in 1 .. Len(ToWrite(t))
    BY <1>1, <1>2
  <2>2. NextFile(t) = ToWrite(t)[tool[t].written + 1]
    BY <1>2 DEF NextFile
  <2>3. QED BY <1>2, <2>1, <2>2, OutputNames
<1>3. CASE ~(tool[t].written < Len(ToWrite(t)))
  BY <1>1, <1>3, OutputNames DEF NextFile
<1>4. QED BY <1>2, <1>3

LEMMA MakeDirectoryKeeps ==
  ASSUME ReviewInv, NEW t \in Tools, MakeDirectory(t)
  PROVE  Moves(t) /\ ReviewInv'
<1>1. /\ tool[t].pc = "mkdir" /\ UNCHANGED <<subject, source, edits>> /\ ToolInv(t)
      /\ Types /\ tool[t] \in ToolTypes
  BY DEF MakeDirectory, At, ReviewInv, Types
<1>2. source.kind # "none"
  BY <1>1 DEF ToolInv, At
<1>3. CASE files["directory"] # Missing
  BY <1>1, <1>2, <1>3, RaisingKeeps DEF MakeDirectory
<1>4. CASE files["directory"] = Missing
  <2> DEFINE new == [tool[t] EXCEPT !.pc = "write"]
  <2>1. tool' = [tool EXCEPT ![t] = new] /\ CreateExclusively(t, "directory")
    BY <1>1, <1>4 DEF MakeDirectory, Types
  <2>2. /\ new \in ToolTypes /\ new.pc = "write" /\ new.written = tool[t].written
        /\ new.kind = tool[t].kind
    BY <1>1 DEF ToolTypes, Phases, Running
  <2> HIDE DEF new
  <2>3. PICK row \in ToolTypes : row = new
    BY <2>2
  <2>4. /\ tool' \in [Tools -> ToolTypes]
        /\ \A u \in Tools \ {t} : tool'[u] = tool[u]
        /\ tool'[t].pc = "write" /\ tool'[t].written = tool[t].written
        /\ tool'[t].kind = tool[t].kind
    BY <1>1, <2>1, <2>2, <2>3, RowMoves
  <2>5. /\ files' \in [Outputs -> EntryTypes]
        /\ files'["directory"] = Own(t)
        /\ \A g \in Outputs \ {"directory"} : files'[g] = files[g]
    BY <1>1, <1>4, <2>1, CreatingMoves, OutputNames
  <2>6. Types' /\ Moves(t)
    BY <1>1, <1>4, <2>4, <2>5 DEF Types, Moves, At
  <2>7. tool[t].written = 0 /\ files["manifest"].owner # t /\ Len(ToWrite(t)) \in Nat
    BY <1>1, OutputNames DEF ToolInv
  <2>8. files'["manifest"] = files["manifest"]
    BY <2>5, OutputNames
  <2>9. ToWrite(t)' = ToWrite(t)
    BY <2>4, ToWriteStays
  <2>10. ToolInv(t)'
    BY <1>1, <1>2, <2>4, <2>5, <2>7, <2>8, <2>9 DEF ToolInv, At, WrittenBy
  <2>11. QED BY <1>1, <2>6, <2>8, <2>10, MoveKeepsInvariant
<1>5. QED BY <1>3, <1>4

LEMMA WriteOutputKeeps ==
  ASSUME ReviewInv, NEW t \in Tools, WriteOutput(t)
  PROVE  Moves(t) /\ ReviewInv'
<1>1. /\ tool[t].pc = "write" /\ UNCHANGED <<subject, source, edits>> /\ ToolInv(t)
      /\ Types /\ tool[t] \in ToolTypes
  BY DEF WriteOutput, At, ReviewInv, Types
<1>2. source.kind # "none"
  BY <1>1 DEF ToolInv, At
<1>3. PICK f \in Outputs : NextFile(t) = f
  BY <1>1, NextFileIsAnOutput
<1>4. /\ f # "manifest" /\ tool[t].written < Len(ToWrite(t))
      /\ f = ToWrite(t)[tool[t].written + 1] /\ tool[t].written \in Nat
  BY <1>1, <1>3, NextFileIsAnOutput DEF WriteOutput, ToolTypes
<1>5. CASE files[f] # Missing
  BY <1>1, <1>2, <1>3, <1>5, RaisingKeeps DEF WriteOutput
<1>6. CASE files[f] = Missing
  <2> DEFINE new == [tool[t] EXCEPT !.written = tool[t].written + 1]
  <2>1. tool' = [tool EXCEPT ![t] = new] /\ CreateExclusively(t, f)
    BY <1>1, <1>3, <1>6 DEF WriteOutput, Types
  <2>2. /\ new \in ToolTypes /\ new.pc = "write" /\ new.written = tool[t].written + 1
        /\ new.kind = tool[t].kind
    BY <1>1 DEF ToolTypes
  <2> HIDE DEF new
  <2>3. PICK row \in ToolTypes : row = new
    BY <2>2
  <2>4. /\ tool' \in [Tools -> ToolTypes]
        /\ \A u \in Tools \ {t} : tool'[u] = tool[u]
        /\ tool'[t].pc = "write" /\ tool'[t].written = tool[t].written + 1
        /\ tool'[t].kind = tool[t].kind
    BY <1>1, <2>1, <2>2, <2>3, RowMoves
  <2>5. /\ files' \in [Outputs -> EntryTypes]
        /\ files'[f] = Own(t)
        /\ \A g \in Outputs \ {f} : files'[g] = files[g]
    BY <1>1, <1>6, <2>1, CreatingMoves
  <2>6. Types' /\ Moves(t)
    BY <1>1, <1>6, <2>4, <2>5 DEF Types, Moves, At
  <2>7. files'["manifest"] = files["manifest"]
    BY <1>4, <2>5, OutputNames
  <2>8. ToWrite(t)' = ToWrite(t) /\ Len(ToWrite(t)) \in Nat
    BY <2>4, ToWriteStays, OutputNames
  <2>9. files["directory"] = Own(t) => files'["directory"] = Own(t)
    BY <2>6, OwnedStays, OutputNames
  <2>10. \A k \in 1 .. tool[t].written + 1 : files'[ToWrite(t)[k]] = Own(t)
    <3> TAKE k \in 1 .. tool[t].written + 1
    <3>1. CASE k = tool[t].written + 1
      BY <1>4, <2>5, <3>1
    <3>2. CASE k # tool[t].written + 1
      <4>1. k \in 1 .. tool[t].written
        BY <1>4, <3>2
      <4>2. files[ToWrite(t)[k]] = Own(t)
        BY <1>1, <4>1 DEF ToolInv, At, WrittenBy
      <4>3. ToWrite(t)[k] \in Outputs
        BY <1>4, <2>8, <4>1, OutputNames
      <4>4. QED BY <2>6, <4>2, <4>3, OwnedStays
    <3>3. QED BY <3>1, <3>2
  <2>11. ToolInv(t)'
    BY <1>1, <1>4, <2>4, <2>7, <2>8, <2>9, <2>10 DEF ToolInv, At, WrittenBy
  <2>12. QED BY <1>1, <2>6, <2>7, <2>11, MoveKeepsInvariant
<1>7. QED BY <1>5, <1>6

LEMMA WriteManifestKeeps ==
  ASSUME ReviewInv, NEW t \in Tools, WriteManifest(t)
  PROVE  Moves(t) /\ ReviewInv'
<1>1. /\ tool[t].pc = "write" /\ UNCHANGED <<subject, source, edits>> /\ ToolInv(t)
      /\ Types /\ tool[t] \in ToolTypes
  BY DEF WriteManifest, At, ReviewInv, Types
<1>2. source.kind # "none" /\ tool[t].kind \in {"result", "failure"}
  BY <1>1 DEF ToolInv, At
<1>3. CASE files["manifest"] # Missing
  BY <1>1, <1>2, <1>3, RaisingKeeps DEF WriteManifest
<1>4. CASE files["manifest"] = Missing
  <2> DEFINE exit == IF tool[t].blocking THEN 2 ELSE 0
             status == OverallStatus(t)
             new == [tool[t] EXCEPT !.pc = "done", !.status = status, !.exit = exit]
  <2>1. tool' = [tool EXCEPT ![t] = new] /\ CreateExclusively(t, "manifest")
    BY <1>1, <1>4 DEF WriteManifest, Types
  <2>2. /\ status \in Statuses /\ exit \in {0, 2, 3} /\ exit # 3
        /\ (exit = 2) = (status = "BLOCKING_RESULT_INCONSISTENCY")
    BY <1>1, <1>2 DEF OverallStatus, Statuses, ToolTypes
  <2> HIDE DEF exit, status
  <2>3. /\ new \in ToolTypes /\ new.pc = "done" /\ new.written = tool[t].written
        /\ new.kind = tool[t].kind /\ new.exit = exit /\ new.status = status
    BY <1>1, <2>2 DEF ToolTypes, Phases
  <2> HIDE DEF new
  <2>4. PICK row \in ToolTypes : row = new
    BY <2>3
  <2>5. /\ tool' \in [Tools -> ToolTypes]
        /\ \A u \in Tools \ {t} : tool'[u] = tool[u]
        /\ tool'[t].pc = "done" /\ tool'[t].exit = exit /\ tool'[t].status = status
        /\ tool'[t].kind = tool[t].kind
    BY <1>1, <2>1, <2>3, <2>4, RowMoves
  <2>6. /\ files' \in [Outputs -> EntryTypes]
        /\ files'["manifest"] = Own(t)
        /\ \A g \in Outputs \ {"manifest"} : files'[g] = files[g]
    BY <1>1, <1>4, <2>1, CreatingMoves, OutputNames
  <2>7. Types' /\ Moves(t)
    BY <1>1, <1>4, <2>5, <2>6 DEF Types, Moves, At
  <2>8. ToWrite(t)' = ToWrite(t)
    BY <2>5, ToWriteStays
  <2>9. files'["directory"] = Own(t)
    BY <1>1, <2>7, OwnedStays, OutputNames DEF ToolInv, At
  <2>10. \A k \in 1 .. Len(ToWrite(t)) : files'[ToWrite(t)[k]] = Own(t)
    <3> TAKE k \in 1 .. Len(ToWrite(t))
    <3>1. NextFile(t) = "manifest"
      BY DEF WriteManifest
    <3>2. tool[t].written >= Len(ToWrite(t)) /\ tool[t].written \in Nat
      BY <1>1, <3>1, NextFileIsAnOutput DEF ToolTypes
    <3>3. k \in 1 .. tool[t].written
      BY <3>2, OutputNames
    <3>4. files[ToWrite(t)[k]] = Own(t)
      BY <1>1, <3>3 DEF ToolInv, At, WrittenBy
    <3>5. ToWrite(t)[k] \in Outputs
      BY OutputNames
    <3>6. QED BY <2>7, <3>4, <3>5, OwnedStays
  <2>11. ToolInv(t)'
    BY <1>1, <1>2, <2>2, <2>5, <2>6, <2>8, <2>9, <2>10 DEF ToolInv, At, WrittenBy
  <2>12. QED BY <1>1, <2>2, <2>5, <2>7, <2>11, MoveKeepsInvariant
<1>5. QED BY <1>3, <1>4

LEMMA EntryOwner ==
  ASSUME NEW x \in EntryTypes, NEW u
  PROVE  [x EXCEPT !.owner = u] = [owner |-> u, whole |-> x.whole]
BY DEF EntryTypes

LEMMA DieKeeps ==
  ASSUME ReviewInv, NEW t \in Tools, Die(t)
  PROVE  Moves(t) /\ ReviewInv'
<1>1. /\ tool[t].pc \in Running /\ UNCHANGED <<subject, source, edits>> /\ ToolInv(t)
      /\ Types /\ tool[t] \in ToolTypes
  BY DEF Die, ReviewInv, Types
<1>2. source.kind # "none"
  BY <1>1 DEF ToolInv, At, Running
<1>3. /\ tool' \in [Tools -> ToolTypes]
      /\ \A u \in Tools \ {t} : tool'[u] = tool[u]
      /\ tool'[t].pc = "dead"
  <2> DEFINE new == [tool[t] EXCEPT !.pc = "dead"]
  <2>1. tool' = [tool EXCEPT ![t] = new]
    BY <1>1 DEF Die, Types
  <2>2. new \in ToolTypes /\ new.pc = "dead"
    BY <1>1 DEF ToolTypes, Phases
  <2> HIDE DEF new
  <2>3. PICK row \in ToolTypes : row = new
    BY <2>2
  <2>4. QED BY <1>1, <2>1, <2>2, <2>3, RowMoves
<1>4. PICK f \in Outputs : NextFile(t) = f
  BY <1>1, NextFileIsAnOutput
<1>5. \/ UNCHANGED files
      \/ files[f] = Missing /\ files' = [files EXCEPT ![f].owner = t]
  BY <1>4 DEF Die
<1>6. /\ files' \in [Outputs -> EntryTypes]
      /\ \A g \in Outputs :
           \/ files'[g] = files[g]
           \/ files[g] = Missing /\ files'[g] = [owner |-> t, whole |-> FALSE]
  <2>1. CASE files[f] = Missing /\ files' = [files EXCEPT ![f].owner = t]
    <3> DEFINE torn == [owner |-> t, whole |-> FALSE]
    <3>1. files' = [files EXCEPT ![f] = torn]
      <4>1. [files[f] EXCEPT !.owner = t] = torn
        <5>1. Missing \in EntryTypes /\ Missing.whole = FALSE
          BY DEF Missing, EntryTypes
        <5>2. [files[f] EXCEPT !.owner = t] = [owner |-> t, whole |-> files[f].whole]
          BY <2>1, <5>1, EntryOwner
        <5>3. QED BY <2>1, <5>1, <5>2
      <4>2. files' = [files EXCEPT ![f] = [files[f] EXCEPT !.owner = t]]
        BY <1>1, <2>1 DEF Types
      <4>3. QED BY <4>1, <4>2
    <3>2. torn \in EntryTypes
      BY DEF EntryTypes
    <3> HIDE DEF torn
    <3>3. /\ files' \in [Outputs -> EntryTypes]
          /\ \A g \in Outputs : files'[g] = files[g] \/ (g = f /\ files'[g] = torn)
      BY <1>1, <3>1, <3>2 DEF Types
    <3>4. QED BY <2>1, <3>3 DEF torn
  <2>2. CASE UNCHANGED files
    BY <1>1, <2>2 DEF Types
  <2>3. QED BY <1>5, <2>1, <2>2
<1>7. Types' /\ Moves(t)
  BY <1>1, <1>3, <1>6 DEF Types, Moves, At, Running
<1>8. ToolInv(t)'
  BY <1>1, <1>2, <1>3 DEF ToolInv, At
<1>9. files'["manifest"] # files["manifest"] => ~files'["manifest"].whole
  BY <1>6, OutputNames
<1>10. QED BY <1>1, <1>7, <1>8, <1>9, MoveKeepsInvariant

-----------------------------------------------------------------------------
(* The invariant.                                                          *)

LEMMA ToolStepKeeps ==
  ASSUME ReviewInv, NEW t \in Tools, ToolStep(t) \/ Die(t)
  PROVE  Moves(t) /\ ReviewInv'
BY OpenKeeps, ReadSourceKeeps, ReadAgainKeeps, MakeDirectoryKeeps, WriteOutputKeeps,
   WriteManifestKeeps, DieKeeps DEF ToolStep

\* Who changes the source changes no invocation and no output.
LEMMA SourceChangeKeeps ==
  ASSUME ReviewInv, SourceInv', UNCHANGED <<tool, files>>,
         source.kind # "none" => source'.kind # "none"
  PROVE  ReviewInv'
<1>1. Types' /\ FilesInv'
  BY DEF ReviewInv, Types, FilesInv, At
<1>2. ASSUME NEW t \in Tools PROVE ToolInv(t)'
  BY DEF ReviewInv, ToolInv, At, WrittenBy, ToWrite
<1>3. QED BY <1>1, <1>2 DEF ReviewInv

LEMMA EnvironmentKeeps ==
  ASSUME ReviewInv, Analyse \/ DieWriting \/ Alter \/ Replace
  PROVE  ReviewInv' /\ UNCHANGED <<tool, files>>
<1> DEFINE S == [kind : {"none", "result", "failure", "torn"}, version : 0 .. 2,
                 inode : 0 .. MaxEdits + 1]
<1>1. /\ source \in S /\ edits \in 0 .. MaxEdits /\ source.inode <= edits + 1
      /\ subject.endpoint \in Subjects
  BY DEF ReviewInv, SourceInv
<1>2. CASE Analyse \/ DieWriting
  <2>1. source' \in {Source("result"), Source("failure"), Source("torn")}
        /\ UNCHANGED <<subject, edits, tool, files>>
    BY <1>2 DEF Analyse, DieWriting
  <2>2. source' \in S /\ source'.inode = 1 /\ source'.kind # "none"
    BY <2>1, MaxEditsAssumption DEF Source
  <2>3. SourceInv'
    BY <1>1, <2>1, <2>2 DEF SourceInv
  <2>4. QED BY <2>1, <2>2, <2>3, SourceChangeKeeps
<1>3. CASE Alter \/ Replace
  <2>1. /\ edits < MaxEdits /\ edits' = edits + 1 /\ UNCHANGED <<subject, tool, files>>
        /\ source.kind # "none"
    BY <1>3 DEF Alter, Replace
  <2>2. ASSUME Alter
        PROVE  source' \in S /\ source'.inode <= edits' + 1 /\ source'.kind = source.kind
    <3>1. source' = [source EXCEPT !.version = 2]
      BY <2>2 DEF Alter
    <3>2. source' \in S /\ source'.inode = source.inode /\ source'.kind = source.kind
      BY <1>1, <3>1
    <3>3. QED BY <1>1, <2>1, <3>2, MaxEditsAssumption
  <2>3. ASSUME Replace
        PROVE  source' \in S /\ source'.inode <= edits' + 1 /\ source'.kind = source.kind
    <3>1. PICK v \in {1, source.version} :
            source' = [source EXCEPT !.version = v, !.inode = source.inode + 1]
      BY <2>3 DEF Replace
    <3>2. v \in 0 .. 2 /\ source.inode + 1 \in 0 .. MaxEdits + 1
      BY <1>1, <2>1, MaxEditsAssumption
    <3>3. /\ source' \in S /\ source'.inode = source.inode + 1
          /\ source'.kind = source.kind
      BY <1>1, <3>1, <3>2
    <3>4. QED BY <1>1, <2>1, <3>3, MaxEditsAssumption
  <2>4. source' \in S /\ source'.inode <= edits' + 1 /\ source'.kind = source.kind
    BY <1>3, <2>2, <2>3
  <2>5. SourceInv'
    BY <1>1, <2>1, <2>4, MaxEditsAssumption DEF SourceInv
  <2>6. QED BY <2>1, <2>4, <2>5, SourceChangeKeeps
<1>4. QED BY <1>2, <1>3

LEMMA ReviewInit == Init => ReviewInv
<1> SUFFICES ASSUME Init PROVE ReviewInv
  OBVIOUS
<1>1. tool = [t \in Tools |-> NewTool] /\ files = [f \in Outputs |-> Missing]
  BY DEF Init
<1>2. NewTool \in ToolTypes
  <2>1. <<0, 0>> \in Firsts
    BY MaxEditsAssumption DEF Firsts
  <2>2. QED BY <2>1 DEF NewTool, ToolTypes, Phases, Statuses
<1>3. Types
  BY <1>1, <1>2 DEF Types, Missing, EntryTypes
<1>4. SourceInv
  <2>1. PICK e \in Subjects :
          \E w, raced : subject = [endpoint |-> e, world |-> w, raced |-> raced]
    BY DEF Init
  <2>2. QED BY <2>1, MaxEditsAssumption DEF Init, SourceInv
<1>5. FilesInv
  BY <1>1, OutputNames DEF FilesInv, Missing
<1>6. ASSUME NEW t \in Tools PROVE ToolInv(t)
  BY <1>1, NoToolAssumption, OutputNames DEF ToolInv, At, NewTool, Missing
<1>7. QED BY <1>3, <1>4, <1>5, <1>6 DEF ReviewInv

LEMMA ReviewStep == ReviewInv /\ [Next]_vars => ReviewInv'
<1> SUFFICES ASSUME ReviewInv, [Next]_vars PROVE ReviewInv'
  OBVIOUS
<1>1. CASE UNCHANGED vars
  <2>1. SourceInv' /\ UNCHANGED <<tool, files>> /\ UNCHANGED source
    BY <1>1 DEF vars, ReviewInv, SourceInv
  <2>2. QED BY <2>1, SourceChangeKeeps
<1>2. QED BY <1>1, ToolStepKeeps, EnvironmentKeeps DEF Next

-----------------------------------------------------------------------------
(* What somebody may make of a result.                                     *)

ResultFieldNames == {"sub_id", "status", "numerator", "denominator", "interval",
                     "block_records", "fidelity_records", "failure_ledger", "summary"}

\* The other fields keep their values.
LEMMA ChangedFieldStays ==
  ASSUME NEW x, NEW f, NEW v, NEW g \in DOMAIN x, g # f
  PROVE  [x EXCEPT ![f] = v][g] = x[g]
OBVIOUS

\* Every endpoint reports the nine fields.
LEMMA RunHasFields ==
  ASSUME NEW e \in Endpoints, NEW w
  PROVE  DOMAIN BindSnapshots(Run(e, w)) = ResultFieldNames
<1>1. \A q : DOMAIN BindSnapshots(q) = DOMAIN q
  BY DEF BindSnapshots
<1>2. \A blocks, fids, summary, n :
        DOMAIN Result(n, blocks, fids, summary) = ResultFieldNames
  BY DEF Result, ResultFieldNames
<1>3. \A n, status, numerator, denominator, blocks, fidelity, summary :
        DOMAIN Conformance(n, status, numerator, denominator, blocks, fidelity, summary)
          = ResultFieldNames
  BY DEF Conformance, ResultFieldNames
<1>4. DOMAIN RunA0(w) = ResultFieldNames
  BY DEF RunA0, ResultFieldNames
<1>5. DOMAIN RunE(w) = ResultFieldNames
  <2>1. \A q : DOMAIN Budgeted(q) = DOMAIN q
    BY DEF Budgeted
  <2>2. QED BY <1>2, <2>1 DEF RunE, EResult
<1>6. DOMAIN RunD2Cert(w) = ResultFieldNames
  BY <1>2 DEF RunD2Cert
<1>7. DOMAIN RunA1(w) = ResultFieldNames /\ DOMAIN RunB(e, w) = ResultFieldNames
      /\ DOMAIN RunD0(w) = ResultFieldNames /\ DOMAIN RunF0(w) = ResultFieldNames
  BY <1>2 DEF RunA1, RunB, RunD0, RunF0
<1>8. DOMAIN RunC(w) = ResultFieldNames /\ DOMAIN RunD1(w) = ResultFieldNames
      /\ DOMAIN RunD2Mem = ResultFieldNames
  BY <1>3 DEF RunC, RunD1, RunD2Mem
<1>9. QED BY <1>1, <1>4, <1>5, <1>6, <1>7, <1>8 DEF Run, Endpoints

\* What an altered field leaves alone.
LEMMA EditedResult ==
  ASSUME NEW r, DOMAIN r = ResultFieldNames, NEW v
  PROVE  /\ LET s == [r EXCEPT !.status = v]
            IN /\ s.numerator = r.numerator /\ s.block_records = r.block_records
               /\ s.fidelity_records = r.fidelity_records
               /\ s.failure_ledger = r.failure_ledger /\ s.summary = r.summary
         /\ LET s == [r EXCEPT !.numerator = v]
            IN /\ s.status = r.status /\ s.block_records = r.block_records
               /\ s.fidelity_records = r.fidelity_records
               /\ s.failure_ledger = r.failure_ledger /\ s.summary = r.summary
         /\ LET s == [r EXCEPT !.denominator = v]
            IN /\ s.status = r.status /\ s.numerator = r.numerator
               /\ s.block_records = r.block_records
         /\ LET s == [r EXCEPT !.fidelity_records = v]
            IN /\ s.status = r.status /\ s.numerator = r.numerator
               /\ s.block_records = r.block_records
         /\ LET s == [r EXCEPT !.block_records = v]
            IN /\ s.status = r.status /\ s.numerator = r.numerator
               /\ s.block_records = v /\ s.failure_ledger = r.failure_ledger
               /\ s.summary = r.summary
BY DEF ResultFieldNames

\* One field of one row, or one row less.
OneFieldChanged(rows, changes, altered) ==
  \E i \in DOMAIN rows, c \in changes : \E v \in c[2] :
    altered = [rows EXCEPT ![i] = [rows[i] EXCEPT ![c[1]] = v]]

LEMMA RowChangeCases ==
  ASSUME NEW rows, DOMAIN rows # {}, NEW changes, NEW altered \in RowChanges(rows, changes)
  PROVE  DOMAIN altered # DOMAIN rows \/ OneFieldChanged(rows, changes, altered)
<1> DEFINE i == SomeRow(rows)
<1>1. i \in DOMAIN rows
  BY DEF SomeRow
<1> DEFINE less == [j \in DOMAIN rows \ {i} |-> rows[j]]
<1>2. altered = less \/ \E c \in changes : altered \in RowWith(rows, i, c)
  BY DEF RowChanges
<1> HIDE DEF i
<1>3. CASE altered = less
  BY <1>1, <1>3
<1>4. ASSUME NEW c \in changes, altered \in RowWith(rows, i, c)
      PROVE  \E v \in c[2] : altered = [rows EXCEPT ![i] = [rows[i] EXCEPT ![c[1]] = v]]
  BY <1>4 DEF RowWith
<1> HIDE DEF less
<1>5. QED BY <1>1, <1>2, <1>3, <1>4 DEF OneFieldChanged

\* A result that states a witness the audit does not find is refused.
LEMMA MisstepsAreRefused ==
  ASSUME NEW world \in D1World, Misstep(world), NEW s,
         s.block_records = BindSnapshots(RunD1(world)).block_records,
         s.summary = BindSnapshots(RunD1(world)).summary
  PROVE  ~ConsistentD1(s)
<1> DEFINE witness == world.registered[1] # world.registered[2]
           agreed == world.registered = world.reference
           o == ~agreed
           d == witness # agreed
           fidelity == FidelityRecord(0, o, d)
           passed == witness /\ fidelity.status = "PASS"
           status == IF passed THEN "PASS" ELSE "FAIL"
           numerator == IF passed THEN 0 ELSE 1
           blocks == [i \in 1 .. 1 |-> [microstate_pair |-> WitnessPair,
                                       next_density |-> world.registered,
                                       failure_code |-> None]]
           summary == [nonclosure_witness |-> witness]
           r == BindSnapshots(RunD1(world))
<1>1. r = BindSnapshots(Conformance("D1", status, numerator, 1, blocks,
                                    FidelityRecord(0, o, d), summary))
  BY DEF RunD1
<1>2. /\ o \in BOOLEAN /\ d \in BOOLEAN
      /\ blocks[1].microstate_pair = WitnessPair /\ blocks[1].next_density = world.registered
      /\ summary.nonclosure_witness
  <2>1. witness
    BY DEF Misstep
  <2>2. o \in BOOLEAN /\ d \in BOOLEAN
    OBVIOUS
  <2>3. blocks[1].microstate_pair = WitnessPair /\ blocks[1].next_density = world.registered
    OBVIOUS
  <2>4. summary.nonclosure_witness = witness
    OBVIOUS
  <2> HIDE DEF o, d, blocks, summary, witness
  <2>5. QED BY <2>1, <2>2, <2>3, <2>4
<1> HIDE DEF o, d, blocks, summary, r, status, numerator
<1>3. r.block_records = blocks /\ r.summary = summary
  <2>1. Conforming(r, "D1", status, numerator, 1, blocks, o, d, summary)
    BY <1>1, <1>2, ConformanceFields
  <2>2. QED BY <2>1 DEF Conforming
<1>4. s.block_records[1] = blocks[1] /\ s.summary.nonclosure_witness
  BY <1>2, <1>3 DEF r
<1>5. world.registered # <<4, 0>>
  BY DEF Misstep
<1>6. QED BY <1>2, <1>4, <1>5, WitnessDensities DEF ConsistentD1

\* The three endpoints without codes keep their codes whatever is altered in
\* their rows, and a policy row of E keeps its code or its policy results.
LEMMA CodesOutOfReach ==
  ASSUME NEW e \in {"C", "D1", "D2-MEM"}, NEW world \in Worlds(e),
         NEW r, r = BindSnapshots(Run(e, world)),
         NEW i \in DOMAIN r.block_records, NEW c \in RowValues(e)
  PROVE  c[1] # "failure_code" /\ "failure_code" \in DOMAIN r.block_records[i]
<1>1. r.block_records = Run(e, world).block_records
  <2> DEFINE q == Run(e, world)
  <2>1. DOMAIN BindSnapshots(q) = ResultFieldNames
    BY RunHasFields DEF Endpoints
  <2>2. DOMAIN q = ResultFieldNames
    BY <2>1 DEF BindSnapshots
  <2> HIDE DEF q
  <2>3. QED BY <2>2 DEF BindSnapshots, ResultFieldNames, q
<1>2. c[1] # "failure_code"
  <2>1. CASE e = "C"
    <3>1. RowValues(e) = {<<"domain_exit", BOOLEAN>>, <<"clipping_applied", {TRUE}>>,
                          <<"path", {CCase(path).path : path \in Paths}>>}
      BY <2>1 DEF RowValues
    <3> DEFINE paths == {CCase(path).path : path \in Paths}
    <3> HIDE DEF paths
    <3>2. c \in {<<"domain_exit", BOOLEAN>>, <<"clipping_applied", {TRUE}>>, <<"path", paths>>}
      BY <3>1 DEF paths
    <3>3. \A name, values : <<name, values>>[1] = name
      OBVIOUS
    <3>4. c[1] \in {"domain_exit", "clipping_applied", "path"}
      BY <3>2, <3>3, Zenon
    <3>5. QED BY ONLY <3>4
  <2>2. CASE e = "D1"
    <3>1. RowValues(e) = {<<"next_density", CellCounts>>}
      BY <2>2 DEF RowValues
    <3>2. QED BY <3>1
  <2>3. CASE e = "D2-MEM"
    <3>1. RowValues(e) = {<<"coarse_sequence", {<<0, 0, 0, 0>>, <<0, 1, 1, 0>>}>>}
      BY <2>3 DEF RowValues
    <3>2. QED BY <3>1
  <2>4. QED BY <2>1, <2>2, <2>3
<1>3. \A n, status, numerator, denominator, blocks, fidelity, summary :
        Conformance(n, status, numerator, denominator, blocks, fidelity, summary).block_records
          = blocks
  BY DEF Conformance
<1>4. "failure_code" \in DOMAIN r.block_records[i]
  <2>1. CASE e = "C"
    <3> DEFINE blocks == [k \in Cases |-> CCase(world.paths[k])]
    <3>1. Run(e, world) = RunC(world)
      BY <2>1 DEF Run
    <3>2. RunC(world).block_records = blocks
      BY <1>3 DEF RunC
    <3>3. r.block_records = blocks
      BY <1>1, <3>1, <3>2
    <3>4. \A path : "failure_code" \in DOMAIN CCase(path)
      BY DEF CCase
    <3>5. QED BY <3>3, <3>4
  <2>2. CASE e = "D1"
    <3> DEFINE blocks == [k \in 1 .. 1 |-> [microstate_pair |-> WitnessPair,
                                            next_density |-> world.registered,
                                            failure_code |-> None]]
    <3>1. Run(e, world) = RunD1(world)
      BY <2>2 DEF Run
    <3>2. RunD1(world).block_records = blocks
      BY <1>3 DEF RunD1
    <3>3. r.block_records = blocks
      BY <1>1, <3>1, <3>2
    <3>4. QED BY <3>3
  <2>3. CASE e = "D2-MEM"
    <3>1. Run(e, world) = RunD2Mem
      BY <2>3 DEF Run
    <3>2. RunD2Mem.block_records = SwapBlocks
      BY <1>3 DEF RunD2Mem
    <3>3. r.block_records = SwapBlocks
      BY <1>1, <3>1, <3>2
    <3>4. QED BY <3>3 DEF SwapBlocks
  <2>4. QED BY <2>1, <2>2, <2>3
<1>5. QED BY <1>2, <1>4

LEMMA EBlockNames ==
  ASSUME NEW world \in EWorld, NEW i \in Blocks
  PROVE  LET rows == BindSnapshots(RunE(world)).block_records
         IN {"policy_results", "failure_code"} \subseteq DOMAIN rows[i]
<1> DEFINE blocks == [k \in Blocks |-> EBlock(k, world[k])]
           q == RunE(world)
<1>1. \A k, rows : {"policy_results", "failure_code"} \subseteq DOMAIN EBlockOf(k, rows)
  BY DEF EBlockOf
<1>2. {"policy_results", "failure_code"} \subseteq DOMAIN blocks[i]
  BY <1>1 DEF EBlock
<1> HIDE DEF blocks
<1>3. \A fids, summary : Budgeted(Result("E", blocks, fids, summary)).block_records = blocks
  BY DEF Budgeted, Result
<1>4. q.block_records = blocks
  BY <1>3 DEF RunE, EResult, blocks
<1>5. DOMAIN BindSnapshots(q) = ResultFieldNames
  <2>1. "E" \in Endpoints /\ Run("E", world) = q
    BY DEF Run, Endpoints
  <2>2. QED BY <2>1, RunHasFields
<1> HIDE DEF q
<1>6. BindSnapshots(q).block_records = blocks
  BY <1>4, <1>5 DEF BindSnapshots, ResultFieldNames
<1>7. QED BY <1>2, <1>6 DEF q

-----------------------------------------------------------------------------
(* An altered result that the audit accepts has the verdict it had.        *)

Original == BindSnapshots(Run(subject.endpoint, subject.world))

SubjectInv ==
  /\ subject.endpoint \in Endpoints
  /\ subject.world \in Worlds(subject.endpoint)

LEMMA CleanWorldsAreWorlds ==
  /\ \A e \in Endpoints : CleanWorlds[e] \in Worlds(e) /\ Clean(e, CleanWorlds[e])
  /\ ~Misstep(CleanWorlds["D1"])
<1>1. \A e \in Endpoints : CleanWorlds[e] \in Worlds(e) /\ Clean(e, CleanWorlds[e])
  <2> TAKE e \in Endpoints
  <2>1. CleanWorlds[e] = CHOOSE w \in Worlds(e) : Clean(e, w)
    BY DEF CleanWorlds
  <2>2. \E w \in Worlds(e) : Clean(e, w)
    BY CleanAssumption
  <2>3. QED BY <2>1, <2>2
<1>2. CleanWorlds["D1"].registered = <<4, 0>>
  BY <1>1 DEF Clean, Endpoints
<1>3. QED BY <1>1, <1>2 DEF Misstep

LEMMA SubjectsResult ==
  ASSUME subject.endpoint \in Endpoints, NEW r
  PROVE  /\ DOMAIN ResultsWith(r) = Endpoints
         /\ ResultsWith(r)[subject.endpoint] = r
         /\ \A f \in Endpoints \ {subject.endpoint} : ResultsWith(r)[f] = CleanResults[f]
<1>1. DOMAIN CleanResults = Endpoints
  BY DEF CleanResults
<1>2. QED BY <1>1 DEF ResultsWith

LEMMA OriginalPasses ==
  ASSUME SubjectInv, ~MisstepsOnWitness
  PROVE  AuditPasses(ResultsWith(Original))
<1> DEFINE e == subject.endpoint
           worlds == [f \in Endpoints |-> IF f = e THEN subject.world ELSE CleanWorlds[f]]
<1>1. \A f \in Endpoints : worlds[f] \in Worlds(f)
  BY CleanWorldsAreWorlds DEF SubjectInv
<1>2. ~Misstep(worlds["D1"])
  <2>1. "D1" \in Endpoints
    BY DEF Endpoints
  <2>2. CASE e = "D1"
    BY <2>1, <2>2 DEF MisstepsOnWitness, Misstep
  <2>3. CASE e # "D1"
    BY <2>1, <2>3, CleanWorldsAreWorlds
  <2>4. QED BY <2>2, <2>3
<1>3. ResultsWith(Original) = ResultsOf(worlds)
  <2> DEFINE results == ResultsWith(Original)
             others == ResultsOf(worlds)
  <2>1. /\ DOMAIN results = Endpoints /\ results[e] = Original
        /\ \A f \in Endpoints \ {e} : results[f] = CleanResults[f]
    BY SubjectsResult DEF SubjectInv
  <2>2. \A f \in Endpoints : others[f] = BindSnapshots(Run(f, worlds[f]))
    BY DEF ResultsOf
  <2>3. \A f \in Endpoints : CleanResults[f] = BindSnapshots(Run(f, CleanWorlds[f]))
    BY DEF CleanResults
  <2>4. others[e] = Original /\ \A f \in Endpoints \ {e} : others[f] = CleanResults[f]
    BY <2>2, <2>3 DEF Original, SubjectInv
  <2>5. results = [f \in Endpoints |-> results[f]] /\ others = [f \in Endpoints |-> others[f]]
    <3>1. others = [f \in Endpoints |-> others[f]]
      BY DEF ResultsOf
    <3>2. results = [f \in Endpoints |-> results[f]]
      BY DEF ResultsWith, CleanResults
    <3>3. QED BY <3>1, <3>2
  <2> HIDE DEF results, others, worlds
  <2>6. \A f \in Endpoints : results[f] = others[f]
    BY <2>1, <2>4
  <2>7. results = others
    BY <2>5, <2>6
  <2>8. QED BY <2>7 DEF results, others
<1> HIDE DEF worlds
<1>4. QED BY <1>1, <1>2, <1>3, ComputedBundlesPassTheirAudit

LEMMA WitnessBlocks ==
  ASSUME NEW world
  PROVE  DOMAIN RunD1(world).block_records = 1 .. 1
BY DEF RunD1, Conformance

LEMMA OriginalRows ==
  ASSUME SubjectInv
  PROVE  DOMAIN Original.block_records = RecordDomain(subject.endpoint)
<1> DEFINE e == subject.endpoint
<1>1. CASE ~MisstepsOnWitness
  <2>1. Consistent(e, ResultsWith(Original)) /\ ResultsWith(Original)[e] = Original
    BY <1>1, OriginalPasses, SubjectsResult DEF AuditPasses, SubjectInv
  <2>2. BaseEndpointCheck(e, Original)
    BY <2>1 DEF SubjectInv, Endpoints, Consistent, ConsistentA0, ConsistentA1, ConsistentB,
                ConsistentC, ConsistentD0, ConsistentD1, ConsistentD2Cert,
                ConsistentD2Mem, ConsistentE, ConsistentF0
  <2>3. QED BY <2>2 DEF BaseEndpointCheck
<1>2. CASE MisstepsOnWitness
  <2>1. e = "D1"
    BY <1>2 DEF MisstepsOnWitness
  <2> DEFINE q == Run(e, subject.world)
  <2>2. q = RunD1(subject.world)
    BY <2>1 DEF Run
  <2>3. DOMAIN q.block_records = 1 .. 1
    BY <2>2, WitnessBlocks
  <2>4. DOMAIN BindSnapshots(q) = ResultFieldNames
    BY RunHasFields DEF SubjectInv
  <2>5. BindSnapshots(q).block_records = q.block_records
    <3> HIDE DEF q
    <3>1. DOMAIN q = ResultFieldNames
      BY <2>4 DEF BindSnapshots
    <3>2. QED BY <3>1 DEF BindSnapshots, ResultFieldNames
  <2>6. QED BY <2>1, <2>3, <2>5 DEF Original, RecordDomain
<1>3. QED BY <1>1, <1>2

LEMMA RecordsExist ==
  ASSUME NEW e \in Endpoints
  PROVE  RecordDomain(e) # {}
<1>1. 1 \in Blocks /\ 0 \in Candidates /\ 1 \in Cases
  BY BlockCountAssumption, CandidateCountAssumption, CountsAssumption
     DEF Blocks, Candidates, Cases
<1>2. <<0, 0>> \in (0 .. 1) \X (0 .. 1) /\ 1 \in 1 .. 1
  OBVIOUS
<1>3. QED BY <1>1, <1>2 DEF RecordDomain

LEMMA AuditedPart ==
  ASSUME subject.endpoint \in Endpoints, NEW r, AuditPasses(ResultsWith(r))
  PROVE  /\ Consistent(subject.endpoint, ResultsWith(r))
         /\ ResultsWith(r)[subject.endpoint] = r
         /\ BaseEndpointCheck(subject.endpoint, r)
<1>1. Consistent(subject.endpoint, ResultsWith(r)) /\ ResultsWith(r)[subject.endpoint] = r
  BY SubjectsResult DEF AuditPasses
<1>2. BaseEndpointCheck(subject.endpoint, r)
  BY <1>1 DEF Endpoints, Consistent, ConsistentA0, ConsistentA1, ConsistentB,
              ConsistentC, ConsistentD0, ConsistentD1, ConsistentD2Cert,
              ConsistentD2Mem, ConsistentE, ConsistentF0
<1>3. QED BY <1>1, <1>2

LEMMA OriginalFields ==
  ASSUME SubjectInv
  PROVE  DOMAIN Original = ResultFieldNames
BY RunHasFields DEF Original, SubjectInv

\* A block that was adverse stays adverse.
LEMMA AlteredRowsKeepVerdict ==
  ASSUME SubjectInv,
         NEW rows \in RowChanges(Original.block_records, RowValues(subject.endpoint)),
         AuditPasses(ResultsWith([Original EXCEPT !.block_records = rows]))
  PROVE  Failing(rows) = Failing(Original.block_records)
<1> DEFINE e == subject.endpoint
           blocks == Original.block_records
           altered == [Original EXCEPT !.block_records = rows]
<1>1. e \in Endpoints /\ subject.world \in Worlds(e)
  BY DEF SubjectInv
<1>2. altered.block_records = rows /\ altered.failure_ledger = Original.failure_ledger
  BY OriginalFields, EditedResult
<1>3. /\ Consistent(e, ResultsWith(altered)) /\ ResultsWith(altered)[e] = altered
      /\ BaseEndpointCheck(e, altered)
  BY <1>1, AuditedPart
<1> HIDE DEF altered
<1>4. DOMAIN rows = DOMAIN blocks /\ DOMAIN blocks = RecordDomain(e)
  BY <1>2, <1>3, OriginalRows DEF BaseEndpointCheck
<1>5. PICK i \in DOMAIN blocks, c \in RowValues(e) : \E v \in c[2] :
        rows = [blocks EXCEPT ![i] = [blocks[i] EXCEPT ![c[1]] = v]]
  <2>1. DOMAIN blocks # {}
    BY <1>1, <1>4, RecordsExist
  <2>2. OneFieldChanged(blocks, RowValues(e), rows)
    BY <1>4, <2>1, RowChangeCases
  <2>3. QED BY <2>2 DEF OneFieldChanged
<1>6. PICK v \in c[2] : rows = [blocks EXCEPT ![i] = [blocks[i] EXCEPT ![c[1]] = v]]
  BY <1>5
<1>7. rows[i] = [blocks[i] EXCEPT ![c[1]] = v] /\ \A j \in DOMAIN blocks \ {i} : rows[j] = blocks[j]
  BY <1>6
<1>8. e # "D1" => Consistent(e, ResultsWith(Original)) /\ ResultsWith(Original)[e] = Original
  BY <1>1, OriginalPasses, AuditedPart DEF MisstepsOnWitness
<1> HIDE DEF blocks
<1>9. CASE e \in {"C", "D1", "D2-MEM"}
  <2>1. c[1] # "failure_code" /\ "failure_code" \in DOMAIN blocks[i]
    BY <1>1, <1>5, <1>9, CodesOutOfReach DEF Original, blocks
  <2>2. rows[i].failure_code = blocks[i].failure_code
    BY <1>7, <2>1, ChangedFieldStays
  <2>3. \A j \in DOMAIN blocks : rows[j].failure_code = blocks[j].failure_code
    BY <1>7, <2>2
  <2>4. QED BY <1>4, <2>3 DEF Failing, blocks
<1>10. CASE e \in Endpoints \ {"C", "D1", "D2-MEM", "E"}
  BY <1>2, <1>3, <1>8, <1>10, LedgerKeepsAdverse
<1>11. CASE e = "E"
  <2>1. blocks = BindSnapshots(RunE(subject.world)).block_records /\ subject.world \in EWorld
    BY <1>1, <1>11 DEF Original, Run, Worlds, blocks
  <2>2. DOMAIN blocks = Blocks
    BY <1>4, <1>11 DEF RecordDomain
  <2>3. "policy_results" \in DOMAIN blocks[i] /\ "failure_code" \in DOMAIN blocks[i]
    BY <2>1, <2>2, EBlockNames
  <2>4. \/ rows[i].policy_results = blocks[i].policy_results
        \/ rows[i].failure_code = blocks[i].failure_code
    <3>1. CASE c[1] # "policy_results"
      BY <1>7, <2>3, <3>1, ChangedFieldStays
    <3>2. CASE c[1] # "failure_code"
      BY <1>7, <2>3, <3>2, ChangedFieldStays
    <3>3. QED BY <3>1, <3>2
  <2>5. \A j \in Blocks : \/ rows[j].policy_results = blocks[j].policy_results
                          \/ rows[j].failure_code = blocks[j].failure_code
    BY <1>7, <2>2, <2>4
  <2>6. QED
    BY <1>2, <1>3, <1>8, <1>11, <2>5, ECodesKeepAdverse DEF blocks
<1>12. QED BY <1>1, <1>9, <1>10, <1>11

\* Neither the status nor the count can be changed alone.
LEMMA AlteredConclusionsAreRefused ==
  ASSUME SubjectInv, NEW r,
         r.block_records = Original.block_records,
         r.fidelity_records = Original.fidelity_records,
         r.failure_ledger = Original.failure_ledger,
         r.summary = Original.summary,
         AuditPasses(ResultsWith(r))
  PROVE  Verdict(r) = Verdict(Original)
<1> DEFINE e == subject.endpoint
           results == ResultsWith(Original)
           others == ResultsWith(r)
<1>1. e \in Endpoints /\ subject.world \in Worlds(e)
  BY DEF SubjectInv
<1>2. Consistent(e, others) /\ others[e] = r
  BY <1>1, AuditedPart
<1>3. CASE MisstepsOnWitness
  <2>1. e = "D1" /\ Misstep(subject.world)
    BY <1>3 DEF MisstepsOnWitness, Misstep
  <2>2. subject.world \in D1World /\ Original = BindSnapshots(RunD1(subject.world))
    BY <1>1, <2>1 DEF Worlds, Original, Run
  <2>3. ~ConsistentD1(r)
    BY <2>1, <2>2, MisstepsAreRefused
  <2>4. QED BY <1>2, <2>1, <2>3 DEF Consistent
<1>4. CASE ~MisstepsOnWitness
  <2>1. Consistent(e, results) /\ results[e] = Original
    BY <1>1, <1>4, OriginalPasses, AuditedPart
  <2>2. e = "A1" => A0Signatures(others) = A0Signatures(results)
    <3>1. e = "A1" => others["A0"] = CleanResults["A0"] /\ results["A0"] = CleanResults["A0"]
      BY <1>1, SubjectsResult DEF Endpoints
    <3>2. QED BY <3>1 DEF A0Signatures
  <2> HIDE DEF results, others
  <2>3. SameEvidence(e, results, others)
    BY <1>2, <2>1, <2>2 DEF SameEvidence
  <2>4. SameConclusion(e, results, others)
    BY <1>1, <1>2, <2>1, <2>3, EvidenceDeterminesConclusion
  <2>5. r.status = Original.status /\ r.numerator = Original.numerator
    BY <1>2, <2>1, <2>4 DEF SameConclusion
  <2>6. QED BY <2>5 DEF Verdict
<1>5. QED BY <1>3, <1>4

LEMMA AlteredResultsKeepVerdict ==
  ASSUME SubjectInv, NEW r,
         r \in ResultChanges(subject.endpoint, Original)
           \/ \E v : r = [Original EXCEPT !.numerator = v],
         AuditPasses(ResultsWith(r))
  PROVE  Verdict(r) = Verdict(Original)
<1> DEFINE e == subject.endpoint
           q == Original
<1>0. DOMAIN q = ResultFieldNames
  BY OriginalFields
<1>1. ASSUME NEW rows \in RowChanges(q.block_records, RowValues(e)),
             r = [q EXCEPT !.block_records = rows]
      PROVE  Verdict(r) = Verdict(q)
  <2>1. Failing(rows) = Failing(q.block_records)
    BY <1>1, AlteredRowsKeepVerdict
  <2>2. r.status = q.status /\ r.numerator = q.numerator /\ r.block_records = rows
    BY <1>0, <1>1, EditedResult
  <2> HIDE DEF q
  <2>3. QED BY <2>1, <2>2 DEF Verdict
<1> HIDE DEF q
<1>2. ASSUME NEW v, \/ r = [q EXCEPT !.fidelity_records = v]
                    \/ r = [q EXCEPT !.denominator = v]
      PROVE  Verdict(r) = Verdict(q)
  <2>1. r.status = q.status /\ r.numerator = q.numerator /\ r.block_records = q.block_records
    BY <1>0, <1>2 DEF ResultFieldNames
  <2>2. QED BY <2>1 DEF Verdict
<1>3. ASSUME NEW v, r = [q EXCEPT !.status = v] \/ r = [q EXCEPT !.numerator = v]
      PROVE  Verdict(r) = Verdict(q)
  <2>1. /\ r.block_records = q.block_records /\ r.fidelity_records = q.fidelity_records
        /\ r.failure_ledger = q.failure_ledger /\ r.summary = q.summary
    BY <1>0, <1>3 DEF ResultFieldNames
  <2>2. QED BY <2>1, AlteredConclusionsAreRefused DEF q
<1>4. QED BY <1>1, <1>2, <1>3 DEF ResultChanges, q

LEMMA AlteredBundlesKeepVerdict ==
  ASSUME SubjectInv, NEW synthetic,
         NEW b \in BundleChanges(Bundle(Original, synthetic), subject.endpoint),
         Acceptable(b)
  PROVE  b.complete /\ Verdict(b.result) = Verdict(Original)
<1> DEFINE q == Original
           a == Bundle(q, synthetic)
<1>1. a.complete = TRUE /\ a.result = q /\ DOMAIN a = {"label", "evidence", "identified",
        "ordered", "complete", "result"}
  BY DEF Bundle
<1>2. AuditPasses(ResultsIn(b))
  BY DEF Acceptable
<1>3. \/ b = [a EXCEPT !.complete = FALSE]
      \/ b.complete = TRUE /\ b.result = q
      \/ \E r : /\ b.complete = TRUE /\ b.result = r
                /\ \/ r \in ResultChanges(subject.endpoint, q)
                   \/ \E v : r = [q EXCEPT !.numerator = v]
  <2>1. CASE Racing
    <3>1. \/ b = [a EXCEPT !.label = "TEST_ONLY_SYNTHETIC", !.evidence = FALSE]
          \/ b = [a EXCEPT !.result = [a.result EXCEPT !.numerator = a.result.numerator + 1]]
      BY <2>1 DEF BundleChanges
    <3> HIDE DEF a, q
    <3>2. CASE b = [a EXCEPT !.label = "TEST_ONLY_SYNTHETIC", !.evidence = FALSE]
      BY <1>1, <3>2
    <3>3. CASE b = [a EXCEPT !.result = [a.result EXCEPT !.numerator = a.result.numerator + 1]]
      <4>1. b.complete = TRUE /\ b.result = [q EXCEPT !.numerator = q.numerator + 1]
        BY <1>1, <3>3
      <4>2. QED BY <4>1
    <3>4. QED BY <3>1, <3>2, <3>3
  <2>2. CASE ~Racing
    <3>1. \/ b \in {[a EXCEPT !.evidence = ~a.evidence], [a EXCEPT !.identified = FALSE],
                    [a EXCEPT !.ordered = FALSE], [a EXCEPT !.complete = FALSE]}
          \/ \E r \in ResultChanges(subject.endpoint, a.result) : b = [a EXCEPT !.result = r]
      BY <2>2 DEF BundleChanges
    <3> HIDE DEF a, q
    <3>2. QED BY <1>1, <3>1
  <2>3. QED BY <2>1, <2>2
<1> HIDE DEF a, q
<1>4. CASE b = [a EXCEPT !.complete = FALSE]
  <2>1. b.complete = FALSE
    BY <1>1, <1>4
  <2>2. DOMAIN ResultsIn(b) = Endpoints \ {subject.endpoint}
    BY <2>1 DEF ResultsIn
  <2>3. QED BY <1>2, <2>2 DEF AuditPasses, SubjectInv
<1>5. CASE b.complete = TRUE
  <2>1. ResultsIn(b) = ResultsWith(b.result)
    BY <1>5 DEF ResultsIn
  <2>2. CASE b.result = q
    BY <1>5, <2>2 DEF q
  <2>3. ASSUME b.result \in ResultChanges(subject.endpoint, q)
                 \/ \E v : b.result = [q EXCEPT !.numerator = v]
        PROVE  Verdict(b.result) = Verdict(q)
    <3> DEFINE r == b.result
    <3>1. AuditPasses(ResultsWith(r))
      BY <1>2, <2>1
    <3>2. r \in ResultChanges(subject.endpoint, Original)
            \/ \E v : r = [Original EXCEPT !.numerator = v]
      BY <2>3 DEF q
    <3> HIDE DEF r
    <3>3. Verdict(r) = Verdict(Original)
      BY <3>1, <3>2, AlteredResultsKeepVerdict
    <3>4. QED BY <3>3 DEF r, q
  <2>4. QED BY <1>3, <1>4, <1>5, <2>2, <2>3 DEF q
<1>6. QED BY <1>3, <1>4, <1>5

LEMMA OriginalIsAcceptable ==
  ASSUME SubjectInv, ~MisstepsOnWitness, NEW synthetic \in BOOLEAN
  PROVE  Acceptable(Bundle(Original, synthetic))
<1> DEFINE b == Bundle(Original, synthetic)
<1>1. /\ b.identified = TRUE /\ b.ordered = TRUE /\ b.complete = TRUE
      /\ b.result = Original
      /\ b.evidence = (b.label # "TEST_ONLY_SYNTHETIC")
  BY DEF Bundle
<1> HIDE DEF b
<1>2. ResultsIn(b) = ResultsWith(Original)
  BY <1>1 DEF ResultsIn
<1>3. AuditPasses(ResultsIn(b))
  BY <1>2, OriginalPasses
<1>4. QED BY <1>1, <1>3 DEF Acceptable, b

-----------------------------------------------------------------------------
(* What the file holds, and what an invocation has judged.                 *)

\* The first version is what the analysis computed; whatever version is
\* acceptable has its verdict.
ContentsInv ==
  source.kind = "result" =>
    /\ \/ contents = <<contents[1]>>
       \/ contents = <<contents[1], contents[2]>>
    /\ \E synthetic \in BOOLEAN : contents[1].bundle = Bundle(Original, synthetic)
    /\ ~MisstepsOnWitness => contents[1].acceptable
    /\ \A v \in DOMAIN contents : contents[v].acceptable =>
         /\ contents[v].bundle.complete
         /\ Verdict(contents[v].bundle.result) = Verdict(Original)
    /\ source.version \in DOMAIN contents

\* An invocation blocks unless what it read first is acceptable, and blocks
\* for nothing else as long as nobody changes the file.
JudgedBy(t) ==
  /\ tool[t].kind = "none" => ~tool[t].blocking
  /\ tool[t].pc # "done" => tool[t].status = "none"
  /\ tool[t].pc \in {"idle", "read"} => tool[t].kind = "none"
  /\ tool[t].kind = "result" =>
       /\ source.kind = "result" /\ tool[t].first[1] \in DOMAIN contents
       /\ ~tool[t].blocking => contents[tool[t].first[1]].acceptable
  /\ tool[t].kind # "none" /\ edits = 0 => tool[t].first = <<source.version, source.inode>>
  /\ tool[t].blocking /\ edits = 0 => source.kind = "result" /\ ~contents[1].acceptable
  /\ Passed(t) => tool[t].kind = "result" /\ ~tool[t].blocking
  /\ tool[t].status = "BLOCKING_RESULT_INCONSISTENCY" => tool[t].blocking

JudgeInv ==
  /\ SubjectInv
  /\ ContentsInv
  /\ source.kind \in {"result", "failure"} /\ edits = 0 => source.version = 1
  /\ \A t \in Tools : JudgedBy(t)

LEMMA JudgeInit == Init => JudgeInv
<1> SUFFICES ASSUME Init PROVE JudgeInv
  OBVIOUS
<1>1. PICK e \in Subjects : \E w \in Worlds(e) : \E raced \in BOOLEAN :
        subject = [endpoint |-> e, world |-> w, raced |-> raced]
  BY DEF Init
<1>2. SubjectInv
  BY <1>1, SubjectsAssumption DEF SubjectInv
<1>3. source.kind = "none"
  BY DEF Init
<1>4. \A t \in Tools : tool[t] = NewTool
  BY DEF Init
<1>5. \A t \in Tools : JudgedBy(t)
  BY <1>4 DEF JudgedBy, NewTool, Passed
<1>6. QED BY <1>2, <1>3, <1>5 DEF JudgeInv, ContentsInv

\* The analysis writes what it computed.
LEMMA AnalyseJudged ==
  ASSUME ReviewInv, JudgeInv, Analyse
  PROVE  JudgeInv'
<1>1. /\ UNCHANGED <<subject, edits, tool, files>> /\ source.kind = "none"
      /\ source' \in {Source("result"), Source("failure")}
  BY DEF Analyse
<1>2. SubjectInv' /\ Original' = Original /\ (MisstepsOnWitness <=> MisstepsOnWitness')
  BY <1>1 DEF JudgeInv, SubjectInv, Original, MisstepsOnWitness
<1>3. ContentsInv'
  <2> SUFFICES ASSUME source'.kind = "result" PROVE ContentsInv'
    BY DEF ContentsInv
  <2>1. PICK synthetic \in BOOLEAN : 
          /\ source' = Source("result")
          /\ contents' = <<Version(Bundle(LockedEndpointSet[subject.endpoint], synthetic))>>
    <3>1. source' # Source("failure") /\ source' = Source("result")
      BY <1>1 DEF Source
    <3>2. \E s \in {FALSE} \cup {u \in {TRUE} : Racing} :
            contents' = <<Version(Bundle(LockedEndpointSet[subject.endpoint], s))>>
      BY <3>1, Zenon DEF Analyse
    <3>3. \A s \in {FALSE} \cup {u \in {TRUE} : Racing} : s \in BOOLEAN
      OBVIOUS
    <3>4. QED BY <3>1, <3>2, <3>3
  <2>2. LockedEndpointSet[subject.endpoint] = Original
    BY SubjectsResult DEF LockedEndpointSet, Original, JudgeInv, SubjectInv
  <2> DEFINE b == Bundle(Original, synthetic)
  <2>3. contents' = <<Version(b)>> /\ source'.version = 1
    BY <2>1, <2>2 DEF Source
  <2>4. /\ b.complete /\ b.result = Original
        /\ ~MisstepsOnWitness => Acceptable(b)
    <3>1. b.complete = TRUE /\ b.result = Original
      BY DEF Bundle
    <3>2. ~MisstepsOnWitness => Acceptable(b)
      BY OriginalIsAcceptable DEF JudgeInv
    <3>3. QED BY <3>1, <3>2
  <2>5. Version(b).bundle = b /\ Version(b).acceptable = Acceptable(b)
    BY DEF Version
  <2> HIDE DEF b
  <2>6. /\ contents' = <<contents'[1]>> /\ DOMAIN contents' = {1} /\ contents'[1] = Version(b)
    BY <2>3
  <2>7. /\ \E s \in BOOLEAN : contents'[1].bundle = Bundle(Original, s)
        /\ ~MisstepsOnWitness => contents'[1].acceptable
        /\ contents'[1].bundle = b
    BY <2>4, <2>5, <2>6 DEF b
  <2>8. QED BY <1>2, <2>3, <2>4, <2>6, <2>7 DEF ContentsInv
<1>4. source'.version = 1
  BY <1>1 DEF Source
<1>5. ASSUME NEW t \in Tools PROVE JudgedBy(t)'
  <2>1. tool[t].pc = "idle" /\ tool'[t] = tool[t] /\ JudgedBy(t)
    BY <1>1 DEF ReviewInv, ToolInv, At, JudgeInv
  <2>2. tool[t].kind = "none"
    BY <2>1 DEF JudgedBy
  <2>3. QED BY <2>1, <2>2 DEF JudgedBy, Passed
<1>6. QED BY <1>2, <1>3, <1>4, <1>5 DEF JudgeInv

LEMMA DieWritingJudged ==
  ASSUME ReviewInv, JudgeInv, DieWriting
  PROVE  JudgeInv'
<1>1. /\ UNCHANGED <<subject, contents, edits, tool, files>> /\ source.kind = "none"
      /\ source'.kind = "torn"
  BY DEF DieWriting, Source
<1>2. SubjectInv'
  BY <1>1 DEF JudgeInv, SubjectInv
<1>3. ASSUME NEW t \in Tools PROVE JudgedBy(t)'
  <2>1. tool[t].pc = "idle" /\ tool'[t] = tool[t] /\ JudgedBy(t)
    BY <1>1 DEF ReviewInv, ToolInv, At, JudgeInv
  <2>2. tool[t].kind = "none"
    BY <2>1 DEF JudgedBy
  <2>3. QED BY <2>1, <2>2 DEF JudgedBy, Passed
<1>4. QED BY <1>1, <1>2, <1>3 DEF JudgeInv, ContentsInv

LEMMA SecondVersion ==
  ASSUME NEW x, NEW y
  PROVE  Append(<<x>>, y) = <<x, y>>
<1> DEFINE S == {x, y}
           s == Append(<<x>>, y)
<1>1. <<x>> \in Seq(S) /\ y \in S
  OBVIOUS
<1> HIDE DEF S
<1>2. s \in Seq(S) /\ Len(s) = 2 /\ s[1] = x /\ s[2] = y
  BY <1>1
<1> HIDE DEF s
<1>3. s \in [1 .. 2 -> S] /\ <<x, y>> \in [1 .. 2 -> S]
  <2>1. DOMAIN s = 1 .. 2
    BY <1>2
  <2>2. <<x, y>> \in [1 .. 2 -> S]
    BY DEF S
  <2>3. QED BY <1>2, <2>1, <2>2
<1>4. \A i \in 1 .. 2 : s[i] = <<x, y>>[i]
  <2>1. s[1] = <<x, y>>[1] /\ s[2] = <<x, y>>[2]
    BY <1>2
  <2>2. QED BY <2>1
<1>5. s = <<x, y>>
  BY <1>3, <1>4
<1>6. QED BY <1>5 DEF s

LEMMA AlterJudged ==
  ASSUME ReviewInv, JudgeInv, Alter
  PROVE  JudgeInv'
<1>1. /\ UNCHANGED <<subject, tool, files>> /\ source.kind = "result" /\ edits' = edits + 1
      /\ source' = [source EXCEPT !.version = 2] /\ Len(contents) = 1
  BY DEF Alter
<1>2. PICK b \in BundleChanges(contents[1].bundle, subject.endpoint) :
        contents' = Append(contents, Version(b))
  BY DEF Alter
<1>3. SubjectInv' /\ Original' = Original /\ (MisstepsOnWitness <=> MisstepsOnWitness')
  BY <1>1 DEF JudgeInv, SubjectInv, Original, MisstepsOnWitness
<1>4. contents = <<contents[1]>>
  <2>1. contents = <<contents[1]>> \/ contents = <<contents[1], contents[2]>>
    BY <1>1 DEF JudgeInv, ContentsInv
  <2>2. Len(<<contents[1], contents[2]>>) = 2
    OBVIOUS
  <2>3. QED BY <1>1, <2>1, <2>2
<1>5. contents' = <<contents[1], Version(b)>>
  BY <1>2, <1>4, SecondVersion
<1>6. /\ contents'[1] = contents[1] /\ contents'[2] = Version(b) /\ DOMAIN contents' = {1, 2}
      /\ DOMAIN contents = {1}
  BY <1>4, <1>5
<1>7. source'.version = 2 /\ source'.kind = "result"
  BY <1>1 DEF ReviewInv, SourceInv
<1>8. edits' # 0
  BY <1>1, MaxEditsAssumption DEF ReviewInv, SourceInv
<1>9. Version(b).acceptable => /\ Version(b).bundle.complete
                               /\ Verdict(Version(b).bundle.result) = Verdict(Original)
  <2>1. PICK synthetic \in BOOLEAN : contents[1].bundle = Bundle(Original, synthetic)
    BY <1>1 DEF JudgeInv, ContentsInv
  <2>2. b \in BundleChanges(Bundle(Original, synthetic), subject.endpoint)
    BY <1>2, <2>1
  <2>3. Acceptable(b) => b.complete /\ Verdict(b.result) = Verdict(Original)
    BY <2>2, AlteredBundlesKeepVerdict DEF JudgeInv
  <2>4. Version(b).bundle = b /\ Version(b).acceptable = Acceptable(b)
    BY DEF Version
  <2>5. QED BY <2>3, <2>4
<1>10. ContentsInv'
  <2>1. /\ \E s \in BOOLEAN : contents[1].bundle = Bundle(Original, s)
        /\ ~MisstepsOnWitness => contents[1].acceptable
        /\ contents[1].acceptable =>
             /\ contents[1].bundle.complete
             /\ Verdict(contents[1].bundle.result) = Verdict(Original)
    BY <1>1, <1>6 DEF JudgeInv, ContentsInv
  <2>2. \A v \in DOMAIN contents' : contents'[v].acceptable =>
          /\ contents'[v].bundle.complete
          /\ Verdict(contents'[v].bundle.result) = Verdict(Original)
    BY <1>6, <1>9, <2>1
  <2>3. contents' = <<contents'[1], contents'[2]>> /\ source'.version \in DOMAIN contents'
    BY <1>5, <1>6, <1>7
  <2>4. QED BY <1>3, <1>6, <2>1, <2>2, <2>3 DEF ContentsInv
<1>11. ASSUME NEW t \in Tools PROVE JudgedBy(t)'
  <2>1. JudgedBy(t) /\ tool'[t] = tool[t]
    BY <1>1 DEF JudgeInv
  <2>2. tool[t].kind = "result" =>
          /\ tool[t].first[1] \in DOMAIN contents'
          /\ ~tool[t].blocking => contents'[tool[t].first[1]].acceptable
    BY <1>6, <2>1 DEF JudgedBy
  <2>3. QED BY <1>7, <1>8, <2>1, <2>2 DEF JudgedBy, Passed
<1>12. QED BY <1>3, <1>8, <1>10, <1>11 DEF JudgeInv

LEMMA ReplaceJudged ==
  ASSUME ReviewInv, JudgeInv, Replace
  PROVE  JudgeInv'
<1>1. /\ UNCHANGED <<subject, contents, tool, files>> /\ edits' = edits + 1
      /\ source.kind \in {"result", "failure"}
  BY DEF Replace
<1>2. PICK v \in {1, source.version} :
        source' = [source EXCEPT !.version = v, !.inode = source.inode + 1]
  BY DEF Replace
<1>3. SubjectInv' /\ Original' = Original /\ (MisstepsOnWitness <=> MisstepsOnWitness')
  BY <1>1 DEF JudgeInv, SubjectInv, Original, MisstepsOnWitness
<1>4. source'.kind = source.kind /\ source'.version = v
  BY <1>2 DEF ReviewInv, SourceInv
<1>5. edits' # 0
  BY <1>1, MaxEditsAssumption DEF ReviewInv, SourceInv
<1>6. ContentsInv'
  <2> SUFFICES ASSUME source.kind = "result" PROVE ContentsInv'
    BY <1>4 DEF ContentsInv
  <2>1. ContentsInv
    BY DEF JudgeInv
  <2>2. 1 \in DOMAIN contents /\ source.version \in DOMAIN contents
    BY <2>1 DEF ContentsInv
  <2>3. source'.version \in DOMAIN contents
    BY <1>4, <2>2
  <2>4. QED BY <1>1, <1>3, <1>4, <2>1, <2>3 DEF ContentsInv
<1>7. ASSUME NEW t \in Tools PROVE JudgedBy(t)'
  <2>1. JudgedBy(t)
    BY DEF JudgeInv
  <2>2. QED BY <1>1, <1>4, <1>5, <2>1 DEF JudgedBy, Passed
<1>8. QED BY <1>3, <1>5, <1>6, <1>7 DEF JudgeInv

\* A step of one invocation has to keep its own judgement only.
LEMMA OneJudges ==
  ASSUME ReviewInv, JudgeInv, NEW t \in Tools, Moves(t),
         UNCHANGED <<subject, source, contents, edits>>, JudgedBy(t)'
  PROVE  JudgeInv'
<1>1. SubjectInv' /\ Original' = Original /\ (MisstepsOnWitness <=> MisstepsOnWitness')
  BY DEF JudgeInv, SubjectInv, Original, MisstepsOnWitness
<1>2. ContentsInv'
  BY <1>1 DEF JudgeInv, ContentsInv
<1>3. ASSUME NEW u \in Tools \ {t} PROVE JudgedBy(u)'
  <2>1. JudgedBy(u) /\ tool'[u] = tool[u]
    BY DEF JudgeInv, Moves
  <2>2. QED BY <2>1 DEF JudgedBy, Passed
<1>4. QED BY <1>1, <1>2, <1>3 DEF JudgeInv

\* What a step may leave alone: what an invocation read and how it judged it.
LEMMA JudgementStays ==
  ASSUME NEW t \in Tools, JudgedBy(t), UNCHANGED <<source, contents, edits>>,
         tool'[t].kind = tool[t].kind, tool'[t].first = tool[t].first,
         tool'[t].blocking = tool[t].blocking, tool'[t].status = tool[t].status,
         tool[t].pc # "done", tool'[t].pc \in {"idle", "read"} => tool[t].pc \in {"idle", "read"}
  PROVE  JudgedBy(t)'
BY DEF JudgedBy, Passed

LEMMA ToolStepJudged ==
  ASSUME ReviewInv, JudgeInv, NEW t \in Tools, ToolStep(t) \/ Die(t)
  PROVE  JudgeInv'
<1> DEFINE x == tool[t]
           y == tool'[t]
<1>1. Moves(t) /\ JudgedBy(t) /\ tool \in [Tools -> ToolTypes] /\ x \in ToolTypes
  BY ToolStepKeeps DEF ReviewInv, Types, JudgeInv
<1>2. UNCHANGED <<subject, source, contents, edits>>
  BY DEF ToolStep, Open, ReadSource, ReadAgain, MakeDirectory, WriteOutput,
         WriteManifest, Die
<1>3. x.pc # "done"
  BY <1>1 DEF Moves, At
<1>4. ASSUME NEW pc \in Phases, y.pc = pc, y.kind = x.kind, y.first = x.first, 
             y.blocking = x.blocking, y.status = x.status,
             pc \in {"idle", "read"} => x.pc \in {"idle", "read"}
      PROVE  JudgeInv'
  <2>1. JudgedBy(t)'
    BY <1>1, <1>2, <1>3, <1>4, JudgementStays
  <2>2. QED BY <1>1, <1>2, <2>1, OneJudges
<1>5. CASE Raised(t)
  <2>1. tool' = [tool EXCEPT ![t] = [x EXCEPT !.pc = "done", !.exit = 3]]
    BY <1>1, <1>5 DEF Raised
  <2>2. /\ y.pc = "done" /\ y.kind = x.kind /\ y.first = x.first
        /\ y.blocking = x.blocking /\ y.status = x.status
    BY <1>1, <2>1 DEF ToolTypes
  <2>3. "done" \in Phases /\ "done" \notin {"idle", "read"}
    BY DEF Phases
  <2> HIDE DEF x, y
  <2>4. QED BY <1>4, <2>2, <2>3
<1>6. CASE Open(t) /\ ~Raised(t)
  <2>1. PICK synthetic \in BOOLEAN, expected \in {"any", "original"} :
          tool' = [tool EXCEPT ![t].pc = "read", ![t].synthetic = synthetic,
                               ![t].expected = expected]
    BY <1>6 DEF Open
  <2>2. tool' = [tool EXCEPT ![t] = [x EXCEPT !.pc = "read", !.synthetic = synthetic,
                                              !.expected = expected]]
    BY <1>1, <2>1
  <2>3. /\ y.pc = "read" /\ y.kind = x.kind /\ y.first = x.first
        /\ y.blocking = x.blocking /\ y.status = x.status
    BY <1>1, <2>2 DEF ToolTypes
  <2>4. "read" \in Phases /\ x.pc = "idle"
    BY <1>6 DEF Phases, Running, Open, At
  <2> HIDE DEF x, y
  <2>5. QED BY <1>4, <2>3, <2>4
<1>7. CASE MakeDirectory(t) /\ ~Raised(t)
  <2>1. tool' = [tool EXCEPT ![t] = [x EXCEPT !.pc = "write"]]
    BY <1>1, <1>7 DEF MakeDirectory
  <2>2. /\ y.pc = "write" /\ y.kind = x.kind /\ y.first = x.first
        /\ y.blocking = x.blocking /\ y.status = x.status
    BY <1>1, <2>1 DEF ToolTypes
  <2>3. "write" \in Phases
    BY DEF Phases, Running
  <2> HIDE DEF x, y
  <2>4. QED BY <1>4, <2>2, <2>3
<1>8. CASE WriteOutput(t) /\ ~Raised(t)
  <2>1. tool' = [tool EXCEPT ![t] = [x EXCEPT !.written = x.written + 1]]
    BY <1>1, <1>8 DEF WriteOutput
  <2>2. /\ y.pc = x.pc /\ y.kind = x.kind /\ y.first = x.first
        /\ y.blocking = x.blocking /\ y.status = x.status
    BY <1>1, <2>1 DEF ToolTypes
  <2>3. x.pc = "write" /\ x.pc \in Phases
    BY <1>8 DEF WriteOutput, At, Phases, Running
  <2> HIDE DEF x, y
  <2>4. QED BY <1>4, <2>2, <2>3
<1>9. CASE Die(t)
  <2>1. tool' = [tool EXCEPT ![t] = [x EXCEPT !.pc = "dead"]]
    BY <1>1, <1>9 DEF Die
  <2>2. /\ y.pc = "dead" /\ y.kind = x.kind /\ y.first = x.first
        /\ y.blocking = x.blocking /\ y.status = x.status
    BY <1>1, <2>1 DEF ToolTypes
  <2>3. "dead" \in Phases
    BY DEF Phases
  <2> HIDE DEF x, y
  <2>4. QED BY <1>4, <2>2, <2>3
<1>10. CASE ReadSource(t) /\ ~Raised(t)
  <2> DEFINE first == <<source.version, source.inode>>
             blocking == \/ x.expected = "original" /\ source.version # 1
                         \/ source.kind = "result" /\ ~contents[source.version].acceptable
  <2>1. /\ x.pc = "read" /\ source.kind # "torn" 
        /\ tool' = [tool EXCEPT ![t] = [x EXCEPT !.pc = "reread", !.kind = source.kind,
                                                 !.first = first, !.blocking = blocking]]
    BY <1>1, <1>10 DEF ReadSource, At
  <2>2. source.kind # "none" /\ source.kind \in {"none", "result", "failure", "torn"}
    BY <2>1 DEF ReviewInv, ToolInv, SourceInv, At
  <2>3. x.kind = "none" /\ x.status = "none"
    BY <1>1, <2>1 DEF JudgedBy
  <2>4. blocking \in BOOLEAN /\ first[1] = source.version
    OBVIOUS
  <2>5. blocking /\ edits = 0 => source.kind = "result" /\ ~contents[1].acceptable
    BY <2>1, <2>2 DEF JudgeInv
  <2>6. source.kind = "result" =>
          /\ source.version \in DOMAIN contents
          /\ ~blocking => contents[source.version].acceptable
    BY DEF JudgeInv, ContentsInv
  <2> HIDE DEF blocking, first
  <2>7. /\ y.pc = "reread" /\ y.kind = source.kind /\ y.first = first
        /\ y.blocking = blocking /\ y.status = "none"
    BY <1>1, <2>1, <2>3 DEF ToolTypes
  <2>8. JudgedBy(t)'
    <3>1. y.first = <<source'.version, source'.inode>>
      BY <1>2, <2>7 DEF first
    <3> HIDE DEF y
    <3>2. /\ y.kind # "none" /\ y.pc \notin {"idle", "read", "done"}
          /\ y.status \notin {"PASS", "PASS_TEST_ONLY_COMPATIBILITY"}
          /\ y.status # "BLOCKING_RESULT_INCONSISTENCY"
      BY <2>2, <2>7
    <3>3. y.kind = "result" =>
            /\ source'.kind = "result" /\ y.first[1] \in DOMAIN contents'
            /\ ~y.blocking => contents'[y.first[1]].acceptable
      BY <1>2, <2>4, <2>6, <2>7
    <3>4. y.blocking /\ edits' = 0 => source'.kind = "result" /\ ~contents'[1].acceptable
      BY <1>2, <2>5, <2>7
    <3>5. QED BY <2>7, <3>1, <3>2, <3>3, <3>4 DEF JudgedBy, Passed, y
  <2>9. QED BY <1>1, <1>2, <2>8, OneJudges
<1>11. CASE ReadAgain(t)
  <2> DEFINE blocking == x.blocking \/ x.first # <<source.version, source.inode>>
  <2>1. /\ x.pc = "reread"
        /\ tool' = [tool EXCEPT ![t] = [x EXCEPT !.pc = "mkdir", !.blocking = blocking]]
    BY <1>1, <1>11 DEF ReadAgain, At
  <2>2. x.kind \in {"result", "failure"}
    BY <2>1 DEF ReviewInv, ToolInv, At
  <2>3. /\ edits = 0 => (blocking <=> x.blocking)
        /\ x.blocking => blocking
    BY <1>1, <2>2 DEF JudgedBy
  <2>4. x.status = "none"
    BY <1>1, <2>1 DEF JudgedBy
  <2> HIDE DEF blocking
  <2>5. /\ y.pc = "mkdir" /\ y.kind = x.kind /\ y.first = x.first
        /\ y.blocking = blocking /\ y.status = "none"
    BY <1>1, <2>1, <2>4 DEF ToolTypes
  <2>6. JudgedBy(t)'
    <3> HIDE DEF y
    <3>1. /\ x.kind = "result" =>
                 /\ source.kind = "result" /\ x.first[1] \in DOMAIN contents
                 /\ ~x.blocking => contents[x.first[1]].acceptable
          /\ edits = 0 => x.first = <<source.version, source.inode>>
          /\ x.blocking /\ edits = 0 => source.kind = "result" /\ ~contents[1].acceptable
      BY <1>1, <2>2 DEF JudgedBy
    <3> HIDE DEF x
    <3>2. QED BY <1>2, <2>2, <2>3, <2>5, <3>1 DEF JudgedBy, Passed, y
  <2>7. QED BY <1>1, <1>2, <2>6, OneJudges
<1>12. CASE WriteManifest(t) /\ ~Raised(t)
  <2> DEFINE status == OverallStatus(t)
             exit == IF x.blocking THEN 2 ELSE 0
  <2>1. /\ x.pc = "write"
        /\ tool' = [tool EXCEPT ![t] = [x EXCEPT !.pc = "done", !.status = status,
                                                 !.exit = exit]]
    BY <1>1, <1>12 DEF WriteManifest, At
  <2>2. x.kind \in {"result", "failure"} /\ x.blocking \in BOOLEAN
    BY <1>1, <2>1 DEF ReviewInv, ToolInv, At, ToolTypes
  <2>3. /\ x.blocking => status = "BLOCKING_RESULT_INCONSISTENCY"
        /\ ~x.blocking => status # "BLOCKING_RESULT_INCONSISTENCY"
        /\ status \in {"PASS", "PASS_TEST_ONLY_COMPATIBILITY"} => x.kind = "result" /\ ~x.blocking
    <3>1. CASE x.blocking
      BY <3>1 DEF OverallStatus
    <3>2. CASE ~x.blocking /\ x.kind = "failure"
      BY <3>2 DEF OverallStatus
    <3>3. CASE ~x.blocking /\ x.kind = "result"
      BY <3>3 DEF OverallStatus
    <3>4. QED BY <2>2, <3>1, <3>2, <3>3
  <2> HIDE DEF status, exit
  <2>4. /\ y.pc = "done" /\ y.kind = x.kind /\ y.first = x.first
        /\ y.blocking = x.blocking /\ y.status = status
    BY <1>1, <2>1 DEF ToolTypes
  <2>5. JudgedBy(t)'
    <3> HIDE DEF y
    <3>1. /\ x.kind = "result" =>
                 /\ source.kind = "result" /\ x.first[1] \in DOMAIN contents
                 /\ ~x.blocking => contents[x.first[1]].acceptable
          /\ edits = 0 => x.first = <<source.version, source.inode>>
          /\ x.blocking /\ edits = 0 => source.kind = "result" /\ ~contents[1].acceptable
      BY <1>1, <2>2 DEF JudgedBy
    <3> HIDE DEF x
    <3>2. QED BY <1>2, <2>2, <2>3, <2>4, <3>1 DEF JudgedBy, Passed, y
  <2>6. QED BY <1>1, <1>2, <2>5, OneJudges
<1>13. QED BY <1>5, <1>6, <1>7, <1>8, <1>9, <1>10, <1>11, <1>12 DEF ToolStep

LEMMA JudgeStep == ReviewInv /\ JudgeInv /\ [Next]_vars => JudgeInv'
<1> SUFFICES ASSUME ReviewInv, JudgeInv, [Next]_vars PROVE JudgeInv'
  OBVIOUS
<1>1. CASE UNCHANGED vars
  <2>1. UNCHANGED <<subject, source, contents, edits, tool>>
    BY <1>1 DEF vars
  <2>2. SubjectInv' /\ Original' = Original /\ (MisstepsOnWitness <=> MisstepsOnWitness')
    BY <2>1 DEF JudgeInv, SubjectInv, Original, MisstepsOnWitness
  <2>3. ContentsInv'
    BY <2>1, <2>2 DEF JudgeInv, ContentsInv
  <2>4. \A t \in Tools : JudgedBy(t)'
    BY <2>1 DEF JudgeInv, JudgedBy, Passed
  <2>5. QED BY <2>1, <2>2, <2>3, <2>4 DEF JudgeInv
<1>2. QED
  BY <1>1, AnalyseJudged, DieWritingJudged, AlterJudged, ReplaceJudged, ToolStepJudged
  DEF Next

LEMMA JudgeAlways == Spec => [](ReviewInv /\ JudgeInv)
<1>1. Init => ReviewInv /\ JudgeInv
  BY ReviewInit, JudgeInit
<1>2. ReviewInv /\ JudgeInv /\ [Next]_vars => (ReviewInv /\ JudgeInv)'
  BY ReviewStep, JudgeStep
<1>3. QED BY <1>1, <1>2, PTL DEF Spec

-----------------------------------------------------------------------------
(* Evaluators that disagree.                                               *)

\* A conclusion that counts every disagreement and is no success.
Counted(r, disagreements) ==
  disagreements # {} => /\ r.status \notin Successes
                        /\ r.numerator >= Cardinality(disagreements)

LEMMA BindingKeepsConclusion ==
  ASSUME NEW q, DOMAIN q = ResultFieldNames
  PROVE  BindSnapshots(q).status = q.status /\ BindSnapshots(q).numerator = q.numerator
BY DEF BindSnapshots, ResultFieldNames

\* In the endpoints of many blocks, a block without a stable fidelity has a code.
LEMMA FailingBlocksAreCounted ==
  ASSUME NEW e, NEW blocks, DOMAIN blocks = Blocks, NEW fidelities, NEW summary,
         NEW disagreements \in SUBSET Failing(blocks)
  PROVE  LET r == Result(e, blocks, fidelities, summary)
         IN disagreements # {} => /\ r.status = "FAIL"
                                  /\ r.numerator >= Cardinality(disagreements)
<1> DEFINE failing == Failing(blocks)
           r == Result(e, blocks, fidelities, summary)
<1>1. r.status = (IF failing = {} THEN "PASS" ELSE "FAIL") /\ r.numerator = Cardinality(failing)
  BY DEF Result
<1>2. IsFiniteSet(failing)
  BY Counts, FailingIsCounted
<1> HIDE DEF failing, r
<1>3. /\ Cardinality(disagreements) <= Cardinality(failing)
      /\ Cardinality(disagreements) \in Nat /\ Cardinality(failing) \in Nat
  BY <1>2, FS_Subset, FS_CardinalityType DEF failing
<1>4. disagreements # {} => failing # {}
  BY DEF failing
<1>5. QED BY <1>1, <1>3, <1>4 DEF r

LEMMA UnstableBlocksFail ==
  ASSUME NEW id, NEW o, NEW d, o, NEW adverse
  PROVE  /\ FidelityRecord(id, o, d).status = "FIDELITY_INDETERMINATE"
         /\ CodeOf(FidelityRecord(id, o, d), adverse) # None
BY NoneAssumption DEF FidelityRecord, CodeOf

LEMMA BlockDisagreementsAreCounted ==
  ASSUME NEW e \in {"A1", "B0", "B1", "D0", "D2-CERT", "F0"}, NEW world \in Worlds(e)
  PROVE  Counted(Run(e, world), Disagreements(e, world))
<1> DEFINE D == {i \in Blocks : world[i].registered # world[i].reference}
<1>1. Disagreements(e, world) = D
  BY DEF Disagreements
<1>2. ASSUME NEW f, NEW blocks, DOMAIN blocks = Blocks,
             \A i \in D : blocks[i].failure_code # None, NEW fidelities, NEW summary
      PROVE  LET r == Result(f, blocks, fidelities, summary)
             IN D # {} => r.status = "FAIL" /\ r.numerator >= Cardinality(D)
  <2>1. D \in SUBSET Failing(blocks)
    BY <1>2 DEF Failing
  <2> HIDE DEF D
  <2>2. QED BY <1>2, <2>1, FailingBlocksAreCounted
<1>3. ASSUME NEW blocks, DOMAIN blocks = Blocks,
             \A i \in D : blocks[i].failure_code # None, NEW fidelities, NEW summary,
             Run(e, world) = Result(e, blocks, fidelities, summary)
      PROVE  Counted(Run(e, world), D)
  <2> HIDE DEF D
  <2>1. D # {} => /\ Run(e, world).status = "FAIL"
                  /\ Run(e, world).numerator >= Cardinality(D)
    BY <1>2, <1>3
  <2>2. QED BY <2>1 DEF Counted, Successes
<1>4. CASE e = "A1"
  <2> DEFINE blocks == [i \in Blocks |-> A1Block(i, world[i])]
  <2>1. \A i \in D : blocks[i].failure_code # None
    <3> TAKE i \in D
    <3> DEFINE w == world[i]
    <3>1. w.registered # w.reference
      OBVIOUS
    <3> HIDE DEF w
    <3>2. A1Block(i, w).failure_code # None
      BY <3>1, UnstableBlocksFail DEF A1Block, A1Fidelity
    <3>3. QED BY <3>2 DEF w
  <2> HIDE DEF D
  <2>2. QED BY <1>1, <1>3, <1>4, <2>1 DEF Run, RunA1
<1>5. CASE e \in {"B0", "B1"}
  <2> DEFINE blocks == [i \in Blocks |-> BBlock(e, i, world[i])]
  <2>1. \A i \in D : blocks[i].failure_code # None
    <3> TAKE i \in D
    <3> DEFINE w == world[i]
    <3>1. w.registered # w.reference
      OBVIOUS
    <3> HIDE DEF w
    <3>2. BBlock(e, i, w).failure_code # None
      BY <3>1, UnstableBlocksFail DEF BBlock, BFidelity
    <3>3. QED BY <3>2 DEF w
  <2> HIDE DEF D
  <2>2. QED BY <1>1, <1>3, <1>5, <2>1 DEF Run, RunB
<1>6. CASE e = "D0"
  <2> DEFINE blocks == [i \in Blocks |-> D0Block(i, world[i])]
  <2>1. \A i \in D : blocks[i].failure_code # None
    <3> TAKE i \in D
    <3> DEFINE w == world[i]
    <3>1. w.registered # w.reference
      OBVIOUS
    <3> HIDE DEF w
    <3>2. D0Fidelity(i, w).status # "PASS"
      BY <3>1, UnstableBlocksFail DEF D0Fidelity
    <3>3. D0Block(i, w).failure_code # None
      BY <3>2, NoneAssumption DEF D0Block
    <3>4. QED BY <3>3 DEF w
  <2> HIDE DEF D
  <2>2. QED BY <1>1, <1>3, <1>6, <2>1 DEF Run, RunD0
<1>7. CASE e = "F0"
  <2> DEFINE blocks == [i \in Blocks |-> F0Block(i, world[i])]
  <2>1. \A i \in D : blocks[i].failure_code # None
    <3> TAKE i \in D
    <3> DEFINE w == world[i]
    <3>1. w.registered # w.reference
      OBVIOUS
    <3> HIDE DEF w
    <3>2. F0Block(i, w).failure_code # None
      BY <3>1, UnstableBlocksFail DEF F0Block, F0Fidelity
    <3>3. QED BY <3>2 DEF w
  <2> HIDE DEF D
  <2>2. QED BY <1>1, <1>3, <1>7, <2>1 DEF Run, RunF0
<1>8. CASE e = "D2-CERT"
  <2> DEFINE blocks == [i \in Blocks |-> D2Block(i, world[i])]
             fidelities == [i \in Blocks |-> D2Fidelity(i, world[i])]
             violations == Cardinality({i \in Blocks : world[i].registered > 0})
             summary == [violation_count |-> violations, certificate_granted |-> FALSE]
             q == Result("D2-CERT", blocks, fidelities, summary)
             status == IF ~(\A i \in Blocks : D2Fidelity(i, world[i]).status = "PASS")
                       THEN "FIDELITY_INDETERMINATE"
                       ELSE IF violations >= WithdrawalCount
                       THEN "LOCKED_AUDIT_WITHDRAWAL_TRIGGERED"
                       ELSE "NOT_CONTRADICTED_BY_LOCKED_AUDIT"
  <2>1. \A i \in D : /\ D2Fidelity(i, world[i]).status # "PASS"
                     /\ blocks[i].failure_code # None
    <3> TAKE i \in D
    <3> DEFINE w == world[i]
    <3>1. w.registered # w.reference
      OBVIOUS
    <3> HIDE DEF w
    <3>2. D2Fidelity(i, w).status # "PASS"
      BY <3>1, UnstableBlocksFail DEF D2Fidelity
    <3>3. D2Block(i, w).failure_code # None
      BY <3>1, UnstableBlocksFail DEF D2Block, D2Fidelity
    <3>4. QED BY <3>2, <3>3 DEF w
  <2>2. Run(e, world) = [q EXCEPT !.interval = violations, !.status = status]
    BY <1>8 DEF Run, RunD2Cert
  <2>3. DOMAIN q = ResultFieldNames
    BY DEF Result, ResultFieldNames
  <2>4. D # {} => q.numerator >= Cardinality(D)
    <3> HIDE DEF fidelities, summary
    <3>1. DOMAIN blocks = Blocks
      OBVIOUS
    <3> HIDE DEF D, blocks
    <3>2. QED BY <1>2, <2>1, <3>1
  <2>5. D # {} => status = "FIDELITY_INDETERMINATE"
    BY <2>1
  <2> HIDE DEF q, status, violations, D
  <2>6. Run(e, world).status = status /\ Run(e, world).numerator = q.numerator
    BY <2>2, <2>3 DEF ResultFieldNames
  <2>7. QED BY <1>1, <2>4, <2>5, <2>6 DEF Counted, Successes
<1>9. QED BY <1>4, <1>5, <1>6, <1>7, <1>8

LEMMA MismatchesAreCounted ==
  ASSUME NEW world \in A0World
  PROVE  Counted(RunA0(world), Disagreements("A0", world))
<1> DEFINE D == {c \in Candidates : world[c].table + world[c].simulator > 0}
           M == {m \in Candidates \X (0 .. 2) :
                   IF m[2] = 0 THEN world[m[1]].table = 1
                               ELSE m[2] <= world[m[1]].simulator}
           f == [c \in D |-> <<c, IF world[c].table = 1 THEN 0 ELSE 1>>]
<1>1. Disagreements("A0", world) = D /\ Mismatches(world) = Cardinality(M)
  BY DEF Disagreements, Mismatches
<1>2. IsFiniteSet(M)
  <2>1. IsFiniteSet(0 .. 2)
    <3>1. 0 \in Int /\ 2 \in Int
      OBVIOUS
    <3>2. QED BY ONLY <3>1, FS_Interval
  <2>2. IsFiniteSet(Candidates \X (0 .. 2))
    BY <2>1, Counts, FS_Product
  <2>3. M \in SUBSET (Candidates \X (0 .. 2))
    OBVIOUS
  <2> HIDE DEF M
  <2>4. QED BY <2>2, <2>3, FS_Subset
<1>3. f \in Injection(D, M)
  <2>1. \A c \in D : f[c] \in M
    <3> TAKE c \in D
    <3>1. /\ world[c].table \in 0 .. 1 /\ world[c].simulator \in 0 .. 2
          /\ world[c].table + world[c].simulator > 0
      BY DEF A0World
    <3>2. CASE world[c].table = 1
      <4>1. f[c] = <<c, 0>>
        BY <3>2
      <4>2. <<c, 0>> \in M
        BY <3>2
      <4>3. QED BY <4>1, <4>2
    <3>3. CASE world[c].table # 1
      <4>1. f[c] = <<c, 1>>
        BY <3>3
      <4>2. 1 <= world[c].simulator
        BY <3>1, <3>3
      <4>3. <<c, 1>> \in M
        BY <4>2
      <4>4. QED BY <4>1, <4>3
    <3>4. QED BY <3>2, <3>3
  <2>2. \A c \in D : f[c][1] = c
    OBVIOUS
  <2>3. DOMAIN f = D /\ f = [c \in D |-> f[c]]
    OBVIOUS
  <2> HIDE DEF f, D, M
  <2>4. f \in [D -> M]
    BY <2>1, <2>3
  <2>5. QED BY <2>2, <2>4 DEF Injection, IsInjective
<1>4. /\ IsFiniteSet(D) /\ Cardinality(D) <= Cardinality(M)
      /\ Cardinality(D) \in Nat /\ Cardinality(M) \in Nat
  <2> HIDE DEF f, D, M
  <2>1. IsFiniteSet(D) /\ Cardinality(D) <= Cardinality(M)
    BY <1>2, <1>3, FS_Injection
  <2>2. QED BY <1>2, <2>1, FS_CardinalityType
<1> HIDE DEF D, M
<1>5. D # {} => Mismatches(world) # 0
  <2>1. D # {} => Cardinality(D) # 0
    BY <1>4, FS_EmptySet
  <2>2. QED BY <1>1, <1>4, <2>1
<1>6. /\ RunA0(world).numerator = Mismatches(world)
      /\ RunA0(world).status = IF Mismatches(world) = 0 THEN "PASS" ELSE "FAIL"
  BY DEF RunA0
<1>7. QED BY <1>1, <1>4, <1>5, <1>6 DEF Counted, Successes

LEMMA SingleDisagreement ==
  ASSUME NEW test
  PROVE  LET D == {k \in {1} : test}
         IN /\ D # {} => test
            /\ D # {} => Cardinality(D) = 1
<1>1. {k \in {1} : test} # {} => test /\ {k \in {1} : test} = {1}
  OBVIOUS
<1>2. QED BY <1>1, FS_Singleton

LEMMA ConformanceDisagreementsAreCounted ==
  ASSUME NEW e \in {"C", "D1"}, NEW world \in Worlds(e)
  PROVE  Counted(Run(e, world), Disagreements(e, world))
<1>1. CASE e = "C"
  <2> DEFINE registered == [violations |-> ViolationsOf(world.paths),
                            exits |-> ExitsOf(world.paths)]
             o == registered # world.reference
             d == CStatus(registered) # CStatus(world.reference)
             D == Disagreements(e, world)
  <2>1. D = {k \in {1} : o}
    BY <1>1 DEF Disagreements
  <2>2. (D # {} => o) /\ (D # {} => Cardinality(D) = 1)
    <3> HIDE DEF o, D
    <3>1. QED BY <2>1, SingleDisagreement
  <2>3. o => FidelityRecord(0, o, d).status # "PASS"
    <3> HIDE DEF o, d
    <3>1. QED BY UnstableBlocksFail
  <2>4. FidelityRecord(0, o, d).status # "PASS" =>
          /\ RunC(world).status = "FIDELITY_INDETERMINATE"
          /\ RunC(world).numerator = CaseCount
    BY DEF RunC, Conformance
  <2> HIDE DEF o, d, D, registered
  <2>5. Run(e, world) = RunC(world)
    BY <1>1 DEF Run
  <2>6. D # {} => /\ Run(e, world).status = "FIDELITY_INDETERMINATE"
                  /\ Run(e, world).numerator >= Cardinality(D)
    BY <2>2, <2>3, <2>4, <2>5, CountsAssumption
  <2>7. QED BY <2>6 DEF Counted, Successes, D
<1>2. CASE e = "D1"
  <2> DEFINE agreed == world.registered = world.reference
             witness == world.registered[1] # world.registered[2]
             o == ~agreed
             d == witness # agreed
             D == Disagreements(e, world)
  <2>1. D = {k \in {1} : o}
    BY <1>2 DEF Disagreements
  <2>2. (D # {} => o) /\ (D # {} => Cardinality(D) = 1)
    <3> HIDE DEF o, D
    <3>1. QED BY <2>1, SingleDisagreement
  <2>3. o => FidelityRecord(0, o, d).status # "PASS"
    <3> HIDE DEF o, d
    <3>1. QED BY UnstableBlocksFail
  <2>4. FidelityRecord(0, o, d).status # "PASS" =>
          RunD1(world).status = "FAIL" /\ RunD1(world).numerator = 1
    BY DEF RunD1, Conformance
  <2> HIDE DEF o, d, D
  <2>5. Run(e, world) = RunD1(world)
    BY <1>2 DEF Run
  <2>6. D # {} => /\ Run(e, world).status = "FAIL"
                  /\ Run(e, world).numerator >= Cardinality(D)
    BY <2>2, <2>3, <2>4, <2>5
  <2>7. QED BY <2>6 DEF Counted, Successes, D
<1>3. QED BY <1>1, <1>2

LEMMA PolicyDisagreementsAreCounted ==
  ASSUME NEW world \in EWorld
  PROVE  Counted(RunE(world), Disagreements("E", world))
<1> DEFINE D == {i \in Blocks : \E p \in Policies :
                   LET c == Accepted(p, world[i])
                   IN c = None \/ world[i].reference[c] # world[i].loss[c]}
           blocks == [i \in Blocks |-> EBlock(i, world[i])]
           fidelities == [i \in Blocks |-> EFidelity(i, world[i])]
           summary == PolicyTotals(blocks)
           q == Result("E", blocks, fidelities, summary)
<1>1. Disagreements("E", world) = D /\ RunE(world) = Budgeted(q)
  BY DEF Disagreements, RunE, EResult
<1>2. \A i \in D : blocks[i].failure_code # None
  <2> TAKE i \in D
  <2> DEFINE w == world[i]
             b == EBlock(i, w)
  <2>1. PICK p \in Policies : LET c == Accepted(p, w)
                              IN c = None \/ w.reference[c] # w.loss[c]
    OBVIOUS
  <2> HIDE DEF w
  <2>2. ~Sound(w, Accepted(p, w))
    BY <2>1 DEF Sound
  <2>3. PolicyRow(p, w).fidelity_status # "PASS"
    BY <2>2, PolicyRowFields
  <2>4. EBlockMade(b, i, w)
    BY EBlockFields
  <2> HIDE DEF b
  <2>5. ~EMatches(b)
    BY <2>3, <2>4 DEF EBlockMade, EMatches
  <2>6. b.failure_code # None
    BY <2>4, <2>5, NoneAssumption DEF EBlockMade
  <2>7. QED BY <2>6 DEF b, w
<1>3. DOMAIN blocks = Blocks
  OBVIOUS
<1>4. D \in SUBSET Failing(blocks) /\ D \in SUBSET Blocks
  BY <1>2 DEF Failing
<1> HIDE DEF D, blocks, fidelities, summary
<1>5. D # {} => q.status = "FAIL" /\ q.numerator >= Cardinality(D)
  BY <1>3, <1>4, FailingBlocksAreCounted
<1>6. BlockCount >= Cardinality(D)
  BY <1>4, Counts, FS_Subset
<1>7. DOMAIN q = ResultFieldNames
  BY DEF Result, ResultFieldNames
<1> HIDE DEF q
<1>8. \/ Budgeted(q) = q
      \/ Budgeted(q) = [q EXCEPT !.status = "FAIL", !.numerator = BlockCount,
                                 !.interval = BlockCount]
  BY DEF Budgeted
<1>9. D # {} => Budgeted(q).status = "FAIL" /\ Budgeted(q).numerator >= Cardinality(D)
  BY <1>5, <1>6, <1>7, <1>8 DEF ResultFieldNames
<1>10. QED BY <1>1, <1>9 DEF Counted, Successes

LEMMA DisagreementsAreCounted ==
  ASSUME SubjectInv
  PROVE  Counted(Original, Disagreements(subject.endpoint, subject.world))
<1> DEFINE e == subject.endpoint
           w == subject.world
           q == Run(e, w)
<1>1. e \in Endpoints /\ w \in Worlds(e)
  BY DEF SubjectInv
<1> HIDE DEF e, w
<1>2. Counted(q, Disagreements(e, w))
  <2>1. CASE e \in {"A1", "B0", "B1", "D0", "D2-CERT", "F0"}
    BY <1>1, <2>1, BlockDisagreementsAreCounted
  <2>2. CASE e = "A0"
    <3>1. q = RunA0(w) /\ w \in A0World
      BY <1>1, <2>2 DEF Run, Worlds
    <3>2. QED BY <2>2, <3>1, MismatchesAreCounted
  <2>3. CASE e \in {"C", "D1"}
    BY <1>1, <2>3, ConformanceDisagreementsAreCounted
  <2>4. CASE e = "D2-MEM"
    <3>1. Disagreements(e, w) = {}
      BY <2>4 DEF Disagreements
    <3>2. QED BY <3>1 DEF Counted
  <2>5. CASE e = "E"
    <3>1. q = RunE(w) /\ w \in EWorld
      BY <1>1, <2>5 DEF Run, Worlds
    <3>2. QED BY <2>5, <3>1, PolicyDisagreementsAreCounted
  <2>6. QED BY <1>1, <2>1, <2>2, <2>3, <2>4, <2>5 DEF Endpoints
<1>3. DOMAIN q = ResultFieldNames
  <2>1. DOMAIN BindSnapshots(q) = ResultFieldNames
    BY <1>1, RunHasFields
  <2> HIDE DEF q
  <2>2. QED BY <2>1 DEF BindSnapshots
<1>4. Original = BindSnapshots(q)
  BY DEF Original, e, w
<1> HIDE DEF q
<1>5. Original.status = q.status /\ Original.numerator = q.numerator
  BY <1>3, <1>4, BindingKeepsConclusion
<1>6. QED BY <1>2, <1>5 DEF Counted, e, w

-----------------------------------------------------------------------------
(* Theorems.                                                               *)

\* Files, invocations and the source keep their types.
THEOREM ReviewTypeCorrect == Spec => []TypeOK
<1>1. ReviewInv => TypeOK
  BY DEF ReviewInv, Types, SourceInv, TypeOK, ToolTypes, Firsts, Phases, Statuses, EntryTypes
<1>2. QED BY <1>1, ReviewInit, ReviewStep, PTL DEF Spec

\* A manifest seals a complete directory of one invocation.
THEOREM AManifestSeals == Spec => []ManifestSeals
<1>1. ReviewInv => ManifestSeals
  <2> SUFFICES ASSUME ReviewInv, files["manifest"].whole
               PROVE  LET t == files["manifest"].owner
                      IN /\ t \in Tools
                         /\ \A k \in DOMAIN ToWrite(t) :
                              files[ToWrite(t)[k]] = [owner |-> t, whole |-> TRUE]
                         /\ files["directory"].owner = t
    BY DEF ManifestSeals
  <2> DEFINE t == files["manifest"].owner
  <2>1. t \in Tools /\ At(t, "done") /\ tool[t].exit # 3
    BY OutputNames DEF ReviewInv, Types, FilesInv, EntryTypes
  <2> HIDE DEF t
  <2>2. files["directory"] = Own(t) /\ WrittenBy(t, Len(ToWrite(t)))
    BY <2>1 DEF ReviewInv, ToolInv
  <2>3. DOMAIN ToWrite(t) = 1 .. Len(ToWrite(t))
    <3>1. CASE tool[t].kind = "failure"
      BY <3>1 DEF ToWrite
    <3>2. CASE tool[t].kind # "failure"
      <4>1. ToWrite(t) = DerivedFiles
        BY <3>2 DEF ToWrite
      <4>2. QED BY <4>1, DerivedFilesAssumption
    <3>3. QED BY <3>1, <3>2
  <2>4. \A k \in DOMAIN ToWrite(t) :
          files[ToWrite(t)[k]] = [owner |-> t, whole |-> TRUE]
    BY <2>2, <2>3 DEF WrittenBy, Own
  <2>5. files["directory"].owner = t
    BY <2>2 DEF Own
  <2>6. QED BY <2>1, <2>4, <2>5 DEF t
<1>2. QED BY <1>1, ReviewInit, ReviewStep, PTL DEF Spec

\* The exit code of an invocation tells whether it sealed the directory.
THEOREM ExitsTellManifests == Spec => []ExitTellsManifest
<1>1. ReviewInv => ExitTellsManifest
  BY DEF ReviewInv, ToolInv, Types, ToolTypes, ExitTellsManifest, At, Own
<1>2. QED BY <1>1, ReviewInit, ReviewStep, PTL DEF Spec

\* What a manifest seals never changes again.
THEOREM SealsAreFinal == Spec => SealedDirectoriesAreFinal
<1>1. ASSUME ReviewInv, NEW t \in Tools, ToolStep(t) \/ Die(t), files["manifest"].whole
      PROVE  UNCHANGED files
  <2> DEFINE u == files["manifest"].owner
  <2>1. u \in Tools /\ At(u, "done") /\ tool[u].exit # 3
    BY <1>1, OutputNames DEF ReviewInv, Types, FilesInv, EntryTypes
  <2> HIDE DEF u
  <2>2. files["directory"].owner = u
    <3>1. files["directory"] = Own(u)
      BY <1>1, <2>1 DEF ReviewInv, ToolInv
    <3>2. QED BY <3>1 DEF Own
  <2>3. files["directory"] # Missing
    BY <2>1, <2>2, NoToolAssumption DEF Missing
  <2>4. ~At(t, "write")
    <3>1. SUFFICES ASSUME At(t, "write") PROVE FALSE
      OBVIOUS
    <3>2. files["directory"].owner = t
      <4>1. files["directory"] = Own(t)
        BY <1>1, <3>1 DEF ReviewInv, ToolInv
      <4>2. QED BY <4>1 DEF Own
    <3>3. QED BY <2>1, <2>2, <3>1, <3>2 DEF At
  <2>5. QED BY <1>1, <2>3, <2>4
          DEF ToolStep, Open, ReadSource, ReadAgain, MakeDirectory, WriteOutput,
              WriteManifest, Die
<1>2. ReviewInv /\ [Next]_vars => [files["manifest"].whole => UNCHANGED files]_files
  BY <1>1, EnvironmentKeeps DEF Next, vars
<1>3. QED BY <1>2, ReviewInit, ReviewStep, PTL DEF Spec, SealedDirectoriesAreFinal

\* What passes the review has the verdicts the analysis computed, whichever
\* field, row, count or endpoint of the result file somebody altered, at any
\* point of any number of concurrent invocations of the audit tool.
THEOREM PassedVerdictsAreOriginal == Spec => []PassedVerdictsAreTheOriginals
<1>1. JudgeInv => PassedVerdictsAreTheOriginals
  <2> SUFFICES ASSUME JudgeInv, NEW t \in Tools, Passed(t)
               PROVE  LET read == contents[tool[t].first[1]].bundle
                      IN read.complete /\ Verdict(read.result) = Verdict(contents[1].bundle.result)
    BY DEF PassedVerdictsAreTheOriginals
  <2> DEFINE v == tool[t].first[1]
  <2>1. source.kind = "result" /\ v \in DOMAIN contents /\ contents[v].acceptable
    BY DEF JudgeInv, JudgedBy
  <2>2. contents[v].bundle.complete /\ Verdict(contents[v].bundle.result) = Verdict(Original)
    BY <2>1 DEF JudgeInv, ContentsInv
  <2>3. PICK synthetic \in BOOLEAN : contents[1].bundle = Bundle(Original, synthetic)
    BY <2>1 DEF JudgeInv, ContentsInv
  <2>4. contents[1].bundle.result = Original
    BY <2>3 DEF Bundle
  <2>5. QED BY <2>2, <2>4
<1>2. QED BY <1>1, JudgeAlways, PTL

\* A computed and validated result passes its review unless somebody changed
\* the file: two programs that share no code agree on every outcome of the
\* evaluators but one of the rule 90 fixture.
THEOREM UntouchedResultsAreAccepted == Spec => []UntouchedResultsPass
<1>1. JudgeInv => UntouchedResultsPass
  <2> SUFFICES ASSUME JudgeInv, NEW t \in Tools,
                      tool[t].status = "BLOCKING_RESULT_INCONSISTENCY", edits = 0
               PROVE  MisstepsOnWitness
    BY DEF UntouchedResultsPass
  <2>1. source.kind = "result" /\ ~contents[1].acceptable
    BY DEF JudgeInv, JudgedBy
  <2>2. QED BY <2>1 DEF JudgeInv, ContentsInv
<1>2. QED BY <1>1, JudgeAlways, PTL

\* Evaluators that disagree never make a success, and every block, rule or
\* fixture they disagree on is counted as adverse.
THEOREM DisagreementsAreAdverse == Spec => []DisagreementIsAdverse
<1>1. JudgeInv => DisagreementIsAdverse
  <2> SUFFICES ASSUME JudgeInv, source.kind = "result"
               PROVE  LET r == contents[1].bundle.result
                          disagreements == Disagreements(subject.endpoint, subject.world)
                      IN disagreements # {} =>
                           /\ r.status \notin Successes
                           /\ r.numerator >= Cardinality(disagreements)
    BY DEF DisagreementIsAdverse
  <2>1. PICK synthetic \in BOOLEAN : contents[1].bundle = Bundle(Original, synthetic)
    BY DEF JudgeInv, ContentsInv
  <2>2. contents[1].bundle.result = Original
    BY <2>1 DEF Bundle
  <2>3. Counted(Original, Disagreements(subject.endpoint, subject.world))
    BY DisagreementsAreCounted DEF JudgeInv
  <2>4. QED BY <2>2, <2>3 DEF Counted
<1>2. QED BY <1>1, JudgeAlways, PTL

=============================================================================
