------------------------ MODULE DevelopmentRunProofs ------------------------
(***************************************************************************)
(* Theorems about DevelopmentRun, for any number of runs, directories and  *)
(* versions: files keep their owners, a run manifest seals a complete      *)
(* directory, and the runs implement SharedGrammar.                        *)
(***************************************************************************)
EXTENDS DevelopmentRun, TLAPS

AllNames == Names \cup {"grammar_manifest"}

Phases == Running \cup {"idle", "failed", "done"}

RunTypes == [pc : Phases, step : 1 .. 5,
             output : Directories, preflight : Directories,
             read : [Inputs -> 0 .. MaxVersion],
             hashed : [Inputs -> 0 .. MaxVersion]]

FilesTypes == [Places -> [AllNames -> FileType]]

-----------------------------------------------------------------------------
(* The inductive invariant.                                                *)

\* A run that has left its reading has read every input.
ReadsInOrder(r) ==
  /\ At(r, "idle") => run[r].step = 1
  /\ At(r, "read") => /\ run[r].step \in 1 .. 4
                      /\ \A k \in 1 .. run[r].step - 1 : run[r].read[ReadOrder[k]] # 0
  /\ run[r].pc \notin {"idle", "read", "failed"} => \A i \in Inputs : run[r].read[i] # 0
  /\ run[r].pc \in {"grammar", "claim_grammar", "fill_grammar"} => run[r].step = 1

\* A run writes outputs only beside a whole grammar manifest of its basis.
SharesBasis(r) ==
  /\ GrammarManifest.owner = r => run[r].pc \notin {"idle", "read"}
  /\ At(r, "fill_grammar") => GrammarManifest.owner = r
  /\ run[r].pc \in {"claim", "fill", "hash", "done"} =>
       /\ GrammarManifest.whole
       /\ BasisOf(GrammarManifest.owner) = BasisOf(r)

\* It writes them in order, each one whole before the next is claimed.
WritesInOrder(r) ==
  /\ run[r].pc \in {"claim", "fill", "hash"} =>
       \A k \in 1 .. run[r].step - 1 : Whole(r, WriteOrder[k])
  /\ At(r, "fill") => File(r, NextName(r)).owner = r
  /\ At(r, "done") => \A k \in 1 .. 5 : Whole(r, WriteOrder[k])

RunInv(r) == ReadsInOrder(r) /\ SharesBasis(r) /\ WritesInOrder(r)

\* Nobody's files are not whole, and a run manifest is whole when its run is
\* done.
FilesInv ==
  /\ \A d \in Places, f \in AllNames : files[d][f].owner = NoRun => ~files[d][f].whole
  /\ \A d \in Directories : files[d]["run_manifest"].whole =>
       LET r == files[d]["run_manifest"].owner
       IN At(r, "done") /\ run[r].output = d

Types ==
  /\ run \in [Runs -> RunTypes]
  /\ files \in FilesTypes

DevelopmentInv == Types /\ FilesInv /\ \A r \in Runs : RunInv(r)

\* What a step of a run may do: it moves that run on, and claims or fills files.
Moves(r) ==
  /\ \A q \in Runs \ {r} : run'[q] = run[q]
  /\ run[r].pc # "done"
  /\ run'[r].output = run[r].output /\ run'[r].preflight = run[r].preflight
  /\ run[r].pc \in {"idle", "read"} \/ run'[r].read = run[r].read
  /\ \A d \in Places, f \in AllNames :
       \/ files'[d][f] = files[d][f]
       \/ /\ files[d][f] = Absent
          /\ files'[d][f] = [owner |-> r, whole |-> FALSE]
       \/ /\ files[d][f].owner = r
          /\ files'[d][f] = [owner |-> r, whole |-> TRUE]
          /\ f = "run_manifest" => d = run[r].output /\ run'[r].pc = "done"

-----------------------------------------------------------------------------
(* The constants of the module, written out.                               *)

LEMMA Orders ==
  /\ Len(ReadOrder) = 4 /\ Len(WriteOrder) = 5 /\ Len(HashedAgain) = 3
  /\ DOMAIN ReadOrder = 1 .. 4 /\ DOMAIN WriteOrder = 1 .. 5
  /\ DOMAIN HashedAgain = 1 .. 3
  /\ \A k \in 1 .. 4 : ReadOrder[k] \in Inputs
  /\ \A k \in 1 .. 3 : HashedAgain[k] \in Inputs
  /\ \A i \in Inputs : \E k \in 1 .. 4 : ReadOrder[k] = i
  /\ \A j, k \in 1 .. 4 : ReadOrder[j] = ReadOrder[k] => j = k
BY DEF ReadOrder, WriteOrder, HashedAgain, Inputs

LEMMA WrittenNames ==
  /\ \A k \in 1 .. 5 : WriteOrder[k] \in Names
  /\ \A f \in Names : \E k \in 1 .. 5 : WriteOrder[k] = f
  /\ \A k \in 1 .. 5 : WriteOrder[k] = "resource_preflight" <=> k = 4
  /\ \A k \in 1 .. 5 : WriteOrder[k] = "run_manifest" <=> k = 5
  /\ "grammar_manifest" \notin Names /\ "run_manifest" \in Names
<1>1. \A k \in 1 .. 5 :
        /\ WriteOrder[k] = "resource_preflight" <=> k = 4
        /\ WriteOrder[k] = "run_manifest" <=> k = 5
        /\ WriteOrder[k] # "grammar_manifest"
  BY DEF WriteOrder
<1>2. Names = {WriteOrder[k] : k \in 1 .. 5}
  BY Orders DEF Names
<1>3. QED BY <1>1, <1>2

LEMMA PlaceIsAPlace ==
  ASSUME Types, NEW r \in Runs, NEW f
  PROVE  Place(r, f) \in Places
BY DEF Types, RunTypes, Place, Places

-----------------------------------------------------------------------------
(* The parts of a step.                                                    *)

LEMMA GotoMoves ==
  ASSUME Types, NEW r \in Runs, NEW pc \in Phases, Goto(r, pc)
  PROVE  /\ run' \in [Runs -> RunTypes]
         /\ \A q \in Runs \ {r} : run'[q] = run[q]
         /\ run'[r].pc = pc /\ run'[r].step = run[r].step
         /\ run'[r].output = run[r].output /\ run'[r].preflight = run[r].preflight
         /\ run'[r].read = run[r].read
BY DEF Types, RunTypes, Goto

LEMMA EntryFields ==
  ASSUME NEW x \in FileType, NEW r
  PROVE  /\ [x EXCEPT !.owner = r] = [owner |-> r, whole |-> x.whole]
         /\ [x EXCEPT !.whole = TRUE] = [owner |-> x.owner, whole |-> TRUE]
<1>1. [x EXCEPT !.owner = r] = [owner |-> r, whole |-> x.whole]
  BY DEF FileType
<1>2. [x EXCEPT !.whole = TRUE] = [owner |-> x.owner, whole |-> TRUE]
  <2> DEFINE y == [x EXCEPT !.whole = TRUE]
             z == [owner |-> x.owner, whole |-> TRUE]
  <2>1. y \in FileType /\ y.owner = x.owner /\ y.whole = TRUE
    BY DEF FileType
  <2>2. z \in FileType /\ z.owner = x.owner /\ z.whole = TRUE
    BY DEF FileType
  <2> HIDE DEF y, z
  <2>3. y = z
    BY <2>1, <2>2 DEF FileType
  <2>4. QED BY <2>3 DEF y, z
<1>3. QED BY <1>1, <1>2

LEMMA ClaimMoves ==
  ASSUME Types, NEW r \in Runs, NEW f \in AllNames,
         File(r, f) = Absent,
         files' = [files EXCEPT ![Place(r, f)][f].owner = r]
  PROVE  /\ files' \in FilesTypes
         /\ files'[Place(r, f)][f] = [owner |-> r, whole |-> FALSE]
         /\ files[Place(r, f)][f] = Absent
         /\ \A e \in Places, g \in AllNames :
              e # Place(r, f) \/ g # f => files'[e][g] = files[e][g]
<1> DEFINE d == Place(r, f)
<1>1. d \in Places
  BY PlaceIsAPlace
<1>2. files[d][f] = [owner |-> NoRun, whole |-> FALSE] /\ files[d][f] = Absent
  BY DEF File, Absent
<1>3. files' = [files EXCEPT ![d][f].owner = r]
  OBVIOUS
<1> HIDE DEF d
<1> DEFINE new == [owner |-> r, whole |-> FALSE]
<1>4. files[d][f] \in FileType /\ files[d] \in [AllNames -> FileType]
  BY <1>1 DEF Types, FilesTypes
<1>5. [files[d][f] EXCEPT !.owner = r] = new /\ new \in FileType
  <2>1. new \in FileType
    BY DEF FileType
  <2>2. [files[d][f] EXCEPT !.owner = r] = [owner |-> r, whole |-> files[d][f].whole]
    BY <1>4, EntryFields
  <2>4. files[d][f].whole = FALSE
    BY <1>2
  <2>3. QED BY <2>1, <2>2, <2>4
<1>6. files' = [files EXCEPT ![d] = [files[d] EXCEPT ![f] = new]]
  BY <1>1, <1>3, <1>4, <1>5 DEF Types, FilesTypes
<1> HIDE DEF new
<1> DEFINE row == [files[d] EXCEPT ![f] = new]
<1>9. /\ row \in [AllNames -> FileType] /\ row[f] = new
      /\ \A g \in AllNames : g # f => row[g] = files[d][g]
  BY <1>4, <1>5
<1>10. files' = [files EXCEPT ![d] = row]
  BY <1>6
<1> HIDE DEF row
<1>7. /\ files' \in FilesTypes
      /\ files'[d][f] = new
      /\ \A e \in Places, g \in AllNames : e # d \/ g # f => files'[e][g] = files[e][g]
  BY <1>1, <1>9, <1>10 DEF Types, FilesTypes
<1>8. QED BY <1>2, <1>7 DEF d, new

LEMMA FillMoves ==
  ASSUME Types, NEW r \in Runs, NEW f \in AllNames,
         File(r, f).owner = r, Fill(r, f)
  PROVE  /\ files' \in FilesTypes
         /\ files'[Place(r, f)][f] = [owner |-> r, whole |-> TRUE]
         /\ files[Place(r, f)][f].owner = r
         /\ \A e \in Places, g \in AllNames :
              e # Place(r, f) \/ g # f => files'[e][g] = files[e][g]
<1> DEFINE d == Place(r, f)
<1>1. d \in Places
  BY PlaceIsAPlace
<1>2. files[d][f].owner = r
  BY DEF File
<1>3. files' = [files EXCEPT ![d][f].whole = TRUE]
  BY DEF Fill
<1> HIDE DEF d
<1> DEFINE new == [owner |-> r, whole |-> TRUE]
<1>4. files[d][f] \in FileType /\ files[d] \in [AllNames -> FileType]
  BY <1>1 DEF Types, FilesTypes
<1>5. [files[d][f] EXCEPT !.whole = TRUE] = new /\ new \in FileType
  <2>1. new \in FileType
    BY DEF FileType
  <2>2. [files[d][f] EXCEPT !.whole = TRUE] = new
    BY <1>2, <1>4, EntryFields
  <2>3. QED BY <2>1, <2>2
<1>6. files' = [files EXCEPT ![d] = [files[d] EXCEPT ![f] = new]]
  BY <1>1, <1>3, <1>4, <1>5 DEF Types, FilesTypes
<1> HIDE DEF new
<1> DEFINE row == [files[d] EXCEPT ![f] = new]
<1>9. /\ row \in [AllNames -> FileType] /\ row[f] = new
      /\ \A g \in AllNames : g # f => row[g] = files[d][g]
  BY <1>4, <1>5
<1>10. files' = [files EXCEPT ![d] = row]
  BY <1>6
<1> HIDE DEF row
<1>7. /\ files' \in FilesTypes
      /\ files'[d][f] = new
      /\ \A e \in Places, g \in AllNames : e # d \/ g # f => files'[e][g] = files[e][g]
  BY <1>1, <1>9, <1>10 DEF Types, FilesTypes
<1>8. QED BY <1>2, <1>7 DEF d, new

-----------------------------------------------------------------------------
(* What a step leaves alone.                                               *)

LEMMA WholeFilesStay ==
  ASSUME DevelopmentInv, Types', NEW r \in Runs, Moves(r),
         NEW q \in Runs, NEW f \in AllNames
  PROVE  /\ Place(q, f)' = Place(q, f)
         /\ Whole(q, f) => Whole(q, f)'
         /\ File(q, f).owner = q => File(q, f)'.owner = q
<1>1. Place(q, f)' = Place(q, f) /\ Place(q, f) \in Places
  BY PlaceIsAPlace DEF DevelopmentInv, Place, Moves
<1>2. Place(q, f)' = Place(q, f) => File(q, f)' = files'[Place(q, f)][f]
  BY DEF File
<1> DEFINE d == Place(q, f)
<1>3. File(q, f)' = files'[d][f] /\ File(q, f) = files[d][f] /\ d \in Places
  BY <1>1, <1>2 DEF File
<1> HIDE DEF d
<1> DEFINE g == files[d][f]
           h == files'[d][f]
<1>a. \/ h = g
      \/ g = [owner |-> NoRun, whole |-> FALSE] /\ h = [owner |-> r, whole |-> FALSE]
      \/ g.owner = r /\ h = [owner |-> r, whole |-> TRUE]
  BY <1>3 DEF Moves, Absent
<1> HIDE DEF g, h
<1>4. g = [owner |-> q, whole |-> TRUE] => h = [owner |-> q, whole |-> TRUE]
  BY <1>a, NoRunAssumption
<1>5. g.owner = q => h.owner = q
  BY <1>a, NoRunAssumption
<1>6. QED BY <1>1, <1>3, <1>4, <1>5 DEF Whole, g, h

LEMMA GrammarStays ==
  ASSUME DevelopmentInv, Types', NEW r \in Runs, Moves(r)
  PROVE  /\ GrammarManifest.whole =>
              /\ GrammarManifest'.whole /\ GrammarManifest'.owner = GrammarManifest.owner
              /\ GrammarManifest.owner \in Runs
              /\ BasisOf(GrammarManifest.owner)' = BasisOf(GrammarManifest.owner)
         /\ \A q \in Runs : q # r /\ GrammarManifest'.owner = q => GrammarManifest.owner = q
         /\ \A q \in Runs : GrammarManifest.owner = q => GrammarManifest'.owner = q
<1> DEFINE g == files[Shelf]["grammar_manifest"]
           h == files'[Shelf]["grammar_manifest"]
<1>1. Shelf \in Places /\ "grammar_manifest" \in AllNames
  BY DEF Places, AllNames
<1>2. \/ h = g
      \/ g = Absent /\ h = [owner |-> r, whole |-> FALSE]
      \/ g.owner = r /\ h = [owner |-> r, whole |-> TRUE]
  BY <1>1 DEF Moves
<1>3. g \in FileType /\ (g.owner = NoRun => ~g.whole)
  BY <1>1 DEF DevelopmentInv, Types, FilesTypes, FilesInv
<1>4. GrammarManifest = g /\ GrammarManifest' = h
  BY DEF GrammarManifest
<1> HIDE DEF g, h
<1>5. /\ g.whole => h.whole /\ h.owner = g.owner /\ g.owner \in Runs
      /\ \A q \in Runs : q # r /\ h.owner = q => g.owner = q
      /\ \A q \in Runs : g.owner = q => h.owner = q
  BY <1>2, <1>3, NoRunAssumption DEF FileType, Absent
<1>6. ASSUME NEW q \in Runs, g.owner = q
      PROVE  BasisOf(q)' = BasisOf(q)
  <2>1. run[q].pc \notin {"idle", "read"}
    BY <1>4, <1>6 DEF DevelopmentInv, RunInv, SharesBasis
  <2>2. run'[q].read = run[q].read
    BY <2>1 DEF Moves
  <2>3. QED BY <2>2 DEF BasisOf
<1>7. g.owner \in Runs => BasisOf(GrammarManifest.owner)' = BasisOf(GrammarManifest.owner)
                            \/ h.owner # g.owner
  BY <1>4, <1>6 DEF BasisOf
<1>8. QED BY <1>4, <1>5, <1>7

\* The runs that do not move keep their part of the invariant.
LEMMA OthersKeep ==
  ASSUME DevelopmentInv, Types', NEW r \in Runs, Moves(r),
         NEW q \in Runs, q # r
  PROVE  RunInv(q)'
<1>1. run'[q] = run[q] /\ RunInv(q) /\ run[q] \in RunTypes
  BY DEF Moves, DevelopmentInv, Types
<1>2. ReadsInOrder(q)'
  BY <1>1 DEF RunInv, ReadsInOrder, At
<1>3. SharesBasis(q)'
  <2>1. GrammarManifest'.owner = q => run'[q].pc \notin {"idle", "read"}
    BY <1>1, GrammarStays DEF RunInv, SharesBasis
  <2>2. At(q, "fill_grammar")' => GrammarManifest'.owner = q
    BY <1>1, GrammarStays DEF RunInv, SharesBasis, At
  <2>3. ASSUME run'[q].pc \in {"claim", "fill", "hash", "done"}
        PROVE  /\ GrammarManifest'.whole
               /\ BasisOf(GrammarManifest.owner)' = BasisOf(q)'
    <3>1. GrammarManifest.whole /\ BasisOf(GrammarManifest.owner) = BasisOf(q)
      BY <1>1, <2>3 DEF RunInv, SharesBasis
    <3>2. BasisOf(q)' = BasisOf(q)
      BY <1>1 DEF BasisOf
    <3>3. QED BY <3>1, <3>2, GrammarStays
  <2>4. QED BY <2>1, <2>2, <2>3 DEF SharesBasis
<1>4. WritesInOrder(q)'
  <2>1. ASSUME NEW k \in 1 .. 5, Whole(q, WriteOrder[k])
        PROVE  Whole(q, WriteOrder[k])'
    <3>1. WriteOrder[k] \in AllNames
      BY WrittenNames DEF AllNames
    <3>2. QED BY <2>1, <3>1, WholeFilesStay
  <2>2. ASSUME File(q, NextName(q)).owner = q
        PROVE  File(q, NextName(q))'.owner = q
    <3>1. NextName(q)' = NextName(q) /\ NextName(q) \in AllNames
      BY <1>1, WrittenNames DEF NextName, AllNames, RunTypes
    <3>2. File(q, NextName(q))' = files'[Place(q, NextName(q))'][NextName(q)]
      BY <3>1 DEF File
    <3>3. Place(q, NextName(q))' = Place(q, NextName(q))
      BY <1>1, <3>1 DEF Place
    <3>4. \A f \in AllNames : File(q, f).owner = q => files'[Place(q, f)][f].owner = q
      <4> TAKE f \in AllNames
      <4>1. Place(q, f)' = Place(q, f) /\ (File(q, f).owner = q => File(q, f)'.owner = q)
        BY WholeFilesStay
      <4>2. File(q, f)' = files'[Place(q, f)'][f]
        BY DEF File
      <4>3. QED BY <4>1, <4>2
    <3>5. QED BY <2>2, <3>1, <3>2, <3>3, <3>4
  <2>3. \A k \in 1 .. run[q].step - 1 : k \in 1 .. 5
    BY <1>1 DEF RunTypes
  <2>4. QED BY <1>1, <2>1, <2>2, <2>3 DEF RunInv, WritesInOrder, At
<1>5. QED BY <1>2, <1>3, <1>4 DEF RunInv

\* So do the files.
LEMMA FilesKeep ==
  ASSUME DevelopmentInv, Types', NEW r \in Runs, Moves(r)
  PROVE  FilesInv'
<1>1. ASSUME NEW d \in Places, NEW f \in AllNames, files'[d][f].owner = NoRun
      PROVE  ~files'[d][f].whole
  <2>1. files'[d][f] = files[d][f]
    BY <1>1, NoRunAssumption DEF Moves
  <2>2. QED BY <1>1, <2>1 DEF DevelopmentInv, FilesInv
<1>2. ASSUME NEW d \in Directories, files'[d]["run_manifest"].whole
      PROVE  LET q == files'[d]["run_manifest"].owner
             IN run'[q].pc = "done" /\ run'[q].output = d
  <2> DEFINE g == files[d]["run_manifest"]
             h == files'[d]["run_manifest"]
  <2>1. d \in Places /\ "run_manifest" \in AllNames
    BY WrittenNames DEF Places, AllNames
  <2>2. g \in FileType /\ (g.owner = NoRun => ~g.whole)
        /\ (g.whole => run[g.owner].pc = "done" /\ run[g.owner].output = d)
    BY <2>1 DEF DevelopmentInv, Types, FilesTypes, FilesInv, At
  <2>3. \/ h = g
        \/ h.owner = r /\ h.whole = FALSE
        \/ h.owner = r /\ d = run[r].output /\ run'[r].pc = "done"
    BY <2>1 DEF Moves
  <2>4. h.whole
    BY <1>2
  <2> HIDE DEF g, h
  <2>5. CASE h = g
    <3>1. g.owner \in Runs /\ run[g.owner].pc = "done"
      BY <2>2, <2>4, <2>5 DEF FileType
    <3>2. g.owner # r /\ run'[g.owner] = run[g.owner]
      BY <3>1 DEF Moves
    <3>3. QED BY <2>2, <2>4, <2>5, <3>1, <3>2 DEF h
  <2>6. CASE h.owner = r /\ d = run[r].output /\ run'[r].pc = "done"
    BY <2>6 DEF h, Moves
  <2>7. QED BY <2>3, <2>4, <2>5, <2>6
<1>3. QED BY <1>1, <1>2 DEF FilesInv, At

\* A step that moves one run and keeps that run's part keeps the invariant.
LEMMA MoveKeepsInvariant ==
  ASSUME DevelopmentInv, Types', NEW r \in Runs, Moves(r), RunInv(r)'
  PROVE  DevelopmentInv'
<1>1. \A q \in Runs : RunInv(q)'
  BY OthersKeep
<1>2. QED BY <1>1, FilesKeep DEF DevelopmentInv

-----------------------------------------------------------------------------
(* One step of one run.                                                    *)

\* A step that only moves the run to another phase.
LEMMA GotoAlone ==
  ASSUME DevelopmentInv, NEW r \in Runs, NEW pc \in Phases, run[r].pc # "done",
         Goto(r, pc), UNCHANGED files
  PROVE  Types' /\ Moves(r)
BY GotoMoves DEF DevelopmentInv, Types, Moves

LEMMA FailingKeeps ==
  ASSUME DevelopmentInv, NEW r \in Runs, run[r].pc # "done",
         Goto(r, "failed"), UNCHANGED files
  PROVE  Types' /\ Moves(r) /\ RunInv(r)'
<1>1. Types' /\ Moves(r) /\ run'[r].pc = "failed"
  BY GotoAlone, GotoMoves DEF Phases, DevelopmentInv
<1>2. RunInv(r)'
  BY <1>1 DEF RunInv, ReadsInOrder, SharesBasis, WritesInOrder, At
<1>3. QED BY <1>1, <1>2

LEMMA StartKeeps ==
  ASSUME DevelopmentInv, NEW r \in Runs, Start(r)
  PROVE  Types' /\ Moves(r) /\ RunInv(r)'
<1>1. CASE Goto(r, "failed")
  BY <1>1, FailingKeeps DEF Start, At
<1>2. CASE Goto(r, "read")
  <2>1. Types' /\ Moves(r) /\ run'[r].pc = "read" /\ run'[r].step = run[r].step
    BY <1>2, GotoAlone, GotoMoves DEF Start, At, Phases, Running, DevelopmentInv
  <2>2. run[r].pc = "idle" /\ RunInv(r)
    BY DEF Start, At, DevelopmentInv
  <2>3. run'[r].step = 1
    BY <2>1, <2>2 DEF RunInv, ReadsInOrder, At
  <2>4. ReadsInOrder(r)'
    BY <2>1, <2>3 DEF ReadsInOrder, At
  <2>5. GrammarManifest.owner # r /\ GrammarManifest' = GrammarManifest
    BY <2>2 DEF RunInv, SharesBasis, GrammarManifest, Start
  <2>6. SharesBasis(r)' /\ WritesInOrder(r)'
    BY <2>1, <2>5 DEF SharesBasis, WritesInOrder, At
  <2>7. QED BY <2>1, <2>4, <2>6 DEF RunInv
<1>3. QED BY <1>1, <1>2 DEF Start

LEMMA ReadKeeps ==
  ASSUME DevelopmentInv, input \in [Inputs -> 1 .. MaxVersion], NEW r \in Runs, Read(r)
  PROVE  Types' /\ Moves(r) /\ RunInv(r)'
<1> DEFINE i == ReadOrder[run[r].step]
           last == run[r].step = 4
<1>1. run[r].pc = "read" /\ UNCHANGED files /\ RunInv(r) /\ Types
  BY DEF Read, At, DevelopmentInv
<1>2. run[r].step \in 1 .. 4 /\ i \in Inputs
  BY <1>1, Orders DEF RunInv, ReadsInOrder, At
<1>3. CASE <<i, input[i]>> \in Refused
  <2>1. Goto(r, "failed")
    BY <1>3 DEF Read
  <2>2. QED BY <1>1, <2>1, FailingKeeps
<1>4. CASE <<i, input[i]>> \notin Refused
  <2>1. run' = [run EXCEPT
               ![r].read[i] = input[i],
               ![r].step = IF @ = Len(ReadOrder) THEN 1 ELSE @ + 1,
               ![r].pc = IF run[r].step = Len(ReadOrder) THEN "grammar" ELSE @]
    BY <1>4 DEF Read
  <2>2. run' = [run EXCEPT
               ![r].read[i] = input[i],
               ![r].step = IF last THEN 1 ELSE run[r].step + 1,
               ![r].pc = IF last THEN "grammar" ELSE "read"]
    BY <1>1, <2>1, Orders DEF Types
  <2>3. input[i] \in 1 .. MaxVersion
    BY <1>2
  <2> HIDE DEF i
  <2>4. /\ run' \in [Runs -> RunTypes]
        /\ \A q \in Runs \ {r} : run'[q] = run[q]
        /\ run'[r].output = run[r].output /\ run'[r].preflight = run[r].preflight
        /\ run'[r].read[i] = input[i]
        /\ \A j \in Inputs \ {i} : run'[r].read[j] = run[r].read[j]
        /\ run'[r].step = IF last THEN 1 ELSE run[r].step + 1
        /\ run'[r].pc = IF last THEN "grammar" ELSE "read"
    BY <1>1, <1>2, <2>2, <2>3, VersionsAssumption DEF Types, RunTypes, Phases, Running
  <2>5. Types' /\ Moves(r)
    BY <1>1, <2>4 DEF Types, Moves
  <2>6. \A k \in 1 .. run[r].step : run'[r].read[ReadOrder[k]] # 0
    BY <1>1, <1>2, <2>3, <2>4, Orders DEF RunInv, ReadsInOrder, At, i
  <2>7. ReadsInOrder(r)'
    <3>1. CASE last
      BY <1>2, <2>4, <2>6, <3>1, Orders DEF ReadsInOrder, At
    <3>2. CASE ~last
      BY <1>2, <2>4, <2>6, <3>2 DEF ReadsInOrder, At
    <3>3. QED BY <3>1, <3>2
  <2>8. GrammarManifest.owner # r /\ GrammarManifest' = GrammarManifest
    BY <1>1 DEF RunInv, SharesBasis, GrammarManifest
  <2>9. SharesBasis(r)' /\ WritesInOrder(r)'
    BY <2>4, <2>8 DEF SharesBasis, WritesInOrder, At
  <2>10. QED BY <2>5, <2>7, <2>9 DEF RunInv
<1>5. QED BY <1>3, <1>4

\* Once the run shares a whole grammar manifest it may write.
LEMMA CompareGrammarKeeps ==
  ASSUME DevelopmentInv, NEW r \in Runs, CompareGrammar(r)
  PROVE  Types' /\ Moves(r) /\ RunInv(r)'
<1>1. run[r].pc = "grammar" /\ UNCHANGED files /\ RunInv(r) /\ Types
  BY DEF CompareGrammar, At, DevelopmentInv
<1>2. CASE Goto(r, "failed")
  BY <1>1, <1>2, FailingKeeps
<1>3. ASSUME NEW pc \in {"claim_grammar", "claim"}, Goto(r, pc),
             pc = "claim" => /\ GrammarManifest.whole
                             /\ BasisOf(GrammarManifest.owner) = BasisOf(r)
      PROVE  Types' /\ Moves(r) /\ RunInv(r)'
  <2>1. pc \in Phases
    BY DEF Phases, Running
  <2>2. Types' /\ Moves(r)
    BY <1>1, <1>3, <2>1, GotoAlone
  <2>3. /\ run'[r].pc = pc /\ run'[r].step = run[r].step /\ run'[r].read = run[r].read
    BY <1>1, <1>3, <2>1, GotoMoves
  <2>4. ReadsInOrder(r)' /\ run'[r].step = 1
    BY <1>1, <1>3, <2>3 DEF RunInv, ReadsInOrder, At
  <2>5. SharesBasis(r)'
    <3>1. BasisOf(r)' = BasisOf(r)
      BY <2>3 DEF BasisOf
    <3>2. QED BY <1>3, <2>2, <2>3, <3>1, GrammarStays DEF SharesBasis, At
  <2>6. WritesInOrder(r)'
    BY <1>3, <2>3, <2>4 DEF WritesInOrder, At
  <2>7. QED BY <2>2, <2>4, <2>5, <2>6 DEF RunInv
<1>4. \/ Goto(r, "failed")
      \/ Goto(r, "claim_grammar")
      \/ /\ Goto(r, "claim")
         /\ GrammarManifest.whole /\ BasisOf(GrammarManifest.owner) = BasisOf(r)
  BY DEF CompareGrammar
<1>5. QED BY <1>2, <1>3, <1>4

LEMMA ClaimingMoves ==
  ASSUME DevelopmentInv, NEW r \in Runs, NEW f \in AllNames, NEW pc \in Phases,
         run[r].pc # "done", Goto(r, pc), File(r, f) = Absent,
         files' = [files EXCEPT ![Place(r, f)][f].owner = r]
  PROVE  Types' /\ Moves(r) /\ File(r, f)'.owner = r
<1>1. Types
  BY DEF DevelopmentInv
<1> DEFINE d == Place(r, f)
<1>2. /\ files' \in FilesTypes
      /\ files'[d][f] = [owner |-> r, whole |-> FALSE]
      /\ files[d][f] = Absent
      /\ \A e \in Places, g \in AllNames : e # d \/ g # f => files'[e][g] = files[e][g]
  BY <1>1, ClaimMoves
<1>3. Place(r, f)' = d
  BY <1>1, GotoMoves DEF Place
<1>4. File(r, f)' = files'[Place(r, f)'][f]
  BY DEF File
<1> HIDE DEF d
<1>5. Types' /\ Moves(r)
  BY <1>1, <1>2, GotoMoves DEF Types, Moves
<1>6. QED BY <1>2, <1>3, <1>4, <1>5

LEMMA FillingMoves ==
  ASSUME DevelopmentInv, NEW r \in Runs, NEW f \in AllNames,
         run[r].pc # "done", File(r, f).owner = r, Fill(r, f),
         run' \in [Runs -> RunTypes],
         \A q \in Runs \ {r} : run'[q] = run[q],
         run'[r].output = run[r].output, run'[r].preflight = run[r].preflight,
         run'[r].read = run[r].read,
         f = "run_manifest" => run'[r].pc = "done"
  PROVE  Types' /\ Moves(r) /\ Whole(r, f)'
<1>1. Types
  BY DEF DevelopmentInv
<1> DEFINE d == Place(r, f)
<1>2. /\ files' \in FilesTypes
      /\ files'[d][f] = [owner |-> r, whole |-> TRUE]
      /\ files[d][f].owner = r
      /\ \A e \in Places, g \in AllNames : e # d \/ g # f => files'[e][g] = files[e][g]
  BY <1>1, FillMoves
<1>3. Place(r, f)' = d
  BY DEF Place
<1>4. File(r, f)' = files'[Place(r, f)'][f]
  BY DEF File
<1>5. f = "run_manifest" => d = run[r].output
  BY DEF Place
<1> HIDE DEF d
<1>6. Types' /\ Moves(r)
  BY <1>1, <1>2, <1>5 DEF Types, Moves
<1>7. QED BY <1>2, <1>3, <1>4, <1>6 DEF Whole

LEMMA ClaimGrammarKeeps ==
  ASSUME DevelopmentInv, NEW r \in Runs, ClaimGrammar(r)
  PROVE  Types' /\ Moves(r) /\ RunInv(r)'
<1>1. run[r].pc = "claim_grammar" /\ RunInv(r) /\ Types
  BY DEF ClaimGrammar, At, DevelopmentInv
<1>2. CASE File(r, "grammar_manifest") # Absent
  BY <1>1, <1>2, FailingKeeps DEF ClaimGrammar, Claim
<1>3. CASE File(r, "grammar_manifest") = Absent
  <2>1. /\ files' = [files EXCEPT ![Place(r, "grammar_manifest")]["grammar_manifest"].owner = r]
        /\ Goto(r, "fill_grammar")
    BY <1>3 DEF ClaimGrammar, Claim
  <2>2. "grammar_manifest" \in AllNames /\ "fill_grammar" \in Phases
    BY DEF AllNames, Phases, Running
  <2>3. Types' /\ Moves(r) /\ File(r, "grammar_manifest")'.owner = r
    BY <1>1, <1>3, <2>1, <2>2, ClaimingMoves
  <2>4. GrammarManifest'.owner = r
    BY <2>3 DEF GrammarManifest, File, Place
  <2>5. /\ run'[r].pc = "fill_grammar" /\ run'[r].step = run[r].step
        /\ run'[r].read = run[r].read
    BY <1>1, <2>1, <2>2, GotoMoves
  <2>6. ReadsInOrder(r)'
    BY <1>1, <2>5 DEF RunInv, ReadsInOrder, At
  <2>7. SharesBasis(r)' /\ WritesInOrder(r)'
    BY <2>4, <2>5 DEF SharesBasis, WritesInOrder, At
  <2>8. QED BY <2>3, <2>6, <2>7 DEF RunInv
<1>4. QED BY <1>2, <1>3

LEMMA FillGrammarKeeps ==
  ASSUME DevelopmentInv, NEW r \in Runs, FillGrammar(r)
  PROVE  Types' /\ Moves(r) /\ RunInv(r)'
<1>1. run[r].pc = "fill_grammar" /\ RunInv(r) /\ Types
  BY DEF FillGrammar, At, DevelopmentInv
<1>2. "grammar_manifest" \in AllNames /\ "claim" \in Phases
      /\ "grammar_manifest" # "run_manifest"
  BY DEF AllNames, Phases, Running
<1>3. File(r, "grammar_manifest") = GrammarManifest
  BY DEF GrammarManifest, File, Place
<1>4. Fill(r, "grammar_manifest") /\ Goto(r, "claim")
  BY DEF FillGrammar
<1>5. GrammarManifest.owner = r /\ run[r].step = 1
  BY <1>1 DEF RunInv, SharesBasis, ReadsInOrder, At
<1>6. /\ run' \in [Runs -> RunTypes]
      /\ \A q \in Runs \ {r} : run'[q] = run[q]
      /\ run'[r].pc = "claim" /\ run'[r].step = run[r].step
      /\ run'[r].output = run[r].output /\ run'[r].preflight = run[r].preflight
      /\ run'[r].read = run[r].read
  BY <1>1, <1>2, <1>4, GotoMoves
<1>7. Types' /\ Moves(r) /\ Whole(r, "grammar_manifest")'
  BY <1>1, <1>2, <1>3, <1>4, <1>5, <1>6, FillingMoves
<1>8. GrammarManifest' = [owner |-> r, whole |-> TRUE]
  BY <1>7 DEF Whole, GrammarManifest, File, Place
<1>9. ReadsInOrder(r)'
  BY <1>1, <1>6 DEF RunInv, ReadsInOrder, At
<1>10. SharesBasis(r)'
  BY <1>6, <1>8 DEF SharesBasis, At
<1>11. WritesInOrder(r)'
  BY <1>5, <1>6 DEF WritesInOrder, At
<1>12. QED BY <1>7, <1>9, <1>10, <1>11 DEF RunInv

\* A run that has started to write keeps its basis and its files.
LEMMA WritingKeeps ==
  ASSUME DevelopmentInv, Types', NEW r \in Runs, Moves(r),
         run[r].pc \in {"claim", "fill", "hash"},
         run'[r].pc \in {"claim", "fill", "hash", "done"},
         run'[r].read = run[r].read
  PROVE  /\ ReadsInOrder(r)' /\ SharesBasis(r)'
         /\ \A k \in 1 .. run[r].step - 1 : Whole(r, WriteOrder[k])'
<1>1. RunInv(r) /\ Types
  BY DEF DevelopmentInv
<1>2. ReadsInOrder(r)'
  BY <1>1 DEF RunInv, ReadsInOrder, At
<1>3. SharesBasis(r)'
  <2>1. BasisOf(r)' = BasisOf(r)
    BY DEF BasisOf
  <2>2. /\ GrammarManifest.whole
        /\ BasisOf(GrammarManifest.owner) = BasisOf(r)
    BY <1>1 DEF RunInv, SharesBasis
  <2>3. QED BY <2>1, <2>2, GrammarStays DEF SharesBasis, At
<1>4. ASSUME NEW k \in 1 .. run[r].step - 1
      PROVE  Whole(r, WriteOrder[k])'
  <2>1. k \in 1 .. 5 /\ Whole(r, WriteOrder[k])
    BY <1>1 DEF Types, RunTypes, RunInv, WritesInOrder
  <2>2. WriteOrder[k] \in AllNames
    BY <2>1, WrittenNames DEF AllNames
  <2>3. QED BY <2>1, <2>2, WholeFilesStay
<1>5. QED BY <1>2, <1>3, <1>4

LEMMA ClaimOutputKeeps ==
  ASSUME DevelopmentInv, NEW r \in Runs, ClaimOutput(r)
  PROVE  Types' /\ Moves(r) /\ RunInv(r)'
<1>1. run[r].pc = "claim" /\ RunInv(r) /\ Types
  BY DEF ClaimOutput, At, DevelopmentInv
<1>2. PICK f \in AllNames : NextName(r) = f
  BY <1>1, WrittenNames DEF AllNames, NextName, Types, RunTypes
<1>6. "fill" \in Phases
  BY DEF Phases, Running
<1>3. CASE File(r, f) # Absent
  BY <1>1, <1>2, <1>3, FailingKeeps DEF ClaimOutput, Claim
<1>4. CASE File(r, f) = Absent
  <2>1. files' = [files EXCEPT ![Place(r, f)][f].owner = r] /\ Goto(r, "fill")
    BY <1>2, <1>4 DEF ClaimOutput, Claim
  <2>2. /\ run'[r].pc = "fill" /\ run'[r].step = run[r].step
        /\ run'[r].read = run[r].read
    BY <1>1, <1>6, <2>1, GotoMoves
  <2>3. Types' /\ Moves(r) /\ File(r, f)'.owner = r
    BY <1>1, <1>4, <1>6, <2>1, ClaimingMoves
  <2>4. /\ ReadsInOrder(r)' /\ SharesBasis(r)'
        /\ \A k \in 1 .. run[r].step - 1 : Whole(r, WriteOrder[k])'
    BY <1>1, <2>2, <2>3, WritingKeeps
  <2>5. File(r, NextName(r))'.owner = r
    <3>1. NextName(r)' = f
      BY <1>2, <2>2 DEF NextName
    <3>2. File(r, NextName(r))' = files'[Place(r, f)'][f]
      BY <3>1 DEF File, Place
    <3>3. QED BY <2>3, <3>2 DEF File
  <2>6. WritesInOrder(r)'
    BY <2>2, <2>4, <2>5 DEF WritesInOrder, At
  <2>7. QED BY <2>3, <2>4, <2>6 DEF RunInv
<1>5. QED BY <1>3, <1>4

LEMMA FillOutputKeeps ==
  ASSUME DevelopmentInv, NEW r \in Runs, FillOutput(r)
  PROVE  Types' /\ Moves(r) /\ RunInv(r)'
<1>1. run[r].pc = "fill" /\ RunInv(r) /\ Types /\ run[r].step \in 1 .. 5
  BY DEF FillOutput, At, DevelopmentInv, Types, RunTypes
<1>2. PICK f \in AllNames : NextName(r) = f
  BY <1>1, WrittenNames DEF AllNames, NextName
<1> DEFINE next == CASE f = "resource_preflight" -> "hash"
                     [] f = "run_manifest" -> "done"
                     [] OTHER -> "claim"
           step == IF run[r].step = 5 THEN 5 ELSE run[r].step + 1
<1>3. /\ f = "resource_preflight" <=> run[r].step = 4
      /\ f = "run_manifest" <=> run[r].step = 5
      /\ WriteOrder[run[r].step] = f
  BY <1>1, <1>2, WrittenNames DEF NextName
<1>4. next \in {"hash", "done", "claim"} /\ step \in 1 .. 5
      /\ (next = "done" <=> run[r].step = 5)
  BY <1>1, <1>3
<1>5. run' = [run EXCEPT ![r].pc = next, ![r].step = step]
  BY <1>1, <1>2, Orders DEF FillOutput, Types
<1> HIDE DEF next, step
<1>6. /\ run' \in [Runs -> RunTypes]
      /\ \A q \in Runs \ {r} : run'[q] = run[q]
      /\ run'[r].pc = next /\ run'[r].step = step
      /\ run'[r].output = run[r].output /\ run'[r].preflight = run[r].preflight
      /\ run'[r].read = run[r].read
  BY <1>1, <1>4, <1>5 DEF Types, RunTypes, Phases, Running
<1>7. File(r, f).owner = r /\ Fill(r, f)
  BY <1>1, <1>2 DEF RunInv, WritesInOrder, At, FillOutput
<1>8. Types' /\ Moves(r) /\ Whole(r, f)'
  BY <1>1, <1>3, <1>4, <1>6, <1>7, FillingMoves
<1>9. /\ ReadsInOrder(r)' /\ SharesBasis(r)'
      /\ \A k \in 1 .. run[r].step - 1 : Whole(r, WriteOrder[k])'
  BY <1>1, <1>4, <1>6, <1>8, WritingKeeps DEF step
<1>10. \A k \in 1 .. run[r].step : Whole(r, WriteOrder[k])'
  <2> TAKE k \in 1 .. run[r].step
  <2>1. CASE k = run[r].step
    <3>1. WriteOrder[k] = f
      BY <1>3, <2>1
    <3>2. QED BY <1>8, <3>1
  <2>2. CASE k # run[r].step
    BY <1>1, <1>9, <2>2
  <2>3. QED BY <2>1, <2>2
<1>11. WritesInOrder(r)'
  BY <1>1, <1>4, <1>6, <1>10 DEF WritesInOrder, At, step
<1>12. QED BY <1>8, <1>9, <1>11 DEF RunInv

LEMMA HashAgainKeeps ==
  ASSUME DevelopmentInv, input \in [Inputs -> 1 .. MaxVersion], NEW r \in Runs, HashAgain(r)
  PROVE  Types' /\ Moves(r) /\ RunInv(r)'
<1>1. run[r].pc = "hash" /\ UNCHANGED files /\ RunInv(r) /\ Types
  BY DEF HashAgain, At, DevelopmentInv
<1>2. PICK i, next : /\ next \in {"claim", "hash"}
                     /\ run' = [run EXCEPT ![r].hashed[i] = input[i], ![r].pc = next]
  <2> DEFINE k == Cardinality({j \in DOMAIN HashedAgain : run[r].hashed[HashedAgain[j]] # 0}) + 1
             then == IF k = Len(HashedAgain) THEN "claim" ELSE "hash"
  <2>1. run' = [run EXCEPT ![r].hashed[HashedAgain[k]] = input[HashedAgain[k]],
                           ![r].pc = then]
    BY <1>1 DEF HashAgain, Types
  <2>2. then \in {"claim", "hash"}
    OBVIOUS
  <2> HIDE DEF k, then
  <2>3. QED BY <2>1, <2>2
<1>3. /\ run' \in [Runs -> RunTypes]
      /\ \A q \in Runs \ {r} : run'[q] = run[q]
      /\ run'[r].pc = next /\ run'[r].step = run[r].step
      /\ run'[r].output = run[r].output /\ run'[r].preflight = run[r].preflight
      /\ run'[r].read = run[r].read
  <2> DEFINE again == [run[r].hashed EXCEPT ![i] = input[i]]
  <2>1. again \in [Inputs -> 0 .. MaxVersion]
    <3>1. run[r].hashed \in [Inputs -> 0 .. MaxVersion]
      BY <1>1 DEF Types, RunTypes
    <3>2. \A j \in Inputs : input[j] \in 0 .. MaxVersion
      BY VersionsAssumption
    <3>3. QED BY <3>1, <3>2
  <2>2. run' = [run EXCEPT ![r].hashed = again, ![r].pc = next]
    BY <1>1, <1>2 DEF Types
  <2>3. next \in Phases
    BY <1>2 DEF Phases, Running
  <2> HIDE DEF again
  <2>4. QED BY <1>1, <2>1, <2>2, <2>3 DEF Types, RunTypes
<1>4. Types' /\ Moves(r)
  BY <1>1, <1>3 DEF Types, Moves
<1>5. /\ ReadsInOrder(r)' /\ SharesBasis(r)'
      /\ \A k \in 1 .. run[r].step - 1 : Whole(r, WriteOrder[k])'
  BY <1>1, <1>2, <1>3, <1>4, WritingKeeps
<1>6. WritesInOrder(r)'
  BY <1>2, <1>3, <1>5 DEF WritesInOrder, At
<1>7. QED BY <1>4, <1>5, <1>6 DEF RunInv

LEMMA DieKeeps ==
  ASSUME DevelopmentInv, NEW r \in Runs, Die(r)
  PROVE  Types' /\ Moves(r) /\ RunInv(r)'
BY FailingKeeps DEF Die, Running

-----------------------------------------------------------------------------
(* The invariant.                                                          *)

InputsInv == input \in [Inputs -> 1 .. MaxVersion]

LEMMA RunStepKeeps ==
  ASSUME DevelopmentInv, InputsInv, NEW r \in Runs, RunStep(r) \/ Die(r)
  PROVE  Moves(r) /\ DevelopmentInv' /\ InputsInv'
<1>1. Types' /\ Moves(r) /\ RunInv(r)'
  BY StartKeeps, ReadKeeps, CompareGrammarKeeps, ClaimGrammarKeeps, FillGrammarKeeps,
     ClaimOutputKeeps, FillOutputKeeps, HashAgainKeeps, DieKeeps DEF RunStep, InputsInv
<1>2. UNCHANGED input
  BY DEF RunStep, Die, Start, Read, CompareGrammar, ClaimGrammar, FillGrammar,
         ClaimOutput, FillOutput, HashAgain
<1>3. QED BY <1>1, <1>2, MoveKeepsInvariant DEF InputsInv

LEMMA UnchangedKeeps ==
  ASSUME DevelopmentInv, UNCHANGED <<run, files>>
  PROVE  DevelopmentInv'
BY DEF DevelopmentInv, Types, FilesInv, RunInv, ReadsInOrder, SharesBasis, WritesInOrder,
       At, Whole, File, Place, NextName, GrammarManifest, BasisOf

LEMMA DevelopmentInit == Init => DevelopmentInv /\ InputsInv
<1> SUFFICES ASSUME Init PROVE DevelopmentInv /\ InputsInv
  OBVIOUS
<1>1. InputsInv
  BY VersionsAssumption DEF Init, InputsInv
<1>2. PICK output, preflight \in [Runs -> Directories] :
        run = [r \in Runs |-> NewRun(output[r], preflight[r])]
  BY DEF Init
<1>3. files = [d \in Places |-> [f \in AllNames |-> Absent]]
  BY DEF Init, AllNames
<1>4. Types
  <2>1. run \in [Runs -> RunTypes]
    BY <1>2, VersionsAssumption DEF NewRun, RunTypes, Phases
  <2>2. files \in FilesTypes
    BY <1>3 DEF FilesTypes, FileType, Absent
  <2>3. QED BY <2>1, <2>2 DEF Types
<1>5. \A d \in Places, f \in AllNames :
        files[d][f].owner = NoRun /\ files[d][f].whole = FALSE
  BY <1>3 DEF Absent
<1>6. FilesInv
  BY <1>5, WrittenNames DEF FilesInv, AllNames, Places
<1>7. ASSUME NEW r \in Runs PROVE RunInv(r)
  <2>1. run[r].pc = "idle" /\ run[r].step = 1
    BY <1>2 DEF NewRun
  <2>2. GrammarManifest.owner = NoRun
    BY <1>5 DEF GrammarManifest, Places, AllNames
  <2>3. QED BY <2>1, <2>2, NoRunAssumption
          DEF RunInv, ReadsInOrder, SharesBasis, WritesInOrder, At
<1>8. QED BY <1>1, <1>4, <1>6, <1>7 DEF DevelopmentInv

LEMMA DevelopmentStep ==
  DevelopmentInv /\ InputsInv /\ [Next]_vars => DevelopmentInv' /\ InputsInv'
<1> SUFFICES ASSUME DevelopmentInv, InputsInv, [Next]_vars
             PROVE  DevelopmentInv' /\ InputsInv'
  OBVIOUS
<1>1. ASSUME NEW r \in Runs, RunStep(r) \/ Die(r)
      PROVE  DevelopmentInv' /\ InputsInv'
  BY <1>1, RunStepKeeps
<1>2. ASSUME NEW i \in EditedInputs, Edit(i)
      PROVE  DevelopmentInv' /\ InputsInv'
  <2>1. InputsInv'
    BY <1>2, VersionsAssumption DEF Edit, InputsInv
  <2>2. QED BY <1>2, <2>1, UnchangedKeeps DEF Edit
<1>3. CASE UNCHANGED vars
  BY <1>3, UnchangedKeeps DEF vars, InputsInv
<1>4. QED BY <1>1, <1>2, <1>3 DEF Next

\* Inputs, runs and files keep their types, for any number of runs.
THEOREM DevelopmentTypeCorrect == Spec => []TypeOK
<1>1. DevelopmentInv /\ InputsInv => TypeOK
  BY Orders DEF DevelopmentInv, Types, InputsInv, TypeOK, RunTypes, Phases,
                FilesTypes, AllNames
<1>2. QED BY <1>1, DevelopmentInit, DevelopmentStep, PTL DEF Spec

\* A whole run manifest means that its run wrote every file of its own, in
\* whole, and shares its basis with the grammar manifest of the series.
LEMMA InvariantMeansComplete == DevelopmentInv => ManifestMeansComplete
<1> SUFFICES ASSUME DevelopmentInv, NEW d \in Directories, SealedBy(d) # NoRun
             PROVE  LET r == SealedBy(d)
                    IN /\ run[r].output = d
                       /\ \A f \in Names : Whole(r, f)
                       /\ GrammarManifest.whole
                       /\ BasisOf(GrammarManifest.owner) = BasisOf(r)
  BY DEF ManifestMeansComplete
<1> DEFINE r == SealedBy(d)
<1>1. d \in Places /\ "run_manifest" \in AllNames
  BY WrittenNames DEF Places, AllNames
<1>2. r \in Runs /\ run[r].pc = "done" /\ run[r].output = d
  BY <1>1 DEF SealedBy, DevelopmentInv, FilesInv, Types, FilesTypes, FileType, At
<1> HIDE DEF r
<1>3. RunInv(r)
  BY <1>2 DEF DevelopmentInv
<1>4. \A f \in Names : Whole(r, f)
  BY <1>2, <1>3, WrittenNames DEF RunInv, WritesInOrder, At
<1>5. GrammarManifest.whole /\ BasisOf(GrammarManifest.owner) = BasisOf(r)
  BY <1>2, <1>3 DEF RunInv, SharesBasis
<1>6. QED BY <1>2, <1>4, <1>5 DEF r

THEOREM AManifestMeansComplete == Spec => []ManifestMeansComplete
BY InvariantMeansComplete, DevelopmentInit, DevelopmentStep, PTL DEF Spec

\* No file changes hands, and none is changed once it is whole.
THEOREM FilesStayAsWritten == Spec => FilesAreNeverReplaced
<1> DEFINE Kept == \A d \in Places : \A f \in Names \cup {"grammar_manifest"} :
       /\ files[d][f].owner # NoRun => files'[d][f].owner = files[d][f].owner
       /\ files[d][f].whole => files'[d][f].whole
<1>1. ASSUME DevelopmentInv, InputsInv, NEW r \in Runs, RunStep(r) \/ Die(r)
      PROVE  Kept
  <2>1. Moves(r)
    BY <1>1, RunStepKeeps
  <2>2. ASSUME NEW d \in Places, NEW f \in AllNames
        PROVE  /\ files[d][f].owner # NoRun => files'[d][f].owner = files[d][f].owner
               /\ files[d][f].whole => files'[d][f].whole
    <3> DEFINE g == files[d][f]
               h == files'[d][f]
    <3>1. \/ h = g
          \/ g.owner = NoRun /\ g.whole = FALSE
          \/ g.owner = r /\ h.owner = r /\ h.whole = TRUE
      BY <2>1 DEF Moves, Absent
    <3> HIDE DEF g, h
    <3>2. /\ g.owner # NoRun => h.owner = g.owner
          /\ g.whole => h.whole
      BY <3>1
    <3>3. QED BY <3>2 DEF g, h
  <2>3. QED BY <2>2 DEF AllNames
<1>2. DevelopmentInv /\ InputsInv /\ [Next]_vars => [Kept]_files
  BY <1>1 DEF Next, vars, Edit
<1>3. QED BY <1>2, DevelopmentInit, DevelopmentStep, PTL DEF Spec, FilesAreNeverReplaced

-----------------------------------------------------------------------------
(* The refinement: sealing a directory is filling its run manifest.        *)

Sealers == {SealedBy(d) : d \in Directories} \ {NoRun}

\* All sealed directories have the basis that the grammar manifest names.
LEMMA OneBasis ==
  ASSUME DevelopmentInv, NEW r \in Sealers
  PROVE  /\ SealedBasis = BasisOf(GrammarManifest.owner)
         /\ SealedBasis = BasisOf(r) /\ GrammarManifest.whole
         /\ SealedBasis \in (1 .. MaxVersion) \X (1 .. MaxVersion)
<1>1. \A q \in Sealers : BasisOf(q) = BasisOf(GrammarManifest.owner) /\ GrammarManifest.whole
  BY InvariantMeansComplete DEF ManifestMeansComplete, Sealers
<1>2. SealedBasis = BasisOf(CHOOSE q \in Sealers : TRUE)
  BY DEF SealedBasis, Sealers
<1>3. (CHOOSE q \in Sealers : TRUE) \in Sealers
  OBVIOUS
<1>4. BasisOf(r) \in (1 .. MaxVersion) \X (1 .. MaxVersion)
  <2>1. PICK d \in Directories : r = SealedBy(d) /\ r # NoRun
    BY DEF Sealers
  <2>2. d \in Places /\ "run_manifest" \in AllNames
    BY WrittenNames DEF Places, AllNames
  <2>3. r \in Runs /\ run[r].pc = "done"
    BY <2>1, <2>2 DEF SealedBy, DevelopmentInv, FilesInv, Types, FilesTypes, FileType, At
  <2>4. /\ \A i \in Inputs : run[r].read[i] # 0
        /\ run[r].read \in [Inputs -> 0 .. MaxVersion]
    BY <2>3 DEF DevelopmentInv, RunInv, ReadsInOrder, Types, RunTypes
  <2>5. "source" \in Inputs /\ "config" \in Inputs
    BY DEF Inputs
  <2>6. run[r].read["source"] \in 1 .. MaxVersion /\ run[r].read["config"] \in 1 .. MaxVersion
    BY <2>4, <2>5, VersionsAssumption
  <2>7. QED BY <2>6 DEF BasisOf
<1>5. QED BY <1>1, <1>2, <1>3, <1>4

LEMMA UnsealedBasis == Sealers = {} => SealedBasis = <<0, 0>>
BY DEF SealedBasis, Sealers

\* A step of a run seals one directory, or none.
LEMMA MoveSeals ==
  ASSUME DevelopmentInv, DevelopmentInv', NEW r \in Runs, Moves(r)
  PROVE  \/ \A d \in Directories : SealedBy(d)' = SealedBy(d)
         \/ \E d \in Directories :
              /\ SealedBy(d) = NoRun /\ SealedBy(d)' = r
              /\ \A e \in Directories \ {d} : SealedBy(e)' = SealedBy(e)
<1>1. ASSUME NEW d \in Directories
      PROVE  \/ SealedBy(d)' = SealedBy(d)
             \/ SealedBy(d) = NoRun /\ SealedBy(d)' = r /\ d = run[r].output
  <2> DEFINE g == files[d]["run_manifest"]
             h == files'[d]["run_manifest"]
  <2>1. d \in Places /\ "run_manifest" \in AllNames
    BY WrittenNames DEF Places, AllNames
  <2>2. /\ g \in FileType
        /\ g.whole => run[g.owner].pc = "done"
    BY <2>1 DEF DevelopmentInv, Types, FilesTypes, FilesInv, At
  <2>3. \/ h = g
        \/ g.whole = FALSE /\ h.whole = FALSE
        \/ g.owner = r /\ h.owner = r /\ h.whole = TRUE /\ d = run[r].output
    BY <2>1 DEF Moves, Absent
  <2>4. /\ SealedBy(d) = IF g.whole THEN g.owner ELSE NoRun
        /\ SealedBy(d)' = IF h.whole THEN h.owner ELSE NoRun
    BY DEF SealedBy
  <2>5. run[r].pc # "done"
    BY DEF Moves
  <2> HIDE DEF g, h
  <2>6. QED BY <2>2, <2>3, <2>4, <2>5
<1>2. CASE \A d \in Directories : SealedBy(d)' = SealedBy(d)
  BY <1>2
<1>3. CASE \E d \in Directories : SealedBy(d)' # SealedBy(d)
  BY <1>1, <1>3
<1>4. QED BY <1>2, <1>3

LEMMA BasisWhileSealed ==
  DevelopmentInv => IF Sealers = {} THEN SealedBasis = <<0, 0>>
                    ELSE /\ SealedBasis = BasisOf(GrammarManifest.owner)
                         /\ GrammarManifest.whole
                         /\ SealedBasis \in (1 .. MaxVersion) \X (1 .. MaxVersion)
<1> SUFFICES ASSUME DevelopmentInv
             PROVE  IF Sealers = {} THEN SealedBasis = <<0, 0>>
                    ELSE /\ SealedBasis = BasisOf(GrammarManifest.owner)
                         /\ GrammarManifest.whole
                         /\ SealedBasis \in (1 .. MaxVersion) \X (1 .. MaxVersion)
  OBVIOUS
<1>1. CASE Sealers = {}
  BY <1>1, UnsealedBasis
<1>2. CASE Sealers # {}
  <2>1. PICK r \in Sealers : TRUE
    BY <1>2
  <2>2. /\ SealedBasis = BasisOf(GrammarManifest.owner)
        /\ GrammarManifest.whole
        /\ SealedBasis \in (1 .. MaxVersion) \X (1 .. MaxVersion)
    BY OneBasis
  <2>3. QED BY <1>2, <2>2
<1>3. QED BY <1>1, <1>2

\* A series that has a basis keeps it.
LEMMA BasisStays ==
  ASSUME DevelopmentInv, DevelopmentInv', NEW r \in Runs, Moves(r),
         Sealers # {}, Sealers' # {}
  PROVE  SealedBasis' = SealedBasis
<1>1. /\ SealedBasis = BasisOf(GrammarManifest.owner)
      /\ GrammarManifest.whole
  BY BasisWhileSealed
<1>2. (DevelopmentInv => IF Sealers = {} THEN SealedBasis = <<0, 0>>
                    ELSE /\ SealedBasis = BasisOf(GrammarManifest.owner)
                         /\ GrammarManifest.whole
                         /\ SealedBasis \in (1 .. MaxVersion) \X (1 .. MaxVersion))'
  BY BasisWhileSealed, PTL
<1>3. SealedBasis' = BasisOf(GrammarManifest.owner)'
  BY <1>2
<1>4. Types'
  BY DEF DevelopmentInv
<1>5. BasisOf(GrammarManifest.owner)' = BasisOf(GrammarManifest.owner)
  BY <1>1, <1>4, GrammarStays
<1>6. QED BY <1>1, <1>3, <1>5

LEMMA MoveRefines ==
  ASSUME DevelopmentInv, DevelopmentInv', NEW r \in Runs, Moves(r)
  PROVE  [Series!Next]_(Series!vars)
<1> DEFINE sealed == [d \in Directories |-> SealedBy(d)]
           Bases == (1 .. MaxVersion) \X (1 .. MaxVersion)
<1>1. (DevelopmentInv => IF Sealers = {} THEN SealedBasis = <<0, 0>>
                    ELSE /\ SealedBasis = BasisOf(GrammarManifest.owner)
                         /\ GrammarManifest.whole
                         /\ SealedBasis \in (1 .. MaxVersion) \X (1 .. MaxVersion))'
  BY BasisWhileSealed, PTL
<1>2. CASE \A d \in Directories : SealedBy(d)' = SealedBy(d)
  <2>1. sealed' = sealed /\ Sealers' = Sealers
    BY <1>2 DEF Sealers
  <2>2. SealedBasis' = SealedBasis
    <3>1. CASE Sealers = {}
      BY <1>1, <2>1, <3>1, BasisWhileSealed
    <3>2. CASE Sealers # {}
      BY <2>1, <3>2, BasisStays
    <3>3. QED BY <3>1, <3>2
  <2>3. QED BY <2>1, <2>2 DEF Series!vars
<1>3. ASSUME NEW d \in Directories, SealedBy(d) = NoRun, SealedBy(d)' = r,
             \A e \in Directories \ {d} : SealedBy(e)' = SealedBy(e)
      PROVE  Series!Seal(d, r)
  <2>1. sealed[d] = NoRun /\ sealed' = [sealed EXCEPT ![d] = r]
    BY <1>3
  <2>2. Sealers' # {}
    BY <1>3, NoRunAssumption DEF Sealers
  <2>3. SealedBasis' \in Bases
    BY <1>1, <2>2
  <2>4. SealedBasis # <<0, 0>> => SealedBasis' = SealedBasis
    BY <2>2, BasisWhileSealed, BasisStays
  <2>5. SealedBasis' \in IF SealedBasis = <<0, 0>> THEN Bases ELSE {SealedBasis}
    BY <2>3, <2>4
  <2>6. QED BY <2>1, <2>5 DEF Series!Seal
<1>4. CASE \E d \in Directories :
             /\ SealedBy(d) = NoRun /\ SealedBy(d)' = r
             /\ \A e \in Directories \ {d} : SealedBy(e)' = SealedBy(e)
  BY <1>3, <1>4 DEF Series!Next
<1>5. QED BY <1>2, <1>4, MoveSeals

LEMMA SeriesInit == Init => Series!Init
<1> SUFFICES ASSUME Init PROVE Series!Init
  OBVIOUS
<1>1. \A d \in Directories : SealedBy(d) = NoRun
  BY WrittenNames DEF Init, SealedBy, Absent, Places
<1>2. Sealers = {}
  BY <1>1 DEF Sealers
<1>3. SealedBasis = <<0, 0>>
  BY <1>2, UnsealedBasis
<1>4. QED BY <1>1, <1>3 DEF Series!Init

LEMMA SeriesStep ==
  DevelopmentInv /\ InputsInv /\ [Next]_vars => [Series!Next]_(Series!vars)
<1> SUFFICES ASSUME DevelopmentInv, InputsInv, [Next]_vars
             PROVE  [Series!Next]_(Series!vars)
  OBVIOUS
<1>1. ASSUME NEW r \in Runs, RunStep(r) \/ Die(r)
      PROVE  [Series!Next]_(Series!vars)
  BY <1>1, RunStepKeeps, MoveRefines
<1>2. ASSUME UNCHANGED <<run, files>>
      PROVE  UNCHANGED Series!vars
  <2>1. \A d \in Directories : SealedBy(d)' = SealedBy(d)
    BY <1>2 DEF SealedBy
  <2>2. SealedBasis' = SealedBasis
    BY <1>2 DEF SealedBasis, SealedBy, BasisOf
  <2>3. QED BY <2>1, <2>2 DEF Series!vars
<1>3. QED BY <1>1, <1>2 DEF Next, vars, Edit

\* The runs implement a series that seals each directory once, all of them
\* with one basis.
THEOREM RunsFormASeries == Spec => SeriesSpec
BY SeriesInit, SeriesStep, DevelopmentInit, DevelopmentStep, PTL
   DEF Spec, SeriesSpec, Series!Spec

=============================================================================
