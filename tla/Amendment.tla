----------------------------- MODULE Amendment -----------------------------
(***************************************************************************)
(* The amendments of an approved freeze.  The frozen runtime stays the     *)
(* base; an amendment registers the runtime that is to run instead, the    *)
(* files it changes, and the scientific files it must not change.  Each    *)
(* amendment starts again from the base, so what a superseded one changed  *)
(* must be declared anew.  The two verifications of amendment.py compare   *)
(* the record with the files on disk, in several passes over the tree that *)
(* people may edit meanwhile.                                              *)
(*                                                                         *)
(* A file is abstracted to its bytes, a row of an inventory to the file    *)
(* and its bytes, a hash of a record to the record.  The environment       *)
(* manifest, the predecessor records a cumulative amendment must name and  *)
(* the declarations of fixed text are left out.                            *)
(***************************************************************************)
EXTENDS Naturals, FiniteSets

CONSTANTS
  File,           \* the files of the project tree
  Content,        \* what a file may hold
  Absent,         \* a file that does not exist
  Base,           \* the tree when the freeze was approved
  BaseAllowlist,  \* the runtime allowlist of the freeze, a set of patterns
  Allowlists,     \* the allowlists an amendment may bring
  V22Allowed,     \* V22_ALLOWED_RUNTIME_CHANGE_PATHS
  Science,        \* the patterns of the scientific protected files
  Config,         \* protocol, configuration and fidelity contracts
  Reviewed,       \* the bytes of the manuscript and of the sealed artifacts
                  \* that the module itself names
  Call,           \* verifications in progress
  MaxEdits,       \* bound: how many edits of the tree
  MaxRegistered   \* bound: how many amendments

Tree == [File -> Content \cup {Absent}]

ASSUME EditsAssumption == MaxEdits \in Nat
ASSUME AbsentAssumption == Absent \notin Content
ASSUME BaseAssumption == Base \in Tree
ASSUME AllowlistAssumption ==
  BaseAllowlist \subseteq SUBSET File /\ Allowlists \subseteq SUBSET SUBSET File
ASSUME ScienceAssumption ==
  Science \subseteq SUBSET File /\ Config \subseteq UNION Science
ASSUME ReviewedAssumption ==
  DOMAIN Reviewed \subseteq File /\ Reviewed \in [DOMAIN Reviewed -> Content]

VARIABLES
  disk,           \* the tree
  edits,          \* how many edits were made
  registered,     \* the amendment records
  call,           \* call[c]: the verification c, the empty set before and after
  accepted        \* what the verifications that returned had verified

vars == <<disk, edits, registered, call, accepted>>

-----------------------------------------------------------------------------
(* Inventories and records.                                                *)

\* A pattern, or an exact path, that matches nothing raises.
AllMatched(patterns, tree) ==
  \A pattern \in patterns : \E f \in pattern : tree[f] # Absent

\* Mutant: a listed file is hashed whether or not it exists.
InventoryOfAll(patterns, tree) == [f \in UNION patterns |-> tree[f]]

\* compute_runtime_inventory: the rows of the files the patterns match.
Inventory(patterns, tree) ==
  [f \in {g \in UNION patterns : tree[g] # Absent} |-> tree[f]]

BaseRows == Inventory(BaseAllowlist, Base)

Rows == UNION {[D -> Content] : D \in SUBSET File}

At(rows, f) == IF f \in DOMAIN rows THEN rows[f] ELSE Absent

\* The files that are new in rows or differ from base.
Delta(base, rows) == {f \in DOMAIN rows : At(base, f) # rows[f]}

\* A change with old = Absent is an ADDED one, any other a MODIFIED one.
Change(base, rows, f) == [old |-> At(base, f), new |-> rows[f]]

Changes ==
  UNION {[D -> [old : Content \cup {Absent}, new : Content]] : D \in SUBSET File}

AmendmentRecord ==
  [base : Rows, allowlist : Allowlists, rows : Rows, changes : Changes,
   science : Rows]

\* The files of a carryforward: the manuscript is hashed with the scientific
\* files, every other reviewed file is a sealed artifact.
Manuscript == DOMAIN Reviewed \cap UNION Science
Sealed == DOMAIN Reviewed \ Manuscript

Schemes == {"v1", "v2"}

Stages == {"inventory", "science", "config", "carryforward"}

Verification ==
  [stage : Stages, scheme : Schemes, amendment : registered]

TypeOK ==
  /\ disk \in Tree
  /\ edits \in 0 .. MaxEdits
  /\ registered \subseteq AmendmentRecord
  /\ call \in [Call -> SUBSET Verification]
  /\ \A c \in Call : \A v, w \in call[c] : v = w
  /\ accepted \subseteq [scheme : Schemes, amendment : registered]

Init ==
  /\ disk = Base
  /\ edits = 0
  /\ registered = {}
  /\ call = [c \in Call |-> {}]
  /\ accepted = {}

-----------------------------------------------------------------------------
(* People.                                                                 *)

Edit(f, x) ==
  /\ edits < MaxEdits
  /\ disk[f] # x
  /\ disk' = [disk EXCEPT ![f] = x]
  /\ edits' = edits + 1
  /\ UNCHANGED <<registered, call, accepted>>

\* An amendment is drawn up from the tree, and its rows and scientific files
\* are those of the tree.  Its base ledger may be the frozen one or be taken
\* from the tree too, and its ledger may miss changes or list what is none.
Register(base, allowlist, declared) ==
  LET rows == Inventory(allowlist, disk) IN
    /\ Cardinality(registered) < MaxRegistered
    /\ registered' = registered \cup
         {[base |-> base, allowlist |-> allowlist, rows |-> rows,
           changes |-> [f \in declared |-> Change(base, rows, f)],
           science |-> Inventory(Science, disk)]}
    /\ UNCHANGED <<disk, edits, call, accepted>>

-----------------------------------------------------------------------------
(* The two verifications.                                                  *)

\* The author's scope approval names the amendment it approves.
ScopeApproved(approved, a) == approved = a

\* Mutant: the base ledger is taken as the amendment gives it, which an
\* amendment of an amendment may draw up from the tree it starts from.
StartAnyBase(c, scheme, a, approved) ==
  /\ call[c] = {}
  /\ ScopeApproved(approved, a)
  /\ scheme = "v1" => a.allowlist = BaseAllowlist
  /\ DOMAIN a.changes # {}
  /\ call' = [call EXCEPT ![c] =
       {[stage |-> "inventory", scheme |-> scheme, amendment |-> a]}]
  /\ UNCHANGED <<disk, edits, registered, accepted>>

\* The record checks before the tree is read: the author's approval is for
\* this amendment, the base ledger reconstructs the frozen inventory, and the
\* original amendment keeps the allowlist of the freeze.
Start(c, scheme, a, approved) ==
  /\ call[c] = {}
  /\ ScopeApproved(approved, a)
  /\ a.base = BaseRows
  /\ scheme = "v1" => a.allowlist = BaseAllowlist
  /\ DOMAIN a.changes # {}
  /\ call' = [call EXCEPT ![c] =
       {[stage |-> "inventory", scheme |-> scheme, amendment |-> a]}]
  /\ UNCHANGED <<disk, edits, registered, accepted>>

\* A pass over the tree: on to the next stage when it holds, else it raises.
Pass(c, v, holds, next) ==
  /\ call' = [call EXCEPT ![c] = IF holds THEN {[v EXCEPT !.stage = next]} ELSE {}]
  /\ UNCHANGED <<disk, edits, registered, accepted>>

\* v1: the changes, replayed on the base ledger, give the current rows.
Replayed(a, rows) ==
  /\ \A f \in DOMAIN a.changes :
       f \in DOMAIN rows /\ a.changes[f] = Change(a.base, rows, f)
  /\ rows = [f \in DOMAIN a.base \cup DOMAIN a.changes |->
               IF f \in DOMAIN a.changes THEN a.changes[f].new ELSE a.base[f]]

\* Mutant: a base file may be missing.
ExactDeltaOfPresent(a, rows) ==
  /\ DOMAIN a.changes = Delta(a.base, rows)
  /\ \A f \in DOMAIN a.changes : a.changes[f] = Change(a.base, rows, f)

\* v2: no base file is missing, and the changes are the difference.
ExactDelta(a, rows) ==
  /\ DOMAIN a.base \subseteq DOMAIN rows
  /\ DOMAIN a.changes = Delta(a.base, rows)
  /\ \A f \in DOMAIN a.changes : a.changes[f] = Change(a.base, rows, f)

LedgerHolds(scheme, a, rows) ==
  /\ scheme = "v1" =>
       DOMAIN a.changes \subseteq V22Allowed /\ Replayed(a, rows)
  /\ scheme = "v2" => ExactDelta(a, rows)

InventoryHolds(v) ==
  LET a == v.amendment
      rows == Inventory(a.allowlist, disk)
  IN /\ AllMatched(a.allowlist, disk)
     /\ a.rows = rows
     /\ LedgerHolds(v.scheme, a, rows)

CheckInventory(c) ==
  \E v \in call[c] :
    /\ v.stage = "inventory"
    /\ Pass(c, v, InventoryHolds(v), "science")

\* _expected_scientific_paths: what is there of the protected files.
ScientificFiles(tree) == {f \in UNION Science : tree[f] # Absent}

\* Mutant: a scientific file may be among the changes.
ScienceHoldsOnDisk(a) ==
  /\ AllMatched(Science, disk)
  /\ DOMAIN a.science = ScientificFiles(disk)
  /\ \A f \in DOMAIN a.science : a.science[f] = disk[f]
  /\ \A f \in Manuscript : disk[f] = Reviewed[f]

\* The scientific files are all listed, are no part of the changes, and hold
\* what the amendment says; the manuscript is the one that was reviewed.
ScienceHolds(a) ==
  /\ AllMatched(Science, disk)
  /\ DOMAIN a.science = ScientificFiles(disk)
  /\ DOMAIN a.science \cap DOMAIN a.changes = {}
  /\ \A f \in DOMAIN a.science : a.science[f] = disk[f]
  /\ \A f \in Manuscript : disk[f] = Reviewed[f]

CheckScience(c) ==
  \E v \in call[c] :
    /\ v.stage = "science"
    /\ Pass(c, v, ScienceHolds(v.amendment), "config")

CheckConfig(c) ==
  \E v \in call[c] :
    /\ v.stage = "config"
    /\ Pass(c, v, \A f \in Config : disk[f] = Base[f], "carryforward")

\* The carryforward is for this amendment and its approval; the artifacts it
\* lists are the reviewed ones, and are on disk.
CheckCarryforward(c) ==
  \E v \in call[c] :
    /\ v.stage = "carryforward"
    /\ call' = [call EXCEPT ![c] = {}]
    /\ \E carried \in registered :
         accepted' =
           IF carried = v.amendment /\ \A f \in Sealed : disk[f] = Reviewed[f]
           THEN accepted \cup
                  {[scheme |-> v.scheme, amendment |-> v.amendment]}
           ELSE accepted
    /\ UNCHANGED <<disk, edits, registered>>

-----------------------------------------------------------------------------
People ==
  \/ \E f \in File, x \in Content \cup {Absent} : Edit(f, x)
  \/ \E allowlist \in Allowlists :
       \E base \in {BaseRows, Inventory(BaseAllowlist, disk)} :
         \E declared \in SUBSET DOMAIN Inventory(allowlist, disk) :
           Register(base, allowlist, declared)

Verify(c) ==
  \/ \E scheme \in Schemes, a \in registered, approved \in registered :
       Start(c, scheme, a, approved)
  \/ CheckInventory(c) \/ CheckScience(c)
  \/ CheckConfig(c) \/ CheckCarryforward(c)

Next == People \/ \E c \in Call : Verify(c)

Spec == Init /\ [][Next]_vars

-----------------------------------------------------------------------------
(* Safety.                                                                 *)

\* A verified runtime extends the frozen one: no base file is missing, and
\* every difference from the base, however many amendments came between, is
\* declared by the accepted one with the bytes before and after; under the
\* original scheme it lies in the exact allowlist of that amendment.
DeltaDeclared(scheme, a) ==
  LET delta == Delta(BaseRows, a.rows) IN
    /\ DOMAIN BaseRows \subseteq DOMAIN a.rows
    /\ delta \subseteq DOMAIN a.changes
    /\ \A f \in DOMAIN a.changes : a.changes[f] = Change(BaseRows, a.rows, f)
    /\ scheme = "v1" => delta \subseteq V22Allowed

DeltasAreDeclared ==
  \A d \in accepted : DeltaDeclared(d.scheme, d.amendment)

\* A verified runtime runs the frozen science: in the part of it the inventory
\* covers no scientific file is changed, added or missing.
ScienceStaysFrozen ==
  \A d \in accepted : \A f \in UNION Science :
    At(d.amendment.rows, f) = At(BaseRows, f)

\* The two ledgers accept the same amendments of one runtime, up to changes
\* that change nothing, which only the original one lets pass.
LedgersAgree ==
  \A a \in registered :
    LET rows == Inventory(a.allowlist, disk) IN
      ExactDelta(a, rows) <=>
        Replayed(a, rows) /\ DOMAIN a.changes \subseteq Delta(a.base, rows)

\* Why the first two hold: what the passes of a verification have found, and
\* that an amendment lists the scientific files among its rows.
LedgerChecked(v) ==
  v.stage \in {"science", "config", "carryforward"} =>
    DeltaDeclared(v.scheme, v.amendment)

ScienceChecked(v) ==
  v.stage \in {"config", "carryforward"} =>
    DOMAIN v.amendment.science \cap DOMAIN v.amendment.changes = {}

ScienceListed(a) ==
  DOMAIN a.rows \cap UNION Science \subseteq DOMAIN a.science

AmendmentInv ==
  /\ TypeOK
  /\ \A a \in registered : ScienceListed(a)
  /\ \A c \in Call : \A v \in call[c] :
       /\ v.amendment.base = BaseRows
       /\ LedgerChecked(v) /\ ScienceChecked(v)
  /\ DeltasAreDeclared
  /\ ScienceStaysFrozen
=============================================================================
