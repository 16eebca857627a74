-------------------------- MODULE AmendmentProofs --------------------------
(***************************************************************************)
(* Proofs about Amendment: its types, that every difference between the    *)
(* frozen runtime and a verified one is declared, that no scientific file  *)
(* of the inventory is part of it, and that the two ledgers agree.         *)
(***************************************************************************)
EXTENDS Amendment, TLAPS

\* An inventory of a tree is a ledger of files that exist.
LEMMA InventoryType ==
  ASSUME NEW patterns \in SUBSET SUBSET File, NEW tree \in Tree
  PROVE  /\ Inventory(patterns, tree) \in Rows
         /\ DOMAIN Inventory(patterns, tree) =
              {g \in UNION patterns : tree[g] # Absent}
  <1> DEFINE D == {g \in UNION patterns : tree[g] # Absent}
  <1>1. D \in SUBSET File
    OBVIOUS
  <1>2. \A f \in D : tree[f] \in Content
    BY <1>1 DEF Tree
  <1>3. Inventory(patterns, tree) \in [D -> Content]
    BY <1>2 DEF Inventory
  <1>4. DOMAIN Inventory(patterns, tree) = D
    BY DEF Inventory
  <1> QED
    BY <1>1, <1>3, <1>4 DEF Rows

\* What a ledger says of a file is its bytes, or that it is absent.
LEMMA RowsType ==
  ASSUME NEW rows \in Rows
  PROVE  /\ DOMAIN rows \subseteq File
         /\ \A f \in DOMAIN rows : rows[f] \in Content
         /\ \A f : At(rows, f) \in Content \cup {Absent}
  <1>1. PICK D \in SUBSET File : rows \in [D -> Content]
    BY DEF Rows
  <1>2. DOMAIN rows = D /\ \A f \in D : rows[f] \in Content
    BY <1>1
  <1> QED
    BY <1>2 DEF At

LEMMA BaseRowsType == BaseRows \in Rows
  BY InventoryType, BaseAssumption, AllowlistAssumption DEF BaseRows

\* The ledgers agree: replaying truthful changes on the base gives the current
\* rows exactly when no base file is missing and every difference is declared.
LEMMA LedgersAgreeOn ==
  ASSUME NEW a \in AmendmentRecord, NEW rows \in Rows
  PROVE  ExactDelta(a, rows) <=>
           Replayed(a, rows) /\ DOMAIN a.changes \subseteq Delta(a.base, rows)
  <1> DEFINE C == DOMAIN a.changes
             B == DOMAIN a.base
             expected == [f \in B \cup C |->
                            IF f \in C THEN a.changes[f].new ELSE a.base[f]]
  <1>1. a.base \in Rows
    BY DEF AmendmentRecord
  <1>2. /\ \A f \in B : a.base[f] \in Content
        /\ \A f \in DOMAIN rows : rows[f] \in Content
    BY <1>1, RowsType
  <1>3. \E D : rows \in [D -> Content]
    BY DEF Rows
  <1>4. rows = [f \in DOMAIN rows |-> rows[f]]
    BY <1>3
  <1>5. ASSUME ExactDelta(a, rows)
        PROVE  Replayed(a, rows) /\ C \subseteq Delta(a.base, rows)
    <2>1. B \cup C = DOMAIN rows
      <3>1. \A f \in DOMAIN rows : f \notin C => f \in B
        BY <1>2, <1>5, AbsentAssumption DEF ExactDelta, Delta, At
      <3> QED
        BY <1>5, <3>1 DEF ExactDelta, Delta
    <2>2. \A f \in DOMAIN rows : expected[f] = rows[f]
      <3> SUFFICES ASSUME NEW f \in DOMAIN rows
                   PROVE  expected[f] = rows[f]
        OBVIOUS
      <3>1. CASE f \in C
        <4>1. a.changes[f] = [old |-> At(a.base, f), new |-> rows[f]]
          BY <3>1, <1>5 DEF ExactDelta, Change
        <4>2. a.changes[f].new = rows[f]
          BY <4>1
        <4>3. expected[f] = a.changes[f].new
          BY <3>1, <2>1
        <4> QED
          BY <4>2, <4>3
      <3>2. CASE f \notin C
        <4>1. f \in B
          BY <3>2, <2>1
        <4>2. At(a.base, f) = rows[f]
          BY <3>2, <1>5 DEF ExactDelta, Delta
        <4> QED
          BY <3>2, <4>1, <4>2 DEF At
      <3> QED
        BY <3>1, <3>2
    <2>3. rows = expected
      <3> HIDE DEF expected
      <3>1. DOMAIN expected = DOMAIN rows /\ expected = [f \in DOMAIN expected |-> expected[f]]
        BY <2>1 DEF expected
      <3> QED
        BY <1>4, <2>2, <3>1
    <2> QED
      BY <1>5, <2>3 DEF ExactDelta, Replayed, Delta
  <1>6. ASSUME Replayed(a, rows), C \subseteq Delta(a.base, rows)
        PROVE  ExactDelta(a, rows)
    <2>1. rows = expected
      BY <1>6 DEF Replayed
    <2>2. DOMAIN rows = B \cup C
      BY <2>1
    <2>3. \A f \in Delta(a.base, rows) : f \in C
      <3> SUFFICES ASSUME NEW f \in Delta(a.base, rows), f \notin C
                   PROVE  FALSE
        OBVIOUS
      <3>1. f \in B /\ At(a.base, f) # rows[f]
        BY <2>2 DEF Delta
      <3>2. rows[f] = a.base[f]
        BY <2>1, <3>1
      <3> QED
        BY <3>1, <3>2 DEF At
    <2> QED
      BY <1>6, <2>2, <2>3 DEF ExactDelta, Replayed
  <1> QED
    BY <1>5, <1>6

-----------------------------------------------------------------------------
(* The inductive invariant.                                                *)

\* What an amendment is drawn up as is an amendment record.
LEMMA RegisteredType ==
  ASSUME disk \in Tree, NEW allowlist \in Allowlists,
         NEW base \in Rows,
         NEW declared \in SUBSET DOMAIN Inventory(allowlist, disk)
  PROVE  [base |-> base, allowlist |-> allowlist,
          rows |-> Inventory(allowlist, disk),
          changes |-> [f \in declared |->
                         Change(base, Inventory(allowlist, disk), f)],
          science |-> Inventory(Science, disk)] \in AmendmentRecord
  <1> DEFINE rows == Inventory(allowlist, disk)
             changes == [f \in declared |-> Change(base, rows, f)]
  <1>1. rows \in Rows /\ Inventory(Science, disk) \in Rows
    BY InventoryType, AllowlistAssumption, ScienceAssumption
  <1>2. declared \in SUBSET File
    BY <1>1, RowsType
  <1>3. \A f \in declared :
          Change(base, rows, f) \in [old : Content \cup {Absent}, new : Content]
    BY <1>1, RowsType DEF Change
  <1>4. changes \in Changes
    <2> HIDE DEF rows
    <2>1. changes \in [declared -> [old : Content \cup {Absent}, new : Content]]
      BY <1>3
    <2> QED
      BY <1>2, <2>1 DEF Changes
  <1> QED
    BY <1>1, <1>4 DEF AmendmentRecord

\* A verification in progress is the only one of its call.
LEMMA OneVerification ==
  ASSUME TypeOK, NEW c \in Call, NEW v \in call[c]
  PROVE  v \in Verification /\ v.amendment \in registered
           /\ v.amendment \in AmendmentRecord /\ v.scheme \in Schemes
  BY DEF TypeOK, Verification

LEMMA AmendmentInit == Init => AmendmentInv
  <1> SUFFICES ASSUME Init PROVE AmendmentInv
    OBVIOUS
  <1>1. TypeOK
    BY BaseAssumption, EditsAssumption DEF Init, TypeOK
  <1> QED
    BY <1>1 DEF Init, AmendmentInv, DeltasAreDeclared, ScienceStaysFrozen
\* What a verification has found of its amendment.
VerificationOK(v) ==
  v.amendment.base = BaseRows /\ LedgerChecked(v) /\ ScienceChecked(v)

\* A step that changes neither the calls nor what is accepted, and only adds
\* amendments that list their scientific files, keeps the invariant.
LEMMA RecordsGrow ==
  ASSUME AmendmentInv, TypeOK', registered \subseteq registered',
         \A a \in registered' \ registered : ScienceListed(a),
         UNCHANGED <<call, accepted>>
  PROVE  AmendmentInv'
  <1>1. \A a \in registered' : ScienceListed(a)
    BY DEF AmendmentInv
  <1>2. DeltasAreDeclared' /\ ScienceStaysFrozen'
    BY DEF AmendmentInv, DeltasAreDeclared, ScienceStaysFrozen
  <1>3. \A c \in Call : \A v \in call'[c] : VerificationOK(v)
    BY DEF AmendmentInv, VerificationOK
  <1> QED
    BY <1>1, <1>2, <1>3 DEF AmendmentInv, VerificationOK, LedgerChecked,
       ScienceChecked, ScienceListed

LEMMA EditPreserves ==
  ASSUME AmendmentInv, NEW f \in File, NEW x \in Content \cup {Absent},
         Edit(f, x)
  PROVE  AmendmentInv'
  <1>1. TypeOK
    BY DEF AmendmentInv
  <1>2. disk' \in Tree /\ edits' \in 0 .. MaxEdits
    BY <1>1, EditsAssumption DEF Edit, TypeOK, Tree
  <1>3. TypeOK'
    BY <1>1, <1>2 DEF Edit, TypeOK, Verification
  <1> QED
    BY <1>3, RecordsGrow DEF Edit

LEMMA RegisterPreserves ==
  ASSUME AmendmentInv, NEW allowlist \in Allowlists,
         NEW base \in {BaseRows, Inventory(BaseAllowlist, disk)},
         NEW declared \in SUBSET DOMAIN Inventory(allowlist, disk),
         Register(base, allowlist, declared)
  PROVE  AmendmentInv'
  <1> DEFINE rows == Inventory(allowlist, disk)
             a == [base |-> base, allowlist |-> allowlist, rows |-> rows,
                   changes |-> [f \in declared |-> Change(base, rows, f)],
                   science |-> Inventory(Science, disk)]
  <1>1. TypeOK /\ disk \in Tree
    BY DEF AmendmentInv, TypeOK
  <1>2. base \in Rows
    <2>1. Inventory(BaseAllowlist, disk) \in Rows
      BY <1>1, InventoryType, AllowlistAssumption
    <2> QED
      BY <2>1, BaseRowsType
  <1>3. registered' = registered \cup {a}
    BY DEF Register
  <1>4. a \in AmendmentRecord
    BY <1>1, <1>2, RegisteredType
  <1>5. ScienceListed(a)
    <2>1. /\ DOMAIN rows \subseteq {g \in File : disk[g] # Absent}
          /\ DOMAIN Inventory(Science, disk) =
               {g \in UNION Science : disk[g] # Absent}
      <3>1. allowlist \in SUBSET SUBSET File /\ Science \in SUBSET SUBSET File
        BY AllowlistAssumption, ScienceAssumption
      <3>2. DOMAIN rows = {g \in UNION allowlist : disk[g] # Absent}
        BY <1>1, <3>1, InventoryType
      <3>3. DOMAIN Inventory(Science, disk) =
              {g \in UNION Science : disk[g] # Absent}
        BY <1>1, <3>1, InventoryType
      <3> QED
        BY <3>1, <3>2, <3>3
    <2>2. a.rows = rows /\ a.science = Inventory(Science, disk)
      OBVIOUS
    <2> HIDE DEF a, rows
    <2> QED
      BY <2>1, <2>2 DEF ScienceListed
  <1> HIDE DEF a
  <1>6. TypeOK'
    BY <1>1, <1>3, <1>4 DEF Register, TypeOK, Verification
  <1> QED
    BY <1>3, <1>5, <1>6, RecordsGrow DEF Register

\* A step of one call, after which the call holds at most one verification,
\* of a registered amendment, and what it has found is true.
LEMMA CallSteps ==
  ASSUME AmendmentInv, NEW c \in Call, NEW next \in SUBSET Verification,
         \A v, w \in next : v = w,
         \A v \in next : VerificationOK(v),
         call' = [call EXCEPT ![c] = next],
         UNCHANGED <<disk, edits, registered, accepted>>
  PROVE  AmendmentInv'
  <1>1. TypeOK
    BY DEF AmendmentInv
  <1>2. TypeOK'
    BY <1>1 DEF TypeOK, Verification
  <1>3. \A d \in Call : \A v \in call'[d] : VerificationOK(v)
    BY <1>1 DEF AmendmentInv, VerificationOK, TypeOK
  <1> QED
    BY <1>2, <1>3 DEF AmendmentInv, VerificationOK, LedgerChecked,
       ScienceChecked, ScienceListed, DeltasAreDeclared, ScienceStaysFrozen

LEMMA StartPreserves ==
  ASSUME AmendmentInv, NEW c \in Call, NEW scheme \in Schemes,
         NEW a \in registered, NEW approved \in registered,
         Start(c, scheme, a, approved)
  PROVE  AmendmentInv'
  <1> DEFINE v == [stage |-> "inventory", scheme |-> scheme, amendment |-> a]
  <1>1. v \in Verification
    BY DEF Verification, Stages
  <1>2. VerificationOK(v)
    BY DEF Start, VerificationOK, LedgerChecked, ScienceChecked
  <1>3. call' = [call EXCEPT ![c] = {v}]
    BY DEF Start
  <1>4. UNCHANGED <<disk, edits, registered, accepted>>
    BY DEF Start
  <1> HIDE DEF v
  <1>5. {v} \in SUBSET Verification /\ \A u \in {v} : VerificationOK(u)
    BY <1>1, <1>2
  <1> QED
    BY <1>3, <1>4, <1>5, CallSteps

\* A pass that holds adds what it found; one that fails ends the call.
LEMMA PassPreserves ==
  ASSUME AmendmentInv, NEW c \in Call, NEW v \in call[c], NEW holds \in BOOLEAN,
         NEW stage \in Stages, Pass(c, v, holds, stage),
         holds => VerificationOK([v EXCEPT !.stage = stage])
  PROVE  AmendmentInv'
  <1>1. v \in Verification
    BY OneVerification DEF AmendmentInv
  <1>2. [v EXCEPT !.stage = stage] \in Verification
    BY <1>1 DEF Verification
  <1>3. UNCHANGED <<disk, edits, registered, accepted>>
    BY DEF Pass
  <1>4. CASE holds
    <2> DEFINE w == [v EXCEPT !.stage = stage]
    <2>1. call' = [call EXCEPT ![c] = {w}]
      BY <1>4 DEF Pass
    <2>2. w \in Verification /\ VerificationOK(w)
      BY <1>2, <1>4
    <2> HIDE DEF w
    <2>3. {w} \in SUBSET Verification /\ \A u \in {w} : VerificationOK(u)
      BY <2>2
    <2> QED
      BY <1>3, <2>1, <2>3, CallSteps
  <1>5. CASE ~holds
    <2>1. call' = [call EXCEPT ![c] = {}]
      BY <1>5 DEF Pass
    <2> QED
      BY <1>3, <2>1, CallSteps
  <1> QED
    BY <1>4, <1>5
\* Either ledger, held against the frozen base, declares the whole difference.
LEMMA LedgerDeclares ==
  ASSUME NEW scheme \in Schemes, NEW a \in AmendmentRecord,
         a.base = BaseRows, LedgerHolds(scheme, a, a.rows)
  PROVE  DeltaDeclared(scheme, a)
  <1>1. CASE scheme = "v2"
    <2>1. ExactDelta(a, a.rows)
      BY <1>1 DEF LedgerHolds
    <2> QED
      BY <1>1, <2>1 DEF ExactDelta, DeltaDeclared
  <1>2. CASE scheme = "v1"
    <2>1. Replayed(a, a.rows) /\ DOMAIN a.changes \subseteq V22Allowed
      BY <1>2 DEF LedgerHolds
    <2>2. DOMAIN a.rows = DOMAIN BaseRows \cup DOMAIN a.changes
      BY <2>1 DEF Replayed
    <2>3. \A f \in DOMAIN a.rows : f \notin DOMAIN a.changes =>
            f \in DOMAIN BaseRows /\ a.rows[f] = BaseRows[f]
      BY <2>1, <2>2 DEF Replayed
    <2>4. Delta(BaseRows, a.rows) \subseteq DOMAIN a.changes
      BY <2>3 DEF Delta, At
    <2>5. \A f \in DOMAIN a.changes : a.changes[f] = Change(BaseRows, a.rows, f)
      BY <2>1 DEF Replayed
    <2> QED
      BY <2>1, <2>2, <2>4, <2>5 DEF DeltaDeclared
  <1> QED
    BY <1>1, <1>2 DEF Schemes

\* A declared difference without scientific files leaves them as they were.
LEMMA ScienceUntouched ==
  ASSUME NEW scheme \in Schemes, NEW a \in AmendmentRecord,
         DeltaDeclared(scheme, a), ScienceListed(a),
         DOMAIN a.science \cap DOMAIN a.changes = {},
         NEW f \in UNION Science
  PROVE  At(a.rows, f) = At(BaseRows, f)
  <1>1. CASE f \in DOMAIN a.rows
    <2>1. f \notin DOMAIN a.changes
      BY <1>1 DEF ScienceListed
    <2>2. f \notin Delta(BaseRows, a.rows)
      BY <2>1 DEF DeltaDeclared
    <2>3. At(BaseRows, f) = a.rows[f]
      BY <1>1, <2>2 DEF Delta
    <2> QED
      BY <1>1, <2>3 DEF At
  <1>2. CASE f \notin DOMAIN a.rows
    <2>1. f \notin DOMAIN BaseRows
      BY <1>2 DEF DeltaDeclared
    <2> QED
      BY <1>2, <2>1 DEF At
  <1> QED
    BY <1>1, <1>2

LEMMA CheckInventoryPreserves ==
  ASSUME AmendmentInv, NEW c \in Call, CheckInventory(c)
  PROVE  AmendmentInv'
  <1>1. PICK v \in call[c] : /\ v.stage = "inventory"
                             /\ Pass(c, v, InventoryHolds(v), "science")
    BY DEF CheckInventory
  <1>2. /\ v \in Verification /\ v.amendment \in AmendmentRecord
        /\ v.scheme \in Schemes /\ v.amendment.base = BaseRows
    BY OneVerification DEF AmendmentInv
  <1> DEFINE w == [v EXCEPT !.stage = "science"]
  <1>3. w.stage = "science" /\ w.amendment = v.amendment /\ w.scheme = v.scheme
    BY <1>2 DEF Verification
  <1>4. ASSUME InventoryHolds(v) PROVE VerificationOK(w)
    <2>1. LedgerHolds(v.scheme, v.amendment, v.amendment.rows)
      BY <1>4 DEF InventoryHolds
    <2>2. DeltaDeclared(v.scheme, v.amendment)
      BY <1>2, <2>1, LedgerDeclares
    <2> HIDE DEF w
    <2> QED
      BY <1>2, <1>3, <2>2 DEF VerificationOK, LedgerChecked, ScienceChecked
  <1>5. InventoryHolds(v) \in BOOLEAN
    BY DEF InventoryHolds
  <1> QED
    BY <1>1, <1>4, <1>5, PassPreserves DEF Stages

LEMMA CheckSciencePreserves ==
  ASSUME AmendmentInv, NEW c \in Call, CheckScience(c)
  PROVE  AmendmentInv'
  <1>1. PICK v \in call[c] : /\ v.stage = "science"
                             /\ Pass(c, v, ScienceHolds(v.amendment), "config")
    BY DEF CheckScience
  <1>2. v \in Verification /\ VerificationOK(v)
    BY OneVerification DEF AmendmentInv, VerificationOK
  <1> DEFINE w == [v EXCEPT !.stage = "config"]
  <1>3. w.stage = "config" /\ w.amendment = v.amendment /\ w.scheme = v.scheme
    BY <1>2 DEF Verification
  <1>4. ASSUME ScienceHolds(v.amendment) PROVE VerificationOK(w)
    <2>1. DOMAIN v.amendment.science \cap DOMAIN v.amendment.changes = {}
      BY <1>4 DEF ScienceHolds
    <2> HIDE DEF w
    <2> QED
      BY <1>1, <1>2, <1>3, <2>1
         DEF VerificationOK, LedgerChecked, ScienceChecked
  <1>5. ScienceHolds(v.amendment) \in BOOLEAN
    BY DEF ScienceHolds
  <1> QED
    BY <1>1, <1>4, <1>5, PassPreserves DEF Stages

LEMMA CheckConfigPreserves ==
  ASSUME AmendmentInv, NEW c \in Call, CheckConfig(c)
  PROVE  AmendmentInv'
  <1> DEFINE holds == \A f \in Config : disk[f] = Base[f]
  <1>1. PICK v \in call[c] : /\ v.stage = "config"
                             /\ Pass(c, v, holds, "carryforward")
    BY DEF CheckConfig
  <1>2. v \in Verification /\ VerificationOK(v)
    BY OneVerification DEF AmendmentInv, VerificationOK
  <1> DEFINE w == [v EXCEPT !.stage = "carryforward"]
  <1>3. w.stage = "carryforward" /\ w.amendment = v.amendment
          /\ w.scheme = v.scheme
    BY <1>2 DEF Verification
  <1>4. VerificationOK(w)
    <2> HIDE DEF w
    <2> QED
      BY <1>1, <1>2, <1>3 DEF VerificationOK, LedgerChecked, ScienceChecked
  <1>5. holds \in BOOLEAN
    OBVIOUS
  <1> HIDE DEF holds
  <1> QED
    BY <1>1, <1>4, <1>5, PassPreserves DEF Stages

LEMMA CheckCarryforwardPreserves ==
  ASSUME AmendmentInv, NEW c \in Call, CheckCarryforward(c)
  PROVE  AmendmentInv'
  <1>1. PICK v \in call[c] :
          /\ v.stage = "carryforward"
          /\ call' = [call EXCEPT ![c] = {}]
          /\ accepted' \in {accepted, accepted \cup
               {[scheme |-> v.scheme, amendment |-> v.amendment]}}
          /\ UNCHANGED <<disk, edits, registered>>
    BY DEF CheckCarryforward
  <1> DEFINE a == v.amendment
             d == [scheme |-> v.scheme, amendment |-> a]
  <1>2. TypeOK
    BY DEF AmendmentInv
  <1>3. /\ a \in registered /\ a \in AmendmentRecord /\ v.scheme \in Schemes
        /\ VerificationOK(v)
    BY <1>2, OneVerification DEF AmendmentInv, VerificationOK
  <1>4. DeltaDeclared(v.scheme, a)
    BY <1>1, <1>3 DEF VerificationOK, LedgerChecked
  <1>5. \A f \in UNION Science : At(a.rows, f) = At(BaseRows, f)
    <2>1. DOMAIN a.science \cap DOMAIN a.changes = {}
      BY <1>1, <1>3 DEF VerificationOK, ScienceChecked
    <2>2. ScienceListed(a)
      BY <1>3 DEF AmendmentInv
    <2> QED
      BY <1>3, <1>4, <2>1, <2>2, ScienceUntouched
  <1>6. TypeOK'
    BY <1>1, <1>2, <1>3 DEF TypeOK, Verification
  <1>7. DeltasAreDeclared'
    BY <1>1, <1>4 DEF AmendmentInv, DeltasAreDeclared
  <1>8. ScienceStaysFrozen'
    BY <1>1, <1>5 DEF AmendmentInv, ScienceStaysFrozen
  <1>9. \A b \in Call : \A u \in call'[b] : VerificationOK(u)
    BY <1>1, <1>2 DEF AmendmentInv, VerificationOK, TypeOK
  <1> QED
    BY <1>1, <1>6, <1>7, <1>8, <1>9 DEF AmendmentInv, VerificationOK,
       LedgerChecked, ScienceChecked, ScienceListed

LEMMA AmendmentNext == AmendmentInv /\ [Next]_vars => AmendmentInv'
  <1> SUFFICES ASSUME AmendmentInv, [Next]_vars PROVE AmendmentInv'
    OBVIOUS
  <1>1. CASE People
    BY <1>1, EditPreserves, RegisterPreserves DEF People
  <1>2. ASSUME NEW c \in Call, Verify(c) PROVE AmendmentInv'
    BY <1>2, StartPreserves, CheckInventoryPreserves, CheckSciencePreserves,
       CheckConfigPreserves, CheckCarryforwardPreserves DEF Verify
  <1>3. CASE UNCHANGED vars
    BY <1>3 DEF vars, AmendmentInv, TypeOK, Verification, LedgerChecked,
       ScienceChecked, ScienceListed, DeltasAreDeclared, ScienceStaysFrozen
  <1> QED
    BY <1>1, <1>2, <1>3 DEF Next

LEMMA AmendmentInvariant == Spec => []AmendmentInv
  BY AmendmentInit, AmendmentNext, PTL DEF Spec

-----------------------------------------------------------------------------
(* The theorems.                                                           *)

\* The tree, the records and the verifications in progress keep their types.
THEOREM AmendmentTypeCorrect == Spec => []TypeOK
  <1>1. AmendmentInv => TypeOK
    BY DEF AmendmentInv
  <1> QED
    BY <1>1, AmendmentInvariant, PTL

\* Whatever is edited, registered and superseded, a verified runtime differs
\* from the frozen one by declared changes only.
THEOREM DifferencesAreDeclared == Spec => []DeltasAreDeclared
  <1>1. AmendmentInv => DeltasAreDeclared
    BY DEF AmendmentInv
  <1> QED
    BY <1>1, AmendmentInvariant, PTL

\* Whatever is edited, registered and superseded, no scientific file of a
\* verified inventory differs from the frozen one.
THEOREM ScienceIsFrozen == Spec => []ScienceStaysFrozen
  <1>1. AmendmentInv => ScienceStaysFrozen
    BY DEF AmendmentInv
  <1> QED
    BY <1>1, AmendmentInvariant, PTL

\* On every tree and every registered amendment the replayed ledger of the
\* original scheme and the exact difference of the cumulative one agree, up to
\* declared changes that change nothing.
THEOREM TheLedgersAgree == Spec => []LedgersAgree
  <1>1. TypeOK => LedgersAgree
    <2> SUFFICES ASSUME TypeOK, NEW a \in registered
                 PROVE  LET rows == Inventory(a.allowlist, disk) IN
                          ExactDelta(a, rows) <=>
                            /\ Replayed(a, rows)
                            /\ DOMAIN a.changes \subseteq Delta(a.base, rows)
      BY DEF LedgersAgree
    <2>1. a \in AmendmentRecord /\ disk \in Tree
      BY DEF TypeOK
    <2>2. a.allowlist \in SUBSET SUBSET File
      BY <2>1, AllowlistAssumption DEF AmendmentRecord
    <2>3. Inventory(a.allowlist, disk) \in Rows
      BY <2>1, <2>2, InventoryType
    <2> QED
      BY <2>1, <2>3, LedgersAgreeOn
  <1> QED
    BY <1>1, AmendmentTypeCorrect, PTL
=============================================================================
