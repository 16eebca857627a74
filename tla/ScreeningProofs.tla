-------------------------- MODULE ScreeningProofs --------------------------
(***************************************************************************)
(* What holds of a screen for every number of candidates, gates and looks, *)
(* of the propagated bound for all integers and any number of steps, and   *)
(* of the fidelity assessment for all observables and tolerances.          *)
(***************************************************************************)
EXTENDS Screening, FiniteSetTheorems, WellFoundedInduction, TLAPS

-----------------------------------------------------------------------------
(* The ledger.                                                             *)

\* The parts of the ledger, as the set that Total counts.
PartsOf(ledger) == {u \in (DOMAIN ledger) \X (1 .. Units) : u[2] <= ledger[u[1]]}

\* There are finitely many keys.
LEMMA KeysFinite == IsFiniteSet(Keys)
<1>1. IsFiniteSet(1 .. MaxLook)
  BY FS_Interval, CountsAssumption
<1>2. IsFiniteSet(Gates \X (1 .. MaxLook))
  BY <1>1, FS_Product, CountsAssumption
<1>3. IsFiniteSet(Candidates \X Gates) /\ IsFiniteSet((Candidates \X Gates) \X (1 .. MaxLook))
  BY <1>1, FS_Product, CountsAssumption
<1>. DEFINE Flat(k) == <<k[1][1], k[1][2], k[2]>>
           f == [k \in (Candidates \X Gates) \X (1 .. MaxLook) |-> Flat(k)]
<1>4. f \in Surjection((Candidates \X Gates) \X (1 .. MaxLook), Keys)
  <2>1. f \in [(Candidates \X Gates) \X (1 .. MaxLook) -> Keys]
    BY DEF Keys
  <2>2. \A k \in Keys : \E j \in (Candidates \X Gates) \X (1 .. MaxLook) : f[j] = k
    <3>1. SUFFICES ASSUME NEW k \in Keys
                   PROVE  \E j \in (Candidates \X Gates) \X (1 .. MaxLook) : f[j] = k
      OBVIOUS
    <3>2. <<<<k[1], k[2]>>, k[3]>> \in (Candidates \X Gates) \X (1 .. MaxLook)
      BY DEF Keys
    <3>3. f[<<<<k[1], k[2]>>, k[3]>>] = k
      BY <3>2 DEF Keys
    <3>4. QED
      BY <3>2, <3>3
  <2>3. QED
    BY <2>1, <2>2 DEF Surjection
<1>5. QED
  BY <1>3, <1>4, FS_Surjection

\* What Total counts is finite: every ledger of a screen has a total.
LEMMA PartsFinite ==
  ASSUME NEW ledger, DOMAIN ledger \subseteq Keys
  PROVE  IsFiniteSet(PartsOf(ledger)) /\ Total(ledger) \in Nat
<1>1. IsFiniteSet(DOMAIN ledger)
  BY KeysFinite, FS_Subset
<1>2. IsFiniteSet(1 .. Units)
  BY FS_Interval, UnitsAssumption
<1>3. IsFiniteSet((DOMAIN ledger) \X (1 .. Units))
  BY <1>1, <1>2, FS_Product
<1>4. IsFiniteSet(PartsOf(ledger))
  BY <1>3, FS_Subset DEF PartsOf
<1>5. QED
  BY <1>4, FS_CardinalityType DEF Total, PartsOf

\* An allocation never lowers the total: nothing is ever given back.
LEMMA TotalGrows ==
  ASSUME NEW ledger, NEW larger,
         DOMAIN ledger \subseteq DOMAIN larger, DOMAIN larger \subseteq Keys,
         \A k \in DOMAIN ledger : larger[k] = ledger[k]
  PROVE  Total(ledger) <= Total(larger)
<1>1. PartsOf(ledger) \subseteq PartsOf(larger)
  BY DEF PartsOf
<1>2. IsFiniteSet(PartsOf(larger))
  BY PartsFinite
<1>3. QED
  BY <1>1, <1>2, FS_Subset DEF Total, PartsOf

\* A refusal leaves a ledger above the budget; a decision was taken on a
\* ledger within it; a screen that is no class screen has no ledger.
LedgerInv ==
  /\ DOMAIN allocations \subseteq Keys
  /\ refused => Total(allocations) > Budget
  /\ OverdrawnNeverDecides

LEMMA LedgerInitially == ScreeningInit => LedgerInv
BY DEF ScreeningInit, NoScreen, LedgerInv, OverdrawnNeverDecides

LEMMA LedgerStep == LedgerInv /\ [ScreeningNext]_screeningVars => LedgerInv'
<1>1. SUFFICES ASSUME LedgerInv, [ScreeningNext]_screeningVars PROVE LedgerInv'
  OBVIOUS
<1>2. CASE Allocate
  <2>1. PICK k \in Keys \ DOMAIN allocations :
          /\ allocations' = [j \in DOMAIN allocations \cup {k} |->
                               IF j = k THEN Alpha(k[3]) ELSE allocations[j]]
          /\ refused' = (refused \/ Total(allocations') > Budget)
    BY <1>2 DEF Allocate
  <2>2. DOMAIN allocations' \subseteq Keys
    BY <1>1, <2>1 DEF LedgerInv
  <2>3. Total(allocations) <= Total(allocations')
    BY <2>1, <2>2, TotalGrows
  <2>4. Total(allocations) \in Nat /\ Total(allocations') \in Nat
    BY <1>1, <2>2, PartsFinite DEF LedgerInv
  <2>5. refused' => Total(allocations') > Budget
    <3>1. CASE refused
      BY <1>1, <3>1, <2>3, <2>4, UnitsAssumption DEF LedgerInv
    <3>2. CASE ~refused
      BY <2>1, <3>2
    <3>3. QED
      BY <3>1, <3>2
  <2>6. decision' = "none"
    BY <1>2 DEF Allocate
  <2>7. QED
    BY <2>2, <2>5, <2>6 DEF LedgerInv, OverdrawnNeverDecides, Total
<1>3. CASE Decide
  <2>1. UNCHANGED <<allocations, refused>>
    BY <1>3 DEF Decide
  <2>2. PICK representatives, exact \in {{}, Candidates} :
          decision' = ClassDecision(representatives, exact)
    BY <1>3 DEF Decide
  <2>3. decision' \in {"MODEL_CLASS_INADEQUATE", "RETAIN_CLASS"} => Complete
    BY <2>2 DEF ClassDecision
  <2>4. refused => ~Complete
    BY <1>1, PartsFinite, UnitsAssumption DEF LedgerInv, Complete
  <2>5. QED
    BY <1>1, <2>1, <2>3, <2>4 DEF LedgerInv, OverdrawnNeverDecides, Total
<1>4. CASE Bound
  BY <1>1, <1>4 DEF Bound, LedgerInv, OverdrawnNeverDecides, Total
<1>5. CASE Fail
  BY <1>1, <1>5 DEF Fail, LedgerInv, OverdrawnNeverDecides, Total
<1>6. CASE Propagate
  BY <1>1, <1>6 DEF Propagate, LedgerInv, OverdrawnNeverDecides, Total
<1>7. CASE Assess
  BY <1>1, <1>7 DEF Assess, AssessRefinement, LedgerInv, OverdrawnNeverDecides, Total
<1>8. CASE UNCHANGED screeningVars
  BY <1>1, <1>8 DEF screeningVars, LedgerInv, OverdrawnNeverDecides, Total
<1>9. QED
  BY <1>1, <1>2, <1>3, <1>4, <1>5, <1>6, <1>7, <1>8 DEF ScreeningNext

\* A screen that asked for more than the budget ends without a decision about
\* its class, whatever it declared and in whatever order it allocated.
THEOREM OverdrawnScreensNeverDecide == ScreeningSpec => []OverdrawnNeverDecides
<1>1. LedgerInv => OverdrawnNeverDecides
  BY DEF LedgerInv
<1>2. QED
  BY <1>1, LedgerInitially, LedgerStep, PTL DEF ScreeningSpec

-----------------------------------------------------------------------------
(* A caller that declares what it screens.                                 *)

\* Induction over the natural numbers, for a set instead of a predicate.
LEMMA InductionOnSets ==
  ASSUME NEW T, T \subseteq Nat, 0 \in T, \A n \in T : n + 1 \in T
  PROVE  T = Nat
<1>1. SUFFICES ASSUME Nat \ T # {} PROVE FALSE
  OBVIOUS
<1>2. PICK x \in Nat \ T : \A y \in Nat \ T : ~(<<y, x>> \in OpToRel(<, Nat))
  BY <1>1, NatLessThanWellFounded, WFMin, Zenon
<1>3. \A y \in Nat \ T : ~(y < x)
  BY <1>2, Zenon DEF OpToRel
<1>4. x # 0 /\ x - 1 \in Nat /\ x - 1 < x /\ (x - 1) + 1 = x
  OBVIOUS
<1>5. QED
  BY <1>3, <1>4

\* What one look is allotted when the declared numbers are the true ones.
HonestShare(look) == Units \div (Cardinality(Candidates) * Cardinality(Gates) * look * look)

\* Every part that such a caller may ever receive in its first n looks.
FirstLooks(n) ==
  {u \in Keys \X (1 .. Units) : u[1][3] <= n /\ u[2] <= HonestShare(u[1][3])}

LEMMA FirstLooksFinite ==
  \A n \in Nat : IsFiniteSet(FirstLooks(n)) /\ Cardinality(FirstLooks(n)) \in Nat
<1>1. IsFiniteSet(Keys \X (1 .. Units))
  <2>1. IsFiniteSet(1 .. Units)
    BY FS_Interval, UnitsAssumption
  <2>2. QED
    BY <2>1, KeysFinite, FS_Product
<1>2. \A n \in Nat : IsFiniteSet(FirstLooks(n))
  BY <1>1, FS_Subset DEF FirstLooks
<1>3. QED
  BY <1>2, FS_CardinalityType

LEMMA Quotient == \A u \in Nat, d \in Nat \ {0} : u \div d \in Nat /\ d * (u \div d) <= u
OBVIOUS

LEMMA HowMany ==
  /\ Cardinality(Candidates) \in Nat \ {0}
  /\ Cardinality(Gates) \in Nat \ {0}
BY CountsAssumption, FS_CardinalityType, FS_EmptySet

LEMMA ProductPositive == \A m, n \in Nat \ {0} : m * n \in Nat \ {0}
OBVIOUS

\* The look after the first n adds at most Units / (n + 1)^2 parts, shared by
\* all candidates and gates.
LEMMA NextLook ==
  ASSUME NEW n \in Nat
  PROVE  \E x \in Nat : /\ Cardinality(FirstLooks(n + 1)) <= Cardinality(FirstLooks(n)) + x
                        /\ ((n + 1) * (n + 1)) * x <= Units
<1>. DEFINE look == n + 1
            c == Cardinality(Candidates)
            g == Cardinality(Gates)
            share == HonestShare(look)
            slice == {u \in FirstLooks(look) : u[1][3] = look}
            source == (Candidates \X Gates) \X (1 .. share)
            f == [s \in source |-> <<<<s[1][1], s[1][2], look>>, s[2]>>]
<1>1. c \in Nat \ {0} /\ g \in Nat \ {0} /\ look \in Nat \ {0}
  BY HowMany
<1>2. c * g * look * look \in Nat \ {0} /\ c * g * look * look = (look * look) * (c * g)
  BY <1>1, ProductPositive
<1>3. share \in Nat /\ (c * g * look * look) * share <= Units
  <2>. HIDE DEF look
  <2>1. share = Units \div (c * g * look * look)
    BY DEF HonestShare
  <2>2. QED
    BY <1>2, <2>1, Quotient, UnitsAssumption
<1>4. IsFiniteSet(source) /\ Cardinality(source) = c * g * share
  <2>1. IsFiniteSet(Candidates \X Gates) /\ Cardinality(Candidates \X Gates) = c * g
    BY FS_Product, CountsAssumption
  <2>2. IsFiniteSet(1 .. share) /\ Cardinality(1 .. share) = share
    BY <1>3, FS_Interval
  <2>3. /\ IsFiniteSet(source)
        /\ Cardinality(source) = Cardinality(Candidates \X Gates) * Cardinality(1 .. share)
    <3>. HIDE DEF share
    <3>1. QED
      BY <2>1, <2>2, FS_Product
  <2>. HIDE DEF c, g, share, source
  <2>4. QED
    BY <2>1, <2>2, <2>3
<1>5. IsFiniteSet(slice) /\ Cardinality(slice) <= c * g * share
  <2>1. CASE look <= MaxLook
    <3>1. share <= Units
      BY <1>2, <1>3, UnitsAssumption
    <3>2. f \in [source -> slice]
      BY <1>1, <1>3, <2>1, <3>1, UnitsAssumption, CountsAssumption DEF FirstLooks, Keys
    <3>3. \A u \in slice : \E s \in source : f[s] = u
      <4>1. SUFFICES ASSUME NEW u \in slice PROVE \E s \in source : f[s] = u
        OBVIOUS
      <4>2. /\ u = <<<<u[1][1], u[1][2], look>>, u[2]>> /\ u[1][1] \in Candidates
            /\ u[1][2] \in Gates /\ u[2] \in 1 .. share
        BY <1>3, UnitsAssumption DEF FirstLooks, Keys
      <4>3. <<<<u[1][1], u[1][2]>>, u[2]>> \in source
        BY <4>2
      <4>4. f[<<<<u[1][1], u[1][2]>>, u[2]>>] = u
        BY <4>2, <4>3
      <4>5. QED
        BY <4>3, <4>4
    <3>4. f \in Surjection(source, slice)
      BY <3>2, <3>3 DEF Surjection
    <3>5. QED
      BY <1>4, <3>4, FS_Surjection
  <2>2. CASE ~(look <= MaxLook)
    <3>1. slice = {}
      BY <2>2, CountsAssumption DEF FirstLooks, Keys
    <3>2. c * g * share \in Nat
      BY <1>1, <1>3, ProductPositive
    <3>3. QED
      BY <3>1, <3>2, FS_EmptySet
  <2>3. QED
    BY <2>1, <2>2
<1>6. FirstLooks(look) = FirstLooks(n) \cup slice
  BY CountsAssumption DEF FirstLooks, Keys
<1>7. Cardinality(FirstLooks(look)) <= Cardinality(FirstLooks(n)) + Cardinality(slice)
  <2>1. Cardinality(FirstLooks(n)) \in Nat /\ IsFiniteSet(FirstLooks(n))
    BY FirstLooksFinite
  <2>2. Cardinality(slice) \in Nat /\ Cardinality(FirstLooks(n) \cap slice) \in Nat
    BY <1>5, <2>1, FS_CardinalityType, FS_Intersection
  <2>. HIDE DEF look, slice
  <2>3. Cardinality(FirstLooks(n) \cup slice) =
          Cardinality(FirstLooks(n)) + Cardinality(slice) - Cardinality(FirstLooks(n) \cap slice)
    BY <1>5, <2>1, FS_Union
  <2>4. QED
    BY <1>6, <2>1, <2>2, <2>3
<1>8. (look * look) * (c * g * share) <= Units
  <2>. HIDE DEF look, share, c, g
  <2>1. (c * g * look * look) * share = (look * look) * (c * g * share)
    BY <1>1, <1>3
  <2>2. QED
    BY <1>3, <2>1
<1>9. c * g * share \in Nat
  BY <1>1, <1>3, ProductPositive
<1>10. Cardinality(FirstLooks(look)) <= Cardinality(FirstLooks(n)) + c * g * share
  BY <1>5, <1>7, <1>9, FirstLooksFinite, FS_CardinalityType
<1>11. QED
  BY <1>8, <1>9, <1>10

\* The sum over the first ten looks, in 2520^2 parts of Units: 2520 is the
\* least common multiple of 1 .. 10.
LEMMA TenLooks ==
  6350400 * Cardinality(FirstLooks(10)) <= 9841645 * Units
<1>. DEFINE s(n) == Cardinality(FirstLooks(n))
<1>1. s(0) = 0
  <2>1. FirstLooks(0) = {}
    BY DEF FirstLooks, Keys
  <2>2. QED
    BY <2>1, FS_EmptySet
<1>2. \A n \in 0 .. 10 : s(n) \in Nat
  BY FirstLooksFinite
<1>3. \A n \in 0 .. 9 : \E x \in Nat : s(n + 1) <= s(n) + x /\ ((n + 1) * (n + 1)) * x <= Units
  <2>1. SUFFICES ASSUME NEW n \in 0 .. 9
                 PROVE  \E x \in Nat : s(n + 1) <= s(n) + x /\ ((n + 1) * (n + 1)) * x <= Units
    OBVIOUS
  <2>2. n \in Nat
    OBVIOUS
  <2>3. QED
    BY <2>2, NextLook
<1>. HIDE DEF s
<1>4. PICK x1 \in Nat : s(1) <= s(0) + x1 /\ x1 <= Units
  BY <1>3
<1>5. PICK x2 \in Nat : s(2) <= s(1) + x2 /\ 4 * x2 <= Units
  BY <1>3
<1>6. PICK x3 \in Nat : s(3) <= s(2) + x3 /\ 9 * x3 <= Units
  BY <1>3
<1>7. PICK x4 \in Nat : s(4) <= s(3) + x4 /\ 16 * x4 <= Units
  BY <1>3
<1>8. PICK x5 \in Nat : s(5) <= s(4) + x5 /\ 25 * x5 <= Units
  BY <1>3
<1>9. PICK x6 \in Nat : s(6) <= s(5) + x6 /\ 36 * x6 <= Units
  BY <1>3
<1>10. PICK x7 \in Nat : s(7) <= s(6) + x7 /\ 49 * x7 <= Units
  BY <1>3
<1>11. PICK x8 \in Nat : s(8) <= s(7) + x8 /\ 64 * x8 <= Units
  BY <1>3
<1>12. PICK x9 \in Nat : s(9) <= s(8) + x9 /\ 81 * x9 <= Units
  BY <1>3
<1>13. PICK x10 \in Nat : s(10) <= s(9) + x10 /\ 100 * x10 <= Units
  BY <1>3
<1>14. s(10) <= x1 + x2 + x3 + x4 + x5 + x6 + x7 + x8 + x9 + x10
  BY <1>1, <1>2, <1>4, <1>5, <1>6, <1>7, <1>8, <1>9, <1>10, <1>11, <1>12, <1>13
<1>15. 6350400 * s(10) <= 9841645 * Units
  BY <1>2, <1>4, <1>5, <1>6, <1>7, <1>8, <1>9, <1>10, <1>11, <1>12, <1>13, <1>14,
     UnitsAssumption
<1>16. QED
  BY <1>15 DEF s

\* One more term of the sum of 1 / k^2 costs less than the gap between
\* 2 / (2n + 1) and 2 / (2n + 3): N / D minus the first stays above the sum.
LEMMA Telescope ==
  ASSUME NEW units \in Nat, NEW s \in Nat, NEW t \in Nat, NEW x \in Nat, NEW n \in Nat,
         NEW N \in Nat, NEW D \in Nat,
         t <= s + x, ((n + 1) * (n + 1)) * x <= units,
         s * ((2 * n + 1) * D) <= units * (N * (2 * n + 1) - 2 * D)
  PROVE  t * ((2 * n + 3) * D) <= units * (N * (2 * n + 3) - 2 * D)
<1>. DEFINE y == (n + 1) * (n + 1)
            p == 2 * n + 1
            q == 2 * n + 3
            left == t * (q * D)
            right == units * (N * q - 2 * D)
<1>1. y \in Nat /\ y > 0 /\ p \in Nat /\ p > 0 /\ q \in Nat /\ q = p + 2 /\ p * q = 4 * y - 1
  OBVIOUS
<1>2. y * x <= units /\ s * (p * D) <= units * (N * p - 2 * D)
  OBVIOUS
<1>. HIDE DEF y, p, q
<1>3. left \in Int /\ right \in Int /\ p * y \in Nat /\ p * y > 0
  BY <1>1
<1>4. left <= (s + x) * (q * D)
  <2>1. q * D \in Nat
    BY <1>1
  <2>2. \A i, j, k \in Nat : i <= j => i * k <= j * k
    OBVIOUS
  <2>3. QED
    BY <2>1, <2>2
<1>5. (p * y) * left <= (p * y) * ((s + x) * (q * D))
  <2>1. \A i \in Nat : \A j, k \in Int : j <= k => i * j <= i * k
    OBVIOUS
  <2>2. (s + x) * (q * D) \in Int
    BY <1>1
  <2>3. QED
    BY <1>3, <1>4, <2>1, <2>2
<1>6. (p * y) * ((s + x) * (q * D)) = (q * y) * (s * (p * D)) + (p * q * D) * (y * x)
  BY <1>1
<1>7. (q * y) * (s * (p * D)) <= (q * y) * (units * (N * p - 2 * D))
  <2>1. \A i \in Nat : \A j, k \in Int : j <= k => i * j <= i * k
    OBVIOUS
  <2>2. q * y \in Nat /\ s * (p * D) \in Int /\ units * (N * p - 2 * D) \in Int
    BY <1>1
  <2>3. QED
    BY <1>2, <2>1, <2>2
<1>8. (p * q * D) * (y * x) <= (p * q * D) * units
  <2>1. \A i \in Nat : \A j, k \in Int : j <= k => i * j <= i * k
    OBVIOUS
  <2>2. p * q * D \in Nat /\ y * x \in Int
    BY <1>1
  <2>3. QED
    BY <1>2, <2>1, <2>2
<1>9. (q * y) * (units * (N * p - 2 * D)) + (p * q * D) * units = (p * y) * right - units * D
  <2>1. (q * y) * (units * (N * p - 2 * D)) = units * (N * (p * q * y)) - units * (2 * D * q * y)
    BY <1>1
  <2>2. (p * y) * right = units * (N * (p * q * y)) - units * (2 * D * p * y)
    BY <1>1
  <2>3. 2 * D * q * y = 2 * D * p * y + 4 * (D * y)
    BY <1>1
  <2>4. (p * q * D) * units = units * (4 * (D * y)) - units * D
    <3>1. p * q * D = 4 * (D * y) - D
      BY <1>1
    <3>2. D * y \in Int
      BY <1>1
    <3>3. QED
      BY <3>1, <3>2
  <2>5. units * (2 * D * q * y) = units * (2 * D * p * y) + units * (4 * (D * y))
    BY <1>1, <2>3
  <2>6. /\ units * (N * (p * q * y)) \in Int /\ units * (2 * D * q * y) \in Int
        /\ units * (2 * D * p * y) \in Int /\ units * (4 * (D * y)) \in Int
        /\ units * D \in Int /\ (p * q * D) * units \in Int
    BY <1>1
  <2>7. QED
    BY <2>1, <2>2, <2>4, <2>5, <2>6
<1>10. (p * y) * left <= (p * y) * right
  <2>1. units * D \in Nat
    OBVIOUS
  <2>2. /\ (p * y) * left \in Int /\ (p * y) * right \in Int
        /\ (q * y) * (s * (p * D)) \in Int /\ (p * q * D) * (y * x) \in Int
        /\ (q * y) * (units * (N * p - 2 * D)) \in Int /\ (p * q * D) * units \in Int
    BY <1>1, <1>3
  <2>. HIDE DEF left, right
  <2>3. QED
    BY <1>5, <1>6, <1>7, <1>8, <1>9, <2>1, <2>2
<1>11. left <= right
  <2>1. \A i \in Nat : \A j, k \in Int : i > 0 /\ i * j <= i * k => j <= k
    OBVIOUS
  <2>. HIDE DEF left, right
  <2>2. QED
    BY <1>3, <1>10, <2>1
<1>12. QED
  BY <1>11 DEF q

\* The sum over any number of looks, by induction from the tenth.
LEMMA ManyLooks ==
  \A n \in Nat : n >= 10 =>
    Cardinality(FirstLooks(n)) * ((2 * n + 1) * 10000000)
      <= Units * (16450059 * (2 * n + 1) - 2 * 10000000)
<1>. DEFINE s(n) == Cardinality(FirstLooks(n))
            Q(n) == s(n) * ((2 * n + 1) * 10000000)
                      <= Units * (16450059 * (2 * n + 1) - 2 * 10000000)
            T == {n \in Nat : Q(n + 10)}
<1>1. \A n \in Nat : s(n) \in Nat
  BY FirstLooksFinite
<1>2. Q(10)
  <2>1. 6350400 * s(10) <= 9841645 * Units /\ s(10) \in Nat
    BY <1>1, TenLooks
  <2>. HIDE DEF s
  <2>2. QED
    BY <2>1, UnitsAssumption
<1>3. ASSUME NEW n \in Nat, Q(n) PROVE Q(n + 1)
  <2>1. PICK x \in Nat : s(n + 1) <= s(n) + x /\ ((n + 1) * (n + 1)) * x <= Units
    BY NextLook
  <2>2. s(n) \in Nat /\ s(n + 1) \in Nat
    BY <1>1
  <2>3. s(n) * ((2 * n + 1) * 10000000) <= Units * (16450059 * (2 * n + 1) - 2 * 10000000)
    BY <1>3
  <2>. HIDE DEF s
  <2>4. s(n + 1) * ((2 * n + 3) * 10000000) <= Units * (16450059 * (2 * n + 3) - 2 * 10000000)
    BY <2>1, <2>2, <2>3, UnitsAssumption, Telescope
  <2>5. 2 * (n + 1) + 1 = 2 * n + 3
    OBVIOUS
  <2>6. QED
    BY <2>4, <2>5
<1>. HIDE DEF Q
<1>4. T = Nat
  <2>1. 0 \in T
    BY <1>2
  <2>2. \A n \in T : n + 1 \in T
    <3>1. SUFFICES ASSUME NEW n \in T PROVE n + 1 \in T
      OBVIOUS
    <3>2. Q((n + 10) + 1)
      BY <1>3, n + 10 \in Nat
    <3>3. (n + 10) + 1 = (n + 1) + 10
      OBVIOUS
    <3>4. QED
      BY <3>2, <3>3
  <2>. HIDE DEF T
  <2>3. QED
    BY <2>1, <2>2, InductionOnSets, T \subseteq Nat DEF T
<1>5. \A n \in Nat : n >= 10 => Q(n)
  <2>1. SUFFICES ASSUME NEW n \in Nat, n >= 10 PROVE Q(n)
    OBVIOUS
  <2>2. n - 10 \in Nat /\ (n - 10) + 10 = n
    BY <2>1
  <2>3. Q((n - 10) + 10)
    BY <1>4, <2>2
  <2>4. QED
    BY <2>2, <2>3
<1>6. QED
  BY <1>5 DEF Q

\* For every number of looks up to ten thousand the budget covers them all.
LEMMA BudgetCoversLooks ==
  ASSUME MaxLook <= 10000
  PROVE  \E n \in Nat : n >= MaxLook /\ Cardinality(FirstLooks(n)) <= Budget
<1>. DEFINE n == IF MaxLook < 10 THEN 10 ELSE MaxLook
            s == Cardinality(FirstLooks(n))
            p == 2 * n + 1
<1>1. n \in Nat /\ n >= 10 /\ n >= MaxLook /\ n <= 10000
  BY CountsAssumption
<1>2. s \in Nat
  BY <1>1, FirstLooksFinite
<1>3. p \in Nat /\ p <= 20001 /\ p >= 21
  BY <1>1
<1>4. s * (p * 10000000) <= Units * (16450059 * p - 2 * 10000000)
  BY <1>1, ManyLooks
<1>. HIDE DEF n, s, p
<1>5. 1000000 * s <= 1644934 * Units
  <2>1. SUFFICES ASSUME 1000000 * s >= 1644934 * Units + 1 PROVE FALSE
    BY <1>2, UnitsAssumption
  <2>2. p * (1000000 * s) >= p * (1644934 * Units + 1)
    <3>1. \A i \in Nat : \A j, k \in Int : j >= k => i * j >= i * k
      OBVIOUS
    <3>2. QED
      BY <1>2, <1>3, <2>1, <3>1, UnitsAssumption
  <2>3. s * p \in Nat /\ Units * p \in Nat /\ Units * p <= 20001 * Units
    <3>1. \A i \in Nat : \A j, k \in Int : j <= k => j * i <= k * i
      OBVIOUS
    <3>2. QED
      BY <1>2, <1>3, <3>1, UnitsAssumption
  <2>4. s * (p * 10000000) = 10000000 * (s * p) /\ p * (1000000 * s) = 1000000 * (s * p)
    BY <1>2, <1>3
  <2>5. /\ Units * (16450059 * p - 2 * 10000000) = 16450059 * (Units * p) - 20000000 * Units
        /\ p * (1644934 * Units + 1) = 1644934 * (Units * p) + p
    BY <1>3, UnitsAssumption
  <2>6. QED
    BY <1>3, <1>4, <2>2, <2>3, <2>4, <2>5, UnitsAssumption
<1>6. s <= Budget
  BY <1>2, <1>5, BudgetAssumption, UnitsAssumption
<1>7. QED
  BY <1>1, <1>6 DEF s

\* Every allocation of a caller that declared the true numbers is its share.
HonestInv ==
  screen = "class" /\ declared = <<Cardinality(Candidates), Cardinality(Gates)>> =>
    /\ DOMAIN allocations \subseteq Keys
    /\ \A k \in DOMAIN allocations : allocations[k] = HonestShare(k[3])
    /\ ~refused

LEMMA HonestInitially == ScreeningInit => HonestInv
BY DEF ScreeningInit, NoScreen, HonestInv

\* A ledger of shares is part of what the looks may receive altogether.
LEMMA SharesAreCovered ==
  ASSUME NEW ledger, MaxLook <= 10000, DOMAIN ledger \subseteq Keys,
         \A k \in DOMAIN ledger : ledger[k] = HonestShare(k[3])
  PROVE  Total(ledger) <= Budget
<1>1. PICK n \in Nat : n >= MaxLook /\ Cardinality(FirstLooks(n)) <= Budget
  BY BudgetCoversLooks
<1>2. PartsOf(ledger) \subseteq FirstLooks(n)
  BY <1>1, CountsAssumption DEF PartsOf, FirstLooks, Keys
<1>3. Total(ledger) <= Cardinality(FirstLooks(n)) /\ Total(ledger) \in Nat
  <2>1. IsFiniteSet(FirstLooks(n)) /\ Total(ledger) = Cardinality(PartsOf(ledger))
    BY FirstLooksFinite DEF Total, PartsOf
  <2>2. QED
    BY <1>2, <2>1, FS_Subset, PartsFinite
<1>4. QED
  BY <1>1, <1>3, FirstLooksFinite, UnitsAssumption

LEMMA HonestStep ==
  ASSUME MaxLook <= 10000
  PROVE  HonestInv /\ [ScreeningNext]_screeningVars => HonestInv'
<1>1. SUFFICES ASSUME HonestInv, [ScreeningNext]_screeningVars,
                      screen' = "class",
                      declared' = <<Cardinality(Candidates), Cardinality(Gates)>>
               PROVE  HonestInv'
  <2>1. HonestInv' \/ (screen' = "class" /\
                      declared' = <<Cardinality(Candidates), Cardinality(Gates)>>)
    BY DEF HonestInv
  <2>2. QED
    BY <2>1
<1>2. /\ screen = "class" /\ declared = <<Cardinality(Candidates), Cardinality(Gates)>>
      /\ DOMAIN allocations \subseteq Keys
      /\ \A k \in DOMAIN allocations : allocations[k] = HonestShare(k[3])
      /\ ~refused
  BY <1>1 DEF HonestInv, ScreeningNext, screeningVars, Allocate, Bound, Fail, Decide,
              Propagate, Assess
<1>3. CASE Allocate
  <2>1. PICK k \in Keys \ DOMAIN allocations :
          /\ allocations' = [j \in DOMAIN allocations \cup {k} |->
                               IF j = k THEN Alpha(k[3]) ELSE allocations[j]]
          /\ refused' = (refused \/ Total(allocations') > Budget)
    BY <1>3 DEF Allocate
  <2>2. Alpha(k[3]) = HonestShare(k[3])
    BY <1>2 DEF Alpha, HonestShare
  <2>3. /\ DOMAIN allocations' \subseteq Keys
        /\ \A j \in DOMAIN allocations' : allocations'[j] = HonestShare(j[3])
    BY <1>2, <2>1, <2>2
  <2>4. Total(allocations') <= Budget /\ Total(allocations') \in Nat
    BY <2>3, SharesAreCovered, PartsFinite
  <2>5. ~refused'
    <3>1. ~(Total(allocations') > Budget)
      BY <2>4, UnitsAssumption
    <3>2. ~refused /\ refused' = (refused \/ Total(allocations') > Budget)
      BY <1>2, <2>1
    <3>3. QED
      BY ONLY <3>1, <3>2
  <2>6. QED
    BY <2>3, <2>5 DEF HonestInv
<1>4. CASE UNCHANGED <<allocations, refused>>
  BY <1>2, <1>4 DEF HonestInv
<1>5. QED
  BY <1>1, <1>3, <1>4 DEF ScreeningNext, screeningVars, Bound, Fail, Decide, Propagate, Assess

\* A caller that declares all its candidates and gates is never refused, in
\* whatever order it looks, for every number of candidates and gates and up to
\* ten thousand looks at each gate.
THEOREM HonestCallersHaveTheirShare ==
  ASSUME MaxLook <= 10000
  PROVE  ScreeningSpec => []HonestCallersAreNeverRefused
<1>1. HonestInv => HonestCallersAreNeverRefused
  BY DEF HonestInv, HonestCallersAreNeverRefused
<1>2. HonestInv /\ [ScreeningNext]_screeningVars => HonestInv'
  BY HonestStep
<1>3. QED
  BY <1>1, <1>2, HonestInitially, PTL DEF ScreeningSpec

-----------------------------------------------------------------------------
(* The propagated bound.                                                   *)

Scalars == [reference : Int, candidate : Int, multipliers : Int \X Int,
            bound : Int, steps : Nat]

LEMMA MagnitudeType == \A n \in Int : Magnitude(n) \in Nat
BY DEF Magnitude

LEMMA MagnitudeOfSum ==
  \A m, n \in Int : Magnitude(m + n) <= Magnitude(m) + Magnitude(n)
BY DEF Magnitude

LEMMA MagnitudeOfProduct ==
  \A m, n \in Int : Magnitude(m * n) = Magnitude(m) * Magnitude(n)
<1>1. SUFFICES ASSUME NEW m \in Int, NEW n \in Int
               PROVE  Magnitude(m * n) = Magnitude(m) * Magnitude(n)
  OBVIOUS
<1>2. CASE m >= 0 /\ n >= 0
  <2>1. m * n >= 0
    BY <1>2
  <2>2. QED
    BY <1>2, <2>1 DEF Magnitude
<1>3. CASE m < 0 /\ n < 0
  <2>1. m * n = (-m) * (-n) /\ m * n > 0
    BY <1>3
  <2>2. QED
    BY <1>3, <2>1 DEF Magnitude
<1>4. CASE m < 0 /\ n >= 0
  <2>1. (-m) * n = -(m * n) /\ m * n <= 0
    BY <1>4
  <2>2. QED
    BY <1>4, <2>1 DEF Magnitude
<1>5. CASE m >= 0 /\ n < 0
  <2>1. m * (-n) = -(m * n) /\ m * n <= 0
    BY <1>5
  <2>2. QED
    BY <1>5, <2>1 DEF Magnitude
<1>6. QED
  BY <1>2, <1>3, <1>4, <1>5

\* One factor and one local error: if a bound covered the distance before the
\* step, the propagated bound covers it after the step.
LEMMA PropagatedBound ==
  ASSUME NEW a \in Int, NEW b \in Int, NEW x \in Int, NEW y \in Int, NEW bound \in Int,
         Magnitude(x - y) <= bound
  PROVE  Magnitude(a * x - b * y) <= Magnitude(a) * bound + Magnitude(a * y - b * y)
<1>1. a * x \in Int /\ a * y \in Int /\ b * y \in Int /\ a * (x - y) \in Int
  OBVIOUS
<1>2. a * x - b * y = a * (x - y) + (a * y - b * y)
  <2>1. a * (x - y) = a * x - a * y
    OBVIOUS
  <2>2. QED
    BY <1>1, <2>1
<1>3. Magnitude(a * x - b * y) <= Magnitude(a * (x - y)) + Magnitude(a * y - b * y)
  BY <1>1, <1>2, MagnitudeOfSum
<1>4. Magnitude(a * (x - y)) = Magnitude(a) * Magnitude(x - y)
  BY MagnitudeOfProduct
<1>5. Magnitude(a) * Magnitude(x - y) <= Magnitude(a) * bound
  <2>1. \A m \in Nat : \A p, q \in Int : p <= q => m * p <= m * q
    OBVIOUS
  <2>2. Magnitude(a) \in Nat /\ Magnitude(x - y) \in Int
    BY MagnitudeType
  <2>3. QED
    BY <2>1, <2>2
<1>6. /\ Magnitude(a * x - b * y) \in Int /\ Magnitude(a) * Magnitude(x - y) \in Int
      /\ Magnitude(a) * bound \in Int /\ Magnitude(a * y - b * y) \in Int
  BY <1>1, MagnitudeType
<1>7. QED
  BY <1>3, <1>4, <1>5, <1>6

\* The trajectories and their bound are integers and the bound covers the
\* distance; this is inductive for any multipliers and any number of steps.
ScalarInv == scalar \in Scalars /\ BoundCoversDistance

LEMMA ScalarInitially == ScreeningInit => ScalarInv
<1>1. SUFFICES ASSUME ScreeningInit PROVE ScalarInv
  OBVIOUS
<1>2. CASE scalar = NoScalar
  BY <1>2 DEF NoScalar, ScalarInv, Scalars, BoundCoversDistance, Magnitude
<1>3. CASE \E a, b, x, y \in Multipliers :
             scalar = [reference |-> x, candidate |-> y, multipliers |-> <<a, b>>,
                       bound |-> Magnitude(x - y), steps |-> 0]
  <2>1. PICK a, b, x, y \in Multipliers :
             scalar = [reference |-> x, candidate |-> y, multipliers |-> <<a, b>>,
                       bound |-> Magnitude(x - y), steps |-> 0]
    BY <1>3
  <2>2. a \in Int /\ b \in Int /\ x \in Int /\ y \in Int
    BY ValuesAssumption
  <2>3. Magnitude(x - y) \in Int
    BY <2>2, MagnitudeType
  <2>4. QED
    BY <2>1, <2>2, <2>3 DEF ScalarInv, Scalars, BoundCoversDistance
<1>4. QED
  BY <1>1, <1>2, <1>3 DEF ScreeningInit

LEMMA ScalarStep == ScalarInv /\ [ScreeningNext]_screeningVars => ScalarInv'
<1>1. SUFFICES ASSUME ScalarInv, [ScreeningNext]_screeningVars PROVE ScalarInv'
  OBVIOUS
<1>2. CASE Propagate
  <2>. DEFINE a == scalar.multipliers[1]
              b == scalar.multipliers[2]
              x == scalar.reference
              y == scalar.candidate
              bound == Magnitude(a) * scalar.bound + Magnitude(a * y - b * y)
  <2>1. /\ a \in Int /\ b \in Int /\ x \in Int /\ y \in Int
        /\ scalar.bound \in Int /\ scalar.multipliers \in Int \X Int /\ scalar.steps \in Nat
    BY <1>1 DEF ScalarInv, Scalars
  <2>2. scalar' = [reference |-> a * x, candidate |-> b * y,
                   multipliers |-> scalar.multipliers, bound |-> bound,
                   steps |-> scalar.steps + 1]
    BY <1>1, <1>2 DEF Propagate, ScalarInv, Scalars
  <2>3. Magnitude(x - y) <= scalar.bound
    BY <1>1 DEF ScalarInv, BoundCoversDistance
  <2>4. Magnitude(a * x - b * y) <= bound
    BY <2>1, <2>3, PropagatedBound
  <2>5. bound \in Int /\ a * x \in Int /\ b * y \in Int
    BY <2>1, MagnitudeType
  <2>. HIDE DEF a, b, x, y, bound
  <2>6. scalar' \in Scalars
    BY <2>1, <2>2, <2>5 DEF Scalars
  <2>7. QED
    BY <2>2, <2>4, <2>6 DEF ScalarInv, BoundCoversDistance
<1>3. CASE scalar' = scalar
  BY <1>1, <1>3 DEF ScalarInv, BoundCoversDistance
<1>4. QED
  BY <1>1, <1>2, <1>3 DEF ScreeningNext, screeningVars, Allocate, Bound, Fail, Decide, Assess

\* The propagated bound covers the distance of the two trajectories after
\* every number of steps, whatever the signs and sizes of the factors.
THEOREM TheBoundCoversTheDistance == ScreeningSpec => []BoundCoversDistance
<1>1. ScalarInv => BoundCoversDistance
  BY DEF ScalarInv
<1>2. QED
  BY <1>1, ScalarInitially, ScalarStep, PTL DEF ScreeningSpec

-----------------------------------------------------------------------------
(* The fidelity assessment.                                                *)

\* The assessment rests on three comparisons; together they leave no value
\* within the tolerance on the other side of the threshold.
LEMMA StableAssessment ==
  ASSUME NEW fast \in Nat, NEW refined \in Nat, NEW threshold \in Nat, NEW tolerance \in Nat,
         AssessRefinement(fast, refined, threshold, tolerance) = "FAST_TIER_STABLE"
  PROVE  \A v \in refined - tolerance .. refined + tolerance :
           Above(v, threshold) = Above(fast, threshold)
<1>1. /\ ~(refined - tolerance <= threshold /\ threshold <= refined + tolerance)
      /\ Above(fast, threshold) = Above(refined, threshold)
  BY DEF AssessRefinement
<1>2. SUFFICES ASSUME NEW v \in refined - tolerance .. refined + tolerance
               PROVE  Above(v, threshold) = Above(refined, threshold)
  BY <1>1
<1>3. QED
  BY <1>1, <1>2 DEF Above

\* A fidelity screen keeps what it declared, and its action is the assessment.
FidelityInv ==
  screen = "fidelity" =>
    /\ declared \in Values \X Values \X Values \X Values
    /\ decision \in {"none", AssessRefinement(declared[1], declared[2],
                                              declared[3], declared[4])}

LEMMA FidelityInitially == ScreeningInit => FidelityInv
BY DEF ScreeningInit, NoScreen, FidelityInv

LEMMA FidelityStep == FidelityInv /\ [ScreeningNext]_screeningVars => FidelityInv'
BY DEF FidelityInv, ScreeningNext, screeningVars, Allocate, Bound, Fail, Decide, Propagate, Assess

LEMMA AssessedMeansRobust == FidelityInv => StableMeansRobust
<1>1. SUFFICES ASSUME FidelityInv, screen = "fidelity", decision = "FAST_TIER_STABLE"
               PROVE  \A v \in declared[2] - declared[4] .. declared[2] + declared[4] :
                        Above(v, declared[3]) = Above(declared[1], declared[3])
  BY DEF StableMeansRobust
<1>2. /\ declared[1] \in Nat /\ declared[2] \in Nat
      /\ declared[3] \in Nat /\ declared[4] \in Nat
  BY <1>1, ValuesAssumption DEF FidelityInv
<1>3. AssessRefinement(declared[1], declared[2], declared[3], declared[4])
        = "FAST_TIER_STABLE"
  BY <1>1 DEF FidelityInv
<1>4. QED
  BY <1>2, <1>3, StableAssessment

\* The fast tier is called stable only where the decision is the same for
\* every value within the tolerance of the refined one.
THEOREM StableTiersAreRobust == ScreeningSpec => []StableMeansRobust
<1>1. QED
  BY FidelityInitially, FidelityStep, AssessedMeansRobust, PTL DEF ScreeningSpec

=============================================================================
