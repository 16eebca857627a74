--------------------------- MODULE AutomatonProofs ---------------------------
(***************************************************************************)
(* The two simulators of Automaton agree on every row of every width: they *)
(* look up the same neighbours and the same bit of the rule number.  The   *)
(* inference of A1 keeps, of all 256 rules, one for each choice of outputs *)
(* of the neighbourhoods it was not shown.                                 *)
(***************************************************************************)
EXTENDS Automaton, FiniteSetTheorems, TLAPS

-----------------------------------------------------------------------------
(* One cell.                                                               *)

\* The digit that a neighbourhood selects is the bit of its number.
LEMMA OutputsAgree ==
  ASSUME NEW k \in Rules, NEW l \in Bit, NEW c \in Bit, NEW r \in Bit
  PROVE  /\ ReferenceOutput(k, l, c, r) = RuleOutput(k, l, c, r)
         /\ RuleOutput(k, l, c, r) \in Bit
<1> DEFINE p == (CHOOSE q \in 1 .. 8 : WolframOrder[q] = <<l, c, r>>)
<1>1. p = 8 - (4 * l + 2 * c + r)
  BY DEF Bit, WolframOrder
<1>2. OutputBits(k)[8 - (4 * l + 2 * c + r)] = RuleBit(k, 4 * l + 2 * c + r)
  <2>1. /\ PowerOfTwo[0] = 1 /\ PowerOfTwo[1] = 2
        /\ PowerOfTwo[2] = 4 /\ PowerOfTwo[3] = 8
        /\ PowerOfTwo[4] = 16 /\ PowerOfTwo[5] = 32
        /\ PowerOfTwo[6] = 64 /\ PowerOfTwo[7] = 128
    BY DEF PowerOfTwo
  <2>2. k \div 1 = k
    BY DEF Rules
  <2>3. \A n \in 0 .. 7 : OutputBits(k)[8 - n] = RuleBit(k, n)
    BY <2>1, <2>2 DEF OutputBits, RuleBit
  <2>4. 4 * l + 2 * c + r \in 0 .. 7
    BY DEF Bit
  <2>5. QED BY <2>3, <2>4
<1>3. RuleBit(k, 4 * l + 2 * c + r) \in Bit
  BY DEF Bit, RuleBit, PowerOfTwo, Rules
<1>4. QED BY <1>1, <1>2, <1>3 DEF ReferenceOutput, RuleOutput

\* Counting round a ring of w cells, the cell before the first is the last.
LEMMA RingNeighbors ==
  ASSUME NEW w \in Nat \ {0}
  PROVE  (-1) % w = w - 1 /\ w % w = 0
OBVIOUS

\* A cell's neighbours are those of the shifted rows.
LEMMA NeighborsAgree ==
  ASSUME NEW w \in Nat \ {0}, NEW row \in Rows(w), NEW edge \in Boundaries,
         NEW i \in 0 .. w - 1
  PROVE  /\ ReferenceNeighbor(row, w, i - 1, edge) = VectorizedLeft(row, w, edge)[i]
         /\ ReferenceNeighbor(row, w, i + 1, edge) = VectorizedRight(row, w, edge)[i]
         /\ ReferenceNeighbor(row, w, i - 1, edge) \in Bit
         /\ ReferenceNeighbor(row, w, i + 1, edge) \in Bit
<1>0. (-1) % w = w - 1 /\ w % w = 0
  BY RingNeighbors
<1>1. /\ ReferenceNeighbor(row, w, i - 1, edge) = VectorizedLeft(row, w, edge)[i]
      /\ ReferenceNeighbor(row, w, i - 1, edge) \in Bit
  <2>1. CASE i > 0
    BY <2>1 DEF ReferenceNeighbor, VectorizedLeft, Rows, Bit
  <2>2. CASE i = 0
    <3>1. /\ i - 1 = -1
          /\ -1 \notin 0 .. w - 1
          /\ 0 \in 0 .. w - 1
          /\ w - 1 \in 0 .. w - 1
      BY <2>2
    <3>2. QED BY <1>0, <2>2, <3>1 DEF ReferenceNeighbor, VectorizedLeft, Rows, Bit, Boundaries
  <2>3. QED BY <2>1, <2>2
<1>2. /\ ReferenceNeighbor(row, w, i + 1, edge) = VectorizedRight(row, w, edge)[i]
      /\ ReferenceNeighbor(row, w, i + 1, edge) \in Bit
  <2>1. CASE i < w - 1
    BY <2>1 DEF ReferenceNeighbor, VectorizedRight, Rows, Bit
  <2>2. CASE i = w - 1
    <3>1. /\ i + 1 = w
          /\ w \notin 0 .. w - 1
          /\ ~(w < 0)
          /\ 0 \in 0 .. w - 1
          /\ w - 1 \in 0 .. w - 1
      BY <2>2
    <3>2. /\ row[0] \in Bit /\ row[w - 1] \in Bit
      BY <3>1 DEF Rows
    <3>3. VectorizedRight(row, w, edge)[i]
            = CASE edge = "periodic" -> row[0]
                [] edge = "fixed_zero" -> 0
                [] edge = "fixed_one" -> 1
                [] edge = "reflect" -> row[w - 1]
      <4>1. i \in 0 .. w - 1 /\ ~(i < w - 1)
        BY <2>2
      <4>2. QED BY <4>1 DEF VectorizedRight
    <3>4. ReferenceNeighbor(row, w, i + 1, edge)
            = CASE edge = "periodic" -> row[0]
                [] edge = "fixed_zero" -> 0
                [] edge = "fixed_one" -> 1
                [] edge = "reflect" -> row[w - 1]
      BY <1>0, <3>1 DEF ReferenceNeighbor, Boundaries
    <3>5. QED BY <3>2, <3>3, <3>4 DEF Bit, Boundaries
  <2>3. QED BY <2>1, <2>2
<1>3. QED BY <1>1, <1>2

-----------------------------------------------------------------------------
(* A row, and a run.                                                       *)

\* One step of both simulators leads from one row to one row.
LEMMA StepsAgree ==
  ASSUME NEW k \in Rules, NEW w \in Nat \ {0}, NEW row \in Rows(w),
         NEW edge \in Boundaries
  PROVE  /\ StepReference(k, row, w, edge) = StepVectorized(k, row, w, edge)
         /\ StepReference(k, row, w, edge) \in Rows(w)
<1>1. ASSUME NEW i \in 0 .. w - 1
      PROVE  LET left == ReferenceNeighbor(row, w, i - 1, edge)
                 right == ReferenceNeighbor(row, w, i + 1, edge)
             IN /\ ReferenceOutput(k, left, row[i], right)
                     = RuleOutput(k, VectorizedLeft(row, w, edge)[i], row[i],
                                  VectorizedRight(row, w, edge)[i])
                /\ ReferenceOutput(k, left, row[i], right) \in Bit
  <2>1. row[i] \in Bit
    BY DEF Rows
  <2>2. QED BY <2>1, NeighborsAgree, OutputsAgree
<1>2. QED BY <1>1 DEF StepReference, StepVectorized, Rows

\* While A0 runs, both simulators hold the same row of the right width.
AgreementInv ==
  task = "A0" =>
    /\ rule \in Rules
    /\ boundary \in Boundaries
    /\ width \in Nat \ {0}
    /\ reference \in Rows(width)
    /\ vectorized = reference

\* The two simulators never part, whatever the widths and the horizon are.
THEOREM TheSimulatorsAgree == AutomatonSpec => []SimulatorsAgree
<1>1. AutomatonInit => AgreementInv
  BY WidthsAssumption DEF AutomatonInit, AgreementInv
<1>2. AgreementInv /\ [AutomatonNext]_automatonVars => AgreementInv'
  <2> SUFFICES ASSUME AgreementInv, [AutomatonNext]_automatonVars PROVE AgreementInv'
    OBVIOUS
  <2>1. CASE Simulate
    BY <2>1, StepsAgree DEF Simulate, AgreementInv
  <2>2. CASE Observe
    BY <2>2 DEF Observe, AgreementInv
  <2>3. CASE UNCHANGED automatonVars
    BY <2>3 DEF automatonVars, AgreementInv
  <2>4. QED BY <2>1, <2>2, <2>3 DEF AutomatonNext
<1>3. AgreementInv => SimulatorsAgree
  BY DEF AgreementInv, SimulatorsAgree
<1>4. QED BY <1>1, <1>2, <1>3, PTL DEF AutomatonSpec

-----------------------------------------------------------------------------
(* The digits of a rule, and one of them flipped.                          *)

\* The rule with one output changed.
Flip(k, c) == IF RuleBit(k, c) = 1 THEN k - PowerOfTwo[c] ELSE k + PowerOfTwo[c]

\* The powers of two, one by one.
LEMMA Powers ==
  /\ PowerOfTwo[0] = 1 /\ PowerOfTwo[1] = 2 /\ PowerOfTwo[2] = 4 /\ PowerOfTwo[3] = 8
  /\ PowerOfTwo[4] = 16 /\ PowerOfTwo[5] = 32 /\ PowerOfTwo[6] = 64 /\ PowerOfTwo[7] = 128
  /\ PowerOfTwo[8] = 256
BY DEF PowerOfTwo

\* A rule number is the sum of its digits.
LEMMA Digits ==
  ASSUME NEW k \in Rules
  PROVE  /\ \A c \in 0 .. 7 : RuleBit(k, c) \in Bit
         /\ k = RuleBit(k, 0) + 2 * RuleBit(k, 1) + 4 * RuleBit(k, 2) + 8 * RuleBit(k, 3)
                + 16 * RuleBit(k, 4) + 32 * RuleBit(k, 5) + 64 * RuleBit(k, 6) + 128 * RuleBit(k, 7)
<1>1. \A c \in 0 .. 7 : RuleBit(k, c) \in Bit
  BY Powers DEF RuleBit, Bit, Rules
<1>2. k = (k % 2) + 2 * ((k \div 2) % 2) + 4 * ((k \div 4) % 2) + 8 * ((k \div 8) % 2)
                + 16 * ((k \div 16) % 2) + 32 * ((k \div 32) % 2)
                + 64 * ((k \div 64) % 2) + 128 * ((k \div 128) % 2)
  BY DEF Rules
<1>3. k \div 1 = k
  BY DEF Rules
<1>4. QED
  BY <1>1, <1>2, <1>3, Powers DEF RuleBit


\* The number with eight given digits.
Number(b) == b[0] + 2 * b[1] + 4 * b[2] + 8 * b[3] + 16 * b[4] + 32 * b[5] + 64 * b[6] + 128 * b[7]

\* A number made of eight digits has these digits.
LEMMA NumberDigits ==
  ASSUME NEW b \in [0 .. 7 -> Bit]
  PROVE  Number(b) \in Rules /\ \A c \in 0 .. 7 : RuleBit(Number(b), c) = b[c]
<1>. DEFINE k == Number(b)
<1>1. \A c \in 0 .. 7 : b[c] = 0 \/ b[c] = 1
  BY DEF Bit
<1>2. k \in Rules
  BY <1>1 DEF Rules, Number
<1>3. k \div 1 = k
  BY <1>2 DEF Rules
<1>4. /\ k % 2 = b[0] /\ (k \div 2) % 2 = b[1]
      /\ (k \div 4) % 2 = b[2] /\ (k \div 8) % 2 = b[3]
  BY <1>1 DEF Number
<1>5. /\ (k \div 16) % 2 = b[4] /\ (k \div 32) % 2 = b[5]
      /\ (k \div 64) % 2 = b[6] /\ (k \div 128) % 2 = b[7]
  BY <1>1 DEF Number
<1>. HIDE DEF k
<1>6. QED
  BY <1>2, <1>3, <1>4, <1>5, Powers DEF RuleBit, k

\* Flipping a digit changes that digit and no other.
LEMMA FlipBits ==
  ASSUME NEW k \in Rules, NEW c \in 0 .. 7
  PROVE  /\ Flip(k, c) \in Rules
         /\ \A d \in 0 .. 7 :
              RuleBit(Flip(k, c), d) = IF d = c THEN 1 - RuleBit(k, c) ELSE RuleBit(k, d)
<1>. DEFINE b == [d \in 0 .. 7 |-> IF d = c THEN 1 - RuleBit(k, c) ELSE RuleBit(k, d)]
<1>1. b \in [0 .. 7 -> Bit]
  BY Digits DEF Bit
<1>2. Flip(k, c) = Number(b)
  BY Digits, Powers DEF Flip, Number, Bit
<1>3. QED
  BY <1>1, <1>2, NumberDigits

\* The rules that agree with r on the neighbourhoods with the given numbers.
Alike(r, S) == {k \in Rules : \A c \in S : RuleBit(k, c) = RuleBit(r, c)}

\* How many numbers there are from 0 to n.
LEMMA Interval == \A n \in Nat : IsFiniteSet(0 .. n) /\ Cardinality(0 .. n) = n + 1
BY FS_Interval

\* There are finitely many of them.
LEMMA AlikeFinite ==
  ASSUME NEW r, NEW S
  PROVE  IsFiniteSet(Alike(r, S)) /\ Cardinality(Alike(r, S)) \in Nat
<1>1. IsFiniteSet(Rules)
  BY Interval, 255 \in Nat DEF Rules
<1>2. IsFiniteSet(Alike(r, S))
  BY <1>1, FS_Subset DEF Alike
<1>3. QED
  BY <1>2, FS_CardinalityType

\* Flipping a digit twice gives the rule back.
LEMMA FlipTwice ==
  ASSUME NEW k \in Rules, NEW c \in 0 .. 7
  PROVE  Flip(Flip(k, c), c) = k
<1>1. Flip(k, c) \in Rules /\ RuleBit(Flip(k, c), c) = 1 - RuleBit(k, c)
  BY FlipBits
<1>2. RuleBit(k, c) = 0 \/ RuleBit(k, c) = 1
  BY Digits DEF Bit
<1>3. k \in Nat /\ PowerOfTwo[c] \in Nat
  BY Powers DEF Rules
<1>4. QED
  BY <1>1, <1>2, <1>3 DEF Flip

\* One more neighbourhood halves them: flipping its digit pairs the rules
\* that agree with those that do not.
LEMMA Halving ==
  ASSUME NEW r \in Rules, NEW S \in SUBSET (0 .. 7), NEW c \in (0 .. 7) \ S
  PROVE  Cardinality(Alike(r, S)) = 2 * Cardinality(Alike(r, S \cup {c}))
<1>. DEFINE same == Alike(r, S \cup {c})
            other == {k \in Alike(r, S) : RuleBit(k, c) # RuleBit(r, c)}
            f == [k \in same |-> Flip(k, c)]
<1>1. Alike(r, S) = same \cup other /\ same \cap other = {}
  BY DEF Alike
<1>2. \A k \in Rules : RuleBit(k, c) \in Bit
  BY Digits
<1>3. ASSUME NEW k \in Alike(r, S)
      PROVE  Flip(k, c) \in Alike(r, S) /\ RuleBit(Flip(k, c), c) = 1 - RuleBit(k, c)
  <2>1. k \in Rules /\ \A d \in S : RuleBit(k, d) = RuleBit(r, d)
    BY DEF Alike
  <2>2. /\ Flip(k, c) \in Rules
        /\ \A d \in 0 .. 7 :
             RuleBit(Flip(k, c), d) = IF d = c THEN 1 - RuleBit(k, c) ELSE RuleBit(k, d)
    BY <2>1, FlipBits
  <2>3. QED
    BY <2>1, <2>2 DEF Alike
<1>4. /\ same = {k \in Alike(r, S) : RuleBit(k, c) = RuleBit(r, c)}
      /\ RuleBit(r, c) \in Bit
  BY <1>2 DEF Alike
<1>5. \A k \in Rules : Flip(Flip(k, c), c) = k
  BY FlipTwice
<1>6. same \subseteq Rules /\ other \subseteq Rules
  BY DEF Alike
<1>7. f \in Bijection(same, other)
  <2>1. \A k \in same : Flip(k, c) \in other
    BY <1>2, <1>3, <1>4, <1>6 DEF Bit
  <2>2. \A k \in other : Flip(k, c) \in same
    BY <1>2, <1>3, <1>4, <1>6 DEF Bit
  <2>. HIDE DEF same, other
  <2>3. f \in [same -> other]
    BY <2>1
  <2>4. \A j, k \in same : f[j] = f[k] => j = k
    BY <1>5, <1>6
  <2>5. \A k \in other : \E j \in same : f[j] = k
    <3>1. SUFFICES ASSUME NEW k \in other PROVE \E j \in same : f[j] = k
      OBVIOUS
    <3>2. Flip(k, c) \in same /\ f[Flip(k, c)] = k
      BY <2>2, <1>5, <1>6
    <3>3. QED
      BY <3>2
  <2>. HIDE DEF f
  <2>6. QED
    BY <2>3, <2>4, <2>5 DEF Bijection, Injection, Surjection, IsInjective
<1>8. IsFiniteSet(same) /\ Cardinality(same) \in Nat
  BY AlikeFinite
<1>. HIDE DEF same, other, f
<1>9. IsFiniteSet(other) /\ Cardinality(other) = Cardinality(same)
  BY <1>7, <1>8, FS_Bijection DEF ExistsBijection
<1>10. Cardinality(same \cup other)
         = Cardinality(same) + Cardinality(other) - Cardinality(same \cap other)
  BY <1>8, <1>9, FS_Union
<1>11. Cardinality(same \cap other) = 0
  BY <1>1, FS_EmptySet
<1>12. Cardinality(same \cup other) = 2 * Cardinality(same)
  BY <1>8, <1>9, <1>10, <1>11
<1>13. QED
  BY <1>1, <1>12 DEF same

\* One alternative for each choice of outputs of the other neighbourhoods.
LEMMA AlikeCounted ==
  ASSUME NEW r \in Rules, NEW S \in SUBSET (0 .. 7)
  PROVE  /\ IsFiniteSet(S) /\ Cardinality(S) \in 0 .. 8
         /\ Cardinality(Alike(r, S)) = PowerOfTwo[8 - Cardinality(S)]
<1>. DEFINE P(n) == \A T \in SUBSET (0 .. 7) :
              Cardinality(T) = n => Cardinality(Alike(r, T)) = PowerOfTwo[8 - n]
<1>1. \A T \in SUBSET (0 .. 7) : IsFiniteSet(T) /\ Cardinality(T) \in 0 .. 8
  <2>1. IsFiniteSet(0 .. 7) /\ Cardinality(0 .. 7) = 8
    <3>1. IsFiniteSet(0 .. 7) /\ Cardinality(0 .. 7) = 7 + 1
      BY Interval, 7 \in Nat, Zenon
    <3>2. QED
      BY <3>1
  <2>. HIDE DEF P
  <2>2. \A T \in SUBSET (0 .. 7) : IsFiniteSet(T) /\ Cardinality(T) <= Cardinality(0 .. 7)
    BY <2>1, FS_Subset
  <2>3. QED
    BY <2>1, <2>2, FS_CardinalityType
<1>2. P(0)
  <2>1. \A T \in SUBSET (0 .. 7) : Cardinality(T) = 0 => T = {}
    BY <1>1, FS_EmptySet
  <2>2. Alike(r, {}) = 0 .. 255
    BY DEF Alike, Rules
  <2>3. Cardinality(Alike(r, {})) = PowerOfTwo[8 - 0]
    <3>1. Cardinality(0 .. 255) = 255 + 1
      BY Interval, 255 \in Nat, Zenon
    <3>2. Cardinality(Alike(r, {})) = 255 + 1
      BY <2>2, <3>1
    <3>3. PowerOfTwo[8 - 0] = 255 + 1
      BY Powers
    <3>4. QED
      BY <3>2, <3>3
  <2>4. QED
    BY <2>1, <2>3
<1>3. ASSUME NEW n \in 0 .. 7, P(n) PROVE P(n + 1)
  <2>1. SUFFICES ASSUME NEW T \in SUBSET (0 .. 7), Cardinality(T) = n + 1
                 PROVE  Cardinality(Alike(r, T)) = PowerOfTwo[8 - (n + 1)]
    OBVIOUS
  <2>2. T # {}
    BY <2>1, FS_EmptySet
  <2>3. PICK c \in T : TRUE
    BY <2>2
  <2>4. Cardinality(T \ {c}) = n
    BY <1>1, <2>1, FS_RemoveElement
  <2>5. Cardinality(Alike(r, T \ {c})) = PowerOfTwo[8 - n]
    BY <1>3, <2>4
  <2>6. Cardinality(Alike(r, T \ {c})) = 2 * Cardinality(Alike(r, (T \ {c}) \cup {c}))
    <3>1. T \ {c} \in SUBSET (0 .. 7) /\ c \in (0 .. 7) \ (T \ {c})
      OBVIOUS
    <3>2. QED
      BY <3>1, Halving
  <2>7. (T \ {c}) \cup {c} = T
    OBVIOUS
  <2>8. PowerOfTwo[8 - n] = 2 * PowerOfTwo[8 - (n + 1)] /\ PowerOfTwo[8 - (n + 1)] \in Nat
    BY Powers
  <2>9. Cardinality(Alike(r, T)) \in Nat
    BY AlikeFinite
  <2>10. 2 * PowerOfTwo[8 - (n + 1)] = 2 * Cardinality(Alike(r, T))
    BY <2>5, <2>6, <2>7, <2>8
  <2>11. QED
    BY <2>8, <2>9, <2>10
<1>. HIDE DEF P
<1>4. P(1) /\ P(2) /\ P(3) /\ P(4) /\ P(5) /\ P(6) /\ P(7) /\ P(8)
  <2>1. P(0 + 1)
    BY <1>2, <1>3
  <2>2. P(1 + 1)
    BY <2>1, <1>3
  <2>3. P(2 + 1)
    BY <2>2, <1>3
  <2>4. P(3 + 1)
    BY <2>3, <1>3
  <2>5. P(4 + 1)
    BY <2>4, <1>3
  <2>6. P(5 + 1)
    BY <2>5, <1>3
  <2>7. P(6 + 1)
    BY <2>6, <1>3
  <2>8. P(7 + 1)
    BY <2>7, <1>3
  <2>9. QED
    BY <2>1, <2>2, <2>3, <2>4, <2>5, <2>6, <2>7, <2>8
<1>5. P(Cardinality(S))
  BY <1>1, <1>2, <1>4
<1>6. QED
  BY <1>1, <1>5 DEF P

-----------------------------------------------------------------------------
(* The evidence.                                                           *)

Neighborhoods == Bit \X Bit \X Bit
NumberOf(n) == 4 * n[1] + 2 * n[2] + n[3]

\* A neighbourhood is told by its number.
LEMMA NumberOfNeighborhood ==
  /\ \A n \in Neighborhoods : NumberOf(n) \in 0 .. 7
  /\ \A m, n \in Neighborhoods : NumberOf(m) = NumberOf(n) => m = n
<1>1. \A n \in Neighborhoods : /\ n = <<n[1], n[2], n[3]>>
                               /\ n[1] \in {0, 1} /\ n[2] \in {0, 1} /\ n[3] \in {0, 1}
  BY DEF Neighborhoods, Bit
<1>2. QED
  BY <1>1 DEF NumberOf

\* The transitions A1 shows in its first t steps, and their neighbourhoods.
Shown(r, t) ==
  {[previous |-> A1Row(m),
    following |-> StepVectorized(r, A1Row(m), A1Width, "fixed_zero")] : m \in 0 .. t - 1}
Seen(t) ==
  {NeighborhoodOf(A1Row(m), A1Width, i, "fixed_zero") : m \in 0 .. t - 1, i \in 0 .. A1Width - 1}
SeenNumbers(t) == {NumberOf(n) : n \in Seen(t)}

\* The rows shown are rows of five cells.
LEMMA A1Rows == \A m \in Nat : A1Row(m) \in Rows(A1Width)
BY DEF A1Row, Rows, A1Width, Bit

\* What the inference looks up is what the simulator used.
LEMMA SeenAreNeighborhoods ==
  ASSUME NEW m \in Nat, NEW i \in 0 .. A1Width - 1
  PROVE  /\ NeighborhoodOf(A1Row(m), A1Width, i, "fixed_zero") \in Neighborhoods
         /\ NeighborhoodOf(A1Row(m), A1Width, i, "fixed_zero") =
              <<VectorizedLeft(A1Row(m), A1Width, "fixed_zero")[i], A1Row(m)[i],
                VectorizedRight(A1Row(m), A1Width, "fixed_zero")[i]>>
<1>1. A1Width \in Nat \ {0} /\ "fixed_zero" \in Boundaries /\ A1Row(m) \in Rows(A1Width)
  BY A1Rows DEF A1Width, Boundaries
<1>2. A1Row(m)[i] \in Bit
  BY <1>1 DEF Rows
<1>3. QED
  BY <1>1, <1>2, NeighborsAgree DEF NeighborhoodOf, Neighborhoods

\* Recovering is agreeing with the generating rule on what was seen.
LEMMA RecoveringIsAgreeing ==
  ASSUME NEW r \in Rules, NEW t \in Nat
  PROVE  RecoverConsistentRules(Shown(r, t), A1Width, "fixed_zero") = Alike(r, SeenNumbers(t))
<1>1. ASSUME NEW k \in Rules
      PROVE  RuleMatches(k, Shown(r, t), A1Width, "fixed_zero") <=>
               \A c \in SeenNumbers(t) : RuleBit(k, c) = RuleBit(r, c)
  <2>. DEFINE at(m, i) == NeighborhoodOf(A1Row(m), A1Width, i, "fixed_zero")
              out(q, n) == RuleOutput(q, n[1], n[2], n[3])
  <2>1. RuleMatches(k, Shown(r, t), A1Width, "fixed_zero") <=>
          \A m \in 0 .. t - 1 : \A i \in 0 .. A1Width - 1 :
            out(k, at(m, i)) = StepVectorized(r, A1Row(m), A1Width, "fixed_zero")[i]
    <3>. DEFINE shown(m) == [previous |-> A1Row(m),
                             following |-> StepVectorized(r, A1Row(m), A1Width, "fixed_zero")]
                fits(o) == \A i \in 0 .. A1Width - 1 :
                  out(k, NeighborhoodOf(o.previous, A1Width, i, "fixed_zero")) = o.following[i]
    <3>1. RuleMatches(k, Shown(r, t), A1Width, "fixed_zero") <=> \A o \in Shown(r, t) : fits(o)
      BY DEF RuleMatches
    <3>2. \A m : fits(shown(m)) <=> \A i \in 0 .. A1Width - 1 :
            out(k, at(m, i)) = StepVectorized(r, A1Row(m), A1Width, "fixed_zero")[i]
      BY Zenon
    <3>3. Shown(r, t) = {shown(m) : m \in 0 .. t - 1}
      BY DEF Shown
    <3>. HIDE DEF shown, fits, at, out
    <3>4. QED
      BY <3>1, <3>2, <3>3
  <2>2. \A m \in 0 .. t - 1 : \A i \in 0 .. A1Width - 1 :
          StepVectorized(r, A1Row(m), A1Width, "fixed_zero")[i] = out(r, at(m, i))
    BY SeenAreNeighborhoods DEF StepVectorized
  <2>3. \A q, n : out(q, n) = RuleBit(q, NumberOf(n))
    BY DEF RuleOutput, NumberOf
  <2>4. (\A c \in SeenNumbers(t) : RuleBit(k, c) = RuleBit(r, c)) <=>
          \A m \in 0 .. t - 1 : \A i \in 0 .. A1Width - 1 :
            RuleBit(k, NumberOf(at(m, i))) = RuleBit(r, NumberOf(at(m, i)))
    BY DEF SeenNumbers, Seen
  <2>. HIDE DEF at, out
  <2>5. QED
    BY <2>1, <2>2, <2>3, <2>4
<1>2. QED
  BY <1>1 DEF RecoverConsistentRules, Alike

\* There are as many neighbourhoods as numbers.
LEMMA SeenCounted ==
  ASSUME NEW t \in Nat
  PROVE  /\ SeenNumbers(t) \in SUBSET (0 .. 7)
         /\ Cardinality(Seen(t)) = Cardinality(SeenNumbers(t))
<1>. DEFINE f == [n \in Seen(t) |-> NumberOf(n)]
            g == [c \in SeenNumbers(t) |-> CHOOSE n \in Seen(t) : NumberOf(n) = c]
<1>1. Seen(t) \subseteq Neighborhoods
  BY SeenAreNeighborhoods DEF Seen
<1>2. SeenNumbers(t) \in SUBSET (0 .. 7)
  BY <1>1, NumberOfNeighborhood DEF SeenNumbers
<1>3. IsFiniteSet(SeenNumbers(t))
  BY <1>2, AlikeCounted, 0 \in Rules DEF Rules
<1>4. g \in Bijection(SeenNumbers(t), Seen(t))
  <2>1. \A c \in SeenNumbers(t) : g[c] \in Seen(t) /\ NumberOf(g[c]) = c
    BY DEF SeenNumbers
  <2>2. g \in [SeenNumbers(t) -> Seen(t)]
    BY <2>1
  <2>3. \A n \in Seen(t) : NumberOf(n) \in SeenNumbers(t)
    BY DEF SeenNumbers
  <2>. HIDE DEF g
  <2>4. \A n \in Seen(t) : g[NumberOf(n)] = n
    BY <1>1, <2>1, <2>3, NumberOfNeighborhood
  <2>5. \A n \in Seen(t) : \E c \in SeenNumbers(t) : g[c] = n
    BY <2>3, <2>4
  <2>6. \A b, c \in SeenNumbers(t) : g[b] = g[c] => b = c
    BY <2>1
  <2>7. QED
    BY <2>2, <2>5, <2>6 DEF Bijection, Injection, Surjection, IsInjective
<1>5. QED
  BY <1>2, <1>3, <1>4, FS_Bijection DEF ExistsBijection

\* The middle cell of the row with number m sees the neighbourhood m.
LEMMA AllSeen == SeenNumbers(8) = 0 .. 7
<1>1. SeenNumbers(8) \subseteq 0 .. 7
  BY SeenCounted, 8 \in Nat
<1>2. ASSUME NEW m \in 0 .. 7 PROVE m \in SeenNumbers(8)
  <2>. DEFINE n == NeighborhoodOf(A1Row(m), A1Width, 2, "fixed_zero")
  <2>1. n = <<A1Row(m)[1], A1Row(m)[2], A1Row(m)[3]>>
    BY DEF NeighborhoodOf, ReferenceNeighbor, A1Width
  <2>2. A1Row(m)[1] = (m \div 4) % 2 /\ A1Row(m)[2] = (m \div 2) % 2 /\ A1Row(m)[3] = m % 2
    BY DEF A1Row, A1Width
  <2>3. NumberOf(n) = 4 * ((m \div 4) % 2) + 2 * ((m \div 2) % 2) + (m % 2)
    BY <2>1, <2>2 DEF NumberOf
  <2>4. NumberOf(n) = m
    <3>1. m = 4 * ((m \div 4) % 2) + 2 * ((m \div 2) % 2) + (m % 2)
      OBVIOUS
    <3>2. QED
      BY <2>3, <3>1
  <2>5. n \in Seen(8)
    BY DEF Seen, A1Width
  <2>. HIDE DEF n
  <2>6. QED
    BY <2>4, <2>5 DEF SeenNumbers
<1>3. QED
  BY <1>1, <1>2

\* Two rules that agree on all neighbourhoods are one.
LEMMA AlikeAlone ==
  ASSUME NEW r \in Rules
  PROVE  Alike(r, 0 .. 7) = {r}
<1>1. ASSUME NEW k \in Rules, \A c \in 0 .. 7 : RuleBit(k, c) = RuleBit(r, c)
      PROVE  k = r
  <2>1. /\ RuleBit(k, 0) = RuleBit(r, 0) /\ RuleBit(k, 1) = RuleBit(r, 1)
        /\ RuleBit(k, 2) = RuleBit(r, 2) /\ RuleBit(k, 3) = RuleBit(r, 3)
        /\ RuleBit(k, 4) = RuleBit(r, 4) /\ RuleBit(k, 5) = RuleBit(r, 5)
        /\ RuleBit(k, 6) = RuleBit(r, 6) /\ RuleBit(k, 7) = RuleBit(r, 7)
    BY <1>1
  <2>2. QED
    BY <2>1, Digits
<1>2. QED
  BY <1>1 DEF Alike

\* While A1 runs, the evidence is the rows shown so far and their successors,
\* and what was recovered is recovered from all of it.
RecoveryInv ==
  task = "A1" =>
    /\ rule \in Rules
    /\ boundary = "fixed_zero"
    /\ width = A1Width
    /\ time \in 0 .. 8
    /\ observed = Shown(rule, time)
    /\ time > 0 => recovered = RecoverConsistentRules(observed, width, boundary)

\* Showing one more row keeps this; nothing else disturbs it.
LEMMA RecoveryStep == RecoveryInv /\ [AutomatonNext]_automatonVars => RecoveryInv'
<1>1. SUFFICES ASSUME RecoveryInv, [AutomatonNext]_automatonVars, task' = "A1"
               PROVE  RecoveryInv'
  BY DEF RecoveryInv
<1>2. CASE Simulate
  BY <1>1, <1>2 DEF Simulate
<1>3. CASE Observe
  <2>1. /\ rule \in Rules /\ boundary = "fixed_zero" /\ width = A1Width
        /\ time \in 0 .. 8 /\ observed = Shown(rule, time)
    BY <1>1, <1>3 DEF Observe, RecoveryInv
  <2>2. /\ rule' = rule /\ boundary' = boundary /\ width' = width /\ time' = time + 1 /\ time < 8
        /\ recovered' = RecoverConsistentRules(observed', width, boundary)
        /\ observed' = observed \cup
             {[previous |-> A1Row(time),
               following |-> StepVectorized(rule, A1Row(time), width, boundary)]}
    BY <1>3 DEF Observe
  <2>3. 0 .. time' - 1 = (0 .. time - 1) \cup {time}
    BY <2>1, <2>2
  <2>4. observed' = Shown(rule, time')
    BY <2>1, <2>2, <2>3 DEF Shown
  <2>5. QED
    BY <2>1, <2>2, <2>4 DEF RecoveryInv
<1>4. CASE UNCHANGED automatonVars
  BY <1>1, <1>4 DEF automatonVars, RecoveryInv
<1>5. QED
  BY <1>1, <1>2, <1>3, <1>4 DEF AutomatonNext

\* Before the first row nothing was shown.
LEMMA RecoveryInitially == AutomatonInit => RecoveryInv
<1>1. \A r : Shown(r, 0) = {}
  BY DEF Shown
<1>2. QED
  BY <1>1 DEF AutomatonInit, RecoveryInv

\* What was recovered from the rows shown is counted by what they show.
LEMMA RecoveryFollows == RecoveryInv => RecoveryIsExact
<1>1. SUFFICES ASSUME RecoveryInv, task = "A1", time > 0
               PROVE  /\ rule \in recovered
                      /\ Cardinality(recovered) = PowerOfTwo[8 - Cardinality(NeighborhoodsSeen)]
                      /\ time = 8 => recovered = {rule}
  BY DEF RecoveryIsExact
<1>2. /\ rule \in Rules /\ time \in Nat /\ time \in 0 .. 8 /\ observed = Shown(rule, time)
      /\ width = A1Width /\ boundary = "fixed_zero"
  BY <1>1 DEF RecoveryInv
<1>3. recovered = Alike(rule, SeenNumbers(time))
  <2>1. recovered = RecoverConsistentRules(Shown(rule, time), A1Width, "fixed_zero")
    BY <1>1 DEF RecoveryInv
  <2>2. QED
    BY <1>2, <2>1, RecoveringIsAgreeing
<1>4. NeighborhoodsSeen = Seen(time)
  <2>1. \A n : n \in NeighborhoodsSeen <=>
          \E o \in observed : \E i \in 0 .. width - 1 :
            n = NeighborhoodOf(o.previous, width, i, boundary)
    BY DEF NeighborhoodsSeen
  <2>2. \A n : n \in Seen(time) <=>
          \E m \in 0 .. time - 1 : \E i \in 0 .. A1Width - 1 :
            n = NeighborhoodOf(A1Row(m), A1Width, i, "fixed_zero")
    BY DEF Seen
  <2>3. \A o \in observed : \E m \in 0 .. time - 1 : o.previous = A1Row(m)
    BY <1>2 DEF Shown
  <2>4. \A m \in 0 .. time - 1 : \E o \in observed : o.previous = A1Row(m)
    <3>1. SUFFICES ASSUME NEW m \in 0 .. time - 1 PROVE \E o \in observed : o.previous = A1Row(m)
      OBVIOUS
    <3>2. [previous |-> A1Row(m),
           following |-> StepVectorized(rule, A1Row(m), A1Width, "fixed_zero")] \in observed
      BY <1>2 DEF Shown
    <3>3. QED
      BY <3>2
  <2>5. QED
    BY <1>2, <2>1, <2>2, <2>3, <2>4
<1>5. /\ SeenNumbers(time) \in SUBSET (0 .. 7)
      /\ Cardinality(Seen(time)) = Cardinality(SeenNumbers(time))
  BY <1>2, SeenCounted
<1>6. Cardinality(recovered) = PowerOfTwo[8 - Cardinality(NeighborhoodsSeen)]
  BY <1>2, <1>3, <1>4, <1>5, AlikeCounted
<1>7. rule \in recovered
  BY <1>2, <1>3 DEF Alike
<1>8. time = 8 => recovered = {rule}
  BY <1>2, <1>3, AllSeen, AlikeAlone
<1>9. QED
  BY <1>6, <1>7, <1>8

\* The inference keeps the generating rule and exactly one alternative for
\* each choice of outputs of the neighbourhoods not seen, after every number
\* of transitions and for every rule: the rule is alone once all were seen.
THEOREM TheRecoveryIsExact == AutomatonSpec => []RecoveryIsExact
<1>1. QED
  BY RecoveryInitially, RecoveryStep, RecoveryFollows, PTL DEF AutomatonSpec

=============================================================================
