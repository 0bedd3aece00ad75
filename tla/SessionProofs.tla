--------------------------- MODULE SessionProofs ---------------------------
(***************************************************************************)
(* Lemmas about the operators of DensityControl and Session: what a pass,  *)
(* a step and a finalize may do to a session.  The proofs about            *)
(* PackSession and CApiSession cite them.                                  *)
(***************************************************************************)
EXTENDS Session, TLAPS, FiniteSetTheorems, SequenceTheorems

(***************************************************************************)
(* Constants are of their types.                                           *)
(***************************************************************************)
LEMMA ConstantTypes ==
  /\ Target \in Nat /\ Target > 0
  /\ MinInterval \in Nat
  /\ Cooling \in Nat
  /\ Iterations \in Nat
  /\ StartCounts \subseteq Nat \ {0}
BY DensityAssumption, SessionAssumption

(***************************************************************************)
(* A function on 1..n is a sequence of length n.                           *)
(***************************************************************************)
LEMMA FunctionIsSeq ==
  ASSUME NEW n \in Nat, NEW S, NEW f \in [1..n -> S]
  PROVE  f \in Seq(S) /\ Len(f) = n /\ DOMAIN f = 1..n
<1>1. f \in Seq(S)
  BY SeqDef
<1>2. Len(f) \in Nat /\ DOMAIN f = 1..Len(f)
  BY <1>1, LenProperties
<1> QED
  BY <1>1, <1>2

(***************************************************************************)
(* What a function takes its arguments to is in its range.                 *)
(***************************************************************************)
LEMMA InRange ==
  ASSUME NEW f, NEW x \in DOMAIN f
  PROVE  f[x] \in Range(f)
BY DEF Range

(***************************************************************************)
(* 1..n has n elements, and its subsets at most as many.                   *)
(***************************************************************************)
LEMMA IntervalSize ==
  ASSUME NEW n \in Nat
  PROVE  /\ IsFiniteSet(1..n) /\ Cardinality(1..n) = n
         /\ \A T \in SUBSET (1..n) : IsFiniteSet(T) /\ Cardinality(T) \in 0..n
<1>1. IsFiniteSet(1..n) /\ Cardinality(1..n) = n
  BY FS_Interval
<1>2. ASSUME NEW T \in SUBSET (1..n)
      PROVE  IsFiniteSet(T) /\ Cardinality(T) <= n
  BY <1>1, FS_Subset
<1>3. ASSUME NEW T \in SUBSET (1..n)
      PROVE  Cardinality(T) \in Nat
  BY <1>2, FS_CardinalityType
<1> QED
  BY <1>1, <1>2, <1>3

(***************************************************************************)
(* CullCount: a pass keeps at least one sphere, culls fewer than the       *)
(* target, and culls every bad one unless it already culls all it may.     *)
(***************************************************************************)
LEMMA CullCountBounds ==
  ASSUME NEW temperature \in Nat, NEW n \in Nat \ {0}, NEW nBad \in Nat
  PROVE  LET k == CullCount(temperature, n, nBad)
         IN  /\ k \in 0..(n - 1)
             /\ k <= Target - 1
             /\ k >= nBad \/ k = AtMost(Target, n) - 1
<1> DEFINE byTemperature == AtLeast((Target * temperature) \div TemperatureUnit, 1)
<1>1. (Target * temperature) \div TemperatureUnit \in Nat
  BY ConstantTypes DEF TemperatureUnit
<1>2. byTemperature \in Nat
  BY <1>1 DEF AtLeast
<1>3. CullCount(temperature, n, nBad)
        = AtMost(AtMost(AtLeast(byTemperature, nBad), Target - 1), n - 1)
  BY DEF CullCount
<1> HIDE DEF byTemperature
<1> QED
  BY <1>2, <1>3, ConstantTypes DEF AtLeast, AtMost

\* Cooling keeps the temperature a natural number.
LEMMA CooledType ==
  ASSUME NEW temperature \in Nat
  PROVE  Cooled(temperature) \in Nat
<1>1. (temperature * Cooling) \div 100 \in Nat
  BY ConstantTypes
<1> QED
  BY <1>1 DEF Cooled, AtLeast, MinTemperature

(***************************************************************************)
(* Rankings: what is kept keeps no bad sphere when as many spheres as are  *)
(* bad are culled - the bad ones rank behind all others.                   *)
(***************************************************************************)
LEMMA RankingsKeepNoBad ==
  ASSUME NEW n \in Nat, NEW k \in 0..n, NEW bad \in SUBSET (1..n),
         Cardinality(bad) <= k, NEW keep \in Rankings(n, k, bad),
         NEW i \in 1..(n - k)
  PROVE  keep[i] \notin bad
<1> SUFFICES ASSUME keep[i] \in bad PROVE FALSE
  OBVIOUS
<1>1. keep \in [1..(n - k) -> 1..n]
  BY DEF Rankings, Injection
<1> DEFINE good == (1..n) \ bad
           slot == [j \in good |-> CHOOSE h \in 1..(i - 1) : keep[h] = j]
<1>2. \A j \in good : \E h \in 1..(i - 1) : keep[h] = j
  BY DEF Rankings
<1>3. \A j \in good : slot[j] \in 1..(i - 1) /\ keep[slot[j]] = j
  BY <1>2
<1>4. slot \in Injection(good, 1..(i - 1))
  BY <1>3 DEF Injection, IsInjective
<1>5. IsFiniteSet(1..n) /\ Cardinality(1..n) = n
  BY IntervalSize
<1>6. IsFiniteSet(1..(i - 1)) /\ Cardinality(1..(i - 1)) = i - 1
  <2> DEFINE m == i - 1
  <2>1. m \in Nat
    OBVIOUS
  <2> HIDE DEF m
  <2>2. IsFiniteSet(1..m) /\ Cardinality(1..m) = m
    BY <2>1, IntervalSize
  <2> QED
    BY <2>2 DEF m
<1>7. Cardinality(good) <= i - 1
  BY <1>4, <1>6, FS_Injection
<1>8. IsFiniteSet(bad) /\ Cardinality(bad) \in Nat
  BY <1>5, FS_Subset, FS_CardinalityType
<1>9. Cardinality(good) = n - Cardinality(bad)
  <2>1. (1..n) \cap bad = bad
    OBVIOUS
  <2> QED
    BY <2>1, <1>5, FS_Difference, ZenonT(60)
<1> QED
  BY <1>7, <1>8, <1>9

(***************************************************************************)
(* The outcomes of a pass that culls k # 0 spheres: n - k different        *)
(* survivors come first, k newly numbered spheres behind them.             *)
(***************************************************************************)
Repacked(spheres, born, out, bad, k, keep) ==
  LET n == Len(spheres) IN
  /\ keep \in [1..(n - k) -> 1..n]
  /\ \A i, j \in 1..(n - k) : keep[i] = keep[j] => i = j
  /\ Cardinality(bad) <= k => \A i \in 1..(n - k) : keep[i] \notin bad
  /\ out.spheres = [i \in 1..n |-> out.spheres[i]]
  /\ \A i \in 1..n : i <= n - k => out.spheres[i] = spheres[keep[i]]
  /\ \A i \in 1..n : ~(i <= n - k) => out.spheres[i] = born + i - (n - k)
  /\ out.born = born + k

(***************************************************************************)
(* Repacks: every outcome culls some number k of spheres, k = 0 leaving    *)
(* everything alone.                                                       *)
(***************************************************************************)
PassOutcome(spheres, born, temperature, out, bad, k) ==
  /\ Cardinality(bad) <= k \/ k = AtMost(Target, Len(spheres)) - 1
  /\ out.removed = k
  /\ out.bad = { spheres[i] : i \in bad }
  /\ k = 0 => /\ out.spheres = spheres
              /\ out.born = born
              /\ out.temperature = temperature
  /\ k # 0 => /\ \E keep : Repacked(spheres, born, out, bad, k, keep)
              /\ out.temperature = Cooled(temperature)

\* A pass either changes nothing or culls and reseeds along some ranking.
LEMMA RepackCases ==
  ASSUME NEW spheres \in Seq(Nat), spheres # <<>>, NEW born \in Nat,
         NEW temperature \in Nat,
         NEW out \in Repacks(spheres, born, temperature)
  PROVE  \E bad \in SUBSET (1..Len(spheres)), k \in 0..(Len(spheres) - 1) :
           PassOutcome(spheres, born, temperature, out, bad, k)
<1> DEFINE n == Len(spheres)
<1>1. n \in Nat \ {0}
  BY EmptySeq
<1>2. PICK bad \in SUBSET (1..n) :
        out \in LET k == CullCount(temperature, n, Cardinality(bad))
                    badSpheres == { spheres[i] : i \in bad }
                IN  IF k = 0
                    THEN { Outcome(spheres, born, temperature, 0, badSpheres) }
                    ELSE { Outcome([ i \in 1..n |-> IF i <= n - k
                                                     THEN spheres[keep[i]]
                                                     ELSE born + i - (n - k) ],
                                   born + k, Cooled(temperature), k, badSpheres)
                           : keep \in Rankings(n, k, bad) }
  BY DEF Repacks
<1>3. Cardinality(bad) \in Nat
  <2>1. \A T \in SUBSET (1..n) : Cardinality(T) \in 0..n
    BY <1>1, IntervalSize
  <2> QED
    BY <2>1
<1>4. PICK k \in 0..(n - 1) :
        /\ k = CullCount(temperature, n, Cardinality(bad))
        /\ Cardinality(bad) <= k \/ k = AtMost(Target, n) - 1
  BY <1>1, <1>3, CullCountBounds
<1>5. CASE k = 0
  <2>1. out = Outcome(spheres, born, temperature, 0, { spheres[i] : i \in bad })
    BY <1>2, <1>4, <1>5
  <2>2. /\ out.spheres = spheres
        /\ out.born = born
        /\ out.temperature = temperature
        /\ out.removed = 0
        /\ out.bad = { spheres[i] : i \in bad }
    BY <2>1 DEF Outcome
  <2> QED
    BY <1>4, <1>5, <2>2 DEF PassOutcome
<1>6. CASE k # 0
  <2>1. PICK keep \in Rankings(n, k, bad) :
          out = Outcome([ i \in 1..n |-> IF i <= n - k THEN spheres[keep[i]]
                                         ELSE born + i - (n - k) ],
                        born + k, Cooled(temperature), k,
                        { spheres[i] : i \in bad })
    BY <1>2, <1>4, <1>6
  <2>2. /\ out.spheres = [ i \in 1..n |-> IF i <= n - k THEN spheres[keep[i]]
                                          ELSE born + i - (n - k) ]
        /\ out.born = born + k
        /\ out.temperature = Cooled(temperature)
        /\ out.removed = k
        /\ out.bad = { spheres[i] : i \in bad }
    BY <2>1 DEF Outcome
  <2>3. /\ keep \in [1..(n - k) -> 1..n]
        /\ \A i, j \in 1..(n - k) : keep[i] = keep[j] => i = j
    BY DEF Rankings, Injection, IsInjective
  <2>4. ASSUME Cardinality(bad) <= k, NEW i \in 1..(n - k)
        PROVE  keep[i] \notin bad
    BY <1>1, <2>4, RankingsKeepNoBad, SMTT(30)
  <2>5. /\ out.spheres = [i \in 1..n |-> out.spheres[i]]
        /\ \A i \in 1..n : i <= n - k => out.spheres[i] = spheres[keep[i]]
        /\ \A i \in 1..n : ~(i <= n - k) => out.spheres[i] = born + i - (n - k)
    BY <2>2
  <2>6. Repacked(spheres, born, out, bad, k, keep)
    BY <2>2, <2>3, <2>4, <2>5 DEF Repacked
  <2> QED
    BY <1>4, <1>6, <2>2, <2>6 DEF PassOutcome
<1> QED
  BY <1>5, <1>6
-----------------------------------------------------------------------------
(***************************************************************************)
(* A pass keeps the number of spheres, and one that removes none leaves    *)
(* every sphere where it is.                                               *)
(***************************************************************************)
LEMMA RepackType ==
  ASSUME NEW spheres \in Seq(Nat), spheres # <<>>, NEW born \in Nat,
         NEW temperature \in Nat,
         NEW out \in Repacks(spheres, born, temperature)
  PROVE  /\ out.spheres \in Seq(Nat)
         /\ Len(out.spheres) = Len(spheres)
         /\ out.born \in Nat
         /\ out.temperature \in Nat
         /\ out.removed \in Nat
         /\ out.bad \in SUBSET Nat
         /\ out.removed = 0 => out.spheres = spheres
<1> DEFINE n == Len(spheres)
<1>1. n \in Nat /\ \A i \in 1..n : spheres[i] \in Nat
  BY LenProperties
<1>2. PICK bad \in SUBSET (1..n), k \in 0..(n - 1) :
        PassOutcome(spheres, born, temperature, out, bad, k)
  BY RepackCases
<1>3. out.bad \in SUBSET Nat
  BY <1>1, <1>2 DEF PassOutcome
<1>4. CASE k = 0
  BY <1>2, <1>3, <1>4 DEF PassOutcome
<1>5. CASE k # 0
  <2>1. PICK keep : Repacked(spheres, born, out, bad, k, keep)
    BY <1>2, <1>5 DEF PassOutcome
  <2>2. /\ keep \in [1..(n - k) -> 1..n]
        /\ out.spheres = [i \in 1..n |-> out.spheres[i]]
        /\ \A i \in 1..n : i <= n - k => out.spheres[i] = spheres[keep[i]]
        /\ \A i \in 1..n : ~(i <= n - k) => out.spheres[i] = born + i - (n - k)
        /\ out.born = born + k
    BY <2>1 DEF Repacked
  <2> HIDE DEF n
  <2>3. ASSUME NEW i \in 1..n
        PROVE  out.spheres[i] \in Nat
    <3>1. CASE i <= n - k
      <4>1. i \in 1..(n - k)
        BY <1>1, <3>1
      <4> QED
        BY <1>1, <2>2, <3>1, <4>1
    <3>2. CASE ~(i <= n - k)
      BY <1>1, <2>2, <3>2, SMTT(30)
    <3> QED
      BY <3>1, <3>2
  <2>4. out.spheres \in Seq(Nat) /\ Len(out.spheres) = n
    <3>1. out.spheres \in [1..n -> Nat]
      BY <2>2, <2>3
    <3> QED
      BY <1>1, <3>1, FunctionIsSeq
  <2>5. out.removed = k /\ out.temperature = Cooled(temperature)
    BY <1>2, <1>5 DEF PassOutcome
  <2>6. born + k \in Nat /\ k \in Nat
    BY <1>1
  <2> QED
    BY <1>3, <1>5, <2>2, <2>4, <2>5, <2>6, CooledType DEF n
<1> QED
  BY <1>4, <1>5

\* Spheres in different slots are different, and all of them were placed.
Placed(spheres, born) ==
  /\ IsInjective(spheres)
  /\ \A i \in 1..Len(spheres) : spheres[i] \in 1..born

\* What Placed says of the spheres of a session, one slot at a time.
LEMMA PlacedFacts ==
  ASSUME NEW spheres \in Seq(Nat), spheres # <<>>, NEW born \in Nat,
         Placed(spheres, born)
  PROVE  /\ Len(spheres) \in Nat /\ Len(spheres) > 0
         /\ DOMAIN spheres = 1..Len(spheres)
         /\ \A i \in 1..Len(spheres) : spheres[i] \in 1..born
         /\ \A i, j \in 1..Len(spheres) : spheres[i] = spheres[j] => i = j
BY LenProperties, EmptySeq DEF Placed, IsInjective

(***************************************************************************)
(* What a pass that culls leaves in each slot.                             *)
(***************************************************************************)
LEMMA RepackedSlots ==
  ASSUME NEW spheres \in Seq(Nat), spheres # <<>>, NEW born \in Nat,
         Placed(spheres, born), NEW out, NEW bad,
         NEW k \in 0..(Len(spheres) - 1), NEW keep,
         Repacked(spheres, born, out, bad, k, keep),
         NEW i \in 1..Len(spheres)
  PROVE  \/ /\ i \in 1..(Len(spheres) - k)
            /\ keep[i] \in 1..Len(spheres)
            /\ out.spheres[i] = spheres[keep[i]]
            /\ out.spheres[i] \in 1..born
         \/ /\ i \notin 1..(Len(spheres) - k)
            /\ out.spheres[i] = born + i - (Len(spheres) - k)
            /\ out.spheres[i] \in (born + 1)..(born + k)
<1> DEFINE n == Len(spheres)
<1>1. /\ n \in Nat
      /\ \A j \in 1..n : spheres[j] \in 1..born
  BY PlacedFacts
<1>2. /\ keep \in [1..(n - k) -> 1..n]
      /\ i <= n - k => out.spheres[i] = spheres[keep[i]]
      /\ ~(i <= n - k) => out.spheres[i] = born + i - (n - k)
  BY DEF Repacked
<1> HIDE DEF n
<1>3. CASE i <= n - k
  <2>1. i \in 1..(n - k)
    BY <1>1, <1>3 DEF n
  <2>2. keep[i] \in 1..n
    BY <1>2, <2>1
  <2> QED
    BY <1>1, <1>2, <1>3, <2>1, <2>2 DEF n
<1>4. CASE ~(i <= n - k)
  BY <1>1, <1>2, <1>4, SMTT(30) DEF n
<1> QED
  BY <1>3, <1>4

(***************************************************************************)
(* A pass puts no sphere into two slots and numbers the new ones upwards.  *)
(***************************************************************************)
LEMMA RepackDistinct ==
  ASSUME NEW spheres \in Seq(Nat), spheres # <<>>, NEW born \in Nat,
         NEW temperature \in Nat, Placed(spheres, born),
         NEW out \in Repacks(spheres, born, temperature)
  PROVE  Placed(out.spheres, out.born)
<1> DEFINE n == Len(spheres)
<1>1. PICK bad \in SUBSET (1..n), k \in 0..(n - 1) :
        PassOutcome(spheres, born, temperature, out, bad, k)
  BY RepackCases
<1>2. CASE k = 0
  BY <1>1, <1>2 DEF PassOutcome
<1>3. CASE k # 0
  <2>1. PICK keep : Repacked(spheres, born, out, bad, k, keep)
    BY <1>1, <1>3 DEF PassOutcome
  <2>2. /\ n \in Nat
        /\ \A i, j \in 1..n : spheres[i] = spheres[j] => i = j
    BY PlacedFacts
  <2>3. /\ \A i, j \in 1..(n - k) : keep[i] = keep[j] => i = j
        /\ out.spheres = [i \in 1..n |-> out.spheres[i]]
        /\ out.born = born + k
    BY <2>1 DEF Repacked
  <2>4. Len(out.spheres) = n
    BY RepackType
  <2>5. ASSUME NEW i \in 1..n
        PROVE  \/ /\ i \in 1..(n - k)
                  /\ keep[i] \in 1..n
                  /\ out.spheres[i] = spheres[keep[i]]
                  /\ out.spheres[i] \in 1..born
               \/ /\ i \notin 1..(n - k)
                  /\ out.spheres[i] = born + i - (n - k)
                  /\ out.spheres[i] \in (born + 1)..(born + k)
    BY <2>1, RepackedSlots
  <2> HIDE DEF n
  <2>6. ASSUME NEW i \in 1..n, NEW j \in 1..n, out.spheres[i] = out.spheres[j]
        PROVE  i = j
    <3>1. CASE i \in 1..(n - k) /\ j \in 1..(n - k)
      <4>1. spheres[keep[i]] = spheres[keep[j]] /\ keep[i] \in 1..n /\ keep[j] \in 1..n
        BY <2>5, <2>6, <3>1
      <4>2. keep[i] = keep[j]
        BY <2>2, <4>1
      <4> QED
        BY <2>3, <3>1, <4>2
    <3>2. CASE i \notin 1..(n - k) /\ j \notin 1..(n - k)
      <4>1. born + i - (n - k) = born + j - (n - k)
        BY <2>5, <2>6, <3>2
      <4> QED
        BY <2>2, <4>1
    <3>3. CASE (i \in 1..(n - k)) # (j \in 1..(n - k))
      <4>1. \E x \in 1..born, y \in (born + 1)..(born + k) : x = y
        BY <2>5, <2>6, <3>3
      <4> QED
        BY <4>1
    <3> QED
      BY <3>1, <3>2, <3>3
  <2>7. ASSUME NEW i \in 1..n
        PROVE  out.spheres[i] \in 1..(born + k)
    BY <2>5
  <2>8. DOMAIN out.spheres = 1..n
    BY <2>3
  <2> QED
    BY <2>3, <2>4, <2>6, <2>7, <2>8 DEF Placed, IsInjective
<1> QED
  BY <1>2, <1>3

(***************************************************************************)
(* A pass keeps a survivor, and keeps no bad sphere unless it already      *)
(* culls all it may.                                                       *)
(***************************************************************************)
LEMMA RepackCulls ==
  ASSUME NEW spheres \in Seq(Nat), spheres # <<>>, NEW born \in Nat,
         NEW temperature \in Nat, Placed(spheres, born),
         NEW out \in Repacks(spheres, born, temperature)
  PROVE  /\ Range(out.spheres) \cap Range(spheres) # {}
         /\ \/ out.bad \cap Range(out.spheres) = {}
            \/ out.removed = AtMost(Target, Len(spheres)) - 1
<1> DEFINE n == Len(spheres)
<1>1. PICK bad \in SUBSET (1..n), k \in 0..(n - 1) :
        PassOutcome(spheres, born, temperature, out, bad, k)
  BY RepackCases
<1>2. /\ n \in Nat /\ n > 0
      /\ DOMAIN spheres = 1..n
      /\ \A i \in 1..n : spheres[i] \in 1..born
      /\ \A i, j \in 1..n : spheres[i] = spheres[j] => i = j
  BY PlacedFacts
<1>3. /\ Cardinality(bad) <= k \/ k = AtMost(Target, n) - 1
      /\ out.removed = k
      /\ out.bad = { spheres[i] : i \in bad }
  BY <1>1 DEF PassOutcome
<1>4. CASE k = 0
  <2>1. out.spheres = spheres
    BY <1>1, <1>4 DEF PassOutcome
  <2>2. Range(spheres) # {}
    <3>1. 1 \in 1..n
      BY <1>2
    <3>2. spheres[1] \in Range(spheres)
      BY <1>2, <3>1, InRange
    <3> QED
      BY <3>2
  <2>3. ASSUME Cardinality(bad) <= k
        PROVE  out.bad = {}
    <3>1. IsFiniteSet(bad) /\ Cardinality(bad) \in Nat
      <4>1. \A T \in SUBSET (1..n) : IsFiniteSet(T) /\ Cardinality(T) \in 0..n
        BY <1>2, IntervalSize
      <4> QED
        BY <4>1
    <3>2. Cardinality(bad) = 0
      BY <1>4, <2>3, <3>1
    <3>3. bad = {}
      BY <3>1, <3>2, FS_EmptySet
    <3> QED
      BY <1>3, <3>3
  <2> QED
    BY <1>3, <2>1, <2>2, <2>3
<1>5. CASE k # 0
  <2>1. PICK keep : Repacked(spheres, born, out, bad, k, keep)
    BY <1>1, <1>5 DEF PassOutcome
  <2>2. /\ Cardinality(bad) <= k => \A i \in 1..(n - k) : keep[i] \notin bad
        /\ out.spheres = [i \in 1..n |-> out.spheres[i]]
    BY <2>1 DEF Repacked
  <2>3. ASSUME NEW i \in 1..n
        PROVE  \/ /\ i \in 1..(n - k)
                  /\ keep[i] \in 1..n
                  /\ out.spheres[i] = spheres[keep[i]]
               \/ out.spheres[i] \in (born + 1)..(born + k)
    <3>1. \/ /\ i \in 1..(n - k)
             /\ keep[i] \in 1..n
             /\ out.spheres[i] = spheres[keep[i]]
             /\ out.spheres[i] \in 1..born
          \/ /\ i \notin 1..(n - k)
             /\ out.spheres[i] = born + i - (n - k)
             /\ out.spheres[i] \in (born + 1)..(born + k)
      BY <2>1, RepackedSlots
    <3> QED
      BY <3>1
  <2>4. DOMAIN out.spheres = 1..n
    BY <2>2
  <2> HIDE DEF n
  <2>5. Range(out.spheres) \cap Range(spheres) # {}
    <3>1. 1 \in 1..n /\ 1 \in 1..(n - k)
      BY <1>2
    <3>2. keep[1] \in 1..n /\ out.spheres[1] = spheres[keep[1]]
      <4>1. keep \in [1..(n - k) -> 1..n] /\ 1 <= n - k
        BY <2>1, <3>1 DEF Repacked, n
      <4> QED
        BY <2>1, <3>1, <4>1 DEF Repacked, n
    <3>3. spheres[keep[1]] \in Range(out.spheres) /\ spheres[keep[1]] \in Range(spheres)
      BY <1>2, <2>4, <3>1, <3>2, InRange
    <3> QED
      BY <3>3
  <2>6. ASSUME Cardinality(bad) <= k, NEW i \in 1..n
        PROVE  out.spheres[i] \notin out.bad
    <3>1. ASSUME NEW j \in bad PROVE out.spheres[i] # spheres[j]
      <4>1. j \in 1..n /\ spheres[j] \in 1..born
        BY <1>2
      <4>2. CASE /\ i \in 1..(n - k)
                 /\ keep[i] \in 1..n
                 /\ out.spheres[i] = spheres[keep[i]]
        <5>1. keep[i] # j
          BY <2>2, <2>6, <4>2
        <5> QED
          BY <1>2, <4>1, <4>2, <5>1
      <4>3. CASE out.spheres[i] \in (born + 1)..(born + k)
        BY <4>1, <4>3
      <4> QED
        BY <2>3, <4>2, <4>3
    <3> QED
      BY <1>3, <3>1
  <2>7. Cardinality(bad) <= k => out.bad \cap Range(out.spheres) = {}
    BY <2>4, <2>6 DEF Range
  <2> QED
    BY <1>3, <2>5, <2>7 DEF n
<1> QED
  BY <1>4, <1>5
-----------------------------------------------------------------------------
(***************************************************************************)
(* The two ways a step may go: with a density-control pass and without.    *)
(***************************************************************************)
PassedStep(s, r, converged, out) ==
  /\ TRUE \in PassVerdicts(s, converged)
  /\ out \in Repacks(s.spheres, s.born, s.temperature)
  /\ r = Ended(WithPass(Trained(s), out), converged, TRUE, out.removed, out.bad)

PlainStep(s, r, converged) ==
  /\ FALSE \in PassVerdicts(s, converged)
  /\ r = Ended(Trained(s), converged, FALSE, 0, {})

\* A step ends either with a density-control pass or without one.
LEMMA StepCases ==
  ASSUME NEW s, NEW r \in StepResults(s)
  PROVE  \E converged \in ConvergenceVerdicts(s) :
           \/ PlainStep(s, r, converged)
           \/ \E out : PassedStep(s, r, converged, out)
<1>1. PICK converged \in ConvergenceVerdicts(s) :
        r \in UNION { IF fired
                      THEN { Ended(WithPass(Trained(s), out), converged, TRUE,
                                   out.removed, out.bad)
                             : out \in Repacks(s.spheres, s.born, s.temperature) }
                      ELSE { Ended(Trained(s), converged, FALSE, 0, {}) }
                      : fired \in PassVerdicts(s, converged) }
  BY DEF StepResults
<1>2. PICK fired \in PassVerdicts(s, converged) :
        r \in IF fired
              THEN { Ended(WithPass(Trained(s), out), converged, TRUE,
                           out.removed, out.bad)
                     : out \in Repacks(s.spheres, s.born, s.temperature) }
              ELSE { Ended(Trained(s), converged, FALSE, 0, {}) }
  BY <1>1
<1>3. fired \in BOOLEAN
  BY DEF PassVerdicts, TriggerVerdicts
<1>4. CASE fired
  <2>1. PICK out \in Repacks(s.spheres, s.born, s.temperature) :
          r = Ended(WithPass(Trained(s), out), converged, TRUE,
                    out.removed, out.bad)
    BY <1>2, <1>4
  <2>2. TRUE \in PassVerdicts(s, converged)
    BY <1>2, <1>3, <1>4
  <2> QED
    BY <2>1, <2>2 DEF PassedStep
<1>5. CASE ~fired
  <2>1. r = Ended(Trained(s), converged, FALSE, 0, {})
    BY <1>2, <1>5
  <2>2. FALSE \in PassVerdicts(s, converged)
    BY <1>2, <1>3, <1>5
  <2> QED
    BY <2>1, <2>2 DEF PlainStep
<1> QED
  BY <1>4, <1>5

\* Every verdict is a truth value.
LEMMA VerdictTypes ==
  ASSUME NEW s, NEW converged \in ConvergenceVerdicts(s)
  PROVE  /\ converged \in BOOLEAN
         /\ TRUE \in PassVerdicts(s, converged) => ~converged /\ DensityEnabled
BY DEF ConvergenceVerdicts, PassVerdicts

(***************************************************************************)
(* Every part of a step keeps a session a session.                         *)
(***************************************************************************)
LEMMA TrainedType ==
  ASSUME NEW s \in Sessions
  PROVE  Trained(s) \in Sessions
BY DEF Trained, Sessions

\* A marked pass leaves a session.
LEMMA WithPassType ==
  ASSUME NEW s \in Sessions, NEW out,
         out.spheres \in Seq(Nat), out.born \in Nat, out.temperature \in Nat
  PROVE  WithPass(s, out) \in Sessions
<1>1. [i \in 1..Len(out.spheres) |-> 0] \in Seq(Nat)
  <2>1. Len(out.spheres) \in Nat
    BY LenProperties
  <2>2. [i \in 1..Len(out.spheres) |-> 0] \in [1..Len(out.spheres) -> Nat]
    OBVIOUS
  <2> QED
    BY <2>1, <2>2, FunctionIsSeq
<1> DEFINE fresh == [i \in 1..Len(out.spheres) |-> 0]
           moments == IF out.removed > 0 THEN fresh ELSE s.moments
<1>2. moments \in Seq(Nat) /\ s.iteration \in Nat /\ s.passes + 1 \in Nat
  BY <1>1 DEF Sessions
<1>3. WithPass(s, out) = [s EXCEPT !.spheres = out.spheres, !.born = out.born,
                                   !.temperature = out.temperature,
                                   !.lastPass = s.iteration,
                                   !.passes = s.passes + 1, !.moments = moments]
  BY DEF WithPass
<1> HIDE DEF moments
<1> QED
  BY <1>2, <1>3 DEF Sessions

\* Counting an iteration leaves a session.
LEMMA EndedType ==
  ASSUME NEW s \in Sessions, NEW converged \in BOOLEAN, NEW fired \in BOOLEAN,
         NEW removed \in Nat, NEW bad \in SUBSET Nat
  PROVE  LET r == Ended(s, converged, fired, removed, bad)
         IN  r \in Sessions /\ r.last \in StepInfos
<1> DEFINE state == IF converged THEN "converged"
                    ELSE IF s.iteration + 1 >= Iterations THEN "completed"
                    ELSE "running"
           done == state # "running"
           last == [iteration |-> s.iteration, fired |-> fired,
                    removed |-> removed, bad |-> bad, done |-> done,
                    converged |-> converged]
<1>1. state \in States /\ done \in BOOLEAN
  BY DEF States
<1>2. s.iteration \in Nat /\ s.iteration + 1 \in Nat
  BY DEF Sessions
<1>3. Ended(s, converged, fired, removed, bad)
        = [s EXCEPT !.state = state, !.iteration = s.iteration + 1, !.last = last]
  BY DEF Ended
<1> HIDE DEF state, done
<1>4. last \in StepInfos
  BY <1>1, <1>2 DEF StepInfos
<1> HIDE DEF last
<1> QED
  BY <1>1, <1>2, <1>3, <1>4 DEF Sessions

(***************************************************************************)
(* A step, field by field.                                                 *)
(***************************************************************************)
Unpassed(s, r, converged) ==
  /\ r.spheres = s.spheres
  /\ r.moments = s.spheres
  /\ r.born = s.born
  /\ r.temperature = s.temperature
  /\ r.lastPass = s.lastPass
  /\ r.passes = s.passes
  /\ r.last.fired = FALSE

Passed(s, r, converged, out) ==
  /\ r.spheres = out.spheres
  /\ r.moments = IF out.removed > 0 THEN [i \in 1..Len(out.spheres) |-> 0]
                 ELSE s.spheres
  /\ r.born = out.born
  /\ r.temperature = out.temperature
  /\ r.lastPass = s.iteration
  /\ r.passes = s.passes + 1
  /\ r.last.fired = TRUE
  /\ r.last.removed = out.removed
  /\ r.last.bad = out.bad

StepEnd(s, r, converged) ==
  /\ r.state = IF converged THEN "converged"
               ELSE IF s.iteration + 1 >= Iterations THEN "completed"
               ELSE "running"
  /\ r.iteration = s.iteration + 1
  /\ r.pruned = s.pruned
  /\ r.last.iteration = s.iteration
  /\ r.last.done = (r.state # "running")
  /\ r.last.converged = converged

\* What one step does to each field of a session.
LEMMA StepFields ==
  ASSUME NEW s \in Sessions, s.spheres # <<>>, NEW r \in StepResults(s)
  PROVE  /\ r \in Sessions
         /\ Len(r.spheres) = Len(s.spheres)
         /\ r.spheres # <<>>
         /\ r.last \in StepInfos
         /\ \E converged \in ConvergenceVerdicts(s) :
              /\ StepEnd(s, r, converged)
              /\ \/ FALSE \in PassVerdicts(s, converged) /\ Unpassed(s, r, converged)
                 \/ /\ TRUE \in PassVerdicts(s, converged)
                    /\ \E out \in Repacks(s.spheres, s.born, s.temperature) :
                         Passed(s, r, converged, out)
<1>1. PICK converged \in ConvergenceVerdicts(s) :
        \/ PlainStep(s, r, converged)
        \/ \E out : PassedStep(s, r, converged, out)
  BY StepCases
<1>2. /\ s.spheres \in Seq(Nat) /\ s.born \in Nat /\ s.temperature \in Nat
      /\ s.iteration \in Nat /\ s.passes \in Nat
  BY DEF Sessions
<1>3. converged \in BOOLEAN
  BY VerdictTypes
<1>4. CASE PlainStep(s, r, converged)
  <2>1. r = Ended(Trained(s), converged, FALSE, 0, {})
    BY <1>4 DEF PlainStep
  <2>2. StepEnd(s, r, converged) /\ Unpassed(s, r, converged)
    BY <2>1 DEF Ended, Trained, StepEnd, Unpassed, Sessions
  <2>3. r \in Sessions /\ r.last \in StepInfos
    BY <1>3, <2>1, TrainedType, EndedType
  <2> QED
    BY <1>4, <2>2, <2>3 DEF PlainStep, Unpassed
<1>5. CASE \E out : PassedStep(s, r, converged, out)
  <2>1. PICK out : PassedStep(s, r, converged, out)
    BY <1>5
  <2>2. /\ out \in Repacks(s.spheres, s.born, s.temperature)
        /\ r = Ended(WithPass(Trained(s), out), converged, TRUE, out.removed, out.bad)
        /\ TRUE \in PassVerdicts(s, converged)
    BY <2>1 DEF PassedStep
  <2>3. /\ out.spheres \in Seq(Nat)
        /\ Len(out.spheres) = Len(s.spheres)
        /\ out.born \in Nat
        /\ out.temperature \in Nat
        /\ out.removed \in Nat
        /\ out.bad \in SUBSET Nat
    BY <1>2, <2>2, RepackType
  <2>4. StepEnd(s, r, converged) /\ Passed(s, r, converged, out)
    BY <2>2 DEF Ended, WithPass, Trained, StepEnd, Passed, Sessions
  <2>5. WithPass(Trained(s), out) \in Sessions
    BY <2>3, TrainedType, WithPassType
  <2>6. r \in Sessions /\ r.last \in StepInfos
    BY <1>3, <2>2, <2>3, <2>5, EndedType
  <2>7. out.spheres # <<>>
    BY <1>2, <2>3, EmptySeq
  <2> QED
    BY <2>2, <2>3, <2>4, <2>6, <2>7 DEF Passed
<1> QED
  BY <1>1, <1>4, <1>5
-----------------------------------------------------------------------------
(***************************************************************************)
(* The final prune always keeps somebody, and keeps nobody twice.          *)
(***************************************************************************)
LEMMA SurvivorsNonempty ==
  ASSUME NEW n, NEW keep \in Survivors(n)
  PROVE  keep # {}
<1>1. \A in \in SUBSET (1..n) : (IF in = {} THEN {1} ELSE in) # {}
  OBVIOUS
<1> QED
  BY <1>1 DEF Survivors

\* A selection of the final prune is increasing and never empty.
LEMMA SelectionFacts ==
  ASSUME NEW n \in Nat, NEW p \in Selections(n)
  PROVE  \E m \in 1..n :
           /\ p \in [1..m -> 1..n]
           /\ DOMAIN p = 1..m
           /\ Cardinality(DOMAIN p) = m
           /\ \A i, j \in 1..m : p[i] = p[j] => i = j
<1>1. PICK m \in 0..n : p \in [1..m -> 1..n]
  BY DEF Selections
<1>2. /\ \A i, j \in 1..m : i < j => p[i] < p[j]
      /\ Range(p) \in Survivors(n)
  BY <1>1 DEF Selections
<1>3. m # 0
  <2> SUFFICES ASSUME m = 0 PROVE FALSE
    OBVIOUS
  <2>1. DOMAIN p = {}
    BY <1>1
  <2>2. Range(p) = {}
    BY <2>1 DEF Range
  <2> QED
    BY <1>2, <2>2, SurvivorsNonempty
<1>4. ASSUME NEW i \in 1..m, NEW j \in 1..m, p[i] = p[j]
      PROVE  i = j
  <2>1. p[i] \in 1..n /\ p[j] \in 1..n
    BY <1>1
  <2>2. ~(i < j) /\ ~(j < i)
    BY <1>2, <1>4, <2>1
  <2> QED
    BY <2>2
<1>5. m \in 1..n /\ m \in Nat
  BY <1>3
<1>6. DOMAIN p = 1..m /\ Cardinality(1..m) = m
  BY <1>1, <1>5, IntervalSize
<1> QED
  BY <1>1, <1>4, <1>5, <1>6

(***************************************************************************)
(* A finalize, field by field.                                             *)
(***************************************************************************)
LEMMA FinalizeFields ==
  ASSUME NEW s \in Sessions, s.spheres # <<>>, NEW r \in FinalizeResults(s)
  PROVE  /\ r \in Sessions
         /\ r.spheres # <<>>
         /\ r.state = "finalized"
         /\ r.iteration = s.iteration
         /\ r.passes = s.passes
         /\ r.lastPass = s.lastPass
         /\ r.born = s.born
         /\ r.last = s.last
         /\ s.state = "finalized" => r = s
         /\ s.state # "finalized" =>
              /\ Len(r.spheres) \in 1..Len(s.spheres)
              /\ r.pruned = Len(s.spheres) - Len(r.spheres)
         /\ Placed(s.spheres, s.born) => Placed(r.spheres, r.born)
<1>1. CASE s.state = "finalized"
  BY <1>1 DEF FinalizeResults
<1>2. CASE s.state # "finalized"
  <2> DEFINE n == Len(s.spheres)
  <2>1. /\ n \in Nat
        /\ s.spheres \in Seq(Nat)
        /\ DOMAIN s.spheres = 1..n
        /\ \A i \in 1..n : s.spheres[i] \in Nat
    BY LenProperties DEF Sessions
  <2>2. PICK p \in Selections(n) :
          r = [s EXCEPT !.spheres = [i \in DOMAIN p |-> s.spheres[p[i]]],
                        !.pruned  = n - Cardinality(DOMAIN p),
                        !.state   = "finalized"]
    BY <1>2 DEF FinalizeResults
  <2>3. PICK m \in 1..n :
          /\ p \in [1..m -> 1..n]
          /\ DOMAIN p = 1..m
          /\ Cardinality(DOMAIN p) = m
          /\ \A i, j \in 1..m : p[i] = p[j] => i = j
    BY <2>1, SelectionFacts
  <2> DEFINE kept == [i \in 1..m |-> s.spheres[p[i]]]
  <2>4. r = [s EXCEPT !.spheres = kept, !.pruned = n - m, !.state = "finalized"]
    BY <2>2, <2>3
  <2>5. kept \in [1..m -> Nat]
    BY <2>1, <2>3
  <2> HIDE DEF n, kept
  <2>6. kept \in Seq(Nat) /\ Len(kept) = m /\ DOMAIN kept = 1..m
    <3>1. m \in Nat
      BY <2>1
    <3> QED
      BY <2>5, <3>1, FunctionIsSeq
  <2>7. kept # <<>> /\ n - m \in Nat
    BY <2>1, <2>3, <2>6
  <2>8. r \in Sessions
    BY <2>4, <2>6, <2>7 DEF Sessions, States
  <2>9. /\ r.spheres = kept
        /\ r.pruned = n - m
        /\ r.state = "finalized"
        /\ r.iteration = s.iteration
        /\ r.passes = s.passes
        /\ r.lastPass = s.lastPass
        /\ r.born = s.born
        /\ r.last = s.last
    BY <2>4 DEF Sessions
  <2>10. ASSUME Placed(s.spheres, s.born)
         PROVE  Placed(kept, s.born)
    <3>1. /\ \A i \in 1..n : s.spheres[i] \in 1..s.born
          /\ \A i, j \in 1..n : s.spheres[i] = s.spheres[j] => i = j
      BY <2>1, <2>10 DEF Placed, IsInjective, n
    <3>2. ASSUME NEW i \in 1..m
          PROVE  kept[i] = s.spheres[p[i]] /\ p[i] \in 1..n
      BY <2>3 DEF kept
    <3>3. ASSUME NEW i \in 1..m, NEW j \in 1..m, kept[i] = kept[j]
          PROVE  i = j
      <4>1. p[i] = p[j]
        BY <3>1, <3>2, <3>3, SMTT(30)
      <4> QED
        BY <2>3, <4>1
    <3> QED
      BY <2>6, <3>1, <3>2, <3>3 DEF Placed, IsInjective
  <2> QED
    BY <1>2, <2>3, <2>6, <2>7, <2>8, <2>9, <2>10 DEF n
<1> QED
  BY <1>1, <1>2

(***************************************************************************)
(* A new session.                                                          *)
(***************************************************************************)
LEMMA NewSessionFields ==
  ASSUME NEW n \in StartCounts
  PROVE  LET s == NewSession(n)
         IN  /\ s \in Sessions
             /\ s.spheres # <<>>
             /\ Len(s.spheres) = n
             /\ s.moments = [i \in 1..n |-> 0]
             /\ Placed(s.spheres, s.born)
<1> DEFINE spheres == [i \in 1..n |-> i]
           moments == [i \in 1..n |-> 0]
<1>1. n \in Nat /\ n > 0
  BY ConstantTypes
<1>2. spheres \in [1..n -> Nat] /\ moments \in [1..n -> Nat]
  BY <1>1
<1>3. \A i \in 1..n : spheres[i] = i
  OBVIOUS
<1> HIDE DEF spheres, moments
<1>4. /\ spheres \in Seq(Nat) /\ Len(spheres) = n /\ DOMAIN spheres = 1..n
      /\ moments \in Seq(Nat)
  BY <1>1, <1>2, FunctionIsSeq
<1>5. spheres # <<>>
  BY <1>1, <1>4
<1>6. Placed(spheres, n)
  BY <1>1, <1>3, <1>4 DEF Placed, IsInjective
<1>7. NewSession(n)
        = [state |-> IF Iterations = 0 THEN "completed" ELSE "running",
           iteration |-> 0, spheres |-> spheres, born |-> n,
           moments |-> moments, lastPass |-> 0,
           temperature |-> InitialTemperature, passes |-> 0, pruned |-> 0,
           last |-> NoStep]
  BY DEF NewSession, spheres, moments
<1>8. NewSession(n) \in Sessions
  BY <1>1, <1>4, <1>7 DEF Sessions, States, InitialTemperature
<1> QED
  BY <1>4, <1>5, <1>6, <1>7, <1>8 DEF moments
-----------------------------------------------------------------------------
(***************************************************************************)
(* The steps of SessionProgress from view v to view w.                     *)
(***************************************************************************)
Advances(v, w) ==
  /\ v.state = "running"
  /\ \/ w = [state |-> "converged", iteration |-> v.iteration + 1,
             count |-> v.count, passes |-> v.passes, pruned |-> v.pruned]
     \/ \E fired \in {0, 1} :
          w = [state |-> IF v.iteration + 1 >= Iterations
                         THEN "completed" ELSE "running",
               iteration |-> v.iteration + 1, count |-> v.count,
               passes |-> v.passes + fired, pruned |-> v.pruned]

Prunes(v, w) ==
  /\ v.state # "finalized"
  /\ \E kept \in 1..v.count :
       w = [state |-> "finalized", iteration |-> v.iteration, count |-> kept,
            passes |-> v.passes, pruned |-> v.count - kept]

(***************************************************************************)
(* A step of the session, seen from outside: one iteration more, the same  *)
(* number of spheres.                                                      *)
(***************************************************************************)
LEMMA StepIsAdvance ==
  ASSUME NEW s \in Sessions, s.spheres # <<>>, ~IsDone(s),
         NEW r \in StepResults(s)
  PROVE  Advances(ViewOf(s), ViewOf(r))
<1>1. PICK converged \in ConvergenceVerdicts(s) :
        /\ StepEnd(s, r, converged)
        /\ \/ FALSE \in PassVerdicts(s, converged) /\ Unpassed(s, r, converged)
           \/ /\ TRUE \in PassVerdicts(s, converged)
              /\ \E out \in Repacks(s.spheres, s.born, s.temperature) :
                   Passed(s, r, converged, out)
  BY StepFields
<1>2. Len(r.spheres) = Len(s.spheres)
  BY StepFields
<1>3. s.passes \in Nat /\ converged \in BOOLEAN
  BY VerdictTypes DEF Sessions
<1>4. /\ r.state = IF converged THEN "converged"
                   ELSE IF s.iteration + 1 >= Iterations THEN "completed"
                   ELSE "running"
      /\ r.iteration = s.iteration + 1
      /\ r.pruned = s.pruned
  BY <1>1 DEF StepEnd
<1>5. \E fired \in {0, 1} : r.passes = s.passes + fired /\ (converged => fired = 0)
  <2>1. CASE Unpassed(s, r, converged)
    <3>1. r.passes = s.passes + 0
      BY <1>3, <2>1 DEF Unpassed
    <3> QED
      BY <3>1
  <2>2. CASE /\ TRUE \in PassVerdicts(s, converged)
             /\ \E out \in Repacks(s.spheres, s.born, s.temperature) :
                  Passed(s, r, converged, out)
    <3>1. r.passes = s.passes + 1
      BY <2>2 DEF Passed
    <3>2. ~converged
      BY <2>2, VerdictTypes
    <3> QED
      BY <3>1, <3>2
  <2> QED
    BY <1>1, <2>1, <2>2
<1> QED
  BY <1>2, <1>3, <1>4, <1>5 DEF ViewOf, IsDone, Advances

(***************************************************************************)
(* A finalize, seen from outside: one prune, or nothing.                   *)
(***************************************************************************)
LEMMA FinalizeIsPrune ==
  ASSUME NEW s \in Sessions, s.spheres # <<>>, NEW r \in FinalizeResults(s)
  PROVE  ViewOf(r) = ViewOf(s) \/ Prunes(ViewOf(s), ViewOf(r))
<1>1. /\ r.state = "finalized"
      /\ r.iteration = s.iteration
      /\ r.passes = s.passes
      /\ s.state = "finalized" => r = s
      /\ s.state # "finalized" =>
           /\ Len(r.spheres) \in 1..Len(s.spheres)
           /\ r.pruned = Len(s.spheres) - Len(r.spheres)
  BY FinalizeFields
<1> QED
  BY <1>1 DEF ViewOf, Prunes
=============================================================================
