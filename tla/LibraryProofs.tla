--------------------------- MODULE LibraryProofs ----------------------------
(***************************************************************************)
(* What the sequential parts of the library guarantee, for any packages,   *)
(* configs, updates and numbers of spheres.                                *)
(*                                                                         *)
(* A session runs what was asked for.  ConfigInv says that a config is the *)
(* one that was made with what was accepted since on top; apply_updates_   *)
(* json is a loop, which the model writes as a fold, so this rests on      *)
(* lemmas about folds: there is one (FoldExists), only one (FoldIsOnly),   *)
(* and after each update the config has the value last asked for           *)
(* (SetAllMeans).                                                          *)
(*                                                                         *)
(* A package in memory finds the files a directory would.  The resolvers   *)
(* are folds over the parts of a path (JoinLexicalIs, DiskWalkIs); part by *)
(* part the lexical path is where the walk is, or the walk has failed and  *)
(* nothing of the package is below the lexical path (Agree).  KeysInv says *)
(* that the keys of a package are names that can be walked.                *)
(*                                                                         *)
(* Assembling loses no collision geometry.  That is so because a report,   *)
(* fresh or kept by a C host, always describes the text it was made from:  *)
(* one item for each collision, under the collision's link name and its    *)
(* number there (Describes).  PackageInv says so of the report that is     *)
(* kept, and that recorded results are numbers of spheres.                 *)
(*                                                                         *)
(* An assembled robot has its spheres where they were packed.  A search    *)
(* of joints ends, as every link is placed once (SearchEnds); the search   *)
(* of the assembled robot is that of the URDF with spheres in between,     *)
(* which place nothing (SearchAgrees); every joint from a link that was    *)
(* reached has placed its child, or another joint has (SearchReaches); and *)
(* moving a point by the pose of a collision is moving it into the link    *)
(* and then with the link (MovedTwice).                                    *)
(*                                                                         *)
(* A prepared mesh can be trusted.  The walk over the faces of a body only *)
(* turns faces, so where it has been says which are turned, and faces seen *)
(* agree with a way to close the body if there is one (Coherent); it gets  *)
(* through the body since every step takes a face (Progress).  Turning all *)
(* faces negates the volume (VolumeReversed), a sum over a set whatever    *)
(* order it is taken in (SummingExists), and a hull is closed and wound    *)
(* outward (HullIsClosed).                                                 *)
(***************************************************************************)
EXTENDS MCLibrary, FiniteSetTheorems, SequenceTheorems, WellFoundedInduction, TLAPS

-----------------------------------------------------------------------------
(***************************************************************************)
(* Folds.  FoldLeft is defined by a recursive function on the sets of      *)
(* places of a sequence, which takes the last one away; that there is one  *)
(* is shown here, for accumulators of some set.                            *)
(***************************************************************************)
\* Induction, as a statement about a set of numbers.
LEMMA Induction ==
  ASSUME NEW S \in SUBSET Nat, 0 \in S, \A n \in S : n + 1 \in S
  PROVE  \A n \in Nat : n \in S
<1> SUFFICES ASSUME NEW k \in Nat \ S PROVE FALSE
  OBVIOUS
<1> DEFINE Less == OpToRel(<, Nat)
<1>1. Less = {ss \in Nat \X Nat : ss[1] < ss[2]}
  BY DEF OpToRel
<1>2. IsWellFoundedOn(Less, Nat)
  BY NatLessThanWellFounded
<1> HIDE DEF Less
<1>3. PICK m \in Nat \ S : \A l \in Nat \ S : ~ (<<l, m>> \in Less)
  <2>1. Nat \ S \in SUBSET Nat /\ Nat \ S # {}
    OBVIOUS
  <2> QED
    BY <1>2, <2>1, WFMin
<1>4. m # 0 /\ m - 1 \in Nat
  OBVIOUS
<1>5. <<m - 1, m>> \in Less
  BY <1>1, <1>4
<1>6. m - 1 \in S
  BY <1>3, <1>4, <1>5
<1> QED
  BY <1>4, <1>6

LEMMA MaxIs ==
  ASSUME NEW n \in Nat, NEW T \in SUBSET (1..n), T # {}
  PROVE  Max(T) \in T /\ \A y \in T : Max(T) >= y
<1> DEFINE HasMax(S) == \E x \in S : \A y \in S : x >= y
           Good == {k \in Nat : \A S \in SUBSET (1..k) : S # {} => HasMax(S)}
<1>1. 0 \in Good
  <2>1. 1..0 = {}
    OBVIOUS
  <2>2. \A S \in SUBSET {} : S = {}
    OBVIOUS
  <2> QED
    BY <2>1, <2>2
<1>2. ASSUME NEW k \in Good PROVE k + 1 \in Good
  <2>1. k \in Nat /\ k + 1 \in Nat /\ \A S \in SUBSET (1..k) : S # {} => HasMax(S)
    OBVIOUS
  <2>2. ASSUME NEW S \in SUBSET (1..(k + 1)), S # {}
        PROVE  HasMax(S)
    <3>1. CASE k + 1 \in S
      BY <2>1, <3>1
    <3>2. CASE k + 1 \notin S
      <4>1. S \in SUBSET (1..k)
        BY <2>1, <3>2
      <4> QED
        BY <2>1, <2>2, <4>1
    <3> QED
      BY <3>1, <3>2
  <2> HIDE DEF HasMax
  <2> QED
    BY <2>1, <2>2
<1>3. Good \in SUBSET Nat
  OBVIOUS
<1> HIDE DEF Good
<1>4. n \in Good
  BY <1>1, <1>2, <1>3, Induction
<1>5. HasMax(T)
  BY <1>4 DEF Good
<1> QED
  BY <1>5 DEF Max

LEMMA MaxOfPrefix ==
  ASSUME NEW n \in Nat, NEW i \in 1..n
  PROVE  1..i \in SUBSET (1..n) /\ Max(1..i) = i /\ (1..i) \ {Max(1..i)} = 1..(i - 1)
<1>1. i \in Nat /\ 1..i \in SUBSET (1..n) /\ 1..i # {} /\ i \in 1..i
  OBVIOUS
<1>2. Max(1..i) \in 1..i /\ \A y \in 1..i : Max(1..i) >= y
  BY <1>1, MaxIs
<1>3. Max(1..i) = i
  BY <1>1, <1>2
<1>4. (1..i) \ {i} = 1..(i - 1)
  BY <1>1
<1> QED
  BY <1>1, <1>3, <1>4

IsFold(g, n, Acc, base, step) ==
  /\ g \in [SUBSET (1..n) -> Acc]
  /\ \A T \in SUBSET (1..n) :
       g[T] = IF T = {} THEN base ELSE step[<<g[T \ {Max(T)}], Max(T)>>]

LEMMA FoldExists ==
  ASSUME NEW n \in Nat, NEW Acc, NEW base \in Acc, NEW step \in [Acc \X (1..n) -> Acc]
  PROVE  \E g : IsFold(g, n, Acc, base, step)
<1> DEFINE Within(m) == {T \in SUBSET (1..n) : T \in SUBSET (1..m)}
           Stepped(g, T) == IF T = {} THEN base ELSE step[<<g[T \ {Max(T)}], Max(T)>>]
           Folds(g, m) == g \in [Within(m) -> Acc] /\ \A T \in Within(m) : g[T] = Stepped(g, T)
           Good == {m \in Nat : \E g : Folds(g, m)}
<1>1. 0 \in Good
  <2> DEFINE g0 == [T \in Within(0) |-> base]
  <2>1. \A T \in Within(0) : T = {}
    OBVIOUS
  <2>2. Folds(g0, 0)
    BY <2>1
  <2> HIDE DEF Folds, g0
  <2> QED
    BY <2>2
<1>2. ASSUME NEW m \in Good PROVE m + 1 \in Good
  <2>1. m \in Nat
    OBVIOUS
  <2>2. PICK g : Folds(g, m)
    OBVIOUS
  <2>3. ASSUME NEW T \in Within(m + 1), T # {}
        PROVE  Max(T) \in 1..n /\ T \ {Max(T)} \in Within(m)
    <3>1. Max(T) \in T /\ \A y \in T : Max(T) >= y
      BY <2>3, MaxIs
    <3>0. T \in SUBSET (1..(m + 1)) /\ T \in SUBSET (1..n) /\ T \in SUBSET Nat
      OBVIOUS
    <3>2. ASSUME NEW y \in T, y # Max(T) PROVE y \in 1..m
      <4>1. Max(T) \in 1..(m + 1) /\ y \in 1..(m + 1) /\ Max(T) >= y
        BY <3>0, <3>1
      <4> QED
        BY <2>1, <3>2, <4>1
    <3> QED
      BY <3>0, <3>1, <3>2
  <2>4. Within(m) \in SUBSET Within(m + 1)
    BY <2>1
  <2> HIDE DEF Within
  <2> DEFINE h == [T \in Within(m + 1) |-> Stepped(g, T)]
  <2>5. h \in [Within(m + 1) -> Acc]
    <3> SUFFICES ASSUME NEW T \in Within(m + 1) PROVE Stepped(g, T) \in Acc
      OBVIOUS
    <3>1. T # {} => <<g[T \ {Max(T)}], Max(T)>> \in Acc \X (1..n)
      BY <2>2, <2>3
    <3> QED
      BY <3>1
  <2>6. \A T \in Within(m) : h[T] = g[T]
    BY <2>2, <2>4
  <2>7. \A T \in Within(m + 1) : h[T] = Stepped(h, T)
    BY <2>3, <2>6
  <2>8. Folds(h, m + 1)
    BY <2>5, <2>7
  <2> HIDE DEF h, Folds
  <2> QED
    BY <2>1, <2>8
<1>3. Good \in SUBSET Nat
  OBVIOUS
<1> HIDE DEF Good
<1>4. n \in Good
  BY <1>1, <1>2, <1>3, Induction
<1>5. PICK g : Folds(g, n)
  BY <1>4 DEF Good
<1>6. Within(n) = SUBSET (1..n)
  OBVIOUS
<1> HIDE DEF Within
<1>7. IsFold(g, n, Acc, base, step)
  BY <1>5, <1>6 DEF IsFold
<1> QED
  BY <1>7

\* It is the only one: whatever takes these steps from values of Acc is it.
TakesSteps(h, n, Acc, base, step) ==
  /\ h[{}] = base
  /\ \A T \in SUBSET (1..n) : T # {} /\ h[T \ {Max(T)}] \in Acc =>
       h[T] = step[<<h[T \ {Max(T)}], Max(T)>>]

LEMMA FoldIsOnly ==
  ASSUME NEW n \in Nat, NEW Acc, NEW base, NEW step, NEW g, IsFold(g, n, Acc, base, step),
         NEW h, TakesSteps(h, n, Acc, base, step)
  PROVE  \A T \in SUBSET (1..n) : h[T] = g[T] /\ h[T] \in Acc
<1> DEFINE Good == {m \in Nat : \A T \in SUBSET (1..n) :
                                  T \in SUBSET (1..m) => h[T] = g[T] /\ h[T] \in Acc}
<1>0. /\ g[{}] = base /\ \A T \in SUBSET (1..n) : g[T] \in Acc
      /\ \A T \in SUBSET (1..n) : T # {} => g[T] = step[<<g[T \ {Max(T)}], Max(T)>>]
  <2>1. {} \in SUBSET (1..n)
    OBVIOUS
  <2> QED
    BY <2>1 DEF IsFold
<1>1. 0 \in Good
  <2>1. \A T \in SUBSET (1..0) : T = {}
    OBVIOUS
  <2>2. {} \in SUBSET (1..n)
    OBVIOUS
  <2> QED
    BY <1>0, <2>1, <2>2 DEF TakesSteps
<1>2. ASSUME NEW m \in Good PROVE m + 1 \in Good
  <2>1. m \in Nat /\ m + 1 \in Nat
    OBVIOUS
  <2>2. ASSUME NEW T \in SUBSET (1..n), T \in SUBSET (1..(m + 1)), T # {}
        PROVE  T \ {Max(T)} \in SUBSET (1..m) /\ T \ {Max(T)} \in SUBSET (1..n)
    <3>1. Max(T) \in T /\ \A y \in T : Max(T) >= y
      BY <2>2, MaxIs
    <3>2. ASSUME NEW y \in T, y # Max(T) PROVE y \in 1..m
      <4>1. Max(T) \in 1..(m + 1) /\ y \in 1..(m + 1) /\ Max(T) >= y
        BY <2>2, <3>1
      <4> QED
        BY <2>1, <3>2, <4>1
    <3> QED
      BY <2>2, <3>2
  <2>3. ASSUME NEW T \in SUBSET (1..n), T \in SUBSET (1..(m + 1))
        PROVE  h[T] = g[T] /\ h[T] \in Acc
    <3>1. CASE T = {}
      BY <1>0, <2>3, <3>1 DEF TakesSteps
    <3>2. CASE T # {}
      <4> DEFINE R == T \ {Max(T)}
      <4>1. R \in SUBSET (1..m) /\ R \in SUBSET (1..n)
        BY <2>2, <2>3, <3>2
      <4>2. h[R] = g[R] /\ h[R] \in Acc
        BY <4>1
      <4> HIDE DEF Good
      <4>3. h[T] = step[<<h[R], Max(T)>>] /\ g[T] = step[<<g[R], Max(T)>>]
        BY <1>0, <3>2, <4>2 DEF TakesSteps
      <4> QED
        BY <1>0, <4>2, <4>3
    <3> QED
      BY <3>1, <3>2
  <2> QED
    BY <2>1, <2>3
<1>3. Good \in SUBSET Nat
  OBVIOUS
<1> HIDE DEF Good
<1>4. n \in Good
  BY <1>1, <1>2, <1>3, Induction
<1> QED
  BY <1>4 DEF Good

-----------------------------------------------------------------------------
(***************************************************************************)
(* Configurations.                                                         *)
(***************************************************************************)
\* What one update of a sequence does to the config, or to the error, before it.
SetNext(next, u) == IF next = Refused THEN Refused ELSE Conf!Set(next, u[1], u[2])

Stored(u) == Conf!Deserialized(Conf!TypeOf[u[1]], Conf!CoerceLike(Conf!TypeOf[u[1]], u[2]))
IsConfig(c) == c = [k \in Conf!Parameters |-> c[k]]

\* apply_updates_json is what its loop does, update by update.
LEMMA SetAllIs ==
  ASSUME NEW c, IsConfig(c), NEW u, IsUpdates(u)
  PROVE  \E after : /\ after[0] = c
                    /\ \A i \in DOMAIN u : after[i] = SetNext(after[i - 1], u[i])
                    /\ Conf!SetAll(c, u) = after[Len(u)]
<1> DEFINE n == Len(u)
           Values == {c[k] : k \in Conf!Parameters} \cup {Stored(u[i]) : i \in 1..n}
           Acc == {Refused} \cup [Conf!Parameters -> Values]
           step == [x \in Acc \X (1..n) |-> SetNext(x[1], u[x[2]])]
           Stepped(g, T) == IF T = {} THEN c ELSE SetNext(g[T \ {Max(T)}], u[Max(T)])
           iter == CHOOSE g : g = [T \in SUBSET (1..n) |-> Stepped(g, T)]
<1>1. n \in Nat /\ DOMAIN u = 1..n
  BY DEF IsUpdates
<1>2. c \in Acc
  BY DEF IsConfig
<1>3. ASSUME NEW a \in Acc, NEW i \in 1..n
      PROVE  SetNext(a, u[i]) \in Acc
  BY DEF SetNext, Conf!Set, Stored
<1>4. step \in [Acc \X (1..n) -> Acc]
  BY <1>3
<1>5. Conf!SetAll(c, u) = iter[1..n]
  <2>1. \A T : Conf!Max(T) = Max(T)
    BY DEF Conf!Max, Max
  <2> QED
    BY <1>1, <2>1 DEF Conf!SetAll, Conf!FoldLeft, Conf!MapThenFoldSet, SetNext
<1> HIDE DEF Acc, step, n
<1>0. n \in Nat
  BY <1>1
<1>6. PICK g : IsFold(g, n, Acc, c, step)
  BY <1>0, <1>2, <1>4, FoldExists
<1>7. \A T \in SUBSET (1..n) : g[T] = Stepped(g, T)
  <2> SUFFICES ASSUME NEW T \in SUBSET (1..n), T # {} PROVE g[T] = Stepped(g, T)
    BY <1>6 DEF IsFold
  <2>1. Max(T) \in 1..n
    BY <1>0, MaxIs
  <2>2. g[T \ {Max(T)}] \in Acc
    BY <1>6 DEF IsFold
  <2> QED
    BY <1>6, <2>1, <2>2 DEF IsFold, step
<1>8. g = [T \in SUBSET (1..n) |-> Stepped(g, T)]
  BY <1>6, <1>7 DEF IsFold
<1>9. iter = [T \in SUBSET (1..n) |-> Stepped(iter, T)]
  BY <1>8
<1> HIDE DEF iter
<1> DEFINE after == [i \in 0..n |-> iter[1..i]]
<1>10. after[0] = c
  <2>1. 1..0 = {} /\ 0 \in 0..n
    BY <1>1
  <2>2. iter[{}] = c
    BY <1>9
  <2> QED
    BY <2>1, <2>2
<1>11. ASSUME NEW i \in 1..n
       PROVE  after[i] = SetNext(after[i - 1], u[i])
  <2>1. 1..i \in SUBSET (1..n) /\ Max(1..i) = i /\ (1..i) \ {Max(1..i)} = 1..(i - 1)
    BY <1>1, MaxOfPrefix
  <2>2. 1..i # {} /\ i \in 0..n /\ i - 1 \in 0..n
    BY <1>0
  <2>3. iter[1..i] = Stepped(iter, 1..i)
    BY <1>9, <2>1
  <2> QED
    BY <2>1, <2>2, <2>3
<1>12. after[n] = iter[1..n]
  BY <1>1
<1> HIDE DEF after
<1> QED
  BY <1>1, <1>5, <1>10, <1>11, <1>12 DEF n

(***************************************************************************)
(* parse_advanced keeps updates of parameters on the allow-list, with      *)
(* values of the request.                                                  *)
(***************************************************************************)
Overridden == {Conf!OverrideMap[k] : k \in DOMAIN Conf!OverrideMap}

LEMMA ParseAdvancedIs ==
  ASSUME NEW a, IsUpdates(a)
  PROVE  Conf!ParseAdvanced(a) \in Seq(Overridden \X {a[i][2] : i \in DOMAIN a})
<1> DEFINE n == Len(a)
           Acc == Seq(Overridden \X {a[i][2] : i \in DOMAIN a})
           Keep(kept, x) == IF x[1] \notin DOMAIN Conf!OverrideMap \/ x[2] = Conf!Null THEN kept
                            ELSE Append(kept, <<Conf!OverrideMap[x[1]], x[2]>>)
           step == [x \in Acc \X (1..n) |-> Keep(x[1], a[x[2]])]
           Stepped(g, T) == IF T = {} THEN <<>> ELSE Keep(g[T \ {Max(T)}], a[Max(T)])
           iter == CHOOSE g : g = [T \in SUBSET (1..n) |-> Stepped(g, T)]
<1>1. n \in Nat /\ DOMAIN a = 1..n
  BY DEF IsUpdates
<1>2. <<>> \in Acc
  OBVIOUS
<1>3. ASSUME NEW kept \in Acc, NEW i \in 1..n
      PROVE  Keep(kept, a[i]) \in Acc
  BY <1>1 DEF Overridden
<1>4. step \in [Acc \X (1..n) -> Acc]
  BY <1>3
<1>5. Conf!ParseAdvanced(a) = iter[1..n]
  <2>1. \A T : Conf!Max(T) = Max(T)
    BY DEF Conf!Max, Max
  <2> QED
    BY <1>1, <2>1 DEF Conf!ParseAdvanced, Conf!FoldLeft, Conf!MapThenFoldSet
<1>0. n \in Nat
  BY <1>1
<1> HIDE DEF Acc, step, n, Keep
<1>6. PICK g : IsFold(g, n, Acc, <<>>, step)
  BY <1>0, <1>2, <1>4, FoldExists
<1>7. \A T \in SUBSET (1..n) : g[T] = Stepped(g, T)
  <2> SUFFICES ASSUME NEW T \in SUBSET (1..n), T # {} PROVE g[T] = Stepped(g, T)
    BY <1>6 DEF IsFold
  <2>1. Max(T) \in 1..n
    BY <1>0, MaxIs
  <2>2. g[T \ {Max(T)}] \in Acc
    BY <1>6 DEF IsFold
  <2> QED
    BY <1>6, <2>1, <2>2 DEF IsFold, step
<1>8. g = [T \in SUBSET (1..n) |-> Stepped(g, T)]
  BY <1>6, <1>7 DEF IsFold
<1>9. iter = [T \in SUBSET (1..n) |-> Stepped(iter, T)]
  BY <1>8
<1> HIDE DEF iter
<1>10. \A T \in SUBSET (1..n) : iter[T] = g[T] /\ iter[T] \in Acc
  <2>1. iter[{}] = <<>>
    BY <1>9
  <2>2. ASSUME NEW T \in SUBSET (1..n), T # {}, iter[T \ {Max(T)}] \in Acc
        PROVE  iter[T] = step[<<iter[T \ {Max(T)}], Max(T)>>]
    <3>1. Max(T) \in 1..n
      BY <1>0, <2>2, MaxIs
    <3> QED
      BY <1>9, <2>2, <3>1 DEF step
  <2>3. TakesSteps(iter, n, Acc, <<>>, step)
    BY <2>1, <2>2 DEF TakesSteps
  <2> QED
    BY <1>0, <1>6, <2>3, FoldIsOnly
<1> QED
  BY <1>5, <1>10 DEF Acc

(***************************************************************************)
(* What is stored is what the value means.                                 *)
(***************************************************************************)
LEMMA StoredIsMeant ==
  ASSUME NEW u, u[1] \in Conf!Parameters, IsJson(u[2]), Stored(u) # Refused
  PROVE  Stored(u) = Conf!Means(u[1], u[2])
<1> DEFINE key == u[1]
           value == u[2]
           type == Conf!TypeOf[key]
           stored == Conf!Deserialized(type, Conf!CoerceLike(type, value))
<1>1. type \in {"uint", "seed", "float", "bool", "string"}
  BY DEF Conf!TypeOf
<1>2. PICK kind \in Kinds : DOMAIN value = {kind} /\ (kind = "null" => value = Conf!Null)
  BY DEF IsJson
<1>3. \A k : Conf!Is(value, k) <=> k = kind
  BY <1>2 DEF Conf!Is
<1>4. (CHOOSE k \in DOMAIN value : TRUE) = kind
  BY <1>2
<1> DEFINE rounded == Conf!Saturated(value.float \div 2)
<1>5. CASE kind = "float" /\ type \in {"uint", "seed"}
  <2>1. CASE value.float % 2 = 0 /\ value.float \in 0..(2 * (U64Max + 1))
    <3>1. Conf!CoerceLike(type, value) = Conf!Integer(rounded)
      BY <1>3, <1>5, <2>1 DEF Conf!CoerceLike
    <3>2. rounded \in 0..U64Max
      BY <2>1, LibraryAssumption DEF Conf!Saturated
    <3> HIDE DEF rounded
    <3> DEFINE whole == Conf!Integer(rounded)
    <3>3. Conf!Is(whole, "int") /\ whole.int = rounded /\ whole # Conf!Null
      BY DEF Conf!Is, Conf!Integer, Conf!Null
    <3> HIDE DEF whole
    <3>4. Conf!Deserialized(type, whole) = rounded
      BY <1>5, <3>2, <3>3 DEF Conf!Deserialized
    <3>5. stored = rounded
      BY <3>1, <3>4 DEF whole
    <3> QED
      BY <1>3, <1>5, <3>5 DEF Stored, Conf!Means, rounded
  <2>2. CASE ~(value.float % 2 = 0 /\ value.float \in 0..(2 * (U64Max + 1)))
    <3>1. Conf!CoerceLike(type, value) = value
      BY <2>2 DEF Conf!CoerceLike
    <3>2. value # Conf!Null
      BY <1>2, <1>5 DEF Conf!Null
    <3>3. stored = Refused
      BY <1>3, <1>5, <3>1, <3>2 DEF Conf!Deserialized
    <3> QED
      BY <3>3 DEF Stored
  <2> QED
    BY <2>1, <2>2
<1>6. CASE ~(kind = "float" /\ type \in {"uint", "seed"})
  <2>1. Conf!CoerceLike(type, value) = value
    BY <1>3, <1>6 DEF Conf!CoerceLike
  <2>2. stored = Conf!Deserialized(type, value) /\ stored # Refused
    BY <2>1 DEF Stored
  <2>3. CASE kind = "int" /\ type = "float"
    BY <1>3, <2>2, <2>3 DEF Stored, Conf!Deserialized, Conf!Means
  <2>4. CASE ~(kind = "int" /\ type = "float")
    <3>1. Conf!Means(key, value) = value[kind]
      BY <1>3, <1>4, <1>6, <2>4 DEF Conf!Means
    <3>2. value = Conf!Null => kind = "null" /\ value[kind] = Conf!NoSeed
      <4>1. DOMAIN Conf!Null = {"null"} /\ Conf!Null["null"] = Conf!NoSeed
        BY DEF Conf!Null
      <4> QED
        BY <1>2, <4>1
    <3>3. stored = value[kind]
      BY <1>1, <1>2, <1>3, <2>2, <2>4, <3>2 DEF Conf!Deserialized
    <3> QED
      BY <3>1, <3>3 DEF Stored
  <2> QED
    BY <2>3, <2>4
<1> QED
  BY <1>5, <1>6

(***************************************************************************)
(* A sequence of updates that is accepted ends with the value last asked   *)
(* for wherever one was asked for, and with the old value elsewhere.       *)
(***************************************************************************)
LEMMA SetMeans ==
  ASSUME NEW c, IsConfig(c), NEW u, IsJson(u[2]), Conf!Set(c, u[1], u[2]) # Refused
  PROVE  /\ u[1] \in Conf!Parameters
         /\ Conf!Set(c, u[1], u[2]) =
              [k \in Conf!Parameters |-> IF k = u[1] THEN Conf!Means(u[1], u[2]) ELSE c[k]]
<1>1. u[1] \in Conf!Parameters
  BY DEF Conf!Set
<1>2. /\ Stored(u) # Refused
      /\ Conf!Set(c, u[1], u[2]) = [c EXCEPT ![u[1]] = Stored(u)]
  BY <1>1 DEF Conf!Set, Stored
<1>3. Stored(u) = Conf!Means(u[1], u[2])
  BY <1>1, <1>2, StoredIsMeant
<1> QED
  BY <1>1, <1>2, <1>3 DEF IsConfig

LEMMA SetAllMeans ==
  ASSUME NEW c, IsConfig(c), NEW u, IsUpdates(u), Conf!SetAll(c, u) # Refused
  PROVE  /\ DOMAIN Conf!Asks(u) \in SUBSET Conf!Parameters
         /\ Conf!SetAll(c, u) = Conf!Over(Conf!Asks(u), c)
<1> DEFINE n == Len(u)
           Asking(k, i) == {j \in 1..i : u[j][1] = k}
           Value(k, i) == IF Asking(k, i) = {} THEN c[k]
                          ELSE Conf!Means(k, u[Max(Asking(k, i))][2])
<1>1. n \in Nat /\ DOMAIN u = 1..n /\ \A i \in 1..n : IsJson(u[i][2])
  BY DEF IsUpdates
<1>2. PICK after : /\ after[0] = c
                   /\ \A i \in DOMAIN u : after[i] = SetNext(after[i - 1], u[i])
                   /\ Conf!SetAll(c, u) = after[Len(u)]
  BY SetAllIs
<1> DEFINE Holds(i) == after[i] # Refused =>
             /\ \A j \in 1..i : u[j][1] \in Conf!Parameters
             /\ after[i] = [k \in Conf!Parameters |-> Value(k, i)]
           Good == {i \in Nat : i <= n => Holds(i)}
<1>3. 0 \in Good
  <2>1. 1..0 = {}
    OBVIOUS
  <2>2. \A k : Asking(k, 0) = {}
    BY <2>1
  <2>3. after[0] = [k \in Conf!Parameters |-> Value(k, 0)]
    BY <1>2, <2>2 DEF IsConfig
  <2> QED
    BY <2>1, <2>3
<1>4. ASSUME NEW i \in Good PROVE i + 1 \in Good
  <2>1. i \in Nat /\ i + 1 \in Nat
    OBVIOUS
  <2> SUFFICES ASSUME i + 1 <= n, after[i + 1] # Refused
               PROVE  /\ \A j \in 1..(i + 1) : u[j][1] \in Conf!Parameters
                      /\ after[i + 1] = [k \in Conf!Parameters |-> Value(k, i + 1)]
    BY <2>1
  <2> DEFINE x == u[i + 1]
  <2>2. i + 1 \in 1..n /\ (i + 1) - 1 = i
    BY <1>1, <2>1
  <2>3. after[i + 1] = SetNext(after[i], x) /\ IsJson(x[2])
    BY <1>1, <1>2, <2>2
  <2>4. after[i] # Refused /\ after[i + 1] = Conf!Set(after[i], x[1], x[2])
    BY <2>3 DEF SetNext
  <2>5. /\ \A j \in 1..i : u[j][1] \in Conf!Parameters
        /\ after[i] = [k \in Conf!Parameters |-> Value(k, i)]
    BY <1>1, <2>1, <2>4
  <2>6. IsConfig(after[i])
    <3> HIDE DEF Value
    <3> QED
      BY <2>5 DEF IsConfig
  <2>7. /\ x[1] \in Conf!Parameters
        /\ after[i + 1] = [k \in Conf!Parameters |->
                             IF k = x[1] THEN Conf!Means(x[1], x[2]) ELSE after[i][k]]
    BY <2>3, <2>4, <2>6, SetMeans
  <2>8. \A j \in 1..(i + 1) : u[j][1] \in Conf!Parameters
    BY <2>1, <2>5, <2>7
  <2>9. ASSUME NEW k \in Conf!Parameters
        PROVE  Value(k, i + 1) = IF k = x[1] THEN Conf!Means(x[1], x[2]) ELSE Value(k, i)
    <3>1. CASE k = x[1]
      <4>1. i + 1 \in Asking(k, i + 1) /\ Asking(k, i + 1) \in SUBSET (1..(i + 1))
        BY <2>1, <3>1
      <4> DEFINE m == Max(Asking(k, i + 1))
      <4>2. m \in Asking(k, i + 1) /\ m >= i + 1
        BY <2>1, <4>1, MaxIs
      <4>3. m = i + 1
        BY <2>1, <4>1, <4>2
      <4> QED
        BY <3>1, <4>1, <4>3
    <3>2. CASE k # x[1]
      <4>1. Asking(k, i + 1) = Asking(k, i)
        BY <2>1, <3>2
      <4> QED
        BY <3>2, <4>1
    <3> QED
      BY <3>1, <3>2
  <2> HIDE DEF Value, x
  <2>10. \A k \in Conf!Parameters : after[i][k] = Value(k, i)
    BY <2>5
  <2> QED
    BY <2>7, <2>8, <2>9, <2>10
<1>5. Good \in SUBSET Nat
  OBVIOUS
<1> HIDE DEF Good
<1>6. n \in Good
  BY <1>1, <1>3, <1>4, <1>5, Induction
<1>7. Holds(n)
  BY <1>1, <1>6 DEF Good
<1> DEFINE asks == Conf!Asks(u)
<1>8. /\ DOMAIN asks = {u[j][1] : j \in 1..n}
      /\ \A k \in DOMAIN asks : asks[k] = Conf!Means(k, u[Max(Asking(k, n))][2])
  <2>1. \A T : Conf!Max(T) = Max(T)
    BY DEF Conf!Max, Max
  <2> QED
    BY <1>1, <2>1 DEF Conf!Asks
<1>9. \A k \in Conf!Parameters : k \in DOMAIN asks <=> Asking(k, n) # {}
  BY <1>8
<1>10. DOMAIN asks \in SUBSET Conf!Parameters
  BY <1>2, <1>7, <1>8
<1> HIDE DEF asks
<1>11. Conf!Over(asks, c) = [k \in Conf!Parameters |-> Value(k, n)]
  <2>1. DOMAIN asks \cup DOMAIN c = Conf!Parameters
    BY <1>10 DEF IsConfig
  <2> QED
    BY <1>8, <1>9, <2>1 DEF Conf!Over
<1> QED
  BY <1>2, <1>7, <1>10, <1>11 DEF asks

LEMMA OverIsConfig ==
  ASSUME NEW c, IsConfig(c), NEW done, DOMAIN done \in SUBSET Conf!Parameters
  PROVE  IsConfig(Conf!Over(done, c))
BY DEF IsConfig, Conf!Over

LEMMA OverOver ==
  ASSUME NEW f, NEW g, NEW h
  PROVE  Conf!Over(Conf!Over(f, g), h) = Conf!Over(f, Conf!Over(g, h))
<1>1. /\ DOMAIN Conf!Over(f, g) = DOMAIN f \cup DOMAIN g
      /\ DOMAIN Conf!Over(g, h) = DOMAIN g \cup DOMAIN h
  BY DEF Conf!Over
<1> QED
  BY <1>1 DEF Conf!Over

LEMMA PresetIsConfig ==
  ASSUME NEW preset
  PROVE  IsConfig(Conf!FromPreset(preset))
<1>1. IsConfig(Conf!Default)
  BY DEF IsConfig, Conf!Default
<1> QED
  BY <1>1 DEF IsConfig, Conf!FromPreset

\* A document is a config whatever it says, unless it is refused.
LEMMA DocumentIsConfig ==
  ASSUME NEW document, Conf!FromJson(document) # Refused
  PROVE  IsConfig(Conf!FromJson(document))
BY DEF IsConfig, Conf!FromJson

\* One update asks for its value.
LEMMA AsksOne ==
  ASSUME NEW key, NEW value
  PROVE  Conf!Asks(<<<<key, value>>>>) = [k \in {key} |-> Conf!Means(key, value)]
<1> DEFINE u == <<<<key, value>>>>
<1>1. DOMAIN u = {1} /\ u[1] = <<key, value>>
  OBVIOUS
<1>2. {u[i][1] : i \in {1}} = {key} /\ {i \in {1} : u[i][1] = key} = {1}
  BY <1>1
<1>3. Conf!Max({1}) = 1
  BY DEF Conf!Max
<1> QED
  BY <1>1, <1>2, <1>3 DEF Conf!Asks

(***************************************************************************)
(* A pack request runs what it asks for: the allow-list has none of the    *)
(* parameters that the request sets itself.                                *)
(***************************************************************************)
RequestKeys == {"model.num_spheres", "training.iterations", "random_seed", "model.device"}

LEMMA PacksWhatWasAsked ==
  ASSUME NEW params, IsUpdates(params.advanced), NEW device,
         Conf!PackConfig(params, device) # Refused
  PROVE  LET c == Conf!PackConfig(params, device)
             asks == Conf!AsksToPack(params, device)
         IN  /\ Conf!Validate(c)
             /\ \A k \in DOMAIN asks : c[k] = asks[k]
             /\ c["model.num_spheres"] \in 1..200 /\ c["training.iterations"] \in 1..1000
<1> DEFINE base == [Conf!FromPreset(params.variant) EXCEPT
                      !["model.num_spheres"] = params.num_spheres,
                      !["training.iterations"] = params.iterations, !["model.device"] = device,
                      !["random_seed"] = params.seed]
           over == Conf!ParseAdvanced(params.advanced)
           done == Conf!SetAll(base, over)
           asks == Conf!AsksToPack(params, device)
<1>1. /\ params.num_spheres \in 1..200 /\ params.iterations \in 1..1000
      /\ done # Refused /\ Conf!Validate(done) /\ Conf!PackConfig(params, device) = done
  BY DEF Conf!PackConfig
<1>2. IsConfig(base) /\ \A k \in RequestKeys : base[k] = asks[k]
  <2>1. IsConfig(Conf!FromPreset(params.variant))
    BY PresetIsConfig
  <2>2. RequestKeys \in SUBSET Conf!Parameters
    BY DEF RequestKeys, Conf!Parameters, Conf!Uints
  <2> QED
    BY <2>1, <2>2 DEF IsConfig, RequestKeys, Conf!AsksToPack
<1>3. over \in Seq(Overridden \X {params.advanced[i][2] : i \in DOMAIN params.advanced})
  BY ParseAdvancedIs
<1>4. IsUpdates(over) /\ \A i \in DOMAIN over : over[i][1] \in Overridden
  <2>1. \A i \in DOMAIN over :
          over[i] \in Overridden \X {params.advanced[j][2] : j \in DOMAIN params.advanced}
    BY <1>3
  <2>2. Len(over) \in Nat /\ DOMAIN over = 1..Len(over)
    BY <1>3
  <2> HIDE DEF over
  <2> QED
    BY <2>1, <2>2 DEF IsUpdates
<1>5. \A k \in RequestKeys : k \notin Overridden
  BY DEF RequestKeys, Overridden, Conf!OverrideMap
<1> HIDE DEF base, over
<1>6. done = Conf!Over(Conf!Asks(over), base)
  BY <1>1, <1>2, <1>4, SetAllMeans
<1>7. DOMAIN Conf!Asks(over) = {over[i][1] : i \in DOMAIN over}
  BY DEF Conf!Asks
<1>8. \A k \in RequestKeys : k \notin DOMAIN Conf!Asks(over) /\ k \in DOMAIN base
  <2>1. RequestKeys \in SUBSET Conf!Parameters
    BY DEF RequestKeys, Conf!Parameters, Conf!Uints
  <2> QED
    BY <1>2, <1>4, <1>5, <1>7, <2>1 DEF IsConfig
<1>9. \A k \in RequestKeys : done[k] = asks[k]
  BY <1>2, <1>6, <1>8 DEF Conf!Over
<1>10. /\ DOMAIN asks = RequestKeys /\ asks["model.num_spheres"] = params.num_spheres
       /\ asks["training.iterations"] = params.iterations
  BY DEF Conf!AsksToPack, RequestKeys
<1> HIDE DEF done, asks
<1>11. "model.num_spheres" \in RequestKeys /\ "training.iterations" \in RequestKeys
  BY DEF RequestKeys
<1> QED
  BY <1>1, <1>9, <1>10, <1>11 DEF asks

(***************************************************************************)
(* A command runs what its --set arguments say, the last of each.          *)
(***************************************************************************)
LEMMA CommandRunsWhatWasAsked ==
  ASSUME NEW args, IsUpdates(args.sets), Conf!BuildConfig(args) # Refused
  PROVE  \A k \in DOMAIN Conf!Asks(args.sets) :
           Conf!BuildConfig(args)[k] = Conf!Asks(args.sets)[k]
<1> DEFINE weight == "training.coverage_weight"
           file == Conf!FromJson(args.file)
           base == IF args.file = <<>> THEN Conf!FromPreset(args.preset)
                   ELSE IF file = Refused THEN Refused
                   ELSE [file EXCEPT ![weight] = IF weight \in DOMAIN args.file THEN @
                                                 ELSE Conf!CoverageOf[args.preset]]
           device == IF args.device = "" THEN base["model.device"] ELSE Conf!DeviceOf(args.device)
           last == [base EXCEPT !["model.device"] = device,
                      !["training.iterations"] =
                         IF args.iterations = Conf!NoSeed THEN @ ELSE args.iterations]
<1>1. base # Refused /\ Conf!BuildConfig(args) = Conf!SetAll(last, args.sets)
  BY DEF Conf!BuildConfig
<1>2. IsConfig(base)
  BY <1>1, PresetIsConfig, DocumentIsConfig DEF IsConfig
<1>3. IsConfig(last)
  <2> HIDE DEF base, device
  <2> QED
    BY <1>2 DEF IsConfig
<1> HIDE DEF last
<1>4. Conf!SetAll(last, args.sets) = Conf!Over(Conf!Asks(args.sets), last)
  BY <1>1, <1>3, SetAllMeans
<1> QED
  BY <1>1, <1>4 DEF Conf!Over

(***************************************************************************)
(* What is kept: the config is the one that was made with what was         *)
(* accepted since on top, and a session's config is what was asked for.    *)
(***************************************************************************)
ConfigInv ==
  /\ IsConfig(start)
  /\ DOMAIN asked \in SUBSET Conf!Parameters /\ asked = [k \in DOMAIN asked |-> asked[k]]
  /\ SessionsRunWhatWasAsked

LEMMA ConfigInvHolds == LibrarySpec => []ConfigInv
<1>1. LibraryInit => ConfigInv
  <2> SUFFICES ASSUME LibraryInit PROVE ConfigInv
    OBVIOUS
  <2>1. /\ start \in ({Conf!FromPreset("B")} \cup {Conf!FromJson(d) : d \in Documents}) \ {Refused}
        /\ config = start /\ asked = Conf!Nothing /\ running = Refused
    BY DEF LibraryInit, Conf!Init
  <2>2. IsConfig(start)
    BY <2>1, PresetIsConfig, DocumentIsConfig
  <2>3. DOMAIN asked = {} /\ asked = [k \in DOMAIN asked |-> asked[k]]
    BY <2>1 DEF Conf!Nothing
  <2>4. Conf!Over(asked, start) = start
    BY <2>2, <2>3 DEF Conf!Over, IsConfig
  <2> QED
    BY <2>1, <2>2, <2>3, <2>4 DEF ConfigInv, SessionsRunWhatWasAsked, Conf!SessionsRunWhatWasAsked
<1>2. ASSUME ConfigInv, [LibraryNext]_<<topic, vars, configVars, prepVars, robot>>
      PROVE  ConfigInv'
  <2>0. config = Conf!Over(asked, start) /\ IsConfig(config) /\ IsConfig(start)
    BY <1>2, OverIsConfig DEF ConfigInv, SessionsRunWhatWasAsked, Conf!SessionsRunWhatWasAsked
  <2>1. CASE UNCHANGED configVars
    BY <1>2, <2>1, ZenonT(60)
    DEF configVars, ConfigInv, IsConfig, SessionsRunWhatWasAsked, Conf!SessionsRunWhatWasAsked
  <2>2. ASSUME NEW asks, DOMAIN asks \in SUBSET Conf!Parameters,
               asked' = Conf!Over(asks, asked), config' = Conf!Over(asks, config),
               UNCHANGED <<start, running>>
        PROVE  ConfigInv'
    <3>1. config' = Conf!Over(asked', start')
      BY <2>0, <2>2, OverOver
    <3>2. DOMAIN asked' \in SUBSET Conf!Parameters /\ asked' = [k \in DOMAIN asked' |-> asked'[k]]
      BY <1>2, <2>2 DEF ConfigInv, Conf!Over
    <3> QED
      BY <1>2, <2>2, <3>1, <3>2, ZenonT(60)
      DEF ConfigInv, IsConfig, SessionsRunWhatWasAsked, Conf!SessionsRunWhatWasAsked
  <2>3. ASSUME UNCHANGED <<start, config, asked>>,
               Conf!Validate(running'.config),
               \A k \in DOMAIN running'.asked : running'.config[k] = running'.asked[k],
               running'.pack => /\ running'.config["model.num_spheres"] \in 1..200
                                /\ running'.config["training.iterations"] \in 1..1000
        PROVE  ConfigInv'
    <3>1. Conf!Validate(running'.config) = Conf!Validate(running.config)'
      BY DEF Conf!Validate
    <3> QED
      BY <1>2, <2>3, ZenonT(60)
      DEF ConfigInv, IsConfig, SessionsRunWhatWasAsked, Conf!SessionsRunWhatWasAsked
  <2>4. ASSUME NEW key, NEW value, IsJson(value), Conf!SetOne(key, value)
        PROVE  ConfigInv'
    <3> DEFINE next == Conf!Set(config, key, value)
               u == <<key, value>>
    <3>1. CASE next = Refused
      <4>1. UNCHANGED configVars
        BY <2>4, <3>1 DEF Conf!SetOne, configVars
      <4> QED
        BY <2>1, <4>1
    <3>2. CASE next # Refused
      <4> DEFINE asks == Conf!Asks(<<<<key, value>>>>)
      <4>1. config' = next /\ asked' = Conf!Over(asks, asked) /\ UNCHANGED <<start, running>>
        BY <2>4, <3>2 DEF Conf!SetOne
      <4>2. u[1] = key /\ u[2] = value
        OBVIOUS
      <4> HIDE DEF u, next
      <4>3. IsJson(u[2]) /\ next = Conf!Set(config, u[1], u[2])
        BY <2>4, <4>2 DEF next
      <4>4. /\ u[1] \in Conf!Parameters
            /\ Conf!Set(config, u[1], u[2]) =
                 [k \in Conf!Parameters |-> IF k = u[1] THEN Conf!Means(u[1], u[2]) ELSE config[k]]
        BY <2>0, <3>2, <4>3, SetMeans
      <4>5. /\ key \in Conf!Parameters
            /\ next = [k \in Conf!Parameters |-> IF k = key THEN Conf!Means(key, value) ELSE config[k]]
        BY <4>2, <4>3, <4>4
      <4>6. asks = [k \in {key} |-> Conf!Means(key, value)]
        BY AsksOne
      <4> HIDE DEF asks
      <4>7. next = Conf!Over(asks, config) /\ DOMAIN asks \in SUBSET Conf!Parameters
        BY <2>0, <4>5, <4>6 DEF Conf!Over, IsConfig
      <4> QED
        BY <2>2, <4>1, <4>7 DEF next
    <3> QED
      BY <3>1, <3>2
  <2>5. ASSUME NEW updates \in UpdateLists, Conf!SetMany(updates)
        PROVE  ConfigInv'
    <3>1. CASE Conf!SetAll(config, updates) = Refused
      <4>1. UNCHANGED configVars
        BY <2>5, <3>1 DEF Conf!SetMany, Conf!Updated, configVars
      <4> QED
        BY <2>1, <4>1
    <3>2. CASE Conf!SetAll(config, updates) # Refused
      <4>1. /\ config' = Conf!SetAll(config, updates)
            /\ asked' = Conf!Over(Conf!Asks(updates), asked) /\ UNCHANGED <<start, running>>
        BY <2>5, <3>2 DEF Conf!SetMany, Conf!Updated
      <4>2. /\ DOMAIN Conf!Asks(updates) \in SUBSET Conf!Parameters
            /\ Conf!SetAll(config, updates) = Conf!Over(Conf!Asks(updates), config)
        BY <2>0, <3>2, LibraryAssumption, SetAllMeans
      <4> QED
        BY <2>2, <4>1, <4>2
    <3> QED
      BY <3>1, <3>2
  <2>6. CASE Conf!StartSession
    <3> DEFINE r == running'
    <3>1. /\ UNCHANGED <<start, config, asked>> /\ Conf!Validate(config)
          /\ r = [config |-> config, asked |-> asked, pack |-> FALSE]
      BY <2>6 DEF Conf!StartSession
    <3>2. r.config = config /\ r.asked = asked /\ ~r.pack
      BY <3>1
    <3>3. \A k \in DOMAIN asked : config[k] = asked[k]
      BY <2>0 DEF Conf!Over
    <3> QED
      BY <2>3, <3>1, <3>2, <3>3
  <2>7. ASSUME NEW params \in PackRequests, NEW device, Conf!StartPack(params, device)
        PROVE  ConfigInv'
    <3> DEFINE r == running'
               c == Conf!PackConfig(params, device)
    <3>1. /\ UNCHANGED <<start, config, asked>> /\ c # Refused
          /\ r = [config |-> c, pack |-> TRUE, asked |-> Conf!AsksToPack(params, device)]
      BY <2>7 DEF Conf!StartPack
    <3>2. r.config = c /\ r.asked = Conf!AsksToPack(params, device)
      BY <3>1
    <3> QED
      BY <2>3, <3>1, <3>2, LibraryAssumption, PacksWhatWasAsked
  <2>8. ASSUME NEW args \in Commands, Conf!StartCommand(args)
        PROVE  ConfigInv'
    <3> DEFINE r == running'
               c == Conf!BuildConfig(args)
    <3>1. /\ UNCHANGED <<start, config, asked>> /\ c # Refused /\ Conf!Validate(c)
          /\ r = [config |-> c, pack |-> FALSE, asked |-> Conf!Asks(args.sets)]
      BY <2>8 DEF Conf!StartCommand
    <3>2. r.config = c /\ r.asked = Conf!Asks(args.sets) /\ ~r.pack
      BY <3>1
    <3> QED
      BY <2>3, <3>1, <3>2, LibraryAssumption, CommandRunsWhatWasAsked
  <2>9. \A value \in Conf!JsonValues : IsJson(value)
    BY DEF Conf!JsonValues, IsJson, Kinds, Conf!Integer, Conf!Float, Conf!Bool, Conf!Str, Conf!Null
  <2>10. CASE ConfigNext
    BY <2>4, <2>5, <2>6, <2>9, <2>10 DEF ConfigNext
  <2>11. CASE RequestNext
    BY <2>7, <2>8, <2>11 DEF RequestNext
  <2> QED
    BY <1>2, <2>1, <2>10, <2>11 DEF LibraryNext, configVars
<1> QED
  BY <1>1, <1>2, PTL DEF LibrarySpec

(***************************************************************************)
(* Whatever a host sets, whatever fails in between, a session runs with    *)
(* the values last accepted and the defaults for the rest; a pack request  *)
(* stays within the service's limits (config.rs, robot config.rs).         *)
(***************************************************************************)
THEOREM SessionsAlwaysRunWhatWasAsked == LibrarySpec => []SessionsRunWhatWasAsked
<1>1. ConfigInv => SessionsRunWhatWasAsked
  BY DEF ConfigInv
<1> QED
  BY <1>1, ConfigInvHolds, PTL

-----------------------------------------------------------------------------
(***************************************************************************)
(* The accumulators of a fold, one after the other.                        *)
(***************************************************************************)
Walks(after, n, Acc, base, step, end) ==
  /\ after \in [0..n -> Acc] /\ after[0] = base /\ after[n] = end
  /\ \A i \in 1..n : after[i] = step[<<after[i - 1], i>>]

LEMMA StepsAre ==
  ASSUME NEW n \in Nat, NEW Acc, NEW base \in Acc, NEW step \in [Acc \X (1..n) -> Acc],
         NEW h, TakesSteps(h, n, Acc, base, step)
  PROVE  \E after : Walks(after, n, Acc, base, step, h[1..n])
<1>1. PICK g : IsFold(g, n, Acc, base, step)
  BY FoldExists
<1>2. \A T \in SUBSET (1..n) : h[T] \in Acc
  BY <1>1, FoldIsOnly
<1> DEFINE after == [i \in 0..n |-> h[1..i]]
<1>3. \A i \in 0..n : 1..i \in SUBSET (1..n)
  OBVIOUS
<1>4. after \in [0..n -> Acc]
  BY <1>2, <1>3
<1>5. after[0] = base
  <2>1. 1..0 = {} /\ 0 \in 0..n
    OBVIOUS
  <2> QED
    BY <2>1 DEF TakesSteps
<1>6. ASSUME NEW i \in 1..n
      PROVE  after[i] = step[<<after[i - 1], i>>]
  <2>1. 1..i \in SUBSET (1..n) /\ Max(1..i) = i /\ (1..i) \ {Max(1..i)} = 1..(i - 1)
    BY MaxOfPrefix
  <2>2. 1..i # {} /\ i \in 0..n /\ i - 1 \in 0..n /\ 1..(i - 1) \in SUBSET (1..n)
    OBVIOUS
  <2>3. h[(1..i) \ {Max(1..i)}] \in Acc
    BY <1>2, <2>1, <2>2
  <2>4. h[1..i] = step[<<h[(1..i) \ {Max(1..i)}], Max(1..i)>>]
    BY <2>1, <2>2, <2>3 DEF TakesSteps
  <2> QED
    BY <2>1, <2>2, <2>4
<1>7. after[n] = h[1..n]
  OBVIOUS
<1> HIDE DEF after
<1>8. Walks(after, n, Acc, base, step, h[1..n])
  BY <1>4, <1>5, <1>6, <1>7 DEF Walks
<1> QED
  BY <1>8

\* A list is a sequence of what is in it.
LEMMA SequenceIsSeq ==
  ASSUME NEW s, IsSequence(s), NEW S, \A i \in 1..Len(s) : s[i] \in S
  PROVE  s \in Seq(S)
<1> DEFINE n == Len(s)
<1>1. n \in Nat /\ s = [i \in 1..n |-> s[i]]
  BY DEF IsSequence
<1>2. s \in [1..n -> S]
  BY <1>1
<1> HIDE DEF n
<1> QED
  BY <1>1, <1>2, SeqDef

LEMMA SeqIsSequence ==
  ASSUME NEW S, NEW s \in Seq(S)
  PROVE  IsSequence(s) /\ \A i \in 1..Len(s) : s[i] \in S
<1>1. Len(s) \in Nat /\ s \in [1..Len(s) -> S]
  BY LenProperties
<1> QED
  BY <1>1 DEF IsSequence

(***************************************************************************)
(* join_lexical is what its loop does, part by part.                       *)
(***************************************************************************)
Paths(S) == {NoPath} \cup Seq(S)

LEMMA ParentIs ==
  ASSUME NEW S, NEW path \in Seq(S)
  PROVE  /\ Parent(path) \in Seq(S)
         /\ path # <<>> => /\ Len(path) \in Nat \ {0}
                           /\ Parent(path) = SubSeq(path, 1, Len(path) - 1)
BY DEF Parent, Front

LEMMA FollowIsPath ==
  ASSUME NEW S, NEW path \in Paths(S), NEW part \in S
  PROVE  Follow(path, part) \in Paths(S)
<1>1. CASE path = NoPath
  BY <1>1 DEF Follow, Paths
<1>2. CASE path # NoPath
  <2>1. path \in Seq(S)
    BY <1>2 DEF Paths
  <2>2. Append(path, part) \in Seq(S) /\ Parent(path) \in Seq(S)
    BY <2>1, ParentIs
  <2> QED
    BY <2>1, <2>2 DEF Follow, Paths
<1> QED
  BY <1>1, <1>2

LEMMA JoinLexicalIs ==
  ASSUME NEW S, NEW dir \in Seq(S), NEW rel \in Seq(S)
  PROVE  LET s == dir \o rel
         IN  \E after : /\ after \in [0..Len(s) -> Paths(S)] /\ after[0] = <<>>
                        /\ \A i \in 1..Len(s) : after[i] = Follow(after[i - 1], s[i])
                        /\ JoinLexical(dir, rel) = after[Len(s)]
<1> DEFINE s == dir \o rel
           n == Len(s)
           Acc == Paths(S)
           step == [x \in Acc \X (1..n) |-> Follow(x[1], s[x[2]])]
           Stepped(g, T) == IF T = {} THEN <<>> ELSE Follow(g[T \ {Max(T)}], s[Max(T)])
           iter == CHOOSE g : g = [T \in SUBSET (1..n) |-> Stepped(g, T)]
<1>1. s \in Seq(S) /\ n \in Nat /\ DOMAIN s = 1..n /\ \A i \in 1..n : s[i] \in S
  OBVIOUS
<1>2. <<>> \in Acc
  BY DEF Paths
<1> HIDE DEF s
<1>3. ASSUME NEW path \in Acc, NEW i \in 1..n
      PROVE  Follow(path, s[i]) \in Acc
  BY <1>1, FollowIsPath
<1>4. step \in [Acc \X (1..n) -> Acc]
  BY <1>3
<1>5. JoinLexical(dir, rel) = iter[1..n]
  BY <1>1 DEF JoinLexical, FoldLeft, MapThenFoldSet, s
<1>0. n \in Nat
  BY <1>1
<1> HIDE DEF Acc, step, n
<1>6. PICK g : IsFold(g, n, Acc, <<>>, step)
  BY <1>0, <1>2, <1>4, FoldExists
<1>7. \A T \in SUBSET (1..n) : g[T] = Stepped(g, T)
  <2> SUFFICES ASSUME NEW T \in SUBSET (1..n), T # {} PROVE g[T] = Stepped(g, T)
    BY <1>6 DEF IsFold
  <2>1. Max(T) \in 1..n
    BY <1>0, MaxIs
  <2>2. g[T \ {Max(T)}] \in Acc
    BY <1>6 DEF IsFold
  <2> QED
    BY <1>6, <2>1, <2>2 DEF IsFold, step
<1>8. g = [T \in SUBSET (1..n) |-> Stepped(g, T)]
  BY <1>6, <1>7 DEF IsFold
<1>9. iter = [T \in SUBSET (1..n) |-> Stepped(iter, T)]
  BY <1>8
<1> HIDE DEF iter
<1>10. TakesSteps(iter, n, Acc, <<>>, step)
  <2>1. iter[{}] = <<>>
    BY <1>9
  <2>2. ASSUME NEW T \in SUBSET (1..n), T # {}, iter[T \ {Max(T)}] \in Acc
        PROVE  iter[T] = step[<<iter[T \ {Max(T)}], Max(T)>>]
    <3>1. Max(T) \in 1..n
      BY <1>0, <2>2, MaxIs
    <3> QED
      BY <1>9, <2>2, <3>1 DEF step
  <2> QED
    BY <2>1, <2>2 DEF TakesSteps
<1>11. PICK after : Walks(after, n, Acc, <<>>, step, iter[1..n])
  BY <1>0, <1>2, <1>4, <1>10, StepsAre
<1>12. after \in [0..n -> Acc] /\ after[0] = <<>> /\ after[n] = iter[1..n]
  BY <1>11 DEF Walks
<1>13. ASSUME NEW i \in 1..n
       PROVE  after[i] = Follow(after[i - 1], s[i])
  <2>1. i - 1 \in 0..n
    BY <1>0
  <2>2. after[i - 1] \in Acc /\ after[i] = step[<<after[i - 1], i>>]
    BY <1>11, <2>1 DEF Walks
  <2> QED
    BY <2>2 DEF step
<1> QED
  BY <1>5, <1>12, <1>13 DEF n, Acc, s

(***************************************************************************)
(* So does the walk through a directory.                                   *)
(***************************************************************************)
LEMMA IntoIsPath ==
  ASSUME NEW S, NEW files, NEW path \in Paths(S), NEW part \in S
  PROVE  Into(files, path, part) \in Paths(S)
<1>1. CASE path = NoPath
  BY <1>1 DEF Into, Paths
<1>2. CASE path # NoPath
  <2>1. path \in Seq(S)
    BY <1>2 DEF Paths
  <2>2. Append(path, part) \in Seq(S) /\ Parent(path) \in Seq(S)
    BY <2>1, ParentIs
  <2> QED
    BY <2>1, <2>2 DEF Into, IfThere, Paths
<1> QED
  BY <1>1, <1>2

IsWalk(after, files, dir, s, S) ==
  /\ after \in [0..Len(s) -> Paths(S)] /\ after[0] = dir
  /\ \A i \in 1..Len(s) : after[i] = Into(files, after[i - 1], s[i])
  /\ DiskWalk(files, dir, s) = after[Len(s)]

LEMMA DiskWalkIs ==
  ASSUME NEW S, NEW files, NEW dir \in Seq(S), NEW s \in Seq(S)
  PROVE  \E after : IsWalk(after, files, dir, s, S)
<1> DEFINE n == Len(s)
           Acc == Paths(S)
           step == [x \in Acc \X (1..n) |-> Into(files, x[1], s[x[2]])]
           Stepped(g, T) == IF T = {} THEN dir ELSE Into(files, g[T \ {Max(T)}], s[Max(T)])
           iter == CHOOSE g : g = [T \in SUBSET (1..n) |-> Stepped(g, T)]
<1>1. n \in Nat /\ DOMAIN s = 1..n /\ \A i \in 1..n : s[i] \in S
  OBVIOUS
<1>2. dir \in Acc
  BY DEF Paths
<1>3. ASSUME NEW path \in Acc, NEW i \in 1..n
      PROVE  Into(files, path, s[i]) \in Acc
  BY <1>1, IntoIsPath
<1>4. step \in [Acc \X (1..n) -> Acc]
  BY <1>3
<1>5. DiskWalk(files, dir, s) = iter[1..n]
  BY <1>1 DEF DiskWalk, FoldLeft, MapThenFoldSet
<1>0. n \in Nat
  BY <1>1
<1> HIDE DEF Acc, step, n
<1>6. PICK g : IsFold(g, n, Acc, dir, step)
  BY <1>0, <1>2, <1>4, FoldExists
<1>7. \A T \in SUBSET (1..n) : g[T] = Stepped(g, T)
  <2> SUFFICES ASSUME NEW T \in SUBSET (1..n), T # {} PROVE g[T] = Stepped(g, T)
    BY <1>6 DEF IsFold
  <2>1. Max(T) \in 1..n
    BY <1>0, MaxIs
  <2>2. g[T \ {Max(T)}] \in Acc
    BY <1>6 DEF IsFold
  <2> QED
    BY <1>6, <2>1, <2>2 DEF IsFold, step
<1>8. g = [T \in SUBSET (1..n) |-> Stepped(g, T)]
  BY <1>6, <1>7 DEF IsFold
<1>9. iter = [T \in SUBSET (1..n) |-> Stepped(iter, T)]
  BY <1>8
<1> HIDE DEF iter
<1>10. TakesSteps(iter, n, Acc, dir, step)
  <2>1. iter[{}] = dir
    BY <1>9
  <2>2. ASSUME NEW T \in SUBSET (1..n), T # {}, iter[T \ {Max(T)}] \in Acc
        PROVE  iter[T] = step[<<iter[T \ {Max(T)}], Max(T)>>]
    <3>1. Max(T) \in 1..n
      BY <1>0, <2>2, MaxIs
    <3> QED
      BY <1>9, <2>2, <3>1 DEF step
  <2> QED
    BY <2>1, <2>2 DEF TakesSteps
<1>11. PICK after : Walks(after, n, Acc, dir, step, iter[1..n])
  BY <1>0, <1>2, <1>4, <1>10, StepsAre
<1>12. after \in [0..n -> Acc] /\ after[0] = dir /\ after[n] = iter[1..n]
  BY <1>11 DEF Walks
<1>13. ASSUME NEW i \in 1..n
       PROVE  after[i] = Into(files, after[i - 1], s[i])
  <2>1. i - 1 \in 0..n
    BY <1>0
  <2>2. after[i - 1] \in Acc /\ after[i] = step[<<after[i - 1], i>>]
    BY <1>11, <2>1 DEF Walks
  <2> QED
    BY <2>2 DEF step
<1> QED
  BY <1>5, <1>12, <1>13 DEF n, Acc, IsWalk

(***************************************************************************)
(* What is left of a path has no empty and no `.' part.                    *)
(***************************************************************************)
Kept(names, part) == IF part \in {"", "."} THEN names ELSE Append(names, part)

LEMMA NamesAre ==
  ASSUME NEW S, NEW s \in Seq(S)
  PROVE  Names(s) \in Seq(S \ {"", "."})
<1> DEFINE n == Len(s)
           Acc == Seq(S \ {"", "."})
           step == [x \in Acc \X (1..n) |-> Kept(x[1], s[x[2]])]
           Stepped(g, T) == IF T = {} THEN <<>> ELSE Kept(g[T \ {Max(T)}], s[Max(T)])
           iter == CHOOSE g : g = [T \in SUBSET (1..n) |-> Stepped(g, T)]
<1>1. n \in Nat /\ DOMAIN s = 1..n /\ \A i \in 1..n : s[i] \in S
  OBVIOUS
<1>2. <<>> \in Acc
  OBVIOUS
<1>3. ASSUME NEW names \in Acc, NEW i \in 1..n
      PROVE  Kept(names, s[i]) \in Acc
  <2> DEFINE T == S \ {"", "."}
  <2>1. s[i] \notin {"", "."} => s[i] \in T
    BY <1>1
  <2> HIDE DEF T
  <2>2. names \in Seq(T)
    BY DEF T
  <2>3. s[i] \in T => Append(names, s[i]) \in Seq(T)
    BY <2>2, AppendProperties
  <2>4. Kept(names, s[i]) \in Seq(T)
    BY <2>1, <2>2, <2>3 DEF Kept
  <2> QED
    BY <2>4 DEF T
<1>4. step \in [Acc \X (1..n) -> Acc]
  BY <1>3
<1>5. Names(s) = iter[1..n]
  BY <1>1 DEF Names, FoldLeft, MapThenFoldSet, Kept
<1>0. n \in Nat
  BY <1>1
<1> HIDE DEF Acc, step, n
<1>6. PICK g : IsFold(g, n, Acc, <<>>, step)
  BY <1>0, <1>2, <1>4, FoldExists
<1>7. \A T \in SUBSET (1..n) : g[T] = Stepped(g, T)
  <2> SUFFICES ASSUME NEW T \in SUBSET (1..n), T # {} PROVE g[T] = Stepped(g, T)
    BY <1>6 DEF IsFold
  <2>1. Max(T) \in 1..n
    BY <1>0, MaxIs
  <2>2. g[T \ {Max(T)}] \in Acc
    BY <1>6 DEF IsFold
  <2> QED
    BY <1>6, <2>1, <2>2 DEF IsFold, step
<1>8. g = [T \in SUBSET (1..n) |-> Stepped(g, T)]
  BY <1>6, <1>7 DEF IsFold
<1>9. iter = [T \in SUBSET (1..n) |-> Stepped(iter, T)]
  BY <1>8
<1> HIDE DEF iter
<1>10. TakesSteps(iter, n, Acc, <<>>, step)
  <2>1. iter[{}] = <<>>
    BY <1>9
  <2>2. ASSUME NEW T \in SUBSET (1..n), T # {}, iter[T \ {Max(T)}] \in Acc
        PROVE  iter[T] = step[<<iter[T \ {Max(T)}], Max(T)>>]
    <3>1. Max(T) \in 1..n
      BY <1>0, <2>2, MaxIs
    <3> QED
      BY <1>9, <2>2, <3>1 DEF step
  <2> QED
    BY <2>1, <2>2 DEF TakesSteps
<1>11. PICK after : Walks(after, n, Acc, <<>>, step, iter[1..n])
  BY <1>0, <1>2, <1>4, <1>10, StepsAre
<1>12. after[n] \in Acc /\ after[n] = iter[1..n]
  BY <1>0, <1>11 DEF Walks
<1> QED
  BY <1>5, <1>12 DEF Acc

(***************************************************************************)
(* Directories.  What is above a directory or a file is a directory.       *)
(***************************************************************************)
ArePaths(files, S) == files \in SUBSET (Seq(S) \ {<<>>})
IsThere(files, path) == path = <<>> \/ IsDir(files, path)

LEMMA AboveAppended ==
  ASSUME NEW S, NEW files, ArePaths(files, S), NEW path \in Seq(S), NEW part \in S,
         Append(path, part) \in files \cup Dirs(files)
  PROVE  IsThere(files, path)
<1> DEFINE longer == Append(path, part)
<1>1. /\ longer \in Seq(S) /\ Len(longer) = Len(path) + 1 /\ Len(path) \in Nat
      /\ SubSeq(longer, 1, Len(path)) = path
  BY AppendProperties
<1> HIDE DEF longer
<1>2. PICK f \in files : \E m \in 1..Len(f) : longer = SubSeq(f, 1, m)
  <2>1. CASE longer \in files
    <3>1. longer = SubSeq(longer, 1, Len(longer)) /\ Len(longer) \in 1..Len(longer)
      BY <1>1
    <3> QED
      BY <2>1, <3>1
  <2>2. CASE longer \in Dirs(files)
    <3>1. PICK f \in files : longer \in {SubSeq(f, 1, m) : m \in 1..(Len(f) - 1)}
      BY <2>2 DEF Dirs
    <3>2. Len(f) \in Nat
      BY DEF ArePaths
    <3> QED
      BY <3>1, <3>2
  <2> QED
    BY <2>1, <2>2 DEF longer
<1>3. PICK m \in 1..Len(f) : longer = SubSeq(f, 1, m)
  BY <1>2
<1>4. f \in Seq(S) /\ Len(f) \in Nat
  BY DEF ArePaths
<1>5. Len(longer) = m
  BY <1>3, <1>4
<1>6. path # <<>> => Len(path) \in 1..(Len(f) - 1) /\ path = SubSeq(f, 1, Len(path))
  <2> SUFFICES ASSUME path # <<>>
               PROVE  Len(path) \in 1..(Len(f) - 1) /\ path = SubSeq(f, 1, Len(path))
    OBVIOUS
  <2>1. Len(path) \in 1..(Len(f) - 1)
    BY <1>1, <1>4, <1>5
  <2>2. SubSeq(SubSeq(f, 1, m), 1, Len(path)) = SubSeq(f, 1, Len(path))
    BY <1>1, <1>4, <1>5, <2>1
  <2> QED
    BY <1>1, <1>3, <2>1, <2>2
<1> QED
  BY <1>6 DEF IsThere, IsDir, Dirs

LEMMA AboveFile ==
  ASSUME NEW S, NEW files, ArePaths(files, S), NEW f \in files
  PROVE  Parent(f) \in Seq(S) /\ IsThere(files, Parent(f))
<1>1. f \in Seq(S) /\ f # <<>>
  BY DEF ArePaths
<1>2. Parent(f) = SubSeq(f, 1, Len(f) - 1) /\ Len(f) \in Nat \ {0} /\ Parent(f) \in Seq(S)
  BY <1>1, ParentIs
<1>3. CASE Len(f) = 1
  <2>1. Parent(f) = <<>>
    BY <1>1, <1>2, <1>3
  <2> QED
    BY <1>2, <2>1 DEF IsThere
<1>4. CASE Len(f) # 1
  <2> DEFINE n == Len(f)
  <2>1. n \in Nat \ {0} /\ n # 1
    BY <1>2, <1>4
  <2> HIDE DEF n
  <2>2. n - 1 \in 1..(n - 1)
    BY <2>1
  <2> QED
    BY <1>2, <2>2 DEF IsThere, IsDir, Dirs, n
<1> QED
  BY <1>3, <1>4

LEMMA AboveDir ==
  ASSUME NEW S, NEW files, ArePaths(files, S), NEW path \in Seq(S), IsThere(files, path),
         path # <<>>
  PROVE  Parent(path) \in Seq(S) /\ IsThere(files, Parent(path))
<1>1. PICK f \in files : path \in {SubSeq(f, 1, m) : m \in 1..(Len(f) - 1)}
  BY DEF IsThere, IsDir, Dirs
<1>2. PICK m \in 1..(Len(f) - 1) : path = SubSeq(f, 1, m)
  BY <1>1
<1>3. f \in Seq(S) /\ Len(f) \in Nat /\ m \in Nat \ {0}
  BY DEF ArePaths
<1>4. Len(path) = m
  BY <1>2, <1>3
<1>5. Parent(path) = SubSeq(path, 1, m - 1) /\ Parent(path) \in Seq(S)
  BY <1>4, ParentIs
<1>6. CASE m = 1
  <2>1. Parent(path) = <<>>
    BY <1>5, <1>6
  <2> QED
    BY <1>5, <2>1 DEF IsThere
<1>7. CASE m # 1
  <2>1. m - 1 \in 1..(Len(f) - 1) /\ m - 1 \in 1..m
    BY <1>3, <1>7
  <2>2. SubSeq(SubSeq(f, 1, m), 1, m - 1) = SubSeq(f, 1, m - 1)
    BY <1>3, <2>1
  <2> QED
    BY <1>2, <1>5, <2>1, <2>2 DEF IsThere, IsDir, Dirs
<1> QED
  BY <1>6, <1>7

(***************************************************************************)
(* The lexical path and the walk agree, part by part: they are at the same *)
(* path, or the walk has failed and there is nothing below the lexical     *)
(* path.  After leading `..' they are at the same directory.               *)
(***************************************************************************)
Agree(files, lexical, walked) ==
  lexical = walked \/ (walked = NoPath /\ ~IsThere(files, lexical))

LEMMA AppendedIs ==
  ASSUME NEW S, NEW path \in Seq(S), NEW part \in S
  PROVE  Append(path, part) # <<>>
<1>1. Len(Append(path, part)) = Len(path) + 1 /\ Len(path) \in Nat
  BY AppendProperties
<1>2. CASE Append(path, part) = <<>>
  BY <1>1, <1>2
<1> QED
  BY <1>2

LEMMA NameAgrees ==
  ASSUME NEW S, NEW files, ArePaths(files, S), NEW lexical \in Paths(S), NEW walked \in Paths(S),
         Agree(files, lexical, walked), NEW part \in S, part \notin {"", ".", ".."}
  PROVE  /\ Agree(files, Follow(lexical, part), Into(files, walked, part))
         /\ IfThere(files, Follow(lexical, part)) = Into(files, walked, part)
<1> DEFINE next == Follow(lexical, part)
<1>1. CASE lexical = NoPath
  <2>1. walked = NoPath
    BY <1>1 DEF Agree
  <2>2. next = NoPath /\ Into(files, walked, part) = NoPath
    BY <1>1, <2>1 DEF Follow, Into
  <2> QED
    BY <2>2 DEF Agree, IfThere
<1>2. CASE lexical # NoPath
  <2>1. lexical \in Seq(S)
    BY <1>2 DEF Paths
  <2>2. next = Append(lexical, part) /\ next # <<>>
    <3>1. next = Append(lexical, part)
      BY <1>2 DEF Follow
    <3>2. Append(lexical, part) # <<>>
      BY <2>1, AppendedIs
    <3> QED
      BY <3>1, <3>2
  <2>3. next \in files \cup Dirs(files) => IsThere(files, lexical)
    <3>1. Append(lexical, part) \in files \cup Dirs(files) => IsThere(files, lexical)
      BY <2>1, AboveAppended
    <3> QED
      BY <2>2, <3>1
  <2> HIDE DEF next
  <2>4. Into(files, walked, part) = IfThere(files, next)
    <3>1. CASE IsThere(files, lexical)
      <4>1. walked = lexical
        BY <3>1 DEF Agree
      <4> QED
        BY <1>2, <2>2, <3>1, <4>1 DEF Into, IsThere
    <3>2. CASE ~IsThere(files, lexical)
      <4>1. walked = NoPath \/ walked = lexical
        BY DEF Agree
      <4>2. Into(files, walked, part) = NoPath
        BY <3>2, <4>1 DEF Into, IsThere
      <4>3. ~Exists(files, next)
        BY <2>3, <3>2 DEF Exists, IsDir
      <4> QED
        BY <4>2, <4>3 DEF IfThere
    <3> QED
      BY <3>1, <3>2
  <2>5. Agree(files, next, IfThere(files, next))
    BY <2>2 DEF Agree, IfThere, Exists, IsThere
  <2> QED
    BY <2>4, <2>5 DEF next
<1> QED
  BY <1>1, <1>2

LEMMA DotAgrees ==
  ASSUME NEW files, NEW lexical, NEW walked, Agree(files, lexical, walked), NEW part \in {"", "."}
  PROVE  Agree(files, Follow(lexical, part), Into(files, walked, part))
<1>1. Follow(lexical, part) = lexical
  BY DEF Follow
<1>2. CASE walked = NoPath \/ ~IsThere(files, walked)
  <2>1. Into(files, walked, part) = NoPath
    BY <1>2 DEF Into, IsThere
  <2> QED
    BY <1>1, <1>2, <2>1 DEF Agree
<1>3. CASE walked # NoPath /\ IsThere(files, walked)
  <2>1. Into(files, walked, part) = walked
    BY <1>3 DEF Into, IsThere
  <2> QED
    BY <1>1, <2>1
<1> QED
  BY <1>2, <1>3

\* At a directory, or outside the package.
AtDir(files, lexical, walked) ==
  lexical = walked /\ (walked = NoPath \/ IsThere(files, walked))

LEMMA UpAgrees ==
  ASSUME NEW S, NEW files, ArePaths(files, S), NEW lexical \in Paths(S), NEW walked,
         AtDir(files, lexical, walked)
  PROVE  AtDir(files, Follow(lexical, ".."), Into(files, walked, ".."))
<1>1. CASE walked = NoPath
  BY <1>1 DEF AtDir, Follow, Into
<1>2. CASE walked # NoPath /\ walked = <<>>
  BY <1>2 DEF AtDir, Follow, Into, IsRoot
<1>3. CASE walked # NoPath /\ walked # <<>>
  <2>1. walked = lexical /\ walked \in Seq(S) /\ IsThere(files, walked)
    BY <1>3 DEF AtDir, Paths
  <2>2. IsThere(files, Parent(walked))
    BY <1>3, <2>1, AboveDir
  <2>3. Follow(lexical, "..") = Parent(walked) /\ Into(files, walked, "..") = Parent(walked)
    BY <1>3, <2>1 DEF Follow, Into, IsRoot, IsThere
  <2> QED
    BY <2>2, <2>3 DEF AtDir
<1> QED
  BY <1>1, <1>2, <1>3

(***************************************************************************)
(* A reference from a directory: names, perhaps after `..'.                *)
(***************************************************************************)
PlainPath(rel) ==
  /\ rel # <<>> /\ rel[Len(rel)] \notin {"", ".", ".."}
  /\ \A i \in 1..Len(rel) : rel[i] = ".." => \A j \in 1..i : rel[j] = ".."

PlainDir(files, dir) ==
  /\ IsThere(files, dir)
  /\ \A i \in 1..Len(dir) : dir[i] \notin {"", ".", ".."}
  /\ \A i \in 0..Len(dir) : SubSeq(dir, 1, i) # NoPath

LEMMA WalkAgrees ==
  ASSUME NEW S, NEW files, ArePaths(files, S), NEW dir \in Seq(S), PlainDir(files, dir),
         NEW rel \in Seq(S), PlainPath(rel)
  PROVE  IfThere(files, JoinLexical(dir, rel)) = DiskWalk(files, dir, rel)
<1> DEFINE s == dir \o rel
           l == Len(dir)
           n == Len(rel)
<1>1. /\ l \in Nat /\ n \in Nat \ {0} /\ Len(s) = l + n
      /\ \A i \in 1..l : s[i] = dir[i] /\ dir[i] \in S
      /\ \A i \in 1..n : s[l + i] = rel[i] /\ rel[i] \in S
  <2>1. s \in Seq(S) /\ Len(s) = l + n /\ l \in Nat /\ n \in Nat /\ n # 0
    <3>1. rel # <<>> => Len(rel) # 0
      OBVIOUS
    <3>2. n # 0
      BY <3>1 DEF PlainPath
    <3> QED
      BY <3>2, ConcatProperties
  <2>2. \A i \in 1..l : s[i] = dir[i] /\ dir[i] \in S
    BY ConcatProperties
  <2>3. \A i \in 1..n : s[l + i] = rel[i] /\ rel[i] \in S
    BY <2>1, ConcatProperties
  <2> QED
    BY <2>1, <2>2, <2>3
<1>2. PICK lex : /\ lex \in [0..Len(s) -> Paths(S)] /\ lex[0] = <<>>
                 /\ \A i \in 1..Len(s) : lex[i] = Follow(lex[i - 1], s[i])
                 /\ JoinLexical(dir, rel) = lex[Len(s)]
  BY JoinLexicalIs
<1>0. PICK walk : IsWalk(walk, files, dir, rel, S)
  BY DiskWalkIs
<1>3. /\ walk \in [0..n -> Paths(S)] /\ walk[0] = dir
      /\ \A i \in 1..n : walk[i] = Into(files, walk[i - 1], rel[i])
      /\ DiskWalk(files, dir, rel) = walk[n]
  BY <1>0 DEF IsWalk
<1> HIDE DEF s, l, n
<1>4. lex[l] = dir
  <2> DEFINE Good == {i \in Nat : i <= l => lex[i] = SubSeq(dir, 1, i)}
  <2>1. 0 \in Good
    BY <1>2
  <2>2. ASSUME NEW i \in Good PROVE i + 1 \in Good
    <3> SUFFICES ASSUME i + 1 <= l PROVE lex[i + 1] = SubSeq(dir, 1, i + 1)
      OBVIOUS
    <3>1. i \in Nat /\ i \in 0..l /\ i + 1 \in 1..l /\ i + 1 \in 1..Len(s) /\ (i + 1) - 1 = i
      BY <1>1
    <3>2. lex[i] = SubSeq(dir, 1, i)
      BY <1>1, <3>1
    <3>3. lex[i] # NoPath /\ dir[i + 1] \notin {"", ".", ".."}
      BY <3>1, <3>2 DEF PlainDir, l
    <3>4. lex[i + 1] = Follow(lex[i], dir[i + 1])
      BY <1>1, <1>2, <3>1
    <3>5. lex[i + 1] = Append(SubSeq(dir, 1, i), dir[i + 1])
      BY <3>2, <3>3, <3>4 DEF Follow
    <3>6. Append(SubSeq(dir, 1, i), dir[i + 1]) = SubSeq(dir, 1, i + 1)
      BY <3>1 DEF l
    <3> QED
      BY <3>5, <3>6
  <2>3. Good \in SUBSET Nat
    OBVIOUS
  <2> HIDE DEF Good
  <2>4. l \in Good
    BY <1>1, <2>1, <2>2, <2>3, Induction
  <2>5. lex[l] = SubSeq(dir, 1, l)
    BY <1>1, <2>4 DEF Good
  <2> QED
    BY <2>5 DEF l
<1>5. \A i \in 0..n : lex[l + i] \in Paths(S) /\ walk[i] \in Paths(S)
  BY <1>1, <1>2, <1>3
<1>6. \A i \in 1..n : /\ lex[l + i] = Follow(lex[l + (i - 1)], rel[i])
                      /\ walk[i] = Into(files, walk[i - 1], rel[i])
  <2> SUFFICES ASSUME NEW i \in 1..n PROVE lex[l + i] = Follow(lex[l + (i - 1)], rel[i])
    BY <1>3
  <2>1. l + i \in 1..Len(s) /\ (l + i) - 1 = l + (i - 1)
    BY <1>1
  <2> QED
    BY <1>1, <1>2, <2>1
<1> DEFINE Near(i) ==
             /\ Agree(files, lex[l + i], walk[i])
             /\ (i = 0 \/ rel[i] = "..") => AtDir(files, lex[l + i], walk[i])
           Good == {i \in Nat : i <= n => Near(i)}
<1>7. 0 \in Good
  <2>1. lex[l + 0] = dir /\ walk[0] = dir
    BY <1>1, <1>3, <1>4
  <2> QED
    BY <2>1 DEF Agree, AtDir, PlainDir
<1>8. ASSUME NEW i \in Good PROVE i + 1 \in Good
  <2> SUFFICES ASSUME i + 1 <= n PROVE Near(i + 1)
    OBVIOUS
  <2> DEFINE part == rel[i + 1]
  <2>1. i \in Nat /\ i \in 0..n /\ i + 1 \in 1..n /\ (i + 1) - 1 = i /\ i + 1 # 0
    BY <1>1
  <2>2. Near(i) /\ lex[l + i] \in Paths(S) /\ walk[i] \in Paths(S)
    BY <1>1, <1>5, <2>1
  <2>3. /\ lex[l + (i + 1)] = Follow(lex[l + i], part)
        /\ walk[i + 1] = Into(files, walk[i], part) /\ part \in S
    BY <1>1, <1>6, <2>1
  <2> HIDE DEF part, Good
  <2>4. CASE part = ".."
    <3>1. i = 0 \/ rel[i] = ".."
      <4>1. rel[i + 1] = ".." /\ i + 1 \in 1..n
        BY <2>1, <2>4 DEF part
      <4>2. \A j \in 1..(i + 1) : rel[j] = ".."
        BY <4>1 DEF PlainPath, n
      <4>3. i # 0 => i \in 1..(i + 1)
        BY <2>1
      <4> QED
        BY <4>2, <4>3
    <3>2. AtDir(files, lex[l + (i + 1)], walk[i + 1])
      BY <2>2, <2>3, <2>4, <3>1, UpAgrees
    <3> QED
      BY <3>2 DEF AtDir, Agree
  <2>5. CASE part \in {"", "."}
    <3>1. Agree(files, lex[l + (i + 1)], walk[i + 1])
      BY <2>2, <2>3, <2>5, DotAgrees
    <3> QED
      BY <2>1, <2>5, <3>1 DEF part
  <2>6. CASE part \notin {"", ".", ".."}
    <3>1. Agree(files, lex[l + (i + 1)], walk[i + 1])
      BY <2>2, <2>3, <2>6, NameAgrees
    <3> QED
      BY <2>1, <2>6, <3>1 DEF part
  <2> QED
    BY <2>4, <2>5, <2>6
<1>9. Good \in SUBSET Nat
  OBVIOUS
<1> HIDE DEF Good
<1>10. n - 1 \in Good
  <2>1. \A i \in Nat : i \in Good
    BY <1>7, <1>8, <1>9, Induction
  <2>2. n - 1 \in Nat
    BY <1>1
  <2> QED
    BY <2>1, <2>2
<1>11. Agree(files, lex[l + (n - 1)], walk[n - 1])
  BY <1>1, <1>10 DEF Good
<1>12. /\ lex[l + (n - 1)] \in Paths(S) /\ walk[n - 1] \in Paths(S) /\ rel[n] \in S
       /\ rel[n] \notin {"", ".", ".."}
  <2>1. n - 1 \in 0..n /\ n \in 1..n
    BY <1>1
  <2>2. rel[n] \notin {"", ".", ".."}
    BY DEF PlainPath, n
  <2> QED
    BY <1>1, <1>5, <2>1, <2>2
<1>13. /\ lex[l + n] = Follow(lex[l + (n - 1)], rel[n])
       /\ walk[n] = Into(files, walk[n - 1], rel[n])
  BY <1>1, <1>6
<1>14. IfThere(files, lex[l + n]) = walk[n]
  <2> DEFINE at == lex[l + (n - 1)]
             was == walk[n - 1]
             part == rel[n]
  <2>1. /\ at \in Paths(S) /\ was \in Paths(S) /\ Agree(files, at, was)
        /\ part \in S /\ part \notin {"", ".", ".."}
    BY <1>11, <1>12
  <2> HIDE DEF at, was, part
  <2>2. IfThere(files, Follow(at, part)) = Into(files, was, part)
    BY <2>1, NameAgrees
  <2> QED
    BY <1>13, <2>2 DEF at, was, part
<1> QED
  BY <1>1, <1>2, <1>3, <1>14

(***************************************************************************)
(* The keys of a package: names without `.' and `..', none of them cut off *)
(* to something that is no path.                                           *)
(***************************************************************************)
IsKey(key) ==
  /\ IsSequence(key) /\ key # <<>>
  /\ \A i \in 1..Len(key) : key[i] \notin {"", ".", ".."}
  /\ \A n \in 0..Len(key) : SubSeq(key, 1, n) # NoPath

KeysInv == \A key \in Files : IsKey(key)

LEMMA UploadIsKey ==
  ASSUME NEW u \in Uploads, NormalizeRel(u[1]) # NoPath
  PROVE  IsKey(NormalizeRel(u[1]))
<1> DEFINE S == {u[1][i] : i \in 1..Len(u[1])}
           key == Names(u[1])
<1>1. NormalizeRel(u[1]) = key /\ key # <<>> /\ ~Contains(key, "..")
  BY DEF NormalizeRel
<1>2. u[1] \in Seq(S)
  <2>1. IsSequence(u[1])
    BY PackageAssumption
  <2> QED
    BY <2>1, SequenceIsSeq
<1> HIDE DEF S
<1>3. key \in Seq(S \ {"", "."})
  BY <1>2, NamesAre
<1>4. \A n \in 0..Len(key) : SubSeq(key, 1, n) # NoPath
  BY PackageAssumption
<1> HIDE DEF key
<1>5. IsSequence(key) /\ \A i \in 1..Len(key) : key[i] \in S \ {"", "."}
  BY <1>3, SeqIsSequence
<1>7. \A i \in 1..Len(key) : key[i] # ".."
  BY <1>1 DEF Contains
<1> QED
  BY <1>1, <1>4, <1>5, <1>7 DEF IsKey

LEMMA KeysInvHolds == LibrarySpec => []KeysInv
<1>1. LibraryInit => KeysInv
  BY DEF LibraryInit, Init, KeysInv, Files
<1>2. ASSUME KeysInv, [LibraryNext]_<<topic, vars, configVars, prepVars, robot>>
      PROVE  KeysInv'
  <2>1. ASSUME UNCHANGED pkg PROVE KeysInv'
    BY <1>2, <2>1 DEF KeysInv, Files
  <2>2. ASSUME NEW u \in Uploads, AddFile(u[1], u[2])
        PROVE  KeysInv'
    <3>1. CASE NormalizeRel(u[1]) = NoPath
      BY <2>1, <2>2, <3>1 DEF AddFile
    <3>2. CASE NormalizeRel(u[1]) # NoPath
      <4> DEFINE key == NormalizeRel(u[1])
      <4>1. IsKey(key)
        BY <3>2, UploadIsKey
      <4>2. DOMAIN pkg' = DOMAIN pkg \cup {key}
        BY <2>2, <3>2 DEF AddFile, Files
      <4> HIDE DEF key
      <4> QED
        BY <1>2, <4>1, <4>2 DEF KeysInv, Files
    <3> QED
      BY <3>1, <3>2
  <2>3. CASE PackageNext
    <3>1. UNCHANGED pkg \/ \E u \in Uploads : AddFile(u[1], u[2])
      BY <2>3 DEF PackageNext, Inspect, SetLinkResult, ClearLinkResults, StartPackAll,
                  PackNext, EndPackAll
    <3> QED
      BY <2>1, <2>2, <3>1
  <2> QED
    BY <1>2, <2>1, <2>3 DEF LibraryNext, vars
<1> QED
  BY <1>1, <1>2, PTL DEF LibrarySpec

(***************************************************************************)
(* The resolvers of keys, for plain references.                            *)
(***************************************************************************)
PartsOf(path) == {path[i] : i \in 1..Len(path)}
Parts(files, ref) ==
  (UNION {PartsOf(f) : f \in files}) \cup PartsOf(ref.rel) \cup {ref.pkg}

LEMMA PartsAre ==
  ASSUME NEW files, NEW ref
  PROVE  /\ \A path \in files \cup {ref.rel} : PartsOf(path) \in SUBSET Parts(files, ref)
         /\ ref.pkg \in Parts(files, ref)
<1>1. PartsOf(ref.rel) \in SUBSET Parts(files, ref)
  BY DEF Parts
<1>2. ref.pkg \in Parts(files, ref)
  BY DEF Parts
<1>3. ASSUME NEW f \in files PROVE PartsOf(f) \in SUBSET Parts(files, ref)
  <2>1. PartsOf(f) \in {PartsOf(g) : g \in files}
    OBVIOUS
  <2> QED
    BY <2>1 DEF Parts
<1> QED
  BY <1>1, <1>2, <1>3

LEMMA ResolversAgree ==
  ASSUME NEW files, \A f \in files : IsKey(f), NEW urdf \in files,
         NEW ref, IsSequence(ref.rel), Plain(ref)
  PROVE  MemResolve(files, ref, urdf) = DiskResolve(files, ref, urdf)
<1> DEFINE S == Parts(files, ref)
           rel == ref.rel
           dir == Parent(urdf)
<1>1. /\ \A f \in files : f \in Seq(S) /\ f # <<>>
      /\ rel \in Seq(S) /\ ref.pkg \in S
  <2>1. \A f \in files : IsSequence(f) /\ f # <<>>
    BY DEF IsKey
  <2>2. ASSUME NEW path \in files \cup {rel} PROVE path \in Seq(S)
    <3>1. IsSequence(path)
      BY <2>1
    <3>2. \A i \in 1..Len(path) : path[i] \in S
      <4>1. PartsOf(path) \in SUBSET S
        BY PartsAre
      <4> QED
        BY <4>1 DEF PartsOf
    <3> HIDE DEF S
    <3> QED
      BY <3>1, <3>2, SequenceIsSeq
  <2>3. ref.pkg \in S
    BY PartsAre
  <2> QED
    BY <2>1, <2>2, <2>3
<1> HIDE DEF S
<1>2. ArePaths(files, S)
  BY <1>1 DEF ArePaths
<1>3. /\ rel # <<>> /\ rel[Len(rel)] \notin {".", ".."}
      /\ \A i \in 1..Len(rel) : rel[i] # ""
      /\ \A i \in 1..Len(rel) :
           rel[i] = ".." => ref.kind = "relative" /\ \A j \in 1..i : rel[j] = ".."
      /\ ref.kind # "absolute"
  BY DEF Plain
<1>6. Len(rel) \in Nat \ {0} /\ rel[Len(rel)] \notin {"", ".", ".."}
  <2> HIDE DEF rel
  <2>1. Len(rel) \in Nat /\ Len(rel) # 0
    BY <1>1, <1>3, EmptySeq
  <2>2. Len(rel) \in 1..Len(rel)
    BY <2>1
  <2> QED
    BY <1>3, <2>1, <2>2
<1>4. CASE ref.kind # "package"
  <2>1. dir \in Seq(S) /\ IsThere(files, dir)
    BY <1>2, AboveFile
  <2>2. PlainDir(files, dir)
    <3>1. urdf \in Seq(S) /\ dir = SubSeq(urdf, 1, Len(urdf) - 1) /\ Len(urdf) \in Nat \ {0}
      BY <1>1, ParentIs
    <3>2. /\ \A i \in 1..Len(urdf) : urdf[i] \notin {"", ".", ".."}
          /\ \A i \in 0..Len(urdf) : SubSeq(urdf, 1, i) # NoPath
      BY DEF IsKey
    <3> HIDE DEF dir
    <3>3. Len(dir) = Len(urdf) - 1 /\ \A i \in 1..Len(dir) : dir[i] = urdf[i] /\ i \in 1..Len(urdf)
      <4> DEFINE n == Len(urdf)
      <4>1. n \in Nat \ {0} /\ n - 1 \in Int /\ 1 \in Int /\ \A i \in 1..(n - 1) : urdf[i] \in S
        BY <3>1
      <4>2. dir = SubSeq(urdf, 1, n - 1)
        BY <3>1
      <4> HIDE DEF n
      <4>3. /\ Len(SubSeq(urdf, 1, n - 1)) = IF 1 <= n - 1 THEN (n - 1) - 1 + 1 ELSE 0
            /\ \A i \in 1..((n - 1) - 1 + 1) : SubSeq(urdf, 1, n - 1)[i] = urdf[1 + i - 1]
        BY <4>1, SubSeqProperties
      <4>4. Len(dir) = n - 1 /\ \A i \in 1..(n - 1) : dir[i] = urdf[i] /\ i \in 1..n
        <5>1. (n - 1) - 1 + 1 = n - 1 /\ \A i \in 1..(n - 1) : 1 + i - 1 = i
          BY <4>1
        <5> QED
          BY <4>1, <4>2, <4>3, <5>1
      <4> QED
        BY <4>4 DEF n
    <3>4. ASSUME NEW i \in 0..Len(dir) PROVE SubSeq(dir, 1, i) = SubSeq(urdf, 1, i)
      BY <3>1, <3>3, <3>4
    <3>5. 0..Len(dir) \in SUBSET (0..Len(urdf))
      BY <3>1, <3>3
    <3> QED
      BY <2>1, <3>2, <3>3, <3>4, <3>5 DEF PlainDir
  <2>3. PlainPath(rel)
    BY <1>3, <1>6 DEF PlainPath
  <2> HIDE DEF dir, rel
  <2>4. IfThere(files, JoinLexical(dir, rel)) = DiskWalk(files, dir, rel)
    BY <1>1, <1>2, <2>1, <2>2, <2>3, WalkAgrees
  <2> QED
    BY <1>3, <1>4, <2>4 DEF MemResolve, DiskResolve, UrdfDir, dir, rel
<1>5. CASE ref.kind = "package"
  <2> DEFINE long == <<ref.pkg>> \o rel
  <2>1. long \in Seq(S) /\ <<>> \o long = long /\ <<>> \o rel = rel /\ <<>> \in Seq(S)
    <3>1. <<ref.pkg>> \in Seq(S)
      BY <1>1
    <3>2. long \in Seq(S)
      BY <1>1, <3>1, ConcatProperties
    <3> HIDE DEF long
    <3>3. \A s \in Seq(S) : <<>> \o s = s
      BY ConcatEmptySeq
    <3> QED
      BY <1>1, <3>2, <3>3
  <2>2. PlainDir(files, <<>>)
    <3>1. urdf \in Seq(S)
      BY <1>1
    <3>2. SubSeq(urdf, 1, 0) = <<>> /\ 0 \in 0..Len(urdf)
      BY <3>1
    <3>3. <<>> # NoPath
      BY <3>2 DEF IsKey
    <3>4. SubSeq(<<>>, 1, 0) = <<>> /\ Len(<<>>) = 0
      OBVIOUS
    <3> QED
      BY <3>3, <3>4 DEF PlainDir, IsThere
  <2>3. PlainPath(rel)
    BY <1>3, <1>6 DEF PlainPath
  <2>4. PlainPath(long)
    <3> DEFINE n == Len(rel)
    <3>1. /\ n \in Nat \ {0} /\ Len(long) = n + 1 /\ long[1] = ref.pkg
          /\ \A i \in 1..n : long[i + 1] = rel[i]
      <4>1. Len(<<ref.pkg>>) = 1 /\ <<ref.pkg>> \in Seq(S) /\ <<ref.pkg>>[1] = ref.pkg
        BY <1>1
      <4>2. n \in Nat \ {0} /\ rel \in Seq(S)
        BY <1>1, <1>6
      <4>3. /\ Len(long) = 1 + n
            /\ \A i \in 1..(1 + n) : long[i] = IF i <= 1 THEN <<ref.pkg>>[i] ELSE rel[i - 1]
        BY <4>1, <4>2, ConcatProperties
      <4> HIDE DEF long, n
      <4>4. \A i \in 1..n : i + 1 \in 1..(1 + n) /\ ~ (i + 1 <= 1) /\ (i + 1) - 1 = i
        BY <4>2
      <4> QED
        BY <4>1, <4>2, <4>3, <4>4
    <3>2. rel[n] \notin {"", ".", ".."} /\ \A i \in 1..n : rel[i] # ".."
      BY <1>3, <1>5, <1>6
    <3> HIDE DEF n, long
    <3>3. ASSUME NEW i \in 1..(n + 1), long[i] = ".." PROVE \A j \in 1..i : long[j] = ".."
      <4>1. i = 1
        <5>1. i # 1 => i - 1 \in 1..n /\ i = (i - 1) + 1
          BY <3>1
        <5> QED
          BY <3>1, <3>2, <3>3, <5>1
      <4> QED
        BY <3>3, <4>1
    <3>4. long[n + 1] \notin {"", ".", ".."}
      <4>1. n \in 1..n
        BY <3>1
      <4> QED
        BY <3>1, <3>2, <4>1
    <3>5. long # <<>>
      BY <3>1
    <3> QED
      BY <3>1, <3>3, <3>4, <3>5 DEF PlainPath
  <2> HIDE DEF long, rel
  <2>5. /\ IfThere(files, JoinLexical(<<>>, long)) = DiskWalk(files, <<>>, long)
        /\ IfThere(files, JoinLexical(<<>>, rel)) = DiskWalk(files, <<>>, rel)
    BY <1>1, <1>2, <2>1, <2>2, <2>3, <2>4, WalkAgrees
  <2>6. JoinLexical(<<>>, long) = JoinLexical(<<ref.pkg>>, rel)
    BY <2>1 DEF JoinLexical, long
  <2> QED
    BY <1>5, <2>5, <2>6 DEF MemResolve, DiskResolve, long, rel
<1> QED
  BY <1>4, <1>5

\* What is found is in the package.
LEMMA FindsInside ==
  ASSUME NEW files, NEW ref, NEW urdf
  PROVE  MemResolve(files, ref, urdf) \in files \cup Dirs(files) \cup {NoPath}
<1> DEFINE inside == files \cup Dirs(files) \cup {NoPath}
<1>1. \A key : IfThere(files, key) \in inside
  BY DEF IfThere, Exists, IsDir
<1>2. ByName(files, ref.rel) \in inside
  BY DEF ByName
<1> HIDE DEF inside
<1>3. MemResolve(files, ref, urdf) \in inside
  BY <1>1, <1>2 DEF MemResolve, FirstOf
<1> QED
  BY <1>3 DEF inside

(***************************************************************************)
(* The resolvers of inspect.rs over a package in memory and over a         *)
(* directory find the same file for every plain reference, whatever files  *)
(* were added, and nothing outside the package.                            *)
(***************************************************************************)
THEOREM MemoryAlwaysAgreesWithDisk == LibrarySpec => []MemoryAgreesWithDisk
<1>1. KeysInv => MemoryAgreesWithDisk
  <2> SUFFICES ASSUME KeysInv, NEW ref \in References, NEW urdf \in Urdfs
               PROVE  /\ Plain(ref) => MemResolve(Files, ref, urdf) = DiskResolve(Files, ref, urdf)
                      /\ MemResolve(Files, ref, urdf) \in Files \cup Dirs(Files) \cup {NoPath}
    BY DEF MemoryAgreesWithDisk
  <2>1. urdf \in Files /\ IsSequence(ref.rel) /\ \A f \in Files : IsKey(f)
    BY PackageAssumption DEF Urdfs, KeysInv
  <2> QED
    BY <2>1, ResolversAgree, FindsInside
<1> QED
  BY <1>1, KeysInvHolds, PTL

-----------------------------------------------------------------------------
(***************************************************************************)
(* The robot package.                                                      *)
(***************************************************************************)
\* What a collision of some shape may be reported as, whatever files there are.
Actions(shape) ==
  CASE shape = "mesh" -> {"pack", "error"}
    [] shape = "sphere" -> {"remove-already-sphere"}
    [] shape \in {"box", "cylinder", "capsule"} -> {"remove-primitive"}
    [] OTHER -> {"error"}

ShapeAt(doc, at) == doc.links[at[1]].collisions[at[2]].shape

(***************************************************************************)
(* A report describes its text: one item for each collision of a robot,    *)
(* which names the collision's link and its number there.                  *)
(***************************************************************************)
DescribesItem(doc, it) ==
  /\ it.at \in Places(doc)
  /\ it.link = doc.links[it.at[1]].name /\ it.index = it.at[2]
  /\ it.action \in Actions(ShapeAt(doc, it.at))

Describes(rep) ==
  /\ rep.text \in DOMAIN Docs
  /\ Docs[rep.text].kind = "robot" =>
       /\ \A at \in Places(Docs[rep.text]) : \E it \in rep.items : it.at = at
       /\ \A it \in rep.items : DescribesItem(Docs[rep.text], it)
       /\ \A i, j \in rep.items : i.at = j.at => i = j

PackageInv ==
  /\ \A key \in DOMAIN spheres : spheres[key] \in Nat
  /\ report # NoReport => Describes(report)

\* A place is a link and a collision of it.
LEMMA PlacesAre ==
  ASSUME NEW d \in DOMAIN Docs, NEW at \in Places(Docs[d])
  PROVE  /\ at = <<at[1], at[2]>> /\ at[1] \in Nat /\ at[2] \in Nat
         /\ at[1] \in Links(Docs[d]) /\ at[2] \in DOMAIN Docs[d].links[at[1]].collisions
<1>1. PICK l \in Links(Docs[d]) : at \in {l} \X DOMAIN Docs[d].links[l].collisions
  BY DEF Places
<1>2. at \in Nat \X Nat
  BY PackageAssumption
<1> QED
  BY <1>1, <1>2

\* A fresh report describes its text.
LEMMA InspectDescribes ==
  ASSUME NEW urdf \in Urdfs
  PROVE  Describes(InspectUrdf(urdf))
<1> DEFINE d == pkg[urdf]
           doc == Docs[d]
           rep == InspectUrdf(urdf)
<1>1. d \in DOMAIN Docs /\ rep.text = d
  BY DEF Urdfs, InspectUrdf
<1>2. ASSUME doc.kind = "robot"
      PROVE  /\ \A at \in Places(doc) : \E it \in rep.items : it.at = at
             /\ \A it \in rep.items : DescribesItem(doc, it)
             /\ \A i, j \in rep.items : i.at = j.at => i = j
  <2>1. rep.items = {ItemAt(doc, urdf, at) : at \in Places(doc)}
    BY <1>2 DEF InspectUrdf
  <2>2. ASSUME NEW at \in Places(doc)
        PROVE  ItemAt(doc, urdf, at).at = at /\ DescribesItem(doc, ItemAt(doc, urdf, at))
    <3>1. \A shape, path : ActionOf(shape, path) \in Actions(shape)
      BY DEF ActionOf, PackAction, Actions
    <3> QED
      BY <3>1 DEF ItemAt, DescribesItem, ShapeAt, CollisionIndex
  <2> HIDE DEF rep, doc
  <2> QED
    BY <2>1, <2>2
<1> QED
  BY <1>1, <1>2 DEF Describes

\* The report a host asks for is a fresh one.
LEMMA ReportDescribes ==
  ASSUME NEW requested, Report(requested) # NoReport
  PROVE  Describes(Report(requested))
<1> DEFINE urdf == SelectUrdf(Urdfs, requested)
<1>1. urdf # NoPath /\ Report(requested) = InspectUrdf(urdf)
  BY DEF Report
<1>2. urdf \in Urdfs
  BY <1>1 DEF SelectUrdf
<1> HIDE DEF urdf
<1> QED
  BY <1>1, <1>2, InspectDescribes

\* An item is looked for where it was found.
LEMMA TargetIsPlace ==
  ASSUME NEW d \in DOMAIN Docs, NamesAreUnique(Docs[d]), NEW it, DescribesItem(Docs[d], it)
  PROVE  Target(Docs[d], it) = it.at /\ Target(Docs[d], it) # NoPath
<1> DEFINE doc == Docs[d]
           l == it.at[1]
           named == {k \in Links(doc) : doc.links[k].name = it.link}
<1>1. /\ it.at = <<l, it.at[2]>> /\ l \in Nat /\ it.at[2] \in Nat
      /\ l \in Links(doc) /\ it.index = it.at[2] /\ it.index \in DOMAIN doc.links[l].collisions
      /\ it.link = doc.links[l].name
  BY PlacesAre DEF DescribesItem
<1>2. named = {l}
  BY <1>1 DEF NamesAreUnique
<1>3. l <= l
  BY <1>1
<1>4. (CHOOSE k \in named : \A m \in named : k <= m) = l
  BY <1>2, <1>3
<1>5. Target(doc, it) = <<l, it.index>>
  BY <1>1, <1>2, <1>4 DEF Target
<1>6. it.at \in Nat \X Nat
  BY <1>1
<1> QED
  BY <1>1, <1>5, <1>6, PackageAssumption

\* As many spheres are added for a place as were recorded.
Numbered(parent, for, n) == {[parent |-> parent, for |-> for, k |-> k] : k \in 1..n}

LEMMA NumberedSpheres ==
  ASSUME NEW n \in Nat, NEW parent, NEW for
  PROVE  Cardinality(Numbered(parent, for, n)) = n
<1> DEFINE one(k) == [parent |-> parent, for |-> for, k |-> k]
           S == {one(k) : k \in 1..n}
           f == [k \in 1..n |-> one(k)]
<1>1. \A k, m \in 1..n : one(k) = one(m) => k = m
  BY DEF one
<1> HIDE DEF one
<1>2. f \in Bijection(1..n, S)
  BY <1>1 DEF Bijection, Injection, Surjection, IsInjective
<1>3. ExistsBijection(1..n, S)
  BY <1>2 DEF ExistsBijection
<1>4. IsFiniteSet(1..n) /\ Cardinality(1..n) = n
  BY FS_Interval
<1> QED
  BY <1>3, <1>4, FS_Bijection DEF one, Numbered

\* How each item of a report ends.
LEMMA OutcomeIs ==
  ASSUME NEW d \in DOMAIN Docs, NamesAreUnique(Docs[d]), NEW it, DescribesItem(Docs[d], it)
  PROVE  LET shape == ShapeAt(Docs[d], it.at)
             end == Outcome(Docs[d], it)
         IN  /\ shape = "mesh" /\ it.action = "pack" =>
                  end = IF Key(it) \in DOMAIN spheres THEN "replaced" ELSE "skipped"
             /\ shape \in {"sphere", "box", "cylinder", "capsule"} => end = "removed"
             /\ it.action = "error" => end = "kept"
             /\ shape \notin {"mesh", "sphere", "box", "cylinder", "capsule"} => it.action = "error"
             /\ shape = "mesh" => it.action \in {"pack", "error"}
             /\ it.action = "pack" => shape = "mesh"
<1>1. Target(Docs[d], it) # NoPath
  BY TargetIsPlace
<1>2. it.action \in Actions(ShapeAt(Docs[d], it.at))
  BY DEF DescribesItem
<1> QED
  BY <1>1, <1>2 DEF Outcome, Actions

(***************************************************************************)
(* A report that describes a text with unique names loses no collision of  *)
(* it.                                                                     *)
(***************************************************************************)
LEMMA NothingIsLost ==
  ASSUME PackageInv, NEW rep, Describes(rep), rep.urdf \in Urdfs, pkg[rep.urdf] = rep.text,
         TextOf(rep).kind = "robot", NamesAreUnique(TextOf(rep))
  PROVE  /\ ~Assembled(rep).panics
         /\ \A at \in Places(TextOf(rep)) : KeepsItsPlace(TextOf(rep), Assembled(rep), at)
         /\ {it.at : it \in Assembled(rep).skipped} =
              {it.at : it \in ToPack(rep)} \ Assembled(rep).cut
<1> DEFINE d == rep.text
           doc == Docs[d]
           out == Assembled(rep)
           End(it) == Outcome(doc, it)
           CutOut(it) == End(it) \in {"replaced", "removed"}
           Replaced == {it \in rep.items : End(it) = "replaced"}
           New(it) == {[parent |-> it.link, for |-> it.at, k |-> k] : k \in 1..spheres[Key(it)]}
<1>1. d \in DOMAIN Docs /\ TextOf(rep) = doc
  BY DEF Describes, TextOf
<1>2. /\ NamesAreUnique(doc)
      /\ \A at \in Places(doc) : \E it \in rep.items : it.at = at
      /\ \A it \in rep.items : DescribesItem(doc, it)
      /\ \A i, j \in rep.items : i.at = j.at => i = j
  BY <1>1 DEF Describes
<1>3. /\ out.panics = \E i, j \in rep.items :
                        i # j /\ CutOut(i) /\ CutOut(j) /\ Target(doc, i) = Target(doc, j)
      /\ out.cut = {Target(doc, it) : it \in {i \in rep.items : CutOut(i)}}
      /\ out.added = UNION {New(it) : it \in Replaced}
      /\ out.skipped = {it \in rep.items : End(it) = "skipped"}
  BY <1>1 DEF Assembled, Rewrite
<1>4. ASSUME NEW it \in rep.items
      PROVE  Target(doc, it) = it.at
  BY <1>1, <1>2, TargetIsPlace
<1>5. ASSUME NEW it \in rep.items
      PROVE  /\ ShapeAt(doc, it.at) = "mesh" /\ it.action = "pack" =>
                  End(it) = IF Key(it) \in DOMAIN spheres THEN "replaced" ELSE "skipped"
             /\ ShapeAt(doc, it.at) \in {"sphere", "box", "cylinder", "capsule"} => End(it) = "removed"
             /\ it.action = "error" => End(it) = "kept"
             /\ ShapeAt(doc, it.at) \notin {"mesh", "sphere", "box", "cylinder", "capsule"} =>
                  it.action = "error"
             /\ ShapeAt(doc, it.at) = "mesh" => it.action \in {"pack", "error"}
             /\ it.action = "pack" => ShapeAt(doc, it.at) = "mesh"
  BY <1>1, <1>2, OutcomeIs
<1> HIDE DEF doc, out, End, New
<1>6. \A it \in rep.items : it.at \in out.cut <=> CutOut(it)
  BY <1>2, <1>3, <1>4
<1>7. ~out.panics
  BY <1>2, <1>3, <1>4
<1>8. ASSUME NEW at \in Places(doc)
      PROVE  KeepsItsPlace(doc, out, at)
  <2> DEFINE instead == {a \in out.added : a.for = at}
             key == <<doc.links[at[1]].name, at[2]>>
             shape == ShapeAt(doc, at)
  <2>1. PICK it \in rep.items : it.at = at
    BY <1>2
  <2>2. Key(it) = key /\ it.link = doc.links[at[1]].name
    BY <1>2, <2>1 DEF DescribesItem, Key
  <2>3. \A i \in rep.items : \A a \in New(i) : a.for = i.at /\ a.parent = i.link
    BY DEF New
  <2>4. instead = IF it \in Replaced THEN New(it) ELSE {}
    BY <1>2, <1>3, <2>1, <2>3
  <2>5. ASSUME shape = "mesh", at \in out.cut
        PROVE  /\ key \in DOMAIN spheres /\ Cardinality(instead) = spheres[key]
               /\ \A a \in instead : a.parent = doc.links[at[1]].name
    <3>1. End(it) = "replaced" /\ key \in DOMAIN spheres
      BY <1>5, <1>6, <2>1, <2>2, <2>5
    <3>2. instead = New(it)
      BY <2>4, <3>1
    <3>3. spheres[key] \in Nat
      BY <3>1 DEF PackageInv
    <3>4. Cardinality(New(it)) = spheres[key]
      <4> DEFINE n == spheres[key]
      <4>1. New(it) = Numbered(it.link, it.at, n)
        BY <2>2 DEF New, Numbered
      <4> HIDE DEF n
      <4>2. n \in Nat
        BY <3>3 DEF n
      <4>3. Cardinality(New(it)) = n
        BY <4>1, <4>2, NumberedSpheres
      <4> QED
        BY <4>3 DEF n
    <3> QED
      BY <2>2, <2>3, <3>1, <3>2, <3>4
  <2>6. shape = "mesh" /\ at \notin out.cut => instead = {}
    BY <1>6, <2>1, <2>4
  <2>7. shape \in {"sphere", "box", "cylinder", "capsule"} => at \in out.cut
    BY <1>5, <1>6, <2>1
  <2>8. shape \notin {"mesh", "sphere", "box", "cylinder", "capsule"} => at \notin out.cut
    BY <1>5, <1>6, <2>1
  <2> HIDE DEF instead
  <2>9. KeepsItsPlace(doc, out, at) =
          CASE shape = "mesh" ->
                 IF at \in out.cut
                 THEN /\ key \in DOMAIN spheres /\ Cardinality(instead) = spheres[key]
                      /\ \A a \in instead : a.parent = doc.links[at[1]].name
                 ELSE instead = {}
            [] shape \in {"sphere", "box", "cylinder", "capsule"} -> at \in out.cut
            [] OTHER -> at \notin out.cut
    BY DEF KeepsItsPlace, ShapeAt, instead
  <2> HIDE DEF shape, key
  <2> QED
    BY <2>5, <2>6, <2>7, <2>8, <2>9
<1>9. {it.at : it \in out.skipped} = {it.at : it \in ToPack(rep)} \ out.cut
  <2>1. \A it \in rep.items : End(it) = "skipped" <=> it.action = "pack" /\ ~CutOut(it)
    <3> TAKE it \in rep.items
    <3>1. DescribesItem(doc, it)
      BY <1>2
    <3>2. End(it) = "skipped" => it.action = "pack"
      <4>1. it.action \in Actions(ShapeAt(doc, it.at))
        BY <3>1 DEF DescribesItem
      <4>2. it.action = "pack" \/ it.action = "error" \/ ShapeAt(doc, it.at) \in {"sphere", "box", "cylinder", "capsule"}
        BY <1>5
      <4> QED
        BY <1>5, <4>2
    <3> QED
      BY <1>5, <3>2
  <2>2. out.skipped = {it \in ToPack(rep) : ~CutOut(it)}
    BY <1>3, <2>1 DEF ToPack
  <2>3. \A it \in ToPack(rep) : it \in rep.items
    BY DEF ToPack
  <2> HIDE DEF CutOut
  <2> QED
    BY <1>6, <2>2, <2>3
<1> QED
  BY <1>1, <1>7, <1>8, <1>9 DEF out

(***************************************************************************)
(* Every step keeps PackageInv: files change nothing a report says, a      *)
(* report is made fresh, and results are numbers of spheres.               *)
(***************************************************************************)
LEMMA RecordedIsNumber ==
  ASSUME PackageInv, NEW key, NEW n \in SphereSets, Recorded(key, n)
  PROVE  \A k \in DOMAIN spheres' : spheres'[k] \in Nat
<1>1. n \in Nat
  BY PackageAssumption
<1> QED
  BY <1>1 DEF Recorded, PackageInv

LEMMA PackageInvHolds == LibrarySpec => []PackageInv
<1>1. LibraryInit => PackageInv
  BY DEF LibraryInit, Init, PackageInv
<1>2. ASSUME PackageInv, [LibraryNext]_<<topic, vars, configVars, prepVars, robot>>
      PROVE  PackageInv'
  <2>1. CASE UNCHANGED vars
    BY <1>2, <2>1 DEF PackageInv, vars, Describes, DescribesItem
  <2>2. ASSUME UNCHANGED spheres, UNCHANGED report
        PROVE  PackageInv'
    BY <1>2, <2>2 DEF PackageInv, Describes, DescribesItem
  <2>3. ASSUME NEW key, NEW n \in SphereSets, Recorded(key, n), UNCHANGED report
        PROVE  PackageInv'
    BY <1>2, <2>3, RecordedIsNumber DEF PackageInv, Describes, DescribesItem
  <2>4. ASSUME NEW rel, NEW content, AddFile(rel, content)
        PROVE  PackageInv'
    BY <2>2, <2>4 DEF AddFile
  <2>5. ASSUME NEW name, Inspect(name)
        PROVE  PackageInv'
    <3>1. Describes(Report(name)) /\ report' = Report(name) /\ UNCHANGED spheres
      BY <2>5, ReportDescribes DEF Inspect
    <3>2. Describes(report')
      BY <3>1
    <3> QED
      BY <1>2, <3>1, <3>2 DEF PackageInv
  <2>6. ASSUME NEW key, NEW n \in SphereSets, SetLinkResult(key, n)
        PROVE  PackageInv'
    BY <2>3, <2>6 DEF SetLinkResult
  <2>7. CASE ClearLinkResults
    BY <1>2, <2>7 DEF ClearLinkResults, PackageInv, Describes, DescribesItem
  <2>8. ASSUME NEW name, StartPackAll(name)
        PROVE  PackageInv'
    BY <2>2, <2>8 DEF StartPackAll
  <2>9. ASSUME NEW it, NEW n \in SphereSets, PackNext(it, n)
        PROVE  PackageInv'
    BY <2>3, <2>9 DEF PackNext
  <2>10. CASE EndPackAll
    BY <2>2, <2>10 DEF EndPackAll
  <2>11. CASE PackageNext
    BY <2>4, <2>5, <2>6, <2>7, <2>8, <2>9, <2>10, <2>11 DEF PackageNext
  <2> QED
    BY <1>2, <2>1, <2>11 DEF LibraryNext, vars
<1> QED
  BY <1>1, <1>2, PTL DEF LibrarySpec

(***************************************************************************)
(* Whatever files, reports and results a package goes through, assembling  *)
(* loses no collision geometry (assemble.rs).                              *)
(***************************************************************************)
THEOREM NoCollisionIsEverLost == LibrarySpec => []NoCollisionIsLost
<1>1. PackageInv => NoCollisionIsLost
  <2> SUFFICES ASSUME PackageInv,
                      NEW rep \in {InspectUrdf(u) : u \in Urdfs} \cup ({report} \ {NoReport}),
                      rep.urdf \in Urdfs, pkg[rep.urdf] = rep.text,
                      TextOf(rep).kind = "robot", NamesAreUnique(TextOf(rep))
               PROVE  /\ ~Assembled(rep).panics
                      /\ \A at \in Places(TextOf(rep)) :
                           KeepsItsPlace(TextOf(rep), Assembled(rep), at)
                      /\ {it.at : it \in Assembled(rep).skipped} =
                           {it.at : it \in ToPack(rep)} \ Assembled(rep).cut
    BY DEF NoCollisionIsLost
  <2>1. Describes(rep)
    BY InspectDescribes DEF PackageInv
  <2> QED
    BY <2>1, NothingIsLost
<1> QED
  BY <1>1, PackageInvHolds, PTL

-----------------------------------------------------------------------------
(***************************************************************************)
(* The scene.  Rigid transforms move vectors to vectors, and moving by a   *)
(* composed one is moving twice.                                           *)
(***************************************************************************)
Rigid == [rotation : [Axes -> Vectors], translation : Vectors]

LEMMA DotIsInt ==
  ASSUME NEW u \in Vectors, NEW v \in Vectors
  PROVE  Dot(u, v) \in Int
BY DEF Dot, Vectors, Axes

LEMMA RotatedIsVector ==
  ASSUME NEW r \in [Axes -> Vectors], NEW v \in Vectors
  PROVE  Rotate(r, v) \in Vectors
BY DotIsInt DEF Rotate, Vectors

LEMMA PlusIsVector ==
  ASSUME NEW u \in Vectors, NEW v \in Vectors
  PROVE  Plus(u, v) \in Vectors
BY DEF Plus, Vectors

LEMMA ComposedIsRotation ==
  ASSUME NEW r \in [Axes -> Vectors], NEW s \in [Axes -> Vectors]
  PROVE  Compose(r, s) \in [Axes -> Vectors]
<1>1. ASSUME NEW k \in Axes PROVE Column(s, k) \in Vectors
  BY DEF Column, Vectors
<1>2. ASSUME NEW i \in Axes, NEW k \in Axes PROVE Dot(r[i], Column(s, k)) \in Int
  BY <1>1, DotIsInt
<1> QED
  BY <1>2 DEF Compose, Vectors

LEMMA RpyIsRotation ==
  ASSUME NEW rpy \in Vectors
  PROVE  RpyToMatrix(rpy) \in [Axes -> Vectors]
<1>1. ASSUME NEW a \in Int PROVE Cos(a) \in Int /\ Sin(a) \in Int
  <2>1. ASSUME NEW b \in Int PROVE Cos(b) \in Int
    <3>1. (b % 4) + 1 \in 1..4
      OBVIOUS
    <3> QED
      BY <3>1 DEF Cos
  <2> QED
    BY <2>1 DEF Sin
<1>2. /\ rpy[1] \in Int /\ rpy[2] \in Int /\ rpy[3] \in Int
  BY DEF Vectors, Axes
<1> DEFINE sr == Sin(rpy[1])  cr == Cos(rpy[1])
           sp == Sin(rpy[2])  cp == Cos(rpy[2])
           sy == Sin(rpy[3])  cy == Cos(rpy[3])
<1>3. sr \in Int /\ cr \in Int /\ sp \in Int /\ cp \in Int /\ sy \in Int /\ cy \in Int
  BY <1>1, <1>2
<1>4. RpyToMatrix(rpy) =
        <<<<cy * cp, cy * sp * sr - sy * cr, cy * sp * cr + sy * sr>>,
          <<sy * cp, sy * sp * sr + cy * cr, sy * sp * cr - cy * sr>>,
          <<-sp, cp * sr, cp * cr>>>>
  BY DEF RpyToMatrix
<1> HIDE DEF sr, cr, sp, cp, sy, cy
<1>5. /\ cy * cp \in Int /\ cy * sp * sr - sy * cr \in Int /\ cy * sp * cr + sy * sr \in Int
      /\ sy * cp \in Int /\ sy * sp * sr + cy * cr \in Int /\ sy * sp * cr - cy * sr \in Int
      /\ -sp \in Int /\ cp * sr \in Int /\ cp * cr \in Int
  BY <1>3
<1>6. \A a, b, c \in Int : <<a, b, c>> \in Vectors
  BY DEF Vectors, Axes
<1>7. \A a, b, c \in Vectors : <<a, b, c>> \in [Axes -> Vectors]
  BY DEF Axes
<1> QED
  BY <1>4, <1>5, <1>6, <1>7

LEMMA OriginIsRigid ==
  ASSUME NEW o, IsOrigin(o)
  PROVE  FromOrigin(o) \in Rigid
BY RpyIsRotation DEF FromOrigin, Rigid, IsOrigin

LEMMA IdentityIsRigid == Identity \in Rigid
<1>1. IsOrigin(Origin(Still, Still))
  BY DEF IsOrigin, Origin, Still, Vectors, Axes
<1> QED
  BY <1>1, OriginIsRigid DEF Identity

LEMMA AfterIsRigid ==
  ASSUME NEW p \in Rigid, NEW q \in Rigid
  PROVE  After(p, q) \in Rigid
<1>1. /\ p.rotation \in [Axes -> Vectors] /\ q.rotation \in [Axes -> Vectors]
      /\ p.translation \in Vectors /\ q.translation \in Vectors
  BY DEF Rigid
<1>2. /\ Compose(p.rotation, q.rotation) \in [Axes -> Vectors]
      /\ Plus(Rotate(p.rotation, q.translation), p.translation) \in Vectors
  BY <1>1, ComposedIsRotation, RotatedIsVector, PlusIsVector
<1> QED
  BY <1>2 DEF After, Rigid

LEMMA RotatedTwice ==
  ASSUME NEW r \in [Axes -> Vectors], NEW s \in [Axes -> Vectors], NEW v \in Vectors
  PROVE  Rotate(Compose(r, s), v) = Rotate(r, Rotate(s, v))
<1> SUFFICES ASSUME NEW i \in Axes
             PROVE  Dot(Compose(r, s)[i], v) = Dot(r[i], Rotate(s, v))
  BY DEF Rotate
<1>1. /\ Compose(r, s)[i][1] = Dot(r[i], Column(s, 1))
      /\ Compose(r, s)[i][2] = Dot(r[i], Column(s, 2))
      /\ Compose(r, s)[i][3] = Dot(r[i], Column(s, 3))
  BY DEF Compose, Axes
<1>2. \A k \in Axes : Column(s, k)[1] = s[1][k] /\ Column(s, k)[2] = s[2][k] /\ Column(s, k)[3] = s[3][k]
  BY DEF Column, Axes
<1>3. /\ Rotate(s, v)[1] = Dot(s[1], v) /\ Rotate(s, v)[2] = Dot(s[2], v)
      /\ Rotate(s, v)[3] = Dot(s[3], v)
  BY DEF Rotate, Axes
<1>4. \A k \in Axes : r[i][k] \in Int /\ v[k] \in Int /\ s[1][k] \in Int /\ s[2][k] \in Int /\ s[3][k] \in Int
  BY DEF Vectors, Axes
<1>5. 1 \in Axes /\ 2 \in Axes /\ 3 \in Axes
  BY DEF Axes
<1>6. ASSUME NEW a1 \in Int, NEW a2 \in Int, NEW a3 \in Int, NEW v1 \in Int, NEW v2 \in Int, NEW v3 \in Int,
             NEW s11 \in Int, NEW s12 \in Int, NEW s13 \in Int, NEW s21 \in Int, NEW s22 \in Int,
             NEW s23 \in Int, NEW s31 \in Int, NEW s32 \in Int, NEW s33 \in Int
      PROVE  (a1 * s11 + a2 * s21 + a3 * s31) * v1 + (a1 * s12 + a2 * s22 + a3 * s32) * v2
               + (a1 * s13 + a2 * s23 + a3 * s33) * v3
             = a1 * (s11 * v1 + s12 * v2 + s13 * v3) + a2 * (s21 * v1 + s22 * v2 + s23 * v3)
               + a3 * (s31 * v1 + s32 * v2 + s33 * v3)
  OBVIOUS
<1> QED
  BY <1>1, <1>2, <1>3, <1>4, <1>5, <1>6 DEF Dot

LEMMA MovedTwice ==
  ASSUME NEW p \in Rigid, NEW o, IsOrigin(o), NEW v \in Vectors
  PROVE  After(p, FromOrigin(Origin(ApplyCollisionTransform(v, o), Still))).translation
           = TransformPoint(CollisionPose(p, o), v)
<1> DEFINE r == p.rotation
           s == RpyToMatrix(o.rpy)
           turned == Rotate(s, v)
<1>1. /\ r \in [Axes -> Vectors] /\ p.translation \in Vectors /\ s \in [Axes -> Vectors]
      /\ o.xyz \in Vectors /\ turned \in Vectors
  BY RpyIsRotation, RotatedIsVector DEF Rigid, IsOrigin
<1>2. After(p, FromOrigin(Origin(ApplyCollisionTransform(v, o), Still))).translation
        = Plus(Rotate(r, Plus(turned, o.xyz)), p.translation)
  BY DEF After, FromOrigin, Origin, ApplyCollisionTransform
<1>3. TransformPoint(CollisionPose(p, o), v)
        = Plus(Rotate(Compose(r, s), v), Plus(Rotate(r, o.xyz), p.translation))
  BY DEF TransformPoint, CollisionPose, After, FromOrigin
<1>4. Rotate(Compose(r, s), v) = Rotate(r, turned)
  BY <1>1, RotatedTwice
<1> HIDE DEF r, s, turned
<1>5. ASSUME NEW a \in Vectors, NEW b \in Vectors, NEW c \in Vectors
      PROVE  Plus(Rotate(r, Plus(a, b)), c) = Plus(Rotate(r, a), Plus(Rotate(r, b), c))
  <2> SUFFICES ASSUME NEW i \in Axes
               PROVE  Dot(r[i], Plus(a, b)) + c[i] = Dot(r[i], a) + (Dot(r[i], b) + c[i])
    BY DEF Plus, Rotate
  <2>1. r[i] \in Vectors
    BY <1>1
  <2>2. /\ r[i][1] \in Int /\ r[i][2] \in Int /\ r[i][3] \in Int
        /\ a[1] \in Int /\ a[2] \in Int /\ a[3] \in Int
        /\ b[1] \in Int /\ b[2] \in Int /\ b[3] \in Int /\ c[i] \in Int
    BY <2>1 DEF Vectors, Axes
  <2>3. /\ Plus(a, b)[1] = a[1] + b[1] /\ Plus(a, b)[2] = a[2] + b[2] /\ Plus(a, b)[3] = a[3] + b[3]
    BY DEF Plus, Axes
  <2>4. ASSUME NEW x \in Int, NEW y \in Int, NEW z \in Int, NEW a1 \in Int, NEW a2 \in Int, NEW a3 \in Int,
               NEW b1 \in Int, NEW b2 \in Int, NEW b3 \in Int, NEW d \in Int
        PROVE  (x * (a1 + b1) + y * (a2 + b2) + z * (a3 + b3)) + d
               = (x * a1 + y * a2 + z * a3) + ((x * b1 + y * b2 + z * b3) + d)
    OBVIOUS
  <2> QED
    BY <2>2, <2>3, <2>4 DEF Dot
<1> QED
  BY <1>1, <1>2, <1>3, <1>4, <1>5

(***************************************************************************)
(* What a search has: poses for some links, those in the queue among them. *)
(***************************************************************************)
PosesOf(S) == UNION {[D -> Rigid] : D \in SUBSET S}
IsQueue(queue, poses) == \A i \in 1..Len(queue) : queue[i] \in DOMAIN poses
Searches(S) ==
  {search \in [poses : PosesOf(S), queue : Seq(S)] : IsQueue(search.queue, search.poses)}

LEMMA SearchHas ==
  ASSUME NEW S, NEW search \in Searches(S)
  PROVE  /\ search = [poses |-> search.poses, queue |-> search.queue]
         /\ DOMAIN search.poses \in SUBSET S
         /\ search.poses \in [DOMAIN search.poses -> Rigid]
         /\ search.queue \in Seq(S) /\ IsQueue(search.queue, search.poses)
<1>1. /\ search \in [poses : PosesOf(S), queue : Seq(S)] /\ IsQueue(search.queue, search.poses)
  BY DEF Searches
<1>2. search = [poses |-> search.poses, queue |-> search.queue]
      /\ search.poses \in PosesOf(S) /\ search.queue \in Seq(S)
  BY <1>1
<1>3. PICK D \in SUBSET S : search.poses \in [D -> Rigid]
  BY <1>2 DEF PosesOf
<1>4. DOMAIN search.poses = D
  BY <1>3
<1> QED
  BY <1>1, <1>2, <1>3, <1>4

LEMMA SearchMade ==
  ASSUME NEW S, NEW poses, DOMAIN poses \in SUBSET S, poses \in [DOMAIN poses -> Rigid],
         NEW queue \in Seq(S), IsQueue(queue, poses)
  PROVE  [poses |-> poses, queue |-> queue] \in Searches(S)
<1>1. poses \in PosesOf(S)
  BY DEF PosesOf
<1> QED
  BY <1>1 DEF Searches

\* Placing a link that has no pose.
LEMMA PlacedIs ==
  ASSUME NEW S, NEW search \in Searches(S), NEW name \in S, NEW pose \in Rigid
  PROVE  LET after == Placed(search, name, pose)
         IN  /\ after \in Searches(S)
             /\ DOMAIN after.poses = DOMAIN search.poses \cup {name}
             /\ after.poses[name] = pose
             /\ \A l \in DOMAIN search.poses : l # name => after.poses[l] = search.poses[l]
             /\ after.queue = Append(search.queue, name)
<1> DEFINE after == Placed(search, name, pose)
           D == DOMAIN search.poses \cup {name}
           poses == [l \in D |-> IF l = name THEN pose ELSE search.poses[l]]
           queue == Append(search.queue, name)
<1>1. after = [poses |-> poses, queue |-> queue]
  BY DEF Placed
<1>2. /\ DOMAIN search.poses \in SUBSET S /\ search.poses \in [DOMAIN search.poses -> Rigid]
      /\ search.queue \in Seq(S) /\ IsQueue(search.queue, search.poses)
  BY SearchHas
<1>3. DOMAIN poses = D /\ D \in SUBSET S /\ poses \in [D -> Rigid]
  BY <1>2
<1>4. queue \in Seq(S) /\ IsQueue(queue, poses)
  <2>1. /\ queue \in Seq(S) /\ Len(queue) = Len(search.queue) + 1 /\ Len(search.queue) \in Nat
        /\ \A i \in 1..Len(search.queue) : queue[i] = search.queue[i]
        /\ queue[Len(search.queue) + 1] = name
    BY <1>2, AppendProperties
  <2> HIDE DEF queue
  <2>2. ASSUME NEW i \in 1..Len(queue) PROVE queue[i] \in D
    <3>1. i \in 1..Len(search.queue) \/ i = Len(search.queue) + 1
      BY <2>1
    <3> QED
      BY <1>2, <2>1, <3>1 DEF IsQueue
  <2> QED
    BY <1>3, <2>1, <2>2 DEF IsQueue
<1>5. /\ poses[name] = pose
      /\ \A l \in DOMAIN search.poses : l # name => poses[l] = search.poses[l]
  OBVIOUS
<1> HIDE DEF poses, queue
<1>6. [poses |-> poses, queue |-> queue] \in Searches(S)
  BY <1>3, <1>4, SearchMade
<1>7. after.poses = poses /\ after.queue = queue
  BY <1>1
<1> QED
  BY <1>1, <1>3, <1>5, <1>6, <1>7 DEF queue

(***************************************************************************)
(* The steps of a search are those of its loops.                           *)
(***************************************************************************)
IsGraph(r, S) ==
  /\ IsSequence(r.links) /\ IsSequence(r.joints)
  /\ \A i \in 1..Len(r.links) : r.links[i].name \in S
  /\ \A i \in 1..Len(r.joints) : r.joints[i].child \in S /\ IsOrigin(r.joints[i].origin)

Nothing == [poses |-> [l \in {} |-> Identity], queue |-> <<>>]

LEMMA NothingIsSearch ==
  ASSUME NEW S PROVE Nothing \in Searches(S)
<1> DEFINE poses == [l \in {} |-> Identity]
<1>1. DOMAIN poses = {} /\ poses \in [{} -> Rigid]
  OBVIOUS
<1>2. <<>> \in Seq(S) /\ Len(<<>>) = 0
  OBVIOUS
<1>3. IsQueue(<<>>, poses)
  BY <1>2 DEF IsQueue
<1> HIDE DEF poses
<1>4. [poses |-> poses, queue |-> <<>>] \in Searches(S)
  BY <1>1, <1>2, <1>3, SearchMade
<1> QED
  BY <1>4 DEF Nothing, poses

LEMMA RootIsPlaced ==
  ASSUME NEW S, NEW r, NEW search \in Searches(S), NEW link, link.name \in S
  PROVE  WithRoot(r, search, link) \in Searches(S)
<1>1. Placed(search, link.name, Identity) \in Searches(S)
  BY IdentityIsRigid, PlacedIs
<1> QED
  BY <1>1 DEF WithRoot

\* The searches that know where the parent is.
From(S, parent) == {search \in Searches(S) : parent \in DOMAIN search.poses}

LEMMA FollowedIs ==
  ASSUME NEW S, NEW parent, NEW search \in From(S, parent), NEW j, j.child \in S, IsOrigin(j.origin)
  PROVE  LET pose == After(search.poses[parent], FromOrigin(j.origin))
         IN  /\ Followed(parent, search, j) \in From(S, parent)
             /\ pose \in Rigid
             /\ IsJoint(j) /\ j.parent = parent /\ j.child \notin DOMAIN search.poses =>
                  Followed(parent, search, j) = Placed(search, j.child, pose)
             /\ ~(IsJoint(j) /\ j.parent = parent /\ j.child \notin DOMAIN search.poses) =>
                  Followed(parent, search, j) = search
<1> DEFINE pose == After(search.poses[parent], FromOrigin(j.origin))
<1>1. search \in Searches(S) /\ parent \in DOMAIN search.poses
  BY DEF From
<1>2. search.poses[parent] \in Rigid
  BY <1>1, SearchHas
<1>3. pose \in Rigid
  BY <1>2, AfterIsRigid, OriginIsRigid
<1> HIDE DEF pose
<1>4. /\ Placed(search, j.child, pose) \in Searches(S)
      /\ DOMAIN Placed(search, j.child, pose).poses = DOMAIN search.poses \cup {j.child}
  BY <1>1, <1>3, PlacedIs
<1>5. Placed(search, j.child, pose) \in From(S, parent)
  BY <1>1, <1>4 DEF From
<1> QED
  BY <1>3, <1>5 DEF Followed, pose

\* The walk over the links that finds the roots.
IsRooting(after, r, S) ==
  /\ after \in [0..Len(r.links) -> Searches(S)] /\ after[0] = Nothing
  /\ \A i \in 1..Len(r.links) : after[i] = WithRoot(r, after[i - 1], r.links[i])
  /\ Roots(r) = after[Len(r.links)]

LEMMA RootsAre ==
  ASSUME NEW S, NEW r, IsGraph(r, S)
  PROVE  \E after : IsRooting(after, r, S)
<1> DEFINE s == r.links
           n == Len(s)
           Acc == Searches(S)
           Step(x, i) == WithRoot(r, x, s[i])
           step == [x \in Acc \X (1..n) |-> Step(x[1], x[2])]
           Stepped(g, T) == IF T = {} THEN Nothing ELSE Step(g[T \ {Max(T)}], Max(T))
           iter == CHOOSE g : g = [T \in SUBSET (1..n) |-> Stepped(g, T)]
<1>1. n \in Nat /\ DOMAIN s = 1..n /\ \A i \in 1..n : s[i].name \in S
  BY DEF IsGraph, IsSequence
<1>2. Nothing \in Acc
  BY NothingIsSearch
<1>3. ASSUME NEW x \in Acc, NEW i \in 1..n
      PROVE  Step(x, i) \in Acc
  BY <1>1, RootIsPlaced
<1> HIDE DEF Step
<1>4. step \in [Acc \X (1..n) -> Acc]
  BY <1>3
<1>5. Roots(r) = iter[1..n]
  BY <1>1 DEF Roots, Nothing, FoldLeft, MapThenFoldSet, Step
<1>0. n \in Nat
  BY <1>1
<1> HIDE DEF Acc, step, n
<1>6. PICK g : IsFold(g, n, Acc, Nothing, step)
  BY <1>0, <1>2, <1>4, FoldExists
<1>7. \A T \in SUBSET (1..n) : g[T] = Stepped(g, T)
  <2> SUFFICES ASSUME NEW T \in SUBSET (1..n), T # {} PROVE g[T] = Stepped(g, T)
    BY <1>6 DEF IsFold
  <2>1. Max(T) \in 1..n
    BY <1>0, MaxIs
  <2>2. g[T \ {Max(T)}] \in Acc
    BY <1>6 DEF IsFold
  <2> QED
    BY <1>6, <2>1, <2>2 DEF IsFold, step
<1>8. g = [T \in SUBSET (1..n) |-> Stepped(g, T)]
  BY <1>6, <1>7 DEF IsFold
<1>9. iter = [T \in SUBSET (1..n) |-> Stepped(iter, T)]
  BY <1>8
<1> HIDE DEF iter
<1>10. TakesSteps(iter, n, Acc, Nothing, step)
  <2>1. iter[{}] = Nothing
    BY <1>9
  <2>2. ASSUME NEW T \in SUBSET (1..n), T # {}, iter[T \ {Max(T)}] \in Acc
        PROVE  iter[T] = step[<<iter[T \ {Max(T)}], Max(T)>>]
    <3>1. Max(T) \in 1..n
      BY <1>0, <2>2, MaxIs
    <3> QED
      BY <1>9, <2>2, <3>1 DEF step
  <2> QED
    BY <2>1, <2>2 DEF TakesSteps
<1>11. PICK after : Walks(after, n, Acc, Nothing, step, iter[1..n])
  BY <1>0, <1>2, <1>4, <1>10, StepsAre
<1>12. after \in [0..n -> Acc] /\ after[0] = Nothing /\ after[n] = iter[1..n]
  BY <1>11 DEF Walks
<1>13. ASSUME NEW i \in 1..n
       PROVE  after[i] = Step(after[i - 1], i)
  <2>1. i - 1 \in 0..n
    BY <1>0
  <2>2. after[i - 1] \in Acc /\ after[i] = step[<<after[i - 1], i>>]
    BY <1>11, <2>1 DEF Walks
  <2> QED
    BY <2>2 DEF step
<1> QED
  BY <1>5, <1>12, <1>13 DEF n, Acc, Step, IsRooting

\* The parent that is visited has a pose.
LEMMA PoppedIs ==
  ASSUME NEW S, NEW search \in Searches(S), search.queue # <<>>
  PROVE  /\ Popped(search) \in From(S, Head(search.queue))
         /\ Popped(search).poses = search.poses /\ Popped(search).queue = Tail(search.queue)
         /\ Head(search.queue) \in S
<1> DEFINE poses == search.poses
           queue == search.queue
<1>1. /\ search = [poses |-> poses, queue |-> queue] /\ DOMAIN poses \in SUBSET S
      /\ poses \in [DOMAIN poses -> Rigid] /\ queue \in Seq(S) /\ IsQueue(queue, poses)
  BY SearchHas
<1>2. Popped(search) = [poses |-> poses, queue |-> Tail(queue)]
  <2> HIDE DEF poses, queue
  <2>1. Popped(search) = [search EXCEPT !.queue = Tail(queue)]
    BY DEF Popped, queue
  <2> QED
    BY <1>1, <2>1
<1> HIDE DEF poses
<1>3. queue # <<>>
  OBVIOUS
<1> HIDE DEF queue
<1>4. /\ Head(queue) = queue[1] /\ Len(queue) \in Nat \ {0} /\ Tail(queue) \in Seq(S)
      /\ Len(Tail(queue)) = Len(queue) - 1
      /\ \A i \in 1..Len(Tail(queue)) : Tail(queue)[i] = queue[i + 1]
  BY <1>1, <1>3, HeadTailProperties, EmptySeq
<1>5. Head(queue) \in DOMAIN poses
  BY <1>1, <1>4 DEF IsQueue
<1>6. IsQueue(Tail(queue), poses)
  <2> SUFFICES ASSUME NEW i \in 1..Len(Tail(queue)) PROVE queue[i + 1] \in DOMAIN poses
    BY <1>4 DEF IsQueue
  <2>1. i + 1 \in 1..Len(queue)
    BY <1>4
  <2> QED
    BY <1>1, <2>1 DEF IsQueue
<1>7. [poses |-> poses, queue |-> Tail(queue)] \in Searches(S)
  BY <1>1, <1>4, <1>6, SearchMade
<1> QED
  BY <1>1, <1>2, <1>5, <1>7 DEF From, poses, queue

\* The walk over the joints that visits the head of the queue.
IsVisit(after, r, S, search) ==
  LET parent == Head(search.queue)
  IN  /\ after \in [0..Len(r.joints) -> From(S, parent)] /\ after[0] = Popped(search)
      /\ \A i \in 1..Len(r.joints) : after[i] = Followed(parent, after[i - 1], r.joints[i])
      /\ Visited(r, search) = after[Len(r.joints)]

LEMMA VisitIs ==
  ASSUME NEW S, NEW r, IsGraph(r, S), NEW search \in Searches(S), search.queue # <<>>
  PROVE  \E after : IsVisit(after, r, S, search)
<1> DEFINE s == r.joints
           n == Len(s)
           Acc == From(S, Head(search.queue))
           Step(x, i) == Followed(Head(search.queue), x, s[i])
           step == [x \in Acc \X (1..n) |-> Step(x[1], x[2])]
           Stepped(g, T) == IF T = {} THEN Popped(search) ELSE Step(g[T \ {Max(T)}], Max(T))
           iter == CHOOSE g : g = [T \in SUBSET (1..n) |-> Stepped(g, T)]
<1>1. /\ n \in Nat /\ DOMAIN s = 1..n
      /\ \A i \in 1..n : s[i].child \in S /\ IsOrigin(s[i].origin)
  BY DEF IsGraph, IsSequence
<1>2. Popped(search) \in Acc
  BY PoppedIs
<1>3. ASSUME NEW x \in Acc, NEW i \in 1..n
      PROVE  Step(x, i) \in Acc
  BY <1>1, FollowedIs
<1> HIDE DEF Step
<1>4. step \in [Acc \X (1..n) -> Acc]
  BY <1>3
<1>5. Visited(r, search) = iter[1..n]
  BY <1>1 DEF Visited, FoldLeft, MapThenFoldSet, Step
<1>0. n \in Nat
  BY <1>1
<1> HIDE DEF Acc, step, n
<1>6. PICK g : IsFold(g, n, Acc, Popped(search), step)
  BY <1>0, <1>2, <1>4, FoldExists
<1>7. \A T \in SUBSET (1..n) : g[T] = Stepped(g, T)
  <2> SUFFICES ASSUME NEW T \in SUBSET (1..n), T # {} PROVE g[T] = Stepped(g, T)
    BY <1>6 DEF IsFold
  <2>1. Max(T) \in 1..n
    BY <1>0, MaxIs
  <2>2. g[T \ {Max(T)}] \in Acc
    BY <1>6 DEF IsFold
  <2> QED
    BY <1>6, <2>1, <2>2 DEF IsFold, step
<1>8. g = [T \in SUBSET (1..n) |-> Stepped(g, T)]
  BY <1>6, <1>7 DEF IsFold
<1>9. iter = [T \in SUBSET (1..n) |-> Stepped(iter, T)]
  BY <1>8
<1> HIDE DEF iter
<1>10. TakesSteps(iter, n, Acc, Popped(search), step)
  <2>1. iter[{}] = Popped(search)
    BY <1>9
  <2>2. ASSUME NEW T \in SUBSET (1..n), T # {}, iter[T \ {Max(T)}] \in Acc
        PROVE  iter[T] = step[<<iter[T \ {Max(T)}], Max(T)>>]
    <3>1. Max(T) \in 1..n
      BY <1>0, <2>2, MaxIs
    <3> QED
      BY <1>9, <2>2, <3>1 DEF step
  <2> QED
    BY <2>1, <2>2 DEF TakesSteps
<1>11. PICK after : Walks(after, n, Acc, Popped(search), step, iter[1..n])
  BY <1>0, <1>2, <1>4, <1>10, StepsAre
<1>12. after \in [0..n -> Acc] /\ after[0] = Popped(search) /\ after[n] = iter[1..n]
  BY <1>11 DEF Walks
<1>13. ASSUME NEW i \in 1..n
       PROVE  after[i] = Step(after[i - 1], i)
  <2>1. i - 1 \in 0..n
    BY <1>0
  <2>2. after[i - 1] \in Acc /\ after[i] = step[<<after[i - 1], i>>]
    BY <1>11, <2>1 DEF Walks
  <2> QED
    BY <2>2 DEF step
<1> QED
  BY <1>5, <1>12, <1>13 DEF n, Acc, Step, IsVisit

LEMMA RootsAreSearch ==
  ASSUME NEW S, NEW r, IsGraph(r, S)
  PROVE  Roots(r) \in Searches(S)
<1>1. PICK after : IsRooting(after, r, S)
  BY RootsAre
<1>2. Len(r.links) \in Nat
  BY DEF IsGraph, IsSequence
<1> QED
  BY <1>1, <1>2 DEF IsRooting

LEMMA VisitedIsSearch ==
  ASSUME NEW S, NEW r, IsGraph(r, S), NEW search \in Searches(S)
  PROVE  Visited(r, search) \in Searches(S)
<1>1. CASE search.queue = <<>>
  BY <1>1 DEF Visited
<1>2. CASE search.queue # <<>>
  <2>1. PICK after : IsVisit(after, r, S, search)
    BY <1>2, VisitIs
  <2>2. Len(r.joints) \in Nat
    BY DEF IsGraph, IsSequence
  <2>3. Visited(r, search) \in From(S, Head(search.queue))
    BY <2>1, <2>2 DEF IsVisit
  <2> QED
    BY <2>3 DEF From
<1> QED
  BY <1>1, <1>2

\* One list after another.
LEMMA ListsJoin ==
  ASSUME NEW s, IsSequence(s), NEW t, IsSequence(t)
  PROVE  /\ Len(s \o t) = Len(s) + Len(t) /\ DOMAIN (s \o t) = 1..(Len(s) + Len(t))
         /\ Len(s) \in Nat /\ Len(t) \in Nat
         /\ \A i \in 1..Len(s) : (s \o t)[i] = s[i]
         /\ \A i \in 1..Len(t) : (s \o t)[Len(s) + i] = t[i]
         /\ IsSequence(s \o t)
<1> DEFINE S == {s[i] : i \in 1..Len(s)} \cup {t[i] : i \in 1..Len(t)}
<1>1. s \in Seq(S) /\ t \in Seq(S)
  BY SequenceIsSeq
<1> HIDE DEF S
<1>2. /\ s \o t \in Seq(S) /\ Len(s \o t) = Len(s) + Len(t) /\ Len(s) \in Nat /\ Len(t) \in Nat
      /\ \A i \in 1..(Len(s) + Len(t)) : (s \o t)[i] = IF i <= Len(s) THEN s[i] ELSE t[i - Len(s)]
  BY <1>1, ConcatProperties
<1>3. DOMAIN (s \o t) = 1..Len(s \o t) /\ IsSequence(s \o t)
  BY <1>2, LenProperties, SeqIsSequence
<1> DEFINE l == Len(s)
           m == Len(t)
           u == s \o t
<1>4. /\ l \in Nat /\ m \in Nat
      /\ \A i \in 1..(l + m) : u[i] = IF i <= l THEN s[i] ELSE t[i - l]
  BY <1>2
<1> HIDE DEF l, m, u
<1>5. \A i \in 1..l : u[i] = s[i]
  BY <1>4
<1>6. ASSUME NEW i \in 1..m PROVE u[l + i] = t[i]
  <2>1. l + i \in 1..(l + m) /\ ~(l + i <= l) /\ (l + i) - l = i
    BY <1>4
  <2> QED
    BY <1>4, <2>1
<1> QED
  BY <1>2, <1>3, <1>5, <1>6 DEF l, m, u

\* The walk that visits link after link.
Visits(r) == Len(r.links) + Len(r.joints)
IsSearched(after, r, S) ==
  /\ after \in [0..Visits(r) -> Searches(S)] /\ after[0] = Roots(r)
  /\ \A i \in 1..Visits(r) : after[i] = Visited(r, after[i - 1])
  /\ Searched(r) = after[Visits(r)]

LEMMA SearchIs ==
  ASSUME NEW S, NEW r, IsGraph(r, S)
  PROVE  \E after : IsSearched(after, r, S)
<1> DEFINE s == r.links \o r.joints
           n == Len(s)
           Acc == Searches(S)
           Step(x, i) == Visited(r, x)
           step == [x \in Acc \X (1..n) |-> Step(x[1], x[2])]
           Stepped(g, T) == IF T = {} THEN Roots(r) ELSE Step(g[T \ {Max(T)}], Max(T))
           iter == CHOOSE g : g = [T \in SUBSET (1..n) |-> Stepped(g, T)]
<1>1. n \in Nat /\ DOMAIN s = 1..n /\ n = Visits(r)
  BY ListsJoin, ZenonT(60) DEF IsGraph, Visits
<1>2. Roots(r) \in Acc
  BY RootsAreSearch
<1>3. ASSUME NEW x \in Acc, NEW i \in 1..n
      PROVE  Step(x, i) \in Acc
  BY VisitedIsSearch
<1> HIDE DEF Step
<1>4. step \in [Acc \X (1..n) -> Acc]
  BY <1>3
<1>5. Searched(r) = iter[1..n]
  BY <1>1 DEF Searched, FoldLeft, MapThenFoldSet, Step
<1>0. n \in Nat
  BY <1>1
<1> HIDE DEF Acc, step, n
<1>6. PICK g : IsFold(g, n, Acc, Roots(r), step)
  BY <1>0, <1>2, <1>4, FoldExists
<1>7. \A T \in SUBSET (1..n) : g[T] = Stepped(g, T)
  <2> SUFFICES ASSUME NEW T \in SUBSET (1..n), T # {} PROVE g[T] = Stepped(g, T)
    BY <1>6 DEF IsFold
  <2>1. Max(T) \in 1..n
    BY <1>0, MaxIs
  <2>2. g[T \ {Max(T)}] \in Acc
    BY <1>6 DEF IsFold
  <2> QED
    BY <1>6, <2>1, <2>2 DEF IsFold, step
<1>8. g = [T \in SUBSET (1..n) |-> Stepped(g, T)]
  BY <1>6, <1>7 DEF IsFold
<1>9. iter = [T \in SUBSET (1..n) |-> Stepped(iter, T)]
  BY <1>8
<1> HIDE DEF iter
<1>10. TakesSteps(iter, n, Acc, Roots(r), step)
  <2>1. iter[{}] = Roots(r)
    BY <1>9
  <2>2. ASSUME NEW T \in SUBSET (1..n), T # {}, iter[T \ {Max(T)}] \in Acc
        PROVE  iter[T] = step[<<iter[T \ {Max(T)}], Max(T)>>]
    <3>1. Max(T) \in 1..n
      BY <1>0, <2>2, MaxIs
    <3> QED
      BY <1>9, <2>2, <3>1 DEF step
  <2> QED
    BY <2>1, <2>2 DEF TakesSteps
<1>11. PICK after : Walks(after, n, Acc, Roots(r), step, iter[1..n])
  BY <1>0, <1>2, <1>4, <1>10, StepsAre
<1>12. after \in [0..n -> Acc] /\ after[0] = Roots(r) /\ after[n] = iter[1..n]
  BY <1>11 DEF Walks
<1>13. ASSUME NEW i \in 1..n
       PROVE  after[i] = Step(after[i - 1], i)
  <2>1. i - 1 \in 0..n
    BY <1>0
  <2>2. after[i - 1] \in Acc /\ after[i] = step[<<after[i - 1], i>>]
    BY <1>11, <2>1 DEF Walks
  <2> QED
    BY <2>2 DEF step
<1> QED
  BY <1>1, <1>5, <1>12, <1>13 DEF n, Acc, Step, IsSearched

(***************************************************************************)
(* The spheres that are added: those of every packed collision, each from  *)
(* its own, and no other.                                                  *)
(***************************************************************************)
SphereSet(link) ==
  UNION {{SpheresFor(link, link.collisions[c])[k] : k \in DOMAIN link.collisions[c].spheres} :
           c \in DOMAIN link.collisions}
AllSpheres(r) == UNION {SphereSet(r.links[l]) : l \in DOMAIN r.links}

Occurs(x, s) == \E p \in 1..Len(s) : s[p] = x

LEMMA OccursInEither ==
  ASSUME NEW M, NEW s \in Seq(M), NEW t \in Seq(M), NEW x, Occurs(x, s) \/ Occurs(x, t)
  PROVE  Occurs(x, s \o t)
<1> DEFINE l == Len(s)
           m == Len(t)
           u == s \o t
<1>1. /\ l \in Nat /\ m \in Nat /\ Len(u) = l + m
      /\ \A i \in 1..l : u[i] = s[i]
      /\ \A i \in 1..m : u[l + i] = t[i]
  BY SeqIsSequence, ListsJoin
<1> HIDE DEF u, l, m
<1>2. ASSUME NEW p \in 1..l, s[p] = x PROVE Occurs(x, u)
  <2>1. p \in 1..Len(u) /\ u[p] = x
    BY <1>1, <1>2
  <2> QED
    BY <2>1 DEF Occurs
<1>3. ASSUME NEW p \in 1..m, t[p] = x PROVE Occurs(x, u)
  <2>1. l + p \in 1..Len(u) /\ u[l + p] = x
    BY <1>1, <1>3
  <2> QED
    BY <2>1 DEF Occurs
<1> QED
  BY <1>2, <1>3 DEF Occurs, u, l, m

\* A function on the first numbers is a sequence.
IsNumbered(f, n) == n \in Nat /\ f = [i \in 1..n |-> f[i]]

LEMMA NumberedIsSeq ==
  ASSUME NEW n, NEW f, IsNumbered(f, n), NEW M, \A i \in 1..n : f[i] \in M
  PROVE  f \in Seq(M) /\ Len(f) = n
<1>1. n \in Nat /\ f \in [1..n -> M]
  BY DEF IsNumbered
<1>2. f \in Seq(M)
  BY <1>1, SeqDef
<1>3. DOMAIN f = 1..Len(f) /\ Len(f) \in Nat
  BY <1>2, LenProperties
<1>4. DOMAIN f = 1..n
  BY <1>1
<1>5. 1..Len(f) = 1..n
  BY <1>3, <1>4
<1> QED
  BY <1>1, <1>2, <1>3, <1>5

LEMMA SpheresForAre ==
  ASSUME NEW r, NEW link, IsLink(r, link), NEW c \in DOMAIN link.collisions
  PROVE  LET these == SpheresFor(link, link.collisions[c])
         IN  /\ these \in Seq(SphereSet(link))
             /\ DOMAIN link.collisions[c].spheres = 1..Len(these)
<1> DEFINE packed == link.collisions[c].spheres
           n == Len(packed)
           these == SpheresFor(link, link.collisions[c])
<1>1. IsSequence(packed)
  BY DEF IsLink, IsPacked
<1>2. n \in Nat /\ DOMAIN packed = 1..n
  BY <1>1 DEF IsSequence
<1>3. DOMAIN these = 1..n /\ these = [k \in 1..n |-> these[k]]
  BY <1>2 DEF SpheresFor
<1>4. {these[k] : k \in 1..n} \in SUBSET SphereSet(link)
  BY <1>2 DEF SphereSet
<1> HIDE DEF n, these
<1>5. \A k \in 1..n : these[k] \in SphereSet(link)
  BY <1>4
<1>6. IsNumbered(these, n)
  BY <1>2, <1>3 DEF IsNumbered
<1>7. these \in Seq(SphereSet(link)) /\ Len(these) = n
  BY <1>5, <1>6, NumberedIsSeq
<1> QED
  BY <1>2, <1>7 DEF these, n

IsGathering(after, link) ==
  /\ after \in [0..Len(link.collisions) -> Seq(SphereSet(link))] /\ after[0] = <<>>
  /\ \A c \in 1..Len(link.collisions) :
       after[c] = SpheresFor(link, link.collisions[c]) \o after[c - 1]
  /\ SpheresOf(link) = after[Len(link.collisions)]

LEMMA GatheringIs ==
  ASSUME NEW r, NEW link, IsLink(r, link)
  PROVE  \E after : IsGathering(after, link)
<1> DEFINE s == link.collisions
           n == Len(s)
           Acc == Seq(SphereSet(link))
           Step(x, i) == SpheresFor(link, s[i]) \o x
           step == [x \in Acc \X (1..n) |-> Step(x[1], x[2])]
           Stepped(g, T) == IF T = {} THEN <<>> ELSE Step(g[T \ {Max(T)}], Max(T))
           iter == CHOOSE g : g = [T \in SUBSET (1..n) |-> Stepped(g, T)]
<1>1. n \in Nat /\ DOMAIN s = 1..n
  BY DEF IsLink, IsSequence
<1>2. <<>> \in Acc
  OBVIOUS
<1>3. ASSUME NEW x \in Acc, NEW i \in 1..n
      PROVE  Step(x, i) \in Acc
  <2>1. SpheresFor(link, s[i]) \in Seq(SphereSet(link))
    BY <1>1, SpheresForAre
  <2> QED
    BY <2>1
<1> HIDE DEF Step
<1>4. step \in [Acc \X (1..n) -> Acc]
  BY <1>3
<1>5. SpheresOf(link) = iter[1..n]
  BY <1>1 DEF SpheresOf, FoldLeft, MapThenFoldSet, Step
<1>0. n \in Nat
  BY <1>1
<1> HIDE DEF Acc, step, n
<1>6. PICK g : IsFold(g, n, Acc, <<>>, step)
  BY <1>0, <1>2, <1>4, FoldExists
<1>7. \A T \in SUBSET (1..n) : g[T] = Stepped(g, T)
  <2> SUFFICES ASSUME NEW T \in SUBSET (1..n), T # {} PROVE g[T] = Stepped(g, T)
    BY <1>6 DEF IsFold
  <2>1. Max(T) \in 1..n
    BY <1>0, MaxIs
  <2>2. g[T \ {Max(T)}] \in Acc
    BY <1>6 DEF IsFold
  <2> QED
    BY <1>6, <2>1, <2>2 DEF IsFold, step
<1>8. g = [T \in SUBSET (1..n) |-> Stepped(g, T)]
  BY <1>6, <1>7 DEF IsFold
<1>9. iter = [T \in SUBSET (1..n) |-> Stepped(iter, T)]
  BY <1>8
<1> HIDE DEF iter
<1>10. TakesSteps(iter, n, Acc, <<>>, step)
  <2>1. iter[{}] = <<>>
    BY <1>9
  <2>2. ASSUME NEW T \in SUBSET (1..n), T # {}, iter[T \ {Max(T)}] \in Acc
        PROVE  iter[T] = step[<<iter[T \ {Max(T)}], Max(T)>>]
    <3>1. Max(T) \in 1..n
      BY <1>0, <2>2, MaxIs
    <3> QED
      BY <1>9, <2>2, <3>1 DEF step
  <2> QED
    BY <2>1, <2>2 DEF TakesSteps
<1>11. PICK after : Walks(after, n, Acc, <<>>, step, iter[1..n])
  BY <1>0, <1>2, <1>4, <1>10, StepsAre
<1>12. after \in [0..n -> Acc] /\ after[0] = <<>> /\ after[n] = iter[1..n]
  BY <1>11 DEF Walks
<1>13. ASSUME NEW i \in 1..n
       PROVE  after[i] = Step(after[i - 1], i)
  <2>1. i - 1 \in 0..n
    BY <1>0
  <2>2. after[i - 1] \in Acc /\ after[i] = step[<<after[i - 1], i>>]
    BY <1>11, <2>1 DEF Walks
  <2> QED
    BY <2>2 DEF step
<1> QED
  BY <1>5, <1>12, <1>13 DEF n, Acc, Step, IsGathering

LEMMA SpheresOfAre ==
  ASSUME NEW r, NEW link, IsLink(r, link)
  PROVE  /\ SpheresOf(link) \in Seq(SphereSet(link))
         /\ \A x \in SphereSet(link) : Occurs(x, SpheresOf(link))
<1> DEFINE n == Len(link.collisions)
           M == SphereSet(link)
           These(c) == SpheresFor(link, link.collisions[c])
<1>1. PICK after : IsGathering(after, link)
  BY GatheringIs
<1>2. /\ n \in Nat /\ DOMAIN link.collisions = 1..n /\ SpheresOf(link) = after[n]
      /\ after \in [0..n -> Seq(M)] /\ \A c \in 1..n : after[c] = These(c) \o after[c - 1]
  BY <1>1 DEF IsGathering, IsLink, IsSequence
<1>3. \A c \in 1..n : These(c) \in Seq(M)
  BY <1>2, SpheresForAre
<1>4. ASSUME NEW x \in M PROVE \E c \in 1..n : Occurs(x, These(c))
  <2>1. PICK c \in 1..n : \E k \in DOMAIN link.collisions[c].spheres : x = These(c)[k]
    BY <1>2 DEF SphereSet
  <2>2. DOMAIN link.collisions[c].spheres = 1..Len(These(c))
    BY <1>2, SpheresForAre
  <2> QED
    BY <2>1, <2>2 DEF Occurs
<1> HIDE DEF n, M, These
<1> DEFINE Good == {m \in Nat : m <= n => \A c \in 1..m : \A x : Occurs(x, These(c)) => Occurs(x, after[m])}
<1>5. 0 \in Good
  OBVIOUS
<1>6. ASSUME NEW m \in Good PROVE m + 1 \in Good
  <2> SUFFICES ASSUME m + 1 <= n, NEW c \in 1..(m + 1), NEW x, Occurs(x, These(c))
               PROVE  Occurs(x, after[m + 1])
    OBVIOUS
  <2>1. m \in Nat /\ m \in 0..n /\ m + 1 \in 1..n /\ (m + 1) - 1 = m
    BY <1>2
  <2>2. after[m + 1] = These(m + 1) \o after[m] /\ These(m + 1) \in Seq(M) /\ after[m] \in Seq(M)
    BY <1>2, <1>3, <2>1
  <2>3. Occurs(x, These(m + 1)) \/ Occurs(x, after[m])
    <3>1. c = m + 1 \/ c \in 1..m
      BY <2>1
    <3> QED
      BY <1>2, <2>1, <3>1
  <2> HIDE DEF Good
  <2> QED
    BY <2>2, <2>3, OccursInEither
<1>7. Good \in SUBSET Nat
  OBVIOUS
<1> HIDE DEF Good
<1>8. n \in Good
  BY <1>2, <1>5, <1>6, <1>7, Induction
<1>9. \A x \in M : Occurs(x, after[n])
  BY <1>2, <1>4, <1>8 DEF Good
<1> QED
  BY <1>2, <1>9 DEF M

IsAdding(after, r) ==
  /\ after \in [0..Len(r.links) -> Seq(AllSpheres(r))] /\ after[0] = <<>>
  /\ \A l \in 1..Len(r.links) : after[l] = after[l - 1] \o SpheresOf(r.links[l])
  /\ Added(r) = after[Len(r.links)]

LEMMA AddingIs ==
  ASSUME NEW r, IsRobot(r)
  PROVE  \E after : IsAdding(after, r)
<1> DEFINE s == r.links
           n == Len(s)
           Acc == Seq(AllSpheres(r))
           Step(x, i) == x \o SpheresOf(s[i])
           step == [x \in Acc \X (1..n) |-> Step(x[1], x[2])]
           Stepped(g, T) == IF T = {} THEN <<>> ELSE Step(g[T \ {Max(T)}], Max(T))
           iter == CHOOSE g : g = [T \in SUBSET (1..n) |-> Stepped(g, T)]
<1>1. n \in Nat /\ DOMAIN s = 1..n /\ \A i \in 1..n : IsLink(r, s[i])
  BY DEF IsRobot, IsSequence
<1>2. <<>> \in Acc
  OBVIOUS
<1>3. ASSUME NEW x \in Acc, NEW i \in 1..n
      PROVE  Step(x, i) \in Acc
  <2>1. SpheresOf(s[i]) \in Seq(SphereSet(s[i])) /\ SphereSet(s[i]) \in SUBSET AllSpheres(r)
    BY <1>1, SpheresOfAre DEF AllSpheres
  <2>2. SpheresOf(s[i]) \in Seq(AllSpheres(r))
    BY <2>1, SeqMonotonic
  <2> QED
    BY <2>2
<1> HIDE DEF Step
<1>4. step \in [Acc \X (1..n) -> Acc]
  BY <1>3
<1>5. Added(r) = iter[1..n]
  BY <1>1 DEF Added, FoldLeft, MapThenFoldSet, Step
<1>0. n \in Nat
  BY <1>1
<1> HIDE DEF Acc, step, n
<1>6. PICK g : IsFold(g, n, Acc, <<>>, step)
  BY <1>0, <1>2, <1>4, FoldExists
<1>7. \A T \in SUBSET (1..n) : g[T] = Stepped(g, T)
  <2> SUFFICES ASSUME NEW T \in SUBSET (1..n), T # {} PROVE g[T] = Stepped(g, T)
    BY <1>6 DEF IsFold
  <2>1. Max(T) \in 1..n
    BY <1>0, MaxIs
  <2>2. g[T \ {Max(T)}] \in Acc
    BY <1>6 DEF IsFold
  <2> QED
    BY <1>6, <2>1, <2>2 DEF IsFold, step
<1>8. g = [T \in SUBSET (1..n) |-> Stepped(g, T)]
  BY <1>6, <1>7 DEF IsFold
<1>9. iter = [T \in SUBSET (1..n) |-> Stepped(iter, T)]
  BY <1>8
<1> HIDE DEF iter
<1>10. TakesSteps(iter, n, Acc, <<>>, step)
  <2>1. iter[{}] = <<>>
    BY <1>9
  <2>2. ASSUME NEW T \in SUBSET (1..n), T # {}, iter[T \ {Max(T)}] \in Acc
        PROVE  iter[T] = step[<<iter[T \ {Max(T)}], Max(T)>>]
    <3>1. Max(T) \in 1..n
      BY <1>0, <2>2, MaxIs
    <3> QED
      BY <1>9, <2>2, <3>1 DEF step
  <2> QED
    BY <2>1, <2>2 DEF TakesSteps
<1>11. PICK after : Walks(after, n, Acc, <<>>, step, iter[1..n])
  BY <1>0, <1>2, <1>4, <1>10, StepsAre
<1>12. after \in [0..n -> Acc] /\ after[0] = <<>> /\ after[n] = iter[1..n]
  BY <1>11 DEF Walks
<1>13. ASSUME NEW i \in 1..n
       PROVE  after[i] = Step(after[i - 1], i)
  <2>1. i - 1 \in 0..n
    BY <1>0
  <2>2. after[i - 1] \in Acc /\ after[i] = step[<<after[i - 1], i>>]
    BY <1>11, <2>1 DEF Walks
  <2> QED
    BY <2>2 DEF step
<1> QED
  BY <1>5, <1>12, <1>13 DEF n, Acc, Step, IsAdding

LEMMA AddedAre ==
  ASSUME NEW r, IsRobot(r)
  PROVE  /\ Added(r) \in Seq(AllSpheres(r))
         /\ \A x \in AllSpheres(r) : Occurs(x, Added(r))
<1> DEFINE n == Len(r.links)
           M == AllSpheres(r)
           These(l) == SpheresOf(r.links[l])
<1>1. PICK after : IsAdding(after, r)
  BY AddingIs
<1>2. /\ n \in Nat /\ DOMAIN r.links = 1..n /\ Added(r) = after[n]
      /\ after \in [0..n -> Seq(M)] /\ \A l \in 1..n : after[l] = after[l - 1] \o These(l)
  BY <1>1 DEF IsAdding, IsRobot, IsSequence
<1>3. ASSUME NEW l \in 1..n
      PROVE  These(l) \in Seq(M) /\ \A x \in SphereSet(r.links[l]) : Occurs(x, These(l))
  <2>1. IsLink(r, r.links[l])
    BY <1>2 DEF IsRobot
  <2>2. /\ These(l) \in Seq(SphereSet(r.links[l]))
        /\ \A x \in SphereSet(r.links[l]) : Occurs(x, These(l))
    BY <2>1, SpheresOfAre
  <2>3. SphereSet(r.links[l]) \in SUBSET M
    BY <1>2 DEF AllSpheres
  <2> HIDE DEF These, M
  <2> QED
    BY <2>2, <2>3, SeqMonotonic
<1>4. ASSUME NEW x \in M PROVE \E l \in 1..n : Occurs(x, These(l))
  <2>1. PICK l \in 1..n : x \in SphereSet(r.links[l])
    BY <1>2 DEF AllSpheres
  <2> QED
    BY <1>3, <2>1
<1> HIDE DEF n, M, These
<1> DEFINE Good == {m \in Nat : m <= n => \A l \in 1..m : \A x : Occurs(x, These(l)) => Occurs(x, after[m])}
<1>5. 0 \in Good
  OBVIOUS
<1>6. ASSUME NEW m \in Good PROVE m + 1 \in Good
  <2> SUFFICES ASSUME m + 1 <= n, NEW l \in 1..(m + 1), NEW x, Occurs(x, These(l))
               PROVE  Occurs(x, after[m + 1])
    OBVIOUS
  <2>1. m \in Nat /\ m \in 0..n /\ m + 1 \in 1..n /\ (m + 1) - 1 = m
    BY <1>2
  <2>2. after[m + 1] = after[m] \o These(m + 1) /\ These(m + 1) \in Seq(M) /\ after[m] \in Seq(M)
    BY <1>2, <1>3, <2>1
  <2>3. Occurs(x, These(m + 1)) \/ Occurs(x, after[m])
    <3>1. l = m + 1 \/ l \in 1..m
      BY <2>1
    <3> QED
      BY <1>2, <2>1, <3>1, SMTT(30)
  <2> HIDE DEF Good
  <2> QED
    BY <2>2, <2>3, OccursInEither
<1>7. Good \in SUBSET Nat
  OBVIOUS
<1> HIDE DEF Good
<1>8. n \in Good
  BY <1>2, <1>5, <1>6, <1>7, Induction
<1>9. \A x \in M : Occurs(x, after[n])
  BY <1>2, <1>4, <1>8 DEF Good
<1> QED
  BY <1>2, <1>9 DEF M

(***************************************************************************)
(* The search ends.  Every visit takes a link from the queue, and what     *)
(* came into it is a root or was placed by a joint, each of which places   *)
(* its child once: so a visit for each link and joint empties the queue.   *)
(***************************************************************************)
Budget(search, r, i) ==
  \E used \in SUBSET (1..Len(r.joints)) :
    /\ \A j \in used : r.joints[j].child \in DOMAIN search.poses
    /\ Len(search.queue) + i <= Len(r.links) + Cardinality(used)

LEMMA PlacingCosts ==
  ASSUME NEW S, NEW r, IsGraph(r, S), NEW i \in Nat, NEW parent, NEW search \in From(S, parent),
         Budget(search, r, i), NEW j \in 1..Len(r.joints)
  PROVE  Budget(Followed(parent, search, r.joints[j]), r, i)
<1> DEFINE joint == r.joints[j]
           pose == After(search.poses[parent], FromOrigin(joint.origin))
           now == Followed(parent, search, joint)
           places == IsJoint(joint) /\ joint.parent = parent /\ joint.child \notin DOMAIN search.poses
<1>1. joint.child \in S /\ IsOrigin(joint.origin) /\ Len(r.joints) \in Nat /\ Len(r.links) \in Nat
  BY DEF IsGraph, IsSequence
<1>2. /\ pose \in Rigid /\ (places => now = Placed(search, joint.child, pose))
      /\ ~places => now = search
  BY <1>1, FollowedIs
<1>3. search \in Searches(S) /\ search.queue \in Seq(S) /\ Len(search.queue) \in Nat
  <2>1. search \in Searches(S)
    BY DEF From
  <2>2. search.queue \in Seq(S)
    BY <2>1, SearchHas
  <2> QED
    BY <2>1, <2>2, LenProperties
<1>4. CASE ~places
  BY <1>2, <1>4
<1>5. CASE places
  <2> HIDE DEF pose, now
  <2>1. now = Placed(search, joint.child, pose)
    BY <1>2, <1>5
  <2>2. DOMAIN now.poses = DOMAIN search.poses \cup {joint.child} /\ now.queue = Append(search.queue, joint.child)
    BY <1>1, <1>2, <1>3, <2>1, PlacedIs, SMTT(30)
  <2>3. Len(now.queue) = Len(search.queue) + 1
    BY <1>1, <1>3, <2>2, AppendProperties
  <2>4. PICK used \in SUBSET (1..Len(r.joints)) :
          /\ \A k \in used : r.joints[k].child \in DOMAIN search.poses
          /\ Len(search.queue) + i <= Len(r.links) + Cardinality(used)
    BY DEF Budget
  <2>5. j \notin used
    BY <1>5, <2>4
  <2>6. IsFiniteSet(used)
    <3> DEFINE js == Len(r.joints)
    <3>0. js \in Nat
      BY <1>1
    <3> HIDE DEF js
    <3>1. IsFiniteSet(1..js)
      BY <3>0, FS_Interval
    <3> QED
      BY <3>1, FS_Subset DEF js
  <2>7. Cardinality(used \cup {j}) = Cardinality(used) + 1 /\ Cardinality(used) \in Nat
    BY <2>5, <2>6, FS_AddElement, FS_CardinalityType
  <2>8. \A k \in used \cup {j} : r.joints[k].child \in DOMAIN now.poses
    BY <2>2, <2>4
  <2>9. Len(now.queue) + i <= Len(r.links) + Cardinality(used \cup {j})
    BY <1>1, <1>3, <2>3, <2>4, <2>7
  <2>10. used \cup {j} \in SUBSET (1..Len(r.joints))
    OBVIOUS
  <2>11. Budget(now, r, i)
    BY <2>8, <2>9, <2>10 DEF Budget
  <2> QED
    BY <2>11 DEF now
<1> QED
  BY <1>4, <1>5

LEMMA VisitCosts ==
  ASSUME NEW S, NEW r, IsGraph(r, S), NEW i \in Nat, NEW search \in Searches(S), search.queue # <<>>,
         Budget(search, r, i)
  PROVE  Budget(Visited(r, search), r, i + 1)
<1> DEFINE n == Len(r.joints)
           parent == Head(search.queue)
<1>1. n \in Nat /\ Len(r.links) \in Nat
  BY DEF IsGraph, IsSequence
<1>2. PICK after : IsVisit(after, r, S, search)
  BY VisitIs
<1>3. /\ after \in [0..n -> From(S, parent)] /\ after[0] = Popped(search)
      /\ \A k \in 1..n : after[k] = Followed(parent, after[k - 1], r.joints[k])
      /\ Visited(r, search) = after[n]
  BY <1>2 DEF IsVisit
<1>4. Budget(Popped(search), r, i + 1)
  <2>1. Popped(search).poses = search.poses /\ Popped(search).queue = Tail(search.queue)
    BY PoppedIs
  <2>2. search.queue \in Seq(S)
    BY SearchHas
  <2>3. Len(search.queue) \in Nat /\ Len(Tail(search.queue)) = Len(search.queue) - 1
    BY <2>2, HeadTailProperties, LenProperties
  <2>4. PICK used \in SUBSET (1..Len(r.joints)) :
          /\ \A k \in used : r.joints[k].child \in DOMAIN search.poses
          /\ Len(search.queue) + i <= Len(r.links) + Cardinality(used)
    BY DEF Budget
  <2>5. Len(Popped(search).queue) + (i + 1) = Len(search.queue) + i
    <3> DEFINE l == Len(search.queue)
    <3>1. Len(Popped(search).queue) = l - 1 /\ l \in Nat
      BY <2>1, <2>3
    <3> HIDE DEF l
    <3>2. (l - 1) + (i + 1) = l + i
      BY <3>1
    <3> QED
      BY <3>1, <3>2 DEF l
  <2> QED
    BY <2>1, <2>4, <2>5 DEF Budget
<1> HIDE DEF n, parent
<1> DEFINE Good == {k \in Nat : k <= n => Budget(after[k], r, i + 1)}
<1>5. 0 \in Good
  BY <1>3, <1>4
<1>6. ASSUME NEW k \in Good PROVE k + 1 \in Good
  <2> SUFFICES ASSUME k + 1 <= n PROVE Budget(after[k + 1], r, i + 1)
    OBVIOUS
  <2>1. k \in Nat /\ k \in 0..n /\ k + 1 \in 1..n /\ (k + 1) - 1 = k /\ k <= n /\ i + 1 \in Nat
    BY <1>1
  <2>2. Budget(after[k], r, i + 1)
    BY <2>1
  <2>3. after[k] \in From(S, parent) /\ after[k + 1] = Followed(parent, after[k], r.joints[k + 1])
    BY <1>3, <2>1
  <2>4. k + 1 \in 1..Len(r.joints)
    BY <2>1 DEF n
  <2> HIDE DEF Good
  <2> QED
    BY <2>1, <2>2, <2>3, <2>4, PlacingCosts
<1>7. Good \in SUBSET Nat
  OBVIOUS
<1> HIDE DEF Good
<1>8. n \in Good
  BY <1>1, <1>5, <1>6, <1>7, Induction
<1> QED
  BY <1>1, <1>3, <1>8 DEF Good

LEMMA RootsCost ==
  ASSUME NEW S, NEW r, IsGraph(r, S)
  PROVE  Budget(Roots(r), r, 0)
<1> DEFINE n == Len(r.links)
<1>1. n \in Nat /\ Len(r.joints) \in Nat /\ \A i \in 1..n : r.links[i].name \in S
  BY DEF IsGraph, IsSequence
<1>2. PICK after : IsRooting(after, r, S)
  BY RootsAre
<1>3. /\ after \in [0..n -> Searches(S)] /\ after[0] = Nothing
      /\ \A i \in 1..n : after[i] = WithRoot(r, after[i - 1], r.links[i])
      /\ Roots(r) = after[n]
  BY <1>2 DEF IsRooting
<1> HIDE DEF n
<1> DEFINE Good == {k \in Nat : k <= n => Len(after[k].queue) \in Nat /\ Len(after[k].queue) <= k}
<1>4. 0 \in Good
  BY <1>3 DEF Nothing
<1>5. ASSUME NEW k \in Good PROVE k + 1 \in Good
  <2> SUFFICES ASSUME k + 1 <= n
               PROVE  Len(after[k + 1].queue) \in Nat /\ Len(after[k + 1].queue) <= k + 1
    OBVIOUS
  <2>1. k \in Nat /\ k \in 0..n /\ k + 1 \in 1..n /\ (k + 1) - 1 = k /\ k <= n
    BY <1>1
  <2>2. Len(after[k].queue) \in Nat /\ Len(after[k].queue) <= k
    BY <2>1
  <2> HIDE DEF Good
  <2> DEFINE link == r.links[k + 1]
  <2>3. after[k] \in Searches(S) /\ after[k + 1] = WithRoot(r, after[k], link) /\ link.name \in S
    BY <1>1, <1>3, <2>1
  <2>4. after[k].queue \in Seq(S)
    BY <2>3, SearchHas
  <2>5. \/ after[k + 1] = after[k]
        \/ after[k + 1] = Placed(after[k], link.name, Identity)
    BY <2>3 DEF WithRoot
  <2>6. Placed(after[k], link.name, Identity).queue = Append(after[k].queue, link.name)
    BY <2>3, IdentityIsRigid, PlacedIs
  <2>7. Len(Append(after[k].queue, link.name)) = Len(after[k].queue) + 1
    BY <2>3, <2>4, AppendProperties
  <2> QED
    BY <2>1, <2>2, <2>5, <2>6, <2>7
<1>6. Good \in SUBSET Nat
  OBVIOUS
<1> HIDE DEF Good
<1>7. n \in Good
  BY <1>1, <1>4, <1>5, <1>6, Induction
<1>8. Len(Roots(r).queue) \in Nat /\ Len(Roots(r).queue) <= n
  BY <1>1, <1>3, <1>7 DEF Good
<1>9. Cardinality({}) = 0
  BY FS_EmptySet
<1>10. Len(Roots(r).queue) + 0 <= Len(r.links) + Cardinality({})
  BY <1>1, <1>8, <1>9 DEF n
<1> QED
  BY <1>10 DEF Budget

LEMMA SearchEnds ==
  ASSUME NEW S, NEW r, IsGraph(r, S)
  PROVE  Searched(r).queue = <<>>
<1> DEFINE n == Visits(r)
           ls == Len(r.links)
           js == Len(r.joints)
<1>1. n = ls + js /\ ls \in Nat /\ js \in Nat
  BY DEF IsGraph, IsSequence, Visits
<1>2. PICK after : IsSearched(after, r, S)
  BY SearchIs
<1>3. /\ after \in [0..n -> Searches(S)] /\ after[0] = Roots(r)
      /\ \A i \in 1..n : after[i] = Visited(r, after[i - 1])
      /\ Searched(r) = after[n]
  BY <1>2 DEF IsSearched
<1> HIDE DEF n, ls, js
<1>0. n \in Nat
  BY <1>1
<1> DEFINE Good == {k \in Nat : k <= n => after[k].queue = <<>> \/ Budget(after[k], r, k)}
<1>4. 0 \in Good
  BY <1>3, RootsCost
<1>5. ASSUME NEW k \in Good PROVE k + 1 \in Good
  <2> SUFFICES ASSUME k + 1 <= n
               PROVE  after[k + 1].queue = <<>> \/ Budget(after[k + 1], r, k + 1)
    OBVIOUS
  <2>1. k \in Nat /\ k \in 0..n /\ k + 1 \in 1..n /\ (k + 1) - 1 = k /\ k <= n
    BY <1>0
  <2>2. after[k].queue = <<>> \/ Budget(after[k], r, k)
    BY <2>1
  <2>3. after[k] \in Searches(S) /\ after[k + 1] = Visited(r, after[k])
    BY <1>3, <2>1
  <2> HIDE DEF Good
  <2>4. CASE after[k].queue = <<>>
    BY <2>3, <2>4 DEF Visited
  <2>5. CASE after[k].queue # <<>>
    BY <2>1, <2>2, <2>3, <2>5, VisitCosts
  <2> QED
    BY <2>4, <2>5
<1>6. Good \in SUBSET Nat
  OBVIOUS
<1> HIDE DEF Good
<1>7. n \in Good
  BY <1>0, <1>4, <1>5, <1>6, Induction
<1>8. after[n] \in Searches(S)
  <2>1. n \in 0..n
    BY <1>0
  <2> QED
    BY <1>3, <2>1
<1>9. after[n].queue \in Seq(S) /\ Len(after[n].queue) \in Nat
  BY <1>8, SearchHas, LenProperties
<1>10. CASE Budget(after[n], r, n)
  <2>1. PICK used \in SUBSET (1..js) : Len(after[n].queue) + n <= ls + Cardinality(used)
    BY <1>10 DEF Budget, ls, js
  <2>2. IsFiniteSet(1..js) /\ Cardinality(1..js) = js
    BY <1>1, FS_Interval
  <2>3. Cardinality(used) \in Nat /\ Cardinality(used) <= js
    BY <2>2, FS_Subset, FS_CardinalityType
  <2>4. Len(after[n].queue) = 0
    <3> DEFINE l == Len(after[n].queue)
               c == Cardinality(used)
    <3>1. l \in Nat /\ c \in Nat /\ l + n <= ls + c /\ c <= js
      BY <1>9, <2>1, <2>3
    <3> HIDE DEF l, c
    <3>2. l = 0
      BY <1>1, <3>1
    <3> QED
      BY <3>2 DEF l
  <2> QED
    BY <1>3, <1>9, <2>4, EmptySeq
<1> QED
  BY <1>0, <1>3, <1>7, <1>10 DEF Good

LEMMA NumberedIsSequence ==
  ASSUME NEW n, NEW f, IsNumbered(f, n)
  PROVE  IsSequence(f) /\ Len(f) = n /\ DOMAIN f = 1..n
<1>1. n \in Nat /\ f = [i \in 1..n |-> f[i]]
  BY DEF IsNumbered
<1> DEFINE M == {f[i] : i \in 1..n}
<1>2. f \in Seq(M) /\ Len(f) = n
  <2>1. \A i \in 1..n : f[i] \in M
    OBVIOUS
  <2> HIDE DEF M
  <2> QED
    BY <2>1, NumberedIsSeq
<1> HIDE DEF M
<1> QED
  BY <1>1, <1>2, SeqIsSequence

(***************************************************************************)
(* A sphere link has a name that neither a joint nor a link of the URDF    *)
(* has, and the parent it was packed for.                                  *)
(***************************************************************************)
SphereNames(r) == {x.name : x \in AllSpheres(r)}
NamesIn(r)     == Named(r) \cup SphereNames(r)

LEMMA SphereIs ==
  ASSUME NEW r, IsRobot(r), NEW x \in AllSpheres(r)
  PROVE  \E l \in 1..Len(r.links) :
           /\ IsLink(r, r.links[l]) /\ x.parent = r.links[l].name
           /\ \E c \in DOMAIN r.links[l].collisions :
                LET coll == r.links[l].collisions[c] IN
                \E k \in DOMAIN coll.spheres :
                  /\ x = SpheresFor(r.links[l], coll)[k]
                  /\ x.name = Append(r.links[l].name, k) /\ x.name \notin Named(r) \cup {NoName}
                  /\ IsPacked(coll) /\ coll.spheres[k] \in Vectors
                  /\ x.at = ApplyCollisionTransform(coll.spheres[k], coll.origin) /\ x.at \in Vectors
<1>1. PICK l \in 1..Len(r.links) : x \in SphereSet(r.links[l])
  <2>1. DOMAIN r.links = 1..Len(r.links)
    BY DEF IsRobot, IsSequence
  <2> QED
    BY <2>1 DEF AllSpheres
<1> DEFINE link == r.links[l]
<1>2. IsLink(r, link)
  <2>1. l \in DOMAIN r.links
    BY DEF IsRobot, IsSequence
  <2> QED
    BY <2>1 DEF IsRobot
<1>3. PICK c \in DOMAIN link.collisions : \E k \in DOMAIN link.collisions[c].spheres :
              x = SpheresFor(link, link.collisions[c])[k]
  BY <1>1 DEF SphereSet
<1> DEFINE coll == link.collisions[c]
<1>4. PICK k \in DOMAIN coll.spheres : x = SpheresFor(link, coll)[k]
  BY <1>3
<1>5. x = [name |-> SphereName(link.name, k), parent |-> link.name,
           at |-> ApplyCollisionTransform(coll.spheres[k], coll.origin)]
  BY <1>4 DEF SpheresFor
<1>6. IsPacked(coll) /\ SphereName(link.name, k) \notin Named(r) \cup {NoName}
  BY <1>2, <1>3, <1>4 DEF IsLink
<1>7. coll.spheres[k] \in Vectors /\ IsOrigin(coll.origin)
  BY <1>4, <1>6 DEF IsPacked
<1> HIDE DEF coll
<1>8. ApplyCollisionTransform(coll.spheres[k], coll.origin) \in Vectors
  <2>1. coll.origin.rpy \in Vectors /\ coll.origin.xyz \in Vectors
    BY <1>7 DEF IsOrigin
  <2>2. Rotate(RpyToMatrix(coll.origin.rpy), coll.spheres[k]) \in Vectors
    BY <1>7, <2>1, RpyIsRotation, RotatedIsVector
  <2> QED
    BY <2>1, <2>2, PlusIsVector DEF ApplyCollisionTransform
<1>9. /\ x.name = Append(link.name, k) /\ x.parent = link.name
      /\ x.at = ApplyCollisionTransform(coll.spheres[k], coll.origin)
  BY <1>5 DEF SphereName
<1>10. x.name \notin Named(r) \cup {NoName}
  BY <1>6, <1>9 DEF SphereName
<1> HIDE DEF link
<1> QED
  BY <1>2, <1>4, <1>6, <1>7, <1>8, <1>9, <1>10 DEF link, coll

Joins(u, s, t) ==
  /\ Len(u) = Len(s) + Len(t) /\ IsSequence(u)
  /\ \A i \in 1..Len(s) : u[i] = s[i]
  /\ \A i \in 1..Len(t) : u[Len(s) + i] = t[i]

LEMMA JoinedIs ==
  ASSUME NEW s, IsSequence(s), NEW t, IsSequence(t)
  PROVE  Joins(s \o t, s, t)
BY ListsJoin DEF Joins

\* What the proofs need of the spheres that are added.
LEMMA SphereHas ==
  ASSUME NEW r, IsRobot(r), NEW x \in AllSpheres(r)
  PROVE  /\ x.parent \in LinkNames(r) /\ x.parent # NoName /\ x.at \in Vectors
         /\ x.name \notin Named(r) /\ x.name # NoName
<1>1. PICK l \in 1..Len(r.links) :
           /\ IsLink(r, r.links[l]) /\ x.parent = r.links[l].name
           /\ x.name \notin Named(r) \cup {NoName} /\ x.at \in Vectors
  BY SphereIs
<1>2. l \in DOMAIN r.links
  BY DEF IsRobot, IsSequence
<1> QED
  BY <1>1, <1>2 DEF IsLink, LinkNames

(***************************************************************************)
(* The assembled robot has the links and joints of the URDF, then those of *)
(* the spheres.                                                            *)
(***************************************************************************)
IsAssembled(t, r) ==
  LET ls == Len(r.links)
      js == Len(r.joints)
      ss == Len(Added(r))
  IN  /\ ls \in Nat /\ js \in Nat /\ ss \in Nat
      /\ Len(t.links) = ls + ss /\ Len(t.joints) = js + ss
      /\ \A l \in 1..ls : t.links[l].name = r.links[l].name
      /\ \A a \in 1..ss : t.links[ls + a].name = Added(r)[a].name
      /\ \A j \in 1..js : t.joints[j] = r.joints[j]
      /\ \A a \in 1..ss : t.joints[js + a] = FixedJoint(Added(r)[a])
      /\ \A a \in 1..ss : Added(r)[a] \in AllSpheres(r)
      /\ \A x \in AllSpheres(r) : \E a \in 1..ss : Added(r)[a] = x

LEMMA AssembledIs ==
  ASSUME NEW r, IsRobot(r)
  PROVE  /\ IsAssembled(WithSpheres(r), r)
         /\ IsSequence(WithSpheres(r).links) /\ IsSequence(WithSpheres(r).joints)
<1> DEFINE t == WithSpheres(r)
           added == Added(r)
           ls == Len(r.links)
           js == Len(r.joints)
           ss == Len(added)
           cleared == [l \in DOMAIN r.links |-> Cleared(r.links[l])]
           balls_ == [a \in DOMAIN added |-> SphereLink(added[a])]
           fixed == [a \in DOMAIN added |-> FixedJoint(added[a])]
<1>1. /\ ls \in Nat /\ js \in Nat /\ DOMAIN r.links = 1..ls
      /\ IsSequence(r.joints)
  BY DEF IsRobot, IsSequence
<1>2. added \in Seq(AllSpheres(r)) /\ \A x \in AllSpheres(r) : Occurs(x, added)
  BY AddedAre
<1>3. ss \in Nat /\ DOMAIN added = 1..ss /\ \A a \in 1..ss : added[a] \in AllSpheres(r)
  BY <1>2, LenProperties
<1>4. t.links = cleared \o balls_ /\ t.joints = r.joints \o fixed
  BY DEF WithSpheres
<1>5. IsNumbered(cleared, ls) /\ IsNumbered(balls_, ss) /\ IsNumbered(fixed, ss)
  BY <1>1, <1>3 DEF IsNumbered
<1>6. /\ \A l \in 1..ls : cleared[l].name = r.links[l].name
      /\ \A a \in 1..ss : balls_[a].name = added[a].name /\ fixed[a] = FixedJoint(added[a])
  BY <1>1, <1>3 DEF Cleared, SphereLink
<1>7. \A x \in AllSpheres(r) : \E a \in 1..ss : added[a] = x
  BY <1>2 DEF Occurs
<1> HIDE DEF t, added, cleared, balls_, fixed, ls, js, ss
<1>8. /\ IsSequence(cleared) /\ Len(cleared) = ls
      /\ IsSequence(balls_) /\ Len(balls_) = ss /\ IsSequence(fixed) /\ Len(fixed) = ss
  BY <1>5, NumberedIsSequence
<1>9. /\ IsSequence(t.links) /\ Len(t.links) = ls + ss
      /\ \A l \in 1..ls : t.links[l] = cleared[l]
      /\ \A a \in 1..ss : t.links[ls + a] = balls_[a]
  <2>1. Joins(t.links, cleared, balls_)
    BY <1>4, <1>8, JoinedIs
  <2> QED
    BY <1>8, <2>1 DEF Joins
<1>10. /\ IsSequence(t.joints) /\ Len(t.joints) = js + ss
       /\ \A j \in 1..js : t.joints[j] = r.joints[j]
       /\ \A a \in 1..ss : t.joints[js + a] = fixed[a]
  <2> DEFINE joints == r.joints
  <2>1. Len(joints) = js /\ IsSequence(joints) /\ t.joints = joints \o fixed
    BY <1>1, <1>4 DEF js
  <2> HIDE DEF joints
  <2>2. Joins(t.joints, joints, fixed)
    BY <1>8, <2>1, JoinedIs
  <2>3. /\ IsSequence(t.joints) /\ Len(t.joints) = js + ss
        /\ \A j \in 1..js : t.joints[j] = joints[j]
        /\ \A a \in 1..ss : t.joints[js + a] = fixed[a]
    BY <1>8, <2>1, <2>2 DEF Joins
  <2> QED
    BY <2>3 DEF joints
<1>11. IsAssembled(t, r)
  <2>1. /\ ls \in Nat /\ js \in Nat /\ ss \in Nat
        /\ Len(t.links) = ls + ss /\ Len(t.joints) = js + ss
    BY <1>1, <1>3, <1>9, <1>10
  <2>2. \A l \in 1..ls : t.links[l].name = r.links[l].name
    BY <1>6, <1>9
  <2>3. \A a \in 1..ss : t.links[ls + a].name = added[a].name
    BY <1>6, <1>9
  <2>4. \A a \in 1..ss : t.joints[js + a] = FixedJoint(added[a])
    BY <1>6, <1>10
  <2> QED
    BY <1>3, <1>7, <1>10, <2>1, <2>2, <2>3, <2>4 DEF IsAssembled, ls, js, ss, added
<1> QED
  BY <1>9, <1>10, <1>11 DEF t

LEMMA GraphsAre ==
  ASSUME NEW r, IsRobot(r)
  PROVE  IsGraph(r, NamesIn(r)) /\ IsGraph(WithSpheres(r), NamesIn(r))
<1> DEFINE t == WithSpheres(r)
           S == NamesIn(r)
           ls == Len(r.links)
           js == Len(r.joints)
           ss == Len(Added(r))
<1>1. /\ IsSequence(r.links) /\ IsSequence(r.joints) /\ DOMAIN r.links = 1..ls /\ DOMAIN r.joints = 1..js
      /\ \A j \in 1..js : IsOrigin(r.joints[j].origin)
  BY DEF IsRobot, IsSequence
<1>2. /\ \A l \in 1..ls : r.links[l].name \in Named(r)
      /\ \A j \in 1..js : r.joints[j].child \in Named(r)
  BY <1>1 DEF Named, LinkNames
<1>3. Named(r) \in SUBSET S /\ SphereNames(r) \in SUBSET S
  BY DEF NamesIn
<1>4. /\ IsAssembled(t, r) /\ IsSequence(t.links) /\ IsSequence(t.joints)
  BY AssembledIs
<1> HIDE DEF S
<1>5. IsGraph(r, S)
  BY <1>1, <1>2, <1>3 DEF IsGraph
<1>6. \A a \in 1..ss : /\ Added(r)[a].name \in S /\ FixedJoint(Added(r)[a]).child = Added(r)[a].name
                       /\ IsOrigin(FixedJoint(Added(r)[a]).origin)
  <2> SUFFICES ASSUME NEW x \in AllSpheres(r)
               PROVE  /\ x.name \in S /\ FixedJoint(x).child = x.name
                      /\ IsOrigin(FixedJoint(x).origin)
    BY <1>4 DEF IsAssembled
  <2>1. x.at \in Vectors
    BY SphereHas
  <2> QED
    BY <1>3, <2>1 DEF FixedJoint, SphereNames, IsOrigin, Origin, Still, Vectors, Axes
<1> HIDE DEF t
<1>7. /\ \A l \in 1..Len(t.links) : t.links[l].name \in S
      /\ \A j \in 1..Len(t.joints) : t.joints[j].child \in S /\ IsOrigin(t.joints[j].origin)
  <2>1. /\ ls \in Nat /\ js \in Nat /\ ss \in Nat
        /\ Len(t.links) = ls + ss /\ Len(t.joints) = js + ss
        /\ \A l \in 1..ls : t.links[l].name = r.links[l].name
        /\ \A a \in 1..ss : t.links[ls + a].name = Added(r)[a].name
        /\ \A j \in 1..js : t.joints[j] = r.joints[j]
        /\ \A a \in 1..ss : t.joints[js + a] = FixedJoint(Added(r)[a])
    BY <1>4 DEF IsAssembled
  <2> HIDE DEF ls, js, ss
  <2>2. \A l \in 1..Len(t.links) : l \in 1..ls \/ \E a \in 1..ss : l = ls + a
    <3> SUFFICES ASSUME NEW l \in 1..(ls + ss), l \notin 1..ls PROVE \E a \in 1..ss : l = ls + a
      BY <2>1
    <3>1. l - ls \in 1..ss /\ l = ls + (l - ls)
      BY <2>1
    <3> QED
      BY <3>1
  <2>3. \A j \in 1..Len(t.joints) : j \in 1..js \/ \E a \in 1..ss : j = js + a
    <3> SUFFICES ASSUME NEW j \in 1..(js + ss), j \notin 1..js PROVE \E a \in 1..ss : j = js + a
      BY <2>1
    <3>1. j - js \in 1..ss /\ j = js + (j - js)
      BY <2>1
    <3> QED
      BY <3>1
  <2>4. \A l \in 1..Len(t.links) : t.links[l].name \in S
    BY <1>2, <1>3, <1>6, <2>1, <2>2, ZenonT(60)
  <2>5. \A j \in 1..Len(t.joints) : t.joints[j].child \in S /\ IsOrigin(t.joints[j].origin)
    <3>1. ASSUME NEW j \in 1..js PROVE t.joints[j].child \in S /\ IsOrigin(t.joints[j].origin)
      BY <1>1, <1>2, <1>3, <2>1
    <3>2. ASSUME NEW a \in 1..ss PROVE t.joints[js + a].child \in S /\ IsOrigin(t.joints[js + a].origin)
      BY <1>6, <2>1
    <3> QED
      BY <2>3, <3>1, <3>2
  <2> QED
    BY <2>4, <2>5
<1>8. IsGraph(t, S)
  BY <1>4, <1>7 DEF IsGraph
<1> QED
  BY <1>5, <1>8 DEF t, S

(***************************************************************************)
(* The roots stay the roots: the joint of a sphere moves only the sphere.  *)
(***************************************************************************)
LEMMA ChildAgrees ==
  ASSUME NEW r, IsRobot(r), NEW t, IsAssembled(t, r), IsSequence(t.joints)
  PROVE  /\ \A name \in Named(r) : IsChild(t, name) <=> IsChild(r, name)
         /\ \A x \in AllSpheres(r) : IsChild(t, x.name)
<1> DEFINE js == Len(r.joints)
           ss == Len(Added(r))
<1>1. /\ js \in Nat /\ ss \in Nat /\ Len(t.joints) = js + ss
      /\ \A j \in 1..js : t.joints[j] = r.joints[j]
      /\ \A a \in 1..ss : t.joints[js + a] = FixedJoint(Added(r)[a])
      /\ \A a \in 1..ss : Added(r)[a] \in AllSpheres(r)
      /\ \A x \in AllSpheres(r) : \E a \in 1..ss : Added(r)[a] = x
  BY DEF IsAssembled
<1>2. DOMAIN r.joints = 1..js /\ DOMAIN t.joints = 1..Len(t.joints)
  BY DEF IsRobot, IsSequence
<1>3. \A x \in AllSpheres(r) : /\ FixedJoint(x).child = x.name /\ FixedJoint(x).parent = x.parent
                               /\ IsJoint(FixedJoint(x)) /\ x.name \notin Named(r)
  <2> SUFFICES ASSUME NEW x \in AllSpheres(r)
               PROVE  /\ FixedJoint(x).child = x.name /\ FixedJoint(x).parent = x.parent
                      /\ IsJoint(FixedJoint(x)) /\ x.name \notin Named(r)
    OBVIOUS
  <2>1. x.parent # NoName /\ x.name # NoName /\ x.name \notin Named(r)
    BY SphereHas
  <2> QED
    BY <2>1 DEF FixedJoint, IsJoint
<1> HIDE DEF js, ss
<1>4. /\ \A j \in 1..js : j \in 1..Len(t.joints)
      /\ \A a \in 1..ss : js + a \in 1..Len(t.joints)
      /\ \A j \in 1..Len(t.joints) : j \in 1..js \/ \E a \in 1..ss : j = js + a
  <2>1. /\ \A j \in 1..js : j \in 1..(js + ss)
        /\ \A a \in 1..ss : js + a \in 1..(js + ss)
    BY <1>1
  <2>2. \A j \in 1..(js + ss) : j \in 1..js \/ \E a \in 1..ss : j = js + a
    <3> SUFFICES ASSUME NEW j \in 1..(js + ss), j \notin 1..js PROVE \E a \in 1..ss : j = js + a
      OBVIOUS
    <3>1. j - js \in 1..ss /\ j = js + (j - js)
      BY <1>1
    <3> QED
      BY <3>1
  <2> QED
    BY <1>1, <2>1, <2>2
<1>5. ASSUME NEW name \in Named(r), IsChild(r, name) PROVE IsChild(t, name)
  BY <1>1, <1>2, <1>4, <1>5 DEF IsChild
<1>6. ASSUME NEW name \in Named(r), IsChild(t, name) PROVE IsChild(r, name)
  <2>1. PICK j \in 1..Len(t.joints) : IsJoint(t.joints[j]) /\ t.joints[j].child = name
    BY <1>2, <1>6 DEF IsChild
  <2>2. ASSUME NEW a \in 1..ss, j = js + a PROVE FALSE
    BY <1>1, <1>3, <2>1, <2>2, ZenonT(60)
  <2>3. j \in 1..js
    BY <1>4, <2>2
  <2> QED
    BY <1>1, <1>2, <2>1, <2>3 DEF IsChild
<1>7. ASSUME NEW x \in AllSpheres(r) PROVE IsChild(t, x.name)
  <2>1. PICK a \in 1..ss : Added(r)[a] = x
    BY <1>1
  <2>2. js + a \in DOMAIN t.joints /\ t.joints[js + a] = FixedJoint(x)
    BY <1>1, <1>2, <1>4, <2>1
  <2> QED
    BY <1>3, <2>2 DEF IsChild
<1> QED
  BY <1>5, <1>6, <1>7

LEMMA RootsAgree ==
  ASSUME NEW r, IsRobot(r)
  PROVE  Roots(WithSpheres(r)) = Roots(r)
<1> DEFINE t == WithSpheres(r)
           S == NamesIn(r)
           ls == Len(r.links)
           ss == Len(Added(r))
<1>1. /\ IsGraph(r, S) /\ IsGraph(t, S) /\ IsAssembled(t, r) /\ IsSequence(t.joints)
  BY GraphsAre, AssembledIs
<1>2. /\ ls \in Nat /\ ss \in Nat /\ Len(t.links) = ls + ss
      /\ \A l \in 1..ls : t.links[l].name = r.links[l].name
      /\ \A a \in 1..ss : t.links[ls + a].name = Added(r)[a].name /\ Added(r)[a] \in AllSpheres(r)
  BY <1>1 DEF IsAssembled
<1>3. /\ \A name \in Named(r) : IsChild(t, name) <=> IsChild(r, name)
      /\ \A x \in AllSpheres(r) : IsChild(t, x.name)
  <2> HIDE DEF t
  <2> QED
    BY <1>1, ChildAgrees
<1>4. \A l \in 1..ls : r.links[l].name \in Named(r)
  <2>1. DOMAIN r.links = 1..ls
    BY DEF IsRobot, IsSequence
  <2> QED
    BY <2>1 DEF Named, LinkNames
<1>5. PICK ar : IsRooting(ar, r, S)
  BY <1>1, RootsAre
<1>6. PICK at : IsRooting(at, t, S)
  <2> HIDE DEF t, S
  <2> QED
    BY <1>1, RootsAre
<1>7. /\ ar[0] = Nothing /\ \A i \in 1..ls : ar[i] = WithRoot(r, ar[i - 1], r.links[i])
      /\ Roots(r) = ar[ls]
  BY <1>5 DEF IsRooting
<1> HIDE DEF t
<1>8. /\ at[0] = Nothing /\ \A i \in 1..Len(t.links) : at[i] = WithRoot(t, at[i - 1], t.links[i])
      /\ Roots(t) = at[Len(t.links)]
  BY <1>6 DEF IsRooting
<1> HIDE DEF S, ls, ss
<1> DEFINE Same == {k \in Nat : k <= ls => at[k] = ar[k]}
<1>9. ls \in Same
  <2>1. 0 \in Same
    BY <1>7, <1>8
  <2>2. ASSUME NEW k \in Same PROVE k + 1 \in Same
    <3> SUFFICES ASSUME k + 1 <= ls PROVE at[k + 1] = ar[k + 1]
      OBVIOUS
    <3>1. k \in Nat /\ k + 1 \in 1..ls /\ k + 1 \in 1..(ls + ss) /\ (k + 1) - 1 = k /\ at[k] = ar[k]
      BY <1>2
    <3> HIDE DEF Same
    <3>2. at[k + 1] = WithRoot(t, at[k], t.links[k + 1])
      BY <1>2, <1>8, <3>1
    <3>3. ar[k + 1] = WithRoot(r, ar[k], r.links[k + 1])
      BY <1>7, <3>1
    <3>4. /\ t.links[k + 1].name = r.links[k + 1].name
          /\ IsChild(t, r.links[k + 1].name) <=> IsChild(r, r.links[k + 1].name)
      BY <1>2, <1>3, <1>4, <3>1
    <3> QED
      BY <3>1, <3>2, <3>3, <3>4 DEF WithRoot
  <2>3. Same \in SUBSET Nat
    OBVIOUS
  <2> HIDE DEF Same
  <2> QED
    BY <1>2, <2>1, <2>2, <2>3, Induction
<1> DEFINE Idle == {k \in Nat : k <= ss => at[ls + k] = ar[ls]}
<1>10. ss \in Idle
  <2>1. 0 \in Idle
    <3>1. ls + 0 = ls /\ at[ls] = ar[ls]
      BY <1>2, <1>9
    <3> QED
      BY <3>1
  <2> HIDE DEF Same
  <2>2. ASSUME NEW k \in Idle PROVE k + 1 \in Idle
    <3> SUFFICES ASSUME k + 1 <= ss PROVE at[ls + (k + 1)] = ar[ls]
      OBVIOUS
    <3>1. /\ k \in Nat /\ k + 1 \in 1..ss /\ ls + (k + 1) \in 1..(ls + ss)
          /\ (ls + (k + 1)) - 1 = ls + k /\ at[ls + k] = ar[ls]
      BY <1>2
    <3> HIDE DEF Idle
    <3>2. at[ls + (k + 1)] = WithRoot(t, at[ls + k], t.links[ls + (k + 1)])
      BY <1>2, <1>8, <3>1
    <3>3. IsChild(t, t.links[ls + (k + 1)].name)
      BY <1>2, <1>3, <3>1
    <3> QED
      BY <3>1, <3>2, <3>3 DEF WithRoot
  <2>3. Idle \in SUBSET Nat
    OBVIOUS
  <2> HIDE DEF Idle
  <2> QED
    BY <1>2, <2>1, <2>2, <2>3, Induction
<1>11. at[ls + ss] = ar[ls]
  BY <1>2, <1>10
<1> QED
  BY <1>2, <1>7, <1>8, <1>11 DEF t

(***************************************************************************)
(* A queue without the members of a set.                                   *)
(***************************************************************************)
IsThinning(e, q, s, B) ==
  /\ e \in [1..Len(q) -> 1..Len(s)]
  /\ \A i, j \in 1..Len(q) : i < j => e[i] < e[j]
  /\ \A i \in 1..Len(q) : q[i] = s[e[i]]
  /\ \A k \in 1..Len(s) : s[k] \notin B <=> \E i \in 1..Len(q) : e[i] = k
Without(q, s, B) == \E e : IsThinning(e, q, s, B)

LEMMA WithoutNone ==
  ASSUME NEW S, NEW s \in Seq(S), NEW B, \A i \in 1..Len(s) : s[i] \notin B
  PROVE  Without(s, s, B)
<1> DEFINE e == [i \in 1..Len(s) |-> i]
<1>1. IsThinning(e, s, s, B)
  BY DEF IsThinning
<1> QED
  BY <1>1 DEF Without

LEMMA WithoutOnlyMember ==
  ASSUME NEW S, NEW q \in Seq(S), NEW s \in Seq(S), NEW B, Without(q, s, B), NEW x \in S, x \in B
  PROVE  Without(q, Append(s, x), B)
<1> DEFINE n == Len(q)
           m == Len(s)
           t == Append(s, x)
<1>1. PICK e : IsThinning(e, q, s, B)
  BY DEF Without
<1>2. n \in Nat /\ m \in Nat
  BY LenProperties
<1>3. Len(t) = m + 1 /\ t[m + 1] = x /\ \A i \in 1..m : t[i] = s[i]
  BY AppendProperties
<1>4. /\ e \in [1..n -> 1..m] /\ \A i, j \in 1..n : i < j => e[i] < e[j]
      /\ \A i \in 1..n : q[i] = s[e[i]]
      /\ \A k \in 1..m : s[k] \notin B <=> \E i \in 1..n : e[i] = k
  BY <1>1 DEF IsThinning
<1> HIDE DEF n, m, t
<1>5. e \in [1..n -> 1..(m + 1)] /\ \A i \in 1..n : e[i] \in 1..m /\ e[i] # m + 1
  BY <1>2, <1>4
<1>6. \A i \in 1..n : q[i] = t[e[i]]
  BY <1>3, <1>4, <1>5
<1>7. ASSUME NEW k \in 1..(m + 1) PROVE t[k] \notin B <=> \E i \in 1..n : e[i] = k
  <2>1. k \in 1..m \/ k = m + 1
    BY <1>2
  <2> QED
    BY <1>3, <1>4, <1>5, <2>1
<1>8. /\ e \in [1..Len(q) -> 1..Len(t)]
      /\ \A i, j \in 1..Len(q) : i < j => e[i] < e[j]
      /\ \A i \in 1..Len(q) : q[i] = t[e[i]]
      /\ \A k \in 1..Len(t) : t[k] \notin B <=> \E i \in 1..Len(q) : e[i] = k
  BY <1>3, <1>4, <1>5, <1>6, <1>7 DEF n
<1>9. IsThinning(e, q, t, B)
  BY <1>8 DEF IsThinning
<1> QED
  BY <1>9 DEF Without, t

LEMMA WithoutBoth ==
  ASSUME NEW S, NEW q \in Seq(S), NEW s \in Seq(S), NEW B, Without(q, s, B), NEW x \in S, x \notin B
  PROVE  Without(Append(q, x), Append(s, x), B)
<1> DEFINE n == Len(q)
           m == Len(s)
           p == Append(q, x)
           t == Append(s, x)
<1>1. PICK e : IsThinning(e, q, s, B)
  BY DEF Without
<1>2. n \in Nat /\ m \in Nat
  BY LenProperties
<1>3. /\ Len(t) = m + 1 /\ t[m + 1] = x /\ \A i \in 1..m : t[i] = s[i]
      /\ Len(p) = n + 1 /\ p[n + 1] = x /\ \A i \in 1..n : p[i] = q[i]
  BY AppendProperties
<1>4. /\ e \in [1..n -> 1..m] /\ \A i, j \in 1..n : i < j => e[i] < e[j]
      /\ \A i \in 1..n : q[i] = s[e[i]]
      /\ \A k \in 1..m : s[k] \notin B <=> \E i \in 1..n : e[i] = k
  BY <1>1 DEF IsThinning
<1> HIDE DEF n, m, p, t
<1> DEFINE f == [i \in 1..(n + 1) |-> IF i = n + 1 THEN m + 1 ELSE e[i]]
<1>5. /\ \A i \in 1..n : f[i] = e[i] /\ e[i] \in 1..m
      /\ f[n + 1] = m + 1 /\ DOMAIN f = 1..(n + 1)
  BY <1>2, <1>4
<1>6. \A i \in 1..(n + 1) : i \in 1..n \/ i = n + 1
  BY <1>2
<1>7. \A k \in 1..(m + 1) : k \in 1..m \/ k = m + 1
  BY <1>2
<1>8. f \in [1..(n + 1) -> 1..(m + 1)]
  BY <1>2, <1>4
<1> HIDE DEF f
<1>9. ASSUME NEW i \in 1..(n + 1), NEW j \in 1..(n + 1), i < j PROVE f[i] < f[j]
  <2>1. i \in 1..n
    BY <1>2, <1>9
  <2>2. CASE j \in 1..n
    BY <1>4, <1>5, <1>9, <2>1, <2>2
  <2>3. CASE j = n + 1
    <3>1. f[i] \in 1..m /\ f[j] = m + 1
      BY <1>5, <2>1, <2>3
    <3> QED
      BY <1>2, <3>1
  <2> QED
    BY <1>6, <2>2, <2>3
<1>10. ASSUME NEW i \in 1..(n + 1) PROVE p[i] = t[f[i]]
  BY <1>3, <1>4, <1>5, <1>6
<1>11. ASSUME NEW k \in 1..(m + 1) PROVE t[k] \notin B <=> \E i \in 1..(n + 1) : f[i] = k
  <2>1. n + 1 \in 1..(n + 1) /\ \A i \in 1..n : i \in 1..(n + 1)
    BY <1>2
  <2>2. CASE k = m + 1
    BY <1>3, <1>5, <2>1, <2>2
  <2>3. CASE k \in 1..m
    <3>1. f[n + 1] # k
      BY <1>2, <1>5, <2>3
    <3>2. (\E i \in 1..(n + 1) : f[i] = k) <=> \E i \in 1..n : e[i] = k
      BY <1>5, <1>6, <2>1, <3>1
    <3> QED
      BY <1>3, <1>4, <2>3, <3>2
  <2> QED
    BY <1>7, <2>2, <2>3
<1>12. IsThinning(f, p, t, B)
  BY <1>3, <1>8, <1>9, <1>10, <1>11 DEF IsThinning
<1> QED
  BY <1>12 DEF Without, p, t

LEMMA WithoutHead ==
  ASSUME NEW S, NEW q \in Seq(S), NEW s \in Seq(S), NEW B, Without(q, s, B), s # <<>>
  PROVE  /\ Head(s) \in B => Without(q, Tail(s), B)
         /\ Head(s) \notin B => q # <<>> /\ Head(q) = Head(s) /\ Without(Tail(q), Tail(s), B)
<1> DEFINE n == Len(q)
           m == Len(s)
           t == Tail(s)
<1>1. PICK e : IsThinning(e, q, s, B)
  BY DEF Without
<1>2. n \in Nat /\ m \in Nat \ {0}
  BY LenProperties, EmptySeq
<1>3. Head(s) = s[1] /\ Len(t) = m - 1 /\ \A i \in 1..(m - 1) : t[i] = s[i + 1]
  BY HeadTailProperties
<1>4. /\ e \in [1..n -> 1..m] /\ \A i, j \in 1..n : i < j => e[i] < e[j]
      /\ \A i \in 1..n : q[i] = s[e[i]]
      /\ \A k \in 1..m : s[k] \notin B <=> \E i \in 1..n : e[i] = k
  BY <1>1 DEF IsThinning
<1> HIDE DEF n, m, t
<1>5. ASSUME Head(s) \in B PROVE Without(q, t, B)
  <2> DEFINE f == [i \in 1..n |-> e[i] - 1]
  <2>1. \A i \in 1..n : e[i] \in 2..m
    <3> SUFFICES ASSUME NEW i \in 1..n PROVE e[i] # 1
      BY <1>2, <1>4
    <3> QED
      BY <1>2, <1>3, <1>4, <1>5
  <2>2. \A i \in 1..n : e[i] - 1 \in 1..(m - 1)
    <3> SUFFICES ASSUME NEW i \in 1..n PROVE e[i] - 1 \in 1..(m - 1)
      OBVIOUS
    <3> DEFINE x == e[i]
    <3>1. x \in 2..m
      BY <2>1
    <3> HIDE DEF x
    <3>2. x - 1 \in 1..(m - 1)
      BY <1>2, <3>1
    <3> QED
      BY <3>2 DEF x
  <2>3. \A i \in 1..n : f[i] + 1 = e[i] /\ f[i] \in 1..(m - 1)
    BY <1>2, <2>1, <2>2
  <2>4. \A i, j \in 1..n : i < j => f[i] < f[j]
    BY <1>2, <1>4, <2>1
  <2> HIDE DEF f
  <2>5. \A i \in 1..n : q[i] = t[f[i]]
    BY <1>3, <1>4, <2>3
  <2>6. ASSUME NEW k \in 1..(m - 1) PROVE t[k] \notin B <=> \E i \in 1..n : f[i] = k
    <3>1. k + 1 \in 1..m /\ t[k] = s[k + 1]
      BY <1>2, <1>3
    <3>2. \A i \in 1..n : f[i] = k <=> e[i] = k + 1
      BY <1>2, <2>3
    <3> QED
      BY <1>4, <3>1, <3>2
  <2>7. /\ f \in [1..Len(q) -> 1..Len(t)]
        /\ \A i, j \in 1..Len(q) : i < j => f[i] < f[j]
        /\ \A i \in 1..Len(q) : q[i] = t[f[i]]
        /\ \A k \in 1..Len(t) : t[k] \notin B <=> \E i \in 1..Len(q) : f[i] = k
    <3>1. f \in [1..n -> 1..(m - 1)]
      BY <2>2 DEF f
    <3> QED
      BY <1>3, <3>1, <2>4, <2>5, <2>6 DEF n
  <2>8. IsThinning(f, q, t, B)
    BY <2>7 DEF IsThinning
  <2> QED
    BY <2>8 DEF Without
<1>6. ASSUME Head(s) \notin B PROVE q # <<>> /\ Head(q) = Head(s) /\ Without(Tail(q), t, B)
  <2>1. PICK one \in 1..n : e[one] = 1
    BY <1>2, <1>3, <1>4, <1>6
  <2>2. 1 \in 1..n /\ n # 0
    BY <1>2, <2>1
  <2>3. e[1] = 1
    <3> SUFFICES ASSUME 1 < one PROVE FALSE
      BY <1>2, <2>1
    <3>1. e[1] < e[one] /\ e[1] \in 1..m
      BY <1>4, <2>1, <2>2
    <3> QED
      BY <1>2, <2>1, <3>1
  <2>4. q # <<>>
    BY <2>2, EmptySeq DEF n
  <2> DEFINE p == Tail(q)
             f == [i \in 1..(n - 1) |-> e[i + 1] - 1]
  <2>5. Head(q) = q[1] /\ Len(p) = n - 1 /\ \A i \in 1..(n - 1) : p[i] = q[i + 1]
    BY <2>4, HeadTailProperties DEF n
  <2>6. Head(q) = Head(s)
    BY <1>3, <1>4, <2>2, <2>3, <2>5
  <2> HIDE DEF p
  <2>7. \A i \in 1..(n - 1) : i + 1 \in 1..n /\ 1 < i + 1
    BY <1>2
  <2>8. \A i \in 1..(n - 1) : e[i + 1] \in 2..m
    <3> SUFFICES ASSUME NEW i \in 1..(n - 1) PROVE e[i + 1] \in 2..m
      OBVIOUS
    <3>1. e[1] < e[i + 1] /\ e[i + 1] \in 1..m
      BY <1>4, <2>2, <2>7
    <3> QED
      BY <1>2, <2>3, <3>1
  <2>9. /\ f \in [1..(n - 1) -> 1..(m - 1)]
        /\ \A i \in 1..(n - 1) : f[i] + 1 = e[i + 1] /\ f[i] \in 1..(m - 1)
    BY <1>2, <2>8
  <2> HIDE DEF f
  <2>10. ASSUME NEW i \in 1..(n - 1), NEW j \in 1..(n - 1), i < j PROVE f[i] < f[j]
    <3>1. i + 1 \in 1..n /\ j + 1 \in 1..n /\ i + 1 < j + 1
      BY <1>2, <2>10
    <3>2. e[i + 1] < e[j + 1]
      BY <1>4, <3>1
    <3> QED
      BY <1>2, <2>9, <3>2
  <2>11. \A i \in 1..(n - 1) : p[i] = t[f[i]]
    <3> SUFFICES ASSUME NEW i \in 1..(n - 1) PROVE p[i] = t[f[i]]
      OBVIOUS
    <3>1. p[i] = q[i + 1] /\ q[i + 1] = s[e[i + 1]]
      BY <1>4, <2>5, <2>7
    <3>2. t[f[i]] = s[f[i] + 1]
      BY <1>3, <2>9
    <3> QED
      BY <2>9, <3>1, <3>2
  <2>12. ASSUME NEW k \in 1..(m - 1) PROVE t[k] \notin B <=> \E i \in 1..(n - 1) : f[i] = k
    <3>1. k + 1 \in 1..m /\ k + 1 # 1 /\ t[k] = s[k + 1]
      BY <1>2, <1>3
    <3>2. ASSUME NEW i \in 1..n, e[i] = k + 1 PROVE \E j \in 1..(n - 1) : f[j] = k
      <4>1. i # 1
        BY <2>3, <3>1, <3>2
      <4>2. i - 1 \in 1..(n - 1) /\ (i - 1) + 1 = i
        BY <1>2, <4>1
      <4>3. f[i - 1] + 1 = k + 1 /\ f[i - 1] \in 1..(m - 1)
        BY <2>9, <3>2, <4>2
      <4>4. f[i - 1] = k
        BY <1>2, <4>3
      <4> QED
        BY <4>2, <4>4
    <3>3. ASSUME NEW j \in 1..(n - 1), f[j] = k PROVE \E i \in 1..n : e[i] = k + 1
      <4>1. e[j + 1] = k + 1 /\ j + 1 \in 1..n
        BY <2>7, <2>9, <3>3
      <4> QED
        BY <4>1
    <3> QED
      BY <1>4, <3>1, <3>2, <3>3
  <2>13. IsThinning(f, p, t, B)
    BY <1>3, <2>5, <2>9, <2>10, <2>11, <2>12 DEF IsThinning
  <2> QED
    BY <2>4, <2>6, <2>13 DEF Without, p
<1> QED
  BY <1>5, <1>6 DEF t

LEMMA WithoutEmpty ==
  ASSUME NEW S, NEW q \in Seq(S), NEW B, Without(q, <<>>, B)
  PROVE  q = <<>>
<1>1. PICK e : IsThinning(e, q, <<>>, B)
  BY DEF Without
<1>2. e \in [1..Len(q) -> 1..0]
  BY <1>1, EmptySeq DEF IsThinning
<1>3. Len(q) \in Nat /\ Len(q) = 0
  <2>1. Len(q) \in Nat
    BY LenProperties
  <2>2. ASSUME Len(q) # 0 PROVE FALSE
    <3>1. 1 \in 1..Len(q)
      BY <2>1, <2>2
    <3>2. e[1] \in 1..0
      BY <1>2, <3>1
    <3> QED
      BY <3>2
  <2> QED
    BY <2>1, <2>2
<1> QED
  BY <1>3, EmptySeq

(***************************************************************************)
(* The search of the assembled robot does what that of the URDF does, with *)
(* spheres in between, which place nothing.                                *)
(***************************************************************************)
Agrees(q, s, B) ==
  /\ Without(q.queue, s.queue, B)
  /\ DOMAIN q.poses = DOMAIN s.poses \ B
  /\ \A l \in DOMAIN q.poses : q.poses[l] = s.poses[l]

LEMMA FollowingAgrees ==
  ASSUME NEW S, NEW p, NEW q \in From(S, p), NEW s \in From(S, p), NEW B, Agrees(q, s, B),
         NEW j, j.child \in S, j.child \notin B, IsOrigin(j.origin)
  PROVE  Agrees(Followed(p, q, j), Followed(p, s, j), B)
<1> DEFINE poseq == After(q.poses[p], FromOrigin(j.origin))
           poses_ == After(s.poses[p], FromOrigin(j.origin))
           q2 == Followed(p, q, j)
           s2 == Followed(p, s, j)
<1>1. /\ q \in Searches(S) /\ s \in Searches(S) /\ p \in DOMAIN q.poses
      /\ DOMAIN q.poses = DOMAIN s.poses \ B /\ \A l \in DOMAIN q.poses : q.poses[l] = s.poses[l]
      /\ Without(q.queue, s.queue, B)
  BY DEF From, Agrees
<1>2. /\ poseq \in Rigid
      /\ IsJoint(j) /\ j.parent = p /\ j.child \notin DOMAIN q.poses => q2 = Placed(q, j.child, poseq)
      /\ ~(IsJoint(j) /\ j.parent = p /\ j.child \notin DOMAIN q.poses) => q2 = q
  BY FollowedIs
<1>3. /\ poses_ \in Rigid
      /\ IsJoint(j) /\ j.parent = p /\ j.child \notin DOMAIN s.poses => s2 = Placed(s, j.child, poses_)
      /\ ~(IsJoint(j) /\ j.parent = p /\ j.child \notin DOMAIN s.poses) => s2 = s
  BY FollowedIs
<1>4. poseq = poses_ /\ (j.child \notin DOMAIN q.poses <=> j.child \notin DOMAIN s.poses)
  BY <1>1
<1> HIDE DEF poseq, poses_, q2, s2
<1>5. CASE IsJoint(j) /\ j.parent = p /\ j.child \notin DOMAIN q.poses
  <2>1. q2 = Placed(q, j.child, poseq) /\ s2 = Placed(s, j.child, poseq)
    BY <1>2, <1>3, <1>4, <1>5
  <2>2. /\ DOMAIN q2.poses = DOMAIN q.poses \cup {j.child} /\ q2.poses[j.child] = poseq
        /\ \A l \in DOMAIN q.poses : l # j.child => q2.poses[l] = q.poses[l]
        /\ q2.queue = Append(q.queue, j.child)
    BY <1>1, <1>2, <2>1, PlacedIs
  <2>3. /\ DOMAIN s2.poses = DOMAIN s.poses \cup {j.child} /\ s2.poses[j.child] = poseq
        /\ \A l \in DOMAIN s.poses : l # j.child => s2.poses[l] = s.poses[l]
        /\ s2.queue = Append(s.queue, j.child)
    BY <1>1, <1>2, <2>1, PlacedIs
  <2>4. DOMAIN q2.poses = DOMAIN s2.poses \ B
    BY <1>1, <2>2, <2>3
  <2>5. \A l \in DOMAIN q2.poses : q2.poses[l] = s2.poses[l]
    BY <1>1, <2>2, <2>3
  <2>6. q.queue \in Seq(S) /\ s.queue \in Seq(S)
    BY <1>1, SearchHas
  <2>7. Without(q2.queue, s2.queue, B)
    <3>1. Without(Append(q.queue, j.child), Append(s.queue, j.child), B)
      BY <1>1, <2>6, WithoutBoth
    <3> QED
      BY <2>2, <2>3, <3>1
  <2>8. Agrees(q2, s2, B)
    BY <2>4, <2>5, <2>7 DEF Agrees
  <2> QED
    BY <2>8 DEF q2, s2
<1>6. CASE ~(IsJoint(j) /\ j.parent = p /\ j.child \notin DOMAIN q.poses)
  <2>1. q2 = q /\ s2 = s
    BY <1>2, <1>3, <1>4, <1>6
  <2> QED
    BY <2>1 DEF q2, s2
<1> QED
  BY <1>5, <1>6

LEMMA FollowingSphereAgrees ==
  ASSUME NEW S, NEW p, NEW q \in Searches(S), NEW s \in From(S, p), NEW B, Agrees(q, s, B),
         NEW j, j.child \in S, j.child \in B, IsOrigin(j.origin)
  PROVE  Agrees(q, Followed(p, s, j), B)
<1> DEFINE pose == After(s.poses[p], FromOrigin(j.origin))
           s2 == Followed(p, s, j)
<1>1. /\ s \in Searches(S)
      /\ DOMAIN q.poses = DOMAIN s.poses \ B /\ \A l \in DOMAIN q.poses : q.poses[l] = s.poses[l]
      /\ Without(q.queue, s.queue, B)
  BY DEF From, Agrees
<1>2. /\ pose \in Rigid
      /\ IsJoint(j) /\ j.parent = p /\ j.child \notin DOMAIN s.poses => s2 = Placed(s, j.child, pose)
      /\ ~(IsJoint(j) /\ j.parent = p /\ j.child \notin DOMAIN s.poses) => s2 = s
  BY FollowedIs
<1> HIDE DEF pose, s2
<1>3. CASE s2 = Placed(s, j.child, pose)
  <2>1. /\ DOMAIN s2.poses = DOMAIN s.poses \cup {j.child}
        /\ \A l \in DOMAIN s.poses : l # j.child => s2.poses[l] = s.poses[l]
        /\ s2.queue = Append(s.queue, j.child)
    BY <1>1, <1>2, <1>3, PlacedIs
  <2>2. DOMAIN q.poses = DOMAIN s2.poses \ B
    BY <1>1, <2>1
  <2>3. \A l \in DOMAIN q.poses : q.poses[l] = s2.poses[l]
    BY <1>1, <2>1
  <2>4. q.queue \in Seq(S) /\ s.queue \in Seq(S)
    BY <1>1, SearchHas
  <2>5. Without(q.queue, Append(s.queue, j.child), B)
    BY <1>1, <2>4, WithoutOnlyMember
  <2>6. Agrees(q, s2, B)
    BY <2>1, <2>2, <2>3, <2>5 DEF Agrees
  <2> QED
    BY <2>6 DEF s2
<1>4. CASE s2 = s
  BY <1>4 DEF s2
<1> QED
  BY <1>2, <1>3, <1>4

\* Taking a sphere from the queue, or the same link from both.
LEMMA PoppingAgrees ==
  ASSUME NEW S, NEW q \in Searches(S), NEW s \in Searches(S), NEW B, Agrees(q, s, B), s.queue # <<>>
  PROVE  /\ Head(s.queue) \in B => Agrees(q, Popped(s), B)
         /\ Head(s.queue) \notin B => /\ q.queue # <<>> /\ Head(q.queue) = Head(s.queue)
                                      /\ Agrees(Popped(q), Popped(s), B)
<1>1. q.queue \in Seq(S) /\ s.queue \in Seq(S)
  BY SearchHas
<1>2. Without(q.queue, s.queue, B)
  BY DEF Agrees
<1>3. Popped(s).poses = s.poses /\ Popped(s).queue = Tail(s.queue)
  BY PoppedIs
<1>4. /\ Head(s.queue) \in B => Without(q.queue, Tail(s.queue), B)
      /\ Head(s.queue) \notin B => /\ q.queue # <<>> /\ Head(q.queue) = Head(s.queue)
                                   /\ Without(Tail(q.queue), Tail(s.queue), B)
  BY <1>1, <1>2, WithoutHead
<1>5. q.queue # <<>> => Popped(q).poses = q.poses /\ Popped(q).queue = Tail(q.queue)
  BY PoppedIs
<1> QED
  BY <1>3, <1>4, <1>5 DEF Agrees

LEMMA NamesApart ==
  ASSUME NEW r, IsRobot(r)
  PROVE  /\ IsGraph(r, Named(r)) /\ \A x \in SphereNames(r) : x \notin Named(r)
         /\ \A j \in 1..Len(r.joints) : r.joints[j].parent \in Named(r) /\ r.joints[j].child \in Named(r)
         /\ \A x \in AllSpheres(r) : x.parent \in Named(r)
<1>1. /\ IsSequence(r.links) /\ IsSequence(r.joints)
      /\ DOMAIN r.links = 1..Len(r.links) /\ DOMAIN r.joints = 1..Len(r.joints)
      /\ \A j \in DOMAIN r.joints : IsOrigin(r.joints[j].origin)
  BY DEF IsRobot, IsSequence
<1>2. /\ \A l \in 1..Len(r.links) : r.links[l].name \in Named(r)
      /\ \A j \in 1..Len(r.joints) : r.joints[j].parent \in Named(r) /\ r.joints[j].child \in Named(r)
  BY <1>1 DEF Named, LinkNames
<1>3. IsGraph(r, Named(r))
  BY <1>1, <1>2 DEF IsGraph
<1>4. \A x \in SphereNames(r) : x \notin Named(r)
  BY SphereHas DEF SphereNames
<1>5. \A x \in AllSpheres(r) : x.parent \in Named(r)
  BY SphereHas DEF Named
<1> QED
  BY <1>2, <1>3, <1>4, <1>5

LEMMA SphereVisitIsIdle ==
  ASSUME NEW r, IsRobot(r), NEW s \in Searches(NamesIn(r)), s.queue # <<>>,
         Head(s.queue) \in SphereNames(r)
  PROVE  Visited(WithSpheres(r), s) = Popped(s)
<1> DEFINE t == WithSpheres(r)
           S == NamesIn(r)
           n == Len(t.joints)
           p == Head(s.queue)
<1>1. IsGraph(t, S) /\ IsAssembled(t, r)
  BY GraphsAre, AssembledIs
<1> HIDE DEF t, S
<1>2. \A j \in 1..n : t.joints[j].parent # p
  <2> SUFFICES ASSUME NEW j \in 1..n PROVE t.joints[j].parent \in Named(r)
    BY NamesApart
  <2> DEFINE js == Len(r.joints)
             ss == Len(Added(r))
  <2>1. /\ js \in Nat /\ ss \in Nat /\ n = js + ss
        /\ \A i \in 1..js : t.joints[i] = r.joints[i]
        /\ \A a \in 1..ss : t.joints[js + a] = FixedJoint(Added(r)[a]) /\ Added(r)[a] \in AllSpheres(r)
    BY <1>1 DEF IsAssembled
  <2>2. \A i \in 1..js : r.joints[i].parent \in Named(r)
    BY NamesApart
  <2>3. \A x \in AllSpheres(r) : FixedJoint(x).parent \in Named(r)
    BY NamesApart DEF FixedJoint
  <2> HIDE DEF n, js, ss
  <2>4. CASE j \in 1..js
    BY <2>1, <2>2, <2>4
  <2>5. CASE j \notin 1..js
    <3>1. j - js \in 1..ss /\ j = js + (j - js)
      BY <2>1, <2>5
    <3> QED
      BY <2>1, <2>3, <3>1
  <2> QED
    BY <2>4, <2>5
<1>3. PICK after : IsVisit(after, t, S, s)
  BY <1>1, VisitIs DEF S
<1>4. /\ n \in Nat /\ after[0] = Popped(s) /\ Visited(t, s) = after[n]
      /\ \A i \in 1..n : after[i] = Followed(p, after[i - 1], t.joints[i])
  BY <1>1, <1>3 DEF IsVisit, IsGraph, IsSequence
<1> HIDE DEF n, p
<1> DEFINE Idle == {k \in Nat : k <= n => after[k] = Popped(s)}
<1>5. 0 \in Idle
  BY <1>4
<1>6. ASSUME NEW k \in Idle PROVE k + 1 \in Idle
  <2> SUFFICES ASSUME k + 1 <= n PROVE after[k + 1] = Popped(s)
    OBVIOUS
  <2>1. k \in Nat /\ k + 1 \in 1..n /\ (k + 1) - 1 = k /\ after[k] = Popped(s)
    BY <1>4
  <2> HIDE DEF Idle
  <2> QED
    BY <1>2, <1>4, <2>1 DEF Followed
<1>7. Idle \in SUBSET Nat
  OBVIOUS
<1> HIDE DEF Idle
<1>8. n \in Idle
  BY <1>4, <1>5, <1>6, <1>7, Induction
<1> QED
  BY <1>4, <1>8 DEF Idle, t

LEMMA VisitAgrees ==
  ASSUME NEW r, IsRobot(r), NEW q \in Searches(NamesIn(r)), NEW s \in Searches(NamesIn(r)),
         Agrees(q, s, SphereNames(r)), s.queue # <<>>, Head(s.queue) \notin SphereNames(r)
  PROVE  q.queue # <<>> /\ Agrees(Visited(r, q), Visited(WithSpheres(r), s), SphereNames(r))
<1> DEFINE t == WithSpheres(r)
           S == NamesIn(r)
           B == SphereNames(r)
           js == Len(r.joints)
           ss == Len(Added(r))
           p == Head(s.queue)
<1>1. IsGraph(r, S) /\ IsGraph(t, S) /\ IsAssembled(t, r)
  BY GraphsAre, AssembledIs
<1> HIDE DEF t, S, B
<1>2. q.queue # <<>> /\ Head(q.queue) = p /\ Agrees(Popped(q), Popped(s), B)
  BY PoppingAgrees DEF S, B
<1>3. /\ js \in Nat /\ ss \in Nat /\ Len(t.joints) = js + ss
      /\ \A j \in 1..js : t.joints[j] = r.joints[j]
      /\ \A a \in 1..ss : t.joints[js + a] = FixedJoint(Added(r)[a]) /\ Added(r)[a] \in AllSpheres(r)
  BY <1>1 DEF IsAssembled
<1>4. /\ \A j \in 1..js : r.joints[j].child \in S /\ IsOrigin(r.joints[j].origin)
      /\ \A j \in 1..Len(t.joints) : t.joints[j].child \in S /\ IsOrigin(t.joints[j].origin)
  BY <1>1 DEF IsGraph
<1>5. /\ \A j \in 1..js : r.joints[j].child \notin B
      /\ \A x \in AllSpheres(r) : FixedJoint(x).child \in B
  BY NamesApart DEF B, FixedJoint, SphereNames
<1>6. PICK ar : IsVisit(ar, r, S, q)
  BY <1>1, <1>2, VisitIs DEF S
<1>7. PICK at : IsVisit(at, t, S, s)
  BY <1>1, VisitIs DEF S
<1>8. /\ ar \in [0..js -> From(S, p)] /\ ar[0] = Popped(q) /\ Visited(r, q) = ar[js]
      /\ \A i \in 1..js : ar[i] = Followed(p, ar[i - 1], r.joints[i])
  BY <1>2, <1>6 DEF IsVisit
<1>9. /\ at \in [0..(js + ss) -> From(S, p)] /\ at[0] = Popped(s) /\ Visited(t, s) = at[js + ss]
      /\ \A i \in 1..(js + ss) : at[i] = Followed(p, at[i - 1], t.joints[i])
  BY <1>3, <1>7 DEF IsVisit
<1> HIDE DEF js, ss, p
<1> DEFINE Same == {k \in Nat : k <= js => Agrees(ar[k], at[k], B)}
<1>10. js \in Same
  <2>1. 0 \in Same
    BY <1>2, <1>8, <1>9
  <2>2. ASSUME NEW k \in Same PROVE k + 1 \in Same
    <3> SUFFICES ASSUME k + 1 <= js PROVE Agrees(ar[k + 1], at[k + 1], B)
      OBVIOUS
    <3>1. /\ k \in Nat /\ k \in 0..js /\ k \in 0..(js + ss) /\ k + 1 \in 1..js /\ k + 1 \in 1..(js + ss)
          /\ (k + 1) - 1 = k /\ Agrees(ar[k], at[k], B)
      BY <1>3
    <3> HIDE DEF Same
    <3> DEFINE j == r.joints[k + 1]
    <3>2. /\ ar[k + 1] = Followed(p, ar[k], j) /\ at[k + 1] = Followed(p, at[k], j)
          /\ ar[k] \in From(S, p) /\ at[k] \in From(S, p)
      BY <1>3, <1>8, <1>9, <3>1
    <3>3. j.child \in S /\ j.child \notin B /\ IsOrigin(j.origin)
      BY <1>4, <1>5, <3>1
    <3> HIDE DEF j
    <3> QED
      BY <3>1, <3>2, <3>3, FollowingAgrees
  <2>3. Same \in SUBSET Nat
    OBVIOUS
  <2> HIDE DEF Same
  <2> QED
    BY <1>3, <2>1, <2>2, <2>3, Induction
<1> DEFINE Still_ == {k \in Nat : k <= ss => Agrees(ar[js], at[js + k], B)}
<1>11. ss \in Still_
  <2>1. 0 \in Still_
    <3>1. js + 0 = js /\ Agrees(ar[js], at[js], B)
      BY <1>3, <1>10
    <3> QED
      BY <3>1
  <2> HIDE DEF Same
  <2>2. ASSUME NEW k \in Still_ PROVE k + 1 \in Still_
    <3> SUFFICES ASSUME k + 1 <= ss PROVE Agrees(ar[js], at[js + (k + 1)], B)
      OBVIOUS
    <3>1. /\ k \in Nat /\ js \in 0..js /\ js + k \in 0..(js + ss) /\ k + 1 \in 1..ss
          /\ js + (k + 1) \in 1..(js + ss)
          /\ (js + (k + 1)) - 1 = js + k /\ Agrees(ar[js], at[js + k], B)
      BY <1>3
    <3> HIDE DEF Still_
    <3> DEFINE j == t.joints[js + (k + 1)]
    <3>2. /\ at[js + (k + 1)] = Followed(p, at[js + k], j)
          /\ ar[js] \in From(S, p) /\ at[js + k] \in From(S, p)
      BY <1>8, <1>9, <3>1
    <3>3. j.child \in S /\ j.child \in B /\ IsOrigin(j.origin)
      BY <1>3, <1>4, <1>5, <3>1
    <3>4. ar[js] \in Searches(S)
      BY <3>2 DEF From
    <3> HIDE DEF j
    <3> QED
      BY <3>1, <3>2, <3>3, <3>4, FollowingSphereAgrees
  <2>3. Still_ \in SUBSET Nat
    OBVIOUS
  <2> HIDE DEF Still_
  <2> QED
    BY <1>3, <2>1, <2>2, <2>3, Induction
<1> QED
  BY <1>2, <1>3, <1>8, <1>9, <1>11 DEF t, B

\* Once the queue is empty a search stays as it is.
LEMMA EndedStays ==
  ASSUME NEW S, NEW r, NEW after, IsSearched(after, r, S), Visits(r) \in Nat, NEW k \in 0..Visits(r),
         after[k].queue = <<>>
  PROVE  Searched(r) = after[k]
<1> DEFINE n == Visits(r)
           Ended == {i \in Nat : k + i <= n => after[k + i] = after[k]}
<1>1. n \in Nat /\ k \in Nat /\ k <= n /\ Searched(r) = after[n]
      /\ \A i \in 1..n : after[i] = Visited(r, after[i - 1])
  BY DEF IsSearched
<1> HIDE DEF n
<1>2. 0 \in Ended
  BY <1>1
<1>3. ASSUME NEW i \in Ended PROVE i + 1 \in Ended
  <2> SUFFICES ASSUME k + (i + 1) <= n PROVE after[k + (i + 1)] = after[k]
    OBVIOUS
  <2>1. i \in Nat /\ k + (i + 1) \in 1..n /\ (k + (i + 1)) - 1 = k + i /\ after[k + i] = after[k]
    BY <1>1
  <2> HIDE DEF Ended
  <2> QED
    BY <1>1, <2>1 DEF Visited
<1>4. Ended \in SUBSET Nat
  OBVIOUS
<1>5. n - k \in Nat /\ k + (n - k) = n
  BY <1>1
<1> HIDE DEF Ended
<1>6. n - k \in Ended
  BY <1>2, <1>3, <1>4, <1>5, Induction
<1> QED
  BY <1>1, <1>5, <1>6 DEF Ended

LEMMA SearchAgrees ==
  ASSUME NEW r, IsRobot(r)
  PROVE  Agrees(Searched(r), Searched(WithSpheres(r)), SphereNames(r))
<1> DEFINE t == WithSpheres(r)
           S == NamesIn(r)
           B == SphereNames(r)
           m == Visits(r)
           n == Visits(t)
<1>1. IsGraph(r, S) /\ IsGraph(t, S)
  BY GraphsAre
<1>2. m \in Nat /\ n \in Nat
  <2>1. \A g : IsGraph(g, S) => Len(g.links) \in Nat /\ Len(g.joints) \in Nat
    BY DEF IsGraph, IsSequence
  <2>2. \A a, b \in Nat : a + b \in Nat
    OBVIOUS
  <2> HIDE DEF t, S
  <2> QED
    BY <1>1, <2>1, <2>2 DEF Visits
<1>3. Roots(t) = Roots(r)
  BY RootsAgree
<1> HIDE DEF t, S
<1>4. PICK ar : IsSearched(ar, r, S)
  BY <1>1, SearchIs
<1>5. PICK at : IsSearched(at, t, S)
  BY <1>1, SearchIs
<1>6. /\ ar \in [0..m -> Searches(S)] /\ ar[0] = Roots(r) /\ Searched(r) = ar[m]
      /\ \A i \in 1..m : ar[i] = Visited(r, ar[i - 1])
  BY <1>4 DEF IsSearched
<1>7. /\ at \in [0..n -> Searches(S)] /\ at[0] = Roots(t) /\ Searched(t) = at[n]
      /\ \A i \in 1..n : at[i] = Visited(t, at[i - 1])
  BY <1>5 DEF IsSearched
<1>8. Searched(r).queue = <<>> /\ Searched(t).queue = <<>>
  BY <1>1, SearchEnds
<1>9. Agrees(Roots(r), Roots(r), B)
  <2> DEFINE x == Roots(r)
  <2>1. x \in Searches(Named(r))
    BY NamesApart, RootsAreSearch
  <2> HIDE DEF x
  <2>2. DOMAIN x.poses \in SUBSET Named(r) /\ x.queue \in Seq(Named(r)) /\ IsQueue(x.queue, x.poses)
    BY <2>1, SearchHas
  <2>3. \A l \in DOMAIN x.poses : l \notin B
    BY <2>2, NamesApart
  <2>4. \A i \in 1..Len(x.queue) : x.queue[i] \notin B
    BY <2>2, <2>3 DEF IsQueue
  <2>5. Without(x.queue, x.queue, B)
    BY <2>2, <2>4, WithoutNone
  <2>6. DOMAIN x.poses = DOMAIN x.poses \ B
    BY <2>3
  <2>7. Agrees(x, x, B)
    BY <2>5, <2>6 DEF Agrees
  <2> QED
    BY <2>7 DEF x
<1> HIDE DEF m, n, B
<1> DEFINE Good == {i \in Nat : i <= n => \E k \in 0..m : Agrees(ar[k], at[i], B)}
<1>10. 0 \in Good
  BY <1>2, <1>3, <1>6, <1>7, <1>9
<1>11. ASSUME NEW i \in Good PROVE i + 1 \in Good
  <2> SUFFICES ASSUME i + 1 <= n PROVE \E k \in 0..m : Agrees(ar[k], at[i + 1], B)
    OBVIOUS
  <2>1. i \in Nat /\ i <= n /\ i \in 0..n /\ i + 1 \in 1..n /\ (i + 1) - 1 = i
    BY <1>2
  <2>2. PICK k \in 0..m : Agrees(ar[k], at[i], B)
    BY <2>1
  <2> HIDE DEF Good
  <2>3. ar[k] \in Searches(S) /\ at[i] \in Searches(S) /\ at[i + 1] = Visited(t, at[i])
    BY <1>6, <1>7, <2>1
  <2>4. CASE at[i].queue = <<>>
    BY <2>2, <2>3, <2>4 DEF Visited
  <2>5. CASE at[i].queue # <<>> /\ Head(at[i].queue) \in B
    <3>1. at[i + 1] = Popped(at[i])
      BY <2>3, <2>5, SphereVisitIsIdle DEF B, S, t
    <3>2. Agrees(ar[k], Popped(at[i]), B)
      BY <2>2, <2>3, <2>5, PoppingAgrees
    <3> QED
      BY <3>1, <3>2
  <2>6. CASE at[i].queue # <<>> /\ Head(at[i].queue) \notin B
    <3>1. ar[k].queue # <<>> /\ Agrees(Visited(r, ar[k]), at[i + 1], B)
      BY <2>2, <2>3, <2>6, VisitAgrees DEF B, S, t
    <3>2. k # m
      BY <1>6, <1>8, <3>1
    <3>3. k + 1 \in 0..m /\ k + 1 \in 1..m /\ (k + 1) - 1 = k
      BY <1>2, <3>2
    <3>4. ar[k + 1] = Visited(r, ar[k])
      BY <1>6, <3>3
    <3> QED
      BY <3>1, <3>3, <3>4
  <2> QED
    BY <2>4, <2>5, <2>6
<1>12. Good \in SUBSET Nat
  OBVIOUS
<1> HIDE DEF Good
<1>13. n \in Good
  BY <1>2, <1>10, <1>11, <1>12, Induction
<1>14. PICK k \in 0..m : Agrees(ar[k], Searched(t), B)
  BY <1>2, <1>7, <1>13 DEF Good
<1>15. ar[k].queue = <<>>
  <2>1. ar[k] \in Searches(S)
    BY <1>6
  <2>2. ar[k].queue \in Seq(S)
    BY <2>1, SearchHas
  <2>3. Without(ar[k].queue, <<>>, B)
    BY <1>8, <1>14 DEF Agrees
  <2> QED
    BY <2>2, <2>3, WithoutEmpty
<1>16. Searched(r) = ar[k]
  BY <1>2, <1>4, <1>15, EndedStays DEF m
<1> QED
  BY <1>14, <1>16 DEF t, B

(***************************************************************************)
(* What a search reaches.  A link that a joint moves is where one of its   *)
(* joints puts it, and a joint whose parent was reached has its child      *)
(* reached, unless the parent waits in the queue or the joint is left to   *)
(* the visit that is going on.                                             *)
(***************************************************************************)
Follows(s, l, j) ==
  /\ IsJoint(j) /\ j.child = l /\ j.parent \in DOMAIN s.poses
  /\ s.poses[l] = After(s.poses[j.parent], FromOrigin(j.origin))
IsFollowing(s, g) ==
  \A l \in DOMAIN s.poses : IsChild(g, l) => \E i \in 1..Len(g.joints) : Follows(s, l, g.joints[i])
IsReaching(s, g, left) ==
  \A i \in 1..Len(g.joints) :
    i \notin left /\ IsJoint(g.joints[i]) /\ g.joints[i].parent \in DOMAIN s.poses =>
      g.joints[i].child \in DOMAIN s.poses \/ Occurs(g.joints[i].parent, s.queue)
LeftOf(g, p, k) == {i \in 1..Len(g.joints) : k < i /\ g.joints[i].parent = p}

LEMMA OccursAppended ==
  ASSUME NEW S, NEW s \in Seq(S), NEW x \in S
  PROVE  Occurs(x, Append(s, x)) /\ \A y : Occurs(y, s) => Occurs(y, Append(s, x))
<1> DEFINE n == Len(s)
           t == Append(s, x)
<1>1. n \in Nat /\ Len(t) = n + 1 /\ t[n + 1] = x /\ \A i \in 1..n : t[i] = s[i]
  BY AppendProperties, LenProperties
<1> HIDE DEF t, n
<1>2. n + 1 \in 1..Len(t) /\ \A i \in 1..n : i \in 1..Len(t)
  BY <1>1
<1>3. Occurs(x, t)
  BY <1>1, <1>2 DEF Occurs
<1>4. \A y : (\E i \in 1..n : s[i] = y) => Occurs(y, t)
  BY <1>1, <1>2 DEF Occurs
<1> QED
  BY <1>3, <1>4 DEF Occurs, t, n

LEMMA OccursInTail ==
  ASSUME NEW S, NEW s \in Seq(S), s # <<>>, NEW y, Occurs(y, s), y # Head(s)
  PROVE  Occurs(y, Tail(s))
<1> DEFINE n == Len(s)
           t == Tail(s)
<1>1. /\ n \in Nat \ {0} /\ Len(t) = n - 1 /\ Head(s) = s[1]
      /\ \A i \in 1..Len(t) : t[i] = s[i + 1]
  BY HeadTailProperties, LenProperties, EmptySeq
<1>2. PICK i \in 1..n : s[i] = y
  BY DEF Occurs
<1> HIDE DEF t, n
<1>3. i # 1
  BY <1>1, <1>2
<1>4. i - 1 \in 1..Len(t) /\ (i - 1) + 1 = i
  BY <1>1, <1>3
<1>5. t[i - 1] = y
  BY <1>1, <1>2, <1>4
<1> QED
  BY <1>4, <1>5 DEF Occurs, t

LEMMA RootsReach ==
  ASSUME NEW S, NEW g, IsGraph(g, S)
  PROVE  IsFollowing(Roots(g), g) /\ IsReaching(Roots(g), g, {})
<1> DEFINE n == Len(g.links)
           Rooted(s) == \A l \in DOMAIN s.poses : ~IsChild(g, l) /\ Occurs(l, s.queue)
<1>1. n \in Nat /\ \A i \in 1..n : g.links[i].name \in S
  BY DEF IsGraph, IsSequence
<1>2. PICK after : IsRooting(after, g, S)
  BY RootsAre
<1>3. /\ after \in [0..n -> Searches(S)] /\ after[0] = Nothing
      /\ \A i \in 1..n : after[i] = WithRoot(g, after[i - 1], g.links[i])
      /\ Roots(g) = after[n]
  BY <1>2 DEF IsRooting
<1> HIDE DEF n
<1> DEFINE Good == {k \in Nat : k <= n => Rooted(after[k])}
<1>4. 0 \in Good
  BY <1>3 DEF Nothing
<1>5. ASSUME NEW k \in Good PROVE k + 1 \in Good
  <2> SUFFICES ASSUME k + 1 <= n PROVE Rooted(after[k + 1])
    OBVIOUS
  <2>1. k \in Nat /\ k \in 0..n /\ k + 1 \in 1..n /\ (k + 1) - 1 = k /\ Rooted(after[k])
    BY <1>1
  <2> HIDE DEF Good
  <2> DEFINE link == g.links[k + 1]
             s == after[k]
             now == after[k + 1]
  <2>2. s \in Searches(S) /\ now = WithRoot(g, s, link) /\ link.name \in S
    BY <1>1, <1>3, <2>1
  <2>3. s.queue \in Seq(S)
    BY <2>2, SearchHas
  <2> HIDE DEF link, s, now
  <2>4. CASE IsChild(g, link.name)
    BY <2>1, <2>2, <2>4 DEF WithRoot, s, now
  <2>5. CASE ~IsChild(g, link.name)
    <3>1. now = Placed(s, link.name, Identity)
      BY <2>2, <2>5 DEF WithRoot
    <3>2. /\ DOMAIN now.poses = DOMAIN s.poses \cup {link.name}
          /\ now.queue = Append(s.queue, link.name)
      BY <2>2, <3>1, IdentityIsRigid, PlacedIs
    <3>3. Occurs(link.name, now.queue) /\ \A y : Occurs(y, s.queue) => Occurs(y, now.queue)
      BY <2>2, <2>3, <3>2, OccursAppended
    <3>4. Rooted(s)
      BY <2>1 DEF s
    <3>5. Rooted(now)
      BY <2>5, <3>2, <3>3, <3>4
    <3> QED
      BY <3>5 DEF now
  <2> QED
    BY <2>4, <2>5
<1>6. Good \in SUBSET Nat
  OBVIOUS
<1> HIDE DEF Good
<1>7. n \in Good
  BY <1>1, <1>4, <1>5, <1>6, Induction
<1>8. Rooted(Roots(g))
  BY <1>1, <1>3, <1>7 DEF Good
<1> QED
  BY <1>8 DEF IsFollowing, IsReaching

LEMMA FollowingReaches ==
  ASSUME NEW S, NEW g, IsGraph(g, S), NEW p, NEW s \in From(S, p), NEW k \in Nat, k + 1 \in 1..Len(g.joints),
         IsFollowing(s, g), IsReaching(s, g, LeftOf(g, p, k))
  PROVE  LET now == Followed(p, s, g.joints[k + 1])
         IN  IsFollowing(now, g) /\ IsReaching(now, g, LeftOf(g, p, k + 1))
<1> DEFINE j == g.joints[k + 1]
           pose == After(s.poses[p], FromOrigin(j.origin))
           now == Followed(p, s, j)
           places == IsJoint(j) /\ j.parent = p /\ j.child \notin DOMAIN s.poses
<1>1. j.child \in S /\ IsOrigin(j.origin)
  BY DEF IsGraph
<1>2. s \in Searches(S) /\ p \in DOMAIN s.poses
  BY DEF From
<1>3. pose \in Rigid /\ (places => now = Placed(s, j.child, pose)) /\ (~places => now = s)
  BY <1>1, FollowedIs
<1>4. ASSUME NEW i \in 1..Len(g.joints), i \notin LeftOf(g, p, k + 1), i \in LeftOf(g, p, k)
      PROVE  i = k + 1 /\ j.parent = p
  BY <1>4 DEF LeftOf
<1>5. CASE ~places
  <2>1. now = s
    BY <1>3, <1>5
  <2>2. IsReaching(s, g, LeftOf(g, p, k + 1))
    BY <1>4, <1>5 DEF IsReaching
  <2> QED
    BY <2>1, <2>2
<1>6. CASE places
  <2>1. s.queue \in Seq(S)
    BY <1>2, SearchHas
  <2>2. /\ DOMAIN now.poses = DOMAIN s.poses \cup {j.child} /\ now.poses[j.child] = pose
        /\ \A l \in DOMAIN s.poses : l # j.child => now.poses[l] = s.poses[l]
        /\ now.queue = Append(s.queue, j.child)
    BY <1>1, <1>2, <1>3, <1>6, PlacedIs
  <2>3. Occurs(j.child, now.queue) /\ \A y : Occurs(y, s.queue) => Occurs(y, now.queue)
    BY <1>1, <2>1, <2>2, OccursAppended
  <2>4. IsJoint(j) /\ j.parent = p /\ j.child \notin DOMAIN s.poses
    BY <1>6
  <2>5. \A l \in DOMAIN s.poses : l \in DOMAIN now.poses /\ now.poses[l] = s.poses[l]
    BY <2>2, <2>4
  <2>6. pose = After(s.poses[p], FromOrigin(j.origin))
    OBVIOUS
  <2> HIDE DEF now, pose, places
  <2>7. Follows(now, j.child, j)
    BY <1>2, <2>2, <2>4, <2>5, <2>6 DEF Follows
  <2>8. IsFollowing(now, g)
    <3> SUFFICES ASSUME NEW l \in DOMAIN now.poses, IsChild(g, l)
                 PROVE  \E i \in 1..Len(g.joints) : Follows(now, l, g.joints[i])
      BY DEF IsFollowing
    <3>1. CASE l = j.child
      BY <2>7, <3>1
    <3>2. CASE l # j.child
      <4>1. l \in DOMAIN s.poses
        BY <2>2, <3>2
      <4>2. PICK i \in 1..Len(g.joints) : Follows(s, l, g.joints[i])
        BY <4>1 DEF IsFollowing
      <4>3. Follows(now, l, g.joints[i])
        BY <2>5, <4>1, <4>2 DEF Follows
      <4> QED
        BY <4>3
    <3> QED
      BY <3>1, <3>2
  <2>9. IsReaching(now, g, LeftOf(g, p, k + 1))
    <3> SUFFICES ASSUME NEW i \in 1..Len(g.joints), i \notin LeftOf(g, p, k + 1),
                        IsJoint(g.joints[i]), g.joints[i].parent \in DOMAIN now.poses
                 PROVE  g.joints[i].child \in DOMAIN now.poses \/ Occurs(g.joints[i].parent, now.queue)
      BY DEF IsReaching
    <3>1. CASE g.joints[i].parent = j.child
      BY <2>3, <3>1
    <3>2. CASE i \in LeftOf(g, p, k)
      <4>1. i = k + 1
        BY <1>4, <3>2
      <4> QED
        BY <2>2, <4>1
    <3>3. CASE g.joints[i].parent # j.child /\ i \notin LeftOf(g, p, k)
      <4>1. g.joints[i].parent \in DOMAIN s.poses
        BY <2>2, <3>3
      <4>2. g.joints[i].child \in DOMAIN s.poses \/ Occurs(g.joints[i].parent, s.queue)
        BY <3>3, <4>1 DEF IsReaching
      <4> QED
        BY <2>2, <2>3, <4>2
    <3> QED
      BY <3>1, <3>2, <3>3
  <2> QED
    BY <2>8, <2>9 DEF now
<1> QED
  BY <1>5, <1>6

LEMMA VisitReaches ==
  ASSUME NEW S, NEW g, IsGraph(g, S), NEW s \in Searches(S), s.queue # <<>>,
         IsFollowing(s, g), IsReaching(s, g, {})
  PROVE  IsFollowing(Visited(g, s), g) /\ IsReaching(Visited(g, s), g, {})
<1> DEFINE n == Len(g.joints)
           p == Head(s.queue)
<1>1. n \in Nat
  BY DEF IsGraph, IsSequence
<1>2. PICK after : IsVisit(after, g, S, s)
  BY VisitIs
<1>3. /\ after \in [0..n -> From(S, p)] /\ after[0] = Popped(s)
      /\ \A k \in 1..n : after[k] = Followed(p, after[k - 1], g.joints[k])
      /\ Visited(g, s) = after[n]
  BY <1>2 DEF IsVisit
<1>4. IsFollowing(Popped(s), g) /\ IsReaching(Popped(s), g, LeftOf(g, p, 0))
  <2>1. Popped(s).poses = s.poses /\ Popped(s).queue = Tail(s.queue)
    BY PoppedIs
  <2>2. s.queue \in Seq(S)
    BY SearchHas
  <2>3. IsFollowing(Popped(s), g)
    BY <2>1 DEF IsFollowing, Follows
  <2> HIDE DEF p
  <2>4. ASSUME NEW i \in 1..Len(g.joints), i \notin LeftOf(g, p, 0), IsJoint(g.joints[i]),
               g.joints[i].parent \in DOMAIN s.poses
        PROVE  g.joints[i].child \in DOMAIN s.poses \/ Occurs(g.joints[i].parent, Tail(s.queue))
    <3>1. g.joints[i].parent # p
      BY <1>1, <2>4 DEF LeftOf
    <3>2. g.joints[i].child \in DOMAIN s.poses \/ Occurs(g.joints[i].parent, s.queue)
      BY <2>4 DEF IsReaching
    <3>3. Occurs(g.joints[i].parent, s.queue) => Occurs(g.joints[i].parent, Tail(s.queue))
      BY <2>2, <3>1, OccursInTail DEF p
    <3> QED
      BY <3>2, <3>3
  <2>5. IsReaching(Popped(s), g, LeftOf(g, p, 0))
    BY <2>1, <2>4 DEF IsReaching
  <2> QED
    BY <2>3, <2>5
<1> HIDE DEF n, p
<1> DEFINE Good == {k \in Nat : k <= n => IsFollowing(after[k], g) /\ IsReaching(after[k], g, LeftOf(g, p, k))}
<1>5. 0 \in Good
  BY <1>3, <1>4
<1>6. ASSUME NEW k \in Good PROVE k + 1 \in Good
  <2> SUFFICES ASSUME k + 1 <= n
               PROVE  IsFollowing(after[k + 1], g) /\ IsReaching(after[k + 1], g, LeftOf(g, p, k + 1))
    OBVIOUS
  <2>1. /\ k \in Nat /\ k \in 0..n /\ k + 1 \in 1..n /\ (k + 1) - 1 = k
        /\ IsFollowing(after[k], g) /\ IsReaching(after[k], g, LeftOf(g, p, k))
    BY <1>1
  <2>2. after[k] \in From(S, p) /\ after[k + 1] = Followed(p, after[k], g.joints[k + 1])
    BY <1>3, <2>1
  <2>3. k + 1 \in 1..Len(g.joints)
    BY <2>1 DEF n
  <2> HIDE DEF Good
  <2> QED
    BY <2>1, <2>2, <2>3, FollowingReaches
<1>7. Good \in SUBSET Nat
  OBVIOUS
<1> HIDE DEF Good
<1>8. n \in Good
  BY <1>1, <1>5, <1>6, <1>7, Induction
<1>9. LeftOf(g, p, n) = {}
  BY <1>1 DEF LeftOf, n
<1>10. IsFollowing(after[n], g) /\ IsReaching(after[n], g, LeftOf(g, p, n))
  BY <1>1, <1>8 DEF Good
<1> QED
  BY <1>3, <1>9, <1>10

\* In the end each joint from a reached link has reached its child, and nothing waits.
LEMMA SearchReaches ==
  ASSUME NEW S, NEW g, IsGraph(g, S)
  PROVE  /\ IsFollowing(Searched(g), g)
         /\ \A i \in 1..Len(g.joints) :
              IsJoint(g.joints[i]) /\ g.joints[i].parent \in DOMAIN Searched(g).poses =>
                g.joints[i].child \in DOMAIN Searched(g).poses
<1> DEFINE n == Visits(g)
<1>1. n \in Nat
  <2>1. Len(g.links) \in Nat /\ Len(g.joints) \in Nat
    BY DEF IsGraph, IsSequence
  <2>2. \A a, b \in Nat : a + b \in Nat
    OBVIOUS
  <2> QED
    BY <2>1, <2>2 DEF Visits
<1>2. PICK after : IsSearched(after, g, S)
  BY SearchIs
<1>3. /\ after \in [0..n -> Searches(S)] /\ after[0] = Roots(g)
      /\ \A i \in 1..n : after[i] = Visited(g, after[i - 1])
      /\ Searched(g) = after[n]
  BY <1>2 DEF IsSearched
<1> HIDE DEF n
<1> DEFINE Good == {k \in Nat : k <= n => IsFollowing(after[k], g) /\ IsReaching(after[k], g, {})}
<1>4. 0 \in Good
  BY <1>3, RootsReach
<1>5. ASSUME NEW k \in Good PROVE k + 1 \in Good
  <2> SUFFICES ASSUME k + 1 <= n
               PROVE  IsFollowing(after[k + 1], g) /\ IsReaching(after[k + 1], g, {})
    OBVIOUS
  <2>1. /\ k \in Nat /\ k \in 0..n /\ k + 1 \in 1..n /\ (k + 1) - 1 = k
        /\ IsFollowing(after[k], g) /\ IsReaching(after[k], g, {})
    BY <1>1
  <2>2. after[k] \in Searches(S) /\ after[k + 1] = Visited(g, after[k])
    BY <1>3, <2>1
  <2> HIDE DEF Good
  <2>3. CASE after[k].queue = <<>>
    BY <2>1, <2>2, <2>3 DEF Visited
  <2>4. CASE after[k].queue # <<>>
    BY <2>1, <2>2, <2>4, VisitReaches
  <2> QED
    BY <2>3, <2>4
<1>6. Good \in SUBSET Nat
  OBVIOUS
<1> HIDE DEF Good
<1>7. n \in Good
  BY <1>1, <1>4, <1>5, <1>6, Induction
<1>8. IsFollowing(Searched(g), g) /\ IsReaching(Searched(g), g, {})
  BY <1>1, <1>3, <1>7 DEF Good
<1>9. \A y : ~Occurs(y, Searched(g).queue)
  <2>1. Searched(g).queue = <<>>
    BY SearchEnds
  <2>2. Len(<<>>) = 0
    OBVIOUS
  <2>3. \A y : ~Occurs(y, <<>>)
    BY <2>2 DEF Occurs
  <2> QED
    BY <2>1, <2>3
<1> QED
  BY <1>8, <1>9 DEF IsReaching

(***************************************************************************)
(* A sphere whose parent was reached was placed from it, by the joint of a *)
(* sphere with its name; numbered apart, that is the sphere itself.        *)
(***************************************************************************)
LEMMA SphereIsPlaced ==
  ASSUME NEW r, IsRobot(r), NEW x \in AllSpheres(r), x.parent \in DOMAIN Searched(r).poses
  PROVE  LET poses == Searched(WithSpheres(r)).poses
         IN  /\ x.name \in DOMAIN poses
             /\ \E y \in AllSpheres(r) :
                  /\ y.name = x.name /\ y.parent \in DOMAIN poses
                  /\ poses[x.name] = After(poses[y.parent], FromOrigin(Origin(y.at, Still)))
<1> DEFINE t == WithSpheres(r)
           S == NamesIn(r)
           js == Len(r.joints)
           ss == Len(Added(r))
           poses == Searched(t).poses
<1>1. IsGraph(t, S) /\ IsAssembled(t, r) /\ IsSequence(t.joints)
  BY GraphsAre, AssembledIs
<1>2. DOMAIN Searched(r).poses = DOMAIN poses \ SphereNames(r)
  BY SearchAgrees DEF Agrees
<1>3. x.parent \in DOMAIN poses
  BY <1>2
<1> HIDE DEF t, S, poses
<1>4. /\ js \in Nat /\ ss \in Nat /\ Len(t.joints) = js + ss
      /\ \A j \in 1..js : t.joints[j] = r.joints[j]
      /\ \A a \in 1..ss : t.joints[js + a] = FixedJoint(Added(r)[a]) /\ Added(r)[a] \in AllSpheres(r)
      /\ \A z \in AllSpheres(r) : \E a \in 1..ss : Added(r)[a] = z
  BY <1>1 DEF IsAssembled
<1>5. /\ IsFollowing(Searched(t), t)
      /\ \A i \in 1..Len(t.joints) :
           IsJoint(t.joints[i]) /\ t.joints[i].parent \in DOMAIN poses => t.joints[i].child \in DOMAIN poses
  BY <1>1, SearchReaches DEF poses
<1>6. \A z \in AllSpheres(r) : /\ FixedJoint(z).child = z.name /\ FixedJoint(z).parent = z.parent
                               /\ IsJoint(FixedJoint(z)) /\ FixedJoint(z).origin = Origin(z.at, Still)
  <2> SUFFICES ASSUME NEW z \in AllSpheres(r)
               PROVE  /\ FixedJoint(z).child = z.name /\ FixedJoint(z).parent = z.parent
                      /\ IsJoint(FixedJoint(z)) /\ FixedJoint(z).origin = Origin(z.at, Still)
    OBVIOUS
  <2>1. z.parent # NoName /\ z.name # NoName
    BY SphereHas
  <2> QED
    BY <2>1 DEF FixedJoint, IsJoint
<1>7. IsChild(t, x.name)
  BY <1>1, ChildAgrees
<1>8. /\ x.name \notin Named(r)
      /\ \A j \in 1..js : r.joints[j].child \in Named(r)
  BY NamesApart, SphereHas
<1> HIDE DEF js, ss
<1>9. x.name \in DOMAIN poses
  <2>1. PICK a \in 1..ss : Added(r)[a] = x
    BY <1>4
  <2>2. js + a \in 1..Len(t.joints)
    BY <1>4
  <2>3. t.joints[js + a] = FixedJoint(x)
    BY <1>4, <2>1
  <2> QED
    BY <1>3, <1>5, <1>6, <2>2, <2>3
<1>10. PICK i \in 1..Len(t.joints) : Follows(Searched(t), x.name, t.joints[i])
  BY <1>5, <1>7, <1>9 DEF IsFollowing, poses
<1>11. i \notin 1..js
  BY <1>4, <1>8, <1>10 DEF Follows
<1>12. i - js \in 1..ss /\ i = js + (i - js)
  BY <1>4, <1>11
<1> DEFINE y == Added(r)[i - js]
<1>13. y \in AllSpheres(r) /\ t.joints[i] = FixedJoint(y)
  BY <1>4, <1>12
<1> HIDE DEF y
<1>14. /\ y.name = x.name /\ y.parent \in DOMAIN poses
       /\ poses[x.name] = After(poses[y.parent], FromOrigin(Origin(y.at, Still)))
  BY <1>6, <1>10, <1>13 DEF Follows, poses
<1> QED
  BY <1>9, <1>13, <1>14 DEF poses, t

LEMMA AppendedApart ==
  ASSUME NEW s, IsSequence(s), NEW u, IsSequence(u), NEW x, NEW y, Append(s, x) = Append(u, y)
  PROVE  s = u /\ x = y
<1> DEFINE S == {s[i] : i \in 1..Len(s)} \cup {u[i] : i \in 1..Len(u)} \cup {x, y}
<1>1. s \in Seq(S) /\ u \in Seq(S) /\ x \in S /\ y \in S
  BY SequenceIsSeq
<1> HIDE DEF S
<1> DEFINE n == Len(s)
           m == Len(u)
           a == Append(s, x)
           b == Append(u, y)
<1>2. /\ n \in Nat /\ Len(a) = n + 1 /\ a[n + 1] = x /\ \A i \in 1..n : a[i] = s[i]
      /\ s = [i \in 1..n |-> s[i]]
  BY <1>1, AppendProperties, LenProperties DEF IsSequence
<1>3. /\ m \in Nat /\ Len(b) = m + 1 /\ b[m + 1] = y /\ \A i \in 1..m : b[i] = u[i]
      /\ u = [i \in 1..m |-> u[i]]
  BY <1>1, AppendProperties, LenProperties DEF IsSequence
<1>4. a = b
  OBVIOUS
<1> HIDE DEF n, m, a, b
<1>5. n = m
  BY <1>2, <1>3, <1>4
<1>6. \A i \in 1..n : s[i] = u[i]
  BY <1>2, <1>3, <1>4, <1>5
<1> QED
  BY <1>2, <1>3, <1>4, <1>5, <1>6

LEMMA OnlyPacked ==
  ASSUME NEW link, IsSequence(link.collisions), Cardinality(PackedOf(link)) = 1
  PROVE  \A c, d \in PackedOf(link) : c = d
<1> DEFINE n == Len(link.collisions)
<1>1. n \in Nat /\ PackedOf(link) \in SUBSET (1..n)
  BY DEF IsSequence, PackedOf
<1> HIDE DEF n
<1>2. IsFiniteSet(PackedOf(link))
  BY <1>1, FS_Interval, FS_Subset, SMTT(30)
<1>3. \E c : PackedOf(link) = {c}
  BY <1>2, FS_Singleton
<1> QED
  BY <1>3

\* Spheres of one name, of a link with one packed collision, are one sphere.
LEMMA SpheresApart ==
  ASSUME NEW r, IsRobot(r), NEW l \in 1..Len(r.links), Cardinality(PackedOf(r.links[l])) = 1,
         NEW i \in PackedOf(r.links[l]), NEW k \in DOMAIN r.links[l].collisions[i].spheres,
         NEW y \in AllSpheres(r), y.name = SphereName(r.links[l].name, k)
  PROVE  y = SpheresFor(r.links[l], r.links[l].collisions[i])[k]
<1> DEFINE link == r.links[l]
<1>1. /\ DOMAIN r.links = 1..Len(r.links) /\ \A m \in 1..Len(r.links) : IsLink(r, r.links[m])
      /\ \A m, n \in 1..Len(r.links) : r.links[m].name = r.links[n].name => m = n
  BY DEF IsRobot, IsSequence
<1>2. PICK m \in 1..Len(r.links) :
           /\ IsLink(r, r.links[m]) /\ y.parent = r.links[m].name
           /\ \E c \in DOMAIN r.links[m].collisions :
                LET coll == r.links[m].collisions[c] IN
                \E k2 \in DOMAIN coll.spheres :
                  /\ y = SpheresFor(r.links[m], coll)[k2]
                  /\ y.name = Append(r.links[m].name, k2) /\ y.name \notin Named(r) \cup {NoName}
                  /\ IsPacked(coll) /\ coll.spheres[k2] \in Vectors
                  /\ y.at = ApplyCollisionTransform(coll.spheres[k2], coll.origin) /\ y.at \in Vectors
  BY SphereIs
<1>3. PICK c \in DOMAIN r.links[m].collisions : \E k2 \in DOMAIN r.links[m].collisions[c].spheres :
        /\ y = SpheresFor(r.links[m], r.links[m].collisions[c])[k2]
        /\ y.name = Append(r.links[m].name, k2)
  BY <1>2
<1>4. PICK k2 \in DOMAIN r.links[m].collisions[c].spheres :
        /\ y = SpheresFor(r.links[m], r.links[m].collisions[c])[k2]
        /\ y.name = Append(r.links[m].name, k2)
  BY <1>3
<1>5. IsLink(r, link) /\ IsSequence(link.name) /\ IsSequence(r.links[m].name) /\ IsSequence(link.collisions)
  BY <1>1, <1>2 DEF IsLink
<1>6. Append(r.links[m].name, k2) = Append(link.name, k)
  BY <1>4 DEF SphereName
<1>7. r.links[m].name = link.name /\ k2 = k
  <2> DEFINE a == r.links[m].name
             b == link.name
  <2>1. IsSequence(a) /\ IsSequence(b) /\ Append(a, k2) = Append(b, k)
    BY <1>5, <1>6
  <2> HIDE DEF a, b
  <2>2. a = b /\ k2 = k
    BY <2>1, AppendedApart
  <2> QED
    BY <2>2 DEF a, b
<1>8. m = l
  BY <1>1, <1>7
<1>9. c \in DOMAIN link.collisions /\ k \in DOMAIN link.collisions[c].spheres
  BY <1>3, <1>4, <1>7, <1>8
<1>10. c \in PackedOf(link)
  <2>1. link.collisions[c].spheres # <<>>
    BY <1>9
  <2> QED
    BY <1>9, <2>1 DEF PackedOf
<1>11. c = i
  BY <1>5, <1>10, OnlyPacked
<1> QED
  BY <1>4, <1>7, <1>8, <1>11

LEMMA SearchedIsSearch ==
  ASSUME NEW S, NEW r, IsGraph(r, S)
  PROVE  Searched(r) \in Searches(S)
<1>1. PICK after : IsSearched(after, r, S)
  BY SearchIs
<1>2. Visits(r) \in Nat
  <2>1. Len(r.links) \in Nat /\ Len(r.joints) \in Nat
    BY DEF IsGraph, IsSequence
  <2>2. \A a, b \in Nat : a + b \in Nat
    OBVIOUS
  <2> QED
    BY <2>1, <2>2 DEF Visits
<1> QED
  BY <1>1, <1>2 DEF IsSearched

LEMMA RobotsAreWhole ==
  ASSUME NEW r, IsRobot(r)
  PROVE  SpheresSitIn(r)
<1> DEFINE t == WithSpheres(r)
           q == Searched(r).poses
           s == Searched(t).poses
           before == ZeroConfigLinkPoses(r)
           after == ZeroConfigLinkPoses(t)
<1>1. /\ DOMAIN q = DOMAIN s \ SphereNames(r) /\ \A l \in DOMAIN q : q[l] = s[l]
  BY SearchAgrees DEF Agrees
<1>2. /\ before = [l \in LinkNames(r) \cup DOMAIN q |-> IF l \in DOMAIN q THEN q[l] ELSE Identity]
      /\ after = [l \in LinkNames(t) \cup DOMAIN s |-> IF l \in DOMAIN s THEN s[l] ELSE Identity]
  BY DEF ZeroConfigLinkPoses
<1>3. LinkNames(r) \in SUBSET LinkNames(t)
  <2>1. IsAssembled(t, r) /\ IsSequence(t.links)
    BY AssembledIs
  <2> HIDE DEF t
  <2>2. /\ DOMAIN r.links = 1..Len(r.links) /\ DOMAIN t.links = 1..Len(t.links)
    BY <2>1 DEF IsRobot, IsSequence
  <2>3. \A l \in 1..Len(r.links) : l \in 1..Len(t.links) /\ t.links[l].name = r.links[l].name
    BY <2>1 DEF IsAssembled
  <2> QED
    BY <2>2, <2>3 DEF LinkNames
<1>4. \A l \in LinkNames(r) : l \notin SphereNames(r)
  BY NamesApart DEF Named
<1> HIDE DEF q, s, before, after, t
<1>5. \A l \in LinkNames(r) : after[l] = before[l]
  BY <1>1, <1>2, <1>3, <1>4
<1>6. ASSUME NEW l \in DOMAIN r.links, r.links[l].name \in DOMAIN q, Cardinality(PackedOf(r.links[l])) = 1,
             NEW i \in PackedOf(r.links[l]), NEW k \in DOMAIN r.links[l].collisions[i].spheres
      PROVE  after[SphereName(r.links[l].name, k)].translation =
               TransformPoint(CollisionPose(before[r.links[l].name], r.links[l].collisions[i].origin),
                              r.links[l].collisions[i].spheres[k])
  <2> DEFINE link == r.links[l]
             coll == link.collisions[i]
             x == SpheresFor(link, coll)[k]
             p == q[link.name]
  <2>1. l \in 1..Len(r.links) /\ i \in DOMAIN link.collisions
    BY DEF IsRobot, IsSequence, PackedOf
  <2>2. IsPacked(coll) /\ IsOrigin(coll.origin) /\ coll.spheres[k] \in Vectors
    BY <2>1 DEF IsRobot, IsLink, IsPacked
  <2>3. x = [name |-> SphereName(link.name, k), parent |-> link.name,
             at |-> ApplyCollisionTransform(coll.spheres[k], coll.origin)]
    BY DEF SpheresFor
  <2>4. x \in AllSpheres(r)
    BY <2>1 DEF AllSpheres, SphereSet
  <2> HIDE DEF x
  <2>5. /\ x.name = SphereName(link.name, k) /\ x.parent = link.name
        /\ x.at = ApplyCollisionTransform(coll.spheres[k], coll.origin)
    BY <2>3
  <2>6. /\ x.name \in DOMAIN s
        /\ \E y \in AllSpheres(r) : /\ y.name = x.name /\ y.parent \in DOMAIN s
                                    /\ s[x.name] = After(s[y.parent], FromOrigin(Origin(y.at, Still)))
    BY <1>6, <2>4, <2>5, SphereIsPlaced DEF q, s, t
  <2>7. s[x.name] = After(s[x.parent], FromOrigin(Origin(x.at, Still)))
    <3>1. PICK y \in AllSpheres(r) :
            y.name = x.name /\ s[x.name] = After(s[y.parent], FromOrigin(Origin(y.at, Still)))
      BY <2>6
    <3>2. y = x
      BY <1>6, <2>1, <2>5, <3>1, SpheresApart DEF x
    <3> QED
      BY <3>1, <3>2
  <2>8. s[link.name] = p /\ before[link.name] = p
    BY <1>1, <1>2, <1>6
  <2>9. p \in Rigid
    <3>1. IsGraph(r, NamesIn(r))
      BY GraphsAre
    <3>2. Searched(r) \in Searches(NamesIn(r))
      BY <3>1, SearchedIsSearch
    <3> QED
      BY <1>6, <3>2, SearchHas DEF q
  <2>10. after[x.name] = s[x.name]
    BY <1>2, <2>6
  <2> HIDE DEF link, coll, p
  <2>11. After(p, FromOrigin(Origin(x.at, Still))).translation
           = TransformPoint(CollisionPose(p, coll.origin), coll.spheres[k])
    BY <2>2, <2>5, <2>9, MovedTwice
  <2>12. after[SphereName(link.name, k)].translation
           = TransformPoint(CollisionPose(before[link.name], coll.origin), coll.spheres[k])
    BY <2>5, <2>7, <2>8, <2>10, <2>11
  <2> QED
    BY <2>12 DEF link, coll
<1> QED
  BY <1>5, <1>6 DEF SpheresSitIn, q, before, after, t

RobotIsKept == topic = "scene" => robot \in Robots

(***************************************************************************)
(* Every robot: whatever its links, joints, collisions and packed spheres, *)
(* assembling it moves no link, and each sphere link sits where its        *)
(* collision was drawn with it.                                            *)
(***************************************************************************)
THEOREM SpheresAlwaysSitWhereTheyWerePacked == LibrarySpec => []SpheresSitWhereTheyWerePacked
<1>1. LibraryInit => RobotIsKept
  BY DEF LibraryInit, RobotIsKept
<1>2. RobotIsKept /\ [LibraryNext]_<<topic, vars, configVars, prepVars, robot>> => RobotIsKept'
  BY DEF RobotIsKept, LibraryNext
<1>3. RobotIsKept => SpheresSitWhereTheyWerePacked
  <2> SUFFICES ASSUME topic = "scene", robot \in Robots PROVE SpheresSitIn(robot)
    BY DEF RobotIsKept, SpheresSitWhereTheyWerePacked
  <2>1. IsRobot(robot)
    BY LibraryAssumption
  <2> QED
    BY <2>1, RobotsAreWhole
<1> QED
  BY <1>1, <1>2, <1>3, PTL DEF LibrarySpec
-----------------------------------------------------------------------------
(***************************************************************************)
(* The edges of a body.                                                    *)
(***************************************************************************)
Triples == [1..3 -> Int \X Int \X Int]
IsBody(b) == \E N \in Nat : DOMAIN b \in SUBSET (1..N) /\ b \in [DOMAIN b -> Triples]

\* Two uses of an edge, in the same direction or not; and the only two.
Same(b, u, v) == Prep!Edge(b, v) = Prep!Edge(b, u) \/ Prep!Edge(b, v) = Prep!Opposite(Prep!Edge(b, u))
Against(b, u, v) == Prep!Edge(b, v) = Prep!Opposite(Prep!Edge(b, u))
Pair(b, u, v) ==
  /\ u \in Prep!Uses(b) /\ v \in Prep!Uses(b) /\ u # v
  /\ \A w \in Prep!Uses(b) : Same(b, u, w) <=> (w = u \/ w = v)

\* MeshPrep counts as this module does.
LEMMA CardinalityIs == \A T : Prep!Cardinality(T) = Cardinality(T)
BY DEF Prep!Cardinality, Cardinality

LEMMA OppositeIs ==
  ASSUME NEW b, NEW u
  PROVE  Prep!Opposite(Prep!Opposite(Prep!Edge(b, u))) = Prep!Edge(b, u)
BY DEF Prep!Opposite, Prep!Edge

LEMMA SameIs ==
  ASSUME NEW b, NEW u, NEW v
  PROVE  /\ Same(b, u, u) /\ (Same(b, u, v) => Same(b, v, u))
         /\ Against(b, u, v) => Against(b, v, u)
         /\ \A w : Same(b, u, v) /\ Same(b, v, w) => Same(b, u, w)
<1>1. /\ Prep!Opposite(Prep!Opposite(Prep!Edge(b, u))) = Prep!Edge(b, u)
      /\ Prep!Opposite(Prep!Opposite(Prep!Edge(b, v))) = Prep!Edge(b, v)
  BY OppositeIs
<1> QED
  BY <1>1 DEF Same, Against

LEMMA PairBack ==
  ASSUME NEW b, NEW u, NEW v, Pair(b, u, v)
  PROVE  Pair(b, v, u)
<1>1. /\ u \in Prep!Uses(b) /\ v \in Prep!Uses(b) /\ u # v
      /\ \A w \in Prep!Uses(b) : Same(b, u, w) <=> (w = u \/ w = v)
  BY DEF Pair
<1>2. Same(b, u, v) /\ Same(b, v, u)
  BY <1>1, SameIs
<1>3. \A w \in Prep!Uses(b) : Same(b, v, w) <=> Same(b, u, w)
  BY <1>2, SameIs
<1> QED
  BY <1>1, <1>3 DEF Pair

LEMMA UsersAre ==
  ASSUME NEW b, NEW u \in Prep!Uses(b)
  PROVE  /\ Prep!Users(b)[u] = {v \in Prep!Uses(b) : Same(b, u, v)}
         /\ u \in Prep!Users(b)[u]
         /\ \A v : Pair(b, u, v) => Prep!Users(b)[u] = {u, v}
<1>1. Prep!Users(b)[u] = {v \in Prep!Uses(b) : Same(b, u, v)}
  BY DEF Prep!Users, Same
<1>2. Same(b, u, u)
  BY SameIs
<1>3. ASSUME NEW v, Pair(b, u, v) PROVE {w \in Prep!Uses(b) : Same(b, u, w)} = {u, v}
  BY <1>3 DEF Pair
<1> QED
  BY <1>1, <1>2, <1>3

LEMMA BodyIsFinite ==
  ASSUME NEW b, IsBody(b)
  PROVE  /\ IsFiniteSet(DOMAIN b) /\ Cardinality(DOMAIN b) \in Nat
         /\ IsFiniteSet(Prep!Uses(b))
<1>1. PICK N \in Nat : DOMAIN b \in SUBSET (1..N)
  BY DEF IsBody
<1>2. IsFiniteSet(1..N) /\ IsFiniteSet(1..3)
  <2>1. 1 \in Int /\ N \in Int /\ 3 \in Int
    OBVIOUS
  <2> QED
    BY <2>1, FS_Interval
<1>3. IsFiniteSet(DOMAIN b) /\ Cardinality(DOMAIN b) \in Nat
  BY <1>1, <1>2, FS_Subset, FS_CardinalityType
<1> QED
  BY <1>2, <1>3, FS_Product DEF Prep!Uses

\* An edge has two users if they are a pair.
LEMMA TwoUsers ==
  ASSUME NEW b, IsBody(b), NEW u \in Prep!Uses(b)
  PROVE  Cardinality(Prep!Users(b)[u]) = 2 <=> \E v : Pair(b, u, v)
<1> DEFINE U == Prep!Users(b)[u]
<1>1. U = {v \in Prep!Uses(b) : Same(b, u, v)} /\ u \in U
  BY UsersAre
<1>2. IsFiniteSet(U)
  BY <1>1, BodyIsFinite, FS_Subset
<1>3. ASSUME NEW v, Pair(b, u, v) PROVE Cardinality(U) = 2
  <2>1. U = {u, v} /\ u # v
    BY <1>3, UsersAre DEF Pair
  <2>2. IsFiniteSet({u}) /\ Cardinality({u}) = 1
    BY FS_Singleton
  <2>3. v \notin {u} /\ {u} \cup {v} = U
    BY <2>1
  <2>4. Cardinality({u} \cup {v}) = Cardinality({u}) + 1
    BY <2>2, <2>3, FS_AddElement
  <2> QED
    BY <2>2, <2>3, <2>4
<1>4. ASSUME Cardinality(U) = 2 PROVE \E v : Pair(b, u, v)
  <2>1. IsFiniteSet(U \ {u}) /\ Cardinality(U \ {u}) = 1
    <3>1. u \in U /\ IsFiniteSet(U) /\ Cardinality(U) = 2
      BY <1>1, <1>2, <1>4
    <3> HIDE DEF U
    <3>2. IsFiniteSet(U \ {u}) /\ Cardinality(U \ {u}) = Cardinality(U) - 1
      BY <3>1, FS_RemoveElement
    <3> QED
      BY <3>1, <3>2
  <2>2. PICK v : U \ {u} = {v}
    BY <2>1, FS_Singleton
  <2>3. v \in U /\ v # u /\ \A w : w \in U <=> (w = u \/ w = v)
    BY <1>1, <2>2
  <2>4. Pair(b, u, v)
    BY <1>1, <2>3 DEF Pair
  <2> QED
    BY <2>4
<1> QED
  BY <1>3, <1>4

LEMMA WatertightIs ==
  ASSUME NEW b, IsBody(b)
  PROVE  Prep!Watertight(b) <=> \A u \in Prep!Uses(b) : \E v : Pair(b, u, v)
<1>1. Prep!Watertight(b) <=> \A u \in Prep!Uses(b) : Cardinality(Prep!Users(b)[u]) = 2
  <2>1. DOMAIN Prep!Users(b) = Prep!Uses(b)
    BY DEF Prep!Users
  <2> QED
    BY <2>1, CardinalityIs DEF Prep!Watertight, Prep!Range
<1> QED
  BY <1>1, TwoUsers

LEMMA WindingIs ==
  ASSUME NEW b, IsBody(b)
  PROVE  Prep!Winding(b) <=> \A u, v \in Prep!Uses(b) : Pair(b, u, v) => Against(b, u, v)
<1>0. DOMAIN Prep!Users(b) = Prep!Uses(b)
  BY DEF Prep!Users
<1>1. ASSUME Prep!Winding(b), NEW u \in Prep!Uses(b), NEW v \in Prep!Uses(b), Pair(b, u, v)
      PROVE  Against(b, u, v)
  <2>1. Prep!Users(b)[u] = {u, v} /\ u # v
    BY <1>1, UsersAre DEF Pair
  <2>2. Cardinality(Prep!Users(b)[u]) = 2
    BY <1>1, TwoUsers
  <2>3. Prep!Users(b)[u] \in Prep!Range(Prep!Users(b))
    BY <1>0 DEF Prep!Range
  <2> QED
    BY <1>1, <2>1, <2>2, <2>3, CardinalityIs DEF Prep!Winding, Against
<1>2. ASSUME \A u, v \in Prep!Uses(b) : Pair(b, u, v) => Against(b, u, v)
      PROVE  Prep!Winding(b)
  <2> SUFFICES ASSUME NEW w \in Prep!Uses(b), Cardinality(Prep!Users(b)[w]) = 2,
                      NEW u \in Prep!Users(b)[w], NEW v \in Prep!Users(b)[w], u # v
               PROVE  Prep!Edge(b, v) = Prep!Opposite(Prep!Edge(b, u))
    BY <1>0, CardinalityIs DEF Prep!Winding, Prep!Range
  <2>1. PICK x : Pair(b, w, x)
    BY TwoUsers
  <2>2. Prep!Users(b)[w] = {w, x} /\ x \in Prep!Uses(b)
    BY <2>1, UsersAre DEF Pair
  <2>3. Pair(b, x, w)
    BY <2>1, PairBack
  <2>4. Against(b, w, x) /\ Against(b, x, w)
    BY <1>2, <2>1, <2>2, <2>3
  <2>5. (u = w /\ v = x) \/ (u = x /\ v = w)
    BY <2>2
  <2>6. Against(b, u, v)
    BY <2>4, <2>5
  <2> QED
    BY <2>6 DEF Against
<1> QED
  BY <1>1, <1>2

LEMMA AdjacentIs ==
  ASSUME NEW b, IsBody(b)
  PROVE  /\ Prep!Adjacent(b) \in SUBSET ((DOMAIN b) \X (DOMAIN b))
         /\ \A f, g \in DOMAIN b : <<f, g>> \in Prep!Adjacent(b) <=>
              \E u, v \in Prep!Uses(b) : Pair(b, u, v) /\ u[1] = f /\ v[1] = g
<1> DEFINE users == Prep!Users(b)
           paired == {u \in Prep!Uses(b) : Cardinality(users[u]) = 2}
           Across(u) == {<<u[1], v[1]>> : v \in users[u] \ {u}}
<1>1. Prep!Adjacent(b) = UNION {Across(u) : u \in paired}
  BY CardinalityIs DEF Prep!Adjacent
<1>2. ASSUME NEW u \in paired
      PROVE  \E v \in Prep!Uses(b) : Pair(b, u, v) /\ Across(u) = {<<u[1], v[1]>>}
  <2>1. PICK v : Pair(b, u, v)
    BY TwoUsers
  <2>2. users[u] = {u, v} /\ v # u /\ v \in Prep!Uses(b)
    BY <2>1, UsersAre DEF Pair
  <2>3. users[u] \ {u} = {v}
    BY <2>2
  <2> QED
    BY <2>1, <2>2, <2>3
<1>3. ASSUME NEW u \in Prep!Uses(b), NEW v \in Prep!Uses(b), Pair(b, u, v)
      PROVE  u \in paired /\ Across(u) = {<<u[1], v[1]>>}
  <2>1. users[u] = {u, v} /\ v # u
    BY <1>3, UsersAre DEF Pair
  <2>2. users[u] \ {u} = {v}
    BY <2>1
  <2>3. u \in paired
    BY <1>3, TwoUsers
  <2> QED
    BY <2>2, <2>3
<1>4. \A u \in Prep!Uses(b) : u[1] \in DOMAIN b
  BY DEF Prep!Uses
<1>5. paired \in SUBSET Prep!Uses(b)
  OBVIOUS
<1> HIDE DEF paired, Across, users
<1>6. Prep!Adjacent(b) \in SUBSET ((DOMAIN b) \X (DOMAIN b))
  <2> SUFFICES ASSUME NEW u \in paired PROVE Across(u) \in SUBSET ((DOMAIN b) \X (DOMAIN b))
    BY <1>1
  <2>1. PICK v \in Prep!Uses(b) : Across(u) = {<<u[1], v[1]>>}
    BY <1>2
  <2>2. u[1] \in DOMAIN b /\ v[1] \in DOMAIN b
    BY <1>4, <1>5
  <2> QED
    BY <2>1, <2>2
<1>7. ASSUME NEW f \in DOMAIN b, NEW g \in DOMAIN b, <<f, g>> \in Prep!Adjacent(b)
      PROVE  \E u, v \in Prep!Uses(b) : Pair(b, u, v) /\ u[1] = f /\ v[1] = g
  <2>1. PICK u \in paired : <<f, g>> \in Across(u)
    BY <1>1, <1>7
  <2>2. PICK v \in Prep!Uses(b) : Pair(b, u, v) /\ Across(u) = {<<u[1], v[1]>>}
    BY <1>2
  <2>3. u[1] = f /\ v[1] = g
    BY <2>1, <2>2
  <2> QED
    BY <1>5, <2>2, <2>3
<1>8. ASSUME NEW u \in Prep!Uses(b), NEW v \in Prep!Uses(b), Pair(b, u, v)
      PROVE  <<u[1], v[1]>> \in Prep!Adjacent(b)
  BY <1>1, <1>3, <1>8
<1> QED
  BY <1>6, <1>7, <1>8

(***************************************************************************)
(* Turning faces keeps the uses of every edge.  A turned face has its      *)
(* edges in another order, each the other way.                             *)
(***************************************************************************)
Flip(k) == IF k = 1 THEN 2 ELSE IF k = 2 THEN 1 ELSE 3
Source(T, u) == IF u[1] \in T THEN <<u[1], Flip(u[2])>> ELSE u

LEMMA ReversedIs ==
  ASSUME NEW f \in Triples
  PROVE  /\ Prep!Reversed(f) \in Triples /\ Prep!Reversed(Prep!Reversed(f)) = f
         /\ Prep!Reversed(f)[1] = f[3] /\ Prep!Reversed(f)[2] = f[2] /\ Prep!Reversed(f)[3] = f[1]
         /\ Prep!Range(Prep!Reversed(f)) = Prep!Range(f)
<1>1. /\ f[1] \in Int \X Int \X Int /\ f[2] \in Int \X Int \X Int /\ f[3] \in Int \X Int \X Int
      /\ DOMAIN f = 1..3 /\ 1..3 = {1, 2, 3} /\ f = [k \in 1..3 |-> f[k]]
  BY DEF Triples
<1> DEFINE g == Prep!Reversed(f)
<1>2. g = <<f[3], f[2], f[1]>> /\ DOMAIN g = 1..3
  BY DEF Prep!Reversed
<1>3. g[1] = f[3] /\ g[2] = f[2] /\ g[3] = f[1]
  BY <1>2
<1>4. g \in Triples
  BY <1>1, <1>2 DEF Triples
<1>5. Prep!Reversed(g) = <<f[1], f[2], f[3]>>
  BY <1>3 DEF Prep!Reversed
<1>6. <<f[1], f[2], f[3]>> = f
  <2> DEFINE h == <<f[1], f[2], f[3]>>
  <2>1. DOMAIN h = 1..3 /\ h = [k \in 1..3 |-> h[k]]
    OBVIOUS
  <2>2. \A k \in 1..3 : h[k] = f[k]
    BY <1>1
  <2> HIDE DEF h
  <2> QED
    BY <1>1, <2>1, <2>2
<1>7. Prep!Range(f) = {f[1], f[2], f[3]} /\ Prep!Range(g) = {g[1], g[2], g[3]}
  BY <1>1, <1>2 DEF Prep!Range
<1> HIDE DEF g
<1>8. Prep!Range(g) = Prep!Range(f)
  BY <1>3, <1>7
<1> QED
  BY <1>3, <1>4, <1>5, <1>6, <1>8 DEF g

LEMMA SourceIs ==
  ASSUME NEW b, NEW T, NEW u \in Prep!Uses(b)
  PROVE  Source(T, u) \in Prep!Uses(b) /\ Source(T, u)[1] = u[1] /\ Source(T, Source(T, u)) = u
<1>1. u[1] \in DOMAIN b /\ u[2] \in 1..3 /\ u = <<u[1], u[2]>>
  BY DEF Prep!Uses
<1>2. Flip(u[2]) \in 1..3 /\ Flip(Flip(u[2])) = u[2]
  BY <1>1 DEF Flip
<1>3. CASE u[1] \in T
  <2>1. Source(T, u) = <<u[1], Flip(u[2])>>
    BY <1>3 DEF Source
  <2>2. Source(T, u)[1] = u[1] /\ Source(T, u)[2] = Flip(u[2])
    BY <2>1
  <2>3. Source(T, Source(T, u)) = <<u[1], Flip(Flip(u[2]))>>
    BY <1>3, <2>2 DEF Source
  <2> QED
    BY <1>1, <1>2, <2>1, <2>3 DEF Prep!Uses
<1>4. CASE u[1] \notin T
  BY <1>4 DEF Source
<1> QED
  BY <1>3, <1>4

LEMMA ReversedEdge ==
  ASSUME NEW b, NEW c, NEW i, NEW k \in 1..3, b[i] \in Triples, c[i] = Prep!Reversed(b[i])
  PROVE  Prep!Edge(c, <<i, k>>) = Prep!Opposite(Prep!Edge(b, <<i, Flip(k)>>))
<1>1. c[i][1] = b[i][3] /\ c[i][2] = b[i][2] /\ c[i][3] = b[i][1]
  BY ReversedIs
<1>2. Prep!Next3(1) = 2 /\ Prep!Next3(2) = 3 /\ Prep!Next3(3) = 1
  BY DEF Prep!Next3
<1>3. \A l \in 1..3 : /\ Prep!Edge(c, <<i, l>>) = <<c[i][l], c[i][Prep!Next3(l)]>>
                      /\ Prep!Edge(b, <<i, l>>) = <<b[i][l], b[i][Prep!Next3(l)]>>
  BY DEF Prep!Edge
<1>4. CASE k = 1
  BY <1>1, <1>2, <1>3, <1>4 DEF Flip, Prep!Opposite
<1>5. CASE k = 2
  BY <1>1, <1>2, <1>3, <1>5 DEF Flip, Prep!Opposite
<1>6. CASE k = 3
  BY <1>1, <1>2, <1>3, <1>6 DEF Flip, Prep!Opposite
<1> QED
  BY <1>4, <1>5, <1>6

LEMMA TurnedIs ==
  ASSUME NEW b, IsBody(b), NEW T
  PROVE  /\ IsBody(Prep!Turned(b, T)) /\ DOMAIN Prep!Turned(b, T) = DOMAIN b
         /\ Prep!Uses(Prep!Turned(b, T)) = Prep!Uses(b)
         /\ \A i \in DOMAIN b : /\ Prep!Turned(b, T)[i] = IF i \in T THEN Prep!Reversed(b[i]) ELSE b[i]
                                /\ b[i] \in Triples
         /\ \A u \in Prep!Uses(b) :
              Prep!Edge(Prep!Turned(b, T), u) = IF u[1] \in T THEN Prep!Opposite(Prep!Edge(b, Source(T, u)))
                                      ELSE Prep!Edge(b, u)
<1> DEFINE c == Prep!Turned(b, T)
<1>1. PICK N \in Nat : DOMAIN b \in SUBSET (1..N) /\ b \in [DOMAIN b -> Triples]
  BY DEF IsBody
<1>2. /\ DOMAIN c = DOMAIN b
      /\ c = [i \in DOMAIN b |-> IF i \in T THEN Prep!Reversed(b[i]) ELSE b[i]]
  BY DEF Prep!Turned
<1>3. \A i \in DOMAIN b : /\ b[i] \in Triples /\ Prep!Reversed(b[i]) \in Triples
                          /\ c[i] = IF i \in T THEN Prep!Reversed(b[i]) ELSE b[i]
  BY <1>1, <1>2, ReversedIs
<1>4. c \in [DOMAIN b -> Triples]
  BY <1>2, <1>3
<1>5. IsBody(c)
  BY <1>1, <1>2, <1>4 DEF IsBody
<1>6. Prep!Uses(c) = Prep!Uses(b)
  BY <1>2 DEF Prep!Uses
<1> HIDE DEF c
<1>7. ASSUME NEW u \in Prep!Uses(b)
      PROVE  Prep!Edge(c, u) = IF u[1] \in T THEN Prep!Opposite(Prep!Edge(b, Source(T, u))) ELSE Prep!Edge(b, u)
  <2>1. u[1] \in DOMAIN b /\ u[2] \in 1..3 /\ u = <<u[1], u[2]>>
    BY DEF Prep!Uses
  <2>2. CASE u[1] \in T
    <3>1. b[u[1]] \in Triples /\ c[u[1]] = Prep!Reversed(b[u[1]])
      BY <1>3, <2>1, <2>2
    <3>2. \A i, k : k \in 1..3 /\ b[i] \in Triples /\ c[i] = Prep!Reversed(b[i]) =>
                     Prep!Edge(c, <<i, k>>) = Prep!Opposite(Prep!Edge(b, <<i, Flip(k)>>))
      BY ReversedEdge, ZenonT(60)
    <3>3. Prep!Edge(c, <<u[1], u[2]>>) = Prep!Opposite(Prep!Edge(b, <<u[1], Flip(u[2])>>))
      BY <2>1, <3>1, <3>2
    <3> QED
      BY <2>1, <2>2, <3>3 DEF Source
  <2>3. CASE u[1] \notin T
    BY <1>3, <2>1, <2>3 DEF Prep!Edge
  <2> QED
    BY <2>2, <2>3
<1> QED
  BY <1>2, <1>3, <1>5, <1>6, <1>7 DEF c

LEMMA TurnedPair ==
  ASSUME NEW b, IsBody(b), NEW T, NEW u \in Prep!Uses(b), NEW v \in Prep!Uses(b)
  PROVE  Pair(Prep!Turned(b, T), u, v) <=> Pair(b, Source(T, u), Source(T, v))
<1> DEFINE c == Prep!Turned(b, T)
           S(w) == Source(T, w)
<1>1. \A w \in Prep!Uses(b) : S(w) \in Prep!Uses(b) /\ S(S(w)) = w
  BY SourceIs
<1>2. \A w \in Prep!Uses(b) : Prep!Edge(c, w) = Prep!Edge(b, S(w)) \/ Prep!Edge(c, w) = Prep!Opposite(Prep!Edge(b, S(w)))
  BY TurnedIs DEF Source
<1>3. ASSUME NEW w \in Prep!Uses(b), NEW x \in Prep!Uses(b)
      PROVE  Same(c, w, x) <=> Same(b, S(w), S(x))
  <2>1. /\ Prep!Opposite(Prep!Opposite(Prep!Edge(b, S(w)))) = Prep!Edge(b, S(w))
        /\ Prep!Opposite(Prep!Opposite(Prep!Edge(b, S(x)))) = Prep!Edge(b, S(x))
    BY OppositeIs
  <2> HIDE DEF c, S
  <2> QED
    BY <1>2, <2>1 DEF Same
<1>4. Prep!Uses(c) = Prep!Uses(b)
  BY TurnedIs
<1> HIDE DEF c, S
<1>5. u # v <=> S(u) # S(v)
  BY <1>1
<1>6. (\A w \in Prep!Uses(b) : Same(c, u, w) <=> (w = u \/ w = v))
        <=> (\A w \in Prep!Uses(b) : Same(b, S(u), w) <=> (w = S(u) \/ w = S(v)))
  <2>1. \A w \in Prep!Uses(b) : /\ w = u <=> S(w) = S(u)
                           /\ w = v <=> S(w) = S(v)
    BY <1>1
  <2>2. \A w \in Prep!Uses(b) : Same(c, u, w) <=> Same(b, S(u), S(w))
    BY <1>3
  <2> QED
    BY <1>1, <2>1, <2>2
<1>7. Pair(c, u, v) <=> Pair(b, S(u), S(v))
  BY <1>1, <1>4, <1>5, <1>6 DEF Pair
<1> QED
  BY <1>7 DEF c, S

\* The faces in T can be turned, so that every face runs against its neighbours.
Fits(b, T, u, v) ==
  IF u[1] \in T <=> v[1] \in T THEN Against(b, u, v) ELSE Prep!Edge(b, v) = Prep!Edge(b, u)
Coherent(b, T) == \A u, v \in Prep!Uses(b) : Pair(b, u, v) => Fits(b, T, u, v)

LEMMA TurnedIsWound ==
  ASSUME NEW b, IsBody(b), NEW T
  PROVE  /\ Prep!Watertight(Prep!Turned(b, T)) <=> Prep!Watertight(b)
         /\ Prep!Winding(Prep!Turned(b, T)) <=> Coherent(b, T)
<1> DEFINE c == Prep!Turned(b, T)
           S(w) == Source(T, w)
<1>1. \A w \in Prep!Uses(b) : S(w) \in Prep!Uses(b) /\ S(S(w)) = w /\ S(w)[1] = w[1]
  BY SourceIs
<1>2. \A u, v \in Prep!Uses(b) : Pair(c, u, v) <=> Pair(b, S(u), S(v))
  BY TurnedPair
<1>3. IsBody(c) /\ Prep!Uses(c) = Prep!Uses(b)
  BY TurnedIs
<1>4. \A w \in Prep!Uses(b) : Prep!Edge(c, w) = IF w[1] \in T THEN Prep!Opposite(Prep!Edge(b, S(w)))
                                      ELSE Prep!Edge(b, S(w))
  BY TurnedIs DEF Source
<1>5. ASSUME NEW u \in Prep!Uses(b), NEW v \in Prep!Uses(b)
      PROVE  Against(c, u, v) <=> Fits(b, T, S(u), S(v))
  <2>1. /\ Prep!Opposite(Prep!Opposite(Prep!Edge(b, S(u)))) = Prep!Edge(b, S(u))
        /\ Prep!Opposite(Prep!Opposite(Prep!Edge(b, S(v)))) = Prep!Edge(b, S(v))
    BY OppositeIs
  <2>2. S(u)[1] = u[1] /\ S(v)[1] = v[1]
    BY <1>1
  <2> HIDE DEF c, S
  <2> QED
    BY <1>4, <2>1, <2>2 DEF Against, Fits
<1> HIDE DEF c, S
<1>6. Prep!Watertight(c) <=> Prep!Watertight(b)
  <2>1. (\A u \in Prep!Uses(b) : \E v : Pair(c, u, v)) <=> (\A u \in Prep!Uses(b) : \E v : Pair(b, u, v))
    <3>1. \A u, v : Pair(b, u, v) => u \in Prep!Uses(b) /\ v \in Prep!Uses(b)
      BY DEF Pair
    <3>2. \A u, v : Pair(c, u, v) => u \in Prep!Uses(b) /\ v \in Prep!Uses(b)
      BY <1>3 DEF Pair
    <3>3. ASSUME \A u \in Prep!Uses(b) : \E v : Pair(c, u, v), NEW u \in Prep!Uses(b)
          PROVE  \E v : Pair(b, u, v)
      <4>1. PICK v : Pair(c, S(u), v)
        BY <1>1, <3>3
      <4>2. Pair(b, S(S(u)), S(v))
        BY <1>1, <1>2, <3>2, <4>1
      <4> QED
        BY <1>1, <4>2
    <3>4. ASSUME \A u \in Prep!Uses(b) : \E v : Pair(b, u, v), NEW u \in Prep!Uses(b)
          PROVE  \E v : Pair(c, u, v)
      <4>1. PICK v : Pair(b, S(u), v)
        BY <1>1, <3>4
      <4>2. v \in Prep!Uses(b) /\ S(S(v)) = v /\ S(v) \in Prep!Uses(b)
        BY <1>1, <3>1, <4>1
      <4>3. Pair(c, u, S(v))
        BY <1>2, <4>1, <4>2
      <4> QED
        BY <4>3
    <3> QED
      BY <3>3, <3>4
  <2> QED
    BY <1>3, <2>1, WatertightIs
<1>7. Prep!Winding(c) <=> Coherent(b, T)
  <2>1. Prep!Winding(c) <=> \A u, v \in Prep!Uses(b) : Pair(c, u, v) => Against(c, u, v)
    BY <1>3, WindingIs
  <2>2. ASSUME Prep!Winding(c), NEW u \in Prep!Uses(b), NEW v \in Prep!Uses(b), Pair(b, u, v)
        PROVE  Fits(b, T, u, v)
    <3>1. Pair(c, S(u), S(v)) /\ S(u) \in Prep!Uses(b) /\ S(v) \in Prep!Uses(b)
      BY <1>1, <1>2, <2>2
    <3>2. Against(c, S(u), S(v))
      BY <2>1, <2>2, <3>1
    <3>3. Fits(b, T, S(S(u)), S(S(v)))
      BY <1>5, <3>1, <3>2
    <3> QED
      BY <1>1, <3>3
  <2>3. ASSUME Coherent(b, T), NEW u \in Prep!Uses(b), NEW v \in Prep!Uses(b), Pair(c, u, v)
        PROVE  Against(c, u, v)
    <3>1. Pair(b, S(u), S(v)) /\ S(u) \in Prep!Uses(b) /\ S(v) \in Prep!Uses(b)
      BY <1>1, <1>2, <2>3
    <3>2. Fits(b, T, S(u), S(v))
      BY <2>3, <3>1 DEF Coherent
    <3> QED
      BY <1>5, <3>2
  <2> QED
    BY <2>1, <2>2, <2>3 DEF Coherent
<1> QED
  BY <1>6, <1>7 DEF c

(***************************************************************************)
(* The breadth-first walk.                                                 *)
(***************************************************************************)
LEMMA LowestIs ==
  ASSUME NEW S \in SUBSET Nat, S # {}
  PROVE  Prep!Lowest(S) \in S
<1> DEFINE Less == OpToRel(<, Nat)
<1>1. Less = {ss \in Nat \X Nat : ss[1] < ss[2]}
  BY DEF OpToRel
<1>2. IsWellFoundedOn(Less, Nat)
  BY NatLessThanWellFounded
<1> HIDE DEF Less
<1>3. PICK m \in S : \A l \in S : ~ (<<l, m>> \in Less)
  BY <1>2, WFMin
<1>4. \A l \in S : m <= l
  <2> SUFFICES ASSUME NEW l \in S, ~(m <= l) PROVE FALSE
    OBVIOUS
  <2>1. l \in Nat /\ m \in Nat /\ l < m
    OBVIOUS
  <2>2. <<l, m>> \in Less
    BY <1>1, <2>1
  <2> QED
    BY <1>3, <2>2
<1> QED
  BY <1>4 DEF Prep!Lowest

\* A listing of a set has each of its numbers.
LEMMA AscendingLists ==
  ASSUME NEW N \in Nat, NEW S \in SUBSET (1..N)
  PROVE  /\ IsFiniteSet(S) /\ Cardinality(S) \in Nat
         /\ Prep!Ascending(S) \in Seq(S) /\ Len(Prep!Ascending(S)) = Cardinality(S)
         /\ \A i \in S : \E k \in 1..Cardinality(S) : Prep!Ascending(S)[k] = i
<1> DEFINE c == Cardinality(S)
           key == [i \in S |-> i]
           Below(i) == Prep!UpTo(key, i)
           Rank(i) == Cardinality(Below(i))
           rank == [i \in S |-> Rank(i)]
           list == Prep!Ascending(S)
<1>1. IsFiniteSet(S) /\ c \in Nat
  <2>1. 1 \in Int /\ N \in Int
    OBVIOUS
  <2> QED
    BY <2>1, FS_Interval, FS_Subset, FS_CardinalityType
<1>2. \A i \in S : i \in Nat
  OBVIOUS
<1>3. list = [k \in 1..c |-> CHOOSE i \in S : Rank(i) = k]
  <2>1. DOMAIN key = S
    OBVIOUS
  <2> HIDE DEF key
  <2> QED
    BY <2>1, CardinalityIs DEF Prep!Ascending, Prep!InOrder, key
<1>14. \A i, j \in S : j \in Below(i) <=> j <= i
  <2> SUFFICES ASSUME NEW i \in S, NEW j \in S PROVE j \in Below(i) <=> j <= i
    OBVIOUS
  <2>1. DOMAIN key = S /\ key[i] = i /\ key[j] = j /\ i \in Nat /\ j \in Nat
    BY <1>2
  <2> HIDE DEF key
  <2> QED
    BY <2>1 DEF Prep!UpTo
<1>15. \A i \in S : Below(i) \in SUBSET S
  BY DEF Prep!UpTo
<1> HIDE DEF Below
<1>4. \A i \in S : Rank(i) \in 1..c
  <2> SUFFICES ASSUME NEW i \in S PROVE Rank(i) \in 1..c
    OBVIOUS
  <2> DEFINE T == Below(i)
  <2>1. T \in SUBSET S /\ i \in T
    BY <1>14, <1>15, <1>2
  <2> HIDE DEF T
  <2>2. IsFiniteSet(T) /\ Cardinality(T) \in Nat /\ Cardinality(T) <= c
    BY <1>1, <2>1, FS_Subset, FS_CardinalityType
  <2>3. Cardinality(T) # 0
    BY <2>1, <2>2, FS_EmptySet
  <2>4. Cardinality(T) \in 1..c
    BY <1>1, <2>2, <2>3
  <2> QED
    BY <2>4 DEF T
<1>5. \A i, j \in S : i < j => Rank(i) # Rank(j)
  <2> SUFFICES ASSUME NEW i \in S, NEW j \in S, i < j PROVE Rank(i) # Rank(j)
    OBVIOUS
  <2> DEFINE T == Below(i)
             U == Below(j)
  <2>0. i \in Nat /\ j \in Nat /\ T \in SUBSET S /\ U \in SUBSET S
    BY <1>15, <1>2
  <2>1. T \in SUBSET U /\ j \in U /\ j \notin T
    <3>1. ASSUME NEW l \in T PROVE l \in U
      <4>1. l \in S /\ l \in Nat
        BY <2>0, <1>2
      <4>2. l <= i
        BY <1>14, <4>1
      <4>3. l <= j
        BY <2>0, <4>1, <4>2
      <4> QED
        BY <1>14, <4>1, <4>3
    <3>2. j <= j /\ ~(j <= i)
      BY <2>0
    <3> QED
      BY <1>14, <3>1, <3>2
  <2>2. Cardinality(T) # Cardinality(U)
    <3> HIDE DEF T, U
    <3>1. IsFiniteSet(U) /\ T # U
      BY <1>1, <2>0, <2>1, FS_Subset
    <3> QED
      BY <2>1, <3>1, FS_Subset
  <2> QED
    BY <2>2
<1>6. rank \in Injection(S, 1..c)
  <2>1. rank \in [S -> 1..c]
    BY <1>4
  <2>2. \A i, j \in S : i # j => rank[i] # rank[j]
    <3> SUFFICES ASSUME NEW i \in S, NEW j \in S, i # j PROVE Rank(i) # Rank(j)
      OBVIOUS
    <3>1. i \in Nat /\ j \in Nat
      BY <1>2
    <3>2. i < j \/ j < i
      BY <3>1
    <3> QED
      BY <1>5, <3>2
  <2> QED
    BY <2>1, <2>2 DEF Injection, IsInjective
<1>7. IsFiniteSet(1..c) /\ Cardinality(1..c) = c
  <2>1. 1 \in Int /\ c \in Int /\ (1 > c => c = 0)
    BY <1>1
  <2> QED
    BY <1>1, <2>1, FS_Interval
<1>8. rank \in Surjection(S, 1..c)
  <2> HIDE DEF rank
  <2>1. Cardinality(S) = Cardinality(1..c)
    BY <1>7 DEF c
  <2> QED
    BY <1>1, <1>6, <1>7, <2>1, FS_Injection
<1>9. \A k \in 1..c : \E i \in S : Rank(i) = k
  BY <1>8 DEF Surjection
<1>10. \A k \in 1..c : list[k] \in S /\ Rank(list[k]) = k
  BY <1>3, <1>9
<1>11. \A i \in S : list[Rank(i)] = i
  <2> SUFFICES ASSUME NEW i \in S PROVE list[Rank(i)] = i
    OBVIOUS
  <2>1. Rank(i) \in 1..c
    BY <1>4
  <2>2. list[Rank(i)] \in S /\ Rank(list[Rank(i)]) = Rank(i)
    BY <1>10, <2>1
  <2> DEFINE j == list[Rank(i)]
  <2> HIDE DEF j
  <2>3. j \in S /\ Rank(j) = Rank(i)
    BY <2>2 DEF j
  <2>4. i \in Nat /\ j \in Nat
    BY <1>2, <2>3
  <2>5. ~(i < j) /\ ~(j < i)
    BY <1>5, <2>3
  <2>6. i = j
    BY <2>4, <2>5
  <2> QED
    BY <2>6 DEF j
<1>12. list \in Seq(S) /\ Len(list) = c
  <2>1. list \in [1..c -> S]
    BY <1>3, <1>10
  <2> HIDE DEF list, c
  <2>2. list \in Seq(S)
    BY <1>1, <2>1, SeqDef
  <2>3. DOMAIN list = 1..c
    BY <2>1
  <2> QED
    BY <1>1, <2>2, <2>3, LenProperties
<1>13. \A i \in S : \E k \in 1..c : list[k] = i
  BY <1>4, <1>11
<1> QED
  BY <1>1, <1>12, <1>13

\* What a visit does: the face it takes, the faces that are new, what is left of the queue.
FrontFace(b, st) == IF st.queue = <<>> THEN Prep!Lowest(DOMAIN b \ st.seen) ELSE Head(st.queue)
Beside(b, f) == {g \in DOMAIN b : <<f, g>> \in Prep!Adjacent(b)}
Fresh(b, st) == Beside(b, FrontFace(b, st)) \ (st.seen \cup {FrontFace(b, st)})
Rest(st)     == IF st.queue = <<>> THEN <<>> ELSE Tail(st.queue)
TurnedNow(b, st) == {i \in Fresh(b, st) : Prep!SameDirection(Prep!WalkedFrom(b, st.body, FrontFace(b, st)), st.body[i])}

LEMMA FaceVisitIs ==
  ASSUME NEW b, IsBody(b), NEW st
  PROVE  Prep!Visited(b, Prep!Adjacent(b), st) =
           [body |-> Prep!Turned([i \in DOMAIN b |-> st.body[i]], TurnedNow(b, st)),
            seen |-> st.seen \cup {FrontFace(b, st)} \cup Fresh(b, st),
            queue |-> Rest(st) \o Prep!Ascending(Fresh(b, st))]
<1> DEFINE adjacent == Prep!Adjacent(b)
           queue == IF st.queue = <<>> THEN <<Prep!Lowest(DOMAIN b \ st.seen)>> ELSE st.queue
           f == FrontFace(b, st)
           new == Fresh(b, st)
<1>1. Head(queue) = f /\ Tail(queue) = Rest(st)
  <2>1. CASE st.queue = <<>>
    <3>1. queue = <<Prep!Lowest(DOMAIN b \ st.seen)>>
      BY <2>1
    <3> QED
      BY <2>1, <3>1 DEF FrontFace, Rest
  <2>2. CASE st.queue # <<>>
    BY <2>2 DEF FrontFace, Rest
  <2> QED
    BY <2>1, <2>2
<1>2. Prep!Neighbours(adjacent, {f}) = Beside(b, f)
  <2> HIDE DEF f
  <2>1. adjacent \in SUBSET ((DOMAIN b) \X (DOMAIN b))
    BY AdjacentIs
  <2>2. ASSUME NEW i \in Prep!Neighbours(adjacent, {f}) PROVE i \in Beside(b, f)
    <3>1. PICK e \in adjacent : e[1] = f /\ i = e[2]
      BY DEF Prep!Neighbours
    <3>2. e = <<e[1], e[2]>> /\ e[1] \in DOMAIN b /\ e[2] \in DOMAIN b
      BY <2>1
    <3> QED
      BY <3>1, <3>2 DEF Beside
  <2>3. ASSUME NEW i \in Beside(b, f) PROVE i \in Prep!Neighbours(adjacent, {f})
    <3>1. <<f, i>> \in adjacent /\ <<f, i>>[1] = f /\ <<f, i>>[2] = i
      BY DEF Beside
    <3> HIDE DEF adjacent
    <3> QED
      BY <3>1 DEF Prep!Neighbours
  <2> QED
    BY <2>2, <2>3
<1>3. Prep!Neighbours(adjacent, {f}) \ (st.seen \cup {f}) = new
  BY <1>2 DEF Fresh
<1> DEFINE from == Prep!WalkedFrom(b, st.body, f)
           body == [i \in DOMAIN b |-> IF i \in new /\ Prep!SameDirection(from, st.body[i])
                                       THEN Prep!Reversed(st.body[i]) ELSE st.body[i]]
<1>4. Prep!Visited(b, adjacent, st) =
        [body |-> body, seen |-> st.seen \cup {f} \cup new, queue |-> Rest(st) \o Prep!Ascending(new)]
  <2> HIDE DEF f, new, adjacent
  <2> QED
    BY <1>1, <1>3 DEF Prep!Visited
<1>5. body = Prep!Turned([i \in DOMAIN b |-> st.body[i]], TurnedNow(b, st))
  <2> DEFINE now == [i \in DOMAIN b |-> st.body[i]]
  <2>1. \A i \in DOMAIN b : i \in TurnedNow(b, st) <=> i \in new /\ Prep!SameDirection(from, st.body[i])
    BY DEF TurnedNow
  <2>2. Prep!Turned(now, TurnedNow(b, st)) =
          [i \in DOMAIN b |-> IF i \in TurnedNow(b, st) THEN Prep!Reversed(st.body[i]) ELSE st.body[i]]
    BY DEF Prep!Turned
  <2> HIDE DEF new, from
  <2> QED
    BY <2>1, <2>2
<1> QED
  BY <1>4, <1>5

\* States of the walk; a walk that has seen everything takes this.
NoFace == Prep!Lowest({})
WalkStates(b) ==
  [body : [DOMAIN b -> Triples], seen : SUBSET (DOMAIN b \cup {NoFace}), queue : Seq(DOMAIN b)]

LEMMA FreshIs ==
  ASSUME NEW b, IsBody(b), NEW st
  PROVE  /\ Fresh(b, st) \in SUBSET DOMAIN b /\ IsFiniteSet(Fresh(b, st))
         /\ Cardinality(Fresh(b, st)) \in Nat
         /\ Prep!Ascending(Fresh(b, st)) \in Seq(Fresh(b, st))
         /\ Len(Prep!Ascending(Fresh(b, st))) = Cardinality(Fresh(b, st))
         /\ \A i \in Fresh(b, st) :
              \E k \in 1..Cardinality(Fresh(b, st)) : Prep!Ascending(Fresh(b, st))[k] = i
<1>1. PICK N \in Nat : DOMAIN b \in SUBSET (1..N)
  BY DEF IsBody
<1>2. Fresh(b, st) \in SUBSET DOMAIN b
  BY DEF Fresh, Beside
<1>3. Fresh(b, st) \in SUBSET (1..N)
  BY <1>1, <1>2
<1> QED
  BY <1>2, <1>3, AscendingLists

LEMMA FrontFaceIs ==
  ASSUME NEW b, IsBody(b), NEW st \in WalkStates(b)
  PROVE  /\ FrontFace(b, st) \in DOMAIN b \cup {NoFace}
         /\ (DOMAIN b) \ st.seen # {} => FrontFace(b, st) \in DOMAIN b
         /\ st.queue = <<>> /\ (DOMAIN b) \ st.seen # {} => FrontFace(b, st) \notin st.seen
         /\ st.queue # <<>> => FrontFace(b, st) = st.queue[1]
<1>1. PICK N \in Nat : DOMAIN b \in SUBSET (1..N)
  BY DEF IsBody
<1> DEFINE unseen == (DOMAIN b) \ st.seen
<1>2. unseen \in SUBSET Nat
  BY <1>1
<1>3. unseen # {} => Prep!Lowest(unseen) \in unseen
  BY <1>2, LowestIs
<1>4. unseen = {} => Prep!Lowest(unseen) = NoFace
  BY DEF NoFace
<1>5. st.queue \in Seq(DOMAIN b)
  BY DEF WalkStates
<1>6. st.queue # <<>> => Head(st.queue) = st.queue[1] /\ Head(st.queue) \in DOMAIN b
  BY <1>5
<1> HIDE DEF unseen
<1>7. CASE st.queue = <<>>
  <2>1. FrontFace(b, st) = Prep!Lowest(unseen)
    BY <1>7 DEF FrontFace, unseen
  <2> QED
    BY <1>3, <1>4, <1>7, <2>1 DEF unseen
<1>8. CASE st.queue # <<>>
  <2>1. FrontFace(b, st) = Head(st.queue)
    BY <1>8 DEF FrontFace
  <2> QED
    BY <1>6, <1>8, <2>1
<1> QED
  BY <1>7, <1>8

LEMMA VisitedIsState ==
  ASSUME NEW b, IsBody(b), NEW st \in WalkStates(b)
  PROVE  /\ Prep!Visited(b, Prep!Adjacent(b), st) \in WalkStates(b)
         /\ Rest(st) \in Seq(DOMAIN b)
<1> DEFINE f == FrontFace(b, st)
           new == Fresh(b, st)
           now == [i \in DOMAIN b |-> st.body[i]]
           T == TurnedNow(b, st)
<1>1. st.body \in [DOMAIN b -> Triples] /\ st.queue \in Seq(DOMAIN b)
      /\ st.seen \in SUBSET (DOMAIN b \cup {NoFace})
  BY DEF WalkStates
<1>2. now = st.body /\ IsBody(now) /\ DOMAIN now = DOMAIN b
  BY <1>1 DEF IsBody
<1>3. IsBody(Prep!Turned(now, T)) /\ DOMAIN Prep!Turned(now, T) = DOMAIN b
  BY <1>2, TurnedIs
<1>4. Prep!Turned(now, T) \in [DOMAIN b -> Triples]
  BY <1>3 DEF IsBody
<1>5. f \in DOMAIN b \cup {NoFace} /\ new \in SUBSET DOMAIN b
  BY FrontFaceIs, FreshIs
<1>6. st.seen \cup {f} \cup new \in SUBSET (DOMAIN b \cup {NoFace})
  BY <1>1, <1>5
<1>7. Rest(st) \in Seq(DOMAIN b)
  <2>1. CASE st.queue = <<>>
    BY <2>1 DEF Rest
  <2>2. CASE st.queue # <<>>
    <3>1. Tail(st.queue) \in Seq(DOMAIN b)
      BY <1>1, <2>2, HeadTailProperties
    <3> QED
      BY <2>2, <3>1 DEF Rest
  <2> QED
    BY <2>1, <2>2
<1>8. Prep!Ascending(new) \in Seq(DOMAIN b)
  BY FreshIs
<1>9. Rest(st) \o Prep!Ascending(new) \in Seq(DOMAIN b)
  BY <1>7, <1>8
<1>10. Prep!Visited(b, Prep!Adjacent(b), st) =
         [body |-> Prep!Turned(now, T), seen |-> st.seen \cup {f} \cup new,
          queue |-> Rest(st) \o Prep!Ascending(new)]
  BY FaceVisitIs
<1> HIDE DEF f, new, now, T
<1> QED
  BY <1>4, <1>6, <1>7, <1>9, <1>10 DEF WalkStates

\* No pair leads out of what is closed, so the rest can be turned as a whole.
LEMMA RestCanTurn ==
  ASSUME NEW b, IsBody(b), NEW S \in SUBSET DOMAIN b, \A f \in S : Beside(b, f) \in SUBSET S,
         NEW C \in SUBSET DOMAIN b, Coherent(b, C)
  PROVE  Coherent(b, (C \cap S) \cup ((DOMAIN b \ S) \ C))
<1> DEFINE R == (C \cap S) \cup ((DOMAIN b \ S) \ C)
<1>1. ASSUME NEW u \in Prep!Uses(b), NEW v \in Prep!Uses(b), Pair(b, u, v), u[1] \in S
      PROVE  v[1] \in S
  <2>1. u[1] \in DOMAIN b /\ v[1] \in DOMAIN b
    BY DEF Prep!Uses
  <2>2. <<u[1], v[1]>> \in Prep!Adjacent(b)
    BY <1>1, <2>1, AdjacentIs
  <2> QED
    BY <1>1, <2>1, <2>2 DEF Beside
<1>2. ASSUME NEW u \in Prep!Uses(b), NEW v \in Prep!Uses(b), Pair(b, u, v)
      PROVE  Fits(b, R, u, v)
  <2>1. u[1] \in S <=> v[1] \in S
    BY <1>1, <1>2, PairBack
  <2>2. u[1] \in DOMAIN b /\ v[1] \in DOMAIN b
    BY DEF Prep!Uses
  <2>3. (u[1] \in R <=> v[1] \in R) <=> (u[1] \in C <=> v[1] \in C)
    BY <2>1, <2>2
  <2>4. Fits(b, C, u, v)
    BY <1>2 DEF Coherent
  <2> HIDE DEF R
  <2> QED
    BY <2>3, <2>4 DEF Fits
<1> HIDE DEF R
<1>3. Coherent(b, R)
  BY <1>2 DEF Coherent
<1> QED
  BY <1>3 DEF R

\* In a watertight body the other edges of a face with an edge from a corner
\* to itself are each other's.
LEMMA DegenerateFace ==
  ASSUME NEW b, NEW i, NEW l \in 1..3, Against(b, <<i, l>>, <<i, l>>),
         NEW u, NEW v, Pair(b, u, v), u[1] = i
  PROVE  v[1] = i \/ Against(b, u, u)
<1>1. /\ u \in Prep!Uses(b) /\ v \in Prep!Uses(b) /\ u[2] \in 1..3 /\ u = <<i, u[2]>> /\ i \in DOMAIN b
      /\ \A w \in Prep!Uses(b) : Same(b, u, w) => (w = u \/ w = v)
  BY DEF Pair, Prep!Uses
<1>2. \A k \in 1..3 : <<i, k>> \in Prep!Uses(b) /\ Prep!Edge(b, <<i, k>>) = <<b[i][k], b[i][Prep!Next3(k)]>>
  BY <1>1 DEF Prep!Uses, Prep!Edge
<1>3. Prep!Next3(1) = 2 /\ Prep!Next3(2) = 3 /\ Prep!Next3(3) = 1
  BY DEF Prep!Next3
<1>4. b[i][Prep!Next3(l)] = b[i][l]
  BY <1>2 DEF Against, Prep!Opposite
<1>5. CASE u[2] = l
  BY <1>1, <1>5
<1>6. ASSUME NEW k \in 1..3, k # l, k # u[2], u[2] # l
      PROVE  v[1] = i
  <2> DEFINE j == u[2]
  <2>1. j \in 1..3 /\ j # l /\ j # k
    BY <1>1, <1>6
  <2>2. Prep!Edge(b, <<i, k>>) = Prep!Opposite(Prep!Edge(b, <<i, j>>))
    <3>1. Prep!Edge(b, <<i, k>>) = <<b[i][k], b[i][Prep!Next3(k)]>> /\ Prep!Edge(b, <<i, j>>) = <<b[i][j], b[i][Prep!Next3(j)]>>
      BY <1>2, <2>1
    <3>2. b[i][k] = b[i][Prep!Next3(j)] /\ b[i][Prep!Next3(k)] = b[i][j]
      <4> HIDE DEF j
      <4>1. CASE l = 1
        BY <1>3, <1>4, <1>6, <2>1, <4>1
      <4>2. CASE l = 2
        BY <1>3, <1>4, <1>6, <2>1, <4>2
      <4>3. CASE l = 3
        BY <1>3, <1>4, <1>6, <2>1, <4>3
      <4> QED
        BY <4>1, <4>2, <4>3
    <3> HIDE DEF j
    <3> QED
      BY <3>1, <3>2 DEF Prep!Opposite
  <2>3. Same(b, u, <<i, k>>)
    BY <1>1, <2>2 DEF Same
  <2>4. <<i, k>> = v
    BY <1>1, <1>2, <1>6, <2>3
  <2> QED
    BY <2>4
<1>7. CASE u[2] # l
  <2>1. \E k \in 1..3 : k # l /\ k # u[2]
    BY <1>1
  <2> QED
    BY <1>6, <1>7, <2>1
<1> QED
  BY <1>5, <1>7

\* Two uses of an edge are a pair when every edge has two.
LEMMA SamePairs ==
  ASSUME NEW b, IsBody(b), Prep!Watertight(b), NEW u \in Prep!Uses(b), NEW v \in Prep!Uses(b), u # v, Same(b, u, v)
  PROVE  Pair(b, u, v)
<1>1. PICK w : Pair(b, u, w)
  BY WatertightIs
<1>2. w = v
  BY <1>1 DEF Pair
<1> QED
  BY <1>1, <1>2

(***************************************************************************)
(* Turning the new faces beside f to f leaves the body coherent: one that  *)
(* is turned where it would not be has an edge from a corner to itself.    *)
(***************************************************************************)
LEMMA TurnsFit ==
  ASSUME NEW b, IsBody(b), Prep!Watertight(b), NEW C \in SUBSET DOMAIN b, Coherent(b, C),
         NEW S \in SUBSET DOMAIN b, NEW f \in S
  PROVE  LET new == Beside(b, f) \ S
             turns == {i \in new : Prep!SameDirection(Prep!Turned(b, C)[f], b[i])}
         IN  Coherent(b, (C \ new) \cup turns)
<1> DEFINE new == Beside(b, f) \ S
           from == Prep!Turned(b, C)[f]
           turns == {i \in new : Prep!SameDirection(from, b[i])}
           R == (C \ new) \cup turns
           Flat(i) == \E l \in 1..3 : Against(b, <<i, l>>, <<i, l>>)
<1>1. /\ f \in DOMAIN b /\ b[f] \in Triples
      /\ from = IF f \in C THEN Prep!Reversed(b[f]) ELSE b[f]
  BY TurnedIs
<1>2. \A k \in 1..3 : Flip(k) \in 1..3 /\ Flip(Flip(k)) = k
  BY DEF Flip
<1>3. ASSUME NEW k \in 1..3
      PROVE  <<from[k], from[Prep!Next3(k)]>> =
               IF f \in C THEN Prep!Opposite(Prep!Edge(b, <<f, Flip(k)>>)) ELSE Prep!Edge(b, <<f, k>>)
  <2> DEFINE c == Prep!Turned(b, C)
  <2>1. Prep!Edge(c, <<f, k>>) = <<from[k], from[Prep!Next3(k)]>>
    BY DEF Prep!Edge
  <2>2. <<f, k>> \in Prep!Uses(b)
    BY <1>1 DEF Prep!Uses
  <2>3. Prep!Edge(c, <<f, k>>) = IF f \in C THEN Prep!Opposite(Prep!Edge(b, Source(C, <<f, k>>))) ELSE Prep!Edge(b, <<f, k>>)
    BY <2>2, TurnedIs
  <2>4. f \in C => Source(C, <<f, k>>) = <<f, Flip(k)>>
    BY DEF Source
  <2> QED
    BY <2>1, <2>3, <2>4
<1> HIDE DEF from
<1>4. \A i : Prep!SameDirection(from, b[i]) <=>
               \E k, l \in 1..3 : <<from[k], from[Prep!Next3(k)]>> = Prep!Edge(b, <<i, l>>)
  BY DEF Prep!SameDirection, Prep!Edge
\* A new face that is turned in C is turned now.
<1>5. ASSUME NEW i \in new, i \in C PROVE i \in turns
  <2>1. i \in DOMAIN b /\ <<f, i>> \in Prep!Adjacent(b)
    BY DEF Beside
  <2>2. PICK u, v \in Prep!Uses(b) : Pair(b, u, v) /\ u[1] = f /\ v[1] = i
    BY <1>1, <2>1, AdjacentIs
  <2>3. Fits(b, C, u, v)
    BY <2>2 DEF Coherent
  <2>4. /\ u = <<f, u[2]>> /\ v = <<i, v[2]>> /\ u[2] \in 1..3 /\ v[2] \in 1..3
    BY <2>2 DEF Prep!Uses
  <2>5. CASE f \in C
    <3>1. Prep!Edge(b, v) = Prep!Opposite(Prep!Edge(b, u))
      BY <1>5, <2>2, <2>3, <2>5 DEF Fits, Against
    <3>2. Flip(u[2]) \in 1..3 /\ Flip(Flip(u[2])) = u[2]
      BY <1>2, <2>4
    <3>3. <<from[Flip(u[2])], from[Prep!Next3(Flip(u[2]))]>> = Prep!Edge(b, <<i, v[2]>>)
      BY <1>3, <2>4, <2>5, <3>1, <3>2
    <3> QED
      BY <1>4, <2>4, <3>2, <3>3
  <2>6. CASE f \notin C
    <3>1. Prep!Edge(b, v) = Prep!Edge(b, u)
      BY <1>5, <2>2, <2>3, <2>6 DEF Fits
    <3>2. <<from[u[2]], from[Prep!Next3(u[2])]>> = Prep!Edge(b, <<i, v[2]>>)
      BY <1>3, <2>4, <2>6, <3>1
    <3> QED
      BY <1>4, <2>4, <3>2
  <2> QED
    BY <2>5, <2>6
\* One that is turned now and not in C is flat.
<1>6. ASSUME NEW i \in turns, i \notin C PROVE Flat(i)
  <2>1. i \in DOMAIN b /\ i \notin S
    BY DEF Beside
  <2>2. PICK k \in 1..3, l \in 1..3 : <<from[k], from[Prep!Next3(k)]>> = Prep!Edge(b, <<i, l>>)
    BY <1>4
  <2> DEFINE u == <<f, IF f \in C THEN Flip(k) ELSE k>>
             v == <<i, l>>
  <2>3. u \in Prep!Uses(b) /\ v \in Prep!Uses(b) /\ u[1] = f /\ v[1] = i /\ u # v
    <3>1. (IF f \in C THEN Flip(k) ELSE k) \in 1..3 /\ f # i
      BY <1>2, <2>1
    <3> QED
      BY <1>1, <2>1, <3>1 DEF Prep!Uses
  <2>4. Prep!Edge(b, v) = IF f \in C THEN Prep!Opposite(Prep!Edge(b, u)) ELSE Prep!Edge(b, u)
    BY <1>3, <2>2
  <2> HIDE DEF u
  <2>5. Pair(b, u, v)
    BY <2>3, <2>4, SamePairs DEF Same
  <2>6. Fits(b, C, u, v)
    BY <2>3, <2>5 DEF Coherent
  <2>7. Prep!Edge(b, v) = Prep!Edge(b, u) /\ Prep!Edge(b, v) = Prep!Opposite(Prep!Edge(b, u))
    BY <1>6, <2>3, <2>4, <2>6 DEF Fits, Against
  <2> QED
    BY <2>7 DEF Against
<1>7. ASSUME NEW i \in DOMAIN b, ~(i \in R <=> i \in C) PROVE Flat(i)
  <2>1. CASE i \in new
    BY <1>5, <1>6, <1>7, <2>1
  <2>2. CASE i \notin new
    BY <1>7, <2>2
  <2> QED
    BY <2>1, <2>2
<1>8. ASSUME NEW u \in Prep!Uses(b), NEW v \in Prep!Uses(b), Pair(b, u, v)
      PROVE  Fits(b, R, u, v)
  <2>1. Fits(b, C, u, v) /\ u[1] \in DOMAIN b /\ v[1] \in DOMAIN b
    BY <1>8 DEF Coherent, Prep!Uses
  <2>2. CASE (u[1] \in R <=> u[1] \in C) /\ (v[1] \in R <=> v[1] \in C)
    <3> HIDE DEF R
    <3> QED
      BY <2>1, <2>2 DEF Fits
  <2>3. ASSUME NEW x, NEW y, Pair(b, x, y), x[1] \in DOMAIN b, ~(x[1] \in R <=> x[1] \in C)
        PROVE  x[1] = y[1] \/ Against(b, x, x)
    <3>1. PICK i \in DOMAIN b : x[1] = i /\ ~(i \in R <=> i \in C)
      BY <2>3
    <3>2. PICK l \in 1..3 : Against(b, <<i, l>>, <<i, l>>)
      BY <1>7, <3>1
    <3> HIDE DEF R
    <3>3. Pair(b, x, y)
      BY <2>3
    <3>4. x[1] = i
      BY <3>1
    <3>5. y[1] = i \/ Against(b, x, x)
      <4>1. l \in 1..3 /\ Against(b, <<i, l>>, <<i, l>>)
        BY <3>2
      <4>2. \A z, w : Pair(b, z, w) /\ z[1] = i => w[1] = i \/ Against(b, z, z)
        BY <4>1, DegenerateFace
      <4> QED
        BY <3>3, <3>4, <4>2
    <3> QED
      BY <3>1, <3>5
  <2>4. CASE u[1] = v[1]
    BY <2>1, <2>4 DEF Fits
  <2>5. CASE Against(b, u, u) \/ Against(b, v, v)
    <3>1. Same(b, u, v)
      BY <1>8 DEF Pair
    <3>2. Prep!Edge(b, v) = Prep!Edge(b, u) /\ Prep!Edge(b, v) = Prep!Opposite(Prep!Edge(b, u))
      <4>1. Prep!Opposite(Prep!Opposite(Prep!Edge(b, u))) = Prep!Edge(b, u)
        BY OppositeIs
      <4> QED
        BY <2>5, <3>1, <4>1 DEF Same, Against
    <3> QED
      BY <3>2 DEF Fits, Against
  <2> QED
    BY <1>8, <2>1, <2>2, <2>3, <2>4, <2>5, PairBack
<1> HIDE DEF R
<1>9. Coherent(b, R)
  BY <1>8 DEF Coherent
<1> QED
  BY <1>9 DEF R, from


-----------------------------------------------------------------------------
(***************************************************************************)
(* The walk sees every face, and turns some.  What it has turned is what   *)
(* some way to wind the body turns of the faces it has seen.               *)
(***************************************************************************)
Windable(b) == Prep!Watertight(b) /\ \E C \in SUBSET DOMAIN b : Coherent(b, C)
FollowsOne(b, seen, T) ==
  Windable(b) => \E C \in SUBSET DOMAIN b : Coherent(b, C) /\ C \cap seen = T
InQueue(st, f) == \E k \in 1..Len(st.queue) : st.queue[k] = f

Progress(b, m, st) ==
  /\ st \in WalkStates(b) /\ st.seen \in SUBSET DOMAIN b
  /\ Len(st.queue) + m = Cardinality(st.seen)
  /\ \A k \in 1..Len(st.queue) : st.queue[k] \in st.seen
  /\ \A f \in st.seen : InQueue(st, f) \/ Beside(b, f) \in SUBSET st.seen
  /\ \E T \in SUBSET st.seen : st.body = Prep!Turned(b, T) /\ FollowsOne(b, st.seen, T)

LEMMA TurnedTwice ==
  ASSUME NEW b, IsBody(b), NEW T, NEW R, T \cap R = {}
  PROVE  Prep!Turned(Prep!Turned(b, T), R) = Prep!Turned(b, T \cup R)
<1> DEFINE c == Prep!Turned(b, T)
<1>1. DOMAIN c = DOMAIN b /\ \A i \in DOMAIN b : c[i] = IF i \in T THEN Prep!Reversed(b[i]) ELSE b[i]
  BY TurnedIs
<1> HIDE DEF c
<1>2. \A i \in DOMAIN b :
        (IF i \in R THEN Prep!Reversed(c[i]) ELSE c[i]) = (IF i \in T \cup R THEN Prep!Reversed(b[i]) ELSE b[i])
  BY <1>1
<1>3. Prep!Turned(c, R) = [i \in DOMAIN b |-> IF i \in R THEN Prep!Reversed(c[i]) ELSE c[i]]
  BY <1>1 DEF Prep!Turned
<1>4. Prep!Turned(b, T \cup R) = [i \in DOMAIN b |-> IF i \in T \cup R THEN Prep!Reversed(b[i]) ELSE b[i]]
  BY DEF Prep!Turned
<1> QED
  BY <1>2, <1>3, <1>4 DEF c

LEMMA TurnedNone ==
  ASSUME NEW b, IsBody(b)
  PROVE  Prep!Turned(b, {}) = b
BY DEF Prep!Turned, IsBody

\* A way to wind the body that agrees with what was turned, also where the front starts afresh.
LEMMA FrontFollows ==
  ASSUME NEW b, IsBody(b), NEW m \in Nat, m < Cardinality(DOMAIN b), NEW st, Progress(b, m, st),
         NEW T \in SUBSET st.seen, FollowsOne(b, st.seen, T)
  PROVE  /\ FrontFace(b, st) \in DOMAIN b /\ (st.queue = <<>> <=> FrontFace(b, st) \notin st.seen)
         /\ FollowsOne(b, st.seen \cup {FrontFace(b, st)}, T)
<1> DEFINE f == FrontFace(b, st)
           S == st.seen
<1>1. /\ st \in WalkStates(b) /\ S \in SUBSET DOMAIN b /\ st.queue \in Seq(DOMAIN b)
      /\ Len(st.queue) + m = Cardinality(S)
      /\ \A k \in 1..Len(st.queue) : st.queue[k] \in S
      /\ \A g \in S : InQueue(st, g) \/ Beside(b, g) \in SUBSET S
  BY DEF Progress, WalkStates
<1>2. Len(st.queue) \in Nat /\ (st.queue = <<>> <=> Len(st.queue) = 0)
  BY <1>1
<1> HIDE DEF f
<1>3. CASE st.queue # <<>>
  <2>1. f = st.queue[1] /\ 1 \in 1..Len(st.queue)
    BY <1>1, <1>2, <1>3, FrontFaceIs DEF f
  <2>2. f \in S
    BY <1>1, <2>1
  <2>3. S \cup {f} = S
    BY <2>2
  <2> QED
    BY <1>1, <1>3, <2>2, <2>3 DEF f
<1>4. CASE st.queue = <<>>
  <2>1. S # DOMAIN b
    BY <1>1, <1>2, <1>4
  <2>2. (DOMAIN b) \ S # {}
    BY <1>1, <2>1
  <2>3. f \in DOMAIN b /\ f \notin S
    BY <1>1, <1>4, <2>2, FrontFaceIs DEF f
  <2>4. \A g \in S : Beside(b, g) \in SUBSET S
    BY <1>1, <1>2, <1>4 DEF InQueue
  <2>5. ASSUME Windable(b)
        PROVE  \E C \in SUBSET DOMAIN b : Coherent(b, C) /\ C \cap (S \cup {f}) = T
    <3>1. PICK C \in SUBSET DOMAIN b : Coherent(b, C) /\ C \cap S = T
      BY <2>5 DEF FollowsOne
    <3>2. CASE f \notin C
      BY <3>1, <3>2
    <3>3. CASE f \in C
      <4> DEFINE R == (C \cap S) \cup ((DOMAIN b \ S) \ C)
      <4>1. Coherent(b, R)
        BY <1>1, <2>4, <3>1, RestCanTurn
      <4>2. R \in SUBSET DOMAIN b /\ R \cap (S \cup {f}) = T
        BY <2>3, <3>1, <3>3
      <4> HIDE DEF R
      <4> QED
        BY <4>1, <4>2
    <3> QED
      BY <3>2, <3>3
  <2> QED
    BY <1>4, <2>3, <2>5 DEF f, FollowsOne
<1> QED
  BY <1>3, <1>4

LEMMA TurnsFollow ==
  ASSUME NEW b, IsBody(b), NEW m \in Nat, m < Cardinality(DOMAIN b), NEW st, Progress(b, m, st),
         NEW T \in SUBSET st.seen, st.body = Prep!Turned(b, T), FollowsOne(b, st.seen, T)
  PROVE  FollowsOne(b, st.seen \cup {FrontFace(b, st)} \cup Fresh(b, st), T \cup TurnedNow(b, st))
<1> DEFINE f == FrontFace(b, st)
           S == st.seen \cup {f}
           new == Fresh(b, st)
<1>1. f \in DOMAIN b /\ FollowsOne(b, S, T) /\ st.seen \in SUBSET DOMAIN b
  BY FrontFollows DEF Progress
<1>2. new = Beside(b, f) \ S /\ new \in SUBSET DOMAIN b /\ f \in S /\ S \in SUBSET DOMAIN b
  BY <1>1 DEF Fresh, Beside
<1> HIDE DEF f, S, new
<1> SUFFICES ASSUME Windable(b)
             PROVE  \E C \in SUBSET DOMAIN b : /\ Coherent(b, C)
                                               /\ C \cap (S \cup new) = T \cup TurnedNow(b, st)
  BY DEF FollowsOne, S, f, new
<1>3. PICK C \in SUBSET DOMAIN b : Coherent(b, C) /\ C \cap S = T
  BY <1>1 DEF FollowsOne
<1>4. \A i \in DOMAIN b : /\ Prep!Turned(b, C)[i] = IF i \in C THEN Prep!Reversed(b[i]) ELSE b[i]
                          /\ Prep!Turned(b, T)[i] = IF i \in T THEN Prep!Reversed(b[i]) ELSE b[i]
  BY TurnedIs
<1>5. (f \in C <=> f \in T) /\ Prep!Turned(b, C)[f] = st.body[f]
  BY <1>1, <1>2, <1>3, <1>4
<1>6. \A i \in new : st.body[i] = b[i]
  BY <1>2, <1>3, <1>4
<1> DEFINE turns == {i \in new : Prep!SameDirection(Prep!Turned(b, C)[f], b[i])}
<1>7. turns = TurnedNow(b, st)
  BY <1>5, <1>6 DEF TurnedNow, Prep!WalkedFrom, f, new
<1>8. Coherent(b, (C \ new) \cup turns)
  BY <1>2, <1>3, TurnsFit DEF Windable
<1>9. turns \in SUBSET new
  OBVIOUS
<1> HIDE DEF turns
<1>10. ((C \ new) \cup turns) \cap (S \cup new) = T \cup turns /\ (C \ new) \cup turns \in SUBSET DOMAIN b
  BY <1>2, <1>3, <1>9
<1> QED
  BY <1>7, <1>8, <1>10

LEMMA JoinIs ==
  ASSUME NEW S, NEW s \in Seq(S), NEW t \in Seq(S)
  PROVE  /\ s \o t \in Seq(S) /\ Len(s \o t) = Len(s) + Len(t)
         /\ \A k \in 1..Len(s) : (s \o t)[k] = s[k]
         /\ \A k \in 1..Len(t) : (s \o t)[Len(s) + k] = t[k]
<1>1. Len(s) \in Nat /\ Len(t) \in Nat
  OBVIOUS
<1> DEFINE j == s \o t
<1>2. /\ j \in Seq(S) /\ Len(j) = Len(s) + Len(t)
      /\ \A i \in 1..Len(s) + Len(t) : j[i] = IF i <= Len(s) THEN s[i] ELSE t[i - Len(s)]
  BY ConcatProperties
<1> HIDE DEF j
<1>3. \A k \in 1..Len(t) : /\ Len(s) + k \in 1..Len(s) + Len(t) /\ ~(Len(s) + k <= Len(s))
                            /\ (Len(s) + k) - Len(s) = k
  BY <1>1
<1>4. \A k \in 1..Len(s) : k \in 1..Len(s) + Len(t) /\ k <= Len(s)
  BY <1>1
<1> QED
  BY <1>2, <1>3, <1>4 DEF j

LEMMA VisitProgresses ==
  ASSUME NEW b, IsBody(b), NEW m \in Nat, m < Cardinality(DOMAIN b), NEW st, Progress(b, m, st)
  PROVE  Progress(b, m + 1, Prep!Visited(b, Prep!Adjacent(b), st))
<1> DEFINE f == FrontFace(b, st)
           new == Fresh(b, st)
           next == Prep!Visited(b, Prep!Adjacent(b), st)
           queue == Rest(st) \o Prep!Ascending(new)
           seen == st.seen \cup {f} \cup new
<1>1. PICK T \in SUBSET st.seen : st.body = Prep!Turned(b, T) /\ FollowsOne(b, st.seen, T)
  BY DEF Progress
<1>2. /\ st \in WalkStates(b) /\ st.seen \in SUBSET DOMAIN b /\ st.queue \in Seq(DOMAIN b)
      /\ st.body \in [DOMAIN b -> Triples]
      /\ Len(st.queue) + m = Cardinality(st.seen)
      /\ \A k \in 1..Len(st.queue) : st.queue[k] \in st.seen
      /\ \A g \in st.seen : InQueue(st, g) \/ Beside(b, g) \in SUBSET st.seen
  BY DEF Progress, WalkStates
<1>3. f \in DOMAIN b /\ (st.queue = <<>> <=> f \notin st.seen)
  BY <1>1, FrontFollows
<1>4. /\ new \in SUBSET DOMAIN b /\ new = Beside(b, f) \ (st.seen \cup {f})
      /\ IsFiniteSet(new) /\ Cardinality(new) \in Nat
      /\ Prep!Ascending(new) \in Seq(new) /\ Len(Prep!Ascending(new)) = Cardinality(new)
      /\ \A i \in new : \E k \in 1..Cardinality(new) : Prep!Ascending(new)[k] = i
  <2>1. new = Beside(b, f) \ (st.seen \cup {f})
    BY DEF Fresh
  <2>2. /\ new \in SUBSET DOMAIN b /\ IsFiniteSet(new) /\ Cardinality(new) \in Nat
        /\ Prep!Ascending(new) \in Seq(new) /\ Len(Prep!Ascending(new)) = Cardinality(new)
    BY FreshIs
  <2>3. \A i \in new : \E k \in 1..Cardinality(new) : Prep!Ascending(new)[k] = i
    BY FreshIs
  <2> HIDE DEF f, new
  <2> QED
    BY <2>1, <2>2, <2>3
<1>5. [i \in DOMAIN b |-> st.body[i]] = st.body
  BY <1>2
<1>6. next = [body |-> Prep!Turned(st.body, TurnedNow(b, st)), seen |-> seen, queue |-> queue]
  BY <1>5, FaceVisitIs
<1>7. next \in WalkStates(b) /\ Rest(st) \in Seq(DOMAIN b)
  BY <1>2, VisitedIsState
<1>8. TurnedNow(b, st) \in SUBSET new
  BY DEF TurnedNow
<1>9. st.queue # <<>> => f = st.queue[1]
  BY <1>2, FrontFaceIs
<1>10. FollowsOne(b, seen, T \cup TurnedNow(b, st))
  BY <1>1, TurnsFollow
<1> HIDE DEF f, new, next
<1>11. seen \in SUBSET DOMAIN b
  BY <1>2, <1>3, <1>4
<1>12. /\ Len(Rest(st)) = (IF st.queue = <<>> THEN 0 ELSE Len(st.queue) - 1)
       /\ \A k \in 1..Len(Rest(st)) : Rest(st)[k] = st.queue[k + 1]
  <2>1. CASE st.queue = <<>>
    BY <2>1 DEF Rest
  <2>2. CASE st.queue # <<>>
    BY <1>2, <2>2 DEF Rest
  <2> QED
    BY <2>1, <2>2
<1>13. Len(st.queue) \in Nat /\ (st.queue = <<>> <=> Len(st.queue) = 0) /\ Len(Rest(st)) \in Nat
  BY <1>2, <1>7
<1>14. /\ queue \in Seq(DOMAIN b) /\ Len(queue) = Len(Rest(st)) + Cardinality(new)
       /\ \A k \in 1..Len(Rest(st)) : queue[k] = Rest(st)[k]
       /\ \A k \in 1..Cardinality(new) : queue[Len(Rest(st)) + k] = Prep!Ascending(new)[k]
  <2>1. Prep!Ascending(new) \in Seq(DOMAIN b)
    BY <1>4
  <2>2. Rest(st) \in Seq(DOMAIN b)
    BY <1>7
  <2>3. queue \in Seq(DOMAIN b) /\ Len(queue) = Len(Rest(st)) + Len(Prep!Ascending(new))
    BY <2>1, <2>2, JoinIs
  <2>4. \A k \in 1..Len(Rest(st)) : queue[k] = Rest(st)[k]
    BY <2>1, <2>2, JoinIs
  <2>5. \A k \in 1..Len(Prep!Ascending(new)) : queue[Len(Rest(st)) + k] = Prep!Ascending(new)[k]
    BY <2>1, <2>2, JoinIs
  <2> HIDE DEF queue
  <2> QED
    BY <1>4, <2>3, <2>4, <2>5
<1> HIDE DEF queue
<1>15. Len(queue) + (m + 1) = Cardinality(seen)
  <2>1. IsFiniteSet(st.seen)
    BY <1>2, BodyIsFinite, FS_Subset
  <2>2. /\ Cardinality(st.seen \cup {f}) =
             IF f \in st.seen THEN Cardinality(st.seen) ELSE Cardinality(st.seen) + 1
        /\ IsFiniteSet(st.seen \cup {f})
    BY <2>1, FS_AddElement
  <2>3. Cardinality(seen) = Cardinality(st.seen \cup {f}) + Cardinality(new)
    <3> DEFINE S == st.seen \cup {f}
    <3>1. S \cap new = {} /\ IsFiniteSet(S) /\ seen = S \cup new
      BY <1>4, <2>2
    <3> HIDE DEF S, seen
    <3>2. Cardinality(S \cap new) = 0 /\ Cardinality(S) \in Nat
      BY <3>1, FS_EmptySet, FS_CardinalityType
    <3>3. Cardinality(S \cup new) = Cardinality(S) + Cardinality(new) - Cardinality(S \cap new)
      BY <1>4, <3>1, FS_Union
    <3>4. Cardinality(seen) = Cardinality(S) + Cardinality(new)
      BY <1>4, <3>1, <3>2, <3>3
    <3> QED
      BY <3>4 DEF S
  <2>4. Cardinality(st.seen) \in Nat
    BY <2>1, FS_CardinalityType
  <2>5. Cardinality(new) \in Nat
    BY <1>4
  <2>6. Len(queue) = Len(Rest(st)) + Cardinality(new) /\ Len(st.queue) + m = Cardinality(st.seen)
    BY <1>2, <1>14
  <2> HIDE DEF seen
  <2>7. CASE st.queue = <<>>
    <3>1. Len(st.queue) = 0 /\ Len(Rest(st)) = 0 /\ f \notin st.seen
      BY <1>3, <1>12, <1>13, <2>7
    <3> QED
      BY <2>2, <2>3, <2>4, <2>5, <2>6, <3>1
  <2>8. CASE st.queue # <<>>
    <3>1. Len(st.queue) \in Nat /\ Len(Rest(st)) = Len(st.queue) - 1 /\ f \in st.seen
      BY <1>3, <1>12, <1>13, <2>8
    <3> QED
      BY <2>2, <2>3, <2>4, <2>5, <2>6, <3>1, SMTT(30)
  <2> QED
    BY <2>7, <2>8
<1>16. ASSUME NEW k \in 1..Len(queue) PROVE queue[k] \in seen
  <2>1. CASE k \in 1..Len(Rest(st))
    <3>1. queue[k] = st.queue[k + 1]
      BY <1>12, <1>14, <2>1
    <3>2. k + 1 \in 1..Len(st.queue)
      <4>1. k \in Nat /\ 1 <= k /\ k <= Len(Rest(st))
        BY <1>13, <2>1
      <4>2. Len(Rest(st)) = Len(st.queue) - 1
        BY <1>12, <1>13, <4>1
      <4> QED
        BY <1>13, <4>1, <4>2
    <3> QED
      BY <1>2, <3>1, <3>2
  <2>2. CASE k \notin 1..Len(Rest(st))
    <3>1. k - Len(Rest(st)) \in 1..Cardinality(new)
      BY <1>4, <1>13, <1>14, <2>2
    <3>2. queue[Len(Rest(st)) + (k - Len(Rest(st)))] = Prep!Ascending(new)[k - Len(Rest(st))]
      BY <1>14, <3>1
    <3>3. Prep!Ascending(new)[k - Len(Rest(st))] \in new /\ Len(Rest(st)) + (k - Len(Rest(st))) = k
      BY <1>4, <1>13, <3>1
    <3> QED
      BY <3>2, <3>3
  <2> QED
    BY <2>1, <2>2
<1>17. ASSUME NEW g \in seen
       PROVE  (\E k \in 1..Len(queue) : queue[k] = g) \/ Beside(b, g) \in SUBSET seen
  <2>1. CASE g \in new
    <3>1. PICK k \in 1..Cardinality(new) : Prep!Ascending(new)[k] = g
      BY <1>4, <2>1
    <3>2. queue[Len(Rest(st)) + k] = g
      BY <1>14, <3>1
    <3>3. Len(Rest(st)) + k \in 1..Len(queue)
      BY <1>4, <1>13, <1>14, <3>1
    <3> QED
      BY <3>2, <3>3
  <2>2. CASE g = f
    BY <1>4, <2>2
  <2>3. CASE g \in st.seen /\ g # f
    <3>1. CASE Beside(b, g) \in SUBSET st.seen
      BY <3>1
    <3>2. CASE InQueue(st, g)
      <4>1. PICK k \in 1..Len(st.queue) : st.queue[k] = g
        BY <3>2 DEF InQueue
      <4>2. st.queue # <<>>
        BY <1>13, <4>1
      <4>3. k # 1
        BY <1>9, <2>3, <4>1, <4>2
      <4>4. k - 1 \in 1..Len(Rest(st)) /\ (k - 1) + 1 = k
        BY <1>12, <1>13, <4>1, <4>2, <4>3
      <4>5. queue[k - 1] = st.queue[k]
        BY <1>12, <1>14, <4>4
      <4>6. k - 1 \in 1..Len(queue)
        BY <1>4, <1>13, <1>14, <4>4
      <4> QED
        BY <4>1, <4>5, <4>6
    <3> QED
      BY <1>2, <2>3, <3>1, <3>2
  <2> QED
    BY <2>1, <2>2, <2>3
<1>18. /\ T \cup TurnedNow(b, st) \in SUBSET seen
       /\ Prep!Turned(st.body, TurnedNow(b, st)) = Prep!Turned(b, T \cup TurnedNow(b, st))
  <2>1. T \cap TurnedNow(b, st) = {}
    BY <1>4, <1>8
  <2> QED
    BY <1>1, <1>8, <2>1, TurnedTwice
<1> HIDE DEF seen
<1>19. next.seen = seen /\ next.queue = queue /\ next.body = Prep!Turned(b, T \cup TurnedNow(b, st))
  BY <1>6, <1>18
<1>20. Progress(b, m + 1, next)
  BY <1>7, <1>10, <1>11, <1>15, <1>16, <1>17, <1>18, <1>19 DEF Progress, InQueue
<1> QED
  BY <1>20 DEF next

\* Walk is what its loop does, visit by visit.
Faces(b) == Cardinality(DOMAIN b)
WalkStart(b) == [body |-> b, seen |-> {}, queue |-> <<>>]
IsWalked(after, b) ==
  /\ after \in [0..Faces(b) -> WalkStates(b)] /\ after[0] = WalkStart(b)
  /\ \A i \in 1..Faces(b) : after[i] = Prep!Visited(b, Prep!Adjacent(b), after[i - 1])
  /\ Prep!Walk(b) = after[Faces(b)].body

LEMMA WalkStartIs ==
  ASSUME NEW b, IsBody(b)
  PROVE  WalkStart(b) \in WalkStates(b) /\ Progress(b, 0, WalkStart(b))
<1> DEFINE st == WalkStart(b)
<1>1. st.body = b /\ st.seen = {} /\ st.queue = <<>> /\ st = [body |-> b, seen |-> {}, queue |-> <<>>]
  BY DEF WalkStart
<1>2. b \in [DOMAIN b -> Triples] /\ <<>> \in Seq(DOMAIN b)
  BY DEF IsBody
<1> HIDE DEF st
<1>3. st \in WalkStates(b)
  BY <1>1, <1>2 DEF WalkStates
<1>4. Len(st.queue) + 0 = Cardinality(st.seen)
  BY <1>1, FS_EmptySet
<1>5. FollowsOne(b, {}, {}) /\ Prep!Turned(b, {}) = b
  BY TurnedNone DEF FollowsOne, Windable
<1>6. Progress(b, 0, st)
  BY <1>1, <1>3, <1>4, <1>5 DEF Progress
<1> QED
  BY <1>3, <1>6 DEF st

LEMMA WalkIs ==
  ASSUME NEW b, IsBody(b)
  PROVE  \E after : IsWalked(after, b)
<1> DEFINE n == Faces(b)
           s == [k \in 1..n |-> k]
           Acc == WalkStates(b)
           base == WalkStart(b)
           adjacent == Prep!Adjacent(b)
           Step(x, i) == Prep!Visited(b, adjacent, x)
           step == [x \in Acc \X (1..n) |-> Step(x[1], x[2])]
           Stepped(g, T) == IF T = {} THEN base ELSE Step(g[T \ {Max(T)}], Max(T))
           iter == CHOOSE g : g = [T \in SUBSET (1..n) |-> Stepped(g, T)]
<1>1. n \in Nat /\ DOMAIN s = 1..n
  BY BodyIsFinite DEF Faces
<1>2. base \in Acc
  BY WalkStartIs
<1>3. ASSUME NEW x \in Acc, NEW i \in 1..n
      PROVE  Step(x, i) \in Acc
  BY VisitedIsState
<1>5. Prep!Walk(b) = iter[1..n].body
  <2>1. \A T : Prep!Max(T) = Max(T)
    BY DEF Prep!Max, Max
  <2> QED
    BY <1>1, <2>1, CardinalityIs, ZenonT(60) DEF Prep!Walk, Prep!FoldLeft, Prep!MapThenFoldSet, WalkStart, Faces
<1> HIDE DEF Step, adjacent
<1>4. step \in [Acc \X (1..n) -> Acc]
  BY <1>3
<1>0. n \in Nat
  BY <1>1
<1> HIDE DEF Acc, step, n, base
<1>6. PICK g : IsFold(g, n, Acc, base, step)
  BY <1>0, <1>2, <1>4, FoldExists
<1>7. \A T \in SUBSET (1..n) : g[T] = Stepped(g, T)
  <2> SUFFICES ASSUME NEW T \in SUBSET (1..n), T # {} PROVE g[T] = Stepped(g, T)
    BY <1>6 DEF IsFold
  <2>1. Max(T) \in 1..n
    BY <1>0, MaxIs
  <2>2. g[T \ {Max(T)}] \in Acc
    BY <1>6 DEF IsFold
  <2> QED
    BY <1>6, <2>1, <2>2 DEF IsFold, step
<1>8. g = [T \in SUBSET (1..n) |-> Stepped(g, T)]
  BY <1>6, <1>7 DEF IsFold
<1>9. iter = [T \in SUBSET (1..n) |-> Stepped(iter, T)]
  BY <1>8
<1> HIDE DEF iter
<1>10. TakesSteps(iter, n, Acc, base, step)
  <2>1. iter[{}] = base
    BY <1>9
  <2>2. ASSUME NEW T \in SUBSET (1..n), T # {}, iter[T \ {Max(T)}] \in Acc
        PROVE  iter[T] = step[<<iter[T \ {Max(T)}], Max(T)>>]
    <3>1. Max(T) \in 1..n
      BY <1>0, <2>2, MaxIs
    <3> QED
      BY <1>9, <2>2, <3>1 DEF step
  <2> QED
    BY <2>1, <2>2 DEF TakesSteps
<1>11. PICK after : Walks(after, n, Acc, base, step, iter[1..n])
  BY <1>0, <1>2, <1>4, <1>10, StepsAre
<1>12. after \in [0..n -> Acc] /\ after[0] = base /\ after[n] = iter[1..n]
  BY <1>11 DEF Walks
<1>13. ASSUME NEW i \in 1..n
       PROVE  after[i] = Step(after[i - 1], i)
  <2>1. i - 1 \in 0..n
    BY <1>0
  <2>2. after[i - 1] \in Acc /\ after[i] = step[<<after[i - 1], i>>]
    BY <1>11, <2>1 DEF Walks
  <2> QED
    BY <2>2 DEF step
<1>14. \A i \in 1..n : after[i] = Prep!Visited(b, Prep!Adjacent(b), after[i - 1])
  BY <1>13 DEF Step, adjacent
<1>15. Prep!Walk(b) = after[n].body
  BY <1>5, <1>12
<1> QED
  BY <1>12, <1>14, <1>15 DEF n, Acc, base, IsWalked

(***************************************************************************)
(* Walk turns some of the faces, and those of a body that can be wound so  *)
(* that it is.                                                             *)
(***************************************************************************)
LEMMA WalkTurns ==
  ASSUME NEW b, IsBody(b)
  PROVE  \E T \in SUBSET DOMAIN b : Prep!Walk(b) = Prep!Turned(b, T) /\ (Windable(b) => Coherent(b, T))
<1> DEFINE n == Faces(b)
<1>1. n \in Nat /\ IsFiniteSet(DOMAIN b)
  BY BodyIsFinite DEF Faces
<1>2. PICK after : IsWalked(after, b)
  BY WalkIs
<1>3. after[0] = WalkStart(b) /\ Prep!Walk(b) = after[n].body
      /\ \A i \in 1..n : after[i] = Prep!Visited(b, Prep!Adjacent(b), after[i - 1])
  BY <1>2 DEF IsWalked
<1> DEFINE Good == {i \in Nat : i <= n => Progress(b, i, after[i])}
<1>4. 0 \in Good
  BY <1>3, WalkStartIs
<1>5. ASSUME NEW i \in Good PROVE i + 1 \in Good
  <2> SUFFICES ASSUME i + 1 <= n PROVE Progress(b, i + 1, after[i + 1])
    OBVIOUS
  <2>1. i \in Nat /\ i < n /\ i + 1 \in 1..n /\ (i + 1) - 1 = i
    BY <1>1
  <2>2. Progress(b, i, after[i])
    <3>1. i <= n => Progress(b, i, after[i])
      OBVIOUS
    <3>2. i <= n
      BY <1>1, <2>1
    <3> HIDE DEF Good, n
    <3> QED
      BY <3>1, <3>2
  <2>3. after[i + 1] = Prep!Visited(b, Prep!Adjacent(b), after[i])
    BY <1>3, <2>1
  <2>4. i < Cardinality(DOMAIN b)
    BY <2>1 DEF Faces
  <2> HIDE DEF n
  <2> QED
    BY <2>1, <2>2, <2>3, <2>4, VisitProgresses
<1>6. Good \in SUBSET Nat
  OBVIOUS
<1> HIDE DEF Good
<1>7. n \in Good
  BY <1>1, <1>4, <1>5, <1>6, Induction
<1>8. Progress(b, n, after[n])
  BY <1>1, <1>7 DEF Good
<1> DEFINE st == after[n]
<1>9. /\ st.seen \in SUBSET DOMAIN b /\ Len(st.queue) + n = Cardinality(st.seen)
      /\ st.queue \in Seq(DOMAIN b)
      /\ \E T \in SUBSET st.seen : st.body = Prep!Turned(b, T) /\ FollowsOne(b, st.seen, T)
  BY <1>8 DEF Progress, WalkStates
<1> HIDE DEF st
<1>10. st.seen = DOMAIN b
  <2>1. Len(st.queue) \in Nat
    BY <1>9
  <2>2. Cardinality(st.seen) >= n
    BY <1>1, <1>9, <2>1
  <2>3. Cardinality(st.seen) <= Cardinality(DOMAIN b) /\ IsFiniteSet(st.seen)
        /\ (Cardinality(st.seen) = Cardinality(DOMAIN b) => st.seen = DOMAIN b)
    BY <1>1, <1>9, FS_Subset
  <2>4. Cardinality(st.seen) \in Nat
    BY <2>3, FS_CardinalityType
  <2> QED
    BY <1>1, <2>2, <2>3, <2>4 DEF Faces
<1>11. PICK T \in SUBSET DOMAIN b : st.body = Prep!Turned(b, T) /\ FollowsOne(b, DOMAIN b, T)
  BY <1>9, <1>10
<1>12. Windable(b) => Coherent(b, T)
  <2> SUFFICES ASSUME Windable(b) PROVE Coherent(b, T)
    OBVIOUS
  <2>1. PICK C \in SUBSET DOMAIN b : Coherent(b, C) /\ C \cap DOMAIN b = T
    BY <1>11 DEF FollowsOne
  <2>2. C = T
    BY <2>1
  <2> QED
    BY <2>1, <2>2
<1> QED
  BY <1>3, <1>11, <1>12 DEF st

-----------------------------------------------------------------------------
(***************************************************************************)
(* Sums.  MapThenSumSet takes away one element after the other, whichever  *)
(* CHOOSE picks; what it adds up does not depend on that.                  *)
(***************************************************************************)
PickOf(T) == CHOOSE x \in T : TRUE
SumStep(f, g, T) == IF T = {} THEN 0 ELSE f[PickOf(T)] + g[T \ {PickOf(T)}]
IsSumming(g, f, S) == g \in [SUBSET S -> Int] /\ \A T \in SUBSET S : g[T] = SumStep(f, g, T)
SumOf(f, S) == (CHOOSE g : g = [T \in SUBSET S |-> SumStep(f, g, T)])[S]

LEMMA SmallerByOne ==
  ASSUME NEW S, IsFiniteSet(S), NEW T \in SUBSET S, NEW x \in T
  PROVE  /\ IsFiniteSet(T) /\ Cardinality(T) \in Nat /\ Cardinality(T) # 0
         /\ T \ {x} \in SUBSET S /\ Cardinality(T \ {x}) = Cardinality(T) - 1
<1>1. IsFiniteSet(T) /\ Cardinality(T) \in Nat
  BY FS_Subset, FS_CardinalityType
<1>2. Cardinality(T \ {x}) = Cardinality(T) - 1
  BY <1>1, FS_RemoveElement
<1>3. Cardinality(T) # 0
  BY <1>1, FS_EmptySet
<1> QED
  BY <1>1, <1>2, <1>3

LEMMA SummingExists ==
  ASSUME NEW S, IsFiniteSet(S), NEW f \in [S -> Int]
  PROVE  \E g : IsSumming(g, f, S) /\ SumOf(f, S) = g[S]
<1> DEFINE UpToSize(n) == {T \in SUBSET S : Cardinality(T) <= n}
           Sums(g, n) == g \in [UpToSize(n) -> Int] /\ \A T \in UpToSize(n) : g[T] = SumStep(f, g, T)
           Good == {n \in Nat : \E g : Sums(g, n)}
<1>1. ASSUME NEW n \in Nat, NEW T \in UpToSize(n + 1), T # {}
      PROVE  PickOf(T) \in S /\ T \ {PickOf(T)} \in UpToSize(n)
  <2>1. PickOf(T) \in T
    BY <1>1 DEF PickOf
  <2>2. Cardinality(T) \in Nat /\ T \ {PickOf(T)} \in SUBSET S
        /\ Cardinality(T \ {PickOf(T)}) = Cardinality(T) - 1
    BY <2>1, SmallerByOne
  <2>3. Cardinality(T \ {PickOf(T)}) <= n
    BY <2>2
  <2> QED
    BY <2>1, <2>2, <2>3
<1>2. \A T \in UpToSize(0) : T = {}
  <2> SUFFICES ASSUME NEW T \in UpToSize(0), NEW x \in T PROVE FALSE
    OBVIOUS
  <2>1. Cardinality(T) \in Nat /\ Cardinality(T) # 0
    BY SmallerByOne
  <2> QED
    BY <2>1
<1>3. \A n \in Nat : UpToSize(n) \in SUBSET UpToSize(n + 1)
  <2> SUFFICES ASSUME NEW n \in Nat, NEW T \in UpToSize(n) PROVE T \in UpToSize(n + 1)
    OBVIOUS
  <2>1. Cardinality(T) \in Nat
    BY FS_Subset, FS_CardinalityType
  <2> QED
    BY <2>1
<1>4. Cardinality(S) \in Nat /\ UpToSize(Cardinality(S)) = SUBSET S
  BY FS_Subset, FS_CardinalityType
<1> HIDE DEF UpToSize
<1>5. 0 \in Good
  <2> DEFINE g0 == [T \in UpToSize(0) |-> 0]
  <2>1. Sums(g0, 0)
    BY <1>2 DEF SumStep
  <2> HIDE DEF Sums, g0
  <2> QED
    BY <2>1
<1>6. ASSUME NEW n \in Good PROVE n + 1 \in Good
  <2>1. n \in Nat /\ n + 1 \in Nat
    OBVIOUS
  <2>2. PICK g : Sums(g, n)
    OBVIOUS
  <2> DEFINE h == [T \in UpToSize(n + 1) |-> SumStep(f, g, T)]
  <2>3. ASSUME NEW T \in UpToSize(n + 1)
        PROVE  h[T] \in Int
    <3>1. CASE T = {}
      BY <3>1 DEF SumStep
    <3>2. CASE T # {}
      <4>1. PickOf(T) \in S /\ T \ {PickOf(T)} \in UpToSize(n)
        BY <1>1, <2>1, <3>2
      <4>2. f[PickOf(T)] \in Int /\ g[T \ {PickOf(T)}] \in Int
        BY <2>2, <4>1
      <4> QED
        BY <3>2, <4>2 DEF SumStep
    <3> QED
      BY <3>1, <3>2
  <2>4. \A T \in UpToSize(n) : h[T] = g[T]
    BY <1>3, <2>1, <2>2
  <2>5. h \in [UpToSize(n + 1) -> Int] /\ \A T \in UpToSize(n + 1) : h[T] = SumStep(f, g, T)
    BY <2>3
  <2> HIDE DEF h
  <2>6. ASSUME NEW T \in UpToSize(n + 1)
        PROVE  h[T] = SumStep(f, h, T)
    <3>1. T # {} => h[T \ {PickOf(T)}] = g[T \ {PickOf(T)}]
      BY <1>1, <2>1, <2>4
    <3> QED
      BY <2>5, <3>1 DEF SumStep
  <2>7. Sums(h, n + 1)
    BY <2>5, <2>6
  <2> HIDE DEF Sums
  <2> QED
    BY <2>1, <2>7
<1>7. Good \in SUBSET Nat
  OBVIOUS
<1> HIDE DEF Good
<1>8. Cardinality(S) \in Good
  BY <1>4, <1>5, <1>6, <1>7, Induction
<1>9. PICK g : Sums(g, Cardinality(S))
  BY <1>8 DEF Good
<1>10. g \in [SUBSET S -> Int] /\ \A T \in SUBSET S : g[T] = SumStep(f, g, T)
  BY <1>4, <1>9
<1>11. g = [T \in SUBSET S |-> SumStep(f, g, T)]
  BY <1>10
<1> DEFINE iter == CHOOSE h : h = [T \in SUBSET S |-> SumStep(f, h, T)]
<1>12. iter = [T \in SUBSET S |-> SumStep(f, iter, T)]
  BY <1>11
<1>13. SumOf(f, S) = iter[S]
  BY DEF SumOf
<1> HIDE DEF iter
<1>20. g[{}] = 0 /\ iter[{}] = 0
  <2>1. {} \in SUBSET S /\ SumStep(f, g, {}) = 0 /\ SumStep(f, iter, {}) = 0
    BY DEF SumStep
  <2> QED
    BY <1>10, <1>12, <2>1
<1> DEFINE Agreeing == {n \in Nat : \A T \in SUBSET S : Cardinality(T) <= n => iter[T] = g[T]}
<1>14. 0 \in Agreeing
  <2> SUFFICES ASSUME NEW T \in SUBSET S, Cardinality(T) <= 0 PROVE iter[T] = g[T]
    OBVIOUS
  <2>1. T = {}
    BY <1>2 DEF UpToSize
  <2> QED
    BY <1>20, <2>1
<1>15. ASSUME NEW n \in Agreeing PROVE n + 1 \in Agreeing
  <2> SUFFICES ASSUME NEW T \in SUBSET S, Cardinality(T) <= n + 1 PROVE iter[T] = g[T]
    OBVIOUS
  <2>1. n \in Nat /\ \A R \in SUBSET S : Cardinality(R) <= n => iter[R] = g[R]
    OBVIOUS
  <2> HIDE DEF Agreeing
  <2>2. CASE T = {}
    BY <1>20, <2>2
  <2>3. CASE T # {}
    <3>1. T \ {PickOf(T)} \in SUBSET S /\ Cardinality(T \ {PickOf(T)}) <= n
      BY <1>1, <2>1, <2>3 DEF UpToSize
    <3> QED
      BY <1>10, <1>12, <2>1, <3>1 DEF SumStep
  <2> QED
    BY <2>2, <2>3
<1>16. Agreeing \in SUBSET Nat
  OBVIOUS
<1> HIDE DEF Agreeing
<1>17. Cardinality(S) \in Agreeing
  BY <1>4, <1>14, <1>15, <1>16, Induction
<1>18. iter[S] = g[S]
  BY <1>4, <1>17 DEF Agreeing
<1>19. IsSumming(g, f, S)
  BY <1>10 DEF IsSumming
<1> QED
  BY <1>13, <1>18, <1>19

\* Any element can be taken first.
LEMMA TakeAny ==
  ASSUME NEW S, IsFiniteSet(S), NEW f \in [S -> Int], NEW g, IsSumming(g, f, S)
  PROVE  g[{}] = 0 /\ \A T \in SUBSET S : \A x \in T : g[T] = f[x] + g[T \ {x}]
<1>1. g \in [SUBSET S -> Int] /\ \A T \in SUBSET S : g[T] = SumStep(f, g, T)
  BY DEF IsSumming
<1> DEFINE Good == {n \in Nat : \A T \in SUBSET S : Cardinality(T) = n =>
                                  \A x \in T : g[T] = f[x] + g[T \ {x}]}
<1>2. 0 \in Good
  <2> SUFFICES ASSUME NEW T \in SUBSET S, Cardinality(T) = 0, NEW x \in T PROVE FALSE
    OBVIOUS
  <2> QED
    BY SmallerByOne
<1>3. ASSUME NEW n \in Good PROVE n + 1 \in Good
  <2> SUFFICES ASSUME NEW T \in SUBSET S, Cardinality(T) = n + 1, NEW x \in T
               PROVE  g[T] = f[x] + g[T \ {x}]
    OBVIOUS
  <2>1. n \in Nat /\ \A R \in SUBSET S : Cardinality(R) = n => \A y \in R : g[R] = f[y] + g[R \ {y}]
    OBVIOUS
  <2> HIDE DEF Good
  <2> DEFINE p == PickOf(T)
  <2>2. p \in T /\ g[T] = f[p] + g[T \ {p}]
    BY <1>1 DEF SumStep, PickOf
  <2> HIDE DEF p
  <2>3. CASE p = x
    BY <2>2, <2>3
  <2>4. CASE p # x
    <3>1. /\ T \ {p} \in SUBSET S /\ Cardinality(T \ {p}) = n
          /\ T \ {x} \in SUBSET S /\ Cardinality(T \ {x}) = n
      BY <2>1, <2>2, SmallerByOne
    <3>2. g[T \ {p}] = f[x] + g[(T \ {p}) \ {x}] /\ g[T \ {x}] = f[p] + g[(T \ {x}) \ {p}]
      BY <2>1, <2>2, <2>4, <3>1
    <3>3. (T \ {p}) \ {x} = (T \ {x}) \ {p} /\ (T \ {x}) \ {p} \in SUBSET S
      OBVIOUS
    <3>4. f[x] \in Int /\ f[p] \in Int /\ g[(T \ {x}) \ {p}] \in Int
      BY <1>1, <2>2, <3>3
    <3> DEFINE rest == g[(T \ {x}) \ {p}]
    <3>5. g[T \ {p}] = f[x] + rest /\ g[T \ {x}] = f[p] + rest
      BY <3>2, <3>3
    <3>6. g[T] = f[p] + (f[x] + rest)
      BY <2>2, <3>5
    <3>7. \A i, j, k \in Int : i + (j + k) = j + (i + k)
      OBVIOUS
    <3>8. f[p] + (f[x] + rest) = f[x] + (f[p] + rest)
      BY <3>4, <3>7
    <3> HIDE DEF rest
    <3> QED
      BY <3>5, <3>6, <3>8
  <2> QED
    BY <2>3, <2>4
<1>4. Good \in SUBSET Nat
  OBVIOUS
<1> HIDE DEF Good
<1>5. \A n \in Nat : n \in Good
  BY <1>2, <1>3, <1>4, Induction
<1>6. ASSUME NEW T \in SUBSET S, NEW x \in T PROVE g[T] = f[x] + g[T \ {x}]
  <2>1. Cardinality(T) \in Good
    BY <1>5, SmallerByOne
  <2> QED
    BY <2>1 DEF Good
<1>7. g[{}] = 0
  BY <1>1 DEF SumStep
<1> QED
  BY <1>6, <1>7

\* The sum of the opposites is the opposite of the sum.
LEMMA OppositeSum ==
  ASSUME NEW S, IsFiniteSet(S), NEW f \in [S -> Int], NEW h \in [S -> Int], \A x \in S : h[x] = -f[x]
  PROVE  SumOf(f, S) \in Int /\ SumOf(h, S) = -SumOf(f, S)
<1>1. PICK g : IsSumming(g, f, S) /\ SumOf(f, S) = g[S]
  BY SummingExists
<1>2. PICK k : IsSumming(k, h, S) /\ SumOf(h, S) = k[S]
  BY SummingExists
<1>3. /\ g \in [SUBSET S -> Int] /\ \A T \in SUBSET S : g[T] = SumStep(f, g, T)
      /\ k \in [SUBSET S -> Int] /\ \A T \in SUBSET S : k[T] = SumStep(h, k, T)
  BY <1>1, <1>2 DEF IsSumming
<1>0. g[{}] = 0 /\ k[{}] = 0
  BY <1>1, <1>2, TakeAny
<1> DEFINE Good == {n \in Nat : \A T \in SUBSET S : Cardinality(T) = n => k[T] = -g[T]}
<1>4. 0 \in Good
  <2> SUFFICES ASSUME NEW T \in SUBSET S, Cardinality(T) = 0 PROVE k[T] = -g[T]
    OBVIOUS
  <2>1. T = {}
    BY SmallerByOne
  <2> QED
    BY <1>0, <2>1
<1>5. ASSUME NEW n \in Good PROVE n + 1 \in Good
  <2> SUFFICES ASSUME NEW T \in SUBSET S, Cardinality(T) = n + 1 PROVE k[T] = -g[T]
    OBVIOUS
  <2>1. n \in Nat /\ \A R \in SUBSET S : Cardinality(R) = n => k[R] = -g[R]
    OBVIOUS
  <2> HIDE DEF Good
  <2>2. T # {}
    <3>1. T = {} => Cardinality(T) = 0
      BY FS_EmptySet
    <3> QED
      BY <2>1, <3>1
  <2> DEFINE p == PickOf(T)
  <2>3. p \in T /\ g[T] = f[p] + g[T \ {p}] /\ k[T] = h[p] + k[T \ {p}]
    BY <1>3, <2>2 DEF SumStep, PickOf
  <2> HIDE DEF p
  <2>4. T \ {p} \in SUBSET S /\ Cardinality(T \ {p}) = n
    BY <2>1, <2>3, SmallerByOne, SMTT(30)
  <2>5. k[T \ {p}] = -g[T \ {p}] /\ g[T \ {p}] \in Int /\ f[p] \in Int /\ h[p] = -f[p]
    BY <1>3, <2>1, <2>3, <2>4
  <2> QED
    BY <2>3, <2>5
<1>6. Good \in SUBSET Nat
  OBVIOUS
<1> HIDE DEF Good
<1>7. Cardinality(S) \in Good
  BY <1>4, <1>5, <1>6, Induction, FS_CardinalityType
<1> QED
  BY <1>1, <1>2, <1>3, <1>7 DEF Good

(***************************************************************************)
(* Volumes.                                                                *)
(***************************************************************************)
Terms(b) == [i \in DOMAIN b |-> Prep!Determinant(b[i][1], b[i][2], b[i][3])]

LEMMA VolumeIsSum ==
  ASSUME NEW b
  PROVE  Prep!Volume(b) = SumOf(Terms(b), DOMAIN b)
<1> DEFINE f(i) == Prep!Determinant(b[i][1], b[i][2], b[i][3])
           S == DOMAIN b
           Mapped(g, T) == IF T = {} THEN 0 ELSE f(PickOf(T)) + g[T \ {PickOf(T)}]
<1>1. Prep!Volume(b) = (CHOOSE g : g = [T \in SUBSET S |-> Mapped(g, T)])[S]
  BY DEF Prep!Volume, Prep!MapThenSumSet, Prep!MapThenFoldSet, PickOf
<1>2. \A T \in SUBSET S : T # {} => PickOf(T) \in S
  BY DEF PickOf
<1>3. \A i \in S : Terms(b)[i] = f(i)
  BY DEF Terms
<1> HIDE DEF f, S
<1>4. \A g : \A T \in SUBSET S : Mapped(g, T) = SumStep(Terms(b), g, T)
  BY <1>2, <1>3 DEF SumStep
<1> HIDE DEF Mapped
<1>5. \A g : [T \in SUBSET S |-> Mapped(g, T)] = [T \in SUBSET S |-> SumStep(Terms(b), g, T)]
  BY <1>4
<1>6. (CHOOSE g : g = [T \in SUBSET S |-> Mapped(g, T)])
        = (CHOOSE g : g = [T \in SUBSET S |-> SumStep(Terms(b), g, T)])
  BY <1>5
<1>7. Prep!Volume(b) = SumOf(Terms(b), S)
  BY <1>1, <1>6 DEF SumOf
<1> QED
  BY <1>7 DEF S

LEMMA DeterminantIs ==
  ASSUME NEW p \in Int \X Int \X Int, NEW q \in Int \X Int \X Int, NEW r \in Int \X Int \X Int
  PROVE  Prep!Determinant(p, q, r) \in Int /\ Prep!Determinant(r, q, p) = -Prep!Determinant(p, q, r)
<1>1. /\ p[1] \in Int /\ p[2] \in Int /\ p[3] \in Int /\ q[1] \in Int /\ q[2] \in Int
      /\ q[3] \in Int /\ r[1] \in Int /\ r[2] \in Int /\ r[3] \in Int
  OBVIOUS
<1> QED
  BY <1>1 DEF Prep!Determinant

LEMMA TermsAre ==
  ASSUME NEW b, IsBody(b)
  PROVE  Terms(b) \in [DOMAIN b -> Int]
<1>1. \A i \in DOMAIN b : b[i] \in Triples
  BY DEF IsBody
<1>2. ASSUME NEW i \in DOMAIN b
      PROVE  Prep!Determinant(b[i][1], b[i][2], b[i][3]) \in Int
  <2>1. /\ b[i][1] \in Int \X Int \X Int /\ b[i][2] \in Int \X Int \X Int
        /\ b[i][3] \in Int \X Int \X Int
    BY <1>1 DEF Triples
  <2> QED
    BY <2>1, DeterminantIs
<1> QED
  BY <1>2 DEF Terms

AllReversed(b) == [i \in DOMAIN b |-> Prep!Reversed(b[i])]

LEMMA VolumeReversed ==
  ASSUME NEW b, IsBody(b)
  PROVE  /\ IsBody(AllReversed(b)) /\ DOMAIN AllReversed(b) = DOMAIN b
         /\ Prep!Volume(b) \in Int /\ Prep!Volume(AllReversed(b)) = -Prep!Volume(b)
<1> DEFINE c == AllReversed(b)
<1>1. PICK N \in Nat : DOMAIN b \in SUBSET (1..N) /\ b \in [DOMAIN b -> Triples]
  BY DEF IsBody
<1>2. DOMAIN c = DOMAIN b /\ \A i \in DOMAIN b : c[i] = Prep!Reversed(b[i]) /\ b[i] \in Triples
  BY <1>1 DEF AllReversed
<1>3. \A i \in DOMAIN b : Prep!Reversed(b[i]) \in Triples
  BY <1>2, ReversedIs
<1>4. c \in [DOMAIN b -> Triples]
  BY <1>3 DEF AllReversed
<1> HIDE DEF c
<1>5. IsBody(c)
  BY <1>1, <1>2, <1>4 DEF IsBody
<1>6. ASSUME NEW i \in DOMAIN b
      PROVE  Terms(c)[i] = -Terms(b)[i]
  <2>1. /\ b[i][1] \in Int \X Int \X Int /\ b[i][2] \in Int \X Int \X Int
        /\ b[i][3] \in Int \X Int \X Int
    BY <1>2 DEF Triples
  <2>2. c[i][1] = b[i][3] /\ c[i][2] = b[i][2] /\ c[i][3] = b[i][1]
    BY <1>2, ReversedIs
  <2>3. Prep!Determinant(b[i][3], b[i][2], b[i][1]) = -Prep!Determinant(b[i][1], b[i][2], b[i][3])
    BY <2>1, DeterminantIs
  <2> QED
    BY <1>2, <2>2, <2>3 DEF Terms
<1>7. Terms(b) \in [DOMAIN b -> Int] /\ Terms(c) \in [DOMAIN b -> Int] /\ IsFiniteSet(DOMAIN b)
  BY <1>2, <1>5, TermsAre, BodyIsFinite
<1>8. /\ SumOf(Terms(b), DOMAIN b) \in Int
      /\ SumOf(Terms(c), DOMAIN b) = -SumOf(Terms(b), DOMAIN b)
  BY <1>6, <1>7, OppositeSum
<1> QED
  BY <1>2, <1>5, <1>8, VolumeIsSum DEF c

-----------------------------------------------------------------------------
(***************************************************************************)
(* fix_normals.                                                            *)
(***************************************************************************)
LEMMA TurnedBack ==
  ASSUME NEW b, IsBody(b), NEW T \in SUBSET DOMAIN b
  PROVE  /\ AllReversed(Prep!Turned(b, T)) = Prep!Turned(b, (DOMAIN b) \ T)
         /\ Coherent(b, T) => Coherent(b, (DOMAIN b) \ T)
<1> DEFINE c == Prep!Turned(b, T)
           R == (DOMAIN b) \ T
<1>1. DOMAIN c = DOMAIN b
      /\ \A i \in DOMAIN b : c[i] = (IF i \in T THEN Prep!Reversed(b[i]) ELSE b[i]) /\ b[i] \in Triples
  BY TurnedIs
<1> HIDE DEF c
<1>2. \A i \in DOMAIN b : Prep!Reversed(c[i]) = IF i \in R THEN Prep!Reversed(b[i]) ELSE b[i]
  BY <1>1, ReversedIs
<1>3. AllReversed(c) = [i \in DOMAIN b |-> Prep!Reversed(c[i])]
  BY <1>1 DEF AllReversed
<1>4. Prep!Turned(b, R) = [i \in DOMAIN b |-> IF i \in R THEN Prep!Reversed(b[i]) ELSE b[i]]
  BY DEF Prep!Turned
<1>5. ASSUME Coherent(b, T), NEW u \in Prep!Uses(b), NEW v \in Prep!Uses(b), Pair(b, u, v)
      PROVE  Fits(b, R, u, v)
  <2>1. Fits(b, T, u, v)
    BY <1>5 DEF Coherent
  <2>2. u[1] \in DOMAIN b /\ v[1] \in DOMAIN b
    BY DEF Prep!Uses
  <2>3. (u[1] \in R <=> v[1] \in R) <=> (u[1] \in T <=> v[1] \in T)
    BY <2>2
  <2> HIDE DEF R
  <2> QED
    BY <2>1, <2>3 DEF Fits
<1>6. Coherent(b, T) => Coherent(b, R)
  BY <1>5 DEF Coherent
<1>7. AllReversed(c) = Prep!Turned(b, R)
  BY <1>2, <1>3, <1>4
<1> QED
  BY <1>6, <1>7 DEF c

LEMMA WindableIs ==
  ASSUME NEW b, IsBody(b)
  PROVE  Prep!CanBeClosed(b) <=> Windable(b)
<1>1. \A T \in SUBSET DOMAIN b : Prep!Winding(Prep!Turned(b, T)) <=> Coherent(b, T)
  BY TurnedIsWound
<1> QED
  BY <1>1 DEF Prep!CanBeClosed, Windable

LEMMA FixedTurns ==
  ASSUME NEW b, IsBody(b)
  PROVE  /\ \E T \in SUBSET DOMAIN b : Prep!FixNormals(b) = Prep!Turned(b, T) /\ (Windable(b) => Coherent(b, T))
         /\ Prep!Watertight(b) => Prep!Volume(Prep!FixNormals(b)) >= 0
<1> DEFINE walked == IF Prep!Winding(b) THEN b ELSE Prep!Walk(b)
<1>1. PICK T \in SUBSET DOMAIN b : walked = Prep!Turned(b, T) /\ (Windable(b) => Coherent(b, T))
  <2>1. CASE Prep!Winding(b)
    <3>1. Prep!Turned(b, {}) = b /\ {} \in SUBSET DOMAIN b
      BY TurnedNone
    <3>2. Coherent(b, {})
      BY <2>1, <3>1, TurnedIsWound
    <3>3. walked = Prep!Turned(b, {})
      BY <2>1, <3>1
    <3> HIDE DEF walked
    <3> QED
      BY <3>1, <3>2, <3>3
  <2>2. CASE ~Prep!Winding(b)
    <3>1. walked = Prep!Walk(b)
      BY <2>2
    <3> HIDE DEF walked
    <3> QED
      BY <3>1, WalkTurns
  <2> QED
    BY <2>1, <2>2
<1>2. Prep!FixNormals(b) = IF Prep!Watertight(b) /\ Prep!Volume(walked) < 0
                      THEN [i \in DOMAIN b |-> Prep!Reversed(walked[i])] ELSE walked
  BY DEF Prep!FixNormals
<1> HIDE DEF walked
<1>3. IsBody(walked) /\ DOMAIN walked = DOMAIN b
  BY <1>1, TurnedIs
<1>4. [i \in DOMAIN b |-> Prep!Reversed(walked[i])] = AllReversed(walked)
  BY <1>3 DEF AllReversed
<1>5. Prep!Volume(walked) \in Int /\ Prep!Volume(AllReversed(walked)) = -Prep!Volume(walked)
  BY <1>3, VolumeReversed
<1>6. CASE Prep!Watertight(b) /\ Prep!Volume(walked) < 0
  <2>1. Prep!FixNormals(b) = AllReversed(walked)
    BY <1>2, <1>4, <1>6
  <2>2. Prep!FixNormals(b) = Prep!Turned(b, (DOMAIN b) \ T)
    BY <1>1, <2>1, TurnedBack
  <2>3. Windable(b) => Coherent(b, (DOMAIN b) \ T)
    BY <1>1, TurnedBack
  <2>4. Prep!Volume(Prep!FixNormals(b)) >= 0
    BY <1>5, <1>6, <2>1
  <2> QED
    BY <2>2, <2>3, <2>4
<1>7. CASE ~(Prep!Watertight(b) /\ Prep!Volume(walked) < 0)
  <2>1. Prep!FixNormals(b) = walked
    BY <1>2, <1>7
  <2>2. Prep!Watertight(b) => Prep!Volume(walked) >= 0
    BY <1>5, <1>7
  <2> QED
    BY <1>1, <2>1, <2>2
<1> QED
  BY <1>6, <1>7

(***************************************************************************)
(* fix_normals changes no more than directions, closes every body that can *)
(* be closed, and leaves no watertight body wound inward.                  *)
(***************************************************************************)
LEMMA FixedIs ==
  ASSUME NEW b, IsBody(b)
  PROVE  /\ IsBody(Prep!FixNormals(b)) /\ DOMAIN Prep!FixNormals(b) = DOMAIN b
         /\ Prep!IsClosed(Prep!FixNormals(b)) <=> Prep!CanBeClosed(b)
         /\ Prep!IsClosed(Prep!FixNormals(b)) => Prep!Volume(Prep!FixNormals(b)) >= 0
         /\ [i \in DOMAIN Prep!FixNormals(b) |-> Prep!Range(Prep!FixNormals(b)[i])] = [i \in DOMAIN b |-> Prep!Range(b[i])]
<1> DEFINE c == Prep!FixNormals(b)
<1>1. PICK T \in SUBSET DOMAIN b : c = Prep!Turned(b, T) /\ (Windable(b) => Coherent(b, T))
  BY FixedTurns
<1>2. Prep!Watertight(b) => Prep!Volume(c) >= 0
  BY FixedTurns
<1> HIDE DEF c
<1>3. IsBody(c) /\ DOMAIN c = DOMAIN b
      /\ \A i \in DOMAIN b : c[i] = (IF i \in T THEN Prep!Reversed(b[i]) ELSE b[i]) /\ b[i] \in Triples
  BY <1>1, TurnedIs
<1>4. (Prep!Watertight(c) <=> Prep!Watertight(b)) /\ (Prep!Winding(c) <=> Coherent(b, T))
  BY <1>1, TurnedIsWound
<1>5. Prep!IsClosed(c) <=> Windable(b)
  BY <1>1, <1>4 DEF Prep!IsClosed, Windable
<1>6. \A i \in DOMAIN b : Prep!Range(c[i]) = Prep!Range(b[i])
  BY <1>3, ReversedIs
<1>7. [i \in DOMAIN c |-> Prep!Range(c[i])] = [i \in DOMAIN b |-> Prep!Range(b[i])]
  BY <1>3, <1>6
<1>8. Prep!IsClosed(c) => Prep!Volume(c) >= 0
  BY <1>2, <1>4 DEF Prep!IsClosed
<1> QED
  BY <1>3, <1>5, <1>7, <1>8, WindableIs DEF c

-----------------------------------------------------------------------------
(***************************************************************************)
(* The bodies of a mesh.                                                   *)
(***************************************************************************)
LEMMA MergedIsBody ==
  ASSUME NEW faces, IsMesh(faces)
  PROVE  IsBody(Prep!MergePositions(faces)) /\ DOMAIN Prep!MergePositions(faces) = 1..Len(faces)
<1> DEFINE b == Prep!MergePositions(faces)
<1>1. DOMAIN b = 1..Len(faces) /\ \A i \in DOMAIN b : b[i] = [k \in 1..3 |-> faces[i][k].at]
  BY DEF Prep!MergePositions, IsMesh
<1>2. \A i \in DOMAIN b : b[i] \in Triples
  BY <1>1, SMTT(30) DEF IsMesh, Triples, Points
<1>3. b = [i \in DOMAIN b |-> b[i]]
  BY DEF Prep!MergePositions
<1> HIDE DEF b
<1>4. b \in [DOMAIN b -> Triples]
  BY <1>2, <1>3
<1>5. Len(faces) \in Nat /\ DOMAIN b \in SUBSET (1..Len(faces))
  BY <1>1 DEF IsMesh
<1>6. IsBody(b)
  BY <1>4, <1>5 DEF IsBody
<1> QED
  BY <1>1, <1>6 DEF b

\* The faces that can be reached from a face are faces.
LEMMA GroupIsFaces ==
  ASSUME NEW b, IsBody(b), NEW n \in Nat, DOMAIN b = 1..n, NEW i \in DOMAIN b
  PROVE  LET Grown(group, k) == group \cup Prep!Neighbours(Prep!Adjacent(b), group)
         IN  Prep!FoldLeft(Grown, {i}, [k \in DOMAIN b |-> k]) \in SUBSET DOMAIN b
<1> DEFINE adjacent == Prep!Adjacent(b)
           Acc == SUBSET DOMAIN b
           Step(x, k) == x \cup Prep!Neighbours(adjacent, x)
           step == [x \in Acc \X (1..n) |-> Step(x[1], x[2])]
           Stepped(g, T) == IF T = {} THEN {i} ELSE Step(g[T \ {Max(T)}], Max(T))
           iter == CHOOSE g : g = [T \in SUBSET (1..n) |-> Stepped(g, T)]
           s == [k \in DOMAIN b |-> k]
<1>1. DOMAIN s = 1..n
  OBVIOUS
<1>2. {i} \in Acc
  OBVIOUS
<1>3. ASSUME NEW x \in Acc, NEW k \in 1..n
      PROVE  Step(x, k) \in Acc
  <2>1. adjacent \in SUBSET ((DOMAIN b) \X (DOMAIN b))
    BY AdjacentIs
  <2>2. ASSUME NEW j \in Prep!Neighbours(adjacent, x) PROVE j \in DOMAIN b
    <3>1. PICK e \in adjacent : j = e[2]
      BY DEF Prep!Neighbours
    <3>2. e[2] \in DOMAIN b
      BY <2>1
    <3> QED
      BY <3>1, <3>2
  <2> QED
    BY <2>2
<1>4. LET Grown(group, k) == group \cup Prep!Neighbours(Prep!Adjacent(b), group)
      IN  Prep!FoldLeft(Grown, {i}, s) = iter[1..n]
  <2>1. \A T : Prep!Max(T) = Max(T)
    BY DEF Prep!Max, Max
  <2> QED
    BY <1>1, <2>1 DEF Prep!FoldLeft, Prep!MapThenFoldSet
<1> HIDE DEF Step, adjacent
<1>5. step \in [Acc \X (1..n) -> Acc]
  BY <1>3
<1> HIDE DEF Acc, step
<1>6. PICK g : IsFold(g, n, Acc, {i}, step)
  BY <1>2, <1>5, FoldExists
<1>7. \A T \in SUBSET (1..n) : g[T] = Stepped(g, T)
  <2> SUFFICES ASSUME NEW T \in SUBSET (1..n), T # {} PROVE g[T] = Stepped(g, T)
    BY <1>6 DEF IsFold
  <2>1. Max(T) \in 1..n
    BY MaxIs
  <2>2. g[T \ {Max(T)}] \in Acc
    BY <1>6 DEF IsFold
  <2> QED
    BY <1>6, <2>1, <2>2 DEF IsFold, step
<1>8. g = [T \in SUBSET (1..n) |-> Stepped(g, T)]
  BY <1>6, <1>7 DEF IsFold
<1>9. iter = [T \in SUBSET (1..n) |-> Stepped(iter, T)]
  BY <1>8
<1> HIDE DEF iter
<1>10. TakesSteps(iter, n, Acc, {i}, step)
  <2>1. iter[{}] = {i}
    BY <1>9
  <2>2. ASSUME NEW T \in SUBSET (1..n), T # {}, iter[T \ {Max(T)}] \in Acc
        PROVE  iter[T] = step[<<iter[T \ {Max(T)}], Max(T)>>]
    <3>1. Max(T) \in 1..n
      BY <2>2, MaxIs
    <3> QED
      BY <1>9, <2>2, <3>1 DEF step
  <2> QED
    BY <2>1, <2>2 DEF TakesSteps
<1>11. PICK after : Walks(after, n, Acc, {i}, step, iter[1..n])
  BY <1>2, <1>5, <1>10, StepsAre
<1>12. iter[1..n] \in Acc
  BY <1>11 DEF Walks
<1> QED
  BY <1>4, <1>12 DEF Acc

(***************************************************************************)
(* A body is part of the mesh: it is known by the numbers of its faces.    *)
(***************************************************************************)
LEMMA BodiesAre ==
  ASSUME NEW b, IsBody(b), NEW n \in Nat, DOMAIN b = 1..n
  PROVE  /\ IsFiniteSet(Prep!SplitBodies(b))
         /\ \A c \in Prep!SplitBodies(b) : IsBody(c) /\ c = [i \in DOMAIN c |-> b[i]]
<1> DEFINE Grown(group, k) == group \cup Prep!Neighbours(Prep!Adjacent(b), group)
           Group(i) == Prep!FoldLeft(Grown, {i}, [k \in DOMAIN b |-> k])
           Part(i) == [j \in Group(i) |-> b[j]]
<1>1. Prep!SplitBodies(b) = {[i \in group |-> b[i]] : group \in {Group(i) : i \in DOMAIN b}}
  BY DEF Prep!SplitBodies
<1>2. \A i \in DOMAIN b : Group(i) \in SUBSET DOMAIN b
  BY GroupIsFaces
<1> HIDE DEF Group
<1>3. Prep!SplitBodies(b) = {Part(i) : i \in DOMAIN b}
  BY <1>1
<1>4. IsFiniteSet(DOMAIN b)
  BY BodyIsFinite
<1>5. IsFiniteSet({Part(i) : i \in DOMAIN b})
  <2> DEFINE T == {Part(i) : i \in DOMAIN b}
             f == [i \in DOMAIN b |-> Part(i)]
  <2>1. f \in [DOMAIN b -> T] /\ \A t \in T : \E i \in DOMAIN b : f[i] = t
    OBVIOUS
  <2>2. f \in Surjection(DOMAIN b, T)
    BY <2>1 DEF Surjection
  <2> HIDE DEF f, T
  <2>3. IsFiniteSet(T)
    BY <1>4, <2>2, FS_Surjection
  <2> QED
    BY <2>3 DEF T
<1>6. \A i \in DOMAIN b : b[i] \in Triples
  BY DEF IsBody
<1>7. ASSUME NEW i \in DOMAIN b
      PROVE  IsBody(Part(i)) /\ Part(i) = [j \in DOMAIN Part(i) |-> b[j]]
  <2>1. DOMAIN Part(i) = Group(i) /\ Group(i) \in SUBSET (1..n)
    BY <1>2
  <2>2. Part(i) \in [DOMAIN Part(i) -> Triples]
    BY <1>6, <2>1
  <2> QED
    BY <2>1, <2>2 DEF IsBody
<1> QED
  BY <1>3, <1>5, <1>7

\* What is one to one keeps the number.
LEMMA SameNumber ==
  ASSUME NEW S, IsFiniteSet(S), NEW f, DOMAIN f = S, f = [x \in S |-> f[x]],
         \A x, y \in S : f[x] = f[y] => x = y
  PROVE  Cardinality({f[x] : x \in S}) = Cardinality(S)
<1> DEFINE T == {f[x] : x \in S}
<1>1. f \in [S -> T] /\ \A t \in T : \E x \in S : f[x] = t
  OBVIOUS
<1> HIDE DEF T
<1>2. f \in Surjection(S, T) /\ f \in Injection(S, T)
  BY <1>1 DEF Surjection, Injection, IsInjective
<1>3. ExistsBijection(S, T)
  BY <1>2 DEF ExistsBijection, Bijection
<1>4. Cardinality(T) = Cardinality(S)
  BY <1>3, FS_Bijection
<1> QED
  BY <1>4 DEF T

\* The open ones of the bodies that were fixed are those that cannot be closed.
LEMMA OpenAre ==
  ASSUME NEW b, IsBody(b), NEW n \in Nat, DOMAIN b = 1..n,
         NEW found \in SUBSET Prep!SplitBodies(b)
  PROVE  LET fixed == {Prep!FixNormals(c) : c \in found}
         IN  Cardinality(fixed \ {c \in fixed : Prep!IsClosed(c)}) = Cardinality({c \in found : ~Prep!CanBeClosed(c)})
<1> DEFINE fixed == {Prep!FixNormals(c) : c \in found}
           open == {c \in found : ~Prep!CanBeClosed(c)}
           f == [c \in open |-> Prep!FixNormals(c)]
<1>1. \A c \in found : IsBody(c) /\ c = [i \in DOMAIN c |-> b[i]]
  BY BodiesAre
<1>2. \A c \in found : /\ DOMAIN Prep!FixNormals(c) = DOMAIN c
                       /\ Prep!IsClosed(Prep!FixNormals(c)) <=> Prep!CanBeClosed(c)
  BY <1>1, FixedIs
<1>3. fixed \ {c \in fixed : Prep!IsClosed(c)} = {f[c] : c \in open}
  BY <1>2
<1>4. IsFiniteSet(open)
  BY BodiesAre, FS_Subset
<1>5. ASSUME NEW c \in open, NEW d \in open, f[c] = f[d]
      PROVE  c = d
  <2>1. Prep!FixNormals(c) = Prep!FixNormals(d)
    BY <1>5
  <2>2. DOMAIN c = DOMAIN d
    BY <1>2, <2>1
  <2> QED
    BY <1>1, <2>2
<1>6. DOMAIN f = open /\ f = [c \in open |-> f[c]]
  OBVIOUS
<1> HIDE DEF f, open, fixed
<1>7. Cardinality({f[c] : c \in open}) = Cardinality(open)
  BY <1>4, <1>5, <1>6, SameNumber
<1>8. Cardinality(fixed \ {c \in fixed : Prep!IsClosed(c)}) = Cardinality(open)
  BY <1>3, <1>7
<1> QED
  BY <1>8 DEF fixed, open

-----------------------------------------------------------------------------
(***************************************************************************)
(* The hull of a body is closed, unless it is flat.                        *)
(***************************************************************************)
FourFaces(p, q, r, s) == <<<<p, q, r>>, <<p, r, s>>, <<p, s, q>>, <<q, s, r>>>>

LEMMA LeastAndGreatest ==
  ASSUME NEW S \in SUBSET Int, IsFiniteSet(S), S # {}
  PROVE  (\E n \in S : \A m \in S : n <= m) /\ (\E n \in S : \A m \in S : n >= m)
<1> DEFINE HasBoth(T) == (\E n \in T : \A m \in T : n <= m) /\ (\E n \in T : \A m \in T : n >= m)
           Good == {k \in Nat : \A T \in SUBSET S : Cardinality(T) = k + 1 => HasBoth(T)}
<1>1. 0 \in Good
  <2> SUFFICES ASSUME NEW T \in SUBSET S, Cardinality(T) = 0 + 1 PROVE HasBoth(T)
    OBVIOUS
  <2>1. IsFiniteSet(T) /\ Cardinality(T) = 1
    <3>1. 0 + 1 = 1
      OBVIOUS
    <3>2. IsFiniteSet(T)
      BY FS_Subset
    <3> HIDE DEF Good
    <3> QED
      BY <3>1, <3>2
  <2>2. PICK x : T = {x}
    BY <2>1, FS_Singleton
  <2>3. x \in Int
    BY <2>2
  <2> QED
    BY <2>2, <2>3
<1>2. ASSUME NEW k \in Good PROVE k + 1 \in Good
  <2> SUFFICES ASSUME NEW T \in SUBSET S, Cardinality(T) = (k + 1) + 1 PROVE HasBoth(T)
    OBVIOUS
  <2>1. k \in Nat /\ \A R \in SUBSET S : Cardinality(R) = k + 1 => HasBoth(R)
    OBVIOUS
  <2> HIDE DEF Good
  <2>2. T # {}
    <3>1. T = {} => Cardinality(T) = 0
      BY FS_EmptySet
    <3> QED
      BY <2>1, <3>1
  <2>3. PICK x : x \in T
    BY <2>2
  <2> DEFINE R == T \ {x}
  <2>4. R \in SUBSET S /\ Cardinality(R) = k + 1
    <3>1. R \in SUBSET S /\ Cardinality(R) = Cardinality(T) - 1
      BY <2>3, SmallerByOne
    <3>2. ((k + 1) + 1) - 1 = k + 1
      BY <2>1
    <3> HIDE DEF R
    <3> QED
      BY <3>1, <3>2
  <2>5. HasBoth(R) /\ T = R \cup {x} /\ x \in Int /\ R \in SUBSET Int
    BY <2>1, <2>3, <2>4
  <2> HIDE DEF R
  <2>6. PICK n \in R : \A m \in R : n <= m
    BY <2>5
  <2>7. \E j \in T : \A m \in T : j <= m
    <3>1. CASE n <= x
      BY <2>5, <2>6, <3>1
    <3>2. CASE ~(n <= x)
      BY <2>5, <2>6, <3>2
    <3> QED
      BY <3>1, <3>2
  <2>8. PICK g \in R : \A m \in R : g >= m
    BY <2>5
  <2>9. \E j \in T : \A m \in T : j >= m
    <3>1. CASE g >= x
      BY <2>5, <2>8, <3>1
    <3>2. CASE ~(g >= x)
      BY <2>5, <2>8, <3>2
    <3> QED
      BY <3>1, <3>2
  <2> QED
    BY <2>7, <2>9
<1>3. Good \in SUBSET Nat
  OBVIOUS
<1> HIDE DEF Good
<1>4. \A k \in Nat : k \in Good
  BY <1>1, <1>2, <1>3, Induction
<1>5. Cardinality(S) \in Nat /\ Cardinality(S) # 0
  BY FS_EmptySet, FS_CardinalityType
<1>6. Cardinality(S) - 1 \in Nat /\ (Cardinality(S) - 1) + 1 = Cardinality(S)
  BY <1>5
<1>7. Cardinality(S) - 1 \in Good
  BY <1>4, <1>6
<1> QED
  BY <1>6, <1>7 DEF Good

\* The corners of a body have bounds.
LEMMA BoundsAre ==
  ASSUME NEW b, IsBody(b), DOMAIN b # {}, NEW k \in 1..3
  PROVE  Prep!Low(b, k) \in Int /\ Prep!High(b, k) \in Int
<1> DEFINE S == {p[k] : p \in Prep!Corners(b)}
           f == [u \in Prep!Uses(b) |-> b[u[1]][u[2]][k]]
<1>1. \A i \in DOMAIN b : b[i] \in [1..3 -> Points]
  BY DEF IsBody, Triples, Points
<1>2. Prep!Corners(b) = UNION {Prep!Range(b[i]) : i \in DOMAIN b}
  BY DEF Prep!Corners
<1>3. ASSUME NEW p \in Prep!Corners(b)
      PROVE  p \in Points /\ \E i \in DOMAIN b : \E j \in 1..3 : p = b[i][j]
  <2>1. PICK i \in DOMAIN b : p \in Prep!Range(b[i])
    BY <1>2
  <2>2. DOMAIN b[i] = 1..3 /\ \A j \in 1..3 : b[i][j] \in Points
    BY <1>1
  <2>3. PICK j \in 1..3 : p = b[i][j]
    BY <2>1, <2>2 DEF Prep!Range
  <2> QED
    BY <2>2, <2>3
<1>4. \A p \in Points : p[k] \in Int
  BY DEF Points
<1>5. S \in SUBSET Int
  BY <1>3, <1>4
<1>6. S # {}
  <2>1. PICK i : i \in DOMAIN b
    OBVIOUS
  <2>2. b[i][1] \in Prep!Range(b[i])
    BY <1>1, <2>1 DEF Prep!Range
  <2>3. b[i][1] \in Prep!Corners(b)
    BY <1>2, <2>1, <2>2
  <2> QED
    BY <2>3
<1>7. IsFiniteSet(S)
  <2> DEFINE T == {f[u] : u \in Prep!Uses(b)}
  <2>1. f \in Surjection(Prep!Uses(b), T)
    BY DEF Surjection
  <2>2. IsFiniteSet(Prep!Uses(b))
    BY BodyIsFinite
  <2> HIDE DEF T
  <2>3. IsFiniteSet(T)
    BY <2>1, <2>2, FS_Surjection
  <2>4. ASSUME NEW n \in S PROVE n \in T
    <3>1. PICK p \in Prep!Corners(b) : n = p[k]
      OBVIOUS
    <3>2. PICK i \in DOMAIN b, j \in 1..3 : p = b[i][j]
      BY <1>3
    <3>3. <<i, j>> \in Prep!Uses(b) /\ f[<<i, j>>] = n
      BY <3>1, <3>2 DEF Prep!Uses
    <3> QED
      BY <3>3 DEF T
  <2>5. S \in SUBSET T
    BY <2>4
  <2> QED
    BY <2>3, <2>5, FS_Subset
<1>8. /\ Prep!Low(b, k) = CHOOSE n \in S : \A p \in Prep!Corners(b) : n <= p[k]
      /\ Prep!High(b, k) = CHOOSE n \in S : \A p \in Prep!Corners(b) : n >= p[k]
  BY DEF Prep!Low, Prep!High
<1>9. \A p \in Prep!Corners(b) : p[k] \in S
  OBVIOUS
<1>10. \A n \in S : \E p \in Prep!Corners(b) : n = p[k]
  OBVIOUS
<1> HIDE DEF S
<1>11. /\ \E n \in S : \A p \in Prep!Corners(b) : n <= p[k]
       /\ \E n \in S : \A p \in Prep!Corners(b) : n >= p[k]
  <2>1. (\E n \in S : \A m \in S : n <= m) /\ (\E n \in S : \A m \in S : n >= m)
    BY <1>5, <1>6, <1>7, LeastAndGreatest
  <2> QED
    BY <1>9, <2>1
<1>12. Prep!Low(b, k) \in S
  BY <1>8, <1>11
<1>13. Prep!High(b, k) \in S
  BY <1>8, <1>11
<1> QED
  BY <1>5, <1>12, <1>13

LEMMA HullIs ==
  ASSUME NEW b, IsBody(b), DOMAIN b # {}
  PROVE  \E p, q, r, s \in Points : Prep!Hull(b) = FourFaces(p, q, r, s)
<1> DEFINE l == [k \in 1..3 |-> Prep!Low(b, k)]
           h == [k \in 1..3 |-> Prep!High(b, k)]
           p == <<l[1], l[2], l[3]>>
           q == <<h[1], h[2], l[3]>>
           r == <<h[1], l[2], h[3]>>
           s == <<l[1], h[2], h[3]>>
<1>1. \A k \in 1..3 : l[k] \in Int /\ h[k] \in Int
  BY BoundsAre
<1>2. Prep!Hull(b) = FourFaces(p, q, r, s)
  BY DEF Prep!Hull, FourFaces
<1> HIDE DEF l, h
<1>3. p \in Points /\ q \in Points /\ r \in Points /\ s \in Points
  BY <1>1 DEF Points
<1> HIDE DEF p, q, r, s
<1> QED
  BY <1>2, <1>3

LEMMA FourFacesAre ==
  ASSUME NEW p \in Points, NEW q \in Points, NEW r \in Points, NEW s \in Points
  PROVE  /\ IsBody(FourFaces(p, q, r, s))
         /\ Prep!Volume(FourFaces(p, q, r, s)) =
              Prep!Determinant(p, q, r) + Prep!Determinant(p, r, s) + Prep!Determinant(p, s, q) + Prep!Determinant(q, s, r)
<1> DEFINE b == FourFaces(p, q, r, s)
           f == Terms(b)
           S == DOMAIN b
<1>1. /\ DOMAIN b = 1..4 /\ b = [i \in 1..4 |-> b[i]]
      /\ b[1] = <<p, q, r>> /\ b[2] = <<p, r, s>> /\ b[3] = <<p, s, q>> /\ b[4] = <<q, s, r>>
  BY DEF FourFaces
<1> HIDE DEF b
<1>2. \A x, y, z \in Points : <<x, y, z>> \in Triples
  BY DEF Triples, Points
<1>3. \A i \in 1..4 : b[i] \in Triples
  BY <1>1, <1>2
<1>4. b \in [DOMAIN b -> Triples]
  BY <1>1, <1>3
<1>5. IsBody(b)
  BY <1>1, <1>4 DEF IsBody
<1>6. /\ f \in [S -> Int] /\ IsFiniteSet(S) /\ Prep!Volume(b) = SumOf(f, S)
  BY <1>5, TermsAre, BodyIsFinite, VolumeIsSum
<1>7. /\ f[1] = Prep!Determinant(p, q, r) /\ f[2] = Prep!Determinant(p, r, s)
      /\ f[3] = Prep!Determinant(p, s, q) /\ f[4] = Prep!Determinant(q, s, r)
  BY <1>1 DEF Terms
<1> HIDE DEF f
<1>8. S = {1, 2, 3, 4}
  BY <1>1
<1> HIDE DEF S
<1>9. PICK g : IsSumming(g, f, S) /\ SumOf(f, S) = g[S]
  BY <1>6, SummingExists
<1>10. g[{}] = 0 /\ \A T \in SUBSET S : \A x \in T : g[T] = f[x] + g[T \ {x}]
  BY <1>6, <1>9, TakeAny
<1>11. /\ {1, 2, 3, 4} \ {1} = {2, 3, 4} /\ {2, 3, 4} \ {2} = {3, 4}
       /\ {3, 4} \ {3} = {4} /\ {4} \ {4} = {}
  OBVIOUS
<1>20. S \in SUBSET S /\ {2, 3, 4} \in SUBSET S /\ {3, 4} \in SUBSET S /\ {4} \in SUBSET S
  BY <1>8
<1>12. g[{1, 2, 3, 4}] = f[1] + g[{2, 3, 4}]
  BY <1>8, <1>10, <1>11
<1>13. g[{2, 3, 4}] = f[2] + g[{3, 4}]
  BY <1>8, <1>10, <1>11
<1>14. g[{3, 4}] = f[3] + g[{4}]
  <2>1. g[{3, 4}] = f[3] + g[{3, 4} \ {3}]
    BY <1>10, <1>20
  <2> QED
    BY <1>11, <2>1
<1>15. g[{4}] = f[4] + g[{}]
  <2>1. g[{4}] = f[4] + g[{4} \ {4}]
    BY <1>10, <1>20
  <2> QED
    BY <1>11, <2>1
<1>16. f[1] \in Int /\ f[2] \in Int /\ f[3] \in Int /\ f[4] \in Int
  BY <1>6, <1>8
<1>17. Prep!Volume(b) = f[1] + f[2] + f[3] + f[4]
  BY <1>6, <1>8, <1>9, <1>10, <1>12, <1>13, <1>14, <1>15, <1>16
<1> QED
  BY <1>1, <1>5, <1>7, <1>17 DEF b, S

\* Two corners of a tetrahedron that has a volume are not the same.
LEMMA CornersApart ==
  ASSUME NEW p \in Points, NEW q \in Points, NEW r \in Points, NEW s \in Points,
         Prep!Volume(FourFaces(p, q, r, s)) # 0
  PROVE  p # q /\ p # r /\ p # s /\ q # r /\ q # s /\ r # s
<1> DEFINE D(x, y, z) == Prep!Determinant(x, y, z)
<1>1. D(p, q, r) + D(p, r, s) + D(p, s, q) + D(q, s, r) # 0
  BY FourFacesAre
<1>2. \A x, y, z \in Points :
        /\ D(x, y, z) \in Int /\ D(z, y, x) = -D(x, y, z)
        /\ D(y, x, z) = -D(x, y, z) /\ D(x, z, y) = -D(x, y, z)
  <2> SUFFICES ASSUME NEW x \in Points, NEW y \in Points, NEW z \in Points
               PROVE  /\ D(x, y, z) \in Int /\ D(z, y, x) = -D(x, y, z)
                      /\ D(y, x, z) = -D(x, y, z) /\ D(x, z, y) = -D(x, y, z)
    OBVIOUS
  <2>1. /\ x[1] \in Int /\ x[2] \in Int /\ x[3] \in Int /\ y[1] \in Int /\ y[2] \in Int
        /\ y[3] \in Int /\ z[1] \in Int /\ z[2] \in Int /\ z[3] \in Int
    BY DEF Points
  <2>2. D(x, y, z) \in Int /\ D(z, y, x) = -D(x, y, z)
    BY <2>1 DEF Prep!Determinant
  <2>3. D(y, x, z) = -D(x, y, z)
    BY <2>1 DEF Prep!Determinant
  <2>4. D(x, z, y) = -D(x, y, z)
    BY <2>1 DEF Prep!Determinant
  <2> QED
    BY <2>2, <2>3, <2>4
<1> HIDE DEF D
<1>3. \A x, y \in Points : D(x, x, y) = 0 /\ D(x, y, x) = 0 /\ D(y, x, x) = 0
  BY <1>2
<1>4. p # q
  BY <1>1, <1>2, <1>3
<1>5. p # r
  BY <1>1, <1>2, <1>3
<1>6. p # s
  BY <1>1, <1>2, <1>3
<1>7. q # r
  BY <1>1, <1>2, <1>3
<1>8. q # s
  BY <1>1, <1>2, <1>3
<1>9. r # s
  BY <1>1, <1>2, <1>3
<1> QED
  BY <1>4, <1>5, <1>6, <1>7, <1>8, <1>9

LEMMA HullIsClosed ==
  ASSUME NEW b, IsBody(b), DOMAIN b # {}, ~Prep!IsDegenerate(Prep!Hull(b))
  PROVE  IsBody(Prep!Hull(b)) /\ Prep!IsClosed(Prep!Hull(b))
<1>1. PICK p, q, r, s \in Points : Prep!Hull(b) = FourFaces(p, q, r, s)
  BY HullIs
<1> DEFINE c == FourFaces(p, q, r, s)
<1>2. /\ IsBody(c) /\ DOMAIN c = 1..4
      /\ c[1] = <<p, q, r>> /\ c[2] = <<p, r, s>> /\ c[3] = <<p, s, q>> /\ c[4] = <<q, s, r>>
  <2>1. IsBody(c)
    BY FourFacesAre
  <2>2. /\ DOMAIN c = 1..4
        /\ c[1] = <<p, q, r>> /\ c[2] = <<p, r, s>> /\ c[3] = <<p, s, q>> /\ c[4] = <<q, s, r>>
    BY DEF FourFaces
  <2> HIDE DEF c
  <2> QED
    BY <2>1, <2>2
<1>3. p # q /\ p # r /\ p # s /\ q # r /\ q # s /\ r # s
  BY <1>1, CornersApart DEF Prep!IsDegenerate
<1> HIDE DEF c
<1>4. Prep!Next3(1) = 2 /\ Prep!Next3(2) = 3 /\ Prep!Next3(3) = 1
  BY DEF Prep!Next3
<1>5. Prep!Uses(c) = {<<1, 1>>, <<1, 2>>, <<1, 3>>, <<2, 1>>, <<2, 2>>, <<2, 3>>,
                 <<3, 1>>, <<3, 2>>, <<3, 3>>, <<4, 1>>, <<4, 2>>, <<4, 3>>}
  <2>1. 1..4 = {1, 2, 3, 4} /\ 1..3 = {1, 2, 3}
    OBVIOUS
  <2> QED
    BY <1>2, <2>1 DEF Prep!Uses
<1>6. /\ Prep!Edge(c, <<1, 1>>) = <<p, q>> /\ Prep!Edge(c, <<1, 2>>) = <<q, r>> /\ Prep!Edge(c, <<1, 3>>) = <<r, p>>
      /\ Prep!Edge(c, <<2, 1>>) = <<p, r>> /\ Prep!Edge(c, <<2, 2>>) = <<r, s>> /\ Prep!Edge(c, <<2, 3>>) = <<s, p>>
      /\ Prep!Edge(c, <<3, 1>>) = <<p, s>> /\ Prep!Edge(c, <<3, 2>>) = <<s, q>> /\ Prep!Edge(c, <<3, 3>>) = <<q, p>>
      /\ Prep!Edge(c, <<4, 1>>) = <<q, s>> /\ Prep!Edge(c, <<4, 2>>) = <<s, r>> /\ Prep!Edge(c, <<4, 3>>) = <<r, q>>
  BY <1>2, <1>4 DEF Prep!Edge
<1> DEFINE Wound(u, v) == Pair(c, u, v) /\ Against(c, u, v)
<1>7. \A x, y : Prep!Opposite(<<x, y>>) = <<y, x>>
  BY DEF Prep!Opposite
<1>8. Wound(<<1, 1>>, <<3, 3>>)
  BY <1>3, <1>5, <1>6, <1>7 DEF Pair, Same, Against
<1>9. Wound(<<1, 2>>, <<4, 3>>)
  BY <1>3, <1>5, <1>6, <1>7 DEF Pair, Same, Against
<1>10. Wound(<<1, 3>>, <<2, 1>>)
  BY <1>3, <1>5, <1>6, <1>7 DEF Pair, Same, Against
<1>11. Wound(<<2, 2>>, <<4, 2>>)
  BY <1>3, <1>5, <1>6, <1>7 DEF Pair, Same, Against
<1>12. Wound(<<2, 3>>, <<3, 1>>)
  BY <1>3, <1>5, <1>6, <1>7 DEF Pair, Same, Against
<1>13. Wound(<<3, 2>>, <<4, 1>>)
  BY <1>3, <1>5, <1>6, <1>7 DEF Pair, Same, Against
<1>14. \A u, v : Wound(u, v) => Wound(v, u)
  BY PairBack, SameIs
<1> HIDE DEF Wound
<1>15. \A u \in Prep!Uses(c) : \E v : Wound(u, v)
  BY <1>5, <1>8, <1>9, <1>10, <1>11, <1>12, <1>13, <1>14
<1>16. Prep!Watertight(c)
  BY <1>2, <1>15, WatertightIs DEF Wound
<1>17. ASSUME NEW u \in Prep!Uses(c), NEW v \in Prep!Uses(c), Pair(c, u, v)
       PROVE  Against(c, u, v)
  <2>1. PICK w : Pair(c, u, w) /\ Against(c, u, w)
    BY <1>15 DEF Wound
  <2>2. w = v
    BY <1>17, <2>1 DEF Pair
  <2> QED
    BY <2>1, <2>2
<1>18. Prep!Winding(c)
  BY <1>2, <1>17, WindingIs
<1> QED
  BY <1>1, <1>2, <1>16, <1>18 DEF Prep!IsClosed, c

-----------------------------------------------------------------------------
(***************************************************************************)
(* prepare_mesh.                                                           *)
(***************************************************************************)
Found(faces) == {b \in Prep!SplitBodies(Prep!MergePositions(faces)) : ~Prep!IsDegenerate(b)}
KeptOf(faces, hulled) ==
  IF hulled THEN {b \in {Prep!Hull(c) : c \in Found(faces)} : ~Prep!IsDegenerate(b)} ELSE Found(faces)
FixedOf(faces, hulled) == {Prep!FixNormals(b) : b \in KeptOf(faces, hulled)}
ClosedOf(faces, hulled) == {b \in FixedOf(faces, hulled) : Prep!IsClosed(b)}
FacesOf(b) == [i \in DOMAIN b |-> Prep!Range(b[i])]

\* What is told of a mesh that was prepared is so.
IsSound(faces, o, p) ==
  /\ (p.mesh = "raw") = (p.report.action \in {"unchanged", "skipped", "disabled"})
  /\ p.mesh = "raw" /\ p.report.overlapping => p.report.warned
  /\ p.mesh = "union" => \A b \in p.bodies : Prep!IsClosed(b) /\ Prep!Volume(b) >= 0
  /\ p.mesh # "hulls" /\ ~o.hull =>
       {FacesOf(b) : b \in p.bodies} = {FacesOf(b) : b \in Found(faces)}
  /\ ~o.hull /\ p.report.n_closed + p.report.n_open > 0 =>
       p.report.n_open = Cardinality({b \in Found(faces) : ~Prep!CanBeClosed(b)})
  /\ o.hull /\ p.report.convex_hull => p.report.n_open = 0

LEMMA FoundAre ==
  ASSUME NEW faces, IsMesh(faces)
  PROVE  \A b \in Found(faces) : IsBody(b) /\ DOMAIN b # {}
<1> DEFINE m == Prep!MergePositions(faces)
<1>1. IsBody(m) /\ DOMAIN m = 1..Len(faces) /\ Len(faces) \in Nat
  BY MergedIsBody DEF IsMesh
<1> HIDE DEF m
<1>2. \A b \in Prep!SplitBodies(m) : IsBody(b)
  BY <1>1, BodiesAre
<1>3. ASSUME NEW b \in Found(faces) PROVE IsBody(b) /\ DOMAIN b # {}
  <2>1. b \in Prep!SplitBodies(m) /\ ~(Cardinality(DOMAIN b) < 4)
    BY CardinalityIs DEF Found, m, Prep!IsDegenerate, Prep!MinFaces
  <2>2. DOMAIN b = {} => Cardinality(DOMAIN b) = 0
    BY FS_EmptySet
  <2>3. DOMAIN b # {}
    BY <2>1, <2>2, SMTT(30)
  <2> QED
    BY <1>2, <2>1, <2>3
<1> QED
  BY <1>3

LEMMA KeptAre ==
  ASSUME NEW faces, IsMesh(faces), NEW hulled
  PROVE  \A b \in KeptOf(faces, hulled) : IsBody(b) /\ (hulled => Prep!CanBeClosed(b))
<1>1. CASE hulled
  <2> SUFFICES ASSUME NEW b \in KeptOf(faces, hulled) PROVE IsBody(b) /\ Prep!CanBeClosed(b)
    OBVIOUS
  <2>1. PICK c \in Found(faces) : b = Prep!Hull(c) /\ ~Prep!IsDegenerate(Prep!Hull(c))
    BY <1>1 DEF KeptOf
  <2>2. IsBody(b) /\ Prep!IsClosed(b)
    BY <2>1, FoundAre, HullIsClosed
  <2>3. Coherent(b, {}) /\ {} \in SUBSET DOMAIN b
    BY <2>2, TurnedNone, TurnedIsWound DEF Prep!IsClosed
  <2>4. Windable(b)
    BY <2>2, <2>3 DEF Windable, Prep!IsClosed
  <2> QED
    BY <2>2, <2>4, WindableIs
<1>2. CASE ~hulled
  BY <1>2, FoundAre DEF KeptOf
<1> QED
  BY <1>1, <1>2

LEMMA FixedAre ==
  ASSUME NEW faces, IsMesh(faces), NEW hulled \in BOOLEAN
  PROVE  /\ \A b \in ClosedOf(faces, hulled) : Prep!IsClosed(b) /\ Prep!Volume(b) >= 0
         /\ ~hulled => {FacesOf(b) : b \in FixedOf(faces, hulled)} = {FacesOf(b) : b \in Found(faces)}
         /\ ~hulled => Cardinality(FixedOf(faces, hulled) \ ClosedOf(faces, hulled))
                         = Cardinality({b \in Found(faces) : ~Prep!CanBeClosed(b)})
         /\ hulled => Cardinality(FixedOf(faces, hulled) \ ClosedOf(faces, hulled)) = 0
<1> DEFINE kept == KeptOf(faces, hulled)
           fixed == FixedOf(faces, hulled)
           closed == ClosedOf(faces, hulled)
<1>1. fixed = {Prep!FixNormals(b) : b \in kept} /\ closed = {b \in fixed : Prep!IsClosed(b)}
  BY DEF FixedOf, ClosedOf
<1>2. \A b \in kept : IsBody(b) /\ (hulled => Prep!CanBeClosed(b))
  BY KeptAre
<1>3. ~hulled => kept = Found(faces)
  BY DEF KeptOf
<1> HIDE DEF kept, fixed, closed
<1>4. \A b \in kept : /\ Prep!IsClosed(Prep!FixNormals(b)) <=> Prep!CanBeClosed(b)
                      /\ Prep!IsClosed(Prep!FixNormals(b)) => Prep!Volume(Prep!FixNormals(b)) >= 0
                      /\ FacesOf(Prep!FixNormals(b)) = FacesOf(b)
  BY <1>2, FixedIs DEF FacesOf
<1>5. \A b \in closed : Prep!IsClosed(b) /\ Prep!Volume(b) >= 0
  BY <1>1, <1>4
<1>6. ASSUME ~hulled
      PROVE  {FacesOf(b) : b \in fixed} = {FacesOf(b) : b \in Found(faces)}
  <2>1. {FacesOf(b) : b \in fixed} = {FacesOf(b) : b \in kept}
    BY <1>1, <1>4
  <2> QED
    BY <1>3, <1>6, <2>1
<1>7. ASSUME ~hulled
      PROVE  Cardinality(fixed \ closed) = Cardinality({b \in Found(faces) : ~Prep!CanBeClosed(b)})
  <2> DEFINE m == Prep!MergePositions(faces)
  <2>1. IsBody(m) /\ DOMAIN m = 1..Len(faces) /\ Len(faces) \in Nat
    BY MergedIsBody DEF IsMesh
  <2>2. Found(faces) \in SUBSET Prep!SplitBodies(m)
    BY DEF Found
  <2> HIDE DEF m
  <2>3. fixed = {Prep!FixNormals(b) : b \in Found(faces)}
    BY <1>1, <1>3, <1>7
  <2> QED
    BY <1>1, <2>1, <2>2, <2>3, OpenAre
<1>8. ASSUME hulled
      PROVE  Cardinality(fixed \ closed) = 0
  <2>1. fixed \ closed = {}
    BY <1>1, <1>2, <1>4, <1>8
  <2> QED
    BY <2>1, FS_EmptySet
<1> QED
  BY <1>5, <1>6, <1>7, <1>8 DEF fixed, closed

(***************************************************************************)
(* Whatever happens outside, what prepare_mesh hands out is sound.         *)
(***************************************************************************)
LEMMA PrepareIsSound ==
  ASSUME NEW faces, IsMesh(faces), NEW o \in Prep!Options, NEW env
  PROVE  IsSound(faces, o, Prep!Prepare(faces, o, env))
<1> DEFINE found == Found(faces)
           hulled == o.hull /\ env.hulls /\ found # {}
           kept == KeptOf(faces, hulled)
           fixed == FixedOf(faces, hulled)
           closed == ClosedOf(faces, hulled)
           overlapping == Prep!AnyOverlap(fixed, env.inside)
           counts == [n_closed |-> Cardinality(closed), n_open |-> Cardinality(fixed \ closed),
                      overlapping |-> overlapping]
           nothing == [n_closed |-> 0, n_open |-> 0, overlapping |-> FALSE]
           Told(action, seen) ==
             [action |-> action, n_bodies |-> Cardinality(kept), n_closed |-> seen.n_closed,
              n_open |-> seen.n_open, overlapping |-> seen.overlapping, convex_hull |-> hulled,
              warned |-> action = "skipped" \/ (o.hull /\ ~env.hulls /\ found # {})]
           Packs(what, told) == [mesh |-> what, bodies |-> fixed, report |-> told]
           Keep(counted) == IF hulled /\ kept # {} THEN Packs("hulls", Told("hulled", counted))
                            ELSE Packs("raw", Told("unchanged", counted))
           p == Prep!Prepare(faces, o, env)
<1>1. o.hull \in BOOLEAN /\ o.union \in BOOLEAN
  BY DEF Prep!Options
<1>2. p = CASE ~o.union /\ ~o.hull -> Packs("raw", Told("disabled", nothing))
            [] o # [union |-> FALSE, hull |-> FALSE] /\ env.panics ->
                 Packs("raw", [Told("skipped", nothing) EXCEPT !.convex_hull = FALSE])
            [] OTHER ->
                 IF ~o.union \/ Cardinality(kept) <= 1 THEN Keep(nothing)
                 ELSE IF ~overlapping THEN Keep(counts)
                 ELSE IF closed # fixed \/ ~env.unites THEN Packs("raw", Told("skipped", counts))
                 ELSE IF env.watertight /\ Prep!SaneVolume(fixed, Prep!Volumes(fixed, env.volume))
                      THEN Packs("union", Told("unioned", counts))
                      ELSE Packs("raw", Told("skipped", counts))
  BY CardinalityIs, ZenonT(60) DEF Prep!Prepare, Found, KeptOf, FixedOf, ClosedOf
<1>3. hulled \in BOOLEAN /\ (~o.hull => ~hulled) /\ overlapping \in BOOLEAN
  BY DEF Prep!AnyOverlap
<1>4. ~o.union /\ ~o.hull => o = [union |-> FALSE, hull |-> FALSE]
  BY DEF Prep!Options
<1> HIDE DEF found, hulled, kept, fixed, closed, overlapping, p
<1>5. \/ p = Packs("raw", Told("disabled", nothing)) /\ ~o.hull
      \/ p = Packs("raw", [Told("skipped", nothing) EXCEPT !.convex_hull = FALSE])
      \/ p = Keep(nothing)
      \/ p = Keep(counts) /\ ~overlapping
      \/ p = Packs("raw", Told("skipped", counts))
      \/ p = Packs("union", Told("unioned", counts)) /\ closed = fixed
  <2> HIDE DEF Packs, Told, Keep, counts, nothing
  <2>1. CASE ~o.union /\ ~o.hull
    BY <1>2, <1>4, <2>1
  <2>2. CASE o # [union |-> FALSE, hull |-> FALSE] /\ env.panics
    BY <1>2, <1>4, <2>2
  <2>3. CASE ~(~o.union /\ ~o.hull) /\ ~(o # [union |-> FALSE, hull |-> FALSE] /\ env.panics)
    BY <1>2, <2>3
  <2> QED
    BY <2>1, <2>2, <2>3
<1>6. /\ \A b \in closed : Prep!IsClosed(b) /\ Prep!Volume(b) >= 0
      /\ ~hulled => {FacesOf(b) : b \in fixed} = {FacesOf(b) : b \in found}
      /\ ~hulled => counts.n_open = Cardinality({b \in found : ~Prep!CanBeClosed(b)})
      /\ hulled => counts.n_open = 0
  BY <1>3, FixedAre DEF found, fixed, closed
<1>7. /\ counts.overlapping = overlapping
      /\ nothing.n_open = 0 /\ nothing.n_closed = 0 /\ nothing.overlapping = FALSE
  OBVIOUS
<1>8. p.bodies = fixed
  BY <1>5
<1>9. (p.mesh = "raw") = (p.report.action \in {"unchanged", "skipped", "disabled"})
  BY <1>5
<1>10. p.mesh = "raw" /\ p.report.overlapping => p.report.warned
  BY <1>3, <1>5
<1>11. p.mesh = "union" => \A b \in p.bodies : Prep!IsClosed(b) /\ Prep!Volume(b) >= 0
  BY <1>5, <1>6
<1>12. ~o.hull => {FacesOf(b) : b \in p.bodies} = {FacesOf(b) : b \in found}
  BY <1>3, <1>6, <1>8
<1>13. /\ p.report.n_closed = 0 /\ p.report.n_open = 0
       \/ p.report.n_open = counts.n_open
  BY <1>5
<1>14. p.report.convex_hull => hulled
  BY <1>5, <1>3
<1> HIDE DEF counts, nothing
<1>15. ~o.hull /\ p.report.n_closed + p.report.n_open > 0 =>
         p.report.n_open = Cardinality({b \in found : ~Prep!CanBeClosed(b)})
  BY <1>3, <1>6, <1>13
<1>16. o.hull /\ p.report.convex_hull => p.report.n_open = 0
  BY <1>6, <1>13, <1>14
<1>17. IsSound(faces, o, p)
  BY <1>9, <1>10, <1>11, <1>12, <1>15, <1>16 DEF IsSound, found
<1> QED
  BY <1>17 DEF p
-----------------------------------------------------------------------------
(***************************************************************************)
(* Whatever was prepared is what prepare_mesh makes of the mesh.           *)
(***************************************************************************)
MeshInv ==
  topic = "mesh" =>
    /\ mesh \in Meshes
    /\ \A o \in DOMAIN prepared : o \in Prep!Options /\ IsSound(mesh, o, prepared[o])

LEMMA MeshInvHolds == LibrarySpec => []MeshInv
<1>1. LibraryInit => MeshInv
  BY DEF LibraryInit, Prep!Init, MeshInv
<1>2. ASSUME MeshInv, [LibraryNext]_<<topic, vars, configVars, prepVars, robot>>
      PROVE  MeshInv'
  <2>1. CASE UNCHANGED <<topic, mesh, prepared>>
    BY <1>2, <2>1 DEF MeshInv, IsSound
  <2>2. ASSUME topic = "mesh", PrepNext, UNCHANGED topic
        PROVE  MeshInv'
    <3>1. PICK o \in Prep!Options, env \in Environments : Prep!PreparedWith(o, env)
      BY <2>2 DEF PrepNext
    <3>2. /\ mesh' = mesh
          /\ prepared' = [d \in DOMAIN prepared \cup {o} |->
                            IF d = o THEN Prep!Prepare(mesh, o, env) ELSE prepared[d]]
      BY <3>1 DEF Prep!PreparedWith
    <3>3. mesh \in Meshes /\ \A d \in DOMAIN prepared : d \in Prep!Options /\ IsSound(mesh, d, prepared[d])
      BY <1>2, <2>2 DEF MeshInv
    <3>4. IsMesh(mesh)
      BY <3>3, LibraryAssumption
    <3>5. IsSound(mesh, o, Prep!Prepare(mesh, o, env))
      BY <3>4, PrepareIsSound
    <3>6. \A d \in DOMAIN prepared' : d \in Prep!Options /\ IsSound(mesh, d, prepared'[d])
      BY <3>2, <3>3, <3>5
    <3> QED
      BY <3>2, <3>3, <3>6, ZenonT(60) DEF MeshInv, IsSound
  <2> QED
    BY <1>2, <2>1, <2>2 DEF LibraryNext, prepVars
<1> QED
  BY <1>1, <1>2, PTL DEF LibrarySpec

(***************************************************************************)
(* The mesh that prepare_mesh hands out can be trusted: of whatever mesh,  *)
(* with whatever options, and whatever the hulls, the inside test and the  *)
(* boolean union make of it, what is united are closed bodies that are not *)
(* wound inward, a raw mesh that is known to overlap is warned about, and  *)
(* a body is open only if no turning of its faces closes it.               *)
(***************************************************************************)
THEOREM PreparedMeshIsAlwaysSound == LibrarySpec => []PreparedMeshIsSound
<1>1. MeshInv => PreparedMeshIsSound
  <2> SUFFICES ASSUME topic = "mesh", MeshInv PROVE Prep!PreparedMeshIsSound
    BY DEF PreparedMeshIsSound
  <2>1. \A o \in DOMAIN prepared : IsSound(mesh, o, prepared[o])
    BY DEF MeshInv
  <2> QED
    BY <2>1, CardinalityIs DEF Prep!PreparedMeshIsSound, IsSound, Found, FacesOf
<1> QED
  BY <1>1, MeshInvHolds, PTL
=============================================================================
