------------------------------ MODULE SumLemmas ------------------------------
(***************************************************************************)
(* Sums over finite sets, as MapThenSumSet defines them: a recursion over  *)
(* the subsets that removes one chosen element after the other.  The value *)
(* does not depend on what is chosen.  The library's induction theorems    *)
(* take an operator as a parameter; here a minimal counterexample, a set   *)
(* of sets, takes the place of the induction.                              *)
(***************************************************************************)
EXTENDS Integers, FiniteSets, FiniteSetsExt, FiniteSetTheorems, WellFoundedInduction, TLAPS

SumOf(f, S) == MapThenSumSet(LAMBDA x : f[x], S)

Chosen(S) == CHOOSE x \in S : TRUE

\* The function that the definition of MapThenFoldSet chooses.
Sums(f, S, it) ==
  it = [s \in SUBSET S |-> IF s = {} THEN 0 ELSE f[Chosen(s)] + it[s \ {Chosen(s)}]]

TheSums(f, S) == CHOOSE it : Sums(f, S, it)

LEMMA SumOfIsTheSums == ASSUME NEW f, NEW S PROVE SumOf(f, S) = TheSums(f, S)[S]
BY DEF SumOf, MapThenSumSet, MapThenFoldSet, TheSums, Sums, Chosen

\* A non-empty set of subsets of a finite set has a minimal element.
LEMMA MinimalSubset ==
  ASSUME NEW S, IsFiniteSet(S), NEW T, T \subseteq SUBSET S, T # {}
  PROVE  \E X \in T : \A Y \in T : Y \subseteq X => Y = X
<1>1. T \subseteq FiniteSubsetsOf(S)
  BY FS_FiniteSubsetsOfFinite
<1>2. PICK X \in T : \A Y \in T : ~ (<<Y, X>> \in StrictSubsetOrdering(S))
  BY <1>1, WFMin, FS_StrictSubsetOrderingWellFounded
<1>3. ASSUME NEW Y \in T, Y \subseteq X, Y # X PROVE FALSE
  BY <1>2, <1>3 DEF StrictSubsetOrdering
<1> QED BY <1>3

LEMMA ChosenIsIn == ASSUME NEW S, S # {} PROVE Chosen(S) \in S
BY DEF Chosen

\* Two such functions agree wherever both are defined.
LEMMA SumsAgree ==
  ASSUME NEW f, NEW S, IsFiniteSet(S), NEW R, NEW a, NEW b, Sums(f, S, a), Sums(f, R, b),
         S \subseteq R
  PROVE  a[S] = b[S]
<1> DEFINE T == {X \in SUBSET S : a[X] # b[X]}
<1>1. CASE T = {}
  BY <1>1
<1>2. CASE T # {}
  <2>0. T \subseteq SUBSET S
    OBVIOUS
  <2>1. PICK X \in T : \A Y \in T : Y \subseteq X => Y = X
    <3> HIDE DEF T
    <3> QED BY <1>2, <2>0, MinimalSubset
  <2>2. X \subseteq S /\ X \subseteq R /\ a[X] # b[X]
    BY <2>1
  <2>3. X # {}
    BY <2>2 DEF Sums
  <2>4. Chosen(X) \in X
    BY <2>3, ChosenIsIn
  <2>5. a[X \ {Chosen(X)}] = b[X \ {Chosen(X)}]
    BY <2>1, <2>2, <2>4
  <2>6. /\ a[X] = f[Chosen(X)] + a[X \ {Chosen(X)}]
        /\ b[X] = f[Chosen(X)] + b[X \ {Chosen(X)}]
    BY <2>2, <2>3 DEF Sums
  <2> QED BY <2>2, <2>5, <2>6
<1> QED BY <1>1, <1>2

\* The recursion defines a function on the subsets of every finite set.
LEMMA SumsExist ==
  ASSUME NEW f, NEW S, IsFiniteSet(S)
  PROVE  \E it : Sums(f, S, it)
<1> DEFINE T == {X \in SUBSET S : ~ \E it : Sums(f, X, it)}
<1>1. CASE T = {}
  BY <1>1
<1>2. CASE T # {}
  <2>0. T \subseteq SUBSET S
    OBVIOUS
  <2>1. PICK X \in T : \A Y \in T : Y \subseteq X => Y = X
    <3> HIDE DEF T
    <3> QED BY <1>2, <2>0, MinimalSubset
  <2>2. \A Y \in SUBSET X : Y # X => \E it : Sums(f, Y, it)
    BY <2>1
  <2> DEFINE V(Y) == TheSums(f, Y)[Y]
             it == [s \in SUBSET X |-> IF s = {} THEN 0
                                       ELSE f[Chosen(s)] + V(s \ {Chosen(s)})]
  <2>3. \A Y \in SUBSET X : Y # X => Sums(f, Y, TheSums(f, Y))
    BY <2>2 DEF TheSums
  <2>4. ASSUME NEW Y \in SUBSET X, Y # X PROVE it[Y] = V(Y)
    <3>1. Sums(f, Y, TheSums(f, Y))
      BY <2>3, <2>4
    <3>2. CASE Y = {}
      BY <3>1, <3>2 DEF Sums
    <3>3. CASE Y # {}
      <4> DEFINE Z == Y \ {Chosen(Y)}
      <4>1. V(Y) = f[Chosen(Y)] + TheSums(f, Y)[Z]
        BY <3>1, <3>3 DEF Sums
      <4>2. Z \in SUBSET X /\ Z # X /\ Z \subseteq Y /\ IsFiniteSet(Z)
        BY <2>4, <3>3, ChosenIsIn, FS_Subset
      <4>3. Sums(f, Z, TheSums(f, Z))
        BY <2>3, <4>2
      <4>4. TheSums(f, Z)[Z] = TheSums(f, Y)[Z]
        BY <3>1, <4>2, <4>3, SumsAgree
      <4>5. it[Y] = f[Chosen(Y)] + V(Z)
        BY <3>3
      <4> QED BY <4>1, <4>4, <4>5
    <3> QED BY <3>2, <3>3
  <2>5. ASSUME NEW s \in SUBSET X
        PROVE  it[s] = IF s = {} THEN 0 ELSE f[Chosen(s)] + it[s \ {Chosen(s)}]
    <3>1. CASE s = {}
      BY <3>1
    <3>2. CASE s # {}
      <4>1. s \ {Chosen(s)} \in SUBSET X /\ s \ {Chosen(s)} # X
        BY <3>2, ChosenIsIn
      <4>2. it[s \ {Chosen(s)}] = V(s \ {Chosen(s)})
        BY <2>4, <4>1
      <4>3. it[s] = f[Chosen(s)] + V(s \ {Chosen(s)})
        BY <3>2
      <4> QED BY <3>2, <4>2, <4>3
    <3> QED BY <3>1, <3>2
  <2>6. Sums(f, X, it)
    BY <2>5 DEF Sums
  <2> QED BY <2>1, <2>6
<1> QED BY <1>1, <1>2

-----------------------------------------------------------------------------
(* What the proofs about the components use. *)

LEMMA SumOfEmpty == ASSUME NEW f PROVE SumOf(f, {}) = 0
<1>1. Sums(f, {}, TheSums(f, {}))
  BY SumsExist, FS_EmptySet DEF TheSums
<1> QED BY <1>1, SumOfIsTheSums DEF Sums

LEMMA SumOfChosen ==
  ASSUME NEW f, NEW S, IsFiniteSet(S), S # {}
  PROVE  SumOf(f, S) = f[Chosen(S)] + SumOf(f, S \ {Chosen(S)})
<1> DEFINE R == S \ {Chosen(S)}
<1>1. Sums(f, S, TheSums(f, S))
  BY SumsExist DEF TheSums
<1>2. IsFiniteSet(R) /\ R \subseteq S
  BY FS_Subset
<1>3. Sums(f, R, TheSums(f, R))
  BY <1>2, SumsExist DEF TheSums
<1>4. TheSums(f, R)[R] = TheSums(f, S)[R]
  BY <1>1, <1>2, <1>3, SumsAgree
<1>5. TheSums(f, S)[S] = f[Chosen(S)] + TheSums(f, S)[R]
  BY <1>1 DEF Sums
<1> QED BY <1>4, <1>5, SumOfIsTheSums

\* A sum of integers is an integer.
LEMMA SumOfType ==
  ASSUME NEW f, NEW S, IsFiniteSet(S), \A x \in S : f[x] \in Int
  PROVE  SumOf(f, S) \in Int
<1> DEFINE T == {X \in SUBSET S : SumOf(f, X) \notin Int}
<1>1. CASE T = {}
  BY <1>1
<1>2. CASE T # {}
  <2>0. T \subseteq SUBSET S
    OBVIOUS
  <2>1. PICK X \in T : \A Y \in T : Y \subseteq X => Y = X
    <3> HIDE DEF T
    <3> QED BY <1>2, <2>0, MinimalSubset
  <2>2. X \subseteq S /\ IsFiniteSet(X) /\ SumOf(f, X) \notin Int
    BY <2>1, FS_Subset
  <2>3. X # {}
    BY <2>2, SumOfEmpty
  <2>4. Chosen(X) \in X
    BY <2>3, ChosenIsIn
  <2>5. SumOf(f, X \ {Chosen(X)}) \in Int
    BY <2>1, <2>2, <2>4
  <2> QED BY <2>2, <2>3, <2>4, <2>5, SumOfChosen
<1> QED BY <1>1, <1>2

\* Any element may be taken out first.
LEMMA SumOfWithout ==
  ASSUME NEW f, NEW S, IsFiniteSet(S), \A x \in S : f[x] \in Int, NEW e \in S
  PROVE  SumOf(f, S) = f[e] + SumOf(f, S \ {e})
<1> DEFINE Bad(X) == \E x \in X : SumOf(f, X) # f[x] + SumOf(f, X \ {x})
           T == {X \in SUBSET S : Bad(X)}
<1>1. CASE T = {}
  BY <1>1
<1>2. CASE T # {}
  <2>0. T \subseteq SUBSET S
    OBVIOUS
  <2>1. PICK X \in T : \A Y \in T : Y \subseteq X => Y = X
    <3> HIDE DEF T
    <3> QED BY <1>2, <2>0, MinimalSubset
  <2>2. X \subseteq S /\ IsFiniteSet(X)
    BY <2>1, FS_Subset
  <2>3. PICK x \in X : SumOf(f, X) # f[x] + SumOf(f, X \ {x})
    BY <2>1
  <2> DEFINE p == Chosen(X)
             Y == X \ {p}
             Z == X \ {x}
  <2>4. p \in X /\ SumOf(f, X) = f[p] + SumOf(f, Y)
    BY <2>2, <2>3, ChosenIsIn, SumOfChosen
  <2>5. x # p
    BY <2>3, <2>4
  <2>6. SumOf(f, Y) = f[x] + SumOf(f, Y \ {x})
    BY <2>1, <2>2, <2>4, <2>5
  <2>7. SumOf(f, Z) = f[p] + SumOf(f, Z \ {p})
    BY <2>1, <2>2, <2>3, <2>4, <2>5
  <2>8. SumOf(f, Y \ {x}) = SumOf(f, Z \ {p})
    <3>1. Y \ {x} = Z \ {p}
      OBVIOUS
    <3> HIDE DEF Y, Z, p
    <3> QED BY <3>1, Zenon
  <2>9. IsFiniteSet(Y \ {x}) /\ Y \ {x} \subseteq S
    BY <2>2, FS_Subset
  <2>10. SumOf(f, Y \ {x}) \in Int /\ f[x] \in Int /\ f[p] \in Int
    BY <2>2, <2>4, <2>9, SumOfType
  <2> HIDE DEF Y, Z, p
  <2>11. SumOf(f, X) = f[x] + SumOf(f, Z)
    BY <2>4, <2>6, <2>7, <2>8, <2>10
  <2> QED BY <2>3, <2>11 DEF Z
<1> QED BY <1>1, <1>2

\* What is summed matters on the set alone.
LEMMA SumsExtensional ==
  ASSUME NEW f, NEW g, NEW S, \A x \in S : f[x] = g[x], NEW it, Sums(f, S, it)
  PROVE  Sums(g, S, it)
<1>1. ASSUME NEW s \in SUBSET S
      PROVE  it[s] = IF s = {} THEN 0 ELSE g[Chosen(s)] + it[s \ {Chosen(s)}]
  <2>1. it[s] = IF s = {} THEN 0 ELSE f[Chosen(s)] + it[s \ {Chosen(s)}]
    BY DEF Sums
  <2> QED BY <2>1, ChosenIsIn
<1>2. it = [s \in SUBSET S |-> it[s]]
  BY DEF Sums
<1>3. it = [s \in SUBSET S |-> IF s = {} THEN 0 ELSE g[Chosen(s)] + it[s \ {Chosen(s)}]]
  BY <1>1, <1>2
<1> QED BY <1>3 DEF Sums

LEMMA SumOfSame ==
  ASSUME NEW S, IsFiniteSet(S), NEW f, NEW g, \A x \in S : f[x] = g[x]
  PROVE  SumOf(f, S) = SumOf(g, S)
<1>1. Sums(f, S, TheSums(f, S)) /\ Sums(g, S, TheSums(g, S)) BY SumsExist DEF TheSums
<1>2. Sums(g, S, TheSums(f, S)) BY <1>1, SumsExtensional
<1>3. TheSums(f, S)[S] = TheSums(g, S)[S] BY <1>1, <1>2, SumsAgree
<1> QED BY <1>3, SumOfIsTheSums

\* Any function of the recursion gives the sum.
LEMMA SumsGiveTheSum ==
  ASSUME NEW S, IsFiniteSet(S), NEW f, NEW it, Sums(f, S, it)
  PROVE  it[S] = SumOf(f, S)
<1>1. Sums(f, S, TheSums(f, S)) BY SumsExist DEF TheSums
<1> QED BY <1>1, SumsAgree, SumOfIsTheSums

\* Sums whose terms correspond one to one are the same.
LEMMA SumOfImage ==
  ASSUME NEW S, IsFiniteSet(S), NEW f, NEW g, NEW h,
         \A x \in S : f[x] \in Int /\ g[h[x]] = f[x],
         \A x, y \in S : h[x] = h[y] => x = y
  PROVE  SumOf(f, S) = SumOf(g, {h[x] : x \in S})
<1> DEFINE Image(X) == {h[x] : x \in X}
           T == {X \in SUBSET S : SumOf(f, X) # SumOf(g, Image(X))}
<1>1. CASE T = {} BY <1>1
<1>2. CASE T # {}
  <2>0. T \subseteq SUBSET S OBVIOUS
  <2>1. PICK X \in T : \A Y \in T : Y \subseteq X => Y = X
    <3> HIDE DEF T
    <3> QED BY <1>2, <2>0, MinimalSubset
  <2>2. X \subseteq S /\ IsFiniteSet(X) /\ SumOf(f, X) # SumOf(g, Image(X))
    BY <2>1, FS_Subset
  <2>3. X # {}
    <3>1. Image({}) = {} OBVIOUS
    <3> HIDE DEF Image
    <3> QED BY <2>2, <3>1, SumOfEmpty
  <2>4. PICK p \in X : TRUE BY <2>3
  <2> DEFINE Y == X \ {p}
             I == Image(X)
  <2>5. SumOf(f, Y) = SumOf(g, Image(Y)) BY <2>1, <2>2, <2>4
  <2>6. SumOf(f, X) = f[p] + SumOf(f, Y) BY <2>2, SumOfWithout
  <2>7. IsFiniteSet(I)
    <3> DEFINE F == [x \in X |-> h[x]]
    <3>1. F \in Surjection(X, I) BY DEF Surjection
    <3> HIDE DEF F, I
    <3> QED BY <2>2, <3>1, FS_Surjection
  <2>8. (\A y \in I : g[y] \in Int) /\ h[p] \in I BY <2>2
  <2>9. I \ {h[p]} = Image(Y) BY <2>2
  <2>10. SumOf(g, I) = g[h[p]] + SumOf(g, I \ {h[p]})
    <3> HIDE DEF I
    <3> QED BY <2>7, <2>8, SumOfWithout
  <2>11. SumOf(g, I \ {h[p]}) = SumOf(g, Image(Y))
    <3> HIDE DEF I, Image
    <3> QED BY <2>9, Zenon
  <2>12. g[h[p]] = f[p] BY <2>2
  <2> HIDE DEF Image, Y
  <2> QED BY <2>2, <2>5, <2>6, <2>10, <2>11, <2>12 DEF I
<1> QED BY <1>1, <1>2

\* A sum of naturals over fewer elements is no greater.
LEMMA SumOfFewer ==
  ASSUME NEW S, IsFiniteSet(S), NEW f, \A x \in S : f[x] \in Nat, NEW R, R \subseteq S
  PROVE  SumOf(f, R) <= SumOf(f, S)
<1> DEFINE T == {X \in SUBSET S : R \subseteq X /\ ~(SumOf(f, R) <= SumOf(f, X))}
<1>1. CASE T = {} BY <1>1
<1>2. CASE T # {}
  <2>0. T \subseteq SUBSET S OBVIOUS
  <2>1. PICK X \in T : \A Y \in T : Y \subseteq X => Y = X
    <3> HIDE DEF T
    <3> QED BY <1>2, <2>0, MinimalSubset
  <2>2. X \subseteq S /\ IsFiniteSet(X) /\ R \subseteq X /\ ~(SumOf(f, R) <= SumOf(f, X))
    BY <2>1, FS_Subset
  <2>3. SumOf(f, R) \in Int
    <3>1. IsFiniteSet(R) BY FS_Subset
    <3> QED BY <3>1, SumOfType
  <2>4. X # R BY <2>2, <2>3
  <2>5. PICK p \in X : p \notin R BY <2>2, <2>4
  <2> DEFINE Y == X \ {p}
  <2>6. SumOf(f, X) = f[p] + SumOf(f, Y) BY <2>2, <2>5, SumOfWithout
  <2>7. SumOf(f, R) <= SumOf(f, Y) BY <2>1, <2>2, <2>5
  <2>8. SumOf(f, Y) \in Int
    <3>1. IsFiniteSet(Y) /\ Y \subseteq S BY <2>2, FS_Subset
    <3> HIDE DEF Y
    <3> QED BY <3>1, SumOfType
  <2>9. f[p] \in Nat BY <2>2, <2>5
  <2> HIDE DEF Y
  <2> QED BY <2>2, <2>3, <2>6, <2>7, <2>8, <2>9
<1> QED BY <1>1, <1>2

LEMMA ImageIsFinite ==
  ASSUME NEW S, IsFiniteSet(S), NEW h
  PROVE  IsFiniteSet({h[x] : x \in S})
<1> DEFINE I == {h[x] : x \in S}
           H == [x \in S |-> h[x]]
<1>1. H \in Surjection(S, I) BY DEF Surjection
<1> HIDE DEF H, I
<1> QED BY <1>1, FS_Surjection DEF I
=============================================================================
