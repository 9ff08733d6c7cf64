-------------------------------- MODULE Sums --------------------------------
(***************************************************************************)
(* What the proofs know of SumFunction: sums over finite functions.        *)
(*                                                                         *)
(* SumFunction is a fold, a function defined by recursion on the subsets   *)
(* of the domain, that is, a CHOOSE: its equations hold only once such a   *)
(* function is shown to exist (SumExists).  The inductions are over sets   *)
(* of numbers and of subsets (AllNumbers, BySize), so that no lemma takes  *)
(* an operator as a parameter.                                             *)
(***************************************************************************)
EXTENDS Integers, FiniteSets, Functions, FiniteSetTheorems, WellFoundedInduction, TLAPS

\* The element the fold takes out of a set, one round of it, and the fold of f
\* over every subset of its domain; a function with a sum; the subsets of at most
\* n elements.
Pick(s) == CHOOSE x \in s : TRUE
SumStep(f, it, s) == IF s = {} THEN 0 ELSE f[Pick(s)] + it[s \ {Pick(s)}]
SumOf(f) == CHOOSE it : it = [s \in SUBSET DOMAIN f |-> SumStep(f, it, s)]
Summable(D, f) == IsFiniteSet(D) /\ f \in [D -> Int]
Small(D, n) == {s \in SUBSET D : Cardinality(s) <= n}

\* A set of numbers that holds 0 and the successor of each of its members holds all.
LEMMA AllNumbers ==
    ASSUME NEW G, 0 \in G, \A n \in Nat : n \in G => n + 1 \in G
    PROVE  Nat \subseteq G
<1> SUFFICES ASSUME ~(Nat \subseteq G) PROVE FALSE
  OBVIOUS
<1> DEFINE R == {ss \in Nat \X Nat : ss[1] < ss[2]}
           B == Nat \ G
<1>1. IsWellFoundedOn(R, Nat)
  BY NatLessThanWellFounded DEF OpToRel
<1>2. PICK m \in B : \A y \in B : ~ (<<y, m>> \in R)
  <2>1. B \subseteq Nat /\ B # {}
    OBVIOUS
  <2> HIDE DEF R, B
  <2> QED
    BY <1>1, <2>1, WFMin
<1>3. m # 0 /\ m - 1 \in Nat /\ (m - 1) + 1 = m
  OBVIOUS
<1>4. m - 1 \in B
  BY <1>3
<1>5. <<m - 1, m>> \in R
  BY <1>3
<1> QED
  BY <1>2, <1>4, <1>5

\* Picking takes an element; one element less is one size smaller.
LEMMA PickTakes ==
    ASSUME NEW D, IsFiniteSet(D), NEW s \in SUBSET D, s # {}
    PROVE  /\ Pick(s) \in s /\ s \ {Pick(s)} \in SUBSET D
           /\ Cardinality(s) \in Nat \ {0}
           /\ Cardinality(s \ {Pick(s)}) = Cardinality(s) - 1
<1>1. Pick(s) \in s
  BY DEF Pick
<1>2. IsFiniteSet(s)
  BY FS_Subset
<1> QED
  BY <1>1, <1>2, FS_RemoveElement, FS_CardinalityType, FS_EmptySet

\* A set of no size has nothing in it.
LEMMA NoneLeft ==
    ASSUME NEW D, IsFiniteSet(D), NEW s \in SUBSET D, Cardinality(s) <= 0
    PROVE  s = {}
<1>1. s # {} => Cardinality(s) \in Nat \ {0}
  BY PickTakes
<1> QED
  BY <1>1

\* What holds of the empty set, and of a set when it holds of the set without
\* the element picked, holds of every subset.
LEMMA BySize ==
    ASSUME NEW D, IsFiniteSet(D), NEW H, {} \in H,
           \A s \in SUBSET D : s # {} /\ s \ {Pick(s)} \in H => s \in H
    PROVE  SUBSET D \subseteq H
<1> DEFINE G == {n \in Nat : \A s \in SUBSET D : Cardinality(s) = n => s \in H}
<1>1. 0 \in G
  <2> SUFFICES ASSUME NEW s \in SUBSET D, Cardinality(s) = 0 PROVE s \in H
    OBVIOUS
  <2> QED
    BY PickTakes
<1>2. ASSUME NEW n \in Nat, n \in G PROVE n + 1 \in G
  <2> SUFFICES ASSUME NEW s \in SUBSET D, Cardinality(s) = n + 1 PROVE s \in H
    OBVIOUS
  <2>1. s # {}
    BY FS_EmptySet
  <2>2. s \ {Pick(s)} \in SUBSET D /\ Cardinality(s \ {Pick(s)}) = n
    BY <2>1, PickTakes
  <2>3. s \ {Pick(s)} \in H
    BY <1>2, <2>2
  <2> QED
    BY <2>1, <2>3
<1>3. Nat \subseteq G
  <2> HIDE DEF G
  <2> QED
    BY <1>1, <1>2, AllNumbers
<1> SUFFICES ASSUME NEW s \in SUBSET D PROVE s \in H
  OBVIOUS
<1>4. Cardinality(s) \in Nat
  BY FS_Subset, FS_CardinalityType
<1> QED
  BY <1>3, <1>4

\* A function that satisfies the recursion on all subsets exists.
LEMMA SumExists ==
    ASSUME NEW f, IsFiniteSet(DOMAIN f)
    PROVE  \E it : it = [s \in SUBSET DOMAIN f |-> SumStep(f, it, s)]
<1> DEFINE D == DOMAIN f
           G == {n \in Nat : \E it : it = [s \in Small(D, n) |-> SumStep(f, it, s)]}
<1>1. 0 \in G
  <2> DEFINE it == [s \in Small(D, 0) |-> 0]
  <2>1. \A s \in Small(D, 0) : s = {}
    BY NoneLeft DEF Small
  <2>2. it = [s \in Small(D, 0) |-> SumStep(f, it, s)]
    BY <2>1 DEF SumStep
  <2> QED
    BY <2>2
<1>2. ASSUME NEW n \in Nat, n \in G PROVE n + 1 \in G
  <2>1. PICK it : it = [s \in Small(D, n) |-> SumStep(f, it, s)]
    BY <1>2
  <2> DEFINE jt == [s \in Small(D, n + 1) |-> SumStep(f, it, s)]
  <2>2. \A s \in Small(D, n) : s \in Small(D, n + 1) /\ it[s] = jt[s]
    <3>1. ASSUME NEW s \in Small(D, n) PROVE s \in Small(D, n + 1)
      <4>1. Cardinality(s) \in Nat
        BY FS_Subset, FS_CardinalityType DEF Small
      <4> QED
        BY <4>1 DEF Small
    <3>2. ASSUME NEW s \in Small(D, n) PROVE it[s] = SumStep(f, it, s)
      BY <2>1
    <3> QED
      BY <3>1, <3>2
  <2>3. ASSUME NEW s \in Small(D, n + 1) PROVE SumStep(f, it, s) = SumStep(f, jt, s)
    <3>1. CASE s = {}
      BY <3>1 DEF SumStep
    <3>2. CASE s # {}
      <4>1. s \ {Pick(s)} \in Small(D, n)
        BY <3>2, PickTakes DEF Small
      <4>2. it[s \ {Pick(s)}] = jt[s \ {Pick(s)}]
        BY <2>2, <4>1
      <4> HIDE DEF jt
      <4> QED
        BY <4>2 DEF SumStep
    <3> QED
      BY <3>1, <3>2
  <2>4. jt = [s \in Small(D, n + 1) |-> SumStep(f, jt, s)]
    BY <2>3
  <2> HIDE DEF jt
  <2>5. \E kt : kt = [s \in Small(D, n + 1) |-> SumStep(f, kt, s)]
    BY <2>4
  <2> QED
    BY <2>5
<1>3. Nat \subseteq G
  <2> HIDE DEF G
  <2> QED
    BY <1>1, <1>2, AllNumbers
<1>4. Cardinality(D) \in Nat /\ Small(D, Cardinality(D)) = SUBSET D
  <2>1. \A s \in SUBSET D : Cardinality(s) <= Cardinality(D)
    BY FS_Subset
  <2> QED
    BY <2>1, FS_CardinalityType DEF Small
<1> QED
  BY <1>3, <1>4

\* The equations of a sum over the subsets of the domain.
LEMMA SumEquation ==
    ASSUME NEW f, IsFiniteSet(DOMAIN f)
    PROVE  /\ SumFunction(f) = SumOf(f)[DOMAIN f]
           /\ SumOf(f)[{}] = 0
           /\ \A s \in SUBSET DOMAIN f :
                 s # {} => SumOf(f)[s] = f[Pick(s)] + SumOf(f)[s \ {Pick(s)}]
<1>1. SumFunction(f) = SumOf(f)[DOMAIN f]
  BY Zenon DEF SumFunction, SumFunctionOnSet, FoldFunctionOnSet, MapThenFoldSet, SumOf, SumStep, Pick
<1>2. SumOf(f) = [s \in SUBSET DOMAIN f |-> SumStep(f, SumOf(f), s)]
  BY SumExists, Zenon DEF SumOf
<1>3. \A s \in SUBSET DOMAIN f : SumOf(f)[s] = SumStep(f, SumOf(f), s)
  <2> HIDE DEF SumOf
  <2> DEFINE g == SumOf(f)
  <2>1. g = [s \in SUBSET DOMAIN f |-> SumStep(f, g, s)]
    BY <1>2
  <2> HIDE DEF g
  <2>2. \A s \in SUBSET DOMAIN f : g[s] = SumStep(f, g, s)
    BY <2>1
  <2> QED
    BY <2>2 DEF g
<1> QED
  BY <1>1, <1>3 DEF SumStep

\* The same of a function from a finite set, with what there is to know of the rest.
LEMMA SumPick ==
    ASSUME NEW D, IsFiniteSet(D), NEW f, DOMAIN f = D, NEW s \in SUBSET D, s # {}
    PROVE  /\ Pick(s) \in s /\ s \ {Pick(s)} \in SUBSET D
           /\ SumOf(f)[s] = f[Pick(s)] + SumOf(f)[s \ {Pick(s)}]
<1>1. SumOf(f)[s] = f[Pick(s)] + SumOf(f)[s \ {Pick(s)}]
  BY SumEquation
<1> QED
  BY <1>1, PickTakes

\* Sums of integers are integers, sums of natural numbers natural numbers.
LEMMA SumTyped ==
    ASSUME NEW D, IsFiniteSet(D), NEW T, T \in {Nat, Int}, NEW f \in [D -> T]
    PROVE  /\ \A s \in SUBSET D : SumOf(f)[s] \in T
           /\ SumFunction(f) \in T
<1> DEFINE H == {s \in SUBSET D : SumOf(f)[s] \in T}
<1>1. {} \in H
  BY SumEquation
<1>2. ASSUME NEW s \in SUBSET D, s # {}, s \ {Pick(s)} \in H PROVE s \in H
  <2>1. SumOf(f)[s] = f[Pick(s)] + SumOf(f)[s \ {Pick(s)}] /\ f[Pick(s)] \in T
    <3>1. s # {} /\ DOMAIN f = D
      BY <1>2
    <3> HIDE DEF H
    <3>2. SumOf(f)[s] = f[Pick(s)] + SumOf(f)[s \ {Pick(s)}]
      BY <3>1, SumEquation
    <3>3. Pick(s) \in D
      BY <3>1, PickTakes
    <3> QED
      BY <3>2, <3>3
  <2> QED
    BY <1>2, <2>1
<1>3. SUBSET D \subseteq H
  <2> HIDE DEF H
  <2> QED
    BY <1>1, <1>2, BySize
<1> QED
  BY <1>3, SumEquation

\* Any element may be taken first.
LEMMA SumTake ==
    ASSUME NEW D, IsFiniteSet(D), NEW f \in [D -> Int]
    PROVE  \A s \in SUBSET D : \A x \in s : SumOf(f)[s] = f[x] + SumOf(f)[s \ {x}]
<1> DEFINE Takes(s) == \A x \in s : SumOf(f)[s] = f[x] + SumOf(f)[s \ {x}]
           G == {n \in Nat : \A s \in SUBSET D : Cardinality(s) <= n => Takes(s)}
<1>1. 0 \in G
  <2> SUFFICES ASSUME NEW s \in SUBSET D, Cardinality(s) <= 0 PROVE Takes(s)
    OBVIOUS
  <2> QED
    BY NoneLeft
<1>2. ASSUME NEW n \in Nat, n \in G PROVE n + 1 \in G
  <2> SUFFICES ASSUME NEW s \in SUBSET D, Cardinality(s) <= n + 1, NEW x \in s
               PROVE  SumOf(f)[s] = f[x] + SumOf(f)[s \ {x}]
    OBVIOUS
  <2> DEFINE p == Pick(s)
             t == s \ {p, x}
  <2>1. /\ p \in s /\ s \ {p} \in SUBSET D /\ Cardinality(s \ {p}) <= n
        /\ SumOf(f)[s] = f[p] + SumOf(f)[s \ {p}]
    <3>1. Cardinality(s \ {p}) <= n
      BY PickTakes
    <3>2. p \in s /\ s \ {p} \in SUBSET D /\ SumOf(f)[s] = f[p] + SumOf(f)[s \ {p}]
      BY SumPick
    <3> QED
      BY <3>1, <3>2
  <2>2. CASE p = x
    BY <2>1, <2>2
  <2>3. CASE p # x
    <3>1. x \in s \ {p} /\ (s \ {p}) \ {x} = t
      BY <2>3
    <3>2. SumOf(f)[s \ {p}] = f[x] + SumOf(f)[t]
      BY <1>2, <2>1, <3>1
    <3>3. s \ {x} \in SUBSET D /\ p \in s \ {x} /\ (s \ {x}) \ {p} = t
      BY <2>1, <2>3
    <3>4. Cardinality(s \ {x}) <= n
      <4>1. IsFiniteSet(s)
        BY FS_Subset
      <4>2. Cardinality(s) \in Nat
        BY <4>1, FS_CardinalityType
      <4>3. Cardinality(s \ {x}) = Cardinality(s) - 1
        BY <4>1, FS_RemoveElement
      <4> HIDE DEF G
      <4> QED
        BY <4>2, <4>3
    <3>5. SumOf(f)[s \ {x}] = f[p] + SumOf(f)[t]
      BY <1>2, <3>3, <3>4
    <3>6. SumOf(f)[t] \in Int /\ f[p] \in Int /\ f[x] \in Int
      BY <2>1, SumTyped
    <3> HIDE DEF p, t
    <3> QED
      BY <2>1, <3>2, <3>5, <3>6
  <2> QED
    BY <2>2, <2>3
<1>3. Nat \subseteq G
  <2> HIDE DEF G
  <2> QED
    BY <1>1, <1>2, AllNumbers
<1> SUFFICES ASSUME NEW s \in SUBSET D PROVE Takes(s)
  OBVIOUS
<1>4. Cardinality(s) \in Nat
  BY FS_Subset, FS_CardinalityType
<1> QED
  BY <1>3, <1>4

\* The same, of one set and one element of it.
LEMMA SumSplit ==
    ASSUME NEW D, NEW f, Summable(D, f), NEW s, s \in SUBSET D, NEW x, x \in s
    PROVE  SumOf(f)[s] = f[x] + SumOf(f)[s \ {x}]
  BY SumTake DEF Summable

\* Functions that agree on a set have the same sum over it.
LEMMA SumAgrees ==
    ASSUME NEW D, IsFiniteSet(D), NEW E, IsFiniteSet(E), NEW f \in [D -> Int], NEW g \in [E -> Int],
           NEW S \in SUBSET D, S \in SUBSET E, \A x \in S : f[x] = g[x]
    PROVE  SumOf(f)[S] = SumOf(g)[S]
<1> DEFINE H == {s \in SUBSET S : SumOf(f)[s] = SumOf(g)[s]}
<1>0. IsFiniteSet(S)
  BY FS_Subset
<1>1. {} \in H
  BY SumEquation
<1>2. ASSUME NEW s \in SUBSET S, s # {}, s \ {Pick(s)} \in H PROVE s \in H
  <2>1. /\ SumOf(f)[s] = f[Pick(s)] + SumOf(f)[s \ {Pick(s)}]
        /\ SumOf(g)[s] = g[Pick(s)] + SumOf(g)[s \ {Pick(s)}]
        /\ Pick(s) \in S
    <3>1. s \in SUBSET D /\ s \in SUBSET E
      OBVIOUS
    <3>2. SumOf(f)[s] = f[Pick(s)] + SumOf(f)[s \ {Pick(s)}] /\ Pick(s) \in s
      BY <1>2, <3>1, SumPick
    <3>3. SumOf(g)[s] = g[Pick(s)] + SumOf(g)[s \ {Pick(s)}]
      BY <1>2, <3>1, SumPick
    <3> QED
      BY <3>2, <3>3
  <2> QED
    BY <1>2, <2>1
<1>3. SUBSET S \subseteq H
  <2> HIDE DEF H
  <2> QED
    BY <1>0, <1>1, <1>2, BySize
<1> QED
  BY <1>3

\* Changing one value changes the sum by as much.
LEMMA SumChange ==
    ASSUME NEW D, IsFiniteSet(D), NEW f \in [D -> Int], NEW g \in [D -> Int],
           NEW k \in D, \A x \in D \ {k} : g[x] = f[x]
    PROVE  SumFunction(g) = SumFunction(f) + (g[k] - f[k])
<1>1. SumOf(f)[D] = f[k] + SumOf(f)[D \ {k}] /\ SumOf(g)[D] = g[k] + SumOf(g)[D \ {k}]
  BY SumTake
<1>2. SumOf(f)[D \ {k}] = SumOf(g)[D \ {k}]
  BY SumAgrees
<1>3. SumOf(f)[D \ {k}] \in Int
  BY SumTyped
<1>4. SumFunction(f) = SumOf(f)[D] /\ SumFunction(g) = SumOf(g)[D]
  BY SumEquation
<1> QED
  BY <1>1, <1>2, <1>3, <1>4

\* A function that says one thing more has that value more.
LEMMA SumExtended ==
    ASSUME NEW D, NEW f, Summable(D, f), NEW E, NEW g, Summable(E, g),
           NEW x, x \notin D, E = D \cup {x}, \A y \in D : g[y] = f[y]
    PROVE  SumFunction(g) = SumFunction(f) + g[x]
<1>1. E \in SUBSET E /\ D \in SUBSET E /\ D \in SUBSET D /\ x \in E /\ E \ {x} = D
  OBVIOUS
<1>2. SumOf(g)[E] = g[x] + SumOf(g)[E \ {x}]
  BY <1>1, SumSplit
<1>3. SumOf(f)[D] = SumOf(g)[D]
  BY <1>1, SumAgrees DEF Summable
<1>4. SumFunction(f) = SumOf(f)[D] /\ SumFunction(g) = SumOf(g)[E]
  BY SumEquation DEF Summable
<1>5. SumOf(g)[E] = g[x] + SumOf(f)[D]
  BY <1>1, <1>2, <1>3
<1>6. SumOf(f)[D] \in Int /\ g[x] \in Int
  <2>1. SumOf(f)[D] \in Int
    BY SumTyped DEF Summable
  <2> QED
    BY <1>1, <2>1 DEF Summable
<1> QED
  BY <1>4, <1>5, <1>6

\* A part of what there is has no larger a sum.
LEMMA SumPart ==
    ASSUME NEW D, IsFiniteSet(D), NEW E, IsFiniteSet(E), D \subseteq E,
           NEW f \in [D -> Nat], NEW g \in [E -> Nat], \A x \in D : f[x] = g[x]
    PROVE  SumFunction(f) <= SumFunction(g)
<1> DEFINE H == {t \in SUBSET E : SumOf(g)[t \cap D] <= SumOf(g)[t]}
<1>0. g \in [E -> Int] /\ f \in [D -> Int] /\ Summable(E, g)
  BY DEF Summable
<1>1. {} \in H
  <2>1. {} \cap D = {}
    OBVIOUS
  <2>2. SumOf(g)[{}] = 0
    BY SumEquation
  <2> QED
    BY <2>1, <2>2
<1>2. ASSUME NEW t \in SUBSET E, t # {}, t \ {Pick(t)} \in H PROVE t \in H
  <2>0. /\ Pick(t) \in t /\ t \ {Pick(t)} \in SUBSET E
        /\ SumOf(g)[t] = g[Pick(t)] + SumOf(g)[t \ {Pick(t)}]
    <3>1. DOMAIN g = E
      OBVIOUS
    <3>2. t # {}
      BY <1>2
    <3> HIDE DEF H
    <3>3. SumOf(g)[t] = g[Pick(t)] + SumOf(g)[t \ {Pick(t)}]
      BY <3>1, <3>2, SumEquation
    <3>4. Pick(t) \in t /\ t \ {Pick(t)} \in SUBSET E
      BY <3>2, PickTakes
    <3> QED
      BY <3>3, <3>4
  <2> DEFINE p == Pick(t)
             u == t \ {p}
             v == t \cap D
             w == u \cap D
  <2>1. p \in t /\ u \in SUBSET E /\ SumOf(g)[t] = g[p] + SumOf(g)[u]
    BY <2>0
  <2>2. SumOf(g)[w] <= SumOf(g)[u]
    BY <1>2
  <2>3. v \in SUBSET E /\ w \in SUBSET E /\ (p \in D => p \in v /\ v \ {p} = w) /\ (p \notin D => v = w)
    BY <2>1
  <2> HIDE DEF p, u, v, w
  <2>4. g[p] \in Nat /\ SumOf(g)[u] \in Int /\ SumOf(g)[w] \in Int
    <3>1. g[p] \in Nat
      BY <2>1
    <3> QED
      BY <1>0, <2>1, <2>3, <3>1, SumTyped
  <2>5. CASE p \in D
    <3>1. SumOf(g)[v] = g[p] + SumOf(g)[v \ {p}]
      <4>1. Summable(E, g) /\ v \in SUBSET E /\ p \in v
        BY <1>0, <2>3, <2>5
      <4> QED
        BY <4>1, SumSplit
    <3>2. SumOf(g)[v] = g[p] + SumOf(g)[w]
      BY <2>3, <2>5, <3>1
    <3>3. SumOf(g)[v] <= SumOf(g)[t]
      BY <2>1, <2>2, <2>4, <3>2
    <3> QED
      BY <3>3 DEF v
  <2>6. CASE p \notin D
    <3>1. SumOf(g)[v] <= SumOf(g)[t]
      BY <2>1, <2>2, <2>3, <2>4, <2>6
    <3> QED
      BY <3>1 DEF v
  <2> QED
    BY <2>5, <2>6
<1>3. SUBSET E \subseteq H
  <2> HIDE DEF H
  <2> QED
    BY <1>1, <1>2, BySize
<1>4. E \cap D = D /\ E \in SUBSET E /\ D \in SUBSET E /\ D \in SUBSET D
  OBVIOUS
<1>5. SumOf(g)[D] <= SumOf(g)[E]
  BY <1>3, <1>4
<1>6. SumOf(f)[D] = SumOf(g)[D]
  BY <1>0, <1>4, SumAgrees
<1>7. SumFunction(f) = SumOf(f)[D] /\ SumFunction(g) = SumOf(g)[E]
  BY SumEquation
<1> QED
  BY <1>5, <1>6, <1>7

\* Values no larger have a sum no larger.
LEMMA SumMonotone ==
    ASSUME NEW D, IsFiniteSet(D), NEW f \in [D -> Int], NEW g \in [D -> Int],
           \A x \in D : f[x] <= g[x]
    PROVE  SumFunction(f) <= SumFunction(g)
<1> DEFINE H == {s \in SUBSET D : SumOf(f)[s] <= SumOf(g)[s]}
<1>1. {} \in H
  BY SumEquation
<1>2. ASSUME NEW s \in SUBSET D, s # {}, s \ {Pick(s)} \in H PROVE s \in H
  <2>1. /\ SumOf(f)[s] = f[Pick(s)] + SumOf(f)[s \ {Pick(s)}]
        /\ SumOf(g)[s] = g[Pick(s)] + SumOf(g)[s \ {Pick(s)}]
        /\ Pick(s) \in D /\ s \ {Pick(s)} \in SUBSET D
    BY <1>2, SumPick
  <2>2. SumOf(f)[s \ {Pick(s)}] \in Int /\ SumOf(g)[s \ {Pick(s)}] \in Int
    BY <2>1, SumTyped
  <2>3. SumOf(f)[s \ {Pick(s)}] <= SumOf(g)[s \ {Pick(s)}]
    BY <1>2
  <2>4. f[Pick(s)] \in Int /\ g[Pick(s)] \in Int /\ f[Pick(s)] <= g[Pick(s)]
    BY <2>1
  <2>5. SumOf(f)[s] <= SumOf(g)[s]
    BY <2>1, <2>2, <2>3, <2>4
  <2> QED
    BY <2>5
<1>3. SUBSET D \subseteq H
  <2> HIDE DEF H
  <2> QED
    BY <1>1, <1>2, BySize
<1> QED
  BY <1>3, SumEquation

\* The sum of zeros.
LEMMA SumZero ==
    ASSUME NEW D, IsFiniteSet(D), NEW f \in [D -> Int], \A x \in D : f[x] = 0
    PROVE  SumFunction(f) = 0
<1> DEFINE H == {s \in SUBSET D : SumOf(f)[s] = 0}
<1>1. {} \in H
  BY SumEquation
<1>2. ASSUME NEW s \in SUBSET D, s # {}, s \ {Pick(s)} \in H PROVE s \in H
  <2>1. Pick(s) \in D /\ s \ {Pick(s)} \in SUBSET D
    BY <1>2, PickTakes
  <2>2. SumOf(f)[s] = f[Pick(s)] + SumOf(f)[s \ {Pick(s)}]
    BY <1>2, SumEquation
  <2> QED
    BY <1>2, <2>1, <2>2
<1>3. SUBSET D \subseteq H
  <2> HIDE DEF H
  <2> QED
    BY <1>1, <1>2, BySize
<1> QED
  BY <1>3, SumEquation

\* The sum of differences is the difference of the sums.
LEMMA SumDifference ==
    ASSUME NEW D, IsFiniteSet(D), NEW f \in [D -> Int], NEW g \in [D -> Int],
           NEW h \in [D -> Int], \A x \in D : h[x] = g[x] - f[x]
    PROVE  SumFunction(h) = SumFunction(g) - SumFunction(f)
<1> DEFINE H == {s \in SUBSET D : SumOf(h)[s] = SumOf(g)[s] - SumOf(f)[s]}
<1>1. {} \in H
  BY SumEquation
<1>2. ASSUME NEW s \in SUBSET D, s # {}, s \ {Pick(s)} \in H PROVE s \in H
  <2> DEFINE p == Pick(s)
             t == s \ {p}
  <2>1. /\ SumOf(f)[s] = f[p] + SumOf(f)[t]
        /\ SumOf(g)[s] = g[p] + SumOf(g)[t]
        /\ SumOf(h)[s] = h[p] + SumOf(h)[t]
        /\ p \in D /\ t \in SUBSET D
    <3>1. p \in s /\ t \in SUBSET D /\ SumOf(f)[s] = f[p] + SumOf(f)[t]
      BY <1>2, SumPick
    <3>2. SumOf(g)[s] = g[p] + SumOf(g)[t]
      BY <1>2, SumPick
    <3>3. SumOf(h)[s] = h[p] + SumOf(h)[t]
      BY <1>2, SumPick
    <3> QED
      BY <3>1, <3>2, <3>3
  <2>2. SumOf(h)[t] = SumOf(g)[t] - SumOf(f)[t]
    BY <1>2
  <2> HIDE DEF p, t
  <2>3. SumOf(f)[t] \in Int /\ SumOf(g)[t] \in Int
    BY <2>1, SumTyped
  <2>4. f[p] \in Int /\ g[p] \in Int /\ h[p] = g[p] - f[p]
    BY <2>1
  <2>5. SumOf(h)[s] = SumOf(g)[s] - SumOf(f)[s]
    BY <2>1, <2>2, <2>3, <2>4
  <2> QED
    BY <2>5
<1>3. SUBSET D \subseteq H
  <2> HIDE DEF H
  <2> QED
    BY <1>1, <1>2, BySize
<1> QED
  BY <1>3, SumEquation
=============================================================================
