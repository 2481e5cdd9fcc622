----------------------------- MODULE SumsProofs -----------------------------
(***************************************************************************)
(* Sums of integers over finite sets and passes over numbers in their      *)
(* order, as Statistics takes both, runs of consecutive numbers, and the   *)
(* least and the greatest number of a set.                                 *)
(*                                                                         *)
(* An induction over the size of a set is put as a search for a smallest   *)
(* counterexample, which MinExists provides.                               *)
(***************************************************************************)
EXTENDS Statistics, Functions, FiniteSetTheorems, TLAPS

-----------------------------------------------------------------------------
(* Sets of numbers.                                                        *)

LEMMA MinExists ==
  ASSUME NEW S \in SUBSET Nat, S # {}
  PROVE  \E m \in S : \A n \in S : m <= n
<1>1. \E x \in S : \A y \in S : ~ (<<y, x>> \in OpToRel(<, Nat))
  BY NatLessThanWellFounded, WFMin
<1>2. PICK x \in S : \A y \in S : ~ (<<y, x>> \in OpToRel(<, Nat))
  BY <1>1
<1>3. ASSUME NEW y \in S PROVE x <= y
  <2>1. <<y, x>> \notin OpToRel(<, Nat)
    BY <1>2
  <2>2. ~ (y < x)
    BY <2>1 DEF OpToRel
  <2> QED
    BY <2>2
<1> QED
  BY <1>3

\* Of some sets of a finite set, one is smallest.
LEMMA Smallest ==
  ASSUME NEW D, IsFiniteSet(D), NEW Some \in SUBSET SUBSET D, Some # {}
  PROVE  \E S \in Some : /\ IsFiniteSet(S)
                         /\ \A x \in S : IsFiniteSet(S \ {x}) /\ S \ {x} \notin Some
<1> DEFINE Sizes == {Cardinality(S) : S \in Some}
<1>1. \A S \in SUBSET D : IsFiniteSet(S) /\ Cardinality(S) \in Nat
  BY FS_Subset, FS_CardinalityType
<1>2. Sizes \in SUBSET Nat /\ Sizes # {}
  BY <1>1
<1>3. PICK n \in Sizes : \A k \in Sizes : n <= k
  BY <1>2, MinExists
<1>4. PICK S \in Some : Cardinality(S) = n
  BY <1>3
<1>5. ASSUME NEW x \in S PROVE IsFiniteSet(S \ {x}) /\ S \ {x} \notin Some
  <2>1. IsFiniteSet(S)
    BY <1>1
  <2>2. IsFiniteSet(S \ {x}) /\ Cardinality(S \ {x}) = Cardinality(S) - 1
    BY <2>1, FS_RemoveElement
  <2>3. ~ (n <= Cardinality(S \ {x}))
    BY <1>2, <1>4, <2>2
  <2>4. S \ {x} \notin Some
    BY <1>3, <2>3
  <2> QED
    BY <2>2, <2>4
<1> QED
  BY <1>1, <1>5

LEMMA MaxExists ==
  ASSUME NEW S \in SUBSET Int, S # {}, IsFiniteSet(S)
  PROVE  \E m \in S : \A n \in S : n <= m
<1> DEFINE Odd == {X \in SUBSET S : X # {} /\ ~ \E m \in X : \A n \in X : n <= m}
<1> SUFFICES ASSUME Odd # {} PROVE FALSE
  OBVIOUS
<1>1. Odd \in SUBSET SUBSET S
  OBVIOUS
<1> HIDE DEF Odd
<1>2. PICK X \in Odd : \A x \in X : IsFiniteSet(X \ {x}) /\ X \ {x} \notin Odd
  BY <1>1, Smallest
<1> USE DEF Odd
<1>3. PICK x \in X : TRUE
  OBVIOUS
<1>4. CASE X = {x}
  BY <1>4
<1>5. CASE X # {x}
  <2>0. X \ {x} \in SUBSET S /\ X \ {x} # {}
    BY <1>3, <1>5
  <2>1. PICK m \in X \ {x} : \A n \in X \ {x} : n <= m
    BY <1>2, <1>3, <2>0
  <2>2. CASE x <= m
    BY <1>3, <2>1, <2>2
  <2>3. CASE ~(x <= m)
    <3>1. \A n \in X : n <= x
      BY <1>3, <2>1, <2>3
    <3> QED
      BY <1>3, <3>1
  <2> QED
    BY <2>2, <2>3
<1> QED
  BY <1>4, <1>5

\* What a function makes of a finite set.
LEMMA ImageIs ==
  ASSUME NEW D, IsFiniteSet(D), NEW f
  PROVE  IsFiniteSet({f[x] : x \in D})
<1> DEFINE T == {f[x] : x \in D}
           g == [x \in D |-> f[x]]
<1>1. g \in Surjection(D, T)
  BY DEF Surjection
<1> HIDE DEF T, g
<1>2. IsFiniteSet(T)
  BY <1>1, FS_Surjection
<1> QED
  BY <1>2 DEF T

\* What Max and Min give.
LEMMA MaxIs ==
  ASSUME NEW S \in SUBSET Int, S # {}, IsFiniteSet(S)
  PROVE  /\ Max(S) \in S
         /\ \A n \in S : n <= Max(S)
<1>1. \E m \in S : \A n \in S : m >= n
  BY MaxExists
<1> QED
  BY <1>1 DEF Max

LEMMA MaxIsOnly ==
  ASSUME NEW S \in SUBSET Int, NEW m \in S, \A n \in S : n <= m
  PROVE  Max(S) = m
<1>1. Max(S) \in S /\ \A n \in S : Max(S) >= n
  BY DEF Max
<1> DEFINE x == Max(S)
<1>2. x \in Int /\ m \in Int /\ x <= m /\ m <= x
  BY <1>1
<1> HIDE DEF x
<1>3. x = m
  BY <1>2
<1> QED
  BY <1>3 DEF x

LEMMA MinIs ==
  ASSUME NEW S \in SUBSET Nat, S # {}
  PROVE  /\ Min(S) \in S
         /\ \A n \in S : Min(S) <= n
<1>1. \E m \in S : \A n \in S : m <= n
  BY MinExists
<1> QED
  BY <1>1 DEF Min

LEMMA MinIsOnly ==
  ASSUME NEW S \in SUBSET Int, NEW m \in S, \A n \in S : m <= n
  PROVE  Min(S) = m
<1>1. Min(S) \in S /\ \A n \in S : Min(S) <= n
  BY DEF Min
<1> DEFINE x == Min(S)
<1>2. x \in Int /\ m \in Int /\ x <= m /\ m <= x
  BY <1>1
<1> HIDE DEF x
<1>3. x = m
  BY <1>2
<1> QED
  BY <1>3 DEF x

-----------------------------------------------------------------------------
(* SumOf.                                                                  *)

Some(S) == CHOOSE x \in S : TRUE

\* The sums of a function over the parts of its domain.
Sums(f) ==
  CHOOSE sum : sum = [S \in SUBSET DOMAIN f |->
                        IF S = {} THEN 0 ELSE f[Some(S)] + sum[S \ {Some(S)}]]

LEMMA SumIs ==
  ASSUME NEW f
  PROVE  SumOf(f) = Sums(f)[DOMAIN f]
  BY DEF SumOf, Sums, Some, MapThenSumSet, MapThenFoldSet

\* They exist, by induction over the size of the parts.
LEMMA SumsAre ==
  ASSUME NEW D, IsFiniteSet(D), NEW f \in [D -> Int]
  PROVE  /\ Sums(f) \in [SUBSET D -> Int]
         /\ \A S \in SUBSET D :
              Sums(f)[S] = IF S = {} THEN 0 ELSE f[Some(S)] + Sums(f)[S \ {Some(S)}]
<1> DEFINE Parts(n) == {S \in SUBSET D : Cardinality(S) <= n}
           Step(g, S) == IF S = {} THEN 0 ELSE f[Some(S)] + g[S \ {Some(S)}]
           Fine(n, g) == g \in [Parts(n) -> Int] /\ \A S \in Parts(n) : g[S] = Step(g, S)
           Bad == {n \in Nat : ~ \E g : Fine(n, g)}
<1>1. \A S \in SUBSET D : /\ IsFiniteSet(S) /\ Cardinality(S) \in Nat
                          /\ Cardinality(S) <= Cardinality(D)
                          /\ Cardinality(S) = 0 => S = {}
  BY FS_Subset, FS_CardinalityType, FS_EmptySet
<1>2. \A S \in SUBSET D : S # {} =>
        /\ Some(S) \in S /\ f[Some(S)] \in Int /\ S \ {Some(S)} \in SUBSET D
        /\ Cardinality(S \ {Some(S)}) = Cardinality(S) - 1
  BY <1>1, FS_RemoveElement DEF Some
<1>3. Bad = {}
  <2> SUFFICES ASSUME Bad # {} PROVE FALSE
    OBVIOUS
  <2>1. PICK n \in Bad : \A k \in Bad : n <= k
    BY MinExists
  <2>2. CASE n = 0
    <3> DEFINE g == [S \in Parts(0) |-> 0]
    <3>1. \A S \in Parts(0) : S = {}
      BY <1>1
    <3>2. Fine(0, g)
      BY <3>1
    <3> QED
      BY <2>1, <2>2, <3>2
  <2>3. CASE n # 0
    <3>0. n \in Nat /\ n - 1 \in Nat /\ ~ (n <= n - 1)
      BY <2>1, <2>3
    <3>1. n - 1 \in Nat /\ n - 1 \notin Bad
      BY <2>1, <3>0
    <3>2. PICK g : Fine(n - 1, g)
      BY <3>1
    <3> DEFINE h == [S \in Parts(n) |-> Step(g, S)]
    <3>3. \A S \in Parts(n) : S # {} => S \ {Some(S)} \in Parts(n - 1)
      BY <1>1, <1>2, <3>1
    <3>4. h \in [Parts(n) -> Int]
      <4>1. ASSUME NEW S \in Parts(n), S # {} PROVE Step(g, S) \in Int
        <5>1. g[S \ {Some(S)}] \in Int
          <6>1. g \in [Parts(n - 1) -> Int]
            BY <3>2
          <6>2. S \ {Some(S)} \in Parts(n - 1)
            BY <3>3, <4>1
          <6> HIDE DEF Parts, Fine
          <6> QED
            BY <6>1, <6>2
        <5>2. f[Some(S)] \in Int
          BY <1>2, <4>1
        <5> QED
          BY <4>1, <5>1, <5>2
      <4> HIDE DEF Step, Parts
      <4>2. \A S \in Parts(n) : Step(g, S) \in Int
        <5> SUFFICES ASSUME NEW S \in Parts(n) PROVE Step(g, S) \in Int
          OBVIOUS
        <5>1. CASE S = {}
          BY <5>1 DEF Step
        <5> QED
          BY <4>1, <5>1
      <4> QED
        BY <4>2
    <3>5. \A S \in Parts(n - 1) : S \in Parts(n) /\ h[S] = g[S]
      <4>1. \A S \in Parts(n - 1) : S \in Parts(n)
        <5> SUFFICES ASSUME NEW S \in Parts(n - 1) PROVE Cardinality(S) <= n
          OBVIOUS
        <5>1. Cardinality(S) \in Nat /\ Cardinality(S) <= n - 1
          BY <1>1
        <5> QED
          BY <3>0, <5>1
      <4>2. \A S \in Parts(n - 1) : g[S] = Step(g, S)
        BY <3>2
      <4>3. \A S \in Parts(n) : h[S] = Step(g, S)
        OBVIOUS
      <4> HIDE DEF h, Parts, Fine
      <4> QED
        BY <4>1, <4>2, <4>3
    <3>6. \A S \in Parts(n) : h[S] = Step(h, S)
      <4>1. \A S \in Parts(n) : h[S] = Step(g, S)
        OBVIOUS
      <4>2. \A S \in Parts(n) : S # {} => h[S \ {Some(S)}] = g[S \ {Some(S)}]
        BY <3>3, <3>5
      <4> HIDE DEF h
      <4> QED
        BY <4>1, <4>2
    <3>7. Fine(n, h)
      BY <3>4, <3>6
    <3> QED
      BY <2>1, <3>7
  <2> QED
    BY <2>2, <2>3
<1>4. Cardinality(D) \in Nat /\ Parts(Cardinality(D)) = SUBSET D
  BY <1>1
<1>5. PICK g : Fine(Cardinality(D), g)
  BY <1>3, <1>4
<1>6. g \in [SUBSET D -> Int] /\ \A S \in SUBSET D : g[S] = Step(g, S)
  BY <1>4, <1>5
<1>7. g = [S \in SUBSET DOMAIN f |-> Step(g, S)]
  BY <1>6
<1>8. Sums(f) = [S \in SUBSET DOMAIN f |-> Step(Sums(f), S)]
  BY <1>7 DEF Sums
<1>9. DOMAIN f = D
  OBVIOUS
<1> DEFINE s == Sums(f)
<1> HIDE DEF s
<1>10. s = [S \in SUBSET D |-> Step(s, S)]
  BY <1>8, <1>9 DEF s
<1>11. \A S \in SUBSET D : s[S] = Step(s, S)
  BY <1>10
<1>12. \A S \in SUBSET D : s[S] = g[S]
  <2> DEFINE Differ == {S \in SUBSET D : s[S] # g[S]}
  <2> SUFFICES ASSUME Differ # {} PROVE FALSE
    OBVIOUS
  <2>1. Differ \in SUBSET SUBSET D
    OBVIOUS
  <2> HIDE DEF Differ
  <2>2. PICK S \in Differ : \A x \in S : S \ {x} \notin Differ
    BY <2>1, Smallest
  <2> USE DEF Differ
  <2>3. S # {} => s[S \ {Some(S)}] = g[S \ {Some(S)}]
    BY <1>2, <2>2
  <2>4. s[S] = g[S]
    BY <1>6, <1>11, <2>3
  <2> QED
    BY <2>4
<1>13. s = g
  <2>1. s = [S \in SUBSET D |-> s[S]] /\ g = [S \in SUBSET D |-> g[S]]
    BY <1>6, <1>10
  <2> QED
    BY <1>12, <2>1
<1> QED
  BY <1>6, <1>13 DEF s

\* A part's sum does not depend on the rest of the domain.
LEMMA SumOfPart ==
  ASSUME NEW D, IsFiniteSet(D), NEW f \in [D -> Int], NEW E \in SUBSET D
  PROVE  SumOf(Restrict(f, E)) = Sums(f)[E]
<1> DEFINE e == Restrict(f, E)
           Differ == {S \in SUBSET E : Sums(e)[S] # Sums(f)[S]}
<1>1. IsFiniteSet(E)
  BY FS_Subset
<1>2. e \in [E -> Int] /\ DOMAIN e = E /\ \A x \in E : e[x] = f[x]
  BY DEF Restrict
<1>3. \A S \in SUBSET D : Sums(f)[S] = IF S = {} THEN 0 ELSE f[Some(S)] + Sums(f)[S \ {Some(S)}]
  BY SumsAre, Zenon
<1> HIDE DEF e
<1>4. \A S \in SUBSET E : Sums(e)[S] = IF S = {} THEN 0 ELSE e[Some(S)] + Sums(e)[S \ {Some(S)}]
  <2>1. e \in [E -> Int]
    BY <1>2
  <2>2. /\ Sums(e) \in [SUBSET E -> Int]
        /\ \A S \in SUBSET E :
             Sums(e)[S] = IF S = {} THEN 0 ELSE e[Some(S)] + Sums(e)[S \ {Some(S)}]
    BY <1>1, <2>1, SumsAre
  <2> QED
    BY <2>2
<1>5. Differ = {}
  <2> SUFFICES ASSUME Differ # {} PROVE FALSE
    OBVIOUS
  <2>1. Differ \in SUBSET SUBSET E
    OBVIOUS
  <2> HIDE DEF Differ
  <2>2. PICK S \in Differ : \A x \in S : S \ {x} \notin Differ
    BY <1>1, <2>1, Smallest
  <2> USE DEF Differ
  <2>3. CASE S = {}
    BY <1>3, <1>4, <2>3
  <2>4. CASE S # {}
    <3>1. Some(S) \in S /\ Some(S) \in E
      BY <2>4 DEF Some
    <3>2. Sums(e)[S \ {Some(S)}] = Sums(f)[S \ {Some(S)}]
      BY <2>2, <3>1
    <3>3. Sums(e)[S] = Sums(f)[S]
      BY <1>2, <1>3, <1>4, <2>4, <3>1, <3>2
    <3> QED
      BY <3>3
  <2> QED
    BY <2>3, <2>4
<1>6. Sums(e)[E] = Sums(f)[E]
  BY <1>5
<1>7. SumOf(e) = Sums(e)[DOMAIN e]
  BY SumIs
<1> QED
  BY <1>2, <1>6, <1>7 DEF e

LEMMA SumWhole ==
  ASSUME NEW D, NEW f \in [D -> Int]
  PROVE  Restrict(f, D) = f /\ SumOf(f) = Sums(f)[D]
<1>1. SumOf(f) = Sums(f)[DOMAIN f]
  BY SumIs
<1> QED
  BY <1>1 DEF Restrict

\* The sum of no numbers.
LEMMA SumNothing ==
  ASSUME NEW f \in [{} -> Int]
  PROVE  SumOf(f) = 0
<1>1. IsFiniteSet({})
  BY FS_EmptySet
<1>2. \A S \in SUBSET {} : Sums(f)[S] = IF S = {} THEN 0 ELSE f[Some(S)] + Sums(f)[S \ {Some(S)}]
  BY <1>1, SumsAre
<1> QED
  BY <1>2, SumWhole

\* A number may be taken out of a sum, whichever it is.
LEMMA SumsWithout ==
  ASSUME NEW D, IsFiniteSet(D), NEW f \in [D -> Int], NEW S \in SUBSET D, NEW x \in S
  PROVE  Sums(f)[S] = f[x] + Sums(f)[S \ {x}]
<1> DEFINE Odd == {T \in SUBSET D : \E y \in T : Sums(f)[T] # f[y] + Sums(f)[T \ {y}]}
<1> DEFINE s == Sums(f)
<1>0. /\ s \in [SUBSET D -> Int]
      /\ \A T \in SUBSET D : s[T] = IF T = {} THEN 0 ELSE f[Some(T)] + s[T \ {Some(T)}]
  BY SumsAre, Zenon
<1>1. \A T \in SUBSET D : /\ Sums(f)[T] \in Int
                          /\ T # {} => Sums(f)[T] = f[Some(T)] + Sums(f)[T \ {Some(T)}]
  <2> HIDE DEF s
  <2>1. \A T \in SUBSET D : /\ s[T] \in Int
                            /\ T # {} => s[T] = f[Some(T)] + s[T \ {Some(T)}]
    BY <1>0
  <2> QED
    BY <2>1 DEF s
<1>2. Odd = {}
  <2> SUFFICES ASSUME Odd # {} PROVE FALSE
    OBVIOUS
  <2>1. Odd \in SUBSET SUBSET D
    OBVIOUS
  <2> HIDE DEF Odd
  <2>2. PICK T \in Odd : \A y \in T : T \ {y} \notin Odd
    BY <2>1, Smallest
  <2> USE DEF Odd
  <2>3. PICK y \in T : Sums(f)[T] # f[y] + Sums(f)[T \ {y}]
    OBVIOUS
  <2> DEFINE p == Some(T)
             Both == T \ {p, y}
  <2>4. T # {} /\ p \in T
    BY <2>3 DEF Some
  <2>5. p # y
    BY <1>1, <2>3, <2>4
  <2>6. /\ T \ {p} \in SUBSET D /\ y \in T \ {p} /\ (T \ {p}) \ {y} = Both
        /\ T \ {y} \in SUBSET D /\ p \in T \ {y} /\ (T \ {y}) \ {p} = Both
        /\ T \in SUBSET D /\ Both \in SUBSET D
    BY <2>4, <2>5
  <2>7. Sums(f)[T \ {p}] = f[y] + Sums(f)[Both]
    <3>1. T \ {p} \notin Odd
      BY <2>2, <2>4
    <3>2. Sums(f)[T \ {p}] = f[y] + Sums(f)[(T \ {p}) \ {y}]
      BY <2>6, <3>1
    <3> QED
      BY <2>6, <3>2
  <2>8. Sums(f)[T \ {y}] = f[p] + Sums(f)[Both]
    <3>1. T \ {y} \notin Odd
      BY <2>2, <2>3
    <3>2. Sums(f)[T \ {y}] = f[p] + Sums(f)[(T \ {y}) \ {p}]
      BY <2>6, <3>1
    <3> QED
      BY <2>6, <3>2
  <2>9. Sums(f)[T] = f[p] + Sums(f)[T \ {p}]
    BY <1>1, <2>4
  <2>10. f[p] \in Int /\ f[y] \in Int /\ Sums(f)[Both] \in Int
    BY <1>1, <2>3, <2>4, <2>6
  <2> QED
    BY <2>3, <2>7, <2>8, <2>9, <2>10
<1> QED
  BY <1>2

LEMMA SumTyped ==
  ASSUME NEW D, IsFiniteSet(D), NEW f \in [D -> Int]
  PROVE  SumOf(f) \in Int
<1>1. Sums(f) \in [SUBSET D -> Int]
  BY SumsAre, Zenon
<1> QED
  BY <1>1, SumWhole

LEMMA SumRemove ==
  ASSUME NEW D, IsFiniteSet(D), NEW f \in [D -> Int], NEW x \in D
  PROVE  SumOf(f) = f[x] + SumOf(Restrict(f, D \ {x}))
<1>1. Sums(f)[D] = f[x] + Sums(f)[D \ {x}]
  BY SumsWithout
<1>2. D \ {x} \in SUBSET D
  OBVIOUS
<1>3. SumOf(Restrict(f, D \ {x})) = Sums(f)[D \ {x}]
  BY <1>2, SumOfPart
<1> QED
  BY <1>1, <1>3, SumWhole

LEMMA SumOne ==
  ASSUME NEW x, NEW f \in [{x} -> Int]
  PROVE  SumOf(f) = f[x]
<1> DEFINE none == Restrict(f, {x} \ {x})
<1>1. IsFiniteSet({x}) /\ x \in {x}
  BY FS_Singleton
<1>2. SumOf(f) = f[x] + SumOf(none)
  BY <1>1, SumRemove
<1>3. none \in [{} -> Int]
  BY DEF Restrict
<1> HIDE DEF none
<1>4. SumOf(none) = 0
  BY <1>3, SumNothing
<1>5. f[x] \in Int
  OBVIOUS
<1> QED
  BY <1>2, <1>4, <1>5

\* A sum is that of a part of the numbers and that of the others.
LEMMA SumJoin ==
  ASSUME NEW D, IsFiniteSet(D), NEW f \in [D -> Int], NEW E \in SUBSET D
  PROVE  SumOf(f) = SumOf(Restrict(f, E)) + SumOf(Restrict(f, D \ E))
<1> DEFINE s == Sums(f)
           Odd == {T \in SUBSET D : s[D] # s[T] + s[D \ T]}
<1>1. /\ s \in [SUBSET D -> Int]
      /\ \A T \in SUBSET D : s[T] = IF T = {} THEN 0 ELSE f[Some(T)] + s[T \ {Some(T)}]
  BY SumsAre, Zenon
<1>2. ASSUME NEW T \in SUBSET D, NEW x \in T PROVE s[T] = f[x] + s[T \ {x}]
  BY SumsWithout
<1>3. \A T \in SUBSET D : SumOf(Restrict(f, T)) = s[T]
  BY SumOfPart
<1>4. SumOf(f) = s[D]
  BY SumWhole
<1> HIDE DEF s
<1>5. Odd = {}
  <2> SUFFICES ASSUME Odd # {} PROVE FALSE
    OBVIOUS
  <2>1. Odd \in SUBSET SUBSET D
    OBVIOUS
  <2> HIDE DEF Odd
  <2>2. PICK T \in Odd : \A x \in T : T \ {x} \notin Odd
    BY <2>1, Smallest
  <2> USE DEF Odd
  <2>3. CASE T = {}
    <3>1. {} \in SUBSET D /\ D \in SUBSET D /\ D \ T = D
      BY <2>3
    <3> HIDE DEF Odd
    <3>4. s[{}] = 0
      BY <1>1, <3>1
    <3>5. s[D] \in Int
      BY <1>1, <3>1
    <3>2. s[T] = 0 /\ s[D] \in Int
      BY <2>3, <3>4, <3>5
    <3>6. s[D \ T] = s[D]
      BY <3>1, Zenon
    <3>3. s[D] = s[T] + s[D \ T]
      BY <3>2, <3>6
    <3> USE DEF Odd
    <3> QED
      BY <3>3
  <2>4. CASE T # {}
    <3>1. PICK x \in T : TRUE
      BY <2>4
    <3> DEFINE U == T \ {x}
    <3>2. /\ U \in SUBSET D /\ D \ U \in SUBSET D /\ D \ T \in SUBSET D /\ T \in SUBSET D
          /\ x \in D \ U /\ (D \ U) \ {x} = D \ T /\ x \in D
      BY <2>2, <3>1
    <3>3. s[D] = s[U] + s[D \ U]
      BY <2>2, <3>1, <3>2
    <3>4. s[D \ U] = f[x] + s[D \ T]
      BY <1>2, <3>2
    <3>5. s[T] = f[x] + s[U]
      BY <1>2, <3>1, <3>2
    <3>6. s[U] \in Int /\ s[D \ T] \in Int /\ f[x] \in Int
      BY <1>1, <3>2
    <3>7. s[D] = s[T] + s[D \ T]
      BY <3>3, <3>4, <3>5, <3>6
    <3> QED
      BY <2>2, <3>7
  <2> QED
    BY <2>3, <2>4
<1>6. s[D] = s[E] + s[D \ E]
  BY <1>5
<1>7. D \ E \in SUBSET D
  OBVIOUS
<1> QED
  BY <1>3, <1>4, <1>6, <1>7

\* The sum of sums, number by number.
LEMMA SumPlus ==
  ASSUME NEW D, IsFiniteSet(D), NEW f \in [D -> Int], NEW g \in [D -> Int], NEW h \in [D -> Int],
         \A x \in D : h[x] = f[x] + g[x]
  PROVE  SumOf(h) = SumOf(f) + SumOf(g)
<1> DEFINE Are(e) == /\ Sums(e) \in [SUBSET D -> Int]
                     /\ \A T \in SUBSET D :
                          Sums(e)[T] = IF T = {} THEN 0 ELSE e[Some(T)] + Sums(e)[T \ {Some(T)}]
<1>0. \A e \in [D -> Int] : Are(e)
  BY SumsAre, Zenon
<1>a. Are(f) /\ Are(g) /\ Are(h)
  BY <1>0
<1> DEFINE s == Sums(f)
           t == Sums(g)
           u == Sums(h)
           Odd == {T \in SUBSET D : u[T] # s[T] + t[T]}
<1>1. /\ s \in [SUBSET D -> Int]
      /\ \A T \in SUBSET D : s[T] = IF T = {} THEN 0 ELSE f[Some(T)] + s[T \ {Some(T)}]
  BY <1>a
<1>2. /\ t \in [SUBSET D -> Int]
      /\ \A T \in SUBSET D : t[T] = IF T = {} THEN 0 ELSE g[Some(T)] + t[T \ {Some(T)}]
  BY <1>a
<1>3. /\ u \in [SUBSET D -> Int]
      /\ \A T \in SUBSET D : u[T] = IF T = {} THEN 0 ELSE h[Some(T)] + u[T \ {Some(T)}]
  BY <1>a
<1>4. SumOf(f) = s[D] /\ SumOf(g) = t[D] /\ SumOf(h) = u[D]
  BY SumWhole
<1> HIDE DEF s, t, u
<1>5. Odd = {}
  <2> SUFFICES ASSUME Odd # {} PROVE FALSE
    OBVIOUS
  <2>1. Odd \in SUBSET SUBSET D
    OBVIOUS
  <2> HIDE DEF Odd
  <2>2. PICK T \in Odd : \A x \in T : T \ {x} \notin Odd
    BY <2>1, Smallest
  <2> USE DEF Odd
  <2>3. CASE T = {}
    <3>1. T \in SUBSET D
      OBVIOUS
    <3>2. s[T] = 0 /\ t[T] = 0 /\ u[T] = 0
      BY <1>1, <1>2, <1>3, <2>3, <3>1
    <3>3. u[T] = s[T] + t[T]
      BY <3>2
    <3> QED
      BY <3>3
  <2>4. CASE T # {}
    <3> DEFINE x == Some(T)
               U == T \ {x}
    <3>1. x \in T /\ x \in D /\ U \in SUBSET D /\ T \in SUBSET D
      BY <2>4 DEF Some
    <3>2. u[U] = s[U] + t[U]
      BY <2>2, <3>1
    <3>3. s[T] = f[x] + s[U] /\ t[T] = g[x] + t[U] /\ u[T] = h[x] + u[U]
      BY <1>1, <1>2, <1>3, <2>4, <3>1
    <3>4. /\ s[U] \in Int /\ t[U] \in Int /\ f[x] \in Int /\ g[x] \in Int
          /\ h[x] = f[x] + g[x]
      BY <1>1, <1>2, <3>1
    <3> HIDE DEF x, U
    <3>5. u[T] = s[T] + t[T]
      BY <3>2, <3>3, <3>4
    <3> QED
      BY <2>2, <3>5
  <2> QED
    BY <2>3, <2>4
<1> QED
  BY <1>4, <1>5

\* The sum of zeros.
LEMMA SumZero ==
  ASSUME NEW D, IsFiniteSet(D), NEW f \in [D -> Int], \A x \in D : f[x] = 0
  PROVE  SumOf(f) = 0
<1> DEFINE all == SumOf(f)
<1>1. \A x \in D : f[x] = f[x] + f[x]
  OBVIOUS
<1>2. all = all + all
  BY <1>1, SumPlus
<1>3. all \in Int
  BY SumTyped
<1> HIDE DEF all
<1>4. \A n \in Int : n = n + n => n = 0
  OBVIOUS
<1>5. all = 0
  BY <1>2, <1>3, <1>4, Zenon
<1> QED
  BY <1>5, Zenon DEF all

\* The same with its hypotheses under a name.
Adds(h, f, g, D) ==
  /\ f \in [D -> Int] /\ g \in [D -> Int] /\ h \in [D -> Int]
  /\ \A x \in D : h[x] = f[x] + g[x]

LEMMA SumAdds ==
  ASSUME NEW D, IsFiniteSet(D), NEW f, NEW g, NEW h, Adds(h, f, g, D)
  PROVE  SumOf(h) = SumOf(f) + SumOf(g)
<1>1. f \in [D -> Int] /\ g \in [D -> Int] /\ h \in [D -> Int]
  BY DEF Adds
<1>2. \A x \in D : h[x] = f[x] + g[x]
  BY DEF Adds
<1> QED
  BY <1>1, <1>2, SumPlus

\* Zeros may be left out of a sum.
LEMMA SumOver ==
  ASSUME NEW D, IsFiniteSet(D), NEW f \in [D -> Int], NEW E \in SUBSET D,
         \A x \in D \ E : f[x] = 0
  PROVE  SumOf(f) = SumOf(Restrict(f, E))
<1> DEFINE part == Restrict(f, E)
           rest == Restrict(f, D \ E)
<1>1. SumOf(f) = SumOf(part) + SumOf(rest)
  BY SumJoin
<1>2. /\ part \in [E -> Int] /\ rest \in [D \ E -> Int]
      /\ \A x \in D \ E : rest[x] = 0
      /\ IsFiniteSet(E) /\ IsFiniteSet(D \ E)
  BY FS_Subset DEF Restrict
<1> HIDE DEF part, rest
<1>3. SumOf(rest) = 0
  BY <1>2, SumZero
<1>4. SumOf(part) \in Int
  BY <1>2, SumTyped
<1>5. SumOf(f) = SumOf(part)
  BY <1>1, <1>3, <1>4
<1> QED
  BY <1>5 DEF part

\* The sum of a table is that of its rows and that of its columns.
Table(D, E) == [D \X E -> Int]
RowSums(f, D, E) == [x \in D |-> SumOf([y \in E |-> f[<<x, y>>]])]
ColSums(f, D, E) == [y \in E |-> SumOf([x \in D |-> f[<<x, y>>]])]

LEMMA SumSwap ==
  ASSUME NEW D, IsFiniteSet(D), NEW E, IsFiniteSet(E), NEW f \in Table(D, E)
  PROVE  SumOf(RowSums(f, D, E)) = SumOf(ColSums(f, D, E))
<1> DEFINE rowAt(x) == [y \in E |-> f[<<x, y>>]]
           rows     == [x \in D |-> SumOf(rowAt(x))]
           colOn(T, y) == [x \in T |-> f[<<x, y>>]]
           cols(T)  == [y \in E |-> SumOf(colOn(T, y))]
           Odd == {T \in SUBSET D : SumOf(Restrict(rows, T)) # SumOf(cols(T))}
<1>1. \A T \in SUBSET D : IsFiniteSet(T)
  BY FS_Subset
<1>2. \A x \in D, y \in E : f[<<x, y>>] \in Int
  BY DEF Table
<1>3. \A x \in D : rowAt(x) \in [E -> Int]
  BY <1>2
<1>4. \A T \in SUBSET D, y \in E : colOn(T, y) \in [T -> Int]
  BY <1>2
<1>5. rows \in [D -> Int]
  <2> HIDE DEF rowAt
  <2>1. \A x \in D : SumOf(rowAt(x)) \in Int
    BY <1>3, SumTyped
  <2> QED
    BY <2>1
<1>6. \A T \in SUBSET D : cols(T) \in [E -> Int]
  <2> HIDE DEF colOn
  <2>1. \A T \in SUBSET D, y \in E : SumOf(colOn(T, y)) \in Int
    BY <1>1, <1>4, SumTyped
  <2> QED
    BY <2>1
<1>7. \A T \in SUBSET D : Restrict(rows, T) \in [T -> Int]
  BY <1>5 DEF Restrict
<1>8. Odd = {}
  <2> SUFFICES ASSUME Odd # {} PROVE FALSE
    OBVIOUS
  <2>1. Odd \in SUBSET SUBSET D
    OBVIOUS
  <2> HIDE DEF Odd
  <2>2. PICK T \in Odd : \A x \in T : T \ {x} \notin Odd
    BY <2>1, Smallest
  <2>3. T \in SUBSET D /\ IsFiniteSet(T)
    BY <1>1, <2>1
  <2>4. CASE T = {}
    <3>1. Restrict(rows, T) \in [{} -> Int]
      BY <1>7, <2>3, <2>4
    <3> DEFINE none == Restrict(rows, T)
    <3> HIDE DEF none
    <3>2. SumOf(none) = 0
      BY <3>1, SumNothing DEF none
    <3>3. \A y \in E : SumOf(colOn(T, y)) = 0
      <4> SUFFICES ASSUME NEW y \in E PROVE SumOf(colOn(T, y)) = 0
        OBVIOUS
      <4>1. colOn(T, y) \in [{} -> Int]
        BY <2>4
      <4> HIDE DEF colOn
      <4> QED
        BY <4>1, SumNothing
    <3>4. cols(T) \in [E -> Int] /\ \A y \in E : cols(T)[y] = 0
      <4> HIDE DEF colOn
      <4> QED
        BY <3>3
    <3> HIDE DEF cols
    <3>5. SumOf(cols(T)) = 0
      BY <3>4, SumZero
    <3> QED
      BY <3>2, <3>5 DEF Odd, none
  <2>5. CASE T # {}
    <3>1. PICK x \in T : TRUE
      BY <2>5
    <3> DEFINE U == T \ {x}
    <3>2. U \in SUBSET D /\ x \in D /\ U \notin Odd
      BY <2>2, <2>3
    <3>3. SumOf(Restrict(rows, T)) = rows[x] + SumOf(Restrict(rows, U))
      <4> DEFINE r == Restrict(rows, T)
      <4>1. r \in [T -> Int]
        BY <1>7, <2>3
      <4>2. Restrict(r, U) = Restrict(rows, U) /\ r[x] = rows[x]
        BY DEF Restrict
      <4> HIDE DEF r
      <4>3. SumOf(r) = r[x] + SumOf(Restrict(r, T \ {x}))
        BY <2>3, <4>1, SumRemove
      <4> QED
        BY <4>2, <4>3 DEF r
    <3>4. \A y \in E : SumOf(colOn(T, y)) = f[<<x, y>>] + SumOf(colOn(U, y))
      <4> SUFFICES ASSUME NEW y \in E PROVE SumOf(colOn(T, y)) = f[<<x, y>>] + SumOf(colOn(U, y))
        OBVIOUS
      <4> DEFINE c == colOn(T, y)
      <4>1. c \in [T -> Int] /\ c[x] = f[<<x, y>>]
        BY <1>4, <2>3
      <4>2. Restrict(c, U) = colOn(U, y)
        BY DEF Restrict
      <4> HIDE DEF c
      <4>3. SumOf(c) = c[x] + SumOf(Restrict(c, T \ {x}))
        BY <2>3, <4>1, SumRemove
      <4>4. SumOf(c) = f[<<x, y>>] + SumOf(Restrict(c, U))
        BY <4>1, <4>3
      <4> HIDE DEF U
      <4> QED
        BY <4>2, <4>4 DEF c
    <3>5. SumOf(cols(T)) = SumOf(rowAt(x)) + SumOf(cols(U))
      <4>1. cols(T) \in [E -> Int] /\ cols(U) \in [E -> Int] /\ rowAt(x) \in [E -> Int]
        BY <1>3, <1>6, <2>3, <3>2
      <4>2. \A y \in E : cols(T)[y] = rowAt(x)[y] + cols(U)[y]
        <5> SUFFICES ASSUME NEW y \in E PROVE cols(T)[y] = rowAt(x)[y] + cols(U)[y]
          OBVIOUS
        <5>1. cols(T)[y] = SumOf(colOn(T, y)) /\ cols(U)[y] = SumOf(colOn(U, y))
          OBVIOUS
        <5>2. rowAt(x)[y] = f[<<x, y>>]
          OBVIOUS
        <5> HIDE DEF cols, colOn, rowAt, U
        <5> QED
          BY <3>4, <5>1, <5>2
      <4> HIDE DEF cols, rowAt, U
      <4> QED
        BY <4>1, <4>2, SumPlus
    <3>6. rows[x] = SumOf(rowAt(x))
      BY <3>2
    <3>7. SumOf(Restrict(rows, U)) = SumOf(cols(U))
      <4> HIDE DEF rows, cols, U
      <4> QED
        BY <3>2 DEF Odd
    <3>8. SumOf(Restrict(rows, T)) = SumOf(cols(T))
      <4> HIDE DEF rows, cols, rowAt, U
      <4> QED
        BY <3>3, <3>5, <3>6, <3>7
    <3> QED
      <4> HIDE DEF rows, cols
      <4> QED
        BY <2>2, <3>8 DEF Odd
  <2> QED
    BY <2>4, <2>5
<1>9. SumOf(Restrict(rows, D)) = SumOf(cols(D))
  <2> HIDE DEF rows, cols
  <2> QED
    BY <1>8
<1>10. Restrict(rows, D) = rows
  BY DEF Restrict
<1>11. SumOf(rows) = SumOf(cols(D))
  <2> HIDE DEF rows, cols
  <2> QED
    BY <1>9, <1>10
<1>12. rows = RowSums(f, D, E) /\ cols(D) = ColSums(f, D, E)
  BY DEF RowSums, ColSums
<1> QED
  <2> HIDE DEF rows, cols
  <2> QED
    BY <1>11, <1>12

\* The sum of the sums of groups.
LEMMA SumGroups ==
  ASSUME NEW D, IsFiniteSet(D), NEW K, IsFiniteSet(K), NEW f \in [D -> Int], NEW key \in [D -> K]
  PROVE  SumOf([k \in K |-> SumOf(Restrict(f, {x \in D : key[x] = k}))]) = SumOf(f)
<1> DEFINE t == [p \in K \X D |-> IF key[p[2]] = p[1] THEN f[p[2]] ELSE 0]
           In(k) == {x \in D : key[x] = k}
           rowAt(k) == [x \in D |-> t[<<k, x>>]]
           colAt(x) == [k \in K |-> t[<<k, x>>]]
<1>1. t \in Table(K, D)
  BY DEF Table
<1>2. SumOf([k \in K |-> SumOf(rowAt(k))]) = SumOf([x \in D |-> SumOf(colAt(x))])
  <2> HIDE DEF t
  <2>1. SumOf(RowSums(t, K, D)) = SumOf(ColSums(t, K, D))
    BY <1>1, SumSwap
  <2> QED
    BY <2>1 DEF RowSums, ColSums
<1>3. ASSUME NEW k \in K PROVE SumOf(rowAt(k)) = SumOf(Restrict(f, In(k)))
  <2> DEFINE r == rowAt(k)
             S == In(k)
  <2>1. r \in [D -> Int] /\ S \in SUBSET D /\ \A x \in D \ S : r[x] = 0
    OBVIOUS
  <2>2. Restrict(r, S) = Restrict(f, S)
    BY DEF Restrict
  <2> HIDE DEF r, S
  <2>3. SumOf(r) = SumOf(Restrict(r, S))
    BY <2>1, SumOver
  <2>4. SumOf(r) = SumOf(Restrict(f, S))
    BY <2>2, <2>3
  <2> QED
    BY <2>4 DEF r, S
<1>4. ASSUME NEW x \in D PROVE SumOf(colAt(x)) = f[x]
  <2> DEFINE c == colAt(x)
             E == {key[x]}
  <2>1. c \in [K -> Int] /\ E \in SUBSET K /\ \A k \in K \ E : c[k] = 0
    OBVIOUS
  <2>2. Restrict(c, E) \in [{key[x]} -> Int] /\ Restrict(c, E)[key[x]] = f[x]
    BY DEF Restrict
  <2> HIDE DEF c
  <2>3. SumOf(c) = SumOf(Restrict(c, E))
    BY <2>1, SumOver
  <2> DEFINE one == Restrict(c, E)
             y == key[x]
  <2> HIDE DEF one, E, y
  <2>4. one \in [{y} -> Int] /\ one[y] = f[x]
    BY <2>2 DEF one, y
  <2>5. SumOf(one) = one[y]
    BY <2>4, SumOne
  <2>6. SumOf(c) = f[x]
    BY <2>3, <2>4, <2>5 DEF one
  <2> QED
    BY <2>6 DEF c
<1>5. [x \in D |-> SumOf(colAt(x))] = f
  <2> HIDE DEF colAt
  <2>1. f = [x \in D |-> f[x]]
    OBVIOUS
  <2> QED
    BY <1>4, <2>1
<1>6. [k \in K |-> SumOf(rowAt(k))] = [k \in K |-> SumOf(Restrict(f, In(k)))]
  <2> HIDE DEF rowAt, In
  <2> QED
    BY <1>3
<1>7. SumOf([k \in K |-> SumOf(Restrict(f, In(k)))]) = SumOf(f)
  <2> HIDE DEF rowAt, colAt, In
  <2> QED
    BY <1>2, <1>5, <1>6
<1> QED
  BY <1>7

\* What each number adds to the one before it adds up to the last.
LEMMA SumTelescope ==
  ASSUME NEW A \in SUBSET Int, IsFiniteSet(A), NEW v \in [A -> Int], NEW d \in [A -> Int],
         \A m \in A : LET before == {k \in A : k < m}
                      IN  d[m] = v[m] - IF before = {} THEN 0 ELSE v[Max(before)],
         NEW m \in A
  PROVE  SumOf(Restrict(d, {k \in A : k <= m})) = v[m]
<1> DEFINE Upto(n) == {k \in A : k <= n}
           Before(n) == {k \in A : k < n}
           s(T) == SumOf(Restrict(d, T))
           Odd == {T \in SUBSET A : \E n \in A : T = Upto(n) /\ s(T) # v[n]}
<1>1. ASSUME NEW n \in A, Upto(n) \in Odd, \A x \in Upto(n) : Upto(n) \ {x} \notin Odd PROVE FALSE
  <2>1. Upto(n) \ {n} = Before(n) /\ n \in Upto(n)
    <3>1. \A k \in A : (k <= n /\ k # n) <=> k < n
      OBVIOUS
    <3>2. n <= n
      OBVIOUS
    <3> QED
      BY <3>1, <3>2
  <2>2. /\ IsFiniteSet(Upto(n)) /\ IsFiniteSet(Before(n)) /\ Before(n) \in SUBSET Int
        /\ Before(n) \in SUBSET A
    BY FS_Subset
  <2>3. s(Upto(n)) = d[n] + s(Before(n))
    <3> DEFINE e == Restrict(d, Upto(n))
    <3>1. e \in [Upto(n) -> Int] /\ e[n] = d[n]
      BY <2>1 DEF Restrict
    <3>2. Restrict(e, Before(n)) = Restrict(d, Before(n))
      <4>1. \A k \in Before(n) : k \in Upto(n)
        OBVIOUS
      <4> HIDE DEF Before, Upto
      <4> QED
        BY <4>1 DEF Restrict
    <3> HIDE DEF e
    <3> DEFINE U == Upto(n)
    <3>3. n \in U /\ IsFiniteSet(U) /\ e \in [U -> Int]
      BY <2>1, <2>2, <3>1
    <3> HIDE DEF U
    <3>4. SumOf(e) = e[n] + SumOf(Restrict(e, U \ {n}))
      BY <3>3, SumRemove
    <3>5. SumOf(e) = e[n] + SumOf(Restrict(e, Before(n)))
      <4> HIDE DEF Before, Upto
      <4> QED
        BY <2>1, <3>4 DEF U
    <3> HIDE DEF Before, Upto
    <3> QED
      BY <3>1, <3>2, <3>5 DEF e
  <2>4. d[n] \in Int /\ v[n] \in Int
    OBVIOUS
  <2>5. d[n] = v[n] - IF Before(n) = {} THEN 0 ELSE v[Max(Before(n))]
    OBVIOUS
  <2>6. s(Upto(n)) # v[n]
    <3>1. PICK k \in A : Upto(n) = Upto(k) /\ s(Upto(n)) # v[k]
      BY <1>1
    <3>2. n \in Upto(k) /\ k \in Upto(n)
      BY <3>1
    <3>3. k = n
      BY <3>2
    <3> HIDE DEF s, Upto
    <3> QED
      BY <3>1, <3>3
  <2>7. CASE Before(n) = {}
    <3> DEFINE none == Restrict(d, Before(n))
    <3>1. none \in [{} -> Int]
      BY <2>7 DEF Restrict
    <3> HIDE DEF none
    <3>2. SumOf(none) = 0
      BY <3>1, SumNothing
    <3>3. s(Before(n)) = 0
      BY <3>2 DEF none
    <3> HIDE DEF s, Upto, Before
    <3> QED
      BY <2>3, <2>4, <2>5, <2>6, <2>7, <3>3
  <2>8. CASE Before(n) # {}
    <3> DEFINE p == Max(Before(n))
    <3>1. p \in Before(n) /\ \A k \in Before(n) : k <= p
      <4> HIDE DEF Before
      <4> QED
        BY <2>2, <2>8, MaxIs
    <3> HIDE DEF p
    <3>2. Before(n) = Upto(p) /\ p \in A /\ v[p] \in Int
      <4>1. p \in A /\ p < n
        BY <3>1
      <4>2. \A k \in A : k < n <=> k <= p
        BY <3>1, <4>1
      <4> QED
        BY <4>1, <4>2
    <3>3. Before(n) \notin Odd
      <4> HIDE DEF Odd, Before, Upto
      <4> QED
        BY <1>1, <2>1
    <3>4. s(Before(n)) = v[p]
      <4> HIDE DEF s, Before, Upto
      <4> QED
        BY <2>2, <3>2, <3>3
    <3>5. d[n] = v[n] - v[p]
      <4> HIDE DEF Before
      <4> QED
        BY <2>5, <2>8 DEF p
    <3> HIDE DEF s, Upto, Before
    <3> QED
      BY <2>3, <2>4, <2>6, <3>2, <3>4, <3>5
  <2> QED
    BY <2>7, <2>8
<1>2. Odd = {}
  <2> SUFFICES ASSUME Odd # {} PROVE FALSE
    OBVIOUS
  <2>1. Odd \in SUBSET SUBSET A
    OBVIOUS
  <2>2. \A T \in Odd : \E n \in A : T = Upto(n)
    OBVIOUS
  <2> HIDE DEF Odd
  <2>3. PICK T \in Odd : \A x \in T : T \ {x} \notin Odd
    BY <2>1, Smallest
  <2>4. PICK n \in A : T = Upto(n)
    BY <2>2
  <2> HIDE DEF Upto
  <2> QED
    BY <1>1, <2>3, <2>4
<1>3. Upto(m) \in SUBSET A
  OBVIOUS
<1>4. s(Upto(m)) = v[m]
  <2> HIDE DEF s, Upto
  <2> QED
    BY <1>2, <1>3
<1> QED
  BY <1>4

\* The sum of what each number adds to the one before it, the first to c.
AreSteps(d, v, c, A) ==
  \A m \in A : LET before == {k \in A : k < m}
               IN  d[m] = v[m] - IF before = {} THEN c ELSE v[Max(before)]

LEMMA SumOfSteps ==
  ASSUME NEW A \in SUBSET Int, IsFiniteSet(A), NEW v \in [A -> Int], NEW d \in [A -> Int],
         NEW c \in Int, AreSteps(d, v, c, A),
         NEW last \in A, \A k \in A : k <= last
  PROVE  SumOf(d) = v[last] - c
<1> DEFINE w == [m \in A |-> v[m] - c]
           Before(m) == {k \in A : k < m}
<1>1. w \in [A -> Int]
  OBVIOUS
<1>2. ASSUME NEW m \in A
      PROVE LET before == {k \in A : k < m} IN d[m] = w[m] - IF before = {} THEN 0 ELSE w[Max(before)]
  <2> DEFINE B == Before(m)
  <2>1. d[m] = v[m] - IF B = {} THEN c ELSE v[Max(B)]
    BY DEF AreSteps
  <2>2. w[m] = v[m] - c /\ v[m] \in Int
    OBVIOUS
  <2>3. ASSUME B # {} PROVE w[Max(B)] = v[Max(B)] - c /\ v[Max(B)] \in Int
    <3> DEFINE p == Max(B)
    <3>1. B \in SUBSET Int /\ B \in SUBSET A
      OBVIOUS
    <3>2. IsFiniteSet(B)
      BY <3>1, FS_Subset
    <3>3. p \in A
      <4> HIDE DEF B
      <4>1. Max(B) \in B
        BY <2>3, <3>1, <3>2, MaxIs
      <4> QED
        BY <3>1, <4>1
    <3> HIDE DEF p
    <3>4. w[p] = v[p] - c /\ v[p] \in Int
      BY <3>3
    <3> QED
      BY <3>4 DEF p
  <2> HIDE DEF B, w
  <2>4. d[m] = w[m] - IF B = {} THEN 0 ELSE w[Max(B)]
    <3>1. CASE B = {}
      BY <2>1, <2>2, <3>1
    <3>2. CASE B # {}
      BY <2>1, <2>2, <2>3, <3>2
    <3> QED
      BY <3>1, <3>2
  <2> QED
    BY <2>4 DEF B
<1> HIDE DEF w
<1>3. SumOf(Restrict(d, {k \in A : k <= last})) = w[last]
  BY <1>1, <1>2, SumTelescope
<1>4. {k \in A : k <= last} = A
  OBVIOUS
<1>5. Restrict(d, A) = d
  BY SumWhole
<1>6. SumOf(d) = w[last]
  BY <1>3, <1>4, <1>5, Zenon
<1> QED
  BY <1>6 DEF w

-----------------------------------------------------------------------------
(* Passes over numbers in their order.                                     *)

\* g is what a pass over each part makes of a, a step being F.
IsPass(g, D, a, F) ==
  \A S \in SUBSET D : g[S] = IF S = {} THEN a ELSE F[<<g[S \ {Max(S)}], Max(S)>>]

\* It exists, by induction over the size of the parts.
LEMMA PassExists ==
  ASSUME NEW D \in SUBSET Nat, IsFiniteSet(D), NEW A, NEW a \in A, NEW F \in [A \X D -> A]
  PROVE  \E g \in [SUBSET D -> A] : IsPass(g, D, a, F)
<1> DEFINE Parts(n) == {S \in SUBSET D : Cardinality(S) <= n}
           Step(g, S) == IF S = {} THEN a ELSE F[<<g[S \ {Max(S)}], Max(S)>>]
           Fine(n, g) == g \in [Parts(n) -> A] /\ \A S \in Parts(n) : g[S] = Step(g, S)
           Bad == {n \in Nat : ~ \E g : Fine(n, g)}
<1>1. \A S \in SUBSET D : /\ IsFiniteSet(S) /\ Cardinality(S) \in Nat
                          /\ Cardinality(S) <= Cardinality(D)
                          /\ Cardinality(S) = 0 => S = {}
  BY FS_Subset, FS_CardinalityType, FS_EmptySet
<1>2. ASSUME NEW S \in SUBSET D, S # {}
      PROVE  /\ Max(S) \in S /\ Max(S) \in D /\ S \ {Max(S)} \in SUBSET D
             /\ Cardinality(S \ {Max(S)}) = Cardinality(S) - 1
  <2>1. S \in SUBSET Int /\ IsFiniteSet(S)
    BY <1>1
  <2>2. Max(S) \in S
    BY <1>2, <2>1, MaxIs
  <2> QED
    BY <2>1, <2>2, FS_RemoveElement
<1>3. Bad = {}
  <2> SUFFICES ASSUME Bad # {} PROVE FALSE
    OBVIOUS
  <2>1. PICK n \in Bad : \A k \in Bad : n <= k
    BY MinExists
  <2>2. CASE n = 0
    <3> DEFINE g == [S \in Parts(0) |-> a]
    <3>1. \A S \in Parts(0) : S = {}
      BY <1>1
    <3>2. Fine(0, g)
      BY <3>1
    <3> QED
      BY <2>1, <2>2, <3>2
  <2>3. CASE n # 0
    <3>0. n \in Nat /\ n - 1 \in Nat /\ ~ (n <= n - 1)
      BY <2>1, <2>3
    <3>1. n - 1 \in Nat /\ n - 1 \notin Bad
      BY <2>1, <3>0
    <3>2. PICK g : Fine(n - 1, g)
      BY <3>1
    <3> DEFINE h == [S \in Parts(n) |-> Step(g, S)]
    <3>3. \A S \in Parts(n) : S # {} => S \ {Max(S)} \in Parts(n - 1)
      <4> SUFFICES ASSUME NEW S \in Parts(n), S # {} PROVE S \ {Max(S)} \in Parts(n - 1)
        OBVIOUS
      <4>1. /\ S \ {Max(S)} \in SUBSET D
            /\ Cardinality(S \ {Max(S)}) = Cardinality(S) - 1
        BY <1>2
      <4>2. Cardinality(S) \in Nat /\ Cardinality(S) <= n
        BY <1>1
      <4>3. Cardinality(S) - 1 <= n - 1
        BY <3>0, <4>2
      <4> QED
        BY <4>1, <4>3
    <3>4. h \in [Parts(n) -> A]
      <4>1. ASSUME NEW S \in Parts(n) PROVE Step(g, S) \in A
        <5>1. CASE S = {}
          BY <5>1
        <5>2. CASE S # {}
          <6>1. g[S \ {Max(S)}] \in A
            <7>1. g \in [Parts(n - 1) -> A]
              BY <3>2
            <7>2. S \ {Max(S)} \in Parts(n - 1)
              BY <3>3, <5>2
            <7> HIDE DEF Parts, Fine
            <7> QED
              BY <7>1, <7>2
          <6>2. Max(S) \in D
            BY <1>2, <5>2
          <6>3. F[<<g[S \ {Max(S)}], Max(S)>>] \in A
            BY <6>1, <6>2
          <6> QED
            BY <5>2, <6>3
        <5> QED
          BY <5>1, <5>2
      <4> HIDE DEF Step, Parts
      <4> QED
        BY <4>1
    <3>5. \A S \in Parts(n - 1) : S \in Parts(n) /\ h[S] = g[S]
      <4>1. \A S \in Parts(n - 1) : S \in Parts(n)
        <5> SUFFICES ASSUME NEW S \in Parts(n - 1) PROVE Cardinality(S) <= n
          OBVIOUS
        <5>1. Cardinality(S) \in Nat /\ Cardinality(S) <= n - 1
          BY <1>1
        <5> QED
          BY <3>0, <5>1
      <4>2. \A S \in Parts(n - 1) : g[S] = Step(g, S)
        BY <3>2
      <4>3. \A S \in Parts(n) : h[S] = Step(g, S)
        OBVIOUS
      <4> HIDE DEF h, Parts, Fine
      <4> QED
        BY <4>1, <4>2, <4>3
    <3>6. \A S \in Parts(n) : h[S] = Step(h, S)
      <4>1. \A S \in Parts(n) : h[S] = Step(g, S)
        OBVIOUS
      <4>2. \A S \in Parts(n) : S # {} => h[S \ {Max(S)}] = g[S \ {Max(S)}]
        BY <3>3, <3>5
      <4> HIDE DEF h, Parts
      <4> QED
        BY <4>1, <4>2
    <3>7. Fine(n, h)
      BY <3>4, <3>6
    <3> QED
      BY <2>1, <3>7
  <2> QED
    BY <2>2, <2>3
<1>4. Cardinality(D) \in Nat /\ Parts(Cardinality(D)) = SUBSET D
  BY <1>1
<1>5. PICK g : Fine(Cardinality(D), g)
  BY <1>3, <1>4
<1>6. g \in [SUBSET D -> A] /\ \A S \in SUBSET D : g[S] = Step(g, S)
  BY <1>4, <1>5
<1> QED
  BY <1>6 DEF IsPass

\* What holds of no numbers, and of some if of all but the last of them, holds
\* of all of them.
LEMMA InTheirOrder ==
  ASSUME NEW D \in SUBSET Nat, IsFiniteSet(D), NEW Good \in SUBSET SUBSET D, {} \in Good,
         \A S \in SUBSET D : S # {} /\ S \ {Max(S)} \in Good => S \in Good
  PROVE  D \in Good
<1> DEFINE Bad == (SUBSET D) \ Good
<1> SUFFICES ASSUME Bad # {} PROVE FALSE
  OBVIOUS
<1>1. Bad \in SUBSET SUBSET D
  OBVIOUS
<1>2. PICK S \in Bad : \A x \in S : S \ {x} \notin Bad
  <2> HIDE DEF Bad
  <2> QED
    BY <1>1, Smallest
<1>3. S \in SUBSET D /\ S \notin Good
  OBVIOUS
<1>4. S # {}
  BY <1>3
<1>5. Max(S) \in S
  <2> HIDE DEF Bad
  <2>1. IsFiniteSet(S)
    BY <1>3, FS_Subset
  <2>2. S \in SUBSET Int
    BY <1>3
  <2> QED
    BY <1>4, <2>1, <2>2, MaxIs
<1>6. S \ {Max(S)} \in Good
  <2>1. S \ {Max(S)} \notin Bad
    BY <1>2, <1>5
  <2>2. S \ {Max(S)} \in SUBSET D
    BY <1>3
  <2> QED
    BY <2>1, <2>2
<1> QED
  BY <1>3, <1>4, <1>6

\* The last of some numbers, and the others.
LEMMA LastIs ==
  ASSUME NEW S \in SUBSET Nat, IsFiniteSet(S), S # {}
  PROVE  /\ Max(S) \in S /\ Max(S) \in Nat
         /\ S \ {Max(S)} \in SUBSET Nat /\ IsFiniteSet(S \ {Max(S)})
         /\ \A k \in S \ {Max(S)} : k < Max(S)
<1> DEFINE m == Max(S)
           T == S \ {m}
<1>1. m \in S /\ \A k \in S : k <= m
  <2>1. S \in SUBSET Int
    OBVIOUS
  <2> QED
    BY <2>1, MaxIs
<1> HIDE DEF m
<1>2. \A k \in T : k < m
  BY <1>1
<1>3. IsFiniteSet(T)
  BY FS_RemoveElement
<1> QED
  BY <1>1, <1>2, <1>3 DEF m

-----------------------------------------------------------------------------
(* Runs of consecutive members of K among some numbers.                    *)

Between(S, a, b) == {k \in S : a <= k /\ k <= b}

\* The run that the numbers end with.
LastRun(S, K) == {k \in S : \A j \in S : k <= j => j \in K}

\* The run they end with has now members, the longest most.
AreRuns(S, K, now, most) ==
  /\ now \in Nat /\ most \in Nat
  /\ now = Cardinality(LastRun(S, K))
  /\ \A a, b \in S : Between(S, a, b) \in SUBSET K => Cardinality(Between(S, a, b)) <= most
  /\ most = 0 \/ \E a, b \in S : /\ Between(S, a, b) \in SUBSET K
                                 /\ Cardinality(Between(S, a, b)) = most

LEMMA NoRuns == ASSUME NEW K PROVE AreRuns({}, K, 0, 0)
<1>1. LastRun({}, K) = {}
  BY DEF LastRun
<1>2. Cardinality({}) = 0
  BY FS_EmptySet
<1> QED
  BY <1>1, <1>2 DEF AreRuns

LEMMA LongerOf ==
  ASSUME NEW m \in Nat, NEW n \in Nat
  PROVE  Max({m, n}) = IF m <= n THEN n ELSE m
<1> DEFINE x == IF m <= n THEN n ELSE m
           S == {m, n}
<1>1. S \in SUBSET Int /\ x \in S /\ \A k \in S : k <= x
  OBVIOUS
<1> HIDE DEF S, x
<1>2. Max(S) = x
  BY <1>1, MaxIsOnly
<1> QED
  BY <1>2 DEF S, x

LEMMA RunsGoOn ==
  ASSUME NEW S \in SUBSET Nat, IsFiniteSet(S), S # {}, NEW K, NEW now, NEW most,
         AreRuns(S \ {Max(S)}, K, now, most)
  PROVE  LET longer == IF Max(S) \in K THEN now + 1 ELSE 0
         IN  AreRuns(S, K, longer, Max({longer, most}))
<1> DEFINE m == Max(S)
           T == S \ {m}
           longer == IF m \in K THEN now + 1 ELSE 0
           top == Max({longer, most})
           last == LastRun(S, K)
<1>1. m \in S /\ m \in Nat /\ T \in SUBSET Nat /\ IsFiniteSet(T) /\ \A k \in T : k < m
  BY LastIs
<1>2. now \in Nat /\ most \in Nat /\ longer \in Nat
  BY DEF AreRuns
<1>3. top \in Nat /\ longer <= top /\ most <= top /\ (top = longer \/ top = most)
  <2> HIDE DEF longer
  <2> QED
    BY <1>2, LongerOf
<1>4. /\ now = Cardinality(LastRun(T, K))
      /\ \A a, b \in T : Between(T, a, b) \in SUBSET K => Cardinality(Between(T, a, b)) <= most
      /\ most = 0 \/ \E a, b \in T : /\ Between(T, a, b) \in SUBSET K
                                     /\ Cardinality(Between(T, a, b)) = most
  BY DEF AreRuns
<1>5. T \in SUBSET S /\ S = T \cup {m} /\ m \notin T
  BY <1>1
<1>6. \A a, b \in T : Between(S, a, b) = Between(T, a, b)
  <2> HIDE DEF T, m
  <2> SUFFICES ASSUME NEW a \in T, NEW b \in T PROVE Between(S, a, b) = Between(T, a, b)
    OBVIOUS
  <2>1. ~(m <= b)
    <3>1. b < m /\ b \in Nat /\ m \in Nat
      BY <1>1
    <3> QED
      BY <3>1
  <2> QED
    BY <1>5, <2>1 DEF Between
<1>7. longer = Cardinality(last)
  <2> HIDE DEF T, m
  <2>1. CASE m \in K
    <3>1. last = LastRun(T, K) \cup {m}
      <4>1. \A j \in S : m <= j => j \in K
        <5> SUFFICES ASSUME NEW j \in S, m <= j PROVE j \in K
          OBVIOUS
        <5>1. j = m
          <6>1. j \notin T
            <7> SUFFICES ASSUME j \in T PROVE FALSE
              OBVIOUS
            <7>1. j < m /\ j \in Nat
              BY <1>1
            <7> QED
              BY <1>1, <7>1
          <6> QED
            BY <1>5, <6>1
        <5> QED
          BY <2>1, <5>1
      <4>2. \A k \in T : (\A j \in S : k <= j => j \in K) <=> (\A j \in T : k <= j => j \in K)
        BY <1>5, <2>1
      <4> QED
        BY <1>5, <4>1, <4>2 DEF LastRun
    <3>2. LastRun(T, K) \in SUBSET T
      BY DEF LastRun
    <3>3. IsFiniteSet(LastRun(T, K)) /\ m \notin LastRun(T, K)
      BY <1>1, <1>5, <3>2, FS_Subset
    <3>4. Cardinality(LastRun(T, K) \cup {m}) = Cardinality(LastRun(T, K)) + 1
      BY <3>3, FS_AddElement
    <3> QED
      BY <1>4, <2>1, <3>1, <3>4
  <2>2. CASE m \notin K
    <3>1. last = {}
      <4> SUFFICES ASSUME NEW k \in last PROVE FALSE
        OBVIOUS
      <4>1. k \in S /\ \A j \in S : k <= j => j \in K
        BY DEF LastRun
      <4>2. k <= m
        <5>1. k = m \/ k < m
          BY <1>1, <1>5, <4>1
        <5>2. k \in Nat
          BY <4>1
        <5> QED
          BY <1>1, <5>1, <5>2
      <4> QED
        BY <1>1, <2>2, <4>1, <4>2
    <3>2. Cardinality({}) = 0
      BY FS_EmptySet
    <3> QED
      BY <2>2, <3>1, <3>2
  <2> QED
    BY <2>1, <2>2
<1>8. last \in SUBSET S /\ IsFiniteSet(last)
  <2>1. last \in SUBSET S
    BY DEF LastRun
  <2> QED
    BY <2>1, FS_Subset
<1> HIDE DEF T, m, longer, top, last
<1>9. ASSUME NEW a \in S, NEW b \in S, Between(S, a, b) \in SUBSET K
      PROVE  Cardinality(Between(S, a, b)) <= top
  <2> DEFINE B == Between(S, a, b)
  <2>1. B \in SUBSET S
    BY DEF Between
  <2>2. IsFiniteSet(B) /\ Cardinality(B) \in Nat
    BY <2>1, FS_Subset, FS_CardinalityType
  <2>3. CASE b = m
    <3>1. B \in SUBSET last
      <4> SUFFICES ASSUME NEW k \in B PROVE k \in last
        OBVIOUS
      <4>1. k \in S /\ a <= k /\ k \in Nat /\ a \in Nat
        BY DEF Between
      <4>2. ASSUME NEW j \in S, k <= j PROVE j \in K
        <5>1. j \in Nat /\ (j = m \/ j < m)
          BY <1>1, <1>5
        <5>2. a <= j /\ j <= b
          BY <1>1, <2>3, <4>1, <4>2, <5>1
        <5>3. j \in B
          BY <5>2 DEF Between
        <5> QED
          BY <1>9, <5>3
      <4> QED
        BY <4>1, <4>2 DEF last, LastRun
    <3>2. Cardinality(B) <= Cardinality(last)
      BY <1>8, <3>1, FS_Subset
    <3> HIDE DEF B
    <3>3. Cardinality(B) <= top
      BY <1>2, <1>3, <1>7, <2>2, <3>2
    <3> QED
      BY <3>3 DEF B
  <2>4. CASE b # m /\ a # m
    <3>1. a \in T /\ b \in T
      BY <1>5, <2>4
    <3>2. B = Between(T, a, b)
      BY <1>6, <3>1
    <3>3. Cardinality(B) <= most
      BY <1>4, <1>9, <3>1, <3>2
    <3> HIDE DEF B
    <3>4. Cardinality(B) <= top
      BY <1>2, <1>3, <2>2, <3>3
    <3> QED
      BY <3>4 DEF B
  <2>5. CASE b # m /\ a = m
    <3>1. B = {}
      <4> SUFFICES ASSUME NEW k \in B PROVE FALSE
        OBVIOUS
      <4>1. k \in Nat /\ a <= k /\ k <= b
        BY DEF Between
      <4>2. b \in Nat /\ b < m
        BY <1>5, <1>1, <2>5
      <4> QED
        BY <1>1, <2>5, <4>1, <4>2
    <3>2. Cardinality(B) = 0
      BY <3>1, FS_EmptySet
    <3> QED
      BY <1>3, <3>2
  <2> QED
    BY <2>3, <2>4, <2>5
<1>10. top = 0 \/ \E a, b \in S : /\ Between(S, a, b) \in SUBSET K
                                  /\ Cardinality(Between(S, a, b)) = top
  <2>1. CASE top = most
    <3> SUFFICES ASSUME most # 0
                 PROVE  \E a, b \in S : /\ Between(S, a, b) \in SUBSET K
                                        /\ Cardinality(Between(S, a, b)) = most
      BY <2>1
    <3>1. PICK a \in T, b \in T : /\ Between(T, a, b) \in SUBSET K
                                  /\ Cardinality(Between(T, a, b)) = most
      BY <1>4
    <3>2. Between(S, a, b) = Between(T, a, b) /\ a \in S /\ b \in S
      BY <1>5, <1>6
    <3> QED
      BY <3>1, <3>2, Zenon
  <2>2. CASE top = longer /\ longer # 0
    <3> DEFINE a == Min(last)
    <3>1. last # {}
      BY <1>7, <2>2, FS_EmptySet
    <3>2. a \in last /\ \A k \in last : a <= k
      BY <1>8, <3>1, MinIs
    <3> HIDE DEF a
    <3>3. a \in S /\ a \in Nat /\ \A j \in S : a <= j => j \in K
      BY <3>2 DEF last, LastRun
    <3>4. Between(S, a, m) = last
      <4>1. ASSUME NEW k \in Between(S, a, m) PROVE k \in last
        <5>1. k \in S /\ a <= k /\ k \in Nat
          BY DEF Between
        <5>2. ASSUME NEW j \in S, k <= j PROVE j \in K
          <6>1. j \in Nat /\ a <= j
            BY <3>3, <5>1, <5>2
          <6> QED
            BY <3>3, <6>1
        <5> QED
          BY <5>1, <5>2 DEF last, LastRun
      <4>2. ASSUME NEW k \in last PROVE k \in Between(S, a, m)
        <5>1. k \in S /\ a <= k /\ (k = m \/ k < m) /\ k \in Nat
          BY <1>1, <1>5, <1>8, <3>2
        <5>2. k <= m
          BY <1>1, <5>1
        <5> QED
          BY <5>1, <5>2 DEF Between
      <4> QED
        BY <4>1, <4>2
    <3>5. last \in SUBSET K
      <4> SUFFICES ASSUME NEW k \in last PROVE k \in K
        OBVIOUS
      <4>1. k \in Nat /\ k \in S /\ \A j \in S : k <= j => j \in K
        BY <1>8 DEF last, LastRun
      <4> QED
        BY <4>1
    <3> QED
      BY <1>1, <1>7, <2>2, <3>3, <3>4, <3>5
  <2> QED
    BY <1>3, <2>1, <2>2
<1>11. AreRuns(S, K, longer, top)
  BY <1>2, <1>3, <1>7, <1>9, <1>10 DEF AreRuns, last
<1> QED
  BY <1>11 DEF longer, top, m

=============================================================================
