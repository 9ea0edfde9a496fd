----------------------------- MODULE SumTheorems -----------------------------
(* Sums of a function over a finite set: what SumFunctionOnSet and           *)
(* SumFunction of module Functions return.                                   *)
EXTENDS Functions, FiniteSetTheorems, WellFoundedInduction, TLAPS

\* The element of a set that a sum takes first.
First(S) == CHOOSE x \in S : TRUE

\* The recursive function whose value at S the sum of f over S is.
SumsOver(f, S, sums) ==
    sums = [s \in SUBSET S |->
              IF s = {} THEN 0
              ELSE f[First(s)] + sums[s \ {First(s)}]]

LEMMA SumIsChosen ==
    ASSUME NEW f, NEW S
    PROVE  SumFunctionOnSet(f, S) = (CHOOSE sums : SumsOver(f, S, sums))[S]
  BY DEF SumFunctionOnSet, FoldFunctionOnSet, MapThenFoldSet, SumsOver, First

\* Among finite sets there is a smallest one.
LEMMA MinimalSubset ==
    ASSUME NEW S, IsFiniteSet(S), NEW B, B \subseteq SUBSET S, B # {}
    PROVE  \E s \in B : \A t \in SUBSET s : t # s => t \notin B
  <1>1. IsWellFoundedOn(StrictSubsetOrdering(S), SUBSET S)
    BY FS_StrictSubsetOrderingWellFounded, FS_FiniteSubsetsOfFinite
  <1> DEFINE R == StrictSubsetOrdering(S)
  <1>2. PICK s \in B : \A t \in B : <<t, s>> \notin R
    <2> HIDE DEF R
    <2>1. IsWellFoundedOn(R, SUBSET S)
      BY <1>1 DEF R
    <2> QED BY <2>1, WFMin
  <1>3. ASSUME NEW t \in SUBSET s, t # s, t \in B PROVE FALSE
    <2>1. <<t, s>> \in R
      BY <1>3 DEF StrictSubsetOrdering
    <2> QED BY <1>2, <1>3, <2>1
  <1> QED BY <1>2, <1>3

LEMMA SumsStep ==
    ASSUME NEW f, NEW S, NEW sums, SumsOver(f, S, sums), NEW s \in SUBSET S
    PROVE  sums[s] = IF s = {} THEN 0 ELSE f[First(s)] + sums[s \ {First(s)}]
  BY DEF SumsOver

LEMMA FirstIsOne ==
    ASSUME NEW S, S # {}
    PROVE  First(S) \in S
  BY DEF First

\* The sums of the subsets of S are those of the subsets of any T in S.
LEMMA SumsRestrict ==
    ASSUME NEW f, NEW S, NEW sums, SumsOver(f, S, sums), NEW T \in SUBSET S
    PROVE  SumsOver(f, T, [t \in SUBSET T |-> sums[t]])
  <1> DEFINE part == [t \in SUBSET T |-> sums[t]]
  <1>1. ASSUME NEW t \in SUBSET T
        PROVE  part[t] = IF t = {} THEN 0
                 ELSE f[First(t)] + part[t \ {First(t)}]
    <2>1. sums[t] = IF t = {} THEN 0 ELSE f[First(t)] + sums[t \ {First(t)}]
      BY SumsStep
    <2>2. part[t] = sums[t] /\ part[t \ {First(t)}] = sums[t \ {First(t)}]
      OBVIOUS
    <2> QED BY <2>1, <2>2
  <1>2. part = [t \in SUBSET T |-> part[t]]
    OBVIOUS
  <1> QED BY <1>1, <1>2 DEF SumsOver

LEMMA SumsUnique ==
    ASSUME NEW f, NEW S, IsFiniteSet(S),
           NEW g, SumsOver(f, S, g), NEW h, SumsOver(f, S, h)
    PROVE  g = h
  <1> DEFINE B == {s \in SUBSET S : g[s] # h[s]}
  <1>1. B = {}
    <2> SUFFICES ASSUME B # {} PROVE FALSE
      OBVIOUS
    <2>1. PICK s \in B : \A t \in SUBSET s : t # s => t \notin B
      <3> B \subseteq SUBSET S
        OBVIOUS
      <3> HIDE DEF B
      <3> QED BY MinimalSubset
    <2>2. CASE s = {}
      BY <2>1, <2>2, SumsStep
    <2>3. CASE s # {}
      <3>1. First(s) \in s
        BY <2>3, FirstIsOne
      <3>2. g[s \ {First(s)}] = h[s \ {First(s)}]
        BY <2>1, <3>1
      <3>3. g[s] = f[First(s)] + g[s \ {First(s)}] /\ h[s] = f[First(s)] + h[s \ {First(s)}]
        BY <2>1, <2>3, SumsStep
      <3> QED BY <2>1, <3>2, <3>3
    <2> QED BY <2>2, <2>3
  <1>2. \A s \in SUBSET S : g[s] = h[s]
    BY <1>1
  <1>3. g = [s \in SUBSET S |-> g[s]] /\ h = [s \in SUBSET S |-> h[s]]
    BY DEF SumsOver
  <1> QED BY <1>2, <1>3

\* What the sum is where the recursive function is there.
LEMMA SumWhereDefined ==
    ASSUME NEW f, NEW S, IsFiniteSet(S), NEW sums, SumsOver(f, S, sums)
    PROVE  \A T \in SUBSET S : SumFunctionOnSet(f, T) = sums[T]
  <1> TAKE T \in SUBSET S
  <1> DEFINE part == [t \in SUBSET T |-> sums[t]]
             some == CHOOSE g : SumsOver(f, T, g)
  <1>1. SumsOver(f, T, part)
    BY SumsRestrict
  <1>2. SumsOver(f, T, some)
    BY <1>1
  <1>3. IsFiniteSet(T)
    BY FS_Subset
  <1>4. some = part
    <2> HIDE DEF some, part
    <2> QED BY <1>1, <1>2, <1>3, SumsUnique
  <1> QED BY <1>4, SumIsChosen

LEMMA SumsExist ==
    ASSUME NEW f, NEW S, IsFiniteSet(S)
    PROVE  \E sums : SumsOver(f, S, sums)
  <1> DEFINE B == {s \in SUBSET S : ~ \E g : SumsOver(f, s, g)}
  <1>1. B = {}
    <2> SUFFICES ASSUME B # {} PROVE FALSE
      OBVIOUS
    <2>1. PICK s \in B : \A t \in SUBSET s : t # s => t \notin B
      <3> B \subseteq SUBSET S
        OBVIOUS
      <3> HIDE DEF B
      <3> QED BY MinimalSubset
    <2> DEFINE val(t) == IF t = {} THEN 0 ELSE f[First(t)] + SumFunctionOnSet(f, t \ {First(t)})
               g == [t \in SUBSET s |-> val(t)]
    <2>2. ASSUME NEW u \in SUBSET s, u # s
          PROVE  SumFunctionOnSet(f, u) = val(u)
      <3>1. PICK h : SumsOver(f, u, h)
        BY <2>1, <2>2
      <3>2. IsFiniteSet(u)
        BY <2>1, FS_Subset
      <3>3. \A t \in SUBSET u : SumFunctionOnSet(f, t) = h[t]
        BY <3>1, <3>2, SumWhereDefined
      <3>4. h[u] = IF u = {} THEN 0 ELSE f[First(u)] + h[u \ {First(u)}]
        BY <3>1, SumsStep
      <3> QED BY <3>3, <3>4
    <2>3. ASSUME NEW t \in SUBSET s
          PROVE  g[t] = IF t = {} THEN 0 ELSE f[First(t)] + g[t \ {First(t)}]
      <3>1. CASE t = {}
        BY <3>1
      <3>2. CASE t # {}
        <4>1. First(t) \in t
          BY <3>2, FirstIsOne
        <4>2. t \ {First(t)} \in SUBSET s /\ t \ {First(t)} # s
          BY <4>1
        <4>3. g[t \ {First(t)}] = SumFunctionOnSet(f, t \ {First(t)})
          BY <2>2, <4>2
        <4> QED BY <3>2, <4>3
      <3> QED BY <3>1, <3>2
    <2>4. SumsOver(f, s, g)
      <3>1. g = [t \in SUBSET s |-> g[t]]
        OBVIOUS
      <3> QED BY <2>3, <3>1 DEF SumsOver
    <2> QED BY <2>1, <2>4
  <1> QED BY <1>1

\* The equation of the sum: nothing for the empty set, and otherwise some
\* element of it and the rest.
LEMMA SumEmpty ==
    ASSUME NEW f
    PROVE  SumFunctionOnSet(f, {}) = 0
  <1>1. IsFiniteSet({})
    BY FS_EmptySet
  <1>2. PICK sums : SumsOver(f, {}, sums)
    BY <1>1, SumsExist
  <1>3. SumFunctionOnSet(f, {}) = sums[{}]
    BY <1>1, <1>2, SumWhereDefined
  <1> QED BY <1>2, <1>3, SumsStep

LEMMA SumChosen ==
    ASSUME NEW f, NEW S, IsFiniteSet(S), S # {}
    PROVE  SumFunctionOnSet(f, S)
             = f[First(S)] + SumFunctionOnSet(f, S \ {First(S)})
  <1>1. PICK sums : SumsOver(f, S, sums)
    BY SumsExist
  <1>2. sums[S] = f[First(S)] + sums[S \ {First(S)}]
    <2>1. S \in SUBSET S
      OBVIOUS
    <2> QED BY <1>1, <2>1, SumsStep
  <1>3. \A T \in SUBSET S : SumFunctionOnSet(f, T) = sums[T]
    BY <1>1, SumWhereDefined
  <1>4. SumFunctionOnSet(f, S) = sums[S] /\ SumFunctionOnSet(f, S \ {First(S)}) = sums[S \ {First(S)}]
    BY <1>3
  <1> QED BY <1>2, <1>4

\* Two functions that agree on a set have the same sum over it.
LEMMA SumSame ==
    ASSUME NEW f, NEW g, NEW S, IsFiniteSet(S), \A x \in S : f[x] = g[x]
    PROVE  SumFunctionOnSet(f, S) = SumFunctionOnSet(g, S)
  <1> DEFINE B == {s \in SUBSET S : SumFunctionOnSet(f, s) # SumFunctionOnSet(g, s)}
  <1>1. B = {}
    <2> SUFFICES ASSUME B # {} PROVE FALSE
      OBVIOUS
    <2>1. PICK s \in B : \A t \in SUBSET s : t # s => t \notin B
      <3> B \subseteq SUBSET S
        OBVIOUS
      <3> HIDE DEF B
      <3> QED BY MinimalSubset
    <2>2. s # {}
      BY <2>1, SumEmpty
    <2>3. IsFiniteSet(s) /\ First(s) \in s
      BY <2>1, <2>2, FS_Subset, FirstIsOne
    <2>4. SumFunctionOnSet(f, s \ {First(s)}) = SumFunctionOnSet(g, s \ {First(s)})
      BY <2>1, <2>3
    <2>5. SumFunctionOnSet(f, s) = f[First(s)] + SumFunctionOnSet(f, s \ {First(s)})
      BY <2>2, <2>3, SumChosen
    <2>6. SumFunctionOnSet(g, s) = g[First(s)] + SumFunctionOnSet(g, s \ {First(s)})
      BY <2>2, <2>3, SumChosen
    <2>7. f[First(s)] = g[First(s)]
      BY <2>1, <2>3
    <2> QED BY <2>1, <2>4, <2>5, <2>6, <2>7
  <1> QED BY <1>1

\* A sum of integers is an integer, and any element may be taken out first.
LEMMA SumTakesOut ==
    ASSUME NEW S, IsFiniteSet(S), NEW f, \A x \in S : f[x] \in Int
    PROVE  /\ SumFunctionOnSet(f, S) \in Int
           /\ \A x \in S : SumFunctionOnSet(f, S) = f[x] + SumFunctionOnSet(f, S \ {x})
  <1> DEFINE G(s) == SumFunctionOnSet(f, s)
             Good(s) == G(s) \in Int /\ \A x \in s : G(s) = f[x] + G(s \ {x})
             B == {s \in SUBSET S : ~Good(s)}
  <1>1. B = {}
    <2> SUFFICES ASSUME B # {} PROVE FALSE
      OBVIOUS
    <2>1. PICK s \in B : \A t \in SUBSET s : t # s => t \notin B
      <3> B \subseteq SUBSET S
        OBVIOUS
      <3> HIDE DEF B
      <3> QED BY MinimalSubset
    <2>2. \A t \in SUBSET s : t # s => Good(t)
      <3> HIDE DEF Good
      <3> QED BY <2>1
    <2>3. s # {}
      <3>1. Good({})
        BY SumEmpty
      <3> HIDE DEF Good
      <3> QED BY <2>1, <3>1
    <2>4. IsFiniteSet(s) /\ First(s) \in s
      BY <2>1, <2>3, FS_Subset, FirstIsOne
    <2>5. G(s) = f[First(s)] + G(s \ {First(s)})
      BY <2>3, <2>4, SumChosen
    <2>6. Good(s \ {First(s)})
      BY <2>2, <2>4
    <2>7. \A x \in s : f[x] \in Int
      BY <2>1
    <2>8. G(s) \in Int
      BY <2>4, <2>5, <2>6, <2>7
    <2>9. ASSUME NEW x \in s PROVE G(s) = f[x] + G(s \ {x})
      <3>1. CASE x = First(s)
        BY <2>5, <3>1
      <3>2. CASE x # First(s)
        <4>1. G(s \ {First(s)}) = f[x] + G((s \ {First(s)}) \ {x})
          BY <2>6, <3>2
        <4>2. Good(s \ {x})
          BY <2>2
        <4>3. G(s \ {x}) = f[First(s)] + G((s \ {x}) \ {First(s)})
          BY <2>4, <3>2, <4>2
        <4>4. (s \ {First(s)}) \ {x} = (s \ {x}) \ {First(s)}
          OBVIOUS
        <4>5. Good((s \ {x}) \ {First(s)})
          BY <2>2
        <4>6. G((s \ {x}) \ {First(s)}) \in Int
          BY <4>5
        <4>7. f[First(s)] \in Int /\ f[x] \in Int
          BY <2>4, <2>7
        <4>8. G(s) = f[First(s)] + (f[x] + G((s \ {x}) \ {First(s)}))
          BY <2>5, <4>1, <4>4
        <4> HIDE DEF G
        <4> QED BY <4>3, <4>6, <4>7, <4>8
      <3> QED BY <3>1, <3>2
    <2> QED BY <2>1, <2>8, <2>9
  <1> QED BY <1>1

\* Another element adds its value.
LEMMA SumAdds ==
    ASSUME NEW S, IsFiniteSet(S), NEW x, x \notin S,
           NEW f, \A y \in S \cup {x} : f[y] \in Int
    PROVE  SumFunctionOnSet(f, S \cup {x}) = SumFunctionOnSet(f, S) + f[x]
  <1>1. IsFiniteSet(S \cup {x})
    BY FS_AddElement
  <1>2. SumFunctionOnSet(f, S \cup {x}) = f[x] + SumFunctionOnSet(f, (S \cup {x}) \ {x})
    BY <1>1, SumTakesOut
  <1>3. (S \cup {x}) \ {x} = S
    OBVIOUS
  <1>4. SumFunctionOnSet(f, S) \in Int /\ f[x] \in Int
    BY SumTakesOut
  <1>5. SumFunctionOnSet(f, S \cup {x}) = f[x] + SumFunctionOnSet(f, S)
    BY <1>2, <1>3
  <1> QED BY <1>4, <1>5

\* A change at one element changes the sum by as much.
LEMMA SumChanges ==
    ASSUME NEW S, IsFiniteSet(S), NEW x \in S,
           NEW f, NEW g, \A y \in S : f[y] \in Int /\ g[y] \in Int,
           \A y \in S : y # x => f[y] = g[y]
    PROVE  SumFunctionOnSet(g, S) = SumFunctionOnSet(f, S) + (g[x] - f[x])
  <1>1. SumFunctionOnSet(f, S) = f[x] + SumFunctionOnSet(f, S \ {x})
    BY SumTakesOut
  <1>2. SumFunctionOnSet(g, S) = g[x] + SumFunctionOnSet(g, S \ {x})
    BY SumTakesOut
  <1>3. IsFiniteSet(S \ {x})
    BY FS_RemoveElement
  <1>4. SumFunctionOnSet(f, S \ {x}) = SumFunctionOnSet(g, S \ {x})
    BY <1>3, SumSame
  <1>5. SumFunctionOnSet(f, S \ {x}) \in Int
    BY <1>3, SumTakesOut
  <1> QED BY <1>1, <1>2, <1>4, <1>5

\* A sum of natural numbers is one, and no smaller than any of its terms or
\* than the sum over a part of the set.
LEMMA SumGrows ==
    ASSUME NEW S, IsFiniteSet(S), NEW f, \A x \in S : f[x] \in Nat
    PROVE  /\ SumFunctionOnSet(f, S) \in Nat
           /\ \A x \in S : f[x] <= SumFunctionOnSet(f, S)
           /\ \A T \in SUBSET S : SumFunctionOnSet(f, T) <= SumFunctionOnSet(f, S)
  <1> DEFINE G(s) == SumFunctionOnSet(f, s)
             Good(s) == G(s) \in Nat /\ \A t \in SUBSET s : G(t) <= G(s)
             B == {s \in SUBSET S : ~Good(s)}
  <1>1. B = {}
    <2> SUFFICES ASSUME B # {} PROVE FALSE
      OBVIOUS
    <2>1. PICK s \in B : \A t \in SUBSET s : t # s => t \notin B
      <3> B \subseteq SUBSET S
        OBVIOUS
      <3> HIDE DEF B
      <3> QED BY MinimalSubset
    <2>2. \A t \in SUBSET s : t # s => Good(t)
      <3> HIDE DEF Good
      <3> QED BY <2>1
    <2>3. IsFiniteSet(s) /\ \A x \in s : f[x] \in Nat
      BY <2>1, FS_Subset
    <2>4. ASSUME NEW x \in s
          PROVE  G(s) = f[x] + G(s \ {x}) /\ G(s \ {x}) \in Nat
                 /\ \A t \in SUBSET (s \ {x}) : G(t) <= G(s \ {x})
      <3>1. G(s) = f[x] + G(s \ {x})
        BY <2>3, SumTakesOut
      <3>2. Good(s \ {x})
        BY <2>2
      <3> QED BY <3>1, <3>2
    <2>5. G(s) \in Nat
      <3>1. CASE s = {}
        BY <3>1, SumEmpty
      <3>2. CASE s # {}
        <4>1. PICK x \in s : TRUE
          BY <3>2
        <4>2. G(s) = f[x] + G(s \ {x}) /\ G(s \ {x}) \in Nat /\ f[x] \in Nat
          BY <2>3, <2>4
        <4> HIDE DEF G
        <4> QED BY <4>2
      <3> QED BY <3>1, <3>2
    <2>6. ASSUME NEW t \in SUBSET s PROVE G(t) <= G(s)
      <3>1. CASE t = s
        BY <2>5, <3>1
      <3>2. CASE t # s
        <4>1. PICK x \in s : x \notin t
          BY <3>2
        <4>2. t \in SUBSET (s \ {x}) /\ t \in SUBSET s
          BY <4>1
        <4>3. Good(t)
          BY <2>2, <3>2
        <4>4. G(t) <= G(s \ {x}) /\ G(t) \in Nat
          BY <2>4, <4>2, <4>3
        <4>5. G(s) = f[x] + G(s \ {x}) /\ G(s \ {x}) \in Nat /\ f[x] \in Nat
          BY <2>3, <2>4
        <4> HIDE DEF G
        <4> QED BY <4>4, <4>5
      <3> QED BY <3>1, <3>2
    <2>7. Good(s)
      BY <2>5, <2>6
    <2> HIDE DEF Good
    <2> QED BY <2>1, <2>7
  <1>2. Good(S)
    <2> HIDE DEF Good
    <2> QED BY <1>1
  <1>3. ASSUME NEW x \in S PROVE f[x] <= G(S)
    <2>1. G(S) = f[x] + G(S \ {x})
      BY SumTakesOut
    <2>2. S \ {x} \in SUBSET S
      OBVIOUS
    <2>3. G(S \ {x}) \in Nat
      <3>1. Good(S \ {x})
        <4> HIDE DEF Good
        <4> QED BY <1>1, <2>2
      <3> QED BY <3>1
    <2> HIDE DEF G
    <2> QED BY <2>1, <2>3
  <1> QED BY <1>2, <1>3
\* A sum of zeros is 0.
LEMMA SumOfZeros ==
    ASSUME NEW S, IsFiniteSet(S), NEW f, \A x \in S : f[x] = 0
    PROVE  \A T \in SUBSET S : SumFunctionOnSet(f, T) = 0
  <1> DEFINE B == {s \in SUBSET S : SumFunctionOnSet(f, s) # 0}
  <1>1. B = {}
    <2> SUFFICES ASSUME B # {} PROVE FALSE
      OBVIOUS
    <2>1. PICK s \in B : \A t \in SUBSET s : t # s => t \notin B
      <3> B \subseteq SUBSET S
        OBVIOUS
      <3> HIDE DEF B
      <3> QED BY MinimalSubset
    <2>2. s # {}
      BY <2>1, SumEmpty
    <2>3. IsFiniteSet(s) /\ First(s) \in s
      BY <2>1, <2>2, FS_Subset, FirstIsOne
    <2>4. SumFunctionOnSet(f, s) = f[First(s)] + SumFunctionOnSet(f, s \ {First(s)})
      BY <2>2, <2>3, SumChosen
    <2>5. f[First(s)] = 0 /\ SumFunctionOnSet(f, s \ {First(s)}) = 0
      BY <2>1, <2>3
    <2> QED BY <2>1, <2>4, <2>5
  <1> QED BY <1>1

\* A sum may be taken in another order: h pairs each element of S with one of T.
LEMMA SumReorders ==
    ASSUME NEW S, IsFiniteSet(S), NEW T, IsFiniteSet(T), NEW h \in [S -> T],
           \A x, y \in S : h[x] = h[y] => x = y, \A y \in T : \E x \in S : h[x] = y,
           NEW f, \A x \in S : f[x] \in Int,
           NEW g, \A y \in T : g[y] \in Int,
           \A x \in S : f[x] = g[h[x]]
    PROVE  SumFunctionOnSet(f, S) = SumFunctionOnSet(g, T)
  <1> DEFINE image(s) == {h[x] : x \in s}
             B == {s \in SUBSET S : SumFunctionOnSet(f, s) # SumFunctionOnSet(g, image(s))}
  <1>1. B = {}
    <2> SUFFICES ASSUME B # {} PROVE FALSE
      OBVIOUS
    <2>1. PICK s \in B : \A t \in SUBSET s : t # s => t \notin B
      <3> B \subseteq SUBSET S
        OBVIOUS
      <3> HIDE DEF B
      <3> QED BY MinimalSubset
    <2>2. s # {}
      <3>1. image({}) = {}
        OBVIOUS
      <3> QED BY <2>1, <3>1, SumEmpty
    <2>3. PICK x \in s : TRUE
      BY <2>2
    <2>4. image(s) \subseteq T /\ h[x] \in image(s) /\ s \subseteq S
      BY <2>1, <2>3
    <2>5. image(s) \ {h[x]} = image(s \ {x})
      BY <2>3, <2>4
    <2>6. SumFunctionOnSet(f, s) = f[x] + SumFunctionOnSet(f, s \ {x})
      <3>1. IsFiniteSet(s)
        BY <2>4, FS_Subset
      <3>2. \A y \in s : f[y] \in Int
        BY <2>4
      <3> QED BY <2>3, <3>1, <3>2, SumTakesOut
    <2>7. SumFunctionOnSet(g, image(s)) = g[h[x]] + SumFunctionOnSet(g, image(s) \ {h[x]})
      <3>1. IsFiniteSet(image(s))
        BY <2>4, FS_Subset
      <3>2. \A y \in image(s) : g[y] \in Int
        BY <2>4
      <3> HIDE DEF image
      <3> QED BY <2>4, <3>1, <3>2, SumTakesOut
    <2>8. SumFunctionOnSet(f, s \ {x}) = SumFunctionOnSet(g, image(s \ {x}))
      BY <2>1, <2>3
    <2>9. f[x] = g[h[x]]
      BY <2>3, <2>4
    <2> QED BY <2>1, <2>5, <2>6, <2>7, <2>8, <2>9
  <1>2. image(S) = T
    OBVIOUS
  <1> QED BY <1>1, <1>2

\* The sum of a function is that over its domain.
LEMMA SumOfFunction ==
    ASSUME NEW f
    PROVE  SumFunction(f) = SumFunctionOnSet(f, DOMAIN f)
  BY DEF SumFunction

\* A set of numbers up to n has a least one.
LEMMA LeastIndex ==
    ASSUME NEW n \in Nat, NEW B \in SUBSET (1 .. n), B # {}
    PROVE  \E m \in B : \A k \in B : m <= k
  <1> DEFINE starts == {1 .. k : k \in B}
  <1>1. starts \subseteq SUBSET (1 .. n) /\ starts # {}
    <2>1. \A k \in B : (1 .. k) \in SUBSET (1 .. n)
      OBVIOUS
    <2>2. PICK k \in B : TRUE
      OBVIOUS
    <2>3. (1 .. k) \in starts
      BY <2>2
    <2> QED BY <2>1, <2>3
  <1>2. IsFiniteSet(1 .. n)
    BY FS_Interval
  <1>3. PICK s \in starts : \A t \in SUBSET s : t # s => t \notin starts
    <2> HIDE DEF starts
    <2> QED BY <1>1, <1>2, MinimalSubset
  <1>4. PICK m \in B : s = 1 .. m
    OBVIOUS
  <1>5. ASSUME NEW k \in B, ~(m <= k) PROVE FALSE
    <2>1. (1 .. k) \in SUBSET (1 .. m) /\ m \in 1 .. m /\ m \notin 1 .. k
      BY <1>5
    <2>2. 1 .. k # 1 .. m
      BY <2>1
    <2> QED BY <1>3, <1>4, <2>1, <2>2
  <1> QED BY <1>4, <1>5
===============================================================================
