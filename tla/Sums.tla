--------------------------------- MODULE Sums ---------------------------------
(***************************************************************************)
(* What the sums of the ledger obey.  SumFunctionOnSet is a fold, a        *)
(* recursive function over the subsets of a finite set; these lemmas are   *)
(* proved by induction over those subsets.  An induction theorem with a    *)
(* predicate for a parameter cannot be used by the provers, so the         *)
(* predicate is a set here: the set Good of the subsets for which the      *)
(* statement holds.                                                        *)
(***************************************************************************)
EXTENDS Integers, FiniteSets, Functions, FiniteSetTheorems, WellFoundedInduction, TLAPS

\* A set of subsets of a finite set has a minimal member.
LEMMA FiniteMinimum ==
    ASSUME NEW S, IsFiniteSet(S), NEW Bad \in SUBSET SUBSET S, Bad # {}
    PROVE  \E T \in Bad : \A U \in Bad : U \subseteq T => U = T
<1>1. IsWellFoundedOn(StrictSubsetOrdering(S), FiniteSubsetsOf(S))
  BY FS_StrictSubsetOrderingWellFounded
<1>2. FiniteSubsetsOf(S) = SUBSET S
  BY FS_FiniteSubsetsOfFinite
<1>3. PICK T \in Bad : \A U \in Bad : ~ (<<U, T>> \in StrictSubsetOrdering(S))
  BY <1>1, <1>2, WFMin
<1> QED
  BY <1>3 DEF StrictSubsetOrdering

\* Induction over the subsets of a finite set: what holds of a set
\* whenever it holds of all its proper subsets holds of all of them.
LEMMA FiniteInduction ==
    ASSUME NEW S, IsFiniteSet(S), NEW Good,
           \A T \in SUBSET S : (\A U \in SUBSET T : U # T => U \in Good) => T \in Good
    PROVE  SUBSET S \subseteq Good
<1> SUFFICES ASSUME NEW T0 \in SUBSET S, T0 \notin Good PROVE FALSE
  OBVIOUS
<1> DEFINE Bad == (SUBSET S) \ Good
<1>1. PICK T \in Bad : \A U \in Bad : U \subseteq T => U = T
  <2>1. Bad \in SUBSET SUBSET S /\ Bad # {}
    OBVIOUS
  <2> HIDE DEF Bad
  <2> QED BY <2>1, FiniteMinimum
<1> QED BY <1>1

\* The element the library's fold takes first.
Pick(s) == CHOOSE x \in s : TRUE

\* g tabulates the sums of f over the subsets of S.
SumsUp(f, S, g) ==
    g = [s \in SUBSET S |-> IF s = {} THEN 0 ELSE f[Pick(s)] + g[s \ {Pick(s)}]]

\* What SumFunctionOnSet of the library comes down to.
LEMMA SumDef ==
    ASSUME NEW f, NEW S
    PROVE  SumFunctionOnSet(f, S) = (CHOOSE g : SumsUp(f, S, g))[S]
  BY DEF SumFunctionOnSet, FoldFunctionOnSet, MapThenFoldSet, SumsUp, Pick

\* The element a sum takes first is one of the set.
LEMMA PickIn == ASSUME NEW s, s # {} PROVE Pick(s) \in s
  BY DEF Pick

\* Two tables of partial sums agree on what both tabulate.
LEMMA SumsAgree ==
    ASSUME NEW f, NEW S, IsFiniteSet(S), NEW A \in SUBSET S, NEW B \in SUBSET S,
           NEW g, NEW h, SumsUp(f, A, g), SumsUp(f, B, h)
    PROVE  \A T \in SUBSET S : T \subseteq A /\ T \subseteq B => g[T] = h[T]
<1> DEFINE Good == {T \in SUBSET S : T \subseteq A /\ T \subseteq B => g[T] = h[T]}
<1>1. ASSUME NEW T \in SUBSET S, \A U \in SUBSET T : U # T => U \in Good
      PROVE  T \in Good
  <2> SUFFICES ASSUME T \subseteq A, T \subseteq B PROVE g[T] = h[T]
    OBVIOUS
  <2> DEFINE x == Pick(T)
             U == T \ {x}
  <2>1. CASE T = {}
    BY <2>1 DEF SumsUp
  <2>2. CASE T # {}
    <3>1. U \in SUBSET T /\ U # T
      BY <2>2, PickIn
    <3>2. g[U] = h[U]
      BY <1>1, <3>1
    <3>3. g[T] = f[x] + g[U] /\ h[T] = f[x] + h[U]
      BY <2>2 DEF SumsUp
    <3> QED BY <3>2, <3>3
  <2> QED BY <2>1, <2>2
<1> HIDE DEF Good
<1>2. SUBSET S \subseteq Good
  BY <1>1, FiniteInduction
<1> QED BY <1>2 DEF Good

\* A finite set has a table of partial sums.
LEMMA SumsExist ==
    ASSUME NEW f, NEW S, IsFiniteSet(S)
    PROVE  \A T \in SUBSET S : \E g : SumsUp(f, T, g)
<1> DEFINE Good == {T \in SUBSET S : \E g : SumsUp(f, T, g)}
           Table(T) == CHOOSE g : SumsUp(f, T, g)
<1>1. ASSUME NEW T \in SUBSET S, \A U \in SUBSET T : U # T => U \in Good
      PROVE  T \in Good
  <2> DEFINE h == [s \in SUBSET T |->
                     IF s = {} THEN 0
                     ELSE f[Pick(s)] + Table(s \ {Pick(s)})[s \ {Pick(s)}]]
  <2>1. ASSUME NEW U \in SUBSET T, U # T PROVE SumsUp(f, U, Table(U))
    BY <1>1, <2>1
  <2> HIDE DEF Table
  <2>2. ASSUME NEW U \in SUBSET T, U # T PROVE h[U] = Table(U)[U]
    <3>1. CASE U = {}
      BY <2>1, <2>2, <3>1 DEF SumsUp
    <3>2. CASE U # {}
      <4> DEFINE V == U \ {Pick(U)}
      <4>1. V \in SUBSET T /\ V # T
        BY <2>2
      <4>2. SumsUp(f, U, Table(U)) /\ SumsUp(f, V, Table(V))
        BY <2>1, <2>2, <4>1
      <4> HIDE DEF h
      <4>3. IsFiniteSet(T)
        BY FS_Subset
      <4>4. Table(U)[V] = Table(V)[V]
        BY <4>2, <4>3, SumsAgree
      <4>5. Table(U)[U] = f[Pick(U)] + Table(U)[V]
        BY <3>2, <4>2 DEF SumsUp
      <4> QED BY <3>2, <4>4, <4>5 DEF h
    <3> QED BY <3>1, <3>2
  <2>3. \A s \in SUBSET T : s # {} => s \ {Pick(s)} \in SUBSET T /\ s \ {Pick(s)} # T
    BY PickIn
  <2>4. SumsUp(f, T, h)
    BY <2>2, <2>3 DEF SumsUp
  <2> QED BY <2>4
<1> HIDE DEF Good
<1>2. SUBSET S \subseteq Good
  BY <1>1, FiniteInduction
<1> QED BY <1>2 DEF Good

\* Nothing adds up to zero.
LEMMA SumEmpty == \A f : SumFunctionOnSet(f, {}) = 0
<1> SUFFICES ASSUME NEW f PROVE SumFunctionOnSet(f, {}) = 0
  OBVIOUS
<1>1. IsFiniteSet({})
  BY FS_EmptySet
<1>2. \E g : SumsUp(f, {}, g)
  BY <1>1, SumsExist
<1>3. SumsUp(f, {}, CHOOSE g : SumsUp(f, {}, g))
  BY <1>2
<1> QED BY <1>3, SumDef DEF SumsUp

\* A sum is its first element plus the rest.
LEMMA SumPicks ==
    ASSUME NEW f, NEW S, IsFiniteSet(S), S # {}
    PROVE  SumFunctionOnSet(f, S) = f[Pick(S)] + SumFunctionOnSet(f, S \ {Pick(S)})
<1> DEFINE U == S \ {Pick(S)}
           g == CHOOSE t : SumsUp(f, S, t)
           h == CHOOSE t : SumsUp(f, U, t)
<1>1. SumsUp(f, S, g) /\ SumsUp(f, U, h)
  <2>1. (\E t : SumsUp(f, S, t)) /\ (\E t : SumsUp(f, U, t))
    BY SumsExist
  <2> QED BY <2>1
<1>2. SumFunctionOnSet(f, S) = g[S] /\ SumFunctionOnSet(f, U) = h[U]
  BY SumDef
<1> HIDE DEF g, h
<1>3. g[U] = h[U]
  BY <1>1, SumsAgree
<1>4. g[S] = f[Pick(S)] + g[U]
  BY <1>1 DEF SumsUp
<1> QED BY <1>2, <1>3, <1>4

\* A sum of integers is an integer.
LEMMA SumIsInt ==
    ASSUME NEW f, NEW S, IsFiniteSet(S), \A x \in S : f[x] \in Int
    PROVE  SumFunctionOnSet(f, S) \in Int
<1> DEFINE Good == {T \in SUBSET S : SumFunctionOnSet(f, T) \in Int}
<1>1. ASSUME NEW T \in SUBSET S, \A U \in SUBSET T : U # T => U \in Good
      PROVE  T \in Good
  <2>1. CASE T = {}
    BY <2>1, SumEmpty
  <2>2. CASE T # {}
    <3>1. SumFunctionOnSet(f, T) = f[Pick(T)] + SumFunctionOnSet(f, T \ {Pick(T)})
      BY <2>2, FS_Subset, SumPicks
    <3>2. SumFunctionOnSet(f, T \ {Pick(T)}) \in Int
      BY <1>1, <2>2, PickIn
    <3> QED BY <2>2, <3>1, <3>2, PickIn
  <2> QED BY <2>1, <2>2
<1> HIDE DEF Good
<1>2. SUBSET S \subseteq Good
  BY <1>1, FiniteInduction
<1> QED BY <1>2 DEF Good

\* A sum is any one of its elements plus the rest.
LEMMA SumTakes ==
    ASSUME NEW f, NEW S, IsFiniteSet(S), \A x \in S : f[x] \in Int, NEW a \in S
    PROVE  SumFunctionOnSet(f, S) = f[a] + SumFunctionOnSet(f, S \ {a})
<1> DEFINE Sum(T) == SumFunctionOnSet(f, T)
           Good == {T \in SUBSET S : \A x \in T : Sum(T) = f[x] + Sum(T \ {x})}
<1> HIDE DEF Sum
<1>1. ASSUME NEW T \in SUBSET S, T # {}
      PROVE  Pick(T) \in T /\ Sum(T) = f[Pick(T)] + Sum(T \ {Pick(T)})
  BY <1>1, FS_Subset, SumPicks, PickIn DEF Sum
<1>2. ASSUME NEW T \in SUBSET S PROVE Sum(T) \in Int
  BY <1>2, FS_Subset, SumIsInt DEF Sum
<1>3. ASSUME NEW T \in SUBSET S, \A U \in SUBSET T : U # T => U \in Good
      PROVE  T \in Good
  <2> SUFFICES ASSUME NEW x \in T PROVE Sum(T) = f[x] + Sum(T \ {x})
    OBVIOUS
  <2> DEFINE y == Pick(T)
  <2>1. y \in T /\ Sum(T) = f[y] + Sum(T \ {y})
    BY <1>1
  <2> HIDE DEF y
  <2>2. CASE x = y
    BY <2>1, <2>2
  <2>3. CASE x # y
    <3>1. T \ {x} \in Good /\ T \ {y} \in Good
      BY <1>3, <2>1
    <3>2. Sum(T \ {y}) = f[x] + Sum((T \ {y}) \ {x}) /\ Sum(T \ {x}) = f[y] + Sum((T \ {x}) \ {y})
      BY <2>1, <2>3, <3>1
    <3>3. (T \ {y}) \ {x} = (T \ {x}) \ {y}
      OBVIOUS
    <3> DEFINE rest == Sum((T \ {x}) \ {y})
    <3>4. f[x] \in Int /\ f[y] \in Int /\ rest \in Int
      BY <1>2, <2>1
    <3>5. Sum(T) = f[y] + (f[x] + rest) /\ Sum(T \ {x}) = f[y] + rest
      BY <2>1, <3>2, <3>3
    <3> HIDE DEF rest
    <3> QED BY <3>4, <3>5
  <2> QED BY <2>2, <2>3
<1> HIDE DEF Good
<1>4. S \in Good
  BY <1>3, FiniteInduction
<1> QED BY <1>4 DEF Good, Sum

\* A sum of larger values is larger.
LEMMA SumMonotone ==
    ASSUME NEW f, NEW g, NEW S, IsFiniteSet(S),
           \A x \in S : f[x] \in Int /\ g[x] \in Int /\ f[x] <= g[x]
    PROVE  SumFunctionOnSet(f, S) <= SumFunctionOnSet(g, S)
<1> DEFINE Good == {T \in SUBSET S : SumFunctionOnSet(f, T) <= SumFunctionOnSet(g, T)}
<1>1. ASSUME NEW T \in SUBSET S, \A U \in SUBSET T : U # T => U \in Good
      PROVE  T \in Good
  <2>1. CASE T = {}
    BY <2>1, SumEmpty
  <2>2. CASE T # {}
    <3> DEFINE U == T \ {Pick(T)}
    <3>1. Pick(T) \in T /\ U \in Good
      BY <1>1, <2>2, PickIn
    <3>2. IsFiniteSet(T) /\ IsFiniteSet(U)
      BY FS_Subset
    <3>3. /\ SumFunctionOnSet(f, T) = f[Pick(T)] + SumFunctionOnSet(f, U)
          /\ SumFunctionOnSet(g, T) = g[Pick(T)] + SumFunctionOnSet(g, U)
      BY <2>2, <3>2, SumPicks
    <3>4. SumFunctionOnSet(f, U) \in Int /\ SumFunctionOnSet(g, U) \in Int
      BY <3>2, SumIsInt
    <3> QED BY <3>1, <3>3, <3>4
  <2> QED BY <2>1, <2>2
<1> HIDE DEF Good
<1>2. SUBSET S \subseteq Good
  BY <1>1, FiniteInduction
<1> QED BY <1>2 DEF Good

\* A sum only depends on the values it adds.
LEMMA SumSame ==
    ASSUME NEW f, NEW g, NEW S, IsFiniteSet(S), \A x \in S : f[x] \in Int /\ g[x] = f[x]
    PROVE  SumFunctionOnSet(g, S) = SumFunctionOnSet(f, S)
<1>1. SumFunctionOnSet(f, S) <= SumFunctionOnSet(g, S) /\ SumFunctionOnSet(g, S) <= SumFunctionOnSet(f, S)
  BY SumMonotone
<1> QED BY <1>1, SumIsInt

\* Changing one value changes the sum by as much.
LEMMA SumChange ==
    ASSUME NEW f, NEW g, NEW S, IsFiniteSet(S), NEW a \in S,
           \A x \in S : f[x] \in Int /\ g[x] \in Int,
           \A x \in S : x # a => g[x] = f[x]
    PROVE  SumFunctionOnSet(g, S) = SumFunctionOnSet(f, S) - f[a] + g[a]
<1>1. /\ SumFunctionOnSet(f, S) = f[a] + SumFunctionOnSet(f, S \ {a})
      /\ SumFunctionOnSet(g, S) = g[a] + SumFunctionOnSet(g, S \ {a})
  BY SumTakes
<1>2. IsFiniteSet(S \ {a})
  BY FS_RemoveElement
<1>3. SumFunctionOnSet(g, S \ {a}) = SumFunctionOnSet(f, S \ {a})
  BY <1>2, SumSame
<1>4. SumFunctionOnSet(f, S \ {a}) \in Int
  BY <1>2, SumIsInt
<1> QED BY <1>1, <1>3, <1>4

\* Zeros do not count.
LEMMA SumAbsent ==
    ASSUME NEW f, NEW S, IsFiniteSet(S), NEW T \in SUBSET S,
           \A x \in S : f[x] \in Int, \A x \in S \ T : f[x] = 0
    PROVE  SumFunctionOnSet(f, S) = SumFunctionOnSet(f, T)
<1> DEFINE Good == {U \in SUBSET S : SumFunctionOnSet(f, U) = SumFunctionOnSet(f, U \cap T)}
<1>1. ASSUME NEW U \in SUBSET S, \A V \in SUBSET U : V # U => V \in Good
      PROVE  U \in Good
  <2>0. IsFiniteSet(U) /\ IsFiniteSet(U \cap T)
    BY FS_Subset
  <2>1. CASE U = {}
    <3>1. U \cap T = U
      BY <2>1
    <3> QED BY <3>1
  <2>2. CASE U # {}
    <3> DEFINE y == Pick(U)
               V == U \ {y}
    <3>1. y \in U /\ V \in Good
      BY <1>1, <2>2, PickIn
    <3>2. SumFunctionOnSet(f, U) = f[y] + SumFunctionOnSet(f, V)
      BY <2>0, <2>2, SumPicks
    <3>3. SumFunctionOnSet(f, V) = SumFunctionOnSet(f, V \cap T)
      BY <3>1
    <3>4. SumFunctionOnSet(f, V \cap T) \in Int
      BY <2>0, FS_Subset, SumIsInt
    <3> HIDE DEF y
    <3>5. CASE y \in T
      <4>1. V \cap T = (U \cap T) \ {y} /\ y \in U \cap T
        BY <3>1, <3>5
      <4>2. \A x \in U \cap T : f[x] \in Int
        OBVIOUS
      <4>3. SumFunctionOnSet(f, U \cap T) = f[y] + SumFunctionOnSet(f, (U \cap T) \ {y})
        BY <2>0, <4>1, <4>2, SumTakes
      <4> QED BY <3>2, <3>3, <4>1, <4>3
    <3>6. CASE y \notin T
      <4>1. V \cap T = U \cap T /\ f[y] = 0
        BY <3>1, <3>6
      <4>2. SumFunctionOnSet(f, U) = 0 + SumFunctionOnSet(f, U \cap T)
        BY <3>2, <3>3, <4>1
      <4>3. SumFunctionOnSet(f, U \cap T) \in Int
        BY <3>4, <4>1
      <4> QED BY <4>2, <4>3
    <3> QED BY <3>5, <3>6
  <2> QED BY <2>1, <2>2
<1> HIDE DEF Good
<1>2. SUBSET S \subseteq Good
  BY <1>1, FiniteInduction
<1>3. S \cap T = T
  OBVIOUS
<1> QED BY <1>2, <1>3 DEF Good

\* Induction one element at a time.
LEMMA GrowingInduction ==
    ASSUME NEW S, IsFiniteSet(S), NEW Good, {} \in Good,
           \A T \in SUBSET S : \A x \in S : x \notin T /\ T \in Good => T \cup {x} \in Good
    PROVE  SUBSET S \subseteq Good
<1>1. ASSUME NEW T \in SUBSET S, \A U \in SUBSET T : U # T => U \in Good
      PROVE  T \in Good
  <2>1. CASE T # {}
    <3>1. Pick(T) \in T /\ T \ {Pick(T)} \in Good
      BY <1>1, <2>1, PickIn
    <3>2. T = (T \ {Pick(T)}) \cup {Pick(T)}
      BY <3>1
    <3> QED BY <3>1, <3>2
  <2> QED BY <2>1
<1> QED BY <1>1, FiniteInduction

\* A sum of natural numbers is one.
LEMMA SumIsNat ==
    ASSUME NEW f, NEW S, IsFiniteSet(S), \A x \in S : f[x] \in Nat
    PROVE  SumFunctionOnSet(f, S) \in Nat
<1> DEFINE Good == {T \in SUBSET S : SumFunctionOnSet(f, T) \in Nat}
<1>1. {} \in Good
  BY SumEmpty
<1>2. ASSUME NEW T \in SUBSET S, NEW x \in S, x \notin T, T \in Good
      PROVE  T \cup {x} \in Good
  <2>1. IsFiniteSet(T \cup {x}) /\ (T \cup {x}) \ {x} = T
    BY <1>2, FS_Subset
  <2>2. \A y \in T \cup {x} : f[y] \in Int
    OBVIOUS
  <2>3. SumFunctionOnSet(f, T \cup {x}) = f[x] + SumFunctionOnSet(f, T)
    BY <2>1, <2>2, SumTakes
  <2> QED BY <1>2, <2>3
<1> HIDE DEF Good
<1>3. S \in Good
  BY <1>1, <1>2, GrowingInduction
<1> QED BY <1>3 DEF Good

\* An element of the set adds its value.
LEMMA SumGrows ==
    ASSUME NEW f, NEW T, NEW x, IsFiniteSet(T), x \notin T,
           \A y \in T \cup {x} : f[y] \in Int
    PROVE  /\ SumFunctionOnSet(f, T \cup {x}) = f[x] + SumFunctionOnSet(f, T)
           /\ SumFunctionOnSet(f, T) \in Int
<1>1. IsFiniteSet(T \cup {x}) /\ (T \cup {x}) \ {x} = T
  BY FS_AddElement
<1> QED BY <1>1, SumTakes, SumIsInt

\* A sum over a part is the sum over the whole of what is zero elsewhere.
LEMMA SumFiltered ==
    ASSUME NEW f, NEW S, IsFiniteSet(S), NEW T \in SUBSET S, \A x \in S : f[x] \in Int
    PROVE  SumFunctionOnSet(f, T)
              = SumFunctionOnSet([x \in S |-> IF x \in T THEN f[x] ELSE 0], S)
<1> DEFINE g == [x \in S |-> IF x \in T THEN f[x] ELSE 0]
<1>1. /\ \A x \in S : g[x] \in Int
      /\ \A x \in S \ T : g[x] = 0
      /\ \A x \in T : g[x] \in Int /\ f[x] = g[x]
  OBVIOUS
<1> HIDE DEF g
<1>2. SumFunctionOnSet(g, S) = SumFunctionOnSet(g, T)
  BY <1>1, SumAbsent
<1>3. IsFiniteSet(T)
  BY FS_Subset
<1>4. SumFunctionOnSet(f, T) = SumFunctionOnSet(g, T)
  BY <1>1, <1>3, SumSame
<1> QED BY <1>2, <1>4 DEF g

\* A part of a sum of natural numbers is no more than the whole.
LEMMA SumWithin ==
    ASSUME NEW f, NEW S, IsFiniteSet(S), NEW T \in SUBSET S, \A x \in S : f[x] \in Nat
    PROVE  SumFunctionOnSet(f, T) <= SumFunctionOnSet(f, S)
<1> DEFINE g == [x \in S |-> IF x \in T THEN f[x] ELSE 0]
<1>1. \A x \in S : f[x] \in Int /\ g[x] \in Int /\ g[x] <= f[x]
  OBVIOUS
<1>2. SumFunctionOnSet(f, T) = SumFunctionOnSet(g, S)
  BY <1>1, SumFiltered
<1> HIDE DEF g
<1>3. SumFunctionOnSet(g, S) <= SumFunctionOnSet(f, S)
  BY <1>1, SumMonotone
<1> QED BY <1>2, <1>3

\* Nor is any of its elements.
LEMMA SumHolds ==
    ASSUME NEW f, NEW S, IsFiniteSet(S), NEW a \in S, \A x \in S : f[x] \in Nat
    PROVE  f[a] <= SumFunctionOnSet(f, S)
<1>1. IsFiniteSet(S \ {a}) /\ \A x \in S : f[x] \in Int
  BY FS_RemoveElement
<1>2. SumFunctionOnSet(f, S) = f[a] + SumFunctionOnSet(f, S \ {a})
  BY <1>1, SumTakes
<1>3. SumFunctionOnSet(f, S \ {a}) \in Nat
  BY <1>1, SumIsNat
<1> QED BY <1>2, <1>3

\* Values that add up do so in sum.
LEMMA SumPlus ==
    ASSUME NEW f, NEW g, NEW h, NEW S, IsFiniteSet(S),
           \A x \in S : f[x] \in Int /\ g[x] \in Int /\ h[x] = f[x] + g[x]
    PROVE  SumFunctionOnSet(h, S) = SumFunctionOnSet(f, S) + SumFunctionOnSet(g, S)
<1> DEFINE Good == {T \in SUBSET S : SumFunctionOnSet(h, T)
                        = SumFunctionOnSet(f, T) + SumFunctionOnSet(g, T)}
<1>1. {} \in Good
  BY SumEmpty
<1>2. ASSUME NEW T \in SUBSET S, NEW x \in S, x \notin T, T \in Good
      PROVE  T \cup {x} \in Good
  <2>1. /\ IsFiniteSet(T)
        /\ \A y \in T \cup {x} : f[y] \in Int /\ g[y] \in Int /\ h[y] \in Int
    BY FS_Subset
  <2>2. /\ SumFunctionOnSet(f, T \cup {x}) = f[x] + SumFunctionOnSet(f, T)
        /\ SumFunctionOnSet(f, T) \in Int
    BY <1>2, <2>1, SumGrows
  <2>3. /\ SumFunctionOnSet(g, T \cup {x}) = g[x] + SumFunctionOnSet(g, T)
        /\ SumFunctionOnSet(g, T) \in Int
    BY <1>2, <2>1, SumGrows
  <2>4. SumFunctionOnSet(h, T \cup {x}) = h[x] + SumFunctionOnSet(h, T)
    BY <1>2, <2>1, SumGrows
  <2> QED BY <1>2, <2>2, <2>3, <2>4
<1> HIDE DEF Good
<1>3. S \in Good
  BY <1>1, <1>2, GrowingInduction
<1> QED BY <1>3 DEF Good

\* A sum is that of a part and that of the rest.
LEMMA SumSplit ==
    ASSUME NEW f, NEW S, IsFiniteSet(S), NEW A, \A x \in S : f[x] \in Int
    PROVE  SumFunctionOnSet(f, S) = SumFunctionOnSet(f, S \cap A) + SumFunctionOnSet(f, S \ A)
<1> DEFINE g == [x \in S |-> IF x \in S \cap A THEN f[x] ELSE 0]
           h == [x \in S |-> IF x \in S \ A THEN f[x] ELSE 0]
<1>1. \A x \in S : g[x] \in Int /\ h[x] \in Int /\ f[x] = g[x] + h[x]
  OBVIOUS
<1>2. SumFunctionOnSet(f, S \cap A) = SumFunctionOnSet(g, S)
  BY SumFiltered
<1>3. SumFunctionOnSet(f, S \ A) = SumFunctionOnSet(h, S)
  BY SumFiltered
<1> HIDE DEF g, h
<1> QED BY <1>1, <1>2, <1>3, SumPlus

\* What each element is put down to under its key, and the keys then added
\* up, is the sum: nothing is lost or counted twice.
LEMMA SumByGroup ==
    ASSUME NEW f, NEW S, IsFiniteSet(S), NEW K, IsFiniteSet(K), NEW key,
           \A x \in S : f[x] \in Int /\ key[x] \in K
    PROVE  SumFunctionOnSet([k \in K |-> SumFunctionOnSet(f, {x \in S : key[x] = k})], K)
              = SumFunctionOnSet(f, S)
<1> DEFINE Group(T) == [k \in K |-> SumFunctionOnSet(f, {x \in T : key[x] = k})]
           Good == {T \in SUBSET S : SumFunctionOnSet(Group(T), K) = SumFunctionOnSet(f, T)}
<1>0. ASSUME NEW T \in SUBSET S
      PROVE  /\ IsFiniteSet(T)
             /\ \A k \in K : IsFiniteSet({x \in T : key[x] = k}) /\ Group(T)[k] \in Int
  <2>1. IsFiniteSet(T)
    BY FS_Subset
  <2>2. ASSUME NEW k \in K
        PROVE  IsFiniteSet({x \in T : key[x] = k}) /\ Group(T)[k] \in Int
    <3>1. IsFiniteSet({x \in T : key[x] = k}) /\ \A x \in {x \in T : key[x] = k} : f[x] \in Int
      BY <2>1, FS_Subset
    <3>2. SumFunctionOnSet(f, {x \in T : key[x] = k}) \in Int
      BY <3>1, SumIsInt
    <3> QED BY <3>1, <3>2
  <2> QED BY <2>1, <2>2
<1>1. {} \in Good
  <2>1. \A k \in K : {x \in {} : key[x] = k} = {}
    OBVIOUS
  <2>2. \A k \in K : Group({})[k] = 0
    BY <2>1, SumEmpty
  <2> DEFINE z == Group({})
  <2>3. {} \in SUBSET K /\ \A k \in K : z[k] \in Int /\ z[k] = 0
    BY <2>2
  <2> HIDE DEF z
  <2>4. SumFunctionOnSet(z, K) = SumFunctionOnSet(z, {})
    BY <2>3, SumAbsent
  <2> QED BY <2>4, SumEmpty DEF z
<1>2. ASSUME NEW T \in SUBSET S, NEW a \in S, a \notin T, T \in Good
      PROVE  T \cup {a} \in Good
  <2> DEFINE g == Group(T)
             h == Group(T \cup {a})
             k0 == key[a]
  <2>1. T \cup {a} \in SUBSET S /\ k0 \in K
    OBVIOUS
  <2>2. \A k \in K : g[k] \in Int /\ h[k] \in Int
    BY <1>0, <2>1
  <2>3. ASSUME NEW k \in K, k # k0 PROVE h[k] = g[k]
    <3>1. {x \in T \cup {a} : key[x] = k} = {x \in T : key[x] = k}
      BY <2>3
    <3> QED BY <3>1
  <2>4. h[k0] = f[a] + g[k0]
    <3> DEFINE U == {x \in T : key[x] = k0}
    <3>1. {x \in T \cup {a} : key[x] = k0} = U \cup {a}
      OBVIOUS
    <3>2. IsFiniteSet(U) /\ a \notin U /\ \A y \in U \cup {a} : f[y] \in Int
      BY <1>0, <1>2
    <3> HIDE DEF U
    <3>3. SumFunctionOnSet(f, U \cup {a}) = f[a] + SumFunctionOnSet(f, U)
      BY <3>2, SumGrows
    <3>4. h[k0] = SumFunctionOnSet(f, U \cup {a}) /\ g[k0] = SumFunctionOnSet(f, U)
      BY <2>1, <3>1 DEF U
    <3> QED BY <3>3, <3>4
  <2> HIDE DEF k0
  <2>5. SumFunctionOnSet(g, K) = SumFunctionOnSet(f, T)
    BY <1>2
  <2> HIDE DEF g, h, Good
  <2>6. SumFunctionOnSet(h, K) = SumFunctionOnSet(g, K) - g[k0] + h[k0]
    BY <2>1, <2>2, <2>3, SumChange
  <2>7. SumFunctionOnSet(f, T \cup {a}) = f[a] + SumFunctionOnSet(f, T)
    BY <1>0, <1>2, SumGrows
  <2>8. f[a] \in Int /\ g[k0] \in Int /\ SumFunctionOnSet(f, T) \in Int
    BY <1>0, <2>1, <2>2, SumIsInt
  <2>9. SumFunctionOnSet(h, K) = SumFunctionOnSet(f, T \cup {a})
    BY <2>4, <2>5, <2>6, <2>7, <2>8
  <2> QED BY <2>1, <2>9 DEF h, Good
<1> HIDE DEF Group, Good
<1>3. S \in Good
  BY <1>1, <1>2, GrowingInduction
<1> QED BY <1>3 DEF Good, Group

=============================================================================
