------------------------------- MODULE SumTheorems -------------------------------
(***************************************************************************)
(* Sums over finite sets, as SumFunction of the library defines them.  A   *)
(* balance is compared with what all requests have taken from it, or a     *)
(* subscription's use with all that was posted to it: the proofs about     *)
(* such sums need to know what a sum becomes when one term changes.        *)
(***************************************************************************)
EXTENDS Integers, FiniteSets, Functions, FiniteSetTheorems, TLAPS

-----------------------------------------------------------------------------
(* Induction, for a set of counterexamples: among subsets of a finite set   *)
(* there is one none of whose elements can be taken away.  (A theorem with  *)
(* a predicate for parameter could not be cited, one with a set can.)       *)
LEMMA SmallestSet ==
    ASSUME NEW S, IsFiniteSet(S), NEW B \in SUBSET (SUBSET S), B # {}
    PROVE  \E T \in B : \A x \in T : T \ {x} \notin B
<1>1. IsWellFoundedOn(StrictSubsetOrdering(S), FiniteSubsetsOf(S))
  BY FS_StrictSubsetOrderingWellFounded
<1>2. B \subseteq FiniteSubsetsOf(S)
  BY FS_FiniteSubsetsOfFinite
<1>3. PICK T \in B : \A U \in B : <<U, T>> \notin StrictSubsetOrdering(S)
  BY <1>1, <1>2, WFMin
<1>4. ASSUME NEW x \in T, T \ {x} \in B  PROVE FALSE
  <2>1. <<T \ {x}, T>> \in (SUBSET S) \X (SUBSET S)
    OBVIOUS
  <2>2. T \ {x} \subseteq T /\ T \ {x} # T
    OBVIOUS
  <2>3. <<T \ {x}, T>> \in StrictSubsetOrdering(S)
    BY <2>1, <2>2 DEF StrictSubsetOrdering
  <2> QED BY <2>3, <1>3, <1>4
<1> QED BY <1>4

(* g gives every subset of S the sum of f over it.                          *)
IsSum(g, f, S) ==
    /\ g \in [SUBSET S -> Int]
    /\ g[{}] = 0
    /\ \A T \in SUBSET S : \A x \in T : g[T] = f[x] + g[T \ {x}]

(* There is such a g: by induction on S, one more element d adds f[d].      *)
LEMMA SumExists ==
    ASSUME NEW S, IsFiniteSet(S), NEW f, \A x \in S : f[x] \in Int
    PROVE  \E g : IsSum(g, f, S)
<1> DEFINE B == {D \in SUBSET S : ~ \E g : IsSum(g, f, D)}
<1> SUFFICES ASSUME B # {} PROVE FALSE
  OBVIOUS
<1>1. PICK D \in B : \A x \in D : D \ {x} \notin B
  BY SmallestSet
<1>2. D # {}
  <2>1. ASSUME D = {} PROVE FALSE
    <3> DEFINE z == [T \in SUBSET {} |-> 0]
    <3>1. IsSum(z, f, {})
      BY DEF IsSum
    <3> QED BY <3>1, <2>1, <1>1
  <2> QED BY <2>1
<1>3. PICK d \in D : TRUE
  BY <1>2
<1>4. D \subseteq S /\ d \in S /\ f[d] \in Int
  BY <1>1, <1>3
<1> DEFINE E == D \ {d}
<1>5. PICK h : IsSum(h, f, E)
  BY <1>1, <1>4
<1> DEFINE g == [T \in SUBSET D |-> IF d \in T THEN f[d] + h[T \ {d}] ELSE h[T]]
<1>6. \A T \in SUBSET E : h[T] \in Int
  BY <1>5 DEF IsSum
<1>7. \A T \in SUBSET D : T \ {d} \in SUBSET E /\ (d \notin T => T \in SUBSET E)
  OBVIOUS
<1>8. g \in [SUBSET D -> Int]
  BY <1>6, <1>7, <1>4
<1>9. g[{}] = 0
  BY <1>5 DEF IsSum
<1>10. ASSUME NEW T \in SUBSET D, NEW x \in T
       PROVE  g[T] = f[x] + g[T \ {x}]
  <2>0. T \ {x} \in SUBSET D
    OBVIOUS
  <2>1. CASE x = d
    <3>1. g[T] = f[d] + h[T \ {d}]
      BY <2>1, <1>10
    <3>2. g[T \ {x}] = h[T \ {d}]
      BY <2>0, <2>1
    <3> QED BY <3>1, <3>2, <2>1
  <2>2. CASE x # d /\ d \in T
    <3>1. g[T] = f[d] + h[T \ {d}]
      BY <2>2
    <3>2. g[T \ {x}] = f[d] + h[(T \ {x}) \ {d}]
      BY <2>0, <2>2
    <3>3. (T \ {x}) \ {d} = (T \ {d}) \ {x} /\ x \in T \ {d}
      BY <2>2
    <3>4. h[T \ {d}] = f[x] + h[(T \ {d}) \ {x}]
      BY <1>5, <1>7, <3>3 DEF IsSum
    <3>5. /\ h[T \ {d}] \in Int /\ h[(T \ {d}) \ {x}] \in Int /\ f[x] \in Int
      BY <1>6, <1>7, <2>0, <3>3, <1>4
    <3>6. g[T \ {x}] = f[d] + h[(T \ {d}) \ {x}]
      BY <3>2, <3>3
    <3> HIDE DEF g, E
    <3> QED BY <3>1, <3>4, <3>5, <3>6, <1>4
  <2>3. CASE x # d /\ d \notin T
    <3>1. g[T] = h[T] /\ g[T \ {x}] = h[T \ {x}]
      BY <2>0, <2>3
    <3>2. h[T] = f[x] + h[T \ {x}]
      BY <1>5, <1>7, <2>3 DEF IsSum
    <3> QED BY <3>1, <3>2
  <2> QED BY <2>1, <2>2, <2>3
<1>11. IsSum(g, f, D)
  BY <1>8, <1>9, <1>10 DEF IsSum
<1> QED BY <1>11, <1>1

(* The recursive definition of the library, which takes the elements in an  *)
(* order of its own, comes to the same.                                     *)
LEMMA SumIsSum ==
    ASSUME NEW S, IsFiniteSet(S), NEW f, NEW g, IsSum(g, f, S)
    PROVE  SumFunctionOnSet(f, S) = g[S]
<1> DEFINE Step(i) == [T \in SUBSET S |->
                          IF T = {} THEN 0
                          ELSE f[CHOOSE x \in T : TRUE]
                               + i[T \ {CHOOSE x \in T : TRUE}]]
           iter == CHOOSE i : i = Step(i)
<1>1. g = Step(g)
  <2>1. g \in [SUBSET S -> Int]
    BY DEF IsSum
  <2>2. ASSUME NEW T \in SUBSET S, T # {}
        PROVE  g[T] = f[CHOOSE x \in T : TRUE] + g[T \ {CHOOSE x \in T : TRUE}]
    <3>1. (CHOOSE x \in T : TRUE) \in T
      BY <2>2
    <3> QED BY <3>1 DEF IsSum
  <2>3. g[{}] = 0
    BY DEF IsSum
  <2> QED BY <2>1, <2>2, <2>3
<1>2. iter = Step(iter)
  <2> HIDE DEF Step
  <2> QED BY <1>1
<1>3. \A T \in SUBSET S : iter[T] = g[T]
  <2> DEFINE B == {T \in SUBSET S : iter[T] # g[T]}
  <2> SUFFICES ASSUME B # {} PROVE FALSE
    OBVIOUS
  <2>1. PICK T \in B : \A x \in T : T \ {x} \notin B
    BY SmallestSet
  <2> HIDE DEF iter
  <2>2. CASE T = {}
    <3>1. iter[T] = 0 
      BY <1>2, <2>2
    <3>2. g[T] = 0
      BY <2>2 DEF IsSum
    <3> QED BY <3>1, <3>2, <2>1
  <2>3. CASE T # {}
    <3> DEFINE x == CHOOSE y \in T : TRUE
    <3>1. x \in T
      BY <2>3
    <3>2. T \in SUBSET S /\ T \ {x} \in SUBSET S
      BY <2>1
    <3>3. iter[T] = f[x] + iter[T \ {x}]
      BY <1>2, <2>3, <3>2
    <3>4. g[T] = f[x] + g[T \ {x}]
      BY <3>1, <3>2 DEF IsSum
    <3>5. iter[T \ {x}] = g[T \ {x}]
      BY <3>1, <3>2, <2>1
    <3> QED BY <3>3, <3>4, <3>5, <2>1
  <2> QED BY <2>2, <2>3
<1>4. SumFunctionOnSet(f, S) = iter[S]
  BY DEF SumFunctionOnSet, FoldFunctionOnSet, MapThenFoldSet
<1> QED BY <1>3, <1>4

(* The empty sum, and what one element adds.                                *)
LEMMA SumOver ==
    ASSUME NEW S, IsFiniteSet(S), NEW f, \A x \in S : f[x] \in Int
    PROVE  /\ SumFunctionOnSet(f, S) \in Int
           /\ S = {} => SumFunctionOnSet(f, S) = 0
           /\ \A x \in S : SumFunctionOnSet(f, S) = f[x] + SumFunctionOnSet(f, S \ {x})
<1>1. PICK g : IsSum(g, f, S)
  BY SumExists
<1>2. SumFunctionOnSet(f, S) = g[S]
  BY <1>1, SumIsSum
<1>3. ASSUME NEW x \in S
      PROVE  SumFunctionOnSet(f, S) = f[x] + SumFunctionOnSet(f, S \ {x})
  <2>1. IsFiniteSet(S \ {x})
    BY FS_Subset
  <2> DEFINE h == [T \in SUBSET (S \ {x}) |-> g[T]]
  <2>2. IsSum(h, f, S \ {x})
    BY <1>1 DEF IsSum
  <2>3. SumFunctionOnSet(f, S \ {x}) = h[S \ {x}]
    BY <2>1, <2>2, SumIsSum
  <2>4. g[S] = f[x] + g[S \ {x}]
    BY <1>1 DEF IsSum
  <2> QED BY <1>2, <2>3, <2>4
<1>4. g[S] \in Int /\ (S = {} => g[S] = 0)
  BY <1>1 DEF IsSum
<1> QED BY <1>2, <1>3, <1>4

(* Sums do not depend on values outside of the set.                         *)
LEMMA SameSum ==
    ASSUME NEW S, IsFiniteSet(S), NEW f, NEW g,
           \A x \in S : f[x] \in Int /\ g[x] = f[x]
    PROVE  SumFunctionOnSet(g, S) = SumFunctionOnSet(f, S)
<1>1. PICK s : IsSum(s, f, S)
  BY SumExists
<1>2. IsSum(s, g, S)
  BY <1>1 DEF IsSum
<1> QED BY <1>1, <1>2, SumIsSum

-----------------------------------------------------------------------------
(* The sum of all values of a function.                                     *)
LEMMA SumType ==
    ASSUME NEW S, IsFiniteSet(S), NEW f \in [S -> Int]
    PROVE  SumFunction(f) \in Int
BY SumOver DEF SumFunction

(* A sum is monotonic.                                                      *)
LEMMA SumUpTo ==
    ASSUME NEW S, IsFiniteSet(S), NEW f \in [S -> Int], NEW g \in [S -> Int],
           \A x \in S : f[x] <= g[x]
    PROVE  SumFunction(f) <= SumFunction(g)
<1> DEFINE B == {T \in SUBSET S : ~ SumFunctionOnSet(f, T) <= SumFunctionOnSet(g, T)}
<1>1. B = {}
  <2> SUFFICES ASSUME B # {} PROVE FALSE
    OBVIOUS
  <2>1. PICK T \in B : \A x \in T : T \ {x} \notin B
    BY SmallestSet
  <2>2. T \subseteq S /\ IsFiniteSet(T) /\ \A x \in T : f[x] \in Int /\ g[x] \in Int
    BY FS_Subset
  <2>3. CASE T = {}
    BY <2>1, <2>2, <2>3, SumOver
  <2>4. ASSUME NEW x \in T PROVE FALSE
    <3>1. /\ SumFunctionOnSet(f, T) = f[x] + SumFunctionOnSet(f, T \ {x})
          /\ SumFunctionOnSet(g, T) = g[x] + SumFunctionOnSet(g, T \ {x})
      BY <2>2, SumOver
    <3>2. IsFiniteSet(T \ {x}) /\ T \ {x} \subseteq S
      BY <2>2, FS_Subset
    <3>3. SumFunctionOnSet(f, T \ {x}) \in Int /\ SumFunctionOnSet(g, T \ {x}) \in Int
      BY <3>2, <2>2, SumOver
    <3>4. SumFunctionOnSet(f, T \ {x}) <= SumFunctionOnSet(g, T \ {x})
      BY <2>1, <3>2
    <3>5. f[x] <= g[x] /\ f[x] \in Int /\ g[x] \in Int
      BY <2>2
    <3> QED BY <3>1, <3>3, <3>4, <3>5, <2>1
  <2> QED BY <2>3, <2>4
<1>2. SumFunctionOnSet(f, S) <= SumFunctionOnSet(g, S)
  BY <1>1
<1> QED BY <1>2 DEF SumFunction

(* Zeros sum up to zero.                                                    *)
LEMMA SumOfNothing ==
    ASSUME NEW S, IsFiniteSet(S), NEW f \in [S -> Int], \A x \in S : f[x] = 0
    PROVE  SumFunction(f) = 0
<1> DEFINE B == {T \in SUBSET S : SumFunctionOnSet(f, T) # 0}
<1>1. B = {}
  <2> SUFFICES ASSUME B # {} PROVE FALSE
    OBVIOUS
  <2>1. PICK T \in B : \A x \in T : T \ {x} \notin B
    BY SmallestSet
  <2>2. T \subseteq S /\ IsFiniteSet(T) /\ \A x \in T : f[x] \in Int
    BY FS_Subset
  <2>3. CASE T = {}
    BY <2>1, <2>2, <2>3, SumOver
  <2>4. ASSUME NEW x \in T PROVE FALSE
    <3>1. SumFunctionOnSet(f, T) = f[x] + SumFunctionOnSet(f, T \ {x})
      BY <2>2, SumOver
    <3>2. SumFunctionOnSet(f, T \ {x}) = 0
      BY <2>1, <2>2
    <3> QED BY <3>1, <3>2, <2>1, <2>2
  <2> QED BY <2>3, <2>4
<1> QED BY <1>1 DEF SumFunction

(* A sum changes by as much as the one value that changes.                  *)
LEMMA SumOneChanged ==
    ASSUME NEW S, IsFiniteSet(S), NEW f \in [S -> Int], NEW g \in [S -> Int],
           NEW x \in S, \A y \in S \ {x} : g[y] = f[y]
    PROVE  SumFunction(g) = SumFunction(f) + (g[x] - f[x])
<1>1. IsFiniteSet(S \ {x}) /\ \A y \in S \ {x} : f[y] \in Int /\ g[y] = f[y]
  BY FS_Subset
<1>2. SumFunctionOnSet(g, S \ {x}) = SumFunctionOnSet(f, S \ {x})
  BY <1>1, SameSum
<1>3. /\ SumFunctionOnSet(f, S) = f[x] + SumFunctionOnSet(f, S \ {x})
      /\ SumFunctionOnSet(g, S) = g[x] + SumFunctionOnSet(g, S \ {x})
  BY SumOver
<1>4. SumFunctionOnSet(f, S \ {x}) \in Int /\ f[x] \in Int /\ g[x] \in Int
  BY <1>1, SumOver
<1>5. SumFunctionOnSet(g, S) = SumFunctionOnSet(f, S) + (g[x] - f[x])
  BY <1>2, <1>3, <1>4
<1> QED BY <1>5 DEF SumFunction
=============================================================================
