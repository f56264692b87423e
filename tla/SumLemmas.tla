----------------------------- MODULE SumLemmas -----------------------------
(***************************************************************************)
(* Sums over finite sets: what SumFunctionOnSet of the community modules   *)
(* returns, for every function and every finite set.  The ledger, the caps *)
(* and the batches of the models are such sums.                            *)
(*                                                                         *)
(* The operator is a recursive function over the subsets of the set.  That *)
(* this function exists, and each fact about it, is shown by a smallest    *)
(* counterexample: the subsets of a finite set are well-founded by strict  *)
(* inclusion, so a set of subsets that is not empty has a smallest one.    *)
(***************************************************************************)
EXTENDS Integers, Functions, FiniteSetTheorems, TLAPS

\* Of a set of subsets that is not empty, one contains no other.
LEMMA SmallestSet ==
  ASSUME NEW S, IsFiniteSet(S), NEW Bad, Bad \subseteq SUBSET S, Bad # {}
  PROVE  \E T \in Bad : \A U \in SUBSET T : U # T => U \notin Bad
<1> DEFINE R == StrictSubsetOrdering(S)
<1>1. IsWellFoundedOn(R, SUBSET S)
  BY FS_StrictSubsetOrderingWellFounded, FS_FiniteSubsetsOfFinite
<1> HIDE DEF R
<1>2. PICK T \in Bad : \A U \in Bad : <<U, T>> \notin R
  BY <1>1, WFMin
<1>3. \A U \in SUBSET T : U # T /\ U \in Bad => <<U, T>> \in R
  BY DEF R, StrictSubsetOrdering
<1>4. \A U \in SUBSET T : U # T => U \notin Bad
  BY <1>2, <1>3
<1>5. QED
  BY <1>4

-----------------------------------------------------------------------------
(* The recursion is well defined.                                          *)

\* The element a sum begins with.
SomeOf(S) == CHOOSE x \in S : TRUE

\* g adds fun up over every subset of U.
AddsUp(g, fun, U) ==
  g = [T \in SUBSET U |-> IF T = {} THEN 0 ELSE fun[SomeOf(T)] + g[T \ {SomeOf(T)}]]

LEMMA SomeIsIn == ASSUME NEW S, S # {} PROVE SomeOf(S) \in S
BY DEF SomeOf

LEMMA SumsAt ==
  ASSUME NEW g, NEW fun, NEW U, AddsUp(g, fun, U), NEW T \in SUBSET U
  PROVE  g[T] = IF T = {} THEN 0 ELSE fun[SomeOf(T)] + g[T \ {SomeOf(T)}]
BY Zenon DEF AddsUp

\* Two solutions agree where both are defined.
LEMMA SumsAgree ==
  ASSUME NEW S, IsFiniteSet(S), NEW fun, NEW U \in SUBSET S, NEW V \in SUBSET S, NEW g, NEW h,
         AddsUp(g, fun, U), AddsUp(h, fun, V), NEW T \in SUBSET (U \cap V)
  PROVE  g[T] = h[T]
<1> DEFINE Bad == {W \in SUBSET (U \cap V) : g[W] # h[W]}
<1>1. SUFFICES Bad = {}
  OBVIOUS
<1>2. ASSUME Bad # {} PROVE FALSE
  <2>1. PICK W \in Bad : \A X \in SUBSET W : X # W => X \notin Bad
    <3>1. Bad \subseteq SUBSET S
      OBVIOUS
    <3> HIDE DEF Bad
    <3>2. QED
      BY <1>2, <3>1, SmallestSet
  <2>2. /\ g[W] = IF W = {} THEN 0 ELSE fun[SomeOf(W)] + g[W \ {SomeOf(W)}]
        /\ h[W] = IF W = {} THEN 0 ELSE fun[SomeOf(W)] + h[W \ {SomeOf(W)}]
    BY SumsAt
  <2>3. W # {}
    BY <2>2
  <2>4. g[W \ {SomeOf(W)}] = h[W \ {SomeOf(W)}]
    BY <2>1, <2>3, SomeIsIn
  <2>5. QED
    BY <2>2, <2>4
<1>3. QED
  BY <1>2

\* A solution is built from those of the smaller sets.
LEMMA SumsExist ==
  ASSUME NEW S, IsFiniteSet(S), NEW fun
  PROVE  \E g : AddsUp(g, fun, S)
<1> DEFINE Bad == {W \in SUBSET S : ~\E g : AddsUp(g, fun, W)}
<1>1. SUFFICES Bad = {}
  OBVIOUS
<1>2. ASSUME Bad # {} PROVE FALSE
  <2>1. PICK W \in Bad : \A X \in SUBSET W : X # W => X \notin Bad
    <3>1. Bad \subseteq SUBSET S
      OBVIOUS
    <3> HIDE DEF Bad
    <3>2. QED
      BY <1>2, <3>1, SmallestSet
  <2> DEFINE G(X) == CHOOSE g : AddsUp(g, fun, X)
  <2>2. ASSUME NEW X \in SUBSET W, X # W
        PROVE  AddsUp(G(X), fun, X)
    BY <2>1, <2>2
  <2> HIDE DEF G
  <2> DEFINE g == [T \in SUBSET W |->
                     IF T = {} THEN 0 ELSE fun[SomeOf(T)] + G(T \ {SomeOf(T)})[T \ {SomeOf(T)}]]
  <2>3. ASSUME NEW T \in SUBSET W, T # {}
        PROVE  g[T \ {SomeOf(T)}] = G(T \ {SomeOf(T)})[T \ {SomeOf(T)}]
    <3> DEFINE X == T \ {SomeOf(T)}
    <3>1. X \in SUBSET W /\ X # W
      BY <2>3, SomeIsIn
    <3>2. AddsUp(G(X), fun, X)
      BY <2>2, <3>1
    <3> HIDE DEF X
    <3>3. G(X)[X] = IF X = {} THEN 0 ELSE fun[SomeOf(X)] + G(X)[X \ {SomeOf(X)}]
      BY <3>2, SumsAt
    <3>4. CASE X = {}
      BY <3>1, <3>3, <3>4 DEF X
    <3>5. CASE X # {}
      <4> DEFINE Y == X \ {SomeOf(X)}
      <4>1. Y \in SUBSET X /\ Y \in SUBSET W /\ Y # W
        BY <3>1, <3>5, SomeIsIn
      <4>2. AddsUp(G(Y), fun, Y)
        BY <2>2, <4>1
      <4>3. G(X)[Y] = G(Y)[Y]
        <5>1. X \in SUBSET S /\ Y \in SUBSET S /\ Y \in SUBSET (X \cap Y)
          BY <3>1, <4>1
        <5> HIDE DEF Y
        <5>2. QED
          BY <3>2, <4>2, <5>1, SumsAgree
      <4>4. g[X] = fun[SomeOf(X)] + G(Y)[Y]
        BY <3>1, <3>5
      <4>5. QED
        BY <3>3, <3>5, <4>3, <4>4 DEF X
    <3>6. QED
      BY <3>4, <3>5
  <2>4. AddsUp(g, fun, W)
    <3>1. ASSUME NEW T \in SUBSET W
          PROVE  (IF T = {} THEN 0 ELSE fun[SomeOf(T)] + G(T \ {SomeOf(T)})[T \ {SomeOf(T)}])
               = (IF T = {} THEN 0 ELSE fun[SomeOf(T)] + g[T \ {SomeOf(T)}])
      <4> HIDE DEF g
      <4>1. T # {} => g[T \ {SomeOf(T)}] = G(T \ {SomeOf(T)})[T \ {SomeOf(T)}]
        BY <2>3
      <4>2. QED
        BY <4>1
    <3> DEFINE A(T) == IF T = {} THEN 0 ELSE fun[SomeOf(T)] + G(T \ {SomeOf(T)})[T \ {SomeOf(T)}]
               B(T) == IF T = {} THEN 0 ELSE fun[SomeOf(T)] + g[T \ {SomeOf(T)}]
    <3>2. g = [T \in SUBSET W |-> A(T)]
      OBVIOUS
    <3>3. \A T \in SUBSET W : A(T) = B(T)
      BY <3>1
    <3>4. g = [T \in SUBSET W |-> B(T)]
      <4> HIDE DEF A, B, g
      <4>1. QED
        BY <3>2, <3>3
    <3>5. QED
      BY <3>4 DEF AddsUp
  <2>5. QED
    BY <2>4
<1>3. QED
  BY <1>2

\* The operator of the library is such a solution.
LEMMA SumUnfolds ==
  ASSUME NEW fun, NEW S, IsFiniteSet(S)
  PROVE  \E g : AddsUp(g, fun, S) /\ SumFunctionOnSet(fun, S) = g[S]
<1>1. PICK g : AddsUp(g, fun, S)
  BY SumsExist
<1> DEFINE it[T \in SUBSET S] == IF T = {} THEN 0 ELSE fun[SomeOf(T)] + it[T \ {SomeOf(T)}]
<1>2. AddsUp(it, fun, S)
  BY <1>1 DEF AddsUp
<1>3. SumFunctionOnSet(fun, S) = it[S]
  BY DEF SumFunctionOnSet, FoldFunctionOnSet, MapThenFoldSet, SomeOf
<1> HIDE DEF it
<1>4. QED
  BY <1>2, <1>3
-----------------------------------------------------------------------------
(* What a sum over a finite set obeys.                                     *)

LEMMA SumStep ==
  ASSUME NEW fun, NEW S, IsFiniteSet(S)
  PROVE  SumFunctionOnSet(fun, S) =
           IF S = {} THEN 0 ELSE fun[SomeOf(S)] + SumFunctionOnSet(fun, S \ {SomeOf(S)})
<1>1. PICK g : AddsUp(g, fun, S) /\ SumFunctionOnSet(fun, S) = g[S]
  BY SumUnfolds
<1>2. g[S] = IF S = {} THEN 0 ELSE fun[SomeOf(S)] + g[S \ {SomeOf(S)}]
  BY <1>1, SumsAt
<1>3. CASE S # {}
  <2> DEFINE T == S \ {SomeOf(S)}
  <2>1. T \in SUBSET S /\ S \in SUBSET S /\ T \in SUBSET (S \cap T) /\ IsFiniteSet(T)
    BY FS_Subset
  <2> HIDE DEF T
  <2>2. PICK h : AddsUp(h, fun, T) /\ SumFunctionOnSet(fun, T) = h[T]
    BY <2>1, SumUnfolds
  <2>3. g[T] = h[T]
    BY <1>1, <2>1, <2>2, SumsAgree
  <2>4. QED
    BY <1>1, <1>2, <1>3, <2>2, <2>3 DEF T
<1>4. QED
  BY <1>1, <1>2, <1>3

LEMMA SumOfNothing == ASSUME NEW fun PROVE SumFunctionOnSet(fun, {}) = 0
BY SumStep, FS_EmptySet

\* A sum of integers is an integer, one of naturals a natural.
LEMMA SumType ==
  ASSUME NEW fun, NEW S, IsFiniteSet(S), NEW N \in {Int, Nat}, \A x \in S : fun[x] \in N
  PROVE  SumFunctionOnSet(fun, S) \in N
<1> DEFINE Bad == {T \in SUBSET S : SumFunctionOnSet(fun, T) \notin N}
<1>1. SUFFICES Bad = {}
  OBVIOUS
<1>2. ASSUME Bad # {} PROVE FALSE
  <2>1. PICK T \in Bad : \A U \in SUBSET T : U # T => U \notin Bad
    <3>1. Bad \subseteq SUBSET S
      OBVIOUS
    <3> HIDE DEF Bad
    <3>2. QED
      BY <1>2, <3>1, SmallestSet
  <2>2. IsFiniteSet(T) /\ T \subseteq S
    BY FS_Subset
  <2>3. SumFunctionOnSet(fun, T) =
          IF T = {} THEN 0 ELSE fun[SomeOf(T)] + SumFunctionOnSet(fun, T \ {SomeOf(T)})
    BY <2>2, SumStep
  <2>4. CASE T # {}
    <3>1. SumFunctionOnSet(fun, T \ {SomeOf(T)}) \in N /\ fun[SomeOf(T)] \in N
      BY <2>1, <2>2, <2>4, SomeIsIn
    <3>2. QED
      BY <2>3, <2>4, <3>1
  <2>5. QED
    BY <2>3, <2>4
<1>3. QED
  BY <1>2

\* Any element may be taken out, not only the one the definition begins with.
LEMMA SumRemove ==
  ASSUME NEW fun, NEW S, IsFiniteSet(S), \A x \in S : fun[x] \in Int, NEW e \in S
  PROVE  SumFunctionOnSet(fun, S) = fun[e] + SumFunctionOnSet(fun, S \ {e})
<1> DEFINE Bad == {T \in SUBSET S : \E x \in T :
                     SumFunctionOnSet(fun, T) # fun[x] + SumFunctionOnSet(fun, T \ {x})}
<1>1. SUFFICES Bad = {}
  OBVIOUS
<1>2. ASSUME Bad # {} PROVE FALSE
  <2>1. PICK T \in Bad : \A U \in SUBSET T : U # T => U \notin Bad
    <3>1. Bad \subseteq SUBSET S
      OBVIOUS
    <3> HIDE DEF Bad
    <3>2. QED
      BY <1>2, <3>1, SmallestSet
  <2>2. PICK x \in T : SumFunctionOnSet(fun, T) # fun[x] + SumFunctionOnSet(fun, T \ {x})
    OBVIOUS
  <2> DEFINE y == SomeOf(T)
             Tx == T \ {x}
             Ty == T \ {y}
             R == Tx \ {y}
  <2>3. y \in T /\ IsFiniteSet(T) /\ IsFiniteSet(Tx) /\ IsFiniteSet(R)
    BY SomeIsIn, FS_Subset
  <2>4. SumFunctionOnSet(fun, T) = fun[y] + SumFunctionOnSet(fun, Ty)
    BY <2>3, SumStep
  <2>5. y # x
    BY <2>2, <2>4
  <2>6. SumFunctionOnSet(fun, Ty) = fun[x] + SumFunctionOnSet(fun, R)
    <3>1. Ty \in SUBSET T /\ Ty # T /\ Ty \in SUBSET S /\ x \in Ty
      BY <2>3, <2>5
    <3>2. Ty \ {x} = R
      OBVIOUS
    <3>3. Ty \notin Bad
      BY <2>1, <3>1
    <3> HIDE DEF Ty, R
    <3>4. QED
      BY <3>1, <3>2, <3>3
  <2>7. SumFunctionOnSet(fun, Tx) = fun[y] + SumFunctionOnSet(fun, R)
    <3>1. Tx \in SUBSET T /\ Tx # T /\ Tx \in SUBSET S /\ y \in Tx
      BY <2>3, <2>5
    <3>3. Tx \notin Bad
      BY <2>1, <3>1
    <3> HIDE DEF Tx
    <3>4. QED
      BY <3>1, <3>3
  <2>8. fun[x] \in Int /\ fun[y] \in Int /\ SumFunctionOnSet(fun, R) \in Int
    BY <2>3, SumType
  <2> HIDE DEF y, Tx, Ty, R
  <2>9. SumFunctionOnSet(fun, T) = fun[x] + SumFunctionOnSet(fun, Tx)
    BY <2>4, <2>6, <2>7, <2>8
  <2>10. QED
    BY <2>2, <2>9 DEF Tx
<1>3. QED
  BY <1>2

LEMMA SumAdd ==
  ASSUME NEW fun, NEW S, IsFiniteSet(S), NEW e, e \notin S, \A x \in S \cup {e} : fun[x] \in Int
  PROVE  SumFunctionOnSet(fun, S \cup {e}) = SumFunctionOnSet(fun, S) + fun[e]
<1> DEFINE T == S \cup {e}
<1>1. IsFiniteSet(T) /\ T \ {e} = S /\ e \in T
  BY FS_AddElement
<1>2. SumFunctionOnSet(fun, S) \in Int /\ fun[e] \in Int
  BY SumType
<1>3. SumFunctionOnSet(fun, T) = fun[e] + SumFunctionOnSet(fun, S)
  <2> HIDE DEF T
  <2>1. QED
    BY <1>1, SumRemove DEF T
<1>4. QED
  BY <1>2, <1>3

\* Only the values on the set count.
LEMMA SumSame ==
  ASSUME NEW f, NEW g, NEW S, IsFiniteSet(S), \A x \in S : f[x] = g[x]
  PROVE  SumFunctionOnSet(f, S) = SumFunctionOnSet(g, S)
<1> DEFINE Bad == {T \in SUBSET S : SumFunctionOnSet(f, T) # SumFunctionOnSet(g, T)}
<1>1. SUFFICES Bad = {}
  OBVIOUS
<1>2. ASSUME Bad # {} PROVE FALSE
  <2>1. PICK T \in Bad : \A U \in SUBSET T : U # T => U \notin Bad
    <3>1. Bad \subseteq SUBSET S
      OBVIOUS
    <3> HIDE DEF Bad
    <3>2. QED
      BY <1>2, <3>1, SmallestSet
  <2>2. IsFiniteSet(T) /\ T \subseteq S
    BY FS_Subset
  <2>3. /\ SumFunctionOnSet(f, T) =
             IF T = {} THEN 0 ELSE f[SomeOf(T)] + SumFunctionOnSet(f, T \ {SomeOf(T)})
        /\ SumFunctionOnSet(g, T) =
             IF T = {} THEN 0 ELSE g[SomeOf(T)] + SumFunctionOnSet(g, T \ {SomeOf(T)})
    BY <2>2, SumStep
  <2>4. CASE T # {}
    <3>1. /\ SumFunctionOnSet(f, T \ {SomeOf(T)}) = SumFunctionOnSet(g, T \ {SomeOf(T)})
          /\ f[SomeOf(T)] = g[SomeOf(T)]
      BY <2>1, <2>2, <2>4, SomeIsIn
    <3>2. QED
      BY <2>3, <2>4, <3>1
  <2>5. QED
    BY <2>3, <2>4
<1>3. QED
  BY <1>2

\* More terms, a larger sum.
LEMMA SumGrows ==
  ASSUME NEW fun, NEW S, IsFiniteSet(S), \A x \in S : fun[x] \in Nat, NEW T \in SUBSET S
  PROVE  SumFunctionOnSet(fun, T) <= SumFunctionOnSet(fun, S)
<1> DEFINE Bad == {U \in SUBSET S : \E V \in SUBSET U : ~(SumFunctionOnSet(fun, V) <= SumFunctionOnSet(fun, U))}
<1>1. SUFFICES Bad = {}
  OBVIOUS
<1>2. ASSUME Bad # {} PROVE FALSE
  <2>1. PICK U \in Bad : \A V \in SUBSET U : V # U => V \notin Bad
    <3>1. Bad \subseteq SUBSET S
      OBVIOUS
    <3> HIDE DEF Bad
    <3>2. QED
      BY <1>2, <3>1, SmallestSet
  <2>2. PICK V \in SUBSET U : ~(SumFunctionOnSet(fun, V) <= SumFunctionOnSet(fun, U))
    OBVIOUS
  <2>3. IsFiniteSet(U) /\ U \subseteq S /\ IsFiniteSet(V)
    BY FS_Subset
  <2>4. SumFunctionOnSet(fun, U) \in Nat /\ SumFunctionOnSet(fun, V) \in Nat
    BY <2>3, SumType
  <2>5. PICK x \in U : x \notin V
    BY <2>2, <2>4
  <2> DEFINE W == U \ {x}
  <2>6. W \in SUBSET U /\ W # U /\ V \in SUBSET W /\ W \in SUBSET S
    BY <2>3, <2>5
  <2>7. SumFunctionOnSet(fun, U) = fun[x] + SumFunctionOnSet(fun, W)
    <3>1. \A y \in U : fun[y] \in Int
      BY <2>3
    <3>2. QED
      BY <2>3, <3>1, SumRemove
  <2>8. SumFunctionOnSet(fun, V) <= SumFunctionOnSet(fun, W)
    <3>1. W \notin Bad
      BY <2>1, <2>6
    <3> HIDE DEF W
    <3>2. QED
      BY <2>6, <3>1
  <2>9. SumFunctionOnSet(fun, W) \in Nat /\ fun[x] \in Nat
    <3>1. IsFiniteSet(W) /\ \A y \in W : fun[y] \in Nat
      BY <2>3, <2>6, FS_Subset
    <3> HIDE DEF W
    <3>2. QED
      BY <2>3, <3>1, SumType
  <2> HIDE DEF W
  <2>10. SumFunctionOnSet(fun, V) <= SumFunctionOnSet(fun, U)
    BY <2>4, <2>7, <2>8, <2>9
  <2>11. QED
    BY <2>2, <2>10
<1>3. QED
  BY <1>2

\* What is left when a part is taken out.
LEMMA SumDifference ==
  ASSUME NEW fun, NEW S, IsFiniteSet(S), \A x \in S : fun[x] \in Int, NEW T \in SUBSET S
  PROVE  SumFunctionOnSet(fun, S \ T) = SumFunctionOnSet(fun, S) - SumFunctionOnSet(fun, T)
<1> DEFINE Off(U) == SumFunctionOnSet(fun, S \ U) # SumFunctionOnSet(fun, S) - SumFunctionOnSet(fun, U)
           Bad == {U \in SUBSET S : Off(U)}
<1>1. SUFFICES Bad = {}
  OBVIOUS
<1>2. ASSUME Bad # {} PROVE FALSE
  <2>1. PICK U \in Bad : \A V \in SUBSET U : V # U => V \notin Bad
    <3>1. Bad \subseteq SUBSET S
      OBVIOUS
    <3> HIDE DEF Bad
    <3>2. QED
      BY <1>2, <3>1, SmallestSet
  <2>0. Off(U)
    OBVIOUS
  <2> HIDE DEF Bad
  <2>2. U \subseteq S /\ IsFiniteSet(U) /\ IsFiniteSet(S \ U) /\ \A x \in U : fun[x] \in Int
    <3>1. U \in SUBSET S
      BY DEF Bad
    <3>2. QED
      BY <3>1, FS_Subset
  <2>3. SumFunctionOnSet(fun, S) \in Int /\ SumFunctionOnSet(fun, S \ U) \in Int
    BY <2>2, SumType
  <2>4. CASE U = {}
    <3>1. S \ U = S /\ SumFunctionOnSet(fun, U) = 0
      BY <2>4, SumOfNothing
    <3>2. SumFunctionOnSet(fun, S \ U) = SumFunctionOnSet(fun, S) - SumFunctionOnSet(fun, U)
      BY ONLY <2>3, <3>1
    <3>3. QED
      BY <2>0, <3>2
  <2>5. CASE U # {}
    <3>1. PICK e \in U : TRUE
      BY <2>5
    <3> DEFINE V == U \ {e}
               R == S \ U
    <3>2. /\ V \in SUBSET U /\ V # U /\ V \in SUBSET S /\ S \ V = R \cup {e} /\ e \notin R
          /\ IsFiniteSet(V) /\ IsFiniteSet(R) /\ fun[e] \in Int
          /\ (\A x \in V : fun[x] \in Int) /\ (\A x \in R \cup {e} : fun[x] \in Int)
      BY <2>2, FS_Subset
    <3>3. ~Off(V)
      BY <2>1, <3>2 DEF Bad
    <3> HIDE DEF V, R, Off
    <3>4. SumFunctionOnSet(fun, R \cup {e}) = SumFunctionOnSet(fun, R) + fun[e]
      BY <3>2, SumAdd
    <3>5. SumFunctionOnSet(fun, U) = fun[e] + SumFunctionOnSet(fun, V)
      BY <2>2, SumRemove DEF V
    <3>6. SumFunctionOnSet(fun, V) \in Int /\ SumFunctionOnSet(fun, R) \in Int
      BY <3>2, SumType
    <3>7. SumFunctionOnSet(fun, R) = SumFunctionOnSet(fun, S) - SumFunctionOnSet(fun, U)
      <4>1. SumFunctionOnSet(fun, R \cup {e}) = SumFunctionOnSet(fun, S) - SumFunctionOnSet(fun, V)
        BY <3>2, <3>3, Zenon DEF Off
      <4>2. fun[e] \in Int
        BY <3>2
      <4>3. QED
        BY ONLY <2>3, <3>4, <3>5, <3>6, <4>1, <4>2
    <3>8. ~Off(U)
      BY <3>7 DEF Off, R
    <3>9. QED
      BY <2>0, <3>8
  <2>6. QED
    BY <2>4, <2>5
<1>3. QED
  BY <1>2

\* A sum changes by what one of its terms changes.
LEMMA SumUpdate ==
  ASSUME NEW f, NEW g, NEW S, IsFiniteSet(S), NEW e \in S,
         \A x \in S : f[x] \in Int /\ g[x] \in Int, \A x \in S \ {e} : g[x] = f[x]
  PROVE  SumFunctionOnSet(g, S) = SumFunctionOnSet(f, S) - f[e] + g[e]
<1>1. /\ SumFunctionOnSet(f, S) = f[e] + SumFunctionOnSet(f, S \ {e})
      /\ SumFunctionOnSet(g, S) = g[e] + SumFunctionOnSet(g, S \ {e})
  BY SumRemove
<1>2. IsFiniteSet(S \ {e})
  BY FS_Subset
<1>3. SumFunctionOnSet(f, S \ {e}) = SumFunctionOnSet(g, S \ {e}) /\ SumFunctionOnSet(f, S \ {e}) \in Int
  BY <1>2, SumSame, SumType
<1>4. QED
  BY <1>1, <1>3

\* Sums of sums: terms that add up one by one.
LEMMA SumPlus ==
  ASSUME NEW f, NEW g, NEW k, NEW S, IsFiniteSet(S),
         \A x \in S : f[x] \in Int /\ g[x] \in Int /\ k[x] = f[x] + g[x]
  PROVE  SumFunctionOnSet(k, S) = SumFunctionOnSet(f, S) + SumFunctionOnSet(g, S)
<1> DEFINE Off(U) == SumFunctionOnSet(k, U) # SumFunctionOnSet(f, U) + SumFunctionOnSet(g, U)
           Bad == {U \in SUBSET S : Off(U)}
<1>1. SUFFICES Bad = {}
  OBVIOUS
<1>2. ASSUME Bad # {} PROVE FALSE
  <2>1. PICK U \in Bad : \A V \in SUBSET U : V # U => V \notin Bad
    <3>1. Bad \subseteq SUBSET S
      OBVIOUS
    <3> HIDE DEF Bad
    <3>2. QED
      BY <1>2, <3>1, SmallestSet
  <2> DEFINE e == SomeOf(U)
             V == U \ {e}
  <2>2. U \subseteq S /\ IsFiniteSet(U) /\ IsFiniteSet(V)
    BY FS_Subset
  <2>3. /\ SumFunctionOnSet(f, U) = IF U = {} THEN 0 ELSE f[e] + SumFunctionOnSet(f, V)
        /\ SumFunctionOnSet(g, U) = IF U = {} THEN 0 ELSE g[e] + SumFunctionOnSet(g, V)
        /\ SumFunctionOnSet(k, U) = IF U = {} THEN 0 ELSE k[e] + SumFunctionOnSet(k, V)
    BY <2>2, SumStep
  <2>4. CASE U = {}
    <3>1. ~Off(U)
      BY <2>3, <2>4
    <3>2. QED
      BY <3>1
  <2>5. CASE U # {}
    <3>1. e \in U /\ V \in SUBSET U /\ V # U /\ V \in SUBSET S
      BY <2>2, <2>5, SomeIsIn
    <3>2. ~Off(V)
      BY <2>1, <3>1
    <3>3. SumFunctionOnSet(f, V) \in Int /\ SumFunctionOnSet(g, V) \in Int
      <4>1. \A x \in V : f[x] \in Int /\ g[x] \in Int
        BY <3>1
      <4> HIDE DEF V
      <4>2. QED
        BY <2>2, <4>1, SumType
    <3>4. f[e] \in Int /\ g[e] \in Int /\ k[e] = f[e] + g[e]
      BY <2>2, <3>1
    <3> HIDE DEF e, V
    <3>5. ~Off(U)
      BY <2>3, <2>5, <3>2, <3>3, <3>4
    <3>6. QED
      BY <3>5
  <2>6. QED
    BY <2>4, <2>5
<1>3. QED
  BY <1>2

\* Zeros add up to zero, and a function and its negation to zero.
LEMMA SumOfZeros ==
  ASSUME NEW fun, NEW S, IsFiniteSet(S), \A x \in S : fun[x] = 0
  PROVE  SumFunctionOnSet(fun, S) = 0
<1>1. SumFunctionOnSet(fun, S) = SumFunctionOnSet(fun, S) + SumFunctionOnSet(fun, S)
  BY SumPlus
<1>2. SumFunctionOnSet(fun, S) \in Int
  BY SumType
<1>3. \A n \in Int : n = n + n => n = 0
  OBVIOUS
<1>4. QED
  BY <1>1, <1>2, <1>3

LEMMA SumNegated ==
  ASSUME NEW f, NEW g, NEW S, IsFiniteSet(S), \A x \in S : f[x] \in Int /\ g[x] = -f[x]
  PROVE  SumFunctionOnSet(f, S) + SumFunctionOnSet(g, S) = 0
<1> DEFINE zero == [x \in S |-> 0]
<1>1. \A x \in S : f[x] \in Int /\ g[x] \in Int /\ zero[x] = f[x] + g[x] /\ zero[x] = 0
  OBVIOUS
<1> HIDE DEF zero
<1>2. SumFunctionOnSet(zero, S) = SumFunctionOnSet(f, S) + SumFunctionOnSet(g, S)
  BY <1>1, SumPlus
<1>3. SumFunctionOnSet(zero, S) = 0
  BY <1>1, SumOfZeros
<1>4. QED
  BY <1>2, <1>3

\* A sum over the images of a set under a one-to-one map is the sum over the set.
LEMMA SumOverImages ==
  ASSUME NEW f, NEW g, NEW h, NEW S, IsFiniteSet(S),
         \A x \in S : f[x] \in Int /\ g[h[x]] = f[x],
         \A x, y \in S : h[x] = h[y] => x = y
  PROVE  /\ IsFiniteSet({h[x] : x \in S})
         /\ SumFunctionOnSet(g, {h[x] : x \in S}) = SumFunctionOnSet(f, S)
<1> DEFINE Image(U) == {h[x] : x \in U}
           Off(U) == ~(/\ IsFiniteSet(Image(U))
                       /\ SumFunctionOnSet(g, Image(U)) = SumFunctionOnSet(f, U))
           Bad == {U \in SUBSET S : Off(U)}
<1>1. SUFFICES Bad = {}
  OBVIOUS
<1>2. ASSUME Bad # {} PROVE FALSE
  <2>1. PICK U \in Bad : \A V \in SUBSET U : V # U => V \notin Bad
    <3>1. Bad \subseteq SUBSET S
      OBVIOUS
    <3> HIDE DEF Bad
    <3>2. QED
      BY <1>2, <3>1, SmallestSet
  <2>2. Off(U) /\ U \in SUBSET S
    OBVIOUS
  <2>3. IsFiniteSet(U)
    BY <2>2, FS_Subset
  <2>4. U # {}
    <3>1. Image({}) = {}
      OBVIOUS
    <3>2. ~Off({})
      <4> HIDE DEF Image
      <4>1. QED
        BY <3>1, SumOfNothing, FS_EmptySet
    <3> HIDE DEF Off
    <3>3. QED
      BY <2>2, <3>2
  <2>5. PICK e \in U : TRUE
    BY <2>4
  <2> DEFINE V == U \ {e}
  <2>6. V \in SUBSET U /\ V # U /\ V \in SUBSET S /\ IsFiniteSet(V) /\ e \in S
    BY <2>2, <2>3, <2>5, FS_Subset
  <2>7. V \notin Bad
    BY <2>1, <2>6
  <2>8. ~Off(V)
    <3> HIDE DEF Off, V
    <3>1. QED
      BY <2>6, <2>7 DEF Bad
  <2>9. Image(U) = Image(V) \cup {h[e]} /\ h[e] \notin Image(V)
    BY <2>2, <2>5
  <2>10. IsFiniteSet(Image(V)) /\ \A z \in Image(V) \cup {h[e]} : g[z] \in Int
    <3>1. IsFiniteSet(Image(V))
      BY <2>8
    <3>2. QED
      BY <2>6, <3>1
  <2>11. g[h[e]] = f[e] /\ f[e] \in Int
    BY <2>6
  <2>12. (\A x \in U : f[x] \in Int) /\ (\A x \in V : f[x] \in Int)
    BY <2>2
  <2>13. SumFunctionOnSet(f, U) = f[e] + SumFunctionOnSet(f, V)
    BY <2>3, <2>12, SumRemove
  <2> HIDE DEF V, Image
  <2>14. SumFunctionOnSet(g, Image(U)) = SumFunctionOnSet(g, Image(V)) + g[h[e]]
    BY <2>9, <2>10, SumAdd
  <2>15. IsFiniteSet(Image(U))
    BY <2>9, <2>10, FS_AddElement
  <2>16. SumFunctionOnSet(f, V) \in Int
    BY <2>6, <2>12, SumType
  <2>17. QED
    BY <2>2, <2>8, <2>11, <2>13, <2>14, <2>16, <2>15
<1>3. QED
  BY <1>2
-----------------------------------------------------------------------------
(* The largest of finitely many.                                           *)

LEMMA Highest ==
  ASSUME NEW S, IsFiniteSet(S), S # {}, NEW fun, \A x \in S : fun[x] \in Int
  PROVE  \E x \in S : \A y \in S : fun[y] <= fun[x]
<1> DEFINE Climbing(U) == U # {} /\ \A x \in U : \E y \in U : fun[x] < fun[y]
           Bad == {U \in SUBSET S : Climbing(U)}
<1>1. ASSUME Bad # {} PROVE FALSE
  <2>1. PICK U \in Bad : \A V \in SUBSET U : V # U => V \notin Bad
    <3>1. Bad \subseteq SUBSET S
      OBVIOUS
    <3> HIDE DEF Bad
    <3>2. QED
      BY <1>1, <3>1, SmallestSet
  <2>2. Climbing(U) /\ U \in SUBSET S
    OBVIOUS
  <2>3. PICK e \in U : TRUE
    BY <2>2
  <2> DEFINE V == U \ {e}
  <2>4. V # {}
    BY <2>2, <2>3
  <2>5. ASSUME NEW x \in V
        PROVE  \E y \in V : fun[x] < fun[y]
    <3>1. PICK y \in U : fun[x] < fun[y]
      BY <2>2
    <3>2. PICK z \in U : fun[y] < fun[z]
      BY <2>2
    <3>3. fun[x] \in Int /\ fun[y] \in Int /\ fun[z] \in Int
      BY <2>2
    <3>4. y # e \/ z # e
      BY <3>2, <3>3
    <3>5. QED
      BY <3>1, <3>2, <3>3, <3>4
  <2>6. V \in Bad
    BY <2>2, <2>4, <2>5
  <2>7. QED
    BY <2>1, <2>3, <2>6
<1>2. ~Climbing(S)
  BY <1>1
<1>3. QED
  BY <1>2
=============================================================================
