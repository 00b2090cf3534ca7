----------------------------- MODULE FoldLemmas ------------------------------
(***************************************************************************)
(* Lemmas about the recursive operators of the community modules that the  *)
(* models use: the sum of a function over a finite set, which takes its    *)
(* elements in any order, and the concatenation of a sequence of           *)
(* sequences.  A recursive function is what CHOOSE picks of all that       *)
(* satisfy its equation: one has to show that there is one, and then what  *)
(* every one of them is.                                                   *)
(***************************************************************************)
EXTENDS Integers, SequencesExt, FiniteSetTheorems, NaturalsInduction,
        WellFoundedInduction, TLAPS

\* Every set of natural numbers has a least one: the form of induction all
\* proofs below use, on a set of counterexamples.
LEMMA LeastElement ==
    ASSUME NEW T, T \subseteq Nat, T # {}
    PROVE  \E x \in T : \A y \in T : x <= y
  <1>1. IsWellFoundedOn(OpToRel(<, Nat), Nat)
    BY NatLessThanWellFounded
  <1>2. PICK x \in T : \A y \in T : ~(<<y, x>> \in OpToRel(<, Nat))
    BY <1>1, WFMin
  <1>3. \A y \in T : ~(y < x)
    BY <1>2 DEF OpToRel
  <1> QED BY <1>3

\* What holds at zero and passes from each number to the next holds of all.
LEMMA EveryNumber ==
    ASSUME NEW T, 0 \in T, \A n \in Nat : n \in T => n + 1 \in T
    PROVE  Nat \subseteq T
  <1> SUFFICES ASSUME Nat \ T # {} PROVE FALSE
    OBVIOUS
  <1>1. PICK x \in Nat \ T : \A y \in Nat \ T : x <= y
    BY LeastElement
  <1>2. x - 1 \in Nat /\ x - 1 \in T
    BY <1>1
  <1> QED BY <1>1, <1>2

-----------------------------------------------------------------------------
(* Recursion over the subsets of a finite set, that takes one element away *)
(* at a time: c[s] of the set s, with the step g.                          *)

Chooses(c, S) == \A s \in SUBSET S : s # {} => c[s] \in s
StaysIn(g, S, T) == \A x \in S, t \in T : g[x][t] \in T
Step(f, c, g, base, s) == IF s = {} THEN base ELSE g[c[s]][f[s \ {c[s]}]]
Solves(f, c, g, base, S) == \A s \in SUBSET S : f[s] = Step(f, c, g, base, s)
Solvable(c, g, base, S, T) == \E f \in [SUBSET S -> T] : Solves(f, c, g, base, S)

\* There is a function that satisfies the equation.
LEMMA FoldExists ==
    ASSUME NEW S, IsFiniteSet(S), NEW T, NEW base \in T,
           NEW c, Chooses(c, S), NEW g, StaysIn(g, S, T)
    PROVE  Solvable(c, g, base, S, T)
  <1> USE DEF Chooses, StaysIn, Solves, Solvable
  <1> DEFINE Small(n) == {s \in SUBSET S : Cardinality(s) <= n}
             Folds(n) == {f \in [Small(n) -> T] :
                            \A s \in Small(n) : f[s] = Step(f, c, g, base, s)}
             Done == {n \in Nat : Folds(n) # {}}
  <1>1. /\ \A s \in SUBSET S : IsFiniteSet(s) /\ Cardinality(s) \in Nat
        /\ \A s \in SUBSET S : s # {} =>
             Cardinality(s \ {c[s]}) = Cardinality(s) - 1
        /\ \A s \in SUBSET S : Cardinality(s) = 0 <=> s = {}
    BY FS_Subset, FS_CardinalityType, FS_RemoveElement, FS_EmptySet
  <1>2. 0 \in Done
    <2> DEFINE f == [s \in Small(0) |-> base]
    <2>1. \A s \in Small(0) : s = {}
      BY <1>1
    <2>2. f \in Folds(0)
      BY <2>1 DEF Step
    <2> QED BY <2>2
  <1>3. ASSUME NEW n \in Nat, n \in Done PROVE n + 1 \in Done
    <2>1. PICK f \in [Small(n) -> T] : \A s \in Small(n) : f[s] = Step(f, c, g, base, s)
      BY <1>3
    <2> DEFINE h == [s \in Small(n + 1) |-> Step(f, c, g, base, s)]
    <2>2. ASSUME NEW s \in Small(n + 1), s # {}
          PROVE  s \ {c[s]} \in Small(n) /\ c[s] \in S
      BY <1>1, <2>2
    <2>3. \A s \in Small(n + 1) : Step(f, c, g, base, s) \in T
      BY <2>1, <2>2 DEF Step
    <2>4. \A s \in Small(n) : s \in Small(n + 1) /\ h[s] = f[s]
      BY <1>1, <2>1
    <2>5. ASSUME NEW s \in Small(n + 1) PROVE h[s] = Step(h, c, g, base, s)
      <3>1. h[s] = Step(f, c, g, base, s)
        OBVIOUS
      <3>2. s # {} => h[s \ {c[s]}] = f[s \ {c[s]}]
        BY <2>2, <2>4
      <3> HIDE DEF h
      <3> QED BY <3>1, <3>2 DEF Step
    <2>6. h \in Folds(n + 1)
      BY <2>3, <2>5
    <2>7. n + 1 \in Nat
      OBVIOUS
    <2> HIDE DEF Folds
    <2> QED BY <2>6, <2>7, Zenon
  <1> HIDE DEF Done
  <1>4. Nat \subseteq Done
    BY <1>2, <1>3, EveryNumber
  <1>5. Cardinality(S) \in Nat /\ Small(Cardinality(S)) = SUBSET S
    <2>1. \A s \in SUBSET S : Cardinality(s) <= Cardinality(S)
      BY FS_Subset
    <2> QED BY <1>1, <2>1
  <1>6. Folds(Cardinality(S)) # {}
    BY <1>4, <1>5 DEF Done
  <1> QED BY <1>5, <1>6

Follows(f, h, c, S) ==
    \A s \in SUBSET S : s # {} /\ f[s \ {c[s]}] = h[s \ {c[s]}] => f[s] = h[s]

\* Two functions agree everywhere if they agree on the empty set, and on
\* every other set whenever they agree on what is left of it.
LEMMA FoldUnique ==
    ASSUME NEW S, IsFiniteSet(S),
           NEW c, Chooses(c, S), NEW f, NEW h, f[{}] = h[{}], Follows(f, h, c, S)
    PROVE  \A s \in SUBSET S : f[s] = h[s]
  <1> USE DEF Chooses, Follows
  <1> DEFINE Bad == {s \in SUBSET S : f[s] # h[s]}
             Sizes == {Cardinality(s) : s \in Bad}
  <1> SUFFICES ASSUME Bad # {} PROVE FALSE
    OBVIOUS
  <1>1. \A s \in SUBSET S : IsFiniteSet(s) /\ Cardinality(s) \in Nat
    BY FS_Subset, FS_CardinalityType
  <1>2. PICK s \in Bad : \A r \in Bad : Cardinality(s) <= Cardinality(r)
    <2>1. Sizes \subseteq Nat /\ Sizes # {}
      BY <1>1
    <2>2. PICK n \in Sizes : \A m \in Sizes : n <= m
      BY <2>1, LeastElement
    <2> QED BY <2>2
  <1>3. s # {}
    OBVIOUS
  <1>4. s \ {c[s]} \in SUBSET S /\ Cardinality(s \ {c[s]}) = Cardinality(s) - 1
    BY <1>1, <1>3, FS_RemoveElement
  <1>5. s \ {c[s]} \notin Bad
    BY <1>1, <1>2, <1>4
  <1> QED BY <1>3, <1>4, <1>5

-----------------------------------------------------------------------------
(* Sums.                                                                   *)

\* What the fold of SumFunctionOnSet takes away, and does with it.
Pick(S) == [s \in SUBSET S |-> CHOOSE x \in s : TRUE]
Adding(fun, S) == [x \in S |-> [t \in Nat |-> fun[x] + t]]
Sums(f, fun, S) == Solves(f, Pick(S), Adding(fun, S), 0, S)

\* The sum is what every solution of the equation gives.
LEMMA SumIsFold ==
    ASSUME NEW S, IsFiniteSet(S), NEW fun, \A x \in S : fun[x] \in Nat
    PROVE  \E f \in [SUBSET S -> Nat] :
             Sums(f, fun, S) /\ SumFunctionOnSet(fun, S) = f[S]
  <1> DEFINE Equation(f) == f = [s \in SUBSET S |->
                IF s = {} THEN 0 ELSE fun[CHOOSE x \in s : TRUE] + f[s \ {CHOOSE x \in s : TRUE}]]
             iter == CHOOSE f : Equation(f)
  <1>1. \A s \in SUBSET S : s # {} => Pick(S)[s] \in s /\ Pick(S)[s] \in S
    BY DEF Pick
  <1>2. \A x \in S, t \in Nat : Adding(fun, S)[x][t] = fun[x] + t /\ fun[x] + t \in Nat
    BY DEF Adding
  <1>3. PICK f \in [SUBSET S -> Nat] : Sums(f, fun, S)
    <2>1. Chooses(Pick(S), S) /\ StaysIn(Adding(fun, S), S, Nat) /\ 0 \in Nat
      BY <1>1, <1>2 DEF Chooses, StaysIn
    <2> DEFINE c == Pick(S)
               g == Adding(fun, S)
               z == 0
    <2>2. Chooses(c, S) /\ StaysIn(g, S, Nat) /\ z \in Nat
      BY <2>1
    <2> HIDE DEF c, g, z
    <2>3. Solvable(c, g, z, S, Nat)
      BY <2>2, FoldExists
    <2> QED BY <2>3 DEF Solvable, Sums, c, g, z
  <1>5. Equation(f)
    <2>1. ASSUME NEW s \in SUBSET S, s # {}
          PROVE  f[s] = fun[CHOOSE x \in s : TRUE] + f[s \ {CHOOSE x \in s : TRUE}]
      <3>1. Pick(S)[s] = CHOOSE x \in s : TRUE
        BY DEF Pick
      <3>2. f[s \ {Pick(S)[s]}] \in Nat
        BY <1>3
      <3> QED BY <1>1, <1>2, <1>3, <2>1, <3>1, <3>2 DEF Sums, Solves, Step
    <2>2. f[{}] = 0
      BY <1>3 DEF Sums, Solves, Step
    <2> QED BY <1>3, <2>1, <2>2
  <1>6. Equation(iter)
    BY <1>5
  <1>7. iter[S] = f[S]
    <2> DEFINE c == Pick(S)
    <2>1. \A s \in SUBSET S : s # {} => c[s] \in s /\ c[s] = CHOOSE x \in s : TRUE
      BY <1>1 DEF Pick
    <2> DEFINE Next(h, s) == IF s = {} THEN 0
                             ELSE fun[CHOOSE x \in s : TRUE] + h[s \ {CHOOSE x \in s : TRUE}]
    <2>2. \A s \in SUBSET S : iter[s] = Next(iter, s) /\ f[s] = Next(f, s)
      <3> HIDE DEF iter
      <3>1. \A h, s : Equation(h) /\ s \in SUBSET S => h[s] = Next(h, s)
        <4> SUFFICES ASSUME NEW h, NEW s \in SUBSET S, Equation(h) PROVE h[s] = Next(h, s)
          BY Zenon
        <4>1. h = [r \in SUBSET S |-> Next(h, r)]
          OBVIOUS
        <4> HIDE DEF Next
        <4> QED BY <4>1
      <3> HIDE DEF Equation, Next
      <3> QED BY <1>5, <1>6, <3>1
    <2> HIDE DEF iter
    <2>3. iter[{}] = f[{}]
      BY <2>2
    <2>4. Follows(iter, f, c, S) /\ Chooses(c, S)
      BY <2>1, <2>2 DEF Follows, Chooses
    <2> HIDE DEF c
    <2>5. \A s \in SUBSET S : iter[s] = f[s]
      BY <2>3, <2>4, FoldUnique
    <2> QED BY <2>5
  <1>8. SumFunctionOnSet(fun, S) = iter[S]
    BY DEF SumFunctionOnSet, FoldFunctionOnSet, MapThenFoldSet
  <1> QED BY <1>3, <1>7, <1>8

\* A sum of natural numbers is one.
LEMMA SumIsNatural ==
    ASSUME NEW S, IsFiniteSet(S), NEW fun, \A x \in S : fun[x] \in Nat
    PROVE  SumFunctionOnSet(fun, S) \in Nat
  <1>1. PICK f \in [SUBSET S -> Nat] : Sums(f, fun, S) /\ SumFunctionOnSet(fun, S) = f[S]
    BY SumIsFold
  <1>2. S \in SUBSET S
    OBVIOUS
  <1> QED BY <1>1, <1>2

\* An empty sum is zero.
LEMMA SumOfNone == ASSUME NEW fun PROVE SumFunctionOnSet(fun, {}) = 0
  <1>1. IsFiniteSet({}) /\ \A x \in {} : fun[x] \in Nat
    BY FS_EmptySet
  <1>2. PICK f : Sums(f, fun, {}) /\ SumFunctionOnSet(fun, {}) = f[{}]
    BY <1>1, SumIsFold
  <1> QED BY <1>2 DEF Sums, Solves, Step

\* A sum is one element of the set and the sum of the rest.
Adds(k, fun, s) ==
    /\ s = {} => k[s] = 0
    /\ s # {} => k[s] = fun[CHOOSE y \in s : TRUE] + k[s \ {CHOOSE y \in s : TRUE}]

\* Every solution of the equation adds one element of a set to the rest.
LEMMA SolutionAdds ==
    ASSUME NEW Q, NEW fun, \A y \in Q : fun[y] \in Nat,
           NEW k \in [SUBSET Q -> Nat], Sums(k, fun, Q), NEW s \in SUBSET Q
    PROVE  Adds(k, fun, s)
  <1>1. k[s] = Step(k, Pick(Q), Adding(fun, Q), 0, s)
    BY DEF Sums, Solves
  <1>2. CASE s = {}
    BY <1>1, <1>2 DEF Step, Adds
  <1>3. CASE s # {}
    <2> DEFINE y == CHOOSE z \in s : TRUE
    <2>1. Pick(Q)[s] = y /\ y \in Q
      BY <1>3 DEF Pick
    <2> HIDE DEF y
    <2>2. k[s] = Adding(fun, Q)[y][k[s \ {y}]]
      BY <1>1, <1>3, <2>1 DEF Step
    <2>3. k[s \ {y}] \in Nat
      OBVIOUS
    <2>4. k[s] = fun[y] + k[s \ {y}]
      BY <2>1, <2>2, <2>3 DEF Adding
    <2> QED BY <1>3, <2>4 DEF y, Adds
  <1> QED BY <1>2, <1>3

\* The element that the fold takes first can be split off.
LEMMA SumTakesOne ==
    ASSUME NEW S, IsFiniteSet(S), S # {}, NEW fun, \A x \in S : fun[x] \in Nat
    PROVE  LET x == CHOOSE y \in S : TRUE
           IN  SumFunctionOnSet(fun, S) = fun[x] + SumFunctionOnSet(fun, S \ {x})
  <1> DEFINE x == CHOOSE y \in S : TRUE
             R == S \ {x}
  <1>1. x \in S
    OBVIOUS
  <1>2. PICK f \in [SUBSET S -> Nat] : Sums(f, fun, S) /\ SumFunctionOnSet(fun, S) = f[S]
    BY SumIsFold
  <1>3. IsFiniteSet(R) /\ \A y \in R : fun[y] \in Nat
    BY FS_Subset
  <1>4. PICK h \in [SUBSET R -> Nat] : Sums(h, fun, R) /\ SumFunctionOnSet(fun, R) = h[R]
    BY <1>3, SumIsFold
  <1>5. \A s \in SUBSET S : Adds(f, fun, s)
    BY <1>2, SolutionAdds
  <1>6. \A s \in SUBSET R : Adds(h, fun, s)
    BY <1>3, <1>4, SolutionAdds
  <1>7. f[R] = h[R]
    <2> DEFINE c == Pick(R)
    <2>1. Chooses(c, R) /\ \A s \in SUBSET R : c[s] = CHOOSE y \in s : TRUE
      BY DEF Pick, Chooses
    <2>2. f[{}] = h[{}]
      BY <1>5, <1>6 DEF Adds
    <2>3. Follows(f, h, c, R)
      BY <1>5, <1>6, <2>1 DEF Follows, Adds
    <2> HIDE DEF c, R
    <2> QED BY <1>3, <2>1, <2>2, <2>3, FoldUnique
  <1>8. f[S] = fun[x] + f[R]
    <2>1. Adds(f, fun, S)
      BY <1>5
    <2> QED BY <2>1 DEF Adds
  <1> QED BY <1>2, <1>4, <1>7, <1>8

\* A sum of zeros is zero.
LEMMA SumOfZeros ==
    ASSUME NEW S, IsFiniteSet(S), NEW fun, \A x \in S : fun[x] = 0
    PROVE  SumFunctionOnSet(fun, S) = 0
  <1> DEFINE c == Pick(S)
             f == [s \in SUBSET S |-> SumFunctionOnSet(fun, s)]
             h == [s \in SUBSET S |-> 0]
  <1>1. Chooses(c, S) /\ \A s \in SUBSET S : c[s] = CHOOSE y \in s : TRUE
    BY DEF Pick, Chooses
  <1>2. f[{}] = h[{}]
    BY SumOfNone
  <1>3. Follows(f, h, c, S)
    <2> SUFFICES ASSUME NEW s \in SUBSET S, s # {}, f[s \ {c[s]}] = h[s \ {c[s]}]
                 PROVE  f[s] = h[s]
      BY DEF Follows
    <2> DEFINE x == CHOOSE y \in s : TRUE
    <2>1. c[s] = x /\ x \in S
      BY <1>1
    <2> HIDE DEF c
    <2>2. IsFiniteSet(s) /\ \A y \in s : fun[y] \in Nat
      BY FS_Subset
    <2>3. SumFunctionOnSet(fun, s) = fun[x] + SumFunctionOnSet(fun, s \ {x})
      BY <2>2, SumTakesOne
    <2>4. SumFunctionOnSet(fun, s \ {x}) = 0
      BY <2>1
    <2> QED BY <2>1, <2>3, <2>4
  <1> HIDE DEF c, f, h
  <1>4. f[S] = h[S]
    BY <1>1, <1>2, <1>3, FoldUnique
  <1> QED BY <1>4 DEF f, h

\* A sum of positive numbers is positive.
LEMMA SumIsPositive ==
    ASSUME NEW S, IsFiniteSet(S), S # {}, NEW fun, \A x \in S : fun[x] \in Nat \ {0}
    PROVE  SumFunctionOnSet(fun, S) \in Nat \ {0}
  <1> DEFINE x == CHOOSE y \in S : TRUE
  <1>1. x \in S /\ SumFunctionOnSet(fun, S) = fun[x] + SumFunctionOnSet(fun, S \ {x})
    BY SumTakesOne
  <1>2. IsFiniteSet(S \ {x}) /\ \A y \in S \ {x} : fun[y] \in Nat
    BY FS_Subset
  <1>3. SumFunctionOnSet(fun, S \ {x}) \in Nat
    BY <1>2, SumIsNatural
  <1> QED BY <1>1, <1>3

\* It does not matter which element is added last.
LEMMA SumTakesAny ==
    ASSUME NEW S, IsFiniteSet(S), NEW fun, \A x \in S : fun[x] \in Nat, NEW x \in S
    PROVE  SumFunctionOnSet(fun, S) = fun[x] + SumFunctionOnSet(fun, S \ {x})
  <1> DEFINE Sum(s) == SumFunctionOnSet(fun, s)
             Bad == {s \in SUBSET S : \E y \in s : Sum(s) # fun[y] + Sum(s \ {y})}
             Sizes == {Cardinality(s) : s \in Bad}
  <1> SUFFICES ASSUME Bad # {} PROVE FALSE
    OBVIOUS
  <1>1. \A s \in SUBSET S : IsFiniteSet(s) /\ Cardinality(s) \in Nat
    BY FS_Subset, FS_CardinalityType
  <1>2. PICK s \in Bad : \A r \in Bad : Cardinality(s) <= Cardinality(r)
    <2>1. Sizes \subseteq Nat /\ Sizes # {}
      BY <1>1
    <2>2. PICK n \in Sizes : \A m \in Sizes : n <= m
      BY <2>1, LeastElement
    <2> QED BY <2>2
  <1>3. PICK y \in s : Sum(s) # fun[y] + Sum(s \ {y})
    OBVIOUS
  <1> DEFINE z == CHOOSE w \in s : TRUE
  <1>4. z \in s /\ Sum(s) = fun[z] + Sum(s \ {z})
    BY <1>1, <1>3, SumTakesOne
  <1>5. ASSUME NEW w \in s PROVE s \ {w} \in SUBSET S /\ s \ {w} \notin Bad
    <2>1. Cardinality(s \ {w}) = Cardinality(s) - 1
      BY <1>1, FS_RemoveElement
    <2>2. s \ {w} \in SUBSET S
      OBVIOUS
    <2> QED BY <1>1, <1>2, <2>1, <2>2
  <1> HIDE DEF z
  <1>6. y # z
    BY <1>3, <1>4
  <1>7. Sum(s \ {z}) = fun[y] + Sum(s \ {y, z})
    <2>1. y \in s \ {z} /\ (s \ {z}) \ {y} = s \ {y, z}
      BY <1>6
    <2> QED BY <1>4, <1>5, <2>1
  <1>8. Sum(s \ {y}) = fun[z] + Sum(s \ {y, z})
    <2>1. z \in s \ {y} /\ (s \ {y}) \ {z} = s \ {y, z}
      BY <1>4, <1>6
    <2> QED BY <1>5, <2>1
  <1>9. fun[y] \in Nat /\ fun[z] \in Nat /\ Sum(s \ {y, z}) \in Nat
    <2>1. s \ {y, z} \in SUBSET S
      OBVIOUS
    <2> QED BY <1>1, <1>4, <2>1, SumIsNatural
  <1> HIDE DEF Sum
  <1> QED BY <1>3, <1>4, <1>7, <1>8, <1>9

\* The sum over an interval of indices grows by one term at a time.
LEMMA SumGrows ==
    ASSUME NEW n \in Nat, NEW fun, \A i \in 1 .. n : fun[i] \in Nat,
           NEW k \in Nat, k < n
    PROVE  SumFunctionOnSet(fun, 1 .. k + 1) = SumFunctionOnSet(fun, 1 .. k) + fun[k + 1]
  <1>1. /\ IsFiniteSet(1 .. k + 1) /\ IsFiniteSet(1 .. k)
        /\ (1 .. k + 1) \ {k + 1} = 1 .. k /\ k + 1 \in 1 .. k + 1
        /\ \A i \in 1 .. k + 1 : fun[i] \in Nat
        /\ \A i \in 1 .. k : fun[i] \in Nat
    <2>1. IsFiniteSet(1 .. k + 1) /\ IsFiniteSet(1 .. k)
      BY FS_Interval
    <2> QED BY <2>1
  <1>2. SumFunctionOnSet(fun, 1 .. k + 1) = fun[k + 1] + SumFunctionOnSet(fun, 1 .. k)
    BY <1>1, SumTakesAny
  <1>3. SumFunctionOnSet(fun, 1 .. k) \in Nat
    BY <1>1, SumIsNatural
  <1> QED BY <1>1, <1>2, <1>3

-----------------------------------------------------------------------------
(* Recursion from one end of an interval to the other, with the step g.    *)

\* What holds at the lower end and passes from each number to the next
\* holds everywhere.
LEMMA EveryIndex ==
    ASSUME NEW lo \in Int, NEW hi \in Int, NEW P, lo \in P,
           \A i \in lo .. hi - 1 : i \in P => i + 1 \in P
    PROVE  lo .. hi \subseteq P
  <1> DEFINE T == {n \in Nat : lo + n \in lo .. hi => lo + n \in P}
  <1>1. 0 \in T
    OBVIOUS
  <1>2. ASSUME NEW n \in Nat, n \in T PROVE n + 1 \in T
    <2> SUFFICES ASSUME lo + (n + 1) \in lo .. hi PROVE lo + (n + 1) \in P
      OBVIOUS
    <2>1. lo + n \in lo .. hi - 1 /\ lo + n \in P
      BY <1>2
    <2>2. (lo + n) + 1 \in P
      BY <2>1
    <2> QED BY <2>2
  <1> HIDE DEF T
  <1>3. Nat \subseteq T
    BY <1>1, <1>2, EveryNumber
  <1>4. ASSUME NEW i \in lo .. hi PROVE i \in P
    <2>1. i - lo \in T /\ lo + (i - lo) = i
      BY <1>3
    <2> QED BY <2>1 DEF T
  <1> QED BY <1>4

Iterates(f, g, base, lo, hi) ==
    f[lo] = base /\ \A i \in lo + 1 .. hi : f[i] = g[i][f[i - 1]]
Iterable(g, base, lo, hi, T) == \E f \in [lo .. hi -> T] : Iterates(f, g, base, lo, hi)
StaysAt(g, lo, hi, T) == \A i \in lo + 1 .. hi, t \in T : g[i][t] \in T

\* There is a function that satisfies the equation.
LEMMA IterationExists ==
    ASSUME NEW lo \in Int, NEW hi \in Int, lo <= hi, NEW T, NEW base \in T,
           NEW g, StaysAt(g, lo, hi, T)
    PROVE  Iterable(g, base, lo, hi, T)
  <1> DEFINE Done == {n \in lo .. hi : Iterable(g, base, lo, n, T)}
  <1>1. lo \in Done
    <2> DEFINE f == [i \in lo .. lo |-> base]
    <2>1. f \in [lo .. lo -> T] /\ Iterates(f, g, base, lo, lo)
      BY DEF Iterates
    <2>2. lo \in lo .. hi
      OBVIOUS
    <2> HIDE DEF f
    <2> QED BY <2>1, <2>2 DEF Iterable
  <1>2. ASSUME NEW n \in lo .. hi - 1, n \in Done PROVE n + 1 \in Done
    <2>1. PICK f \in [lo .. n -> T] : Iterates(f, g, base, lo, n)
      BY <1>2 DEF Iterable
    <2> DEFINE h == [i \in lo .. n + 1 |-> IF i = n + 1 THEN g[n + 1][f[n]] ELSE f[i]]
    <2>2. n \in Int /\ lo <= n /\ n + 1 \in lo + 1 .. hi /\ n + 1 \in lo .. hi
      OBVIOUS
    <2>3. f[n] \in T /\ g[n + 1][f[n]] \in T
      BY <2>1, <2>2 DEF StaysAt
    <2>4. h \in [lo .. n + 1 -> T]
      BY <2>1, <2>2, <2>3
    <2>5. h[n + 1] = g[n + 1][f[n]] /\ \A i \in lo .. n : h[i] = f[i]
      BY <2>2
    <2> HIDE DEF h
    <2>6. h[lo] = base
      BY <2>1, <2>2, <2>5 DEF Iterates
    <2>7. ASSUME NEW i \in lo + 1 .. n + 1 PROVE h[i] = g[i][h[i - 1]]
      <3>1. CASE i = n + 1
        <4>1. h[i - 1] = f[n]
          BY <2>2, <2>5, <3>1
        <4> QED BY <2>5, <3>1, <4>1
      <3>2. CASE i # n + 1
        <4>1. i \in lo + 1 .. n /\ i \in lo .. n /\ i - 1 \in lo .. n
          BY <2>2, <3>2
        <4>2. f[i] = g[i][f[i - 1]]
          BY <2>1, <4>1 DEF Iterates
        <4> QED BY <2>5, <4>1, <4>2
      <3> QED BY <3>1, <3>2
    <2> QED BY <2>2, <2>4, <2>6, <2>7 DEF Iterable, Iterates
  <1> HIDE DEF Done
  <1>3. lo .. hi \subseteq Done
    BY <1>1, <1>2, EveryIndex
  <1>4. hi \in lo .. hi
    OBVIOUS
  <1> QED BY <1>3, <1>4 DEF Done

-----------------------------------------------------------------------------
(* Concatenation.                                                          *)

\* A function that appends one sequence after the other.
Flattens(f, seqs) ==
    f[1] = seqs[1] /\ \A i \in 2 .. Len(seqs) : f[i] = f[i - 1] \o seqs[i]

\* FlattenSeq returns what such a function ends with.
LEMMA FlattenAppends ==
    ASSUME NEW T, NEW seqs \in Seq(Seq(T)), seqs # <<>>
    PROVE  \E f \in [1 .. Len(seqs) -> Seq(T)] :
             Flattens(f, seqs) /\ FlattenSeq(seqs) = f[Len(seqs)]
  <1> DEFINE n == Len(seqs)
             g == [i \in 1 .. n |-> [t \in Seq(T) |-> t \o seqs[i]]]
             b == seqs[1]
             Equation(f) == f = [i \in 1 .. n |-> IF i = 1 THEN seqs[i] ELSE f[i - 1] \o seqs[i]]
             iter == CHOOSE f : Equation(f)
  <1>1. n \in Nat /\ n > 0 /\ \A i \in 1 .. n : seqs[i] \in Seq(T)
    OBVIOUS
  <1>2. b \in Seq(T) /\ 1 <= n
    BY <1>1
  <1>3. \A i \in 1 .. n, t \in Seq(T) : g[i][t] = t \o seqs[i] /\ t \o seqs[i] \in Seq(T)
    BY <1>1
  <1>4. StaysAt(g, 1, n, Seq(T))
    <2> HIDE DEF g
    <2>1. \A i \in 1 + 1 .. n : i \in 1 .. n
      BY <1>1
    <2> QED BY <1>3, <2>1 DEF StaysAt
  <1> HIDE DEF g, b
  <1>5. PICK f \in [1 .. n -> Seq(T)] : Iterates(f, g, b, 1, n)
    <2>1. 1 \in Int /\ n \in Int /\ Iterable(g, b, 1, n, Seq(T))
      BY <1>1, <1>2, <1>4, IterationExists
    <2> QED BY <2>1 DEF Iterable
  <1>6. Flattens(f, seqs)
    <2>1. f[1] = seqs[1]
      BY <1>5 DEF Iterates, b
    <2>2. ASSUME NEW i \in 2 .. n PROVE f[i] = f[i - 1] \o seqs[i]
      <3>1. i \in 1 + 1 .. n /\ i \in 1 .. n /\ i - 1 \in 1 .. n
        BY <1>1
      <3>2. f[i] = g[i][f[i - 1]] /\ f[i - 1] \in Seq(T)
        BY <1>5, <3>1 DEF Iterates
      <3> QED BY <1>3, <3>1, <3>2
    <2> QED BY <2>1, <2>2 DEF Flattens
  <1>7. Equation(f)
    <2>1. ASSUME NEW i \in 1 .. n PROVE f[i] = IF i = 1 THEN seqs[i] ELSE f[i - 1] \o seqs[i]
      <3>1. CASE i = 1
        BY <1>6, <3>1 DEF Flattens
      <3>2. CASE i # 1
        <4>1. i \in 2 .. n
          BY <1>1, <3>2
        <4> QED BY <1>6, <3>2, <4>1 DEF Flattens
      <3> QED BY <3>1, <3>2
    <2> QED BY <2>1
  <1>8. Equation(iter)
    BY <1>7
  <1>9. FlattenSeq(seqs) = iter[n]
    BY <1>1 DEF FlattenSeq
  <1>10. iter[n] = f[n]
    <2> DEFINE P == {i \in 1 .. n : iter[i] = f[i]}
    <2>1. \A i \in 1 .. n :
            /\ iter[i] = IF i = 1 THEN seqs[i] ELSE iter[i - 1] \o seqs[i]
            /\ f[i] = IF i = 1 THEN seqs[i] ELSE f[i - 1] \o seqs[i]
      <3> HIDE DEF iter
      <3> QED BY <1>7, <1>8
    <2> DEFINE joined(i, t) == t \o seqs[i]
               first == seqs[1]
    <2>2. /\ iter[1] = first /\ f[1] = first
          /\ \A i \in 2 .. n : iter[i] = joined(i, iter[i - 1]) /\ f[i] = joined(i, f[i - 1])
      <3> HIDE DEF iter
      <3>1. 1 \in 1 .. n /\ \A i \in 2 .. n : i \in 1 .. n /\ i # 1
        BY <1>1
      <3> QED BY <2>1, <3>1
    <2> HIDE DEF iter, Equation, joined, first, n
    <2>3. 1 \in P
      BY <1>1, <2>2
    <2>4. ASSUME NEW i \in 1 .. n - 1, i \in P PROVE i + 1 \in P
      <3>1. i + 1 \in 2 .. n /\ i + 1 \in 1 .. n /\ (i + 1) - 1 = i
        BY <1>1
      <3>2. iter[i] = f[i]
        BY <2>4
      <3>3. iter[i + 1] = f[i + 1]
        BY <2>2, <3>1, <3>2
      <3> QED BY <3>1, <3>3
    <2> HIDE DEF P
    <2>5. 1 \in Int /\ n \in Int
      BY <1>1
    <2>6. 1 .. n \subseteq P
      BY <2>3, <2>4, <2>5, EveryIndex
    <2>7. n \in 1 .. n
      BY <1>1
    <2> QED BY <2>6, <2>7 DEF P
  <1> QED BY <1>6, <1>9, <1>10
=============================================================================
