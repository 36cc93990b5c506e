---------------------------- MODULE SumTheorems ----------------------------
(***************************************************************************)
(* What the sums of the model do (stakes of bets, shares, the LP of a      *)
(* group): theorems about SumFunctionOnSet and SumFunction of the module   *)
(* Functions, for every finite set of summands and every integer values.   *)
(*                                                                         *)
(* SumFunctionOnSet is a fold, a function defined by recursion on finite   *)
(* sets that takes the summands in the order CHOOSE gives them.  That it   *)
(* is defined, and that another order gives the same sum, is shown by the  *)
(* least counterexample: the subsets of a finite set are well-founded      *)
(* under strict inclusion, so a family of them that is not empty has a     *)
(* smallest member (Smallest).                                             *)
(***************************************************************************)
EXTENDS Functions, FiniteSets, FiniteSetTheorems, TLAPS

\* The summand a fold takes next, and the function it computes with: it adds the
\* values of f over each subset of T.
Any(s) == CHOOSE x \in s : TRUE

Adds(it, f, T) ==
  it = [s \in SUBSET T |-> IF s = {} THEN 0 ELSE f[Any(s)] + it[s \ {Any(s)}]]

Adder(f, T) == CHOOSE it : Adds(it, f, T)

\* The library's fold is that function, at the whole set.
LEMMA SumIsAdder == \A f, T : SumFunctionOnSet(f, T) = Adder(f, T)[T]
  BY DEF SumFunctionOnSet, FoldFunctionOnSet, MapThenFoldSet, Adder, Adds, Any

LEMMA AnyIn == \A s : s # {} => Any(s) \in s
  BY DEF Any

\* A family of subsets of a finite set has a smallest member, if it has any.
LEMMA Smallest ==
  ASSUME NEW S, IsFiniteSet(S), NEW C \in SUBSET SUBSET S, C # {}
  PROVE  \E T \in C : \A U \in C : U \subseteq T => U = T
<1>1. FiniteSubsetsOf(S) = SUBSET S
  BY FS_FiniteSubsetsOfFinite
<1>2. PICK T \in C : \A U \in C : <<U, T>> \notin StrictSubsetOrdering(S)
  BY <1>1, FS_StrictSubsetOrderingWellFounded, WFMin
<1> QED
  BY <1>2 DEF StrictSubsetOrdering

\* There is at most one such function, and a larger domain changes nothing.
LEMMA AddersAgree ==
  ASSUME NEW f, NEW T, IsFiniteSet(T), NEW U \in SUBSET T,
         NEW g, Adds(g, f, T), NEW h, Adds(h, f, U)
  PROVE  \A s \in SUBSET U : g[s] = h[s]
<1> DEFINE Differ == {s \in SUBSET U : g[s] # h[s]}
<1> SUFFICES ASSUME Differ # {} PROVE FALSE
  OBVIOUS
<1>0. IsFiniteSet(U)
  BY FS_Subset
<1>1. PICK s \in Differ : \A r \in Differ : r \subseteq s => r = s
  <2>1. Differ \in SUBSET SUBSET U
    OBVIOUS
  <2> HIDE DEF Differ
  <2> QED
    BY <1>0, <2>1, Smallest
<1>2. s # {}
  BY <1>1 DEF Adds
<1>3. Any(s) \in s
  BY <1>2, AnyIn
<1>4. s \ {Any(s)} \notin Differ
  BY <1>1, <1>3
<1>5. g[s \ {Any(s)}] = h[s \ {Any(s)}]
  BY <1>4, <1>1
<1>6. g[s] = f[Any(s)] + g[s \ {Any(s)}]
  BY <1>1, <1>2 DEF Adds
<1>7. h[s] = f[Any(s)] + h[s \ {Any(s)}]
  BY <1>1, <1>2 DEF Adds
<1> QED
  BY <1>1, <1>5, <1>6, <1>7

\* Above all they agree on the smaller one's whole domain.
LEMMA AddersMeet ==
  \A f, T, U, g, h :
    IsFiniteSet(T) /\ U \subseteq T /\ Adds(g, f, T) /\ Adds(h, f, U) => g[U] = h[U]
<1> SUFFICES ASSUME NEW f, NEW T, NEW U, NEW g, NEW h, IsFiniteSet(T), U \subseteq T,
                    Adds(g, f, T), Adds(h, f, U)
             PROVE  g[U] = h[U]
  OBVIOUS
<1>1. U \in SUBSET T /\ U \in SUBSET U
  OBVIOUS
<1>2. \A s \in SUBSET U : g[s] = h[s]
  BY <1>1, AddersAgree, Z3
<1> QED
  BY <1>1, <1>2

\* There is one: what CHOOSE picks satisfies the recursion.
LEMMA AdderExists ==
  ASSUME NEW f, NEW S, IsFiniteSet(S)
  PROVE  Adds(Adder(f, S), f, S)
<1> DEFINE Without == {T \in SUBSET S : ~ Adds(Adder(f, T), f, T)}
<1>1. SUFFICES ASSUME Without # {} PROVE FALSE
  OBVIOUS
<1>2. PICK T \in Without : \A U \in Without : U \subseteq T => U = T
  <2>1. Without \in SUBSET SUBSET S
    OBVIOUS
  <2> HIDE DEF Without
  <2> QED
    BY <1>1, <2>1, Smallest
<1>3. \A U \in SUBSET T : U # T => Adds(Adder(f, U), f, U)
  BY <1>2
<1> DEFINE Value(s) == IF s = {} THEN 0 
                       ELSE f[Any(s)] + Adder(f, s \ {Any(s)})[s \ {Any(s)}]
           all == [s \in SUBSET T |-> Value(s)]
<1>4. ASSUME NEW s \in SUBSET T, s # {}
      PROVE  all[s \ {Any(s)}] = Adder(f, s \ {Any(s)})[s \ {Any(s)}]
  <2> DEFINE r == s \ {Any(s)}
             p == r \ {Any(r)}
  <2>1. r # T /\ r \in SUBSET T
    BY <1>4, AnyIn
  <2>2. Adds(Adder(f, r), f, r)
    BY <2>1, <1>3
  <2>3. CASE r = {}
    <3>1. Adder(f, r)[r] = 0
      BY <2>2, <2>3 DEF Adds
    <3> QED
      BY <3>1, <2>3
  <2>4. CASE r # {}
    <3>1. Adder(f, r)[r] = f[Any(r)] + Adder(f, r)[p]
      BY <2>2, <2>4 DEF Adds
    <3>2. p # T /\ p \in SUBSET T /\ p \in SUBSET r
      BY <2>1
    <3>3. Adds(Adder(f, p), f, p)
      BY <3>2, <1>3
    <3>4. IsFiniteSet(r)
      BY FS_Subset, <2>1, <1>2
    <3>5. Adder(f, r)[p] = Adder(f, p)[p]
      <4> HIDE DEF r, p
      <4> QED
        BY <3>2, <3>3, <3>4, <2>2, AddersAgree
    <3>6. all[r] = f[Any(r)] + Adder(f, p)[p]
      BY <2>1, <2>4
    <3> QED
      BY <3>1, <3>5, <3>6
  <2> QED
    BY <2>3, <2>4
<1>5. Adds(all, f, T)
  <2>1. \A s \in SUBSET T : all[s] = IF s = {} THEN 0 ELSE f[Any(s)] + all[s \ {Any(s)}]
    BY <1>4
  <2> HIDE DEF all
  <2>2. all = [s \in SUBSET T |-> all[s]]
    BY DEF all
  <2> QED
    BY <2>1, <2>2 DEF Adds
<1>6. Adds(Adder(f, T), f, T)
  BY <1>5 DEF Adder
<1> QED
  BY <1>2, <1>6

\* Nothing adds up to 0.
THEOREM SumEmpty == \A f : SumFunctionOnSet(f, {}) = 0
<1> SUFFICES ASSUME NEW f PROVE SumFunctionOnSet(f, {}) = 0
  OBVIOUS
<1>1. Adds(Adder(f, {}), f, {})
  BY AdderExists, FS_EmptySet
<1> QED
  BY <1>1, SumIsAdder DEF Adds

\* The recursion, of the sum itself.
LEMMA SumStep ==
  ASSUME NEW f, NEW T, IsFiniteSet(T), T # {}
  PROVE  SumFunctionOnSet(f, T) = f[Any(T)] + SumFunctionOnSet(f, T \ {Any(T)})
<1> DEFINE U == T \ {Any(T)}
<1>1. Adds(Adder(f, T), f, T)
  BY AdderExists
<1>2. IsFiniteSet(U)
  BY FS_Subset
<1>3. Adds(Adder(f, U), f, U)
  BY <1>2, AdderExists
<1>4. Adder(f, T)[U] = Adder(f, U)[U]
  <2>1. U \subseteq T
    OBVIOUS
  <2> HIDE DEF U
  <2> QED
    BY <1>1, <1>3, <2>1, AddersMeet
<1>5. Adder(f, T)[T] = f[Any(T)] + Adder(f, T)[U]
  BY <1>1 DEF Adds
<1> QED
  BY <1>4, <1>5, SumIsAdder

\* Integers add up to an integer.
THEOREM SumType ==
  ASSUME NEW S, IsFiniteSet(S), NEW f, \A x \in S : f[x] \in Int
  PROVE  \A T \in SUBSET S : SumFunctionOnSet(f, T) \in Int
<1> DEFINE Bad == {T \in SUBSET S : SumFunctionOnSet(f, T) \notin Int}
<1> SUFFICES ASSUME Bad # {} PROVE FALSE
  OBVIOUS
<1>1. PICK T \in Bad : \A U \in Bad : U \subseteq T => U = T
  <2>1. Bad \in SUBSET SUBSET S
    OBVIOUS
  <2> HIDE DEF Bad
  <2> QED
    BY <2>1, Smallest
<1>2. T # {}
  <2> SUFFICES ASSUME T = {} PROVE FALSE
    OBVIOUS
  <2>1. SumFunctionOnSet(f, T) = 0
    BY SumEmpty
  <2>2. SumFunctionOnSet(f, T) \notin Int
    BY <1>1
  <2> QED
    BY <2>1, <2>2
<1>3. Any(T) \in T
  BY <1>2, AnyIn
<1>4. T \ {Any(T)} \notin Bad
  BY <1>1, <1>3
<1>5. SumFunctionOnSet(f, T \ {Any(T)}) \in Int
  BY <1>4
<1>6. IsFiniteSet(T)
  BY FS_Subset
<1>7. SumFunctionOnSet(f, T) = f[Any(T)] + SumFunctionOnSet(f, T \ {Any(T)})
  BY <1>2, <1>6, SumStep
<1>8. f[Any(T)] \in Int
  BY <1>3, <1>1
<1> QED
  BY <1>1, <1>5, <1>7, <1>8

\* Any summand, not only the one CHOOSE picks, can be taken first: the order in
\* which stakes or shares are added does not matter.
THEOREM SumRemove ==
  ASSUME NEW S, IsFiniteSet(S), NEW f, \A x \in S : f[x] \in Int
  PROVE  \A T \in SUBSET S : \A x \in T :
           SumFunctionOnSet(f, T) = f[x] + SumFunctionOnSet(f, T \ {x})
<1> DEFINE Sum(T) == SumFunctionOnSet(f, T)
           Bad == {T \in SUBSET S : \E x \in T : Sum(T) # f[x] + Sum(T \ {x})}
<1> SUFFICES ASSUME Bad # {} PROVE FALSE
  OBVIOUS
<1>1. PICK T \in Bad : \A U \in Bad : U \subseteq T => U = T
  <2>1. Bad \in SUBSET SUBSET S
    OBVIOUS
  <2> HIDE DEF Bad
  <2> QED
    BY <2>1, Smallest
<1>2. PICK x \in T : Sum(T) # f[x] + Sum(T \ {x})
  BY <1>1
<1> DEFINE y == Any(T)
<1>3. y \in T
  BY <1>2, AnyIn
<1>4. IsFiniteSet(T)
  BY FS_Subset
<1>5. Sum(T) = f[y] + Sum(T \ {y})
  BY <1>2, <1>4, SumStep
<1>6. x # y
  BY <1>2, <1>5
<1>7. T \ {x} \notin Bad /\ T \ {y} \notin Bad
  BY <1>1, <1>2, <1>3
<1>8. Sum(T \ {x}) = f[y] + Sum((T \ {x}) \ {y})
  BY <1>1, <1>2, <1>3, <1>6, <1>7
<1>9. Sum(T \ {y}) = f[x] + Sum((T \ {y}) \ {x})
  BY <1>1, <1>2, <1>3, <1>6, <1>7
<1>10. (T \ {x}) \ {y} = (T \ {y}) \ {x}
  OBVIOUS
<1>11. f[x] \in Int /\ f[y] \in Int /\ Sum((T \ {y}) \ {x}) \in Int
  BY <1>1, <1>2, <1>3, SumType
<1>12. Sum(T \ {x}) = f[y] + Sum((T \ {y}) \ {x})
  BY <1>8, <1>10
<1>13. Sum(T) # f[x] + Sum(T \ {x})
  BY <1>2
<1> HIDE DEF Sum, y, Bad
<1> QED
  BY <1>5, <1>9, <1>11, <1>12, <1>13

\* A sum depends on the values of its summands and on nothing else.
THEOREM SumSame ==
  ASSUME NEW S, IsFiniteSet(S), NEW f, NEW g
  PROVE  \A T \in SUBSET S :
           (\A x \in T : f[x] = g[x]) => SumFunctionOnSet(f, T) = SumFunctionOnSet(g, T)
<1> DEFINE Bad == {T \in SUBSET S : /\ \A x \in T : f[x] = g[x]
                                   /\ SumFunctionOnSet(f, T) # SumFunctionOnSet(g, T)}
<1> SUFFICES ASSUME Bad # {} PROVE FALSE
  OBVIOUS
<1>1. PICK T \in Bad : \A U \in Bad : U \subseteq T => U = T
  <2>1. Bad \in SUBSET SUBSET S
    OBVIOUS
  <2> HIDE DEF Bad
  <2> QED
    BY <2>1, Smallest
<1>2. /\ \A x \in T : f[x] = g[x]
      /\ SumFunctionOnSet(f, T) # SumFunctionOnSet(g, T)
  BY <1>1
<1>3. T # {}
  <2> SUFFICES ASSUME T = {} PROVE FALSE
    OBVIOUS
  <2>1. SumFunctionOnSet(f, T) = 0 /\ SumFunctionOnSet(g, T) = 0
    BY SumEmpty
  <2> QED
    BY <1>2, <2>1
<1> DEFINE y == Any(T)
<1>4. y \in T
  BY <1>3, AnyIn
<1>5. IsFiniteSet(T)
  BY FS_Subset
<1>6. /\ SumFunctionOnSet(f, T) = f[y] + SumFunctionOnSet(f, T \ {y})
      /\ SumFunctionOnSet(g, T) = g[y] + SumFunctionOnSet(g, T \ {y})
  BY <1>3, <1>5, SumStep
<1>7. T \ {y} \notin Bad
  BY <1>1, <1>4
<1>8. SumFunctionOnSet(f, T \ {y}) = SumFunctionOnSet(g, T \ {y})
  BY <1>1, <1>2, <1>7
<1> QED
  BY <1>2, <1>4, <1>6, <1>8

\* One summand more adds its value.
THEOREM SumAdd ==
  ASSUME NEW S, IsFiniteSet(S), NEW f, \A x \in S : f[x] \in Int
  PROVE  \A T \in SUBSET S : \A x \in S \ T :
           SumFunctionOnSet(f, T \cup {x}) = SumFunctionOnSet(f, T) + f[x]
<1> TAKE T \in SUBSET S
<1> TAKE x \in S \ T
<1>1. T \cup {x} \in SUBSET S /\ x \in T \cup {x} /\ (T \cup {x}) \ {x} = T
  OBVIOUS
<1>2. SumFunctionOnSet(f, T \cup {x}) = f[x] + SumFunctionOnSet(f, (T \cup {x}) \ {x})
  BY <1>1, SumRemove
<1>3. SumFunctionOnSet(f, T \cup {x}) = f[x] + SumFunctionOnSet(f, T)
  BY <1>1, <1>2
<1>4. SumFunctionOnSet(f, T) \in Int /\ f[x] \in Int
  BY SumType
<1> QED
  BY <1>3, <1>4

\* Fewer summands do not add up to more, when none is negative.
THEOREM SumMonotone ==
  ASSUME NEW S, IsFiniteSet(S), NEW f, \A x \in S : f[x] \in Nat
  PROVE  \A T \in SUBSET S : \A U \in SUBSET T :
           SumFunctionOnSet(f, U) <= SumFunctionOnSet(f, T)
<1> DEFINE Sum(T) == SumFunctionOnSet(f, T)
           Bad == {T \in SUBSET S : \E U \in SUBSET T : ~ (Sum(U) <= Sum(T))}
<1> SUFFICES ASSUME Bad # {} PROVE FALSE
  OBVIOUS
<1>0. \A x \in S : f[x] \in Int
  OBVIOUS
<1>1. PICK T \in Bad : \A V \in Bad : V \subseteq T => V = T
  <2>1. Bad \in SUBSET SUBSET S
    OBVIOUS
  <2> HIDE DEF Bad
  <2> QED
    BY <2>1, Smallest
<1>2. PICK U \in SUBSET T : ~ (Sum(U) <= Sum(T))
  BY <1>1
<1>3. \A V \in SUBSET S : Sum(V) \in Int
  BY <1>0, SumType
<1>4. U # T
  <2>1. Sum(T) <= Sum(T)
    <3> HIDE DEF Sum
    <3> QED
      BY <1>1, <1>3
  <2> QED
    BY <1>2, <2>1
<1>5. PICK x \in T : x \notin U
  BY <1>4
<1>6. T \ {x} \notin Bad /\ U \in SUBSET (T \ {x}) /\ x \in S
  BY <1>1, <1>5
<1>7. Sum(U) <= Sum(T \ {x})
  BY <1>1, <1>6
<1>8. Sum(T) = f[x] + Sum(T \ {x})
  BY <1>0, <1>1, <1>5, SumRemove
<1>9. Sum(U) \in Int /\ Sum(T \ {x}) \in Int /\ f[x] \in Nat
  BY <1>1, <1>3, <1>6
<1> HIDE DEF Sum, Bad
<1> QED
  BY <1>2, <1>7, <1>8, <1>9

\* Changing one value changes the total by the difference: a grant or a spend on
\* one account moves the sum of all of them by its amount.
THEOREM SumUpdate ==
  ASSUME NEW S, IsFiniteSet(S), NEW f \in [S -> Int], NEW x \in S, NEW v \in Int
  PROVE  SumFunction([f EXCEPT ![x] = v]) = SumFunction(f) - f[x] + v
<1> DEFINE g == [f EXCEPT ![x] = v]
<1>1. SumFunction(f) = SumFunctionOnSet(f, S) /\ SumFunction(g) = SumFunctionOnSet(g, S)
  BY DEF SumFunction
<1>2. SumFunctionOnSet(f, S) = f[x] + SumFunctionOnSet(f, S \ {x})
  BY SumRemove
<1>3. \A y \in S : g[y] \in Int
  OBVIOUS
<1>4. g[x] = v /\ \A y \in S \ {x} : g[y] = f[y]
  OBVIOUS
<1> HIDE DEF g
<1>5. SumFunctionOnSet(g, S) = g[x] + SumFunctionOnSet(g, S \ {x})
  BY <1>3, SumRemove
<1>6. SumFunctionOnSet(g, S \ {x}) = SumFunctionOnSet(f, S \ {x})
  BY <1>4, SumSame
<1>7. SumFunctionOnSet(f, S \ {x}) \in Int /\ f[x] \in Int
  BY SumType
<1>8. SumFunction(g) = SumFunction(f) - f[x] + v
  BY <1>1, <1>2, <1>4, <1>5, <1>6, <1>7
<1> QED
  BY <1>8 DEF g

\* Equal summands add up to their value times their number: what a group starts
\* with.
THEOREM SumCount ==
  ASSUME NEW S, IsFiniteSet(S), NEW T \in SUBSET S, NEW c \in Int, NEW f,
         \A x \in T : f[x] = c, \A x \in S : x \notin T => f[x] = 0
  PROVE  SumFunctionOnSet(f, S) = c * Cardinality(T)
<1> DEFINE Sum(U) == SumFunctionOnSet(f, U)
           Bad == {U \in SUBSET S : Sum(U) # c * Cardinality(U \cap T)}
<1> SUFFICES ASSUME Bad # {} PROVE FALSE
  <2>1. S \cap T = T
    OBVIOUS
  <2> QED
    BY <2>1
<1>0. \A x \in S : f[x] \in Int
  <2> SUFFICES ASSUME NEW x \in S PROVE f[x] \in Int
    OBVIOUS
  <2> QED
    BY x \in T \/ x \notin T
<1>1. PICK U \in Bad : \A V \in Bad : V \subseteq U => V = U
  <2>1. Bad \in SUBSET SUBSET S
    OBVIOUS
  <2> HIDE DEF Bad
  <2> QED
    BY <2>1, Smallest
<1>2. Sum(U) # c * Cardinality(U \cap T)
  BY <1>1
<1>3. U # {}
  <2> SUFFICES ASSUME U = {} PROVE FALSE
    OBVIOUS
  <2>1. Sum(U) = 0
    BY SumEmpty
  <2>2. Cardinality(U \cap T) = 0
    BY FS_EmptySet
  <2>3. c * 0 = 0
    OBVIOUS
  <2> QED
    BY <1>2, <2>1, <2>2, <2>3
<1>4. PICK x \in U : TRUE
  BY <1>3
<1> DEFINE V == U \ {x}
<1>5. Sum(V) = c * Cardinality(V \cap T)
  <2>1. V \in SUBSET S /\ V # U /\ V \subseteq U
    BY <1>1, <1>4
  <2> QED
    BY <1>1, <2>1
<1>6. Sum(U) = f[x] + Sum(V)
  BY <1>0, <1>1, <1>4, SumRemove
<1>7. IsFiniteSet(V \cap T) /\ x \in S
  BY <1>1, <1>4, FS_Subset
<1>8. Cardinality(V \cap T) \in Nat
  BY <1>7, FS_CardinalityType
<1>9. CASE x \in T
  <2>1. U \cap T = (V \cap T) \cup {x} /\ x \notin V \cap T
    BY <1>4, <1>9
  <2>2. Cardinality(U \cap T) = Cardinality(V \cap T) + 1
    BY <2>1, <1>7, FS_AddElement
  <2>3. f[x] = c
    BY <1>7, <1>9
  <2>4. \A n \in Nat : c * (n + 1) = c + c * n
    OBVIOUS
  <2> HIDE DEF Sum, V, Bad
  <2> QED
    BY <1>2, <1>5, <1>6, <1>8, <2>2, <2>3, <2>4
<1>10. CASE x \notin T
  <2>1. U \cap T = V \cap T
    BY <1>10
  <2>2. f[x] = 0
    BY <1>7, <1>10
  <2>3. \A n \in Nat : 0 + c * n = c * n
    OBVIOUS
  <2> HIDE DEF Sum, V, Bad
  <2> QED
    BY <1>2, <1>5, <1>6, <1>8, <2>1, <2>2, <2>3
<1> QED
  BY <1>9, <1>10

\* Nothing but zeros adds up to 0.
THEOREM SumZero ==
  ASSUME NEW S, IsFiniteSet(S), NEW f, \A x \in S : f[x] = 0
  PROVE  SumFunctionOnSet(f, S) = 0
<1>1. 0 \in Int /\ {} \in SUBSET S /\ \A x \in {} : f[x] = 0
  OBVIOUS
<1>2. SumFunctionOnSet(f, S) = 0 * Cardinality({})
  BY <1>1, SumCount
<1>3. Cardinality({}) = 0
  BY FS_EmptySet
<1> QED
  BY <1>2, <1>3

\* What disjoint sets of summands come to together.
THEOREM SumUnion ==
  ASSUME NEW S, IsFiniteSet(S), NEW f, \A x \in S : f[x] \in Int, NEW T \in SUBSET S
  PROVE  \A U \in SUBSET S : U \cap T = {} =>
           SumFunctionOnSet(f, T \cup U) = SumFunctionOnSet(f, T) + SumFunctionOnSet(f, U)
<1> DEFINE Sum(V) == SumFunctionOnSet(f, V)
           Bad == {U \in SUBSET S : U \cap T = {} /\ Sum(T \cup U) # Sum(T) + Sum(U)}
<1> SUFFICES ASSUME Bad # {} PROVE FALSE
  OBVIOUS
<1>1. PICK U \in Bad : \A V \in Bad : V \subseteq U => V = U
  <2>1. Bad \in SUBSET SUBSET S
    OBVIOUS
  <2> HIDE DEF Bad
  <2> QED
    BY <2>1, Smallest
<1>2. \A V \in SUBSET S : Sum(V) \in Int
  BY SumType
<1>3. CASE U = {}
  <2>1. Sum({}) = 0 /\ T \cup U = T /\ Sum(T) \in Int
    BY <1>2, <1>3, SumEmpty
  <2>2. Sum(T \cup U) # Sum(T) + Sum(U)
    BY <1>1
  <2> HIDE DEF Sum
  <2> QED
    BY <1>3, <2>1, <2>2
<1>4. ASSUME NEW x \in U PROVE FALSE
  <2>1. /\ U \ {x} \notin Bad /\ U \ {x} \in SUBSET S /\ (U \ {x}) \cap T = {}
        /\ T \cup U \in SUBSET S /\ x \in T \cup U /\ (T \cup U) \ {x} = T \cup (U \ {x})
        /\ x \in S /\ U \in SUBSET S
    BY <1>1, <1>4
  <2>2. Sum(T \cup (U \ {x})) = Sum(T) + Sum(U \ {x})
    BY <2>1
  <2>3. Sum(T \cup U) = f[x] + Sum(T \cup (U \ {x}))
    BY <2>1, SumRemove
  <2>4. Sum(U) = f[x] + Sum(U \ {x})
    BY <1>4, <2>1, SumRemove
  <2>5. Sum(T \cup U) # Sum(T) + Sum(U)
    BY <1>1
  <2>6. f[x] \in Int /\ Sum(T) \in Int /\ Sum(U \ {x}) \in Int
    BY <1>2, <2>1
  <2> HIDE DEF Sum, Bad
  <2> QED
    BY <2>2, <2>3, <2>4, <2>5, <2>6
<1> QED
  BY <1>3, <1>4

\* Summands may be added part by part, when each is in one of the parts.
THEOREM SumByPart ==
  ASSUME NEW S, IsFiniteSet(S), NEW f, \A x \in S : f[x] \in Int,
         NEW C, IsFiniteSet(C), NEW part, \A c \in C : part[c] \in SUBSET S,
         \A x \in S : \E c \in C : x \in part[c],
         \A c, d \in C : c # d => part[c] \cap part[d] = {},
         NEW g, \A c \in C : g[c] = SumFunctionOnSet(f, part[c])
  PROVE  SumFunctionOnSet(f, S) = SumFunctionOnSet(g, C)
<1> DEFINE Of(D) == {x \in S : \E c \in D : x \in part[c]}
           Bad == {D \in SUBSET C : SumFunctionOnSet(f, Of(D)) # SumFunctionOnSet(g, D)}
<1>0. Of(C) = S /\ C \in SUBSET C
  OBVIOUS
<1> SUFFICES ASSUME Bad # {} PROVE FALSE
  BY <1>0
<1>1. PICK D \in Bad : \A V \in Bad : V \subseteq D => V = D
  <2>1. Bad \in SUBSET SUBSET C
    OBVIOUS
  <2> HIDE DEF Bad
  <2> QED
    BY <2>1, Smallest
<1>2. \A V \in SUBSET S : SumFunctionOnSet(f, V) \in Int
  BY SumType
<1>3. \A c \in C : g[c] \in Int
  BY <1>2
<1>4. CASE D = {}
  <2>1. Of(D) = {}
    BY <1>4
  <2>2. SumFunctionOnSet(f, Of(D)) # SumFunctionOnSet(g, D)
    BY <1>1
  <2> HIDE DEF Of
  <2> QED
    BY <1>4, <2>1, <2>2, SumEmpty
<1>5. ASSUME NEW c \in D PROVE FALSE
  <2>1. /\ D \ {c} \notin Bad /\ D \ {c} \in SUBSET C /\ D \in SUBSET C /\ c \in C
    BY <1>1, <1>5
  <2>2. SumFunctionOnSet(f, Of(D \ {c})) = SumFunctionOnSet(g, D \ {c})
    BY <2>1
  <2>3. SumFunctionOnSet(g, D) = g[c] + SumFunctionOnSet(g, D \ {c})
    BY <1>3, <1>5, <2>1, SumRemove
  <2> DEFINE Group == part[c]
             Rest == Of(D \ {c})
  <2>4. /\ Group \in SUBSET S /\ Rest \in SUBSET S /\ Rest \cap Group = {}
        /\ Of(D) = Group \cup Rest
    BY <1>5, <2>1
  <2>4b. g[c] = SumFunctionOnSet(f, Group)
    BY <2>1
  <2>5. SumFunctionOnSet(f, Of(D)) = g[c] + SumFunctionOnSet(f, Of(D \ {c}))
    <3> HIDE DEF Of, Group
    <3>1. SumFunctionOnSet(f, Group \cup Rest) = SumFunctionOnSet(f, Group) + SumFunctionOnSet(f, Rest)
      <4>1. \A U \in SUBSET S : U \cap Group = {} =>
              SumFunctionOnSet(f, Group \cup U) = SumFunctionOnSet(f, Group) + SumFunctionOnSet(f, U)
        <5>1. Group \in SUBSET S
          BY <2>4
        <5> QED
          BY <5>1, SumUnion
      <4> HIDE DEF Rest
      <4> QED
        BY <2>4, <4>1
    <3> QED
      BY <2>4, <2>4b, <3>1
  <2>6. SumFunctionOnSet(f, Of(D)) # SumFunctionOnSet(g, D)
    BY <1>1
  <2> HIDE DEF Of, Bad, Group
  <2> QED
    BY <2>2, <2>3, <2>5, <2>6
<1> QED
  BY <1>4, <1>5

\* What holds of every summand, times a whole number each, holds of the sums.
THEOREM SumWeighed ==
  ASSUME NEW S, IsFiniteSet(S), NEW f, NEW g, NEW h, NEW a \in Int, NEW b \in Int, NEW c \in Int,
         \A x \in S : f[x] \in Int /\ g[x] \in Int /\ h[x] \in Int,
         \A x \in S : a * f[x] <= b * g[x] + c * h[x]
  PROVE  a * SumFunctionOnSet(f, S) <= b * SumFunctionOnSet(g, S) + c * SumFunctionOnSet(h, S)
<1> DEFINE F(T) == SumFunctionOnSet(f, T)
           G(T) == SumFunctionOnSet(g, T)
           H(T) == SumFunctionOnSet(h, T)
           Bad == {T \in SUBSET S : ~ (a * F(T) <= b * G(T) + c * H(T))}
<1> SUFFICES ASSUME Bad # {} PROVE FALSE
  OBVIOUS
<1>1. PICK T \in Bad : \A V \in Bad : V \subseteq T => V = T
  <2>1. Bad \in SUBSET SUBSET S
    OBVIOUS
  <2> HIDE DEF Bad
  <2> QED
    BY <2>1, Smallest
<1>2. \A V \in SUBSET S : F(V) \in Int /\ G(V) \in Int /\ H(V) \in Int
  BY SumType
<1>3. CASE T = {}
  <2>1. F(T) = 0 /\ G(T) = 0 /\ H(T) = 0
    BY <1>3, SumEmpty
  <2>2. ~ (a * F(T) <= b * G(T) + c * H(T))
    BY <1>1
  <2> HIDE DEF F, G, H
  <2> QED
    BY <2>1, <2>2
<1>4. ASSUME NEW x \in T PROVE FALSE
  <2>1. T \ {x} \notin Bad /\ T \ {x} \in SUBSET S /\ T \in SUBSET S /\ x \in S
    BY <1>1, <1>4
  <2>2. a * F(T \ {x}) <= b * G(T \ {x}) + c * H(T \ {x})
    BY <2>1
  <2>3. F(T) = f[x] + F(T \ {x}) /\ G(T) = g[x] + G(T \ {x}) /\ H(T) = h[x] + H(T \ {x})
    BY <1>4, <2>1, SumRemove
  <2>4. /\ F(T \ {x}) \in Int /\ G(T \ {x}) \in Int /\ H(T \ {x}) \in Int
        /\ f[x] \in Int /\ g[x] \in Int /\ h[x] \in Int /\ a * f[x] <= b * g[x] + c * h[x]
    BY <1>2, <2>1
  <2>5. ~ (a * F(T) <= b * G(T) + c * H(T))
    BY <1>1
  <2>6. \A m, u, v \in Int : m * (u + v) = m * u + m * v /\ m * u \in Int /\ m * v \in Int
    OBVIOUS
  <2> HIDE DEF F, G, H, Bad
  <2>7. /\ a * F(T) = a * f[x] + a * F(T \ {x}) /\ a * f[x] \in Int /\ a * F(T \ {x}) \in Int
        /\ b * G(T) = b * g[x] + b * G(T \ {x}) /\ b * g[x] \in Int /\ b * G(T \ {x}) \in Int
        /\ c * H(T) = c * h[x] + c * H(T \ {x}) /\ c * h[x] \in Int /\ c * H(T \ {x}) \in Int
    BY <2>3, <2>4, <2>6
  <2> QED
    BY <2>2, <2>4, <2>5, <2>7
<1> QED
  BY <1>3, <1>4

-----------------------------------------------------------------------------
\* One of finitely many sets includes no other of them.
LEMMA LeastOf ==
  ASSUME NEW S, IsFiniteSet(S), S # {}, NEW f \in [S -> SUBSET S]
  PROVE  \E m \in S : \A k \in S : f[k] \subseteq f[m] => f[k] = f[m]
<1> DEFINE Family == {f[k] : k \in S}
<1>1. Family \in SUBSET SUBSET S /\ Family # {}
  OBVIOUS
<1>2. PICK T \in Family : \A small \in Family : small \subseteq T => small = T
  <2> HIDE DEF Family
  <2> QED
    BY <1>1, Smallest
<1> QED
  BY <1>2

\* A finite set of numbers that is not empty has a greatest one.
LEMMA Greatest ==
  ASSUME NEW S, IsFiniteSet(S), S # {}, \A x \in S : x \in Int
  PROVE  \E m \in S : \A n \in S : n <= m
<1> DEFINE From(m) == {n \in S : m <= n}
           f == [m \in S |-> From(m)]
<1>1. f \in [S -> SUBSET S]
  OBVIOUS
<1>2. PICK m \in S : \A k \in S : f[k] \subseteq f[m] => f[k] = f[m]
  <2> HIDE DEF f, From
  <2> QED
    BY <1>1, LeastOf
<1>3. ASSUME NEW k \in S, ~ (k <= m) PROVE FALSE
  <2>1. m <= k /\ m \in Int /\ k \in Int
    BY <1>3
  <2>2. \A n \in Int : k <= n => m <= n
    BY <2>1
  <2>3. From(k) \subseteq From(m)
    BY <2>2
  <2>4. m \notin From(k)
    BY <1>3
  <2>5. m \in From(m)
    BY <2>1
  <2> HIDE DEF From
  <2> QED
    BY <1>2, <2>3, <2>4, <2>5
<1> QED
  BY <1>3

\* Among finitely many things, one has the greatest number.
LEMMA GreatestValue ==
  ASSUME NEW S, IsFiniteSet(S), S # {}, NEW f, \A x \in S : f[x] \in Int
  PROVE  \E m \in S : \A x \in S : f[x] <= f[m]
<1> DEFINE values == {f[x] : x \in S}
<1>1. IsFiniteSet(values)
  <2> DEFINE g == [x \in S |-> f[x]]
  <2>1. g \in [S -> values] /\ \A v \in values : \E x \in S : g[x] = v
    OBVIOUS
  <2>2. g \in Surjection(S, values)
    BY <2>1 DEF Surjection
  <2> HIDE DEF values, g
  <2> QED
    BY <2>2, FS_Surjection
<1>2. values # {} /\ \A v \in values : v \in Int
  OBVIOUS
<1>3. PICK v \in values : \A w \in values : w <= v
  <2> HIDE DEF values
  <2> QED
    BY <1>1, <1>2, Greatest
<1> QED
  BY <1>3

=============================================================================
