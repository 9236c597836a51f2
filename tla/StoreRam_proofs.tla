-------------------------- MODULE StoreRam_proofs --------------------------
(***************************************************************************)
(* One store server, for any number of handlers, blocks, generations and   *)
(* lengths: its high-water marks, its counter of bytes, and how far it can *)
(* go over its budget.                                                     *)
(*                                                                         *)
(* Total is a fold, which the provers know nothing about.  The first part  *)
(* shows what it computes: that a recursion over the subsets of a finite   *)
(* set has a solution, that the sum does not depend on the order in which  *)
(* the fold takes the elements, and what changes when one summand does.    *)
(* Each of these is an induction on finite sets, written as the search     *)
(* for a smallest set without the property.                                *)
(***************************************************************************)
EXTENDS StoreRam, FiniteSetTheorems, WellFoundedInduction, TLAPS

Pick(s) == CHOOSE x \in s : TRUE

(* g is the recursion on the subsets of S that have at most n elements. *)
Upto(S, n) == {s \in SUBSET S : Cardinality(s) <= n}

Solves(g, S, n, V, base, step) ==
  /\ g \in [Upto(S, n) -> V]
  /\ \A s \in Upto(S, n) :
       g[s] = IF s = {} THEN base ELSE step[<<s, g[s \ {Pick(s)}]>>]

(* Taking an element out of a finite set leaves a smaller one. *)
LEMMA PickSmaller ==
  ASSUME NEW S, IsFiniteSet(S), NEW s \in SUBSET S, s # {}
  PROVE  /\ Pick(s) \in s
         /\ s \ {Pick(s)} \in SUBSET S
         /\ Cardinality(s) \in Nat
         /\ Cardinality(s \ {Pick(s)}) \in Nat
         /\ Cardinality(s \ {Pick(s)}) = Cardinality(s) - 1
  <1>1. IsFiniteSet(s)
    BY FS_Subset
  <1>2. Pick(s) \in s
    BY DEF Pick
  <1>3. IsFiniteSet(s \ {Pick(s)}) /\ Cardinality(s \ {Pick(s)}) = Cardinality(s) - 1
    BY <1>1, <1>2, FS_RemoveElement
  <1>4. Cardinality(s) \in Nat /\ Cardinality(s \ {Pick(s)}) \in Nat
    BY <1>1, <1>3, FS_CardinalityType
  <1> QED BY <1>2, <1>3, <1>4

Recurses(g, S, base, step) ==
  /\ g[{}] = base
  /\ \A s \in SUBSET S : s # {} => g[s] = step[<<s, g[s \ {Pick(s)}]>>]

(* A recursion that takes one element out of a finite set at a time has a
   solution. *)
LEMMA Recursion ==
  ASSUME NEW S, IsFiniteSet(S), NEW V, NEW base \in V,
         NEW step \in [(SUBSET S) \X V -> V]
  PROVE  \E g \in [SUBSET S -> V] : Recurses(g, S, base, step)
  <1> DEFINE Bad == {n \in Nat : ~ \E g : Solves(g, S, n, V, base, step)}
  <1>0. \A s \in SUBSET S : IsFiniteSet(s) /\ Cardinality(s) \in Nat
    BY FS_Subset, FS_CardinalityType
  <1>1. Bad = {}
    <2> SUFFICES ASSUME Bad # {} PROVE FALSE
      OBVIOUS
    <2>1. PICK n \in Bad : \A m \in Bad : ~(<<m, n>> \in OpToRel(<, Nat))
      BY Zenon, WFMin, NatLessThanWellFounded
    <2>2. \A m \in Nat : m < n => m \notin Bad
      BY Zenon, <2>1 DEF OpToRel
    <2>3. CASE n = 0
      <3>1. \A s \in Upto(S, 0) : s = {}
        BY <1>0, FS_EmptySet DEF Upto
      <3>2. Solves([s \in Upto(S, 0) |-> base], S, 0, V, base, step)
        BY <3>1 DEF Solves
      <3> QED BY Zenon, <2>1, <2>3, <3>2
    <2>4. CASE n # 0
      <3>0. n \in Nat
        OBVIOUS
      <3>1. n - 1 \in Nat /\ n \in Nat
        BY <2>4, <3>0
      <3>2. PICK g : Solves(g, S, n - 1, V, base, step)
        BY <2>2, <3>1
      <3> DEFINE h == [s \in Upto(S, n) |->
                         IF s = {} THEN base ELSE step[<<s, g[s \ {Pick(s)}]>>]]
      <3>3. \A s \in Upto(S, n) : s # {} => s \ {Pick(s)} \in Upto(S, n - 1)
        BY <3>1, PickSmaller DEF Upto
      <3>4. \A s \in Upto(S, n - 1) : s \in Upto(S, n) /\ s \in SUBSET S
        BY <1>0, <3>1 DEF Upto
      <3>5. \A s \in Upto(S, n - 1) : h[s] = g[s]
        BY <3>2, <3>4 DEF Solves
      <3>6. h \in [Upto(S, n) -> V]
        <4> SUFFICES ASSUME NEW s \in Upto(S, n)
                     PROVE  (IF s = {} THEN base ELSE step[<<s, g[s \ {Pick(s)}]>>]) \in V
          OBVIOUS
        <4>1. s # {} => g[s \ {Pick(s)}] \in V
          BY <3>2, <3>3 DEF Solves
        <4>2. s \in SUBSET S
          BY DEF Upto
        <4> QED BY Zenon, <4>1, <4>2
      <3>7. \A s \in Upto(S, n) :
              h[s] = IF s = {} THEN base ELSE step[<<s, h[s \ {Pick(s)}]>>]
        BY Zenon, <3>3, <3>5
      <3> HIDE DEF h
      <3>8. Solves(h, S, n, V, base, step)
        BY Zenon, <3>6, <3>7 DEF Solves
      <3> QED BY Zenon, <2>1, <3>8
    <2> QED BY <2>3, <2>4
  <1>2. Cardinality(S) \in Nat
    BY FS_CardinalityType
  <1>3. PICK g : Solves(g, S, Cardinality(S), V, base, step)
    BY <1>1, <1>2
  <1>4. Upto(S, Cardinality(S)) = SUBSET S
    BY FS_Subset DEF Upto
  <1> QED BY Zenon, <1>3, <1>4 DEF Solves, Recurses

-----------------------------------------------------------------------------
(* The sums of f over the subsets of its domain, as Total computes them. *)
Sums(f) ==
  CHOOSE g : g = [s \in SUBSET (DOMAIN f) |->
                    IF s = {} THEN 0 ELSE f[Pick(s)] + g[s \ {Pick(s)}]]

(* Total is the sum over the whole domain. *)
LEMMA TotalIsSum == ASSUME NEW f PROVE Total(f) = Sums(f)[DOMAIN f]
  BY DEF Total, FoldFunction, FoldFunctionOnSet, MapThenFoldSet, Sums, Pick

(* The recursion that Total evaluates. *)
LEMMA SumsDef ==
  ASSUME NEW S, IsFiniteSet(S), NEW f \in [S -> Int]
  PROVE  /\ Sums(f)[{}] = 0
         /\ \A s \in SUBSET S :
              s # {} => Sums(f)[s] = f[Pick(s)] + Sums(f)[s \ {Pick(s)}]
  <1> DEFINE step == [p \in (SUBSET S) \X Int |->
                        IF p[1] = {} THEN 0 ELSE f[Pick(p[1])] + p[2]]
             Eqn(g) == g = [s \in SUBSET S |->
                              IF s = {} THEN 0 ELSE f[Pick(s)] + g[s \ {Pick(s)}]]
  <1>1. \A s \in SUBSET S : s # {} => Pick(s) \in S
    BY DEF Pick
  <1>2. step \in [(SUBSET S) \X Int -> Int]
    <2> SUFFICES ASSUME NEW p \in (SUBSET S) \X Int
                 PROVE  (IF p[1] = {} THEN 0 ELSE f[Pick(p[1])] + p[2]) \in Int
      OBVIOUS
    <2>1. p[1] \in SUBSET S /\ p[2] \in Int
      OBVIOUS
    <2> QED BY <1>1, <2>1
  <1>3. PICK g \in [SUBSET S -> Int] : Recurses(g, S, 0, step)
    <2> HIDE DEF step
    <2>1. 0 \in Int
      OBVIOUS
    <2> QED BY Zenon, <1>2, <2>1, Recursion
  <1>4. \A s \in SUBSET S : s # {} => g[s] = f[Pick(s)] + g[s \ {Pick(s)}]
    <2> SUFFICES ASSUME NEW s \in SUBSET S, s # {}
                 PROVE  step[<<s, g[s \ {Pick(s)}]>>] = f[Pick(s)] + g[s \ {Pick(s)}]
      BY Zenon, <1>3 DEF Recurses
    <2>1. s \ {Pick(s)} \in SUBSET S
      OBVIOUS
    <2>2. <<s, g[s \ {Pick(s)}]>> \in (SUBSET S) \X Int
      BY <2>1
    <2> QED BY Zenon, <2>2
  <1>5. Eqn(g)
    <2> HIDE DEF step
    <2> QED BY Zenon, <1>3, <1>4 DEF Recurses
  <1>6. Eqn(CHOOSE h : Eqn(h))
    <2> HIDE DEF Eqn
    <2> QED BY <1>5
  <1>7. DOMAIN f = S
    OBVIOUS
  <1>8. Sums(f) = CHOOSE h : Eqn(h)
    BY <1>7 DEF Sums
  <1>9. Eqn(Sums(f))
    BY Zenon, <1>6, <1>8
  <1>10. {} \in SUBSET S
    OBVIOUS
  <1> HIDE DEF step
  <1> QED BY Zenon, <1>9, <1>10

(* A property of finite sets holds of all subsets of S when it holds of those
   whose proper subsets have it: what is left out is the set B of subsets
   without it. *)
LEMMA Smallest ==
  ASSUME NEW S, IsFiniteSet(S), NEW B \in SUBSET (SUBSET S), B # {}
  PROVE  \E T \in B : \A U \in SUBSET T : U # T => U \notin B
  <1>1. IsWellFoundedOn(StrictSubsetOrdering(S), FiniteSubsetsOf(S))
    BY FS_StrictSubsetOrderingWellFounded
  <1>2. FiniteSubsetsOf(S) = SUBSET S
    BY FS_FiniteSubsetsOfFinite
  <1>3. PICK T \in B : \A U \in B : ~(<<U, T>> \in StrictSubsetOrdering(S))
    <2> HIDE DEF StrictSubsetOrdering, FiniteSubsetsOf
    <2> QED BY <1>1, <1>2, WFMin
  <1>4. ASSUME NEW U \in SUBSET T, U # T, U \in B PROVE FALSE
    <2>1. U \in SUBSET S /\ T \in SUBSET S
      OBVIOUS
    <2>2. <<U, T>> \in StrictSubsetOrdering(S)
      BY <1>4, <2>1 DEF StrictSubsetOrdering
    <2> QED BY <1>3, <1>4, <2>2
  <1> QED BY <1>4

(* Sums are integers. *)
LEMMA SumsType ==
  ASSUME NEW S, IsFiniteSet(S), NEW f \in [S -> Int]
  PROVE  \A s \in SUBSET S : Sums(f)[s] \in Int
  <1> DEFINE B == {s \in SUBSET S : Sums(f)[s] \notin Int}
  <1> SUFFICES ASSUME B # {} PROVE FALSE
    OBVIOUS
  <1>1. PICK T \in B : \A U \in SUBSET T : U # T => U \notin B
    <2>1. B \in SUBSET (SUBSET S)
      OBVIOUS
    <2> HIDE DEF B
    <2> QED BY <2>1, Smallest
  <1>2. T \in SUBSET S /\ Sums(f)[T] \notin Int
    BY <1>1
  <1> HIDE DEF B
  <1>3. CASE T = {}
    <2>1. Sums(f)[{}] = 0
      BY SumsDef
    <2> QED BY <1>2, <1>3, <2>1
  <1>4. CASE T # {}
    <2>1. Pick(T) \in T /\ T \ {Pick(T)} \in SUBSET T /\ T \ {Pick(T)} # T
      BY <1>4 DEF Pick
    <2>2. Sums(f)[T \ {Pick(T)}] \in Int
      BY <1>1, <1>2, <2>1 DEF B
    <2>3. f[Pick(T)] \in Int
      BY <1>2, <2>1
    <2>4. Sums(f)[T] = f[Pick(T)] + Sums(f)[T \ {Pick(T)}]
      BY <1>2, <1>4, SumsDef
    <2> QED BY <1>2, <2>2, <2>3, <2>4
  <1> QED BY <1>3, <1>4

(* The order in which Total takes the elements does not matter. *)
LEMMA SumsSplit ==
  ASSUME NEW S, IsFiniteSet(S), NEW f \in [S -> Int]
  PROVE  \A s \in SUBSET S : \A x \in s : Sums(f)[s] = f[x] + Sums(f)[s \ {x}]
  <1> DEFINE Splits(s) == \A x \in s : Sums(f)[s] = f[x] + Sums(f)[s \ {x}]
             B == {s \in SUBSET S : ~Splits(s)}
  <1> SUFFICES ASSUME B # {} PROVE FALSE
    BY Zenon
  <1>1. PICK T \in B : \A U \in SUBSET T : U # T => U \notin B
    <2>1. B \in SUBSET (SUBSET S)
      OBVIOUS
    <2> HIDE DEF B
    <2> QED BY <2>1, Smallest
  <1>2. T \in SUBSET S /\ \A U \in SUBSET T : U # T => Splits(U)
    <2> HIDE DEF Splits
    <2> QED BY <1>1
  <1>3. PICK x \in T : Sums(f)[T] # f[x] + Sums(f)[T \ {x}]
    BY Zenon, <1>1
  <1> DEFINE y == Pick(T)
  <1>4. y \in T /\ Sums(f)[T] = f[y] + Sums(f)[T \ {y}]
    <2>1. Pick(T) \in T
      BY <1>3 DEF Pick
    <2> HIDE DEF Splits, B
    <2> QED BY <1>2, <2>1, SumsDef
  <1>5. x # y
    <2> HIDE DEF Splits, B, y
    <2> QED BY Zenon, <1>3, <1>4
  <1> HIDE DEF y, B
  <1>6. T \ {y} \in SUBSET T /\ T \ {y} # T /\ T \ {x} \in SUBSET T /\ T \ {x} # T
    BY <1>3, <1>4
  <1>7. Sums(f)[T \ {y}] = f[x] + Sums(f)[(T \ {y}) \ {x}]
    BY <1>2, <1>3, <1>5, <1>6
  <1>8. Sums(f)[T \ {x}] = f[y] + Sums(f)[(T \ {x}) \ {y}]
    BY <1>2, <1>4, <1>5, <1>6
  <1>9. (T \ {x}) \ {y} = (T \ {y}) \ {x}
    OBVIOUS
  <1>10. f[x] \in Int /\ f[y] \in Int /\ Sums(f)[(T \ {y}) \ {x}] \in Int
    <2>1. (T \ {y}) \ {x} \in SUBSET S
      BY <1>2
    <2> QED BY <1>2, <1>3, <1>4, <2>1, SumsType
  <1> HIDE DEF Splits
  <1>11. f[x] + Sums(f)[T \ {x}] = f[x] + (f[y] + Sums(f)[(T \ {y}) \ {x}])
    BY <1>8, <1>9
  <1>12. Sums(f)[T] = f[y] + (f[x] + Sums(f)[(T \ {y}) \ {x}])
    BY <1>4, <1>7
  <1> QED BY <1>3, <1>10, <1>11, <1>12

(* Larger summands have a larger sum. *)
LEMMA SumsMonotone ==
  ASSUME NEW S, IsFiniteSet(S), NEW f \in [S -> Int], NEW g \in [S -> Int],
         NEW R \in SUBSET S, \A x \in R : f[x] <= g[x]
  PROVE  Sums(f)[R] <= Sums(g)[R]
  <1> DEFINE B == {s \in SUBSET R : ~(Sums(f)[s] <= Sums(g)[s])}
  <1> SUFFICES ASSUME B # {} PROVE FALSE
    OBVIOUS
  <1>1. PICK T \in B : \A U \in SUBSET T : U # T => U \notin B
    <2>1. B \in SUBSET (SUBSET S)
      OBVIOUS
    <2> HIDE DEF B
    <2> QED BY <2>1, Smallest
  <1>2. T \in SUBSET S /\ T \in SUBSET R /\ ~(Sums(f)[T] <= Sums(g)[T])
    BY <1>1
  <1> HIDE DEF B
  <1>3. CASE T = {}
    <2>1. Sums(f)[{}] = 0 /\ Sums(g)[{}] = 0
      BY SumsDef
    <2> QED BY <1>2, <1>3, <2>1
  <1>4. CASE T # {}
    <2> DEFINE y == Pick(T)
    <2>1. y \in T /\ T \ {y} \in SUBSET T /\ T \ {y} # T
      BY <1>4 DEF Pick
    <2>2. Sums(f)[T] = f[y] + Sums(f)[T \ {y}] /\ Sums(g)[T] = g[y] + Sums(g)[T \ {y}]
      BY <1>2, <1>4, SumsDef
    <2> HIDE DEF y
    <2>3. Sums(f)[T \ {y}] <= Sums(g)[T \ {y}]
      BY <1>1, <1>2, <2>1 DEF B
    <2>4. f[y] <= g[y] /\ f[y] \in Int /\ g[y] \in Int
      BY <1>2, <2>1
    <2>5. Sums(f)[T \ {y}] \in Int /\ Sums(g)[T \ {y}] \in Int
      <3>1. T \ {y} \in SUBSET S
        BY <1>2
      <3> QED BY <3>1, SumsType
    <2> QED BY <1>2, <2>2, <2>3, <2>4, <2>5
  <1> QED BY <1>3, <1>4

(* The sum of equal summands. *)
LEMMA SumsConstant ==
  ASSUME NEW S, IsFiniteSet(S), NEW c \in Int
  PROVE  \A s \in SUBSET S : Sums([x \in S |-> c])[s] = Cardinality(s) * c
  <1> DEFINE f == [x \in S |-> c]
             B == {s \in SUBSET S : Sums(f)[s] # Cardinality(s) * c}
  <1> SUFFICES ASSUME B # {} PROVE FALSE
    OBVIOUS
  <1>0. f \in [S -> Int]
    OBVIOUS
  <1>1. PICK T \in B : \A U \in SUBSET T : U # T => U \notin B
    <2>1. B \in SUBSET (SUBSET S)
      OBVIOUS
    <2> HIDE DEF B
    <2> QED BY <2>1, Smallest
  <1>2. T \in SUBSET S /\ Sums(f)[T] # Cardinality(T) * c
    BY <1>1
  <1> HIDE DEF B
  <1>3. CASE T = {}
    <2>1. Sums(f)[T] = 0
      <3> HIDE DEF f
      <3> QED BY <1>0, <1>3, SumsDef
    <2> QED BY <1>2, <1>3, <2>1, FS_EmptySet
  <1>4. CASE T # {}
    <2> DEFINE y == Pick(T)
    <2>1. /\ y \in T /\ T \ {y} \in SUBSET T /\ T \ {y} # T
          /\ Cardinality(T) \in Nat /\ Cardinality(T \ {y}) = Cardinality(T) - 1
      BY <1>2, <1>4, PickSmaller
    <2>2. Sums(f)[T] = f[y] + Sums(f)[T \ {y}]
      <3> HIDE DEF f
      <3> QED BY Zenon, <1>0, <1>2, <1>4, SumsDef
    <2>3. f[y] = c
      BY <1>2, <2>1
    <2> HIDE DEF y, f
    <2>4. Sums(f)[T \ {y}] = (Cardinality(T) - 1) * c
      BY <1>1, <1>2, <2>1 DEF B
    <2>5. (Cardinality(T) - 1) * c + c = Cardinality(T) * c
      BY <2>1
    <2>6. (Cardinality(T) - 1) * c \in Int
      BY <2>1
    <2> QED BY <1>2, <2>2, <2>3, <2>4, <2>5, <2>6
  <1> QED BY <1>3, <1>4

(* The sum of sums. *)
LEMMA SumsAdd ==
  ASSUME NEW S, IsFiniteSet(S), NEW f \in [S -> Int], NEW g \in [S -> Int]
  PROVE  \A s \in SUBSET S :
           Sums([x \in S |-> f[x] + g[x]])[s] = Sums(f)[s] + Sums(g)[s]
  <1> DEFINE h == [x \in S |-> f[x] + g[x]]
             B == {s \in SUBSET S : Sums(h)[s] # Sums(f)[s] + Sums(g)[s]}
  <1> SUFFICES ASSUME B # {} PROVE FALSE
    OBVIOUS
  <1>0. h \in [S -> Int] /\ \A x \in S : h[x] = f[x] + g[x]
    OBVIOUS
  <1> HIDE DEF h
  <1>1. PICK T \in B : \A U \in SUBSET T : U # T => U \notin B
    <2>1. B \in SUBSET (SUBSET S)
      OBVIOUS
    <2> HIDE DEF B
    <2> QED BY <2>1, Smallest
  <1>2. T \in SUBSET S /\ Sums(h)[T] # Sums(f)[T] + Sums(g)[T]
    BY <1>1
  <1> HIDE DEF B
  <1>3. CASE T = {}
    <2>1. Sums(f)[{}] = 0 /\ Sums(g)[{}] = 0 /\ Sums(h)[{}] = 0
      BY <1>0, SumsDef
    <2> QED BY <1>2, <1>3, <2>1
  <1>4. CASE T # {}
    <2> DEFINE y == Pick(T)
    <2>1. y \in T /\ T \ {y} \in SUBSET T /\ T \ {y} # T
      BY <1>4 DEF Pick
    <2>2. /\ Sums(f)[T] = f[y] + Sums(f)[T \ {y}] /\ Sums(g)[T] = g[y] + Sums(g)[T \ {y}]
          /\ Sums(h)[T] = h[y] + Sums(h)[T \ {y}]
      <3>1. Sums(f)[T] = f[y] + Sums(f)[T \ {y}] /\ Sums(g)[T] = g[y] + Sums(g)[T \ {y}]
        BY ZenonT(30), <1>2, <1>4, SumsDef
      <3>2. Sums(h)[T] = h[y] + Sums(h)[T \ {y}]
        BY <1>0, <1>2, <1>4, SumsDef
      <3> QED BY <3>1, <3>2
    <2> HIDE DEF y
    <2>3. Sums(h)[T \ {y}] = Sums(f)[T \ {y}] + Sums(g)[T \ {y}]
      BY <1>1, <1>2, <2>1 DEF B
    <2>4. h[y] = f[y] + g[y] /\ f[y] \in Int /\ g[y] \in Int
      BY <1>0, <1>2, <2>1
    <2>5. Sums(f)[T \ {y}] \in Int /\ Sums(g)[T \ {y}] \in Int
      <3>1. T \ {y} \in SUBSET S
        BY <1>2
      <3> QED BY <3>1, SumsType
    <2> QED BY <1>2, <2>2, <2>3, <2>4, <2>5
  <1> QED BY <1>3, <1>4

(* A total of integers is an integer, and at most the total of larger ones. *)
LEMMA TotalFacts ==
  ASSUME NEW S, IsFiniteSet(S), NEW f \in [S -> Int]
  PROVE  /\ Total(f) \in Int
         /\ \A g \in [S -> Int] : (\A x \in S : f[x] <= g[x]) => Total(f) <= Total(g)
  <1>0. S \in SUBSET S /\ DOMAIN f = S
    OBVIOUS
  <1>1. Total(f) \in Int
    BY <1>0, TotalIsSum, SumsType
  <1>2. ASSUME NEW g \in [S -> Int], \A x \in S : f[x] <= g[x]
        PROVE  Total(f) <= Total(g)
    <2>1. DOMAIN g = S
      OBVIOUS
    <2>2. Sums(f)[S] <= Sums(g)[S]
      BY <1>0, <1>2, SumsMonotone
    <2> QED BY <1>0, <2>1, <2>2, TotalIsSum
  <1> QED BY <1>1, <1>2

(* The total of equal numbers. *)
LEMMA TotalConstant ==
  ASSUME NEW S, IsFiniteSet(S), NEW c \in Int
  PROVE  Total([x \in S |-> c]) = Cardinality(S) * c
  <1> DEFINE h == [x \in S |-> c]
  <1>1. DOMAIN h = S /\ S \in SUBSET S
    OBVIOUS
  <1>2. Sums(h)[S] = Cardinality(S) * c
    BY Zenon, <1>1, SumsConstant
  <1> HIDE DEF h
  <1>3. Total(h) = Cardinality(S) * c
    BY <1>1, <1>2, TotalIsSum
  <1> QED BY <1>3 DEF h

(* A total has at most, or at least, as many times the bound of its summands
   as it has summands. *)
LEMMA TotalBound ==
  ASSUME NEW S, IsFiniteSet(S), NEW f \in [S -> Int], NEW c \in Int
  PROVE  /\ (\A x \in S : f[x] <= c) => Total(f) <= Cardinality(S) * c
         /\ (\A x \in S : c <= f[x]) => Cardinality(S) * c <= Total(f)
  <1> DEFINE h == [x \in S |-> c]
  <1>1. h \in [S -> Int] /\ \A x \in S : h[x] = c
    OBVIOUS
  <1>2. Total(h) = Cardinality(S) * c
    BY Zenon, TotalConstant
  <1> HIDE DEF h
  <1>3. (\A x \in S : f[x] <= c) => Total(f) <= Total(h)
    BY <1>1, TotalFacts
  <1>4. (\A x \in S : c <= f[x]) => Total(h) <= Total(f)
    BY <1>1, TotalFacts
  <1> QED BY <1>2, <1>3, <1>4

(* The total of zeros. *)
LEMMA TotalZero ==
  ASSUME NEW S, IsFiniteSet(S)
  PROVE  Total([x \in S |-> 0]) = 0
  <1> DEFINE zero == 0
  <1>1. zero \in Int /\ Cardinality(S) \in Nat
    BY FS_CardinalityType
  <1>2. Cardinality(S) * zero = 0
    BY <1>1
  <1> HIDE DEF zero
  <1>3. Total([x \in S |-> zero]) = Cardinality(S) * zero
    BY Zenon, <1>1, TotalConstant
  <1> QED BY <1>2, <1>3 DEF zero

(* The total of sums. *)
LEMMA TotalAdd ==
  ASSUME NEW S, IsFiniteSet(S), NEW f \in [S -> Int], NEW g \in [S -> Int]
  PROVE  Total([x \in S |-> f[x] + g[x]]) = Total(f) + Total(g)
  <1> DEFINE h == [x \in S |-> f[x] + g[x]]
  <1>1. DOMAIN h = S /\ DOMAIN f = S /\ DOMAIN g = S /\ S \in SUBSET S
    OBVIOUS
  <1>2. Sums(h)[S] = Sums(f)[S] + Sums(g)[S]
    BY <1>1, SumsAdd
  <1> HIDE DEF h
  <1>3. Total(h) = Total(f) + Total(g)
    BY <1>1, <1>2, TotalIsSum
  <1> QED BY <1>3 DEF h

(* What a total gains when two functions differ at one element. *)
LEMMA TotalChange ==
  ASSUME NEW S, IsFiniteSet(S), NEW f \in [S -> Int], NEW g \in [S -> Int],
         NEW x \in S, \A y \in S : y # x => g[y] = f[y]
  PROVE  Total(g) = Total(f) + (g[x] - f[x])
  <1>0. DOMAIN f = S /\ DOMAIN g = S /\ S \in SUBSET S /\ S \ {x} \in SUBSET S
    OBVIOUS
  <1>1. Total(f) = f[x] + Sums(f)[S \ {x}] /\ Total(g) = g[x] + Sums(g)[S \ {x}]
    <2>1. Total(f) = Sums(f)[S] /\ Total(g) = Sums(g)[S]
      BY <1>0, TotalIsSum
    <2>2. Sums(f)[S] = f[x] + Sums(f)[S \ {x}] /\ Sums(g)[S] = g[x] + Sums(g)[S \ {x}]
      BY <1>0, SumsSplit
    <2> QED BY <2>1, <2>2
  <1>2. \A y \in S \ {x} : f[y] <= g[y] /\ g[y] <= f[y]
    <2> SUFFICES ASSUME NEW y \in S \ {x} PROVE f[y] <= g[y] /\ g[y] <= f[y]
      OBVIOUS
    <2>1. f[y] \in Int /\ g[y] = f[y]
      OBVIOUS
    <2> QED BY <2>1
  <1>3. Sums(f)[S \ {x}] <= Sums(g)[S \ {x}] /\ Sums(g)[S \ {x}] <= Sums(f)[S \ {x}]
    BY <1>0, <1>2, SumsMonotone
  <1>4. Sums(f)[S \ {x}] \in Int /\ Sums(g)[S \ {x}] \in Int
    BY <1>0, SumsType
  <1>5. f[x] \in Int /\ g[x] \in Int
    OBVIOUS
  <1> QED BY <1>1, <1>3, <1>4, <1>5

(* The remainder modulo the counter's width is the only one there is. *)
LEMMA ModUnique ==
  ASSUME NEW W \in Nat, W > 0, NEW x \in Int, NEW q \in Int, NEW r \in 0 .. W - 1,
         x = q * W + r
  PROVE  x % W = r
  OBVIOUS

(* A remainder fits the counter, and a number that fits is its own remainder. *)
LEMMA ModRange ==
  ASSUME NEW W \in Nat, W > 0, NEW x \in Int
  PROVE  x % W \in 0 .. W - 1 /\ (x \in 0 .. W - 1 => x % W = x)
  OBVIOUS

(* Wrapping before an addition changes nothing once the sum is wrapped. *)
LEMMA ModSum ==
  ASSUME NEW W \in Nat, W > 0, NEW x \in Int, NEW y \in Int
  PROVE  ((x % W) + y) % W = (x + y) % W
  <1>1. PICK q \in Int : x = q * W + (x % W) /\ x % W \in 0 .. W - 1
    OBVIOUS
  <1>2. PICK p \in Int : (x % W) + y = p * W + (((x % W) + y) % W) /\ ((x % W) + y) % W \in 0 .. W - 1
    OBVIOUS
  <1>3. x + y = (p + q) * W + (((x % W) + y) % W)
    BY <1>1, <1>2
  <1> DEFINE r == ((x % W) + y) % W
             z == x + y
             k == p + q
  <1>4. z \in Int /\ k \in Int /\ r \in 0 .. W - 1 /\ z = k * W + r
    BY <1>2, <1>3
  <1> HIDE DEF r, z, k
  <1>5. z % W = r
    BY <1>4, ModUnique
  <1> QED BY <1>5 DEF r, z
-----------------------------------------------------------------------------
(* What MarkCovers rests on besides itself: types, and that a handler past its
   first step has a call.  ram_used is left out. *)
MarkTypes ==
  /\ blocks \in [Keys -> Lens \cup {0}]
  /\ high_water \in [Blocks -> Generations \cup {NoMark}]
  /\ pc \in [Tasks -> Steps]
  /\ call \in [Tasks -> Call \cup {<<>>}]
  /\ \A t \in Tasks : pc[t] # "idle" => call[t] \in Call

MarkInv == MarkTypes /\ MarkCovers

(* A key is a logical block and a generation. *)
LEMMA KeyParts ==
  ASSUME NEW k \in Keys
  PROVE  k[1] \in Blocks /\ k[2] \in Generations /\ k[2] \in Int
  <1>1. k[1] \in Blocks /\ k[2] \in Generations
    BY DEF Keys
  <1>2. Generations \subseteq Nat
    BY StoreAssumption
  <1>3. k[2] \in Nat
    BY <1>1, <1>2, Zenon
  <1>4. k[2] \in Int
    BY <1>3
  <1> QED BY <1>1, <1>4

(* A handler that has a call has a key and lengths. *)
LEMMA CallParts ==
  ASSUME NEW c \in Call
  PROVE  c.key \in Keys /\ c.len \in Lens \cup {0} /\ c.prev \in Lens \cup {0}
  BY DEF Call

(* Handlers arrive, and return, without touching a block or a mark. *)
LEMMA StepTypes == ASSUME MarkTypes, Next PROVE MarkTypes'
  <1>1. PICK t \in Tasks :
    \/ write_block(t) \/ TestMark(t) \/ TestBudget(t) \/ InsertBlock(t)
    \/ AddLen(t) \/ SubPrev(t) \/ AdvanceMark(t)
    \/ delete_block(t) \/ RemoveBlock(t) \/ GiveBack(t) \/ RemoveMark(t)
    \/ replicate(t) \/ FetchBlock(t) \/ TakeLen(t) \/ PutBlock(t)
    BY DEF Next
  <1>2. CASE write_block(t) \/ delete_block(t) \/ replicate(t)
    <2>1. PICK s \in Steps, k \in Keys, n \in Lens \cup {0} :
            /\ pc' = [pc EXCEPT ![t] = s]
            /\ call' = [call EXCEPT ![t] = [key |-> k, len |-> n, prev |-> 0]]
            /\ UNCHANGED <<blocks, high_water>>
      BY <1>2 DEF write_block, delete_block, replicate, Arrive, Goto, Steps
    <2>2. [key |-> k, len |-> n, prev |-> 0] \in Call
      BY DEF Call
    <2> QED BY <2>1, <2>2 DEF MarkTypes
  <1>3. CASE TestMark(t) \/ TestBudget(t) \/ FetchBlock(t)
    BY <1>3 DEF MarkTypes, TestMark, TestBudget, FetchBlock, Return, Goto, Steps
  <1>4. CASE AddLen(t) \/ SubPrev(t) \/ GiveBack(t) \/ TakeLen(t)
    BY <1>4 DEF MarkTypes, AddLen, SubPrev, GiveBack, TakeLen, Goto, Steps
  <1>5. CASE InsertBlock(t) \/ RemoveBlock(t)
    <2>1. call[t] \in Call /\ call[t].key \in Keys
      BY <1>5, CallParts DEF MarkTypes, InsertBlock, RemoveBlock
    <2>2. blocks[call[t].key] \in Lens \cup {0}
      BY <2>1 DEF MarkTypes
    <2>3. [call[t] EXCEPT !.prev = blocks[call[t].key]] \in Call
      BY <2>1, <2>2 DEF Call
    <2>4. call' = [call EXCEPT ![t] = [call[t] EXCEPT !.prev = blocks[call[t].key]]]
      BY <1>5 DEF InsertBlock, RemoveBlock
    <2>5. call[t].len \in Lens \cup {0}
      BY <2>1, CallParts
    <2>6. /\ blocks' \in [Keys -> Lens \cup {0}] /\ high_water' = high_water
          /\ pc' \in [Tasks -> Steps] /\ \A u \in Tasks : u # t => pc'[u] = pc[u]
      BY <1>5, <2>5 DEF MarkTypes, InsertBlock, RemoveBlock, Goto, Steps
    <2> QED BY Zenon, <2>3, <2>4, <2>6 DEF MarkTypes
  <1>6. CASE AdvanceMark(t)
    <2>1. call[t].key[1] \in Blocks /\ call[t].key[2] \in Generations
      BY <1>6, CallParts, KeyParts DEF MarkTypes, AdvanceMark
    <2> QED BY <1>6, <2>1 DEF MarkTypes, AdvanceMark, Return, Goto, Steps
  <1>7. CASE RemoveMark(t)
    BY Zenon, <1>7 DEF MarkTypes, RemoveMark, Return, Goto, Steps
  <1>8. CASE PutBlock(t)
    <2>1. call[t].len \in Lens \cup {0}
      BY <1>8, CallParts DEF MarkTypes, PutBlock
    <2> QED BY Zenon, <1>8, <2>1 DEF MarkTypes, PutBlock, Return, Goto, Steps
  <1> QED BY <1>1, <1>2, <1>3, <1>4, <1>5, <1>6, <1>7, <1>8

----------------------------------------------------------------------------
(* A handler that has stored key k and not yet advanced the mark. *)
Storing(t, k) == pc[t] \in {"add", "sub", "advance"} /\ call[t].key = k

(* MarkCovers, key by key. *)
Covered(k) ==
  (Written[k] # 0 /\ k[1] \notin unmarked /\ \A t \in Tasks : ~Storing(t, k))
  => high_water[k[1]] >= k[2]

(* A step that brings no block, takes no mark back and lets no handler past
   its last line without a mark leaves a key covered. *)
LEMMA QuietCovered ==
  ASSUME NEW k \in Keys, Covered(k),
         Written'[k] # 0 => Written[k] # 0,
         unmarked \subseteq unmarked',
         high_water' = high_water,
         \A t \in Tasks : Storing(t, k) => Storing(t, k)'
  PROVE  Covered(k)'
  BY DEF Covered

(* Every step keeps every key covered. *)
LEMMA StepCovers == ASSUME MarkInv, Next PROVE MarkCovers'
  <1> SUFFICES ASSUME NEW k \in Keys PROVE Covered(k)'
    BY DEF MarkCovers, Covered, Storing
  <1>1. MarkTypes /\ Covered(k)
    BY DEF MarkInv, MarkCovers, Covered, Storing
  <1>2. PICK t \in Tasks :
    \/ write_block(t) \/ TestMark(t) \/ TestBudget(t) \/ InsertBlock(t)
    \/ AddLen(t) \/ SubPrev(t) \/ AdvanceMark(t)
    \/ delete_block(t) \/ RemoveBlock(t) \/ GiveBack(t) \/ RemoveMark(t)
    \/ replicate(t) \/ FetchBlock(t) \/ TakeLen(t) \/ PutBlock(t)
    BY DEF Next
  <1>3. CASE \/ write_block(t) \/ delete_block(t) \/ replicate(t)
             \/ TestMark(t) \/ TestBudget(t) \/ FetchBlock(t)
             \/ AddLen(t) \/ SubPrev(t) \/ GiveBack(t) \/ TakeLen(t)
    <2>1. UNCHANGED <<blocks, high_water, copied, unmarked>>
      BY <1>3 DEF write_block, delete_block, replicate, Arrive, TestMark, TestBudget,
         FetchBlock, AddLen, SubPrev, GiveBack, TakeLen, history
    <2>2. Written' = Written
      BY <2>1 DEF Written
    <2>3. \A u \in Tasks : u # t => pc'[u] = pc[u] /\ call'[u] = call[u]
      BY <1>1, <1>3 DEF MarkTypes, write_block, delete_block, replicate, Arrive, TestMark,
         TestBudget, FetchBlock, AddLen, SubPrev, GiveBack, TakeLen, Goto, Return
    <2>4. Storing(t, k) => Storing(t, k)'
      BY <1>1, <1>3 DEF MarkTypes, Storing, write_block, delete_block, replicate, Arrive,
         TestMark, TestBudget, FetchBlock, AddLen, SubPrev, GiveBack, TakeLen, Goto
    <2>5. \A u \in Tasks : Storing(u, k) => Storing(u, k)'
      BY <2>3, <2>4 DEF Storing
    <2> QED BY <1>1, <2>1, <2>2, <2>5, QuietCovered
  <1>4. CASE InsertBlock(t)
    <2>1. UNCHANGED <<high_water, unmarked>> /\ pc[t] = "insert" /\ pc'[t] = "add"
      BY <1>1, <1>4 DEF InsertBlock, MarkTypes, Goto
    <2>2. call[t] \in Call /\ call'[t].key = call[t].key
      BY <1>1, <2>1, <1>4 DEF MarkTypes, InsertBlock, Call
    <2>3. \A u \in Tasks : u # t => pc'[u] = pc[u] /\ call'[u] = call[u]
      BY <1>1, <1>4 DEF MarkTypes, InsertBlock, Goto
    <2>4. CASE k = call[t].key
      BY <2>1, <2>2, <2>4 DEF Covered, Storing
    <2>5. CASE k # call[t].key
      <3>1. Written'[k] = Written[k]
        BY <1>1, <1>4, <2>5 DEF Written, InsertBlock, MarkTypes
      <3>2. \A u \in Tasks : Storing(u, k) => Storing(u, k)'
        BY <2>1, <2>3 DEF Storing
      <3> QED BY <1>1, <2>1, <3>1, <3>2, QuietCovered
    <2> QED BY <2>4, <2>5
  <1>5. CASE RemoveBlock(t) \/ PutBlock(t)
    <2>1. /\ UNCHANGED <<high_water, unmarked>>
          /\ pc[t] \in {"remove", "put"} /\ pc'[t] \in {"unmark", "give_back", "idle"}
      BY <1>1, <1>5 DEF RemoveBlock, PutBlock, MarkTypes, Goto, Return
    <2>2. \A u \in Tasks : u # t => pc'[u] = pc[u] /\ call'[u] = call[u]
      BY <1>1, <1>5 DEF MarkTypes, RemoveBlock, PutBlock, Goto, Return
    <2>3. Written'[k] # 0 => Written[k] # 0
      BY <1>1, <1>5 DEF Written, RemoveBlock, PutBlock, MarkTypes
    <2>4. \A u \in Tasks : Storing(u, k) => Storing(u, k)'
      BY <2>1, <2>2 DEF Storing
    <2> QED BY <1>1, <2>1, <2>3, <2>4, QuietCovered
  <1>6. CASE RemoveMark(t)
    <2>1. /\ UNCHANGED <<blocks, copied>> /\ unmarked' = unmarked \cup {call[t].key[1]}
          /\ high_water' = [high_water EXCEPT ![call[t].key[1]] = NoMark]
          /\ pc[t] = "unmark"
      BY <1>6 DEF RemoveMark
    <2>2. \A u \in Tasks : u # t => pc'[u] = pc[u] /\ call'[u] = call[u]
      BY <1>1, <1>6 DEF MarkTypes, RemoveMark, Goto, Return
    <2>3. \A u \in Tasks : Storing(u, k) => Storing(u, k)'
      BY <2>1, <2>2 DEF Storing
    <2>4. k[1] # call[t].key[1] => high_water'[k[1]] = high_water[k[1]]
      BY <1>1, <2>1, KeyParts DEF MarkTypes
    <2>5. Written' = Written
      BY <2>1 DEF Written
    <2> QED BY <1>1, <2>1, <2>3, <2>4, <2>5 DEF Covered
  <1>7. CASE AdvanceMark(t)
    <2> DEFINE b == call[t].key[1]
               g == call[t].key[2]
    <2>1. b \in Blocks /\ g \in Int
      BY <1>1, <1>7, CallParts, KeyParts DEF MarkTypes, AdvanceMark
    <2>2. /\ UNCHANGED <<blocks, copied, unmarked>>
          /\ high_water' = [high_water EXCEPT ![b] = IF g > @ THEN g ELSE @]
      BY <1>7 DEF AdvanceMark, history
    <2>3. k[1] \in Blocks /\ k[2] \in Int /\ high_water[k[1]] \in Int /\ high_water[b] \in Int
      <3>1. \A c \in Blocks : high_water[c] \in Nat \/ high_water[c] = -1
        BY Zenon, <1>1, StoreAssumption DEF MarkTypes, NoMark
      <3> QED BY <2>1, <3>1, KeyParts
    <2>4. high_water'[k[1]] >= high_water[k[1]] /\ (k[1] = b => high_water'[b] >= g)
      BY <1>1, <2>1, <2>2, <2>3 DEF MarkTypes
    <2>5. high_water'[k[1]] \in Int
      BY <1>1, <2>1, <2>2, <2>3 DEF MarkTypes
    <2>6. CASE k = call[t].key
      BY <2>4, <2>6 DEF Covered
    <2>7. CASE k # call[t].key
      <3>1. \A u \in Tasks : u # t => pc'[u] = pc[u] /\ call'[u] = call[u]
        BY <1>1, <1>7 DEF MarkTypes, AdvanceMark, Goto, Return
      <3>2. ~Storing(t, k)
        BY <2>7 DEF Storing
      <3>3. \A u \in Tasks : Storing(u, k) => Storing(u, k)'
        BY <3>1, <3>2 DEF Storing
      <3>4. Written' = Written
        BY <2>2 DEF Written
      <3> HIDE DEF b, g
      <3> QED BY <1>1, <2>2, <2>3, <2>4, <2>5, <3>3, <3>4 DEF Covered
    <2> QED BY <2>6, <2>7
  <1> QED BY <1>2, <1>3, <1>4, <1>5, <1>6, <1>7

(* In every interleaving of any number of write_block, delete_block and
   replicate handlers, a block whose write_block has ended is covered by its
   mark until a delete takes the mark away. *)
THEOREM MarksCoverBlocks == Spec => []MarkCovers
  <1>1. Init => MarkInv
    BY DEF Init, MarkInv, MarkTypes, MarkCovers, Written, Steps
  <1>2. MarkInv /\ [Next]_vars => MarkInv'
    <2> SUFFICES ASSUME MarkInv, [Next]_vars PROVE MarkInv'
      OBVIOUS
    <2>1. CASE Next
      BY <2>1, StepTypes, StepCovers DEF MarkInv
    <2>2. CASE UNCHANGED vars
      BY <2>2 DEF MarkInv, MarkTypes, MarkCovers, Written, vars, history
    <2> QED BY <2>1, <2>2
  <1>3. MarkInv => MarkCovers
    BY DEF MarkInv
  <1> QED BY <1>1, <1>2, <1>3, PTL DEF Spec
-----------------------------------------------------------------------------
(* Types, and that a handler past its first step has a call. *)
RamTypes == TypeOK /\ \A t \in Tasks : pc[t] # "idle" => call[t] \in Call

(* What every handler still owes the counter. *)
Dues == [t \in Tasks |-> Due(t)]

(* Lengths are numbers. *)
LEMMA LenNat == ASSUME NEW n \in Lens \cup {0} PROVE n \in Nat
  <1>1. Lens \subseteq Nat
    BY StoreAssumption
  <1> QED BY <1>1

(* There are finitely many keys and tasks. *)
LEMMA KeysFinite == IsFiniteSet(Keys) /\ IsFiniteSet(Tasks)
  BY StoreAssumption, FS_Product DEF Keys

(* Every stored length is a number. *)
LEMMA BlockNat ==
  ASSUME RamTypes
  PROVE  blocks \in [Keys -> Int] /\ \A k \in Keys : blocks[k] \in Nat
  <1>1. \A k \in Keys : blocks[k] \in Nat
    BY LenNat DEF RamTypes, TypeOK
  <1> QED BY <1>1 DEF RamTypes, TypeOK

(* The types, step by step. *)
LEMMA StepRamTypes == ASSUME RamTypes, Next PROVE RamTypes'
  <1>0. MarkTypes
    BY DEF RamTypes, TypeOK, MarkTypes
  <1>1. MarkTypes'
    BY <1>0, StepTypes
  <1>2. PICK t \in Tasks :
    \/ write_block(t) \/ TestMark(t) \/ TestBudget(t) \/ InsertBlock(t)
    \/ AddLen(t) \/ SubPrev(t) \/ AdvanceMark(t)
    \/ delete_block(t) \/ RemoveBlock(t) \/ GiveBack(t) \/ RemoveMark(t)
    \/ replicate(t) \/ FetchBlock(t) \/ TakeLen(t) \/ PutBlock(t)
    BY DEF Next
  <1>3. call[t] \in Call => /\ call[t].key \in Keys /\ call[t].key[1] \in Blocks
                            /\ call[t].len \in Nat /\ call[t].prev \in Nat
    BY CallParts, KeyParts, LenNat
  <1>4. ram_used \in Int /\ Width \in Nat /\ Width > 0
    BY StoreAssumption DEF RamTypes, TypeOK
  <1>5. ram_used' \in 0 .. Width - 1
    <2>1. CASE AddLen(t) \/ TakeLen(t)
      <3>1. call[t].len \in Nat
        BY <1>3, <2>1 DEF RamTypes, AddLen, TakeLen
      <3>2. ram_used' = (ram_used + call[t].len) % Width
        BY <2>1 DEF AddLen, TakeLen
      <3>3. ram_used + call[t].len \in Int
        BY <1>4, <3>1
      <3> QED BY <1>4, <3>2, <3>3, ModRange
    <2>2. CASE SubPrev(t) \/ GiveBack(t)
      <3>1. call[t].prev \in Nat
        BY <1>3, <2>2 DEF RamTypes, SubPrev, GiveBack
      <3>2. ram_used' = (ram_used - call[t].prev) % Width
        BY <2>2 DEF SubPrev, GiveBack, LessPrev
      <3>3. ram_used - call[t].prev \in Int
        BY <1>4, <3>1
      <3> QED BY <1>4, <3>2, <3>3, ModRange
    <2>3. CASE ~(AddLen(t) \/ TakeLen(t) \/ SubPrev(t) \/ GiveBack(t))
      <3>1. ram_used' = ram_used
        BY <1>2, <2>3 DEF write_block, TestMark, TestBudget, InsertBlock, AdvanceMark,
             delete_block, RemoveBlock, RemoveMark, replicate, FetchBlock, PutBlock, Arrive
      <3> QED BY <3>1 DEF RamTypes, TypeOK
    <2> QED BY <2>1, <2>2, <2>3
  <1>6. leaked' \in Nat /\ copied' \subseteq Keys
    <2>1. CASE PutBlock(t)
      <3>1. call[t].key \in Keys
        BY <1>3, <2>1 DEF RamTypes, PutBlock
      <3>2. blocks[call[t].key] \in Nat
        BY <3>1, BlockNat
      <3> QED BY <2>1, <3>1, <3>2 DEF RamTypes, TypeOK, PutBlock
    <2>2. CASE InsertBlock(t) \/ RemoveBlock(t)
      BY <2>2 DEF RamTypes, TypeOK, InsertBlock, RemoveBlock
    <2>3. CASE ~(PutBlock(t) \/ InsertBlock(t) \/ RemoveBlock(t))
      <3>1. leaked' = leaked /\ copied' = copied
        BY <1>2, <2>3 DEF write_block, TestMark, TestBudget, AddLen, SubPrev, AdvanceMark,
             delete_block, GiveBack, RemoveMark, replicate, FetchBlock, TakeLen, Arrive, history
      <3> QED BY <3>1 DEF RamTypes, TypeOK
    <2> QED BY <2>1, <2>2, <2>3
  <1>7. unmarked' \subseteq Blocks
    <2>1. CASE RemoveMark(t)
      BY <1>3, <2>1 DEF RamTypes, TypeOK, RemoveMark
    <2>2. CASE ~RemoveMark(t)
      <3>1. unmarked' = unmarked
        BY <1>2, <2>2 DEF write_block, TestMark, TestBudget, AddLen, SubPrev, AdvanceMark,
             delete_block, GiveBack, InsertBlock, RemoveBlock, PutBlock, replicate, FetchBlock,
             TakeLen, Arrive, history
      <3> QED BY <3>1 DEF RamTypes, TypeOK
    <2> QED BY <2>1, <2>2
  <1> QED BY <1>1, <1>5, <1>6, <1>7 DEF MarkTypes, RamTypes, TypeOK

DuesInt == Dues \in [Tasks -> Int]

(* What a handler owes is a number. *)
LEMMA DueInt == RamTypes => DuesInt
  <1> SUFFICES ASSUME RamTypes, NEW t \in Tasks PROVE Due(t) \in Int
    BY DEF Dues, DuesInt
  <1>1. CASE pc[t] \in {"add", "sub", "give_back", "put"}
    <2>1. call[t].len \in Nat /\ call[t].prev \in Nat
      BY <1>1, CallParts, LenNat DEF RamTypes
    <2> QED BY <1>1, <2>1 DEF Due
  <1>2. CASE pc[t] \notin {"add", "sub", "give_back", "put"}
    BY <1>2 DEF Due
  <1> QED BY <1>1, <1>2

(* One handler's step changes the total of the dues by what it changes its
   own. *)
LEMMA DueChange ==
  ASSUME RamTypes, RamTypes', NEW t \in Tasks,
         \A u \in Tasks : u # t => pc'[u] = pc[u] /\ call'[u] = call[u]
  PROVE  Total(Dues') = Total(Dues) + (Due(t)' - Due(t))
  <1>0. DuesInt /\ DuesInt'
    BY DueInt, PTL
  <1>1. Dues \in [Tasks -> Int] /\ Dues' \in [Tasks -> Int]
    BY <1>0 DEF DuesInt
  <1>3. \A u \in Tasks : u # t => Dues'[u] = Dues[u]
    BY DEF Dues, Due
  <1>4. Dues[t] = Due(t) /\ Dues'[t] = Due(t)'
    BY DEF Dues
  <1>5. Total(Dues') = Total(Dues) + (Dues'[t] - Dues[t])
    BY <1>1, <1>3, TotalChange, KeysFinite
  <1> QED BY <1>4, <1>5

(* The account a step leaves: what it adds to the blocks, to the double counts
   and to the dues is what it adds to the counter. *)
LEMMA KeepsAccount ==
  ASSUME RamTypes, RamTypes', Accounting, NEW t \in Tasks, NEW a \in Int,
         \A u \in Tasks : u # t => pc'[u] = pc[u] /\ call'[u] = call[u],
         Total(blocks') + leaked' + (Due(t)' - Due(t)) = Total(blocks) + leaked + a,
         ram_used' = (ram_used + a) % Width
  PROVE  Accounting'
  <1>1. DuesInt /\ DuesInt'
    BY DueInt, PTL
  <1>2. blocks \in [Keys -> Int] /\ blocks' \in [Keys -> Int]
    <2>1. Lens \cup {0} \subseteq Int
      BY LenNat
    <2> QED BY <2>1 DEF RamTypes, TypeOK
  <1>3. /\ Total(Dues) \in Int /\ Total(Dues') \in Int
        /\ Total(blocks) \in Int /\ Total(blocks') \in Int
    BY <1>1, <1>2, KeysFinite, TotalFacts DEF DuesInt
  <1>4. Due(t) \in Int /\ Due(t)' \in Int
    BY <1>1 DEF DuesInt, Dues
  <1>5. leaked \in Int /\ leaked' \in Int
    BY DEF RamTypes, TypeOK
  <1>6. Total(Dues') = Total(Dues) + (Due(t)' - Due(t))
    BY DueChange
  <1> DEFINE x == Total(blocks) + Total(Dues) + leaked
  <1>7. x \in Int /\ Total(blocks') + Total(Dues') + leaked' = x + a
    BY <1>3, <1>4, <1>5, <1>6
  <1>8. ram_used = x % Width
    BY DEF Accounting, Dues
  <1> HIDE DEF x
  <1>9. ((x % Width) + a) % Width = (x + a) % Width
    <2>1. Width \in Nat /\ Width > 0
      BY StoreAssumption
    <2> QED BY Zenon, <1>7, <2>1, ModSum
  <1>10. ram_used' = (Total(blocks') + Total(Dues') + leaked') % Width
    BY <1>7, <1>8, <1>9
  <1> QED BY <1>10 DEF Accounting, Dues

(* The same when the counter stays. *)
LEMMA QuietAccount ==
  ASSUME RamTypes, RamTypes', Accounting, NEW t \in Tasks, UNCHANGED ram_used,
         \A u \in Tasks : u # t => pc'[u] = pc[u] /\ call'[u] = call[u],
         Total(blocks') + leaked' + (Due(t)' - Due(t)) = Total(blocks) + leaked
  PROVE  Accounting'
  <1> DEFINE zero == 0
  <1>1. zero \in Int /\ Total(blocks) + leaked = Total(blocks) + leaked + zero
    <2>1. Total(blocks) \in Int
      BY BlockNat, KeysFinite, TotalFacts
    <2> QED BY <2>1 DEF RamTypes, TypeOK
  <1>2. ram_used' = (ram_used + zero) % Width
    <2>1. ram_used \in 0 .. Width - 1 /\ Width \in Nat /\ Width > 0
      BY StoreAssumption DEF RamTypes, TypeOK
    <2>2. ram_used % Width = ram_used
      BY <2>1, ModRange
    <2> QED BY <2>1, <2>2
  <1> HIDE DEF zero
  <1> QED BY <1>1, <1>2, KeepsAccount

(* A block that is stored, or removed, changes the total by the difference. *)
LEMMA BlockChange ==
  ASSUME RamTypes, NEW k \in Keys, NEW n \in Nat
  PROVE  Total([blocks EXCEPT ![k] = n]) = Total(blocks) + (n - blocks[k])
  <1> DEFINE g == [blocks EXCEPT ![k] = n]
  <1>1. blocks \in [Keys -> Int]
    BY BlockNat
  <1>2. g \in [Keys -> Int] /\ g[k] = n /\ \A j \in Keys : j # k => g[j] = blocks[j]
    BY <1>1
  <1> HIDE DEF g
  <1>3. Total(g) = Total(blocks) + (g[k] - blocks[k])
    BY <1>1, <1>2, TotalChange, KeysFinite
  <1> QED BY <1>2, <1>3 DEF g

(* Nothing is lost or invented in any step of a handler. *)
LEMMA StepAccount == ASSUME RamTypes, RamTypes', Accounting, Next PROVE Accounting'
  <1>1. PICK t \in Tasks :
    \/ write_block(t) \/ TestMark(t) \/ TestBudget(t) \/ InsertBlock(t)
    \/ AddLen(t) \/ SubPrev(t) \/ AdvanceMark(t)
    \/ delete_block(t) \/ RemoveBlock(t) \/ GiveBack(t) \/ RemoveMark(t)
    \/ replicate(t) \/ FetchBlock(t) \/ TakeLen(t) \/ PutBlock(t)
    BY DEF Next
  <1>2. pc \in [Tasks -> Steps] /\ call \in [Tasks -> Call \cup {<<>>}]
    BY DEF RamTypes, TypeOK
  <1>3. call[t] \in Call => /\ call[t].key \in Keys
                            /\ call[t].len \in Nat /\ call[t].prev \in Nat
    BY CallParts, LenNat
  <1>4. ram_used \in Int /\ leaked \in Int /\ Total(blocks) \in Int
    <2>1. Total(blocks) \in Int
      BY BlockNat, KeysFinite, TotalFacts
    <2> QED BY <2>1 DEF RamTypes, TypeOK
  <1>5. CASE \/ write_block(t) \/ delete_block(t) \/ replicate(t) \/ TestMark(t)
             \/ TestBudget(t) \/ FetchBlock(t) \/ AdvanceMark(t) \/ RemoveMark(t)
    <2>1. /\ UNCHANGED <<blocks, ram_used, leaked>>
          /\ pc[t] \in {"idle", "mark", "budget", "fetch", "advance", "unmark"}
      BY ZenonT(30), <1>5 DEF write_block, delete_block, replicate, Arrive, TestMark, TestBudget,
           FetchBlock, AdvanceMark, RemoveMark, history
    <2>2. /\ \A u \in Tasks : u # t => pc'[u] = pc[u] /\ call'[u] = call[u]
          /\ pc'[t] \in {"idle", "mark", "budget", "insert", "remove", "fetch", "take"}
      BY <1>2, <1>5 DEF write_block, delete_block, replicate, Arrive, TestMark, TestBudget,
           FetchBlock, AdvanceMark, RemoveMark, Goto, Return
    <2>3. Due(t) = 0 /\ Due(t)' = 0
      BY <2>1, <2>2 DEF Due
    <2>4. Total(blocks') + leaked' + (Due(t)' - Due(t)) = Total(blocks) + leaked
      BY <1>4, <2>1, <2>3
    <2> QED BY ZenonT(30), <2>1, <2>2, <2>4, QuietAccount
  <1>6. CASE InsertBlock(t) \/ RemoveBlock(t)
    <2> DEFINE k == call[t].key
               n == IF InsertBlock(t) THEN call[t].len ELSE 0
    <2>1. call[t] \in Call /\ k \in Keys /\ n \in Nat
      BY <1>3, <1>6 DEF RamTypes, InsertBlock, RemoveBlock
    <2>2. /\ pc[t] \in {"insert", "remove"} /\ blocks' = [blocks EXCEPT ![k] = n]
          /\ UNCHANGED <<ram_used, leaked>>
          /\ \A u \in Tasks : u # t => pc'[u] = pc[u] /\ call'[u] = call[u]
      BY <1>2, <1>6 DEF InsertBlock, RemoveBlock, Goto
    <2>3. blocks[k] \in Nat
      BY <2>1, BlockNat
    <2>4. call'[t].prev = blocks[k] /\ call'[t].len = call[t].len
      BY <1>2, <1>6, <2>1 DEF InsertBlock, RemoveBlock, Call
    <2>5. \/ InsertBlock(t) /\ pc'[t] = "add" /\ n = call[t].len
          \/ n = 0 /\ pc'[t] = IF blocks[k] = 0 THEN "unmark" ELSE "give_back"
      BY <1>2, <1>6 DEF InsertBlock, RemoveBlock, Goto
    <2>6. Due(t) = 0
      BY <2>2 DEF Due
    <2> HIDE DEF k, n
    <2>7. Due(t)' = blocks[k] - n
      BY <2>3, <2>4, <2>5 DEF Due
    <2>8. Total(blocks') = Total(blocks) + (n - blocks[k])
      BY Zenon, <2>1, <2>2, BlockChange
    <2>9. Total(blocks') + leaked' + (Due(t)' - Due(t)) = Total(blocks) + leaked
      BY <1>4, <2>1, <2>2, <2>3, <2>6, <2>7, <2>8
    <2> QED BY Zenon, <2>2, <2>9, QuietAccount
  <1>7. CASE AddLen(t) \/ TakeLen(t)
    <2>1. /\ pc[t] \in {"add", "take"} /\ UNCHANGED <<blocks, leaked, call>>
          /\ ram_used' = (ram_used + call[t].len) % Width
          /\ \A u \in Tasks : u # t => pc'[u] = pc[u] /\ call'[u] = call[u]
          /\ pc'[t] = IF pc[t] = "add" THEN "sub" ELSE "put"
      BY <1>2, <1>7 DEF AddLen, TakeLen, Goto, history
    <2>2. call[t].len \in Nat /\ call[t].prev \in Nat
      BY <1>3, <2>1 DEF RamTypes
    <2>3. Due(t)' - Due(t) = call[t].len
      <3>1. CASE pc[t] = "add"
        <4>1. Due(t) = call[t].prev - call[t].len /\ Due(t)' = call[t].prev
          BY <2>1, <3>1 DEF Due
        <4> QED BY <2>2, <4>1
      <3>2. CASE pc[t] = "take"
        <4>1. Due(t) = 0 /\ Due(t)' = call[t].len
          BY <2>1, <3>2 DEF Due
        <4> QED BY <2>2, <4>1
      <3> QED BY <2>1, <3>1, <3>2
    <2>4. Total(blocks') + leaked' + (Due(t)' - Due(t)) = Total(blocks) + leaked + call[t].len
      BY <1>4, <2>1, <2>2, <2>3
    <2>5. call[t].len \in Int
      BY <2>2
    <2> QED BY <2>1, <2>4, <2>5, KeepsAccount
  <1>8. CASE SubPrev(t) \/ GiveBack(t)
    <2>1. /\ pc[t] \in {"sub", "give_back"} /\ UNCHANGED <<blocks, leaked, call>>
          /\ ram_used' = (ram_used - call[t].prev) % Width
          /\ \A u \in Tasks : u # t => pc'[u] = pc[u] /\ call'[u] = call[u]
          /\ pc'[t] \in {"advance", "unmark"}
      BY <1>2, <1>8 DEF SubPrev, GiveBack, LessPrev, Goto, history
    <2>2. call[t].prev \in Nat
      BY <1>3, <2>1 DEF RamTypes
    <2>3. Due(t)' = 0 /\ Due(t) = call[t].prev
      BY <2>1 DEF Due
    <2> DEFINE a == -call[t].prev
    <2>4. Total(blocks') + leaked' + (Due(t)' - Due(t)) = Total(blocks) + leaked + a /\ a \in Int
      BY <1>4, <2>1, <2>2, <2>3
    <2>5. ram_used' = (ram_used + a) % Width
      BY <1>4, <2>1, <2>2
    <2> HIDE DEF a
    <2> QED BY <2>1, <2>4, <2>5, KeepsAccount
  <1>9. CASE PutBlock(t)
    <2> DEFINE k == call[t].key
               n == call[t].len
    <2>1. k \in Keys /\ n \in Nat /\ blocks[k] \in Nat
      BY <1>3, <1>9, BlockNat DEF RamTypes, PutBlock
    <2>2. /\ pc[t] = "put" /\ pc'[t] = "idle" /\ blocks' = [blocks EXCEPT ![k] = n]
          /\ leaked' = leaked + blocks[k] /\ UNCHANGED ram_used
          /\ \A u \in Tasks : u # t => pc'[u] = pc[u] /\ call'[u] = call[u]
      BY <1>2, <1>9 DEF PutBlock, Goto, Return
    <2>3. Due(t) = n /\ Due(t)' = 0
      BY <2>2 DEF Due
    <2> HIDE DEF k, n
    <2>4. Total(blocks') = Total(blocks) + (n - blocks[k])
      BY Zenon, <2>1, <2>2, BlockChange
    <2>5. Total(blocks') + leaked' + (Due(t)' - Due(t)) = Total(blocks) + leaked
      BY <1>4, <2>1, <2>2, <2>3, <2>4
    <2> QED BY Zenon, <2>2, <2>5, QuietAccount
  <1> QED BY <1>1, <1>5, <1>6, <1>7, <1>8, <1>9

(* The shape of the state and of every handler. *)
THEOREM StoreTypes == Spec => []TypeOK
  <1>1. Init => RamTypes
    BY StoreAssumption DEF Init, RamTypes, TypeOK, Steps
  <1>2. RamTypes /\ [Next]_vars => RamTypes'
    <2>1. RamTypes /\ UNCHANGED vars => RamTypes'
      BY DEF RamTypes, TypeOK, vars, history
    <2> QED BY <2>1, StepRamTypes
  <1>3. RamTypes => TypeOK
    BY DEF RamTypes
  <1> QED BY <1>1, <1>2, <1>3, PTL DEF Spec

(* A store starts with its books in order. *)
LEMMA InitAccount == ASSUME Init PROVE RamTypes /\ Accounting
  <1>1. RamTypes
    BY StoreAssumption DEF Init, RamTypes, TypeOK, Steps
  <1>2. blocks = [k \in Keys |-> 0] /\ Dues = [t \in Tasks |-> 0]
    BY DEF Init, Dues, Due
  <1>3. Total(blocks) = 0 /\ Total(Dues) = 0
    BY <1>2, KeysFinite, TotalZero
  <1>4. ram_used = 0 /\ leaked = 0 /\ 0 % Width = 0
    <2>1. Width \in Nat /\ Width > 0
      BY StoreAssumption
    <2> QED BY <2>1 DEF Init
  <1> QED BY <1>1, <1>3, <1>4 DEF Accounting, Dues

(* ram_used is the length of the stored blocks, up to what handlers in flight
   owe and what replicate counted twice, however many handlers interleave and
   wherever the counter wraps. *)
THEOREM CounterIsExact == Spec => []Accounting
  <1>1. Init => RamTypes /\ Accounting
    BY InitAccount
  <1>2. RamTypes /\ Accounting /\ [Next]_vars => (RamTypes /\ Accounting)'
    <2>1. RamTypes /\ Accounting /\ UNCHANGED vars => (RamTypes /\ Accounting)'
      BY DEF RamTypes, TypeOK, Accounting, Due, vars, history
    <2> QED BY <2>1, StepRamTypes, StepAccount
  <1> QED BY <1>1, <1>2, PTL DEF Spec
-----------------------------------------------------------------------------
(* The largest length. *)
LEMMA MaxLen ==
  /\ Max(Lens) \in Nat
  /\ \A n \in Lens \cup {0} : n <= Max(Lens)
  <1> DEFINE Tops(T) == {x \in T : \A y \in T : y <= x}
             B == {T \in SUBSET Lens : T # {} /\ Tops(T) = {}}
  <1>0. Lens \subseteq Nat /\ IsFiniteSet(Lens) /\ Lens # {}
    BY StoreAssumption
  <1>1. B = {}
    <2> SUFFICES ASSUME B # {} PROVE FALSE
      OBVIOUS
    <2>1. PICK T \in B : \A U \in SUBSET T : U # T => U \notin B
      <3>1. B \in SUBSET (SUBSET Lens)
        OBVIOUS
      <3> HIDE DEF B
      <3> QED BY Zenon, <1>0, <3>1, Smallest
    <2>2. T \in SUBSET Lens /\ T # {} /\ Tops(T) = {}
      BY <2>1
    <2>3. PICK x \in T : TRUE
      BY <2>2
    <2>4. CASE T \ {x} = {}
      <3>1. x \in Nat /\ \A y \in T : y = x
        BY <1>0, <2>2, <2>4
      <3>2. x \in Tops(T)
        BY <3>1
      <3> QED BY <2>2, <3>2
    <2>5. CASE T \ {x} # {}
      <3>1. T \ {x} \in SUBSET T /\ T \ {x} # T /\ T \ {x} \in SUBSET Lens
        BY <2>2
      <3>2. Tops(T \ {x}) # {}
        BY Zenon, <2>1, <2>5, <3>1
      <3>3. PICK z \in T \ {x} : \A y \in T \ {x} : y <= z
        BY <3>2
      <3>4. x \in Nat /\ z \in Nat /\ \A y \in T : y \in Nat
        BY <1>0, <2>2
      <3>5. x <= z => z \in Tops(T)
        BY <3>3, <3>4
      <3>6. z <= x => x \in Tops(T)
        BY <3>3, <3>4
      <3> QED BY <2>2, <3>4, <3>5, <3>6
    <2> QED BY <2>4, <2>5
  <1>2. \E x \in Lens : \A y \in Lens : y <= x
    <2>1. Lens \in SUBSET Lens
      OBVIOUS
    <2>2. Tops(Lens) # {}
      BY <1>0, <1>1, <2>1
    <2> QED BY <2>2
  <1>3. Max(Lens) \in Lens /\ \A y \in Lens : y <= Max(Lens)
    BY <1>2 DEF Max
  <1>4. Max(Lens) \in Nat
    BY Zenon, <1>0, <1>3
  <1> QED BY <1>3, <1>4

(* What handlers past the budget test are about to store, and a length for
   every replicate on its way. *)
Held == [t \in Tasks |-> IF pc[t] = "insert" THEN call[t].len ELSE 0]
Busy == [t \in Tasks |-> IF pc[t] \in {"fetch", "take", "put"} THEN Max(Lens) ELSE 0]

(* replicate stops at MaxLeaked, but those on their way may each count one more
   block twice. *)
LeakBound == leaked + Total(Busy) <= MaxLeaked + Cardinality(Tasks) * Max(Lens)

(* The bound of OverBudgetBounded, with what is about to be stored. *)
HeldBound ==
  Total(Written) + Total(Held) <= Budget + (Cardinality(Tasks) - 1) * Max(Lens)

BudgetInv == RamTypes /\ Accounting /\ LeakBound /\ HeldBound

HeldInt == Held \in [Tasks -> Int] /\ \A t \in Tasks : Held[t] >= 0
BusyInt == Busy \in [Tasks -> Int] /\ \A t \in Tasks : Busy[t] >= 0 /\ Busy[t] <= Max(Lens)
WrittenInt ==
  Written \in [Keys -> Int] /\ \A k \in Keys : Written[k] >= 0 /\ Written[k] <= blocks[k]

(* All three are made of lengths. *)
LEMMA HeldTypes == RamTypes => HeldInt /\ BusyInt /\ WrittenInt
  <1> SUFFICES ASSUME RamTypes PROVE HeldInt /\ BusyInt /\ WrittenInt
    OBVIOUS
  <1>1. HeldInt
    <2> SUFFICES ASSUME NEW t \in Tasks
                 PROVE  (IF pc[t] = "insert" THEN call[t].len ELSE 0) \in Nat
      BY DEF HeldInt, Held
    <2>1. pc[t] = "insert" => call[t].len \in Nat
      BY CallParts, LenNat DEF RamTypes
    <2> QED BY <2>1
  <1>2. BusyInt
    BY MaxLen DEF BusyInt, Busy
  <1>3. WrittenInt
    <2>1. \A k \in Keys : blocks[k] \in Nat
      BY BlockNat
    <2> QED BY <2>1 DEF WrittenInt, Written
  <1> QED BY <1>1, <1>2, <1>3

(* The number of handlers, and the room that the counter has left. *)
LEMMA Room ==
  /\ Cardinality(Tasks) \in Nat /\ Cardinality(Tasks) >= 1 /\ Cardinality(Keys) \in Nat
  /\ Cardinality(Keys) * Max(Lens) \in Int /\ Cardinality(Tasks) * Max(Lens) \in Int
  /\ (Cardinality(Tasks) - 1) * Max(Lens) = Cardinality(Tasks) * Max(Lens) - Max(Lens)
  /\ Cardinality(Keys) * Max(Lens) + 2 * (Cardinality(Tasks) * Max(Lens)) + Max(Lens)
       + MaxLeaked < Width
  <1>1. Cardinality(Tasks) \in Nat /\ Cardinality(Keys) \in Nat
    BY KeysFinite, FS_CardinalityType
  <1>2. Cardinality(Tasks) # 0
    BY KeysFinite, StoreAssumption, FS_EmptySet
  <1>3. Max(Lens) \in Nat /\ MaxLeaked \in Nat /\ Width \in Nat
    BY MaxLen, StoreAssumption
  <1>4. (Cardinality(Keys) + 2 * Cardinality(Tasks) + 1) * Max(Lens) + MaxLeaked < Width
    BY RoomAssumption
  <1> HIDE DEF Keys
  <1> DEFINE c == Cardinality(Tasks)
             d == Cardinality(Keys)
             m == Max(Lens)
  <1>5. c \in Nat /\ c # 0 /\ d \in Nat /\ m \in Nat /\ (d + 2 * c + 1) * m + MaxLeaked < Width
    BY <1>1, <1>2, <1>3, <1>4
  <1> HIDE DEF c, d, m
  <1>6. (d + 2 * c + 1) * m = d * m + 2 * (c * m) + m
    BY <1>5
  <1>7. d * m \in Int /\ c * m \in Int /\ (c - 1) * m = c * m - m
    BY <1>5
  <1> QED BY <1>3, <1>5, <1>6, <1>7 DEF c, d, m

(* Double counts stay within their bound. *)
LEMMA StepLeak == ASSUME RamTypes, RamTypes', LeakBound, Next PROVE LeakBound'
  <1>1. PICK t \in Tasks :
    \/ write_block(t) \/ TestMark(t) \/ TestBudget(t) \/ InsertBlock(t)
    \/ AddLen(t) \/ SubPrev(t) \/ AdvanceMark(t)
    \/ delete_block(t) \/ RemoveBlock(t) \/ GiveBack(t) \/ RemoveMark(t)
    \/ replicate(t) \/ FetchBlock(t) \/ TakeLen(t) \/ PutBlock(t)
    BY DEF Next
  <1>2. BusyInt /\ BusyInt'
    BY HeldTypes, PTL
  <1>3. Busy \in [Tasks -> Int] /\ Busy' \in [Tasks -> Int] /\ Max(Lens) \in Nat
    BY <1>2, MaxLen DEF BusyInt
  <1>4. pc \in [Tasks -> Steps]
    BY Zenon DEF RamTypes, TypeOK
  <1>5. \A u \in Tasks : u # t => pc'[u] = pc[u]
    BY <1>1, <1>4 DEF write_block, TestMark, TestBudget, InsertBlock, AddLen, SubPrev, AdvanceMark,
         delete_block, RemoveBlock, GiveBack, RemoveMark, replicate, FetchBlock, TakeLen, PutBlock,
         Arrive, Goto, Return
  <1>6. \A u \in Tasks : u # t => Busy'[u] = Busy[u]
    BY <1>5 DEF Busy
  <1>7. Total(Busy') = Total(Busy) + (Busy'[t] - Busy[t]) /\ Total(Busy) \in Int
    BY <1>3, <1>6, KeysFinite, TotalChange, TotalFacts
  <1>8. /\ Busy[t] = IF pc[t] \in {"fetch", "take", "put"} THEN Max(Lens) ELSE 0
        /\ Busy'[t] = IF pc'[t] \in {"fetch", "take", "put"} THEN Max(Lens) ELSE 0
    BY DEF Busy
  <1>9. leaked \in Nat /\ MaxLeaked \in Nat /\ Cardinality(Tasks) * Max(Lens) \in Int
    BY StoreAssumption, Room DEF RamTypes, TypeOK
  <1>10. CASE replicate(t)
    <2>1. leaked <= MaxLeaked /\ leaked' = leaked /\ pc[t] = "idle" /\ pc'[t] = "fetch"
      BY <1>4, <1>10 DEF replicate, Arrive, Goto, history
    <2>2. Total(Busy') <= Cardinality(Tasks) * Max(Lens)
      BY <1>2, <1>3, KeysFinite, TotalBound DEF BusyInt
    <2>3. Total(Busy') \in Int
      BY <1>3, KeysFinite, TotalFacts
    <2>4. leaked + Total(Busy') <= MaxLeaked + Cardinality(Tasks) * Max(Lens)
      BY <1>9, <2>1, <2>2, <2>3
    <2> QED BY <2>1, <2>4 DEF LeakBound
  <1>11. CASE PutBlock(t)
    <2>1. pc[t] = "put" /\ pc'[t] = "idle" /\ leaked' = leaked + blocks[call[t].key]
      BY <1>4, <1>11 DEF PutBlock, Return, Goto
    <2>2. call[t].key \in Keys
      BY <2>1, CallParts DEF RamTypes
    <2>3. blocks[call[t].key] \in Nat /\ blocks[call[t].key] <= Max(Lens)
      BY <2>2, BlockNat, MaxLen DEF RamTypes, TypeOK
    <2>4. Busy[t] = Max(Lens) /\ Busy'[t] = 0
      BY <1>8, <2>1
    <2>5. leaked' + Total(Busy') <= leaked + Total(Busy)
      BY <1>3, <1>7, <1>9, <2>1, <2>3, <2>4
    <2>6. Total(Busy') \in Int /\ leaked' \in Int
      BY <1>3, <1>7, <1>9, <2>1, <2>3, <2>4
    <2> QED BY <1>7, <1>9, <2>5, <2>6 DEF LeakBound
  <1>12. CASE ~replicate(t) /\ ~PutBlock(t)
    <2>1. leaked' = leaked
      BY Zenon, <1>1, <1>12 DEF write_block, TestMark, TestBudget, InsertBlock, AddLen, SubPrev, AdvanceMark,
         delete_block, RemoveBlock, GiveBack, RemoveMark, FetchBlock, TakeLen, Arrive, history
    <2>2. pc'[t] \in {"fetch", "take", "put"} => pc[t] \in {"fetch", "take", "put"}
      BY <1>1, <1>4, <1>12 DEF write_block, TestMark, TestBudget, InsertBlock, AddLen, SubPrev, AdvanceMark,
         delete_block, RemoveBlock, GiveBack, RemoveMark, FetchBlock, TakeLen, Arrive, Goto, Return
    <2>3. Busy'[t] <= Busy[t] /\ Busy'[t] \in Int /\ Busy[t] \in Int
      BY <1>3, <1>8, <2>2
    <2>4. Total(Busy') <= Total(Busy) /\ Total(Busy') \in Int
      BY <1>7, <2>3
    <2> QED BY <1>7, <1>9, <2>1, <2>4 DEF LeakBound
  <1> QED BY <1>10, <1>11, <1>12

(* What a handler owes is at most a length, and what it holds for a block it
   will store exceeds what it owes by at most a length. *)
LEMMA DueBounds ==
  ASSUME RamTypes, NEW t \in Tasks
  PROVE  /\ Due(t) \in Int /\ Due(t) <= Max(Lens)
         /\ Held[t] <= Due(t) + Max(Lens)
         /\ pc[t] = "budget" => Due(t) = 0 /\ Held[t] = 0
  <1>1. Held[t] = IF pc[t] = "insert" THEN call[t].len ELSE 0
    BY DEF Held
  <1>2. Max(Lens) \in Nat
    BY MaxLen
  <1>3. CASE pc[t] \in {"add", "sub", "give_back", "put", "insert"}
    <2>1. /\ call[t].len \in Nat /\ call[t].prev \in Nat
          /\ call[t].len <= Max(Lens) /\ call[t].prev <= Max(Lens)
      BY <1>3, CallParts, LenNat, MaxLen DEF RamTypes
    <2>2. /\ pc[t] = "add" => Due(t) = call[t].prev - call[t].len
          /\ pc[t] \in {"sub", "give_back"} => Due(t) = call[t].prev
          /\ pc[t] = "put" => Due(t) = call[t].len
          /\ pc[t] = "insert" => Due(t) = 0
      BY DEF Due
    <2> QED BY <1>1, <1>2, <1>3, <2>1, <2>2
  <1>4. CASE pc[t] \notin {"add", "sub", "give_back", "put", "insert"}
    <2>1. Due(t) = 0
      BY <1>4 DEF Due
    <2> QED BY <1>1, <1>2, <1>4, <2>1
  <1> QED BY <1>3, <1>4

(* A block that passes the test fits the budget beside everything that is
   stored, except for what the other handlers hold: the counter has not
   wrapped, and lags behind the blocks by at most a length for each of them. *)
LEMMA FitsMeans ==
  ASSUME BudgetInv, NEW t \in Tasks, pc[t] = "budget", Fits(call[t].len)
  PROVE  Total(Written) + Total(Held) + call[t].len
           <= Budget + (Cardinality(Tasks) - 1) * Max(Lens)
  <1> DEFINE n == call[t].len
             M == Max(Lens)
             R == Total(blocks) + Total(Dues) + leaked
             cap == [u \in Tasks |-> IF u = t THEN 0 ELSE M]
             sum == [u \in Tasks |-> Dues[u] + cap[u]]
  <1>0. RamTypes /\ Accounting /\ LeakBound
    BY DEF BudgetInv
  <1>1. n \in Nat /\ n <= M /\ M \in Nat
    <2>1. call[t].len \in Lens \cup {0}
      BY <1>0, CallParts DEF RamTypes
    <2> QED BY <2>1, LenNat, MaxLen
  <1>2. /\ Dues \in [Tasks -> Int] /\ Held \in [Tasks -> Int] /\ Busy \in [Tasks -> Int]
        /\ Written \in [Keys -> Int] /\ blocks \in [Keys -> Int]
    BY <1>0, DueInt, HeldTypes, BlockNat DEF DuesInt, HeldInt, BusyInt, WrittenInt
  <1>3. /\ Total(Dues) \in Int /\ Total(Held) \in Int /\ Total(Busy) \in Int
        /\ Total(Written) \in Int /\ Total(blocks) \in Int
    BY <1>2, KeysFinite, TotalFacts
  <1>4. leaked \in Nat /\ MaxLeaked \in Nat /\ Budget \in Nat /\ Width \in Nat /\ Width > 0
    BY <1>0, StoreAssumption DEF RamTypes, TypeOK
  <1>5. Total(blocks) <= Cardinality(Keys) * M
    <2>1. \A k \in Keys : blocks[k] <= M
      BY <1>0, MaxLen DEF RamTypes, TypeOK
    <2>2. M \in Int
      BY <1>1
    <2> HIDE DEF M
    <2> QED BY <1>2, <2>1, <2>2, KeysFinite, TotalBound
  <1>6. Total(Dues) <= Cardinality(Tasks) * M
    <2>1. \A u \in Tasks : Dues[u] <= M
      BY <1>0, DueBounds DEF Dues
    <2>2. M \in Int
      BY <1>1
    <2> HIDE DEF M
    <2> QED BY <1>2, <2>1, <2>2, KeysFinite, TotalBound
  <1>7. leaked <= MaxLeaked + Cardinality(Tasks) * M
    <2> DEFINE zero == 0
    <2>1. zero \in Int /\ \A u \in Tasks : zero <= Busy[u]
      BY <1>0, HeldTypes DEF BusyInt
    <2>2. Cardinality(Tasks) * zero = 0
      BY Room
    <2> HIDE DEF zero
    <2>3. Cardinality(Tasks) * zero <= Total(Busy)
      BY <1>2, <2>1, KeysFinite, TotalBound
    <2>4. Cardinality(Tasks) * M \in Int
      BY Room
    <2>5. leaked + Total(Busy) <= MaxLeaked + Cardinality(Tasks) * M
      BY <1>0 DEF LeakBound
    <2> HIDE DEF M
    <2> QED BY <1>3, <1>4, <2>2, <2>3, <2>4, <2>5
  <1>8. R \in Int /\ R + n < Width
    BY <1>1, <1>3, <1>4, <1>5, <1>6, <1>7, Room
  <1>9. R + n <= Budget
    <2>1. ram_used = R % Width
      BY <1>0 DEF Accounting, Dues
    <2>2. (ram_used + n) % Width <= Budget
      BY DEF Fits
    <2> HIDE DEF R, n
    <2>3. (ram_used + n) % Width = (R + n) % Width
      <3>1. n \in Int /\ R \in Int
        BY <1>1, <1>8
      <3>2. ((R % Width) + n) % Width = (R + n) % Width
        BY Zenon, <1>4, <3>1, ModSum
      <3> QED BY <2>1, <3>2
    <2>4. CASE R + n >= 0
      <3>1. R + n \in 0 .. Width - 1 /\ R + n \in Int
        BY <1>1, <1>4, <1>8, <2>4
      <3>2. (R + n) % Width = R + n
        BY <1>4, <3>1, ModRange
      <3> QED BY <2>2, <2>3, <3>2
    <2>5. CASE ~(R + n >= 0)
      BY <1>1, <1>4, <1>8, <2>5
    <2> QED BY <2>4, <2>5
  <1>10. Total(Written) <= Total(blocks)
    <2>1. \A k \in Keys : Written[k] <= blocks[k]
      BY <1>0, HeldTypes DEF WrittenInt
    <2> QED BY <1>2, <2>1, KeysFinite, TotalFacts
  <1>11. cap \in [Tasks -> Int] /\ sum \in [Tasks -> Int]
    BY <1>1, <1>2
  <1>12. Total(cap) = Cardinality(Tasks) * M - M
    <2> DEFINE all == [u \in Tasks |-> M]
    <2>1. M \in Int /\ all \in [Tasks -> Int] /\ all[t] = M /\ cap[t] = 0
      BY <1>1
    <2>2. \A u \in Tasks : u # t => cap[u] = all[u]
      OBVIOUS
    <2>3. Total(all) = Cardinality(Tasks) * M
      <3> HIDE DEF M
      <3> QED BY Zenon, <2>1, KeysFinite, TotalConstant
    <2> HIDE DEF cap, all
    <2>4. Total(cap) = Total(all) + (cap[t] - all[t])
      BY <1>11, <2>1, <2>2, KeysFinite, TotalChange
    <2>5. Cardinality(Tasks) * M \in Int
      BY Room
    <2> QED BY <1>1, <2>1, <2>3, <2>4, <2>5
  <1>13. Total(sum) = Total(Dues) + Total(cap)
    <2> HIDE DEF cap
    <2> QED BY <1>2, <1>11, KeysFinite, TotalAdd
  <1>14. Total(Held) <= Total(sum)
    <2>1. \A u \in Tasks : Held[u] <= sum[u]
      <3> SUFFICES ASSUME NEW u \in Tasks PROVE Held[u] <= sum[u]
        OBVIOUS
      <3>1. /\ Due(u) \in Int /\ Held[u] <= Due(u) + Max(Lens)
            /\ pc[u] = "budget" => Due(u) = 0 /\ Held[u] = 0
        BY <1>0, DueBounds
      <3>2. sum[u] = Due(u) + IF u = t THEN 0 ELSE M
        BY DEF Dues
      <3> QED BY <1>1, <3>1, <3>2
    <2> HIDE DEF sum
    <2> QED BY Zenon, <1>2, <1>11, <2>1, KeysFinite, TotalFacts
  <1>15. Total(sum) \in Int
    <2> HIDE DEF sum
    <2> QED BY <1>11, KeysFinite, TotalFacts
  <1>16. Cardinality(Tasks) * M \in Int /\ (Cardinality(Tasks) - 1) * M = Cardinality(Tasks) * M - M
    BY Room
  <1> HIDE DEF cap, sum, M, n
  <1>17. Total(Written) + Total(Held) + n <= Budget + (Cardinality(Tasks) - 1) * M
    BY <1>1, <1>3, <1>4, <1>8, <1>9, <1>10, <1>12, <1>13, <1>14, <1>15, <1>16
  <1> QED BY <1>17 DEF M, n

(* Nothing but the test adds to what is stored and held. *)
LEMMA StepHeld == ASSUME BudgetInv, RamTypes', Next PROVE HeldBound'
  <1>0. RamTypes /\ HeldBound
    BY DEF BudgetInv
  <1>1. PICK t \in Tasks :
    \/ write_block(t) \/ TestMark(t) \/ TestBudget(t) \/ InsertBlock(t)
    \/ AddLen(t) \/ SubPrev(t) \/ AdvanceMark(t)
    \/ delete_block(t) \/ RemoveBlock(t) \/ GiveBack(t) \/ RemoveMark(t)
    \/ replicate(t) \/ FetchBlock(t) \/ TakeLen(t) \/ PutBlock(t)
    BY DEF Next
  <1> DEFINE C == Budget + (Cardinality(Tasks) - 1) * Max(Lens)
  <1>2. pc \in [Tasks -> Steps] /\ call \in [Tasks -> Call \cup {<<>>}]
    BY <1>0 DEF RamTypes, TypeOK
  <1>3. HeldInt /\ HeldInt' /\ WrittenInt /\ WrittenInt'
    BY <1>0, HeldTypes, PTL
  <1>4. /\ Held \in [Tasks -> Int] /\ Held' \in [Tasks -> Int]
        /\ Written \in [Keys -> Int] /\ Written' \in [Keys -> Int]
    BY <1>3 DEF HeldInt, WrittenInt
  <1>5. Total(Held) \in Int /\ Total(Written) \in Int /\ C \in Int
    <2>1. C \in Int
      BY Room, StoreAssumption, MaxLen
    <2> QED BY <1>4, <2>1, KeysFinite, TotalFacts
  <1>6. Total(Written) + Total(Held) <= C
    BY <1>0 DEF HeldBound
  <1>7. \A u \in Tasks : u # t => pc'[u] = pc[u] /\ call'[u] = call[u]
    BY <1>1, <1>2 DEF write_block, TestMark, TestBudget, InsertBlock, AddLen, SubPrev, AdvanceMark,
         delete_block, RemoveBlock, GiveBack, RemoveMark, replicate, FetchBlock, TakeLen, PutBlock,
         Arrive, Goto, Return
  <1>8. Total(Held') = Total(Held) + (Held'[t] - Held[t])
    <2>1. \A u \in Tasks : u # t => Held'[u] = Held[u]
      BY <1>7 DEF Held
    <2> QED BY <1>4, <2>1, KeysFinite, TotalChange
  <1>9. /\ Held[t] = IF pc[t] = "insert" THEN call[t].len ELSE 0
        /\ Held'[t] = IF pc'[t] = "insert" THEN call'[t].len ELSE 0
        /\ Held[t] \in Int /\ Held'[t] \in Int
    BY <1>4 DEF Held
  <1>10. CASE TestBudget(t) /\ pc'[t] = "insert"
    <2>1. pc[t] = "budget" /\ Fits(call[t].len) /\ call' = call /\ Written' = Written
      BY <1>2, <1>10 DEF TestBudget, Goto, Return, Written, history
    <2>2. Total(Written) + Total(Held) + call[t].len <= C
      BY <2>1, FitsMeans
    <2>3. Held[t] = 0 /\ Held'[t] = call[t].len
      BY <1>9, <1>10, <2>1
    <2> HIDE DEF C
    <2>4. Total(Written') + Total(Held') <= C
      BY <1>5, <1>8, <1>9, <2>1, <2>2, <2>3
    <2> QED BY <2>4 DEF C, HeldBound
  <1>11. CASE InsertBlock(t) \/ RemoveBlock(t) \/ PutBlock(t)
    <2> DEFINE k == call[t].key
    <2>1. pc[t] \in {"insert", "remove", "put"} /\ pc'[t] # "insert"
      BY <1>2, <1>11 DEF InsertBlock, RemoveBlock, PutBlock, Goto, Return
    <2>2. k \in Keys
      BY <1>0, <2>1, CallParts DEF RamTypes
    <2>3. \A j \in Keys : j # k => Written'[j] = Written[j]
      BY <1>0, <1>11 DEF Written, InsertBlock, RemoveBlock, PutBlock, RamTypes, TypeOK
    <2>4. Written'[k] = IF pc[t] = "insert" THEN call[t].len ELSE 0
      BY <1>0, <1>11, <2>2 DEF Written, InsertBlock, RemoveBlock, PutBlock, RamTypes, TypeOK
    <2>5. Written[k] \in Int /\ Written[k] >= 0 /\ Written'[k] \in Int
      BY <1>3, <1>4, <2>2 DEF WrittenInt
    <2> HIDE DEF k, C
    <2>6. Total(Written') = Total(Written) + (Written'[k] - Written[k])
      BY <1>4, <2>2, <2>3, KeysFinite, TotalChange
    <2>7. Held'[t] = 0 /\ Held[t] = Written'[k]
      BY <1>9, <2>1, <2>4
    <2>8. Total(Written') + Total(Held') <= C
      BY <1>5, <1>6, <1>8, <2>5, <2>6, <2>7
    <2> QED BY <2>8 DEF C, HeldBound
  <1>12. CASE /\ ~(TestBudget(t) /\ pc'[t] = "insert")
              /\ ~(InsertBlock(t) \/ RemoveBlock(t) \/ PutBlock(t))
    <2>1. UNCHANGED <<blocks, copied>>
      BY Zenon, <1>1, <1>12 DEF write_block, TestMark, TestBudget, AddLen, SubPrev, AdvanceMark,
         delete_block, GiveBack, RemoveMark, replicate, FetchBlock, TakeLen, Arrive, history
    <2>2. pc'[t] # "insert" /\ pc[t] # "insert"
      BY <1>1, <1>2, <1>12 DEF write_block, TestMark, TestBudget, AddLen, SubPrev, AdvanceMark,
         delete_block, GiveBack, RemoveMark, replicate, FetchBlock, TakeLen, Arrive, Goto, Return
    <2>3. Written' = Written
      BY <2>1 DEF Written
    <2>4. Held'[t] = 0 /\ Held[t] = 0
      BY <1>9, <2>2
    <2> HIDE DEF C
    <2>5. Total(Written') + Total(Held') <= C
      BY <1>5, <1>6, <1>8, <2>3, <2>4
    <2> QED BY <2>5 DEF C, HeldBound
  <1> QED BY <1>10, <1>11, <1>12

(* write_block takes a store over its budget by at most one block for each
   other handler that runs at the same time. *)
THEOREM BudgetOverrun == Spec => []OverBudgetBounded
  <1>1. Init => BudgetInv
    <2> SUFFICES ASSUME Init PROVE LeakBound /\ HeldBound
      BY InitAccount DEF BudgetInv
    <2>1. /\ Held = [t \in Tasks |-> 0] /\ Busy = [t \in Tasks |-> 0]
          /\ Written = [k \in Keys |-> 0] /\ leaked = 0
      BY DEF Init, Held, Busy, Written
    <2>2. Total(Held) = 0 /\ Total(Busy) = 0 /\ Total(Written) = 0
      BY <2>1, KeysFinite, TotalZero
    <2>3. /\ Cardinality(Tasks) \in Nat /\ Cardinality(Tasks) >= 1 /\ Max(Lens) \in Nat
          /\ MaxLeaked \in Nat /\ Budget \in Nat
      BY Room, MaxLen, StoreAssumption
    <2>4. Cardinality(Tasks) * Max(Lens) \in Nat /\ (Cardinality(Tasks) - 1) * Max(Lens) \in Nat
      BY <2>3
    <2> QED BY <2>1, <2>2, <2>3, <2>4 DEF LeakBound, HeldBound
  <1>2. BudgetInv /\ [Next]_vars => BudgetInv'
    <2>1. BudgetInv /\ Next => BudgetInv'
      BY StepRamTypes, StepAccount, StepLeak, StepHeld DEF BudgetInv
    <2>2. BudgetInv /\ UNCHANGED vars => BudgetInv'
      BY DEF BudgetInv, RamTypes, TypeOK, Accounting, Due, LeakBound, Busy, HeldBound, Held,
             Written, vars, history
    <2> QED BY <2>1, <2>2
  <1>3. BudgetInv => OverBudgetBounded
    <2> SUFFICES ASSUME BudgetInv PROVE OverBudgetBounded
      OBVIOUS
    <2> DEFINE zero == 0
    <2>1. HeldInt /\ WrittenInt
      BY HeldTypes DEF BudgetInv
    <2>2. Held \in [Tasks -> Int] /\ zero \in Int /\ \A t \in Tasks : zero <= Held[t]
      BY <2>1 DEF HeldInt
    <2>3. Cardinality(Tasks) * zero = 0
      BY Room
    <2> HIDE DEF zero
    <2>4. Cardinality(Tasks) * zero <= Total(Held) /\ Total(Held) \in Int
      BY <2>2, KeysFinite, TotalBound, TotalFacts
    <2>5. Total(Written) \in Int
      BY <2>1, KeysFinite, TotalFacts DEF WrittenInt
    <2>6. Budget + (Cardinality(Tasks) - 1) * Max(Lens) \in Int
      BY Room, MaxLen, StoreAssumption
    <2> QED BY <2>3, <2>4, <2>5, <2>6 DEF BudgetInv, HeldBound, OverBudgetBounded
  <1> QED BY <1>1, <1>2, <1>3, PTL DEF Spec
=============================================================================
