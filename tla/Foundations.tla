---------------------------- MODULE Foundations ----------------------------
(***************************************************************************)
(* What the proofs of this project rest on. First what stands in for       *)
(* induction: a nonempty set of numbers has a least one, and a function    *)
(* can be built up along 0 .. L, or along the subsets of a finite set, one *)
(* step at a time, so that a recursive definition or a fold has the value  *)
(* of its last step. Then the arithmetic of PrimeField: sums and products  *)
(* over a set, the weights of interpolation, the polynomial through any n  *)
(* values, which is unique below degree n, and polynomials with given      *)
(* values at given points.                                                 *)
(***************************************************************************)
EXTENDS PrimeField, WellFoundedInduction, FiniteSetTheorems, TLAPS

\* A nonempty set of numbers has a least one.
LEMMA Least ==
  ASSUME NEW T \in SUBSET Nat, T # {}
  PROVE  \E x \in T : \A y \in T : x <= y
<1> DEFINE R == {ss \in Nat \X Nat : ss[1] < ss[2]}
<1>1. IsWellFoundedOn(R, Nat)
  BY NatLessThanWellFounded DEF OpToRel
<1>2. \A x, y \in Nat : y < x => <<y, x>> \in R
  OBVIOUS
<1> HIDE DEF R
<1>3. \E x \in T : \A y \in T : ~ (<<y, x>> \in R)
  BY <1>1, WFMin
<1>4. PICK x \in T : \A y \in T : ~ (<<y, x>> \in R)
  BY <1>3
<1>5. \A y \in T : ~ (y < x)
  BY <1>2, <1>4
<1>6. \A y \in T : x <= y
  BY <1>5
<1> QED
  BY <1>6

\* What holds of 0 and goes from each number to the next holds up to L.
LEMMA UpTo ==
  ASSUME NEW L \in Nat, NEW P, 0 \in P,
         \A n \in 1 .. L : n - 1 \in P => n \in P
  PROVE  0 .. L \subseteq P
<1> SUFFICES ASSUME ~ (0 .. L \subseteq P) PROVE FALSE
  OBVIOUS
<1> DEFINE T == {n \in 0 .. L : n \notin P}
<1>1. T \in SUBSET Nat /\ T # {}
  OBVIOUS
<1>2. PICK x \in T : \A y \in T : x <= y
  <2> HIDE DEF T
  <2> QED
    BY <1>1, Least
<1>3. x \in 1 .. L /\ x - 1 \in 0 .. L /\ ~ (x <= x - 1)
  BY <1>2
<1>4. x - 1 \in P
  BY <1>2, <1>3
<1> QED
  BY <1>2, <1>3, <1>4

\* The functions of 0 .. L that begin with first and go on by step.
Runs(S, L, first, step) ==
  {g \in [0 .. L -> S] : g[0] = first /\ \A n \in 1 .. L : g[n] = step[n][g[n - 1]]}

\* There is one: its values are reached one after the other.
LEMMA Built ==
  ASSUME NEW S, NEW L \in Nat, NEW first \in S, NEW step,
         \A n \in 1 .. L : \A s \in S : step[n][s] \in S
  PROVE  Runs(S, L, first, step) # {}
<1> DEFINE Good(n) == \E g \in [0 .. n -> S] :
                        g[0] = first /\ \A m \in 1 .. n : g[m] = step[m][g[m - 1]]
           P == {n \in 0 .. L : Good(n)}
<1>1. 0 \in P
  <2> DEFINE g == [m \in 0 .. 0 |-> first]
  <2>1. g \in [0 .. 0 -> S] /\ g[0] = first /\ \A m \in 1 .. 0 : g[m] = step[m][g[m - 1]]
    OBVIOUS
  <2> HIDE DEF g
  <2>2. Good(0)
    BY <2>1
  <2> QED
    BY <2>2
<1>2. \A n \in 1 .. L : n - 1 \in P => n \in P
  <2> SUFFICES ASSUME NEW n \in 1 .. L, n - 1 \in P PROVE n \in P
    OBVIOUS
  <2>1. PICK g \in [0 .. n - 1 -> S] :
          g[0] = first /\ \A m \in 1 .. n - 1 : g[m] = step[m][g[m - 1]]
    OBVIOUS
  <2> DEFINE h == [m \in 0 .. n |-> IF m = n THEN step[n][g[n - 1]] ELSE g[m]]
  <2>2. g[n - 1] \in S /\ step[n][g[n - 1]] \in S
    BY <2>1
  <2>3. h \in [0 .. n -> S] /\ h[0] = first
    BY <2>1, <2>2
  <2>7. \A k \in 0 .. n : k # n => h[k] = g[k]
    OBVIOUS
  <2>8. h[n] = step[n][g[n - 1]]
    OBVIOUS
  <2> HIDE DEF h
  <2>4. ASSUME NEW m \in 1 .. n PROVE h[m] = step[m][h[m - 1]]
    <3>1. m - 1 \in 0 .. n /\ m - 1 # n
      OBVIOUS
    <3>2. h[m - 1] = g[m - 1]
      BY <3>1, <2>7
    <3>3. CASE m = n
      BY <3>2, <3>3, <2>8
    <3>4. CASE m # n
      BY <2>1, <2>7, <3>2, <3>4
    <3> QED
      BY <3>3, <3>4
  <2>5. Good(n)
    BY <2>3, <2>4
  <2>6. n \in 0 .. L
    OBVIOUS
  <2> HIDE DEF Good
  <2> QED
    BY <2>5, <2>6
<1> HIDE DEF P
<1>3. 0 .. L \subseteq P
  BY <1>1, <1>2, UpTo
<1>4. L \in P
  BY <1>3
<1> QED
  BY <1>4 DEF P, Runs

\* The functions of all numbers that begin with first and always go on by step.
Onward(S, first, step) ==
  {g \in [Nat -> S] : g[0] = first /\ \A n \in Nat \ {0} : g[n] = step[g[n - 1]]}

\* There is one.
LEMMA BuiltOnward ==
  ASSUME NEW S, NEW first \in S, NEW step \in [S -> S]
  PROVE  Onward(S, first, step) # {}
<1> DEFINE same == [n \in Nat |-> step]
           run  == [L \in Nat |-> CHOOSE h : h \in Runs(S, L, first, same)]
           g    == [n \in Nat |-> run[n][n]]
<1>1. ASSUME NEW L \in Nat
      PROVE  /\ run[L] \in [0 .. L -> S] /\ run[L][0] = first
             /\ \A n \in 1 .. L : run[L][n] = step[run[L][n - 1]]
  <2>1. \A n \in 1 .. L : \A s \in S : same[n][s] \in S
    OBVIOUS
  <2> HIDE DEF same
  <2>2. Runs(S, L, first, same) # {}
    BY <2>1, Built
  <2>3. run[L] \in Runs(S, L, first, same)
    BY <2>2
  <2>4. \A n \in 1 .. L : same[n] = step
    BY DEF same
  <2> HIDE DEF run
  <2> QED
    BY <2>3, <2>4 DEF Runs
<1> HIDE DEF run
<1>2. ASSUME NEW n \in Nat PROVE run[n + 1][n] = run[n][n]
  <2> DEFINE P == {m \in 0 .. n : run[n + 1][m] = run[n][m]}
  <2>1. 0 \in P
    BY <1>1
  <2>2. ASSUME NEW m \in 1 .. n, m - 1 \in P PROVE m \in P
    <3>1. run[n + 1][m] = step[run[n + 1][m - 1]] /\ run[n][m] = step[run[n][m - 1]]
      BY <1>1
    <3> QED
      BY <2>2, <3>1
  <2> HIDE DEF P
  <2>3. n \in P
    <3>1. 0 .. n \subseteq P
      BY <2>1, <2>2, UpTo
    <3> QED
      BY <3>1
  <2> QED
    BY <2>3 DEF P
<1>3. g \in [Nat -> S] /\ g[0] = first
  BY <1>1
<1>4. ASSUME NEW n \in Nat \ {0} PROVE g[n] = step[g[n - 1]]
  <2>1. n - 1 \in Nat /\ (n - 1) + 1 = n
    OBVIOUS
  <2>2. run[n][n] = step[run[n][n - 1]]
    BY <1>1
  <2>3. run[n][n - 1] = run[n - 1][n - 1]
    BY <1>2, <2>1
  <2> QED
    BY <2>1, <2>2, <2>3
<1> HIDE DEF g
<1> QED
  BY <1>3, <1>4 DEF Onward

-----------------------------------------------------------------------------
(* Folds over finite sets.                                                 *)

\* What holds of a finite set if it holds of all its smaller subsets.
LEMMA SubsetInduction ==
  ASSUME NEW S, IsFiniteSet(S), NEW P,
         \A T \in SUBSET S : (\A U \in SUBSET T : U # T => U \in P) => T \in P
  PROVE  S \in P
<1> SUFFICES ASSUME S \notin P PROVE FALSE
  OBVIOUS
<1> DEFINE R == StrictSubsetOrdering(S)
           Bad == {T \in SUBSET S : T \notin P}
<1>1. IsWellFoundedOn(R, SUBSET S)
  <2>1. FiniteSubsetsOf(S) = SUBSET S
    BY FS_FiniteSubsetsOfFinite
  <2>2. IsWellFoundedOn(StrictSubsetOrdering(S), FiniteSubsetsOf(S))
    BY FS_StrictSubsetOrderingWellFounded
  <2> QED
    BY <2>1, <2>2
<1>2. Bad \in SUBSET (SUBSET S) /\ Bad # {}
  OBVIOUS
<1>3. PICK T \in Bad : \A U \in Bad : ~ (<<U, T>> \in R)
  <2> HIDE DEF R, Bad
  <2> QED
    BY <1>1, <1>2, WFMin
<1>4. ASSUME NEW U \in SUBSET T, U # T PROVE <<U, T>> \in R /\ U \in SUBSET S
  <2>1. U \in SUBSET S /\ T \in SUBSET S
    BY <1>3
  <2>2. <<U, T>> \in R
    BY <1>4, <2>1 DEF StrictSubsetOrdering
  <2> HIDE DEF R
  <2> QED
    BY <2>1, <2>2
<1>5. ASSUME NEW U \in SUBSET T, U # T PROVE U \in P
  <2>1. U \in SUBSET S /\ U \notin Bad
    <3> HIDE DEF R, Bad
    <3> QED
      BY <1>3, <1>4, <1>5
  <2> QED
    BY <2>1
<1> QED
  BY <1>3, <1>5

\* An element of a set, as the folds choose it.
OneOf(s) == CHOOSE x \in s : TRUE

\* The functions that fold the values step[x] over the subsets of S.
Folded(S, base, step, h) ==
  h = [s \in SUBSET S |-> IF s = {} THEN base ELSE step[OneOf(s)][h[s \ {OneOf(s)}]]]

\* There is one: it is built from the small subsets up.
LEMMA FoldExists ==
  ASSUME NEW S, IsFiniteSet(S), NEW V, NEW base \in V, NEW step \in [S -> [V -> V]]
  PROVE  \E h \in [SUBSET S -> V] : Folded(S, base, step, h)
<1> DEFINE W     == [SUBSET S -> V]
           first == [s \in SUBSET S |-> base]
           Up(g) == [s \in SUBSET S |-> IF s = {} THEN base ELSE step[OneOf(s)][g[s \ {OneOf(s)}]]]
           up    == [g \in W |-> Up(g)]
<1>1. ASSUME NEW g \in W, NEW s \in SUBSET S, s # {}
      PROVE  OneOf(s) \in s /\ s \ {OneOf(s)} \in SUBSET S /\ step[OneOf(s)][g[s \ {OneOf(s)}]] \in V
  <2>1. OneOf(s) \in s
    BY <1>1 DEF OneOf
  <2>2. OneOf(s) \in S /\ s \ {OneOf(s)} \in SUBSET S
    BY <2>1
  <2>3. g[s \ {OneOf(s)}] \in V /\ step[OneOf(s)] \in [V -> V]
    BY <2>2
  <2> QED
    BY <2>1, <2>2, <2>3
<1>2. first \in W /\ up \in [W -> W]
  <2>1. \A g \in W : Up(g) \in W
    BY <1>1
  <2> QED
    BY <2>1
<1>3. PICK run \in [Nat -> W] : run[0] = first /\ \A n \in Nat \ {0} : run[n] = up[run[n - 1]]
  <2> HIDE DEF W, first, up
  <2> QED
    BY <1>2, BuiltOnward DEF Onward
<1>4. \A n \in Nat : run[n + 1] = Up(run[n])
  <2> TAKE n \in Nat
  <2>1. n + 1 \in Nat \ {0} /\ (n + 1) - 1 = n
    OBVIOUS
  <2>3. run[n] \in W
    <3> HIDE DEF W
    <3> QED
      OBVIOUS
  <2>2. run[n + 1] = up[run[n]]
    BY <1>3, <2>1
  <2> HIDE DEF W, Up
  <2> QED
    BY <2>2, <2>3
<1> HIDE DEF W
<1> DEFINE top == Cardinality(S)
           h   == run[top]
           P   == {n \in 0 .. top : \A s \in SUBSET S : Cardinality(s) <= n => run[n + 1][s] = run[n][s]}
<1> HIDE DEF first, up
<1>5. top \in Nat /\ \A s \in SUBSET S : IsFiniteSet(s) /\ Cardinality(s) \in 0 .. top
  BY FS_CardinalityType, FS_Subset
<1>6. 0 \in P
  <2> SUFFICES ASSUME NEW s \in SUBSET S, Cardinality(s) <= 0 PROVE run[1][s] = run[0][s]
    BY <1>5
  <2>1. s = {}
    BY <1>5, FS_EmptySet
  <2>2. run[1] = Up(run[0])
    <3> HIDE DEF Up
    <3>1. run[0 + 1] = Up(run[0])
      BY <1>4
    <3> QED
      BY <3>1
  <2> QED
    BY <1>3, <2>1, <2>2 DEF first
<1>7. \A n \in 1 .. top : n - 1 \in P => n \in P
  <2> SUFFICES ASSUME NEW n \in 1 .. top, n - 1 \in P, NEW s \in SUBSET S, Cardinality(s) <= n
               PROVE  run[n + 1][s] = run[n][s]
    BY <1>5
  <2>1. n \in Nat /\ n - 1 \in Nat /\ (n - 1) + 1 = n
    BY <1>5
  <2>2. run[n + 1] = Up(run[n]) /\ run[n] = Up(run[n - 1])
    BY <1>4, <2>1
  <2>3. CASE s = {}
    BY <2>2, <2>3
  <2>4. CASE s # {}
    <3> DEFINE r == s \ {OneOf(s)}
    <3>1. OneOf(s) \in s /\ r \in SUBSET S
      BY <2>4 DEF OneOf
    <3>2. Cardinality(r) = Cardinality(s) - 1
      BY <1>5, <3>1, FS_RemoveElement
    <3>3. Cardinality(r) <= n - 1
      BY <1>5, <2>1, <3>2
    <3>4. run[n][r] = run[n - 1][r]
      BY <2>1, <3>1, <3>3
    <3>5. s # {} /\ run[n + 1][s] = Up(run[n])[s] /\ run[n][s] = Up(run[n - 1])[s]
      BY <2>2, <2>4
    <3> QED
      BY <3>4, <3>5
  <2> QED
    BY <2>3, <2>4
<1>8. top \in P
  <2> HIDE DEF P
  <2>1. 0 .. top \subseteq P
    BY <1>5, <1>6, <1>7, UpTo
  <2> QED
    BY <1>5, <2>1
<1>9. run[top + 1] = h
  <2>1. \A s \in SUBSET S : run[top + 1][s] = run[top][s]
    BY <1>5, <1>8
  <2>2. run[top + 1] \in W /\ run[top] \in W
    <3>1. top + 1 \in Nat
      BY <1>5
    <3> QED
      BY <1>5, <3>1
  <2> QED
    BY <2>1, <2>2 DEF W
<1>10. h = Up(h) /\ h \in W
  BY <1>4, <1>5, <1>9
<1> QED
  BY <1>10 DEF Folded, W

\* Two folds agree where their steps do.
LEMMA SameFold ==
  ASSUME NEW S, IsFiniteSet(S), NEW T \in SUBSET S, NEW base, NEW step, NEW other, NEW h, NEW g,
         Folded(S, base, step, h), Folded(T, base, other, g), \A x \in T : step[x] = other[x]
  PROVE  h[T] = g[T]
<1> DEFINE P == {U \in SUBSET T : h[U] = g[U]}
<1>1. ASSUME NEW U \in SUBSET T, \A W \in SUBSET U : W # U => W \in P
      PROVE  U \in P
  <2>1. U \in SUBSET S
    OBVIOUS
  <2>2. CASE U = {}
    BY <2>1, <2>2 DEF Folded
  <2>3. CASE U # {}
    <3>1. OneOf(U) \in U
      BY <2>3 DEF OneOf
    <3> DEFINE W == U \ {OneOf(U)}
    <3>2. W \in SUBSET U /\ W # U
      BY <3>1
    <3>3. h[W] = g[W]
      BY <1>1, <3>2
    <3>4. step[OneOf(U)] = other[OneOf(U)]
      BY <3>1
    <3>5. h[U] = step[OneOf(U)][h[W]]
      BY <2>1, <2>3 DEF Folded
    <3>6. g[U] = other[OneOf(U)][g[W]]
      BY <2>3 DEF Folded
    <3> QED
      BY <3>3, <3>4, <3>5, <3>6
  <2> QED
    BY <2>2, <2>3
<1>2. IsFiniteSet(T)
  BY FS_Subset
<1> HIDE DEF P
<1>3. T \in P
  BY <1>1, <1>2, SubsetInduction
<1> QED
  BY <1>3 DEF P

\* The folds over the subsets of S with values in V; and steps that may be swapped.
FoldsOver(S, V, base, step) == {h \in [SUBSET S -> V] : Folded(S, base, step, h)}
Commuting(S, V, step) ==
  /\ step \in [S -> [V -> V]]
  /\ \A x, y \in S : \A v \in V : step[x][step[y][v]] = step[y][step[x][v]]

\* Where the order of two steps makes no difference, any element may be the last.
LEMMA FoldAny ==
  ASSUME NEW S, IsFiniteSet(S), NEW V, NEW base, NEW step, Commuting(S, V, step),
         NEW h \in FoldsOver(S, V, base, step), NEW a \in S
  PROVE  h[S] = step[a][h[S \ {a}]]
<1> USE DEF FoldsOver, Commuting
<1> DEFINE P == {U \in SUBSET S : \A b \in U : h[U] = step[b][h[U \ {b}]]}
<1>1. ASSUME NEW U \in SUBSET S, \A W \in SUBSET U : W # U => W \in P
      PROVE  U \in P
  <2> SUFFICES ASSUME NEW b \in U PROVE h[U] = step[b][h[U \ {b}]]
    OBVIOUS
  <2> DEFINE x == OneOf(U)
             W == U \ {b, x}
  <2>1. x \in U
    BY DEF OneOf
  <2>2. h[U] = step[x][h[U \ {x}]]
    BY DEF Folded
  <2> HIDE DEF x
  <2>3. CASE x = b
    BY <2>2, <2>3
  <2>4. CASE x # b
    <3>1. U \ {x} \in P /\ U \ {b} \in P
      BY <1>1, <2>1
    <3>2. (U \ {x}) \ {b} = W /\ (U \ {b}) \ {x} = W /\ b \in U \ {x} /\ x \in U \ {b}
      BY <2>1, <2>4
    <3>3. h[U \ {x}] = step[b][h[W]] /\ h[U \ {b}] = step[x][h[W]]
      BY <3>1, <3>2
    <3>4. h[W] \in V /\ x \in S /\ b \in S
      BY <2>1
    <3> QED
      BY <2>2, <3>3, <3>4
  <2> QED
    BY <2>3, <2>4
<1> HIDE DEF P
<1>2. S \in P
  BY <1>1, SubsetInduction
<1> QED
  BY <1>2 DEF P

-----------------------------------------------------------------------------
(* Numbers modulo q.                                                       *)

\* Numbers are the same in the field if they differ by a multiple of q.
Same(q, a, b) == \E d \in Int : a = b + q * d

\* A number is the same as itself.
LEMMA SameItself ==
  ASSUME NEW q \in Nat, NEW a \in Int
  PROVE  Same(q, a, a)
<1>1. 0 \in Int /\ a = a + q * 0
  OBVIOUS
<1> QED
  BY <1>1 DEF Same

\* Being the same goes both ways.
LEMMA SameBack ==
  ASSUME NEW q \in Nat, NEW a \in Int, NEW b \in Int, Same(q, a, b)
  PROVE  Same(q, b, a)
<1>1. PICK d \in Int : a = b + q * d
  BY DEF Same
<1>2. b = a + q * (-d) /\ -d \in Int
  BY <1>1
<1> QED
  BY <1>2 DEF Same

\* And from one number to the next.
LEMMA SameOn ==
  ASSUME NEW q \in Nat, NEW a \in Int, NEW b \in Int, NEW c \in Int, Same(q, a, b), Same(q, b, c)
  PROVE  Same(q, a, c)
<1>1. PICK d \in Int : a = b + q * d
  BY DEF Same
<1>2. PICK e \in Int : b = c + q * e
  BY DEF Same
<1>3. a = c + q * (d + e) /\ d + e \in Int
  BY <1>1, <1>2
<1> QED
  BY <1>3 DEF Same

\* Sums and differences of the same numbers are the same.
LEMMA SameSum ==
  ASSUME NEW q \in Nat, NEW a \in Int, NEW b \in Int, NEW c \in Int, NEW d \in Int,
         Same(q, a, b), Same(q, c, d)
  PROVE  Same(q, a + c, b + d) /\ Same(q, a - c, b - d)
<1>1. PICK m \in Int : a = b + q * m
  BY DEF Same
<1>2. PICK n \in Int : c = d + q * n
  BY DEF Same
<1>3. a + c = (b + d) + q * (m + n) /\ a - c = (b - d) + q * (m - n)
  BY <1>1, <1>2
<1>4. m + n \in Int /\ m - n \in Int
  OBVIOUS
<1> QED
  BY <1>3, <1>4 DEF Same

\* And products.
LEMMA SameProduct ==
  ASSUME NEW q \in Nat, NEW a \in Int, NEW b \in Int, NEW c \in Int, NEW d \in Int,
         Same(q, a, b), Same(q, c, d)
  PROVE  Same(q, a * c, b * d)
<1>1. PICK m \in Int : a = b + q * m
  BY DEF Same
<1>2. PICK n \in Int : c = d + q * n
  BY DEF Same
<1> DEFINE e == b * n + m * d + q * m * n
<1>3. a * c = (b + q * m) * (d + q * n)
  BY <1>1, <1>2
<1>4. (b + q * m) * (d + q * n) = b * d + q * e
  OBVIOUS
<1>5. e \in Int
  OBVIOUS
<1>6. a * c = b * d + q * e
  BY <1>3, <1>4
<1> HIDE DEF e
<1> QED
  BY <1>5, <1>6 DEF Same

\* A number and its remainder are the same.
LEMMA Remainder ==
  ASSUME NEW q \in Nat \ {0}, NEW a \in Int
  PROVE  a % q \in Field(q) /\ a % q \in Int /\ Same(q, a, a % q) /\ Same(q, a % q, a)
<1>1. a % q \in Field(q) /\ a % q \in Int
  BY DEF Field
<1>2. a \div q \in Int
  OBVIOUS
<1>3. ASSUME NEW d, d = a \div q, NEW r, r = a % q PROVE a = r + q * d
  BY <1>3
<1> DEFINE d == a \div q
           r == a % q
<1>4. a = r + q * d
  <2> HIDE DEF d, r
  <2>1. d = a \div q /\ r = a % q
    BY DEF d, r
  <2> QED
    BY <1>3, <2>1
<1> HIDE DEF d
<1>5. d \in Int
  BY <1>2 DEF d
<1>6. Same(q, a, r)
  <2> HIDE DEF r
  <2> QED
    BY <1>4, <1>5 DEF Same
<1>7. Same(q, r, a)
  BY <1>1, <1>6, SameBack
<1> QED
  BY <1>1, <1>6, <1>7

\* And the only number in the field that is.
LEMMA OneRemainder ==
  ASSUME NEW q \in Nat \ {0}, NEW a \in Int, NEW r \in Field(q), Same(q, a, r)
  PROVE  a % q = r
<1>1. PICK d \in Int : a = r + q * d
  BY DEF Same
<1> QED
  BY <1>1 DEF Field

\* Numbers are the same if their remainders are equal.
LEMMA SameRemainder ==
  ASSUME NEW q \in Nat \ {0}, NEW a \in Int, NEW b \in Int
  PROVE  Same(q, a, b) <=> a % q = b % q
<1> DEFINE r == a % q
           s == b % q
<1>1. /\ r \in Field(q) /\ r \in Int /\ Same(q, a, r) /\ Same(q, r, a)
      /\ s \in Field(q) /\ s \in Int /\ Same(q, b, s) /\ Same(q, s, b)
  BY Remainder
<1> HIDE DEF r, s
<1>2. ASSUME Same(q, a, b) PROVE r = s
  <2>1. Same(q, a, s)
    BY <1>1, <1>2, SameOn
  <2> QED
    BY <1>1, <2>1, OneRemainder DEF r
<1>3. ASSUME r = s PROVE Same(q, a, b)
  BY <1>1, <1>3, SameOn
<1> QED
  BY <1>2, <1>3 DEF r, s

\* What is in the field is its own remainder.
LEMMA Small ==
  ASSUME NEW q \in Nat \ {0}, NEW a \in Field(q)
  PROVE  a \in Int /\ a % q = a
  BY DEF Field

\* A product modulo a prime is 0 only if one of its factors is.
LEMMA NoZeroDivisors ==
  ASSUME NEW q, PrimeNumber(q), NEW a \in Int, NEW b \in Int, Same(q, a * b, 0), ~ Same(q, a, 0)
  PROVE  Same(q, b, 0)
<1> SUFFICES ASSUME ~ Same(q, b, 0) PROVE FALSE
  OBVIOUS
<1>1. q \in Nat \ {0, 1} /\ q \in Nat /\ q \in Int
  BY DEF PrimeNumber
<1>0. \A x \in Int : Same(q, x * b, 0) <=> \E d \in Int : x * b = q * d
  BY <1>1 DEF Same
\* The least positive number whose product with b is 0.
<1> DEFINE T == {n \in Nat \ {0} : Same(q, n * b, 0)}
           c == a % q
<1>9. c \in 1 .. q - 1 /\ Same(q, c * b, 0)
  <2>1. c \in Field(q) /\ c \in Int /\ Same(q, c, a) /\ Same(q, a, c)
    BY <1>1, Remainder
  <2> HIDE DEF c
  <2>2. Same(q, c * b, a * b)
    BY <1>1, <2>1, SameItself, SameProduct
  <2>3. c * b \in Int /\ a * b \in Int
    BY <2>1
  <2>4. Same(q, c * b, 0)
    BY <1>1, <2>2, <2>3, SameOn
  <2> QED
    BY <2>1, <2>4 DEF Field
<1> HIDE DEF c
<1>2. T \in SUBSET Nat /\ T # {}
  BY <1>1, <1>9
<1>3. PICK n \in T : \A m \in T : n <= m
  <2> HIDE DEF T
  <2> QED
    BY <1>2, Least
<1>4. n \in Nat \ {0} /\ n \in Int /\ Same(q, n * b, 0)
  BY <1>3
<1>5. \A m \in Nat \ {0} : Same(q, m * b, 0) => n <= m
  BY <1>3
<1> HIDE DEF T
<1>10. PICK d \in Int : n * b = q * d
  BY <1>0, <1>4
\* It divides q, since the remainder would be less.
<1>6. PICK e \in Int : q = n * e
  <2> DEFINE r == q % n
  <2>1. r \in 0 .. n - 1 /\ r \in Int /\ Same(n, q, r)
    BY <1>1, <1>4, Remainder DEF Field
  <2> HIDE DEF r
  <2>2. PICK e \in Int : q = r + n * e
    BY <2>1 DEF Same
  <2>3. r * b = q * (b - e * d)
    <3>1. r = q - n * e
      BY <1>1, <1>4, <2>1, <2>2
    <3>2. (q - n * e) * b = q * b - e * (n * b)
      BY <1>1, <1>4, <2>1
    <3>3. q * b - e * (q * d) = q * (b - e * d)
      BY <1>1, <1>10
    <3> QED
      BY <1>10, <3>1, <3>2, <3>3
  <2>4. b - e * d \in Int
    BY <1>10
  <2>5. Same(q, r * b, 0)
    BY <1>0, <2>1, <2>3, <2>4
  <2>6. r = 0
    BY <1>4, <1>5, <2>1, <2>5
  <2> QED
    BY <1>1, <1>4, <2>2, <2>6
\* So it is q, and a is 0.
<1>7. n # 1
  <2>1. 1 * b = b
    OBVIOUS
  <2> QED
    BY <1>4, <2>1
<1>8. n = q
  <2>2. n <= q
    <3>1. Same(q, q * b, 0)
      BY <1>0, <1>1
    <3> QED
      BY <1>1, <1>5, <3>1
  <2>3. CASE n = q
    BY <2>3
  <2>4. CASE n # q
    <3>1. n \in 2 .. q - 1
      BY <1>1, <1>4, <1>7, <2>2, <2>4
    <3>2. e \in 2 .. q - 1
      <4>1. e > 0
        BY <1>1, <1>4, <1>6
      <4>2. e # 1
        BY <1>4, <1>6, <2>4
      <4>3. e < n * e
        BY <1>6, <3>1, <4>1
      <4> QED
        BY <1>6, <4>1, <4>2, <4>3
    <3> QED
      BY <1>6, <3>1, <3>2 DEF PrimeNumber
  <2> QED
    BY <2>3, <2>4
<1> QED
  BY <1>1, <1>5, <1>8, <1>9

\* What is not 0 has an inverse, and so can be cancelled.
LEMMA Cancel ==
  ASSUME NEW q, PrimeNumber(q), NEW a \in Int, NEW b \in Int, NEW c \in Int,
         Same(q, a * c, b * c), ~ Same(q, c, 0)
  PROVE  Same(q, a, b)
<1>1. q \in Nat
  BY DEF PrimeNumber
<1>2. PICK d \in Int : a * c = b * c + q * d
  BY DEF Same
<1>3. c * (a - b) = 0 + q * d
  BY <1>1, <1>2
<1> DEFINE e == a - b
<1>4. e \in Int /\ a = b + e
  OBVIOUS
<1> HIDE DEF e
<1>5. Same(q, c * e, 0)
  BY <1>2, <1>3 DEF e, Same
<1>6. Same(q, e, 0)
  BY <1>4, <1>5, NoZeroDivisors
<1>7. PICK f \in Int : e = 0 + q * f
  BY <1>6 DEF Same
<1>8. a = b + q * f
  BY <1>1, <1>4, <1>7
<1> QED
  BY <1>7, <1>8 DEF Same

-----------------------------------------------------------------------------
(* Inverses and sums.                                                      *)

\* A number that is not zero has an inverse: of q - 1 products no two are the same.
LEMMA InverseIs ==
  ASSUME NEW q, PrimeNumber(q), NEW c \in Int, ~ Same(q, c, 0)
  PROVE  /\ inverse(q, c) \in Field(q) /\ inverse(q, c) \in Int
         /\ Same(q, c * inverse(q, c), 1)
<1> DEFINE S == 1 .. q - 1
           f == [y \in S |-> (c * y) % q]
<1>1. q \in Nat \ {0, 1} /\ q \in Nat \ {0} /\ q \in Nat
  BY DEF PrimeNumber
<1>2. ASSUME NEW y \in S PROVE f[y] \in S /\ Same(q, f[y], c * y) /\ Same(q, c * y, f[y]) /\ y \in Int /\ c * y \in Int
  <2>1. y \in Int /\ c * y \in Int
    OBVIOUS
  <2> DEFINE u == c * y
             r == u % q
  <2>2. f[y] = r
    OBVIOUS
  <2>3. r \in Field(q) /\ r \in Int /\ Same(q, u, r) /\ Same(q, r, u)
    BY <1>1, <2>1, Remainder
  <2> HIDE DEF u, r
  <2>4. r # 0
    <3> SUFFICES ASSUME r = 0 PROVE FALSE
      OBVIOUS
    <3>1. Same(q, c * y, 0)
      BY <2>3 DEF u
    <3>2. Same(q, y, 0)
      BY <2>1, <3>1, NoZeroDivisors
    <3>3. y \in Field(q) /\ 0 \in Field(q)
      BY <1>1 DEF Field
    <3>4. y % q = 0 /\ y % q = y
      BY <1>1, <2>1, <3>2, <3>3, OneRemainder, Small
    <3> QED
      BY <3>4
  <2>5. r \in S
    BY <1>1, <2>3, <2>4 DEF Field
  <2> QED
    BY <2>1, <2>2, <2>3, <2>5 DEF u
<1> HIDE DEF f
<1>3. ASSUME NEW x \in S, NEW y \in S, f[x] = f[y] PROVE x = y
  <2>1. x \in Int /\ y \in Int /\ c * x \in Int /\ c * y \in Int /\ f[x] \in Int
    BY <1>2
  <2>2. Same(q, c * x, c * y)
    BY <1>1, <1>2, <1>3, <2>1, SameOn
  <2>3. c * x = x * c /\ c * y = y * c
    BY <2>1
  <2>4. Same(q, x, y)
    BY <2>1, <2>2, <2>3, Cancel
  <2>5. x \in Field(q) /\ y \in Field(q)
    BY <1>1 DEF Field
  <2>6. x % q = y /\ x % q = x
    BY <1>1, <2>1, <2>4, <2>5, OneRemainder, Small
  <2> QED
    BY <2>6
<1>4. f \in [S -> S]
  <2>1. f = [y \in S |-> f[y]]
    BY DEF f
  <2> QED
    BY <1>2, <2>1
<1>5. f \in Injection(S, S)
  BY <1>3, <1>4 DEF Injection, IsInjective
<1>6. f \in Surjection(S, S)
  <2>1. IsFiniteSet(S)
    BY <1>1, FS_Interval
  <2> HIDE DEF S
  <2> QED
    BY <1>5, <2>1, FS_Injection
<1>7. PICK y \in S : f[y] = 1
  <2>1. 1 \in S
    BY <1>1
  <2> QED
    BY <1>6, <2>1 DEF Surjection
<1>8. (c * y) % q = 1
  BY <1>7 DEF f
<1>9. inverse(q, c) \in S /\ (c * inverse(q, c)) % q = 1
  BY <1>8 DEF inverse
<1> DEFINE i == inverse(q, c)
           u == c * i
<1>10. i \in Int /\ i \in Field(q) /\ u \in Int
  BY <1>1, <1>9 DEF Field
<1> HIDE DEF i, u
<1>11. u % q = 1
  BY <1>9 DEF i, u
<1>12. Same(q, u, 1)
  BY <1>1, <1>10, <1>11, Remainder
<1> QED
  BY <1>10, <1>12 DEF i, u

\* A fold that adds, or multiplies, in the field: the one of its two forms that the
\* lemmas about folds are about.
Adding(q, S, f)      == [x \in S |-> [v \in Field(q) |-> (f[x] + v) % q]]
Multiplying(q, S, f) == [x \in S |-> [v \in Field(q) |-> (f[x] * v) % q]]

\* Functions on the subsets agree if they do step by step.
LEMMA AgreeOnAll ==
  ASSUME NEW S, IsFiniteSet(S), NEW g, NEW h, g[{}] = h[{}],
         \A U \in SUBSET S : U # {} /\ g[U \ {OneOf(U)}] = h[U \ {OneOf(U)}] => g[U] = h[U]
  PROVE  g[S] = h[S]
<1> DEFINE P == {U \in SUBSET S : g[U] = h[U]}
<1>1. ASSUME NEW U \in SUBSET S, \A W \in SUBSET U : W # U => W \in P
      PROVE  U \in P
  <2>1. CASE U = {}
    BY <2>1
  <2>2. CASE U # {}
    <3>1. OneOf(U) \in U
      BY <2>2 DEF OneOf
    <3> DEFINE W == U \ {OneOf(U)}
    <3>2. W \in SUBSET U /\ W # U
      BY <3>1
    <3>3. g[W] = h[W]
      BY <1>1, <3>2
    <3> QED
      BY <2>2, <3>3
  <2> QED
    BY <2>1, <2>2
<1> HIDE DEF P
<1>2. S \in P
  BY <1>1, SubsetInduction
<1> QED
  BY <1>2 DEF P

Sums(q, S, f) == {h \in FoldsOver(S, Field(q), 0, Adding(q, S, f)) : SumOver(q, f) = h[S]}

\* A sum is what the fold comes to over the whole set.
LEMMA SumFolds ==
  ASSUME NEW q \in Nat \ {0}, NEW S, IsFiniteSet(S), NEW f \in [S -> Int]
  PROVE  Sums(q, S, f) # {}
<1> DEFINE Is(h) == h = [s \in SUBSET S |-> IF s = {} THEN 0
                          ELSE LET x == CHOOSE x \in s : TRUE IN (f[x] + h[s \ {x}]) % q]
           iter == CHOOSE h : Is(h)
           step == Adding(q, S, f)
<1>1. SumOver(q, f) = iter[S]
  BY DEF SumOver, FoldFunction, FoldFunctionOnSet, MapThenFoldSet
<1>2. step \in [S -> [Field(q) -> Field(q)]] /\ 0 \in Field(q)
  <2>1. \A x \in S, v \in Field(q) : f[x] + v \in Int
    BY DEF Field
  <2>2. \A x \in S, v \in Field(q) : (f[x] + v) % q \in Field(q)
    BY <2>1, Remainder
  <2> QED
    BY <2>2 DEF Adding, Field
<1>3. PICK h \in [SUBSET S -> Field(q)] : Folded(S, 0, step, h)
  <2> HIDE DEF step
  <2> QED
    BY <1>2, FoldExists
<1>4. ASSUME NEW s \in SUBSET S, s # {} PROVE h[s] = (f[OneOf(s)] + h[s \ {OneOf(s)}]) % q
  <2>1. OneOf(s) \in S /\ s \ {OneOf(s)} \in SUBSET S
    BY <1>4 DEF OneOf
  <2>2. h[s] = step[OneOf(s)][h[s \ {OneOf(s)}]] /\ h[s \ {OneOf(s)}] \in Field(q)
    BY <1>3, <1>4, <2>1 DEF Folded
  <2> QED
    BY <2>1, <2>2 DEF Adding
<1>5. h[{}] = 0
  BY <1>3 DEF Folded
<1>6. Is(h)
  BY <1>4, <1>5 DEF OneOf
<1>7. Is(iter)
  BY <1>6
<1> HIDE DEF iter, step
<1>8. iter[{}] = 0 /\ \A s \in SUBSET S : s # {} => iter[s] = (f[OneOf(s)] + iter[s \ {OneOf(s)}]) % q
  BY <1>7 DEF OneOf
<1>9. iter[S] = h[S]
  <2>1. ASSUME NEW U \in SUBSET S, U # {}, iter[U \ {OneOf(U)}] = h[U \ {OneOf(U)}]
        PROVE  iter[U] = h[U]
    BY <1>4, <1>8, <2>1
  <2>2. iter[{}] = h[{}]
    BY <1>5, <1>8
  <2> QED
    BY <2>1, <2>2, AgreeOnAll
<1> QED
  BY <1>1, <1>3, <1>9 DEF step, Sums, FoldsOver

\* The sum of none, and the sum without one of its parts.
LEMMA SumNone ==
  ASSUME NEW q \in Nat \ {0}, NEW f \in [{} -> Int]
  PROVE  SumOver(q, f) = 0
<1>1. IsFiniteSet({})
  BY FS_EmptySet
<1>2. PICK h \in Sums(q, {}, f) : TRUE
  BY <1>1, SumFolds
<1> QED
  BY <1>2 DEF Sums, FoldsOver, Folded

\* Any one number can be taken out of a sum.
LEMMA SumOne ==
  ASSUME NEW q \in Nat \ {0}, NEW S, IsFiniteSet(S), NEW f \in [S -> Int], NEW a \in S
  PROVE  /\ SumOver(q, f) \in Field(q)
         /\ SumOver(q, [x \in S \ {a} |-> f[x]]) \in Field(q)
         /\ Same(q, SumOver(q, f), f[a] + SumOver(q, [x \in S \ {a} |-> f[x]]))
<1> DEFINE T == S \ {a}
           g == [x \in T |-> f[x]]
           step == Adding(q, S, f)
           other == Adding(q, T, g)
<1>1. IsFiniteSet(T) /\ T \in SUBSET S
  BY FS_RemoveElement
<1>2. g \in [T -> Int] /\ \A x \in T : g[x] = f[x]
  OBVIOUS
<1>3. \A x \in T : step[x] = other[x]
  BY <1>1, <1>2 DEF Adding
<1>9. \A x \in S : \A v \in Field(q) : step[x][v] = (f[x] + v) % q /\ step[x][v] \in Field(q)
                                     /\ f[x] + v \in Int
  <2>1. \A x \in S, v \in Field(q) : f[x] + v \in Int
    BY DEF Field
  <2>2. \A x \in S, v \in Field(q) : (f[x] + v) % q \in Field(q)
    BY <2>1, Remainder
  <2>3. \A x \in S : \A v \in Field(q) : step[x][v] = (f[x] + v) % q
    BY DEF Adding
  <2> HIDE DEF step
  <2> QED
    BY <2>1, <2>2, <2>3
<1>10. step \in [S -> [Field(q) -> Field(q)]]
  <2>1. step = [x \in S |-> step[x]] /\ \A x \in S : step[x] = [v \in Field(q) |-> step[x][v]]
    BY DEF Adding
  <2> HIDE DEF step
  <2> QED
    BY <1>9, <2>1
<1> HIDE DEF T, g, step, other
<1>4. PICK h \in FoldsOver(S, Field(q), 0, step) : SumOver(q, f) = h[S]
  <2>1. Sums(q, S, f) # {}
    BY SumFolds
  <2> QED
    BY <2>1 DEF Sums, step
<1>5. PICK k \in FoldsOver(T, Field(q), 0, other) : SumOver(q, g) = k[T]
  <2>1. Sums(q, T, g) # {}
    BY <1>1, <1>2, SumFolds
  <2> QED
    BY <2>1 DEF Sums, other
<1>14. h \in [SUBSET S -> Field(q)] /\ Folded(S, 0, step, h) /\ k \in [SUBSET T -> Field(q)] /\ Folded(T, 0, other, k)
  BY DEF FoldsOver
<1>6. h[T] = k[T]
  BY <1>1, <1>3, <1>14, SameFold
<1>7. ASSUME NEW x \in S, NEW y \in S, NEW v \in Field(q)
      PROVE  step[x][step[y][v]] = step[y][step[x][v]]
  <2> DEFINE r == (f[y] + v) % q
             s == (f[x] + v) % q
  <2>1. f[x] \in Int /\ f[y] \in Int /\ v \in Int /\ f[x] + v \in Int /\ f[y] + v \in Int
    BY DEF Field
  <2>2. r \in Field(q) /\ r \in Int /\ Same(q, r, f[y] + v) /\ s \in Field(q) /\ s \in Int /\ Same(q, s, f[x] + v)
    BY <2>1, Remainder
  <2>3. step[x][step[y][v]] = (f[x] + r) % q /\ step[y][step[x][v]] = (f[y] + s) % q
    BY <1>9, <2>2
  <2> HIDE DEF r, s
  <2>4. Same(q, f[x] + r, f[x] + (f[y] + v)) /\ Same(q, f[y] + s, f[y] + (f[x] + v))
    BY <2>1, <2>2, SameItself, SameSum
  <2>5. f[x] + (f[y] + v) = f[y] + (f[x] + v)
    BY <2>1
  <2> DEFINE t == f[x] + r
             u == f[y] + s
             w == f[y] + (f[x] + v)
  <2>6. t \in Int /\ u \in Int /\ w \in Int /\ Same(q, t, w) /\ Same(q, u, w)
    BY <2>1, <2>2, <2>4, <2>5
  <2> HIDE DEF t, u, w
  <2>7. t % q = u % q
    BY <2>6, SameRemainder
  <2> QED
    BY <2>3, <2>7 DEF t, u
<1>8. h[S] = step[a][h[T]]
  <2>1. Commuting(S, Field(q), step)
    BY <1>7, <1>10 DEF Commuting
  <2>2. h[S] = step[a][h[S \ {a}]]
    BY <2>1, FoldAny
  <2> QED
    BY <2>2 DEF T
<1>11. SumOver(q, f) \in Field(q) /\ SumOver(q, g) \in Field(q)
  BY <1>1, <1>4, <1>5, <1>14
<1>12. SumOver(q, f) = (f[a] + SumOver(q, g)) % q /\ f[a] + SumOver(q, g) \in Int
  BY <1>4, <1>5, <1>6, <1>8, <1>9, <1>11, <1>14
<1>13. Same(q, SumOver(q, f), f[a] + SumOver(q, g))
  BY <1>12, Remainder
<1> QED
  BY <1>11, <1>13 DEF g, T

-----------------------------------------------------------------------------
(* Products.                                                               *)

Products(q, S, f) == {h \in FoldsOver(S, Field(q), 1, Multiplying(q, S, f)) : ProductOver(q, f) = h[S]}

\* A product is what the fold comes to over the whole set.
LEMMA ProductFolds ==
  ASSUME NEW q \in Nat \ {0, 1}, NEW S, IsFiniteSet(S), NEW f \in [S -> Int]
  PROVE  Products(q, S, f) # {}
<1> DEFINE Is(h) == h = [s \in SUBSET S |-> IF s = {} THEN 1
                          ELSE LET x == CHOOSE x \in s : TRUE IN (f[x] * h[s \ {x}]) % q]
           iter == CHOOSE h : Is(h)
           step == Multiplying(q, S, f)
<1>1. ProductOver(q, f) = iter[S]
  BY DEF ProductOver, FoldFunction, FoldFunctionOnSet, MapThenFoldSet
<1>2. step \in [S -> [Field(q) -> Field(q)]] /\ 1 \in Field(q)
  <2>1. \A x \in S, v \in Field(q) : f[x] * v \in Int
    BY DEF Field
  <2>2. \A x \in S, v \in Field(q) : (f[x] * v) % q \in Field(q)
    BY <2>1, Remainder
  <2> QED
    BY <2>2 DEF Multiplying, Field
<1>3. PICK h \in [SUBSET S -> Field(q)] : Folded(S, 1, step, h)
  <2> HIDE DEF step
  <2> QED
    BY <1>2, FoldExists
<1>4. ASSUME NEW s \in SUBSET S, s # {} PROVE h[s] = (f[OneOf(s)] * h[s \ {OneOf(s)}]) % q
  <2>1. OneOf(s) \in S /\ s \ {OneOf(s)} \in SUBSET S
    BY <1>4 DEF OneOf
  <2>2. h[s] = step[OneOf(s)][h[s \ {OneOf(s)}]] /\ h[s \ {OneOf(s)}] \in Field(q)
    BY <1>3, <1>4, <2>1 DEF Folded
  <2> QED
    BY <2>1, <2>2 DEF Multiplying
<1>5. h[{}] = 1
  BY <1>3 DEF Folded
<1>6. Is(h)
  BY <1>4, <1>5 DEF OneOf
<1>7. Is(iter)
  BY <1>6
<1> HIDE DEF iter, step
<1>8. iter[{}] = 1 /\ \A s \in SUBSET S : s # {} => iter[s] = (f[OneOf(s)] * iter[s \ {OneOf(s)}]) % q
  BY <1>7 DEF OneOf
<1>9. iter[S] = h[S]
  <2>1. ASSUME NEW U \in SUBSET S, U # {}, iter[U \ {OneOf(U)}] = h[U \ {OneOf(U)}]
        PROVE  iter[U] = h[U]
    BY <1>4, <1>8, <2>1
  <2>2. iter[{}] = h[{}]
    BY <1>5, <1>8
  <2> QED
    BY <2>1, <2>2, AgreeOnAll
<1> QED
  BY <1>1, <1>3, <1>9 DEF step, Products, FoldsOver

\* The product of none, and the product without one of its parts.
LEMMA ProductNone ==
  ASSUME NEW q \in Nat \ {0, 1}, NEW f \in [{} -> Int]
  PROVE  ProductOver(q, f) = 1
<1>1. IsFiniteSet({})
  BY FS_EmptySet
<1>2. PICK h \in Products(q, {}, f) : TRUE
  BY <1>1, ProductFolds
<1> QED
  BY <1>2 DEF Products, FoldsOver, Folded

\* Any one factor can be taken out of a product.
LEMMA ProductOne ==
  ASSUME NEW q \in Nat \ {0, 1}, NEW S, IsFiniteSet(S), NEW f \in [S -> Int], NEW a \in S
  PROVE  /\ ProductOver(q, f) \in Field(q)
         /\ ProductOver(q, [x \in S \ {a} |-> f[x]]) \in Field(q)
         /\ Same(q, ProductOver(q, f), f[a] * ProductOver(q, [x \in S \ {a} |-> f[x]]))
<1> DEFINE T == S \ {a}
           g == [x \in T |-> f[x]]
           step == Multiplying(q, S, f)
           other == Multiplying(q, T, g)
<1>1. IsFiniteSet(T) /\ T \in SUBSET S
  BY FS_RemoveElement
<1>2. g \in [T -> Int] /\ \A x \in T : g[x] = f[x]
  OBVIOUS
<1>3. \A x \in T : step[x] = other[x]
  BY <1>1, <1>2 DEF Multiplying
<1>9. \A x \in S : \A v \in Field(q) : step[x][v] = (f[x] * v) % q /\ step[x][v] \in Field(q)
                                     /\ f[x] * v \in Int
  <2>1. \A x \in S, v \in Field(q) : f[x] * v \in Int
    BY DEF Field
  <2>2. \A x \in S, v \in Field(q) : (f[x] * v) % q \in Field(q)
    BY <2>1, Remainder
  <2>3. \A x \in S : \A v \in Field(q) : step[x][v] = (f[x] * v) % q
    BY DEF Multiplying
  <2> HIDE DEF step
  <2> QED
    BY <2>1, <2>2, <2>3
<1>10. step \in [S -> [Field(q) -> Field(q)]]
  <2>1. step = [x \in S |-> step[x]] /\ \A x \in S : step[x] = [v \in Field(q) |-> step[x][v]]
    BY DEF Multiplying
  <2> HIDE DEF step
  <2> QED
    BY <1>9, <2>1
<1> HIDE DEF T, g, step, other
<1>4. PICK h \in FoldsOver(S, Field(q), 1, step) : ProductOver(q, f) = h[S]
  <2>1. Products(q, S, f) # {}
    BY ProductFolds
  <2> QED
    BY <2>1 DEF Products, step
<1>5. PICK k \in FoldsOver(T, Field(q), 1, other) : ProductOver(q, g) = k[T]
  <2>1. Products(q, T, g) # {}
    BY <1>1, <1>2, ProductFolds
  <2> QED
    BY <2>1 DEF Products, other
<1>14. h \in [SUBSET S -> Field(q)] /\ Folded(S, 1, step, h) /\ k \in [SUBSET T -> Field(q)] /\ Folded(T, 1, other, k)
  BY DEF FoldsOver
<1>6. h[T] = k[T]
  BY <1>1, <1>3, <1>14, SameFold
<1>7. ASSUME NEW x \in S, NEW y \in S, NEW v \in Field(q)
      PROVE  step[x][step[y][v]] = step[y][step[x][v]]
  <2> DEFINE r == (f[y] * v) % q
             s == (f[x] * v) % q
  <2>1. f[x] \in Int /\ f[y] \in Int /\ v \in Int /\ f[x] * v \in Int /\ f[y] * v \in Int
    BY DEF Field
  <2>2. r \in Field(q) /\ r \in Int /\ Same(q, r, f[y] * v) /\ s \in Field(q) /\ s \in Int /\ Same(q, s, f[x] * v)
    BY <2>1, Remainder
  <2>3. step[x][step[y][v]] = (f[x] * r) % q /\ step[y][step[x][v]] = (f[y] * s) % q
    BY <1>9, <2>2
  <2> HIDE DEF r, s
  <2>4. Same(q, f[x] * r, f[x] * (f[y] * v)) /\ Same(q, f[y] * s, f[y] * (f[x] * v))
    BY <2>1, <2>2, SameItself, SameProduct
  <2>5. f[x] * (f[y] * v) = f[y] * (f[x] * v)
    BY <2>1
  <2> DEFINE t == f[x] * r
             u == f[y] * s
             w == f[y] * (f[x] * v)
  <2>6. t \in Int /\ u \in Int /\ w \in Int /\ Same(q, t, w) /\ Same(q, u, w)
    BY <2>1, <2>2, <2>4, <2>5
  <2> HIDE DEF t, u, w
  <2>7. t % q = u % q
    BY <2>6, SameRemainder
  <2> QED
    BY <2>3, <2>7 DEF t, u
<1>8. h[S] = step[a][h[T]]
  <2>1. Commuting(S, Field(q), step)
    BY <1>7, <1>10 DEF Commuting
  <2>2. h[S] = step[a][h[S \ {a}]]
    BY <2>1, FoldAny
  <2> QED
    BY <2>2 DEF T
<1>11. ProductOver(q, f) \in Field(q) /\ ProductOver(q, g) \in Field(q)
  BY <1>1, <1>4, <1>5, <1>14
<1>12. ProductOver(q, f) = (f[a] * ProductOver(q, g)) % q /\ f[a] * ProductOver(q, g) \in Int
  BY <1>4, <1>5, <1>6, <1>8, <1>9, <1>11, <1>14
<1>13. Same(q, ProductOver(q, f), f[a] * ProductOver(q, g))
  BY <1>12, Remainder
<1> QED
  BY <1>11, <1>13 DEF g, T

-----------------------------------------------------------------------------
(* The weights of the points.                                              *)

\* The field, its subsets and their elements.
LEMMA InField ==
  ASSUME NEW q, PrimeNumber(q)
  PROVE  /\ q \in Nat \ {0, 1} /\ q \in Nat \ {0} /\ q \in Nat /\ q \in Int
         /\ 0 \in Field(q) /\ 1 \in Field(q)
         /\ \A x \in Field(q) : x \in Int /\ x \in Nat
         /\ \A S \in SUBSET Field(q) : IsFiniteSet(S)
<1>1. q \in Nat \ {0, 1} /\ q \in Nat
  BY DEF PrimeNumber
<1>2. IsFiniteSet(Field(q))
  BY <1>1, FS_Interval DEF Field
<1>3. \A S \in SUBSET Field(q) : IsFiniteSet(S)
  BY <1>2, FS_Subset
<1>4. \A x \in Field(q) : x \in Int /\ x \in Nat
  BY <1>1 DEF Field
<1> QED
  BY <1>1, <1>3, <1>4 DEF Field

\* Without points the product of the differences is one.
LEMMA DifferencesNone ==
  ASSUME NEW q, PrimeNumber(q), NEW x \in Int
  PROVE  Differences(q, {}, x) = 1
<1>1. [p \in {} |-> x - p] \in [{} -> Int]
  OBVIOUS
<1> QED
  BY <1>1, InField, ProductNone DEF Differences

\* Any one point can be taken out of it.
LEMMA DifferencesOne ==
  ASSUME NEW q, PrimeNumber(q), NEW S \in SUBSET Field(q), NEW a \in S, NEW x \in Int
  PROVE  /\ Differences(q, S, x) \in Field(q) /\ Differences(q, S \ {a}, x) \in Field(q)
         /\ Same(q, Differences(q, S, x), (x - a) * Differences(q, S \ {a}, x))
<1> DEFINE f == [p \in S |-> x - p]
           g == [p \in S \ {a} |-> f[p]]
<1>1. q \in Nat \ {0, 1} /\ IsFiniteSet(S) /\ \A p \in S : p \in Int
  BY InField
<1>2. f \in [S -> Int] /\ f[a] = x - a
  BY <1>1
<1>3. g = [p \in S \ {a} |-> x - p]
  OBVIOUS
<1>4. Differences(q, S, x) = ProductOver(q, f)
  BY DEF Differences
<1>5. Differences(q, S \ {a}, x) = ProductOver(q, g)
  BY <1>3 DEF Differences
<1> HIDE DEF f
<1>6. ProductOver(q, f) \in Field(q) /\ ProductOver(q, g) \in Field(q) /\ Same(q, ProductOver(q, f), f[a] * ProductOver(q, g))
  BY <1>1, <1>2, ProductOne
<1> HIDE DEF g
<1> QED
  BY <1>2, <1>4, <1>5, <1>6

\* It is of the field.
LEMMA DifferencesType ==
  ASSUME NEW q, PrimeNumber(q), NEW S \in SUBSET Field(q), NEW x \in Int
  PROVE  Differences(q, S, x) \in Field(q)
<1>1. CASE S = {}
  BY <1>1, InField, DifferencesNone
<1>2. CASE S # {}
  <2>1. PICK a \in S : TRUE
    BY <1>2
  <2> QED
    BY DifferencesOne
<1> QED
  BY <1>1, <1>2

\* Two elements of the field differ by 0 only if they are one.
LEMMA Apart ==
  ASSUME NEW q, PrimeNumber(q), NEW a \in Field(q), NEW b \in Field(q), a # b
  PROVE  ~ Same(q, a, b) /\ ~ Same(q, a - b, 0)
<1>1. q \in Nat \ {0} /\ a \in Int /\ b \in Int
  BY InField
<1>2. ASSUME Same(q, a, b) PROVE FALSE
  BY <1>1, <1>2, SameRemainder, Small
<1>3. ASSUME Same(q, a - b, 0) PROVE FALSE
  <2>1. PICK d \in Int : a - b = 0 + q * d
    BY <1>3 DEF Same
  <2>2. a = b + q * d
    BY <1>1, <2>1
  <2>3. Same(q, a, b)
    BY <2>2 DEF Same
  <2> QED
    BY <1>2, <2>3
<1> QED
  BY <1>2, <1>3

\* A product of differences is not 0 elsewhere.
LEMMA DifferencesNotZero ==
  ASSUME NEW q, PrimeNumber(q), NEW S \in SUBSET Field(q), NEW x \in Field(q), x \notin S
  PROVE  ~ Same(q, Differences(q, S, x), 0)
<1> DEFINE P == {U \in SUBSET S : ~ Same(q, Differences(q, U, x), 0)}
<1>1. ASSUME NEW U \in SUBSET S, \A W \in SUBSET U : W # U => W \in P
      PROVE  U \in P
  <2>1. q \in Nat /\ x \in Int
    BY InField
  <2>2. CASE U = {}
    <3>1. Differences(q, {}, x) = 1 /\ 1 \in Field(q) /\ 0 \in Field(q)
      BY <2>1, DifferencesNone, InField
    <3>2. ~ Same(q, 1, 0)
      BY <3>1, Apart
    <3> QED
      BY <2>2, <3>1, <3>2
  <2>3. CASE U # {}
    <3>1. PICK a \in U : TRUE
      BY <2>3
    <3> DEFINE W == U \ {a}
               v == Differences(q, U, x)
               w == Differences(q, W, x)
               d == x - a
    <3>2. U \in SUBSET Field(q)
      OBVIOUS
    <3>3. W \in P
      BY <1>1
    <3>4. ~ Same(q, w, 0)
      BY <3>3
    <3>5. v \in Field(q) /\ w \in Field(q) /\ Same(q, v, d * w)
      BY <2>1, <3>2, DifferencesOne
    <3>6. a \in Field(q) /\ x # a
      OBVIOUS
    <3>7. ~ Same(q, d, 0)
      BY <3>6, Apart
    <3>10. a \in Int
      BY <3>6, InField
    <3>11. d \in Int
      BY <2>1, <3>10
    <3> HIDE DEF v, w, d
    <3>8. d \in Int /\ v \in Int /\ w \in Int /\ d * w \in Int
      BY <3>5, <3>11, InField
    <3>9. ASSUME Same(q, v, 0) PROVE FALSE
      <4>1. Same(q, d * w, v)
        BY <2>1, <3>5, <3>8, SameBack
      <4>2. Same(q, d * w, 0)
        BY <2>1, <3>8, <3>9, <4>1, SameOn
      <4>3. Same(q, w, 0)
        BY <3>7, <3>8, <4>2, NoZeroDivisors
      <4> QED
        BY <3>4, <4>3
    <3> QED
      BY <3>9 DEF v
  <2> QED
    BY <2>2, <2>3
<1>2. IsFiniteSet(S)
  BY InField
<1> HIDE DEF P
<1>3. S \in P
  BY <1>1, <1>2, SubsetInduction
<1> QED
  BY <1>3 DEF P

\* What a weight is: a quotient of two products.
LEMMA WeightIs ==
  ASSUME NEW q, PrimeNumber(q), NEW S \in SUBSET Field(q), NEW j \in S, NEW x \in Int
  PROVE  LET w == Weight(q, S, j, x)
             d == Differences(q, S \ {j}, j)
             n == Differences(q, S \ {j}, x)
         IN /\ w \in Field(q) /\ w \in Int /\ d \in Int /\ n \in Int
            /\ ~ Same(q, d, 0) /\ Same(q, w * d, n)
<1> DEFINE w == Weight(q, S, j, x)
           d == Differences(q, S \ {j}, j)
           n == Differences(q, S \ {j}, x)
           i == inverse(q, d)
           u == n * i
<1>1. q \in Nat \ {0} /\ q \in Nat /\ j \in Field(q) /\ j \in Int /\ S \ {j} \in SUBSET Field(q)
  BY InField
<1>2. d \in Int /\ n \in Int
  BY <1>1, DifferencesType, InField
<1>3. ~ Same(q, d, 0)
  BY <1>1, DifferencesNotZero
<1>4. w = u % q
  BY DEF Weight
<1> HIDE DEF w, n, d
<1>5. i \in Int /\ Same(q, d * i, 1)
  BY <1>2, <1>3, InverseIs
<1> HIDE DEF i
<1>6. u \in Int
  BY <1>2, <1>5
<1> HIDE DEF u
<1>7. w \in Field(q) /\ w \in Int /\ Same(q, w, u)
  BY <1>1, <1>4, <1>6, Remainder
<1>8. Same(q, w * d, n)
  <2>1. PICK e \in Int : w = u + q * e
    BY <1>7 DEF Same
  <2>2. PICK f \in Int : d * i = 1 + q * f
    BY <1>5 DEF Same
  <2>3. w * d = n * (d * i) + q * (e * d)
    <3>1. u = n * i
      BY DEF u
    <3>2. (n * i + q * e) * d = n * (d * i) + q * (e * d)
      BY <1>1, <1>2, <1>5
    <3> QED
      BY <2>1, <3>1, <3>2
  <2>4. n * (1 + q * f) + q * (e * d) = n + q * (n * f + e * d)
    BY <1>1, <1>2
  <2>5. w * d = n + q * (n * f + e * d) /\ n * f + e * d \in Int
    BY <1>2, <2>2, <2>3, <2>4
  <2> QED
    BY <2>5 DEF Same
<1> QED
  BY <1>2, <1>3, <1>7, <1>8 DEF w, n, d

\* One point less.
LEMMA WeightLess ==
  ASSUME NEW q, PrimeNumber(q), NEW S \in SUBSET Field(q), NEW i \in S, NEW a \in S, i # a, NEW x \in Int
  PROVE  Same(q, (i - a) * Weight(q, S, i, x), (x - a) * Weight(q, S \ {a}, i, x))
<1> DEFINE R == S \ {i}
           T == S \ {a}
           w == Weight(q, S, i, x)
           v == Weight(q, T, i, x)
           d == Differences(q, R, i)
           n == Differences(q, R, x)
           c == Differences(q, R \ {a}, i)
           m == Differences(q, R \ {a}, x)
           r == i - a
           s == x - a
<1>1. q \in Nat /\ q \in Int /\ i \in Int /\ a \in Int /\ R \in SUBSET Field(q) /\ T \in SUBSET Field(q)
  BY InField
<1>2. i \in T /\ a \in R /\ T \ {i} = R \ {a}
  OBVIOUS
<1>3. w \in Int /\ Same(q, w * d, n)
  BY WeightIs
<1>4. v \in Int /\ ~ Same(q, c, 0) /\ Same(q, v * c, m)
  <2>1. Same(q, v * Differences(q, T \ {i}, i), Differences(q, T \ {i}, x)) /\ ~ Same(q, Differences(q, T \ {i}, i), 0) /\ v \in Int
    BY <1>1, <1>2, WeightIs
  <2> QED
    BY <1>2, <2>1
<1>5. d \in Field(q) /\ c \in Field(q) /\ Same(q, d, r * c)
  BY <1>1, <1>2, DifferencesOne
<1>6. n \in Field(q) /\ m \in Field(q) /\ Same(q, n, s * m)
  BY <1>1, <1>2, DifferencesOne
<1>16. r \in Int /\ s \in Int
  BY <1>1
<1> HIDE DEF w, v, d, n, c, m, r, s
<1>7. d \in Int /\ c \in Int /\ n \in Int /\ m \in Int /\ r \in Int /\ s \in Int
  BY <1>5, <1>6, <1>16, InField
<1>8. PICK e1 \in Int : w * d = n + q * e1
  BY <1>3 DEF Same
<1>9. PICK e2 \in Int : v * c = m + q * e2
  BY <1>4 DEF Same
<1>10. PICK e3 \in Int : d = r * c + q * e3
  BY <1>5 DEF Same
<1>11. PICK e4 \in Int : n = s * m + q * e4
  BY <1>6 DEF Same
<1> DEFINE y == r * w
           z == s * v
           e == e4 + e1 - w * e3 - s * e2
<1>12. y \in Int /\ z \in Int /\ e \in Int
  BY <1>3, <1>4, <1>7
<1>13. y * c = z * c + q * e
  <2>1. (r * w) * c = w * (r * c) /\ (s * v) * c = s * (v * c)
    BY <1>3, <1>4, <1>7
  <2>2. r * c = d - q * e3 /\ w * (d - q * e3) = w * d - q * (w * e3)
    BY <1>1, <1>3, <1>7, <1>10
  <2>3. w * d - q * (w * e3) = s * m + q * (e4 + e1 - w * e3)
    BY <1>1, <1>3, <1>7, <1>8, <1>11
  <2>4. s * (v * c) = s * m + q * (s * e2)
    BY <1>1, <1>4, <1>7, <1>9
  <2>5. s * m + q * (e4 + e1 - w * e3) = (s * m + q * (s * e2)) + q * e
    BY <1>1, <1>3, <1>7
  <2> QED
    BY <2>1, <2>2, <2>3, <2>4, <2>5
<1> HIDE DEF y, z, e
<1>14. Same(q, y * c, z * c)
  BY <1>12, <1>13 DEF Same
<1>15. Same(q, y, z)
  BY <1>4, <1>7, <1>12, <1>14, Cancel
<1> QED
  BY <1>15 DEF y, z, r, s, w, v

-----------------------------------------------------------------------------
(* What goes through some values.                                          *)

\* The part of a function on T.
On(f, T) == [x \in T |-> f[x]]

\* A number can be taken out of the sum over a part.
LEMMA SumPart ==
  ASSUME NEW q \in Nat \ {0}, NEW S, IsFiniteSet(S), NEW f \in [S -> Int], NEW T \in SUBSET S, NEW a \in T
  PROVE  /\ SumOver(q, On(f, T)) \in Field(q) /\ SumOver(q, On(f, T \ {a})) \in Field(q)
         /\ Same(q, SumOver(q, On(f, T)), f[a] + SumOver(q, On(f, T \ {a})))
<1> DEFINE g == On(f, T)
<1>1. IsFiniteSet(T)
  BY FS_Subset
<1>2. g \in [T -> Int] /\ g[a] = f[a]
  BY DEF On
<1>3. [x \in T \ {a} |-> g[x]] = On(f, T \ {a})
  BY DEF On
<1> HIDE DEF g
<1>4. /\ SumOver(q, g) \in Field(q) /\ SumOver(q, [x \in T \ {a} |-> g[x]]) \in Field(q)
      /\ Same(q, SumOver(q, g), g[a] + SumOver(q, [x \in T \ {a} |-> g[x]]))
  BY <1>1, <1>2, SumOne
<1> QED
  BY <1>2, <1>3, <1>4 DEF g

\* A sum is of the field.
LEMMA SumType ==
  ASSUME NEW q \in Nat \ {0}, NEW S, IsFiniteSet(S), NEW f \in [S -> Int]
  PROVE  SumOver(q, f) \in Field(q) /\ SumOver(q, f) \in Int
<1>1. SumOver(q, f) \in Field(q)
  <2>1. CASE S = {}
    <3>1. f \in [{} -> Int]
      BY <2>1
    <3>2. SumOver(q, f) = 0
      BY <3>1, SumNone
    <3> QED
      BY <3>2 DEF Field
  <2>2. CASE S # {}
    <3>1. PICK a \in S : TRUE
      BY <2>2
    <3> QED
      BY SumOne
  <2> QED
    BY <2>1, <2>2
<1> QED
  BY <1>1 DEF Field

\* A sum of combinations is the combination of the sums.
LEMMA SumCombined ==
  ASSUME NEW q \in Nat \ {0}, NEW S, IsFiniteSet(S), NEW f \in [S -> Int], NEW g \in [S -> Int],
         NEW h \in [S -> Int], NEW c \in Int, NEW d \in Int,
         \A x \in S : Same(q, h[x], c * f[x] + d * g[x])
  PROVE  Same(q, SumOver(q, h), c * SumOver(q, f) + d * SumOver(q, g))
<1> DEFINE F(T) == SumOver(q, On(f, T))
           G(T) == SumOver(q, On(g, T))
           H(T) == SumOver(q, On(h, T))
           P == {T \in SUBSET S : Same(q, H(T), c * F(T) + d * G(T))}
<1>1. ASSUME NEW T \in SUBSET S, \A W \in SUBSET T : W # T => W \in P
      PROVE  T \in P
  <2>1. CASE T = {}
    <3>1. On(f, {}) \in [{} -> Int] /\ On(g, {}) \in [{} -> Int] /\ On(h, {}) \in [{} -> Int]
      BY DEF On
    <3>2. F({}) = 0 /\ G({}) = 0 /\ H({}) = 0
      BY <3>1, SumNone
    <3> HIDE DEF F, G, H
    <3>3. c * 0 + d * 0 = 0
      OBVIOUS
    <3>4. Same(q, 0, 0)
      BY SameItself
    <3> QED
      BY <2>1, <3>2, <3>3, <3>4
  <2>2. CASE T # {}
    <3>1. PICK a \in T : TRUE
      BY <2>2
    <3> DEFINE W == T \ {a}
               ft == F(T)
               fw == F(W)
               gt == G(T)
               gw == G(W)
               ht == H(T)
               hw == H(W)
    <3>2. W \in P
      BY <1>1
    <3>3. Same(q, hw, c * fw + d * gw)
      BY <3>2
    <3>4. ft \in Field(q) /\ fw \in Field(q) /\ Same(q, ft, f[a] + fw)
      BY SumPart
    <3>5. gt \in Field(q) /\ gw \in Field(q) /\ Same(q, gt, g[a] + gw)
      BY SumPart
    <3>6. ht \in Field(q) /\ hw \in Field(q) /\ Same(q, ht, h[a] + hw)
      BY SumPart
    <3>7. Same(q, h[a], c * f[a] + d * g[a]) /\ f[a] \in Int /\ g[a] \in Int /\ h[a] \in Int
      OBVIOUS
    <3> DEFINE fa == f[a]
               ga == g[a]
               ha == h[a]
    <3> HIDE DEF ft, fw, gt, gw, ht, hw, fa, ga, ha
    <3>8. /\ ft \in Int /\ fw \in Int /\ gt \in Int /\ gw \in Int /\ ht \in Int /\ hw \in Int
          /\ fa \in Int /\ ga \in Int /\ ha \in Int
      BY <3>4, <3>5, <3>6, <3>7 DEF Field, fa, ga, ha
    <3>9. PICK e1 \in Int : hw = c * fw + d * gw + q * e1
      BY <3>3 DEF Same
    <3>10. PICK e2 \in Int : ft = fa + fw + q * e2
      BY <3>4 DEF Same, fa
    <3>11. PICK e3 \in Int : gt = ga + gw + q * e3
      BY <3>5 DEF Same, ga
    <3>12. PICK e4 \in Int : ht = ha + hw + q * e4
      BY <3>6 DEF Same, ha
    <3>13. PICK e5 \in Int : ha = c * fa + d * ga + q * e5
      BY <3>7 DEF Same, ha, fa, ga
    <3> DEFINE e == e1 + e4 + e5 - c * e2 - d * e3
    <3>14. ht = c * ft + d * gt + q * e
      <4>1. ht = (c * fa + d * ga + q * e5) + (c * fw + d * gw + q * e1) + q * e4
        BY <3>9, <3>12, <3>13
      <4>2. c * ft + d * gt = c * (fa + fw + q * e2) + d * (ga + gw + q * e3)
        BY <3>10, <3>11
      <4>3. (c * fa + d * ga + q * e5) + (c * fw + d * gw + q * e1) + q * e4
            = c * (fa + fw + q * e2) + d * (ga + gw + q * e3) + q * e
        BY <3>8
      <4> HIDE DEF e
      <4> QED
        BY <4>1, <4>2, <4>3
    <3>15. e \in Int
      BY <3>8
    <3> HIDE DEF e
    <3>16. Same(q, ht, c * ft + d * gt)
      BY <3>14, <3>15 DEF Same
    <3> QED
      BY <3>16 DEF ht, ft, gt
  <2> QED
    BY <2>1, <2>2
<1> HIDE DEF P
<1>2. S \in P
  BY <1>1, SubsetInduction
<1>3. On(f, S) = f /\ On(g, S) = g /\ On(h, S) = h
  BY DEF On
<1> QED
  BY <1>2, <1>3 DEF P

\* A factor can be taken out of a sum.
LEMMA SumScaled ==
  ASSUME NEW q \in Nat \ {0}, NEW S, IsFiniteSet(S), NEW f \in [S -> Int], NEW h \in [S -> Int],
         NEW c \in Int, \A x \in S : Same(q, h[x], c * f[x])
  PROVE  Same(q, SumOver(q, h), c * SumOver(q, f))
<1>1. PICK d \in Int : d = 0
  OBVIOUS
<1>2. ASSUME NEW x \in S PROVE Same(q, h[x], c * f[x] + d * f[x])
  <2>1. c * f[x] + d * f[x] = c * f[x]
    BY <1>1
  <2> QED
    BY <2>1
<1>3. Same(q, SumOver(q, h), c * SumOver(q, f) + d * SumOver(q, f))
  BY <1>2, SumCombined
<1>4. SumOver(q, f) \in Int
  BY SumType
<1>5. c * SumOver(q, f) + d * SumOver(q, f) = c * SumOver(q, f)
  BY <1>1, <1>4
<1> QED
  BY <1>3, <1>5

\* The value at x of the polynomial that has the values f at the points of S.
Through(q, S, f, x) == SumOver(q, [i \in S |-> f[i] * Weight(q, S, i, x)])

\* What goes through some values is of the field.
LEMMA ThroughType ==
  ASSUME NEW q, PrimeNumber(q), NEW S \in SUBSET Field(q), NEW f \in [Field(q) -> Int], NEW x \in Int
  PROVE  /\ [i \in S |-> f[i] * Weight(q, S, i, x)] \in [S -> Int]
         /\ Through(q, S, f, x) \in Field(q) /\ Through(q, S, f, x) \in Int
<1> DEFINE t == [i \in S |-> f[i] * Weight(q, S, i, x)]
<1>1. ASSUME NEW i \in S PROVE f[i] * Weight(q, S, i, x) \in Int
  <2>1. Weight(q, S, i, x) \in Int /\ f[i] \in Int
    BY WeightIs
  <2> QED
    BY <2>1
<1>2. t \in [S -> Int]
  BY <1>1
<1> HIDE DEF t
<1>3. IsFiniteSet(S) /\ q \in Nat \ {0}
  BY InField
<1>4. SumOver(q, t) \in Field(q) /\ SumOver(q, t) \in Int
  BY <1>2, <1>3, SumType
<1> QED
  BY <1>2, <1>4 DEF Through, t

\* The polynomial is the function itself if it is where one point is left out,
\* and then the same holds after a multiplication by i + c.
\* First what both have in common: the sum of (i - a) f[i] over S.
LEMMA ThroughLess ==
  ASSUME NEW q, PrimeNumber(q), NEW S \in SUBSET Field(q), NEW f \in [Field(q) -> Int], NEW x \in Int,
         NEW a \in S
  PROVE  LET h == [i \in Field(q) |-> (i - a) * f[i]]
         IN /\ h \in [Field(q) -> Int]
            /\ Same(q, Through(q, S, h, x), (x - a) * Through(q, S \ {a}, f, x))
<1> DEFINE R == S \ {a}
           h == [i \in Field(q) |-> (i - a) * f[i]]
           t == [i \in S |-> h[i] * Weight(q, S, i, x)]
           u == [i \in R |-> f[i] * Weight(q, R, i, x)]
           v == [i \in R |-> t[i]]
           s == x - a
<1>1. /\ q \in Nat \ {0} /\ q \in Nat /\ a \in Int /\ \A i \in Field(q) : i \in Int
      /\ R \in SUBSET Field(q) /\ IsFiniteSet(S) /\ IsFiniteSet(R)
  BY InField
<1>2. h \in [Field(q) -> Int]
  <2>1. \A i \in Field(q) : i - a \in Int /\ f[i] \in Int
    BY <1>1
  <2>2. \A i \in Field(q) : (i - a) * f[i] \in Int
    BY <2>1
  <2> QED
    BY <2>2
<1>3. t \in [S -> Int]
  <2> HIDE DEF h
  <2> QED
    BY <1>2, ThroughType
<1>4. u \in [R -> Int]
  BY <1>1, ThroughType
<1>5. v \in [R -> Int] /\ \A i \in R : v[i] = t[i]
  <2> HIDE DEF t
  <2> QED
    BY <1>3
<1>6. \A i \in R : Same(q, v[i], s * u[i])
  <2> SUFFICES ASSUME NEW i \in R PROVE Same(q, v[i], s * u[i])
    OBVIOUS
  <2> DEFINE w == Weight(q, S, i, x)
             z == Weight(q, R, i, x)
             y == f[i]
             b == i - a
  <2>1. i \in S /\ i # a /\ i \in Int /\ y \in Int
    BY <1>1
  <2>2. w \in Int /\ z \in Int
    BY <1>1, <2>1, WeightIs
  <2>3. Same(q, b * w, s * z)
    BY <2>1, WeightLess
  <2>4. v[i] = (b * y) * w /\ u[i] = y * z
    BY <1>5
  <2>5. b \in Int /\ s \in Int
    BY <1>1, <2>1
  <2> HIDE DEF w, z, y, b, s, v, u
  <2>6. Same(q, y * (b * w), y * (s * z))
    <3> DEFINE j == b * w
               k == s * z
    <3>1. j \in Int /\ k \in Int
      BY <2>2, <2>5
    <3>2. Same(q, j, k)
      BY <2>3
    <3> HIDE DEF j, k
    <3>3. Same(q, y * j, y * k)
      BY <1>1, <2>1, <3>1, <3>2, SameItself, SameProduct
    <3> QED
      BY <3>3 DEF j, k
  <2>7. (b * y) * w = y * (b * w) /\ s * (y * z) = y * (s * z)
    BY <2>1, <2>2, <2>5
  <2> QED
    BY <2>4, <2>6, <2>7
<1>7. t[a] = 0
  <2>1. h[a] = 0
    BY <1>1
  <2>2. Weight(q, S, a, x) \in Int
    BY WeightIs
  <2>3. t[a] = h[a] * Weight(q, S, a, x)
    OBVIOUS
  <2> HIDE DEF h, t
  <2> QED
    BY <2>1, <2>2, <2>3
<1>8. SumOver(q, t) = Through(q, S, h, x) /\ SumOver(q, u) = Through(q, R, f, x)
  BY DEF Through
<1>9. s \in Int
  BY <1>1
<1> HIDE DEF t, u, s
<1>10. SumOver(q, t) \in Field(q) /\ SumOver(q, v) \in Field(q) /\ Same(q, SumOver(q, t), t[a] + SumOver(q, v))
  BY <1>1, <1>3, SumOne
<1> HIDE DEF v, R
<1>11. Same(q, SumOver(q, v), s * SumOver(q, u))
  BY <1>1, <1>4, <1>5, <1>6, <1>9, SumScaled
<1>12. SumOver(q, u) \in Int /\ SumOver(q, t) \in Int /\ SumOver(q, v) \in Int
  BY <1>1, <1>3, <1>4, <1>5, SumType
<1> DEFINE st == SumOver(q, t)
           su == SumOver(q, u)
           sv == SumOver(q, v)
<1>13. t[a] + sv = sv /\ s * su \in Int
  BY <1>7, <1>9, <1>12
<1>14. Same(q, st, sv) /\ Same(q, sv, s * su) /\ st \in Int /\ sv \in Int /\ su \in Int
  BY <1>10, <1>11, <1>12, <1>13
<1> HIDE DEF st, su, sv
<1>15. Same(q, st, s * su)
  BY <1>1, <1>13, <1>14, SameOn
<1> QED
  BY <1>2, <1>8, <1>15 DEF st, su, s, R

-----------------------------------------------------------------------------
(* What is determined by n values.                                         *)

\* It is linear in the values.
LEMMA ThroughCombined ==
  ASSUME NEW q, PrimeNumber(q), NEW S \in SUBSET Field(q), NEW f \in [Field(q) -> Int],
         NEW g \in [Field(q) -> Int], NEW h \in [Field(q) -> Int], NEW c \in Int, NEW d \in Int, NEW x \in Int,
         \A i \in S : Same(q, h[i], c * f[i] + d * g[i])
  PROVE  Same(q, Through(q, S, h, x), c * Through(q, S, f, x) + d * Through(q, S, g, x))
<1> DEFINE F == [i \in S |-> f[i] * Weight(q, S, i, x)]
           G == [i \in S |-> g[i] * Weight(q, S, i, x)]
           H == [i \in S |-> h[i] * Weight(q, S, i, x)]
<1>1. F \in [S -> Int] /\ G \in [S -> Int] /\ H \in [S -> Int]
  BY ThroughType
<1>2. q \in Nat \ {0} /\ q \in Nat /\ q \in Int /\ IsFiniteSet(S)
  BY InField
<1>3. ASSUME NEW i \in S PROVE Same(q, H[i], c * F[i] + d * G[i])
  <2> DEFINE w == Weight(q, S, i, x)
             u == f[i]
             v == g[i]
             y == h[i]
  <2>1. w \in Int /\ u \in Int /\ v \in Int /\ y \in Int
    BY WeightIs
  <2>2. Same(q, y, c * u + d * v)
    OBVIOUS
  <2>3. H[i] = y * w /\ F[i] = u * w /\ G[i] = v * w
    OBVIOUS
  <2> HIDE DEF w, u, v, y, F, G, H
  <2>4. PICK e \in Int : y = c * u + d * v + q * e
    BY <2>2 DEF Same
  <2>5. y * w = c * (u * w) + d * (v * w) + q * (e * w)
    <3>1. (c * u + d * v + q * e) * w = c * (u * w) + d * (v * w) + q * (e * w)
      BY <1>2, <2>1
    <3> QED
      BY <2>4, <3>1
  <2>6. e * w \in Int
    BY <2>1
  <2>7. Same(q, y * w, c * (u * w) + d * (v * w))
    BY <2>5, <2>6 DEF Same
  <2> QED
    BY <2>3, <2>7
<1>4. Through(q, S, f, x) = SumOver(q, F) /\ Through(q, S, g, x) = SumOver(q, G) /\ Through(q, S, h, x) = SumOver(q, H)
  BY DEF Through
<1> HIDE DEF F, G, H
<1>5. Same(q, SumOver(q, H), c * SumOver(q, F) + d * SumOver(q, G))
  BY <1>1, <1>2, <1>3, SumCombined
<1> QED
  BY <1>4, <1>5

\* The functions that any n of their values determine.
Determined(q, n, f) ==
  /\ f \in [Field(q) -> Int]
  /\ \A S \in SUBSET Field(q), x \in Field(q) :
       Cardinality(S) >= n => Same(q, Through(q, S, f, x), f[x])

\* What n values determine can be added and scaled.
LEMMA DeterminedCombined ==
  ASSUME NEW q, PrimeNumber(q), NEW n \in Nat, NEW f, Determined(q, n, f), NEW g, Determined(q, n, g),
         NEW h \in [Field(q) -> Int], NEW c \in Int, NEW d \in Int,
         \A i \in Field(q) : Same(q, h[i], c * f[i] + d * g[i])
  PROVE  Determined(q, n, h)
<1>1. SUFFICES ASSUME NEW S \in SUBSET Field(q), NEW x \in Field(q), Cardinality(S) >= n
               PROVE  Same(q, Through(q, S, h, x), h[x])
  BY DEF Determined
<1>2. q \in Nat /\ q \in Int /\ x \in Int /\ f \in [Field(q) -> Int] /\ g \in [Field(q) -> Int]
  BY InField DEF Determined
<1> DEFINE H == Through(q, S, h, x)
           F == Through(q, S, f, x)
           G == Through(q, S, g, x)
           u == f[x]
           v == g[x]
           y == h[x]
<1>3. H \in Int /\ F \in Int /\ G \in Int /\ u \in Int /\ v \in Int /\ y \in Int
  BY <1>2, ThroughType
<1>4. Same(q, H, c * F + d * G)
  BY <1>2, ThroughCombined
<1>5. Same(q, F, u) /\ Same(q, G, v) /\ Same(q, y, c * u + d * v)
  BY <1>1 DEF Determined
<1> HIDE DEF H, F, G, u, v, y
<1>6. PICK e1 \in Int : H = c * F + d * G + q * e1
  BY <1>4 DEF Same
<1>7. PICK e2 \in Int : F = u + q * e2
  BY <1>5 DEF Same
<1>8. PICK e3 \in Int : G = v + q * e3
  BY <1>5 DEF Same
<1>9. PICK e4 \in Int : y = c * u + d * v + q * e4
  BY <1>5 DEF Same
<1> DEFINE e == c * e2 + d * e3 + e1 - e4
<1>10. H = y + q * e
  <2>1. c * (u + q * e2) + d * (v + q * e3) + q * e1 = (c * u + d * v + q * e4) + q * e
    BY <1>2, <1>3
  <2> HIDE DEF e
  <2> QED
    BY <1>6, <1>7, <1>8, <1>9, <2>1
<1>11. e \in Int
  OBVIOUS
<1> HIDE DEF e
<1>12. Same(q, H, y)
  BY <1>10, <1>11 DEF Same
<1> QED
  BY <1>12 DEF H, y

\* The constant is determined by any one value.
LEMMA DeterminedOne ==
  ASSUME NEW q, PrimeNumber(q)
  PROVE  Determined(q, 1, [i \in Field(q) |-> 1])
<1> DEFINE one == [i \in Field(q) |-> 1]
           P   == {S \in SUBSET Field(q) : S # {} => \A x \in Field(q) : Same(q, Through(q, S, one, x), 1)}
<1>0. /\ q \in Nat \ {0} /\ q \in Nat /\ q \in Int /\ \A i \in Field(q) : i \in Int
      /\ \A S \in SUBSET Field(q) : IsFiniteSet(S)
  BY InField
<1>1. one \in [Field(q) -> Int] /\ \A i \in Field(q) : one[i] = 1
  OBVIOUS
<1> HIDE DEF one
<1>2. ASSUME NEW S \in SUBSET Field(q), \A W \in SUBSET S : W # S => W \in P
      PROVE  S \in P
  <2> SUFFICES ASSUME S # {}, NEW x \in Field(q) PROVE Same(q, Through(q, S, one, x), 1)
    OBVIOUS
  <2>1. PICK a \in S : TRUE
    OBVIOUS
  <2> DEFINE v == Through(q, S, one, x)
  <2>2. a \in Int /\ x \in Int /\ v \in Int
    BY <1>0, <1>1, ThroughType
  <2>3. CASE S = {a}
    <3> DEFINE t == [i \in S |-> one[i] * Weight(q, S, i, x)]
               r == [i \in S \ {a} |-> t[i]]
               w == Weight(q, S, a, x)
    <3>1. t \in [S -> Int]
      BY <1>1, <2>2, ThroughType
    <3>2. w \in Int /\ Same(q, w * Differences(q, S \ {a}, a), Differences(q, S \ {a}, x))
      BY <2>2, WeightIs
    <3>3. S \ {a} = {}
      BY <2>3
    <3>4. Differences(q, S \ {a}, a) = 1 /\ Differences(q, S \ {a}, x) = 1
      BY <2>2, <3>3, DifferencesNone
    <3>5. t[a] = 1 * w
      BY <1>1
    <3>6. v = SumOver(q, t)
      BY DEF Through
    <3>10. r \in [{} -> Int]
      BY <3>3
    <3> HIDE DEF t, v, w
    <3>7. Same(q, SumOver(q, t), t[a] + SumOver(q, r))
      BY <1>0, <3>1, SumOne
    <3>8. SumOver(q, r) = 0
      BY <1>0, <3>10, SumNone
    <3> HIDE DEF r
    <3>9. t[a] + SumOver(q, r) = w /\ w * 1 = w
      BY <3>2, <3>5, <3>8
    <3>11. Same(q, v, w) /\ Same(q, w, 1) /\ 1 \in Int
      BY <3>2, <3>4, <3>6, <3>7, <3>9
    <3> QED
      BY <1>0, <2>2, <3>2, <3>11, SameOn DEF v
  <2>4. CASE S # {a}
    <3>1. PICK b \in S : b # a
      BY <2>4
    <3> DEFINE f == [i \in Field(q) |-> (i - a) * one[i]]
               g == [i \in Field(q) |-> (i - b) * one[i]]
               F == Through(q, S, f, x)
               G == Through(q, S, g, x)
               A == Through(q, S \ {a}, one, x)
               B == Through(q, S \ {b}, one, x)
               c == a - b
    <3>2. f \in [Field(q) -> Int] /\ Same(q, F, (x - a) * A)
      BY <1>1, <2>2, ThroughLess
    <3>3. g \in [Field(q) -> Int] /\ Same(q, G, (x - b) * B)
      BY <1>1, <2>2, ThroughLess
    <3>4. S \ {a} \in P /\ S \ {b} \in P /\ S \ {a} # {} /\ S \ {b} # {}
      BY <1>2, <2>1, <3>1
    <3>5. Same(q, A, 1) /\ Same(q, B, 1)
      BY <3>4
    <3>6. S \ {a} \in SUBSET Field(q) /\ S \ {b} \in SUBSET Field(q) /\ b \in Int
      BY <1>0
    <3>7. F \in Int /\ G \in Int /\ A \in Int /\ B \in Int
      BY <1>1, <2>2, <3>2, <3>3, <3>6, ThroughType
    <3>8. c \in Int
      BY <2>2, <3>6
    <3>9. ASSUME NEW i \in S PROVE Same(q, g[i], 1 * f[i] + c * one[i])
      <4>1. i \in Int /\ one[i] = 1 /\ f[i] = (i - a) * 1 /\ g[i] = (i - b) * 1
        BY <1>0, <1>1
      <4>2. 1 * f[i] + c * one[i] = g[i] /\ g[i] \in Int
        BY <2>2, <3>6, <4>1
      <4>3. Same(q, g[i], g[i])
        BY <1>0, <4>2, SameItself
      <4> QED
        BY <4>2, <4>3
    <3>14. ~ Same(q, c, 0)
      BY <3>1, Apart
    <3> HIDE DEF f, g, c
    <3>10. Same(q, G, 1 * F + c * v)
      BY <1>1, <2>2, <3>2, <3>3, <3>8, <3>9, ThroughCombined
    <3> HIDE DEF F, G, A, B, v
    <3>11. PICK e1 \in Int : F = (x - a) * A + q * e1
      BY <3>2 DEF Same
    <3>12. PICK e2 \in Int : G = (x - b) * B + q * e2
      BY <3>3 DEF Same
    <3>13. PICK e3 \in Int : A = 1 + q * e3
      BY <3>5 DEF Same
    <3>15. PICK e4 \in Int : B = 1 + q * e4
      BY <3>5 DEF Same
    <3>16. PICK e5 \in Int : G = 1 * F + c * v + q * e5
      BY <3>10 DEF Same
    <3> DEFINE e == (x - b) * e4 + e2 - (x - a) * e3 - e1 - e5
    <3>17. v * c = 1 * c + q * e
      <4>1. v * c = G - F - q * e5
        BY <1>0, <2>2, <3>7, <3>8, <3>16
      <4>2. G - F - q * e5 = ((x - b) * (1 + q * e4) + q * e2) - ((x - a) * (1 + q * e3) + q * e1) - q * e5
        BY <3>11, <3>12, <3>13, <3>15
      <4>3. ((x - b) * (1 + q * e4) + q * e2) - ((x - a) * (1 + q * e3) + q * e1) - q * e5
            = (a - b) + q * e
        BY <1>0, <2>2, <3>6
      <4>4. 1 * c = a - b
        BY <2>2, <3>6 DEF c
      <4> HIDE DEF e
      <4> QED
        BY <4>1, <4>2, <4>3, <4>4
    <3>18. e \in Int
      BY <2>2, <3>6
    <3> HIDE DEF e
    <3>19. Same(q, v * c, 1 * c)
      BY <3>17, <3>18 DEF Same
    <3>20. Same(q, v, 1)
      BY <2>2, <3>8, <3>14, <3>19, Cancel
    <3> QED
      BY <3>20 DEF v
  <2> QED
    BY <2>3, <2>4
<1> HIDE DEF P
<1>3. ASSUME NEW S \in SUBSET Field(q) PROVE S \in P
  <2>1. ASSUME NEW T \in SUBSET S, \A W \in SUBSET T : W # T => W \in P PROVE T \in P
    <3>1. T \in SUBSET Field(q)
      OBVIOUS
    <3> QED
      BY <1>2, <2>1, <3>1
  <2> QED
    BY <1>0, <2>1, SubsetInduction
<1>4. ASSUME NEW S \in SUBSET Field(q), NEW x \in Field(q), Cardinality(S) >= 1
      PROVE  Same(q, Through(q, S, one, x), one[x])
  <2>1. S # {}
    BY <1>4, FS_EmptySet
  <2> QED
    BY <1>1, <1>3, <2>1 DEF P
<1> QED
  BY <1>1, <1>4 DEF Determined, one

\* A product with i + c is determined by one value more.
LEMMA DeterminedTimes ==
  ASSUME NEW q, PrimeNumber(q), NEW n \in Nat, NEW f, Determined(q, n, f),
         NEW h \in [Field(q) -> Int], NEW c \in Int,
         \A i \in Field(q) : Same(q, h[i], (i + c) * f[i])
  PROVE  Determined(q, n + 1, h)
<1>1. SUFFICES ASSUME NEW S \in SUBSET Field(q), NEW x \in Field(q), Cardinality(S) >= n + 1
               PROVE  Same(q, Through(q, S, h, x), h[x])
  BY DEF Determined
<1>2. /\ q \in Nat /\ q \in Int /\ x \in Int /\ f \in [Field(q) -> Int] /\ IsFiniteSet(S)
      /\ \A i \in Field(q) : i \in Int
  BY InField DEF Determined
<1>3. S # {} /\ Cardinality(S) \in Nat
  BY <1>1, <1>2, FS_EmptySet, FS_CardinalityType
<1>4. PICK a \in S : TRUE
  BY <1>3
<1> DEFINE R == S \ {a}
           g == [i \in Field(q) |-> (i - a) * f[i]]
           H == Through(q, S, h, x)
           G == Through(q, S, g, x)
           F == Through(q, S, f, x)
           L == Through(q, R, f, x)
           u == f[x]
           y == h[x]
           d == a + c
<1>5. Cardinality(R) >= n /\ R \in SUBSET Field(q) /\ Cardinality(S) >= n
  <2>1. Cardinality(R) = Cardinality(S) - 1
    BY <1>2, FS_RemoveElement
  <2> HIDE DEF R
  <2>2. Cardinality(R) >= n /\ Cardinality(S) >= n
    BY <1>1, <1>3, <2>1
  <2> QED
    BY <2>2 DEF R
<1>6. Same(q, L, u) /\ Same(q, F, u)
  BY <1>5 DEF Determined
<1>7. g \in [Field(q) -> Int] /\ Same(q, G, (x - a) * L)
  BY <1>2, ThroughLess
<1>8. a \in Int /\ d \in Int
  BY <1>2
<1>9. ASSUME NEW i \in S PROVE Same(q, h[i], 1 * g[i] + d * f[i])
  <2>1. i \in Int /\ f[i] \in Int /\ g[i] = (i - a) * f[i] /\ Same(q, h[i], (i + c) * f[i])
    BY <1>2
  <2>2. 1 * ((i - a) * f[i]) + (a + c) * f[i] = (i + c) * f[i]
    BY <1>8, <2>1
  <2> QED
    BY <2>1, <2>2
<1>10. Same(q, y, (x + c) * u)
  OBVIOUS
<1> HIDE DEF g, d
<1>11. Same(q, H, 1 * G + d * F)
  BY <1>2, <1>7, <1>8, <1>9, ThroughCombined
<1>12. H \in Int /\ G \in Int /\ F \in Int
  BY <1>2, <1>7, ThroughType
<1>13. L \in Int /\ u \in Int /\ y \in Int
  BY <1>2, <1>5, ThroughType
<1> HIDE DEF H, G, F, L, u, y
<1>14. PICK e1 \in Int : L = u + q * e1
  BY <1>6 DEF Same
<1>15. PICK e2 \in Int : F = u + q * e2
  BY <1>6 DEF Same
<1>16. PICK e3 \in Int : G = (x - a) * L + q * e3
  BY <1>7 DEF Same
<1>17. PICK e4 \in Int : y = (x + c) * u + q * e4
  BY <1>10 DEF Same
<1>18. PICK e5 \in Int : H = 1 * G + d * F + q * e5
  BY <1>11 DEF Same
<1> DEFINE e == (x - a) * e1 + e3 + (a + c) * e2 + e5 - e4
<1>19. H = y + q * e
  <2>1. H = ((x - a) * (u + q * e1) + q * e3) + (a + c) * (u + q * e2) + q * e5
    BY <1>12, <1>14, <1>15, <1>16, <1>18 DEF d
  <2>2. ((x - a) * (u + q * e1) + q * e3) + (a + c) * (u + q * e2) + q * e5
        = ((x + c) * u + q * e4) + q * e
    BY <1>2, <1>8, <1>13
  <2> HIDE DEF e
  <2> QED
    BY <1>17, <2>1, <2>2
<1>20. e \in Int
  BY <1>2, <1>8
<1> HIDE DEF e
<1>21. Same(q, H, y)
  BY <1>19, <1>20 DEF Same
<1> QED
  BY <1>21 DEF H, y

-----------------------------------------------------------------------------
(* Polynomials are.                                                        *)

\* The powers of a number, one after the other.
LEMMA PowersIs ==
  ASSUME NEW q, PrimeNumber(q), NEW x \in Int
  PROVE  /\ Powers(q, x)[0] = 1 /\ \A n \in Nat : Powers(q, x)[n] \in Field(q) /\ Powers(q, x)[n] \in Int
         /\ \A n \in Nat \ {0} : Same(q, Powers(q, x)[n], Powers(q, x)[n - 1] * x)
<1> DEFINE step  == [v \in Field(q) |-> (v * x) % q]
           Is(h) == h = [n \in Nat |-> IF n = 0 THEN 1 ELSE (h[n - 1] * x) % q]
           all   == CHOOSE h : Is(h)
<1>0. q \in Nat \ {0} /\ 1 \in Field(q) /\ \A v \in Field(q) : v \in Int
  BY InField
<1>1. Powers(q, x) = all
  BY DEF Powers
<1>2. \A v \in Field(q) : v * x \in Int /\ (v * x) % q \in Field(q) /\ Same(q, (v * x) % q, v * x)
  <2> TAKE v \in Field(q)
  <2>1. v * x \in Int
    BY <1>0
  <2> QED
    BY <1>0, <2>1, Remainder
<1>3. step \in [Field(q) -> Field(q)] /\ \A v \in Field(q) : step[v] = (v * x) % q
  BY <1>2
<1> HIDE DEF step
<1>4. PICK g \in [Nat -> Field(q)] : g[0] = 1 /\ \A n \in Nat \ {0} : g[n] = step[g[n - 1]]
  <2>1. Onward(Field(q), 1, step) # {}
    BY <1>0, <1>3, BuiltOnward
  <2> QED
    BY <2>1 DEF Onward
<1>5. \A n \in Nat \ {0} : n - 1 \in Nat /\ g[n - 1] \in Field(q) /\ g[n] = (g[n - 1] * x) % q
  <2> TAKE n \in Nat \ {0}
  <2>1. n - 1 \in Nat
    OBVIOUS
  <2> QED
    BY <1>3, <1>4, <2>1
<1>6. Is(g)
  <2>1. g = [n \in Nat |-> g[n]]
    OBVIOUS
  <2> QED
    BY <1>4, <1>5, <2>1
<1>7. Is(all)
  BY <1>6
<1> HIDE DEF all
<1>8. all[0] = 1 /\ \A n \in Nat \ {0} : all[n] = (all[n - 1] * x) % q
  BY <1>7
<1>9. ASSUME NEW m \in Nat PROVE all[m] \in Field(q)
  <2> DEFINE P == {n \in 0 .. m : all[n] \in Field(q)}
  <2>1. 0 \in P
    BY <1>0, <1>8
  <2>2. ASSUME NEW n \in 1 .. m, n - 1 \in P PROVE n \in P
    <3>1. all[n - 1] \in Field(q) /\ n \in Nat \ {0}
      BY <2>2
    <3>2. all[n] = (all[n - 1] * x) % q
      BY <1>8, <3>1
    <3>3. all[n] \in Field(q)
      BY <1>2, <3>1, <3>2
    <3> QED
      BY <3>3
  <2> HIDE DEF P
  <2>3. 0 .. m \subseteq P
    BY <2>1, <2>2, UpTo
  <2>4. m \in P
    BY <2>3
  <2> QED
    BY <2>4 DEF P
<1>10. ASSUME NEW n \in Nat \ {0} PROVE Same(q, all[n], all[n - 1] * x)
  <2>1. n - 1 \in Nat
    OBVIOUS
  <2>2. all[n - 1] \in Field(q) /\ all[n] = (all[n - 1] * x) % q
    BY <1>8, <1>9, <2>1
  <2> QED
    BY <1>2, <2>2
<1> QED
  BY <1>0, <1>1, <1>8, <1>9, <1>10

\* Numbers that are the same have the same powers.
LEMMA PowersAlike ==
  ASSUME NEW q, PrimeNumber(q), NEW x \in Int, NEW y \in Int, Same(q, x, y), NEW m \in Nat
  PROVE  Powers(q, x)[m] = Powers(q, y)[m]
<1> DEFINE f == Powers(q, x)
           g == Powers(q, y)
           P == {n \in 0 .. m : f[n] = g[n]}
<1>0. q \in Nat \ {0} /\ q \in Nat
  BY InField
<1>1. /\ f[0] = 1 /\ \A n \in Nat : f[n] \in Field(q) /\ f[n] \in Int
      /\ \A n \in Nat \ {0} : Same(q, f[n], f[n - 1] * x)
      /\ g[0] = 1 /\ \A n \in Nat : g[n] \in Field(q) /\ g[n] \in Int
      /\ \A n \in Nat \ {0} : Same(q, g[n], g[n - 1] * y)
  BY PowersIs
<1> HIDE DEF f, g
<1>2. 0 \in P
  BY <1>1
<1>3. ASSUME NEW n \in 1 .. m, n - 1 \in P PROVE n \in P
  <2> DEFINE u == f[n]
             v == g[n]
             w == f[n - 1]
             r == w * x
             s == w * y
  <2>1. n \in Nat \ {0} /\ n \in Nat /\ n - 1 \in Nat
    OBVIOUS
  <2>2. u \in Field(q) /\ v \in Field(q) /\ u \in Int /\ v \in Int /\ w \in Int /\ w = g[n - 1]
    BY <1>1, <1>3, <2>1
  <2>3. Same(q, u, r) /\ Same(q, v, s)
    BY <1>1, <2>1, <2>2
  <2>4. Same(q, r, s)
    BY <1>0, <2>2, SameItself, SameProduct
  <2>5. r \in Int /\ s \in Int
    BY <2>2
  <2> HIDE DEF u, v, w, r, s
  <2>6. Same(q, u, s)
    BY <1>0, <2>2, <2>3, <2>4, <2>5, SameOn
  <2>7. u % q = s % q /\ v % q = s % q
    BY <1>0, <2>2, <2>3, <2>5, <2>6, SameRemainder
  <2>8. u = v
    BY <1>0, <2>2, <2>7, Small
  <2> QED
    BY <2>8 DEF u, v
<1> HIDE DEF P
<1>4. 0 .. m \subseteq P
  BY <1>2, <1>3, UpTo
<1>5. m \in P
  BY <1>4
<1> QED
  BY <1>5 DEF P, f, g

\* The coefficients of a polynomial, and its last one apart.
Coefficient(n) == [0 .. n - 1 -> Int]

\* The last term of a polynomial, and the others.
LEMMA PolynomialLast ==
  ASSUME NEW q, PrimeNumber(q), NEW n \in Nat, NEW a \in Coefficient(n + 1), NEW x \in Int
  PROVE  LET b == [m \in 0 .. n - 1 |-> a[m]]
         IN /\ b \in Coefficient(n) /\ a[n] \in Int
            /\ Polynomial(q, a, x) \in Field(q) /\ Polynomial(q, a, x) \in Int
            /\ Polynomial(q, b, x) \in Field(q) /\ Polynomial(q, b, x) \in Int
            /\ Same(q, Polynomial(q, a, x), a[n] * Powers(q, x)[n] + Polynomial(q, b, x))
<1> DEFINE b == [m \in 0 .. n - 1 |-> a[m]]
           S == 0 .. n
           p == Powers(q, x)
           t == [m \in S |-> a[m] * p[m]]
           u == [m \in S \ {n} |-> t[m]]
           v == [m \in 0 .. n - 1 |-> b[m] * p[m]]
<1>0. q \in Nat \ {0} /\ \A y \in Field(q) : y \in Int
  BY InField
<1>1. a \in [S -> Int] /\ (n + 1) - 1 = n /\ n \in S /\ DOMAIN a = S
  BY DEF Coefficient
<1>2. b \in Coefficient(n) /\ DOMAIN b = 0 .. n - 1 /\ \A m \in 0 .. n - 1 : b[m] = a[m] /\ m \in S
  BY <1>1 DEF Coefficient
<1>3. \A m \in S : p[m] \in Int
  BY PowersIs
<1>4. IsFiniteSet(S)
  BY FS_Interval
<1>5. S \ {n} = 0 .. n - 1
  OBVIOUS
<1>6. Polynomial(q, a, x) = SumOver(q, t)
  BY <1>1 DEF Polynomial
<1>7. Polynomial(q, b, x) = SumOver(q, v)
  BY <1>2 DEF Polynomial
<1> HIDE DEF b, p
<1>8. t \in [S -> Int] /\ t[n] = a[n] * p[n]
  <2>1. \A m \in S : a[m] * p[m] \in Int
    BY <1>1, <1>3
  <2> QED
    BY <1>1, <2>1
<1>9. u = v
  BY <1>2, <1>5
<1> HIDE DEF t, S, v
<1>10. SumOver(q, t) \in Field(q) /\ SumOver(q, u) \in Field(q) /\ Same(q, SumOver(q, t), t[n] + SumOver(q, u))
  BY <1>0, <1>1, <1>4, <1>8, SumOne
<1> HIDE DEF u
<1> QED
  BY <1>0, <1>1, <1>2, <1>6, <1>7, <1>8, <1>9, <1>10 DEF b, p

\* Without coefficients it is zero.
LEMMA PolynomialNone ==
  ASSUME NEW q, PrimeNumber(q), NEW a \in Coefficient(0), NEW x \in Int
  PROVE  Polynomial(q, a, x) = 0
<1>1. DOMAIN a = {}
  BY DEF Coefficient
<1> DEFINE t == [m \in DOMAIN a |-> a[m] * Powers(q, x)[m]]
<1>2. t \in [{} -> Int] /\ q \in Nat \ {0}
  BY <1>1, InField
<1>3. Polynomial(q, a, x) = SumOver(q, t)
  BY DEF Polynomial
<1> HIDE DEF t
<1> QED
  BY <1>2, <1>3, SumNone

\* The powers of i + c, and the polynomials in it, are determined by as many values as
\* they have coefficients.
PowerAt(q, c, m) == [i \in Field(q) |-> Powers(q, i + c)[m]]

\* A power m is determined by m + 1 of its values.
LEMMA DeterminedPower ==
  ASSUME NEW q, PrimeNumber(q), NEW c \in Int, NEW m \in Nat
  PROVE  Determined(q, m + 1, PowerAt(q, c, m))
<1> DEFINE P == {n \in 0 .. m : Determined(q, n + 1, PowerAt(q, c, n))}
<1>0. \A i \in Field(q) : i \in Int /\ i + c \in Int
  BY InField
<1>1. \A n \in Nat : PowerAt(q, c, n) \in [Field(q) -> Int]
  BY <1>0, PowersIs DEF PowerAt
<1>2. 0 \in P
  <2>1. PowerAt(q, c, 0) = [i \in Field(q) |-> 1]
    BY <1>0, PowersIs DEF PowerAt
  <2> QED
    BY <2>1, DeterminedOne
<1>3. ASSUME NEW n \in 1 .. m, n - 1 \in P PROVE n \in P
  <2> DEFINE f == PowerAt(q, c, n - 1)
             h == PowerAt(q, c, n)
  <2>1. n \in Nat \ {0} /\ n \in Nat /\ n - 1 \in Nat /\ (n - 1) + 1 = n
    OBVIOUS
  <2>2. Determined(q, n, f)
    BY <1>3, <2>1
  <2>3. ASSUME NEW i \in Field(q) PROVE Same(q, h[i], (i + c) * f[i])
    <3> DEFINE y == i + c
               p == Powers(q, y)
    <3>1. y \in Int
      BY <1>0
    <3>2. h[i] = p[n] /\ f[i] = p[n - 1]
      BY DEF PowerAt
    <3> HIDE DEF y
    <3>3. Same(q, p[n], p[n - 1] * y) /\ p[n - 1] \in Int
      BY <2>1, <3>1, PowersIs
    <3>4. p[n - 1] * y = y * p[n - 1]
      BY <3>1, <3>3
    <3> QED
      BY <3>2, <3>3, <3>4 DEF y
  <2>4. h \in [Field(q) -> Int]
    BY <1>1, <2>1
  <2> HIDE DEF f, h
  <2>5. Determined(q, n + 1, h)
    BY <2>1, <2>2, <2>3, <2>4, DeterminedTimes
  <2> QED
    BY <2>5 DEF h
<1> HIDE DEF P
<1>4. 0 .. m \subseteq P
  BY <1>2, <1>3, UpTo
<1>5. m \in P
  BY <1>4
<1> QED
  BY <1>5 DEF P

\* What some values determine, more of them do.
LEMMA DeterminedMore ==
  ASSUME NEW q, NEW n \in Nat, NEW m \in Nat, m >= n, NEW f, Determined(q, n, f), PrimeNumber(q)
  PROVE  Determined(q, m, f)
<1>1. ASSUME NEW S \in SUBSET Field(q), Cardinality(S) >= m PROVE Cardinality(S) >= n
  <2>1. Cardinality(S) \in Nat
    BY InField, FS_CardinalityType
  <2> QED
    BY <1>1, <2>1
<1> QED
  BY <1>1 DEF Determined

PolynomialAt(q, a, c) == [i \in Field(q) |-> Polynomial(q, a, i + c)]

\* A polynomial with n coefficients is determined by n of its values.
LEMMA DeterminedPolynomial ==
  ASSUME NEW q, PrimeNumber(q), NEW c \in Int, NEW n \in Nat \ {0}, NEW a \in Coefficient(n)
  PROVE  Determined(q, n, PolynomialAt(q, a, c))
<1> DEFINE part(m) == [l \in 0 .. m - 1 |-> a[l]]
           h(m) == PolynomialAt(q, part(m), c)
           P == {m \in 0 .. n - 1 : Determined(q, n, h(m + 1))}
<1>0. q \in Nat /\ \A i \in Field(q) : i \in Int /\ i + c \in Int
  BY InField
<1>1. ASSUME NEW m \in 0 .. n PROVE part(m) \in Coefficient(m)
  BY DEF Coefficient
<1>2. ASSUME NEW m \in 0 .. n - 1
      PROVE  /\ a[m] \in Int /\ h(m) \in [Field(q) -> Int] /\ h(m + 1) \in [Field(q) -> Int]
             /\ \A i \in Field(q) : Same(q, h(m + 1)[i], a[m] * PowerAt(q, c, m)[i] + h(m)[i])
  <2> DEFINE b == part(m + 1)
  <2>1. m \in Nat /\ m + 1 \in 0 .. n /\ (m + 1) - 1 = m
    OBVIOUS
  <2>2. b \in Coefficient(m + 1)
    BY <1>1, <2>1
  <2>3. b[m] = a[m] /\ [l \in 0 .. m - 1 |-> b[l]] = part(m)
    BY <2>1
  <2> HIDE DEF part
  <2>4. ASSUME NEW i \in Field(q)
        PROVE  /\ a[m] \in Int /\ h(m)[i] \in Int /\ h(m + 1)[i] \in Int
               /\ Same(q, h(m + 1)[i], a[m] * PowerAt(q, c, m)[i] + h(m)[i])
    <3> DEFINE y == i + c
    <3>1. y \in Int
      BY <1>0
    <3>2. h(m)[i] = Polynomial(q, part(m), y) /\ h(m + 1)[i] = Polynomial(q, b, y) /\ PowerAt(q, c, m)[i] = Powers(q, y)[m]
      BY DEF PolynomialAt, PowerAt
    <3> HIDE DEF y, b, h
    <3>3. /\ b[m] \in Int /\ Polynomial(q, b, y) \in Int /\ Polynomial(q, part(m), y) \in Int
          /\ Same(q, Polynomial(q, b, y), b[m] * Powers(q, y)[m] + Polynomial(q, part(m), y))
      BY <2>1, <2>2, <2>3, <3>1, PolynomialLast
    <3> QED
      BY <2>3, <3>2, <3>3
  <2>5. h(m) = [i \in Field(q) |-> h(m)[i]] /\ h(m + 1) = [i \in Field(q) |-> h(m + 1)[i]]
    BY DEF PolynomialAt
  <2>6. 0 \in Field(q)
    BY InField
  <2> HIDE DEF h
  <2> QED
    BY <2>4, <2>5, <2>6
<1>3. ASSUME NEW m \in 0 .. n - 1 PROVE Determined(q, n, PowerAt(q, c, m))
  <2>1. m \in Nat /\ m + 1 \in Nat /\ n >= m + 1 /\ n \in Nat
    OBVIOUS
  <2>2. Determined(q, m + 1, PowerAt(q, c, m))
    BY <2>1, DeterminedPower
  <2> QED
    BY <2>1, <2>2, DeterminedMore
<1>4. ASSUME NEW i \in Field(q) PROVE h(0)[i] = 0
  <2>1. part(0) \in Coefficient(0)
    <3>1. 0 \in 0 .. n
      OBVIOUS
    <3> HIDE DEF part
    <3> QED
      BY <1>1, <3>1
  <2> HIDE DEF part
  <2> QED
    BY <1>0, <2>1, PolynomialNone DEF PolynomialAt
<1>9. PICK zero \in Int : zero = 0
  OBVIOUS
<1>10. PICK one \in Int : one = 1
  OBVIOUS
<1>5. 0 \in P
  <2> DEFINE f == PowerAt(q, c, 0)
  <2>1. 0 \in 0 .. n - 1 /\ n \in Nat
    OBVIOUS
  <2>2. /\ a[0] \in Int /\ h(0) \in [Field(q) -> Int] /\ h(0 + 1) \in [Field(q) -> Int]
        /\ \A i \in Field(q) : Same(q, h(0 + 1)[i], a[0] * f[i] + h(0)[i])
    BY <1>2, <2>1
  <2>3. Determined(q, n, f)
    BY <1>3, <2>1
  <2>4. f \in [Field(q) -> Int]
    BY <2>3 DEF Determined
  <2> HIDE DEF h, f
  <2>5. \A i \in Field(q) : Same(q, h(0 + 1)[i], a[0] * f[i] + zero * f[i])
    <3> TAKE i \in Field(q)
    <3>1. a[0] * f[i] + h(0)[i] = a[0] * f[i] + zero * f[i]
      BY <1>4, <1>9, <2>2, <2>4
    <3> QED
      BY <2>2, <3>1
  <2>6. Determined(q, n, h(0 + 1))
    BY <2>1, <2>2, <2>3, <2>5, DeterminedCombined
  <2> QED
    BY <2>1, <2>6
<1>6. ASSUME NEW m \in 1 .. n - 1, m - 1 \in P PROVE m \in P
  <2> DEFINE f == PowerAt(q, c, m)
  <2>1. m \in 0 .. n - 1 /\ n \in Nat /\ (m - 1) + 1 = m
    OBVIOUS
  <2>2. /\ a[m] \in Int /\ h(m) \in [Field(q) -> Int] /\ h(m + 1) \in [Field(q) -> Int]
        /\ \A i \in Field(q) : Same(q, h(m + 1)[i], a[m] * f[i] + h(m)[i])
    BY <1>2, <2>1
  <2>3. Determined(q, n, f)
    BY <1>3, <2>1
  <2>4. Determined(q, n, h(m))
    BY <1>6, <2>1
  <2> HIDE DEF h, f
  <2>5. \A i \in Field(q) : Same(q, h(m + 1)[i], a[m] * f[i] + one * h(m)[i])
    <3> TAKE i \in Field(q)
    <3>1. one * h(m)[i] = h(m)[i]
      BY <1>10, <2>2
    <3> QED
      BY <2>2, <3>1
  <2>6. Determined(q, n, h(m + 1))
    BY <2>1, <2>2, <2>3, <2>4, <2>5, DeterminedCombined
  <2> QED
    BY <2>1, <2>6
<1> HIDE DEF P
<1>7. 0 .. n - 1 \subseteq P
  <2>1. n - 1 \in Nat
    OBVIOUS
  <2> QED
    BY <1>5, <1>6, <2>1, UpTo
<1>8. n - 1 \in P
  BY <1>7
<1>11. part(n) = a
  BY DEF Coefficient
<1>12. (n - 1) + 1 = n
  OBVIOUS
<1> QED
  BY <1>8, <1>11, <1>12 DEF P

-----------------------------------------------------------------------------
(* So is what goes through n values.                                       *)

\* A product of differences is determined by one value more than it has factors.
DifferencesAt(q, R) == [x \in Field(q) |-> Differences(q, R, x)]

\* The product of differences is determined by one value more than there are points.
LEMMA DeterminedDifferences ==
  ASSUME NEW q, PrimeNumber(q), NEW S \in SUBSET Field(q)
  PROVE  Determined(q, Cardinality(S) + 1, DifferencesAt(q, S))
<1> DEFINE P == {R \in SUBSET S : Determined(q, Cardinality(R) + 1, DifferencesAt(q, R))}
<1>0. q \in Nat /\ IsFiniteSet(S) /\ \A x \in Field(q) : x \in Int
  BY InField
<1>1. ASSUME NEW R \in SUBSET S, \A W \in SUBSET R : W # R => W \in P
      PROVE  R \in P
  <2>1. CASE R = {}
    <3>1. Cardinality({}) + 1 = 1
      BY FS_EmptySet
    <3>2. DifferencesAt(q, {}) = [i \in Field(q) |-> 1]
      BY <1>0, DifferencesNone DEF DifferencesAt
    <3> QED
      BY <2>1, <3>1, <3>2, DeterminedOne
  <2>2. CASE R # {}
    <3>1. PICK a \in R : TRUE
      BY <2>2
    <3> DEFINE W == R \ {a}
               f == DifferencesAt(q, W)
               h == DifferencesAt(q, R)
               n == Cardinality(W) + 1
               c == -a
    <3>2. IsFiniteSet(R) /\ R \in SUBSET Field(q) /\ W \in SUBSET Field(q) /\ a \in Int
      BY <1>0, FS_Subset
    <3>3. IsFiniteSet(W) /\ Cardinality(W) = Cardinality(R) - 1
      BY <3>2, FS_RemoveElement
    <3>4. Cardinality(W) \in Nat /\ Cardinality(R) \in Nat
      BY <3>2, <3>3, FS_CardinalityType
    <3>5. W \in P
      BY <1>1
    <3>6. Determined(q, n, f)
      BY <3>5
    <3>7. n \in Nat /\ n = Cardinality(R)
      <4> HIDE DEF W
      <4> QED
        BY <3>3, <3>4
    <3>8. c \in Int
      BY <3>2
    <3>9. h \in [Field(q) -> Int]
      <4>1. \A x \in Field(q) : Differences(q, R, x) \in Int
        BY <1>0, <3>2, DifferencesType
      <4> QED
        BY <4>1 DEF DifferencesAt
    <3>10. ASSUME NEW x \in Field(q) PROVE Same(q, h[x], (x + c) * f[x])
      <4>1. x \in Int /\ x + c = x - a
        BY <1>0, <3>2
      <4>2. h[x] = Differences(q, R, x) /\ f[x] = Differences(q, W, x)
        BY DEF DifferencesAt
      <4>3. Same(q, Differences(q, R, x), (x - a) * Differences(q, W, x))
        BY <3>2, <4>1, DifferencesOne
      <4> QED
        BY <4>1, <4>2, <4>3
    <3> HIDE DEF W, f, h, n, c
    <3>11. Determined(q, n + 1, h)
      BY <3>6, <3>7, <3>8, <3>9, <3>10, DeterminedTimes
    <3> QED
      BY <3>7, <3>11 DEF h
  <2> QED
    BY <2>1, <2>2
<1> HIDE DEF P
<1>2. S \in P
  BY <1>0, <1>1, SubsetInduction
<1> QED
  BY <1>2 DEF P

\* So is a weight by as many values as there are points.
WeightAt(q, S, j) == [x \in Field(q) |-> Weight(q, S, j, x)]

\* A weight is determined by as many values as there are points.
LEMMA DeterminedWeight ==
  ASSUME NEW q, PrimeNumber(q), NEW S \in SUBSET Field(q), NEW j \in S
  PROVE  Determined(q, Cardinality(S), WeightAt(q, S, j))
<1> DEFINE R == S \ {j}
           d == Differences(q, R, j)
           c == inverse(q, d)
           f == DifferencesAt(q, R)
           h == WeightAt(q, S, j)
           n == Cardinality(S)
<1>0. /\ q \in Nat \ {0} /\ q \in Nat /\ IsFiniteSet(S) /\ R \in SUBSET Field(q) /\ j \in Int
      /\ \A x \in Field(q) : x \in Int
  BY InField
<1>1. Cardinality(R) = n - 1
  BY <1>0, FS_RemoveElement
<1>2. n \in Nat
  BY <1>0, FS_CardinalityType
<1>3. Determined(q, Cardinality(R) + 1, f)
  BY <1>0, DeterminedDifferences
<1>4. Determined(q, n, f)
  <2>1. Cardinality(R) + 1 = n
    <3> HIDE DEF R, n
    <3> QED
      BY <1>1, <1>2
  <2> QED
    BY <1>3, <2>1
<1>5. d \in Int /\ ~ Same(q, d, 0)
  BY <1>0, WeightIs
<1> HIDE DEF d
<1>6. c \in Int
  BY <1>5, InverseIs
<1>7. h \in [Field(q) -> Int] /\ f \in [Field(q) -> Int]
  <2>1. \A x \in Field(q) : Weight(q, S, j, x) \in Int /\ Differences(q, R, x) \in Int
    BY <1>0, WeightIs, DifferencesType
  <2> QED
    BY <2>1 DEF WeightAt, DifferencesAt
<1>9. PICK zero \in Int : zero = 0
  OBVIOUS
<1>8. ASSUME NEW x \in Field(q) PROVE Same(q, h[x], c * f[x] + zero * f[x])
  <2> DEFINE v == Differences(q, R, x)
             u == v * c
  <2>1. h[x] = u % q /\ f[x] = v
    BY DEF WeightAt, DifferencesAt, Weight, d
  <2>2. f[x] \in Int
    BY <1>7
  <2>3. v \in Int /\ u \in Int
    BY <1>6, <2>1, <2>2
  <2> HIDE DEF v, f
  <2>4. u = c * f[x] + zero * f[x]
    BY <1>6, <1>9, <2>1, <2>3
  <2> HIDE DEF u
  <2>5. Same(q, u % q, u)
    BY <1>0, <2>3, Remainder
  <2> QED
    BY <2>1, <2>4, <2>5
<1> HIDE DEF f, h, n, c
<1>10. Determined(q, n, h)
  BY <1>2, <1>4, <1>6, <1>7, <1>8, <1>9, DeterminedCombined
<1> QED
  BY <1>10 DEF n, h

\* And so is the polynomial through these points.
ThroughAt(q, S, f) == [x \in Field(q) |-> Through(q, S, f, x)]

\* So is what goes through values at the points.
LEMMA DeterminedThrough ==
  ASSUME NEW q, PrimeNumber(q), NEW S \in SUBSET Field(q), S # {}, NEW f \in [Field(q) -> Int]
  PROVE  Determined(q, Cardinality(S), ThroughAt(q, S, f))
<1> DEFINE n == Cardinality(S)
           term(x) == [j \in S |-> f[j] * Weight(q, S, j, x)]
           part(T) == [x \in Field(q) |-> SumOver(q, On(term(x), T))]
           P == {T \in SUBSET S : T # {} => Determined(q, n, part(T))}
<1>0. q \in Nat \ {0} /\ q \in Nat /\ IsFiniteSet(S) /\ \A x \in Field(q) : x \in Int
  BY InField
<1>2. n \in Nat
  BY <1>0, FS_CardinalityType
<1>3. ASSUME NEW x \in Field(q) PROVE term(x) \in [S -> Int]
  BY <1>0, ThroughType
<1>9. PICK zero \in Int : zero = 0
  OBVIOUS
<1>10. PICK one \in Int : one = 1
  OBVIOUS
<1>4. ASSUME NEW T \in SUBSET S, NEW a \in T
      PROVE  /\ f[a] \in Int /\ part(T) \in [Field(q) -> Int] /\ part(T \ {a}) \in [Field(q) -> Int]
             /\ \A x \in Field(q) : Same(q, part(T)[x], f[a] * WeightAt(q, S, a)[x] + part(T \ {a})[x])
  <2> DEFINE U == T \ {a}
  <2>1. ASSUME NEW x \in Field(q)
        PROVE  /\ SumOver(q, On(term(x), T)) \in Int /\ SumOver(q, On(term(x), U)) \in Int
               /\ Same(q, SumOver(q, On(term(x), T)), f[a] * Weight(q, S, a, x) + SumOver(q, On(term(x), U)))
    <3> DEFINE t == term(x)
    <3>1. t \in [S -> Int] /\ t[a] = f[a] * Weight(q, S, a, x)
      BY <1>3
    <3> HIDE DEF term, t
    <3>2. /\ SumOver(q, On(t, T)) \in Field(q) /\ SumOver(q, On(t, U)) \in Field(q)
          /\ Same(q, SumOver(q, On(t, T)), t[a] + SumOver(q, On(t, U)))
      BY <1>0, <3>1, SumPart
    <3> QED
      BY <1>0, <3>1, <3>2 DEF t
  <2> HIDE DEF term, U
  <2>2. \A x \in Field(q) : part(T)[x] = SumOver(q, On(term(x), T)) /\ part(U)[x] = SumOver(q, On(term(x), U))
                            /\ WeightAt(q, S, a)[x] = Weight(q, S, a, x)
    BY DEF WeightAt
  <2>3. part(T) \in [Field(q) -> Int] /\ part(U) \in [Field(q) -> Int]
    BY <2>1
  <2>4. f[a] \in Int
    OBVIOUS
  <2> HIDE DEF part
  <2>5. \A x \in Field(q) : Same(q, part(T)[x], f[a] * WeightAt(q, S, a)[x] + part(U)[x])
    BY <2>1, <2>2
  <2> QED
    BY <2>3, <2>4, <2>5 DEF U
<1>1. ASSUME NEW T \in SUBSET S, \A W \in SUBSET T : W # T => W \in P
      PROVE  T \in P
  <2> SUFFICES ASSUME T # {} PROVE Determined(q, n, part(T))
    OBVIOUS
  <2>1. PICK a \in T : TRUE
    OBVIOUS
  <2> DEFINE U == T \ {a}
             w == WeightAt(q, S, a)
             c == f[a]
             g == part(U)
             h == part(T)
  <2>2. c \in Int /\ h \in [Field(q) -> Int] /\ g \in [Field(q) -> Int]
        /\ \A x \in Field(q) : Same(q, h[x], c * w[x] + g[x])
    <3> HIDE DEF part
    <3> QED
      BY <1>4
  <2>3. Determined(q, n, w)
    BY DeterminedWeight
  <2>4. w \in [Field(q) -> Int]
    BY <2>3 DEF Determined
  <2>5. CASE U = {}
    <3>1. ASSUME NEW x \in Field(q) PROVE g[x] = 0
      <4>1. On(term(x), U) \in [{} -> Int]
        BY <2>5 DEF On
      <4>2. SumOver(q, On(term(x), U)) = 0
        BY <1>0, <4>1, SumNone
      <4> QED
        BY <4>2
    <3> HIDE DEF g, h, w, c
    <3>2. \A x \in Field(q) : Same(q, h[x], c * w[x] + zero * w[x])
      <4> TAKE x \in Field(q)
      <4>1. c * w[x] + g[x] = c * w[x] + zero * w[x]
        BY <1>9, <2>2, <2>4, <3>1
      <4> QED
        BY <2>2, <4>1
    <3>3. Determined(q, n, h)
      BY <1>2, <2>2, <2>3, <3>2, DeterminedCombined
    <3> QED
      BY <3>3 DEF h
  <2>6. CASE U # {}
    <3>1. U \in P
      BY <1>1
    <3>2. Determined(q, n, g)
      BY <2>6, <3>1
    <3> HIDE DEF g, h, w, c
    <3>3. \A x \in Field(q) : Same(q, h[x], c * w[x] + one * g[x])
      <4> TAKE x \in Field(q)
      <4>1. one * g[x] = g[x]
        BY <1>10, <2>2
      <4> QED
        BY <2>2, <4>1
    <3>4. Determined(q, n, h)
      BY <1>2, <2>2, <2>3, <3>2, <3>3, DeterminedCombined
    <3> QED
      BY <3>4 DEF h
  <2> QED
    BY <2>5, <2>6
<1>5. part(S) = ThroughAt(q, S, f)
  <2>1. ASSUME NEW x \in Field(q) PROVE SumOver(q, On(term(x), S)) = Through(q, S, f, x)
    <3>1. On(term(x), S) = term(x)
      BY DEF On
    <3> QED
      BY <3>1 DEF Through
  <2> QED
    BY <2>1 DEF ThroughAt
<1> HIDE DEF P
<1>6. S \in P
  BY <1>0, <1>1, SubsetInduction
<1> QED
  BY <1>5, <1>6 DEF P

-----------------------------------------------------------------------------
(* It goes through them.                                                   *)

\* A product of differences is 0 at each of its points.
LEMMA DifferencesZero ==
  ASSUME NEW q, PrimeNumber(q), NEW S \in SUBSET Field(q), NEW x \in S
  PROVE  Same(q, Differences(q, S, x), 0)
<1> DEFINE d == Differences(q, S, x)
           w == Differences(q, S \ {x}, x)
<1>1. q \in Nat /\ x \in Int /\ \A y \in Field(q) : y \in Int
  BY InField
<1>2. d \in Field(q) /\ w \in Field(q) /\ Same(q, d, (x - x) * w)
  BY <1>1, DifferencesOne
<1> HIDE DEF d, w
<1>3. (x - x) * w = 0
  BY <1>1, <1>2
<1> QED
  BY <1>2, <1>3 DEF d

\* At its own points a polynomial has the values that it goes through.
LEMMA ThroughOwn ==
  ASSUME NEW q, PrimeNumber(q), NEW S \in SUBSET Field(q), NEW f \in [Field(q) -> Int], NEW i \in S
  PROVE  Same(q, Through(q, S, f, i), f[i])
<1> DEFINE t == [j \in S |-> f[j] * Weight(q, S, j, i)]
           r == [j \in S \ {i} |-> t[j]]
           w == Weight(q, S, i, i)
           v == Through(q, S, f, i)
<1>1. q \in Nat \ {0} /\ q \in Nat /\ q \in Int /\ i \in Int /\ IsFiniteSet(S) /\ IsFiniteSet(S \ {i}) /\ 0 \in Int /\ 1 \in Int
  BY InField, FS_RemoveElement
<1>2. t \in [S -> Int] /\ v \in Int
  BY <1>1, ThroughType
<1>3. v = SumOver(q, t)
  BY DEF Through
<1>4. t[i] = f[i] * w /\ w \in Int /\ f[i] \in Int
  BY <1>1, WeightIs
<1>5. Same(q, w, 1)
  <2> DEFINE d == Differences(q, S \ {i}, i)
  <2>1. d \in Int /\ ~ Same(q, d, 0) /\ Same(q, w * d, d)
    BY <1>1, WeightIs
  <2> HIDE DEF d, w
  <2>2. Same(q, w * d, 1 * d)
    <3>1. 1 * d = d
      BY <2>1
    <3> QED
      BY <2>1, <3>1
  <2> QED
    BY <1>1, <1>4, <2>1, <2>2, Cancel
<1>9. PICK zero \in Int : zero = 0
  OBVIOUS
<1>6. ASSUME NEW j \in S \ {i} PROVE Same(q, r[j], zero * r[j])
  <2> DEFINE d == Differences(q, S \ {j}, j)
             n == Differences(q, S \ {j}, i)
             u == Weight(q, S, j, i)
             y == f[j]
  <2>1. d \in Int /\ n \in Int /\ u \in Int /\ ~ Same(q, d, 0) /\ Same(q, u * d, n)
    BY <1>1, WeightIs
  <2>2. Same(q, n, 0)
    <3>1. S \ {j} \in SUBSET Field(q) /\ i \in S \ {j}
      OBVIOUS
    <3> QED
      BY <3>1, DifferencesZero
  <2>3. r[j] = y * u /\ y \in Int
    OBVIOUS
  <2> HIDE DEF d, n, u, y, r
  <2>4. u * d \in Int
    BY <2>1
  <2>5. Same(q, u * d, 0)
    BY <1>1, <2>1, <2>2, <2>4, SameOn
  <2>6. d * u = u * d
    BY <2>1
  <2>7. Same(q, u, 0)
    BY <2>1, <2>5, <2>6, NoZeroDivisors
  <2>8. PICK e \in Int : u = 0 + q * e
    BY <2>7 DEF Same
  <2>9. y * u = zero * (y * u) + q * (y * e)
    <3>1. y * (0 + q * e) = q * (y * e)
      BY <1>1, <2>3
    <3>2. zero * (y * u) = 0
      BY <1>9, <2>1, <2>3
    <3>3. q * (y * e) \in Int
      BY <1>1, <2>3
    <3> QED
      BY <2>8, <3>1, <3>2, <3>3
  <2>10. y * e \in Int
    BY <2>3
  <2>11. Same(q, y * u, zero * (y * u))
    BY <2>9, <2>10 DEF Same
  <2> QED
    BY <2>3, <2>11
<1> HIDE DEF t, w, v
<1>7. r \in [S \ {i} -> Int]
  BY <1>2
<1>8. Same(q, SumOver(q, t), t[i] + SumOver(q, r))
  BY <1>1, <1>2, SumOne
<1> DEFINE sr == SumOver(q, r)
<1> HIDE DEF r
<1>10. sr \in Int
  BY <1>1, <1>7, SumType
<1>11. Same(q, sr, zero * sr)
  BY <1>1, <1>6, <1>7, <1>9, SumScaled
<1> DEFINE y == f[i]
<1>12. y \in Int
  BY <1>4
<1>13. PICK e1 \in Int : v = y * w + sr + q * e1
  BY <1>3, <1>4, <1>8 DEF Same
<1> HIDE DEF sr, y
<1>14. PICK e2 \in Int : sr = zero * sr + q * e2
  BY <1>11 DEF Same
<1>15. PICK e3 \in Int : w = 1 + q * e3
  BY <1>5 DEF Same
<1> DEFINE e == y * e3 + e2 + e1
<1>16. v = y + q * e
  <2>1. zero * sr = 0
    BY <1>9, <1>10
  <2>2. v = y * (1 + q * e3) + (0 + q * e2) + q * e1
    BY <1>13, <1>14, <1>15, <2>1
  <2>3. y * (1 + q * e3) + (0 + q * e2) + q * e1 = y + q * e
    BY <1>1, <1>12
  <2> HIDE DEF e
  <2> QED
    BY <2>2, <2>3
<1>17. e \in Int
  BY <1>12
<1> HIDE DEF e
<1>18. Same(q, v, y)
  BY <1>16, <1>17 DEF Same
<1> QED
  BY <1>18 DEF v, y

\* Combinations of polynomials.
LEMMA PolynomialType ==
  ASSUME NEW q, PrimeNumber(q), NEW n \in Nat, NEW a \in Coefficient(n), NEW x \in Int
  PROVE  /\ [m \in 0 .. n - 1 |-> a[m] * Powers(q, x)[m]] \in [0 .. n - 1 -> Int]
         /\ Polynomial(q, a, x) = SumOver(q, [m \in 0 .. n - 1 |-> a[m] * Powers(q, x)[m]])
         /\ Polynomial(q, a, x) \in Field(q) /\ Polynomial(q, a, x) \in Int
<1> DEFINE t == [m \in 0 .. n - 1 |-> a[m] * Powers(q, x)[m]]
<1>1. t \in [0 .. n - 1 -> Int]
  <2>1. ASSUME NEW m \in 0 .. n - 1 PROVE a[m] * Powers(q, x)[m] \in Int
    <3>1. m \in Nat /\ a[m] \in Int
      BY DEF Coefficient
    <3>2. Powers(q, x)[m] \in Int
      BY <3>1, PowersIs
    <3> QED
      BY <3>1, <3>2
  <2> QED
    BY <2>1
<1>2. Polynomial(q, a, x) = SumOver(q, t)
  <2>1. DOMAIN a = 0 .. n - 1
    BY DEF Coefficient
  <2> QED
    BY <2>1 DEF Polynomial
<1> HIDE DEF t
<1>3. IsFiniteSet(0 .. n - 1) /\ q \in Nat \ {0}
  BY InField, FS_Interval
<1>4. SumOver(q, t) \in Field(q) /\ SumOver(q, t) \in Int
  BY <1>1, <1>3, SumType
<1> QED
  BY <1>1, <1>2, <1>4 DEF t

\* A polynomial is linear in its coefficients.
LEMMA PolynomialCombined ==
  ASSUME NEW q, PrimeNumber(q), NEW n \in Nat, NEW a \in Coefficient(n), NEW b \in Coefficient(n),
         NEW c \in Int, NEW d \in Int, NEW x \in Int
  PROVE  LET h == [m \in 0 .. n - 1 |-> c * a[m] + d * b[m]]
         IN /\ h \in Coefficient(n)
            /\ Same(q, Polynomial(q, h, x), c * Polynomial(q, a, x) + d * Polynomial(q, b, x))
<1> DEFINE S == 0 .. n - 1
           h == [m \in S |-> c * a[m] + d * b[m]]
           p == Powers(q, x)
           F == [m \in S |-> a[m] * p[m]]
           G == [m \in S |-> b[m] * p[m]]
           H == [m \in S |-> h[m] * p[m]]
<1>1. ASSUME NEW m \in S PROVE a[m] \in Int /\ b[m] \in Int /\ p[m] \in Int /\ h[m] \in Int /\ h[m] = c * a[m] + d * b[m]
  <2>1. m \in Nat /\ a[m] \in Int /\ b[m] \in Int
    BY DEF Coefficient
  <2>2. p[m] \in Int
    BY <2>1, PowersIs
  <2>3. c * a[m] + d * b[m] \in Int
    BY <2>1
  <2> QED
    BY <2>1, <2>2, <2>3
<1>2. h \in Coefficient(n)
  <2>1. h = [m \in S |-> h[m]]
    OBVIOUS
  <2> HIDE DEF h
  <2> QED
    BY <1>1, <2>1 DEF Coefficient
<1>3. q \in Nat \ {0} /\ q \in Nat /\ q \in Int /\ IsFiniteSet(S)
  BY InField, FS_Interval
<1> HIDE DEF h
<1>4. F \in [S -> Int] /\ Polynomial(q, a, x) = SumOver(q, F)
  BY PolynomialType
<1>5. G \in [S -> Int] /\ Polynomial(q, b, x) = SumOver(q, G)
  BY PolynomialType
<1>6. H \in [S -> Int] /\ Polynomial(q, h, x) = SumOver(q, H)
  BY <1>2, PolynomialType
<1>7. ASSUME NEW m \in S PROVE Same(q, H[m], c * F[m] + d * G[m])
  <2>1. H[m] = h[m] * p[m] /\ F[m] = a[m] * p[m] /\ G[m] = b[m] * p[m]
    OBVIOUS
  <2>2. (c * a[m] + d * b[m]) * p[m] = c * (a[m] * p[m]) + d * (b[m] * p[m])
    BY <1>1
  <2>3. H[m] \in Int
    BY <1>6
  <2> HIDE DEF F, G, H, p
  <2>4. H[m] = c * F[m] + d * G[m]
    BY <1>1, <2>1, <2>2
  <2>5. Same(q, H[m], H[m])
    BY <1>3, <2>3, SameItself
  <2> QED
    BY <2>4, <2>5
<1> HIDE DEF F, G, H
<1>8. Same(q, SumOver(q, H), c * SumOver(q, F) + d * SumOver(q, G))
  BY <1>3, <1>4, <1>5, <1>6, <1>7, SumCombined
<1> QED
  BY <1>2, <1>4, <1>5, <1>6, <1>8 DEF h

-----------------------------------------------------------------------------
(* The parts of a polynomial.                                              *)

\* A sum of numbers that are all 0 is 0.
LEMMA SumZero ==
  ASSUME NEW q \in Nat \ {0}, NEW S, IsFiniteSet(S), NEW f \in [S -> Int], \A x \in S : Same(q, f[x], 0)
  PROVE  Same(q, SumOver(q, f), 0)
<1>1. PICK zero \in Int : zero = 0
  OBVIOUS
<1>2. ASSUME NEW x \in S PROVE Same(q, f[x], zero * f[x])
  <2>1. zero * f[x] = 0
    BY <1>1
  <2> QED
    BY <2>1
<1>3. Same(q, SumOver(q, f), zero * SumOver(q, f))
  BY <1>2, SumScaled
<1>4. zero * SumOver(q, f) = 0
  BY <1>1, SumType
<1> QED
  BY <1>3, <1>4

\* At 0 a polynomial is its first coefficient.
LEMMA PolynomialAtZero ==
  ASSUME NEW q, PrimeNumber(q), NEW n \in Nat \ {0}, NEW a \in Coefficient(n)
  PROVE  Same(q, Polynomial(q, a, 0), a[0])
<1> DEFINE S == 0 .. n - 1
           p == Powers(q, 0)
           t == [m \in S |-> a[m] * p[m]]
           r == [m \in S \ {0} |-> t[m]]
<1>1. q \in Nat \ {0} /\ q \in Nat /\ IsFiniteSet(S) /\ IsFiniteSet(S \ {0}) /\ 0 \in S /\ 0 \in Int /\ n \in Nat
  <2>1. IsFiniteSet(S)
    BY FS_Interval
  <2>2. S \ {0} \subseteq S /\ 0 \in S
    OBVIOUS
  <2> HIDE DEF S
  <2>3. IsFiniteSet(S \ {0})
    BY <2>1, <2>2, FS_Subset
  <2> QED
    BY <2>1, <2>2, <2>3, InField
<1>2. \A m \in S : a[m] \in Int /\ m \in Nat
  BY DEF Coefficient
<1>3. /\ p[0] = 1 /\ \A m \in Nat : p[m] \in Int
      /\ \A m \in Nat \ {0} : Same(q, p[m], p[m - 1] * 0)
  BY <1>1, PowersIs
<1>4. t \in [S -> Int] /\ Polynomial(q, a, 0) = SumOver(q, t)
  BY <1>1, PolynomialType
<1>5. t[0] = a[0]
  <2>1. t[0] = a[0] * p[0] /\ a[0] \in Int
    BY <1>1, <1>2
  <2> QED
    BY <1>3, <2>1
<1>6. ASSUME NEW m \in S \ {0} PROVE Same(q, r[m], 0)
  <2>1. m \in Nat \ {0} /\ m - 1 \in Nat /\ m \in Nat
    BY <1>2
  <2>2. p[m - 1] * 0 = 0 /\ p[m] \in Int /\ a[m] \in Int
    BY <1>2, <1>3, <2>1
  <2>3. Same(q, p[m], 0)
    BY <1>3, <2>1, <2>2
  <2>4. r[m] = a[m] * p[m]
    OBVIOUS
  <2> DEFINE u == p[m]
             v == a[m]
  <2> HIDE DEF p, r
  <2>5. u \in Int /\ v \in Int /\ Same(q, u, 0) /\ r[m] = v * u
    BY <2>2, <2>3, <2>4
  <2> HIDE DEF u, v
  <2>6. PICK e \in Int : u = 0 + q * e
    BY <2>5 DEF Same
  <2>7. v * (0 + q * e) = 0 + q * (v * e) /\ v * e \in Int
    BY <1>1, <2>5
  <2>8. Same(q, v * u, 0)
    BY <2>6, <2>7 DEF Same
  <2> QED
    BY <2>5, <2>8
<1> HIDE DEF t, S
<1>7. r \in [S \ {0} -> Int]
  BY <1>4
<1>8. SumOver(q, t) \in Field(q) /\ SumOver(q, r) \in Field(q) /\ Same(q, SumOver(q, t), t[0] + SumOver(q, r))
  BY <1>1, <1>4, SumOne
<1> HIDE DEF r
<1>9. Same(q, SumOver(q, r), 0)
  BY <1>1, <1>6, <1>7, SumZero
<1> DEFINE st == SumOver(q, t)
           sr == SumOver(q, r)
           y == a[0]
<1>10. y \in Int /\ st \in Int /\ sr \in Int
  <2>1. y \in Int
    BY <1>1, <1>2
  <2> QED
    BY <1>8, <2>1, InField
<1>11. Same(q, st, y + sr) /\ Same(q, sr, 0)
  BY <1>5, <1>8, <1>9
<1> HIDE DEF st, sr, y
<1>12. PICK e1 \in Int : st = y + sr + q * e1
  BY <1>11 DEF Same
<1>13. PICK e2 \in Int : sr = 0 + q * e2
  BY <1>11 DEF Same
<1>14. st = y + q * (e2 + e1) /\ e2 + e1 \in Int
  <2>1. y + (0 + q * e2) + q * e1 = y + q * (e2 + e1)
    BY <1>1, <1>10
  <2> QED
    BY <1>12, <1>13, <2>1
<1>15. Same(q, st, y)
  BY <1>14 DEF Same
<1> QED
  BY <1>4, <1>15 DEF st, y

\* The first coefficients of a polynomial.
First(a, n) == [m \in 0 .. n - 1 |-> a[m]]

\* The first coefficients are coefficients.
LEMMA FirstIs ==
  ASSUME NEW n \in Nat, NEW a \in Coefficient(n), NEW m \in 0 .. n
  PROVE  First(a, m) \in Coefficient(m)
BY DEF First, Coefficient

\* One more coefficient that is 0 changes nothing.
Extended(a, n) == [m \in 0 .. n |-> IF m < n THEN a[m] ELSE 0]

\* A last coefficient of zero changes nothing.
LEMMA PolynomialExtended ==
  ASSUME NEW q, PrimeNumber(q), NEW n \in Nat, NEW a \in Coefficient(n), NEW x \in Int
  PROVE  /\ Extended(a, n) \in Coefficient(n + 1)
         /\ Same(q, Polynomial(q, Extended(a, n), x), Polynomial(q, a, x))
<1> DEFINE e == Extended(a, n)
           b == [m \in 0 .. n - 1 |-> e[m]]
<1>1. e \in Coefficient(n + 1)
  BY DEF Extended, Coefficient
<1>2. b = a /\ e[n] = 0
  BY DEF Extended, Coefficient
<1> HIDE DEF e
<1>3. /\ Polynomial(q, e, x) \in Int /\ Polynomial(q, b, x) \in Int
      /\ Same(q, Polynomial(q, e, x), e[n] * Powers(q, x)[n] + Polynomial(q, b, x))
  BY <1>1, PolynomialLast
<1>4. Powers(q, x)[n] \in Int
  BY PowersIs
<1>5. e[n] * Powers(q, x)[n] + Polynomial(q, b, x) = Polynomial(q, b, x)
  BY <1>2, <1>3, <1>4
<1> QED
  BY <1>1, <1>2, <1>3, <1>5 DEF e

\* A polynomial times x.
Shifted(z, n) == [m \in 0 .. n |-> IF m = 0 THEN 0 ELSE z[m - 1]]

\* To shift the coefficients is to multiply by the place.
LEMMA PolynomialShifted ==
  ASSUME NEW q, PrimeNumber(q), NEW n \in Nat, NEW z \in Coefficient(n), NEW x \in Int
  PROVE  /\ Shifted(z, n) \in Coefficient(n + 1)
         /\ Same(q, Polynomial(q, Shifted(z, n), x), x * Polynomial(q, z, x))
<1> DEFINE s == Shifted(z, n)
           P == {m \in 0 .. n : Same(q, Polynomial(q, First(s, m + 1), x), x * Polynomial(q, First(z, m), x))}
<1>0. q \in Nat /\ q \in Int
  BY InField
<1>1. \A m \in 0 .. n - 1 : z[m] \in Int
  BY DEF Coefficient
<1>2. s \in Coefficient(n + 1) /\ s[0] = 0 /\ \A m \in 1 .. n : s[m] = z[m - 1]
  <2>1. \A m \in 0 .. n : m # 0 => m - 1 \in 0 .. n - 1
    OBVIOUS
  <2>2. s \in [0 .. n -> Int]
    BY <1>1, <2>1 DEF Shifted
  <2>3. (n + 1) - 1 = n
    OBVIOUS
  <2> QED
    BY <2>2, <2>3 DEF Coefficient, Shifted
<1> HIDE DEF s
<1>3. ASSUME NEW m \in 0 .. n
      PROVE  /\ First(s, m + 1) \in Coefficient(m + 1) /\ First(s, m) \in Coefficient(m)
             /\ Polynomial(q, First(s, m + 1), x) \in Int /\ Polynomial(q, First(s, m), x) \in Int
             /\ Same(q, Polynomial(q, First(s, m + 1), x), s[m] * Powers(q, x)[m] + Polynomial(q, First(s, m), x))
  <2> DEFINE b == First(s, m + 1)
             c == [l \in 0 .. m - 1 |-> b[l]]
  <2>1. m + 1 \in 0 .. n + 1 /\ m \in 0 .. n + 1 /\ n + 1 \in Nat /\ m \in Nat
    OBVIOUS
  <2>2. b \in Coefficient(m + 1) /\ First(s, m) \in Coefficient(m)
    BY <1>2, <2>1, FirstIs
  <2>3. c = First(s, m) /\ b[m] = s[m]
    BY DEF First
  <2> HIDE DEF b
  <2>4. /\ Polynomial(q, b, x) \in Int /\ Polynomial(q, c, x) \in Int
        /\ Same(q, Polynomial(q, b, x), b[m] * Powers(q, x)[m] + Polynomial(q, c, x))
    BY <2>1, <2>2, PolynomialLast
  <2> QED
    BY <2>2, <2>3, <2>4 DEF b
<1>4. ASSUME NEW m \in 1 .. n
      PROVE  /\ Polynomial(q, First(z, m), x) \in Int /\ Polynomial(q, First(z, m - 1), x) \in Int
             /\ Same(q, Polynomial(q, First(z, m), x), z[m - 1] * Powers(q, x)[m - 1] + Polynomial(q, First(z, m - 1), x))
  <2> DEFINE k == m - 1
             b == First(z, k + 1)
             c == [l \in 0 .. k - 1 |-> b[l]]
  <2>1. k \in Nat /\ k + 1 \in 0 .. n /\ k + 1 = m
    OBVIOUS
  <2>2. b \in Coefficient(k + 1)
    BY <2>1, FirstIs
  <2>3. c = First(z, k) /\ b[k] = z[k]
    BY <2>1 DEF First
  <2> HIDE DEF b, k
  <2>4. /\ Polynomial(q, b, x) \in Int /\ Polynomial(q, c, x) \in Int
        /\ Same(q, Polynomial(q, b, x), b[k] * Powers(q, x)[k] + Polynomial(q, c, x))
    BY <2>1, <2>2, PolynomialLast
  <2>5. First(z, m) = b
    BY <2>1 DEF b
  <2> QED
    BY <2>3, <2>4, <2>5 DEF k
<1>5. 0 \in P
  <2> DEFINE b == First(s, 0 + 1)
             c == First(s, 0)
             d == First(z, 0)
  <2>1. 0 \in 0 .. n
    OBVIOUS
  <2>2. /\ b \in Coefficient(0 + 1) /\ c \in Coefficient(0)
        /\ Polynomial(q, b, x) \in Int /\ Polynomial(q, c, x) \in Int
        /\ Same(q, Polynomial(q, b, x), s[0] * Powers(q, x)[0] + Polynomial(q, c, x))
    BY <1>3, <2>1
  <2>3. d \in Coefficient(0)
    BY <2>1, FirstIs
  <2> HIDE DEF b, c, d
  <2>4. Polynomial(q, c, x) = 0 /\ Polynomial(q, d, x) = 0
    BY <2>2, <2>3, PolynomialNone
  <2>5. Powers(q, x)[0] = 1
    BY PowersIs
  <2>6. s[0] * Powers(q, x)[0] + Polynomial(q, c, x) = x * Polynomial(q, d, x)
    BY <1>2, <2>4, <2>5
  <2> QED
    BY <2>1, <2>2, <2>6 DEF b, d
<1>6. ASSUME NEW m \in 1 .. n, m - 1 \in P PROVE m \in P
  <2> DEFINE u == Polynomial(q, First(s, m + 1), x)
             v == Polynomial(q, First(s, m), x)
             w == Polynomial(q, First(z, m), x)
             y == Polynomial(q, First(z, m - 1), x)
             c == z[m - 1]
             p == Powers(q, x)[m]
             r == Powers(q, x)[m - 1]
  <2>1. m \in 0 .. n /\ m \in Nat \ {0} /\ m - 1 \in Nat /\ m - 1 \in 0 .. n - 1 /\ (m - 1) + 1 = m
    OBVIOUS
  <2>2. s[m] = c /\ c \in Int
    BY <1>1, <1>2, <2>1
  <2>3. u \in Int /\ v \in Int /\ Same(q, u, c * p + v)
    BY <1>3, <2>1, <2>2
  <2>4. w \in Int /\ y \in Int /\ Same(q, w, c * r + y)
    BY <1>4
  <2>5. p \in Int /\ r \in Int /\ Same(q, p, r * x)
    BY <2>1, PowersIs
  <2>6. Same(q, v, x * y)
    BY <1>6, <2>1
  <2> HIDE DEF u, v, w, y, c, p, r
  <2>7. PICK e1 \in Int : u = c * p + v + q * e1
    BY <2>3 DEF Same
  <2>8. PICK e2 \in Int : w = c * r + y + q * e2
    BY <2>4 DEF Same
  <2>9. PICK e3 \in Int : p = r * x + q * e3
    BY <2>5 DEF Same
  <2>10. PICK e4 \in Int : v = x * y + q * e4
    BY <2>6 DEF Same
  <2> DEFINE e == c * e3 + e4 + e1 - x * e2
  <2>11. e \in Int
    BY <2>2
  <2>12. u = x * w + q * e
    <3>1. c * (r * x + q * e3) + (x * y + q * e4) + q * e1 = x * (c * r + y + q * e2) + q * e
      BY <1>0, <2>2, <2>4, <2>5
    <3> HIDE DEF e
    <3> QED
      BY <2>7, <2>8, <2>9, <2>10, <3>1
  <2> HIDE DEF e
  <2>13. Same(q, u, x * w)
    BY <2>11, <2>12 DEF Same
  <2> QED
    BY <2>1, <2>13 DEF u, w
<1> HIDE DEF P
<1>7. 0 .. n \subseteq P
  BY <1>5, <1>6, UpTo
<1>8. n \in P
  BY <1>7
<1>9. First(s, n + 1) = s /\ First(z, n) = z
  BY <1>2 DEF First, Coefficient
<1> QED
  BY <1>2, <1>8, <1>9 DEF P, s

-----------------------------------------------------------------------------
(* A polynomial through any values.                                        *)

\* The polynomials that are 0 at the points in R.
Vanishing(q, R) ==
  {z \in Coefficient(Cardinality(R) + 1) : \A x \in Int : Same(q, Polynomial(q, z, x), Differences(q, R, x))}

\* A polynomial that is zero at the points of a set and nowhere else.
LEMMA Vanishes ==
  ASSUME NEW q, PrimeNumber(q), NEW S \in SUBSET Field(q)
  PROVE  Vanishing(q, S) # {}
<1> DEFINE P == {R \in SUBSET S : Vanishing(q, R) # {}}
<1>0. q \in Nat /\ q \in Int /\ q \in Nat \ {0} /\ \A i \in Field(q) : i \in Int
  BY InField
<1>9. PICK one \in Int : one = 1
  OBVIOUS
<1>1. ASSUME NEW R \in SUBSET S, \A U \in SUBSET R : U # R => U \in P PROVE R \in P
  <2>1. R \in SUBSET Field(q) /\ IsFiniteSet(R)
    BY InField
  <2>2. CASE R = {}
    <3> DEFINE z == [m \in 0 .. 0 |-> 1]
    <3>1. z \in Coefficient(0 + 1) /\ z[0] = 1 /\ 0 \in Nat
      BY DEF Coefficient
    <3>2. [m \in 0 .. 0 - 1 |-> z[m]] \in Coefficient(0)
      BY DEF Coefficient
    <3>3. ASSUME NEW x \in Int PROVE Same(q, Polynomial(q, z, x), Differences(q, R, x))
      <4> DEFINE b == [m \in 0 .. 0 - 1 |-> z[m]]
      <4> HIDE DEF z
      <4>1. Same(q, Polynomial(q, z, x), z[0] * Powers(q, x)[0] + Polynomial(q, b, x))
        BY <3>1, PolynomialLast
      <4>2. Polynomial(q, b, x) = 0
        BY <3>2, PolynomialNone
      <4>3. Powers(q, x)[0] = 1
        BY PowersIs
      <4>4. Differences(q, R, x) = 1
        BY <2>2, DifferencesNone
      <4>5. z[0] * Powers(q, x)[0] + Polynomial(q, b, x) = 1
        BY <3>1, <4>2, <4>3
      <4> QED
        BY <4>1, <4>4, <4>5
    <3>4. Cardinality(R) = 0
      BY <2>2, FS_EmptySet
    <3> HIDE DEF z
    <3>5. z \in Vanishing(q, R)
      BY <3>1, <3>3, <3>4 DEF Vanishing
    <3> QED
      BY <3>5
  <2>3. CASE R # {}
    <3>1. PICK a \in R : TRUE
      BY <2>3
    <3> DEFINE U == R \ {a}
               n == Cardinality(R)
    <3>2. U \in P /\ a \in Int /\ U \in SUBSET Field(q) /\ U \in SUBSET S
      BY <1>0, <1>1, <2>1
    <3>3. Cardinality(U) + 1 = n /\ n \in Nat /\ Cardinality(U) \in Nat
      <4>1. Cardinality(U) = n - 1 /\ IsFiniteSet(U)
        BY <2>1, <3>1, FS_RemoveElement
      <4>2. n \in Nat /\ Cardinality(U) \in Nat
        BY <2>1, <4>1, FS_CardinalityType
      <4> HIDE DEF U, n
      <4> QED
        BY <4>1, <4>2
    <3> HIDE DEF U
    <3>4. PICK z \in Vanishing(q, U) : TRUE
      BY <3>2
    <3>5. z \in Coefficient(n) /\ \A x \in Int : Same(q, Polynomial(q, z, x), Differences(q, U, x))
      BY <3>3, <3>4 DEF Vanishing
    <3> HIDE DEF n
    <3> DEFINE e == Extended(z, n)
               s == Shifted(z, n)
               d == -a
               h == [m \in 0 .. (n + 1) - 1 |-> one * s[m] + d * e[m]]
    <3>6. /\ e \in Coefficient(n + 1) /\ s \in Coefficient(n + 1)
          /\ \A x \in Int : /\ Same(q, Polynomial(q, e, x), Polynomial(q, z, x))
                            /\ Same(q, Polynomial(q, s, x), x * Polynomial(q, z, x))
      BY <3>3, <3>5, PolynomialExtended, PolynomialShifted
    <3> HIDE DEF e, s
    <3>7. d \in Int /\ n + 1 \in Nat
      BY <3>2, <3>3
    <3> HIDE DEF d
    <3>8. ASSUME NEW x \in Int
          PROVE  h \in Coefficient(n + 1) /\ Same(q, Polynomial(q, h, x), Differences(q, R, x))
      <4> DEFINE ph == Polynomial(q, h, x)
                 pe == Polynomial(q, e, x)
                 ps == Polynomial(q, s, x)
                 pz == Polynomial(q, z, x)
                 dr == Differences(q, R, x)
                 du == Differences(q, U, x)
      <4>1. h \in Coefficient(n + 1) /\ Same(q, ph, one * ps + d * pe)
        BY <1>9, <3>6, <3>7, PolynomialCombined
      <4> HIDE DEF h
      <4>2. ph \in Int /\ pe \in Int /\ ps \in Int /\ pz \in Int
        BY <3>3, <3>5, <3>6, <3>7, <4>1, PolynomialType
      <4>3. Same(q, pe, pz) /\ Same(q, ps, x * pz) /\ Same(q, pz, du)
        BY <3>5, <3>6
      <4>4. dr \in Field(q) /\ du \in Field(q) /\ Same(q, dr, (x - a) * du)
        BY <2>1, DifferencesOne DEF U
      <4>5. dr \in Int /\ du \in Int
        BY <1>0, <4>4
      <4> HIDE DEF ph, pe, ps, pz, dr, du
      <4>6. PICK e1 \in Int : ph = one * ps + d * pe + q * e1
        BY <4>1 DEF Same
      <4>7. PICK e2 \in Int : pe = pz + q * e2
        BY <4>3 DEF Same
      <4>8. PICK e3 \in Int : ps = x * pz + q * e3
        BY <4>3 DEF Same
      <4>9. PICK e4 \in Int : pz = du + q * e4
        BY <4>3 DEF Same
      <4>10. PICK e5 \in Int : dr = (x - a) * du + q * e5
        BY <4>4 DEF Same
      <4> DEFINE f == (x - a) * e4 + e3 + e1 - a * e2 - e5
      <4>11. f \in Int
        BY <3>2
      <4>12. ph = dr + q * f
        <5>1. one * ps + d * pe = ps - a * pe
          BY <1>9, <3>2, <4>2 DEF d
        <5>2. (x * (du + q * e4) + q * e3) - a * (du + q * e4 + q * e2) + q * e1 = (x - a) * du + q * e5 + q * f
          BY <1>0, <3>2, <4>5
        <5> HIDE DEF f
        <5>3. ph = (x * (du + q * e4) + q * e3) - a * (du + q * e4 + q * e2) + q * e1
          BY <4>6, <4>7, <4>8, <4>9, <5>1
        <5> QED
          BY <4>10, <5>2, <5>3
      <4> HIDE DEF f
      <4>13. Same(q, ph, dr)
        BY <4>11, <4>12 DEF Same
      <4> QED
        BY <4>1, <4>13 DEF ph, dr
    <3> HIDE DEF h
    <3>9. h \in Coefficient(n + 1)
      BY <3>8, <1>0
    <3>10. h \in Vanishing(q, R)
      BY <3>8, <3>9 DEF Vanishing, n
    <3> QED
      BY <3>10
  <2> QED
    BY <2>2, <2>3
<1>2. IsFiniteSet(S)
  BY InField
<1> HIDE DEF P
<1>3. S \in P
  BY <1>1, <1>2, SubsetInduction
<1> QED
  BY <1>3 DEF P

\* There is a polynomial with any values at n points, with n coefficients.
Solutions(q, T, f) ==
  {a \in Coefficient(Cardinality(T)) : \A t \in T : Same(q, Polynomial(q, a, t), f[t])}

\* There is a polynomial with any values at any points, with as many coefficients.
LEMMA Solved ==
  ASSUME NEW q, PrimeNumber(q), NEW S \in SUBSET Field(q), NEW f \in [Field(q) -> Int]
  PROVE  Solutions(q, S, f) # {}
<1> DEFINE P == {T \in SUBSET S : Solutions(q, T, f) # {}}
<1>0. q \in Nat /\ q \in Int /\ q \in Nat \ {0} /\ \A i \in Field(q) : i \in Int
  BY InField
<1>9. PICK one \in Int : one = 1
  OBVIOUS
<1>1. ASSUME NEW T \in SUBSET S, \A U \in SUBSET T : U # T => U \in P PROVE T \in P
  <2>1. T \in SUBSET Field(q) /\ IsFiniteSet(T)
    BY InField
  <2>2. CASE T = {}
    <3>1. [m \in 0 .. 0 - 1 |-> 0] \in Coefficient(0)
      BY DEF Coefficient
    <3>2. Cardinality(T) = 0
      BY <2>2, FS_EmptySet
    <3> QED
      BY <2>2, <3>1, <3>2 DEF Solutions
  <2>3. CASE T # {}
    <3>1. PICK t \in T : TRUE
      BY <2>3
    <3> DEFINE U == T \ {t}
               n == Cardinality(U)
    <3>2. U \in P /\ t \in Int /\ U \in SUBSET Field(q) /\ U \in SUBSET T /\ t \notin U /\ t \in Field(q)
      BY <1>0, <1>1, <2>1
    <3>3. n + 1 = Cardinality(T) /\ n \in Nat /\ n + 1 \in Nat
      <4>1. n = Cardinality(T) - 1 /\ IsFiniteSet(U)
        BY <2>1, <3>1, FS_RemoveElement
      <4>2. n \in Nat /\ Cardinality(T) \in Nat
        BY <2>1, <4>1, FS_CardinalityType
      <4> HIDE DEF n
      <4> QED
        BY <4>1, <4>2
    <3>4. PICK b \in Solutions(q, U, f) : TRUE
      BY <3>2
    <3>5. PICK z \in Vanishing(q, U) : TRUE
      BY <3>2, Vanishes
    <3>6. b \in Coefficient(n) /\ \A u \in U : Same(q, Polynomial(q, b, u), f[u])
      BY <3>4 DEF Solutions
    <3>7. z \in Coefficient(n + 1) /\ \A x \in Int : Same(q, Polynomial(q, z, x), Differences(q, U, x))
      BY <3>5 DEF Vanishing
    <3>16. T = U \cup {t}
      BY <3>1
    <3> HIDE DEF U, n
    <3> DEFINE e == Extended(b, n)
               d == Differences(q, U, t)
               i == inverse(q, d)
               g == f[t] - Polynomial(q, b, t)
               c == g * i
               h == [m \in 0 .. (n + 1) - 1 |-> one * e[m] + c * z[m]]
    <3>8. /\ e \in Coefficient(n + 1)
          /\ \A x \in Int : Same(q, Polynomial(q, e, x), Polynomial(q, b, x))
      BY <3>3, <3>6, PolynomialExtended
    <3> HIDE DEF e
    <3>9. d \in Int /\ ~ Same(q, d, 0)
      BY <1>0, <3>2, DifferencesType, DifferencesNotZero
    <3> HIDE DEF d
    <3>10. i \in Int /\ Same(q, d * i, 1)
      BY <3>9, InverseIs
    <3>11. g \in Int /\ Polynomial(q, b, t) \in Int /\ f[t] \in Int
      <4>1. Polynomial(q, b, t) \in Int
        BY <3>2, <3>3, <3>6, PolynomialType
      <4> QED
        BY <3>2, <4>1
    <3> HIDE DEF i, g
    <3>12. c \in Int
      BY <3>10, <3>11
    <3> HIDE DEF c
    <3>13. ASSUME NEW x \in Int
           PROVE  /\ h \in Coefficient(n + 1)
                  /\ Polynomial(q, h, x) \in Int /\ Polynomial(q, b, x) \in Int /\ Differences(q, U, x) \in Int
                  /\ Same(q, Polynomial(q, h, x), Polynomial(q, b, x) + c * Differences(q, U, x))
      <4> DEFINE ph == Polynomial(q, h, x)
                 pe == Polynomial(q, e, x)
                 pb == Polynomial(q, b, x)
                 pz == Polynomial(q, z, x)
                 du == Differences(q, U, x)
      <4>1. h \in Coefficient(n + 1) /\ Same(q, ph, one * pe + c * pz)
        BY <1>9, <3>3, <3>7, <3>8, <3>12, PolynomialCombined
      <4> HIDE DEF h
      <4>2. ph \in Int /\ pe \in Int /\ pb \in Int /\ pz \in Int
        BY <3>3, <3>6, <3>7, <3>8, <4>1, PolynomialType
      <4>3. Same(q, pe, pb) /\ Same(q, pz, du)
        BY <3>7, <3>8
      <4>4. du \in Int
        BY <1>0, <3>2, DifferencesType
      <4> HIDE DEF ph, pe, pb, pz, du
      <4>5. PICK e1 \in Int : ph = one * pe + c * pz + q * e1
        BY <4>1 DEF Same
      <4>6. PICK e2 \in Int : pe = pb + q * e2
        BY <4>3 DEF Same
      <4>7. PICK e3 \in Int : pz = du + q * e3
        BY <4>3 DEF Same
      <4> DEFINE k == e2 + c * e3 + e1
      <4>8. k \in Int
        BY <3>12
      <4>9. ph = pb + c * du + q * k
        <5>1. one * pe = pe
          BY <1>9, <4>2
        <5>2. (pb + q * e2) + c * (du + q * e3) + q * e1 = pb + c * du + q * k
          BY <1>0, <3>12, <4>2, <4>4
        <5> HIDE DEF k
        <5> QED
          BY <4>5, <4>6, <4>7, <5>1, <5>2
      <4> HIDE DEF k
      <4>10. Same(q, ph, pb + c * du)
        BY <4>8, <4>9 DEF Same
      <4> QED
        BY <4>1, <4>2, <4>4, <4>10 DEF ph, pb, du
    <3> HIDE DEF h
    <3>14. ASSUME NEW u \in U PROVE Same(q, Polynomial(q, h, u), f[u])
      <4> DEFINE ph == Polynomial(q, h, u)
                 pb == Polynomial(q, b, u)
                 du == Differences(q, U, u)
                 v == f[u]
      <4>1. u \in Int /\ v \in Int /\ u \in Field(q)
        BY <1>0, <3>2
      <4>2. ph \in Int /\ pb \in Int /\ du \in Int /\ Same(q, ph, pb + c * du)
        BY <3>13, <4>1
      <4>3. Same(q, pb, v) /\ Same(q, du, 0)
        BY <3>2, <3>6, DifferencesZero
      <4> HIDE DEF ph, pb, du, v
      <4>4. PICK e1 \in Int : ph = pb + c * du + q * e1
        BY <4>2 DEF Same
      <4>5. PICK e2 \in Int : pb = v + q * e2
        BY <4>3 DEF Same
      <4>6. PICK e3 \in Int : du = 0 + q * e3
        BY <4>3 DEF Same
      <4> DEFINE j == e2 + c * e3 + e1
      <4>7. (v + q * e2) + c * (0 + q * e3) + q * e1 = v + q * j /\ j \in Int
        BY <1>0, <3>12, <4>1
      <4> HIDE DEF j
      <4>8. Same(q, ph, v)
        BY <4>4, <4>5, <4>6, <4>7 DEF Same
      <4> QED
        BY <4>8 DEF ph, v
    <3>15. Same(q, Polynomial(q, h, t), f[t])
      <4> DEFINE ph == Polynomial(q, h, t)
                 pb == Polynomial(q, b, t)
                 v == f[t]
      <4>1. ph \in Int /\ pb \in Int /\ v \in Int /\ Same(q, ph, pb + c * d)
        BY <3>2, <3>11, <3>13 DEF d
      <4>2. g = v - pb /\ c = g * i
        BY DEF g, c
      <4> HIDE DEF ph, pb, v
      <4>3. PICK e1 \in Int : ph = pb + c * d + q * e1
        BY <4>1 DEF Same
      <4>4. PICK e2 \in Int : d * i = 1 + q * e2
        BY <3>10 DEF Same
      <4> DEFINE j == g * e2 + e1
      <4>5. j \in Int
        BY <3>11
      <4>6. ph = v + q * j
        <5>1. c * d = g * (d * i)
          BY <3>9, <3>10, <3>11, <4>2
        <5>2. g * (1 + q * e2) = g + q * (g * e2)
          BY <1>0, <3>11
        <5>3. pb + (g + q * (g * e2)) + q * e1 = v + q * j
          BY <1>0, <3>11, <4>1, <4>2
        <5> HIDE DEF j
        <5> QED
          BY <4>3, <4>4, <5>1, <5>2, <5>3
      <4> HIDE DEF j
      <4>7. Same(q, ph, v)
        BY <4>5, <4>6 DEF Same
      <4> QED
        BY <4>7 DEF ph, v
    <3>17. h \in Coefficient(Cardinality(T))
      BY <1>9, <3>3, <3>13
    <3>18. h \in Solutions(q, T, f)
      BY <3>14, <3>15, <3>16, <3>17 DEF Solutions
    <3> QED
      BY <3>18
  <2> QED
    BY <2>2, <2>3
<1>2. IsFiniteSet(S)
  BY InField
<1> HIDE DEF P
<1>3. S \in P
  BY <1>1, <1>2, SubsetInduction
<1> QED
  BY <1>3 DEF P

\* The coefficients may be taken modulo q.
Reduced(q, a, n) == [m \in 0 .. n - 1 |-> a[m] % q]

\* Coefficients may be taken from the field.
LEMMA PolynomialReduced ==
  ASSUME NEW q, PrimeNumber(q), NEW n \in Nat, NEW a \in Coefficient(n), NEW x \in Int
  PROVE  /\ Reduced(q, a, n) \in [0 .. n - 1 -> Field(q)] /\ Reduced(q, a, n) \in Coefficient(n)
         /\ Same(q, Polynomial(q, Reduced(q, a, n), x), Polynomial(q, a, x))
<1> DEFINE S == 0 .. n - 1
           r == Reduced(q, a, n)
           p == Powers(q, x)
           F == [m \in S |-> a[m] * p[m]]
           G == [m \in S |-> r[m] * p[m]]
<1>0. q \in Nat /\ q \in Int /\ q \in Nat \ {0} /\ IsFiniteSet(S)
  BY InField, FS_Interval
<1>1. ASSUME NEW m \in S
      PROVE  a[m] \in Int /\ p[m] \in Int /\ r[m] \in Field(q) /\ r[m] \in Int /\ Same(q, r[m], a[m])
  <2>1. m \in Nat /\ a[m] \in Int
    BY DEF Coefficient
  <2>2. p[m] \in Int
    BY <2>1, PowersIs
  <2>3. r[m] = a[m] % q
    BY DEF Reduced
  <2> QED
    BY <1>0, <2>1, <2>2, <2>3, Remainder
<1>2. r = [m \in S |-> r[m]]
  BY DEF Reduced
<1>3. PICK one \in Int : one = 1
  OBVIOUS
<1> HIDE DEF r
<1>4. r \in [S -> Field(q)] /\ r \in Coefficient(n)
  BY <1>1, <1>2 DEF Coefficient
<1>5. F \in [S -> Int] /\ Polynomial(q, a, x) = SumOver(q, F) /\ Polynomial(q, a, x) \in Int
  BY PolynomialType
<1>6. G \in [S -> Int] /\ Polynomial(q, r, x) = SumOver(q, G) /\ Polynomial(q, r, x) \in Int
  <2>1. r \in Coefficient(n)
    BY <1>4
  <2> QED
    BY <2>1, PolynomialType
<1>7. ASSUME NEW m \in S PROVE Same(q, G[m], one * F[m])
  <2> DEFINE u == r[m]
             v == a[m]
             w == p[m]
  <2>1. G[m] = u * w /\ F[m] = v * w
    OBVIOUS
  <2>2. u \in Int /\ v \in Int /\ w \in Int /\ Same(q, u, v)
    BY <1>1
  <2> HIDE DEF u, v, w, F, G
  <2>3. Same(q, u * w, v * w)
    BY <1>0, <2>2, SameItself, SameProduct
  <2>4. one * (v * w) = v * w
    BY <1>3, <2>2
  <2> QED
    BY <2>1, <2>3, <2>4
<1> HIDE DEF F, G, S
<1>8. Same(q, SumOver(q, G), one * SumOver(q, F))
  BY <1>0, <1>5, <1>6, <1>7, SumScaled
<1>9. one * SumOver(q, F) = SumOver(q, F)
  BY <1>3, <1>5
<1> QED
  BY <1>4, <1>5, <1>6, <1>8, <1>9 DEF r, S
=============================================================================
