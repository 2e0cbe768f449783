-------------------------- MODULE AlgorithmsProofs --------------------------
(***************************************************************************)
(* What is proved of Algorithms for inputs of any size: a Merkle branch    *)
(* shows its own leaf, what is sent or written into a key file comes out   *)
(* as it went in, any K stripes decode alike, and the shares of any k      *)
(* players combine to one result that fewer know nothing of. The messages  *)
(* in bytes are taken apart field by field with operators that name their  *)
(* parts (Then, Led, Sizes, Message).                                      *)
(***************************************************************************)
EXTENDS Algorithms, Foundations

-----------------------------------------------------------------------------
(* Numbers.                                                                *)

\* The powers of two, one after the other.
LEMMA PowersOfTwo ==
  /\ PowerOf2[0] = 1
  /\ \A n \in Nat : PowerOf2[n] \in Nat \ {0}
  /\ \A n \in Nat \ {0} : PowerOf2[n] = 2 * PowerOf2[n - 1]
<1> DEFINE step  == [x \in Nat |-> 2 * x]
           Is(h) == h = [n \in Nat |-> IF n = 0 THEN 1 ELSE 2 * h[n - 1]]
           all   == CHOOSE h : Is(h)
<1>1. PowerOf2 = all
  BY DEF PowerOf2
<1>2. step \in [Nat -> Nat] /\ \A x \in Nat : step[x] = 2 * x
  OBVIOUS
<1> HIDE DEF step
<1>3. PICK g \in [Nat -> Nat] : g[0] = 1 /\ \A n \in Nat \ {0} : g[n] = step[g[n - 1]]
  <2>1. Onward(Nat, 1, step) # {}
    BY <1>2, BuiltOnward
  <2> QED
    BY <2>1 DEF Onward
<1>4. \A n \in Nat \ {0} : n - 1 \in Nat /\ g[n] = 2 * g[n - 1]
  BY <1>2, <1>3
<1>5. Is(g)
  BY <1>3, <1>4
<1>6. Is(all)
  BY <1>5
<1> HIDE DEF all
<1>7. all[0] = 1 /\ \A n \in Nat \ {0} : all[n] = 2 * all[n - 1]
  BY <1>6
<1>8. ASSUME NEW m \in Nat PROVE all[m] \in Nat \ {0}
  <2> DEFINE P == {n \in 0 .. m : all[n] \in Nat \ {0}}
  <2>1. 0 \in P /\ \A n \in 1 .. m : n - 1 \in P => n \in P
    BY <1>7
  <2> HIDE DEF P
  <2>2. 0 .. m \subseteq P
    BY <2>1, UpTo
  <2>3. m \in P
    BY <2>2
  <2> QED
    BY <2>3 DEF P
<1> QED
  BY <1>1, <1>7, <1>8

\* A number is halved level by level.
LEMMA Halving ==
  ASSUME NEW t \in Nat
  PROVE  /\ Halves(t)[0] = t
         /\ \A n \in Nat \ {0} : Halves(t)[n] = Halves(t)[n - 1] \div 2
<1> DEFINE step  == [x \in Nat |-> x \div 2]
           Is(h) == h = [n \in Nat |-> IF n = 0 THEN t ELSE h[n - 1] \div 2]
           all   == CHOOSE h : Is(h)
<1>1. Halves(t) = all
  BY DEF Halves
<1>2. step \in [Nat -> Nat] /\ \A x \in Nat : step[x] = x \div 2
  OBVIOUS
<1> HIDE DEF step
<1>3. PICK g \in [Nat -> Nat] : g[0] = t /\ \A n \in Nat \ {0} : g[n] = step[g[n - 1]]
  <2>1. Onward(Nat, t, step) # {}
    BY <1>2, BuiltOnward
  <2> QED
    BY <2>1 DEF Onward
<1>4. \A n \in Nat \ {0} : n - 1 \in Nat /\ g[n] = g[n - 1] \div 2
  BY <1>2, <1>3
<1>5. Is(g)
  BY <1>3, <1>4
<1>6. Is(all)
  BY <1>5
<1> HIDE DEF all
<1> QED
  BY <1>1, <1>6

\* The tree has room for all leaves.
LEMMA Room ==
  ASSUME NEW size \in Nat
  PROVE  Depth(size) \in Nat /\ bottomrow(size) \in Nat \ {0} /\ bottomrow(size) >= size
<1>1. PowerOf2[size] >= size
  <2> DEFINE P == {n \in 0 .. size : PowerOf2[n] >= n + 1}
  <2>1. 0 \in P /\ \A n \in 1 .. size : n - 1 \in P => n \in P
    BY PowersOfTwo
  <2> HIDE DEF P
  <2>2. 0 .. size \subseteq P
    BY <2>1, UpTo
  <2>3. size \in P
    BY <2>2
  <2> QED
    BY <2>3, PowersOfTwo DEF P
<1> DEFINE T == {d \in 0 .. size : PowerOf2[d] >= size}
<1>2. T \in SUBSET Nat /\ T # {}
  BY <1>1
<1>3. PICK x \in T : \A y \in T : x <= y
  <2> HIDE DEF T
  <2> QED
    BY <1>2, Least
<1>4. x \in 0 .. size /\ PowerOf2[x] >= size /\ \A e \in 0 .. x - 1 : PowerOf2[e] < size
  <2>1. \A e \in 0 .. x - 1 : e \in Nat /\ e \notin T
    BY <1>3
  <2> QED
    BY <1>3, <2>1, PowersOfTwo
<1>5. Depth(size) \in 0 .. size /\ PowerOf2[Depth(size)] >= size
  BY <1>4 DEF Depth
<1> QED
  BY <1>5, PowersOfTwo DEF bottomrow

\* The way up from a leaf: after n levels the node is x[n] in its row, which begins at
\* the power of two that is as wide as the row; and it is right or left as x[n] is odd
\* or even.
LEMMA Path ==
  ASSUME NEW size \in Nat, NEW index \in 0 .. size - 1
  PROVE  LET d == Depth(size)
             b == bottomrow(size)
             t == Halves(index + b)
             x == Halves(index)
         IN /\ t[0] = index + b /\ t[d] = 1
            /\ \A n \in 1 .. d :
                 /\ t[n] \in 1 .. b - 1
                 /\ IF x[n - 1] % 2 = 1
                    THEN t[n - 1] = 2 * t[n] + 1 /\ sibling(t[n - 1]) = 2 * t[n]
                    ELSE t[n - 1] = 2 * t[n] /\ sibling(t[n - 1]) = 2 * t[n] + 1
<1> DEFINE d == Depth(size)
           b == bottomrow(size)
           t == Halves(index + b)
           x == Halves(index)
           w == [n \in 0 .. d |-> PowerOf2[d - n]]
           P == {n \in 0 .. d : /\ x[n] \in Nat /\ x[n] < w[n] /\ t[n] = x[n] + w[n]
                                /\ n > 0 => t[n] < b}
<1>1. d \in Nat /\ b \in Nat /\ b >= size /\ index < b /\ index \in Nat /\ w[0] = b
  BY Room DEF bottomrow
<1>2. w[d] = 1 /\ \A n \in 1 .. d : w[n] \in Nat /\ w[n - 1] = 2 * w[n]
  BY <1>1, PowersOfTwo
<1>3. x[0] = index /\ t[0] = index + b
  BY <1>1, Halving
<1>4. \A n \in 1 .. d : x[n] = x[n - 1] \div 2 /\ t[n] = t[n - 1] \div 2
  BY <1>1, Halving
<1> HIDE DEF d, b, t, x, w
<1>5. \A a, c \in Nat : /\ (a + 2 * c) \div 2 = (a \div 2) + c /\ a \div 2 \in Nat
                        /\ a < 2 * c => a \div 2 < c
                        /\ IF a % 2 = 1 THEN a = 2 * (a \div 2) + 1 ELSE a = 2 * (a \div 2)
  OBVIOUS
<1>6. 0 \in P
  BY <1>1, <1>3
<1>7. ASSUME NEW n \in 1 .. d, n - 1 \in P PROVE n \in P
  <2>1. /\ x[n - 1] \in Nat /\ x[n - 1] < 2 * w[n] /\ t[n - 1] = x[n - 1] + 2 * w[n]
        /\ n - 1 > 0 => t[n - 1] < b
    BY <1>2, <1>7
  <2>2. x[n] \in Nat /\ x[n] < w[n] /\ t[n] = x[n] + w[n]
    BY <1>2, <1>4, <1>5, <2>1
  <2>3. t[n] < b
    <3>1. CASE n = 1
      <4>1. t[1] = x[1] + w[1] /\ b = 2 * w[1] /\ x[1] < w[1] /\ x[1] \in Nat /\ w[1] \in Nat
        BY <1>1, <1>2, <2>2, <3>1
      <4> QED
        BY <3>1, <4>1
    <3>2. CASE n # 1
      <4>1. t[n - 1] < b /\ t[n] <= t[n - 1]
        BY <1>1, <1>2, <2>1, <2>2, <1>4, <1>5, <3>2
      <4> QED
        BY <1>1, <1>2, <2>1, <2>2, <4>1
    <3> QED
      BY <3>1, <3>2
  <2> QED
    BY <2>2, <2>3
<1> HIDE DEF P
<1>8. 0 .. d \subseteq P
  BY <1>1, <1>6, <1>7, UpTo
<1>9. \A n \in 0 .. d : x[n] \in Nat /\ x[n] < w[n] /\ t[n] = x[n] + w[n] /\ (n > 0 => t[n] < b)
  BY <1>8 DEF P
<1>10. t[d] = 1
  BY <1>1, <1>2, <1>9
<1>11. ASSUME NEW n \in 1 .. d
       PROVE  /\ t[n] \in 1 .. b - 1
              /\ IF x[n - 1] % 2 = 1
                 THEN t[n - 1] = 2 * t[n] + 1 /\ sibling(t[n - 1]) = 2 * t[n]
                 ELSE t[n - 1] = 2 * t[n] /\ sibling(t[n - 1]) = 2 * t[n] + 1
  <2>1. /\ x[n - 1] \in Nat /\ t[n - 1] = x[n - 1] + 2 * w[n] /\ w[n] \in Nat
        /\ x[n] \in Nat /\ x[n] < w[n] /\ t[n] = x[n] + w[n] /\ t[n] < b /\ x[n] = x[n - 1] \div 2
    BY <1>1, <1>2, <1>4, <1>9
  <2>2. t[n] \in 1 .. b - 1
    BY <1>1, <2>1
  <2>3. IF x[n - 1] % 2 = 1 THEN t[n - 1] = 2 * t[n] + 1 ELSE t[n - 1] = 2 * t[n]
    BY <1>5, <2>1
  <2>4. (2 * t[n] + 1) % 2 = 1 /\ (2 * t[n]) % 2 = 0 /\ (2 * t[n] + 1) - 1 = 2 * t[n]
    BY <2>2
  <2> QED
    BY <2>2, <2>3, <2>4 DEF sibling
<1> QED
  BY <1>3, <1>10, <1>11 DEF d, b, t, x

-----------------------------------------------------------------------------
(* Merkle trees.                                                           *)

\* An inner node is the hash of the two below it, and the bottom row has the hashes
\* of the leaves.
LEMMA Tree ==
  ASSUME NEW size \in Nat, NEW leaves
  PROVE  LET mt == merkleTree(leaves, size)
             b  == bottomrow(size)
         IN /\ DOMAIN mt = 1 .. 2 * b - 1
            /\ \A i \in 1 .. b - 1 : mt[i] = hash(mt[2 * i] \o mt[2 * i + 1])
            /\ \A i \in b .. 2 * b - 1 :
                 mt[i] = IF i - b < size THEN hash(leaves[i - b]) ELSE <<>>
<1> DEFINE b == bottomrow(size)
           top == 2 * b - 1
           At(fn, i) == IF i < b THEN hash(fn[2 * i] \o fn[2 * i + 1])
                       ELSE IF i - b < size THEN hash(leaves[i - b]) ELSE <<>>
           Is(fn) == fn = [i \in 1 .. 2 * b - 1 |-> At(fn, i)]
           mt == CHOOSE h : Is(h)
           P == {n \in 0 .. top : \E h : h = [i \in top - n + 1 .. top |-> At(h, i)]}
<1>1. merkleTree(leaves, size) = mt
  BY DEF merkleTree
<1>2. b \in Nat \ {0} /\ top \in Nat
  BY Room
<1> HIDE DEF b
<1>3. 0 \in P
  <2> DEFINE h == [i \in top + 1 .. top |-> 0]
  <2>1. h = [i \in top - 0 + 1 .. top |-> At(h, i)]
    <3>1. top + 1 .. top = {} /\ top - 0 + 1 .. top = {}
      BY <1>2
    <3> QED
      BY <3>1
  <2> HIDE DEF h
  <2> QED
    BY <1>2, <2>1
<1>4. ASSUME NEW n \in 1 .. top, n - 1 \in P PROVE n \in P
  <2>1. PICK h : h = [i \in top - (n - 1) + 1 .. top |-> At(h, i)]
    BY <1>4
  <2> DEFINE low == top - n + 1
             g   == [i \in low .. top |-> IF i = low THEN At(h, i) ELSE h[i]]
  <2>2. low \in Nat /\ low >= 1 /\ top - (n - 1) + 1 = low + 1
    BY <1>2
  <2>3. \A i \in low + 1 .. top : h[i] = At(h, i)
    <3> HIDE DEF At
    <3> QED
      BY <2>1, <2>2
  <2>4. \A i \in low + 1 .. top : g[i] = h[i]
    BY <2>2
  <2>5. g[low] = At(h, low)
    <3>1. low \in low .. top
      BY <1>2, <2>2
    <3> HIDE DEF At
    <3> QED
      BY <3>1
  <2> HIDE DEF g, low
  <2>6. ASSUME NEW i \in low .. top PROVE At(g, i) = At(h, i)
    <3>1. CASE i < b
      <4>1. 2 * i \in low + 1 .. top /\ 2 * i + 1 \in low + 1 .. top
        BY <1>2, <2>2, <3>1
      <4> QED
        BY <2>4, <3>1, <4>1
    <3> QED
      BY <3>1
  <2>7. ASSUME NEW i \in low .. top PROVE g[i] = At(g, i)
    <3>1. CASE i = low
      BY <2>5, <2>6, <3>1
    <3>2. CASE i # low
      <4>1. i \in low + 1 .. top
        BY <1>2, <2>2, <3>2
      <4> QED
        BY <2>3, <2>4, <2>6, <4>1
    <3> QED
      BY <3>1, <3>2
  <2>8. g = [i \in low .. top |-> At(g, i)]
    <3>1. g = [i \in low .. top |-> g[i]]
      BY DEF g
    <3> HIDE DEF At
    <3> QED
      BY <2>7, <3>1
  <2>9. \E fn : fn = [i \in top - n + 1 .. top |-> At(fn, i)]
    BY <2>8 DEF low
  <2> HIDE DEF At
  <2> QED
    BY <1>4, <2>9
<1> HIDE DEF P
<1>5. 0 .. top \subseteq P
  BY <1>2, <1>3, <1>4, UpTo
<1>6. \E h : Is(h)
  <2>1. top \in P
    BY <1>2, <1>5
  <2>2. top - top + 1 = 1
    BY <1>2
  <2> QED
    BY <2>1, <2>2 DEF P
<1>7. Is(mt)
  BY <1>6
<1>11. DOMAIN mt = 1 .. 2 * b - 1
  <2> HIDE DEF At, mt
  <2> QED
    BY <1>7
<1> HIDE DEF mt
<1>8. \A i \in 1 .. 2 * b - 1 : mt[i] = At(mt, i)
  <2> HIDE DEF At
  <2> QED
    BY <1>7
<1>9. ASSUME NEW i \in 1 .. b - 1 PROVE mt[i] = hash(mt[2 * i] \o mt[2 * i + 1])
  BY <1>2, <1>8
<1>10. ASSUME NEW i \in b .. 2 * b - 1
       PROVE  mt[i] = IF i - b < size THEN hash(leaves[i - b]) ELSE <<>>
  BY <1>2, <1>8
<1> QED
  BY <1>1, <1>9, <1>10, <1>11 DEF b

\* All nodes are strings of at most one symbol.
LEMMA TreeStrings ==
  ASSUME NEW size \in Nat, NEW leaves
  PROVE  \E T : \A i \in 1 .. 2 * bottomrow(size) - 1 : merkleTree(leaves, size)[i] \in Seq(T)
<1> DEFINE mt == merkleTree(leaves, size)
           b  == bottomrow(size)
           T  == {mt[i][1] : i \in 1 .. 2 * b - 1}
<1>1. b \in Nat
  BY Room
<1>2. /\ \A i \in 1 .. b - 1 : mt[i] = hash(mt[2 * i] \o mt[2 * i + 1])
      /\ \A i \in b .. 2 * b - 1 : mt[i] = IF i - b < size THEN hash(leaves[i - b]) ELSE <<>>
  BY Tree
<1> HIDE DEF mt, b
<1>3. ASSUME NEW i \in 1 .. 2 * b - 1 PROVE (\E v : mt[i] = <<v>>) \/ mt[i] = <<>>
  <2>1. i \in 1 .. b - 1 \/ i \in b .. 2 * b - 1
    BY <1>1
  <2> QED
    BY <1>2, <2>1 DEF hash
<1>4. ASSUME NEW i \in 1 .. 2 * b - 1 PROVE mt[i] \in Seq(T)
  <2>1. mt[i][1] \in T
    OBVIOUS
  <2> HIDE DEF T
  <2>2. ASSUME NEW v, mt[i] = <<v>> PROVE mt[i] \in Seq(T)
    <3>1. v \in T
      BY <2>1, <2>2
    <3> QED
      BY <2>2, <3>1
  <2>3. <<>> \in Seq(T)
    OBVIOUS
  <2>4. ASSUME mt[i] = <<>> PROVE mt[i] \in Seq(T)
    BY <2>3, <2>4
  <2> QED
    BY <1>3, <2>2, <2>4
<1> HIDE DEF T
<1> QED
  BY <1>4 DEF mt, b

\* The hashes on the way up, one by one.
LEMMA Climbing ==
  ASSUME NEW val, NEW branch, Len(branch) \in Nat, NEW index
  PROVE  LET up == Climb(val, branch, index)
         IN /\ up[0] = hash(val)
            /\ \A n \in 1 .. Len(branch) :
                 up[n] = IF IsRight(index, n) THEN hash(branch[n] \o up[n - 1])
                         ELSE hash(up[n - 1] \o branch[n])
<1> DEFINE L == Len(branch)
           At(h, n) == IF n = 0 THEN hash(val)
                       ELSE IF IsRight(index, n) THEN hash(branch[n] \o h[n - 1])
                            ELSE hash(h[n - 1] \o branch[n])
           Is(h) == h = [n \in 0 .. L |-> At(h, n)]
           up == CHOOSE h : Is(h)
           P == {n \in 0 .. L : \E h : h = [m \in 0 .. n |-> At(h, m)]}
<1>1. Climb(val, branch, index) = up
  BY DEF Climb
<1>2. 0 \in P
  <2> DEFINE h == [m \in 0 .. 0 |-> hash(val)]
  <2>1. h = [m \in 0 .. 0 |-> At(h, m)]
    OBVIOUS
  <2> HIDE DEF h
  <2> QED
    BY <2>1
<1>3. ASSUME NEW n \in 1 .. L, n - 1 \in P PROVE n \in P
  <2>1. PICK h : h = [m \in 0 .. n - 1 |-> At(h, m)]
    BY <1>3
  <2> DEFINE g == [m \in 0 .. n |-> IF m = n THEN At(h, m) ELSE h[m]]
  <2>2. \A m \in 0 .. n - 1 : h[m] = At(h, m)
    <3> HIDE DEF At
    <3> QED
      BY <2>1
  <2>3. \A m \in 0 .. n - 1 : g[m] = h[m]
    OBVIOUS
  <2>4. g[n] = At(h, n)
    <3> HIDE DEF At
    <3> QED
      OBVIOUS
  <2>5. g = [m \in 0 .. n |-> g[m]]
    OBVIOUS
  <2> HIDE DEF g
  <2>6. ASSUME NEW m \in 0 .. n PROVE At(g, m) = At(h, m)
    <3>1. CASE m # 0
      <4>1. m - 1 \in 0 .. n - 1
        BY <3>1
      <4> QED
        BY <2>3, <3>1, <4>1
    <3> QED
      BY <3>1
  <2>7. ASSUME NEW m \in 0 .. n PROVE g[m] = At(g, m)
    <3>1. CASE m = n
      BY <2>4, <2>6, <3>1
    <3>2. CASE m # n
      <4>1. m \in 0 .. n - 1
        BY <3>2
      <4> QED
        BY <2>2, <2>3, <2>6, <4>1
    <3> QED
      BY <3>1, <3>2
  <2>8. g = [m \in 0 .. n |-> At(g, m)]
    <3> HIDE DEF At
    <3> QED
      BY <2>5, <2>7
  <2> QED
    BY <2>8
<1> HIDE DEF P, L
<1>4. L \in Nat
  BY DEF L
<1>5. L \in P
  <2>1. 0 .. L \subseteq P
    BY <1>2, <1>3, <1>4, UpTo
  <2> QED
    BY <1>4, <2>1
<1>6. Is(up)
  BY <1>5 DEF P
<1> HIDE DEF up
<1>7. \A n \in 0 .. L : up[n] = At(up, n)
  <2> HIDE DEF At
  <2> QED
    BY <1>6
<1>8. up[0] = hash(val) /\ \A n \in 1 .. L : up[n] = At(up, n) /\ n # 0
  <2>1. up[0] = At(up, 0)
    BY <1>4, <1>7
  <2>2. \A n \in 1 .. L : n \in 0 .. L /\ n # 0
    BY <1>4
  <2> QED
    BY <1>7, <2>1, <2>2
<1> QED
  BY <1>1, <1>8 DEF L

\* Equal strings that end with one symbol each.
LEMMA SplitLast ==
  ASSUME NEW S, NEW T, NEW x \in Seq(S), NEW y \in Seq(T), NEW u, NEW v,
         x \o <<u>> = y \o <<v>>
  PROVE  x = y /\ u = v
<1> DEFINE R == (S \cup {u}) \cup (T \cup {v})
<1>1. x \in Seq(R) /\ y \in Seq(R) /\ u \in R /\ v \in R
  OBVIOUS
<1> HIDE DEF R
<1>2. Len(x) = Len(y)
  <2>1. Len(x \o <<u>>) = Len(x) + 1 /\ Len(y \o <<v>>) = Len(y) + 1
    BY <1>1
  <2> QED
    BY <1>1, <2>1
<1>3. (x \o <<u>>)[Len(x) + 1] = u /\ (y \o <<v>>)[Len(y) + 1] = v
  BY <1>1
<1>4. \A n \in 1 .. Len(x) : (x \o <<u>>)[n] = x[n] /\ (y \o <<v>>)[n] = y[n]
  BY <1>1, <1>2
<1>5. \A n \in 1 .. Len(x) : x[n] = y[n]
  BY <1>4
<1> QED
  BY <1>1, <1>2, <1>3, <1>5

\* Equal strings that begin with one symbol each.
LEMMA SplitFirst ==
  ASSUME NEW S, NEW T, NEW x \in Seq(S), NEW y \in Seq(T), NEW u, NEW v,
         <<u>> \o x = <<v>> \o y
  PROVE  x = y /\ u = v
<1> DEFINE R == (S \cup {u}) \cup (T \cup {v})
<1>1. x \in Seq(R) /\ y \in Seq(R) /\ u \in R /\ v \in R
  OBVIOUS
<1> HIDE DEF R
<1>2. Len(x) = Len(y)
  <2>1. Len(<<u>> \o x) = Len(x) + 1 /\ Len(<<v>> \o y) = Len(y) + 1
    BY <1>1
  <2> QED
    BY <1>1, <2>1
<1>3. (<<u>> \o x)[1] = u /\ (<<v>> \o y)[1] = v
  BY <1>1
<1>4. \A n \in 1 .. Len(x) : (<<u>> \o x)[n + 1] = x[n] /\ (<<v>> \o y)[n + 1] = y[n]
  BY <1>1, <1>2
<1>5. \A n \in 1 .. Len(x) : x[n] = y[n]
  BY <1>4
<1> QED
  BY <1>1, <1>2, <1>3, <1>5

\* A branch is accepted for an index if and only if it is the branch of that leaf in
\* the tree, and the value is the leaf: whatever strings the branch is made of, and
\* for trees of any size. A hash has one symbol, so that the end of a branch that was
\* wrong at one level cannot be right at the next.
LEMMA OwnLeaf ==
  ASSUME NEW size \in Nat, NEW index \in 0 .. size - 1, NEW leaves, NEW val,
         NEW S, NEW branch \in Seq(Seq(S))
  PROVE  LET mt == merkleTree(leaves, size)
         IN merkleVerify(size, val, mt[1], branch, index) <=>
              val = leaves[index] /\ branch = getMerkleBranch(index, mt, size)
<1> DEFINE mt == merkleTree(leaves, size)
           d  == Depth(size)
           b  == bottomrow(size)
           t  == Halves(index + b)
           x  == Halves(index)
           up == Climb(val, branch, index)
<1>1. d \in Nat /\ b \in Nat /\ b >= size /\ Len(branch) \in Nat
  <2>1. Len(branch) \in Nat
    OBVIOUS
  <2> QED
    BY <2>1, Room
<1>2. /\ t[0] = index + b /\ t[d] = 1
      /\ \A n \in 1 .. d :
           /\ t[n] \in 1 .. b - 1
           /\ IF x[n - 1] % 2 = 1
              THEN t[n - 1] = 2 * t[n] + 1 /\ sibling(t[n - 1]) = 2 * t[n]
              ELSE t[n - 1] = 2 * t[n] /\ sibling(t[n - 1]) = 2 * t[n] + 1
  BY Path
<1>3. /\ \A i \in 1 .. b - 1 : mt[i] = hash(mt[2 * i] \o mt[2 * i + 1])
      /\ \A i \in b .. 2 * b - 1 : mt[i] = IF i - b < size THEN hash(leaves[i - b]) ELSE <<>>
  BY Tree
<1>4. /\ up[0] = hash(val)
      /\ \A n \in 1 .. Len(branch) :
           up[n] = IF x[n - 1] % 2 = 1 THEN hash(branch[n] \o up[n - 1])
                   ELSE hash(up[n - 1] \o branch[n])
  BY <1>1, Climbing DEF IsRight
<1>5. merkleVerify(size, val, mt[1], branch, index) <=> Len(branch) = d /\ up[Len(branch)] = mt[1]
  BY DEF merkleVerify
<1>6. getMerkleBranch(index, mt, size) = [n \in 1 .. d |-> mt[sibling(t[n - 1])]]
  BY DEF getMerkleBranch
<1>7. PICK T : \A i \in 1 .. 2 * b - 1 : mt[i] \in Seq(T)
  BY TreeStrings
<1> HIDE DEF mt, d, b, t, x, up
<1>8. mt[t[0]] = hash(leaves[index])
  BY <1>1, <1>2, <1>3
<1>9. ASSUME NEW n \in 0 .. d PROVE \E v : mt[t[n]] = <<v>>
  <2>1. CASE n = 0
    BY <1>8, <2>1 DEF hash
  <2>2. CASE n # 0
    <3>1. t[n] \in 1 .. b - 1
      BY <1>1, <1>2, <2>2
    <3> QED
      BY <1>3, <3>1 DEF hash
  <2> QED
    BY <2>1, <2>2
<1>10. ASSUME Len(branch) = d, NEW n \in 1 .. d
       PROVE  up[n] = mt[t[n]] <=> up[n - 1] = mt[t[n - 1]] /\ branch[n] = mt[sibling(t[n - 1])]
  <2>1. PICK u : up[n - 1] = <<u>>
    <3>1. n - 1 = 0 \/ n - 1 \in 1 .. Len(branch)
      BY <1>1, <1>10
    <3> QED
      BY <1>4, <3>1 DEF hash
  <2>2. PICK v : mt[t[n - 1]] = <<v>>
    <3>1. n - 1 \in 0 .. d
      BY <1>1
    <3> QED
      BY <1>9, <3>1
  <2>3. sibling(t[n - 1]) \in 1 .. 2 * b - 1
    <3>1. t[n] \in 1 .. b - 1 /\ (sibling(t[n - 1]) = 2 * t[n] \/ sibling(t[n - 1]) = 2 * t[n] + 1)
      BY <1>2
    <3> QED
      BY <1>1, <3>1
  <2>4. mt[sibling(t[n - 1])] \in Seq(T)
    BY <1>7, <2>3
  <2>5. branch[n] \in Seq(S)
    BY <1>10
  <2>6. mt[t[n]] = hash(mt[2 * t[n]] \o mt[2 * t[n] + 1])
    BY <1>2, <1>3
  <2> DEFINE c == branch[n]
             m == mt[sibling(t[n - 1])]
  <2>7. /\ c \o <<u>> = m \o <<v>> => c = m /\ u = v
        /\ <<u>> \o c = <<v>> \o m => c = m /\ u = v
    <3>1. c \in Seq(S) /\ m \in Seq(T)
      BY <2>4, <2>5
    <3> HIDE DEF c, m
    <3>2. ASSUME c \o <<u>> = m \o <<v>> PROVE c = m /\ u = v
      BY <3>1, <3>2, SplitLast, SMTT(30)
    <3>3. ASSUME <<u>> \o c = <<v>> \o m PROVE c = m /\ u = v
      BY <3>1, <3>3, SplitFirst
    <3> QED
      BY <3>2, <3>3
  <2> HIDE DEF c, m
  <2>8. CASE x[n - 1] % 2 = 1
    <3>1. up[n] = hash(c \o <<u>>)
      BY <1>4, <1>10, <2>1, <2>8 DEF c
    <3>2. mt[t[n]] = hash(m \o <<v>>)
      BY <1>2, <2>2, <2>6, <2>8 DEF m
    <3>3. up[n] = mt[t[n]] <=> c \o <<u>> = m \o <<v>>
      BY <3>1, <3>2 DEF hash
    <3>4. up[n] = mt[t[n]] <=> c = m /\ u = v
      BY <2>7, <3>3
    <3> QED
      BY <2>1, <2>2, <3>4 DEF c, m
  <2>9. CASE x[n - 1] % 2 # 1
    <3>1. up[n] = hash(<<u>> \o c)
      BY <1>4, <1>10, <2>1, <2>9 DEF c
    <3>2. mt[t[n]] = hash(<<v>> \o m)
      BY <1>2, <2>2, <2>6, <2>9 DEF m
    <3>3. up[n] = mt[t[n]] <=> <<u>> \o c = <<v>> \o m
      BY <3>1, <3>2 DEF hash
    <3>4. up[n] = mt[t[n]] <=> c = m /\ u = v
      BY <2>7, <3>3
    <3> QED
      BY <2>1, <2>2, <3>4 DEF c, m
  <2> QED
    BY <2>8, <2>9
<1>11. ASSUME Len(branch) = d, up[d] = mt[t[d]]
       PROVE  up[0] = mt[t[0]] /\ \A n \in 1 .. d : branch[n] = mt[sibling(t[n - 1])]
  <2> DEFINE P == {n \in 0 .. d : up[d - n] = mt[t[d - n]]}
  <2>1. 0 \in P
    BY <1>1, <1>11
  <2>2. ASSUME NEW n \in 1 .. d, n - 1 \in P PROVE n \in P
    <3>1. d - (n - 1) \in 1 .. d /\ d - (n - 1) - 1 = d - n
      BY <1>1
    <3>2. up[d - (n - 1)] = mt[t[d - (n - 1)]]
      BY <2>2
    <3>3. up[d - n] = mt[t[d - n]]
      BY <1>10, <1>11, <3>1, <3>2
    <3> QED
      BY <1>1, <3>3
  <2> HIDE DEF P
  <2>3. 0 .. d \subseteq P
    BY <1>1, <2>1, <2>2, UpTo
  <2>4. ASSUME NEW n \in 0 .. d PROVE up[n] = mt[t[n]]
    <3>1. d - n \in P /\ d - (d - n) = n
      BY <1>1, <2>3
    <3> QED
      BY <3>1 DEF P
  <2>5. \A n \in 1 .. d : branch[n] = mt[sibling(t[n - 1])]
    BY <1>10, <1>11, <2>4
  <2> QED
    BY <1>1, <2>4, <2>5
<1>12. ASSUME Len(branch) = d, up[0] = mt[t[0]], \A n \in 1 .. d : branch[n] = mt[sibling(t[n - 1])]
       PROVE  up[d] = mt[t[d]]
  <2> DEFINE P == {n \in 0 .. d : up[n] = mt[t[n]]}
  <2>1. 0 \in P
    BY <1>1, <1>12
  <2>2. ASSUME NEW n \in 1 .. d, n - 1 \in P PROVE n \in P
    BY <1>10, <1>12, <2>2
  <2> HIDE DEF P
  <2>3. 0 .. d \subseteq P
    BY <1>1, <2>1, <2>2, UpTo
  <2>4. d \in P
    BY <1>1, <2>3
  <2> QED
    BY <2>4 DEF P
<1>13. up[0] = mt[t[0]] <=> val = leaves[index]
  BY <1>4, <1>8 DEF hash
<1>14. branch = getMerkleBranch(index, mt, size)
         <=> Len(branch) = d /\ \A n \in 1 .. d : branch[n] = mt[sibling(t[n - 1])]
  <2> DEFINE g == [n \in 1 .. d |-> mt[sibling(t[n - 1])]]
  <2>1. branch = [n \in 1 .. Len(branch) |-> branch[n]] /\ DOMAIN branch = 1 .. Len(branch)
    OBVIOUS
  <2>2. ASSUME branch = g PROVE Len(branch) = d
    <3>1. 1 .. Len(branch) = 1 .. d
      BY <2>1, <2>2
    <3> QED
      BY <1>1, <3>1
  <2>3. \A n \in 1 .. d : g[n] = mt[sibling(t[n - 1])]
    OBVIOUS
  <2>4. DOMAIN g = 1 .. d /\ g = [n \in 1 .. d |-> g[n]]
    OBVIOUS
  <2> HIDE DEF g
  <2>5. ASSUME Len(branch) = d, \A n \in 1 .. d : branch[n] = mt[sibling(t[n - 1])] PROVE branch = g
    BY <2>1, <2>3, <2>4, <2>5
  <2>6. getMerkleBranch(index, mt, size) = g
    BY <1>6 DEF g
  <2> QED
    BY <2>2, <2>3, <2>5, <2>6
<1>15. merkleVerify(size, val, mt[1], branch, index)
         <=> val = leaves[index] /\ branch = getMerkleBranch(index, mt, size)
  BY <1>2, <1>5, <1>11, <1>12, <1>13, <1>14
<1> QED
  BY <1>15 DEF mt

-----------------------------------------------------------------------------
(* Strings.                                                                *)

\* Parts of two strings put together.
LEMMA Parts ==
  ASSUME NEW S, NEW x \in Seq(S), NEW y \in Seq(S)
  PROVE  /\ x \o y \in Seq(S) /\ Len(x \o y) = Len(x) + Len(y)
         /\ \A n \in 1 .. Len(x) : (x \o y)[n] = x[n]
         /\ \A n \in 1 .. Len(y) : (x \o y)[Len(x) + n] = y[n]
         /\ SubSeq(x \o y, 1, Len(x)) = x
         /\ From(x \o y, Len(x) + 1) = y
<1>1. x \o y \in Seq(S) /\ Len(x \o y) = Len(x) + Len(y)
  OBVIOUS
<1>2. \A n \in 1 .. Len(x) : (x \o y)[n] = x[n]
  OBVIOUS
<1>3. \A n \in 1 .. Len(y) : (x \o y)[Len(x) + n] = y[n]
  OBVIOUS
<1> DEFINE z == x \o y
<1>4. z \in Seq(S) /\ Len(z) = Len(x) + Len(y)
  BY <1>1
<1> HIDE DEF z
<1>5. SubSeq(z, 1, Len(x)) = x
  <2>1. SubSeq(z, 1, Len(x)) \in Seq(S) /\ Len(SubSeq(z, 1, Len(x))) = Len(x)
    BY <1>4
  <2>2. \A n \in 1 .. Len(x) : SubSeq(z, 1, Len(x))[n] = x[n]
    BY <1>2, <1>4 DEF z
  <2> QED
    BY <2>1, <2>2
<1>6. From(z, Len(x) + 1) = y
  <2>1. From(z, Len(x) + 1) \in Seq(S) /\ Len(From(z, Len(x) + 1)) = Len(y)
    BY <1>4 DEF From
  <2>2. \A n \in 1 .. Len(y) : From(z, Len(x) + 1)[n] = y[n]
    <3>1. \A n \in 1 .. Len(y) : From(z, Len(x) + 1)[n] = z[Len(x) + n]
      BY <1>4 DEF From
    <3> QED
      BY <1>3, <3>1 DEF z
  <2> QED
    BY <2>1, <2>2
<1> QED
  BY <1>1, <1>2, <1>3, <1>5, <1>6 DEF z

\* Sequences by name, so that facts about them can be cited.
Then(x, y)       == x \o y
Two(a, b)        == <<a, b>>
Three(a, b, c)   == <<a, b, c>>
Four(a, b, c, d) == <<a, b, c, d>>

\* Strings put together one after the other, or the last two first.
LEMMA ThreeGrouped ==
  ASSUME NEW S, NEW x \in Seq(S), NEW y \in Seq(S), NEW z \in Seq(S)
  PROVE  Then(Then(x, y), z) = Then(x, Then(y, z))
<1>1. (x \o y) \o z = x \o (y \o z)
  OBVIOUS
<1> QED
  BY <1>1 DEF Then

\* The same with four of them.
LEMMA FourGrouped ==
  ASSUME NEW S, NEW x \in Seq(S), NEW y \in Seq(S), NEW z \in Seq(S), NEW u \in Seq(S)
  PROVE  Then(Then(Then(x, y), z), u) = Then(x, Then(y, Then(z, u)))
<1>1. ((x \o y) \o z) = x \o (y \o z)
  OBVIOUS
<1>2. y \o z \in Seq(S)
  OBVIOUS
<1> DEFINE w == y \o z
<1> HIDE DEF w
<1>3. w \in Seq(S)
  BY <1>2 DEF w
<1>4. (x \o w) \o u = x \o (w \o u)
  BY <1>3, SMTT(30)
<1>5. (y \o z) \o u = y \o (z \o u)
  OBVIOUS
<1> QED
  BY <1>1, <1>4, <1>5 DEF w, Then

\* Three characters one after the other.
LEMMA ThreeAtOnce ==
  ASSUME NEW S, NEW x \in Seq(S), NEW a \in S, NEW b \in S, NEW c \in S
  PROVE  Then(Then(Then(x, <<a>>), <<b>>), <<c>>) = Then(x, <<a, b, c>>)
<1>1. <<a>> \in Seq(S) /\ <<a, b>> \in Seq(S) /\ <<a, b>> = Append(<<a>>, b) /\ <<a, b, c>> = Append(<<a, b>>, c)
  OBVIOUS
<1>2. ASSUME NEW y \in Seq(S), NEW d \in S
      PROVE  y \o <<d>> = Append(y, d) /\ x \o Append(y, d) = Append(x \o y, d) /\ x \o y \in Seq(S)
  OBVIOUS
<1>3. x \o <<a, b>> = (x \o <<a>>) \o <<b>>
  <2>1. x \o <<a, b>> = Append(x \o <<a>>, b)
    BY <1>1, <1>2
  <2>2. x \o <<a>> \in Seq(S)
    BY <1>1, <1>2
  <2> QED
    BY <1>2, <2>1, <2>2
<1>4. x \o <<a, b, c>> = (x \o <<a, b>>) \o <<c>>
  <2>1. x \o <<a, b, c>> = Append(x \o <<a, b>>, c)
    BY <1>1, <1>2
  <2>2. x \o <<a, b>> \in Seq(S)
    BY <1>1, <1>2
  <2> QED
    BY <1>2, <2>1, <2>2
<1> QED
  BY <1>3, <1>4 DEF Then

-----------------------------------------------------------------------------
(* The bytes of numbers.                                                   *)

\* A number, byte after byte, and what is left of it.
LEMMA Uppers ==
  ASSUME NEW x \in Nat
  PROVE  LET y(n) == Upper(x, n)
         IN /\ y(0) = x /\ y(1) = x \div 256 /\ y(2) = y(1) \div 256
            /\ y(3) = y(2) \div 256 /\ y(4) = y(3) \div 256
            /\ \A n \in 0 .. 4 : y(n) \in Nat
<1> DEFINE h == <<x \div 256, (x \div 256) \div 256, ((x \div 256) \div 256) \div 256,
                  (((x \div 256) \div 256) \div 256) \div 256>>
           v == [m \in 0 .. 4 |-> IF m = 0 THEN x ELSE h[m]]
<1>1. v[0] = x /\ v[1] = v[0] \div 256 /\ v[2] = v[1] \div 256 /\ v[3] = v[2] \div 256 /\ v[4] = v[3] \div 256
  OBVIOUS
<1>2. v = [m \in 0 .. 4 |-> v[m]]
  OBVIOUS
<1> HIDE DEF h, v
<1>3. \A m \in 0 .. 4 : v[m] \in Nat
  <2>1. v[0] \in Nat /\ v[1] \in Nat
    BY <1>1
  <2>2. v[2] \in Nat
    BY <1>1, <2>1
  <2>3. v[3] \in Nat
    BY <1>1, <2>2
  <2>4. v[4] \in Nat
    BY <1>1, <2>3
  <2> QED
    BY <2>1, <2>2, <2>3, <2>4
<1>4. \A m \in 0 .. 4 : v[m] = IF m = 0 THEN x ELSE v[m - 1] \div 256
  BY <1>1
<1>5. ASSUME NEW n \in 0 .. 4 PROVE Upper(x, n) = v[n]
  <2> DEFINE Is(g) == g = [m \in 0 .. n |-> IF m = 0 THEN x ELSE g[m - 1] \div 256]
             u     == CHOOSE g : Is(g)
  <2>1. Upper(x, n) = u[n]
    BY DEF Upper
  <2>2. Is([m \in 0 .. n |-> v[m]])
    <3>1. ASSUME NEW m \in 0 .. n, m # 0
          PROVE  m - 1 \in 0 .. n /\ v[m] = [i \in 0 .. n |-> v[i]][m - 1] \div 256
      BY <1>4, <3>1
    <3>2. v[0] = x
      BY <1>1
    <3> QED
      BY <3>1, <3>2
  <2>3. Is(u)
    <3> HIDE DEF Is
    <3> QED
      BY <2>2
  <2>4. \A m \in 0 .. n : u[m] = IF m = 0 THEN x ELSE u[m - 1] \div 256
    <3> HIDE DEF u
    <3> QED
      BY <2>3
  <2> HIDE DEF u
  <2> DEFINE P == {m \in 0 .. n : u[m] = v[m]}
  <2>5. 0 \in P
    BY <1>1, <2>4
  <2>6. ASSUME NEW m \in 1 .. n, m - 1 \in P PROVE m \in P
    BY <1>4, <2>4, <2>6
  <2> HIDE DEF P
  <2>7. 0 .. n \subseteq P
    BY <2>5, <2>6, UpTo
  <2> QED
    BY <2>1, <2>7 DEF P
<1> QED
  BY <1>1, <1>3, <1>5

\* The bytes of a number.
LEMMA Bytewise ==
  ASSUME NEW x \in Nat, NEW w \in {1, 2, 4}
  PROVE  /\ Little(w, x) \in Seq(Byte) /\ Len(Little(w, x)) = w
         /\ \A n \in 1 .. w : Little(w, x)[n] = Upper(x, n - 1) % 256
<1>1. \A n \in 0 .. 4 : Upper(x, n) \in Nat
  BY Uppers
<1>2. \A n \in 0 .. 4 : Upper(x, n) % 256 \in Byte
  BY <1>1 DEF Byte
<1>3. Little(w, x) = [n \in 1 .. w |-> Upper(x, n - 1) % 256]
  BY DEF Little
<1>4. \A n \in 1 .. w : n - 1 \in 0 .. 4
  OBVIOUS
<1>5. Little(w, x) \in [1 .. w -> Byte]
  BY <1>2, <1>3, <1>4
<1>6. w \in Nat
  OBVIOUS
<1>7. Little(w, x) \in Seq(Byte) /\ Len(Little(w, x)) = w
  BY <1>5, <1>6
<1> QED
  BY <1>3, <1>7

\* A number of one byte.
LEMMA OneByte ==
  ASSUME NEW x \in Nat
  PROVE  /\ Fits(1, x) <=> x < 256
         /\ x < 256 => Little(1, x) = <<x>>
<1>1. Upper(x, 0) = x /\ Upper(x, 1) = x \div 256
  BY Uppers
<1>2. Little(1, x) = [n \in 1 .. 1 |-> Upper(x, n - 1) % 256]
  BY DEF Little
<1>3. Little(1, x) = <<x % 256>>
  BY <1>1, <1>2
<1> QED
  BY <1>1, <1>3 DEF Fits

\* What the bytes from each place on come to.
AddsUp(g, width, buf) ==
  g[width + 1] = 0 /\ \A n \in 1 .. width : g[n] = buf[n] + 256 * g[n + 1]

\* Bytes that are read as a number again.
LEMMA NumberOfBytes ==
  ASSUME NEW buf, NEW width \in {2, 4}, \A n \in 1 .. width : buf[n] \in Nat
  PROVE  \E g : Number(width, buf) = g[1] /\ AddsUp(g, width, buf)
<1>1. \E g : g = [n \in 1 .. width + 1 |-> IF n > width THEN 0 ELSE buf[n] + 256 * g[n + 1]]
  <2>1. CASE width = 2
    <3> DEFINE g == [n \in 1 .. 3 |-> IF n = 3 THEN 0 ELSE IF n = 2 THEN buf[2] ELSE buf[1] + 256 * buf[2]]
    <3>1. g = [n \in 1 .. 3 |-> IF n > 2 THEN 0 ELSE buf[n] + 256 * g[n + 1]]
      BY <2>1
    <3> HIDE DEF g
    <3> QED
      BY <2>1, <3>1
  <2>2. CASE width = 4
    <3> DEFINE g == [n \in 1 .. 5 |->
                 IF n = 5 THEN 0 ELSE IF n = 4 THEN buf[4] ELSE IF n = 3 THEN buf[3] + 256 * buf[4]
                 ELSE IF n = 2 THEN buf[2] + 256 * (buf[3] + 256 * buf[4])
                 ELSE buf[1] + 256 * (buf[2] + 256 * (buf[3] + 256 * buf[4]))]
    <3>1. g[1] = buf[1] + 256 * g[2] /\ g[2] = buf[2] + 256 * g[3] /\ g[3] = buf[3] + 256 * g[4]
          /\ g[4] = buf[4] + 256 * g[5] /\ g[5] = 0
      BY <2>2
    <3>2. \A n \in 1 .. 5 : g[n] = IF n > 4 THEN 0 ELSE buf[n] + 256 * g[n + 1]
      <4> HIDE DEF g
      <4> QED
        BY <3>1
    <3>3. g = [n \in 1 .. 5 |-> g[n]]
      OBVIOUS
    <3> HIDE DEF g
    <3> QED
      BY <2>2, <3>2, <3>3
  <2> QED
    BY <2>1, <2>2
<1> DEFINE Is(h) == h = [n \in 1 .. width + 1 |-> IF n > width THEN 0 ELSE buf[n] + 256 * h[n + 1]]
           from  == CHOOSE h : Is(h)
<1>2. Number(width, buf) = from[1]
  BY DEF Number
<1>3. Is(from)
  <2>1. \E h : Is(h)
    BY <1>1
  <2> HIDE DEF Is
  <2> QED
    BY <2>1
<1>4. \A n \in 1 .. width + 1 : from[n] = IF n > width THEN 0 ELSE buf[n] + 256 * from[n + 1]
  <2> HIDE DEF from
  <2> QED
    BY <1>3
<1> HIDE DEF from
<1>5. from[width + 1] = 0 /\ \A n \in 1 .. width : from[n] = buf[n] + 256 * from[n + 1]
  BY <1>4
<1> QED
  BY <1>2, <1>5 DEF AddsUp

\* A number that fits is read as it was written, whatever follows.
LEMMA ReadNumber ==
  ASSUME NEW width \in {2, 4}, NEW x \in Nat, Fits(width, x), NEW rest \in Seq(Byte)
  PROVE  Number(width, Little(width, x) \o rest) = x
<1> DEFINE y(n) == Upper(x, n)
           buf  == Little(width, x) \o rest
<1>1. /\ y(0) = x /\ y(1) = x \div 256 /\ y(2) = y(1) \div 256
      /\ y(3) = y(2) \div 256 /\ y(4) = y(3) \div 256
      /\ \A n \in 0 .. 4 : y(n) \in Nat
  BY Uppers
<1>2. y(width) = 0
  BY DEF Fits
<1>3. \A n \in 1 .. width : buf[n] = y(n - 1) % 256
  <2>1. Little(width, x) \in Seq(Byte) /\ Len(Little(width, x)) = width
        /\ \A n \in 1 .. width : Little(width, x)[n] = Upper(x, n - 1) % 256
    <3> HIDE DEF buf, y
    <3>1. CASE width = 2
      BY <3>1, Bytewise
    <3>2. CASE width = 4
      BY <3>2, Bytewise
    <3> QED
      BY <3>1, <3>2
  <2>2. \A n \in 1 .. width : buf[n] = Little(width, x)[n]
    BY <2>1, Parts
  <2> HIDE DEF buf
  <2> QED
    BY <2>1, <2>2
<1> HIDE DEF y, buf
<1>4. \A n \in 1 .. width : y(n - 1) = buf[n] + 256 * y(n) /\ buf[n] \in Nat
  <2>1. ASSUME NEW n \in 1 .. 4 PROVE y(n) = y(n - 1) \div 256 /\ y(n - 1) \in Nat
    <3>1. n - 1 \in 0 .. 4
      OBVIOUS
    <3>2. y(n - 1) \in Nat
      BY <1>1, <3>1
    <3>3. CASE n = 1
      BY <1>1, <3>2, <3>3
    <3>4. CASE n = 2
      BY <1>1, <3>2, <3>4
    <3>5. CASE n = 3
      BY <1>1, <3>2, <3>5
    <3>6. CASE n = 4
      BY <1>1, <3>2, <3>6
    <3> QED
      BY <3>3, <3>4, <3>5, <3>6
  <2>2. \A z \in Nat : z = (z % 256) + 256 * (z \div 256) /\ z % 256 \in Nat
    OBVIOUS
  <2>3. ASSUME NEW n \in 1 .. width PROVE y(n - 1) = buf[n] + 256 * y(n) /\ buf[n] \in Nat
    <3>0. n \in 1 .. 4
      OBVIOUS
    <3>1. y(n) = y(n - 1) \div 256 /\ y(n - 1) \in Nat
      BY <2>1, <3>0
    <3> QED
      BY <1>3, <2>2, <3>1
  <2> QED
    BY <2>3
<1>9. PICK g : Number(width, buf) = g[1] /\ AddsUp(g, width, buf)
  <2>1. \A n \in 1 .. width : buf[n] \in Nat
    BY <1>4
  <2> QED
    BY <2>1, NumberOfBytes
<1>5. /\ Number(width, buf) = g[1] /\ g[width + 1] = 0
      /\ \A n \in 1 .. width : g[n] = buf[n] + 256 * g[n + 1]
  BY <1>9 DEF AddsUp
<1>6. g[1] = y(0)
  <2>1. CASE width = 2
    <3>1. g[3] = y(2)
      BY <1>2, <1>5, <2>1
    <3>2. g[2] = y(1)
      BY <1>4, <1>5, <2>1, <3>1
    <3> QED
      BY <1>4, <1>5, <2>1, <3>2
  <2>2. CASE width = 4
    <3>1. g[5] = y(4)
      BY <1>2, <1>5, <2>2
    <3>2. g[4] = y(3)
      BY <1>4, <1>5, <2>2, <3>1
    <3>3. g[3] = y(2)
      BY <1>4, <1>5, <2>2, <3>2
    <3>4. g[2] = y(1)
      BY <1>4, <1>5, <2>2, <3>3
    <3> QED
      BY <1>4, <1>5, <2>2, <3>4
  <2> QED
    BY <2>1, <2>2
<1> QED
  BY <1>1, <1>5, <1>6 DEF buf

\* Numbers of two and of four bytes.
LEMMA MoreBytes ==
  ASSUME NEW x \in Nat
  PROVE  /\ Fits(2, x) <=> x < 65536
         /\ Fits(4, x) <=> x \div 65536 < 65536
<1> DEFINE y(n) == Upper(x, n)
<1>1. /\ y(0) = x /\ y(1) = x \div 256 /\ y(2) = y(1) \div 256
      /\ y(3) = y(2) \div 256 /\ y(4) = y(3) \div 256
      /\ \A n \in 0 .. 4 : y(n) \in Nat
  BY Uppers
<1>2. (Fits(2, x) <=> y(2) = 0) /\ (Fits(4, x) <=> y(4) = 0)
  BY DEF Fits
<1> HIDE DEF y
<1>3. y(2) = x \div 65536
  BY <1>1
<1>4. y(2) \in Nat /\ y(3) \in Nat
  BY <1>1
<1>5. y(4) = y(2) \div 65536
  BY <1>1, <1>4
<1>6. \A z \in Nat : z \div 65536 = 0 <=> z < 65536
  OBVIOUS
<1> QED
  BY <1>2, <1>3, <1>4, <1>5, <1>6

-----------------------------------------------------------------------------
(* Sequences of strings.                                                   *)

\* Strings one after the other: FlattenSeq adds the last one to the others.
LEMMA Flatten ==
  ASSUME NEW S, NEW seqs \in Seq(Seq(S)), NEW e \in Seq(S)
  PROVE  /\ FlattenSeq(seqs) \in Seq(S)
         /\ FlattenSeq(Append(seqs, e)) = FlattenSeq(seqs) \o e
<1> DEFINE T    == Seq(S)
           step(q) == [n \in 1 .. Len(q) |-> [s \in T |-> s \o q[n]]]
           Joined(q) == CHOOSE g : g = [i \in 1 .. Len(q) |-> IF i = 1 THEN q[i] ELSE g[i - 1] \o q[i]]
<1>1. ASSUME NEW q \in Seq(T), q # <<>>
      PROVE  /\ FlattenSeq(q) = Joined(q)[Len(q)]
             /\ Joined(q)[1] = q[1]
             /\ \A i \in 2 .. Len(q) : Joined(q)[i] = Joined(q)[i - 1] \o q[i]
  <2> DEFINE L  == Len(q)
             Is(h) == h = [i \in 1 .. L |-> IF i = 1 THEN q[i] ELSE h[i - 1] \o q[i]]
             more == [n \in 1 .. L - 1 |-> [s \in T |-> s \o q[n + 1]]]
  <2>1. L \in Nat \ {0} /\ \A i \in 1 .. L : q[i] \in T
    BY <1>1
  <2>2. \A n \in 1 .. L - 1 : \A s \in T : more[n][s] \in T /\ more[n][s] = s \o q[n + 1]
    BY <2>1
  <2>3. L - 1 \in Nat /\ q[1] \in T
    BY <2>1
  <2> HIDE DEF L, more, T
  <2>4. Runs(T, L - 1, q[1], more) # {}
    BY <2>2, <2>3, Built
  <2>5. PICK g \in [0 .. L - 1 -> T] : g[0] = q[1] /\ \A n \in 1 .. L - 1 : g[n] = more[n][g[n - 1]]
    BY <2>4 DEF Runs
  <2> DEFINE h == [i \in 1 .. L |-> g[i - 1]]
  <2>6. \A i \in 1 .. L : h[i] = IF i = 1 THEN q[i] ELSE h[i - 1] \o q[i]
    <3> SUFFICES ASSUME NEW i \in 1 .. L PROVE h[i] = IF i = 1 THEN q[i] ELSE h[i - 1] \o q[i]
      OBVIOUS
    <3>1. CASE i = 1
      BY <2>5, <3>1
    <3>2. CASE i # 1
      <4>1. i - 1 \in 1 .. L - 1 /\ i - 1 \in 1 .. L /\ (i - 1) + 1 = i /\ (i - 1) - 1 \in 0 .. L - 1
        BY <2>1, <3>2
      <4>2. h[i] = g[i - 1] /\ h[i - 1] = g[(i - 1) - 1]
        BY <4>1
      <4>3. g[i - 1] = g[(i - 1) - 1] \o q[i]
        BY <2>2, <2>5, <4>1
      <4> QED
        BY <3>2, <4>2, <4>3
    <3> QED
      BY <3>1, <3>2
  <2>7. Is(h)
    <3>1. h = [i \in 1 .. L |-> h[i]]
      OBVIOUS
    <3> HIDE DEF h
    <3> QED
      BY <2>6, <3>1
  <2> DEFINE flat == CHOOSE k1 : Is(k1)
  <2>8. Is(flat)
    <3> HIDE DEF Is
    <3> QED
      BY <2>7
  <2>9. Joined(q) = flat
    BY DEF L
  <2>10. FlattenSeq(q) = flat[L]
    BY <2>1 DEF FlattenSeq, L
  <2>11. \A i \in 1 .. L : flat[i] = IF i = 1 THEN q[i] ELSE flat[i - 1] \o q[i]
    <3> HIDE DEF flat
    <3> QED
      BY <2>8
  <2> HIDE DEF flat, Joined, Is
  <2>12. Joined(q)[1] = q[1]
    BY <2>1, <2>9, <2>11
  <2>13. \A i \in 2 .. L : Joined(q)[i] = Joined(q)[i - 1] \o q[i]
    <3> SUFFICES ASSUME NEW i \in 2 .. L PROVE Joined(q)[i] = Joined(q)[i - 1] \o q[i]
      OBVIOUS
    <3>1. i \in 1 .. L /\ i # 1
      BY <2>1
    <3>2. flat[i] = flat[i - 1] \o q[i]
      BY <2>11, <3>1
    <3> QED
      BY <2>9, <3>2
  <2> QED
    BY <2>9, <2>10, <2>12, <2>13 DEF L
<1> DEFINE more == Append(seqs, e)
           L    == Len(seqs)
<1>2. /\ L \in Nat /\ \A i \in 1 .. L : seqs[i] \in T /\ more[i] = seqs[i]
      /\ more \in Seq(T) /\ more # <<>> /\ Len(more) = L + 1 /\ more[L + 1] = e
  <2>1. seqs \in Seq(T) /\ e \in T
    OBVIOUS
  <2> HIDE DEF T
  <2>2. more \in Seq(T) /\ Len(more) = L + 1 /\ more[L + 1] = e /\ L \in Nat
    BY <2>1
  <2>3. \A i \in 1 .. L : seqs[i] \in T /\ more[i] = seqs[i]
    BY <2>1
  <2>4. more # <<>>
    BY <2>1
  <2> HIDE DEF more
  <2> QED
    BY <2>2, <2>3, <2>4
<1> HIDE DEF Joined, more
<1>3. CASE seqs = <<>>
  <2>1. FlattenSeq(seqs) = <<>>
    BY <1>3 DEF FlattenSeq
  <2>2. L + 1 = 1
    BY <1>3
  <2>3. FlattenSeq(more) = more[1] /\ more[1] = e
    BY <1>1, <1>2, <2>2
  <2> QED
    BY <2>1, <2>3 DEF more
<1>4. CASE seqs # <<>>
  <2>1. L \in Nat \ {0}
    BY <1>2, <1>4
  <2>2. /\ FlattenSeq(seqs) = Joined(seqs)[L] /\ Joined(seqs)[1] = seqs[1]
        /\ \A i \in 2 .. L : Joined(seqs)[i] = Joined(seqs)[i - 1] \o seqs[i]
    BY <1>1, <1>4
  <2>3. /\ FlattenSeq(more) = Joined(more)[L + 1] /\ Joined(more)[1] = more[1]
        /\ \A i \in 2 .. L + 1 : Joined(more)[i] = Joined(more)[i - 1] \o more[i]
    BY <1>1, <1>2
  <2> DEFINE P == {n \in 0 .. L - 1 : Joined(seqs)[n + 1] \in T /\ Joined(more)[n + 1] = Joined(seqs)[n + 1]}
  <2>4. 0 \in P
    BY <1>2, <2>1, <2>2, <2>3
  <2>5. ASSUME NEW n \in 1 .. L - 1, n - 1 \in P PROVE n \in P
    <3>1. n + 1 \in 2 .. L /\ n + 1 \in 1 .. L /\ n + 1 \in 2 .. L + 1 /\ (n - 1) + 1 = n /\ (n + 1) - 1 = n
      BY <2>1
    <3>2. Joined(seqs)[n] \in T /\ Joined(more)[n] = Joined(seqs)[n]
      BY <2>5, <3>1
    <3>3. Joined(seqs)[n + 1] = Joined(seqs)[n] \o seqs[n + 1] /\ Joined(more)[n + 1] = Joined(more)[n] \o more[n + 1]
      BY <2>2, <2>3, <3>1
    <3>4. seqs[n + 1] \in T /\ more[n + 1] = seqs[n + 1]
      BY <1>2, <3>1
    <3>5. Joined(seqs)[n] \o seqs[n + 1] \in T
      BY <3>2, <3>4
    <3>6. n \in 0 .. L - 1
      BY <2>1
    <3> QED
      BY <3>2, <3>3, <3>4, <3>5, <3>6
  <2>6. L - 1 \in P
    <3>1. L - 1 \in Nat
      BY <2>1
    <3> HIDE DEF P, L
    <3>2. 0 .. L - 1 \subseteq P
      BY <2>4, <2>5, <3>1, UpTo
    <3> QED
      BY <3>1, <3>2
  <2>7. Joined(seqs)[L] \in T /\ Joined(more)[L] = Joined(seqs)[L]
    BY <2>1, <2>6
  <2>8. Joined(more)[L + 1] = Joined(more)[L] \o e
    <3>1. L + 1 \in 2 .. L + 1 /\ (L + 1) - 1 = L
      BY <2>1
    <3> QED
      BY <1>2, <2>3, <3>1
  <2> QED
    BY <2>2, <2>3, <2>7, <2>8 DEF more
<1> QED
  BY <1>3, <1>4

\* One string alone.
LEMMA FlattenOne ==
  ASSUME NEW S, NEW a \in Seq(S)
  PROVE  FlattenSeq(<<a>>) = a
<1>1. <<a>> = Append(<<>>, a) /\ <<>> \in Seq(Seq(S))
  OBVIOUS
<1>2. FlattenSeq(Append(<<>>, a)) = FlattenSeq(<<>>) \o a
  BY <1>1, Flatten
<1>3. FlattenSeq(<<>>) = <<>>
  BY DEF FlattenSeq
<1>4. <<>> \o a = a
  OBVIOUS
<1> QED
  BY <1>1, <1>2, <1>3, <1>4

\* Two of them.
LEMMA FlattenTwo ==
  ASSUME NEW S, NEW a \in Seq(S), NEW b \in Seq(S)
  PROVE  FlattenSeq(Two(a, b)) = Then(a, b)
<1>1. <<a, b>> = Append(<<a>>, b) /\ <<a>> \in Seq(Seq(S))
  OBVIOUS
<1>2. FlattenSeq(<<a>>) = a
  BY FlattenOne
<1> QED
  BY <1>1, <1>2, Flatten DEF Two, Then

\* Three of them.
LEMMA FlattenThree ==
  ASSUME NEW S, NEW a \in Seq(S), NEW b \in Seq(S), NEW c \in Seq(S)
  PROVE  FlattenSeq(Three(a, b, c)) = Then(Then(a, b), c)
<1>1. <<a, b, c>> = Append(<<a, b>>, c) /\ <<a, b>> \in Seq(Seq(S))
  OBVIOUS
<1>2. FlattenSeq(<<a, b>>) = a \o b
  BY FlattenTwo DEF Two, Then
<1> QED
  BY <1>1, <1>2, Flatten DEF Three, Then

\* Four of them.
LEMMA FlattenFour ==
  ASSUME NEW S, NEW a \in Seq(S), NEW b \in Seq(S), NEW c \in Seq(S), NEW d \in Seq(S)
  PROVE  FlattenSeq(Four(a, b, c, d)) = Then(Then(Then(a, b), c), d)
<1>1. <<a, b, c, d>> = Append(<<a, b, c>>, d) /\ <<a, b, c>> \in Seq(Seq(S))
  OBVIOUS
<1>2. FlattenSeq(<<a, b, c>>) = (a \o b) \o c
  <2>1. FlattenSeq(Three(a, b, c)) = Then(Then(a, b), c)
    BY FlattenThree
  <2> QED
    BY <2>1 DEF Three, Then
<1> QED
  BY <1>1, <1>2, Flatten DEF Four, Then

\* The first n strings of a sequence are the first n - 1 and one more.
LEMMA OneMore ==
  ASSUME NEW T, NEW q \in Seq(T), NEW n \in 1 .. Len(q)
  PROVE  /\ SubSeq(q, 1, n) = Append(SubSeq(q, 1, n - 1), q[n])
         /\ SubSeq(q, 1, n - 1) \in Seq(T) /\ q[n] \in T
OBVIOUS

\* Two sequences of strings one after the other.
LEMMA FlattenBoth ==
  ASSUME NEW S, NEW x \in Seq(Seq(S)), NEW y \in Seq(Seq(S))
  PROVE  /\ FlattenSeq(x) \in Seq(S) /\ FlattenSeq(y) \in Seq(S)
         /\ FlattenSeq(x \o y) = FlattenSeq(x) \o FlattenSeq(y)
<1> DEFINE T == Seq(S)
           first(n) == SubSeq(y, 1, n)
           P == {n \in 0 .. Len(y) : FlattenSeq(first(n)) \in T
                                     /\ FlattenSeq(x \o first(n)) = FlattenSeq(x) \o FlattenSeq(first(n))}
<1>0. FlattenSeq(x) \in T
  BY Flatten
<1>1. 0 \in P
  <2>1. first(0) = <<>> /\ x \o <<>> = x
    OBVIOUS
  <2>2. FlattenSeq(<<>>) = <<>> /\ <<>> \in T
    BY DEF FlattenSeq
  <2>3. FlattenSeq(x) \o <<>> = FlattenSeq(x)
    BY <1>0
  <2>4. 0 \in 0 .. Len(y)
    OBVIOUS
  <2> HIDE DEF first
  <2> QED
    BY <2>1, <2>2, <2>3, <2>4
<1>2. ASSUME NEW n \in 1 .. Len(y), n - 1 \in P PROVE n \in P
  <2>1. first(n) = Append(first(n - 1), y[n]) /\ first(n - 1) \in Seq(T) /\ y[n] \in T
    BY OneMore
  <2>2. FlattenSeq(first(n - 1)) \in T
        /\ FlattenSeq(x \o first(n - 1)) = FlattenSeq(x) \o FlattenSeq(first(n - 1))
    BY <1>2
  <2> HIDE DEF first
  <2>3. x \o first(n) = Append(x \o first(n - 1), y[n]) /\ x \o first(n - 1) \in Seq(T)
    <3>1. x \in Seq(T)
      OBVIOUS
    <3> HIDE DEF T
    <3> QED
      BY <2>1, <3>1
  <2>4. FlattenSeq(first(n)) = FlattenSeq(first(n - 1)) \o y[n]
    BY <2>1, Flatten
  <2>5. FlattenSeq(x \o first(n)) = FlattenSeq(x \o first(n - 1)) \o y[n]
    BY <2>1, <2>3, Flatten
  <2>6. (FlattenSeq(x) \o FlattenSeq(first(n - 1))) \o y[n] = FlattenSeq(x) \o (FlattenSeq(first(n - 1)) \o y[n])
    <3> DEFINE f == FlattenSeq(x)
               g == FlattenSeq(first(n - 1))
               h == y[n]
    <3>1. f \in Seq(S) /\ g \in Seq(S) /\ h \in Seq(S)
      BY <1>0, <2>1, <2>2
    <3> HIDE DEF f, g, h
    <3>2. (f \o g) \o h = f \o (g \o h)
      BY <3>1, SMTT(30)
    <3> QED
      BY <3>2 DEF f, g, h
  <2>7. FlattenSeq(first(n - 1)) \o y[n] \in T
    BY <2>1, <2>2
  <2>8. FlattenSeq(first(n)) \in T
    BY <2>4, <2>7
  <2>9. FlattenSeq(x \o first(n)) = FlattenSeq(x) \o FlattenSeq(first(n))
    BY <2>2, <2>4, <2>5, <2>6
  <2>10. n \in 0 .. Len(y)
    OBVIOUS
  <2> QED
    BY <2>8, <2>9, <2>10
<1>3. Len(y) \in Nat /\ first(Len(y)) = y
  OBVIOUS
<1>4. Len(y) \in P
  <2> HIDE DEF P
  <2>1. 0 .. Len(y) \subseteq P
    BY <1>1, <1>2, <1>3, UpTo
  <2> QED
    BY <1>3, <2>1
<1> HIDE DEF first
<1> QED
  BY <1>0, <1>3, <1>4

\* Strings of the same characters are the same.
LEMMA Alike ==
  ASSUME NEW S, NEW x \in Seq(S), NEW y \in Seq(S), Len(x) = Len(y),
         \A n \in 1 .. Len(x) : x[n] = y[n]
  PROVE  x = y
OBVIOUS

\* What is in the middle of a string.
LEMMA Middle ==
  ASSUME NEW S, NEW x \in Seq(S), NEW y \in Seq(S), NEW z \in Seq(S),
         NEW i \in Nat, NEW j \in Nat, Len(x) < i, i <= j + 1, j <= Len(x) + Len(y)
  PROVE  SubSeq(Then(x, Then(y, z)), i, j) = SubSeq(y, i - Len(x), j - Len(x))
<1> DEFINE a == i - Len(x)
           b == j - Len(x)
<1>0. b \in 0 .. Len(y) /\ a \in 1 .. b + 1 /\ Len(x) + a = i /\ Len(x) + b = j
  OBVIOUS
<1> HIDE DEF a, b
<1> DEFINE w == x \o (y \o z)
           u == SubSeq(w, Len(x) + a, Len(x) + b)
           v == SubSeq(y, a, b)
<1>1. /\ w \in Seq(S) /\ Len(w) = Len(x) + (Len(y) + Len(z))
      /\ Len(x) \in Nat /\ Len(y) \in Nat /\ Len(z) \in Nat
  BY Parts
<1>2. \A n \in 1 .. Len(y) : w[Len(x) + n] = y[n]
  <2>1. y \o z \in Seq(S) /\ Len(y \o z) = Len(y) + Len(z) /\ \A n \in 1 .. Len(y) : (y \o z)[n] = y[n]
    BY Parts
  <2> DEFINE r == y \o z
  <2> HIDE DEF r
  <2>2. \A n \in 1 .. Len(r) : (x \o r)[Len(x) + n] = r[n]
    BY <2>1, Parts DEF r
  <2> QED
    BY <1>1, <2>1, <2>2 DEF r
<1> HIDE DEF w
<1>3. /\ u \in Seq(S) /\ Len(u) = b - a + 1
      /\ \A n \in 1 .. b - a + 1 : u[n] = w[Len(x) + a + n - 1]
  BY <1>0, <1>1
<1>4. v \in Seq(S) /\ Len(v) = b - a + 1 /\ \A n \in 1 .. b - a + 1 : v[n] = y[a + n - 1]
  <2>1. a \in Nat /\ b \in Nat /\ 1 <= a /\ a <= b + 1 /\ b <= Len(y)
    BY <1>0, <1>1
  <2>2. Len(v) = b - a + 1
    BY <2>1
  <2>3. v \in Seq(S)
    BY <2>1
  <2>4. \A n \in 1 .. b - a + 1 : v[n] = y[a + n - 1]
    BY <2>1
  <2> QED
    BY <2>2, <2>3, <2>4
<1>5. \A n \in 1 .. b - a + 1 : w[Len(x) + a + n - 1] = y[a + n - 1]
  <2> SUFFICES ASSUME NEW n \in 1 .. b - a + 1 PROVE w[Len(x) + a + n - 1] = y[a + n - 1]
    OBVIOUS
  <2>1. a + n - 1 \in 1 .. Len(y) /\ Len(x) + (a + n - 1) = Len(x) + a + n - 1
    BY <1>0, <1>1
  <2> QED
    BY <1>2, <2>1
<1> HIDE DEF u, v
<1>6. u = v
  BY <1>0, <1>3, <1>4, <1>5, Alike
<1> QED
  BY <1>0, <1>6 DEF u, v, w, Then, a, b

\* What is in the first of two strings.
LEMMA Within ==
  ASSUME NEW S, NEW x \in Seq(S), NEW y \in Seq(S), NEW a \in Nat, NEW b \in Nat, b <= Len(x)
  PROVE  SubSeq(x \o y, a + 1, b) = SubSeq(x, a + 1, b)
<1> DEFINE w == x \o y
<1>1. w \in Seq(S) /\ Len(w) = Len(x) + Len(y) /\ \A n \in 1 .. Len(x) : w[n] = x[n]
  BY Parts
<1> HIDE DEF w
<1> DEFINE d == IF a < b THEN b - a ELSE 0
           u == SubSeq(w, a + 1, b)
           v == SubSeq(x, a + 1, b)
<1>2. d \in Nat /\ d <= b /\ \A n \in 1 .. d : a + n \in 1 .. Len(x)
  OBVIOUS
<1>3. u \in Seq(S) /\ Len(u) = d /\ \A n \in 1 .. d : u[n] = w[a + n]
  BY <1>1
<1>4. v \in Seq(S) /\ Len(v) = d /\ \A n \in 1 .. d : v[n] = x[a + n]
  OBVIOUS
<1>5. \A n \in 1 .. d : w[a + n] = x[a + n]
  BY <1>1, <1>2
<1> HIDE DEF u, v, d
<1>6. u = v
  BY <1>2, <1>3, <1>4, <1>5, Alike
<1> QED
  BY <1>6 DEF u, v, w

\* The hashes of a branch, found again in the string they are written to.
LEMMA BranchBlocks ==
  ASSUME NEW mb \in Seq(Hash)
  PROVE  /\ FlattenSeq(mb) \in Seq(Byte)
         /\ Len(FlattenSeq(mb)) = Len(mb) * SHA_LENGTH
         /\ \A n \in 1 .. Len(mb) : SubSeq(FlattenSeq(mb), (n - 1) * SHA_LENGTH + 1, n * SHA_LENGTH) = mb[n]
<1> DEFINE T == Seq(Byte)
           m == SHA_LENGTH
           off == [n \in Nat |-> n * m]
           first(n) == SubSeq(mb, 1, n)
           flat(n) == FlattenSeq(first(n))
           P == {n \in 0 .. Len(mb) :
                  /\ flat(n) \in T /\ Len(flat(n)) = off[n]
                  /\ \A i \in 1 .. n : SubSeq(flat(n), off[i - 1] + 1, off[i]) = mb[i]}
<1>1. m \in Nat /\ Hash \subseteq T /\ \A x \in Hash : Len(x) = m
  <2>1. m \in Nat
    BY LengthAssumption
  <2> QED
    BY <2>1 DEF Hash, TupleOf
<1>2. off[0] = 0 /\ \A n \in Nat : off[n] \in Nat /\ off[n + 1] = off[n] + m
  BY <1>1
<1>3. mb \in Seq(T) /\ Len(mb) \in Nat /\ \A n \in 1 .. Len(mb) : mb[n] \in Hash
  BY <1>1
<1> HIDE DEF off, m
<1>4. 0 \in P
  <2>1. first(0) = <<>>
    OBVIOUS
  <2>2. FlattenSeq(<<>>) = <<>> /\ <<>> \in T /\ Len(<<>>) = 0
    BY DEF FlattenSeq
  <2>3. 0 \in 0 .. Len(mb)
    BY <1>3
  <2> HIDE DEF first
  <2>4. flat(0) = <<>>
    BY <2>1, <2>2
  <2>5. flat(0) \in T /\ Len(flat(0)) = off[0]
    BY <1>2, <2>2, <2>4
  <2>6. \A i \in 1 .. 0 : SubSeq(flat(0), off[i - 1] + 1, off[i]) = mb[i]
    OBVIOUS
  <2> HIDE DEF flat
  <2> QED
    BY <2>3, <2>5, <2>6
<1>5. ASSUME NEW n \in 1 .. Len(mb), n - 1 \in P PROVE n \in P
  <2> DEFINE x == flat(n - 1)
             y == mb[n]
  <2>1. /\ x \in T /\ Len(x) = off[n - 1]
        /\ \A i \in 1 .. n - 1 : SubSeq(x, off[i - 1] + 1, off[i]) = mb[i]
    BY <1>5
  <2>2. y \in T /\ Len(y) = m
    BY <1>1, <1>3
  <2>3. flat(n) = x \o y
    <3>1. first(n) = Append(first(n - 1), mb[n]) /\ first(n - 1) \in Seq(T) /\ mb[n] \in T
      BY <1>3, OneMore
    <3> HIDE DEF first
    <3> QED
      BY <3>1, Flatten
  <2> HIDE DEF flat, x, y
  <2>4. n - 1 \in Nat /\ (n - 1) + 1 = n
    OBVIOUS
  <2>5. off[n] = off[n - 1] + m
    BY <1>2, <2>4
  <2>6. x \o y \in T /\ Len(x \o y) = off[n]
    <3>0. x \in Seq(Byte) /\ y \in Seq(Byte)
      BY <2>1, <2>2
    <3>1. x \o y \in T /\ Len(x \o y) = Len(x) + Len(y)
      BY <3>0
    <3> QED
      BY <2>1, <2>2, <2>5, <3>1
  <2>7. ASSUME NEW i \in 1 .. n - 1 PROVE SubSeq(x \o y, off[i - 1] + 1, off[i]) = mb[i]
    <3>1. i - 1 \in Nat /\ i \in Nat /\ (i - 1) + 1 = i /\ off[i - 1] \in Nat /\ off[i] = off[i - 1] + m
      <4>1. i - 1 \in Nat /\ i \in Nat /\ (i - 1) + 1 = i
        OBVIOUS
      <4> QED
        BY <1>2, <4>1
    <3>2. Len(mb[i]) = m
      BY <1>1, <1>3
    <3>3. off[i] <= off[n - 1]
      <4>1. (n - 1) - i \in Nat /\ n - 1 = i + ((n - 1) - i)
        OBVIOUS
      <4>2. \A c, d \in Nat : off[c] <= off[c + d]
        BY <1>1 DEF off
      <4> QED
        BY <3>1, <4>1, <4>2
    <3>4. off[i] <= Len(x) /\ off[i] \in Nat
      BY <1>2, <2>1, <3>1, <3>3
    <3>5. SubSeq(x \o y, off[i - 1] + 1, off[i]) = SubSeq(x, off[i - 1] + 1, off[i])
      <4>1. x \in Seq(Byte) /\ y \in Seq(Byte)
        BY <2>1, <2>2
      <4>2. off[i - 1] \in Nat
        BY <3>1
      <4> QED
        BY <3>4, <4>1, <4>2, Within
    <3> QED
      BY <2>1, <3>5
  <2>8. SubSeq(x \o y, off[n - 1] + 1, off[n]) = y
    <3>1. From(x \o y, Len(x) + 1) = y
      BY <2>1, <2>2, Parts
    <3> QED
      BY <2>1, <2>6, <3>1 DEF From
  <2>9. \A i \in 1 .. n : SubSeq(x \o y, off[i - 1] + 1, off[i]) = mb[i]
    <3> SUFFICES ASSUME NEW i \in 1 .. n PROVE SubSeq(x \o y, off[i - 1] + 1, off[i]) = mb[i]
      OBVIOUS
    <3>1. CASE i = n
      BY <2>8, <3>1 DEF y
    <3>2. CASE i # n
      <4>1. i \in 1 .. n - 1
        BY <3>2
      <4> QED
        BY <2>7, <4>1
    <3> QED
      BY <3>1, <3>2
  <2>10. n \in 0 .. Len(mb)
    BY <1>3
  <2> HIDE DEF T
  <2> QED
    BY <2>3, <2>6, <2>9, <2>10
<1>6. Len(mb) \in P
  <2> HIDE DEF P
  <2>1. 0 .. Len(mb) \subseteq P
    BY <1>3, <1>4, <1>5, UpTo
  <2> QED
    BY <1>3, <2>1
<1>7. first(Len(mb)) = mb
  OBVIOUS
<1> HIDE DEF first
<1>8. /\ FlattenSeq(mb) \in T /\ Len(FlattenSeq(mb)) = off[Len(mb)]
      /\ \A i \in 1 .. Len(mb) : SubSeq(FlattenSeq(mb), off[i - 1] + 1, off[i]) = mb[i]
  BY <1>6, <1>7
<1>9. \A i \in 1 .. Len(mb) : i - 1 \in Nat /\ i \in Nat
  OBVIOUS
<1>10. \A n \in Nat : off[n] = n * m
  BY DEF off
<1>11. \A i \in 1 .. Len(mb) : off[i - 1] = (i - 1) * m /\ off[i] = i * m
  BY <1>9, <1>10
<1>12. off[Len(mb)] = Len(mb) * m
  BY <1>3, <1>10
<1> HIDE DEF off
<1>13. Len(FlattenSeq(mb)) = Len(mb) * m
  BY <1>8, <1>12
<1>14. \A i \in 1 .. Len(mb) : SubSeq(FlattenSeq(mb), (i - 1) * m + 1, i * m) = mb[i]
  <2> SUFFICES ASSUME NEW i \in 1 .. Len(mb) PROVE SubSeq(FlattenSeq(mb), (i - 1) * m + 1, i * m) = mb[i]
    OBVIOUS
  <2>1. SubSeq(FlattenSeq(mb), off[i - 1] + 1, off[i]) = mb[i]
    BY <1>8
  <2>2. off[i - 1] = (i - 1) * m /\ off[i] = i * m
    BY <1>11
  <2> QED
    BY <2>1, <2>2, Zenon
<1>15. FlattenSeq(mb) \in Seq(Byte)
  BY <1>8
<1>16. m = SHA_LENGTH
  BY DEF m
<1> HIDE DEF m, T, P
<1>17. Len(FlattenSeq(mb)) = Len(mb) * SHA_LENGTH
  BY <1>13, <1>16
<1>18. \A n \in 1 .. Len(mb) : SubSeq(FlattenSeq(mb), (n - 1) * SHA_LENGTH + 1, n * SHA_LENGTH) = mb[n]
  <2> SUFFICES ASSUME NEW n \in 1 .. Len(mb)
               PROVE  SubSeq(FlattenSeq(mb), (n - 1) * SHA_LENGTH + 1, n * SHA_LENGTH) = mb[n]
    OBVIOUS
  <2>1. SubSeq(FlattenSeq(mb), (n - 1) * m + 1, n * m) = mb[n]
    BY <1>14
  <2> QED
    BY <1>16, <2>1
<1> QED
  BY <1>15, <1>17, <1>18

-----------------------------------------------------------------------------
(* Messages of deepEncode.                                                 *)

\* The fixed part of a message, and what follows it.
Message(mc, f, t, ty, z) == Little(4, mc) \o (<<f, t, ty>> \o z)

\* The numbers of the fixed part are read as they were written.
LEMMA Header ==
  ASSUME NEW mc \in Nat, Fits(4, mc), NEW f \in Byte, NEW t \in Byte, NEW ty \in Byte, NEW z \in Text
  PROVE  LET buf == Message(mc, f, t, ty, z)
         IN Number(4, buf) = mc /\ buf[5] = f /\ buf[6] = t /\ buf[7] = ty /\ From(buf, 8) = z
<1> DEFINE x == Little(4, mc)
           y == <<f, t, ty>>
           r == y \o z
           buf == x \o r
<1>1. x \in Seq(Byte) /\ Len(x) = 4
  BY Bytewise
<1>2. y \in Seq(Byte) /\ Len(y) = 3 /\ y[1] = f /\ y[2] = t /\ y[3] = ty
  OBVIOUS
<1>3. z \in Seq(Byte)
  BY DEF Text
<1> HIDE DEF x, y
<1>4. r \in Seq(Byte) /\ Len(r) = 3 + Len(z) /\ \A n \in 1 .. 3 : r[n] = y[n]
  <2>1. r \in Seq(Byte) /\ Len(r) = Len(y) + Len(z) /\ \A n \in 1 .. Len(y) : r[n] = y[n]
    BY <1>2, <1>3, Parts, ZenonT(40)
  <2> HIDE DEF r
  <2> QED
    BY <1>2, <2>1
<1>5. Number(4, buf) = mc
  BY <1>4, ReadNumber DEF x
<1>6. \A n \in 1 .. Len(r) : buf[4 + n] = r[n]
  <2> HIDE DEF r
  <2>1. \A n \in 1 .. Len(r) : (x \o r)[Len(x) + n] = r[n]
    <3>1. x \in Seq(Byte) /\ r \in Seq(Byte)
      BY <1>1, <1>4
    <3> QED
      BY <3>1, Parts
  <2> QED
    BY <1>1, <2>1
<1>7. Len(z) \in Nat
  BY <1>3
<1>8. buf[4 + 1] = r[1] /\ buf[4 + 2] = r[2] /\ buf[4 + 3] = r[3]
  <2> HIDE DEF r, buf
  <2>1. 1 \in 1 .. Len(r) /\ 2 \in 1 .. Len(r) /\ 3 \in 1 .. Len(r)
    BY <1>4, <1>7
  <2> QED
    BY <1>6, <2>1
<1>9. buf[5] = f /\ buf[6] = t /\ buf[7] = ty
  <2> HIDE DEF r, buf
  <2> QED
    BY <1>2, <1>4, <1>8
<1>10. From(buf, 8) = z
  <2>1. buf = (x \o y) \o z
    BY <1>1, <1>2, <1>3, SMTT(30)
  <2>2. x \o y \in Seq(Byte) /\ Len(x \o y) = 7
    <3>1. x \o y \in Seq(Byte) /\ Len(x \o y) = Len(x) + Len(y)
      BY <1>1, <1>2, Parts
    <3> QED
      BY <1>1, <1>2, <3>1
  <2> DEFINE w == x \o y
  <2> HIDE DEF w
  <2>3. From(w \o z, Len(w) + 1) = z
    <3>1. w \in Seq(Byte)
      BY <2>2 DEF w
    <3> QED
      BY <1>3, <3>1, Parts
  <2>4. Len(w) + 1 = 8
    BY <2>2 DEF w
  <2> QED
    BY <2>1, <2>3, <2>4 DEF w
<1> QED
  <2> HIDE DEF buf
  <2>1. buf = Message(mc, f, t, ty, z)
    BY DEF buf, x, y, Message
  <2> QED
    BY <1>5, <1>9, <1>10, <2>1

\* A message in bytes: its fixed part, its numbers and the rest, if its numbers fit.
Sized       == {1, 2, 4} \X Nat
InBytes(ns) == FlattenSeq([n \in DOMAIN ns |-> Little(ns[n][1], ns[n][2])])

\* What deepEncode writes, if every number fits, is the fixed part and what follows it.
LEMMA Encoded ==
  ASSUME NEW mc \in Nat, NEW f \in Nat, NEW t \in Nat, NEW c, Type(c) \in Byte,
         Numbers(c) \in Seq(Sized), Rest(c) \in Text
  PROVE  /\ InBytes(Numbers(c)) \in Text
         /\ deepEncode(mc, f, t, c) =
              IF /\ Fits(4, mc) /\ f < 256 /\ t < 256
                 /\ \A n \in DOMAIN Numbers(c) : Fits(Numbers(c)[n][1], Numbers(c)[n][2])
              THEN {Little(4, mc) \o (<<f, t, Type(c)>> \o (InBytes(Numbers(c)) \o Rest(c)))}
              ELSE {}
<1> DEFINE ty   == Type(c)
           ns   == Numbers(c)
           head == <<<<4, mc>>, <<1, f>>, <<1, t>>, <<1, ty>>>>
           all  == head \o ns
           Lit(q)  == [n \in DOMAIN q |-> Little(q[n][1], q[n][2])]
           Good(q) == \A n \in DOMAIN q : Fits(q[n][1], q[n][2])
           G(q)    == FlattenSeq(Lit(q)) \o Rest(c)
<1>0. ty \in Nat /\ ty < 256
  <2>1. ty \in Byte
    OBVIOUS
  <2> HIDE DEF ty
  <2> QED
    BY <2>1 DEF Byte
<1>1. ns \in Seq(Sized) /\ head \in Seq(Sized) /\ Len(head) = 4
  BY <1>0 DEF Sized
<1>2. ASSUME NEW q \in Seq(Sized)
      PROVE  Lit(q) \in Seq(Text) /\ Len(Lit(q)) = Len(q) /\ \A n \in 1 .. Len(q) : Lit(q)[n] = Little(q[n][1], q[n][2])
  <2>1. DOMAIN q = 1 .. Len(q) /\ Len(q) \in Nat /\ \A n \in 1 .. Len(q) : q[n] \in Sized
    BY <1>2
  <2>2. \A n \in 1 .. Len(q) : q[n][1] \in {1, 2, 4} /\ q[n][2] \in Nat
    BY <2>1 DEF Sized
  <2>3. \A n \in 1 .. Len(q) : Little(q[n][1], q[n][2]) \in Text
    <3> SUFFICES ASSUME NEW n \in 1 .. Len(q) PROVE Little(q[n][1], q[n][2]) \in Text
      OBVIOUS
    <3>1. q[n][1] \in {1, 2, 4} /\ q[n][2] \in Nat
      BY <2>2
    <3>2. \A w \in {1, 2, 4}, x \in Nat : Little(w, x) \in Text
      BY Bytewise DEF Text
    <3> QED
      BY <3>1, <3>2
  <2>4. Lit(q) \in [1 .. Len(q) -> Text]
    BY <2>1, <2>3
  <2> QED
    BY <2>1, <2>4
<1>3. Lit(head) = <<Little(4, mc), Little(1, f), Little(1, t), Little(1, ty)>>
  BY <1>1
<1>4. all \in Seq(Sized) /\ Len(all) = 4 + Len(ns)
      /\ (\A n \in 1 .. 4 : all[n] = head[n]) /\ \A n \in 1 .. Len(ns) : all[4 + n] = ns[n]
  <2> HIDE DEF head, ns
  <2>1. /\ all \in Seq(Sized) /\ Len(all) = Len(head) + Len(ns)
        /\ (\A n \in 1 .. Len(head) : all[n] = head[n])
        /\ \A n \in 1 .. Len(ns) : all[Len(head) + n] = ns[n]
    <3>1. head \in Seq(Sized) /\ ns \in Seq(Sized)
      BY <1>1
    <3>2. all \in Seq(Sized) /\ Len(all) = Len(head) + Len(ns)
      BY <3>1
    <3>3. \A n \in 1 .. Len(head) : all[n] = head[n]
      BY <3>1
    <3>4. \A n \in 1 .. Len(ns) : all[Len(head) + n] = ns[n]
      BY <3>1
    <3> QED
      BY <3>2, <3>3, <3>4
  <2> QED
    BY <1>1, <2>1
<1>5. Lit(all) = Lit(head) \o Lit(ns)
  <2>1. /\ Lit(all) \in Seq(Text) /\ Len(Lit(all)) = 4 + Len(ns)
        /\ \A n \in 1 .. 4 + Len(ns) : Lit(all)[n] = Little(all[n][1], all[n][2])
    BY <1>2, <1>4
  <2>2. /\ Lit(head) \in Seq(Text) /\ Len(Lit(head)) = 4
        /\ \A n \in 1 .. 4 : Lit(head)[n] = Little(head[n][1], head[n][2])
    BY <1>1, <1>2
  <2>3. /\ Lit(ns) \in Seq(Text) /\ Len(Lit(ns)) = Len(ns)
        /\ \A n \in 1 .. Len(ns) : Lit(ns)[n] = Little(ns[n][1], ns[n][2])
    BY <1>1, <1>2
  <2>4. Len(ns) \in Nat
    BY <1>1
  <2> DEFINE a == Lit(all)
             b == Lit(head)
             d == Lit(ns)
             both == b \o d
  <2> HIDE DEF a, b, d, ns, head, all
  <2>5. both \in Seq(Text) /\ Len(both) = 4 + Len(ns)
        /\ (\A n \in 1 .. 4 : both[n] = b[n]) /\ \A n \in 1 .. Len(ns) : both[4 + n] = d[n]
    BY <2>2, <2>3 DEF b, d
  <2>6. ASSUME NEW n \in 1 .. 4 + Len(ns) PROVE a[n] = both[n]
    <3>1. CASE n <= 4
      <4>1. n \in 1 .. 4
        BY <3>1
      <4> QED
        BY <1>4, <2>1, <2>2, <2>5, <4>1 DEF a, b
    <3>2. CASE n > 4
      <4>1. n - 4 \in 1 .. Len(ns) /\ 4 + (n - 4) = n
        BY <2>4, <3>2
      <4>2. all[n] = ns[n - 4] /\ both[n] = d[n - 4]
        BY <1>4, <2>5, <4>1
      <4> QED
        BY <2>1, <2>3, <4>1, <4>2 DEF a, d
    <3>3. n <= 4 \/ n > 4
      BY <2>4
    <3> QED
      BY <3>1, <3>2, <3>3, Zenon
  <2>7. a \in Seq(Text) /\ Len(a) = 4 + Len(ns)
    BY <2>1 DEF a
  <2> HIDE DEF both
  <2>8. a = both
    BY <2>5, <2>6, <2>7, Alike
  <2> QED
    BY <2>8 DEF a, b, d, both
<1>6. InBytes(ns) = FlattenSeq(Lit(ns)) /\ InBytes(ns) \in Text
  <2>1. InBytes(ns) = FlattenSeq(Lit(ns))
    BY DEF InBytes
  <2>2. Lit(ns) \in Seq(Seq(Byte))
    BY <1>1, <1>2 DEF Text
  <2>3. FlattenSeq(Lit(ns)) \in Seq(Byte)
    BY <2>2, Flatten
  <2> QED
    BY <2>1, <2>3 DEF Text
<1>7. Good(all) <=> Fits(4, mc) /\ f < 256 /\ t < 256 /\ Good(ns)
  <2>1. DOMAIN all = 1 .. 4 + Len(ns) /\ DOMAIN ns = 1 .. Len(ns) /\ Len(ns) \in Nat
    BY <1>1, <1>4
  <2>2. (Fits(1, f) <=> f < 256) /\ (Fits(1, t) <=> t < 256) /\ Fits(1, ty)
    BY <1>0, OneByte
  <2>3. head[1] = <<4, mc>> /\ head[2] = <<1, f>> /\ head[3] = <<1, t>> /\ head[4] = <<1, ty>>
    OBVIOUS
  <2> HIDE DEF head, ns, all, ty
  <2>4. ASSUME Good(all) PROVE Fits(4, mc) /\ Fits(1, f) /\ Fits(1, t) /\ Good(ns)
    <3>1. 1 \in DOMAIN all /\ 2 \in DOMAIN all /\ 3 \in DOMAIN all
          /\ \A n \in 1 .. Len(ns) : 4 + n \in DOMAIN all
      BY <2>1
    <3>2. all[1] = <<4, mc>> /\ all[2] = <<1, f>> /\ all[3] = <<1, t>>
      BY <1>4, <2>3
    <3>3. Fits(4, mc) /\ Fits(1, f) /\ Fits(1, t)
      BY <2>4, <3>1, <3>2
    <3>4. ASSUME NEW n \in DOMAIN ns PROVE Fits(ns[n][1], ns[n][2])
      <4>1. 4 + n \in DOMAIN all /\ all[4 + n] = ns[n]
        BY <1>4, <2>1, <3>1
      <4> QED
        BY <2>4, <4>1
    <3> QED
      BY <3>3, <3>4
  <2>5. ASSUME Fits(4, mc), Fits(1, f), Fits(1, t), Good(ns) PROVE Good(all)
    <3> SUFFICES ASSUME NEW n \in 1 .. 4 + Len(ns) PROVE Fits(all[n][1], all[n][2])
      BY <2>1
    <3>1. CASE n \in 1 .. 4
      <4>1. all[n] = head[n] /\ n \in {1, 2, 3, 4}
        BY <1>4, <3>1
      <4> QED
        BY <2>2, <2>3, <2>5, <4>1
    <3>2. CASE n > 4
      <4>1. n - 4 \in DOMAIN ns /\ 4 + (n - 4) = n
        BY <2>1, <3>2
      <4>2. all[n] = ns[n - 4]
        BY <1>4, <2>1, <4>1
      <4> QED
        BY <2>5, <4>1, <4>2
    <3> QED
      BY <2>1, <3>1, <3>2
  <2> QED
    BY <2>2, <2>4, <2>5
<1>8. deepEncode(mc, f, t, c) = IF Good(all) THEN {G(all)} ELSE {}
  <2>1. deepEncode(mc, f, t, c) = {G(q) : q \in {x \in {all} : Good(x)}}
    BY DEF deepEncode
  <2> HIDE DEF Good, G, all
  <2> QED
    BY <2>1
<1>9. ASSUME f < 256, t < 256
      PROVE  G(all) = Little(4, mc) \o (<<f, t, ty>> \o (InBytes(ns) \o Rest(c)))
  <2>1. Little(1, f) = <<f>> /\ Little(1, t) = <<t>> /\ Little(1, ty) = <<ty>>
    BY <1>0, <1>9, OneByte
  <2>2. Little(4, mc) \in Seq(Byte) /\ f \in Byte /\ t \in Byte
    BY <1>9, Bytewise DEF Byte
  <2>3. FlattenSeq(Lit(head)) = ((Little(4, mc) \o <<f>>) \o <<t>>) \o <<ty>>
    <3> DEFINE m == Little(4, mc)
    <3>1. m \in Seq(Byte) /\ <<f>> \in Seq(Byte) /\ <<t>> \in Seq(Byte) /\ <<ty>> \in Seq(Byte)
      BY <2>2
    <3>2. Lit(head) = <<m, <<f>>, <<t>>, <<ty>>>>
      BY <1>3, <2>1
    <3> DEFINE b1 == <<f>>
               b2 == <<t>>
               b3 == <<ty>>
    <3> HIDE DEF m, Lit, head, b1, b2, b3
    <3>3. m \in Seq(Byte) /\ b1 \in Seq(Byte) /\ b2 \in Seq(Byte) /\ b3 \in Seq(Byte)
      BY <3>1 DEF b1, b2, b3
    <3>4. FlattenSeq(Four(m, b1, b2, b3)) = Then(Then(Then(m, b1), b2), b3)
      BY <3>3, FlattenFour
    <3>5. Lit(head) = <<m, b1, b2, b3>>
      BY <3>2 DEF b1, b2, b3
    <3> QED
      BY <3>4, <3>5 DEF m, b1, b2, b3, Then, Four
  <2>4. FlattenSeq(Lit(all)) = FlattenSeq(Lit(head)) \o FlattenSeq(Lit(ns))
    <3>1. Lit(head) \in Seq(Seq(Byte)) /\ Lit(ns) \in Seq(Seq(Byte))
      BY <1>1, <1>2 DEF Text
    <3> HIDE DEF Lit
    <3> QED
      BY <1>5, <3>1, FlattenBoth
  <2> DEFINE x == Little(4, mc)
             y == InBytes(ns)
             z == Rest(c)
  <2>5. x \in Seq(Byte) /\ y \in Seq(Byte) /\ z \in Seq(Byte) /\ f \in Byte /\ t \in Byte /\ ty \in Byte
    BY <1>6, <2>2 DEF Text
  <2>6. G(all) = ((((x \o <<f>>) \o <<t>>) \o <<ty>>) \o y) \o z
    BY <1>6, <2>3, <2>4
  <2> HIDE DEF x, y, z, ty, G
  <2>7. Then(Then(Then(x, <<f>>), <<t>>), <<ty>>) = Then(x, <<f, t, ty>>)
    <3>1. x \in Seq(Byte) /\ f \in Byte /\ t \in Byte /\ ty \in Byte
      BY <2>5
    <3> QED
      BY <3>1, ThreeAtOnce
  <2>8. <<f, t, ty>> \in Seq(Byte)
    BY <2>5
  <2> DEFINE w == <<f, t, ty>>
  <2> HIDE DEF w
  <2>9. Then(Then(Then(x, w), y), z) = Then(x, Then(w, Then(y, z)))
    <3>1. x \in Seq(Byte) /\ y \in Seq(Byte) /\ z \in Seq(Byte) /\ w \in Seq(Byte)
      BY <2>5, <2>8 DEF w
    <3> QED
      BY <3>1, FourGrouped
  <2> QED
    BY <2>6, <2>7, <2>9 DEF w, x, y, z, Then
<1> HIDE DEF G, Good, all
<1> QED
  BY <1>6, <1>7, <1>8, <1>9 DEF Good

\* The first character of a string, and what comes after it.
Led(a, z) == <<a>> \o z

\* Both are found again.
LEMMA AfterOne ==
  ASSUME NEW a \in Byte, NEW z \in Seq(Byte)
  PROVE  LET w == Led(a, z)
         IN /\ w \in Seq(Byte) /\ w[1] = a /\ From(w, 2) = z
            /\ \A n \in 1 .. Len(z) : w[n + 1] = z[n]
            /\ \A n \in 1 .. Len(z) + 1 : From(w, n + 1) = From(z, n)
<1> DEFINE w == <<a>> \o z
           x == <<a>>
<1>1. x \in Seq(Byte) /\ Len(x) = 1 /\ x[1] = a
  OBVIOUS
<1>2. w = x \o z
  OBVIOUS
<1> HIDE DEF x, w
<1>3. /\ w \in Seq(Byte) /\ Len(w) = Len(x) + Len(z) /\ \A n \in 1 .. Len(x) : w[n] = x[n]
      /\ \A n \in 1 .. Len(z) : w[Len(x) + n] = z[n]
      /\ From(w, Len(x) + 1) = z
  <2>1. /\ x \o z \in Seq(Byte) /\ Len(x \o z) = Len(x) + Len(z)
        /\ \A n \in 1 .. Len(x) : (x \o z)[n] = x[n]
        /\ \A n \in 1 .. Len(z) : (x \o z)[Len(x) + n] = z[n]
        /\ From(x \o z, Len(x) + 1) = z
    <3>1. x \in Seq(Byte)
      BY <1>1
    <3> QED
      BY <3>1, Parts
  <2> QED
    BY <1>2, <2>1
<1>4. w[1] = a /\ From(w, 2) = z
  BY <1>1, <1>3
<1>5. \A n \in 1 .. Len(z) : w[n + 1] = z[n]
  BY <1>1, <1>3
<1>6. ASSUME NEW n \in 1 .. Len(z) + 1 PROVE From(w, n + 1) = From(z, n)
  <2> DEFINE u == From(w, n + 1)
             v == From(z, n)
             d == Len(z) + 1 - n
  <2>1. d \in Nat /\ n \in Nat /\ d + n = Len(z) + 1
    OBVIOUS
  <2>2. Len(w) = Len(z) + 1 /\ w \in Seq(Byte)
    BY <1>1, <1>3
  <2>3. u \in Seq(Byte) /\ Len(u) = d /\ \A m \in 1 .. d : u[m] = w[n + m]
    BY <2>1, <2>2 DEF From
  <2>4. v \in Seq(Byte) /\ Len(v) = d /\ \A m \in 1 .. d : v[m] = z[n + m - 1]
    BY <2>1 DEF From
  <2>5. \A m \in 1 .. d : w[n + m] = z[n + m - 1]
    <3> SUFFICES ASSUME NEW m \in 1 .. d PROVE w[n + m] = z[n + m - 1]
      OBVIOUS
    <3>1. n + m - 1 \in 1 .. Len(z) /\ (n + m - 1) + 1 = n + m
      BY <2>1
    <3> QED
      BY <1>5, <3>1
  <2> HIDE DEF u, v, d
  <2>6. u = v
    BY <2>1, <2>3, <2>4, <2>5, Alike
  <2> QED
    BY <2>6 DEF u, v
<1> QED
  <2>1. w = Led(a, z)
    BY <1>2 DEF Led, x
  <2> QED
    BY <1>3, <1>4, <1>5, <1>6, <2>1

\* A number of four bytes and one of one byte, and what comes after them.
Sizes(x, a, z) == Little(4, x) \o (<<a>> \o z)

\* All three are found again.
LEMMA AfterTwo ==
  ASSUME NEW x \in Nat, Fits(4, x), NEW a \in Byte, NEW z \in Seq(Byte)
  PROVE  LET w == Sizes(x, a, z)
         IN w \in Seq(Byte) /\ Len(w) = 5 + Len(z) /\ Number(4, w) = x /\ w[5] = a /\ From(w, 6) = z
<1> DEFINE y == Little(4, x)
           r == <<a>> \o z
           w == y \o r
           h == y \o <<a>>
<1>1. y \in Seq(Byte) /\ Len(y) = 4
  BY Bytewise
<1>2. r \in Seq(Byte) /\ Len(r) = 1 + Len(z) /\ r[1] = a
  OBVIOUS
<1> HIDE DEF y
<1>3. Number(4, w) = x
  <2> HIDE DEF r
  <2> QED
    BY <1>2, ReadNumber DEF y
<1>4. w \in Seq(Byte) /\ Len(w) = Len(y) + Len(r) /\ \A n \in 1 .. Len(r) : w[Len(y) + n] = r[n]
  <2> HIDE DEF r
  <2>1. y \in Seq(Byte) /\ r \in Seq(Byte)
    BY <1>1, <1>2
  <2> QED
    BY <2>1, Parts
<1>5. w[5] = a
  <2> HIDE DEF r, w
  <2>1. Len(z) \in Nat
    OBVIOUS
  <2>2. 1 \in 1 .. Len(r) /\ Len(y) + 1 = 5
    BY <1>1, <1>2, <2>1
  <2> QED
    BY <1>2, <1>4, <2>2
<1>6. From(w, 6) = z
  <2>1. w = h \o z
    <3>1. <<a>> \in Seq(Byte)
      OBVIOUS
    <3> QED
      BY <1>1, <3>1
  <2>2. h \in Seq(Byte) /\ Len(h) = 5
    <3> DEFINE b == <<a>>
    <3>1. b \in Seq(Byte) /\ Len(b) = 1
      OBVIOUS
    <3>2. y \in Seq(Byte)
      BY <1>1
    <3> HIDE DEF b
    <3>3. y \o b \in Seq(Byte) /\ Len(y \o b) = Len(y) + Len(b)
      BY <3>1, <3>2, Parts
    <3> QED
      BY <1>1, <3>1, <3>3 DEF b
  <2> HIDE DEF h
  <2>3. From(h \o z, Len(h) + 1) = z
    <3>1. h \in Seq(Byte)
      BY <2>2
    <3> QED
      BY <3>1, Parts
  <2>4. Len(h) + 1 = 6
    BY <2>2
  <2> HIDE DEF w
  <2> QED
    BY <2>1, <2>3, <2>4
<1> HIDE DEF r, w
<1>7. Len(w) = 5 + Len(z)
  BY <1>1, <1>2, <1>4
<1>8. w = Sizes(x, a, z)
  BY DEF w, y, r, Sizes
<1> QED
  BY <1>3, <1>4, <1>5, <1>6, <1>7, <1>8

\* What comes out is what went in, if the part after the type does.
AllFit(ns) == \A n \in DOMAIN ns : Fits(ns[n][1], ns[n][2])

\* Then deepDecode returns the arguments of deepEncode.
LEMMA ThereAndBack ==
  ASSUME NEW mc \in Nat, NEW f \in Nat, NEW t \in Nat, NEW c, Type(c) \in Byte,
         Numbers(c) \in Seq(Sized), Rest(c) \in Text,
         AllFit(Numbers(c)) => Body(Type(c), InBytes(Numbers(c)) \o Rest(c)) = c
  PROVE  {deepDecode(buf) : buf \in deepEncode(mc, f, t, c)} =
           IF Fits(4, mc) /\ f < 256 /\ t < 256 /\ AllFit(Numbers(c)) THEN {<<mc, f, t, c>>} ELSE {}
<1> DEFINE z   == InBytes(Numbers(c)) \o Rest(c)
           buf == Message(mc, f, t, Type(c), z)
           Good == Fits(4, mc) /\ f < 256 /\ t < 256 /\ AllFit(Numbers(c))
<1>1. InBytes(Numbers(c)) \in Text /\ deepEncode(mc, f, t, c) = IF Good THEN {buf} ELSE {}
  BY Encoded DEF AllFit, Message
<1>2. ASSUME Good PROVE deepDecode(buf) = <<mc, f, t, c>>
  <2>1. z \in Text
    BY <1>1 DEF Text
  <2>2. f \in Byte /\ t \in Byte
    BY <1>2 DEF Byte
  <2> HIDE DEF z
  <2>3. Number(4, buf) = mc /\ buf[5] = f /\ buf[6] = t /\ buf[7] = Type(c) /\ From(buf, 8) = z
    <3> DEFINE ty == Type(c)
    <3>1. Fits(4, mc) /\ ty \in Byte /\ f \in Byte /\ t \in Byte /\ z \in Text
      BY <1>2, <2>1, <2>2
    <3> HIDE DEF ty
    <3>2. LET b == Message(mc, f, t, ty, z)
          IN Number(4, b) = mc /\ b[5] = f /\ b[6] = t /\ b[7] = ty /\ From(b, 8) = z
      BY <3>1, Header
    <3> QED
      BY <3>2 DEF ty
  <2>4. Body(Type(c), z) = c
    BY <1>2 DEF z
  <2> HIDE DEF buf
  <2> QED
    BY <2>3, <2>4 DEF deepDecode
<1> HIDE DEF buf, Good
<1>3. {deepDecode(b) : b \in deepEncode(mc, f, t, c)} = IF Good THEN {<<mc, f, t, c>>} ELSE {}
  BY <1>1, <1>2
<1> QED
  BY <1>3 DEF Good

\* The numbers of each kind of message, in bytes.

ShareNumbers(a)        == <<<<1, a>>>>
CoinNumbers(a, x)      == <<<<1, a>>, <<2, x>>>>
VoteNumbers(a, b, c)   == <<<<1, a>>, <<1, b>>, <<1, c>>>>
BranchNumbers(x, a)    == <<<<4, x>>, <<1, a>>>>
OldNumbers(p, x, a)    == <<<<1, p>>, <<4, x>>, <<1, a>>>>

\* The number of a share fits if it is a byte, and is followed by the share.
LEMMA NumbersOfShare ==
  ASSUME NEW a \in Nat, NEW z \in Seq(Byte)
  PROVE  LET ns == ShareNumbers(a)
         IN /\ ns \in Seq(Sized)
            /\ AllFit(ns) <=> a < 256
            /\ AllFit(ns) => Then(InBytes(ns), z) = Led(a, z)
<1> DEFINE ns == <<<<1, a>>>>
<1>1. ns \in Seq(Sized)
  BY DEF Sized
<1>2. AllFit(ns) <=> a < 256
  BY OneByte DEF AllFit
<1>3. ASSUME a < 256 PROVE InBytes(ns) \o z = Led(a, z)
  <2>1. Little(1, a) = <<a>> /\ <<a>> \in Seq(Byte)
    BY <1>3, OneByte DEF Byte
  <2>2. [n \in DOMAIN ns |-> Little(ns[n][1], ns[n][2])] = <<Little(1, a)>>
    OBVIOUS
  <2>3. FlattenSeq(<<<<a>>>>) = <<a>>
    BY <2>1, FlattenOne
  <2> QED
    BY <2>1, <2>2, <2>3 DEF InBytes, Led
<1>4. ns = ShareNumbers(a)
  BY DEF ShareNumbers
<1> HIDE DEF ns
<1> QED
  BY <1>1, <1>2, <1>3, <1>4 DEF Then

\* The numbers of a coin share.
LEMMA NumbersOfCoin ==
  ASSUME NEW a \in Nat, NEW x \in Nat, NEW z \in Seq(Byte)
  PROVE  LET ns == CoinNumbers(a, x)
         IN /\ ns \in Seq(Sized)
            /\ AllFit(ns) <=> a < 256 /\ Fits(2, x)
            /\ AllFit(ns) => Then(InBytes(ns), z) = Led(a, Then(Little(2, x), z))
<1> DEFINE ns == <<<<1, a>>, <<2, x>>>>
<1>1. ns \in Seq(Sized)
  BY DEF Sized
<1>2. AllFit(ns) <=> a < 256 /\ Fits(2, x)
  <2>1. AllFit(ns) <=> Fits(1, a) /\ Fits(2, x)
    BY DEF AllFit
  <2> QED
    BY <2>1, OneByte
<1>3. ASSUME a < 256 PROVE InBytes(ns) \o z = Led(a, Then(Little(2, x), z))
  <2> DEFINE b == <<a>>
             y == Little(2, x)
  <2>1. Little(1, a) = b /\ b \in Seq(Byte)
    BY <1>3, OneByte DEF Byte
  <2>2. y \in Seq(Byte)
    BY Bytewise
  <2>3. [n \in DOMAIN ns |-> Little(ns[n][1], ns[n][2])] = Two(Little(1, a), y)
    BY DEF Two
  <2> HIDE DEF b, y
  <2>4. FlattenSeq(Two(b, y)) = Then(b, y)
    BY <2>1, <2>2, FlattenTwo
  <2>5. InBytes(ns) = b \o y
    BY <2>1, <2>3, <2>4 DEF InBytes, Then
  <2>6. (b \o y) \o z = b \o (y \o z)
    BY <2>1, <2>2
  <2> QED
    BY <2>5, <2>6 DEF Led, Then, b, y
<1>4. ns = CoinNumbers(a, x)
  BY DEF CoinNumbers
<1> HIDE DEF ns
<1> QED
  BY <1>1, <1>2, <1>3, <1>4 DEF Then

\* The numbers of a vote.
LEMMA NumbersOfVote ==
  ASSUME NEW a \in Nat, NEW b \in Nat, NEW c \in Nat
  PROVE  LET ns == VoteNumbers(a, b, c)
         IN /\ ns \in Seq(Sized)
            /\ AllFit(ns) <=> a < 256 /\ b < 256 /\ c < 256
            /\ AllFit(ns) => Then(InBytes(ns), <<>>) = <<a, b, c>>
<1> DEFINE ns == <<<<1, a>>, <<1, b>>, <<1, c>>>>
<1>1. ns \in Seq(Sized)
  BY DEF Sized
<1>2. AllFit(ns) <=> a < 256 /\ b < 256 /\ c < 256
  <2>1. AllFit(ns) <=> Fits(1, a) /\ Fits(1, b) /\ Fits(1, c)
    BY DEF AllFit
  <2> QED
    BY <2>1, OneByte
<1>3. ASSUME a < 256, b < 256, c < 256 PROVE InBytes(ns) \o <<>> = <<a, b, c>>
  <2> DEFINE x == <<a>>
             y == <<b>>
             z == <<c>>
  <2>1. Little(1, a) = x /\ Little(1, b) = y /\ Little(1, c) = z
    BY <1>3, OneByte
  <2>2. a \in Byte /\ b \in Byte /\ c \in Byte
    BY <1>3 DEF Byte
  <2>3. x \in Seq(Byte) /\ y \in Seq(Byte) /\ z \in Seq(Byte)
    BY <2>2
  <2>4. [n \in DOMAIN ns |-> Little(ns[n][1], ns[n][2])] = Three(Little(1, a), Little(1, b), Little(1, c))
    BY DEF Three
  <2>5. Then(Then(Then(<<>>, x), y), z) = Then(<<>>, <<a, b, c>>)
    <3> DEFINE none == <<>>
    <3>1. none \in Seq(Byte)
      OBVIOUS
    <3> HIDE DEF none
    <3>2. Then(Then(Then(none, <<a>>), <<b>>), <<c>>) = Then(none, <<a, b, c>>)
      BY <2>2, <3>1, ThreeAtOnce
    <3> QED
      BY <3>2 DEF none
  <2>6. <<a, b, c>> \in Seq(Byte) /\ <<>> \o <<a, b, c>> = <<a, b, c>> /\ <<a, b, c>> \o <<>> = <<a, b, c>>
        /\ <<>> \o x = x
    <3>1. <<a, b, c>> \in Seq(Byte)
      BY <2>2
    <3> DEFINE all == <<a, b, c>>
    <3> HIDE DEF all, x
    <3>2. all \in Seq(Byte)
      BY <3>1 DEF all
    <3>3. <<>> \o all = all /\ all \o <<>> = all /\ <<>> \o x = x
      BY <2>3, <3>2
    <3> QED
      BY <3>1, <3>3 DEF all
  <2> HIDE DEF x, y, z
  <2>7. FlattenSeq(Three(x, y, z)) = Then(Then(x, y), z)
    BY <2>3, FlattenThree
  <2>8. InBytes(ns) = (x \o y) \o z
    BY <2>1, <2>4, <2>7 DEF InBytes, Then
  <2>9. (x \o y) \o z = <<a, b, c>>
    BY <2>5, <2>6 DEF Then
  <2> QED
    BY <2>6, <2>8, <2>9
<1>4. ns = VoteNumbers(a, b, c)
  BY DEF VoteNumbers
<1> HIDE DEF ns
<1> QED
  BY <1>1, <1>2, <1>3, <1>4 DEF Then

\* The lengths that lead a message with a Merkle branch.
LEMMA NumbersOfBranch ==
  ASSUME NEW x \in Nat, NEW a \in Nat, NEW z \in Seq(Byte)
  PROVE  LET ns == BranchNumbers(x, a)
         IN /\ ns \in Seq(Sized)
            /\ AllFit(ns) <=> Fits(4, x) /\ a < 256
            /\ AllFit(ns) => Then(InBytes(ns), z) = Sizes(x, a, z)
<1> DEFINE ns == <<<<4, x>>, <<1, a>>>>
<1>1. ns \in Seq(Sized)
  BY DEF Sized
<1>2. AllFit(ns) <=> Fits(4, x) /\ a < 256
  <2>1. AllFit(ns) <=> Fits(4, x) /\ Fits(1, a)
    BY DEF AllFit
  <2> QED
    BY <2>1, OneByte
<1>3. ASSUME a < 256 PROVE InBytes(ns) \o z = Sizes(x, a, z)
  <2> DEFINE b == <<a>>
             y == Little(4, x)
  <2>1. Little(1, a) = b /\ b \in Seq(Byte)
    BY <1>3, OneByte DEF Byte
  <2>2. y \in Seq(Byte)
    BY Bytewise
  <2>3. [n \in DOMAIN ns |-> Little(ns[n][1], ns[n][2])] = Two(y, Little(1, a))
    BY DEF Two
  <2> HIDE DEF b, y
  <2>4. FlattenSeq(Two(y, b)) = Then(y, b)
    BY <2>1, <2>2, FlattenTwo
  <2>5. InBytes(ns) = y \o b
    BY <2>1, <2>3, <2>4 DEF InBytes, Then
  <2>6. (y \o b) \o z = y \o (b \o z)
    BY <2>1, <2>2
  <2> QED
    BY <2>5, <2>6 DEF Sizes, b, y
<1>4. ns = BranchNumbers(x, a)
  BY DEF BranchNumbers
<1> HIDE DEF ns
<1> QED
  BY <1>1, <1>2, <1>3, <1>4 DEF Then

\* The number and the lengths that lead the older message with a Merkle branch.
LEMMA NumbersOfOldBranch ==
  ASSUME NEW p \in Nat, NEW x \in Nat, NEW a \in Nat, NEW z \in Seq(Byte)
  PROVE  LET ns == OldNumbers(p, x, a)
         IN /\ ns \in Seq(Sized)
            /\ AllFit(ns) <=> p < 256 /\ Fits(4, x) /\ a < 256
            /\ AllFit(ns) => Then(InBytes(ns), z) = Led(p, Sizes(x, a, z))
<1> DEFINE ns == <<<<1, p>>, <<4, x>>, <<1, a>>>>
<1>1. ns \in Seq(Sized)
  BY DEF Sized
<1>2. AllFit(ns) <=> p < 256 /\ Fits(4, x) /\ a < 256
  <2>1. AllFit(ns) <=> Fits(1, p) /\ Fits(4, x) /\ Fits(1, a)
    BY DEF AllFit
  <2> QED
    BY <2>1, OneByte
<1>3. ASSUME p < 256, a < 256 PROVE InBytes(ns) \o z = Led(p, Sizes(x, a, z))
  <2> DEFINE d == <<p>>
             b == <<a>>
             y == Little(4, x)
  <2>1. Little(1, p) = d /\ d \in Seq(Byte) /\ Little(1, a) = b /\ b \in Seq(Byte)
    BY <1>3, OneByte DEF Byte
  <2>2. y \in Seq(Byte)
    BY Bytewise
  <2>3. [n \in DOMAIN ns |-> Little(ns[n][1], ns[n][2])] = Three(Little(1, p), y, Little(1, a))
    BY DEF Three
  <2> HIDE DEF d, b, y
  <2>4. FlattenSeq(Three(d, y, b)) = Then(Then(d, y), b)
    BY <2>1, <2>2, FlattenThree
  <2>5. InBytes(ns) = (d \o y) \o b
    BY <2>1, <2>3, <2>4 DEF InBytes, Then
  <2>6. Then(Then(Then(d, y), b), z) = Then(d, Then(y, Then(b, z)))
    BY <2>1, <2>2, FourGrouped
  <2> QED
    BY <2>5, <2>6 DEF Sizes, Led, Then, d, b, y
<1>4. ns = OldNumbers(p, x, a)
  BY DEF OldNumbers
<1> HIDE DEF ns
<1> QED
  BY <1>1, <1>2, <1>3, <1>4 DEF Then

\* Every kind of message comes out as it went in, if its numbers are in range.
Back(mc, f, t, c) ==
  {deepDecode(buf) : buf \in deepEncode(mc, f, t, c)} = IF InRange(<<mc, f, t, c>>) THEN {<<mc, f, t, c>>} ELSE {}

\* A kind of message, by its type, its numbers and the rest of it.
LEMMA Kind ==
  ASSUME NEW mc \in Nat, NEW f \in Nat, NEW t \in Nat,
         NEW c, NEW ns \in Seq(Sized), NEW rest \in Seq(Byte), NEW ty \in Byte, NEW z,
         Type(c) = ty, Numbers(c) = ns, Rest(c) = rest,
         AllFit(ns) <=> NumbersInRange(c),
         AllFit(ns) => InBytes(ns) \o rest = z /\ Body(ty, z) = c
  PROVE  Back(mc, f, t, c)
<1> DEFINE msg == <<mc, f, t, c>>
<1>1. {deepDecode(buf) : buf \in deepEncode(mc, f, t, c)} =
        IF Fits(4, mc) /\ f < 256 /\ t < 256 /\ AllFit(ns) THEN {msg} ELSE {}
  <2>1. Type(c) \in Byte /\ Numbers(c) \in Seq(Sized) /\ Rest(c) \in Text
    BY DEF Text
  <2>2. AllFit(Numbers(c)) => Body(Type(c), InBytes(Numbers(c)) \o Rest(c)) = c
    <3>1. AllFit(ns) => Body(ty, InBytes(ns) \o rest) = c
      OBVIOUS
    <3> QED
      BY <3>1
  <2>3. {deepDecode(buf) : buf \in deepEncode(mc, f, t, c)} =
          IF Fits(4, mc) /\ f < 256 /\ t < 256 /\ AllFit(Numbers(c)) THEN {<<mc, f, t, c>>} ELSE {}
    BY <2>1, <2>2, ThereAndBack
  <2> QED
    BY <2>3
<1>2. msg[1] = mc /\ msg[2] = f /\ msg[3] = t /\ msg[4] = c
  OBVIOUS
<1> HIDE DEF msg
<1>3. InRange(msg) <=> Fits(4, mc) /\ f < 256 /\ t < 256 /\ AllFit(ns)
  BY <1>2, MoreBytes DEF InRange
<1>4. {deepDecode(buf) : buf \in deepEncode(mc, f, t, c)} = IF InRange(msg) THEN {msg} ELSE {}
  BY <1>1, <1>3
<1> QED
  BY <1>4 DEF Back, msg

\* Votes: the kinds A and B.
LEMMA VoteBack ==
  ASSUME NEW mc \in Nat, NEW f \in Nat, NEW t \in Nat,
         NEW tag \in {"A", "B"}, NEW a \in Nat, NEW b \in Nat, NEW d \in Nat
  PROVE  Back(mc, f, t, [tag |-> tag, p1 |-> a, p2 |-> b, p3 |-> d])
<1> DEFINE c  == [tag |-> tag, p1 |-> a, p2 |-> b, p3 |-> d]
           ns == VoteNumbers(a, b, d)
           z  == <<a, b, d>>
           ty == IF tag = "B" THEN 3 ELSE 4
<1>1. c.tag = tag /\ c.p1 = a /\ c.p2 = b /\ c.p3 = d /\ DOMAIN c = {"tag", "p1", "p2", "p3"}
  OBVIOUS
<1>2. Body(ty, z) = c
  BY DEF Body
<1>3. ns \in Seq(Sized) /\ (AllFit(ns) <=> a < 256 /\ b < 256 /\ d < 256)
      /\ (AllFit(ns) => Then(InBytes(ns), <<>>) = z)
  BY NumbersOfVote
<1>4. ty \in Byte /\ <<>> \in Seq(Byte)
  BY DEF Byte
<1> HIDE DEF c
<1>5. Numbers(c) = ns
  BY <1>1 DEF Numbers, VoteNumbers
<1>6. Rest(c) = <<>>
  BY <1>1 DEF Rest
<1>7. Type(c) = ty
  BY <1>1 DEF Type
<1> HIDE DEF ns, z, ty
<1>8. NumbersInRange(c) <=> a < 256 /\ b < 256 /\ d < 256
  <2>1. DOMAIN c \cap {"p1", "p2", "p3"} = {"p1", "p2", "p3"}
    BY <1>1
  <2>2. c.tag \in {"A", "B", "r", "O"}
    BY <1>1
  <2>3. NumbersInRange(c) <=> FieldsInRange(c)
    BY <2>2 DEF NumbersInRange
  <2>4. FieldsInRange(c) <=> a < 256 /\ b < 256 /\ d < 256
    BY <1>1, <2>1 DEF FieldsInRange
  <2> QED
    BY <2>3, <2>4
<1>9. Back(mc, f, t, c)
  <2> DEFINE none == <<>>
  <2>1. none \in Seq(Byte) /\ Rest(c) = none /\ (AllFit(ns) => InBytes(ns) \o none = z)
    BY <1>3, <1>4, <1>6 DEF Then
  <2> HIDE DEF none
  <2> QED
    BY <1>2, <1>3, <1>4, <1>5, <1>7, <1>8, <2>1, Kind DEF Then
<1> QED
  BY <1>9 DEF c

\* Coin shares: the kind C.
LEMMA CoinBack ==
  ASSUME NEW mc \in Nat, NEW f \in Nat, NEW t \in Nat, NEW a \in Nat, NEW x \in Nat, NEW sig \in Seq(Byte)
  PROVE  Back(mc, f, t, [tag |-> "C", p1 |-> a, r |-> x, sig |-> sig])
<1> DEFINE c  == [tag |-> "C", p1 |-> a, r |-> x, sig |-> sig]
           ns == CoinNumbers(a, x)
           y  == Little(2, x)
           w  == Then(y, sig)
           z  == Led(a, w)
<1>1. c.tag = "C" /\ c.p1 = a /\ c.r = x /\ c.sig = sig /\ DOMAIN c = {"tag", "p1", "r", "sig"}
  OBVIOUS
<1>2. ASSUME a < 256, Fits(2, x) PROVE Body(5, z) = c
  <2>1. y \in Seq(Byte) /\ Len(y) = 2
    BY Bytewise
  <2>2. Number(2, w) = x
    BY <1>2, ReadNumber DEF Then
  <2> HIDE DEF y
  <2>3. w \in Seq(Byte) /\ Len(w) = Len(y) + Len(sig) /\ From(w, Len(y) + 1) = sig
    <3>1. y \in Seq(Byte)
      BY <2>1
    <3>2. y \o sig \in Seq(Byte) /\ Len(y \o sig) = Len(y) + Len(sig) /\ From(y \o sig, Len(y) + 1) = sig
      BY <3>1, Parts
    <3> QED
      BY <3>2 DEF Then
  <2> HIDE DEF w
  <2>4. From(w, 3) = sig /\ 3 \in 1 .. Len(w) + 1
    <3>1. Len(sig) \in Nat
      OBVIOUS
    <3> QED
      BY <2>1, <2>3, <3>1
  <2>5. a \in Byte
    BY <1>2 DEF Byte
  <2>6. z[1] = a /\ From(z, 2) = w /\ \A n \in 1 .. Len(w) + 1 : From(z, n + 1) = From(w, n)
    BY <2>3, <2>5, AfterOne
  <2> HIDE DEF z
  <2>7. From(z, 4) = sig
    BY <2>4, <2>6
  <2>8. Body(5, z) = [tag |-> "C", p1 |-> z[1], r |-> Number(2, From(z, 2)), sig |-> From(z, 4)]
    BY DEF Body
  <2> QED
    BY <2>2, <2>6, <2>7, <2>8
<1>3. ns \in Seq(Sized) /\ (AllFit(ns) <=> a < 256 /\ Fits(2, x)) /\ (AllFit(ns) => Then(InBytes(ns), sig) = z)
  BY NumbersOfCoin
<1>4. 5 \in Byte
  BY DEF Byte
<1> HIDE DEF c, z
<1>5. Numbers(c) = ns
  BY <1>1 DEF Numbers, CoinNumbers
<1>6. Rest(c) = sig
  BY <1>1 DEF Rest
<1>7. Type(c) = 5
  BY <1>1 DEF Type
<1> HIDE DEF ns
<1>8. NumbersInRange(c) <=> a < 256 /\ Fits(2, x)
  <2>1. DOMAIN c \cap {"p1", "p2", "p3"} = {"p1"}
    BY <1>1
  <2>2. c.tag = "C"
    BY <1>1
  <2>3. NumbersInRange(c) <=>
          c.r < 65536 /\ FieldsInRange(c)
    BY <2>2 DEF NumbersInRange
  <2>4. FieldsInRange(c) <=> a < 256
    BY <1>1, <2>1 DEF FieldsInRange
  <2>5. c.r < 65536 <=> Fits(2, x)
    BY <1>1, MoreBytes
  <2> QED
    BY <2>3, <2>4, <2>5
<1>9. Back(mc, f, t, c)
  BY <1>2, <1>3, <1>4, <1>5, <1>6, <1>7, <1>8, Kind DEF Then
<1> QED
  BY <1>9 DEF c

\* Shares: the kinds r and O, the latter of a fixed length.
LEMMA ShareBack ==
  ASSUME NEW mc \in Nat, NEW f \in Nat, NEW t \in Nat, NEW a \in Nat, NEW sig \in Seq(Byte)
  PROVE  /\ Back(mc, f, t, [tag |-> "r", p1 |-> a, sig |-> sig])
         /\ Len(sig) = PAIRING_SERIALIZED_1 => Back(mc, f, t, [tag |-> "O", p1 |-> a, sig |-> sig])
<1> DEFINE ns == ShareNumbers(a)
           z  == Led(a, sig)
<1>1. ns \in Seq(Sized) /\ (AllFit(ns) <=> a < 256) /\ (AllFit(ns) => Then(InBytes(ns), sig) = z)
  BY NumbersOfShare
<1>2. ASSUME a < 256 PROVE z \in Seq(Byte) /\ z[1] = a /\ From(z, 2) = sig
  <2>1. a \in Byte
    BY <1>2 DEF Byte
  <2> QED
    BY <2>1, AfterOne
<1>3. ASSUME a < 256, Len(sig) = PAIRING_SERIALIZED_1 PROVE SubSeq(z, 2, PAIRING_SERIALIZED_1 + 1) = sig
  <2> DEFINE x == <<a>>
  <2>1. x \in Seq(Byte) /\ Len(x) = 1
    BY <1>3 DEF Byte
  <2>2. Len(z) = 1 + Len(sig)
    <3>1. z = x \o sig
      BY DEF Led
    <3>2. x \in Seq(Byte)
      BY <2>1
    <3> HIDE DEF x, z
    <3>3. Len(x \o sig) = Len(x) + Len(sig)
      BY <3>2, Parts
    <3> QED
      BY <2>1, <3>1, <3>3
  <2> HIDE DEF z
  <2>3. Len(z) = PAIRING_SERIALIZED_1 + 1
    BY <1>3, <2>2, LengthAssumption
  <2> QED
    BY <1>2, <1>3, <2>3 DEF From
<1> HIDE DEF z
<1>4. ASSUME NEW tag \in {"r", "O"}, tag = "O" => Len(sig) = PAIRING_SERIALIZED_1
      PROVE  Back(mc, f, t, [tag |-> tag, p1 |-> a, sig |-> sig])
  <2> DEFINE c  == [tag |-> tag, p1 |-> a, sig |-> sig]
             ty == IF tag = "r" THEN 6 ELSE 7
  <2>1. c.tag = tag /\ c.p1 = a /\ c.sig = sig /\ DOMAIN c = {"tag", "p1", "sig"}
    OBVIOUS
  <2>2. ASSUME a < 256 PROVE Body(ty, z) = c
    <3>1. CASE tag = "r"
      <4>1. Body(6, z) = [tag |-> "r", p1 |-> z[1], sig |-> From(z, 2)]
        BY DEF Body
      <4> QED
        BY <1>2, <2>2, <3>1, <4>1
    <3>2. CASE tag = "O"
      <4>1. Body(7, z) = [tag |-> "O", p1 |-> z[1], sig |-> SubSeq(z, 2, PAIRING_SERIALIZED_1 + 1)]
        BY DEF Body
      <4> QED
        BY <1>2, <1>3, <1>4, <2>2, <3>2, <4>1
    <3> QED
      BY <3>1, <3>2
  <2>3. ty \in Byte
    BY DEF Byte
  <2> HIDE DEF c
  <2>4. Numbers(c) = ns
    BY <2>1 DEF Numbers, ShareNumbers
  <2>5. Rest(c) = sig
    BY <2>1 DEF Rest
  <2>6. Type(c) = ty
    BY <2>1 DEF Type
  <2> HIDE DEF ns, ty
  <2>7. NumbersInRange(c) <=> a < 256
    <3>1. DOMAIN c \cap {"p1", "p2", "p3"} = {"p1"}
      BY <2>1
    <3>2. c.tag \in {"A", "B", "r", "O"}
      BY <2>1
    <3>3. NumbersInRange(c) <=> FieldsInRange(c)
      BY <3>2 DEF NumbersInRange
    <3>4. FieldsInRange(c) <=> a < 256
      BY <2>1, <3>1 DEF FieldsInRange
    <3> QED
      BY <3>3, <3>4
  <2>8. Back(mc, f, t, c)
    BY <1>1, <2>2, <2>3, <2>4, <2>5, <2>6, <2>7, Kind DEF Then
  <2> QED
    BY <2>8 DEF c
<1> QED
  BY <1>4

\* The parts of a message with a Merkle branch, found by their lengths.
BranchText(x, y, z, u) == x \o y \o z \o u

\* The parts are found again, each hash of the branch too.
LEMMA BranchParts ==
  ASSUME NEW s \in Seq(Byte), NEW rh \in Hash, NEW mb \in Seq(Hash), NEW sig \in Seq(Byte), NEW tag, NEW second
  PROVE  /\ BranchText(s, rh, FlattenSeq(mb), sig) \in Seq(Byte)
         /\ Branch(tag, second, Len(s), Len(mb), BranchText(s, rh, FlattenSeq(mb), sig))
              = [tag |-> tag, p2 |-> second, s |-> s, rh |-> rh, mb |-> mb, sig |-> sig]
<1> DEFINE m   == SHA_LENGTH
           off == [n \in Nat |-> n * m]
           hashes   == FlattenSeq(mb)
           x   == s \o rh
           y   == x \o hashes
           buf == y \o sig
           nr  == Len(mb)
<1>1. m \in Nat \ {0} /\ rh \in Seq(Byte) /\ Len(rh) = m
  <2>1. m \in Nat \ {0}
    BY LengthAssumption
  <2> QED
    BY <2>1 DEF Hash, TupleOf
<1>2. hashes \in Seq(Byte) /\ Len(hashes) = nr * m /\ nr \in Nat
  BY BranchBlocks
<1>3. \A n \in 1 .. nr : SubSeq(hashes, (n - 1) * m + 1, n * m) = mb[n]
  BY BranchBlocks
<1>4. \A n \in Nat : off[n] = n * m /\ off[n] \in Nat /\ off[n + 1] = off[n] + m
  BY <1>1
<1>5. \A n, d \in Nat : off[n] <= off[n + d]
  BY <1>1
<1>6. \A n \in 1 .. nr : n - 1 \in Nat /\ n \in Nat /\ off[n - 1] = (n - 1) * m /\ off[n] = n * m
                         /\ off[n + 1] = (n + 1) * m /\ off[n] = off[n - 1] + m /\ off[n + 1] = off[n] + m
  <2> SUFFICES ASSUME NEW n \in 1 .. nr
               PROVE  n - 1 \in Nat /\ n \in Nat /\ off[n - 1] = (n - 1) * m /\ off[n] = n * m
                      /\ off[n + 1] = (n + 1) * m /\ off[n] = off[n - 1] + m /\ off[n + 1] = off[n] + m
    OBVIOUS
  <2>1. n - 1 \in Nat /\ n \in Nat /\ n + 1 \in Nat /\ (n - 1) + 1 = n
    BY <1>2
  <2> HIDE DEF off
  <2> QED
    BY <1>4, <2>1
<1>7. (nr + 1) * m = off[nr] + m /\ off[nr] = nr * m
  <2>1. off[nr] = nr * m
    BY <1>2
  <2>2. (nr + 1) * m = nr * m + m
    BY <1>1, <1>2
  <2> QED
    BY <2>1, <2>2
<1> HIDE DEF off, m, hashes, nr
<1>8. x \in Seq(Byte) /\ Len(x) = Len(s) + m
  <2>1. s \o rh \in Seq(Byte) /\ Len(s \o rh) = Len(s) + Len(rh)
    BY <1>1, Parts
  <2> QED
    BY <1>1, <2>1
<1>9. rh \o (hashes \o sig) \in Seq(Byte) /\ hashes \o sig \in Seq(Byte) /\ buf = s \o (rh \o (hashes \o sig)) /\ buf = x \o (hashes \o sig)
  <2>1. hashes \o sig \in Seq(Byte)
    BY <1>2
  <2>2. Then(Then(Then(s, rh), hashes), sig) = Then(s, Then(rh, Then(hashes, sig)))
    BY <1>1, <1>2, FourGrouped
  <2>3. (x \o hashes) \o sig = x \o (hashes \o sig)
    <3> HIDE DEF x
    <3> QED
      BY <1>2, <1>8, SMTT(30)
  <2>4. rh \o (hashes \o sig) \in Seq(Byte)
    <3> DEFINE r == hashes \o sig
    <3> HIDE DEF r
    <3>1. r \in Seq(Byte)
      BY <2>1 DEF r
    <3>2. rh \o r \in Seq(Byte)
      BY <1>1, <3>1
    <3> QED
      BY <3>2 DEF r
  <2> QED
    BY <2>1, <2>2, <2>3, <2>4 DEF Then
<1> HIDE DEF x
<1>10. y \in Seq(Byte) /\ Len(y) = Len(s) + m + off[nr]
  <2>1. x \o hashes \in Seq(Byte) /\ Len(x \o hashes) = Len(x) + Len(hashes)
    BY <1>2, <1>8, Parts
  <2> QED
    BY <1>2, <1>7, <1>8, <2>1
<1> DEFINE u == hashes \o sig
           v == rh \o u
<1>11. u \in Seq(Byte) /\ v \in Seq(Byte) /\ buf = s \o v /\ buf = x \o u /\ buf = y \o sig
  BY <1>9
<1> HIDE DEF y
<1>12. buf \in Seq(Byte)
  BY <1>10
<1>13. SubSeq(buf, 1, Len(s)) = s
  <2> HIDE DEF v, buf
  <2>1. SubSeq(s \o v, 1, Len(s)) = s
    BY <1>11, Parts
  <2> QED
    BY <1>11, <2>1
<1>14. SubSeq(buf, Len(s) + 1, Len(s) + m) = rh
  <2>1. SubSeq(rh, 1, m) = rh
    BY <1>1
  <2>2. m \in 0 .. Len(rh) /\ 1 \in 1 .. m + 1
    BY <1>1
  <2>3. SubSeq(s \o (rh \o u), Len(s) + 1, Len(s) + m) = SubSeq(rh, 1, m)
    <3> HIDE DEF u
    <3> DEFINE i == Len(s) + 1
               j == Len(s) + m
    <3>1. i \in Nat /\ j \in Nat /\ Len(s) < i /\ i <= j + 1 /\ j <= Len(s) + Len(rh)
          /\ i - Len(s) = 1 /\ j - Len(s) = m
      BY <1>1
    <3> HIDE DEF i, j
    <3>2. SubSeq(Then(s, Then(rh, u)), i, j) = SubSeq(rh, i - Len(s), j - Len(s))
      <4>1. s \in Seq(Byte) /\ rh \in Seq(Byte) /\ u \in Seq(Byte)
        BY <1>1, <1>11
      <4>2. j <= Len(s) + Len(rh) /\ i <= j + 1 /\ Len(s) < i /\ i \in Nat /\ j \in Nat
        BY <3>1
      <4> QED
        BY <4>1, <4>2, Middle
    <3>3. SubSeq(Then(s, Then(rh, u)), i, j) = SubSeq(rh, 1, m)
      BY <3>1, <3>2, Zenon
    <3> QED
      BY <3>3 DEF Then, i, j
  <2> HIDE DEF buf, u
  <2> QED
    BY <1>11, <2>1, <2>3
<1>15. ASSUME NEW n \in 1 .. nr PROVE SubSeq(buf, Len(s) + n * m + 1, Len(s) + (n + 1) * m) = mb[n]
  <2> DEFINE a == off[n - 1] + 1
             b == off[n]
  <2>1. n - 1 \in Nat /\ n \in Nat /\ off[n - 1] = (n - 1) * m /\ off[n] = n * m
        /\ off[n + 1] = (n + 1) * m /\ off[n] = off[n - 1] + m /\ off[n + 1] = off[n] + m
    BY <1>6
  <2>2. off[n - 1] \in Nat /\ off[n] \in Nat
    BY <1>4, <2>1
  <2>3. off[n] <= off[nr]
    <3>1. nr - n \in Nat /\ n + (nr - n) = nr
      BY <1>2
    <3> QED
      BY <1>5, <2>1, <3>1
  <2>4. b \in 0 .. Len(hashes) /\ a \in 1 .. b + 1
    BY <1>1, <1>2, <1>7, <2>1, <2>2, <2>3
  <2>5. SubSeq(hashes, a, b) = mb[n]
    <3>1. SubSeq(hashes, (n - 1) * m + 1, n * m) = mb[n]
      BY <1>3
    <3>2. (n - 1) * m + 1 = a /\ n * m = b
      BY <2>1
    <3> QED
      BY <3>1, <3>2, Zenon
  <2>6. Len(x) + a = Len(s) + n * m + 1 /\ Len(x) + b = Len(s) + (n + 1) * m
    <3>1. Len(s) \in Nat
      OBVIOUS
    <3>2. Len(x) + a = Len(s) + off[n] + 1 /\ Len(x) + b = Len(s) + off[n + 1]
      BY <1>1, <1>8, <2>1, <2>2, <3>1
    <3> QED
      BY <2>1, <3>2, Zenon
  <2> HIDE DEF a, b
  <2>7. SubSeq(x \o (hashes \o sig), Len(x) + a, Len(x) + b) = SubSeq(hashes, a, b)
    <3> DEFINE i == Len(x) + a
               j == Len(x) + b
    <3>1. i \in Nat /\ j \in Nat /\ Len(x) < i /\ i <= j + 1 /\ j <= Len(x) + Len(hashes)
          /\ i - Len(x) = a /\ j - Len(x) = b
      BY <1>2, <1>8, <2>4
    <3> HIDE DEF i, j
    <3>2. SubSeq(Then(x, Then(hashes, sig)), i, j) = SubSeq(hashes, i - Len(x), j - Len(x))
      <4>1. x \in Seq(Byte) /\ hashes \in Seq(Byte) /\ sig \in Seq(Byte)
        BY <1>2, <1>8
      <4>2. j <= Len(x) + Len(hashes) /\ i <= j + 1 /\ Len(x) < i /\ i \in Nat /\ j \in Nat
        BY <3>1
      <4> QED
        BY <4>1, <4>2, Middle
    <3>3. SubSeq(Then(x, Then(hashes, sig)), i, j) = SubSeq(hashes, a, b)
      BY <3>1, <3>2, Zenon
    <3> QED
      BY <3>3 DEF Then, i, j
  <2>8. buf = x \o (hashes \o sig)
    BY <1>9
  <2> HIDE DEF buf
  <2> QED
    BY <2>5, <2>6, <2>7, <2>8, Zenon
<1>16. From(buf, Len(s) + (nr + 1) * m + 1) = sig
  <2>1. From(y \o sig, Len(y) + 1) = sig
    BY <1>10, Parts
  <2>2. Len(y) + 1 = Len(s) + (nr + 1) * m + 1
    <3>1. Len(s) \in Nat /\ off[nr] \in Nat
      BY <1>2, <1>4
    <3> QED
      BY <1>1, <1>7, <1>10, <3>1
  <2> QED
    BY <2>1, <2>2, Zenon
<1> HIDE DEF buf, u, v
<1>17. [n \in 1 .. nr |-> SubSeq(buf, Len(s) + n * m + 1, Len(s) + (n + 1) * m)] = mb
  <2>1. [n \in 1 .. nr |-> SubSeq(buf, Len(s) + n * m + 1, Len(s) + (n + 1) * m)] = [n \in 1 .. nr |-> mb[n]]
    BY <1>15
  <2>2. [n \in 1 .. nr |-> mb[n]] = mb
    BY DEF nr
  <2> QED
    BY <2>1, <2>2
<1>18. Branch(tag, second, Len(s), nr, buf) = [tag |-> tag, p2 |-> second, s |-> s, rh |-> rh, mb |-> mb, sig |-> sig]
  <2>1. Branch(tag, second, Len(s), nr, buf) =
          [tag |-> tag, p2 |-> second, s |-> SubSeq(buf, 1, Len(s)), rh |-> SubSeq(buf, Len(s) + 1, Len(s) + m),
           mb |-> [n \in 1 .. nr |-> SubSeq(buf, Len(s) + n * m + 1, Len(s) + (n + 1) * m)],
           sig |-> From(buf, Len(s) + (nr + 1) * m + 1)]
    BY DEF Branch, m
  <2> QED
    BY <1>13, <1>14, <1>16, <1>17, <2>1
<1>19. buf = BranchText(s, rh, FlattenSeq(mb), sig)
  BY DEF buf, y, x, hashes, BranchText
<1> QED
  BY <1>12, <1>18, <1>19 DEF nr

\* Messages with a Merkle branch: the kind i.
LEMMA BranchBack ==
  ASSUME NEW mc \in Nat, NEW f \in Nat, NEW t \in Nat,
         NEW s \in Seq(Byte), NEW rh \in Hash, NEW mb \in Seq(Hash), NEW sig \in Seq(Byte)
  PROVE  Back(mc, f, t, [tag |-> "i", p2 |-> 0, s |-> s, rh |-> rh, mb |-> mb, sig |-> sig])
<1> DEFINE c    == [tag |-> "i", p2 |-> 0, s |-> s, rh |-> rh, mb |-> mb, sig |-> sig]
           x    == Len(s)
           a    == Len(mb)
           ns   == BranchNumbers(x, a)
           rest == BranchText(s, rh, FlattenSeq(mb), sig)
           z    == Sizes(x, a, rest)
<1>1. c.tag = "i" /\ c.s = s /\ c.rh = rh /\ c.mb = mb /\ c.sig = sig
  OBVIOUS
<1>2. rest \in Seq(Byte) /\ Branch("i", 0, x, a, rest) = c
  BY BranchParts
<1>3. x \in Nat /\ a \in Nat
  OBVIOUS
<1>4. Numbers(c) = ns
  BY <1>1 DEF Numbers, BranchNumbers
<1> HIDE DEF c
<1>5. Rest(c) = rest
  BY <1>1 DEF Rest, BranchText
<1>6. Type(c) = 1
  BY <1>1 DEF Type
<1> HIDE DEF rest
<1>7. NumbersInRange(c) <=> Fits(4, x) /\ a < 256
  <2>1. c.tag = "i" /\ x = Len(c.s) /\ a = Len(c.mb)
    BY <1>1
  <2>2. NumbersInRange(c) <=> x \div 65536 < 65536 /\ a < 256
    BY <2>1 DEF NumbersInRange, LengthsInRange
  <2>3. Fits(4, x) <=> x \div 65536 < 65536
    BY <1>3, MoreBytes
  <2> QED
    BY <2>2, <2>3
<1> HIDE DEF x, a
<1>8. ns \in Seq(Sized) /\ (AllFit(ns) <=> Fits(4, x) /\ a < 256) /\ (AllFit(ns) => Then(InBytes(ns), rest) = z)
  BY <1>2, <1>3, NumbersOfBranch
<1>9. ASSUME Fits(4, x), a < 256 PROVE Body(1, z) = c
  <2>1. a \in Byte
    BY <1>3, <1>9 DEF Byte
  <2>2. Number(4, z) = x /\ z[5] = a /\ From(z, 6) = rest
    BY <1>2, <1>3, <1>9, <2>1, AfterTwo
  <2> HIDE DEF z
  <2>3. Body(1, z) = Branch("i", 0, Number(4, z), z[5], From(z, 6))
    BY DEF Body
  <2> QED
    BY <1>2, <2>2, <2>3
<1> HIDE DEF ns, z
<1>10. 1 \in Byte
  BY DEF Byte
<1>11. Back(mc, f, t, c)
  BY <1>2, <1>4, <1>5, <1>6, <1>7, <1>8, <1>9, <1>10, Kind DEF Then
<1> QED
  BY <1>11 DEF c

\* Messages with a Merkle branch: the older kind e.
LEMMA OldBranchBack ==
  ASSUME NEW mc \in Nat, NEW f \in Nat, NEW t \in Nat, NEW p \in Nat,
         NEW s \in Seq(Byte), NEW rh \in Hash, NEW mb \in Seq(Hash), NEW sig \in Seq(Byte)
  PROVE  Back(mc, f, t, [tag |-> "e", p2 |-> p, s |-> s, rh |-> rh, mb |-> mb, sig |-> sig])
<1> DEFINE c    == [tag |-> "e", p2 |-> p, s |-> s, rh |-> rh, mb |-> mb, sig |-> sig]
           x    == Len(s)
           a    == Len(mb)
           ns   == OldNumbers(p, x, a)
           rest == BranchText(s, rh, FlattenSeq(mb), sig)
           y    == Sizes(x, a, rest)
           z    == Led(p, y)
<1>1. /\ c.tag = "e" /\ c.p2 = p /\ c.s = s /\ c.rh = rh /\ c.mb = mb /\ c.sig = sig
      /\ DOMAIN c = {"tag", "p2", "s", "rh", "mb", "sig"}
  OBVIOUS
<1>2. rest \in Seq(Byte) /\ Branch("e", p, x, a, rest) = c
  BY BranchParts
<1>3. x \in Nat /\ a \in Nat
  OBVIOUS
<1>4. Numbers(c) = ns
  BY <1>1 DEF Numbers, OldNumbers
<1> HIDE DEF c
<1>5. Rest(c) = rest
  BY <1>1 DEF Rest, BranchText
<1>6. Type(c) = 2
  BY <1>1 DEF Type
<1> HIDE DEF rest
<1>7. NumbersInRange(c) <=> p < 256 /\ Fits(4, x) /\ a < 256
  <2>1. c.tag = "e" /\ x = Len(c.s) /\ a = Len(c.mb)
    BY <1>1
  <2>2. DOMAIN c \cap {"p1", "p2", "p3"} = {"p2"}
    BY <1>1
  <2>3. FieldsInRange(c) <=> p < 256
    BY <1>1, <2>2 DEF FieldsInRange
  <2>4. LengthsInRange(c) <=> x \div 65536 < 65536 /\ a < 256
    BY <2>1 DEF LengthsInRange
  <2>5. NumbersInRange(c) <=> LengthsInRange(c) /\ FieldsInRange(c)
    BY <2>1 DEF NumbersInRange
  <2>6. Fits(4, x) <=> x \div 65536 < 65536
    BY <1>3, MoreBytes
  <2> QED
    BY <2>3, <2>4, <2>5, <2>6
<1> HIDE DEF x, a
<1>8. /\ ns \in Seq(Sized)
      /\ AllFit(ns) <=> p < 256 /\ Fits(4, x) /\ a < 256
      /\ AllFit(ns) => Then(InBytes(ns), rest) = z
  BY <1>2, <1>3, NumbersOfOldBranch
<1>9. ASSUME p < 256, Fits(4, x), a < 256 PROVE Body(2, z) = c
  <2>1. a \in Byte /\ p \in Byte
    BY <1>3, <1>9 DEF Byte
  <2>2. y \in Seq(Byte) /\ Len(y) = 5 + Len(rest) /\ Number(4, y) = x /\ y[5] = a /\ From(y, 6) = rest
    BY <1>2, <1>3, <1>9, <2>1, AfterTwo
  <2>3. Len(rest) \in Nat
    BY <1>2
  <2> HIDE DEF y
  <2>4. /\ z[1] = p /\ From(z, 2) = y
        /\ \A n \in 1 .. Len(y) : z[n + 1] = y[n]
        /\ \A n \in 1 .. Len(y) + 1 : From(z, n + 1) = From(y, n)
    BY <2>1, <2>2, AfterOne
  <2>5. z[6] = a /\ From(z, 7) = rest
    <3>1. 5 \in 1 .. Len(y) /\ 6 \in 1 .. Len(y) + 1 /\ 5 + 1 = 6 /\ 6 + 1 = 7
      BY <2>2, <2>3
    <3>2. z[5 + 1] = y[5] /\ From(z, 6 + 1) = From(y, 6)
      BY <2>4, <3>1
    <3> QED
      BY <2>2, <3>1, <3>2
  <2> HIDE DEF z
  <2>6. Body(2, z) = Branch("e", z[1], Number(4, From(z, 2)), z[6], From(z, 7))
    BY DEF Body
  <2> QED
    BY <1>2, <2>2, <2>4, <2>5, <2>6
<1> HIDE DEF ns, z
<1>10. 2 \in Byte
  BY DEF Byte
<1>11. Back(mc, f, t, c)
  BY <1>2, <1>4, <1>5, <1>6, <1>7, <1>8, <1>9, <1>10, Kind DEF Then
<1> QED
  BY <1>11 DEF c

\* Whatever its kind, a message comes out as it went in.
LEMMA AnyKind ==
  ASSUME NEW c \in Content, NEW mc \in Nat, NEW f \in Nat, NEW t \in Nat
  PROVE  Back(mc, f, t, c)
<1>1. CASE c \in [tag : {"i"}, p2 : {0}, s : Text, rh : Hash, mb : Seq(Hash), sig : Text]
  <2>1. c = [tag |-> "i", p2 |-> 0, s |-> c.s, rh |-> c.rh, mb |-> c.mb, sig |-> c.sig]
        /\ c.s \in Seq(Byte) /\ c.rh \in Hash /\ c.mb \in Seq(Hash) /\ c.sig \in Seq(Byte)
    BY <1>1 DEF Text
  <2>2. Back(mc, f, t, [tag |-> "i", p2 |-> 0, s |-> c.s, rh |-> c.rh, mb |-> c.mb, sig |-> c.sig])
    BY <2>1, BranchBack
  <2> QED
    BY <2>1, <2>2, Zenon
<1>2. CASE c \in [tag : {"e"}, p2 : Nat, s : Text, rh : Hash, mb : Seq(Hash), sig : Text]
  <2>1. c = [tag |-> "e", p2 |-> c.p2, s |-> c.s, rh |-> c.rh, mb |-> c.mb, sig |-> c.sig]
        /\ c.p2 \in Nat /\ c.s \in Seq(Byte) /\ c.rh \in Hash /\ c.mb \in Seq(Hash) /\ c.sig \in Seq(Byte)
    BY <1>2 DEF Text
  <2>2. Back(mc, f, t, [tag |-> "e", p2 |-> c.p2, s |-> c.s, rh |-> c.rh, mb |-> c.mb, sig |-> c.sig])
    BY <2>1, OldBranchBack
  <2> QED
    BY <2>1, <2>2, Zenon
<1>3. CASE c \in [tag : {"A", "B"}, p1 : Nat, p2 : Nat, p3 : Nat]
  <2>1. c = [tag |-> c.tag, p1 |-> c.p1, p2 |-> c.p2, p3 |-> c.p3]
        /\ c.tag \in {"A", "B"} /\ c.p1 \in Nat /\ c.p2 \in Nat /\ c.p3 \in Nat
    BY <1>3
  <2>2. Back(mc, f, t, [tag |-> c.tag, p1 |-> c.p1, p2 |-> c.p2, p3 |-> c.p3])
    BY <2>1, VoteBack
  <2> QED
    BY <2>1, <2>2, Zenon
<1>4. CASE c \in [tag : {"C"}, p1 : Nat, r : Nat, sig : Text]
  <2>1. c = [tag |-> "C", p1 |-> c.p1, r |-> c.r, sig |-> c.sig]
        /\ c.p1 \in Nat /\ c.r \in Nat /\ c.sig \in Seq(Byte)
    BY <1>4 DEF Text
  <2>2. Back(mc, f, t, [tag |-> "C", p1 |-> c.p1, r |-> c.r, sig |-> c.sig])
    BY <2>1, CoinBack
  <2> QED
    BY <2>1, <2>2, Zenon
<1>5. CASE c \in [tag : {"r"}, p1 : Nat, sig : Text]
  <2>1. c = [tag |-> "r", p1 |-> c.p1, sig |-> c.sig] /\ c.p1 \in Nat /\ c.sig \in Seq(Byte)
    BY <1>5 DEF Text
  <2>2. Back(mc, f, t, [tag |-> "r", p1 |-> c.p1, sig |-> c.sig])
    BY <2>1, ShareBack
  <2> QED
    BY <2>1, <2>2, Zenon
<1>6. CASE c \in [tag : {"O"}, p1 : Nat, sig : TupleOf(Byte, PAIRING_SERIALIZED_1)]
  <2>1. c = [tag |-> "O", p1 |-> c.p1, sig |-> c.sig] /\ c.p1 \in Nat /\ c.sig \in TupleOf(Byte, PAIRING_SERIALIZED_1)
    BY <1>6
  <2>2. c.sig \in Seq(Byte) /\ Len(c.sig) = PAIRING_SERIALIZED_1
    <3>1. PAIRING_SERIALIZED_1 \in Nat
      BY LengthAssumption
    <3> QED
      BY <2>1, <3>1 DEF TupleOf
  <2>3. Back(mc, f, t, [tag |-> "O", p1 |-> c.p1, sig |-> c.sig])
    BY <2>1, <2>2, ShareBack
  <2> QED
    BY <2>1, <2>3, Zenon
<1> QED
  BY <1>1, <1>2, <1>3, <1>4, <1>5, <1>6 DEF Content

\* So does every message of Codes.
LEMMA EveryCode ==
  ASSUME NEW msg \in Codes
  PROVE  {deepDecode(buf) : buf \in deepEncode(msg[1], msg[2], msg[3], msg[4])} = IF InRange(msg) THEN {msg} ELSE {}
<1>1. msg \in Nat \X Nat \X Nat \X Content
  BY CodesAssumption
<1>2. msg = <<msg[1], msg[2], msg[3], msg[4]>> /\ msg[1] \in Nat /\ msg[2] \in Nat /\ msg[3] \in Nat /\ msg[4] \in Content
  BY <1>1
<1> DEFINE m1 == msg[1] m2 == msg[2] m3 == msg[3] m4 == msg[4]
<1> HIDE DEF m1, m2, m3, m4
<1>3. Back(m1, m2, m3, m4)
  BY <1>2, AnyKind DEF m1, m2, m3, m4
<1>4. msg = <<m1, m2, m3, m4>>
  BY <1>2 DEF m1, m2, m3, m4
<1>5. {deepDecode(buf) : buf \in deepEncode(m1, m2, m3, m4)} = IF InRange(msg) THEN {msg} ELSE {}
  BY <1>3, <1>4, Zenon DEF Back
<1> QED
  BY <1>5, Zenon DEF m1, m2, m3, m4

-----------------------------------------------------------------------------
(* Transactions, ciphertexts, messages of the sub-protocols, keys.         *)

\* A transaction comes out as it went in, unless a number of it is too large.
LEMMA EveryTransaction ==
  ASSUME NEW s \in Nat, NEW t \in Nat, NEW amount \in Nat
  PROVE  LET tr == <<s, t, amount>>
         IN {constructTransactionFromRepr(r) : r \in encodeTransaction(s, t, amount)}
              = {x \in {tr} : x[1] < 256 /\ x[2] < 256 /\ x[3] < 65536}
<1> DEFINE tr  == <<s, t, amount>>
           buf == Little(1, s) \o Little(1, t) \o Little(2, amount)
           fit == Fits(1, s) /\ Fits(1, t) /\ Fits(2, amount)
<1>1. encodeTransaction(s, t, amount) = {b \in {buf} : fit}
  <2>1. tr[1] = s /\ tr[2] = t /\ tr[3] = amount
    OBVIOUS
  <2> DEFINE bytesOf(x) == Little(1, x[1]) \o Little(1, x[2]) \o Little(2, x[3])
             Ok(y) == Fits(1, y[1]) /\ Fits(1, y[2]) /\ Fits(2, y[3])
  <2>2. encodeTransaction(s, t, amount) = {bytesOf(x) : x \in {y \in {tr} : Ok(y)}}
    BY DEF encodeTransaction
  <2>3. bytesOf(tr) = buf /\ (Ok(tr) <=> fit)
    BY <2>1
  <2> HIDE DEF bytesOf, Ok, tr, buf, fit
  <2> QED
    BY <2>2, <2>3
<1>2. fit <=> s < 256 /\ t < 256 /\ amount < 65536
  BY OneByte, MoreBytes
<1>3. ASSUME fit PROVE constructTransactionFromRepr(buf) = tr
  <2> DEFINE y == Little(2, amount)
             w == Led(t, y)
             z == Led(s, w)
             b == <<t>>
             a == <<s>>
  <2>1. s \in Byte /\ t \in Byte
    BY <1>2, <1>3 DEF Byte
  <2>2. Little(1, s) = a /\ Little(1, t) = b
    BY <1>2, <1>3, OneByte
  <2>3. y \in Seq(Byte) /\ Len(y) = 2
    BY Bytewise
  <2>4. w \in Seq(Byte) /\ w[1] = t /\ From(w, 2) = y /\ Len(w) = 3
    <3> HIDE DEF y
    <3>1. Led(t, y) \in Seq(Byte) /\ Led(t, y)[1] = t /\ From(Led(t, y), 2) = y
      BY <2>1, <2>3, AfterOne
    <3>2. b \in Seq(Byte) /\ Len(b) = 1
      BY <2>1
    <3>3. Led(t, y) = b \o y
      BY DEF Led
    <3> HIDE DEF b
    <3>4. Len(b \o y) = Len(b) + Len(y)
      BY <2>3, <3>2, Parts
    <3> QED
      BY <2>3, <3>1, <3>2, <3>3, <3>4
  <2>5. buf = z
    <3>1. a \in Seq(Byte) /\ b \in Seq(Byte)
      BY <2>1
    <3> HIDE DEF a, b, y
    <3>2. (a \o b) \o y = a \o (b \o y)
      BY <2>3, <3>1
    <3> QED
      BY <2>2, <3>2 DEF Led, a, b, y
  <2> HIDE DEF buf, z, w
  <2>6. z[1] = s /\ From(z, 2) = w /\ (\A n \in 1 .. Len(w) : z[n + 1] = w[n])
        /\ \A n \in 1 .. Len(w) + 1 : From(z, n + 1) = From(w, n)
    <3>1. w \in Seq(Byte)
      BY <2>4
    <3> QED
      BY <2>1, <3>1, AfterOne DEF z
  <2>7. z[2] = t /\ From(z, 3) = y
    <3>1. 1 \in 1 .. Len(w) /\ 2 \in 1 .. Len(w) + 1 /\ 1 + 1 = 2 /\ 2 + 1 = 3
      BY <2>4
    <3>2. z[1 + 1] = w[1] /\ From(z, 2 + 1) = From(w, 2)
      BY <2>6, <3>1
    <3> QED
      BY <2>4, <3>1, <3>2
  <2>8. Number(2, y) = amount
    <3> DEFINE none == <<>>
    <3>1. none \in Seq(Byte)
      OBVIOUS
    <3>2. y \o none = y
      BY <2>3
    <3> HIDE DEF none
    <3>3. Number(2, y \o none) = amount
      BY <1>3, <3>1, ReadNumber
    <3> QED
      BY <3>2, <3>3
  <2> HIDE DEF y
  <2>9. constructTransactionFromRepr(z) = <<z[1], z[2], Number(2, From(z, 3))>>
    BY DEF constructTransactionFromRepr
  <2> QED
    BY <2>5, <2>6, <2>7, <2>8, <2>9
<1> DEFINE rs  == {b \in {buf} : fit}
           out == {x \in {tr} : x[1] < 256 /\ x[2] < 256 /\ x[3] < 65536}
<1>4. tr[1] = s /\ tr[2] = t /\ tr[3] = amount
  OBVIOUS
<1> HIDE DEF buf, tr, fit
<1>5. {constructTransactionFromRepr(r) : r \in rs} = IF fit THEN {tr} ELSE {}
  <2>1. CASE fit
    <3>1. rs = {buf}
      BY <2>1
    <3> QED
      BY <1>3, <2>1, <3>1
  <2>2. CASE ~ fit
    <3>1. rs = {}
      BY <2>2
    <3> QED
      BY <2>2, <3>1
  <2> QED
    BY <2>1, <2>2
<1>6. out = IF fit THEN {tr} ELSE {}
  BY <1>2, <1>4
<1> QED
  BY <1>1, <1>5, <1>6 DEF tr

\* A ciphertext comes out as it went in, if its parts have their lengths.
LEMMA EveryCiphertext ==
  ASSUME NEW S, NEW U \in Seq(S), NEW V \in Seq(S), NEW W \in Seq(S)
  PROVE  LET C == <<U, V, W>>
         IN {deserializeEnc(r) : r \in serializeEnc(U, V, W)}
              = {D \in {C} : /\ Len(D[1]) = PAIRING_SERIALIZED_1 /\ Len(D[3]) = PAIRING_SERIALIZED_1
                             /\ Len(D[2]) = CURVE_LENGTH}
<1> DEFINE C      == <<U, V, W>>
           p      == PAIRING_SERIALIZED_1
           q      == p + CURVE_LENGTH
           buf    == Then(Then(U, V), W)
           ok(D)  == Len(D[1]) = PAIRING_SERIALIZED_1 /\ Len(D[3]) = PAIRING_SERIALIZED_1 /\ Len(D[2]) = CURVE_LENGTH
           put(D) == D[1] \o D[2] \o D[3]
<1>1. serializeEnc(U, V, W) = {put(D) : D \in {E \in {C} : ok(E)}}
  BY DEF serializeEnc
<1>2. put(C) = buf
  BY DEF Then
<1>3. ok(C) <=> Len(U) = p /\ Len(W) = p /\ Len(V) = CURVE_LENGTH
  OBVIOUS
<1>4. ASSUME ok(C) PROVE deserializeEnc(buf) = C
  <2>1. p \in Nat \ {0} /\ CURVE_LENGTH \in Nat \ {0}
    BY LengthAssumption
  <2>2. Len(U) = p /\ Len(W) = p /\ Len(V) = CURVE_LENGTH
    BY <1>3, <1>4
  <2>3. Then(U, V) \in Seq(S) /\ Len(Then(U, V)) = Len(U) + Len(V)
    BY Parts DEF Then
  <2>4. Then(V, W) \in Seq(S)
    BY Parts DEF Then
  <2>5. buf = Then(U, Then(V, W))
    BY ThreeGrouped
  <2> HIDE DEF buf
  <2>6. SubSeq(buf, 1, p) = U
    <3>1. SubSeq(U \o Then(V, W), 1, Len(U)) = U
      BY <2>4, Parts
    <3> QED
      BY <2>2, <2>5, <3>1, Zenon DEF Then
  <2>7. SubSeq(buf, p + 1, q) = V
    <3> DEFINE i == p + 1
               j == q
    <3>1. i \in Nat /\ j \in Nat /\ Len(U) < i /\ i <= j + 1 /\ j <= Len(U) + Len(V)
      BY <2>1, <2>2
    <3>2. i - Len(U) = 1 /\ j - Len(U) = Len(V)
      BY <2>1, <2>2
    <3> HIDE DEF i, j
    <3>3. SubSeq(Then(U, Then(V, W)), i, j) = SubSeq(V, i - Len(U), j - Len(U))
      BY <3>1, Middle
    <3>4. SubSeq(V, 1, Len(V)) = V
      OBVIOUS
    <3>5. SubSeq(buf, i, j) = V
      BY <2>5, <3>2, <3>3, <3>4, Zenon
    <3> QED
      BY <3>5 DEF i, j
  <2>8. SubSeq(buf, q + 1, q + p) = W
    <3> DEFINE x == Then(U, V)
    <3>1. x \in Seq(S) /\ Len(x) = q
      BY <2>2, <2>3
    <3> HIDE DEF x
    <3>2. From(x \o W, Len(x) + 1) = W /\ Len(x \o W) = Len(x) + Len(W)
      BY <3>1, Parts
    <3>3. buf = x \o W
      BY DEF buf, x, Then
    <3>4. SubSeq(buf, q + 1, Len(buf)) = W
      BY <3>1, <3>2, <3>3, Zenon DEF From
    <3>5. Len(buf) = q + p
      BY <2>2, <3>1, <3>2, <3>3, Zenon
    <3> QED
      BY <3>4, <3>5, Zenon
  <2>9. deserializeEnc(buf) = <<SubSeq(buf, 1, p), SubSeq(buf, p + 1, q), SubSeq(buf, q + 1, q + p)>>
    BY DEF deserializeEnc
  <2> QED
    BY <2>6, <2>7, <2>8, <2>9
<1> HIDE DEF C, put, ok, buf
<1> DEFINE rs == serializeEnc(U, V, W)
<1>5. {deserializeEnc(r) : r \in rs} = {D \in {C} : ok(D)}
  <2>1. CASE ok(C)
    <3>1. rs = {buf}
      BY <1>1, <1>2, <2>1
    <3> HIDE DEF rs
    <3> QED
      BY <1>4, <2>1, <3>1
  <2>2. CASE ~ ok(C)
    <3>1. rs = {}
      BY <1>1, <2>2
    <3> HIDE DEF rs
    <3> QED
      BY <2>2, <3>1
  <2> QED
    BY <2>1, <2>2
<1> QED
  BY <1>5 DEF C, ok

\* What one node sends is what the other one puts into the queue.
LEMMA EverySend ==
  ASSUME NEW i, NEW r, NEW tag \in Tag, NEW j, NEW p \in Payloads(tag)
  PROVE  broadcast_receiver(_recv(_send(i, r, <<tag, j, p>>)))
           = [round |-> r, queue |-> Queue(tag, j), item |-> <<i, p>>]
<1> DEFINE o == <<tag, j, p>>
           there == CASE tag = "ACS_COIN" -> <<p[1], p[2], serialize(p[3])>>
                      [] tag = "TPKE"     -> [n \in DOMAIN p |-> Packed(p[n])]
                      [] OTHER            -> p
           back  == CASE tag = "ACS_COIN" -> <<there[1], there[2], deserialize1(there[3])>>
                      [] tag = "TPKE"     -> [n \in DOMAIN there |-> Unpacked(there[n])]
                      [] OTHER            -> there
           w     == [src |-> i, msg_id |-> j, round_id |-> r, op_type |-> tag, operation |-> there]
<1>1. _send(i, r, o) = w
  BY DEF _send
<1>2. back = p
  <2>1. CASE tag = "ACS_COIN"
    <3>1. PICK e \in 0 .. 1, s \in Bytes : p = <<"COIN", e, deserialize1(s)>>
      BY <2>1 DEF Payloads
    <3>2. deserialize1(serialize(deserialize1(s))) = deserialize1(s)
      BY DEF deserialize1, deserialize, serialize
    <3>3. there = <<p[1], p[2], serialize(p[3])>>
      BY <2>1
    <3>4. back = <<there[1], there[2], deserialize1(there[3])>>
      BY <2>1
    <3> HIDE DEF there, back
    <3>5. there[1] = "COIN" /\ there[2] = e /\ there[3] = serialize(deserialize1(s))
      BY <3>1, <3>3
    <3> QED
      BY <3>1, <3>2, <3>4, <3>5
  <2>2. CASE tag = "TPKE"
    <3>1. p \in TupleOf({deserialize1(s) : s \in Bytes} \cup {None}, players)
      BY <2>2 DEF Payloads
    <3>2. p \in [1 .. players -> {deserialize1(s) : s \in Bytes} \cup {None}]
      BY <3>1 DEF TupleOf
    <3>3. ASSUME NEW x \in {deserialize1(s) : s \in Bytes} \cup {None} PROVE Unpacked(Packed(x)) = x
      <4>1. CASE x = None
        BY <4>1 DEF Packed, Unpacked
      <4>2. CASE x # None
        <5>1. PICK s \in Bytes : x = deserialize1(s)
          BY <4>2
        <5>2. Packed(x) = serialize(x)
          BY <4>2 DEF Packed
        <5>3. serialize(x) = s
          BY <5>1 DEF serialize, deserialize1, deserialize
        <5>4. s # "None"
          BY BytesAssumption
        <5> QED
          BY <5>1, <5>2, <5>3, <5>4 DEF Unpacked
      <4> QED
        BY <4>1, <4>2
    <3>4. there = [n \in DOMAIN p |-> Packed(p[n])]
      BY <2>2
    <3>5. back = [n \in DOMAIN there |-> Unpacked(there[n])]
      BY <2>2
    <3> HIDE DEF there, back
    <3>6. back = [n \in DOMAIN p |-> Unpacked(Packed(p[n]))]
      BY <3>4, <3>5
    <3>7. \A n \in DOMAIN p : Unpacked(Packed(p[n])) = p[n]
      BY <3>2, <3>3
    <3>8. p = [n \in DOMAIN p |-> p[n]]
      BY <3>2
    <3> QED
      BY <3>6, <3>7, <3>8
  <2>3. CASE tag \notin {"ACS_COIN", "TPKE"}
    BY <2>3
  <2> QED
    BY <2>1, <2>2, <2>3
<1>3. _recv(w) = <<i, r, <<tag, j, back>>>>
  <2> HIDE DEF there
  <2> QED
    BY DEF _recv
<1> HIDE DEF w, there, back
<1>4. broadcast_receiver(<<i, r, <<tag, j, p>>>>) = [round |-> r, queue |-> Queue(tag, j), item |-> <<i, p>>]
  BY DEF broadcast_receiver
<1> QED
  BY <1>1, <1>2, <1>3, <1>4

\* What is read from a key file is what was written into it.
LEMMA EveryKey ==
  ASSUME NEW g \in {"G1", "G2"}, NEW VK \in Keys(g), NEW VKs \in TupleOf(Keys(g), 2), NEW SKs \in TupleOf(Keys("ZR"), 2)
  PROVE  LET file == KeyFile(players, k, VK, VKs, SKs)
         IN (IF VK.group = "G1" THEN initiateThresholdEnc(file) ELSE initiateThresholdSig(file))
              = [l |-> players, k |-> k, VK |-> VK, VKs |-> VKs, SKs |-> SKs]
<1> DEFINE file == KeyFile(players, k, VK, VKs, SKs)
           vs   == [n \in DOMAIN VKs |-> serialize(VKs[n])]
           ss   == [n \in DOMAIN SKs |-> <<n, serialize(SKs[n])>>]
<1>1. /\ file.l = players /\ file.k = k /\ file.VK = serialize(VK)
      /\ file.VKs = vs /\ file.SKs = ss
  BY DEF KeyFile
<1> HIDE DEF file
<1>2. ASSUME NEW h, NEW x \in Keys(h) PROVE deserialize(h, serialize(x)) = x
  BY <1>2 DEF Keys, deserialize, serialize
<1>3. VKs \in [1 .. 2 -> Keys(g)] /\ SKs \in [1 .. 2 -> Keys("ZR")]
  BY DEF TupleOf
<1>4. [n \in DOMAIN vs |-> deserialize(g, vs[n])] = VKs
  <2>1. \A n \in DOMAIN VKs : deserialize(g, serialize(VKs[n])) = VKs[n]
    BY <1>2, <1>3
  <2>2. [n \in DOMAIN vs |-> deserialize(g, vs[n])] = [n \in DOMAIN VKs |-> VKs[n]]
    BY <2>1
  <2> QED
    BY <1>3, <2>2
<1>5. [n \in DOMAIN ss |-> deserialize("ZR", ss[n][2])] = SKs
  <2>1. \A n \in DOMAIN SKs : deserialize("ZR", serialize(SKs[n])) = SKs[n]
    BY <1>2, <1>3
  <2>2. [n \in DOMAIN ss |-> deserialize("ZR", ss[n][2])] = [n \in DOMAIN SKs |-> SKs[n]]
    BY <2>1
  <2> QED
    BY <1>3, <2>2
<1>6. deserialize(g, serialize(VK)) = VK /\ VK.group = g
  BY <1>2 DEF Keys
<1> HIDE DEF vs, ss
<1>7. CASE g = "G1"
  <2>1. initiateThresholdEnc(file) =
          [l |-> players, k |-> k, VK |-> deserialize("G1", serialize(VK)),
           VKs |-> [n \in DOMAIN vs |-> deserialize("G1", vs[n])],
           SKs |-> [n \in DOMAIN ss |-> deserialize("ZR", ss[n][2])]]
    BY <1>1 DEF initiateThresholdEnc, deserialize1, deserialize0
  <2> QED
    BY <1>4, <1>5, <1>6, <1>7, <2>1 DEF file
<1>8. CASE g = "G2"
  <2>1. initiateThresholdSig(file) =
          [l |-> players, k |-> k, VK |-> deserialize("G2", serialize(VK)),
           VKs |-> [n \in DOMAIN vs |-> deserialize("G2", vs[n])],
           SKs |-> [n \in DOMAIN ss |-> deserialize("ZR", ss[n][2])]]
    BY <1>1 DEF initiateThresholdSig, deserialize2, deserialize0
  <2> QED
    BY <1>4, <1>5, <1>6, <1>8, <2>1 DEF file
<1> QED
  BY <1>7, <1>8

-----------------------------------------------------------------------------
(* Stripes.                                                                *)

\* The bytes of the blocks at x are values of the polynomials through them.
Values(S, g, L, x) == [n \in 1 .. L |-> Through(bytes, S, g[n], x)]

\* What a block is made of, byte by byte.
LEMMA BlockValues ==
  ASSUME NEW S \in SUBSET Field(bytes), S # {}, NEW L \in Nat, NEW g \in [1 .. L -> [Field(bytes) -> Int]],
         NEW stripes, NEW x,
         \A i \in S : DOMAIN stripes[i] = 1 .. L /\ \A n \in 1 .. L : stripes[i][n] = g[n][i]
  PROVE  BlockAt(stripes, S, x) = Values(S, g, L, x)
<1>1. DOMAIN stripes[CHOOSE i \in S : TRUE] = 1 .. L
  <2>1. (CHOOSE i \in S : TRUE) \in S
    OBVIOUS
  <2> QED
    BY <2>1
<1>2. ASSUME NEW n \in 1 .. L
      PROVE  SumOver(bytes, [i \in S |-> stripes[i][n] * Weight(bytes, S, i, x)]) = Through(bytes, S, g[n], x)
  <2>1. [i \in S |-> stripes[i][n] * Weight(bytes, S, i, x)] = [i \in S |-> g[n][i] * Weight(bytes, S, i, x)]
    OBVIOUS
  <2> QED
    BY <2>1 DEF Through
<1> QED
  BY <1>1, <1>2 DEF BlockAt, Values

\* Stripes of the blocks, and the blocks come from them.
AreFrom(blocks, stripes, S) == \A i \in S : stripes[i] = BlockAt(blocks, 0 .. K - 1, i)
AreRestored(L, blocks, stripes, S, x) ==
  /\ BlockAt(blocks, 0 .. K - 1, x) \in [1 .. L -> Field(bytes)]
  /\ BlockAt(stripes, S, x) = BlockAt(blocks, 0 .. K - 1, x)
  /\ x < K => BlockAt(blocks, 0 .. K - 1, x) = blocks[x]

\* From any K stripes comes what there is at every place, and the first K are the blocks.
LEMMA AnyStripesDecode ==
  ASSUME NEW L \in Nat, NEW blocks \in [0 .. K - 1 -> [1 .. L -> Field(bytes)]], NEW stripes,
         NEW S \in SUBSET (0 .. N - 1), Cardinality(S) = K,
         AreFrom(blocks, stripes, S), NEW x \in 0 .. N - 1
  PROVE  AreRestored(L, blocks, stripes, S, x)
<1> DEFINE B == 0 .. K - 1
           f == [n \in 1 .. L |-> [i \in Field(bytes) |-> IF i \in B THEN blocks[i][n] ELSE 0]]
           g == [n \in 1 .. L |-> ThroughAt(bytes, B, f[n])]
           own(y) == BlockAt(blocks, B, y)
<1>1. /\ PrimeNumber(bytes) /\ bytes \in Nat \ {0} /\ bytes \in Nat /\ N \in Nat /\ K \in Nat \ {0}
      /\ \A i \in Field(bytes) : i \in Int
  BY ByteAssumption, StripeAssumption, InField
<1>2. 0 .. N - 1 \subseteq Field(bytes) /\ B \subseteq 0 .. N - 1 /\ B # {}
  <2>1. 0 .. N - 1 \subseteq Field(bytes)
    BY StripeAssumption, <1>1 DEF Field
  <2>2. 0 .. K - 1 \subseteq 0 .. N - 1 /\ 0 \in 0 .. K - 1
    BY StripeAssumption
  <2> QED
    BY <2>1, <2>2
<1>3. S \in SUBSET Field(bytes) /\ B \in SUBSET Field(bytes) /\ x \in Field(bytes) /\ x \in Int
  BY <1>1, <1>2
<1>4. Cardinality(B) = K
  BY <1>1, FS_Interval
<1>5. S # {}
  BY <1>1, FS_EmptySet
<1>6. f \in [1 .. L -> [Field(bytes) -> Int]]
      /\ \A i \in B : \A n \in 1 .. L : blocks[i][n] = f[n][i] /\ blocks[i][n] \in Field(bytes)
  <2>1. ASSUME NEW i \in B PROVE blocks[i] \in [1 .. L -> Field(bytes)]
    OBVIOUS
  <2>2. ASSUME NEW i \in B, NEW n \in 1 .. L PROVE blocks[i][n] = f[n][i] /\ blocks[i][n] \in Field(bytes)
    <3>1. blocks[i][n] \in Field(bytes) /\ i \in Field(bytes)
      BY <1>3, <2>1
    <3>2. f[n][i] = blocks[i][n]
      BY <3>1
    <3> QED
      BY <3>1, <3>2
  <2>3. ASSUME NEW n \in 1 .. L, NEW i \in Field(bytes)
        PROVE  (IF i \in B THEN blocks[i][n] ELSE 0) \in Int
    <3> HIDE DEF f, B
    <3> QED
      BY <1>1, <2>2
  <2> HIDE DEF B
  <2>4. f \in [1 .. L -> [Field(bytes) -> Int]]
    BY <2>3
  <2> QED
    BY <2>2, <2>4
<1> HIDE DEF f
<1>7. ASSUME NEW y \in Int PROVE own(y) = Values(B, f, L, y)
  <2>1. \A i \in B : DOMAIN blocks[i] = 1 .. L /\ \A n \in 1 .. L : blocks[i][n] = f[n][i]
    BY <1>6
  <2>2. B # {} /\ B \in SUBSET Field(bytes) /\ f \in [1 .. L -> [Field(bytes) -> Int]]
    BY <1>2, <1>3, <1>6
  <2> HIDE DEF B, g, own
  <2> DEFINE given == blocks
  <2>4. ASSUME NEW i \in B PROVE DOMAIN given[i] = 1 .. L /\ \A n \in 1 .. L : given[i][n] = f[n][i]
    BY <2>1
  <2> HIDE DEF given
  <2>3. BlockAt(given, B, y) = Values(B, f, L, y)
    BY <2>2, <2>4, BlockValues
  <2> QED
    BY <2>3 DEF own, given
<1>20. ASSUME NEW y \in Int PROVE own(y) = [n \in 1 .. L |-> Through(bytes, B, f[n], y)]
  <2> HIDE DEF B, own
  <2> QED
    BY <1>7 DEF Values
<1>8. ASSUME NEW n \in 1 .. L, NEW y \in Field(bytes)
      PROVE  /\ g[n] \in [Field(bytes) -> Int] /\ g[n][y] = Through(bytes, B, f[n], y) /\ g[n][y] \in Field(bytes)
             /\ Determined(bytes, K, g[n])
  <2>1. f[n] \in [Field(bytes) -> Int]
    BY <1>6
  <2>2. Determined(bytes, K, g[n])
    <3> DEFINE h == f[n]
    <3>1. h \in [Field(bytes) -> Int] /\ g[n] = ThroughAt(bytes, B, h)
      BY <2>1
    <3> HIDE DEF B, h, g
    <3>2. Determined(bytes, Cardinality(B), ThroughAt(bytes, B, h))
      BY <1>1, <1>2, <1>3, <3>1, DeterminedThrough
    <3> QED
      BY <1>4, <3>1, <3>2
  <2>3. g[n] \in [Field(bytes) -> Int]
    BY <2>2 DEF Determined
  <2>4. g[n][y] = Through(bytes, B, f[n], y)
    BY DEF ThroughAt
  <2>5. Through(bytes, B, f[n], y) \in Field(bytes)
    <3> HIDE DEF B
    <3> QED
      BY <1>1, <1>3, <2>1, ThroughType
  <2> QED
    BY <2>2, <2>3, <2>4, <2>5
<1> DEFINE ox == own(x)
<1>9. ox = [n \in 1 .. L |-> Through(bytes, B, f[n], x)]
  BY <1>3, <1>20
<1>10. ASSUME NEW n \in 1 .. L PROVE Through(bytes, B, f[n], x) \in Field(bytes)
  BY <1>3, <1>8
<1>11. ox \in [1 .. L -> Field(bytes)]
  <2> HIDE DEF ox, B
  <2> QED
    BY <1>9, <1>10
<1>12. BlockAt(stripes, S, x) = [n \in 1 .. L |-> Through(bytes, S, g[n], x)]
  <2>1. ASSUME NEW i \in S
        PROVE  DOMAIN stripes[i] = 1 .. L /\ \A n \in 1 .. L : stripes[i][n] = g[n][i]
    <3>1. i \in Field(bytes) /\ i \in Int
      BY <1>1, <1>3
    <3>2. stripes[i] = own(i)
      BY DEF AreFrom
    <3>4. own(i) = [n \in 1 .. L |-> Through(bytes, B, f[n], i)]
      BY <1>20, <3>1
    <3>3. \A n \in 1 .. L : g[n][i] = Through(bytes, B, f[n], i)
      BY <1>8, <3>1
    <3> HIDE DEF g, B, own
    <3> QED
      BY <3>2, <3>3, <3>4
  <2>2. g \in [1 .. L -> [Field(bytes) -> Int]]
    <3>1. g = [n \in 1 .. L |-> g[n]]
      OBVIOUS
    <3> HIDE DEF g
    <3> QED
      BY <1>3, <1>8, <3>1
  <2> HIDE DEF g
  <2>3. BlockAt(stripes, S, x) = Values(S, g, L, x)
    BY <1>3, <1>5, <2>1, <2>2, BlockValues
  <2> QED
    BY <2>3 DEF Values
<1>13. ASSUME NEW n \in 1 .. L PROVE Through(bytes, S, g[n], x) = Through(bytes, B, f[n], x)
  <2> DEFINE u == Through(bytes, S, g[n], x)
             v == Through(bytes, B, f[n], x)
  <2>1. Determined(bytes, K, g[n]) /\ g[n][x] = v /\ g[n][x] \in Field(bytes) /\ g[n] \in [Field(bytes) -> Int]
    BY <1>3, <1>8
  <2> HIDE DEF g, B
  <2>2. Same(bytes, u, g[n][x])
    <3>1. Cardinality(S) >= K
      BY <1>1
    <3> QED
      BY <1>3, <2>1, <3>1 DEF Determined
  <2>3. u \in Field(bytes)
    BY <1>1, <1>3, <2>1, ThroughType
  <2>4. Same(bytes, u, v) /\ v \in Field(bytes)
    BY <2>1, <2>2
  <2> HIDE DEF u, v
  <2>5. u = v
    <3>1. u \in Int /\ v \in Int /\ u % bytes = u /\ v % bytes = v
      BY <1>1, <2>3, <2>4, Small
    <3> QED
      BY <1>1, <2>4, <3>1, SameRemainder
  <2> QED
    BY <2>5 DEF u, v
<1>14. ASSUME x < K PROVE ox = blocks[x]
  <2>1. x \in B
    BY <1>1, <1>14
  <2>2. ASSUME NEW n \in 1 .. L PROVE Through(bytes, B, f[n], x) = blocks[x][n]
    <3> DEFINE u == Through(bytes, B, f[n], x)
               v == blocks[x][n]
    <3>1. u \in Field(bytes) /\ v \in Field(bytes) /\ f[n][x] = v /\ f[n] \in [Field(bytes) -> Int]
      BY <1>6, <1>10, <2>1
    <3>2. Same(bytes, u, f[n][x])
      <4> HIDE DEF B
      <4> QED
        BY <1>1, <1>3, <2>1, <3>1, ThroughOwn
    <3>3. Same(bytes, u, v)
      BY <3>1, <3>2
    <3> HIDE DEF u, v, B
    <3>4. u \in Int /\ v \in Int /\ u % bytes = u /\ v % bytes = v
      BY <1>1, <3>1, Small
    <3>5. u = v
      BY <1>1, <3>3, <3>4, SameRemainder
    <3> QED
      BY <3>5 DEF u, v
  <2>3. blocks[x] \in [1 .. L -> Field(bytes)]
    BY <2>1
  <2> HIDE DEF ox, B
  <2> QED
    BY <1>9, <2>2, <2>3
<1>15. BlockAt(stripes, S, x) = ox
  <2> HIDE DEF ox, g, B
  <2> QED
    BY <1>9, <1>12, <1>13
<1> QED
  BY <1>11, <1>14, <1>15 DEF AreRestored

\* Two strings of one symbol, or of none, tell what they were put together of.
LEMMA Strings ==
  ASSUME NEW a, NEW b, NEW c, NEW d,
         a = <<>> \/ \E u : a = <<u>>, b = <<>> \/ \E u : b = <<u>>,
         c = <<>> \/ \E u : c = <<u>>, d = <<>> \/ \E u : d = <<u>>,
         a = <<>> <=> c = <<>>, b = <<>> <=> d = <<>>,
         a \o b = c \o d
  PROVE  a = c /\ b = d
<1>1. CASE a = <<>> /\ b = <<>>
  BY <1>1
<1>2. CASE a = <<>> /\ b # <<>>
  <2>1. PICK u, v : b = <<u>> /\ d = <<v>>
    BY <1>2
  <2>2. <<>> \o <<u>> = <<u>> /\ <<>> \o <<v>> = <<v>>
    OBVIOUS
  <2> QED
    BY <1>2, <2>1, <2>2
<1>3. CASE a # <<>> /\ b = <<>>
  <2>1. PICK u, v : a = <<u>> /\ c = <<v>>
    BY <1>3
  <2>2. <<u>> \o <<>> = <<u>> /\ <<v>> \o <<>> = <<v>>
    OBVIOUS
  <2> QED
    BY <1>3, <2>1, <2>2
<1>4. CASE a # <<>> /\ b # <<>>
  <2>1. PICK u, v : a = <<u>> /\ c = <<v>>
    BY <1>4
  <2>2. PICK w, x : b = <<w>> /\ d = <<x>>
    BY <1>4
  <2>3. <<u>> \in Seq({u}) /\ <<v>> \in Seq({v}) /\ <<u>> \o <<w>> = <<v>> \o <<x>>
    BY <2>1, <2>2
  <2>4. <<u>> = <<v>> /\ w = x
    BY <2>3, SplitLast
  <2> QED
    BY <2>1, <2>2, <2>4
<1> QED
  BY <1>1, <1>2, <1>3, <1>4

\* Trees with the same root have the same leaves.
LEMMA RootShowsLeaves ==
  ASSUME NEW size \in Nat, NEW A, NEW B, merkleTree(A, size)[1] = merkleTree(B, size)[1],
         NEW i \in 0 .. size - 1
  PROVE  A[i] = B[i]
<1> DEFINE s == merkleTree(A, size)
           t == merkleTree(B, size)
           b == bottomrow(size)
           P == {n \in 0 .. 2 * b - 1 : \A m \in 1 .. n : s[m] = t[m]}
<1>1. b \in Nat \ {0} /\ b >= size
  BY Room
<1>2. /\ \A m \in 1 .. b - 1 : s[m] = hash(s[2 * m] \o s[2 * m + 1])
      /\ \A m \in b .. 2 * b - 1 : s[m] = IF m - b < size THEN hash(A[m - b]) ELSE <<>>
  BY Tree
<1>3. /\ \A m \in 1 .. b - 1 : t[m] = hash(t[2 * m] \o t[2 * m + 1])
      /\ \A m \in b .. 2 * b - 1 : t[m] = IF m - b < size THEN hash(B[m - b]) ELSE <<>>
  BY Tree
<1>4. s[1] = t[1]
  OBVIOUS
<1> HIDE DEF s, t, b
<1>11. \A z : hash(z) # <<>> /\ \E u : hash(z) = <<u>>
  <2> TAKE z
  <2>1. hash(z) = <<z>> /\ <<z>> # <<>>
    BY DEF hash
  <2> QED
    BY <2>1
<1>5. ASSUME NEW m \in 1 .. 2 * b - 1
      PROVE  /\ s[m] = <<>> \/ \E u : s[m] = <<u>>
             /\ t[m] = <<>> \/ \E u : t[m] = <<u>>
             /\ s[m] = <<>> <=> t[m] = <<>>
  <2>1. CASE m < b
    <3>1. m \in 1 .. b - 1
      BY <1>1, <2>1
    <3> QED
      BY <1>2, <1>3, <1>11, <3>1
  <2>2. CASE m >= b
    <3>1. m \in b .. 2 * b - 1
      BY <1>1, <2>2
    <3> QED
      BY <1>2, <1>3, <1>11, <3>1
  <2> QED
    BY <1>1, <2>1, <2>2
<1>6. 0 \in P
  BY <1>1
<1>7. ASSUME NEW n \in 1 .. 2 * b - 1, n - 1 \in P PROVE n \in P
  <2>1. \A m \in 1 .. n - 1 : s[m] = t[m]
    BY <1>7
  <2>2. s[n] = t[n]
    <3>1. CASE n = 1
      BY <1>4, <3>1
    <3>2. CASE n # 1
      <4> DEFINE j == n \div 2
                 a == s[2 * j]
                 c == t[2 * j]
                 d == s[2 * j + 1]
                 e == t[2 * j + 1]
      <4>1. j \in 1 .. n - 1 /\ j \in 1 .. b - 1 /\ (n = 2 * j \/ n = 2 * j + 1)
        BY <1>1, <3>2
      <4> HIDE DEF j
      <4>2. 2 * j \in 1 .. 2 * b - 1 /\ 2 * j + 1 \in 1 .. 2 * b - 1
        BY <1>1, <4>1
      <4>3. hash(a \o d) = hash(c \o e)
        <5>1. s[j] = t[j]
          BY <2>1, <4>1
        <5>2. s[j] = hash(a \o d) /\ t[j] = hash(c \o e)
          BY <1>2, <1>3, <4>1
        <5> QED
          BY <5>1, <5>2
      <4>4. a \o d = c \o e
        BY <4>3 DEF hash
      <4>5. /\ a = <<>> \/ \E u : a = <<u>>
            /\ c = <<>> \/ \E u : c = <<u>>
            /\ a = <<>> <=> c = <<>>
        BY <1>5, <4>2
      <4>6. /\ d = <<>> \/ \E u : d = <<u>>
            /\ e = <<>> \/ \E u : e = <<u>>
            /\ d = <<>> <=> e = <<>>
        BY <1>5, <4>2
      <4> HIDE DEF a, c, d, e
      <4>7. a = c /\ d = e
        BY <4>4, <4>5, <4>6, Strings
      <4> QED
        BY <4>1, <4>7 DEF a, c, d, e
    <3> QED
      BY <3>1, <3>2
  <2>3. \A m \in 1 .. n : s[m] = t[m]
    BY <2>1, <2>2
  <2> QED
    BY <2>3
<1> HIDE DEF P
<1>8. 0 .. 2 * b - 1 \subseteq P
  <2>1. 2 * b - 1 \in Nat
    BY <1>1
  <2> QED
    BY <1>6, <1>7, <2>1, UpTo
<1>9. s[b + i] = t[b + i] /\ b + i \in b .. 2 * b - 1 /\ (b + i) - b = i /\ i < size
  <2>1. 2 * b - 1 \in P /\ b + i \in 1 .. 2 * b - 1 /\ b + i \in b .. 2 * b - 1
    BY <1>1, <1>8
  <2> QED
    BY <1>1, <2>1 DEF P
<1>10. hash(A[i]) = hash(B[i])
  BY <1>2, <1>3, <1>9
<1> QED
  BY <1>10 DEF hash

\* What a division is, and one without a remainder.
LEMMA Division ==
  ASSUME NEW q \in Nat \ {0}, NEW a \in Int, NEW d, d = a \div q, NEW r, r = a % q
  PROVE  a = r + q * d
OBVIOUS

\* A multiple is divided exactly.
LEMMA Quotient ==
  ASSUME NEW q \in Nat \ {0}, NEW a \in Int, NEW c \in Int, a = q * c
  PROVE  a \div q = c
<1> DEFINE d == a \div q
           r == a % q
<1>1. d \in Int /\ r \in Int /\ 0 <= r /\ r < q
  <2>1. r \in Field(q) /\ r \in Int
    BY Remainder
  <2>2. d \in Int
    OBVIOUS
  <2> HIDE DEF r, d
  <2> QED
    BY <2>1, <2>2 DEF Field
<1>3. a = r + q * d
  <2>1. d = a \div q /\ r = a % q
    BY DEF d, r
  <2> HIDE DEF d, r
  <2> QED
    BY <2>1, Division
<1> HIDE DEF d, r
<1>4. r = q * (c - d) /\ c - d \in Int
  <2>1. q * c - q * d = q * (c - d)
    BY <1>1
  <2> QED
    BY <1>1, <1>3, <2>1
<1>5. c - d = 0
  <2> DEFINE e == c - d
  <2>1. e \in Int /\ r = q * e
    BY <1>4
  <2> HIDE DEF e
  <2>2. e < 1
    <3>1. CASE e >= 1
      <4>1. q * e >= q
        BY <2>1, <3>1
      <4> QED
        BY <1>1, <2>1, <4>1
    <3> QED
      BY <2>1, <3>1
  <2>3. e > -1
    <3>1. CASE e <= -1
      <4>1. q * e <= -q
        BY <2>1, <3>1
      <4> QED
        BY <1>1, <2>1, <4>1
    <3> QED
      BY <2>1, <3>1
  <2>4. e = 0
    BY <2>1, <2>2, <2>3
  <2> QED
    BY <2>4 DEF e
<1>6. d = c
  BY <1>1, <1>5
<1> QED
  BY <1>6 DEF d

\* A string that is cut into blocks and put together again.
Together(L, m) == FlattenSeq([n \in 1 .. K |-> Blocks(K, L, m)[n - 1]])

\* The blocks of a string, one after the other, are the string.
LEMMA BlocksTogether ==
  ASSUME NEW S, NEW L \in Nat, NEW m \in Seq(S), Len(m) = K * L
  PROVE  Together(L, m) = m /\ Blocks(K, L, m) \in [0 .. K - 1 -> [1 .. L -> S]]
<1> DEFINE part(i) == SubSeq(m, i * L + 1, (i + 1) * L)
           w == [n \in 1 .. K |-> part(n - 1)]
           P == {n \in 0 .. K : FlattenSeq(SubSeq(w, 1, n)) = SubSeq(m, 1, n * L)}
<1>1. K \in Nat \ {0} /\ K \in Nat
  BY StripeAssumption
<1>2. ASSUME NEW i \in 0 .. K - 1
      PROVE  /\ i * L \in Nat /\ (i + 1) * L = i * L + L /\ i * L + L <= Len(m)
             /\ part(i) \in [1 .. L -> S] /\ part(i) \in Seq(S) /\ Len(part(i)) = L
  <2> DEFINE c == i * L
  <2>1. c \in Nat /\ (i + 1) * L = c + L
    BY <1>1
  <2>2. c + L <= Len(m)
    <3>1. (K - (i + 1)) * L >= 0
      <4>1. K - (i + 1) \in Nat
        BY <1>1
      <4> QED
        BY <4>1
    <3>2. K * L = (K - (i + 1)) * L + (i + 1) * L
      BY <1>1
    <3> DEFINE x == (K - (i + 1)) * L
               y == (i + 1) * L
    <3>3. x >= 0 /\ x \in Int /\ y = c + L /\ Len(m) = x + y
      BY <1>1, <2>1, <3>1, <3>2
    <3> HIDE DEF x, y, c
    <3> QED
      BY <2>1, <3>3
  <2>3. part(i) = SubSeq(m, c + 1, c + L)
    BY <2>1
  <2> HIDE DEF c
  <2>4. SubSeq(m, c + 1, c + L) \in Seq(S) /\ Len(SubSeq(m, c + 1, c + L)) = L
    BY <2>1, <2>2
  <2>5. part(i) \in Seq(S) /\ Len(part(i)) = L
    BY <2>3, <2>4
  <2>6. part(i) \in [1 .. L -> S]
    <3> HIDE DEF part
    <3> QED
      BY <2>5
  <2> QED
    BY <2>1, <2>2, <2>5, <2>6 DEF c
<1> HIDE DEF part
<1>3. w \in Seq(Seq(S)) /\ Len(w) = K
  <2>1. \A n \in 1 .. K : part(n - 1) \in Seq(S)
    <3> TAKE n \in 1 .. K
    <3>1. n - 1 \in 0 .. K - 1
      BY <1>1
    <3> QED
      BY <1>2, <3>1
  <2> QED
    BY <1>1, <2>1
<1>4. 0 \in P
  <2>1. SubSeq(w, 1, 0) = <<>> /\ SubSeq(m, 1, 0) = <<>> /\ 0 * L = 0
    <3> HIDE DEF w
    <3> QED
      BY <1>3
  <2>2. FlattenSeq(<<>>) = <<>>
    BY DEF FlattenSeq
  <2>3. 0 \in 0 .. K
    BY <1>1
  <2> HIDE DEF w
  <2>4. FlattenSeq(SubSeq(w, 1, 0)) = SubSeq(m, 1, 0 * L)
    <3>1. SubSeq(w, 1, 0) = <<>>
      BY <2>1
    <3>2. SubSeq(m, 1, 0 * L) = <<>>
      BY <2>1
    <3> QED
      BY <2>2, <3>1, <3>2
  <2> QED
    BY <2>3, <2>4
<1>5. ASSUME NEW n \in 1 .. K, n - 1 \in P PROVE n \in P
  <2> DEFINE i == n - 1
             c == i * L
  <2>1. i \in 0 .. K - 1 /\ i + 1 = n
    BY <1>1
  <2>2. c \in Nat /\ n * L = c + L /\ c + L <= Len(m)
    BY <1>2, <2>1
  <2>3. w[n] = SubSeq(m, c + 1, c + L)
    BY <2>1, <2>2 DEF part
  <2>4. FlattenSeq(SubSeq(w, 1, i)) = SubSeq(m, 1, c)
    BY <1>5
  <2> HIDE DEF i, c, w
  <2>5. SubSeq(w, 1, n) = Append(SubSeq(w, 1, n - 1), w[n]) /\ SubSeq(w, 1, n - 1) \in Seq(Seq(S)) /\ w[n] \in Seq(S)
    BY <1>3, OneMore
  <2>6. FlattenSeq(SubSeq(w, 1, n)) = FlattenSeq(SubSeq(w, 1, n - 1)) \o w[n]
    <3> DEFINE x == SubSeq(w, 1, n - 1)
               e == w[n]
    <3>1. x \in Seq(Seq(S)) /\ e \in Seq(S) /\ SubSeq(w, 1, n) = Append(x, e)
      BY <2>5
    <3> HIDE DEF x, e
    <3>2. FlattenSeq(Append(x, e)) = FlattenSeq(x) \o e
      BY <3>1, Flatten
    <3> QED
      BY <3>1, <3>2 DEF x, e
  <2>7. SubSeq(m, 1, c) \o SubSeq(m, c + 1, c + L) = SubSeq(m, 1, c + L)
    <3> DEFINE x == SubSeq(m, 1, c)
               y == SubSeq(m, c + 1, c + L)
               z == SubSeq(m, 1, c + L)
    <3>1. x \in Seq(S) /\ Len(x) = c /\ \A j \in 1 .. c : x[j] = m[j]
      BY <2>2
    <3>2. y \in Seq(S) /\ Len(y) = L /\ \A j \in 1 .. L : y[j] = m[c + j]
      BY <2>2
    <3>3. z \in Seq(S) /\ Len(z) = c + L /\ \A j \in 1 .. c + L : z[j] = m[j]
      BY <2>2
    <3> HIDE DEF x, y, z
    <3> DEFINE v == x \o y
    <3>4. v \in Seq(S) /\ Len(v) = c + L
          /\ (\A j \in 1 .. c : v[j] = x[j]) /\ (\A j \in 1 .. L : v[c + j] = y[j])
      <4>1. v \in Seq(S) /\ Len(v) = Len(x) + Len(y)
        BY <3>1, <3>2, Parts
      <4>2. /\ \A j \in 1 .. Len(x) : v[j] = x[j]
            /\ \A j \in 1 .. Len(y) : v[Len(x) + j] = y[j]
        BY <3>1, <3>2, Parts
      <4> QED
        BY <3>1, <3>2, <4>1, <4>2
    <3> HIDE DEF v
    <3>5. ASSUME NEW j \in 1 .. c + L PROVE v[j] = z[j]
      <4>1. CASE j <= c
        BY <2>2, <3>1, <3>3, <3>4, <4>1
      <4>2. CASE j > c
        <5>1. j - c \in 1 .. L /\ c + (j - c) = j
          BY <2>2, <4>2
        <5> QED
          BY <3>2, <3>3, <3>4, <5>1
      <4> QED
        BY <2>2, <4>1, <4>2
    <3>6. v = z
      BY <3>3, <3>4, <3>5, Alike
    <3> QED
      BY <3>6 DEF v, x, y, z
  <2>8. FlattenSeq(SubSeq(w, 1, n)) = SubSeq(m, 1, n * L)
    BY <2>2, <2>3, <2>4, <2>6, <2>7 DEF i
  <2> QED
    BY <2>8
<1> HIDE DEF P
<1>6. 0 .. K \subseteq P
  BY <1>1, <1>4, <1>5, UpTo
<1>7. K \in P
  BY <1>1, <1>6
<1>8. SubSeq(w, 1, K) = w /\ SubSeq(m, 1, K * L) = m
  <2> HIDE DEF w
  <2>1. SubSeq(w, 1, Len(w)) = w
    BY <1>3
  <2>2. SubSeq(m, 1, Len(m)) = m
    OBVIOUS
  <2> QED
    BY <1>3, <2>1, <2>2
<1>9. [n \in 1 .. K |-> Blocks(K, L, m)[n - 1]] = w
  <2>1. ASSUME NEW n \in 1 .. K PROVE Blocks(K, L, m)[n - 1] = part(n - 1)
    <3>1. n - 1 \in 0 .. K - 1
      BY <1>1
    <3> QED
      BY <3>1 DEF Blocks, part
  <2> QED
    BY <2>1
<1>10. Blocks(K, L, m) \in [0 .. K - 1 -> [1 .. L -> S]]
  <2>1. Blocks(K, L, m) = [i \in 0 .. K - 1 |-> part(i)]
    BY DEF Blocks, part
  <2> QED
    BY <1>2, <2>1
<1>11. FlattenSeq(w) = m
  <2> HIDE DEF w
  <2> QED
    BY <1>7, <1>8 DEF P
<1> QED
  BY <1>9, <1>10, <1>11 DEF Together

\* The padding of encode and of fragList.
PadLen(m)   == K - (Len(m) % K)
Padded(m)  == m \o [n \in 1 .. PadLen(m) |-> K - PadLen(m)]
Step(m)    == Len(Padded(m)) \div K

OldStep(m)   == Len(m) \div K + 1
OldRoom(m)   == OldStep(m) * K - Len(m)
OldPadded(m) == m \o [n \in 1 .. OldRoom(m) |-> IF n = OldRoom(m) THEN OldRoom(m) ELSE bytes - 1]

\* How encode and fragList cut what they have padded.
LEMMA Paddings ==
  ASSUME NEW m
  PROVE  /\ encode(K, N, m) = Encoder(K, N, Blocks(K, Step(m), Padded(m)))
         /\ fragList(K, m) = Blocks(K, OldStep(m), OldPadded(m))
BY DEF encode, fragList, PadLen, Padded, Step, OldStep, OldRoom, OldPadded

\* How long they are: one byte to K bytes.
LEMMA Lengths ==
  ASSUME NEW S, NEW m \in Seq(S)
  PROVE  /\ PadLen(m) \in 1 .. K /\ OldRoom(m) \in 1 .. K /\ OldStep(m) \in Nat
         /\ OldStep(m) * K = Len(m) + OldRoom(m)
         /\ \E c \in Nat : Len(m) + PadLen(m) = K * c
<1> DEFINE d == Len(m) \div K
           r == Len(m) % K
           o == OldRoom(m)
<1>1. K \in Nat \ {0} /\ K \in Nat /\ Len(m) \in Nat
  BY StripeAssumption
<1>2. d \in Int /\ r \in Int /\ r \in 0 .. K - 1
  <2>1. r \in Field(K) /\ r \in Int
    BY <1>1, Remainder
  <2>2. d \in Int
    BY <1>1
  <2> HIDE DEF r, d
  <2> QED
    BY <2>1, <2>2 DEF Field
<1>3. Len(m) = r + K * d
  <2>1. d = Len(m) \div K /\ r = Len(m) % K /\ Len(m) \in Int
    BY <1>1
  <2> HIDE DEF d, r
  <2> QED
    BY <1>1, <2>1, Division
<1>4. PadLen(m) = K - r /\ OldStep(m) = d + 1
  BY DEF PadLen, OldStep
<1>5. o = OldStep(m) * K - Len(m)
  BY DEF OldRoom
<1> HIDE DEF d, r, o
<1>6. d >= 0
  <2>1. CASE d <= -1
    <3>1. K * d <= -K
      BY <1>1, <1>2, <2>1
    <3>2. r + K * d < 0
      <4> DEFINE e == K * d
      <4>1. e \in Int /\ e <= -K
        BY <1>1, <1>2, <3>1
      <4> HIDE DEF e
      <4>2. r + e < 0
        BY <1>1, <1>2, <4>1
      <4> QED
        BY <4>2 DEF e
    <3> QED
      BY <1>1, <1>3, <3>2
  <2> QED
    BY <1>2, <2>1
<1>7. (d + 1) * K = K * d + K
  BY <1>1, <1>2
<1> DEFINE e == K * d
<1>8. e \in Int /\ Len(m) = r + e /\ OldStep(m) * K = e + K
  BY <1>1, <1>2, <1>3, <1>4, <1>7
<1> HIDE DEF e
<1>9. o = K - r
  <2> DEFINE x == OldStep(m) * K
  <2>1. x = e + K /\ o = x - Len(m)
    BY <1>5, <1>8
  <2> HIDE DEF x
  <2> QED
    BY <1>1, <1>2, <1>8, <2>1
<1>10. K - r \in 1 .. K
  BY <1>1, <1>2
<1>11. OldStep(m) * K = Len(m) + o
  BY <1>1, <1>2, <1>8, <1>9
<1>12. d + 1 \in Nat /\ Len(m) + (K - r) = K * (d + 1)
  <2>1. K * (d + 1) = e + K
    BY <1>1, <1>2 DEF e
  <2> QED
    BY <1>1, <1>2, <1>6, <1>8, <2>1
<1> QED
  BY <1>4, <1>9, <1>10, <1>11, <1>12 DEF o

\* A string with some bytes after it, and cut off again.
LEMMA PutAndCut ==
  ASSUME NEW S, NEW m \in Seq(S), NEW j \in Nat \ {0}, NEW z \in [1 .. j -> S]
  PROVE  /\ m \o z \in Seq(S) /\ Len(m \o z) = Len(m) + j
         /\ Last(m \o z) = z[j] /\ Upto(m \o z, -j) = m
<1> DEFINE x == m \o z
<1>1. z \in Seq(S) /\ Len(z) = j
  OBVIOUS
<1>2. x \in Seq(S) /\ Len(x) = Len(m) + Len(z)
  BY <1>1, Parts
<1>3. \A n \in 1 .. Len(z) : x[Len(m) + n] = z[n]
  BY <1>1, Parts
<1>4. SubSeq(x, 1, Len(m)) = m
  BY <1>1, Parts
<1> HIDE DEF x
<1>5. Last(x) = z[j]
  <2>1. Len(x) = Len(m) + j /\ x[Len(m) + j] = z[j]
    BY <1>1, <1>2, <1>3
  <2> QED
    BY <2>1 DEF Last
<1>6. Upto(x, -j) = m
  <2>1. -j < 0 /\ Len(x) + (-j) = Len(m) /\ ~ (Len(m) > Len(x))
    BY <1>1, <1>2
  <2> QED
    BY <1>4, <2>1 DEF Upto
<1> QED
  BY <1>1, <1>2, <1>5, <1>6 DEF x

\* What is padded fits its blocks, and its last byte says what to cut off.
LEMMA PaddingIs ==
  ASSUME NEW m \in Seq(Field(bytes))
  PROVE  /\ Padded(m) \in Seq(Field(bytes)) /\ Step(m) \in Nat /\ Len(Padded(m)) = K * Step(m)
         /\ Upto(Padded(m), -(K - Last(Padded(m)))) = m
         /\ OldPadded(m) \in Seq(Field(bytes)) /\ OldStep(m) \in Nat /\ Len(OldPadded(m)) = K * OldStep(m)
         /\ Upto(OldPadded(m), -Last(OldPadded(m))) = m
<1> DEFINE j == PadLen(m)
           i == OldRoom(m)
           S == Field(bytes)
           y == [n \in 1 .. j |-> K - j]
           z == [n \in 1 .. i |-> IF n = i THEN i ELSE bytes - 1]
<1>1. K \in Nat \ {0} /\ K \in Nat /\ K < bytes /\ bytes \in Nat /\ Len(m) \in Nat
  BY StripeAssumption, ByteAssumption, InField
<1>2. /\ j \in 1 .. K /\ i \in 1 .. K /\ OldStep(m) \in Nat
      /\ OldStep(m) * K = Len(m) + i /\ \E c \in Nat : Len(m) + j = K * c
  BY Lengths
<1>3. PICK c \in Nat : Len(m) + j = K * c
  BY <1>2
<1> HIDE DEF j, i
<1>4. K - j \in S /\ i \in S /\ bytes - 1 \in S /\ j \in Nat \ {0} /\ i \in Nat \ {0}
  BY <1>1, <1>2 DEF Field
<1>5. Padded(m) = m \o y /\ OldPadded(m) = m \o z
  BY DEF Padded, OldPadded, j, i
<1> HIDE DEF S
<1>6. y \in [1 .. j -> S] /\ y[j] = K - j
  BY <1>4
<1>7. z \in [1 .. i -> S] /\ z[i] = i
  BY <1>4
<1>8. m \in Seq(S)
  BY DEF S
<1> HIDE DEF y, z
<1>9. /\ m \o y \in Seq(S) /\ Len(m \o y) = Len(m) + j
      /\ Last(m \o y) = y[j] /\ Upto(m \o y, -j) = m
  BY <1>4, <1>6, <1>8, PutAndCut
<1>10. /\ m \o z \in Seq(S) /\ Len(m \o z) = Len(m) + i
       /\ Last(m \o z) = z[i] /\ Upto(m \o z, -i) = m
  BY <1>4, <1>7, <1>8, PutAndCut
<1>11. Step(m) = c
  <2>1. Len(Padded(m)) = K * c /\ Len(Padded(m)) \in Int
    BY <1>1, <1>2, <1>3, <1>5, <1>9
  <2>2. Len(Padded(m)) \div K = c
    BY <1>1, <2>1, Quotient
  <2> QED
    BY <2>2 DEF Step
<1>12. -(K - (K - j)) = -j
  BY <1>1, <1>2
<1>13. Padded(m) \in Seq(S) /\ Step(m) \in Nat /\ Len(Padded(m)) = K * Step(m)
  BY <1>3, <1>5, <1>9, <1>11
<1>14. Upto(Padded(m), -(K - Last(Padded(m)))) = m
  BY <1>5, <1>6, <1>9, <1>12
<1>15. OldStep(m) * K = K * OldStep(m)
  BY <1>1, <1>2
<1>16. OldPadded(m) \in Seq(S) /\ OldStep(m) \in Nat /\ Len(OldPadded(m)) = K * OldStep(m)
  BY <1>2, <1>5, <1>10, <1>15
<1>17. Upto(OldPadded(m), -Last(OldPadded(m))) = m
  BY <1>5, <1>7, <1>10
<1> QED
  BY <1>13, <1>14, <1>16, <1>17 DEF S

\* The K lowest places, if there are so many.
LowestOf(T) == {i \in T : Cardinality({j \in T : j < i}) < K}

\* There are K lowest places, or all of them are.
LEMMA Lowest ==
  ASSUME NEW T \in SUBSET (0 .. N - 1)
  PROVE  /\ LowestOf(T) \subseteq T /\ Cardinality(T) \in Nat
         /\ Cardinality(LowestOf(T)) = IF Cardinality(T) >= K THEN K ELSE Cardinality(T)
<1> DEFINE part(n) == {i \in T : i < n}
           low(n)  == {i \in LowestOf(T) : i < n}
           AtMost(c) == IF c >= K THEN K ELSE c
           P == {n \in 0 .. N : Cardinality(low(n)) = AtMost(Cardinality(part(n)))}
<1>1. K \in Nat \ {0} /\ K \in Nat /\ N \in Nat /\ \A i \in T : i \in Nat /\ i < N
  BY StripeAssumption
<1>2. IsFiniteSet(T)
  <2>1. IsFiniteSet(0 .. N - 1)
    BY <1>1, FS_Interval
  <2> QED
    BY <2>1, FS_Subset
<1>3. ASSUME NEW n
      PROVE  /\ IsFiniteSet(part(n)) /\ IsFiniteSet(low(n))
             /\ Cardinality(part(n)) \in Nat /\ Cardinality(low(n)) \in Nat
  <2>1. part(n) \subseteq T /\ low(n) \subseteq T
    BY DEF LowestOf
  <2>2. IsFiniteSet(part(n)) /\ IsFiniteSet(low(n))
    BY <1>2, <2>1, FS_Subset
  <2> QED
    BY <2>2, FS_CardinalityType
<1>9. LowestOf(T) \subseteq T
  BY DEF LowestOf
<1>4. 0 \in P
  <2>1. part(0) = {} /\ low(0) = {}
    <3>1. \A i \in T : ~ (i < 0)
      BY <1>1
    <3> QED
      BY <1>9, <3>1
  <2>2. Cardinality({}) = 0
    BY FS_EmptySet
  <2> HIDE DEF part, low
  <2> QED
    BY <1>1, <2>1, <2>2
<1>5. ASSUME NEW n \in 1 .. N, n - 1 \in P PROVE n \in P
  <2> DEFINE m == n - 1
  <2>1. m \in Nat /\ n \in Nat /\ \A i \in Nat : i < n <=> i < m \/ i = m
    OBVIOUS
  <2>2. Cardinality(low(m)) = AtMost(Cardinality(part(m)))
    BY <1>5
  <2>3. CASE m \notin T
    <3>1. part(n) = part(m) /\ low(n) = low(m)
      BY <1>1, <2>1, <2>3 DEF LowestOf
    <3> HIDE DEF part, low, m
    <3> QED
      BY <2>2, <3>1
  <2>4. CASE m \in T
    <3> DEFINE c == Cardinality(part(m))
    <3>1. part(n) = part(m) \cup {m} /\ m \notin part(m) /\ m \notin low(m)
      <4>1. ~ (m < m) /\ m < n /\ \A i \in T : i < n <=> i < m \/ i = m
        BY <1>1, <2>1
      <4> HIDE DEF m
      <4> QED
        BY <2>4, <4>1
    <3>2. m \in LowestOf(T) <=> c < K
      BY <2>4 DEF LowestOf
    <3>3. low(n) = IF c < K THEN low(m) \cup {m} ELSE low(m)
      <4>1. \A i \in LowestOf(T) : i \in Nat
        BY <1>1 DEF LowestOf
      <4> HIDE DEF c, part, m
      <4> QED
        BY <2>1, <3>2, <4>1
    <3>4. Cardinality(part(n)) = c + 1
      <4> DEFINE old == part(m)
      <4>1. IsFiniteSet(old) /\ m \notin old /\ part(n) = old \cup {m}
        BY <1>3, <3>1
      <4> HIDE DEF old, part, m
      <4>2. Cardinality(old \cup {m}) = Cardinality(old) + 1
        BY <4>1, FS_AddElement
      <4> QED
        BY <4>1, <4>2 DEF old
    <3>5. c \in Nat
      BY <1>3
    <3>6. CASE c < K
      <4>1. Cardinality(low(n)) = Cardinality(low(m)) + 1
        <5> DEFINE old == low(m)
        <5>1. IsFiniteSet(old) /\ m \notin old /\ low(n) = old \cup {m}
          BY <1>3, <3>1, <3>3, <3>6
        <5> HIDE DEF old, low, m
        <5>2. Cardinality(old \cup {m}) = Cardinality(old) + 1
          BY <5>1, FS_AddElement
        <5> QED
          BY <5>1, <5>2 DEF old
      <4>2. Cardinality(low(m)) = c
        BY <1>1, <2>2, <3>5, <3>6
      <4> HIDE DEF c, part, low, m
      <4>3. Cardinality(low(n)) = AtMost(Cardinality(part(n)))
        BY <1>1, <3>4, <3>5, <3>6, <4>1, <4>2
      <4> QED
        BY <4>3
    <3>7. CASE ~ (c < K)
      <4>1. Cardinality(low(n)) = Cardinality(low(m))
        BY <3>3, <3>7
      <4>2. Cardinality(low(m)) = K
        BY <1>1, <2>2, <3>5, <3>7
      <4> HIDE DEF c, part, low, m
      <4>3. Cardinality(low(n)) = AtMost(Cardinality(part(n)))
        BY <1>1, <3>4, <3>5, <3>7, <4>1, <4>2
      <4> QED
        BY <4>3
    <3> QED
      BY <3>6, <3>7
  <2> QED
    BY <2>3, <2>4
<1> HIDE DEF P
<1>6. 0 .. N \subseteq P
  BY <1>1, <1>4, <1>5, UpTo
<1>7. N \in P
  BY <1>1, <1>6
<1>8. part(N) = T /\ low(N) = LowestOf(T)
  BY <1>1 DEF LowestOf
<1>10. Cardinality(T) \in Nat
  BY <1>2, FS_CardinalityType
<1> QED
  BY <1>7, <1>8, <1>9, <1>10 DEF P

\* Which stripes decode uses.
Have(stripes, J) == [i \in 0 .. N - 1 |-> IF i \in J THEN stripes[i] ELSE Absent]

\* They are the places that decode takes.
LEMMA Uses ==
  ASSUME NEW stripes, NEW J \in SUBSET (0 .. N - 1), \A i \in J : stripes[i] # Absent
  PROVE  FirstPlaces(K, N, Have(stripes, J)) = LowestOf(J)
<1>1. {i \in 0 .. N - 1 : Have(stripes, J)[i] # Absent} = J
  BY DEF Have
<1> QED
  BY <1>1 DEF FirstPlaces, LowestOf

\* What the stripes at the places in S decode to, with the padding.
Gathered(stripes, S) == FlattenSeq([n \in 1 .. K |-> Decoder(K, stripes, S)[n - 1]])

\* What decode returns of stripes at some places.
LEMMA Gathering ==
  ASSUME NEW stripes, NEW J \in SUBSET (0 .. N - 1), \A i \in J : stripes[i] # Absent
  PROVE  decode(K, N, Have(stripes, J)) =
              IF Cardinality(LowestOf(J)) < K THEN {}
              ELSE {Upto(Gathered(Have(stripes, J), LowestOf(J)),
                         -(K - Last(Gathered(Have(stripes, J), LowestOf(J)))))}
<1>1. FirstPlaces(K, N, Have(stripes, J)) = LowestOf(J)
  BY Uses
<1> QED
  BY <1>1 DEF decode, Gathered

\* And what the older code returns.
LEMMA OldGathering ==
  ASSUME NEW stripes, NEW S, NEW root
  PROVE  reconstruction(K, N, stripes, S, root) =
              {buf \in {Upto(Gathered(stripes, S), -Last(Gathered(stripes, S)))} :
                 rootHash(N, Encoder(K, N, fragList(K, buf))) = {root}}
  BY DEF reconstruction, Gathered

\* The stripes of a string that is cut into blocks, and what any K of them decode to.
Stripes(L, m) == Encoder(K, N, Blocks(K, L, m))

\* K stripes of a string come to the string.
LEMMA StripesDecode ==
  ASSUME NEW L \in Nat, NEW m \in Seq(Field(bytes)), Len(m) = K * L, NEW stripes,
         NEW S \in SUBSET (0 .. N - 1), Cardinality(S) = K, \A i \in S : stripes[i] = Stripes(L, m)[i]
  PROVE  Gathered(stripes, S) = m /\ \A i \in 0 .. N - 1 : Stripes(L, m)[i] \in [1 .. L -> Field(bytes)]
<1> DEFINE blocks == Blocks(K, L, m)
           own(x) == BlockAt(blocks, 0 .. K - 1, x)
<1>1. K \in Nat \ {0} /\ N \in Nat /\ K <= N
  BY StripeAssumption
<1>2. Together(L, m) = m /\ blocks \in [0 .. K - 1 -> [1 .. L -> Field(bytes)]]
  BY BlocksTogether
<1>3. \A i \in 0 .. N - 1 : Stripes(L, m)[i] = own(i)
  BY DEF Stripes, Encoder
<1> HIDE DEF blocks
<1>4. \A i \in S : stripes[i] = own(i)
  BY <1>3
<1>5. ASSUME NEW x \in 0 .. N - 1
      PROVE  /\ own(x) \in [1 .. L -> Field(bytes)]
             /\ BlockAt(stripes, S, x) = own(x)
             /\ x < K => own(x) = blocks[x]
  <2>1. AreFrom(blocks, stripes, S)
    BY <1>4 DEF AreFrom
  <2>2. AreRestored(L, blocks, stripes, S, x)
    BY <1>2, <2>1, AnyStripesDecode
  <2> QED
    BY <2>2 DEF AreRestored
<1>6. ASSUME NEW n \in 1 .. K PROVE Decoder(K, stripes, S)[n - 1] = blocks[n - 1]
  <2> DEFINE x == n - 1
  <2>1. x \in 0 .. N - 1 /\ x < K /\ x \in 0 .. K - 1
    BY <1>1
  <2> HIDE DEF x, own
  <2>2. Decoder(K, stripes, S)[x] = BlockAt(stripes, S, x)
    BY <2>1 DEF Decoder
  <2>3. Decoder(K, stripes, S)[x] = blocks[x]
    BY <1>5, <2>1, <2>2
  <2> QED
    BY <2>3 DEF x
<1>7. [n \in 1 .. K |-> Decoder(K, stripes, S)[n - 1]] = [n \in 1 .. K |-> blocks[n - 1]]
  BY <1>6
<1>8. Gathered(stripes, S) = Together(L, m)
  BY <1>7 DEF Gathered, Together, blocks
<1> QED
  BY <1>2, <1>3, <1>5, <1>8

\* No block is like the mark of an absent one.
LEMMA Present ==
  ASSUME NEW L \in Nat, NEW b \in [1 .. L -> Field(bytes)]
  PROVE  b # Absent
<1>1. ASSUME b = Absent PROVE FALSE
  <2>1. DOMAIN b = 1 .. L /\ DOMAIN b = 1 .. 1 /\ b[1] = -1
    BY <1>1 DEF Absent
  <2>2. 1 \in 1 .. L
    BY <2>1
  <2>3. b[1] \in Field(bytes)
    BY <2>2
  <2>4. -1 \notin Field(bytes)
    BY DEF Field
  <2> QED
    BY <2>1, <2>3, <2>4
<1> QED
  BY <1>1

\* The first K places are K places.
LEMMA FirstK ==
  /\ K \in Nat /\ N \in Nat /\ 0 .. K - 1 \in SUBSET (0 .. N - 1) /\ Cardinality(0 .. K - 1) = K
<1>1. K \in 1 .. N /\ N \in Nat
  BY StripeAssumption
<1>2. Cardinality(0 .. K - 1) = K
  BY <1>1, FS_Interval
<1> QED
  BY <1>1, <1>2

\* What comes of the stripes of a message: the message, if there are K of them.
LEMMA MessageDecodes ==
  ASSUME NEW m \in Seq(Field(bytes)), NEW stripes, NEW J \in SUBSET (0 .. N - 1),
         \A i \in J : stripes[i] = encode(K, N, m)[i]
  PROVE  decode(K, N, Have(stripes, J)) = IF Cardinality(J) >= K THEN {m} ELSE {}
<1> DEFINE p == Padded(m)
           L == Step(m)
           S == LowestOf(J)
           have == Have(stripes, J)
<1>1. p \in Seq(Field(bytes)) /\ L \in Nat /\ Len(p) = K * L /\ Upto(p, -(K - Last(p))) = m
  BY PaddingIs
<1>2. encode(K, N, m) = Stripes(L, p)
  BY Paddings DEF Stripes
<1> HIDE DEF p, L
<1>3. S \subseteq J /\ Cardinality(J) \in Nat /\ Cardinality(S) = IF Cardinality(J) >= K THEN K ELSE Cardinality(J)
  BY Lowest
<1> HIDE DEF S
<1>4. \A i \in 0 .. N - 1 : Stripes(L, p)[i] \in [1 .. L -> Field(bytes)]
  <2>1. \A i \in 0 .. K - 1 : Stripes(L, p)[i] = Stripes(L, p)[i]
    OBVIOUS
  <2> QED
    BY <1>1, <2>1, FirstK, StripesDecode
<1>5. \A i \in J : stripes[i] # Absent
  <2> TAKE i \in J
  <2>1. stripes[i] \in [1 .. L -> Field(bytes)]
    BY <1>2, <1>4
  <2> QED
    BY <1>1, <2>1, Present
<1>6. decode(K, N, have) = IF Cardinality(S) < K THEN {} ELSE {Upto(Gathered(have, S), -(K - Last(Gathered(have, S))))}
  BY <1>5, Gathering DEF S
<1>7. \A i \in S : have[i] = Stripes(L, p)[i]
  BY <1>2, <1>3 DEF Have
<1> HIDE DEF have
<1>8. CASE Cardinality(J) >= K
  <2>1. Cardinality(S) = K /\ S \in SUBSET (0 .. N - 1)
    BY <1>3, <1>8
  <2>2. Gathered(have, S) = p
    BY <1>1, <1>7, <2>1, StripesDecode
  <2>3. ~ (K < K)
    BY FirstK
  <2> QED
    BY <1>1, <1>6, <1>8, <2>1, <2>2, <2>3 DEF have
<1>9. CASE ~ (Cardinality(J) >= K)
  <2>1. Cardinality(S) < K
    BY <1>3, <1>9, FirstK
  <2> QED
    BY <1>6, <1>9, <2>1 DEF have
<1> QED
  BY <1>8, <1>9

\* The same in the older code.
LEMMA OldMessageDecodes ==
  ASSUME NEW m \in Seq(Field(bytes)), NEW stripes, NEW S \in SUBSET (0 .. N - 1), Cardinality(S) = K,
         \A i \in S : stripes[i] = Encoder(K, N, fragList(K, m))[i], NEW root,
         rootHash(N, Encoder(K, N, fragList(K, m))) = {root}
  PROVE  reconstruction(K, N, stripes, S, root) = {m}
<1> DEFINE p == OldPadded(m)
           L == OldStep(m)
<1>1. p \in Seq(Field(bytes)) /\ L \in Nat /\ Len(p) = K * L /\ Upto(p, -Last(p)) = m
  BY PaddingIs
<1>2. Encoder(K, N, fragList(K, m)) = Stripes(L, p)
  BY Paddings DEF Stripes
<1> HIDE DEF p, L
<1>3. Gathered(stripes, S) = p
  <2>1. \A i \in S : stripes[i] = Stripes(L, p)[i]
    BY <1>2
  <2> QED
    BY <1>1, <2>1, StripesDecode
<1>4. reconstruction(K, N, stripes, S, root) =
        {buf \in {Upto(Gathered(stripes, S), -Last(Gathered(stripes, S)))} :
           rootHash(N, Encoder(K, N, fragList(K, buf))) = {root}}
  BY OldGathering
<1> QED
  BY <1>1, <1>3, <1>4

\* A function on 1 .. j is a sequence.
LEMMA Tuple ==
  ASSUME NEW S, NEW j \in Nat, NEW z \in [1 .. j -> S]
  PROVE  z \in Seq(S) /\ Len(z) = j
OBVIOUS

\* What the end of a joint string is.
LEMMA EndsWith ==
  ASSUME NEW S, NEW a \in Seq(S), NEW e \in Seq(S), Len(e) = 1
  PROVE  a \o e \in Seq(S) /\ Last(a \o e) = e[1] /\ e[1] \in S
<1>4. 1 \in 1 .. Len(e) /\ Len(a) \in Nat
  OBVIOUS
<1>1. Len(a) \in Nat /\ 1 \in 1 .. Len(e) /\ e[1] \in S
  BY <1>4
<1>2. a \o e \in Seq(S) /\ Len(a \o e) = Len(a) + Len(e)
  BY Parts
<1>3. (a \o e)[Len(a) + 1] = e[1]
  BY <1>1, Parts, SMTT(30)
<1> QED
  BY <1>1, <1>2, <1>3, SMTT(30) DEF Last

\* Stripes of one byte, whoever made them, come to a string of at least one byte.
LEMMA BytesGathered ==
  ASSUME NEW stripes, NEW S \in SUBSET (0 .. N - 1), Cardinality(S) = K,
         \A i \in S : stripes[i] \in [1 .. 1 -> Field(bytes)]
  PROVE  /\ Gathered(stripes, S) \in Seq(Field(bytes))
         /\ Last(Gathered(stripes, S)) \in Field(bytes)
<1> DEFINE F    == Field(bytes)
           g    == [n \in 1 .. 1 |-> [i \in F |-> IF i \in S THEN stripes[i][n] ELSE 0]]
           w    == [n \in 1 .. K |-> Decoder(K, stripes, S)[n - 1]]
           G    == Gathered(stripes, S)
<1>1. /\ PrimeNumber(bytes) /\ bytes \in Nat \ {0} /\ bytes \in Nat /\ N \in Nat /\ K \in Nat \ {0} /\ K \in Nat
      /\ K <= N /\ \A i \in F : i \in Int
  BY ByteAssumption, StripeAssumption, InField
<1>2. S \in SUBSET F /\ S # {} /\ 0 .. N - 1 \subseteq F
  <2>1. 0 .. N - 1 \subseteq F
    BY <1>1, StripeAssumption DEF Field
  <2>2. S # {}
    BY <1>1, FS_EmptySet
  <2> HIDE DEF F
  <2> QED
    BY <2>1, <2>2
<1>3. ASSUME NEW n \in 1 .. 1
      PROVE  [i \in F |-> IF i \in S THEN stripes[i][n] ELSE 0] \in [F -> Int]
  <2>1. ASSUME NEW i \in S PROVE stripes[i][n] \in Int
    <3>1. stripes[i] \in [1 .. 1 -> F]
      OBVIOUS
    <3>2. stripes[i][n] \in F
      BY <3>1
    <3> QED
      BY <1>1, <3>2
  <2> DEFINE h(i) == IF i \in S THEN stripes[i][n] ELSE 0
  <2>2. ASSUME NEW i \in F PROVE h(i) \in Int
    <3>1. CASE i \in S
      <4>1. stripes[i][n] \in Int
        BY <2>1, <3>1
      <4>2. h(i) = stripes[i][n]
        BY <3>1
      <4> HIDE DEF h
      <4> QED
        BY <4>1, <4>2
    <3>2. CASE i \notin S
      BY <3>2
    <3> QED
      BY <3>1, <3>2
  <2> HIDE DEF F, h
  <2>3. [i \in F |-> h(i)] \in [F -> Int]
    BY <2>2
  <2> QED
    BY <2>3 DEF h
<1>4. g \in [1 .. 1 -> [F -> Int]]
  BY <1>3
<1>5. ASSUME NEW i \in S PROVE DOMAIN stripes[i] = 1 .. 1 /\ \A n \in 1 .. 1 : stripes[i][n] = g[n][i]
  <2>1. i \in F
    BY <1>2
  <2> HIDE DEF F
  <2> QED
    BY <2>1
<1> HIDE DEF g
<1>6. ASSUME NEW x \in 0 .. N - 1 PROVE BlockAt(stripes, S, x) \in [1 .. 1 -> F]
  <2>1. BlockAt(stripes, S, x) = Values(S, g, 1, x)
    BY <1>2, <1>4, <1>5, BlockValues
  <2>2. x \in F /\ x \in Int
    BY <1>2
  <2>3. ASSUME NEW n \in 1 .. 1 PROVE Through(bytes, S, g[n], x) \in F
    <3>1. g[n] \in [F -> Int]
      BY <1>4
    <3> QED
      BY <1>1, <1>2, <2>2, <3>1, ThroughType
  <2> HIDE DEF F
  <2> QED
    BY <2>1, <2>3 DEF Values
<1>7. ASSUME NEW n \in 1 .. K PROVE Decoder(K, stripes, S)[n - 1] \in [1 .. 1 -> F]
  <2> DEFINE x == n - 1
  <2>1. x \in 0 .. N - 1 /\ x \in 0 .. K - 1
    BY <1>1
  <2> HIDE DEF x, F
  <2>2. Decoder(K, stripes, S)[x] = BlockAt(stripes, S, x)
    BY <2>1 DEF Decoder
  <2>3. Decoder(K, stripes, S)[x] \in [1 .. 1 -> F]
    BY <1>6, <2>1, <2>2
  <2> QED
    BY <2>3 DEF x
<1> HIDE DEF F
<1>8. w \in [1 .. K -> [1 .. 1 -> F]]
  BY <1>7
<1>9. w \in [1 .. K -> Seq(F)]
  <2> HIDE DEF w
  <2>1. ASSUME NEW n \in 1 .. K PROVE w[n] \in Seq(F)
    <3>1. w[n] \in [1 .. 1 -> F]
      BY <1>8
    <3> QED
      BY <3>1, Tuple
  <2> QED
    BY <1>8, <2>1
<1> DEFINE q == w
<1>10. q \in Seq(Seq(F)) /\ Len(q) = K /\ q[K] \in Seq(F) /\ Len(q[K]) = 1
  <2>1. w[K] \in [1 .. 1 -> F]
    <3> HIDE DEF w
    <3> QED
      BY <1>1, <1>8
  <2>2. w[K] \in Seq(F) /\ Len(w[K]) = 1
    <3> HIDE DEF w
    <3> QED
      BY <2>1, Tuple
  <2>3. w \in Seq(Seq(F)) /\ Len(w) = K
    <3> HIDE DEF w
    <3> QED
      BY <1>1, <1>9
  <2> HIDE DEF w
  <2> QED
    BY <2>1, <2>2, <2>3
<1>11. G = FlattenSeq(q)
  BY DEF Gathered
<1> HIDE DEF q, w, G
<1> DEFINE p == SubSeq(q, 1, K - 1)
           e == q[K]
<1>12. q = Append(p, e) /\ p \in Seq(Seq(F))
  <2>1. K \in 1 .. Len(q)
    BY <1>1, <1>10
  <2>2. SubSeq(q, 1, K) = q
    BY <1>10
  <2> QED
    BY <1>10, <2>1, <2>2, OneMore
<1>13. e \in Seq(F) /\ Len(e) = 1
  BY <1>10
<1> HIDE DEF p, e
<1> DEFINE a == FlattenSeq(p)
<1>14. G = a \o e /\ a \in Seq(F)
  BY <1>11, <1>12, <1>13, Flatten
<1> HIDE DEF a
<1>15. G \in Seq(F) /\ Last(G) \in F
  BY <1>13, <1>14, EndsWith
<1> QED
  BY <1>15 DEF F, G

\* The first bytes of a string are a string.
LEMMA Cut ==
  ASSUME NEW S, NEW m \in Seq(S), NEW n \in Int
  PROVE  Upto(m, n) \in Seq(S)
<1> DEFINE end == IF n < 0 THEN Len(m) + n ELSE n
           stop == IF end > Len(m) THEN Len(m) ELSE end
<1>1. stop \in Int /\ stop <= Len(m)
  OBVIOUS
<1>2. Upto(m, n) = SubSeq(m, 1, stop)
  BY DEF Upto
<1> HIDE DEF stop
<1>3. SubSeq(m, 1, stop) \in Seq(S)
  BY <1>1
<1> QED
  BY <1>2, <1>3

\* What a node makes of stripes of a message under its root.
LEMMA SentDecodes ==
  ASSUME NEW m \in Seq(Field(bytes)), NEW J \in SUBSET (0 .. N - 1)
  PROVE  decode_output(K, N, Have(encode(K, N, m), J), merkleTree(encode(K, N, m), N)[1])
           = IF Cardinality(J) >= K THEN {m} ELSE {}
<1>1. decode(K, N, Have(encode(K, N, m), J)) = IF Cardinality(J) >= K THEN {m} ELSE {}
  BY MessageDecodes
<1> QED
  BY <1>1 DEF decode_output, SameRoot

\* What one node makes of any stripes of one byte, every other node makes of them.
LEMMA ForgedDecodes ==
  ASSUME NEW stripes, \A i \in 0 .. N - 1 : stripes[i] \in [1 .. 1 -> Field(bytes)],
         NEW S \in SUBSET (0 .. N - 1), Cardinality(S) = K,
         NEW T \in SUBSET (0 .. N - 1), Cardinality(T) = K,
         NEW m \in decode_output(K, N, Have(stripes, S), merkleTree(stripes, N)[1])
  PROVE  m \in decode_output(K, N, Have(stripes, T), merkleTree(stripes, N)[1])
<1> DEFINE root == merkleTree(stripes, N)[1]
           have == Have(stripes, S)
           low  == LowestOf(S)
           G    == Gathered(have, low)
<1>1. m \in decode(K, N, have) /\ SameRoot(K, N, m, root)
  BY DEF decode_output
<1>2. K \in Nat /\ N \in Nat
  BY FirstK
<1>3. low \subseteq S /\ Cardinality(low) = K
  BY <1>2, Lowest
<1>4. \A i \in S : stripes[i] # Absent
  <2> TAKE i \in S
  <2>1. stripes[i] \in [1 .. 1 -> Field(bytes)]
    OBVIOUS
  <2> QED
    BY <2>1, Present
<1>5. m = Upto(G, -(K - Last(G)))
  <2>1. ~ (Cardinality(low) < K)
    BY <1>2, <1>3
  <2>2. decode(K, N, have) = {Upto(G, -(K - Last(G)))}
    BY <1>4, <2>1, Gathering
  <2> QED
    BY <1>1, <2>2
<1>6. G \in Seq(Field(bytes)) /\ Last(G) \in Field(bytes)
  <2>1. \A i \in low : have[i] \in [1 .. 1 -> Field(bytes)]
    <3> TAKE i \in low
    <3>1. have[i] = stripes[i] /\ i \in 0 .. N - 1
      BY <1>3 DEF Have
    <3> HIDE DEF have
    <3> QED
      BY <3>1
  <2>2. low \in SUBSET (0 .. N - 1)
    BY <1>3
  <2> HIDE DEF have, low
  <2> QED
    BY <1>3, <2>1, <2>2, BytesGathered
<1>7. m \in Seq(Field(bytes))
  <2> DEFINE n == -(K - Last(G))
  <2>1. bytes \in Nat \ {0} /\ \A i \in Field(bytes) : i \in Int
    BY ByteAssumption, InField
  <2>2. n \in Int
    BY <1>2, <1>6, <2>1
  <2> HIDE DEF n, G
  <2> QED
    BY <1>5, <1>6, <2>2, Cut DEF n
<1> HIDE DEF G, have, low
<1>8. \A i \in 0 .. N - 1 : encode(K, N, m)[i] = stripes[i]
  <2>1. merkleTree(encode(K, N, m), N)[1] = merkleTree(stripes, N)[1]
    BY <1>1 DEF SameRoot
  <2> QED
    BY <1>2, <2>1, RootShowsLeaves
<1>9. decode(K, N, Have(stripes, T)) = {m}
  <2>1. \A i \in T : stripes[i] = encode(K, N, m)[i]
    BY <1>8
  <2>2. Cardinality(T) >= K
    BY <1>2
  <2> QED
    BY <1>7, <2>1, <2>2, MessageDecodes
<1> QED
  BY <1>1, <1>9 DEF decode_output

\* The root of the older tree is the root of the tree, or there is none.
LEMMA OldRoots ==
  ASSUME NEW stripes, NEW root, rootHash(N, stripes) = {root}
  PROVE  root = merkleTree(stripes, N)[1]
<1>1. N = bottomrow(N)
  <2>1. ASSUME N # bottomrow(N) PROVE FALSE
    <3>1. rootHash(N, stripes) = {}
      BY <2>1 DEF rootHash
    <3> QED
      BY <3>1
  <2> QED
    BY <2>1
<1>2. {N} \cap {bottomrow(N)} = {N}
  BY <1>1
<1>3. rootHash(N, stripes) = {merkleTree(stripes, N)[1]}
  BY <1>2 DEF rootHash
<1> QED
  BY <1>3

\* The same in the older code, for every way to take K stripes.
LEMMA OldForgedDecodes ==
  ASSUME NEW stripes, \A i \in 0 .. N - 1 : stripes[i] \in [1 .. 1 -> Field(bytes)],
         NEW S \in SUBSET (0 .. N - 1), Cardinality(S) = K,
         NEW T \in SUBSET (0 .. N - 1), Cardinality(T) = K,
         NEW m \in reconstruction(K, N, stripes, S, merkleTree(stripes, N)[1])
  PROVE  reconstruction(K, N, stripes, T, merkleTree(stripes, N)[1]) = {m}
<1> DEFINE root == merkleTree(stripes, N)[1]
           G    == Gathered(stripes, S)
           own  == Encoder(K, N, fragList(K, m))
<1>1. m = Upto(G, -Last(G)) /\ rootHash(N, own) = {root}
  BY OldGathering
<1>2. K \in Nat /\ N \in Nat
  BY FirstK
<1>3. G \in Seq(Field(bytes)) /\ Last(G) \in Field(bytes)
  BY BytesGathered
<1> HIDE DEF G
<1>4. m \in Seq(Field(bytes))
  <2> DEFINE n == -Last(G)
  <2>1. bytes \in Nat \ {0} /\ \A i \in Field(bytes) : i \in Int
    BY ByteAssumption, InField
  <2>2. n \in Int
    BY <1>3, <2>1
  <2> HIDE DEF n, G
  <2> QED
    BY <1>1, <1>3, <2>2, Cut DEF n
<1>5. \A i \in 0 .. N - 1 : own[i] = stripes[i]
  <2> HIDE DEF own
  <2>1. merkleTree(own, N)[1] = merkleTree(stripes, N)[1]
    <3> HIDE DEF root
    <3>1. root = merkleTree(own, N)[1]
      BY <1>1, OldRoots
    <3> QED
      BY <3>1 DEF root
  <2> QED
    BY <1>2, <2>1, RootShowsLeaves
<1>6. \A i \in T : stripes[i] = own[i]
  BY <1>5
<1> HIDE DEF root
<1> QED
  BY <1>1, <1>4, <1>6, OldMessageDecodes DEF root

\* There are K places among some exactly if there are at least K.
LEMMA SomePlaces ==
  ASSUME NEW J \in SUBSET (0 .. N - 1)
  PROVE  {T \in SUBSET J : Cardinality(T) = K} = {} <=> ~ (Cardinality(J) >= K)
<1>1. K \in Nat /\ N \in Nat
  BY FirstK
<1>2. ASSUME Cardinality(J) >= K PROVE {T \in SUBSET J : Cardinality(T) = K} # {}
  <2>1. LowestOf(J) \subseteq J /\ Cardinality(LowestOf(J)) = K
    BY <1>1, <1>2, Lowest
  <2> QED
    BY <2>1
<1>3. ASSUME NEW T \in SUBSET J, Cardinality(T) = K PROVE Cardinality(J) >= K
  <2>1. IsFiniteSet(J)
    <3>1. IsFiniteSet(0 .. N - 1)
      BY <1>1, FS_Interval
    <3> QED
      BY <3>1, FS_Subset
  <2>2. Cardinality(J) \in Nat
    BY <2>1, FS_CardinalityType
  <2>3. Cardinality(T) <= Cardinality(J)
    BY <2>1, FS_Subset
  <2> QED
    BY <1>1, <1>3, <2>2, <2>3
<1> QED
  BY <1>2, <1>3

\* What a message comes to in the older code.
LEMMA OldSentDecodes ==
  ASSUME NEW m \in Seq(Field(bytes)), NEW J \in SUBSET (0 .. N - 1), NEW root,
         rootHash(N, Encoder(K, N, fragList(K, m))) = {root}
  PROVE  multiSigBr(K, N, Encoder(K, N, fragList(K, m)), J, root)
           = IF Cardinality(J) >= K THEN {{m}} ELSE {}
<1> DEFINE own  == Encoder(K, N, fragList(K, m))
           Some == {T \in SUBSET J : Cardinality(T) = K}
<1>1. ASSUME NEW T \in Some PROVE reconstruction(K, N, own, T, root) = {m}
  BY OldMessageDecodes
<1>2. Some = {} <=> ~ (Cardinality(J) >= K)
  BY SomePlaces
<1>3. multiSigBr(K, N, own, J, root) = {reconstruction(K, N, own, T, root) : T \in Some}
  BY DEF multiSigBr
<1> HIDE DEF own, Some
<1> QED
  BY <1>1, <1>2, <1>3 DEF own

\* And any stripes of one byte.
LEMMA OldAlike ==
  ASSUME NEW stripes, \A i \in 0 .. N - 1 : stripes[i] \in [1 .. 1 -> Field(bytes)],
         NEW S \in SUBSET (0 .. N - 1), Cardinality(S) = K, NEW T \in SUBSET (0 .. N - 1)
  PROVE  Cardinality(multiSigBr(K, N, stripes, S \cup T, merkleTree(stripes, N)[1])) = 1
<1> DEFINE root == merkleTree(stripes, N)[1]
           Some == {J \in SUBSET (S \cup T) : Cardinality(J) = K}
           rec(J) == reconstruction(K, N, stripes, J, root)
           all  == multiSigBr(K, N, stripes, S \cup T, root)
<1>1. all = {rec(J) : J \in Some}
  BY DEF multiSigBr
<1>2. S \in Some /\ \A J \in Some : J \in SUBSET (0 .. N - 1) /\ Cardinality(J) = K
  OBVIOUS
<1>3. ASSUME NEW J \in Some, NEW m \in rec(J) PROVE \A I \in Some : rec(I) = {m}
  <2> TAKE I \in Some
  <2>1. I \in SUBSET (0 .. N - 1) /\ Cardinality(I) = K /\ J \in SUBSET (0 .. N - 1) /\ Cardinality(J) = K
    BY <1>2
  <2> HIDE DEF Some
  <2> QED
    BY <1>3, <2>1, OldForgedDecodes
<1> HIDE DEF rec, Some, all, root
<1>4. \E one : all = {one}
  <2>1. CASE \E J \in Some : rec(J) # {}
    <3>4. PICK J \in Some : rec(J) # {}
      BY <2>1
    <3>1. PICK m : m \in rec(J)
      BY <3>4
    <3>2. \A I \in Some : rec(I) = {m}
      BY <1>3, <3>1
    <3>3. all = {{m}}
      BY <1>1, <1>2, <3>2
    <3> QED
      BY <3>3
  <2>2. CASE \A J \in Some : rec(J) = {}
    <3>1. all = {{}}
      BY <1>1, <1>2, <2>2
    <3> QED
      BY <3>1
  <2> QED
    BY <2>1, <2>2
<1>5. PICK one : all = {one}
  BY <1>4
<1>6. Cardinality({one}) = 1
  BY FS_Singleton
<1> QED
  BY <1>5, <1>6 DEF all, root

\* A message of the runs is a string of bytes.
LEMMA Bits ==
  ASSUME NEW m \in BoundedSeq(0 .. 1, MaxLen)
  PROVE  m \in Seq(Field(bytes))
<1>1. 0 .. 1 \subseteq Field(bytes)
  <2>1. bytes \in Nat /\ bytes > 1
    BY ByteAssumption DEF PrimeNumber
  <2> QED
    BY <2>1 DEF Field
<1>2. PICK n \in 0 .. MaxLen : m \in [1 .. n -> 0 .. 1]
  BY DEF BoundedSeq, SeqOf
<1> QED
  BY <1>1, <1>2

\* What the code makes of a message's stripes, and of any others.
LEMMA EveryDecode ==
  ASSUME NEW m \in BoundedSeq(0 .. 1, MaxLen), NEW J \in SUBSET (0 .. N - 1), Decode(m, J)
  PROVE  /\ call'.op = "decode" /\ call'.S = J /\ call'.message = m
         /\ call'.out = IF Cardinality(J) >= K THEN {m} ELSE {}
         /\ call'.older = IF Cardinality(J) >= K THEN {{m}} ELSE {}
<1> DEFINE stripes == encode(K, N, m)
           older   == Encoder(K, N, fragList(K, m))
           out     == decode_output(K, N, Have(stripes, J), merkleTree(stripes, N)[1])
           old(root) == multiSigBr(K, N, older, J, root)
<1>1. m \in Seq(Field(bytes))
  BY Bits
<1>2. PICK root \in rootHash(N, older) :
        call' = [op |-> "decode", message |-> m, S |-> J, out |-> out, older |-> old(root)]
  BY DEF Decode, Call, Have
<1>3. rootHash(N, older) = {root}
  <2> HIDE DEF older
  <2> QED
    BY <1>2 DEF rootHash
<1>4. out = IF Cardinality(J) >= K THEN {m} ELSE {}
  BY <1>1, SentDecodes
<1>5. old(root) = IF Cardinality(J) >= K THEN {{m}} ELSE {}
  BY <1>1, <1>3, OldSentDecodes
<1> HIDE DEF out, old
<1> QED
  BY <1>2, <1>4, <1>5

\* What it makes of stripes that no message need have.
LEMMA EveryForged ==
  ASSUME NEW stripes \in AnyStripes, NEW S \in kSubset(K, 0 .. N - 1), NEW T \in kSubset(K, 0 .. N - 1),
         DecodeForged(stripes, S, T)
  PROVE  call'.op = "decode forged" /\ call'.out = call'.other /\ Cardinality(call'.older) = 1
<1> DEFINE root == merkleTree(stripes, N)[1]
           out(J) == decode_output(K, N, Have(stripes, J), root)
           old == multiSigBr(K, N, stripes, S \cup T, root)
<1>1. /\ S \in SUBSET (0 .. N - 1) /\ Cardinality(S) = K
      /\ T \in SUBSET (0 .. N - 1) /\ Cardinality(T) = K
  BY DEF kSubset
<1>2. \A i \in 0 .. N - 1 : stripes[i] \in [1 .. 1 -> Field(bytes)]
  BY DEF AnyStripes, TupleOf, Field
<1>3. call' = [op |-> "decode forged", stripes |-> stripes, out |-> out(S), other |-> out(T), older |-> old]
  BY DEF DecodeForged, Call, Have
<1>4. out(S) = out(T)
  <2>1. ASSUME NEW m \in out(S) PROVE m \in out(T)
    BY <1>1, <1>2, <2>1, ForgedDecodes
  <2>2. ASSUME NEW m \in out(T) PROVE m \in out(S)
    BY <1>1, <1>2, <2>2, ForgedDecodes
  <2> HIDE DEF out
  <2> QED
    BY <2>1, <2>2
<1>5. Cardinality(old) = 1
  BY <1>1, <1>2, OldAlike
<1> HIDE DEF out, old
<1> QED
  BY <1>3, <1>4, <1>5

-----------------------------------------------------------------------------
(* Shares.                                                                 *)

\* Whatever the size of the group, the players and the place of the secret are in its field.
LEMMA ExponentsAre ==
  /\ PrimeNumber(order) /\ order \in Nat \ {0} /\ order \in Nat /\ order \in Int /\ order > 1
  /\ order - 1 \in ZR /\ order - 1 \in Int /\ 0 \in ZR
  /\ k \in Nat \ {0} /\ k \in Nat /\ players \in Nat /\ ZR = Field(order)
  /\ \A x \in ZR : x \in Int /\ x % order = x
  /\ \A i \in Player : i \in ZR /\ i \in Nat /\ i + 1 \in ZR /\ i # order - 1 /\ i + 1 # 0
<1>1. PrimeNumber(order) /\ order > players /\ k \in Nat \ {0} /\ players \in Nat
  BY OrderAssumption, PlayerAssumption
<1>2. order \in Nat \ {0} /\ order \in Nat /\ order \in Int /\ order > 1
  BY <1>1 DEF PrimeNumber
<1>3. \A x \in ZR : x \in Int /\ x % order = x
  BY <1>2, Small DEF ZR
<1> QED
  BY <1>1, <1>2, <1>3 DEF ZR, Field, Player

\* The keys that the dealer hands out.
Key(a) == [VK |-> a[0], SKs |-> [i \in Player |-> polynom_eval(i + 1, a)]]

\* What k players combine to, each with a multiple of a share.
Combined(a, S) == SumOver(order, [j \in S |-> polynom_eval(j + 1, a) * lagrange(S, j)])

\* The coefficients of a dealer and the shares they make are of the field.
LEMMA CoefficientsAre ==
  ASSUME NEW a \in Coefficients
  PROVE  /\ a \in Coefficient(k) /\ a[0] \in ZR
         /\ \A x \in Int : polynom_eval(x, a) \in ZR /\ polynom_eval(x, a) \in Int
<1>1. k \in Nat \ {0} /\ k \in Nat /\ \A x \in ZR : x \in Int
  BY ExponentsAre
<1>2. a \in Coefficient(k)
  BY <1>1 DEF Coefficients, Coefficient
<1>3. a[0] \in ZR
  BY <1>1 DEF Coefficients
<1>4. \A x \in Int : polynom_eval(x, a) \in Field(order) /\ polynom_eval(x, a) \in Int
  BY <1>1, <1>2, PolynomialType, ExponentsAre DEF polynom_eval
<1> QED
  BY <1>2, <1>3, <1>4 DEF ZR

\* The value at zero is the secret.
LEMMA SecretAtZero ==
  ASSUME NEW a \in Coefficients
  PROVE  polynom_eval(0, a) = a[0]
<1>1. a \in Coefficient(k) /\ a[0] \in ZR /\ polynom_eval(0, a) \in ZR
  BY CoefficientsAre
<1>2. Same(order, Polynomial(order, a, 0), a[0])
  BY <1>1, ExponentsAre, PolynomialAtZero
<1> DEFINE u == polynom_eval(0, a)
           v == a[0]
<1>3. Same(order, u, v)
  BY <1>2 DEF polynom_eval
<1>4. u \in ZR /\ v \in ZR
  BY <1>1
<1> HIDE DEF u, v
<1>5. u \in Int /\ v \in Int /\ u % order = u /\ v % order = v /\ order \in Nat \ {0}
  BY <1>4, ExponentsAre
<1>6. u = v
  BY <1>3, <1>5, SameRemainder
<1> QED
  BY <1>6 DEF u, v

\* The weights are of the field, and none is zero.
LEMMA LagrangeIs ==
  ASSUME NEW S \in SUBSET Player, NEW j \in S
  PROVE  lagrange(S, j) \in Int /\ ~ Same(order, lagrange(S, j), 0)
<1> DEFINE e == order - 1
           R == S \ {j}
           w == lagrange(S, j)
           d == Differences(order, R, j)
           n == Differences(order, R, e)
<1>1. /\ PrimeNumber(order) /\ order \in Nat \ {0} /\ e \in Field(order) /\ e \in Int /\ order \in Nat
      /\ S \in SUBSET Field(order) /\ R \in SUBSET Field(order) /\ e \notin R
  BY ExponentsAre
<1> HIDE DEF e
<1>2. w = Weight(order, S, j, e)
  BY DEF lagrange, e
<1>3. w \in Int /\ d \in Int /\ n \in Int /\ Same(order, w * d, n)
  BY <1>1, <1>2, WeightIs
<1>4. ~ Same(order, n, 0)
  BY <1>1, DifferencesNotZero
<1> HIDE DEF w, d, n
<1>5. ASSUME Same(order, w, 0) PROVE Same(order, n, 0)
  <2>1. PICK x \in Int : w = 0 + order * x
    BY <1>5 DEF Same
  <2>2. PICK y \in Int : w * d = n + order * y
    BY <1>3 DEF Same
  <2>3. n = 0 + order * (x * d - y)
    BY <1>1, <1>3, <2>1, <2>2
  <2>4. x * d - y \in Int
    BY <1>3
  <2> QED
    BY <2>3, <2>4 DEF Same
<1> QED
  BY <1>3, <1>4, <1>5 DEF w

\* The shares of any k players come to the secret.
LEMMA SharesShowSecret ==
  ASSUME NEW a \in Coefficients, NEW S \in SUBSET Player, Cardinality(S) = k
  PROVE  Combined(a, S) = a[0]
<1> DEFINE f == PolynomialAt(order, a, 1)
           e == order - 1
           u == Combined(a, S)
           v == a[0]
           z == Polynomial(order, a, 0)
           y == Polynomial(order, a, order)
<1>1. /\ PrimeNumber(order) /\ order \in Nat \ {0} /\ e \in Field(order) /\ e \in Int /\ order \in Nat
      /\ S \in SUBSET Field(order) /\ k \in Nat \ {0} /\ k \in Nat /\ order \in Int /\ 1 \in Int /\ 0 \in Int
  BY ExponentsAre
<1>2. a \in Coefficient(k) /\ v \in ZR
  BY CoefficientsAre
<1>3. Determined(order, k, f)
  BY <1>1, <1>2, DeterminedPolynomial
<1>4. f[e] = y
  <2>1. f[e] = Polynomial(order, a, e + 1)
    BY <1>1 DEF PolynomialAt
  <2>2. e + 1 = order
    BY <1>1
  <2> QED
    BY <2>1, <2>2
<1>5. Same(order, Through(order, S, f, e), y)
  <2>1. Cardinality(S) >= k
    BY <1>1
  <2>2. Same(order, Through(order, S, f, e), f[e])
    BY <1>1, <1>3, <2>1 DEF Determined
  <2> QED
    BY <1>4, <2>2
<1>6. u = Through(order, S, f, e)
  <2>1. \A j \in S : f[j] = polynom_eval(j + 1, a)
    BY <1>1 DEF PolynomialAt, polynom_eval
  <2> HIDE DEF f
  <2>2. [j \in S |-> polynom_eval(j + 1, a) * lagrange(S, j)] = [j \in S |-> f[j] * Weight(order, S, j, e)]
    BY <2>1 DEF lagrange
  <2> QED
    BY <2>2 DEF Combined, Through
<1>7. y = z
  <2>1. Same(order, order, 0)
    <3>1. order = 0 + order * 1
      BY <1>1
    <3> QED
      BY <1>1, <3>1 DEF Same
  <2>2. \A m \in Nat : Powers(order, order)[m] = Powers(order, 0)[m]
    BY <1>1, <2>1, PowersAlike
  <2>3. \A m \in 0 .. k - 1 : Powers(order, order)[m] = Powers(order, 0)[m]
    BY <2>2
  <2>4. DOMAIN a = 0 .. k - 1
    BY <1>2 DEF Coefficient
  <2>5. [m \in DOMAIN a |-> a[m] * Powers(order, order)[m]] = [m \in DOMAIN a |-> a[m] * Powers(order, 0)[m]]
    BY <2>3, <2>4
  <2> QED
    BY <2>5 DEF Polynomial
<1>8. Same(order, z, v)
  BY <1>1, <1>2, PolynomialAtZero
<1>9. u \in Field(order) /\ y \in Int /\ z \in Int
  <2>1. f \in [Field(order) -> Int]
    BY <1>3 DEF Determined
  <2> HIDE DEF f
  <2>2. u \in Field(order)
    BY <1>1, <1>6, <2>1, ThroughType
  <2>3. y \in Int /\ z \in Int
    BY <1>1, <1>2, PolynomialType
  <2> QED
    BY <2>2, <2>3
<1>10. Same(order, u, z)
  BY <1>5, <1>6, <1>7
<1> HIDE DEF u, v, z, y
<1>11. u \in Int /\ v \in Int /\ u % order = u /\ v % order = v
  BY <1>2, <1>9, ExponentsAre
<1>12. Same(order, u, v)
  BY <1>1, <1>8, <1>9, <1>10, <1>11, SameOn
<1>13. u = v
  BY <1>1, <1>11, <1>12, SameRemainder
<1> QED
  BY <1>13 DEF u, v

\* The first k players are among them: the dealer's own test passes.
LEMMA DealerPasses ==
  ASSUME NEW a \in Coefficients
  PROVE  dealer(a) = {Key(a)}
<1>1. 0 .. k - 1 \in SUBSET Player /\ Cardinality(0 .. k - 1) = k
  <2>1. k \in Nat \ {0} /\ players \in Nat /\ k <= players
    BY PlayerAssumption
  <2>2. 0 .. k - 1 \in SUBSET Player
    BY <2>1 DEF Player
  <2>3. Cardinality(0 .. k - 1) = k
    BY <2>1, FS_Interval
  <2> QED
    BY <2>2, <2>3
<1>2. Combined(a, 0 .. k - 1) = a[0]
  BY <1>1, SharesShowSecret
<1>3. polynom_eval(0, a) = a[0]
  BY SecretAtZero
<1>4. Key(a).VK = a[0]
  BY DEF Key
<1> QED
  BY <1>2, <1>3, <1>4 DEF dealer, Key, Combined

\* A power c of each share.
Raised(a, c, S) == [i \in S |-> (c * polynom_eval(i + 1, a)) % order]

\* Sets of players are finite.
LEMMA PlayersFinite ==
  ASSUME NEW S \in SUBSET Player
  PROVE  IsFiniteSet(S)
<1>1. IsFiniteSet(Player)
  BY ExponentsAre, FS_Interval DEF Player
<1> QED
  BY <1>1, FS_Subset

\* Powers of shares come to the power of the secret.
LEMMA RaisedShares ==
  ASSUME NEW a \in Coefficients, NEW c \in Int, NEW S \in SUBSET Player, Cardinality(S) = k
  PROVE  Raised(a, c, S) \in [S -> ZR] /\ Product(Raised(a, c, S)) = (c * a[0]) % order
<1> DEFINE f == [j \in S |-> polynom_eval(j + 1, a) * lagrange(S, j)]
           share(j) == (c * polynom_eval(j + 1, a)) % order
           h == [j \in S |-> share(j) * lagrange(S, j)]
           u == SumOver(order, h)
           v == a[0]
<1>1. order \in Nat \ {0} /\ order \in Nat /\ IsFiniteSet(S)
  BY ExponentsAre, PlayersFinite
<1>2. v \in ZR /\ v \in Int
  BY CoefficientsAre, ExponentsAre
<1>3. ASSUME NEW j \in S
      PROVE  /\ share(j) \in ZR /\ share(j) * lagrange(S, j) \in Int
             /\ polynom_eval(j + 1, a) * lagrange(S, j) \in Int
             /\ Same(order, share(j) * lagrange(S, j), c * (polynom_eval(j + 1, a) * lagrange(S, j)))
  <2> DEFINE p == polynom_eval(j + 1, a)
             w == lagrange(S, j)
             s == share(j)
             cp == c * p
  <2>1. p \in Int
    <3>1. j + 1 \in Int
      BY ExponentsAre
    <3> QED
      BY <3>1, CoefficientsAre
  <2>2. w \in Int
    BY LagrangeIs
  <2> HIDE DEF p, w
  <2>3. cp \in Int /\ s = cp % order
    BY <2>1 DEF p
  <2> HIDE DEF cp, s
  <2>4. s \in Field(order) /\ s \in Int /\ Same(order, s, cp)
    BY <1>1, <2>3, Remainder
  <2>5. PICK x \in Int : s = cp + order * x
    BY <2>4 DEF Same
  <2>6. s * w = c * (p * w) + order * (x * w)
    <3>1. s = c * p + order * x
      BY <2>5 DEF cp
    <3> QED
      BY <1>1, <2>1, <2>2, <3>1
  <2>7. x * w \in Int /\ s * w \in Int /\ p * w \in Int
    BY <2>1, <2>2, <2>4
  <2>8. Same(order, s * w, c * (p * w))
    BY <2>6, <2>7 DEF Same
  <2> QED
    BY <2>4, <2>7, <2>8 DEF p, w, s, ZR
<1>4. f \in [S -> Int] /\ h \in [S -> Int]
  BY <1>3
<1>5. \A j \in S : Same(order, h[j], c * f[j])
  BY <1>3
<1>6. SumOver(order, f) = v
  BY SharesShowSecret DEF Combined
<1>7. Raised(a, c, S) \in [S -> ZR]
  BY <1>3 DEF Raised
<1>8. Product(Raised(a, c, S)) = u
  <2>1. Raised(a, c, S) = [i \in S |-> share(i)]
    BY DEF Raised
  <2> HIDE DEF share
  <2>2. Product([i \in S |-> share(i)]) = u
    BY DEF Product
  <2> QED
    BY <2>1, <2>2
<1> HIDE DEF f, h
<1>9. Same(order, u, c * v)
  BY <1>1, <1>4, <1>5, <1>6, SumScaled
<1>10. u \in Field(order) /\ u \in Int
  BY <1>1, <1>4, SumType
<1> HIDE DEF u, v
<1> DEFINE cv == c * v
<1>11. cv \in Int /\ u % order = u
  BY <1>2, <1>10, ExponentsAre
<1> HIDE DEF cv
<1>12. u = cv % order
  <2>1. Same(order, u, cv)
    BY <1>9 DEF cv
  <2>2. u % order = cv % order
    BY <1>1, <1>10, <1>11, <2>1, SameRemainder
  <2> QED
    BY <1>11, <2>2
<1> QED
  BY <1>7, <1>8, <1>12 DEF cv, v

\* One share that is not right, and the product is not.
LEMMA OneShareWrong ==
  ASSUME NEW S \in SUBSET Player, NEW s \in [S -> ZR], NEW t \in [S -> ZR], NEW p \in S,
         \A i \in S \ {p} : s[i] = t[i], Product(s) = Product(t)
  PROVE  s[p] = t[p]
<1> DEFINE f == [j \in S |-> s[j] * lagrange(S, j)]
           g == [j \in S |-> t[j] * lagrange(S, j)]
           R == S \ {p}
           restf == SumOver(order, [j \in R |-> f[j]])
           restg == SumOver(order, [j \in R |-> g[j]])
           u == SumOver(order, f)
           v == SumOver(order, g)
           w == lagrange(S, p)
           x == s[p]
           y == t[p]
<1>1. PrimeNumber(order) /\ order \in Nat \ {0} /\ order \in Nat /\ IsFiniteSet(S)
  BY ExponentsAre, PlayersFinite
<1>2. \A j \in S : s[j] \in Int /\ t[j] \in Int /\ lagrange(S, j) \in Int
  BY LagrangeIs, ExponentsAre
<1>3. f \in [S -> Int] /\ g \in [S -> Int]
  BY <1>2
<1>4. restf = restg
  <2>1. [j \in R |-> f[j]] = [j \in R |-> g[j]]
    OBVIOUS
  <2> QED
    BY <2>1
<1>5. u = v
  BY DEF Product
<1>6. f[p] = x * w /\ g[p] = y * w /\ x \in ZR /\ y \in ZR /\ w \in Int /\ ~ Same(order, w, 0)
  BY LagrangeIs
<1> HIDE DEF f, g
<1>7. Same(order, u, f[p] + restf) /\ u \in Field(order) /\ restf \in Field(order)
  BY <1>1, <1>3, SumOne
<1>8. Same(order, v, g[p] + restg)
  BY <1>1, <1>3, SumOne
<1>9. x \in Int /\ y \in Int /\ u \in Int /\ restf \in Int /\ x % order = x /\ y % order = y
  BY <1>6, <1>7, ExponentsAre DEF ZR
<1> HIDE DEF x, y, w, u, v, restf, restg
<1>10. PICK d \in Int : u = x * w + restf + order * d
  BY <1>6, <1>7 DEF Same
<1>11. PICK e \in Int : u = y * w + restf + order * e
  BY <1>4, <1>5, <1>6, <1>8 DEF Same
<1>12. x * w = y * w + order * (e - d)
  <2>1. x * w \in Int /\ y * w \in Int /\ order * d \in Int /\ order * e \in Int
    BY <1>1, <1>6, <1>9
  <2> QED
    BY <1>1, <1>6, <1>9, <1>10, <1>11, <2>1
<1>13. Same(order, x * w, y * w)
  <2>1. e - d \in Int
    OBVIOUS
  <2> QED
    BY <1>12, <2>1 DEF Same
<1>14. Same(order, x, y)
  BY <1>1, <1>6, <1>9, <1>13, Cancel
<1>15. x = y
  BY <1>1, <1>9, <1>14, SameRemainder
<1> QED
  BY <1>15 DEF x, y

\* The player whose share may be forged.
LEMMA OneOfThem ==
  ASSUME NEW S \in SUBSET Player, S # {}
  PROVE  Min(S) \in S
<1>1. S \in SUBSET Nat
  BY ExponentsAre
<1>2. \E x \in S : \A y \in S : x <= y
  BY <1>1, Least
<1> QED
  BY <1>2 DEF Min

\* Shares one of which may be forged: their product tells.
LEMMA ForgedShows ==
  ASSUME NEW a \in Coefficients, NEW c \in Int, NEW S \in SUBSET Player, Cardinality(S) = k, NEW x \in ZR
  PROVE  LET honest == Raised(a, c, S)
             shares == WithForged(honest, x)
         IN /\ DOMAIN shares = S /\ Min(S) \in S
            /\ x = honest[Min(S)] => shares = honest /\ Product(shares) = (c * a[0]) % order
            /\ x # honest[Min(S)] => Product(shares) # (c * a[0]) % order /\ shares[Min(S)] # honest[Min(S)]
<1> DEFINE honest == Raised(a, c, S)
           shares == WithForged(honest, x)
           p      == Min(S)
           right  == (c * a[0]) % order
<1>1. honest \in [S -> ZR] /\ Product(honest) = right
  BY RaisedShares
<1>2. S # {}
  BY ExponentsAre, FS_EmptySet
<1>3. p \in S
  BY <1>2, OneOfThem
<1> HIDE DEF honest, right
<1>4. shares = [honest EXCEPT ![p] = x]
  BY <1>1 DEF WithForged
<1> HIDE DEF p, shares
<1>5. shares \in [S -> ZR] /\ shares[p] = x /\ \A i \in S \ {p} : shares[i] = honest[i]
  BY <1>1, <1>3, <1>4
<1>6. ASSUME x = honest[p] PROVE shares = honest
  BY <1>1, <1>3, <1>4, <1>6
<1>7. ASSUME Product(shares) = right PROVE x = honest[p]
  BY <1>1, <1>3, <1>5, <1>7, OneShareWrong
<1>8. DOMAIN shares = S
  BY <1>5
<1> QED
  BY <1>1, <1>3, <1>5, <1>6, <1>7, <1>8 DEF honest, right, shares, p

\* What the shares of a key are.
LEMMA SharesAre ==
  ASSUME NEW a \in Coefficients, NEW c, NEW S \in SUBSET Player
  PROVE  /\ [i \in S |-> sign(Key(a).SKs[i], c)] = Raised(a, c, S)
         /\ \A i \in S : (c * Key(a).SKs[i]) % order = Raised(a, c, S)[i]
<1>1. \A i \in S : Key(a).SKs[i] = polynom_eval(i + 1, a)
  BY DEF Key
<1> QED
  BY <1>1 DEF sign, Raised

\* Signatures are combined to the one of the key, or do not pass.
LEMMA EverySign ==
  ASSUME NEW a \in Coefficients, NEW h \in 1 .. order - 1, NEW S \in Shares, NEW x \in ZR, Sign(a, h, S, x)
  PROVE  /\ call'.op = "sign"
         /\ call'.out = IF call'.forged THEN {} ELSE {(call'.h * call'.key.VK) % order}
<1> DEFINE key    == Key(a)
           honest == Raised(a, h, S)
           shares == WithForged(honest, x)
           forged == x # honest[Min(S)]
           out    == combine_and_verify(key, h, shares)
<1>1. S \in SUBSET Player /\ Cardinality(S) = k /\ h \in Int
  BY DEF Shares, kSubset
<1>2. dealer(a) = {key}
  BY DealerPasses
<1>3. [i \in S |-> sign(key.SKs[i], h)] = honest
  BY <1>1, SharesAre
<1> HIDE DEF honest
<1>4. call' = [op |-> "sign", key |-> key, h |-> h, forged |-> forged, out |-> out]
  <2> HIDE DEF key
  <2> QED
    BY <1>2, <1>3 DEF Sign, Call
<1>5. key.VK = a[0]
  BY DEF Key
<1>6. /\ DOMAIN shares = S
      /\ ~ forged => Product(shares) = (h * a[0]) % order
      /\ forged => Product(shares) # (h * a[0]) % order
  BY <1>1, ForgedShows DEF honest
<1> HIDE DEF key, shares, forged
<1>7. out = {sig \in {Product(shares)} : sig = (h * a[0]) % order}
  <2>1. {t \in {shares} : Cardinality(DOMAIN t) = k} = {shares}
    BY <1>1, <1>6
  <2> QED
    BY <1>5, <2>1 DEF combine_and_verify, verify_signature
<1> HIDE DEF out
<1>8. out = IF forged THEN {} ELSE {(h * a[0]) % order}
  BY <1>6, <1>7
<1> QED
  BY <1>4, <1>5, <1>8

\* Twice the same string is none.
LEMMA Unmasked ==
  ASSUME NEW A, NEW B
  PROVE  SymDiff(B, SymDiff(A, B)) = A
BY DEF SymDiff

\* One more is another number.
LEMMA NextOther ==
  ASSUME NEW q \in Nat, q > 1, NEW w \in Field(q)
  PROVE  (w + 1) % q # w
<1>1. w \in Nat /\ w < q
  BY DEF Field
<1>2. CASE w + 1 < q
  <2>1. (w + 1) % q = w + 1
    BY <1>1, <1>2
  <2> QED
    BY <1>1, <2>1
<1>3. CASE w + 1 = q
  <2>1. q % q = 0
    OBVIOUS
  <2> QED
    BY <1>1, <1>3, <2>1
<1> QED
  BY <1>1, <1>2, <1>3

\* A ciphertext passes if it is as it was made.
LEMMA OffByOne ==
  ASSUME NEW x \in Int, NEW y \in Int, NEW off \in 0 .. 1
  PROVE  (((x * y) % order) + off) % order = (y * x) % order <=> off = 0
<1> DEFINE z == x * y
           w == z % order
<1>1. order \in Nat \ {0} /\ order \in Nat /\ order > 1
  BY ExponentsAre
<1>2. y * x = z /\ z \in Int
  OBVIOUS
<1> HIDE DEF z
<1>3. w \in Field(order) /\ w \in Int
  BY <1>1, <1>2, Remainder
<1> HIDE DEF w
<1>4. w % order = w
  BY <1>1, <1>3, Small
<1>5. (w + 1) % order # w
  BY <1>1, <1>3, NextOther
<1>6. w + 0 = w
  BY <1>3
<1>7. off = 0 \/ off = 1
  OBVIOUS
<1> QED
  BY <1>2, <1>4, <1>5, <1>6, <1>7 DEF w

\* Shares of a ciphertext are combined to its plaintext, or it or they do not pass.
LEMMA EveryDecrypt ==
  ASSUME NEW a \in Coefficients, NEW m \in String, NEW r \in 1 .. order - 1, NEW off \in 0 .. 1,
         NEW S \in Shares, NEW x \in ZR, Decrypt(a, m, r, off, S, x)
  PROVE  call'.op = "decrypt" /\ call'.out = IF call'.bad THEN {} ELSE {call'.m}
<1> DEFINE key    == Key(a)
           VK     == a[0]
           mask   == hashG((VK * r) % order)
           V      == SymDiff(m, mask)
           H      == hashH(r, V)
           W      == (H * r) % order
           c      == [U |-> r, V |-> V, W |-> (W + off) % order]
           honest == Raised(a, r, S)
           shares == WithForged(honest, x)
           forged == x # honest[Min(S)]
           out    == IF verify_ciphertext(c) THEN combine_shares(key, c, shares) ELSE {}
<1>1. S \in SUBSET Player /\ Cardinality(S) = k /\ r \in Int /\ order \in Nat \ {0} /\ order > 1 /\ order \in Int
  BY ExponentsAre DEF Shares, kSubset
<1>2. dealer(a) = {key}
  BY DealerPasses
<1>3. key.VK = VK /\ VK \in Int
  BY CoefficientsAre, ExponentsAre DEF Key
<1>4. [encrypt(VK, m, r) EXCEPT !.W = (@ + off) % order] = c
  BY DEF encrypt
<1>5. \A i \in S : (r * key.SKs[i]) % order = honest[i]
  BY <1>1, SharesAre
<1>6. H \in Int
  <2>1. V \subseteq Places
    BY DEF SymDiff, String, hashG
  <2>2. Cardinality(V) \in Nat
    BY <2>1, PlacesAssumption, FS_Subset, FS_CardinalityType
  <2> DEFINE n == r + Cardinality(V)
             d == order - 1
  <2>3. n \in Int /\ d \in Nat \ {0}
    BY <1>1, <2>2
  <2>4. H = 1 + (n % d)
    BY DEF hashH
  <2> HIDE DEF n, d, H
  <2> QED
    BY <2>3, <2>4
<1>7. honest = [i \in S |-> honest[i]]
  BY DEF Raised
<1> HIDE DEF key, mask, V, H, honest
<1>8. c.U = r /\ c.V = V /\ c.W = (W + off) % order
  OBVIOUS
<1>9. verify_ciphertext(c) <=> off = 0
  <2>1. c.W = (c.U * hashH(c.U, c.V)) % order <=> (W + off) % order = (r * H) % order
    BY <1>8 DEF H
  <2>2. (W + off) % order = (r * H) % order <=> off = 0
    BY <1>1, <1>6, OffByOne
  <2> QED
    BY <2>1, <2>2 DEF verify_ciphertext
<1> HIDE DEF c, W
<1>10. [i \in S |-> decrypt_share(key.SKs[i], c)] = honest
  BY <1>5, <1>7, <1>8 DEF decrypt_share
<1> HIDE DEF VK
<1>11. call' = [op |-> "decrypt", m |-> m, bad |-> off # 0 \/ forged, out |-> out]
  BY <1>2, <1>3, <1>4, <1>10 DEF Decrypt, Call
<1>12. /\ DOMAIN shares = S /\ Min(S) \in S
       /\ ~ forged => shares = honest /\ Product(shares) = (r * VK) % order
       /\ forged => shares[Min(S)] # honest[Min(S)]
  BY <1>1, ForgedShows DEF honest, VK
<1> HIDE DEF shares, forged
<1> DEFINE passing == {t \in {shares} : Cardinality(DOMAIN t) = k /\ \A j \in DOMAIN t : verify_share(key, j, t[j], c)}
<1>13. passing = IF forged THEN {} ELSE {shares}
  <2>1. \A j \in S : verify_share(key, j, shares[j], c) <=> shares[j] = honest[j]
    BY <1>5, <1>8 DEF verify_share
  <2> QED
    BY <1>1, <1>12, <2>1
<1>14. combine_shares(key, c, shares) = {SymDiff(hashG(res), V) : res \in {Product(s) : s \in passing}}
  BY <1>8 DEF combine_shares
<1> HIDE DEF passing
<1>15. combine_shares(key, c, shares) = IF forged THEN {} ELSE {m}
  <2>1. CASE forged
    BY <1>13, <1>14, <2>1
  <2>2. CASE ~ forged
    <3>1. r * VK = VK * r
      BY <1>1, <1>3
    <3>2. hashG(Product(shares)) = mask
      BY <1>12, <2>2, <3>1 DEF mask
    <3>3. SymDiff(hashG(Product(shares)), V) = m
      BY <3>2, Unmasked DEF V
    <3> QED
      BY <1>13, <1>14, <2>2, <3>3
  <2> QED
    BY <2>1, <2>2
<1>16. out = IF off # 0 \/ forged THEN {} ELSE {m}
  BY <1>9, <1>15
<1> HIDE DEF out
<1> QED
  BY <1>11, <1>16

\* The points of some players and the one of the secret.
Points(S) == {0} \cup {i + 1 : i \in S}

\* There is one more of them than there are players.
LEMMA PointsAre ==
  ASSUME NEW S \in SUBSET Player
  PROVE  /\ Points(S) \in SUBSET Field(order) /\ Cardinality(S) \in Nat
         /\ Cardinality(Points(S)) = Cardinality(S) + 1
<1> DEFINE T == {i + 1 : i \in S}
           f == [i \in S |-> i + 1]
<1>1. \A i \in S : i \in Nat /\ i + 1 \in Field(order) /\ i + 1 # 0
  BY ExponentsAre
<1>2. 0 \in Field(order) /\ 0 \notin T /\ T \in SUBSET Field(order)
  BY <1>1, ExponentsAre
<1>3. IsFiniteSet(T)
  BY <1>2, ExponentsAre, InField
<1>4. f \in [S -> T] /\ \A x, y \in S : f[x] = f[y] => x = y
  BY <1>1
<1>5. f \in Injection(S, T)
  BY <1>4 DEF Injection, IsInjective
<1>6. f \in Surjection(S, T)
  <2>1. \A t \in T : \E s \in S : f[s] = t
    OBVIOUS
  <2> QED
    BY <1>4, <2>1 DEF Surjection
<1> HIDE DEF f
<1>7. Cardinality(S) = Cardinality(T)
  <2> HIDE DEF T
  <2> QED
    BY <1>3, <1>5, <1>6, FS_Injection
<1>8. Points(S) = T \cup {0}
  BY DEF Points
<1> HIDE DEF T
<1>9. Cardinality(T \cup {0}) = Cardinality(T) + 1
  BY <1>2, <1>3, FS_AddElement
<1>10. Cardinality(T) \in Nat
  BY <1>3, FS_CardinalityType
<1> QED
  BY <1>2, <1>7, <1>8, <1>9, <1>10

\* Fewer than k players' shares go with every secret.
LEMMA Hidden ==
  ASSUME NEW a \in Coefficients, NEW S \in kSubset(k - 1, Player), NEW secret \in ZR
  PROVE  \E b \in Coefficients :
           b[0] = secret /\ \A i \in S : polynom_eval(i + 1, b) = polynom_eval(i + 1, a)
<1> DEFINE T == Points(S)
           f == [t \in Field(order) |-> IF t = 0 THEN secret ELSE polynom_eval(t, a)]
<1>1. S \in SUBSET Player /\ Cardinality(S) = k - 1
  BY DEF kSubset
<1>2. PrimeNumber(order) /\ k \in Nat \ {0} /\ order \in Nat \ {0} /\ order \in Nat /\ k \in Nat
  BY ExponentsAre
<1>3. T \in SUBSET Field(order) /\ Cardinality(T) = k
  BY <1>1, <1>2, PointsAre
<1>4. f \in [Field(order) -> Int]
  <2>1. ASSUME NEW t \in Field(order) PROVE (IF t = 0 THEN secret ELSE polynom_eval(t, a)) \in Int
    <3>1. secret \in Int /\ t \in Int
      BY ExponentsAre
    <3>2. polynom_eval(t, a) \in Int
      BY <3>1, CoefficientsAre
    <3> QED
      BY <3>1, <3>2
  <2> QED
    BY <2>1
<1> HIDE DEF T
<1>5. f[0] = secret /\ \A i \in S : i + 1 \in T /\ f[i + 1] = polynom_eval(i + 1, a)
  <2>1. 0 \in Field(order) /\ \A i \in S : i + 1 \in Field(order) /\ i + 1 # 0
    BY <1>1, ExponentsAre
  <2> QED
    BY <2>1 DEF T, Points
<1>6. 0 \in T
  BY DEF T, Points
<1> HIDE DEF f
<1>7. PICK z : z \in Solutions(order, T, f)
  BY <1>2, <1>3, <1>4, Solved
<1>8. z \in Coefficient(k) /\ \A t \in T : Same(order, Polynomial(order, z, t), f[t])
  BY <1>3, <1>7 DEF Solutions
<1> DEFINE b == Reduced(order, z, k)
<1>9. b \in [0 .. k - 1 -> Field(order)] /\ b \in Coefficient(k)
  <2>1. 0 \in Int
    OBVIOUS
  <2> QED
    BY <1>2, <1>8, <2>1, PolynomialReduced
<1> HIDE DEF b
<1>10. b \in Coefficients
  BY <1>9 DEF Coefficients, ZR
<1>11. ASSUME NEW t \in T PROVE Same(order, polynom_eval(t, b), f[t]) /\ polynom_eval(t, b) \in ZR /\ t \in Int
  <2> DEFINE u == Polynomial(order, b, t)
             v == Polynomial(order, z, t)
             w == f[t]
  <2>1. t \in Int /\ w \in Int
    BY <1>3, <1>4, ExponentsAre
  <2>2. Same(order, u, v)
    BY <1>2, <1>8, <2>1, PolynomialReduced DEF b
  <2>3. Same(order, v, w)
    BY <1>8
  <2>4. u \in Int /\ v \in Int
    BY <1>2, <1>8, <1>9, <2>1, PolynomialType
  <2>5. polynom_eval(t, b) = u /\ polynom_eval(t, b) \in ZR
    BY <1>10, <2>1, CoefficientsAre DEF polynom_eval
  <2> HIDE DEF u, v, w
  <2>6. Same(order, u, w)
    BY <1>2, <2>1, <2>2, <2>3, <2>4, SameOn
  <2> QED
    BY <2>1, <2>5, <2>6 DEF w
<1>12. ASSUME NEW x \in ZR, NEW y \in ZR, Same(order, x, y) PROVE x = y
  <2>1. x \in Int /\ y \in Int /\ x % order = x /\ y % order = y
    BY ExponentsAre
  <2> QED
    BY <1>2, <1>12, <2>1, SameRemainder
<1>13. b[0] = secret
  <2> DEFINE u == polynom_eval(0, b)
  <2>1. u = b[0]
    BY <1>10, SecretAtZero
  <2>2. Same(order, u, secret) /\ u \in ZR
    BY <1>5, <1>6, <1>11
  <2> HIDE DEF u
  <2> QED
    BY <1>12, <2>1, <2>2
<1>14. ASSUME NEW i \in S PROVE polynom_eval(i + 1, b) = polynom_eval(i + 1, a)
  <2> DEFINE t == i + 1
             u == polynom_eval(t, b)
             v == polynom_eval(t, a)
  <2>1. t \in T /\ f[t] = v
    BY <1>5
  <2>2. Same(order, u, v) /\ u \in ZR /\ t \in Int
    BY <1>11, <2>1
  <2>3. v \in ZR
    BY <2>2, CoefficientsAre
  <2> HIDE DEF u, v
  <2>4. u = v
    BY <1>12, <2>2, <2>3
  <2> QED
    BY <2>4 DEF u, v
<1> QED
  BY <1>10, <1>13, <1>14

\* A dealer's keys pass its test and tell fewer than k players nothing.
LEMMA EveryDeal ==
  ASSUME NEW a \in Coefficients, Deal(a)
  PROVE  /\ call'.op = "deal" /\ call'.out = {Key(a)}
         /\ \A S \in kSubset(k - 1, Player), secret \in ZR :
              \E b \in Coefficients : b[0] = secret /\ \A other \in dealer(b), i \in S : other.SKs[i] = Key(a).SKs[i]
<1>1. call' = [op |-> "deal", a |-> a, out |-> {Key(a)}]
  BY DealerPasses DEF Deal, Call
<1>2. ASSUME NEW S \in kSubset(k - 1, Player), NEW secret \in ZR
      PROVE  \E b \in Coefficients :
               b[0] = secret /\ \A other \in dealer(b), i \in S : other.SKs[i] = Key(a).SKs[i]
  <2>1. PICK b \in Coefficients : b[0] = secret /\ \A i \in S : polynom_eval(i + 1, b) = polynom_eval(i + 1, a)
    BY Hidden
  <2>2. dealer(b) = {Key(b)}
    BY DealerPasses
  <2>3. \A i \in S : Key(b).SKs[i] = Key(a).SKs[i]
    <3>1. S \in SUBSET Player
      BY DEF kSubset
    <3> QED
      BY <2>1, <3>1 DEF Key
  <2>4. \A other \in dealer(b), i \in S : other.SKs[i] = Key(a).SKs[i]
    BY <2>2, <2>3
  <2> QED
    BY <2>1, <2>4
<1> QED
  BY <1>1, <1>2

-----------------------------------------------------------------------------
(* Calls.                                                                  *)

\* The kinds of calls.
Deals        == \E a \in Coefficients : Deal(a)
Decrypts     == \E a \in Coefficients, m \in String, r \in 1 .. order - 1 :
                  \E off \in 0 .. 1, S \in Shares, x \in ZR : Decrypt(a, m, r, off, S, x)
Signs        == \E a \in Coefficients, h \in 1 .. order - 1, S \in Shares, x \in ZR : Sign(a, h, S, x)
Shoups       == \E e \in Exponents : \E a \in RSACoefficients(e), x \in Hashes, S \in kSubset(needed, 1 .. l) :
                  \E y \in {1, x, sign_share(x, Share(a, Min(S)))} : SignShoup(a, e, x, S, y)
Decodes      == \E message \in BoundedSeq(0 .. 1, MaxLen), S \in SUBSET (0 .. N - 1) : Decode(message, S)
Forges       == \E stripes \in AnyStripes : \E S, T \in kSubset(K, 0 .. N - 1) : DecodeForged(stripes, S, T)
Tests        == \E n \in 2 .. MaxNumber : Test(n)
Codings      == \E msg \in Codes : Encode(msg)
Ends         == {0, 255, 256}
Amounts      == {1, 255, 256, 65535, 65536}
Transactions == \E s, t \in Ends, amount \in Amounts : EncodeTransaction(<<s, t, amount>>)
Ciphertexts  == \E C \in TupleOf(BoundedSeq(0 .. 1, PAIRING_SERIALIZED_1), 3) : EncodeEnc(C)
Sends        == \E i \in Player, r \in 0 .. 1, tag \in Tag : \E j \in Instances(tag), p \in Payloads(tag) :
                  Send(i, r, <<tag, j, p>>)
Starts       == \E g \in {"G1", "G2"} : \E VK \in Keys(g), VKs \in TupleOf(Keys(g), 2), SKs \in TupleOf(Keys("ZR"), 2) :
                  Start(VK, VKs, SKs)

\* A step makes one of them, or leaves the call or returns.
LEMMA Steps ==
  ASSUME [Next]_call
  PROVE  \/ Deals \/ Decrypts \/ Signs \/ Shoups \/ Decodes \/ Forges \/ Proof \/ Tests
         \/ Codings \/ Transactions \/ Ciphertexts \/ Sends \/ Starts
         \/ call' = Idle \/ call' = call
<1> DEFINE A == {0, 255, 256}
           B == {1, 255, 256, 65535, 65536}
           Writes == \E s, t \in A, amount \in B : EncodeTransaction(<<s, t, amount>>)
<1>1. ASSUME Next
      PROVE  \/ Deals \/ Decrypts \/ Signs \/ Shoups \/ Decodes \/ Forges \/ Proof \/ Tests
             \/ Codings \/ Writes \/ Ciphertexts \/ Sends \/ Starts \/ call' = Idle
  BY <1>1 DEF Next, Return, Deals, Decrypts, Signs, Shoups, Decodes, Forges, Tests, Codings, Ciphertexts,
              Sends, Starts
<1>2. Writes => Transactions
  <2>1. A = Ends /\ B = Amounts
    BY DEF Ends, Amounts
  <2> HIDE DEF A, B
  <2> SUFFICES ASSUME NEW s \in A, NEW t \in A, NEW amount \in B, EncodeTransaction(<<s, t, amount>>)
               PROVE  Transactions
    BY Zenon
  <2>2. s \in Ends /\ t \in Ends /\ amount \in Amounts
    BY <2>1
  <2> QED
    BY <2>2 DEF Transactions
<1> HIDE DEF Writes
<1> QED
  BY <1>1, <1>2

\* What the calls are named.
LEMMA Named ==
  /\ Deals => call'.op = "deal"
  /\ Decrypts => call'.op = "decrypt"
  /\ Signs => call'.op = "sign"
  /\ Shoups => call'.op = "shoup"
  /\ Decodes => call'.op = "decode"
  /\ Forges => call'.op = "decode forged"
  /\ Proof => call'.op = "prove"
  /\ Tests => call'.op = "prime"
  /\ Codings => call'.op = "code"
  /\ Transactions => call'.op = "transaction"
  /\ Ciphertexts => call'.op = "ciphertext"
  /\ Sends => call'.op = "send"
  /\ Starts => call'.op = "keys"
<1>1. Proof => call'.op = "prove"
  BY DEF Proof, Prove, Call
<1>2. Codings => call'.op = "code"
  BY DEF Codings, Encode, Call
<1>3. Transactions => call'.op = "transaction"
  BY DEF Transactions, EncodeTransaction, Call
<1>4. Ciphertexts => call'.op = "ciphertext"
  BY DEF Ciphertexts, EncodeEnc, Call
<1>5. Sends => call'.op = "send"
  BY DEF Sends, Send, Call
<1>6. Starts => call'.op = "keys"
  BY DEF Starts, Start, Call
<1>7. Deals => call'.op = "deal"
  BY DEF Deals, Deal, Call
<1>8. Decrypts => call'.op = "decrypt"
  BY DEF Decrypts, Decrypt, Call
<1>9. Signs => call'.op = "sign"
  BY DEF Signs, Sign, Call
<1>10. Shoups => call'.op = "shoup"
  BY DEF Shoups, SignShoup, Call
<1>11. Decodes => call'.op = "decode"
  BY DEF Decodes, Decode, Call
<1>12. Forges => call'.op = "decode forged"
  <2>1. ASSUME NEW stripes, NEW S, NEW T, DecodeForged(stripes, S, T) PROVE call'.op = "decode forged"
    BY <2>1 DEF DecodeForged, Call
  <2> QED
    BY <2>1 DEF Forges
<1>13. Tests => call'.op = "prime"
  BY DEF Tests, Test, Call
<1> QED
  BY <1>1, <1>2, <1>3, <1>4, <1>5, <1>6, <1>7, <1>8, <1>9, <1>10, <1>11, <1>12, <1>13

\* The steps as ProvesOwnLeaf and ArrivesAsSent tell them apart.
LEMMA Calls ==
  ASSUME [Next]_call
  PROVE  \/ Proof \/ Codings \/ Transactions \/ Ciphertexts \/ Sends \/ Starts
         \/ call' = Idle \/ call' = call
         \/ call'.op \in {"deal", "decrypt", "sign", "shoup", "decode", "decode forged", "prime"}
BY Steps, Named

-----------------------------------------------------------------------------
(* The theorems.                                                           *)

\* In each step of Algorithms, for any number of stripes.
THEOREM ProvesOwnLeafTheorem == Spec => []ProvesOwnLeaf
<1>1. Init => ProvesOwnLeaf
  BY DEF Init, Idle, ProvesOwnLeaf
<1>2. ASSUME ProvesOwnLeaf, [Next]_call PROVE ProvesOwnLeaf'
  <2>1. ASSUME Proof PROVE ProvesOwnLeaf'
    <3>1. PICK size \in 1 .. N : \E leaves \in Leaves(size), index \in 0 .. size - 1 :
            LET mt == merkleTree(leaves, size)
            IN \E val \in Leaf \cup Inner(mt), branch \in BoundedSeq(Nodes(mt), Depth(size)) :
                 Prove(leaves, size, index, val, branch)
      BY <2>1 DEF Proof
    <3>2. PICK leaves \in Leaves(size), index \in 0 .. size - 1 :
            LET mt == merkleTree(leaves, size)
            IN \E val \in Leaf \cup Inner(mt), branch \in BoundedSeq(Nodes(mt), Depth(size)) :
                 Prove(leaves, size, index, val, branch)
      BY <3>1
    <3> DEFINE mt == merkleTree(leaves, size)
    <3>3. PICK val \in Leaf \cup Inner(mt), branch \in BoundedSeq(Nodes(mt), Depth(size)) :
            Prove(leaves, size, index, val, branch)
      BY <3>2
    <3>4. size \in Nat /\ index \in 0 .. size - 1
      BY StripeAssumption
    <3>5. PICK S : branch \in Seq(Seq(S))
      <4>1. PICK T : \A i \in 1 .. 2 * bottomrow(size) - 1 : mt[i] \in Seq(T)
        BY <3>4, TreeStrings
      <4>2. DOMAIN mt = 1 .. 2 * bottomrow(size) - 1
        BY <3>4, Tree
      <4>3. Nodes(mt) \subseteq Seq(T)
        BY <4>1, <4>2 DEF Nodes
      <4>4. PICK n \in 0 .. Depth(size) : branch \in [1 .. n -> Nodes(mt)]
        BY <3>3 DEF BoundedSeq, SeqOf
      <4>5. n \in Nat /\ branch \in [1 .. n -> Seq(T)]
        BY <4>3, <4>4
      <4> QED
        BY <4>5
    <3>6. call' = [op |-> "prove", own |-> val = leaves[index] /\ branch = getMerkleBranch(index, mt, size),
                   out |-> merkleVerify(size, val, mt[1], branch, index)]
      BY <3>3 DEF Prove, Call
    <3>7. merkleVerify(size, val, mt[1], branch, index)
            <=> val = leaves[index] /\ branch = getMerkleBranch(index, mt, size)
      BY <3>4, <3>5, OwnLeaf
    <3> HIDE DEF mt
    <3> QED
      BY <3>6, <3>7 DEF ProvesOwnLeaf
  <2>2. ASSUME call' = Idle \/ call'.op # "prove" PROVE ProvesOwnLeaf'
    BY <2>2 DEF Idle, ProvesOwnLeaf
  <2>3. ASSUME call' = call PROVE ProvesOwnLeaf'
    BY <1>2, <2>3 DEF ProvesOwnLeaf
  <2> QED
    BY <1>2, <2>1, <2>2, <2>3, Calls, Named
<1> QED
  BY <1>1, <1>2, PTL DEF Spec

\* In each step of Algorithms, for messages with any numbers, strings and hashes.
THEOREM ArrivesAsSentTheorem == Spec => []ArrivesAsSent
<1>1. Init => ArrivesAsSent
  BY DEF Init, Idle, ArrivesAsSent
<1>2. ASSUME ArrivesAsSent, [Next]_call PROVE ArrivesAsSent'
  <2>1. ASSUME NEW msg \in Codes, Encode(msg) PROVE ArrivesAsSent'
    <3> DEFINE out == {deepDecode(buf) : buf \in deepEncode(msg[1], msg[2], msg[3], msg[4])}
    <3>1. call' = [op |-> "code", sent |-> msg, out |-> out]
      BY <2>1 DEF Encode, Call
    <3>2. out = IF InRange(msg) THEN {msg} ELSE {}
      BY EveryCode
    <3> HIDE DEF out
    <3> QED
      BY <3>1, <3>2 DEF ArrivesAsSent
  <2>2. ASSUME NEW s \in Ends, NEW t \in Ends, NEW amount \in Amounts,
               EncodeTransaction(<<s, t, amount>>)
        PROVE  ArrivesAsSent'
    <3> DEFINE tr  == <<s, t, amount>>
               out == {constructTransactionFromRepr(r) : r \in encodeTransaction(s, t, amount)}
    <3>1. call' = [op |-> "transaction", sent |-> tr, out |-> out]
      BY <2>2 DEF EncodeTransaction, Call
    <3>2. out = {x \in {tr} : x[1] < 256 /\ x[2] < 256 /\ x[3] < 65536}
      <4>1. s \in Nat /\ t \in Nat /\ amount \in Nat
        BY DEF Ends, Amounts
      <4> QED
        BY <4>1, EveryTransaction
    <3> HIDE DEF out, tr
    <3> QED
      BY <3>1, <3>2 DEF ArrivesAsSent
  <2>3. ASSUME NEW C \in TupleOf(BoundedSeq(0 .. 1, PAIRING_SERIALIZED_1), 3), EncodeEnc(C)
        PROVE  ArrivesAsSent'
    <3> DEFINE out == {deserializeEnc(r) : r \in serializeEnc(C[1], C[2], C[3])}
               ok(D) == Len(D[1]) = PAIRING_SERIALIZED_1 /\ Len(D[3]) = PAIRING_SERIALIZED_1 /\ Len(D[2]) = CURVE_LENGTH
    <3>1. call' = [op |-> "ciphertext", sent |-> C, out |-> out]
      BY <2>3 DEF EncodeEnc, Call
    <3>2. C \in [1 .. 3 -> Seq(0 .. 1)]
      <4>1. BoundedSeq(0 .. 1, PAIRING_SERIALIZED_1) \subseteq Seq(0 .. 1)
        <5>1. ASSUME NEW n \in 0 .. PAIRING_SERIALIZED_1, NEW x \in [1 .. n -> 0 .. 1] PROVE x \in Seq(0 .. 1)
          OBVIOUS
        <5> QED
          BY <5>1 DEF BoundedSeq, SeqOf
      <4> QED
        BY <4>1 DEF TupleOf
    <3>3. C = <<C[1], C[2], C[3]>> /\ C[1] \in Seq(0 .. 1) /\ C[2] \in Seq(0 .. 1) /\ C[3] \in Seq(0 .. 1)
      BY <3>2
    <3> DEFINE U == C[1]
               V == C[2]
               W == C[3]
    <3>4. U \in Seq(0 .. 1) /\ V \in Seq(0 .. 1) /\ W \in Seq(0 .. 1)
      BY <3>3
    <3>5. {deserializeEnc(r) : r \in serializeEnc(U, V, W)} = {D \in {<<U, V, W>>} : ok(D)}
      <4> HIDE DEF U, V, W
      <4> QED
        BY <3>4, EveryCiphertext
    <3>6. out = {D \in {C} : ok(D)}
      <4> HIDE DEF ok
      <4> QED
        BY <3>3, <3>5, Zenon
    <3> HIDE DEF out
    <3> QED
      BY <3>1, <3>6 DEF ArrivesAsSent
  <2>4. ASSUME NEW i, NEW r, NEW tag \in Tag, NEW j, NEW p \in Payloads(tag), Send(i, r, <<tag, j, p>>)
        PROVE  ArrivesAsSent'
    <3> DEFINE o   == <<tag, j, p>>
               out == broadcast_receiver(_recv(_send(i, r, o)))
               got == [round |-> r, queue |-> Queue(tag, j), item |-> <<i, p>>]
    <3>1. o[1] = tag /\ o[2] = j /\ o[3] = p
      OBVIOUS
    <3>2. out = got
      BY EverySend
    <3> HIDE DEF out, o
    <3>3. call' = [op |-> "send", sent |-> [round |-> r, queue |-> tag, j |-> j, item |-> <<i, p>>], out |-> out]
      BY <2>4, <3>1 DEF Send, Call, out, o
    <3>4. got.round = r /\ got.item = <<i, p>>
          /\ got.queue = IF tag = "TPKE" THEN <<"TPKE">> ELSE <<tag, j>>
      BY DEF Queue
    <3> HIDE DEF got
    <3> QED
      BY <3>2, <3>3, <3>4 DEF ArrivesAsSent
  <2>5. ASSUME NEW g \in {"G1", "G2"}, NEW VK \in Keys(g), NEW VKs \in TupleOf(Keys(g), 2),
               NEW SKs \in TupleOf(Keys("ZR"), 2), Start(VK, VKs, SKs)
        PROVE  ArrivesAsSent'
    <3> DEFINE file == KeyFile(players, k, VK, VKs, SKs)
               out  == IF VK.group = "G1" THEN initiateThresholdEnc(file) ELSE initiateThresholdSig(file)
               sent == [l |-> players, k |-> k, VK |-> VK, VKs |-> VKs, SKs |-> SKs]
    <3>1. call' = [op |-> "keys", sent |-> sent, out |-> out]
      BY <2>5 DEF Start, Call
    <3>2. out = sent
      BY EveryKey
    <3> HIDE DEF out, sent
    <3> QED
      BY <3>1, <3>2 DEF ArrivesAsSent
  <2>6. ASSUME call' = Idle \/ call'.op \in {"deal", "decrypt", "sign", "shoup", "decode", "decode forged", "prime", "prove"}
        PROVE  ArrivesAsSent'
    <3>1. call'.op \in {"idle", "deal", "decrypt", "sign", "shoup", "decode", "decode forged", "prime", "prove"}
      <4>1. CASE call' = Idle
        <5>1. Idle.op = "idle"
          BY DEF Idle
        <5> QED
          BY <4>1, <5>1
      <4>2. CASE call'.op \in {"deal", "decrypt", "sign", "shoup", "decode", "decode forged", "prime", "prove"}
        BY <4>2
      <4> QED
        BY <2>6, <4>1, <4>2
    <3> DEFINE x == call'.op
    <3>2. x # "code" /\ x # "transaction"
      BY <3>1
    <3>3. x # "ciphertext" /\ x # "send" /\ x # "keys"
      BY <3>1
    <3> HIDE DEF x
    <3>4. ArrivesAsSent' <=>
            /\ x = "code" => (call.out = IF InRange(call.sent) THEN {call.sent} ELSE {})'
            /\ x = "transaction" =>
                 (call.out = {tr \in {call.sent} : tr[1] < 256 /\ tr[2] < 256 /\ tr[3] < 65536})'
            /\ x = "ciphertext" =>
                 (call.out = {C \in {call.sent} : /\ Len(C[1]) = PAIRING_SERIALIZED_1 /\ Len(C[3]) = PAIRING_SERIALIZED_1
                                                  /\ Len(C[2]) = CURVE_LENGTH})'
            /\ x = "send" =>
                 (/\ call.out.round = call.sent.round
                  /\ call.out.queue = IF call.sent.queue = "TPKE" THEN <<"TPKE">> ELSE <<call.sent.queue, call.sent.j>>
                  /\ call.out.item = call.sent.item)'
            /\ x = "keys" => (call.out = call.sent)'
      BY DEF ArrivesAsSent, x
    <3> QED
      BY <3>2, <3>3, <3>4
  <2>7. ASSUME call' = call PROVE ArrivesAsSent'
    BY <1>2, <2>7 DEF ArrivesAsSent
  <2>8. ASSUME Codings \/ Transactions \/ Ciphertexts \/ Sends \/ Starts PROVE ArrivesAsSent'
    <3>1. CASE Codings
      BY <2>1, <3>1 DEF Codings
    <3>2. CASE Transactions
      BY <2>2, <3>2 DEF Transactions
    <3>3. CASE Ciphertexts
      BY <2>3, <3>3 DEF Ciphertexts
    <3>4. CASE Sends
      BY <2>4, <3>4 DEF Sends
    <3>5. CASE Starts
      BY <2>5, <3>5 DEF Starts
    <3> QED
      BY <2>8, <3>1, <3>2, <3>3, <3>4, <3>5
  <2> QED
    BY <1>2, <2>6, <2>7, <2>8, Calls, Named
<1> QED
  BY <1>1, <1>2, PTL DEF Spec

\* In each step of Algorithms, for any number of stripes, of which any K decode, and any prime number of bytes.
THEOREM DecodedAlikeTheorem == Spec => []DecodedAlike
<1>1. Init => DecodedAlike
  BY DEF Init, Idle, DecodedAlike
<1>2. ASSUME DecodedAlike, [Next]_call PROVE DecodedAlike'
  <2>1. ASSUME Decodes PROVE DecodedAlike'
    <3>1. PICK m \in BoundedSeq(0 .. 1, MaxLen), J \in SUBSET (0 .. N - 1) : Decode(m, J)
      BY <2>1 DEF Decodes
    <3> DEFINE x == call'
    <3>2. /\ x.op = "decode" /\ x.S = J /\ x.message = m
          /\ x.out = IF Cardinality(J) >= K THEN {m} ELSE {}
          /\ x.older = IF Cardinality(J) >= K THEN {{m}} ELSE {}
      BY <3>1, EveryDecode
    <3> QED
      BY <3>2 DEF DecodedAlike
  <2>2. ASSUME Forges PROVE DecodedAlike'
    <3>1. PICK stripes \in AnyStripes, S \in kSubset(K, 0 .. N - 1), T \in kSubset(K, 0 .. N - 1) :
            DecodeForged(stripes, S, T)
      BY <2>2 DEF Forges
    <3>2. call'.op = "decode forged" /\ call'.out = call'.other /\ Cardinality(call'.older) = 1
      BY <3>1, EveryForged
    <3> QED
      BY <3>2 DEF DecodedAlike
  <2>3. ASSUME call' = Idle PROVE DecodedAlike'
    BY <2>3 DEF Idle, DecodedAlike
  <2>4. ASSUME call' = call PROVE DecodedAlike'
    BY <1>2, <2>4 DEF DecodedAlike
  <2>5. ASSUME call'.op \notin {"decode", "decode forged"} PROVE DecodedAlike'
    BY <2>5 DEF DecodedAlike
  <2>6. ASSUME Deals \/ Decrypts \/ Signs \/ Shoups \/ Proof \/ Tests
               \/ Codings \/ Transactions \/ Ciphertexts \/ Sends \/ Starts
        PROVE  call'.op \notin {"decode", "decode forged"}
    BY <2>6, Named
  <2> QED
    BY <1>2, <2>1, <2>2, <2>3, <2>4, <2>5, <2>6, Steps
<1> QED
  BY <1>1, <1>2, PTL DEF Spec

\* In each step of Algorithms, for any number of players of which any k combine, and any prime order.
THEOREM ThresholdHoldsTheorem == Spec => []ThresholdHolds
<1>1. Init => ThresholdHolds
  BY DEF Init, Idle, ThresholdHolds, SharesCombineToOne, TooFewKnowNothing
<1>2. ASSUME ThresholdHolds, [Next]_call PROVE ThresholdHolds'
  <2>1. ASSUME Deals PROVE ThresholdHolds'
    <3>1. PICK a \in Coefficients : Deal(a)
      BY <2>1 DEF Deals
    <3>2. /\ call'.op = "deal" /\ Key(a) \in call'.out
          /\ \A S \in kSubset(k - 1, Player), secret \in ZR :
               \E b \in Coefficients :
                 b[0] = secret /\ \A other \in dealer(b), i \in S : other.SKs[i] = Key(a).SKs[i]
      BY <3>1, EveryDeal
    <3>3. TooFewKnowNothing'
      BY <3>2 DEF TooFewKnowNothing
    <3>4. SharesCombineToOne'
      BY <3>2 DEF SharesCombineToOne
    <3> QED
      BY <3>3, <3>4 DEF ThresholdHolds
  <2>2. ASSUME Decrypts PROVE ThresholdHolds'
    <3>1. PICK a \in Coefficients, m \in String, r \in 1 .. order - 1 :
            \E off \in 0 .. 1, S \in Shares, x \in ZR : Decrypt(a, m, r, off, S, x)
      BY <2>2 DEF Decrypts
    <3>2. PICK off \in 0 .. 1, S \in Shares, x \in ZR : Decrypt(a, m, r, off, S, x)
      BY <3>1
    <3>3. call'.op = "decrypt" /\ call'.out = IF call'.bad THEN {} ELSE {call'.m}
      BY <3>2, EveryDecrypt
    <3> QED
      BY <3>3 DEF ThresholdHolds, TooFewKnowNothing, SharesCombineToOne
  <2>3. ASSUME Signs PROVE ThresholdHolds'
    <3>1. PICK a \in Coefficients, h \in 1 .. order - 1, S \in Shares, x \in ZR : Sign(a, h, S, x)
      BY <2>3 DEF Signs
    <3>2. call'.op = "sign" /\ call'.out = IF call'.forged THEN {} ELSE {(call'.h * call'.key.VK) % order}
      BY <3>1, EverySign
    <3> QED
      BY <3>2 DEF ThresholdHolds, TooFewKnowNothing, SharesCombineToOne
  <2>4. ASSUME call' = Idle PROVE ThresholdHolds'
    BY <2>4 DEF Idle, ThresholdHolds, TooFewKnowNothing, SharesCombineToOne
  <2>5. ASSUME call' = call PROVE ThresholdHolds'
    BY <1>2, <2>5 DEF ThresholdHolds, TooFewKnowNothing, SharesCombineToOne
  <2>6. ASSUME call'.op \notin {"deal", "decrypt", "sign"} PROVE ThresholdHolds'
    BY <2>6 DEF ThresholdHolds, TooFewKnowNothing, SharesCombineToOne
  <2>7. ASSUME Shoups \/ Decodes \/ Forges \/ Proof \/ Tests
               \/ Codings \/ Transactions \/ Ciphertexts \/ Sends \/ Starts
        PROVE  call'.op \notin {"deal", "decrypt", "sign"}
    BY <2>7, Named
  <2> QED
    BY <1>2, <2>1, <2>2, <2>3, <2>4, <2>5, <2>6, <2>7, Steps
<1> QED
  BY <1>1, <1>2, PTL DEF Spec
=============================================================================
