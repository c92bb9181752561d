------------------------------- MODULE Folding --------------------------------
(***************************************************************************)
(* Induction over the natural numbers and over the folds the models are    *)
(* written with, as facts about sets and functions; and what bounding a    *)
(* sequence leaves of it.                                                  *)
(***************************************************************************)
EXTENDS Integers, Recent, SequencesExt, FiniteSetTheorems,
        WellFoundedInduction, TLAPS

(* A set of numbers that has 0 and every successor has them all: if not,   *)
(* there would be a least one that it lacks.                               *)
LEMMA Induction ==
    ASSUME NEW S, 0 \in S, \A n \in Nat : n \in S => n + 1 \in S
    PROVE  Nat \subseteq S
<1> DEFINE T == Nat \ S
<1> SUFFICES ASSUME T # {} PROVE FALSE
  OBVIOUS
<1>1. PICK m \in T : \A k \in T : ~(<<k, m>> \in OpToRel(<, Nat))
  <2> HIDE DEF T
  <2>1. T \subseteq Nat
    BY DEF T
  <2> QED BY <2>1, NatLessThanWellFounded, WFMin
<1>2. \A k \in T : ~(k < m)
  BY <1>1 DEF OpToRel
<1>3. m # 0 /\ m - 1 \in Nat
  OBVIOUS
<1>4. m - 1 \in S
  BY <1>2, <1>3
<1> QED BY <1>3, <1>4

(* The same up to a bound. *)
LEMMA InductionUpTo ==
    ASSUME NEW n \in Nat, NEW S, 0 \in S, \A i \in 1..n : i - 1 \in S => i \in S
    PROVE  0..n \subseteq S
<1> DEFINE T == { i \in Nat : i <= n => i \in S }
<1>1. 0 \in T
  OBVIOUS
<1>2. ASSUME NEW i \in Nat, i \in T PROVE i + 1 \in T
  <2>1. CASE i + 1 <= n
    <3>1. i \in S /\ i + 1 \in 1..n /\ (i + 1) - 1 = i
      BY <1>2, <2>1
    <3> QED BY <3>1
  <2>2. CASE ~(i + 1 <= n)
    BY <2>2
  <2> QED BY <2>1, <2>2
<1> HIDE DEF T
<1>3. Nat \subseteq T
  BY <1>1, <1>2, Induction
<1> QED BY <1>3 DEF T

-----------------------------------------------------------------------------
(* f starts with base and takes step i from its value for i - 1.           *)
Recursive(f, n, base, step) ==
    /\ f[0] = base
    /\ \A i \in 1..n : f[i] = step[i][f[i - 1]]

(* There is such a function, when the steps stay in a set of values.       *)
LEMMA RecursionExists ==
    ASSUME NEW n \in Nat, NEW X, NEW base \in X, NEW step \in [1..n -> [X -> X]]
    PROVE  \E f \in [0..n -> X] : Recursive(f, n, base, step)
<1> DEFINE Is(f, k) == Recursive(f, k, base, step)
           S == { k \in 0..n : \E f \in [0..k -> X] : Is(f, k) }
<1>1. 0 \in S
  <2> DEFINE f == [i \in 0..0 |-> base]
  <2>1. f \in [0..0 -> X] /\ Is(f, 0)
    BY DEF Recursive
  <2> HIDE DEF f
  <2> QED BY <2>1
<1>2. ASSUME NEW k \in 1..n, k - 1 \in S PROVE k \in S
  <2>1. PICK f \in [0..(k - 1) -> X] : Is(f, k - 1)
    BY <1>2
  <2> DEFINE g == [i \in 0..k |-> IF i = k THEN step[k][f[k - 1]] ELSE f[i]]
  <2>2. step[k][f[k - 1]] \in X
    <3>1. f[k - 1] \in X /\ step[k] \in [X -> X]
      OBVIOUS
    <3> QED BY <3>1
  <2>3. g \in [0..k -> X]
    BY <2>2
  <2>4. ASSUME NEW i \in 1..k PROVE g[i] = step[i][g[i - 1]]
    <3>1. g[i - 1] = f[i - 1]
      OBVIOUS
    <3>2. CASE i = k
      BY <3>1, <3>2
    <3>3. CASE i # k
      <4>1. i \in 1..(k - 1)
        BY <3>3
      <4> QED BY <2>1, <3>1, <3>3, <4>1 DEF Recursive
    <3> QED BY <3>2, <3>3
  <2>5. g[0] = base
    BY <2>1 DEF Recursive
  <2>6. Is(g, k)
    BY <2>4, <2>5 DEF Recursive
  <2> HIDE DEF g
  <2> QED BY <2>3, <2>6
<1> HIDE DEF S
<1>3. \A k \in 1..n : k - 1 \in S => k \in S
  BY <1>2
<1>4. 0..n \subseteq S
  BY <1>1, <1>3, InductionUpTo
<1> QED BY <1>4 DEF S

(* A finite set of numbers has a least and a greatest one.                 *)
LEMMA FiniteHasEnds ==
    ASSUME NEW T, IsFiniteSet(T), T \subseteq Int, T # {}
    PROVE  /\ \E x \in T : \A y \in T : x <= y
           /\ \E x \in T : \A y \in T : y <= x
<1> DEFINE Ends(U) == /\ \E x \in U : \A y \in U : x <= y
                      /\ \E x \in U : \A y \in U : y <= x
           S == { n \in Nat : \A U \in SUBSET Int :
                    IsFiniteSet(U) /\ Cardinality(U) = n + 1 => Ends(U) }
<1>1. 0 \in S
  <2> SUFFICES ASSUME NEW U \in SUBSET Int, IsFiniteSet(U), Cardinality(U) = 1
               PROVE  Ends(U)
    OBVIOUS
  <2>1. PICK x : U = {x}
    BY FS_Singleton
  <2> QED BY <2>1
<1>2. ASSUME NEW n \in Nat, n \in S PROVE n + 1 \in S
  <2> SUFFICES ASSUME NEW U \in SUBSET Int, IsFiniteSet(U), Cardinality(U) = (n + 1) + 1
               PROVE  Ends(U)
    OBVIOUS
  <2>1. U # {}
    BY FS_EmptySet
  <2>2. PICK z \in U : TRUE
    BY <2>1
  <2>3. IsFiniteSet(U \ {z}) /\ Cardinality(U \ {z}) = n + 1
    BY FS_RemoveElement
  <2>4. Ends(U \ {z})
    BY <1>2, <2>3
  <2>5. PICK a \in U \ {z}, b \in U \ {z} : \A y \in U \ {z} : a <= y /\ y <= b
    BY <2>4
  <2>6. \E x \in U : \A y \in U : x <= y
    <3>1. CASE z <= a
      BY <2>5, <3>1
    <3>2. CASE ~(z <= a)
      BY <2>5, <3>2
    <3> QED BY <3>1, <3>2
  <2>7. \E x \in U : \A y \in U : y <= x
    <3>1. CASE b <= z
      BY <2>5, <3>1
    <3>2. CASE ~(b <= z)
      BY <2>5, <3>2
    <3> QED BY <3>1, <3>2
  <2> QED BY <2>6, <2>7
<1> DEFINE n == Cardinality(T) - 1
<1>3. n \in Nat /\ Cardinality(T) = n + 1
  BY FS_EmptySet, FS_CardinalityType
<1>4. n \in S
  <2> HIDE DEF S, n
  <2> QED BY <1>1, <1>2, <1>3, Induction
<1> HIDE DEF n
<1> QED BY <1>3, <1>4

LEMMA MaxIs ==
    ASSUME NEW s, NEW k \in s, s \subseteq Int, \A j \in s : j <= k
    PROVE  Max(s) = k
<1>1. \A y \in s : k >= y
  OBVIOUS
<1>2. Max(s) \in s /\ \A y \in s : Max(s) >= y
  <2> DEFINE P(x) == x \in s /\ \A y \in s : x >= y
  <2>1. P(k)
    BY <1>1
  <2>2. Max(s) = CHOOSE x : P(x)
    BY DEF Max
  <2> HIDE DEF P
  <2>3. P(Max(s))
    BY <2>1, <2>2
  <2> QED BY <2>3 DEF P
<1> DEFINE m == Max(s)
<1> HIDE DEF m
<1>3. m \in Int /\ k \in Int /\ k >= m /\ m >= k
  BY <1>1, <1>2 DEF m
<1>4. m = k
  BY <1>3
<1> QED BY <1>4 DEF m

LEMMA MaxIn ==
    ASSUME NEW n \in Nat, NEW s \in SUBSET (1..n), s # {}
    PROVE  Max(s) \in 1..n
<1>1. IsFiniteSet(s) /\ s \subseteq Int
  <2>1. 1 \in Int /\ n \in Int
    OBVIOUS
  <2>2. IsFiniteSet(1..n)
    BY ONLY <2>1, FS_Interval
  <2>3. IsFiniteSet(s)
    BY ONLY <2>2, s \in SUBSET (1..n), FS_Subset
  <2>4. s \subseteq Int
    OBVIOUS
  <2> QED BY <2>3, <2>4
<1>2. \E k \in s : \A j \in s : j <= k
  BY ONLY <1>1, s # {}, FiniteHasEnds
<1>3. PICK k \in s : \A j \in s : j <= k
  BY <1>2
<1>4. Max(s) = k
  BY <1>1, <1>3, MaxIs
<1> QED BY <1>4

(* FoldLeft goes through the sets 1..i of the indices of a sequence, and   *)
(* is defined on all sets of them: f is the function it is defined by.     *)
FoldsBy(f, n, base, step) ==
    \A s \in SUBSET (1..n) :
        f[s] = IF s = {} THEN base ELSE step[Max(s)][f[s \ {Max(s)}]]

LEMMA FoldExists ==
    ASSUME NEW n \in Nat, NEW X, NEW base \in X, NEW step \in [1..n -> [X -> X]]
    PROVE  \E f \in [SUBSET (1..n) -> X] : FoldsBy(f, n, base, step)
<1> DEFINE Is(f, k) == FoldsBy(f, k, base, step)
           S == { k \in 0..n : \E f \in [SUBSET (1..k) -> X] : Is(f, k) }
<1> HIDE DEF FoldsBy, Is
<1>0. \A k \in 0..n : k \in S <=> \E f \in [SUBSET (1..k) -> X] : Is(f, k)
  OBVIOUS
<1> HIDE DEF S
<1>1. ASSUME NEW k \in 0..n, k = 0 PROVE k \in S
  <2> DEFINE f == [s \in SUBSET (1..k) |-> base]
  <2>1. \A s \in SUBSET (1..k) : s = {}
    BY <1>1
  <2>2. f \in [SUBSET (1..k) -> X] /\ Is(f, k)
    BY <2>1 DEF FoldsBy, Is
  <2> HIDE DEF f
  <2> QED BY <1>0, <2>2
<1>2. ASSUME NEW k \in 1..n, k - 1 \in S PROVE k \in S
  <2>0. /\ k \in S <=> \E h \in [SUBSET (1..k) -> X] : Is(h, k)
        /\ k - 1 \in S <=> \E h \in [SUBSET (1..(k - 1)) -> X] : Is(h, k - 1)
    <3>1. k \in 0..n /\ k - 1 \in 0..n
      OBVIOUS
    <3> QED BY <1>0, <3>1
  <2>1. PICK f \in [SUBSET (1..(k - 1)) -> X] : Is(f, k - 1)
    BY <1>2, <2>0
  <2> DEFINE g == [s \in SUBSET (1..k) |->
                     IF k \in s THEN step[k][f[s \ {k}]] ELSE f[s]]
  <2>2. ASSUME NEW s \in SUBSET (1..k)
        PROVE  /\ k \in s => Max(s) = k /\ s \ {k} \in SUBSET (1..(k - 1))
               /\ k \notin s => s \in SUBSET (1..(k - 1))
    <3>1. s \subseteq Int /\ \A j \in s : j <= k
      OBVIOUS
    <3>2. k \in s => Max(s) = k
      BY <3>1, MaxIs
    <3> QED BY <3>2
  <2>3. g \in [SUBSET (1..k) -> X]
    <3> SUFFICES ASSUME NEW s \in SUBSET (1..k) PROVE g[s] \in X
      OBVIOUS
    <3>1. step[k] \in [X -> X]
      OBVIOUS
    <3> QED BY <2>2, <3>1
  <2>4. ASSUME NEW s \in SUBSET (1..k)
        PROVE  g[s] = IF s = {} THEN base ELSE step[Max(s)][g[s \ {Max(s)}]]
    <3>1. CASE k \in s
      <4>1. g[s \ {k}] = f[s \ {k}]
        BY <2>2, <3>1
      <4> QED BY <2>2, <3>1, <4>1
    <3>2. CASE k \notin s
      <4>1. s \in SUBSET (1..(k - 1)) /\ s \ {Max(s)} \in SUBSET (1..k)
        BY <2>2, <3>2
      <4>2. g[s] = f[s] /\ g[s \ {Max(s)}] = f[s \ {Max(s)}]
        BY <3>2, <4>1
      <4> QED BY <2>1, <4>1, <4>2 DEF FoldsBy, Is
    <3> QED BY <3>1, <3>2
  <2>5. Is(g, k)
    BY <2>4 DEF FoldsBy, Is
  <2> HIDE DEF g
  <2> QED BY <2>0, <2>3, <2>5
<1>3. \A k \in 1..n : k - 1 \in S => k \in S
  BY <1>2
<1>4. 0..n \subseteq S
  <2>1. 0 \in S
    BY <1>1
  <2> QED BY <1>3, <2>1, InductionUpTo
<1>5. \E f \in [SUBSET (1..n) -> X] : Is(f, n)
  <2>1. n \in 0..n
    OBVIOUS
  <2> QED BY <1>0, <1>4, <2>1
<1> QED BY <1>5 DEF FoldsBy, Is

(* What a fold is, step by step. *)
LEMMA FoldSteps ==
    ASSUME NEW n \in Nat, NEW i \in 1..n
    PROVE  /\ 1..i \in SUBSET (1..n) /\ 1..i # {}
           /\ Max(1..i) = i /\ (1..i) \ {i} = 1..(i - 1)
<1>1. i \in 1..i /\ 1..i \subseteq Int /\ \A j \in 1..i : j <= i
  OBVIOUS
<1>2. Max(1..i) = i
  BY ONLY <1>1, MaxIs
<1> QED BY <1>2

-----------------------------------------------------------------------------
(* Two sequences of one length with the same elements are one sequence. *)
LEMMA SameSeq ==
    ASSUME NEW S, NEW s \in Seq(S), NEW t \in Seq(S), Len(s) = Len(t),
           \A i \in 1..Len(s) : s[i] = t[i]
    PROVE  s = t
  OBVIOUS

(* The bound keeps a sequence that fits, and drops its first element when  *)
(* it is one too long.                                                     *)
LEMMA KeepLastIs ==
    ASSUME NEW S, NEW s \in Seq(S), NEW n \in Nat, Len(s) <= n + 1
    PROVE  /\ Len(s) <= n => KeepLast(s, n) = s
           /\ Len(s) = n + 1 =>
                 /\ KeepLast(s, n) \in Seq(S)
                 /\ Len(KeepLast(s, n)) = n
                 /\ \A i \in 1..n : KeepLast(s, n)[i] = s[i + 1]
<1>1. CASE Len(s) <= n
  BY <1>1 DEF KeepLast
<1>2. CASE Len(s) = n + 1
  <2>1. KeepLast(s, n) = [i \in 1..n |-> s[i + 1]]
    BY <1>2 DEF KeepLast
  <2>2. \A i \in 1..n : s[i + 1] \in S
    BY <1>2
  <2> QED  BY <1>2, <2>1, <2>2
<1> QED  BY <1>1, <1>2

(* A bounded sequence: its length and its elements.                        *)
LEMMA KeepLastBounds ==
    ASSUME NEW S, NEW s \in Seq(S), NEW n \in Nat \ {0}
    PROVE  /\ KeepLast(s, n) \in Seq(S)
           /\ Len(KeepLast(s, n)) = IF Len(s) <= n THEN Len(s) ELSE n
           /\ \A i \in 1..Len(KeepLast(s, n)) :
                 KeepLast(s, n)[i] = IF Len(s) <= n THEN s[i] ELSE s[Len(s) - n + i]
<1>1. CASE Len(s) <= n
  BY <1>1 DEF KeepLast
<1>2. CASE ~(Len(s) <= n)
  <2>1. KeepLast(s, n) = [i \in 1..n |-> s[Len(s) - n + i]]
    BY <1>2 DEF KeepLast
  <2>2. \A i \in 1..n : s[Len(s) - n + i] \in S
    BY <1>2
  <2> QED BY <1>2, <2>1, <2>2
<1> QED BY <1>1, <1>2

(* Bounding a log before each point or after it is the same.               *)
LEMMA KeepLastAppend ==
    ASSUME NEW S, NEW s \in Seq(S), NEW n \in Nat \ {0}, NEW p \in S
    PROVE  KeepLast(Append(KeepLast(s, n), p), n) = KeepLast(Append(s, p), n)
<1> DEFINE k == KeepLast(s, n)
           a == Append(s, p)
           b == Append(k, p)
<1>1. /\ k \in Seq(S) /\ Len(k) = IF Len(s) <= n THEN Len(s) ELSE n
      /\ \A i \in 1..Len(k) : k[i] = IF Len(s) <= n THEN s[i] ELSE s[Len(s) - n + i]
  BY KeepLastBounds
<1>2. CASE Len(s) <= n
  BY <1>2 DEF KeepLast
<1>3. CASE ~(Len(s) <= n)
  <2> HIDE DEF k
  <2>1. Len(k) = n /\ Len(k) \in Nat /\ Len(s) \in Nat
    BY <1>1, <1>3
  <2>2. /\ a \in Seq(S) /\ Len(a) = Len(s) + 1 /\ a[Len(s) + 1] = p
        /\ \A i \in 1..Len(s) : a[i] = s[i]
    OBVIOUS
  <2>3. /\ b \in Seq(S) /\ Len(b) = n + 1 /\ b[n + 1] = p
        /\ \A i \in 1..n : b[i] = s[Len(s) - n + i]
    BY <1>1, <1>3, <2>1
  <2> HIDE DEF a, b
  <2>4. /\ KeepLast(a, n) \in Seq(S) /\ Len(KeepLast(a, n)) = n
        /\ \A i \in 1..n : KeepLast(a, n)[i] = a[Len(s) + 1 - n + i]
    <3>1. Len(a) \in Nat /\ ~(Len(a) <= n)
      BY <1>3, <2>1, <2>2
    <3>2. /\ KeepLast(a, n) \in Seq(S) /\ Len(KeepLast(a, n)) = n
          /\ \A i \in 1..n : KeepLast(a, n)[i] = a[Len(a) - n + i]
      <4>1. /\ KeepLast(a, n) \in Seq(S)
            /\ Len(KeepLast(a, n)) = IF Len(a) <= n THEN Len(a) ELSE n
            /\ \A i \in 1..Len(KeepLast(a, n)) :
                  KeepLast(a, n)[i] = IF Len(a) <= n THEN a[i] ELSE a[Len(a) - n + i]
        <5>1. a \in Seq(S) /\ n \in Nat \ {0}
          BY <2>2
        <5> QED BY ONLY <5>1, KeepLastBounds
      <4>2. Len(KeepLast(a, n)) = n
        BY <3>1, <4>1
      <4> QED BY <3>1, <4>1, <4>2
    <3> QED BY <2>1, <2>2, <3>2
  <2>5. /\ KeepLast(b, n) \in Seq(S) /\ Len(KeepLast(b, n)) = n
        /\ \A i \in 1..n : KeepLast(b, n)[i] = b[i + 1]
    BY <2>3, KeepLastIs
  <2>6. ASSUME NEW i \in 1..n PROVE b[i + 1] = a[Len(s) + 1 - n + i]
    <3>1. CASE i = n
      BY <1>3, <2>1, <2>2, <2>3, <3>1
    <3>2. CASE i # n
      <4>1. i + 1 \in 1..n /\ Len(s) - n + (i + 1) \in 1..Len(s)
        BY <1>3, <2>1, <3>2
      <4>2. b[i + 1] = s[Len(s) - n + (i + 1)]
        BY <2>3, <4>1
      <4>3. a[Len(s) - n + (i + 1)] = s[Len(s) - n + (i + 1)]
        BY <2>2, <4>1
      <4> QED BY <2>1, <4>2, <4>3
    <3> QED BY <3>1, <3>2
  <2>7. KeepLast(a, n) = KeepLast(b, n)
    BY <2>4, <2>5, <2>6, SameSeq
  <2> QED BY <2>7 DEF a, b, k
<1> QED BY <1>2, <1>3

(* The numbers of a finite set can be listed in order.                     *)
Listed(f, n, T) ==
    /\ f \in [1..n -> T]
    /\ \A x \in T : \E i \in 1..n : f[i] = x
    /\ \A i, j \in 1..n : i < j => f[i] < f[j]

LEMMA InOrderExists ==
    ASSUME NEW T, IsFiniteSet(T), T \subseteq Int
    PROVE  \E f : Listed(f, Cardinality(T), T)
<1> DEFINE S == { n \in Nat : \A U \in SUBSET Int :
                    IsFiniteSet(U) /\ Cardinality(U) = n => \E f : Listed(f, n, U) }
<1>1. 0 \in S
  <2> SUFFICES ASSUME NEW U \in SUBSET Int, IsFiniteSet(U), Cardinality(U) = 0
               PROVE  \E f : Listed(f, 0, U)
    OBVIOUS
  <2>1. U = {}
    BY FS_EmptySet
  <2>2. Listed([i \in 1..0 |-> 0], 0, U)
    BY <2>1 DEF Listed
  <2> QED BY <2>2
<1>2. ASSUME NEW n \in Nat, n \in S PROVE n + 1 \in S
  <2> SUFFICES ASSUME NEW U \in SUBSET Int, IsFiniteSet(U), Cardinality(U) = n + 1
               PROVE  \E f : Listed(f, n + 1, U)
    OBVIOUS
  <2>1. U # {}
    BY FS_EmptySet
  <2>2. PICK z \in U : \A y \in U : y <= z
    BY <2>1, FiniteHasEnds
  <2>3. IsFiniteSet(U \ {z}) /\ Cardinality(U \ {z}) = n
    BY FS_RemoveElement
  <2>4. PICK f : Listed(f, n, U \ {z})
    BY <1>2, <2>3
  <2> DEFINE g == [i \in 1..(n + 1) |-> IF i = n + 1 THEN z ELSE f[i]]
  <2>5. ASSUME NEW i \in 1..n PROVE f[i] \in U /\ f[i] < z
    <3>1. f[i] \in U \ {z}
      BY <2>4 DEF Listed
    <3>2. f[i] \in Int /\ z \in Int /\ f[i] <= z /\ f[i] # z
      BY <2>2, <3>1
    <3> QED BY <3>1, <3>2
  <2>6. g \in [1..(n + 1) -> U]
    BY <2>5
  <2>7. ASSUME NEW x \in U PROVE \E i \in 1..(n + 1) : g[i] = x
    <3>1. CASE x = z
      BY <3>1
    <3>2. CASE x # z
      <4>1. PICK i \in 1..n : f[i] = x
        BY <2>4, <3>2 DEF Listed
      <4>2. i \in 1..(n + 1) /\ g[i] = x
        BY <4>1
      <4> QED BY <4>2
    <3> QED BY <3>1, <3>2
  <2>8. ASSUME NEW i \in 1..(n + 1), NEW j \in 1..(n + 1), i < j PROVE g[i] < g[j]
    <3>1. i \in 1..n /\ g[i] = f[i]
      BY <2>8
    <3>2. CASE j = n + 1
      BY <2>5, <3>1, <3>2
    <3>3. CASE j # n + 1
      <4>1. j \in 1..n /\ g[j] = f[j]
        BY <3>3
      <4> QED BY <2>4, <2>8, <3>1, <4>1 DEF Listed
    <3> QED BY <3>2, <3>3
  <2> HIDE DEF g
  <2>9. Listed(g, n + 1, U)
    BY <2>6, <2>7, <2>8 DEF Listed
  <2> QED BY <2>9
<1> DEFINE n == Cardinality(T)
<1>3. n \in Nat
  BY FS_CardinalityType
<1>4. n \in S
  <2> HIDE DEF S, n
  <2> QED BY <1>1, <1>2, <1>3, Induction
<1> HIDE DEF n
<1> QED BY <1>4 DEF n
=============================================================================
