---------------------------- MODULE PredicateProofs ---------------------------
(***************************************************************************)
(* TLAPS proofs about the predicate of a statement, for any statements,    *)
(* databases and keys: that the package has it as one tree, by the         *)
(* invariant of the recursion that builds it, and that the masks the       *)
(* server evaluates from the tree select the rows WHERE and ON hold of,    *)
(* from what the polynomials of FheEngine compute for any prime P.  First  *)
(* the form in which induction is used here and in the modules that extend *)
(* this one.                                                               *)
(***************************************************************************)
EXTENDS QueryPipeline, FiniteSetTheorems, SequenceTheorems, TLAPS

-----------------------------------------------------------------------------
(* A set of numbers has a smallest member.                                 *)
LEMMA Smallest ==
  ASSUME NEW S, S # {}, S \subseteq Nat
  PROVE  \E x \in S : \A y \in S : x <= y
  <1>1. PICK x \in S : \A y \in S : ~ (<<y, x>> \in OpToRel(<, Nat))
    BY WFMin, NatLessThanWellFounded
  <1>2. \A y \in S : ~ (y < x)
    BY <1>1 DEF OpToRel
  <1>3. \A y \in S : x <= y
    BY <1>2
  <1> QED
    BY <1>3

(* Induction, as a fact about sets: a set of numbers with 0 and the        *)
(* successors of its members has all of them.                              *)
LEMMA SetInduction ==
  ASSUME NEW S, 0 \in S, \A n \in Nat : n \in S => n + 1 \in S
  PROVE  Nat \subseteq S
  <1>1. SUFFICES ASSUME Nat \ S # {} PROVE FALSE
    OBVIOUS
  <1>2. PICK x \in Nat \ S : \A y \in Nat \ S : x <= y
    BY <1>1, Smallest
  <1>3. x # 0 /\ x - 1 \in Nat
    OBVIOUS
  <1>4. x - 1 \in S
    BY <1>2, <1>3
  <1> QED
    BY <1>3, <1>4

(* The same over 0..m, and over 1..m for what follows from all before it.  *)
LEMMA UpTo ==
  ASSUME NEW m \in Nat, NEW S, 0 \in S,
         \A n \in Nat : n < m /\ n \in S => n + 1 \in S
  PROVE  0..m \subseteq S
  <1> DEFINE T == {n \in Nat : n <= m => n \in S}
  <1>1. 0 \in T
    OBVIOUS
  <1>2. \A n \in Nat : n \in T => n + 1 \in T
    OBVIOUS
  <1> HIDE DEF T
  <1>3. Nat \subseteq T
    BY <1>1, <1>2, SetInduction
  <1> QED
    BY <1>3 DEF T

LEMMA StaysIn ==
  ASSUME NEW m \in Nat, NEW V, NEW f, f[0] \in V,
         \A n \in 1..m : f[n - 1] \in V => f[n] \in V
  PROVE  \A n \in 0..m : f[n] \in V
  <1> DEFINE S == {n \in 0..m : f[n] \in V}
  <1>1. 0 \in S
    OBVIOUS
  <1>2. \A n \in Nat : n < m /\ n \in S => n + 1 \in S
    <2>1. \A n \in Nat : n < m => n + 1 \in 1..m /\ (n + 1) - 1 = n
      OBVIOUS
    <2> QED
      BY <2>1
  <1> HIDE DEF S
  <1>3. 0..m \subseteq S
    BY <1>1, <1>2, UpTo
  <1> QED
    BY <1>3 DEF S

LEMMA FromAllBefore ==
  ASSUME NEW m \in Nat, NEW S,
         \A n \in 1..m : (\A k \in 1..(n - 1) : k \in S) => n \in S
  PROVE  1..m \subseteq S
  <1> DEFINE T == {n \in Nat : \A k \in 1..n : k \in S}
  <1>1. 0 \in T
    OBVIOUS
  <1>2. \A n \in Nat : n < m /\ n \in T => n + 1 \in T
    <2>1. ASSUME NEW n \in Nat, n < m, n \in T PROVE n + 1 \in S
      <3>1. n + 1 \in 1..m /\ (n + 1) - 1 = n
        BY <2>1
      <3> QED
        BY <2>1, <3>1
    <2>2. \A n \in Nat : 1..(n + 1) = 1..n \cup {n + 1}
      OBVIOUS
    <2> QED
      BY <2>1, <2>2
  <1> HIDE DEF T
  <1>3. 0..m \subseteq T
    BY <1>1, <1>2, UpTo
  <1> QED
    BY <1>3 DEF T

(* A loop of m steps through values of V has a trace.  The recursive       *)
(* functions of the model are the traces of such loops.                    *)
IsLoop(m, V, first, Step) == m \in Nat /\ first \in V /\ Step \in [1..m -> [V -> V]]
IsTrace(g, m, V, first, Step) ==
  g \in [0..m -> V] /\ g[0] = first /\ \A n \in 1..m : g[n] = Step[n][g[n - 1]]

LEMMA Trace ==
  ASSUME NEW m, NEW V, NEW first, NEW Step, IsLoop(m, V, first, Step)
  PROVE  \E g : IsTrace(g, m, V, first, Step)
  <1> m \in Nat /\ first \in V /\ Step \in [1..m -> [V -> V]]
    BY DEF IsLoop
  <1> DEFINE Upto(g, k) == /\ g \in [0..k -> V] /\ g[0] = first
                           /\ \A n \in 1..k : g[n] = Step[n][g[n - 1]]
             S == {k \in 0..m : \E g : Upto(g, k)}
  <1>1. 0 \in S
    <2>1. Upto([n \in 0..0 |-> first], 0)
      OBVIOUS
    <2>2. 0 \in 0..m
      OBVIOUS
    <2> QED
      BY <2>1, <2>2
  <1>2. ASSUME NEW k \in Nat, k < m, k \in S PROVE k + 1 \in S
    <2>1. PICK g : Upto(g, k)
      BY <1>2
    <2> DEFINE h == [n \in 0..(k + 1) |-> IF n = k + 1 THEN Step[k + 1][g[k]] ELSE g[n]]
    <2>2. k + 1 \in 1..m /\ k \in 0..k /\ k + 1 \in 0..m
      BY <1>2
    <2>3. Step[k + 1][g[k]] \in V
      BY <2>1, <2>2
    <2>4. h \in [0..(k + 1) -> V]
      <3>1. \A n \in 0..(k + 1) : n = k + 1 \/ n \in 0..k
        OBVIOUS
      <3> QED
        BY <2>1, <2>3, <3>1
    <2>5. h[0] = first
      BY <2>1
    <2>6. ASSUME NEW n \in 1..(k + 1) PROVE h[n] = Step[n][h[n - 1]]
      <3>1. n \in 0..(k + 1) /\ n - 1 \in 0..(k + 1) /\ n - 1 # k + 1 /\ n - 1 \in 0..k
        OBVIOUS
      <3>2. h[n - 1] = g[n - 1]
        BY <3>1
      <3>3. CASE n = k + 1
        BY <3>1, <3>2, <3>3
      <3>4. CASE n \in 1..k
        BY <2>1, <3>1, <3>2, <3>4
      <3> QED
        BY <3>3, <3>4
    <2> HIDE DEF h
    <2>7. Upto(h, k + 1)
      BY <2>4, <2>5, <2>6
    <2> QED
      BY <2>2, <2>7
  <1> HIDE DEF S
  <1>3. 0..m \subseteq S
    BY <1>1, <1>2, UpTo
  <1>4. m \in S
    BY <1>3
  <1> QED
    BY <1>4 DEF S, IsTrace

-----------------------------------------------------------------------------
(* The ring.                                                               *)
Zp == 0..(P - 1)

LEMMA Modulus == P \in Nat /\ P >= 3 /\ P % 2 = 1 /\ H \in Nat /\ P = 2 * H + 1
  BY FheAssumption DEF H

LEMMA ModInt ==
  ASSUME NEW a \in Int
  PROVE  /\ a % P \in Zp
         /\ a \in Zp => a % P = a
         /\ -P <= a /\ a < 0 => a % P = a + P
  BY Modulus DEF Zp

LEMMA RingTyped ==
  ASSUME NEW a \in Int, NEW b \in Int
  PROVE  MinusMod(a, b) \in Zp /\ PlusMod(a, b) \in Zp /\ TimesMod(a, b) \in Zp
  <1>1. a - b \in Int /\ a + b \in Int /\ a * b \in Int
    OBVIOUS
  <1> QED
    BY <1>1, ModInt DEF MinusMod, PlusMod, TimesMod

(* Zero is the only number whose power P - 1 is not 1.                     *)
Powers(a) == CHOOSE g : g = [k \in 0..(P - 1) |->
    CASE k = 0 -> 1
      [] k % 2 = 1 -> TimesMod(a, g[k - 1])
      [] k > 0 /\ k % 2 = 0 -> TimesMod(g[k \div 2], g[k \div 2])]

LEMMA PowersOfZero ==
  ASSUME NEW k \in 1..(P - 1)
  PROVE  Powers(0)[k] = 0
  <1> DEFINE m == P - 1
             g == [n \in 0..m |-> IF n = 0 THEN 1 ELSE 0]
             f == Powers(0)
  <1>1. m \in Nat /\ TimesMod(0, 0) = 0 /\ TimesMod(0, 1) = 0
    <2>1. 0 % P = 0
      BY Modulus, ModInt DEF Zp
    <2> QED
      BY <2>1, Modulus DEF TimesMod
  <1> HIDE DEF m
  <1>2. ASSUME NEW n \in 1..m
        PROVE  /\ n \in 0..m /\ n # 0
               /\ n - 1 \in 0..m /\ n % 2 \in 0..1
               /\ n % 2 = 0 => n \div 2 \in 1..m /\ n \div 2 < n
    BY <1>1
  <1>3. g = [n \in 0..m |->
               CASE n = 0 -> 1
                 [] n % 2 = 1 -> TimesMod(0, g[n - 1])
                 [] n > 0 /\ n % 2 = 0 -> TimesMod(g[n \div 2], g[n \div 2])]
    <2>1. ASSUME NEW n \in 0..m
          PROVE  g[n] = CASE n = 0 -> 1
                          [] n % 2 = 1 -> TimesMod(0, g[n - 1])
                          [] n > 0 /\ n % 2 = 0 -> TimesMod(g[n \div 2], g[n \div 2])
      <3>1. CASE n = 0
        BY <3>1
      <3>2. CASE n \in 1..m /\ n % 2 = 1
        BY <3>2, <1>1, <1>2
      <3>3. CASE n \in 1..m /\ n % 2 = 0
        <4>1. n \div 2 \in 0..m /\ n \div 2 # 0
          BY <3>3, <1>2
        <4>2. g[n \div 2] = 0 /\ g[n] = 0
          BY <4>1, <3>3, <1>2
        <4> QED
          BY <4>2, <3>3, <1>1, <1>2
      <3> QED
        BY <3>1, <3>2, <3>3, <1>1, <1>2
    <2> QED
      BY <2>1
  <1> HIDE DEF g
  <1>4. f = [n \in 0..m |->
               CASE n = 0 -> 1
                 [] n % 2 = 1 -> TimesMod(0, f[n - 1])
                 [] n > 0 /\ n % 2 = 0 -> TimesMod(f[n \div 2], f[n \div 2])]
    BY <1>3 DEF Powers, m
  <1> HIDE DEF f
  <1> DEFINE S == {n \in 1..m : f[n] = 0}
  <1>5. ASSUME NEW n \in 1..m, \A j \in 1..(n - 1) : j \in S
        PROVE  n \in S
    <2>1. n \in 0..m /\ n # 0 /\ n > 0 /\ n - 1 \in 0..m /\ n % 2 \in 0..1
      BY <1>2
    <2>2. CASE n % 2 = 1
      <3>1. f[n] = TimesMod(0, f[n - 1])
        BY <1>4, <2>1, <2>2
      <3>2. n = 1 \/ n - 1 \in 1..(n - 1)
        BY <1>1
      <3>3. f[n - 1] \in {0, 1}
        <4>1. f[0] = 1
          BY <1>1, <1>4
        <4> QED
          BY <4>1, <3>2, <1>5
      <3> QED
        BY <3>1, <3>3, <1>1
    <2>3. CASE n % 2 = 0
      <3>1. f[n] = TimesMod(f[n \div 2], f[n \div 2])
        <4>1. f[n] = CASE n = 0 -> 1
                       [] n % 2 = 1 -> TimesMod(0, f[n - 1])
                       [] n > 0 /\ n % 2 = 0 -> TimesMod(f[n \div 2], f[n \div 2])
          BY <1>4, <2>1
        <4>2. n # 0 /\ n % 2 # 1 /\ n > 0 /\ n % 2 = 0
          BY <2>1, <2>3
        <4> QED
          BY ONLY <4>1, <4>2
      <3>2. n \div 2 \in 1..(n - 1)
        BY <1>1, <1>2, <2>3
      <3> QED
        BY <3>1, <3>2, <1>1, <1>5
    <2> QED
      BY <2>1, <2>2, <2>3
  <1> HIDE DEF S
  <1>6. 1..m \subseteq S
    BY <1>1, <1>5, FromAllBefore
  <1> QED
    BY <1>6 DEF S, f, m

LEMMA PowerIsOne ==
  ASSUME NEW a \in Zp
  PROVE  Power(a) = IF a = 0 THEN 0 ELSE 1
  <1>1. CASE a # 0
    <2>1. a \in 1..(P - 1)
      BY <1>1 DEF Zp
    <2> QED
      BY <2>1, FermatAssumption
  <1>2. CASE a = 0
    <2>1. P - 1 \in 1..(P - 1)
      BY Modulus
    <2>2. Power(0) = Powers(0)[P - 1]
      BY DEF Power, Powers
    <2> QED
      BY <1>2, <2>1, <2>2, PowersOfZero
  <1> QED
    BY <1>1, <1>2

-----------------------------------------------------------------------------
(* Truth values as the masks hold them, and what each mask is.             *)
Bit(b) == IF b THEN 1 ELSE 0

(* EQ(a, b) = 1 - (a - b)^(P - 1) is exact for any two slots.              *)
THEOREM EqMaskExact ==
  ASSUME NEW a \in Zp, NEW b \in Zp
  PROVE  EqMask(a, b) = Bit(a = b)
  <1>1. MinusMod(a, b) \in Zp
    BY RingTyped DEF Zp
  <1>2. MinusMod(a, b) = 0 <=> a = b
    <2>1. a - b \in Int /\ -P <= a - b /\ a - b < P
      BY Modulus DEF Zp
    <2>2. CASE a - b >= 0
      <3>1. a - b \in Zp
        BY <2>1, <2>2, Modulus DEF Zp
      <3> QED
        BY <3>1, ModInt DEF MinusMod, Zp
    <2>3. CASE a - b < 0
      <3>1. (a - b) % P = a - b + P
        BY <2>1, <2>3, ModInt
      <3> QED
        BY <2>3, <3>1, Modulus DEF MinusMod, Zp
    <2> QED
      BY <2>1, <2>2, <2>3
  <1>3. MinusMod(1, 0) = 1 /\ MinusMod(1, 1) = 0
    <2>1. 0 \in Zp /\ 1 \in Zp
      BY Modulus DEF Zp
    <2> QED
      BY <2>1, ModInt DEF MinusMod
  <1> QED
    BY <1>1, <1>2, <1>3, PowerIsOne DEF EqMask, Bit

LEMMA ConnectivesExact ==
  /\ AndMask(1, 1) = 1 /\ AndMask(1, 0) = 0 /\ AndMask(0, 1) = 0 /\ AndMask(0, 0) = 0
  /\ OrMask(1, 1) = 1 /\ OrMask(1, 0) = 1 /\ OrMask(0, 1) = 1 /\ OrMask(0, 0) = 0
  /\ NotMask(1) = 0 /\ NotMask(0) = 1
  <1>1. 0 % P = 0 /\ 1 % P = 1 /\ 2 % P = 2
    <2>1. 0 \in Zp /\ 1 \in Zp /\ 2 \in Zp
      BY Modulus DEF Zp
    <2> QED
      BY <2>1, ModInt
  <1> QED
    BY <1>1 DEF AndMask, OrMask, NotMask, PlusMod, MinusMod, TimesMod

(* GT(a, b) adds up EQ(a - b, k) for the differences k in 1..H.            *)
Sums(d) == CHOOSE g : g = [k \in 0..H |-> IF k = 0 THEN 0
                                          ELSE PlusMod(g[k - 1], EqMask(d, k))]

LEMMA SumOfEqualities ==
  ASSUME NEW d \in Zp
  PROVE  Sums(d)[H] = Bit(d \in 1..H)
  <1> DEFINE h == H
             g == [k \in 0..h |-> Bit(d \in 1..k)]
             f == Sums(d)
  <1>1. h \in Nat /\ P = 2 * h + 1 /\ P >= 3
    BY Modulus
  <1>2. ASSUME NEW k \in 1..h
        PROVE  PlusMod(Bit(d \in 1..(k - 1)), EqMask(d, k)) = Bit(d \in 1..k)
    <2>1. k \in Zp
      BY <1>1 DEF Zp
    <2>2. EqMask(d, k) = Bit(d = k)
      BY <2>1, EqMaskExact
    <2>3. 0 % P = 0 /\ 1 % P = 1
      <3>1. 0 \in Zp /\ 1 \in Zp
        BY <1>1 DEF Zp
      <3> QED
        BY <3>1, ModInt
    <2>4. d \in 1..k <=> d \in 1..(k - 1) \/ d = k
      BY <1>1 DEF Zp
    <2>5. d = k => d \notin 1..(k - 1)
      BY <1>1
    <2> QED
      BY <2>2, <2>3, <2>4, <2>5 DEF PlusMod, Bit
  <1> HIDE DEF h
  <1>3. g = [k \in 0..h |-> IF k = 0 THEN 0 ELSE PlusMod(g[k - 1], EqMask(d, k))]
    <2>1. \A k \in 0..h : k = 0 \/ (k \in 1..h /\ k - 1 \in 0..h)
      BY <1>1
    <2>2. Bit(d \in 1..0) = 0
      BY DEF Bit, Zp
    <2> QED
      BY <1>2, <2>1, <2>2
  <1> HIDE DEF g
  <1>4. f = [k \in 0..h |-> IF k = 0 THEN 0 ELSE PlusMod(f[k - 1], EqMask(d, k))]
    BY <1>3 DEF Sums, h
  <1> HIDE DEF f
  <1>5. f[0] = 0 /\ \A k \in 1..h : f[k] = PlusMod(f[k - 1], EqMask(d, k))
    <2>1. 0 \in 0..h /\ \A k \in 1..h : k \in 0..h /\ k # 0
      BY <1>1
    <2> QED
      BY <1>4, <2>1
  <1> DEFINE S == {k \in 0..h : f[k] = Bit(d \in 1..k)}
  <1>6. 0 \in S
    BY <1>1, <1>5 DEF Bit, Zp
  <1>7. ASSUME NEW k \in Nat, k < h, k \in S PROVE k + 1 \in S
    <2>1. k + 1 \in 1..h /\ (k + 1) - 1 = k /\ k + 1 \in 0..h
      BY <1>1, <1>7
    <2>2. f[k + 1] = PlusMod(Bit(d \in 1..k), EqMask(d, k + 1))
      BY <1>5, <1>7, <2>1
    <2> QED
      BY <1>2, <2>1, <2>2
  <1> HIDE DEF S
  <1>8. h \in 0..h /\ 0..h \subseteq S
    BY <1>1, <1>6, <1>7, UpTo
  <1> QED
    BY <1>8 DEF S, f, h

(* On 0..H, where the differences of a larger and a smaller value are the  *)
(* numbers 1..H and the others are not, the comparisons are exact.         *)
THEOREM ComparisonMasksExact ==
  ASSUME NEW a \in 0..H, NEW b \in 0..H
  PROVE  /\ GtMask(a, b) = Bit(a > b) /\ LtMask(a, b) = Bit(a < b)
         /\ OrMask(GtMask(a, b), EqMask(a, b)) = Bit(a >= b)
         /\ OrMask(LtMask(a, b), EqMask(a, b)) = Bit(a <= b)
  <1>1. H \in Nat /\ P = 2 * H + 1
    BY Modulus
  <1>2. ASSUME NEW x \in 0..H, NEW y \in 0..H
        PROVE  GtMask(x, y) = Bit(x > y)
    <2>1. MinusMod(x, y) \in Zp /\ x \in Int /\ y \in Int
      BY <1>1, RingTyped DEF Zp
    <2>2. GtMask(x, y) = Sums(MinusMod(x, y))[H]
      BY DEF GtMask, Sums
    <2>3. MinusMod(x, y) \in 1..H <=> x > y
      <3>1. CASE x >= y
        <4>1. x - y \in Zp
          BY <1>1, <3>1 DEF Zp
        <4>2. MinusMod(x, y) = x - y
          BY <4>1, ModInt DEF MinusMod, Zp
        <4> QED
          BY <3>1, <4>2, <1>1
      <3>2. CASE x < y
        <4>1. x - y \in Int /\ -P <= x - y /\ x - y < 0
          BY <1>1, <3>2
        <4>2. MinusMod(x, y) = x - y + P
          BY <4>1, ModInt DEF MinusMod
        <4> QED
          BY <3>2, <4>2, <1>1
      <3> QED
        BY <3>1, <3>2, <2>1
    <2> QED
      BY <2>1, <2>2, <2>3, SumOfEqualities
  <1>3. EqMask(a, b) = Bit(a = b)
    BY <1>1, EqMaskExact DEF Zp
  <1>4. GtMask(a, b) = Bit(a > b) /\ LtMask(a, b) = Bit(a < b)
    BY <1>1, <1>2 DEF LtMask
  <1>5. OrMask(Bit(a > b), Bit(a = b)) = Bit(a > b \/ a = b)
    BY <1>1, ConnectivesExact DEF Bit
  <1>6. OrMask(Bit(a < b), Bit(a = b)) = Bit(a < b \/ a = b)
    BY <1>1, ConnectivesExact DEF Bit
  <1>7. (a > b \/ a = b <=> a >= b) /\ (a < b \/ a = b <=> a <= b)
    BY <1>1
  <1> QED
    BY <1>3, <1>4, <1>5, <1>6, <1>7

-----------------------------------------------------------------------------
(* Sequences whose elements are of no particular set.                      *)

LEMMA EmptyIsSeq == IsSeq(<<>>)
  BY DEF IsSeq

LEMMA SingleIsSeq ==
  ASSUME NEW x
  PROVE  IsSeq(<<x>>) /\ Len(<<x>>) = 1 /\ <<x>>[1] = x
  BY DEF IsSeq, ToSet

LEMMA IsSeqLen ==
  ASSUME NEW s, IsSeq(s)
  PROVE  Len(s) \in Nat /\ DOMAIN s = 1..Len(s) /\ (s = <<>> <=> Len(s) = 0)
  BY DEF IsSeq

(* A function on 1..n is a sequence of whatever it maps to.                *)
LEMMA FunctionIsSeq ==
  ASSUME NEW n \in Nat, NEW s, s = [i \in 1..n |-> s[i]]
  PROVE  IsSeq(s) /\ Len(s) = n /\ DOMAIN s = 1..n
  <1>1. s \in [1..n -> ToSet(s)]
    BY DEF ToSet
  <1> QED
    BY <1>1 DEF IsSeq

LEMMA OfSeq ==
  ASSUME NEW T, NEW s \in Seq(T)
  PROVE  IsSeq(s)
  <1>1. Len(s) \in Nat /\ s \in [1..Len(s) -> T]
    OBVIOUS
  <1>2. s = [i \in 1..Len(s) |-> s[i]]
    BY <1>1
  <1> QED
    BY <1>1, <1>2, FunctionIsSeq

LEMMA AppendIsSeq ==
  ASSUME NEW s, NEW x, IsSeq(s)
  PROVE  /\ IsSeq(Append(s, x)) /\ Len(Append(s, x)) = Len(s) + 1
         /\ \A i \in 1..Len(s) : Append(s, x)[i] = s[i]
         /\ Append(s, x)[Len(s) + 1] = x
  <1> DEFINE T == ToSet(s) \cup {x}
  <1>1. s \in Seq(ToSet(s))
    BY DEF IsSeq
  <1>2. s \in Seq(T) /\ x \in T
    BY <1>1
  <1> HIDE DEF T
  <1>3. /\ Append(s, x) \in Seq(T) /\ Len(Append(s, x)) = Len(s) + 1 /\ Len(s) \in Nat
        /\ \A i \in 1..Len(s) : Append(s, x)[i] = s[i]
        /\ Append(s, x)[Len(s) + 1] = x
    BY <1>2
  <1> QED
    BY <1>3, OfSeq

LEMMA ConcatIsSeq ==
  ASSUME NEW s, NEW t, IsSeq(s), IsSeq(t)
  PROVE  /\ IsSeq(s \o t) /\ Len(s \o t) = Len(s) + Len(t)
         /\ \A i \in 1..Len(s) : (s \o t)[i] = s[i]
         /\ \A i \in 1..Len(t) : (s \o t)[Len(s) + i] = t[i]
  <1> DEFINE T == ToSet(s) \cup ToSet(t)
  <1>1. s \in Seq(ToSet(s)) /\ t \in Seq(ToSet(t))
    BY DEF IsSeq
  <1>2. s \in Seq(T) /\ t \in Seq(T)
    BY <1>1
  <1> HIDE DEF T
  <1>3. /\ s \o t \in Seq(T) /\ Len(s \o t) = Len(s) + Len(t)
        /\ Len(s) \in Nat /\ Len(t) \in Nat
        /\ \A i \in 1..Len(s) : (s \o t)[i] = s[i]
        /\ \A i \in 1..Len(t) : (s \o t)[Len(s) + i] = t[i]
    BY <1>2
  <1> QED
    BY <1>3, OfSeq

LEMMA ConcatElements ==
  ASSUME NEW s, NEW t, IsSeq(s), IsSeq(t)
  PROVE  ToSet(s \o t) = ToSet(s) \cup ToSet(t)
  <1>1. /\ IsSeq(s \o t) /\ Len(s \o t) = Len(s) + Len(t)
        /\ \A i \in 1..Len(s) : (s \o t)[i] = s[i]
        /\ \A i \in 1..Len(t) : (s \o t)[Len(s) + i] = t[i]
    BY ConcatIsSeq
  <1>2. /\ Len(s) \in Nat /\ DOMAIN s = 1..Len(s) /\ Len(t) \in Nat /\ DOMAIN t = 1..Len(t)
        /\ DOMAIN (s \o t) = 1..(Len(s) + Len(t))
    BY <1>1, IsSeqLen
  <1>3. /\ \A i \in 1..(Len(s) + Len(t)) : i \in 1..Len(s) \/ i - Len(s) \in 1..Len(t)
        /\ \A i \in 1..Len(s) : i \in 1..(Len(s) + Len(t))
        /\ \A i \in 1..Len(t) : Len(s) + i \in 1..(Len(s) + Len(t))
        /\ \A i \in 1..(Len(s) + Len(t)) : Len(s) + (i - Len(s)) = i
    BY <1>2
  <1>4. ASSUME NEW x \in ToSet(s \o t) PROVE x \in ToSet(s) \cup ToSet(t)
    <2>1. PICK i \in 1..(Len(s) + Len(t)) : x = (s \o t)[i]
      BY <1>2 DEF ToSet
    <2> QED
      BY <1>1, <1>2, <1>3, <2>1 DEF ToSet
  <1>5. ASSUME NEW x \in ToSet(s) \cup ToSet(t) PROVE x \in ToSet(s \o t)
    BY <1>1, <1>2, <1>3 DEF ToSet
  <1> QED
    BY <1>4, <1>5

(* FlattenSeq appends one sequence after the other: it has the elements of *)
(* all of them.                                                            *)
Flattened(s) == CHOOSE g : g = [i \in 1..Len(s) |-> IF i = 1 THEN s[i] ELSE g[i - 1] \o s[i]]

LEMMA FlattenSteps ==
  ASSUME NEW s, IsSeq(s), s # <<>>, \A i \in DOMAIN s : IsSeq(s[i])
  PROVE  /\ FlattenSeq(s) = Flattened(s)[Len(s)]
         /\ \A i \in 1..Len(s) :
               Flattened(s)[i] = IF i = 1 THEN s[i] ELSE Flattened(s)[i - 1] \o s[i]
  <1> DEFINE n == Len(s)
             T == UNION {ToSet(s[i]) : i \in DOMAIN s}
             V == Seq(T)
             Step == [i \in 1..n |-> [x \in V |-> x \o s[i]]]
             f == Flattened(s)
  <1>1. n \in Nat /\ DOMAIN s = 1..n
    BY IsSeqLen
  <1>2. n # 0
    BY IsSeqLen
  <1>3. \A i \in 1..n : s[i] \in Seq(T)
    <2>1. \A i \in 1..n : s[i] \in Seq(ToSet(s[i])) /\ ToSet(s[i]) \subseteq T
      BY <1>1 DEF IsSeq
    <2> HIDE DEF T
    <2> QED
      BY <2>1
  <1> HIDE DEF T
  <1>4. IsLoop(n, V, <<>>, Step)
    BY <1>1, <1>3 DEF IsLoop
  <1>5. PICK g : IsTrace(g, n, V, <<>>, Step)
    BY <1>4, Trace
  <1>6. /\ g \in [0..n -> V] /\ g[0] = <<>>
        /\ \A i \in 1..n : g[i] = g[i - 1] \o s[i]
    <2>1. \A i \in 1..n : i - 1 \in 0..n
      BY <1>1
    <2> QED
      BY <1>5, <2>1 DEF IsTrace
  <1> DEFINE h == [i \in 1..n |-> g[i]]
  <1>7. h = [i \in 1..n |-> IF i = 1 THEN s[i] ELSE h[i - 1] \o s[i]]
    <2>1. \A i \in 1..n : i = 1 \/ i - 1 \in 1..n
      BY <1>1
    <2>2. g[1] = s[1]
      <3>1. \A x \in Seq(T) : <<>> \o x = x
        OBVIOUS
      <3>2. 1 \in 1..n /\ 1 - 1 = 0
        BY <1>1, <1>2
      <3>3. g[1] = <<>> \o s[1] /\ s[1] \in Seq(T)
        BY <1>3, <1>6, <3>2
      <3> QED
        BY <3>1, <3>3
    <2>3. ASSUME NEW i \in 1..n PROVE h[i] = IF i = 1 THEN s[i] ELSE h[i - 1] \o s[i]
      BY <1>6, <2>1, <2>2
    <2> QED
      BY <2>3
  <1> HIDE DEF h
  <1>8. f = [i \in 1..n |-> IF i = 1 THEN s[i] ELSE f[i - 1] \o s[i]]
    BY <1>7 DEF Flattened
  <1>9. FlattenSeq(s) = f[n]
    BY <1>2 DEF FlattenSeq, Flattened
  <1> QED
    BY <1>8, <1>9

LEMMA FlattenIsSeq ==
  ASSUME NEW s, IsSeq(s), \A i \in DOMAIN s : IsSeq(s[i])
  PROVE  /\ IsSeq(FlattenSeq(s))
         /\ ToSet(FlattenSeq(s)) = UNION {ToSet(s[i]) : i \in DOMAIN s}
  <1> DEFINE n == Len(s)
             T == UNION {ToSet(s[i]) : i \in DOMAIN s}
  <1>1. n \in Nat /\ DOMAIN s = 1..n
    BY IsSeqLen
  <1>2. CASE n = 0
    <2>1. s = <<>> /\ FlattenSeq(s) = s
      BY <1>2, IsSeqLen DEF FlattenSeq
    <2> QED
      BY <2>1, EmptyIsSeq DEF ToSet
  <1>3. CASE n # 0
    <2> DEFINE f == Flattened(s)
    <2>1. s # <<>>
      BY <1>3, EmptyIsSeq
    <2>2. FlattenSeq(s) = f[n] /\ \A i \in 1..n : f[i] = IF i = 1 THEN s[i] ELSE f[i - 1] \o s[i]
      BY <2>1, FlattenSteps
    <2> HIDE DEF T, f
    <2> DEFINE R == {k \in 1..n : /\ IsSeq(f[k])
                                  /\ ToSet(f[k]) = UNION {ToSet(s[i]) : i \in 1..k}}
    <2>3. ASSUME NEW k \in 1..n, \A j \in 1..(k - 1) : j \in R PROVE k \in R
      <3>1. CASE k = 1
        <4>1. f[k] = s[k] /\ 1..k = {k} /\ k \in DOMAIN s
          BY <1>1, <2>2, <3>1
        <4> QED
          BY <4>1
      <3>2. CASE k # 1
        <4>1. k - 1 \in 1..(k - 1) /\ 1..k = 1..(k - 1) \cup {k} /\ k \in DOMAIN s
          BY <1>1, <3>2
        <4>2. f[k] = f[k - 1] \o s[k]
          BY <2>2, <3>2
        <4>3. IsSeq(f[k - 1]) /\ ToSet(f[k - 1]) = UNION {ToSet(s[i]) : i \in 1..(k - 1)}
          BY <2>3, <4>1
        <4>4. IsSeq(f[k]) /\ ToSet(f[k]) = ToSet(f[k - 1]) \cup ToSet(s[k])
          BY <4>1, <4>2, <4>3, ConcatIsSeq, ConcatElements
        <4> QED
          BY <4>1, <4>3, <4>4
      <3> QED
        BY <3>1, <3>2
    <2> HIDE DEF R
    <2>4. 1..n \subseteq R
      BY <1>1, <2>3, FromAllBefore
    <2>5. n \in 1..n
      BY <1>1, <1>3
    <2> QED
      BY <1>1, <2>2, <2>4, <2>5 DEF R, T
  <1> QED
    BY <1>2, <1>3

(* No exception is thrown only if no check throws one.                     *)
LEMMA NothingThrown ==
  ASSUME NEW checks, Len(checks) \in Nat, DOMAIN checks = 1..Len(checks),
         FirstThrow(checks) = Ok
  PROVE  \A i \in DOMAIN checks : checks[i] = Ok
  <1> SUFFICES ASSUME NEW i \in DOMAIN checks, checks[i] # Ok PROVE FALSE
    OBVIOUS
  <1> DEFINE thrown == {j \in 1..Len(checks) : checks[j] # Ok}
  <1>1. thrown # {} /\ thrown \subseteq Nat
    OBVIOUS
  <1>2. PICK x \in thrown : \A y \in thrown : x <= y
    BY <1>1, Smallest
  <1> HIDE DEF thrown
  <1>4. Min(thrown) \in thrown
    BY <1>2 DEF Min
  <1>5. SelectInSeq(checks, LAMBDA y : y # Ok) = Min(thrown)
    BY <1>1 DEF SelectInSeq, thrown
  <1>6. FirstThrow(checks) = checks[Min(thrown)]
    BY <1>5 DEF FirstThrow
  <1> QED
    BY <1>4, <1>6 DEF thrown

-----------------------------------------------------------------------------
(* What buildPredNode makes of an expression.                              *)

LEMMA OperandsTyped ==
  ASSUME NEW e
  PROVE  Len(Operands(e)) \in 0..2
  BY DEF Operands

(* A lookup in the catalog has a maxLength that is a number, found or not. *)
LEMMA WidthTyped ==
  ASSUME NEW t, NEW c
  PROVE  Column(t, c).maxLength \in Nat
  <1>1. StrWidth \in Nat
    BY SqlAssumption
  <1>2. \A i \in DOMAIN Columns(t) : Columns(t)[i].maxLength \in Nat
    <2>1. CASE t = "employees"
      BY <2>1, <1>1 DEF Columns, HasTable, Schema, Int64, String
    <2>2. CASE t = "departments"
      BY <2>2, <1>1 DEF Columns, HasTable, Schema, Int64, String
    <2>3. CASE t \notin {"employees", "departments"}
      BY <2>3 DEF Columns, HasTable, Schema
    <2> QED
      BY <2>1, <2>2, <2>3
  <1>3. CASE HasColumn(t, c)
    <2>1. \E s \in ToSet(Columns(t)) : s.name = c
      BY <1>3 DEF HasColumn, ToSet
    <2>2. Column(t, c) \in ToSet(Columns(t))
      BY <1>3, <2>1 DEF Column
    <2> QED
      BY <2>2, <1>2 DEF ToSet
  <1>4. CASE ~HasColumn(t, c)
    BY <1>4 DEF Column, NoColumn
  <1> QED
    BY <1>3, <1>4

(* The node refers to the nodes the calls returned, and to nothing else.   *)
LEMMA NodeChildren ==
  ASSUME NEW e, NEW table, NEW r, NEW l, NEW w, NEW S, r \in Seq(S),
         Len(r) = Len(Operands(e)), ~CannotEncode(e, table)
  PROVE  Children(NodeOf(e, r, l, w)) = ToSet(r)
  <1> DEFINE node == NodeOf(e, r, l, w)
  <1>1. CASE IsCol(e)
    BY <1>1 DEF NodeOf, Children, Operands, IsCol, ToSet, OnString, Comparisons, Connectives, Orderings
  <1>2. CASE ~IsCol(e) /\ IsInt(e)
    BY <1>2 DEF NodeOf, Children, Operands, IsCol, IsInt, ToSet, OnString, Comparisons, Connectives, Orderings
  <1>3. CASE OnString(e)
    <2>1. node = StringNode(e, l, w)
      BY <1>3 DEF NodeOf, IsCol, IsInt, OnString, Comparisons, Orderings
    <2>2. Operands(e) = <<>>
      BY <1>3 DEF Operands, OnString, Comparisons, Orderings
    <2> QED
      BY <2>1, <2>2 DEF StringNode, Children, ToSet, Comparisons, Connectives, Orderings
  <1>4. CASE e.kind = "Not"
    BY <1>4 DEF NodeOf, Children, Operands, IsCol, IsInt, ToSet, OnString, Comparisons, Connectives, Orderings
  <1>5. CASE e.kind \in Comparisons \cup Connectives /\ ~OnString(e)
    <2>1. node = [kind |-> e.kind, left |-> r[1], right |-> r[2]]
      BY <1>5 DEF NodeOf, IsCol, IsInt, Comparisons, Connectives, Orderings
    <2>2. Children(node) = {r[1], r[2]}
      BY <1>5, <2>1 DEF Children, Comparisons, Connectives, Orderings
    <2>3. Len(r) = 2
      BY <1>5 DEF Operands, Comparisons, Connectives, Orderings
    <2> QED
      BY <2>2, <2>3 DEF ToSet
  <1> QED
    BY <1>1, <1>2, <1>3, <1>4, <1>5 DEF CannotEncode, IsCol, IsInt, OnString

(* The literals encrypted for a node are those it refers to.               *)
LEMMA NodeLiterals ==
  ASSUME NEW e, NEW table, NEW r, NEW l \in Nat, NEW w \in Nat, ~CannotEncode(e, table)
  PROVE  /\ IsSeq(LiteralsFor(e, w))
         /\ LiteralsOf(NodeOf(e, r, l + 1, w)) = (l + 1)..(l + Len(LiteralsFor(e, w)))
  <1> DEFINE node == NodeOf(e, r, l + 1, w)
  <1>1. CASE IsInt(e)
    <2> DEFINE x == [type |-> "INT64", ct |-> EncryptScalar(e.value)]
    <2> HIDE DEF x
    <2>1. LiteralsFor(e, w) = <<x>>
      BY <1>1 DEF x, LiteralsFor, IsInt, OnString, Comparisons, Orderings
    <2>2. node = [kind |-> "LiteralRef", literal |-> l + 1]
      BY <1>1 DEF NodeOf, IsInt, IsCol, OnString, Comparisons, Orderings
    <2>3. LiteralsOf(node) = {l + 1}
      BY <2>2 DEF LiteralsOf
    <2>4. IsSeq(LiteralsFor(e, w)) /\ Len(LiteralsFor(e, w)) = 1
      BY <2>1, SingleIsSeq
    <2>5. (l + 1)..(l + 1) = {l + 1}
      OBVIOUS
    <2> QED
      BY <2>3, <2>4, <2>5
  <1>2. CASE OnString(e)
    <2>1. node = StringNode(e, l + 1, w)
      BY <1>2 DEF NodeOf, IsCol, IsInt, OnString, Comparisons, Orderings
    <2>2. LiteralsOf(node) = (l + 1)..(l + w)
      BY <2>1 DEF LiteralsOf, StringNode
    <2>3. LiteralsFor(e, w) = EncryptedString(LiteralText(e), w)
      BY <1>2 DEF LiteralsFor, IsInt, OnString, Comparisons, Orderings
    <2>4. \A v : IsSeq(EncryptedString(v, w)) /\ Len(EncryptedString(v, w)) = w
      BY FunctionIsSeq DEF EncryptedString
    <2> QED
      BY <2>2, <2>3, <2>4
  <1>3. CASE ~IsInt(e) /\ ~OnString(e)
    <2>1. LiteralsFor(e, w) = <<>>
      BY <1>3 DEF LiteralsFor
    <2>2. LiteralsOf(node) = {}
      BY <1>3 DEF CannotEncode, LiteralsOf, NodeOf, IsInt, IsCol, Comparisons, Connectives, Orderings
    <2>3. (l + 1)..(l + 0) = {}
      OBVIOUS
    <2> QED
      BY <2>1, <2>2, <2>3, EmptyIsSeq
  <1> QED
    BY <1>1, <1>2, <1>3

-----------------------------------------------------------------------------
(* The invariant of the recursion.                                         *)

LEMMA ReturnedTyped ==
  ASSUME BuilderInv, NEW i \in DOMAIN calls
  PROVE  /\ Len(calls[i].returned) \in Nat
         /\ DOMAIN calls[i].returned = 1..Len(calls[i].returned)
         /\ \A k \in DOMAIN calls[i].returned : calls[i].returned[k] \in DOMAIN nodes
  BY DEF BuilderInv, BuilderTypeOK

LEMMA NothingBuilt ==
  ASSUME calls = <<>>, nodes = <<>>, literals = <<>>
  PROVE  BuilderInv
  BY EmptyIsSeq DEF BuilderInv, BuilderTypeOK, CallsWait, HeldOnce, Owned, ChildrenFirst,
                    OneParent, LiteralsOwned

LEMMA StartBuildInv ==
  ASSUME NEW where, StartBuild(where)
  PROVE  BuilderInv'
  <1>1. calls' = <<Call(where)>> /\ nodes' = <<>> /\ literals' = <<>>
    BY DEF StartBuild
  <1>2. /\ IsSeq(calls') /\ Len(calls') = 1 /\ DOMAIN calls' = 1..1
        /\ calls'[1] = [expr |-> where, returned |-> <<>>]
    BY <1>1, SingleIsSeq DEF Call
  <1>3. BuilderTypeOK'
    <2>1. IsSeq(calls)' /\ IsSeq(nodes)' /\ IsSeq(literals)'
      BY <1>1, <1>2, EmptyIsSeq DEF IsSeq
    <2>2. calls'[1].returned = <<>> /\ calls'[1].expr = where
      BY <1>2
    <2>3. ASSUME NEW S PROVE <<>> \in Seq(S)
      OBVIOUS
    <2>4. /\ calls'[1] = [expr |-> calls'[1].expr, returned |-> calls'[1].returned]
          /\ calls'[1].returned \in Seq(DOMAIN nodes')
      BY <1>2, <2>2, <2>3
    <2>5. \A i \in DOMAIN calls' : i = 1
      BY <1>2
    <2> QED
      BY <2>1, <2>4, <2>5 DEF BuilderTypeOK
  <1>4. CallsWait'
    BY <1>2, OperandsTyped DEF CallsWait
  <1>5. HeldOnce' /\ Owned'
    BY <1>1, <1>2 DEF HeldOnce, Owned
  <1>6. ChildrenFirst(nodes') /\ OneParent(nodes') /\ LiteralsOwned(nodes', literals')
    BY <1>1 DEF ChildrenFirst, OneParent, LiteralsOwned
  <1> QED
    BY <1>3, <1>4, <1>5, <1>6 DEF BuilderInv

(* A call for an operand changes only what the activations wait for.       *)
LEMMA CallForOperandInv ==
  ASSUME BuilderInv, CallForOperand
  PROVE  BuilderInv'
  <1> DEFINE n == Len(calls)
             e == Operands(Current)[Len(Innermost.returned) + 1]
  <1>1. /\ calls # <<>> /\ ~Ready /\ calls' = Append(calls, Call(e))
        /\ nodes' = nodes /\ literals' = literals
    BY DEF CallForOperand
  <1> HIDE DEF e
  <1>2. IsSeq(calls) /\ n \in Nat \ {0} /\ DOMAIN calls = 1..n
    BY <1>1, IsSeqLen DEF BuilderInv, BuilderTypeOK
  <1>3. /\ IsSeq(calls') /\ Len(calls') = n + 1 /\ DOMAIN calls' = 1..(n + 1)
        /\ \A i \in 1..n : calls'[i] = calls[i]
        /\ calls'[n + 1] = [expr |-> e, returned |-> <<>>]
    <2>1. IsSeq(calls') /\ Len(calls') = n + 1
      BY <1>1, <1>2, AppendIsSeq
    <2> QED
      BY <1>1, <1>2, <2>1, AppendIsSeq, IsSeqLen DEF Call
  <1>4. BuilderTypeOK'
    <2>1. IsSeq(calls)' /\ IsSeq(nodes)' /\ IsSeq(literals)'
      BY <1>1, <1>3 DEF BuilderInv, BuilderTypeOK, IsSeq
    <2>2. ASSUME NEW i \in 1..(n + 1)
          PROVE  /\ calls'[i] = [expr |-> calls'[i].expr, returned |-> calls'[i].returned]
                 /\ calls'[i].returned \in Seq(DOMAIN nodes)
      <3>1. CASE i = n + 1
        BY <3>1, <1>3
      <3>2. CASE i \in 1..n
        BY <3>2, <1>2, <1>3 DEF BuilderInv, BuilderTypeOK
      <3> QED
        BY <3>1, <3>2, <1>2
    <2> QED
      BY <1>1, <1>3, <2>1, <2>2 DEF BuilderTypeOK
  <1>5. CallsWait'
    <2>1. ~(Len(calls[n].returned) = Len(Operands(calls[n].expr)))
      BY <1>1 DEF Ready, Current, Innermost
    <2>2. ASSUME NEW i \in 1..n
          PROVE  /\ Len(calls'[i].returned) <= Len(Operands(calls'[i].expr))
                 /\ Len(calls'[i].returned) < Len(Operands(calls'[i].expr))
      <3>1. calls'[i] = calls[i] /\ Len(calls[i].returned) \in Nat /\ i \in DOMAIN calls
        BY <1>2, <1>3, ReturnedTyped
      <3>2. /\ Len(calls[i].returned) <= Len(Operands(calls[i].expr))
            /\ i < n => Len(calls[i].returned) < Len(Operands(calls[i].expr))
        BY <1>2 DEF BuilderInv, CallsWait
      <3> QED
        BY <1>2, <2>1, <3>1, <3>2, OperandsTyped
    <2>3. Len(calls'[n + 1].returned) <= Len(Operands(calls'[n + 1].expr))
      BY <1>3, OperandsTyped
    <2> QED
      BY <1>2, <1>3, <2>2, <2>3 DEF CallsWait
  <1>6. DOMAIN calls'[n + 1].returned = {}
    BY <1>3
  <1>7. HeldOnce'
    BY <1>2, <1>3, <1>6 DEF BuilderInv, HeldOnce
  <1>8. Owned'
    <2>1. \A c : Held(c)' <=> Held(c)
      BY <1>2, <1>3, <1>6 DEF Held, ToSet
    <2>2. calls' # <<>>
      BY <1>2, <1>3, IsSeqLen
    <2> QED
      BY <1>1, <2>1, <2>2 DEF BuilderInv, Owned
  <1> QED
    BY <1>1, <1>4, <1>5, <1>7, <1>8 DEF BuilderInv

(* What a push does: the node takes over what the innermost activation     *)
(* holds, and is held by the one before it.                                *)
PushEffect(table, n, N, L, r, w, node, more) ==
  /\ n = Len(calls) /\ N = Len(nodes) /\ L = Len(literals) /\ r = Innermost.returned
  /\ w = (IF OnString(Current) THEN Column(table, ColumnSide(Current).name).maxLength ELSE 0)
  /\ w \in Nat /\ node = NodeOf(Current, r, L + 1, w) /\ more = LiteralsFor(Current, w)
  /\ calls # <<>> /\ Ready /\ ~CannotEncode(Current, table)
  /\ IsSeq(calls) /\ n \in Nat \ {0} /\ DOMAIN calls = 1..n
  /\ IsSeq(nodes) /\ N \in Nat /\ DOMAIN nodes = 1..N
  /\ IsSeq(literals) /\ L \in Nat /\ DOMAIN literals = 1..L
  /\ r \in Seq(1..N) /\ r = calls[n].returned /\ Len(r) = Len(Operands(Current))
  /\ Children(node) = ToSet(r)
  /\ IsSeq(more) /\ LiteralsOf(node) = (L + 1)..(L + Len(more)) /\ Len(more) \in Nat
  /\ IsSeq(nodes') /\ Len(nodes') = N + 1 /\ DOMAIN nodes' = 1..(N + 1)
  /\ \A i \in 1..N : nodes'[i] = nodes[i]
  /\ nodes'[N + 1] = node
  /\ IsSeq(literals') /\ Len(literals') = L + Len(more)
  /\ DOMAIN literals' = 1..(L + Len(more))
  /\ \A i \in 1..L : literals'[i] = literals[i]
  /\ \A i \in 1..Len(more) : literals'[L + i] = more[i]
  /\ IsSeq(calls') /\ Len(calls') = n - 1 /\ DOMAIN calls' = 1..(n - 1)
  /\ \A i \in 1..(n - 2) : calls'[i] = calls[i]
  /\ n > 1 => /\ calls'[n - 1] = [expr |-> calls'[n - 1].expr,
                                      returned |-> calls'[n - 1].returned]
                  /\ calls'[n - 1].expr = calls[n - 1].expr
  /\ \A i \in 1..n : /\ calls[i].returned \in Seq(1..N)
                         /\ calls[i] = [expr |-> calls[i].expr, returned |-> calls[i].returned]
  /\ n > 1 => LET s == calls[n - 1].returned
                      s1 == calls'[n - 1].returned
                  IN  /\ s1 \in Seq(1..(N + 1)) /\ Len(s1) = Len(s) + 1 /\ Len(s) \in Nat
                      /\ s1[Len(s) + 1] = N + 1
                      /\ \A k \in 1..Len(s) : s1[k] = s[k] /\ s1[k] \in 1..N
  /\ \A i \in 1..(n - 1) : \A k \in DOMAIN calls'[i].returned :
            \/ /\ k \in DOMAIN calls[i].returned
               /\ calls'[i].returned[k] = calls[i].returned[k]
               /\ calls'[i].returned[k] \in 1..N
            \/ /\ i = n - 1 /\ k = Len(calls[i].returned) + 1
               /\ calls'[i].returned[k] = N + 1

LEMMA PushNodeEffect ==
  ASSUME BuilderInv, NEW table, PushNode(table)
  PROVE  \E n, N, L, r, w, node, more : PushEffect(table, n, N, L, r, w, node, more)
  <1> DEFINE n == Len(calls)
             N == Len(nodes)
             L == Len(literals)
             r == Innermost.returned
             w == IF OnString(Current) THEN Column(table, ColumnSide(Current).name).maxLength
                  ELSE 0
             node == NodeOf(Current, r, L + 1, w)
             more == LiteralsFor(Current, w)
  <1>1. /\ calls # <<>> /\ Ready /\ ~CannotEncode(Current, table)
        /\ nodes' = Append(nodes, node) /\ literals' = literals \o more
        /\ calls' = Returning(N + 1)
    BY DEF PushNode
  <1>2. /\ IsSeq(calls) /\ n \in Nat \ {0} /\ DOMAIN calls = 1..n
        /\ IsSeq(nodes) /\ N \in Nat /\ DOMAIN nodes = 1..N
        /\ IsSeq(literals) /\ L \in Nat /\ DOMAIN literals = 1..L
    BY <1>1, IsSeqLen DEF BuilderInv, BuilderTypeOK
  <1>3. w \in Nat
    BY WidthTyped
  <1>4. r \in Seq(1..N) /\ r = calls[n].returned /\ Len(r) = Len(Operands(Current))
    BY <1>1, <1>2 DEF BuilderInv, BuilderTypeOK, Innermost, Ready
  <1>5. Children(node) = ToSet(r)
    BY <1>1, <1>4, NodeChildren
  <1>6. IsSeq(more) /\ LiteralsOf(node) = (L + 1)..(L + Len(more)) /\ Len(more) \in Nat
    <2> HIDE DEF w
    <2>1. IsSeq(more) /\ LiteralsOf(node) = (L + 1)..(L + Len(more))
      BY <1>1, <1>2, <1>3, NodeLiterals
    <2> QED
      BY <2>1, IsSeqLen
  <1> HIDE DEF w, node, more, r
  <1>7. /\ IsSeq(nodes') /\ Len(nodes') = N + 1 /\ DOMAIN nodes' = 1..(N + 1)
        /\ \A i \in 1..N : nodes'[i] = nodes[i]
        /\ nodes'[N + 1] = node
    <2>1. IsSeq(nodes') /\ Len(nodes') = N + 1
      BY <1>1, <1>2, AppendIsSeq
    <2> QED
      BY <1>1, <1>2, <2>1, AppendIsSeq, IsSeqLen
  <1>8. /\ IsSeq(literals') /\ Len(literals') = L + Len(more)
        /\ DOMAIN literals' = 1..(L + Len(more))
        /\ \A i \in 1..L : literals'[i] = literals[i]
        /\ \A i \in 1..Len(more) : literals'[L + i] = more[i]
    <2>1. /\ IsSeq(literals') /\ Len(literals') = L + Len(more)
          /\ \A i \in 1..L : literals'[i] = literals[i]
          /\ \A i \in 1..Len(more) : literals'[L + i] = more[i]
      BY <1>1, <1>2, <1>6, ConcatIsSeq
    <2> QED
      BY <2>1, IsSeqLen
  <1> n \in Nat /\ N \in Nat /\ L \in Nat
    BY <1>2
  <1>9. calls' = [i \in 1..(n - 1) |->
                    IF i < n - 1 THEN calls[i]
                    ELSE [calls[i] EXCEPT !.returned = Append(@, N + 1)]]
    BY <1>1 DEF Returning
  <1>10. IsSeq(calls') /\ Len(calls') = n - 1 /\ DOMAIN calls' = 1..(n - 1)
    <2>1. n - 1 \in Nat /\ calls' = [i \in 1..(n - 1) |-> calls'[i]]
      BY <1>2, <1>9
    <2> QED
      BY <2>1, FunctionIsSeq
  <1>11. \A i \in 1..(n - 2) : calls'[i] = calls[i]
    BY <1>2, <1>9
  <1>12. ASSUME n > 1
         PROVE  /\ calls'[n - 1] = [expr |-> calls[n - 1].expr,
                                    returned |-> Append(calls[n - 1].returned, N + 1)]
                /\ calls'[n - 1].expr = calls[n - 1].expr
                /\ calls'[n - 1].returned = Append(calls[n - 1].returned, N + 1)
    <2>1. n - 1 \in 1..(n - 1) /\ n - 1 \in 1..n /\ ~(n - 1 < n - 1)
      BY <1>2, <1>12
    <2>2. calls'[n - 1] = [calls[n - 1] EXCEPT !.returned = Append(calls[n - 1].returned, N + 1)]
      BY <1>9, <2>1
    <2>3. calls[n - 1] = [expr |-> calls[n - 1].expr, returned |-> calls[n - 1].returned]
      BY <1>2, <2>1 DEF BuilderInv, BuilderTypeOK
    <2> QED
      BY <2>2, <2>3
  <1>13. \A i \in 1..n : /\ calls[i].returned \in Seq(1..N)
                         /\ calls[i] = [expr |-> calls[i].expr, returned |-> calls[i].returned]
    BY <1>2 DEF BuilderInv, BuilderTypeOK
  <1>14. n > 1 => LET s == calls[n - 1].returned
                      s1 == calls'[n - 1].returned
                  IN  /\ s1 \in Seq(1..(N + 1)) /\ Len(s1) = Len(s) + 1 /\ Len(s) \in Nat
                      /\ s1[Len(s) + 1] = N + 1
                      /\ \A k \in 1..Len(s) : s1[k] = s[k] /\ s1[k] \in 1..N
    <2> SUFFICES ASSUME n > 1
                 PROVE  LET s == calls[n - 1].returned
                            s1 == calls'[n - 1].returned
                        IN  /\ s1 \in Seq(1..(N + 1)) /\ Len(s1) = Len(s) + 1 /\ Len(s) \in Nat
                            /\ s1[Len(s) + 1] = N + 1
                            /\ \A k \in 1..Len(s) : s1[k] = s[k] /\ s1[k] \in 1..N
      OBVIOUS
    <2> DEFINE s == calls[n - 1].returned
    <2>1. s \in Seq(1..N) /\ calls'[n - 1].returned = Append(s, N + 1)
      BY <1>2, <1>12, <1>13
    <2> HIDE DEF s
    <2>2. s \in Seq(1..(N + 1)) /\ N + 1 \in 1..(N + 1) /\ Len(s) \in Nat
      BY <1>2, <2>1
    <2>3. /\ Append(s, N + 1) \in Seq(1..(N + 1)) /\ Len(Append(s, N + 1)) = Len(s) + 1
          /\ Append(s, N + 1)[Len(s) + 1] = N + 1
          /\ \A k \in 1..Len(s) : Append(s, N + 1)[k] = s[k]
      BY <2>2
    <2>4. \A k \in 1..Len(s) : s[k] \in 1..N
      BY <2>1
    <2> QED
      BY <2>1, <2>2, <2>3, <2>4 DEF s
  <1> HIDE DEF n, N, L
  <1>15. ASSUME NEW i \in 1..(n - 1), NEW k \in DOMAIN calls'[i].returned
         PROVE  \/ /\ k \in DOMAIN calls[i].returned
                   /\ calls'[i].returned[k] = calls[i].returned[k]
                   /\ calls'[i].returned[k] \in 1..N
                \/ /\ i = n - 1 /\ k = Len(calls[i].returned) + 1
                   /\ calls'[i].returned[k] = N + 1
    <2>1. i \in 1..n /\ (i = n - 1 \/ i \in 1..(n - 2))
      OBVIOUS
    <2>2. CASE i = n - 1
      <3>1. n > 1
        BY <1>2, <2>2
      <3>2. /\ DOMAIN calls[n - 1].returned = 1..Len(calls[n - 1].returned)
            /\ DOMAIN calls'[n - 1].returned = 1..(Len(calls[n - 1].returned) + 1)
        BY <2>1, <2>2, <3>1, <1>2, <1>13, <1>14
      <3>3. k \in 1..Len(calls[n - 1].returned) \/ k = Len(calls[n - 1].returned) + 1
        BY <2>2, <3>1, <3>2, <1>14
      <3> QED
        BY <2>2, <3>1, <3>2, <3>3, <1>14
    <2>3. CASE i \in 1..(n - 2)
      <3>1. calls'[i] = calls[i] /\ calls[i].returned \in Seq(1..N)
        BY <2>1, <2>3, <1>11, <1>13
      <3>2. \A s \in Seq(1..N) : \A m \in DOMAIN s : s[m] \in 1..N
        OBVIOUS
      <3>3. k \in DOMAIN calls[i].returned
        BY <3>1
      <3> QED
        BY <3>1, <3>2, <3>3
    <2> QED
      BY <2>1, <2>2, <2>3
  <1>16. /\ n = Len(calls) /\ N = Len(nodes) /\ L = Len(literals) /\ r = Innermost.returned
         /\ w = (IF OnString(Current) THEN Column(table, ColumnSide(Current).name).maxLength ELSE 0)
         /\ node = NodeOf(Current, r, L + 1, w) /\ more = LiteralsFor(Current, w)
    BY DEF n, N, L, r, w, node, more
  <1>17. n > 1 => /\ calls'[n - 1] = [expr |-> calls'[n - 1].expr,
                                      returned |-> calls'[n - 1].returned]
                  /\ calls'[n - 1].expr = calls[n - 1].expr
    BY <1>12
  <1>18. PushEffect(table, n, N, L, r, w, node, more)
    BY <1>1, <1>2, <1>3, <1>4, <1>5, <1>6, <1>7, <1>8, <1>10, <1>11, <1>13, <1>14, <1>15, <1>16,
       <1>17 DEF PushEffect
  <1> QED
    BY <1>18

LEMMA PushNodeInv ==
  ASSUME BuilderInv, NEW table, PushNode(table)
  PROVE  BuilderInv'
  <1>0. PICK n, N, L, r, w, node, more : PushEffect(table, n, N, L, r, w, node, more)
    BY PushNodeEffect
  <1>1. calls # <<>> /\ Ready /\ ~CannotEncode(Current, table)
    BY <1>0 DEF PushEffect
  <1>2. /\ IsSeq(calls) /\ n \in Nat \ {0} /\ DOMAIN calls = 1..n
        /\ IsSeq(nodes) /\ N \in Nat /\ DOMAIN nodes = 1..N
        /\ IsSeq(literals) /\ L \in Nat /\ DOMAIN literals = 1..L
    BY <1>0 DEF PushEffect
  <1>4. r \in Seq(1..N) /\ r = calls[n].returned /\ Len(r) = Len(Operands(Current))
    BY <1>0 DEF PushEffect
  <1>5. Children(node) = ToSet(r)
    BY <1>0 DEF PushEffect
  <1>6. IsSeq(more) /\ LiteralsOf(node) = (L + 1)..(L + Len(more)) /\ Len(more) \in Nat
    BY <1>0 DEF PushEffect
  <1>7. /\ IsSeq(nodes') /\ Len(nodes') = N + 1 /\ DOMAIN nodes' = 1..(N + 1)
        /\ \A i \in 1..N : nodes'[i] = nodes[i]
        /\ nodes'[N + 1] = node
    BY <1>0 DEF PushEffect
  <1>8. /\ IsSeq(literals') /\ Len(literals') = L + Len(more)
        /\ DOMAIN literals' = 1..(L + Len(more))
        /\ \A i \in 1..L : literals'[i] = literals[i]
        /\ \A i \in 1..Len(more) : literals'[L + i] = more[i]
    BY <1>0 DEF PushEffect
  <1>10. IsSeq(calls') /\ Len(calls') = n - 1 /\ DOMAIN calls' = 1..(n - 1)
    BY <1>0 DEF PushEffect
  <1>11. \A i \in 1..(n - 2) : calls'[i] = calls[i]
    BY <1>0 DEF PushEffect
  <1>12. n > 1 => /\ calls'[n - 1] = [expr |-> calls'[n - 1].expr,
                                      returned |-> calls'[n - 1].returned]
                  /\ calls'[n - 1].expr = calls[n - 1].expr
    BY <1>0 DEF PushEffect
  <1>13. \A i \in 1..n : /\ calls[i].returned \in Seq(1..N)
                         /\ calls[i] = [expr |-> calls[i].expr, returned |-> calls[i].returned]
    BY <1>0 DEF PushEffect
  <1>14. n > 1 => LET s == calls[n - 1].returned
                      s1 == calls'[n - 1].returned
                  IN  /\ s1 \in Seq(1..(N + 1)) /\ Len(s1) = Len(s) + 1 /\ Len(s) \in Nat
                      /\ s1[Len(s) + 1] = N + 1
                      /\ \A k \in 1..Len(s) : s1[k] = s[k] /\ s1[k] \in 1..N
    BY <1>0 DEF PushEffect
  <1>17. \A i \in 1..(n - 1) : \A k \in DOMAIN calls'[i].returned :
            \/ /\ k \in DOMAIN calls[i].returned
               /\ calls'[i].returned[k] = calls[i].returned[k]
               /\ calls'[i].returned[k] \in 1..N
            \/ /\ i = n - 1 /\ k = Len(calls[i].returned) + 1
               /\ calls'[i].returned[k] = N + 1
    BY <1>0 DEF PushEffect
  <1>a. n \in Nat /\ N \in Nat /\ L \in Nat
    BY <1>2
  <1>15. BuilderTypeOK'
    <2>1. IsSeq(calls)' /\ IsSeq(nodes)' /\ IsSeq(literals)'
      BY <1>7, <1>8, <1>10 DEF IsSeq
    <2>2. ASSUME NEW i \in 1..(n - 1)
          PROVE  /\ calls'[i] = [expr |-> calls'[i].expr, returned |-> calls'[i].returned]
                 /\ calls'[i].returned \in Seq(1..(N + 1))
      <3>1. CASE i = n - 1
        <4>1. n > 1
          BY <1>2, <3>1
        <4>2. calls'[n - 1] = [expr |-> calls'[n - 1].expr, returned |-> calls'[n - 1].returned]
          BY <4>1, <1>12
        <4>3. calls'[n - 1].returned \in Seq(1..(N + 1))
          BY <4>1, <1>14
        <4> QED
          BY <3>1, <4>2, <4>3, <1>a
      <3>2. CASE i \in 1..(n - 2)
        <4>1. \A s \in Seq(1..N) : s \in Seq(1..(N + 1))
          BY <1>2
        <4> QED
          BY <3>2, <4>1, <1>2, <1>11, <1>13
      <3> QED
        BY <3>1, <3>2, <1>2
    <2> QED
      BY <1>7, <1>10, <2>1, <2>2 DEF BuilderTypeOK
  <1>16. CallsWait'
    <2>1. ASSUME NEW i \in 1..(n - 1)
          PROVE  /\ Len(calls'[i].returned) <= Len(Operands(calls'[i].expr))
                 /\ i < n - 1 => Len(calls'[i].returned) < Len(Operands(calls'[i].expr))
      <3> i \in 1..n /\ i < n
        BY <1>2
      <3>1. Len(calls[i].returned) < Len(Operands(calls[i].expr)) /\ Len(calls[i].returned) \in Nat
        BY <1>0, <1>2, ReturnedTyped DEF BuilderInv, CallsWait, PushEffect
      <3>2. CASE i = n - 1
        <4>1. n > 1
          BY <1>2, <3>2
        <4>2. /\ calls'[i].expr = calls[i].expr
              /\ Len(calls'[i].returned) = Len(calls[i].returned) + 1
          BY <3>2, <4>1, <1>12, <1>14
        <4> QED
          BY <3>1, <3>2, <4>2, <1>2, OperandsTyped
      <3>3. CASE i \in 1..(n - 2)
        <4>1. calls'[i] = calls[i]
          BY <3>3, <1>11
        <4>2. Len(Operands(calls[i].expr)) \in Nat
          BY OperandsTyped
        <4> QED
          BY <3>1, <4>1, <4>2
      <3> QED
        BY <3>2, <3>3, <1>2
    <2> QED
      BY <1>10, <2>1 DEF CallsWait
  <1>18. HeldOnce'
    <2>1. ASSUME NEW i \in 1..(n - 1), NEW j \in 1..(n - 1),
                 NEW k \in DOMAIN calls'[i].returned, NEW l \in DOMAIN calls'[j].returned,
                 calls'[i].returned[k] = calls'[j].returned[l]
          PROVE  i = j /\ k = l
      <3>1. i \in DOMAIN calls /\ j \in DOMAIN calls
        BY <1>2
      <3>2. \A v \in 1..N : v # N + 1
        BY <1>2
      <3>3. /\ k \in DOMAIN calls[i].returned <=> calls'[i].returned[k] \in 1..N
            /\ l \in DOMAIN calls[j].returned <=> calls'[j].returned[l] \in 1..N
        <4>1. \A m \in DOMAIN calls : DOMAIN calls[m].returned = 1..Len(calls[m].returned)
                                       /\ Len(calls[m].returned) \in Nat
          BY <1>2, <1>13
        <4> QED
          BY <3>1, <3>2, <4>1, <1>17
      <3>4. CASE calls'[i].returned[k] \in 1..N
        BY <2>1, <3>1, <3>2, <3>3, <3>4, <1>17 DEF BuilderInv, HeldOnce
      <3>5. CASE calls'[i].returned[k] \notin 1..N
        BY <2>1, <3>3, <3>5, <1>17
      <3> QED
        BY <3>4, <3>5
    <2> QED
      BY <1>10, <2>1 DEF HeldOnce
  <1>19. \A c \in 1..(N + 1) :
            HasParent(nodes', c) <=> HasParent(nodes, c) \/ c \in ToSet(r)
    <2>1. \A c : HasParent(nodes', c) <=> \E m \in 1..(N + 1) : c \in Children(nodes'[m])
      BY <1>7 DEF HasParent
    <2>2. \A c : HasParent(nodes, c) <=> \E m \in 1..N : c \in Children(nodes[m])
      BY <1>2 DEF HasParent
    <2>3. 1..(N + 1) = (1..N) \cup {N + 1}
      BY <1>2
    <2> QED
      BY <1>5, <1>7, <2>1, <2>2, <2>3
  <1>20. \A c \in 1..N : Held(c) <=> ~HasParent(nodes, c)
    BY <1>1, <1>2 DEF BuilderInv, Owned
  <1>b. ToSet(r) \subseteq 1..N
    <2>1. \A s \in Seq(1..N) : \A m \in DOMAIN s : s[m] \in 1..N
      BY <1>a
    <2> QED
      BY <1>4, <2>1 DEF ToSet
  <1>21. ~HasParent(nodes, N + 1) /\ N + 1 \notin ToSet(r)
    <2>1. \A m \in 1..N : Children(nodes[m]) \subseteq 1..(m - 1)
      BY <1>2 DEF BuilderInv, ChildrenFirst
    <2>2. \A m \in 1..N : N + 1 \notin 1..(m - 1)
      BY <1>a
    <2>3. N + 1 \notin 1..N
      BY <1>a
    <2> QED
      BY <1>2, <1>b, <2>1, <2>2, <2>3 DEF HasParent
  <1>22. ASSUME NEW c \in 1..N
         PROVE  Held(c)' <=> Held(c) /\ c \notin ToSet(r)
    <2>0. c # N + 1 /\ n \in 1..n /\ 1..(n - 1) \subseteq 1..n
      BY <1>a, <1>2
    <2>1. ASSUME NEW i \in 1..(n - 1)
          PROVE  c \in ToSet(calls'[i].returned) <=> c \in ToSet(calls[i].returned)
      <3>1. c \in ToSet(calls'[i].returned) => c \in ToSet(calls[i].returned)
        BY <1>17, <2>0 DEF ToSet
      <3>2. CASE i = n - 1
        <4>1. n > 1 /\ i \in 1..n
          BY <1>a, <3>2
        <4>2. /\ DOMAIN calls[i].returned \subseteq DOMAIN calls'[i].returned
              /\ \A m \in DOMAIN calls[i].returned : calls'[i].returned[m] = calls[i].returned[m]
          <5>1. /\ DOMAIN calls[n - 1].returned = 1..Len(calls[n - 1].returned)
                /\ DOMAIN calls'[n - 1].returned = 1..(Len(calls[n - 1].returned) + 1)
            BY <3>2, <4>1, <1>a, <1>13, <1>14
          <5> QED
            BY <3>2, <4>1, <5>1, <1>14
        <4> QED
          BY <3>1, <4>2 DEF ToSet
      <3>3. CASE i \in 1..(n - 2)
        BY <3>3, <1>11
      <3>4. i = n - 1 \/ i \in 1..(n - 2)
        BY <1>a
      <3> QED
        BY <3>2, <3>3, <3>4
    <2>2. Held(c)' <=> \E i \in 1..(n - 1) : c \in ToSet(calls[i].returned)
      BY <1>10, <2>1 DEF Held
    <2>3. Held(c) <=> (\E i \in 1..(n - 1) : c \in ToSet(calls[i].returned)) \/ c \in ToSet(r)
      <3>1. 1..n = 1..(n - 1) \cup {n}
        BY <1>a, <2>0
      <3> QED
        BY <1>2, <1>4, <3>1 DEF Held
    <2>4. c \in ToSet(r) => ~ \E i \in 1..(n - 1) : c \in ToSet(calls[i].returned)
      <3>1. \A i \in 1..(n - 1) : i # n /\ i \in DOMAIN calls /\ n \in DOMAIN calls
        BY <1>a, <1>2, <2>0
      <3> QED
        BY <1>4, <3>1 DEF BuilderInv, HeldOnce, ToSet
    <2> QED
      BY <2>2, <2>3, <2>4
  <1>23. Owned'
    <2> DEFINE HeldNext(c) == \E i \in DOMAIN calls' : c \in ToSet(calls'[i].returned)
    <2>1. ASSUME NEW c \in 1..N
          PROVE  HasParent(nodes', c) <=> ~(IF calls' = <<>> THEN c = N + 1 ELSE HeldNext(c))
      <3>1. c \in 1..(N + 1) /\ c # N + 1
        BY <1>a
      <3>2. HasParent(nodes', c) <=> ~HeldNext(c)
        BY <3>1, <1>19, <1>20, <1>22 DEF Held
      <3>3. calls' = <<>> => ~HeldNext(c)
        OBVIOUS
      <3> QED
        BY <3>1, <3>2, <3>3
    <2>2. HasParent(nodes', N + 1) <=> ~(IF calls' = <<>> THEN N + 1 = N + 1 ELSE HeldNext(N + 1))
      <3>1. ~HasParent(nodes', N + 1)
        BY <1>a, <1>19, <1>21
      <3>2. CASE calls' # <<>>
        <4>1. n > 1 /\ n - 1 \in DOMAIN calls'
          BY <3>2, <1>a, <1>10, IsSeqLen
        <4>2. N + 1 \in ToSet(calls'[n - 1].returned)
          <5>1. Len(calls[n - 1].returned) + 1 \in DOMAIN calls'[n - 1].returned
            BY <4>1, <1>14
          <5> QED
            BY <4>1, <5>1, <1>14 DEF ToSet
        <4>3. HeldNext(N + 1)
          BY <4>1, <4>2
        <4> QED
          BY <3>1, <3>2, <4>3
      <3> QED
        BY <3>1, <3>2
    <2>3. 1..(N + 1) = 1..N \cup {N + 1}
      BY <1>a
    <2> QED
      BY <1>7, <2>1, <2>2, <2>3 DEF Owned, Held
  <1>24. ChildrenFirst(nodes')
    <2>1. 1..(N + 1) = 1..N \cup {N + 1} /\ (N + 1) - 1 = N
      BY <1>a
    <2> QED
      BY <1>2, <1>5, <1>7, <1>b, <2>1 DEF BuilderInv, ChildrenFirst
  <1>25. OneParent(nodes')
    <2>1. ASSUME NEW m \in 1..N
          PROVE  Children(nodes[m]) \cap Children(node) = {}
      <3>1. \A c \in ToSet(r) : c \in 1..N /\ Held(c)
        <4>1. n \in DOMAIN calls
          BY <1>2
        <4> QED
          BY <1>4, <1>b, <4>1 DEF Held
      <3> QED
        BY <1>2, <1>5, <1>20, <3>1 DEF HasParent
    <2>2. 1..(N + 1) = 1..N \cup {N + 1}
      BY <1>a
    <2> QED
      BY <1>2, <1>7, <2>1, <2>2 DEF BuilderInv, OneParent
  <1>26. LiteralsOwned(nodes', literals')
    <2>1. 1..(N + 1) = 1..N \cup {N + 1}
      BY <1>a
    <2>2. /\ 1..(L + Len(more)) = 1..L \cup ((L + 1)..(L + Len(more)))
          /\ 1..L \cap ((L + 1)..(L + Len(more))) = {}
      BY <1>a, <1>6
    <2>3. /\ \A m \in 1..N : LiteralsOf(nodes[m]) \subseteq 1..L
          /\ \A m, k \in 1..N : m # k => LiteralsOf(nodes[m]) \cap LiteralsOf(nodes[k]) = {}
          /\ \A i \in 1..L : \E m \in 1..N : i \in LiteralsOf(nodes[m])
      BY <1>2 DEF BuilderInv, LiteralsOwned
    <2>4. \A m \in 1..(N + 1) : LiteralsOf(nodes'[m]) \subseteq 1..(L + Len(more))
      BY <1>6, <1>7, <2>1, <2>2, <2>3
    <2>5. \A m, k \in 1..(N + 1) : m # k => LiteralsOf(nodes'[m]) \cap LiteralsOf(nodes'[k]) = {}
      BY <1>6, <1>7, <2>1, <2>2, <2>3
    <2>6. \A i \in 1..(L + Len(more)) : \E m \in 1..(N + 1) : i \in LiteralsOf(nodes'[m])
      BY <1>6, <1>7, <2>1, <2>2, <2>3
    <2> QED
      BY <1>7, <1>8, <2>4, <2>5, <2>6 DEF LiteralsOwned
  <1> QED
    BY <1>15, <1>16, <1>18, <1>23, <1>24, <1>25, <1>26 DEF BuilderInv

-----------------------------------------------------------------------------
(* The control: where the client is when it has reached a stage.           *)
LEMMA ReachedStages ==
  /\ Reached("printed") <=> pc = "printed"
  /\ Reached("decoded") <=> pc \in {"decoded", "sorted", "printed"}
  /\ Reached("answered") <=> pc \in {"answered", "decoded", "sorted", "printed"}
  /\ Reached("encrypted") <=> pc \in {"encrypted", "answered", "decoded", "sorted", "printed"}
  /\ Reached("planned") <=> pc \in {"planned", "building", "encrypted", "answered", "decoded",
                                    "sorted", "printed"}
  /\ Reached("parsed") <=> pc \in {"parsed", "analyzed", "planned", "building", "encrypted",
                                   "answered", "decoded", "sorted", "printed"}
  <1>1. DOMAIN Progress = 1..10
    BY DEF Progress
  <1>2. \A i \in 1..10 : i \in {1, 2, 3, 4, 5, 6, 7, 8, 9, 10}
    OBVIOUS
  <1>3. /\ Progress[1] = "prompt" /\ Progress[2] = "parsed" /\ Progress[3] = "analyzed"
        /\ Progress[4] = "planned" /\ Progress[5] = "building" /\ Progress[6] = "encrypted"
        /\ Progress[7] = "answered" /\ Progress[8] = "decoded" /\ Progress[9] = "sorted"
        /\ Progress[10] = "printed"
    BY DEF Progress
  <1>4. Reached("printed") <=> pc = "printed"
    BY <1>1, <1>2, <1>3 DEF Reached
  <1>5. Reached("decoded") <=> pc \in {"decoded", "sorted", "printed"}
    BY <1>1, <1>2, <1>3 DEF Reached
  <1>6. Reached("answered") <=> pc \in {"answered", "decoded", "sorted", "printed"}
    BY <1>1, <1>2, <1>3 DEF Reached
  <1>7. Reached("encrypted") <=> pc \in {"encrypted", "answered", "decoded", "sorted", "printed"}
    BY <1>1, <1>2, <1>3 DEF Reached
  <1>8. Reached("planned") <=> pc \in {"planned", "building", "encrypted", "answered",
                                       "decoded", "sorted", "printed"}
    BY <1>1, <1>2, <1>3 DEF Reached
  <1>9. Reached("parsed") <=> pc \in {"parsed", "analyzed", "planned", "building", "encrypted",
                                      "answered", "decoded", "sorted", "printed"}
    BY <1>1, <1>2, <1>3 DEF Reached
  <1> QED
    BY <1>4, <1>5, <1>6, <1>7, <1>8, <1>9

LEMMA NoBuildInv ==
  ASSUME NoBuild
  PROVE  BuilderInv'
  <1>1. calls' = <<>> /\ nodes' = <<>> /\ literals' = <<>>
    BY DEF NoBuild
  <1>2. BuilderTypeOK'
    BY <1>1, EmptyIsSeq DEF BuilderTypeOK, IsSeq
  <1>3. CallsWait' /\ HeldOnce' /\ Owned'
    BY <1>1 DEF CallsWait, HeldOnce, Owned
  <1>4. ChildrenFirst(nodes') /\ OneParent(nodes') /\ LiteralsOwned(nodes', literals')
    BY <1>1 DEF ChildrenFirst, OneParent, LiteralsOwned
  <1> QED
    BY <1>2, <1>3, <1>4 DEF BuilderInv

LEMMA SameBuilderInv ==
  ASSUME BuilderInv, UNCHANGED builder
  PROVE  BuilderInv'
  <1>1. calls' = calls /\ nodes' = nodes /\ literals' = literals
    BY DEF builder
  <1> QED
    BY <1>1 DEF BuilderInv, BuilderTypeOK, IsSeq, CallsWait, HeldOnce, Owned, Held

(* Either the step does not build and is not followed by building, or it   *)
(* is one of those that do.                                                *)
LEMMA BuildingStep ==
  ASSUME BuildingInv, [Next]_vars
  PROVE  BuildingInv'
  <1>1. BuilderInv /\ (pc = "building" => stmt.where # NoExpr /\ (calls # <<>> \/ nodes # <<>>))
    BY DEF BuildingInv
  <1>2. CASE pc' # "building" /\ (UNCHANGED builder \/ NoBuild)
    BY <1>1, <1>2, NoBuildInv, SameBuilderInv DEF BuildingInv
  <1>3. CASE ReadStatement \/ PlanStatement \/ SortRows \/ PrintRows
    BY <1>2, <1>3 DEF ReadStatement, PlanStatement, SortRows, PrintRows
  <1>4. CASE AnalyzeStatement
    BY <1>2, <1>4 DEF AnalyzeStatement, Fail
  <1>5. CASE EncryptStatement
    <2>1. CASE pc' = "building"
      <3>1. stmt.where # NoExpr /\ StartBuild(stmt.where) /\ UNCHANGED stmt
        BY <1>5, <2>1 DEF EncryptStatement, Encrypted, Fail
      <3>2. BuilderInv'
        BY <3>1, StartBuildInv
      <3> QED
        BY <3>1, <3>2 DEF BuildingInv, StartBuild
    <2>2. CASE pc' # "building"
      BY <1>2, <1>5, <2>2 DEF EncryptStatement, Encrypted, Fail
    <2> QED
      BY <2>1, <2>2
  <1>6. CASE BuildPredicate
    <2>1. CASE Throws(plan.table) /\ Fail("exited", "encrypt")
      BY <1>2, <2>1 DEF Fail
    <2>2. CASE (CallForOperand \/ PushNode(plan.table)) /\ UNCHANGED <<pc, stmt>>
      <3>1. BuilderInv'
        BY <1>1, <2>2, CallForOperandInv, PushNodeInv
      <3>2. calls' # <<>> \/ nodes' # <<>>
        <4>1. IsSeq(calls) /\ IsSeq(nodes)
          BY <1>1 DEF BuilderInv, BuilderTypeOK
        <4>2. \A s, x : IsSeq(s) => Append(s, x) # <<>>
          BY AppendIsSeq, IsSeqLen
        <4> QED
          BY <2>2, <4>1, <4>2 DEF CallForOperand, PushNode
      <3> QED
        BY <1>1, <1>6, <2>2, <3>1, <3>2 DEF BuildingInv, BuildPredicate
    <2> QED
      BY <1>6, <2>1, <2>2 DEF BuildPredicate
  <1>7. CASE PredicateBuilt
    BY <1>2, <1>7 DEF PredicateBuilt, Encrypted
  <1>8. CASE Serve \/ NetworkFails
    BY <1>2, <1>8 DEF Serve, NetworkFails, Fail
  <1>9. CASE DecodeBatches
    BY <1>2, <1>9 DEF DecodeBatches, Fail
  <1>10. CASE NextPrompt \/ Exit \/ StartClient
    BY <1>2, <1>10 DEF NextPrompt, Exit, StartClient, AtPrompt, Fail
  <1>11. CASE UNCHANGED vars
    BY <1>1, <1>11, SameBuilderInv DEF vars, builder, BuildingInv
  <1> QED
    BY <1>3, <1>4, <1>5, <1>6, <1>7, <1>8, <1>9, <1>10, <1>11 DEF Next

(* While the WHERE clause is encrypted, the nodes nobody refers to yet are *)
(* exactly those the activations of buildPredNode hold, each in one place, *)
(* and every literal belongs to one node (query_encryptor.cpp:103-225).    *)
THEOREM BuildingInvariant == Spec => []BuildingInv
  <1>1. Init => BuildingInv
    BY NothingBuilt DEF Init, BuildingInv
  <1>2. BuildingInv /\ [Next]_vars => BuildingInv'
    BY BuildingStep
  <1> QED
    BY <1>1, <1>2, PTL DEF Spec

-----------------------------------------------------------------------------
(* What is sent when the recursion has ended.                              *)
OneTree(ns, ls) ==
  /\ ChildrenFirst(ns)
  /\ \A c \in 1..(Len(ns) - 1) :
        Cardinality({n \in DOMAIN ns : c \in Children(ns[n])}) = 1
  /\ \A i \in DOMAIN ls : Cardinality({n \in DOMAIN ns : i \in LiteralsOf(ns[n])}) = 1
  /\ \A n \in DOMAIN ns : LiteralsOf(ns[n]) \subseteq DOMAIN ls

LEMMA NoTree == OneTree(<<>>, <<>>)
  BY DEF OneTree, ChildrenFirst

LEMMA CompleteTree ==
  ASSUME BuilderInv, calls = <<>>
  PROVE  OneTree(nodes, literals)
  <1>1. Len(nodes) \in Nat /\ DOMAIN nodes = 1..Len(nodes)
    BY IsSeqLen DEF BuilderInv, BuilderTypeOK
  <1>2. ASSUME NEW c \in 1..(Len(nodes) - 1)
        PROVE  Cardinality({n \in DOMAIN nodes : c \in Children(nodes[n])}) = 1
    <2>1. c \in DOMAIN nodes /\ c # Len(nodes)
      <3> DEFINE N == Len(nodes)
      <3> N \in Nat /\ DOMAIN nodes = 1..N
        BY <1>1
      <3> HIDE DEF N
      <3>1. \A k \in 1..(N - 1) : k \in 1..N /\ k # N
        OBVIOUS
      <3> QED
        BY <3>1 DEF N
    <2>2. PICK n \in DOMAIN nodes : c \in Children(nodes[n])
      BY <2>1 DEF BuilderInv, Owned, HasParent
    <2>3. {m \in DOMAIN nodes : c \in Children(nodes[m])} = {n}
      BY <2>2 DEF BuilderInv, OneParent
    <2> QED
      BY <2>3, FS_Singleton
  <1>3. ASSUME NEW i \in DOMAIN literals
        PROVE  Cardinality({n \in DOMAIN nodes : i \in LiteralsOf(nodes[n])}) = 1
    <2>1. PICK n \in DOMAIN nodes : i \in LiteralsOf(nodes[n])
      BY DEF BuilderInv, LiteralsOwned
    <2>2. {m \in DOMAIN nodes : i \in LiteralsOf(nodes[m])} = {n}
      BY <2>1 DEF BuilderInv, LiteralsOwned
    <2> QED
      BY <2>2, FS_Singleton
  <1> QED
    BY <1>2, <1>3 DEF OneTree, BuilderInv, LiteralsOwned

Sent == pc \in {"encrypted", "answered", "decoded", "sorted", "printed"}

LEMMA TreeSent == PackageIsOneTree <=> (Sent => OneTree(pkg.nodes, pkg.literals))
  BY ReachedStages DEF PackageIsOneTree, OneTree, Sent

LEMMA PackageStep ==
  ASSUME BuildingInv, PackageIsOneTree, [Next]_vars
  PROVE  PackageIsOneTree'
  <1>1. /\ PackageIsOneTree <=> (Sent => OneTree(pkg.nodes, pkg.literals))
        /\ PackageIsOneTree' <=> (Sent => OneTree(pkg.nodes, pkg.literals))'
    BY TreeSent, PTL
  <1>2. CASE UNCHANGED pkg /\ (Sent' => Sent)
    BY <1>1, <1>2
  <1>3. CASE ~Sent'
    BY <1>1, <1>3
  <1>4. ASSUME NEW ns, NEW ls, pkg' = Package(plan, ns, ls, ClientParams), OneTree(ns, ls)
        PROVE  PackageIsOneTree'
    BY <1>1, <1>4 DEF Package
  <1>5. CASE ReadStatement \/ AnalyzeStatement \/ PlanStatement
    BY <1>3, <1>5 DEF ReadStatement, AnalyzeStatement, PlanStatement, Fail, Sent
  <1>6. CASE EncryptStatement
    <2>1. CASE Encrypted(<<>>, <<>>)
      BY <2>1, <1>4, NoTree DEF Encrypted
    <2>2. CASE ~Encrypted(<<>>, <<>>)
      BY <1>3, <1>6, <2>2 DEF EncryptStatement, Fail, Sent
    <2> QED
      BY <2>1, <2>2
  <1>7. CASE BuildPredicate
    BY <1>3, <1>7 DEF BuildPredicate, Fail, Sent
  <1>8. CASE PredicateBuilt
    <2>1. OneTree(nodes, literals)
      BY <1>8, CompleteTree DEF PredicateBuilt, BuildingInv
    <2> QED
      BY <1>8, <2>1, <1>4 DEF PredicateBuilt, Encrypted
  <1>9. CASE Serve \/ NetworkFails
    BY <1>2, <1>3, <1>9 DEF Serve, NetworkFails, Fail, Sent, results
  <1>10. CASE DecodeBatches
    BY <1>2, <1>3, <1>10 DEF DecodeBatches, Fail, Sent, results
  <1>11. CASE SortRows \/ PrintRows
    BY <1>2, <1>11 DEF SortRows, PrintRows, Sent
  <1>12. CASE NextPrompt \/ Exit \/ StartClient
    BY <1>3, <1>12 DEF NextPrompt, Exit, StartClient, AtPrompt, Fail, Sent
  <1>13. CASE UNCHANGED vars
    BY <1>2, <1>13 DEF vars, results, Sent
  <1> QED
    BY <1>5, <1>6, <1>7, <1>8, <1>9, <1>10, <1>11, <1>12, <1>13 DEF Next

(* Every package the client sends is self-contained: its nodes are one     *)
(* tree with the root last and children before parents, and each encrypted *)
(* literal is used by exactly one node (query_encryptor.cpp:103-225).      *)
THEOREM PackagesAreTrees == Spec => []PackageIsOneTree
  <1>1. Init => PackageIsOneTree
    BY TreeSent DEF Init, Sent
  <1>2. BuildingInv /\ PackageIsOneTree /\ [Next]_vars => PackageIsOneTree'
    BY PackageStep
  <1> QED
    BY <1>1, <1>2, BuildingInvariant, PTL DEF Spec

-----------------------------------------------------------------------------
(* The package encodes the clause: src maps each node to the expression it *)
(* was built for, r to the nodes of its operands; its literals follow l.   *)
EncodedWidth(e, table) ==
  IF OnString(e) THEN Column(table, ColumnSide(e).name).maxLength ELSE 0

BuiltWith(e, n, node, ls, src, table, r, l) ==
  /\ ~CannotEncode(e, table)
  /\ node = NodeOf(e, r, l + 1, EncodedWidth(e, table))
  /\ l \in Nat
  /\ \A k \in 1..Len(LiteralsFor(e, EncodedWidth(e, table))) :
        l + k \in DOMAIN ls /\ ls[l + k] = LiteralsFor(e, EncodedWidth(e, table))[k]
  /\ Len(r) = Len(Operands(e))
  /\ \A k \in 1..Len(Operands(e)) : r[k] \in 1..(n - 1) /\ src[r[k]] = Operands(e)[k]
BuiltFor(e, n, node, ls, src, table) ==
  \E r, l : BuiltWith(e, n, node, ls, src, table, r, l)

Encodes(src, ns, ls, table) ==
  /\ DOMAIN src = DOMAIN ns
  /\ \A n \in DOMAIN ns : BuiltFor(src[n], n, ns[n], ls, src, table)

(* The activations and what they have returned are parts of the clause.    *)
CallsEncode(src, where) ==
  /\ \A i \in DOMAIN calls : \A k \in DOMAIN calls[i].returned :
        src[calls[i].returned[k]] = Operands(calls[i].expr)[k]
  /\ \A i \in 1..(Len(calls) - 1) :
        calls[i + 1].expr = Operands(calls[i].expr)[Len(calls[i].returned) + 1]
  /\ IF calls # <<>> THEN calls[1].expr = where
     ELSE nodes # <<>> => src[Len(nodes)] = where
Encoding(src, where, table) == Encodes(src, nodes, literals, table) /\ CallsEncode(src, where)

LEMMA StartBuildEncodes ==
  ASSUME NEW where, NEW table, StartBuild(where)
  PROVE  \E src : Encoding(src, where, table)'
  <1>1. calls' = <<Call(where)>> /\ nodes' = <<>> /\ literals' = <<>>
    BY DEF StartBuild
  <1>2. /\ Len(calls') = 1 /\ DOMAIN calls' = 1..1 /\ calls' # <<>>
        /\ calls'[1] = [expr |-> where, returned |-> <<>>]
    BY <1>1, SingleIsSeq DEF Call
  <1>3. calls'[1].expr = where /\ DOMAIN calls'[1].returned = {}
    BY <1>2
  <1>4. CallsEncode(<<>>, where)'
    BY <1>2, <1>3 DEF CallsEncode
  <1>5. Encodes(<<>>, nodes', literals', table)
    BY <1>1 DEF Encodes
  <1>6. Encoding(<<>>, where, table)'
    BY <1>4, <1>5 DEF Encoding
  <1> QED
    BY <1>6

LEMMA CallForOperandEncodes ==
  ASSUME BuilderInv, NEW src, NEW where, NEW table, Encoding(src, where, table), CallForOperand
  PROVE  Encoding(src, where, table)'
  <1> DEFINE n == Len(calls)
             e == Operands(calls[n].expr)[Len(calls[n].returned) + 1]
  <1>1. /\ calls # <<>> /\ calls' = Append(calls, Call(e))
        /\ nodes' = nodes /\ literals' = literals
    BY DEF CallForOperand, Current, Innermost
  <1>2. IsSeq(calls) /\ n \in Nat \ {0} /\ DOMAIN calls = 1..n
    BY <1>1, IsSeqLen DEF BuilderInv, BuilderTypeOK
  <1> HIDE DEF e
  <1>3. /\ IsSeq(calls') /\ Len(calls') = n + 1 /\ DOMAIN calls' = 1..(n + 1)
        /\ \A i \in 1..n : calls'[i] = calls[i]
        /\ calls'[n + 1] = [expr |-> e, returned |-> <<>>]
    <2>1. IsSeq(calls') /\ Len(calls') = n + 1
      BY <1>1, <1>2, AppendIsSeq
    <2> QED
      BY <1>1, <1>2, <2>1, AppendIsSeq, IsSeqLen DEF Call
  <1>4. calls'[n + 1].expr = e /\ DOMAIN calls'[n + 1].returned = {} /\ calls' # <<>>
    BY <1>2, <1>3, IsSeqLen
  <1>5. CallsEncode(src, where)
    BY DEF Encoding
  <1>6. CallsEncode(src, where)'
    <2> n \in Nat
      BY <1>2
    <2>1. \A i \in 1..(n + 1) : i = n + 1 \/ i \in 1..n
      OBVIOUS
    <2>2. \A i \in 1..n : i + 1 \in 1..(n + 1) /\ (i = n \/ (i \in 1..(n - 1) /\ i + 1 \in 1..n))
      OBVIOUS
    <2>3. \A i \in 1..n :
             calls'[i + 1].expr = Operands(calls'[i].expr)[Len(calls'[i].returned) + 1]
      BY <1>3, <1>4, <1>5, <2>2 DEF CallsEncode, e
    <2>4. \A i \in 1..(n + 1) : \A k \in DOMAIN calls'[i].returned :
             src[calls'[i].returned[k]] = Operands(calls'[i].expr)[k]
      <3>1. \A i \in 1..n : \A k \in DOMAIN calls[i].returned :
               src[calls[i].returned[k]] = Operands(calls[i].expr)[k]
        BY <1>2, <1>5 DEF CallsEncode
      <3> QED
        BY <1>3, <1>4, <2>1, <3>1
    <2>5. calls'[1].expr = where
      BY <1>1, <1>2, <1>3, <1>5 DEF CallsEncode
    <2>6. (n + 1) - 1 = n
      OBVIOUS
    <2> QED
      BY <1>3, <1>4, <2>3, <2>4, <2>5, <2>6 DEF CallsEncode
  <1>7. Encodes(src, nodes, literals, table)'
    BY <1>1 DEF Encoding, Encodes
  <1> QED
    BY <1>6, <1>7 DEF Encoding

(* A node once pushed stays as it is, and so does what it was built for.   *)
LEMMA StillBuiltFor ==
  ASSUME NEW e, NEW n, NEW node, NEW ls, NEW ls1, NEW src, NEW src1, NEW table,
         BuiltFor(e, n, node, ls, src, table),
         \A i \in DOMAIN ls : i \in DOMAIN ls1 /\ ls1[i] = ls[i],
         \A m \in 1..(n - 1) : src1[m] = src[m]
  PROVE  BuiltFor(e, n, node, ls1, src1, table)
  <1>1. PICK r, l : BuiltWith(e, n, node, ls, src, table, r, l)
    BY DEF BuiltFor
  <1>2. BuiltWith(e, n, node, ls1, src1, table, r, l)
    BY <1>1 DEF BuiltWith
  <1> QED
    BY <1>2 DEF BuiltFor

LEMMA PushNodeEncodes ==
  ASSUME BuilderInv, NEW src, NEW where, NEW table, Encoding(src, where, table), PushNode(table)
  PROVE  \E src1 : Encoding(src1, where, table)'
  <1>0. PICK n, N, L, r, w, node, more : PushEffect(table, n, N, L, r, w, node, more)
    BY PushNodeEffect
  <1>1. /\ n = Len(calls) /\ n \in Nat \ {0} /\ DOMAIN calls = 1..n
        /\ N = Len(nodes) /\ N \in Nat /\ DOMAIN nodes = 1..N
        /\ L = Len(literals) /\ L \in Nat /\ DOMAIN literals = 1..L
    BY <1>0 DEF PushEffect
  <1>2. /\ calls # <<>> /\ ~CannotEncode(Current, table) /\ Len(more) \in Nat
        /\ more = LiteralsFor(Current, w) /\ w = EncodedWidth(Current, table)
        /\ node = NodeOf(Current, r, L + 1, w) /\ r = calls[n].returned
        /\ r \in Seq(1..N) /\ Len(r) = Len(Operands(Current)) /\ Current = calls[n].expr
    BY <1>0 DEF PushEffect, EncodedWidth, Current, Innermost
  <1>3. /\ Len(nodes') = N + 1 /\ DOMAIN nodes' = 1..(N + 1)
        /\ \A i \in 1..N : nodes'[i] = nodes[i]
        /\ nodes'[N + 1] = node
    BY <1>0 DEF PushEffect
  <1>4. /\ DOMAIN literals' = 1..(L + Len(more))
        /\ \A i \in 1..L : literals'[i] = literals[i]
        /\ \A i \in 1..Len(more) : literals'[L + i] = more[i]
    BY <1>0 DEF PushEffect
  <1>5. /\ IsSeq(calls') /\ Len(calls') = n - 1 /\ DOMAIN calls' = 1..(n - 1)
        /\ \A i \in 1..(n - 2) : calls'[i] = calls[i]
        /\ n > 1 => calls'[n - 1].expr = calls[n - 1].expr
    BY <1>0 DEF PushEffect
  <1>6. \A i \in 1..(n - 1) : \A k \in DOMAIN calls'[i].returned :
            \/ /\ k \in DOMAIN calls[i].returned
               /\ calls'[i].returned[k] = calls[i].returned[k]
               /\ calls'[i].returned[k] \in 1..N
            \/ /\ i = n - 1 /\ k = Len(calls[i].returned) + 1
               /\ calls'[i].returned[k] = N + 1
    BY <1>0 DEF PushEffect
  <1>7. CallsEncode(src, where) /\ Encodes(src, nodes, literals, table)
    BY DEF Encoding
  <1> n \in Nat /\ N \in Nat /\ L \in Nat /\ Len(more) \in Nat
    BY <1>1, <1>2
  <1>8. PICK src1 : /\ src1[N + 1] = Current /\ DOMAIN src1 = 1..(N + 1)
                    /\ \A m \in 1..N : src1[m] = src[m]
    <2> DEFINE s == [m \in 1..(N + 1) |-> IF m = N + 1 THEN Current ELSE src[m]]
    <2>1. /\ s[N + 1] = Current /\ DOMAIN s = 1..(N + 1)
          /\ \A m \in 1..N : s[m] = src[m]
      OBVIOUS
    <2> HIDE DEF s
    <2> QED
      BY <2>1
  <1>9. ASSUME NEW m \in 1..(N + 1)
        PROVE  BuiltFor(src1[m], m, nodes'[m], literals', src1, table)
    <2>1. CASE m \in 1..N
      <3>1. BuiltFor(src[m], m, nodes[m], literals, src, table)
        BY <1>1, <1>7, <2>1 DEF Encodes
      <3>2. /\ \A i \in DOMAIN literals : i \in DOMAIN literals' /\ literals'[i] = literals[i]
            /\ \A j \in 1..(m - 1) : src1[j] = src[j]
        <4>1. 1..L \subseteq 1..(L + Len(more)) /\ 1..(m - 1) \subseteq 1..N
          BY <2>1
        <4> QED
          BY <1>1, <1>4, <1>8, <4>1
      <3>3. BuiltFor(src[m], m, nodes[m], literals', src1, table)
        BY <3>1, <3>2, StillBuiltFor
      <3> QED
        BY <2>1, <3>3, <1>3, <1>8
    <2>2. CASE m = N + 1
      <3>1. \A k \in 1..Len(Operands(Current)) : r[k] \in 1..N /\ src1[r[k]] = Operands(Current)[k]
        <4>1. \A k \in DOMAIN r : r[k] \in 1..N
          <5>1. \A s \in Seq(1..N) : \A k \in DOMAIN s : s[k] \in 1..N
            OBVIOUS
          <5> QED
            BY <1>2, <5>1
        <4>2. DOMAIN r = 1..Len(Operands(Current))
          BY <1>2
        <4>3. n \in DOMAIN calls
          BY <1>1
        <4>4. \A k \in DOMAIN r : src[r[k]] = Operands(Current)[k]
          BY <1>2, <1>7, <4>3 DEF CallsEncode
        <4> QED
          BY <1>8, <4>1, <4>2, <4>4
      <3>2. \A k \in 1..Len(more) : L + k \in DOMAIN literals' /\ literals'[L + k] = more[k]
        BY <1>4
      <3>3. BuiltWith(Current, N + 1, node, literals', src1, table, r, L)
        BY <1>2, <3>1, <3>2 DEF BuiltWith
      <3> QED
        BY <2>2, <3>3, <1>3, <1>8 DEF BuiltFor
    <2> QED
      BY <2>1, <2>2
  <1>10. Encodes(src1, nodes, literals, table)'
    BY <1>3, <1>8, <1>9 DEF Encodes
  <1>11. CallsEncode(src1, where)'
    <2>1. ASSUME NEW i \in 1..(n - 1) PROVE calls'[i].expr = calls[i].expr /\ i \in DOMAIN calls
      <3>1. (i = n - 1 /\ n > 1) \/ i \in 1..(n - 2)
        OBVIOUS
      <3>2. i \in 1..n
        OBVIOUS
      <3> QED
        BY <1>1, <1>5, <3>1, <3>2
    <2>2. ASSUME NEW i \in 1..(n - 1), NEW k \in DOMAIN calls'[i].returned
          PROVE  src1[calls'[i].returned[k]] = Operands(calls'[i].expr)[k]
      <3>1. CASE k \in DOMAIN calls[i].returned /\ calls'[i].returned[k] = calls[i].returned[k]
                 /\ calls'[i].returned[k] \in 1..N
        BY <3>1, <2>1, <1>7, <1>8 DEF CallsEncode
      <3>2. CASE i = n - 1 /\ k = Len(calls[i].returned) + 1 /\ calls'[i].returned[k] = N + 1
        <4>1. calls[n].expr = Operands(calls[n - 1].expr)[Len(calls[n - 1].returned) + 1]
          <5>1. n - 1 \in 1..(Len(calls) - 1) /\ (n - 1) + 1 = n
            BY <1>1, <3>2
          <5> QED
            BY <5>1, <1>7 DEF CallsEncode
        <4> QED
          BY <3>2, <4>1, <2>1, <1>2, <1>8
      <3> QED
        BY <3>1, <3>2, <1>6
    <2>3. ASSUME NEW i \in 1..((n - 1) - 1)
          PROVE  calls'[i + 1].expr = Operands(calls'[i].expr)[Len(calls'[i].returned) + 1]
      <3>1. i \in 1..(n - 2) /\ i + 1 \in 1..(n - 1) /\ i \in 1..(Len(calls) - 1)
        BY <1>1
      <3> QED
        BY <3>1, <2>1, <1>5, <1>7 DEF CallsEncode
    <2>4. IF calls' # <<>> THEN calls'[1].expr = where
          ELSE nodes' # <<>> => src1[Len(nodes')] = where
      <3>1. calls[1].expr = where
        BY <1>2, <1>7 DEF CallsEncode
      <3>2. CASE calls' # <<>>
        <4>1. 1 \in 1..(n - 1)
          BY <3>2, <1>5, IsSeqLen
        <4> QED
          BY <3>1, <3>2, <4>1, <2>1
      <3>3. CASE calls' = <<>>
        <4>1. n = 1
          BY <3>3, <1>5
        <4> QED
          BY <3>1, <3>3, <4>1, <1>2, <1>3, <1>8
      <3> QED
        BY <3>2, <3>3
    <2> QED
      BY <1>5, <2>2, <2>3, <2>4 DEF CallsEncode
  <1>12. Encoding(src1, where, table)'
    BY <1>10, <1>11 DEF Encoding
  <1> QED
    BY <1>12

-----------------------------------------------------------------------------
(* The control: what the server can rely on about a package it receives.   *)
LEMMA PlanShape ==
  ASSUME NEW s
  PROVE  /\ Plan(s).table = s.table /\ Plan(s).alias = s.alias
         /\ Plan(s).hasJoin = (s.joins # <<>>)
         /\ Plan(s).hasFilter = (s.where # NoExpr)
         /\ s.joins = <<>> => Plan(s).join = NoJoin
         /\ s.joins # <<>> => Plan(s).join = [table |-> s.joins[1].table, alias |-> s.joins[1].alias,
                                             left |-> s.joins[1].on.left,
                                             right |-> s.joins[1].on.right]
  BY DEF Plan

(* All that the execution needs to know of the statement a plan is for.    *)
Fits(plan1, s) ==
  /\ plan1.table = s.table /\ plan1.alias = s.alias /\ plan1.hasJoin = (s.joins # <<>>)
  /\ s.joins # <<>> => plan1.join = [table |-> s.joins[1].table, alias |-> s.joins[1].alias,
                                    left |-> s.joins[1].on.left,
                                    right |-> s.joins[1].on.right]

LEMMA PlanFits == ASSUME NEW s PROVE Fits(Plan(s), s)
  BY PlanShape DEF Fits

Analyzed == pc \in {"analyzed", "planned", "building"} \/ Sent
Planned == pc \in {"planned", "building"} \/ Sent
EncodesWhere(s, ns, ls) ==
  IF s.where = NoExpr THEN ns = <<>>
  ELSE /\ IsSeq(ns) /\ ns # <<>>
       /\ \E src : Encodes(src, ns, ls, s.table) /\ src[Len(ns)] = s.where
WayInv ==
  /\ pc = "parsed" \/ Analyzed => stmt \in Statements
  /\ Analyzed => Analyze(stmt) = Ok
  /\ Planned => plan = Plan(stmt)
  /\ pc = "building" => \E src : Encoding(src, stmt.where, stmt.table)
  /\ Sent => pkg.plan = plan /\ EncodesWhere(stmt, pkg.nodes, pkg.literals)
  /\ tables \in Databases /\ chunkSize \in ChunkSizes

LEMMA WayStep ==
  ASSUME BuildingInv, WayInv, [Next]_vars
  PROVE  WayInv'
  <1>1. tables' \in Databases /\ chunkSize' \in ChunkSizes
    <2>1. UNCHANGED server
      BY DEF Next, vars, ReadStatement, AnalyzeStatement, PlanStatement, EncryptStatement,
             BuildPredicate, PredicateBuilt, Serve, NetworkFails, DecodeBatches, SortRows,
             PrintRows, NextPrompt, Exit, StartClient, AtPrompt, Fail, Encrypted
    <2> QED
      BY <2>1 DEF server, WayInv
  <1>2. CASE pc' \in {"prompt", "failed", "exited"}
    BY <1>1, <1>2 DEF WayInv, Analyzed, Planned, Sent
  <1>3. CASE ReadStatement
    BY <1>1, <1>3 DEF ReadStatement, WayInv, Analyzed, Planned, Sent
  <1>4. CASE AnalyzeStatement
    BY <1>1, <1>2, <1>4 DEF AnalyzeStatement, Fail, WayInv, Analyzed, Planned, Sent
  <1>5. CASE PlanStatement
    BY <1>1, <1>5 DEF PlanStatement, WayInv, Analyzed, Planned, Sent
  <1>6. CASE EncryptStatement
    <2>1. stmt \in Statements /\ Analyze(stmt) = Ok /\ plan = Plan(stmt)
      BY <1>6 DEF EncryptStatement, WayInv, Analyzed, Planned
    <2>2. CASE stmt.where = NoExpr /\ Encrypted(<<>>, <<>>)
      BY <1>1, <2>1, <2>2 DEF Encrypted, Package, WayInv, Analyzed, Planned, Sent, EncodesWhere
    <2>3. CASE pc' = "building" /\ StartBuild(stmt.where) /\ UNCHANGED <<stmt, results>>
      <3>1. \E src : Encoding(src, stmt.where, stmt.table)'
        BY <2>3, StartBuildEncodes DEF Encoding, Encodes, CallsEncode
      <3> QED
        BY <1>1, <2>1, <2>3, <3>1 DEF results, WayInv, Analyzed, Planned, Sent
    <2> QED
      BY <1>2, <1>6, <2>2, <2>3 DEF EncryptStatement, Fail
  <1>7. CASE BuildPredicate
    <2>1. CASE (CallForOperand \/ PushNode(plan.table)) /\ UNCHANGED <<pc, stmt, results>>
      <3>1. BuilderInv /\ plan.table = stmt.table
        BY <1>7, PlanShape DEF BuildingInv, BuildPredicate, WayInv, Planned
      <3>2. PICK src : Encoding(src, stmt.where, stmt.table)
        BY <1>7 DEF BuildPredicate, WayInv
      <3>3. \E s : Encoding(s, stmt.where, stmt.table)'
        <4>1. PICK where, table : where = stmt.where /\ table = stmt.table
          OBVIOUS
        <4>2. \E s : Encoding(s, where, table)'
          BY <2>1, <3>1, <3>2, <4>1, CallForOperandEncodes, PushNodeEncodes
        <4>3. where = stmt'.where /\ table = stmt'.table
          BY <2>1, <4>1
        <4> QED
          BY <4>2, <4>3 DEF Encoding, Encodes, CallsEncode
      <3> QED
        BY <1>1, <1>7, <2>1, <3>3 DEF BuildPredicate, results, WayInv, Analyzed, Planned, Sent
    <2> QED
      BY <1>2, <1>7, <2>1 DEF BuildPredicate, Fail
  <1>8. CASE PredicateBuilt
    <2>1. PICK src : Encoding(src, stmt.where, stmt.table)
      BY <1>8 DEF PredicateBuilt, WayInv
    <2>2. EncodesWhere(stmt, nodes, literals)
      BY <1>8, <2>1 DEF PredicateBuilt, BuildingInv, BuilderInv, BuilderTypeOK, Encoding,
                        CallsEncode, EncodesWhere
    <2>3. EncodesWhere(stmt, pkg.nodes, pkg.literals)' /\ pkg'.plan = plan'
      BY <1>8, <2>2 DEF PredicateBuilt, Encrypted, Package, EncodesWhere
    <2>4. UNCHANGED <<stmt, plan>> /\ pc' = "encrypted"
      BY <1>8 DEF PredicateBuilt, Encrypted
    <2> QED
      BY <1>1, <1>8, <2>3, <2>4 DEF PredicateBuilt, WayInv, Analyzed, Planned, Sent
  <1>9. CASE Sent /\ Sent' /\ pc' # "building" /\ UNCHANGED <<stmt, plan, pkg>>
    BY <1>1, <1>9 DEF WayInv, Analyzed, Planned, Sent, EncodesWhere
  <1>10. CASE Serve \/ NetworkFails \/ DecodeBatches
    BY <1>2, <1>9, <1>10 DEF Serve, NetworkFails, DecodeBatches, Fail, Sent
  <1>11. CASE SortRows \/ PrintRows
    BY <1>9, <1>11 DEF SortRows, PrintRows, Sent
  <1>12. CASE NextPrompt \/ Exit \/ StartClient
    BY <1>2, <1>12 DEF NextPrompt, Exit, StartClient, AtPrompt, Fail
  <1>13. CASE UNCHANGED vars
    BY <1>13 DEF vars, results, builder, server, WayInv, Analyzed, Planned, Sent, EncodesWhere,
                 Encoding, Encodes, CallsEncode
  <1> QED
    BY <1>3, <1>4, <1>5, <1>6, <1>7, <1>8, <1>10, <1>11, <1>12, <1>13 DEF Next

LEMMA WayInvariant == Spec => []WayInv
  <1>1. Init => WayInv
    BY DEF Init, WayInv, Analyzed, Planned, Sent
  <1>2. BuildingInv /\ WayInv /\ [Next]_vars => WayInv'
    BY WayStep
  <1> QED
    BY <1>1, <1>2, BuildingInvariant, PTL DEF Spec

-----------------------------------------------------------------------------
(* The levels of a clause.                                                 *)
LEMMA ConnectedIsSeq ==
  ASSUME NEW e
  PROVE  /\ IsSeq(Connected(e))
         /\ IsCondition(e) => ToSet(Connected(e)) = {e}
         /\ e.kind = "Not" => ToSet(Connected(e)) = {e.left}
         /\ e.kind \in Connectives => ToSet(Connected(e)) = {e.left, e.right}
  <1>1. \A x : <<x>> \in Seq({x}) /\ ToSet(<<x>>) = {x}
    BY DEF ToSet
  <1>2. \A x, y : <<x, y>> \in Seq({x, y}) /\ ToSet(<<x, y>>) = {x, y}
    BY DEF ToSet
  <1>3. /\ e.kind = "Not" => Connected(e) = <<e.left>>
        /\ e.kind \in Connectives => Connected(e) = <<e.left, e.right>>
        /\ IsCondition(e) => Connected(e) = <<e>>
    BY DEF Connected, IsCondition, Connectives
  <1>4. IsCondition(e) \/ e.kind = "Not" \/ e.kind \in Connectives
    BY DEF IsCondition
  <1>5. IsSeq(<<e>>) /\ IsSeq(<<e.left>>) /\ IsSeq(<<e.left, e.right>>)
    BY <1>1, <1>2 DEF IsSeq
  <1>6. IsCondition(e) => e.kind # "Not" /\ e.kind \notin Connectives
    BY DEF IsCondition
  <1>7. e.kind = "Not" => e.kind \notin Connectives
    BY DEF Connectives
  <1> QED
    BY <1>1, <1>2, <1>3, <1>4, <1>5, <1>6, <1>7

Below(level) == FlattenSeq([i \in DOMAIN level |-> Connected(level[i])])
IsVisit(g, m, e) == g = [n \in 0..m |-> IF n = 0 THEN <<e>> ELSE Below(g[n - 1])]

LEMMA VisitExists ==
  ASSUME NEW m \in Nat, NEW e
  PROVE  \E g : IsVisit(g, m, e)
  <1> DEFINE S == {k \in 0..m : \E g : IsVisit(g, k, e)}
  <1>1. 0 \in S
    <2>1. IsVisit([n \in 0..0 |-> <<e>>], 0, e)
      BY DEF IsVisit
    <2> QED
      BY <2>1
  <1>2. ASSUME NEW k \in Nat, k < m, k \in S PROVE k + 1 \in S
    <2>1. PICK g : IsVisit(g, k, e)
      BY <1>2
    <2> DEFINE h == [n \in 0..(k + 1) |-> IF n = k + 1 THEN Below(g[k]) ELSE g[n]]
    <2>2. ASSUME NEW n \in 0..(k + 1) PROVE h[n] = IF n = 0 THEN <<e>> ELSE Below(h[n - 1])
      <3>1. /\ n = k + 1 \/ (n \in 0..k /\ n # k + 1)
            /\ n # 0 => n - 1 \in 0..k /\ n - 1 # k + 1 /\ n - 1 \in 0..(k + 1)
            /\ (k + 1) - 1 = k /\ k + 1 # 0
        OBVIOUS
      <3>2. n # 0 => h[n - 1] = g[n - 1]
        BY <3>1
      <3>3. n \in 0..k => g[n] = IF n = 0 THEN <<e>> ELSE Below(g[n - 1])
        BY <2>1 DEF IsVisit
      <3> QED
        BY <3>1, <3>2, <3>3
    <2>3. h = [n \in 0..(k + 1) |-> IF n = 0 THEN <<e>> ELSE Below(h[n - 1])]
      BY <2>2
    <2> HIDE DEF h
    <2>4. IsVisit(h, k + 1, e) /\ k + 1 \in 0..m
      BY <1>2, <2>3 DEF IsVisit
    <2> QED
      BY <2>4
  <1> HIDE DEF S
  <1>3. 0..m \subseteq S /\ m \in 0..m
    BY <1>1, <1>2, UpTo
  <1> QED
    BY <1>3 DEF S

(* Each level has what the expressions of the one above connect.           *)
LEMMA VisitedLevels ==
  ASSUME NEW e
  PROVE  /\ Visited(e)[0] = <<e>>
         /\ \A n \in 0..MaxNesting : IsSeq(Visited(e)[n])
         /\ \A n \in 1..MaxNesting :
               ToSet(Visited(e)[n]) = UNION {ToSet(Connected(f)) : f \in ToSet(Visited(e)[n - 1])}
  <1> DEFINE m == MaxNesting
             v == Visited(e)
  <1>1. m \in Nat
    BY NestingAssumption
  <1>2. IsVisit(v, m, e)
    <2>1. v = CHOOSE g : IsVisit(g, m, e)
      BY DEF Visited, IsVisit, Below
    <2> HIDE DEF v, m
    <2> QED
      BY <1>1, <2>1, VisitExists
  <1> HIDE DEF v, m
  <1>3. v[0] = <<e>> /\ \A n \in 1..m : v[n] = Below(v[n - 1])
    <2>1. 0 \in 0..m /\ \A n \in 1..m : n \in 0..m /\ n # 0
      BY <1>1
    <2> QED
      BY <1>2, <2>1 DEF IsVisit
  <1>4. ASSUME NEW level, IsSeq(level)
        PROVE  /\ IsSeq(Below(level))
               /\ ToSet(Below(level)) = UNION {ToSet(Connected(f)) : f \in ToSet(level)}
    <2> DEFINE s == [i \in DOMAIN level |-> Connected(level[i])]
    <2>1. IsSeq(s) /\ DOMAIN s = DOMAIN level
      <3>1. Len(level) \in Nat /\ DOMAIN level = 1..Len(level)
        BY <1>4, IsSeqLen
      <3>2. s = [i \in 1..Len(level) |-> s[i]]
        BY <3>1
      <3> HIDE DEF s
      <3> QED
        BY <3>1, <3>2, FunctionIsSeq
    <2>2. \A i \in DOMAIN s : IsSeq(s[i])
      BY ConnectedIsSeq
    <2>3. UNION {ToSet(s[i]) : i \in DOMAIN s} = UNION {ToSet(Connected(f)) : f \in ToSet(level)}
      BY DEF ToSet
    <2>4. Below(level) = FlattenSeq(s)
      BY DEF Below
    <2> HIDE DEF s
    <2> QED
      BY <2>1, <2>2, <2>3, <2>4, FlattenIsSeq
  <1> DEFINE S == {n \in 0..m : IsSeq(v[n])}
  <1>5. 0 \in S
    BY <1>1, <1>3, SingleIsSeq
  <1>6. \A n \in Nat : n < m /\ n \in S => n + 1 \in S
    <2>1. \A n \in Nat : n < m => n + 1 \in 1..m /\ n + 1 \in 0..m /\ (n + 1) - 1 = n
      BY <1>1
    <2> QED
      BY <1>3, <1>4, <2>1
  <1> HIDE DEF S
  <1>7. 0..m \subseteq S
    BY <1>1, <1>5, <1>6, UpTo
  <1>8. \A n \in 0..m : IsSeq(v[n])
    BY <1>7 DEF S
  <1>9. \A n \in 1..m : IsSeq(v[n - 1])
    <2>1. \A n \in 1..m : n - 1 \in 0..m
      BY <1>1
    <2> QED
      BY <1>8, <2>1
  <1> QED
    BY <1>3, <1>4, <1>8, <1>9 DEF v, m

(* What holds: the conditions first, then what each level connects.        *)
LEMMA HoldingLevels ==
  ASSUME NEW s, NEW e, NEW env
  PROVE  \A n \in 0..MaxNesting : \A f \in ToSet(Visited(e)[MaxNesting - n]) :
            f \in Holding(s, e, env)[n] <=>
               IF IsCondition(f) THEN ConditionHolds(s, f, env)
               ELSE n > 0 /\ ConnectiveHolds(f, Holding(s, e, env)[n - 1])
  <1> DEFINE m == MaxNesting
             Level(n) == ToSet(Visited(e)[m - n])
             Keeps(n, held) == {f \in Level(n) : IF IsCondition(f) THEN ConditionHolds(s, f, env)
                                                  ELSE n > 0 /\ ConnectiveHolds(f, held)}
             V == SUBSET UNION {Level(n) : n \in 0..m}
             Step == [n \in 1..m |-> [held \in V |-> Keeps(n, held)]]
             h == Holding(s, e, env)
  <1>1. m \in Nat
    BY NestingAssumption
  <1>2. \A n \in 0..m : \A held : Keeps(n, held) \in V
    OBVIOUS
  <1>3. \A g : Keeps(0, g) = Keeps(0, {})
    OBVIOUS
  <1> HIDE DEF V
  <1>4. h = CHOOSE g : g = [n \in 0..m |-> Keeps(n, g[n - 1])]
    BY DEF Holding
  <1> HIDE DEF h, m, Keeps
  <1>5. IsLoop(m, V, Keeps(0, {}), Step)
    <2>1. 0 \in 0..m /\ 1..m \subseteq 0..m
      BY <1>1
    <2> QED
      BY <1>1, <1>2, <2>1 DEF IsLoop
  <1>6. PICK g : IsTrace(g, m, V, Keeps(0, {}), Step)
    BY <1>5, Trace
  <1>7. g = [n \in 0..m |-> Keeps(n, g[n - 1])]
    <2>1. g \in [0..m -> V] /\ g[0] = Keeps(0, {}) /\ \A n \in 1..m : g[n] = Step[n][g[n - 1]]
      BY <1>6 DEF IsTrace
    <2>2. \A n \in 0..m : n = 0 \/ (n \in 1..m /\ n - 1 \in 0..m)
      BY <1>1
    <2>3. ASSUME NEW n \in 0..m PROVE g[n] = Keeps(n, g[n - 1])
      BY <1>3, <2>1, <2>2
    <2> QED
      BY <2>1, <2>3
  <1>8. h = [n \in 0..m |-> Keeps(n, h[n - 1])]
    BY <1>4, <1>7
  <1> QED
    BY <1>8 DEF Keeps, h, m

-----------------------------------------------------------------------------
(* The vectors the server computes.                                        *)
NodeKinds == {"ColumnRef", "LiteralRef", "StringEqual", "StringNotEqual", "Not"}
               \cup Comparisons \cup Connectives

(* A node's vector depends on those of its children alone.                 *)
LEMMA EvaluatedOfChildren ==
  ASSUME NEW pkg1, NEW node, NEW batch, NEW l, NEW r, NEW l1, NEW r1,
         node.kind \in NodeKinds,
         node.kind \in {"Not"} \cup Comparisons \cup Connectives => l = l1,
         node.kind \in Comparisons \cup Connectives => r = r1
  PROVE  Evaluated(pkg1, node, batch, l, r) = Evaluated(pkg1, node, batch, l1, r1)
  <1>1. CASE node.kind = "ColumnRef"
    BY <1>1 DEF Evaluated
  <1>2. CASE node.kind = "LiteralRef"
    BY <1>2 DEF Evaluated
  <1>3. CASE node.kind = "StringEqual"
    BY <1>3 DEF Evaluated
  <1>4. CASE node.kind = "StringNotEqual"
    BY <1>4 DEF Evaluated, Lift1
  <1>5. CASE node.kind = "Not"
    BY <1>5 DEF Evaluated, Lift1
  <1>6. CASE node.kind \in Comparisons \cup Connectives
    BY <1>6
  <1> QED
    BY <1>1, <1>2, <1>3, <1>4, <1>5, <1>6 DEF NodeKinds

IsEval(v, m, pkg1, batch) ==
  v = [n \in 1..m |-> Evaluated(pkg1, pkg1.nodes[n], batch,
                                v[pkg1.nodes[n].left], v[pkg1.nodes[n].right])]

LEMMA EvalVectors ==
  ASSUME NEW pkg1, NEW batch, NEW N \in Nat, DOMAIN pkg1.nodes = 1..N,
         \A n \in 1..N : pkg1.nodes[n].kind \in NodeKinds,
         \A n \in 1..N : Children(pkg1.nodes[n]) \subseteq 1..(n - 1)
  PROVE  \E v : IsEval(v, N, pkg1, batch) /\ \A root : Eval(pkg1, root, batch) = v[root]
  <1> DEFINE node(n) == pkg1.nodes[n]
             S == {k \in 0..N : \E g : IsEval(g, k, pkg1, batch)}
  <1>1. 0 \in S
    <2>1. IsEval([n \in 1..0 |-> 0], 0, pkg1, batch)
      BY DEF IsEval
    <2> QED
      BY <2>1
  <1>2. ASSUME NEW k \in Nat, k < N, k \in S PROVE k + 1 \in S
    <2>1. PICK g : IsEval(g, k, pkg1, batch)
      BY <1>2
    <2> DEFINE new == Evaluated(pkg1, node(k + 1), batch, g[node(k + 1).left], g[node(k + 1).right])
               h == [n \in 1..(k + 1) |-> IF n = k + 1 THEN new ELSE g[n]]
    <2> HIDE DEF new
    <2>2. h[k + 1] = new /\ \A n \in 1..k : h[n] = g[n]
      OBVIOUS
    <2> HIDE DEF h
    <2>3. ASSUME NEW n \in 1..(k + 1)
          PROVE  Evaluated(pkg1, node(n), batch, g[node(n).left], g[node(n).right])
                   = Evaluated(pkg1, node(n), batch, h[node(n).left], h[node(n).right])
      <3>1. /\ n \in 1..N /\ 1..(n - 1) \subseteq 1..k
        BY <1>2
      <3>2. \A c \in Children(node(n)) : h[c] = g[c]
        BY <2>2, <3>1
      <3>3. node(n).kind = "Not" => g[node(n).left] = h[node(n).left]
        BY <3>2 DEF Children
      <3>4. node(n).kind \in Comparisons \cup Connectives =>
              g[node(n).left] = h[node(n).left] /\ g[node(n).right] = h[node(n).right]
        BY <3>2 DEF Children, Comparisons, Connectives, Orderings
      <3> QED
        BY <3>1, <3>3, <3>4, EvaluatedOfChildren
    <2>4. ASSUME NEW n \in 1..(k + 1)
          PROVE  h[n] = Evaluated(pkg1, node(n), batch, h[node(n).left], h[node(n).right])
      <3>1. CASE n \in 1..k
        <4>1. g[n] = Evaluated(pkg1, node(n), batch, g[node(n).left], g[node(n).right])
          BY <2>1, <3>1 DEF IsEval
        <4> QED
          BY <2>2, <2>3, <3>1, <4>1
      <3>2. CASE n = k + 1
        BY <2>2, <2>3, <3>2 DEF new
      <3> QED
        BY <3>1, <3>2
    <2>5. h = [n \in 1..(k + 1) |-> h[n]]
      BY DEF h
    <2>6. IsEval(h, k + 1, pkg1, batch) /\ k + 1 \in 0..N
      BY <1>2, <2>4, <2>5 DEF IsEval
    <2> QED
      BY <2>6
  <1> HIDE DEF S
  <1>3. 0..N \subseteq S
    <2>1. \A k \in Nat : k < N /\ k \in S => k + 1 \in S
      BY <1>2
    <2> QED
      BY ONLY N \in Nat, <1>1, <2>1, UpTo
  <1>4. \E g : IsEval(g, N, pkg1, batch)
    <2>1. N \in 0..N
      OBVIOUS
    <2> QED
      BY <1>3, <2>1 DEF S
  <1> DEFINE v == CHOOSE g : IsEval(g, N, pkg1, batch)
  <1>5. IsEval(v, N, pkg1, batch)
    BY <1>4
  <1>6. \A root : Eval(pkg1, root, batch) = v[root]
    BY DEF Eval, IsEval
  <1> HIDE DEF v
  <1> QED
    BY <1>5, <1>6

(* The product of the character comparisons.                               *)
Both(u, v) == Lift2(AndMask, u, v)
IsProduct(g, m, c) == g = [n \in 1..m |-> IF n = 1 THEN c[1] ELSE Both(g[n - 1], c[n])]

LEMMA CombineProducts ==
  ASSUME NEW w \in Nat \ {0}, NEW c, DOMAIN c = 1..w, Len(c) = w
  PROVE  \E g : IsProduct(g, w, c) /\ Combine(c) = g[w]
  <1> DEFINE S == {k \in 0..w : \E g : IsProduct(g, k, c)}
  <1>1. 0 \in S
    <2>1. IsProduct([n \in 1..0 |-> 0], 0, c)
      BY DEF IsProduct
    <2> QED
      BY <2>1
  <1>2. ASSUME NEW k \in Nat, k < w, k \in S PROVE k + 1 \in S
    <2>1. PICK g : IsProduct(g, k, c)
      BY <1>2
    <2> DEFINE new == IF k = 0 THEN c[1] ELSE Both(g[k], c[k + 1])
               h == [n \in 1..(k + 1) |-> IF n = k + 1 THEN new ELSE g[n]]
    <2>2. h[k + 1] = new /\ \A n \in 1..k : h[n] = g[n]
      OBVIOUS
    <2> HIDE DEF h
    <2>3. ASSUME NEW n \in 1..(k + 1)
          PROVE  h[n] = IF n = 1 THEN c[1] ELSE Both(h[n - 1], c[n])
      <3>1. n = 1 \/ n - 1 \in 1..k
        OBVIOUS
      <3>2. CASE n \in 1..k
        BY <2>1, <2>2, <3>1, <3>2 DEF IsProduct
      <3>3. CASE n = k + 1
        <4>1. n = 1 <=> k = 0
          BY <3>3
        <4> QED
          BY <2>2, <3>1, <3>3, <4>1
      <3> QED
        BY <3>2, <3>3
    <2>4. h = [n \in 1..(k + 1) |-> h[n]]
      BY DEF h
    <2>5. IsProduct(h, k + 1, c) /\ k + 1 \in 0..w
      BY <1>2, <2>3, <2>4 DEF IsProduct
    <2> QED
      BY <2>5
  <1> HIDE DEF S
  <1>3. 0..w \subseteq S /\ w \in 0..w
    BY <1>1, <1>2, UpTo
  <1>4. \E g : IsProduct(g, w, c)
    BY <1>3 DEF S
  <1> DEFINE p == CHOOSE g : IsProduct(g, w, c)
  <1>5. IsProduct(p, w, c)
    BY <1>4
  <1>6. Combine(c) = p[w]
    BY DEF Combine, IsProduct, Both
  <1> HIDE DEF p
  <1> QED
    BY <1>5, <1>6

-----------------------------------------------------------------------------
(* What the analyzer has seen to.                                          *)
LEMMA Accepted ==
  ASSUME NEW s \in Statements, Analyze(s) = Ok
  PROVE  /\ HasTable(s.table) /\ \A i \in DOMAIN s.joins : HasTable(s.joins[i].table)
         /\ \A e \in ToSet(Conditions(s.where)) : ValidateCondition(s, e) = Ok
         /\ \A i \in DOMAIN s.joins : ValidateJoin(s, s.joins[i].on) = Ok
  <1> DEFINE conditions == Conditions(s.where)
             ofWhere == [i \in DOMAIN conditions |-> ValidateCondition(s, conditions[i])]
             ofJoins == [i \in DOMAIN s.joins |-> ValidateJoin(s, s.joins[i].on)]
             a == FirstThrow([i \in DOMAIN s.projections |-> Resolve(s, s.projections[i])])
             d == FirstThrow([i \in DOMAIN s.orderBy |-> Resolve(s, s.orderBy[i].col)])
             e == ThrowIf(s.limit < -1, SemanticError)
             all == <<a, FirstThrow(ofWhere), FirstThrow(ofJoins), d, e>>
  <1>1. IsSeq(conditions) /\ IsSeq(s.joins)
    <2>1. MaxNesting \in 0..MaxNesting
      BY NestingAssumption
    <2> QED
      BY <2>1, VisitedLevels, StatementsAssumption DEF Conditions, IsStatement
  <1>2. Analyze(s) = IF ~HasTable(s.table) \/ \E i \in DOMAIN s.joins : ~HasTable(s.joins[i].table)
                     THEN SemanticError ELSE FirstThrow(all)
    BY DEF Analyze, ValidateExpr
  <1> HIDE DEF a, d, e
  <1>3. Ok # SemanticError
    BY DEF Ok, SemanticError
  <1>4. /\ HasTable(s.table) /\ \A i \in DOMAIN s.joins : HasTable(s.joins[i].table)
        /\ FirstThrow(all) = Ok
    BY <1>2, <1>3
  <1>5. FirstThrow(ofWhere) = Ok /\ FirstThrow(ofJoins) = Ok
    <2> HIDE DEF ofWhere, ofJoins
    <2>1. /\ Len(all) = 5 /\ DOMAIN all = 1..5
          /\ all[2] = FirstThrow(ofWhere) /\ all[3] = FirstThrow(ofJoins)
      OBVIOUS
    <2> HIDE DEF all
    <2> QED
      BY <1>4, <2>1, NothingThrown
  <1>6. IsSeq(ofWhere) /\ IsSeq(ofJoins)
    <2>1. \A q : IsSeq(q) => Len(q) \in Nat /\ DOMAIN q = 1..Len(q)
      BY IsSeqLen
    <2> HIDE DEF conditions
    <2>2. ofWhere = [i \in 1..Len(conditions) |-> ofWhere[i]]
      BY <1>1, <2>1
    <2>3. ofJoins = [i \in 1..Len(s.joins) |-> ofJoins[i]]
      BY <1>1, <2>1
    <2> HIDE DEF ofWhere, ofJoins
    <2> QED
      BY <1>1, <2>1, <2>2, <2>3, FunctionIsSeq
  <1>7. /\ \A i \in DOMAIN conditions : ValidateCondition(s, conditions[i]) = Ok
        /\ \A i \in DOMAIN s.joins : ValidateJoin(s, s.joins[i].on) = Ok
    <2> HIDE DEF conditions
    <2>1. DOMAIN ofWhere = DOMAIN conditions /\ DOMAIN ofJoins = DOMAIN s.joins
      OBVIOUS
    <2>2. /\ \A i \in DOMAIN ofWhere : ofWhere[i] = Ok
          /\ \A i \in DOMAIN ofJoins : ofJoins[i] = Ok
      <3> HIDE DEF ofWhere, ofJoins
      <3> QED
        BY <1>5, <1>6, IsSeqLen, NothingThrown
    <2> QED
      BY <2>1, <2>2
  <1> QED
    BY <1>4, <1>7 DEF ToSet

(* The name of a column tells its type, in whichever table it is.          *)
LEMMA ColumnByName ==
  ASSUME NEW t, NEW c
  PROVE  /\ HasColumn(t, c) <=> Column(t, c) # NoColumn
         /\ HasColumn(t, c) => /\ Column(t, c) \in ToSet(Columns(t))
                               /\ Column(t, c) = IF c \in {"name", "department_name"}
                                                 THEN String(c) ELSE Int64(c)
  <1> DEFINE Typed(x) == x = IF x.name \in {"name", "department_name"}
                             THEN String(x.name) ELSE Int64(x.name)
  <1>1. \A i \in DOMAIN Columns(t) : Typed(Columns(t)[i])
    <2>1. CASE t = "employees"
      BY <2>1 DEF Columns, HasTable, Schema, Int64, String
    <2>2. CASE t = "departments"
      BY <2>2 DEF Columns, HasTable, Schema, Int64, String
    <2>3. CASE t \notin {"employees", "departments"}
      BY <2>3 DEF Columns, HasTable, Schema
    <2> QED
      BY <2>1, <2>2, <2>3
  <1>2. CASE HasColumn(t, c)
    <2>1. \E x \in ToSet(Columns(t)) : x.name = c
      BY <1>2 DEF HasColumn, ToSet
    <2>2. Column(t, c) \in ToSet(Columns(t)) /\ Column(t, c).name = c
      BY <1>2, <2>1 DEF Column
    <2>3. Typed(Column(t, c))
      BY <1>1, <2>2 DEF ToSet
    <2>4. String(c) # NoColumn /\ Int64(c) # NoColumn
      <3>1. String(c).type = "STRING" /\ Int64(c).type = "INT64" /\ NoColumn.type = "none"
        BY DEF String, Int64, NoColumn
      <3> QED
        BY <3>1
    <2> QED
      BY <1>2, <2>2, <2>3, <2>4
  <1>3. CASE ~HasColumn(t, c)
    BY <1>3 DEF Column
  <1> QED
    BY <1>2, <1>3

(* No table has two columns of one name.                                   *)
LEMMA CatalogNames ==
  ASSUME NEW t, NEW column \in ToSet(Columns(t))
  PROVE  HasColumn(t, column.name) /\ Column(t, column.name) = column
  <1>1. \A i, j \in DOMAIN Columns(t) :
           Columns(t)[i].name = Columns(t)[j].name => Columns(t)[i] = Columns(t)[j]
    <2>1. CASE t = "employees"
      BY <2>1 DEF Columns, HasTable, Schema, Int64, String
    <2>2. CASE t = "departments"
      BY <2>2 DEF Columns, HasTable, Schema, Int64, String
    <2>3. CASE t \notin {"employees", "departments"}
      BY <2>3 DEF Columns, HasTable, Schema
    <2> QED
      BY <2>1, <2>2, <2>3
  <1>2. HasColumn(t, column.name)
    BY DEF HasColumn, ToSet
  <1>3. Column(t, column.name) \in ToSet(Columns(t)) /\ Column(t, column.name).name = column.name
    BY <1>2 DEF Column
  <1> QED
    BY <1>1, <1>2, <1>3 DEF ToSet

(* A comparison the analyzer accepts.                                      *)
LEMMA AcceptedComparison ==
  ASSUME NEW s \in Statements, Analyze(s) = Ok,
         NEW e \in ToSet(Conditions(s.where)), e.kind \in Comparisons
  PROVE  /\ ComparisonShape(e)
         /\ OnString(e) => /\ e.kind \in {"Equal", "NotEqual"}
                           /\ Len(LiteralText(e)) <= StrWidth
                           /\ LiteralText(e) \in Seq(1..(P - 1))
                           /\ ColumnSide(e).name \in {"name", "department_name"}
                           /\ HasColumn(WhereTable(s, ColumnSide(e)), ColumnSide(e).name)
  <1> DEFINE resolved(o) == IF IsCol(o) THEN WhereResolve(s, o) ELSE Ok
             notNumeric(o) == IsCol(o) /\ WhereColumn(s, o).type # "INT64"
             c3 == ThrowIf(IsCol(e.left) /\ ~IsCol(e.right)
                           /\ ~LiteralMatches(s, e.left, e.right), SemanticError)
             c4 == ThrowIf(IsCol(e.right) /\ ~IsCol(e.left)
                           /\ ~LiteralMatches(s, e.right, e.left), SemanticError)
             c5 == ThrowIf(e.kind \in Orderings /\ (notNumeric(e.left) \/ notNumeric(e.right)),
                           SemanticError)
             c6 == ThrowIf(/\ StringComparison(e)
                           /\ \/ e.kind \notin {"Equal", "NotEqual"}
                              \/ Len(LiteralText(e)) > WhereColumn(s, ColumnSide(e)).maxLength,
                           SemanticError)
             all == <<resolved(e.left), resolved(e.right), c3, c4, c5, c6>>
  <1>1. ValidateComparison(s, e) = Ok
    <2>1. ValidateCondition(s, e) = Ok
      BY Accepted
    <2>2. e.kind # "ColumnRef"
      BY DEF Comparisons, Orderings
    <2> QED
      BY <2>1, <2>2 DEF ValidateCondition
  <1>2. ValidateComparison(s, e) = IF ~ComparisonShape(e) THEN SemanticError ELSE FirstThrow(all)
    BY DEF ValidateComparison
  <1>3. ComparisonShape(e) /\ FirstThrow(all) = Ok
    BY <1>1, <1>2 DEF Ok, SemanticError
  <1>4. resolved(e.left) = Ok /\ resolved(e.right) = Ok /\ c3 = Ok /\ c4 = Ok /\ c6 = Ok
    <2> HIDE DEF resolved, c3, c4, c5, c6
    <2>1. /\ Len(all) = 6 /\ DOMAIN all = 1..6
          /\ all[1] = resolved(e.left) /\ all[2] = resolved(e.right)
          /\ all[3] = c3 /\ all[4] = c4 /\ all[6] = c6
      OBVIOUS
    <2> HIDE DEF all
    <2> QED
      BY <1>3, <2>1, NothingThrown
  <1>5. ASSUME OnString(e)
        PROVE  /\ e.kind \in {"Equal", "NotEqual"}
               /\ Len(LiteralText(e)) <= StrWidth
               /\ LiteralText(e) \in Seq(1..(P - 1))
               /\ ColumnSide(e).name \in {"name", "department_name"}
               /\ HasColumn(WhereTable(s, ColumnSide(e)), ColumnSide(e).name)
    <2> DEFINE c == ColumnSide(e)
    <2>1. StringComparison(e)
      BY <1>5 DEF OnString
    <2>2. IsCol(c) /\ resolved(c) = Ok
      BY <1>4, <2>1 DEF StringComparison, ColumnSide
    <2>3. WhereColumn(s, c) # NoColumn
      BY <2>2 DEF WhereResolve, Ok, SemanticError, RuntimeError
    <2>4. WhereColumn(s, c).type = "STRING"
      BY <1>4, <2>1 DEF StringComparison, ColumnSide, LiteralMatches, ThrowIf, IsCol, IsStr, IsInt,
                        Ok, SemanticError
    <2>5. /\ c.name \in {"name", "department_name"} /\ WhereColumn(s, c).maxLength = StrWidth
          /\ HasColumn(WhereTable(s, c), c.name)
      <3>1. HasColumn(WhereTable(s, c), c.name)
        BY <2>3, ColumnByName DEF WhereColumn
      <3>2. WhereColumn(s, c) = IF c.name \in {"name", "department_name"}
                                THEN String(c.name) ELSE Int64(c.name)
        BY <3>1, ColumnByName DEF WhereColumn
      <3> QED
        BY <2>4, <3>1, <3>2 DEF String, Int64
    <2>6. /\ e.kind \in {"Equal", "NotEqual"}
          /\ ~ (Len(LiteralText(e)) > WhereColumn(s, c).maxLength)
      BY <1>4, <2>1 DEF ThrowIf, Ok, SemanticError
    <2>7. LiteralText(e) \in Seq(1..(P - 1))
      BY <1>5, StatementsAssumption DEF IsStatement
    <2>8. Len(LiteralText(e)) \in Nat /\ StrWidth \in Nat
      BY <2>7, SqlAssumption
    <2> QED
      BY <2>5, <2>6, <2>7, <2>8
  <1> QED
    BY <1>3, <1>5

-----------------------------------------------------------------------------
(* Slot i of a batch holds the row (or rows) of env: an integer as it is,  *)
(* a string by its characters, with zeros behind the last one.             *)
Holds0(v, slot) == v \in 0..H /\ slot = v
HoldsChar(v, p, slot) ==
  /\ p \in 1..StrWidth
  /\ v \in Seq(1..(P - 1)) /\ Len(v) <= StrWidth /\ slot = CharAt(v, p)
RowInSlot(batch, i, s, env) ==
  \A c, p : Physical(c.alias, c.name, p) \in DOMAIN batch =>
     IF p = 0 THEN Holds0(ValueOf(s, c, env), batch[Physical(c.alias, c.name, p)][i])
     ELSE HoldsChar(ValueOf(s, c, env), p, batch[Physical(c.alias, c.name, p)][i])

LEMMA SeqElements ==
  ASSUME NEW T, NEW x \in Seq(T)
  PROVE  DOMAIN x = 1..Len(x) /\ Len(x) \in Nat /\ \A k \in 1..Len(x) : x[k] \in T
  OBVIOUS

(* Two strings are equal when their padded characters are.                 *)
LEMMA EqualByCharacters ==
  ASSUME NEW v \in Seq(1..(P - 1)), NEW u \in Seq(1..(P - 1)), NEW w \in Nat,
         Len(v) <= w, Len(u) <= w
  PROVE  v = u <=> \A k \in 1..w : CharAt(v, k) = CharAt(u, k)
  <1> SUFFICES ASSUME \A k \in 1..w : CharAt(v, k) = CharAt(u, k) PROVE v = u
    OBVIOUS
  <1>1. Len(v) \in Nat /\ Len(u) \in Nat
    OBVIOUS
  <1>2. \A x \in Seq(1..(P - 1)) : \A k \in 1..Len(x) : CharAt(x, k) = x[k] /\ x[k] # 0
    <2>1. ASSUME NEW x \in Seq(1..(P - 1)), NEW k \in 1..Len(x)
          PROVE  x[k] \in 1..(P - 1) /\ k <= Len(x)
      <3>1. Len(x) \in Nat /\ \A j \in 1..Len(x) : x[j] \in 1..(P - 1)
        BY SeqElements
      <3> QED
        BY <3>1
    <2> QED
      BY <2>1, Modulus DEF CharAt
  <1>3. ~ (Len(v) < Len(u)) /\ ~ (Len(u) < Len(v))
    <2>1. ASSUME NEW x \in Seq(1..(P - 1)), NEW y \in Seq(1..(P - 1)), Len(x) < Len(y), Len(y) <= w,
                 \A k \in 1..w : CharAt(x, k) = CharAt(y, k)
          PROVE  FALSE
      <3> DEFINE k == Len(x) + 1
      <3>1. Len(x) \in Nat /\ Len(y) \in Nat
        OBVIOUS
      <3>2. k \in 1..w /\ k \in 1..Len(y) /\ ~ (k <= Len(x))
        BY <2>1, <3>1
      <3>3. CharAt(x, k) = 0
        BY <3>2 DEF CharAt
      <3> QED
        BY <1>2, <2>1, <3>2, <3>3
    <2> QED
      BY <2>1
  <1>4. Len(v) = Len(u)
    BY <1>1, <1>3
  <1>5. \A k \in 1..Len(v) : v[k] = u[k]
    <2>1. \A k \in 1..Len(v) : k \in 1..w
      BY <1>1
    <2> QED
      BY <1>2, <1>4, <2>1
  <1> QED
    BY <1>4, <1>5

(* The literal's characters are in every slot.                             *)
LEMMA ScalarInEverySlot ==
  ASSUME NEW v \in Zp, NEW i \in 1..Slots
  PROVE  EncryptScalar(v)[i] = v
  <1>1. v \in Int
    BY DEF Zp
  <1>2. v % P = v
    BY <1>1, ModInt
  <1> QED
    BY <1>2 DEF EncryptScalar, Encrypt

LEMMA CharInZp ==
  ASSUME NEW v \in Seq(1..(P - 1)), NEW k \in Nat \ {0}
  PROVE  CharAt(v, k) \in Zp
  <1>1. k <= Len(v) => v[k] \in 1..(P - 1)
    <2>1. Len(v) \in Nat /\ \A j \in 1..Len(v) : v[j] \in 1..(P - 1)
      BY SeqElements
    <2> QED
      BY <2>1
  <1> QED
    BY <1>1, Modulus DEF CharAt, Zp

(* Slot i has the value, if there is a vector at all.                      *)
Exact(x, i, v) == x = Failed \/ x[i] = v

(* A string comparison: the product of the comparisons of the characters.  *)
IsText(text) == text \in Seq(1..(P - 1)) /\ Len(text) <= StrWidth
TextEncrypted(text, ls, literal) ==
  \A k \in 1..StrWidth : ls[literal + k - 1].ct = EncryptScalar(CharAt(text, k))
LEMMA StringMaskExact ==
  ASSUME NEW pkg1, NEW node, NEW batch, NEW s, NEW env, NEW i \in 1..Slots, NEW text,
         RowInSlot(batch, i, s, env), IsText(text),
         node.width = StrWidth, node.literal \in Nat,
         TextEncrypted(text, pkg1.literals, node.literal)
  PROVE  Exact(StringMask(pkg1, node, batch), i, Bit(ValueOf(s, node.col, env) = text))
  <1> DEFINE w == StrWidth
             v == ValueOf(s, node.col, env)
             column(k) == ColumnOf(batch, Physical(node.col.alias, node.col.name, k))
             c == [k \in 1..w |-> Lift2(EqMask, column(k), EncryptScalar(CharAt(text, k)))]
  <1> text \in Seq(1..(P - 1)) /\ Len(text) <= StrWidth
    BY DEF IsText
  <1>1. w \in Nat \ {0}
    BY SqlAssumption
  <1>2. StringMask(pkg1, node, batch) = Combine(c)
    BY DEF StringMask, Lift2, TextEncrypted
  <1>3. ASSUME NEW k \in 1..w, column(k) # Failed
        PROVE  /\ v \in Seq(1..(P - 1)) /\ Len(v) <= w
               /\ column(k)[i] = CharAt(v, k)
    <2>1. Physical(node.col.alias, node.col.name, k) \in DOMAIN batch
      BY <1>3 DEF ColumnOf
    <2>2. k # 0 /\ column(k) = batch[Physical(node.col.alias, node.col.name, k)]
      BY <1>1, <2>1 DEF ColumnOf
    <2>3. HoldsChar(v, k, batch[Physical(node.col.alias, node.col.name, k)][i])
      BY <2>1, <2>2 DEF RowInSlot
    <2> QED
      BY <2>2, <2>3 DEF HoldsChar
  <1>4. ASSUME NEW k \in 1..w
        PROVE  \/ c[k] = Failed
               \/ /\ v \in Seq(1..(P - 1)) /\ Len(v) <= w
                  /\ c[k][i] = Bit(CharAt(v, k) = CharAt(text, k))
    <2>1. CASE column(k) = Failed
      BY <2>1 DEF Lift2
    <2>2. CASE column(k) # Failed
      <3>1. c[k] = Failed \/ c[k][i] = EqMask(column(k)[i], EncryptScalar(CharAt(text, k))[i])
        BY DEF Lift2
      <3>2. k \in Nat \ {0}
        BY <1>1
      <3>3. CharAt(v, k) \in Zp /\ CharAt(text, k) \in Zp
        BY <1>3, <2>2, <3>2, CharInZp
      <3>4. EqMask(column(k)[i], EncryptScalar(CharAt(text, k))[i])
              = Bit(CharAt(v, k) = CharAt(text, k))
        BY <1>3, <2>2, <3>3, EqMaskExact, ScalarInEverySlot
      <3> QED
        BY <1>3, <2>2, <3>1, <3>4
    <2> QED
      BY <2>1, <2>2
  <1>5. DOMAIN c = 1..w /\ Len(c) = w
    BY <1>1
  <1> HIDE DEF c, column, v, w
  <1>6. PICK g : IsProduct(g, w, c) /\ Combine(c) = g[w]
    BY <1>1, <1>5, CombineProducts
  <1> DEFINE S == {n \in 0..w : n # 0 =>
                     \/ g[n] = Failed
                     \/ /\ v \in Seq(1..(P - 1)) /\ Len(v) <= w
                        /\ g[n][i] = Bit(\A k \in 1..n : CharAt(v, k) = CharAt(text, k))}
  <1>7. 0 \in S
    BY <1>1
  <1>8. ASSUME NEW n \in Nat, n < w, n \in S PROVE n + 1 \in S
    <2>1. n + 1 \in 1..w /\ n + 1 \in 0..w /\ n + 1 # 0 /\ (n + 1) - 1 = n
      BY <1>1, <1>8
    <2>2. g[n + 1] = IF n = 0 THEN c[1] ELSE Both(g[n], c[n + 1])
      <3>1. n + 1 = 1 <=> n = 0
        BY <1>8
      <3>2. g[n + 1] = IF n + 1 = 1 THEN c[1] ELSE Both(g[(n + 1) - 1], c[n + 1])
        BY <1>6, <2>1 DEF IsProduct
      <3> QED
        BY <2>1, <3>1, <3>2
    <2>3. \/ c[n + 1] = Failed
          \/ /\ v \in Seq(1..(P - 1)) /\ Len(v) <= w
             /\ c[n + 1][i] = Bit(CharAt(v, n + 1) = CharAt(text, n + 1))
      BY <1>4, <2>1
    <2>4. CASE n = 0
      <3>1. 1..(n + 1) = {n + 1} /\ n + 1 = 1
        BY <2>4
      <3> QED
        BY <2>1, <2>2, <2>3, <2>4, <3>1
    <2>5. CASE n # 0
      <3>1. CASE g[n] = Failed \/ c[n + 1] = Failed
        BY <2>1, <2>2, <2>5, <3>1 DEF Both, Lift2
      <3>2. CASE g[n] # Failed /\ c[n + 1] # Failed
        <4>1. g[n + 1][i] = AndMask(g[n][i], c[n + 1][i])
          BY <2>2, <2>5, <3>2 DEF Both, Lift2
        <4>2. g[n][i] = Bit(\A k \in 1..n : CharAt(v, k) = CharAt(text, k))
          BY <1>8, <2>5, <3>2
        <4>3. 1..(n + 1) = 1..n \cup {n + 1}
          OBVIOUS
        <4>4. (\A k \in 1..(n + 1) : CharAt(v, k) = CharAt(text, k))
                <=> /\ \A k \in 1..n : CharAt(v, k) = CharAt(text, k)
                    /\ CharAt(v, n + 1) = CharAt(text, n + 1)
          BY <4>3
        <4>5. g[n + 1][i] = Bit(\A k \in 1..(n + 1) : CharAt(v, k) = CharAt(text, k))
          BY <2>3, <3>2, <4>1, <4>2, <4>4, ConnectivesExact DEF Bit
        <4> QED
          BY <2>1, <2>3, <3>2, <4>5
      <3> QED
        BY <3>1, <3>2
    <2> QED
      BY <2>4, <2>5
  <1>9. w \in S
    <2> HIDE DEF S
    <2>1. 0..w \subseteq S
      BY <1>1, <1>7, <1>8, UpTo
    <2> QED
      BY <1>1, <2>1
  <1>10. CASE g[w] = Failed
    BY <1>2, <1>6, <1>10 DEF Exact
  <1>11. CASE g[w] # Failed
    <2>1. /\ v \in Seq(1..(P - 1)) /\ Len(v) <= w
          /\ g[w][i] = Bit(\A k \in 1..w : CharAt(v, k) = CharAt(text, k))
      BY <1>1, <1>9, <1>11
    <2>2. v = text <=> \A k \in 1..w : CharAt(v, k) = CharAt(text, k)
      BY <1>1, <2>1, EqualByCharacters DEF w
    <2> QED
      BY <1>2, <1>6, <2>1, <2>2 DEF v, Bit, Exact
  <1> QED
    BY <1>10, <1>11

(* The node built for an expression, by its kind.                          *)
Refers(node, e, n, src) ==
  node.left \in 1..(n - 1) /\ src[node.left] = e.left
RefersTwice(node, e, n, src) ==
  Refers(node, e, n, src) /\ node.right \in 1..(n - 1) /\ src[node.right] = e.right
IsNodeFor(e, n, node, ls, src, table) ==
  /\ e.kind \in {"ColumnRef", "IntLiteral", "Not"} \cup Comparisons \cup Connectives
  /\ IsCol(e) => node.kind = "ColumnRef" /\ node.col = e
  /\ IsInt(e) => node.kind = "LiteralRef" /\ ls[node.literal].ct = EncryptScalar(e.value)
  /\ OnString(e) =>
       /\ node.kind = IF e.kind = "Equal" THEN "StringEqual" ELSE "StringNotEqual"
       /\ node.col = ColumnSide(e) /\ node.literal \in Nat
       /\ HasColumn(table, ColumnSide(e).name)
       /\ node.width = Column(table, ColumnSide(e).name).maxLength
       /\ \A k \in 1..node.width :
             ls[node.literal + k - 1].ct = EncryptScalar(CharAt(LiteralText(e), k))
  /\ e.kind = "Not" => node.kind = "Not" /\ Refers(node, e, n, src)
  /\ e.kind \in Comparisons \cup Connectives /\ ~OnString(e) =>
       node.kind = e.kind /\ RefersTwice(node, e, n, src)
LEMMA NodeBuilt ==
  ASSUME NEW e, NEW n \in Nat, NEW node, NEW ls, NEW src, NEW table,
         BuiltFor(e, n, node, ls, src, table)
  PROVE  IsNodeFor(e, n, node, ls, src, table)
  <1> DEFINE w == EncodedWidth(e, table)
  <1>1. PICK r, l : BuiltWith(e, n, node, ls, src, table, r, l)
    BY DEF BuiltFor
  <1>2. /\ ~CannotEncode(e, table) /\ node = NodeOf(e, r, l + 1, w) /\ l \in Nat
        /\ \A k \in 1..Len(LiteralsFor(e, w)) : ls[l + k] = LiteralsFor(e, w)[k]
        /\ \A k \in 1..Len(Operands(e)) : r[k] \in 1..(n - 1) /\ src[r[k]] = Operands(e)[k]
    BY <1>1 DEF BuiltWith
  <1>3. e.kind \in {"ColumnRef", "IntLiteral", "Not"} \cup Comparisons \cup Connectives
    BY <1>2 DEF CannotEncode
  <1>4. IsCol(e) => node.kind = "ColumnRef" /\ node.col = e
    BY <1>2 DEF NodeOf, IsCol, IsInt, OnString, Comparisons, Orderings
  <1>5. ASSUME IsInt(e) PROVE node.kind = "LiteralRef" /\ ls[node.literal].ct = EncryptScalar(e.value)
    <2> DEFINE x == [type |-> "INT64", ct |-> EncryptScalar(e.value)]
    <2>1. ~IsCol(e)
      BY <1>5 DEF IsInt, IsCol
    <2>2. node = [kind |-> "LiteralRef", literal |-> l + 1] /\ LiteralsFor(e, w) = <<x>>
      BY <1>2, <1>5, <2>1 DEF NodeOf, LiteralsFor, IsInt, OnString, Comparisons, Orderings
    <2>3. x.ct = EncryptScalar(e.value)
      OBVIOUS
    <2> HIDE DEF x, w
    <2>4. Len(<<x>>) = 1 /\ 1 \in 1..1 /\ <<x>>[1] = x
      OBVIOUS
    <2> QED
      BY <1>2, <2>2, <2>3, <2>4
  <1>6. ASSUME OnString(e)
        PROVE  /\ node.kind = IF e.kind = "Equal" THEN "StringEqual" ELSE "StringNotEqual"
               /\ node.col = ColumnSide(e) /\ node.literal \in Nat
               /\ HasColumn(table, ColumnSide(e).name)
               /\ node.width = Column(table, ColumnSide(e).name).maxLength
               /\ \A k \in 1..node.width :
                     ls[node.literal + k - 1].ct = EncryptScalar(CharAt(LiteralText(e), k))
    <2>1. ~IsCol(e) /\ ~IsInt(e)
      BY <1>6 DEF OnString, IsCol, IsInt, Comparisons, Orderings
    <2>2. node = StringNode(e, l + 1, w) /\ LiteralsFor(e, w) = EncryptedString(LiteralText(e), w)
      BY <1>2, <1>6, <2>1 DEF NodeOf, LiteralsFor, OnString, Comparisons, Orderings
    <2>3. w = Column(table, ColumnSide(e).name).maxLength
      BY <1>6 DEF EncodedWidth
    <2>4. HasColumn(table, ColumnSide(e).name)
      BY <1>2, <1>6, ColumnByName DEF CannotEncode
    <2>5. w \in Nat
      BY <2>3, WidthTyped
    <2> HIDE DEF w
    <2>6. /\ node.kind = IF e.kind = "Equal" THEN "StringEqual" ELSE "StringNotEqual"
          /\ node.col = ColumnSide(e) /\ node.literal = l + 1 /\ node.width = w
      BY <2>2 DEF StringNode
    <2>7. Len(LiteralsFor(e, w)) = w
      BY <2>2, <2>5 DEF EncryptedString
    <2>8. ASSUME NEW k \in 1..w
          PROVE  ls[node.literal + k - 1].ct = EncryptScalar(CharAt(LiteralText(e), k))
      <3>1. node.literal + k - 1 = l + k
        BY <1>2, <2>5, <2>6
      <3>2. ls[l + k] = LiteralsFor(e, w)[k]
        BY <1>2, <2>7
      <3>3. LiteralsFor(e, w)[k].ct = EncryptScalar(CharAt(LiteralText(e), k))
        BY <2>2 DEF EncryptedString, CharAt
      <3> QED
        BY <3>1, <3>2, <3>3
    <2> QED
      BY <1>2, <2>3, <2>4, <2>6, <2>8
  <1>7. ASSUME e.kind = "Not" PROVE node.kind = "Not" /\ Refers(node, e, n, src)
    <2>1. ~IsCol(e) /\ ~IsInt(e) /\ ~OnString(e)
      BY <1>7 DEF OnString, IsCol, IsInt, Comparisons, Orderings
    <2>2. node = [kind |-> "Not", left |-> r[1]] /\ Operands(e) = <<e.left>>
      BY <1>2, <1>7, <2>1 DEF NodeOf, Operands, Comparisons, Orderings, Connectives
    <2>3. Len(<<e.left>>) = 1 /\ 1 \in 1..1 /\ <<e.left>>[1] = e.left
      OBVIOUS
    <2> QED
      BY <1>2, <2>2, <2>3 DEF Refers
  <1>8. ASSUME e.kind \in Comparisons \cup Connectives, ~OnString(e)
        PROVE  node.kind = e.kind /\ RefersTwice(node, e, n, src)
    <2>1. ~IsCol(e) /\ ~IsInt(e) /\ e.kind # "Not"
      BY <1>8 DEF IsCol, IsInt, Comparisons, Orderings, Connectives
    <2>2. /\ node = [kind |-> e.kind, left |-> r[1], right |-> r[2]]
          /\ Operands(e) = <<e.left, e.right>>
      BY <1>2, <1>8, <2>1 DEF NodeOf, Operands
    <2>3. /\ Len(<<e.left, e.right>>) = 2 /\ 1 \in 1..2 /\ 2 \in 1..2
          /\ <<e.left, e.right>>[1] = e.left /\ <<e.left, e.right>>[2] = e.right
      OBVIOUS
    <2>4. /\ r[1] \in 1..(n - 1) /\ src[r[1]] = e.left
          /\ r[2] \in 1..(n - 1) /\ src[r[2]] = e.right
      BY <1>2, <2>2, <2>3
    <2> QED
      BY <2>2, <2>4 DEF Refers, RefersTwice
  <1> QED
    BY <1>3, <1>4, <1>5, <1>6, <1>7, <1>8 DEF IsNodeFor

(* A comparison of integers, whose values the operands have in slot i.     *)
LEMMA ComparisonExact ==
  ASSUME NEW pkg1, NEW node, NEW batch, NEW s, NEW env, NEW i \in 1..Slots, NEW l, NEW r, NEW e,
         e.kind \in Comparisons, node.kind = e.kind,
         l # Failed => Operand(s, e.left, env) \in 0..H, Exact(l, i, Operand(s, e.left, env)),
         r # Failed => Operand(s, e.right, env) \in 0..H, Exact(r, i, Operand(s, e.right, env))
  PROVE  Exact(Evaluated(pkg1, node, batch, l, r), i, Bit(ConditionHolds(s, e, env)))
  <1> DEFINE a == Operand(s, e.left, env)
             b == Operand(s, e.right, env)
             x == Evaluated(pkg1, node, batch, l, r)
  <1>1. e.kind \in {"Equal", "NotEqual", "GreaterThan", "LessThan", "GreaterEqual", "LessEqual"}
    BY DEF Comparisons, Orderings
  <1>2. CASE l = Failed \/ r = Failed
    <2>1. ASSUME e.kind # "NotEqual" PROVE x = Failed
      BY <1>1, <1>2, <2>1 DEF Evaluated, Lift2
    <2>2. ASSUME e.kind = "NotEqual" PROVE x = Failed
      BY <1>2, <2>2 DEF Evaluated, Lift2, Lift1
    <2> QED
      BY <2>1, <2>2 DEF Exact
  <1>3. CASE l # Failed /\ r # Failed
    <2>1. /\ a \in 0..H /\ b \in 0..H /\ l[i] = a /\ r[i] = b
      BY <1>3 DEF Exact
    <2>2. a \in Zp /\ b \in Zp /\ a \in Int /\ b \in Int
      BY <2>1, Modulus DEF Zp
    <2>3. /\ EqMask(a, b) = Bit(a = b) /\ GtMask(a, b) = Bit(a > b) /\ LtMask(a, b) = Bit(a < b)
          /\ OrMask(GtMask(a, b), EqMask(a, b)) = Bit(a >= b)
          /\ OrMask(LtMask(a, b), EqMask(a, b)) = Bit(a <= b)
      BY <2>1, <2>2, EqMaskExact, ComparisonMasksExact
    <2> HIDE DEF a, b
    <2>4. ASSUME e.kind = "Equal" PROVE Exact(x, i, Bit(a = b))
      BY <2>1, <2>3, <2>4 DEF Evaluated, Lift2, Exact
    <2>5. ASSUME e.kind = "NotEqual" PROVE Exact(x, i, Bit(a # b))
      BY <2>1, <2>3, <2>5, ConnectivesExact DEF Evaluated, Lift2, Lift1, Exact, Bit
    <2>6. ASSUME e.kind = "GreaterThan" PROVE Exact(x, i, Bit(a > b))
      BY <2>1, <2>3, <2>6 DEF Evaluated, Lift2, Exact
    <2>7. ASSUME e.kind = "LessThan" PROVE Exact(x, i, Bit(a < b))
      BY <2>1, <2>3, <2>7 DEF Evaluated, Lift2, Exact
    <2>8. ASSUME e.kind = "GreaterEqual" PROVE Exact(x, i, Bit(a >= b))
      BY <2>1, <2>3, <2>8 DEF Evaluated, Lift2, Exact
    <2>9. ASSUME e.kind = "LessEqual" PROVE Exact(x, i, Bit(a <= b))
      BY <2>1, <2>3, <2>9 DEF Evaluated, Lift2, Exact
    <2>10. /\ e.kind = "Equal" => (ConditionHolds(s, e, env) <=> a = b)
           /\ e.kind = "NotEqual" => (ConditionHolds(s, e, env) <=> a # b)
           /\ e.kind = "GreaterThan" => (ConditionHolds(s, e, env) <=> a > b)
           /\ e.kind = "LessThan" => (ConditionHolds(s, e, env) <=> a < b)
           /\ e.kind = "GreaterEqual" => (ConditionHolds(s, e, env) <=> a >= b)
           /\ e.kind = "LessEqual" => (ConditionHolds(s, e, env) <=> a <= b)
      BY DEF ConditionHolds, a, b
    <2> DEFINE held == Bit(ConditionHolds(s, e, env))
    <2>11. /\ e.kind = "Equal" => held = Bit(a = b)
           /\ e.kind = "NotEqual" => held = Bit(a # b)
           /\ e.kind = "GreaterThan" => held = Bit(a > b)
           /\ e.kind = "LessThan" => held = Bit(a < b)
           /\ e.kind = "GreaterEqual" => held = Bit(a >= b)
           /\ e.kind = "LessEqual" => held = Bit(a <= b)
      BY <2>10 DEF Bit
    <2> HIDE DEF x, held
    <2>12. Exact(x, i, held)
      BY <1>1, <2>4, <2>5, <2>6, <2>7, <2>8, <2>9, <2>11
    <2> QED
      BY <2>12 DEF x, held
  <1> QED
    BY <1>2, <1>3

LEMMA ConnectiveExact ==
  ASSUME NEW pkg1, NEW node, NEW batch, NEW held, NEW i \in 1..Slots, NEW l, NEW r, NEW e,
         e.kind \in {"Not"} \cup Connectives, node.kind = e.kind,
         Exact(l, i, Bit(e.left \in held)),
         e.kind \in Connectives => Exact(r, i, Bit(e.right \in held))
  PROVE  Exact(Evaluated(pkg1, node, batch, l, r), i, Bit(ConnectiveHolds(e, held)))
  <1> DEFINE x == Evaluated(pkg1, node, batch, l, r)
             a == e.left \in held
             b == e.right \in held
  <1>1. CASE e.kind = "Not"
    <2>1. x = Lift1(NotMask, l)
      BY <1>1 DEF Evaluated
    <2>2. Exact(x, i, Bit(~a))
      <3>1. CASE l = Failed
        BY <2>1, <3>1 DEF Lift1, Exact
      <3>2. CASE l # Failed
        BY <2>1, <3>2, ConnectivesExact DEF Lift1, Exact, Bit
      <3> QED
        BY <3>1, <3>2
    <2>3. ConnectiveHolds(e, held) <=> ~a
      BY <1>1 DEF ConnectiveHolds
    <2>4. Bit(ConnectiveHolds(e, held)) = Bit(~a)
      BY <2>3 DEF Bit
    <2> QED
      BY <2>2, <2>4
  <1>2. CASE e.kind = "And"
    <2>1. x = Lift2(AndMask, l, r)
      BY <1>2 DEF Evaluated
    <2>2. Exact(l, i, Bit(a)) /\ Exact(r, i, Bit(b))
      BY <1>2 DEF Connectives
    <2>3. Exact(x, i, Bit(a /\ b))
      <3>1. CASE l = Failed \/ r = Failed
        BY <2>1, <3>1 DEF Lift2, Exact
      <3>2. CASE l # Failed /\ r # Failed
        BY <2>1, <2>2, <3>2, ConnectivesExact DEF Lift2, Exact, Bit
      <3> QED
        BY <3>1, <3>2
    <2>4. ConnectiveHolds(e, held) <=> a /\ b
      BY <1>2 DEF ConnectiveHolds
    <2>5. Bit(ConnectiveHolds(e, held)) = Bit(a /\ b)
      BY <2>4 DEF Bit
    <2> QED
      BY <2>3, <2>5
  <1>3. CASE e.kind = "Or"
    <2>1. x = Lift2(OrMask, l, r)
      BY <1>3 DEF Evaluated
    <2>2. Exact(l, i, Bit(a)) /\ Exact(r, i, Bit(b))
      BY <1>3 DEF Connectives
    <2>3. Exact(x, i, Bit(a \/ b))
      <3>1. CASE l = Failed \/ r = Failed
        BY <2>1, <3>1 DEF Lift2, Exact
      <3>2. CASE l # Failed /\ r # Failed
        BY <2>1, <2>2, <3>2, ConnectivesExact DEF Lift2, Exact, Bit
      <3> QED
        BY <3>1, <3>2
    <2>4. ConnectiveHolds(e, held) <=> a \/ b
      BY <1>3 DEF ConnectiveHolds
    <2>5. Bit(ConnectiveHolds(e, held)) = Bit(a \/ b)
      BY <2>4 DEF Bit
    <2> QED
      BY <2>3, <2>5
  <1> QED
    BY <1>1, <1>2, <1>3 DEF Connectives

LEMMA StringConditionExact ==
  ASSUME NEW pkg1, NEW node, NEW batch, NEW s, NEW env, NEW i \in 1..Slots, NEW l, NEW r, NEW e,
         RowInSlot(batch, i, s, env),
         OnString(e), e.kind \in {"Equal", "NotEqual"}, IsText(LiteralText(e)),
         node.kind = IF e.kind = "Equal" THEN "StringEqual" ELSE "StringNotEqual",
         node.col = ColumnSide(e), node.literal \in Nat, node.width = StrWidth,
         TextEncrypted(LiteralText(e), pkg1.literals, node.literal)
  PROVE  Exact(Evaluated(pkg1, node, batch, l, r), i, Bit(ConditionHolds(s, e, env)))
  <1> DEFINE mask == StringMask(pkg1, node, batch)
             x == Evaluated(pkg1, node, batch, l, r)
             same == ValueOf(s, ColumnSide(e), env) = LiteralText(e)
  <1>1. Exact(mask, i, Bit(same))
    BY StringMaskExact
  <1>2. Operand(s, e.left, env) = Operand(s, e.right, env) <=> same
    BY DEF OnString, StringComparison, Operand, ColumnSide, LiteralText, LiteralSide, IsCol, IsStr
  <1>3. CASE e.kind = "Equal"
    <2>1. x = mask
      BY <1>3 DEF Evaluated
    <2>2. ConditionHolds(s, e, env) <=> same
      BY <1>2, <1>3 DEF ConditionHolds
    <2> HIDE DEF x, mask, same
    <2>3. Bit(ConditionHolds(s, e, env)) = Bit(same)
      BY <2>2 DEF Bit
    <2>4. Exact(x, i, Bit(ConditionHolds(s, e, env)))
      BY <1>1, <2>1, <2>3
    <2> QED
      BY <2>4 DEF x
  <1>4. CASE e.kind = "NotEqual"
    <2>1. x = Lift1(NotMask, mask)
      BY <1>4 DEF Evaluated
    <2>2. ConditionHolds(s, e, env) <=> ~same
      BY <1>2, <1>4 DEF ConditionHolds
    <2> HIDE DEF x, mask, same
    <2>3. Bit(ConditionHolds(s, e, env)) = Bit(~same)
      BY <2>2 DEF Bit
    <2>4. Exact(x, i, Bit(~same))
      <3>1. CASE mask = Failed
        BY <2>1, <3>1 DEF Lift1, Exact
      <3>2. CASE mask # Failed
        BY <1>1, <2>1, <3>2, ConnectivesExact DEF Lift1, Exact, Bit
      <3> QED
        BY <3>1, <3>2
    <2>5. Exact(x, i, Bit(ConditionHolds(s, e, env)))
      BY <2>3, <2>4
    <2> QED
      BY <2>5 DEF x
  <1> QED
    BY <1>3, <1>4

(* A condition is still there on every level below the one it is on.       *)
LEMMA ConditionsStay ==
  ASSUME NEW e, NEW n \in 0..MaxNesting, NEW f \in ToSet(Visited(e)[n]), IsCondition(f)
  PROVE  f \in ToSet(Conditions(e))
  <1> DEFINE m == MaxNesting
             Level(k) == ToSet(Visited(e)[k])
             S == {k \in 0..m : n <= k => f \in Level(k)}
  <1>1. m \in Nat
    BY NestingAssumption
  <1>2. \A k \in 1..m : Level(k) = UNION {ToSet(Connected(g)) : g \in Level(k - 1)}
    BY VisitedLevels
  <1>3. f \in Level(n)
    OBVIOUS
  <1>4. n \in 0..m
    OBVIOUS
  <1> HIDE DEF m, Level
  <1>5. 0 \in S
    BY <1>1, <1>3, <1>4
  <1>6. ASSUME NEW k \in Nat, k < m, k \in S PROVE k + 1 \in S
    <2>1. k + 1 \in 1..m /\ k + 1 \in 0..m /\ (k + 1) - 1 = k
      BY <1>1, <1>6
    <2>2. CASE n <= k
      <3>1. f \in Level(k)
        BY <1>6, <2>2
      <3>2. f \in ToSet(Connected(f))
        BY ConnectedIsSeq
      <3> QED
        BY <1>2, <2>1, <3>1, <3>2
    <2>3. CASE ~ (n <= k)
      <3>1. n <= k + 1 => n = k + 1
        BY <1>1, <1>4, <2>3
      <3> QED
        BY <1>3, <2>1, <3>1
    <2> QED
      BY <2>2, <2>3
  <1>7. m \in S
    <2> HIDE DEF S
    <2>1. 0..m \subseteq S
      BY <1>1, <1>5, <1>6, UpTo
    <2> QED
      BY <1>1, <2>1
  <1>8. f \in Level(m)
    BY <1>1, <1>4, <1>7
  <1> QED
    BY <1>8 DEF Conditions, Level, m

-----------------------------------------------------------------------------
(* The clause: every vector is what its node was built for, in slot i.     *)
Conditioned(s) ==
  \A f \in ToSet(Conditions(s.where)) :
     /\ IsCondition(f)
     /\ f.kind \in Comparisons =>
           /\ ComparisonShape(f)
           /\ OnString(f) => /\ f.kind \in {"Equal", "NotEqual"} /\ IsText(LiteralText(f))
                             /\ ColumnSide(f).name \in {"name", "department_name"}
LEMMA AcceptedConditions ==
  ASSUME NEW s \in Statements, Analyze(s) = Ok
  PROVE  Conditioned(s)
  <1>1. ASSUME NEW f \in ToSet(Conditions(s.where)) PROVE IsCondition(f)
    BY StatementsAssumption DEF IsStatement
  <1> QED
    BY <1>1, AcceptedComparison DEF Conditioned, IsText

InRange(s) ==
  \A a \in Atoms(s.where) : /\ a.kind \in Comparisons
                            /\ \A o \in Compares(a) : IsInt(o) => o.value \in 0..H
IsOperand(s, f, x, i, env) ==
  (x # Failed => Operand(s, f, env) \in 0..H) /\ Exact(x, i, Operand(s, f, env))
VectorExact(s, f, x, i, env) ==
  /\ IsCol(f) \/ (IsInt(f) /\ f.value \in 0..H) => IsOperand(s, f, x, i, env)
  /\ \A k \in 0..MaxNesting : f \in ToSet(Visited(s.where)[MaxNesting - k]) =>
        Exact(x, i, Bit(f \in Holding(s, s.where, env)[k]))

LEMMA OperandExact ==
  ASSUME NEW pkg1, NEW node, NEW batch, NEW s, NEW env, NEW i \in 1..Slots, NEW l, NEW r, NEW f,
         RowInSlot(batch, i, s, env),
         IsCol(f) => node.kind = "ColumnRef" /\ node.col = f,
         IsInt(f) => /\ f.value \in 0..H /\ node.kind = "LiteralRef"
                     /\ pkg1.literals[node.literal].ct = EncryptScalar(f.value),
         IsCol(f) \/ IsInt(f)
  PROVE  IsOperand(s, f, Evaluated(pkg1, node, batch, l, r), i, env)
  <1> DEFINE x == Evaluated(pkg1, node, batch, l, r)
  <1>1. CASE IsCol(f)
    <2> DEFINE p == Physical(f.alias, f.name, 0)
    <2>1. x = ColumnOf(batch, p) /\ Operand(s, f, env) = ValueOf(s, f, env)
      BY <1>1 DEF Evaluated, Operand
    <2>2. CASE p \notin DOMAIN batch
      BY <2>1, <2>2 DEF ColumnOf, IsOperand, Exact
    <2>3. CASE p \in DOMAIN batch
      <3>1. Holds0(ValueOf(s, f, env), batch[p][i])
        BY <2>3 DEF RowInSlot
      <3> QED
        BY <2>1, <2>3, <3>1 DEF ColumnOf, IsOperand, Exact, Holds0
    <2> QED
      BY <2>2, <2>3
  <1>2. CASE IsInt(f)
    <2>1. ~IsCol(f)
      BY <1>2 DEF IsInt, IsCol
    <2>2. x = EncryptScalar(f.value) /\ Operand(s, f, env) = f.value /\ f.value \in 0..H
      BY <1>2, <2>1 DEF Evaluated, Operand
    <2>3. f.value \in Zp
      BY <2>2, Modulus DEF Zp
    <2> QED
      BY <2>2, <2>3, ScalarInEverySlot DEF IsOperand, Exact
  <1> QED
    BY <1>1, <1>2

LEMMA ConditionExact ==
  ASSUME NEW s, Conditioned(s), InRange(s),
         NEW f \in ToSet(Conditions(s.where)),
         NEW pkg1, NEW n \in Nat, NEW node, NEW src,
         BuiltFor(f, n, node, pkg1.literals, src, s.table),
         NEW batch, NEW env, NEW i \in 1..Slots, RowInSlot(batch, i, s, env),
         NEW l, NEW r,
         RefersTwice(node, f, n, src) =>
            /\ VectorExact(s, f.left, l, i, env) /\ VectorExact(s, f.right, r, i, env)
  PROVE  Exact(Evaluated(pkg1, node, batch, l, r), i, Bit(ConditionHolds(s, f, env)))
  <1>1. f.kind \in {"ColumnRef", "IntLiteral", "Not"} \cup Comparisons \cup Connectives
    BY NodeBuilt DEF IsNodeFor
  <1>2. f.kind # "none"
    BY <1>1 DEF Comparisons, Orderings, Connectives
  <1>3. f \in Atoms(s.where)
    BY <1>2 DEF Atoms, NoExpr
  <1>4. f.kind \in Comparisons /\ \A o \in Compares(f) : IsInt(o) => o.value \in 0..H
    BY <1>3 DEF InRange
  <1>5. /\ ComparisonShape(f)
        /\ OnString(f) => /\ f.kind \in {"Equal", "NotEqual"} /\ IsText(LiteralText(f))
                          /\ ColumnSide(f).name \in {"name", "department_name"}
    BY <1>4 DEF Conditioned
  <1>6. CASE OnString(f)
    <2>1. /\ node.kind = IF f.kind = "Equal" THEN "StringEqual" ELSE "StringNotEqual"
          /\ node.col = ColumnSide(f) /\ node.literal \in Nat
          /\ HasColumn(s.table, ColumnSide(f).name)
          /\ node.width = Column(s.table, ColumnSide(f).name).maxLength
          /\ \A k \in 1..node.width :
                pkg1.literals[node.literal + k - 1].ct = EncryptScalar(CharAt(LiteralText(f), k))
      BY <1>6, NodeBuilt DEF IsNodeFor
    <2>2. node.width = StrWidth
      BY <1>5, <1>6, <2>1, ColumnByName DEF String
    <2>3. TextEncrypted(LiteralText(f), pkg1.literals, node.literal)
      BY <2>1, <2>2 DEF TextEncrypted
    <2> QED
      BY <1>5, <1>6, <2>1, <2>2, <2>3, StringConditionExact
  <1>7. CASE ~OnString(f)
    <2>1. node.kind = f.kind /\ RefersTwice(node, f, n, src)
      BY <1>4, <1>7, NodeBuilt DEF IsNodeFor
    <2>2. /\ IsCol(f.left) \/ IsInt(f.left)
          /\ IsCol(f.right) \/ IsInt(f.right)
      BY <1>4, <1>5, <1>7 DEF ComparisonShape, OnString, StringComparison
    <2>3. Compares(f) = {f.left, f.right}
      BY <1>4 DEF Compares
    <2>4. IsOperand(s, f.left, l, i, env) /\ IsOperand(s, f.right, r, i, env)
      BY <1>4, <2>1, <2>2, <2>3 DEF VectorExact
    <2> QED
      BY <1>4, <2>1, <2>4, ComparisonExact DEF IsOperand
  <1> QED
    BY <1>6, <1>7

LEMMA NodeVectorExact ==
  ASSUME NEW s, Conditioned(s), InRange(s), NEW f,
         NEW pkg1, NEW n \in Nat, NEW node, NEW src,
         BuiltFor(f, n, node, pkg1.literals, src, s.table),
         NEW batch, NEW env, NEW i \in 1..Slots, RowInSlot(batch, i, s, env),
         NEW l, NEW r,
         Refers(node, f, n, src) => VectorExact(s, f.left, l, i, env),
         RefersTwice(node, f, n, src) => VectorExact(s, f.right, r, i, env)
  PROVE  VectorExact(s, f, Evaluated(pkg1, node, batch, l, r), i, env)
  <1> DEFINE x == Evaluated(pkg1, node, batch, l, r)
             Level(k) == ToSet(Visited(s.where)[MaxNesting - k])
             held(k) == Holding(s, s.where, env)[k]
  <1>0. IsNodeFor(f, n, node, pkg1.literals, src, s.table)
    BY NodeBuilt
  <1>1. MaxNesting \in Nat
    BY NestingAssumption
  <1>2. ASSUME IsCol(f) \/ (IsInt(f) /\ f.value \in 0..H) PROVE IsOperand(s, f, x, i, env)
    <2>1. /\ IsCol(f) => node.kind = "ColumnRef" /\ node.col = f
          /\ IsInt(f) => /\ node.kind = "LiteralRef"
                         /\ pkg1.literals[node.literal].ct = EncryptScalar(f.value)
      BY <1>0 DEF IsNodeFor
    <2>2. IsInt(f) => ~IsCol(f)
      BY DEF IsInt, IsCol
    <2> QED
      BY <1>2, <2>1, <2>2, OperandExact
  <1>3. ASSUME NEW k \in 0..MaxNesting, f \in Level(k) PROVE Exact(x, i, Bit(f \in held(k)))
    <2>1. f \in held(k) <=> IF IsCondition(f) THEN ConditionHolds(s, f, env)
                            ELSE k > 0 /\ ConnectiveHolds(f, held(k - 1))
      BY <1>3, HoldingLevels
    <2>2. CASE IsCondition(f)
      <3>1. MaxNesting - k \in 0..MaxNesting
        BY <1>1
      <3>2. f \in ToSet(Conditions(s.where))
        BY <1>3, <2>2, <3>1, ConditionsStay
      <3>3. RefersTwice(node, f, n, src) => Refers(node, f, n, src)
        BY DEF RefersTwice
      <3>4. Exact(x, i, Bit(ConditionHolds(s, f, env)))
        BY <3>2, <3>3, ConditionExact
      <3>5. Bit(f \in held(k)) = Bit(ConditionHolds(s, f, env))
        BY <2>1, <2>2 DEF Bit
      <3> QED
        BY <3>4, <3>5
    <2>3. CASE ~IsCondition(f)
      <3>1. f.kind \in {"Not"} \cup Connectives
        BY <2>3 DEF IsCondition
      <3>2. k # 0
        <4>1. k = 0 => f \in ToSet(Conditions(s.where))
          BY <1>1, <1>3 DEF Conditions
        <4> QED
          BY <2>3, <4>1 DEF Conditioned
      <3>3. /\ k > 0 /\ k - 1 \in 0..MaxNesting /\ MaxNesting - k \in 0..MaxNesting
            /\ MaxNesting - (k - 1) \in 1..MaxNesting
            /\ (MaxNesting - (k - 1)) - 1 = MaxNesting - k
        BY <1>1, <3>2
      <3>4. ToSet(Connected(f)) \subseteq Level(k - 1)
        <4>1. Level(k - 1) = UNION {ToSet(Connected(g)) : g \in Level(k)}
          BY <3>3, VisitedLevels
        <4> QED
          BY <1>3, <4>1
      <3>5. /\ f.left \in Level(k - 1)
            /\ f.kind \in Connectives => f.right \in Level(k - 1)
        BY <3>1, <3>4, ConnectedIsSeq
      <3>6. ~OnString(f)
        BY <3>1 DEF OnString, Comparisons, Orderings, Connectives
      <3>7. node.kind = f.kind /\ Refers(node, f, n, src)
            /\ (f.kind \in Connectives => RefersTwice(node, f, n, src))
        BY <3>1, <3>6, <1>0 DEF IsNodeFor, RefersTwice
      <3>8. /\ Exact(l, i, Bit(f.left \in held(k - 1)))
            /\ f.kind \in Connectives => Exact(r, i, Bit(f.right \in held(k - 1)))
        BY <3>3, <3>5, <3>7 DEF VectorExact
      <3>9. PICK below : below = held(k - 1)
        OBVIOUS
      <3>10. Exact(x, i, Bit(ConnectiveHolds(f, below)))
        BY <3>1, <3>7, <3>8, <3>9, ConnectiveExact
      <3>11. Bit(f \in held(k)) = Bit(ConnectiveHolds(f, below))
        BY <2>1, <2>3, <3>3, <3>9 DEF Bit
      <3> QED
        BY <3>10, <3>11
    <2> QED
      BY <2>2, <2>3
  <1> QED
    BY <1>2, <1>3 DEF VectorExact

HasKind(e, n, node, src) ==
  /\ node.kind \in NodeKinds /\ Children(node) \subseteq 1..(n - 1)
  /\ Refers(node, e, n, src) => node.left \in 1..(n - 1) /\ src[node.left] = e.left
  /\ RefersTwice(node, e, n, src) => node.right \in 1..(n - 1) /\ src[node.right] = e.right
LEMMA NodeTyped ==
  ASSUME NEW e, NEW n \in Nat, NEW node, NEW ls, NEW src, NEW table,
         BuiltFor(e, n, node, ls, src, table)
  PROVE  HasKind(e, n, node, src)
  <1> USE DEF HasKind
  <1>0. IsNodeFor(e, n, node, ls, src, table)
    BY NodeBuilt
  <1>1. CASE IsCol(e) \/ IsInt(e)
    <2>1. node.kind \in {"ColumnRef", "LiteralRef"}
      BY <1>1, <1>0 DEF IsNodeFor
    <2> QED
      BY <2>1 DEF NodeKinds, Children, Comparisons, Orderings, Connectives, Refers, RefersTwice
  <1>2. CASE OnString(e)
    <2>1. node.kind \in {"StringEqual", "StringNotEqual"}
      BY <1>2, <1>0 DEF IsNodeFor
    <2> QED
      BY <2>1 DEF NodeKinds, Children, Comparisons, Orderings, Connectives, Refers, RefersTwice
  <1>3. CASE e.kind = "Not"
    <2>1. node.kind = "Not" /\ Refers(node, e, n, src)
      BY <1>3, <1>0 DEF IsNodeFor
    <2> QED
      BY <2>1 DEF NodeKinds, Children, Comparisons, Orderings, Connectives, Refers, RefersTwice
  <1>4. CASE e.kind \in Comparisons \cup Connectives /\ ~OnString(e)
    <2>1. node.kind = e.kind /\ RefersTwice(node, e, n, src)
      BY <1>4, <1>0 DEF IsNodeFor
    <2>2. Children(node) = {node.left, node.right}
      BY <1>4, <2>1 DEF Children, Comparisons, Orderings, Connectives
    <2> QED
      BY <1>4, <2>1, <2>2 DEF NodeKinds, Refers, RefersTwice
  <1> QED
    BY <1>1, <1>2, <1>3, <1>4, <1>0 DEF IsNodeFor, IsCol, IsInt

(* The mask of a WHERE clause is its truth for the row in the slot.        *)
THEOREM WhereExact ==
  ASSUME NEW s, Conditioned(s), InRange(s),
         NEW pkg1, IsSeq(pkg1.nodes), pkg1.nodes # <<>>,
         NEW src, Encodes(src, pkg1.nodes, pkg1.literals, s.table),
         src[Len(pkg1.nodes)] = s.where,
         NEW batch, NEW env, NEW i \in 1..Slots, RowInSlot(batch, i, s, env)
  PROVE  Exact(Where(pkg1, batch), i, Bit(Holds(s, s.where, env)))
  <1> DEFINE N == Len(pkg1.nodes)
             node(n) == pkg1.nodes[n]
  <1>1. N \in Nat \ {0} /\ DOMAIN pkg1.nodes = 1..N
    BY IsSeqLen
  <1> HIDE DEF N
  <1>2. \A n \in 1..N : n \in Nat /\ BuiltFor(src[n], n, node(n), pkg1.literals, src, s.table)
    BY <1>1 DEF Encodes
  <1>3. \A n \in 1..N : HasKind(src[n], n, node(n), src)
    BY <1>2, NodeTyped
  <1>4. PICK v : IsEval(v, N, pkg1, batch) /\ \A root : Eval(pkg1, root, batch) = v[root]
    <2>1. \A n \in 1..N : /\ pkg1.nodes[n].kind \in NodeKinds
                          /\ Children(pkg1.nodes[n]) \subseteq 1..(n - 1)
      BY <1>3 DEF HasKind
    <2> QED
      BY <1>1, <2>1, EvalVectors
  <1> DEFINE S == {n \in 1..N : VectorExact(s, src[n], v[n], i, env)}
  <1>5. ASSUME NEW n \in 1..N, \A k \in 1..(n - 1) : k \in S PROVE n \in S
    <2> DEFINE l == v[node(n).left]
               r == v[node(n).right]
    <2>1. v[n] = Evaluated(pkg1, node(n), batch, l, r)
      BY <1>4 DEF IsEval
    <2>2. Refers(node(n), src[n], n, src) => VectorExact(s, src[n].left, l, i, env)
      <3>1. ASSUME Refers(node(n), src[n], n, src) PROVE node(n).left \in S
        BY <1>3, <1>5, <3>1 DEF HasKind
      <3> QED
        BY <1>3, <3>1 DEF HasKind
    <2>3. RefersTwice(node(n), src[n], n, src) => VectorExact(s, src[n].right, r, i, env)
      <3>1. ASSUME RefersTwice(node(n), src[n], n, src) PROVE node(n).right \in S
        BY <1>3, <1>5, <3>1 DEF HasKind
      <3> QED
        BY <1>3, <3>1 DEF HasKind
    <2> HIDE DEF l, r
    <2>4. VectorExact(s, src[n], v[n], i, env)
      BY <1>2, <2>1, <2>2, <2>3, NodeVectorExact
    <2> QED
      BY <2>4
  <1>6. N \in S
    <2> HIDE DEF S
    <2>1. 1..N \subseteq S /\ N \in 1..N
      BY <1>1, <1>5, FromAllBefore
    <2> QED
      BY <2>1
  <1>7. Where(pkg1, batch) = v[N]
    BY <1>4 DEF Where, N
  <1>8. s.where \in ToSet(Visited(s.where)[MaxNesting - MaxNesting])
    <2>1. MaxNesting - MaxNesting = 0
      BY NestingAssumption
    <2>2. Visited(s.where)[0] = <<s.where>>
      BY VisitedLevels
    <2>3. \A x : x \in ToSet(<<x>>)
      BY DEF ToSet
    <2> QED
      BY <2>1, <2>2, <2>3
  <1>9. VectorExact(s, s.where, v[N], i, env)
    BY <1>6 DEF N
  <1>10. MaxNesting \in 0..MaxNesting
    BY NestingAssumption
  <1> QED
    BY <1>7, <1>8, <1>9, <1>10 DEF VectorExact, Holds

-----------------------------------------------------------------------------
(* The rows: what the columns of a chunk, or of a pair of chunks, have in  *)
(* the slots.                                                              *)
IsRow(row, t) == \A c \in ToSet(Columns(t)) : IsValue(row[c.name], c)
IsChunk(chunk, t) ==
  /\ Len(chunk) \in Nat /\ DOMAIN chunk = 1..Len(chunk) /\ Len(chunk) <= Slots
  /\ \A i \in DOMAIN chunk : IsRow(chunk[i], t)

InSlot(v, p, slot) == IF p = 0 THEN Holds0(v, slot) ELSE HoldsChar(v, p, slot)
LEMMA StoredExact ==
  ASSUME NEW t, NEW chunk, IsChunk(chunk, t), NEW i \in DOMAIN chunk,
         NEW name, HasColumn(t, name), NEW p \in Positions(Column(t, name))
  PROVE  InSlot(chunk[i][name], p, StoredColumn(chunk, name, p)[i])
  <1> DEFINE v == chunk[i][name]
             c == Column(t, name)
  <1>1. i \in 1..Slots /\ ~ (i > Len(chunk))
    BY SlotsAssumption DEF IsChunk
  <1>2. StoredColumn(chunk, name, p)[i] = (IF p = 0 THEN v ELSE CharAt(v, p)) % P
    BY <1>1 DEF StoredColumn, Encrypt
  <1>3. c \in ToSet(Columns(t))
        /\ c = IF name \in {"name", "department_name"} THEN String(name) ELSE Int64(name)
    BY ColumnByName
  <1>4. c.name = name
    BY <1>3 DEF String, Int64
  <1>5. IsValue(v, c)
    BY <1>3, <1>4 DEF IsChunk, IsRow
  <1>6. StrWidth \in Nat
    BY SqlAssumption
  <1> HIDE DEF v
  <1>7. CASE name \in {"name", "department_name"}
    <2>1. c.type = "STRING" /\ c.maxLength = StrWidth
      BY <1>3, <1>7 DEF String
    <2>2. p \in 1..StrWidth /\ p # 0 /\ p \in Nat \ {0}
      BY <1>6, <2>1 DEF Positions
    <2>3. v \in Seq(1..(P - 1)) /\ Len(v) <= StrWidth
      BY <1>5, <2>1 DEF IsValue
    <2>4. CharAt(v, p) \in Zp /\ CharAt(v, p) \in Int
      BY <2>2, <2>3, CharInZp DEF Zp
    <2>5. CharAt(v, p) % P = CharAt(v, p)
      BY <2>4, ModInt
    <2> QED
      BY <1>2, <2>2, <2>3, <2>5 DEF InSlot, HoldsChar, v
  <1>8. CASE name \notin {"name", "department_name"}
    <2>1. c.type = "INT64"
      BY <1>3, <1>8 DEF Int64
    <2>2. p = 0
      BY <2>1 DEF Positions
    <2>3. v \in 0..H
      BY <1>5, <2>1 DEF IsValue
    <2>4. v \in Zp /\ v \in Int
      BY <2>3, Modulus DEF Zp
    <2>5. v % P = v
      BY <2>4, ModInt
    <2> QED
      BY <1>2, <2>2, <2>3, <2>5 DEF InSlot, Holds0, v
  <1> QED
    BY <1>7, <1>8

(* A name without alias means the only table there is.                     *)
Only(alias, row) == [a \in {alias} |-> row]
LEMMA PlainName ==
  ASSUME NEW s, IsSeq(s.joins), s.joins = <<>>, NEW c, c.alias = "", HasColumn(s.table, c.name), NEW row
  PROVE  ValueOf(s, c, Only(s.alias, row)) = row[c.name]
  <1>1. DOMAIN s.joins = {}
    <2>1. PICK joins : joins = s.joins
      OBVIOUS
    <2>2. Len(joins) = 0 /\ DOMAIN joins = 1..Len(joins)
      BY <2>1, IsSeqLen
    <2> QED
      BY ONLY <2>1, <2>2
  <1>2. DOMAIN Scopes(s) = {s.alias} /\ Scopes(s)[s.alias] = s.table
    BY <1>1 DEF Scopes
  <1>3. Candidates(s, c) = {s.alias}
    BY <1>2 DEF Candidates, Qualified
  <1>4. Only(s.alias, row)[s.alias] = row
    BY DEF Only
  <1> QED
    BY <1>3, <1>4 DEF ValueOf, Qualified

LEMMA ScanInSlots ==
  ASSUME NEW s, IsSeq(s.joins), s.joins = <<>>, NEW plan1, plan1.table = s.table,
         \A k \in DOMAIN plan1.scanColumns : HasColumn(s.table, plan1.scanColumns[k]),
         NEW chunk, IsChunk(chunk, s.table), NEW i \in DOMAIN chunk
  PROVE  RowInSlot(ScanColumns(plan1, chunk), i, s, Only(s.alias, chunk[i]))
  <1> DEFINE batch == ScanColumns(plan1, chunk)
             env == Only(s.alias, chunk[i])
  <1>1. ASSUME NEW c, NEW p, Physical(c.alias, c.name, p) \in DOMAIN batch
        PROVE  InSlot(ValueOf(s, c, env), p, batch[Physical(c.alias, c.name, p)][i])
    <2> DEFINE q == Physical(c.alias, c.name, p)
    <2>1. batch[q] = StoredColumn(chunk, q.name, q.position)
      BY <1>1 DEF ScanColumns
    <2>2. q.name = c.name /\ q.position = p /\ q.alias = c.alias
      BY DEF Physical
    <2>3. PICK k \in DOMAIN plan1.scanColumns :
             \E j \in Positions(Column(s.table, plan1.scanColumns[k])) :
                q = Physical("", Column(s.table, plan1.scanColumns[k]).name, j)
      BY <1>1 DEF ScanColumns
    <2> DEFINE name == plan1.scanColumns[k]
    <2>4. HasColumn(s.table, name) /\ Column(s.table, name).name = name
      BY ColumnByName DEF String, Int64
    <2>5. c.alias = "" /\ c.name = name /\ p \in Positions(Column(s.table, name))
      BY <2>3, <2>4 DEF Physical
    <2>6. InSlot(chunk[i][c.name], p, StoredColumn(chunk, c.name, p)[i])
      BY <2>4, <2>5, StoredExact
    <2>7. ValueOf(s, c, env) = chunk[i][c.name]
      BY <2>4, <2>5, PlainName
    <2> QED
      BY <2>1, <2>2, <2>6, <2>7
  <1> QED
    BY <1>1 DEF RowInSlot, InSlot

(* The columns of one of the tables of a JOIN, under its alias.            *)
LEMMA TableInSlots ==
  ASSUME NEW t, NEW alias, NEW chunk, IsChunk(chunk, t), NEW i \in DOMAIN chunk,
         NEW c, NEW p, Physical(c.alias, c.name, p) \in DOMAIN TableColumns(t, alias, chunk)
  PROVE  /\ c.alias = alias
         /\ InSlot(chunk[i][c.name], p,
                   TableColumns(t, alias, chunk)[Physical(c.alias, c.name, p)][i])
  <1> DEFINE batch == TableColumns(t, alias, chunk)
             q == Physical(c.alias, c.name, p)
  <1>1. batch[q] = StoredColumn(chunk, q.name, q.position)
    BY DEF TableColumns
  <1>2. q.name = c.name /\ q.position = p /\ q.alias = c.alias
    BY DEF Physical
  <1>3. PICK column \in ToSet(Columns(t)) :
           \E j \in Positions(column) : q = Physical(alias, column.name, j)
    BY DEF TableColumns
  <1>4. HasColumn(t, column.name) /\ Column(t, column.name) = column
    BY CatalogNames
  <1>5. c.alias = alias /\ c.name = column.name /\ p \in Positions(column)
    BY <1>3 DEF Physical
  <1>6. InSlot(chunk[i][c.name], p, StoredColumn(chunk, c.name, p)[i])
    BY <1>4, <1>5, StoredExact
  <1> QED
    BY <1>1, <1>2, <1>5, <1>6

IsPair(pair, left, right) ==
  pair = [p \in DOMAIN left \cup DOMAIN right |->
             IF p \in DOMAIN right THEN right[p] ELSE left[p]]
IsEnv(env, s, j, l, r) ==
  env = [a \in {s.alias, j.alias} |-> IF a = s.alias THEN l[1] ELSE r[1]]
LEMMA JoinInSlots ==
  ASSUME NEW s, NEW j, s.alias # "", j.alias # "", s.alias # j.alias,
         NEW l, IsChunk(l, s.table), 1 \in DOMAIN l,
         NEW r, IsChunk(r, j.table), 1 \in DOMAIN r,
         NEW left, left = TableColumns(s.table, s.alias, l),
         NEW right, right = TableColumns(j.table, j.alias, r),
         NEW pair, IsPair(pair, left, right), NEW env, IsEnv(env, s, j, l, r)
  PROVE  RowInSlot(left, 1, s, env) /\ RowInSlot(pair, 1, s, env)
  <1>1. env[s.alias] = l[1] /\ env[j.alias] = r[1]
    BY DEF IsEnv
  <1>2. ASSUME NEW c, NEW p, Physical(c.alias, c.name, p) \in DOMAIN left
        PROVE  /\ c.alias = s.alias
               /\ InSlot(ValueOf(s, c, env), p, left[Physical(c.alias, c.name, p)][1])
    <2>1. /\ c.alias = s.alias
          /\ InSlot(l[1][c.name], p, left[Physical(c.alias, c.name, p)][1])
      BY <1>2, TableInSlots
    <2> QED
      BY <1>1, <2>1 DEF ValueOf, Qualified
  <1>3. ASSUME NEW c, NEW p, Physical(c.alias, c.name, p) \in DOMAIN right
        PROVE  /\ c.alias = j.alias
               /\ InSlot(ValueOf(s, c, env), p, right[Physical(c.alias, c.name, p)][1])
    <2>1. /\ c.alias = j.alias
          /\ InSlot(r[1][c.name], p, right[Physical(c.alias, c.name, p)][1])
      <3>1. PICK t, alias : t = j.table /\ alias = j.alias
        OBVIOUS
      <3>2. IsChunk(r, t) /\ right = TableColumns(t, alias, r)
        BY <3>1
      <3>3. c.alias = alias /\ InSlot(r[1][c.name], p, right[Physical(c.alias, c.name, p)][1])
        BY ONLY <1>3, <3>2, 1 \in DOMAIN r, TableInSlots
      <3> QED
        BY <3>1, <3>3
    <2> QED
      BY <1>1, <2>1 DEF ValueOf, Qualified
  <1>4. RowInSlot(left, 1, s, env)
    BY <1>2 DEF RowInSlot, InSlot
  <1>5. ASSUME NEW c, NEW p, Physical(c.alias, c.name, p) \in DOMAIN pair
        PROVE  InSlot(ValueOf(s, c, env), p, pair[Physical(c.alias, c.name, p)][1])
    <2> DEFINE q == Physical(c.alias, c.name, p)
    <2>1. q \in DOMAIN left \/ q \in DOMAIN right
      BY <1>5 DEF IsPair
    <2>2. pair[q] = IF q \in DOMAIN right THEN right[q] ELSE left[q]
      BY <2>1 DEF IsPair
    <2> QED
      BY <1>2, <1>3, <2>1, <2>2
  <1> QED
    BY <1>4, <1>5 DEF RowInSlot, InSlot

(* A condition alone: it holds if it is true, and no condition always is.  *)
LEMMA HoldsAlone ==
  ASSUME NEW s, NEW e, NEW env, IsCondition(e)
  PROVE  Holds(s, e, env) <=> ConditionHolds(s, e, env)
  <1>1. MaxNesting \in 0..MaxNesting /\ MaxNesting - MaxNesting = 0
    BY NestingAssumption
  <1>2. e \in ToSet(Visited(e)[MaxNesting - MaxNesting])
    <2>1. Visited(e)[0] = <<e>>
      BY VisitedLevels
    <2>2. \A x : x \in ToSet(<<x>>)
      BY DEF ToSet
    <2> QED
      BY <1>1, <2>1, <2>2
  <1> QED
    BY <1>1, <1>2, HoldingLevels DEF Holds

LEMMA NoWhereHolds ==
  ASSUME NEW s, NEW env
  PROVE  Holds(s, NoExpr, env)
  <1>1. NoExpr.kind = "none"
    BY DEF NoExpr
  <1>2. IsCondition(NoExpr)
    BY <1>1 DEF IsCondition, Connectives
  <1>3. ConditionHolds(s, NoExpr, env)
    BY <1>1 DEF ConditionHolds
  <1> QED
    BY <1>2, <1>3, HoldsAlone

LEMMA WhereMask ==
  ASSUME NEW s, Conditioned(s), InRange(s),
         NEW pkg1, EncodesWhere(s, pkg1.nodes, pkg1.literals), pkg1.nodes # <<>>,
         NEW batch, NEW env, NEW i \in 1..Slots, RowInSlot(batch, i, s, env)
  PROVE  Exact(Where(pkg1, batch), i, Bit(Holds(s, s.where, env)))
  <1>1. /\ IsSeq(pkg1.nodes)
        /\ \E src : Encodes(src, pkg1.nodes, pkg1.literals, s.table) /\ src[Len(pkg1.nodes)] = s.where
    BY DEF EncodesWhere
  <1>2. PICK src : Encodes(src, pkg1.nodes, pkg1.literals, s.table) /\ src[Len(pkg1.nodes)] = s.where
    BY <1>1
  <1> QED
    BY <1>1, <1>2, WhereExact

LEMMA OneBit == ASSUME NEW b \in BOOLEAN PROVE Bit(b) = 1 <=> b
  BY DEF Bit

LEMMA ScanSelects ==
  ASSUME NEW s, Conditioned(s), InRange(s), s.joins = <<>>,
         NEW pkg1, Fits(pkg1.plan, s), EncodesWhere(s, pkg1.nodes, pkg1.literals),
         \A k \in DOMAIN pkg1.plan.scanColumns : HasColumn(s.table, pkg1.plan.scanColumns[k]),
         NEW chunk, IsChunk(chunk, s.table), ~ScanBatch(pkg1, chunk).failed,
         NEW i \in DOMAIN chunk
  PROVE  InResult(ScanBatch(pkg1, chunk), i)
           <=> Holds(s, s.where, Only(s.alias, chunk[i]))
  <1> DEFINE batch == ScanBatch(pkg1, chunk)
             scan == ScanColumns(pkg1.plan, chunk)
             env == Only(s.alias, chunk[i])
             mask == IF pkg1.nodes # <<>> THEN Where(pkg1, scan) ELSE NoMask
  <1>1. batch.mask = mask /\ (pkg1.nodes # <<>> => mask # Failed)
    BY DEF ScanBatch
  <1>2. CASE pkg1.nodes = <<>>
    <2>1. s.where = NoExpr
      BY <1>2 DEF EncodesWhere
    <2>2. InResult(batch, i)
      BY <1>1, <1>2 DEF InResult
    <2> QED
      BY <2>1, <2>2, NoWhereHolds
  <1>3. CASE pkg1.nodes # <<>>
    <2>1. IsSeq(s.joins)
      BY EmptyIsSeq
    <2>2. RowInSlot(scan, i, s, env)
      <3>1. PICK plan1 : plan1 = pkg1.plan
        OBVIOUS
      <3>2. /\ plan1.table = s.table
            /\ \A k \in DOMAIN plan1.scanColumns : HasColumn(s.table, plan1.scanColumns[k])
        BY <3>1 DEF Fits
      <3>3. RowInSlot(ScanColumns(plan1, chunk), i, s, Only(s.alias, chunk[i]))
        BY <2>1, <3>2, ScanInSlots
      <3> QED
        BY <3>1, <3>3
    <2>3. i \in 1..Slots
      BY SlotsAssumption DEF IsChunk
    <2>4. Exact(Where(pkg1, scan), i, Bit(Holds(s, s.where, env)))
      BY <1>3, <2>2, <2>3, WhereMask
    <2>5. mask[i] = Bit(Holds(s, s.where, env)) /\ mask # NoMask
      BY <1>1, <1>3, <2>4 DEF Exact, Failed, NoMask
    <2>6. Holds(s, s.where, env) \in BOOLEAN
      BY DEF Holds
    <2> HIDE DEF mask, env, batch
    <2>7. InResult(batch, i) <=> Holds(s, s.where, env)
      BY <1>1, <2>5, <2>6, OneBit DEF InResult
    <2> QED
      BY <2>7 DEF batch, env
  <1> QED
    BY <1>2, <1>3

(* The JOIN condition compares two columns the pair has.                   *)
KeyOf(batch, c) == ColumnOf(batch, Physical(c.alias, c.name, 0))
LEMMA OnExact ==
  ASSUME NEW s, NEW on, on.kind = "Equal", IsCol(on.left), IsCol(on.right),
         NEW pair, NEW env, NEW i \in 1..Slots, RowInSlot(pair, i, s, env)
  PROVE  Exact(Lift2(EqMask, KeyOf(pair, on.left), KeyOf(pair, on.right)), i,
               Bit(Holds(s, on, env)))
  <1> DEFINE x == Lift2(EqMask, KeyOf(pair, on.left), KeyOf(pair, on.right))
  <1>1. ASSUME NEW c, IsCol(c) PROVE IsOperand(s, c, KeyOf(pair, c), i, env)
    <2> DEFINE node == [kind |-> "ColumnRef", col |-> c]
    <2>1. node.kind = "ColumnRef" /\ node.col = c /\ ~IsInt(c)
      BY <1>1 DEF IsCol, IsInt
    <2> HIDE DEF node
    <2>2. IsOperand(s, c, Evaluated(<<>>, node, pair, Failed, Failed), i, env)
      BY <1>1, <2>1, OperandExact
    <2>3. Evaluated(<<>>, node, pair, Failed, Failed) = KeyOf(pair, c)
      BY <2>1 DEF Evaluated, KeyOf
    <2> QED
      BY <2>2, <2>3
  <1>2. Exact(x, i, Bit(ConditionHolds(s, on, env)))
    <2> DEFINE node == [kind |-> "Equal"]
    <2>1. node.kind = on.kind /\ on.kind \in Comparisons
      BY DEF Comparisons
    <2>2. x = Evaluated(<<>>, node, pair, KeyOf(pair, on.left), KeyOf(pair, on.right))
      BY DEF Evaluated
    <2>3. IsOperand(s, on.left, KeyOf(pair, on.left), i, env)
          /\ IsOperand(s, on.right, KeyOf(pair, on.right), i, env)
      BY <1>1
    <2> HIDE DEF node, x
    <2>4. PICK l, r : l = KeyOf(pair, on.left) /\ r = KeyOf(pair, on.right)
      OBVIOUS
    <2>5. Exact(Evaluated(<<>>, node, pair, l, r), i, Bit(ConditionHolds(s, on, env)))
      BY <2>1, <2>3, <2>4, ComparisonExact DEF IsOperand
    <2> QED
      BY <2>2, <2>4, <2>5
  <1>3. Holds(s, on, env) <=> ConditionHolds(s, on, env)
    <2>1. IsCondition(on)
      BY DEF IsCondition, Connectives
    <2> QED
      BY <2>1, HoldsAlone
  <1>4. Bit(Holds(s, on, env)) = Bit(ConditionHolds(s, on, env))
    BY <1>3 DEF Bit
  <1> QED
    BY <1>2, <1>4

JoinsTwo(s, j) ==
  /\ s.joins # <<>> /\ j = s.joins[1]
  /\ s.alias # "" /\ j.alias # "" /\ s.alias # j.alias
  /\ j.on.kind = "Equal" /\ IsCol(j.on.left) /\ IsCol(j.on.right)
LEMMA AcceptedJoin ==
  ASSUME NEW s \in Statements, Analyze(s) = Ok, s.joins # <<>>, NEW j, j = s.joins[1],
         s.alias # j.alias
  PROVE  JoinsTwo(s, j)
  <1>1. 1 \in DOMAIN s.joins /\ IsStatement(s)
    <2>1. IsStatement(s)
      BY StatementsAssumption
    <2>2. IsSeq(s.joins)
      BY <2>1 DEF IsStatement
    <2>3. PICK joins : joins = s.joins
      OBVIOUS
    <2>4. IsSeq(joins) /\ joins # <<>>
      BY <2>2, <2>3
    <2>5. 1 \in DOMAIN joins
      BY ONLY <2>4, IsSeqLen
    <2> QED
      BY <2>1, <2>3, <2>5
  <1>2. s.alias # "" /\ j.alias # ""
    BY <1>1 DEF IsStatement
  <1>3. j.on.kind = "Equal" /\ IsCol(j.on.left) /\ IsCol(j.on.right)
    <2>1. ValidateJoin(s, j.on) = Ok
      BY <1>1, Accepted
    <2> QED
      BY <2>1 DEF ValidateJoin, Ok, SemanticError
  <1> QED
    BY <1>2, <1>3 DEF JoinsTwo

LEMMA JoinSelects ==
  ASSUME NEW s, Conditioned(s), InRange(s), NEW j, JoinsTwo(s, j),
         NEW pkg1, Fits(pkg1.plan, s), EncodesWhere(s, pkg1.nodes, pkg1.literals),
         NEW l, IsChunk(l, s.table), NEW r, IsChunk(r, j.table), ~JoinBatch(pkg1, l, r).failed,
         NEW env, IsEnv(env, s, j, l, r)
  PROVE  InResult(JoinBatch(pkg1, l, r), 1) <=> Holds(s, s.where, env) /\ Holds(s, j.on, env)
  <1> DEFINE batch == JoinBatch(pkg1, l, r)
             left == TableColumns(s.table, s.alias, l)
             right == TableColumns(j.table, j.alias, r)
             pair == [p \in DOMAIN left \cup DOMAIN right |->
                         IF p \in DOMAIN right THEN right[p] ELSE left[p]]
             on == Lift2(EqMask, KeyOf(pair, j.on.left), KeyOf(pair, j.on.right))
             where == Where(pkg1, IF WhereUsesJoinedTable(pkg1) THEN pair ELSE left)
             mask == IF pkg1.nodes = <<>> THEN on ELSE Both(on, where)
  <1>1. /\ pkg1.plan.table = s.table /\ pkg1.plan.alias = s.alias
        /\ pkg1.plan.join = [table |-> j.table, alias |-> j.alias,
                            left |-> j.on.left, right |-> j.on.right]
    BY DEF Fits, JoinsTwo
  <1>2. /\ pkg1.plan.join.table = j.table /\ pkg1.plan.join.alias = j.alias
        /\ pkg1.plan.join.left = j.on.left /\ pkg1.plan.join.right = j.on.right
    BY <1>1
  <1>3. batch.mask = mask /\ mask # Failed /\ Len(l) = 1 /\ Len(r) = 1
    BY <1>1, <1>2 DEF JoinBatch, KeyOf, Both
  <1>4. 1 \in DOMAIN l /\ 1 \in DOMAIN r /\ 1 \in 1..Slots
    BY <1>3, SlotsAssumption DEF IsChunk
  <1>6. s.alias # "" /\ j.alias # "" /\ s.alias # j.alias
    BY DEF JoinsTwo
  <1>7. RowInSlot(left, 1, s, env) /\ RowInSlot(pair, 1, s, env)
    <2>1. PICK lt, rt : lt = left /\ rt = right
      OBVIOUS
    <2>2. PICK pr : IsPair(pr, lt, rt)
      BY DEF IsPair
    <2>3. pr = pair
      BY <2>1, <2>2 DEF IsPair
    <2>4. RowInSlot(lt, 1, s, env) /\ RowInSlot(pr, 1, s, env)
      <3> HIDE DEF pair
      <3> QED
        BY <1>4, <1>6, <2>1, <2>2, JoinInSlots
    <2> QED
      BY <2>1, <2>3, <2>4
  <1>8. j.on.kind = "Equal" /\ IsCol(j.on.left) /\ IsCol(j.on.right)
    BY DEF JoinsTwo
  <1> HIDE DEF pair, left, right
  <1>9. Exact(on, 1, Bit(Holds(s, j.on, env)))
    <2>1. PICK cond : cond = j.on
      OBVIOUS
    <2>2. Exact(Lift2(EqMask, KeyOf(pair, cond.left), KeyOf(pair, cond.right)), 1,
                Bit(Holds(s, cond, env)))
      BY <1>4, <1>7, <1>8, <2>1, OnExact
    <2> QED
      BY <2>1, <2>2
  <1>10. pkg1.nodes # <<>> => Exact(where, 1, Bit(Holds(s, s.where, env)))
    BY <1>4, <1>7, WhereMask
  <1>11. Holds(s, s.where, env) \in BOOLEAN /\ Holds(s, j.on, env) \in BOOLEAN
    BY DEF Holds
  <1> HIDE DEF on, where, batch
  <1>12. CASE pkg1.nodes = <<>>
    <2>1. s.where = NoExpr
      BY <1>12 DEF EncodesWhere
    <2>2. mask = on /\ mask # NoMask
      BY <1>3, <1>12 DEF Failed, NoMask
    <2>3. mask[1] = Bit(Holds(s, j.on, env))
      BY <1>3, <1>9, <2>2 DEF Exact
    <2>4. InResult(batch, 1) <=> Holds(s, j.on, env)
      BY <1>3, <1>11, <2>2, <2>3, OneBit DEF InResult
    <2> QED
      BY <2>1, <2>4, NoWhereHolds DEF batch
  <1>13. CASE pkg1.nodes # <<>>
    <2>1. on # Failed /\ where # Failed /\ mask = Both(on, where) /\ mask # NoMask
      BY <1>3, <1>13 DEF Both, Lift2, Failed, NoMask
    <2>2. mask[1] = AndMask(on[1], where[1])
      BY <1>4, <2>1 DEF Both, Lift2
    <2>3. on[1] = Bit(Holds(s, j.on, env)) /\ where[1] = Bit(Holds(s, s.where, env))
      BY <1>9, <1>10, <1>13, <2>1 DEF Exact
    <2>4. mask[1] = 1 <=> Holds(s, s.where, env) /\ Holds(s, j.on, env)
      BY <1>11, <2>2, <2>3, ConnectivesExact DEF Bit
    <2>5. InResult(batch, 1) <=> Holds(s, s.where, env) /\ Holds(s, j.on, env)
      BY <1>3, <2>1, <2>4 DEF InResult
    <2> QED
      BY <2>5 DEF batch
  <1> QED
    BY <1>12, <1>13

(* The chunks of a table have its rows, and no more than there are slots.  *)
LEMMA ChunksOfTable ==
  ASSUME NEW t, NEW table, IsSeq(table), \A i \in DOMAIN table : IsRow(table[i], t),
         NEW size \in 1..Slots, NEW chunk \in ToSet(Chunks(table, size))
  PROVE  IsChunk(chunk, t)
  <1>1. PICK k \in DOMAIN Chunks(table, size) : chunk = Chunks(table, size)[k]
    BY DEF ToSet
  <1>2. k \in Nat \ {0}
    BY <1>1 DEF Chunks
  <1>3. Len(table) \in Nat /\ DOMAIN table = 1..Len(table) /\ size \in Nat /\ Slots \in Nat /\ size <= Slots
    BY IsSeqLen, SlotsAssumption
  <1> DEFINE m == (k - 1) * size
             n == IF k * size < Len(table) THEN k * size ELSE Len(table)
  <1>4. m \in Nat /\ k * size = m + size
    BY <1>2, <1>3
  <1>5. n \in Nat /\ n <= Len(table) /\ n <= m + size
    BY <1>3, <1>4
  <1>6. chunk = SubSeq(table, m + 1, n)
    BY <1>1 DEF Chunks
  <1> HIDE DEF m, n
  <1>7. \A i \in (m + 1)..n : i \in DOMAIN table /\ table[i] \in ToSet(table)
    BY <1>3, <1>4, <1>5 DEF ToSet
  <1>8. /\ chunk \in Seq(ToSet(table))
        /\ Len(chunk) = IF m + 1 <= n THEN n - (m + 1) + 1 ELSE 0
    BY <1>4, <1>5, <1>6, <1>7, SubSeqProperties
  <1>9. Len(chunk) \in Nat /\ Len(chunk) <= Slots
    BY <1>3, <1>4, <1>5, <1>8
  <1>10. DOMAIN chunk = 1..Len(chunk) /\ \A i \in DOMAIN chunk : chunk[i] \in ToSet(table)
    BY <1>8, SeqElements
  <1>11. \A row \in ToSet(table) : IsRow(row, t)
    BY DEF ToSet
  <1> QED
    BY <1>9, <1>10, <1>11 DEF IsChunk

LEMMA StoredChunks ==
  ASSUME tables \in Databases, chunkSize \in ChunkSizes,
         NEW t, HasTable(t), NEW chunk \in ToSet(Storage[t])
  PROVE  IsChunk(chunk, t)
  <1>1. /\ IsSeq(tables[t]) /\ \A i \in DOMAIN tables[t] : IsRow(tables[t][i], t)
    BY DatabasesAssumption DEF HasTable, IsRow
  <1>2. chunkSize \in 1..Slots /\ 1 \in 1..Slots
    BY ChunkSizesAssumption, SlotsAssumption
  <1>3. t \in {"employees", "departments"}
    BY DEF HasTable, Schema
  <1>4. PICK table, size : /\ table = tables[t] /\ size \in 1..Slots
                           /\ Storage[t] = Chunks(table, size)
    BY <1>2, <1>3 DEF Storage
  <1>5. /\ IsSeq(table) /\ \A i \in DOMAIN table : IsRow(table[i], t)
        /\ chunk \in ToSet(Chunks(table, size))
    BY <1>1, <1>4
  <1> QED
    BY <1>4, <1>5, ChunksOfTable

LEMMA WayMasks == ASSUME WayInv PROVE MasksSelectRows
  <1> SUFFICES ASSUME pc = "encrypted", Answerable(stmt), Validate(pkg, serverParams)
               PROVE  IF stmt.joins = <<>>
                      THEN \A chunk \in ToSet(Storage[stmt.table]) :
                              ~ScanBatch(pkg, chunk).failed =>
                                 \A i \in DOMAIN chunk :
                                    InResult(ScanBatch(pkg, chunk), i)
                                      <=> Holds(stmt, stmt.where, [a \in {stmt.alias} |-> chunk[i]])
                      ELSE \A l \in ToSet(Storage[stmt.table]),
                              r \in ToSet(Storage[stmt.joins[1].table]) :
                              ~JoinBatch(pkg, l, r).failed =>
                                 LET env == [a \in {stmt.alias, stmt.joins[1].alias} |->
                                                IF a = stmt.alias THEN l[1] ELSE r[1]]
                                 IN  InResult(JoinBatch(pkg, l, r), 1)
                                       <=> /\ Holds(stmt, stmt.where, env)
                                           /\ Holds(stmt, stmt.joins[1].on, env)
    BY DEF MasksSelectRows
  <1>1. /\ stmt \in Statements /\ Analyze(stmt) = Ok /\ pkg.plan = Plan(stmt)
        /\ EncodesWhere(stmt, pkg.nodes, pkg.literals)
        /\ tables \in Databases /\ chunkSize \in ChunkSizes
    BY DEF WayInv, Analyzed, Planned, Sent
  <1>2. InRange(stmt) /\ WellScoped(stmt)
    BY DEF Answerable, InRange
  <1>3. HasTable(stmt.table) /\ \A i \in DOMAIN stmt.joins : HasTable(stmt.joins[i].table)
    BY <1>1, Accepted
  <1>4. PICK s, p : s = stmt /\ p = pkg
    OBVIOUS
  <1>5. CASE s.joins = <<>>
    <2>1. ASSUME NEW chunk \in ToSet(Storage[s.table]), ~ScanBatch(p, chunk).failed,
                 NEW i \in DOMAIN chunk
          PROVE  InResult(ScanBatch(p, chunk), i) <=> Holds(s, s.where, Only(s.alias, chunk[i]))
      <3>1. IsChunk(chunk, s.table)
        BY <1>1, <1>3, <1>4, StoredChunks
      <3>2. \A k \in DOMAIN p.plan.scanColumns : HasColumn(s.table, p.plan.scanColumns[k])
        BY <1>1, <1>4, PlanShape DEF Validate
      <3>3. Conditioned(s) /\ Fits(p.plan, s)
        BY <1>1, <1>4, AcceptedConditions, PlanFits
      <3> QED
        BY <1>1, <1>2, <1>4, <1>5, <2>1, <3>1, <3>2, <3>3, ScanSelects
    <2> QED
      BY <1>4, <1>5, <2>1 DEF Only
  <1>6. CASE s.joins # <<>>
    <2>1. PICK j : j = s.joins[1]
      OBVIOUS
    <2>2. 1 \in DOMAIN s.joins
      <3>1. IsSeq(s.joins)
        BY <1>1, <1>4, StatementsAssumption DEF IsStatement
      <3>2. PICK joins : joins = s.joins
        OBVIOUS
      <3>3. IsSeq(joins) /\ joins # <<>>
        BY <1>6, <3>1, <3>2
      <3>4. 1 \in DOMAIN joins
        BY ONLY <3>3, IsSeqLen
      <3> QED
        BY <3>2, <3>4
    <2>3. ASSUME NEW l \in ToSet(Storage[s.table]), NEW r \in ToSet(Storage[j.table]),
                 ~JoinBatch(p, l, r).failed, NEW env, IsEnv(env, s, j, l, r)
          PROVE  InResult(JoinBatch(p, l, r), 1) <=> Holds(s, s.where, env) /\ Holds(s, j.on, env)
      <3>1. HasTable(s.table) /\ HasTable(j.table)
        BY <1>3, <1>4, <2>1, <2>2
      <3>2. IsChunk(l, s.table) /\ IsChunk(r, j.table)
        <4>1. PICK t, u : t = s.table /\ u = j.table
          OBVIOUS
        <4>2. IsChunk(l, t) /\ IsChunk(r, u)
          BY <1>1, <3>1, <4>1, StoredChunks
        <4> QED
          BY <4>1, <4>2
      <3>3. Conditioned(s) /\ Fits(p.plan, s)
        BY <1>1, <1>4, AcceptedConditions, PlanFits
      <3>4. JoinsTwo(s, j)
        <4>1. s.alias # j.alias
          BY <1>2, <1>4, <2>1, <2>2 DEF WellScoped
        <4> QED
          BY <1>1, <1>4, <1>6, <2>1, <4>1, AcceptedJoin
      <3> QED
        BY <1>1, <1>2, <1>4, <2>3, <3>2, <3>3, <3>4, JoinSelects
    <2> QED
      BY <1>4, <1>6, <2>1, <2>3 DEF IsEnv
  <1> QED
    BY <1>4, <1>5, <1>6

(* MasksSelectRows, for any statements and tables (query_executor.cpp):    *)
(* the masks the server computes over ciphertexts select just the rows     *)
(* the WHERE clause and the JOIN condition hold of.                        *)
THEOREM MasksAreExact == Spec => []MasksSelectRows
  <1>1. WayInv => MasksSelectRows
    BY WayMasks
  <1> QED
    BY <1>1, WayInvariant, PTL
=============================================================================
