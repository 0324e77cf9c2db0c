----------------------------- MODULE ArchiveProofs -----------------------------
(***************************************************************************)
(* TLAPS proofs about Archive: an object arrives as it was sent, and an    *)
(* archive that ends early is noticed, for any objects the two programs    *)
(* send, whatever the lengths of their strings and lists.                  *)
(***************************************************************************)
EXTENDS Archive, WellFoundedInduction, SequenceTheorems, TLAPS

-----------------------------------------------------------------------------
(* Induction, as a fact about sets of numbers.                             *)
LEMMA Smallest ==
  ASSUME NEW S, S # {}, S \subseteq Nat
  PROVE  \E x \in S : \A y \in S : x <= y
  <1>1. PICK x \in S : \A y \in S : ~ (<<y, x>> \in OpToRel(<, Nat))
    BY WFMin, NatLessThanWellFounded
  <1>2. \A y \in S : ~ (y < x)
    BY <1>1 DEF OpToRel
  <1>3. \A y \in S : x <= y
    BY <1>2
  <1> QED
    BY <1>3

LEMMA UpTo ==
  ASSUME NEW m \in Nat, NEW S, 0 \in S,
         \A n \in 1..m : n - 1 \in S => n \in S
  PROVE  0..m \subseteq S
  <1>1. SUFFICES ASSUME (0..m) \ S # {} PROVE FALSE
    OBVIOUS
  <1> DEFINE T == (0..m) \ S
  <1>2. PICK x \in T : \A y \in T : x <= y
    <2>1. T # {} /\ T \subseteq Nat
      BY <1>1
    <2> HIDE DEF T
    <2> QED
      BY <2>1, Smallest
  <1>3. x \in 1..m /\ x - 1 \in 0..m /\ ~(x <= x - 1)
    OBVIOUS
  <1>4. x - 1 \in S
    BY <1>2, <1>3
  <1> QED
    BY <1>3, <1>4

(* Two sequences of steps that agree at first and, when they have agreed,  *)
(* at the next step.                                                       *)
LEMMA Agree ==
  ASSUME NEW m \in Nat, NEW g, NEW h, g[0] = h[0],
         \A i \in 1..m : g[i - 1] = h[i - 1] => g[i] = h[i]
  PROVE  g[m] = h[m]
  <1> DEFINE S == {i \in 0..m : g[i] = h[i]}
  <1>1. 0 \in S /\ \A i \in 1..m : i - 1 \in S => i \in S
    OBVIOUS
  <1> HIDE DEF S
  <1>2. 0..m \subseteq S
    BY <1>1, UpTo
  <1> QED
    BY <1>2 DEF S

(* Sequences whose elements are of no particular set.                      *)
LEMMA IsSeqLen ==
  ASSUME NEW s, IsSeq(s)
  PROVE  Len(s) \in Nat /\ DOMAIN s = 1..Len(s) /\ (s = <<>> <=> Len(s) = 0)
  BY DEF IsSeq

LEMMA FunctionIsSeq ==
  ASSUME NEW n \in Nat, NEW s, s = [i \in 1..n |-> s[i]]
  PROVE  IsSeq(s) /\ Len(s) = n /\ DOMAIN s = 1..n
  <1>1. s \in [1..n -> ToSet(s)]
    BY DEF ToSet
  <1> QED
    BY <1>1 DEF IsSeq

LEMMA OfSeq ==
  ASSUME NEW T, NEW s \in Seq(T)
  PROVE  IsSeq(s)
  <1>1. Len(s) \in Nat /\ s \in [1..Len(s) -> T]
    OBVIOUS
  <1>2. s = [i \in 1..Len(s) |-> s[i]]
    BY <1>1
  <1> QED
    BY <1>1, <1>2, FunctionIsSeq

LEMMA AppendIsSeq ==
  ASSUME NEW s, NEW x, IsSeq(s)
  PROVE  /\ IsSeq(Append(s, x)) /\ Len(Append(s, x)) = Len(s) + 1
         /\ \A i \in 1..Len(s) : Append(s, x)[i] = s[i]
         /\ Append(s, x)[Len(s) + 1] = x
  <1> DEFINE T == ToSet(s) \cup {x}
  <1>1. s \in Seq(ToSet(s))
    BY DEF IsSeq
  <1>2. s \in Seq(T) /\ x \in T
    BY <1>1
  <1> HIDE DEF T
  <1>3. /\ Append(s, x) \in Seq(T) /\ Len(Append(s, x)) = Len(s) + 1 /\ Len(s) \in Nat
        /\ \A i \in 1..Len(s) : Append(s, x)[i] = s[i]
        /\ Append(s, x)[Len(s) + 1] = x
    BY <1>2
  <1> QED
    BY <1>3, OfSeq

LEMMA ConcatIsSeq ==
  ASSUME NEW s, NEW t, IsSeq(s), IsSeq(t)
  PROVE  /\ IsSeq(s \o t) /\ Len(s \o t) = Len(s) + Len(t)
         /\ \A i \in 1..Len(s) : (s \o t)[i] = s[i]
         /\ \A i \in 1..Len(t) : (s \o t)[Len(s) + i] = t[i]
  <1> DEFINE T == ToSet(s) \cup ToSet(t)
  <1>1. s \in Seq(ToSet(s)) /\ t \in Seq(ToSet(t))
    BY DEF IsSeq
  <1>2. s \in Seq(T) /\ t \in Seq(T)
    BY <1>1
  <1> HIDE DEF T
  <1>3. /\ s \o t \in Seq(T) /\ Len(s \o t) = Len(s) + Len(t)
        /\ Len(s) \in Nat /\ Len(t) \in Nat
        /\ \A i \in 1..Len(s) : (s \o t)[i] = s[i]
        /\ \A i \in 1..Len(t) : (s \o t)[Len(s) + i] = t[i]
    BY <1>2
  <1> QED
    BY <1>3, OfSeq

LEMMA Sliced ==
  ASSUME NEW s, IsSeq(s), NEW m \in Nat, NEW n \in Nat, n <= Len(s)
  PROVE  /\ IsSeq(SubSeq(s, m + 1, n))
         /\ Len(SubSeq(s, m + 1, n)) = IF m <= n THEN n - m ELSE 0
         /\ \A i \in 1..(n - m) : SubSeq(s, m + 1, n)[i] = s[m + i]
  <1>1. Len(s) \in Nat /\ DOMAIN s = 1..Len(s)
    BY IsSeqLen
  <1>2. \A i \in (m + 1)..n : s[i] \in ToSet(s)
    BY <1>1 DEF ToSet
  <1>3. /\ SubSeq(s, m + 1, n) \in Seq(ToSet(s))
        /\ Len(SubSeq(s, m + 1, n)) = IF m + 1 <= n THEN n - (m + 1) + 1 ELSE 0
        /\ \A i \in 1..(n - (m + 1) + 1) : SubSeq(s, m + 1, n)[i] = s[m + 1 + i - 1]
    BY <1>2, SubSeqProperties
  <1>4. IsSeq(SubSeq(s, m + 1, n))
    BY <1>3, OfSeq
  <1>5. n - (m + 1) + 1 = n - m /\ \A i \in 1..(n - m) : m + 1 + i - 1 = m + i
    OBVIOUS
  <1> QED
    BY <1>3, <1>4, <1>5

(* FlattenSeq appends one sequence after the other.                        *)
Flattens(flat, s) ==
  /\ flat[0] = <<>> /\ flat[Len(s)] = FlattenSeq(s)
  /\ \A i \in 0..Len(s) : IsSeq(flat[i])
  /\ \A i \in 1..Len(s) : flat[i] = flat[i - 1] \o s[i]

LEMMA FlattenSteps ==
  ASSUME NEW s, IsSeq(s), \A i \in DOMAIN s : IsSeq(s[i])
  PROVE  \E flat : Flattens(flat, s)
  <1> DEFINE n == Len(s)
             Upto(g, k) == g = [i \in 1..k |-> IF i = 1 THEN s[i] ELSE g[i - 1] \o s[i]]
             S == {k \in 0..n : \E g : Upto(g, k)}
             f == CHOOSE g : Upto(g, n)
  <1>1. n \in Nat /\ DOMAIN s = 1..n /\ \A i \in 1..n : IsSeq(s[i])
    BY IsSeqLen
  <1>2. 0 \in S
    <2>1. Upto([i \in 1..0 |-> s[i]], 0) /\ 0 \in 0..n
      BY <1>1
    <2> QED
      BY <2>1
  <1>3. ASSUME NEW k \in 1..n, k - 1 \in S PROVE k \in S
    <2>1. PICK g : Upto(g, k - 1)
      BY <1>3
    <2> DEFINE h == [i \in 1..k |-> IF i # k THEN g[i]
                                    ELSE IF i = 1 THEN s[i] ELSE g[i - 1] \o s[i]]
    <2>2. ASSUME NEW i \in 1..k PROVE h[i] = IF i = 1 THEN s[i] ELSE h[i - 1] \o s[i]
      <3>1. /\ i # k => i \in 1..(k - 1)
            /\ i # 1 => i - 1 \in 1..k /\ i - 1 # k /\ i - 1 \in 1..(k - 1)
        OBVIOUS
      <3>2. i # k => g[i] = IF i = 1 THEN s[i] ELSE g[i - 1] \o s[i]
        BY <2>1, <3>1
      <3>3. i # 1 => h[i - 1] = g[i - 1]
        BY <3>1
      <3> QED
        BY <3>2, <3>3
    <2> HIDE DEF h
    <2>3. h = [i \in 1..k |-> IF i = 1 THEN s[i] ELSE h[i - 1] \o s[i]]
      BY <2>2 DEF h
    <2>4. \E x : Upto(x, k)
      BY <2>3
    <2>5. k \in 0..n
      BY <1>1
    <2> HIDE DEF Upto
    <2> QED
      BY <2>4, <2>5
  <1>4. Upto(f, n)
    <2> HIDE DEF S
    <2>1. 0..n \subseteq S
      BY <1>1, <1>2, <1>3, UpTo
    <2>2. n \in S
      BY <1>1, <2>1
    <2>3. \E g : Upto(g, n)
      BY <2>2 DEF S
    <2> QED
      BY <2>3
  <1> DEFINE flat == [i \in 0..n |-> IF i = 0 THEN <<>> ELSE f[i]]
  <1>5. flat[n] = FlattenSeq(s)
    <2>1. CASE n = 0
      BY <1>1, <2>1, IsSeqLen DEF FlattenSeq
    <2>2. CASE n # 0
      <3>1. FlattenSeq(s) = f[n]
        BY <2>2 DEF FlattenSeq
      <3> QED
        BY <1>1, <2>2, <3>1
    <2> QED
      BY <2>1, <2>2
  <1> HIDE DEF f, S
  <1>6. IsSeq(<<>>)
    BY DEF IsSeq
  <1>7. ASSUME NEW i \in 1..n PROVE flat[i] = flat[i - 1] \o s[i]
    <2>1. s[i] \in Seq(ToSet(s[i])) /\ (i # 1 => i - 1 \in 1..n) /\ i - 1 \in 0..n
      BY <1>1 DEF IsSeq
    <2>2. i = 1 => <<>> \o s[i] = s[i]
      BY <2>1
    <2>3. f[i] = IF i = 1 THEN s[i] ELSE f[i - 1] \o s[i]
      BY <1>4
    <2>4. flat[i] = f[i] /\ flat[i - 1] = IF i = 1 THEN <<>> ELSE f[i - 1]
      BY <1>1, <2>1
    <2> QED
      BY <2>2, <2>3, <2>4
  <1>8. flat[0] = <<>>
    BY <1>1
  <1> HIDE DEF flat
  <1>9. \A i \in 0..n : IsSeq(flat[i])
    <2> DEFINE T == {i \in 0..n : IsSeq(flat[i])}
    <2>1. 0 \in T
      BY <1>1, <1>6, <1>8
    <2>3. ASSUME NEW i \in 1..n, i - 1 \in T PROVE i \in T
      <3>1. i \in 0..n /\ IsSeq(flat[i - 1]) /\ IsSeq(s[i])
        BY <1>1, <2>3
      <3>2. flat[i] = flat[i - 1] \o s[i]
        BY <1>7
      <3>3. IsSeq(flat[i])
        BY <3>1, <3>2, ConcatIsSeq
      <3> QED
        BY <3>1, <3>3
    <2> HIDE DEF T
    <2>2. 0..n \subseteq T
      BY <1>1, <2>1, <2>3, UpTo
    <2> QED
      BY <2>2 DEF T
  <1> QED
    BY <1>5, <1>7, <1>8, <1>9 DEF Flattens

-----------------------------------------------------------------------------
(* An archive has tokens from a position on, as far as it goes; and what   *)
(* reading them then gives: the value if they are all there.               *)
Carries(part, archive, at) ==
  \A j \in 1..Len(part) : at + j <= Len(archive) => archive[at + j] = part[j]
Outcome(value, part, archive, at) ==
  IF at + Len(part) <= Len(archive) THEN Read(value, at + Len(part)) ELSE Exhausted

(* Reading two parts, one after the other.                                 *)
LEMMA Onward ==
  ASSUME NEW archive, IsSeq(archive), NEW at \in 0..Len(archive),
         NEW a, IsSeq(a), NEW b, IsSeq(b), Carries(a \o b, archive, at), NEW u, NEW v
  PROVE  /\ Outcome(u, a, archive, at).ok =>
              /\ Outcome(u, a, archive, at) = Read(u, at + Len(a))
              /\ at + Len(a) \in 0..Len(archive)
              /\ Carries(b, archive, at + Len(a))
              /\ Outcome(v, b, archive, at + Len(a)) = Outcome(v, a \o b, archive, at)
         /\ ~Outcome(u, a, archive, at).ok => Outcome(v, a \o b, archive, at) = Exhausted
         /\ Carries(a, archive, at)
  <1>1. Len(archive) \in Nat /\ Len(a) \in Nat /\ Len(b) \in Nat
    BY IsSeqLen
  <1>2. /\ Len(a \o b) = Len(a) + Len(b)
        /\ \A i \in 1..Len(a) : (a \o b)[i] = a[i]
        /\ \A i \in 1..Len(b) : (a \o b)[Len(a) + i] = b[i]
    BY ConcatIsSeq
  <1>3. Outcome(u, a, archive, at).ok <=> at + Len(a) <= Len(archive)
    BY DEF Outcome, Read, Exhausted
  <1>4. Carries(b, archive, at + Len(a))
    <2>1. ASSUME NEW j \in 1..Len(b), at + Len(a) + j <= Len(archive)
          PROVE  archive[at + Len(a) + j] = b[j]
      <3>1. Len(a) + j \in 1..Len(a \o b) /\ at + (Len(a) + j) = at + Len(a) + j
        BY <1>1, <1>2
      <3>2. archive[at + (Len(a) + j)] = (a \o b)[Len(a) + j]
        BY <2>1, <3>1 DEF Carries
      <3> QED
        BY <1>2, <3>1, <3>2
    <2> QED
      BY <2>1 DEF Carries
  <1>5. Carries(a, archive, at)
    <2>1. \A j \in 1..Len(a) : j \in 1..Len(a \o b)
      BY <1>1, <1>2
    <2> QED
      BY <1>2, <2>1 DEF Carries
  <1>6. at + Len(a) + Len(b) = at + Len(a \o b)
    BY <1>1, <1>2
  <1>7. Outcome(v, b, archive, at + Len(a)) = Outcome(v, a \o b, archive, at)
    BY <1>6 DEF Outcome
  <1>8. ~(at + Len(a) <= Len(archive)) => ~(at + Len(a \o b) <= Len(archive))
    BY <1>1, <1>2
  <1> QED
    BY <1>1, <1>3, <1>4, <1>5, <1>7, <1>8 DEF Outcome

(* A number, a string or the bytes of a ciphertext.                        *)
LEMMA ValueRead ==
  ASSUME NEW archive, IsSeq(archive), NEW at \in 0..Len(archive),
         NEW s, NEW v, IsValue(s, v), Carries(PutValue(s, v), archive, at), NEW x
  PROVE  GetValue(s, x, archive, at) = Outcome(v, PutValue(s, v), archive, at)
  <1>1. Len(archive) \in Nat
    BY IsSeqLen
  <1>2. CASE s.shape = "number"
    <2>1. PutValue(s, v) = <<v>> /\ Len(<<v>>) = 1 /\ <<v>>[1] = v
      BY <1>2 DEF PutValue
    <2>2. at # Len(archive) => archive[at + 1] = v
      BY <1>1, <2>1 DEF Carries
    <2> QED
      BY <1>1, <1>2, <2>1, <2>2 DEF Outcome, GetValue
  <1>3. CASE s.shape # "number"
    <2> DEFINE n == Len(v)
    <2>1. IsSeq(v) /\ n \in Nat
      BY <1>3, IsSeqLen DEF IsValue
    <2>2. IsSeq(<<n>>) /\ Len(<<n>>) = 1 /\ <<n>>[1] = n
      BY DEF IsSeq, ToSet
    <2>3. PutValue(s, v) = <<n>> \o v
      BY <1>3 DEF PutValue
    <2>4. /\ Len(<<n>> \o v) = 1 + n /\ (<<n>> \o v)[1] = n
          /\ \A i \in 1..n : (<<n>> \o v)[1 + i] = v[i]
      BY <2>1, <2>2, ConcatIsSeq
    <2> HIDE DEF n
    <2>5. CASE at = Len(archive)
      BY <1>1, <1>3, <2>1, <2>3, <2>4, <2>5 DEF Outcome, GetValue
    <2>6. CASE at # Len(archive)
      <3>1. archive[at + 1] = n
        <4>1. 1 \in 1..Len(<<n>> \o v) /\ at + 1 <= Len(archive)
          BY <1>1, <2>1, <2>4, <2>6
        <4> QED
          BY <2>3, <2>4, <4>1 DEF Carries
      <3>2. CASE Len(archive) < at + 1 + n
        BY <1>1, <1>3, <2>1, <2>3, <2>4, <2>6, <3>1, <3>2 DEF Outcome, GetValue
      <3>3. CASE ~(Len(archive) < at + 1 + n)
        <4> DEFINE end == at + 1 + n
                   got == SubSeq(archive, at + 2, end)
        <4>1. at + 1 \in Nat /\ end \in Nat /\ end <= Len(archive) /\ (at + 1) + 1 = at + 2
              /\ end - (at + 1) = n /\ at + 1 <= end
          BY <1>1, <2>1, <3>3
        <4>2. IsSeq(got) /\ Len(got) = n /\ \A i \in 1..n : got[i] = archive[at + 1 + i]
          <5> HIDE DEF end
          <5>1. PICK m \in Nat : m = at + 1
            BY <4>1
          <5>2. m <= end /\ end - m = n /\ m + 1 = at + 2
            BY <4>1, <5>1
          <5>3. /\ IsSeq(SubSeq(archive, m + 1, end))
                /\ Len(SubSeq(archive, m + 1, end)) = IF m <= end THEN end - m ELSE 0
                /\ \A i \in 1..(end - m) : SubSeq(archive, m + 1, end)[i] = archive[m + i]
            BY <4>1, Sliced
          <5> QED
            BY <5>1, <5>2, <5>3
        <4>3. ASSUME NEW i \in 1..n PROVE archive[at + 1 + i] = v[i]
          <5>1. 1 + i \in 1..Len(<<n>> \o v) /\ at + (1 + i) <= Len(archive)
                /\ at + (1 + i) = at + 1 + i
            BY <1>1, <2>1, <2>4, <3>3
          <5>2. archive[at + (1 + i)] = (<<n>> \o v)[1 + i]
            BY <2>3, <5>1 DEF Carries
          <5> QED
            BY <2>4, <5>1, <5>2
        <4> HIDE DEF end, got
        <4>4. got = v
          <5>1. got \in Seq(ToSet(got)) /\ v \in Seq(ToSet(v)) /\ Len(v) = n
            BY <2>1, <4>2 DEF IsSeq, n
          <5>2. got = [i \in 1..n |-> got[i]] /\ v = [i \in 1..n |-> v[i]]
            BY <4>2, <5>1
          <5> QED
            BY <4>2, <4>3, <5>2
        <4>5. GetValue(s, x, archive, at) = Read(got, end)
          BY <1>3, <2>6, <3>1, <3>3 DEF GetValue, end, got
        <4>6. at + Len(<<n>> \o v) = end /\ end <= Len(archive)
          BY <1>1, <2>1, <2>4, <4>1 DEF end
        <4> QED
          BY <2>3, <4>4, <4>5, <4>6 DEF Outcome
      <3> QED
        BY <3>2, <3>3
    <2> QED
      BY <2>5, <2>6
  <1> QED
    BY <1>2, <1>3

LEMMA ValueIsSeq ==
  ASSUME NEW s, NEW v, IsValue(s, v)
  PROVE  IsSeq(PutValue(s, v))
  <1>1. IsSeq(<<v>>) /\ IsSeq(<<Len(v)>>)
    BY DEF IsSeq, ToSet
  <1> QED
    BY <1>1, ConcatIsSeq DEF PutValue, IsValue

-----------------------------------------------------------------------------
(* Many parts, one after the other.                                        *)
LEMMA PartsCarried ==
  ASSUME NEW archive, IsSeq(archive), NEW at \in 0..Len(archive),
         NEW parts, IsSeq(parts), \A i \in DOMAIN parts : IsSeq(parts[i]),
         NEW flat, Flattens(flat, parts), Carries(FlattenSeq(parts), archive, at)
  PROVE  \A i \in 0..Len(parts) : Carries(flat[i], archive, at)
  <1> DEFINE n == Len(parts)
             S == {j \in 0..n : Carries(flat[n - j], archive, at)}
  <1>1. n \in Nat /\ DOMAIN parts = 1..n
    BY IsSeqLen
  <1>2. 0 \in S
    BY <1>1 DEF Flattens
  <1>3. ASSUME NEW j \in 1..n, j - 1 \in S PROVE j \in S
    <2> DEFINE i == n - (j - 1)
    <2>1. i \in 1..n /\ n - (j - 1) = i
      BY <1>1
    <2>2. i - 1 \in 0..n /\ n - j = i - 1 /\ i \in DOMAIN parts
      BY <1>1, <2>1
    <2>3. Carries(flat[i], archive, at)
      BY <1>3
    <2> HIDE DEF i
    <2>6. flat[i] = flat[i - 1] \o parts[i]
      BY <2>1 DEF Flattens
    <2>4. IsSeq(flat[i - 1]) /\ IsSeq(parts[i])
      BY <2>2 DEF Flattens
    <2>5. Carries(flat[i - 1], archive, at)
      BY <2>3, <2>4, <2>6, Onward
    <2> QED
      BY <1>1, <2>2, <2>5
  <1> HIDE DEF S
  <1>4. 0..n \subseteq S
    BY <1>1, <1>2, <1>3, UpTo
  <1>5. \A i \in 0..n : n - i \in 0..n /\ n - (n - i) = i
    BY <1>1
  <1> QED
    BY <1>4, <1>5 DEF S

(* Where the reading of the i-th of some parts begins, and what is known   *)
(* when it has ended: p is the position.                                   *)
Continues(before, after, u, v, part, archive) ==
  /\ before.ok => \E p \in 0..Len(archive) :
                     /\ before = Read(u, p) /\ Carries(part, archive, p)
                     /\ after = Outcome(v, part, archive, p)
  /\ ~before.ok => after = Exhausted

LEMMA PartRead ==
  ASSUME NEW archive, IsSeq(archive), NEW at \in 0..Len(archive),
         NEW parts, IsSeq(parts), \A i \in DOMAIN parts : IsSeq(parts[i]),
         NEW flat, Flattens(flat, parts), Carries(FlattenSeq(parts), archive, at),
         NEW i \in 1..Len(parts), NEW u, NEW v
  PROVE  Continues(Outcome(u, flat[i - 1], archive, at), Outcome(v, flat[i], archive, at),
                   u, v, parts[i], archive)
  <1>1. Len(parts) \in Nat /\ i \in DOMAIN parts /\ i \in 0..Len(parts) /\ i - 1 \in 0..Len(parts)
    BY IsSeqLen
  <1>2. Carries(flat[i], archive, at)
    BY <1>1, PartsCarried
  <1>3. PICK a, b : a = flat[i - 1] /\ b = parts[i]
    OBVIOUS
  <1>4. IsSeq(a) /\ IsSeq(b) /\ flat[i] = a \o b
    BY <1>1, <1>3 DEF Flattens
  <1>5. Carries(a \o b, archive, at)
    BY <1>2, <1>4
  <1>6. /\ Outcome(u, a, archive, at).ok =>
              /\ Outcome(u, a, archive, at) = Read(u, at + Len(a))
              /\ at + Len(a) \in 0..Len(archive)
              /\ Carries(b, archive, at + Len(a))
              /\ Outcome(v, b, archive, at + Len(a)) = Outcome(v, a \o b, archive, at)
        /\ ~Outcome(u, a, archive, at).ok => Outcome(v, a \o b, archive, at) = Exhausted
    BY <1>4, <1>5, Onward
  <1> QED
    BY <1>3, <1>4, <1>6 DEF Continues

-----------------------------------------------------------------------------
(* A type whose serialize function lists every member.                     *)
Listed(s, i) == {s.fields[k][1] : k \in 1..i}
Complete(s) ==
  /\ IsSeq(s.fields) /\ DOMAIN s.new = Listed(s, Len(s.fields))
  /\ s.new = [f \in DOMAIN s.new |-> s.new[f]]

(* What an object is when its first i members have been read over x.       *)
Overwritten(s, v, x, i) ==
  [f \in DOMAIN s.new |-> IF f \in Listed(s, i) THEN v[f] ELSE x[f]]

LEMMA OneMoreMember ==
  ASSUME NEW s, Complete(s), NEW v, NEW x, NEW i \in 1..Len(s.fields)
  PROVE  /\ s.fields[i][1] \in DOMAIN s.new
         /\ [Overwritten(s, v, x, i - 1) EXCEPT ![s.fields[i][1]] = v[s.fields[i][1]]]
              = Overwritten(s, v, x, i)
  <1>1. Len(s.fields) \in Nat
    BY IsSeqLen DEF Complete
  <1>2. PICK name : name = s.fields[i][1]
    OBVIOUS
  <1>3. Listed(s, i) = Listed(s, i - 1) \cup {name}
    <2>1. 1..i = 1..(i - 1) \cup {i}
      BY <1>1
    <2> QED
      BY <1>2, <2>1 DEF Listed
  <1>4. name \in DOMAIN s.new
    BY <1>1, <1>2 DEF Complete, Listed
  <1> QED
    BY <1>2, <1>3, <1>4 DEF Overwritten

LEMMA AllMembers ==
  ASSUME NEW s, Complete(s), NEW v, v = [f \in DOMAIN s.new |-> v[f]],
         NEW x, x = [f \in DOMAIN s.new |-> x[f]]
  PROVE  Overwritten(s, v, x, 0) = x /\ Overwritten(s, v, x, Len(s.fields)) = v
  <1>1. Listed(s, 0) = {}
    BY DEF Listed
  <1>2. Overwritten(s, v, x, 0) = [f \in DOMAIN s.new |-> x[f]]
    BY <1>1 DEF Overwritten
  <1>3. Overwritten(s, v, x, Len(s.fields)) = [f \in DOMAIN s.new |-> v[f]]
    BY DEF Overwritten, Complete
  <1> QED
    BY <1>2, <1>3

(* A struct of values.                                                     *)
StructParts(s, v) == [i \in 1..Len(s.fields) |-> PutValue(s.fields[i][2], v[s.fields[i][1]])]

LEMMA StructPut ==
  ASSUME NEW s, Complete(s), NEW v, IsStruct(s, v)
  PROVE  /\ PutStruct(s, v) = FlattenSeq(StructParts(s, v)) /\ IsSeq(StructParts(s, v))
         /\ Len(StructParts(s, v)) = Len(s.fields)
         /\ \A i \in DOMAIN StructParts(s, v) : IsSeq(StructParts(s, v)[i])
  <1>1. Len(s.fields) \in Nat /\ DOMAIN s.fields = 1..Len(s.fields)
    BY IsSeqLen DEF Complete
  <1>2. PutStruct(s, v) = FlattenSeq(StructParts(s, v))
    BY <1>1 DEF PutStruct, PutMembers, StructParts
  <1>3. \A i \in 1..Len(s.fields) : IsValue(s.fields[i][2], v[s.fields[i][1]])
    BY <1>1 DEF IsStruct, HasMembers
  <1>4. StructParts(s, v) = [i \in 1..Len(s.fields) |-> StructParts(s, v)[i]]
    BY DEF StructParts
  <1>5. /\ IsSeq(StructParts(s, v)) /\ Len(StructParts(s, v)) = Len(s.fields)
        /\ DOMAIN StructParts(s, v) = 1..Len(s.fields)
    BY <1>1, <1>4, FunctionIsSeq
  <1> QED
    BY <1>2, <1>3, <1>5, ValueIsSeq DEF StructParts

NextValue(r, f, archive) ==
  IF ~r.ok THEN Exhausted
  ELSE LET m == GetValue(f[2], r.value[f[1]], archive, r.at)
       IN  IF m.ok THEN Read([r.value EXCEPT ![f[1]] = m.value], m.at) ELSE Exhausted

LEMMA NextValueRead ==
  ASSUME NEW archive, IsSeq(archive), NEW s, Complete(s), NEW v, IsStruct(s, v), NEW x,
         NEW i \in 1..Len(s.fields), NEW before, NEW after,
         Continues(before, after, Overwritten(s, v, x, i - 1), Overwritten(s, v, x, i),
                   PutValue(s.fields[i][2], v[s.fields[i][1]]), archive)
  PROVE  NextValue(before, s.fields[i], archive) = after
  <1>1. PICK name, type, old, new : /\ name = s.fields[i][1] /\ type = s.fields[i][2]
                                    /\ old = Overwritten(s, v, x, i - 1)
                                    /\ new = Overwritten(s, v, x, i)
    OBVIOUS
  <1>2. [old EXCEPT ![name] = v[name]] = new
    BY <1>1, OneMoreMember
  <1>3. IsValue(type, v[name])
    <2>1. i \in DOMAIN s.fields
      BY IsSeqLen DEF Complete
    <2> QED
      BY <1>1, <2>1 DEF IsStruct, HasMembers
  <1>4. CASE ~before.ok
    BY <1>4 DEF Continues, NextValue
  <1>5. CASE before.ok
    <2>1. PICK p \in 0..Len(archive) : /\ before = Read(old, p)
                                       /\ Carries(PutValue(type, v[name]), archive, p)
                                       /\ after = Outcome(new, PutValue(type, v[name]), archive, p)
      BY <1>1, <1>5 DEF Continues
    <2>2. before.value = old /\ before.at = p
      BY <2>1 DEF Read
    <2>3. GetValue(type, old[name], archive, p)
            = Outcome(v[name], PutValue(type, v[name]), archive, p)
      BY <1>3, <2>1, ValueRead
    <2>4. NextValue(before, s.fields[i], archive)
            = LET m == Outcome(v[name], PutValue(type, v[name]), archive, p)
              IN  IF m.ok THEN Read([old EXCEPT ![name] = m.value], m.at) ELSE Exhausted
      BY <1>1, <1>5, <2>2, <2>3 DEF NextValue
    <2> QED
      BY <1>2, <2>1, <2>4 DEF Outcome, Read, Exhausted
  <1> QED
    BY <1>4, <1>5

LEMMA StructRead ==
  ASSUME NEW archive, IsSeq(archive), NEW at \in 0..Len(archive),
         NEW s, Complete(s), NEW v, IsStruct(s, v), NEW x, x = [f \in DOMAIN s.new |-> x[f]],
         Carries(PutStruct(s, v), archive, at)
  PROVE  GetStruct(s, x, archive, at) = Outcome(v, PutStruct(s, v), archive, at)
  <1> DEFINE n == Len(s.fields)
             h == CHOOSE after : after =
                    [i \in 0..n |-> IF i = 0 THEN Read(x, at)
                                    ELSE NextValue(after[i - 1], s.fields[i], archive)]
  <1>1. PICK parts : parts = StructParts(s, v)
    OBVIOUS
  <1>2. /\ PutStruct(s, v) = FlattenSeq(parts) /\ IsSeq(parts) /\ Len(parts) = n /\ n \in Nat
        /\ \A i \in DOMAIN parts : IsSeq(parts[i])
        /\ \A i \in 1..n : parts[i] = PutValue(s.fields[i][2], v[s.fields[i][1]])
    BY <1>1, StructPut, IsSeqLen DEF StructParts
  <1>3. PICK flat : Flattens(flat, parts)
    BY <1>2, FlattenSteps
  <1> DEFINE g == [i \in 0..n |-> Outcome(Overwritten(s, v, x, i), flat[i], archive, at)]
  <1> HIDE DEF n
  <1>4. ASSUME NEW i \in 1..n PROVE g[i] = NextValue(g[i - 1], s.fields[i], archive)
    <2>1. PICK u, w : u = Overwritten(s, v, x, i - 1) /\ w = Overwritten(s, v, x, i)
      OBVIOUS
    <2>2. i \in 0..n /\ i - 1 \in 0..n /\ i \in 1..Len(parts) /\ i \in 1..Len(s.fields)
      BY <1>2 DEF n
    <2>3. g[i - 1] = Outcome(u, flat[i - 1], archive, at) /\ g[i] = Outcome(w, flat[i], archive, at)
      BY <2>1, <2>2
    <2> HIDE DEF g
    <2>4. Carries(FlattenSeq(parts), archive, at)
      BY <1>2
    <2>5. Continues(Outcome(u, flat[i - 1], archive, at), Outcome(w, flat[i], archive, at),
                    u, w, parts[i], archive)
      BY <1>2, <1>3, <2>2, <2>4, PartRead
    <2>6. Continues(g[i - 1], g[i], u, w, parts[i], archive)
      BY <2>3, <2>5
    <2> QED
      BY <1>2, <2>1, <2>2, <2>6, NextValueRead
  <1>5. g[0] = Read(x, at) /\ g[n] = Outcome(v, PutStruct(s, v), archive, at)
    <2>1. v = [f \in DOMAIN s.new |-> v[f]]
      BY DEF IsStruct, HasMembers
    <2>2. Overwritten(s, v, x, 0) = x /\ Overwritten(s, v, x, n) = v
      BY <2>1, AllMembers DEF n
    <2>3. flat[0] = <<>> /\ flat[n] = PutStruct(s, v)
      BY <1>2, <1>3 DEF Flattens
    <2>4. Len(<<>>) = 0 /\ at + 0 = at /\ at <= Len(archive)
      BY IsSeqLen
    <2>5. 0 \in 0..n /\ n \in 0..n
      BY <1>2
    <2> QED
      BY <2>2, <2>3, <2>4, <2>5 DEF Outcome
  <1>6. g = [i \in 0..n |-> IF i = 0 THEN Read(x, at)
                            ELSE NextValue(g[i - 1], s.fields[i], archive)]
    <2>1. \A i \in 0..n : i = 0 \/ i \in 1..n
      BY <1>2
    <2>2. \A i \in 0..n : g[i] = IF i = 0 THEN Read(x, at)
                                  ELSE NextValue(g[i - 1], s.fields[i], archive)
      BY <1>4, <1>5, <2>1
    <2>3. g = [i \in 0..n |-> g[i]]
      OBVIOUS
    <2> HIDE DEF g
    <2> QED
      BY <2>2, <2>3
  <1> HIDE DEF g
  <1>7. h = [i \in 0..n |-> IF i = 0 THEN Read(x, at)
                            ELSE NextValue(h[i - 1], s.fields[i], archive)]
    BY <1>6
  <1>8. GetStruct(s, x, archive, at) = h[n]
    BY DEF GetStruct, GetMembers, NextValue, n
  <1> HIDE DEF h
  <1>9. h[n] = g[n]
    <2>1. h[0] = g[0]
      BY <1>2, <1>5, <1>7
    <2>2. \A i \in 1..n : h[i - 1] = g[i - 1] => h[i] = g[i]
      <3>1. \A i \in 1..n : i \in 0..n /\ i # 0
        BY <1>2
      <3>2. \A i \in 1..n : h[i] = NextValue(h[i - 1], s.fields[i], archive)
        BY <1>7, <3>1
      <3> QED
        BY <1>4, <3>2
    <2> QED
      BY <1>2, <2>1, <2>2, Agree
  <1> QED
    BY <1>5, <1>8, <1>9

-----------------------------------------------------------------------------
(* A value, or a struct of values.                                         *)
GoodItem(s) == s.shape = "struct" => Complete(s)
Default(s, x) == s.shape = "struct" => x = [f \in DOMAIN s.new |-> x[f]]

LEMMA ItemIsSeq ==
  ASSUME NEW s, GoodItem(s), NEW v, IsItem(s, v)
  PROVE  IsSeq(PutItem(s, v))
  <1>1. CASE s.shape = "struct"
    <2>1. Complete(s) /\ IsStruct(s, v)
      BY <1>1 DEF GoodItem, IsItem
    <2>2. PICK parts : parts = StructParts(s, v)
      OBVIOUS
    <2>3. /\ PutStruct(s, v) = FlattenSeq(parts) /\ IsSeq(parts)
          /\ \A i \in DOMAIN parts : IsSeq(parts[i])
      BY <2>1, <2>2, StructPut
    <2>4. PICK flat : Flattens(flat, parts)
      BY <2>3, FlattenSteps
    <2>5. IsSeq(flat[Len(parts)])
      <3>1. Len(parts) \in 0..Len(parts)
        BY <2>3, IsSeqLen
      <3> QED
        BY <2>4, <3>1 DEF Flattens
    <2> QED
      BY <1>1, <2>3, <2>4, <2>5 DEF Flattens, PutItem
  <1>2. CASE s.shape # "struct"
    BY <1>2, ValueIsSeq DEF IsItem, PutItem
  <1> QED
    BY <1>1, <1>2

LEMMA ItemRead ==
  ASSUME NEW archive, IsSeq(archive), NEW at \in 0..Len(archive),
         NEW s, GoodItem(s), NEW v, IsItem(s, v), NEW x, Default(s, x),
         Carries(PutItem(s, v), archive, at)
  PROVE  GetItem(s, x, archive, at) = Outcome(v, PutItem(s, v), archive, at)
  <1>1. CASE s.shape = "struct"
    <2>1. /\ Complete(s) /\ IsStruct(s, v) /\ PutItem(s, v) = PutStruct(s, v)
          /\ x = [f \in DOMAIN s.new |-> x[f]]
      BY <1>1 DEF GoodItem, IsItem, PutItem, Default
    <2> QED
      BY <1>1, <2>1, StructRead DEF GetItem
  <1>2. CASE s.shape # "struct"
    <2>1. IsValue(s, v) /\ PutItem(s, v) = PutValue(s, v)
      BY <1>2 DEF IsItem, PutItem
    <2> QED
      BY <1>2, <2>1, ValueRead DEF GetItem
  <1> QED
    BY <1>1, <1>2

-----------------------------------------------------------------------------
(* A list of items.                                                        *)
FirstOf(v, i) == [k \in 1..i |-> v[k]]
ListParts(s, v) == [i \in 1..Len(v) |-> PutItem(s.of, v[i])]
NextElement(r, s, archive) ==
  IF ~r.ok THEN Exhausted
  ELSE LET e == GetItem(s.of, s.of.new, archive, r.at)
       IN  IF e.ok THEN Read(Append(r.value, e.value), e.at) ELSE Exhausted

LEMMA OneMoreElement ==
  ASSUME NEW v, IsSeq(v), NEW i \in 1..Len(v)
  PROVE  Append(FirstOf(v, i - 1), v[i]) = FirstOf(v, i)
  <1>1. Len(v) \in Nat /\ i - 1 \in Nat /\ (i - 1) + 1 = i
    BY IsSeqLen
  <1>2. PICK s, n : s = FirstOf(v, i - 1) /\ n = i - 1 /\ n \in Nat
    BY <1>1
  <1>3. s = [k \in 1..n |-> s[k]] /\ \A k \in 1..n : s[k] = v[k]
    BY <1>2 DEF FirstOf
  <1>4. IsSeq(s) /\ Len(s) = n
    BY <1>2, <1>3, FunctionIsSeq
  <1>5. PICK t : t = Append(s, v[i])
    OBVIOUS
  <1>6. IsSeq(t) /\ Len(t) = i /\ (\A k \in 1..n : t[k] = v[k]) /\ t[i] = v[i]
    BY <1>1, <1>2, <1>3, <1>4, <1>5, AppendIsSeq
  <1>7. t = [k \in 1..i |-> t[k]]
    BY <1>6 DEF IsSeq
  <1>8. \A k \in 1..i : k = i \/ k \in 1..n
    BY <1>1, <1>2
  <1> QED
    BY <1>2, <1>5, <1>6, <1>7, <1>8 DEF FirstOf

LEMMA ListPut ==
  ASSUME NEW s, GoodItem(s.of), NEW v, IsSeq(v), \A i \in DOMAIN v : IsItem(s.of, v[i])
  PROVE  /\ IsSeq(ListParts(s, v)) /\ Len(ListParts(s, v)) = Len(v)
         /\ \A i \in DOMAIN ListParts(s, v) : IsSeq(ListParts(s, v)[i])
         /\ IsSeq(FlattenSeq(ListParts(s, v)))
  <1>1. Len(v) \in Nat /\ DOMAIN v = 1..Len(v)
    BY IsSeqLen
  <1>2. PICK parts : parts = ListParts(s, v)
    OBVIOUS
  <1>3. parts = [i \in 1..Len(v) |-> parts[i]]
    BY <1>2 DEF ListParts
  <1>4. IsSeq(parts) /\ Len(parts) = Len(v) /\ DOMAIN parts = 1..Len(v)
    BY <1>1, <1>3, FunctionIsSeq
  <1>5. \A i \in DOMAIN parts : IsSeq(parts[i])
    BY <1>1, <1>2, <1>4, ItemIsSeq DEF ListParts
  <1>6. PICK flat : Flattens(flat, parts)
    BY <1>4, <1>5, FlattenSteps
  <1>7. IsSeq(flat[Len(parts)])
    <2>1. Len(parts) \in 0..Len(parts)
      BY <1>1, <1>4
    <2> QED
      BY <1>6, <2>1 DEF Flattens
  <1> QED
    BY <1>2, <1>4, <1>5, <1>6, <1>7 DEF Flattens

LEMMA NextElementRead ==
  ASSUME NEW archive, IsSeq(archive), NEW s, GoodItem(s.of), NEW v, IsSeq(v),
         \A i \in DOMAIN v : IsItem(s.of, v[i]),
         NEW i \in 1..Len(v), NEW before, NEW after,
         Continues(before, after, FirstOf(v, i - 1), FirstOf(v, i), PutItem(s.of, v[i]), archive)
  PROVE  NextElement(before, s, archive) = after
  <1>1. PICK element, type, old, new : /\ element = v[i] /\ type = s.of
                                       /\ old = FirstOf(v, i - 1) /\ new = FirstOf(v, i)
    OBVIOUS
  <1>2. Append(old, element) = new
    BY <1>1, OneMoreElement
  <1>3. IsItem(type, element) /\ GoodItem(type) /\ Default(type, type.new)
    <2>1. i \in DOMAIN v
      BY IsSeqLen
    <2> QED
      BY <1>1, <2>1 DEF GoodItem, Default, Complete
  <1>4. CASE ~before.ok
    BY <1>4 DEF Continues, NextElement
  <1>5. CASE before.ok
    <2>1. PICK p \in 0..Len(archive) : /\ before = Read(old, p)
                                       /\ Carries(PutItem(type, element), archive, p)
                                       /\ after = Outcome(new, PutItem(type, element), archive, p)
      BY <1>1, <1>5 DEF Continues
    <2>2. before.value = old /\ before.at = p
      BY <2>1 DEF Read
    <2>3. GetItem(type, type.new, archive, p) = Outcome(element, PutItem(type, element), archive, p)
      BY <1>3, <2>1, ItemRead
    <2>4. NextElement(before, s, archive)
            = LET e == Outcome(element, PutItem(type, element), archive, p)
              IN  IF e.ok THEN Read(Append(old, e.value), e.at) ELSE Exhausted
      BY <1>1, <1>5, <2>2, <2>3 DEF NextElement
    <2> QED
      BY <1>2, <2>1, <2>4 DEF Outcome, Read, Exhausted
  <1> QED
    BY <1>4, <1>5

(* The elements, from the position after the size.                         *)
LEMMA ElementsRead ==
  ASSUME NEW archive, IsSeq(archive), NEW at \in 0..Len(archive), at + 1 <= Len(archive),
         NEW s, GoodItem(s.of), NEW v, IsSeq(v), \A i \in DOMAIN v : IsItem(s.of, v[i]),
         archive[at + 1] = Len(v), Carries(FlattenSeq(ListParts(s, v)), archive, at + 1)
  PROVE  GetElements(s, archive, at) = Outcome(v, FlattenSeq(ListParts(s, v)), archive, at + 1)
  <1> DEFINE n == Len(v)
             h == CHOOSE after : after =
                    [i \in 0..n |-> IF i = 0 THEN Read(<<>>, at + 1)
                                    ELSE NextElement(after[i - 1], s, archive)]
  <1>1. PICK parts : parts = ListParts(s, v)
    OBVIOUS
  <1>2. /\ IsSeq(parts) /\ Len(parts) = n /\ n \in Nat
        /\ \A i \in DOMAIN parts : IsSeq(parts[i])
        /\ \A i \in 1..n : parts[i] = PutItem(s.of, v[i])
    BY <1>1, ListPut, IsSeqLen DEF ListParts
  <1>3. PICK flat : Flattens(flat, parts)
    BY <1>2, FlattenSteps
  <1> DEFINE start == at + 1
             g == [i \in 0..n |-> Outcome(FirstOf(v, i), flat[i], archive, start)]
  <1>10. start \in 0..Len(archive) /\ archive[start] = n
    BY IsSeqLen
  <1>11. Carries(FlattenSeq(parts), archive, start)
    BY <1>1
  <1>8. GetElements(s, archive, at) = h[n]
    BY DEF GetElements, NextElement
  <1> HIDE DEF n, start
  <1>4. ASSUME NEW i \in 1..n PROVE g[i] = NextElement(g[i - 1], s, archive)
    <2>1. PICK u, w : u = FirstOf(v, i - 1) /\ w = FirstOf(v, i)
      OBVIOUS
    <2>2. i \in 0..n /\ i - 1 \in 0..n /\ i \in 1..Len(parts) /\ i \in 1..Len(v)
      BY <1>2 DEF n
    <2>3. /\ g[i - 1] = Outcome(u, flat[i - 1], archive, start)
          /\ g[i] = Outcome(w, flat[i], archive, start)
      BY <2>1, <2>2
    <2> HIDE DEF g
    <2>4. Continues(Outcome(u, flat[i - 1], archive, start), Outcome(w, flat[i], archive, start),
                    u, w, parts[i], archive)
      BY <1>2, <1>3, <1>10, <1>11, <2>2, PartRead
    <2>5. Continues(g[i - 1], g[i], u, w, parts[i], archive)
      BY <2>3, <2>4
    <2> QED
      BY <1>2, <2>1, <2>2, <2>5, NextElementRead
  <1>5. g[0] = Read(<<>>, start) /\ g[n] = Outcome(v, FlattenSeq(parts), archive, start)
    <2>1. v = [k \in 1..n |-> v[k]] /\ 1..0 = {}
      BY DEF IsSeq, n
    <2>2. FirstOf(v, n) = v
      BY <2>1 DEF FirstOf
    <2>3. FirstOf(v, 0) = <<>>
      BY <2>1 DEF FirstOf
    <2>4. flat[0] = <<>> /\ flat[n] = FlattenSeq(parts)
      BY <1>2, <1>3 DEF Flattens
    <2>5. Len(<<>>) = 0 /\ start + 0 = start /\ start <= Len(archive)
      BY <1>10, IsSeqLen
    <2>6. 0 \in 0..n /\ n \in 0..n
      BY <1>2
    <2> QED
      BY <2>2, <2>3, <2>4, <2>5, <2>6 DEF Outcome
  <1>6. g = [i \in 0..n |-> IF i = 0 THEN Read(<<>>, start)
                            ELSE NextElement(g[i - 1], s, archive)]
    <2>1. \A i \in 0..n : i = 0 \/ i \in 1..n
      BY <1>2
    <2>2. \A i \in 0..n : g[i] = IF i = 0 THEN Read(<<>>, start)
                                  ELSE NextElement(g[i - 1], s, archive)
      BY <1>4, <1>5, <2>1
    <2>3. g = [i \in 0..n |-> g[i]]
      OBVIOUS
    <2> HIDE DEF g
    <2> QED
      BY <2>2, <2>3
  <1> HIDE DEF g
  <1>7. h = [i \in 0..n |-> IF i = 0 THEN Read(<<>>, start)
                            ELSE NextElement(h[i - 1], s, archive)]
    BY <1>6 DEF start
  <1> HIDE DEF h
  <1>9. h[n] = g[n]
    <2>1. h[0] = g[0]
      BY <1>2, <1>5, <1>7
    <2>2. \A i \in 1..n : h[i - 1] = g[i - 1] => h[i] = g[i]
      <3>1. \A i \in 1..n : i \in 0..n /\ i # 0
        BY <1>2
      <3>2. \A i \in 1..n : h[i] = NextElement(h[i - 1], s, archive)
        BY <1>7, <3>1
      <3> QED
        BY <1>4, <3>2
    <2> QED
      BY <1>2, <2>1, <2>2, Agree
  <1> QED
    BY <1>1, <1>5, <1>8, <1>9 DEF start

-----------------------------------------------------------------------------
(* A member of a message: a list of items, or an item.                     *)
GoodMember(s) == IF s.shape = "list" THEN GoodItem(s.of) ELSE GoodItem(s)

LEMMA ListMember ==
  ASSUME NEW s, s.shape = "list", NEW v, IsMember(s, v)
  PROVE  /\ IsSeq(v) /\ \A i \in DOMAIN v : IsItem(s.of, v[i])
         /\ PutMember(s, v) = <<Len(v)>> \o FlattenSeq(ListParts(s, v))
  <1>1. IsSeq(v) /\ \A i \in DOMAIN v : IsItem(s.of, v[i])
    BY DEF IsMember
  <1>2. DOMAIN v = 1..Len(v)
    BY <1>1, IsSeqLen
  <1> QED
    BY <1>1, <1>2 DEF PutMember, ListParts

LEMMA MemberIsSeq ==
  ASSUME NEW s, GoodMember(s), NEW v, IsMember(s, v)
  PROVE  IsSeq(PutMember(s, v))
  <1>1. CASE s.shape = "list"
    <2>1. /\ IsSeq(v) /\ \A i \in DOMAIN v : IsItem(s.of, v[i])
          /\ PutMember(s, v) = <<Len(v)>> \o FlattenSeq(ListParts(s, v))
      BY <1>1, ListMember
    <2>2. IsSeq(FlattenSeq(ListParts(s, v)))
      BY <1>1, <2>1, ListPut DEF GoodMember
    <2>3. IsSeq(<<Len(v)>>)
      BY DEF IsSeq, ToSet
    <2> QED
      BY <2>1, <2>2, <2>3, ConcatIsSeq
  <1>2. CASE s.shape # "list"
    BY <1>2, ItemIsSeq DEF GoodMember, IsMember, PutMember
  <1> QED
    BY <1>1, <1>2

LEMMA MemberRead ==
  ASSUME NEW archive, IsSeq(archive), NEW at \in 0..Len(archive),
         NEW s, GoodMember(s), NEW v, IsMember(s, v), NEW x, Default(s, x),
         Carries(PutMember(s, v), archive, at)
  PROVE  GetMember(s, x, archive, at) = Outcome(v, PutMember(s, v), archive, at)
  <1>1. CASE s.shape = "list"
    <2>1. PICK n, size, elements : /\ n = Len(v) /\ size = <<n>>
                                   /\ elements = FlattenSeq(ListParts(s, v))
      OBVIOUS
    <2>2. /\ IsSeq(v) /\ (\A i \in DOMAIN v : IsItem(s.of, v[i])) /\ GoodItem(s.of)
          /\ PutMember(s, v) = size \o elements
      BY <1>1, <2>1, ListMember DEF GoodMember
    <2>3. IsSeq(elements) /\ n \in Nat
      BY <2>1, <2>2, ListPut, IsSeqLen
    <2>4. IsSeq(size) /\ Len(size) = 1 /\ size[1] = n
      BY <2>1 DEF IsSeq, ToSet
    <2>5. Carries(size \o elements, archive, at)
      BY <2>2
    <2>11. IsSeq(elements) /\ IsSeq(size)
      BY <2>3, <2>4
    <2>6. /\ Outcome(v, size, archive, at).ok =>
               /\ Outcome(v, size, archive, at) = Read(v, at + Len(size))
               /\ at + Len(size) \in 0..Len(archive)
               /\ Carries(elements, archive, at + Len(size))
               /\ Outcome(v, elements, archive, at + Len(size))
                    = Outcome(v, size \o elements, archive, at)
          /\ ~Outcome(v, size, archive, at).ok
               => Outcome(v, size \o elements, archive, at) = Exhausted
          /\ Carries(size, archive, at)
      BY ONLY IsSeq(archive), at \in 0..Len(archive), <2>5, <2>11, Onward
    <2>7. PICK before : before = Outcome(v, size, archive, at)
      OBVIOUS
    <2>8. before.ok <=> at # Len(archive)
      BY <2>4, <2>7, IsSeqLen DEF Outcome, Read, Exhausted
    <2>9. CASE at = Len(archive)
      BY <1>1, <2>2, <2>6, <2>7, <2>8, <2>9 DEF GetMember
    <2>10. CASE at # Len(archive)
      <3>1. at + 1 \in 0..Len(archive) /\ at + 1 <= Len(archive)
        BY <2>10, IsSeqLen
      <3>2. archive[at + 1] = Len(v)
        BY <2>1, <2>4, <2>6, <3>1 DEF Carries
      <3>3. GetElements(s, archive, at) = Outcome(v, elements, archive, at + 1)
        <4>1. Carries(FlattenSeq(ListParts(s, v)), archive, at + 1)
          BY <2>1, <2>4, <2>6, <2>7, <2>8, <2>10
        <4>2. GetElements(s, archive, at) = Outcome(v, FlattenSeq(ListParts(s, v)), archive, at + 1)
          BY <2>2, <3>1, <3>2, <4>1, ElementsRead
        <4> QED
          BY <2>1, <4>2
      <3>4. Outcome(v, elements, archive, at + 1) = Outcome(v, PutMember(s, v), archive, at)
        BY <2>2, <2>4, <2>6, <2>7, <2>8, <2>10
      <3> QED
        BY <1>1, <2>10, <3>3, <3>4 DEF GetMember
    <2> QED
      BY <2>9, <2>10
  <1>2. CASE s.shape # "list"
    <2>1. GoodItem(s) /\ IsItem(s, v) /\ PutMember(s, v) = PutItem(s, v)
      BY <1>2 DEF GoodMember, IsMember, PutMember
    <2> QED
      BY <1>2, <2>1, ItemRead DEF GetMember
  <1> QED
    BY <1>1, <1>2

-----------------------------------------------------------------------------
(* A message: a struct whose members may be lists and structs.             *)
GoodMessage(s) ==
  /\ Complete(s)
  /\ \A i \in 1..Len(s.fields) : /\ GoodMember(s.fields[i][2])
                                 /\ Default(s.fields[i][2], s.new[s.fields[i][1]])
MessageParts(s, v) == [i \in 1..Len(s.fields) |-> PutMember(s.fields[i][2], v[s.fields[i][1]])]

LEMMA MessagePut ==
  ASSUME NEW s, GoodMessage(s), NEW v, IsObject(s, v)
  PROVE  /\ Put(s, v) = FlattenSeq(MessageParts(s, v)) /\ IsSeq(MessageParts(s, v))
         /\ Len(MessageParts(s, v)) = Len(s.fields)
         /\ \A i \in DOMAIN MessageParts(s, v) : IsSeq(MessageParts(s, v)[i])
         /\ IsSeq(Put(s, v))
  <1>1. Len(s.fields) \in Nat /\ DOMAIN s.fields = 1..Len(s.fields)
    BY IsSeqLen DEF GoodMessage, Complete
  <1>2. PICK parts : parts = MessageParts(s, v)
    OBVIOUS
  <1>3. Put(s, v) = FlattenSeq(parts)
    BY <1>1, <1>2 DEF Put, PutMembers, MessageParts
  <1>4. \A i \in 1..Len(s.fields) : IsMember(s.fields[i][2], v[s.fields[i][1]])
    BY <1>1 DEF IsObject, HasMembers
  <1>5. parts = [i \in 1..Len(s.fields) |-> parts[i]]
    BY <1>2 DEF MessageParts
  <1>6. IsSeq(parts) /\ Len(parts) = Len(s.fields) /\ DOMAIN parts = 1..Len(s.fields)
    BY <1>1, <1>5, FunctionIsSeq
  <1>7. \A i \in DOMAIN parts : IsSeq(parts[i])
    BY <1>2, <1>4, <1>6, MemberIsSeq DEF MessageParts, GoodMessage
  <1>8. PICK flat : Flattens(flat, parts)
    BY <1>6, <1>7, FlattenSteps
  <1>9. IsSeq(flat[Len(parts)])
    <2>1. Len(parts) \in 0..Len(parts)
      BY <1>1, <1>6
    <2> QED
      BY <1>8, <2>1 DEF Flattens
  <1> QED
    BY <1>2, <1>3, <1>6, <1>7, <1>8, <1>9 DEF Flattens

NextMember(r, f, archive) ==
  IF ~r.ok THEN Exhausted
  ELSE LET m == GetMember(f[2], r.value[f[1]], archive, r.at)
       IN  IF m.ok THEN Read([r.value EXCEPT ![f[1]] = m.value], m.at) ELSE Exhausted

LEMMA NextMemberRead ==
  ASSUME NEW archive, IsSeq(archive), NEW s, GoodMessage(s), NEW v, IsObject(s, v),
         NEW i \in 1..Len(s.fields), NEW before, NEW after,
         Continues(before, after, Overwritten(s, v, s.new, i - 1), Overwritten(s, v, s.new, i),
                   PutMember(s.fields[i][2], v[s.fields[i][1]]), archive)
  PROVE  NextMember(before, s.fields[i], archive) = after
  <1>1. PICK name, type, old, new : /\ name = s.fields[i][1] /\ type = s.fields[i][2]
                                    /\ old = Overwritten(s, v, s.new, i - 1)
                                    /\ new = Overwritten(s, v, s.new, i)
    OBVIOUS
  <1>2. name \in DOMAIN s.new /\ [old EXCEPT ![name] = v[name]] = new
    BY <1>1, OneMoreMember DEF GoodMessage
  <1>3. IsMember(type, v[name]) /\ GoodMember(type)
    <2>1. i \in DOMAIN s.fields
      BY IsSeqLen DEF GoodMessage, Complete
    <2> QED
      BY <1>1, <2>1 DEF IsObject, HasMembers, GoodMessage
  <1>6. Default(type, old[name])
    <2>1. Default(type, s.new[name])
      BY <1>1 DEF GoodMessage
    <2>2. Default(type, v[name])
      BY <1>3 DEF Default, IsMember, IsItem, IsStruct, HasMembers
    <2>3. old[name] = v[name] \/ old[name] = s.new[name]
      BY <1>1, <1>2 DEF Overwritten
    <2> QED
      BY <2>1, <2>2, <2>3
  <1>4. CASE ~before.ok
    BY <1>4 DEF Continues, NextMember
  <1>5. CASE before.ok
    <2>1. PICK p \in 0..Len(archive) : /\ before = Read(old, p)
                                       /\ Carries(PutMember(type, v[name]), archive, p)
                                       /\ after = Outcome(new, PutMember(type, v[name]), archive, p)
      BY <1>1, <1>5 DEF Continues
    <2>2. before.value = old /\ before.at = p
      BY <2>1 DEF Read
    <2>3. GetMember(type, old[name], archive, p)
            = Outcome(v[name], PutMember(type, v[name]), archive, p)
      BY <1>3, <1>6, <2>1, MemberRead
    <2>4. NextMember(before, s.fields[i], archive)
            = LET m == Outcome(v[name], PutMember(type, v[name]), archive, p)
              IN  IF m.ok THEN Read([old EXCEPT ![name] = m.value], m.at) ELSE Exhausted
      BY <1>1, <1>5, <2>2, <2>3 DEF NextMember
    <2> QED
      BY <1>2, <2>1, <2>4 DEF Outcome, Read, Exhausted
  <1> QED
    BY <1>4, <1>5

LEMMA MessageRead ==
  ASSUME NEW archive, IsSeq(archive), NEW at \in 0..Len(archive),
         NEW s, GoodMessage(s), NEW v, IsObject(s, v),
         Carries(Put(s, v), archive, at)
  PROVE  Get(s, s.new, archive, at) = Outcome(v, Put(s, v), archive, at)
  <1> DEFINE n == Len(s.fields)
             x == s.new
             h == CHOOSE after : after =
                    [i \in 0..n |-> IF i = 0 THEN Read(x, at)
                                    ELSE NextMember(after[i - 1], s.fields[i], archive)]
  <1>1. PICK parts : parts = MessageParts(s, v)
    OBVIOUS
  <1>2. /\ Put(s, v) = FlattenSeq(parts) /\ IsSeq(parts) /\ Len(parts) = n /\ n \in Nat
        /\ \A i \in DOMAIN parts : IsSeq(parts[i])
        /\ \A i \in 1..n : parts[i] = PutMember(s.fields[i][2], v[s.fields[i][1]])
    BY <1>1, MessagePut, IsSeqLen DEF MessageParts
  <1>3. PICK flat : Flattens(flat, parts)
    BY <1>2, FlattenSteps
  <1> DEFINE g == [i \in 0..n |-> Outcome(Overwritten(s, v, x, i), flat[i], archive, at)]
  <1> HIDE DEF n
  <1>4. ASSUME NEW i \in 1..n PROVE g[i] = NextMember(g[i - 1], s.fields[i], archive)
    <2>1. PICK u, w : u = Overwritten(s, v, x, i - 1) /\ w = Overwritten(s, v, x, i)
      OBVIOUS
    <2>2. i \in 0..n /\ i - 1 \in 0..n /\ i \in 1..Len(parts) /\ i \in 1..Len(s.fields)
      BY <1>2 DEF n
    <2>3. g[i - 1] = Outcome(u, flat[i - 1], archive, at) /\ g[i] = Outcome(w, flat[i], archive, at)
      BY <2>1, <2>2
    <2> HIDE DEF g
    <2>4. Carries(FlattenSeq(parts), archive, at)
      BY <1>2
    <2>5. Continues(Outcome(u, flat[i - 1], archive, at), Outcome(w, flat[i], archive, at),
                    u, w, parts[i], archive)
      BY <1>2, <1>3, <2>2, <2>4, PartRead
    <2>6. Continues(g[i - 1], g[i], u, w, parts[i], archive)
      BY <2>3, <2>5
    <2> QED
      BY <1>2, <2>1, <2>2, <2>6, NextMemberRead
  <1>5. g[0] = Read(x, at) /\ g[n] = Outcome(v, Put(s, v), archive, at)
    <2>1. v = [f \in DOMAIN s.new |-> v[f]]
      BY DEF IsObject, HasMembers
    <2>2. Overwritten(s, v, x, 0) = x /\ Overwritten(s, v, x, n) = v
      BY <2>1, AllMembers DEF n, GoodMessage, Complete
    <2>3. flat[0] = <<>> /\ flat[n] = Put(s, v)
      BY <1>2, <1>3 DEF Flattens
    <2>4. Len(<<>>) = 0 /\ at + 0 = at /\ at <= Len(archive)
      BY IsSeqLen
    <2>5. 0 \in 0..n /\ n \in 0..n
      BY <1>2
    <2> QED
      BY <2>2, <2>3, <2>4, <2>5 DEF Outcome
  <1>6. g = [i \in 0..n |-> IF i = 0 THEN Read(x, at)
                            ELSE NextMember(g[i - 1], s.fields[i], archive)]
    <2>1. \A i \in 0..n : i = 0 \/ i \in 1..n
      BY <1>2
    <2>2. \A i \in 0..n : g[i] = IF i = 0 THEN Read(x, at)
                                  ELSE NextMember(g[i - 1], s.fields[i], archive)
      BY <1>4, <1>5, <2>1
    <2>3. g = [i \in 0..n |-> g[i]]
      OBVIOUS
    <2> HIDE DEF g
    <2> QED
      BY <2>2, <2>3
  <1> HIDE DEF g
  <1>7. h = [i \in 0..n |-> IF i = 0 THEN Read(x, at)
                            ELSE NextMember(h[i - 1], s.fields[i], archive)]
    BY <1>6
  <1>8. Get(s, x, archive, at) = h[n]
    BY DEF Get, GetMembers, NextMember, n
  <1> HIDE DEF h
  <1>9. h[n] = g[n]
    <2>1. h[0] = g[0]
      BY <1>2, <1>5, <1>7
    <2>2. \A i \in 1..n : h[i - 1] = g[i - 1] => h[i] = g[i]
      <3>1. \A i \in 1..n : i \in 0..n /\ i # 0
        BY <1>2
      <3>2. \A i \in 1..n : h[i] = NextMember(h[i - 1], s.fields[i], archive)
        BY <1>7, <3>1
      <3> QED
        BY <1>4, <3>2
    <2> QED
      BY <1>2, <2>1, <2>2, Agree
  <1> QED
    BY <1>5, <1>8, <1>9

-----------------------------------------------------------------------------
(* The types of src/include/proto2 list every member.                      *)
LEMMA FHEParamsMetaComplete == Complete(FHEParamsMeta)
  <1>1. IsSeq(FHEParamsMeta.fields) /\ Len(FHEParamsMeta.fields) = 6
    BY DEF FHEParamsMeta, Struct, IsSeq, ToSet
  <1>2. 1..6 = {1, 2, 3, 4, 5, 6}
    OBVIOUS
  <1>3. Listed(FHEParamsMeta, 6) = DOMAIN FHEParamsMeta.new
    BY <1>2 DEF Listed, FHEParamsMeta, Struct, NewFHEParamsMeta
  <1>4. FHEParamsMeta.new = [f \in DOMAIN FHEParamsMeta.new |-> FHEParamsMeta.new[f]]
    BY DEF FHEParamsMeta, Struct, NewFHEParamsMeta
  <1> QED
    BY <1>1, <1>3, <1>4 DEF Complete

LEMMA EncryptedLiteralEntryComplete == Complete(EncryptedLiteralEntry)
  <1>1. IsSeq(EncryptedLiteralEntry.fields) /\ Len(EncryptedLiteralEntry.fields) = 4
    BY DEF EncryptedLiteralEntry, Struct, IsSeq, ToSet
  <1>2. 1..4 = {1, 2, 3, 4}
    OBVIOUS
  <1>3. Listed(EncryptedLiteralEntry, 4) = DOMAIN EncryptedLiteralEntry.new
    BY <1>2 DEF Listed, EncryptedLiteralEntry, Struct, NewEncryptedLiteralEntry
  <1>4. EncryptedLiteralEntry.new
          = [f \in DOMAIN EncryptedLiteralEntry.new |-> EncryptedLiteralEntry.new[f]]
    BY DEF EncryptedLiteralEntry, Struct, NewEncryptedLiteralEntry
  <1> QED
    BY <1>1, <1>3, <1>4 DEF Complete

LEMMA PredNodeComplete == Complete(PredNode)
  <1>1. IsSeq(PredNode.fields) /\ Len(PredNode.fields) = 6
    BY DEF PredNode, Struct, IsSeq, ToSet
  <1>2. 1..6 = {1, 2, 3, 4, 5, 6}
    OBVIOUS
  <1>3. Listed(PredNode, 6) = DOMAIN PredNode.new
    BY <1>2 DEF Listed, PredNode, Struct, NewPredNode
  <1>4. PredNode.new = [f \in DOMAIN PredNode.new |-> PredNode.new[f]]
    BY DEF PredNode, Struct, NewPredNode
  <1> QED
    BY <1>1, <1>3, <1>4 DEF Complete

LEMMA ColumnSchemaComplete == Complete(ColumnSchema)
  <1>1. IsSeq(ColumnSchema.fields) /\ Len(ColumnSchema.fields) = 3
    BY DEF ColumnSchema, Struct, IsSeq, ToSet
  <1>2. 1..3 = {1, 2, 3}
    OBVIOUS
  <1>3. Listed(ColumnSchema, 3) = DOMAIN ColumnSchema.new
    BY <1>2 DEF Listed, ColumnSchema, Struct
  <1>4. ColumnSchema.new = [f \in DOMAIN ColumnSchema.new |-> ColumnSchema.new[f]]
    BY DEF ColumnSchema, Struct
  <1> QED
    BY <1>1, <1>3, <1>4 DEF Complete

LEMMA EncryptedColumnResultComplete == Complete(EncryptedColumnResult)
  <1>1. IsSeq(EncryptedColumnResult.fields) /\ Len(EncryptedColumnResult.fields) = 5
    BY DEF EncryptedColumnResult, Struct, IsSeq, ToSet
  <1>2. 1..5 = {1, 2, 3, 4, 5}
    OBVIOUS
  <1>3. Listed(EncryptedColumnResult, 5) = DOMAIN EncryptedColumnResult.new
    BY <1>2 DEF Listed, EncryptedColumnResult, Struct, NewEncryptedColumnResult
  <1>4. EncryptedColumnResult.new
          = [f \in DOMAIN EncryptedColumnResult.new |-> EncryptedColumnResult.new[f]]
    BY DEF EncryptedColumnResult, Struct, NewEncryptedColumnResult
  <1> QED
    BY <1>1, <1>3, <1>4 DEF Complete

LEMMA QueryPackageComplete == Complete(QueryPackage)
  <1>1. IsSeq(QueryPackage.fields) /\ Len(QueryPackage.fields) = 18
    BY DEF QueryPackage, Struct, IsSeq, ToSet
  <1>2. 1..18 = {1, 2, 3, 4, 5, 6, 7, 8, 9, 10, 11, 12, 13, 14, 15, 16, 17, 18}
    OBVIOUS
  <1>3. Listed(QueryPackage, 18) = DOMAIN QueryPackage.new
    BY <1>2 DEF Listed, QueryPackage, Struct, NewQueryPackage
  <1>4. QueryPackage.new = [f \in DOMAIN QueryPackage.new |-> QueryPackage.new[f]]
    BY DEF QueryPackage, Struct, NewQueryPackage
  <1> QED
    BY <1>1, <1>3, <1>4 DEF Complete

LEMMA ResponseWrittenComplete == Complete(ResponseWritten)
  <1>1. IsSeq(ResponseWritten.fields) /\ Len(ResponseWritten.fields) = 4
    BY DEF ResponseWritten, Struct, IsSeq, ToSet
  <1>2. 1..4 = {1, 2, 3, 4}
    OBVIOUS
  <1>3. Listed(ResponseWritten, 4) = DOMAIN ResponseWritten.new
    BY <1>2 DEF Listed, ResponseWritten, Struct, NewResponse
  <1>4. ResponseWritten.new = [f \in DOMAIN ResponseWritten.new |-> ResponseWritten.new[f]]
    BY DEF ResponseWritten, Struct, NewResponse
  <1> QED
    BY <1>1, <1>3, <1>4 DEF Complete

LEMMA EncryptedResultBatchComplete == Complete(EncryptedResultBatch)
  <1>1. IsSeq(EncryptedResultBatch.fields) /\ Len(EncryptedResultBatch.fields) = 5
    BY DEF EncryptedResultBatch, Struct, IsSeq, ToSet
  <1>2. 1..5 = {1, 2, 3, 4, 5}
    OBVIOUS
  <1>3. Listed(EncryptedResultBatch, 5) = DOMAIN EncryptedResultBatch.new
    BY <1>2 DEF Listed, EncryptedResultBatch, Struct, NewEncryptedResultBatch
  <1>4. EncryptedResultBatch.new
          = [f \in DOMAIN EncryptedResultBatch.new |-> EncryptedResultBatch.new[f]]
    BY DEF EncryptedResultBatch, Struct, NewEncryptedResultBatch
  <1> QED
    BY <1>1, <1>3, <1>4 DEF Complete

(* The types of members, and what a struct among them starts from.         *)
LEMMA Members ==
  /\ \A s \in {Number, Bytes} : GoodMember(s) /\ s.shape # "struct"
  /\ \A s \in {Bytes, ColumnSchema, PredNode, EncryptedLiteralEntry, EncryptedColumnResult} :
        GoodMember(ListOf(s)) /\ ListOf(s).shape # "struct"
  /\ GoodMember(FHEParamsMeta) /\ FHEParamsMeta.shape = "struct"
  <1>1. \A s \in {Number, Bytes} : GoodItem(s) /\ s.shape # "struct" /\ s.shape # "list"
    BY DEF GoodItem, Number, Bytes
  <1>2. \A s \in {ColumnSchema, PredNode, EncryptedLiteralEntry, EncryptedColumnResult,
                FHEParamsMeta} : GoodItem(s)
    BY ColumnSchemaComplete, PredNodeComplete, EncryptedLiteralEntryComplete,
       EncryptedColumnResultComplete, FHEParamsMetaComplete DEF GoodItem
  <1>3. \A s : ListOf(s).shape = "list" /\ ListOf(s).of = s
    BY DEF ListOf
  <1>4. FHEParamsMeta.shape = "struct"
    BY DEF FHEParamsMeta, Struct
  <1> QED
    BY <1>1, <1>2, <1>3, <1>4 DEF GoodMember

LEMMA PackageGood == GoodMessage(QueryPackage)
  <1>1. Len(QueryPackage.fields) = 18
    BY DEF QueryPackage, Struct
  <1>2. \A i \in 1..18 :
           LET f == QueryPackage.fields[i]
           IN  \/ f[2] \in {Number, Bytes}
               \/ f[2] \in {ListOf(s) : s \in {Bytes, ColumnSchema, PredNode, EncryptedLiteralEntry}}
               \/ f = <<"fheParams", FHEParamsMeta>>
    BY DEF QueryPackage, Struct
  <1>3. Default(FHEParamsMeta, QueryPackage.new["fheParams"])
    <2>1. QueryPackage.new["fheParams"] = FHEParamsMeta.new
      BY DEF QueryPackage, Struct, NewQueryPackage, FHEParamsMeta
    <2> QED
      BY <2>1, FHEParamsMetaComplete DEF Default, Complete
  <1>4. ASSUME NEW i \in 1..18
        PROVE  /\ GoodMember(QueryPackage.fields[i][2])
               /\ Default(QueryPackage.fields[i][2], QueryPackage.new[QueryPackage.fields[i][1]])
    <2>1. PICK f : f = QueryPackage.fields[i]
      OBVIOUS
    <2>2. CASE f[2] \in {Number, Bytes}
      BY <2>1, <2>2, Members DEF Default
    <2>3. CASE f[2] \in {ListOf(s) : s \in {Bytes, ColumnSchema, PredNode, EncryptedLiteralEntry}}
      BY <2>1, <2>3, Members DEF Default
    <2>4. CASE f = <<"fheParams", FHEParamsMeta>>
      BY <1>3, <2>1, <2>4, Members
    <2> QED
      BY <1>2, <2>1, <2>2, <2>3, <2>4
  <1> QED
    BY <1>1, <1>4, QueryPackageComplete DEF GoodMessage

LEMMA ResponseGood == GoodMessage(ResponseWritten) /\ ResponseRead = ResponseWritten
  <1>1. /\ Len(ResponseWritten.fields) = 4
        /\ \A i \in 1..4 : ResponseWritten.fields[i][2] \in {Number, Bytes}
    BY DEF ResponseWritten, Struct
  <1> QED
    BY <1>1, ResponseWrittenComplete, Members
       DEF GoodMessage, Default, ResponseWritten, ResponseRead

LEMMA BatchGood == GoodMessage(EncryptedResultBatch)
  <1>1. /\ Len(EncryptedResultBatch.fields) = 5
        /\ \A i \in 1..5 : EncryptedResultBatch.fields[i][2]
                             \in {Number, Bytes, ListOf(EncryptedColumnResult)}
    BY DEF EncryptedResultBatch, Struct
  <1> QED
    BY <1>1, EncryptedResultBatchComplete, Members DEF GoodMessage, Default

-----------------------------------------------------------------------------
(* A payload, whole or cut off.                                            *)
Object(m) == IsObject(Written(m.kind), m.object)

LEMMA MessagesGood ==
  ASSUME NEW m \in Messages
  PROVE  GoodMessage(Written(m.kind)) /\ Object(m) /\ ToBeRead(m.kind) = Written(m.kind)
  BY PackageGood, ResponseGood, BatchGood, ArchiveAssumption
     DEF Messages, Written, ToBeRead, Object

LEMMA WholeRead ==
  ASSUME NEW m \in Messages
  PROVE  ObjectOf(m.kind, Payload(m)) = [object |-> m.object]
  <1>1. PICK s, v : s = Written(m.kind) /\ v = m.object
    OBVIOUS
  <1>2. GoodMessage(s) /\ IsObject(s, v) /\ ToBeRead(m.kind) = s
    BY <1>1, MessagesGood DEF Object
  <1>3. PICK w : w = Put(s, v)
    OBVIOUS
  <1>4. IsSeq(w) /\ Len(w) \in Nat
    BY <1>2, <1>3, MessagePut, IsSeqLen
  <1>5. Carries(w, w, 0) /\ 0 \in 0..Len(w)
    BY <1>4 DEF Carries
  <1>6. Get(s, s.new, w, 0) = Outcome(v, w, w, 0)
    BY <1>2, <1>3, <1>4, <1>5, MessageRead
  <1>7. Outcome(v, w, w, 0).ok /\ Outcome(v, w, w, 0).value = v
    BY <1>4 DEF Outcome, Read
  <1> QED
    BY <1>1, <1>2, <1>3, <1>6, <1>7 DEF ObjectOf, Payload

LEMMA CutRead ==
  ASSUME NEW m \in Messages, NEW n \in 0..(Len(Payload(m)) - 1)
  PROVE  ObjectOf(m.kind, SubSeq(Payload(m), 1, n)) = Exhausted
  <1>1. PICK s, v : s = Written(m.kind) /\ v = m.object
    OBVIOUS
  <1>2. GoodMessage(s) /\ IsObject(s, v) /\ ToBeRead(m.kind) = s
    BY <1>1, MessagesGood DEF Object
  <1>3. PICK w, cut : w = Put(s, v) /\ cut = SubSeq(w, 1, n)
    OBVIOUS
  <1>4. IsSeq(w) /\ Len(w) \in Nat /\ w = Payload(m)
    BY <1>1, <1>2, <1>3, MessagePut, IsSeqLen DEF Payload
  <1>5. n \in Nat /\ n < Len(w) /\ n <= Len(w)
    BY <1>4
  <1>6. IsSeq(cut) /\ Len(cut) = n /\ \A i \in 1..n : cut[i] = w[i]
    <2>1. PICK z \in Nat : z = 0
      OBVIOUS
    <2>2. /\ IsSeq(SubSeq(w, z + 1, n))
          /\ Len(SubSeq(w, z + 1, n)) = IF z <= n THEN n - z ELSE 0
          /\ \A i \in 1..(n - z) : SubSeq(w, z + 1, n)[i] = w[z + i]
      BY <1>4, <1>5, Sliced
    <2>3. z + 1 = 1 /\ n - z = n /\ z <= n /\ \A i \in 1..n : z + i = i
      BY <1>5, <2>1
    <2> QED
      BY <1>3, <2>2, <2>3
  <1>7. Carries(w, cut, 0) /\ 0 \in 0..Len(cut)
    BY <1>4, <1>5, <1>6 DEF Carries
  <1>8. Get(s, s.new, cut, 0) = Outcome(v, w, cut, 0)
    <2>1. Carries(Put(s, v), cut, 0) /\ IsSeq(cut)
      BY <1>3, <1>6, <1>7
    <2>2. Get(s, s.new, cut, 0) = Outcome(v, Put(s, v), cut, 0)
      BY <1>2, <1>7, <2>1, MessageRead
    <2> QED
      BY <1>3, <2>2
  <1>9. ~Outcome(v, w, cut, 0).ok
    BY <1>4, <1>5, <1>6 DEF Outcome, Exhausted
  <1> QED
    BY <1>2, <1>3, <1>4, <1>8, <1>9 DEF ObjectOf

-----------------------------------------------------------------------------
(* What is being read is a payload, or its beginning, and nothing is kept  *)
(* of the message before.                                                  *)
IInv ==
  /\ message \in Messages \cup {Idle}
  /\ message = Idle => received = NotYet /\ whole = TRUE
  /\ message # Idle => IF whole THEN payload = Payload(message)
                       ELSE \E n \in 0..(Len(Payload(message)) - 1) :
                                payload = SubSeq(Payload(message), 1, n)
  /\ received # NotYet => received = ObjectOf(message.kind, payload)

LEMMA Step == IInv /\ [Next]_vars => IInv'
  <1> SUFFICES ASSUME IInv, [Next]_vars PROVE IInv'
    OBVIOUS
  <1>1. CASE Serialize
    <2>1. PICK m \in Messages : message' = m /\ payload' = Payload(m)
      BY <1>1 DEF Serialize
    <2>2. Idle \notin Messages
      BY DEF Idle, Messages
    <2> QED
      BY <1>1, <2>1, <2>2 DEF IInv, Serialize
  <1>2. CASE EndsEarly
    BY <1>2 DEF IInv, EndsEarly
  <1>3. CASE Deserialize
    BY <1>3 DEF IInv, Deserialize
  <1>4. CASE NextMessage
    BY <1>4 DEF IInv, NextMessage
  <1>5. CASE UNCHANGED vars
    BY <1>5 DEF IInv, vars
  <1> QED
    BY <1>1, <1>2, <1>3, <1>4, <1>5 DEF Next

LEMMA Consequence == IInv => ArrivesAsSent
  <1> SUFFICES ASSUME IInv, received # NotYet
               PROVE  received = IF whole THEN [object |-> message.object] ELSE Exhausted
    BY DEF ArrivesAsSent
  <1>1. message \in Messages /\ received = ObjectOf(message.kind, payload)
    BY DEF IInv
  <1>2. CASE whole
    BY <1>1, <1>2, WholeRead DEF IInv
  <1>3. CASE ~whole
    <2>1. PICK n \in 0..(Len(Payload(message)) - 1) : payload = SubSeq(Payload(message), 1, n)
      BY <1>1, <1>3 DEF IInv
    <2> QED
      BY <1>1, <1>3, <2>1, CutRead
  <1> QED
    BY <1>2, <1>3

(* ArrivesAsSent (query_package.cpp:14-43, result.cpp:14-24,               *)
(* transport.cpp:149-155 and 263-270), for objects of any sizes.           *)
THEOREM SerializationLossless == Spec => []ArrivesAsSent
  <1>1. Init => IInv
    BY DEF Init, IInv
  <1> QED
    BY <1>1, Step, Consequence, PTL DEF Spec
=============================================================================
