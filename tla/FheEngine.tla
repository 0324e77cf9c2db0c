------------------------------ MODULE FheEngine ------------------------------
(***************************************************************************)
(* External: the BFV context and the ExpressionExecutor of proto1, as the  *)
(* code in src/ uses them.  A ciphertext is its vector of plaintext slots  *)
(* modulo the prime P; the boolean masks are built from ring operations    *)
(* only, as docs/architecture.md gives them:                               *)
(*   EQ(a,b) = 1 - (a-b)^(P-1)      GT(a,b) = sum of EQ(a-b,k), k in 1..H  *)
(***************************************************************************)
EXTENDS Integers

CONSTANT P   \* plaintext modulus, an odd prime (257 in the code)

ASSUME FheAssumption == P \in Nat /\ P >= 3 /\ P % 2 = 1

H == (P - 1) \div 2    \* plaintext values the comparisons are exact for: 0..H

MinusMod(a, b) == (a - b) % P
PlusMod(a, b) == (a + b) % P
TimesMod(a, b) == (a * b) % P

(* By repeated squaring, which gives EQ the depth Log2(P - 1).             *)
Power(a) ==
    LET pow[k \in 0..(P - 1)] ==
            LET half == pow[k \div 2]
            IN  CASE k = 0 -> 1
                  [] k % 2 = 1 -> TimesMod(a, pow[k - 1])
                  [] k > 0 /\ k % 2 = 0 -> TimesMod(half, half)
    IN  pow[P - 1]

(* P is a prime: by Fermat's little theorem the comparisons are exact.     *)
ASSUME FermatAssumption == \A a \in 1..(P - 1) : Power(a) = 1

EqMask(a, b) == MinusMod(1, Power(MinusMod(a, b)))
GtMask(a, b) ==
    LET sum[k \in 0..H] == IF k = 0 THEN 0
                           ELSE PlusMod(sum[k - 1], EqMask(MinusMod(a, b), k))
    IN  sum[H]
LtMask(a, b) == GtMask(b, a)
AndMask(m, n) == TimesMod(m, n)
OrMask(m, n) == MinusMod(PlusMod(m, n), TimesMod(m, n))
NotMask(m) == MinusMod(1, m)
=============================================================================
