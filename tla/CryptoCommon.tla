----------------------------- MODULE CryptoCommon -----------------------------
(***************************************************************************)
(* The arithmetic of the threshold signer (z3kapig, crypto/common and the  *)
(* hash of crypto/zkp): modular powers, the curve y^2 = x^3 + CurveB over  *)
(* the field of CurveP elements with CurveN points, Paillier encryption.   *)
(*                                                                         *)
(* The equations are those of the code, on small moduli.  A point is a     *)
(* pair <<x, y>>, infinity is <<0, 0>>, as in the code.  A random value is *)
(* an argument: whoever calls the operator chooses it.                     *)
(***************************************************************************)
EXTENDS Modular, Sequences, SequencesExt

CONSTANTS CurveP, CurveB, CurveN,  \* the field, the curve and its (prime) order
          Gx, Gy                   \* the base point

ASSUME CurveAssumption ==
    /\ {CurveP, CurveB, CurveN, Gx, Gy} \subseteq Nat
    /\ Gy * Gy % CurveP = (Gx * Gx * Gx + CurveB) % CurveP

-----------------------------------------------------------------------------
(* Numbers. *)

Magnitude(a) == IF a < 0 THEN -a ELSE a

\* floor of the square root (gmpy2.isqrt).
Isqrt(n) == CHOOSE r \in 0..n : r * r <= n /\ (r + 1) * (r + 1) > n

\* Bits of non-negative numbers below 2^10.
BitOf(n, i) == (n \div 2^i) % 2
Xor(a, b) == FoldLeft(LAMBDA acc, i : acc + ((BitOf(a, i) + BitOf(b, i)) % 2) * 2^i,
                      0, [i \in 1..10 |-> i - 1])
BitLength(n) == CHOOSE l \in 0..30 : 2^l > n /\ (l = 0 \/ 2^(l - 1) <= n)

\* The Jacobi symbol of a modulo the odd n.
Jacobi[a \in Nat, n \in Nat] ==
    IF a = 0 THEN IF n = 1 THEN 1 ELSE 0
    ELSE IF a % 2 = 0 THEN (IF n % 8 \in {3, 5} THEN -1 ELSE 1) * Jacobi[a \div 2, n]
    ELSE (IF a % 4 = 3 /\ n % 4 = 3 THEN -1 ELSE 1) * Jacobi[n % a, a]
IsResidue(a, n) == Jacobi[a % n, n] = 1

InInterval(x, bound) == 0 <= x /\ x < bound

\* check_invertible_and_valid_mod
ValidMod(modulus, vals) == \A v \in vals : 0 < v /\ v < modulus /\ Gcd[v, modulus] = 1

\* sha512_256i: a stand-in that tells lists of numbers apart by every entry.
Hash(nums) == FoldLeft(LAMBDA acc, n : (acc * 31 + n + 7) % 100003, Len(nums), nums)

-----------------------------------------------------------------------------
(* The curve. *)

Infinity == <<0, 0>>
G == <<Gx, Gy>>
Scalars == 1..(CurveN - 1)

PointDouble(p) ==
    IF p = Infinity \/ p[2] = 0 THEN Infinity
    ELSE LET slope == (3 * p[1] * p[1] * Invert(2 * p[2], CurveP)) % CurveP
             x == (slope * slope - 2 * p[1]) % CurveP
         IN  <<x, (slope * (p[1] - x) - p[2]) % CurveP>>

PointAdd(p, q) ==
    IF p = Infinity THEN q
    ELSE IF q = Infinity THEN p
    ELSE IF p[1] = q[1] THEN IF p[2] = q[2] THEN PointDouble(p) ELSE Infinity
    ELSE LET slope == ((q[2] - p[2]) * Invert(q[1] - p[1], CurveP)) % CurveP
             x == (slope * slope - p[1] - q[1]) % CurveP
         IN  <<x, (slope * (p[1] - x) - p[2]) % CurveP>>

\* Double and add.
DoubleAndAdd[k \in Nat, p \in Nat \X Nat] ==
    IF k = 0 THEN Infinity
    ELSE LET rest == DoubleAndAdd[k \div 2, PointDouble(p)]
         IN  IF k % 2 = 1 THEN PointAdd(p, rest) ELSE rest
ScalarMult(k, p) == DoubleAndAdd[k % CurveN, p]

\* ECDSA verification of the signature <<r, s>> of the hash z.
EcdsaVerify(X, z, r, s) ==
    /\ X # Infinity
    /\ r \in Scalars /\ s \in Scalars
    /\ LET w == Invert(s, CurveN)
           P == PointAdd(ScalarMult((z * w) % CurveN, G), ScalarMult((r * w) % CurveN, X))
       IN  P # Infinity /\ P[1] % CurveN = r

-----------------------------------------------------------------------------
(* Paillier: a private key is a pair of primes, a public key their product. *)

Modulus(key) == key[1] * key[2]
Phi(key) == (key[1] - 1) * (key[2] - 1)
Lambda(key) == Phi(key) \div Gcd[key[1] - 1, key[2] - 1]

Encrypt(n, m, x) == MulMod(PowMod[n + 1, m, n * n], PowMod[x, n, n * n], n * n)
HomoMult(n, m, c) == PowMod[c, m, n * n]
HomoAdd(n, c, d) == MulMod(c, d, n * n)

Decrypt(key, c) ==
    LET n == Modulus(key)
        L(u) == (u - 1) \div n
        lg == L(PowMod[n + 1, Lambda(key), n * n])
    IN  MulMod(L(PowMod[c, Lambda(key), n * n]), Invert(lg, n), n)
=============================================================================
