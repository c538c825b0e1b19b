------------------------------- MODULE ZkProofs -------------------------------
(***************************************************************************)
(* The zero-knowledge proofs of the threshold signer (z3kapig,             *)
(* crypto/zkp): per proof what new_proof computes and what verify checks.  *)
(*                                                                         *)
(* The random values of a proof are the fields of its argument c.  ped is  *)
(* the verifier's modulus with its bases s and t.  The challenge of prover *)
(* and verifier hashes the same list in the code, so it is one operator.   *)
(* A proof travels as the magnitudes of its numbers: all are non-negative  *)
(* except the v of the factor proof.                                       *)
(***************************************************************************)
EXTENDS CryptoCommon

CONSTANT Iterations  \* of the Prm and Mod proofs, 80 in the code

ASSUME IterationsAssumption == Iterations \in Nat \ {0}

Commit(ped, x, y) == MulMod(PowMod[ped.s, x, ped.n], PowMod[ped.t, y, ped.n], ped.n)

\* u^e * a modulo n: the right-hand sides, and the randomness answers, of the proofs.
Scaled(u, e, a, n) == MulMod(PowMod[u, e, n], a, n)

CurveNums == <<CurveB, CurveN, CurveP>>
PedNums(ped) == <<ped.n, ped.s, ped.t>>
Challenge(nums) == Hash(nums) % CurveN

-----------------------------------------------------------------------------
(* Schnorr's proof of the logarithm of X (sch.py). *)

SchChallenge(ssid, X, A) == Challenge(<<ssid>> \o CurveNums \o X \o G \o A)

SchProve(ssid, X, alpha, x) ==
    LET A == ScalarMult(alpha, G)
    IN  [A |-> A, z |-> (alpha + SchChallenge(ssid, X, A) * x) % CurveN]

SchVerify(ssid, X, pf) ==
    ScalarMult(pf.z, G) = PointAdd(pf.A, ScalarMult(SchChallenge(ssid, X, pf.A), X))

-----------------------------------------------------------------------------
(* Equality of the logarithm of S to base R and the value committed in T   *)
(* (hv.py).                                                                 *)

SecondBase ==
    LET h == Challenge(CurveNums \o <<2>>) IN ScalarMult(IF h = 0 THEN 1 ELSE h, G)

StChallenge(T, A, B) == Challenge(T \o SecondBase \o G \o A \o B)

StProve(T, R, sigma, blind, c) ==
    LET A == ScalarMult(c.alpha, R)
        B == PointAdd(ScalarMult(c.alpha, G), ScalarMult(c.mu, SecondBase))
        e == StChallenge(T, A, B)
    IN  [A |-> A, B |-> B, t |-> (c.alpha + e * sigma) % CurveN,
         u |-> (c.mu + e * blind) % CurveN]

StVerify(S, T, R, pf) ==
    LET e == StChallenge(T, pf.A, pf.B)
    IN  /\ ScalarMult(pf.t, R) = PointAdd(pf.A, ScalarMult(e, S))
        /\ PointAdd(ScalarMult(pf.t, G), ScalarMult(pf.u, SecondBase))
             = PointAdd(pf.B, ScalarMult(e, T))

-----------------------------------------------------------------------------
(* K encrypts a small number under n (enc.py). *)

EncChallenge(ssid, n, ped, K, S, A, C) ==
    Challenge(<<ssid, n, n + 1>> \o CurveNums \o PedNums(ped) \o <<K, S, A, C>>)

EncProve(ssid, n, K, ped, k, rho, c) ==
    LET S == Commit(ped, k, c.mu)
        A == Encrypt(n, c.alpha, c.r)
        C == Commit(ped, c.alpha, c.gamma)
        e == EncChallenge(ssid, n, ped, K, S, A, C)
    IN  [S |-> S, A |-> A, C |-> C, z1 |-> e * k + c.alpha,
         z2 |-> Scaled(rho, e, c.r, n), z3 |-> e * c.mu + c.gamma]

EncVerify(ssid, n, ped, K, pf) ==
    LET e == EncChallenge(ssid, n, ped, K, pf.S, pf.A, pf.C)
    IN  /\ InInterval(pf.z1, CurveN^3)
        /\ ValidMod(ped.n, {pf.S, pf.C})
        /\ ValidMod(n * n, {pf.A})
        /\ ValidMod(n, {pf.z2})
        /\ Encrypt(n, pf.z1, pf.z2) = Scaled(K, e, pf.A, n * n)
        /\ Commit(ped, pf.z1, pf.z3) = Scaled(pf.S, e, pf.C, ped.n)

-----------------------------------------------------------------------------
(* C encrypts the logarithm of X to base g (logstar.py). *)

LogChallenge(ssid, n, ped, C, X, g, S, A, Y, D) ==
    Challenge(<<ssid, n, n + 1>> \o CurveNums \o <<C>> \o X \o g \o <<S, A>> \o Y
              \o <<D>> \o PedNums(ped))

LogProve(ssid, n, C, X, g, rho, x, ped, c) ==
    LET S == Commit(ped, x, c.mu)
        A == Encrypt(n, c.alpha, c.r)
        Y == ScalarMult(c.alpha, g)
        D == Commit(ped, c.alpha, c.gamma)
        e == LogChallenge(ssid, n, ped, C, X, g, S, A, Y, D)
    IN  [S |-> S, A |-> A, Y |-> Y, D |-> D, z1 |-> e * x + c.alpha,
         z2 |-> Scaled(rho, e, c.r, n), z3 |-> e * c.mu + c.gamma]

LogVerify(ssid, n, C, X, g, ped, pf) ==
    LET e == LogChallenge(ssid, n, ped, C, X, g, pf.S, pf.A, pf.Y, pf.D)
    IN  /\ InInterval(pf.z1, CurveN^3)
        /\ ValidMod(ped.n, {pf.S, pf.D})
        /\ ValidMod(n * n, {pf.A})
        /\ ValidMod(n, {pf.z2})
        /\ Encrypt(n, pf.z1, pf.z2) = Scaled(C, e, pf.A, n * n)
        /\ ScalarMult(pf.z1, g) = PointAdd(ScalarMult(e, X), pf.Y)
        /\ Commit(ped, pf.z1, pf.z3) = Scaled(pf.S, e, pf.D, ped.n)

-----------------------------------------------------------------------------
(* D is C to the power of the logarithm x of X, plus a y that Y encrypts   *)
(* under n1 (affg.py).                                                      *)

AffgChallenge(ssid, n0, n1, ped, C, D, Y, X, pf) ==
    Challenge(<<ssid>> \o CurveNums \o <<n0, n1>> \o PedNums(ped) \o <<C, D, Y>> \o X
              \o <<pf.S, pf.T, pf.A>> \o pf.Bx \o <<pf.By, pf.E, pf.F>>)

AffgProve(ssid, n0, n1, ped, C, D, Y, X, x, y, rho, rhoy, c) ==
    LET first == [S  |-> Commit(ped, x, c.m),
                  T  |-> Commit(ped, y, c.mu),
                  A  |-> MulMod(PowMod[C, c.alpha, n0 * n0], Encrypt(n0, c.beta, c.r), n0 * n0),
                  Bx |-> ScalarMult(c.alpha, G),
                  By |-> Encrypt(n1, c.beta, c.ry),
                  E  |-> Commit(ped, c.alpha, c.gamma),
                  F  |-> Commit(ped, c.beta, c.delta)]
        e == AffgChallenge(ssid, n0, n1, ped, C, D, Y, X, first)
    IN  [z1 |-> e * x + c.alpha, z2 |-> e * y + c.beta,
         z3 |-> e * c.m + c.gamma, z4 |-> e * c.mu + c.delta,
         w |-> Scaled(rho, e, c.r, n0), wy |-> Scaled(rhoy, e, c.ry, n1)] @@ first

AffgVerify(ssid, n0, n1, ped, C, D, Y, X, pf) ==
    LET e == AffgChallenge(ssid, n0, n1, ped, C, D, Y, X, pf)
    IN  /\ InInterval(pf.z1, CurveN^3)
        /\ ValidMod(n0 * n0, {pf.A}) /\ ValidMod(n1 * n1, {pf.By})
        /\ ValidMod(n0, {pf.w}) /\ ValidMod(n1, {pf.wy})
        /\ ValidMod(ped.n, {pf.E, pf.F, pf.S, pf.T})
        /\ \A z \in {pf.z1, pf.z2, pf.z3, pf.z4} : z > 0
        /\ MulMod(PowMod[C, pf.z1, n0 * n0], Encrypt(n0, pf.z2, pf.w), n0 * n0)
             = Scaled(D, e, pf.A, n0 * n0)
        /\ ScalarMult(pf.z1, G) = PointAdd(ScalarMult(e, X), pf.Bx)
        /\ Encrypt(n1, pf.z2, pf.wy) = Scaled(Y, e, pf.By, n1 * n1)
        /\ Commit(ped, pf.z1, pf.z3) = Scaled(pf.S, e, pf.E, ped.n)
        /\ Commit(ped, pf.z2, pf.z4) = Scaled(pf.T, e, pf.F, ped.n)

-----------------------------------------------------------------------------
(* s is a power of t modulo the prover's own modulus (prm.py). *)

PrmBits(ssid, ped, A) ==
    LET e == Hash(<<ssid, ped.s, ped.t, ped.n>> \o A)
    IN  [i \in 1..Iterations |-> BitOf(e, i - 1)]

PrmProve(ssid, ped, phi, lam, a) ==
    LET A == [i \in 1..Iterations |-> PowMod[ped.t, a[i], ped.n]]
        e == PrmBits(ssid, ped, A)
    IN  [A |-> A, Z |-> [i \in 1..Iterations |-> (a[i] + e[i] * lam) % phi]]

PrmVerify(ssid, ped, pf) ==
    LET e == PrmBits(ssid, ped, pf.A)
    IN  /\ {ped.s % ped.n, ped.t % ped.n} \cap {0, 1} = {} /\ ped.s % ped.n # ped.t % ped.n
        /\ \A i \in 1..Iterations :
              /\ 1 < pf.A[i] /\ pf.A[i] < ped.n
              /\ PowMod[ped.t, pf.Z[i], ped.n] = Scaled(ped.s, e[i], pf.A[i], ped.n)

-----------------------------------------------------------------------------
(* n is a product of two primes of the right kind (mod.py). *)

ModChallenges(ssid, w, n) ==
    LET Y[i \in 0..Iterations] ==
            IF i = 0 THEN <<>>
            ELSE Append(Y[i - 1], Hash(<<ssid, w, n>> \o Y[i - 1]) % n)
    IN  Y[Iterations]

\* y, negated if a = 1, times w if b = 1.
Twisted(y, a, b, w, n) ==
    LET signed == IF a = 1 THEN (-y) % n ELSE y
    IN  IF b = 1 THEN MulMod(w, signed, n) ELSE signed

\* The pairs <<a, b>> that make a challenge a square modulo both primes: one, if it is a
\* unit, and otherwise none -- then new_proof leaves the zeroes in place.
SquareTwists(y, w, key) ==
    {ab \in {0, 1} \X {0, 1} :
        LET v == Twisted(y, ab[1], ab[2], w, Modulus(key))
        IN  IsResidue(v, key[1]) /\ IsResidue(v, key[2])}

ModProve(ssid, key, w) ==
    LET n == Modulus(key)
        Y == ModChallenges(ssid, w, n)
        eighth == (Phi(key) + 4) \div 8
        fourthRoot(y) == PowMod[y, MulMod(eighth, eighth, Phi(key)), n]
        found == SelectSeq(Y, LAMBDA y : SquareTwists(y, w, key) # {})
        twist(y) == CHOOSE ab \in SquareTwists(y, w, key) : TRUE
        isUnit(y) == SquareTwists(y, w, key) # {}
    IN  [w |-> w,
         x |-> [i \in 1..Iterations |->
                  IF isUnit(Y[i]) THEN fourthRoot(Twisted(Y[i], twist(Y[i])[1], twist(Y[i])[2], w, n))
                  ELSE 0],
         z |-> [i \in 1..Iterations |->
                  IF isUnit(Y[i]) THEN PowMod[Y[i], Invert(n, Phi(key)), n] ELSE 0],
         ab |-> [i \in 1..Len(found) |-> twist(found[i])]]

ModVerify(ssid, n, pf) ==
    LET Y == ModChallenges(ssid, pf.w, n)
    IN  /\ ~IsResidue(pf.w, n)
        /\ 0 < pf.w /\ pf.w < n
        /\ Len(pf.ab) = Iterations  \* the lengths of A and B
        /\ n % 2 = 1
        /\ \A i \in 1..Iterations :
              /\ InInterval(pf.z[i] - 1, n - 1) /\ InInterval(pf.x[i] - 1, n - 1)
              /\ PowMod[pf.z[i], n, n] = Y[i]
              /\ PowMod[pf.x[i], 4, n] = Twisted(Y[i], pf.ab[i][1], pf.ab[i][2], pf.w, n)

-----------------------------------------------------------------------------
(* The factors of n0 are of like size (fac.py). *)

FacChallenge(ssid, n0, ped, pf) ==
    Challenge(<<ssid, n0>> \o PedNums(ped) \o <<pf.P, pf.Q, pf.A, pf.B, pf.T, pf.sigma>>
              \o CurveNums)

\* v may be negative, and loses its sign on the way.
FacProve(ssid, key, ped, c) ==
    LET Q == Commit(ped, key[2], c.nu)
        first == [P |-> Commit(ped, key[1], c.mu), Q |-> Q,
                  A |-> Commit(ped, c.alpha, c.gamma),
                  B |-> Commit(ped, c.beta, c.delta),
                  T |-> MulMod(PowMod[Q, c.alpha, ped.n], PowMod[ped.t, c.r, ped.n], ped.n),
                  sigma |-> c.sigma]
        e == FacChallenge(ssid, Modulus(key), ped, first)
    IN  [z1 |-> e * key[1] + c.alpha, z2 |-> e * key[2] + c.beta,
         w1 |-> e * c.mu + c.gamma, w2 |-> e * c.nu + c.delta,
         v |-> Magnitude(e * (c.sigma - c.nu * key[1]) + c.r)] @@ first

FacVerify(ssid, n0, ped, pf) ==
    LET e == FacChallenge(ssid, n0, ped, pf)
        R == Commit(ped, n0, pf.sigma)
    IN  /\ InInterval(pf.z1, CurveN^3 * Isqrt(n0)) /\ InInterval(pf.z2, CurveN^3 * Isqrt(n0))
        /\ ValidMod(ped.n, {pf.P, pf.Q, pf.A, pf.B, pf.T})
        /\ Commit(ped, pf.z1, pf.w1) = Scaled(pf.P, e, pf.A, ped.n)
        /\ Commit(ped, pf.z2, pf.w2) = Scaled(pf.Q, e, pf.B, ped.n)
        /\ MulMod(PowMod[pf.Q, pf.z1, ped.n], PowMod[ped.t, pf.v, ped.n], ped.n)
             = Scaled(R, e, pf.T, ped.n)
=============================================================================
