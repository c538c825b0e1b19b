------------------------------- MODULE Modular -------------------------------
(***************************************************************************)
(* Powers and inverses modulo a number, as Python's pow and gmpy2 give     *)
(* them, with the intermediate results that TLC can hold.                  *)
(***************************************************************************)
EXTENDS Integers

\* a * b % m with intermediate results of 32 bits, for m below 2^20.
MulMod(a, b, m) == (((a * (b \div 1024)) % m) * 1024 + a * (b % 1024)) % m

PowMod[b \in Int, e \in Nat, m \in Nat] ==
    IF e = 0 THEN 1 % m
    ELSE LET half == PowMod[b, e \div 2, m]
             square == MulMod(half, half, m)
         IN  IF e % 2 = 0 THEN square ELSE MulMod(square, b % m, m)

\* gmpy2.invert; the callers make sure that the inverse exists.
Invert(a, m) == CHOOSE x \in 1..(m - 1) : MulMod(a % m, x, m) = 1

Gcd[a \in Nat, b \in Nat] == IF b = 0 THEN a ELSE Gcd[b, a % b]
=============================================================================
