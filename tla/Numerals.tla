------------------------------- MODULE Numerals -------------------------------
(***************************************************************************)
(* Numbers as digits of a radix, the lowest first, in the forms the        *)
(* programs need: the digits of a lookup table's entries (encrypted-       *)
(* activation), the bytes and words of struct.pack and the bits that       *)
(* Python's ^ works on (team flags).                                       *)
(***************************************************************************)
EXTENDS Integers, Sequences

PowerOf(r, n) ==
    LET power[i \in 0..n] == IF i = 0 THEN 1 ELSE power[i - 1] * r
    IN  power[n]

\* The n lowest digits of v.
DigitsOf(v, r, n) ==
    LET rest[i \in 0..n] == IF i = 0 THEN v ELSE rest[i - 1] \div r
    IN  [i \in 1..n |-> rest[i - 1] % r]

ValueOf(d, r) ==
    LET value[i \in 0..Len(d)] == IF i = 0 THEN 0 ELSE value[i - 1] * r + d[Len(d) + 1 - i]
    IN  value[Len(d)]

\* Exclusive or of numbers of that many bits.
BitXor(a, b, bits) ==
    LET bitsA == DigitsOf(a, 2, bits)
        bitsB == DigitsOf(b, 2, bits)
    IN  ValueOf([i \in 1..bits |-> (bitsA[i] + bitsB[i]) % 2], 2)
=============================================================================
