------------------------------ MODULE CurveWalk ------------------------------
(***************************************************************************)
(* One connection to rECp1cG (deploy/challenge.py): a fresh prime field and *)
(* curve, a walk P0, P0 + G, ..., the first coordinates of its points with *)
(* an error of at most WalkDelta, and one answer, which must be P0.x.      *)
(*                                                                         *)
(* A random value is drawn from a constant set; the loops of the code that *)
(* draw again are steps that wait for a draw that will do.                 *)
(***************************************************************************)
EXTENDS Modular, FiniteSets, Sequences

CONSTANTS
    PrimeBits,     \* p_bits
    WalkLength,    \* k
    WalkDelta,     \* Delta
    SmallFactors,  \* small
    Witnesses,     \* bases
    CurveDraws,    \* what randrange gives for <<a, b>>
    XDraws         \* ... and for the x of a random point

ASSUME CurveWalkAssumption ==
    /\ PrimeBits \in Nat /\ PrimeBits > 2
    /\ WalkLength \in Nat \ {0}
    /\ WalkDelta \in Nat

VARIABLES
    field,    \* p, 0 until it is made
    coeffs,   \* <<a, b>>, <<>> until they are chosen
    walk,     \* points, <<>> until a walk will do
    hints,    \* states
    guess,    \* the answer, NoGuess until one is read
    verdict   \* "", "ok", "wrong", "gone"

walkVars == <<field, coeffs, walk, hints, guess, verdict>>

NoGuess == -1
NotANumber == -2
Nowhere == <<>>     \* None, the point at infinity

-----------------------------------------------------------------------------
(* Primes. *)

\* The number of twos in x - 1.
Power(x) == CHOOSE e \in 0..PrimeBits : (x - 1) % 2^e = 0 /\ ((x - 1) \div 2^e) % 2 = 1

Passes(base, x) ==
    LET odd == (x - 1) \div 2^Power(x)
    IN  \/ PowMod[base, odd, x] \in {1, x - 1}
        \/ \E i \in 1..(Power(x) - 1) : PowMod[base, odd * 2^i, x] = x - 1

IsPrime(x) ==
    /\ x >= 2
    /\ \/ x \in SmallFactors
       \/ /\ \A q \in SmallFactors : x % q # 0
          /\ \A base \in Witnesses : base % x = 0 \/ Passes(base, x)

\* What getrandbits can give once the highest and the two lowest bits are set.
Candidates == {2^(PrimeBits - 1) + 4 * i + 3 : i \in 0..(2^(PrimeBits - 3) - 1)}

MakePrime ==
    /\ field = 0
    /\ \E x \in Candidates : IsPrime(x) /\ field' = x
    /\ UNCHANGED <<coeffs, walk, hints, guess, verdict>>

-----------------------------------------------------------------------------
(* The curve y^2 = x^3 + a x + b. *)

CubeAt(x) == (x * x * x + coeffs[1] * x + coeffs[2]) % field

ChooseCurve ==
    /\ field # 0
    /\ coeffs = <<>>
    /\ \E d \in CurveDraws :
           /\ (4 * d[1] * d[1] * d[1] + 27 * d[2] * d[2]) % field # 0
           /\ coeffs' = d
    /\ UNCHANGED <<field, walk, hints, guess, verdict>>

Inverse2(x) == Invert(x % field, field)

Add(P, Q) ==
    IF P = Nowhere THEN Q
    ELSE IF Q = Nowhere THEN P
    ELSE IF P[1] = Q[1] /\ (P[2] + Q[2]) % field = 0 THEN Nowhere
    ELSE LET slope == IF P = Q THEN ((3 * P[1] * P[1] + coeffs[1]) * Inverse2(2 * P[2])) % field
                               ELSE ((Q[2] - P[2]) * Inverse2(Q[1] - P[1])) % field
             x == (slope * slope - P[1] - Q[1]) % field
         IN  <<x, (slope * (P[1] - x) - P[2]) % field>>

\* random_point: Euler's criterion, then the root that p = 3 (mod 4) makes a power.
RandomPoints ==
    LET squares == {x \in XDraws : /\ CubeAt(x) # 0
                                   /\ PowMod[CubeAt(x), (field - 1) \div 2, field] = 1}
        root(x) == PowMod[CubeAt(x), (field + 1) \div 4, field]
    IN  {<<x, root(x)>> : x \in squares} \cup {<<x, (-root(x)) % field>> : x \in squares}

\* u, u + g, u + 2g, ...; nowhere from infinity on.
WalkFrom(u, g) ==
    LET at[i \in 1..WalkLength] ==
            IF i = 1 THEN u
            ELSE IF at[i - 1] = Nowhere THEN Nowhere ELSE Add(at[i - 1], g)
    IN  at

\* A walk will do when it meets neither infinity nor an x twice.
TakeWalk ==
    /\ coeffs # <<>>
    /\ walk = <<>>
    /\ \E g, u \in RandomPoints :
           LET points == WalkFrom(u, g)
           IN  /\ \A i \in 1..WalkLength : points[i] # Nowhere
               /\ Cardinality({points[i][1] : i \in 1..WalkLength}) = WalkLength
               /\ walk' = points
    /\ UNCHANGED <<field, coeffs, hints, guess, verdict>>

\* Each x moved by at most WalkDelta, drawn again until it is in the field.
Publish ==
    /\ walk # <<>>
    /\ hints = <<>>
    /\ \E error \in [1..WalkLength -> (-WalkDelta)..WalkDelta] :
           /\ \A i \in 1..WalkLength : walk[i][1] - error[i] \in 0..(field - 1)
           /\ hints' = [i \in 1..WalkLength |-> walk[i][1] - error[i]]
    /\ UNCHANGED <<field, coeffs, walk, guess, verdict>>

-----------------------------------------------------------------------------
(* The answer. *)

\* A line that is too long is refused like one that is no number.
SubmitX ==
    /\ hints # <<>>
    /\ verdict = ""
    /\ \E x \in {NotANumber, hints[1], walk[1][1], walk[1][1] + field} :
           /\ guess' = x
           /\ verdict' = IF x = walk[1][1] THEN "ok" ELSE "wrong"
    /\ UNCHANGED <<field, coeffs, walk, hints>>

\* End of input, or the alarm.
LeaveWalk ==
    /\ hints # <<>>
    /\ verdict = ""
    /\ verdict' = "gone"
    /\ UNCHANGED <<field, coeffs, walk, hints, guess>>

-----------------------------------------------------------------------------
WalkInit ==
    /\ field = 0 /\ coeffs = <<>> /\ walk = <<>> /\ hints = <<>>
    /\ guess = NoGuess /\ verdict = ""

WalkNext == MakePrime \/ ChooseCurve \/ TakeWalk \/ Publish \/ SubmitX \/ LeaveWalk

WalkSpec == WalkInit /\ [][WalkNext]_walkVars

-----------------------------------------------------------------------------
Negative(P) == <<P[1], (-P[2]) % field>>

\* What a connection publishes is an instance of the problem: the field is a prime one, the
\* walk stays on the curve, takes the same step each time and meets no x twice, each x is as
\* near to what is published as Delta says, and "ok" goes to the x of P0 alone, below p.
WalkIsSound ==
    /\ field # 0 => \A d \in 2..(field - 1) : field % d # 0
    /\ walk # <<>> =>
           /\ \A i \in 1..WalkLength : (walk[i][2] * walk[i][2] - CubeAt(walk[i][1])) % field = 0
           /\ \A i, j \in 1..WalkLength : i # j => walk[i][1] # walk[j][1]
           /\ \A i \in 2..(WalkLength - 1) :
                  Add(walk[i + 1], Negative(walk[i])) = Add(walk[2], Negative(walk[1]))
    /\ hints # <<>> =>
           \A i \in 1..WalkLength : walk[i][1] - hints[i] \in (-WalkDelta)..WalkDelta
    /\ verdict = "ok" => guess = walk[1][1] /\ guess < field
=============================================================================
