------------------------------ MODULE RlweSigma ------------------------------
(***************************************************************************)
(* inside: a sigma proof that a prover knows the secret of an RLWE instance *)
(* (rlwe.py, sigma.py), and the session whose server checks it (task.py).  *)
(*                                                                         *)
(* A point of the group is its discrete logarithm, a number below Order.   *)
(* The prover knows the secret, as RLWEProof.prove assumes; the session    *)
(* itself throws it away.                                                  *)
(***************************************************************************)
EXTENDS Numerals

CONSTANTS
    Dim,          \* n
    RingQ,        \* qq
    Order,        \* q, the order of the curve
    Taus,         \* what os.urandom gives
    Secrets,      \* what randint gives for [a, s, e]
    Blinds,       \* ... and for the entries of r
    MaxCommands   \* bound on the commands of a session

Index == 0..(Dim - 1)

\* The order of the curve is prime.
ASSUME RlweAssumption ==
    /\ {Dim, RingQ, Order} \subseteq Nat \ {0, 1}
    /\ \A d \in 2..(Order - 1) : Order % d # 0
    /\ Taus \subseteq Nat /\ Blinds \subseteq Nat
    /\ \A c \in Secrets :
           /\ c.a \in [Index -> ((-RingQ) \div 2)..(RingQ \div 2)]
           /\ c.s \in [Index -> -1..1] /\ c.e \in [Index -> -1..1]

VARIABLES
    crs,        \* powers of tau, Missing before
    instance,   \* [a, b, s, e, k], Missing before
    prepared,   \* what a prover has made: [crs, of, made]
    congrats,   \* the flag was printed
    commands    \* commands read

sigmaVars == <<crs, instance, prepared, congrats, commands>>

Missing == <<>>

\* Two bits of each coefficient, in one list: bit p % 2 of coefficient p \div 2.
Places == 0..(2 * Dim - 1)
BitWeight(p) == 1 + (p % 2)

\* f[0] + ... + f[n - 1].
SumTo(f, n) ==
    LET sum[i \in 0..n] == IF i = 0 THEN 0 ELSE sum[i - 1] + f[i - 1]
    IN  sum[n]

-----------------------------------------------------------------------------
(* rlwe_gen. *)

\* The product modulo x^n + 1.
Product(a, s) ==
    [i \in Index |->
        SumTo([j \in Index |-> IF j <= i THEN a[j] * s[i - j] ELSE -(a[j] * s[Dim + i - j])], Dim)]

Instance(c) ==
    LET full == [i \in Index |-> Product(c.a, c.s)[i] + c.e[i]]
    IN  [a |-> c.a, s |-> c.s, e |-> c.e,
         b |-> [i \in Index |-> full[i] % RingQ],
         k |-> [i \in Index |-> full[i] \div RingQ]]

Public(x) == [a |-> x.a, b |-> x.b]

-----------------------------------------------------------------------------
(* encode: three homomorphisms, each with its image; a homomorphism is      *)
(* given by its rows, of width bases each.                                  *)

\* The rows that say of each committed number that it is a bit: b * crs[i] is the
\* commitment, and b times the commitment is, too.
BitRows(base, commitment) ==
    [width |-> 2 * Dim, height |-> 4 * Dim,
     rows |-> [r \in 0..(4 * Dim - 1) |-> [p \in Places |->
                  IF p # r \div 2 THEN 0 ELSE IF r % 2 = 0 THEN base[p \div 2] ELSE commitment[p]]],
     image |-> [r \in 0..(4 * Dim - 1) |-> commitment[r \div 2]]]

\* The row of the equation: the bits of s + 1 with the weights of A.
Weights(a, base) ==
    [i \in Index |-> SumTo([j \in Index |-> a[j] * base[(i + j) % Dim]], Dim)]

EquationRow(st, base) ==
    [p \in Places |-> (BitWeight(p) * Weights(st.a, base)[p \div 2]) % Order]

\* Mutant: the offset of s + 1 is not added.
EquationImageNoOffset(st, base, aux) ==
    LET E == SumTo([p \in Places |-> BitWeight(p) * aux.e[p]], 2 * Dim) - SumTo(base, Dim)
    IN  (RingQ * SumTo(aux.k, Dim) + SumTo([i \in Index |-> st.b[i] * base[i]], Dim) - E) % Order

EquationImage(st, base, aux) ==
    LET E == SumTo([p \in Places |-> BitWeight(p) * aux.e[p]], 2 * Dim) - SumTo(base, Dim)
    IN  (RingQ * SumTo(aux.k, Dim) + SumTo([i \in Index |-> st.b[i] * base[i]], Dim) - E
            + SumTo(Weights(st.a, base), Dim)) % Order

\* The equation and the bits of s; the order of the rows, which only the hash reads, is free.
EquationRows(st, base, aux) ==
    LET s == BitRows(base, aux.s)
    IN  [width |-> s.width, height |-> s.height + 1,
         rows |-> [r \in 0..s.height |-> IF r = s.height THEN EquationRow(st, base) ELSE s.rows[r]],
         image |-> [r \in 0..s.height |->
                       IF r = s.height THEN EquationImage(st, base, aux) ELSE s.image[r]]]

CarryRows(base, commitment) ==
    [width |-> Dim, height |-> Dim,
     rows |-> [r \in Index |-> [p \in Index |-> IF p = r THEN base[r] ELSE 0]],
     image |-> commitment]

Encode(st, base, aux) ==
    <<EquationRows(st, base, aux), BitRows(base, aux.e), CarryRows(base, aux.k)>>

-----------------------------------------------------------------------------
(* MaurerProof. *)

Image(phi, x) ==
    [r \in 0..(phi.height - 1) |->
        SumTo([p \in 0..(phi.width - 1) |-> x[p] * phi.rows[r][p]], phi.width) % Order]

\* The hash of the commitment and the statement: a stand-in that is never 0.
Oracle(commitment, phi) ==
    1 + (SumTo([r \in 0..(phi.height - 1) |->
                   commitment[r] + 2 * phi.image[r] + SumTo(phi.rows[r], phi.width)],
               phi.height) % (Order - 1))

ProveImage(phi, x, r) ==
    LET commitment == Image(phi, r)
        c == Oracle(commitment, phi)
    IN  [commitment |-> commitment,
         z |-> [p \in 0..(phi.width - 1) |-> (r[p] + c * x[p]) % Order]]

VerifyImage(phi, proof) ==
    /\ DOMAIN proof.commitment = 0..(phi.height - 1)
    /\ LET c == Oracle(proof.commitment, phi)
           answer == Image(phi, proof.z)
       IN  \A r \in 0..(phi.height - 1) :
               answer[r] = (proof.commitment[r] + c * phi.image[r]) % Order

-----------------------------------------------------------------------------
(* RLWEProof. *)

\* The bits of v + 1, which is one of 0..3, at each place.
BitDecom(v) == [p \in Places |-> ((v[p \div 2] + 1) \div BitWeight(p)) % 2]

Commitments(x, base) ==
    [s |-> [p \in Places |-> (BitDecom(x.s)[p] * base[p \div 2]) % Order],
     e |-> [p \in Places |-> (BitDecom(x.e)[p] * base[p \div 2]) % Order],
     k |-> [i \in Index |-> (x.k[i] * base[i]) % Order]]

\* With the entries r[1], r[2] and r[3] that the three proofs draw.
Prove(x, base, r) ==
    LET aux == Commitments(x, base)
        sts == Encode(Public(x), base, aux)
        wits == <<BitDecom(x.s), BitDecom(x.e), x.k>>
    IN  [aux |-> aux, proofs |-> [i \in 1..3 |-> ProveImage(sts[i], wits[i], r[i])]]

Accepts(st, base, made) ==
    LET sts == Encode(st, base, made.aux)
    IN  \A i \in 1..3 : VerifyImage(sts[i], made.proofs[i])

-----------------------------------------------------------------------------
(* task.py: the commands of a session, which ends when it prints the flag.  *)

Reads ==
    /\ ~congrats
    /\ commands < MaxCommands
    /\ commands' = commands + 1

MakeCrs ==
    /\ Reads
    /\ \E tau \in Taus : crs' = [i \in Index |-> PowerOf(tau, i) % Order]
    /\ UNCHANGED <<instance, prepared, congrats>>

MakeInstance ==
    /\ Reads
    /\ \E c \in Secrets : instance' = Instance(c)
    /\ UNCHANGED <<crs, prepared, congrats>>

\* The prover, between two commands.
Prepare ==
    /\ crs # Missing /\ instance # Missing
    /\ prepared = Missing
    /\ \E r \in [1..3 -> [Places -> Blinds]] :
           prepared' = [crs |-> crs, of |-> instance, made |-> Prove(instance, crs, r)]
    /\ UNCHANGED <<crs, instance, congrats, commands>>

\* "nah..." without a CRS or an instance; a proof may be for earlier ones.
ProofOfKnowledge ==
    /\ Reads
    /\ \/ /\ crs = Missing \/ instance = Missing
          /\ UNCHANGED <<prepared, congrats>>
       \/ /\ prepared # Missing
          /\ congrats' = Accepts(Public(instance), crs, prepared.made)
          /\ prepared' = Missing
    /\ UNCHANGED <<crs, instance>>

\* "q", a line that cannot be read, or the alarm.
Quit ==
    /\ ~congrats
    /\ commands < MaxCommands
    /\ commands' = MaxCommands
    /\ UNCHANGED <<crs, instance, prepared, congrats>>

-----------------------------------------------------------------------------
SigmaInit ==
    /\ crs = Missing /\ instance = Missing /\ prepared = Missing
    /\ congrats = FALSE /\ commands = 0

SigmaNext == MakeCrs \/ MakeInstance \/ Prepare \/ ProofOfKnowledge \/ Quit

SigmaSpec == SigmaInit /\ [][SigmaNext]_sigmaVars

-----------------------------------------------------------------------------
\* What wraps around modulo x^n + 1 and modulo x^n has opposite signs.
Wrapped(x, base) ==
    SumTo([i \in Index |->
              SumTo([j \in Index |-> IF i + j < Dim THEN 0
                                     ELSE x.s[i] * (x.a[j] * base[(i + j) % Dim])], Dim)], Dim)

\* The weights of A rotate where the ring negates, so an honest proof for the current CRS and
\* instance is accepted exactly when the wrapped terms vanish at tau; everything else that
\* prove and encode do, each for itself, agrees.
HonestUnlessWrapped ==
    (prepared # Missing /\ prepared.crs = crs /\ Public(prepared.of) = Public(instance)) =>
        (Accepts(Public(instance), crs, prepared.made)
            <=> (2 * Wrapped(prepared.of, crs)) % Order = 0)
=============================================================================
