---------------------------- MODULE ThresholdEcdsa ----------------------------
(***************************************************************************)
(* The two-party ECDSA signer of z3kapig (main.py, party.py, ecdsa/): one  *)
(* process per connection, whose commands walk a Party through key         *)
(* generation (phase 1), Paillier keys (2), a presignature (3) and one     *)
(* signature with it (4), and then back to phase 3.                        *)
(*                                                                         *)
(* Party 1 is the process; party 0, on the other end, runs the same        *)
(* classes.  A round of one needs the other's message of the round before, *)
(* so a command moves both: each of them runs the method on what the other *)
(* sent last.  Party 0 may err once (Faults), send a command out of order, *)
(* or leave.  The random values of a phase are drawn when it starts.       *)
(***************************************************************************)
EXTENDS ZkProofs

CONSTANTS None,
          PaillierKeys,    \* the key pair each party generates
          ModulusBits,     \* PAILLIER_MODULUS_BITS
          SmallPrimeLimit, \* SMALL_PRIME_LIMIT
          Messages,        \* message hashes
          KeygenCoins, AuxCoins, PresignCoins, SignCoins,
                           \* the random values of a phase: pairs, one for each party
          Faults,          \* what may go wrong at party 0, "none" for nothing
          MaxPresigs       \* bound: presignatures of a session

Parties == {0, 1}

VARIABLES
    party,       \* the Party objects
    sent,        \* what each party's last method returned
    phase,       \* current_phase
    action,      \* expected_action
    text,        \* the message each signs: message_cache of party 1
    completed,   \* signing_completed
    status,      \* "open", or why the session ended
    fault,       \* what goes wrong at party 0
    coins,       \* the random values of each phase
    presigs,     \* presignatures started
    uses,        \* history: party 1's shares, <<presignature, message>>
    accepted,    \* history: the signature party 1 accepted last, or None
    released     \* the flag was handed out

vars == <<party, sent, phase, action, text, completed, status, fault, coins, presigs, uses,
          accepted, released>>

Actions == {"start_phase", "round1", "round2", "round3", "round_out", "sign", "verify"}

\* What a method of Party returns: its message, or how it raised.
Returns(P, out) == [raised |-> "no", party |-> P, out |-> out]
Raises(P, how) == [raised |-> how, party |-> P, out |-> None]
\* raise VerificationError unless the checks hold.
Checked(ok, P, Q, out) == IF ok THEN Returns(Q, out) ELSE Raises(P, "VerificationError")

-----------------------------------------------------------------------------
(* Phase 1: keygen.py.  The protocol object: the key share x, the nonce    *)
(* alpha of its proof, rid, and what the peer revealed.                     *)

KeygenNew(id, c) ==
    [id |-> id, x |-> c.x, X |-> ScalarMult(c.x, G), rid |-> c.rid,
     alpha |-> c.alpha, A |-> ScalarMult(c.alpha, G), beta |-> c.beta]

RevealHash(id, m) == Hash(<<id, m.rid>> \o m.X \o m.A)
PsiHash(id, srid, schX, schA) ==
    Hash(<<id, srid>> \o schX.A \o <<schX.z>> \o schA.A \o <<schA.z>>)

KeygenReveal(k) == [rid |-> k.rid, X |-> k.X, A |-> k.A]

KeygenRound3(P, m) ==
    LET k == P.proto
        srid == Xor(k.rid, m.rid)
        schX == SchProve(srid, k.X, k.alpha, k.x)
        schA == SchProve(srid, k.A, k.beta, k.alpha)
    IN  Checked(P.peer1.V = RevealHash(P.peer1.id, m), P,
                [P EXCEPT !.proto = [Xj |-> m.X, Aj |-> m.A, srid |-> srid] @@ k],
                [schX |-> schX, schA |-> schA, psi |-> PsiHash(k.id, srid, schX, schA)])

KeygenOut(P, m) ==
    LET k == P.proto
    IN  Checked(/\ m.psi = PsiHash(P.peer1.id, k.srid, m.schX, m.schA)
                /\ m.schX.A = k.Aj
                /\ SchVerify(k.srid, k.Xj, m.schX)
                /\ SchVerify(k.srid, k.Aj, m.schA),
                P,
                [P EXCEPT !.proto = None, !.peer1 = None,
                          !.keygen = [ssid |-> k.srid, x |-> k.x, X |-> k.X, Xj |-> k.Xj,
                                      joint |-> PointAdd(k.X, k.Xj)]],
                PointAdd(k.X, k.Xj))

-----------------------------------------------------------------------------
(* Phase 2: aux.py.  ped is the own modulus with its bases s and t.        *)

AuxNew(id, ssid, key, c) ==
    LET n == Modulus(key)
        t == PowMod[c.base, 2, n]
        ped == [n |-> n, s |-> PowMod[t, c.lam, n], t |-> t]
    IN  [id |-> id, ssid |-> ssid, key |-> key, ped |-> ped, rho |-> c.rho,
         prm |-> PrmProve(ssid, ped, Phi(key), c.lam, c.a)]

PedHash(ssid, id, m) ==
    Hash(<<ssid, id>> \o PedNums(m.ped) \o m.prm.A \o m.prm.Z \o <<m.rho>>)

\* The table: every prime below the limit.
SmallPrimes == {n \in 2..(SmallPrimeLimit - 1) : \A d \in 2..(n - 1) : n % d # 0}

\* _find_small_prime_factor finds one.
HasSmallFactor(n) == \E p \in SmallPrimes : n % p = 0

AuxReveal(a) == [ped |-> a.ped, prm |-> a.prm, rho |-> a.rho]

AuxRound3(P, m, c) ==
    LET a == P.proto
        tag == Xor(a.ssid, Xor(a.rho, m.rho))
    IN  Checked(/\ m.ped.n > 0 /\ BitLength(m.ped.n) = ModulusBits
                /\ ~HasSmallFactor(m.ped.n)
                /\ P.peer1.V = PedHash(a.ssid, P.peer1.id, m)
                /\ PrmVerify(a.ssid, m.ped, m.prm),
                P,
                [P EXCEPT !.proto = [pedj |-> m.ped, tag |-> tag] @@ a],
                [mod |-> ModProve(tag, a.key, c.w), fac |-> FacProve(tag, a.key, m.ped, c)])

\* Mutant: the factor proof is checked against the peer's bases.
FactorProofsOwnBases(a, m) ==
    ModVerify(a.tag, a.pedj.n, m.mod) /\ FacVerify(a.tag, a.pedj.n, a.pedj, m.fac)

FactorProofs(a, m) ==
    ModVerify(a.tag, a.pedj.n, m.mod) /\ FacVerify(a.tag, a.pedj.n, a.ped, m.fac)

AuxOut(P, m) ==
    LET a == P.proto
    IN  Checked(FactorProofs(a, m), P,
                [P EXCEPT !.proto = None, !.peer1 = None,
                          !.aux = [key |-> a.key, ped |-> a.ped, pedj |-> a.pedj]],
                a.pedj.n)

-----------------------------------------------------------------------------
(* Phase 3: presigning.py and mta.py. *)

\* start_phase3 raises RuntimeError without the data of the earlier phases.
PresignNew(P, c) ==
    IF None \in {P.keygen, P.aux} THEN Raises(P, "error")
    ELSE LET n == P.aux.ped.n
         IN  Returns([P EXCEPT !.proto =
                [ssid |-> P.keygen.ssid, k |-> c.k, gamma |-> c.gi,
                 K |-> Encrypt(n, c.k, c.rhoK), Gct |-> Encrypt(n, c.gi, c.rhoG),
                 Gamma |-> ScalarMult(c.gi, G)]], None)

PresignRound1(P, c) ==
    LET s == P.proto
        proof == EncProve(s.ssid, P.aux.ped.n, s.K, P.aux.pedj, s.k, c.rhoK, c)
    IN  Returns(P, [K |-> s.K, Gct |-> s.Gct, enc |-> proof])

\* new_mta: the peer's K to the power x, plus a random y that is subtracted again in beta.
Mta(P, Kj, x, X, y, c) ==
    LET n == P.aux.ped.n
        nj == P.aux.pedj.n
        D == HomoAdd(nj, HomoMult(nj, x, Kj), Encrypt(nj, y, c.sij))
        F == Encrypt(n, y, c.rij)
    IN  [D |-> D, F |-> F, beta |-> (-y) % CurveN,
         proof |-> AffgProve(P.proto.ssid, nj, n, P.aux.pedj, Kj, D, F, X, x, y,
                             c.sij, c.rij, c)]

PresignRound2(P, m, c) ==
    LET s == P.proto
        n == P.aux.ped.n
        mtaG == Mta(P, m.K, s.gamma, s.Gamma, c.yG, c)
        mtaX == Mta(P, m.K, P.keygen.x, P.keygen.X, c.yX, c)
    IN  Checked(EncVerify(s.ssid, P.aux.pedj.n, P.aux.ped, m.K, m.enc), P,
                [P EXCEPT !.peer1 = m,
                          !.proto = [Kj |-> m.K, betaG |-> mtaG.beta, betaX |-> mtaX.beta] @@ s],
                [Gamma |-> s.Gamma, D |-> mtaG.D, F |-> mtaG.F, affg |-> mtaG.proof,
                 Dx |-> mtaX.D, Fx |-> mtaX.F, affx |-> mtaX.proof,
                 log |-> LogProve(s.ssid, n, s.Gct, s.Gamma, G, c.rhoG, s.gamma,
                                  P.aux.pedj, c)])

PresignRound3(P, m, c) ==
    LET s == P.proto
        n == P.aux.ped.n
        nj == P.aux.pedj.n
        Gamma == PointAdd(s.Gamma, m.Gamma)
        vdelta == ScalarMult(s.k, Gamma)
        delta == (s.gamma * s.k + Decrypt(P.aux.key, m.D) + s.betaG) % CurveN
        chi == (P.keygen.x * s.k + Decrypt(P.aux.key, m.Dx) + s.betaX) % CurveN
    IN  Checked(/\ AffgVerify(s.ssid, n, nj, P.aux.ped, s.K, m.D, m.F, m.Gamma, m.affg)
                /\ AffgVerify(s.ssid, n, nj, P.aux.ped, s.K, m.Dx, m.Fx, P.keygen.Xj, m.affx)
                /\ LogVerify(s.ssid, nj, P.peer1.Gct, m.Gamma, G, P.aux.ped, m.log),
                P,
                [P EXCEPT !.proto = [sumGamma |-> Gamma, vdelta |-> vdelta,
                                     delta |-> delta, chi |-> chi] @@ s],
                [delta |-> delta, vdelta |-> vdelta,
                 log |-> LogProve(s.ssid, n, s.K, vdelta, Gamma, c.rhoK, s.k, P.aux.pedj, c)])

DeltaHolds(P, s, m, delta) ==
    /\ LogVerify(s.ssid, P.aux.pedj.n, s.Kj, m.vdelta, s.sumGamma, P.aux.ped, m.log)
    /\ ScalarMult(delta, G) = PointAdd(s.vdelta, m.vdelta)

\* Inverting a delta of 0 is a ZeroDivisionError.
PresignOut(P, m, c) ==
    LET s == P.proto
        delta == (s.delta + m.delta) % CurveN
        R == ScalarMult(Invert(delta, CurveN), s.sumGamma)
    IN  IF ~DeltaHolds(P, s, m, delta) THEN Raises(P, "VerificationError")
        ELSE IF delta = 0 THEN Raises(P, "error")
        ELSE Returns([P EXCEPT !.proto = None, !.peer1 = None,
                               !.presig = [R |-> R, k |-> s.k, chi |-> s.chi, ssid |-> s.ssid,
                                           K |-> s.K, Kj |-> s.Kj, rhoK |-> c.rhoK]],
                     R)

-----------------------------------------------------------------------------
(* Phase 4: signing.py. *)

\* start_phase4 and Signing: RuntimeError without a presignature, ValueError for r = 0.
SignNew(P) ==
    IF None \in {P.keygen, P.presig} THEN Raises(P, "error")
    ELSE LET r == P.presig.R[1] % CurveN
         IN  IF r = 0 THEN Raises(P, "error")
             ELSE Returns([P EXCEPT !.proto = [r |-> r, sigma |-> None,
                                               Rk |-> ScalarMult(P.presig.k, P.presig.R),
                                               Rchi |-> ScalarMult(P.presig.chi, P.presig.R)]],
                          None)

Sign(P, h, c) ==
    LET g == P.proto
        pre == P.presig
        sigma == (pre.k * h + pre.chi * g.r) % CurveN
        T == PointAdd(ScalarMult(sigma, G), ScalarMult(c.blind, SecondBase))
    IN  Returns([P EXCEPT !.proto.sigma = sigma],
                [sigma |-> sigma, S |-> ScalarMult(sigma, pre.R), Rk |-> g.Rk, Rchi |-> g.Rchi,
                 T |-> T, st |-> StProve(T, pre.R, sigma, c.blind, c),
                 log |-> LogProve(pre.ssid, P.aux.ped.n, pre.K, g.Rk, pre.R, pre.rhoK, pre.k,
                                  P.aux.pedj, c)])

PeerZkHolds(P, h, m) ==
    LET pre == P.presig
    IN  /\ ScalarMult(m.sigma, pre.R) = m.S
        /\ StVerify(m.S, m.T, pre.R, m.st)
        /\ LogVerify(pre.ssid, P.aux.pedj.n, pre.Kj, m.Rk, pre.R, P.aux.ped, m.log)
        /\ PointAdd(ScalarMult(h, m.Rk), ScalarMult(P.proto.r, m.Rchi)) = m.S

Verify(P, h, m) ==
    LET s == (P.proto.sigma + m.sigma) % CurveN
    IN  Checked(/\ PeerZkHolds(P, h, m)
                /\ s # 0
                /\ EcdsaVerify(P.keygen.joint, h, P.proto.r, s),
                P, [P EXCEPT !.proto = None, !.presig = None], <<P.proto.r, s>>)

-----------------------------------------------------------------------------
(* party.py and process_command. *)

\* start_phase: the method of party p, which draws c.
Starting(p, c) ==
    LET P == party[p]
        new(proto) == Returns([P EXCEPT !.proto = proto], None)
    IN  CASE phase = 1 -> new(KeygenNew(p, c))
          [] phase = 2 -> new(AuxNew(p, P.keygen.ssid, PaillierKeys[p], c))
          [] phase = 3 -> PresignNew(P, c)
          [] phase = 4 -> SignNew(P)

\* A round: the method of party p, of what the other party sent last.
Rounds(p, m, c) ==
    LET P == party[p]
        at(ph, a) == phase = ph /\ action = a
        kept(out) == Returns([P EXCEPT !.peer1 = m], out)
    IN  CASE at(1, "round1") -> Returns(P, [id |-> p, V |-> RevealHash(p, KeygenReveal(P.proto))])
          [] at(1, "round2") -> kept(KeygenReveal(P.proto))
          [] at(1, "round3") -> KeygenRound3(P, m)
          [] at(1, "round_out") -> KeygenOut(P, m)
          [] at(2, "round1") ->
                Returns(P, [id |-> p, V |-> PedHash(P.proto.ssid, p, AuxReveal(P.proto))])
          [] at(2, "round2") -> kept(AuxReveal(P.proto))
          [] at(2, "round3") -> AuxRound3(P, m, c)
          [] at(2, "round_out") -> AuxOut(P, m)
          [] at(3, "round1") -> PresignRound1(P, c)
          [] at(3, "round2") -> PresignRound2(P, m, c)
          [] at(3, "round3") -> PresignRound3(P, m, c)
          [] at(3, "round_out") -> PresignOut(P, m, c)

\* Mutant: another message may be signed with the presignature of the last one.
AdvanceToSign(ph, act) ==
    CASE act = "start_phase" -> <<ph, IF ph = 4 THEN "sign" ELSE "round1">>
      [] act = "round1" -> <<ph, "round2">>
      [] act = "round2" -> <<ph, "round3">>
      [] act = "round3" -> <<ph, "round_out">>
      [] act = "round_out" -> <<ph + 1, "start_phase">>
      [] act = "sign" -> <<4, "sign">>
      [] act = "verify" -> <<3, "start_phase">>

\* The command expected after act in phase ph.
Advance(ph, act) ==
    CASE act = "start_phase" -> <<ph, IF ph = 4 THEN "sign" ELSE "round1">>
      [] act = "round1" -> <<ph, "round2">>
      [] act = "round2" -> <<ph, "round3">>
      [] act = "round3" -> <<ph, "round_out">>
      [] act = "round_out" -> <<ph + 1, "start_phase">>
      [] act = "sign" -> <<4, "verify">>
      [] act = "verify" -> <<3, "start_phase">>

\* What reaches party 1 of party 0's last message: the fault may have changed it.
Garbled(m) ==
    CASE fault = "rid" /\ phase = 1 /\ action = "round3" -> [m EXCEPT !.rid = Xor(@, 1)]
      [] fault = "delta" /\ phase = 3 /\ action = "round_out" -> [m EXCEPT !.delta = (@ + 1) % CurveN]
      [] fault = "sigma" /\ action = "verify" -> [m EXCEPT !.sigma = (@ + 1) % CurveN]
      [] OTHER -> m
\* A share of party 0 that it computed wrongly.
Slipped(P) ==
    CASE fault = "chi" /\ phase = 3 /\ action = "round3" -> [P EXCEPT !.proto.chi = (@ + 1) % CurveN]
      [] fault = "k" /\ phase = 3 /\ action = "round_out" -> [P EXCEPT !.presig.k = (@ + 1) % CurveN]
      [] OTHER -> P

Received(p) == IF p = 1 THEN Garbled(sent[0]) ELSE sent[1]

\* The expected command, to which the methods of the parties answer ans.  An answer that is
\* not "ok" ends the session; party 0 leaves if its own method raises.
Command(ans) ==
    /\ status = "open"
    /\ IF ans[1].raised # "no"
       THEN /\ status' = ans[1].raised
            /\ UNCHANGED <<party, sent, phase, action>>
       ELSE /\ status' = IF ans[0].raised = "no" THEN "open" ELSE "refused"
            /\ party' = [p \in Parties |-> IF p = 0 /\ ans[0].raised = "no"
                                           THEN Slipped(ans[0].party) ELSE ans[p].party]
            /\ sent' = [p \in Parties |-> ans[p].out]
            /\ phase' = Advance(phase, action)[1]
            /\ action' = Advance(phase, action)[2]

Draws == CASE phase = 1 -> KeygenCoins [] phase = 2 -> AuxCoins
           [] phase = 3 -> PresignCoins [] phase = 4 -> SignCoins
Drawn(p) == coins[phase][p + 1]

StartPhase ==
    /\ action = "start_phase"
    /\ phase = 3 => presigs < MaxPresigs
    /\ \E c \in Draws :
          /\ coins' = [coins EXCEPT ![phase] = c]
          /\ Command([p \in Parties |-> Starting(p, c[p + 1])])
    /\ presigs' = IF phase = 3 THEN presigs + 1 ELSE presigs
    /\ UNCHANGED <<text, completed, fault, uses, accepted, released>>

Round ==
    /\ action \in {"round1", "round2", "round3", "round_out"}
    /\ Command([p \in Parties |-> Rounds(p, Received(p), Drawn(p))])
    /\ UNCHANGED <<text, completed, fault, coins, presigs, uses, accepted, released>>

SignMessage ==
    /\ action = "sign"
    /\ \E h0, h1 \in Messages :
          /\ (h0 # h1) = (fault = "message")
          /\ text' = [p \in Parties |-> IF p = 0 THEN h0 ELSE h1]
          /\ uses' = uses \cup {<<presigs, h1>>}
          /\ Command([p \in Parties |-> Sign(party[p], IF p = 0 THEN h0 ELSE h1, Drawn(p))])
    /\ UNCHANGED <<completed, fault, coins, presigs, accepted, released>>

VerifySignature ==
    /\ action = "verify"
    /\ Command([p \in Parties |-> Verify(party[p], text[p], Received(p))])
    /\ IF phase' = 3
       THEN /\ completed' = TRUE
            /\ text' = [text EXCEPT ![1] = None]
            /\ accepted' = [h |-> text[1], sig |-> sent'[1],
                            k |-> (coins[3][1].k + coins[3][2].k) % CurveN]
       ELSE UNCHANGED <<completed, text, accepted>>
    /\ UNCHANGED <<fault, coins, presigs, uses, released>>

\* A right guess of party 1's share; any other leaves the state as it is.
GuessKey ==
    /\ status = "open"
    /\ completed /\ party[1].keygen # None
    /\ released' = TRUE
    /\ UNCHANGED <<party, sent, phase, action, text, completed, status, fault, coins, presigs,
                   uses, accepted>>

\* run_pow.
ProofOfWork(valid) ==
    /\ status = "pow"
    /\ status' = IF valid THEN "open" ELSE "ended"
    /\ UNCHANGED <<party, sent, phase, action, text, completed, fault, coins, presigs, uses,
                   accepted, released>>

\* "Protocol flow violation", a command whose data lack a field, the end of the input, or
\* the timer, whose signal may come inside a command.
EndSession ==
    /\ status = "open"
    /\ status' = "ended"
    /\ UNCHANGED <<party, sent, phase, action, text, completed, fault, coins, presigs, uses,
                   accepted, released>>

-----------------------------------------------------------------------------
NewParty == [proto |-> None, peer1 |-> None, keygen |-> None, aux |-> None, presig |-> None]

Init ==
    /\ party = [p \in Parties |-> NewParty]
    /\ sent = [p \in Parties |-> None]
    /\ phase = 1
    /\ action = "start_phase"
    /\ text = [p \in Parties |-> None]
    /\ completed = FALSE
    /\ status = "pow"
    /\ fault \in Faults
    /\ coins = [ph \in 1..4 |-> <<None, None>>]
    /\ presigs = 0
    /\ uses = {}
    /\ accepted = None
    /\ released = FALSE

Next ==
    \/ \E valid \in BOOLEAN : ProofOfWork(valid)
    \/ StartPhase \/ Round \/ SignMessage \/ VerifySignature
    \/ GuessKey \/ EndSession

Spec == Init /\ [][Next]_vars

-----------------------------------------------------------------------------
(* Properties. *)

\* The events that may make an honest session fail; at the size of the code's numbers none
\* is ever seen.
ProofOutOfRange(c) == c.alpha + (CurveN - 1) * (CurveN - 1) >= CurveN^3
MtaWraps(p) ==
    LET c == coins[3][p + 1]
        kj == coins[3][2 - p].k
        nj == Modulus(PaillierKeys[1 - p])
    IN  kj * c.gi + c.yG >= nj \/ kj * coins[1][p + 1].x + c.yX >= nj
FacNegative(p) ==
    LET c == coins[2][p + 1]
    IN  c.r < (CurveN - 1) * (c.nu * PaillierKeys[p][1] - c.sigma)
FacOutOfRange(p) ==
    LET c == coins[2][p + 1]
        key == PaillierKeys[p]
    IN  \/ c.alpha + (CurveN - 1) * key[1] >= CurveN^3 * Isqrt(Modulus(key))
        \/ c.beta + (CurveN - 1) * key[2] >= CurveN^3 * Isqrt(Modulus(key))
NotAUnit(p) ==
    LET tag == Xor(party[1].keygen.ssid, Xor(coins[2][1].rho, coins[2][2].rho))
        n == Modulus(PaillierKeys[p])
        Y == ModChallenges(tag, coins[2][p + 1].w, n)
    IN  \E i \in 1..Iterations : Gcd[Y[i], n] # 1
DeltaZero ==
    LET c == coins[3]
    IN  (c[1].k + c[2].k) * (c[1].gi + c[2].gi) % CurveN = 0
TotalKey == coins[1][1].x + coins[1][2].x
RZero == party[1].presig # None /\ party[1].presig.R[1] % CurveN = 0
SZero ==
    /\ \A p \in Parties : party[p].proto # None /\ party[p].proto.sigma # None
    /\ (party[0].proto.sigma + party[1].proto.sigma) % CurveN = 0

\* The phase a session was in when it failed: what party 0 has tells.
FailedPhase ==
    CASE party[0].keygen = None -> 1
      [] party[0].aux = None -> 2
      [] party[0].presig = None -> 3
      [] OTHER -> 4

RareEvent ==
    \/ FailedPhase = 2 /\ \E p \in Parties : FacNegative(p) \/ FacOutOfRange(p) \/ NotAUnit(p)
    \/ FailedPhase = 3 /\ DeltaZero
    \/ FailedPhase \in {3, 4} /\ \E p \in Parties : MtaWraps(p)
    \/ FailedPhase \in {3, 4} /\ \E p \in Parties : ProofOutOfRange(coins[FailedPhase][p + 1])
    \/ FailedPhase = 4 /\ (RZero \/ TotalKey % CurveN = 0 \/ SZero)

\* Completeness: unless something goes wrong at party 0 or one of those events occurs, no
\* check of either party fails, in key generation, presigning or signing.
HonestSessionsPass ==
    fault = "none" /\ status \in {"refused", "VerificationError", "error"} => RareEvent

\* What party 1 accepts is the ECDSA signature of its message under the sum of the key
\* shares, with the inverse of the sum of the nonces -- up to the sign of s, which ECDSA
\* leaves open -- whatever went wrong at party 0.
AcceptedIsSignature ==
    accepted # None =>
        LET k == accepted.k
            r == ScalarMult(Invert(k, CurveN), G)[1] % CurveN
            s == (k * (accepted.h + r * TotalKey)) % CurveN
        IN  accepted.sig \in {<<r, s>>, <<r, CurveN - s>>}

\* No presignature is used for two messages, in whatever order commands come.
OneMessagePerPresignature ==
    \A u, v \in uses : u[1] = v[1] => u[2] = v[2]

\* Whatever went wrong at party 0, two parties that go on agree: on the joint key and the
\* session's identifier after phase 1, on each other's moduli after phase 2, and on the
\* presignature, the inverse of the sum of the nonces times G, after phase 3.
PartiesAgree ==
    LET P == party[0]
        Q == party[1]
        total == ScalarMult(TotalKey, G)
        k == (coins[3][1].k + coins[3][2].k) % CurveN
    IN  status = "open" =>
          /\ phase > 1 => /\ P.keygen.joint = total /\ Q.keygen.joint = total
                          /\ P.keygen.ssid = Q.keygen.ssid
          /\ phase > 2 => P.aux.pedj = Q.aux.ped /\ Q.aux.pedj = P.aux.ped
          /\ phase > 3 => /\ P.presig.R = Q.presig.R
                          /\ P.presig.R = ScalarMult(Invert(k, CurveN), G)

\* What a session without faults promises, and what one with faults still does: honest
\* sessions pass, parties that go on agree (main.py:267 ends a session that raised), and
\* what comes out accepted is a signature.
SessionsAgree == HonestSessionsPass /\ PartiesAgree /\ AcceptedIsSignature
=============================================================================
