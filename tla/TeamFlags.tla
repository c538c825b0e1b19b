------------------------------- MODULE TeamFlags -------------------------------
(***************************************************************************)
(* Flags that carry the number of the team they were made for, and the two *)
(* services that hand them out: the checker of speedrun (check_code.py,    *)
(* with the encoder of uuid_stego.py) and netshare's controller (with the  *)
(* encoder of kubeconfig.py).  The platform reads the number back with     *)
(* decode_uuid.                                                            *)
(*                                                                         *)
(* A byte has ByteBits bits here and a word four bytes; a team number has  *)
(* eight bytes, a flag sixteen.  What the hashes of template and key give  *)
(* is a constant: the carrier, and the keystream of ChaCha20.  The text    *)
(* around the sixteen bytes (hyphens, prefixes, braces) is left out.       *)
(***************************************************************************)
EXTENDS Numerals

CONSTANTS
    Checkers,     \* connections to the speedrun checker, one process each
    Clusters,     \* connections to netshare's controller
    Tokens,       \* team tokens the platform knows
    TeamOf,       \* the platform's answer: the team number of a token
    TypedTeams,   \* numbers typed to the controller
    CodeFile,     \* codes.json
    TypedCodes,   \* codes typed to the checker
    NoTeam,
    ByteBits,     \* 8 in the code
    Delta,        \* DELTA
    Carrier,      \* of each service: bytes 2..17 of sha1(template)
    KeyWords,     \* of each service: the words of its key, at most four
    Keystream     \* of each service: what ChaCha20 adds to sixteen bytes

ByteSize == PowerOf(2, ByteBits)
WordSize == PowerOf(2, 4 * ByteBits)
IdSize == PowerOf(2, 8 * ByteBits)
Byte == 0..(ByteSize - 1)
Word == 0..(WordSize - 1)

\* The rounds of a block of two words.
Cycles == 6 + 52 \div 2

ASSUME TeamFlagsAssumption ==
    /\ NoTeam \notin Int /\ TeamOf \in [Tokens -> Int]
    /\ ByteBits \in Nat \ {0} /\ Delta \in Word
    /\ \A q \in 1..Cycles : (q * Delta) % WordSize # 0     \* as DELTA for any length
    /\ \A s \in {"speedrun", "netshare"} :
           /\ Carrier[s] \in [1..16 -> Byte] /\ Keystream[s] \in [1..16 -> Byte]
           /\ KeyWords[s] \in Seq(Word)

VARIABLES
    stage,   \* of each connection
    team,    \* the team number it has resolved or read
    issued,  \* the flag it has handed out, <<>> before
    code     \* history: the code that was typed

flagVars == <<stage, team, issued, code>>

-----------------------------------------------------------------------------
(* XXTEA and the encoding. *)

XorTable == [a \in Word |-> [b \in Word |-> BitXor(a, b, 4 * ByteBits)]]
WordXor(a, b) == XorTable[a % WordSize][b % WordSize]

\* struct.pack("<q", number) and its inverse.
Pack(id) == DigitsOf(id % IdSize, ByteSize, 8)
Unpack(bytes) ==
    LET n == ValueOf(bytes, ByteSize)
    IN  IF n >= IdSize \div 2 THEN n - IdSize ELSE n

ToWords(bytes) == [w \in 1..2 |-> ValueOf([i \in 1..4 |-> bytes[4 * (w - 1) + i]], ByteSize)]
ToBytes(words) ==
    [i \in 1..8 |-> DigitsOf(words[1 + (i - 1) \div 4], ByteSize, 4)[1 + ((i - 1) % 4)]]

\* The key, filled up with zeros.
FixK(k) == [i \in 1..4 |-> IF i <= Len(k) THEN k[i] ELSE 0]

Mx(sum, y, z, p, k) ==
    WordXor(WordXor(z \div 32, y * 4) + WordXor(y \div 8, z * 16),
            WordXor(sum, y) + WordXor(k[1 + BitXor(p % 4, (sum \div 4) % 4, 2)], z))

\* The sum of round q of an encryption.
SumAt(q) == (q * Delta) % WordSize

\* A round of uuid_stego.py: z is the word before, y the one after; of two words both are
\* the other.
MixWords(v, sum, k) ==
    LET v0 == (v[1] + Mx(sum, v[2], v[2], 0, k)) % WordSize
    IN  <<v0, (v[2] + Mx(sum, v0, v0, 1, k)) % WordSize>>

XxteaEncrypt(bytes, key) ==
    LET v[q \in 0..Cycles] ==
            IF q = 0 THEN ToWords(bytes) ELSE MixWords(v[q - 1], SumAt(q), FixK(key))
    IN  ToBytes(v[Cycles])

\* kubeconfig.py: the state of the loop is v and the z it carries over.
MixWord(st, sum, p, k) ==
    LET new == (st.v[p + 1] + Mx(sum, st.v[2 - p], st.z, p, k)) % WordSize
    IN  [v |-> [st.v EXCEPT ![p + 1] = new], z |-> new]

XxteaEncryptCarried(bytes, key) ==
    LET st[q \in 0..Cycles] ==
            IF q = 0 THEN [v |-> ToWords(bytes), z |-> ToWords(bytes)[2]]
            ELSE MixWord(MixWord(st[q - 1], SumAt(q), 0, FixK(key)), SumAt(q), 1, FixK(key))
    IN  ToBytes(st[Cycles].v)

\* Mutant: the words in the order of the encryption.
UnmixWordsForward(v, sum, k) ==
    LET v0 == (v[1] - Mx(sum, v[2], v[2], 0, k)) % WordSize
    IN  <<v0, (v[2] - Mx(sum, v0, v0, 1, k)) % WordSize>>

UnmixWords(v, sum, k) ==
    LET v1 == (v[2] - Mx(sum, v[1], v[1], 1, k)) % WordSize
    IN  <<(v[1] - Mx(sum, v1, v1, 0, k)) % WordSize, v1>>

\* The loop of the code ends at sum = 0, which comes after Cycles rounds.
XxteaDecrypt(bytes, key) ==
    LET v[q \in 0..Cycles] ==
            IF q = 0 THEN ToWords(bytes)
            ELSE UnmixWords(v[q - 1], SumAt(Cycles + 1 - q), FixK(key))
    IN  ToBytes(v[Cycles])

Diffuse(service, bytes) == [i \in 1..16 |-> WordXor(bytes[i], Keystream[service][i])]

\* The salt is zero: the bytes of the number go into every second byte of the carrier.
Embed(service, enc) ==
    [i \in 1..16 |-> IF i % 2 = 0 THEN WordXor(Carrier[service][i], enc[i \div 2])
                     ELSE Carrier[service][i]]

EncodeUuid(service, id) ==
    Diffuse(service, Embed(service, XxteaEncrypt(Pack(id), KeyWords[service])))
FlagGenerate(service, id) ==
    Diffuse(service, Embed(service, XxteaEncryptCarried(Pack(id), KeyWords[service])))

\* decode_uuid; every second of the bytes left alone is compared with the carrier.
Broken(service, flag) ==
    \E i \in {2, 4, 6, 8} : Diffuse(service, flag)[2 * i - 1] # Carrier[service][2 * i - 1]
DecodeUuid(service, flag) ==
    IF Broken(service, flag) THEN NoTeam
    ELSE LET block == Diffuse(service, flag)
         IN  Unpack(XxteaDecrypt([i \in 1..8 |-> WordXor(Carrier[service][2 * i], block[2 * i])],
                                 KeyWords[service]))

-----------------------------------------------------------------------------
(* check_code.py: one process per connection. *)

Ids == (-(IdSize \div 2))..(IdSize \div 2 - 1)

Done(c) == stage' = [stage EXCEPT ![c] = "done"]

\* load_codes raises, or there is no template or key.
CheckerFails(c) ==
    /\ stage[c] = "start"
    /\ Done(c)
    /\ UNCHANGED <<team, issued, code>>

LoadCodes(c) ==
    /\ stage[c] = "start"
    /\ stage' = [stage EXCEPT ![c] = "token"]
    /\ UNCHANGED <<team, issued, code>>

\* A token the platform resolves within the time-out.
QueryTeamId(c) ==
    /\ stage[c] = "token"
    /\ \E k \in Tokens : team' = [team EXCEPT ![c] = TeamOf[k]]
    /\ stage' = [stage EXCEPT ![c] = "code"]
    /\ UNCHANGED <<issued, code>>

\* No token, an unknown one, or no usable answer.
NoTeamId(c) ==
    /\ stage[c] = "token"
    /\ Done(c)
    /\ UNCHANGED <<team, issued, code>>

WrongCode(c) ==
    /\ stage[c] = "code"
    /\ \E k \in TypedCodes \ CodeFile : code' = [code EXCEPT ![c] = k]
    /\ Done(c)
    /\ UNCHANGED <<team, issued>>

\* A number of more than 64 bits makes struct.pack raise.
RightCode(c) ==
    /\ stage[c] = "code"
    /\ \E k \in TypedCodes \cap CodeFile : code' = [code EXCEPT ![c] = k]
    /\ issued' = IF team[c] \in Ids
                 THEN [issued EXCEPT ![c] = EncodeUuid("speedrun", team[c])] ELSE issued
    /\ Done(c)
    /\ UNCHANGED team

\* The alarm, or the end of the connection.
CheckerEnds(c) ==
    /\ c \in Checkers /\ stage[c] \in {"start", "token", "code"}
    /\ Done(c)
    /\ UNCHANGED <<team, issued, code>>

(* netshare's controller: the number is read, the flag goes into the cluster. *)

ReadTeamId(c) ==
    /\ stage[c] = "team"
    /\ \E t \in TypedTeams \cap Ids : team' = [team EXCEPT ![c] = t]
    /\ stage' = [stage EXCEPT ![c] = "inject"]
    /\ UNCHANGED <<issued, code>>

InvalidTeamId(c) ==
    /\ stage[c] = "team"
    /\ Done(c)
    /\ UNCHANGED <<team, issued, code>>

InjectServiceAssertion(c) ==
    /\ stage[c] = "inject"
    /\ issued' = [issued EXCEPT ![c] = FlagGenerate("netshare", team[c])]
    /\ Done(c)
    /\ UNCHANGED <<team, code>>

\* The cluster is not made, or the connection ends before.
ClusterFails(c) ==
    /\ stage[c] = "inject"
    /\ Done(c)
    /\ UNCHANGED <<team, issued, code>>

FlagsInit ==
    /\ stage = [c \in Checkers \cup Clusters |-> IF c \in Checkers THEN "start" ELSE "team"]
    /\ team = [c \in Checkers \cup Clusters |-> NoTeam]
    /\ issued = [c \in Checkers \cup Clusters |-> <<>>]
    /\ code = [c \in Checkers \cup Clusters |-> NoTeam]

FlagsNext ==
    \E c \in Checkers \cup Clusters :
        \/ CheckerFails(c) \/ LoadCodes(c) \/ QueryTeamId(c) \/ NoTeamId(c)
        \/ WrongCode(c) \/ RightCode(c) \/ CheckerEnds(c)
        \/ ReadTeamId(c) \/ InvalidTeamId(c) \/ InjectServiceAssertion(c) \/ ClusterFails(c)

FlagsSpec == FlagsInit /\ [][FlagsNext]_flagVars

-----------------------------------------------------------------------------
ServiceOf(c) == IF c \in Checkers THEN "speedrun" ELSE "netshare"

\* "The platform decodes the UUID back to team_id for anti-sharing; a different team_id
\* yields a different flag" (kubeconfig.py:106): whoever holds a flag, decode_uuid names
\* the team it was made for, negative and extreme numbers included, the reference encoder
\* would have made the same ("equivalent to ... uuid_stego.py", kubeconfig.py:25), and two
\* connections hold the same flag only for the same team.  The checker gives none without
\* a code of the file.
FlagsNameTheirTeam ==
    \A c \in Checkers \cup Clusters : issued[c] # <<>> =>
        /\ DecodeUuid(ServiceOf(c), issued[c]) = team[c]
        /\ issued[c] = EncodeUuid(ServiceOf(c), team[c])
        /\ c \in Checkers => code[c] \in CodeFile
        /\ \A d \in Checkers \cup Clusters :
              ServiceOf(d) = ServiceOf(c) /\ issued[d] = issued[c] => team[d] = team[c]
=============================================================================
