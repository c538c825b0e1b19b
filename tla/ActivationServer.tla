---------------------------- MODULE ActivationServer ----------------------------
(***************************************************************************)
(* The server of encrypted-activation: deploy/wrap.py starts a task.py for *)
(* each connection and relays between them with two threads; task.py sends *)
(* encrypted inputs, ROUNDS times, and checks the encrypted outputs with   *)
(* the LWE decryption of fhe_core.py.                                      *)
(*                                                                         *)
(* Numbers are modulo ModQ, 2^64 in the code; a ciphertext on the wire is  *)
(* the sequence of its words: dimension, a word that is skipped, mask and  *)
(* body.  The masks of the inputs, which the client expands from a seed,   *)
(* and the rest of the key set-up are left out: client.bin is part of the  *)
(* image.                                                                  *)
(***************************************************************************)
EXTENDS Numerals, FiniteSets, SequencesExt

CONSTANTS
    Conns,       \* connections
    NRounds,     \* ROUNDS
    ModQ, ModP,  \* the ciphertext and the plaintext modulus
    Radix,       \* S
    Lut,         \* the table: a function from inputs to outputs
    Digits,      \* N_DIGITS
    SecretKey,   \* sk.lvl1: bits
    MaxZeros,    \* zeros a mask may have, 16 in the code
    MaxNoise,    \* of an evaluated output, either side of 0
    Sent         \* what clients send: see Made

Step == ModQ \div ModP     \* the code's delta
Inputs == DOMAIN Lut

\* LUT_SIZE = S ** N_DIGITS
LutSize == PowerOf(Radix, Digits)

ASSUME ActivationAssumption ==
    /\ {ModQ, ModP, Radix, Digits} \subseteq Nat \ {0} /\ {MaxZeros, MaxNoise} \subseteq Nat
    /\ Radix < ModP /\ Inputs = 0..(LutSize - 1) /\ \A x \in Inputs : Lut[x] \in Inputs
    /\ SecretKey \in Seq({0, 1}) /\ MaxZeros + 2 <= Len(SecretKey)
    /\ 2 * ModP * (MaxNoise + ModP) < ModQ           \* what a correct evaluation leaves
    /\ \A s \in Sent :
           /\ s.input \in Inputs /\ s.off \in Nat /\ s.mask \in Seq(0..(ModQ - 1))
           /\ s.noise \in (-MaxNoise)..MaxNoise
           /\ s.form \in {"whole", "tooFew", "cutOff"}

VARIABLES
    task,      \* "none", "ask", "listen", "exited"
    verdict,   \* why it exited
    round,     \* answers accepted
    input,     \* x
    net,       \* what the client has sent and t1 has not relayed
    stdin,     \* the task's input: lines and whether it is still open
    stdout,    \* lines printed and not read by t2
    held,      \* lines t2 has read and not sent
    got,       \* what the client has received
    client,    \* "open", "shut" (no more to send), "gone"
    up, down,  \* client_to_task and task_to_client: "on", "sending", "ended"
    closed,    \* handle has closed the connection
    fin,       \* the client has been told the end
    right,     \* history: rounds answered with encryptions of the outputs
    overtaken  \* history: closed before task_to_client was through

relayVars == <<net, stdin, stdout, held, got, client, up, down, closed, fin, overtaken>>
taskVars == <<task, verdict, round, input, right>>
activationVars == <<relayVars, taskVars>>

-----------------------------------------------------------------------------
(* fhe_core.py. *)

Inner(a) == LET sum[i \in 0..Len(a)] == IF i = 0 THEN 0 ELSE sum[i - 1] + a[i] * SecretKey[i]
            IN  sum[Len(a)]

LweEncrypt(a, m, noise) == [a |-> a, b |-> (Step * (m % ModP) + noise + Inner(a)) % ModQ]

\* Mutant: rounds towards zero.
LweDecryptTruncating(ct) == ((((ct.b - Inner(ct.a)) % ModQ) * ModP) \div ModQ) % ModP

LweDecrypt(ct) == ((((ct.b - Inner(ct.a)) % ModQ) * ModP + ModQ \div 2) \div ModQ) % ModP

Serialize(ct) == <<Len(ct.a), 0>> \o ct.a \o <<ct.b>>

\* Words that are missing are read as 0.
Parse(words) ==
    LET word(i) == IF i <= Len(words) THEN words[i] ELSE 0
    IN  [a |-> [i \in 1..word(1) |-> word(i + 2)], b |-> word(word(1) + 3)]

-----------------------------------------------------------------------------
(* task.py. *)

ExtractRadix(v) == DigitsOf(v, Radix, Digits)
CombineRadix(d) == ValueOf(d, Radix)

GoodMask(a) ==
    /\ Len(a) = Len(SecretKey)
    /\ Cardinality({i \in DOMAIN a : a[i] = 0}) <= MaxZeros
    /\ Cardinality(ToSet(a)) # 1

\* Whether the answer to x passes.
Passes(answer, x) ==
    /\ Len(answer) = Digits
    /\ \A i \in 1..Digits : GoodMask(Parse(answer[i]).a)
    /\ LET out == [i \in 1..Digits |-> LweDecrypt(Parse(answer[i]))]
       IN  (\A i \in 1..Digits : out[i] < Radix) /\ CombineRadix(out) = Lut[x]

Printed(c, line) == stdout' = [stdout EXCEPT ![c] = Append(@, line)]
Exit(c, why) ==
    /\ task' = [task EXCEPT ![c] = "exited"]
    /\ verdict' = [verdict EXCEPT ![c] = why]

Ask(c) ==
    /\ task[c] = "ask"
    /\ \E x \in Inputs :
          /\ input' = [input EXCEPT ![c] = x]
          /\ Printed(c, "ciphertext")
    /\ task' = [task EXCEPT ![c] = "listen"]
    /\ UNCHANGED <<verdict, round, right, net, stdin, held, got, client, up, down, closed, fin, overtaken>>

\* readline and the checks on it.
Listen(c) ==
    /\ task[c] = "listen"
    /\ stdin[c].lines # <<>>
    /\ LET line == Head(stdin[c].lines) IN
         /\ stdin' = [stdin EXCEPT ![c].lines = Tail(@)]
         /\ right' = [right EXCEPT ![c] =
                IF line.means = ExtractRadix(Lut[input[c]]) THEN @ + 1 ELSE @]
         /\ IF ~Passes(line.answer, input[c])
            THEN Exit(c, "wrong") /\ Printed(c, "wrong") /\ UNCHANGED round
            ELSE /\ round' = [round EXCEPT ![c] = @ + 1]
                 /\ IF round[c] + 1 = NRounds
                    THEN Exit(c, "flag") /\ Printed(c, "flag")
                    ELSE task' = [task EXCEPT ![c] = "ask"] /\ UNCHANGED <<verdict, stdout>>
    /\ UNCHANGED <<input, net, held, got, client, up, down, closed, fin, overtaken>>

\* The end of the input.
InputEnds(c) ==
    /\ task[c] = "listen"
    /\ stdin[c].lines = <<>> /\ ~stdin[c].open
    /\ Exit(c, "eof")
    /\ UNCHANGED <<round, input, right, relayVars>>

\* signal.alarm(120), wherever the task is.
Alarm(c) ==
    /\ task[c] \in {"ask", "listen"}
    /\ Exit(c, "timeout")
    /\ Printed(c, "timeout")
    /\ UNCHANGED <<round, input, right, net, stdin, held, got, client, up, down, closed, fin, overtaken>>

-----------------------------------------------------------------------------
(* wrap.py. *)

\* accept, the task, the two threads.
AcceptConn(c) ==
    /\ task[c] = "none"
    /\ task' = [task EXCEPT ![c] = "ask"]
    /\ UNCHANGED <<verdict, round, input, right, relayVars>>

\* The thread leaves its loop and closes the task's input.
UpEnds(c) ==
    /\ up' = [up EXCEPT ![c] = "ended"]
    /\ stdin' = [stdin EXCEPT ![c].open = FALSE]
    /\ fin' = [fin EXCEPT ![c] = @ \/ closed[c]]   \* the last reference to the connection

\* client_to_task has received something; a task that is gone takes no more.
UpRelays(c) ==
    /\ task[c] # "none" /\ up[c] = "on"
    /\ net[c] # <<>>
    /\ net' = [net EXCEPT ![c] = <<>>]
    /\ IF task[c] = "exited" THEN UpEnds(c)
       ELSE stdin' = [stdin EXCEPT ![c].lines = @ \o net[c]] /\ UNCHANGED <<up, fin>>
    /\ UNCHANGED <<taskVars, stdout, held, got, client, down, closed, overtaken>>

\* The client has no more to send, or is gone.
UpSeesEnd(c) ==
    /\ task[c] # "none" /\ up[c] = "on"
    /\ net[c] = <<>> /\ client[c] # "open"
    /\ UpEnds(c)
    /\ UNCHANGED <<taskVars, net, stdout, held, got, client, down, closed, overtaken>>

DownReads(c) ==
    /\ down[c] = "on"
    /\ stdout[c] # <<>>
    /\ held' = [held EXCEPT ![c] = stdout[c]]
    /\ stdout' = [stdout EXCEPT ![c] = <<>>]
    /\ down' = [down EXCEPT ![c] = "sending"]
    /\ UNCHANGED <<taskVars, net, stdin, got, client, up, closed, fin, overtaken>>

\* A closed connection, or a client that is gone, ends the thread.
DownSends(c) ==
    /\ down[c] = "sending"
    /\ held' = [held EXCEPT ![c] = <<>>]
    /\ IF closed[c] \/ client[c] = "gone"
       THEN down' = [down EXCEPT ![c] = "ended"] /\ UNCHANGED got
       ELSE /\ got' = [got EXCEPT ![c] = @ \o held[c]]
            /\ down' = [down EXCEPT ![c] = "on"]
    /\ UNCHANGED <<taskVars, net, stdin, stdout, client, up, closed, fin, overtaken>>

\* The task's output ends: shutdown(SHUT_WR), which fails on a closed connection.
DownEnds(c) ==
    /\ down[c] = "on"
    /\ task[c] = "exited" /\ stdout[c] = <<>>
    /\ down' = [down EXCEPT ![c] = "ended"]
    /\ fin' = [fin EXCEPT ![c] = @ \/ ~closed[c]]
    /\ UNCHANGED <<taskVars, net, stdin, stdout, held, got, client, up, closed, overtaken>>

\* handle goes on when the task is gone; the kernel keeps the connection while t1 receives.
CloseConn(c) ==
    /\ task[c] = "exited" /\ ~closed[c]
    /\ closed' = [closed EXCEPT ![c] = TRUE]
    /\ overtaken' = [overtaken EXCEPT ![c] = down[c] # "ended"]
    /\ fin' = [fin EXCEPT ![c] = @ \/ up[c] = "ended"]
    /\ UNCHANGED <<taskVars, net, stdin, stdout, held, got, client, up, down>>

-----------------------------------------------------------------------------
(* The client.  A line comes with what its ciphertexts were made to mean, <<>> for one  *)
(* that is no answer: masks that are refused, words or ciphertexts missing.             *)

\* The output of x, d too high in each digit, under the mask and with the noise given.
Line(x, d, mask, noise) ==
    LET digits == [i \in 1..Digits |-> (ExtractRadix(Lut[x])[i] + d) % ModP]
    IN  [answer |-> [i \in 1..Digits |-> Serialize(LweEncrypt(mask, digits[i], noise))],
         means |-> IF GoodMask(mask) THEN digits ELSE <<>>]
\* A ciphertext too few, and ciphertexts cut off within the mask.
TooFew(line) == [answer |-> Front(line.answer), means |-> <<>>]
CutOff(line) ==
    [answer |-> [i \in 1..Digits |-> SubSeq(line.answer[i], 1, 3)], means |-> <<>>]

Made(s) ==
    LET line == Line(s.input, s.off, s.mask, s.noise)
    IN  CASE s.form = "whole" -> line [] s.form = "tooFew" -> TooFew(line) [] s.form = "cutOff" -> CutOff(line)

\* Evaluated or guessed, after the question or ahead of it.
Sends(c) ==
    /\ client[c] = "open" /\ task[c] # "none"
    /\ net[c] = <<>> /\ stdin[c].lines = <<>>
    /\ \E s \in Sent : net' = [net EXCEPT ![c] = <<Made(s)>>]
    /\ UNCHANGED <<taskVars, stdin, stdout, held, got, client, up, down, closed, fin, overtaken>>

Leaves(c) ==
    /\ task[c] # "none" /\ client[c] # "gone"
    /\ \E how \in {"shut", "gone"} \ {client[c]} : client' = [client EXCEPT ![c] = how]
    /\ UNCHANGED <<taskVars, net, stdin, stdout, held, got, up, down, closed, fin, overtaken>>

-----------------------------------------------------------------------------
ActivationInit ==
    LET all(v) == [c \in Conns |-> v] IN
    /\ task = all("none") /\ verdict = all("none") /\ round = all(0) /\ input = all(0)
    /\ right = all(0)
    /\ net = all(<<>>) /\ stdin = all([lines |-> <<>>, open |-> TRUE])
    /\ stdout = all(<<>>) /\ held = all(<<>>) /\ got = all(<<>>)
    /\ client = all("open") /\ up = all("on") /\ down = all("on")
    /\ closed = all(FALSE) /\ fin = all(FALSE) /\ overtaken = all(FALSE)

ServerGoesOn(c) ==
    \/ Ask(c) \/ Listen(c) \/ InputEnds(c) \/ Alarm(c) \/ CloseConn(c)
    \/ UpRelays(c) \/ UpSeesEnd(c)
RelayGoesOn(c) == DownReads(c) \/ DownSends(c) \/ DownEnds(c)

ActivationNext ==
    \E c \in Conns :
        AcceptConn(c) \/ ServerGoesOn(c) \/ RelayGoesOn(c) \/ Sends(c) \/ Leaves(c)

\* Processes and threads run; nothing is assumed of the client.
ActivationSpec ==
    /\ ActivationInit /\ [][ActivationNext]_activationVars
    /\ \A c \in Conns : WF_activationVars(ServerGoesOn(c)) /\ WF_activationVars(RelayGoesOn(c))

-----------------------------------------------------------------------------
\* "Solve all rounds to get the flag" (encrypted-activation/README.md:13): the flag is for
\* the client that has sent encryptions of the outputs in each round, and none of them
\* within the noise bound is called wrong, whichever mask and noise the ciphertexts have
\* and wherever they were sent ahead of the question.
FlagForEvaluations ==
    \A c \in Conns :
        /\ verdict[c] = "flag" => right[c] = NRounds
        /\ verdict[c] = "wrong" => right[c] = round[c]

\* A client that stays is told the end of its session, silent or not, and a solver has the
\* flag by then.  Left out is the connection that handle closes, the task being gone,
\* before task_to_client has sent the rest: what is lost then may be the flag itself.
EndIsSeen ==
    \A c \in Conns :
        task[c] # "none" ~> \/ client[c] = "gone" \/ overtaken[c]
                            \/ fin[c] /\ (verdict[c] = "flag" => "flag" \in ToSet(got[c]))
=============================================================================
