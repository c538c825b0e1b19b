----------------------------- MODULE TicketRounds -----------------------------
(***************************************************************************)
(* r3ticket (deploy/chall.py): one number out of a list of secret ones, by *)
(* interpolation, and then rounds in which a secret exponent is to be told *)
(* within ANSWER_TIMEOUT.  The timer is SIGALRM: its handler may run until *)
(* the timer is cancelled, after the answer has been read.                 *)
(***************************************************************************)
EXTENDS Integers, Sequences

CONSTANTS
    Nums,         \* nums
    Indices,      \* indices a player may ask for
    Games,        \* 16 in the code
    Exponents,    \* what randbits(24) may give
    AnswerTimeout \* ANSWER_TIMEOUT

ASSUME TicketAssumption ==
    /\ Nums \in Seq(Nat)
    /\ Games \in Nat \ {0}
    /\ AnswerTimeout \in Nat
    /\ Indices \subseteq Int

VARIABLES
    game,     \* "index", "ready", "input", "read", "won", "lost", "slow", "failed"
    number,   \* <<index, number>>, <<>> before
    played,   \* rounds begun
    secret,   \* x
    alarm,    \* what is left of the timer, Off when it is not set
    typed,    \* what input returned
    hits      \* history: rounds whose answer was x

ticketVars == <<game, number, played, secret, alarm, typed, hits>>

Off == -1
NoNumber == -1

-----------------------------------------------------------------------------
\* Python's //, which rounds down whatever the signs.
FloorDiv(a, b) == IF b > 0 THEN a \div b ELSE (-a) \div (-b)

\* Mutant: the factor for j = i is not left out, and counts as 0.
FactorOfAll(index, i, j) == IF j = i THEN index - j ELSE FloorDiv(index - j, i - j)

\* Each factor is rounded down by itself; the one for j = i is left out.
Factor(index, i, j) == IF j = i THEN 1 ELSE FloorDiv(index - j, i - j)

\* The loops of get_num, after n of their turns.
Part(index, i) ==
    LET part[n \in 0..Len(Nums)] ==
            IF n = 0 THEN 1 ELSE part[n - 1] * Factor(index, i, n - 1)
    IN  part[Len(Nums)]

GetNum(index) ==
    LET result[n \in 0..Len(Nums)] ==
            IF n = 0 THEN 0 ELSE result[n - 1] + Part(index, n - 1) * Nums[n]
    IN  IF index > Len(Nums) - 1 THEN 0 ELSE result[Len(Nums)]

TellNumber ==
    /\ game = "index"
    /\ game' = "ready"
    /\ \E index \in Indices : number' = <<index, GetNum(index)>>
    /\ UNCHANGED <<played, secret, alarm, typed, hits>>

\* A new exponent, and timed_input sets the timer.
StartRound ==
    /\ game = "ready"
    /\ played < Games
    /\ game' = "input"
    /\ played' = played + 1
    /\ secret' \in Exponents
    /\ alarm' = AnswerTimeout
    /\ UNCHANGED <<number, typed, hits>>

TimerRuns ==
    /\ alarm > 0
    /\ alarm' = alarm - 1
    /\ UNCHANGED <<game, number, played, secret, typed, hits>>

\* SIGALRM: "Too slow...", also between the answer and the cancellation.
AlarmRings ==
    /\ alarm = 0
    /\ game \in {"input", "read"}
    /\ game' = "slow"
    /\ alarm' = Off
    /\ UNCHANGED <<number, played, secret, typed, hits>>

ReadAnswer ==
    /\ game = "input"
    /\ game' = "read"
    /\ typed' \in Exponents \cup {NoNumber}
    /\ UNCHANGED <<number, played, secret, alarm, hits>>

\* Mutant: the answer is compared with nothing but being a number.
CheckNumber ==
    /\ game = "read"
    /\ alarm' = Off
    /\ game' = IF typed = NoNumber THEN "failed" ELSE IF played = Games THEN "won" ELSE "ready"
    /\ hits' = IF typed = secret THEN hits + 1 ELSE hits
    /\ UNCHANGED <<number, played, secret, typed>>

\* finally: the timer is cancelled; then int() and the comparison.
CheckAnswer ==
    /\ game = "read"
    /\ alarm' = Off
    /\ game' = IF typed = NoNumber THEN "failed"
                ELSE IF typed # secret THEN "lost"
                ELSE IF played = Games THEN "won" ELSE "ready"
    /\ hits' = IF typed = secret THEN hits + 1 ELSE hits
    /\ UNCHANGED <<number, played, secret, typed>>

-----------------------------------------------------------------------------
TicketInit ==
    /\ game = "index" /\ number = <<>> /\ played = 0 /\ secret = NoNumber
    /\ alarm = Off /\ typed = NoNumber /\ hits = 0

TicketNext == TellNumber \/ StartRound \/ TimerRuns \/ AlarmRings \/ ReadAnswer \/ CheckAnswer

TicketSpec == TicketInit /\ [][TicketNext]_ticketVars

-----------------------------------------------------------------------------
\* The number told is the one of the list at that index although every factor is rounded by
\* itself, 0 beyond its end; and who gets the ticket has told the exponent of every round,
\* with no timer left behind from one round for the next.
TicketIsEarned ==
    /\ number # <<>> /\ number[1] >= 0 =>
           number[2] = IF number[1] < Len(Nums) THEN Nums[number[1] + 1] ELSE 0
    /\ game = "won" => hits = Games
    /\ game \notin {"input", "read"} => alarm = Off
=============================================================================
