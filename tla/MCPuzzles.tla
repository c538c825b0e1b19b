------------------------------ MODULE MCPuzzles ------------------------------
(***************************************************************************)
(* The puzzle servers, side by side: rECp1cG, inside, TsukisRhythmGame and *)
(* r3ticket.  They share nothing; a behaviour is one of a server, chosen   *)
(* at the start.                                                           *)
(***************************************************************************)
EXTENDS CurveWalk, RlweSigma, QuizSession, TicketRounds

VARIABLE puzzle

puzzleVars == <<puzzle, walkVars, sigmaVars, quizVars, ticketVars>>

-----------------------------------------------------------------------------
MCCurveDraws == {<<1, 1>>, <<2, 7>>, <<60, 1>>}

\* Secrets of inside: with and without terms that wrap around.
Coefficients(first, second) == [i \in 0..1 |-> IF i = 0 THEN first ELSE second]
MCSecrets ==
    {[a |-> a, s |-> s, e |-> Coefficients(1, -1)] :
        a \in {Coefficients(0, 1), Coefficients(-2, 1)}, s \in [0..1 -> -1..1]}

MCNums == <<7, 0, 12, 5, 9>>
MCIndices == (-2)..6

-----------------------------------------------------------------------------
PuzzlesInit ==
    /\ puzzle \in {"walk", "sigma", "quiz", "ticket"}
    /\ WalkInit /\ SigmaInit /\ QuizInit /\ TicketInit

PuzzlesNext ==
    \/ puzzle = "walk" /\ WalkNext /\ UNCHANGED <<puzzle, sigmaVars, quizVars, ticketVars>>
    \/ puzzle = "sigma" /\ SigmaNext /\ UNCHANGED <<puzzle, walkVars, quizVars, ticketVars>>
    \/ puzzle = "quiz" /\ QuizNext /\ UNCHANGED <<puzzle, walkVars, sigmaVars, ticketVars>>
    \/ puzzle = "ticket" /\ TicketNext /\ UNCHANGED <<puzzle, walkVars, sigmaVars, quizVars>>
=============================================================================
