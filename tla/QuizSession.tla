----------------------------- MODULE QuizSession -----------------------------
(***************************************************************************)
(* TsukisRhythmGame (deploy/app.py): questions in a row, the progress in a *)
(* session cookie that the server signs and does not remember.  A browser  *)
(* sends requests without waiting for the replies to the earlier ones, and *)
(* the replies come in any order; the last one that sets the cookie wins.  *)
(***************************************************************************)
EXTENDS Naturals, FiniteSets

CONSTANTS
    Total,       \* TOTAL, questions 0..Total - 1; an answer is the question it answers
    KeyIsSet,    \* SECRET_KEY is in the environment
    MaxAsks,     \* bound on the requests
    MaxReboots   \* bound on the restarts of the server

ASSUME QuizAssumption ==
    /\ Total \in Nat \ {0}
    /\ KeyIsSet \in BOOLEAN

VARIABLES
    signer,     \* app.secret_key
    cookie,     \* what the browser holds: [key, solved], NoCookie before
    asks,       \* requests on their way: [id, path, cookie, answer]
    replies,    \* replies on their way: [id, cookie, flagged]
    asked,      \* requests made
    reboots,    \* restarts of the server
    mastered,   \* history: the questions whose answer was found right
    won         \* a reply with the flag has been read

quizVars == <<signer, cookie, asks, replies, asked, reboots, mastered, won>>

\* In the browser: none; in a reply: no Set-Cookie.
NoCookie == [key |-> 0, solved |-> 0]
Questions == 0..(Total - 1)
NoAnswer == Total

-----------------------------------------------------------------------------
\* The session a request comes with: empty when this server has not signed the cookie.
Solved(c) == IF c.key = signer THEN c.solved ELSE 0
Signed(n) == [key |-> signer, solved |-> n]

Reply(r, c, flagged) ==
    /\ asks' = asks \ {r}
    /\ replies' = replies \cup {[id |-> r.id, cookie |-> c, flagged |-> flagged]}
    /\ UNCHANGED <<signer, cookie, asked, reboots, won>>

\* "solved" is set once, when the session has none.
ServeIndex(r) ==
    /\ r.path = "index"
    /\ Reply(r, IF r.cookie.key = signer THEN NoCookie ELSE Signed(0), FALSE)
    /\ UNCHANGED mastered

\* Mutant: the flag is given one answer early.
SubmitEarly(r) ==
    /\ r.path = "submit"
    /\ LET solved == Solved(r.cookie)
           right == solved < Total /\ r.answer = solved
       IN  /\ Reply(r, IF right THEN Signed(solved + 1) ELSE NoCookie, solved + 1 >= Total)
           /\ mastered' = IF right THEN mastered \cup {solved} ELSE mastered

\* An answer counts for the question the session has come to.
Submit(r) ==
    /\ r.path = "submit"
    /\ LET solved == Solved(r.cookie)
           right == solved < Total /\ r.answer = solved
           now == IF right THEN solved + 1 ELSE solved
       IN  /\ Reply(r, IF right THEN Signed(now) ELSE NoCookie, now >= Total)
           /\ mastered' = IF right THEN mastered \cup {solved} ELSE mastered

ServeReset(r) ==
    /\ r.path = "reset"
    /\ Reply(r, Signed(0), FALSE)
    /\ UNCHANGED mastered

\* What was on its way to the old process is lost.
Reboot ==
    /\ reboots < MaxReboots
    /\ reboots' = reboots + 1
    /\ signer' = IF KeyIsSet THEN signer ELSE signer + 1
    /\ asks' = {}
    /\ UNCHANGED <<cookie, replies, asked, mastered, won>>

-----------------------------------------------------------------------------
(* The browser. *)

Visit(path, answer) ==
    /\ asked < MaxAsks
    /\ asked' = asked + 1
    /\ asks' = asks \cup {[id |-> asked, path |-> path, cookie |-> cookie, answer |-> answer]}
    /\ UNCHANGED <<signer, cookie, replies, reboots, mastered, won>>

Receive(r) ==
    /\ cookie' = IF r.cookie = NoCookie THEN cookie ELSE r.cookie
    /\ won' = (won \/ r.flagged)
    /\ replies' = replies \ {r}
    /\ UNCHANGED <<signer, asks, asked, reboots, mastered>>

-----------------------------------------------------------------------------
QuizInit ==
    /\ signer = 1 /\ cookie = NoCookie
    /\ asks = {} /\ replies = {} /\ asked = 0 /\ reboots = 0
    /\ mastered = {} /\ won = FALSE

QuizNext ==
    \/ \E r \in asks : ServeIndex(r) \/ Submit(r) \/ ServeReset(r)
    \/ \E path \in {"index", "reset"} : Visit(path, NoAnswer)
    \/ \E answer \in Questions \cup {NoAnswer} : Visit("submit", answer)
    \/ \E r \in replies : Receive(r)
    \/ Reboot

QuizSpec == QuizInit /\ [][QuizNext]_quizVars

-----------------------------------------------------------------------------
\* The flag is earned: however requests and replies overtake one another, whatever cookie of
\* whatever process a request brings, a cookie that says n stands for n answers found right,
\* and a reply has the flag only when all of them were.
FlagIsEarned ==
    /\ \A c \in {cookie} \cup {r.cookie : r \in asks \cup replies} :
           0..(c.solved - 1) \subseteq mastered
    /\ won \/ (\E r \in replies : r.flagged) => mastered = Questions
=============================================================================
