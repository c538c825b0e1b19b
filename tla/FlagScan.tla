------------------------------- MODULE FlagScan -------------------------------
(***************************************************************************)
(* The scan of the judge's worker (judge/worker.py, with register_account  *)
(* and poll_messages of whisper_deliver.py): again and again the scanner   *)
(* lists its conversations and reads the newest PageSize messages of each, *)
(* until a message carries the flag or the time is over.  Players write at *)
(* any time, also while it reads.                                          *)
(*                                                                         *)
(* One worker runs attempt after attempt, so a message that solved one is  *)
(* still there for the next.  A message is the list of the flags in it.    *)
(***************************************************************************)
EXTENDS Integers, Sequences, FiniteSets

CONSTANTS
    Chats,        \* conversations of the scanner's account
    RealFlag,     \* WHISPER_REAL_FLAG
    Texts,        \* bodies: sequences of flags
    PageSize,     \* 200
    Grace,        \* the seconds before its start that a scan looks back, 10
    ScanTimeout,  \* ATTEMPT_TIMEOUT
    MaxTexts,     \* bound on the messages
    MaxScans,     \* ... on the attempts
    MaxSeconds    \* ... on the clock

ASSUME FlagScanAssumption ==
    /\ {Grace, ScanTimeout} \subseteq Nat /\ PageSize \in Nat \ {0}
    /\ \A b \in Texts : b \in Seq(STRING)

VARIABLES
    seconds,   \* the clock
    texts,     \* messages of each conversation, oldest first: [at, body]
    started,   \* provision_ts of the running attempt
    listed,    \* conversations of this pass still to be read
    scanner,   \* "idle", "registering", "passing", "reading", "solved", "unsolved"
    found,     \* the message that solved the attempt: [chat, index], or NotFound
    covered,   \* history: of each conversation, how many messages the scan had before it when
               \* it last read it
    scans      \* attempts taken

scanVars == <<seconds, texts, started, listed, scanner, found, covered, scans>>

NotFound == [chat |-> "none", index |-> 0]

-----------------------------------------------------------------------------
(* Players and the clock. *)

WriteText(c, body) ==
    /\ Len(texts[c]) < MaxTexts
    /\ texts' = [texts EXCEPT ![c] = Append(@, [at |-> seconds, body |-> body])]
    /\ UNCHANGED <<seconds, started, listed, scanner, found, covered, scans>>

SecondPasses ==
    /\ seconds < MaxSeconds
    /\ seconds' = seconds + 1
    /\ UNCHANGED <<texts, started, listed, scanner, found, covered, scans>>

-----------------------------------------------------------------------------
(* _run_attempt. *)

BeginAttempt ==
    /\ scanner \in {"idle", "solved", "unsolved"}
    /\ scans < MaxScans
    /\ scans' = scans + 1
    /\ scanner' = "registering"
    /\ found' = NotFound
    /\ covered' = [c \in Chats |-> 0]
    /\ UNCHANGED <<seconds, texts, started, listed>>

\* POST /auth/register, which gives a known account its token again.
RegisterScanner ==
    /\ scanner = "registering"
    /\ scanner' = "passing"
    /\ started' = seconds
    /\ UNCHANGED <<seconds, texts, listed, found, covered, scans>>

\* No account, no scan.
NoAccount ==
    /\ scanner = "registering"
    /\ scanner' = "unsolved"
    /\ UNCHANGED <<seconds, texts, started, listed, found, covered, scans>>

\* The deadline is looked at before each pass, and GET /conversations may fail.
BeginPass ==
    /\ scanner = "passing"
    /\ IF seconds < started + ScanTimeout
       THEN \/ scanner' = "reading" /\ listed' = Chats
            \/ UNCHANGED <<scanner, listed>>
       ELSE scanner' = "unsolved" /\ UNCHANGED listed
    /\ UNCHANGED <<seconds, texts, started, found, covered, scans>>

\* FLAG_RE.search finds the first flag of a body and no other.
Accepted(body) ==
    /\ body # <<>>
    /\ RealFlag # ""
    /\ body[1] = RealFlag

\* Mutant: the page is not cut to the messages of this attempt.
PolledEver(c) ==
    {i \in 1..Len(texts[c]) : i > Len(texts[c]) - PageSize}

\* poll_messages: the newest page, then the messages after the start, less the grace.
Polled(c) ==
    {i \in 1..Len(texts[c]) : /\ i > Len(texts[c]) - PageSize
                              /\ texts[c][i].at > started - Grace}

ReadChat(c) ==
    LET hits == {i \in Polled(c) : Accepted(texts[c][i].body)}
    IN  /\ scanner = "reading"
        /\ c \in listed
        /\ covered' = [covered EXCEPT ![c] = Len(texts[c])]
        /\ IF hits # {}
           THEN /\ scanner' = "solved"
                /\ \E i \in hits : found' = [chat |-> c, index |-> i]
                /\ listed' = {}
           ELSE /\ listed' = listed \ {c}
                /\ scanner' = IF listed = {c} THEN "passing" ELSE "reading"
                /\ UNCHANGED found
        /\ UNCHANGED <<seconds, texts, started, scans>>

\* A request of the pass fails: the rest of it is given up.
ScanError ==
    /\ scanner = "reading"
    /\ scanner' = "passing"
    /\ listed' = {}
    /\ UNCHANGED <<seconds, texts, started, found, covered, scans>>

-----------------------------------------------------------------------------
ScanInit ==
    /\ seconds = 0
    /\ texts = [c \in Chats |-> <<>>]
    /\ started = 0
    /\ listed = {}
    /\ scanner = "idle"
    /\ found = NotFound
    /\ covered = [c \in Chats |-> 0]
    /\ scans = 0

ScanNext ==
    \/ \E c \in Chats : ReadChat(c) \/ \E b \in Texts : WriteText(c, b)
    \/ SecondPasses
    \/ BeginAttempt
    \/ RegisterScanner
    \/ NoAccount
    \/ BeginPass
    \/ ScanError

ScanSpec == ScanInit /\ [][ScanNext]_scanVars

-----------------------------------------------------------------------------
\* An attempt is solved by a message with the judge's flag that is not older than its own
\* start by the grace, whoever else's attempt that message may have solved before; and an
\* unsolved one has overlooked none that a read of its conversation had before it, unless
\* newer messages have pushed it off the page, or it begins with another flag.
CapturesAreFresh ==
    /\ scanner = "solved" =>
           LET m == texts[found.chat][found.index]
           IN  m.at > started - Grace /\ m.body # <<>> /\ m.body[1] = RealFlag
    /\ scanner = "unsolved" /\ RealFlag # "" =>
           \A c \in Chats : \A i \in 1..covered[c] :
               \/ texts[c][i].at <= started - Grace
               \/ i <= Len(texts[c]) - PageSize
               \/ texts[c][i].body = <<>>
               \/ texts[c][i].body[1] # RealFlag
=============================================================================
