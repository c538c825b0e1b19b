---------------------------- MODULE WhisperSystem ----------------------------
(***************************************************************************)
(* The victim pool together with its victim runners: one container per     *)
(* phone, whose entrypoint boots a wiped emulator, starts the control API  *)
(* (runner_api.py, a single-threaded HTTP server) and then watches both.   *)
(* The pool's threads reach a runner only through that server, so requests *)
(* are served one at a time, in the order their connections were accepted. *)
(***************************************************************************)
EXTENDS WhisperPool

CONSTANTS MaxInbox,   \* requests the server's listen backlog holds
          MaxDeaths   \* bound: failures of emulators and of the messenger app

ASSUME SystemAssumption ==
    /\ MaxInbox \in Nat \ {0}
    /\ MaxDeaths \in Nat
    /\ Handles > MaxInbox + 1

VARIABLES
    phone,     \* the container: "down" until READY, "up", "exiting" after /recycle
    inbox,     \* requests accepted by the control API and not handled yet
    handle,    \* the handle in /tmp/victim_handle, None: VICTIM_HANDLE
    flagFile,  \* the team whose flag is in /flag.txt, None: the baked one
    appAlive,  \* the messenger process runs
    deaths     \* failures so far

phoneVars  == <<phone, inbox, handle, flagFile, appAlive, deaths>>
systemVars == <<vars, phoneVars>>

HandleOrNone == 1..Handles \cup {None}
Request == [op : {"reset", "recycle"}, handle : HandleOrNone, flag : Teams \cup {None}]
Reset(h, f) == [op |-> "reset", handle |-> h, flag |-> f]
RecycleRequest == [op |-> "recycle", handle |-> None, flag |-> None]
SelfHeal == Reset(None, None)

Listening(i) == phone[i] # "down"

\* A connection to the control API: refused while nothing listens, dropped when
\* the backlog is full, else the request waits for its turn.
Send(i, request) ==
    inbox' = IF Listening(i) /\ Len(inbox[i]) < MaxInbox
             THEN [inbox EXCEPT ![i] = Append(@, request)]
             ELSE inbox

(***************************************************************************)
(* The pool's calls.                                                       *)
(***************************************************************************)

\* _reset_runner reads the live dict of the phone when its thread runs.
SendReset(i) ==
    /\ PostReset(i)
    /\ Send(i, Reset(identity[i], flag[i]))
    /\ UNCHANGED <<phone, handle, flagFile, appAlive, deaths>>

SendRecycle(i) ==
    /\ PostRecycle(i)
    /\ Send(i, RecycleRequest)
    /\ UNCHANGED <<phone, handle, flagFile, appAlive, deaths>>

\* Mutant: a phone is healthy only with a pushed flag on it.
HealthyIfFlagged(i) == Listening(i) /\ inbox[i] = <<>> /\ flagFile[i] # None

\* GET /health is answered in its turn, well within 8 s only if nothing is in
\* front of it; sys.boot_completed is 1 from READY until the emulator dies.
Healthy(i) == Listening(i) /\ inbox[i] = <<>>

AnswerHealth(i, booted) ==
    /\ booted => Healthy(i)
    /\ PollHealth(i, booted)
    /\ UNCHANGED phoneVars

(***************************************************************************)
(* The control API.                                                        *)
(***************************************************************************)

Pending(i, op) == Listening(i) /\ inbox[i] # <<>> /\ Head(inbox[i]).op = op

\* A reset with an identity stores it; a self-heal keeps what is in the files.
PersistIdentity(i, h) == handle' = [handle EXCEPT ![i] = IF h # None THEN h ELSE @]

\* Mutant: a self-heal writes the baked flag back.
WriteFlagOrBaked(i, f, outcome) ==
    flagFile' = [flagFile EXCEPT ![i] = IF outcome = "no flag" THEN @ ELSE f]

\* _write_flag, of a request that has a flag; one that fails at reading back
\* has written all the same.
WriteFlag(i, f, outcome) ==
    flagFile' = [flagFile EXCEPT ![i] = IF f = None \/ outcome = "no flag" THEN @ ELSE f]

\* whisperd and the app are restarted only after the flag is verified; the app
\* runs afterwards, signed in or not.
ProvisionApp(i, outcome) ==
    appAlive' = [appAlive EXCEPT ![i] = outcome = "done" \/ @]

\* _do_reset of a request with an identity (a lease) or without (self-heal).
\* "no flag": /flag.txt is missing, or not written, 500.  "unverified": it was
\* written, but reading it back failed, 500.  "done": the app is restarted,
\* signed in if the backend is reachable.
HandleReset(i, outcome) ==
    /\ Pending(i, "reset")
    /\ PersistIdentity(i, Head(inbox[i]).handle)
    /\ WriteFlag(i, Head(inbox[i]).flag, outcome)
    /\ ProvisionApp(i, outcome)
    /\ inbox' = [inbox EXCEPT ![i] = Tail(@)]
    /\ UNCHANGED <<vars, phone, deaths>>

\* /recycle answers, and os._exit follows a second later in a thread: until then
\* the server keeps serving.
HandleRecycle(i) ==
    /\ Pending(i, "recycle")
    /\ phone' = [phone EXCEPT ![i] = "exiting"]
    /\ inbox' = [inbox EXCEPT ![i] = Tail(@)]
    /\ UNCHANGED <<vars, handle, flagFile, appAlive, deaths>>

(***************************************************************************)
(* The container: entrypoint.sh and Docker's restart policy.               *)
(***************************************************************************)

GoDown(i) ==
    /\ phone' = [phone EXCEPT ![i] = "down"]
    /\ inbox' = [inbox EXCEPT ![i] = <<>>]

\* os._exit, then the watchdog loop sees the API gone and exits.
Exit(i) ==
    /\ phone[i] = "exiting"
    /\ GoDown(i)
    /\ UNCHANGED <<vars, handle, flagFile, appAlive, deaths>>

\* The emulator dies, or the API does: the loop exits, Docker restarts.
PhoneDies(i) ==
    /\ Listening(i)
    /\ deaths < MaxDeaths
    /\ deaths' = deaths + 1
    /\ GoDown(i)
    /\ UNCHANGED <<vars, handle, flagFile, appAlive>>

\* READY: data wiped, baked flag, the container's own identity, API started.  The
\* app is started only if the backend gave the account a token.
Boot(i) ==
    /\ phone[i] = "down"
    /\ phone' = [phone EXCEPT ![i] = "up"]
    /\ handle' = [handle EXCEPT ![i] = None]
    /\ flagFile' = [flagFile EXCEPT ![i] = None]
    /\ \E started \in BOOLEAN : appAlive' = [appAlive EXCEPT ![i] = started]
    /\ UNCHANGED <<vars, inbox, deaths>>

AppDies(i) ==
    /\ Listening(i)
    /\ appAlive[i]
    /\ deaths < MaxDeaths
    /\ deaths' = deaths + 1
    /\ appAlive' = [appAlive EXCEPT ![i] = FALSE]
    /\ UNCHANGED <<vars, phone, inbox, handle, flagFile>>

\* The watchdog loop posts /reset without a body and waits for the answer.
Watchdog(i) ==
    /\ phone[i] = "up"
    /\ ~appAlive[i]
    /\ \A k \in 1..Len(inbox[i]) : inbox[i][k] # SelfHeal
    /\ Send(i, SelfHeal)
    /\ UNCHANGED <<vars, phone, handle, flagFile, appAlive, deaths>>

-----------------------------------------------------------------------------
SystemInit ==
    /\ Init
    /\ phone = [i \in Instances |-> "down"]
    /\ inbox = [i \in Instances |-> <<>>]
    /\ handle = [i \in Instances |-> None]
    /\ flagFile = [i \in Instances |-> None]
    /\ appAlive = [i \in Instances |-> FALSE]
    /\ deaths = 0

Outcomes == {"done", "no flag", "unverified"}

RunnerStep(i) ==
    \/ HandleRecycle(i) \/ Exit(i) \/ Boot(i) \/ Watchdog(i)
    \/ \E outcome \in Outcomes : HandleReset(i, outcome)

\* The handles of earlier leases that a phone still knows or will hear of.
KnownHandles(i) == {handle[i]} \cup {inbox[i][k].handle : k \in 1..Len(inbox[i])}

\* _make_victim_identity: 12 random bytes never repeat a handle; the first one
\* that is forgotten stands for them.
FreshIdentities ==
    \A i \in Instances : holder[i] = None /\ holder'[i] # None =>
        First(identity'[i], 1..Handles \ KnownHandles(i))

\* A step of the judge that reaches no runner.
JudgeAlone == (PoolStep \/ JudgeRestart) /\ FreshIdentities /\ UNCHANGED phoneVars

SystemNext ==
    \/ JudgeAlone
    \/ \E i \in Instances :
          \/ SendReset(i) \/ SendRecycle(i)
          \/ \E booted \in BOOLEAN : AnswerHealth(i, booted)
          \/ RunnerStep(i) \/ PhoneDies(i) \/ AppDies(i)

SystemSpec == SystemInit /\ [][SystemNext]_systemVars

\* As in WhisperPool, except that a phone's answers are its own: a phone that
\* is asked again and again while it could answer does answer, and a reset that
\* is tried again and again (the watchdog's self-heal) succeeds in the end.
SystemFairness ==
    /\ WF_systemVars(ReaperStep /\ UNCHANGED phoneVars)
    /\ \A i \in Instances :
          /\ WF_systemVars(SendReset(i))
          /\ WF_systemVars(SendRecycle(i))
          /\ WF_systemVars(LeaseRunsOut(i) /\ UNCHANGED phoneVars)
          /\ WF_systemVars(RunnerStep(i))
          /\ WF_systemVars(\E booted \in BOOLEAN : AnswerHealth(i, booted))
          /\ SF_systemVars(AnswerHealth(i, TRUE))
          /\ SF_systemVars(HandleReset(i, "done"))

FairSystemSpec == SystemSpec /\ SystemFairness

-----------------------------------------------------------------------------
(***************************************************************************)
(* Properties.                                                             *)
(***************************************************************************)

\* Once a phone carries the identity and the flag of the lease it serves, it
\* keeps them until the lease ends or the phone goes down: neither a late reset
\* of an earlier lease nor the watchdog's self-heal puts anything else on it.
ProvisionStands ==
    [][ \A i \in Instances :
          /\ holder[i] # None /\ holder'[i] = holder[i]
          /\ phone[i] # "down" /\ phone'[i] # "down"
          /\ handle[i] = identity[i] /\ flagFile[i] = holder[i]
          => handle'[i] = identity[i] /\ flagFile'[i] = holder[i] ]_systemVars

\* A phone that was released or has just been configured becomes idle in the
\* pool's eyes, whatever happened to the recycle call.
PhonesComeBack ==
    \A i \in Instances : lifecycle[i] = "booting" ~> lifecycle[i] = "idle"

\* "only that team's victim carries it" (README.md:27): when no reset is on its
\* way to a running phone, the phone does not carry the flag of a team other
\* than the one it serves.
OnlyItsVictimCarriesIt ==
    \A i \in Instances :
        /\ holder[i] # None
        /\ resets[i] = 0 /\ Healthy(i)
        => flagFile[i] \in {None, holder[i]}
=============================================================================
