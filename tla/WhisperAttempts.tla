--------------------------- MODULE WhisperAttempts ---------------------------
(***************************************************************************)
(* The attempt queue of the whisper judge (judge/worker.py): a request     *)
(* records an attempt and queues it, one worker thread scans for the flag, *)
(* and clients poll GET /result, which hands a captured flag out once.     *)
(*                                                                         *)
(* Results and flags are guarded by two different locks, so the worker's   *)
(* _finalize and a client's get_result are two sections each; the worker,  *)
(* the event loop (which enqueues) and the pool threads that serve /result *)
(* interleave at these sections.                                           *)
(***************************************************************************)
EXTENDS Naturals, Sequences

CONSTANTS Attempts,  \* attempt ids (uuid4, never reused)
          Readers,   \* concurrent GET /result requests
          None,
          QueueMax   \* maxsize of _attempt_queue

ASSUME AttemptAssumption ==
    /\ None \notin Attempts
    /\ QueueMax \in Nat \ {0}

VARIABLES
    results,   \* _results: "none" when there is no record
    request,   \* the enqueuing request: "new", "recorded", "accepted", "refused"
    waiting,   \* _attempt_queue
    running,   \* the attempt of the worker thread, or None
    captured,  \* the worker is inside _finalize(solved=True)
    pending,   \* _pending_flags
    reading,   \* the attempt a reader asked for, or None
    sawSolved, \* the record it read says solved
    handed     \* answers that carried the flag of an attempt

attemptVars == <<results, request, waiting, running, captured, pending, reading,
                 sawSolved, handed>>
readerVars == <<reading, sawSolved, handed>>

Finished == {"solved", "unsolved"}

-----------------------------------------------------------------------------
(* _enqueue, called by POST /submit and POST /attempt/provision: both are  *)
(* handled on the event loop, so only the worker and the readers run        *)
(* between its two parts.                                                   *)

\* The record is made first.
Record(a) ==
    /\ request[a] = "new"
    /\ \A b \in Attempts : request[b] # "recorded"
    /\ request' = [request EXCEPT ![a] = "recorded"]
    /\ results' = [results EXCEPT ![a] = "queued"]
    /\ UNCHANGED <<waiting, running, captured, pending, readerVars>>

\* Mutant: Full is swallowed.
PutSilently(a) ==
    /\ request[a] = "recorded"
    /\ waiting' = IF Len(waiting) < QueueMax THEN Append(waiting, a) ELSE waiting
    /\ request' = [request EXCEPT ![a] = "accepted"]
    /\ UNCHANGED <<results, running, captured, pending, readerVars>>

\* put_nowait: with a full queue the request answers 503.
Put(a) ==
    /\ request[a] = "recorded"
    /\ IF Len(waiting) < QueueMax
       THEN /\ waiting' = Append(waiting, a)
            /\ request' = [request EXCEPT ![a] = "accepted"]
       ELSE /\ request' = [request EXCEPT ![a] = "refused"]
            /\ UNCHANGED waiting
    /\ UNCHANGED <<results, running, captured, pending, readerVars>>

-----------------------------------------------------------------------------
(* worker_loop and _run_attempt. *)

Take ==
    /\ running = None
    /\ waiting # <<>>
    /\ running' = Head(waiting)
    /\ waiting' = Tail(waiting)
    /\ UNCHANGED <<results, request, captured, pending, readerVars>>

\* The scanner has no account, found nothing in ATTEMPT_TIMEOUT, or failed.
FinishUnsolved ==
    /\ running # None
    /\ ~captured
    /\ results' = [results EXCEPT ![running] = "unsolved"]
    /\ running' = None
    /\ UNCHANGED <<request, waiting, captured, pending, readerVars>>

\* _finalize(solved=True): the record, under _results_lock...
FinishSolved ==
    /\ running # None
    /\ ~captured
    /\ results' = [results EXCEPT ![running] = "solved"]
    /\ captured' = TRUE
    /\ UNCHANGED <<request, waiting, running, pending, readerVars>>

\* Mutant: storing the flag raises, and the handler rewrites the record.
StoreFlagRaises ==
    /\ captured
    /\ results' = [results EXCEPT ![running] = "unsolved"]
    /\ captured' = FALSE
    /\ running' = None
    /\ UNCHANGED <<request, waiting, pending, readerVars>>

\* ... then the flag, under _flags_lock.
StoreFlag ==
    /\ captured
    /\ pending' = pending \cup {running}
    /\ captured' = FALSE
    /\ running' = None
    /\ UNCHANGED <<results, request, waiting, readerVars>>

-----------------------------------------------------------------------------
(* get_result. *)

\* The record is read under _results_lock and copied.
ReadResult(r, a) ==
    /\ reading[r] = None
    /\ results[a] # "none"
    /\ reading' = [reading EXCEPT ![r] = a]
    /\ sawSolved' = [sawSolved EXCEPT ![r] = results[a] = "solved"]
    /\ UNCHANGED <<results, request, waiting, running, captured, pending, handed>>

\* Mutant: _pending_flags.get instead of pop.
AnswerKeeping(r) ==
    LET a == reading[r]
    IN  /\ a # None
        /\ reading' = [reading EXCEPT ![r] = None]
        /\ sawSolved' = [sawSolved EXCEPT ![r] = FALSE]
        /\ handed' = IF sawSolved[r] /\ a \in pending
                     THEN [handed EXCEPT ![a] = @ + 1] ELSE handed
        /\ UNCHANGED <<results, request, waiting, running, captured, pending>>

\* A solved one gets the flag if nobody has popped it.
Answer(r) ==
    LET a == reading[r]
        flagged == sawSolved[r] /\ a \in pending
    IN  /\ a # None
        /\ reading' = [reading EXCEPT ![r] = None]
        /\ sawSolved' = [sawSolved EXCEPT ![r] = FALSE]
        /\ pending' = IF flagged THEN pending \ {a} ELSE pending
        /\ handed' = IF flagged THEN [handed EXCEPT ![a] = @ + 1] ELSE handed
        /\ UNCHANGED <<results, request, waiting, running, captured>>

-----------------------------------------------------------------------------
AttemptInit ==
    /\ results = [a \in Attempts |-> "none"]
    /\ request = [a \in Attempts |-> "new"]
    /\ waiting = <<>>
    /\ running = None
    /\ captured = FALSE
    /\ pending = {}
    /\ reading = [r \in Readers |-> None]
    /\ sawSolved = [r \in Readers |-> FALSE]
    /\ handed = [a \in Attempts |-> 0]

WorkerStep == Take \/ FinishUnsolved \/ FinishSolved \/ StoreFlag

AttemptNext ==
    \/ \E a \in Attempts : Record(a) \/ Put(a)
    \/ WorkerStep
    \/ \E r \in Readers : Answer(r) \/ \E a \in Attempts : ReadResult(r, a)

\* The worker thread runs, and every scan ends within ATTEMPT_TIMEOUT.
AttemptSpec == AttemptInit /\ [][AttemptNext]_attemptVars /\ WF_attemptVars(WorkerStep)

-----------------------------------------------------------------------------
\* Types; a flag is pending only for a solved attempt.
AttemptTypeOK ==
    /\ results \in [Attempts -> Finished \cup {"none", "queued"}]
    /\ request \in [Attempts -> {"new", "recorded", "accepted", "refused"}]
    /\ waiting \in Seq(Attempts) /\ Len(waiting) <= QueueMax
    /\ running \in Attempts \cup {None}
    /\ captured \in BOOLEAN
    /\ pending \subseteq {a \in Attempts : results[a] = "solved"}
    /\ reading \in [Readers -> Attempts \cup {None}]
    /\ sawSolved \in [Readers -> BOOLEAN]
    /\ handed \in [Attempts -> Nat]

\* "stored for one-time retrieval" (worker.py:193): however many clients poll,
\* and whenever they read the record, the flag is handed out at most once and
\* is not lost before it has been handed out.
OneTimeRetrieval ==
    \A a \in Attempts :
        /\ handed[a] <= 1
        /\ results[a] = "solved" /\ running # a => (a \in pending <=> handed[a] = 0)

\* A record never goes back: a solved attempt stays solved for every later poll.
FinishedStands ==
    [][ \A a \in Attempts : results[a] \in Finished => results'[a] = results[a] ]_attemptVars

\* An attempt whose request was accepted is finished.
AcceptedFinish ==
    \A a \in Attempts : request[a] = "accepted" ~> results[a] \in Finished
=============================================================================
