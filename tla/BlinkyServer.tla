----------------------------- MODULE BlinkyServer -----------------------------
(***************************************************************************)
(* The submission server of blinky (blinky/deploy/server/server.py): one   *)
(* thread per request, MAX_CONC simulations at a time.  A post is read,    *)
(* waits two seconds at most for a slot, has its lines spliced under the   *)
(* server's kernel, whose key is drawn anew, and is simulated.             *)
(*                                                                         *)
(* A memory image maps lines to contents.  An upload is the sequence of    *)
(* its records, an address and a content each; "short" is the content of   *)
(* an address at the very end, "bad" one that is not 128 hex digits.  A raw *)
(* binary is the sequence of its lines from 0.                             *)
(***************************************************************************)
EXTENDS Naturals, Sequences, FiniteSets, Functions

CONSTANTS Posts,       \* requests to /submit
          MaxConc,     \* MAX_CONC
          KernelLine,  \* KERNEL_LINE
          Template,    \* the kernel image of KERNEL_TEMPLATE
          Sentinel,    \* the content of the line that holds PAC_KEY_SENTINEL
          Submissions  \* the uploads made

\* "the kernel owns line >= KERNEL_LINE" of the template too (server.py:184).
ASSUME BlinkyAssumption ==
    /\ MaxConc \in Nat \ {0} /\ KernelLine \in Nat
    /\ \A n \in DOMAIN Template : n \in Nat /\ n >= KernelLine
    /\ \A up \in Submissions : up \in Seq([line : Nat, content : STRING])

VARIABLES
    at,      \* where the thread of a request is
    upload,  \* the body of a request
    free,    \* value of _sem
    memory,  \* memory.mem in the directory of a run, <<>> without a directory
    sim,     \* the simulator of a run: "none", "up", "exited"
    httpStatus   \* the answer, 0 for none

blinkyVars == <<at, upload, free, memory, sim, httpStatus>>

\* Keys are 64 random bits, each run's own: the key of p's run is called p.
Key(p) == p

-----------------------------------------------------------------------------
(* parse_submission, kernel_records and the splice. *)

\* What the first bad record raises.
ParseError(up) ==
    LET bad == {i \in DOMAIN up : up[i].content \in {"bad", "short"}}
        first == CHOOSE i \in bad : \A j \in bad : i <= j
    IN  IF bad = {} THEN "none"
        ELSE IF up[first].content = "bad" THEN "ValueError" ELSE "IndexError"

\* The later record of a line counts.
Contents(up) ==
    [n \in {up[i].line : i \in DOMAIN up} |->
        up[CHOOSE i \in DOMAIN up :
              up[i].line = n /\ \A j \in DOMAIN up : up[j].line = n => j <= i].content]

\* Mutant: kernel lines of the upload are kept.
AllLines(up) == Contents(up)

UserLines(up) == Restrict(Contents(up), {n \in DOMAIN Contents(up) : n < KernelLine})

\* _replace_dword_le: the first line found with the sentinel is the only one patched.
PatchedLine == CHOOSE n \in DOMAIN Template : Template[n] = Sentinel

KernelRecords(p) ==
    [n \in DOMAIN Template |-> IF n = PatchedLine THEN Key(p) ELSE Template[n]]

\* combined.update(user).
Combined(p, user) ==
    [n \in DOMAIN user \cup DOMAIN Template |->
        IF n \in DOMAIN user THEN user[n] ELSE KernelRecords(p)[n]]

\* Why run_submission raises before it starts the simulator.
Raised(up) ==
    CASE ParseError(up) # "none" -> ParseError(up)
      [] UserLines(up) = <<>> -> "ValueError"
      [] Sentinel \notin Range(Template) -> "RuntimeError"
      [] OTHER -> "none"

-----------------------------------------------------------------------------
(* do_POST. *)

Respond(p, code) ==
    /\ httpStatus' = [httpStatus EXCEPT ![p] = code]
    /\ at' = [at EXCEPT ![p] = "answered"]

\* A post whose Content-Length is in 1..MAX_UPLOAD.
Post(p) ==
    /\ at[p] = "none"
    /\ \E up \in Submissions : upload' = [upload EXCEPT ![p] = up]
    /\ at' = [at EXCEPT ![p] = "reading"]
    /\ UNCHANGED <<free, memory, sim, httpStatus>>

TooLong(p) ==
    /\ at[p] = "none"
    /\ Respond(p, 413)
    /\ UNCHANGED <<upload, free, memory, sim>>

\* rfile.read returns when the body is there, or with what came before the client left.
ReadBody(p) ==
    /\ at[p] = "reading"
    /\ \E k \in 0..Len(upload[p]) : upload' = [upload EXCEPT ![p] = SubSeq(@, 1, k)]
    /\ at' = [at EXCEPT ![p] = "waiting"]
    /\ UNCHANGED <<free, memory, sim, httpStatus>>

Acquire(p) ==
    /\ at[p] = "waiting"
    /\ free > 0
    /\ free' = free - 1
    /\ at' = [at EXCEPT ![p] = "running"]
    /\ UNCHANGED <<upload, memory, sim, httpStatus>>

\* No slot within two seconds.
Busy(p) ==
    /\ at[p] = "waiting"
    /\ free = 0
    /\ Respond(p, 503)
    /\ UNCHANGED <<upload, free, memory, sim>>

\* Mutant: the slot comes back only from a run that returned.
RejectKeepsSlot(p) ==
    /\ at[p] = "running" /\ sim[p] = "none"
    /\ Raised(upload[p]) # "none"
    /\ Respond(p, IF Raised(upload[p]) = "ValueError" THEN 400 ELSE 500)
    /\ UNCHANGED <<upload, free, memory, sim>>

\* run_submission raises before there is a directory.
Reject(p) ==
    /\ at[p] = "running" /\ sim[p] = "none"
    /\ Raised(upload[p]) # "none"
    /\ Respond(p, IF Raised(upload[p]) = "ValueError" THEN 400 ELSE 500)
    /\ free' = free + 1
    /\ UNCHANGED <<upload, memory, sim>>

\* The directory, memory.mem and the simulator in it.
Launch(p) ==
    /\ at[p] = "running" /\ sim[p] = "none"
    /\ Raised(upload[p]) = "none"
    /\ memory' = [memory EXCEPT ![p] = Combined(p, UserLines(upload[p]))]
    /\ sim' = [sim EXCEPT ![p] = "up"]
    /\ UNCHANGED <<at, upload, free, httpStatus>>

\* No directory, no space in it, or no process.
LaunchFails(p) ==
    /\ at[p] = "running" /\ sim[p] = "none"
    /\ Raised(upload[p]) = "none"
    /\ Respond(p, 500)
    /\ free' = free + 1
    /\ UNCHANGED <<upload, memory, sim>>

SimExits(p) ==
    /\ sim[p] = "up"
    /\ sim' = [sim EXCEPT ![p] = "exited"]
    /\ UNCHANGED <<at, upload, free, memory, httpStatus>>

\* The end of a run: the directory goes, then the slot comes back.
EndRun(p) ==
    /\ Respond(p, 200)
    /\ memory' = [memory EXCEPT ![p] = <<>>]
    /\ free' = free + 1
    /\ UNCHANGED upload

Collect(p) ==
    /\ at[p] = "running" /\ sim[p] = "exited"
    /\ EndRun(p)
    /\ UNCHANGED sim

\* subprocess.run kills and reaps the simulator; its output so far is the answer.
TimesOut(p) ==
    /\ at[p] = "running" /\ sim[p] = "up"
    /\ EndRun(p)
    /\ sim' = [sim EXCEPT ![p] = "exited"]

-----------------------------------------------------------------------------
BlinkyInit ==
    /\ at = [p \in Posts |-> "none"]
    /\ upload = [p \in Posts |-> <<>>]
    /\ free = MaxConc
    /\ memory = [p \in Posts |-> <<>>]
    /\ sim = [p \in Posts |-> "none"]
    /\ httpStatus = [p \in Posts |-> 0]

\* What the server does of itself: the thread of p goes on.
ServerStep(p) ==
    \/ Acquire(p) \/ Busy(p) \/ Reject(p) \/ Launch(p) \/ LaunchFails(p)
    \/ Collect(p) \/ TimesOut(p)

BlinkyNext == \E p \in Posts : Post(p) \/ TooLong(p) \/ ReadBody(p) \/ ServerStep(p) \/ SimExits(p)

\* Threads run, and every wait of theirs but the one for the body has a time-out.
BlinkySpec ==
    BlinkyInit /\ [][BlinkyNext]_blinkyVars /\ \A p \in Posts : WF_blinkyVars(ServerStep(p))

-----------------------------------------------------------------------------
\* "The player NEVER controls the kernel region" (server.py:9): every image in use is
\* the server's from KernelLine on, with this run's own key ("the correct PAC tag differs
\* each run", server.py:61), and the player's own last word below it, whatever other
\* submissions run.
KernelStands ==
    \A p \in Posts : sim[p] = "up" =>
        /\ \A n \in DOMAIN memory[p] : n >= KernelLine =>
              n \in DOMAIN Template /\ memory[p][n] = KernelRecords(p)[n]
        /\ DOMAIN Template \subseteq DOMAIN memory[p]
        /\ Key(p) \in Range(memory[p])
        /\ \A n \in DOMAIN memory[p] : n < KernelLine =>
              \E i \in DOMAIN upload[p] :
                 /\ upload[p][i] = [line |-> n, content |-> memory[p][n]]
                 /\ \A j \in DOMAIN upload[p] : j > i => upload[p][j].line # n

\* MAX_CONC bounds the simulators, on every way out of a run (do_POST's finally,
\* run_submission's time-out): each has a request that waits for it and a slot, a
\* directory lasts as long as its simulator, and all slots are back at rest.
SlotsBalance ==
    LET up == {p \in Posts : sim[p] = "up"}
        busy == {p \in Posts : at[p] = "running"}
    IN  /\ up \subseteq busy /\ Cardinality(up) <= MaxConc
        /\ free + Cardinality(busy) = MaxConc
        /\ \A p \in Posts : memory[p] # <<>> => p \in busy

\* A request that has been read is answered, however many others are being read, simulated
\* or stuck: a slow upload holds no slot, and a simulation that spins is cut off.
PostsAnswered == \A p \in Posts : at[p] = "waiting" ~> at[p] = "answered"


\* A run is its own, whatever runs beside it: it boots the server's kernel with its own key
\* and code, and gives back its slot, its directory and its simulator on every way out.
RunsAreTheirOwn == KernelStands /\ SlotsBalance
=============================================================================
