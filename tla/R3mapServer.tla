------------------------------ MODULE R3mapServer ------------------------------
(***************************************************************************)
(* The server of r3map (r3map/attachment/server.py): one thread that takes *)
(* one client at a time through a proof of work and then relays between it *)
(* and a VM, run.sh under timeout(1) in a session of its own.              *)
(*                                                                         *)
(* timeout ends a VM after RUN_TIMEOUT_SEC and, once it has been told to   *)
(* end, kills it five seconds later; it exits when its child has: the two  *)
(* are one process here.  A SIGTERM or SIGINT to the server runs           *)
(* handle_signal between any two steps.                                    *)
(***************************************************************************)
EXTENDS Naturals

CONSTANTS Clients,
          NoProc      \* None of active_proc and of conn

ASSUME R3mapAssumption == NoProc \notin Clients

VARIABLES
    step,      \* where the thread is
    serving,   \* the client of handle_client
    active,    \* active_proc, named after its client
    vm,        \* "none", "up", "told" (SIGTERM), "killed" (SIGKILL), "dead"
    conn,      \* "none", "waiting" in the listen queue, "open", "closed"
    stopping,  \* KeyboardInterrupt is on its way to the bottom
    missed     \* history: the signal came while a VM had no clean-up ahead

r3mapVars == <<step, serving, active, vm, conn, stopping, missed>>
signalVars == <<stopping, missed>>

Running(c) == vm[c] \in {"up", "told", "killed"}

\* killpg, which does nothing to a group that is gone.
Signalled(c, how) == [vm EXCEPT ![c] = IF Running(c) THEN how ELSE @]

-----------------------------------------------------------------------------
\* The kernel queues a connection.
Arrive(c) ==
    /\ conn[c] = "none" /\ step # "exited"
    /\ conn' = [conn EXCEPT ![c] = "waiting"]
    /\ UNCHANGED <<step, serving, active, vm, signalVars>>

Accept(c) ==
    /\ step = "accept" /\ ~stopping
    /\ conn[c] = "waiting"
    /\ conn' = [conn EXCEPT ![c] = "open"]
    /\ serving' = c
    /\ step' = "pow"
    /\ UNCHANGED <<active, vm, signalVars>>

\* The end of `with conn', on every way out of handle_client.
Close ==
    /\ conn' = [conn EXCEPT ![serving] = "closed"]
    /\ serving' = NoProc
    /\ step' = IF stopping THEN "exited" ELSE "accept"

PowOk ==
    /\ step = "pow" /\ ~stopping
    /\ step' = "spawn"
    /\ UNCHANGED <<serving, active, vm, conn, signalVars>>

\* A wrong nonce, a line too long, or a client that left.
PowFails ==
    /\ step = "pow" /\ ~stopping
    /\ Close
    /\ UNCHANGED <<active, vm, signalVars>>

\* Mutant: recv_line waits for ever.
PowWaits == FALSE /\ UNCHANGED r3mapVars

\* POW_TIMEOUT_SEC for each of at most POW_NONCE_MAX bytes.
PowTimesOut ==
    /\ step = "pow" /\ ~stopping
    /\ Close
    /\ UNCHANGED <<active, vm, signalVars>>

\* relay_challenge.
Spawn ==
    /\ step = "spawn" /\ ~stopping
    /\ vm' = [vm EXCEPT ![serving] = "up"]
    /\ step' = "name"
    /\ UNCHANGED <<serving, active, conn, signalVars>>

SpawnFails ==
    /\ step = "spawn" /\ ~stopping
    /\ Close
    /\ UNCHANGED <<active, vm, signalVars>>

NameProc ==
    /\ step = "name" /\ ~stopping
    /\ active' = serving
    /\ step' = "relay"
    /\ UNCHANGED <<serving, vm, conn, signalVars>>

\* The client left or reads too slowly, or the VM takes no more input: terminate_proc.
ClientEnds ==
    /\ step = "relay" /\ ~stopping
    /\ vm' = Signalled(serving, "told")
    /\ step' = "term"
    /\ UNCHANGED <<serving, active, conn, signalVars>>

\* recv raises: the VM is still to be told.
ClientResets ==
    /\ step = "relay" /\ ~stopping
    /\ step' = "finally"
    /\ UNCHANGED <<serving, active, vm, conn, signalVars>>

\* poll() saw the VM exit; the rest of its output is relayed.
ChildEnds ==
    /\ step = "relay" /\ ~stopping
    /\ vm[serving] = "dead"
    /\ step' = "finally"
    /\ UNCHANGED <<serving, active, vm, conn, signalVars>>

\* The wait of terminate_proc: five seconds, then SIGKILL.
TermWait ==
    /\ step \in {"term", "term2"}
    /\ vm' = Signalled(serving, "killed")
    /\ step' = IF step = "term" THEN "finally" ELSE "reap"
    /\ UNCHANGED <<serving, active, conn, signalVars>>

Finally ==
    /\ step = "finally"
    /\ active' = IF active = serving THEN NoProc ELSE active
    /\ step' = "stop"
    /\ UNCHANGED <<serving, vm, conn, signalVars>>

\* The terminate_proc of the finally.
Stop ==
    /\ step = "stop"
    /\ vm' = Signalled(serving, "told")
    /\ step' = IF Running(serving) THEN "term2" ELSE "reap"
    /\ UNCHANGED <<serving, active, conn, signalVars>>

\* Mutant: the pipes are closed, and nobody waits.
ReapNothing ==
    /\ step = "reap"
    /\ Close
    /\ UNCHANGED <<active, vm, signalVars>>

\* proc.wait() returns.
Reap ==
    /\ step = "reap"
    /\ vm[serving] = "dead"
    /\ Close
    /\ UNCHANGED <<active, vm, signalVars>>

\* The guest powers off, timeout ends it, or a signal does.
VmExits(c) ==
    /\ Running(c)
    /\ vm' = [vm EXCEPT ![c] = "dead"]
    /\ UNCHANGED <<step, serving, active, conn, signalVars>>

\* handle_signal: terminate_proc of the active VM, then KeyboardInterrupt, which goes
\* through the finally from inside the try and skips the rest of it from inside the finally.
\* A second signal is left out.
Signal ==
    /\ ~stopping /\ step # "exited"
    /\ stopping' = TRUE
    /\ vm' = IF active = NoProc THEN vm ELSE Signalled(active, "killed")
    /\ step' = CASE step \in {"relay", "term"} -> "finally"
                 [] step = "accept" -> "exited"
                 [] OTHER -> "leave"
    /\ missed' = (active = NoProc /\ serving # NoProc /\ Running(serving))
    /\ UNCHANGED <<serving, active, conn>>

\* KeyboardInterrupt leaves handle_client.
Leave ==
    /\ step = "leave"
    /\ Close
    /\ UNCHANGED <<active, vm, signalVars>>
-----------------------------------------------------------------------------
R3mapInit ==
    /\ step = "accept"
    /\ serving = NoProc
    /\ active = NoProc
    /\ vm = [c \in Clients |-> "none"]
    /\ conn = [c \in Clients |-> "none"]
    /\ stopping = FALSE
    /\ missed = FALSE

\* What needs neither the client nor the guest.
ThreadStep ==
    \/ \E c \in Clients : Accept(c)
    \/ PowTimesOut
    \/ Spawn \/ SpawnFails \/ NameProc
    \/ ChildEnds \/ TermWait \/ Finally \/ Stop \/ Reap \/ Leave

R3mapNext ==
    \/ ThreadStep
    \/ PowOk \/ PowFails \/ ClientEnds \/ ClientResets \/ Signal
    \/ \E c \in Clients : Arrive(c) \/ VmExits(c)

\* The thread runs on, and timeout(1) lets no VM live for ever.  Nothing is assumed of the
\* clients.
R3mapSpec ==
    /\ R3mapInit /\ [][R3mapNext]_r3mapVars
    /\ WF_r3mapVars(ThreadStep)
    /\ \A c \in Clients : WF_r3mapVars(VmExits(c))

-----------------------------------------------------------------------------
\* A VM runs only for the client that is being served (the finally of relay_challenge,
\* handle_signal): the next client is not accepted before the last VM is gone, whether the
\* client, the guest, the time limit or a signal ended it.  Left out is the VM of a signal
\* that finds it unnamed (between Popen and active_proc, or in the finally): the end of
\* the container takes it.
VmOnlyForItsClient ==
    \A c \in Clients : Running(c) =>
        serving = c \/ (stopping /\ (vm[c] = "killed" \/ missed))

\* One client at a time, but none keeps the others waiting for ever, neither in the proof
\* of work nor with a VM that does not end (POW_TIMEOUT_SEC, RUN_TIMEOUT_SEC).
ClientsGetTheirTurn ==
    \A c \in Clients : conn[c] = "waiting" ~> (conn[c] # "waiting" \/ stopping)
=============================================================================
