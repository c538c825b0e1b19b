-------------------------- MODULE TrustedHashPortal --------------------------
(***************************************************************************)
(* The player portal of trustedhash (trusted_hash_portal/src/main.rs): one *)
(* pod per team, whose HTTP handlers create and restart a qemu VM.  Each   *)
(* request runs in a blocking thread of its own; the threads share the     *)
(* runtime state (one mutex, taken for a few assignments at a time), the   *)
(* VM directory and the fixed host ports.                                  *)
(*                                                                         *)
(* A request is used once and then done.  A process is named after what    *)
(* spawned it: "private" and "public" by create_vm, a restart by itself.   *)
(* The periodic attester, which only reads the VM, is left out.            *)
(***************************************************************************)
EXTENDS Naturals, FiniteSets

CONSTANTS Starts,       \* POST /api/start requests
          Restarts,     \* POST /api/restart requests
          None,
          MaxSlow,      \* bound: boots that take longer than the 180 s wait
          MaxDeaths,    \* bound: VMs that exit by themselves
          MaxCrashes    \* bound: restarts of the pod

ASSUME PortalAssumption ==
    /\ Starts \cap Restarts = {}
    /\ {None, "private", "public"} \cap (Starts \cup Restarts) = {}
    /\ None \notin {"private", "public"}
    /\ {MaxSlow, MaxDeaths, MaxCrashes} \subseteq Nat

Publics == {"public"} \cup Restarts
Pids == {"private"} \cup Publics

VARIABLES
    start,     \* where the thread of each start is
    restart,   \* where the thread of each restart is
    old,       \* old_pid of a restart
    phase,     \* portal.phase
    vm,        \* portal.vm is Some
    child,     \* public_child
    vmDir,     \* vm_dir exists
    guest,     \* the start whose root password the guest's disk holds
    digest,    \* the start whose password root-password.digest is of
    record,    \* public_child in portal-vm.json, None: no such file
    pidFile,   \* public-qemu.pid
    told,      \* starts that answered with credentials
    proc,      \* the process groups of start-vm
    overlapped,  \* history: a restart was let in during another
    slow, deaths, crashes

requestVars == <<start, restart, old, overlapped>>
memoryVars  == <<phase, vm, child>>
diskVars    == <<vmDir, guest, digest, record, pidFile>>
boundVars   == <<slow, deaths, crashes>>
vars == <<requestVars, memoryVars, diskVars, told, proc, boundVars>>

Phases == {"not_created", "creating", "ready", "restarting", "failed"}
StartSteps == {"new", "checked", "admitted", "making", "made", "provisioning",
               "provisioned", "waiting", "reached", "digested", "recorded",
               "created", "failing", "done"}
RestartSteps == {"new", "matched", "stopping", "stopped", "spawned", "waiting",
                 "reached", "failing", "done"}

Alive(p) == proc[p] \in {"starting", "serving"}
Reachable == \E p \in Pids : proc[p] = "serving"

StartGoes(s, from, to) == start[s] = from /\ start' = [start EXCEPT ![s] = to]
RestartGoes(r, from, to) == restart[r] = from /\ restart' = [restart EXCEPT ![r] = to]

Spawn(p) == proc' = [proc EXCEPT ![p] = "starting"]
\* stop_child: SIGTERM, then SIGKILL; no error if the group is gone.
StopChild(p) == proc' = [q \in Pids |-> IF q = p /\ Alive(q) THEN "dead" ELSE proc[q]]

\* wait_for_tcp on the agent's port gives up: nothing answered for 180 s,
\* because the VM p is slow or because it is gone.
GivesUp(p) ==
    /\ ~Reachable
    /\ IF Alive(p) THEN slow < MaxSlow /\ slow' = slow + 1 ELSE UNCHANGED slow

-----------------------------------------------------------------------------
(* start_handler and create_vm. *)

\* The first locked section; a refused request is done.
CheckStart(s) ==
    /\ \/ phase # "creating" /\ ~vm /\ StartGoes(s, "new", "checked")
       \/ (phase = "creating" \/ vm) /\ StartGoes(s, "new", "done")
    /\ UNCHANGED <<restart, old, overlapped, memoryVars, diskVars, told, proc, boundVars>>

\* The second one.
AdmitStart(s) ==
    /\ StartGoes(s, "checked", "admitted")
    /\ phase' = "creating"
    /\ UNCHANGED <<restart, old, overlapped, vm, child, diskVars, told, proc, boundVars>>

\* vm_dir.exists().
LookForDir(s) ==
    /\ StartGoes(s, "admitted", IF vmDir THEN "failing" ELSE "making")
    /\ UNCHANGED <<restart, old, overlapped, memoryVars, diskVars, told, proc, boundVars>>

\* Mutant: `mkdir -p' in the create-vm script.
MakeDirAnyway(s, ok) ==
    /\ StartGoes(s, "making", IF ok THEN "made" ELSE "failing")
    /\ vmDir' = TRUE
    /\ UNCHANGED <<restart, old, overlapped, memoryVars, guest, digest, record, pidFile,
                   told, proc, boundVars>>

\* The create-vm script: its mkdir fails when the directory exists, and it may
\* fail after that.
MakeDir(s, ok) ==
    /\ StartGoes(s, "making", IF ok /\ ~vmDir THEN "made" ELSE "failing")
    /\ vmDir' = TRUE
    /\ UNCHANGED <<restart, old, overlapped, memoryVars, guest, digest, record, pidFile,
                   told, proc, boundVars>>

SpawnPrivate(s) ==
    /\ StartGoes(s, "made", "provisioning")
    /\ Spawn("private")
    /\ UNCHANGED <<restart, old, overlapped, memoryVars, diskVars, told, boundVars>>

\* The PCR profiles are captured and the guest stores the new root password.
Provision(s) ==
    /\ StartGoes(s, "provisioning", "provisioned")
    /\ proc["private"] = "serving"
    /\ guest' = s
    /\ StopChild("private")
    /\ UNCHANGED <<restart, old, overlapped, memoryVars, vmDir, digest, record, pidFile, told,
                   boundVars>>

\* The wait, a capture or the password request failed; the guest may have
\* stored the password although its answer was lost.
ProvisionFails(s) ==
    /\ StartGoes(s, "provisioning", "failing")
    /\ \/ GivesUp("private") /\ UNCHANGED guest
       \/ Reachable /\ guest' \in {guest, s} /\ UNCHANGED slow
    /\ StopChild("private")
    /\ UNCHANGED <<restart, old, overlapped, memoryVars, vmDir, digest, record, pidFile, told,
                   deaths, crashes>>

SpawnPublic(s) ==
    /\ StartGoes(s, "provisioned", "waiting")
    /\ Spawn("public")
    /\ pidFile' = "public"
    /\ UNCHANGED <<restart, old, overlapped, memoryVars, vmDir, guest, digest, record, told,
                   boundVars>>

PublicReached(s) ==
    /\ StartGoes(s, "waiting", "reached")
    /\ Reachable
    /\ UNCHANGED <<restart, old, overlapped, memoryVars, diskVars, told, proc, boundVars>>

\* The public VM is left as it is.
PublicNotReached(s) ==
    /\ StartGoes(s, "waiting", "failing")
    /\ GivesUp("public")
    /\ UNCHANGED <<restart, old, overlapped, memoryVars, diskVars, told, proc, deaths, crashes>>

WriteDigest(s) ==
    /\ StartGoes(s, "reached", "digested")
    /\ digest' = s
    /\ UNCHANGED <<restart, old, overlapped, memoryVars, vmDir, guest, record, pidFile, told, proc,
                   boundVars>>

SaveRecord(s) ==
    /\ StartGoes(s, "digested", "recorded")
    /\ record' = "public"
    /\ UNCHANGED <<restart, old, overlapped, memoryVars, vmDir, guest, digest, pidFile, told, proc,
                   boundVars>>

PublishVm(s) ==
    /\ StartGoes(s, "recorded", "created")
    /\ vm' = TRUE
    /\ phase' = "ready"
    /\ child' = "public"
    /\ UNCHANGED <<restart, old, overlapped, diskVars, told, proc, boundVars>>

\* Only this answer carries the credentials.
AnswerStart(s) ==
    /\ StartGoes(s, "created", "done")
    /\ told' = told \cup {s}
    /\ UNCHANGED <<restart, old, overlapped, memoryVars, diskVars, proc, boundVars>>

\* Mutant: the handler answers without recording the failure.
FailStartSilently(s) ==
    /\ StartGoes(s, "failing", "done")
    /\ UNCHANGED <<restart, old, overlapped, memoryVars, diskVars, told, proc, boundVars>>

FailStart(s) ==
    /\ StartGoes(s, "failing", "done")
    /\ phase' = "failed"
    /\ UNCHANGED <<restart, old, overlapped, vm, child, diskVars, told, proc, boundVars>>

-----------------------------------------------------------------------------
(* restart_handler and restart_vm. *)

Alone == \A q \in Restarts : restart[q] \in {"new", "done"}

\* Mutant: any password is accepted.
CheckNoPassword(r) ==
    /\ overlapped' = (overlapped \/ ~Alone)
    /\ RestartGoes(r, "new", "matched")
    /\ UNCHANGED <<start, old, memoryVars, diskVars, told, proc, boundVars>>

\* The player sends the password that was handed out, if any, or a wrong one;
\* without a digest file the check fails too.
CheckPassword(r) ==
    /\ overlapped' = (overlapped \/ ~Alone)
    /\ \/ digest \in told /\ RestartGoes(r, "new", "matched")
       \/ RestartGoes(r, "new", "failing")
    /\ UNCHANGED <<start, old, memoryVars, diskVars, told, proc, boundVars>>

\* Mutant: the pid is read and not taken, hence not stopped either.
TakeNothing(r) ==
    /\ RestartGoes(r, "matched", "stopping")
    /\ phase' = "restarting"
    /\ UNCHANGED <<start, old, overlapped, vm, child, diskVars, told, proc, boundVars>>

TakeChild(r) ==
    /\ RestartGoes(r, "matched", "stopping")
    /\ phase' = "restarting"
    /\ old' = [old EXCEPT ![r] = child]
    /\ child' = None
    /\ UNCHANGED <<start, overlapped, vm, diskVars, told, proc, boundVars>>

StopOld(r) ==
    /\ RestartGoes(r, "stopping", "stopped")
    /\ StopChild(old[r])
    /\ UNCHANGED <<start, old, overlapped, memoryVars, diskVars, told, boundVars>>

SpawnAgain(r) ==
    /\ RestartGoes(r, "stopped", "spawned")
    /\ Spawn(r)
    /\ UNCHANGED <<start, old, overlapped, memoryVars, diskVars, told, boundVars>>

WritePid(r) ==
    /\ RestartGoes(r, "spawned", "waiting")
    /\ pidFile' = r
    /\ UNCHANGED <<start, old, overlapped, memoryVars, vmDir, guest, digest, record, told, proc,
                   boundVars>>

\* Any VM that answers on the port will do.
AgainReached(r) ==
    /\ RestartGoes(r, "waiting", "reached")
    /\ Reachable
    /\ UNCHANGED <<start, old, overlapped, memoryVars, diskVars, told, proc, boundVars>>

\* The new VM is left as it is, and nobody remembers it.
AgainNotReached(r) ==
    /\ RestartGoes(r, "waiting", "failing")
    /\ GivesUp(r)
    /\ UNCHANGED <<start, old, overlapped, memoryVars, diskVars, told, proc, deaths, crashes>>

PublishChild(r) ==
    /\ RestartGoes(r, "reached", "done")
    /\ child' = r
    /\ phase' = "ready"
    /\ UNCHANGED <<start, old, overlapped, vm, diskVars, told, proc, boundVars>>

\* A refused password is a failure like any other.
FailRestart(r) ==
    /\ RestartGoes(r, "failing", "done")
    /\ phase' = "failed"
    /\ UNCHANGED <<start, old, overlapped, vm, child, diskVars, told, proc, boundVars>>

-----------------------------------------------------------------------------
(* The VMs and the pod. *)

\* start-vm: qemu forwards the fixed host ports, or exits when another VM has
\* them.
BindPorts(p) ==
    /\ proc[p] = "starting"
    /\ proc' = [proc EXCEPT ![p] = IF Reachable THEN "dead" ELSE "serving"]
    /\ UNCHANGED <<requestVars, memoryVars, diskVars, told, boundVars>>

\* The guest powers off, or qemu fails: nobody watches the process.
VmDies(p) ==
    /\ Alive(p)
    /\ deaths < MaxDeaths
    /\ deaths' = deaths + 1
    /\ proc' = [proc EXCEPT ![p] = "dead"]
    /\ UNCHANGED <<requestVars, memoryVars, diskVars, told, slow, crashes>>

\* The pod restarts, orderly (shutdown_signal stops the VM) or not: processes,
\* requests and memory are gone, the volume stays, restore_existing_vm runs.
PodRestart ==
    /\ crashes < MaxCrashes
    /\ crashes' = crashes + 1
    /\ proc' = [p \in Pids |-> IF Alive(p) THEN "dead" ELSE proc[p]]
    /\ start' = [s \in Starts |-> IF start[s] = "new" THEN "new" ELSE "done"]
    /\ restart' = [r \in Restarts |-> IF restart[r] = "new" THEN "new" ELSE "done"]
    /\ vm' = (record # None)
    /\ phase' = IF record # None THEN "ready" ELSE "not_created"
    /\ child' = IF record = None THEN None ELSE IF pidFile # None THEN pidFile ELSE record
    /\ UNCHANGED <<old, overlapped, diskVars, told, slow, deaths>>

-----------------------------------------------------------------------------
Init ==
    /\ start = [s \in Starts |-> "new"]
    /\ restart = [r \in Restarts |-> "new"]
    /\ old = [r \in Restarts |-> None]
    /\ phase = "not_created"
    /\ vm = FALSE
    /\ child = None
    /\ vmDir = FALSE
    /\ guest = None
    /\ digest = None
    /\ record = None
    /\ pidFile = None
    /\ told = {}
    /\ proc = [p \in Pids |-> "none"]
    /\ overlapped = FALSE
    /\ slow = 0 /\ deaths = 0 /\ crashes = 0

StartStep(s) ==
    \/ AdmitStart(s) \/ LookForDir(s) \/ SpawnPrivate(s)
    \/ \E ok \in BOOLEAN : MakeDir(s, ok)
    \/ Provision(s) \/ ProvisionFails(s) \/ SpawnPublic(s)
    \/ PublicReached(s) \/ PublicNotReached(s)
    \/ WriteDigest(s) \/ SaveRecord(s) \/ PublishVm(s)
    \/ AnswerStart(s) \/ FailStart(s)

RestartStep(r) ==
    \/ TakeChild(r) \/ StopOld(r) \/ SpawnAgain(r) \/ WritePid(r)
    \/ AgainReached(r) \/ AgainNotReached(r) \/ PublishChild(r) \/ FailRestart(r)

Next ==
    \/ \E s \in Starts : CheckStart(s) \/ StartStep(s)
    \/ \E r \in Restarts : CheckPassword(r) \/ RestartStep(r)
    \/ \E p \in Pids : BindPorts(p) \/ VmDies(p)
    \/ PodRestart

Spec == Init /\ [][Next]_vars

\* Admitted requests run to their end (their waits have timeouts; the scripts
\* and the attester are assumed to return), and qemu starts or fails.
Fairness ==
    /\ \A s \in Starts : WF_vars(StartStep(s))
    /\ \A r \in Restarts : WF_vars(RestartStep(r))
    /\ \A p \in Pids : WF_vars(BindPorts(p))

FairSpec == Spec /\ Fairness

-----------------------------------------------------------------------------
(* Properties. *)

\* Types; the memory never shows a VM the disk has no record of.
TypeOK ==
    /\ start \in [Starts -> StartSteps]
    /\ restart \in [Restarts -> RestartSteps]
    /\ overlapped \in BOOLEAN
    /\ old \in [Restarts -> Publics \cup {None}]
    /\ phase \in Phases
    /\ vm \in BOOLEAN /\ (vm => record # None)
    /\ child \in Publics \cup {None}
    /\ vmDir \in BOOLEAN
    /\ {guest, digest} \subseteq Starts \cup {None}
    /\ {record, pidFile} \subseteq Publics \cup {None}
    /\ told \subseteq Starts
    /\ proc \in [Pids -> {"none", "starting", "serving", "dead"}]
    /\ slow \in 0..MaxSlow /\ deaths \in 0..MaxDeaths /\ crashes \in 0..MaxCrashes

\* "Only after that setup completes, it restarts QEMU" in public mode
\* (deployment-services.md:80): no VM is public before the guest has its root
\* password, nor while the provisioning VM runs, whatever restarts are sent.
PublicAfterSetup ==
    \A p \in Publics : Alive(p) => guest # None /\ ~Alive("private")

\* Credentials are handed out once, and they are those of the guest's disk and
\* of the digest restarts are checked against -- although two starts can pass
\* the checks of start_handler and of create_vm together.
PasswordsAgree ==
    /\ digest # None => digest = guest
    /\ told \subseteq {digest}

\* A portal does not stay in a transient phase: the threads that set it set
\* another one in the end, in whatever order overlapping requests finish.
PhaseSettles == phase \in {"creating", "restarting"} ~> phase \notin {"creating", "restarting"}

\* "owns exactly one VM" (deployment-services.md:66): at most one public VM is
\* alive, and none that a ready portal does not know.
OwnsOneVM ==
    /\ \A p, q \in Publics : Alive(p) /\ Alive(q) => p = q
    /\ \A p \in Publics : phase = "ready" /\ Alive(p) => child = p

\* What holds of it: as long as restarts come one after the other and no wait for
\* a VM has given up, not even a pod restart or the death of a VM breaks it.
SerialOwnsOneVM == ~overlapped /\ slow = 0 => OwnsOneVM
=============================================================================
