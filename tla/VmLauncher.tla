------------------------------ MODULE VmLauncher ------------------------------
(***************************************************************************)
(* The launchers of the babycom and someday guests (run.py): each loops     *)
(* over cycles of one fresh VM.  A cycle guards the public port, picks a    *)
(* free loopback port, boots QEMU with its SSH forwarded there, rotates the *)
(* passwords over SSH, replaces the guard by a proxy and checks the result  *)
(* through it.  Launchers share the host, so they can meet on a loopback    *)
(* port; a launcher may be replaced by another one of the same public port  *)
(* (OPS.md, section 5), which then has the same passwords.                  *)
(*                                                                         *)
(* Sockets: with SO_REUSEADDR a bound guard conflicts only with a listener. *)
(* A slow guest is one that never answers before its time-out ("hung").     *)
(***************************************************************************)
EXTENDS Naturals

CONSTANTS Launchers, PublicPorts, LocalPorts,
          MaxFaults  \* bound on the faults of a behaviour

ASSUME LauncherAssumption == MaxFaults \in Nat \ {0} /\ "bootstrap" \notin PublicPorts

VARIABLES
    public,    \* --ssh-port of a launcher; the passwords go with it
    stage,     \* where run.py is
    ending,    \* why the cycle ends: "none", "cycle", "error", "term"
    local,     \* bootstrap_port
    qemu,      \* "none", "starting", "up" (its forward is bound), "dead"
    proxy,     \* likewise; "up" once it listens
    hung,      \* the guest never answers
    password,  \* of the guest: "bootstrap", or those of a public port
    admin,     \* the launchers (one at most) whose guest the SSH session is in
    lost,      \* loopback ports on which a QEMU ended after its poll
    replaced,  \* SIGTERM was sent
    torn,      \* SIGTERM cut the finally short
    faults     \* faults so far

launcherVars == <<public, stage, ending, local, qemu, proxy, hung, password,
                  admin, lost, replaced, torn, faults>>
childVars == <<qemu, proxy, hung, password>>
fixed == <<public, replaced, torn>>

Guests(e) == {v \in Launchers : qemu[v] = "up" /\ local[v] = e}
Proxies(p) == {k \in Launchers : proxy[k] = "up" /\ public[k] = p}
Answering(e) == {v \in Guests(e) : ~hung[v]}

Goto(l, s) == stage' = [stage EXCEPT ![l] = s]
Blame == faults' = IF faults < MaxFaults THEN faults + 1 ELSE faults

\* raise RuntimeError inside the try: the finally runs, then run.py exits.
Fail(l) ==
    /\ Goto(l, "stopProxy")
    /\ ending' = [ending EXCEPT ![l] = "error"]

\* The sessions end with their guest.
HangUp(v) == admin' = [k \in Launchers |-> admin[k] \ {v}]

-----------------------------------------------------------------------------
(* One cycle. *)

\* multirun.py and run_one.sh start a launcher after stopping the one it
\* replaces.
StartLauncher(l) ==
    /\ stage[l] = "idle"
    /\ \A k \in Launchers \ {l} :
           public[k] = public[l] => stage[k] = "idle" \/ replaced[k]
    /\ Goto(l, "reserve")
    /\ UNCHANGED <<fixed, ending, local, childVars, admin, lost, faults>>

Reserve(l) ==
    /\ stage[l] = "reserve"
    /\ Proxies(public[l]) = {}
    /\ Goto(l, "pick")
    /\ UNCHANGED <<fixed, ending, local, childVars, admin, lost, faults>>

\* 30 seconds outlast a proxy that is being stopped, not one left behind.
ReserveFails(l) ==
    /\ stage[l] = "reserve"
    /\ \E k \in Proxies(public[l]) : torn[k]
    /\ Goto(l, "exited")
    /\ ending' = [ending EXCEPT ![l] = "error"]
    /\ UNCHANGED <<fixed, local, childVars, admin, lost, faults>>

\* The guard of the loopback port is closed at once: until its QEMU has bound
\* the port, another launcher may pick it too, the fault of "met" ports.
PickPort(l, e) ==
    /\ stage[l] = "pick"
    /\ Guests(e) = {}
    /\ local' = [local EXCEPT ![l] = e]
    /\ Goto(l, "spawn")
    /\ IF \E k \in Launchers : local[k] = e /\ (stage[k] = "spawn" \/ qemu[k] = "starting")
       THEN Blame ELSE UNCHANGED faults
    /\ UNCHANGED <<fixed, ending, childVars, admin, lost>>

\* Mutant: the guest keeps the previous cycle's disk.
SpawnKeepsDisk(l) ==
    /\ stage[l] = "spawn"
    /\ qemu' = [qemu EXCEPT ![l] = "starting"]
    /\ Goto(l, "poll")
    /\ UNCHANGED <<fixed, ending, local, proxy, hung, password, admin, lost, faults>>

\* snapshot=on: the guest starts from the base image.
SpawnQemu(l) ==
    /\ stage[l] = "spawn"
    /\ qemu' = [qemu EXCEPT ![l] = "starting"]
    /\ password' = [password EXCEPT ![l] = "bootstrap"]
    /\ \/ UNCHANGED <<hung, faults>>
       \/ /\ faults < MaxFaults
          /\ hung' = [hung EXCEPT ![l] = TRUE]
          /\ Blame
    /\ Goto(l, "poll")
    /\ UNCHANGED <<fixed, ending, local, proxy, admin, lost>>

\* QEMU binds its forward, or exits because the port is taken.
QemuBinds(l) ==
    /\ qemu[l] = "starting"
    /\ IF Guests(local[l]) = {}
       THEN /\ qemu' = [qemu EXCEPT ![l] = "up"]
            /\ UNCHANGED lost
       ELSE /\ qemu' = [qemu EXCEPT ![l] = "dead"]
            /\ lost' = IF stage[l] = "poll" THEN lost ELSE lost \cup {local[l]}
    /\ UNCHANGED <<fixed, stage, ending, local, proxy, hung, password, admin, faults>>

QemuDies(l) ==
    /\ qemu[l] = "up"
    /\ faults < MaxFaults
    /\ qemu' = [qemu EXCEPT ![l] = "dead"]
    /\ lost' = IF stage[l] = "poll" THEN lost ELSE lost \cup {local[l]}
    /\ HangUp(l)
    /\ Blame
    /\ UNCHANGED <<fixed, stage, ending, local, proxy, hung, password>>

\* Mutant: the result of the poll is not looked at.
PollNothing(l) ==
    /\ stage[l] = "poll"
    /\ Goto(l, "banner")
    /\ UNCHANGED ending
    /\ UNCHANGED <<fixed, local, childVars, admin, lost, faults>>

\* One poll, a second after the start: a QEMU that is still starting passes.
PollQemu(l) ==
    /\ stage[l] = "poll"
    /\ IF qemu[l] = "dead" THEN Fail(l)
       ELSE Goto(l, "banner") /\ UNCHANGED ending
    /\ UNCHANGED <<fixed, local, childVars, admin, lost, faults>>

\* The banner of whichever guest the port leads to; a guest takes longer to
\* boot than a QEMU to bind its forward, or a replaced launcher to stop its
\* children (at most five seconds each).
AwaitBanner(l) ==
    /\ stage[l] = "banner"
    /\ qemu[l] # "starting"
    /\ \A k \in Launchers \ {l} : public[k] = public[l] => stage[k] \in {"idle", "exited"}
    /\ Answering(local[l]) # {}
    /\ Goto(l, "login")
    /\ UNCHANGED <<fixed, ending, local, childVars, admin, lost, faults>>

\* Mutant: no time-out while the process lives.
BannerNeverTimesOut(l) ==
    /\ stage[l] = "banner"
    /\ qemu[l] = "dead"
    /\ Answering(local[l]) = {}
    /\ Fail(l)
    /\ UNCHANGED <<fixed, local, childVars, admin, lost, faults>>

BannerTimesOut(l) ==
    /\ stage[l] = "banner"
    /\ qemu[l] # "starting"
    /\ Answering(local[l]) = {}
    /\ Fail(l)
    /\ UNCHANGED <<fixed, local, childVars, admin, lost, faults>>

\* ssh_connect as the bootstrap administrator; a refused password is final,
\* and a guest that is gone times out.
LogIn(l) ==
    /\ stage[l] = "login"
    /\ \/ \E v \in Answering(local[l]) :
              /\ password[v] = "bootstrap"
              /\ admin' = [admin EXCEPT ![l] = {v}]
              /\ Goto(l, "provision")
              /\ UNCHANGED ending
       \/ /\ \A v \in Answering(local[l]) : password[v] # "bootstrap"
          /\ Fail(l)
          /\ UNCHANGED admin
    /\ UNCHANGED <<fixed, local, childVars, lost, faults>>

\* The uploads and provision.ps1, in the guest logged in to.
Provision(l) ==
    /\ stage[l] = "provision"
    /\ \E v \in admin[l] : password' = [password EXCEPT ![v] = public[l]]
    /\ admin' = [admin EXCEPT ![l] = {}]
    /\ Goto(l, "check")
    /\ UNCHANGED <<fixed, ending, local, qemu, proxy, hung, lost, faults>>

\* The passwords provision.ps1 may leave behind: it sets them first, and any of
\* its steps may throw.
ScriptLeaves(l) == {"bootstrap", public[l]}

\* The session ends with its guest, or the script fails.
ProvisionFails(l) ==
    /\ stage[l] = "provision"
    /\ \/ admin[l] = {} /\ UNCHANGED <<password, faults>>
       \/ /\ faults < MaxFaults
          /\ Blame
          /\ \E v \in admin[l], p \in ScriptLeaves(l) :
                 password' = [password EXCEPT ![v] = p]
    /\ admin' = [admin EXCEPT ![l] = {}]
    /\ Fail(l)
    /\ UNCHANGED <<fixed, local, qemu, proxy, hung, lost>>

\* Both accounts log in with their new passwords; then the guard is closed and
\* the proxy started.
CheckAndStartProxy(l) ==
    /\ stage[l] = "check"
    /\ IF \E v \in Answering(local[l]) : password[v] = public[l]
       THEN /\ Goto(l, "pollProxy")
            /\ proxy' = [proxy EXCEPT ![l] = "starting"]
            /\ UNCHANGED ending
       ELSE Fail(l) /\ UNCHANGED proxy
    /\ UNCHANGED <<fixed, local, qemu, hung, password, admin, lost, faults>>

ProxyBinds(l) ==
    /\ proxy[l] = "starting"
    /\ proxy' = [proxy EXCEPT ![l] = IF Proxies(public[l]) = {} THEN "up" ELSE "dead"]
    /\ UNCHANGED <<fixed, stage, ending, local, qemu, hung, password, admin, lost, faults>>

PollProxy(l) ==
    /\ stage[l] = "pollProxy"
    /\ proxy[l] # "starting"
    /\ IF proxy[l] = "dead" THEN Fail(l)
       ELSE Goto(l, "verify") /\ UNCHANGED ending
    /\ UNCHANGED <<fixed, local, childVars, admin, lost, faults>>

\* Through the public port: both accounts, and not the bootstrap password.
Verify(l) ==
    /\ stage[l] = "verify"
    /\ IF \E k \in Proxies(public[l]) :
              \E v \in Answering(local[k]) : password[v] = public[l]
       THEN Goto(l, "serving") /\ UNCHANGED ending
       ELSE Fail(l)
    /\ UNCHANGED <<fixed, local, childVars, admin, lost, faults>>

\* --timeout (or the random first interval) is over.
EndCycle(l) ==
    /\ stage[l] = "serving"
    /\ Goto(l, "stopProxy")
    /\ ending' = [ending EXCEPT ![l] = "cycle"]
    /\ UNCHANGED <<fixed, local, childVars, admin, lost, faults>>

-----------------------------------------------------------------------------
(* The finally, and what follows it. *)

StopProxy(l) ==
    /\ stage[l] = "stopProxy"
    /\ proxy' = [proxy EXCEPT ![l] = "none"]
    /\ Goto(l, "stopQemu")
    /\ UNCHANGED <<fixed, ending, local, qemu, hung, password, admin, lost, faults>>

\* Mutant: QEMU is stopped only at the end of a cycle.
StopQemuOfCycle(l) ==
    /\ stage[l] = "stopQemu"
    /\ qemu' = [qemu EXCEPT ![l] = IF ending[l] = "error" THEN @ ELSE "none"]
    /\ hung' = [hung EXCEPT ![l] = FALSE]
    /\ HangUp(l)
    /\ Goto(l, IF ending[l] = "cycle" THEN "pause" ELSE "exited")
    /\ UNCHANGED <<fixed, ending, local, proxy, password, lost, faults>>

\* A full cycle is followed by the next one, anything else ends run.py.
StopQemu(l) ==
    /\ stage[l] = "stopQemu"
    /\ qemu' = [qemu EXCEPT ![l] = "none"]
    /\ hung' = [hung EXCEPT ![l] = FALSE]
    /\ HangUp(l)
    /\ Goto(l, IF ending[l] = "cycle" THEN "pause" ELSE "exited")
    /\ UNCHANGED <<fixed, ending, local, proxy, password, lost, faults>>

NextCycle(l) ==
    /\ stage[l] = "pause"
    /\ Goto(l, "reserve")
    /\ ending' = [ending EXCEPT ![l] = "none"]
    /\ UNCHANGED <<fixed, local, childVars, admin, lost, faults>>

\* SIGTERM raises SystemExit where run.py is: in the try the finally follows,
\* in the finally the rest of it is skipped, elsewhere there is nothing to do.
Terminate(l) ==
    /\ stage[l] \notin {"idle", "exited"}
    /\ replaced' = [replaced EXCEPT ![l] = TRUE]
    /\ admin' = [admin EXCEPT ![l] = {}]
    /\ ending' = [ending EXCEPT ![l] = "term"]
    /\ Goto(l, IF stage[l] \in {"reserve", "pick", "pause", "stopProxy", "stopQemu"}
               THEN "exited" ELSE "stopProxy")
    /\ IF stage[l] \in {"stopProxy", "stopQemu"}
       THEN torn' = [torn EXCEPT ![l] = TRUE] /\ Blame
       ELSE UNCHANGED <<torn, faults>>
    /\ UNCHANGED <<public, local, childVars, lost>>

-----------------------------------------------------------------------------
LauncherInit ==
    /\ public \in [Launchers -> PublicPorts]
    /\ stage = [l \in Launchers |-> "idle"]
    /\ ending = [l \in Launchers |-> "none"]
    /\ \E e \in LocalPorts : local = [l \in Launchers |-> e]
    /\ qemu = [l \in Launchers |-> "none"]
    /\ proxy = [l \in Launchers |-> "none"]
    /\ hung = [l \in Launchers |-> FALSE]
    /\ password = [l \in Launchers |-> "bootstrap"]
    /\ admin = [l \in Launchers |-> {}]
    /\ lost = {}
    /\ replaced = [l \in Launchers |-> FALSE]
    /\ torn = [l \in Launchers |-> FALSE]
    /\ faults = 0

\* What runs by itself: run.py up to serving, its finally, and its children.
Progress(l) ==
    \/ Reserve(l) \/ ReserveFails(l) \/ \E e \in LocalPorts : PickPort(l, e)
    \/ SpawnQemu(l) \/ PollQemu(l) \/ AwaitBanner(l) \/ BannerTimesOut(l)
    \/ LogIn(l) \/ Provision(l) \/ ProvisionFails(l)
    \/ CheckAndStartProxy(l) \/ PollProxy(l) \/ Verify(l)
    \/ StopProxy(l) \/ StopQemu(l) \/ NextCycle(l)

ChildStep(l) == QemuBinds(l) \/ ProxyBinds(l)

LauncherNext ==
    \E l \in Launchers :
        \/ StartLauncher(l) \/ EndCycle(l) \/ Terminate(l) \/ QemuDies(l)
        \/ Progress(l) \/ ChildStep(l)

LauncherFairness ==
    \A l \in Launchers :
        WF_launcherVars(Progress(l)) /\ WF_launcherVars(ChildStep(l))

LauncherSpec == LauncherInit /\ [][LauncherNext]_launcherVars /\ LauncherFairness

-----------------------------------------------------------------------------
Stages == {"idle", "reserve", "pick", "spawn", "poll", "banner", "login",
           "provision", "check", "pollProxy", "verify", "serving", "stopProxy",
           "stopQemu", "pause", "exited"}
Process == {"none", "starting", "up", "dead"}

\* Types; two guests never share a loopback port, nor two proxies a public one.
LauncherTypeOK ==
    /\ public \in [Launchers -> PublicPorts]
    /\ stage \in [Launchers -> Stages]
    /\ ending \in [Launchers -> {"none", "cycle", "error", "term"}]
    /\ local \in [Launchers -> LocalPorts]
    /\ qemu \in [Launchers -> Process] /\ proxy \in [Launchers -> Process]
    /\ hung \in [Launchers -> BOOLEAN]
    /\ password \in [Launchers -> PublicPorts \cup {"bootstrap"}]
    /\ admin \in [Launchers -> SUBSET Launchers]
    /\ lost \subseteq LocalPorts /\ replaced \in [Launchers -> BOOLEAN]
    /\ torn \in [Launchers -> BOOLEAN]
    /\ faults \in 0..MaxFaults
    /\ \A k, l \in Launchers :
           /\ qemu[k] = "up" /\ qemu[l] = "up" /\ local[k] = local[l] => k = l
           /\ proxy[k] = "up" /\ proxy[l] = "up" /\ public[k] = public[l] => k = l

\* What the poll (run.py:543) and the checks (run.py:568, 593) are for: players
\* of a launcher reach its own guest, with its own passwords, whatever ports
\* the launchers picked -- unless a QEMU on that port ended after the one poll.
ServesOwnGuest ==
    \A l \in Launchers :
        stage[l] = "serving" /\ local[l] \notin lost
        => /\ Proxies(public[l]) = {l}
           /\ Guests(local[l]) = {l}
           /\ password[l] = public[l]

\* "Run main()'s finally (stop proxy/qemu, remove workdir)" (run.py:625): a
\* launcher between cycles or gone has left neither QEMU nor proxy running,
\* whichever step failed -- unless SIGTERM met the finally itself.
NothingLeftRunning ==
    \A l \in Launchers :
        stage[l] \in {"pause", "exited"} /\ ~torn[l]
        => qemu[l] = "none" /\ proxy[l] = "none"

\* A launcher gives up only after a fault: without a dead or silent guest, a
\* failed script or a port met twice, each cycle logs in to a fresh guest, and
\* neither its predecessor nor the launcher it replaces is in its way.
GivesUpForCause ==
    \A l \in Launchers : ending[l] = "error" => faults > 0

\* Every cycle comes to serve or ends the launcher, whatever its guest does:
\* each wait has a time-out, and the finally follows each failure.
CycleSettles ==
    \A l \in Launchers : stage[l] = "reserve" ~> stage[l] \in {"serving", "exited"}
=============================================================================
