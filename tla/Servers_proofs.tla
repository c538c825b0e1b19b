--------------------------- MODULE Servers_proofs -----------------------------
(***************************************************************************)
(* Safety of three servers that start a process for whoever asks: the VM   *)
(* launchers of babycom and someday, blinky and r3map, for any number of   *)
(* launchers, ports, requests and clients.                                 *)
(***************************************************************************)
EXTENDS VmLauncher, BlinkyServer, R3mapServer, SequenceTheorems, FiniteSetTheorems, TLAPS

(* The VM launchers. *)

Booted == {"login", "provision", "check", "pollProxy", "verify", "serving"}
Provisioned == {"check", "pollProxy", "verify", "serving"}

\* Which children a launcher has where; a torn finally may leave any.
ChildInv ==
    \A l \in Launchers :
        /\ torn[l] => stage[l] = "exited"
        /\ stage[l] \in {"idle", "reserve", "pick", "spawn", "pause", "exited"} /\ ~torn[l]
               => qemu[l] = "none"
        /\ stage[l] \notin {"pollProxy", "verify", "serving", "stopProxy"} /\ ~torn[l]
               => proxy[l] = "none"
        /\ stage[l] = "pollProxy" => proxy[l] # "none"
        /\ stage[l] \in {"verify", "serving"} => proxy[l] = "up"

\* While no QEMU of the port has ended after its poll, the port leads to the
\* launcher's own guest, and only its own session is in that guest.
GuestInv ==
    /\ \A k, v \in Launchers :
          v \in admin[k] => stage[k] = "provision" /\ qemu[v] = "up" /\ local[v] = local[k]
    /\ \A l \in Launchers : local[l] \notin lost =>
          /\ stage[l] = "banner" => qemu[l] \in {"starting", "up"}
          /\ stage[l] = "poll" => qemu[l] # "none"
          /\ stage[l] \in Booted => qemu[l] = "up"
          /\ stage[l] \in Provisioned => password[l] = public[l]

LauncherInv == LauncherTypeOK /\ ChildInv /\ GuestInv

-----------------------------------------------------------------------------
\* Types, and one guest per loopback port.
LEMMA TypesStep ==
    ASSUME LauncherTypeOK, ChildInv, [LauncherNext]_launcherVars
    PROVE  LauncherTypeOK'
<1> USE LauncherAssumption
    DEF LauncherAssumption, LauncherTypeOK, childVars, fixed, Guests, Proxies, Answering,
        Goto, Blame, Fail, HangUp, ChildInv, Stages, Process
<1>1. ASSUME NEW l \in Launchers, StartLauncher(l) PROVE LauncherTypeOK'
  BY <1>1 DEF StartLauncher
<1>2. ASSUME NEW l \in Launchers, Reserve(l) PROVE LauncherTypeOK'
  BY <1>2 DEF Reserve
<1>3. ASSUME NEW l \in Launchers, ReserveFails(l) PROVE LauncherTypeOK'
  BY <1>3 DEF ReserveFails
<1>4. ASSUME NEW l \in Launchers, NEW e \in LocalPorts, PickPort(l, e) PROVE LauncherTypeOK'
  BY <1>4 DEF PickPort
<1>5. ASSUME NEW l \in Launchers, SpawnQemu(l) PROVE LauncherTypeOK'
  <2> USE <1>5 DEF SpawnQemu
  <2>1. faults' \in 0..MaxFaults /\ hung' \in [Launchers -> BOOLEAN]
    <3>1. faults' = faults \/ (faults < MaxFaults /\ faults' = faults + 1)
      OBVIOUS
    <3>2. hung' = hung \/ hung' = [hung EXCEPT ![l] = TRUE]
      OBVIOUS
    <3>3. faults \in 0..MaxFaults /\ hung \in [Launchers -> BOOLEAN] /\ MaxFaults \in Nat
      OBVIOUS
    <3>4. faults' \in 0..MaxFaults
      BY ONLY <3>1, <3>3
    <3>5. hung' \in [Launchers -> BOOLEAN]
      BY ONLY <3>2, <3>3
    <3> QED
      BY ONLY <3>4, <3>5
  <2>2. /\ qemu' = [qemu EXCEPT ![l] = "starting"] /\ stage' = [stage EXCEPT ![l] = "poll"]
        /\ password' = [password EXCEPT ![l] = "bootstrap"]
        /\ UNCHANGED <<public, replaced, torn, ending, local, proxy, admin, lost>>
    OBVIOUS
  <2> HIDE <1>5 DEF SpawnQemu
  <2> QED
    BY <2>1, <2>2
<1>6. ASSUME NEW l \in Launchers, QemuBinds(l) PROVE LauncherTypeOK'
  BY <1>6, SMTT(30) DEF QemuBinds
<1>7. ASSUME NEW l \in Launchers, QemuDies(l) PROVE LauncherTypeOK'
  BY <1>7 DEF QemuDies
<1>8. ASSUME NEW l \in Launchers, PollQemu(l) PROVE LauncherTypeOK'
  BY <1>8 DEF PollQemu
<1>9. ASSUME NEW l \in Launchers, AwaitBanner(l) PROVE LauncherTypeOK'
  BY <1>9 DEF AwaitBanner
<1>10. ASSUME NEW l \in Launchers, BannerTimesOut(l) PROVE LauncherTypeOK'
  BY <1>10 DEF BannerTimesOut
<1>11. ASSUME NEW l \in Launchers, LogIn(l) PROVE LauncherTypeOK'
  BY <1>11, SMTT(30) DEF LogIn
<1>12. ASSUME NEW l \in Launchers, Provision(l) PROVE LauncherTypeOK'
  BY <1>12 DEF Provision
<1>13. ASSUME NEW l \in Launchers, ProvisionFails(l) PROVE LauncherTypeOK'
  BY <1>13 DEF ProvisionFails, ScriptLeaves
<1>14. ASSUME NEW l \in Launchers, CheckAndStartProxy(l) PROVE LauncherTypeOK'
  BY <1>14 DEF CheckAndStartProxy
<1>15. ASSUME NEW l \in Launchers, ProxyBinds(l) PROVE LauncherTypeOK'
  BY <1>15 DEF ProxyBinds
<1>16. ASSUME NEW l \in Launchers, PollProxy(l) PROVE LauncherTypeOK'
  BY <1>16 DEF PollProxy
<1>17. ASSUME NEW l \in Launchers, Verify(l) PROVE LauncherTypeOK'
  BY <1>17, SMTT(90) DEF Verify
<1>18. ASSUME NEW l \in Launchers, EndCycle(l) PROVE LauncherTypeOK'
  BY <1>18 DEF EndCycle
<1>19. ASSUME NEW l \in Launchers, StopProxy(l) PROVE LauncherTypeOK'
  BY <1>19 DEF StopProxy
<1>20. ASSUME NEW l \in Launchers, StopQemu(l) PROVE LauncherTypeOK'
  BY <1>20 DEF StopQemu
<1>21. ASSUME NEW l \in Launchers, NextCycle(l) PROVE LauncherTypeOK'
  BY <1>21 DEF NextCycle
<1>22. ASSUME NEW l \in Launchers, Terminate(l) PROVE LauncherTypeOK'
  <2> USE <1>22 DEF Terminate
  <2>1. faults' \in 0..MaxFaults /\ torn' \in [Launchers -> BOOLEAN]
    <3>1. faults' = faults \/ (faults < MaxFaults /\ faults' = faults + 1)
      OBVIOUS
    <3>2. torn' = torn \/ torn' = [torn EXCEPT ![l] = TRUE]
      OBVIOUS
    <3>3. faults \in 0..MaxFaults /\ torn \in [Launchers -> BOOLEAN] /\ MaxFaults \in Nat
      OBVIOUS
    <3>4. faults' \in 0..MaxFaults
      BY ONLY <3>1, <3>3
    <3>5. torn' \in [Launchers -> BOOLEAN]
      BY ONLY <3>2, <3>3
    <3> QED
      BY ONLY <3>4, <3>5
  <2>2. stage' \in [Launchers -> Stages] /\ ending' \in [Launchers -> {"none", "cycle", "error", "term"}]
    OBVIOUS
  <2>3. /\ admin' = [admin EXCEPT ![l] = {}] /\ replaced' = [replaced EXCEPT ![l] = TRUE]
        /\ UNCHANGED <<public, local, qemu, proxy, hung, password, lost>>
    OBVIOUS
  <2> HIDE <1>22 DEF Terminate
  <2> QED
    BY <2>1, <2>2, <2>3
<1>23. CASE UNCHANGED launcherVars
  BY <1>23 DEF launcherVars
<1> QED
  BY <1>1, <1>2, <1>3, <1>4, <1>5, <1>6, <1>7, <1>8, <1>9,
     <1>10, <1>11, <1>12, <1>13, <1>14, <1>15, <1>16, <1>17, <1>18,
     <1>19, <1>20, <1>21, <1>22, <1>23
  DEF LauncherNext, Progress, ChildStep

\* Every way out of a cycle stops what it started.
LEMMA ChildStepKeeps ==
    ASSUME LauncherTypeOK, ChildInv, [LauncherNext]_launcherVars
    PROVE  ChildInv'
<1> USE LauncherAssumption
    DEF LauncherAssumption, LauncherTypeOK, childVars, fixed, Guests, Proxies, Answering,
        Goto, Blame, Fail, HangUp, ChildInv, Stages, Process
<1>1. ASSUME NEW l \in Launchers, StartLauncher(l) PROVE ChildInv'
  BY <1>1 DEF StartLauncher
<1>2. ASSUME NEW l \in Launchers, Reserve(l) PROVE ChildInv'
  BY <1>2 DEF Reserve
<1>3. ASSUME NEW l \in Launchers, ReserveFails(l) PROVE ChildInv'
  BY <1>3 DEF ReserveFails
<1>4. ASSUME NEW l \in Launchers, NEW e \in LocalPorts, PickPort(l, e) PROVE ChildInv'
  BY <1>4 DEF PickPort
<1>5. ASSUME NEW l \in Launchers, SpawnQemu(l) PROVE ChildInv'
  BY <1>5 DEF SpawnQemu
<1>6. ASSUME NEW l \in Launchers, QemuBinds(l) PROVE ChildInv'
  BY <1>6 DEF QemuBinds
<1>7. ASSUME NEW l \in Launchers, QemuDies(l) PROVE ChildInv'
  BY <1>7 DEF QemuDies
<1>8. ASSUME NEW l \in Launchers, PollQemu(l) PROVE ChildInv'
  BY <1>8 DEF PollQemu
<1>9. ASSUME NEW l \in Launchers, AwaitBanner(l) PROVE ChildInv'
  BY <1>9 DEF AwaitBanner
<1>10. ASSUME NEW l \in Launchers, BannerTimesOut(l) PROVE ChildInv'
  BY <1>10 DEF BannerTimesOut
<1>11. ASSUME NEW l \in Launchers, LogIn(l) PROVE ChildInv'
  BY <1>11 DEF LogIn
<1>12. ASSUME NEW l \in Launchers, Provision(l) PROVE ChildInv'
  BY <1>12 DEF Provision
<1>13. ASSUME NEW l \in Launchers, ProvisionFails(l) PROVE ChildInv'
  BY <1>13 DEF ProvisionFails, ScriptLeaves
<1>14. ASSUME NEW l \in Launchers, CheckAndStartProxy(l) PROVE ChildInv'
  BY <1>14 DEF CheckAndStartProxy
<1>15. ASSUME NEW l \in Launchers, ProxyBinds(l) PROVE ChildInv'
  BY <1>15 DEF ProxyBinds
<1>16. ASSUME NEW l \in Launchers, PollProxy(l) PROVE ChildInv'
  BY <1>16 DEF PollProxy
<1>17. ASSUME NEW l \in Launchers, Verify(l) PROVE ChildInv'
  BY <1>17, SMTT(30) DEF Verify
<1>18. ASSUME NEW l \in Launchers, EndCycle(l) PROVE ChildInv'
  BY <1>18 DEF EndCycle
<1>19. ASSUME NEW l \in Launchers, StopProxy(l) PROVE ChildInv'
  BY <1>19 DEF StopProxy
<1>20. ASSUME NEW l \in Launchers, StopQemu(l) PROVE ChildInv'
  BY <1>20 DEF StopQemu
<1>21. ASSUME NEW l \in Launchers, NextCycle(l) PROVE ChildInv'
  BY <1>21 DEF NextCycle
<1>22. ASSUME NEW l \in Launchers, Terminate(l) PROVE ChildInv'
  BY <1>22 DEF Terminate
<1>23. CASE UNCHANGED launcherVars
  BY <1>23 DEF launcherVars
<1> QED
  BY <1>1, <1>2, <1>3, <1>4, <1>5, <1>6, <1>7, <1>8, <1>9,
     <1>10, <1>11, <1>12, <1>13, <1>14, <1>15, <1>16, <1>17, <1>18,
     <1>19, <1>20, <1>21, <1>22, <1>23
  DEF LauncherNext, Progress, ChildStep

\* A login on a port that has lost no QEMU is to the own guest.
LEMMA GuestStep ==
    ASSUME LauncherTypeOK, ChildInv, GuestInv, [LauncherNext]_launcherVars
    PROVE  GuestInv'
<1> USE LauncherAssumption
    DEF LauncherAssumption, LauncherTypeOK, childVars, fixed, Guests, Proxies, Answering,
        Goto, Blame, Fail, HangUp, ChildInv, GuestInv, Booted, Provisioned, Stages, Process
<1>1. ASSUME NEW l \in Launchers, StartLauncher(l) PROVE GuestInv'
  BY <1>1 DEF StartLauncher
<1>2. ASSUME NEW l \in Launchers, Reserve(l) PROVE GuestInv'
  BY <1>2 DEF Reserve
<1>3. ASSUME NEW l \in Launchers, ReserveFails(l) PROVE GuestInv'
  BY <1>3 DEF ReserveFails
<1>4. ASSUME NEW l \in Launchers, NEW e \in LocalPorts, PickPort(l, e) PROVE GuestInv'
  BY <1>4 DEF PickPort
<1>5. ASSUME NEW l \in Launchers, SpawnQemu(l) PROVE GuestInv'
  BY <1>5 DEF SpawnQemu
<1>6. ASSUME NEW l \in Launchers, QemuBinds(l) PROVE GuestInv'
  BY <1>6 DEF QemuBinds
<1>7. ASSUME NEW l \in Launchers, QemuDies(l) PROVE GuestInv'
  BY <1>7 DEF QemuDies
<1>8. ASSUME NEW l \in Launchers, PollQemu(l) PROVE GuestInv'
  BY <1>8 DEF PollQemu
<1>9. ASSUME NEW l \in Launchers, AwaitBanner(l) PROVE GuestInv'
  BY <1>9 DEF AwaitBanner
<1>10. ASSUME NEW l \in Launchers, BannerTimesOut(l) PROVE GuestInv'
  BY <1>10 DEF BannerTimesOut
<1>11. ASSUME NEW l \in Launchers, LogIn(l) PROVE GuestInv'
  BY <1>11 DEF LogIn
<1>12. ASSUME NEW l \in Launchers, Provision(l) PROVE GuestInv'
  BY <1>12 DEF Provision
<1>13. ASSUME NEW l \in Launchers, ProvisionFails(l) PROVE GuestInv'
  BY <1>13 DEF ProvisionFails, ScriptLeaves
<1>14. ASSUME NEW l \in Launchers, CheckAndStartProxy(l) PROVE GuestInv'
  BY <1>14 DEF CheckAndStartProxy
<1>15. ASSUME NEW l \in Launchers, ProxyBinds(l) PROVE GuestInv'
  BY <1>15 DEF ProxyBinds
<1>16. ASSUME NEW l \in Launchers, PollProxy(l) PROVE GuestInv'
  BY <1>16 DEF PollProxy
<1>17. ASSUME NEW l \in Launchers, Verify(l) PROVE GuestInv'
  BY <1>17, SMTT(30) DEF Verify
<1>18. ASSUME NEW l \in Launchers, EndCycle(l) PROVE GuestInv'
  BY <1>18 DEF EndCycle
<1>19. ASSUME NEW l \in Launchers, StopProxy(l) PROVE GuestInv'
  BY <1>19 DEF StopProxy
<1>20. ASSUME NEW l \in Launchers, StopQemu(l) PROVE GuestInv'
  BY <1>20 DEF StopQemu
<1>21. ASSUME NEW l \in Launchers, NextCycle(l) PROVE GuestInv'
  BY <1>21 DEF NextCycle
<1>22. ASSUME NEW l \in Launchers, Terminate(l) PROVE GuestInv'
  BY <1>22 DEF Terminate
<1>23. CASE UNCHANGED launcherVars
  BY <1>23 DEF launcherVars
<1> QED
  BY <1>1, <1>2, <1>3, <1>4, <1>5, <1>6, <1>7, <1>8, <1>9,
     <1>10, <1>11, <1>12, <1>13, <1>14, <1>15, <1>16, <1>17, <1>18,
     <1>19, <1>20, <1>21, <1>22, <1>23
  DEF LauncherNext, Progress, ChildStep

-----------------------------------------------------------------------------
\* The inductive invariant of run.py's cycles.
THEOREM LauncherInvariant == LauncherSpec => []LauncherInv
<1>1. LauncherInit => LauncherInv
  BY LauncherAssumption DEF LauncherAssumption, LauncherInit, LauncherInv, LauncherTypeOK,
     ChildInv, GuestInv, Stages, Process, Booted, Provisioned
<1>2. LauncherInv /\ [LauncherNext]_launcherVars => LauncherInv'
  BY TypesStep, ChildStepKeeps, GuestStep DEF LauncherInv
<1> QED
  BY <1>1, <1>2, PTL DEF LauncherSpec

\* No QEMU and no proxy survives the finally of run.py, unless SIGTERM met it.
THEOREM FinallyStopsAll == LauncherSpec => []NothingLeftRunning
<1>1. LauncherInv => NothingLeftRunning
  BY DEF LauncherInv, ChildInv, NothingLeftRunning
<1> QED
  BY <1>1, LauncherInvariant, PTL

\* Players reach the launcher's own guest, whatever loopback ports were picked,
\* unless a QEMU of that port ended after the one poll (run.py).
THEOREM PortsLeadHome == LauncherSpec => []ServesOwnGuest
<1>1. LauncherInv => ServesOwnGuest
  BY DEF LauncherInv, LauncherTypeOK, ChildInv, GuestInv, ServesOwnGuest, Booted,
     Provisioned, Guests, Proxies
<1> QED
  BY <1>1, LauncherInvariant, PTL

-----------------------------------------------------------------------------
(* The launchers without a fault. *)

\* A replaced launcher only stops what it has.
ReplacedInv ==
    \A l \in Launchers : replaced[l] =>
        ending[l] = "term" /\ stage[l] \in {"stopProxy", "stopQemu", "exited"}

\* On the loopback port of l a QEMU of l's own runs or will.
Claims(l) == stage[l] = "spawn" \/ qemu[l] \in {"starting", "up"}

\* As long as nothing has gone wrong: each guest is alive and has its port for itself,
\* a session is in the launcher's own guest, which is fresh until it is provisioned,
\* and whoever had the public port before has stopped its proxy.
Calm ==
    /\ lost = {}
    /\ \A l \in Launchers :
          /\ ~torn[l] /\ ~hung[l] /\ qemu[l] # "dead" /\ ending[l] # "error"
          /\ stage[l] \in {"poll", "banner", "login", "provision"} => password[l] = "bootstrap"
          /\ stage[l] = "poll" => qemu[l] # "none"
          /\ stage[l] = "provision" => admin[l] = {l}
          /\ stage[l] = "pollProxy" => proxy[l] # "dead"
    /\ \A k, l \in Launchers : k # l =>
          /\ Claims(k) /\ Claims(l) => local[k] # local[l]
          /\ k \notin admin[l]
          /\ stage[l] \in Booted /\ public[k] = public[l] => stage[k] \in {"idle", "exited"}

CalmInv == LauncherInv /\ ReplacedInv /\ (faults = 0 => Calm)

\* SIGTERM leads to the finally, and out of it to the end.
LEMMA ReplacedStep ==
    ASSUME LauncherTypeOK, ReplacedInv, [LauncherNext]_launcherVars
    PROVE  ReplacedInv'
<1> USE DEF LauncherTypeOK, ReplacedInv, fixed, Goto, Fail
<1>1. ASSUME NEW l \in Launchers, StartLauncher(l) PROVE ReplacedInv'
  BY <1>1 DEF StartLauncher
<1>2. ASSUME NEW l \in Launchers, Reserve(l) PROVE ReplacedInv'
  BY <1>2 DEF Reserve
<1>3. ASSUME NEW l \in Launchers, ReserveFails(l) PROVE ReplacedInv'
  BY <1>3 DEF ReserveFails
<1>4. ASSUME NEW l \in Launchers, NEW e \in LocalPorts, PickPort(l, e) PROVE ReplacedInv'
  BY <1>4 DEF PickPort
<1>5. ASSUME NEW l \in Launchers, SpawnQemu(l) PROVE ReplacedInv'
  BY <1>5 DEF SpawnQemu
<1>6. ASSUME NEW l \in Launchers, QemuBinds(l) PROVE ReplacedInv'
  BY <1>6 DEF QemuBinds
<1>7. ASSUME NEW l \in Launchers, QemuDies(l) PROVE ReplacedInv'
  BY <1>7 DEF QemuDies
<1>8. ASSUME NEW l \in Launchers, PollQemu(l) PROVE ReplacedInv'
  BY <1>8 DEF PollQemu
<1>9. ASSUME NEW l \in Launchers, AwaitBanner(l) PROVE ReplacedInv'
  BY <1>9 DEF AwaitBanner
<1>10. ASSUME NEW l \in Launchers, BannerTimesOut(l) PROVE ReplacedInv'
  BY <1>10 DEF BannerTimesOut
<1>11. ASSUME NEW l \in Launchers, LogIn(l) PROVE ReplacedInv'
  BY <1>11 DEF LogIn
<1>12. ASSUME NEW l \in Launchers, Provision(l) PROVE ReplacedInv'
  BY <1>12 DEF Provision
<1>13. ASSUME NEW l \in Launchers, ProvisionFails(l) PROVE ReplacedInv'
  BY <1>13 DEF ProvisionFails, ScriptLeaves
<1>14. ASSUME NEW l \in Launchers, CheckAndStartProxy(l) PROVE ReplacedInv'
  BY <1>14 DEF CheckAndStartProxy
<1>15. ASSUME NEW l \in Launchers, ProxyBinds(l) PROVE ReplacedInv'
  BY <1>15 DEF ProxyBinds
<1>16. ASSUME NEW l \in Launchers, PollProxy(l) PROVE ReplacedInv'
  BY <1>16 DEF PollProxy
<1>17. ASSUME NEW l \in Launchers, Verify(l) PROVE ReplacedInv'
  BY <1>17 DEF Verify
<1>18. ASSUME NEW l \in Launchers, EndCycle(l) PROVE ReplacedInv'
  BY <1>18 DEF EndCycle
<1>19. ASSUME NEW l \in Launchers, StopProxy(l) PROVE ReplacedInv'
  BY <1>19 DEF StopProxy
<1>20. ASSUME NEW l \in Launchers, StopQemu(l) PROVE ReplacedInv'
  BY <1>20 DEF StopQemu
<1>21. ASSUME NEW l \in Launchers, NextCycle(l) PROVE ReplacedInv'
  BY <1>21 DEF NextCycle
<1>22. ASSUME NEW l \in Launchers, Terminate(l) PROVE ReplacedInv'
  BY <1>22 DEF Terminate
<1>23. CASE UNCHANGED launcherVars
  BY <1>23 DEF launcherVars
<1> QED
  BY <1>1, <1>2, <1>3, <1>4, <1>5, <1>6, <1>7, <1>8, <1>9, <1>10, <1>11, <1>12, <1>13, <1>14, <1>15, <1>16, <1>17, <1>18, <1>19, <1>20, <1>21, <1>22, <1>23
  DEF LauncherNext, Progress, ChildStep

\* Without a fault, every step keeps the calm.
LEMMA CalmStep ==
    ASSUME LauncherInv, LauncherTypeOK', ReplacedInv, faults = 0 => Calm, [LauncherNext]_launcherVars, faults' = 0
    PROVE  Calm'
<1>0. faults = 0 /\ Calm
  <2>1. faults \in Nat /\ faults' >= faults
    BY DEF LauncherInv, LauncherTypeOK, LauncherNext, launcherVars, Progress, ChildStep, StartLauncher, EndCycle, Terminate, QemuDies, Blame,
       Reserve, ReserveFails, PickPort, SpawnQemu, PollQemu, AwaitBanner, BannerTimesOut, LogIn, Provision, ProvisionFails,
       CheckAndStartProxy, PollProxy, Verify, StopProxy, StopQemu, NextCycle, QemuBinds, ProxyBinds
  <2> QED
    BY <2>1
<1> USE <1>0, LauncherAssumption
    DEF LauncherAssumption, LauncherInv, LauncherTypeOK, childVars, fixed, Guests, Proxies, Answering,
        Goto, Blame, Fail, HangUp, ChildInv, GuestInv, Booted, Provisioned, Stages, Process, ReplacedInv, Claims, Calm
<1>1. ASSUME NEW l \in Launchers, StartLauncher(l) PROVE Calm'
  BY <1>1 DEF StartLauncher
<1>2. ASSUME NEW l \in Launchers, Reserve(l) PROVE Calm'
  BY <1>2 DEF Reserve
<1>3. ASSUME NEW l \in Launchers, ReserveFails(l) PROVE Calm'
  BY <1>3 DEF ReserveFails
<1>4. ASSUME NEW l \in Launchers, NEW e \in LocalPorts, PickPort(l, e) PROVE Calm'
  BY <1>4 DEF PickPort
<1>5. ASSUME NEW l \in Launchers, SpawnQemu(l) PROVE Calm'
  BY <1>5 DEF SpawnQemu
<1>6. ASSUME NEW l \in Launchers, QemuBinds(l) PROVE Calm'
  BY <1>6 DEF QemuBinds
<1>7. ASSUME NEW l \in Launchers, QemuDies(l) PROVE Calm'
  BY <1>7 DEF QemuDies
<1>8. ASSUME NEW l \in Launchers, PollQemu(l) PROVE Calm'
  BY <1>8 DEF PollQemu
<1>9. ASSUME NEW l \in Launchers, AwaitBanner(l) PROVE Calm'
  BY <1>9 DEF AwaitBanner
<1>10. ASSUME NEW l \in Launchers, BannerTimesOut(l) PROVE Calm'
  BY <1>10 DEF BannerTimesOut
<1>11. ASSUME NEW l \in Launchers, LogIn(l) PROVE Calm'
  BY <1>11 DEF LogIn
<1>12. ASSUME NEW l \in Launchers, Provision(l) PROVE Calm'
  BY <1>12 DEF Provision
<1>13. ASSUME NEW l \in Launchers, ProvisionFails(l) PROVE Calm'
  BY <1>13 DEF ProvisionFails, ScriptLeaves
<1>14. ASSUME NEW l \in Launchers, CheckAndStartProxy(l) PROVE Calm'
  BY <1>14, SMTT(30) DEF CheckAndStartProxy
<1>15. ASSUME NEW l \in Launchers, ProxyBinds(l) PROVE Calm'
  BY <1>15 DEF ProxyBinds
<1>16. ASSUME NEW l \in Launchers, PollProxy(l) PROVE Calm'
  BY <1>16 DEF PollProxy
<1>17. ASSUME NEW l \in Launchers, Verify(l) PROVE Calm'
  BY <1>17 DEF Verify
<1>18. ASSUME NEW l \in Launchers, EndCycle(l) PROVE Calm'
  BY <1>18 DEF EndCycle
<1>19. ASSUME NEW l \in Launchers, StopProxy(l) PROVE Calm'
  BY <1>19 DEF StopProxy
<1>20. ASSUME NEW l \in Launchers, StopQemu(l) PROVE Calm'
  BY <1>20 DEF StopQemu
<1>21. ASSUME NEW l \in Launchers, NextCycle(l) PROVE Calm'
  BY <1>21 DEF NextCycle
<1>22. ASSUME NEW l \in Launchers, Terminate(l) PROVE Calm'
  BY <1>22 DEF Terminate
<1>23. CASE UNCHANGED launcherVars
  BY <1>23 DEF launcherVars
<1> QED
  BY <1>1, <1>2, <1>3, <1>4, <1>5, <1>6, <1>7, <1>8, <1>9, <1>10, <1>11, <1>12, <1>13, <1>14, <1>15, <1>16, <1>17, <1>18, <1>19, <1>20, <1>21, <1>22, <1>23
  DEF LauncherNext, Progress, ChildStep

\* The inductive invariant of the launchers, with calm while there is no fault.
THEOREM CalmInvariant == LauncherSpec => []CalmInv
<1>1. LauncherInit => CalmInv
  <2>1. LauncherInit => LauncherInv
    BY LauncherAssumption DEF LauncherAssumption, LauncherInit, LauncherInv, LauncherTypeOK,
       ChildInv, GuestInv, Stages, Process, Booted, Provisioned
  <2>2. LauncherInit => ReplacedInv
    BY DEF LauncherInit, ReplacedInv
  <2>3. LauncherInit => Calm
    BY DEF LauncherInit, Calm, Claims, Booted
  <2> QED
    BY <2>1, <2>2, <2>3 DEF CalmInv
<1>2. CalmInv /\ [LauncherNext]_launcherVars => CalmInv'
  <2> SUFFICES ASSUME CalmInv, [LauncherNext]_launcherVars PROVE CalmInv'
    OBVIOUS
  <2>1. LauncherInv'
    BY TypesStep, ChildStepKeeps, GuestStep DEF CalmInv, LauncherInv
  <2>2. ReplacedInv'
    BY ReplacedStep DEF CalmInv, LauncherInv
  <2>3. ASSUME faults' = 0 PROVE Calm'
    BY <2>1, <2>3, CalmStep DEF CalmInv, LauncherInv
  <2> QED
    BY <2>1, <2>2, <2>3 DEF CalmInv
<1> QED
  BY <1>1, <1>2, PTL DEF LauncherSpec

\* Without a fault each cycle of run.py comes to serve: a launcher that gives up
\* has met a dead or silent guest, a failed script, a port picked twice or a
\* finally cut short.
THEOREM FaultsBeforeFailures == LauncherSpec => []GivesUpForCause
<1>1. CalmInv => GivesUpForCause
  BY DEF CalmInv, Calm, GivesUpForCause, LauncherInv, LauncherTypeOK
<1> QED
  BY <1>1, CalmInvariant, PTL

-----------------------------------------------------------------------------
(* blinky. *)

PostStates == {"none", "reading", "waiting", "running", "answered"}
SimStates == {"none", "up", "exited"}
Records == [line : Nat, content : STRING]
RunningPosts == {p \in Posts : at[p] = "running"}

BlinkyTypeOK ==
    /\ at \in [Posts -> PostStates]
    /\ upload \in [Posts -> Seq(Records)]
    /\ free \in Nat
    /\ memory = [p \in Posts |-> memory[p]]
    /\ sim \in [Posts -> SimStates]
    /\ DOMAIN httpStatus = Posts

\* A simulator has a request that runs, whose upload passed and was spliced.
RunInv ==
    \A p \in Posts :
        /\ sim[p] = "up" => at[p] = "running" /\ Raised(upload[p]) = "none"
                            /\ memory[p] = Combined(p, UserLines(upload[p]))
        /\ at[p] # "running" \/ sim[p] = "none" => memory[p] = <<>>
        /\ at[p] \in {"none", "reading", "waiting"} => sim[p] = "none"

\* A slot is free or taken by a request that runs.
SlotInv == IsFiniteSet(RunningPosts) /\ Cardinality(RunningPosts) \in Nat
           /\ free + Cardinality(RunningPosts) = MaxConc

BlinkyInv == BlinkyTypeOK /\ RunInv /\ SlotInv

\* A finite, non-empty set of numbers has a greatest element.
LEMMA GreatestOf ==
    ASSUME NEW n \in Nat, NEW A \in SUBSET (1..n), A # {}
    PROVE  \E x \in A : \A y \in A : y <= x
<1> DEFINE From(k) == A \cap (k..n)
           T == {From(k) : k \in A}
<1>1. IsFiniteSet(1..n)
  BY FS_Interval
<1>2. T \subseteq SUBSET (1..n) /\ T # {}
  OBVIOUS
<1>3. IsWellFoundedOn(StrictSubsetOrdering(1..n), SUBSET (1..n))
  BY <1>1, FS_StrictSubsetOrderingWellFounded, FS_FiniteSubsetsOfFinite
<1>4. PICK s \in T : \A t \in T : <<t, s>> \notin StrictSubsetOrdering(1..n)
  <2> HIDE DEF T
  <2> QED BY <1>2, <1>3, WFMin
<1>5. PICK x \in A : s = From(x)
  OBVIOUS
<1>6. ASSUME NEW y \in A, y > x PROVE FALSE
  <2>1. From(y) \in T /\ From(y) \subseteq s /\ x \in s /\ x \notin From(y) /\ From(y) \subseteq 1..n /\ s \subseteq 1..n
    BY <1>5, <1>6
  <2> HIDE DEF From, T
  <2> QED
    BY <2>1, <1>4 DEF StrictSubsetOrdering
<1> QED
  BY <1>6

\* The content of a line is that of its last record.
LEMMA LastRecord ==
    ASSUME NEW doc \in Seq(Records), NEW n \in DOMAIN Contents(doc)
    PROVE  \E i \in DOMAIN doc :
              /\ doc[i] = [line |-> n, content |-> Contents(doc)[n]]
              /\ \A j \in DOMAIN doc : j > i => doc[j].line # n
<1> DEFINE A == {i \in DOMAIN doc : doc[i].line = n}
           IsLast(i) == doc[i].line = n /\ \A j \in DOMAIN doc : doc[j].line = n => j <= i
<1>1. A \in SUBSET (1..Len(doc)) /\ A # {} /\ Len(doc) \in Nat /\ DOMAIN doc = 1..Len(doc)
  BY DEF Contents
<1>2. \E x \in A : \A y \in A : y <= x
  BY <1>1, GreatestOf
<1>3. \E x \in DOMAIN doc : IsLast(x)
  BY <1>2
<1>4. PICK i \in DOMAIN doc : i = (CHOOSE x \in DOMAIN doc : IsLast(x)) /\ IsLast(i)
  BY <1>3
<1>5. n \in {doc[x].line : x \in DOMAIN doc} /\ Contents(doc)[n] = doc[i].content
  BY <1>4 DEF Contents
<1>6. doc[i] \in Records
  BY <1>1, <1>4
<1>7. doc[i] = [line |-> n, content |-> Contents(doc)[n]]
  BY <1>4, <1>5, <1>6 DEF Records
<1> QED
  BY <1>1, <1>4, <1>7

\* A spliced image.
LEMMA Spliced ==
    ASSUME NEW p \in Posts, NEW doc \in Seq(Records), Raised(doc) = "none"
    PROVE  LET img == Combined(p, UserLines(doc)) IN
           /\ \A n \in DOMAIN img : n >= KernelLine =>
                 n \in DOMAIN Template /\ img[n] = KernelRecords(p)[n]
           /\ DOMAIN Template \subseteq DOMAIN img
           /\ Key(p) \in Range(img)
           /\ \A n \in DOMAIN img : n < KernelLine =>
                 \E i \in DOMAIN doc :
                    /\ doc[i] = [line |-> n, content |-> img[n]]
                    /\ \A j \in DOMAIN doc : j > i => doc[j].line # n
<1> DEFINE user == UserLines(doc)
           img == Combined(p, user)
<1>1. DOMAIN user = {n \in DOMAIN Contents(doc) : n < KernelLine}
      /\ \A n \in DOMAIN user : user[n] = Contents(doc)[n]
  BY DEF UserLines, Restrict
<1>2. DOMAIN img = DOMAIN user \cup DOMAIN Template
      /\ (\A n \in DOMAIN user : img[n] = user[n])
      /\ \A n \in DOMAIN Template : n \notin DOMAIN user => img[n] = KernelRecords(p)[n]
  BY DEF Combined
<1>3. DOMAIN Contents(doc) \subseteq Nat
  <2>1. \A i \in DOMAIN doc : doc[i] \in Records
    OBVIOUS
  <2> QED
    BY <2>1 DEF Contents, Records
<1>4. \A n \in DOMAIN Template : n \in Nat /\ n >= KernelLine /\ KernelLine \in Nat
  BY BlinkyAssumption DEF BlinkyAssumption
<1>5. \A n \in DOMAIN Template : n \notin DOMAIN user
  BY <1>1, <1>3, <1>4
<1>6. PICK s \in DOMAIN Template : s = PatchedLine
  BY DEF Raised, Range, PatchedLine
<1>7. img[s] = Key(p) /\ s \in DOMAIN img
  BY <1>2, <1>5, <1>6 DEF KernelRecords
<1>10. KernelLine \in Nat
  BY BlinkyAssumption DEF BlinkyAssumption
<1> HIDE DEF img, user
<1>8. ASSUME NEW n \in DOMAIN img, n >= KernelLine
      PROVE  n \in DOMAIN Template /\ img[n] = KernelRecords(p)[n]
  BY <1>8, <1>10, <1>1, <1>2, <1>3, <1>5
<1>9. ASSUME NEW n \in DOMAIN img, n < KernelLine
      PROVE  \E i \in DOMAIN doc :
                    /\ doc[i] = [line |-> n, content |-> img[n]]
                    /\ \A j \in DOMAIN doc : j > i => doc[j].line # n
  <2>1. n \in DOMAIN user /\ n \in DOMAIN Contents(doc) /\ img[n] = Contents(doc)[n]
    BY <1>9, <1>10, <1>1, <1>2, <1>4
  <2> QED
    BY <2>1, LastRecord
<1>11. Key(p) \in Range(img) /\ DOMAIN Template \subseteq DOMAIN img
  BY <1>2, <1>7 DEF Range
<1> QED
  BY <1>8, <1>9, <1>11 DEF img, user

-----------------------------------------------------------------------------
\* No request, and every slot free.
LEMMA BlinkyInitially == BlinkyInit => BlinkyInv
<1> SUFFICES ASSUME BlinkyInit PROVE BlinkyInv
  OBVIOUS
<1>1. RunningPosts = {}
  BY DEF BlinkyInit, RunningPosts
<1>2. SlotInv
  BY <1>1, FS_EmptySet, BlinkyAssumption DEF SlotInv, BlinkyInit, BlinkyAssumption
<1> QED
  BY <1>2, BlinkyAssumption DEF BlinkyInit, BlinkyAssumption, BlinkyInv, BlinkyTypeOK, RunInv,
     PostStates, SimStates

\* Every step of a request, of its simulator and of the time-out keeps the invariant.
LEMMA BlinkyStep == BlinkyInv /\ [BlinkyNext]_blinkyVars => BlinkyInv'
<1> SUFFICES ASSUME BlinkyInv, [BlinkyNext]_blinkyVars PROVE BlinkyInv'
  OBVIOUS
<1> USE DEF BlinkyInv, BlinkyTypeOK, RunInv, PostStates, SimStates
<1>0. ASSUME NEW q \in Posts, NEW st \in PostStates, at' = [at EXCEPT ![q] = st], st # "running", at[q] # "running",
             free' = free
      PROVE  SlotInv'
  <2>1. RunningPosts' = RunningPosts
    BY <1>0 DEF RunningPosts
  <2> QED
    BY <2>1, <1>0 DEF SlotInv
<1>10. ASSUME NEW q \in Posts, NEW st \in PostStates, at' = [at EXCEPT ![q] = st], st # "running", at[q] = "running",
             free' = free + 1
      PROVE  SlotInv'
  <2>1. RunningPosts' = RunningPosts \ {q} /\ q \in RunningPosts
    BY <1>10 DEF RunningPosts
  <2>2. IsFiniteSet(RunningPosts') /\ Cardinality(RunningPosts') = Cardinality(RunningPosts) - 1
    BY <2>1, FS_RemoveElement DEF SlotInv
  <2>3. Cardinality(RunningPosts') \in Nat
    BY <2>2, FS_CardinalityType
  <2> QED
    BY <2>2, <2>3, <1>10, BlinkyAssumption DEF SlotInv, BlinkyAssumption
<1>1. ASSUME NEW p \in Posts, Post(p) PROVE BlinkyInv'
  <2>1. SlotInv'
    BY <1>1, <1>0 DEF Post
  <2>2. \A doc \in Submissions : doc \in Seq(Records)
    BY BlinkyAssumption DEF BlinkyAssumption, Records
  <2> QED
    BY <1>1, <2>1, <2>2 DEF Post
<1>2. ASSUME NEW p \in Posts, TooLong(p) \/ Busy(p) PROVE BlinkyInv'
  <2>0. /\ at[p] \in {"none", "waiting"} /\ at' = [at EXCEPT ![p] = "answered"]
        /\ DOMAIN httpStatus' = DOMAIN httpStatus /\ UNCHANGED <<upload, free, memory, sim>>
    BY <1>2 DEF TooLong, Busy, Respond
  <2>1. SlotInv'
    BY <2>0, <1>0
  <2>2. BlinkyTypeOK'
    BY <2>0
  <2>3. RunInv'
    BY <2>0
  <2> QED
    BY <2>1, <2>2, <2>3
<1>3. ASSUME NEW p \in Posts, ReadBody(p) PROVE BlinkyInv'
  <2>1. SlotInv'
    BY <1>3, <1>0 DEF ReadBody
  <2>2. ASSUME NEW k \in 0..Len(upload[p]) PROVE SubSeq(upload[p], 1, k) \in Seq(Records)
    BY <2>2
  <2> QED
    BY <1>3, <2>1, <2>2 DEF ReadBody
<1>4. ASSUME NEW p \in Posts, Acquire(p) PROVE BlinkyInv'
  <2>1. RunningPosts' = RunningPosts \cup {p} /\ p \notin RunningPosts
    BY <1>4 DEF RunningPosts, Acquire
  <2>2. IsFiniteSet(RunningPosts') /\ Cardinality(RunningPosts') = Cardinality(RunningPosts) + 1
    BY <2>1, FS_AddElement DEF SlotInv
  <2>3. Cardinality(RunningPosts') \in Nat /\ free' \in Nat
    BY <1>4, <2>2, FS_CardinalityType DEF Acquire
  <2>4. SlotInv'
    BY <2>2, <2>3, <1>4, BlinkyAssumption DEF SlotInv, Acquire, BlinkyAssumption
  <2> QED
    BY <1>4, <2>3, <2>4 DEF Acquire
<1>5. ASSUME NEW p \in Posts, Reject(p) \/ LaunchFails(p) PROVE BlinkyInv'
  <2>0. /\ at[p] = "running" /\ sim[p] = "none"
        /\ at' = [at EXCEPT ![p] = "answered"] /\ free' = free + 1
        /\ DOMAIN httpStatus' = DOMAIN httpStatus /\ UNCHANGED <<upload, memory, sim>>
    BY <1>5 DEF Reject, LaunchFails, Respond
  <2>1. SlotInv'
    BY <2>0, <1>10
  <2>2. BlinkyTypeOK'
    BY <2>0
  <2>3. RunInv'
    BY <2>0
  <2> QED
    BY <2>1, <2>2, <2>3
<1>6. ASSUME NEW p \in Posts, Launch(p) PROVE BlinkyInv'
  <2>1. SlotInv'
    BY <1>6 DEF Launch, SlotInv, RunningPosts
  <2> QED
    BY <1>6, <2>1 DEF Launch
<1>7. ASSUME NEW p \in Posts, SimExits(p) PROVE BlinkyInv'
  <2>1. SlotInv'
    BY <1>7 DEF SimExits, SlotInv, RunningPosts
  <2> QED
    BY <1>7, <2>1 DEF SimExits
<1>8. ASSUME NEW p \in Posts, Collect(p) \/ TimesOut(p) PROVE BlinkyInv'
  <2>0. /\ at[p] = "running" /\ memory' = [memory EXCEPT ![p] = <<>>]
        /\ sim' = [sim EXCEPT ![p] = "exited"]
        /\ at' = [at EXCEPT ![p] = "answered"] /\ free' = free + 1
        /\ DOMAIN httpStatus' = DOMAIN httpStatus /\ UNCHANGED upload
    BY <1>8 DEF Collect, TimesOut, EndRun, Respond
  <2>1. SlotInv'
    BY <2>0, <1>10
  <2>2. BlinkyTypeOK'
    <3>1. memory' = [q \in Posts |-> memory'[q]]
      BY <2>0
    <3>2. at' \in [Posts -> PostStates] /\ sim' \in [Posts -> SimStates]
          /\ free' \in Nat /\ upload' \in [Posts -> Seq(Records)]
      BY <2>0
    <3> QED
      BY <2>0, <3>1, <3>2
  <2>3. RunInv'
    BY <2>0
  <2> QED
    BY <2>1, <2>2, <2>3
<1>9. CASE UNCHANGED blinkyVars
  BY <1>9 DEF blinkyVars, SlotInv, RunningPosts
<1> QED
  BY <1>1, <1>2, <1>3, <1>4, <1>5, <1>6, <1>7, <1>8, <1>9 DEF BlinkyNext, ServerStep

\* The inductive invariant of the blinky server.
LEMMA BlinkyInvariant == BlinkySpec => []BlinkyInv
BY BlinkyInitially, BlinkyStep, PTL DEF BlinkySpec

\* What a simulator runs is the kernel of the image with this request's key, and
\* the upload below it.
LEMMA KernelsStand == BlinkyInv => KernelStands
<1> SUFFICES ASSUME BlinkyInv, NEW p \in Posts, sim[p] = "up"
    PROVE  /\ \A n \in DOMAIN memory[p] : n >= KernelLine =>
              n \in DOMAIN Template /\ memory[p][n] = KernelRecords(p)[n]
        /\ DOMAIN Template \subseteq DOMAIN memory[p]
        /\ Key(p) \in Range(memory[p])
        /\ \A n \in DOMAIN memory[p] : n < KernelLine =>
              \E i \in DOMAIN upload[p] :
                 /\ upload[p][i] = [line |-> n, content |-> memory[p][n]]
                 /\ \A j \in DOMAIN upload[p] : j > i => upload[p][j].line # n
  BY DEF KernelStands
<1>1. upload[p] \in Seq(Records) /\ Raised(upload[p]) = "none" /\ memory[p] = Combined(p, UserLines(upload[p]))
  BY DEF BlinkyInv, BlinkyTypeOK, RunInv
<1> QED
  BY <1>1, Spliced

\* A slot that is taken comes back, and no more simulators run than there are slots.
LEMMA SlotsInBalance == BlinkyInv => SlotsBalance
<1> SUFFICES ASSUME BlinkyInv PROVE SlotsBalance
  OBVIOUS
<1> DEFINE inUse == {p \in Posts : sim[p] = "up"}
           busy == {p \in Posts : at[p] = "running"}
<1>1. inUse \subseteq busy /\ busy = RunningPosts /\ \A p \in Posts : memory[p] # <<>> => p \in busy
  BY DEF BlinkyInv, RunInv, RunningPosts
<1>2. Cardinality(inUse) <= Cardinality(busy) /\ Cardinality(inUse) \in Nat
  BY <1>1, FS_Subset, FS_CardinalityType DEF BlinkyInv, SlotInv
<1>3. Cardinality(inUse) <= MaxConc
  <2> HIDE DEF inUse, busy
  <2> QED
    BY <1>1, <1>2, BlinkyAssumption DEF BlinkyInv, BlinkyTypeOK, SlotInv, BlinkyAssumption
<1> QED
  BY <1>1, <1>3 DEF SlotsBalance, BlinkyInv, SlotInv

\* Each request to blinky runs its own upload under an untouched kernel, and the
\* semaphore is in balance, whichever way its run ends (server.py).
THEOREM RunsOfTheirOwn == BlinkySpec => []RunsAreTheirOwn
BY BlinkyInvariant, KernelsStand, SlotsInBalance, PTL DEF RunsAreTheirOwn

-----------------------------------------------------------------------------
(* r3map. *)

VmStates == {"none", "up", "told", "killed", "dead"}
Working == {"pow", "spawn", "name", "relay", "term", "finally", "stop", "term2", "reap", "leave"}

R3mapTypeOK ==
    /\ step \in Working \cup {"accept", "exited"}
    /\ {serving, active} \subseteq Clients \cup {NoProc}
    /\ vm \in [Clients -> VmStates]
    /\ conn \in [Clients -> {"none", "waiting", "open", "closed"}]
    /\ {stopping, missed} \subseteq BOOLEAN

\* The thread has a client where it works, and its VM has the client's name from the relay on
\* until the finally takes it back.
ThreadInv ==
    /\ serving # NoProc <=> step \in Working
    /\ step \in {"relay", "term", "finally"} => active = serving
    /\ step \in {"pow", "spawn", "name", "stop", "term2", "reap"} => active = NoProc
    /\ step = "accept" => active = NoProc
    /\ step \in {"accept", "pow", "spawn", "name", "relay", "term"} => ~stopping
    /\ step \in {"leave", "exited"} => stopping

\* A running VM is that of the client, and not before it is made.
VmInv ==
    /\ \A c \in Clients : Running(c) =>
          (serving = c /\ step # "leave") \/ (stopping /\ (vm[c] = "killed" \/ missed))
    /\ step \in {"pow", "spawn"} => ~Running(serving)

R3mapInv == R3mapTypeOK /\ ThreadInv /\ VmInv

\* Nobody is served.
LEMMA R3mapInitially == R3mapInit => R3mapInv
BY R3mapAssumption DEF R3mapInit, R3mapInv, R3mapTypeOK, ThreadInv, VmInv, Running, VmStates, Working

\* Every step of the thread, the clients, the virtual machines and the signal keeps
\* the invariant.
LEMMA R3mapStep == R3mapInv /\ [R3mapNext]_r3mapVars => R3mapInv'
<1> SUFFICES ASSUME R3mapInv, [R3mapNext]_r3mapVars PROVE R3mapInv'
  OBVIOUS
<1> USE R3mapAssumption
    DEF R3mapAssumption, R3mapInv, R3mapTypeOK, ThreadInv, VmInv, Running, VmStates, Working, signalVars, Close,
        Signalled
<1>1. ASSUME NEW c \in Clients, Arrive(c) PROVE R3mapInv'
  BY <1>1 DEF Arrive
<1>2. ASSUME NEW c \in Clients, Accept(c) PROVE R3mapInv'
  BY <1>2 DEF Accept
<1>3. CASE PowOk
  BY <1>3 DEF PowOk
<1>4. CASE PowFails \/ PowTimesOut \/ SpawnFails
  BY <1>4 DEF PowFails, PowTimesOut, SpawnFails
<1>5. CASE Spawn
  BY <1>5 DEF Spawn
<1>6. CASE NameProc
  BY <1>6 DEF NameProc
<1>7. CASE ClientEnds
  BY <1>7 DEF ClientEnds
<1>8. CASE ClientResets \/ ChildEnds
  BY <1>8 DEF ClientResets, ChildEnds
<1>9. CASE TermWait
  BY <1>9 DEF TermWait
<1>10. CASE Finally
  BY <1>10 DEF Finally
<1>11. CASE Stop
  BY <1>11 DEF Stop
<1>12. CASE Reap
  BY <1>12 DEF Reap
<1>13. CASE Signal
  BY <1>13 DEF Signal
<1>14. CASE Leave
  BY <1>14 DEF Leave
<1>15. ASSUME NEW c \in Clients, VmExits(c) PROVE R3mapInv'
  BY <1>15 DEF VmExits
<1>16. CASE UNCHANGED r3mapVars
  BY <1>16 DEF r3mapVars
<1> QED
  BY <1>1, <1>2, <1>3, <1>4, <1>5, <1>6, <1>7, <1>8, <1>9, <1>10, <1>11, <1>12, <1>13,
     <1>14, <1>15, <1>16 DEF R3mapNext, ThreadStep

\* The inductive invariant of the r3map server.
LEMMA R3mapInvariant == R3mapSpec => []R3mapInv
BY R3mapInitially, R3mapStep, PTL DEF R3mapSpec

\* A virtual machine runs only for the client that is served, unless the process has
\* been told to stop (relay_challenge, handle_signal).
THEOREM NoVmOutlivesItsClient == R3mapSpec => []VmOnlyForItsClient
<1>1. R3mapInv => VmOnlyForItsClient
  BY DEF R3mapInv, VmInv, VmOnlyForItsClient
<1> QED
  BY <1>1, R3mapInvariant, PTL
=============================================================================
