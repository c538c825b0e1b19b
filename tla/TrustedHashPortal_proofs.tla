----------------------- MODULE TrustedHashPortal_proofs -----------------------
(***************************************************************************)
(* Safety of the portal for every number of requests, slow boots, deaths   *)
(* and pod restarts.                                                       *)
(*                                                                         *)
(* Two starts may be admitted together, so everything rests on the mkdir   *)
(* of the create-vm script: one start alone passes it (CreationInv), and   *)
(* until it has handed its password out no restart can be let in.          *)
(***************************************************************************)
EXTENDS TrustedHashPortal, TLAPS

\* What a start does after its mkdir.
SettingUp == {"made", "provisioning"}
SetUp == {"provisioned", "waiting", "reached"}
Digested == {"digested", "recorded", "created"}
Beyond == SettingUp \cup SetUp \cup Digested

\* What a restart does after its password was found right.
Working == {"matched", "stopping", "stopped", "spawned", "waiting", "reached"}

Recorded == \A s \in Starts : start[s] \in {"recorded", "created"} => record # None

Types == TypeOK /\ Recorded

CreationInv ==
    /\ \A s, t \in Starts : start[s] \in Beyond /\ start[t] \in Beyond => s = t
    /\ \A s \in Starts :
          /\ start[s] \in Beyond => vmDir /\ told = {}
          /\ start[s] \in SettingUp => guest = None
          /\ start[s] \in SettingUp \cup SetUp => digest = None
          /\ start[s] \in SetUp \cup Digested => guest = s
          /\ start[s] \in Digested => digest = s
    /\ ~vmDir => guest = None /\ digest = None /\ told = {} /\ record = None
    /\ digest # None => digest = guest
    /\ told \subseteq {digest}
    /\ \A r \in Restarts : restart[r] \in Working => digest \in told
    /\ Alive("private") => \E s \in Starts : start[s] = "provisioning"
    /\ \A p \in Publics : Alive(p) =>
          /\ guest # None
          /\ \A s \in Starts : start[s] \notin SettingUp \cup {"provisioned"}

\* A ready portal has no creation under way.
ReadyInv ==
    phase = "ready" =>
        vmDir /\ \A s \in Starts : start[s] \in Beyond => start[s] = "created"

\* Restarts one after the other: a ready portal has none that has taken the pid,
\* and every public VM is the portal's, or that of one request under way.
Holders(p) ==
    \/ /\ child = p
       /\ \A r \in Restarts : restart[r] \notin Working \ {"matched"}
       /\ \A s \in Starts : start[s] \in Beyond => start[s] = "created"
    \/ \E r \in Restarts : restart[r] = "stopping" /\ old[r] = p
    \/ \E r \in Restarts : restart[r] \in {"spawned", "waiting", "reached"} /\ r = p
    \/ \E s \in Starts :
          start[s] \in {"waiting", "reached", "digested", "recorded"} /\ p = "public"

OwnerInv ==
    ~overlapped =>
        /\ \A q, r \in Restarts :
              restart[q] \notin {"new", "done"} /\ restart[r] \notin {"new", "done"} => q = r
        /\ phase = "ready" => \A r \in Restarts : restart[r] \notin Working \ {"matched"}
        /\ slow = 0 => \A p \in Publics : Alive(p) => Holders(p)

PortalInv == Types /\ CreationInv /\ ReadyInv /\ OwnerInv

-----------------------------------------------------------------------------
(* Types. *)

\* A VM the portal shows is recorded on the volume (PublishVm after SaveRecord).
LEMMA TypesStep == ASSUME Types, [Next]_vars PROVE Types'
<1> USE PortalAssumption DEF PortalAssumption, Types, TypeOK, Recorded, Publics, Pids, StartSteps, RestartSteps,
        Phases, StartGoes, RestartGoes, Spawn, StopChild, GivesUp, Alive, requestVars,
        memoryVars, diskVars, boundVars
<1>1. ASSUME NEW s \in Starts, CheckStart(s) PROVE Types'
  BY <1>1 DEF CheckStart
<1>2. ASSUME NEW s \in Starts, AdmitStart(s) PROVE Types'
  BY <1>2 DEF AdmitStart
<1>3. ASSUME NEW s \in Starts, LookForDir(s) PROVE Types'
  BY <1>3 DEF LookForDir
<1>4. ASSUME NEW s \in Starts, SpawnPrivate(s) PROVE Types'
  BY <1>4 DEF SpawnPrivate
<1>5. ASSUME NEW s \in Starts, Provision(s) PROVE Types'
  BY <1>5 DEF Provision
<1>6. ASSUME NEW s \in Starts, ProvisionFails(s) PROVE Types'
  BY <1>6 DEF ProvisionFails
<1>7. ASSUME NEW s \in Starts, SpawnPublic(s) PROVE Types'
  BY <1>7 DEF SpawnPublic
<1>8. ASSUME NEW s \in Starts, PublicReached(s) PROVE Types'
  BY <1>8 DEF PublicReached
<1>9. ASSUME NEW s \in Starts, PublicNotReached(s) PROVE Types'
  BY <1>9 DEF PublicNotReached
<1>10. ASSUME NEW s \in Starts, WriteDigest(s) PROVE Types'
  BY <1>10 DEF WriteDigest
<1>11. ASSUME NEW s \in Starts, SaveRecord(s) PROVE Types'
  BY <1>11 DEF SaveRecord
<1>12. ASSUME NEW s \in Starts, PublishVm(s) PROVE Types'
  BY <1>12 DEF PublishVm
<1>13. ASSUME NEW s \in Starts, AnswerStart(s) PROVE Types'
  BY <1>13 DEF AnswerStart
<1>14. ASSUME NEW s \in Starts, FailStart(s) PROVE Types'
  BY <1>14 DEF FailStart
<1>15. ASSUME NEW s \in Starts, NEW ok \in BOOLEAN, MakeDir(s, ok) PROVE Types'
  BY <1>15 DEF MakeDir
<1>16. ASSUME NEW r \in Restarts, CheckPassword(r) PROVE Types'
  BY <1>16 DEF CheckPassword
<1>17. ASSUME NEW r \in Restarts, TakeChild(r) PROVE Types'
  BY <1>17 DEF TakeChild
<1>18. ASSUME NEW r \in Restarts, StopOld(r) PROVE Types'
  BY <1>18 DEF StopOld
<1>19. ASSUME NEW r \in Restarts, SpawnAgain(r) PROVE Types'
  BY <1>19 DEF SpawnAgain
<1>20. ASSUME NEW r \in Restarts, WritePid(r) PROVE Types'
  BY <1>20 DEF WritePid
<1>21. ASSUME NEW r \in Restarts, AgainReached(r) PROVE Types'
  BY <1>21 DEF AgainReached
<1>22. ASSUME NEW r \in Restarts, AgainNotReached(r) PROVE Types'
  BY <1>22 DEF AgainNotReached
<1>23. ASSUME NEW r \in Restarts, PublishChild(r) PROVE Types'
  BY <1>23 DEF PublishChild
<1>24. ASSUME NEW r \in Restarts, FailRestart(r) PROVE Types'
  BY <1>24 DEF FailRestart
<1>25. ASSUME NEW p \in Pids, BindPorts(p) PROVE Types'
  BY <1>25 DEF BindPorts
<1>26. ASSUME NEW p \in Pids, VmDies(p) PROVE Types'
  BY <1>26 DEF VmDies
<1>27. CASE PodRestart
  BY <1>27 DEF PodRestart
<1>28. CASE UNCHANGED vars
  BY <1>28 DEF vars
<1> QED
  BY <1>1, <1>2, <1>3, <1>4, <1>5, <1>6, <1>7, <1>8, <1>9,
     <1>10, <1>11, <1>12, <1>13, <1>14, <1>15, <1>16, <1>17, <1>18,
     <1>19, <1>20, <1>21, <1>22, <1>23, <1>24, <1>25, <1>26, <1>27,
     <1>28
  DEF Next, StartStep, RestartStep

-----------------------------------------------------------------------------
(* The creation. *)

\* One start passes the mkdir; what it leaves is the only password and guest.
LEMMA CreationStep == ASSUME Types, CreationInv, [Next]_vars PROVE CreationInv'
<1> USE PortalAssumption DEF PortalAssumption, Types, TypeOK, Recorded, Publics, Pids, StartSteps, RestartSteps,
        Phases, StartGoes, RestartGoes, Spawn, StopChild, GivesUp, Alive, requestVars,
        memoryVars, diskVars, boundVars, CreationInv, Beyond, SettingUp, SetUp, Digested, Working
<1>1. ASSUME NEW s \in Starts, CheckStart(s) PROVE CreationInv'
  BY <1>1 DEF CheckStart
<1>2. ASSUME NEW s \in Starts, AdmitStart(s) PROVE CreationInv'
  BY <1>2 DEF AdmitStart
<1>3. ASSUME NEW s \in Starts, LookForDir(s) PROVE CreationInv'
  BY <1>3 DEF LookForDir
<1>4. ASSUME NEW s \in Starts, SpawnPrivate(s) PROVE CreationInv'
  BY <1>4 DEF SpawnPrivate
<1>5. ASSUME NEW s \in Starts, Provision(s) PROVE CreationInv'
  BY <1>5 DEF Provision
<1>6. ASSUME NEW s \in Starts, ProvisionFails(s) PROVE CreationInv'
  BY <1>6 DEF ProvisionFails
<1>7. ASSUME NEW s \in Starts, SpawnPublic(s) PROVE CreationInv'
  BY <1>7 DEF SpawnPublic
<1>8. ASSUME NEW s \in Starts, PublicReached(s) PROVE CreationInv'
  BY <1>8 DEF PublicReached
<1>9. ASSUME NEW s \in Starts, PublicNotReached(s) PROVE CreationInv'
  BY <1>9 DEF PublicNotReached
<1>10. ASSUME NEW s \in Starts, WriteDigest(s) PROVE CreationInv'
  BY <1>10 DEF WriteDigest
<1>11. ASSUME NEW s \in Starts, SaveRecord(s) PROVE CreationInv'
  BY <1>11 DEF SaveRecord
<1>12. ASSUME NEW s \in Starts, PublishVm(s) PROVE CreationInv'
  BY <1>12 DEF PublishVm
<1>13. ASSUME NEW s \in Starts, AnswerStart(s) PROVE CreationInv'
  BY <1>13 DEF AnswerStart
<1>14. ASSUME NEW s \in Starts, FailStart(s) PROVE CreationInv'
  BY <1>14 DEF FailStart
<1>15. ASSUME NEW s \in Starts, NEW ok \in BOOLEAN, MakeDir(s, ok) PROVE CreationInv'
  BY <1>15 DEF MakeDir
<1>16. ASSUME NEW r \in Restarts, CheckPassword(r) PROVE CreationInv'
  BY <1>16 DEF CheckPassword
<1>17. ASSUME NEW r \in Restarts, TakeChild(r) PROVE CreationInv'
  BY <1>17 DEF TakeChild
<1>18. ASSUME NEW r \in Restarts, StopOld(r) PROVE CreationInv'
  BY <1>18 DEF StopOld
<1>19. ASSUME NEW r \in Restarts, SpawnAgain(r) PROVE CreationInv'
  BY <1>19 DEF SpawnAgain
<1>20. ASSUME NEW r \in Restarts, WritePid(r) PROVE CreationInv'
  BY <1>20 DEF WritePid
<1>21. ASSUME NEW r \in Restarts, AgainReached(r) PROVE CreationInv'
  BY <1>21 DEF AgainReached
<1>22. ASSUME NEW r \in Restarts, AgainNotReached(r) PROVE CreationInv'
  BY <1>22 DEF AgainNotReached
<1>23. ASSUME NEW r \in Restarts, PublishChild(r) PROVE CreationInv'
  BY <1>23 DEF PublishChild
<1>24. ASSUME NEW r \in Restarts, FailRestart(r) PROVE CreationInv'
  BY <1>24 DEF FailRestart
<1>25. ASSUME NEW p \in Pids, BindPorts(p) PROVE CreationInv'
  BY <1>25 DEF BindPorts
<1>26. ASSUME NEW p \in Pids, VmDies(p) PROVE CreationInv'
  BY <1>26 DEF VmDies
<1>27. CASE PodRestart
  BY <1>27 DEF PodRestart
<1>28. CASE UNCHANGED vars
  BY <1>28 DEF vars
<1> QED
  BY <1>1, <1>2, <1>3, <1>4, <1>5, <1>6, <1>7, <1>8, <1>9,
     <1>10, <1>11, <1>12, <1>13, <1>14, <1>15, <1>16, <1>17, <1>18,
     <1>19, <1>20, <1>21, <1>22, <1>23, <1>24, <1>25, <1>26, <1>27,
     <1>28, SMTT(30)
  DEF Next, StartStep, RestartStep

-----------------------------------------------------------------------------
(* Who knows the public VM. *)

\* Phase ready is set by the one creation at its end, or after it.
LEMMA ReadyStep == ASSUME Types, CreationInv, ReadyInv, [Next]_vars PROVE ReadyInv'
<1> USE PortalAssumption DEF PortalAssumption, Types, TypeOK, Recorded, Publics, Pids, StartSteps, RestartSteps,
        Phases, StartGoes, RestartGoes, Spawn, StopChild, GivesUp, Alive, requestVars,
        memoryVars, diskVars, boundVars, CreationInv, Beyond, SettingUp, SetUp, Digested, Working, ReadyInv
<1>1. ASSUME NEW s \in Starts, CheckStart(s) PROVE ReadyInv'
  BY <1>1 DEF CheckStart
<1>2. ASSUME NEW s \in Starts, AdmitStart(s) PROVE ReadyInv'
  BY <1>2 DEF AdmitStart
<1>3. ASSUME NEW s \in Starts, LookForDir(s) PROVE ReadyInv'
  BY <1>3 DEF LookForDir
<1>4. ASSUME NEW s \in Starts, SpawnPrivate(s) PROVE ReadyInv'
  BY <1>4 DEF SpawnPrivate
<1>5. ASSUME NEW s \in Starts, Provision(s) PROVE ReadyInv'
  BY <1>5 DEF Provision
<1>6. ASSUME NEW s \in Starts, ProvisionFails(s) PROVE ReadyInv'
  BY <1>6 DEF ProvisionFails
<1>7. ASSUME NEW s \in Starts, SpawnPublic(s) PROVE ReadyInv'
  BY <1>7 DEF SpawnPublic
<1>8. ASSUME NEW s \in Starts, PublicReached(s) PROVE ReadyInv'
  BY <1>8 DEF PublicReached
<1>9. ASSUME NEW s \in Starts, PublicNotReached(s) PROVE ReadyInv'
  BY <1>9 DEF PublicNotReached
<1>10. ASSUME NEW s \in Starts, WriteDigest(s) PROVE ReadyInv'
  BY <1>10 DEF WriteDigest
<1>11. ASSUME NEW s \in Starts, SaveRecord(s) PROVE ReadyInv'
  BY <1>11 DEF SaveRecord
<1>12. ASSUME NEW s \in Starts, PublishVm(s) PROVE ReadyInv'
  BY <1>12 DEF PublishVm
<1>13. ASSUME NEW s \in Starts, AnswerStart(s) PROVE ReadyInv'
  BY <1>13 DEF AnswerStart
<1>14. ASSUME NEW s \in Starts, FailStart(s) PROVE ReadyInv'
  BY <1>14 DEF FailStart
<1>15. ASSUME NEW s \in Starts, NEW ok \in BOOLEAN, MakeDir(s, ok) PROVE ReadyInv'
  BY <1>15 DEF MakeDir
<1>16. ASSUME NEW r \in Restarts, CheckPassword(r) PROVE ReadyInv'
  BY <1>16 DEF CheckPassword
<1>17. ASSUME NEW r \in Restarts, TakeChild(r) PROVE ReadyInv'
  BY <1>17 DEF TakeChild
<1>18. ASSUME NEW r \in Restarts, StopOld(r) PROVE ReadyInv'
  BY <1>18 DEF StopOld
<1>19. ASSUME NEW r \in Restarts, SpawnAgain(r) PROVE ReadyInv'
  BY <1>19 DEF SpawnAgain
<1>20. ASSUME NEW r \in Restarts, WritePid(r) PROVE ReadyInv'
  BY <1>20 DEF WritePid
<1>21. ASSUME NEW r \in Restarts, AgainReached(r) PROVE ReadyInv'
  BY <1>21 DEF AgainReached
<1>22. ASSUME NEW r \in Restarts, AgainNotReached(r) PROVE ReadyInv'
  BY <1>22 DEF AgainNotReached
<1>23. ASSUME NEW r \in Restarts, PublishChild(r) PROVE ReadyInv'
  BY <1>23 DEF PublishChild
<1>24. ASSUME NEW r \in Restarts, FailRestart(r) PROVE ReadyInv'
  BY <1>24 DEF FailRestart
<1>25. ASSUME NEW p \in Pids, BindPorts(p) PROVE ReadyInv'
  BY <1>25 DEF BindPorts
<1>26. ASSUME NEW p \in Pids, VmDies(p) PROVE ReadyInv'
  BY <1>26 DEF VmDies
<1>27. CASE PodRestart
  BY <1>27 DEF PodRestart
<1>28. CASE UNCHANGED vars
  BY <1>28 DEF vars
<1> QED
  BY <1>1, <1>2, <1>3, <1>4, <1>5, <1>6, <1>7, <1>8, <1>9,
     <1>10, <1>11, <1>12, <1>13, <1>14, <1>15, <1>16, <1>17, <1>18,
     <1>19, <1>20, <1>21, <1>22, <1>23, <1>24, <1>25, <1>26, <1>27,
     <1>28
  DEF Next, StartStep, RestartStep

\* One request after the other hands the pid on.
LEMMA OwnerStep == ASSUME Types, CreationInv, ReadyInv, OwnerInv, [Next]_vars PROVE OwnerInv'
<1> USE PortalAssumption DEF PortalAssumption, Types, TypeOK, Recorded, Publics, Pids, StartSteps, RestartSteps,
        Phases, StartGoes, RestartGoes, Spawn, StopChild, GivesUp, Alive, requestVars,
        memoryVars, diskVars, boundVars, CreationInv, Beyond, SettingUp, SetUp, Digested, Working, OwnerInv, Holders, Alone
<1>1. ASSUME NEW s \in Starts, CheckStart(s) PROVE OwnerInv'
  BY <1>1 DEF CheckStart
<1>2. ASSUME NEW s \in Starts, AdmitStart(s) PROVE OwnerInv'
  BY <1>2 DEF AdmitStart
<1>3. ASSUME NEW s \in Starts, LookForDir(s) PROVE OwnerInv'
  BY <1>3 DEF LookForDir
<1>4. ASSUME NEW s \in Starts, SpawnPrivate(s) PROVE OwnerInv'
  BY <1>4 DEF SpawnPrivate
<1>5. ASSUME NEW s \in Starts, Provision(s) PROVE OwnerInv'
  BY <1>5 DEF Provision
<1>6. ASSUME NEW s \in Starts, ProvisionFails(s) PROVE OwnerInv'
  BY <1>6 DEF ProvisionFails
<1>7. ASSUME NEW s \in Starts, SpawnPublic(s) PROVE OwnerInv'
  BY <1>7 DEF SpawnPublic
<1>8. ASSUME NEW s \in Starts, PublicReached(s) PROVE OwnerInv'
  BY <1>8 DEF PublicReached
<1>9. ASSUME NEW s \in Starts, PublicNotReached(s) PROVE OwnerInv'
  BY <1>9 DEF PublicNotReached
<1>10. ASSUME NEW s \in Starts, WriteDigest(s) PROVE OwnerInv'
  BY <1>10 DEF WriteDigest
<1>11. ASSUME NEW s \in Starts, SaveRecord(s) PROVE OwnerInv'
  BY <1>11 DEF SaveRecord
<1>12. ASSUME NEW s \in Starts, PublishVm(s) PROVE OwnerInv'
  BY <1>12 DEF PublishVm
<1>13. ASSUME NEW s \in Starts, AnswerStart(s) PROVE OwnerInv'
  BY <1>13 DEF AnswerStart
<1>14. ASSUME NEW s \in Starts, FailStart(s) PROVE OwnerInv'
  BY <1>14 DEF FailStart
<1>15. ASSUME NEW s \in Starts, NEW ok \in BOOLEAN, MakeDir(s, ok) PROVE OwnerInv'
  BY <1>15 DEF MakeDir
<1>16. ASSUME NEW r \in Restarts, CheckPassword(r) PROVE OwnerInv'
  <2> USE <1>16 DEF CheckPassword
  <2>1. ~overlapped' => ~overlapped /\ \A q \in Restarts : restart[q] \in {"new", "done"}
    OBVIOUS
  <2>2. \A q \in Restarts : q # r => restart'[q] = restart[q]
    OBVIOUS
  <2>3. restart'[r] \in {"matched", "failing"}
    OBVIOUS
  <2>4. ASSUME ~overlapped', slow = 0, NEW p \in Publics, Alive(p)
        PROVE  Holders(p)'
    <3>1. Holders(p)
      BY <2>1, <2>4
    <3>2. \A q \in Restarts : restart'[q] \notin Working \ {"matched"}
      BY <2>1, <2>2, <2>3, <2>4
    <3> QED
      BY <2>1, <2>4, <3>1, <3>2
  <2> QED
    BY <2>1, <2>2, <2>3, <2>4
<1>17. ASSUME NEW r \in Restarts, TakeChild(r) PROVE OwnerInv'
  BY <1>17 DEF TakeChild
<1>18. ASSUME NEW r \in Restarts, StopOld(r) PROVE OwnerInv'
  BY <1>18 DEF StopOld
<1>19. ASSUME NEW r \in Restarts, SpawnAgain(r) PROVE OwnerInv'
  BY <1>19 DEF SpawnAgain
<1>20. ASSUME NEW r \in Restarts, WritePid(r) PROVE OwnerInv'
  BY <1>20 DEF WritePid
<1>21. ASSUME NEW r \in Restarts, AgainReached(r) PROVE OwnerInv'
  BY <1>21 DEF AgainReached
<1>22. ASSUME NEW r \in Restarts, AgainNotReached(r) PROVE OwnerInv'
  BY <1>22 DEF AgainNotReached
<1>23. ASSUME NEW r \in Restarts, PublishChild(r) PROVE OwnerInv'
  BY <1>23 DEF PublishChild
<1>24. ASSUME NEW r \in Restarts, FailRestart(r) PROVE OwnerInv'
  BY <1>24 DEF FailRestart
<1>25. ASSUME NEW p \in Pids, BindPorts(p) PROVE OwnerInv'
  BY <1>25 DEF BindPorts
<1>26. ASSUME NEW p \in Pids, VmDies(p) PROVE OwnerInv'
  BY <1>26 DEF VmDies
<1>27. CASE PodRestart
  BY <1>27 DEF PodRestart
<1>28. CASE UNCHANGED vars
  BY <1>28 DEF vars
<1> QED
  BY <1>1, <1>2, <1>3, <1>4, <1>5, <1>6, <1>7, <1>8, <1>9,
     <1>10, <1>11, <1>12, <1>13, <1>14, <1>15, <1>16, <1>17, <1>18,
     <1>19, <1>20, <1>21, <1>22, <1>23, <1>24, <1>25, <1>26, <1>27,
     <1>28
  DEF Next, StartStep, RestartStep

-----------------------------------------------------------------------------
(* The results. *)

\* The inductive invariant of the portal (main.rs), for any number of requests,
\* slow boots, deaths and pod restarts.
THEOREM PortalInvariant == Spec => []PortalInv
<1>1. Init => PortalInv
  <2> SUFFICES ASSUME Init PROVE PortalInv
    OBVIOUS
  <2> USE PortalAssumption DEF PortalAssumption, Init, Publics, Pids
  <2>1. Types
    <3>1. /\ start \in [Starts -> StartSteps] /\ restart \in [Restarts -> RestartSteps]
          /\ old \in [Restarts -> Publics \cup {None}]
          /\ proc \in [Pids -> {"none", "starting", "serving", "dead"}]
      BY DEF StartSteps, RestartSteps
    <3>2. slow \in 0..MaxSlow /\ deaths \in 0..MaxDeaths /\ crashes \in 0..MaxCrashes
      OBVIOUS
    <3>3. Recorded
      BY DEF Recorded
    <3> QED
      BY <3>1, <3>2, <3>3 DEF Types, TypeOK, Phases
  <2>2. CreationInv
    BY DEF CreationInv, Beyond, SettingUp, SetUp, Digested, Working, Alive
  <2>3. ReadyInv /\ OwnerInv
    BY DEF ReadyInv, OwnerInv, Alive
  <2> QED
    BY <2>1, <2>2, <2>3 DEF PortalInv
<1>2. PortalInv /\ [Next]_vars => PortalInv'
  BY TypesStep, CreationStep, ReadyStep, OwnerStep DEF PortalInv
<1> QED
  BY <1>1, <1>2, PTL DEF Spec

\* Every variable has its type, and no VM is shown that is not on the volume.
THEOREM TypeCorrect == Spec => []TypeOK
<1>1. PortalInv => TypeOK
  BY DEF PortalInv, Types
<1> QED
  BY <1>1, PortalInvariant, PTL

\* However starts, restarts, failures and pod restarts interleave, no VM is
\* public before the guest has its root password (create_vm, restart_vm).
THEOREM SetupComesFirst == Spec => []PublicAfterSetup
<1>1. PortalInv => PublicAfterSetup
  BY PortalAssumption DEF PortalAssumption, PortalInv, CreationInv, PublicAfterSetup,
     SettingUp
<1> QED
  BY <1>1, PortalInvariant, PTL

\* The credentials that were answered are those of the guest and of the digest,
\* although start_handler's two locked sections admit several starts.
THEOREM OnePassword == Spec => []PasswordsAgree
<1>1. PortalInv => PasswordsAgree
  BY DEF PortalInv, CreationInv, PasswordsAgree
<1> QED
  BY <1>1, PortalInvariant, PTL

\* The portal owns one VM as long as restarts do not overlap and no wait for a
\* VM gives up (restart_vm).
THEOREM SerialRestartsOwn == Spec => []SerialOwnsOneVM
<1>1. PortalInv => SerialOwnsOneVM
  <2> SUFFICES ASSUME PortalInv, ~overlapped, slow = 0 PROVE OwnsOneVM
    BY DEF SerialOwnsOneVM
  <2> USE PortalAssumption DEF PortalAssumption, PortalInv, CreationInv, ReadyInv, OwnerInv,
      Beyond, SettingUp, SetUp, Digested, Working, Publics
  <2>1. \A p \in Publics : Alive(p) => Holders(p)
    OBVIOUS
  <2>2. ASSUME NEW r \in Restarts, restart[r] \in Working, NEW s \in Starts
        PROVE  start[s] \notin Beyond
    BY <2>2
  <2>3. ASSUME NEW p \in Publics, NEW q \in Publics, Holders(p), Holders(q)
        PROVE  p = q
    BY <2>2, <2>3 DEF Holders
  <2>4. ASSUME phase = "ready", NEW p \in Publics, Holders(p)
        PROVE  child = p
    BY <2>4 DEF Holders
  <2> QED
    BY <2>1, <2>3, <2>4 DEF OwnsOneVM
<1> QED
  BY <1>1, PortalInvariant, PTL
=============================================================================
