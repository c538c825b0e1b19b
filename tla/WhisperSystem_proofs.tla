------------------------ MODULE WhisperSystem_proofs --------------------------
(***************************************************************************)
(* The judge and its victims together, for any number of instances, teams  *)
(* and requests: every step is one of the pool, whose theorems carry over, *)
(* and a provisioned phone keeps what the lease put there.                 *)
(***************************************************************************)
EXTENDS WhisperSystem, WhisperPool_proofs

Phones == {"down", "up", "exiting"}

PhonesOK ==
    /\ phone \in [Instances -> Phones]
    /\ inbox \in [Instances -> Seq(Request)]
    /\ handle \in [Instances -> HandleOrNone]
    /\ flagFile \in [Instances -> Teams \cup {None}]

\* A leased phone has an identity.
LeasesNamed == \A i \in Instances : holder[i] # None => identity[i] \in 1..Handles

\* A request that leaves the lease's identity and flag on the phone.
Harmless(i, request) ==
    request.handle \in {None, identity[i]} /\ request.flag \in {None, holder[i]}

\* The reset of the lease is behind all those of earlier leases: once it has been
\* handled, and after it in the inbox, only harmless requests wait.
OwnResetLast ==
    \A i \in Instances : holder[i] # None =>
        \A k \in 1..Len(inbox[i]) :
            \/ handle[i] = identity[i]
            \/ \E j \in 1..k : inbox[i][j].handle = identity[i]
            => Harmless(i, inbox[i][k])

SystemInv == PoolInv /\ PhonesOK /\ LeasesNamed /\ OwnResetLast

\* What a step of the pool does to the lease of a phone.
LeaseKept(i)  == holder'[i] = holder[i] /\ identity'[i] = identity[i] /\ flag'[i] = flag[i]
LeaseEnds(i)  == holder'[i] = None
LeaseMade(i)  == holder[i] = None /\ holder'[i] # None /\ identity'[i] \in 1..Handles

\* A lease is kept, ended or made anew; none is handed over.
LEMMA LeaseSteps ==
    ASSUME PoolInv, [Next]_vars, NEW i \in Instances
    PROVE  LeaseKept(i) \/ LeaseEnds(i) \/ LeaseMade(i)
<1> USE DEF PoolInv, TypeOK, TablesOK, LeaseKept, LeaseEnds, LeaseMade
<1>1. CASE instVars' = instVars
  BY <1>1 DEF instVars
<1>2. ASSUME NEW t \in Teams, NEW j \in Instances, First(j, Free), Assign(t, j)
      PROVE  LeaseKept(i) \/ LeaseEnds(i) \/ LeaseMade(i)
  BY <1>2, PoolAssumption DEF First, Free, Assign, PoolAssumption
<1>3. ASSUME NEW T \in SUBSET Teams, ReleaseAll(T)
      PROVE  LeaseKept(i) \/ LeaseEnds(i)
  BY <1>3 DEF ReleaseAll
<1>4. ASSUME NEW t \in Teams, TeamStep(t)
      PROVE  LeaseKept(i) \/ LeaseEnds(i) \/ LeaseMade(i)
  <2>1. CASE LeaseNow(t)
    BY <2>1, <1>2 DEF LeaseNow
  <2>2. CASE Release(t)
    <3>1. {t} \in SUBSET Teams
      OBVIOUS
    <3> QED BY <2>2, <1>3, <3>1 DEF Release
  <2>3. CASE LeaseLater(t) \/ LeaveQueue(t) \/ PushFlag(t)
    BY <2>3, <1>1 DEF LeaseLater, LeaveQueue, PushFlag
  <2> QED
    BY <1>4, <2>1, <2>2, <2>3 DEF TeamStep
<1>5. CASE ReaperStep
  <2>1. CASE ReaperTick
    <3> DEFINE expired == {k \in Instances : lifecycle[k] = "leased" /\ holder[k] # None /\ due[k]}
               teams == {holder[k] : k \in expired}
    <3>1. teams \in SUBSET Teams
      OBVIOUS
    <3>2. ReleaseAll(teams)
      BY <2>1 DEF ReaperTick
    <3> QED
      BY <3>1, <3>2, <1>3
  <2>2. CASE PromoteHead
    <3>1. Head(queue) \in Teams
      BY <2>2, HeadTailProperties DEF PromoteHead, Promoting
    <3>2. CASE Skipped(Head(queue))
      BY <2>2, <3>2, <1>1 DEF PromoteHead
    <3>3. CASE ~Skipped(Head(queue))
      BY <2>2, <3>1, <3>3, <1>2 DEF PromoteHead
    <3> QED
      BY <3>2, <3>3
  <2>3. CASE PromoteFail \/ StartRecycles \/ NothingToPromote \/ TickDone
    BY <2>3, <1>1 DEF PromoteFail, StartRecycles, NothingToPromote, TickDone
  <2>4. CASE \E k \in Instances : MarkIdle(k)
    BY <2>4 DEF MarkIdle
  <2> QED
    BY <1>5, <2>1, <2>2, <2>3, <2>4 DEF ReaperStep
<1>6. CASE TimePasses
  <2>1. UNCHANGED <<holder, identity, flag>>
    BY <1>6 DEF TimePasses, LeaseRunsOut, CooldownEnds, AcquisitionAges, instVars
  <2> QED
    BY <2>1
<1>7. CASE JudgeRestart
  BY <1>7 DEF JudgeRestart
<1>8. ASSUME NEW k \in Instances,
             PostReset(k) \/ PostRecycle(k) \/ \E booted \in BOOLEAN : PollHealth(k, booted)
      PROVE  LeaseKept(i)
  BY <1>8 DEF PostReset, PostRecycle, PollHealth, instVars
<1>9. CASE UNCHANGED vars
  BY <1>9, <1>1 DEF vars
<1> QED
  BY <1>4, <1>5, <1>6, <1>7, <1>8, <1>9 DEF Next, PoolStep

\* Every step of the system is one of the pool, or leaves the pool alone.
LEMMA PoolOfSystemStep ==
    ASSUME [SystemNext]_systemVars
    PROVE  [Next]_vars
<1>1. CASE JudgeAlone
  BY <1>1 DEF JudgeAlone, Next
<1>2. ASSUME NEW i \in Instances, SendReset(i) \/ SendRecycle(i) \/ \E booted \in BOOLEAN : AnswerHealth(i, booted)
      PROVE  Next
  BY <1>2 DEF SendReset, SendRecycle, AnswerHealth, Next
<1>3. ASSUME NEW i \in Instances, RunnerStep(i) \/ PhoneDies(i) \/ AppDies(i)
      PROVE  UNCHANGED vars
  BY <1>3 DEF RunnerStep, PhoneDies, AppDies, HandleRecycle, Exit, Boot, Watchdog, HandleReset
<1>4. CASE UNCHANGED systemVars
  BY <1>4 DEF systemVars
<1> QED
  BY <1>1, <1>2, <1>3, <1>4 DEF SystemNext

-----------------------------------------------------------------------------
\* No lease and no request to begin with.
LEMMA SystemInitially == SystemInit => SystemInv
<1> SUFFICES ASSUME SystemInit PROVE SystemInv
  OBVIOUS
<1>1. PoolInv
  BY InitPoolInv DEF SystemInit
<1>2. PhonesOK
  BY EmptySeq DEF SystemInit, PhonesOK, Phones, HandleOrNone
<1>3. LeasesNamed /\ OwnResetLast
  BY DEF SystemInit, Init, LeasesNamed, OwnResetLast
<1> QED
  BY <1>1, <1>2, <1>3 DEF SystemInv

\* The requests of the pool and of the watchdog.
LEMMA RequestTypes ==
    ASSUME SystemInv, NEW i \in Instances
    PROVE  {Reset(identity[i], flag[i]), RecycleRequest, SelfHeal} \subseteq Request
BY DEF Reset, RecycleRequest, SelfHeal, Request, HandleOrNone, SystemInv, PoolInv, TypeOK, TablesOK

\* Another harmless request at the end of an inbox.
LEMMA SendKeepsOrder ==
    ASSUME SystemInv, NEW i \in Instances, NEW request \in Request, Send(i, request),
           holder[i] # None => Harmless(i, request),
           UNCHANGED <<phone, handle, flagFile, holder, identity>>
    PROVE  PhonesOK' /\ LeasesNamed' /\ OwnResetLast'
<1> USE DEF SystemInv, PhonesOK
<1>1. LeasesNamed'
  BY DEF LeasesNamed
<1>2. CASE inbox' = inbox
  BY <1>1, <1>2 DEF OwnResetLast, Harmless
<1>3. CASE inbox' = [inbox EXCEPT ![i] = Append(@, request)]
  <2>1. PhonesOK'
    BY <1>3, AppendProperties
  <2>2. \A q \in Instances : q # i => inbox'[q] = inbox[q]
    BY <1>3
  <2>3. /\ Len(inbox'[i]) = Len(inbox[i]) + 1 /\ Len(inbox[i]) \in Nat
        /\ inbox'[i][Len(inbox[i]) + 1] = request
        /\ \A k \in 1..Len(inbox[i]) : inbox'[i][k] = inbox[i][k]
    BY <1>3, AppendProperties, LenProperties
  <2>4. ASSUME NEW q \in Instances, holder'[q] # None, NEW k \in 1..Len(inbox'[q]),
               \/ handle'[q] = identity'[q]
               \/ \E j \in 1..k : inbox'[q][j].handle = identity'[q]
        PROVE  Harmless(q, inbox[q][k])'
    <3>1. CASE q # i
      BY <2>2, <2>4, <3>1 DEF OwnResetLast, Harmless
    <3>2. CASE q = i /\ k = Len(inbox[i]) + 1
      BY <2>3, <2>4, <3>2 DEF Harmless
    <3>3. CASE q = i /\ k \in 1..Len(inbox[i])
      <4>0. k \in 1..Len(inbox[i]) /\ 1..k \subseteq 1..Len(inbox[i])
        <5> HIDE DEF SystemInv, PhonesOK
        <5> QED BY <2>3, <3>3
      <4>1. inbox'[i][k] = inbox[i][k] /\ \A j \in 1..k : inbox'[i][j] = inbox[i][j]
        <5> HIDE DEF SystemInv, PhonesOK
        <5> QED BY <2>3, <4>0, Zenon
      <4>2. holder[i] # None /\ (handle[i] = identity[i] \/ \E j \in 1..k : inbox[i][j].handle = identity[i])
        BY <2>4, <3>3, <4>1
      <4>3. Harmless(i, inbox[i][k])
        BY <3>3, <4>2 DEF OwnResetLast
      <4> QED
        BY <3>3, <4>1, <4>3 DEF Harmless
    <3> QED
      BY <2>3, <2>4, <3>1, <3>2, <3>3
  <2> QED
    BY <1>1, <2>1, <2>4 DEF OwnResetLast
<1> QED
  BY <1>2, <1>3 DEF Send

\* The head of an inbox is handled.
LEMMA HandlingKeepsOrder ==
    ASSUME SystemInv, NEW i \in Instances, inbox[i] # <<>>,
           inbox' = [inbox EXCEPT ![i] = Tail(@)],
           NEW h \in {None, Head(inbox[i]).handle},
           handle' = [handle EXCEPT ![i] = IF h # None THEN h ELSE @],
           phone' \in [Instances -> Phones],
           flagFile' \in [Instances -> Teams \cup {None}],
           UNCHANGED <<holder, identity>>
    PROVE  PhonesOK' /\ LeasesNamed' /\ OwnResetLast'
<1> USE DEF SystemInv, PhonesOK
<1>1. LeasesNamed'
  BY DEF LeasesNamed
<1>2. /\ Tail(inbox[i]) \in Seq(Request) /\ Len(inbox[i]) \in Nat /\ Len(inbox[i]) >= 1
      /\ Head(inbox[i]) = inbox[i][1] /\ inbox[i][1] \in Request
      /\ Len(inbox'[i]) = Len(inbox[i]) - 1
      /\ \A k \in 1..Len(inbox'[i]) : inbox'[i][k] = inbox[i][k + 1]
  BY HeadTailProperties, LenProperties, EmptySeq, ElementOfSeq
<1>3. PhonesOK'
  <2>1. h \in HandleOrNone
    BY <1>2 DEF Request, HandleOrNone
  <2> QED
    BY <1>2, <2>1 DEF HandleOrNone
<1>4. ASSUME NEW q \in Instances, holder'[q] # None, NEW k \in 1..Len(inbox'[q]),
             \/ handle'[q] = identity'[q]
             \/ \E j \in 1..k : inbox'[q][j].handle = identity'[q]
      PROVE  Harmless(q, inbox[q][k])'
  <2>1. CASE q # i
    BY <1>4, <2>1 DEF OwnResetLast, Harmless
  <2>2. CASE q = i
    <3>1. k + 1 \in 1..Len(inbox[i]) /\ inbox'[i][k] = inbox[i][k + 1]
      BY <1>2, <1>4, <2>2
    <3>2. CASE handle'[i] = identity'[i]
      <4>1. handle[i] = identity[i] \/ inbox[i][1].handle = identity[i]
        BY <1>2, <3>2
      <4>2. 1 \in 1..(k + 1)
        BY <1>4
      <4> QED
        BY <1>4, <2>2, <3>1, <4>1, <4>2 DEF OwnResetLast, Harmless
    <3>3. CASE \E j \in 1..k : inbox'[i][j].handle = identity'[i]
      <4>1. PICK j \in 1..k : inbox'[i][j].handle = identity'[i]
        BY <3>3
      <4>2. j \in 1..Len(inbox'[i]) /\ j + 1 \in 1..(k + 1)
        BY <1>2, <1>4, <2>2, <4>1
      <4>3. inbox[i][j + 1].handle = identity[i]
        BY <1>2, <4>1, <4>2
      <4> QED
        BY <1>4, <2>2, <3>1, <4>2, <4>3 DEF OwnResetLast, Harmless
    <3> QED
      BY <1>4, <2>2, <3>2, <3>3
  <2> QED
    BY <2>1, <2>2
<1> QED
  BY <1>1, <1>3, <1>4 DEF OwnResetLast

\* A new lease's identity is known to no phone and in no inbox.
LEMMA JudgeKeepsOrder ==
    ASSUME SystemInv, [Next]_vars, FreshIdentities, UNCHANGED phoneVars
    PROVE  PhonesOK' /\ LeasesNamed' /\ OwnResetLast'
<1> USE DEF SystemInv, phoneVars
<1>1. PhonesOK'
  BY DEF PhonesOK
<1>2. ASSUME NEW i \in Instances PROVE LeaseKept(i) \/ LeaseEnds(i) \/ LeaseMade(i)
  BY LeaseSteps
<1>3. LeasesNamed'
  BY <1>2 DEF LeasesNamed, LeaseKept, LeaseEnds, LeaseMade
<1>4. ASSUME NEW i \in Instances, holder'[i] # None, NEW k \in 1..Len(inbox'[i]),
             \/ handle'[i] = identity'[i]
             \/ \E j \in 1..k : inbox'[i][j].handle = identity'[i]
      PROVE  Harmless(i, inbox[i][k])'
  <2>1. CASE LeaseKept(i)
    BY <1>4, <2>1 DEF LeaseKept, OwnResetLast, Harmless
  <2>2. CASE LeaseMade(i)
    <3>1. identity'[i] \notin KnownHandles(i)
      BY <2>2 DEF LeaseMade, FreshIdentities, First
    <3>2. Len(inbox[i]) \in Nat
      BY LenProperties DEF PhonesOK
    <3> QED
      BY <1>4, <3>1, <3>2 DEF KnownHandles
  <2> QED
    BY <1>2, <1>4, <2>1, <2>2 DEF LeaseEnds
<1> QED
  BY <1>1, <1>3, <1>4 DEF OwnResetLast

\* Every step of the judge, of a runner or of a phone keeps the invariant.
LEMMA SystemStep == SystemInv /\ [SystemNext]_systemVars => SystemInv'
<1> SUFFICES ASSUME SystemInv, [SystemNext]_systemVars PROVE SystemInv'
  OBVIOUS
<1>0. PoolInv'
  BY PoolOfSystemStep, StepPoolInv DEF SystemInv
<1>1. CASE JudgeAlone
  <2>1. [Next]_vars
    BY PoolOfSystemStep
  <2> QED
    BY <1>0, <1>1, <2>1, JudgeKeepsOrder DEF JudgeAlone, SystemInv
<1>2. ASSUME NEW i \in Instances, SendReset(i) PROVE SystemInv'
  <2>1. holder[i] # None => Harmless(i, Reset(identity[i], flag[i]))
    BY DEF SystemInv, PoolInv, LeaseAgreement, Harmless, Reset
  <2>2. UNCHANGED <<phone, handle, flagFile, holder, identity>>
    BY <1>2 DEF SendReset, PostReset, instVars
  <2> QED
    BY <1>0, <1>2, <2>1, <2>2, RequestTypes, SendKeepsOrder DEF SendReset, SystemInv
<1>3. ASSUME NEW i \in Instances, SendRecycle(i) PROVE SystemInv'
  <2>1. Harmless(i, RecycleRequest)
    BY DEF Harmless, RecycleRequest
  <2>2. UNCHANGED <<phone, handle, flagFile, holder, identity>>
    BY <1>3 DEF SendRecycle, PostRecycle, instVars
  <2> QED
    BY <1>0, <1>3, <2>1, <2>2, RequestTypes, SendKeepsOrder DEF SendRecycle, SystemInv
<1>4. ASSUME NEW i \in Instances, Watchdog(i) PROVE SystemInv'
  <2>1. Harmless(i, SelfHeal)
    BY DEF Harmless, SelfHeal, Reset
  <2>2. UNCHANGED <<phone, handle, flagFile, holder, identity>>
    BY <1>4 DEF Watchdog, vars, instVars
  <2> QED
    BY <1>0, <1>4, <2>1, <2>2, RequestTypes, SendKeepsOrder DEF Watchdog, SystemInv
<1>5. ASSUME NEW i \in Instances, \E booted \in BOOLEAN : AnswerHealth(i, booted) PROVE SystemInv'
  <2>1. UNCHANGED <<phoneVars, holder, identity>>
    BY <1>5 DEF AnswerHealth, PollHealth, instVars
  <2> QED
    BY <1>0, <2>1 DEF SystemInv, PhonesOK, LeasesNamed, OwnResetLast, Harmless, phoneVars
<1>6. ASSUME NEW i \in Instances, NEW outcome \in Outcomes, HandleReset(i, outcome) PROVE SystemInv'
  <2>1. inbox[i] # <<>> /\ inbox[i] \in Seq(Request)
    BY <1>6 DEF HandleReset, Pending, SystemInv, PhonesOK
  <2>2. Head(inbox[i]) \in Request
    BY <2>1, HeadTailProperties
  <2>3. flagFile' \in [Instances -> Teams \cup {None}]
    BY <1>6, <2>2 DEF HandleReset, WriteFlag, SystemInv, PhonesOK, Request
  <2>4. phone' \in [Instances -> Phones] /\ UNCHANGED <<holder, identity>>
    BY <1>6 DEF HandleReset, SystemInv, PhonesOK, vars, instVars
  <2>5. inbox' = [inbox EXCEPT ![i] = Tail(@)]
        /\ handle' = [handle EXCEPT ![i] = IF Head(inbox[i]).handle # None THEN Head(inbox[i]).handle ELSE @]
    BY <1>6 DEF HandleReset, PersistIdentity
  <2> QED
    BY <1>0, <2>1, <2>3, <2>4, <2>5, HandlingKeepsOrder DEF SystemInv
<1>7. ASSUME NEW i \in Instances, HandleRecycle(i) PROVE SystemInv'
  <2>1. inbox[i] # <<>> /\ flagFile' \in [Instances -> Teams \cup {None}]
        /\ phone' \in [Instances -> Phones] /\ UNCHANGED <<holder, identity>>
        /\ inbox' = [inbox EXCEPT ![i] = Tail(@)]
    BY <1>7 DEF HandleRecycle, Pending, SystemInv, PhonesOK, vars, instVars, Phones
  <2>2. handle' = [handle EXCEPT ![i] = IF None # None THEN None ELSE @]
    BY <1>7 DEF HandleRecycle, SystemInv, PhonesOK
  <2> QED
    BY <1>0, <2>1, <2>2, HandlingKeepsOrder DEF SystemInv
<1>8. ASSUME NEW i \in Instances, Exit(i) \/ PhoneDies(i) PROVE SystemInv'
  <2>1. /\ phone' \in [Instances -> Phones] /\ UNCHANGED <<handle, flagFile, holder, identity>>
        /\ inbox' = [inbox EXCEPT ![i] = <<>>]
    BY <1>8 DEF Exit, PhoneDies, GoDown, SystemInv, PhonesOK, vars, instVars, Phones
  <2>2. PhonesOK'
    BY <2>1, EmptySeq DEF SystemInv, PhonesOK
  <2>3. LeasesNamed'
    BY <2>1 DEF SystemInv, LeasesNamed
  <2>4. inbox'[i] = <<>> /\ Len(inbox'[i]) = 0 /\ \A q \in Instances : q # i => inbox'[q] = inbox[q]
    BY <2>1, EmptySeq DEF SystemInv, PhonesOK
  <2>5. OwnResetLast'
    BY <2>1, <2>4 DEF SystemInv, OwnResetLast, Harmless
  <2> QED
    BY <1>0, <2>2, <2>3, <2>5 DEF SystemInv
<1>9. ASSUME NEW i \in Instances, Boot(i) PROVE SystemInv'
  <2>1. /\ UNCHANGED <<inbox, holder, identity>> /\ handle' = [handle EXCEPT ![i] = None]
        /\ flagFile' = [flagFile EXCEPT ![i] = None] /\ phone' = [phone EXCEPT ![i] = "up"]
    BY <1>9 DEF Boot, vars, instVars
  <2>2. PhonesOK'
    BY <2>1 DEF SystemInv, PhonesOK, Phones, HandleOrNone
  <2>3. LeasesNamed'
    BY <2>1 DEF SystemInv, LeasesNamed
  <2>4. holder[i] # None => handle'[i] # identity[i]
    BY <2>1, PoolAssumption DEF SystemInv, PhonesOK, LeasesNamed, PoolAssumption
  <2>5. \A q \in Instances : q # i => handle'[q] = handle[q]
    BY <2>1 DEF SystemInv, PhonesOK
  <2>6. OwnResetLast'
    BY <2>1, <2>4, <2>5 DEF SystemInv, OwnResetLast, Harmless
  <2> QED
    BY <1>0, <2>2, <2>3, <2>6 DEF SystemInv
<1>10. ASSUME NEW i \in Instances, AppDies(i) PROVE SystemInv'
  <2>1. UNCHANGED <<phone, inbox, handle, flagFile, holder, identity>>
    BY <1>10 DEF AppDies, vars, instVars
  <2> QED
    BY <1>0, <2>1 DEF SystemInv, PhonesOK, LeasesNamed, OwnResetLast, Harmless
<1>11. CASE UNCHANGED systemVars
  <2>1. UNCHANGED <<phone, inbox, handle, flagFile, holder, identity>>
    BY <1>11 DEF systemVars, phoneVars, vars, instVars
  <2> QED
    BY <1>0, <2>1 DEF SystemInv, PhonesOK, LeasesNamed, OwnResetLast, Harmless
<1> QED
  BY <1>1, <1>2, <1>3, <1>4, <1>5, <1>6, <1>7, <1>8, <1>9, <1>10, <1>11 DEF SystemNext, RunnerStep

\* The inductive invariant of judge and victims together.
LEMMA SystemInvariant == SystemSpec => []SystemInv
BY SystemInitially, SystemStep, PTL DEF SystemSpec

\* A phone with the identity and flag of its lease loses them only by going down:
\* what waits in its inbox names no other.
LEMMA ProvisionStep ==
    ASSUME SystemInv, [SystemNext]_systemVars, NEW i \in Instances,
           holder[i] # None, holder'[i] = holder[i], phone[i] # "down", phone'[i] # "down",
           handle[i] = identity[i], flagFile[i] = holder[i]
    PROVE  handle'[i] = identity[i] /\ flagFile'[i] = holder[i]
<1>1. CASE UNCHANGED <<handle, flagFile>>
  BY <1>1
<1>2. ASSUME NEW q \in Instances, NEW outcome \in Outcomes, HandleReset(q, outcome)
      PROVE  handle'[i] = identity[i] /\ flagFile'[i] = holder[i]
  <2>1. CASE q # i
    BY <1>2, <2>1 DEF HandleReset, PersistIdentity, WriteFlag, SystemInv, PhonesOK
  <2>2. CASE q = i
    <3>1. inbox[i] # <<>> /\ inbox[i] \in Seq(Request)
      BY <1>2, <2>2 DEF HandleReset, Pending, SystemInv, PhonesOK
    <3>2. 1 \in 1..Len(inbox[i]) /\ Head(inbox[i]) = inbox[i][1]
      BY <3>1, HeadTailProperties, LenProperties, EmptySeq
    <3>3. Harmless(i, Head(inbox[i]))
      BY <3>2 DEF SystemInv, OwnResetLast
    <3> QED
      BY <1>2, <2>2, <3>3 DEF HandleReset, PersistIdentity, WriteFlag, SystemInv, PhonesOK, Harmless
  <2> QED
    BY <2>1, <2>2
<1>3. ASSUME NEW q \in Instances, Boot(q)
      PROVE  handle'[i] = identity[i] /\ flagFile'[i] = holder[i]
  BY <1>3 DEF Boot, SystemInv, PhonesOK
<1> QED
  BY <1>1, <1>2, <1>3 DEF SystemNext, systemVars, phoneVars, JudgeAlone, SendReset, SendRecycle, AnswerHealth,
     RunnerStep, HandleRecycle, Exit, GoDown, PhoneDies, AppDies, Watchdog

\* A reset of an earlier lease, a recycle or the watchdog never overwrites what a
\* phone has of the present lease: runner_api.py handles requests in the order in
\* which the judge has posted them.
THEOREM ProvisionIsKept == SystemSpec => ProvisionStands
<1>1. SystemInv /\ [SystemNext]_systemVars =>
         [\A i \in Instances :
          /\ holder[i] # None /\ holder'[i] = holder[i]
          /\ phone[i] # "down" /\ phone'[i] # "down"
          /\ handle[i] = identity[i] /\ flagFile[i] = holder[i]
          => handle'[i] = identity[i] /\ flagFile'[i] = holder[i] ]_systemVars
  BY ProvisionStep
<1> QED
  BY <1>1, SystemInvariant, PTL DEF SystemSpec, ProvisionStands

\* The judge with real phones behind it is a pool: what is proved of the pool on
\* its own, whatever the victims answer, holds with them.
THEOREM SystemImplementsPool == SystemSpec => Spec
<1>1. SystemInit => Init
  BY DEF SystemInit
<1>2. [SystemNext]_systemVars => [Next]_vars
  BY PoolOfSystemStep
<1> QED
  BY <1>1, <1>2, PTL DEF SystemSpec, Spec
=============================================================================
