-------------------------- MODULE WhisperPool_proofs --------------------------
(***************************************************************************)
(* Safety of the victim pool for every number of teams and phones, and     *)
(* that reached through the auth pods it implements the lease service.     *)
(*                                                                         *)
(* TypeOK is not inductive: that a released phone leaves room for another  *)
(* runner call depends on when leases may end, and that a tick frees       *)
(* exactly the phones whose leases ran out depends on the agreement of the *)
(* two tables.  PoolInv collects what the sections rely on.                *)
(***************************************************************************)
EXTENDS WhisperPods, SequenceTheorems, TLAPS

\* Room for the runner calls that the next section may start.
ThreadRoom ==
    /\ \A i \in Instances : lifecycle[i] # "leased" => resets[i] < MaxThreads
    /\ \A i \in Instances : lifecycle[i] = "leased" /\ due[i] => CallsDrained(i)
    /\ \A i \in toRecycle : recycles[i] < MaxThreads

PoolInv ==
    /\ TypeOK
    /\ LeaseAgreement
    /\ ThreadRoom
    /\ PollsOnlyBooting
    /\ QueueEligible
    /\ RateBound

-----------------------------------------------------------------------------
(* What the shared parts of the handlers do to the tables. *)

\* The tables after _do_assign of an idle phone to a team without one.
LEMMA AssignTables ==
    ASSUME TablesOK, LeaseAgreement, NEW t \in Teams, NEW i \in Free,
           lease[t] = None, cooling' = cooling, Assign(t, i)
    PROVE  TablesOK' /\ LeaseAgreement'
<1> USE PoolAssumption DEF TablesOK, Assign, Free, Lifecycles
<1>1. TablesOK'
  OBVIOUS
<1>2. \A u \in Teams, j \in Instances : lease'[u] = j <=> holder'[j] = u
  BY DEF LeaseAgreement
<1>3. \A j \in Instances :
         /\ lifecycle'[j] = "leased" <=> holder'[j] # None
         /\ holder'[j] # None => flag'[j] = holder'[j]
  BY DEF LeaseAgreement
<1> QED
  BY <1>1, <1>2, <1>3 DEF LeaseAgreement

\* The tables after _do_release of a set of teams.
LEMMA ReleaseTables ==
    ASSUME TablesOK, LeaseAgreement, NEW T \in SUBSET Teams, ReleaseAll(T)
    PROVE  /\ TablesOK' /\ LeaseAgreement'
           /\ \A i \in Instances : lifecycle'[i] =
                 IF holder[i] \in T THEN "booting" ELSE lifecycle[i]
           /\ \A i \in Instances : due'[i] = (due[i] /\ holder[i] \notin T)
<1> USE PoolAssumption DEF TablesOK, Lifecycles
<1> DEFINE freed == {lease[t] : t \in T} \ {None}
<1>1. \A i \in Instances : i \in freed <=> holder[i] \in T
  BY DEF LeaseAgreement
<1>2. TablesOK'
  BY DEF ReleaseAll
<1>3. \A i \in Instances :
         /\ holder'[i] = IF holder[i] \in T THEN None ELSE holder[i]
         /\ lifecycle'[i] = IF holder[i] \in T THEN "booting" ELSE lifecycle[i]
         /\ due'[i] = (due[i] /\ holder[i] \notin T)
         /\ flag'[i] = flag[i]
  BY <1>1 DEF ReleaseAll
<1>4. \A u \in Teams : lease'[u] = IF u \in T THEN None ELSE lease[u]
  BY DEF ReleaseAll
<1>5. LeaseAgreement'
  BY <1>3, <1>4 DEF LeaseAgreement
<1> QED
  BY <1>2, <1>3, <1>5

-----------------------------------------------------------------------------
(* The queue. *)

\* A team that is put at the end of the queue is the only newcomer.
LEMMA QueueAppend ==
    ASSUME queue \in Seq(Teams), NEW t \in Teams, t \notin Queued,
           \A j, k \in 1..Len(queue) : queue[j] = queue[k] => j = k,
           queue' = Append(queue, t)
    PROVE  /\ queue' \in Seq(Teams)
           /\ Queued' = Queued \cup {t}
           /\ \A j, k \in 1..Len(queue') : queue'[j] = queue'[k] => j = k
<1>1. queue' \in Seq(Teams) /\ Len(queue') = Len(queue) + 1
  BY AppendProperties
<1>2. \A k \in 1..Len(queue) : queue'[k] = queue[k]
  BY AppendProperties
<1>3. queue'[Len(queue) + 1] = t /\ Len(queue) \in Nat
  BY AppendProperties, LenProperties
<1>4. Queued' = Queued \cup {t}
  BY <1>1, <1>2, <1>3 DEF Queued
<1> QED
  BY <1>1, <1>2, <1>3, <1>4 DEF Queued

\* Without its head the queue has one team less.
LEMMA QueueTail ==
    ASSUME queue \in Seq(Teams), queue # <<>>,
           \A j, k \in 1..Len(queue) : queue[j] = queue[k] => j = k,
           queue' = Tail(queue)
    PROVE  /\ queue' \in Seq(Teams)
           /\ Head(queue) \in Queued
           /\ Queued' = Queued \ {Head(queue)}
           /\ \A j, k \in 1..Len(queue') : queue'[j] = queue'[k] => j = k
<1>1. queue' \in Seq(Teams) /\ Len(queue') = Len(queue) - 1 /\ Head(queue) = queue[1]
  BY HeadTailProperties
<1>2. Len(queue) \in Nat /\ Len(queue) # 0
  BY LenProperties, EmptySeq
<1>3. \A k \in 1..Len(queue') : queue'[k] = queue[k + 1]
  BY <1>1, <1>2, HeadTailProperties
<1>4. Head(queue) \in Queued
  BY <1>1, <1>2 DEF Queued
<1>5. Queued' = Queued \ {Head(queue)}
  <2>1. ASSUME NEW t \in Queued' PROVE t \in Queued /\ t # Head(queue)
    BY <1>1, <1>2, <1>3 DEF Queued
  <2>2. ASSUME NEW t \in Queued, t # Head(queue) PROVE t \in Queued'
    <3>1. PICK k \in 1..Len(queue) : queue[k] = t
      BY DEF Queued
    <3>2. k - 1 \in 1..Len(queue') /\ queue'[k - 1] = t
      BY <1>1, <1>2, <1>3, <2>2, <3>1
    <3> QED
      BY <3>2 DEF Queued
  <2> QED
    BY <2>1, <2>2
<1> QED
  BY <1>1, <1>2, <1>3, <1>4, <1>5

\* Without one of its teams the queue keeps the others.
LEMMA QueueRemove ==
    ASSUME queue \in Seq(Teams), NEW t, RemoveFirst(t),
           \A j, k \in 1..Len(queue) : queue[j] = queue[k] => j = k
    PROVE  /\ queue' \in Seq(Teams)
           /\ Queued' \subseteq Queued
           /\ \A j, k \in 1..Len(queue') : queue'[j] = queue'[k] => j = k
<1>1. PICK p \in 1..Len(queue) :
         queue' = [j \in 1..(Len(queue) - 1) |->
                      IF j < p THEN queue[j] ELSE queue[j + 1]]
  BY DEF RemoveFirst
<1>2. Len(queue) \in Nat /\ \A k \in 1..Len(queue) : queue[k] \in Teams
  BY LenProperties, ElementOfSeq
<1>3. \A j \in 1..(Len(queue) - 1) :
         (IF j < p THEN queue[j] ELSE queue[j + 1]) \in Teams
  BY <1>2
<1>4. queue' \in [1..(Len(queue) - 1) -> Teams] /\ Len(queue) - 1 \in Nat
  BY <1>1, <1>2, <1>3
<1>5. queue' \in Seq(Teams)
  BY <1>4, SeqDef
<1>6. Len(queue') = Len(queue) - 1
  BY <1>4, <1>5, LenProperties
<1>7. Queued' \subseteq Queued
  BY <1>1, <1>2, <1>6 DEF Queued
<1>8. \A j, k \in 1..(Len(queue) - 1) : queue'[j] = queue'[k] => j = k
  <2> DEFINE place(j) == IF j < p THEN j ELSE j + 1
  <2>1. \A j \in 1..(Len(queue) - 1) :
           place(j) \in 1..Len(queue) /\ queue'[j] = queue[place(j)]
    BY <1>1, <1>2
  <2>2. \A j, k \in 1..(Len(queue) - 1) : place(j) = place(k) => j = k
    BY <1>2
  <2> HIDE DEF place
  <2> QED
    BY <2>1, <2>2
<1> QED
  BY <1>5, <1>6, <1>7, <1>8

-----------------------------------------------------------------------------
(* PoolInv holds initially and every section preserves it. *)

\* At the start all phones are free and nobody waits.
LEMMA InitPoolInv == Init => PoolInv
<1> SUFFICES ASSUME Init PROVE PoolInv
  OBVIOUS
<1> USE PoolAssumption DEF Init
<1>1. queue \in Seq(Teams) /\ Len(queue) = 0
  BY EmptySeq
<1>2. TypeOK
  BY <1>1 DEF TypeOK, TablesOK, ThreadsOK, ReaperOK, Lifecycles, ReaperSteps
<1>3. LeaseAgreement /\ ThreadRoom /\ PollsOnlyBooting /\ RateBound
  BY DEF LeaseAgreement, ThreadRoom, PollsOnlyBooting, RateBound
<1>4. QueueEligible
  BY <1>1 DEF QueueEligible, Queued
<1> QED
  BY <1>2, <1>3, <1>4 DEF PoolInv

\* A team that may acquire a phone has none, by the agreement of the tables.
LEMMA NoLease ==
    ASSUME TablesOK, LeaseAgreement, NEW t \in Teams
    PROVE  /\ ~HasLease(t) => lease[t] = None
           /\ HasLease(t) => lease[t] \in Instances /\ holder[lease[t]] = t
<1>1. lease[t] \in Instances \cup {None}
  BY DEF TablesOK
<1>2. lease[t] \in Instances => holder[lease[t]] = t
  BY DEF LeaseAgreement
<1> QED
  BY <1>1, <1>2 DEF HasLease

\* An assignment starts a reset thread where there is room for it.
LEMMA AssignThreadRoom ==
    ASSUME TablesOK, ThreadsOK, ThreadRoom, NEW t \in Teams, NEW i \in Free,
           Assign(t, i), UNCHANGED <<recycles, toRecycle>>
    PROVE  ThreadRoom'
<1>1. i \in Instances /\ lifecycle'[i] = "leased" /\ ~due'[i]
  BY DEF Assign, Free, TablesOK
<1>2. \A j \in Instances \ {i} :
         lifecycle'[j] = lifecycle[j] /\ due'[j] = due[j] /\ resets'[j] = resets[j]
  BY DEF Assign, Free, TablesOK, ThreadsOK
<1> QED
  BY <1>1, <1>2 DEF ThreadRoom, CallsDrained

\* A lease of an idle phone.
LEMMA LeaseNowPreserves ==
    ASSUME PoolInv, NEW t \in Teams, LeaseNow(t)
    PROVE  PoolInv'
<1> USE PoolAssumption DEF PoolInv, TypeOK
<1>1. PICK i \in Instances : First(i, Free) /\ Assign(t, i)
  BY DEF LeaseNow
<1>2. /\ i \in Free /\ lease[t] = None /\ t \notin Queued
      /\ recent[t] < LeaseRateMax
  BY <1>1, NoLease DEF LeaseNow, MayAcquire, First, RateLimited, TablesOK
<1>3. UNCHANGED <<cooling, queue, pushed, recycles, reaper, toRecycle, toPoll, restarts>>
  BY DEF LeaseNow, reaperVars
<1>4. TablesOK' /\ LeaseAgreement'
  BY <1>1, <1>2, <1>3, AssignTables
<1>5. ThreadsOK'
  BY <1>1, <1>2, <1>3 DEF ThreadsOK, ThreadRoom, Assign, Free
<1>6. ThreadRoom'
  BY <1>1, <1>2, <1>3, AssignThreadRoom
<1>7. ReaperOK' /\ PollsOnlyBooting'
  BY <1>1, <1>2, <1>3 DEF ReaperOK, PollsOnlyBooting, Assign, Free, TablesOK
<1>8. QueueEligible' /\ RateBound'
  BY <1>1, <1>2, <1>3
     DEF QueueEligible, RateBound, RateLimited, Queued, Assign, TablesOK
<1> QED
  BY <1>3, <1>4, <1>5, <1>6, <1>7, <1>8

\* A place in the queue.
LEMMA LeaseLaterPreserves ==
    ASSUME PoolInv, NEW t \in Teams, LeaseLater(t)
    PROVE  PoolInv'
<1> USE PoolAssumption DEF PoolInv, TypeOK
<1>1. lease[t] = None /\ t \notin Queued /\ ~cooling[t] /\ ~RateLimited(t)
  BY NoLease DEF LeaseLater, MayAcquire
<1>2. UNCHANGED <<instVars, teamVars, pushed, threadVars, reaperVars, restarts>>
  BY DEF LeaseLater
<1>3. /\ TablesOK' /\ LeaseAgreement' /\ ThreadsOK' /\ ThreadRoom'
      /\ ReaperOK' /\ PollsOnlyBooting' /\ RateBound'
  BY <1>2 DEF instVars, teamVars, threadVars, reaperVars, TablesOK, LeaseAgreement,
     ThreadsOK, ThreadRoom, CallsDrained, ReaperOK, PollsOnlyBooting, RateBound
<1>4. /\ queue' \in Seq(Teams) /\ Queued' = Queued \cup {t}
      /\ \A j, k \in 1..Len(queue') : queue'[j] = queue'[k] => j = k
  BY <1>1, QueueAppend DEF LeaseLater, QueueEligible
<1>5. QueueEligible'
  BY <1>1, <1>2, <1>4 DEF QueueEligible, RateLimited, teamVars
<1> QED
  BY <1>2, <1>3, <1>4, <1>5

\* A team that gives up its place.
LEMMA LeaveQueuePreserves ==
    ASSUME PoolInv, NEW t \in Teams, LeaveQueue(t)
    PROVE  PoolInv'
<1> USE PoolAssumption DEF PoolInv, TypeOK
<1>1. UNCHANGED <<instVars, teamVars, pushed, threadVars, reaperVars, restarts>>
  BY DEF LeaveQueue
<1>2. /\ TablesOK' /\ LeaseAgreement' /\ ThreadsOK' /\ ThreadRoom'
      /\ ReaperOK' /\ PollsOnlyBooting' /\ RateBound'
  BY <1>1 DEF instVars, teamVars, threadVars, reaperVars, TablesOK, LeaseAgreement,
     ThreadsOK, ThreadRoom, CallsDrained, ReaperOK, PollsOnlyBooting, RateBound
<1>3. /\ queue' \in Seq(Teams) /\ Queued' \subseteq Queued
      /\ \A j, k \in 1..Len(queue') : queue'[j] = queue'[k] => j = k
  BY QueueRemove DEF LeaveQueue, QueueEligible
<1>4. QueueEligible'
  BY <1>1, <1>3 DEF QueueEligible, RateLimited, teamVars
<1> QED
  BY <1>1, <1>2, <1>3, <1>4

\* The end of a lease by its team.
LEMMA ReleasePreserves ==
    ASSUME PoolInv, NEW t \in Teams, Release(t)
    PROVE  PoolInv'
<1> USE PoolAssumption DEF PoolInv, TypeOK
<1>1. PICK i \in Instances : i = lease[t] /\ holder[i] = t /\ CallsDrained(i)
  BY NoLease DEF Release
<1>2. UNCHANGED <<queue, pushed, resets, reaper, toRecycle, toPoll, restarts>>
  BY DEF Release, reaperVars
<1>3. recycles' = [recycles EXCEPT ![i] = @ + 1] /\ ReleaseAll({t})
  BY <1>1 DEF Release
<1>4. /\ TablesOK' /\ LeaseAgreement'
      /\ \A j \in Instances : lifecycle'[j] =
            IF holder[j] \in {t} THEN "booting" ELSE lifecycle[j]
      /\ \A j \in Instances : due'[j] = (due[j] /\ holder[j] \notin {t})
  BY <1>3, ReleaseTables
<1>5. \A j \in Instances : holder[j] = t <=> j = i
  BY <1>1 DEF LeaseAgreement
<1>6. ThreadsOK'
  BY <1>1, <1>2, <1>3 DEF ThreadsOK, CallsDrained
<1>7. ThreadRoom'
  <2>1. i \notin toRecycle
    <3>1. holder[i] # None
      BY <1>1
    <3>2. lifecycle[i] = "leased"
      BY <3>1 DEF LeaseAgreement
    <3> QED
      BY <3>2 DEF PollsOnlyBooting
  <2>2. \A j \in Instances : j # i => recycles'[j] = recycles[j]
    BY <1>1, <1>3 DEF ThreadsOK
  <2>3. \A j \in Instances : lifecycle'[j] # "leased" => resets'[j] < MaxThreads
    BY <1>1, <1>2, <1>4, <1>5 DEF ThreadRoom, CallsDrained
  <2>4. \A j \in Instances : lifecycle'[j] = "leased" /\ due'[j] => CallsDrained(j)'
    BY <1>2, <1>4, <1>5, <2>2 DEF ThreadRoom, CallsDrained
  <2>5. \A j \in toRecycle' : recycles'[j] < MaxThreads
    BY <1>2, <2>1, <2>2 DEF ThreadRoom, ReaperOK
  <2> QED
    BY <2>3, <2>4, <2>5 DEF ThreadRoom
<1>8. ReaperOK' /\ PollsOnlyBooting'
  BY <1>2, <1>4 DEF ReaperOK, PollsOnlyBooting
<1>9. QueueEligible' /\ RateBound'
  <2>1. recent' = recent /\ \A u \in Teams : u # t => lease'[u] = lease[u] /\ cooling'[u] = cooling[u]
    BY <1>3 DEF ReleaseAll, TablesOK
  <2>2. t \notin Queued
    BY <1>1 DEF QueueEligible
  <2>3. Queued \subseteq Teams
    BY ElementOfSeq DEF Queued
  <2> QED
    BY <1>2, <2>1, <2>2, <2>3 DEF QueueEligible, RateBound, RateLimited, Queued
<1> QED
  BY <1>2, <1>4, <1>6, <1>7, <1>8, <1>9

\* The tick releases exactly the phones whose leases have run out.
LEMMA ReaperTickPreserves ==
    ASSUME PoolInv, ReaperTick
    PROVE  PoolInv'
<1> USE PoolAssumption DEF PoolInv, TypeOK
<1> DEFINE expired == {i \in Instances :
                          lifecycle[i] = "leased" /\ holder[i] # None /\ due[i]}
           teams == {holder[i] : i \in expired}
<1>1. /\ reaper = "sleeping" /\ reaper' = "promoting"
      /\ ReleaseAll(teams)
      /\ toRecycle' = {lease[t] : t \in teams} \ {None}
      /\ toPoll' = {i \in Instances : lifecycle'[i] = "booting"}
      /\ UNCHANGED <<queue, pushed, resets, recycles, restarts>>
  BY DEF ReaperTick, threadVars
<1>2. teams \in SUBSET Teams
  BY DEF TablesOK
<1>3. \A i \in Instances : holder[i] \in teams <=> i \in expired
  BY DEF LeaseAgreement, TablesOK
<1>4. toRecycle' = expired
  BY <1>1, <1>2, <1>3 DEF LeaseAgreement, TablesOK
<1>5. /\ TablesOK' /\ LeaseAgreement'
      /\ \A i \in Instances : lifecycle'[i] =
            IF holder[i] \in teams THEN "booting" ELSE lifecycle[i]
      /\ \A i \in Instances : due'[i] = (due[i] /\ holder[i] \notin teams)
  BY <1>1, <1>2, ReleaseTables
<1>6. ThreadsOK'
  BY <1>1 DEF ThreadsOK
<1>7. ThreadRoom'
  BY <1>1, <1>3, <1>4, <1>5 DEF ThreadRoom, CallsDrained
<1>8. ReaperOK' /\ PollsOnlyBooting'
  BY <1>1, <1>3, <1>4, <1>5 DEF ReaperOK, ReaperSteps, PollsOnlyBooting
<1>9. QueueEligible' /\ RateBound'
  <2>1. /\ recent' = recent
        /\ \A t \in Teams : lease[t] = None => lease'[t] = None /\ cooling'[t] = cooling[t]
    BY <1>1 DEF ReleaseAll, TablesOK
  <2>2. Queued \subseteq Teams
    BY ElementOfSeq DEF Queued
  <2> QED
    BY <1>1, <2>1, <2>2 DEF QueueEligible, RateBound, RateLimited, Queued
<1> QED
  BY <1>1, <1>5, <1>6, <1>7, <1>8, <1>9

\* The head of the queue is never skipped, and the phone it gets leaves every
\* other waiting team as eligible as it was.
LEMMA PromoteHeadPreserves ==
    ASSUME PoolInv, PromoteHead
    PROVE  PoolInv'
<1> USE PoolAssumption DEF PoolInv, TypeOK
<1> DEFINE t == Head(queue)
<1>1. /\ queue # <<>> /\ queue' = Tail(queue)
      /\ UNCHANGED <<cooling, pushed, recycles, toRecycle, toPoll, restarts>>
  BY DEF PromoteHead, Promoting
<1>2. /\ queue' \in Seq(Teams) /\ t \in Queued /\ Queued' = Queued \ {t}
      /\ \A j, k \in 1..Len(queue') : queue'[j] = queue'[k] => j = k
  BY <1>1, QueueTail DEF QueueEligible
<1>3. t \in Teams /\ lease[t] = None /\ recent[t] < LeaseRateMax
  BY <1>2, ElementOfSeq DEF QueueEligible, RateLimited, Queued, TablesOK
<1>4. ~Skipped(t)
  BY <1>2 DEF QueueEligible, Skipped
<1>5. PICK i \in Instances : First(i, Free) /\ Assign(t, i)
  BY <1>4 DEF PromoteHead
<1>6. /\ i \in Free /\ reaper \in {"promoting", "handing"}
      /\ reaper' = IF reaper = "handing" THEN "polling" ELSE reaper
  BY <1>4, <1>5 DEF PromoteHead, Promoting, First
<1>7. TablesOK' /\ LeaseAgreement'
  BY <1>1, <1>3, <1>5, <1>6, AssignTables
<1>8. ThreadsOK'
  BY <1>1, <1>5, <1>6 DEF ThreadsOK, ThreadRoom, Assign, Free
<1>9. ThreadRoom'
  BY <1>1, <1>3, <1>5, <1>6, AssignThreadRoom
<1>10. ReaperOK' /\ PollsOnlyBooting'
  BY <1>1, <1>5, <1>6
     DEF ReaperOK, ReaperSteps, PollsOnlyBooting, Assign, Free, TablesOK
<1>11. \A u \in Teams : /\ recent'[u] = IF u = t THEN recent[u] + 1 ELSE recent[u]
                        /\ u # t => lease'[u] = lease[u]
  BY <1>3, <1>5 DEF Assign, TablesOK
<1>12. Queued \subseteq Teams
  BY ElementOfSeq DEF Queued
<1>13. QueueEligible'
  BY <1>1, <1>2, <1>11, <1>12 DEF QueueEligible, RateLimited
<1>14. RateBound'
  <2>1. \A u \in Teams : recent[u] \in Nat /\ recent[u] <= LeaseRateMax
    BY DEF RateBound, TablesOK
  <2>2. \A u \in Teams : recent'[u] <= LeaseRateMax
    BY <1>3, <1>11, <2>1
  <2> QED
    BY <2>2 DEF RateBound
<1> QED
  BY <1>1, <1>2, <1>7, <1>8, <1>9, <1>10, <1>13, <1>14

\* A failed promotion drops the head and forgets the tick.
LEMMA PromoteFailPreserves ==
    ASSUME PoolInv, PromoteFail
    PROVE  PoolInv'
<1> USE PoolAssumption DEF PoolInv, TypeOK
<1>1. /\ queue # <<>> /\ queue' = Tail(queue)
      /\ reaper' = "sleeping" /\ toRecycle' = {} /\ toPoll' = {}
      /\ UNCHANGED <<instVars, teamVars, pushed, threadVars, restarts>>
  BY DEF PromoteFail, Promoting, AbortTick
<1>2. /\ queue' \in Seq(Teams) /\ Queued' = Queued \ {Head(queue)}
      /\ \A j, k \in 1..Len(queue') : queue'[j] = queue'[k] => j = k
  BY <1>1, QueueTail DEF QueueEligible
<1>3. /\ TablesOK' /\ LeaseAgreement' /\ ThreadsOK' /\ ThreadRoom'
      /\ ReaperOK' /\ PollsOnlyBooting' /\ RateBound'
  BY <1>1 DEF instVars, teamVars, threadVars, TablesOK, LeaseAgreement, ThreadsOK,
     ThreadRoom, CallsDrained, ReaperOK, ReaperSteps, PollsOnlyBooting, RateBound
<1>4. QueueEligible'
  BY <1>1, <1>2 DEF QueueEligible, RateLimited, teamVars
<1> QED
  BY <1>1, <1>2, <1>3, <1>4

\* The recycle threads of a tick.
LEMMA StartRecyclesPreserves ==
    ASSUME PoolInv, StartRecycles
    PROVE  PoolInv'
<1> USE PoolAssumption DEF PoolInv, TypeOK
<1>1. /\ reaper' = "polling" /\ toRecycle' = {}
      /\ recycles' = [i \in Instances |->
                         IF i \in toRecycle THEN recycles[i] + 1 ELSE recycles[i]]
      /\ UNCHANGED <<instVars, teamVars, queue, pushed, resets, toPoll, restarts>>
  BY DEF StartRecycles
<1>2. TablesOK' /\ LeaseAgreement' /\ QueueEligible' /\ RateBound'
  BY <1>1 DEF instVars, teamVars, TablesOK, LeaseAgreement, QueueEligible, Queued,
     RateLimited, RateBound
<1>3. ThreadsOK'
  BY <1>1 DEF ThreadsOK, ThreadRoom, ReaperOK
<1>4. ThreadRoom' /\ ReaperOK' /\ PollsOnlyBooting'
  BY <1>1 DEF ThreadRoom, CallsDrained, ReaperOK, ReaperSteps, PollsOnlyBooting,
     ThreadsOK, instVars
<1> QED
  BY <1>1, <1>2, <1>3, <1>4

\* A phone that answers is still booting: only the reaper ends that.
LEMMA MarkIdlePreserves ==
    ASSUME PoolInv, NEW i \in Instances, MarkIdle(i)
    PROVE  PoolInv'
<1> USE PoolAssumption DEF PoolInv, TypeOK
<1>1. /\ reaper = "booted" /\ i \in toPoll /\ toPoll' = toPoll \ {i}
      /\ UNCHANGED <<holder, due, flag, identity, teamVars, queue, pushed,
                     threadVars, toRecycle, restarts>>
  BY DEF MarkIdle, First
<1>2. lifecycle[i] = "booting"
  BY <1>1 DEF PollsOnlyBooting
<1>3. /\ lifecycle' = [lifecycle EXCEPT ![i] = "idle"] /\ reaper' = "handing"
  BY <1>2 DEF MarkIdle
<1>4. TablesOK' /\ LeaseAgreement'
  BY <1>1, <1>2, <1>3 DEF TablesOK, LeaseAgreement, Lifecycles, teamVars
<1>5. QueueEligible' /\ RateBound'
  BY <1>1 DEF QueueEligible, RateBound, Queued, RateLimited, teamVars
<1>6. ThreadsOK' /\ ThreadRoom'
  BY <1>1, <1>2, <1>3 DEF ThreadsOK, ThreadRoom, CallsDrained, threadVars, TablesOK
<1>7. toRecycle = {}
  BY <1>1 DEF PollsOnlyBooting
<1>8. ReaperOK' /\ PollsOnlyBooting'
  BY <1>1, <1>3, <1>7 DEF ReaperOK, ReaperSteps, PollsOnlyBooting, TablesOK
<1> QED
  BY <1>1, <1>4, <1>5, <1>6, <1>8

\* The reaper's steps that only move it along.
LEMMA ReaperMovesPreserve ==
    ASSUME PoolInv,
           \/ \E i \in Instances, booted \in BOOLEAN : PollHealth(i, booted)
           \/ NothingToPromote
           \/ TickDone
    PROVE  PoolInv'
<1> USE PoolAssumption DEF PoolInv, TypeOK
<1>1. UNCHANGED <<instVars, teamVars, queue, pushed, threadVars, toRecycle, restarts>>
  BY DEF PollHealth, NothingToPromote, TickDone
<1>2. /\ reaper # "promoting" /\ reaper' \in {"sleeping", "polling", "booted"}
      /\ toPoll' \subseteq toPoll
  BY DEF PollHealth, NothingToPromote, TickDone
<1>3. TablesOK' /\ LeaseAgreement' /\ QueueEligible' /\ RateBound'
  BY <1>1 DEF instVars, teamVars, TablesOK, LeaseAgreement, QueueEligible, Queued,
     RateLimited, RateBound
<1>4. ThreadsOK' /\ ThreadRoom' /\ ReaperOK' /\ PollsOnlyBooting'
  BY <1>1, <1>2 DEF ThreadsOK, ThreadRoom, CallsDrained, ReaperOK, ReaperSteps,
     PollsOnlyBooting, threadVars, instVars
<1> QED
  BY <1>1, <1>3, <1>4

\* The steps of the HTTP threads, of the clocks and of the flag file.
LEMMA OutsideStepsPreserve ==
    ASSUME PoolInv,
           \/ \E i \in Instances : PostReset(i) \/ PostRecycle(i) \/ LeaseRunsOut(i)
           \/ \E t \in Teams : CooldownEnds(t) \/ AcquisitionAges(t) \/ PushFlag(t)
    PROVE  PoolInv'
<1> USE PoolAssumption DEF PoolInv, TypeOK, instVars, teamVars, threadVars, reaperVars
<1>1. CASE \E i \in Instances : PostReset(i) \/ PostRecycle(i)
  <2>1. /\ UNCHANGED <<instVars, teamVars, queue, pushed, reaperVars, restarts>>
        /\ ThreadsOK'
        /\ \A i \in Instances : resets'[i] <= resets[i] /\ recycles'[i] <= recycles[i]
    <3>1. PICK i \in Instances : PostReset(i) \/ PostRecycle(i)
      BY <1>1
    <3>2. CASE PostReset(i)
      BY <3>2 DEF PostReset, ThreadsOK
    <3>3. CASE PostRecycle(i)
      BY <3>3 DEF PostRecycle, ThreadsOK
    <3> QED
      BY <3>1, <3>2, <3>3
  <2>2. ThreadRoom'
    BY <2>1 DEF ThreadRoom, CallsDrained, ThreadsOK, ReaperOK
  <2> QED
    BY <2>1, <2>2 DEF TablesOK, ReaperOK, LeaseAgreement, PollsOnlyBooting,
       QueueEligible, Queued, RateLimited, RateBound
<1>2. CASE \E i \in Instances : LeaseRunsOut(i)
  <2>1. PICK i \in Instances : LeaseRunsOut(i)
    BY <1>2
  <2>2. /\ UNCHANGED <<lifecycle, holder, flag, identity, teamVars, queue, pushed,
                       threadVars, reaperVars, restarts>>
        /\ due' = [due EXCEPT ![i] = TRUE] /\ CallsDrained(i)
    BY <2>1 DEF LeaseRunsOut
  <2>3. TablesOK' /\ ThreadRoom'
    BY <2>2 DEF TablesOK, ThreadRoom, CallsDrained
  <2>4. LeaseAgreement' /\ PollsOnlyBooting'
    BY <2>2 DEF LeaseAgreement, PollsOnlyBooting
  <2>5. QueueEligible' /\ RateBound'
    BY <2>2 DEF QueueEligible, Queued, RateLimited, RateBound
  <2>6. ThreadsOK' /\ ReaperOK' /\ queue' \in Seq(Teams)
        /\ pushed' \in SUBSET Teams /\ restarts' \in 0..MaxRestarts
    BY <2>2 DEF ThreadsOK, ReaperOK
  <2> QED
    BY <2>3, <2>4, <2>5, <2>6
<1>3. CASE \E t \in Teams : CooldownEnds(t) \/ AcquisitionAges(t)
  <2>1. /\ UNCHANGED <<instVars, lease, queue, pushed, threadVars, reaperVars, restarts>>
        /\ cooling' \in [Teams -> BOOLEAN] /\ recent' \in [Teams -> Nat]
        /\ \A t \in Teams : (cooling'[t] => cooling[t]) /\ recent'[t] <= recent[t]
    <3>1. PICK t \in Teams : CooldownEnds(t) \/ AcquisitionAges(t)
      BY <1>3
    <3>2. CASE CooldownEnds(t)
      BY <3>2 DEF CooldownEnds, TablesOK
    <3>3. CASE AcquisitionAges(t)
      BY <3>3 DEF AcquisitionAges, TablesOK
    <3> QED
      BY <3>1, <3>2, <3>3
  <2>2. QueueEligible'
    <3>1. Queued \subseteq Teams /\ Queued' = Queued
      BY <2>1, ElementOfSeq DEF Queued
    <3> QED
      BY <2>1, <3>1 DEF QueueEligible, RateLimited, TablesOK
  <2>3. RateBound'
    BY <2>1 DEF RateBound, TablesOK
  <2> QED
    BY <2>1, <2>2, <2>3 DEF TablesOK, ThreadsOK, ThreadRoom, CallsDrained, ReaperOK,
       LeaseAgreement, PollsOnlyBooting
<1>4. CASE \E t \in Teams : PushFlag(t)
  <2>1. /\ UNCHANGED <<instVars, teamVars, queue, threadVars, reaperVars, restarts>>
        /\ pushed' \in SUBSET Teams
    BY <1>4 DEF PushFlag
  <2> QED
    BY <2>1 DEF TablesOK, ThreadsOK, ThreadRoom, CallsDrained, ReaperOK,
       LeaseAgreement, PollsOnlyBooting, QueueEligible, Queued, RateLimited, RateBound
<1> QED
  BY <1>1, <1>2, <1>3, <1>4

\* A restart of the judge is its initial state, but for the flag file.
LEMMA JudgeRestartPreserves ==
    ASSUME PoolInv, JudgeRestart
    PROVE  PoolInv'
<1> USE PoolAssumption DEF PoolInv, TypeOK, JudgeRestart
<1>1. queue' \in Seq(Teams) /\ Len(queue') = 0
  BY EmptySeq
<1>2. TablesOK' /\ ThreadsOK' /\ ReaperOK'
  BY DEF TablesOK, ThreadsOK, ReaperOK, Lifecycles, ReaperSteps
<1>3. LeaseAgreement' /\ ThreadRoom' /\ PollsOnlyBooting' /\ RateBound'
  BY DEF LeaseAgreement, ThreadRoom, PollsOnlyBooting, RateBound
<1>4. QueueEligible'
  BY <1>1 DEF QueueEligible, Queued
<1> QED
  BY <1>1, <1>2, <1>3, <1>4

\* Every step keeps the invariant.
LEMMA StepPoolInv == PoolInv /\ [Next]_vars => PoolInv'
<1> SUFFICES ASSUME PoolInv, [Next]_vars PROVE PoolInv'
  OBVIOUS
<1>1. ASSUME NEW t \in Teams, TeamStep(t) PROVE PoolInv'
  BY <1>1, LeaseNowPreserves, LeaseLaterPreserves, ReleasePreserves,
     LeaveQueuePreserves, OutsideStepsPreserve DEF TeamStep
<1>2. CASE ReaperStep
  BY <1>2, ReaperTickPreserves, PromoteHeadPreserves, PromoteFailPreserves,
     StartRecyclesPreserves, ReaperMovesPreserve, MarkIdlePreserves DEF ReaperStep
<1>3. CASE TimePasses
  BY <1>3, OutsideStepsPreserve DEF TimePasses
<1>4. CASE JudgeRestart
  BY <1>4, JudgeRestartPreserves
<1>5. ASSUME NEW i \in Instances,
             PostReset(i) \/ PostRecycle(i) \/ \E booted \in BOOLEAN : PollHealth(i, booted)
      PROVE  PoolInv'
  BY <1>5, OutsideStepsPreserve, ReaperMovesPreserve
<1>6. CASE UNCHANGED vars
  BY <1>6 DEF vars, instVars, teamVars, threadVars, reaperVars, PoolInv, TypeOK,
     TablesOK, ThreadsOK, ThreadRoom, CallsDrained, ReaperOK, LeaseAgreement,
     PollsOnlyBooting, QueueEligible, Queued, RateLimited, RateBound
<1> QED
  BY <1>1, <1>2, <1>3, <1>4, <1>5, <1>6 DEF Next, PoolStep

-----------------------------------------------------------------------------
\* The strengthened invariant of the pool.
THEOREM PoolInvariant == Spec => []PoolInv
<1>1. Init => PoolInv
  BY InitPoolInv
<1>2. PoolInv /\ [Next]_vars => PoolInv'
  BY StepPoolInv
<1> QED
  BY <1>1, <1>2, PTL DEF Spec

\* Every variable keeps its type; in particular the guards that bound the runner
\* calls in flight are enough, although three sections start such calls.
THEOREM TypeCorrect == Spec => []TypeOK
<1>1. PoolInv => TypeOK
  BY DEF PoolInv
<1> QED
  BY <1>1, PoolInvariant, PTL

\* Whatever the interleaving of requests, ticks, failed promotions and restarts,
\* no phone serves two teams, no team holds two phones, and the flag noted for a
\* leased phone is its team's (_do_assign, _do_release).
THEOREM TablesAgree == Spec => []LeaseAgreement
<1>1. PoolInv => LeaseAgreement
  BY DEF PoolInv
<1> QED
  BY <1>1, PoolInvariant, PTL

\* No team acquires more phones in a window than LEASE_RATE_MAX, although a
\* promotion does not look at the rate: a queued team keeps its allowance.
THEOREM RateKept == Spec => [](QueueEligible /\ RateBound)
<1>1. PoolInv => QueueEligible /\ RateBound
  BY DEF PoolInv
<1> QED
  BY <1>1, PoolInvariant, PTL

\* What the reaper noted under the lock is still so when it acts on it after an
\* unlocked health call.
THEOREM PollsNotStale == Spec => []PollsOnlyBooting
<1>1. PoolInv => PollsOnlyBooting
  BY DEF PoolInv
<1> QED
  BY <1>1, PoolInvariant, PTL

-----------------------------------------------------------------------------
(* The pool behind the auth pods.                                          *)
(*                                                                         *)
(* First come, first served rests on PhonesHandedOn: a newcomer is given   *)
(* an idle phone without a look at the queue.  The reaper breaks it        *)
(* for a moment while it holds the lock, and a health answer is followed   *)
(* by one promotion only, so the invariant has to say that one is enough.  *)
(* And it rests on FlagsFirst: a promotion that fails for want of a flag   *)
(* ends the tick with phones idle and teams waiting.                       *)

\* After a health answer the waiting teams see one idle phone at most.
OneToHand ==
    reaper = "handing" /\ queue # <<>> => \A i, j \in Free : i = j

\* No phone idles while a team waits, whenever the lock is free.
PhonesHandedOn == LockFree => Free = {} \/ queue = <<>>

PodInv ==
    /\ PoolInv
    /\ FlagsFirst
    /\ PhonesHandedOn
    /\ OneToHand

-----------------------------------------------------------------------------
(* What the shared parts do to the idle phones. *)

\* An assignment takes one phone from the idle ones.
LEMMA AssignFree ==
    ASSUME TablesOK, NEW t \in Teams, NEW i \in Free, Assign(t, i)
    PROVE  Free' = Free \ {i}
BY PoolAssumption DEF TablesOK, Assign, Free

\* A released phone boots: the idle ones stay the same.
LEMMA ReleaseFree ==
    ASSUME TablesOK, LeaseAgreement, NEW T \in SUBSET Teams, ReleaseAll(T)
    PROVE  Free' = Free
<1>1. \A i \in Instances : lifecycle'[i] =
         IF holder[i] \in T THEN "booting" ELSE lifecycle[i]
  BY ReleaseTables
<1>2. \A i \in Instances :
         /\ lifecycle[i] = "leased" <=> holder[i] # None
         /\ lifecycle'[i] = "leased" <=> holder'[i] # None
  BY ReleaseTables DEF LeaseAgreement
<1>3. \A i \in Instances : i \in Free <=> lifecycle[i] = "idle"
  BY <1>2 DEF Free
<1>4. \A i \in Instances : i \in Free' <=> lifecycle'[i] = "idle"
  BY <1>2 DEF Free
<1>5. \A i \in Instances : lifecycle[i] = "idle" => holder[i] \notin T
  BY <1>2, PoolAssumption DEF TablesOK
<1>6. \A i \in Instances : i \in Free' <=> i \in Free
  BY <1>1, <1>3, <1>4, <1>5
<1> QED
  BY <1>6 DEF Free

\* The head of the queue is never skipped.
LEMMA HeadEligible ==
    ASSUME PoolInv, queue # <<>>
    PROVE  /\ Head(queue) \in Teams /\ ~Skipped(Head(queue))
           /\ Head(queue) \in Queued
<1>1. Head(queue) \in Queued /\ Head(queue) \in Teams
  <2>1. queue \in Seq(Teams) /\ Len(queue) \in Nat /\ Len(queue) # 0
    BY EmptySeq, LenProperties DEF PoolInv, TypeOK
  <2>2. Head(queue) = queue[1] /\ Head(queue) \in Teams
    BY <2>1, HeadTailProperties
  <2> QED
    BY <2>1, <2>2 DEF Queued
<1> QED
  BY <1>1 DEF PoolInv, QueueEligible, Skipped

-----------------------------------------------------------------------------
(* PodInv holds initially and every section preserves it. *)

\* At the start no flag is known and nobody waits.
LEMMA InitPodInv == Init => PodInv
BY InitPoolInv, EmptySeq DEF Init, PodInv, FlagsFirst, Queued, PhonesHandedOn, OneToHand, Free

\* A step through a pod is a step of the pool.
LEMMA PodStepIsPoolStep == [PodNext]_vars => [Next]_vars
BY DEF PodNext, PodPushesFlag, PodLeases, PodReleases, Next, PoolStep, TeamStep

\* No section puts a team in the queue whose flag is not in the file.
LEMMA StepFlagsFirst ==
    ASSUME PoolInv, FlagsFirst, [PodNext]_vars
    PROVE  FlagsFirst'
<1> USE DEF FlagsFirst
<1>t. queue \in Seq(Teams) /\ \A j, k \in 1..Len(queue) : queue[j] = queue[k] => j = k
  BY DEF PoolInv, TypeOK, QueueEligible
<1>1. ASSUME NEW t \in Teams, PodPushesFlag(t) PROVE FlagsFirst'
  BY <1>1 DEF PodPushesFlag, PushFlag, Queued
<1>2. ASSUME NEW t \in Teams, PodLeases(t) PROVE FlagsFirst'
  <2>1. CASE LeaseNow(t)
    BY <2>1 DEF LeaseNow, Queued
  <2>2. CASE LeaseLater(t)
    <3>1. t \in pushed /\ t \notin Queued /\ queue' = Append(queue, t) /\ pushed' = pushed
      BY <1>2, <2>2 DEF PodLeases, LeaseLater, MayAcquire
    <3> QED
      BY <1>t, <3>1, QueueAppend
  <2> QED
    BY <1>2, <2>1, <2>2 DEF PodLeases
<1>3. ASSUME NEW t \in Teams, PodReleases(t) PROVE FlagsFirst'
  <2>1. CASE Release(t)
    BY <2>1 DEF Release, Queued
  <2>2. CASE LeaveQueue(t)
    BY <1>t, <2>2, QueueRemove DEF LeaveQueue
  <2> QED
    BY <1>3, <2>1, <2>2 DEF PodReleases
<1>4. ASSUME PromoteHead \/ PromoteFail PROVE FlagsFirst'
  <2>1. queue # <<>> /\ queue' = Tail(queue) /\ pushed' = pushed
    BY <1>4 DEF PromoteHead, PromoteFail, Promoting
  <2> QED
    BY <1>t, <2>1, QueueTail
<1>5. ASSUME JudgeRestart PROVE FlagsFirst'
  <2>1. Queued' = {}
    BY <1>5, EmptySeq DEF JudgeRestart, Queued
  <2> QED
    BY <2>1
<1>6. ASSUME UNCHANGED <<queue, pushed>> PROVE FlagsFirst'
  BY <1>6 DEF Queued
<1>7. ASSUME \/ ReaperTick \/ StartRecycles \/ NothingToPromote \/ TickDone \/ TimePasses
             \/ \E i \in Instances :
                   \/ MarkIdle(i) \/ PostReset(i) \/ PostRecycle(i)
                   \/ \E booted \in BOOLEAN : PollHealth(i, booted)
             \/ UNCHANGED vars
      PROVE  UNCHANGED <<queue, pushed>>
  BY <1>7 DEF ReaperTick, StartRecycles, NothingToPromote, TickDone, TimePasses, MarkIdle,
     PostReset, PostRecycle, PollHealth, LeaseRunsOut, CooldownEnds, AcquisitionAges, vars
<1> QED
  BY ONLY <1>1, <1>2, <1>3, <1>4, <1>5, <1>6, <1>7, [PodNext]_vars DEF PodNext, ReaperStep

\* So the promotion of the head never fails.
LEMMA HeadHasFlag ==
    ASSUME PoolInv, FlagsFirst, queue # <<>>
    PROVE  Head(queue) \in pushed
BY HeadEligible DEF FlagsFirst

\* Every step behind the pods keeps the invariant.
LEMMA StepPodInv == PodInv /\ [PodNext]_vars => PodInv'
<1> SUFFICES ASSUME PodInv, [PodNext]_vars PROVE PodInv'
  OBVIOUS
<1> DEFINE Goal == PhonesHandedOn' /\ OneToHand'
<1>i. PoolInv' /\ PoolInv /\ FlagsFirst /\ FlagsFirst'
  BY StepPoolInv, StepFlagsFirst, PodStepIsPoolStep DEF PodInv
<1>t. TablesOK /\ LeaseAgreement /\ queue \in Seq(Teams)
  BY <1>i DEF PoolInv, TypeOK
<1>p. PhonesHandedOn /\ OneToHand
  BY DEF PodInv
<1> USE <1>p DEF PhonesHandedOn, OneToHand, LockFree
<1>1. ASSUME NEW t \in Teams, LeaseNow(t) PROVE Goal
  <2>1. PICK i \in Free : Assign(t, i)
    BY <1>1 DEF LeaseNow, First
  <2>2. Free' = Free \ {i}
    BY <1>t, <2>1, AssignFree
  <2>3. UNCHANGED <<queue, pushed, reaper>>
    BY <1>1 DEF LeaseNow, reaperVars
  <2> QED
    BY <2>2, <2>3
<1>2. ASSUME NEW t \in Teams, LeaseLater(t) PROVE Goal
  BY <1>2 DEF LeaseLater, MayAcquire, Free, instVars, reaperVars
<1>3. ASSUME NEW t \in Teams, Release(t) PROVE Goal
  <2>1. Free' = Free
    BY <1>3, <1>t, ReleaseFree DEF Release
  <2> QED
    BY <1>3, <2>1 DEF Release, reaperVars
<1>4. ASSUME NEW t \in Teams, LeaveQueue(t) PROVE Goal
  <2>1. queue # <<>>
    BY <1>4, <1>t, EmptySeq DEF LeaveQueue, RemoveFirst
  <2>2. Free' = Free /\ UNCHANGED <<pushed, reaper>>
    BY <1>4 DEF LeaveQueue, Free, instVars, reaperVars
  <2> QED
    BY <1>4, <2>1, <2>2 DEF LeaveQueue
<1>5. ASSUME NEW t \in Teams, PushFlag(t) PROVE Goal
  BY <1>5 DEF PushFlag, Free, instVars, reaperVars
<1>6. ASSUME ReaperTick PROVE Goal
  BY <1>6 DEF ReaperTick
<1>7. ASSUME PromoteHead PROVE Goal
  <2>1. PICK i \in Free : Assign(Head(queue), i)
    BY <1>7, <1>i, HeadEligible DEF PromoteHead, Promoting, First
  <2>2. Free' = Free \ {i}
    BY <1>t, <1>i, <1>7, <2>1, HeadEligible, AssignFree DEF PromoteHead, Promoting
  <2>3. \/ reaper = "promoting" /\ reaper' = "promoting"
        \/ reaper = "handing" /\ reaper' = "polling"
    <3>1. ~Skipped(Head(queue))
      BY <1>7, <1>i, HeadEligible DEF PromoteHead, Promoting
    <3>2. reaper' = IF reaper = "handing" THEN "polling" ELSE reaper
      BY ONLY <1>7, <3>1 DEF PromoteHead
    <3> QED
      BY ONLY <1>7, <3>2 DEF PromoteHead, Promoting
  <2>4. queue # <<>> /\ pushed' = pushed
    BY <1>7 DEF PromoteHead, Promoting
  <2> QED
    BY <1>i, <2>2, <2>3, <2>4
<1>8. ASSUME PromoteFail PROVE Goal
  BY <1>8, <1>i, HeadHasFlag DEF PromoteFail, Promoting
<1>9. ASSUME StartRecycles \/ NothingToPromote PROVE Goal
  BY <1>9 DEF StartRecycles, NothingToPromote, Free, instVars
<1>10. ASSUME NEW i \in Instances, MarkIdle(i) PROVE Goal
  <2>1. lifecycle[i] = "booting" /\ lifecycle' = [lifecycle EXCEPT ![i] = "idle"]
    BY <1>10, <1>i DEF MarkIdle, First, PoolInv, PollsOnlyBooting
  <2>2. reaper = "booted" /\ reaper' = "handing" /\ UNCHANGED <<holder, queue, pushed>>
    BY <1>10, <2>1 DEF MarkIdle
  <2>3. Free' \subseteq Free \cup {i}
    BY <1>t, <2>1, <2>2 DEF Free, TablesOK
  <2> QED
    BY <2>2, <2>3
<1>11. ASSUME NEW i \in Instances,
              \/ PostReset(i) \/ PostRecycle(i) \/ LeaseRunsOut(i)
              \/ \E booted \in BOOLEAN : PollHealth(i, booted)
       PROVE  Goal
  BY <1>11 DEF PostReset, PostRecycle, LeaseRunsOut, PollHealth, Free, instVars, reaperVars
<1>12. ASSUME TickDone \/ (\E t \in Teams : CooldownEnds(t) \/ AcquisitionAges(t)) \/ UNCHANGED vars PROVE Goal
  BY <1>12 DEF TickDone, CooldownEnds, AcquisitionAges, Free, vars, instVars, reaperVars
<1>13. ASSUME JudgeRestart PROVE Goal
  BY <1>13 DEF JudgeRestart
<1> QED
  BY ONLY <1>i, <1>1, <1>2, <1>3, <1>4, <1>5, <1>6, <1>7, <1>8, <1>9, <1>10, <1>11,
     <1>12, <1>13, [PodNext]_vars
     DEF PodNext, PodPushesFlag, PodLeases, PodReleases, ReaperStep, TimePasses, PodInv

-----------------------------------------------------------------------------
\* Reached through the pods, no team is told that it is queued while an idle
\* phone is counted (pool_status): the sections that make a phone idle hand it
\* to the queue before they let go of the lock (_check_booting_health,
\* _promote_next).
THEOREM NoPhoneIdles == PodSpec => []NoIdleWhileQueued
<1>1. Init => PodInv
  BY InitPodInv
<1>2. PodInv /\ [PodNext]_vars => PodInv'
  BY StepPodInv
<1>3. PodInv => NoIdleWhileQueued
  <2> SUFFICES ASSUME PodInv, LockFree, NEW t \in Teams, PoolStatus(t).state = "queued"
               PROVE  PoolStatus(t).idle = {}
    BY DEF NoIdleWhileQueued
  <2>1. t \in Queued
    BY DEF PoolStatus
  <2>2. queue # <<>>
    BY <2>1, EmptySeq DEF Queued
  <2>3. Free = {}
    BY <2>2 DEF PodInv, PhonesHandedOn
  <2>4. Counted("idle") = {}
    BY <2>3 DEF Free, Counted, PodInv, PoolInv, LeaseAgreement
  <2> QED
    BY <2>4 DEF PoolStatus
<1> QED
  BY <1>1, <1>2, <1>3, PTL DEF PodSpec

\* The lease request of a pod finds the flag in the file ("the judge refuses a
\* lease for a team with no pushed flag", auth-pod/app.py:110), and so does every
\* later promotion from the queue.
THEOREM FlagsComeFirst == PodSpec => []FlagsFirst
<1>1. Init => PodInv
  BY InitPodInv
<1>2. PodInv /\ [PodNext]_vars => PodInv'
  BY StepPodInv
<1>3. PodInv => FlagsFirst
  BY DEF PodInv
<1> QED
  BY <1>1, <1>2, <1>3, PTL DEF PodSpec

\* Through the pods a tick leaves its locked section only by starting
\* the recycle thread of every lease it ended (_reaper_tick): the exception of a
\* failed promotion, which would lose them, cannot come.
THEOREM RecyclesStart == PodSpec => ExpiredAreRecycled
<1> DEFINE A == reaper = "promoting" /\ reaper' # "promoting" /\ restarts' = restarts =>
                   \A i \in toRecycle : recycles'[i] = recycles[i] + 1
<1>1. Init => PodInv
  BY InitPodInv
<1>2. PodInv /\ [PodNext]_vars => PodInv'
  BY StepPodInv
<1>3. PodInv /\ [PodNext]_vars => [A]_vars
  <2> SUFFICES ASSUME PodInv, PodNext, reaper = "promoting",
                      reaper' # "promoting", restarts' = restarts
               PROVE  \A i \in toRecycle : recycles'[i] = recycles[i] + 1
    OBVIOUS
  <2>1. ~PromoteFail
    BY HeadHasFlag DEF PodInv, PromoteFail, Promoting
  <2>2. ~JudgeRestart
    BY DEF JudgeRestart, PodInv, PoolInv, TypeOK
  <2>3. \A t \in Teams : ~PodPushesFlag(t) /\ ~PodLeases(t) /\ ~PodReleases(t)
    BY DEF PodPushesFlag, PodLeases, PodReleases, LeaseNow, LeaseLater, MayAcquire, Release, LeaveQueue, PushFlag,
       LockFree, reaperVars
  <2>4. ~TimePasses
    BY DEF TimePasses, LeaseRunsOut, CooldownEnds, AcquisitionAges, reaperVars
  <2>5. ~PromoteHead
    <3> SUFFICES ASSUME PromoteHead PROVE FALSE
      OBVIOUS
    <3>1. ~Skipped(Head(queue))
      BY HeadEligible DEF PodInv, PromoteHead, Promoting
    <3>2. reaper' = IF reaper = "handing" THEN "polling" ELSE reaper
      BY ONLY PromoteHead, <3>1 DEF PromoteHead
    <3> QED
      BY <3>2
  <2>6. StartRecycles
    BY <2>1, <2>2, <2>3, <2>4, <2>5
       DEF PodNext, ReaperStep, ReaperTick, NothingToPromote, TickDone,
       MarkIdle, PostReset, PostRecycle, PollHealth, reaperVars
  <2> QED
    BY <2>6 DEF StartRecycles, PodInv, PoolInv, TypeOK, ReaperOK
<1> QED
  BY <1>1, <1>2, <1>3, PTL DEF PodSpec, ExpiredAreRecycled

-----------------------------------------------------------------------------
(* Every section is a step of the lease service, or changes nothing it shows. *)

Usable == {i \in Instances : lifecycle[i] # "booting"}

\* The pool begins as the service does.
LEMMA InitService == Init => Service!ServiceInit
BY DEF Init, Service!ServiceInit

\* What a team without a lease looks like to the service.
LEMMA NotServed ==
    ASSUME TablesOK, LeaseAgreement, NEW t \in Teams, lease[t] = None
    PROVE  ~Service!Serves(t)
BY PoolAssumption DEF LeaseAgreement, Service!Serves

\* An assignment gives the team a usable phone nobody has.
LEMMA AssignGives ==
    ASSUME TablesOK, LeaseAgreement, NEW t \in Teams, NEW i \in Free,
           lease[t] = None, Assign(t, i)
    PROVE  Service!Give(t, i) /\ Usable' = Usable
<1>1. i \in Usable /\ i \in Instances /\ holder[i] = None
  BY DEF Free, Usable
<1>2. holder' = [holder EXCEPT ![i] = t] /\ lifecycle' = [lifecycle EXCEPT ![i] = "leased"]
  BY DEF Assign
<1>3. Service!Give(t, i)
  BY <1>1, <1>2, NotServed DEF Service!Give, Usable
<1>4. Usable' = Usable
  BY <1>1, <1>2 DEF Usable, TablesOK
<1> QED
  BY <1>3, <1>4

\* Releases withdraw the phones of the teams until they have booted.
LEMMA ReleaseEnds ==
    ASSUME TablesOK, LeaseAgreement, NEW T \in SUBSET Teams, ReleaseAll(T), queue' = queue
    PROVE  Service!EndLeases \/ UNCHANGED <<holder, Usable, queue>>
<1> DEFINE S == {i \in Instances : holder[i] \in T}
<1>1. \A i \in Instances : i \in S <=> i \in {lease[t] : t \in T} \ {None}
  <2>1. \A t \in Teams, i \in Instances : lease[t] = i <=> holder[i] = t
    BY DEF LeaseAgreement
  <2>2. \A i \in Instances : i # None
    BY PoolAssumption
  <2> QED
    BY ONLY <2>1, <2>2, T \in SUBSET Teams
<1>2. holder' = [i \in Instances |-> IF i \in S THEN None ELSE holder[i]]
  BY <1>1 DEF ReleaseAll
<1>3. \A i \in Instances : lifecycle'[i] = IF i \in S THEN "booting" ELSE lifecycle[i]
  BY ReleaseTables
<1>4. Usable' = Usable \ S
  BY <1>3 DEF Usable
<1>5. S \in SUBSET {i \in Instances : holder[i] # None}
  BY PoolAssumption
<1>6. CASE S # {}
  BY <1>2, <1>4, <1>5, <1>6 DEF Service!EndLeases, Usable
<1>7. CASE S = {}
  <2>1. holder' = holder
    BY <1>2, <1>7 DEF TablesOK
  <2> QED
    BY <1>4, <1>7, <2>1
<1> QED
  BY <1>6, <1>7

\* deque.remove, told the way the service tells it.
LEMMA RemovalIsGiveUp ==
    ASSUME queue \in Seq(Teams), NEW t \in Teams, RemoveFirst(t),
           UNCHANGED <<holder, Usable>>
    PROVE  Service!GiveUp(t)
<1>1. PICK k \in 1..Len(queue) :
         /\ queue[k] = t
         /\ queue' = [j \in 1..(Len(queue) - 1) |->
                         IF j < k THEN queue[j] ELSE queue[j + 1]]
  BY DEF RemoveFirst
<1>2. Len(queue) \in Nat /\ \A j \in 1..Len(queue) : queue[j] \in Teams
  BY LenProperties, ElementOfSeq
<1> DEFINE a == SubSeq(queue, 1, k - 1)
           b == SubSeq(queue, k + 1, Len(queue))
<1>3. /\ a \in Seq(Teams) /\ Len(a) = k - 1
      /\ \A j \in 1..(k - 1) : a[j] = queue[j]
  BY <1>1, <1>2, SubSeqProperties
<1>4. /\ b \in Seq(Teams) /\ Len(b) = Len(queue) - k
      /\ \A j \in 1..(Len(queue) - k) : b[j] = queue[k + j]
  BY <1>1, <1>2, SubSeqProperties
<1>5. /\ a \o b \in Seq(Teams) /\ Len(a \o b) = Len(queue) - 1
      /\ \A j \in 1..(Len(queue) - 1) :
            (a \o b)[j] = IF j < k THEN queue[j] ELSE queue[j + 1]
  <2> HIDE DEF a, b
  <2>1. /\ a \o b \in Seq(Teams) /\ Len(a \o b) = Len(a) + Len(b)
        /\ \A j \in 1..(Len(a) + Len(b)) :
              (a \o b)[j] = IF j <= Len(a) THEN a[j] ELSE b[j - Len(a)]
    BY <1>3, <1>4, ConcatProperties
  <2>2. ASSUME NEW j \in 1..(Len(queue) - 1)
        PROVE  (a \o b)[j] = IF j < k THEN queue[j] ELSE queue[j + 1]
    BY <1>2, <1>3, <1>4, <2>1
  <2> QED
    BY <1>2, <1>3, <1>4, <2>1, <2>2
<1>6. queue' = a \o b
  <2> HIDE DEF a, b
  <2>1. PICK s \in Seq(Teams) : s = a \o b
    BY <1>5
  <2>2. s \in [1..(Len(queue) - 1) -> Teams]
    BY <1>5, <2>1, LenProperties
  <2> QED
    BY <1>1, <1>5, <2>1, <2>2
<1> QED
  BY <1>1, <1>6 DEF Service!GiveUp, Usable

\* Every step of the pool is one of the service, or none.
LEMMA StepService ==
    ASSUME PodInv, [PodNext]_vars
    PROVE  Service!ServiceNext \/ UNCHANGED <<holder, Usable, queue>>
<1> DEFINE Goal == Service!ServiceNext \/ UNCHANGED <<holder, Usable, queue>>
<1>i. PoolInv /\ FlagsFirst
  BY DEF PodInv
<1>t. TablesOK /\ LeaseAgreement /\ queue \in Seq(Teams) /\ QueueEligible
  BY <1>i DEF PoolInv, TypeOK
<1> USE DEF Service!ServiceNext
<1>1. ASSUME NEW t \in Teams, LeaseNow(t) PROVE Goal
  <2>1. PICK i \in Free : Assign(t, i)
    BY <1>1 DEF LeaseNow, First
  <2>2. lease[t] = None
    BY <1>1, <1>t, NoLease DEF LeaseNow, MayAcquire
  <2>3. queue = <<>> /\ queue' = queue
    BY <1>1, <2>1 DEF LeaseNow, MayAcquire, PodInv, PhonesHandedOn
  <2>4. Service!Give(t, i) /\ Usable' = Usable /\ i \in Instances
    BY <1>t, <2>1, <2>2, AssignGives DEF Free
  <2>5. Service!ServeNewcomer(t)
    BY <2>3, <2>4 DEF Service!ServeNewcomer, Usable
  <2> QED
    BY <2>5
<1>2. ASSUME NEW t \in Teams, LeaseLater(t) PROVE Goal
  <2>1. ~Service!Serves(t)
    BY <1>2, <1>t, NoLease, NotServed DEF LeaseLater, MayAcquire
  <2>2. ~Service!Waits(t)
    BY <1>2 DEF LeaseLater, MayAcquire, Queued, Service!Waits
  <2>3. Service!Enqueue(t)
    BY <1>2, <2>1, <2>2 DEF LeaseLater, instVars, Service!Enqueue
  <2> QED
    BY <2>3
<1>3. ASSUME NEW t \in Teams, Release(t) PROVE Goal
  BY <1>3, <1>t, ReleaseEnds DEF Release
<1>4. ASSUME NEW t \in Teams, LeaveQueue(t) PROVE Goal
  <2>1. Service!GiveUp(t)
    BY <1>4, <1>t, RemovalIsGiveUp DEF LeaveQueue, instVars, Usable
  <2> QED
    BY <2>1
<1>5. ASSUME NEW t \in Teams, PushFlag(t) PROVE Goal
  BY <1>5 DEF PushFlag, instVars, Usable
<1>6. ASSUME ReaperTick PROVE Goal
  <2>1. PICK T \in SUBSET Teams : ReleaseAll(T) /\ queue' = queue
    <3> DEFINE teams == {holder[i] : i \in {i \in Instances :
                            lifecycle[i] = "leased" /\ holder[i] # None /\ due[i]}}
    <3>1. teams \in SUBSET Teams
      BY <1>t DEF TablesOK
    <3>2. ReleaseAll(teams) /\ queue' = queue
      BY <1>6 DEF ReaperTick
    <3> QED
      BY <3>1, <3>2
  <2> QED
    BY <1>t, <2>1, ReleaseEnds
<1>7. ASSUME PromoteHead PROVE Goal
  <2>1. queue # <<>> /\ queue' = Tail(queue)
    BY <1>7 DEF PromoteHead, Promoting
  <2>2. Head(queue) \in Teams /\ ~Skipped(Head(queue))
    BY <1>i, <2>1, HeadEligible
  <2>3. PICK i \in Free : Assign(Head(queue), i)
    BY <1>7, <2>2 DEF PromoteHead, First
  <2>4. Service!Give(Head(queue), i) /\ Usable' = Usable /\ i \in Instances
    BY <1>t, <2>2, <2>3, AssignGives DEF Skipped, Free
  <2>5. Service!ServeFirst
    BY <2>1, <2>4 DEF Service!ServeFirst, Usable
  <2> QED
    BY <2>5
<1>8. ASSUME PromoteFail PROVE Goal
  BY <1>8, <1>i, HeadHasFlag DEF PromoteFail, Promoting
<1>9. ASSUME StartRecycles \/ NothingToPromote \/ TickDone PROVE Goal
  BY <1>9 DEF StartRecycles, NothingToPromote, TickDone, instVars, Usable
<1>10. ASSUME NEW i \in Instances, MarkIdle(i) PROVE Goal
  <2>1. lifecycle[i] = "booting" /\ lifecycle' = [lifecycle EXCEPT ![i] = "idle"]
    BY <1>10, <1>i DEF MarkIdle, First, PoolInv, PollsOnlyBooting
  <2>2. i \notin Usable /\ Usable' = Usable \cup {i} /\ UNCHANGED <<holder, queue>>
    BY <1>10, <1>t, <2>1 DEF MarkIdle, Usable, TablesOK
  <2>3. Service!Renew(i)
    BY <2>2 DEF Service!Renew, Usable
  <2> QED
    BY <2>3
<1>11. ASSUME NEW i \in Instances,
              \/ PostReset(i) \/ PostRecycle(i) \/ LeaseRunsOut(i)
              \/ \E booted \in BOOLEAN : PollHealth(i, booted)
       PROVE  Goal
  BY <1>11 DEF PostReset, PostRecycle, LeaseRunsOut, PollHealth, instVars, Usable
<1>12. ASSUME (\E t \in Teams : CooldownEnds(t) \/ AcquisitionAges(t)) \/ UNCHANGED vars
       PROVE  Goal
  BY <1>12 DEF CooldownEnds, AcquisitionAges, vars, instVars, Usable
<1>13. ASSUME JudgeRestart PROVE Goal
  <2>1. Usable' = {}
    BY <1>13 DEF JudgeRestart, Usable
  <2>2. Service!Forget
    BY <1>13, <2>1 DEF JudgeRestart, Service!Forget, Usable
  <2> QED
    BY <2>2
<1> QED
  BY ONLY <1>1, <1>2, <1>3, <1>4, <1>5, <1>6, <1>7, <1>8, <1>9, <1>10, <1>11,
     <1>12, <1>13, [PodNext]_vars
     DEF PodNext, PodPushesFlag, PodLeases, PodReleases, ReaperStep, TimePasses

\* Reached through the pods the pool keeps the promise
\* of the lease service: teams are served first come, first served, also against
\* newcomers, one phone for a team and one team for a phone.
THEOREM KeepsPromise == PodSpec => ImplementsService
<1>1. Init => PodInv
  BY InitPodInv
<1>2. PodInv /\ [PodNext]_vars => PodInv'
  BY StepPodInv
<1>3. Init => Service!ServiceInit
  BY InitService
<1>4. PodInv /\ [PodNext]_vars => [Service!ServiceNext]_(Service!serviceVars)
  BY StepService DEF Service!serviceVars, Usable
<1> QED
  BY <1>1, <1>2, <1>3, <1>4, PTL DEF PodSpec, ImplementsService, Service!ServiceSpec
=============================================================================
