----------------------------- MODULE WhisperPool -----------------------------
(***************************************************************************)
(* The victim pool of the whisper judge (judge/pool.py): teams lease one   *)
(* of a few victim phones for LEASE_SECONDS, wait in a FIFO queue when     *)
(* none is idle, and a reaper thread ends expired leases, polls booting    *)
(* phones and serves the queue.                                            *)
(*                                                                         *)
(* The module follows the threads of the judge process: every section that *)
(* runs under the module lock `_lock' is one action, except that the       *)
(* reaper's promotion loops take one action per queue head while they hold *)
(* the lock (LockFree is then false and every other section waits).  The   *)
(* two HTTP threads a lease and a release start are modelled as counters   *)
(* of threads that have not reached the victim runner yet; what the runner *)
(* does is in WhisperSystem.                                               *)
(*                                                                         *)
(* Wall-clock deadlines are abstracted to the comparisons the code makes:  *)
(* due[i] is "now >= expires_at", cooling[t] is "now - release_at <        *)
(* LEASE_COOLDOWN_SECS", recent[t] is the number of acquisitions of the    *)
(* last 3600 s.  Time passing is an action on each of them.                *)
(***************************************************************************)
EXTENDS Naturals, Sequences

CONSTANTS Teams,         \* team ids known to the platform
          Instances,     \* ids of WHISPER_POOL, in configuration order
          None,          \* Python's None
          LeaseRateMax,  \* LEASE_RATE_MAX: acquisitions per hour
          InitPushed,    \* teams whose flag is in the flag file at the start
          Handles,       \* bound: victim handles (12 random bytes in the code)
          MaxThreads,    \* bound: unfinished runner calls of a kind per phone
          MaxRestarts    \* bound: restarts of the judge process

ASSUME PoolAssumption ==
    /\ Instances \subseteq Nat
    /\ None \notin Teams
    /\ None \notin Nat
    /\ LeaseRateMax \in Nat \ {0}
    /\ InitPushed \subseteq Teams
    /\ Handles \in Nat \ {0}
    /\ MaxThreads \in Nat \ {0}
    /\ MaxRestarts \in Nat

VARIABLES
    lifecycle,  \* _instances[i]["lifecycle"]
    holder,     \* _instances[i]["team_id"]
    due,        \* now >= _instances[i]["expires_at"]
    flag,       \* the team whose flag is in _instances[i]["flag"]
    identity,   \* _instances[i]["current_handle"], made for the lease of i
    lease,      \* _teams[t]["instance_id"]
    cooling,    \* _in_cooldown(t)
    recent,     \* acquisitions of t inside the rate window
    queue,      \* _queue
    pushed,     \* teams with a flag in the team_flags file (survives restarts)
    resets,     \* _reset_runner threads of i that have not posted yet
    recycles,   \* _recycle_runner threads of i that have not posted yet
    reaper,     \* where the reaper thread is
    toRecycle,  \* recycle_instances of the current tick
    toPoll,     \* booting_snapshots of the current tick not yet handled
    restarts    \* restarts of the judge so far

instVars   == <<lifecycle, holder, due, flag, identity>>
teamVars   == <<lease, cooling, recent>>
threadVars == <<resets, recycles>>
reaperVars == <<reaper, toRecycle, toPoll>>
vars == <<instVars, teamVars, queue, pushed, threadVars, reaperVars, restarts>>

Lifecycles == {"booting", "idle", "leased"}
ReaperSteps == {"sleeping", "promoting", "polling", "booted", "handing"}

\* The lock is held across actions only inside the reaper's promotion loops.
LockFree == reaper \notin {"promoting", "handing"}

Queued == {queue[k] : k \in 1..Len(queue)}

\* Mutant: _free_instances looks at the team only.
FreeIfUnassigned == {i \in Instances : holder[i] = None}

Free   == {i \in Instances : lifecycle[i] = "idle" /\ holder[i] = None}

\* free[0], or the next snapshot: the first in configuration order.
First(i, S) == i \in S /\ \A j \in S : i <= j

HasLease(t) == lease[t] # None /\ holder[lease[t]] = t

\* Mutant: `count > LEASE_RATE_MAX'.
RateLimitedAbove(t) == recent[t] > LeaseRateMax

RateLimited(t) == recent[t] >= LeaseRateMax

\* The phones that _pool_counts counts under a lifecycle.
Counted(lc) == {i \in Instances : lifecycle[i] = lc}

\* What pool_status tells a team under the lock: its place, or why it has none,
\* and the counts of the pool (here the phones themselves).
PoolStatus(t) ==
    [state |-> IF HasLease(t) THEN "leased"
               ELSE IF t \in Queued THEN "queued"
               ELSE IF RateLimited(t) THEN "rate_limited"
               ELSE IF cooling[t] THEN "cooldown" ELSE "idle",
     idle |-> Counted("idle"), leased |-> Counted("leased"), booting |-> Counted("booting")]

(***************************************************************************)
(* Shared parts of the handlers.                                           *)
(***************************************************************************)

\* _do_assign after its flag check: the lease with a random handle, and the
\* reset thread it starts.
Assign(t, i) ==
    /\ lifecycle' = [lifecycle EXCEPT ![i] = "leased"]
    /\ holder' = [holder EXCEPT ![i] = t]
    /\ due' = [due EXCEPT ![i] = FALSE]
    /\ flag' = [flag EXCEPT ![i] = t]
    /\ \E h \in 1..Handles : identity' = [identity EXCEPT ![i] = h]
    /\ lease' = [lease EXCEPT ![t] = i]
    /\ recent' = [recent EXCEPT ![t] = @ + 1]
    /\ resets' = [resets EXCEPT ![i] = @ + 1]

\* Mutant: _do_release keeps the team's instance_id.
ReleaseButKeepId(T) ==
    LET freed == {lease[t] : t \in T} \ {None}
    IN  /\ lifecycle' = [i \in Instances |->
                            IF i \in freed THEN "booting" ELSE lifecycle[i]]
        /\ holder' = [i \in Instances |->
                            IF i \in freed THEN None ELSE holder[i]]
        /\ due' = [i \in Instances |-> IF i \in freed THEN FALSE ELSE due[i]]
        /\ identity' = [i \in Instances |->
                            IF i \in freed THEN None ELSE identity[i]]
        /\ cooling' = [t \in Teams |-> (t \in T /\ lease[t] # None) \/ cooling[t]]
        /\ UNCHANGED <<flag, lease, recent>>

\* _do_release of the teams in T, and the callers' marking of the phones
\* they held as booting.  The phone's "flag" entry is left as it was.
ReleaseAll(T) ==
    LET freed == {lease[t] : t \in T} \ {None}
    IN  /\ lifecycle' = [i \in Instances |->
                            IF i \in freed THEN "booting" ELSE lifecycle[i]]
        /\ holder' = [i \in Instances |->
                            IF i \in freed THEN None ELSE holder[i]]
        /\ due' = [i \in Instances |-> IF i \in freed THEN FALSE ELSE due[i]]
        /\ identity' = [i \in Instances |->
                            IF i \in freed THEN None ELSE identity[i]]
        /\ lease' = [t \in Teams |-> IF t \in T THEN None ELSE lease[t]]
        /\ cooling' = [t \in Teams |-> (t \in T /\ lease[t] # None) \/ cooling[t]]
        /\ UNCHANGED <<flag, recent>>

\* The reaper thread gives up the tick: an exception reached _reaper_loop.
AbortTick ==
    /\ reaper' = "sleeping"
    /\ toRecycle' = {}
    /\ toPoll' = {}

\* collections.deque.remove: drops the first occurrence.
RemoveFirst(t) ==
    \E k \in 1..Len(queue) :
        /\ queue[k] = t
        /\ \A j \in 1..(k - 1) : queue[j] # t
        /\ queue' = [j \in 1..(Len(queue) - 1) |->
                        IF j < k THEN queue[j] ELSE queue[j + 1]]

(***************************************************************************)
(* Requests of the teams, each one locked section.  The answers that       *)
(* change nothing (lease already held, already queued, rate limited,       *)
(* cooling down, no flag and an idle phone) are stuttering steps.          *)
(***************************************************************************)

\* Mutant: the team's place in the queue is not looked up.
MayAcquireTwice(t) ==
    /\ LockFree
    /\ ~HasLease(t)
    /\ ~RateLimited(t)
    /\ ~cooling[t]

\* Mutant: the cooldown is not looked at.
MayAcquireUncooled(t) ==
    /\ LockFree
    /\ ~HasLease(t)
    /\ t \notin Queued
    /\ ~RateLimited(t)

MayAcquire(t) ==
    /\ LockFree
    /\ ~HasLease(t)
    /\ t \notin Queued
    /\ ~RateLimited(t)
    /\ ~cooling[t]

\* pool_lease with an idle phone.
LeaseNow(t) ==
    /\ MayAcquire(t)
    /\ t \in pushed
    /\ \E i \in Instances : First(i, Free) /\ Assign(t, i)
    /\ UNCHANGED <<cooling, queue, pushed, recycles, reaperVars, restarts>>

\* pool_lease with no idle phone: the flag is not looked at.
LeaseLater(t) ==
    /\ MayAcquire(t)
    /\ Free = {}
    /\ queue' = Append(queue, t)
    /\ UNCHANGED <<instVars, teamVars, pushed, threadVars, reaperVars, restarts>>

\* Bound on the runner calls in flight: a lease lasts much longer than the
\* timeouts of the calls (30 s and 10 s).
CallsDrained(i) == resets[i] < MaxThreads /\ recycles[i] < MaxThreads

\* pool_release of a lease; the recycle thread starts after the section.
Release(t) ==
    /\ LockFree
    /\ HasLease(t)
    /\ CallsDrained(lease[t])
    /\ ReleaseAll({t})
    /\ recycles' = [recycles EXCEPT ![lease[t]] = @ + 1]
    /\ UNCHANGED <<queue, pushed, resets, reaperVars, restarts>>

\* pool_release without a lease gives up the queue slot.
LeaveQueue(t) ==
    /\ LockFree
    /\ ~HasLease(t)
    /\ RemoveFirst(t)
    /\ UNCHANGED <<instVars, teamVars, pushed, threadVars, reaperVars, restarts>>

\* POST /admin/flags (web.admin_set_flag, team_flags.set_team_flag).
PushFlag(t) ==
    /\ t \notin pushed
    /\ pushed' = pushed \cup {t}
    /\ UNCHANGED <<instVars, teamVars, queue, threadVars, reaperVars, restarts>>

(***************************************************************************)
(* The reaper thread.                                                      *)
(***************************************************************************)

\* Mutant: only the phones released by this tick are polled.
ReaperTickForgets ==
    /\ reaper = "sleeping"
    /\ LET expired == {i \in Instances :
                          lifecycle[i] = "leased" /\ holder[i] # None /\ due[i]}
           teams == {holder[i] : i \in expired}
       IN  /\ ReleaseAll(teams)
           /\ toRecycle' = {lease[t] : t \in teams} \ {None}
           /\ toPoll' = expired
    /\ reaper' = "promoting"
    /\ UNCHANGED <<queue, pushed, threadVars, restarts>>

\* _reaper_tick up to its promotion loop: expired leases are released, the
\* booting phones are noted.  The lock stays held.
ReaperTick ==
    /\ reaper = "sleeping"
    /\ LET expired == {i \in Instances :
                          lifecycle[i] = "leased" /\ holder[i] # None /\ due[i]}
           teams == {holder[i] : i \in expired}
       IN  /\ ReleaseAll(teams)
           /\ toRecycle' = {lease[t] : t \in teams} \ {None}
    /\ toPoll' = {i \in Instances : lifecycle'[i] = "booting"}
    /\ reaper' = "promoting"
    /\ UNCHANGED <<queue, pushed, threadVars, restarts>>

Promoting == reaper \in {"promoting", "handing"} /\ Free # {} /\ queue # <<>>

\* The head is skipped when it holds a lease or is cooling down, else it gets
\* the first idle phone.  The tick's loop goes on; after a health answer there
\* is one promotion only.
Skipped(t) == lease[t] # None \/ cooling[t]

\* Mutant: looks at the head and pops the other end.
PromoteWrongEnd ==
    /\ Promoting
    /\ queue' = SubSeq(queue, 1, Len(queue) - 1)
    /\ IF Skipped(Head(queue))
       THEN UNCHANGED <<instVars, lease, recent, resets, reaper>>
       ELSE /\ Head(queue) \in pushed
            /\ \E i \in Instances : First(i, Free) /\ Assign(Head(queue), i)
            /\ reaper' = IF reaper = "handing" THEN "polling" ELSE reaper
    /\ UNCHANGED <<cooling, pushed, recycles, toRecycle, toPoll, restarts>>

PromoteHead ==
    /\ Promoting
    /\ queue' = Tail(queue)
    /\ IF Skipped(Head(queue))
       THEN UNCHANGED <<instVars, lease, recent, resets, reaper>>
       ELSE /\ Head(queue) \in pushed
            /\ \E i \in Instances : First(i, Free) /\ Assign(Head(queue), i)
            /\ reaper' = IF reaper = "handing" THEN "polling" ELSE reaper
    /\ UNCHANGED <<cooling, pushed, recycles, toRecycle, toPoll, restarts>>

\* _do_assign raises for a head whose flag the file does not hold.  The head
\* is already popped, and the exception ends the tick in _reaper_loop.
PromoteFail ==
    /\ Promoting
    /\ ~Skipped(Head(queue))
    /\ Head(queue) \notin pushed
    /\ queue' = Tail(queue)
    /\ AbortTick
    /\ UNCHANGED <<instVars, teamVars, pushed, threadVars, restarts>>

\* End of the tick's locked section: the recycle threads start.
StartRecycles ==
    /\ reaper = "promoting"
    /\ Free = {} \/ queue = <<>>
    /\ recycles' = [i \in Instances |->
                       IF i \in toRecycle THEN recycles[i] + 1 ELSE recycles[i]]
    /\ toRecycle' = {}
    /\ reaper' = "polling"
    /\ UNCHANGED <<instVars, teamVars, queue, pushed, resets, toPoll, restarts>>

\* _check_booting_health(snap): `booted' is what GET /health was answered, or
\* FALSE when the call failed or timed out.
PollHealth(i, booted) ==
    /\ reaper = "polling"
    /\ First(i, toPoll)
    /\ IF booted
       THEN reaper' = "booted" /\ UNCHANGED toPoll
       ELSE toPoll' = toPoll \ {i} /\ UNCHANGED reaper
    /\ UNCHANGED <<instVars, teamVars, queue, pushed, threadVars, toRecycle, restarts>>

\* Mutant: the phone is marked idle and nobody is promoted.
MarkIdleOnly(i) ==
    /\ reaper = "booted"
    /\ First(i, toPoll)
    /\ toPoll' = toPoll \ {i}
    /\ lifecycle' = [lifecycle EXCEPT ![i] = IF @ = "booting" THEN "idle" ELSE @]
    /\ reaper' = "polling"
    /\ UNCHANGED <<holder, due, flag, identity, teamVars, queue, pushed,
                   threadVars, toRecycle, restarts>>

\* The locked section after a true answer, up to its _promote_next.
MarkIdle(i) ==
    /\ reaper = "booted"
    /\ First(i, toPoll)
    /\ toPoll' = toPoll \ {i}
    /\ IF lifecycle[i] = "booting"
       THEN /\ lifecycle' = [lifecycle EXCEPT ![i] = "idle"]
            /\ reaper' = "handing"
       ELSE /\ UNCHANGED lifecycle
            /\ reaper' = "polling"
    /\ UNCHANGED <<holder, due, flag, identity, teamVars, queue, pushed,
                   threadVars, toRecycle, restarts>>

\* _promote_next found no idle phone or ran the queue empty.
NothingToPromote ==
    /\ reaper = "handing"
    /\ Free = {} \/ queue = <<>>
    /\ reaper' = "polling"
    /\ UNCHANGED <<instVars, teamVars, queue, pushed, threadVars, toRecycle,
                   toPoll, restarts>>

\* The tick returns and _reaper_loop sleeps REAPER_INTERVAL_SECS.
TickDone ==
    /\ reaper = "polling"
    /\ toPoll = {}
    /\ reaper' = "sleeping"
    /\ UNCHANGED <<instVars, teamVars, queue, pushed, threadVars, toRecycle,
                   toPoll, restarts>>

(***************************************************************************)
(* The HTTP threads.  Whatever the runner answers is only logged.          *)
(***************************************************************************)

PostReset(i) ==
    /\ resets[i] > 0
    /\ resets' = [resets EXCEPT ![i] = @ - 1]
    /\ UNCHANGED <<instVars, teamVars, queue, pushed, recycles, reaperVars, restarts>>

PostRecycle(i) ==
    /\ recycles[i] > 0
    /\ recycles' = [recycles EXCEPT ![i] = @ - 1]
    /\ UNCHANGED <<instVars, teamVars, queue, pushed, resets, reaperVars, restarts>>

(***************************************************************************)
(* Time, and restarts of the judge container (restart: unless-stopped).    *)
(***************************************************************************)

LeaseRunsOut(i) ==
    /\ lifecycle[i] = "leased"
    /\ ~due[i]
    /\ CallsDrained(i)
    /\ due' = [due EXCEPT ![i] = TRUE]
    /\ UNCHANGED <<lifecycle, holder, flag, identity, teamVars, queue, pushed,
                   threadVars, reaperVars, restarts>>

CooldownEnds(t) ==
    /\ cooling[t]
    /\ cooling' = [cooling EXCEPT ![t] = FALSE]
    /\ UNCHANGED <<instVars, lease, recent, queue, pushed, threadVars, reaperVars,
                   restarts>>

AcquisitionAges(t) ==
    /\ recent[t] > 0
    /\ recent' = [recent EXCEPT ![t] = @ - 1]
    /\ UNCHANGED <<instVars, lease, cooling, queue, pushed, threadVars, reaperVars,
                   restarts>>

\* The judge's memory is gone and _init_pool runs again; the calls of the old
\* process die with it.  Only the flag file survives.
JudgeRestart ==
    /\ restarts < MaxRestarts
    /\ restarts' = restarts + 1
    /\ lifecycle' = [i \in Instances |-> "booting"]
    /\ holder' = [i \in Instances |-> None]
    /\ due' = [i \in Instances |-> FALSE]
    /\ flag' = [i \in Instances |-> None]
    /\ identity' = [i \in Instances |-> None]
    /\ lease' = [t \in Teams |-> None]
    /\ cooling' = [t \in Teams |-> FALSE]
    /\ recent' = [t \in Teams |-> 0]
    /\ queue' = <<>>
    /\ resets' = [i \in Instances |-> 0]
    /\ recycles' = [i \in Instances |-> 0]
    /\ reaper' = "sleeping"
    /\ toRecycle' = {}
    /\ toPoll' = {}
    /\ UNCHANGED pushed

-----------------------------------------------------------------------------
\* _init_pool on an empty process.
Init ==
    /\ lifecycle = [i \in Instances |-> "booting"]
    /\ holder = [i \in Instances |-> None]
    /\ due = [i \in Instances |-> FALSE]
    /\ flag = [i \in Instances |-> None]
    /\ identity = [i \in Instances |-> None]
    /\ lease = [t \in Teams |-> None]
    /\ cooling = [t \in Teams |-> FALSE]
    /\ recent = [t \in Teams |-> 0]
    /\ queue = <<>>
    /\ resets = [i \in Instances |-> 0]
    /\ recycles = [i \in Instances |-> 0]
    /\ reaper = "sleeping"
    /\ toRecycle = {}
    /\ toPoll = {}
    /\ pushed = InitPushed
    /\ restarts = 0

TeamStep(t) == LeaseNow(t) \/ LeaseLater(t) \/ Release(t) \/ LeaveQueue(t) \/ PushFlag(t)

\* The reaper's own steps; a health answer is the runner's.
ReaperStep ==
    \/ ReaperTick \/ PromoteHead \/ PromoteFail
    \/ StartRecycles \/ NothingToPromote \/ TickDone
    \/ \E i \in Instances : MarkIdle(i)

TimePasses ==
    \/ \E i \in Instances : LeaseRunsOut(i)
    \/ \E t \in Teams : CooldownEnds(t) \/ AcquisitionAges(t)

PoolStep == (\E t \in Teams : TeamStep(t)) \/ ReaperStep \/ TimePasses

Next ==
    \/ PoolStep
    \/ JudgeRestart
    \/ \E i \in Instances :
          \/ PostReset(i) \/ PostRecycle(i)
          \/ \E booted \in BOOLEAN : PollHealth(i, booted)

Spec == Init /\ [][Next]_vars

(***************************************************************************)
(* Fairness: the reaper thread and the HTTP threads keep running, clocks   *)
(* advance, a polled phone is not silent for ever (the container restarts  *)
(* until its emulator boots, and the reaper polls it on every tick).       *)
(* Nothing is assumed of the teams, nor that a tick is ever free of        *)
(* failed promotions.                                                      *)
(***************************************************************************)
Fairness ==
    /\ WF_vars(ReaperStep)
    /\ \A i \in Instances :
          /\ WF_vars(PostReset(i))
          /\ WF_vars(PostRecycle(i))
          /\ WF_vars(LeaseRunsOut(i))
          /\ WF_vars(\E booted \in BOOLEAN : PollHealth(i, booted))
          /\ SF_vars(PollHealth(i, TRUE))

FairSpec == Spec /\ Fairness

-----------------------------------------------------------------------------
(***************************************************************************)
(* Properties.                                                             *)
(***************************************************************************)

TablesOK ==
    /\ lifecycle \in [Instances -> Lifecycles]
    /\ holder \in [Instances -> Teams \cup {None}]
    /\ due \in [Instances -> BOOLEAN]
    /\ flag \in [Instances -> Teams \cup {None}]
    /\ identity \in [Instances -> 1..Handles \cup {None}]
    /\ lease \in [Teams -> Instances \cup {None}]
    /\ cooling \in [Teams -> BOOLEAN]
    /\ recent \in [Teams -> Nat]

ThreadsOK ==
    /\ resets \in [Instances -> 0..MaxThreads]
    /\ recycles \in [Instances -> 0..MaxThreads]

ReaperOK ==
    /\ reaper \in ReaperSteps
    /\ toRecycle \in SUBSET Instances
    /\ toPoll \in SUBSET Instances

\* Every variable has its type; the acquisitions of a window are only counted,
\* and the bound on the runner calls in flight is kept by guards alone.
TypeOK ==
    /\ TablesOK
    /\ ThreadsOK
    /\ ReaperOK
    /\ queue \in Seq(Teams)
    /\ pushed \in SUBSET Teams
    /\ restarts \in 0..MaxRestarts

\* The two tables agree: a team's instance_id and a phone's team_id name each
\* other, and exactly the leased phones have a team, whose flag they carry.
\* Every section updates both tables, and a lease can end in two of them.
LeaseAgreement ==
    /\ \A t \in Teams, i \in Instances : lease[t] = i <=> holder[i] = t
    /\ \A i \in Instances :
          /\ lifecycle[i] = "leased" <=> holder[i] # None
          /\ holder[i] # None => flag[i] = holder[i]

\* No team acquires more than LEASE_RATE_MAX phones in a window, although
\* _promote_next assigns a phone without looking at the rate.
RateBound == \A t \in Teams : recent[t] <= LeaseRateMax

\* A queued team waits once, holds nothing, is not cooling down and is under
\* the rate limit, however long it waits: _promote_next never skips a head.
QueueEligible ==
    /\ \A j, k \in 1..Len(queue) : queue[j] = queue[k] => j = k
    /\ \A t \in Queued : lease[t] = None /\ ~cooling[t] /\ ~RateLimited(t)

\* A phone snapshotted as booting is still booting when its health answer is
\* acted upon, although the lock was free in between; and while the lock is
\* held for a promotion there is nothing left to recycle from an older tick.
PollsOnlyBooting ==
    /\ \A i \in toPoll : lifecycle[i] = "booting"
    /\ \A i \in toRecycle : reaper = "promoting" /\ lifecycle[i] = "booting"

\* No status answer says "queued" and counts an idle phone: the phones that
\* become idle are handed to the queue in the section that frees them.  Holds
\* as long as every queued team has its flag in the file (see the run's
\* constants).
NoIdleWhileQueued ==
    LockFree => \A t \in Teams : PoolStatus(t).state = "queued" => PoolStatus(t).idle = {}

\* "marked booting after expiry -- will recycle" (pool.py:517): a tick leaves
\* its locked section only by starting the recycle of every lease it ended
\* (or with the whole process).
ExpiredAreRecycled ==
    [][ reaper = "promoting" /\ reaper' # "promoting" /\ restarts' = restarts =>
          \A i \in toRecycle : recycles'[i] = recycles[i] + 1 ]_vars

\* The pool implements the lease service: FIFO, one phone per team and one team
\* per phone.  The mapping forgets the clocks, the threads and the reaper.
Service == INSTANCE LeaseService
              WITH slot <- holder,
                   usable <- {i \in Instances : lifecycle[i] # "booting"},
                   line <- queue

ImplementsService == Service!ServiceSpec

\* A waiting team does not wait for ever: it is assigned a phone, gives up its
\* slot, or loses it to a failed promotion.
QueueMoves == \A t \in Teams : t \in Queued ~> t \notin Queued

\* A lease that has run out ends, and its phone is usable again afterwards.
LeasesEnd == \A i \in Instances : lifecycle[i] = "leased" ~> lifecycle[i] = "idle"

\* Waiting ends, and so do leases: every tick of the reaper that is aborted (pool.py:492) is
\* made up for by a later one.
PoolMovesOn == QueueMoves /\ LeasesEnd
=============================================================================
