----------------------------- MODULE WhisperPods -----------------------------
(***************************************************************************)
(* The victim pool as its teams reach it: through one auth pod per team    *)
(* (whisper/auth-pod/app.py), which holds the judge's admin token.  A pod  *)
(* pushes its team's flag when it starts and again in every lease request, *)
(* and posts the lease only after a push was answered; the push is tried   *)
(* up to seven times and writes the same flag each time, so that a lost    *)
(* answer does no harm.  Nothing else about the pool is restricted.        *)
(***************************************************************************)
EXTENDS WhisperPool

\* push_flag, from main or from a lease request.
PodPushesFlag(t) == PushFlag(t)

\* Mutant: the pod leases although its push failed.
PodLeasesAnyway(t) == LeaseNow(t) \/ LeaseLater(t)

\* lease: the flag file never loses a flag, so it still holds this one when
\* the judge serves the request.
PodLeases(t) == t \in pushed /\ (LeaseNow(t) \/ LeaseLater(t))

\* release: forwarded as it is.
PodReleases(t) == Release(t) \/ LeaveQueue(t)

PodNext ==
    \/ \E t \in Teams : PodPushesFlag(t) \/ PodLeases(t) \/ PodReleases(t)
    \/ ReaperStep
    \/ TimePasses
    \/ JudgeRestart
    \/ \E i \in Instances :
          \/ PostReset(i) \/ PostRecycle(i)
          \/ \E booted \in BOOLEAN : PollHealth(i, booted)

PodSpec == Init /\ [][PodNext]_vars

\* Every waiting team has its flag in the file (the promise of app.py:105).
FlagsFirst == Queued \subseteq pushed
=============================================================================
