-------------------------- MODULE NetshareController --------------------------
(***************************************************************************)
(* The on-demand cluster controller of netshare (controller.py,            *)
(* ingress.py).  Every TCP connection gets a cluster and a service of its  *)
(* own, made by calls of the Kubernetes API, and they are deleted when the *)
(* connection ends.  One asyncio loop runs all connections and the ingress *)
(* worker, so an action is what happens between two awaits.  An API call   *)
(* may fail, with or without its effect.                                   *)
(***************************************************************************)
EXTENDS Integers, Sequences, FiniteSets

CONSTANTS Conns,        \* connections, each used once
          Limit,        \* 5000 in resource_setup
          MaxFails,     \* bound: API calls that fail
          MaxRestarts   \* bound: restarts of the controller

ASSUME NetshareAssumption == IsFiniteSet(Conns) /\ {Limit, MaxFails, MaxRestarts} \subseteq Nat

VARIABLES
    pc,        \* what the handler of each connection awaits
    gone,      \* the client has closed its end
    num,       \* the global num
    clusters,  \* Cluster objects
    services,  \* Service objects
    queue,     \* Ingress.queue
    names,     \* Ingress.names; a list there, but no name comes twice
    rules,     \* the rules of the ingress object
    worker,    \* the ingress worker task
    excused,   \* history: connections with a failed clean-up call or a restart
    fails, restarts

connVars   == <<pc, gone, num>>
cloudVars  == <<clusters, services>>
workerVars == <<names, rules, worker>>
vars == <<connVars, cloudVars, queue, workerVars, excused, fails, restarts>>

\* The awaits of resource_setup, in the order of the code.
Awaits == {"prompted", "creating", "waiting", "servicing", "linking", "asking",
           "open", "unservicing", "deleting"}
At(await) == {c \in Conns : pc[c] = await}
Active == {c \in Conns : pc[c] \in Awaits}

Goes(c, from, to) == pc[c] = from /\ pc' = [pc EXCEPT ![c] = to]

ApiFails == fails < MaxFails /\ fails' = fails + 1
ApiAnswers == UNCHANGED fails

\* What a set of objects can be after calls whose answers nobody got.
Unanswered(objects, made, removed) ==
    {(objects \ r) \cup m : m \in SUBSET made, r \in SUBSET removed}

Event(action, c) == [action |-> action, name |-> c]
AddName(c) == queue' = Append(queue, Event("create", c))
RemoveName(c) == queue' = Append(queue, Event("delete", c))

-----------------------------------------------------------------------------
(* resource_setup. *)

Connect(c) ==
    /\ \/ num > Limit /\ Goes(c, "new", "closed")
       \/ num <= Limit /\ Goes(c, "new", "prompted")
    /\ UNCHANGED <<gone, num, cloudVars, queue, workerVars, excused, fails, restarts>>

\* A team id, or anything else, the end of the stream included.
ReadTeam(c) ==
    /\ Goes(c, "prompted", "creating") \/ Goes(c, "prompted", "closed")
    /\ UNCHANGED <<gone, num, cloudVars, queue, workerVars, excused, fails, restarts>>

Created(c) ==
    /\ Goes(c, "creating", "waiting")
    /\ clusters' = clusters \cup {c}
    /\ num' = num + 1
    /\ ApiAnswers
    /\ UNCHANGED <<gone, services, queue, workerVars, excused, restarts>>

\* The outer finally counts down what was not counted up.
CreateFails(c) ==
    /\ Goes(c, "creating", "deleting")
    /\ clusters' \in Unanswered(clusters, {c}, {})
    /\ num' = num - 1
    /\ ApiFails
    /\ UNCHANGED <<gone, services, queue, workerVars, excused, restarts>>

ControlPlaneReady(c) ==
    /\ Goes(c, "waiting", "servicing")
    /\ AddName(c)
    /\ UNCHANGED <<gone, num, cloudVars, workerVars, excused, fails, restarts>>

\* Mutant: setup_cluster is called before the try.
WaitFailsOutsideTry(c) ==
    /\ Goes(c, "waiting", "closed")
    /\ num' = num - 1
    /\ \/ ApiFails
       \/ gone[c] /\ ApiAnswers
    /\ UNCHANGED <<gone, cloudVars, queue, workerVars, excused, restarts>>

\* The poll fails, or the dots can no longer be written to the client.
WaitFails(c) ==
    /\ Goes(c, "waiting", "deleting")
    /\ num' = num - 1
    /\ \/ ApiFails
       \/ gone[c] /\ ApiAnswers
    /\ UNCHANGED <<gone, cloudVars, queue, workerVars, excused, restarts>>

ServiceMade(c) ==
    /\ Goes(c, "servicing", "linking")
    /\ services' = services \cup {c}
    /\ ApiAnswers
    /\ UNCHANGED <<gone, num, clusters, queue, workerVars, excused, restarts>>

\* Mutant: create_service is called before the try that removes the name.
ServiceFailsOutsideTry(c) ==
    /\ Goes(c, "servicing", "deleting")
    /\ services' \in Unanswered(services, {c}, {})
    /\ excused' = excused \cup {c}
    /\ num' = num - 1
    /\ ApiFails
    /\ UNCHANGED <<gone, clusters, queue, workerVars, restarts>>

\* The service is not deleted on this way out.
ServiceFails(c) ==
    /\ Goes(c, "servicing", "deleting")
    /\ services' \in Unanswered(services, {c}, {})
    /\ excused' = IF c \in services' THEN excused \cup {c} ELSE excused
    /\ RemoveName(c)
    /\ num' = num - 1
    /\ ApiFails
    /\ UNCHANGED <<gone, clusters, workerVars, restarts>>

Linked(c) ==
    /\ \/ Goes(c, "linking", "asking") /\ ApiAnswers
       \/ Goes(c, "linking", "unservicing") /\ ApiFails
    /\ UNCHANGED <<gone, num, cloudVars, queue, workerVars, excused, restarts>>

\* get_service_account_token, whose waits are bounded.
TokenAnswered(c) ==
    /\ \/ Goes(c, "asking", "open") /\ ApiAnswers
       \/ Goes(c, "asking", "unservicing") /\ ApiFails
    /\ UNCHANGED <<gone, num, cloudVars, queue, workerVars, excused, restarts>>

\* Any input, the end of the stream or a dead connection.
EndSession(c) ==
    /\ Goes(c, "open", "unservicing")
    /\ UNCHANGED <<gone, num, cloudVars, queue, workerVars, excused, fails, restarts>>

\* Gone, or was gone (404).
ServiceDeleted(c) ==
    /\ Goes(c, "unservicing", "deleting")
    /\ services' = services \ {c}
    /\ RemoveName(c)
    /\ num' = num - 1
    /\ ApiAnswers
    /\ UNCHANGED <<gone, clusters, workerVars, excused, restarts>>

\* Mutant: the raise of the innermost finally skips the count.
ServiceStaysUncounted(c) ==
    /\ Goes(c, "unservicing", "deleting")
    /\ services' \in Unanswered(services, {}, {c})
    /\ excused' = IF c \in services' THEN excused \cup {c} ELSE excused
    /\ RemoveName(c)
    /\ ApiFails
    /\ UNCHANGED <<gone, num, clusters, workerVars, restarts>>

ServiceStays(c) ==
    /\ Goes(c, "unservicing", "deleting")
    /\ services' \in Unanswered(services, {}, {c})
    /\ excused' = IF c \in services' THEN excused \cup {c} ELSE excused
    /\ RemoveName(c)
    /\ num' = num - 1
    /\ ApiFails
    /\ UNCHANGED <<gone, clusters, workerVars, restarts>>

ClusterDeleted(c) ==
    /\ Goes(c, "deleting", "closed")
    /\ clusters' = clusters \ {c}
    /\ ApiAnswers
    /\ UNCHANGED <<gone, num, services, queue, workerVars, excused, restarts>>

\* cleanup_old_clusters, which would delete it later, is not called.
ClusterStays(c) ==
    /\ Goes(c, "deleting", "closed")
    /\ clusters' \in Unanswered(clusters, {}, {c})
    /\ excused' = IF c \in clusters' THEN excused \cup {c} ELSE excused
    /\ ApiFails
    /\ UNCHANGED <<gone, num, services, queue, workerVars, restarts>>

\* The client's end, which the handler notices only where it reads or writes.
ClientLeaves(c) ==
    /\ c \in Active
    /\ ~gone[c]
    /\ gone' = [gone EXCEPT ![c] = TRUE]
    /\ UNCHANGED <<pc, num, cloudVars, queue, workerVars, excused, fails, restarts>>

-----------------------------------------------------------------------------
(* The ingress worker and the process. *)

\* housekeeping: the ingress object exists now, with whatever rules it has.
StartWorker ==
    /\ worker = "starting"
    /\ worker' = "idle"
    /\ UNCHANGED <<connVars, cloudVars, queue, names, rules, excused, fails, restarts>>

\* Mutant: the worker does not know the events that remove_name puts.
TakeCreatesOnly ==
    /\ worker = "idle" /\ queue # <<>>
    /\ names' = IF Head(queue).action = "create" THEN names \cup {Head(queue).name} ELSE names
    /\ queue' = Tail(queue)
    /\ worker' = "patching"
    /\ UNCHANGED <<connVars, cloudVars, rules, excused, fails, restarts>>

TakeEvent ==
    /\ worker = "idle" /\ queue # <<>>
    /\ LET event == Head(queue)
       IN  names' = IF event.action = "create" THEN names \cup {event.name}
                                               ELSE names \ {event.name}
    /\ queue' = Tail(queue)
    /\ worker' = "patching"
    /\ UNCHANGED <<connVars, cloudVars, rules, excused, fails, restarts>>

Configured ==
    /\ worker = "patching"
    /\ rules' = names
    /\ worker' = "idle"
    /\ ApiAnswers
    /\ UNCHANGED <<connVars, cloudVars, queue, names, excused, restarts>>

\* The exception ends the task, and nobody looks at it.
WorkerDies ==
    /\ worker = "patching"
    /\ rules' \in {rules, names}
    /\ worker' = "dead"
    /\ ApiFails
    /\ UNCHANGED <<connVars, cloudVars, queue, names, excused, restarts>>

\* The process ends, by itself when the ingress cannot be ensured, or killed; it
\* comes back with nothing remembered, calls under way done or not.
ControllerRestart ==
    /\ restarts < MaxRestarts
    /\ restarts' = restarts + 1
    /\ pc' = [c \in Conns |-> IF pc[c] = "new" THEN "new" ELSE "closed"]
    /\ num' = 0
    /\ clusters' \in Unanswered(clusters, At("creating"), At("deleting"))
    /\ services' \in Unanswered(services, At("servicing"), At("unservicing"))
    /\ rules' \in {rules} \cup IF worker = "patching" THEN {names} ELSE {}
    /\ queue' = <<>>
    /\ names' = {}
    /\ worker' = "starting"
    /\ excused' = excused \cup Active \cup names \cup rules
    /\ UNCHANGED <<gone, fails>>

-----------------------------------------------------------------------------
Init ==
    /\ pc = [c \in Conns |-> "new"]
    /\ gone = [c \in Conns |-> FALSE]
    /\ num = 0
    /\ clusters = {} /\ services = {}
    /\ queue = <<>>
    /\ names = {} /\ rules = {}
    /\ worker = "starting"
    /\ excused = {}
    /\ fails = 0 /\ restarts = 0

CallReturns(c) ==
    \/ Created(c) \/ CreateFails(c) \/ ServiceMade(c) \/ ServiceFails(c)
    \/ Linked(c) \/ TokenAnswered(c)
    \/ ServiceDeleted(c) \/ ServiceStays(c) \/ ClusterDeleted(c) \/ ClusterStays(c)

HandlerStep(c) ==
    \/ Connect(c) \/ ReadTeam(c) \/ CallReturns(c)
    \/ ControlPlaneReady(c) \/ WaitFails(c) \/ EndSession(c)

WorkerStep == StartWorker \/ TakeEvent \/ Configured \/ WorkerDies

Next ==
    \/ \E c \in Conns : HandlerStep(c) \/ ClientLeaves(c)
    \/ WorkerStep
    \/ ControllerRestart

Spec == Init /\ [][Next]_vars

\* API calls return and the worker runs; a client that left is noticed wherever
\* the handler reads or writes (keepalive, and dots every second).  Clients that
\* stay owe nothing, and a control plane need never be ready.
Fairness ==
    /\ WF_vars(WorkerStep)
    /\ \A c \in Conns :
         /\ WF_vars(CallReturns(c))
         /\ WF_vars(gone[c] /\ (ReadTeam(c) \/ WaitFails(c) \/ EndSession(c)))

FairSpec == Spec /\ Fairness

-----------------------------------------------------------------------------
(* Properties. *)

\* Types; the count goes below zero, once per failed creation.
TypeOK ==
    /\ pc \in [Conns -> {"new", "closed"} \cup Awaits]
    /\ gone \in [Conns -> BOOLEAN]
    /\ num \in -fails..Cardinality(Conns)
    /\ UNION {clusters, services, names, rules, excused} \subseteq Conns
    /\ queue \in Seq([action : {"create", "delete"}, name : Conns])
    /\ worker \in {"starting", "idle", "patching", "dead"}
    /\ fails \in 0..MaxFails /\ restarts \in 0..MaxRestarts

\* "Closing the connection deletes your cluster" (controller.py:210), whichever
\* call failed on the way: what a closed connection leaves behind is what a
\* failed clean-up call or a restart left.
NothingLeftBehind ==
    \A c \in Conns : pc[c] = "closed" /\ c \notin excused => c \notin clusters \cup services

\* The connections the count stands for, which hold a cluster made for them.
Counted == {c \in Conns : pc[c] \in {"waiting", "servicing", "linking", "asking",
                                     "open", "unservicing"}}

\* No way out of a connection leaves the count up, so that nobody is refused for
\* connections that ended; the finally blocks of resource_setup, at any failure.
CountNotHigh == num <= Cardinality(Counted)

\* The names the worker has, once it has worked off its queue, are those of the
\* connections between Ingress.add_name and Ingress.remove_name.
Queued(action, c) == \E k \in DOMAIN queue : queue[k] = Event(action, c)
Named == {c \in Conns : pc[c] \in {"servicing", "linking", "asking", "open", "unservicing"}}
NamesAgree ==
    \A c \in Conns : c \in Named <=> /\ c \in names \/ Queued("create", c)
                                     /\ ~Queued("delete", c)

\* The ingress follows, as long as the worker lives and nothing restarts: a
\* session that stays open gets its rule, and a closed one loses it.
RulesFollow ==
    \A c \in Conns :
        /\ pc[c] = "open" ~> c \in rules \/ pc[c] # "open" \/ worker = "dead"
        /\ pc[c] = "closed" ~> c \notin rules \/ c \in excused \/ worker = "dead"

\* Without noticing that a client left, "the k8s cluster is never cleaned up"
\* (controller.py:236): with keepalive, every handler of such a client ends.
LeaversCleaned == \A c \in Conns : gone[c] ~> pc[c] = "closed"

\* Whatever happens, the controller catches up with its clients: handlers of clients that
\* left end, and the ingress follows the sessions.
ControllerSettles == RulesFollow /\ LeaversCleaned

\* "no more than 5000 clusters" (controller.py:153).
AtMostLimit == Cardinality(clusters) <= Limit


\* The two books the controller keeps of its connections, the count and the ingress names,
\* agree with the connections there are, whatever failed on the way (controller.py:220).
BooksAgree == CountNotHigh /\ NamesAgree
=============================================================================
