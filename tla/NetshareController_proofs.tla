----------------------- MODULE NetshareController_proofs -----------------------
(***************************************************************************)
(* Safety of the cluster controller for every number of connections,       *)
(* failures and restarts.                                                  *)
(*                                                                         *)
(* Three inductive invariants, each about another piece of the state a     *)
(* connection must undo: its cluster and service (HeldInv), its share of   *)
(* the count (CountInv) and its name (NameInv).                            *)
(***************************************************************************)
EXTENDS NetshareController, BridgePod, FiniteSetTheorems, SequenceTheorems,
        WellFoundedInduction, NaturalsInduction, TLAPS

Events == [action : {"create", "delete"}, name : Conns]

\* The types of the state, but for the bounds of the count.
Types ==
    /\ pc \in [Conns -> {"new", "closed"} \cup Awaits]
    /\ gone \in [Conns -> BOOLEAN]
    /\ num \in Int
    /\ UNION {clusters, services, names, rules, excused} \subseteq Conns
    /\ queue \in Seq(Events)
    /\ worker \in {"starting", "idle", "patching", "dead"}
    /\ fails \in 0..MaxFails /\ restarts \in 0..MaxRestarts

\* NothingLeftBehind is not inductive: a connection may also be closed from its
\* prompt and from its last call, where it has nothing left either.
HeldInv ==
    \A c \in Conns :
        /\ pc[c] \in {"new", "prompted", "creating", "closed"} =>
               c \in excused \/ c \notin clusters
        /\ pc[c] \in {"new", "prompted", "creating", "waiting", "servicing", "deleting", "closed"} =>
               c \in excused \/ c \notin services

\* An API call that fails changes one thing of one connection, or nothing.
LEMMA UnansweredSubset ==
    ASSUME NEW S, NEW m, NEW r, NEW T \in Unanswered(S, m, r)
    PROVE  T \subseteq S \cup m
BY DEF Unanswered

\* Every step keeps the types.
LEMMA TypesStep == ASSUME Types, [Next]_vars PROVE Types'
<1> USE NetshareAssumption DEF Types, Awaits, Events, Goes, connVars, cloudVars, workerVars,
        ApiFails, ApiAnswers
<1>1. ASSUME NEW c \in Conns, HandlerStep(c) PROVE Types'
  <2>1. CASE Connect(c) \/ ReadTeam(c)
    BY <2>1 DEF Connect, ReadTeam
  <2>2. CASE Created(c)
    BY <2>2 DEF Created
  <2>3. CASE CreateFails(c)
    BY <2>3, UnansweredSubset DEF CreateFails
  <2>4. CASE ControlPlaneReady(c)
    BY <2>4 DEF ControlPlaneReady, AddName, Event
  <2>5. CASE WaitFails(c)
    BY <2>5 DEF WaitFails
  <2>6. CASE ServiceMade(c)
    BY <2>6 DEF ServiceMade
  <2>7. CASE ServiceFails(c)
    BY <2>7, UnansweredSubset DEF ServiceFails, RemoveName, Event
  <2>8. CASE Linked(c) \/ TokenAnswered(c) \/ EndSession(c)
    BY <2>8 DEF Linked, TokenAnswered, EndSession
  <2>9. CASE ServiceDeleted(c)
    BY <2>9 DEF ServiceDeleted, RemoveName, Event
  <2>10. CASE ServiceStays(c)
    BY <2>10, UnansweredSubset DEF ServiceStays, RemoveName, Event
  <2>11. CASE ClusterDeleted(c)
    BY <2>11 DEF ClusterDeleted
  <2>12. CASE ClusterStays(c)
    BY <2>12, UnansweredSubset DEF ClusterStays
  <2> QED
    BY <1>1, <2>1, <2>2, <2>3, <2>4, <2>5, <2>6, <2>7, <2>8, <2>9, <2>10, <2>11, <2>12
    DEF HandlerStep, CallReturns
<1>2. ASSUME NEW c \in Conns, ClientLeaves(c) PROVE Types'
  BY <1>2 DEF ClientLeaves
<1>3. CASE WorkerStep
  <2>1. CASE StartWorker \/ Configured \/ WorkerDies
    BY <2>1 DEF StartWorker, Configured, WorkerDies
  <2>2. CASE TakeEvent
    <3>1. Head(queue) \in Events /\ Tail(queue) \in Seq(Events)
      BY <2>2, HeadTailProperties DEF TakeEvent
    <3>2. names' \subseteq Conns
      BY <2>2, <3>1 DEF TakeEvent
    <3> QED
      BY <2>2, <3>1, <3>2 DEF TakeEvent
  <2> QED
    BY <1>3, <2>1, <2>2 DEF WorkerStep
<1>4. CASE ControllerRestart
  BY <1>4, UnansweredSubset DEF ControllerRestart, At, Active
<1>5. CASE UNCHANGED vars
  BY <1>5 DEF vars
<1> QED
  BY <1>1, <1>2, <1>3, <1>4, <1>5 DEF Next

\* The state always has its types.
LEMMA TypesInvariant == Spec => []Types
<1>1. Init => Types
  BY NetshareAssumption DEF Init, Types, Awaits
<1> QED
  BY <1>1, TypesStep, PTL DEF Spec

-----------------------------------------------------------------------------
(* What connections hold. *)

\* Every step leaves a connection that has ended without holdings, or excused.
LEMMA HeldStep == ASSUME Types, HeldInv, [Next]_vars PROVE HeldInv'
<1> USE DEF Types, HeldInv, Awaits, Goes, connVars, cloudVars, workerVars
<1>1. ASSUME NEW c \in Conns, HandlerStep(c) PROVE HeldInv'
  <2>1. CASE Connect(c) \/ ReadTeam(c)
    BY <2>1 DEF Connect, ReadTeam
  <2>2. CASE Created(c)
    BY <2>2 DEF Created
  <2>3. CASE CreateFails(c)
    BY <2>3, UnansweredSubset DEF CreateFails
  <2>4. CASE ControlPlaneReady(c) \/ WaitFails(c)
    BY <2>4 DEF ControlPlaneReady, WaitFails
  <2>6. CASE ServiceMade(c)
    BY <2>6 DEF ServiceMade
  <2>7. CASE ServiceFails(c)
    BY <2>7, UnansweredSubset DEF ServiceFails
  <2>8. CASE Linked(c) \/ TokenAnswered(c) \/ EndSession(c)
    BY <2>8 DEF Linked, TokenAnswered, EndSession
  <2>9. CASE ServiceDeleted(c)
    BY <2>9 DEF ServiceDeleted
  <2>10. CASE ServiceStays(c)
    BY <2>10, UnansweredSubset DEF ServiceStays
  <2>11. CASE ClusterDeleted(c)
    BY <2>11 DEF ClusterDeleted
  <2>12. CASE ClusterStays(c)
    BY <2>12, UnansweredSubset DEF ClusterStays
  <2> QED
    BY <1>1, <2>1, <2>2, <2>3, <2>4, <2>6, <2>7, <2>8, <2>9, <2>10, <2>11, <2>12
    DEF HandlerStep, CallReturns
<1>2. ASSUME NEW c \in Conns, ClientLeaves(c) PROVE HeldInv'
  BY <1>2 DEF ClientLeaves
<1>3. CASE WorkerStep
  BY <1>3 DEF WorkerStep, StartWorker, TakeEvent, Configured, WorkerDies
<1>4. CASE ControllerRestart
  BY <1>4, UnansweredSubset DEF ControllerRestart, At, Active
<1>5. CASE UNCHANGED vars
  BY <1>5 DEF vars
<1> QED
  BY <1>1, <1>2, <1>3, <1>4, <1>5 DEF Next

\* What a closed connection leaves behind is what a failed clean-up call or a
\* restart left, whichever calls fail on the way through the finally blocks of
\* resource_setup.
THEOREM ConnectionsCleanUp == Spec => []NothingLeftBehind
<1>1. Init => HeldInv
  BY DEF Init, HeldInv
<1>2. HeldInv => NothingLeftBehind
  BY DEF HeldInv, NothingLeftBehind
<1> QED
  BY <1>1, <1>2, TypesInvariant, HeldStep, PTL DEF Spec

-----------------------------------------------------------------------------
(* The count. *)

\* CountNotHigh is one half of it: the count is off by the failed creations of
\* this process, never by more than all failed calls.
CountInv ==
    /\ num <= Cardinality(Counted)
    /\ Cardinality(Counted) <= num + fails

\* There are finitely many counted connections, as there are connections.
LEMMA CountedFinite ==
    ASSUME Types
    PROVE  /\ IsFiniteSet(Counted) /\ Cardinality(Counted) \in Nat
           /\ Cardinality(Conns) \in Nat /\ Cardinality(Counted) <= Cardinality(Conns)
<1>1. Counted \in SUBSET Conns
  BY DEF Counted
<1> QED
  BY <1>1, NetshareAssumption, FS_Subset, FS_CardinalityType DEF NetshareAssumption

\* Every step changes the count as it changes those counted, but for failed calls.
LEMMA CountStep == ASSUME Types, Types', CountInv, [Next]_vars PROVE CountInv'
<1> DEFINE Stays     == Counted' = Counted /\ num' = num /\ fails' >= fails
           Enters(c) == c \notin Counted /\ Counted' = Counted \cup {c}
                        /\ num' = num + 1 /\ fails' = fails
           Leaves(c) == c \in Counted /\ Counted' = Counted \ {c}
                        /\ num' = num - 1 /\ fails' >= fails
           Slips     == Counted' = Counted /\ num' = num - 1 /\ fails' = fails + 1
<1>1. ASSUME NEW c \in Conns, HandlerStep(c) PROVE Stays \/ Enters(c) \/ Leaves(c) \/ Slips
  <2> USE DEF Types, Counted, Goes, ApiFails, ApiAnswers, connVars
  <2>1. CASE Connect(c) \/ ReadTeam(c) \/ ControlPlaneReady(c)
    BY <2>1 DEF Connect, ReadTeam, ControlPlaneReady
  <2>2. CASE Created(c)
    <3>1. Enters(c)
      BY <2>2 DEF Created
    <3> QED
      BY <3>1
  <2>3. CASE CreateFails(c)
    <3>1. Slips
      BY <2>3 DEF CreateFails
    <3> QED
      BY <3>1
  <2>4. CASE WaitFails(c) \/ ServiceFails(c) \/ ServiceDeleted(c) \/ ServiceStays(c)
    <3>1. Leaves(c)
      BY <2>4 DEF WaitFails, ServiceFails, ServiceDeleted, ServiceStays
    <3> QED
      BY <3>1
  <2>5. CASE ServiceMade(c) \/ Linked(c) \/ TokenAnswered(c) \/ EndSession(c)
    BY <2>5 DEF ServiceMade, Linked, TokenAnswered, EndSession
  <2>6. CASE ClusterDeleted(c) \/ ClusterStays(c)
    BY <2>6 DEF ClusterDeleted, ClusterStays
  <2> QED
    BY <1>1, <2>1, <2>2, <2>3, <2>4, <2>5, <2>6 DEF HandlerStep, CallReturns
<1>2. ASSUME NEW c \in Conns, ClientLeaves(c) PROVE Stays
  BY <1>2 DEF ClientLeaves, Types, Counted
<1>3. CASE WorkerStep
  <2>1. Stays
    BY <1>3 DEF WorkerStep, StartWorker, TakeEvent, Configured, WorkerDies, connVars,
                ApiFails, ApiAnswers, Types, Counted
  <2> QED
    BY <2>1, CountedFinite DEF CountInv, Types
<1>4. CASE ControllerRestart
  <2>1. Counted' = {} /\ num' = 0 /\ fails' = fails
    BY <1>4 DEF ControllerRestart, Counted
  <2> QED
    BY <2>1, FS_EmptySet DEF CountInv, Types
<1>5. CASE UNCHANGED vars
  BY <1>5 DEF vars, connVars, CountInv, Counted
<1>6. ASSUME NEW c \in Conns, Stays \/ Enters(c) \/ Leaves(c) \/ Slips PROVE CountInv'
  <2>1. CASE Stays
    BY <2>1, CountedFinite DEF CountInv, Types
  <2>2. CASE Enters(c)
    <3>1. Cardinality(Counted') = Cardinality(Counted) + 1
      BY <2>2, CountedFinite, FS_AddElement
    <3> QED
      BY <2>2, <3>1, CountedFinite DEF CountInv, Types
  <2>3. CASE Leaves(c)
    <3>1. Cardinality(Counted') = Cardinality(Counted) - 1
      BY <2>3, CountedFinite, FS_RemoveElement
    <3> QED
      BY <2>3, <3>1, CountedFinite DEF CountInv, Types
  <2>4. CASE Slips
    BY <2>4, CountedFinite DEF CountInv, Types
  <2> QED
    BY <1>6, <2>1, <2>2, <2>3, <2>4
<1> QED
  BY <1>1, <1>2, <1>3, <1>4, <1>5, <1>6 DEF Next

\* The count always lies between its two bounds.
LEMMA CountInvariant == Spec => []CountInv
<1>1. Init => CountInv
  <2> SUFFICES ASSUME Init PROVE CountInv
    OBVIOUS
  <2>1. Counted = {}
    BY DEF Init, Counted
  <2> QED
    BY <2>1, FS_EmptySet DEF Init, CountInv
<1> QED
  BY <1>1, TypesInvariant, CountStep, PTL DEF Spec

\* The count is never above the connections it stands for, whichever finally
\* block raises: nobody is refused for connections that have ended.
THEOREM CountKept == Spec => []CountNotHigh
<1>1. CountInv => CountNotHigh
  BY DEF CountInv, CountNotHigh
<1> QED
  BY <1>1, CountInvariant, PTL

\* The types of the controller's state, with the range of the count: as low as
\* the failed creations of CreateFails drive it, and no lower.
THEOREM TypeCorrect == Spec => []TypeOK
<1>1. Types /\ CountInv => TypeOK
  BY CountedFinite DEF CountInv, Types, TypeOK, Events
<1> QED
  BY <1>1, TypesInvariant, CountInvariant, PTL

-----------------------------------------------------------------------------
(* The ingress queue. *)

\* NamesAgree is not inductive: that taking one event leaves the rest right needs
\* that a connection queues each event once, in their order, and not before it
\* has a control plane.
QueueInv ==
    /\ \A j, k \in 1..Len(queue) : queue[j] = queue[k] => j = k
    /\ \A c \in Conns, j, k \in 1..Len(queue) :
          queue[j] = Event("create", c) /\ queue[k] = Event("delete", c) => j < k
    /\ \A c \in Conns : Queued("create", c) => c \notin names
    /\ \A c \in Conns : pc[c] \in {"new", "prompted", "creating", "waiting"} =>
          c \notin names /\ ~Queued("create", c) /\ ~Queued("delete", c)

NameInv == QueueInv /\ NamesAgree

\* An event says which connection and what, so two that agree are one.
LEMMA EventsDiffer ==
    /\ \A a, c : Event(a, c) = [action |-> a, name |-> c]
    /\ \A a, b, c, d : Event(a, c) = Event(b, d) <=> a = b /\ c = d
BY DEF Event

\* Appending an event queues it and no other.
LEMMA AppendQueued ==
    ASSUME Types, NEW e \in Events, queue' = Append(queue, e), NEW a, NEW c
    PROVE  Queued(a, c)' <=> Queued(a, c) \/ e = Event(a, c)
<1>1. /\ Len(queue') = Len(queue) + 1 /\ Len(queue) \in Nat
      /\ DOMAIN queue = 1..Len(queue) /\ DOMAIN queue' = 1..(Len(queue) + 1)
      /\ \A k \in 1..(Len(queue) + 1) :
            queue'[k] = IF k = Len(queue) + 1 THEN e ELSE queue[k]
  BY DEF Types
<1> QED
  BY <1>1 DEF Queued, Event

\* Taking the head leaves the other events queued.
LEMMA TailQueued ==
    ASSUME Types, queue # <<>>, queue' = Tail(queue), NEW a, NEW c
    PROVE  Queued(a, c) <=> Queued(a, c)' \/ Head(queue) = Event(a, c)
<1>1. /\ Len(queue) \in Nat \ {0} /\ Len(queue') = Len(queue) - 1
      /\ DOMAIN queue = 1..Len(queue) /\ DOMAIN queue' = 1..(Len(queue) - 1)
      /\ Head(queue) = queue[1]
      /\ \A k \in 1..(Len(queue) - 1) : queue'[k] = queue[k + 1]
  BY DEF Types
<1>2. Queued(a, c)' => Queued(a, c)
  BY <1>1 DEF Queued, Event
<1>3. Head(queue) = Event(a, c) => Queued(a, c)
  BY <1>1 DEF Queued, Event
<1>4. ASSUME Queued(a, c), Head(queue) # Event(a, c) PROVE Queued(a, c)'
  <2>1. PICK k \in 1..Len(queue) : queue[k] = Event(a, c)
    BY <1>1, <1>4 DEF Queued
  <2>2. k - 1 \in 1..(Len(queue) - 1) /\ queue'[k - 1] = Event(a, c)
    BY <1>1, <1>4, <2>1
  <2> QED
    BY <1>1, <2>2 DEF Queued, Event
<1> QED
  BY <1>2, <1>3, <1>4

\* The handler has a control plane: its name is put in the queue.
LEMMA NamePut ==
    ASSUME Types, NameInv, NEW c \in Conns, ControlPlaneReady(c)
    PROVE  NameInv'
<1> USE DEF NameInv, ControlPlaneReady, AddName, Goes, workerVars
<1>1. Event("create", c) \in Events
  BY DEF Event, Events
<1>2. \A a, d : Queued(a, d)' <=> Queued(a, d) \/ Event("create", c) = Event(a, d)
  BY <1>1, AppendQueued
<1>3. ~Queued("create", c) /\ ~Queued("delete", c) /\ c \notin names
  BY DEF QueueInv
<1>4. \A d \in Conns : pc'[d] = IF d = c THEN "servicing" ELSE pc[d]
  BY DEF Types
<1>5. NamesAgree'
  BY <1>2, <1>3, <1>4, EventsDiffer DEF NamesAgree, Named
<1>6. /\ Len(queue) \in Nat /\ Len(queue') = Len(queue) + 1
      /\ \A k \in 1..(Len(queue) + 1) :
            queue'[k] = IF k = Len(queue) + 1 THEN Event("create", c) ELSE queue[k]
      /\ DOMAIN queue = 1..Len(queue)
  BY <1>1 DEF Types
<1>7. \A k \in 1..Len(queue) : queue[k] # Event("create", c) /\ queue[k] # Event("delete", c)
  BY <1>3, <1>6 DEF Queued
<1>8. \A j, k \in 1..Len(queue') : queue'[j] = queue'[k] => j = k
  BY <1>6, <1>7 DEF QueueInv
<1>9. \A d \in Conns, j, k \in 1..Len(queue') :
         queue'[j] = Event("create", d) /\ queue'[k] = Event("delete", d) => j < k
  BY <1>6, <1>7, EventsDiffer DEF QueueInv
<1>10. \A d \in Conns : Queued("create", d)' => d \notin names'
  BY <1>2, <1>3, EventsDiffer DEF QueueInv
<1>11. \A d \in Conns : pc'[d] \in {"new", "prompted", "creating", "waiting"} =>
         d \notin names' /\ ~Queued("create", d)' /\ ~Queued("delete", d)'
  BY <1>2, <1>4, EventsDiffer DEF QueueInv
<1> QED
  BY <1>5, <1>8, <1>9, <1>10, <1>11 DEF QueueInv

\* The handler unwinds from the service: the end of its name is put in the queue.
LEMMA NameWithdrawn ==
    ASSUME Types, NameInv, NEW c \in Conns, c \in Named, RemoveName(c),
           pc' = [pc EXCEPT ![c] = "deleting"], UNCHANGED names
    PROVE  NameInv'
<1> USE DEF NameInv, RemoveName
<1>1. Event("delete", c) \in Events
  BY DEF Event, Events
<1>2. \A a, d : Queued(a, d)' <=> Queued(a, d) \/ Event("delete", c) = Event(a, d)
  BY <1>1, AppendQueued
<1>3. ~Queued("delete", c)
  BY DEF NamesAgree
<1>4. \A d \in Conns : pc'[d] = IF d = c THEN "deleting" ELSE pc[d]
  BY DEF Types
<1>5. NamesAgree'
  BY <1>2, <1>3, <1>4, EventsDiffer DEF NamesAgree, Named
<1>6. /\ Len(queue) \in Nat /\ Len(queue') = Len(queue) + 1
      /\ \A k \in 1..(Len(queue) + 1) :
            queue'[k] = IF k = Len(queue) + 1 THEN Event("delete", c) ELSE queue[k]
      /\ DOMAIN queue = 1..Len(queue)
  BY <1>1 DEF Types
<1>7. \A k \in 1..Len(queue) : queue[k] # Event("delete", c)
  BY <1>3, <1>6 DEF Queued
<1>8. \A j, k \in 1..Len(queue') : queue'[j] = queue'[k] => j = k
  BY <1>6, <1>7 DEF QueueInv
<1>9. \A d \in Conns, j, k \in 1..Len(queue') :
         queue'[j] = Event("create", d) /\ queue'[k] = Event("delete", d) => j < k
  BY <1>6, <1>7, EventsDiffer DEF QueueInv
<1>10. \A d \in Conns : Queued("create", d)' => d \notin names'
  BY <1>2, EventsDiffer DEF QueueInv
<1>11. \A d \in Conns : pc'[d] \in {"new", "prompted", "creating", "waiting"} =>
         d \notin names' /\ ~Queued("create", d)' /\ ~Queued("delete", d)'
  BY <1>2, <1>4, EventsDiffer DEF QueueInv
<1> QED
  BY <1>5, <1>8, <1>9, <1>10, <1>11 DEF QueueInv

\* The worker takes an event.
LEMMA NameTaken ==
    ASSUME Types, NameInv, TakeEvent
    PROVE  NameInv'
<1> USE DEF NameInv, TakeEvent, connVars
<1>1. PICK action \in {"create", "delete"}, c \in Conns : Head(queue) = Event(action, c)
  <2>1. Head(queue) \in Events
    BY HeadTailProperties DEF Types
  <2> QED
    BY <2>1 DEF Events, Event
<1>2. names' = IF action = "create" THEN names \cup {c} ELSE names \ {c}
  <2>1. Event(action, c).action = action /\ Event(action, c).name = c
    BY DEF Event
  <2> QED
    BY <1>1, <2>1
<1>3. \A a, d : Queued(a, d) <=> Queued(a, d)' \/ Event(action, c) = Event(a, d)
  BY <1>1, TailQueued
<1>4. /\ Len(queue) \in Nat \ {0} /\ Len(queue') = Len(queue) - 1
      /\ queue[1] = Event(action, c)
      /\ \A k \in 1..(Len(queue) - 1) : queue'[k] = queue[k + 1]
      /\ DOMAIN queue' = 1..(Len(queue) - 1)
  BY <1>1 DEF Types
<1>5. ~Queued(action, c)'
  <2>1. SUFFICES ASSUME NEW k \in 1..(Len(queue) - 1), queue'[k] = Event(action, c) PROVE FALSE
    BY <1>4 DEF Queued, Event
  <2>2. k + 1 \in 1..Len(queue) /\ 1 \in 1..Len(queue) /\ queue[k + 1] = queue[1] /\ k + 1 # 1
    BY <1>4, <2>1
  <2> QED
    BY <2>2 DEF QueueInv
<1>6. action = "delete" => ~Queued("create", c)'
  <2>1. SUFFICES ASSUME action = "delete", NEW k \in 1..(Len(queue) - 1),
                        queue'[k] = Event("create", c)
                 PROVE  FALSE
    BY <1>4 DEF Queued, Event
  <2>2. k + 1 \in 1..Len(queue) /\ 1 \in 1..Len(queue) /\ ~(k + 1 < 1)
        /\ queue[k + 1] = Event("create", c) /\ queue[1] = Event("delete", c)
    BY <1>4, <2>1
  <2> QED
    BY <2>2 DEF QueueInv
<1>7. NamesAgree'
  BY <1>2, <1>3, <1>5, <1>6, EventsDiffer DEF NamesAgree, Named
<1>8. \A j, k \in 1..Len(queue') : queue'[j] = queue'[k] => j = k
  BY <1>4 DEF QueueInv
<1>9. \A d \in Conns, j, k \in 1..Len(queue') :
         queue'[j] = Event("create", d) /\ queue'[k] = Event("delete", d) => j < k
  <2> SUFFICES ASSUME NEW d \in Conns, NEW j \in 1..Len(queue'), NEW k \in 1..Len(queue'),
                      queue'[j] = Event("create", d), queue'[k] = Event("delete", d)
               PROVE  j < k
    OBVIOUS
  <2>1. j + 1 \in 1..Len(queue) /\ k + 1 \in 1..Len(queue)
        /\ queue[j + 1] = Event("create", d) /\ queue[k + 1] = Event("delete", d)
    BY <1>4
  <2>2. j + 1 < k + 1
    BY <2>1 DEF QueueInv
  <2> QED
    BY <1>4, <2>2
<1>10. \A d \in Conns : Queued("create", d)' => d \notin names'
  BY <1>2, <1>3, <1>5, <1>6, EventsDiffer DEF QueueInv
<1>11. \A d \in Conns : pc'[d] \in {"new", "prompted", "creating", "waiting"} =>
         d \notin names' /\ ~Queued("create", d)' /\ ~Queued("delete", d)'
  BY <1>2, <1>3, EventsDiffer DEF QueueInv
<1> QED
  BY <1>7, <1>8, <1>9, <1>10, <1>11 DEF QueueInv

\* A step that leaves queue and names alone and does not cross either event.
LEMMA NameKept ==
    ASSUME Types, NameInv, UNCHANGED <<queue, names>>, Named' = Named,
           \A c \in Conns : pc'[c] \in {"new", "prompted", "creating", "waiting"} =>
               pc[c] \in {"new", "prompted", "creating", "waiting"}
    PROVE  NameInv'
BY DEF NameInv, QueueInv, NamesAgree, Queued

\* Every step keeps names and queue in agreement.
LEMMA NameStep == ASSUME Types, NameInv, [Next]_vars PROVE NameInv'
<1>1. ASSUME NEW c \in Conns, HandlerStep(c) PROVE NameInv'
  <2> USE DEF Types, Goes, workerVars
  <2>1. CASE ControlPlaneReady(c)
    BY <2>1, NamePut
  <2>2. CASE ServiceFails(c) \/ ServiceDeleted(c) \/ ServiceStays(c)
    BY <2>2, NameWithdrawn DEF ServiceFails, ServiceDeleted, ServiceStays, Named
  <2>3. CASE Connect(c) \/ ReadTeam(c) \/ Created(c) \/ CreateFails(c) \/ WaitFails(c)
    BY <2>3, NameKept DEF Connect, ReadTeam, Created, CreateFails, WaitFails, Named
  <2>4. CASE ServiceMade(c) \/ Linked(c) \/ TokenAnswered(c) \/ EndSession(c)
    BY <2>4, NameKept DEF ServiceMade, Linked, TokenAnswered, EndSession, Named
  <2>5. CASE ClusterDeleted(c) \/ ClusterStays(c)
    BY <2>5, NameKept DEF ClusterDeleted, ClusterStays, Named
  <2> QED
    BY <1>1, <2>1, <2>2, <2>3, <2>4, <2>5 DEF HandlerStep, CallReturns
<1>2. ASSUME NEW c \in Conns, ClientLeaves(c) PROVE NameInv'
  BY <1>2, NameKept DEF ClientLeaves, workerVars, Named
<1>3. CASE WorkerStep
  <2>1. CASE StartWorker \/ Configured \/ WorkerDies
    BY <2>1, NameKept DEF StartWorker, Configured, WorkerDies, connVars, Named
  <2> QED
    BY <1>3, <2>1, NameTaken DEF WorkerStep
<1>4. CASE ControllerRestart
  BY <1>4 DEF ControllerRestart, NameInv, QueueInv, NamesAgree, Named, Queued, Types
<1>5. CASE UNCHANGED vars
  BY <1>5, NameKept DEF vars, connVars, workerVars, Named
<1> QED
  BY <1>1, <1>2, <1>3, <1>4, <1>5 DEF Next

\* Whatever the worker lags behind, and whichever calls fail, its names and its
\* queue together say which connections are between Ingress.add_name and
\* Ingress.remove_name.
THEOREM NamesFollow == Spec => []NamesAgree
<1>1. Init => NameInv
  BY DEF Init, NameInv, QueueInv, NamesAgree, Named, Queued
<1>2. NameInv => NamesAgree
  BY DEF NameInv
<1> QED
  BY <1>1, <1>2, TypesInvariant, NameStep, PTL DEF Spec


\* The count and the names, together: the books of the controller agree.
THEOREM BooksKept == Spec => []BooksAgree
<1>1. CountNotHigh /\ NamesAgree => BooksAgree
  BY DEF BooksAgree
<1> QED
  BY <1>1, CountKept, NamesFollow, PTL

-----------------------------------------------------------------------------
(* The bridge pod, which cuts the kubeconfig out of what the controller sends. *)

\* A non-empty set of numbers has a least element.
LEMMA LeastOf ==
    ASSUME NEW A \in SUBSET Nat, A # {}
    PROVE  \E x \in A : \A y \in A : x <= y
<1>1. OpToRel(<, Nat) = {ss \in Nat \X Nat : ss[1] < ss[2]}
  BY DEF OpToRel
<1>2. PICK x \in A : \A y \in A : <<y, x>> \notin OpToRel(<, Nat)
  BY NatLessThanWellFounded, WFMin
<1>3. \A y \in A : ~(y < x)
  BY <1>1, <1>2
<1> QED
  BY <1>3

Places(s, mark) == {i \in 1..(Len(s) - 1) : SubSeq(s, i, i + 1) = mark}

\* Find gives the first place of a marker, 0 without one.
LEMMA FindPlace ==
    ASSUME NEW s \in Seq(STRING), NEW mark
    PROVE  /\ Places(s, mark) = {} <=> Find(s, mark) = 0
           /\ Find(s, mark) # 0 => /\ Find(s, mark) \in Places(s, mark)
                                   /\ \A j \in Places(s, mark) : Find(s, mark) <= j
<1>1. Places(s, mark) \in SUBSET Nat /\ 0 \notin Places(s, mark)
  BY DEF Places
<1>2. CASE Places(s, mark) = {}
  BY <1>2 DEF Find, Places
<1>3. CASE Places(s, mark) # {}
  <2>1. \E x \in Places(s, mark) : \A y \in Places(s, mark) : x <= y
    BY <1>1, <1>3, LeastOf
  <2>2. Find(s, mark) = CHOOSE i \in Places(s, mark) : \A j \in Places(s, mark) : i <= j
    BY <1>3 DEF Find, Places
  <2>3. Find(s, mark) \in Places(s, mark) /\ \A j \in Places(s, mark) : Find(s, mark) <= j
    <3> HIDE DEF Places, Find
    <3> QED BY <2>1, <2>2
  <2> QED
    BY <1>1, <1>3, <2>3
<1> QED
  BY <1>2, <1>3

\* What is found in a part is found in the whole, at the same place.
LEMMA FindInPart ==
    ASSUME NEW s \in Seq(STRING), NEW n \in 0..Len(s), NEW mark,
           Find(SubSeq(s, 1, n), mark) # 0
    PROVE  Find(s, mark) = Find(SubSeq(s, 1, n), mark) /\ Find(s, mark) \in 1..(n - 1)
<1> DEFINE part == SubSeq(s, 1, n)
<1>0. part \in Seq(STRING) /\ Len(part) = n /\ Len(s) \in Nat /\ \A i \in 1..n : part[i] = s[i]
  BY SubSeqProperties, LenProperties, ElementOfSeq
<1>1. ASSUME NEW i \in 1..(n - 1) PROVE SubSeq(part, i, i + 1) = SubSeq(s, i, i + 1)
  <2>0. i \in 1..n /\ i + 1 \in 1..n /\ n \in Nat
    BY <1>0
  <2>1. \A k \in i..(i + 1) : part[k] \in STRING /\ s[k] \in STRING /\ part[k] = s[k]
    BY <1>0, <2>0, ElementOfSeq
  <2>2. /\ SubSeq(part, i, i + 1) \in Seq(STRING) /\ Len(SubSeq(part, i, i + 1)) = 2
        /\ \A k \in 1..2 : SubSeq(part, i, i + 1)[k] = part[i + k - 1]
    <3> HIDE DEF part
    <3>1. i \in Int /\ i + 1 \in Int /\ (i + 1) - i + 1 = 2 /\ i <= i + 1
      OBVIOUS
    <3> QED BY <2>1, <3>1, SubSeqProperties
  <2>3. /\ SubSeq(s, i, i + 1) \in Seq(STRING) /\ Len(SubSeq(s, i, i + 1)) = 2
        /\ \A k \in 1..2 : SubSeq(s, i, i + 1)[k] = s[i + k - 1]
    <3>1. i \in Int /\ i + 1 \in Int /\ (i + 1) - i + 1 = 2 /\ i <= i + 1
      OBVIOUS
    <3> QED BY <2>1, <3>1, SubSeqProperties
  <2>4. \A k \in 1..2 : SubSeq(part, i, i + 1)[k] = SubSeq(s, i, i + 1)[k]
    BY <2>0, <2>1, <2>2, <2>3
  <2> QED
    BY <2>2, <2>3, <2>4, SeqEqual
<1>2. Places(part, mark) = Places(s, mark) \cap (1..(n - 1))
  <2> HIDE DEF part
  <2>1. 1..(Len(part) - 1) = 1..(n - 1) /\ 1..(n - 1) \subseteq 1..(Len(s) - 1)
    BY <1>0
  <2>2. ASSUME NEW i \in 1..(n - 1) PROVE i \in Places(part, mark) <=> i \in Places(s, mark)
    BY <1>1, <2>1, <2>2 DEF Places
  <2>3. Places(part, mark) \subseteq 1..(n - 1)
    BY <2>1 DEF Places
  <2> QED
    BY <2>2, <2>3
<1>3. Find(part, mark) \in Places(part, mark) /\ \A j \in Places(part, mark) : Find(part, mark) <= j
  BY <1>0, FindPlace
<1>4. Find(s, mark) # 0 /\ Find(s, mark) \in Places(s, mark) /\ \A j \in Places(s, mark) : Find(s, mark) <= j
  BY <1>2, <1>3, FindPlace
<1>5. Places(s, mark) \in SUBSET Nat
  BY DEF Places
<1> QED
  BY <1>0, <1>2, <1>3, <1>4, <1>5

Marked(s) == Find(s, BeginMark) # 0 /\ Find(s, EndMark) # 0

\* A part with both markers has the kubeconfig of the whole.
LEMMA WholeInPart ==
    ASSUME NEW s \in Seq(STRING), NEW n \in 0..Len(s), Marked(SubSeq(s, 1, n))
    PROVE  Marked(s) /\ Whole(s) = Whole(SubSeq(s, 1, n)) /\ Whole(s) \in Seq(STRING)
<1> DEFINE part == SubSeq(s, 1, n)
           b == Find(s, BeginMark)
           e == Find(s, EndMark)
<1>1. part \in Seq(STRING) /\ Len(part) = n /\ Len(s) \in Nat /\ \A i \in 1..n : part[i] = s[i]
  BY SubSeqProperties, LenProperties, ElementOfSeq
<1>2. b = Find(part, BeginMark) /\ e = Find(part, EndMark) /\ b \in 1..(n - 1) /\ e \in 1..(n - 1)
  BY FindInPart DEF Marked
<1>3. Whole(s) = SubSeq(s, b + 2, e - 1) /\ Whole(part) = SubSeq(part, b + 2, e - 1)
  BY <1>2 DEF Whole
<1> HIDE DEF part, b, e
<1>4. \A i \in (b + 2)..(e - 1) : i \in 1..n /\ s[i] \in STRING /\ part[i] = s[i]
  BY <1>1, <1>2, ElementOfSeq
<1>5. SubSeq(s, b + 2, e - 1) = SubSeq(part, b + 2, e - 1) /\ SubSeq(s, b + 2, e - 1) \in Seq(STRING)
  <2>1. b + 2 \in Int /\ e - 1 \in Int
    BY <1>1, <1>2
  <2>2. /\ SubSeq(s, b + 2, e - 1) \in Seq(STRING)
        /\ Len(SubSeq(s, b + 2, e - 1)) = IF b + 2 <= e - 1 THEN (e - 1) - (b + 2) + 1 ELSE 0
        /\ \A i \in 1..((e - 1) - (b + 2) + 1) : SubSeq(s, b + 2, e - 1)[i] = s[(b + 2) + i - 1]
    BY <1>4, <2>1, SubSeqProperties
  <2>3. /\ SubSeq(part, b + 2, e - 1) \in Seq(STRING)
        /\ Len(SubSeq(part, b + 2, e - 1)) = IF b + 2 <= e - 1 THEN (e - 1) - (b + 2) + 1 ELSE 0
        /\ \A i \in 1..((e - 1) - (b + 2) + 1) : SubSeq(part, b + 2, e - 1)[i] = part[(b + 2) + i - 1]
    BY <1>4, <2>1, SubSeqProperties
  <2>4. Len(SubSeq(s, b + 2, e - 1)) = Len(SubSeq(part, b + 2, e - 1))
    BY <2>2, <2>3
  <2>5. ASSUME NEW i \in 1..Len(SubSeq(s, b + 2, e - 1))
        PROVE  SubSeq(s, b + 2, e - 1)[i] = SubSeq(part, b + 2, e - 1)[i]
    <3>0. b \in Int /\ e \in Int
      BY <1>1, <1>2
    <3>1. i \in 1..((e - 1) - (b + 2) + 1) /\ (b + 2) + i - 1 \in (b + 2)..(e - 1)
      <4> DEFINE len == Len(SubSeq(s, b + 2, e - 1))
      <4>1. i \in 1..len /\ len = (IF b + 2 <= e - 1 THEN (e - 1) - (b + 2) + 1 ELSE 0)
        BY <2>2
      <4> HIDE DEF len
      <4>2. i \in Nat /\ i >= 1 /\ i <= e - b - 2
        BY <3>0, <4>1
      <4> QED
        BY <3>0, <4>2
    <3> QED
      BY <1>4, <2>2, <2>3, <3>1
  <2> QED
    BY <2>2, <2>3, <2>4, <2>5, SeqEqual
<1>6. Marked(s)
  BY <1>2 DEF b, e, Marked
<1> QED
  BY <1>3, <1>5, <1>6 DEF part


-----------------------------------------------------------------------------
Statuses == {"connecting", "error", "ready", "disconnected"}
Looks == [status : Statuses, config : Seq(STRING), held : BOOLEAN]

BridgeTypeOK ==
    /\ stream \in Seq(STRING) /\ got \in 0..Len(stream)
    /\ bridge \in {"connect", "greet", "read", "found", "hold", "ended", "gone"}
    /\ podStatus \in Statuses
    /\ held \in BOOLEAN
    /\ config \in Seq(STRING)
    /\ looks \in Seq(Looks)

HasConfig == podStatus \in {"ready", "disconnected"}

\* A kubeconfig was cut out of what had been read, and the pod holds the connection.
PodInv ==
    /\ HasConfig => Marked(Buf) /\ config = Whole(stream)
    /\ ~HasConfig => config = NoConfig
    /\ bridge = "found" => Find(Buf, EndMark) # 0
    /\ bridge \in {"connect", "greet", "read", "found"} => podStatus = "connecting"
    /\ bridge = "hold" => HasConfig
    /\ bridge \in {"greet", "read", "found", "hold"} => held
    /\ bridge # "gone" /\ HasConfig => held

\* What a player has been told is still true.
LooksInv ==
    \A i \in DOMAIN looks :
        /\ looks[i].status \in {"ready", "disconnected"} =>
               HasConfig /\ looks[i].held /\ looks[i].config = config
        /\ looks[i].status \in {"connecting", "error"} => looks[i].config = NoConfig

BridgeInv == BridgeTypeOK /\ PodInv /\ LooksInv

\* What has been read stays a part of the stream.
LEMMA PartOfPart ==
    ASSUME NEW s \in Seq(STRING), NEW n \in 0..Len(s), NEW k \in 0..n
    PROVE  SubSeq(SubSeq(s, 1, n), 1, k) = SubSeq(s, 1, k) /\ SubSeq(s, 1, n) \in Seq(STRING)
           /\ Len(SubSeq(s, 1, n)) = n
<1>1. SubSeq(s, 1, n) \in Seq(STRING) /\ Len(SubSeq(s, 1, n)) = n /\ Len(s) \in Nat
      /\ \A i \in 1..n : SubSeq(s, 1, n)[i] = s[i]
  BY SubSeqProperties, LenProperties, ElementOfSeq
<1>2. SubSeq(s, 1, k) \in Seq(STRING) /\ Len(SubSeq(s, 1, k)) = k /\ \A i \in 1..k : SubSeq(s, 1, k)[i] = s[i]
  BY <1>1, SubSeqProperties, LenProperties, ElementOfSeq
<1>3. k \in 0..Len(SubSeq(s, 1, n))
  BY <1>1
<1>4. SubSeq(SubSeq(s, 1, n), 1, k) \in Seq(STRING) /\ Len(SubSeq(SubSeq(s, 1, n), 1, k)) = k
      /\ \A i \in 1..k : SubSeq(SubSeq(s, 1, n), 1, k)[i] = SubSeq(s, 1, n)[i]
  <2> DEFINE part == SubSeq(s, 1, n)
  <2>1. part \in Seq(STRING) /\ Len(part) = n /\ k \in 0..Len(part)
    BY <1>1, <1>3
  <2> HIDE DEF part
  <2>2. SubSeq(part, 1, k) \in Seq(STRING) /\ Len(SubSeq(part, 1, k)) = k
      /\ \A i \in 1..k : SubSeq(part, 1, k)[i] = part[i]
    BY <2>1, SubSeqProperties, LenProperties, ElementOfSeq
  <2> QED
    BY <2>2 DEF part
<1>5. \A i \in 1..k : SubSeq(SubSeq(s, 1, n), 1, k)[i] = SubSeq(s, 1, k)[i]
  BY <1>1, <1>2, <1>4
<1> QED
  BY <1>1, <1>2, <1>4, <1>5, SeqEqual

\* Nothing read, nothing told.
LEMMA BridgeInitially == BridgeInit => BridgeInv
<1> SUFFICES ASSUME BridgeInit PROVE BridgeInv
  OBVIOUS
<1>1. stream \in Seq(STRING)
  BY BridgeAssumption DEF BridgeInit, BridgeAssumption
<1>2. got \in 0..Len(stream)
  <2>1. Len(stream) \in Nat
    BY <1>1, LenProperties
  <2> QED
    BY <2>1 DEF BridgeInit
<1>3. config \in Seq(STRING) /\ looks \in Seq(Looks)
  BY EmptySeq DEF BridgeInit, NoConfig
<1>4. BridgeTypeOK
  BY <1>1, <1>2, <1>3 DEF BridgeInit, BridgeTypeOK, Statuses
<1>5. PodInv
  BY DEF BridgeInit, PodInv, HasConfig
<1>6. LooksInv
  <2>1. DOMAIN looks = {}
    BY DEF BridgeInit
  <2> QED
    BY <2>1 DEF LooksInv
<1> QED
  BY <1>4, <1>5, <1>6 DEF BridgeInv

\* Every step of the bridge, its peer and its pod keeps the invariant.
LEMMA BridgeStep == BridgeInv /\ [BridgeNext]_bridgeVars => BridgeInv'
<1> SUFFICES ASSUME BridgeInv, [BridgeNext]_bridgeVars PROVE BridgeInv'
  OBVIOUS
<1> USE DEF BridgeInv, BridgeTypeOK, HasConfig, Statuses
<1>0. Len(stream) \in Nat /\ got \in Nat
  BY LenProperties
<1>1. CASE ConnectPod
  BY <1>1 DEF ConnectPod, PodInv, LooksInv, Buf
<1>2. CASE Greet
  BY <1>2 DEF Greet, PodInv, LooksInv, Buf
<1>3. CASE ReadChunk
  <2>1. PICK n \in (got + 1)..Len(stream) :
           /\ got' = n
           /\ bridge' = IF Find(SubSeq(stream, 1, n), EndMark) # 0 THEN "found" ELSE "read"
    BY <1>3 DEF ReadChunk
  <2>2. bridge = "read" /\ UNCHANGED <<stream, peerOpen, held, podStatus, config, looks>>
    BY <1>3 DEF ReadChunk
  <2>3. got' \in 0..Len(stream)
    BY <1>0, <2>1
  <2> QED
    BY <2>1, <2>2, <2>3 DEF PodInv, LooksInv, Buf
<1>4. CASE ReadFails
  BY <1>4 DEF ReadFails, PodInv, LooksInv, Buf
<1>5. CASE TellConfig
  <2> DEFINE first == Find(Buf, BeginMark)
             last == Find(Buf, EndMark)
  <2>1. bridge = "found" /\ last # 0 /\ ~HasConfig /\ held
        /\ UNCHANGED <<stream, got, peerOpen, held, looks>>
    BY <1>5 DEF TellConfig, PodInv
  <2>2. CASE first = 0 \/ last < first
    BY <1>5, <2>1, <2>2 DEF TellConfig, PodInv, LooksInv, Buf
  <2>3. CASE ~(first = 0 \/ last < first)
    <3>1. podStatus' = "ready" /\ config' = Whole(Buf) /\ bridge' = "hold"
      BY <1>5, <2>3 DEF TellConfig, Whole
    <3>2. Marked(Buf)
      BY <2>1, <2>3 DEF Marked
    <3>3. Whole(stream) = Whole(Buf) /\ Whole(stream) \in Seq(STRING)
      BY <3>2, WholeInPart DEF Buf
    <3> QED
      BY <2>1, <3>1, <3>2, <3>3 DEF PodInv, LooksInv, Buf
  <2> QED
    BY <2>2, <2>3
<1>6. CASE HoldOn
  <2>1. got' = Len(stream) /\ UNCHANGED <<bridge, stream, peerOpen, held, podStatus, config, looks>> /\ bridge = "hold"
    BY <1>6 DEF HoldOn
  <2>2. Marked(Buf) => Marked(Buf')
    <3>1. Buf = SubSeq(Buf', 1, got) /\ Buf' \in Seq(STRING) /\ got \in 0..Len(Buf')
      BY <1>0, <2>1, PartOfPart DEF Buf
    <3> QED
      BY <3>1, WholeInPart
  <2>3. got' \in 0..Len(stream)
    BY <1>0, <2>1
  <2> QED
    BY <2>1, <2>2, <2>3 DEF PodInv, LooksInv
<1>7. CASE Disconnected
  BY <1>7 DEF Disconnected, PodInv, LooksInv, Buf
<1>8. CASE PeerCloses
  <2>1. PICK n \in got..Len(stream) : stream' = SubSeq(stream, 1, n)
    BY <1>8 DEF PeerCloses
  <2>2. UNCHANGED <<bridge, got, held, podStatus, config, looks>>
    BY <1>8 DEF PeerCloses
  <2>3. n \in 0..Len(stream) /\ got \in 0..n
    BY <1>0, <2>1
  <2>4. Buf' = Buf /\ stream' \in Seq(STRING) /\ Len(stream') = n
    BY <2>1, <2>2, <2>3, PartOfPart DEF Buf
  <2>5. Marked(Buf) => Whole(stream') = Whole(stream)
    <3>1. Marked(Buf) => Whole(stream) = Whole(Buf)
      BY WholeInPart DEF Buf
    <3>2. Marked(Buf') => Whole(stream') = Whole(Buf')
      <4>1. got' \in 0..Len(stream')
        BY <2>2, <2>3, <2>4
      <4> QED
        BY <2>4, <4>1, WholeInPart DEF Buf
    <3> QED
      BY <2>4, <3>1, <3>2
  <2> QED
    BY <2>2, <2>3, <2>4, <2>5 DEF PodInv, LooksInv
<1>9. CASE ShutDown
  BY <1>9 DEF ShutDown, PodInv, LooksInv, Buf
<1>10. CASE LookUp
  <2> DEFINE look == [status |-> podStatus, config |-> config, held |-> held]
  <2>1. looks' = Append(looks, look) /\ UNCHANGED <<bridge, stream, got, peerOpen, held, podStatus, config>>
        /\ bridge # "gone"
    BY <1>10 DEF LookUp
  <2>2. look \in Looks /\ look.status = podStatus /\ look.config = config /\ look.held = held
    BY DEF Looks
  <2> HIDE DEF look
  <2>3. looks' \in Seq(Looks) /\ DOMAIN looks' = DOMAIN looks \cup {Len(looks) + 1}
        /\ looks'[Len(looks) + 1] = look /\ \A i \in DOMAIN looks : looks'[i] = looks[i]
    BY <2>1, <2>2, AppendProperties, LenProperties
  <2>4. LooksInv'
    <3>1. ASSUME NEW i \in DOMAIN looks'
          PROVE  /\ looks'[i].status \in {"ready", "disconnected"} =>
                       HasConfig' /\ looks'[i].held /\ looks'[i].config = config'
                 /\ looks'[i].status \in {"connecting", "error"} => looks'[i].config = NoConfig
      <4>1. CASE i \in DOMAIN looks
        BY <2>1, <2>3, <4>1 DEF LooksInv
      <4>2. CASE i = Len(looks) + 1
        BY <2>1, <2>2, <2>3, <4>2 DEF PodInv
      <4> QED
        BY <2>3, <3>1, <4>1, <4>2
    <3> QED
      BY <3>1 DEF LooksInv
  <2>5. PodInv'
    BY <2>1 DEF PodInv, Buf
  <2> QED
    BY <2>1, <2>3, <2>4, <2>5
<1>11. CASE UNCHANGED bridgeVars
  BY <1>11 DEF bridgeVars, PodInv, LooksInv, Buf
<1> QED
  BY <1>1, <1>2, <1>3, <1>4, <1>5, <1>6, <1>7, <1>8, <1>9, <1>10, <1>11 DEF BridgeNext

\* A player that is told ready has the whole kubeconfig of a connection that is still
\* held, in however many pieces it came and whatever the peer does (_bridge of app.py).
THEOREM ReadyConfigsWhole == BridgeSpec => []ReadyMeansWhole
<1>1. BridgeInv => ReadyMeansWhole
  BY DEF BridgeInv, PodInv, LooksInv, ReadyMeansWhole
<1> QED
  BY <1>1, BridgeInitially, BridgeStep, PTL DEF BridgeSpec
=============================================================================
