----------------------------- MODULE WhisperPush -----------------------------
(***************************************************************************)
(* The WebSocket side of the whisper backend (ws_manager.py, ws_handler.py  *)
(* and the broadcasts of conversations_router.py), for the members of one   *)
(* conversation.                                                            *)
(*                                                                         *)
(* One event loop runs everything: a handler is atomic between two awaits,  *)
(* tasks start in the order of their create_task, and the sends of one      *)
(* connection go out in the order in which they were tried.  A send may     *)
(* wait for a slow client, so sends to other connections overtake it.       *)
(***************************************************************************)
EXTENDS Naturals, Sequences, FiniteSets, SequencesExt

CONSTANTS Members,      \* the users of the conversation
          MaxConns,     \* bound on the connections
          MaxMessages,  \* bound on the messages sent
          MaxPending    \* bound on the broadcasts and sends under way

ASSUME PushAssumption ==
    /\ IsFiniteSet(Members)
    /\ MaxConns \in Nat /\ MaxMessages \in Nat /\ MaxPending \in Nat

\* WebSocket connections, numbered as they come and never reused.
Conns == 1..MaxConns

VARIABLES
    socket,    \* "none", "accepting", "open", "gone" (the client has vanished
               \* and nobody has noticed), "closed"
    user,      \* the user of a connection
    registered,\* the connections in _connections
    tasks,     \* the broadcasts created, not started
    sends,     \* the send_to_user calls in progress
    received,  \* how often a client got a message
    told,      \* the last presence of a user a client got
    committed, \* messages committed
    present,   \* the clients connected since before a message was committed
    watching,  \* the clients connected since before the last presence of a user
    doubled    \* users that have had two handlers running at once

pushVars == <<socket, user, registered, tasks, sends, received, told, committed,
              present, watching, doubled>>
clientVars == <<received, told>>
noted == <<committed, present, watching, doubled>>

Of(u) == {c \in registered : user[c] = u}
Open == {c \in registered : socket[c] = "open"}

\* The connections of u whose handler runs.
Served(u) == {c \in Conns : user[c] = u /\ socket[c] \in {"open", "gone"}}

Presence(u, on) == [about |-> u, message |-> 0, online |-> on]
NewMessage(u, m) == [about |-> u, message |-> m, online |-> TRUE]

\* What is noted of a client goes with it.
Forget(c) ==
    /\ received' = [received EXCEPT ![c] = [m \in 1..MaxMessages |-> 0]]
    /\ told' = [told EXCEPT ![c] = [u \in Members |-> "unknown"]]
    /\ present' = [m \in 1..MaxMessages |-> present[m] \ {c}]

Calm == Len(tasks) + Len(sends) < MaxPending

-----------------------------------------------------------------------------
(* The handler of a connection. *)

\* The token is checked once, then accept() awaits.
Connect(c, u) ==
    /\ socket[c] = "none"
    /\ c > 1 => socket[c - 1] # "none"
    /\ socket' = [socket EXCEPT ![c] = "accepting"]
    /\ user' = [user EXCEPT ![c] = u]
    /\ UNCHANGED <<registered, tasks, sends, clientVars, noted>>

\* The rest of connect, and the task that says so.
Register(c) ==
    /\ Calm
    /\ socket[c] = "accepting"
    /\ socket' = [socket EXCEPT ![c] = "open"]
    /\ registered' = registered \cup {c}
    /\ tasks' = Append(tasks, Presence(user[c], TRUE))
    /\ watching' = [watching EXCEPT ![user[c]] = Open]
    /\ doubled' = IF Served(user[c]) = {} THEN doubled ELSE doubled \cup {user[c]}
    /\ UNCHANGED <<user, sends, clientVars, committed, present>>

\* The client vanishes: sends to it fail from now on.
Vanish(c) ==
    /\ socket[c] = "open"
    /\ socket' = [socket EXCEPT ![c] = "gone"]
    /\ Forget(c)
    /\ watching' = [u \in Members |-> watching[u] \ {c}]
    /\ UNCHANGED <<user, registered, tasks, sends, committed, doubled>>

\* Mutant: the other connections are looked at before this one is removed.
DisconnectLast(c) ==
    /\ Calm
    /\ socket[c] \in {"open", "gone"}
    /\ socket' = [socket EXCEPT ![c] = "closed"]
    /\ registered' = registered \ {c}
    /\ tasks' = IF Of(user[c]) = {} THEN Append(tasks, Presence(user[c], FALSE)) ELSE tasks
    /\ watching' = [u \in Members |-> IF u = user[c] THEN Open \ {c} ELSE watching[u] \ {c}]
    /\ Forget(c)
    /\ UNCHANGED <<user, sends, committed, doubled>>

\* The client closed or vanished, or a frame made the loop raise: the finally.
Disconnect(c) ==
    /\ Calm
    /\ socket[c] \in {"open", "gone"}
    /\ socket' = [socket EXCEPT ![c] = "closed"]
    /\ registered' = registered \ {c}
    /\ tasks' = Append(tasks, Presence(user[c], FALSE))
    /\ watching' = [u \in Members |-> IF u = user[c] THEN Open \ {c} ELSE watching[u] \ {c}]
    /\ Forget(c)
    /\ UNCHANGED <<user, sends, committed, doubled>>

\* send_message commits and creates the task of its broadcast.  Receipts,
\* reactions, previews and typing are broadcast in the same way.
SendMessage(u) ==
    /\ Calm
    /\ committed < MaxMessages
    /\ committed' = committed + 1
    /\ present' = [present EXCEPT ![committed + 1] = Open]
    /\ tasks' = Append(tasks, NewMessage(u, committed + 1))
    /\ UNCHANGED <<socket, user, registered, sends, clientVars, watching, doubled>>

-----------------------------------------------------------------------------
(* Broadcasts. *)

\* Members of the conversation, without the user a presence is about.
Audience(t) == {u \in Members : t.message # 0 \/ u # t.about}

\* gather starts one send_to_user per user; each works on a snapshot of the
\* user's connections, and is done at once if there are none.
Calls(t) == {[what |-> t, to |-> u, left |-> Of(u), dead |-> {}] :
                u \in {v \in Audience(t) : Of(v) # {}}}

\* The event loop starts the oldest task.
StartTask ==
    /\ tasks # <<>>
    /\ tasks' = Tail(tasks)
    /\ sends' = sends \o SetToSeq(Calls(Head(tasks)))
    /\ UNCHANGED <<socket, user, registered, clientVars, noted>>

Deliver(c, t) ==
    IF t.message # 0
    THEN received' = [received EXCEPT ![c][t.message] = @ + 1] /\ UNCHANGED told
    ELSE told' = [told EXCEPT ![c][t.about] = IF t.online THEN "online" ELSE "offline"]
         /\ UNCHANGED received

\* The call has these connections left; at its end the dead are discarded.
Continue(i, left, dead) ==
    IF left = {}
    THEN /\ sends' = RemoveAt(sends, i)
         /\ registered' = registered \ dead
    ELSE /\ sends' = [sends EXCEPT ![i].left = left, ![i].dead = dead]
         /\ UNCHANGED registered

\* Mutant: the first exception ends the loop.
SendStops(i, c) ==
    /\ c \in sends[i].left
    /\ \A j \in 1..(i - 1) : c \notin sends[j].left
    /\ IF socket[c] = "open"
       THEN Deliver(c, sends[i].what) /\ Continue(i, sends[i].left \ {c}, sends[i].dead)
       ELSE UNCHANGED clientVars /\ Continue(i, {}, {c})
    /\ UNCHANGED <<socket, user, tasks, noted>>

\* One await send_json: it reaches the client, or raises.
Send(i, c) ==
    /\ c \in sends[i].left
    /\ \A j \in 1..(i - 1) : c \notin sends[j].left
    /\ IF socket[c] = "open"
       THEN Deliver(c, sends[i].what) /\ Continue(i, sends[i].left \ {c}, sends[i].dead)
       ELSE /\ UNCHANGED clientVars
            /\ Continue(i, sends[i].left \ {c}, sends[i].dead \cup {c})
    /\ UNCHANGED <<socket, user, tasks, noted>>

-----------------------------------------------------------------------------
PushInit ==
    /\ socket = [c \in Conns |-> "none"]
    /\ user = [c \in Conns |-> CHOOSE u \in Members : TRUE]
    /\ registered = {}
    /\ tasks = <<>>
    /\ sends = <<>>
    /\ received = [c \in Conns |-> [m \in 1..MaxMessages |-> 0]]
    /\ told = [c \in Conns |-> [u \in Members |-> "unknown"]]
    /\ committed = 0
    /\ present = [m \in 1..MaxMessages |-> {}]
    /\ watching = [u \in Members |-> {}]
    /\ doubled = {}

PushNext ==
    \/ \E c \in Conns :
           \/ \E u \in Members : Connect(c, u)
           \/ Register(c) \/ Vanish(c) \/ Disconnect(c)
    \/ \E u \in Members : SendMessage(u)
    \/ StartTask
    \/ \E i \in DOMAIN sends, c \in Conns : Send(i, c)

PushSpec == PushInit /\ [][PushNext]_pushVars

-----------------------------------------------------------------------------
Settled == tasks = <<>> /\ sends = <<>>

\* A client that connects and then lists the messages misses none: a message
\* committed while its connection was open is pushed to it exactly once, however
\* many other connections are slow or dead at that moment (ws_manager.py:31-41);
\* and the connection is in the table for as long as its client is there.
PushedOnce ==
    /\ \A c \in Conns : socket[c] = "open" => c \in registered
    /\ \A c \in Conns, m \in 1..MaxMessages :
           /\ received[c][m] <= 1
           /\ Settled /\ socket[c] = "open" /\ c \in present[m] => received[c][m] = 1

\* Once the broadcasts have been sent, the last presence of a user that a
\* connection was told is the true one -- of a user who never had two handlers
\* at once (ws_handler.py:120 says offline for each one that ends).
PresenceSettles ==
    Settled => \A u \in Members \ doubled : \A c \in watching[u] :
        socket[c] = "open" /\ user[c] # u
        => told[c][u] = IF Served(u) = {} THEN "offline" ELSE "online"
=============================================================================
