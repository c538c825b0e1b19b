------------------------------- MODULE BridgePod -------------------------------
(***************************************************************************)
(* The pod of a netshare team (ret2shell-ext-controller-pod/app.py): one   *)
(* thread opens a connection to the controller, reads the cluster's        *)
(* kubeconfig out of what comes, and holds the connection; the threads of  *)
(* the web server read what it has found.                                  *)
(*                                                                         *)
(* The stream is a sequence of pieces; a marker is two of them, so that a  *)
(* read may end in the middle of one.                                      *)
(***************************************************************************)
EXTENDS Naturals, Sequences, SequencesExt

CONSTANTS
    Streams,     \* what a controller sends before it waits: sequences of pieces
    MaxLooks     \* bound on the requests of the web server

BeginMark == <<"beg", "in">>
EndMark == <<"en", "d">>

ASSUME BridgeAssumption == \A s \in Streams : s \in Seq(STRING)

VARIABLES
    bridge,    \* the thread: "connect", "greet", "read", "found", "hold", "ended", "gone"
    stream,    \* what the controller sends on this connection
    got,  \* how much of it has been read: buf
    peerOpen,  \* the controller has not closed
    held,      \* the pod has not closed
    podStatus, \* _state: status and kubeconfig
    config,
    looks      \* answers of the web server: [status, config, held]

bridgeVars == <<bridge, stream, got, peerOpen, held, podStatus, config, looks>>

NoConfig == <<>>

-----------------------------------------------------------------------------
\* buf.find(mark): where it begins, 0 when it is not there.
Find(buf, mark) ==
    LET at == {i \in 1..(Len(buf) - 1) : SubSeq(buf, i, i + 1) = mark}
    IN  IF at = {} THEN 0 ELSE CHOOSE i \in at : \A j \in at : i <= j

Buf == SubSeq(stream, 1, got)

\* A controller that cannot be reached is an error, for good.
ConnectPod ==
    /\ bridge = "connect"
    /\ \/ bridge' = "greet" /\ held' = TRUE /\ UNCHANGED podStatus
       \/ bridge' = "ended" /\ podStatus' = "error" /\ UNCHANGED held
    /\ UNCHANGED <<stream, got, peerOpen, config, looks>>

\* The team's number is sent outside of any handler: an error ends the thread and the
\* status stays what it is.
Greet ==
    /\ bridge = "greet"
    /\ bridge' \in {"read", "ended"}
    /\ UNCHANGED <<stream, got, peerOpen, held, podStatus, config, looks>>

\* recv gives a part of what has come; the loop goes on until END is in buf.
ReadChunk ==
    /\ bridge = "read"
    /\ \E n \in (got + 1)..Len(stream) :
           /\ got' = n
           /\ bridge' = IF Find(SubSeq(stream, 1, n), EndMark) # 0 THEN "found" ELSE "read"
    /\ UNCHANGED <<stream, peerOpen, held, podStatus, config, looks>>

\* The controller has closed, the read fails or nothing comes for 600 seconds.
ReadFails ==
    /\ bridge = "read"
    /\ bridge' = "ended"
    /\ podStatus' = "error"
    /\ UNCHANGED <<stream, got, peerOpen, held, config, looks>>

\* Mutant: the status is told before there is a kubeconfig to tell.
TellBefore ==
    /\ \/ bridge = "read" /\ podStatus' = "ready" /\ UNCHANGED <<bridge, config>>
       \/ /\ bridge = "found"
          /\ config' = SubSeq(Buf, Find(Buf, BeginMark) + 2, Find(Buf, EndMark) - 1)
          /\ podStatus' = "ready"
          /\ bridge' = "hold"
    /\ UNCHANGED <<stream, got, peerOpen, held, looks>>

\* What is between the first BEGIN and the first END, if they come in this order.
TellConfig ==
    LET first == Find(Buf, BeginMark)
        last == Find(Buf, EndMark)
    IN  /\ bridge = "found"
        /\ IF first = 0 \/ last < first
           THEN /\ podStatus' = "error"
                /\ bridge' = "ended"
                /\ UNCHANGED config
           ELSE /\ podStatus' = "ready"
                /\ config' = SubSeq(Buf, first + 2, last - 1)
                /\ bridge' = "hold"
        /\ UNCHANGED <<stream, got, peerOpen, held, looks>>

\* The rest is read and dropped.
HoldOn ==
    /\ bridge = "hold"
    /\ got < Len(stream)
    /\ got' = Len(stream)
    /\ UNCHANGED <<bridge, stream, peerOpen, held, podStatus, config, looks>>

Disconnected ==
    /\ bridge = "hold"
    /\ ~peerOpen /\ got = Len(stream)
    /\ podStatus' = "disconnected"
    /\ bridge' = "ended"
    /\ UNCHANGED <<stream, got, peerOpen, held, config, looks>>

\* What it had sent before may still come.
PeerCloses ==
    /\ peerOpen
    /\ bridge \in {"read", "found", "hold"}
    /\ peerOpen' = FALSE
    /\ \E n \in got..Len(stream) : stream' = SubSeq(stream, 1, n)
    /\ UNCHANGED <<bridge, got, held, podStatus, config, looks>>

\* SIGTERM or SIGINT closes the socket and ends the pod.
ShutDown ==
    /\ bridge # "gone"
    /\ bridge' = "gone"
    /\ held' = FALSE
    /\ UNCHANGED <<stream, got, peerOpen, podStatus, config, looks>>

\* GET /api/status and GET /kubeconfig, each under _state_lock.
LookUp ==
    /\ bridge # "gone"
    /\ Len(looks) < MaxLooks
    /\ looks' = Append(looks, [status |-> podStatus, config |-> config, held |-> held])
    /\ UNCHANGED <<bridge, stream, got, peerOpen, held, podStatus, config>>

-----------------------------------------------------------------------------
BridgeInit ==
    /\ bridge = "connect"
    /\ stream \in Streams
    /\ got = 0
    /\ peerOpen = TRUE
    /\ held = FALSE
    /\ podStatus = "connecting"
    /\ config = NoConfig
    /\ looks = <<>>

BridgeNext ==
    \/ ConnectPod \/ Greet \/ ReadChunk \/ ReadFails \/ TellConfig \/ HoldOn
    \/ Disconnected \/ PeerCloses \/ ShutDown \/ LookUp

BridgeSpec == BridgeInit /\ [][BridgeNext]_bridgeVars

-----------------------------------------------------------------------------
\* The kubeconfig between the markers of a controller's answer.
Whole(s) == SubSeq(s, Find(s, BeginMark) + 2, Find(s, EndMark) - 1)

\* A player who is told "ready" gets the whole kubeconfig, however the stream was cut into
\* reads, over a connection the pod still holds, without which the controller deletes the
\* cluster (_bridge: "hold the connection open"); one who is told "connecting" or "error"
\* gets none.
ReadyMeansWhole ==
    \A i \in DOMAIN looks :
        /\ looks[i].status \in {"ready", "disconnected"} =>
               looks[i].held /\ looks[i].config = Whole(stream)
        /\ looks[i].status \in {"connecting", "error"} => looks[i].config = NoConfig
=============================================================================
