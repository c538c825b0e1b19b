----------------------------- MODULE LeaseService -----------------------------
(***************************************************************************)
(* What the victim pool promises its teams, without threads, ticks and     *)
(* clocks: a usable phone serves one team at a time, a team has at most    *)
(* one phone, and waiting teams are served strictly in the order they came *)
(* -- a newcomer is served at once only when nobody waits.  The judge may  *)
(* forget everything (it keeps leases in memory).                          *)
(***************************************************************************)
EXTENDS Naturals, Sequences

CONSTANTS Teams, Instances, None

VARIABLES
    slot,    \* the team a phone serves, or None
    usable,  \* the phones that may be given out or are in use
    line     \* the waiting teams, first come first

serviceVars == <<slot, usable, line>>

Serves(t) == \E i \in Instances : slot[i] = t
Waits(t)  == \E k \in 1..Len(line) : line[k] = t
Give(t, i) ==
    /\ i \in usable
    /\ slot[i] = None
    /\ ~Serves(t)
    /\ slot' = [slot EXCEPT ![i] = t]

\* A newcomer gets a phone at once: nobody was waiting.
ServeNewcomer(t) ==
    /\ line = <<>>
    /\ \E i \in Instances : Give(t, i)
    /\ UNCHANGED <<usable, line>>

Enqueue(t) ==
    /\ ~Serves(t)
    /\ ~Waits(t)
    /\ line' = Append(line, t)
    /\ UNCHANGED <<slot, usable>>

ServeFirst ==
    /\ line # <<>>
    /\ \E i \in Instances : Give(Head(line), i)
    /\ line' = Tail(line)
    /\ UNCHANGED usable

\* Leases end: the phones are withdrawn until they have been renewed.
EndLeases ==
    /\ \E S \in SUBSET {i \in Instances : slot[i] # None} :
          /\ S # {}
          /\ slot' = [i \in Instances |-> IF i \in S THEN None ELSE slot[i]]
          /\ usable' = usable \ S
    /\ UNCHANGED line

Renew(i) ==
    /\ i \notin usable
    /\ usable' = usable \cup {i}
    /\ UNCHANGED <<slot, line>>

GiveUp(t) ==
    /\ \E k \in 1..Len(line) :
          /\ line[k] = t
          /\ line' = SubSeq(line, 1, k - 1) \o SubSeq(line, k + 1, Len(line))
    /\ UNCHANGED <<slot, usable>>

ServiceInit ==
    /\ slot = [i \in Instances |-> None]
    /\ usable = {}
    /\ line = <<>>

Forget ==
    /\ slot' = [i \in Instances |-> None]
    /\ usable' = {}
    /\ line' = <<>>

ServiceNext ==
    \/ ServeFirst \/ EndLeases \/ Forget
    \/ \E t \in Teams : ServeNewcomer(t) \/ Enqueue(t) \/ GiveUp(t)
    \/ \E i \in Instances : Renew(i)

ServiceSpec == ServiceInit /\ [][ServiceNext]_serviceVars
=============================================================================
