---------------------------- MODULE MCServers ----------------------------
(***************************************************************************)
(* Components that share no state and promise that something happens, side  *)
(* by side: the attempt queue of the judge, the VM launchers, and the       *)
(* challenge servers blinky, r3map and encrypted-activation.  A behaviour   *)
(* of ServersSpec is a behaviour of one of them, chosen at the start, while *)
(* the others rest in an initial state.                                     *)
(***************************************************************************)
EXTENDS WhisperAttempts, VmLauncher, BlinkyServer, R3mapServer, ActivationServer

CONSTANTS l1, l2, p1, e1   \* launchers and ports

VARIABLE component

servers == <<component, attemptVars, launcherVars, blinkyVars, r3mapVars, activationVars>>

-----------------------------------------------------------------------------
(* blinky: uploads that overwrite the kernel or the sentinel's line, repeat a line, or are bad. *)

Rec(n, content) == [line |-> n, content |-> content]
Uploads == {<<Rec(0, "code"), Rec(5, "mine"), Rec(0, "later")>>,
            <<Rec(4, "mine"), Rec(1, "code"), Rec(2, "bad")>>,
            <<Rec(1, "short")>>}
KernelImage == (4 :> "boot") @@ (5 :> "sentinel")

-----------------------------------------------------------------------------
(* encrypted-activation: answers to each input, with the noise at both ends of its bound, *)
(* other digits, and answers that are none.                                               *)

MCSecretKey == <<1, 0, 1>>
MCLut == [x \in 0..3 |-> (3 * x + 2) % 4]
MaskOf(x) == IF x < 2 THEN <<17, 40, 9>> ELSE <<5, 63, 0>>
Whole(x, off, mask, noise) ==
    [input |-> x, off |-> off, mask |-> mask, noise |-> noise, form |-> "whole"]
MCSent ==
    {Whole(x, 0, MaskOf(x), IF x % 2 = 0 THEN MaxNoise ELSE -MaxNoise) : x \in 0..3}
    \cup {Whole(0, 1, MaskOf(0), 0), Whole(1, 2, MaskOf(1), MaxNoise),
          Whole(2, 0, <<8, 8, 8>>, 0), Whole(3, 0, <<0, 0, 7>>, 0)}
    \cup {[Whole(1, 0, MaskOf(1), 0) EXCEPT !.form = f] : f \in {"tooFew", "cutOff"}}

-----------------------------------------------------------------------------
ServersInit ==
    /\ component \in {"attempts", "launcher", "blinky", "r3map", "activation"}
    /\ AttemptInit /\ LauncherInit /\ BlinkyInit /\ R3mapInit
    /\ ActivationInit
    \* Ports differ in nothing but their names.
    /\ public[l1] = p1
    /\ \A l \in Launchers : local[l] = e1
    /\ component # "launcher" => public[l2] = p1

AttemptsStep ==
    /\ component = "attempts" /\ AttemptNext
    /\ UNCHANGED <<component, launcherVars, blinkyVars, r3mapVars, activationVars>>
LauncherStep ==
    /\ component = "launcher" /\ LauncherNext
    /\ UNCHANGED <<component, attemptVars, blinkyVars, r3mapVars, activationVars>>
BlinkyStep ==
    /\ component = "blinky" /\ BlinkyNext
    /\ UNCHANGED <<component, attemptVars, launcherVars, r3mapVars, activationVars>>
R3mapStep ==
    /\ component = "r3map" /\ R3mapNext
    /\ UNCHANGED <<component, attemptVars, launcherVars, blinkyVars, activationVars>>
ActivationStep ==
    /\ component = "activation" /\ ActivationNext
    /\ UNCHANGED <<component, attemptVars, launcherVars, blinkyVars, r3mapVars>>

ServersNext ==
    \/ AttemptsStep
    \/ LauncherStep
    \/ BlinkyStep
    \/ R3mapStep
    \/ ActivationStep

\* The fairness of the five specifications, while their component runs.
ServersFairness ==
    /\ WF_attemptVars(component = "attempts" /\ WorkerStep)
    /\ \A l \in Launchers :
           /\ WF_launcherVars(component = "launcher" /\ Progress(l))
           /\ WF_launcherVars(component = "launcher" /\ ChildStep(l))
    /\ \A p \in Posts : WF_blinkyVars(component = "blinky" /\ ServerStep(p))
    /\ WF_r3mapVars(component = "r3map" /\ ThreadStep)
    /\ \A c \in Clients : WF_r3mapVars(component = "r3map" /\ VmExits(c))
    /\ \A c \in Conns :
           /\ WF_activationVars(component = "activation" /\ ServerGoesOn(c))
           /\ WF_activationVars(component = "activation" /\ RelayGoesOn(c))

ServersSpec == ServersInit /\ [][ServersNext]_servers /\ ServersFairness

-----------------------------------------------------------------------------
\* Nobody waits for ever: not the accepted attempts of the judge, nor a launcher in a cycle,
\* nor the posts of blinky, the clients of r3map, or the solvers of encrypted-activation for
\* the end of their session.
EveryoneIsServed ==
    AcceptedFinish /\ CycleSettles /\ PostsAnswered /\ ClientsGetTheirTurn /\ EndIsSeen
=============================================================================
