---------------------------- MODULE MCServices ----------------------------
(***************************************************************************)
(* Components that share no state, side by side: the push side, the store,  *)
(* the inbox and the accounts of the whisper backend, the baker of its      *)
(* images, the flag scan and the app baker of its judge, the bridge pod of  *)
(* netshare, the two-party ECDSA service of z3kapig, the services that hand *)
(* out team flags, and the puzzle servers.  A behaviour of ServicesSpec is  *)
(* a behaviour of one of them, chosen at the start, while the others rest   *)
(* in an initial state; each property is about one component.               *)
(***************************************************************************)
EXTENDS WhisperPush, WhisperStore, WhisperInbox, WhisperAccounts, ImageBaker,
        FlagScan, ApkBaker, BridgePod, ThresholdEcdsa, TeamFlags, MCPuzzles

CONSTANTS k1, k2   \* team tokens

VARIABLE component

backendVars == <<pushVars, storeVars, inboxVars, accountVars>>
judgeVars == <<bakerVars, scanVars, apkVars>>
otherVars == <<bridgeVars, vars, flagVars, puzzleVars>>

services == <<component, backendVars, judgeVars, otherVars>>

-----------------------------------------------------------------------------
(* Accounts: a row of a backend that had no passwords. *)

MCOldRow == [phone |-> "p1", handle |-> "h1", name |-> "Al"]

-----------------------------------------------------------------------------
(* Images to bake: two good ones and a nearly full one, one whose partition   *)
(* "system" is not the first of its name nor aligned to blocks, ones without  *)
(* a super partition, a GPT, a metadata magic, a system partition, and one    *)
(* whose extent has no superblock.                                            *)

Table(gpt, efi, lp, parts, extents, dirs) ==
    [gpt |-> gpt, efi |-> efi, lp |-> lp, parts |-> parts, extents |-> extents, dirs |-> dirs]
Extent(sectors, type, data) == [sectors |-> sectors, type |-> type, data |-> data]
Logical(name, first, num) == [name |-> name, first |-> first, num |-> num]

Gpts == <<[name |-> "boot", first |-> 1], [name |-> "", first |-> 0],
          [name |-> "super", first |-> 2]>>
Usual == <<Logical("vendor", 0, 1), Logical("system", 1, 1)>>
AtTwo(sectors) == <<Extent(1, 0, 9), Extent(sectors, 0, 2)>>
Dirs == {"/lib", "/etc"}

\* A file system of size cells at a place, with these first cells.
FileSystem(at, size, first) ==
    [i \in Cells |-> CASE i = at                        -> Superblock
                       [] i \in (at + 1)..(at + size - 1) ->
                              IF i - at <= Len(first) THEN first[i - at] ELSE FreeCell
                       [] OTHER                         -> Cell("other", "", "")]

Typical == [tables |-> Table(Gpts, TRUE, TRUE, Usual, AtTwo(6), Dirs),
            cells |-> FileSystem(4, 6, <<Cell(FlagPath, "old", "0600")>>)]
MCImages ==
    {Typical,
     [tables |-> Table(Gpts, TRUE, TRUE, Usual, AtTwo(5), {"/lib"}), cells |-> FileSystem(4, 5, <<>>)],
     [tables |-> Table(Gpts, TRUE, TRUE, Usual, AtTwo(4), Dirs),
      cells |-> FileSystem(4, 4, <<Cell("/lib/a", "decoy", "0644")>>)],
     [tables |-> Table(Gpts, TRUE, TRUE, <<Logical("system", 0, 0), Logical("system", 1, 2)>>,
                       <<Extent(1, 0, 9), Extent(1, 1, 0), Extent(6, 0, 3)>>, Dirs),
      cells |-> FileSystem(5, 6, <<>>)],
     [Typical EXCEPT !.tables.gpt = <<Gpts[1]>>],
     [Typical EXCEPT !.tables.efi = FALSE],
     [Typical EXCEPT !.tables.lp = FALSE],
     [Typical EXCEPT !.tables.parts = <<Usual[1]>>],
     [Typical EXCEPT !.tables.extents = <<Extent(1, 0, 9), Extent(6, 0, 3)>>]}

MCDecoyFiles == <<[path |-> "/lib/a", parent |-> "/lib", mode |-> "0644"],
                  [path |-> "/etc/b", parent |-> "/etc", mode |-> "0644"]>>

-----------------------------------------------------------------------------
(* The judge: bodies with the flag first or second, a template with a         *)
(* configuration of its own; and what netshare's controller sends, cut short  *)
(* by an error or not.                                                        *)

MCTexts == {<<"real">>, <<"other", "real">>}
MCArchive == <<[name |-> "classes.dex", data |-> <<"code">>],
               [name |-> ConfigEntry, data |-> <<"example", "">>],
               [name |-> "resources.arsc", data |-> <<"strings">>]>>
MCAddress == ("b1" :> "h1") @@ ("b2" :> "h2")
MCStreams == {<<".", "beg", "in", "k1", "k2", "en", "d", ".">>, <<"beg", "in", "k1">>, <<"no">>}

-----------------------------------------------------------------------------
(* z3kapig: the random values a session may draw. *)

\* Safe primes, one pair per party; 517 and 581 have ten bits each.
Keys == [p \in Parties |-> IF p = 0 THEN <<11, 47>> ELSE <<7, 83>>]

KeygenDraw(x, rid) == [x |-> x, rid |-> rid, alpha |-> x + 1, beta |-> 4]
\* The key shares of the last pair add up to 0.
KeygenDraws == {<<KeygenDraw(2, 5), KeygenDraw(4, 9)>>,
                <<KeygenDraw(5, 12), KeygenDraw(1, 3)>>,
                <<KeygenDraw(3, 7), KeygenDraw(4, 1)>>}

\* The values of a proof, and an alpha next to the bound of its interval.
ProofDraw == [alpha |-> 5, beta |-> 9, gamma |-> 20, delta |-> 11, mu |-> 3, m |-> 4,
              r |-> 13, ry |-> 15]
LargeAlpha == [ProofDraw EXCEPT !.alpha = CurveN^3 - 1]

\* The factor proof of r = 1 may have a negative v.
AuxDraw(base, r, rho, alpha) ==
    [alpha |-> alpha, beta |-> 90, gamma |-> 20, delta |-> 11, mu |-> 3, nu |-> 2, sigma |-> 5,
     lam |-> 17, a |-> <<5, 9>>, w |-> 2, base |-> base, r |-> r, rho |-> rho]
AuxDraws == {<<AuxDraw(30, 900, 6, 50), AuxDraw(12, 900, 10, 50)>>,
             <<AuxDraw(5, 900, 3, 50), AuxDraw(9, 900, 8, 50)>>,
             <<AuxDraw(30, 900, 1, 50), AuxDraw(12, 1, 4, 50)>>,
             <<AuxDraw(30, 900, 6, CurveN^3 * 22 - 1), AuxDraw(12, 900, 10, 50)>>}

PresignDraw(k, gi, y, yX, proof) ==
    [k |-> k, gi |-> gi, rhoK |-> 9, rhoG |-> 25, yG |-> y, yX |-> yX,
     sij |-> 10, rij |-> 19] @@ proof
\* In this order: two ordinary pairs, nonces that add up to 0, a product that passes the
\* modulus in both exchanges, one in the second only, an alpha too large.
PresignDraws == {<<PresignDraw(2, 3, 100, 101, ProofDraw), PresignDraw(4, 6, 30, 31, ProofDraw)>>,
                 <<PresignDraw(1, 5, 200, 201, ProofDraw), PresignDraw(1, 1, 3, 4, ProofDraw)>>,
                 <<PresignDraw(2, 3, 100, 101, ProofDraw), PresignDraw(5, 6, 30, 31, ProofDraw)>>,
                 <<PresignDraw(5, 3, 100, 101, ProofDraw), PresignDraw(1, 5, 510, 511, ProofDraw)>>,
                 <<PresignDraw(5, 3, 100, 101, ProofDraw), PresignDraw(1, 5, 30, 512, ProofDraw)>>,
                 <<PresignDraw(3, 3, 100, 101, LargeAlpha), PresignDraw(3, 6, 30, 31, ProofDraw)>>}

SignDraw(blind, proof) == [blind |-> blind] @@ proof
SignDraws == {<<SignDraw(2, ProofDraw), SignDraw(6, ProofDraw)>>,
              <<SignDraw(3, ProofDraw), SignDraw(1, LargeAlpha)>>}

-----------------------------------------------------------------------------
(* Team flags. *)

MCTeamOf == (k1 :> 5) @@ (k2 :> -1)
MCCarrier == ("speedrun" :> <<3, 1, 0, 2, 2, 1, 3, 0, 1, 1, 2, 3, 0, 3, 2, 1>>)
             @@ ("netshare" :> <<1, 1, 2, 0, 3, 2, 0, 0, 3, 1, 1, 2, 2, 0, 1, 3>>)
MCKeyWords == ("speedrun" :> <<183, 12, 99>>) @@ ("netshare" :> <<64, 201, 33, 250>>)
MCKeystream == ("speedrun" :> <<2, 0, 1, 3, 1, 1, 2, 0, 3, 0, 2, 1, 3, 1, 0, 2>>)
               @@ ("netshare" :> <<0, 3, 3, 1, 2, 0, 1, 2, 1, 1, 0, 3, 2, 2, 0, 1>>)
\* 32768 does not fit into the bytes of a number.
MCTypedTeams == {0, 1, -1, 32767, -32768, 32768, 1337}

-----------------------------------------------------------------------------
\* The programs that calculate on elliptic curves keep their word (z3kapig's main.py:267,
\* rECp1cG's task.py): sessions agree on what they sign, and the walk that is published is
\* an instance of its problem.
CurvesAgree == SessionsAgree /\ WalkIsSound

-----------------------------------------------------------------------------
ServicesInit ==
    /\ component \in {"push", "store", "inbox", "accounts", "baker", "scan", "apk", "bridge",
                      "ecdsa", "flags", "puzzles"}
    /\ PushInit /\ StoreInit /\ InboxInit /\ AccountsInit
    /\ BakerInit /\ ScanInit /\ ApkInit /\ BridgeInit /\ Init /\ FlagsInit /\ PuzzlesInit
    /\ component # "accounts" => users = {}
    /\ component # "baker" => tables = Typical.tables
    /\ component # "apk" => backend = "b1"
    /\ component # "bridge" => stream = <<"no">>
    /\ component # "ecdsa" => fault = "none"
    /\ component # "puzzles" => puzzle = "walk"

BackendStep ==
    /\ \/ /\ component = "push" /\ PushNext
          /\ UNCHANGED <<storeVars, inboxVars, accountVars>>
       \/ /\ component = "store" /\ StoreNext
          /\ UNCHANGED <<pushVars, inboxVars, accountVars>>
       \/ /\ component = "inbox" /\ InboxNext
          /\ UNCHANGED <<pushVars, storeVars, accountVars>>
       \/ /\ component = "accounts" /\ AccountsNext
          /\ UNCHANGED <<pushVars, storeVars, inboxVars>>
    /\ UNCHANGED <<component, judgeVars, otherVars>>

JudgeStep ==
    /\ \/ component = "baker" /\ BakerNext /\ UNCHANGED <<scanVars, apkVars>>
       \/ component = "scan" /\ ScanNext /\ UNCHANGED <<bakerVars, apkVars>>
       \/ component = "apk" /\ ApkNext /\ UNCHANGED <<bakerVars, scanVars>>
    /\ UNCHANGED <<component, backendVars, otherVars>>

OtherStep ==
    /\ \/ component = "bridge" /\ BridgeNext /\ UNCHANGED <<vars, flagVars, puzzleVars>>
       \/ component = "ecdsa" /\ Next /\ UNCHANGED <<bridgeVars, flagVars, puzzleVars>>
       \/ component = "flags" /\ FlagsNext /\ UNCHANGED <<bridgeVars, vars, puzzleVars>>
       \/ component = "puzzles" /\ PuzzlesNext /\ UNCHANGED <<bridgeVars, vars, flagVars>>
    /\ UNCHANGED <<component, backendVars, judgeVars>>

ServicesNext == BackendStep \/ JudgeStep \/ OtherStep

ServicesSpec == ServicesInit /\ [][ServicesNext]_services
=============================================================================
