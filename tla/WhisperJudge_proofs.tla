------------------------- MODULE WhisperJudge_proofs --------------------------
(***************************************************************************)
(* The judge: its queue of attempts, for every set of attempts and readers *)
(* and every size of the queue; its flag scan, for every set of chats and  *)
(* texts, every page size, grace period and time-out; the app it bakes and *)
(* hands out, for every template and any downloads and restarts; and the   *)
(* scripts that bake the flag into an image, for images of every size.     *)
(***************************************************************************)
EXTENDS WhisperAttempts, FlagScan, ApkBaker, ImageBaker, SequenceTheorems, FiniteSetTheorems,
        WellFoundedInduction, TLAPS

-----------------------------------------------------------------------------
(* The inductive invariant: where an attempt is determines its record.     *)

\* An attempt waits once, as accepted and not yet run.
InLine ==
    /\ \A i, j \in 1..Len(waiting) : waiting[i] = waiting[j] => i = j
    /\ \A i \in 1..Len(waiting) :
           /\ request[waiting[i]] = "accepted"
           /\ results[waiting[i]] = "queued"
           /\ waiting[i] # running

\* The worker's attempt has left the queue; its flag is stored last.
AtWork ==
    /\ captured => running # None
    /\ running # None =>
           /\ request[running] = "accepted"
           /\ results[running] = IF captured THEN "solved" ELSE "queued"
           /\ running \notin pending
           /\ handed[running] = 0

\* What has not been accepted has not been scanned.
Unscanned ==
    \A a \in Attempts :
        /\ request[a] = "new" => results[a] = "none"
        /\ request[a] \in {"recorded", "refused"} => results[a] = "queued"
        /\ results[a] # "solved" => handed[a] = 0

AttemptInv == AttemptTypeOK /\ InLine /\ AtWork /\ Unscanned /\ OneTimeRetrieval

-----------------------------------------------------------------------------
\* At the start nothing waits and nothing has been found.
LEMMA AttemptInitially == AttemptInit => AttemptInv
<1> SUFFICES ASSUME AttemptInit PROVE AttemptInv
  OBVIOUS
<1> USE AttemptAssumption DEF AttemptAssumption, AttemptInit
<1>1. AttemptTypeOK
  <2>1. waiting \in Seq(Attempts) /\ Len(waiting) <= QueueMax
    OBVIOUS
  <2>2. pending \subseteq {a \in Attempts : results[a] = "solved"}
    OBVIOUS
  <2>3. results \in [Attempts -> Finished \cup {"none", "queued"}]
    BY DEF Finished
  <2> QED
    BY <2>1, <2>2, <2>3 DEF AttemptTypeOK
<1>2. InLine
  BY DEF InLine
<1>3. AtWork /\ Unscanned /\ OneTimeRetrieval
  BY DEF AtWork, Unscanned, OneTimeRetrieval
<1> QED
  BY <1>1, <1>2, <1>3 DEF AttemptInv

\* Every step of enqueuers, worker and pollers keeps it.
LEMMA AttemptStep == AttemptInv /\ [AttemptNext]_attemptVars => AttemptInv'
<1> SUFFICES ASSUME AttemptInv, [AttemptNext]_attemptVars
             PROVE  AttemptInv'
  OBVIOUS
<1> USE AttemptAssumption DEF AttemptAssumption, AttemptInv, AttemptTypeOK, Finished
<1>1. CASE UNCHANGED attemptVars
  BY <1>1 DEF attemptVars, InLine, AtWork, Unscanned, OneTimeRetrieval
<1>2. ASSUME NEW a \in Attempts, Record(a)
      PROVE  AttemptInv'
  BY <1>2 DEF Record, readerVars, InLine, AtWork, Unscanned, OneTimeRetrieval
<1>3. ASSUME NEW a \in Attempts, Put(a)
      PROVE  AttemptInv'
  <2> USE <1>3 DEF Put, readerVars
  <2>1. AtWork' /\ Unscanned' /\ OneTimeRetrieval'
    BY DEF AtWork, Unscanned, OneTimeRetrieval
  <2>2. CASE Len(waiting) < QueueMax
    <3>0. PICK q : q = Append(waiting, a)
      OBVIOUS
    <3>1. /\ q \in Seq(Attempts) /\ Len(q) = Len(waiting) + 1
          /\ Len(waiting) \in Nat
          /\ \A i \in 1..Len(q) : \/ i \in 1..Len(waiting) /\ q[i] = waiting[i]
                                  \/ i = Len(waiting) + 1 /\ q[i] = a
      <4>1. q \in Seq(Attempts) /\ Len(q) = Len(waiting) + 1 /\ Len(waiting) \in Nat
        BY <3>0
      <4>2. \A i \in 1..Len(waiting) : q[i] = waiting[i]
        BY <3>0
      <4>3. q[Len(waiting) + 1] = a
        BY <3>0
      <4> QED
        BY ONLY <4>1, <4>2, <4>3
    <3>2. waiting' = q /\ request' = [request EXCEPT ![a] = "accepted"]
      BY <2>2, <3>0
    <3>3. \A i \in 1..Len(waiting) : waiting[i] # a
      BY DEF InLine
    <3>4. \A i, j \in 1..Len(q) : q[i] = q[j] => i = j
      BY <3>1, <3>3, SMTT(30) DEF InLine
    <3>5. \A i \in 1..Len(q) : /\ request'[q[i]] = "accepted"
                               /\ results[q[i]] = "queued"
                               /\ q[i] # running
      <4>1. /\ request'[a] = "accepted" /\ results[a] = "queued" /\ a # running
            /\ \A b \in Attempts : request[b] = "accepted" => request'[b] = "accepted"
        BY <3>2 DEF AtWork, Unscanned
      <4>2. \A i \in 1..Len(waiting) : /\ request'[waiting[i]] = "accepted"
                                       /\ results[waiting[i]] = "queued"
                                       /\ waiting[i] # running
        BY <4>1 DEF InLine
      <4> QED
        BY ONLY <3>1, <4>1, <4>2
    <3>6. InLine'
      BY <3>2, <3>4, <3>5 DEF InLine
    <3>7. AttemptTypeOK'
      BY <2>2, <3>1, <3>2
    <3> QED
      BY <2>1, <3>6, <3>7
  <2>3. CASE ~(Len(waiting) < QueueMax)
    <3>1. \A i \in 1..Len(waiting) : waiting[i] \in Attempts /\ waiting[i] # a
      BY DEF InLine
    <3>2. InLine'
      BY <2>3, <3>1 DEF InLine
    <3> QED
      BY <2>1, <2>3, <3>2
  <2> QED
    BY <2>2, <2>3
<1>4. CASE Take
  <2> USE <1>4 DEF Take, readerVars
  <2>1. PICK q : q = Tail(waiting)
    OBVIOUS
  <2>2. /\ q \in Seq(Attempts) /\ Len(q) = Len(waiting) - 1 /\ Len(waiting) \in Nat
        /\ \A i \in 1..Len(q) : q[i] = waiting[i + 1] /\ i + 1 \in 1..Len(waiting)
    BY <2>1
  <2>3. /\ running' \in Attempts /\ running' = waiting[1] /\ 1 \in 1..Len(waiting)
        /\ waiting' = q
    BY <2>1
  <2>4. AttemptTypeOK'
    BY <2>2, <2>3
  <2>5. InLine'
    BY <2>2, <2>3, SMTT(30) DEF InLine
  <2>6. AtWork' /\ Unscanned' /\ OneTimeRetrieval'
    BY <2>3 DEF InLine, AtWork, Unscanned, OneTimeRetrieval
  <2> QED
    BY ONLY <2>4, <2>5, <2>6 DEF AttemptInv
<1>5. CASE FinishUnsolved
  BY <1>5 DEF FinishUnsolved, readerVars, InLine, AtWork, Unscanned, OneTimeRetrieval
<1>6. CASE FinishSolved
  BY <1>6 DEF FinishSolved, readerVars, InLine, AtWork, Unscanned, OneTimeRetrieval
<1>7. CASE StoreFlag
  <2> USE <1>7 DEF StoreFlag, readerVars
  <2>1. running \in Attempts /\ results[running] = "solved" /\ handed[running] = 0
    BY DEF AtWork
  <2>2. AttemptTypeOK' /\ AtWork' /\ Unscanned'
    BY <2>1 DEF AtWork, Unscanned
  <2>3. InLine' /\ OneTimeRetrieval'
    BY <2>1 DEF InLine, OneTimeRetrieval
  <2> QED
    BY ONLY <2>2, <2>3 DEF AttemptInv
<1>8. ASSUME NEW r \in Readers, NEW a \in Attempts, ReadResult(r, a)
      PROVE  AttemptInv'
  BY <1>8 DEF ReadResult, InLine, AtWork, Unscanned, OneTimeRetrieval
<1>9. ASSUME NEW r \in Readers, Answer(r)
      PROVE  AttemptInv'
  <2> USE <1>9 DEF Answer
  <2>1. CASE sawSolved[r] /\ reading[r] \in pending
    <3>1. /\ reading[r] \in Attempts /\ results[reading[r]] = "solved"
          /\ reading[r] # running
      BY <2>1 DEF AtWork
    <3> QED
      BY <2>1, <3>1 DEF InLine, AtWork, Unscanned, OneTimeRetrieval
  <2>2. CASE ~(sawSolved[r] /\ reading[r] \in pending)
    BY <2>2 DEF InLine, AtWork, Unscanned, OneTimeRetrieval
  <2> QED
    BY <2>1, <2>2
<1> QED
  BY <1>1, <1>2, <1>3, <1>4, <1>5, <1>6, <1>7, <1>8, <1>9 DEF AttemptNext, WorkerStep

\* The inductive invariant holds of every reachable state of the attempt queue
\* (worker.py).
THEOREM AttemptInvariant == AttemptSpec => []AttemptInv
<1> QED
  BY AttemptInitially, AttemptStep, PTL DEF AttemptSpec

\* A flag is handed out at most once and not lost before, however polls and the
\* two locked sections of _finalize and of get_result interleave.
THEOREM FlagHandedOnce == AttemptSpec => []OneTimeRetrieval
<1>1. AttemptInv => OneTimeRetrieval
  BY DEF AttemptInv
<1> QED
  BY <1>1, AttemptInvariant, PTL

\* A solved or unsolved record of _results is never rewritten.
THEOREM RecordsStand == AttemptSpec => FinishedStands
<1>1. AttemptInv /\ [AttemptNext]_attemptVars =>
          [\A a \in Attempts : results[a] \in Finished => results'[a] = results[a]]_attemptVars
  <2> SUFFICES ASSUME AttemptInv, AttemptNext, NEW a \in Attempts, results[a] \in Finished
               PROVE  results'[a] = results[a]
    OBVIOUS
  <2> QED
    BY DEF AttemptInv, AttemptTypeOK, Unscanned, AtWork, Finished, AttemptNext, WorkerStep,
           Record, Put, Take, FinishUnsolved, FinishSolved, StoreFlag, ReadResult, Answer,
           readerVars
<1> QED
  BY <1>1, AttemptInvariant, PTL DEF AttemptSpec, FinishedStands

-----------------------------------------------------------------------------
(* The flag scan. *)

Scanners == {"idle", "registering", "passing", "reading", "solved", "unsolved"}
Written == [at : Nat, body : Seq(STRING)]

ScanTypeOK ==
    /\ seconds \in Nat /\ started \in Nat
    /\ texts \in [Chats -> Seq(Written)]
    /\ scanner \in Scanners
    /\ covered \in [Chats -> Nat]

\* A message a scan had before it and did not take.
Passed(c, i) ==
    \/ texts[c][i].at <= started - Grace
    \/ i <= Len(texts[c]) - PageSize
    \/ ~Accepted(texts[c][i].body)

\* What the running scan has covered, it has passed.
CoveredInv ==
    /\ \A c \in Chats : covered[c] <= Len(texts[c])
    /\ scanner = "registering" => \A c \in Chats : covered[c] = 0
    /\ scanner \in {"passing", "reading", "unsolved"} =>
           \A c \in Chats : \A i \in 1..covered[c] : Passed(c, i)

FoundInv ==
    scanner = "solved" =>
        /\ found.chat \in Chats /\ found.index \in 1..Len(texts[found.chat])
        /\ texts[found.chat][found.index].at > started - Grace
        /\ Accepted(texts[found.chat][found.index].body)

ScanInv == ScanTypeOK /\ CoveredInv /\ FoundInv

\* The numbers that a scan compares.
LEMMA ScanNumbers ==
    ASSUME ScanTypeOK
    PROVE  /\ Grace \in Nat /\ PageSize \in Nat /\ ScanTimeout \in Nat
           /\ seconds \in Nat /\ started \in Nat
           /\ \A c \in Chats :
                 /\ Len(texts[c]) \in Nat /\ covered[c] \in Nat
                 /\ \A i \in 1..Len(texts[c]) : texts[c][i].at \in Nat
<1>1. ASSUME NEW c \in Chats PROVE texts[c] \in Seq(Written) /\ Len(texts[c]) \in Nat
  BY DEF ScanTypeOK
<1>2. ASSUME NEW c \in Chats, NEW i \in 1..Len(texts[c]) PROVE texts[c][i].at \in Nat
  <2>1. texts[c][i] \in Written
    BY <1>1, ElementOfSeq
  <2> QED
    BY <2>1 DEF Written
<1>3. Grace \in Nat /\ PageSize \in Nat /\ ScanTimeout \in Nat
  BY FlagScanAssumption DEF FlagScanAssumption
<1> QED
  BY <1>1, <1>2, <1>3 DEF ScanTypeOK

\* No scan, no text.
LEMMA ScanInitially == ScanInit => ScanInv
BY EmptySeq, FlagScanAssumption DEF ScanInit, ScanInv, ScanTypeOK, CoveredInv, FoundInv, Scanners, Written

\* Writing, time, and each stage of a scan keep the invariant.
LEMMA ScanStep == ScanInv /\ [ScanNext]_scanVars => ScanInv'
<1> SUFFICES ASSUME ScanInv, [ScanNext]_scanVars PROVE ScanInv'
  OBVIOUS
<1>0. /\ Grace \in Nat /\ PageSize \in Nat /\ ScanTimeout \in Nat
      /\ seconds \in Nat /\ started \in Nat
      /\ \A c \in Chats :
                 /\ Len(texts[c]) \in Nat /\ covered[c] \in Nat
                 /\ \A i \in 1..Len(texts[c]) : texts[c][i].at \in Nat
  BY ScanNumbers DEF ScanInv
<1> USE DEF ScanInv, Scanners
<1>1. ASSUME NEW c \in Chats, NEW b \in Texts, WriteText(c, b) PROVE ScanInv'
  <2> DEFINE m == [at |-> seconds, body |-> b]
  <2>0. m \in Written
    BY <1>0, FlagScanAssumption DEF Written, FlagScanAssumption
  <2>1. /\ texts' = [texts EXCEPT ![c] = Append(@, m)]
        /\ UNCHANGED <<seconds, started, listed, scanner, found, covered, scans>>
    BY <1>1 DEF WriteText
  <2> HIDE DEF m
  <2>2. ASSUME NEW d \in Chats
        PROVE  /\ texts'[d] \in Seq(Written) /\ Len(texts'[d]) >= Len(texts[d]) /\ Len(texts'[d]) \in Nat
               /\ \A i \in 1..Len(texts[d]) : texts'[d][i] = texts[d][i]
    <3>1. texts[d] \in Seq(Written)
      BY DEF ScanTypeOK
    <3>2. texts'[d] = IF d = c THEN Append(texts[d], m) ELSE texts[d]
      BY <2>1 DEF ScanTypeOK
    <3> QED
      BY <1>0, <2>0, <3>1, <3>2, AppendProperties
  <2>3. ScanTypeOK'
    BY <2>1, <2>2 DEF ScanTypeOK
  <2>4. CoveredInv'
    <3>1. ASSUME NEW d \in Chats, NEW i \in 1..covered[d], Passed(d, i)
          PROVE  Passed(d, i)'
      <4>1. i \in 1..Len(texts[d])
        BY <1>0 DEF CoveredInv
      <4> QED
        BY <1>0, <2>1, <2>2, <3>1, <4>1 DEF Passed
    <3> QED
      BY <1>0, <2>1, <2>2, <3>1 DEF CoveredInv
  <2>5. FoundInv'
    BY <1>0, <2>1, <2>2 DEF FoundInv
  <2> QED
    BY <2>3, <2>4, <2>5
<1>2. CASE SecondPasses \/ BeginPass \/ ScanError \/ NoAccount
  <2>1. /\ UNCHANGED <<texts, started, found, covered, scans>> /\ seconds' \in Nat
        /\ \/ scanner' = scanner
           \/ scanner \in {"passing", "reading"} /\ scanner' \in {"passing", "reading", "unsolved"}
           \/ scanner = "registering" /\ scanner' = "unsolved"
    BY <1>0, <1>2 DEF SecondPasses, BeginPass, ScanError, NoAccount
  <2>2. CoveredInv'
    BY <2>1 DEF CoveredInv, Passed
  <2>3. ScanTypeOK'
    BY <2>1 DEF ScanTypeOK
  <2>4. FoundInv'
    BY <2>1 DEF FoundInv
  <2> QED
    BY <2>2, <2>3, <2>4
<1>3. CASE BeginAttempt
  BY <1>0, <1>3 DEF BeginAttempt, ScanTypeOK, CoveredInv, FoundInv
<1>4. CASE RegisterScanner
  BY <1>0, <1>4 DEF RegisterScanner, ScanTypeOK, CoveredInv, FoundInv
<1>5. ASSUME NEW c \in Chats, ReadChat(c) PROVE ScanInv'
  <2> DEFINE hits == {i \in Polled(c) : Accepted(texts[c][i].body)}
  <2>1. /\ UNCHANGED <<seconds, texts, started, scans>> /\ scanner = "reading"
        /\ covered' = [covered EXCEPT ![c] = Len(texts[c])]
        /\ scanner' \in Scanners
    BY <1>5 DEF ReadChat
  <2>2. ScanTypeOK'
    BY <1>0, <2>1 DEF ScanTypeOK
  <2>3. \A d \in Chats : covered'[d] = IF d = c THEN Len(texts[c]) ELSE covered[d]
    BY <2>1 DEF ScanTypeOK
  <2>4. \A d \in Chats : covered'[d] <= Len(texts'[d])
    BY <1>0, <2>1, <2>3 DEF CoveredInv
  <2>5. CASE hits # {}
    <3>1. scanner' = "solved" /\ \E i \in hits : found' = [chat |-> c, index |-> i]
      BY <1>5, <2>5 DEF ReadChat
    <3>2. CoveredInv'
      BY <2>4, <3>1 DEF CoveredInv
    <3>3. PICK i \in hits : found' = [chat |-> c, index |-> i]
      BY <3>1
    <3>4. found'.chat = c /\ found'.index = i /\ i \in 1..Len(texts[c])
          /\ texts[c][i].at > started - Grace /\ Accepted(texts[c][i].body)
      BY <3>3 DEF Polled
    <3>5. FoundInv'
      BY <2>1, <3>4 DEF FoundInv
    <3> QED
      BY <2>2, <3>2, <3>5
  <2>6. CASE hits = {}
    <3>1. scanner' \in {"passing", "reading"}
      BY <1>5, <2>6 DEF ReadChat
    <3>2. \A i \in 1..Len(texts[c]) : Passed(c, i)
      BY <1>0, <2>6 DEF Passed, Polled
    <3>3. \A d \in Chats : \A i \in 1..covered'[d] : Passed(d, i)
      BY <2>1, <2>3, <3>2 DEF CoveredInv
    <3>4. \A d \in Chats : \A i \in 1..covered'[d] : Passed(d, i)'
      BY <2>1, <3>3 DEF Passed
    <3> QED
      BY <2>2, <2>4, <3>1, <3>4 DEF CoveredInv, FoundInv
  <2> QED
    BY <2>5, <2>6
<1>6. CASE UNCHANGED scanVars
  BY <1>6 DEF scanVars, ScanTypeOK, CoveredInv, FoundInv, Passed, Accepted
<1> QED
  BY <1>1, <1>2, <1>3, <1>4, <1>5, <1>6 DEF ScanNext

\* A capture is a flag written since the scan began, and a scan that gives up has
\* overlooked none that it had before it (judge/worker.py).
THEOREM OnlyFreshCaptures == ScanSpec => []CapturesAreFresh
<1>1. ScanInv => CapturesAreFresh
  BY ScanNumbers DEF ScanInv, CapturesAreFresh, CoveredInv, FoundInv, Passed, Accepted
<1> QED
  BY <1>1, ScanInitially, ScanStep, PTL DEF ScanSpec
-----------------------------------------------------------------------------
(* The app: what patching the template leaves.                             *)

\* A property of numbers that starts at 0 and goes on holds of all up to a bound: the first
\* exception would be the step from a number without it.
LEMMA FirstException ==
    ASSUME NEW A \in SUBSET Nat, A # {}
    PROVE  \E n \in A : n = 0 \/ n - 1 \in Nat \ A
<1>1. OpToRel(<, Nat) = {ss \in Nat \X Nat : ss[1] < ss[2]}
  BY DEF OpToRel
<1>2. PICK n \in A : \A y \in A : <<y, n>> \notin OpToRel(<, Nat)
  BY NatLessThanWellFounded, WFMin
<1>3. \A y \in A : ~(y < n)
  BY <1>1, <1>2
<1>4. n # 0 => n - 1 \in Nat \ A
  BY <1>3
<1> QED
  BY <1>4

\* Of the places of a sequence with a property one is the last.
LEMMA LastPlace ==
    ASSUME NEW n \in Nat, NEW A \in SUBSET (1..n), A # {}
    PROVE  \E x \in A : \A y \in A : y <= x
<1> DEFINE B == {n - x : x \in A}
<1>1. B \in SUBSET Nat /\ B # {}
  <2>1. \A x \in A : n - x \in Nat
    OBVIOUS
  <2>2. B \in SUBSET Nat
    BY <2>1
  <2>3. B # {}
    BY Zenon
  <2> QED BY <2>2, <2>3
<1>2. OpToRel(<, Nat) = {ss \in Nat \X Nat : ss[1] < ss[2]}
  BY DEF OpToRel
<1>3. PICK m \in B : \A y \in B : <<y, m>> \notin OpToRel(<, Nat)
  <2> HIDE DEF B
  <2> QED BY <1>1, NatLessThanWellFounded, WFMin
<1>4. \A y \in B : ~(y < m)
  <2> HIDE DEF B
  <2> QED BY <1>1, <1>2, <1>3
<1>5. PICK x \in A : m = n - x
  OBVIOUS
<1>6. \A y \in A : ~(n - y < n - x)
  BY <1>4, <1>5
<1> QED
  BY <1>5, <1>6

Entry == [name : STRING, data : {Archive[i].data : i \in DOMAIN Archive}]
Places == 1..Len(Archive)

\* The template's entries.
LEMMA ArchiveEntries ==
    /\ Len(Archive) \in Nat
    /\ DOMAIN Archive = Places
    /\ \A i \in Places :
           /\ Archive[i] \in Entry
           /\ Archive[i] = [name |-> Archive[i].name, data |-> Archive[i].data]
<1>1. Archive \in Seq(Entry)
  BY ApkAssumption DEF Entry
<1>2. Len(Archive) \in Nat /\ DOMAIN Archive = Places /\ \A i \in Places : Archive[i] \in Entry
  BY <1>1, LenProperties, ElementOfSeq DEF Places
<1>3. \A e \in Entry : e = [name |-> e.name, data |-> e.data]
  BY DEF Entry
<1> QED
  BY <1>2, <1>3

\* What is read of an entry that is copied is its own content.
LEMMA OwnData ==
    ASSUME NEW i \in Places, Archive[i].name # ConfigEntry
    PROVE  DataOf(Archive, Archive[i].name) = Archive[i].data
<1> DEFINE A == {k \in Places : Archive[k].name = Archive[i].name}
<1>1. PICK x \in A : \A y \in A : y <= x
  <2>1. A \in SUBSET Places /\ A # {}
    OBVIOUS
  <2> QED BY <2>1, LastPlace, ArchiveEntries DEF Places
<1> DEFINE IsLast(k) == /\ Archive[k].name = Archive[i].name
                      /\ \A j \in (k + 1)..Len(Archive) : Archive[j].name # Archive[i].name
<1>2. IsLast(x)
  BY <1>1, ArchiveEntries DEF Places
<1>3. \E k \in DOMAIN Archive : IsLast(k)
  BY <1>1, <1>2, ArchiveEntries
<1>4. PICK k \in DOMAIN Archive : k = (CHOOSE l \in DOMAIN Archive : IsLast(l)) /\ IsLast(k)
  <2> HIDE DEF IsLast
  <2> QED BY <1>3
<1>5. DataOf(Archive, Archive[i].name) = Archive[k].data
  BY <1>4 DEF DataOf
<1>6. Archive[k].data = Archive[i].data
  BY <1>4, ApkAssumption, ArchiveEntries
<1> QED
  BY <1>5, <1>6

\* One turn of the loop.
Turn(prev, i) ==
    IF Archive[i].name = ConfigEntry THEN prev
    ELSE Append(prev, [name |-> Archive[i].name, data |-> DataOf(Archive, Archive[i].name)])

\* A turn copies its entry, unless it is the configuration.
LEMMA TurnCopies ==
    ASSUME NEW i \in Places, NEW prev
    PROVE  Turn(prev, i) = IF Archive[i].name = ConfigEntry THEN prev ELSE Append(prev, Archive[i])
<1>1. CASE Archive[i].name = ConfigEntry
  BY <1>1 DEF Turn
<1>2. CASE Archive[i].name # ConfigEntry
  <2>1. [name |-> Archive[i].name, data |-> DataOf(Archive, Archive[i].name)] = Archive[i]
    BY <1>2, OwnData, ArchiveEntries
  <2> QED BY <1>2, <2>1 DEF Turn
<1> QED
  BY <1>1, <1>2

Loop(f, n) == f = [i \in 0..n |-> IF i = 0 THEN <<>> ELSE Turn(f[i - 1], i)]

\* The loop has a result, however long the template is.
LEMMA LoopEnds == \E f : Loop(f, Len(Archive))
<1> DEFINE A == {n \in Nat : ~ \E f : Loop(f, n)}
<1>1. SUFFICES ASSUME A # {} PROVE FALSE
  BY ArchiveEntries
<1>2. PICK n \in A : n = 0 \/ n - 1 \in Nat \ A
  <2>1. A \in SUBSET Nat
    OBVIOUS
  <2> HIDE DEF A
  <2> QED BY <1>1, <2>1, FirstException
<1>3. ~ \E f : Loop(f, n)
  OBVIOUS
<1>4. CASE n = 0
  <2>1. Loop([i \in 0..0 |-> <<>>], 0)
    BY DEF Loop
  <2> QED BY <1>3, <1>4, <2>1
<1>5. CASE n # 0
  <2>1. PICK f : Loop(f, n - 1)
    BY <1>2, <1>5
  <2> DEFINE g == [i \in 0..n |-> IF i = n THEN Turn(f[n - 1], n) ELSE f[i]]
  <2>2. n \in Nat /\ n - 1 \in Nat
    BY <1>2, <1>5
  <2>3. f = [i \in 0..(n - 1) |-> IF i = 0 THEN <<>> ELSE Turn(f[i - 1], i)]
    BY <2>1 DEF Loop
  <2>4. ASSUME NEW i \in 0..n
        PROVE  g[i] = IF i = 0 THEN <<>> ELSE Turn(g[i - 1], i)
    <3>1. CASE i = n
      <4>1. g[i] = Turn(f[n - 1], n)
        BY <3>1
      <4>2. g[i - 1] = f[n - 1]
        BY <3>1, <2>2
      <4> HIDE DEF g
      <4> QED BY <3>1, <4>1, <4>2, <1>5
    <3>2. CASE i # n
      <4>1. i \in 0..(n - 1) /\ g[i] = f[i]
        BY <3>2, <2>2
      <4>2. i # 0 => g[i - 1] = f[i - 1]
        BY <3>2, <2>2
      <4>3. f[i] = IF i = 0 THEN <<>> ELSE Turn(f[i - 1], i)
        BY <2>3, <4>1
      <4> HIDE DEF g
      <4> QED BY <4>1, <4>2, <4>3
    <3> QED BY <3>1, <3>2
  <2>5. g = [i \in 0..n |-> IF i = 0 THEN <<>> ELSE Turn(g[i - 1], i)]
    <3>1. g = [i \in 0..n |-> g[i]]
      OBVIOUS
    <3> HIDE DEF g
    <3> QED BY <3>1, <2>4
  <2>6. Loop(g, n)
    BY <2>5 DEF Loop
  <2> QED BY <1>3, <2>6
<1> QED
  BY <1>4, <1>5

\* After i turns the first i entries are copied, but for the configuration.
Copied(s, i) ==
    /\ s \in Seq(Entry)
    /\ \A k \in 1..Len(s) : s[k].name # ConfigEntry
    /\ \A j \in 1..i : Archive[j].name # ConfigEntry => \E k \in 1..Len(s) : s[k] = Archive[j]

\* A turn adds its entry to those copied.
LEMMA TurnAdds ==
    ASSUME NEW i \in Places, NEW s, Copied(s, i - 1)
    PROVE  Copied(Turn(s, i), i)
<1> DEFINE t == Turn(s, i)
<1>1. \A j \in 1..i : j \in 1..(i - 1) \/ j = i
  BY ArchiveEntries DEF Places
<1>2. CASE Archive[i].name = ConfigEntry
  <2>1. t = s
    BY <1>2, TurnCopies
  <2> QED BY <2>1, <1>1, <1>2 DEF Copied
<1>3. CASE Archive[i].name # ConfigEntry
  <2>1. t = Append(s, Archive[i])
    BY <1>3, TurnCopies
  <2>2. s \in Seq(Entry) /\ Archive[i] \in Entry
    BY ArchiveEntries DEF Copied
  <2>3. /\ t \in Seq(Entry)
        /\ Len(t) = Len(s) + 1
        /\ t[Len(s) + 1] = Archive[i]
        /\ \A k \in 1..Len(s) : t[k] = s[k]
    BY <2>1, <2>2
  <2>4. Len(s) \in Nat
    BY <2>2
  <2> HIDE DEF t
  <2>5. \A k \in 1..Len(t) : t[k].name # ConfigEntry
    <3>1. \A k \in 1..Len(t) : k \in 1..Len(s) \/ k = Len(s) + 1
      BY <2>3, <2>4
    <3> QED BY <3>1, <2>3, <1>3 DEF Copied
  <2>6. ASSUME NEW j \in 1..i, Archive[j].name # ConfigEntry
        PROVE  \E k \in 1..Len(t) : t[k] = Archive[j]
    <3>1. CASE j = i
      <4>1. Len(s) + 1 \in 1..Len(t)
        BY <2>3, <2>4
      <4> QED BY <4>1, <3>1, <2>3
    <3>2. CASE j # i
      <4>1. PICK k \in 1..Len(s) : s[k] = Archive[j]
        BY <1>1, <3>2, <2>6 DEF Copied
      <4>2. k \in 1..Len(t)
        BY <2>3, <2>4
      <4> QED BY <4>1, <4>2, <2>3
    <3> QED BY <3>1, <3>2
  <2>7. Copied(t, i)
    BY <2>3, <2>5, <2>6 DEF Copied
  <2> QED BY <2>7 DEF t
<1> QED
  BY <1>2, <1>3

\* Patching copies every other entry of the template and adds the one configuration.
LEMMA PatchShape ==
    ASSUME NEW url
    PROVE  \E s : Copied(s, Len(Archive)) /\ Patch(Archive, url) = Append(s, ConfigOf(url))
<1> DEFINE f == CHOOSE g : Loop(g, Len(Archive))
<1>1. Loop(f, Len(Archive))
  BY LoopEnds
<1>2. Patch(Archive, url) = Append(f[Len(Archive)], ConfigOf(url))
  BY Zenon DEF Patch, Loop, Turn
<1> HIDE DEF f
<1>3. f = [i \in 0..Len(Archive) |-> IF i = 0 THEN <<>> ELSE Turn(f[i - 1], i)]
  BY <1>1 DEF Loop
<1> DEFINE A == {n \in Nat : n <= Len(Archive) /\ ~ Copied(f[n], n)}
<1>4. A = {}
  <2> SUFFICES ASSUME A # {} PROVE FALSE
    OBVIOUS
  <2>1. PICK n \in A : n = 0 \/ n - 1 \in Nat \ A
    <3>1. A \in SUBSET Nat
      OBVIOUS
    <3> HIDE DEF A
    <3> QED BY <3>1, FirstException
  <2>2. n \in Nat /\ n <= Len(Archive) /\ ~ Copied(f[n], n)
    OBVIOUS
  <2>3. CASE n = 0
    <3>1. f[0] = <<>>
      BY <1>3, ArchiveEntries
    <3>2. Copied(<<>>, 0)
      BY DEF Copied
    <3> QED BY <2>2, <2>3, <3>1, <3>2
  <2>4. CASE n # 0
    <3>1. n \in Places /\ n - 1 \in Nat /\ n - 1 <= Len(Archive) /\ n \in 0..Len(Archive)
      BY <2>2, <2>4, ArchiveEntries DEF Places
    <3>2. Copied(f[n - 1], n - 1)
      BY <2>1, <2>4, <3>1
    <3>3. f[n] = Turn(f[n - 1], n)
      BY <1>3, <2>4, <3>1
    <3> QED BY <2>2, <3>1, <3>2, <3>3, TurnAdds
  <2> QED BY <2>3, <2>4
<1>5. Copied(f[Len(Archive)], Len(Archive))
  BY <1>4, ArchiveEntries
<1> QED
  BY <1>2, <1>5

\* A download that was served the template or a whole copy for its backend is a good one.
GoodCopy(s) ==
    s.archive \in {[entries |-> Archive, whole |-> TRUE],
                   [entries |-> Patch(Archive, s.backend), whole |-> TRUE]}

\* A good copy has what DownloadsAreWhole asks of one.
LEMMA GoodCopiesAreWhole ==
    ASSUME NEW s, GoodCopy(s)
    PROVE  LET others == {e \in ToSet(Archive) : e.name # ConfigEntry}
           IN  /\ s.archive.whole
               /\ others \subseteq ToSet(s.archive.entries)
               /\ s.archive.entries # Archive =>
                      OneConfig(s.archive.entries, ConfigOf(s.backend))
<1> DEFINE others == {e \in ToSet(Archive) : e.name # ConfigEntry}
           entries == s.archive.entries
           config == ConfigOf(s.backend)
<1>1. s.archive.whole
  BY DEF GoodCopy
<1>2. CASE entries = Archive
  BY <1>1, <1>2
<1>3. CASE entries # Archive
  <2>1. entries = Patch(Archive, s.backend)
    BY <1>3 DEF GoodCopy
  <2>2. PICK t : Copied(t, Len(Archive)) /\ entries = Append(t, config)
    BY <2>1, PatchShape
  <2>3. t \in Seq(Entry) /\ Len(t) \in Nat
    BY <2>2 DEF Copied
  <2> DEFINE n == Len(t) + 1
  <2>4. /\ DOMAIN entries = 1..n
        /\ entries[n] = config
        /\ \A k \in 1..Len(t) : entries[k] = t[k]
    BY <2>2, <2>3
  <2> HIDE DEF entries, config
  <2>5. others \subseteq ToSet(entries)
    <3> SUFFICES ASSUME NEW e \in others PROVE e \in ToSet(entries)
      OBVIOUS
    <3>1. PICK j \in 1..Len(Archive) : e = Archive[j]
      BY ArchiveEntries DEF ToSet, Places
    <3>2. PICK k \in 1..Len(t) : t[k] = e
      BY <3>1, <2>2 DEF Copied
    <3>3. k \in DOMAIN entries /\ entries[k] = e
      BY <3>2, <2>3, <2>4
    <3> QED BY <3>3 DEF ToSet
  <2>6. OneConfig(entries, config)
    <3>1. n \in DOMAIN entries /\ config.name = ConfigEntry
      BY <2>3, <2>4 DEF config, ConfigOf
    <3>2. \A j \in DOMAIN entries : entries[j].name = config.name => j = n
      BY <2>2, <2>3, <2>4, <3>1 DEF Copied
    <3> QED BY <2>4, <3>1, <3>2 DEF OneConfig
  <2> QED BY <1>1, <2>5, <2>6 DEF entries, config
<1> QED
  BY <1>2, <1>3

\* The path is told when the bake has ended, and the file at it is whole then.
BakedInv ==
    /\ bakedPath \in {NoPath, "template", "out"}
    /\ bakedPath # NoPath => apkStage = "done"
    /\ bakedPath = "out" => apkOut = [entries |-> Patch(Archive, backend), whole |-> TRUE]

\* A path that was looked up is still the path.
LookedInv ==
    /\ looked \in [Downloads -> {NoPath, "template", "out"}]
    /\ \A d \in Downloads : looked[d] # NoPath => looked[d] = bakedPath

\* What was served was good.
ServedInv ==
    /\ download \in [Downloads -> {"new", "waiting", "looked", "served", "refused", "lost"}]
    /\ DOMAIN served = Downloads
    /\ \A d \in Downloads : download[d] = "served" => GoodCopy(served[d])

ApkInv == BakedInv /\ LookedInv /\ ServedInv

\* At the start nothing has been baked or served.
LEMMA ApkStart == ApkInit => ApkInv
  BY DEF ApkInit, ApkInv, BakedInv, LookedInv, ServedInv, NoPath

\* Every step of the judge keeps it.
LEMMA ApkStep == ApkInv /\ [ApkNext]_apkVars => ApkInv'
<1> SUFFICES ASSUME ApkInv, [ApkNext]_apkVars PROVE ApkInv'
  OBVIOUS
<1> USE DEF ApkInv, BakedInv, LookedInv, ServedInv, NoPath
<1>1. CASE BeginBake
  BY <1>1 DEF BeginBake
<1>2. CASE PatchAndAlign
  BY <1>2 DEF PatchAndAlign
<1>3. CASE SignApk
  BY <1>3 DEF SignApk
<1>4. CASE ToolMissing \/ ToolFails
  BY <1>4 DEF ToolMissing, ToolFails, FallBack
<1>5. ASSUME NEW d \in Downloads, BeginDownload(d) PROVE ApkInv'
  BY <1>5 DEF BeginDownload
<1>6. ASSUME NEW d \in Downloads, Look(d) PROVE ApkInv'
  BY <1>6 DEF Look
<1>7. ASSUME NEW d \in Downloads, ServeApk(d) PROVE ApkInv'
  <2>1. BakedInv' /\ LookedInv'
    BY <1>7 DEF ServeApk
  <2>2. GoodCopy(served'[d]) \/ looked[d] = NoPath
    <3>1. CASE looked[d] = "template"
      <4>1. served'[d] = Given([entries |-> Archive, whole |-> TRUE])
        BY <1>7, <3>1, Zenon DEF ServeApk
      <4> QED BY <4>1 DEF GoodCopy, Given
    <3>2. CASE looked[d] = "out"
      <4>1. served'[d] = Given(apkOut)
        BY <1>7, <3>2, Zenon DEF ServeApk
      <4> QED BY <4>1, <3>2 DEF GoodCopy, Given
    <3> QED BY <3>1, <3>2
  <2>3. /\ DOMAIN served' = Downloads
        /\ \A e \in Downloads \ {d} : served'[e] = served[e] /\ download'[e] = download[e]
    BY <1>7 DEF ServeApk
  <2>4. /\ download' \in [Downloads -> {"new", "waiting", "looked", "served", "refused", "lost"}]
        /\ looked[d] = NoPath => download'[d] = "refused"
    BY <1>7 DEF ServeApk
  <2>5. \A e \in Downloads : download'[e] = "served" => GoodCopy(served'[e])
    BY <2>2, <2>3, <2>4
  <2> QED BY <2>1, <2>3, <2>4, <2>5
<1>8. CASE RestartJudge
  <2>1. \A d \in Downloads : download'[d] = "served" => download[d] = "served"
    BY <1>8 DEF RestartJudge
  <2> QED BY <1>8, <2>1 DEF RestartJudge
<1>9. CASE UNCHANGED apkVars
  BY <1>9 DEF apkVars
<1> QED
  BY <1>1, <1>2, <1>3, <1>4, <1>5, <1>6, <1>7, <1>8, <1>9 DEF ApkNext

\* Every app handed out is whole and names the backend of the judge that served it.
THEOREM WholeAppsOnly == ApkSpec => []DownloadsAreWhole
<1>1. ApkInv => DownloadsAreWhole
  BY GoodCopiesAreWhole DEF ApkInv, ServedInv, DownloadsAreWhole
<1> QED
  BY <1>1, ApkStart, ApkStep, PTL DEF ApkSpec
-----------------------------------------------------------------------------
(* The scripts that bake an image: where they write.                       *)

Extent == SystemExtent
Within == Extent.at..(Extent.at + Extent.size - 1)
Offsets == 0..(Extent.size - 1)

\* The partition of the tables lies in the image.
Fits ==
    /\ Extent.at \in Nat /\ Extent.size \in Nat
    /\ Extent.at + Extent.size <= ImageCells

\* Whatever the alignment, what dd reads and writes is the partition, all of it and no more.
LEMMA DdHitsPartition ==
    ASSUME Fits
    PROVE  RangeStart = Extent.at /\ RangeSize = Extent.size
<1> DEFINE at == Extent.at  size == Extent.size
<1>1. at \in Nat /\ size \in Nat /\ BlockCells \in Nat \ {0}
  BY BakerAssumption DEF Fits
<1>2. \A x \in Nat, b \in Nat \ {0} : x % b = 0 => (x \div b) * b = x
  OBVIOUS
<1>3. CASE at % BlockCells # 0 \/ size % BlockCells # 0
  <2>1. DdRange = [block |-> 1, skip |-> at \div 1, count |-> size \div 1]
    BY <1>3 DEF DdRange, Extent
  <2> QED BY <1>1, <2>1 DEF RangeStart, RangeSize
<1>4. CASE ~(at % BlockCells # 0 \/ size % BlockCells # 0)
  <2>1. DdRange = [block |-> BlockCells, skip |-> at \div BlockCells, count |-> size \div BlockCells]
    BY <1>4 DEF DdRange, Extent
  <2>2. (at \div BlockCells) * BlockCells = at /\ (size \div BlockCells) * BlockCells = size
    BY <1>1, <1>2, <1>4
  <2> QED BY <2>1, <2>2 DEF RangeStart, RangeSize
<1> QED
  BY <1>3, <1>4

\* The n lowest members of a set of numbers with that many are n.
LEMMA LowestOf ==
    ASSUME NEW m \in Nat, NEW F \in SUBSET (0..m), NEW n \in Nat, n <= Cardinality(F)
    PROVE  Cardinality({i \in F : Cardinality({j \in F : j < i}) < n}) = n
<1> DEFINE Below(i) == {j \in F : j < i}
           Low(k) == {i \in F : Cardinality(Below(i)) < k}
           A == {k \in Nat : k <= Cardinality(F) /\ Cardinality(Low(k)) # k}
<1>0. \A i \in F : i \in Nat
  OBVIOUS
<1>1. IsFiniteSet(F) /\ Cardinality(F) \in Nat
  <2>1. IsFiniteSet(0..m)
    BY FS_Interval
  <2>2. IsFiniteSet(F)
    BY <2>1, FS_Subset
  <2> QED BY <2>2, FS_CardinalityType
<1>2. \A i \in F : i \in Nat /\ IsFiniteSet(Below(i)) /\ Cardinality(Below(i)) \in Nat
  <2>1. \A i \in F : i \in Nat /\ Below(i) \subseteq F
    OBVIOUS
  <2> HIDE DEF Below
  <2> QED BY <1>1, <2>1, FS_Subset, FS_CardinalityType
<1>3. A = {}
  <2> SUFFICES ASSUME A # {} PROVE FALSE
    OBVIOUS
  <2>1. PICK k \in A : k = 0 \/ k - 1 \in Nat \ A
    <3>1. A \in SUBSET Nat
      OBVIOUS
    <3> HIDE DEF A
    <3> QED BY <3>1, FirstException
  <2>2. k \in Nat /\ k <= Cardinality(F) /\ Cardinality(Low(k)) # k
    OBVIOUS
  <2>3. CASE k = 0
    <3>1. Low(0) = {}
      <4>1. \A i \in F : ~(Cardinality(Below(i)) < 0)
        <5> HIDE DEF Below
        <5> QED BY <1>2
      <4> HIDE DEF Below
      <4> QED BY <4>1
    <3> QED BY <2>2, <2>3, <3>1, FS_EmptySet
  <2>4. CASE k # 0
    <3> DEFINE L == Low(k - 1)
    <3>1. k - 1 \in Nat /\ Cardinality(L) = k - 1
      BY <2>1, <2>2, <2>4, <1>1
    <3>2. IsFiniteSet(L) /\ L \subseteq F
      <4>1. L \subseteq F
        OBVIOUS
      <4> HIDE DEF L
      <4> QED BY <4>1, <1>1, FS_Subset
    <3>3. F \ L # {}
      <4> SUFFICES ASSUME F \subseteq L PROVE FALSE
        <5> HIDE DEF L
        <5> QED OBVIOUS
      <4> HIDE DEF L
      <4>1. Cardinality(F) <= Cardinality(L)
        BY <3>2, FS_Subset
      <4> QED BY <4>1, <3>1, <2>2, <1>1
    \* The least of the others has just L below it.
    <3>4. PICK x \in F \ L : \A y \in F \ L : x <= y
      <4>1. OpToRel(<, Nat) = {ss \in Nat \X Nat : ss[1] < ss[2]}
        BY DEF OpToRel
      <4>2. F \ L \in SUBSET Nat
        <5> HIDE DEF L
        <5> QED BY <1>0
      <4>3. PICK x \in F \ L : \A y \in F \ L : <<y, x>> \notin OpToRel(<, Nat)
        <5> HIDE DEF L
        <5> QED BY <3>3, <4>2, NatLessThanWellFounded, WFMin
      <4>4. \A y \in F \ L : ~(y < x)
        <5> HIDE DEF L
        <5> QED BY <4>1, <4>2, <4>3
      <4> HIDE DEF L
      <4> QED BY <4>2, <4>4
    <3>5. \A i, j \in F : i <= j => Cardinality(Below(i)) <= Cardinality(Below(j))
      <4> SUFFICES ASSUME NEW i \in F, NEW j \in F, i <= j
                   PROVE  Cardinality(Below(i)) <= Cardinality(Below(j))
        OBVIOUS
      <4>1. ASSUME NEW e \in F, e < i PROVE e < j
        BY <4>1, <1>0
      <4>2. Below(i) \subseteq Below(j)
        BY <4>1
      <4> HIDE DEF Below
      <4> QED BY <4>2, <1>2, FS_Subset
    <3>6. Below(x) = L
      <4>1. ASSUME NEW i \in L PROVE i < x
        <5>1. i \in F /\ Cardinality(Below(i)) < k - 1
          OBVIOUS
        <5>2. ~(Cardinality(Below(x)) < k - 1)
          BY <3>4
        <5>3. ~(x <= i)
          <6> HIDE DEF Below
          <6> QED BY <5>1, <5>2, <3>5, <1>2, <3>1
        <5> QED BY <5>1, <5>3
      <4>2. ASSUME NEW i \in F, i < x PROVE i \in L
        BY <3>4, <4>2
      <4> HIDE DEF L
      <4> QED BY <4>1, <4>2, <3>2
    <3>7. Low(k) = L \cup {x}
      <4>1. Cardinality(Below(x)) = k - 1
        BY <3>1, <3>6
      <4>2. ASSUME NEW i \in F PROVE i \in Low(k) <=> i \in L \/ i = x
        <5>1. CASE i <= x
          <6>1. Cardinality(Below(i)) <= k - 1
            <7> HIDE DEF Below, L
            <7> QED BY <4>1, <3>5, <5>1
          <6>2. i \in Low(k)
            <7> HIDE DEF Below
            <7> QED BY <6>1, <1>2, <3>1
          <6>3. i # x => i \in Below(x)
            BY <5>1
          <6> QED BY <6>2, <6>3, <3>6
        <5>2. CASE ~(i <= x)
          <6>0. x \in F /\ x \in Nat /\ i \in Nat /\ x < i
            BY <5>2, <1>0
          <6>1. Below(x) \cup {x} \subseteq Below(i)
            <7>1. ASSUME NEW e \in F, e < x PROVE e < i
              BY <7>1, <6>0, <1>0
            <7> QED BY <6>0, <7>1
          <6>2. x \notin Below(x)
            OBVIOUS
          <6>3. Cardinality(Below(x) \cup {x}) = k
            <7>1. IsFiniteSet(Below(x)) /\ Cardinality(Below(x)) = k - 1
              BY <4>1, <1>2
            <7> HIDE DEF Below, L
            <7>2. Cardinality(Below(x) \cup {x}) = (k - 1) + 1
              BY <6>2, <7>1, FS_AddElement
            <7> QED BY <7>2, <2>2
          <6>4. Cardinality(Below(i)) >= k
            <7> HIDE DEF Below, L
            <7> QED BY <6>1, <6>3, <1>2, FS_Subset
          <6>5. i \notin Low(k) /\ i \notin L
            <7> HIDE DEF Below
            <7> QED BY <6>4, <1>2, <3>1
          <6> QED BY <6>5, <5>2
        <5> QED BY <5>1, <5>2
      <4>3. Low(k) \subseteq F
        OBVIOUS
      <4> HIDE DEF L
      <4> HIDE DEF Low
      <4> QED BY <4>2, <4>3, <3>2
    <3>8. x \notin L
      BY <3>4
    <3>9. Cardinality(L \cup {x}) = k
      <4> HIDE DEF L
      <4> QED BY <3>1, <3>2, <3>8, FS_AddElement
    <3> QED BY <2>2, <3>7, <3>9
  <2> QED BY <2>3, <2>4
<1>4. n \notin A
  BY <1>3
<1> QED
  BY <1>4

\* Two file systems have the same of a file.
Keeps(fs, old, path) ==
    /\ DOMAIN fs = DOMAIN old
    /\ \A i \in DOMAIN old :
           /\ fs[i].path = path <=> old[i].path = path
           /\ old[i].path = path => fs[i] = old[i]

\* Removing and writing a file leaves the others alone.
LEMMA RmKeeps ==
    ASSUME NEW fs, NEW p \in BakedPaths, NEW q, q # p
    PROVE  Keeps(Rm(fs, q), fs, p)
  BY DEF Rm, Keeps, FreeCell, Cell, BakedPaths, FlagPath, DaemonPath

\* ... and writing one likewise.
LEMMA InjectKeeps ==
    ASSUME NEW fs, NEW p \in BakedPaths, NEW q, q # p, NEW data, NEW size, NEW mode
    PROVE  Keeps(Inject(fs, q, data, size, mode), fs, p)
<1> DEFINE gs == Write(fs, q, data, size)
<1>1. Keeps(gs, fs, p)
  <2>1. \A i \in Allocated(fs, size) : i \in DOMAIN fs /\ fs[i].path # p
    BY DEF Allocated, Free, CellsOf, BakedPaths, FlagPath, DaemonPath
  <2>2. Cell(q, data, "0644").path = q
    BY DEF Cell
  <2> QED BY <2>1, <2>2 DEF Write, Keeps
<1> HIDE DEF gs
<1>2. Keeps(SetMode(gs, q, mode), gs, p)
  <2>1. DOMAIN SetMode(gs, q, mode) = DOMAIN gs
    BY DEF SetMode
  <2>2. ASSUME NEW i \in DOMAIN gs, gs[i].path # q
        PROVE  SetMode(gs, q, mode)[i] = gs[i]
    BY <2>2 DEF SetMode
  <2>3. ASSUME NEW i \in DOMAIN gs, gs[i].path = q
        PROVE  SetMode(gs, q, mode)[i].path = gs[i].path
    BY <2>3 DEF SetMode
  <2> QED BY <2>1, <2>2, <2>3 DEF Keeps
<1>3. Keeps(SetMode(gs, q, mode), fs, p)
  BY <1>1, <1>2 DEF Keeps
<1> QED
  BY <1>3 DEF Inject, gs

\* A file that is written anew is what was written, in the cells it was given.
LEMMA InjectWrites ==
    ASSUME NEW fs, NEW p, p # "free", CellsOf(fs, p) = {}, NEW data, NEW size, NEW mode
    PROVE  LET gs == Inject(fs, p, data, size, mode)
           IN  /\ DOMAIN gs = DOMAIN fs
               /\ CellsOf(gs, p) = Allocated(fs, size)
               /\ \A i \in Allocated(fs, size) : gs[i] = Cell(p, data, mode)
               /\ \A i \in DOMAIN fs \ Allocated(fs, size) : gs[i] = fs[i]
<1> DEFINE ws == Write(fs, p, data, size)
           gs == SetMode(ws, p, mode)
           al == Allocated(fs, size)
<1>1. al \subseteq DOMAIN fs
  BY DEF Allocated, Free, CellsOf
<1>2. ws = [i \in DOMAIN fs |-> IF i \in al THEN Cell(p, data, "0644") ELSE fs[i]]
  BY DEF Write
<1>3. \A i \in DOMAIN fs : fs[i].path # p
  BY DEF CellsOf
<1> HIDE DEF ws, al
<1>4. DOMAIN ws = DOMAIN fs /\ DOMAIN gs = DOMAIN fs
  BY <1>2 DEF SetMode
<1>5. ASSUME NEW i \in al PROVE gs[i] = Cell(p, data, mode)
  <2>1. i \in DOMAIN ws /\ ws[i] = Cell(p, data, "0644") /\ ws[i].path = p
    BY <1>1, <1>2, <1>4 DEF Cell
  <2>2. gs[i] = [ws[i] EXCEPT !.mode = mode]
    BY <2>1 DEF SetMode
  <2> QED BY <2>1, <2>2 DEF Cell
<1>6. ASSUME NEW i \in DOMAIN fs \ al PROVE gs[i] = fs[i] /\ gs[i].path # p
  <2>1. ws[i] = fs[i] /\ i \in DOMAIN ws
    BY <1>2
  <2>2. gs[i] = ws[i]
    BY <2>1, <1>3 DEF SetMode
  <2> QED BY <2>1, <2>2, <1>3
<1>7. CellsOf(gs, p) = al
  <2>1. \A i \in al : gs[i].path = p
    BY <1>5 DEF Cell
  <2> HIDE DEF gs
  <2> QED BY <2>1, <1>1, <1>4, <1>6 DEF CellsOf
<1> QED
  BY <1>4, <1>5, <1>6, <1>7 DEF Inject, ws, al

\* After its removal there is nothing of a file, and no less room.
LEMMA RmRemoves ==
    ASSUME NEW fs, NEW p, p # "free"
    PROVE  /\ CellsOf(Rm(fs, p), p) = {}
           /\ DOMAIN Rm(fs, p) = DOMAIN fs
           /\ Free(fs) \subseteq Free(Rm(fs, p))
  BY DEF CellsOf, Rm, Free, FreeCell, Cell

\* The room of a file system that has offsets as its cells.
LEMMA RoomFinite ==
    ASSUME NEW n \in Nat, NEW fs, DOMAIN fs = 0..(n - 1)
    PROVE  /\ Free(fs) \in SUBSET (0..n)
           /\ IsFiniteSet(Free(fs)) /\ Cardinality(Free(fs)) \in Nat
           /\ \A p : IsFiniteSet(CellsOf(fs, p))
<1>1. IsFiniteSet(0..(n - 1))
  BY FS_Interval
<1>2. \A p : CellsOf(fs, p) \in SUBSET (0..(n - 1))
  BY DEF CellsOf
<1>3. \A p : IsFiniteSet(CellsOf(fs, p))
  BY <1>1, <1>2, FS_Subset
<1>4. 0..(n - 1) \subseteq 0..n
  OBVIOUS
<1> QED
  BY <1>2, <1>3, <1>4, FS_CardinalityType DEF Free

\* A file that there is room for is written whole.
LEMMA AllocatedSize ==
    ASSUME NEW n \in Nat, NEW fs, DOMAIN fs = 0..(n - 1), NEW size \in Nat,
           size <= Cardinality(Free(fs))
    PROVE  Cardinality(Allocated(fs, size)) = size
  BY RoomFinite, LowestOf DEF Allocated

\* Only free cells are given to a file.
LEMMA AllocatedFree == \A fs, size : Allocated(fs, size) \subseteq Free(fs)
  BY DEF Allocated

\* The flag is in one cell, whisperd whole.
HasFlag(fs, value) ==
    \E x \in DOMAIN fs : CellsOf(fs, FlagPath) = {x} /\ fs[x] = Cell(FlagPath, value, "0600")
HasDaemon(fs) ==
    /\ IsFiniteSet(CellsOf(fs, DaemonPath))
    /\ Cardinality(CellsOf(fs, DaemonPath)) = DaemonCells
    /\ \A i \in CellsOf(fs, DaemonPath) : fs[i] = Cell(DaemonPath, "whisperd", "0755")

\* What is kept is still there.
LEMMA KeepsCells ==
    ASSUME NEW fs, NEW old, NEW p, Keeps(fs, old, p)
    PROVE  /\ CellsOf(fs, p) = CellsOf(old, p)
           /\ \A i \in CellsOf(old, p) : fs[i] = old[i]
  BY DEF Keeps, CellsOf

\* A file system that keeps the flag's file has the flag.
LEMMA KeepsFlag ==
    ASSUME NEW fs, NEW old, Keeps(fs, old, FlagPath), NEW value, HasFlag(old, value)
    PROVE  HasFlag(fs, value)
<1>1. PICK x \in DOMAIN old : CellsOf(old, FlagPath) = {x} /\ old[x] = Cell(FlagPath, value, "0600")
  BY DEF HasFlag
<1>2. x \in DOMAIN fs /\ CellsOf(fs, FlagPath) = {x} /\ fs[x] = old[x]
  BY <1>1, KeepsCells DEF Keeps
<1> QED
  BY <1>1, <1>2 DEF HasFlag

\* ... and one that keeps whisperd's, whisperd.
LEMMA KeepsDaemon ==
    ASSUME NEW fs, NEW old, Keeps(fs, old, DaemonPath), HasDaemon(old)
    PROVE  HasDaemon(fs)
<1>1. CellsOf(fs, DaemonPath) = CellsOf(old, DaemonPath)
  BY KeepsCells
<1>2. \A i \in CellsOf(old, DaemonPath) : fs[i] = old[i]
  BY KeepsCells
<1> QED
  BY <1>1, <1>2 DEF HasDaemon

\* A flag that is found after it was written is there in one cell, and took the room of one.
LEMMA FlagInjected ==
    ASSUME NEW n \in Nat, NEW fs, DOMAIN fs = 0..(n - 1), NEW value,
           HoldsFlag(Inject(Rm(fs, FlagPath), FlagPath, value, 1, "0600"), value)
    PROVE  LET gs == Inject(Rm(fs, FlagPath), FlagPath, value, 1, "0600")
           IN  /\ DOMAIN gs = DOMAIN fs
               /\ HasFlag(gs, value)
               /\ Cardinality(Free(gs)) + 1 >= Cardinality(Free(fs))
<1> DEFINE rs == Rm(fs, FlagPath)
           gs == Inject(rs, FlagPath, value, 1, "0600")
           al == Allocated(rs, 1)
<1>1. /\ CellsOf(rs, FlagPath) = {} /\ DOMAIN rs = DOMAIN fs
      /\ Free(fs) \subseteq Free(rs)
  BY RmRemoves DEF FlagPath
<1> HIDE DEF rs
<1>2. /\ DOMAIN gs = DOMAIN fs
      /\ CellsOf(gs, FlagPath) = al
      /\ \A i \in al : gs[i] = Cell(FlagPath, value, "0600")
      /\ \A i \in DOMAIN fs \ al : gs[i] = rs[i]
  <2>1. FlagPath # "free"
    BY DEF FlagPath
  <2> QED BY <1>1, <2>1, InjectWrites
<1> HIDE DEF gs
<1>3. PICK y \in DOMAIN gs : gs[y] = Cell(FlagPath, value, "0600")
  BY DEF HoldsFlag, gs, rs
<1>4. y \in al
  BY <1>2, <1>3 DEF CellsOf, Cell
<1>5. IsFiniteSet(Free(rs)) /\ Cardinality(Free(rs)) \in Nat /\ al \subseteq Free(rs)
  BY <1>1, RoomFinite, AllocatedFree
<1>6. Cardinality(al) = 1
  <2>1. Free(rs) # {}
    BY <1>4, <1>5
  <2>2. 1 <= Cardinality(Free(rs))
    BY <2>1, <1>5, FS_EmptySet
  <2> QED BY <2>2, <1>1, AllocatedSize
<1>7. al = {y}
  <2>1. IsFiniteSet(al) /\ {y} \subseteq al
    BY <1>4, <1>5, FS_Subset
  <2>2. Cardinality({y}) = 1
    BY FS_Singleton
  <2> QED BY <2>1, <2>2, <1>6, FS_Subset
<1>8. HasFlag(gs, value)
  BY <1>2, <1>3, <1>7 DEF HasFlag
<1>9. Cardinality(Free(gs)) + 1 >= Cardinality(Free(fs))
  <2>1. Free(fs) \ {y} \subseteq Free(gs)
    BY <1>1, <1>2, <1>7 DEF Free, CellsOf
  <2>2. IsFiniteSet(Free(fs)) /\ Cardinality(Free(fs)) \in Nat
        /\ IsFiniteSet(Free(gs)) /\ Cardinality(Free(gs)) \in Nat
    BY <1>2, RoomFinite
  <2>3. Cardinality(Free(fs) \ {y}) <= Cardinality(Free(gs))
    BY <2>1, <2>2, FS_Subset
  <2>4. Cardinality(Free(fs) \ {y}) = IF y \in Free(fs) THEN Cardinality(Free(fs)) - 1
                                                        ELSE Cardinality(Free(fs))
    BY <2>2, FS_RemoveElement
  <2> QED BY <2>2, <2>3, <2>4
<1> QED
  BY <1>2, <1>8, <1>9 DEF gs, rs

\* Whisperd, which nothing compares, is whole where there is room for it.
LEMMA DaemonInjected ==
    ASSUME NEW n \in Nat, NEW fs, DOMAIN fs = 0..(n - 1), DaemonCells <= Cardinality(Free(fs))
    PROVE  LET gs == Inject(Rm(fs, DaemonPath), DaemonPath, "whisperd", DaemonCells, "0755")
           IN  DOMAIN gs = DOMAIN fs /\ HasDaemon(gs)
<1> DEFINE rs == Rm(fs, DaemonPath)
           gs == Inject(rs, DaemonPath, "whisperd", DaemonCells, "0755")
           al == Allocated(rs, DaemonCells)
<1>1. /\ CellsOf(rs, DaemonPath) = {} /\ DOMAIN rs = DOMAIN fs
      /\ Free(fs) \subseteq Free(rs)
  BY RmRemoves DEF DaemonPath
<1> HIDE DEF rs
<1>2. /\ DOMAIN gs = DOMAIN fs
      /\ CellsOf(gs, DaemonPath) = al
      /\ \A i \in al : gs[i] = Cell(DaemonPath, "whisperd", "0755")
  <2>1. DaemonPath # "free"
    BY DEF DaemonPath
  <2> QED BY <1>1, <2>1, InjectWrites
<1>3. DaemonCells \in Nat
  BY BakerAssumption
<1>4. IsFiniteSet(Free(rs)) /\ Cardinality(Free(rs)) \in Nat /\ al \subseteq Free(rs)
  BY <1>1, RoomFinite, AllocatedFree
<1>5. DaemonCells <= Cardinality(Free(rs))
  <2>1. Cardinality(Free(fs)) <= Cardinality(Free(rs))
    BY <1>1, <1>4, FS_Subset
  <2>2. Cardinality(Free(fs)) \in Nat
    BY RoomFinite
  <2> QED BY <2>1, <2>2, <1>3, <1>4
<1>6. Cardinality(al) = DaemonCells
  BY <1>1, <1>3, <1>5, AllocatedSize
<1>7. IsFiniteSet(al)
  BY <1>4, FS_Subset
<1> HIDE DEF gs, al
<1>8. HasDaemon(gs)
  BY <1>2, <1>6, <1>7 DEF HasDaemon
<1> QED
  BY <1>2, <1>8 DEF gs, rs

\* A set of numbers has its size wherever it begins.
LEMMA ShiftedSize ==
    ASSUME NEW at \in Nat, NEW S \in SUBSET Nat, IsFiniteSet(S)
    PROVE  IsFiniteSet({at + x : x \in S}) /\ Cardinality({at + x : x \in S}) = Cardinality(S)
<1> DEFINE T == {at + x : x \in S}
           f == [x \in S |-> at + x]
<1>1. f \in [S -> T] /\ \A x, y \in S : f[x] = f[y] => x = y
  OBVIOUS
<1>2. \A t \in T : \E x \in S : f[x] = t
  OBVIOUS
<1> HIDE DEF f, T
<1>3. f \in Bijection(S, T)
  BY <1>1, <1>2 DEF Bijection, Injection, Surjection, IsInjective
<1>4. ExistsBijection(S, T)
  BY <1>3 DEF ExistsBijection
<1> QED
  BY <1>4, FS_Bijection DEF T

-----------------------------------------------------------------------------
(* The scripts that bake an image: what a bake keeps.                      *)

Stages == {"idle", "locate", "flag", "daemon", "decoys", "write", "verify", "torn"}

\* Only bake_image knows of whisperd.
DaemonInImage == bake.daemon => bake.script = "bake_image"

BakerTypes ==
    /\ baking \in Stages
    /\ report \in {"", "success", "warned", "died", "killed"}
    /\ decoy \in Nat \ {0}
    /\ bake.script \in {"none", "bake_image", "bake_flag", "bake_decoys"}
    /\ DOMAIN image = Cells /\ DOMAIN earlier = Cells
    /\ \E i \in Images : tables = i.tables /\ factory = i.cells

\* Only cells of the partition ever change.
PlaceInv ==
    \A c \in Cells : image[c] # factory[c] \/ earlier[c] # factory[c] =>
        Tabled(tables) /\ c \in Within

\* A report is of a script that has ended, and nothing is written until the write-back.
ReportInv ==
    /\ report # "" => baking \in {"idle", "torn"}
    /\ baking = "torn" => report = "killed"
    /\ report = "died" => image = earlier
    /\ baking \in {"locate", "flag", "daemon", "decoys", "write"} => image = earlier

OldSystem == [i \in Offsets |-> earlier[Extent.at + i]]

\* What the copy has at each stage.
CopyInv ==
    /\ baking \in {"flag", "daemon", "decoys", "write", "verify"} =>
           Tabled(tables) /\ DOMAIN copy = Offsets
    /\ baking \in {"flag", "daemon"} => bake.script # "bake_decoys"
    /\ baking = "daemon" => bake.daemon
    /\ bake.script # "bake_decoys" /\ baking \in {"daemon", "decoys", "write", "verify"} =>
           HasFlag(copy, bake.flag)
    /\ bake.daemon =>
           /\ baking = "flag" => 2 * DaemonCells <= Cardinality(Free(copy))
           /\ baking = "daemon" => DaemonCells <= Cardinality(Free(copy))
           /\ baking \in {"decoys", "write", "verify"} => HasDaemon(copy)
    /\ bake.script = "bake_decoys" /\ baking \in {"decoys", "write", "verify"} =>
           \A p \in BakedPaths : Keeps(copy, OldSystem, p)

\* The image after the write-back.
WrittenInv ==
    baking = "verify" =>
        image = [c \in Cells |-> IF c \in Within THEN copy[c - Extent.at] ELSE earlier[c]]

\* What a script that has ended leaves.
EndedInv ==
    /\ report = "success" /\ bake.script # "bake_decoys" =>
           /\ Holds(FlagPath, bake.flag, 1, "0600")
           /\ bake.daemon => Holds(DaemonPath, "whisperd", DaemonCells, "0755")
    /\ bake.script = "bake_decoys" /\ baking = "idle" =>
           \A p \in BakedPaths : Keeps(image, earlier, p)

BakerInv == BakerTypes /\ DaemonInImage /\ PlaceInv /\ ReportInv /\ CopyInv /\ WrittenInv /\ EndedInv

\* The partition fits, and what is baked lies in it or nowhere.
LEMMA PartitionFits ==
    ASSUME BakerTypes, Tabled(tables)
    PROVE  /\ Fits
           /\ RangeStart = Extent.at /\ RangeSize = Extent.size
           /\ Extent.at \in Nat /\ Extent.size \in Nat
           /\ \A x \in Offsets : Extent.at + x \in Within /\ Extent.at + x \in Cells
           /\ \A c \in Within : c - Extent.at \in Offsets /\ Extent.at + (c - Extent.at) = c
           /\ Within \subseteq Cells
           /\ \A c \in Cells \ Within : factory[c].path \notin BakedPaths
<1>1. PICK i \in Images : tables = i.tables /\ factory = i.cells
  BY DEF BakerTypes
<1>2. /\ {Extent.at, Extent.size} \subseteq Nat /\ Extent.at + Extent.size <= ImageCells
      /\ \A c \in Cells \ (Extent.at..(Extent.at + Extent.size - 1)) : factory[c].path \notin BakedPaths
  BY <1>1, BakerAssumption DEF Extent, SystemExtent
<1>3. ImageCells \in Nat
  BY BakerAssumption
<1>4. Fits
  BY <1>2 DEF Fits
<1>5. /\ \A x \in Offsets : Extent.at + x \in Within /\ Extent.at + x \in Cells
      /\ \A c \in Within : c - Extent.at \in Offsets /\ Extent.at + (c - Extent.at) = c
      /\ Within \subseteq Cells
  BY <1>2, <1>3 DEF Offsets, Within, Cells
<1> QED
  BY <1>2, <1>4, <1>5, DdHitsPartition DEF Fits, Within

\* After the write-back the image has of a baked file what the copy has.
LEMMA WrittenCells ==
    ASSUME BakerInv, baking = "verify", NEW p \in BakedPaths
    PROVE  /\ CellsOf(image, p) = {Extent.at + x : x \in CellsOf(copy, p)}
           /\ \A x \in CellsOf(copy, p) : image[Extent.at + x] = copy[x]
<1>1. /\ BakerTypes /\ Tabled(tables) /\ DOMAIN copy = Offsets
      /\ image = [c \in Cells |-> IF c \in Within THEN copy[c - Extent.at] ELSE earlier[c]]
      /\ DOMAIN image = Cells
  BY DEF BakerInv, CopyInv, WrittenInv, BakerTypes
<1>2. \A c \in Cells \ Within : image[c] = factory[c] /\ image[c].path # p
  BY <1>1, PartitionFits DEF BakerInv, PlaceInv
<1>3. \A x \in Offsets : /\ Extent.at + x \in Within /\ Extent.at + x \in Cells
                         /\ image[Extent.at + x] = copy[x]
  <2> SUFFICES ASSUME NEW x \in Offsets
               PROVE  /\ Extent.at + x \in Within /\ Extent.at + x \in Cells
                      /\ image[Extent.at + x] = copy[x]
    OBVIOUS
  <2>1. Extent.at + x \in Within /\ Extent.at + x \in Cells
    BY <1>1, PartitionFits
  <2>2. (Extent.at + x) - Extent.at = x
    BY <1>1, PartitionFits DEF Offsets
  <2> QED BY <1>1, <2>1, <2>2
<1>4. \A c \in Within : c - Extent.at \in Offsets /\ Extent.at + (c - Extent.at) = c
  BY <1>1, PartitionFits
<1>5. \A c \in CellsOf(image, p) : \E x \in CellsOf(copy, p) : c = Extent.at + x
  <2> SUFFICES ASSUME NEW c \in CellsOf(image, p)
               PROVE  \E x \in CellsOf(copy, p) : c = Extent.at + x
    OBVIOUS
  <2>1. c \in Within
    BY <1>1, <1>2 DEF CellsOf
  <2>2. c - Extent.at \in Offsets /\ Extent.at + (c - Extent.at) = c
    BY <1>4, <2>1
  <2>3. c - Extent.at \in CellsOf(copy, p)
    BY <2>2, <1>1, <1>3 DEF CellsOf
  <2> QED BY <2>2, <2>3
<1>6. \A x \in CellsOf(copy, p) : Extent.at + x \in CellsOf(image, p)
  BY <1>1, <1>3 DEF CellsOf
<1>7. \A x \in CellsOf(copy, p) : image[Extent.at + x] = copy[x]
  BY <1>1, <1>3 DEF CellsOf
<1> QED
  BY <1>5, <1>6, <1>7

\* A file of the copy, whole there, is whole on the image.
LEMMA WrittenHolds ==
    ASSUME BakerInv, baking = "verify", NEW p \in BakedPaths, NEW data, NEW size, NEW mode,
           IsFiniteSet(CellsOf(copy, p)), Cardinality(CellsOf(copy, p)) = size,
           \A x \in CellsOf(copy, p) : copy[x] = Cell(p, data, mode)
    PROVE  Holds(p, data, size, mode)
<1>1. /\ CellsOf(image, p) = {Extent.at + x : x \in CellsOf(copy, p)}
      /\ \A x \in CellsOf(copy, p) : image[Extent.at + x] = copy[x]
  BY WrittenCells
<1>2. Extent.at \in Nat /\ CellsOf(copy, p) \in SUBSET Nat
  <2>1. BakerTypes /\ Tabled(tables) /\ DOMAIN copy = Offsets
    BY DEF BakerInv, CopyInv
  <2> QED BY <2>1, PartitionFits DEF CellsOf, Offsets
<1>3. Cardinality(CellsOf(image, p)) = size
  BY <1>1, <1>2, ShiftedSize
<1>4. \A c \in CellsOf(image, p) : image[c] = Cell(p, data, mode)
  BY <1>1
<1> QED
  BY <1>3, <1>4 DEF Holds

\* Where the copy keeps a file, so does the image.
LEMMA WrittenKeeps ==
    ASSUME BakerInv, baking = "verify", NEW p \in BakedPaths, Keeps(copy, OldSystem, p)
    PROVE  Keeps(image, earlier, p)
<1>1. /\ BakerTypes /\ Tabled(tables) /\ DOMAIN copy = Offsets
      /\ image = [c \in Cells |-> IF c \in Within THEN copy[c - Extent.at] ELSE earlier[c]]
      /\ DOMAIN image = Cells /\ DOMAIN earlier = Cells
  BY DEF BakerInv, CopyInv, WrittenInv, BakerTypes
<1>2. ASSUME NEW c \in Cells
      PROVE  /\ image[c].path = p <=> earlier[c].path = p
             /\ earlier[c].path = p => image[c] = earlier[c]
  <2>1. CASE c \in Within
    <3>1. c - Extent.at \in Offsets /\ Extent.at + (c - Extent.at) = c
      BY <1>1, <2>1, PartitionFits
    <3>2. OldSystem[c - Extent.at] = earlier[c] /\ c - Extent.at \in DOMAIN OldSystem
      BY <3>1 DEF OldSystem
    <3>3. image[c] = copy[c - Extent.at]
      BY <1>1, <2>1
    <3> QED BY <3>2, <3>3 DEF Keeps
  <2>2. CASE c \notin Within
    BY <1>1, <2>2
  <2> QED BY <2>1, <2>2
<1> QED
  BY <1>1, <1>2 DEF Keeps

\* What debugfs edits has the cells that dd has read, and at least the room that was shown.
LEMMA CarvedCopy ==
    ASSUME BakerTypes, Tabled(tables), image = earlier
    PROVE  /\ ReadBack = OldSystem
           /\ FreeShown <= Cardinality(Free(ReadBack))
<1> DEFINE at == Extent.at  shown == {c \in Within : image[c] = FreeCell}
<1>1. /\ RangeStart = at /\ RangeSize = Extent.size
      /\ at \in Nat /\ Extent.size \in Nat
      /\ \A c \in Within : c - at \in Offsets /\ at + (c - at) = c
  BY PartitionFits
<1>2. ReadBack = OldSystem
  BY <1>1 DEF ReadBack, OldSystem, Offsets
<1>3. FreeShown = Cardinality(shown)
  BY DEF FreeShown, Within, Extent
<1>4. DOMAIN ReadBack = 0..(Extent.size - 1)
  BY <1>2 DEF OldSystem, Offsets
<1>5. /\ IsFiniteSet(Free(ReadBack)) /\ Cardinality(Free(ReadBack)) \in Nat
      /\ Free(ReadBack) \in SUBSET Nat
  <2>1. Free(ReadBack) \in SUBSET (0..Extent.size)
    BY <1>1, <1>4, RoomFinite
  <2> QED BY <1>1, <1>4, <2>1, RoomFinite
<1> DEFINE T == {at + x : x \in Free(ReadBack)}
<1>6. IsFiniteSet(T) /\ Cardinality(T) = Cardinality(Free(ReadBack))
  BY <1>1, <1>5, ShiftedSize
<1>7. shown \subseteq T
  <2> SUFFICES ASSUME NEW c \in Within, image[c] = FreeCell
               PROVE  \E x \in Free(ReadBack) : c = at + x
    OBVIOUS
  <2>1. c - at \in Offsets /\ at + (c - at) = c
    BY <1>1
  <2>2. ReadBack[c - at] = FreeCell /\ c - at \in DOMAIN ReadBack
    BY <1>2, <2>1 DEF OldSystem
  <2>3. FreeCell.path = "free"
    BY DEF FreeCell, Cell
  <2>4. c - at \in Free(ReadBack)
    BY <2>2, <2>3 DEF Free, CellsOf
  <2> QED BY <2>1, <2>4
<1>8. Cardinality(shown) <= Cardinality(T)
  <2> HIDE DEF T, shown
  <2> QED BY <1>6, <1>7, FS_Subset
<1> QED
  BY <1>2, <1>3, <1>6, <1>8

\* An image as it comes keeps it.
LEMMA BakerStart == BakerInit => BakerInv
<1> SUFFICES ASSUME BakerInit PROVE BakerInv
  OBVIOUS
<1>1. PICK i \in Images : tables = i.tables /\ image = i.cells
  BY DEF BakerInit
<1>2. DOMAIN image = Cells
  BY <1>1, BakerAssumption
<1>3. bake.script = "none" /\ ~bake.daemon /\ DaemonInImage
  <2>1. bake = [script |-> "none", flag |-> "", daemon |-> FALSE]
    BY DEF BakerInit
  <2> QED BY <2>1 DEF DaemonInImage
<1>4. BakerTypes
  <2>1. /\ bake.script \in {"none", "bake_image", "bake_flag", "bake_decoys"}
        /\ factory = image /\ earlier = image
    BY <1>3 DEF BakerInit
  <2>2. baking = "idle" /\ report = "" /\ decoy = 1
    BY DEF BakerInit
  <2>4. decoy \in Nat \ {0}
    <3>1. decoy = 1
      BY <2>2
    <3>2. 1 \in Nat \ {0}
      OBVIOUS
    <3> QED BY <3>1, <3>2, Zenon
  <2>3. \E j \in Images : tables = j.tables /\ factory = j.cells
    BY <1>1, <2>1
  <2> QED BY <1>2, <2>1, <2>2, <2>3, <2>4 DEF BakerTypes, Stages
<1> QED
  BY <1>3, <1>4 DEF BakerInit, BakerInv, PlaceInv, ReportInv, CopyInv, WrittenInv, EndedInv

\* A script that begins.
LEMMA BeginStep ==
    ASSUME BakerInv, NEW script \in {"bake_image", "bake_flag", "bake_decoys"}, NEW flag,
           NEW daemon \in BOOLEAN, Begin(script, flag, daemon)
    PROVE  BakerInv'
<1>1. BakerTypes'
  <2>1. bake'.script \in {"none", "bake_image", "bake_flag", "bake_decoys"}
    BY DEF Begin
  <2>2. /\ baking' = "locate" /\ report' = "" /\ decoy' = 1
        /\ earlier' = image /\ image' = image /\ DOMAIN image = Cells
    BY DEF Begin, BakerInv, BakerTypes
  <2>4. decoy' \in Nat \ {0}
    <3>1. decoy' = 1
      BY <2>2
    <3>2. 1 \in Nat \ {0}
      OBVIOUS
    <3> QED BY <3>1, <3>2, Zenon
  <2>3. \E i \in Images : tables' = i.tables /\ factory' = i.cells
    BY DEF BakerInv, BakerTypes, Begin
  <2> QED BY <2>1, <2>2, <2>3, <2>4 DEF BakerTypes, Stages
<1>2. PlaceInv'
  BY DEF BakerInv, PlaceInv, Begin, Within, Extent, SystemExtent
<1>3. DaemonInImage'
  <2>1. bake'.script = script /\ (bake'.daemon <=> daemon)
    BY DEF Begin
  <2>2. daemon => script = "bake_image"
    BY DEF Begin
  <2> QED BY <2>1, <2>2 DEF DaemonInImage
<1> QED
  BY <1>1, <1>2, <1>3 DEF BakerInv, Begin, ReportInv, CopyInv, WrittenInv, EndedInv

\* A script that dies has written nothing.
LEMMA DieStep ==
    ASSUME BakerInv, Die, baking \notin {"idle", "torn", "verify"}
    PROVE  BakerInv'
<1>1. BakerTypes'
  BY DEF BakerInv, BakerTypes, Die, Stages
<1>2. PlaceInv'
  BY DEF BakerInv, PlaceInv, Die, Within, Extent, SystemExtent
<1>3. image = earlier
  BY DEF BakerInv, BakerTypes, ReportInv, Stages
<1>4. EndedInv'
  <2>1. \A p : Keeps(image, earlier, p)'
    BY <1>3 DEF Die, Keeps
  <2> QED BY <2>1 DEF EndedInv, Die
<1>5. DaemonInImage'
  BY DEF BakerInv, Die, DaemonInImage
<1> QED
  BY <1>1, <1>2, <1>3, <1>4, <1>5 DEF BakerInv, Die, ReportInv, CopyInv, WrittenInv

\* The file system is carved out, or the script dies.
LEMMA CarveStep == ASSUME BakerInv, Carve PROVE BakerInv'
<1>1. baking = "locate" /\ image = earlier /\ BakerTypes
  BY DEF BakerInv, Carve, ReportInv
<1>2. CASE Located /\ FreeShown >= Needed
  <2>1. /\ copy' = ReadBack
        /\ baking' = IF bake.script = "bake_decoys" THEN "decoys" ELSE "flag"
        /\ UNCHANGED <<tables, image, bake, decoy, report, factory, earlier, bakes>>
    BY <1>2 DEF Carve
  <2>2. Tabled(tables)
    BY <1>2 DEF Located
  <2>3. ReadBack = OldSystem /\ FreeShown <= Cardinality(Free(ReadBack))
    BY <1>1, <2>2, CarvedCopy
  <2>4. DOMAIN copy' = Offsets
    BY <2>1, <2>3 DEF OldSystem
  <2>5. BakerTypes'
    BY <1>1, <2>1 DEF BakerTypes, Stages
  <2>6. PlaceInv'
    BY <2>1 DEF BakerInv, PlaceInv, Within, Extent, SystemExtent
  <2>7. bake.daemon => 2 * DaemonCells <= Cardinality(Free(copy'))
    <3>1. SUFFICES ASSUME bake.daemon PROVE 2 * DaemonCells <= Cardinality(Free(copy'))
      OBVIOUS
    <3>2. bake.script = "bake_image"
      BY <1>1, <3>1 DEF BakerInv, DaemonInImage
    <3>3. Needed = IF 2 * DaemonCells > Spare THEN 2 * DaemonCells ELSE Spare
      BY <3>1, <3>2, Zenon DEF Needed
    <3>4. DaemonCells \in Nat /\ Spare \in Nat
      BY BakerAssumption
    <3>5. Cardinality(Free(ReadBack)) \in Nat
      <4>1. DOMAIN ReadBack = 0..(Extent.size - 1) /\ Extent.size \in Nat
        BY <1>1, <2>2, <2>3, PartitionFits DEF OldSystem, Offsets
      <4> QED BY <4>1, RoomFinite
    <3>6. FreeShown \in Nat
      <4>1. IsFiniteSet(Within)
        <5>1. Extent.at \in Int /\ Extent.at + Extent.size - 1 \in Int
          BY <1>1, <2>2, PartitionFits
        <5> QED BY <5>1, FS_Interval DEF Within
      <4>2. FreeShown = Cardinality({c \in Within : image[c] = FreeCell})
        BY DEF FreeShown, Within, Extent
      <4>3. IsFiniteSet({c \in Within : image[c] = FreeCell})
        BY <4>1, FS_Subset
      <4> QED BY <4>2, <4>3, FS_CardinalityType
    <3> QED BY <1>2, <2>1, <2>3, <3>3, <3>4, <3>5, <3>6
  <2>8. bake.script = "bake_decoys" => \A p : Keeps(copy', OldSystem, p)
    BY <2>1, <2>3 DEF Keeps
  <2>9. OldSystem' = OldSystem /\ Offsets' = Offsets
    BY <2>1 DEF OldSystem, Offsets, Extent, SystemExtent
  <2>10. CopyInv'
    <3>1. Cardinality(Free(copy))' = Cardinality(Free(copy'))
      OBVIOUS
    <3>2. baking' \in {"flag", "decoys"} /\ (baking' = "decoys" <=> bake.script = "bake_decoys")
      BY <2>1
    <3>3. bake.daemon => bake.script # "bake_decoys"
      BY <1>1 DEF BakerInv, DaemonInImage
    <3> QED BY <2>1, <2>2, <2>4, <2>7, <2>8, <2>9, <3>1, <3>2, <3>3 DEF CopyInv
  <2>11. ReportInv' /\ WrittenInv' /\ EndedInv'
    <3>1. report = ""
      BY <1>1 DEF BakerInv, ReportInv
    <3> QED BY <1>1, <2>1, <3>1 DEF ReportInv, WrittenInv, EndedInv
  <2>12. DaemonInImage'
    BY <2>1 DEF BakerInv, DaemonInImage
  <2> QED BY <2>5, <2>6, <2>10, <2>11, <2>12 DEF BakerInv
<1>3. CASE ~(Located /\ FreeShown >= Needed)
  <2>1. Die
    BY <1>3 DEF Carve
  <2> QED BY <1>1, <2>1, DieStep
<1> QED
  BY <1>2, <1>3

\* The flag goes in, or the script dies.
LEMMA InjectFlagStep == ASSUME BakerInv, InjectFlag PROVE BakerInv'
<1> DEFINE fs == Inject(Rm(copy, FlagPath), FlagPath, bake.flag, 1, "0600")
<1>1. /\ baking = "flag" /\ BakerTypes /\ Tabled(tables) /\ DOMAIN copy = Offsets
      /\ image = earlier /\ report = "" /\ bake.script # "bake_decoys"
  BY DEF BakerInv, InjectFlag, ReportInv, CopyInv
<1>2. CASE HoldsFlag(fs, bake.flag)
  <2>1. /\ copy' = fs
        /\ UNCHANGED <<tables, image, bake, decoy, report, factory, earlier, bakes>>
    BY <1>2 DEF InjectFlag
  <2>2. /\ baking' \in {"write", "daemon", "decoys"}
        /\ bake.daemon => baking' = "daemon"
        /\ baking' = "daemon" => bake.daemon
    <3>1. baking' = CASE bake.script = "bake_flag" -> "write"
                      [] bake.daemon               -> "daemon"
                      [] OTHER                     -> "decoys"
      BY <1>2 DEF InjectFlag
    <3>2. CASE bake.script = "bake_flag"
      <4>1. ~bake.daemon
        BY <3>2 DEF BakerInv, DaemonInImage
      <4>2. baking' = "write"
        BY <3>1, <3>2, <4>1, Zenon
      <4> QED BY <4>1, <4>2
    <3>3. CASE bake.script # "bake_flag" /\ bake.daemon
      <4>1. baking' = "daemon"
        BY <3>1, <3>3, Zenon
      <4> QED BY <3>3, <4>1
    <3>4. CASE bake.script # "bake_flag" /\ ~bake.daemon
      <4>1. baking' = "decoys"
        BY <3>1, <3>4, Zenon
      <4> QED BY <3>4, <4>1
    <3> QED BY <3>2, <3>3, <3>4
  <2>3. Extent.size \in Nat /\ DOMAIN copy = 0..(Extent.size - 1)
    BY <1>1, PartitionFits DEF Offsets
  <2>4. /\ DOMAIN fs = DOMAIN copy
        /\ HasFlag(fs, bake.flag)
        /\ Cardinality(Free(fs)) + 1 >= Cardinality(Free(copy))
    BY <1>2, <2>3, FlagInjected
  <2>5. bake.daemon => DaemonCells <= Cardinality(Free(fs))
    <3>1. bake.daemon => 2 * DaemonCells <= Cardinality(Free(copy))
      BY <1>1 DEF BakerInv, CopyInv
    <3>2. DaemonCells \in Nat \ {0}
      BY BakerAssumption
    <3>3. Cardinality(Free(fs)) \in Nat /\ Cardinality(Free(copy)) \in Nat
      BY <2>3, <2>4, RoomFinite
    <3>4. ASSUME 2 * DaemonCells <= Cardinality(Free(copy))
          PROVE  DaemonCells <= Cardinality(Free(fs))
      BY <2>4, <3>2, <3>3, <3>4
    <3> QED BY <3>1, <3>4
  <2> HIDE DEF fs
  <2>6. BakerTypes'
    BY <1>1, <2>1, <2>2 DEF BakerTypes, Stages
  <2>7. PlaceInv'
    BY <2>1 DEF BakerInv, PlaceInv, Within, Extent, SystemExtent
  <2>8. CopyInv'
    <3>1. DOMAIN copy' = Offsets' /\ HasFlag(copy', bake'.flag)
      BY <1>1, <2>1, <2>4 DEF Offsets, Extent, SystemExtent
    <3>2. HasFlag(copy, bake.flag)'
      BY <3>1
    <3>3. Cardinality(Free(copy))' = Cardinality(Free(copy'))
      OBVIOUS
    <3>4. bake'.daemon => baking' = "daemon" /\ DaemonCells <= Cardinality(Free(copy'))
      BY <2>1, <2>2, <2>5
    <3>5. baking' # "flag" /\ baking' # "verify" /\ bake'.script # "bake_decoys" /\ Tabled(tables')
      BY <1>1, <2>1, <2>2
    <3> QED BY <2>1, <2>2, <3>1, <3>2, <3>3, <3>4, <3>5 DEF CopyInv
  <2>9. ReportInv' /\ WrittenInv' /\ EndedInv'
    BY <1>1, <2>1, <2>2 DEF ReportInv, WrittenInv, EndedInv
  <2>10. DaemonInImage'
    BY <2>1 DEF BakerInv, DaemonInImage
  <2> QED BY <2>6, <2>7, <2>8, <2>9, <2>10 DEF BakerInv
<1>3. CASE ~HoldsFlag(fs, bake.flag)
  <2>1. Die
    BY <1>3 DEF InjectFlag
  <2> QED BY <1>1, <2>1, DieStep
<1> QED
  BY <1>2, <1>3

\* Whisperd goes in beside the flag.
LEMMA InjectDaemonStep == ASSUME BakerInv, InjectDaemon PROVE BakerInv'
<1> DEFINE fs == Inject(Rm(copy, DaemonPath), DaemonPath, "whisperd", DaemonCells, "0755")
<1>1. /\ baking = "daemon" /\ BakerTypes /\ Tabled(tables) /\ DOMAIN copy = Offsets
      /\ image = earlier /\ report = "" /\ bake.daemon
  BY DEF BakerInv, InjectDaemon, ReportInv, CopyInv
<1>2. bake.script # "bake_decoys"
  BY <1>1 DEF BakerInv, DaemonInImage
<1>3. /\ HasFlag(copy, bake.flag) /\ DaemonCells <= Cardinality(Free(copy))
  BY <1>1, <1>2 DEF BakerInv, CopyInv
<1>4. /\ copy' = fs /\ baking' = "decoys"
      /\ UNCHANGED <<tables, image, bake, decoy, report, factory, earlier, bakes>>
  BY DEF InjectDaemon
<1>5. Extent.size \in Nat /\ DOMAIN copy = 0..(Extent.size - 1)
  BY <1>1, PartitionFits DEF Offsets
<1>6. DOMAIN fs = DOMAIN copy /\ HasDaemon(fs)
  BY <1>3, <1>5, DaemonInjected
<1>7. HasFlag(fs, bake.flag)
  <2>1. DaemonPath # FlagPath /\ FlagPath \in BakedPaths
    BY DEF DaemonPath, FlagPath, BakedPaths
  <2>2. HasFlag(Rm(copy, DaemonPath), bake.flag)
    BY <1>3, <2>1, RmKeeps, KeepsFlag
  <2> QED BY <2>1, <2>2, InjectKeeps, KeepsFlag
<1> HIDE DEF fs
<1>8. BakerTypes'
  BY <1>1, <1>4 DEF BakerTypes, Stages
<1>9. PlaceInv'
  BY <1>4 DEF BakerInv, PlaceInv, Within, Extent, SystemExtent
<1>10. CopyInv'
  <2>1. DOMAIN copy' = Offsets' /\ HasFlag(copy, bake.flag)' /\ HasDaemon(copy)'
    BY <1>1, <1>4, <1>6, <1>7 DEF Offsets, Extent, SystemExtent
  <2> QED BY <1>1, <1>2, <1>4, <2>1 DEF CopyInv
<1>11. ReportInv' /\ WrittenInv' /\ EndedInv'
  BY <1>1, <1>4 DEF ReportInv, WrittenInv, EndedInv
<1>12. DaemonInImage'
  BY <1>4 DEF BakerInv, DaemonInImage
<1> QED
  BY <1>8, <1>9, <1>10, <1>11, <1>12 DEF BakerInv

\* A decoy takes nothing from what is baked.
LEMMA InjectDecoyStep == ASSUME BakerInv, InjectDecoy PROVE BakerInv'
<1>1. /\ baking = "decoys" /\ BakerTypes /\ Tabled(tables) /\ DOMAIN copy = Offsets
      /\ image = earlier /\ report = "" /\ decoy <= Len(DecoyFiles)
  BY DEF BakerInv, InjectDecoy, ReportInv, CopyInv
<1>2. /\ baking' = "decoys" /\ decoy' = decoy + 1
      /\ UNCHANGED <<tables, image, bake, report, factory, earlier, bakes>>
  BY DEF InjectDecoy
<1>3. \A p \in BakedPaths : Keeps(copy', copy, p)
  <2> DEFINE d == DecoyFiles[decoy]
  <2>1. \A p \in BakedPaths : d.path # p
    <3>1. decoy \in DOMAIN DecoyFiles
      <4>1. DecoyFiles \in Seq({DecoyFiles[k] : k \in DOMAIN DecoyFiles}) /\ decoy \in Nat \ {0}
        BY <1>1, BakerAssumption DEF BakerTypes
      <4>2. DOMAIN DecoyFiles = 1..Len(DecoyFiles) /\ Len(DecoyFiles) \in Nat
        BY <4>1
      <4>3. decoy <= Len(DecoyFiles)
        BY <1>1
      <4> QED BY <4>1, <4>2, <4>3
    <3> QED BY <3>1, BakerAssumption
  <2>2. CASE UNCHANGED copy
    BY <2>2 DEF Keeps
  <2>3. ASSUME NEW removed \in BOOLEAN,
               copy' = Inject(IF removed THEN Rm(copy, d.path) ELSE copy, d.path, "decoy", 1, d.mode),
               NEW p \in BakedPaths
        PROVE  Keeps(copy', copy, p)
    <3>1. PICK old : /\ old = (IF removed THEN Rm(copy, d.path) ELSE copy)
                     /\ copy' = Inject(old, d.path, "decoy", 1, d.mode)
      BY <2>3
    <3>2. Keeps(old, copy, p)
      <4>1. CASE removed
        BY <4>1, <3>1, <2>1, RmKeeps
      <4>2. CASE ~removed
        BY <4>2, <3>1 DEF Keeps
      <4> QED BY <4>1, <4>2
    <3>3. Keeps(copy', old, p)
      BY <3>1, <2>1, InjectKeeps
    <3> QED BY <3>2, <3>3 DEF Keeps
  <2> QED BY <2>2, <2>3 DEF InjectDecoy
<1>4. BakerTypes'
  <2>1. decoy' \in Nat \ {0}
    <3>1. decoy \in Nat \ {0}
      BY <1>1 DEF BakerTypes
    <3> QED BY <3>1, <1>2
  <2> QED BY <1>1, <1>2, <2>1 DEF BakerTypes, Stages
<1>5. PlaceInv'
  BY <1>2 DEF BakerInv, PlaceInv, Within, Extent, SystemExtent
<1>6. CopyInv'
  <2>1. FlagPath \in BakedPaths /\ DaemonPath \in BakedPaths
    BY DEF BakedPaths
  <2>2. DOMAIN copy' = Offsets'
    BY <1>1, <1>2, <1>3, <2>1 DEF Keeps, Offsets, Extent, SystemExtent
  <2>3. bake.script # "bake_decoys" => HasFlag(copy, bake.flag)'
    <3>1. bake.script # "bake_decoys" => HasFlag(copy, bake.flag)
      BY <1>1 DEF BakerInv, CopyInv
    <3> QED BY <3>1, <1>2, <1>3, <2>1, KeepsFlag
  <2>4. bake.daemon => HasDaemon(copy)'
    <3>1. bake.daemon => HasDaemon(copy)
      BY <1>1 DEF BakerInv, CopyInv
    <3> QED BY <3>1, <1>3, <2>1, KeepsDaemon
  <2>5. bake.script = "bake_decoys" => \A p \in BakedPaths : Keeps(copy', OldSystem, p)
    <3>1. bake.script = "bake_decoys" => \A p \in BakedPaths : Keeps(copy, OldSystem, p)
      BY <1>1 DEF BakerInv, CopyInv
    <3> QED BY <3>1, <1>3 DEF Keeps
  <2>6. OldSystem' = OldSystem
    BY <1>2 DEF OldSystem, Offsets, Extent, SystemExtent
  <2> QED BY <1>1, <1>2, <2>2, <2>3, <2>4, <2>5, <2>6 DEF CopyInv
<1>7. ReportInv' /\ WrittenInv' /\ EndedInv'
  BY <1>1, <1>2 DEF ReportInv, WrittenInv, EndedInv
<1>8. DaemonInImage'
  BY <1>2 DEF BakerInv, DaemonInImage
<1> QED
  BY <1>4, <1>5, <1>6, <1>7, <1>8 DEF BakerInv

\* The write-back changes cells of the partition only.
LEMMA PatchedWithin ==
    ASSUME BakerInv, Tabled(tables), NEW n \in Nat, n <= RangeSize
    PROVE  /\ DOMAIN Patched(n) = Cells
           /\ \A c \in Cells : Patched(n)[c] # image[c] => c \in Within
<1>1. RangeStart = Extent.at /\ RangeSize = Extent.size /\ Extent.at \in Nat /\ Extent.size \in Nat
  BY PartitionFits DEF BakerInv
<1>2. RangeStart..(RangeStart + n - 1) \subseteq Within
  BY <1>1 DEF Within
<1> QED
  BY <1>2 DEF Patched

\* The write-back, whole.
LEMMA WriteBackStep == ASSUME BakerInv, WriteBack PROVE BakerInv'
<1>1. /\ baking = "write" /\ BakerTypes /\ Tabled(tables) /\ DOMAIN copy = Offsets
      /\ image = earlier /\ report = ""
  BY DEF BakerInv, WriteBack, ReportInv, CopyInv
<1>2. /\ image' = Patched(RangeSize) /\ baking' = "verify"
      /\ UNCHANGED <<tables, bake, copy, decoy, report, factory, earlier, bakes>>
  BY DEF WriteBack
<1>3. RangeStart = Extent.at /\ RangeSize = Extent.size /\ Extent.at \in Nat /\ Extent.size \in Nat
  BY <1>1, PartitionFits
<1>4. Within' = Within /\ Extent' = Extent /\ Offsets' = Offsets /\ OldSystem' = OldSystem
  BY <1>2 DEF Within, Offsets, OldSystem, Extent, SystemExtent
<1>5. /\ DOMAIN image' = Cells
      /\ \A c \in Cells : image'[c] # image[c] => c \in Within
  <2>1. RangeSize \in Nat /\ RangeSize <= RangeSize
    BY <1>3
  <2>2. /\ DOMAIN Patched(RangeSize) = Cells
        /\ \A c \in Cells : Patched(RangeSize)[c] # image[c] => c \in Within
    BY <1>1, <2>1, PatchedWithin
  <2> QED BY <1>2, <2>2
<1>6. BakerTypes'
  BY <1>1, <1>2, <1>5 DEF BakerTypes, Stages
<1>7. PlaceInv'
  <2>1. \A c \in Cells : image[c] # factory[c] \/ earlier[c] # factory[c] => c \in Within
    BY DEF BakerInv, PlaceInv
  <2> QED BY <1>1, <1>2, <1>4, <1>5, <2>1 DEF PlaceInv
<1>8. WrittenInv'
  <2>1. Patched(RangeSize) = [c \in Cells |-> IF c \in Within THEN copy[c - Extent.at] ELSE earlier[c]]
    BY <1>1, <1>3 DEF Patched, Within
  <2> QED BY <1>2, <1>4, <2>1 DEF WrittenInv
<1>9. CopyInv'
  BY <1>1, <1>2, <1>4 DEF BakerInv, CopyInv, HasDaemon
<1>10. ReportInv' /\ EndedInv'
  BY <1>1, <1>2 DEF ReportInv, EndedInv
<1>11. DaemonInImage'
  BY <1>2 DEF BakerInv, DaemonInImage
<1> QED
  BY <1>6, <1>7, <1>8, <1>9, <1>10, <1>11 DEF BakerInv

\* What is read again is what was written, and so is reported.
LEMMA ReadAgainStep == ASSUME BakerInv, ReadAgain PROVE BakerInv'
<1>1. /\ baking = "verify" /\ BakerTypes /\ Tabled(tables) /\ DOMAIN copy = Offsets /\ report = ""
      /\ image = [c \in Cells |-> IF c \in Within THEN copy[c - Extent.at] ELSE earlier[c]]
  BY DEF BakerInv, ReadAgain, ReportInv, CopyInv, WrittenInv
<1>2. /\ baking' = "idle"
      /\ UNCHANGED <<tables, image, bake, copy, decoy, factory, earlier, bakes>>
  BY DEF ReadAgain
<1>3. FlagPath \in BakedPaths /\ DaemonPath \in BakedPaths
  BY DEF BakedPaths
<1>4. CASE bake.script = "bake_decoys"
  <2>1. report' \in {"success", "warned"}
    BY <1>4 DEF ReadAgain
  <2>2. \A p \in BakedPaths : Keeps(image, earlier, p)
    <3>1. \A p \in BakedPaths : Keeps(copy, OldSystem, p)
      BY <1>1, <1>4 DEF BakerInv, CopyInv
    <3> QED BY <1>1, <3>1, WrittenKeeps
  <2>3. EndedInv'
    BY <1>2, <1>4, <2>2 DEF EndedInv, Keeps
  <2>4. BakerTypes' /\ ReportInv'
    BY <1>1, <1>2, <2>1 DEF BakerTypes, ReportInv, Stages
  <2>5. PlaceInv'
    BY <1>2 DEF BakerInv, PlaceInv, Within, Extent, SystemExtent
  <2>6. CopyInv' /\ WrittenInv'
    BY <1>2 DEF CopyInv, WrittenInv
  <2>7. DaemonInImage'
    BY <1>2 DEF BakerInv, DaemonInImage
  <2> QED BY <2>3, <2>4, <2>5, <2>6, <2>7 DEF BakerInv
<1>5. CASE bake.script # "bake_decoys"
  <2>1. HasFlag(copy, bake.flag) /\ (bake.daemon => HasDaemon(copy))
    BY <1>1, <1>5 DEF BakerInv, CopyInv
  <2>2. PICK x \in DOMAIN copy : CellsOf(copy, FlagPath) = {x} /\ copy[x] = Cell(FlagPath, bake.flag, "0600")
    BY <2>1 DEF HasFlag
  <2>3. Holds(FlagPath, bake.flag, 1, "0600")
    <3>1. IsFiniteSet({x}) /\ Cardinality({x}) = 1
      BY FS_Singleton
    <3> QED BY <1>1, <1>3, <2>2, <3>1, WrittenHolds
  <2>4. bake.daemon => Holds(DaemonPath, "whisperd", DaemonCells, "0755")
    BY <1>1, <1>3, <2>1, WrittenHolds DEF HasDaemon
  <2>5. report' = "success"
    <3>1. RangeStart = Extent.at /\ RangeSize = Extent.size /\ x \in 0..(RangeSize - 1)
      BY <1>1, <2>2, PartitionFits DEF Offsets
    <3>2. x \in DOMAIN ReadBack /\ ReadBack[x] = image[Extent.at + x]
      BY <3>1 DEF ReadBack
    <3>3. image[Extent.at + x] = copy[x]
      BY <1>1, <1>3, <2>2, WrittenCells
    <3>4. ReadBack[x].path = FlagPath /\ ReadBack[x].data = bake.flag
      BY <2>2, <3>2, <3>3 DEF Cell
    <3> QED BY <1>5, <3>2, <3>4 DEF ReadAgain
  <2>6. EndedInv'
    <3>1. Holds(FlagPath, bake.flag, 1, "0600")'
      BY <1>2, <2>3 DEF Holds, CellsOf
    <3>2. bake'.daemon => Holds(DaemonPath, "whisperd", DaemonCells, "0755")'
      BY <1>2, <2>4 DEF Holds, CellsOf
    <3> QED BY <1>2, <1>5, <3>1, <3>2 DEF EndedInv
  <2>7. BakerTypes' /\ ReportInv'
    BY <1>1, <1>2, <2>5 DEF BakerTypes, ReportInv, Stages
  <2>8. PlaceInv'
    BY <1>2 DEF BakerInv, PlaceInv, Within, Extent, SystemExtent
  <2>9. CopyInv' /\ WrittenInv'
    BY <1>2 DEF CopyInv, WrittenInv
  <2>10. DaemonInImage'
    BY <1>2 DEF BakerInv, DaemonInImage
  <2> QED BY <2>6, <2>7, <2>8, <2>9, <2>10 DEF BakerInv
<1> QED
  BY <1>4, <1>5

\* A script is killed.
LEMMA InterruptedStep == ASSUME BakerInv, Interrupted PROVE BakerInv'
<1>1. CASE baking \notin {"idle", "torn", "verify"} /\ Die
  BY <1>1, DieStep
<1>2. ASSUME baking = "write", NEW n \in 1..(RangeSize - 1), image' = Patched(n),
             baking' = "torn", report' = "killed",
             UNCHANGED <<tables, bake, copy, decoy, factory, earlier, bakes>>
      PROVE  BakerInv'
  <2>1. BakerTypes /\ Tabled(tables)
    BY <1>2 DEF BakerInv, CopyInv
  <2>2. n \in Nat /\ n <= RangeSize
    <3>1. RangeSize \in Nat
      BY <2>1, PartitionFits
    <3> QED BY <3>1
  <2>3. /\ DOMAIN image' = Cells
        /\ \A c \in Cells : image'[c] # image[c] => c \in Within
    BY <1>2, <2>1, <2>2, PatchedWithin
  <2>4. BakerTypes'
    BY <1>2, <2>1, <2>3 DEF BakerTypes, Stages
  <2>5. PlaceInv'
    <3>1. \A c \in Cells : image[c] # factory[c] \/ earlier[c] # factory[c] => c \in Within
      BY DEF BakerInv, PlaceInv
    <3>2. Within' = Within
      BY <1>2 DEF Within, Extent, SystemExtent
    <3> QED BY <1>2, <2>1, <2>3, <3>1, <3>2 DEF PlaceInv
  <2>6. ReportInv' /\ CopyInv' /\ WrittenInv' /\ EndedInv'
    BY <1>2 DEF ReportInv, CopyInv, WrittenInv, EndedInv
  <2>7. DaemonInImage'
    BY <1>2 DEF BakerInv, DaemonInImage
  <2> QED BY <2>4, <2>5, <2>6, <2>7 DEF BakerInv
<1>3. ASSUME baking = "verify", baking' = "idle", report' = "killed",
             UNCHANGED <<tables, image, bake, copy, decoy, factory, earlier, bakes>>
      PROVE  BakerInv'
  <2>1. BakerTypes' /\ ReportInv' /\ CopyInv' /\ WrittenInv'
    BY <1>3 DEF BakerInv, BakerTypes, ReportInv, CopyInv, WrittenInv, Stages
  <2>2. PlaceInv'
    BY <1>3 DEF BakerInv, PlaceInv, Within, Extent, SystemExtent
  <2>3. EndedInv'
    <3>1. bake.script = "bake_decoys" => \A p \in BakedPaths : Keeps(copy, OldSystem, p)
      BY <1>3 DEF BakerInv, CopyInv
    <3>2. bake.script = "bake_decoys" => \A p \in BakedPaths : Keeps(image, earlier, p)
      BY <1>3, <3>1, WrittenKeeps
    <3> QED BY <1>3, <3>2 DEF EndedInv, Keeps
  <2>4. DaemonInImage'
    BY <1>3 DEF BakerInv, DaemonInImage
  <2> QED BY <2>1, <2>2, <2>3, <2>4 DEF BakerInv
<1> QED
  BY <1>1, <1>2, <1>3 DEF Interrupted

\* Every step of a script keeps it.
LEMMA BakerStep == BakerInv /\ [BakerNext]_bakerVars => BakerInv'
<1> SUFFICES ASSUME BakerInv, [BakerNext]_bakerVars PROVE BakerInv'
  OBVIOUS
<1>1. ASSUME NEW script \in {"bake_image", "bake_flag"}, NEW flag \in FlagValues,
             NEW daemon \in BOOLEAN, Begin(script, flag, daemon)
      PROVE  BakerInv'
  BY <1>1, BeginStep
<1>2. CASE Begin("bake_decoys", "", FALSE)
  BY <1>2, BeginStep
<1>3. CASE DecoysDone
  <2>1. /\ baking = "decoys" /\ baking' = "write" /\ BakerTypes /\ report = ""
        /\ UNCHANGED <<tables, image, bake, copy, decoy, report, factory, earlier, bakes>>
    BY <1>3 DEF DecoysDone, BakerInv, ReportInv
  <2>2. BakerTypes' /\ ReportInv' /\ WrittenInv' /\ EndedInv'
    BY <2>1 DEF BakerInv, BakerTypes, ReportInv, WrittenInv, EndedInv, Stages
  <2>3. PlaceInv'
    BY <2>1 DEF BakerInv, PlaceInv, Within, Extent, SystemExtent
  <2>4. CopyInv'
    <3>1. OldSystem' = OldSystem /\ Offsets' = Offsets
      BY <2>1 DEF OldSystem, Offsets, Extent, SystemExtent
    <3> QED BY <2>1, <3>1 DEF BakerInv, CopyInv, HasDaemon
  <2>5. DaemonInImage'
    BY <2>1 DEF BakerInv, DaemonInImage
  <2> QED BY <2>2, <2>3, <2>4, <2>5 DEF BakerInv
<1>4. CASE UNCHANGED bakerVars
  <2>1. UNCHANGED <<tables, image, bake, baking, copy, decoy, report, factory, earlier, bakes>>
    BY <1>4 DEF bakerVars
  <2>2. BakerTypes' /\ ReportInv'
    BY <2>1 DEF BakerInv, BakerTypes, ReportInv
  <2>3. PlaceInv' /\ WrittenInv'
    BY <2>1 DEF BakerInv, PlaceInv, WrittenInv, Within, Extent, SystemExtent
  <2>4. CopyInv'
    <3>1. OldSystem' = OldSystem /\ Offsets' = Offsets
      BY <2>1 DEF OldSystem, Offsets, Extent, SystemExtent
    <3> QED BY <2>1, <3>1 DEF BakerInv, CopyInv, HasDaemon
  <2>5. EndedInv'
    BY <2>1 DEF BakerInv, EndedInv, Holds, CellsOf
  <2>6. DaemonInImage'
    BY <2>1 DEF BakerInv, DaemonInImage
  <2> QED BY <2>2, <2>3, <2>4, <2>5, <2>6 DEF BakerInv
<1> QED
  BY <1>1, <1>2, <1>3, <1>4, CarveStep, InjectFlagStep, InjectDaemonStep, InjectDecoyStep,
     WriteBackStep, ReadAgainStep, InterruptedStep DEF BakerNext

\* A report is true of the image, whatever its tables, its free room and the order of the
\* scripts, and nothing but the system partition is ever touched.
THEOREM ReportsAreTrue == BakerSpec => []BakedAsReported
<1>1. BakerInv => BakedAsReported
  <2> SUFFICES ASSUME BakerInv PROVE BakedAsReported
    OBVIOUS
  <2>1. ASSUME bake.script = "bake_decoys", baking = "idle", NEW p \in BakedPaths
        PROVE  {image[i] : i \in CellsOf(image, p)} = {earlier[i] : i \in CellsOf(earlier, p)}
    <3>1. Keeps(image, earlier, p)
      BY <2>1 DEF BakerInv, EndedInv
    <3>2. CellsOf(image, p) = CellsOf(earlier, p) /\ \A i \in CellsOf(earlier, p) : image[i] = earlier[i]
      BY <3>1, KeepsCells
    <3> QED BY <3>2
  <2>2. /\ report = "success" /\ bake.script # "bake_decoys" =>
              /\ Holds(FlagPath, bake.flag, 1, "0600")
              /\ bake.daemon => Holds(DaemonPath, "whisperd", DaemonCells, "0755")
        /\ report = "died" => image = earlier
    BY DEF BakerInv, EndedInv, ReportInv
  <2>3. \A c \in Cells : image[c] # factory[c] =>
            c \in SystemExtent.at..(SystemExtent.at + SystemExtent.size - 1)
    BY DEF BakerInv, PlaceInv, Within, Extent
  <2> QED BY <2>1, <2>2, <2>3 DEF BakedAsReported
<1> QED
  BY <1>1, BakerStart, BakerStep, PTL DEF BakerSpec
===============================================================================
