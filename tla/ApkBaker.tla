------------------------------- MODULE ApkBaker -------------------------------
(***************************************************************************)
(* The app that the judge offers for download (judge/web.py and judge/apk. *)
(* py): when the judge starts, a thread copies the template archive with   *)
(* the backend's address in it, aligns and signs the copy, all of it under *)
(* _apk_lock; a download looks under the same lock where the result is.    *)
(*                                                                         *)
(* Downloads wait for the lock in the threads of the server's pool.  The   *)
(* copy outlives the process that made it, whole or not.                   *)
(***************************************************************************)
EXTENDS Naturals, Sequences, SequencesExt, FiniteSets

CONSTANTS
    Downloads,    \* requests for the app
    PoolThreads,  \* threads that run them
    Backends,     \* values of PUBLIC_BACKEND_URL
    Address,      \* netloc of each
    Archive,      \* the template: a sequence of [name, data]
    MaxStarts     \* bound on the processes

ConfigEntry == "assets/whisper_config.json"

\* The template is an installable app: it has no two entries of one name that differ, except
\* perhaps the configuration, which is replaced.
ASSUME ApkAssumption ==
    /\ PoolThreads \in Nat \ {0}
    /\ Archive \in Seq([name : STRING, data : {Archive[i].data : i \in DOMAIN Archive}])
    /\ \A i, j \in DOMAIN Archive :
           Archive[i].name = Archive[j].name /\ Archive[i].name # ConfigEntry
               => Archive[i].data = Archive[j].data

VARIABLES
    backend,     \* this process's PUBLIC_BACKEND_URL
    apkStage,    \* of the bake thread: "new", "patch", "align", "sign", "done"
    apkLock,     \* who holds _apk_lock, Nobody otherwise
    bakedPath,   \* _baked_apk_path: NoPath, "template" or "out"
    apkOut,      \* the file at out_path: its entries, whole or not
    download,    \* of each request: "new", "waiting", "looked", "served", "refused", "lost"
    looked,      \* ... the path it has read
    served,      \* ... what it was served: [backend, archive]
    starts       \* processes so far

apkVars == <<backend, apkStage, apkLock, bakedPath, apkOut, download, looked, served, starts>>

Nobody == "nobody"
NoPath == "none"
NoArchive == [entries |-> <<>>, whole |-> FALSE]
Given(archive) == [backend |-> backend, archive |-> archive]

-----------------------------------------------------------------------------
(* bake_apk. *)

\* read(name) gives the last entry of that name.
DataOf(archive, name) ==
    archive[CHOOSE i \in DOMAIN archive :
                /\ archive[i].name = name
                /\ \A j \in (i + 1)..Len(archive) : archive[j].name # name].data

ConfigOf(url) == [name |-> ConfigEntry, data |-> <<url, Address[url]>>]

\* _replace_zip_entry: everything but the configuration, and then the new one.
Patch(archive, url) ==
    LET copied[i \in 0..Len(archive)] ==
            IF i = 0 THEN <<>>
            ELSE IF archive[i].name = ConfigEntry THEN copied[i - 1]
            ELSE Append(copied[i - 1], [name |-> archive[i].name,
                                        data |-> DataOf(archive, archive[i].name)])
    IN  Append(copied[Len(archive)], ConfigOf(url))

\* Without a template there is nothing to offer.
BeginBake ==
    /\ apkStage = "new"
    /\ apkLock = Nobody
    /\ \/ apkStage' = "patch" /\ apkLock' = "bake"
       \/ apkStage' = "done" /\ UNCHANGED apkLock
    /\ UNCHANGED <<backend, bakedPath, apkOut, download, looked, served, starts>>

PatchAndAlign ==
    /\ apkStage \in {"patch", "align"}
    /\ apkStage' = IF apkStage = "patch" THEN "align" ELSE "sign"
    \* The signer has opened its output when the bake can next be interrupted.
    /\ apkOut' = IF apkStage = "align" THEN NoArchive ELSE apkOut
    /\ UNCHANGED <<backend, apkLock, bakedPath, download, looked, served, starts>>

SignApk ==
    /\ apkStage = "sign"
    /\ apkOut' = [entries |-> Patch(Archive, backend), whole |-> TRUE]
    /\ bakedPath' = "out"
    /\ apkStage' = "done"
    /\ apkLock' = Nobody
    /\ UNCHANGED <<backend, download, looked, served, starts>>

\* The template is offered instead.
FallBack ==
    /\ bakedPath' = "template"
    /\ apkStage' = "done"
    /\ apkLock' = Nobody
    /\ UNCHANGED <<backend, apkOut, download, looked, served, starts>>

\* Both tools are looked for before anything else is done.
ToolMissing == apkStage = "patch" /\ FallBack

\* The template is no archive, or a tool ends with an error, perhaps after it has written.
ToolFails == apkStage \in {"align", "sign"} /\ FallBack

-----------------------------------------------------------------------------
(* download_apk. *)

InPool == {d \in Downloads : download[d] \in {"waiting", "looked"}}

BeginDownload(d) ==
    /\ download[d] = "new"
    /\ Cardinality(InPool) < PoolThreads
    /\ download' = [download EXCEPT ![d] = "waiting"]
    /\ UNCHANGED <<backend, apkStage, apkLock, bakedPath, apkOut, looked, served, starts>>

\* Mutant: the path is where the file will be, and the lock is not taken.
LookAhead(d) ==
    /\ download[d] = "waiting"
    /\ download' = [download EXCEPT ![d] = "looked"]
    /\ looked' = [looked EXCEPT ![d] = IF apkStage = "new" THEN NoPath ELSE "out"]
    /\ UNCHANGED <<backend, apkStage, apkLock, bakedPath, apkOut, served, starts>>

Look(d) ==
    /\ download[d] = "waiting"
    /\ apkLock = Nobody
    /\ download' = [download EXCEPT ![d] = "looked"]
    /\ looked' = [looked EXCEPT ![d] = bakedPath]
    /\ UNCHANGED <<backend, apkStage, apkLock, bakedPath, apkOut, served, starts>>

\* 503 when there is nothing yet; otherwise the file as it is now.
ServeApk(d) ==
    /\ download[d] = "looked"
    /\ download' = [download EXCEPT ![d] = IF looked[d] = NoPath THEN "refused" ELSE "served"]
    /\ served' = [served EXCEPT ![d] =
                     CASE looked[d] = "template" -> Given([entries |-> Archive, whole |-> TRUE])
                       [] looked[d] = "out"      -> Given(apkOut)
                       [] OTHER                  -> @]
    /\ UNCHANGED <<backend, apkStage, apkLock, bakedPath, apkOut, looked, starts>>

-----------------------------------------------------------------------------
\* The judge stops at any point and is started again, perhaps for another backend and
\* perhaps in a new container.
RestartJudge ==
    /\ starts < MaxStarts
    /\ starts' = starts + 1
    /\ backend' \in Backends
    /\ apkStage' = "new"
    /\ apkLock' = Nobody
    /\ bakedPath' = NoPath
    /\ apkOut' \in {apkOut, NoArchive}
    /\ download' = [d \in Downloads |-> IF d \in InPool THEN "lost" ELSE download[d]]
    /\ looked' = [d \in Downloads |-> NoPath]
    /\ UNCHANGED served

-----------------------------------------------------------------------------
ApkInit ==
    /\ backend \in Backends
    /\ apkStage = "new"
    /\ apkLock = Nobody
    /\ bakedPath = NoPath
    /\ apkOut = NoArchive
    /\ download = [d \in Downloads |-> "new"]
    /\ looked = [d \in Downloads |-> NoPath]
    /\ served = [d \in Downloads |-> Given(NoArchive)]
    /\ starts = 1

ApkNext ==
    \/ BeginBake
    \/ PatchAndAlign
    \/ SignApk
    \/ ToolMissing
    \/ ToolFails
    \/ \E d \in Downloads : BeginDownload(d) \/ Look(d) \/ ServeApk(d)
    \/ RestartJudge

ApkSpec == ApkInit /\ [][ApkNext]_apkVars

-----------------------------------------------------------------------------
\* The configuration is there once, with this content.
OneConfig(entries, config) ==
    \E i \in DOMAIN entries :
        /\ entries[i] = config
        /\ \A j \in DOMAIN entries : entries[j].name = config.name => j = i

\* Whoever downloads the app, and whenever in a bake or after a restart in the middle of one,
\* gets a whole archive: the template, or a copy with the template's other entries and one
\* configuration, which names the backend of the process that served it.
DownloadsAreWhole ==
    \A d \in Downloads : download[d] = "served" =>
        LET archive == served[d].archive
            others == {e \in ToSet(Archive) : e.name # ConfigEntry}
        IN  /\ archive.whole
            /\ others \subseteq ToSet(archive.entries)
            /\ archive.entries # Archive =>
                   OneConfig(archive.entries, ConfigOf(served[d].backend))
=============================================================================
