----------------------------- MODULE ImageBaker -----------------------------
(***************************************************************************)
(* The scripts that put files into the system partition of an Android      *)
(* image, offline: bake_image.py (flag, whisperd, decoys), bake_flag.py    *)
(* and bake_decoys.py.  Each finds the partition in the tables of the      *)
(* image, carves its ext4 out with dd, edits the copy with debugfs, writes *)
(* it back in place, and reads it again.                                   *)
(*                                                                         *)
(* An image is an array of 512-byte cells.  A cell of the file system is   *)
(* its superblock, free, or holds a part of a file.                        *)
(***************************************************************************)
EXTENDS Naturals, Sequences, FiniteSets

CONSTANTS Images,       \* images as they come: tables, cells and directories
          ImageCells,   \* size of an image
          BlockCells,   \* cells of a block of 4096 bytes
          DaemonCells,  \* size of whisperd
          Spare,        \* free space bake_image asks for at least (1 MiB)
          FlagSpare,    \* and bake_flag (8 blocks)
          DecoyFiles,   \* DECOY_FILES: [path, parent, mode], a cell each
          FlagValues,
          MaxBakes      \* bound on the runs of the scripts

VARIABLES
    tables,    \* the partition tables and directories of the image
    image,     \* its cells
    bake,      \* the script that runs: [script, flag, daemon], or the last one
    baking,     \* where it is
    copy,      \* the carved file system
    decoy,     \* the next decoy
    report,    \* how the last script ended: "", "success", "warned",
               \* "died", "killed"
    factory,   \* the cells at the beginning
    earlier,   \* the cells when this script began
    bakes

bakerVars == <<tables, image, bake, baking, copy, decoy, report, factory,
               earlier, bakes>>

Cells == 0..(ImageCells - 1)
Cell(path, data, mode) == [path |-> path, data |-> data, mode |-> mode]
FreeCell == Cell("free", "", "")
Superblock == Cell("superblock", "", "")
FlagPath == "/flag.txt"
DaemonPath == "/system/bin/whisperd"
BakedPaths == {FlagPath, DaemonPath}

-----------------------------------------------------------------------------
(* Where the file system is. *)

\* Later entries of a name win; empty ones are skipped.
Gpt(t, name) == {i \in DOMAIN t.gpt : /\ t.gpt[i].name = name
                                      /\ \A j \in DOMAIN t.gpt :
                                             j > i => t.gpt[j].name # name}

SuperAt(t) == t.gpt[CHOOSE i \in Gpt(t, "super") : TRUE].first

\* The extents of a logical partition that lie on the disk (target type 0).
LinearExtents(t, part) ==
    LET mine == SubSeq(t.extents, part.first + 1, part.first + part.num)
    IN  SelectSeq(mine, LAMBDA e : e.type = 0)

\* The first partition "system" that has extents, and its first extent.
SystemParts(t) == SelectSeq(t.parts,
                            LAMBDA p : p.name = "system" /\ LinearExtents(t, p) # <<>>)
ExtentOf(t) ==
    LET e == LinearExtents(t, SystemParts(t)[1])[1]
    IN  [at |-> SuperAt(t) + e.data, size |-> e.sectors]
SystemExtent == ExtentOf(tables)

\* Every die on the way through the tables, and the magic of the superblock.
Tabled(t) == t.efi /\ Gpt(t, "super") # {} /\ t.lp /\ SystemParts(t) # <<>>
Located == Tabled(tables) /\ image[SystemExtent.at] = Superblock

\* The superblock's count of free blocks.
FreeShown == Cardinality({i \in SystemExtent.at..(SystemExtent.at + SystemExtent.size - 1) :
                             image[i] = FreeCell})

\* dd works in blocks of 4096 bytes, or byte by byte if the extent is not aligned.
DdRange ==
    LET block == IF SystemExtent.at % BlockCells # 0 \/ SystemExtent.size % BlockCells # 0
                 THEN 1 ELSE BlockCells
    IN  [block |-> block, skip |-> SystemExtent.at \div block,
         count |-> SystemExtent.size \div block]
RangeStart == DdRange.skip * DdRange.block
RangeSize == DdRange.count * DdRange.block

\* dd if=image skip= count=
ReadBack == [i \in 0..(RangeSize - 1) |-> image[RangeStart + i]]

\* A partition that is in the tables lies in the image, and the files are in it.  No decoy
\* has the name of what is baked for real.
ASSUME BakerAssumption ==
    /\ {ImageCells, Spare, FlagSpare} \subseteq Nat /\ {BlockCells, DaemonCells} \subseteq Nat \ {0}
    /\ DecoyFiles \in Seq({DecoyFiles[k] : k \in DOMAIN DecoyFiles})
    /\ \A k \in DOMAIN DecoyFiles : DecoyFiles[k].path \notin BakedPaths
    /\ \A i \in Images :
           /\ DOMAIN i.cells = Cells
           /\ Tabled(i.tables) =>
                  LET e == ExtentOf(i.tables)
                  IN  /\ {e.at, e.size} \subseteq Nat /\ e.at + e.size <= ImageCells
                      /\ \A c \in Cells \ (e.at..(e.at + e.size - 1)) : i.cells[c].path \notin BakedPaths

-----------------------------------------------------------------------------
(* debugfs on the copy. *)

CellsOf(fs, path) == {i \in DOMAIN fs : fs[i].path = path}
Free(fs) == CellsOf(fs, "free")

Rm(fs, path) == [i \in DOMAIN fs |-> IF fs[i].path = path THEN FreeCell ELSE fs[i]]

\* The n lowest free cells, or all there are.
Allocated(fs, n) == {i \in Free(fs) : Cardinality({j \in Free(fs) : j < i}) < n}

\* write: nothing if the name exists; as much of the file as there is room for.
Write(fs, path, data, size) ==
    IF CellsOf(fs, path) # {} THEN fs
    ELSE [i \in DOMAIN fs |-> IF i \in Allocated(fs, size) THEN Cell(path, data, "0644")
                              ELSE fs[i]]

\* sif mode, uid and gid.
SetMode(fs, path, mode) ==
    [i \in DOMAIN fs |-> IF fs[i].path = path THEN [fs[i] EXCEPT !.mode = mode] ELSE fs[i]]

Inject(fs, path, data, size, mode) == SetMode(Write(fs, path, data, size), path, mode)

\* stat and cat after a write: mode, owner and content of the flag.
HoldsFlag(fs, value) ==
    \E i \in DOMAIN fs : fs[i] = Cell(FlagPath, value, "0600")

-----------------------------------------------------------------------------
(* The scripts. *)

\* die: the temporary files are removed, the image is left as it is.
Die ==
    /\ baking' = "idle" /\ report' = "died"
    /\ UNCHANGED <<tables, image, bake, copy, decoy, factory, earlier, bakes>>

Begin(script, flag, daemon) ==
    /\ baking = "idle" /\ bakes < MaxBakes
    /\ script # "bake_image" => ~daemon
    /\ bake' = [script |-> script, flag |-> flag, daemon |-> daemon]
    /\ baking' = "locate"
    /\ report' = "" /\ decoy' = 1
    /\ earlier' = image
    /\ bakes' = bakes + 1
    /\ UNCHANGED <<tables, image, copy, factory>>

\* Mutant: whisperd is not counted.
NeededForFlag ==
    CASE bake.script = "bake_flag"   -> FlagSpare
      [] bake.script = "bake_decoys" -> 0
      [] bake.script = "bake_image"  -> Spare

\* The free blocks the superblock must show.
Needed ==
    CASE bake.script = "bake_flag"   -> FlagSpare
      [] bake.script = "bake_decoys" -> 0
      [] bake.script = "bake_image"  ->
             IF bake.daemon /\ 2 * DaemonCells > Spare THEN 2 * DaemonCells ELSE Spare

Carve ==
    /\ baking = "locate"
    /\ IF Located /\ FreeShown >= Needed
       THEN /\ copy' = ReadBack
            /\ baking' = IF bake.script = "bake_decoys" THEN "decoys" ELSE "flag"
            /\ UNCHANGED <<tables, image, bake, decoy, report, factory, earlier, bakes>>
       ELSE Die

\* remove_if_present, write and sif, stat and cat.
InjectFlag ==
    /\ baking = "flag"
    /\ LET fs == Inject(Rm(copy, FlagPath), FlagPath, bake.flag, 1, "0600")
       IN  IF HoldsFlag(fs, bake.flag)
           THEN /\ copy' = fs
                /\ baking' = CASE bake.script = "bake_flag" -> "write"
                              [] bake.daemon               -> "daemon"
                              [] OTHER                     -> "decoys"
                /\ UNCHANGED <<tables, image, bake, decoy, report, factory,
                               earlier, bakes>>
           ELSE Die

\* Of whisperd only the mode and the owner are looked at.
InjectDaemon ==
    /\ baking = "daemon"
    /\ copy' = Inject(Rm(copy, DaemonPath), DaemonPath, "whisperd", DaemonCells, "0755")
    /\ baking' = "decoys"
    /\ UNCHANGED <<tables, image, bake, decoy, report, factory, earlier, bakes>>

\* A decoy is skipped if its directory is missing or debugfs fails; an old one
\* that could not be removed stays.
InjectDecoy ==
    /\ baking = "decoys" /\ decoy <= Len(DecoyFiles)
    /\ LET d == DecoyFiles[decoy]
       IN  \/ UNCHANGED copy
           \/ /\ d.parent \in tables.dirs
              /\ \E removed \in BOOLEAN :
                     copy' = Inject(IF removed THEN Rm(copy, d.path) ELSE copy,
                                    d.path, "decoy", 1, d.mode)
    /\ decoy' = decoy + 1
    /\ UNCHANGED <<tables, image, bake, baking, report, factory, earlier, bakes>>

DecoysDone ==
    /\ baking = "decoys" /\ decoy > Len(DecoyFiles)
    /\ baking' = "write"
    /\ UNCHANGED <<tables, image, bake, copy, decoy, report, factory, earlier, bakes>>

\* The image with the first n cells of the copy in their place.
Patched(n) == [i \in Cells |-> IF i \in RangeStart..(RangeStart + n - 1)
                               THEN copy[i - RangeStart] ELSE image[i]]

\* dd of=image seek= conv=notrunc, in place.
WriteBack ==
    /\ baking = "write"
    /\ image' = Patched(RangeSize)
    /\ baking' = "verify"
    /\ UNCHANGED <<tables, bake, copy, decoy, report, factory, earlier, bakes>>

\* The decoys are compared by size; none of it makes bake_decoys fail.
DecoysThere(fs) == \A k \in DOMAIN DecoyFiles : CellsOf(fs, DecoyFiles[k].path) # {}

ReadAgain ==
    /\ baking = "verify"
    /\ baking' = "idle"
    /\ report' = IF bake.script = "bake_decoys"
                 THEN IF DecoysThere(ReadBack) THEN "success" ELSE "warned"
                 ELSE IF \E i \in DOMAIN ReadBack : /\ ReadBack[i].path = FlagPath
                                                    /\ ReadBack[i].data = bake.flag
                 THEN "success" ELSE "died"
    /\ UNCHANGED <<tables, image, bake, copy, decoy, factory, earlier, bakes>>

\* A script is killed, or one of its commands fails: in the middle of the
\* write-back the image is lost.
Interrupted ==
    \/ baking \notin {"idle", "torn", "verify"} /\ Die
    \/ /\ baking = "write"
       /\ \E n \in 1..(RangeSize - 1) : image' = Patched(n)
       /\ baking' = "torn" /\ report' = "killed"
       /\ UNCHANGED <<tables, bake, copy, decoy, factory, earlier, bakes>>
    \/ /\ baking = "verify"
       /\ baking' = "idle" /\ report' = "killed"
       /\ UNCHANGED <<tables, image, bake, copy, decoy, factory, earlier, bakes>>

-----------------------------------------------------------------------------
BakerInit ==
    /\ \E i \in Images : tables = i.tables /\ image = i.cells
    /\ bake = [script |-> "none", flag |-> "", daemon |-> FALSE]
    /\ baking = "idle" /\ copy = <<>> /\ decoy = 1 /\ report = ""
    /\ factory = image /\ earlier = image
    /\ bakes = 0

BakerNext ==
    \/ \E script \in {"bake_image", "bake_flag"}, flag \in FlagValues, daemon \in BOOLEAN :
           Begin(script, flag, daemon)
    \/ Begin("bake_decoys", "", FALSE)
    \/ Carve \/ InjectFlag \/ InjectDaemon \/ InjectDecoy \/ DecoysDone
    \/ WriteBack \/ ReadAgain \/ Interrupted

BakerSpec == BakerInit /\ [][BakerNext]_bakerVars

-----------------------------------------------------------------------------
\* Of path the image holds this file, whole and with this mode.
Holds(path, data, size, mode) ==
    LET fs == CellsOf(image, path)
    IN  Cardinality(fs) = size /\ \A i \in fs : image[i] = Cell(path, data, mode)

\* An image is what its baker reported.  A script that says SUCCESS has left the
\* new flag, and whisperd whole, though nothing compares whisperd with its source
\* (bake_image.py:244) and the file system may be nearly full; one that died has
\* changed nothing; and no script, finished, killed or failed in the middle of
\* its write-back, has touched a cell outside the system partition, whose place
\* is worked out in three scripts from tables of other people's making.
BakedAsReported ==
    /\ report = "success" /\ bake.script # "bake_decoys" =>
           /\ Holds(FlagPath, bake.flag, 1, "0600")
           /\ bake.daemon => Holds(DaemonPath, "whisperd", DaemonCells, "0755")
    /\ report = "died" => image = earlier
    /\ bake.script = "bake_decoys" =>
           \A p \in BakedPaths : baking = "idle" =>
               {image[i] : i \in CellsOf(image, p)} = {earlier[i] : i \in CellsOf(earlier, p)}
    /\ \A i \in Cells :
           image[i] # factory[i] =>
               i \in SystemExtent.at..(SystemExtent.at + SystemExtent.size - 1)
=============================================================================
