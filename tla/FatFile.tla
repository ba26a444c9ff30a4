-------------------------------- MODULE FatFile --------------------------------
(* writeDataToSD (src/buddy1/sd_card.c) through FatFs (ff.c) to the sectors of a   *)
(* FAT32 card: the one file the program writes.  A step makes at most one          *)
(* disk_write, power may fail between any two steps, and a disk access may fail.   *)
(* A sector is old or new, never torn.  A file is a sequence of units, a line is   *)
(* LineUnits of them, at most a sector, and so is one f_write of f_printf.         *)
(* Left out: exFAT, the FAT's second copy (never read), other files' writes, and   *)
(* a root directory of more than one sector.                                       *)
EXTENDS Integers, FiniteSets, Sequences

CONSTANTS
  NClusters,                    \* the clusters are 2 .. NClusters + 1
  FatEntries,                   \* FAT entries in a sector: 128
  ClusterSectors, SectorUnits,  \* csize and SS(fs)
  LineUnits,
  Volumes,                      \* the cards to start from
  NoEntry, NoFile,
  MaxLines, MaxFaults, MaxCrashes   \* bounds of a behaviour

Clusters == 2 .. NClusters + 1
EOC == NClusters + 2            \* not below n_fatent: the last link of a chain
Free == 0
Unknown == NClusters + 1        \* a free count FSInfo does not give
ClusterUnits == ClusterSectors * SectorUnits
Sectors == Clusters \X (0 .. ClusterSectors - 1)
NoSector == <<0, 0>>
Blank == [i \in 0 .. SectorUnits - 1 |-> 0]
Buffers == [0 .. SectorUnits - 1 -> Int]
Fats == [Clusters -> {Free} \cup Clusters \cup {EOC}]
Entries == [sclust : {0} \cup Clusters, size : Nat]
Cards == [fat : Fats, dir : Entries \cup {NoEntry}, free : 0 .. Unknown,
          last : 0 .. EOC, data : [Sectors -> Buffers]]

FatSect(c) == c \div FatEntries \* the sector of FAT that holds an entry, from fatbase
DirSect == -1                   \* the sector of the directory
Elsewhere == -2                 \* any other, or none

(* Every link leads to a cluster in use, no two links to the same, and none to the *)
(* first cluster of the file.                                                      *)
LinksAllocatedIn(fat) == \A c \in Clusters : fat[c] \in Clusters => fat[fat[c]] # Free
LinksDistinct(fat) == \A b, c \in Clusters : fat[b] \in Clusters /\ fat[b] = fat[c] => b = c
HeadUnlinked(fat, dir) ==
  dir # NoEntry => \A c \in Clusters : fat[c] \in Clusters => fat[c] # dir.sclust
Sized(dir) == dir # NoEntry /\ dir.size > 0 => dir.sclust # 0

(* A count of the free clusters, if there is one, is not below their number.       *)
FreeClusters(fat) == {c \in Clusters : fat[c] = Free}
Covers(free, fat) == free <= NClusters => free >= Cardinality(FreeClusters(fat))

ASSUME FatAssumption ==
  /\ NClusters \in Nat \ {0} /\ FatEntries \in Nat \ {0}
  /\ ClusterSectors \in Nat \ {0} /\ SectorUnits \in Nat \ {0}
  /\ LineUnits \in 1 .. SectorUnits
  /\ MaxLines \in Nat /\ MaxFaults \in Nat /\ MaxCrashes \in Nat
  /\ NoEntry \notin Entries
  /\ \A v \in Volumes :
       /\ v \in Cards
       /\ LinksAllocatedIn(v.fat) /\ LinksDistinct(v.fat) /\ HeadUnlinked(v.fat, v.dir)
       /\ Sized(v.dir)

ASSUME CountAssumption == \A v \in Volumes : Covers(v.free, v.fat)

VARIABLES
  card,      \* what is on the card: FAT, entry of the file, FSInfo's counts, data
  meta,      \* FAT and entry as the program sees them, through the window
  win,       \* the window: its sector, and wflag
  vol,       \* FATFS: mounted, free_clst, last_clst, and whether FSInfo is behind
  fp,        \* FIL: the open file
  lock,      \* Files[] holds the file, open for writing
  pc,        \* where writeDataToSD, or its caller, is
  call,      \* its arguments, and the variables of the functions it is in
  lines,     \* history: how many lines it was called for
  faults, crashes, \* how many there have been
  truncated  \* history: clusters of the file have been freed

fatVars == <<card, meta, win, vol, fp, lock, pc, call, lines, faults, crashes, truncated>>
bounds == <<lines, faults, crashes>>

-----------------------------------------------------------------------------
(* The disk access window.                                                     *)

(* What the card holds once the window is written back.                        *)
Flushed ==
  IF ~win.dirty THEN card
  ELSE IF win.sect = DirSect THEN [card EXCEPT !.dir = meta.dir]
  ELSE [card EXCEPT !.fat =
          [c \in Clusters |-> IF FatSect(c) = win.sect THEN meta.fat[c] ELSE card.fat[c]]]

InDir == {"probe", "loading", "open", "syncdir"}
InChain == {"seek", "follow", "link"}
InSearch == {"next", "scan", "mark", "free"}

Needed ==
  IF pc \in InDir THEN DirSect
  ELSE FatSect(IF pc \in InChain THEN fp.clust ELSE call.ncl)

At(where) == pc = where /\ win.sect = Needed

PutFat(c, val) ==
  /\ meta' = [meta EXCEPT !.fat[c] = val]
  /\ win' = [win EXCEPT !.dirty = TRUE]

PutEntry(sclust, size) ==
  /\ meta' = [meta EXCEPT !.dir = [sclust |-> sclust, size |-> size]]
  /\ win' = [win EXCEPT !.dirty = TRUE]

-----------------------------------------------------------------------------
(* How the functions end.                                                      *)

(* writeDataToSD truncates in a first open and close, if it does, and writes in *)
(* a second: what becomes of the first does not matter to it.                   *)
Ends(ok) ==
  IF call.stage = 1
  THEN pc' = "open" /\ call' = [call EXCEPT !.stage = 2]
  ELSE pc' = "saving" /\ call' = [call EXCEPT !.ok = @ /\ ok]

OpenFails == Ends(FALSE) /\ UNCHANGED fp
SeekFails == OpenFails /\ lock' = FALSE

(* f_close gives the file free only if f_sync succeeded.                        *)
Closed(ok) == Ends(ok) /\ lock' = (lock /\ ~ok) /\ UNCHANGED fp

WriteFails == pc' = "close" /\ call' = [call EXCEPT !.ok = FALSE] /\ UNCHANGED <<fp, lock>>
DiskFull == /\ pc' = "close" /\ call' = [call EXCEPT !.ok = FALSE]
            /\ fp' = [fp EXCEPT !.modified = TRUE] /\ UNCHANGED lock
Freed == /\ pc' = "close" /\ fp' = [fp EXCEPT !.sclust = 0, !.size = 0, !.modified = TRUE]
         /\ UNCHANGED <<call, lock>>

(* Whether there is a header to write: the file could not be opened to be read. *)
Probed(opened) ==
  /\ IF opened THEN pc' = "saving" /\ UNCHANGED <<call, lines>>
     ELSE /\ lines' = lines + 1 /\ pc' = "open"
          /\ call' = [call EXCEPT !.append = FALSE, !.stage = 1, !.left = LineUnits, !.ok = TRUE]
  /\ UNCHANGED <<fp, lock>>

(* A disk access failed where pc is.                                            *)
Fails ==
  \/ pc = "probe" /\ Probed(FALSE)
  \/ pc = "loading" /\ pc' = "idle" /\ UNCHANGED <<fp, lock, call, lines>>
  \/ pc = "open" /\ OpenFails /\ UNCHANGED <<lock, lines>>
  \/ pc \in {"seek", "load"} /\ SeekFails /\ UNCHANGED lines
  \/ pc = "free" /\ Freed /\ UNCHANGED lines
  \/ pc \in {"follow", "next", "scan", "mark", "link", "flush"} /\ WriteFails /\ UNCHANGED lines
  \/ pc \in {"close", "syncdir", "syncwin"} /\ Closed(FALSE) /\ UNCHANGED lines

Fault == faults < MaxFaults /\ faults' = faults + 1

-----------------------------------------------------------------------------
(* disk_write and disk_read.  A write that fails may have been made.            *)

MoveWindow ==
  /\ pc \in InDir \cup InChain \cup InSearch
  /\ win.sect # Needed
  /\ \/ card' = Flushed /\ win' = [sect |-> Needed, dirty |-> FALSE]
        /\ UNCHANGED <<fp, lock, pc, call, lines, faults>>
     \/ card' = Flushed /\ win' = [sect |-> Elsewhere, dirty |-> FALSE]   \* disk_read failed
        /\ Fault /\ Fails
     \/ win.dirty /\ card' \in {card, Flushed} /\ UNCHANGED win           \* disk_write failed
        /\ Fault /\ Fails
  /\ UNCHANGED <<meta, vol, crashes, truncated>>

(* initialiseSD: mount_volume reads FSInfo, and keeps it up to date if it could     *)
(* read it.  If the mount fails main loops for ever.                               *)
Informed == [free |-> card.free, last |-> card.last, behind |-> FALSE, kept |-> TRUE]
Uninformed == [free |-> Unknown, last |-> EOC, behind |-> FALSE, kept |-> FALSE]

Mount ==
  /\ pc = "boot"
  /\ \/ vol' = Informed /\ pc' = "idle" /\ UNCHANGED faults
     \/ vol' = Uninformed /\ pc' = "idle" /\ Fault
     \/ UNCHANGED vol /\ pc' = "halted" /\ Fault
  /\ UNCHANGED <<card, meta, win, fp, lock, call, lines, crashes, truncated>>

Halted == pc = "halted" /\ UNCHANGED fatVars

-----------------------------------------------------------------------------
(* The caller: save_pulses_to_file and load_pulses_from_file.                  *)

BeginSave ==
  /\ pc = "idle" /\ lines < MaxLines
  /\ pc' = "probe"
  /\ UNCHANGED <<card, meta, win, vol, fp, lock, call, bounds, truncated>>

Probe ==
  /\ At("probe")
  /\ Probed(meta.dir # NoEntry /\ ~lock)
  /\ UNCHANGED <<card, meta, win, vol, faults, crashes, truncated>>

BeginRow ==
  /\ pc = "saving" /\ lines < MaxLines
  /\ lines' = lines + 1
  /\ pc' = "open"
  /\ call' = [call EXCEPT !.append = TRUE, !.stage = 2, !.left = LineUnits, !.ok = TRUE]
  /\ UNCHANGED <<card, meta, win, vol, fp, lock, faults, crashes, truncated>>

EndSave ==
  /\ pc = "saving"
  /\ pc' = "idle"
  /\ UNCHANGED <<card, meta, win, vol, fp, lock, call, bounds, truncated>>

BeginLoad ==
  /\ pc = "idle"
  /\ pc' = "loading"
  /\ UNCHANGED <<card, meta, win, vol, fp, lock, call, bounds, truncated>>

(* Reading follows the chain in FAT, and leaves some sector of it in the window. *)
Load ==
  /\ At("loading")
  /\ pc' = "idle"
  /\ \/ UNCHANGED <<card, win>>
     \/ /\ meta.dir # NoEntry /\ ~lock /\ meta.dir.size > ClusterUnits
        /\ card' = Flushed
        /\ \E c \in Clusters : win' = [sect |-> FatSect(c), dirty |-> FALSE]
  /\ UNCHANGED <<meta, vol, fp, lock, call, bounds, truncated>>

-----------------------------------------------------------------------------
(* f_open, of an existing file or of one it creates.                           *)

ToSeek(ofs) ==
  /\ call' = [call EXCEPT !.ofs = ofs]
  /\ pc' = IF ofs > ClusterUnits THEN "seek"
           ELSE IF ofs % SectorUnits # 0 THEN "load" ELSE "write"

Refused == lock
Register == PutEntry(0, 0)

Open ==
  /\ At("open")
  /\ IF Refused THEN OpenFails /\ UNCHANGED <<meta, win, lock>>
     ELSE LET new == meta.dir = NoEntry
              entry == IF new THEN [sclust |-> 0, size |-> 0] ELSE meta.dir
              seeks == call.append /\ entry.size > 0
          IN  /\ IF new THEN Register ELSE UNCHANGED <<meta, win>>
              /\ lock' = TRUE
              /\ fp' = [sclust |-> entry.sclust, size |-> entry.size,
                        fptr |-> IF seeks THEN entry.size ELSE 0,
                        clust |-> IF seeks THEN entry.sclust ELSE 0,
                        sect |-> NoSector, buf |-> Blank, dirty |-> FALSE, modified |-> new]
              /\ IF seeks THEN ToSeek(entry.size)
                 ELSE IF call.stage = 2 THEN pc' = "write" /\ UNCHANGED call
                 ELSE IF entry.size > 0
                 THEN pc' = "free" /\ call' = [call EXCEPT !.ncl = entry.sclust]
                 ELSE pc' = "close" /\ UNCHANGED call
  /\ UNCHANGED <<card, vol, bounds, truncated>>

(* A chain that is too short fails here, or at the next access.                  *)
Seek ==
  /\ At("seek")
  /\ LET next == meta.fat[fp.clust]
     IN  IF next \in Clusters
         THEN fp' = [fp EXCEPT !.clust = next] /\ ToSeek(call.ofs - ClusterUnits) /\ UNCHANGED lock
         ELSE SeekFails
  /\ UNCHANGED <<card, meta, win, vol, bounds, truncated>>

FillBuffer ==
  /\ pc = "load"
  /\ \/ LET sect == <<fp.clust, call.ofs \div SectorUnits>>
        IN  fp' = [fp EXCEPT !.sect = sect, !.buf = card.data[sect]]
        /\ pc' = "write"
        /\ UNCHANGED <<lock, call, lines, faults>>
     \/ Fault /\ Fails
  /\ UNCHANGED <<card, meta, win, vol, crashes, truncated>>

-----------------------------------------------------------------------------
(* f_truncate, at the start of the file: remove_chain.                          *)

NotRecounted == vol
Recounted == IF vol.free < NClusters THEN [vol EXCEPT !.free = @ + 1, !.behind = TRUE] ELSE vol

FreeCluster ==
  /\ At("free")
  /\ LET next == meta.fat[call.ncl]
     IN  /\ IF next = Free THEN UNCHANGED <<meta, win, vol, truncated>>
            ELSE /\ PutFat(call.ncl, Free)
                 /\ vol' = Recounted
                 /\ truncated' = TRUE
         /\ IF next \in Clusters
            THEN call' = [call EXCEPT !.ncl = next] /\ UNCHANGED <<fp, lock, pc>>
            ELSE Freed
  /\ UNCHANGED <<card, bounds>>

-----------------------------------------------------------------------------
(* f_write: units that remain in the sector, then the next sector, in a next   *)
(* cluster if need be.                                                         *)

(* create_chain looks for a free cluster from scl on, round to scl.  There is no *)
(* cluster 1: from there it stops at the end.                                    *)
AdvancePast(c) == c + 1
Advance(c) == IF c = NClusters + 1 THEN 2 ELSE c + 1

Scans(scl, ncl) ==
  pc' = "scan" /\ call' = [call EXCEPT !.scl = scl, !.ncl = ncl] /\ UNCHANGED <<fp, lock>>
SearchFrom(scl) == Scans(scl, Advance(scl))

Suggested == vol.last \in Clusters

Write ==
  /\ pc = "write"
  /\ IF call.left = 0
     THEN pc' = "close" /\ fp' = [fp EXCEPT !.modified = TRUE] /\ UNCHANGED <<call, lock>>
     ELSE IF fp.fptr % SectorUnits # 0 THEN pc' = "copy" /\ UNCHANGED <<fp, call, lock>>
     ELSE IF fp.fptr % ClusterUnits # 0 THEN pc' = "flush" /\ UNCHANGED <<fp, call, lock>>
     ELSE IF fp.fptr > 0 THEN pc' = "follow" /\ UNCHANGED <<fp, call, lock>>
     ELSE IF fp.sclust # 0
     THEN pc' = "flush" /\ fp' = [fp EXCEPT !.clust = fp.sclust] /\ UNCHANGED <<call, lock>>
     ELSE IF vol.free = 0 THEN DiskFull
     ELSE SearchFrom(IF Suggested THEN vol.last ELSE 1)
  /\ UNCHANGED <<card, meta, win, vol, bounds, truncated>>

(* create_chain of the cluster written last: its next one, or a new one.         *)
Follow ==
  /\ At("follow")
  /\ LET next == meta.fat[fp.clust]
     IN  IF next = Free THEN WriteFails
         ELSE IF next \in Clusters
         THEN pc' = "flush" /\ fp' = [fp EXCEPT !.clust = next] /\ UNCHANGED <<call, lock>>
         ELSE IF vol.free = 0 THEN DiskFull
         ELSE /\ pc' = "next" /\ call' = [call EXCEPT !.scl = fp.clust, !.ncl = Advance(fp.clust)]
              /\ UNCHANGED <<fp, lock>>
  /\ UNCHANGED <<card, meta, win, vol, bounds, truncated>>

LinksUnmarked == pc' = (IF fp.sclust = 0 THEN "mark" ELSE "link") /\ UNCHANGED <<fp, call, lock>>
Marks == pc' = "mark" /\ UNCHANGED <<fp, call, lock>>

NextCluster ==
  /\ At("next")
  /\ IF meta.fat[call.ncl] = Free THEN Marks
     ELSE SearchFrom(IF Suggested THEN vol.last ELSE call.scl)
  /\ UNCHANGED <<card, meta, win, vol, bounds, truncated>>

NeverTurnsRound == Advance(call.ncl) = 2 /\ call.scl = 1
Exhausted == call.ncl = call.scl \/ (Advance(call.ncl) = 2 /\ call.scl = 1)

Scan ==
  /\ At("scan")
  /\ IF meta.fat[call.ncl] = Free THEN Marks
     ELSE IF Exhausted THEN DiskFull
     ELSE Scans(call.scl, Advance(call.ncl))
  /\ UNCHANGED <<card, meta, win, vol, bounds, truncated>>

Allocated ==
  /\ vol' = [vol EXCEPT !.last = call.ncl, !.behind = TRUE,
                        !.free = IF @ <= NClusters THEN @ - 1 ELSE @]
  /\ fp' = [fp EXCEPT !.clust = call.ncl, !.sclust = IF @ = 0 THEN call.ncl ELSE @]
  /\ pc' = "flush"

Mark ==
  /\ At("mark")
  /\ PutFat(call.ncl, EOC)
  /\ IF fp.sclust # 0 THEN pc' = "link" /\ UNCHANGED <<vol, fp>> ELSE Allocated
  /\ UNCHANGED <<card, call, lock, bounds, truncated>>

Link ==
  /\ At("link")
  /\ PutFat(fp.clust, call.ncl)
  /\ Allocated
  /\ UNCHANGED <<card, call, lock, bounds, truncated>>

(* The buffer turns to another sector: it is written if it is dirty, and read if  *)
(* the sector holds data of the file.                                            *)
Sector == <<fp.clust, (fp.fptr \div SectorUnits) % ClusterSectors>>
Refills == fp.sect # Sector /\ fp.fptr < fp.size
NotWritten == card
Written == IF fp.dirty THEN [card EXCEPT !.data[fp.sect] = fp.buf] ELSE card

Flush ==
  /\ pc = "flush"
  /\ \/ /\ card' = Written
        /\ fp' = [fp EXCEPT !.dirty = FALSE, !.sect = Sector,
                            !.buf = IF Refills THEN Written.data[Sector] ELSE @]
        /\ pc' = "copy"
        /\ UNCHANGED <<lock, call, lines, faults>>
     \/ /\ fp.dirty \/ Refills
        /\ card' \in IF fp.dirty THEN {card, Written} ELSE {card}
        /\ Fault /\ Fails
  /\ UNCHANGED <<meta, win, vol, crashes, truncated>>

Unit(k) == (lines - 1) * LineUnits + k

Copy ==
  /\ pc = "copy"
  /\ LET from == fp.fptr % SectorUnits
         n == IF call.left < SectorUnits - from THEN call.left ELSE SectorUnits - from
     IN  /\ fp' = [fp EXCEPT !.dirty = TRUE, !.fptr = @ + n,
                    !.size = IF fp.fptr + n > @ THEN fp.fptr + n ELSE @,
                    !.buf = [i \in DOMAIN @ |-> IF i \in from .. from + n - 1
                               THEN Unit(LineUnits - call.left + (i - from) + 1) ELSE @[i]]]
         /\ call' = [call EXCEPT !.left = @ - n]
  /\ pc' = "write"
  /\ UNCHANGED <<card, meta, win, vol, lock, bounds, truncated>>

-----------------------------------------------------------------------------
(* f_close: f_sync, which does nothing if nothing was modified.                  *)

Close ==
  /\ pc = "close"
  /\ \/ /\ ~fp.modified
        /\ Closed(TRUE)
        /\ UNCHANGED <<card, lines, faults>>
     \/ /\ fp.modified
        /\ card' = Written
        /\ pc' = "syncdir"
        /\ fp' = [fp EXCEPT !.dirty = FALSE]
        /\ UNCHANGED <<lock, call, lines, faults>>
     \/ /\ fp.modified /\ fp.dirty
        /\ card' \in {card, Written}
        /\ Fault /\ Fails
  /\ UNCHANGED <<meta, win, vol, crashes, truncated>>

SyncDir ==
  /\ At("syncdir")
  /\ PutEntry(fp.sclust, fp.size)
  /\ pc' = "syncwin"
  /\ UNCHANGED <<card, vol, fp, lock, call, bounds, truncated>>

SyncWindow ==
  /\ pc = "syncwin"
  /\ \/ /\ card' = Flushed
        /\ win' = [win EXCEPT !.dirty = FALSE]
        /\ pc' = "syncinfo"
        /\ UNCHANGED <<fp, lock, call, lines, faults>>
     \/ /\ card' \in {card, Flushed}
        /\ Fault /\ Fails
        /\ UNCHANGED win
  /\ UNCHANGED <<meta, vol, crashes, truncated>>

(* FSInfo is made in the window, and whether it was written is not looked at.     *)
SyncInfo ==
  /\ pc = "syncinfo"
  /\ IF vol.behind /\ vol.kept
     THEN /\ win' = [sect |-> Elsewhere, dirty |-> FALSE]
          /\ vol' = [vol EXCEPT !.behind = FALSE]
          /\ \/ card' = [card EXCEPT !.free = vol.free, !.last = vol.last] /\ UNCHANGED faults
             \/ Fault /\ UNCHANGED card
     ELSE UNCHANGED <<win, vol, card, faults>>
  /\ Closed(TRUE)
  /\ UNCHANGED <<meta, lines, crashes, truncated>>

-----------------------------------------------------------------------------
(* Power fails: what is left is the card.                                       *)

Nothing == [append |-> FALSE, stage |-> 2, left |-> 0, ok |-> FALSE, ofs |-> 0, scl |-> 1, ncl |-> 2]
Closed0 == [sclust |-> 0, size |-> 0, fptr |-> 0, clust |-> 0, sect |-> NoSector,
            buf |-> Blank, dirty |-> FALSE, modified |-> FALSE]

Off ==
  /\ win' = [sect |-> Elsewhere, dirty |-> FALSE]
  /\ vol' = Uninformed
  /\ fp' = Closed0 /\ lock' = FALSE /\ pc' = "boot" /\ call' = Nothing

Crash ==
  /\ crashes < MaxCrashes
  /\ crashes' = crashes + 1
  /\ meta' = [fat |-> card.fat, dir |-> card.dir]
  /\ Off
  /\ UNCHANGED <<card, lines, faults, truncated>>

FatInit ==
  /\ card \in Volumes
  /\ meta = [fat |-> card.fat, dir |-> card.dir]
  /\ win = [sect |-> Elsewhere, dirty |-> FALSE]
  /\ vol = Uninformed
  /\ fp = Closed0 /\ lock = FALSE /\ pc = "boot" /\ call = Nothing
  /\ lines = 0 /\ faults = 0 /\ crashes = 0 /\ truncated = FALSE

FatStep ==
  \/ MoveWindow \/ Mount
  \/ Probe \/ Load \/ Open \/ Seek \/ FillBuffer \/ FreeCluster
  \/ Write \/ Follow \/ NextCluster \/ Scan \/ Mark \/ Link \/ Flush \/ Copy
  \/ Close \/ SyncDir \/ SyncWindow \/ SyncInfo

FatNext == FatStep \/ BeginSave \/ BeginRow \/ EndSave \/ BeginLoad \/ Halted \/ Crash

(* The card answers every access, well or badly: the program goes on.            *)
FatSpec == FatInit /\ [][FatNext]_fatVars /\ WF_fatVars(FatStep)

-----------------------------------------------------------------------------
(* Properties.                                                                 *)

Windows == [sect : Int, dirty : BOOLEAN]
Files == [sclust : {0} \cup Clusters, size : Nat, fptr : Nat, clust : {0} \cup Clusters,
          sect : Sectors \cup {NoSector}, buf : Buffers, dirty : BOOLEAN, modified : BOOLEAN]
Calls == [append : BOOLEAN, stage : {1, 2}, left : 0 .. LineUnits, ok : BOOLEAN,
          ofs : Nat, scl : 1 .. NClusters + 1, ncl : Clusters]

CardOK == card \in Cards
MetaOK == meta \in [fat : Fats, dir : Entries \cup {NoEntry}]
WinOK == win \in Windows
VolOK == vol \in [free : 0 .. Unknown, last : 0 .. EOC, behind : BOOLEAN, kept : BOOLEAN]
FpOK == fp \in Files
CallOK == call \in Calls
HistOK == lock \in BOOLEAN /\ truncated \in BOOLEAN
PcOK == pc \in InDir \cup InChain \cup InSearch \cup
              {"boot", "halted", "idle", "saving", "load", "write", "flush", "copy", "close",
               "syncwin", "syncinfo"}

(* Every variable keeps its type: no link and no cluster number leaves the volume. *)
FatTypeOK == CardOK /\ MetaOK /\ WinOK /\ VolOK /\ FpOK /\ CallOK /\ HistOK /\ PcOK

(* On the card, and as the program sees it, no chain leads to a free cluster, in    *)
(* whatever order the window's sectors reach the card, which of those writes fail   *)
(* and where power does: create_chain marks a cluster before it links it           *)
(* (ff.c:1600), remove_chain frees a chain from its head (ff.c:1460).               *)
LinksAllocated == LinksAllocatedIn(card.fat) /\ LinksAllocatedIn(meta.fat)

(* FatFs never takes the volume for full while it is not: its count of the free     *)
(* clusters, once known, is not below their number (ff.c:1545, 1608).  It holds     *)
(* unless power failed after clusters of a file were freed: FSInfo, written last,   *)
(* then has the smaller count of before.                                            *)
FreeCountCovers == ~(truncated /\ crashes > 0) => Covers(vol.free, meta.fat)

(* Every write ends, whichever accesses fail: the search for a free cluster goes    *)
(* round once (ff.c:1597).                                                          *)
EveryWriteEnds == (pc = "open") ~> (pc \in {"saving", "boot"})

(* What f_read finds: the units of the size, up to where the chain breaks.          *)
ReadOf(c) ==
  LET at[i \in 0 .. NClusters] ==
        IF i = 0 THEN c.dir.sclust ELSE IF at[i - 1] \in Clusters THEN c.fat[at[i - 1]] ELSE Free
      reach == {n \in 0 .. c.dir.size : n > 0 => at[(n - 1) \div ClusterUnits] \in Clusters}
      where(i) == <<at[i \div ClusterUnits], (i \div SectorUnits) % ClusterSectors>>
  IN  [i \in 1 .. Cardinality(reach) - 1 |-> c.data[where(i - 1)][(i - 1) % SectorUnits]]

Content == IF card.dir = NoEntry THEN NoFile ELSE ReadOf(card)

Line == [k \in 1 .. LineUnits |-> Unit(k)]
Stored == IF Content = NoFile THEN 0
          ELSE Cardinality({k \in 1 .. LineUnits : \E i \in DOMAIN Content : Content[i] = Line[k]})

Writing == pc \notin {"boot", "halted", "idle", "probe", "loading", "saving"}

Log == INSTANCE LineFile WITH
         file <- Content,
         call <- [active |-> Writing, line |-> Line, append |-> call.append,
                  stored |-> Stored, ok |-> call.ok /\ ~Writing]

(* The file on the card is a file of lines: at every moment power may fail it is    *)
(* readable up to its size, a call that appends adds its line whole, or the          *)
(* beginning of it when the volume is full (f_write, ff.c:4058), after what was there, *)
(* one that does not may lose the end of the file first, and a line reported as       *)
(* written is stored (sd_card.c:115).                                               *)
FileIsLog == Log!LineSpec
=============================================================================
