----------------------------- MODULE FatFileProofs -----------------------------
(* TLAPS proofs about FatFile, for every volume, every size of sector, cluster and *)
(* line, and any number of lines, failed accesses and power cuts.                 *)
EXTENDS FatFile, FiniteSetTheorems, TLAPS

(* No cluster leads to s.                                                        *)
Unlinked(fat, s) == \A c \in Clusters : fat[c] # s
Searching == {"next", "scan", "mark", "link"}
InWriting == {"seek", "load", "write", "follow", "flush", "copy"} \cup Searching
Opened == InWriting \cup {"free", "close", "syncdir", "syncwin", "syncinfo"}

-----------------------------------------------------------------------------
(* The inductive invariant.                                                      *)

(* The links of a FAT, and of the entry into it.                                  *)
Sound(c) ==
  LinksAllocatedIn(c.fat) /\ LinksDistinct(c.fat) /\ HeadUnlinked(c.fat, c.dir) /\ Sized(c.dir)

(* What the program sees is what is on the card, but for the window's sector.      *)
Agree ==
  /\ \A c \in Clusters : card.fat[c] # meta.fat[c] => win.dirty /\ win.sect = FatSect(c)
  /\ card.dir # meta.dir => win.dirty /\ win.sect = DirSect

(* No chain leads to the first cluster of the open file, which has one if it holds  *)
(* anything: so a chain that is freed from its head is freed before any link to it. *)
FileSound ==
  pc \in Opened =>
    /\ fp.sclust # 0 => Unlinked(meta.fat, fp.sclust)
    /\ fp.size > 0 => fp.sclust # 0

(* While the file is written its entry names its first cluster, or none as yet.    *)
EntrySound == pc \in InWriting => meta.dir # NoEntry /\ meta.dir.sclust \in {0, fp.sclust}

(* Where the file is read or written it has a cluster; if that is not the first,    *)
(* the first leads on.                                                            *)
PlaceSound ==
  pc \in InWriting =>
    /\ fp.fptr > 0 \/ pc \in {"seek", "load", "follow", "flush", "copy", "next", "link"} =>
         /\ fp.sclust # 0 /\ fp.clust # 0
         /\ fp.clust # fp.sclust => meta.fat[fp.sclust] # Free
    /\ pc = "follow" => fp.fptr > 0
    /\ pc = "seek" => call.ofs > ClusterUnits
    /\ pc = "load" => call.ofs \div SectorUnits < ClusterSectors

(* The cluster found is free until it is marked, and when it is linked it is in      *)
(* use, no cluster leads to it and it is not the first of the file.               *)
SearchSound ==
  /\ pc \in Searching => vol.free # 0 /\ (fp.sclust # 0 => meta.fat[fp.sclust] # Free /\ fp.clust # 0)
  /\ pc = "mark" => meta.fat[call.ncl] = Free
  /\ pc = "link" =>
       /\ meta.fat[call.ncl] # Free
       /\ Unlinked(meta.fat, call.ncl)
       /\ call.ncl # fp.sclust

(* No cluster leads to the one to be freed.                                       *)
FreeSound == pc = "free" => Unlinked(meta.fat, call.ncl)
(* FSInfo is made in the window only after it has been written back.              *)
Clean == pc = "syncinfo" => ~win.dirty

-----------------------------------------------------------------------------
(* The card and the window.                                                      *)

(* The sizes, apart from the rest of the assumption.                             *)
LEMMA Sizes ==
  /\ NClusters \in Nat \ {0} /\ FatEntries \in Nat \ {0} /\ LineUnits \in 1 .. SectorUnits
  /\ ClusterSectors \in Nat \ {0} /\ SectorUnits \in Nat \ {0}
  BY FatAssumption

(* The sectors of FAT are not the directory's.                                   *)
LEMMA FatSectNat == \A c \in Clusters : FatSect(c) \in Nat
  BY FatAssumption DEF FatSect, Clusters

(* An offset is in a unit of a sector, and in a sector of a cluster.             *)
LEMMA OfsNat == \A n \in Nat : n % SectorUnits \in 0 .. SectorUnits - 1 /\ n \div SectorUnits \in Nat
   /\ (n \div SectorUnits) % ClusterSectors \in 0 .. ClusterSectors - 1
  BY FatAssumption

LEMMA ClusterUnitsNat == ClusterUnits \in Nat \ {0}
  BY FatAssumption DEF ClusterUnits

(* The search stays on the volume (ff.c:1572, 1588).                             *)
LEMMA AdvanceIn == \A c \in 1 .. NClusters + 1 : Advance(c) \in Clusters
  BY FatAssumption DEF Advance, Clusters

(* Writing the window back makes the card what the program sees.                 *)
LEMMA FlushedIs ==
  ASSUME CardOK, MetaOK, WinOK, Agree
  PROVE  Flushed = [card EXCEPT !.fat = meta.fat, !.dir = meta.dir]
<1>1. CASE ~win.dirty
  <2>1. card.fat = meta.fat
    BY <1>1 DEF CardOK, Cards, MetaOK, Agree, Fats
  <2> QED  BY <1>1, <2>1 DEF CardOK, Cards, MetaOK, Agree, Flushed
<1>2. CASE win.dirty /\ win.sect = DirSect
  <2>1. card.fat = meta.fat
    BY <1>2, FatSectNat DEF CardOK, Cards, MetaOK, Agree, Fats, DirSect
  <2> QED  BY <1>2, <2>1 DEF CardOK, Cards, MetaOK, Flushed
<1>3. CASE win.dirty /\ win.sect # DirSect
  <2> DEFINE new == [c \in Clusters |-> IF FatSect(c) = win.sect THEN meta.fat[c] ELSE card.fat[c]]
  <2>1. new = meta.fat
    BY <1>3 DEF CardOK, Cards, MetaOK, Agree, Fats
  <2>2. card.dir = meta.dir
    BY <1>3 DEF Agree
  <2> QED  BY <1>3, <2>1, <2>2 DEF CardOK, Cards, MetaOK, Flushed
<1> QED  BY <1>1, <1>2, <1>3 DEF WinOK, Windows

Control ==
  FileSound /\ EntrySound /\ PlaceSound /\ SearchSound /\ FreeSound /\ Clean
Disk == CardOK /\ MetaOK /\ WinOK /\ Sound(card) /\ Sound(meta) /\ Agree
Program == VolOK /\ FpOK /\ CallOK /\ HistOK /\ PcOK
IInv == Disk /\ Program /\ Control

-----------------------------------------------------------------------------
(* The disk.                                                                     *)

LEMMA DiskSame ==
  ASSUME Disk, UNCHANGED <<card, meta, win>> PROVE Disk'
  BY DEF Disk, CardOK, Cards, MetaOK, WinOK, Windows, Agree, Sound, LinksAllocatedIn,
    LinksDistinct, HeadUnlinked, Sized

(* Written back, or not, and whatever is read next.                              *)
LEMMA FlushedDisk ==
  ASSUME Disk, meta' = meta,
         \/ card' = Flushed /\ win' \in Windows
         \/ card' \in {card, Flushed} /\ win' = win
  PROVE  Disk'
<1> USE DEF Disk
<1>1. Flushed = [card EXCEPT !.fat = meta.fat, !.dir = meta.dir]
  BY FlushedIs
<1>2. CardOK' /\ MetaOK' /\ WinOK'
  BY <1>1 DEF CardOK, Cards, MetaOK, WinOK, Windows
<1>3. CASE card' = card /\ win' = win
  BY <1>3, DiskSame
<1>4. CASE card' = Flushed
  <2>1. card'.fat = meta'.fat /\ card'.dir = meta'.dir
    BY <1>1, <1>4 DEF CardOK, Cards, MetaOK
  <2>2. Agree'
    BY <2>1 DEF Agree
  <2>3. Sound(meta)'
    BY DEF Sound, LinksAllocatedIn, LinksDistinct, HeadUnlinked, Sized
  <2>4. Sound(card)'
    BY <2>1, <2>3 DEF Sound
  <2> QED BY <1>2, <2>2, <2>3, <2>4
<1> QED BY <1>3, <1>4

(* A write of data leaves the links alone.                                       *)
LEMMA DataDisk ==
  ASSUME Disk, UNCHANGED <<meta, win>>, CardOK', card'.fat = card.fat, card'.dir = card.dir
  PROVE  Disk'
  BY DEF Disk, CardOK, Cards, MetaOK, WinOK, Windows, Agree, Sound, LinksAllocatedIn,
    LinksDistinct, HeadUnlinked, Sized

(* put_fat of an entry whose sector is in the window.                            *)
LEMMA PutFatDisk ==
  ASSUME Disk, card' = card, NEW c \in Clusters, NEW val \in {Free} \cup Clusters \cup {EOC},
         PutFat(c, val), win.sect = FatSect(c), Sound(meta)'
  PROVE  Disk'
<1> USE DEF Disk
<1>1. CardOK' /\ WinOK'  BY DEF CardOK, Cards, WinOK, Windows, PutFat
<1>2. MetaOK'  BY DEF MetaOK, PutFat, Fats
<1>3. Sound(card)'  BY DEF Sound
<1>4. Agree'
  <2>1. \A b \in Clusters : meta'.fat[b] = IF b = c THEN val ELSE meta.fat[b]
    BY DEF PutFat, MetaOK, Fats
  <2>2. meta'.dir = meta.dir /\ win'.dirty /\ win'.sect = win.sect
    BY DEF PutFat, MetaOK, WinOK, Windows
  <2>3. FatSect(c) # DirSect
    BY FatSectNat DEF DirSect
  <2> QED  BY <2>1, <2>2, <2>3 DEF Agree
<1> QED  BY <1>1, <1>2, <1>3, <1>4

(* A change of the entry of the file, in the window.                             *)
LEMMA PutEntryDisk ==
  ASSUME Disk, card' = card, NEW c \in {0} \cup Clusters, NEW size \in Nat,
         PutEntry(c, size), win.sect = DirSect, c # 0 => Unlinked(meta.fat, c), size > 0 => c # 0
  PROVE  Disk'
<1> USE DEF Disk
<1>1. CardOK' /\ WinOK'  BY DEF CardOK, Cards, WinOK, Windows, PutEntry
<1>2. MetaOK' /\ meta'.fat = meta.fat /\ meta'.dir = [sclust |-> c, size |-> size]
  BY DEF MetaOK, PutEntry, Entries
<1>3. Sound(card)'  BY DEF Sound
<1>4. Agree'
  <2>1. win'.dirty /\ win'.sect = win.sect
    BY DEF PutEntry, WinOK, Windows
  <2>2. \A b \in Clusters : FatSect(b) # DirSect
    BY FatSectNat DEF DirSect
  <2> QED  BY <1>2, <2>1, <2>2 DEF Agree
<1>5. Sound(meta)'
  <2>1. c = 0 => \A b \in Clusters : meta.fat[b] \in Clusters => meta.fat[b] # c
    BY DEF Clusters
  <2> QED  BY <1>2, <2>1 DEF Sound, HeadUnlinked, Sized, LinksAllocatedIn, LinksDistinct, Unlinked
<1> QED  BY <1>1, <1>2, <1>3, <1>4, <1>5

-----------------------------------------------------------------------------
(* A failed access.                                                              *)

LEMMA EndsProgram ==
  ASSUME CallOK, NEW ok \in BOOLEAN, Ends(ok)
  PROVE  CallOK' /\ pc' \in {"open", "saving"}
  BY DEF CallOK, Calls, Ends

(* Between two calls there is nothing to keep but the disk.                      *)
LEMMA Outside ==
  ASSUME pc' \in {"boot", "halted", "idle", "probe", "loading", "saving", "open"}
  PROVE  Control'
  BY DEF Control, FileSound, EntrySound, PlaceSound, SearchSound, FreeSound, Clean, Opened,
    InWriting, Searching

LEMMA ProbedProgram ==
  ASSUME Program, NEW opened \in BOOLEAN, Probed(opened)
  PROVE  FpOK' /\ CallOK' /\ lock' \in BOOLEAN /\ pc' \in {"open", "saving"}
<1>1. fp' = fp /\ lock' = lock /\ pc' \in {"open", "saving"}
  BY DEF Probed
<1>2. CallOK'
  <2>1. LineUnits \in 0 .. LineUnits
    BY FatAssumption
  <2>2. \/ call' = call
        \/ call' = [call EXCEPT !.append = FALSE, !.stage = 1, !.left = LineUnits, !.ok = TRUE]
    BY DEF Probed
  <2> QED  BY <2>1, <2>2 DEF Program, CallOK, Calls
<1>3. lock' \in BOOLEAN
  BY <1>1 DEF Program, HistOK
<1> QED  BY <1>1, <1>2, <1>3 DEF Program, FpOK

(* The file is closed as it is, or empty.                                        *)
LEMMA ToClose ==
  ASSUME IInv, pc' = "close", UNCHANGED <<meta>>,
         \/ fp'.sclust = 0 /\ fp'.size = 0
         \/ fp'.sclust = fp.sclust /\ fp'.size = fp.size,
         pc \in Opened
  PROVE  Control'
  BY DEF IInv, Control, FileSound, EntrySound, PlaceSound, SearchSound, FreeSound, Clean, Opened,
    InWriting, Searching

(* Whatever access fails, the functions end with a program in order.             *)
LEMMA FailsStep ==
  ASSUME IInv, Fails, meta' = meta
  PROVE  FpOK' /\ CallOK' /\ lock' \in BOOLEAN /\ PcOK' /\ Control'
<1>0. Program /\ FpOK /\ CallOK /\ lock \in BOOLEAN
  BY DEF IInv, Program, HistOK
<1>1. CASE pc = "probe" /\ Probed(FALSE)
  BY <1>0, <1>1, ProbedProgram, Outside DEF PcOK, InDir, InChain, InSearch
<1>2. CASE pc = "loading" /\ pc' = "idle" /\ UNCHANGED <<fp, lock, call, lines>>
  BY <1>0, <1>2, Outside DEF PcOK, FpOK, CallOK
<1>3. CASE pc = "open" /\ OpenFails /\ UNCHANGED <<lock, lines>>
  BY <1>0, <1>3, EndsProgram, Outside DEF OpenFails, PcOK, InDir, FpOK
<1>4. CASE pc \in {"seek", "load"} /\ SeekFails /\ UNCHANGED lines
  BY <1>0, <1>4, EndsProgram, Outside DEF OpenFails, SeekFails, PcOK, InDir, FpOK
<1>5. CASE pc = "free" /\ Freed /\ UNCHANGED lines
  <2>1. FpOK' /\ CallOK' /\ lock' \in BOOLEAN /\ PcOK'
    BY <1>0, <1>5 DEF Freed, FpOK, Files, CallOK, PcOK
  <2>2. Control'
    BY <1>0, <1>5, ToClose DEF Freed, FpOK, Files, Opened
  <2> QED BY <2>1, <2>2
<1>6. CASE pc \in {"follow", "next", "scan", "mark", "link", "flush"} /\ WriteFails /\ UNCHANGED lines
  <2>1. FpOK' /\ CallOK' /\ lock' \in BOOLEAN /\ PcOK'
    BY <1>0, <1>6 DEF WriteFails, FpOK, CallOK, Calls, PcOK
  <2>2. Control'
    BY <1>0, <1>6, ToClose DEF WriteFails, Opened, InWriting, Searching
  <2> QED BY <2>1, <2>2
<1>7. CASE pc \in {"close", "syncdir", "syncwin"} /\ Closed(FALSE) /\ UNCHANGED lines
  BY <1>0, <1>7, EndsProgram, Outside DEF Closed, PcOK, InDir, FpOK
<1> QED BY <1>1, <1>2, <1>3, <1>4, <1>5, <1>6, <1>7 DEF Fails

-----------------------------------------------------------------------------
(* The caller.                                                                   *)

(* The caller.                                                                   *)
LEMMA CallerStep ==
  ASSUME IInv, BeginSave \/ EndSave \/ BeginLoad \/ BeginRow PROVE IInv'
<1>1. Disk'
  BY DiskSame DEF IInv, BeginSave, EndSave, BeginLoad, BeginRow
<1>2. CallOK'
  <2>1. LineUnits \in 0 .. LineUnits
    BY FatAssumption
  <2>2. \/ call' = call
        \/ call' = [call EXCEPT !.append = TRUE, !.stage = 2, !.left = LineUnits, !.ok = TRUE]
    BY DEF BeginSave, EndSave, BeginLoad, BeginRow
  <2> QED  BY <2>1, <2>2 DEF IInv, Program, CallOK, Calls
<1>4. Program'
  BY <1>2 DEF IInv, Program, VolOK, FpOK, HistOK, PcOK, InDir, bounds,
    BeginSave, EndSave, BeginLoad, BeginRow
<1>3. Control'
  BY Outside DEF BeginSave, EndSave, BeginLoad, BeginRow
<1> QED  BY <1>1, <1>3, <1>4 DEF IInv

LEMMA MountStep == ASSUME IInv, Mount PROVE IInv'
<1>1. Disk'
  BY DiskSame DEF IInv, Mount
<1>2. VolOK'
  <2>1. CASE vol' = Informed
    BY <2>1 DEF IInv, Disk, CardOK, Cards, VolOK, Informed
  <2>2. CASE vol' = Uninformed
    BY <2>2, FatAssumption DEF VolOK, Uninformed, Unknown, EOC
  <2>3. CASE UNCHANGED vol
    BY <2>3 DEF IInv, Program, VolOK
  <2> QED  BY <2>1, <2>2, <2>3 DEF Mount
<1>3. Program'
  BY <1>2 DEF IInv, Program, FpOK, CallOK, HistOK, PcOK, Mount
<1>4. Control'
  BY Outside DEF Mount
<1> QED  BY <1>1, <1>3, <1>4 DEF IInv

LEMMA ProbeStep == ASSUME IInv, Probe PROVE IInv'
<1>1. Disk'
  BY DiskSame DEF IInv, Probe
<1>2. (meta.dir # NoEntry /\ ~lock) \in BOOLEAN
  OBVIOUS
<1>3. FpOK' /\ CallOK' /\ lock' \in BOOLEAN /\ pc' \in {"open", "saving"}
  BY <1>2, ProbedProgram DEF IInv, Probe
<1>4. Program'
  BY <1>3 DEF IInv, Program, VolOK, HistOK, PcOK, InDir, Probe
<1>5. Control'
  BY <1>3, Outside
<1> QED  BY <1>1, <1>4, <1>5 DEF IInv

LEMMA LoadStep == ASSUME IInv, Load PROVE IInv'
<1>1. Disk'
  <2>1. CASE UNCHANGED <<card, win>>
    BY <2>1, DiskSame DEF IInv, Load
  <2>2. CASE card' = Flushed /\ \E c \in Clusters : win' = [sect |-> FatSect(c), dirty |-> FALSE]
    <3>1. win' \in Windows
      BY <2>2, FatSectNat DEF Windows
    <3>2. Disk /\ meta' = meta
      BY DEF IInv, Load
    <3>3. card' = Flushed /\ win' \in Windows
      BY <2>2, <3>1
    <3> QED  BY <3>2, <3>3, FlushedDisk
  <2> QED  BY <2>1, <2>2 DEF Load
<1>2. Program'
  BY DEF IInv, Program, VolOK, FpOK, CallOK, HistOK, PcOK, bounds, Load
<1>3. Control'
  BY Outside DEF Load
<1> QED  BY <1>1, <1>2, <1>3 DEF IInv

(* What is on the card is sound at every moment: power may fail.                 *)
LEMMA CrashStep == ASSUME IInv, Crash PROVE IInv'
<1>1. Disk'
  <2>1. CardOK' /\ MetaOK' /\ WinOK'
    BY DEF IInv, Disk, CardOK, Cards, MetaOK, WinOK, Windows, Crash, Off, Elsewhere
  <2>2. Sound(card)' /\ Sound(meta)' /\ Agree'
    BY DEF IInv, Disk, Sound, Agree, Crash
  <2> QED  BY <2>1, <2>2 DEF Disk
<1>2. Program'
  <2>1. Blank \in Buffers
    BY DEF Blank, Buffers
  <2>2. VolOK'
    BY FatAssumption DEF Crash, Off, VolOK, Uninformed, Unknown, EOC
  <2>3. FpOK' /\ CallOK'
    BY <2>1, FatAssumption DEF Crash, Off, Closed0, Nothing, FpOK, CallOK, Files, Calls, Clusters
  <2> QED  BY <2>2, <2>3 DEF IInv, Program, HistOK, PcOK, Crash, Off
<1>3. Control'
  BY Outside DEF Crash, Off
<1> QED  BY <1>1, <1>2, <1>3 DEF IInv

-----------------------------------------------------------------------------
(* Steps that fail.                                                              *)

LEMMA SameControl ==
  ASSUME Control, UNCHANGED <<meta, fp, pc, call, vol>>, pc # "syncinfo" PROVE Control'
  BY DEF Control, FileSound, EntrySound, PlaceSound, SearchSound, FreeSound, Clean

LEMMA FailsAll == ASSUME IInv, Fails, UNCHANGED <<meta, vol, truncated>> PROVE Program' /\ Control'
<1>1. FpOK' /\ CallOK' /\ lock' \in BOOLEAN /\ PcOK' /\ Control'
  BY FailsStep
<1>2. HistOK'
  BY <1>1 DEF IInv, Program, HistOK
<1> QED  BY <1>1, <1>2 DEF IInv, Program, VolOK

(* move_window, and its failures.                                                *)
LEMMA MoveWindowStep == ASSUME IInv, MoveWindow PROVE IInv'
<1>1. Needed \in Int
  BY FatSectNat, FatAssumption DEF IInv, Program, FpOK, Files, CallOK, Calls, Control,
    PlaceSound, SearchSound,
    MoveWindow, Needed, DirSect, InDir, InChain, InSearch, Opened, InWriting, Searching
<1>2. Disk'
  <2>1. win' = [sect |-> Needed, dirty |-> FALSE] => win' \in Windows
    BY <1>1 DEF Windows
  <2>2. win' = [sect |-> Elsewhere, dirty |-> FALSE] => win' \in Windows
    BY DEF Elsewhere, Windows
  <2>3. \/ card' = Flushed /\ win' \in Windows
        \/ card' \in {card, Flushed} /\ win' = win
    BY <2>1, <2>2 DEF MoveWindow
  <2> QED  BY <2>3, FlushedDisk DEF IInv, MoveWindow
<1>3. CASE Fails
  BY <1>2, <1>3, FailsAll DEF IInv, MoveWindow
<1>4. CASE UNCHANGED <<fp, lock, pc, call, lines, faults>>
  <2>1. Program'
    BY <1>4 DEF IInv, Program, VolOK, FpOK, CallOK, HistOK, PcOK, MoveWindow
  <2>2. Control'
    BY <1>4, SameControl DEF IInv, MoveWindow, InDir, InChain, InSearch
  <2> QED  BY <1>2, <2>1, <2>2 DEF IInv
<1> QED  BY <1>3, <1>4 DEF MoveWindow

(* The buffer goes to a sector of data.                                          *)
LEMMA WrittenDisk ==
  ASSUME Disk, FpOK, UNCHANGED <<meta, win>>, card' \in {card, Written}
  PROVE  Disk'
<1>1. CASE card' = card
  BY <1>1, DiskSame
<1>2. CASE card' = [card EXCEPT !.data[fp.sect] = fp.buf] /\ fp.dirty
  <2>1. fp.buf \in Buffers
    BY DEF FpOK, Files
  <2>2. CardOK' /\ card'.fat = card.fat /\ card'.dir = card.dir
    <3>1. [card.data EXCEPT ![fp.sect] = fp.buf] \in [Sectors -> Buffers]
      BY <2>1 DEF Disk, CardOK, Cards
    <3>2. card' = [card EXCEPT !.data = [card.data EXCEPT ![fp.sect] = fp.buf]]
      BY <1>2
    <3> QED  BY <3>1, <3>2 DEF Disk, CardOK, Cards
  <2> QED  BY <2>2, DataDisk
<1> QED  BY <1>1, <1>2 DEF Written

LEMMA SectorIn == ASSUME FpOK, fp.clust # 0 PROVE Sector \in Sectors /\ Sector # NoSector
  BY OfsNat DEF FpOK, Files, Sector, Sectors, NoSector

LEMMA FillBufferStep == ASSUME IInv, FillBuffer PROVE IInv'
<1>1. Disk'
  BY DiskSame DEF IInv, FillBuffer
<1>2. CASE Fails
  BY <1>1, <1>2, FailsAll DEF IInv, FillBuffer
<1>3. CASE ~Fails
  <2> DEFINE sect == <<fp.clust, call.ofs \div SectorUnits>>
  <2>1. /\ pc = "load" /\ pc' = "write" /\ UNCHANGED <<lock, call, vol, meta, truncated>>
        /\ fp' = [fp EXCEPT !.sect = sect, !.buf = card.data[sect]]
    BY <1>3 DEF FillBuffer
  <2>2. sect \in Sectors /\ sect # NoSector
    BY <2>1, OfsNat, FatAssumption DEF IInv, Program, FpOK, Files, CallOK, Calls, Control,
      PlaceSound, InWriting,
      Sectors, NoSector
  <2>3. card.data[sect] \in Buffers
    BY <2>2 DEF IInv, Disk, CardOK, Cards
  <2>4. FpOK'
    BY <2>1, <2>2, <2>3 DEF IInv, Program, FpOK, Files
  <2>5. Program'
    BY <2>1, <2>4 DEF IInv, Program, VolOK, CallOK, HistOK, PcOK
  <2>6. fp'.sect = sect /\ fp'.sclust = fp.sclust /\ fp'.size = fp.size /\ fp'.fptr = fp.fptr
        /\ fp'.clust = fp.clust
    BY <2>1 DEF IInv, Program, FpOK, Files
  <2>7. Control'
    BY <2>1, <2>2, <2>6 DEF IInv, Control, FileSound, EntrySound, PlaceSound, SearchSound,
      FreeSound, Clean,
      Opened, InWriting, Searching
  <2> QED  BY <1>1, <2>5, <2>7 DEF IInv
<1> QED  BY <1>2, <1>3

LEMMA FlushStep == ASSUME IInv, Flush PROVE IInv'
<1>1. pc = "flush" /\ FpOK /\ fp.clust # 0
  BY DEF IInv, Program, Control, FileSound, PlaceSound, Flush, Opened, InWriting
<1>2. Disk'
  BY <1>1, WrittenDisk DEF IInv, Flush
<1>3. CASE Fails
  BY <1>2, <1>3, FailsAll DEF IInv, Flush
<1>4. CASE ~Fails
  <2>1. /\ pc' = "copy" /\ UNCHANGED <<lock, call, vol, meta, truncated>> /\ card' = Written
        /\ fp' = [fp EXCEPT !.dirty = FALSE, !.sect = Sector,
                            !.buf = IF Refills THEN Written.data[Sector] ELSE @]
    BY <1>4 DEF Flush
  <2>2. Sector \in Sectors /\ Sector # NoSector
    BY <1>1, SectorIn
  <2>3. card'.data[Sector] \in Buffers
    BY <1>2, <2>2 DEF Disk, CardOK, Cards
  <2>4. FpOK'
    BY <1>1, <2>1, <2>2, <2>3 DEF FpOK, Files
  <2>5. Program'
    BY <2>1, <2>4 DEF IInv, Program, VolOK, CallOK, HistOK, PcOK, InDir, InChain, InSearch
  <2>6. fp'.sect = Sector /\ fp'.sclust = fp.sclust /\ fp'.size = fp.size /\ fp'.fptr = fp.fptr
        /\ fp'.clust = fp.clust
    BY <1>1, <2>1 DEF FpOK, Files
  <2>7. Control'
    BY <1>1, <2>1, <2>2, <2>6 DEF IInv, Control, FileSound, EntrySound, PlaceSound, SearchSound,
      FreeSound, Clean,
      Opened, InWriting, Searching
  <2> QED  BY <1>2, <2>5, <2>7 DEF IInv
<1> QED  BY <1>3, <1>4

LEMMA ClosedStep ==
  ASSUME IInv, NEW ok \in BOOLEAN, Closed(ok), UNCHANGED truncated
  PROVE  FpOK' /\ CallOK' /\ HistOK' /\ PcOK' /\ Control'
<1>1. CallOK' /\ pc' \in {"open", "saving"}
  BY EndsProgram DEF IInv, Program, Closed
<1>2. lock' \in BOOLEAN
  BY DEF Closed, IInv, Program, HistOK
<1> QED  BY <1>1, <1>2, Outside DEF Closed, IInv, Program, HistOK, FpOK, PcOK, InDir

LEMMA CloseStep == ASSUME IInv, Close PROVE IInv'
<1>1. pc = "close" /\ FpOK
  BY DEF IInv, Program, Control, FileSound, Close, Opened
<1>2. Disk'
  BY <1>1, WrittenDisk DEF IInv, Close
<1>3. CASE Fails
  BY <1>2, <1>3, FailsAll DEF IInv, Close
<1>4. CASE Closed(TRUE)
  BY <1>2, <1>4, ClosedStep DEF IInv, Program, VolOK, Close
<1>5. CASE /\ pc' = "syncdir" /\ fp' = [fp EXCEPT !.dirty = FALSE]
           /\ UNCHANGED <<lock, call, lines, faults>>
  <2>1. Program'
    BY <1>1, <1>5 DEF IInv, Program, VolOK, CallOK, HistOK, PcOK, InDir, FpOK, Files, Close
  <2>2. Control'
    BY <1>1, <1>5 DEF IInv, Control, FileSound, EntrySound, PlaceSound, SearchSound, FreeSound,
      Clean,
      Opened, InWriting, Searching, FpOK, Files, Close
  <2> QED  BY <1>2, <2>1, <2>2 DEF IInv
<1> QED  BY <1>3, <1>4, <1>5 DEF Close

LEMMA SyncDirStep == ASSUME IInv, SyncDir PROVE IInv'
<1>1. Disk'
  BY PutEntryDisk DEF IInv, Program, FpOK, Files, Control, FileSound, Opened, SyncDir, At,
    Needed, InDir
<1>2. Program'
  BY DEF IInv, Program, VolOK, CallOK, FpOK, HistOK, PcOK, bounds, SyncDir
<1>3. Control'
  <2>1. meta'.fat = meta.fat /\ pc = "syncdir"
    BY DEF SyncDir, At, PutEntry, IInv, Disk, MetaOK
  <2> QED
    BY <2>1 DEF IInv, Control, FileSound, EntrySound, PlaceSound, SearchSound, FreeSound, Clean,
      Opened, InWriting, Searching, SyncDir
<1> QED  BY <1>1, <1>2, <1>3 DEF IInv

LEMMA SyncWindowStep == ASSUME IInv, SyncWindow PROVE IInv'
<1>1. Disk'
  <2>1. [win EXCEPT !.dirty = FALSE] \in Windows
    BY DEF IInv, Disk, WinOK, Windows
  <2> QED  BY <2>1, FlushedDisk DEF IInv, SyncWindow
<1>2. CASE Fails
  BY <1>1, <1>2, FailsAll DEF IInv, SyncWindow
<1>3. CASE ~Fails
  <2>1. Program'
    BY <1>3 DEF IInv, Program, VolOK, CallOK, FpOK, HistOK, PcOK, SyncWindow
  <2>2. ~win'.dirty
    BY <1>3 DEF IInv, Disk, WinOK, Windows, SyncWindow
  <2>3. Control'
    BY <1>3, <2>2 DEF IInv, Control, FileSound, EntrySound, PlaceSound, SearchSound, FreeSound,
      Clean,
      Opened, InWriting, Searching, SyncWindow
  <2> QED  BY <1>1, <2>1, <2>3 DEF IInv
<1> QED  BY <1>2, <1>3

LEMMA SyncInfoStep == ASSUME IInv, SyncInfo PROVE IInv'
<1>1. ~win.dirty
  BY DEF IInv, Control, Clean, SyncInfo
<1>2. Disk'
  <2>1. CASE UNCHANGED <<win, card>>
    BY <2>1, DiskSame DEF IInv, SyncInfo
  <2>2. CASE win' = [sect |-> Elsewhere, dirty |-> FALSE]
             /\ (card' = card \/ card' = [card EXCEPT !.free = vol.free, !.last = vol.last])
    <3>1. WinOK'
      BY <2>2 DEF WinOK, Windows, Elsewhere
    <3>2. vol.free \in 0 .. Unknown /\ vol.last \in 0 .. EOC
      BY DEF IInv, Program, VolOK
    <3>3. CardOK' /\ card'.fat = card.fat /\ card'.dir = card.dir
      BY <2>2, <3>2 DEF IInv, Disk, CardOK, Cards
    <3> QED
      BY <1>1, <2>2, <3>1, <3>3 DEF IInv, Disk, MetaOK, Agree, Sound, LinksAllocatedIn,
        LinksDistinct, HeadUnlinked,
        Sized, SyncInfo
  <2> QED  BY <2>1, <2>2 DEF SyncInfo
<1>3. VolOK'
  BY DEF IInv, Program, VolOK, SyncInfo
<1>4. Program' /\ Control'
  BY <1>3, ClosedStep DEF Program, SyncInfo
<1> QED  BY <1>2, <1>4 DEF IInv

-----------------------------------------------------------------------------
(* f_open.                                                                       *)

(* The offset that is left in the last cluster is in one of its sectors.         *)
LEMMA InCluster ==
  ASSUME NEW n \in Nat, n <= ClusterUnits, n % SectorUnits # 0 PROVE n \div SectorUnits < ClusterSectors
<1> DEFINE q == n \div SectorUnits
<1>1. SectorUnits \in Nat \ {0} /\ ClusterSectors \in Nat \ {0}
  BY FatAssumption
<1>2. n = SectorUnits * q + (n % SectorUnits) /\ q \in Nat /\ n % SectorUnits \in Nat
  BY <1>1
<1>3. SectorUnits * q < SectorUnits * ClusterSectors
  BY <1>1, <1>2 DEF ClusterUnits
<1> HIDE DEF q
<1>4. q < ClusterSectors
  BY <1>1, <1>2, <1>3
<1> QED  BY <1>4 DEF q

(* f_open goes to the end of the file.                                           *)
LEMMA ToSeekControl ==
  ASSUME NEW ofs \in Nat, Program, ToSeek(ofs), lock' \in BOOLEAN, UNCHANGED <<vol, truncated>>, FpOK',
         fp'.sclust # 0, fp'.clust # 0, fp'.clust # fp'.sclust => meta'.fat[fp'.sclust] # Free,
         Unlinked(meta'.fat, fp'.sclust),
         meta'.dir # NoEntry, meta'.dir.sclust \in {0, fp'.sclust}
  PROVE  Program' /\ Control'
<1>1. call' = [call EXCEPT !.ofs = ofs] /\ CallOK' /\ call'.ofs = ofs
  BY DEF ToSeek, Program, CallOK, Calls
<1>2. pc' \in {"seek", "load", "write"}
  BY DEF ToSeek
<1>3. pc' = "seek" => ofs > ClusterUnits
  BY DEF ToSeek
<1>4. pc' = "load" => ofs \div SectorUnits < ClusterSectors
  BY InCluster, ClusterUnitsNat DEF ToSeek
<1>5. Program'
  BY <1>1, <1>2 DEF Program, VolOK, HistOK, PcOK, InChain
<1>6. Control'
  BY <1>1, <1>2, <1>3, <1>4 DEF Control, FileSound, EntrySound, PlaceSound, SearchSound,
    FreeSound, Clean,
    Opened, InWriting, Searching
<1> QED  BY <1>5, <1>6

LEMMA OpenStep == ASSUME IInv, Open PROVE IInv'
<1>1. CASE Refused
  <2>1. UNCHANGED <<card, meta, win, vol, fp, lock, truncated>> /\ Ends(FALSE)
    BY <1>1 DEF Open, OpenFails
  <2>2. CallOK' /\ pc' \in {"open", "saving"}
    BY <2>1, EndsProgram DEF IInv, Program
  <2>3. Program'
    BY <2>1, <2>2 DEF IInv, Program, VolOK, FpOK, HistOK, PcOK, InDir
  <2> QED  BY <2>1, <2>2, <2>3, DiskSame, Outside DEF IInv
<1>2. CASE ~Refused
  <2> DEFINE new == meta.dir = NoEntry
             entry == IF new THEN [sclust |-> 0, size |-> 0] ELSE meta.dir
             seeks == call.append /\ entry.size > 0
  <2>1. /\ At("open") /\ IF new THEN Register ELSE UNCHANGED <<meta, win>>
        /\ lock' = TRUE
        /\ fp' = [sclust |-> entry.sclust, size |-> entry.size,
                  fptr |-> IF seeks THEN entry.size ELSE 0,
                  clust |-> IF seeks THEN entry.sclust ELSE 0,
                  sect |-> NoSector, buf |-> Blank, dirty |-> FALSE, modified |-> new]
        /\ IF seeks THEN ToSeek(entry.size)
           ELSE IF call.stage = 2 THEN pc' = "write" /\ UNCHANGED call
           ELSE IF entry.size > 0
           THEN pc' = "free" /\ call' = [call EXCEPT !.ncl = entry.sclust]
           ELSE pc' = "close" /\ UNCHANGED call
        /\ UNCHANGED <<card, vol, truncated>>
    BY <1>2 DEF Open, bounds
  <2>2. entry.sclust \in {0} \cup Clusters /\ entry.size \in Nat
    BY DEF IInv, Disk, MetaOK, Entries
  <2>3. entry.size > 0 => entry.sclust # 0
    BY DEF IInv, Disk, Sound, Sized
  <2>4. entry.sclust # 0 => Unlinked(meta.fat, entry.sclust)
    BY <2>2 DEF IInv, Disk, Sound, HeadUnlinked, Unlinked
  <2>5. Disk'
    <3>1. CASE new
      BY <2>1, <3>1, PutEntryDisk DEF IInv, Register, At, Needed, InDir
    <3>2. CASE ~new
      BY <2>1, <3>2, DiskSame DEF IInv
    <3> QED  BY <3>1, <3>2
  <2>6. meta'.fat = meta.fat /\ meta'.dir = [sclust |-> entry.sclust, size |-> entry.size]
        /\ meta'.dir # NoEntry
    <3>1. CASE new
      BY <2>1, <3>1, FatAssumption DEF IInv, Disk, MetaOK, Register, PutEntry, Entries
    <3>2. CASE ~new
      BY <2>1, <3>2 DEF IInv, Disk, MetaOK, Entries
    <3> QED  BY <3>1, <3>2
  <2>7. Blank \in Buffers
    BY DEF Blank, Buffers
  <2>8. FpOK'
    BY <2>1, <2>2, <2>7 DEF FpOK, Files
  <2>9. lock' \in BOOLEAN
    BY <2>1
  <2> HIDE DEF entry, new
  <2>10. CASE seeks
    <3>1. ToSeek(entry.size) /\ fp'.sclust = entry.sclust /\ fp'.clust = entry.sclust
      BY <2>1, <2>10
    <3>2. entry.sclust # 0 /\ Program
      BY <2>3, <2>10 DEF IInv
    <3> HIDE DEF seeks
    <3>3. meta'.dir.sclust = entry.sclust
      BY <2>6
    <3>4. Program' /\ Control'
      BY <2>1, <2>2, <2>4, <2>6, <2>8, <2>9, <3>1, <3>2, <3>3, ToSeekControl
    <3> QED  BY <2>5, <3>4 DEF IInv
  <2>11. CASE ~seeks
    <3>1. fp'.sclust = entry.sclust /\ fp'.size = entry.size /\ fp'.fptr = 0 /\ fp'.clust = 0
      BY <2>1, <2>11
    <3>2. \/ pc' = "write" /\ UNCHANGED call
          \/ pc' = "free" /\ call' = [call EXCEPT !.ncl = entry.sclust] /\ entry.size > 0
          \/ pc' = "close" /\ UNCHANGED call
      BY <2>1, <2>11
    <3> HIDE DEF seeks
    <3>3. CallOK'
      BY <2>2, <2>3, <3>2 DEF IInv, Program, CallOK, Calls
    <3>4. Program'
      BY <2>1, <2>8, <3>2, <3>3 DEF IInv, Program, VolOK, HistOK, PcOK, InSearch
    <3>5. pc' = "free" => call'.ncl = entry.sclust
      BY <3>2 DEF IInv, Program, CallOK, Calls
    <3>6. Control'
      BY <2>3, <2>4, <2>6, <3>1, <3>2, <3>5 DEF Control, FileSound, EntrySound, PlaceSound,
        SearchSound, FreeSound,
        Clean, Opened, InWriting, Searching
    <3> QED  BY <2>5, <3>4, <3>6 DEF IInv
  <2> QED  BY <2>10, <2>11
<1> QED  BY <1>1, <1>2

LEMMA SeekStep == ASSUME IInv, Seek PROVE IInv'
<1>1. Disk'
  BY DiskSame DEF IInv, Seek
<1>2. /\ pc = "seek" /\ fp.sclust # 0 /\ fp.clust \in Clusters
      /\ call.ofs > ClusterUnits /\ call.ofs \in Nat
  BY DEF IInv, Program, FpOK, Files, CallOK, Calls, Control, PlaceSound, InWriting, Seek, At
<1>3. CASE meta.fat[fp.clust] \in Clusters
  <2> DEFINE next == meta.fat[fp.clust]
  <2>1. /\ fp' = [fp EXCEPT !.clust = next] /\ ToSeek(call.ofs - ClusterUnits)
        /\ UNCHANGED <<lock, meta, vol, truncated>>
    BY <1>3 DEF Seek
  <2>2. FpOK' /\ fp'.sclust = fp.sclust /\ fp'.clust = next
    BY <1>3, <2>1 DEF IInv, Program, FpOK, Files
  <2>3. Program /\ lock \in BOOLEAN /\ Unlinked(meta.fat, fp.sclust)
        /\ meta.dir # NoEntry /\ meta.dir.sclust \in {0, fp.sclust}
    BY <1>2 DEF IInv, Program, HistOK, Control, FileSound, EntrySound, Opened, InWriting
  <2>4. meta.fat[fp.sclust] # Free
    BY <1>2, <1>3 DEF IInv, Control, PlaceSound, InWriting, Free, Clusters
  <2>5. call.ofs - ClusterUnits \in Nat
    BY <1>2, ClusterUnitsNat
  <2>7. next # 0
    BY <1>3 DEF Clusters
  <2> HIDE DEF next
  <2>8. Program' /\ Control'
    BY <1>2, <2>1, <2>2, <2>3, <2>4, <2>5, <2>7, ToSeekControl
  <2> QED  BY <1>1, <2>8 DEF IInv
<1>4. CASE meta.fat[fp.clust] \notin Clusters
  <2>1. Ends(FALSE) /\ lock' = FALSE /\ UNCHANGED <<fp, vol, truncated>>
    BY <1>4 DEF Seek, SeekFails, OpenFails
  <2>2. CallOK' /\ pc' \in {"open", "saving"}
    BY <2>1, EndsProgram DEF IInv, Program
  <2>3. Program'
    BY <2>1, <2>2 DEF IInv, Program, VolOK, FpOK, HistOK, PcOK, InDir
  <2> QED  BY <1>1, <2>2, <2>3, Outside DEF IInv
<1> QED  BY <1>3, <1>4

-----------------------------------------------------------------------------
(* remove_chain.                                                                 *)

LEMMA RecountedIn == ASSUME VolOK, vol' = Recounted PROVE VolOK'
<1>1. CASE vol.free < NClusters
  <2>1. vol.free + 1 \in 0 .. Unknown
    BY <1>1, Sizes DEF VolOK, Unknown
  <2>2. vol' = [vol EXCEPT !.free = vol.free + 1, !.behind = TRUE]
    BY <1>1 DEF Recounted
  <2> QED  BY <2>1, <2>2 DEF VolOK
<1>2. CASE ~(vol.free < NClusters)
  BY <1>2 DEF VolOK, Recounted
<1> QED  BY <1>1, <1>2

LEMMA ClosingControl ==
  ASSUME pc' = "close", fp'.sclust # 0 => Unlinked(meta'.fat, fp'.sclust),
         fp'.size > 0 => fp'.sclust # 0
  PROVE  Control'
  BY DEF Control, FileSound, EntrySound, PlaceSound, SearchSound, FreeSound, Clean, Opened,
    InWriting, Searching

(* The first cluster of a chain is freed: no link to it is left, and none to the *)
(* next.                                                                         *)
LEMMA FreeClusterStep == ASSUME IInv, FreeCluster PROVE IInv'
<1> DEFINE next == meta.fat[call.ncl]
<1>1. /\ pc = "free" /\ win.sect = FatSect(call.ncl) /\ call.ncl \in Clusters /\ card' = card
      /\ Unlinked(meta.fat, call.ncl)
      /\ fp.sclust # 0 => Unlinked(meta.fat, fp.sclust)
      /\ fp.size > 0 => fp.sclust # 0
  BY DEF IInv, Program, CallOK, Calls, Control, FreeSound, FileSound, Opened, FreeCluster, At,
    Needed, InDir,
    InChain, InSearch
<1>2. next \in {Free} \cup Clusters \cup {EOC} /\ MetaOK /\ Sound(meta)
  BY <1>1 DEF IInv, Disk, MetaOK, Fats
<1>3. CASE next = Free
  <2>1. Freed /\ UNCHANGED <<card, meta, win, vol, truncated>>
    BY <1>3 DEF FreeCluster, Free, Clusters
  <2>2. Program'
    BY <2>1 DEF IInv, Program, VolOK, FpOK, Files, CallOK, HistOK, PcOK, Freed
  <2>3. Disk'
    BY <2>1, DiskSame DEF IInv
  <2>4. Control'
    BY <1>1, <2>1, ClosingControl DEF IInv, Program, FpOK, Files, Freed
  <2> QED  BY <2>2, <2>3, <2>4 DEF IInv
<1>4. CASE next # Free
  <2>1. PutFat(call.ncl, Free) /\ vol' = Recounted /\ truncated' = TRUE
    BY <1>4 DEF FreeCluster
  <2>2. /\ \A b \in Clusters : meta'.fat[b] = IF b = call.ncl THEN Free ELSE meta.fat[b]
        /\ meta'.dir = meta.dir
    BY <1>1, <1>2, <2>1 DEF PutFat, MetaOK, Fats
  <2>3. Sound(meta)'
    <3>1. \A b \in Clusters : meta.fat[b] # call.ncl
      BY <1>1 DEF Unlinked
    <3>2. 0 \notin Clusters
      BY DEF Clusters
    <3> QED
      BY <1>1, <1>2, <2>2, <3>1, <3>2 DEF Sound, LinksAllocatedIn, LinksDistinct, HeadUnlinked,
        Sized, Free
  <2>4. Disk'
    BY <1>1, <2>1, <2>3, PutFatDisk DEF IInv
  <2>5. VolOK'
    BY <2>1, RecountedIn DEF IInv, Program
  <2>6. \A s \in Clusters : Unlinked(meta.fat, s) => Unlinked(meta'.fat, s)
    BY <2>2 DEF Unlinked, Clusters, Free
  <2>7. CASE next \in Clusters
    <3>1. call' = [call EXCEPT !.ncl = next] /\ UNCHANGED <<fp, lock, pc>>
      BY <2>7 DEF FreeCluster
    <3>2. CallOK' /\ call'.ncl = next
      BY <2>7, <3>1 DEF IInv, Program, CallOK, Calls
    <3>3. Program'
      BY <2>1, <2>5, <3>1, <3>2 DEF IInv, Program, FpOK, HistOK, PcOK
    <3>4. Unlinked(meta'.fat, next)
      BY <1>1, <1>2, <2>2, <2>7 DEF Sound, LinksDistinct, Unlinked, Clusters, Free
    <3>5. fp'.sclust # 0 => Unlinked(meta'.fat, fp'.sclust)
      BY <1>1, <2>6, <3>1 DEF IInv, Program, FpOK, Files
    <3> HIDE DEF next
    <3>6. Control'
      BY <1>1, <3>1, <3>2, <3>4, <3>5 DEF Control, FileSound, EntrySound, PlaceSound,
        SearchSound, FreeSound, Clean,
        Opened, InWriting, Searching
    <3> QED  BY <2>4, <3>3, <3>6 DEF IInv
  <2>8. CASE next \notin Clusters
    <3>1. Freed
      BY <2>8 DEF FreeCluster
    <3>2. Program'
      BY <2>1, <2>5, <3>1 DEF IInv, Program, FpOK, Files, CallOK, HistOK, PcOK, Freed
    <3>3. Control'
      BY <1>1, <3>1, ClosingControl DEF IInv, Program, FpOK, Files, Freed
    <3> QED  BY <2>4, <3>2, <3>3 DEF IInv
  <2> QED  BY <2>7, <2>8
<1> QED  BY <1>3, <1>4

-----------------------------------------------------------------------------
(* f_write.                                                                      *)

(* What the invariant says while the file is written.                            *)
LEMMA WritingFacts ==
  ASSUME IInv, pc \in InWriting
  PROVE  /\ fp.sclust # 0 => Unlinked(meta.fat, fp.sclust)
         /\ fp.size > 0 => fp.sclust # 0
         /\ meta.dir # NoEntry /\ meta.dir.sclust \in {0, fp.sclust}
         /\ fp.sclust \in {0} \cup Clusters /\ fp.clust \in {0} \cup Clusters
         /\ fp.size \in Nat /\ fp.fptr \in Nat
  BY DEF IInv, Program, FpOK, Files, Control, FileSound, EntrySound, Opened

(* The write goes on, in a cluster of the file.                                  *)
LEMMA WritingControl ==
  ASSUME IInv, pc \in InWriting, UNCHANGED <<meta, vol>>, fp'.sclust = fp.sclust, fp'.size \in Nat,
         fp'.fptr \in Nat, fp'.size > 0 => fp.sclust # 0,
         NEW where \in {"write", "copy", "flush", "follow", "next", "scan"}, pc' = where,
         fp'.fptr > 0 \/ where \in {"copy", "flush", "follow", "next"} =>
           /\ fp.sclust # 0 /\ fp'.clust # 0
           /\ fp'.clust # fp.sclust => meta.fat[fp.sclust] # Free,
         where = "follow" => fp'.fptr > 0,
         where \in {"next", "scan"} =>
           vol.free # 0 /\ (fp.sclust # 0 => meta.fat[fp.sclust] # Free /\ fp'.clust # 0)
  PROVE  Control'
<1>1. /\ fp.sclust # 0 => Unlinked(meta.fat, fp.sclust)
      /\ meta.dir # NoEntry /\ meta.dir.sclust \in {0, fp.sclust}
  BY DEF IInv, Control, FileSound, EntrySound, Opened
<1>2. FileSound' /\ EntrySound'
  BY <1>1 DEF FileSound, EntrySound
<1>3. PlaceSound'
  BY DEF PlaceSound
<1>4. SearchSound'
  BY DEF SearchSound, Searching
<1>5. FreeSound' /\ Clean'
  BY DEF FreeSound, Clean
<1> QED  BY <1>2, <1>3, <1>4, <1>5 DEF Control

(* The write ends.                                                               *)
LEMMA DiskFullStep ==
  ASSUME IInv, pc \in InWriting, DiskFull \/ WriteFails, UNCHANGED <<card, meta, win, vol, truncated>>
  PROVE  IInv'
<1>1. fp'.sclust = fp.sclust /\ fp'.size = fp.size /\ pc' = "close"
  BY DEF IInv, Program, FpOK, Files, DiskFull, WriteFails
<1>2. Control'
  BY <1>1, WritingFacts, ClosingControl
<1>3. Program'
  BY DEF IInv, Program, VolOK, FpOK, Files, CallOK, Calls, HistOK, PcOK, DiskFull, WriteFails
<1> QED  BY <1>2, <1>3, DiskSame DEF IInv

(* The search begins, or goes on, while the volume is not known to be full.      *)
LEMMA ScansStep ==
  ASSUME IInv, NEW scl \in 1 .. NClusters + 1, NEW ncl \in Clusters, NEW where \in {"next", "scan"},
         pc' = where, call' = [call EXCEPT !.scl = scl, !.ncl = ncl],
         UNCHANGED <<card, meta, win, vol, fp, lock, truncated>>,
         pc \in InWriting, vol.free # 0,
         fp.sclust # 0 => meta.fat[fp.sclust] # Free /\ fp.clust # 0,
         where = "next" \/ fp.fptr > 0 => fp.sclust # 0
  PROVE  IInv'
<1>1. CallOK'
  BY DEF IInv, Program, CallOK, Calls
<1>2. Program'
  BY <1>1 DEF IInv, Program, VolOK, FpOK, HistOK, PcOK, InSearch
<1>3. Control'
  BY WritingFacts, WritingControl
<1> QED  BY <1>2, <1>3, DiskSame DEF IInv

LEMMA SuggestedIn == ASSUME VolOK, Suggested PROVE vol.last \in 1 .. NClusters + 1
  BY FatAssumption DEF Suggested, Clusters

LEMMA WriteStep == ASSUME IInv, Write PROVE IInv'
<1>1. /\ pc = "write" /\ pc \in InWriting /\ UNCHANGED <<card, meta, win, vol, truncated>>
      /\ fp.fptr > 0 => /\ fp.sclust # 0 /\ fp.clust # 0
                        /\ fp.clust # fp.sclust => meta.fat[fp.sclust] # Free
  BY DEF Write, InWriting, bounds, IInv, Control, PlaceSound
<1>2. Disk'
  BY <1>1, DiskSame DEF IInv
<1>3. CASE pc' = "close" /\ fp' = [fp EXCEPT !.modified = TRUE] /\ UNCHANGED <<call, lock>>
  <2>1. fp'.sclust = fp.sclust /\ fp'.size = fp.size
    BY <1>3 DEF IInv, Program, FpOK, Files
  <2>2. Control'
    BY <1>1, <1>3, <2>1, WritingFacts, ClosingControl
  <2>3. Program'
    BY <1>1, <1>3 DEF IInv, Program, VolOK, FpOK, Files, CallOK, HistOK, PcOK
  <2> QED  BY <1>2, <2>2, <2>3 DEF IInv
<1>4. CASE pc' \in {"copy", "flush", "follow"} /\ UNCHANGED <<fp, call, lock>> /\ fp.fptr > 0
  <2>1. Program'
    BY <1>1, <1>4 DEF IInv, Program, VolOK, FpOK, CallOK, HistOK, PcOK, InChain
  <2>2. Control'
    BY <1>1, <1>4, WritingFacts, WritingControl
  <2> QED  BY <1>2, <2>1, <2>2 DEF IInv
<1>5. CASE /\ pc' = "flush" /\ fp' = [fp EXCEPT !.clust = fp.sclust]
           /\ UNCHANGED <<call, lock>> /\ fp.sclust # 0
  <2>1. Program'
    BY <1>1, <1>5, WritingFacts DEF IInv, Program, VolOK, FpOK, Files, CallOK, HistOK, PcOK
  <2>2. fp'.sclust = fp.sclust /\ fp'.clust = fp.sclust /\ fp'.size = fp.size
        /\ fp'.fptr = fp.fptr
    BY <1>5 DEF IInv, Program, FpOK, Files
  <2>3. Control'
    BY <1>1, <1>5, <2>2, WritingFacts, WritingControl
  <2> QED  BY <1>2, <2>1, <2>3 DEF IInv
<1>6. CASE DiskFull
  BY <1>1, <1>6, DiskFullStep
<1>7. CASE /\ SearchFrom(IF Suggested THEN vol.last ELSE 1)
           /\ vol.free # 0 /\ fp.sclust = 0 /\ ~(fp.fptr > 0)
  <2> DEFINE scl == IF Suggested THEN vol.last ELSE 1
  <2>1. scl \in 1 .. NClusters + 1
    BY SuggestedIn, FatAssumption DEF IInv, Program
  <2>2. Advance(scl) \in Clusters
    BY <2>1, AdvanceIn
  <2>3. /\ pc' = "scan" /\ call' = [call EXCEPT !.scl = scl, !.ncl = Advance(scl)]
        /\ UNCHANGED <<fp, lock>>
    BY <1>7 DEF SearchFrom, Scans
  <2> HIDE DEF scl
  <2> QED  BY <1>1, <1>7, <2>1, <2>2, <2>3, ScansStep
<1>8. fp.fptr \in Nat /\ (fp.fptr % SectorUnits # 0 \/ fp.fptr % ClusterUnits # 0 => fp.fptr > 0)
  BY <1>1, WritingFacts, Sizes, ClusterUnitsNat
<1> QED
  BY <1>1, <1>3, <1>4, <1>5, <1>6, <1>7, <1>8 DEF Write

LEMMA FollowStep == ASSUME IInv, Follow PROVE IInv'
<1>1. /\ pc = "follow" /\ pc \in InWriting /\ UNCHANGED <<card, meta, win, vol, truncated>>
      /\ fp.fptr > 0 /\ fp.sclust # 0 /\ fp.clust # 0
      /\ fp.clust # fp.sclust => meta.fat[fp.sclust] # Free
  BY DEF Follow, At, InWriting, bounds, IInv, Control, PlaceSound
<1>2. fp.clust \in Clusters
  BY <1>1, WritingFacts
<1> DEFINE next == meta.fat[fp.clust]
<1>3. CASE WriteFails \/ DiskFull
  BY <1>1, <1>3, DiskFullStep
<1>4. CASE /\ next \in Clusters /\ pc' = "flush" /\ fp' = [fp EXCEPT !.clust = next]
           /\ UNCHANGED <<call, lock>>
  <2>1. meta.fat[fp.sclust] # Free /\ next # 0
    BY <1>1, <1>4 DEF Free, Clusters
  <2>2. Program'
    BY <1>1, <1>4 DEF IInv, Program, VolOK, FpOK, Files, CallOK, HistOK, PcOK
  <2>3. fp'.sclust = fp.sclust /\ fp'.clust = next /\ fp'.size = fp.size /\ fp'.fptr = fp.fptr
    BY <1>4 DEF IInv, Program, FpOK, Files
  <2> HIDE DEF next
  <2>4. Control'
    BY <1>1, <1>4, <2>1, <2>3, WritingFacts, WritingControl
  <2> QED  BY <1>1, <2>2, <2>4, DiskSame DEF IInv
<1>5. CASE /\ next # Free /\ vol.free # 0 /\ UNCHANGED <<fp, lock>>
           /\ pc' = "next" /\ call' = [call EXCEPT !.scl = fp.clust, !.ncl = Advance(fp.clust)]
  <2>1. fp.clust \in 1 .. NClusters + 1
    BY <1>2 DEF Clusters
  <2>2. Advance(fp.clust) \in Clusters
    BY <2>1, AdvanceIn
  <2>3. meta.fat[fp.sclust] # Free
    BY <1>1, <1>5
  <2> HIDE DEF next
  <2> QED  BY <1>1, <1>5, <2>1, <2>2, <2>3, ScansStep
<1> QED  BY <1>1, <1>3, <1>4, <1>5 DEF Follow

(* What the invariant says while a cluster is looked for.                        *)
LEMMA SearchFacts ==
  ASSUME IInv, pc \in {"next", "scan", "mark", "link"}
  PROVE  /\ pc \in InWriting /\ vol.free # 0
         /\ fp.sclust # 0 => meta.fat[fp.sclust] # Free /\ fp.clust # 0
         /\ fp.fptr > 0 \/ pc \in {"next", "link"} => fp.sclust # 0 /\ fp.clust # 0
         /\ call.ncl \in Clusters /\ call.scl \in 1 .. NClusters + 1
  BY DEF IInv, Program, CallOK, Calls, Control, PlaceSound, SearchSound, InWriting, Searching

(* A free cluster has been found.                                                *)
LEMMA MarksStep ==
  ASSUME IInv, pc \in {"next", "scan"}, Marks, meta.fat[call.ncl] = Free,
         UNCHANGED <<card, meta, win, vol, truncated>>
  PROVE  IInv'
<1>1. Program'
  BY DEF IInv, Program, VolOK, FpOK, CallOK, HistOK, PcOK, InSearch, Marks
<1>2. Control'
  BY SearchFacts, WritingFacts DEF Control, FileSound, EntrySound, PlaceSound, SearchSound,
    FreeSound, Clean, Opened,
    InWriting, Searching, Marks
<1> QED  BY <1>1, <1>2, DiskSame DEF IInv

LEMMA ScanOnStep ==
  ASSUME IInv, pc \in {"next", "scan"}, NEW scl \in 1 .. NClusters + 1, NEW ncl \in Clusters,
         Scans(scl, ncl),
         UNCHANGED <<card, meta, win, vol, truncated>>
  PROVE  IInv'
  BY SearchFacts, ScansStep DEF Scans

LEMMA NextClusterStep == ASSUME IInv, NextCluster PROVE IInv'
<1>1. pc = "next" /\ UNCHANGED <<card, meta, win, vol, truncated>>
  BY DEF NextCluster, At, bounds
<1>2. CASE Marks /\ meta.fat[call.ncl] = Free
  BY <1>1, <1>2, MarksStep
<1>3. CASE SearchFrom(IF Suggested THEN vol.last ELSE call.scl)
  <2> DEFINE scl == IF Suggested THEN vol.last ELSE call.scl
  <2>1. scl \in 1 .. NClusters + 1
    BY <1>1, SuggestedIn, SearchFacts DEF IInv, Program
  <2>2. Advance(scl) \in Clusters
    BY <2>1, AdvanceIn
  <2>3. Scans(scl, Advance(scl))
    BY <1>3 DEF SearchFrom
  <2> HIDE DEF scl
  <2> QED  BY <1>1, <2>1, <2>2, <2>3, ScanOnStep
<1> QED  BY <1>2, <1>3 DEF NextCluster

LEMMA ScanStep == ASSUME IInv, Scan PROVE IInv'
<1>1. pc = "scan" /\ UNCHANGED <<card, meta, win, vol, truncated>>
  BY DEF Scan, At, bounds
<1>2. CASE Marks /\ meta.fat[call.ncl] = Free
  BY <1>1, <1>2, MarksStep
<1>3. CASE DiskFull
  BY <1>1, <1>3, SearchFacts, DiskFullStep
<1>4. CASE Scans(call.scl, Advance(call.ncl))
  <2>1. call.scl \in 1 .. NClusters + 1 /\ call.ncl \in 1 .. NClusters + 1
    BY <1>1, SearchFacts DEF Clusters
  <2>2. Advance(call.ncl) \in Clusters
    BY <2>1, AdvanceIn
  <2> QED  BY <1>1, <1>4, <2>1, <2>2, ScanOnStep
<1> QED  BY <1>2, <1>3, <1>4 DEF Scan

(* The file has the new cluster.                                                 *)
LEMMA AllocatedStep ==
  ASSUME IInv, pc \in {"mark", "link"}, Allocated, Disk', meta'.dir = meta.dir,
         UNCHANGED <<call, lock, truncated>>,
         fp'.sclust # 0 => Unlinked(meta'.fat, fp'.sclust),
         fp.sclust # 0 => meta'.fat[fp.sclust] # Free
  PROVE  IInv'
<1>1. pc' = "flush" /\ call.ncl \in Clusters /\ call.ncl # 0
  BY SearchFacts DEF Allocated, Clusters
<1>2. /\ fp'.clust = call.ncl /\ fp'.sclust = (IF fp.sclust = 0 THEN call.ncl ELSE fp.sclust)
      /\ fp'.size = fp.size
      /\ fp'.fptr = fp.fptr /\ FpOK'
  BY <1>1 DEF IInv, Program, FpOK, Files, Allocated
<1>3. VolOK'
  <2> DEFINE free == IF vol.free <= NClusters THEN vol.free - 1 ELSE vol.free
  <2>1. call.ncl \in 0 .. EOC
    BY <1>1, Sizes DEF Clusters, EOC
  <2>2. free \in 0 .. Unknown
    <3>1. vol.free # 0 /\ vol.free \in 0 .. NClusters + 1 /\ NClusters \in Nat
      BY SearchFacts, Sizes DEF IInv, Program, VolOK, Unknown
    <3> QED  BY <3>1 DEF Unknown
  <2>3. vol' = [vol EXCEPT !.last = call.ncl, !.behind = TRUE, !.free = free]
    BY DEF Allocated
  <2> HIDE DEF free
  <2> QED  BY <2>1, <2>2, <2>3 DEF IInv, Program, VolOK
<1>4. Program'
  BY <1>1, <1>2, <1>3 DEF IInv, Program, CallOK, HistOK, PcOK
<1>5. meta.dir # NoEntry /\ meta.dir.sclust \in {0, fp.sclust} /\ (fp.size > 0 => fp.sclust # 0)
  BY SearchFacts, WritingFacts
<1>6. Control'
  BY <1>1, <1>2, <1>5 DEF Control, FileSound, EntrySound, PlaceSound, SearchSound, FreeSound,
    Clean, Opened,
    InWriting, Searching
<1> QED  BY <1>4, <1>6 DEF IInv

(* The new cluster is marked: it was free, so nothing leads to it.               *)
LEMMA MarkStep == ASSUME IInv, Mark PROVE IInv'
<1>1. /\ pc = "mark" /\ pc \in InWriting /\ call.ncl \in Clusters /\ win.sect = FatSect(call.ncl)
      /\ meta.fat[call.ncl] = Free /\ UNCHANGED <<card, call, lock, truncated>> /\ PutFat(call.ncl, EOC)
  BY SearchFacts DEF Mark, At, Needed, InDir, InChain, bounds, IInv, Control, SearchSound
<1>2. MetaOK /\ Sound(meta)
  BY DEF IInv, Disk
<1>3. /\ \A b \in Clusters : meta'.fat[b] = IF b = call.ncl THEN EOC ELSE meta.fat[b]
      /\ meta'.dir = meta.dir
  BY <1>1, <1>2 DEF PutFat, MetaOK, Fats
<1>4. EOC \notin Clusters /\ EOC # Free /\ EOC # 0
  BY Sizes DEF EOC, Clusters, Free
<1>5. Unlinked(meta.fat, call.ncl)
  BY <1>1, <1>2 DEF Sound, LinksAllocatedIn, Unlinked
<1>6. Sound(meta)'
  BY <1>2, <1>3, <1>4 DEF Sound, LinksAllocatedIn, LinksDistinct, HeadUnlinked, Sized
<1>7. Disk'
  BY <1>1, <1>6, PutFatDisk DEF IInv
<1>8. \A s \in Clusters : Unlinked(meta.fat, s) => Unlinked(meta'.fat, s)
  BY <1>3, <1>4 DEF Unlinked
<1>9. CASE fp.sclust # 0
  <2>1. pc' = "link" /\ UNCHANGED <<vol, fp>>
    BY <1>9 DEF Mark
  <2>2. Program'
    BY <1>1, <2>1 DEF IInv, Program, VolOK, FpOK, CallOK, HistOK, PcOK, InChain
  <2>3. fp.sclust # call.ncl /\ meta'.fat[fp.sclust] # Free /\ meta'.fat[call.ncl] # Free
    BY <1>1, <1>3, <1>4, <1>9, SearchFacts, WritingFacts
  <2>4. Unlinked(meta'.fat, fp.sclust) /\ Unlinked(meta'.fat, call.ncl)
    BY <1>1, <1>5, <1>8, <1>9, WritingFacts
  <2>5. meta.dir # NoEntry /\ meta.dir.sclust \in {0, fp.sclust} /\ vol.free # 0 /\ fp.clust # 0
    BY <1>1, <1>9, SearchFacts, WritingFacts
  <2>6. Control'
    BY <1>1, <1>3, <1>9, <2>1, <2>3, <2>4, <2>5 DEF Control, FileSound, EntrySound, PlaceSound,
      SearchSound,
      FreeSound, Clean, Opened, InWriting, Searching
  <2> QED  BY <1>7, <2>2, <2>6 DEF IInv
<1>10. CASE fp.sclust = 0
  <2>1. Allocated
    BY <1>10 DEF Mark
  <2>2. fp'.sclust = call.ncl
    BY <1>10, <2>1 DEF IInv, Program, FpOK, Files, Allocated
  <2> QED  BY <1>1, <1>3, <1>5, <1>7, <1>8, <1>10, <2>1, <2>2, AllocatedStep
<1> QED  BY <1>9, <1>10

(* The marked cluster is linked to the last one.                                 *)
LEMMA LinkStep == ASSUME IInv, Link PROVE IInv'
<1>1. /\ pc = "link" /\ pc \in InWriting /\ call.ncl \in Clusters /\ win.sect = FatSect(fp.clust)
      /\ meta.fat[call.ncl] # Free /\ Unlinked(meta.fat, call.ncl) /\ call.ncl # fp.sclust
      /\ fp.sclust # 0 /\ fp.clust # 0 /\ meta.fat[fp.sclust] # Free
      /\ UNCHANGED <<card, call, lock, truncated>> /\ PutFat(fp.clust, call.ncl) /\ Allocated
  BY SearchFacts DEF Link, At, Needed, InDir, InChain, bounds, IInv, Control, SearchSound
<1>2. /\ MetaOK /\ Sound(meta) /\ fp.sclust \in Clusters /\ fp.clust \in Clusters
      /\ Unlinked(meta.fat, fp.sclust) /\ meta.dir # NoEntry /\ meta.dir.sclust \in {0, fp.sclust}
  BY <1>1, WritingFacts DEF IInv, Disk
<1>3. /\ \A b \in Clusters : meta'.fat[b] = IF b = fp.clust THEN call.ncl ELSE meta.fat[b]
      /\ meta'.dir = meta.dir
  BY <1>1, <1>2 DEF PutFat, MetaOK, Fats
<1>4. call.ncl # Free /\ call.ncl # 0
  BY <1>1 DEF Clusters, Free
<1>5. Sound(meta)'
  <2>1. LinksAllocatedIn(meta'.fat)
    BY <1>1, <1>2, <1>3, <1>4 DEF Sound, LinksAllocatedIn
  <2>2. LinksDistinct(meta'.fat)
    BY <1>1, <1>2, <1>3 DEF Sound, LinksDistinct, Unlinked
  <2>3. HeadUnlinked(meta'.fat, meta'.dir)
    BY <1>1, <1>2, <1>3, <1>4 DEF Sound, HeadUnlinked
  <2>4. Sized(meta'.dir)
    BY <1>2, <1>3 DEF Sound
  <2> QED  BY <2>1, <2>2, <2>3, <2>4 DEF Sound
<1>6. Disk'
  BY <1>1, <1>2, <1>5, PutFatDisk DEF IInv
<1>7. Unlinked(meta'.fat, fp.sclust) /\ meta'.fat[fp.sclust] # Free
  BY <1>1, <1>2, <1>3, <1>4 DEF Unlinked
<1>8. fp'.sclust = fp.sclust
  BY <1>1 DEF IInv, Program, FpOK, Files, Allocated
<1> QED  BY <1>1, <1>3, <1>6, <1>7, <1>8, AllocatedStep

LEMMA CopyStep == ASSUME IInv, lines \in Nat, Copy PROVE IInv'
<1> DEFINE from == fp.fptr % SectorUnits
           n == IF call.left < SectorUnits - from THEN call.left ELSE SectorUnits - from
           size == IF fp.fptr + n > fp.size THEN fp.fptr + n ELSE fp.size
           buf == [i \in DOMAIN fp.buf |-> IF i \in from .. from + n - 1
                     THEN Unit(LineUnits - call.left + (i - from) + 1) ELSE fp.buf[i]]
<1>1. /\ pc = "copy" /\ pc \in InWriting /\ fp.sclust # 0 /\ fp.clust # 0
      /\ fp.clust # fp.sclust => meta.fat[fp.sclust] # Free
  BY DEF Copy, InWriting, IInv, Control, PlaceSound
<1>2. /\ fp' = [fp EXCEPT !.dirty = TRUE, !.fptr = fp.fptr + n, !.size = size, !.buf = buf]
      /\ call' = [call EXCEPT !.left = call.left - n] /\ pc' = "write"
      /\ UNCHANGED <<card, meta, win, vol, lock, truncated>>
  BY DEF Copy, bounds
<1>3. fp.fptr \in Nat /\ fp.size \in Nat /\ call.left \in 0 .. LineUnits /\ fp.buf \in Buffers
  BY DEF IInv, Program, FpOK, Files, CallOK, Calls
<1>4. from \in 0 .. SectorUnits - 1
  BY <1>3, OfsNat
<1>5. n \in Nat /\ n <= call.left
  BY <1>3, <1>4, Sizes
<1>6. fp.fptr + n \in Nat /\ size \in Nat /\ call.left - n \in 0 .. LineUnits
  BY <1>3, <1>5, Sizes
<1>7. buf \in Buffers
  <2>1. DOMAIN fp.buf = 0 .. SectorUnits - 1 /\ \A i \in 0 .. SectorUnits - 1 : fp.buf[i] \in Int
    BY <1>3 DEF Buffers
  <2>2. \A i \in 0 .. SectorUnits - 1 : Unit(LineUnits - call.left + (i - from) + 1) \in Int
    BY <1>3, <1>4, Sizes DEF Unit
  <2> HIDE DEF from, n
  <2> QED  BY <2>1, <2>2 DEF Buffers
<1> HIDE DEF n, size, buf
<1>8. FpOK' /\ CallOK'
  BY <1>2, <1>6, <1>7 DEF IInv, Program, FpOK, Files, CallOK, Calls
<1>9. Program'
  BY <1>2, <1>8 DEF IInv, Program, VolOK, HistOK, PcOK
<1>10. fp'.sclust = fp.sclust /\ fp'.clust = fp.clust /\ fp'.size \in Nat /\ fp'.fptr \in Nat
  BY <1>2, <1>6 DEF IInv, Program, FpOK, Files
<1>11. Control'
  BY <1>1, <1>2, <1>10, WritingControl
<1> QED  BY <1>2, <1>9, <1>11, DiskSame DEF IInv

(* Lines are counted.                                                            *)
LEMMA LinesStep == ASSUME lines \in Nat, [FatNext]_fatVars PROVE lines' \in Nat
<1>1. lines' = lines \/ lines' = lines + 1
  BY DEF FatNext, FatStep, fatVars, bounds, MoveWindow, Mount, Probe, Load, Open, Seek,
    FillBuffer, FreeCluster, Write,
    Follow, NextCluster, Scan, Mark, Link, Flush, Copy, Close, SyncDir, SyncWindow, SyncInfo,
    BeginSave, BeginRow,
    EndSave, BeginLoad, Halted, Crash, Fails, Probed
<1> QED  BY <1>1

LEMMA SameStep == ASSUME IInv, UNCHANGED fatVars PROVE IInv'
<1>1. Disk'
  BY DiskSame DEF IInv, fatVars
<1>2. Program' /\ Control'
  BY DEF IInv, fatVars, Program, VolOK, FpOK, CallOK, HistOK, PcOK, Control, FileSound,
    EntrySound, PlaceSound,
    SearchSound, FreeSound, Clean
<1> QED  BY <1>1, <1>2 DEF IInv

LEMMA InitStep == ASSUME FatInit PROVE IInv
<1>1. Blank \in Buffers
  BY DEF Blank, Buffers
<1>2. card \in Volumes
  BY DEF FatInit
<1>3. CardOK /\ Sound(card)
  BY <1>2, FatAssumption DEF CardOK, Cards, Sound
<1>4. MetaOK /\ WinOK /\ Sound(meta) /\ Agree
  <2>1. meta.fat = card.fat /\ meta.dir = card.dir /\ win = [sect |-> Elsewhere, dirty |-> FALSE]
    BY DEF FatInit
  <2>2. MetaOK
    BY <1>3 DEF FatInit, CardOK, Cards, MetaOK
  <2> QED  BY <1>3, <2>1, <2>2 DEF WinOK, Windows, Sound, Agree, Elsewhere
<1>5. VolOK /\ HistOK /\ PcOK
  <2>1. Uninformed \in [free : 0 .. Unknown, last : 0 .. EOC, behind : BOOLEAN, kept : BOOLEAN]
    BY Sizes DEF Uninformed, Unknown, EOC
  <2> QED  BY <2>1 DEF FatInit, VolOK, HistOK, PcOK
<1>6. FpOK /\ CallOK
  BY <1>1, Sizes DEF FatInit, Closed0, Nothing, FpOK, CallOK, Files, Calls, Clusters
<1>7. Control
  BY DEF FatInit, Control, FileSound, EntrySound, PlaceSound, SearchSound, FreeSound, Clean,
    Opened, InWriting,
    Searching
<1> QED  BY <1>3, <1>4, <1>5, <1>6, <1>7 DEF IInv, Disk, Program

LEMMA NextStep == ASSUME IInv, lines \in Nat, [FatNext]_fatVars PROVE IInv'
<1>1. CASE BeginSave \/ EndSave \/ BeginLoad \/ BeginRow
  BY <1>1, CallerStep
<1>2. CASE MoveWindow  BY <1>2, MoveWindowStep
<1>3. CASE Mount  BY <1>3, MountStep
<1>4. CASE Probe  BY <1>4, ProbeStep
<1>5. CASE Load  BY <1>5, LoadStep
<1>6. CASE Open  BY <1>6, OpenStep
<1>7. CASE Seek  BY <1>7, SeekStep
<1>8. CASE FillBuffer  BY <1>8, FillBufferStep
<1>9. CASE FreeCluster  BY <1>9, FreeClusterStep
<1>10. CASE Write  BY <1>10, WriteStep
<1>11. CASE Follow  BY <1>11, FollowStep
<1>12. CASE NextCluster  BY <1>12, NextClusterStep
<1>13. CASE Scan  BY <1>13, ScanStep
<1>14. CASE Mark  BY <1>14, MarkStep
<1>15. CASE Link  BY <1>15, LinkStep
<1>16. CASE Flush  BY <1>16, FlushStep
<1>17. CASE Copy  BY <1>17, CopyStep
<1>18. CASE Close  BY <1>18, CloseStep
<1>19. CASE SyncDir  BY <1>19, SyncDirStep
<1>20. CASE SyncWindow  BY <1>20, SyncWindowStep
<1>21. CASE SyncInfo  BY <1>21, SyncInfoStep
<1>22. CASE Crash  BY <1>22, CrashStep
<1>23. CASE Halted \/ UNCHANGED fatVars
  BY <1>23, SameStep DEF Halted
<1> QED
  BY <1>1, <1>2, <1>3, <1>4, <1>5, <1>6, <1>7, <1>8, <1>9, <1>10, <1>11, <1>12, <1>13, <1>14,
    <1>15, <1>16, <1>17,
     <1>18, <1>19, <1>20, <1>21, <1>22, <1>23 DEF FatNext, FatStep

(* The invariant holds of every behaviour.                                       *)
THEOREM FatInvariant == FatSpec => [](IInv /\ lines \in Nat)
<1>1. FatInit => IInv /\ lines \in Nat
  <2>1. FatInit => lines \in Nat
    BY DEF FatInit
  <2> QED  BY <2>1, InitStep
<1>2. IInv /\ lines \in Nat /\ [FatNext]_fatVars => (IInv /\ lines \in Nat)'
  <2> SUFFICES ASSUME IInv, lines \in Nat, [FatNext]_fatVars PROVE IInv' /\ lines' \in Nat
    OBVIOUS
  <2> QED  BY NextStep, LinesStep
<1> QED  BY <1>1, <1>2, PTL DEF FatSpec

(* Every variable keeps its type: no link, sector or cluster number leaves the   *)
(* volume, whatever is on a card with sound links, whichever accesses fail and   *)
(* wherever power does.                                                          *)
THEOREM FatTypeHolds == FatSpec => []FatTypeOK
<1>1. IInv => FatTypeOK
  BY DEF IInv, Disk, Program, FatTypeOK
<1> QED  BY <1>1, FatInvariant, PTL

(* On the card, and as the program sees it, no chain leads to a free cluster:    *)
(* create_chain marks a cluster before it links it (ff.c:1600), and remove_chain *)
(* frees a chain from its head (ff.c:1460).                                      *)
THEOREM LinksAllocatedHolds == FatSpec => []LinksAllocated
<1>1. IInv => LinksAllocated
  BY DEF IInv, Disk, Sound, LinksAllocated
<1> QED  BY <1>1, FatInvariant, PTL

-----------------------------------------------------------------------------
(* The count of the free clusters.                                               *)

(* FatFs's count covers the FAT it sees, with one to spare while a cluster is marked *)
(* and not yet counted; the card's covers the FAT on the card, which is what is      *)
(* seen after a power cut, and the FAT as the window will leave it.  Freed clusters  *)
(* undo the second, so a boot after them needs a power cut between.                  *)
CountSound ==
  /\ ~(truncated /\ crashes > 0) =>
       Covers(vol.free, meta.fat) /\ (pc = "link" => Covers(vol.free - 1, meta.fat))
  /\ ~truncated => Covers(card.free, card.fat) /\ Covers(card.free, meta.fat)
  /\ pc = "boot" /\ truncated => crashes > 0

CountInv == IInv /\ lines \in Nat /\ crashes \in Nat /\ CountSound

LEMMA FreeFinite ==
  ASSUME NEW fat
  PROVE  /\ IsFiniteSet(FreeClusters(fat))
         /\ Cardinality(FreeClusters(fat)) \in 0 .. NClusters
<1>1. IsFiniteSet(Clusters) /\ Cardinality(Clusters) = NClusters
  <2>1. NClusters \in Nat \ {0} /\ 2 \in Int /\ NClusters + 1 \in Int
    BY Sizes
  <2> QED  BY <2>1, FS_Interval DEF Clusters
<1>2. FreeClusters(fat) \in SUBSET Clusters
  BY DEF FreeClusters
<1>3. IsFiniteSet(FreeClusters(fat)) /\ Cardinality(FreeClusters(fat)) <= NClusters
  BY <1>1, <1>2, FS_Subset
<1>4. Cardinality(FreeClusters(fat)) \in Nat
  BY <1>3, FS_CardinalityType
<1> QED  BY <1>3, <1>4, Sizes

(* A FAT with no more free clusters is covered by the same count.                *)
LEMMA CoversFewer ==
  ASSUME NEW free \in Int, NEW f, NEW g, Covers(free, f), FreeClusters(g) \subseteq FreeClusters(f)
  PROVE  Covers(free, g)
<1>1. Cardinality(FreeClusters(g)) <= Cardinality(FreeClusters(f))
  BY FreeFinite, FS_Subset
<1> QED  BY <1>1, FreeFinite DEF Covers

(* A cluster that is marked or freed is one less or one more.                    *)
LEMMA CountMarked ==
  ASSUME NEW f, NEW g, NEW c, c \in FreeClusters(f), FreeClusters(g) = FreeClusters(f) \ {c}
  PROVE  Cardinality(FreeClusters(g)) = Cardinality(FreeClusters(f)) - 1
  BY FreeFinite, FS_RemoveElement

LEMMA CountFreed ==
  ASSUME NEW f, NEW g, NEW c, FreeClusters(g) = FreeClusters(f) \cup {c}
  PROVE  Cardinality(FreeClusters(g)) <= Cardinality(FreeClusters(f)) + 1
<1>1. IsFiniteSet(FreeClusters(f)) /\ Cardinality(FreeClusters(f)) \in Int
  BY FreeFinite
<1>2. Cardinality(FreeClusters(g)) =
        IF c \in FreeClusters(f) THEN Cardinality(FreeClusters(f)) ELSE Cardinality(FreeClusters(f)) + 1
  BY <1>1, FS_AddElement
<1> QED  BY <1>1, <1>2

LEMMA CountTypes ==
  ASSUME IInv
  PROVE  card.free \in Nat /\ vol.free \in Nat
  BY Sizes DEF IInv, Disk, CardOK, Cards, Program, VolOK, Unknown

(* Steps that change neither what the program sees of FAT nor a count.           *)
LEMMA CountKept ==
  ASSUME IInv, CountSound, meta'.fat = meta.fat, UNCHANGED <<crashes, truncated>>,
         vol'.free = vol.free, card'.free = card.free, card'.fat \in {card.fat, meta.fat},
         pc' = "link" => pc = "link", pc' # "boot"
  PROVE  CountSound'
<1>1. Covers(vol'.free, meta'.fat) <=> Covers(vol.free, meta.fat)
  OBVIOUS
<1>2. Covers(vol'.free - 1, meta'.fat) <=> Covers(vol.free - 1, meta.fat)
  OBVIOUS
<1>3. ~truncated' => Covers(card'.free, card'.fat) /\ Covers(card'.free, meta'.fat)
  BY DEF CountSound
<1> QED  BY <1>1, <1>2, <1>3 DEF CountSound

(* What is on the card, once a step has written to it.                           *)
LEMMA CardWrites ==
  ASSUME IInv, card' \in {card, Flushed, Written}
  PROVE  card'.free = card.free /\ card'.fat \in {card.fat, meta.fat}
<1>1. Flushed = [card EXCEPT !.fat = meta.fat, !.dir = meta.dir]
  BY FlushedIs DEF IInv, Disk
<1>2. Written.free = card.free /\ Written.fat = card.fat
  BY DEF IInv, Disk, CardOK, Cards, Written
<1>3. Flushed.free = card.free /\ Flushed.fat = meta.fat
  BY <1>1 DEF IInv, Disk, CardOK, Cards
<1> QED  BY <1>2, <1>3

LEMMA FailsPlace == ASSUME Fails PROVE pc' \notin {"link", "boot"}
  BY DEF Fails, Probed, OpenFails, SeekFails, Ends, Freed, WriteFails, Closed

(* The steps that neither mark, link nor free a cluster, nor read or write FSInfo. *)
Quiet ==
  \/ MoveWindow \/ Probe \/ Load \/ Open \/ Seek \/ FillBuffer \/ Write \/ Follow \/ NextCluster
  \/ Scan \/ Flush \/ Copy \/ Close \/ SyncDir \/ SyncWindow
  \/ BeginSave \/ BeginRow \/ EndSave \/ BeginLoad

LEMMA CountQuiet == ASSUME IInv, CountSound, Quiet PROVE CountSound'
<1>1. MetaOK
  BY DEF IInv, Disk
<1>2. meta'.fat = meta.fat
  BY <1>1 DEF Quiet, MetaOK, MoveWindow, Probe, Load, Open, Seek, FillBuffer, Write, Follow,
    NextCluster, Scan, Flush, Copy, Close, SyncDir, SyncWindow, BeginSave, BeginRow, EndSave,
    BeginLoad, Register, PutEntry
<1>3. UNCHANGED <<vol, crashes, truncated>>
  BY DEF Quiet, MoveWindow, Probe, Load, Open, Seek, FillBuffer, Write, Follow,
    NextCluster, Scan, Flush, Copy, Close, SyncDir, SyncWindow, BeginSave, BeginRow, EndSave,
    BeginLoad, bounds
<1>4. card' \in {card, Flushed, Written}
  BY DEF Quiet, MoveWindow, Probe, Load, Open, Seek, FillBuffer, Write, Follow,
    NextCluster, Scan, Flush, Copy, Close, SyncDir, SyncWindow, BeginSave, BeginRow, EndSave,
    BeginLoad
<1>5. pc' # "boot" /\ (pc' = "link" => pc = "link")
  <2>1. CASE MoveWindow \/ FillBuffer \/ Flush \/ Close \/ SyncWindow
    <3>1. CASE Fails
      BY <3>1, FailsPlace
    <3>2. CASE ~Fails
      BY <2>1, <3>2 DEF MoveWindow, FillBuffer, Flush, Close, SyncWindow, Closed, Ends, InDir,
        InChain, InSearch
    <3> QED  BY <3>1, <3>2
  <2>2. CASE Probe \/ Load \/ Open \/ Seek \/ SyncDir \/ Copy \/ BeginSave \/ BeginRow \/ EndSave
             \/ BeginLoad
    BY <2>2 DEF Probe, Load, Open, Seek, SyncDir, Copy, BeginSave, BeginRow, EndSave, BeginLoad,
      Probed, OpenFails, SeekFails, Ends, ToSeek
  <2>3. CASE Write \/ Follow \/ NextCluster \/ Scan
    BY <2>3 DEF Write, Follow, NextCluster, Scan, DiskFull, WriteFails, SearchFrom, Scans, Marks
  <2> QED  BY <2>1, <2>2, <2>3 DEF Quiet
<1>6. vol'.free = vol.free /\ UNCHANGED <<crashes, truncated>>
  BY <1>3
<1>7. card'.free = card.free /\ card'.fat \in {card.fat, meta.fat}
  BY <1>4, CardWrites
<1> QED  BY <1>2, <1>5, <1>6, <1>7, CountKept

(* initialiseSD takes FSInfo's count, or none.                                   *)
LEMMA CountMount == ASSUME IInv, CountSound, Mount PROVE CountSound'
<1>1. pc = "boot" /\ pc' \in {"idle", "halted"} /\ UNCHANGED <<card, meta, crashes, truncated>>
  BY DEF Mount
<1>2. ~(truncated /\ crashes > 0) => Covers(card.free, meta.fat)
  BY <1>1 DEF CountSound
<1>3. vol'.free \in {card.free, vol.free, Unknown}
  BY DEF Mount, Informed, Uninformed
<1>4. Covers(Unknown, meta.fat)
  BY Sizes DEF Covers, Unknown
<1>5. ~(truncated /\ crashes > 0) => Covers(vol'.free, meta.fat)
  BY <1>2, <1>3, <1>4 DEF CountSound
<1> QED  BY <1>1, <1>5 DEF CountSound

(* remove_chain: one more free cluster, and the count says so (ff.c:1463).       *)
LEMMA CountFree == ASSUME IInv, CountSound, FreeCluster PROVE CountSound'
<1>1. pc' \notin {"link", "boot"} /\ UNCHANGED <<card, crashes>> /\ pc = "free"
  BY DEF FreeCluster, At, Freed, bounds
<1>2. CASE UNCHANGED <<meta, win, vol, truncated>>
  BY <1>1, <1>2 DEF CountSound
<1>3. CASE PutFat(call.ncl, Free) /\ vol' = Recounted /\ truncated'
  <2> DEFINE before == Cardinality(FreeClusters(meta.fat))
             after == Cardinality(FreeClusters(meta'.fat))
  <2>1. FreeClusters(meta'.fat) = FreeClusters(meta.fat) \cup {call.ncl}
    <3>1. MetaOK /\ call.ncl \in Clusters
      BY DEF IInv, Disk, Program, CallOK, Calls
    <3>2. \A b \in Clusters : meta'.fat[b] = IF b = call.ncl THEN Free ELSE meta.fat[b]
      BY <1>3, <3>1 DEF PutFat, MetaOK, Fats
    <3> QED  BY <3>1, <3>2 DEF FreeClusters
  <2>2. after <= before + 1 /\ before \in Nat /\ after \in 0 .. NClusters
    <3>1. after <= before + 1
      BY <2>1, CountFreed
    <3>2. before \in 0 .. NClusters /\ after \in 0 .. NClusters
      BY FreeFinite
    <3> HIDE DEF before, after
    <3> QED  BY <3>1, <3>2, Sizes
  <2>3. vol'.free = IF vol.free < NClusters THEN vol.free + 1 ELSE vol.free
    BY <1>3 DEF Recounted, IInv, Program, VolOK
  <2>4. vol.free \in Nat /\ NClusters \in Nat
    BY CountTypes, Sizes
  <2>5. ~(truncated' /\ crashes' > 0) => (vol.free <= NClusters => vol.free >= before)
    BY <1>1, <1>3 DEF CountSound, Covers
  <2> HIDE DEF before, after
  <2>6. ~(truncated' /\ crashes' > 0) => (vol'.free <= NClusters => vol'.free >= after)
    BY <2>2, <2>3, <2>4, <2>5
  <2>7. ~(truncated' /\ crashes' > 0) => Covers(vol'.free, meta'.fat)
    BY <2>6 DEF Covers, after
  <2> QED  BY <1>1, <1>3, <2>7 DEF CountSound
<1> QED  BY <1>2, <1>3 DEF FreeCluster

(* create_chain counts the cluster when it has been linked: from then on the count *)
(* is one less (ff.c:1608).                                                      *)
LEMMA CountAllocated ==
  ASSUME IInv, CountSound, Allocated, UNCHANGED <<card, crashes, truncated>>,
         ~(truncated /\ crashes > 0) => Covers(vol.free - 1, meta'.fat),
         FreeClusters(meta'.fat) \subseteq FreeClusters(meta.fat)
  PROVE  CountSound'
<1>1. pc' = "flush" /\ vol'.free \in {vol.free, vol.free - 1}
      /\ (vol'.free = vol.free => vol.free > NClusters)
  BY CountTypes, Sizes DEF Allocated, IInv, Program, VolOK
<1>2. vol.free > NClusters => Covers(vol.free, meta'.fat)
  BY CountTypes, Sizes DEF Covers
<1>3. ~truncated => Covers(card.free, meta'.fat)
  BY CoversFewer, CountTypes DEF CountSound
<1> QED  BY <1>1, <1>2, <1>3 DEF CountSound

LEMMA CountMark == ASSUME IInv, CountSound, Mark PROVE CountSound'
<1>1. /\ call.ncl \in Clusters /\ meta.fat[call.ncl] = Free
      /\ PutFat(call.ncl, EOC) /\ UNCHANGED <<card, crashes, truncated>>
  BY SearchFacts DEF Mark, At, bounds, IInv, Control, SearchSound
<1>2. FreeClusters(meta'.fat) = FreeClusters(meta.fat) \ {call.ncl}
  <2>1. MetaOK /\ EOC # Free
    BY Sizes DEF IInv, Disk, EOC, Free
  <2>2. \A b \in Clusters : meta'.fat[b] = IF b = call.ncl THEN EOC ELSE meta.fat[b]
    BY <1>1, <2>1 DEF PutFat, MetaOK, Fats
  <2> QED  BY <2>1, <2>2 DEF FreeClusters
<1>3. call.ncl \in FreeClusters(meta.fat)
  BY <1>1 DEF FreeClusters
<1>4. Cardinality(FreeClusters(meta'.fat)) = Cardinality(FreeClusters(meta.fat)) - 1
  BY <1>2, <1>3, CountMarked
<1>5. Covers(vol.free, meta.fat) => Covers(vol.free - 1, meta'.fat)
  <2>1. Cardinality(FreeClusters(meta.fat)) \in 0 .. NClusters /\ vol.free \in Nat
        /\ NClusters \in Nat
    BY FreeFinite, CountTypes, Sizes
  <2> QED  BY <1>4, <2>1 DEF Covers
<1>6. ~(truncated /\ crashes > 0) => Covers(vol.free - 1, meta'.fat)
  BY <1>5 DEF CountSound
<1>7. FreeClusters(meta'.fat) \subseteq FreeClusters(meta.fat)
  BY <1>2
<1>8. CASE fp.sclust # 0
  <2>1. pc' = "link" /\ vol' = vol
    BY <1>8 DEF Mark
  <2>2. /\ Covers(vol.free, meta.fat) => Covers(vol.free, meta'.fat)
        /\ ~truncated => Covers(card.free, meta'.fat)
    BY <1>7, CoversFewer, CountTypes DEF CountSound
  <2> QED  BY <1>1, <1>6, <2>1, <2>2 DEF CountSound
<1>9. CASE fp.sclust = 0
  BY <1>1, <1>6, <1>7, <1>9, CountAllocated DEF Mark
<1> QED  BY <1>8, <1>9

LEMMA CountLink == ASSUME IInv, CountSound, Link PROVE CountSound'
<1>1. /\ call.ncl \in Clusters /\ fp.clust \in Clusters /\ pc = "link"
      /\ PutFat(fp.clust, call.ncl) /\ Allocated /\ UNCHANGED <<card, crashes, truncated>>
  BY SearchFacts DEF Link, At, bounds, IInv, Program, FpOK, Files
<1>2. FreeClusters(meta'.fat) \subseteq FreeClusters(meta.fat)
  <2>1. MetaOK /\ call.ncl # Free
    BY <1>1 DEF IInv, Disk, Clusters, Free
  <2>2. \A b \in Clusters : meta'.fat[b] = IF b = fp.clust THEN call.ncl ELSE meta.fat[b]
    BY <1>1, <2>1 DEF PutFat, MetaOK, Fats
  <2> QED  BY <2>1, <2>2 DEF FreeClusters
<1>3. Covers(vol.free - 1, meta.fat) => Covers(vol.free - 1, meta'.fat)
  <2>1. vol.free - 1 \in Int
    BY CountTypes
  <2> QED  BY <1>2, <2>1, CoversFewer
<1>4. ~(truncated /\ crashes > 0) => Covers(vol.free - 1, meta'.fat)
  BY <1>1, <1>3 DEF CountSound
<1> QED  BY <1>1, <1>2, <1>4, CountAllocated

(* FSInfo is written after the FAT it counts (ff.c:1117).                        *)
LEMMA CountSyncInfo == ASSUME IInv, CountSound, SyncInfo PROVE CountSound'
<1>1. /\ pc = "syncinfo" /\ pc' \notin {"link", "boot"}
      /\ UNCHANGED <<meta, crashes, truncated>> /\ vol'.free = vol.free
  BY DEF SyncInfo, Closed, Ends, IInv, Program, VolOK
<1>2. card.fat = meta.fat
  <2>1. ~win.dirty
    BY <1>1 DEF IInv, Control, Clean
  <2> QED  BY <2>1 DEF IInv, Disk, CardOK, Cards, MetaOK, Fats, Agree
<1>3. card'.fat = card.fat /\ card'.free \in {card.free, vol.free}
  BY DEF SyncInfo, IInv, Disk, CardOK, Cards
<1> QED  BY <1>1, <1>2, <1>3 DEF CountSound

(* What is on the card is what the next boot sees.                               *)
LEMMA CountCrash == ASSUME IInv, CountSound, crashes \in Nat, Crash PROVE CountSound'
<1>1. crashes' > 0 /\ pc' = "boot" /\ card' = card /\ truncated' = truncated
      /\ meta'.fat = card.fat /\ vol'.free = Unknown
  BY DEF Crash, Off, Uninformed
<1>2. Covers(Unknown, card.fat)
  BY Sizes DEF Covers, Unknown
<1> QED  BY <1>1, <1>2 DEF CountSound

LEMMA CountInit == ASSUME FatInit PROVE CountSound /\ crashes \in Nat
<1>1. card \in Volumes /\ meta.fat = card.fat /\ vol.free = Unknown /\ ~truncated /\ crashes = 0
      /\ pc # "link"
  BY DEF FatInit, Uninformed
<1>2. Covers(card.free, card.fat)
  BY <1>1, CountAssumption
<1>3. Covers(Unknown, meta.fat)
  BY Sizes DEF Covers, Unknown
<1> QED  BY <1>1, <1>2, <1>3 DEF CountSound

LEMMA CrashesStep == ASSUME crashes \in Nat, [FatNext]_fatVars PROVE crashes' \in Nat
<1>1. crashes' = crashes \/ crashes' = crashes + 1
  BY DEF FatNext, FatStep, fatVars, bounds, MoveWindow, Mount, Probe, Load, Open, Seek,
    FillBuffer, FreeCluster, Write, Follow, NextCluster, Scan, Mark, Link, Flush, Copy, Close,
    SyncDir, SyncWindow, SyncInfo, BeginSave, BeginRow, EndSave, BeginLoad, Halted, Crash
<1> QED  BY <1>1

LEMMA CountStep ==
  ASSUME IInv, CountSound, crashes \in Nat, [FatNext]_fatVars PROVE CountSound'
<1>1. CASE Quiet  BY <1>1, CountQuiet
<1>2. CASE Mount  BY <1>2, CountMount
<1>3. CASE FreeCluster  BY <1>3, CountFree
<1>4. CASE Mark  BY <1>4, CountMark
<1>5. CASE Link  BY <1>5, CountLink
<1>6. CASE SyncInfo  BY <1>6, CountSyncInfo
<1>7. CASE Crash  BY <1>7, CountCrash
<1>8. CASE Halted \/ UNCHANGED fatVars
  BY <1>8 DEF CountSound, Halted, fatVars
<1> QED
  BY <1>1, <1>2, <1>3, <1>4, <1>5, <1>6, <1>7, <1>8 DEF FatNext, FatStep, Quiet

(* FatFs never takes the volume for full while it is not: once known, its count of   *)
(* the free clusters is not below their number (ff.c:1545, 1608), whichever accesses *)
(* fail and wherever power does, unless it failed after clusters of the file were    *)
(* freed; given that the card's own count was right at first.                        *)
THEOREM FreeCountCoversHolds == FatSpec => []FreeCountCovers
<1>1. FatInit => CountInv
  BY InitStep, CountInit DEF CountInv, FatInit
<1>2. CountInv /\ [FatNext]_fatVars => CountInv'
  BY NextStep, LinesStep, CountStep, CrashesStep DEF CountInv
<1>3. CountInv => FreeCountCovers
  BY DEF CountInv, CountSound, FreeCountCovers
<1> QED  BY <1>1, <1>2, <1>3, PTL DEF FatSpec
=============================================================================
