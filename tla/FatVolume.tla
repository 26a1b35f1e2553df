------------------------------ MODULE FatVolume ------------------------------
(***************************************************************************)
(* The metadata of one mounted FAT volume: the allocation table, one       *)
(* directory, FSINFO, the FATFS object and the open FIL objects, under the *)
(* file functions of src/src/ff.c (f_open, f_write, f_lseek, f_sync,       *)
(* f_close, f_unlink, f_rename, f_getfree, f_stat, mounting) and the chain *)
(* functions they share (create_chain, remove_chain, sync_fs).             *)
(*                                                                         *)
(* A file function holds the volume lock from find_volume or validate to   *)
(* its return, so one of them runs at a time: pc is its next step and op   *)
(* its locals.  A step makes at most one write to the medium, so a failed  *)
(* transfer or a power loss can fall between any two writes.  fat and dir  *)
(* are the metadata as the code reads it through the window (FatWindow is  *)
(* where that is justified), dfat and ddir what the medium holds.  File    *)
(* offsets and sizes count whole clusters; what is in them is not modelled *)
(* here.                                                                   *)
(***************************************************************************)
EXTENDS Integers, FiniteSets

CONSTANTS
    n_fatent,       \* fs->n_fatent: number of clusters + 2
    NumSlots,       \* entries of the directory, which does not stretch
    FatPerSector,   \* FAT entries in a sector (SS/2 or SS/4)
    DirPerSector,   \* directory entries in a sector (SS/32)
    Names,          \* file names
    Handles,        \* FIL objects
    MaxSize,        \* bound: clusters of the largest file
    FsInfo,         \* the volume has an FSINFO sector (FAT32)
    Exclusive,      \* the application keeps off objects that are open
    Functions,      \* bound: the file functions that are called
    Faults          \* which of "io" (failed transfers) and "crash" happen

ASSUME VolumeAssumption ==
    /\ n_fatent \in Nat /\ n_fatent > 3
    /\ NumSlots \in Nat \ {0}
    /\ FatPerSector \in Nat \ {0}
    /\ DirPerSector \in Nat \ {0}
    /\ MaxSize \in Nat \ {0}
    /\ FsInfo \in BOOLEAN
    /\ Exclusive \in BOOLEAN
    /\ {"end", "deleted", "-"} \cap Names = {}
    /\ Faults \subseteq {"io", "crash"}

VARIABLES
    fat, dir,       \* the metadata as seen through the window
    dfat, ddir,     \* the metadata on the medium
    dfsi,           \* FSINFO on the medium: its free count and next hint
    winsect, wflag, \* fs->winsect, fs->wflag
    mounted,        \* fs->fs_type # 0
    free_clust, last_clust,
    fsi_flag,       \* fs->fsi_flag, bit 0
    fil,            \* the FIL objects
    pc, op,         \* the running file function: next step and locals
    durable         \* history: file size promised by an OK from f_sync/f_close

medium == <<dfat, ddir>>
window == <<winsect, wflag>>
counters == <<free_clust, last_clust, fsi_flag>>
store == <<fat, dir, dfat, ddir, winsect, wflag>>
vars == <<fat, dir, dfat, ddir, dfsi, winsect, wflag, mounted, free_clust,
          last_clust, fsi_flag, fil, pc, op, durable>>

-----------------------------------------------------------------------------
(* Geometry and values.                                                    *)

Clusters == 2 .. n_fatent - 1
EOC == n_fatent                 \* any value >= n_fatent ends a chain
Unknown == -1                   \* 0xFFFFFFFF, and what 0 - 1 wraps to
NoSector == -1                  \* 0xFFFFFFFF, or the FSINFO sector
Slots == 1 .. NumSlots
Root == IF FsInfo THEN {2} ELSE {}   \* FAT32: the directory's own cluster

FatSector(c) == c \div FatPerSector
FatSize == FatSector(n_fatent - 1) + 1
DirSector(i) == FatSize + (i - 1) \div DirPerSector
Sectors == 0 .. DirSector(NumSlots)

End == "end"                       \* DIR_Name[0] = 0: nothing follows
Deleted == "deleted"            \* DIR_Name[0] = DDEM
Entry == [name : Names \cup {End, Deleted}, sclust : {0} \cup Clusters,
          size : 0 .. MaxSize]
Erased == [name |-> Deleted, sclust |-> 0, size |-> 0]
Resized(e, sclust, size) == [e EXCEPT !.sclust = sclust, !.size = size]
Renamed(e, n) == [e EXCEPT !.name = n]
Live(D, i) == D[i].name \in Names

Fil == [open : BOOLEAN, write : BOOLEAN, slot : {0} \cup Slots,
        sclust : {0} \cup Clusters, clust : {0} \cup Clusters,
        fptr : 0 .. MaxSize, fsize : 0 .. MaxSize,
        written : BOOLEAN, err : BOOLEAN, closing : BOOLEAN]
ClosedFil == [open |-> FALSE, write |-> FALSE, slot |-> 0, sclust |-> 0,
              clust |-> 0, fptr |-> 0, fsize |-> 0, written |-> FALSE,
              err |-> FALSE, closing |-> FALSE]

(* Locals of the running function: the FIL it works on, the slot it has    *)
(* found, the cluster it follows, the first and the new one, the distance  *)
(* f_lseek has left, where a chain or sync function returns to, and the    *)
(* names f_rename was given.                                               *)
Op == [h : Handles \cup {"-"}, slot : {0} \cup Slots, cl : {0} \cup Clusters,
       first : {0} \cup Clusters, ncl : {0} \cup Clusters,
       ofs : 0 .. MaxSize, write : BOOLEAN,
       ret : {"idle", "sync", "open_back", "write_got", "seek_first",
              "seek_got", "synced", "closed"},
       res : {"ok", "full", "error"},
       from : Names \cup {"-"}, to : Names \cup {"-"}]
NoOp == [h |-> "-", slot |-> 0, cl |-> 0, first |-> 0, ncl |-> 0, ofs |-> 0,
         write |-> FALSE, ret |-> "idle", res |-> "ok", from |-> "-", to |-> "-"]

Steps == {"create", "link", "remove", "sync", "fsinfo", "open_back",
          "write_got", "seek", "seek_first", "seek_got", "rename_remove"}

TypeOK ==
    /\ fat \in [Clusters -> {0} \cup Clusters \cup {EOC}]
    /\ dfat \in [Clusters -> {0} \cup Clusters \cup {EOC}]
    /\ dir \in [Slots -> Entry]
    /\ ddir \in [Slots -> Entry]
    /\ dfsi \in [free : Nat \cup {Unknown}, next : Int]
    /\ winsect \in Sectors \cup {NoSector}
    /\ wflag \in BOOLEAN
    /\ mounted \in BOOLEAN
    /\ free_clust \in Nat \cup {Unknown}
    /\ last_clust \in Int
    /\ fsi_flag \in BOOLEAN
    /\ fil \in [Handles -> Fil]
    /\ pc \in Steps \cup {"idle"}
    /\ op \in Op
    /\ durable \in [Names -> {Unknown} \cup 0 .. MaxSize]

(* A freshly formatted volume (f_mkfs), not mounted.                       *)
Init ==
    /\ fat = [c \in Clusters |-> IF c \in Root THEN EOC ELSE 0]
    /\ dir = [i \in Slots |-> [name |-> End, sclust |-> 0, size |-> 0]]
    /\ dfat = fat
    /\ ddir = dir
    /\ dfsi = [free |-> n_fatent - 3, next |-> 2]
    /\ winsect = NoSector
    /\ wflag = FALSE
    /\ mounted = FALSE
    /\ free_clust = Unknown
    /\ last_clust = Unknown
    /\ fsi_flag = FALSE
    /\ fil = [h \in Handles |-> ClosedFil]
    /\ pc = "idle"
    /\ op = NoOp
    /\ durable = [n \in Names |-> Unknown]

-----------------------------------------------------------------------------
(* The window: what a file function does to <<dfat, ddir, winsect, wflag>> *)
(* when it moves over the sectors S and stops on the last one.             *)

(* sync_window: only the sector under the window is written, if dirty.     *)
WriteBack ==
    IF wflag
    THEN /\ dfat' = [c \in Clusters |->
                       IF FatSector(c) = winsect THEN fat[c] ELSE dfat[c]]
         /\ ddir' = [i \in Slots |->
                       IF DirSector(i) = winsect THEN dir[i] ELSE ddir[i]]
    ELSE UNCHANGED medium

Miss(S) == ~(S \subseteq {winsect})

(* Mutant: a hit overwrites wflag.                                         *)
VisitHitCleans(S, last, edit) ==
    /\ winsect' = last
    /\ wflag' = edit
    /\ IF Miss(S) THEN WriteBack ELSE UNCHANGED medium

(* move_window over S, which ends on sector last; the caller then edits    *)
(* that sector if edit.                                                    *)
Visit(S, last, edit) ==
    /\ winsect' = last
    /\ IF Miss(S) THEN WriteBack /\ wflag' = edit
                  ELSE wflag' = (wflag \/ edit) /\ UNCHANGED medium

(* move_window over S fails: the write-back reported an error, but the     *)
(* medium may have taken it all the same ...                               *)
WriteBackFails(S) ==
    /\ "io" \in Faults
    /\ Miss(S) /\ wflag
    /\ WriteBack \/ UNCHANGED medium
    /\ UNCHANGED <<fat, dir, window>>

(* Mutant: the read is tried before the write-back, the edit is lost.      *)
LoadFailsDropsEdit(S) ==
    /\ "io" \in Faults
    /\ Miss(S)
    /\ winsect' = NoSector
    /\ wflag' = FALSE
    /\ UNCHANGED <<fat, dir, medium>>

(* ... or a read after it did.                                             *)
LoadFails(S) ==
    /\ "io" \in Faults
    /\ Miss(S)
    /\ WriteBack
    /\ winsect' = NoSector
    /\ wflag' = FALSE
    /\ UNCHANGED <<fat, dir>>

VisitFails(S) == WriteBackFails(S) \/ LoadFails(S)

-----------------------------------------------------------------------------
(* Control: how a step ends.                                               *)

Goto(step) == pc' = step /\ op' = op

(* The file function returns.                                              *)
Finish == pc' = "idle" /\ op' = NoOp

(* A chain function returns to the file function that called it.           *)
Return(res, ncl) == pc' = op.ret /\ op' = [op EXCEPT !.res = res, !.ncl = ncl]

(* A file function starts: the lock is free and the volume mounted.        *)
Ready(function) == pc = "idle" /\ mounted /\ function \in Functions

Aborted(f) == [f EXCEPT !.err = TRUE]

-----------------------------------------------------------------------------
(* Directory search and allocation.                                        *)

Before(i) == 1 .. i
SectorsOf(I) == {DirSector(i) : i \in I}

(* dir_find reads the table up to the entry, the end mark or its end.      *)
Reached(n, i) == \A j \in Before(i - 1) : dir[j].name \notin {n, End}
Found(n) == {i \in Slots : dir[i].name = n /\ Reached(n, i)}
Searched(n) == SectorsOf({i \in Slots : Reached(n, i)})
SearchEnd(n) == {i \in Slots : /\ Reached(n, i)
                               /\ dir[i].name \in {n, End} \/ i = NumSlots}

(* dir_alloc takes the first entry that is deleted or past the end.        *)
FreeSlots == {i \in Slots : dir[i].name \in {End, Deleted}}
AllocSlot(i) == i \in FreeSlots /\ Before(i - 1) \cap FreeSlots = {}

NewFil(i, write, created, sclust, size) ==
    [ClosedFil EXCEPT !.open = TRUE, !.slot = i, !.write = write,
                      !.written = created, !.sclust = sclust, !.fsize = size]

(* With _FS_LOCK = 0 nothing keeps an object that is open for writing from *)
(* being opened again, or an open one from being removed or renamed: the   *)
(* application does, or (~Exclusive) does not.                             *)
OpenOn(i) == {h \in Handles : fil[h].open /\ fil[h].slot = i}
MayOpen(i, write) ==
    Exclusive => \A h \in OpenOn(i) : ~write /\ ~fil[h].write
MayChange(i) == Exclusive => OpenOn(i) = {}
Usable(h) == fil[h].open /\ (Exclusive => ~fil[h].closing)

-----------------------------------------------------------------------------
(* create_chain and remove_chain.                                          *)

(* Mutant: FSINFO is not marked for the next sync_fs.                      *)
IncFreeUnflagged ==
    /\ free_clust' = IF free_clust = Unknown THEN Unknown ELSE free_clust + 1
    /\ UNCHANGED fsi_flag

IncFree ==
    IF free_clust = Unknown
    THEN UNCHANGED <<free_clust, fsi_flag>>
    ELSE free_clust' = free_clust + 1 /\ fsi_flag' = TRUE

(* 0 - 1 is 0xFFFFFFFF, which is also the mark of an unknown count.        *)
DecFree ==
    IF free_clust = Unknown
    THEN UNCHANGED <<free_clust, fsi_flag>>
    ELSE free_clust' = free_clust - 1 /\ fsi_flag' = TRUE

(* The scan for a free cluster starts after scl and ends with it.          *)
ScanStart(cl) ==
    IF cl # 0 THEN cl
    ELSE IF last_clust \in Clusters \cup {1} THEN last_clust ELSE 1
Scanned(scl, k) ==
    IF scl + k < n_fatent THEN scl + k ELSE scl + k - (n_fatent - 2)
ScanLength == n_fatent - 2
ScanSectors(cl, k) ==
    {FatSector(Scanned(ScanStart(cl), j)) : j \in 1 .. k}
        \cup (IF cl = 0 THEN {} ELSE {FatSector(cl)})

CallCreateChain(h, cl, ofs, ret) ==
    /\ pc' = "create"
    /\ op' = [NoOp EXCEPT !.h = h, !.cl = cl, !.ofs = ofs, !.ret = ret]

CallRemoveChain(slot, cl, write, h, ret) ==
    /\ pc' = "remove"
    /\ op' = [NoOp EXCEPT !.h = h, !.slot = slot, !.cl = cl, !.first = cl,
                          !.write = write, !.ret = ret]

(* create_chain(cl), when cl is already followed by a cluster.             *)
ChainFollowed ==
    /\ pc = "create" /\ op.cl # 0 /\ fat[op.cl] \in Clusters
    /\ Visit({FatSector(op.cl)}, FatSector(op.cl), FALSE)
    /\ Return("ok", fat[op.cl])
    /\ UNCHANGED <<fat, dir, counters>>

(* create_chain(cl), when cl is not allocated: an internal error.          *)
ChainBroken ==
    /\ pc = "create" /\ op.cl # 0 /\ fat[op.cl] = 0
    /\ Visit({FatSector(op.cl)}, FatSector(op.cl), FALSE)
    /\ Return("error", 0)
    /\ UNCHANGED <<fat, dir, counters>>

MustScan == op.cl = 0 \/ (op.cl # 0 /\ fat[op.cl] = EOC)

(* Mutant: the scan takes any entry that is not a link for a free one.     *)
ChainMarkTakesLast ==
    /\ pc = "create" /\ MustScan
    /\ \E k \in 1 .. ScanLength :
         LET ncl == Scanned(ScanStart(op.cl), k) IN
         /\ ncl # op.cl /\ fat[ncl] \notin Clusters
         /\ \A j \in 1 .. k - 1 : fat[Scanned(ScanStart(op.cl), j)] # 0
         /\ Visit(ScanSectors(op.cl, k), FatSector(ncl), TRUE)
         /\ fat' = [fat EXCEPT ![ncl] = EOC]
         /\ IF op.cl = 0
            THEN Return("ok", ncl) /\ last_clust' = ncl /\ DecFree
            ELSE /\ pc' = "link" /\ op' = [op EXCEPT !.ncl = ncl]
                 /\ UNCHANGED counters
    /\ UNCHANGED dir

(* create_chain finds a free cluster and marks it the last of a chain;     *)
(* with cl = 0 that is all.                                                *)
ChainMark ==
    /\ pc = "create" /\ MustScan
    /\ \E k \in 1 .. ScanLength :
         LET ncl == Scanned(ScanStart(op.cl), k) IN
         /\ fat[ncl] = 0
         /\ \A j \in 1 .. k - 1 : fat[Scanned(ScanStart(op.cl), j)] # 0
         /\ Visit(ScanSectors(op.cl, k), FatSector(ncl), TRUE)
         /\ fat' = [fat EXCEPT ![ncl] = EOC]
         /\ IF op.cl = 0
            THEN Return("ok", ncl) /\ last_clust' = ncl /\ DecFree
            ELSE /\ pc' = "link" /\ op' = [op EXCEPT !.ncl = ncl]
                 /\ UNCHANGED counters
    /\ UNCHANGED dir

(* Mutant: nothing ends the scan that has come round to its start.         *)
ChainFullRetries ==
    /\ pc = "create" /\ MustScan
    /\ \A c \in Clusters : fat[c] # 0
    /\ Visit(ScanSectors(op.cl, ScanLength),
             FatSector(Scanned(ScanStart(op.cl), ScanLength)), FALSE)
    /\ UNCHANGED <<fat, dir, counters, pc, op>>

ChainFull ==
    /\ pc = "create" /\ MustScan
    /\ \A c \in Clusters : fat[c] # 0
    /\ Visit(ScanSectors(op.cl, ScanLength),
             FatSector(Scanned(ScanStart(op.cl), ScanLength)), FALSE)
    /\ Return("full", 0)
    /\ UNCHANGED <<fat, dir, counters>>

(* Mutant: the cluster that is linked is not counted.                      *)
ChainLinkUncounted ==
    /\ pc = "link"
    /\ Visit({FatSector(op.cl)}, FatSector(op.cl), TRUE)
    /\ fat' = [fat EXCEPT ![op.cl] = op.ncl]
    /\ last_clust' = op.ncl
    /\ Return("ok", op.ncl)
    /\ UNCHANGED <<dir, free_clust, fsi_flag>>

(* create_chain links the new cluster to the end of the chain.             *)
ChainLink ==
    /\ pc = "link"
    /\ Visit({FatSector(op.cl)}, FatSector(op.cl), TRUE)
    /\ fat' = [fat EXCEPT ![op.cl] = op.ncl]
    /\ last_clust' = op.ncl
    /\ DecFree
    /\ Return("ok", op.ncl)
    /\ UNCHANGED dir

(* A transfer under create_chain fails: 0xFFFFFFFF. Marking comes before   *)
(* linking, so a cluster may be left that belongs to no chain.             *)
ChainFails ==
    /\ \/ pc = "create" /\ ~MustScan /\ VisitFails({FatSector(op.cl)})
       \/ /\ pc = "create" /\ MustScan
          /\ \E k \in 1 .. ScanLength :
               /\ \A j \in 1 .. k - 1 : fat[Scanned(ScanStart(op.cl), j)] # 0
               /\ VisitFails(ScanSectors(op.cl, k))
       \/ pc = "link" /\ VisitFails({FatSector(op.cl)})
    /\ Return("error", 0)
    /\ UNCHANGED counters

(* One turn of remove_chain's loop.                                        *)
RemoveLink ==
    /\ pc = "remove" /\ fat[op.cl] # 0
    /\ Visit({FatSector(op.cl)}, FatSector(op.cl), TRUE)
    /\ fat' = [fat EXCEPT ![op.cl] = 0]
    /\ IncFree
    /\ IF fat[op.cl] \in Clusters
       THEN pc' = "remove" /\ op' = [op EXCEPT !.cl = fat[op.cl]]
       ELSE Goto(op.ret)
    /\ UNCHANGED <<dir, last_clust>>

(* remove_chain meets a free cluster and stops there.                      *)
RemoveStops ==
    /\ pc = "remove" /\ fat[op.cl] = 0
    /\ Visit({FatSector(op.cl)}, FatSector(op.cl), FALSE)
    /\ Goto(op.ret)
    /\ UNCHANGED <<fat, dir, counters>>

(* A transfer under remove_chain fails, and with it the file function: the *)
(* rest of the chain stays allocated and belongs to nothing.               *)
RemoveFails ==
    /\ pc = "remove" /\ VisitFails({FatSector(op.cl)})
    /\ Finish
    /\ UNCHANGED counters

ChainStep ==
    /\ \/ ChainFollowed \/ ChainBroken \/ ChainMark \/ ChainFull
       \/ ChainLink \/ ChainFails
       \/ RemoveLink \/ RemoveStops \/ RemoveFails
    /\ UNCHANGED <<dfsi, mounted, fil, durable>>

-----------------------------------------------------------------------------
(* f_open.                                                                 *)

(* The path is looked up and nothing else happens: f_stat, and every       *)
(* refusal of f_open, f_unlink and f_rename after its searches.            *)
LookUp(n) ==
    /\ \E i \in SearchEnd(n) : Visit(Searched(n), DirSector(i), FALSE)
    /\ Finish
    /\ UNCHANGED <<fat, dir, counters, fil, durable>>

Stat(n) == Ready("f_stat") /\ LookUp(n)

(* The search fails in any function that starts with one.                  *)
LookUpFails(n) ==
    /\ Ready("f_stat") \/ Ready("f_open") \/ Ready("f_unlink")
                       \/ Ready("f_rename")
    /\ VisitFails(Searched(n))
    /\ Finish
    /\ UNCHANGED <<counters, fil, durable>>

(* FR_NO_FILE without a create flag, FR_EXIST with FA_CREATE_NEW,          *)
(* FR_DENIED when the table is full.                                       *)
OpenRefused(n, mode) ==
    /\ Ready("f_open")
    /\ \/ Found(n) = {} /\ mode = "existing"
       \/ Found(n) # {} /\ mode = "new"
       \/ Found(n) = {} /\ mode # "existing" /\ FreeSlots = {}
    /\ LookUp(n)

OpenExisting(h, n, mode, write) ==
    /\ Ready("f_open") /\ ~fil[h].open
    /\ mode = "existing" \/ (mode = "always" /\ write)
    /\ \E i \in Found(n) :
         /\ MayOpen(i, write)
         /\ Visit(Searched(n), DirSector(i), FALSE)
         /\ fil' = [fil EXCEPT ![h] =
                      NewFil(i, write, FALSE, dir[i].sclust, dir[i].size)]
    /\ Finish
    /\ UNCHANGED <<fat, dir, counters, durable>>

(* A new entry is registered and opened; it is on the medium only after a  *)
(* later write-back.                                                       *)
OpenCreate(h, n, mode) ==
    /\ Ready("f_open") /\ ~fil[h].open
    /\ mode \in {"new", "always", "truncate"}
    /\ Found(n) = {}
    /\ \E i \in Slots :
         /\ AllocSlot(i)
         /\ Visit(Searched(n) \cup SectorsOf(Before(i)), DirSector(i), TRUE)
         /\ dir' = [dir EXCEPT ![i] = [name |-> n, sclust |-> 0, size |-> 0]]
         /\ fil' = [fil EXCEPT ![h] = NewFil(i, TRUE, TRUE, 0, 0)]
    /\ Finish
    /\ UNCHANGED <<fat, counters, durable>>

(* Mutant: the chain is removed under an entry that still points to it.    *)
OpenTruncateKeepsEntry(h, n) ==
    /\ Ready("f_open") /\ ~fil[h].open
    /\ \E i \in Found(n) :
         /\ MayOpen(i, TRUE)
         /\ Visit(Searched(n), DirSector(i), FALSE)
         /\ IF dir[i].sclust = 0
            THEN Finish /\ fil' = [fil EXCEPT ![h] = NewFil(i, TRUE, TRUE, 0, 0)]
            ELSE /\ CallRemoveChain(i, dir[i].sclust, TRUE, h, "open_back")
                 /\ UNCHANGED fil
    /\ durable' = [durable EXCEPT ![n] = Unknown]
    /\ UNCHANGED <<fat, dir, counters>>

(* FA_CREATE_ALWAYS on an existing file: its entry is emptied first, then  *)
(* its chain is removed.                                                   *)
OpenTruncate(h, n) ==
    /\ Ready("f_open") /\ ~fil[h].open
    /\ \E i \in Found(n) :
         /\ MayOpen(i, TRUE)
         /\ Visit(Searched(n), DirSector(i), TRUE)
         /\ dir' = [dir EXCEPT ![i] = Resized(@, 0, 0)]
         /\ IF dir[i].sclust = 0
            THEN Finish /\ fil' = [fil EXCEPT ![h] = NewFil(i, TRUE, TRUE, 0, 0)]
            ELSE /\ CallRemoveChain(i, dir[i].sclust, TRUE, h, "open_back")
                 /\ UNCHANGED fil
    /\ durable' = [durable EXCEPT ![n] = Unknown]
    /\ UNCHANGED <<fat, counters>>

(* The removed chain is where the next allocation looks first, and the     *)
(* window goes back to the entry, to which the FIL keeps a pointer.        *)
OpenBack ==
    /\ pc = "open_back"
    /\ last_clust' = op.first - 1
    /\ \/ /\ Visit({DirSector(op.slot)}, DirSector(op.slot), FALSE)
          /\ fil' = [fil EXCEPT ![op.h] = NewFil(op.slot, TRUE, TRUE, 0, 0)]
       \/ VisitFails({DirSector(op.slot)}) /\ UNCHANGED fil
    /\ Finish
    /\ UNCHANGED <<fat, dir, free_clust, fsi_flag, durable>>

Modes == {"existing", "new", "always", "truncate"}

OpenStep ==
    /\ \/ \E n \in Names : Stat(n) \/ LookUpFails(n)
       \/ \E n \in Names, mode \in Modes : OpenRefused(n, mode)
       \/ \E h \in Handles, n \in Names, mode \in Modes :
            \/ \E write \in BOOLEAN : OpenExisting(h, n, mode, write)
            \/ OpenCreate(h, n, mode)
       \/ \E h \in Handles, n \in Names : OpenTruncate(h, n)
       \/ OpenBack
    /\ UNCHANGED <<dfsi, mounted>>

-----------------------------------------------------------------------------
(* f_write of one cluster at a cluster boundary, and f_lseek.              *)

WriteStart(h) ==
    /\ Ready("f_write")
    /\ Usable(h) /\ fil[h].write /\ ~fil[h].err /\ fil[h].fptr < MaxSize
    /\ IF fil[h].fptr = 0 /\ fil[h].sclust # 0
       THEN /\ pc' = "write_got"
            /\ op' = [NoOp EXCEPT !.h = h, !.ncl = fil[h].sclust]
       ELSE CallCreateChain(h, IF fil[h].fptr = 0 THEN 0 ELSE fil[h].clust,
                            0, "write_got")
    /\ UNCHANGED <<store, counters, fil, durable>>

(* Mutant: neither a full disk nor an error is noticed.                    *)
WriteGotAnything ==
    /\ pc = "write_got"
    /\ fil' = [fil EXCEPT ![op.h] =
                 [@ EXCEPT !.clust = op.ncl,
                           !.sclust = IF @ = 0 THEN op.ncl ELSE @,
                           !.fptr = @ + 1,
                           !.fsize = IF fil[op.h].fptr < @ THEN @ ELSE @ + 1,
                           !.written = TRUE]]
    /\ Finish
    /\ UNCHANGED <<store, counters, durable>>

(* With the cluster, the data are written; without one the function ends,  *)
(* having written nothing (disk full), or marks the FIL as aborted.        *)
WriteGot ==
    LET h == op.h
        f == fil[h]
        placed == [f EXCEPT !.clust = op.ncl,
                            !.sclust = IF @ = 0 THEN op.ncl ELSE @]
    IN
    /\ pc = "write_got"
    /\ \/ /\ op.res = "ok"
          /\ fil' = [fil EXCEPT ![h] =
                       [placed EXCEPT !.fptr = @ + 1,
                                      !.fsize = IF f.fptr < @ THEN @ ELSE f.fptr + 1,
                                      !.written = TRUE]]
       \/ /\ op.res = "ok" /\ "io" \in Faults
          /\ fil' = [fil EXCEPT ![h] = Aborted(placed)]
       \/ /\ op.res = "full"
          /\ fil' = [fil EXCEPT ![h].written = TRUE]
       \/ /\ op.res = "error"
          /\ fil' = [fil EXCEPT ![h] = Aborted(f)]
    /\ Finish
    /\ UNCHANGED <<store, counters, durable>>

(* Mutant: the offset is reduced by the wrong amount.                       *)
SeekStartSign(h, to) ==
    LET f == fil[h]
        ofs == IF to > f.fsize /\ ~f.write THEN f.fsize ELSE to
    IN
    /\ Ready("f_lseek")
    /\ Usable(h) /\ ~f.err /\ to # f.fptr
    /\ \/ /\ ofs = 0
          /\ fil' = [fil EXCEPT ![h].fptr = 0]
          /\ Finish
       \/ /\ ofs > 0 /\ f.fptr > 0 /\ ofs >= f.fptr
          /\ fil' = [fil EXCEPT ![h].fptr = f.fptr - 1]
          /\ pc' = "seek"
          /\ op' = [NoOp EXCEPT !.h = h, !.ofs = ofs - f.fptr - 1]
       \/ /\ ofs > 0 /\ ~(f.fptr > 0 /\ ofs >= f.fptr) /\ f.sclust # 0
          /\ fil' = [fil EXCEPT ![h] = [f EXCEPT !.fptr = 0, !.clust = f.sclust]]
          /\ pc' = "seek"
          /\ op' = [NoOp EXCEPT !.h = h, !.ofs = ofs]
       \/ /\ ofs > 0 /\ ~(f.fptr > 0 /\ ofs >= f.fptr) /\ f.sclust = 0
          /\ fil' = [fil EXCEPT ![h].fptr = 0]
          /\ CallCreateChain(h, 0, ofs, "seek_first")
    /\ UNCHANGED <<store, counters, durable>>

(* f_lseek to a cluster boundary: from the current cluster when that is    *)
(* not behind, else from the start of the chain, which is created if the   *)
(* file has none.                                                          *)
SeekStart(h, to) ==
    LET f == fil[h]
        ofs == IF to > f.fsize /\ ~f.write THEN f.fsize ELSE to
    IN
    /\ Ready("f_lseek")
    /\ Usable(h) /\ ~f.err /\ to # f.fptr
    /\ \/ /\ ofs = 0
          /\ fil' = [fil EXCEPT ![h].fptr = 0]
          /\ Finish
       \/ /\ ofs > 0 /\ f.fptr > 0 /\ ofs >= f.fptr
          /\ fil' = [fil EXCEPT ![h].fptr = f.fptr - 1]
          /\ pc' = "seek"
          /\ op' = [NoOp EXCEPT !.h = h, !.ofs = ofs - (f.fptr - 1)]
       \/ /\ ofs > 0 /\ ~(f.fptr > 0 /\ ofs >= f.fptr) /\ f.sclust # 0
          /\ fil' = [fil EXCEPT ![h] = [f EXCEPT !.fptr = 0, !.clust = f.sclust]]
          /\ pc' = "seek"
          /\ op' = [NoOp EXCEPT !.h = h, !.ofs = ofs]
       \/ /\ ofs > 0 /\ ~(f.fptr > 0 /\ ofs >= f.fptr) /\ f.sclust = 0
          /\ fil' = [fil EXCEPT ![h].fptr = 0]
          /\ CallCreateChain(h, 0, ofs, "seek_first")
    /\ UNCHANGED <<store, counters, durable>>

(* Mutant: the current cluster of a file that had none is not set.         *)
SeekFirstNoCurrent ==
    /\ pc = "seek_first"
    /\ IF op.res = "error"
       THEN fil' = [fil EXCEPT ![op.h] = Aborted(@)]
       ELSE fil' = [fil EXCEPT ![op.h].sclust = op.ncl]
    /\ IF op.res = "ok"
       THEN pc' = "seek" /\ op' = [NoOp EXCEPT !.h = op.h, !.ofs = op.ofs]
       ELSE Finish
    /\ UNCHANGED <<store, counters, durable>>

SeekFirst ==
    /\ pc = "seek_first"
    /\ IF op.res = "error"
       THEN fil' = [fil EXCEPT ![op.h] = Aborted(@)]
       ELSE fil' = [fil EXCEPT ![op.h] = [@ EXCEPT !.sclust = op.ncl, !.clust = op.ncl]]
    /\ IF op.res = "ok"
       THEN pc' = "seek" /\ op' = [NoOp EXCEPT !.h = op.h, !.ofs = op.ofs]
       ELSE Finish
    /\ UNCHANGED <<store, counters, durable>>

(* The FIL has come to its offset: a file that got longer is marked.       *)
Arrived(f) ==
    [f EXCEPT !.fptr = @ + 1,
              !.fsize = IF f.fptr < @ THEN @ ELSE f.fptr + 1,
              !.written = @ \/ f.fptr >= f.fsize]
OneFurther(f, cl) == [f EXCEPT !.clust = cl, !.fptr = @ + 1]

(* One turn of the cluster following loop, or its end.                     *)
SeekOn ==
    LET h == op.h
        f == fil[h]
        next == fat[f.clust]
    IN
    /\ pc = "seek"
    /\ \/ /\ op.ofs <= 1
          /\ fil' = [fil EXCEPT ![h] = Arrived(f)]
          /\ Finish
          /\ UNCHANGED store
       \/ /\ op.ofs > 1 /\ f.write
          /\ CallCreateChain(h, f.clust, op.ofs, "seek_got")
          /\ UNCHANGED <<store, fil>>
       \/ /\ op.ofs > 1 /\ ~f.write
          /\ Visit({FatSector(f.clust)}, FatSector(f.clust), FALSE)
          /\ IF next \in Clusters
             THEN /\ fil' = [fil EXCEPT ![h] = OneFurther(f, next)]
                  /\ pc' = "seek" /\ op' = [op EXCEPT !.ofs = @ - 1]
             ELSE fil' = [fil EXCEPT ![h] = Aborted(f)] /\ Finish
          /\ UNCHANGED <<fat, dir>>
       \/ /\ op.ofs > 1 /\ ~f.write
          /\ VisitFails({FatSector(f.clust)})
          /\ fil' = [fil EXCEPT ![h] = Aborted(f)]
          /\ Finish
    /\ UNCHANGED <<counters, durable>>

(* In write mode the chain was stretched as far as the disk allows, and    *)
(* the offset is clipped where it could not be.                            *)
SeekGot ==
    LET h == op.h IN
    /\ pc = "seek_got"
    /\ \/ /\ op.res = "ok"
          /\ fil' = [fil EXCEPT ![h] = OneFurther(@, op.ncl)]
          /\ pc' = "seek" /\ op' = [NoOp EXCEPT !.h = h, !.ofs = op.ofs - 1]
       \/ op.res = "full" /\ fil' = [fil EXCEPT ![h] = Arrived(@)] /\ Finish
       \/ op.res = "error" /\ fil' = [fil EXCEPT ![h] = Aborted(@)] /\ Finish
    /\ UNCHANGED <<store, counters, durable>>

WriteStep ==
    /\ \/ \E h \in Handles : WriteStart(h)
       \/ WriteGot
       \/ \E h \in Handles, to \in 0 .. MaxSize : SeekStart(h, to)
       \/ SeekFirst \/ SeekOn \/ SeekGot
    /\ UNCHANGED <<dfsi, mounted>>

-----------------------------------------------------------------------------
(* f_sync, f_close and sync_fs.                                            *)

(* A rename that does not return FR_OK promises nothing of its file.       *)
Withdraw == durable' = IF op.to = "-" THEN durable
                       ELSE [durable EXCEPT ![op.from] = Unknown]

(* f_sync of a FIL with nothing to save; closing: f_close calls it.        *)
SyncClean(h, closing) ==
    /\ Ready("f_sync") /\ Usable(h) /\ ~fil[h].written
    /\ fil' = [fil EXCEPT ![h].closing = @ \/ closing]
    /\ durable' = [durable EXCEPT ![dir[fil[h].slot].name] = fil[h].fsize]
    /\ UNCHANGED <<store, counters, dfsi, pc, op>>

(* The entry is updated in the window; FA__WRITTEN is cleared before the   *)
(* window is written.                                                      *)
SyncStart(h, closing) ==
    LET f == fil[h]
        sector == DirSector(f.slot)
    IN
    /\ Ready("f_sync") /\ Usable(h) /\ f.written
    /\ \/ /\ Visit({sector}, sector, TRUE)
          /\ dir' = [dir EXCEPT ![f.slot] = Resized(@, f.sclust, f.fsize)]
          /\ fil' = [fil EXCEPT ![h].written = FALSE]
          /\ pc' = "sync"
          /\ op' = [NoOp EXCEPT !.h = h, !.slot = f.slot,
                                !.ret = IF closing THEN "closed" ELSE "synced"]
          /\ UNCHANGED fat
       \/ VisitFails({sector}) /\ Finish /\ UNCHANGED fil
    /\ UNCHANGED <<counters, dfsi, durable>>

(* sync_fs has succeeded, and so has the function that called it.          *)
SyncReturns ==
    /\ Finish
    /\ durable' = IF op.to # "-"
                  THEN [durable EXCEPT ![op.to] = durable[op.from],
                                       ![op.from] = Unknown]
                  ELSE IF op.ret \in {"synced", "closed"}
                  THEN [durable EXCEPT ![dir[op.slot].name] = fil[op.h].fsize]
                  ELSE durable
    /\ fil' = IF op.ret = "closed"
              THEN [fil EXCEPT ![op.h].closing = TRUE] ELSE fil

(* f_close after its f_sync: the volume was unlocked and is locked again.  *)
Close(h) ==
    /\ Ready("f_sync") /\ fil[h].closing
    /\ fil' = [fil EXCEPT ![h] = ClosedFil]
    /\ UNCHANGED <<store, counters, dfsi, pc, op, durable>>

(* Mutant: sync_fs forgets its sync_window.                                *)
SyncWindowForgotten ==
    /\ pc = "sync"
    /\ IF FsInfo /\ fsi_flag
       THEN Goto("fsinfo") /\ UNCHANGED <<fil, durable>>
       ELSE SyncReturns
    /\ UNCHANGED <<store, counters, dfsi>>

(* sync_fs: the window first.                                              *)
SyncWindow ==
    /\ pc = "sync"
    /\ WriteBack
    /\ wflag' = FALSE
    /\ IF FsInfo /\ fsi_flag
       THEN Goto("fsinfo") /\ UNCHANGED <<fil, durable>>
       ELSE SyncReturns
    /\ UNCHANGED <<fat, dir, winsect, counters, dfsi>>

(* The write fails: the function returns FR_DISK_ERR, the window stays     *)
(* dirty, a FIL being closed stays open.                                   *)
SyncFails ==
    /\ pc = "sync" /\ "io" \in Faults /\ wflag
    /\ WriteBack \/ UNCHANGED medium
    /\ Finish
    /\ Withdraw
    /\ UNCHANGED <<fat, dir, window, counters, dfsi, fil>>

(* sync_fs: then FSINFO, composed in the window; whether it was written is *)
(* not looked at.                                                          *)
SyncFsInfo ==
    /\ pc = "fsinfo"
    /\ \/ dfsi' = [free |-> free_clust, next |-> last_clust]
       \/ "io" \in Faults /\ UNCHANGED dfsi
    /\ fsi_flag' = FALSE
    /\ winsect' = NoSector
    /\ SyncReturns
    /\ UNCHANGED <<fat, dir, medium, wflag, free_clust, last_clust>>

SyncStep ==
    /\ \/ \E h \in Handles, closing \in BOOLEAN :
            SyncClean(h, closing) \/ SyncStart(h, closing)
       \/ \E h \in Handles : Close(h)
       \/ SyncWindow \/ SyncFails \/ SyncFsInfo
    /\ UNCHANGED mounted

-----------------------------------------------------------------------------
(* f_unlink, f_rename, f_getfree.                                          *)

(* Mutant: the entry goes and its chain stays.                             *)
UnlinkEntryOnly(n) ==
    /\ Ready("f_unlink")
    /\ \E i \in Found(n) :
         /\ MayChange(i)
         /\ Visit(Searched(n), DirSector(i), TRUE)
         /\ dir' = [dir EXCEPT ![i] = Erased]
    /\ pc' = "sync" /\ op' = NoOp
    /\ durable' = [durable EXCEPT ![n] = Unknown]
    /\ UNCHANGED <<fat, counters, fil>>

(* The entry goes first, then its chain, then both are made durable.       *)
Unlink(n) ==
    /\ Ready("f_unlink")
    /\ \E i \in Found(n) :
         /\ MayChange(i)
         /\ Visit(Searched(n), DirSector(i), TRUE)
         /\ dir' = [dir EXCEPT ![i] = Erased]
         /\ IF dir[i].sclust = 0
            THEN pc' = "sync" /\ op' = NoOp
            ELSE CallRemoveChain(i, dir[i].sclust, FALSE, "-", "sync")
    /\ durable' = [durable EXCEPT ![n] = Unknown]
    /\ UNCHANGED <<fat, counters, fil>>

UnlinkRefused(n) == Ready("f_unlink") /\ Found(n) = {} /\ LookUp(n)

(* The new entry is registered as a copy of the old one ...                *)
Rename(from, to) ==
    /\ Ready("f_rename")
    /\ Found(to) = {}
    /\ \E i \in Found(from), j \in Slots :
         /\ MayChange(i)
         /\ AllocSlot(j)
         /\ Visit(Searched(from) \cup Searched(to) \cup SectorsOf(Before(j)),
                  DirSector(j), TRUE)
         /\ dir' = [dir EXCEPT ![j] = Renamed(dir[i], to)]
         /\ pc' = "rename_remove"
         /\ op' = [NoOp EXCEPT !.slot = i, !.from = from, !.to = to]
    /\ UNCHANGED <<fat, counters, fil, durable>>

(* Mutant: the old entry is not removed.                                   *)
RenameRemoveForgotten ==
    /\ pc = "rename_remove"
    /\ pc' = "sync" /\ op' = [op EXCEPT !.slot = 0]
    /\ UNCHANGED <<store, counters, fil, durable>>

(* ... and the old one removed: the critical section in between.           *)
RenameRemove ==
    /\ pc = "rename_remove"
    /\ \/ /\ Visit({DirSector(op.slot)}, DirSector(op.slot), TRUE)
          /\ dir' = [dir EXCEPT ![op.slot] = Erased]
          /\ pc' = "sync" /\ op' = [op EXCEPT !.slot = 0]
          /\ UNCHANGED <<fat, durable>>
       \/ VisitFails({DirSector(op.slot)}) /\ Finish /\ Withdraw
    /\ UNCHANGED <<counters, fil>>

RenameRefused(from, to) ==
    /\ Ready("f_rename")
    /\ \/ Found(from) = {} /\ LookUp(from)
       \/ Found(from) # {} /\ Found(to) # {} /\ LookUp(to)
       \/ Found(from) # {} /\ Found(to) = {} /\ FreeSlots = {} /\ LookUp(to)

(* A count that cannot be right is counted afresh, over the whole table.   *)
FreeBelow(sector) == Cardinality({c \in Clusters : FatSector(c) < sector
                                                     /\ fat[c] = 0})
GetFree ==
    /\ Ready("f_getfree") /\ free_clust \notin 0 .. n_fatent - 2
    /\ Visit(0 .. FatSize - 1, FatSize - 1, FALSE)
    /\ free_clust' = FreeBelow(FatSize)
    /\ fsi_flag' = TRUE
    /\ Finish
    /\ UNCHANGED <<fat, dir, last_clust, fil, durable>>

(* The scan breaks off at a sector that cannot be read, and what it has    *)
(* counted so far becomes the count.                                       *)
GetFreeFails ==
    /\ Ready("f_getfree") /\ free_clust \notin 0 .. n_fatent - 2
    /\ \E s \in 0 .. FatSize - 1 :
         /\ \/ LoadFails(0 .. s)
            \/ WriteBackFails(0 .. s) /\ ~Miss(0 .. s - 1)
         /\ free_clust' = FreeBelow(s)
    /\ fsi_flag' = TRUE
    /\ Finish
    /\ UNCHANGED <<last_clust, fil, durable>>

NameStep ==
    /\ \/ \E n \in Names : Unlink(n) \/ UnlinkRefused(n)
       \/ \E from, to \in Names : Rename(from, to) \/ RenameRefused(from, to)
       \/ RenameRemove
       \/ GetFree \/ GetFreeFails
    /\ UNCHANGED <<dfsi, mounted>>

-----------------------------------------------------------------------------
(* Mounting, unmounting and power loss.                                    *)

(* find_volume, which loads the counters from FSINFO if there is one.      *)
Mount ==
    /\ pc = "idle" /\ ~mounted
    /\ mounted' = TRUE
    /\ free_clust' = IF FsInfo THEN dfsi.free ELSE Unknown
    /\ last_clust' = IF FsInfo THEN dfsi.next ELSE Unknown
    /\ fsi_flag' = FALSE
    /\ UNCHANGED <<store, dfsi, fil, pc, op, durable>>

(* The FATFS object is cleared, its window with it (check_fs discards it   *)
(* at the next mount), and every FIL with it: an unmount flushes nothing.  *)
Dismount ==
    /\ mounted' = FALSE
    /\ fat' = dfat
    /\ dir' = ddir
    /\ winsect' = NoSector
    /\ wflag' = FALSE
    /\ fil' = [h \in Handles |-> ClosedFil]
    /\ Finish
    /\ Withdraw
    /\ UNCHANGED <<dfat, ddir, dfsi, counters>>

Unmount ==
    /\ pc = "idle" /\ mounted
    /\ \A h \in Handles : ~fil[h].open
    /\ Dismount

(* At any point of a file function, or an unmount with files open.         *)
PowerLoss ==
    /\ "crash" \in Faults
    /\ mounted
    /\ Dismount

-----------------------------------------------------------------------------
Next ==
    \/ ChainStep \/ OpenStep \/ WriteStep \/ SyncStep \/ NameStep
    \/ Mount \/ Unmount \/ PowerLoss

(* A file function that has started goes on.                               *)
Progress == pc # "idle" /\ (ChainStep \/ OpenStep \/ WriteStep \/ SyncStep
                                      \/ NameStep)

Spec == Init /\ [][Next]_vars
FairSpec == Spec /\ WF_vars(Progress)

-----------------------------------------------------------------------------
(* Properties.                                                             *)

(* The k-th cluster of the chain that starts with c (the 0-th is c), or 0. *)
Walk(F, c) ==
    LET w[k \in 0 .. n_fatent] ==
          IF k = 0 THEN c ELSE IF w[k - 1] \in Clusters THEN F[w[k - 1]] ELSE 0
    IN  w
Chain(F, c) == {Walk(F, c)[k] : k \in 0 .. n_fatent} \cap Clusters
HasLength(F, c, n) == \A k \in 0 .. n - 1 : Walk(F, c)[k] \in Clusters

(* The memory and the medium differ only where a dirty window stands: what *)
(* justifies fat and dir as "the metadata as the code reads it".           *)
WindowCoherent ==
    /\ \A c \in Clusters : fat[c] # dfat[c] => wflag /\ winsect = FatSector(c)
    /\ \A i \in Slots : dir[i] # ddir[i] => wflag /\ winsect = DirSector(i)

(* The medium only ever moves to the metadata as they were in memory: a    *)
(* power loss leaves a past value of both tables, never a mixture.         *)
MediumFollows == [][medium' # medium => medium' = <<fat, dir>>]_vars

(* No entry and no link points to a free cluster, in memory or on the      *)
(* medium, whatever step was interrupted: create_chain marks before it     *)
(* links, f_unlink and f_open clear the entry before they free the chain.  *)
NoDanglingIn(F, D) ==
    /\ \A i \in Slots : D[i].sclust # 0 => F[D[i].sclust] # 0
    /\ \A c \in Clusters : F[c] \in Clusters => F[F[c]] # 0
NoDangling == NoDanglingIn(fat, dir) /\ NoDanglingIn(dfat, ddir)

(* No cluster is in two chains: every cluster has at most one entry or     *)
(* link pointing to it, and the directory's own cluster none.              *)
NoCrossLinkIn(F, D) ==
    /\ \A i, j \in Slots : D[i].sclust = D[j].sclust /\ i # j => D[i].sclust = 0
    /\ \A c, d \in Clusters : F[c] = F[d] /\ c # d => F[c] \notin Clusters
    /\ \A i \in Slots, c \in Clusters : F[c] = D[i].sclust => F[c] = 0
    /\ \A i \in Slots : D[i].sclust \notin Root
    /\ \A c \in Clusters : F[c] \notin Root
NoCrossLink == NoCrossLinkIn(fat, dir) /\ NoCrossLinkIn(dfat, ddir)

(* f_rename has two entries for one chain in its critical section, and     *)
(* only there.                                                             *)
FilesApart == pc = "idle" => NoCrossLink

(* A file's chain is never shorter than the size in its entry, in memory   *)
(* or on the medium: f_sync writes the entry after the links are in the    *)
(* window, and the window keeps the order.                                 *)
SizeCoveredIn(F, D) == \A i \in Slots : HasLength(F, D[i].sclust, D[i].size)
SizeCovered == SizeCoveredIn(fat, dir) /\ SizeCoveredIn(dfat, ddir)

(* Once f_sync or f_close has returned FR_OK the file is on the medium     *)
(* with at least that size, until it is removed or truncated, under the    *)
(* old name or the new while it is renamed, and no later operation on      *)
(* another file, power loss or remount undoes it.                          *)
OnMedium(n, size) ==
    \E i \in Slots :
        /\ ddir[i].name = n
        /\ ddir[i].size >= size
        /\ HasLength(dfat, ddir[i].sclust, size)
SyncedSurvives ==
    \A n \in Names :
        durable[n] # Unknown =>
            \/ OnMedium(n, durable[n])
            \/ op.from = n /\ OnMedium(op.to, durable[n])

(* ff.h, FIL: clust is the "Current cluster of fpter (not valid when fprt  *)
(* is 0)". The offset is a cluster boundary, so that is the cluster before.*)
FilOnChain ==
    pc = "idle" =>
        \A h \in Handles :
            LET f == fil[h] IN
            f.open /\ ~f.err /\ f.fptr > 0
                => /\ f.clust \in Clusters
                   /\ Walk(fat, f.sclust)[f.fptr - 1] = f.clust

(* Between two file functions the count of free clusters is exact or       *)
(* unknown.                                                                *)
FreeCountExact ==
    pc = "idle" /\ mounted /\ free_clust # Unknown =>
        free_clust = Cardinality({c \in Clusters : fat[c] = 0})

(* Between two file functions every allocated cluster is the directory's,  *)
(* or in the chain of an entry or of an open FIL.                          *)
NoLostCluster ==
    pc = "idle" =>
        {c \in Clusters : fat[c] # 0} =
            Root \cup (UNION {Chain(fat, dir[i].sclust) : i \in Slots})
                 \cup (UNION {Chain(fat, fil[h].sclust) : h \in Handles})

(* When no file is open there is nothing to flush: unmounting, which       *)
(* flushes nothing, is then safe, and the free count that the next mount   *)
(* loads from FSINFO is right.                                             *)
CleanWhenClosed ==
    pc = "idle" /\ (\A h \in Handles : ~fil[h].open) =>
        /\ dfat = fat
        /\ ddir = dir
        /\ FsInfo => dfsi.free = Cardinality({c \in Clusters : dfat[c] = 0})

(* Every file function ends: the loops over chains terminate.              *)
FunctionsEnd == (pc # "idle") ~> (pc = "idle")

=============================================================================
