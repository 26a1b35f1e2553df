------------------------------ MODULE FatWindow ------------------------------
(***************************************************************************)
(* The disk access window of a FATFS object (fs->win, fs->winsect,         *)
(* fs->wflag; src/src/ff.c sync_window, move_window, sync_fs, check_fs and *)
(* the directory-table initialisation of f_mkdir), one disk transfer a     *)
(* step, so that an error or a power loss can fall between any two.        *)
(*                                                                         *)
(* A caller holds the volume lock for the whole of a file function, so     *)
(* window operations are never concurrent: pc is where the single running  *)
(* one stands, "idle" between two of them.  The contents of a sector are   *)
(* one value; which entries they hold is FatVolume's subject.              *)
(***************************************************************************)
CONSTANTS
    FatSectors,     \* sectors of the first copy of the FAT
    OtherSectors,   \* directory sectors (and those a new directory will use)
    Contents,       \* what a sector can hold
    FsInfoSector,   \* volbase + 1
    NoSector,       \* winsect = 0xFFFFFFFF
    Faults          \* which of "io" and "crash" can happen

Sectors == FatSectors \cup OtherSectors

ASSUME WindowAssumption ==
    /\ FatSectors \cap OtherSectors = {}
    /\ NoSector \notin Sectors
    /\ FsInfoSector \notin Sectors
    /\ FsInfoSector # NoSector
    /\ Contents # {}
    /\ Faults \subseteq {"io", "crash"}

VARIABLES
    disk,           \* first copy: what the medium holds
    mirror,         \* second copy of the FAT sectors (n_fats = 2)
    win,            \* fs->win
    winsect,        \* fs->winsect
    wflag,          \* fs->wflag
    pc,             \* the next disk transfer of the running operation
    then,           \* where pc goes after the write-back
    target          \* the sector move_window was asked for

vars == <<disk, mirror, win, winsect, wflag, pc, then, target>>

TypeOK ==
    /\ disk \in [Sectors -> Contents]
    /\ mirror \in [FatSectors -> Contents]
    /\ win \in Contents
    /\ winsect \in Sectors \cup {FsInfoSector, NoSector}
    /\ wflag \in BOOLEAN
    /\ pc \in {"idle", "write", "mirror", "read", "clear", "scratch"}
    /\ then \in {"idle", "read", "clear"}
    /\ target \in Sectors

Init ==
    /\ disk \in [Sectors -> Contents]
    /\ mirror = [s \in FatSectors |-> disk[s]]
    /\ win \in Contents
    /\ winsect = NoSector
    /\ wflag = FALSE
    /\ pc = "idle"
    /\ then = "idle"
    /\ target \in Sectors

-----------------------------------------------------------------------------
(* Operations the file functions start.                                    *)

(* Mutant: the write-back of a miss is forgotten.                          *)
MoveWindowNoWriteBack(s) ==
    /\ pc \in {"idle", "scratch"}
    /\ s # winsect
    /\ pc' = "read"
    /\ then' = "read"
    /\ target' = s
    /\ UNCHANGED <<disk, mirror, win, winsect, wflag>>

(* move_window(sector): a miss writes the dirty sector back, then loads.   *)
(* A hit changes nothing and is no step.                                   *)
MoveWindow(s) ==
    /\ pc \in {"idle", "scratch"}
    /\ s # winsect
    /\ pc' = IF wflag THEN "write" ELSE "read"
    /\ then' = "read"
    /\ target' = s
    /\ UNCHANGED <<disk, mirror, win, winsect, wflag>>

(* sync_window() on its own: first thing of sync_fs and of f_mkdir.        *)
SyncWindow ==
    /\ pc = "idle"
    /\ wflag
    /\ pc' = "write"
    /\ then' = "idle"
    /\ UNCHANGED <<disk, mirror, win, winsect, wflag, target>>

(* A file function edits the sector it has just moved the window to.       *)
Modify(v) ==
    /\ pc = "idle"
    /\ winsect \in Sectors
    /\ win' = v
    /\ wflag' = TRUE
    /\ UNCHANGED <<disk, mirror, winsect, pc, then, target>>

(* sync_fs, after its sync_window: FSINFO is composed in the window and    *)
(* written, the result ignored, the window left on it and clean.           *)
WriteFsInfo ==
    /\ pc = "idle"
    /\ ~wflag
    /\ win' \in Contents
    /\ winsect' = FsInfoSector
    /\ UNCHANGED <<disk, mirror, wflag, pc, then, target>>

(* f_mkdir: a sector of the new directory table is composed in the window  *)
(* (already synced) and written back at once.                              *)
InitDirSector(s, v) ==
    /\ pc \in {"idle", "scratch"}
    /\ ~wflag
    /\ winsect' = s
    /\ win' = v
    /\ wflag' = TRUE
    /\ pc' = "write"
    /\ then' = "clear"
    /\ UNCHANGED <<disk, mirror, target>>

(* f_mkdir clears the window for the next sector of the table, also after  *)
(* the last one: the window then differs from the sector it claims to hold *)
(* with wflag = 0, until the next move_window, to the parent's sector.     *)
ClearWindow ==
    /\ pc = "clear"
    /\ win' \in Contents
    /\ pc' = "scratch"
    /\ UNCHANGED <<disk, mirror, winsect, wflag, then, target>>

-----------------------------------------------------------------------------
(* Disk transfers of the running operation.                                *)

(* Mutant: the second copy is written before the first.                    *)
WriteSectorMirrorFirst ==
    /\ pc = "write"
    /\ IF winsect \in FatSectors /\ mirror[winsect] # win
       THEN /\ mirror' = [mirror EXCEPT ![winsect] = win]
            /\ UNCHANGED <<disk, wflag, pc>>
       ELSE /\ disk' = [disk EXCEPT ![winsect] = win]
            /\ wflag' = FALSE
            /\ pc' = then
            /\ UNCHANGED mirror
    /\ UNCHANGED <<win, winsect, then, target>>

WriteSector ==
    /\ pc = "write"
    /\ disk' = [disk EXCEPT ![winsect] = win]
    /\ wflag' = FALSE
    /\ pc' = IF winsect \in FatSectors THEN "mirror" ELSE then
    /\ UNCHANGED <<mirror, win, winsect, then, target>>

(* Mutant: wflag is cleared before the result of the write is looked at.   *)
WriteFailsClean ==
    /\ "io" \in Faults
    /\ pc = "write"
    /\ disk' \in {disk, [disk EXCEPT ![winsect] = win]}
    /\ wflag' = FALSE
    /\ pc' = "idle"
    /\ UNCHANGED <<mirror, win, winsect, then, target>>

(* disk_write reported an error; the sector may have been written anyway   *)
(* (fatfs_dev_write reports its last retry as failed even if it succeeds). *)
WriteFails ==
    /\ "io" \in Faults
    /\ pc = "write"
    /\ disk' \in {disk, [disk EXCEPT ![winsect] = win]}
    /\ pc' = "idle"
    /\ UNCHANGED <<mirror, win, winsect, wflag, then, target>>

(* The other FAT copy; the result of this disk_write is not looked at.     *)
MirrorSector ==
    /\ pc = "mirror"
    /\ \/ mirror' = [mirror EXCEPT ![winsect] = win]
       \/ "io" \in Faults /\ mirror' = mirror
    /\ pc' = then
    /\ UNCHANGED <<disk, win, winsect, wflag, then, target>>

ReadSector ==
    /\ pc = "read"
    /\ win' = disk[target]
    /\ winsect' = target
    /\ pc' = "idle"
    /\ UNCHANGED <<disk, mirror, wflag, then, target>>

(* Mutant: winsect is set although the sector could not be read.           *)
ReadFailsKeepsTarget ==
    /\ "io" \in Faults
    /\ pc = "read"
    /\ win' \in Contents
    /\ winsect' = target
    /\ pc' = "idle"
    /\ UNCHANGED <<disk, mirror, wflag, then, target>>

ReadFails ==
    /\ "io" \in Faults
    /\ pc = "read"
    /\ win' \in Contents
    /\ winsect' = NoSector
    /\ pc' = "idle"
    /\ UNCHANGED <<disk, mirror, wflag, then, target>>

(* check_fs at the start of a mount, or a power loss (which ends in a      *)
(* mount): the window is invalid and its edit forgotten.                   *)
Invalidate ==
    /\ pc = "idle" \/ "crash" \in Faults
    /\ wflag' = FALSE
    /\ winsect' = NoSector
    /\ pc' = "idle"
    /\ UNCHANGED <<disk, mirror, win, then, target>>

Transfer == WriteSector \/ WriteFails \/ MirrorSector \/ ReadSector \/ ReadFails

Next ==
    \/ \E s \in Sectors : MoveWindow(s)
    \/ SyncWindow
    \/ \E v \in Contents : Modify(v)
    \/ WriteFsInfo
    \/ \E s \in OtherSectors, v \in Contents : InitDirSector(s, v)
    \/ ClearWindow
    \/ Transfer
    \/ Invalidate

Spec == Init /\ [][Next]_vars

-----------------------------------------------------------------------------
(* What the file system sees: the edit under a dirty window, the medium    *)
(* everywhere else.                                                        *)
mem == [s \in Sectors |-> IF wflag /\ s = winsect THEN win ELSE disk[s]]

(* The window implements the ordered store.                                *)
Store == INSTANCE OrderedStore WITH
    at <- IF winsect \in Sectors THEN winsect ELSE NoSector,
    dirty <- wflag

Refinement == Store!StoreSpec

(* Whoever finds the window on a sector between two operations reads the   *)
(* truth there: a clean window equals the medium (ff.c relies on it at     *)
(* every "hit" of move_window, and f_open and f_sync keep raw pointers     *)
(* into the window), across failed reads and writes, FSINFO composed in    *)
(* place and the window f_mkdir leaves cleared.                            *)
WindowTruth ==
    pc = "idle" /\ winsect \in Sectors /\ ~wflag => win = disk[winsect]

(* The second FAT copy is only ever given what the first already holds, so *)
(* after an interruption the first copy, the one get_fat reads, is the     *)
(* newer of the two (sync_window's order of writes).                       *)
MirrorAfterPrimary ==
    [][\A s \in FatSectors : mirror'[s] # mirror[s] => mirror'[s] = disk[s]]_vars

-----------------------------------------------------------------------------
(* The inductive strengthening behind WindowTruth and Refinement.          *)
WindowInv ==
    /\ TypeOK
    /\ wflag => winsect \in Sectors
    /\ pc = "write" => wflag
    /\ pc \in {"mirror", "read", "clear", "scratch"} => ~wflag
    /\ pc = "mirror" => winsect \in FatSectors
    /\ pc = "mirror" => win = disk[winsect]
    /\ pc \in {"write", "mirror"} /\ then = "read" => target # winsect
    /\ then = "clear" /\ pc \in {"write", "mirror"} => winsect \in OtherSectors
    /\ WindowTruth

=============================================================================
