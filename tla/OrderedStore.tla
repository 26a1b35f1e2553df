---------------------------- MODULE OrderedStore ----------------------------
(***************************************************************************)
(* What the one-sector write-back window of a FAT volume promises to the   *)
(* rest of the file system (the abstract specification of FatWindow).      *)
(*                                                                         *)
(* mem is what the file system reads and edits, disk what the medium       *)
(* holds.  Edits are confined to the sector under the window, and the only *)
(* way an edit reaches the medium is that the WHOLE of mem does: so the    *)
(* medium is at every instant some past value of mem, metadata reaches it  *)
(* in program order, and an interruption loses a suffix of the edits and   *)
(* never an edit in the middle.                                            *)
(***************************************************************************)
EXTENDS TLAPS

CONSTANTS
    Sectors,        \* the sectors of the volume that go through the window
    NoSector        \* winsect = 0xFFFFFFFF: nothing valid in the window (not a sector)

VARIABLES
    mem,            \* [Sectors -> contents] as the file system sees them
    disk,           \* [Sectors -> contents] on the medium
    at,             \* the sector under the window, or NoSector
    dirty           \* the window holds an edit the medium may not have

storeVars == <<mem, disk, at, dirty>>

Positions == Sectors \cup {NoSector}

StoreInit ==
    /\ disk = mem
    /\ at = NoSector
    /\ dirty = FALSE

(* The window is placed somewhere else while there is nothing to save.     *)
Place ==
    /\ ~dirty
    /\ at' \in Positions
    /\ UNCHANGED <<mem, disk, dirty>>

(* The sector under the window is edited in memory only.                   *)
Edit ==
    /\ at \in Sectors
    /\ \A s \in Sectors \ {at} : mem'[s] = mem[s]
    /\ dirty' = TRUE
    /\ UNCHANGED <<disk, at>>

(* Everything edited so far is on the medium, and nothing else is.         *)
WriteBack ==
    /\ dirty
    /\ disk' = mem
    /\ dirty' = FALSE
    /\ UNCHANGED <<mem, at>>

(* A write that reported an error: the medium may have taken it or not.    *)
FailedWriteBack ==
    /\ dirty
    /\ disk' \in {disk, mem}
    /\ UNCHANGED <<mem, at, dirty>>

(* A whole new sector is put into the clean window and edited at once, the *)
(* old contents never read (the new directory table of f_mkdir).           *)
Replace ==
    /\ ~dirty
    /\ at' \in Sectors
    /\ \A s \in Sectors \ {at'} : mem'[s] = mem[s]
    /\ dirty' = TRUE
    /\ UNCHANGED disk

(* Remount or power loss: the window is invalidated and whatever was only  *)
(* in memory is forgotten.                                                 *)
Forget ==
    /\ mem' = disk
    /\ at' = NoSector
    /\ dirty' = FALSE
    /\ UNCHANGED disk

StoreNext ==
    \/ Place \/ Edit \/ WriteBack \/ FailedWriteBack
    \/ Replace \/ Forget

StoreSpec == StoreInit /\ [][StoreNext]_storeVars

-----------------------------------------------------------------------------

(* The memory and the medium differ at most in the sector under a dirty    *)
(* window.                                                                 *)
Coherent ==
    /\ \A s \in Sectors : mem[s] # disk[s] => dirty /\ s = at
    /\ dirty => at \in Sectors

(* The medium only ever moves to the present value of mem: what is on it   *)
(* is a past value of mem, never a mixture of two (the reason why an       *)
(* invariant of the metadata in memory is one of the metadata on disk).    *)
WriteOrder == [][disk' # disk => disk' = mem]_storeVars

-----------------------------------------------------------------------------
(* No edit is outstanding outside the dirty window (sync_window has only   *)
(* one sector to write back, and needs no other).                          *)
THEOREM StoreCoherent == StoreSpec => []Coherent
<1>1. StoreInit => Coherent
  BY DEF StoreInit, Coherent
<1>2. Coherent /\ [StoreNext]_storeVars => Coherent'
  <2> SUFFICES ASSUME Coherent, [StoreNext]_storeVars
               PROVE  Coherent'
    OBVIOUS
  <2>1. CASE Place
    BY <2>1 DEF Place, Coherent
  <2>2. CASE Edit
    BY <2>2 DEF Edit, Coherent
  <2>3. CASE WriteBack
    BY <2>3 DEF WriteBack, Coherent
  <2>4. CASE FailedWriteBack
    BY <2>4 DEF FailedWriteBack, Coherent
  <2>5. CASE Replace
    BY <2>5 DEF Replace, Coherent
  <2>6. CASE Forget
    BY <2>6 DEF Forget, Coherent
  <2>7. CASE UNCHANGED storeVars
    BY <2>7 DEF storeVars, Coherent
  <2> QED
    BY <2>1, <2>2, <2>3, <2>4, <2>5, <2>6, <2>7 DEF StoreNext
<1> QED
  BY <1>1, <1>2, PTL DEF StoreSpec

(* What reaches the medium is the present memory as a whole.               *)
THEOREM StoreWriteOrder == StoreSpec => WriteOrder
<1>1. [StoreNext]_storeVars => [disk' # disk => disk' = mem]_storeVars
  BY DEF StoreNext, storeVars, Place, Edit, WriteBack, FailedWriteBack,
         Replace, Forget
<1> QED
  BY <1>1, PTL DEF StoreSpec, WriteOrder

=============================================================================
