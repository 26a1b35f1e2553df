--------------------------- MODULE FatWindowProofs ---------------------------
(***************************************************************************)
(* Proofs about the disk access window, for any set of sectors, any sector *)
(* contents and any choice of Faults: the inductive invariant WindowInv,   *)
(* WindowTruth, and that the window implements the ordered store.          *)
(***************************************************************************)
EXTENDS FatWindow, TLAPS

LEMMA WindowInvInit == Init => WindowInv
  BY WindowAssumption DEF Init, WindowInv, TypeOK, WindowTruth, Sectors

LEMMA WindowInvStep == WindowInv /\ [Next]_vars => WindowInv'
<1> SUFFICES ASSUME WindowInv, [Next]_vars PROVE WindowInv'
  OBVIOUS
<1> USE WindowAssumption DEF WindowInv, TypeOK, WindowTruth, Sectors
<1>1. ASSUME NEW s \in Sectors, MoveWindow(s) PROVE WindowInv'
  BY <1>1 DEF MoveWindow
<1>2. CASE SyncWindow
  BY <1>2 DEF SyncWindow
<1>3. ASSUME NEW v \in Contents, Modify(v) PROVE WindowInv'
  BY <1>3 DEF Modify
<1>4. CASE WriteFsInfo
  BY <1>4 DEF WriteFsInfo
<1>5. ASSUME NEW s \in OtherSectors, NEW v \in Contents, InitDirSector(s, v)
      PROVE  WindowInv'
  BY <1>5 DEF InitDirSector
<1>6. CASE ClearWindow
  BY <1>6 DEF ClearWindow
<1>7. CASE WriteSector
  BY <1>7 DEF WriteSector
<1>8. CASE WriteFails
  BY <1>8 DEF WriteFails
<1>9. CASE MirrorSector
  BY <1>9 DEF MirrorSector
<1>10. CASE ReadSector
  BY <1>10 DEF ReadSector
<1>11. CASE ReadFails
  BY <1>11 DEF ReadFails
<1>12. CASE Invalidate
  BY <1>12 DEF Invalidate
<1>13. CASE UNCHANGED vars
  BY <1>13 DEF vars
<1> QED
  BY <1>1, <1>2, <1>3, <1>4, <1>5, <1>6, <1>7, <1>8, <1>9, <1>10, <1>11,
     <1>12, <1>13 DEF Next, Transfer

(* The strengthened invariant holds in every reachable state.              *)
THEOREM WindowInvariant == Spec => []WindowInv
  BY WindowInvInit, WindowInvStep, PTL DEF Spec

(* Between two operations a clean window equals the sector it claims to    *)
(* hold: every hit of move_window returns what the medium holds.           *)
THEOREM WindowIsTruthful == Spec => []WindowTruth
<1>1. WindowInv => WindowTruth
  BY DEF WindowInv
<1> QED
  BY <1>1, WindowInvariant, PTL

(* The second FAT copy receives only what the first one already holds.     *)
THEOREM MirrorFollows == Spec => MirrorAfterPrimary
<1>1. WindowInv /\ [Next]_vars
        => [\A s \in FatSectors :
              mirror'[s] # mirror[s] => mirror'[s] = disk[s]]_vars
  BY DEF WindowInv, TypeOK, Next, Transfer, vars, MoveWindow, SyncWindow,
         Modify, WriteFsInfo, InitDirSector, ClearWindow, WriteSector,
         WriteFails, MirrorSector, ReadSector, ReadFails, Invalidate
<1> QED
  BY <1>1, WindowInvariant, PTL DEF Spec, MirrorAfterPrimary

-----------------------------------------------------------------------------
(* Refinement, with mem the edit under a dirty window and disk elsewhere.  *)

LEMMA StoreInitially == Init => Store!StoreInit
  BY WindowAssumption DEF Init, Store!StoreInit, mem, Sectors

LEMMA StoreStep ==
  WindowInv /\ [Next]_vars => [Store!StoreNext]_(Store!storeVars)
<1> SUFFICES ASSUME WindowInv, [Next]_vars
             PROVE  Store!StoreNext \/ UNCHANGED Store!storeVars
  OBVIOUS
<1> USE WindowAssumption DEF WindowInv, TypeOK, WindowTruth, Sectors
<1>1. ASSUME NEW s \in Sectors, MoveWindow(s)
      PROVE  UNCHANGED Store!storeVars
  BY <1>1 DEF MoveWindow, Store!storeVars, mem
<1>2. CASE SyncWindow
  BY <1>2 DEF SyncWindow, Store!StoreNext, Store!storeVars, mem
<1>3. ASSUME NEW v \in Contents, Modify(v) PROVE Store!Edit
  BY <1>3 DEF Modify, Store!Edit, mem
<1>4. CASE WriteFsInfo
  BY <1>4 DEF WriteFsInfo, Store!StoreNext, Store!Place, Store!Positions, mem
<1>5. ASSUME NEW s \in OtherSectors, NEW v \in Contents, InitDirSector(s, v)
      PROVE  Store!Replace
  BY <1>5 DEF InitDirSector, Store!Replace, mem
<1>6. CASE ClearWindow
  BY <1>6 DEF ClearWindow, Store!storeVars, mem
<1>7. CASE WriteSector
  BY <1>7 DEF WriteSector, Store!StoreNext, Store!WriteBack, mem
<1>8. CASE WriteFails
  BY <1>8 DEF WriteFails, Store!StoreNext, Store!FailedWriteBack, mem
<1>9. CASE MirrorSector
  BY <1>9 DEF MirrorSector, Store!storeVars, mem
<1>10. CASE ReadSector
  BY <1>10 DEF ReadSector, Store!StoreNext, Store!Place, Store!Positions, mem
<1>11. CASE ReadFails
  BY <1>11 DEF ReadFails, Store!StoreNext, Store!Place, Store!Positions, mem
<1>12. CASE Invalidate
  BY <1>12 DEF Invalidate, Store!StoreNext, Store!Forget, Store!Positions, mem
<1>13. CASE UNCHANGED vars
  BY <1>13 DEF vars, Store!storeVars, mem
<1> QED
  BY <1>1, <1>2, <1>3, <1>4, <1>5, <1>6, <1>7, <1>8, <1>9, <1>10, <1>11,
     <1>12, <1>13 DEF Next, Transfer, Store!StoreNext

(* The window of the code, with failed transfers and power losses between  *)
(* any two of them, implements the ordered store.                          *)
THEOREM WindowImplementsStore == Spec => Refinement
  BY StoreInitially, StoreStep, WindowInvariant, PTL
     DEF Spec, Refinement, Store!StoreSpec

=============================================================================
