--------------------------- MODULE FatVolumeProofs ---------------------------
(***************************************************************************)
(* Theorems about FatVolume, for every geometry, set of names, set of      *)
(* handles and combination of faults.  First its type invariant, the       *)
(* coherence of the window, and what the medium may become in a step.      *)
(* Then the chains: no entry and no link points to a free cluster, and no  *)
(* cluster is in two chains, in memory and on the medium, whatever step    *)
(* was interrupted; a file's chain is never shorter than the size in its   *)
(* entry; and the current cluster of every FIL is the one its offset       *)
(* names.  Those have two hypotheses, which Scope names.                   *)
(***************************************************************************)
EXTENDS FatVolume, FiniteSetTheorems, TLAPS

-----------------------------------------------------------------------------
(* Geometry: where the sectors of the two tables are.                      *)

(* A quotient grows with the number divided.                               *)
LEMMA QuotientMonotone ==
    ASSUME NEW a \in Nat, NEW b \in Nat, NEW k \in Nat \ {0}, a <= b
    PROVE  a \div k \in Nat /\ a \div k <= b \div k
<1>1. a = k * (a \div k) + (a % k) /\ a % k \in 0 .. k - 1 /\ a \div k \in Nat
  OBVIOUS
<1>2. b = k * (b \div k) + (b % k) /\ b % k \in 0 .. k - 1 /\ b \div k \in Nat
  OBVIOUS
<1>3. SUFFICES ASSUME a \div k > b \div k PROVE FALSE
  BY <1>1, <1>2
<1>4. a \div k >= b \div k + 1
  BY <1>1, <1>2, <1>3
<1>5. k * (a \div k) >= k * (b \div k) + k
  BY <1>1, <1>2, <1>4
<1>6. QED
  BY <1>1, <1>2, <1>5

(* A FAT sector is a sector before the directory.                          *)
LEMMA FatSectors ==
    /\ FatSize \in Nat \ {0}
    /\ \A c \in Clusters : FatSector(c) \in Nat /\ FatSector(c) < FatSize
<1>1. \A c \in Clusters : c \in Nat /\ n_fatent - 1 \in Nat /\ c <= n_fatent - 1
  BY VolumeAssumption DEF Clusters, VolumeAssumption
<1>2. n_fatent - 1 \in Nat
  BY VolumeAssumption DEF VolumeAssumption
<1>3. FatSector(n_fatent - 1) \in Nat
  BY <1>2, VolumeAssumption, QuotientMonotone DEF FatSector, VolumeAssumption
<1>4. \A c \in Clusters : FatSector(c) \in Nat
                            /\ FatSector(c) <= FatSector(n_fatent - 1)
  BY <1>1, VolumeAssumption, QuotientMonotone DEF FatSector, VolumeAssumption
<1>5. QED
  BY <1>3, <1>4 DEF FatSize

(* A directory sector is a sector after the FAT.                           *)
LEMMA DirSectors ==
    /\ DirSector(NumSlots) \in Nat
    /\ \A i \in Slots : /\ DirSector(i) \in Nat
                        /\ DirSector(i) <= DirSector(NumSlots)
                        /\ DirSector(i) >= FatSize
<1>1. \A i \in Slots : i - 1 \in Nat /\ NumSlots - 1 \in Nat /\ i - 1 <= NumSlots - 1
  BY VolumeAssumption DEF Slots, VolumeAssumption
<1>2. NumSlots \in Slots
  BY VolumeAssumption DEF Slots, VolumeAssumption
<1>3. \A i \in Slots : /\ (i - 1) \div DirPerSector \in Nat
                       /\ (i - 1) \div DirPerSector
                             <= (NumSlots - 1) \div DirPerSector
  BY <1>1, VolumeAssumption, QuotientMonotone DEF VolumeAssumption
<1>4. (NumSlots - 1) \div DirPerSector \in Nat
  BY <1>2, <1>3
<1>5. QED
  BY <1>3, <1>4, <1>2, FatSectors DEF DirSector

LEMMA Geometry ==
    /\ \A c \in Clusters : FatSector(c) \in Sectors
    /\ \A i \in Slots : DirSector(i) \in Sectors
    /\ \A c \in Clusters, i \in Slots : FatSector(c) # DirSector(i)
    /\ FatSize - 1 \in Sectors
    /\ NoSector \notin Sectors
<1>1. NumSlots \in Slots
  BY VolumeAssumption DEF Slots, VolumeAssumption
<1>2. DirSector(NumSlots) >= FatSize
  BY <1>1, DirSectors
<1>3. QED
  BY <1>1, <1>2, FatSectors, DirSectors DEF Sectors, NoSector

-----------------------------------------------------------------------------
(* The window.                                                             *)

StoreType ==
    /\ fat \in [Clusters -> {0} \cup Clusters \cup {EOC}]
    /\ dfat \in [Clusters -> {0} \cup Clusters \cup {EOC}]
    /\ dir \in [Slots -> Entry]
    /\ ddir \in [Slots -> Entry]
    /\ winsect \in Sectors \cup {NoSector}
    /\ wflag \in BOOLEAN

(* What every step does to the store.                                      *)
Keeps ==
    /\ StoreType'
    /\ WindowCoherent'
    /\ medium' # medium => medium' = <<fat, dir>>

(* Writing the window back brings the medium to the memory: it holds the   *)
(* only sector in which they differ.                                       *)
LEMMA WriteBackCompletes ==
    ASSUME StoreType, WindowCoherent, WriteBack
    PROVE  dfat' = fat /\ ddir' = dir
<1>1. CASE wflag
  <2>1. \A c \in Clusters : dfat'[c] = fat[c]
    BY <1>1 DEF WriteBack, WindowCoherent
  <2>2. \A i \in Slots : ddir'[i] = dir[i]
    BY <1>1 DEF WriteBack, WindowCoherent
  <2>3. dfat' = [c \in Clusters |-> dfat'[c]] /\ ddir' = [i \in Slots |-> ddir'[i]]
    BY <1>1 DEF WriteBack
  <2>4. QED
    BY <2>1, <2>2, <2>3 DEF StoreType
<1>2. CASE ~wflag
  <2>1. \A c \in Clusters : dfat[c] = fat[c]
    BY <1>2 DEF WindowCoherent
  <2>2. \A i \in Slots : ddir[i] = dir[i]
    BY <1>2 DEF WindowCoherent
  <2>3. dfat = fat /\ ddir = dir
    BY <2>1, <2>2 DEF StoreType
  <2>4. QED
    BY <1>2, <2>3 DEF WriteBack, medium
<1>3. QED
  BY <1>1, <1>2

(* A visit that ends on the sector in which the step edits the tables.     *)
LEMMA VisitKeeps ==
    ASSUME StoreType, WindowCoherent,
           NEW S, NEW last \in S, NEW edit \in BOOLEAN,
           last \in Sectors,
           Visit(S, last, edit),
           fat' \in [Clusters -> {0} \cup Clusters \cup {EOC}],
           dir' \in [Slots -> Entry],
           \A c \in Clusters : fat'[c] # fat[c] => edit /\ FatSector(c) = last,
           \A i \in Slots : dir'[i] # dir[i] => edit /\ DirSector(i) = last
    PROVE  Keeps
<1>1. winsect' = last
  BY DEF Visit
<1>2. CASE Miss(S)
  <2>1. dfat' = fat /\ ddir' = dir /\ wflag' = edit
    BY <1>2, WriteBackCompletes DEF Visit
  <2>2. StoreType'
    BY <1>1, <2>1 DEF StoreType
  <2>3. WindowCoherent'
    BY <1>1, <2>1 DEF WindowCoherent
  <2>4. QED
    BY <2>1, <2>2, <2>3 DEF Keeps, medium
<1>3. CASE ~Miss(S)
  <2>1. winsect = last
    BY <1>3 DEF Miss
  <2>2. dfat' = dfat /\ ddir' = ddir /\ wflag' = (wflag \/ edit)
    BY <1>3 DEF Visit, medium
  <2>3. StoreType'
    BY <1>1, <2>2 DEF StoreType
  <2>4. WindowCoherent'
    BY <1>1, <2>1, <2>2 DEF WindowCoherent
  <2>5. QED
    BY <2>2, <2>3, <2>4 DEF Keeps, medium
<1>4. QED
  BY <1>2, <1>3

LEMMA VisitFailsKeeps ==
    ASSUME StoreType, WindowCoherent, NEW S, VisitFails(S)
    PROVE  Keeps /\ UNCHANGED <<fat, dir>>
<1>1. CASE WriteBackFails(S)
  <2>1. UNCHANGED <<fat, dir, winsect, wflag>>
    BY <1>1 DEF WriteBackFails, window
  <2>2. CASE UNCHANGED medium
    BY <2>1, <2>2 DEF Keeps, StoreType, WindowCoherent, medium
  <2>3. CASE WriteBack
    <3>1. dfat' = fat /\ ddir' = dir
      BY <2>3, WriteBackCompletes
    <3>2. QED
      BY <2>1, <3>1 DEF Keeps, StoreType, WindowCoherent, medium
  <2>4. QED
    BY <1>1, <2>1, <2>2, <2>3 DEF WriteBackFails
<1>2. CASE LoadFails(S)
  <2>1. /\ UNCHANGED <<fat, dir>>
        /\ winsect' = NoSector /\ wflag' = FALSE
        /\ dfat' = fat /\ ddir' = dir
    BY <1>2, WriteBackCompletes DEF LoadFails
  <2>2. QED
    BY <2>1 DEF Keeps, StoreType, WindowCoherent, medium
<1>3. QED
  BY <1>1, <1>2 DEF VisitFails

LEMMA StoreUnchangedKeeps ==
    ASSUME StoreType, WindowCoherent, UNCHANGED store
    PROVE  Keeps
BY DEF Keeps, StoreType, WindowCoherent, medium, store

LEMMA LookKeeps ==
    ASSUME StoreType, WindowCoherent,
           NEW S, NEW last \in S, last \in Sectors,
           Visit(S, last, FALSE), UNCHANGED <<fat, dir>>
    PROVE  Keeps
BY VisitKeeps DEF StoreType

-----------------------------------------------------------------------------
(* The running file function and the FIL objects.                          *)

(* What a file function counts on when it calls create_chain.              *)
Pending(ret, h, ofs) ==
    /\ h \in Handles
    /\ ret \in {"write_got", "seek_first", "seek_got"}
    /\ ret = "write_got" => fil[h].fptr < MaxSize
    /\ ret = "seek_first" => fil[h].fptr = 0 /\ ofs >= 1
    /\ ret = "seek_got" => /\ fil[h].clust \in Clusters
                           /\ ofs > 1
                           /\ fil[h].fptr + ofs <= MaxSize

Opening == /\ op.h \in Handles
           /\ op.slot \in Slots
           /\ op.first \in Clusters

(* What the locals are at each step.                                       *)
Locals ==
    /\ pc \in {"create", "link"} => Pending(op.ret, op.h, op.ofs)
    /\ pc = "link" => op.cl \in Clusters /\ op.ncl \in Clusters
    /\ pc \in {"write_got", "seek_first", "seek_got"} =>
          Pending(pc, op.h, op.ofs) /\ (op.res = "ok" => op.ncl \in Clusters)
    /\ pc = "seek" => /\ op.h \in Handles
                      /\ fil[op.h].clust \in Clusters
                      /\ op.ofs >= 1
                      /\ fil[op.h].fptr + op.ofs <= MaxSize
    /\ pc = "remove" => op.cl \in Clusters /\ op.ret \in {"open_back", "sync"}
    /\ pc = "remove" /\ op.ret = "open_back" => Opening
    /\ pc = "open_back" => Opening
    /\ pc = "rename_remove" => op.slot \in Slots /\ op.ret = "idle"
    /\ pc \in {"sync", "fsinfo"} /\ op.ret \in {"synced", "closed"} =>
          op.h \in Handles
    /\ op.to # "-" => op.from \in Names /\ op.to \in Names
    /\ pc = "fsinfo" => ~wflag

(* An open FIL has its entry, and one that is not at offset 0 a cluster.   *)
Objects == \A h \in Handles :
    /\ fil[h].open => fil[h].slot \in Slots
    /\ fil[h].fptr > 0 => fil[h].clust \in Clusters

VolumeInv == TypeOK /\ WindowCoherent /\ Objects /\ Locals

-----------------------------------------------------------------------------
(* Every step keeps the store.                                             *)

LEMMA ScanInTable ==
    ASSUME TypeOK, NEW k \in 1 .. ScanLength
    PROVE  Scanned(ScanStart(op.cl), k) \in Clusters
<1>1. op.cl \in {0} \cup Clusters /\ last_clust \in Int
  BY DEF TypeOK, Op
<1>2. ScanStart(op.cl) \in 1 .. n_fatent - 1
  BY <1>1, VolumeAssumption DEF ScanStart, Clusters, VolumeAssumption
<1>3. QED
  BY <1>2, VolumeAssumption DEF Scanned, ScanLength, Clusters, VolumeAssumption

LEMMA ChainStepKeeps == VolumeInv /\ ChainStep => Keeps
<1> SUFFICES ASSUME VolumeInv, ChainStep PROVE Keeps
  OBVIOUS
<1>0. StoreType /\ WindowCoherent /\ TypeOK
  BY DEF VolumeInv, TypeOK, StoreType
<1>1. op.cl \in {0} \cup Clusters
  BY <1>0 DEF TypeOK, Op
<1>2. \A c \in Clusters : FatSector(c) \in {FatSector(c)} /\ FatSector(c) \in Sectors
  BY Geometry
<1>3. CASE ChainFollowed
  BY <1>0, <1>1, <1>2, <1>3, LookKeeps DEF ChainFollowed
<1>4. CASE ChainBroken
  BY <1>0, <1>1, <1>2, <1>4, LookKeeps DEF ChainBroken
<1>5. CASE ChainMark
  <2>1. PICK k \in 1 .. ScanLength :
          LET ncl == Scanned(ScanStart(op.cl), k) IN
          /\ Visit(ScanSectors(op.cl, k), FatSector(ncl), TRUE)
          /\ fat' = [fat EXCEPT ![ncl] = EOC]
          /\ dir' = dir
    BY <1>5 DEF ChainMark
  <2> DEFINE ncl == Scanned(ScanStart(op.cl), k)
  <2>2. ncl \in Clusters
    BY <1>0, ScanInTable
  <2>3. FatSector(ncl) \in ScanSectors(op.cl, k)
    BY DEF ScanSectors
  <2>4. /\ fat' \in [Clusters -> {0} \cup Clusters \cup {EOC}]
        /\ \A c \in Clusters : fat'[c] # fat[c] => FatSector(c) = FatSector(ncl)
        /\ dir' \in [Slots -> Entry]
    BY <1>0, <2>1 DEF StoreType
  <2> HIDE DEF ncl
  <2>5. FatSector(ncl) \in Sectors
    BY <2>2, Geometry
  <2>6. Visit(ScanSectors(op.cl, k), FatSector(ncl), TRUE) /\ dir' = dir
    BY <2>1 DEF ncl
  <2>7. QED
    BY <1>0, <2>3, <2>4, <2>5, <2>6, VisitKeeps
<1>6. CASE ChainFull
  <2>1. ScanLength \in 1 .. ScanLength
    BY VolumeAssumption DEF ScanLength, VolumeAssumption
  <2> DEFINE last == Scanned(ScanStart(op.cl), ScanLength)
  <2>2. last \in Clusters
    BY <1>0, <2>1, ScanInTable
  <2>3. FatSector(last) \in ScanSectors(op.cl, ScanLength)
    BY <2>1 DEF ScanSectors
  <2>4. Visit(ScanSectors(op.cl, ScanLength), FatSector(last), FALSE)
          /\ UNCHANGED <<fat, dir>>
    BY <1>6 DEF ChainFull
  <2> HIDE DEF last
  <2>5. FatSector(last) \in Sectors
    BY <2>2, Geometry
  <2>6. QED
    BY <1>0, <2>3, <2>4, <2>5, LookKeeps
<1>7. CASE ChainLink
  <2>1. op.cl \in Clusters /\ op.ncl \in Clusters
    BY <1>7 DEF ChainLink, VolumeInv, Locals
  <2>2. /\ Visit({FatSector(op.cl)}, FatSector(op.cl), TRUE)
        /\ fat' = [fat EXCEPT ![op.cl] = op.ncl]
        /\ dir' = dir
    BY <1>7 DEF ChainLink
  <2>3. /\ fat' \in [Clusters -> {0} \cup Clusters \cup {EOC}]
        /\ \A c \in Clusters : fat'[c] # fat[c] => FatSector(c) = FatSector(op.cl)
        /\ dir' \in [Slots -> Entry]
    BY <1>0, <2>1, <2>2 DEF StoreType
  <2>4. QED
    BY <1>0, <1>2, <2>1, <2>2, <2>3, VisitKeeps
<1>8. CASE ChainFails
  BY <1>0, <1>8, VisitFailsKeeps DEF ChainFails
<1>9. CASE RemoveLink
  <2>1. op.cl \in Clusters
    BY <1>9 DEF RemoveLink, VolumeInv, Locals
  <2>2. /\ Visit({FatSector(op.cl)}, FatSector(op.cl), TRUE)
        /\ fat' = [fat EXCEPT ![op.cl] = 0]
        /\ dir' = dir
    BY <1>9 DEF RemoveLink
  <2>3. /\ fat' \in [Clusters -> {0} \cup Clusters \cup {EOC}]
        /\ \A c \in Clusters : fat'[c] # fat[c] => FatSector(c) = FatSector(op.cl)
        /\ dir' \in [Slots -> Entry]
    BY <1>0, <2>1, <2>2 DEF StoreType
  <2>4. QED
    BY <1>0, <1>2, <2>1, <2>2, <2>3, VisitKeeps
<1>10. CASE RemoveStops
  <2>1. op.cl \in Clusters
    BY <1>10 DEF RemoveStops, VolumeInv, Locals
  <2>2. QED
    BY <1>0, <1>2, <1>10, <2>1, LookKeeps DEF RemoveStops
<1>11. CASE RemoveFails
  BY <1>0, <1>11, VisitFailsKeeps DEF RemoveFails
<1>12. QED
  BY <1>3, <1>4, <1>5, <1>6, <1>7, <1>8, <1>9, <1>10, <1>11 DEF ChainStep

(* A search ends on a slot whose sector it has visited.                    *)
LEMMA SearchVisits ==
    ASSUME NEW n, NEW i \in Slots, i \in Found(n) \/ i \in SearchEnd(n)
    PROVE  DirSector(i) \in Searched(n)
BY DEF Found, SearchEnd, Searched, SectorsOf

LEMMA LookUpKeeps ==
    ASSUME StoreType, WindowCoherent, NEW n, LookUp(n)
    PROVE  Keeps
<1>1. PICK i \in SearchEnd(n) :
        Visit(Searched(n), DirSector(i), FALSE) /\ UNCHANGED <<fat, dir>>
  BY DEF LookUp
<1>2. i \in Slots
  BY DEF SearchEnd
<1>3. DirSector(i) \in Searched(n) /\ DirSector(i) \in Sectors
  BY <1>2, SearchVisits, Geometry
<1>4. QED
  BY <1>1, <1>3, LookKeeps

LEMMA ResizedEntry ==
    ASSUME NEW e \in Entry, NEW c \in {0} \cup Clusters, NEW z \in 0 .. MaxSize
    PROVE  Resized(e, c, z) \in Entry /\ Resized(e, c, z).name = e.name
BY DEF Resized, Entry

(* A visit that ends with an edit of directory entry i.                    *)
LEMMA EntryEditKeeps ==
    ASSUME StoreType, WindowCoherent,
           NEW S, NEW i \in Slots, NEW e \in Entry, DirSector(i) \in S,
           Visit(S, DirSector(i), TRUE),
           fat' = fat, dir' = [dir EXCEPT ![i] = e]
    PROVE  Keeps
<1>1. DirSector(i) \in Sectors
  BY Geometry
<1>2. /\ dir' \in [Slots -> Entry]
      /\ \A j \in Slots : dir'[j] # dir[j] => DirSector(j) = DirSector(i)
      /\ fat' \in [Clusters -> {0} \cup Clusters \cup {EOC}]
  BY DEF StoreType
<1>3. QED
  BY <1>1, <1>2, VisitKeeps

LEMMA OpenStepKeeps == VolumeInv /\ OpenStep => Keeps
<1> SUFFICES ASSUME VolumeInv, OpenStep PROVE Keeps
  OBVIOUS
<1>0. StoreType /\ WindowCoherent /\ TypeOK
  BY DEF VolumeInv, TypeOK, StoreType
<1>1. ASSUME NEW n \in Names, Stat(n) \/ LookUpFails(n) PROVE Keeps
  BY <1>0, <1>1, LookUpKeeps, VisitFailsKeeps DEF Stat, LookUpFails
<1>2. ASSUME NEW n \in Names, NEW mode, OpenRefused(n, mode) PROVE Keeps
  BY <1>0, <1>2, LookUpKeeps DEF OpenRefused
<1>3. ASSUME NEW h \in Handles, NEW n \in Names, NEW mode, NEW write,
             OpenExisting(h, n, mode, write)
      PROVE  Keeps
  <2>1. PICK i \in Found(n) : Visit(Searched(n), DirSector(i), FALSE)
    BY <1>3 DEF OpenExisting
  <2>2. i \in Slots
    BY DEF Found
  <2>3. UNCHANGED <<fat, dir>>
    BY <1>3 DEF OpenExisting
  <2>4. QED
    BY <1>0, <2>1, <2>2, <2>3, SearchVisits, Geometry, LookKeeps
<1>4. ASSUME NEW h \in Handles, NEW n \in Names, NEW mode, OpenCreate(h, n, mode)
      PROVE  Keeps
  <2>1. PICK i \in Slots :
          /\ Visit(Searched(n) \cup SectorsOf(Before(i)), DirSector(i), TRUE)
          /\ dir' = [dir EXCEPT ![i] = [name |-> n, sclust |-> 0, size |-> 0]]
    BY <1>4 DEF OpenCreate
  <2>2. DirSector(i) \in SectorsOf(Before(i))
    BY DEF SectorsOf, Before, Slots
  <2>3. [name |-> n, sclust |-> 0, size |-> 0] \in Entry
    BY VolumeAssumption DEF Entry, VolumeAssumption
  <2>4. fat' = fat
    BY <1>4 DEF OpenCreate
  <2>5. QED
    BY <1>0, <2>1, <2>2, <2>3, <2>4, EntryEditKeeps
<1>5. ASSUME NEW h \in Handles, NEW n \in Names, OpenTruncate(h, n)
      PROVE  Keeps
  <2>1. PICK i \in Found(n) :
          /\ Visit(Searched(n), DirSector(i), TRUE)
          /\ dir' = [dir EXCEPT ![i] = Resized(dir[i], 0, 0)]
    BY <1>5 DEF OpenTruncate
  <2>2. i \in Slots
    BY DEF Found
  <2>3. Resized(dir[i], 0, 0) \in Entry
    BY <1>0, <2>2, ResizedEntry, VolumeAssumption DEF StoreType, VolumeAssumption
  <2>4. fat' = fat
    BY <1>5 DEF OpenTruncate
  <2>5. QED
    BY <1>0, <2>1, <2>2, <2>3, <2>4, SearchVisits, EntryEditKeeps
<1>6. CASE OpenBack
  <2>1. op.slot \in Slots
    BY <1>6 DEF OpenBack, VolumeInv, Locals, Opening
  <2>2. CASE Visit({DirSector(op.slot)}, DirSector(op.slot), FALSE)
    BY <1>0, <1>6, <2>1, <2>2, Geometry, LookKeeps DEF OpenBack
  <2>3. CASE VisitFails({DirSector(op.slot)})
    BY <1>0, <2>3, VisitFailsKeeps
  <2>4. QED
    BY <1>6, <2>2, <2>3 DEF OpenBack
<1>7. QED
  BY <1>1, <1>2, <1>3, <1>4, <1>5, <1>6 DEF OpenStep

LEMMA WriteStepKeeps == VolumeInv /\ WriteStep => Keeps
<1> SUFFICES ASSUME VolumeInv, WriteStep PROVE Keeps
  OBVIOUS
<1>0. StoreType /\ WindowCoherent
  BY DEF VolumeInv, TypeOK, StoreType
<1>1. CASE UNCHANGED store
  BY <1>0, <1>1, StoreUnchangedKeeps
<1>2. CASE SeekOn
  <2> DEFINE s == FatSector(fil[op.h].clust)
  <2>1. s \in Sectors
    BY <1>2, Geometry DEF SeekOn, VolumeInv, Locals
  <2>2. CASE Visit({s}, s, FALSE) /\ UNCHANGED <<fat, dir>>
    BY <1>0, <2>1, <2>2, LookKeeps
  <2>3. CASE VisitFails({s})
    BY <1>0, <2>3, VisitFailsKeeps
  <2>4. QED
    BY <1>1, <1>2, <2>2, <2>3 DEF SeekOn
<1>3. QED
  BY <1>1, <1>2 DEF WriteStep, WriteStart, WriteGot, SeekStart, SeekFirst, SeekGot

LEMMA SyncStepKeeps == VolumeInv /\ SyncStep => Keeps
<1> SUFFICES ASSUME VolumeInv, SyncStep PROVE Keeps
  OBVIOUS
<1>0. StoreType /\ WindowCoherent
  BY DEF VolumeInv, TypeOK, StoreType
<1>1. CASE UNCHANGED store
  BY <1>0, <1>1, StoreUnchangedKeeps
<1>2. ASSUME NEW h \in Handles, NEW closing, SyncStart(h, closing) PROVE Keeps
  <2> DEFINE f == fil[h]
             s == DirSector(f.slot)
  <2>1. /\ f.slot \in Slots
        /\ f.sclust \in {0} \cup Clusters /\ f.fsize \in 0 .. MaxSize
    BY <1>2 DEF SyncStart, Usable, VolumeInv, Objects, TypeOK, Fil
  <2>2. CASE VisitFails({s})
    BY <1>0, <2>2, VisitFailsKeeps
  <2>3. CASE /\ Visit({s}, s, TRUE)
             /\ dir' = [dir EXCEPT ![f.slot] = Resized(@, f.sclust, f.fsize)]
             /\ UNCHANGED fat
    <3>1. Resized(dir[f.slot], f.sclust, f.fsize) \in Entry
      BY <1>0, <2>1, ResizedEntry DEF StoreType
    <3>2. QED
      BY <1>0, <2>1, <2>3, <3>1, EntryEditKeeps
  <2>4. QED
    BY <1>2, <2>2, <2>3 DEF SyncStart
<1>3. CASE SyncWindow
  <2>1. dfat' = fat /\ ddir' = dir /\ UNCHANGED <<fat, dir, winsect>> /\ wflag' = FALSE
    BY <1>0, <1>3, WriteBackCompletes DEF SyncWindow
  <2>2. QED
    BY <1>0, <2>1 DEF Keeps, StoreType, WindowCoherent, medium
<1>4. CASE SyncFails
  <2>1. UNCHANGED <<fat, dir, winsect, wflag>>
    BY <1>4 DEF SyncFails, window
  <2>2. (dfat' = fat /\ ddir' = dir) \/ UNCHANGED medium
    BY <1>0, <1>4, WriteBackCompletes DEF SyncFails
  <2>3. QED
    BY <1>0, <2>1, <2>2 DEF Keeps, StoreType, WindowCoherent, medium
<1>5. CASE SyncFsInfo
  <2>1. ~wflag
    BY <1>5 DEF SyncFsInfo, VolumeInv, Locals
  <2>2. UNCHANGED <<fat, dir, dfat, ddir, wflag>> /\ winsect' = NoSector
    BY <1>5 DEF SyncFsInfo, medium
  <2>3. QED
    BY <1>0, <2>1, <2>2 DEF Keeps, StoreType, WindowCoherent, medium
<1>6. QED
  BY <1>1, <1>2, <1>3, <1>4, <1>5 DEF SyncStep, SyncClean, Close

LEMMA NameStepKeeps == VolumeInv /\ NameStep => Keeps
<1> SUFFICES ASSUME VolumeInv, NameStep PROVE Keeps
  OBVIOUS
<1>0. StoreType /\ WindowCoherent
  BY DEF VolumeInv, TypeOK, StoreType
<1>1. Erased \in Entry
  BY VolumeAssumption DEF Erased, Entry, VolumeAssumption
<1>2. ASSUME NEW n \in Names, Unlink(n) PROVE Keeps
  <2>1. PICK i \in Found(n) : /\ Visit(Searched(n), DirSector(i), TRUE)
                              /\ dir' = [dir EXCEPT ![i] = Erased]
    BY <1>2 DEF Unlink
  <2>2. i \in Slots /\ fat' = fat
    BY <1>2 DEF Found, Unlink
  <2>3. QED
    BY <1>0, <1>1, <2>1, <2>2, SearchVisits, EntryEditKeeps
<1>3. ASSUME NEW n \in Names, LookUp(n) PROVE Keeps
  BY <1>0, <1>3, LookUpKeeps
<1>4. ASSUME NEW from \in Names, NEW to \in Names, Rename(from, to) PROVE Keeps
  <2>1. PICK i \in Found(from), j \in Slots :
          /\ Visit(Searched(from) \cup Searched(to) \cup SectorsOf(Before(j)),
                   DirSector(j), TRUE)
          /\ dir' = [dir EXCEPT ![j] = Renamed(dir[i], to)]
    BY <1>4 DEF Rename
  <2>2. i \in Slots /\ fat' = fat
    BY <1>4 DEF Found, Rename
  <2>3. dir[i] \in Entry
    BY <1>0, <2>2 DEF StoreType
  <2>4. Renamed(dir[i], to) \in Entry
    BY <2>3 DEF Renamed, Entry
  <2>5. DirSector(j) \in SectorsOf(Before(j))
    BY DEF SectorsOf, Before, Slots
  <2>6. DirSector(j) \in Searched(from) \cup Searched(to) \cup SectorsOf(Before(j))
    BY <2>5
  <2>7. QED
    BY <1>0, <2>1, <2>2, <2>4, <2>6, EntryEditKeeps
<1>5. CASE RenameRemove
  <2> DEFINE s == DirSector(op.slot)
  <2>1. op.slot \in Slots
    BY <1>5 DEF RenameRemove, VolumeInv, Locals
  <2>2. CASE VisitFails({s})
    BY <1>0, <2>2, VisitFailsKeeps
  <2>3. CASE Visit({s}, s, TRUE) /\ dir' = [dir EXCEPT ![op.slot] = Erased]
               /\ UNCHANGED fat
    BY <1>0, <1>1, <2>1, <2>3, EntryEditKeeps
  <2>4. QED
    BY <1>5, <2>2, <2>3 DEF RenameRemove
<1>6. CASE GetFree
  <2>1. FatSize - 1 \in 0 .. FatSize - 1
    BY FatSectors
  <2>2. QED
    BY <1>0, <1>6, <2>1, Geometry, LookKeeps DEF GetFree
<1>7. CASE GetFreeFails
  BY <1>0, <1>7, VisitFailsKeeps DEF GetFreeFails, VisitFails
<1>8. QED
  BY <1>2, <1>3, <1>4, <1>5, <1>6, <1>7 DEF NameStep, UnlinkRefused, RenameRefused

LEMMA DismountKeeps == VolumeInv /\ Dismount => Keeps
BY DEF VolumeInv, TypeOK, Dismount, Keeps, StoreType, WindowCoherent, medium

LEMMA StepKeeps == VolumeInv /\ [Next]_vars => Keeps
<1> SUFFICES ASSUME VolumeInv, [Next]_vars PROVE Keeps
  OBVIOUS
<1>0. StoreType /\ WindowCoherent
  BY DEF VolumeInv, TypeOK, StoreType
<1>1. CASE UNCHANGED store
  BY <1>0, <1>1, StoreUnchangedKeeps
<1>2. QED
  BY <1>1, ChainStepKeeps, OpenStepKeeps, WriteStepKeeps, SyncStepKeeps,
     NameStepKeeps, DismountKeeps
  DEF Next, Mount, Unmount, PowerLoss, vars, store

-----------------------------------------------------------------------------
(* Every step keeps the locals, the FIL objects and the counters.          *)

CountersType ==
    /\ free_clust \in Nat \cup {Unknown}
    /\ last_clust \in Int
    /\ fsi_flag \in BOOLEAN
VolumeType ==
    /\ dfsi \in [free : Nat \cup {Unknown}, next : Int]
    /\ mounted \in BOOLEAN
    /\ durable \in [Names -> {Unknown} \cup 0 .. MaxSize]
RunType == pc \in Steps \cup {"idle"} /\ op \in Op /\ Locals
FilType == fil \in [Handles -> Fil] /\ Objects

Rest == CountersType /\ VolumeType /\ RunType /\ FilType

LEMMA VolumeInvParts == VolumeInv <=> StoreType /\ WindowCoherent /\ Rest
BY DEF VolumeInv, TypeOK, StoreType, Rest, CountersType, VolumeType, RunType,
       FilType

LEMMA NoOpType == NoOp \in Op
BY VolumeAssumption DEF NoOp, Op, VolumeAssumption

LEMMA FinishRun ==
    ASSUME Finish
    PROVE  RunType'
<1>1. pc' = "idle" /\ op' = NoOp /\ NoOp.to = "-"
  BY DEF Finish, NoOp
<1>2. QED
  BY <1>1, NoOpType DEF RunType, Locals

(* create_chain returns to its caller.                                     *)
LEMMA ReturnRun ==
    ASSUME RunType, pc \in {"create", "link"}, UNCHANGED fil,
           NEW res \in {"ok", "full", "error"}, NEW ncl \in {0} \cup Clusters,
           res = "ok" => ncl \in Clusters, Return(res, ncl)
    PROVE  RunType'
<1>1. op \in Op /\ Pending(op.ret, op.h, op.ofs)
  BY DEF RunType, Locals
<1>2. /\ op' \in Op
      /\ op'.h = op.h /\ op'.ofs = op.ofs /\ op'.ret = op.ret
      /\ op'.from = op.from /\ op'.to = op.to
      /\ op'.res = res /\ op'.ncl = ncl
  BY <1>1 DEF Return, Op
<1>3. pc' = op.ret /\ pc' \in {"write_got", "seek_first", "seek_got"}
  BY <1>1 DEF Return, Pending
<1>4. Pending(pc, op.h, op.ofs)'
  BY <1>1, <1>2, <1>3 DEF Pending
<1>5. Locals'
  BY <1>2, <1>3, <1>4 DEF RunType, Locals
<1>6. QED
  BY <1>2, <1>3, <1>5 DEF RunType, Steps

LEMMA CountersChange ==
    ASSUME CountersType
    PROVE  /\ UNCHANGED counters => CountersType'
           /\ DecFree /\ last_clust' \in Int => CountersType'
           /\ IncFree /\ last_clust' \in Int => CountersType'
<1>1. UNCHANGED counters => CountersType'
  BY DEF CountersType, counters
<1>2. DecFree \/ IncFree => fsi_flag' \in BOOLEAN
  BY Zenon DEF CountersType, DecFree, IncFree
<1>3. free_clust \in Nat \cup {-1}
  BY DEF CountersType, Unknown
<1>4. DecFree => free_clust' \in Nat \cup {Unknown}
  <2>1. DecFree => free_clust' \in {free_clust - 1, free_clust}
                     /\ (free_clust = -1 => free_clust' = free_clust)
    BY DEF DecFree, Unknown
  <2>2. QED
    BY <1>3, <2>1 DEF Unknown
<1>5. IncFree => free_clust' \in Nat \cup {Unknown}
  <2>1. IncFree => free_clust' \in {free_clust + 1, free_clust}
                     /\ (free_clust = -1 => free_clust' = free_clust)
    BY DEF IncFree, Unknown
  <2>2. QED
    BY <1>3, <2>1 DEF Unknown
<1>6. QED
  BY <1>1, <1>2, <1>4, <1>5 DEF CountersType

LEMMA ChainStepRest == VolumeInv /\ ChainStep => Rest'
<1> SUFFICES ASSUME VolumeInv, ChainStep PROVE Rest'
  OBVIOUS
<1>0. Rest /\ StoreType /\ TypeOK
  BY VolumeInvParts DEF VolumeInv
<1>1. UNCHANGED <<dfsi, mounted, fil, durable>>
  BY DEF ChainStep
<1>2. VolumeType' /\ FilType'
  BY <1>0, <1>1 DEF Rest, VolumeType, FilType, Objects
<1>3. /\ CountersType /\ RunType /\ op \in Op
      /\ op.cl \in {0} \cup Clusters
      /\ op.from \in Names \cup {"-"} /\ op.to \in Names \cup {"-"}
  BY <1>0 DEF Rest, RunType, Op
<1>4. SUFFICES CountersType' /\ RunType'
  BY <1>2 DEF Rest
<1>5. CASE ChainFollowed \/ ChainBroken \/ ChainFull
  <2>1. CountersType'
    BY <1>3, <1>5, CountersChange DEF ChainFollowed, ChainBroken, ChainFull
  <2>2. pc = "create"
    BY <1>5 DEF ChainFollowed, ChainBroken, ChainFull
  <2>3. \/ Return("ok", fat[op.cl]) /\ fat[op.cl] \in Clusters
        \/ Return("error", 0) \/ Return("full", 0)
    BY <1>5 DEF ChainFollowed, ChainBroken, ChainFull
  <2>4. QED
    BY <1>1, <1>3, <2>1, <2>2, <2>3, ReturnRun
<1>6. CASE ChainMark
  <2>1. PICK k \in 1 .. ScanLength :
          LET ncl == Scanned(ScanStart(op.cl), k) IN
          IF op.cl = 0
          THEN Return("ok", ncl) /\ last_clust' = ncl /\ DecFree
          ELSE /\ pc' = "link" /\ op' = [op EXCEPT !.ncl = ncl]
               /\ UNCHANGED counters
    BY <1>6 DEF ChainMark
  <2> DEFINE ncl == Scanned(ScanStart(op.cl), k)
  <2>2. ncl \in Clusters /\ ncl \in Int
    BY <1>0, ScanInTable, VolumeAssumption DEF Clusters, VolumeAssumption
  <2>3. pc = "create"
    BY <1>6 DEF ChainMark
  <2> HIDE DEF ncl
  <2>4. CASE op.cl = 0
    <3>1. Return("ok", ncl) /\ last_clust' = ncl /\ DecFree
      BY <2>1, <2>4 DEF ncl
    <3>2. QED
      BY <1>1, <1>3, <2>2, <2>3, <3>1, ReturnRun, CountersChange
  <2>5. CASE op.cl # 0
    <3>1. pc' = "link" /\ op' = [op EXCEPT !.ncl = ncl] /\ UNCHANGED counters
      BY <2>1, <2>5 DEF ncl
    <3>2. /\ op' \in Op
          /\ op'.h = op.h /\ op'.ofs = op.ofs /\ op'.ret = op.ret
          /\ op'.from = op.from /\ op'.to = op.to
          /\ op'.cl = op.cl /\ op'.ncl = ncl
      BY <1>3, <2>2, <3>1 DEF Op
    <3>3. Pending(op.ret, op.h, op.ofs)
      BY <1>3, <2>3 DEF RunType, Locals
    <3>4. Pending(op.ret, op.h, op.ofs)'
      BY <1>1, <3>2, <3>3 DEF Pending
    <3>5. op.to # "-" => op.from \in Names
      BY <1>3 DEF RunType, Locals
    <3>6. Locals'
      BY <1>3, <2>2, <2>5, <3>1, <3>2, <3>4, <3>5 DEF Locals
    <3>7. QED
      BY <1>3, <3>1, <3>2, <3>6, CountersChange DEF RunType, Steps
  <2>6. QED
    BY <2>4, <2>5
<1>7. CASE ChainLink
  <2>1. pc = "link" /\ op.ncl \in Clusters /\ op.ncl \in Int
    BY <1>3, <1>7, VolumeAssumption
    DEF ChainLink, RunType, Locals, Clusters, VolumeAssumption
  <2>2. last_clust' = op.ncl /\ DecFree /\ Return("ok", op.ncl)
    BY <1>7 DEF ChainLink
  <2>3. QED
    BY <1>1, <1>3, <2>1, <2>2, ReturnRun, CountersChange
<1>8. CASE ChainFails
  <2>1. pc \in {"create", "link"} /\ Return("error", 0) /\ UNCHANGED counters
    BY <1>8 DEF ChainFails
  <2>2. QED
    BY <1>1, <1>3, <2>1, ReturnRun, CountersChange
<1>9. CASE RemoveLink \/ RemoveStops
  <2>1. /\ pc = "remove"
        /\ \/ pc' = op.ret /\ op' = op
           \/ /\ fat[op.cl] \in Clusters
              /\ pc' = "remove" /\ op' = [op EXCEPT !.cl = fat[op.cl]]
    BY <1>9 DEF RemoveLink, RemoveStops, Goto
  <2>2. /\ op.ret \in {"open_back", "sync"}
        /\ op.ret = "open_back" => Opening
        /\ op.to # "-" => op.from \in Names
    BY <1>3, <2>1 DEF RunType, Locals
  <2>3. CountersType'
    BY <1>3, <1>9, CountersChange DEF RemoveLink, RemoveStops, CountersType
  <2>4. CASE pc' = op.ret /\ op' = op
    <3>1. Locals'
      BY <1>3, <2>2, <2>4 DEF Locals, Opening
    <3>2. QED
      BY <1>3, <2>2, <2>3, <2>4, <3>1 DEF RunType, Steps
  <2>5. CASE /\ fat[op.cl] \in Clusters
             /\ pc' = "remove" /\ op' = [op EXCEPT !.cl = fat[op.cl]]
    <3>1. /\ op' \in Op /\ op'.cl \in Clusters
          /\ op'.h = op.h /\ op'.slot = op.slot /\ op'.first = op.first
          /\ op'.ret = op.ret /\ op'.from = op.from /\ op'.to = op.to
      BY <1>3, <2>5 DEF Op
    <3>2. Locals'
      BY <1>3, <2>2, <2>5, <3>1 DEF Locals, Opening
    <3>3. QED
      BY <2>3, <2>5, <3>1, <3>2 DEF RunType, Steps
  <2>6. QED
    BY <2>1, <2>4, <2>5
<1>10. CASE RemoveFails
  BY <1>3, <1>10, FinishRun, CountersChange DEF RemoveFails
<1>11. QED
  BY <1>5, <1>6, <1>7, <1>8, <1>9, <1>10 DEF ChainStep

(* A FIL object is replaced by another one that is in order.               *)
InOrder(g) == /\ g \in Fil
              /\ g.open => g.slot \in Slots
              /\ g.fptr > 0 => g.clust \in Clusters

LEMMA PutFil ==
    ASSUME FilType, NEW h \in Handles, NEW g, InOrder(g),
           fil' = [fil EXCEPT ![h] = g]
    PROVE  FilType' /\ fil'[h] = g
BY DEF FilType, Objects, InOrder

LEMMA ClosedFilType == ClosedFil \in Fil /\ ClosedFil.fptr = 0 /\ ~ClosedFil.open
BY VolumeAssumption DEF ClosedFil, Fil, VolumeAssumption

LEMMA NewFilInOrder ==
    ASSUME NEW i \in Slots, NEW write \in BOOLEAN, NEW created \in BOOLEAN,
           NEW c \in {0} \cup Clusters, NEW z \in 0 .. MaxSize
    PROVE  InOrder(NewFil(i, write, created, c, z))
<1>1. ClosedFil \in Fil /\ ClosedFil.fptr = 0
  BY ClosedFilType
<1>2. /\ NewFil(i, write, created, c, z) \in Fil
      /\ NewFil(i, write, created, c, z).slot = i
      /\ NewFil(i, write, created, c, z).fptr = 0
  BY <1>1 DEF NewFil, Fil
<1>3. QED
  BY <1>2 DEF InOrder

LEMMA CallRemoveRun ==
    ASSUME NEW slot \in Slots, NEW c \in Clusters, NEW write \in BOOLEAN,
           NEW h \in Handles \cup {"-"}, NEW ret \in {"open_back", "sync"},
           ret = "open_back" => h \in Handles,
           CallRemoveChain(slot, c, write, h, ret)
    PROVE  RunType'
<1>1. pc' = "remove"
  BY DEF CallRemoveChain
<1>2. /\ op' \in Op /\ op'.h = h /\ op'.slot = slot /\ op'.cl = c
      /\ op'.first = c /\ op'.ret = ret /\ op'.to = "-"
  BY NoOpType DEF CallRemoveChain, NoOp, Op
<1>3. QED
  BY <1>1, <1>2 DEF RunType, Locals, Steps, Opening

LEMMA OpenStepRest == VolumeInv /\ OpenStep => Rest'
<1> SUFFICES ASSUME VolumeInv, OpenStep PROVE Rest'
  OBVIOUS
<1>0. Rest /\ StoreType
  BY VolumeInvParts
<1>1. UNCHANGED <<dfsi, mounted>>
  BY DEF OpenStep
<1>2. /\ UNCHANGED counters => CountersType'
      /\ UNCHANGED durable => VolumeType'
      /\ UNCHANGED fil => FilType'
      /\ \A n \in Names : durable' = [durable EXCEPT ![n] = Unknown] => VolumeType'
  BY <1>0, <1>1, CountersChange DEF Rest, VolumeType, FilType, Objects
<1>3. \A i \in Slots : dir[i].sclust \in {0} \cup Clusters /\ dir[i].size \in 0 .. MaxSize
  BY <1>0 DEF StoreType, Entry
<1>4. ASSUME NEW n \in Names, LookUp(n) PROVE Rest'
  BY <1>2, <1>4, FinishRun DEF LookUp, Rest
<1>5. ASSUME NEW n \in Names, LookUpFails(n) PROVE Rest'
  BY <1>2, <1>5, FinishRun DEF LookUpFails, Rest
<1>6. ASSUME NEW h \in Handles, NEW n \in Names, NEW mode, NEW write \in BOOLEAN,
             OpenExisting(h, n, mode, write)
      PROVE  Rest'
  <2>1. PICK i \in Found(n) :
          fil' = [fil EXCEPT ![h] =
                    NewFil(i, write, FALSE, dir[i].sclust, dir[i].size)]
    BY <1>6 DEF OpenExisting
  <2>2. i \in Slots
    BY DEF Found
  <2>3. FilType'
    BY <1>0, <1>3, <2>1, <2>2, NewFilInOrder, PutFil DEF Rest
  <2>4. QED
    BY <1>2, <1>6, <2>3, FinishRun DEF OpenExisting, Rest
<1>7. 0 \in {0} \cup Clusters /\ 0 \in 0 .. MaxSize
  BY VolumeAssumption DEF VolumeAssumption
<1>8. ASSUME NEW h \in Handles, NEW n \in Names, NEW mode, OpenCreate(h, n, mode)
      PROVE  Rest'
  <2>1. PICK i \in Slots : fil' = [fil EXCEPT ![h] = NewFil(i, TRUE, TRUE, 0, 0)]
    BY <1>8 DEF OpenCreate
  <2>2. FilType'
    BY <1>0, <1>7, <2>1, NewFilInOrder, PutFil DEF Rest
  <2>3. QED
    BY <1>2, <1>8, <2>2, FinishRun DEF OpenCreate, Rest
<1>9. ASSUME NEW h \in Handles, NEW n \in Names, OpenTruncate(h, n)
      PROVE  Rest'
  <2>1. PICK i \in Found(n) :
          IF dir[i].sclust = 0
          THEN Finish /\ fil' = [fil EXCEPT ![h] = NewFil(i, TRUE, TRUE, 0, 0)]
          ELSE /\ CallRemoveChain(i, dir[i].sclust, TRUE, h, "open_back")
               /\ UNCHANGED fil
    BY <1>9 DEF OpenTruncate
  <2>2. i \in Slots
    BY DEF Found
  <2>3. VolumeType' /\ CountersType'
    BY <1>2, <1>9 DEF OpenTruncate
  <2>4. CASE dir[i].sclust = 0
    <3>1. FilType'
      BY <1>0, <1>7, <2>1, <2>2, <2>4, NewFilInOrder, PutFil DEF Rest
    <3>2. QED
      BY <2>1, <2>3, <2>4, <3>1, FinishRun DEF Rest
  <2>5. CASE dir[i].sclust # 0
    <3>1. dir[i].sclust \in Clusters
      BY <1>3, <2>2, <2>5
    <3>2. RunType' /\ FilType'
      BY <1>2, <2>1, <2>2, <2>5, <3>1, CallRemoveRun
    <3>3. QED
      BY <2>3, <3>2 DEF Rest
  <2>6. QED
    BY <2>4, <2>5
<1>10. CASE OpenBack
  <2>1. op.h \in Handles /\ op.slot \in Slots /\ op.first \in Int
    BY <1>0, <1>10, VolumeAssumption
    DEF OpenBack, Rest, RunType, Locals, Opening, Clusters, VolumeAssumption
  <2>2. CountersType'
    BY <1>0, <1>10, <2>1 DEF OpenBack, Rest, CountersType
  <2>3. FilType'
    <3>1. CASE fil' = [fil EXCEPT ![op.h] = NewFil(op.slot, TRUE, TRUE, 0, 0)]
      BY <1>0, <1>7, <2>1, <3>1, NewFilInOrder, PutFil DEF Rest
    <3>2. QED
      BY <1>2, <1>10, <3>1 DEF OpenBack
  <2>4. QED
    BY <1>2, <1>10, <2>2, <2>3, FinishRun DEF OpenBack, Rest
<1>11. QED
  BY <1>4, <1>5, <1>6, <1>8, <1>9, <1>10 DEF OpenStep, Stat, OpenRefused

(* create_chain is called.                                                 *)
LEMMA CallCreateRun ==
    ASSUME NEW h \in Handles, NEW c \in {0} \cup Clusters, NEW ofs \in 0 .. MaxSize,
           NEW ret, Pending(ret, h, ofs)',
           CallCreateChain(h, c, ofs, ret)
    PROVE  RunType'
<1>1. pc' = "create" /\ ret \in {"write_got", "seek_first", "seek_got"}
  BY DEF CallCreateChain, Pending
<1>2. /\ op' \in Op /\ op'.h = h /\ op'.ofs = ofs /\ op'.ret = ret
      /\ op'.to = "-"
  BY <1>1, NoOpType DEF CallCreateChain, NoOp, Op
<1>3. Pending(op.ret, op.h, op.ofs)'
  BY <1>2 DEF Pending
<1>4. QED
  BY <1>1, <1>2, <1>3 DEF RunType, Locals, Steps

(* f_lseek goes on.                                                        *)
LEMMA SeekRun ==
    ASSUME NEW h \in Handles, NEW ofs \in 0 .. MaxSize, ofs >= 1,
           fil'[h].clust \in Clusters, fil'[h].fptr + ofs <= MaxSize,
           pc' = "seek", op' = [NoOp EXCEPT !.h = h, !.ofs = ofs]
    PROVE  RunType'
<1>1. op' \in Op /\ op'.h = h /\ op'.ofs = ofs /\ op'.to = "-"
  BY NoOpType DEF NoOp, Op
<1>2. QED
  BY <1>1 DEF RunType, Locals, Steps

(* What the file functions make of a FIL object.                           *)
LEMMA AbortedInOrder == ASSUME NEW f, InOrder(f) PROVE InOrder(Aborted(f))
<1>1. /\ Aborted(f) \in Fil /\ Aborted(f).open = f.open /\ Aborted(f).slot = f.slot
      /\ Aborted(f).fptr = f.fptr /\ Aborted(f).clust = f.clust
  BY DEF InOrder, Aborted, Fil
<1>2. QED
  BY <1>1 DEF InOrder

LEMMA ArrivedInOrder ==
    ASSUME NEW f, InOrder(f), f.fptr < MaxSize, f.clust \in Clusters
    PROVE  InOrder(Arrived(f))
<1>1. f \in Fil /\ MaxSize \in Nat /\ f.fptr \in 0 .. MaxSize /\ f.fsize \in 0 .. MaxSize
  BY VolumeAssumption DEF InOrder, Fil, VolumeAssumption
<1>2. (IF f.fptr < f.fsize THEN f.fsize ELSE f.fptr + 1) \in 0 .. MaxSize
        /\ f.fptr + 1 \in 0 .. MaxSize
  BY <1>1
<1>3. (f.written \/ f.fptr >= f.fsize) \in BOOLEAN
  OBVIOUS
<1>4. /\ Arrived(f) \in Fil /\ Arrived(f).open = f.open /\ Arrived(f).slot = f.slot
      /\ Arrived(f).clust = f.clust
  BY <1>1, <1>2, <1>3 DEF Arrived, Fil
<1>5. QED
  BY <1>4 DEF InOrder

LEMMA OneFurtherInOrder ==
    ASSUME NEW f, InOrder(f), f.fptr < MaxSize, NEW c \in Clusters
    PROVE  /\ InOrder(OneFurther(f, c))
           /\ OneFurther(f, c).clust = c /\ OneFurther(f, c).fptr = f.fptr + 1
<1>1. f \in Fil /\ MaxSize \in Nat /\ f.fptr \in 0 .. MaxSize
  BY VolumeAssumption DEF InOrder, Fil, VolumeAssumption
<1>2. f.fptr + 1 \in 0 .. MaxSize
  BY <1>1
<1>3. /\ OneFurther(f, c) \in Fil /\ OneFurther(f, c).open = f.open
      /\ OneFurther(f, c).slot = f.slot
      /\ OneFurther(f, c).clust = c /\ OneFurther(f, c).fptr = f.fptr + 1
  BY <1>1, <1>2 DEF OneFurther, Fil
<1>4. QED
  BY <1>3 DEF InOrder

LEMMA WriteStepRest == VolumeInv /\ WriteStep => Rest'
<1> SUFFICES ASSUME VolumeInv, WriteStep PROVE Rest'
  OBVIOUS
<1>0. Rest /\ FilType /\ RunType /\ op \in Op
  BY VolumeInvParts DEF Rest, RunType
<1>1. UNCHANGED <<counters, dfsi, mounted, durable>>
  BY DEF WriteStep, WriteStart, WriteGot, SeekStart, SeekFirst, SeekOn, SeekGot
<1>2. CountersType' /\ VolumeType' /\ (UNCHANGED fil => FilType')
  BY <1>0, <1>1, CountersChange DEF Rest, VolumeType, FilType, Objects
<1>3. SUFFICES FilType' /\ RunType'
  BY <1>2 DEF Rest
<1>4. \A h \in Handles :
        /\ InOrder(fil[h])
        /\ fil[h].sclust \in {0} \cup Clusters /\ fil[h].clust \in {0} \cup Clusters
        /\ fil[h].fptr \in 0 .. MaxSize /\ fil[h].fsize \in 0 .. MaxSize
  BY <1>0 DEF FilType, Objects, InOrder, Fil
<1>5. MaxSize \in Nat \ {0} /\ 0 \in {0} \cup Clusters /\ 0 \in 0 .. MaxSize
  BY VolumeAssumption DEF VolumeAssumption
<1>6. ASSUME NEW h \in Handles, WriteStart(h) PROVE FilType' /\ RunType'
  <2>1. UNCHANGED fil /\ fil[h].fptr < MaxSize
    BY <1>6 DEF WriteStart
  <2>2. FilType'
    BY <1>2, <2>1
  <2>3. Pending("write_got", h, 0)'
    BY <2>1 DEF Pending
  <2>4. CASE fil[h].fptr = 0 /\ fil[h].sclust # 0
    <3>1. pc' = "write_got" /\ op' = [NoOp EXCEPT !.h = h, !.ncl = fil[h].sclust]
      BY <1>6, <2>4 DEF WriteStart
    <3>2. fil[h].sclust \in Clusters
      BY <1>4, <2>4
    <3>3. /\ op' \in Op /\ op'.h = h /\ op'.ncl = fil[h].sclust /\ op'.ofs = 0
          /\ op'.to = "-"
      BY <1>4, <3>1, NoOpType DEF NoOp, Op
    <3>4. Pending(pc, op.h, op.ofs)'
      BY <2>3, <3>1, <3>3 DEF Pending
    <3>5. QED
      BY <2>2, <3>1, <3>2, <3>3, <3>4 DEF RunType, Locals, Steps
  <2>5. CASE ~(fil[h].fptr = 0 /\ fil[h].sclust # 0)
    <3>1. PICK c \in {0} \cup Clusters : CallCreateChain(h, c, 0, "write_got")
      BY <1>4, <1>5, <1>6, <2>5 DEF WriteStart
    <3>2. QED
      BY <1>5, <2>2, <2>3, <3>1, CallCreateRun
  <2>6. QED
    BY <2>4, <2>5
<1>7. CASE WriteGot
  <2> DEFINE h == op.h
             f == fil[h]
             placed == [f EXCEPT !.clust = op.ncl,
                                 !.sclust = IF @ = 0 THEN op.ncl ELSE @]
             done == [placed EXCEPT !.fptr = @ + 1,
                                    !.fsize = IF f.fptr < @ THEN @ ELSE f.fptr + 1,
                                    !.written = TRUE]
  <2>1. /\ h \in Handles /\ f.fptr < MaxSize
        /\ op.res = "ok" => op.ncl \in Clusters
    BY <1>0, <1>7 DEF WriteGot, RunType, Locals, Pending
  <2>2. InOrder(f) /\ f \in Fil /\ f.fptr \in 0 .. MaxSize /\ f.fsize \in 0 .. MaxSize
          /\ f.sclust \in {0} \cup Clusters
    BY <1>4, <2>1 DEF InOrder
  <2>3. RunType'
    BY <1>7, FinishRun DEF WriteGot
  <2>4. ASSUME op.res = "ok" PROVE InOrder(placed) /\ InOrder(done)
    <3>1. (IF f.sclust = 0 THEN op.ncl ELSE f.sclust) \in {0} \cup Clusters
      BY <2>1, <2>2, <2>4
    <3>2. /\ placed \in Fil /\ placed.open = f.open /\ placed.slot = f.slot
          /\ placed.clust = op.ncl /\ placed.fptr = f.fptr /\ placed.fsize = f.fsize
      BY <2>1, <2>2, <2>4, <3>1 DEF Fil
    <3>3. (IF f.fptr < f.fsize THEN f.fsize ELSE f.fptr + 1) \in 0 .. MaxSize
            /\ f.fptr + 1 \in 0 .. MaxSize
      BY <1>5, <2>1, <2>2
    <3> HIDE DEF f, placed
    <3>4. /\ done \in Fil /\ done.open = placed.open /\ done.slot = placed.slot
          /\ done.clust = placed.clust
      BY <3>2, <3>3 DEF Fil
    <3> USE DEF f, placed
    <3>5. QED
      BY <2>1, <2>2, <2>4, <3>2, <3>4 DEF InOrder
  <2>5. InOrder([f EXCEPT !.written = TRUE])
    BY <2>2 DEF InOrder, Fil
  <2>6. \/ op.res = "ok" /\ fil' = [fil EXCEPT ![h] = done]
        \/ op.res = "ok" /\ fil' = [fil EXCEPT ![h] = Aborted(placed)]
        \/ fil' = [fil EXCEPT ![h] = [f EXCEPT !.written = TRUE]]
        \/ fil' = [fil EXCEPT ![h] = Aborted(f)]
    BY <1>7 DEF WriteGot
  <2> HIDE DEF h, f, placed, done
  <2>7. QED
    BY <1>0, <2>1, <2>2, <2>3, <2>4, <2>5, <2>6, AbortedInOrder, PutFil
<1>8. ASSUME NEW h \in Handles, NEW to \in 0 .. MaxSize, SeekStart(h, to)
      PROVE  FilType' /\ RunType'
  <2> DEFINE f == fil[h]
  <2>0. PICK ofs \in 0 .. MaxSize :
          ofs = IF to > f.fsize /\ ~f.write THEN f.fsize ELSE to
    BY <1>4
  <2>1. /\ InOrder(f) /\ f \in Fil /\ f.fptr \in 0 .. MaxSize
        /\ f.sclust \in {0} \cup Clusters
    BY <1>4 DEF InOrder
  <2>2. CASE fil' = [fil EXCEPT ![h].fptr = 0] /\ Finish
    <3>1. [f EXCEPT !.fptr = 0] \in Fil /\ InOrder([f EXCEPT !.fptr = 0])
      BY <1>5, <2>1 DEF InOrder, Fil
    <3>2. fil' = [fil EXCEPT ![h] = [f EXCEPT !.fptr = 0]]
      BY <2>2
    <3>3. QED
      BY <1>0, <2>2, <3>1, <3>2, PutFil, FinishRun
  <2>3. CASE /\ ofs > 0 /\ f.fptr > 0 /\ ofs >= f.fptr
             /\ fil' = [fil EXCEPT ![h].fptr = f.fptr - 1]
             /\ pc' = "seek"
             /\ op' = [NoOp EXCEPT !.h = h, !.ofs = ofs - (f.fptr - 1)]
    <3>1. f.fptr - 1 \in 0 .. MaxSize /\ ofs - (f.fptr - 1) \in 1 .. MaxSize
            /\ (f.fptr - 1) + (ofs - (f.fptr - 1)) <= MaxSize
      BY <1>5, <2>1, <2>3
    <3>2. f.clust \in Clusters
      BY <2>1, <2>3 DEF InOrder
    <3> DEFINE g == [f EXCEPT !.fptr = f.fptr - 1]
    <3>3. g \in Fil /\ InOrder(g) /\ g.fptr = f.fptr - 1 /\ g.clust = f.clust
      BY <2>1, <3>1, <3>2 DEF InOrder, Fil
    <3>4. fil' = [fil EXCEPT ![h] = g]
      BY <2>3
    <3> HIDE DEF g
    <3>5. FilType' /\ fil'[h] = g
      BY <1>0, <3>3, <3>4, PutFil
    <3>6. fil'[h].clust \in Clusters /\ fil'[h].fptr + (ofs - (f.fptr - 1)) <= MaxSize
      BY <3>1, <3>2, <3>3, <3>5
    <3>7. PICK k \in 1 .. MaxSize : k = ofs - (f.fptr - 1)
      BY <3>1
    <3>8. pc' = "seek" /\ op' = [NoOp EXCEPT !.h = h, !.ofs = k]
      BY <2>3, <3>7
    <3>9. k \in 0 .. MaxSize /\ k >= 1 /\ fil'[h].fptr + k <= MaxSize
      BY <1>5, <3>6, <3>7
    <3>10. RunType'
      BY <3>6, <3>8, <3>9, SeekRun
    <3>11. QED
      BY <3>5, <3>10
  <2>4. CASE /\ ofs > 0 /\ f.sclust # 0
             /\ fil' = [fil EXCEPT ![h] = [f EXCEPT !.fptr = 0, !.clust = f.sclust]]
             /\ pc' = "seek"
             /\ op' = [NoOp EXCEPT !.h = h, !.ofs = ofs]
    <3> DEFINE g == [f EXCEPT !.fptr = 0, !.clust = f.sclust]
    <3>1. g \in Fil /\ InOrder(g) /\ g.fptr = 0 /\ g.clust \in Clusters
      BY <1>5, <2>1, <2>4 DEF InOrder, Fil
    <3>2. fil' = [fil EXCEPT ![h] = g]
      BY <2>4
    <3> HIDE DEF g
    <3>3. FilType' /\ fil'[h] = g
      BY <1>0, <3>1, <3>2, PutFil
    <3>4. fil'[h].clust \in Clusters /\ fil'[h].fptr + ofs <= MaxSize
      BY <1>5, <3>1, <3>3
    <3>5. ofs >= 1 /\ pc' = "seek" /\ op' = [NoOp EXCEPT !.h = h, !.ofs = ofs]
      BY <2>4
    <3>6. RunType'
      BY <1>5, <3>4, <3>5, SeekRun
    <3>7. QED
      BY <3>3, <3>6
  <2>5. CASE /\ ofs > 0
             /\ fil' = [fil EXCEPT ![h].fptr = 0]
             /\ CallCreateChain(h, 0, ofs, "seek_first")
    <3> DEFINE g == [f EXCEPT !.fptr = 0]
    <3>1. g \in Fil /\ InOrder(g) /\ g.fptr = 0
      BY <1>5, <2>1 DEF InOrder, Fil
    <3>2. fil' = [fil EXCEPT ![h] = g]
      BY <2>5
    <3> HIDE DEF g
    <3>3. FilType' /\ fil'[h] = g
      BY <1>0, <3>1, <3>2, PutFil
    <3>4. Pending("seek_first", h, ofs)'
      BY <2>1, <2>5, <3>1, <3>3 DEF Pending
    <3>5. QED
      BY <1>5, <2>1, <2>5, <3>3, <3>4, CallCreateRun
  <2>6. QED
    BY <1>8, <2>0, <2>2, <2>3, <2>4, <2>5 DEF SeekStart
<1>9. CASE SeekFirst
  <2> DEFINE h == op.h
             f == fil[h]
             g == [f EXCEPT !.sclust = op.ncl, !.clust = op.ncl]
  <2>1. /\ h \in Handles /\ f.fptr = 0 /\ op.ofs >= 1 /\ op.ofs \in 0 .. MaxSize
        /\ op.ncl \in {0} \cup Clusters
        /\ op.res = "ok" => op.ncl \in Clusters
    BY <1>0, <1>9 DEF SeekFirst, RunType, Locals, Pending, Op
  <2>2. InOrder(f) /\ f \in Fil
    BY <1>4, <2>1 DEF InOrder
  <2> HIDE DEF h, f
  <2>3. g \in Fil /\ InOrder(g) /\ g.fptr = 0 /\ g.clust = op.ncl
    <3>1. /\ g \in Fil /\ g.fptr = f.fptr /\ g.clust = op.ncl
          /\ g.open = f.open /\ g.slot = f.slot
      BY <2>1, <2>2 DEF Fil
    <3> HIDE DEF g
    <3>2. QED
      BY <2>1, <2>2, <3>1 DEF InOrder
  <2>4. /\ IF op.res = "error" THEN fil' = [fil EXCEPT ![h] = Aborted(f)]
                                ELSE fil' = [fil EXCEPT ![h] = g]
        /\ IF op.res = "ok"
           THEN pc' = "seek" /\ op' = [NoOp EXCEPT !.h = h, !.ofs = op.ofs]
           ELSE Finish
    BY <1>9 DEF SeekFirst, h, f
  <2> HIDE DEF g
  <2>5. FilType' /\ (op.res # "error" => fil'[h] = g)
    BY <1>0, <2>1, <2>2, <2>3, <2>4, AbortedInOrder, PutFil
  <2>6. RunType'
    <3>1. CASE op.res = "ok"
      <4>1. fil'[h].clust \in Clusters /\ fil'[h].fptr + op.ofs <= MaxSize
        BY <1>5, <2>1, <2>3, <2>5, <3>1
      <4>2. QED
        BY <2>1, <2>4, <3>1, <4>1, SeekRun
    <3>2. QED
      BY <2>4, <3>1, FinishRun
  <2>7. QED
    BY <2>5, <2>6
<1>10. CASE SeekOn
  <2> DEFINE h == op.h
             f == fil[h]
             next == fat[f.clust]
  <2>1. /\ h \in Handles /\ f.clust \in Clusters /\ op.ofs >= 1
        /\ f.fptr + op.ofs <= MaxSize /\ op.ofs \in 0 .. MaxSize
    BY <1>0, <1>10 DEF SeekOn, RunType, Locals, Op
  <2>2. InOrder(f) /\ f \in Fil /\ f.fptr \in 0 .. MaxSize /\ f.fptr < MaxSize
    BY <1>4, <1>5, <2>1 DEF InOrder
  <2>3. \/ fil' = [fil EXCEPT ![h] = Arrived(f)] /\ Finish
        \/ fil' = [fil EXCEPT ![h] = Aborted(f)] /\ Finish
        \/ /\ op.ofs > 1 /\ UNCHANGED fil
           /\ CallCreateChain(h, f.clust, op.ofs, "seek_got")
        \/ /\ op.ofs > 1 /\ next \in Clusters
           /\ fil' = [fil EXCEPT ![h] = OneFurther(f, next)]
           /\ pc' = "seek" /\ op' = [op EXCEPT !.ofs = @ - 1]
    BY <1>10 DEF SeekOn
  <2> HIDE DEF h, f, next
  <2>4. CASE fil' = [fil EXCEPT ![h] = Arrived(f)] /\ Finish
    BY <1>0, <2>1, <2>2, <2>4, ArrivedInOrder, PutFil, FinishRun
  <2>5. CASE fil' = [fil EXCEPT ![h] = Aborted(f)] /\ Finish
    BY <1>0, <2>1, <2>2, <2>5, AbortedInOrder, PutFil, FinishRun
  <2>6. CASE /\ op.ofs > 1 /\ UNCHANGED fil
             /\ CallCreateChain(h, f.clust, op.ofs, "seek_got")
    <3>1. PICK g \in Handles, k \in 0 .. MaxSize : g = h /\ k = op.ofs
      BY <2>1
    <3>2. Pending("seek_got", g, k)'
      BY <2>1, <2>6, <3>1 DEF Pending, f
    <3>3. CallCreateChain(g, f.clust, k, "seek_got")
      BY <2>6, <3>1
    <3>4. QED
      BY <1>2, <2>1, <2>6, <3>2, <3>3, CallCreateRun
  <2>7. CASE /\ op.ofs > 1 /\ next \in Clusters
             /\ fil' = [fil EXCEPT ![h] = OneFurther(f, next)]
             /\ pc' = "seek" /\ op' = [op EXCEPT !.ofs = @ - 1]
    <3>1. InOrder(OneFurther(f, next)) /\ OneFurther(f, next).clust = next
            /\ OneFurther(f, next).fptr = f.fptr + 1
      BY <2>2, <2>7, OneFurtherInOrder
    <3>2. FilType' /\ fil'[h] = OneFurther(f, next)
      BY <1>0, <2>1, <2>7, <3>1, PutFil
    <3>3. op.ofs - 1 \in 0 .. MaxSize /\ op.ofs - 1 >= 1
      BY <1>5, <2>1, <2>7
    <3>4. /\ op' \in Op /\ op'.h = h /\ op'.ofs = op.ofs - 1
          /\ op'.to = op.to /\ op'.from = op.from
      BY <1>0, <2>7, <3>3 DEF Op, h
    <3>5. op.to # "-" => op.from \in Names /\ op.to \in Names
      BY <1>0 DEF RunType, Locals
    <3>6. fil'[h].clust \in Clusters /\ fil'[h].fptr + op'.ofs <= MaxSize
      BY <2>1, <2>2, <2>7, <3>1, <3>2, <3>3, <3>4
    <3>7. Locals'
      BY <2>1, <2>7, <3>3, <3>4, <3>5, <3>6 DEF Locals
    <3>8. QED
      BY <2>7, <3>2, <3>4, <3>7 DEF RunType, Steps
  <2>8. QED
    BY <2>3, <2>4, <2>5, <2>6, <2>7
<1>11. CASE SeekGot
  <2> DEFINE h == op.h
             f == fil[h]
  <2>1. /\ h \in Handles /\ f.clust \in Clusters /\ op.ofs > 1
        /\ f.fptr + op.ofs <= MaxSize /\ op.ofs \in 0 .. MaxSize
        /\ op.res = "ok" => op.ncl \in Clusters
    BY <1>0, <1>11 DEF SeekGot, RunType, Locals, Pending, Op
  <2>2. InOrder(f) /\ f \in Fil /\ f.fptr \in 0 .. MaxSize /\ f.fptr < MaxSize
    BY <1>4, <1>5, <2>1 DEF InOrder
  <2>3. \/ fil' = [fil EXCEPT ![h] = Arrived(f)] /\ Finish
        \/ fil' = [fil EXCEPT ![h] = Aborted(f)] /\ Finish
        \/ /\ op.ncl \in Clusters
           /\ fil' = [fil EXCEPT ![h] = OneFurther(f, op.ncl)]
           /\ pc' = "seek" /\ op' = [NoOp EXCEPT !.h = h, !.ofs = op.ofs - 1]
    BY <1>11, <2>1 DEF SeekGot
  <2> HIDE DEF h, f
  <2>4. CASE fil' = [fil EXCEPT ![h] = Arrived(f)] /\ Finish
    BY <1>0, <2>1, <2>2, <2>4, ArrivedInOrder, PutFil, FinishRun
  <2>5. CASE fil' = [fil EXCEPT ![h] = Aborted(f)] /\ Finish
    BY <1>0, <2>1, <2>2, <2>5, AbortedInOrder, PutFil, FinishRun
  <2>6. CASE /\ op.ncl \in Clusters
             /\ fil' = [fil EXCEPT ![h] = OneFurther(f, op.ncl)]
             /\ pc' = "seek" /\ op' = [NoOp EXCEPT !.h = h, !.ofs = op.ofs - 1]
    <3>1. InOrder(OneFurther(f, op.ncl)) /\ OneFurther(f, op.ncl).clust = op.ncl
            /\ OneFurther(f, op.ncl).fptr = f.fptr + 1
      BY <2>2, <2>6, OneFurtherInOrder
    <3>2. FilType' /\ fil'[h] = OneFurther(f, op.ncl)
      BY <1>0, <2>1, <2>6, <3>1, PutFil
    <3>3. op.ofs - 1 \in 0 .. MaxSize /\ op.ofs - 1 >= 1
      BY <1>5, <2>1, <2>6
    <3>4. fil'[h].clust \in Clusters /\ fil'[h].fptr + (op.ofs - 1) <= MaxSize
      BY <2>1, <2>2, <2>6, <3>1, <3>2
    <3>5. QED
      BY <2>1, <2>6, <3>2, <3>3, <3>4, SeekRun
  <2>7. QED
    BY <2>3, <2>4, <2>5, <2>6
<1>12. QED
  BY <1>6, <1>7, <1>8, <1>9, <1>10, <1>11 DEF WriteStep

(* sync_fs is called, or has been, by f_sync or f_close or for a name.     *)
LEMMA SyncReturnsRest ==
    ASSUME Rest, pc \in {"sync", "fsinfo"}, SyncReturns,
           \/ UNCHANGED dfsi
           \/ dfsi' = [free |-> free_clust, next |-> last_clust],
           UNCHANGED mounted
    PROVE  VolumeType' /\ RunType' /\ FilType'
<1>1. /\ op.ret \in {"synced", "closed"} => op.h \in Handles
      /\ op.to # "-" => op.from \in Names
  BY DEF Rest, RunType, Locals
<1>2. \A h \in Handles : fil[h] \in Fil /\ InOrder(fil[h]) /\ fil[h].fsize \in 0 .. MaxSize
  BY DEF Rest, FilType, Objects, InOrder, Fil
<1>3. durable' \in [Names -> {Unknown} \cup 0 .. MaxSize]
  <2>1. durable \in [Names -> {Unknown} \cup 0 .. MaxSize]
    BY DEF Rest, VolumeType
  <2>2. CASE op.to # "-"
    <3>1. durable' = [durable EXCEPT ![op.to] = durable[op.from],
                                     ![op.from] = Unknown]
      BY <2>2 DEF SyncReturns
    <3>2. durable[op.from] \in {Unknown} \cup 0 .. MaxSize
      BY <1>1, <2>1, <2>2
    <3>3. QED
      BY <2>1, <3>1, <3>2
  <2>3. CASE op.to = "-" /\ op.ret \in {"synced", "closed"}
    <3>1. durable' = [durable EXCEPT ![dir[op.slot].name] = fil[op.h].fsize]
      BY <2>3 DEF SyncReturns
    <3>2. fil[op.h].fsize \in 0 .. MaxSize
      BY <1>1, <1>2, <2>3
    <3>3. QED
      BY <2>1, <3>1, <3>2
  <2>4. CASE op.to = "-" /\ op.ret \notin {"synced", "closed"}
    BY <2>1, <2>4 DEF SyncReturns
  <2>5. QED
    BY <2>2, <2>3, <2>4
<1>4. dfsi' \in [free : Nat \cup {Unknown}, next : Int] /\ mounted' \in BOOLEAN
  BY DEF Rest, VolumeType, CountersType
<1>5. FilType'
  <2>1. CASE op.ret = "closed"
    <3> DEFINE f == fil[op.h]
               g == [f EXCEPT !.closing = TRUE]
    <3>1. fil' = [fil EXCEPT ![op.h] = g]
      BY <2>1 DEF SyncReturns
    <3>2. f \in Fil /\ InOrder(f) /\ op.h \in Handles
      BY <1>1, <1>2, <2>1
    <3> HIDE DEF f
    <3>3. /\ g \in Fil /\ g.open = f.open /\ g.slot = f.slot
          /\ g.fptr = f.fptr /\ g.clust = f.clust
      BY <3>2 DEF Fil
    <3> HIDE DEF g
    <3>4. InOrder(g)
      BY <3>2, <3>3 DEF InOrder
    <3>5. QED
      BY <3>1, <3>2, <3>4, PutFil DEF Rest
  <2>2. CASE op.ret # "closed"
    <3>1. fil' = fil
      BY <2>2 DEF SyncReturns
    <3>2. QED
      BY <3>1 DEF Rest, FilType, Objects
  <2>3. QED
    BY <2>1, <2>2
<1>6. RunType'
  BY FinishRun DEF SyncReturns
<1>7. QED
  BY <1>3, <1>4, <1>5, <1>6 DEF VolumeType

LEMMA WithdrawType ==
    ASSUME VolumeType, Withdraw, UNCHANGED <<dfsi, mounted>>
    PROVE  VolumeType'
BY DEF VolumeType, Withdraw

(* Between two file functions the locals say nothing of the FIL objects.   *)
LEMMA IdleRun ==
    ASSUME RunType, pc = "idle", UNCHANGED <<pc, op>>
    PROVE  RunType'
<1>1. pc' = "idle" /\ op' = op
  OBVIOUS
<1>2. op.to # "-" => op.from \in Names /\ op.to \in Names
  BY DEF RunType, Locals
<1>3. Locals'
  BY <1>1, <1>2 DEF Locals
<1>4. QED
  BY <1>1, <1>3 DEF RunType

LEMMA SyncStepRest == VolumeInv /\ SyncStep => Rest'
<1> SUFFICES ASSUME VolumeInv, SyncStep PROVE Rest'
  OBVIOUS
<1>0. Rest /\ FilType /\ RunType /\ VolumeType /\ CountersType /\ op \in Op
  BY VolumeInvParts DEF Rest, RunType
<1>1. UNCHANGED mounted
  BY DEF SyncStep
<1>2. /\ UNCHANGED counters => CountersType'
      /\ UNCHANGED <<dfsi, durable>> => VolumeType'
      /\ UNCHANGED fil => FilType'
  BY <1>0, <1>1, CountersChange DEF VolumeType, FilType, Objects
<1>3. \A h \in Handles : fil[h] \in Fil /\ InOrder(fil[h]) /\ fil[h].fsize \in 0 .. MaxSize
  BY <1>0 DEF FilType, Objects, InOrder, Fil
<1>4. ASSUME NEW h \in Handles, NEW closing \in BOOLEAN, SyncClean(h, closing)
      PROVE  Rest'
  <2> DEFINE f == fil[h]
             g == [f EXCEPT !.closing = @ \/ closing]
  <2>1. f \in Fil /\ InOrder(f) /\ f.fsize \in 0 .. MaxSize
    BY <1>3
  <2>2. /\ fil' = [fil EXCEPT ![h] = g]
        /\ durable' = [durable EXCEPT ![dir[f.slot].name] = f.fsize]
        /\ UNCHANGED <<counters, dfsi, pc, op>> /\ pc = "idle"
    BY <1>4 DEF SyncClean, Ready
  <2> HIDE DEF f
  <2>3. (f.closing \/ closing) \in BOOLEAN
    OBVIOUS
  <2>4. /\ g \in Fil /\ g.open = f.open /\ g.slot = f.slot
        /\ g.fptr = f.fptr /\ g.clust = f.clust
    BY <2>1, <2>3 DEF Fil
  <2> HIDE DEF g
  <2>5. InOrder(g)
    BY <2>1, <2>4 DEF InOrder
  <2>6. FilType'
    BY <1>0, <2>2, <2>5, PutFil
  <2>7. VolumeType'
    BY <1>0, <1>1, <2>1, <2>2 DEF VolumeType
  <2>8. RunType'
    BY <1>0, <2>2, IdleRun
  <2>9. QED
    BY <1>2, <2>2, <2>6, <2>7, <2>8 DEF Rest
<1>5. ASSUME NEW h \in Handles, NEW closing \in BOOLEAN, SyncStart(h, closing)
      PROVE  Rest'
  <2> DEFINE f == fil[h]
             g == [f EXCEPT !.written = FALSE]
  <2>1. f \in Fil /\ InOrder(f) /\ f.slot \in Slots
    BY <1>3, <1>5 DEF SyncStart, Usable, InOrder
  <2>2. CountersType' /\ VolumeType'
    BY <1>2, <1>5 DEF SyncStart
  <2>3. CASE /\ fil' = [fil EXCEPT ![h] = g]
             /\ pc' = "sync"
             /\ op' = [NoOp EXCEPT !.h = h, !.slot = f.slot,
                                   !.ret = IF closing THEN "closed" ELSE "synced"]
    <3> HIDE DEF f
    <3>1. /\ g \in Fil /\ g.open = f.open /\ g.slot = f.slot
          /\ g.fptr = f.fptr /\ g.clust = f.clust
      BY <2>1 DEF Fil
    <3> HIDE DEF g
    <3>2. InOrder(g)
      BY <2>1, <3>1 DEF InOrder
    <3>3. FilType'
      BY <1>0, <2>3, <3>2, PutFil
    <3>4. PICK ret \in {"closed", "synced"} :
            op' = [NoOp EXCEPT !.h = h, !.slot = f.slot, !.ret = ret]
      BY <2>3
    <3>5. op' \in Op /\ op'.h = h /\ op'.to = "-"
      BY <2>1, <3>4, NoOpType DEF NoOp, Op
    <3>6. Locals'
      BY <2>3, <3>5 DEF Locals
    <3>7. RunType'
      BY <2>3, <3>5, <3>6 DEF RunType, Steps
    <3>8. QED
      BY <2>2, <3>3, <3>7 DEF Rest
  <2>4. CASE Finish /\ UNCHANGED fil
    BY <1>2, <2>2, <2>4, FinishRun DEF Rest
  <2>5. QED
    BY <1>5, <2>3, <2>4 DEF SyncStart
<1>6. ASSUME NEW h \in Handles, Close(h) PROVE Rest'
  <2>1. /\ fil' = [fil EXCEPT ![h] = ClosedFil]
        /\ UNCHANGED <<counters, dfsi, pc, op, durable>> /\ pc = "idle"
    BY <1>6 DEF Close, Ready
  <2>2. InOrder(ClosedFil)
    BY ClosedFilType DEF InOrder
  <2>3. QED
    BY <1>0, <1>2, <2>1, <2>2, PutFil, IdleRun DEF Rest
<1>7. CASE SyncWindow
  <2>1. /\ pc = "sync" /\ wflag' = FALSE /\ UNCHANGED <<counters, dfsi>>
        /\ \/ Goto("fsinfo") /\ UNCHANGED <<fil, durable>>
           \/ SyncReturns
    BY <1>7 DEF SyncWindow
  <2>2. CASE Goto("fsinfo") /\ UNCHANGED <<fil, durable>>
    <3>1. pc' = "fsinfo" /\ op' = op
      BY <2>2 DEF Goto
    <3>2. /\ op.ret \in {"synced", "closed"} => op.h \in Handles
          /\ op.to # "-" => op.from \in Names /\ op.to \in Names
      BY <1>0, <2>1 DEF RunType, Locals
    <3>3. Locals'
      BY <2>1, <3>1, <3>2 DEF Locals
    <3>4. RunType'
      BY <1>0, <3>1, <3>3 DEF RunType, Steps
    <3>5. QED
      BY <1>2, <2>1, <2>2, <3>4 DEF Rest
  <2>3. CASE SyncReturns
    BY <1>0, <1>1, <1>2, <2>1, <2>3, SyncReturnsRest DEF Rest
  <2>4. QED
    BY <2>1, <2>2, <2>3
<1>8. CASE SyncFails
  <2>1. UNCHANGED <<counters, dfsi, fil>> /\ Finish /\ Withdraw
    BY <1>8 DEF SyncFails
  <2>2. VolumeType'
    BY <1>0, <1>1, <2>1, WithdrawType
  <2>3. QED
    BY <1>2, <2>1, <2>2, FinishRun DEF Rest
<1>9. CASE SyncFsInfo
  <2>1. /\ pc = "fsinfo" /\ SyncReturns
        /\ \/ dfsi' = [free |-> free_clust, next |-> last_clust]
           \/ UNCHANGED dfsi
    BY <1>9 DEF SyncFsInfo
  <2>2. CountersType'
    BY <1>0, <1>9 DEF SyncFsInfo, CountersType
  <2>3. VolumeType' /\ RunType' /\ FilType'
    BY <1>0, <1>1, <2>1, SyncReturnsRest
  <2>4. QED
    BY <2>2, <2>3 DEF Rest
<1>10. QED
  BY <1>4, <1>5, <1>6, <1>7, <1>8, <1>9 DEF SyncStep

(* A count of free clusters is a number.                                   *)
LEMMA FreeBelowType == ASSUME NEW s PROVE FreeBelow(s) \in Nat
<1>1. IsFiniteSet(Clusters)
  BY FS_Interval, VolumeAssumption DEF Clusters, VolumeAssumption
<1>2. IsFiniteSet({c \in Clusters : FatSector(c) < s /\ fat[c] = 0})
  BY <1>1, FS_Subset
<1>3. QED
  BY <1>2, FS_CardinalityType DEF FreeBelow

LEMMA NameStepRest == VolumeInv /\ NameStep => Rest'
<1> SUFFICES ASSUME VolumeInv, NameStep PROVE Rest'
  OBVIOUS
<1>0. Rest /\ FilType /\ RunType /\ VolumeType /\ CountersType /\ StoreType /\ op \in Op
  BY VolumeInvParts DEF Rest, RunType
<1>1. UNCHANGED <<dfsi, mounted>>
  BY DEF NameStep
<1>2. /\ UNCHANGED counters => CountersType'
      /\ UNCHANGED durable => VolumeType'
      /\ UNCHANGED fil => FilType'
      /\ \A n \in Names : durable' = [durable EXCEPT ![n] = Unknown] => VolumeType'
  BY <1>0, <1>1, CountersChange DEF VolumeType, FilType, Objects
<1>3. \A i \in Slots : dir[i].sclust \in {0} \cup Clusters
  BY <1>0 DEF StoreType, Entry
<1>4. ASSUME NEW n \in Names, Unlink(n) PROVE Rest'
  <2>1. PICK i \in Found(n) :
          IF dir[i].sclust = 0
          THEN pc' = "sync" /\ op' = NoOp
          ELSE CallRemoveChain(i, dir[i].sclust, FALSE, "-", "sync")
    BY <1>4 DEF Unlink
  <2>2. i \in Slots
    BY DEF Found
  <2>3. CASE dir[i].sclust = 0
    <3>1. pc' = "sync" /\ op' = NoOp /\ NoOp.ret = "idle" /\ NoOp.to = "-"
      BY <2>1, <2>3 DEF NoOp
    <3>2. QED
      BY <3>1, <1>2, <1>4, NoOpType DEF Unlink, Rest, RunType, Locals, Steps
  <2>4. CASE dir[i].sclust # 0
    <3>1. dir[i].sclust \in Clusters
      BY <1>3, <2>2, <2>4
    <3>2. RunType'
      BY <2>1, <2>2, <2>4, <3>1, CallRemoveRun
    <3>3. QED
      BY <3>2, <1>2, <1>4 DEF Unlink, Rest
  <2>5. QED
    BY <2>3, <2>4
<1>5. ASSUME NEW n \in Names, LookUp(n) PROVE Rest'
  BY <1>2, <1>5, FinishRun DEF LookUp, Rest
<1>6. ASSUME NEW from \in Names, NEW to \in Names, Rename(from, to) PROVE Rest'
  <2>1. PICK i \in Found(from) :
          pc' = "rename_remove"
            /\ op' = [NoOp EXCEPT !.slot = i, !.from = from, !.to = to]
    BY <1>6 DEF Rename
  <2>2. i \in Slots
    BY DEF Found
  <2>3. /\ op' \in Op /\ op'.slot = i /\ op'.from = from /\ op'.to = to
        /\ op'.ret = "idle"
    BY <2>1, <2>2, NoOpType DEF NoOp, Op
  <2>4. Locals'
    BY <2>1, <2>2, <2>3 DEF Locals
  <2>5. RunType'
    BY <2>1, <2>3, <2>4 DEF RunType, Steps
  <2>6. QED
    BY <1>2, <1>6, <2>5 DEF Rename, Rest
<1>7. CASE RenameRemove
  <2>1. /\ UNCHANGED <<counters, fil>> /\ pc = "rename_remove"
        /\ \/ pc' = "sync" /\ op' = [op EXCEPT !.slot = 0] /\ UNCHANGED durable
           \/ Finish /\ Withdraw
    BY <1>7 DEF RenameRemove
  <2>2. CASE pc' = "sync" /\ op' = [op EXCEPT !.slot = 0] /\ UNCHANGED durable
    <3>1. /\ op' \in Op /\ op'.h = op.h /\ op'.ret = op.ret
          /\ op'.from = op.from /\ op'.to = op.to
      BY <1>0, <2>2 DEF Op
    <3>2. /\ op.to # "-" => op.from \in Names /\ op.to \in Names
          /\ op.ret = "idle"
      BY <1>0, <2>1 DEF RunType, Locals
    <3>3. Locals'
      BY <2>2, <3>1, <3>2 DEF Locals
    <3>4. RunType'
      BY <2>2, <3>1, <3>3 DEF RunType, Steps
    <3>5. QED
      BY <1>2, <2>1, <2>2, <3>4 DEF Rest
  <2>3. CASE Finish /\ Withdraw
    BY <1>0, <1>1, <1>2, <2>1, <2>3, FinishRun, WithdrawType DEF Rest
  <2>4. QED
    BY <2>1, <2>2, <2>3
<1>8. CASE GetFree \/ GetFreeFails
  <2>1. PICK s : free_clust' = FreeBelow(s)
    BY <1>8 DEF GetFree, GetFreeFails
  <2>2. fsi_flag' = TRUE /\ UNCHANGED <<last_clust, fil, durable>> /\ Finish
    BY <1>8 DEF GetFree, GetFreeFails
  <2>3. CountersType'
    BY <1>0, <2>1, <2>2, FreeBelowType DEF CountersType
  <2>4. QED
    BY <1>2, <2>2, <2>3, FinishRun DEF Rest
<1>9. QED
  BY <1>4, <1>5, <1>6, <1>7, <1>8 DEF NameStep, UnlinkRefused, RenameRefused

(* Mounting reads FSINFO, whatever the medium's says; an unmount or a      *)
(* power loss leaves no open FIL and no running function.                  *)
LEMMA MountRest == VolumeInv /\ Mount => Rest'
<1> SUFFICES ASSUME VolumeInv, Mount PROVE Rest'
  OBVIOUS
<1>0. Rest /\ RunType /\ VolumeType
  BY VolumeInvParts DEF Rest
<1>1. dfsi.free \in Nat \cup {Unknown} /\ dfsi.next \in Int
  BY <1>0 DEF VolumeType
<1>2. CountersType'
  <2>1. Unknown \in Int
    BY DEF Unknown
  <2>2. free_clust' \in Nat \cup {Unknown} /\ last_clust' \in Int
    BY <1>1, <2>1 DEF Mount
  <2>3. fsi_flag' \in BOOLEAN
    BY DEF Mount
  <2>4. QED
    BY <2>2, <2>3 DEF CountersType
<1>3. RunType'
  BY <1>0, IdleRun DEF Mount
<1>4. VolumeType'
  BY <1>0 DEF Mount, VolumeType
<1>5. FilType'
  BY <1>0 DEF Mount, Rest, FilType, Objects
<1>6. QED
  BY <1>2, <1>3, <1>4, <1>5 DEF Rest

LEMMA DismountRest == VolumeInv /\ Dismount => Rest'
<1> SUFFICES ASSUME VolumeInv, Dismount PROVE Rest'
  OBVIOUS
<1>0. Rest /\ VolumeType /\ CountersType
  BY VolumeInvParts DEF Rest
<1>1. CountersType'
  BY <1>0, CountersChange DEF Dismount
<1>2. VolumeType'
  BY <1>0 DEF Dismount, Withdraw, VolumeType
<1>3. FilType'
  BY ClosedFilType DEF Dismount, FilType, Objects
<1>4. QED
  BY <1>1, <1>2, <1>3, FinishRun DEF Dismount, Rest

LEMMA StepRest == VolumeInv /\ [Next]_vars => Rest'
<1> SUFFICES ASSUME VolumeInv, [Next]_vars PROVE Rest'
  OBVIOUS
<1>1. CASE UNCHANGED vars
  <2>1. /\ UNCHANGED <<dfsi, mounted, free_clust, last_clust, fsi_flag, fil>>
        /\ UNCHANGED <<pc, op, durable, wflag>>
    BY <1>1 DEF vars
  <2>2. Rest
    BY VolumeInvParts
  <2>3. RunType'
    BY <2>1, <2>2 DEF Rest, RunType, Locals, Pending, Opening
  <2>4. CountersType' /\ VolumeType' /\ FilType'
    BY <2>1, <2>2 DEF Rest, CountersType, VolumeType, FilType, Objects
  <2>5. QED
    BY <2>3, <2>4 DEF Rest
<1>2. QED
  BY <1>1, ChainStepRest, OpenStepRest, WriteStepRest, SyncStepRest,
     NameStepRest, MountRest, DismountRest
  DEF Next, Unmount, PowerLoss

-----------------------------------------------------------------------------
(* The theorems.                                                           *)

LEMMA VolumeInitially == Init => VolumeInv
<1> SUFFICES ASSUME Init PROVE VolumeInv
  OBVIOUS
<1>0. n_fatent \in Nat /\ n_fatent > 3 /\ MaxSize \in Nat
  BY VolumeAssumption DEF VolumeAssumption
<1>1. StoreType
  <2>1. fat = [c \in Clusters |-> IF c \in Root THEN EOC ELSE 0]
          /\ dfat = fat
    BY DEF Init
  <2>2. dir = [i \in Slots |-> [name |-> End, sclust |-> 0, size |-> 0]]
          /\ ddir = dir
    BY DEF Init
  <2>3. [name |-> End, sclust |-> 0, size |-> 0] \in Entry
    BY <1>0 DEF Entry
  <2>4. winsect = NoSector /\ wflag = FALSE
    BY DEF Init
  <2>5. QED
    BY <2>1, <2>2, <2>3, <2>4 DEF StoreType
<1>2. WindowCoherent
  BY DEF Init, WindowCoherent
<1>3. CountersType
  <2>1. Unknown \in Int
    BY DEF Unknown
  <2>2. free_clust = Unknown /\ last_clust = Unknown /\ fsi_flag = FALSE
    BY DEF Init
  <2>3. QED
    BY <2>1, <2>2 DEF CountersType
<1>4. VolumeType
  <2>1. n_fatent - 3 \in Nat /\ 2 \in Int
    BY <1>0
  <2>2. /\ dfsi = [free |-> n_fatent - 3, next |-> 2]
        /\ mounted = FALSE /\ durable = [n \in Names |-> Unknown]
    BY DEF Init
  <2>3. [free |-> n_fatent - 3, next |-> 2] \in [free : Nat \cup {Unknown}, next : Int]
    BY <2>1
  <2>4. QED
    BY <2>2, <2>3 DEF VolumeType
<1>5. RunType
  <2>1. pc = "idle" /\ op = NoOp /\ NoOp.to = "-"
    BY DEF Init, NoOp
  <2>2. QED
    BY <2>1, NoOpType DEF RunType, Locals
<1>6. FilType
  BY ClosedFilType DEF Init, FilType, Objects
<1>7. QED
  BY <1>1, <1>2, <1>3, <1>4, <1>5, <1>6, VolumeInvParts DEF Rest

LEMMA VolumeStep == VolumeInv /\ [Next]_vars => VolumeInv'
<1> SUFFICES ASSUME VolumeInv, [Next]_vars PROVE VolumeInv'
  OBVIOUS
<1>1. StoreType' /\ WindowCoherent'
  BY StepKeeps DEF Keeps
<1>2. Rest'
  BY StepRest
<1>3. QED
  BY <1>1, <1>2
  DEF VolumeInv, TypeOK, StoreType, Rest, CountersType, VolumeType, RunType, FilType

(* In every reachable state, of any volume, with any files and open FIL    *)
(* objects and after any failed transfers and power losses, the locals and *)
(* the FIL objects are what the running step needs them to be.             *)
THEOREM VolumeInvariant == Spec => []VolumeInv
  BY VolumeInitially, VolumeStep, PTL DEF Spec

(* Every variable keeps its type: no file function follows a chain out of  *)
(* the table, writes an entry that is none, or takes a count below the     *)
(* mark of an unknown one.                                                 *)
THEOREM TypeCorrect == Spec => []TypeOK
<1>1. VolumeInv => TypeOK
  BY DEF VolumeInv
<1>2. QED
  BY <1>1, VolumeInvariant, PTL

(* The medium differs from the metadata as the code sees them in the one   *)
(* sector under a dirty window, so that a single window is enough for two  *)
(* tables that every file function edits.                                  *)
THEOREM Coherent == Spec => []WindowCoherent
<1>1. VolumeInv => WindowCoherent
  BY DEF VolumeInv
<1>2. QED
  BY <1>1, VolumeInvariant, PTL

(* No step moves the medium anywhere but to the metadata of the state it   *)
(* starts in: what a power loss or a failed transfer leaves is a past      *)
(* value of the whole of both tables.                                      *)
THEOREM MediumIsPastMemory == Spec => MediumFollows
<1>1. VolumeInv /\ [Next]_vars => [medium' # medium => medium' = <<fat, dir>>]_vars
  BY StepKeeps DEF Keeps
<1>2. QED
  BY <1>1, VolumeInvariant, PTL DEF Spec, MediumFollows

-----------------------------------------------------------------------------
(* The chains.  The application keeps off objects that are open, as        *)
(* _FS_LOCK = 0 asks of it, and f_rename, whose critical section has two   *)
(* entries for one chain, is not called where transfers fail or power is   *)
(* lost.  The first half is about who owns a cluster, the second about     *)
(* what a chain holds.                                                     *)

Scope == Exclusive /\ ("f_rename" \notin Functions \/ Faults = {})

-----------------------------------------------------------------------------
(* The invariant.                                                          *)

(* What points to cluster c.                                               *)
Pointed(F, D, c) ==
    \/ c \in Root
    \/ \E i \in Slots : D[i].sclust = c
    \/ \E d \in Clusters : F[d] = c

Tables(F, D) ==
    /\ NoDanglingIn(F, D)
    /\ NoCrossLinkIn(F, D)
    /\ \A c \in Root : F[c] # 0
    /\ \A i \in Slots : D[i].sclust = 0 => D[i].size = 0

(* An allocated cluster that nothing in the tables points to: the start of *)
(* a chain that only RAM knows.                                            *)
Loose(F, D, c) == c \in Clusters /\ F[c] # 0 /\ ~Pointed(F, D, c)

(* The FIL has the start of its chain, its entry has not yet.              *)
Unsaved(D, g) == g.open /\ g.sclust # 0 /\ D[g.slot].sclust = 0

(* FIL h agrees with its entry, or has a start of its own to save.         *)
Agrees(F, D, g) ==
    g.open => /\ Live(D, g.slot)
              /\ D[g.slot].sclust # 0 => g.sclust = D[g.slot].sclust
              /\ g.fptr > 0 \/ g.fsize # 0 => g.sclust # 0
              /\ Unsaved(D, g) => g.write /\ Loose(F, D, g.sclust)

(* Two FILs share an entry only to read, and never a start to save.        *)
Apart(D, g, k) ==
    g.open /\ k.open => /\ g.slot = k.slot => ~g.write
                        /\ Unsaved(D, g) /\ Unsaved(D, k) => g.sclust # k.sclust

Heads(F, D, G) ==
    /\ \A h \in Handles : Agrees(F, D, G[h])
    /\ \A h, k \in Handles : h # k => Apart(D, G[h], G[k])

(* A cluster that only the running function knows.                         *)
Detached(F, D, G, c) == /\ Loose(F, D, c)
                        /\ \A h \in Handles : G[h].open => G[h].sclust # c

TablesType(F, D) ==
    /\ F \in [Clusters -> {0} \cup Clusters \cup {EOC}]
    /\ D \in [Slots -> Entry]

(* The directory without the entry f_rename has still to remove.           *)
Pruned == IF pc = "rename_remove" THEN [dir EXCEPT ![op.slot] = Erased] ELSE dir

Growing == {"create", "link", "write_got", "seek_first", "seek_got"}

(* What the running function knows of the cluster it works on.             *)
RunHeads ==
    /\ pc \in Growing => fil[op.h].open /\ fil[op.h].write
    /\ pc = "seek" => fil[op.h].open
    /\ pc \in {"create", "link"} =>
          /\ op.cl = 0 <=> fil[op.h].sclust = 0
          /\ op.ret = "seek_first" => fil[op.h].sclust = 0
          /\ op.ret = "seek_got" => fil[op.h].sclust # 0
    /\ pc \in {"seek", "seek_got"} => fil[op.h].sclust # 0
    /\ pc = "seek_first" => /\ fil[op.h].sclust = 0
                            /\ op.res = "full" => op.ncl = 0
    /\ pc = "link" => /\ Detached(fat, Pruned, fil, op.ncl)
                      /\ op.ncl # op.cl
                      /\ fat[op.cl] = EOC
    /\ pc \in {"write_got", "seek_first"} /\ op.res = "ok"
                                           /\ fil[op.h].sclust = 0 =>
          Detached(fat, Pruned, fil, op.ncl)
    /\ pc = "remove" => Detached(fat, Pruned, fil, op.cl)
    /\ pc = "open_back" \/ (pc = "remove" /\ op.ret = "open_back") =>
          /\ Live(dir, op.slot)
          /\ dir[op.slot].sclust = 0
          /\ OpenOn(op.slot) = {}
    /\ pc = "rename_remove" =>
          /\ op.to # "-"
          /\ OpenOn(op.slot) = {}
          /\ dir[op.slot].sclust # 0 => fat[dir[op.slot].sclust] # 0
          /\ dir[op.slot].sclust = 0 => dir[op.slot].size = 0
    /\ op.to # "-" => "f_rename" \in Functions

(* The medium is a past value of both tables: of the critical section of   *)
(* f_rename only until sync_fs has written the window.                     *)
MediumTables ==
    /\ NoDanglingIn(dfat, ddir)
    /\ \A c \in Root : dfat[c] # 0
    /\ \A i \in Slots : ddir[i].sclust = 0 => ddir[i].size = 0
    /\ ~(pc = "sync" /\ op.to # "-") => NoCrossLinkIn(dfat, ddir)

Owners == /\ Tables(fat, Pruned)
          /\ Heads(fat, Pruned, fil)
          /\ RunHeads

OwnersInv == VolumeInv /\ Owners /\ MediumTables

-----------------------------------------------------------------------------
(* What an edit of the tables does to their owners.                        *)

LEMMA ClusterNumbers ==
    /\ 0 \notin Clusters /\ EOC \notin Clusters /\ EOC # 0
    /\ Root \subseteq Clusters
    /\ Clusters \subseteq Int
BY VolumeAssumption DEF VolumeAssumption, Clusters, EOC, Root

(* A free cluster is marked the last of a chain.                           *)
LEMMA MarkTables ==
    ASSUME NEW F, NEW D, TablesType(F, D), Tables(F, D),
           NEW c \in Clusters, F[c] = 0,
           NEW G, G = [F EXCEPT ![c] = EOC]
    PROVE  /\ Tables(G, D)
           /\ Loose(G, D, c)
           /\ \A x : Loose(F, D, x) => Loose(G, D, x) /\ x # c
<1>1. /\ G[c] = EOC /\ \A d \in Clusters : d # c => G[d] = F[d]
      /\ F \in [Clusters -> {0} \cup Clusters \cup {EOC}]
  BY DEF TablesType
<1>2. ~Pointed(F, D, c)
  BY ClusterNumbers DEF Pointed, Tables, NoDanglingIn
<1>3. \A x \in Clusters : Pointed(G, D, x) => Pointed(F, D, x)
  BY <1>1, ClusterNumbers DEF Pointed
<1>4. NoDanglingIn(G, D)
  BY <1>1, <1>2, ClusterNumbers DEF Tables, NoDanglingIn
<1>5. NoCrossLinkIn(G, D)
  <2>1. \A i \in Slots : D[i].sclust \in {0} \cup Clusters
    BY DEF TablesType, Entry
  <2>2. /\ \A x \in Clusters : G[x] = F[x] \/ G[x] = EOC
        /\ EOC \notin Root
    BY <1>1, ClusterNumbers
  <2>3. \A x, y \in Clusters : G[x] = G[y] /\ x # y => G[x] \notin Clusters
    BY <1>1, <2>2, ClusterNumbers DEF Tables, NoCrossLinkIn
  <2>4. \A i \in Slots, x \in Clusters : G[x] = D[i].sclust => G[x] = 0
    BY <2>1, <2>2, ClusterNumbers DEF Tables, NoCrossLinkIn
  <2>5. QED
    BY <2>2, <2>3, <2>4 DEF Tables, NoCrossLinkIn
<1>6. \A x \in Root : G[x] # 0
  BY <1>1, ClusterNumbers DEF Tables
<1>7. QED
  BY <1>1, <1>2, <1>3, <1>4, <1>5, <1>6, ClusterNumbers DEF Tables, Loose

(* A chain is made longer by a cluster that is loose.                      *)
LEMMA LinkTables ==
    ASSUME NEW F, NEW D, TablesType(F, D), Tables(F, D),
           NEW c \in Clusters, Loose(F, D, c),
           NEW d \in Clusters, d # c, F[d] = EOC,
           NEW G, G[d] = c, \A x \in Clusters \ {d} : G[x] = F[x]
    PROVE  /\ Tables(G, D)
           /\ \A x : Loose(F, D, x) /\ x # c => Loose(G, D, x)
<1>1. /\ G[d] = c /\ \A x \in Clusters : x # d => G[x] = F[x]
      /\ F \in [Clusters -> {0} \cup Clusters \cup {EOC}]
  BY DEF TablesType
<1>2. /\ F[c] # 0 /\ c \notin Root
      /\ \A i \in Slots : D[i].sclust # c
      /\ \A x \in Clusters : F[x] # c
  BY DEF Loose, Pointed
<1>3. \A x \in Clusters : x # c /\ Pointed(G, D, x) => Pointed(F, D, x)
  BY <1>1 DEF Pointed
<1>4. NoDanglingIn(G, D)
  <2>1. \A x \in Clusters : F[x] # 0 => G[x] # 0
    BY <1>1, ClusterNumbers
  <2>2. \A i \in Slots : D[i].sclust \in {0} \cup Clusters
    BY DEF TablesType, Entry
  <2>3. \A i \in Slots : D[i].sclust # 0 => G[D[i].sclust] # 0
    BY <2>1, <2>2 DEF Tables, NoDanglingIn
  <2>4. \A x \in Clusters : G[x] \in Clusters => G[G[x]] # 0
    BY <1>1, <1>2, <2>1 DEF Tables, NoDanglingIn
  <2>5. QED
    BY <2>3, <2>4 DEF NoDanglingIn
<1>5. NoCrossLinkIn(G, D)
  BY <1>1, <1>2, ClusterNumbers DEF Tables, NoCrossLinkIn
<1>6. \A x \in Root : G[x] # 0
  BY <1>1, ClusterNumbers DEF Tables
<1>7. QED
  BY <1>1, <1>3, <1>4, <1>5, <1>6, ClusterNumbers DEF Tables, Loose

(* The first cluster of a loose chain is freed, and the next becomes loose. *)
LEMMA FreeTables ==
    ASSUME NEW F, NEW D, TablesType(F, D), Tables(F, D),
           NEW c \in Clusters, Loose(F, D, c),
           NEW G, G = [F EXCEPT ![c] = 0]
    PROVE  /\ Tables(G, D)
           /\ F[c] \in Clusters => Loose(G, D, F[c])
           /\ \A x : Loose(F, D, x) /\ x # c => Loose(G, D, x)
<1>1. /\ G[c] = 0 /\ \A x \in Clusters : x # c => G[x] = F[x]
      /\ F \in [Clusters -> {0} \cup Clusters \cup {EOC}]
  BY DEF TablesType
<1>2. /\ F[c] # 0 /\ c \notin Root
      /\ \A i \in Slots : D[i].sclust # c
      /\ \A x \in Clusters : F[x] # c
  BY DEF Loose, Pointed
<1>3. \A x \in Clusters : Pointed(G, D, x) => Pointed(F, D, x)
  BY <1>1, ClusterNumbers DEF Pointed
<1>4. NoDanglingIn(G, D)
  BY <1>1, <1>2, ClusterNumbers DEF Tables, NoDanglingIn
<1>5. NoCrossLinkIn(G, D)
  BY <1>1, <1>2, ClusterNumbers DEF Tables, NoCrossLinkIn
<1>6. \A x \in Root : G[x] # 0
  BY <1>1, <1>2, ClusterNumbers DEF Tables
<1>7. ASSUME F[c] \in Clusters PROVE Loose(G, D, F[c])
  <2>1. F[c] # c /\ F[F[c]] # 0
    BY <1>2, <1>7 DEF Tables, NoDanglingIn
  <2>2. /\ \A x \in Clusters : F[x] = F[c] => x = c
        /\ \A i \in Slots : D[i].sclust # F[c]
        /\ F[c] \notin Root
    BY <1>7, ClusterNumbers DEF Tables, NoCrossLinkIn
  <2>3. ~Pointed(G, D, F[c])
    BY <1>1, <1>7, <2>2, ClusterNumbers DEF Pointed
  <2>4. QED
    BY <1>1, <1>7, <2>1, <2>3 DEF Loose
<1>8. QED
  BY <1>1, <1>3, <1>4, <1>5, <1>6, <1>7, ClusterNumbers DEF Tables, Loose

(* An entry loses its chain, which becomes loose.                          *)
LEMMA EmptyTables ==
    ASSUME NEW F, NEW D, NEW E, TablesType(F, D), TablesType(F, E), Tables(F, D),
           NEW i \in Slots, E[i].sclust = 0, E[i].size = 0,
           \A j \in Slots \ {i} : E[j] = D[j]
    PROVE  /\ Tables(F, E)
           /\ D[i].sclust # 0 => Loose(F, E, D[i].sclust)
           /\ \A x : Loose(F, D, x) => Loose(F, E, x) /\ x # D[i].sclust
<1>1. \A j \in Slots : D[j].sclust \in {0} \cup Clusters
  BY DEF TablesType, Entry
<1>2. NoDanglingIn(F, E)
  BY DEF Tables, NoDanglingIn
<1>3. NoCrossLinkIn(F, E)
  BY ClusterNumbers DEF Tables, NoCrossLinkIn
<1>4. \A x \in Clusters : Pointed(F, E, x) => Pointed(F, D, x)
  BY ClusterNumbers DEF Pointed
<1>5. ASSUME D[i].sclust # 0 PROVE Loose(F, E, D[i].sclust)
  <2> DEFINE c == D[i].sclust
  <2>1. c \in Clusters /\ F[c] # 0
    BY <1>1, <1>5 DEF Tables, NoDanglingIn
  <2>2. /\ \A x \in Clusters : F[x] # c
        /\ \A j \in Slots \ {i} : D[j].sclust # c
        /\ c \notin Root
    BY <1>5, <2>1, ClusterNumbers DEF Tables, NoCrossLinkIn
  <2>3. ~Pointed(F, E, c)
    BY <2>1, <2>2, ClusterNumbers DEF Pointed
  <2>4. QED
    BY <2>1, <2>3 DEF Loose
<1>6. QED
  BY <1>2, <1>3, <1>4, <1>5 DEF Tables, Loose, Pointed

(* Entries change that keep their chains.                                  *)
LEMMA SameTables ==
    ASSUME NEW F, NEW D, NEW E, Tables(F, D),
           \A i \in Slots : /\ E[i].sclust = D[i].sclust
                            /\ E[i].sclust = 0 => E[i].size = 0
    PROVE  /\ Tables(F, E)
           /\ \A x : Loose(F, D, x) => Loose(F, E, x)
<1>1. NoDanglingIn(F, E) /\ NoCrossLinkIn(F, E)
  BY DEF Tables, NoDanglingIn, NoCrossLinkIn
<1>2. QED
  BY <1>1 DEF Tables, Loose, Pointed

(* An entry without a chain is given a loose one.                          *)
LEMMA SaveTables ==
    ASSUME NEW F, NEW D, NEW E, TablesType(F, D), TablesType(F, E), Tables(F, D),
           NEW i \in Slots, D[i].sclust = 0,
           NEW c, Loose(F, D, c), E[i].sclust = c,
           \A j \in Slots \ {i} : E[j] = D[j]
    PROVE  /\ Tables(F, E)
           /\ \A x : Loose(F, D, x) /\ x # c => Loose(F, E, x)
<1>1. /\ c \in Clusters /\ F[c] # 0 /\ c \notin Root
      /\ \A j \in Slots : D[j].sclust # c
      /\ \A x \in Clusters : F[x] # c
  BY DEF Loose, Pointed
<1>2. NoDanglingIn(F, E)
  BY <1>1 DEF Tables, NoDanglingIn
<1>3. NoCrossLinkIn(F, E)
  BY <1>1, ClusterNumbers DEF Tables, NoCrossLinkIn
<1>4. \A x \in Clusters : x # c /\ Pointed(F, E, x) => Pointed(F, D, x)
  BY ClusterNumbers DEF Pointed
<1>5. QED
  BY <1>1, <1>2, <1>3, <1>4, ClusterNumbers DEF Tables, Loose

-----------------------------------------------------------------------------
(* What a change of the tables or of one FIL does to the FILs' starts.     *)

LEMMA HeadsKept ==
    ASSUME NEW F, NEW D, NEW G, Heads(F, D, G), NEW F2, NEW E,
           \A h \in Handles : G[h].open => /\ E[G[h].slot].sclust = D[G[h].slot].sclust
                                          /\ Live(E, G[h].slot),
           \A h \in Handles : Unsaved(D, G[h]) /\ Loose(F, D, G[h].sclust)
                                => Loose(F2, E, G[h].sclust)
    PROVE  Heads(F2, E, G)
<1>1. \A h \in Handles : Unsaved(E, G[h]) <=> Unsaved(D, G[h])
  BY DEF Unsaved
<1>2. \A h \in Handles : Agrees(F2, E, G[h])
  BY <1>1 DEF Heads, Agrees
<1>3. \A h, k \in Handles : h # k => Apart(E, G[h], G[k])
  BY <1>1 DEF Heads, Apart
<1>4. QED
  BY <1>2, <1>3 DEF Heads

LEMMA HeadsPut ==
    ASSUME NEW F, NEW D, NEW G, Heads(F, D, G), NEW h \in Handles,
           G = [k \in Handles |-> G[k]], NEW g, NEW G2, G2 = [G EXCEPT ![h] = g],
           Agrees(F, D, g),
           \A k \in Handles \ {h} : Apart(D, g, G[k]) /\ Apart(D, G[k], g)
    PROVE  Heads(F, D, G2)
<1>1. G2[h] = g /\ \A k \in Handles : k # h => G2[k] = G[k]
  OBVIOUS
<1>2. \A k \in Handles : Agrees(F, D, G2[k])
  BY <1>1 DEF Heads
<1>3. \A j, k \in Handles : j # k => Apart(D, G2[j], G2[k])
  BY <1>1 DEF Heads
<1>4. QED
  BY <1>2, <1>3 DEF Heads

(* The FIL keeps its entry, its mode and the start of its chain.           *)
LEMMA HeadsSame ==
    ASSUME NEW F, NEW D, NEW G, Heads(F, D, G), NEW h \in Handles,
           G = [k \in Handles |-> G[k]], NEW g, NEW G2, G2 = [G EXCEPT ![h] = g],
           g.open = G[h].open, g.slot = G[h].slot, g.write = G[h].write,
           g.sclust = G[h].sclust, g.fptr > 0 \/ g.fsize # 0 => g.sclust # 0
    PROVE  Heads(F, D, G2)
<1>1. Unsaved(D, g) <=> Unsaved(D, G[h])
  BY DEF Unsaved
<1>2. Agrees(F, D, g)
  BY <1>1 DEF Heads, Agrees
<1>3. \A k \in Handles \ {h} : Apart(D, g, G[k]) /\ Apart(D, G[k], g)
  BY <1>1 DEF Heads, Apart
<1>4. QED
  BY <1>2, <1>3, HeadsPut

(* A FIL that had no chain is given one that nothing else knows.           *)
LEMMA HeadsGiven ==
    ASSUME NEW F, NEW D, NEW G, Heads(F, D, G), NEW h \in Handles,
           G = [k \in Handles |-> G[k]], NEW g, NEW G2, G2 = [G EXCEPT ![h] = g],
           G[h].open, G[h].write, G[h].sclust = 0,
           g.open = G[h].open, g.slot = G[h].slot, g.write = G[h].write,
           g.sclust # 0, Detached(F, D, G, g.sclust)
    PROVE  Heads(F, D, G2)
<1>1. D[g.slot].sclust = 0 /\ Live(D, g.slot)
  BY DEF Heads, Agrees
<1>2. Agrees(F, D, g)
  BY <1>1 DEF Agrees, Detached
<1>3. \A k \in Handles \ {h} : Apart(D, g, G[k]) /\ Apart(D, G[k], g)
  BY DEF Heads, Apart, Detached, Unsaved
<1>4. QED
  BY <1>2, <1>3, HeadsPut

(* The entry takes over the start of the chain that only the FIL had.      *)
LEMMA HeadsSaved ==
    ASSUME NEW F, NEW D, NEW G, Heads(F, D, G), NEW h \in Handles,
           Unsaved(D, G[h]), NEW E,
           E[G[h].slot].sclust = G[h].sclust, Live(E, G[h].slot),
           \A k \in Handles : G[k].open /\ G[k].slot # G[h].slot =>
                                E[G[k].slot] = D[G[k].slot],
           \A x : Loose(F, D, x) /\ x # G[h].sclust => Loose(F, E, x)
    PROVE  Heads(F, E, G)
<1>1. G[h].open /\ G[h].write
  BY DEF Unsaved, Heads, Agrees
<1>2. \A k \in Handles : k # h /\ G[k].open => G[k].slot # G[h].slot
  BY <1>1 DEF Heads, Apart
<1>3. \A k \in Handles : Unsaved(E, G[k]) => k # h /\ Unsaved(D, G[k])
  BY <1>1, <1>2 DEF Unsaved
<1>4. \A k \in Handles \ {h} : Unsaved(D, G[k]) => G[k].sclust # G[h].sclust
  BY <1>1 DEF Heads, Apart, Unsaved
<1>5. ASSUME NEW k \in Handles, k # h PROVE Agrees(F, E, G[k])
  BY <1>2, <1>3, <1>4, <1>5 DEF Heads, Agrees, Live
<1>6. Agrees(F, E, G[h])
  BY <1>3 DEF Heads, Agrees
<1>7. \A j, k \in Handles : j # k => Apart(E, G[j], G[k])
  BY <1>3 DEF Heads, Apart
<1>8. QED
  BY <1>5, <1>6, <1>7 DEF Heads

(* A FIL is opened on an entry, with the chain that the entry has.         *)
LEMMA HeadsOpened ==
    ASSUME NEW F, NEW D, NEW G, Heads(F, D, G), NEW h \in Handles,
           G = [k \in Handles |-> G[k]], NEW g, NEW G2, G2 = [G EXCEPT ![h] = g],
           g.open, Live(D, g.slot), g.sclust = D[g.slot].sclust, g.fptr = 0,
           g.fsize # 0 => g.sclust # 0,
           \A k \in Handles \ {h} : G[k].open /\ G[k].slot = g.slot
                                     => ~G[k].write /\ ~g.write
    PROVE  Heads(F, D, G2)
<1>1. ~Unsaved(D, g)
  BY DEF Unsaved
<1>2. Agrees(F, D, g)
  BY <1>1 DEF Agrees
<1>3. \A k \in Handles \ {h} : Apart(D, g, G[k]) /\ Apart(D, G[k], g)
  BY <1>1 DEF Apart
<1>4. QED
  BY <1>2, <1>3, HeadsPut

LEMMA HeadsClosed ==
    ASSUME NEW F, NEW D, NEW G, Heads(F, D, G), NEW h \in Handles,
           G = [k \in Handles |-> G[k]], NEW G2, G2 = [G EXCEPT ![h] = ClosedFil]
    PROVE  Heads(F, D, G2)
<1>1. ~ClosedFil.open
  BY DEF ClosedFil
<1>2. QED
  BY <1>1, HeadsPut DEF Agrees, Apart

-----------------------------------------------------------------------------
(* What the steps have in common.                                          *)

(* Where the file functions' steps start.                                  *)
LEMMA StepsStart ==
    /\ ChainStep => pc \in {"create", "link", "remove"}
    /\ OpenStep => pc \in {"idle", "open_back"}
    /\ WriteStep => pc \in {"idle", "write_got", "seek_first", "seek", "seek_got"}
    /\ SyncStep => pc \in {"idle", "sync", "fsinfo"}
    /\ NameStep => pc \in {"idle", "rename_remove"}
<1>1. ChainStep => pc \in {"create", "link", "remove"}
  BY DEF ChainStep, ChainFollowed, ChainBroken, ChainMark, ChainFull, ChainLink,
         ChainFails, RemoveLink, RemoveStops, RemoveFails
<1>2. OpenStep => pc \in {"idle", "open_back"}
  BY DEF OpenStep, Stat, LookUpFails, OpenRefused, OpenExisting, OpenCreate,
         OpenTruncate, OpenBack, Ready
<1>3. WriteStep => pc \in {"idle", "write_got", "seek_first", "seek", "seek_got"}
  BY DEF WriteStep, WriteStart, WriteGot, SeekStart, SeekFirst, SeekOn, SeekGot,
         Ready
<1>4. SyncStep => pc \in {"idle", "sync", "fsinfo"}
  BY DEF SyncStep, SyncClean, SyncStart, Close, SyncWindow, SyncFails, SyncFsInfo,
         Ready
<1>5. NameStep => pc \in {"idle", "rename_remove"}
  BY DEF NameStep, Unlink, UnlinkRefused, Rename, RenameRefused, RenameRemove,
         GetFree, GetFreeFails, Ready
<1>6. QED
  BY <1>1, <1>2, <1>3, <1>4, <1>5

LEMMA ErasedEntry == Erased \in Entry /\ Erased.sclust = 0 /\ Erased.name = Deleted
BY VolumeAssumption DEF Erased, Entry, VolumeAssumption

LEMMA InvTypes ==
    ASSUME VolumeInv
    PROVE  /\ StoreType /\ WindowCoherent /\ Rest /\ RunType /\ FilType /\ Locals
           /\ TablesType(fat, dir) /\ TablesType(dfat, ddir) /\ TablesType(fat, Pruned)
           /\ fil \in [Handles -> Fil] /\ op \in Op
           /\ \A i \in Slots : dir[i].sclust \in {0} \cup Clusters
<1>1. StoreType /\ WindowCoherent /\ Rest
  BY VolumeInvParts
<1>2. RunType /\ FilType /\ Locals /\ fil \in [Handles -> Fil] /\ op \in Op
  BY <1>1 DEF Rest, RunType, FilType
<1>3. TablesType(fat, dir) /\ TablesType(dfat, ddir)
  BY <1>1 DEF StoreType, TablesType
<1>4. TablesType(fat, Pruned)
  BY <1>3, ErasedEntry DEF TablesType, Pruned
<1>5. \A i \in Slots : dir[i].sclust \in {0} \cup Clusters
  BY <1>3 DEF TablesType, Entry
<1>6. QED
  BY <1>1, <1>2, <1>3, <1>4, <1>5

LEMMA PrunedIsDir ==
    /\ pc # "rename_remove" => Pruned = dir
    /\ pc' # "rename_remove" => Pruned' = dir'
BY DEF Pruned

(* The function returns.                                                   *)
LEMMA FinishHeads == Finish => RunHeads' /\ Pruned' = dir'
BY DEF Finish, RunHeads, NoOp, Pruned, Growing

LEMMA FinishOwners ==
    ASSUME Finish, Tables(fat', dir'), Heads(fat', dir', fil')
    PROVE  Owners'
BY FinishHeads DEF Owners

LEMMA QuietOwners ==
    ASSUME Owners, pc # "rename_remove", UNCHANGED <<fat, dir, fil>>, Finish
    PROVE  Owners'
BY FinishOwners, PrunedIsDir DEF Owners

LEMMA VisitFailsOwners ==
    ASSUME OwnersInv, pc # "rename_remove", NEW S, VisitFails(S), Finish, UNCHANGED fil
    PROVE  Owners'
BY InvTypes, VisitFailsKeeps, QuietOwners DEF OwnersInv

LEMMA OpenFilSlot ==
    ASSUME VolumeInv, NEW h \in Handles
    PROVE  /\ fil[h] \in Fil
           /\ fil[h].open => fil[h].slot \in Slots
           /\ fil[h].fptr > 0 => fil[h].clust \in Clusters
BY InvTypes DEF FilType, Objects

-----------------------------------------------------------------------------
(* The medium.                                                             *)

LEMMA RenameScope ==
    ASSUME Scope, RunHeads, op.to # "-"
    PROVE  Faults = {}
BY DEF Scope, RunHeads

LEMMA MediumStep ==
    ASSUME Scope, OwnersInv, [Next]_vars
    PROVE  MediumTables'
<1>0. /\ MediumTables /\ Owners /\ RunHeads /\ VolumeInv
      /\ StoreType /\ WindowCoherent
  BY InvTypes DEF OwnersInv, Owners
<1>1. UNCHANGED medium \/ medium' = <<fat, dir>>
  BY <1>0, StepKeeps DEF Keeps
<1>2. CASE pc # "rename_remove" /\ ~(pc = "sync" /\ op.to # "-")
  <2>1. Tables(fat, dir)
    BY <1>0, <1>2, PrunedIsDir DEF Owners
  <2>2. /\ NoDanglingIn(dfat', ddir') /\ NoCrossLinkIn(dfat', ddir')
        /\ \A c \in Root : dfat'[c] # 0
        /\ \A i \in Slots : ddir'[i].sclust = 0 => ddir'[i].size = 0
    BY <1>0, <1>1, <1>2, <2>1 DEF MediumTables, Tables, medium
  <2>3. QED
    BY <2>2 DEF MediumTables
<1>3. CASE pc = "rename_remove"
  <2>1. op.to # "-" /\ Faults = {}
    BY <1>0, <1>3, RenameScope DEF RunHeads
  <2>2. UNCHANGED vars \/ RenameRemove
    BY <1>3, <2>1, StepsStart
    DEF Next, NameStep, Unlink, UnlinkRefused, Rename, RenameRefused, GetFree,
        GetFreeFails, Ready, Mount, Unmount, PowerLoss
  <2>3. CASE UNCHANGED vars
    BY <1>0, <2>3 DEF vars, MediumTables
  <2>4. CASE RenameRemove
    <3>1. ~VisitFails({DirSector(op.slot)})
      BY <2>1 DEF VisitFails, WriteBackFails, LoadFails
    <3>2. pc' = "sync" /\ op' = [op EXCEPT !.slot = 0]
      BY <2>4, <3>1 DEF RenameRemove
    <3>3. op'.to # "-"
      BY <1>0, <2>1, <3>2, InvTypes DEF Op
    <3>4. /\ NoDanglingIn(fat, dir)
          /\ \A i \in Slots : dir[i].sclust = 0 => dir[i].size = 0
      <4>1. op.slot \in Slots /\ TablesType(fat, dir)
        BY <1>0, <1>3, InvTypes DEF Locals
      <4>2. \A i \in Slots \ {op.slot} : Pruned[i] = dir[i]
        BY <1>3, <4>1 DEF Pruned, TablesType
      <4>3. QED
        BY <1>0, <1>3, <4>2 DEF Owners, Tables, NoDanglingIn, RunHeads
    <3>5. /\ NoDanglingIn(dfat', ddir') /\ \A c \in Root : dfat'[c] # 0
          /\ \A i \in Slots : ddir'[i].sclust = 0 => ddir'[i].size = 0
      BY <1>0, <1>1, <3>4 DEF MediumTables, medium, Owners, Tables
    <3>6. QED
      BY <3>2, <3>3, <3>5 DEF MediumTables
  <2>5. QED
    BY <2>2, <2>3, <2>4
<1>4. CASE pc = "sync" /\ op.to # "-"
  <2>1. Faults = {}
    BY <1>0, <1>4, RenameScope
  <2>2. UNCHANGED vars \/ SyncWindow
    BY <1>4, <2>1, StepsStart
    DEF Next, SyncStep, SyncClean, SyncStart, Close, SyncFails, SyncFsInfo,
        Ready, Mount, Unmount, PowerLoss
  <2>3. CASE UNCHANGED vars
    BY <1>0, <2>3 DEF vars, MediumTables
  <2>4. CASE SyncWindow
    <3>1. dfat' = fat /\ ddir' = dir
      BY <1>0, <2>4, WriteBackCompletes DEF SyncWindow
    <3>2. Tables(fat, dir)
      BY <1>0, <1>4, PrunedIsDir DEF Owners
    <3>3. QED
      BY <3>1, <3>2 DEF MediumTables, Tables
  <2>5. QED
    BY <2>2, <2>3, <2>4
<1>5. QED
  BY <1>2, <1>3, <1>4

-----------------------------------------------------------------------------
(* f_open.                                                                 *)

LEMMA NewFilFields ==
    ASSUME NEW i, NEW write, NEW created, NEW c, NEW z,
           NEW g, g = NewFil(i, write, created, c, z)
    PROVE  /\ g.open /\ g.slot = i /\ g.write = write /\ g.sclust = c
           /\ g.fptr = 0 /\ g.fsize = z /\ g.written = created /\ ~g.err
           /\ ~g.closing
BY DEF NewFil, ClosedFil

(* A FIL is opened on an entry no other one has, or shares it to read.     *)
LEMMA NewFilHeads ==
    ASSUME NEW F, NEW D, Heads(F, D, fil), fil \in [Handles -> Fil],
           NEW h \in Handles, NEW i, Live(D, i), NEW write, NEW created, NEW z,
           z # 0 => D[i].sclust # 0,
           fil' = [fil EXCEPT ![h] = NewFil(i, write, created, D[i].sclust, z)],
           \A k \in OpenOn(i) : ~fil[k].write /\ ~write
    PROVE  Heads(F, D, fil')
<1>1. PICK g : g = NewFil(i, write, created, D[i].sclust, z)
  OBVIOUS
<1>2. /\ g.open /\ g.slot = i /\ g.write = write /\ g.sclust = D[i].sclust
      /\ g.fptr = 0 /\ g.fsize = z
  BY <1>1, NewFilFields
<1>3. \A k \in Handles \ {h} : fil[k].open /\ fil[k].slot = g.slot
                               => ~fil[k].write /\ ~g.write
  BY <1>2 DEF OpenOn
<1>4. fil = [k \in Handles |-> fil[k]] /\ fil' = [fil EXCEPT ![h] = g]
  BY <1>1
<1>5. QED
  BY <1>2, <1>3, <1>4, HeadsOpened

(* An entry no open FIL stands on loses its chain.                         *)
LEMMA EntryEmptied ==
    ASSUME OwnersInv, pc # "rename_remove", NEW i \in Slots, OpenOn(i) = {},
           NEW E, TablesType(fat, E), E[i].sclust = 0, E[i].size = 0,
           \A j \in Slots \ {i} : E[j] = dir[j]
    PROVE  /\ Tables(fat, E) /\ Heads(fat, E, fil)
           /\ dir[i].sclust # 0 => Detached(fat, E, fil, dir[i].sclust)
           /\ \A x : Loose(fat, dir, x) => Loose(fat, E, x)
<1>0. /\ TablesType(fat, dir) /\ Tables(fat, dir) /\ Heads(fat, dir, fil)
      /\ fil \in [Handles -> Fil] /\ VolumeInv
  BY InvTypes, PrunedIsDir DEF OwnersInv, Owners
<1>2. /\ Tables(fat, E)
      /\ dir[i].sclust # 0 => Loose(fat, E, dir[i].sclust)
      /\ \A x : Loose(fat, dir, x) => Loose(fat, E, x) /\ x # dir[i].sclust
  BY <1>0, EmptyTables
<1>3. \A h \in Handles : fil[h].open => fil[h].slot \in Slots \ {i}
  BY <1>0, OpenFilSlot DEF OpenOn
<1>4. Heads(fat, E, fil)
  <2>1. \A h \in Handles : fil[h].open =>
            /\ E[fil[h].slot].sclust = dir[fil[h].slot].sclust
            /\ Live(E, fil[h].slot)
    BY <1>0, <1>3 DEF Heads, Agrees, Live
  <2>2. QED
    BY <1>0, <1>2, <2>1, HeadsKept
<1>5. ASSUME dir[i].sclust # 0, NEW h \in Handles, fil[h].open
      PROVE  fil[h].sclust # dir[i].sclust
  <2>1. CASE Unsaved(dir, fil[h])
    <3>1. Loose(fat, dir, fil[h].sclust)
      BY <1>0, <2>1 DEF Heads, Agrees, Unsaved
    <3>2. QED
      BY <1>2, <3>1
  <2>2. CASE ~Unsaved(dir, fil[h])
    BY <1>0, <1>3, <1>5, <2>2 DEF Heads, Agrees, Unsaved, Tables, NoCrossLinkIn
  <2>3. QED
    BY <2>1, <2>2
<1>6. QED
  BY <1>2, <1>4, <1>5 DEF Detached

(* The same, of an assignment to the entry.                                *)
LEMMA EntryPut ==
    ASSUME VolumeInv, NEW i \in Slots, NEW e \in Entry, dir' = [dir EXCEPT ![i] = e]
    PROVE  /\ TablesType(fat, dir') /\ dir'[i] = e
           /\ \A j \in Slots \ {i} : dir'[j] = dir[j]
BY InvTypes DEF TablesType

LEMMA CallRemoveHeads ==
    ASSUME NEW slot, NEW c, NEW write, NEW h, NEW ret,
           CallRemoveChain(slot, c, write, h, ret),
           UNCHANGED fil, Detached(fat', dir', fil, c),
           ret = "open_back" => /\ Live(dir', slot) /\ dir'[slot].sclust = 0
                                /\ OpenOn(slot) = {}
    PROVE  RunHeads' /\ Pruned' = dir'
<1>1. /\ pc' = "remove" /\ op'.cl = c /\ op'.slot = slot /\ op'.ret = ret
      /\ op'.to = "-" /\ Pruned' = dir'
  BY DEF CallRemoveChain, NoOp, Pruned
<1>2. QED
  BY <1>1 DEF RunHeads, Growing, OpenOn

LEMMA OpenStepOwners == Scope /\ OwnersInv /\ OpenStep => Owners'
<1> SUFFICES ASSUME Scope, OwnersInv, OpenStep PROVE Owners'
  OBVIOUS
<1>0. /\ VolumeInv /\ Owners /\ pc # "rename_remove"
      /\ Tables(fat, dir) /\ Heads(fat, dir, fil) /\ RunHeads
      /\ fil \in [Handles -> Fil] /\ dir \in [Slots -> Entry] /\ Exclusive
      /\ fil = [k \in Handles |-> fil[k]]
  BY StepsStart, InvTypes, PrunedIsDir DEF OwnersInv, Owners, Scope, TablesType
<1>1. ASSUME NEW n, LookUp(n) PROVE Owners'
  BY <1>0, <1>1, QuietOwners DEF LookUp
<1>2. ASSUME NEW n, LookUpFails(n) PROVE Owners'
  BY <1>0, <1>2, VisitFailsOwners DEF LookUpFails
<1>3. ASSUME NEW h \in Handles, NEW n \in Names, NEW mode, NEW write \in BOOLEAN,
             OpenExisting(h, n, mode, write)
      PROVE  Owners'
  <2>1. PICK i \in Found(n) :
          /\ MayOpen(i, write)
          /\ fil' = [fil EXCEPT ![h] =
                       NewFil(i, write, FALSE, dir[i].sclust, dir[i].size)]
    BY <1>3 DEF OpenExisting
  <2>2. i \in Slots /\ Live(dir, i) /\ (dir[i].size # 0 => dir[i].sclust # 0)
    BY <1>0 DEF Found, Live, Tables
  <2>3. \A k \in OpenOn(i) : ~fil[k].write /\ ~write
    BY <1>0, <2>1 DEF MayOpen
  <2>4. Heads(fat, dir, fil')
    BY <1>0, <2>1, <2>2, <2>3, NewFilHeads
  <2>5. QED
    BY <1>0, <1>3, <2>4, FinishOwners DEF OpenExisting
<1>4. ASSUME NEW h \in Handles, NEW n \in Names, NEW mode, OpenCreate(h, n, mode)
      PROVE  Owners'
  <2> DEFINE e == [name |-> n, sclust |-> 0, size |-> 0]
  <2>1. PICK i \in Slots :
          /\ AllocSlot(i)
          /\ dir' = [dir EXCEPT ![i] = e]
          /\ fil' = [fil EXCEPT ![h] = NewFil(i, TRUE, TRUE, 0, 0)]
    BY <1>4 DEF OpenCreate
  <2>2. OpenOn(i) = {}
    <3>1. dir[i].name \notin Names
      BY <2>1, VolumeAssumption
      DEF AllocSlot, FreeSlots, End, Deleted, VolumeAssumption
    <3>2. QED
      BY <1>0, <3>1 DEF OpenOn, Heads, Agrees, Live
  <2>3. e \in Entry /\ e.sclust = 0 /\ e.size = 0 /\ e.name \in Names
    BY VolumeAssumption DEF Entry, VolumeAssumption
  <2>4. Tables(fat, dir') /\ Heads(fat, dir', fil)
    BY <1>0, <2>1, <2>2, <2>3, EntryPut, EntryEmptied
  <2>5. Live(dir', i) /\ dir'[i].sclust = 0
    BY <1>0, <2>1, <2>3 DEF Live
  <2>6. Heads(fat, dir', fil')
    BY <1>0, <2>1, <2>2, <2>4, <2>5, NewFilHeads
  <2>7. QED
    BY <1>4, <2>4, <2>6, FinishOwners DEF OpenCreate
<1>5. ASSUME NEW h \in Handles, NEW n \in Names, OpenTruncate(h, n)
      PROVE  Owners'
  <2>1. PICK i \in Found(n) :
          /\ MayOpen(i, TRUE)
          /\ dir' = [dir EXCEPT ![i] = Resized(@, 0, 0)]
          /\ IF dir[i].sclust = 0
             THEN Finish /\ fil' = [fil EXCEPT ![h] = NewFil(i, TRUE, TRUE, 0, 0)]
             ELSE /\ CallRemoveChain(i, dir[i].sclust, TRUE, h, "open_back")
                  /\ UNCHANGED fil
    BY <1>5 DEF OpenTruncate
  <2>2. i \in Slots /\ Live(dir, i) /\ fat' = fat
    BY <1>5 DEF Found, Live, OpenTruncate
  <2>3. OpenOn(i) = {}
    BY <1>0, <2>1 DEF MayOpen
  <2>4. /\ Resized(dir[i], 0, 0) \in Entry /\ Resized(dir[i], 0, 0).sclust = 0
        /\ Resized(dir[i], 0, 0).size = 0
        /\ Resized(dir[i], 0, 0).name = dir[i].name
    <3>1. 0 \in {0} \cup Clusters /\ 0 \in 0 .. MaxSize /\ dir[i] \in Entry
      BY <1>0, <2>2, VolumeAssumption DEF VolumeAssumption
    <3>2. QED
      BY <3>1, ResizedEntry DEF Resized, Entry
  <2>5. /\ Tables(fat, dir') /\ Heads(fat, dir', fil)
        /\ dir[i].sclust # 0 => Detached(fat, dir', fil, dir[i].sclust)
    BY <1>0, <2>1, <2>2, <2>3, <2>4, EntryPut, EntryEmptied
  <2>6. Live(dir', i) /\ dir'[i].sclust = 0
    BY <1>0, <2>1, <2>2, <2>4 DEF Live
  <2>7. CASE dir[i].sclust = 0
    <3>1. Finish /\ fil' = [fil EXCEPT ![h] = NewFil(i, TRUE, TRUE, 0, 0)]
      BY <2>1, <2>7
    <3>2. Heads(fat, dir', fil')
      BY <1>0, <2>3, <2>5, <2>6, <3>1, NewFilHeads
    <3>3. QED
      BY <2>2, <2>5, <3>1, <3>2, FinishOwners
  <2>8. CASE dir[i].sclust # 0
    <3>1. UNCHANGED fil /\ CallRemoveChain(i, dir[i].sclust, TRUE, h, "open_back")
      BY <2>1, <2>8
    <3>2. RunHeads' /\ Pruned' = dir'
      BY <2>2, <2>3, <2>5, <2>6, <2>8, <3>1, CallRemoveHeads
    <3>3. QED
      BY <2>2, <2>5, <3>1, <3>2 DEF Owners
  <2>9. QED
    BY <2>7, <2>8
<1>6. CASE OpenBack
  <2>1. CASE VisitFails({DirSector(op.slot)}) /\ UNCHANGED fil
    BY <1>0, <1>6, <2>1, VisitFailsOwners DEF OpenBack
  <2>2. CASE fil' = [fil EXCEPT ![op.h] = NewFil(op.slot, TRUE, TRUE, 0, 0)]
    <3>1. /\ op.h \in Handles /\ Live(dir, op.slot) /\ dir[op.slot].sclust = 0
          /\ OpenOn(op.slot) = {}
      BY <1>0, <1>6, InvTypes DEF OpenBack, RunHeads, Locals, Opening
    <3>2. Heads(fat, dir, fil')
      BY <1>0, <2>2, <3>1, NewFilHeads
    <3>3. QED
      BY <1>0, <1>6, <3>2, FinishOwners DEF OpenBack
  <2>3. QED
    BY <1>6, <2>1, <2>2 DEF OpenBack
<1>7. QED
  BY <1>1, <1>2, <1>3, <1>4, <1>5, <1>6 DEF OpenStep, Stat, OpenRefused

-----------------------------------------------------------------------------
(* create_chain and remove_chain.                                          *)

(* create_chain returns.                                                   *)
LEMMA ReturnHeads ==
    ASSUME VolumeInv, RunHeads, pc \in {"create", "link"}, UNCHANGED fil,
           NEW res, NEW ncl, Return(res, ncl), res = "full" => ncl = 0,
           res = "ok" /\ fil[op.h].sclust = 0 => Detached(fat', dir', fil, ncl)
    PROVE  RunHeads' /\ Pruned' = dir'
<1>1. /\ pc' = op.ret /\ op.ret \in {"write_got", "seek_first", "seek_got"}
      /\ op \in Op
  BY InvTypes DEF Return, Locals, Pending
<1>2. /\ op'.h = op.h /\ op'.to = op.to /\ op'.res = res /\ op'.ncl = ncl
  BY <1>1 DEF Return, Op
<1>3. Pruned' = dir' /\ pc \in Growing
  BY <1>1 DEF Pruned, Growing
<1>4. QED
  BY <1>1, <1>2, <1>3 DEF RunHeads, Growing

LEMMA VisitFailsStore ==
    ASSUME VolumeInv, NEW S, VisitFails(S)
    PROVE  UNCHANGED <<fat, dir>>
BY InvTypes, VisitFailsKeeps

LEMMA ChainStepOwners == Scope /\ OwnersInv /\ ChainStep => Owners'
<1> SUFFICES ASSUME Scope, OwnersInv, ChainStep PROVE Owners'
  OBVIOUS
<1>0. /\ VolumeInv /\ Owners /\ RunHeads /\ pc # "rename_remove" /\ Pruned = dir
      /\ Tables(fat, dir) /\ Heads(fat, dir, fil) /\ TablesType(fat, dir)
      /\ fil \in [Handles -> Fil] /\ op \in Op /\ Locals
  BY StepsStart, InvTypes, PrunedIsDir DEF OwnersInv, Owners
<1>1. UNCHANGED fil
  BY DEF ChainStep
<1>2. ASSUME UNCHANGED <<fat, dir>>, pc \in {"create", "link"}, NEW res, NEW ncl,
             Return(res, ncl), res = "full" => ncl = 0,
             res = "ok" => fil[op.h].sclust # 0
      PROVE  Owners'
  BY <1>0, <1>1, <1>2, ReturnHeads DEF Owners
<1>3. CASE ChainFollowed
  BY <1>0, <1>2, <1>3 DEF ChainFollowed, RunHeads
<1>4. CASE ChainBroken
  BY <1>2, <1>4 DEF ChainBroken
<1>5. CASE ChainMark
  <2>1. PICK k \in 1 .. ScanLength :
          LET ncl == Scanned(ScanStart(op.cl), k) IN
          /\ fat[ncl] = 0
          /\ fat' = [fat EXCEPT ![ncl] = EOC]
          /\ IF op.cl = 0
             THEN Return("ok", ncl)
             ELSE pc' = "link" /\ op' = [op EXCEPT !.ncl = ncl]
    BY <1>5 DEF ChainMark
  <2> DEFINE ncl == Scanned(ScanStart(op.cl), k)
  <2>2. ncl \in Clusters
    BY <1>0, ScanInTable DEF VolumeInv
  <2>3. /\ fat[ncl] = 0
        /\ fat' = [fat EXCEPT ![ncl] = EOC]
        /\ op.cl = 0 => Return("ok", ncl)
        /\ op.cl # 0 => pc' = "link" /\ op' = [op EXCEPT !.ncl = ncl]
        /\ dir' = dir /\ pc = "create" /\ MustScan
    BY <1>5, <2>1 DEF ChainMark
  <2> HIDE DEF ncl
  <2>4. /\ Tables(fat', dir) /\ Loose(fat', dir, ncl)
        /\ \A x : Loose(fat, dir, x) => Loose(fat', dir, x) /\ x # ncl
    BY <1>0, <2>2, <2>3, MarkTables
  <2>5. Heads(fat', dir, fil)
    BY <1>0, <2>4, HeadsKept DEF Heads, Agrees
  <2>6. Detached(fat', dir, fil, ncl)
    <3>1. ASSUME NEW h \in Handles, fil[h].open, fil[h].sclust = ncl PROVE FALSE
      <4>1. fil[h].slot \in Slots /\ ncl # 0
        BY <1>0, <2>2, <3>1, OpenFilSlot, ClusterNumbers
      <4>2. dir[fil[h].slot].sclust = 0
        BY <1>0, <2>3, <3>1, <4>1 DEF Heads, Agrees, Tables, NoDanglingIn
      <4>3. Loose(fat, dir, ncl)
        BY <1>0, <3>1, <4>1, <4>2 DEF Heads, Agrees, Unsaved
      <4>4. QED
        BY <2>4, <4>3
    <3>2. QED
      BY <2>4, <3>1 DEF Detached
  <2>7. CASE op.cl = 0
    <3>1. RunHeads' /\ Pruned' = dir'
      BY <1>0, <1>1, <2>3, <2>6, <2>7, ReturnHeads
    <3>2. QED
      BY <1>1, <2>3, <2>4, <2>5, <3>1 DEF Owners
  <2>8. CASE op.cl # 0
    <3>1. /\ op'.h = op.h /\ op'.to = op.to /\ op'.cl = op.cl /\ op'.ncl = ncl
          /\ op'.ret = op.ret /\ pc' = "link" /\ Pruned' = dir'
      BY <1>0, <2>3, <2>8 DEF Op, Pruned
    <3>2. fat'[op.cl] = EOC /\ ncl # op.cl
      BY <1>0, <2>2, <2>3, <2>8, ClusterNumbers DEF MustScan, TablesType, Op
    <3>3. RunHeads'
      BY <1>0, <1>1, <2>3, <2>6, <2>8, <3>1, <3>2 DEF RunHeads, Growing
    <3>4. QED
      BY <1>1, <2>3, <2>4, <2>5, <3>1, <3>3 DEF Owners
  <2>9. QED
    BY <2>7, <2>8
<1>6. CASE ChainFull
  BY <1>2, <1>6 DEF ChainFull
<1>7. CASE ChainLink
  <2>1. /\ pc = "link" /\ fat' = [fat EXCEPT ![op.cl] = op.ncl] /\ dir' = dir
        /\ Return("ok", op.ncl)
    BY <1>7 DEF ChainLink
  <2>2. /\ op.cl \in Clusters /\ op.ncl \in Clusters /\ op.cl # op.ncl
        /\ fat[op.cl] = EOC /\ Detached(fat, dir, fil, op.ncl)
    BY <1>0, <2>1 DEF Locals, RunHeads
  <2>3. /\ Tables(fat', dir)
        /\ \A x : Loose(fat, dir, x) /\ x # op.ncl => Loose(fat', dir, x)
    <3>1. TablesType(fat, dir) /\ Tables(fat, dir) /\ Loose(fat, dir, op.ncl)
      BY <1>0, <2>2 DEF Detached
    <3>2. fat'[op.cl] = op.ncl /\ \A x \in Clusters \ {op.cl} : fat'[x] = fat[x]
      BY <1>0, <2>1, <2>2 DEF TablesType
    <3>3. /\ op.cl \in Clusters /\ op.ncl \in Clusters /\ op.cl # op.ncl
          /\ fat[op.cl] = EOC
      BY <2>2
    <3>4. QED
      BY <3>1, <3>2, <3>3, LinkTables
  <2>4. Heads(fat', dir, fil)
    BY <1>0, <2>2, <2>3, HeadsKept DEF Heads, Agrees, Detached, Unsaved
  <2>5. fil[op.h].sclust # 0
    BY <1>0, <2>1, <2>2, ClusterNumbers DEF RunHeads
  <2>6. RunHeads' /\ Pruned' = dir'
    BY <1>0, <1>1, <2>1, <2>5, ReturnHeads
  <2>7. QED
    BY <1>1, <2>1, <2>3, <2>4, <2>6 DEF Owners
<1>8. CASE ChainFails
  <2>1. UNCHANGED <<fat, dir>>
    BY <1>0, <1>8, VisitFailsStore DEF ChainFails
  <2>2. QED
    BY <1>2, <1>8, <2>1 DEF ChainFails
<1>9. CASE RemoveLink
  <2>1. /\ pc = "remove" /\ fat' = [fat EXCEPT ![op.cl] = 0] /\ dir' = dir
        /\ IF fat[op.cl] \in Clusters
           THEN pc' = "remove" /\ op' = [op EXCEPT !.cl = fat[op.cl]]
           ELSE pc' = op.ret /\ op' = op
    BY <1>9 DEF RemoveLink, Goto
  <2>2. op.cl \in Clusters /\ Detached(fat, dir, fil, op.cl)
    BY <1>0, <2>1 DEF Locals, RunHeads
  <2>3. /\ Tables(fat', dir)
        /\ fat[op.cl] \in Clusters => Loose(fat', dir, fat[op.cl])
        /\ \A x : Loose(fat, dir, x) /\ x # op.cl => Loose(fat', dir, x)
    <3>1. TablesType(fat, dir) /\ Tables(fat, dir) /\ Loose(fat, dir, op.cl)
      BY <1>0, <2>2 DEF Detached
    <3>2. fat' = [fat EXCEPT ![op.cl] = 0]
      BY <2>1
    <3>3. QED
      BY <2>2, <3>1, <3>2, FreeTables
  <2>4. Heads(fat', dir, fil)
    BY <1>0, <2>2, <2>3, HeadsKept DEF Heads, Agrees, Detached, Unsaved
  <2>5. CASE fat[op.cl] \in Clusters
    <3>1. Detached(fat', dir, fil, fat[op.cl])
      <4>1. ASSUME NEW h \in Handles, fil[h].open, fil[h].sclust = fat[op.cl]
            PROVE  FALSE
        <5>1. fil[h].slot \in Slots /\ fil[h].sclust # 0
          BY <1>0, <2>5, <4>1, OpenFilSlot, ClusterNumbers
        <5>2. ~Unsaved(dir, fil[h])
          BY <1>0, <2>2, <4>1 DEF Heads, Agrees, Loose, Pointed
        <5>3. dir[fil[h].slot].sclust = fat[op.cl]
          BY <1>0, <4>1, <5>1, <5>2 DEF Heads, Agrees, Unsaved
        <5>4. QED
          BY <1>0, <2>2, <5>1, <5>3, <4>1 DEF Tables, NoCrossLinkIn
      <4>2. QED
        BY <2>3, <2>5, <4>1 DEF Detached
    <3>2. /\ op'.h = op.h /\ op'.to = op.to /\ op'.cl = fat[op.cl]
          /\ op'.ret = op.ret /\ op'.slot = op.slot /\ pc' = "remove"
          /\ Pruned' = dir'
      BY <1>0, <2>1, <2>5 DEF Op, Pruned
    <3>3. RunHeads'
      BY <1>0, <1>1, <2>1, <3>1, <3>2 DEF RunHeads, Growing, OpenOn
    <3>4. QED
      BY <1>1, <2>1, <2>3, <2>4, <3>2, <3>3 DEF Owners
  <2>6. CASE fat[op.cl] \notin Clusters
    <3>1. pc' = op.ret /\ op' = op /\ op.ret \in {"open_back", "sync"}
      BY <1>0, <2>1, <2>6 DEF Locals
    <3>2. RunHeads' /\ Pruned' = dir'
      BY <1>0, <1>1, <2>1, <3>1 DEF RunHeads, Growing, Pruned, OpenOn
    <3>3. QED
      BY <1>1, <2>1, <2>3, <2>4, <3>2 DEF Owners
  <2>7. QED
    BY <2>5, <2>6
<1>10. CASE RemoveStops
  BY <1>0, <1>10 DEF RemoveStops, RunHeads, Detached, Loose
<1>11. CASE RemoveFails
  BY <1>0, <1>1, <1>11, VisitFailsOwners DEF RemoveFails, OwnersInv
<1>12. QED
  BY <1>3, <1>4, <1>5, <1>6, <1>7, <1>8, <1>9, <1>10, <1>11 DEF ChainStep

-----------------------------------------------------------------------------
(* f_write and f_lseek.                                                    *)

(* A FIL keeps the start of its chain or is given one.                     *)
LEMMA FilChanged ==
    ASSUME Heads(fat, dir, fil), fil \in [Handles -> Fil], NEW h \in Handles,
           NEW g, fil' = [fil EXCEPT ![h] = g],
           g.open = fil[h].open, g.slot = fil[h].slot, g.write = fil[h].write,
           \/ /\ g.sclust = fil[h].sclust
              /\ g.fptr > 0 \/ g.fsize # 0 => g.sclust # 0
           \/ /\ fil[h].open /\ fil[h].write /\ fil[h].sclust = 0 /\ g.sclust # 0
              /\ Detached(fat, dir, fil, g.sclust)
    PROVE  Heads(fat, dir, fil')
<1>1. fil = [k \in Handles |-> fil[k]]
  OBVIOUS
<1>2. QED
  BY <1>1, HeadsSame, HeadsGiven

(* The FILs' fields that the starts depend on.                             *)
LEMMA AbortedFields ==
    ASSUME NEW f \in Fil
    PROVE  /\ Aborted(f).open = f.open /\ Aborted(f).slot = f.slot
           /\ Aborted(f).write = f.write /\ Aborted(f).sclust = f.sclust
           /\ Aborted(f).fptr = f.fptr /\ Aborted(f).fsize = f.fsize
           /\ Aborted(f).clust = f.clust /\ Aborted(f).err
BY DEF Aborted, Fil

LEMMA ArrivedFields ==
    ASSUME NEW f \in Fil
    PROVE  /\ Arrived(f).open = f.open /\ Arrived(f).slot = f.slot
           /\ Arrived(f).write = f.write /\ Arrived(f).sclust = f.sclust
           /\ Arrived(f).clust = f.clust /\ Arrived(f).err = f.err
           /\ Arrived(f).fptr = f.fptr + 1
           /\ Arrived(f).fsize = IF f.fptr < f.fsize THEN f.fsize ELSE f.fptr + 1
BY DEF Arrived, Fil

LEMMA OneFurtherFields ==
    ASSUME NEW f \in Fil, NEW c
    PROVE  /\ OneFurther(f, c).open = f.open /\ OneFurther(f, c).slot = f.slot
           /\ OneFurther(f, c).write = f.write /\ OneFurther(f, c).sclust = f.sclust
           /\ OneFurther(f, c).clust = c /\ OneFurther(f, c).err = f.err
           /\ OneFurther(f, c).fptr = f.fptr + 1 /\ OneFurther(f, c).fsize = f.fsize
BY DEF OneFurther, Fil

LEMMA FilFurther ==
    ASSUME Heads(fat, dir, fil), fil \in [Handles -> Fil], NEW h \in Handles,
           fil[h].sclust # 0, NEW c, fil' = [fil EXCEPT ![h] = OneFurther(fil[h], c)]
    PROVE  Heads(fat, dir, fil')
<1>1. PICK g : g = OneFurther(fil[h], c)
  OBVIOUS
<1>2. /\ g.open = fil[h].open /\ g.slot = fil[h].slot /\ g.write = fil[h].write
      /\ g.sclust = fil[h].sclust
  BY <1>1, OneFurtherFields
<1>3. QED
  BY <1>1, <1>2, FilChanged

LEMMA CallCreateHeads ==
    ASSUME NEW h \in Handles, NEW c, NEW ofs, NEW ret, CallCreateChain(h, c, ofs, ret),
           fil'[h].open, fil'[h].write, c = 0 <=> fil'[h].sclust = 0,
           ret = "seek_first" => fil'[h].sclust = 0,
           ret = "seek_got" => fil'[h].sclust # 0
    PROVE  RunHeads' /\ Pruned' = dir'
<1>1. /\ pc' = "create" /\ op'.h = h /\ op'.cl = c /\ op'.ret = ret /\ op'.to = "-"
  BY DEF CallCreateChain, NoOp
<1>2. QED
  BY <1>1 DEF RunHeads, Growing, Pruned

LEMMA SeekHeads ==
    ASSUME pc' = "seek", op'.to = "-", fil'[op'.h].open, fil'[op'.h].sclust # 0
    PROVE  RunHeads' /\ Pruned' = dir'
BY DEF RunHeads, Growing, Pruned

LEMMA WriteStepOwners == Scope /\ OwnersInv /\ WriteStep => Owners'
<1> SUFFICES ASSUME Scope, OwnersInv, WriteStep PROVE Owners'
  OBVIOUS
<1>0. /\ VolumeInv /\ Owners /\ RunHeads /\ pc # "rename_remove" /\ Pruned = dir
      /\ Tables(fat, dir) /\ Heads(fat, dir, fil)
      /\ fil \in [Handles -> Fil] /\ op \in Op /\ Locals
  BY StepsStart, InvTypes, PrunedIsDir DEF OwnersInv, Owners
<1>1. ASSUME UNCHANGED <<fat, dir>>, Heads(fat, dir, fil'), Finish PROVE Owners'
  BY <1>0, <1>1, FinishOwners
<1>2. ASSUME UNCHANGED <<fat, dir>>, Heads(fat, dir, fil'), RunHeads', Pruned' = dir'
      PROVE  Owners'
  BY <1>0, <1>2 DEF Owners
<1>3. \A h \in Handles :
        /\ fil[h] \in Fil /\ fil[h].fptr \in Nat /\ fil[h].fsize \in Nat
        /\ fil[h].fptr > 0 => fil[h].clust \in Clusters
        /\ fil[h].open => (fil[h].fptr > 0 \/ fil[h].fsize # 0 => fil[h].sclust # 0)
  BY <1>0, OpenFilSlot, VolumeAssumption DEF Fil, Heads, Agrees, VolumeAssumption
<1>4. 0 \notin Clusters
  BY ClusterNumbers
<1>5. ASSUME NEW h \in Handles, WriteStart(h) PROVE Owners'
  <2>1. /\ UNCHANGED <<fat, dir, fil>> /\ fil[h].open /\ fil[h].write
    BY <1>5 DEF WriteStart, Usable, store
  <2>2. CASE fil[h].fptr = 0 /\ fil[h].sclust # 0
    <3>1. pc' = "write_got" /\ op'.h = h /\ op'.to = "-"
      BY <1>5, <2>2 DEF WriteStart, NoOp
    <3>2. RunHeads' /\ Pruned' = dir'
      BY <2>1, <2>2, <3>1 DEF RunHeads, Growing, Pruned
    <3>3. QED
      BY <1>0, <1>2, <2>1, <3>2
  <2>3. CASE ~(fil[h].fptr = 0 /\ fil[h].sclust # 0)
    <3>1. PICK c : /\ CallCreateChain(h, c, 0, "write_got")
                   /\ c = IF fil[h].fptr = 0 THEN 0 ELSE fil[h].clust
      BY <1>5, <2>3 DEF WriteStart
    <3>2. c = 0 <=> fil[h].sclust = 0
      BY <1>3, <1>4, <2>1, <2>3, <3>1
    <3>3. RunHeads' /\ Pruned' = dir'
      BY <2>1, <3>1, <3>2, CallCreateHeads
    <3>4. QED
      BY <1>0, <1>2, <2>1, <3>3
  <2>4. QED
    BY <2>2, <2>3
<1>6. CASE WriteGot
  <2> DEFINE h == op.h
             f == fil[h]
             placed == [f EXCEPT !.clust = op.ncl,
                                 !.sclust = IF @ = 0 THEN op.ncl ELSE @]
             done == [placed EXCEPT !.fptr = @ + 1,
                                    !.fsize = IF f.fptr < @ THEN @ ELSE f.fptr + 1,
                                    !.written = TRUE]
             full == [f EXCEPT !.written = TRUE]
  <2>1. /\ pc = "write_got" /\ UNCHANGED <<fat, dir>> /\ Finish
        /\ h \in Handles /\ f.open /\ f.write
        /\ op.res = "ok" => op.ncl \in Clusters
        /\ op.res = "ok" /\ f.sclust = 0 => Detached(fat, dir, fil, op.ncl)
    BY <1>0, <1>6 DEF WriteGot, RunHeads, Growing, Locals, Pending, store
  <2>2. PICK g : /\ fil' = [fil EXCEPT ![h] = g]
                 /\ \/ op.res = "ok" /\ (g = done \/ g = Aborted(placed))
                    \/ g = full \/ g = Aborted(f)
    BY <1>6 DEF WriteGot
  <2>3. f \in Fil /\ (f.fptr > 0 \/ f.fsize # 0 => f.sclust # 0)
    BY <1>3, <2>1
  <2>4. CASE op.res = "ok" /\ (g = done \/ g = Aborted(placed))
    <3>1. /\ g.open = f.open /\ g.slot = f.slot /\ g.write = f.write
          /\ g.sclust = IF f.sclust = 0 THEN op.ncl ELSE f.sclust
      BY <2>3, <2>4 DEF Aborted, Fil
    <3>2. Heads(fat, dir, fil')
      BY <1>0, <1>4, <2>1, <2>2, <2>4, <3>1, FilChanged
    <3>3. QED
      BY <1>1, <2>1, <3>2
  <2>5. CASE g = full \/ g = Aborted(f)
    <3>1. /\ g.open = f.open /\ g.slot = f.slot /\ g.write = f.write
          /\ g.sclust = f.sclust /\ g.fptr = f.fptr /\ g.fsize = f.fsize
      BY <2>3, <2>5 DEF Aborted, Fil
    <3>2. Heads(fat, dir, fil')
      BY <1>0, <2>1, <2>2, <2>3, <3>1, FilChanged
    <3>3. QED
      BY <1>1, <2>1, <3>2
  <2>6. QED
    BY <2>2, <2>4, <2>5
<1>7. ASSUME NEW h \in Handles, NEW to \in 0 .. MaxSize, SeekStart(h, to)
      PROVE  Owners'
  <2> DEFINE f == fil[h]
             ofs == IF to > f.fsize /\ ~f.write THEN f.fsize ELSE to
             rewound == [f EXCEPT !.fptr = 0]
             back == [f EXCEPT !.fptr = f.fptr - 1]
             first == [f EXCEPT !.fptr = 0, !.clust = f.sclust]
  <2>1. UNCHANGED <<fat, dir>> /\ f.open
    BY <1>7 DEF SeekStart, Usable, store
  <2>2. /\ f \in Fil /\ f.fptr \in Nat /\ f.fsize \in Nat /\ to \in Nat
        /\ f.fptr > 0 \/ f.fsize # 0 => f.sclust # 0
    BY <1>3, <2>1, VolumeAssumption DEF VolumeAssumption
  <2>3. /\ rewound.open = f.open /\ rewound.slot = f.slot
        /\ rewound.write = f.write /\ rewound.sclust = f.sclust
        /\ rewound.fptr > 0 \/ rewound.fsize # 0 => rewound.sclust # 0
    BY <2>2 DEF Fil
  <2>4. CASE fil' = [fil EXCEPT ![h] = rewound] /\ Finish
    <3>1. Heads(fat, dir, fil')
      BY <1>0, <2>2, <2>3, <2>4, FilChanged
    <3>2. QED
      BY <1>1, <2>1, <2>4, <3>1
  <2>5. CASE /\ ofs > 0 /\ f.fptr > 0
             /\ fil' = [fil EXCEPT ![h] = back]
             /\ pc' = "seek" /\ op' = [NoOp EXCEPT !.h = h, !.ofs = ofs - (f.fptr - 1)]
    <3>1. /\ back.open = f.open /\ back.slot = f.slot
          /\ back.write = f.write /\ back.sclust = f.sclust /\ back.fsize = f.fsize
      BY <2>2 DEF Fil
    <3>2. Heads(fat, dir, fil')
      BY <1>0, <2>2, <2>5, <3>1, FilChanged
    <3>3. op'.h = h /\ op'.to = "-" /\ fil'[h].open /\ fil'[h].sclust # 0
      BY <1>0, <2>1, <2>2, <2>5, <3>1 DEF NoOp
    <3>4. QED
      BY <1>2, <2>1, <2>5, <3>2, <3>3, SeekHeads
  <2>6. CASE /\ f.sclust # 0
             /\ fil' = [fil EXCEPT ![h] = first]
             /\ pc' = "seek" /\ op' = [NoOp EXCEPT !.h = h, !.ofs = ofs]
    <3>1. /\ first.open = f.open /\ first.slot = f.slot
          /\ first.write = f.write /\ first.sclust = f.sclust
      BY <2>2 DEF Fil
    <3>2. Heads(fat, dir, fil')
      BY <1>0, <2>6, <3>1, FilChanged
    <3>3. op'.h = h /\ op'.to = "-" /\ fil'[h].open /\ fil'[h].sclust # 0
      BY <1>0, <2>1, <2>6, <3>1 DEF NoOp
    <3>4. QED
      BY <1>2, <2>1, <2>6, <3>2, <3>3, SeekHeads
  <2>7. CASE /\ ofs > 0 /\ f.sclust = 0
             /\ fil' = [fil EXCEPT ![h] = rewound]
             /\ CallCreateChain(h, 0, ofs, "seek_first")
    <3>1. Heads(fat, dir, fil')
      BY <1>0, <2>2, <2>3, <2>7, FilChanged
    <3>2. f.write
      BY <2>2, <2>7
    <3>3. fil'[h].open /\ fil'[h].write /\ fil'[h].sclust = 0
      BY <1>0, <2>1, <2>3, <2>7, <3>2
    <3>4. QED
      BY <1>2, <2>1, <2>7, <3>1, <3>3, CallCreateHeads
  <2>8. QED
    BY <1>7, <2>4, <2>5, <2>6, <2>7 DEF SeekStart
<1>8. CASE SeekFirst
  <2> DEFINE h == op.h
             f == fil[h]
             given == [f EXCEPT !.sclust = op.ncl, !.clust = op.ncl]
  <2>1. /\ pc = "seek_first" /\ UNCHANGED <<fat, dir>> /\ h \in Handles
        /\ f.open /\ f.write /\ f.sclust = 0
        /\ op.res = "ok" => op.ncl \in Clusters /\ Detached(fat, dir, fil, op.ncl)
    BY <1>0, <1>8 DEF SeekFirst, RunHeads, Growing, Locals, Pending, store
  <2>2. f \in Fil /\ f.fptr = 0 /\ f.fsize = 0
    BY <1>3, <2>1
  <2>3. /\ given.open = f.open /\ given.slot = f.slot /\ given.write = f.write
        /\ given.sclust = op.ncl /\ ~(given.fptr > 0) /\ given.fsize = 0
    BY <2>2 DEF Fil
  <2>4. CASE op.res = "error"
    <3>1. fil' = [fil EXCEPT ![h] = Aborted(f)] /\ Finish
      BY <1>8, <2>4 DEF SeekFirst
    <3>2. Aborted(f).fptr > 0 \/ Aborted(f).fsize # 0 => Aborted(f).sclust # 0
      BY <2>2, AbortedFields
    <3>3. Heads(fat, dir, fil')
      BY <1>0, <2>1, <2>2, <3>1, <3>2, AbortedFields, FilChanged
    <3>4. QED
      BY <1>1, <2>1, <3>1, <3>3
  <2>5. CASE op.res # "error"
    <3>1. fil' = [fil EXCEPT ![h] = given]
      BY <1>8, <2>5 DEF SeekFirst
    <3>2. CASE op.res = "ok"
      <4>1. pc' = "seek" /\ op'.h = h /\ op'.to = "-"
        BY <1>8, <3>2 DEF SeekFirst, NoOp
      <4>2. op.ncl # 0
        BY <1>4, <2>1, <3>2
      <4>3. Heads(fat, dir, fil')
        BY <1>0, <2>1, <2>3, <3>1, <3>2, <4>2, FilChanged
      <4>4. fil'[h].open /\ fil'[h].sclust # 0
        BY <1>0, <2>1, <2>3, <3>1, <4>2
      <4>5. QED
        BY <1>2, <2>1, <4>1, <4>3, <4>4, SeekHeads
    <3>3. CASE op.res = "full"
      <4>1. Finish /\ op.ncl = 0
        BY <1>0, <1>8, <2>1, <3>3 DEF SeekFirst, RunHeads
      <4>2. Heads(fat, dir, fil')
        BY <1>0, <2>1, <2>3, <3>1, <4>1, FilChanged
      <4>3. QED
        BY <1>1, <2>1, <4>1, <4>2
    <3>4. QED
      BY <1>0, <2>5, <3>2, <3>3 DEF Op
  <2>6. QED
    BY <2>4, <2>5
<1>9. CASE SeekOn
  <2> DEFINE h == op.h
             f == fil[h]
             next == fat[f.clust]
  <2>1. /\ pc = "seek" /\ h \in Handles /\ f.open /\ f.sclust # 0 /\ f \in Fil
        /\ f.clust \in Clusters
    BY <1>0, <1>9, <1>3 DEF SeekOn, RunHeads, Locals
  <2>2. CASE fil' = [fil EXCEPT ![h] = Arrived(f)] /\ Finish /\ UNCHANGED store
    <3>1. Heads(fat, dir, fil')
      BY <1>0, <2>1, <2>2, ArrivedFields, FilChanged
    <3>2. QED
      BY <1>1, <2>2, <3>1 DEF store
  <2>3. CASE /\ f.write /\ CallCreateChain(h, f.clust, op.ofs, "seek_got")
             /\ UNCHANGED <<store, fil>>
    <3>1. RunHeads' /\ Pruned' = dir'
      BY <1>4, <2>1, <2>3, CallCreateHeads
    <3>2. QED
      BY <1>0, <1>2, <2>3, <3>1 DEF store
  <2>4. CASE /\ fil' = [fil EXCEPT ![h] = OneFurther(f, next)]
             /\ pc' = "seek" /\ op' = [op EXCEPT !.ofs = @ - 1]
             /\ UNCHANGED <<fat, dir>>
    <3>1. Heads(fat, dir, fil')
      BY <1>0, <2>1, <2>4, FilFurther
    <3>2. op'.h = h /\ op'.to = op.to
      BY <1>0, <2>4 DEF Op
    <3>3. fil'[h].open /\ fil'[h].sclust # 0
      BY <1>0, <2>1, <2>4, OneFurtherFields
    <3>4. RunHeads' /\ Pruned' = dir'
      BY <1>0, <2>4, <3>2, <3>3 DEF RunHeads, Growing, Pruned
    <3>5. QED
      BY <1>2, <2>4, <3>1, <3>4
  <2>5. CASE fil' = [fil EXCEPT ![h] = Aborted(f)] /\ Finish /\ UNCHANGED <<fat, dir>>
    <3>1. Heads(fat, dir, fil')
      BY <1>0, <2>1, <2>5, AbortedFields, FilChanged
    <3>2. QED
      BY <1>1, <2>5, <3>1
  <2>6. VisitFails({FatSector(f.clust)}) => UNCHANGED <<fat, dir>>
    BY <1>0, VisitFailsStore
  <2>7. QED
    BY <1>9, <2>2, <2>3, <2>4, <2>5, <2>6 DEF SeekOn
<1>10. CASE SeekGot
  <2> DEFINE h == op.h
             f == fil[h]
  <2>1. /\ pc = "seek_got" /\ h \in Handles /\ f.open /\ f.sclust # 0 /\ f \in Fil
        /\ UNCHANGED <<fat, dir>>
    BY <1>0, <1>10, <1>3 DEF SeekGot, RunHeads, Growing, Locals, Pending, store
  <2>2. CASE /\ fil' = [fil EXCEPT ![h] = OneFurther(f, op.ncl)]
             /\ pc' = "seek" /\ op' = [NoOp EXCEPT !.h = h, !.ofs = op.ofs - 1]
    <3>1. Heads(fat, dir, fil')
      BY <1>0, <2>1, <2>2, FilFurther
    <3>2. op'.h = h /\ op'.to = "-"
      BY <2>2 DEF NoOp
    <3>3. fil'[h].open /\ fil'[h].sclust # 0
      BY <1>0, <2>1, <2>2, OneFurtherFields
    <3>4. QED
      BY <1>2, <2>1, <2>2, <3>1, <3>2, <3>3, SeekHeads
  <2>3. CASE fil' = [fil EXCEPT ![h] = Arrived(f)] /\ Finish
    <3>1. Heads(fat, dir, fil')
      BY <1>0, <2>1, <2>3, ArrivedFields, FilChanged
    <3>2. QED
      BY <1>1, <2>1, <2>3, <3>1
  <2>4. CASE fil' = [fil EXCEPT ![h] = Aborted(f)] /\ Finish
    <3>1. Heads(fat, dir, fil')
      BY <1>0, <2>1, <2>4, AbortedFields, FilChanged
    <3>2. QED
      BY <1>1, <2>1, <2>4, <3>1
  <2>5. QED
    BY <1>10, <2>2, <2>3, <2>4 DEF SeekGot
<1>11. QED
  BY <1>5, <1>6, <1>7, <1>8, <1>9, <1>10 DEF WriteStep

-----------------------------------------------------------------------------
(* f_sync, f_close and sync_fs.                                            *)

(* The function is in sync_fs, or goes on there.                           *)
LEMMA SyncHeads ==
    ASSUME pc' \in {"sync", "fsinfo"}, op'.to # "-" => "f_rename" \in Functions
    PROVE  RunHeads' /\ Pruned' = dir'
BY DEF RunHeads, Growing, Pruned

(* sync_fs returns, or goes on with FSINFO.                                *)
LEMMA SyncReturnsOwners ==
    ASSUME OwnersInv, pc \in {"sync", "fsinfo"}, UNCHANGED <<fat, dir>>,
           \/ Goto("fsinfo") /\ UNCHANGED fil
           \/ SyncReturns
    PROVE  Owners'
<1>0. /\ VolumeInv /\ Owners /\ RunHeads /\ pc # "rename_remove" /\ Pruned = dir
      /\ Tables(fat, dir) /\ Heads(fat, dir, fil)
      /\ fil \in [Handles -> Fil] /\ Locals
  BY InvTypes, PrunedIsDir DEF OwnersInv, Owners
<1>1. CASE Goto("fsinfo") /\ UNCHANGED fil
  BY <1>0, <1>1, SyncHeads DEF Goto, Owners, RunHeads
<1>2. CASE SyncReturns
  <2>1. CASE op.ret = "closed"
    <3> DEFINE h == op.h
               g == [fil[h] EXCEPT !.closing = TRUE]
    <3>1. h \in Handles /\ fil' = [fil EXCEPT ![h] = g]
      BY <1>0, <1>2, <2>1 DEF SyncReturns, Locals
    <3>2. fil[h] \in Fil
      BY <1>0, <3>1
    <3>3. /\ g.open = fil[h].open /\ g.slot = fil[h].slot /\ g.write = fil[h].write
          /\ g.sclust = fil[h].sclust /\ g.fptr = fil[h].fptr
          /\ g.fsize = fil[h].fsize
      BY <3>2 DEF Fil
    <3>4. CASE fil[h].open
      <4>1. g.fptr > 0 \/ g.fsize # 0 => g.sclust # 0
        BY <1>0, <3>1, <3>3, <3>4 DEF Heads, Agrees
      <4>2. Heads(fat, dir, fil')
        BY <1>0, <3>1, <3>3, <4>1, FilChanged
      <4>3. QED
        BY <1>0, <1>2, <4>2, FinishOwners DEF SyncReturns
    <3>5. CASE ~fil[h].open
      <4>1. Agrees(fat, dir, g) /\ \A k \in Handles : Apart(dir, g, fil[k])
                                                     /\ Apart(dir, fil[k], g)
        BY <3>3, <3>5 DEF Agrees, Apart
      <4>2. Heads(fat, dir, fil')
        BY <1>0, <3>1, <4>1, HeadsPut
      <4>3. QED
        BY <1>0, <1>2, <4>2, FinishOwners DEF SyncReturns
    <3>6. QED
      BY <3>4, <3>5
  <2>2. CASE op.ret # "closed"
    BY <1>0, <1>2, <2>2, QuietOwners DEF SyncReturns
  <2>3. QED
    BY <2>1, <2>2
<1>3. QED
  BY <1>1, <1>2

LEMMA SyncStepOwners == Scope /\ OwnersInv /\ SyncStep => Owners'
<1> SUFFICES ASSUME Scope, OwnersInv, SyncStep PROVE Owners'
  OBVIOUS
<1>0. /\ VolumeInv /\ Owners /\ RunHeads /\ pc # "rename_remove" /\ Pruned = dir
      /\ Tables(fat, dir) /\ Heads(fat, dir, fil) /\ TablesType(fat, dir)
      /\ fil \in [Handles -> Fil] /\ op \in Op /\ Locals
  BY StepsStart, InvTypes, PrunedIsDir DEF OwnersInv, Owners
<1>1. ASSUME UNCHANGED <<fat, dir, pc, op>>, pc = "idle", Heads(fat, dir, fil')
      PROVE  Owners'
  BY <1>0, <1>1 DEF Owners, RunHeads, Growing, Pruned
<1>2. ASSUME NEW h \in Handles, NEW closing \in BOOLEAN, SyncClean(h, closing)
      PROVE  Owners'
  <2> DEFINE g == [fil[h] EXCEPT !.closing = @ \/ closing]
  <2>1. /\ fil' = [fil EXCEPT ![h] = g] /\ fil[h].open /\ pc = "idle"
        /\ UNCHANGED <<fat, dir, pc, op>>
    BY <1>2 DEF SyncClean, Usable, Ready, store
  <2>2. /\ g.open = fil[h].open /\ g.slot = fil[h].slot /\ g.write = fil[h].write
        /\ g.sclust = fil[h].sclust /\ g.fptr = fil[h].fptr
        /\ g.fsize = fil[h].fsize
    BY <1>0 DEF Fil
  <2>3. g.fptr > 0 \/ g.fsize # 0 => g.sclust # 0
    BY <1>0, <2>1, <2>2 DEF Heads, Agrees
  <2>4. Heads(fat, dir, fil')
    BY <1>0, <2>1, <2>2, <2>3, FilChanged
  <2>5. QED
    BY <1>1, <2>1, <2>4
<1>3. ASSUME NEW h \in Handles, NEW closing \in BOOLEAN, SyncStart(h, closing)
      PROVE  Owners'
  <2> DEFINE f == fil[h]
             e == Resized(dir[f.slot], f.sclust, f.fsize)
             g == [f EXCEPT !.written = FALSE]
  <2>1. CASE VisitFails({DirSector(f.slot)}) /\ Finish /\ UNCHANGED fil
    BY <1>0, <2>1, VisitFailsOwners
  <2>2. CASE /\ dir' = [dir EXCEPT ![f.slot] = e]
             /\ fil' = [fil EXCEPT ![h] = g]
             /\ pc' = "sync" /\ UNCHANGED fat
             /\ op' = [NoOp EXCEPT !.h = h, !.slot = f.slot,
                                   !.ret = IF closing THEN "closed" ELSE "synced"]
    <3>1. f.open /\ f \in Fil /\ f.slot \in Slots
      BY <1>0, <1>3, OpenFilSlot DEF SyncStart, Usable
    <3>2. e \in Entry /\ e.name = dir[f.slot].name /\ e.sclust = f.sclust
            /\ e.size = f.fsize
      <4>1. /\ dir[f.slot] \in Entry /\ f.sclust \in {0} \cup Clusters
            /\ f.fsize \in 0 .. MaxSize
        BY <1>0, <3>1 DEF TablesType, Fil
      <4>2. QED
        BY <4>1, ResizedEntry DEF Resized, Entry
    <3>3. /\ TablesType(fat, dir') /\ dir'[f.slot] = e
          /\ \A j \in Slots \ {f.slot} : dir'[j] = dir[j]
      BY <1>0, <2>2, <3>1, <3>2, EntryPut
    <3>4. /\ Live(dir, f.slot) /\ Live(dir', f.slot)
          /\ dir[f.slot].sclust # 0 => f.sclust = dir[f.slot].sclust
          /\ f.fsize # 0 => f.sclust # 0
      BY <1>0, <3>1, <3>2, <3>3 DEF Heads, Agrees, Live
    <3>5. Tables(fat, dir') /\ Heads(fat, dir', fil)
      <4>1. CASE Unsaved(dir, f)
        <5>1. dir[f.slot].sclust = 0 /\ Loose(fat, dir, f.sclust)
          BY <1>0, <4>1 DEF Heads, Agrees, Unsaved
        <5>2. /\ Tables(fat, dir')
              /\ \A x : Loose(fat, dir, x) /\ x # f.sclust => Loose(fat, dir', x)
          BY <1>0, <3>1, <3>2, <3>3, <5>1, SaveTables
        <5>3. \A k \in Handles : fil[k].open /\ fil[k].slot # f.slot =>
                                dir'[fil[k].slot] = dir[fil[k].slot]
          BY <1>0, <3>3, OpenFilSlot
        <5>4. Heads(fat, dir', fil)
          BY <1>0, <3>2, <3>3, <3>4, <4>1, <5>2, <5>3, HeadsSaved
        <5>5. QED
          BY <5>2, <5>4
      <4>2. CASE ~Unsaved(dir, f)
        <5>1. e.sclust = dir[f.slot].sclust
          BY <3>1, <3>2, <3>4, <4>2 DEF Unsaved
        <5>2. \A i \in Slots : /\ dir'[i].sclust = dir[i].sclust
                               /\ dir'[i].sclust = 0 => dir'[i].size = 0
          BY <1>0, <3>2, <3>3, <3>4, <5>1 DEF Tables
        <5>3. Tables(fat, dir') /\ \A x : Loose(fat, dir, x) => Loose(fat, dir', x)
          BY <1>0, <5>2, SameTables
        <5>4. \A k \in Handles : fil[k].open =>
                 /\ dir'[fil[k].slot].sclust = dir[fil[k].slot].sclust
                 /\ Live(dir', fil[k].slot)
          BY <1>0, <3>3, <3>4, <5>2, OpenFilSlot DEF Heads, Agrees, Live
        <5>5. Heads(fat, dir', fil)
          BY <1>0, <5>3, <5>4, HeadsKept
        <5>6. QED
          BY <5>3, <5>5
      <4>3. QED
        BY <4>1, <4>2
    <3>6. Heads(fat, dir', fil')
      <4>1. /\ g.open = f.open /\ g.slot = f.slot /\ g.write = f.write
            /\ g.sclust = f.sclust /\ g.fptr = f.fptr /\ g.fsize = f.fsize
        BY <3>1 DEF Fil
      <4>2. g.fptr > 0 \/ g.fsize # 0 => g.sclust # 0
        BY <1>0, <3>1, <4>1 DEF Heads, Agrees
      <4>3. fil = [k \in Handles |-> fil[k]]
        BY <1>0
      <4>4. QED
        BY <2>2, <3>5, <4>1, <4>2, <4>3, HeadsSame
    <3>7. RunHeads' /\ Pruned' = dir'
      BY <2>2, SyncHeads DEF NoOp
    <3>8. QED
      BY <2>2, <3>5, <3>6, <3>7 DEF Owners
  <2>3. QED
    BY <1>3, <2>1, <2>2 DEF SyncStart
<1>4. ASSUME NEW h \in Handles, Close(h) PROVE Owners'
  <2>1. /\ fil' = [fil EXCEPT ![h] = ClosedFil] /\ pc = "idle"
        /\ UNCHANGED <<fat, dir, pc, op>> /\ fil = [k \in Handles |-> fil[k]]
    BY <1>0, <1>4 DEF Close, Ready, store
  <2>2. QED
    BY <1>0, <1>1, <2>1, HeadsClosed
<1>5. CASE SyncWindow
  BY <1>5, SyncReturnsOwners DEF SyncWindow
<1>6. CASE SyncFails
  BY <1>0, <1>6, QuietOwners DEF SyncFails
<1>7. CASE SyncFsInfo
  BY <1>7, SyncReturnsOwners DEF SyncFsInfo
<1>8. QED
  BY <1>2, <1>3, <1>4, <1>5, <1>6, <1>7 DEF SyncStep

-----------------------------------------------------------------------------
(* f_unlink, f_rename, f_getfree.                                          *)

(* A slot that is not live has no open FIL.                                *)
LEMMA FreeSlotClosed ==
    ASSUME Heads(fat, dir, fil), NEW i \in Slots, AllocSlot(i)
    PROVE  OpenOn(i) = {} /\ ~Live(dir, i)
<1>1. dir[i].name \notin Names
  BY VolumeAssumption DEF AllocSlot, FreeSlots, End, Deleted, VolumeAssumption
<1>2. QED
  BY <1>1 DEF OpenOn, Heads, Agrees, Live

(* The new entry of f_rename, and the directory without the old one.       *)
LEMMA RenamedTables ==
    ASSUME OwnersInv, pc # "rename_remove", NEW i \in Slots, OpenOn(i) = {},
           NEW j \in Slots, j # i, OpenOn(j) = {},
           NEW P, TablesType(fat, P), P[i] = Erased,
           P[j].sclust = dir[i].sclust, P[j].size = dir[i].size,
           \A k \in Slots \ {i, j} : P[k] = dir[k]
    PROVE  Tables(fat, P) /\ Heads(fat, P, fil)
<1>0. /\ TablesType(fat, dir) /\ Tables(fat, dir) /\ Heads(fat, dir, fil)
      /\ VolumeInv /\ Erased \in Entry /\ Erased.sclust = 0 /\ Erased.size = 0
  BY InvTypes, PrunedIsDir, ErasedEntry DEF OwnersInv, Owners, Erased
<1> DEFINE c == dir[i].sclust
<1>1. \A h \in Handles : fil[h].open => fil[h].slot \in Slots \ {i, j}
  BY <1>0, OpenFilSlot DEF OpenOn
<1>2. PICK D : D = [dir EXCEPT ![i] = Erased]
  OBVIOUS
<1>3. /\ TablesType(fat, D) /\ D[i] = Erased
      /\ \A k \in Slots \ {i} : D[k] = dir[k]
  BY <1>0, <1>2 DEF TablesType
<1>4. /\ Tables(fat, D) /\ Heads(fat, D, fil)
      /\ c # 0 => Detached(fat, D, fil, c)
  BY <1>0, <1>3, EntryEmptied
<1>5. \A h \in Handles : fil[h].open =>
         /\ P[fil[h].slot] = D[fil[h].slot] /\ Live(P, fil[h].slot)
  BY <1>1, <1>3, <1>4 DEF Heads, Agrees, Live
<1>6. CASE c = 0
  <2>1. P[j].sclust = 0 /\ P[j].size = 0
    BY <1>0, <1>6 DEF Tables
  <2>2. \A k \in Slots \ {j} : P[k] = D[k]
    BY <1>3
  <2>3. Tables(fat, P) /\ \A x : Loose(fat, D, x) => Loose(fat, P, x)
    BY <1>3, <1>4, <2>1, <2>2, EmptyTables
  <2>4. QED
    BY <1>4, <1>5, <2>3, HeadsKept
<1>7. CASE c # 0
  <2>1. PICK E : E = [D EXCEPT ![j] = Erased]
    OBVIOUS
  <2>2. /\ TablesType(fat, E) /\ E[j] = Erased
        /\ \A k \in Slots \ {j} : E[k] = D[k]
    BY <1>0, <1>3, <2>1 DEF TablesType
  <2>3. Tables(fat, E) /\ \A x : Loose(fat, D, x) => Loose(fat, E, x)
    BY <1>0, <1>3, <1>4, <2>2, EmptyTables
  <2>4. Loose(fat, E, c)
    BY <1>4, <1>7, <2>3 DEF Detached
  <2>5. \A k \in Slots \ {j} : P[k] = E[k]
    BY <1>3, <2>2
  <2>6. E[j].sclust = 0 /\ P[j].sclust = c
    BY <1>0, <2>2
  <2>7. Tables(fat, P) /\ \A x : Loose(fat, E, x) /\ x # c => Loose(fat, P, x)
    BY <2>2, <2>3, <2>4, <2>5, <2>6, SaveTables
  <2>8. \A h \in Handles : Unsaved(D, fil[h]) /\ Loose(fat, D, fil[h].sclust)
                            => Loose(fat, P, fil[h].sclust)
    BY <1>4, <1>7, <2>3, <2>7 DEF Detached, Unsaved
  <2>9. QED
    BY <1>4, <1>5, <2>7, <2>8, HeadsKept
<1>8. QED
  BY <1>6, <1>7

LEMMA NameStepOwners == Scope /\ OwnersInv /\ NameStep => Owners'
<1> SUFFICES ASSUME Scope, OwnersInv, NameStep PROVE Owners'
  OBVIOUS
<1>0. /\ VolumeInv /\ Owners /\ RunHeads /\ Exclusive
      /\ TablesType(fat, dir) /\ fil \in [Handles -> Fil] /\ op \in Op /\ Locals
  BY InvTypes DEF OwnersInv, Owners, Scope
<1>1. ASSUME NEW n, LookUp(n), pc # "rename_remove" PROVE Owners'
  BY <1>0, <1>1, QuietOwners DEF LookUp
<1>2. ASSUME NEW n \in Names, Unlink(n) PROVE Owners'
  <2>0. /\ pc # "rename_remove" /\ Tables(fat, dir) /\ Heads(fat, dir, fil)
        /\ UNCHANGED <<fat, fil>>
    BY <1>0, <1>2, PrunedIsDir DEF Unlink, Ready, Owners
  <2>1. PICK i \in Found(n) :
          /\ MayChange(i)
          /\ dir' = [dir EXCEPT ![i] = Erased]
          /\ IF dir[i].sclust = 0
             THEN pc' = "sync" /\ op' = NoOp
             ELSE CallRemoveChain(i, dir[i].sclust, FALSE, "-", "sync")
    BY <1>2 DEF Unlink
  <2>2. i \in Slots /\ OpenOn(i) = {}
    BY <1>0, <2>1 DEF Found, MayChange
  <2>3. /\ TablesType(fat, dir') /\ dir'[i].sclust = 0 /\ dir'[i].size = 0
        /\ \A j \in Slots \ {i} : dir'[j] = dir[j]
    <3>1. Erased \in Entry /\ Erased.sclust = 0 /\ Erased.size = 0
      BY ErasedEntry DEF Erased
    <3>2. /\ VolumeInv /\ i \in Slots /\ dir' = [dir EXCEPT ![i] = Erased]
      BY <1>0, <2>1, <2>2
    <3>3. /\ TablesType(fat, dir') /\ dir'[i] = Erased
          /\ \A j \in Slots \ {i} : dir'[j] = dir[j]
      BY <3>1, <3>2, EntryPut
    <3>4. QED
      BY <3>1, <3>3
  <2>4. /\ Tables(fat, dir') /\ Heads(fat, dir', fil)
        /\ dir[i].sclust # 0 => Detached(fat, dir', fil, dir[i].sclust)
    BY <2>0, <2>2, <2>3, EntryEmptied
  <2>5. RunHeads' /\ Pruned' = dir'
    <3>1. CASE dir[i].sclust = 0
      BY <2>1, <3>1, SyncHeads DEF NoOp
    <3>2. CASE dir[i].sclust # 0
      <4>1. CallRemoveChain(i, dir[i].sclust, FALSE, "-", "sync")
        BY <2>1, <3>2
      <4>2. Detached(fat', dir', fil, dir[i].sclust)
        BY <2>0, <2>4, <3>2
      <4>3. QED
        BY <2>0, <4>1, <4>2, CallRemoveHeads
    <3>3. QED
      BY <3>1, <3>2
  <2>6. QED
    BY <2>0, <2>4, <2>5 DEF Owners
<1>3. ASSUME NEW from \in Names, NEW to \in Names, Rename(from, to) PROVE Owners'
  <2>0. /\ pc # "rename_remove" /\ Tables(fat, dir) /\ Heads(fat, dir, fil)
        /\ UNCHANGED <<fat, fil>> /\ "f_rename" \in Functions
    BY <1>0, <1>3, PrunedIsDir DEF Rename, Ready, Owners
  <2>1. PICK i \in Found(from), j \in Slots :
          /\ MayChange(i)
          /\ AllocSlot(j)
          /\ dir' = [dir EXCEPT ![j] = Renamed(dir[i], to)]
          /\ pc' = "rename_remove"
          /\ op' = [NoOp EXCEPT !.slot = i, !.from = from, !.to = to]
    BY <1>3 DEF Rename
  <2>2. i \in Slots /\ OpenOn(i) = {} /\ Live(dir, i)
    BY <1>0, <2>1 DEF Found, MayChange, Live
  <2>3. OpenOn(j) = {} /\ j # i
    BY <2>0, <2>1, <2>2, FreeSlotClosed
  <2>4. /\ Renamed(dir[i], to) \in Entry /\ Renamed(dir[i], to).sclust = dir[i].sclust
        /\ Renamed(dir[i], to).size = dir[i].size
    <3>1. dir[i] \in Entry
      BY <1>0, <2>2 DEF TablesType
    <3>2. QED
      BY <3>1 DEF Renamed, Entry
  <2>5. op'.slot = i /\ op'.to = to /\ to # "-"
    BY <2>1, VolumeAssumption DEF NoOp, VolumeAssumption
  <2>6. /\ TablesType(fat, dir') /\ dir'[j] = Renamed(dir[i], to)
        /\ \A k \in Slots \ {j} : dir'[k] = dir[k]
    BY <1>0, <2>1, <2>4, EntryPut
  <2>7. /\ Pruned'[i] = Erased /\ TablesType(fat, Pruned')
        /\ \A k \in Slots \ {i} : Pruned'[k] = dir'[k]
    BY <2>1, <2>2, <2>5, <2>6, ErasedEntry DEF Pruned, TablesType
  <2>8. \A k \in Slots \ {i, j} : Pruned'[k] = dir[k]
    BY <2>6, <2>7
  <2>9. Pruned'[j].sclust = dir[i].sclust /\ Pruned'[j].size = dir[i].size
    BY <2>3, <2>4, <2>6, <2>7
  <2>10. Tables(fat, Pruned') /\ Heads(fat, Pruned', fil)
    BY <2>0, <2>2, <2>3, <2>7, <2>8, <2>9, RenamedTables
  <2>11. /\ dir[i].sclust # 0 => fat[dir[i].sclust] # 0
         /\ dir[i].sclust = 0 => dir[i].size = 0
    BY <2>0, <2>2 DEF Tables, NoDanglingIn
  <2>12. dir'[i] = dir[i]
    BY <2>2, <2>3, <2>6
  <2>13. RunHeads'
    BY <2>0, <2>1, <2>2, <2>5, <2>11, <2>12 DEF RunHeads, Growing, OpenOn
  <2>14. QED
    BY <2>0, <2>10, <2>13 DEF Owners
<1>4. CASE RenameRemove
  <2>1. pc = "rename_remove" /\ op.to # "-" /\ UNCHANGED fil
    BY <1>0, <1>4 DEF RenameRemove, RunHeads
  <2>2. Faults = {}
    BY <1>0, <2>1, RenameScope
  <2>3. ~VisitFails({DirSector(op.slot)})
    BY <2>2 DEF VisitFails, WriteBackFails, LoadFails
  <2>4. /\ dir' = [dir EXCEPT ![op.slot] = Erased] /\ UNCHANGED fat
        /\ pc' = "sync" /\ op' = [op EXCEPT !.slot = 0]
    BY <1>4, <2>3 DEF RenameRemove
  <2>5. dir' = Pruned /\ op'.to = op.to
    BY <1>0, <2>1, <2>4 DEF Pruned, Op
  <2>6. RunHeads' /\ Pruned' = dir'
    BY <1>0, <2>4, <2>5, SyncHeads DEF RunHeads
  <2>7. QED
    BY <1>0, <2>1, <2>4, <2>5, <2>6 DEF Owners
<1>5. CASE GetFree
  BY <1>0, <1>5, QuietOwners DEF GetFree, Ready
<1>6. CASE GetFreeFails
  <2>1. pc # "rename_remove" /\ UNCHANGED fil /\ Finish
    BY <1>6 DEF GetFreeFails, Ready
  <2>2. PICK s \in 0 .. FatSize - 1 : VisitFails(0 .. s)
    BY <1>6 DEF GetFreeFails, VisitFails
  <2>3. QED
    BY <2>1, <2>2, VisitFailsOwners
<1>7. QED
  BY <1>1, <1>2, <1>3, <1>4, <1>5, <1>6
  DEF NameStep, UnlinkRefused, RenameRefused, Ready

-----------------------------------------------------------------------------
(* Mounting, unmounting and power loss; every step.                        *)

LEMMA AllClosed ==
    ASSUME NEW F, NEW D
    PROVE  Heads(F, D, [h \in Handles |-> ClosedFil])
BY DEF Heads, Agrees, Apart, ClosedFil

LEMMA DismountOwners == Scope /\ OwnersInv /\ (Unmount \/ PowerLoss) => Owners'
<1> SUFFICES ASSUME Scope, OwnersInv, Unmount \/ PowerLoss PROVE Owners'
  OBVIOUS
<1>1. ~(pc = "sync" /\ op.to # "-")
  BY RenameScope DEF Unmount, PowerLoss, OwnersInv, Owners
<1>2. /\ fat' = dfat /\ dir' = ddir /\ fil' = [h \in Handles |-> ClosedFil] /\ Finish
  BY DEF Unmount, PowerLoss, Dismount
<1>3. Tables(fat', dir')
  BY <1>1, <1>2 DEF OwnersInv, MediumTables, Tables
<1>4. Heads(fat', dir', fil')
  BY <1>2, AllClosed
<1>5. QED
  BY <1>2, <1>3, <1>4, FinishOwners

LEMMA UnchangedOwners ==
    ASSUME Owners, UNCHANGED <<fat, dir, fil, pc, op>>
    PROVE  Owners'
<1>1. Pruned' = Pruned
  BY DEF Pruned
<1>2. RunHeads'
  BY <1>1 DEF Owners, RunHeads, OpenOn
<1>3. QED
  BY <1>1, <1>2 DEF Owners

LEMMA OwnersStep == Scope /\ OwnersInv /\ [Next]_vars => OwnersInv'
<1> SUFFICES ASSUME Scope, OwnersInv, [Next]_vars PROVE OwnersInv'
  OBVIOUS
<1>1. VolumeInv'
  BY VolumeStep DEF OwnersInv
<1>2. MediumTables'
  BY MediumStep
<1>3. Owners'
  <2>1. CASE UNCHANGED vars
    BY <2>1, UnchangedOwners DEF vars, OwnersInv
  <2>2. CASE Mount
    BY <2>2, UnchangedOwners DEF Mount, store, OwnersInv
  <2>3. QED
    BY <2>1, <2>2, ChainStepOwners, OpenStepOwners, WriteStepOwners,
       SyncStepOwners, NameStepOwners, DismountOwners
    DEF Next
<1>4. QED
  BY <1>1, <1>2, <1>3 DEF OwnersInv

LEMMA OwnersInitially == Init => OwnersInv
<1> SUFFICES ASSUME Init PROVE OwnersInv
  OBVIOUS
<1>1. /\ fat = [c \in Clusters |-> IF c \in Root THEN EOC ELSE 0] /\ dfat = fat
      /\ dir = [i \in Slots |-> [name |-> End, sclust |-> 0, size |-> 0]] /\ ddir = dir
      /\ fil = [h \in Handles |-> ClosedFil] /\ pc = "idle" /\ op = NoOp
  BY DEF Init
<1>2. Tables(fat, dir)
  BY <1>1, ClusterNumbers DEF Tables, NoDanglingIn, NoCrossLinkIn
<1>3. Pruned = dir /\ RunHeads
  BY <1>1 DEF Pruned, RunHeads, Growing, NoOp
<1>4. Heads(fat, dir, fil)
  BY <1>1, AllClosed
<1>5. MediumTables
  BY <1>1, <1>2 DEF MediumTables, Tables
<1>6. QED
  BY <1>2, <1>3, <1>4, <1>5, VolumeInitially DEF OwnersInv, Owners

-----------------------------------------------------------------------------
(* The theorems.                                                           *)

(* Every state the code can reach satisfies the inductive invariant: each   *)
(* used cluster has at most one entry or link, none of them free, and every *)
(* open FIL agrees with its entry about the head of its chain.              *)
THEOREM OwnersInvariant == Scope => (Spec => []OwnersInv)
<1> SUFFICES ASSUME Scope PROVE Spec => []OwnersInv
  OBVIOUS
<1>1. OwnersInv /\ [Next]_vars => OwnersInv'
  BY OwnersStep
<1>2. QED
  BY <1>1, OwnersInitially, PTL DEF Spec

(* In no reachable state, whatever transfers fail and wherever power is    *)
(* lost, does an entry or a link point to a free cluster, in memory or on  *)
(* the medium: the next file that is given the cluster would share it.     *)
THEOREM NothingDangles == Scope => (Spec => []NoDangling)
<1> SUFFICES ASSUME Scope PROVE Spec => []NoDangling
  OBVIOUS
<1>1. OwnersInv => NoDangling
  <2> SUFFICES ASSUME OwnersInv PROVE NoDangling
    OBVIOUS
  <2>1. NoDanglingIn(dfat, ddir) /\ NoDanglingIn(fat, Pruned)
    BY DEF OwnersInv, Owners, MediumTables, Tables
  <2>2. CASE pc # "rename_remove"
    BY <2>1, <2>2, PrunedIsDir DEF NoDangling
  <2>3. CASE pc = "rename_remove"
    <3>1. op.slot \in Slots /\ TablesType(fat, dir)
      BY <2>3, InvTypes DEF OwnersInv, Locals
    <3>2. \A i \in Slots \ {op.slot} : Pruned[i] = dir[i]
      BY <2>3, <3>1 DEF Pruned, TablesType
    <3>3. NoDanglingIn(fat, dir)
      BY <2>1, <2>3, <3>2 DEF OwnersInv, Owners, RunHeads, NoDanglingIn
    <3>4. QED
      BY <2>1, <3>3 DEF NoDangling
  <2>4. QED
    BY <2>2, <2>3
<1>2. QED
  BY <1>1, OwnersInvariant, PTL

(* Between two file functions no cluster is in two chains, in memory or on *)
(* the medium: f_rename has two entries for one chain only inside its      *)
(* critical section, and undoes both copies of it before it returns.       *)
THEOREM FilesStayApart == Scope => (Spec => []FilesApart)
<1> SUFFICES ASSUME Scope PROVE Spec => []FilesApart
  OBVIOUS
<1>1. OwnersInv => FilesApart
  BY PrunedIsDir
  DEF OwnersInv, Owners, MediumTables, Tables, FilesApart, NoCrossLink
<1>2. QED
  BY <1>1, OwnersInvariant, PTL

(* And where f_rename is not called that holds in every state, so at every *)
(* point where power can be lost or a transfer can fail.                   *)
THEOREM NoChainsCross ==
    Exclusive /\ "f_rename" \notin Functions => (Spec => []NoCrossLink)
<1> SUFFICES ASSUME Exclusive, "f_rename" \notin Functions PROVE Spec => []NoCrossLink
  OBVIOUS
<1>1. OwnersInv => NoCrossLink
  BY PrunedIsDir
  DEF OwnersInv, Owners, MediumTables, Tables, NoCrossLink, RunHeads
<1>2. Scope
  BY DEF Scope
<1>3. QED
  BY <1>1, <1>2, OwnersInvariant, PTL

-----------------------------------------------------------------------------
(* Induction.  The library's induction theorems take the formula to prove  *)
(* as an operator; here it is a set of numbers, which the provers can      *)
(* instantiate.                                                            *)

(* A set of numbers has a least element: the initial segments they bound   *)
(* are well founded by inclusion.                                          *)
LEMMA Least ==
    ASSUME NEW T, T \subseteq Nat, T # {}
    PROVE  \E m \in T : \A k \in T : ~(k < m)
<1> DEFINE U == {0 .. k - 1 : k \in T}
<1>1. U \subseteq FiniteSubsetsOf(Nat)
  <2>1. ASSUME NEW k \in T
        PROVE  0 .. k - 1 \in SUBSET Nat /\ IsFiniteSet(0 .. k - 1)
    BY <2>1, FS_Interval
  <2>2. QED
    BY <2>1 DEF FiniteSubsetsOf
<1>2. U # {}
  OBVIOUS
<1> HIDE DEF U
<1>3. PICK X \in U : \A Y \in U : ~(<<Y, X>> \in StrictSubsetOrdering(Nat))
  BY <1>1, <1>2, WFMin, FS_StrictSubsetOrderingWellFounded
<1>4. PICK m \in T : X = 0 .. m - 1
  BY <1>3 DEF U
<1>5. ASSUME NEW k \in T, k < m PROVE FALSE
  <2>1. 0 .. k - 1 \in U
    BY DEF U
  <2>2. 0 .. k - 1 \in SUBSET Nat /\ X \in SUBSET Nat
    BY <1>4
  <2>3. 0 .. k - 1 \subseteq X
    BY <1>4, <1>5
  <2>4. k \in X /\ k \notin 0 .. k - 1
    BY <1>4, <1>5
  <2>5. <<0 .. k - 1, X>> \in StrictSubsetOrdering(Nat)
    BY <2>2, <2>3, <2>4 DEF StrictSubsetOrdering
  <2>6. QED
    BY <1>3, <2>1, <2>5
<1>6. QED
  BY <1>5

LEMMA Induction ==
    ASSUME NEW S, 0 \in S, \A n \in Nat : n \in S => n + 1 \in S
    PROVE  Nat \subseteq S
<1> SUFFICES ASSUME Nat \ S # {} PROVE FALSE
  OBVIOUS
<1>1. PICK m \in Nat \ S : \A k \in Nat \ S : ~(k < m)
  BY Least
<1>2. m # 0 /\ m - 1 \in Nat /\ m - 1 < m
  BY <1>1
<1>3. m - 1 \in S
  BY <1>1, <1>2
<1>4. QED
  BY <1>1, <1>2, <1>3

-----------------------------------------------------------------------------
(* Walks along a table.                                                    *)

Follow(F, c) == IF c \in Clusters THEN F[c] ELSE 0

(* Walk's recursion has a solution, so Walk is one.                        *)
LEMMA WalkDef ==
    ASSUME NEW F, NEW c
    PROVE  Walk(F, c) =
             [k \in 0 .. n_fatent |->
                IF k = 0 THEN c ELSE Follow(F, Walk(F, c)[k - 1])]
<1> DEFINE G(n) == \E g : g = [k \in 0 .. n |->
                                 IF k = 0 THEN c ELSE Follow(F, g[k - 1])]
           S == {n \in Nat : G(n)}
<1>1. 0 \in S
  <2> DEFINE g == [k \in 0 .. 0 |-> c]
  <2>1. g = [k \in 0 .. 0 |-> IF k = 0 THEN c ELSE Follow(F, g[k - 1])]
    OBVIOUS
  <2>2. QED
    BY <2>1
<1>2. ASSUME NEW n \in Nat, n \in S PROVE n + 1 \in S
  <2>1. PICK g : g = [k \in 0 .. n |-> IF k = 0 THEN c ELSE Follow(F, g[k - 1])]
    BY <1>2
  <2> DEFINE h == [k \in 0 .. n + 1 |->
                     IF k = n + 1 THEN Follow(F, g[n]) ELSE g[k]]
  <2>2. \A k \in 0 .. n : h[k] = g[k]
    OBVIOUS
  <2>3. ASSUME NEW k \in 0 .. n + 1
        PROVE  h[k] = IF k = 0 THEN c ELSE Follow(F, h[k - 1])
    <3>1. CASE k = 0
      <4>1. h[k] = g[k]
        BY <3>1
      <4>2. g[0] = c
        BY <2>1
      <4>3. QED
        BY <3>1, <4>1, <4>2
    <3>2. CASE k = n + 1
      BY <3>2, <2>2
    <3>3. CASE k # 0 /\ k # n + 1
      <4>1. k \in 0 .. n /\ k - 1 \in 0 .. n
        BY <3>3
      <4>2. g[k] = Follow(F, g[k - 1])
        BY <4>1, <2>1, <3>3
      <4>3. QED
        BY <4>1, <4>2, <2>2, <3>3
    <3>4. QED
      BY <3>1, <3>2, <3>3
  <2>4. h = [k \in 0 .. n + 1 |-> IF k = 0 THEN c ELSE Follow(F, h[k - 1])]
    <3> HIDE DEF h
    <3>1. h = [k \in 0 .. n + 1 |-> h[k]]
      BY DEF h
    <3>2. QED
      BY <2>3, <3>1
  <2>5. G(n + 1)
    <3> HIDE DEF h
    <3>1. QED
      BY <2>4
  <2> HIDE DEF G
  <2>6. QED
    BY <2>5
<1>3. n_fatent \in S
  <2> HIDE DEF S
  <2>1. n_fatent \in Nat
    BY VolumeAssumption DEF VolumeAssumption
  <2>2. QED
    BY <1>1, <1>2, <2>1, Induction
<1>4. PICK g : g = [k \in 0 .. n_fatent |->
                      IF k = 0 THEN c ELSE Follow(F, g[k - 1])]
  BY <1>3
<1>5. QED
  BY <1>4 DEF Walk, Follow

LEMMA WalkSteps ==
    ASSUME NEW F, NEW c
    PROVE  /\ Walk(F, c)[0] = c
           /\ \A k \in 1 .. n_fatent : Walk(F, c)[k] = Follow(F, Walk(F, c)[k - 1])
<1>1. n_fatent \in Nat
  BY VolumeAssumption DEF VolumeAssumption
<1>2. PICK w : w = Walk(F, c)
  OBVIOUS
<1>3. w = [k \in 0 .. n_fatent |-> IF k = 0 THEN c ELSE Follow(F, w[k - 1])]
  BY <1>2, WalkDef
<1>4. QED
  BY <1>1, <1>2, <1>3

(* Cluster x is the k-th of the chain that starts with c.                  *)
Walked(F, c, k, x) ==
    k \in 0 .. n_fatent /\ x \in Clusters /\ Walk(F, c)[k] = x

LEMMA WalkedFirst ==
    ASSUME NEW F, NEW c \in Clusters
    PROVE  Walked(F, c, 0, c)
BY WalkSteps, VolumeAssumption DEF Walked, VolumeAssumption

LEMMA WalkedNext ==
    ASSUME NEW F, NEW c, NEW k, NEW x, Walked(F, c, k, x), k < n_fatent,
           F[x] \in Clusters
    PROVE  Walked(F, c, k + 1, F[x])
<1>1. k + 1 \in 1 .. n_fatent /\ (k + 1) - 1 = k
  BY VolumeAssumption DEF Walked, VolumeAssumption
<1>2. Walk(F, c)[k + 1] = Follow(F, x)
  BY <1>1, WalkSteps DEF Walked
<1>3. QED
  BY <1>1, <1>2 DEF Walked, Follow

LEMMA WalkedBack ==
    ASSUME NEW F, NEW c, NEW k \in Nat, NEW y, Walked(F, c, k + 1, y)
    PROVE  \E x : Walked(F, c, k, x) /\ F[x] = y
<1>1. k + 1 \in 1 .. n_fatent /\ (k + 1) - 1 = k /\ k \in 0 .. n_fatent
  BY VolumeAssumption DEF Walked, VolumeAssumption
<1>2. PICK x : x = Walk(F, c)[k]
  OBVIOUS
<1>3. y = Follow(F, x) /\ y \in Clusters
  BY <1>1, <1>2, WalkSteps DEF Walked
<1>4. x \in Clusters /\ F[x] = y
  BY <1>3, ClusterNumbers DEF Follow
<1>5. QED
  BY <1>1, <1>2, <1>4 DEF Walked

(* A walk that is on a cluster has been on clusters all the way.           *)
LEMMA WalkedAll ==
    ASSUME NEW F, NEW c, NEW k, NEW x, Walked(F, c, k, x)
    PROVE  \A j \in 0 .. k : Walked(F, c, j, Walk(F, c)[j])
<1>1. k \in Nat /\ k <= n_fatent /\ n_fatent \in Nat
  BY VolumeAssumption DEF Walked, VolumeAssumption
<1> DEFINE S == {j \in Nat : j <= k => Walked(F, c, k - j, Walk(F, c)[k - j])}
<1>2. 0 \in S
  BY <1>1 DEF Walked
<1>3. ASSUME NEW j \in Nat, j \in S PROVE j + 1 \in S
  <2>1. CASE j + 1 <= k
    <3>1. Walked(F, c, k - j, Walk(F, c)[k - j])
      BY <1>1, <1>3, <2>1
    <3>2. PICK i \in Nat : i = k - (j + 1)
      BY <1>1, <2>1
    <3>3. k - j = i + 1
      BY <1>1, <3>2
    <3>4. PICK y : Walked(F, c, i, y)
      BY <3>1, <3>3, WalkedBack
    <3>5. Walked(F, c, i, Walk(F, c)[i])
      BY <3>4 DEF Walked
    <3>6. QED
      BY <3>2, <3>5
  <2>2. QED
    BY <1>1, <2>1
<1> HIDE DEF S
<1>4. Nat \subseteq S
  BY <1>2, <1>3, Induction
<1>5. ASSUME NEW j \in 0 .. k PROVE Walked(F, c, j, Walk(F, c)[j])
  <2>1. k - j \in S /\ k - j <= k /\ k - (k - j) = j
    BY <1>1, <1>4
  <2>2. QED
    BY <2>1 DEF S
<1>6. QED
  BY <1>5

(* A chain whose head is not linked to, along links that do not meet.      *)
Simple(F, c) ==
    /\ \A d \in Clusters : F[d] # c
    /\ \A d, e \in Clusters : F[d] = F[e] /\ d # e => F[d] \notin Clusters

(* Such a chain never comes back to a cluster ...                          *)
LEMMA WalkedOnce ==
    ASSUME NEW F, NEW c, Simple(F, c)
    PROVE  \A j, k \in Nat : \A x \in Clusters :
              Walked(F, c, j, x) /\ Walked(F, c, k, x) => j = k
<1> DEFINE S == {j \in Nat : \A k \in Nat : \A x \in Clusters :
                    Walked(F, c, j, x) /\ Walked(F, c, k, x) => j = k}
<1>1. ASSUME NEW k \in Nat, NEW x, Walked(F, c, k, x), x = c PROVE k = 0
  <2>1. ASSUME k # 0 PROVE FALSE
    <3>1. k - 1 \in Nat /\ (k - 1) + 1 = k
      BY <2>1
    <3>2. PICK y : Walked(F, c, k - 1, y) /\ F[y] = x
      BY <1>1, <3>1, WalkedBack
    <3>3. QED
      BY <1>1, <3>2 DEF Walked, Simple
  <2>2. QED
    BY <2>1
<1>2. 0 \in S
  BY <1>1, WalkSteps DEF Walked
<1>3. ASSUME NEW j \in Nat, j \in S PROVE j + 1 \in S
  <2>1. ASSUME NEW k \in Nat, NEW x \in Clusters,
               Walked(F, c, j + 1, x), Walked(F, c, k, x)
        PROVE  j + 1 = k
    <3>1. k # 0
      <4>1. ASSUME k = 0 PROVE FALSE
        <5>1. x = c
          BY <2>1, <4>1, WalkSteps DEF Walked
        <5>2. QED
          BY <1>1, <2>1, <5>1
      <4>2. QED
        BY <4>1
    <3>2. k - 1 \in Nat /\ (k - 1) + 1 = k
      BY <3>1
    <3>3. PICK y : Walked(F, c, j, y) /\ F[y] = x
      BY <2>1, WalkedBack
    <3>4. PICK z : Walked(F, c, k - 1, z) /\ F[z] = x
      BY <2>1, <3>2, WalkedBack
    <3>5. y = z /\ y \in Clusters
      BY <2>1, <3>3, <3>4 DEF Walked, Simple
    <3>6. j = k - 1
      BY <1>3, <3>2, <3>3, <3>4, <3>5
    <3>7. QED
      BY <3>2, <3>6
  <2>2. QED
    BY <2>1
<1> HIDE DEF S
<1>4. Nat \subseteq S
  BY <1>2, <1>3, Induction
<1>5. QED
  BY <1>4 DEF S

(* ... so it is no longer than there are clusters.                         *)
LEMMA WalkedShort ==
    ASSUME NEW F, NEW c, Simple(F, c), NEW k, NEW x, Walked(F, c, k, x)
    PROVE  k < n_fatent
<1>1. k \in Nat /\ n_fatent \in Nat /\ n_fatent > 3
  BY VolumeAssumption DEF Walked, VolumeAssumption
<1> DEFINE w == [j \in 0 .. k |-> Walk(F, c)[j]]
<1>2. w \in [0 .. k -> Clusters]
  BY WalkedAll DEF Walked
<1>3. /\ IsFiniteSet(0 .. k) /\ Cardinality(0 .. k) = k + 1
      /\ IsFiniteSet(Clusters) /\ Cardinality(Clusters) = n_fatent - 2
  BY <1>1, FS_Interval DEF Clusters
<1>4. \A i, j \in 0 .. k : w[i] = w[j] => i = j
  <2>1. ASSUME NEW i \in 0 .. k, NEW j \in 0 .. k, Walk(F, c)[i] = Walk(F, c)[j]
        PROVE  i = j
    <3>1. /\ Walked(F, c, i, Walk(F, c)[i]) /\ Walked(F, c, j, Walk(F, c)[i])
          /\ Walk(F, c)[i] \in Clusters /\ i \in Nat /\ j \in Nat
      BY <1>1, <2>1, WalkedAll DEF Walked
    <3>2. QED
      BY <3>1, WalkedOnce
  <2>2. QED
    BY <2>1
<1> HIDE DEF w
<1>5. ~(Cardinality(Clusters) < Cardinality(0 .. k))
  BY <1>2, <1>3, <1>4, FS_PigeonHole
<1>6. QED
  BY <1>1, <1>3, <1>5

(* A walk depends on the links it takes only, and takes none from c.       *)
LEMMA WalkedKept ==
    ASSUME NEW F, NEW G, NEW c, NEW s, s # c,
           \A d \in Clusters : F[d] # c,
           \A d \in Clusters \ {c} : F[d] \in Clusters => G[d] = F[d]
    PROVE  \A k, x : Walked(F, s, k, x) => Walked(G, s, k, x)
<1> DEFINE S == {k \in Nat : \A x \in Clusters :
                    Walked(F, s, k, x) => Walked(G, s, k, x) /\ x # c}
<1>1. 0 \in S
  BY WalkSteps DEF Walked
<1>2. ASSUME NEW k \in Nat, k \in S PROVE k + 1 \in S
  <2>1. ASSUME NEW x \in Clusters, Walked(F, s, k + 1, x)
        PROVE  Walked(G, s, k + 1, x) /\ x # c
    <3>1. PICK y : Walked(F, s, k, y) /\ F[y] = x
      BY <2>1, WalkedBack
    <3>2. y \in Clusters /\ Walked(G, s, k, y) /\ y # c
      BY <1>2, <3>1 DEF Walked
    <3>3. G[y] = x /\ k < n_fatent
      BY <2>1, <3>1, <3>2, VolumeAssumption DEF Walked, VolumeAssumption
    <3>4. QED
      BY <2>1, <3>1, <3>2, <3>3, WalkedNext
  <2>2. QED
    BY <2>1
<1> HIDE DEF S
<1>3. Nat \subseteq S
  BY <1>1, <1>2, Induction
<1>4. ASSUME NEW k, NEW x, Walked(F, s, k, x) PROVE Walked(G, s, k, x)
  <2>1. k \in Nat /\ x \in Clusters
    BY <1>4, VolumeAssumption DEF Walked, VolumeAssumption
  <2>2. QED
    BY <1>3, <1>4, <2>1 DEF S
<1>5. QED
  BY <1>4

(* The chain that starts with c has n clusters or more, all of them within *)
(* the domain of Walk.                                                     *)
Covered(F, c, n) == n <= n_fatent + 1 /\ HasLength(F, c, n)

LEMMA CoveredWalk ==
    ASSUME NEW F, NEW c, NEW n \in Nat
    PROVE  Covered(F, c, n) <=>
             \A k \in 0 .. n - 1 : \E x : Walked(F, c, k, x)
<1>1. n_fatent \in Nat
  BY VolumeAssumption DEF VolumeAssumption
<1>2. ASSUME Covered(F, c, n), NEW k \in 0 .. n - 1
      PROVE  Walked(F, c, k, Walk(F, c)[k])
  BY <1>1, <1>2 DEF Covered, HasLength, Walked
<1>3. ASSUME \A k \in 0 .. n - 1 : \E x : Walked(F, c, k, x)
      PROVE  Covered(F, c, n)
  <2>1. HasLength(F, c, n)
    BY <1>3 DEF HasLength, Walked
  <2>2. n = 0 \/ n - 1 \in 0 .. n_fatent
    <3>1. n # 0 => n - 1 \in 0 .. n - 1
      OBVIOUS
    <3>2. QED
      BY <1>3, <3>1 DEF Walked
  <2>3. QED
    BY <1>1, <2>1, <2>2 DEF Covered
<1>4. QED
  BY <1>2, <1>3

LEMMA CoveredNone == \A F, c : Covered(F, c, 0)
BY VolumeAssumption DEF Covered, HasLength, VolumeAssumption

LEMMA CoveredUpTo ==
    ASSUME NEW F, NEW c, NEW k, NEW x, Walked(F, c, k, x)
    PROVE  Covered(F, c, k + 1)
<1>1. k \in Nat /\ k + 1 \in Nat /\ (k + 1) - 1 = k
  BY VolumeAssumption DEF Walked, VolumeAssumption
<1>2. \A j \in 0 .. k : \E y : Walked(F, c, j, y)
  BY WalkedAll
<1>3. QED
  BY <1>1, <1>2, CoveredWalk

LEMMA CoveredKept ==
    ASSUME NEW F, NEW G, NEW s, NEW n \in Nat, Covered(F, s, n),
           \A k, x : Walked(F, s, k, x) => Walked(G, s, k, x)
    PROVE  Covered(G, s, n)
<1>1. \A k \in 0 .. n - 1 : \E x : Walked(F, s, k, x)
  BY CoveredWalk
<1>2. \A k \in 0 .. n - 1 : \E x : Walked(G, s, k, x)
  BY <1>1
<1>3. QED
  BY <1>2, CoveredWalk

-----------------------------------------------------------------------------
(* The invariant.                                                          *)

(* The function is in f_lseek's loop, or in create_chain for it.           *)
Seeking == \/ pc \in {"seek", "seek_got"}
           \/ pc \in {"create", "link"} /\ op.ret = "seek_got"

Covers(F, D) == \A i \in Slots : Covered(F, D[i].sclust, D[i].size)

(* The chain of a FIL covers its size, ...                                 *)
Fits(F, g) == g.open => Covered(F, g.sclust, g.fsize)

(* ... and its current cluster is the one before its offset, ...           *)
Stands(F, g) ==
    g.open /\ ~g.err /\ g.fptr > 0 => Walked(F, g.sclust, g.fptr - 1, g.clust)

(* ... but in f_lseek's loop the one at its offset.                        *)
Running ==
    /\ pc \in Growing \cup {"seek"} => ~fil[op.h].err
    /\ Seeking => Walked(fat, fil[op.h].sclust, fil[op.h].fptr, fil[op.h].clust)
    /\ pc \in {"create", "link"} /\ op.ret = "seek_got" => op.cl = fil[op.h].clust
    /\ pc \in {"create", "link"} /\ op.ret = "write_got" =>
          op.cl = IF fil[op.h].fptr = 0 THEN 0 ELSE fil[op.h].clust
    /\ pc = "write_got" /\ op.res = "ok" /\ fil[op.h].sclust # 0 =>
          Walked(fat, fil[op.h].sclust, fil[op.h].fptr, op.ncl)
    /\ pc = "seek_got" /\ op.res = "ok" => fat[fil[op.h].clust] = op.ncl

Chains ==
    /\ Covers(fat, dir)
    /\ \A h \in Handles : Fits(fat, fil[h])
    /\ \A h \in Handles : ~(Seeking /\ h = op.h) => Stands(fat, fil[h])
    /\ Running

ChainsInv == OwnersInv /\ Chains /\ Covers(dfat, ddir)

-----------------------------------------------------------------------------
(* What the steps have in common.                                          *)

LEMMA ChainsTypes ==
    ASSUME ChainsInv
    PROVE  /\ VolumeInv /\ Owners /\ RunHeads /\ Locals /\ Chains /\ Running
           /\ TablesType(fat, dir) /\ fil \in [Handles -> Fil] /\ op \in Op
           /\ \A i \in Slots : /\ dir[i] \in Entry /\ dir[i].size \in Nat
                               /\ dir[i].sclust \in {0} \cup Clusters
           /\ \A h \in Handles : /\ fil[h] \in Fil /\ fil[h].fptr \in Nat
                                 /\ fil[h].fsize \in Nat
                                 /\ fil[h].sclust \in {0} \cup Clusters
<1>1. VolumeInv /\ Owners /\ Chains
  BY DEF ChainsInv, OwnersInv
<1>2. /\ TablesType(fat, dir) /\ fil \in [Handles -> Fil] /\ op \in Op /\ Locals
      /\ \A i \in Slots : dir[i].sclust \in {0} \cup Clusters
  BY <1>1, InvTypes
<1>3. \A i \in Slots : dir[i] \in Entry /\ dir[i].size \in Nat
  BY <1>2, VolumeAssumption DEF TablesType, Entry, VolumeAssumption
<1>4. \A h \in Handles : /\ fil[h] \in Fil /\ fil[h].fptr \in Nat
                         /\ fil[h].fsize \in Nat
                         /\ fil[h].sclust \in {0} \cup Clusters
  BY <1>2, VolumeAssumption DEF Fil, VolumeAssumption
<1>5. QED
  BY <1>1, <1>2, <1>3, <1>4 DEF Owners, Chains

(* No link leads to the start of an open FIL's chain, and its clusters are *)
(* allocated.                                                              *)
LEMMA FilHead ==
    ASSUME OwnersInv, pc # "rename_remove", NEW h \in Handles,
           fil[h].open, fil[h].sclust # 0
    PROVE  /\ fil[h].sclust \in Clusters /\ fat[fil[h].sclust] # 0
           /\ Simple(fat, fil[h].sclust)
<1> DEFINE c == fil[h].sclust
<1>1. /\ Tables(fat, dir) /\ Heads(fat, dir, fil) /\ fil[h] \in Fil
      /\ fil[h].slot \in Slots
  BY OpenFilSlot, PrunedIsDir DEF OwnersInv, Owners
<1>2. c \in Clusters
  BY <1>1 DEF Fil
<1>3. CASE Unsaved(dir, fil[h])
  <2>1. Loose(fat, dir, c)
    BY <1>1, <1>3 DEF Heads, Agrees, Unsaved
  <2>2. QED
    BY <1>1, <1>2, <2>1 DEF Loose, Pointed, Simple, Tables, NoCrossLinkIn
<1>4. CASE ~Unsaved(dir, fil[h])
  <2>1. dir[fil[h].slot].sclust = c
    BY <1>1, <1>4 DEF Heads, Agrees, Unsaved
  <2>2. QED
    BY <1>1, <1>2, <2>1, ClusterNumbers
    DEF Simple, Tables, NoCrossLinkIn, NoDanglingIn
<1>5. QED
  BY <1>3, <1>4

LEMMA WalkedAllocated ==
    ASSUME OwnersInv, pc # "rename_remove", NEW h \in Handles,
           fil[h].open, fil[h].sclust # 0,
           NEW k, NEW x, Walked(fat, fil[h].sclust, k, x)
    PROVE  fat[x] # 0
<1>1. k \in Nat
  BY VolumeAssumption DEF Walked, VolumeAssumption
<1>2. CASE k = 0
  BY <1>2, FilHead, WalkSteps DEF Walked
<1>3. CASE k # 0
  <2>1. k - 1 \in Nat /\ (k - 1) + 1 = k
    BY <1>1, <1>3
  <2>2. PICK y : Walked(fat, fil[h].sclust, k - 1, y) /\ fat[y] = x
    BY <2>1, WalkedBack
  <2>3. NoDanglingIn(fat, dir)
    BY PrunedIsDir DEF OwnersInv, Owners, Tables
  <2>4. QED
    BY <2>2, <2>3 DEF NoDanglingIn, Walked
<1>4. QED
  BY <1>2, <1>3

(* The table changes, but no link and nothing of cluster c.                *)
LEMMA TableKept ==
    ASSUME ChainsInv, NEW G, NEW c,
           \A d \in Clusters : fat[d] # c,
           \A i \in Slots : dir[i].sclust # c,
           \A h \in Handles : fil[h].open => fil[h].sclust # c,
           \A d \in Clusters \ {c} : fat[d] \in Clusters => G[d] = fat[d]
    PROVE  /\ Covers(G, dir)
           /\ \A h \in Handles : Fits(G, fil[h])
           /\ \A h \in Handles : Stands(fat, fil[h]) => Stands(G, fil[h])
           /\ \A h \in Handles : fil[h].open =>
                 \A k, x : Walked(fat, fil[h].sclust, k, x)
                              => Walked(G, fil[h].sclust, k, x)
<1>0. /\ \A i \in Slots : dir[i].size \in Nat
      /\ \A h \in Handles : fil[h].fsize \in Nat
      /\ Chains
  BY ChainsTypes
<1>1. \A s : s # c => \A k, x : Walked(fat, s, k, x) => Walked(G, s, k, x)
  BY WalkedKept
<1>2. Covers(G, dir)
  BY <1>0, <1>1, CoveredKept DEF Chains, Covers
<1>3. ASSUME NEW h \in Handles, fil[h].open
      PROVE  \A k, x : Walked(fat, fil[h].sclust, k, x)
                              => Walked(G, fil[h].sclust, k, x)
  BY <1>1, <1>3
<1>4. ASSUME NEW h \in Handles PROVE Fits(G, fil[h])
  BY <1>0, <1>3, <1>4, CoveredKept DEF Chains, Fits
<1>5. QED
  BY <1>2, <1>3, <1>4 DEF Stands

(* The function returns.                                                   *)
LEMMA FinishChains ==
    ASSUME pc' \notin Growing \cup {"seek"}, Covers(fat', dir'),
           \A h \in Handles : Fits(fat', fil'[h]) /\ Stands(fat', fil'[h])
    PROVE  Chains'
BY DEF Chains, Running, Growing, Seeking

-----------------------------------------------------------------------------
(* create_chain and remove_chain.                                          *)

(* create_chain goes on or returns: the FILs stay what they are.           *)
LEMMA GrowingChains ==
    ASSUME ChainsInv, pc \in {"create", "link"}, UNCHANGED <<dir, fil>>,
           op'.h = op.h,
           \A d \in Clusters : fat[d] \in Clusters => fat'[d] = fat[d],
           \/ /\ pc' = "link" /\ op'.ret = op.ret /\ op'.cl = op.cl
           \/ /\ pc' = op.ret
              /\ op.ret = "write_got" /\ op'.res = "ok" /\ fil[op.h].sclust # 0 =>
                    Walked(fat', fil[op.h].sclust, fil[op.h].fptr, op'.ncl)
              /\ op.ret = "seek_got" /\ op'.res = "ok" =>
                    fat'[fil[op.h].clust] = op'.ncl
    PROVE  Chains'
<1>0. /\ Running /\ RunHeads /\ op.h \in Handles /\ TablesType(fat, dir)
      /\ op.ret \in {"write_got", "seek_first", "seek_got"} /\ Chains
      /\ \A h \in Handles : fil[h].sclust \in {0} \cup Clusters
      /\ \A i \in Slots : dir[i].sclust \in {0} \cup Clusters
  BY ChainsTypes DEF Locals, Pending
<1>1. /\ Covers(fat', dir)
      /\ \A h \in Handles : Fits(fat', fil[h])
      /\ \A h \in Handles : Stands(fat, fil[h]) => Stands(fat', fil[h])
      /\ \A h \in Handles : fil[h].open =>
            \A k, x : Walked(fat, fil[h].sclust, k, x)
                         => Walked(fat', fil[h].sclust, k, x)
  <2>1. Unknown \notin {0} \cup Clusters \cup {EOC}
    BY VolumeAssumption DEF Unknown, EOC, Clusters, VolumeAssumption
  <2>2. \A d \in Clusters : fat[d] # Unknown
    BY <1>0, <2>1 DEF TablesType
  <2>3. /\ \A i \in Slots : dir[i].sclust # Unknown
        /\ \A h \in Handles : fil[h].open => fil[h].sclust # Unknown
        /\ \A d \in Clusters \ {Unknown} : fat[d] \in Clusters => fat'[d] = fat[d]
    BY <1>0, <2>1
  <2>4. QED
    BY <2>2, <2>3, TableKept
<1>2. fil[op.h].open /\ ~fil[op.h].err
  BY <1>0 DEF RunHeads, Running, Growing
<1>3. Seeking' <=> Seeking
  BY <1>0 DEF Seeking
<1>4. Seeking => Walked(fat', fil[op.h].sclust, fil[op.h].fptr, fil[op.h].clust)
  BY <1>0, <1>1, <1>2 DEF Running
<1>5. Running'
  BY <1>0, <1>2, <1>3, <1>4 DEF Running
<1>6. \A h \in Handles : ~(Seeking /\ h = op.h) => Stands(fat', fil[h])
  BY <1>0, <1>1 DEF Chains
<1>7. QED
  BY <1>1, <1>3, <1>5, <1>6 DEF Chains

(* The FIL of f_write, whose current cluster is where the chain goes on.   *)
LEMMA WritingAt ==
    ASSUME ChainsInv, pc \in {"create", "link"}, op.ret = "write_got", op.cl # 0
    PROVE  /\ op.h \in Handles /\ fil[op.h].open /\ fil[op.h].sclust # 0
           /\ Walked(fat, fil[op.h].sclust, fil[op.h].fptr - 1, op.cl)
<1>0. /\ Running /\ RunHeads /\ op.h \in Handles /\ Chains
      /\ \A h \in Handles : fil[h].fptr \in Nat
  BY ChainsTypes DEF Locals, Pending
<1>1. /\ fil[op.h].open /\ ~fil[op.h].err /\ fil[op.h].sclust # 0
      /\ fil[op.h].fptr > 0 /\ op.cl = fil[op.h].clust
  BY <1>0 DEF RunHeads, Running, Growing
<1>2. ~Seeking
  BY DEF Seeking
<1>3. QED
  BY <1>0, <1>1, <1>2 DEF Chains, Stands

(* Where the chain goes on is short of the end of Walk's domain.           *)
LEMMA WritingNext ==
    ASSUME ChainsInv, pc \in {"create", "link"}, op.ret = "write_got", op.cl # 0,
           NEW G, Walked(G, fil[op.h].sclust, fil[op.h].fptr - 1, op.cl),
           G[op.cl] \in Clusters
    PROVE  Walked(G, fil[op.h].sclust, fil[op.h].fptr, G[op.cl])
<1>1. /\ op.h \in Handles /\ fil[op.h].open /\ fil[op.h].sclust # 0
      /\ Walked(fat, fil[op.h].sclust, fil[op.h].fptr - 1, op.cl)
  BY WritingAt
<1>2. Simple(fat, fil[op.h].sclust)
  BY <1>1, FilHead DEF ChainsInv
<1>3. PICK k : k = fil[op.h].fptr - 1
  OBVIOUS
<1>4. k < n_fatent
  BY <1>1, <1>2, <1>3, WalkedShort
<1>5. Walked(G, fil[op.h].sclust, k + 1, G[op.cl])
  BY <1>3, <1>4, WalkedNext
<1>6. k + 1 = fil[op.h].fptr
  BY <1>1, <1>3, ChainsTypes
<1>7. QED
  BY <1>5, <1>6

LEMMA ChainStepChains == ChainsInv /\ ChainStep => Chains'
<1> SUFFICES ASSUME ChainsInv, ChainStep PROVE Chains'
  OBVIOUS
<1>0. /\ Running /\ RunHeads /\ TablesType(fat, dir) /\ Chains /\ Locals
      /\ fil \in [Handles -> Fil] /\ op \in Op /\ VolumeInv
      /\ pc # "rename_remove" /\ UNCHANGED fil
  BY StepsStart, ChainsTypes DEF ChainStep
<1>1. ASSUME UNCHANGED <<fat, dir>>, pc \in {"create", "link"}, NEW res, NEW ncl,
             Return(res, ncl), res # "ok"
      PROVE  Chains'
  <2>1. op'.h = op.h /\ op'.res = res /\ pc' = op.ret
    BY <1>0, <1>1 DEF Return, Op
  <2>2. QED
    BY <1>0, <1>1, <2>1, GrowingChains
<1>2. CASE ChainFollowed
  <2>1. /\ pc = "create" /\ op.cl # 0 /\ fat[op.cl] \in Clusters
        /\ UNCHANGED <<fat, dir>> /\ Return("ok", fat[op.cl])
    BY <1>2 DEF ChainFollowed
  <2>2. op'.h = op.h /\ op'.ncl = fat[op.cl] /\ pc' = op.ret
    BY <1>0, <2>1 DEF Return, Op
  <2>3. op.ret = "write_got" =>
          Walked(fat, fil[op.h].sclust, fil[op.h].fptr, fat[op.cl])
    BY <2>1, WritingAt, WritingNext
  <2>4. op.ret = "seek_got" => fat[fil[op.h].clust] = fat[op.cl]
    BY <1>0, <2>1 DEF Running
  <2>5. QED
    BY <1>0, <2>1, <2>2, <2>3, <2>4, GrowingChains
<1>3. CASE ChainBroken
  BY <1>1, <1>3 DEF ChainBroken
<1>4. CASE ChainMark
  <2>1. PICK k \in 1 .. ScanLength :
          LET ncl == Scanned(ScanStart(op.cl), k) IN
          /\ fat[ncl] = 0
          /\ fat' = [fat EXCEPT ![ncl] = EOC]
          /\ IF op.cl = 0
             THEN Return("ok", ncl)
             ELSE pc' = "link" /\ op' = [op EXCEPT !.ncl = ncl]
    BY <1>4 DEF ChainMark
  <2>2. pc = "create" /\ UNCHANGED dir
    BY <1>4 DEF ChainMark
  <2>3. \A d \in Clusters : fat[d] \in Clusters => fat'[d] = fat[d]
    BY <1>0, <2>1, ClusterNumbers DEF TablesType
  <2>4. CASE op.cl = 0
    <3>1. op'.h = op.h /\ pc' = op.ret
      BY <1>0, <2>1, <2>4 DEF Return, Op
    <3>2. fil[op.h].sclust = 0 /\ op.ret # "seek_got"
      BY <1>0, <2>2, <2>4 DEF RunHeads
    <3>3. QED
      BY <1>0, <2>2, <2>3, <3>1, <3>2, GrowingChains
  <2>5. CASE op.cl # 0
    <3>1. op'.h = op.h /\ op'.ret = op.ret /\ op'.cl = op.cl /\ pc' = "link"
      BY <1>0, <2>1, <2>5 DEF Op
    <3>2. QED
      BY <1>0, <2>2, <2>3, <3>1, GrowingChains
  <2>6. QED
    BY <2>4, <2>5
<1>5. CASE ChainFull
  BY <1>1, <1>5 DEF ChainFull
<1>6. CASE ChainLink
  <2>1. /\ pc = "link" /\ fat' = [fat EXCEPT ![op.cl] = op.ncl] /\ UNCHANGED dir
        /\ Return("ok", op.ncl)
    BY <1>6 DEF ChainLink
  <2>2. /\ op.cl \in Clusters /\ op.ncl \in Clusters /\ op.cl # 0
        /\ fat[op.cl] = EOC
    BY <1>0, <2>1, ClusterNumbers DEF Locals, RunHeads
  <2>3. /\ fat'[op.cl] = op.ncl
        /\ \A d \in Clusters : fat[d] \in Clusters => fat'[d] = fat[d]
    BY <1>0, <2>1, <2>2, ClusterNumbers DEF TablesType
  <2>4. op'.h = op.h /\ op'.ncl = op.ncl /\ pc' = op.ret
    BY <1>0, <2>1 DEF Return, Op
  <2>5. op.ret = "write_got" =>
          Walked(fat', fil[op.h].sclust, fil[op.h].fptr, op.ncl)
    <3>1. ASSUME op.ret = "write_got"
          PROVE  Walked(fat', fil[op.h].sclust, fil[op.h].fptr, op.ncl)
      <4>1. Walked(fat, fil[op.h].sclust, fil[op.h].fptr - 1, op.cl)
        BY <2>1, <2>2, <3>1, WritingAt
      <4>2. /\ \A d \in Clusters : fat[d] # Unknown
            /\ fil[op.h].sclust # Unknown
        <5>1. Unknown \notin {0} \cup Clusters \cup {EOC}
          BY VolumeAssumption DEF Unknown, EOC, Clusters, VolumeAssumption
        <5>2. fil[op.h].sclust \in {0} \cup Clusters
          BY <2>1, <2>2, <3>1, WritingAt, ChainsTypes
        <5>3. QED
          BY <1>0, <5>1, <5>2 DEF TablesType
      <4>3. \A k, x : Walked(fat, fil[op.h].sclust, k, x)
                        => Walked(fat', fil[op.h].sclust, k, x)
        <5>1. PICK s : s = fil[op.h].sclust
          OBVIOUS
        <5>2. PICK G : G = fat'
          OBVIOUS
        <5>3. /\ s # Unknown /\ \A d \in Clusters : fat[d] # Unknown
              /\ \A d \in Clusters \ {Unknown} :
                    fat[d] \in Clusters => G[d] = fat[d]
          BY <2>3, <4>2, <5>1, <5>2
        <5>4. \A k, x : Walked(fat, s, k, x) => Walked(G, s, k, x)
          BY <5>3, WalkedKept
        <5>5. QED
          BY <5>1, <5>2, <5>4
      <4>4. Walked(fat', fil[op.h].sclust, fil[op.h].fptr - 1, op.cl)
        BY <4>1, <4>3
      <4>5. QED
        BY <2>1, <2>2, <2>3, <3>1, <4>4, WritingNext
    <3>2. QED
      BY <3>1
  <2>6. op.ret = "seek_got" => fat'[fil[op.h].clust] = op.ncl
    BY <1>0, <2>1, <2>3 DEF Running
  <2>7. QED
    BY <1>0, <2>1, <2>3, <2>4, <2>5, <2>6, GrowingChains
<1>7. CASE ChainFails
  <2>1. UNCHANGED <<fat, dir>>
    BY <1>0, <1>7, VisitFailsStore DEF ChainFails
  <2>2. QED
    BY <1>1, <1>7, <2>1 DEF ChainFails
<1>8. ASSUME pc = "remove", UNCHANGED dir, pc' \notin Growing \cup {"seek"},
             \A d \in Clusters \ {op.cl} : fat'[d] = fat[d]
      PROVE  Chains'
  <2>1. Detached(fat, dir, fil, op.cl) /\ op.cl \in Clusters
    BY <1>0, <1>8, PrunedIsDir DEF RunHeads, Locals
  <2>2. /\ Covers(fat', dir)
        /\ \A h \in Handles : Fits(fat', fil[h])
        /\ \A h \in Handles : Stands(fat, fil[h]) => Stands(fat', fil[h])
    BY <1>8, <2>1, TableKept DEF Detached, Loose, Pointed
  <2>3. \A h \in Handles : Stands(fat, fil[h])
    BY <1>0, <1>8 DEF Chains, Seeking
  <2>4. QED
    BY <1>0, <1>8, <2>2, <2>3, FinishChains
<1>9. pc = "remove" => op.ret \in {"open_back", "sync"}
  BY <1>0 DEF Locals
<1>10. CASE RemoveLink
  <2>1. /\ pc = "remove" /\ fat' = [fat EXCEPT ![op.cl] = 0] /\ UNCHANGED dir
        /\ pc' \in {"remove", op.ret}
    BY <1>10 DEF RemoveLink, Goto
  <2>2. \A d \in Clusters \ {op.cl} : fat'[d] = fat[d]
    BY <1>0, <2>1 DEF TablesType
  <2>3. QED
    BY <1>8, <1>9, <2>1, <2>2 DEF Growing
<1>11. CASE RemoveStops
  BY <1>8, <1>9, <1>11 DEF RemoveStops, Goto, Growing
<1>12. CASE RemoveFails
  <2>1. UNCHANGED <<fat, dir>>
    BY <1>0, <1>12, VisitFailsStore DEF RemoveFails
  <2>2. QED
    BY <1>8, <1>12, <2>1 DEF RemoveFails, Finish, Growing
<1>13. QED
  BY <1>2, <1>3, <1>4, <1>5, <1>6, <1>7, <1>10, <1>11, <1>12 DEF ChainStep

-----------------------------------------------------------------------------
(* f_open.                                                                 *)

(* A FIL changes, the tables do not.                                       *)
LEMMA FilChains ==
    ASSUME ChainsInv, UNCHANGED <<fat, dir>>, NEW h \in Handles, NEW g,
           fil' = [fil EXCEPT ![h] = g], Seeking => h = op.h, Fits(fat, g),
           (Seeking' /\ op'.h = h) \/ Stands(fat, g), Running'
    PROVE  Chains'
<1>0. Chains /\ fil \in [Handles -> Fil]
  BY ChainsTypes
<1>1. fil'[h] = g /\ \A k \in Handles \ {h} : fil'[k] = fil[k]
  BY <1>0
<1>2. \A k \in Handles : Fits(fat', fil'[k])
  BY <1>0, <1>1 DEF Chains
<1>3. \A k \in Handles : ~(Seeking' /\ k = op'.h) => Stands(fat', fil'[k])
  BY <1>0, <1>1 DEF Chains
<1>4. QED
  BY <1>0, <1>2, <1>3 DEF Chains, Covers

(* Nothing changes but the step.                                           *)
LEMMA QuietChains ==
    ASSUME ChainsInv, ~Seeking, UNCHANGED <<fat, dir, fil>>,
           pc' \notin Growing \cup {"seek"}
    PROVE  Chains'
BY ChainsTypes, FinishChains DEF Chains

LEMMA VisitFailsChains ==
    ASSUME ChainsInv, ~Seeking, NEW S, VisitFails(S), Finish, UNCHANGED fil
    PROVE  Chains'
<1>1. UNCHANGED <<fat, dir>>
  BY ChainsTypes, VisitFailsStore
<1>2. QED
  BY <1>1, QuietChains DEF Finish, Growing

(* An entry changes that covers its size still.                            *)
LEMMA EntryCovers ==
    ASSUME ChainsInv, NEW i \in Slots, NEW e, dir' = [dir EXCEPT ![i] = e],
           UNCHANGED fat, Covered(fat, e.sclust, e.size)
    PROVE  Covers(fat', dir')
<1>0. Covers(fat, dir) /\ dir \in [Slots -> Entry]
  BY ChainsTypes DEF Chains, TablesType
<1>1. QED
  BY <1>0 DEF Covers

LEMMA EntryChains ==
    ASSUME ChainsInv, ~Seeking, NEW i \in Slots, NEW e, dir' = [dir EXCEPT ![i] = e],
           UNCHANGED <<fat, fil>>, Covered(fat, e.sclust, e.size),
           pc' \notin Growing \cup {"seek"}
    PROVE  Chains'
BY ChainsTypes, EntryCovers, FinishChains DEF Chains

(* A FIL is opened.                                                        *)
LEMMA OpenedChains ==
    ASSUME ChainsInv, ~Seeking, Covers(fat', dir'), UNCHANGED fat, Finish,
           NEW h \in Handles, NEW i, NEW write, NEW created, NEW c, NEW z,
           fil' = [fil EXCEPT ![h] = NewFil(i, write, created, c, z)],
           Covered(fat, c, z)
    PROVE  Chains'
<1>0. Chains /\ fil \in [Handles -> Fil]
  BY ChainsTypes
<1>1. PICK g : g = NewFil(i, write, created, c, z)
  OBVIOUS
<1>2. g.sclust = c /\ g.fptr = 0 /\ g.fsize = z
  BY <1>1, NewFilFields
<1>3. \A k \in Handles : fil'[k] = IF k = h THEN g ELSE fil[k]
  BY <1>0, <1>1
<1>4. \A k \in Handles : Fits(fat', fil'[k]) /\ Stands(fat', fil'[k])
  BY <1>0, <1>2, <1>3 DEF Chains, Fits, Stands
<1>5. QED
  BY <1>4, FinishChains DEF Finish, Growing

LEMMA OpenStepChains == ChainsInv /\ OpenStep => Chains'
<1> SUFFICES ASSUME ChainsInv, OpenStep PROVE Chains'
  OBVIOUS
<1>0. /\ ~Seeking /\ Chains /\ Locals /\ VolumeInv /\ Covers(fat, dir)
      /\ TablesType(fat, dir) /\ fil \in [Handles -> Fil]
  BY StepsStart, ChainsTypes DEF Seeking, Chains
<1>1. ASSUME NEW n, LookUp(n) PROVE Chains'
  BY <1>0, <1>1, QuietChains DEF LookUp, Finish, Growing
<1>2. ASSUME NEW n, LookUpFails(n) PROVE Chains'
  BY <1>0, <1>2, VisitFailsChains DEF LookUpFails
<1>3. ASSUME NEW h \in Handles, NEW n \in Names, NEW mode, NEW write \in BOOLEAN,
             OpenExisting(h, n, mode, write)
      PROVE  Chains'
  <2>1. PICK i \in Found(n) :
          fil' = [fil EXCEPT ![h] =
                    NewFil(i, write, FALSE, dir[i].sclust, dir[i].size)]
    BY <1>3 DEF OpenExisting
  <2>2. UNCHANGED <<fat, dir>> /\ Finish
    BY <1>3 DEF OpenExisting
  <2>3. Covers(fat', dir') /\ Covered(fat, dir[i].sclust, dir[i].size)
    BY <1>0, <2>1, <2>2 DEF Covers, Found
  <2>4. QED
    BY <1>0, <2>1, <2>2, <2>3, OpenedChains
<1>4. ASSUME NEW h \in Handles, NEW n \in Names, NEW mode, OpenCreate(h, n, mode)
      PROVE  Chains'
  <2> DEFINE e == [name |-> n, sclust |-> 0, size |-> 0]
  <2>1. PICK i \in Slots :
          /\ dir' = [dir EXCEPT ![i] = e]
          /\ fil' = [fil EXCEPT ![h] = NewFil(i, TRUE, TRUE, 0, 0)]
    BY <1>4 DEF OpenCreate
  <2>2. UNCHANGED fat /\ Finish
    BY <1>4 DEF OpenCreate
  <2>3. Covered(fat, 0, 0) /\ e.sclust = 0 /\ e.size = 0
    BY CoveredNone
  <2> HIDE DEF e
  <2>4. Covers(fat', dir')
    BY <2>1, <2>2, <2>3, EntryCovers
  <2>5. QED
    BY <1>0, <2>1, <2>2, <2>3, <2>4, OpenedChains
<1>5. ASSUME NEW h \in Handles, NEW n \in Names, OpenTruncate(h, n)
      PROVE  Chains'
  <2>1. PICK i \in Found(n) :
          /\ dir' = [dir EXCEPT ![i] = Resized(@, 0, 0)]
          /\ IF dir[i].sclust = 0
             THEN Finish /\ fil' = [fil EXCEPT ![h] = NewFil(i, TRUE, TRUE, 0, 0)]
             ELSE /\ CallRemoveChain(i, dir[i].sclust, TRUE, h, "open_back")
                  /\ UNCHANGED fil
    BY <1>5 DEF OpenTruncate
  <2>2. UNCHANGED fat /\ i \in Slots
    BY <1>5 DEF OpenTruncate, Found
  <2>3. PICK e : e = Resized(dir[i], 0, 0)
    OBVIOUS
  <2>4. e.sclust = 0 /\ e.size = 0 /\ Covered(fat, 0, 0)
    BY <2>2, <2>3, CoveredNone, ChainsTypes DEF Resized, Entry
  <2>5. dir' = [dir EXCEPT ![i] = e]
    BY <2>1, <2>3
  <2>6. Covers(fat', dir')
    BY <2>2, <2>4, <2>5, EntryCovers
  <2>7. CASE dir[i].sclust = 0
    BY <1>0, <2>1, <2>2, <2>4, <2>6, <2>7, OpenedChains
  <2>8. CASE dir[i].sclust # 0
    <3>1. UNCHANGED fil /\ pc' \notin Growing \cup {"seek"}
      BY <2>1, <2>8 DEF CallRemoveChain, Growing
    <3>2. QED
      BY <1>0, <2>2, <2>4, <2>5, <3>1, EntryChains
  <2>9. QED
    BY <2>7, <2>8
<1>6. CASE OpenBack
  <2>1. CASE VisitFails({DirSector(op.slot)}) /\ UNCHANGED fil
    BY <1>0, <1>6, <2>1, VisitFailsChains DEF OpenBack
  <2>2. CASE fil' = [fil EXCEPT ![op.h] = NewFil(op.slot, TRUE, TRUE, 0, 0)]
    <3>1. op.h \in Handles /\ UNCHANGED <<fat, dir>> /\ Finish
      BY <1>0, <1>6 DEF OpenBack, Locals, Opening
    <3>2. Covers(fat', dir') /\ Covered(fat, 0, 0)
      BY <1>0, <3>1, CoveredNone DEF Covers
    <3>3. QED
      BY <1>0, <2>2, <3>1, <3>2, OpenedChains
  <2>3. QED
    BY <1>6, <2>1, <2>2 DEF OpenBack
<1>7. QED
  BY <1>1, <1>2, <1>3, <1>4, <1>5, <1>6 DEF OpenStep, Stat, OpenRefused

-----------------------------------------------------------------------------
(* f_write and f_lseek.                                                    *)

(* The FIL stays and create_chain is called, or its cluster is at hand.    *)
LEMMA CalledChains ==
    ASSUME ChainsInv, UNCHANGED <<fat, dir, fil>>, Running',
           Seeking => Seeking' /\ op'.h = op.h
    PROVE  Chains'
BY ChainsTypes DEF Chains, Covers

(* The FIL is no longer than the chain, after it has come to a cluster.    *)
LEMMA FurtherCovered ==
    ASSUME NEW F, NEW c, NEW k, NEW x, Walked(F, c, k, x), NEW z, Covered(F, c, z)
    PROVE  Covered(F, c, IF k < z THEN z ELSE k + 1)
BY CoveredUpTo

LEMMA AbortedChains ==
    ASSUME ChainsInv, UNCHANGED <<fat, dir>>, NEW h \in Handles,
           fil' = [fil EXCEPT ![h] = Aborted(fil[h])], Seeking => h = op.h, Finish
    PROVE  Chains'
<1>0. Chains /\ fil[h] \in Fil
  BY ChainsTypes
<1>1. PICK g : g = Aborted(fil[h])
  OBVIOUS
<1>2. g.open = fil[h].open /\ g.sclust = fil[h].sclust /\ g.fsize = fil[h].fsize
      /\ g.err
  BY <1>0, <1>1, AbortedFields
<1>3. Fits(fat, g) /\ Stands(fat, g)
  BY <1>0, <1>2 DEF Chains, Fits, Stands
<1>4. Running'
  BY DEF Finish, Running, Seeking, Growing
<1>5. fil' = [fil EXCEPT ![h] = g]
  BY <1>1
<1>6. QED
  BY <1>3, <1>4, <1>5, FilChains

(* f_lseek has come to its offset.                                         *)
LEMMA ArrivedChains ==
    ASSUME ChainsInv, UNCHANGED <<fat, dir>>, Seeking, op.h \in Handles, fil[op.h].open,
           fil' = [fil EXCEPT ![op.h] = Arrived(fil[op.h])], Finish
    PROVE  Chains'
<1> DEFINE f == fil[op.h]
<1>0. Chains /\ Running /\ f \in Fil /\ f.fptr \in Nat
  BY ChainsTypes
<1>1. PICK g : g = Arrived(f)
  OBVIOUS
<1>2. /\ g.open = f.open /\ g.sclust = f.sclust /\ g.clust = f.clust
      /\ g.fptr = f.fptr + 1
      /\ g.fsize = IF f.fptr < f.fsize THEN f.fsize ELSE f.fptr + 1
  BY <1>0, <1>1, ArrivedFields
<1>3. Walked(fat, f.sclust, f.fptr, f.clust) /\ Covered(fat, f.sclust, f.fsize)
  BY <1>0 DEF Running, Chains, Fits
<1>4. Fits(fat, g)
  BY <1>2, <1>3, FurtherCovered DEF Fits
<1>5. Stands(fat, g)
  BY <1>0, <1>2, <1>3 DEF Stands
<1>6. Running'
  BY DEF Finish, Running, Seeking, Growing
<1>7. fil' = [fil EXCEPT ![op.h] = g]
  BY <1>1
<1>8. QED
  BY <1>4, <1>5, <1>6, <1>7, FilChains

(* f_lseek goes on from the next cluster.                                  *)
LEMMA OneFurtherChains ==
    ASSUME ChainsInv, UNCHANGED <<fat, dir>>, pc \in {"seek", "seek_got"},
           op.h \in Handles, fil[op.h].open, fil[op.h].sclust # 0,
           NEW c \in Clusters, fat[fil[op.h].clust] = c,
           fil' = [fil EXCEPT ![op.h] = OneFurther(fil[op.h], c)],
           pc' = "seek", op'.h = op.h
    PROVE  Chains'
<1> DEFINE f == fil[op.h]
<1>0. Chains /\ Running /\ f \in Fil /\ f.fptr \in Nat /\ fil \in [Handles -> Fil]
  BY ChainsTypes
<1>1. PICK g : g = OneFurther(f, c)
  OBVIOUS
<1>2. /\ g.open = f.open /\ g.sclust = f.sclust /\ g.clust = c /\ g.err = f.err
      /\ g.fptr = f.fptr + 1 /\ g.fsize = f.fsize
  BY <1>0, <1>1, OneFurtherFields, Zenon
<1>3. Walked(fat, f.sclust, f.fptr, f.clust) /\ Fits(fat, f) /\ ~f.err
  BY <1>0 DEF Running, Seeking, Chains, Growing
<1>4. f.fptr < n_fatent
  BY <1>3, FilHead, WalkedShort DEF ChainsInv
<1>5. Walked(fat, g.sclust, g.fptr, g.clust)
  BY <1>2, <1>3, <1>4, WalkedNext
<1>6. Fits(fat, g)
  BY <1>2, <1>3 DEF Fits
<1>7. fil' = [fil EXCEPT ![op.h] = g] /\ fil'[op'.h] = g
  BY <1>0, <1>1
<1>8. Running' /\ Seeking'
  BY <1>2, <1>3, <1>5, <1>7 DEF Running, Seeking, Growing
<1>9. QED
  BY <1>6, <1>7, <1>8, FilChains

LEMMA WriteGotChains == ChainsInv /\ WriteGot => Chains'
<1> SUFFICES ASSUME ChainsInv, WriteGot PROVE Chains'
  OBVIOUS
<1> DEFINE h == op.h
           f == fil[h]
           placed == [f EXCEPT !.clust = op.ncl,
                               !.sclust = IF @ = 0 THEN op.ncl ELSE @]
           done == [placed EXCEPT !.fptr = @ + 1,
                                  !.fsize = IF f.fptr < @ THEN @ ELSE f.fptr + 1,
                                  !.written = TRUE]
           full == [f EXCEPT !.written = TRUE]
<1>0. /\ Chains /\ Running /\ RunHeads /\ Locals /\ Owners /\ pc = "write_got"
      /\ fil \in [Handles -> Fil] /\ op \in Op
  BY ChainsTypes DEF WriteGot
<1>1. /\ h \in Handles /\ f.open /\ f \in Fil /\ f.fptr \in Nat /\ f.fsize \in Nat
      /\ op.res = "ok" => op.ncl \in Clusters
      /\ f.fptr > 0 \/ f.fsize # 0 => f.sclust # 0
      /\ ~Seeking /\ Fits(fat, f) /\ Stands(fat, f)
      /\ UNCHANGED <<fat, dir>> /\ Finish
  <2>1. h \in Handles /\ f.open /\ (op.res = "ok" => op.ncl \in Clusters)
    BY <1>0 DEF RunHeads, Growing, Locals, Pending
  <2>2. ~Seeking
    BY <1>0 DEF Seeking
  <2>3. UNCHANGED <<fat, dir>> /\ Finish
    BY DEF WriteGot, store
  <2>4. f.fptr > 0 \/ f.fsize # 0 => f.sclust # 0
    BY <1>0, <2>1 DEF Owners, Heads, Agrees
  <2>5. QED
    BY <1>0, <2>1, <2>2, <2>3, <2>4, ChainsTypes DEF Chains
<1>2. PICK g : /\ fil' = [fil EXCEPT ![h] = g]
               /\ \/ op.res = "ok" /\ (g = done \/ g = Aborted(placed))
                  \/ g = full \/ g = Aborted(f)
  BY DEF WriteGot
<1>3. Running'
  BY <1>1 DEF Finish, Running, Seeking, Growing
<1>4. CASE op.res = "ok" /\ (g = done \/ g = Aborted(placed))
  <2>1. PICK c : c = IF f.sclust = 0 THEN op.ncl ELSE f.sclust
    OBVIOUS
  <2>2. Walked(fat, c, f.fptr, op.ncl)
    BY <1>0, <1>1, <1>4, <2>1, WalkedFirst DEF Running
  <2>3. Covered(fat, c, f.fsize)
    BY <1>1, <2>1, CoveredNone DEF Fits
  <2>4. CASE g = done
    <3>1. /\ g.sclust = c /\ g.clust = op.ncl /\ g.fptr = f.fptr + 1
          /\ g.fsize = IF f.fptr < f.fsize THEN f.fsize ELSE f.fptr + 1
      BY <1>1, <2>1, <2>4 DEF Fil
    <3>2. Fits(fat, g)
      BY <2>2, <2>3, <3>1, FurtherCovered DEF Fits
    <3>3. Stands(fat, g)
      BY <1>1, <2>2, <3>1 DEF Stands
    <3>4. QED
      BY <1>1, <1>2, <1>3, <3>2, <3>3, FilChains
  <2>5. CASE g = Aborted(placed)
    <3>1. g.sclust = c /\ g.fsize = f.fsize /\ g.err
      BY <1>1, <2>1, <2>5 DEF Fil, Aborted
    <3>2. Fits(fat, g) /\ Stands(fat, g)
      BY <2>3, <3>1 DEF Fits, Stands
    <3>3. QED
      BY <1>1, <1>2, <1>3, <3>2, FilChains
  <2>6. QED
    BY <1>4, <2>4, <2>5
<1>5. CASE g = full
  <2>1. /\ g.open = f.open /\ g.sclust = f.sclust /\ g.fptr = f.fptr
        /\ g.fsize = f.fsize /\ g.clust = f.clust /\ g.err = f.err
    BY <1>1, <1>5 DEF Fil
  <2>2. Fits(fat, g) /\ Stands(fat, g)
    BY <1>1, <2>1 DEF Fits, Stands
  <2>3. QED
    BY <1>1, <1>2, <1>3, <2>2, FilChains
<1>6. CASE g = Aborted(f)
  BY <1>1, <1>2, <1>6, AbortedChains
<1>7. QED
  BY <1>2, <1>4, <1>5, <1>6

LEMMA SeekStartChains ==
    ASSUME ChainsInv, NEW h \in Handles, NEW to \in 0 .. MaxSize, SeekStart(h, to)
    PROVE  Chains'
<1> DEFINE f == fil[h]
           ofs == IF to > f.fsize /\ ~f.write THEN f.fsize ELSE to
           rewound == [f EXCEPT !.fptr = 0]
           back == [f EXCEPT !.fptr = f.fptr - 1]
           first == [f EXCEPT !.fptr = 0, !.clust = f.sclust]
<1>0. /\ Chains /\ f \in Fil /\ f.fptr \in Nat /\ fil \in [Handles -> Fil]
      /\ f.sclust \in {0} \cup Clusters
  BY ChainsTypes
<1>1. /\ UNCHANGED <<fat, dir>> /\ f.open /\ ~f.err /\ ~Seeking
      /\ Fits(fat, f) /\ Stands(fat, f)
  BY <1>0 DEF SeekStart, Usable, Ready, store, Seeking, Chains
<1>2. /\ rewound.open = f.open /\ rewound.sclust = f.sclust
      /\ rewound.fsize = f.fsize /\ rewound.fptr = 0 /\ rewound.err = f.err
  BY <1>0 DEF Fil
<1>3. Fits(fat, rewound) /\ Stands(fat, rewound)
  BY <1>1, <1>2 DEF Fits, Stands
<1>4. CASE fil' = [fil EXCEPT ![h] = rewound] /\ Finish
  <2>1. Running'
    BY <1>4 DEF Finish, Running, Seeking, Growing
  <2>2. QED
    BY <1>1, <1>3, <1>4, <2>1, FilChains
<1>5. CASE /\ ofs > 0 /\ f.fptr > 0
           /\ fil' = [fil EXCEPT ![h] = back]
           /\ pc' = "seek" /\ op' = [NoOp EXCEPT !.h = h, !.ofs = ofs - (f.fptr - 1)]
  <2>1. PICK g : g = back
    OBVIOUS
  <2>2. /\ g.open = f.open /\ g.sclust = f.sclust /\ g.fsize = f.fsize
        /\ g.clust = f.clust /\ g.err = f.err /\ g.fptr = f.fptr - 1
    BY <1>0, <2>1 DEF Fil
  <2>3. Walked(fat, g.sclust, g.fptr, g.clust) /\ Fits(fat, g)
    BY <1>1, <1>5, <2>2 DEF Stands, Fits
  <2>4. op'.h = h /\ fil' = [fil EXCEPT ![h] = g] /\ fil'[op'.h] = g
    BY <1>0, <1>5, <2>1 DEF NoOp
  <2>5. Running' /\ Seeking'
    BY <1>1, <1>5, <2>2, <2>3, <2>4 DEF Running, Seeking, Growing
  <2>6. QED
    BY <1>1, <2>3, <2>4, <2>5, FilChains
<1>6. CASE /\ f.sclust # 0
           /\ fil' = [fil EXCEPT ![h] = first]
           /\ pc' = "seek" /\ op' = [NoOp EXCEPT !.h = h, !.ofs = ofs]
  <2>1. PICK g : g = first
    OBVIOUS
  <2>2. /\ g.open = f.open /\ g.sclust = f.sclust /\ g.fsize = f.fsize
        /\ g.clust = f.sclust /\ g.err = f.err /\ g.fptr = 0
    BY <1>0, <2>1 DEF Fil
  <2>3. Walked(fat, g.sclust, g.fptr, g.clust) /\ Fits(fat, g)
    BY <1>0, <1>1, <1>6, <2>2, WalkedFirst DEF Fits
  <2>4. op'.h = h /\ fil' = [fil EXCEPT ![h] = g] /\ fil'[op'.h] = g
    BY <1>0, <1>6, <2>1 DEF NoOp
  <2>5. Running' /\ Seeking'
    BY <1>1, <1>6, <2>2, <2>3, <2>4 DEF Running, Seeking, Growing
  <2>6. QED
    BY <1>1, <2>3, <2>4, <2>5, FilChains
<1>7. CASE /\ fil' = [fil EXCEPT ![h] = rewound]
           /\ CallCreateChain(h, 0, ofs, "seek_first")
  <2>1. op'.h = h /\ op'.ret = "seek_first" /\ pc' = "create"
    BY <1>7 DEF CallCreateChain, NoOp
  <2>2. fil'[h] = rewound
    BY <1>0, <1>7
  <2>3. Running'
    BY <1>1, <1>2, <2>1, <2>2 DEF Running, Seeking, Growing
  <2>4. QED
    BY <1>1, <1>3, <1>7, <2>3, FilChains
<1>8. QED
  BY <1>4, <1>5, <1>6, <1>7 DEF SeekStart

LEMMA SeekFirstChains == ChainsInv /\ SeekFirst => Chains'
<1> SUFFICES ASSUME ChainsInv, SeekFirst PROVE Chains'
  OBVIOUS
<1> DEFINE h == op.h
           f == fil[h]
           given == [f EXCEPT !.sclust = op.ncl, !.clust = op.ncl]
<1>0. /\ Chains /\ Running /\ RunHeads /\ Locals /\ Owners /\ pc = "seek_first"
      /\ fil \in [Handles -> Fil] /\ op \in Op
  BY ChainsTypes DEF SeekFirst
<1>1. /\ h \in Handles /\ f \in Fil /\ f.fptr = 0 /\ f.fsize = 0 /\ ~f.err
      /\ op.res = "ok" => op.ncl \in Clusters
      /\ ~Seeking /\ UNCHANGED <<fat, dir>>
  <2>1. /\ h \in Handles /\ f.open /\ f.sclust = 0 /\ f.fptr = 0
        /\ op.res = "ok" => op.ncl \in Clusters
    BY <1>0 DEF RunHeads, Growing, Locals, Pending
  <2>2. ~Seeking /\ UNCHANGED <<fat, dir>> /\ ~f.err
    BY <1>0 DEF Seeking, SeekFirst, store, Running, Growing
  <2>3. f.fsize = 0
    BY <1>0, <2>1 DEF Owners, Heads, Agrees
  <2>4. QED
    BY <1>0, <2>1, <2>2, <2>3
<1>2. CASE op.res = "error"
  BY <1>1, <1>2, AbortedChains DEF SeekFirst
<1>3. CASE op.res # "error"
  <2>1. PICK g : g = given
    OBVIOUS
  <2>2. fil' = [fil EXCEPT ![h] = g]
    BY <1>3, <2>1 DEF SeekFirst
  <2>3. /\ g.sclust = op.ncl /\ g.clust = op.ncl /\ g.fptr = 0 /\ g.fsize = 0
        /\ ~g.err
    BY <1>1, <2>1 DEF Fil
  <2>4. Fits(fat, g) /\ Stands(fat, g)
    BY <2>3, CoveredNone DEF Fits, Stands
  <2>5. CASE op.res = "ok"
    <3>1. pc' = "seek" /\ op'.h = h /\ fil'[op'.h] = g
      BY <1>0, <1>1, <2>2, <2>5 DEF SeekFirst, NoOp
    <3>2. Walked(fat, g.sclust, g.fptr, g.clust)
      BY <1>1, <2>3, <2>5, WalkedFirst
    <3>3. Running'
      BY <1>1, <2>3, <3>1, <3>2 DEF Running, Seeking, Growing
    <3>4. QED
      BY <1>1, <2>2, <2>4, <3>3, FilChains
  <2>6. CASE op.res # "ok"
    <3>1. Running'
      BY <2>6 DEF SeekFirst, Finish, Running, Seeking, Growing
    <3>2. QED
      BY <1>1, <2>2, <2>4, <3>1, FilChains
  <2>7. QED
    BY <2>5, <2>6
<1>4. QED
  BY <1>2, <1>3

LEMMA WriteStepChains == ChainsInv /\ WriteStep => Chains'
<1> SUFFICES ASSUME ChainsInv, WriteStep PROVE Chains'
  OBVIOUS
<1>0. /\ Chains /\ Running /\ RunHeads /\ Locals /\ VolumeInv
      /\ fil \in [Handles -> Fil] /\ op \in Op
  BY ChainsTypes
<1>1. ASSUME NEW h \in Handles, WriteStart(h) PROVE Chains'
  <2>1. /\ UNCHANGED <<fat, dir, fil>> /\ ~fil[h].err /\ ~Seeking
        /\ fil[h].sclust \in {0} \cup Clusters
    BY <1>1, ChainsTypes DEF WriteStart, Ready, store, Seeking
  <2>2. CASE fil[h].fptr = 0 /\ fil[h].sclust # 0
    <3>1. pc' = "write_got" /\ op'.h = h /\ op'.ncl = fil[h].sclust
      BY <1>1, <2>2 DEF WriteStart, NoOp
    <3>2. Walked(fat, fil[h].sclust, 0, fil[h].sclust)
      BY <2>1, <2>2, WalkedFirst
    <3>3. Running'
      BY <2>1, <2>2, <3>1, <3>2 DEF Running, Seeking, Growing
    <3>4. QED
      BY <2>1, <3>3, CalledChains
  <2>3. CASE ~(fil[h].fptr = 0 /\ fil[h].sclust # 0)
    <3>1. /\ pc' = "create" /\ op'.h = h /\ op'.ret = "write_got"
          /\ op'.cl = IF fil[h].fptr = 0 THEN 0 ELSE fil[h].clust
      BY <1>1, <2>3 DEF WriteStart, CallCreateChain, NoOp
    <3>2. Running'
      BY <2>1, <3>1 DEF Running, Seeking, Growing
    <3>3. QED
      BY <2>1, <3>2, CalledChains
  <2>4. QED
    BY <2>2, <2>3
<1>2. CASE SeekOn
  <2> DEFINE h == op.h
             f == fil[h]
             next == fat[f.clust]
  <2>1. /\ pc = "seek" /\ h \in Handles /\ f.open /\ f.sclust # 0 /\ ~f.err
        /\ Seeking
    BY <1>0, <1>2 DEF SeekOn, RunHeads, Locals, Running, Seeking, Growing
  <2>2. CASE fil' = [fil EXCEPT ![h] = Arrived(f)] /\ Finish /\ UNCHANGED store
    BY <2>1, <2>2, ArrivedChains DEF store
  <2>3. CASE /\ CallCreateChain(h, f.clust, op.ofs, "seek_got")
             /\ UNCHANGED <<store, fil>>
    <3>1. pc' = "create" /\ op'.h = h /\ op'.ret = "seek_got" /\ op'.cl = f.clust
      BY <2>3 DEF CallCreateChain, NoOp
    <3>2. UNCHANGED <<fat, dir, fil>>
      BY <2>3 DEF store
    <3>3. Running' /\ Seeking'
      BY <1>0, <2>1, <3>1, <3>2 DEF Running, Seeking, Growing
    <3>4. QED
      BY <3>1, <3>2, <3>3, CalledChains
  <2>4. CASE /\ next \in Clusters
             /\ fil' = [fil EXCEPT ![h] = OneFurther(f, next)]
             /\ pc' = "seek" /\ op' = [op EXCEPT !.ofs = @ - 1]
             /\ UNCHANGED <<fat, dir>>
    <3>1. op'.h = h
      BY <1>0, <2>4 DEF Op
    <3>2. QED
      BY <2>1, <2>4, <3>1, OneFurtherChains
  <2>5. CASE fil' = [fil EXCEPT ![h] = Aborted(f)] /\ Finish /\ UNCHANGED <<fat, dir>>
    BY <2>1, <2>5, AbortedChains
  <2>6. VisitFails({FatSector(f.clust)}) => UNCHANGED <<fat, dir>>
    BY <1>0, VisitFailsStore
  <2>7. QED
    BY <1>2, <2>2, <2>3, <2>4, <2>5, <2>6 DEF SeekOn
<1>3. CASE SeekGot
  <2> DEFINE h == op.h
             f == fil[h]
  <2>1. /\ pc = "seek_got" /\ h \in Handles /\ f.open /\ f.sclust # 0
        /\ UNCHANGED <<fat, dir>> /\ Seeking
    BY <1>0, <1>3
    DEF SeekGot, RunHeads, Growing, Locals, Pending, store, Seeking
  <2>2. CASE /\ op.res = "ok"
             /\ fil' = [fil EXCEPT ![h] = OneFurther(f, op.ncl)]
             /\ pc' = "seek" /\ op' = [NoOp EXCEPT !.h = h, !.ofs = op.ofs - 1]
    <3>1. op.ncl \in Clusters /\ fat[f.clust] = op.ncl
      BY <1>0, <2>1, <2>2 DEF Locals, Running
    <3>2. op'.h = h
      BY <2>2 DEF NoOp
    <3>3. QED
      BY <2>1, <2>2, <3>1, <3>2, OneFurtherChains
  <2>3. CASE fil' = [fil EXCEPT ![h] = Arrived(f)] /\ Finish
    BY <2>1, <2>3, ArrivedChains
  <2>4. CASE fil' = [fil EXCEPT ![h] = Aborted(f)] /\ Finish
    BY <2>1, <2>4, AbortedChains
  <2>5. QED
    BY <1>3, <2>2, <2>3, <2>4 DEF SeekGot
<1>4. QED
  BY <1>1, <1>2, <1>3, WriteGotChains, SeekStartChains, SeekFirstChains
  DEF WriteStep

-----------------------------------------------------------------------------
(* f_sync, f_close, sync_fs, and the name functions.                       *)

(* A FIL changes in nothing that its chain depends on.                     *)
LEMMA MarkedChains ==
    ASSUME ChainsInv, ~Seeking, UNCHANGED fat, Covers(fat', dir'),
           NEW h \in Handles, NEW g, fil' = [fil EXCEPT ![h] = g],
           g.open = fil[h].open, g.sclust = fil[h].sclust, g.fsize = fil[h].fsize,
           g.fptr = fil[h].fptr, g.clust = fil[h].clust, g.err = fil[h].err,
           pc' \notin Growing \cup {"seek"}
    PROVE  Chains'
<1>0. Chains /\ fil \in [Handles -> Fil]
  BY ChainsTypes
<1>1. \A k \in Handles : fil'[k] = IF k = h THEN g ELSE fil[k]
  BY <1>0
<1>2. \A k \in Handles : Fits(fat', fil'[k]) /\ Stands(fat', fil'[k])
  BY <1>0, <1>1 DEF Chains, Fits, Stands
<1>3. QED
  BY <1>2, FinishChains

LEMMA SyncReturnsChains ==
    ASSUME ChainsInv, pc \in {"sync", "fsinfo"}, UNCHANGED <<fat, dir>>,
           \/ Goto("fsinfo") /\ UNCHANGED fil
           \/ SyncReturns
    PROVE  Chains'
<1>0. /\ Chains /\ Locals /\ fil \in [Handles -> Fil] /\ ~Seeking
      /\ Covers(fat', dir')
  BY ChainsTypes DEF Seeking, Chains, Covers
<1>1. pc' \notin Growing \cup {"seek"}
  BY DEF Goto, SyncReturns, Finish, Growing
<1>2. CASE UNCHANGED fil
  BY <1>0, <1>1, <1>2, QuietChains
<1>3. CASE SyncReturns /\ op.ret = "closed"
  <2> DEFINE h == op.h
  <2>1. PICK g : g = [fil[h] EXCEPT !.closing = TRUE]
    OBVIOUS
  <2>2. h \in Handles /\ fil' = [fil EXCEPT ![h] = g]
    BY <1>0, <1>3, <2>1 DEF SyncReturns, Locals
  <2>3. /\ g.open = fil[h].open /\ g.sclust = fil[h].sclust
        /\ g.fsize = fil[h].fsize /\ g.fptr = fil[h].fptr
        /\ g.clust = fil[h].clust /\ g.err = fil[h].err
    BY <1>0, <2>1, <2>2 DEF Fil
  <2>4. QED
    BY <1>0, <1>1, <2>2, <2>3, MarkedChains
<1>4. QED
  BY <1>2, <1>3 DEF SyncReturns

LEMMA SyncStepChains == ChainsInv /\ SyncStep => Chains'
<1> SUFFICES ASSUME ChainsInv, SyncStep PROVE Chains'
  OBVIOUS
<1>0. /\ ~Seeking /\ Chains /\ Covers(fat, dir) /\ TablesType(fat, dir) /\ VolumeInv
      /\ fil \in [Handles -> Fil]
  BY StepsStart, ChainsTypes DEF Seeking, Chains
<1>1. ASSUME NEW h \in Handles, NEW closing \in BOOLEAN, SyncClean(h, closing)
      PROVE  Chains'
  <2>1. PICK g : g = [fil[h] EXCEPT !.closing = @ \/ closing]
    OBVIOUS
  <2>2. /\ fil' = [fil EXCEPT ![h] = g] /\ UNCHANGED <<fat, dir>>
        /\ pc' \notin Growing \cup {"seek"}
    BY <1>1, <2>1 DEF SyncClean, Ready, store, Growing
  <2>3. /\ g.open = fil[h].open /\ g.sclust = fil[h].sclust
        /\ g.fsize = fil[h].fsize /\ g.fptr = fil[h].fptr
        /\ g.clust = fil[h].clust /\ g.err = fil[h].err
    BY <1>0, <2>1 DEF Fil
  <2>4. Covers(fat', dir')
    BY <1>0, <2>2 DEF Covers
  <2>5. QED
    BY <1>0, <2>2, <2>3, <2>4, MarkedChains
<1>2. ASSUME NEW h \in Handles, NEW closing \in BOOLEAN, SyncStart(h, closing)
      PROVE  Chains'
  <2> DEFINE f == fil[h]
  <2>1. CASE VisitFails({DirSector(f.slot)}) /\ Finish /\ UNCHANGED fil
    BY <1>0, <2>1, VisitFailsChains
  <2>2. CASE /\ dir' = [dir EXCEPT ![f.slot] = Resized(@, f.sclust, f.fsize)]
             /\ fil' = [fil EXCEPT ![h].written = FALSE]
             /\ pc' = "sync" /\ UNCHANGED fat
    <3>1. f.open /\ f \in Fil /\ f.slot \in Slots
      BY <1>0, <1>2, OpenFilSlot DEF SyncStart, Usable
    <3>2. PICK e : e = Resized(dir[f.slot], f.sclust, f.fsize)
      OBVIOUS
    <3>3. e.sclust = f.sclust /\ e.size = f.fsize
      BY <1>0, <3>1, <3>2 DEF Resized, Entry, TablesType
    <3>4. Covered(fat, f.sclust, f.fsize)
      BY <1>0, <3>1 DEF Chains, Fits
    <3>5. Covers(fat', dir')
      BY <2>2, <3>1, <3>2, <3>3, <3>4, EntryCovers
    <3>6. PICK g : g = [f EXCEPT !.written = FALSE]
      OBVIOUS
    <3>7. /\ g.open = f.open /\ g.sclust = f.sclust /\ g.fsize = f.fsize
          /\ g.fptr = f.fptr /\ g.clust = f.clust /\ g.err = f.err
      BY <3>1, <3>6 DEF Fil
    <3>8. fil' = [fil EXCEPT ![h] = g] /\ pc' \notin Growing \cup {"seek"}
      BY <2>2, <3>6 DEF Growing
    <3>9. QED
      BY <1>0, <2>2, <3>5, <3>7, <3>8, MarkedChains
  <2>3. QED
    BY <1>2, <2>1, <2>2 DEF SyncStart
<1>3. ASSUME NEW h \in Handles, Close(h) PROVE Chains'
  <2>1. /\ fil' = [fil EXCEPT ![h] = ClosedFil] /\ UNCHANGED <<fat, dir>>
        /\ pc' \notin Growing \cup {"seek"}
    BY <1>3 DEF Close, Ready, store, Growing
  <2>2. Fits(fat, ClosedFil) /\ Stands(fat, ClosedFil)
    BY DEF Fits, Stands, ClosedFil
  <2>3. Running'
    BY <2>1 DEF Running, Seeking, Growing
  <2>4. QED
    BY <1>0, <2>1, <2>2, <2>3, FilChains
<1>4. CASE SyncWindow
  BY <1>4, SyncReturnsChains DEF SyncWindow
<1>5. CASE SyncFails
  BY <1>0, <1>5, QuietChains DEF SyncFails, Finish, Growing
<1>6. CASE SyncFsInfo
  BY <1>6, SyncReturnsChains DEF SyncFsInfo
<1>7. QED
  BY <1>1, <1>2, <1>3, <1>4, <1>5, <1>6 DEF SyncStep

LEMMA NameStepChains == ChainsInv /\ NameStep => Chains'
<1> SUFFICES ASSUME ChainsInv, NameStep PROVE Chains'
  OBVIOUS
<1>0. /\ ~Seeking /\ Chains /\ Covers(fat, dir) /\ TablesType(fat, dir) /\ VolumeInv
      /\ Locals
  BY StepsStart, ChainsTypes DEF Seeking, Chains
<1>1. ASSUME NEW n, LookUp(n) PROVE Chains'
  BY <1>0, <1>1, QuietChains DEF LookUp, Finish, Growing
<1>2. PICK e : e = Erased
  OBVIOUS
<1>3. Covered(fat, e.sclust, e.size)
  BY <1>2, CoveredNone DEF Erased
<1>4. ASSUME NEW n \in Names, Unlink(n) PROVE Chains'
  <2>1. PICK i \in Found(n) :
          /\ dir' = [dir EXCEPT ![i] = Erased]
          /\ IF dir[i].sclust = 0
             THEN pc' = "sync"
             ELSE CallRemoveChain(i, dir[i].sclust, FALSE, "-", "sync")
    BY <1>4 DEF Unlink
  <2>2. i \in Slots /\ UNCHANGED <<fat, fil>> /\ pc' \notin Growing \cup {"seek"}
    BY <1>4, <2>1 DEF Unlink, Found, CallRemoveChain, Growing
  <2>3. QED
    BY <1>0, <1>2, <1>3, <2>1, <2>2, EntryChains
<1>5. ASSUME NEW from \in Names, NEW to \in Names, Rename(from, to) PROVE Chains'
  <2>1. PICK i \in Found(from), j \in Slots :
          dir' = [dir EXCEPT ![j] = Renamed(dir[i], to)]
    BY <1>5 DEF Rename
  <2>2. i \in Slots /\ UNCHANGED <<fat, fil>> /\ pc' \notin Growing \cup {"seek"}
    BY <1>5, <2>1 DEF Rename, Found, Growing
  <2>3. PICK r : r = Renamed(dir[i], to)
    OBVIOUS
  <2>4. r.sclust = dir[i].sclust /\ r.size = dir[i].size
    BY <1>0, <2>2, <2>3 DEF Renamed, Entry, TablesType
  <2>5. Covered(fat, r.sclust, r.size)
    BY <1>0, <2>2, <2>4 DEF Covers
  <2>6. QED
    BY <1>0, <2>1, <2>2, <2>3, <2>5, EntryChains
<1>6. CASE RenameRemove
  <2>1. op.slot \in Slots /\ UNCHANGED fil
    BY <1>0, <1>6 DEF RenameRemove, Locals
  <2>2. CASE /\ dir' = [dir EXCEPT ![op.slot] = Erased] /\ pc' = "sync"
             /\ UNCHANGED fat
    BY <1>0, <1>2, <1>3, <2>1, <2>2, EntryChains DEF Growing
  <2>3. CASE VisitFails({DirSector(op.slot)}) /\ Finish
    BY <1>0, <2>1, <2>3, VisitFailsChains
  <2>4. QED
    BY <1>6, <2>2, <2>3 DEF RenameRemove
<1>7. CASE GetFree
  BY <1>0, <1>7, QuietChains DEF GetFree, Finish, Growing
<1>8. CASE GetFreeFails
  <2>1. PICK s : LoadFails(0 .. s) \/ WriteBackFails(0 .. s)
    BY <1>8 DEF GetFreeFails
  <2>2. VisitFails(0 .. s) /\ Finish /\ UNCHANGED fil
    BY <1>8, <2>1 DEF GetFreeFails, VisitFails
  <2>3. QED
    BY <1>0, <2>2, VisitFailsChains
<1>9. QED
  BY <1>1, <1>4, <1>5, <1>6, <1>7, <1>8 DEF NameStep, UnlinkRefused, RenameRefused

-----------------------------------------------------------------------------
(* The theorems.                                                           *)

LEMMA ChainsStep == Scope /\ ChainsInv /\ [Next]_vars => ChainsInv'
<1> SUFFICES ASSUME Scope, ChainsInv, [Next]_vars PROVE ChainsInv'
  OBVIOUS
<1>1. OwnersInv'
  BY OwnersStep DEF ChainsInv
<1>2. Covers(dfat', ddir')
  <2>1. UNCHANGED medium \/ medium' = <<fat, dir>>
    BY ChainsTypes, StepKeeps DEF Keeps
  <2>2. Covers(fat, dir) /\ Covers(dfat, ddir)
    BY DEF ChainsInv, Chains
  <2>3. QED
    BY <2>1, <2>2 DEF Covers, medium
<1>3. Chains'
  <2>1. ASSUME UNCHANGED <<fat, dir, fil, pc, op>> PROVE Chains'
    <3>1. Running' /\ (Seeking' <=> Seeking)
      BY <2>1, ChainsTypes DEF Running, Seeking
    <3>2. QED
      BY <2>1, <3>1, CalledChains
  <2>2. CASE Unmount \/ PowerLoss
    <3>1. /\ fat' = dfat /\ dir' = ddir /\ fil' = [h \in Handles |-> ClosedFil]
          /\ pc' = "idle"
      BY <2>2 DEF Unmount, PowerLoss, Dismount, Finish
    <3>2. Covers(fat', dir')
      BY <3>1 DEF ChainsInv, Covers
    <3>3. \A h \in Handles : Fits(fat', fil'[h]) /\ Stands(fat', fil'[h])
      BY <3>1 DEF Fits, Stands, ClosedFil
    <3>4. QED
      BY <3>1, <3>2, <3>3, FinishChains DEF Growing
  <2>3. QED
    BY <2>1, <2>2, ChainStepChains, OpenStepChains, WriteStepChains,
       SyncStepChains, NameStepChains
    DEF Next, Mount, store, vars
<1>4. QED
  BY <1>1, <1>2, <1>3 DEF ChainsInv

LEMMA ChainsInitially == Init => ChainsInv
<1> SUFFICES ASSUME Init PROVE ChainsInv
  OBVIOUS
<1>1. /\ dir = [i \in Slots |-> [name |-> End, sclust |-> 0, size |-> 0]]
      /\ dfat = fat /\ ddir = dir
      /\ fil = [h \in Handles |-> ClosedFil] /\ pc = "idle"
  BY DEF Init
<1>2. Covers(fat, dir)
  BY <1>1, CoveredNone DEF Covers
<1>3. \A h \in Handles : Fits(fat, fil[h]) /\ Stands(fat, fil[h])
  BY <1>1 DEF Fits, Stands, ClosedFil
<1>4. Running
  BY <1>1 DEF Running, Seeking, Growing
<1>5. QED
  BY <1>1, <1>2, <1>3, <1>4, OwnersInitially DEF ChainsInv, Chains

(* Every reachable state satisfies the inductive invariant: chains are as  *)
(* long as entries and FILs say, and f_lseek and f_write stand on them     *)
(* where the offset says.                                                  *)
THEOREM ChainsInvariant == Scope => (Spec => []ChainsInv)
<1> SUFFICES ASSUME Scope PROVE Spec => []ChainsInv
  OBVIOUS
<1>1. ChainsInv /\ [Next]_vars => ChainsInv'
  BY ChainsStep
<1>2. QED
  BY <1>1, ChainsInitially, PTL DEF Spec

(* No entry promises more clusters than its chain has, in memory or on the *)
(* medium, whatever failed in between: f_sync writes the size after the    *)
(* links, and nothing frees a cluster of a file that is still named.       *)
THEOREM SizesCovered == Scope => (Spec => []SizeCovered)
<1> SUFFICES ASSUME Scope PROVE Spec => []SizeCovered
  OBVIOUS
<1>1. ChainsInv => SizeCovered
  BY DEF ChainsInv, Chains, Covers, Covered, SizeCovered, SizeCoveredIn
<1>2. QED
  BY <1>1, ChainsInvariant, PTL

(* FIL.clust is the cluster that FIL.fptr names, whichever of f_write's    *)
(* and f_lseek's ways led there: reading or writing goes to the file.      *)
THEOREM FilsOnChain == Scope => (Spec => []FilOnChain)
<1> SUFFICES ASSUME Scope PROVE Spec => []FilOnChain
  OBVIOUS
<1>1. ChainsInv => FilOnChain
  BY DEF ChainsInv, Chains, Stands, Walked, Seeking, FilOnChain
<1>2. QED
  BY <1>1, ChainsInvariant, PTL

=============================================================================
